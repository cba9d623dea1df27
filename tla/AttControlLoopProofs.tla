------------------------ MODULE AttControlLoopProofs ------------------------
(***************************************************************************)
(* Proofs about the control task, for every value of the constants: the    *)
(* the type invariant, that the rate integrator stays within the integral  *)
(* limit last used by control_attitude_rates, and that the UDE integrator  *)
(* stays strictly inside INT_LIMIT.  The first lemmas are about  *)
(* the float operators and the integrator step; the loop theorems cite    *)
(* them by name.                                                           *)
(***************************************************************************)
EXTENDS AttControlLoop, TLAPS

-----------------------------------------------------------------------------
(* The operators of ControlMath, RateControl and UdeControl.               *)

\* math::constrain of a finite value lands inside the band.
LEMMA ConstrainInBand ==
    ASSUME NEW v \in Int, NEW lo \in Int, NEW hi \in Int, lo <= hi
    PROVE  Constrain(v, lo, hi) \in lo..hi
BY NaNAssumption DEF Constrain

\* The anti-windup of an error is still an error value.
LEMMA AntiWindupErrVal ==
    ASSUME NEW err \in Val, NEW sf
    PROVE  AntiWindupErr(err, sf) \in Val
BY DEF AntiWindupErr, FMin, FMax, Val

\* One discard-or-commit step of an axis keeps a finite integrator finite.
LEMMA IntegrateAxisInt ==
    ASSUME NEW int \in Int, NEW lim \in Int, NEW err \in Val, NEW sf
    PROVE  IntegrateAxis(int, lim, err, sf) \in Int
<1>1. AntiWindupErr(err, sf) \in Val
    BY AntiWindupErrVal
<1>2. Plus(int, AntiWindupErr(err, sf)) \in Val
    BY <1>1 DEF Plus, Val
<1>. QED
    BY <1>2 DEF IntegrateAxis, IsFinite, Val

\* control_attitude_rates leaves every axis of the integrator finite and
\* within [-lim, lim], whatever it held, the error, the thrust and the flags.
LEMMA RatesIntStepBounded ==
    ASSUME NEW int \in [Axes -> Int], NEW lim \in [Axes -> Nat],
           NEW active \in BOOLEAN, NEW thrust, NEW err \in [Axes -> Val],
           NEW sf
    PROVE  /\ RatesIntStep(int, lim, active, thrust, err, sf) \in [Axes -> Int]
           /\ \A a \in Axes : RatesIntStep(int, lim, active, thrust, err, sf)[a]
                                \in -lim[a]..lim[a]
<1>. DEFINE i0 == IF active THEN int ELSE ZeroVector(Axes)
            i1 == IF Greater(thrust, MinTakeoffThrust)
                  THEN [a \in Axes |-> IntegrateAxis(i0[a], lim[a], err[a], sf[a])]
                  ELSE i0
<1>1. i0 \in [Axes -> Int]
    BY DEF ZeroVector
<1>2. i1 \in [Axes -> Int]
    BY <1>1, IntegrateAxisInt
<1>3. \A a \in Axes : Constrain(i1[a], -lim[a], lim[a]) \in -lim[a]..lim[a]
    <2>. TAKE a \in Axes
    <2>1. i1[a] \in Int /\ -lim[a] \in Int /\ lim[a] \in Int /\ -lim[a] <= lim[a]
        BY <1>2
    <2>. QED
        BY <2>1, ConstrainInBand
<1>. QED
    BY <1>3 DEF RatesIntStep

\* The values integral_ude may hold: strictly inside (-INT_LIMIT, INT_LIMIT).
UdeBand == (1 - UdeLimit)..(UdeLimit - 1)

\* integral_ude is strictly inside INT_LIMIT: the commit test of every UDE
\* variant, the resets and the termination override never store a value
\* at or beyond the limit.  Part of the inductive invariant below.
UdeIntegralWithinLimit ==
    \A i \in UdeAxes : integral_ude[i] \in UdeBand

\* A zeroed integrator is inside the band.
LEMMA ZeroInUdeBand == ZeroVector(UdeAxes) \in [UdeAxes -> UdeBand]
BY UdeLimitAssumption DEF ZeroVector, UdeBand

\* The commit test only ever stores a finite value strictly inside the
\* limits, and otherwise keeps what was there.
LEMMA CommitUdeBand ==
    ASSUME NEW iu \in UdeBand, NEW v \in Val
    PROVE  CommitUde(iu, v) \in UdeBand
<1>1. CASE IsFinite(v) /\ v > -UdeLimit /\ v < UdeLimit
    <2>1. v \in Int
        BY <1>1 DEF IsFinite, Val
    <2>2. v \in UdeBand
        BY <1>1, <2>1, UdeLimitAssumption DEF UdeBand
    <2>. QED
        BY <1>1, <2>2 DEF CommitUde
<1>2. CASE ~(IsFinite(v) /\ v > -UdeLimit /\ v < UdeLimit)
    BY <1>2 DEF CommitUde
<1>. QED
    BY <1>1, <1>2

\* Both UDE integrator updates keep the integrator inside the band.
LEMMA UdeIntegralBand ==
    ASSUME NEW iu \in UdeBand, NEW x \in Val, NEW thrust
    PROVE  /\ CascadeIntegral(iu, x, thrust) \in UdeBand
           /\ PdIntegral(iu, x, thrust) \in UdeBand
<1>1. iu \in Int
    BY DEF UdeBand
<1>2. Minus(iu, x) \in Val /\ Plus(iu, x) \in Val
    BY <1>1 DEF Plus, Minus, Val
<1>. QED
    BY <1>2, CommitUdeBand DEF CascadeIntegral, PdIntegral

-----------------------------------------------------------------------------
(* The control task.                                                       *)

\* The inductive invariant: the type invariant strengthened by the bound
\* of the rate integrator.  The bound is needed because the classical path
\* with rate control off keeps the integrator (and int_lim_used) as they
\* were, so only the previous bound shows it is still within the limit.
IInv == TypeOK /\ IntegratorWithinLimit /\ UdeIntegralWithinLimit

\* The UDE integrator of an IInv state is inside the band.
LEMMA UdeIntInBand ==
    ASSUME IInv
    PROVE  integral_ude \in [UdeAxes -> UdeBand]
BY DEF IInv, TypeOK, UdeIntegralWithinLimit, UdeBand

\* Both resets keep the integrator inside the band.
LEMMA ResetInBand ==
    ASSUME IInv, NEW active \in BOOLEAN, NEW u
    PROVE  /\ UdeReset(integral_ude, active) \in [UdeAxes -> UdeBand]
           /\ MUdeReset(integral_ude, u, active) \in [UdeAxes -> UdeBand]
BY UdeIntInBand, ZeroInUdeBand DEF UdeReset, MUdeReset

\* The loaded integral limits are natural numbers.
LEMMA PrmLim ==
    ASSUME TypeOK
    PROVE  prm.lim \in [Axes -> Nat]
BY LoopConstAssumption DEF TypeOK, ParamRec

\* The rate error of a setpoint of float values is a float value.
LEMMA RateErrVal ==
    ASSUME TypeOK, NEW sp \in [Axes -> Val]
    PROVE  RateErr(sp) \in [Axes -> Val]
BY DEF TypeOK, RateErr, Minus, Val

\* The weather-vane branch only ever zeroes the yaw integrator.
LEMMA WeathervaneBounded ==
    ASSUME IInv, NEW wv \in BOOLEAN
    PROVE  /\ WeathervaneInt(rates_int, wv) \in [Axes -> Int]
           /\ \A a \in Axes : WeathervaneInt(rates_int, wv)[a]
                                \in -int_lim_used[a]..int_lim_used[a]
BY DEF IInv, TypeOK, IntegratorWithinLimit, WeathervaneInt

\* A vector of substituted channels, published or not, is a sequence of
\* actuator vectors.
LEMMA PublishType ==
    ASSUME NEW vec \in [Chans -> OutVals]
    PROVE  Publish(vec) \in Seq([Chans -> OutVals])
<1>1. << vec >> \in Seq([Chans -> OutVals])
    OBVIOUS
<1>2. << >> \in Seq([Chans -> OutVals])
    OBVIOUS
<1>. QED
    BY <1>1, <1>2 DEF Publish

LEMMA OutType ==
    ASSUME NEW b \in BOOLEAN
    PROVE  Out(b) \in OutVals
BY DEF Out, OutVals

\* The end of an iteration re-establishes the invariant from well-typed
\* results whose integrator is within the limit it records.
LEMMA FinishInv ==
    ASSUME IInv, NEW thr \in Val, NEW uthr \in Val, NEW ri \in [Axes -> Int],
           NEW lu \in [Axes -> Nat], NEW pf \in [Axes -> BOOLEAN],
           NEW iu \in [UdeAxes -> UdeBand], NEW utf \in [Axes -> BOOLEAN],
           NEW tdr \in [UdeAxes -> BOOLEAN], NEW tdd \in [UdeAxes -> BOOLEAN],
           NEW mf \in MFiltRec, NEW pb \in Seq([Chans -> OutVals]), NEW r \in SUBSET Ops,
           NEW streak \in 0..StreakBound, rates_streak' \in 0..StreakBound,
           \A a \in Axes : ri[a] \in -lu[a]..lu[a],
           Finish(thr, uthr, ri, lu, pf, iu, utf, tdr, tdd, mf, pb, r, streak)
    PROVE  IInv'
<1>1. ZeroOut \in [Chans -> OutVals]
    BY DEF ZeroOut, OutVals
<1>2. pb \o Publish(ZeroOut) \in Seq([Chans -> OutVals])
    <2>1. Publish(ZeroOut) \in Seq([Chans -> OutVals])
        BY <1>1, PublishType
    <2>. QED
        BY <2>1
<1>3. TypeOK'
    <2>1. ran' \subseteq Ops
        BY DEF Finish, Ops
    <2>2. pubs' \in Seq([Chans -> OutVals])
        BY <1>2 DEF Finish
    <2>3. rates_int' \in [Axes -> Int] /\ integral_ude' \in [UdeAxes -> UdeBand]
        BY ZeroInUdeBand DEF Finish, ZeroVector
    <2>4. thrust_sp' \in Val /\ ude_thr' \in Val /\ mfilt' \in MFiltRec
        BY DEF Finish, Val
    <2>6. UdeBand \subseteq Int
        BY DEF UdeBand
    <2>5. UNCHANGED <<cm, cm_msg, status, act_id, prm, gyro, sat, stick>>
        BY DEF Finish
    <2>. QED
        BY <2>1, <2>2, <2>3, <2>4, <2>5, <2>6 DEF IInv, TypeOK, Finish
<1>4. IntegratorWithinLimit'
    BY DEF Finish, IntegratorWithinLimit, ZeroVector
<1>5. UdeIntegralWithinLimit'
    <2>1. integral_ude' \in [UdeAxes -> UdeBand]
        BY ZeroInUdeBand DEF Finish
    <2>. QED
        BY <2>1 DEF UdeIntegralWithinLimit, UdeBand
<1>. QED
    BY <1>3, <1>4, <1>5 DEF IInv

\* The iteration's step count stays within its bound.
LEMMA NextStreakType ==
    ASSUME TypeOK, NEW fin \in BOOLEAN
    PROVE  NextStreak(fin) \in 0..StreakBound
BY LoopConstAssumption DEF TypeOK, NextStreak, IMin

\* So does the count of calls of the rate controller.
LEMMA NextRatesStreakType ==
    ASSUME TypeOK, NEW sp
    PROVE  NextRatesStreak(sp) \in 0..StreakBound
BY LoopConstAssumption DEF TypeOK, NextRatesStreak, IMin

\* The finiteness flags an iteration computes are Booleans.
LEMMA FinFlagsType ==
    ASSUME TypeOK, NEW sp \in [Axes -> Val]
    PROVE  /\ AttCtlFin(sp) \in [Axes -> BOOLEAN]
           /\ FiltFin \in [Axes -> BOOLEAN]
BY DEF TypeOK, AttCtlFin, AttControlFinite, FiltFin, IsFinite

\* The rattitude override keeps a control mode a control mode.
LEMMA RattitudeOverrideType ==
    ASSUME NEW mode \in ModeRec, NEW beyond \in BOOLEAN
    PROVE  RattitudeOverride(mode, beyond) \in ModeRec
BY DEF RattitudeOverride, ModeRec

\* Copying the inputs leaves the controller state and the bound alone.
LEMMA PollInputsInv ==
    ASSUME IInv, PollInputs
    PROVE  IInv'
<1>1. PICK g \in [Axes -> GyroRates], cmNew \in ControlModes \cup {NoMsg},
           stNew \in Statuses \cup {NoMsg}, p \in Params,
           s \in [Axes -> SatInputs], beyond \in StickInputs :
         LET mode == IF cmNew = NoMsg THEN cm ELSE cmNew
         IN  /\ cm_msg' = IF cmNew = NoMsg THEN cm_msg ELSE cmNew
             /\ cm' = RattitudeOverride(mode, beyond)
             /\ status' = IF stNew = NoMsg THEN status ELSE stNew
             /\ act_id' = IF stNew # NoMsg /\ act_id = "none"
                          THEN IF stNew.vtol THEN "virtual" ELSE "mc"
                          ELSE act_id
             /\ prm' = p
             /\ gyro' = g
             /\ sat' = s
             /\ stick' = beyond
    BY DEF PollInputs
<1>2. cm' \in ModeRec /\ cm_msg' \in ModeRec
    <2>1. (IF cmNew = NoMsg THEN cm ELSE cmNew) \in ModeRec
        BY LoopConstAssumption DEF IInv, TypeOK
    <2>2. beyond \in BOOLEAN
        BY LoopConstAssumption
    <2>. QED
        BY <1>1, <2>1, <2>2, RattitudeOverrideType, LoopConstAssumption DEF IInv, TypeOK
<1>3. status' \in StatusRec /\ act_id' \in {"none", "mc", "virtual"}
    BY <1>1, LoopConstAssumption DEF IInv, TypeOK
<1>4. /\ prm' \in Params /\ gyro' \in [Axes -> Val] /\ sat' \in [Axes -> SatFlags]
      /\ stick' \in BOOLEAN
    BY <1>1, LoopConstAssumption DEF IInv, TypeOK
<1>5. /\ pc' = "run" /\ pubs' = << >> /\ ran' = {}
      /\ UNCHANGED <<thrust_sp, ude_thr, rates_int, int_lim_used, prev_filt_fin,
                     integral_ude, u_total_fin, td_ref_fin, td_dot_fin, mfilt,
                     fin_streak, rates_streak>>
    BY DEF PollInputs
<1>6. << >> \in Seq([Chans -> OutVals])
    OBVIOUS
<1>. QED
    BY <1>2, <1>3, <1>4, <1>5, <1>6
    DEF IInv, TypeOK, IntegratorWithinLimit, UdeIntegralWithinLimit

\* The inputs an iteration draws are float values.
LEMMA InputsVal ==
    ASSUME NEW sp \in [Axes -> RateSetpoints], NEW thr \in Thrusts
    PROVE  sp \in [Axes -> Val] /\ thr \in Val
BY LoopConstAssumption

\* A cascade-UDE iteration preserves the invariant.
LEMMA CascadeInv ==
    ASSUME IInv, CascadeUdeIteration
    PROVE  IInv'
<1>1. PICK sp \in [Axes -> RateSetpoints], thr \in Thrusts,
           ref \in [UdeAxes -> BOOLEAN], wv \in BOOLEAN :
         CascadeUdeStep(sp, thr, ref, wv)
    BY DEF CascadeUdeIteration
<1>. DEFINE iu0 == UdeReset(integral_ude, Active)
            err == RateErr(sp)
            ri == RatesIntStep(WeathervaneInt(rates_int, wv), prm.lim,
                               Active, thr, err, sat)
            iu == [i \in UdeAxes |-> CascadeIntegral(iu0[i], err[i], thr)]
            utf == [a \in Axes |-> IF a \in UdeAxes THEN IsFinite(err[a])
                                   ELSE AttCtlFin(sp)[a]]
<1>2. sp \in [Axes -> Val] /\ thr \in Val /\ err \in [Axes -> Val]
    BY InputsVal, RateErrVal DEF IInv
<1>3. ri \in [Axes -> Int] /\ \A a \in Axes : ri[a] \in -prm.lim[a]..prm.lim[a]
    <2>1. WeathervaneInt(rates_int, wv) \in [Axes -> Int]
        BY WeathervaneBounded
    <2>2. prm.lim \in [Axes -> Nat] /\ Active \in BOOLEAN
        BY PrmLim DEF IInv, TypeOK, Active, StatusRec, ModeRec
    <2>. QED
        BY <1>2, <2>1, <2>2, RatesIntStepBounded
<1>4. iu \in [UdeAxes -> UdeBand]
    <2>1. iu0 \in [UdeAxes -> UdeBand]
        BY ResetInBand DEF IInv, TypeOK, Active, StatusRec, ModeRec
    <2>2. \A i \in UdeAxes : err[i] \in Val
        BY <1>2 DEF UdeAxes
    <2>. QED
        BY <2>1, <2>2, UdeIntegralBand
<1>5. utf \in [Axes -> BOOLEAN] /\ FiltFin \in [Axes -> BOOLEAN]
    BY <1>2, FinFlagsType DEF IInv, IsFinite
<1>6. Publish(UdeOut(utf, thr)) \in Seq([Chans -> OutVals])
    <2>1. UdeOut(utf, thr) \in [Chans -> OutVals]
        BY <1>5 DEF UdeOut, MixerFinite, Chans, Out, OutVals
    <2>. QED
        BY <2>1, PublishType
<1>7. NextStreak(UdeInputsFinite(sp, ref)) \in 0..StreakBound
    BY NextStreakType DEF IInv, UdeInputsFinite
<1>8. Finish(thr, thr, ri, prm.lim, FiltFin, iu, utf, td_ref_fin, td_dot_fin,
             mfilt, Publish(UdeOut(utf, thr)), {"att", "rates", "ude"},
             NextStreak(UdeInputsFinite(sp, ref)))
    BY <1>1 DEF CascadeUdeStep
<1>9. prm.lim \in [Axes -> Nat] /\ {"att", "rates", "ude"} \in SUBSET Ops
    BY PrmLim DEF IInv, Ops
<1>20. rates_streak' \in 0..StreakBound
    BY <1>1, NextRatesStreakType DEF IInv, CascadeUdeStep
<1>. QED
    BY <1>2, <1>3, <1>4, <1>5, <1>6, <1>7, <1>8, <1>9, <1>20, FinishInv DEF IInv, TypeOK

\* A PD+UDE iteration preserves the invariant.
LEMMA PdUdeInv ==
    ASSUME IInv, PdUdeIteration
    PROVE  IInv'
<1>1. PICK sp \in [Axes -> RateSetpoints], thr \in Thrusts,
           ref \in [UdeAxes -> BOOLEAN], wv \in BOOLEAN,
           step \in [UdeAxes -> UdeSteps] :
         PdUdeStep(sp, thr, ref, wv, step)
    BY DEF PdUdeIteration
<1>. DEFINE iu0 == UdeReset(integral_ude, Active)
            err == RateErr(sp)
            ri == RatesIntStep(WeathervaneInt(rates_int, wv), prm.lim,
                               Active, thr, err, sat)
            hpf == [i \in UdeAxes |-> TdHpfFinite(td_dot_fin[i], td_ref_fin[i], ref[i])]
            eRate == [i \in UdeAxes |->
                        PdRateErrFinite(hpf[i], IsFinite(gyro[i]), IsFinite(err[i]))]
            iu == [i \in UdeAxes |->
                     PdIntegral(iu0[i], IF ref[i] /\ eRate[i] THEN step[i] ELSE NaN, thr)]
            utf == [a \in Axes |-> IF a \in UdeAxes THEN ref[a] /\ eRate[a]
                                   ELSE AttCtlFin(sp)[a]]
<1>2. sp \in [Axes -> Val] /\ thr \in Val /\ err \in [Axes -> Val]
    BY InputsVal, RateErrVal DEF IInv
<1>3. ri \in [Axes -> Int] /\ \A a \in Axes : ri[a] \in -prm.lim[a]..prm.lim[a]
    <2>1. WeathervaneInt(rates_int, wv) \in [Axes -> Int]
        BY WeathervaneBounded
    <2>2. prm.lim \in [Axes -> Nat] /\ Active \in BOOLEAN
        BY PrmLim DEF IInv, TypeOK, Active, StatusRec, ModeRec
    <2>. QED
        BY <1>2, <2>1, <2>2, RatesIntStepBounded
<1>4. hpf \in [UdeAxes -> BOOLEAN] /\ eRate \in [UdeAxes -> BOOLEAN]
    BY DEF IInv, TypeOK, TdHpfFinite, PdRateErrFinite, IsFinite
<1>5. iu \in [UdeAxes -> UdeBand]
    <2>1. iu0 \in [UdeAxes -> UdeBand]
        BY ResetInBand DEF IInv, TypeOK, Active, StatusRec, ModeRec
    <2>2. \A i \in UdeAxes : (IF ref[i] /\ eRate[i] THEN step[i] ELSE NaN) \in Val
        BY UdeStepsAssumption DEF Val
    <2>. QED
        BY <2>1, <2>2, UdeIntegralBand
<1>6. utf \in [Axes -> BOOLEAN] /\ FiltFin \in [Axes -> BOOLEAN]
    BY <1>2, <1>4, FinFlagsType DEF IInv
<1>7. Publish(UdeOut(utf, thr)) \in Seq([Chans -> OutVals])
    <2>1. UdeOut(utf, thr) \in [Chans -> OutVals]
        BY <1>6 DEF UdeOut, MixerFinite, Chans, Out, OutVals
    <2>. QED
        BY <2>1, PublishType
<1>8. NextStreak(UdeInputsFinite(sp, ref)) \in 0..StreakBound
    BY NextStreakType DEF IInv, UdeInputsFinite
<1>9. Finish(thr, thr, ri, prm.lim, FiltFin, iu, utf, ref, hpf, mfilt,
             Publish(UdeOut(utf, thr)), {"att", "rates", "ude"},
             NextStreak(UdeInputsFinite(sp, ref)))
    BY <1>1 DEF PdUdeStep
<1>10. prm.lim \in [Axes -> Nat] /\ {"att", "rates", "ude"} \in SUBSET Ops
    BY PrmLim DEF IInv, Ops
<1>20. rates_streak' \in 0..StreakBound
    BY <1>1, NextRatesStreakType DEF IInv, PdUdeStep
<1>. QED
    BY <1>2, <1>3, <1>4, <1>5, <1>6, <1>7, <1>8, <1>9, <1>10, <1>20, FinishInv
    DEF IInv, TypeOK

\* A variant C (m_ude) iteration preserves the invariant: the filter
\* memories stay Booleans, and the integrator is reset or committed.
LEMMA MUdeInv ==
    ASSUME IInv, MUdeIteration
    PROVE  IInv'
<1>1. PICK sp \in [Axes -> RateSetpoints], thr \in Thrusts,
           ref \in [UdeAxes -> BOOLEAN], wv \in BOOLEAN,
           step \in [UdeAxes -> UdeSteps] :
         MUdeStep(sp, thr, ref, wv, step)
    BY DEF MUdeIteration
<1>. DEFINE iu0 == MUdeReset(integral_ude, ude_thr, Active)
            err == RateErr(sp)
            ri == RatesIntStep(WeathervaneInt(rates_int, wv), prm.lim,
                               Active, thr, err, sat)
            tq == [i \in UdeAxes |-> LowPassFinite(mfilt.lpfd[i], u_total_fin[i])]
            hp == [i \in UdeAxes |-> LowPassFinite(mfilt.hpf[i], IsFinite(gyro[i]))]
            lp == [i \in UdeAxes |-> LowPassFinite(mfilt.lpf[i], tq[i])]
            fin == [i \in UdeAxes |-> ref[i] /\ IsFinite(err[i]) /\ hp[i] /\ lp[i]]
            iu == [i \in UdeAxes |->
                     PdIntegral(iu0[i], IF fin[i] THEN step[i] ELSE NaN, thr)]
            utf == [a \in Axes |-> IF a \in UdeAxes THEN fin[a] ELSE AttCtlFin(sp)[a]]
            mf == [lpfd |-> tq, hpf |-> hp, lpf |-> lp]
<1>2. sp \in [Axes -> Val] /\ thr \in Val /\ err \in [Axes -> Val]
    BY InputsVal, RateErrVal DEF IInv
<1>3. ri \in [Axes -> Int] /\ \A a \in Axes : ri[a] \in -prm.lim[a]..prm.lim[a]
    <2>1. WeathervaneInt(rates_int, wv) \in [Axes -> Int]
        BY WeathervaneBounded
    <2>2. prm.lim \in [Axes -> Nat] /\ Active \in BOOLEAN
        BY PrmLim DEF IInv, TypeOK, Active, StatusRec, ModeRec
    <2>. QED
        BY <1>2, <2>1, <2>2, RatesIntStepBounded
<1>4. /\ tq \in [UdeAxes -> BOOLEAN] /\ hp \in [UdeAxes -> BOOLEAN]
      /\ lp \in [UdeAxes -> BOOLEAN] /\ fin \in [UdeAxes -> BOOLEAN]
      /\ mf \in MFiltRec
    BY DEF IInv, TypeOK, MFiltRec, LowPassFinite, IsFinite
<1>5. iu \in [UdeAxes -> UdeBand]
    <2>1. iu0 \in [UdeAxes -> UdeBand]
        BY ResetInBand DEF IInv, TypeOK, Active, StatusRec, ModeRec
    <2>2. \A i \in UdeAxes : (IF fin[i] THEN step[i] ELSE NaN) \in Val
        BY UdeStepsAssumption DEF Val
    <2>. QED
        BY <2>1, <2>2, UdeIntegralBand
<1>6. utf \in [Axes -> BOOLEAN] /\ FiltFin \in [Axes -> BOOLEAN]
    BY <1>2, <1>4, FinFlagsType DEF IInv
<1>7. Publish(UdeOut(utf, thr)) \in Seq([Chans -> OutVals])
    <2>1. UdeOut(utf, thr) \in [Chans -> OutVals]
        BY <1>6 DEF UdeOut, MixerFinite, Chans, Out, OutVals
    <2>. QED
        BY <2>1, PublishType
<1>8. NextStreak(UdeInputsFinite(sp, ref)) \in 0..StreakBound
    BY NextStreakType DEF IInv, UdeInputsFinite
<1>9. Finish(thr, thr, ri, prm.lim, FiltFin, iu, utf, td_ref_fin, td_dot_fin, mf,
             Publish(UdeOut(utf, thr)), {"att", "rates", "ude"},
             NextStreak(UdeInputsFinite(sp, ref)))
    BY <1>1 DEF MUdeStep
<1>10. prm.lim \in [Axes -> Nat] /\ {"att", "rates", "ude"} \in SUBSET Ops
    BY PrmLim DEF IInv, Ops
<1>20. rates_streak' \in 0..StreakBound
    BY <1>1, NextRatesStreakType DEF IInv, MUdeStep
<1>. QED
    BY <1>2, <1>3, <1>4, <1>5, <1>6, <1>7, <1>8, <1>9, <1>10, <1>20, FinishInv
    DEF IInv, TypeOK

\* The rate-control tail of a classical iteration preserves the invariant,
\* given a starting integrator within the limit recorded so far.
LEMMA PidTailInv ==
    ASSUME IInv, NEW ri0 \in [Axes -> Int],
           \A a \in Axes : ri0[a] \in -int_lim_used[a]..int_lim_used[a],
           NEW sp \in [Axes -> RateSetpoints], NEW thr \in Thrusts,
           NEW r \in SUBSET Ops, PidTail(ri0, sp, thr, r)
    PROVE  IInv'
<1>. DEFINE acf == AttCtlFin(sp)
            ri == RatesIntStep(ri0, prm.lim, Active, thr, RateErr(sp), sat)
            vec == [c \in Chans |-> IF c = 3 THEN Out(IsFinite(thr)) ELSE Out(acf[c])]
            utf == IF 2 \in Axes THEN [u_total_fin EXCEPT ![2] = acf[2]] ELSE u_total_fin
<1>1. sp \in [Axes -> Val] /\ thr \in Val /\ RateErr(sp) \in [Axes -> Val]
    BY InputsVal, RateErrVal DEF IInv
<1>2. acf \in [Axes -> BOOLEAN] /\ FiltFin \in [Axes -> BOOLEAN]
    BY <1>1, FinFlagsType DEF IInv
<1>3. prm.lim \in [Axes -> Nat] /\ Active \in BOOLEAN
    BY PrmLim DEF IInv, TypeOK, Active, StatusRec, ModeRec
<1>4. ri \in [Axes -> Int] /\ \A a \in Axes : ri[a] \in -prm.lim[a]..prm.lim[a]
    BY <1>1, <1>3, RatesIntStepBounded
<1>5. utf \in [Axes -> BOOLEAN]
    BY <1>2 DEF IInv, TypeOK
<1>6. Publish(vec) \in Seq([Chans -> OutVals])
    <2>1. vec \in [Chans -> OutVals]
        BY <1>2 DEF Chans, Out, OutVals
    <2>. QED
        BY <2>1, PublishType
<1>7. 0 \in 0..StreakBound /\ r \cup {"rates"} \in SUBSET Ops
         /\ << >> \in Seq([Chans -> OutVals])
    BY LoopConstAssumption DEF Ops
<1>10. /\ (IF "att" \in r THEN thr ELSE ude_thr) \in Val
       /\ integral_ude \in [UdeAxes -> UdeBand]
    BY <1>1, UdeIntInBand DEF IInv, TypeOK
<1>8. CASE cm.rates
    <2>1. Finish(thr, IF "att" \in r THEN thr ELSE ude_thr, ri, prm.lim, FiltFin,
                 integral_ude, utf, td_ref_fin, td_dot_fin, mfilt, Publish(vec),
                 r \cup {"rates"}, 0)
        BY <1>8 DEF PidTail
    <2>2. rates_streak' \in 0..StreakBound
        BY <1>8, NextRatesStreakType DEF IInv, PidTail
    <2>. QED
        BY <1>1, <1>2, <1>3, <1>4, <1>5, <1>6, <1>7, <1>10, <2>1, <2>2, FinishInv
        DEF IInv, TypeOK
<1>9. CASE ~cm.rates
    <2>1. Finish(thr, IF "att" \in r THEN thr ELSE ude_thr, ri0, int_lim_used,
                 prev_filt_fin, integral_ude, u_total_fin, td_ref_fin, td_dot_fin,
                 mfilt, << >>, r, 0)
        BY <1>9 DEF PidTail
    <2>2. rates_streak' \in 0..StreakBound
        BY <1>9 DEF IInv, TypeOK, PidTail
    <2>. QED
        BY <1>1, <1>7, <1>10, <2>1, <2>2, FinishInv DEF IInv, TypeOK
<1>. QED
    BY <1>8, <1>9

\* Each classical iteration preserves the invariant.
LEMMA AttitudeInv ==
    ASSUME IInv, AttitudeIteration
    PROVE  IInv'
<1>1. PICK sp \in [Axes -> RateSetpoints], thr \in Thrusts, wv \in BOOLEAN :
         PidTail(WeathervaneInt(rates_int, wv), sp, thr, {"att"})
    BY DEF AttitudeIteration
<1>2. {"att"} \in SUBSET Ops
    BY DEF Ops
<1>. QED
    BY <1>1, <1>2, WeathervaneBounded, PidTailInv

LEMMA AcroInv ==
    ASSUME IInv, AcroIteration
    PROVE  IInv'
<1>1. PICK sp \in [Axes -> RateSetpoints], thr \in Thrusts :
         PidTail(rates_int, sp, thr, {"acro"})
    BY DEF AcroIteration
<1>2. /\ {"acro"} \in SUBSET Ops /\ rates_int \in [Axes -> Int]
      /\ \A a \in Axes : rates_int[a] \in -int_lim_used[a]..int_lim_used[a]
    BY DEF Ops, IInv, TypeOK, IntegratorWithinLimit
<1>. QED
    BY <1>1, <1>2, PidTailInv

LEMMA RatesSetpointInv ==
    ASSUME IInv, RatesSetpointIteration
    PROVE  IInv'
<1>1. PICK sp \in [Axes -> RateSetpoints], thr \in Thrusts :
         PidTail(rates_int, sp, thr, {"rsp"})
    BY DEF RatesSetpointIteration
<1>2. /\ {"rsp"} \in SUBSET Ops /\ rates_int \in [Axes -> Int]
      /\ \A a \in Axes : rates_int[a] \in -int_lim_used[a]..int_lim_used[a]
    BY DEF Ops, IInv, TypeOK, IntegratorWithinLimit
<1>. QED
    BY <1>1, <1>2, PidTailInv

\* The invariant holds initially and is preserved by every step.
LEMMA InitIInv ==
    Init => IInv
<1>. SUFFICES ASSUME Init PROVE IInv
    OBVIOUS
<1>1. prm.lim \in [Axes -> Nat \ {0}]
    BY LoopConstAssumption DEF Init, ParamRec
<1>2. << >> \in Seq([Chans -> OutVals])
    OBVIOUS
<1>3. cm \in ModeRec /\ cm_msg \in ModeRec /\ status \in StatusRec
    BY DEF Init, ModeRec, StatusRec
<1>4. gyro \in [Axes -> Val] /\ sat \in [Axes -> SatFlags]
    BY DEF Init, ZeroVector, Val, SatFlags
<1>5. 0 \in 0..StreakBound /\ 0 \in Val
    BY LoopConstAssumption DEF Val
<1>6. int_lim_used \in [Axes -> Nat] /\ prm \in Params
    BY <1>1 DEF Init
<1>8. /\ rates_int \in [Axes -> Int] /\ integral_ude \in [UdeAxes -> Int]
      /\ prev_filt_fin \in [Axes -> BOOLEAN] /\ u_total_fin \in [Axes -> BOOLEAN]
      /\ td_ref_fin \in [UdeAxes -> BOOLEAN] /\ td_dot_fin \in [UdeAxes -> BOOLEAN]
      /\ mfilt \in MFiltRec
    BY DEF Init, ZeroVector, MFiltRec, LpfInit
<1>9. TypeOK
    BY <1>2, <1>3, <1>4, <1>5, <1>6, <1>8 DEF Init, TypeOK
<1>7. IntegratorWithinLimit
    <2>1. rates_int = [a \in Axes |-> 0] /\ int_lim_used = prm.lim
        BY DEF Init, ZeroVector
    <2>2. \A a \in Axes : -prm.lim[a] <= 0 /\ 0 <= prm.lim[a]
        BY <1>1
    <2>. QED
        BY <2>1, <2>2 DEF IntegratorWithinLimit
<1>10. UdeIntegralWithinLimit
    BY ZeroInUdeBand DEF Init, UdeIntegralWithinLimit, UdeBand
<1>. QED
    BY <1>9, <1>7, <1>10 DEF IInv

LEMMA NextIInv ==
    IInv /\ [Next]_vars => IInv'
<1>. SUFFICES ASSUME IInv, [Next]_vars PROVE IInv'
    OBVIOUS
<1>1. CASE PollInputs
    BY <1>1, PollInputsInv
<1>2. CASE CascadeUdeIteration
    BY <1>2, CascadeInv
<1>3. CASE PdUdeIteration
    BY <1>3, PdUdeInv
<1>4. CASE AttitudeIteration
    BY <1>4, AttitudeInv
<1>5. CASE AcroIteration
    BY <1>5, AcroInv
<1>6. CASE RatesSetpointIteration
    BY <1>6, RatesSetpointInv
<1>7. CASE UNCHANGED vars
    BY <1>7 DEF vars, IInv, TypeOK, IntegratorWithinLimit, UdeIntegralWithinLimit
<1>8. CASE MUdeIteration
    BY <1>8, MUdeInv
<1>. QED
    BY <1>1, <1>2, <1>3, <1>4, <1>5, <1>6, <1>7, <1>8 DEF Next

\* Every reachable state of the control task is well typed: the loop never
\* stores an integrator, a flag or a publication of the wrong kind.
THEOREM TypeCorrect == Spec => []TypeOK
<1>1. IInv => TypeOK
    BY DEF IInv
<1>. QED
    BY InitIInv, NextIInv, <1>1, PTL DEF Spec

\* control_attitude_rates' discard-or-commit step and explicit clamp keep
\* the rate integrator within the integral limit last applied, for every
\* limit, thrust, saturation, mode and parameter sequence.
THEOREM IntegratorBounded == Spec => []IntegratorWithinLimit
<1>1. IInv => IntegratorWithinLimit
    BY DEF IInv
<1>. QED
    BY InitIInv, NextIInv, <1>1, PTL DEF Spec

=============================================================================
