----------------------- MODULE AttControlActionProofs -----------------------
(***************************************************************************)
(* Proofs of the control task's action properties, for every value of the  *)
(* constants: the conditional anti-windup of control_attitude_rates and    *)
(* the thrust gate of both integrators.  Neither is inductive on its own:  *)
(* both need the types of IInv (a finite integrator, natural limits, float *)
(* errors), so every step is shown from IInv and the proofs end with       *)
(* []IInv from AttControlLoopProofs.                                       *)
(*                                                                         *)
(* Between(x, y) says x lies between 0 and y: it implies both anti-windup  *)
(* bounds and |x| <= |y|, and it is what every reset, weather-vane zeroing *)
(* and gated update does to an integrator.                                 *)
(***************************************************************************)
EXTENDS AttControlLoopProofs

Between(x, y) == IMin(y, 0) <= x /\ x <= IMax(y, 0)

-----------------------------------------------------------------------------
(* The operators.                                                          *)

\* The anti-windup error of a positively saturated axis is a finite value
\* at most zero (math::min(NaN, 0) is 0), of a negatively saturated one a
\* finite value at least zero.
LEMMA AntiWindupErrSign ==
    ASSUME NEW err \in Val, NEW sf \in SatFlags
    PROVE  /\ "pos" \in sf => AntiWindupErr(err, sf) \in Int /\ AntiWindupErr(err, sf) <= 0
           /\ "neg" \in sf => AntiWindupErr(err, sf) \in Int /\ AntiWindupErr(err, sf) >= 0
BY NaNAssumption DEF AntiWindupErr, FMin, FMax, Val

\* Discard-or-commit with a saturated axis never moves the integrator in
\* the saturated direction.
LEMMA IntegrateAxisSign ==
    ASSUME NEW int \in Int, NEW lim \in Int, NEW err \in Val, NEW sf \in SatFlags
    PROVE  /\ "pos" \in sf => IntegrateAxis(int, lim, err, sf) <= int
           /\ "neg" \in sf => IntegrateAxis(int, lim, err, sf) >= int
<1>. DEFINE e == AntiWindupErr(err, sf)
<1>1. e \in Int => IntegrateAxis(int, lim, err, sf)
                   = IF int + e > -lim /\ int + e < lim THEN int + e ELSE int
    <2>1. e \in Int => Plus(int, e) = int + e /\ int + e # NaN
        BY NaNAssumption DEF Plus
    <2>. QED
        BY <2>1 DEF IntegrateAxis, IsFinite
<1>2. "pos" \in sf => e \in Int /\ e <= 0
    BY AntiWindupErrSign
<1>3. "neg" \in sf => e \in Int /\ e >= 0
    BY AntiWindupErrSign
<1>. QED
    BY <1>1, <1>2, <1>3

\* The explicit clamp to a band around zero keeps a value below a bound
\* m >= 0 below it, a value above a bound m <= 0 above it, and shrinks it.
LEMMA ConstrainToward ==
    ASSUME NEW v \in Int, NEW lim \in Nat
    PROVE  /\ \A m \in Int : m >= 0 /\ v <= m => Constrain(v, -lim, lim) <= m
           /\ \A m \in Int : m <= 0 /\ v >= m => Constrain(v, -lim, lim) >= m
           /\ IAbs(Constrain(v, -lim, lim)) <= IAbs(v)
BY NaNAssumption DEF Constrain, IAbs

\* One call of control_attitude_rates, per axis: a saturated axis never
\* rises above max(start, 0) (falls below min(start, 0)), and with the
\* thrust gate closed the integrator only moves toward zero.
LEMMA RatesIntStepToward ==
    ASSUME NEW int \in [Axes -> Int], NEW lim \in [Axes -> Nat],
           NEW active \in BOOLEAN, NEW thrust, NEW err \in [Axes -> Val],
           NEW sf \in [Axes -> SatFlags], NEW a \in Axes
    PROVE  LET r == RatesIntStep(int, lim, active, thrust, err, sf)[a]
           IN  /\ "pos" \in sf[a] => r <= IMax(int[a], 0)
               /\ "neg" \in sf[a] => r >= IMin(int[a], 0)
               /\ ~Greater(thrust, MinTakeoffThrust) => Between(r, int[a])
<1>. DEFINE i0 == IF active THEN int ELSE ZeroVector(Axes)
            i1 == IF Greater(thrust, MinTakeoffThrust)
                  THEN [b \in Axes |-> IntegrateAxis(i0[b], lim[b], err[b], sf[b])]
                  ELSE i0
<1>1. RatesIntStep(int, lim, active, thrust, err, sf)[a]
        = Constrain(i1[a], -lim[a], lim[a])
    BY DEF RatesIntStep
<1>2. i0[a] \in Int /\ Between(i0[a], int[a])
    BY DEF ZeroVector, Between, IMin, IMax
<1>3. i1[a] \in Int
    BY <1>2, IntegrateAxisInt
<1>9. /\ "pos" \in sf[a] => i1[a] <= i0[a]
      /\ "neg" \in sf[a] => i1[a] >= i0[a]
    <2>1. CASE Greater(thrust, MinTakeoffThrust)
        <3>1. i1[a] = IntegrateAxis(i0[a], lim[a], err[a], sf[a])
            BY <2>1
        <3>. QED
            BY <1>2, <3>1, IntegrateAxisSign
    <2>2. CASE ~Greater(thrust, MinTakeoffThrust)
        BY <2>2, <1>2
    <2>. QED
        BY <2>1, <2>2
<1>4. "pos" \in sf[a] => i1[a] <= IMax(int[a], 0)
    BY <1>2, <1>3, <1>9 DEF Between, IMax, IMin
<1>5. "neg" \in sf[a] => i1[a] >= IMin(int[a], 0)
    BY <1>2, <1>3, <1>9 DEF Between, IMax, IMin
<1>6. ~Greater(thrust, MinTakeoffThrust) => Between(i1[a], int[a])
    BY <1>2
<1>7. IMax(int[a], 0) \in Int /\ IMax(int[a], 0) >= 0
      /\ IMin(int[a], 0) \in Int /\ IMin(int[a], 0) <= 0
    BY DEF IMax, IMin
<1>8. /\ \A m \in Int : m >= 0 /\ i1[a] <= m => Constrain(i1[a], -lim[a], lim[a]) <= m
      /\ \A m \in Int : m <= 0 /\ i1[a] >= m => Constrain(i1[a], -lim[a], lim[a]) >= m
    BY <1>3, ConstrainToward
<1>. QED
    BY <1>1, <1>4, <1>5, <1>6, <1>7, <1>8 DEF Between


\* A value between 0 and y is no larger than y in magnitude, and lying
\* between 0 and a value is transitive.
LEMMA BetweenFacts ==
    ASSUME NEW x \in Int, NEW y \in Int, NEW z \in Int
    PROVE  /\ Between(x, y) => IAbs(x) <= IAbs(y)
           /\ Between(x, y) => IMax(x, 0) <= IMax(y, 0) /\ IMin(x, 0) >= IMin(y, 0)
           /\ Between(x, y) /\ Between(y, z) => Between(x, z)
           /\ Between(0, y) /\ Between(y, y)
BY DEF Between, IAbs, IMax, IMin

-----------------------------------------------------------------------------
(* The control task.                                                       *)

\* control_attitude_rates from a starting integrator that lies between 0
\* and _rates_int (kept, reset or weather-vane zeroed), per axis: the
\* saturated direction is respected and, with the thrust gate closed, the
\* result again lies between 0 and _rates_int.
LEMMA RatesIntGated ==
    ASSUME TypeOK, NEW ri0 \in [Axes -> Int],
           \A a \in Axes : Between(ri0[a], rates_int[a]),
           NEW sp \in [Axes -> Val], NEW thr
    PROVE  LET ri == RatesIntStep(ri0, prm.lim, Active, thr, RateErr(sp), sat)
           IN  /\ ri \in [Axes -> Int]
               /\ \A a \in Axes :
                    /\ "pos" \in sat[a] => ri[a] <= IMax(rates_int[a], 0)
                    /\ "neg" \in sat[a] => ri[a] >= IMin(rates_int[a], 0)
                    /\ ~Greater(thr, MinTakeoffThrust) => Between(ri[a], rates_int[a])
<1>. DEFINE ri == RatesIntStep(ri0, prm.lim, Active, thr, RateErr(sp), sat)
<1>1. /\ prm.lim \in [Axes -> Nat] /\ Active \in BOOLEAN
      /\ RateErr(sp) \in [Axes -> Val] /\ sat \in [Axes -> SatFlags]
      /\ rates_int \in [Axes -> Int]
    BY PrmLim, RateErrVal DEF TypeOK, Active, StatusRec, ModeRec
<1>2. ri \in [Axes -> Int]
    BY <1>1, RatesIntStepBounded
<1>3. ASSUME NEW a \in Axes
      PROVE  /\ "pos" \in sat[a] => ri[a] <= IMax(rates_int[a], 0)
             /\ "neg" \in sat[a] => ri[a] >= IMin(rates_int[a], 0)
             /\ ~Greater(thr, MinTakeoffThrust) => Between(ri[a], rates_int[a])
    <2>1. /\ "pos" \in sat[a] => ri[a] <= IMax(ri0[a], 0)
          /\ "neg" \in sat[a] => ri[a] >= IMin(ri0[a], 0)
          /\ ~Greater(thr, MinTakeoffThrust) => Between(ri[a], ri0[a])
        BY <1>1, RatesIntStepToward
    <2>2. ri[a] \in Int /\ ri0[a] \in Int /\ rates_int[a] \in Int
        BY <1>1, <1>2
    <2>3. IMax(ri0[a], 0) <= IMax(rates_int[a], 0)
          /\ IMin(ri0[a], 0) >= IMin(rates_int[a], 0)
        BY <2>2, BetweenFacts
    <2>4. Between(ri[a], ri0[a]) => Between(ri[a], rates_int[a])
        BY <2>2, BetweenFacts
    <2>. QED
        BY <2>1, <2>2, <2>3, <2>4 DEF IMax, IMin
<1>. QED
    BY <1>2, <1>3

\* The weather-vane branch leaves each rate integrator between 0 and its
\* value.
LEMMA WeathervaneBetween ==
    ASSUME TypeOK, NEW wv \in BOOLEAN
    PROVE  /\ WeathervaneInt(rates_int, wv) \in [Axes -> Int]
           /\ \A a \in Axes : Between(WeathervaneInt(rates_int, wv)[a], rates_int[a])
BY BetweenFacts DEF TypeOK, WeathervaneInt

\* Both disarm resets of integral_ude leave each component between 0 and
\* its value.
LEMMA ResetBetween ==
    ASSUME TypeOK, NEW active, NEW u
    PROVE  /\ UdeReset(integral_ude, active) \in [UdeAxes -> Int]
           /\ MUdeReset(integral_ude, u, active) \in [UdeAxes -> Int]
           /\ \A i \in UdeAxes :
                /\ Between(UdeReset(integral_ude, active)[i], integral_ude[i])
                /\ Between(MUdeReset(integral_ude, u, active)[i], integral_ude[i])
BY BetweenFacts DEF TypeOK, UdeReset, MUdeReset, ZeroVector

\* The end of an iteration: given results that respect the saturation of
\* the inputs and, with the thrust gate closed, lie between 0 and the
\* integrators, the step respects both action properties (the termination
\* override only zeroes the integrators).
LEMMA FinishSteps ==
    ASSUME TypeOK, NEW thr, NEW uthr, NEW ri \in [Axes -> Int], NEW lu, NEW pf,
           NEW iu \in [UdeAxes -> Int], NEW utf, NEW tdr, NEW tdd, NEW mf,
           NEW pb, NEW r, NEW streak,
           \A a \in Axes :
             /\ "pos" \in sat[a] => ri[a] <= IMax(rates_int[a], 0)
             /\ "neg" \in sat[a] => ri[a] >= IMin(rates_int[a], 0),
           ~Greater(thr, MinTakeoffThrust) =>
             /\ \A a \in Axes : Between(ri[a], rates_int[a])
             /\ \A i \in UdeAxes : Between(iu[i], integral_ude[i]),
           Finish(thr, uthr, ri, lu, pf, iu, utf, tdr, tdd, mf, pb, r, streak)
    PROVE  AntiWindupStep /\ ThrustGateStep
<1>1. sat' = sat
    BY DEF Finish
<1>2. /\ rates_int \in [Axes -> Int] /\ integral_ude \in [UdeAxes -> Int]
    BY DEF TypeOK
<1>3. CASE cm.term /\ ~status.vtol
    <2>1. rates_int' = ZeroVector(Axes) /\ integral_ude' = ZeroVector(UdeAxes)
        BY <1>3 DEF Finish
    <2>. QED
        BY <1>1, <1>2, <2>1 DEF AntiWindupStep, ThrustGateStep, ZeroVector,
           IMax, IMin, IAbs
<1>4. CASE ~(cm.term /\ ~status.vtol)
    <2>1. rates_int' = ri /\ integral_ude' = iu /\ thrust_sp' = thr
        BY <1>4 DEF Finish
    <2>2. AntiWindupStep
        BY <1>1, <2>1 DEF AntiWindupStep
    <2>3. ~Greater(thr, MinTakeoffThrust) =>
            /\ \A a \in Axes : IAbs(ri[a]) <= IAbs(rates_int[a])
            /\ \A i \in UdeAxes : IAbs(iu[i]) <= IAbs(integral_ude[i])
        BY <1>2, BetweenFacts
    <2>. QED
        BY <2>1, <2>2, <2>3 DEF ThrustGateStep
<1>. QED
    BY <1>3, <1>4

\* With the thrust gate closed neither UDE integral update moves the
\* integrator.
LEMMA UdeGateClosed ==
    ASSUME NEW iu, NEW x, NEW thrust, ~Greater(thrust, MinTakeoffThrust)
    PROVE  CascadeIntegral(iu, x, thrust) = iu /\ PdIntegral(iu, x, thrust) = iu
BY DEF CascadeIntegral, PdIntegral

\* Copying the inputs changes the saturation flags but no integrator, and
\* happens while the task waits, outside the thrust gate's scope.
LEMMA PollInputsSteps ==
    ASSUME IInv, PollInputs
    PROVE  AntiWindupStep /\ ThrustGateStep
<1>1. pc = "wait" /\ UNCHANGED <<rates_int, integral_ude>>
    BY DEF PollInputs
<1>2. rates_int \in [Axes -> Int]
    BY DEF IInv, TypeOK
<1>. QED
    BY <1>1, <1>2 DEF AntiWindupStep, ThrustGateStep, IMax, IMin

\* A cascade-UDE iteration respects both action properties.
LEMMA CascadeSteps ==
    ASSUME IInv, CascadeUdeIteration
    PROVE  AntiWindupStep /\ ThrustGateStep
<1>1. PICK sp \in [Axes -> RateSetpoints], thr \in Thrusts,
           ref \in [UdeAxes -> BOOLEAN], wv \in BOOLEAN :
         CascadeUdeStep(sp, thr, ref, wv)
    BY DEF CascadeUdeIteration
<1>. DEFINE iu0 == UdeReset(integral_ude, Active)
            err == RateErr(sp)
            wvi == WeathervaneInt(rates_int, wv)
            ri == RatesIntStep(wvi, prm.lim, Active, thr, err, sat)
            iu == [i \in UdeAxes |-> CascadeIntegral(iu0[i], err[i], thr)]
<1>2. sp \in [Axes -> Val] /\ err \in [Axes -> Val]
    BY InputsVal, RateErrVal DEF IInv
<1>3. wvi \in [Axes -> Int] /\ \A a \in Axes : Between(wvi[a], rates_int[a])
    BY WeathervaneBetween DEF IInv
<1>4. /\ ri \in [Axes -> Int]
      /\ \A a \in Axes :
           /\ "pos" \in sat[a] => ri[a] <= IMax(rates_int[a], 0)
           /\ "neg" \in sat[a] => ri[a] >= IMin(rates_int[a], 0)
           /\ ~Greater(thr, MinTakeoffThrust) => Between(ri[a], rates_int[a])
    BY <1>2, <1>3, RatesIntGated DEF IInv
<1>5. iu0 \in [UdeAxes -> UdeBand] /\ \A i \in UdeAxes : Between(iu0[i], integral_ude[i])
    BY ResetInBand, ResetBetween DEF IInv, TypeOK, Active, StatusRec, ModeRec
<1>6. /\ iu \in [UdeAxes -> Int]
      /\ ~Greater(thr, MinTakeoffThrust) =>
           \A i \in UdeAxes : Between(iu[i], integral_ude[i])
    <2>1. \A i \in UdeAxes : err[i] \in Val
        BY <1>2 DEF UdeAxes
    <2>2. \A i \in UdeAxes : CascadeIntegral(iu0[i], err[i], thr) \in UdeBand
        BY <1>5, <2>1, UdeIntegralBand
    <2>3. ~Greater(thr, MinTakeoffThrust) =>
            \A i \in UdeAxes : CascadeIntegral(iu0[i], err[i], thr) = iu0[i]
        BY UdeGateClosed
    <2>4. UdeBand \subseteq Int
        BY DEF UdeBand
    <2>. QED
        BY <1>5, <2>2, <2>3, <2>4
<1>7. \E utf, pb, streak :
        Finish(thr, thr, ri, prm.lim, FiltFin, iu, utf, td_ref_fin, td_dot_fin,
               mfilt, pb, {"att", "rates", "ude"}, streak)
    BY <1>1 DEF CascadeUdeStep
<1>. QED
    BY <1>4, <1>6, <1>7, FinishSteps DEF IInv

\* A PD+UDE iteration respects both action properties.
LEMMA PdUdeSteps ==
    ASSUME IInv, PdUdeIteration
    PROVE  AntiWindupStep /\ ThrustGateStep
<1>1. PICK sp \in [Axes -> RateSetpoints], thr \in Thrusts,
           ref \in [UdeAxes -> BOOLEAN], wv \in BOOLEAN,
           step \in [UdeAxes -> UdeSteps] :
         PdUdeStep(sp, thr, ref, wv, step)
    BY DEF PdUdeIteration
<1>. DEFINE iu0 == UdeReset(integral_ude, Active)
            err == RateErr(sp)
            wvi == WeathervaneInt(rates_int, wv)
            ri == RatesIntStep(wvi, prm.lim, Active, thr, err, sat)
            hpf == [i \in UdeAxes |-> TdHpfFinite(td_dot_fin[i], td_ref_fin[i], ref[i])]
            eRate == [i \in UdeAxes |->
                        PdRateErrFinite(hpf[i], IsFinite(gyro[i]), IsFinite(err[i]))]
            x == [i \in UdeAxes |-> IF ref[i] /\ eRate[i] THEN step[i] ELSE NaN]
            iu == [i \in UdeAxes |-> PdIntegral(iu0[i], x[i], thr)]
<1>2. sp \in [Axes -> Val] /\ err \in [Axes -> Val]
    BY InputsVal, RateErrVal DEF IInv
<1>3. wvi \in [Axes -> Int] /\ \A a \in Axes : Between(wvi[a], rates_int[a])
    BY WeathervaneBetween DEF IInv
<1>4. /\ ri \in [Axes -> Int]
      /\ \A a \in Axes :
           /\ "pos" \in sat[a] => ri[a] <= IMax(rates_int[a], 0)
           /\ "neg" \in sat[a] => ri[a] >= IMin(rates_int[a], 0)
           /\ ~Greater(thr, MinTakeoffThrust) => Between(ri[a], rates_int[a])
    BY <1>2, <1>3, RatesIntGated DEF IInv
<1>5. iu0 \in [UdeAxes -> UdeBand] /\ \A i \in UdeAxes : Between(iu0[i], integral_ude[i])
    BY ResetInBand, ResetBetween DEF IInv, TypeOK, Active, StatusRec, ModeRec
<1>6. /\ iu \in [UdeAxes -> Int]
      /\ ~Greater(thr, MinTakeoffThrust) =>
           \A i \in UdeAxes : Between(iu[i], integral_ude[i])
    <2>1. \A i \in UdeAxes : x[i] \in Val
        BY UdeStepsAssumption DEF Val
    <2>2. \A i \in UdeAxes : PdIntegral(iu0[i], x[i], thr) \in UdeBand
        BY <1>5, <2>1, UdeIntegralBand
    <2>3. ~Greater(thr, MinTakeoffThrust) =>
            \A i \in UdeAxes : PdIntegral(iu0[i], x[i], thr) = iu0[i]
        BY UdeGateClosed
    <2>4. UdeBand \subseteq Int
        BY DEF UdeBand
    <2>. QED
        BY <1>5, <2>2, <2>3, <2>4
<1>7. \E utf, tdr, tdd, pb, streak :
        Finish(thr, thr, ri, prm.lim, FiltFin, iu, utf, tdr, tdd, mfilt, pb,
               {"att", "rates", "ude"}, streak)
    BY <1>1 DEF PdUdeStep
<1>. QED
    BY <1>4, <1>6, <1>7, FinishSteps DEF IInv

\* A motor-dynamics UDE iteration respects both action properties: its
\* reset (on the stale _ude.thrust_sp or when disarmed) only zeroes.
LEMMA MUdeSteps ==
    ASSUME IInv, MUdeIteration
    PROVE  AntiWindupStep /\ ThrustGateStep
<1>1. PICK sp \in [Axes -> RateSetpoints], thr \in Thrusts,
           ref \in [UdeAxes -> BOOLEAN], wv \in BOOLEAN,
           step \in [UdeAxes -> UdeSteps] :
         MUdeStep(sp, thr, ref, wv, step)
    BY DEF MUdeIteration
<1>. DEFINE iu0 == MUdeReset(integral_ude, ude_thr, Active)
            err == RateErr(sp)
            wvi == WeathervaneInt(rates_int, wv)
            ri == RatesIntStep(wvi, prm.lim, Active, thr, err, sat)
            tq == [i \in UdeAxes |-> LowPassFinite(mfilt.lpfd[i], u_total_fin[i])]
            hp == [i \in UdeAxes |-> LowPassFinite(mfilt.hpf[i], IsFinite(gyro[i]))]
            lp == [i \in UdeAxes |-> LowPassFinite(mfilt.lpf[i], tq[i])]
            fin == [i \in UdeAxes |-> ref[i] /\ IsFinite(err[i]) /\ hp[i] /\ lp[i]]
            x == [i \in UdeAxes |-> IF fin[i] THEN step[i] ELSE NaN]
            iu == [i \in UdeAxes |-> PdIntegral(iu0[i], x[i], thr)]
<1>2. sp \in [Axes -> Val] /\ err \in [Axes -> Val]
    BY InputsVal, RateErrVal DEF IInv
<1>3. wvi \in [Axes -> Int] /\ \A a \in Axes : Between(wvi[a], rates_int[a])
    BY WeathervaneBetween DEF IInv
<1>4. /\ ri \in [Axes -> Int]
      /\ \A a \in Axes :
           /\ "pos" \in sat[a] => ri[a] <= IMax(rates_int[a], 0)
           /\ "neg" \in sat[a] => ri[a] >= IMin(rates_int[a], 0)
           /\ ~Greater(thr, MinTakeoffThrust) => Between(ri[a], rates_int[a])
    BY <1>2, <1>3, RatesIntGated DEF IInv
<1>5. iu0 \in [UdeAxes -> UdeBand] /\ \A i \in UdeAxes : Between(iu0[i], integral_ude[i])
    BY ResetInBand, ResetBetween DEF IInv, TypeOK, Active, StatusRec, ModeRec
<1>6. /\ iu \in [UdeAxes -> Int]
      /\ ~Greater(thr, MinTakeoffThrust) =>
           \A i \in UdeAxes : Between(iu[i], integral_ude[i])
    <2>1. \A i \in UdeAxes : x[i] \in Val
        BY UdeStepsAssumption DEF Val
    <2>2. \A i \in UdeAxes : PdIntegral(iu0[i], x[i], thr) \in UdeBand
        BY <1>5, <2>1, UdeIntegralBand
    <2>3. ~Greater(thr, MinTakeoffThrust) =>
            \A i \in UdeAxes : PdIntegral(iu0[i], x[i], thr) = iu0[i]
        BY UdeGateClosed
    <2>4. UdeBand \subseteq Int
        BY DEF UdeBand
    <2>. QED
        BY <1>5, <2>2, <2>3, <2>4
<1>7. \E utf, mf, pb, streak :
        Finish(thr, thr, ri, prm.lim, FiltFin, iu, utf, td_ref_fin, td_dot_fin,
               mf, pb, {"att", "rates", "ude"}, streak)
    BY <1>1 DEF MUdeStep
<1>. QED
    BY <1>4, <1>6, <1>7, FinishSteps DEF IInv

\* The rate-control tail of a classical iteration respects both action
\* properties, from any starting integrator between 0 and _rates_int; it
\* never touches integral_ude.
LEMMA PidTailSteps ==
    ASSUME IInv, NEW ri0 \in [Axes -> Int],
           \A a \in Axes : Between(ri0[a], rates_int[a]),
           NEW sp \in [Axes -> RateSetpoints], NEW thr \in Thrusts,
           NEW r, PidTail(ri0, sp, thr, r)
    PROVE  AntiWindupStep /\ ThrustGateStep
<1>. DEFINE ri == RatesIntStep(ri0, prm.lim, Active, thr, RateErr(sp), sat)
<1>1. sp \in [Axes -> Val] /\ integral_ude \in [UdeAxes -> Int]
      /\ rates_int \in [Axes -> Int]
    BY InputsVal DEF IInv, TypeOK
<1>2. \A i \in UdeAxes : Between(integral_ude[i], integral_ude[i])
    BY <1>1, BetweenFacts
<1>3. CASE cm.rates
    <2>1. /\ ri \in [Axes -> Int]
          /\ \A a \in Axes :
               /\ "pos" \in sat[a] => ri[a] <= IMax(rates_int[a], 0)
               /\ "neg" \in sat[a] => ri[a] >= IMin(rates_int[a], 0)
               /\ ~Greater(thr, MinTakeoffThrust) => Between(ri[a], rates_int[a])
        BY <1>1, RatesIntGated DEF IInv
    <2>2. \E uthr, utf, pb :
            Finish(thr, uthr, ri, prm.lim, FiltFin, integral_ude, utf, td_ref_fin,
                   td_dot_fin, mfilt, pb, r \cup {"rates"}, 0)
        BY <1>3 DEF PidTail
    <2>. QED
        BY <1>1, <1>2, <2>1, <2>2, FinishSteps DEF IInv
<1>4. CASE ~cm.rates
    <2>1. \A a \in Axes : /\ ri0[a] <= IMax(rates_int[a], 0)
                          /\ ri0[a] >= IMin(rates_int[a], 0)
        BY DEF Between
    <2>2. \E uthr :
            Finish(thr, uthr, ri0, int_lim_used, prev_filt_fin, integral_ude,
                   u_total_fin, td_ref_fin, td_dot_fin, mfilt, << >>, r, 0)
        BY <1>4 DEF PidTail
    <2>. QED
        BY <1>1, <1>2, <2>1, <2>2, FinishSteps DEF IInv
<1>. QED
    BY <1>3, <1>4

\* Each classical iteration starts the tail from _rates_int itself or from
\* its weather-vane zeroed copy.
LEMMA ClassicalSteps ==
    ASSUME IInv, AttitudeIteration \/ AcroIteration \/ RatesSetpointIteration
    PROVE  AntiWindupStep /\ ThrustGateStep
<1>1. /\ rates_int \in [Axes -> Int]
      /\ \A a \in Axes : Between(rates_int[a], rates_int[a])
    BY BetweenFacts DEF IInv, TypeOK
<1>2. CASE AttitudeIteration
    <2>1. PICK sp \in [Axes -> RateSetpoints], thr \in Thrusts, wv \in BOOLEAN :
             PidTail(WeathervaneInt(rates_int, wv), sp, thr, {"att"})
        BY <1>2 DEF AttitudeIteration
    <2>. QED
        BY <2>1, WeathervaneBetween, PidTailSteps DEF IInv
<1>3. CASE AcroIteration
    <2>1. PICK sp \in [Axes -> RateSetpoints], thr \in Thrusts :
             PidTail(rates_int, sp, thr, {"acro"})
        BY <1>3 DEF AcroIteration
    <2>. QED
        BY <1>1, <2>1, PidTailSteps
<1>4. CASE RatesSetpointIteration
    <2>1. PICK sp \in [Axes -> RateSetpoints], thr \in Thrusts :
             PidTail(rates_int, sp, thr, {"rsp"})
        BY <1>4 DEF RatesSetpointIteration
    <2>. QED
        BY <1>1, <2>1, PidTailSteps
<1>. QED
    BY <1>2, <1>3, <1>4

\* Every step from an IInv state, stuttering included, respects both.
LEMMA NextSteps ==
    IInv /\ [Next]_vars => [AntiWindupStep /\ ThrustGateStep]_vars
<1>. SUFFICES ASSUME IInv, Next PROVE AntiWindupStep /\ ThrustGateStep
    OBVIOUS
<1>. QED
    BY PollInputsSteps, CascadeSteps, PdUdeSteps, MUdeSteps, ClassicalSteps
    DEF Next

-----------------------------------------------------------------------------
(* The theorems.                                                           *)

\* Conditional anti-windup of control_attitude_rates, for every limit,
\* saturation, thrust and mode sequence: in no step does a saturated
\* axis's rate integrator grow in the saturated direction beyond zero.
THEOREM AntiWindupHolds == Spec => AntiWindup
<1>1. IInv /\ [Next]_vars => [AntiWindupStep]_vars
    BY NextSteps
<1>. QED
    BY InitIInv, NextIInv, <1>1, PTL DEF Spec, AntiWindup

\* The thrust gate of control_attitude_rates and of every UDE variant, for
\* every limit and parameter sequence: an iteration whose thrust setpoint
\* is not above MIN_TAKEOFF_THRUST (NaN included) never moves either
\* integrator away from zero.
THEOREM ThrustGateHolds == Spec => ThrustGate
<1>1. IInv /\ [Next]_vars => [ThrustGateStep]_vars
    BY NextSteps
<1>. QED
    BY InitIInv, NextIInv, <1>1, PTL DEF Spec, ThrustGate

=============================================================================
