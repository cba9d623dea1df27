-------------------------- MODULE PidRecoveryProofs --------------------------
(***************************************************************************)
(* Recovery of the classical rate controller's D term from a NaN gyro      *)
(* sample.  control_attitude_rates differentiates the filtered rate        *)
(* against _rates_prev_filtered and then overwrites it, so the call after *)
(* a NaN sample is poisoned as well, and the one after that is clean.      *)
(* The strengthening says that once the rate controller has run on finite  *)
(* inputs (the rates streak is not 0), every stored filtered rate is       *)
(* finite; iterations that skip rate control, and the UDE iterations,     *)
(* keep that true.  One finite call is not enough, so the theorem assumes  *)
(* StreakBound >= 2.                                                       *)
(***************************************************************************)
EXTENDS AttControlLoopProofs

\* After a call of the rate controller on finite inputs, _rates_prev_filtered
\* is finite on every axis, until the next call on a NaN input.
StreakMeansPrevFinite ==
    rates_streak >= 1 => \A a \in Axes : prev_filt_fin[a]

\* The inductive invariant: PidRecovers strengthened by the above.
PInv == IInv /\ StreakMeansPrevFinite /\ PidRecovers

\* A streak that is not 0 after a call means its inputs were finite.
LEMMA RatesStreakFinite ==
    ASSUME TypeOK, NEW sp, NextRatesStreak(sp) >= 1
    PROVE  \A a \in Axes : IsFinite(sp[a]) /\ IsFinite(gyro[a])
BY DEF NextRatesStreak

\* A streak that reaches a bound of at least 2 was already running.
LEMMA RatesStreakWasRunning ==
    ASSUME TypeOK, StreakBound >= 2, NEW sp, NextRatesStreak(sp) >= StreakBound
    PROVE  rates_streak >= 1
BY LoopConstAssumption DEF TypeOK, NextRatesStreak, IMin

\* Every call of the rate controller stores this sample's filtered rates
\* and updates the streak from them: the strengthening holds afterwards.
LEMMA CallKeepsPrevFinite ==
    ASSUME TypeOK, NEW sp,
           rates_streak' = NextRatesStreak(sp), prev_filt_fin' = FiltFin
    PROVE  StreakMeansPrevFinite'
BY RatesStreakFinite DEF StreakMeansPrevFinite, FiltFin

\* A UDE iteration calls the rate controller, and records "ude".
LEMMA UdeIterationPInv ==
    ASSUME IInv, CascadeUdeIteration \/ PdUdeIteration \/ MUdeIteration
    PROVE  StreakMeansPrevFinite' /\ PidRecovers'
<1>1. \E sp : /\ rates_streak' = NextRatesStreak(sp)
              /\ prev_filt_fin' = FiltFin
              /\ "ude" \in ran'
    <2>1. CASE CascadeUdeIteration
        <3>1. PICK sp \in [Axes -> RateSetpoints], thr \in Thrusts,
                   ref \in [UdeAxes -> BOOLEAN], wv \in BOOLEAN :
                 CascadeUdeStep(sp, thr, ref, wv)
            BY <2>1 DEF CascadeUdeIteration
        <3>. QED
            BY <3>1 DEF CascadeUdeStep, Finish
    <2>2. CASE PdUdeIteration
        <3>1. PICK sp \in [Axes -> RateSetpoints], thr \in Thrusts,
                   ref \in [UdeAxes -> BOOLEAN], wv \in BOOLEAN,
                   step \in [UdeAxes -> UdeSteps] :
                 PdUdeStep(sp, thr, ref, wv, step)
            BY <2>2 DEF PdUdeIteration
        <3>. QED
            BY <3>1 DEF PdUdeStep, Finish
    <2>3. CASE MUdeIteration
        <3>1. PICK sp \in [Axes -> RateSetpoints], thr \in Thrusts,
                   ref \in [UdeAxes -> BOOLEAN], wv \in BOOLEAN,
                   step \in [UdeAxes -> UdeSteps] :
                 MUdeStep(sp, thr, ref, wv, step)
            BY <2>3 DEF MUdeIteration
        <3>. QED
            BY <3>1 DEF MUdeStep, Finish
    <2>. QED
        BY <2>1, <2>2, <2>3
<1>2. StreakMeansPrevFinite'
    BY <1>1, CallKeepsPrevFinite DEF IInv
<1>. QED
    BY <1>1, <1>2 DEF PidRecovers

\* The classical tail: with rate control enabled the torque of every axis is
\* finite when the inputs are and the stored filtered rates were; without
\* it nothing about the D term changes.
LEMMA PidTailPInv ==
    ASSUME PInv, StreakBound >= 2,
           NEW ri0, NEW sp, NEW thr, NEW r, "rates" \notin r, "ude" \notin r,
           PidTail(ri0, sp, thr, r)
    PROVE  StreakMeansPrevFinite' /\ PidRecovers'
<1>1. CASE cm.rates
    <2>. DEFINE acf == AttCtlFin(sp)
                vec == [c \in Chans |-> IF c = 3 THEN Out(IsFinite(thr)) ELSE Out(acf[c])]
    <2>1. /\ rates_streak' = NextRatesStreak(sp)
          /\ prev_filt_fin' = FiltFin
          /\ "term" \notin ran' => pubs' = Publish(vec)
        BY <1>1 DEF PidTail, Finish
    <2>2. StreakMeansPrevFinite'
        BY <2>1, CallKeepsPrevFinite DEF PInv, IInv
    <2>3. SUFFICES ASSUME "term" \notin ran', rates_streak' >= StreakBound
                   PROVE  \A k \in 1..Len(pubs') : \A a \in Axes : pubs'[k][a] = "value"
        BY <2>2 DEF PidRecovers
    <2>4. \A a \in Axes : IsFinite(sp[a]) /\ IsFinite(gyro[a]) /\ prev_filt_fin[a]
        <3>1. rates_streak >= 1
            BY <2>1, <2>3, RatesStreakWasRunning DEF PInv, IInv
        <3>2. NextRatesStreak(sp) >= 1
            <4>1. NextRatesStreak(sp) >= StreakBound
                BY <2>1, <2>3
            <4>2. NextRatesStreak(sp) \in 0..StreakBound
                BY NextRatesStreakType DEF PInv, IInv
            <4>. QED
                BY <4>1, <4>2, LoopConstAssumption
        <3>. QED
            BY <3>1, <3>2, RatesStreakFinite DEF PInv, IInv, StreakMeansPrevFinite
    <2>5. \A a \in Axes : vec[a] = "value"
        <3>1. \A a \in Axes : acf[a]
            BY <2>4 DEF AttCtlFin, AttControlFinite
        <3>2. \A a \in Axes : a \in Chans /\ a # 3
            BY AxesAssumption DEF Chans
        <3>. QED
            BY <3>1, <3>2 DEF Out
    <2>. QED
        BY <2>1, <2>3, <2>5 DEF Publish
<1>2. CASE ~cm.rates
    <2>1. /\ UNCHANGED <<rates_streak, prev_filt_fin>>
          /\ "rates" \notin ran'
        BY <1>2 DEF PidTail, Finish
    <2>. QED
        BY <2>1 DEF PInv, StreakMeansPrevFinite, PidRecovers
<1>. QED
    BY <1>1, <1>2

\* Every step keeps the strengthening.
LEMMA PInvStep ==
    ASSUME StreakBound >= 2, PInv, [Next]_vars
    PROVE  PInv'
<1>1. IInv'
    BY NextIInv DEF PInv
<1>. SUFFICES StreakMeansPrevFinite' /\ PidRecovers'
    BY <1>1 DEF PInv
<1>2. CASE PollInputs
    BY <1>2 DEF PollInputs, PInv, StreakMeansPrevFinite, PidRecovers
<1>3. CASE CascadeUdeIteration \/ PdUdeIteration \/ MUdeIteration
    BY <1>3, UdeIterationPInv DEF PInv
<1>4. CASE AttitudeIteration
    BY <1>4, PidTailPInv DEF AttitudeIteration
<1>5. CASE AcroIteration
    BY <1>5, PidTailPInv DEF AcroIteration
<1>6. CASE RatesSetpointIteration
    BY <1>6, PidTailPInv DEF RatesSetpointIteration
<1>7. CASE UNCHANGED vars
    BY <1>7 DEF vars, PInv, StreakMeansPrevFinite, PidRecovers
<1>. QED
    BY <1>2, <1>3, <1>4, <1>5, <1>6, <1>7 DEF Next

\* The D term of control_attitude_rates recovers from a NaN gyro sample:
\* after two consecutive calls of the rate controller on a finite rate
\* setpoint and gyro rate, whatever iterations skipped it in between,
\* every torque channel a classical iteration publishes is finite, for
\* every limit, mode, parameter and signal set.
THEOREM PidRecoversAlways == StreakBound >= 2 => (Spec => []PidRecovers)
<1>. SUFFICES ASSUME StreakBound >= 2 PROVE Spec => []PidRecovers
    OBVIOUS
<1>1. Init => PInv
    <2>1. Init => rates_streak = 0 /\ pubs = << >>
        BY DEF Init
    <2>. QED
        BY InitIInv, <2>1 DEF PInv, StreakMeansPrevFinite, PidRecovers
<1>2. PInv /\ [Next]_vars => PInv'
    BY PInvStep
<1>3. PInv => PidRecovers
    BY DEF PInv
<1>. QED
    BY <1>1, <1>2, <1>3, PTL DEF Spec

=============================================================================
