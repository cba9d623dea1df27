-------------------------- MODULE UdeRecoveryProofs --------------------------
(***************************************************************************)
(* Recovery of the memoryless UDE laws from a non-finite input.  The       *)
(* cascade law (UDE_SWITCH = 2) and the PD+UDE law without the filtered    *)
(* reference derivative (UDE_SWITCH = 1, UDE_TD = 0) compute u_total on    *)
(* roll and pitch from this iteration's rate setpoint, gyro rate and       *)
(* reference only, so one iteration with finite inputs makes it finite     *)
(* again.  With UDE_TD = 1 or UDE_SWITCH = 3 a filter memory keeps a NaN   *)
(* forever (runs tdlatch and mlatch), so the theorem is stated for         *)
(* parameter sets of the memoryless laws only, which is a hypothesis on    *)
(* the parameters the task may load, not an assumption of the model.       *)
(***************************************************************************)
EXTENDS AttControlLoopProofs

\* Every parameter set the task may load selects the classical path or a
\* memoryless UDE law.
MemorylessLaws ==
    \A p \in Params : p.ude \in {0, 1, 2} /\ (p.ude = 1 => p.td = 0)

\* The strengthening of UdeRecovers: right after a UDE iteration whose
\* inputs were finite (the streak is not 0), u_total is finite.
FreshStreakRecovered ==
    (pc = "wait" /\ "ude" \in ran /\ fin_streak >= 1)
        => \A i \in UdeAxes : u_total_fin[i]

RInv == IInv /\ FreshStreakRecovered

\* A streak that is not 0 after an iteration means its inputs were finite.
LEMMA StreakMeansFinite ==
    ASSUME TypeOK, NEW fin \in BOOLEAN, NextStreak(fin) >= 1
    PROVE  fin
BY DEF NextStreak

\* The rate error of finite inputs is finite.
LEMMA FiniteRateErr ==
    ASSUME TypeOK, NEW sp \in [Axes -> Val], NEW a \in Axes,
           IsFinite(sp[a]), IsFinite(gyro[a])
    PROVE  IsFinite(RateErr(sp)[a])
BY NaNAssumption DEF TypeOK, RateErr, Minus, IsFinite, Val

\* A cascade-UDE iteration with finite inputs leaves u_total finite.
LEMMA CascadeRecovers ==
    ASSUME IInv, CascadeUdeIteration
    PROVE  FreshStreakRecovered'
<1>1. PICK sp \in [Axes -> RateSetpoints], thr \in Thrusts,
           ref \in [UdeAxes -> BOOLEAN], wv \in BOOLEAN :
         CascadeUdeStep(sp, thr, ref, wv)
    BY DEF CascadeUdeIteration
<1>2. /\ u_total_fin' = [a \in Axes |-> IF a \in UdeAxes THEN IsFinite(RateErr(sp)[a])
                                        ELSE AttCtlFin(sp)[a]]
      /\ fin_streak' = NextStreak(UdeInputsFinite(sp, ref))
    BY <1>1 DEF CascadeUdeStep, Finish
<1>3. SUFFICES ASSUME fin_streak' >= 1 PROVE \A i \in UdeAxes : u_total_fin'[i]
    BY DEF FreshStreakRecovered
<1>4. UdeInputsFinite(sp, ref)
    BY <1>2, <1>3, StreakMeansFinite DEF IInv, UdeInputsFinite
<1>5. sp \in [Axes -> Val]
    BY InputsVal
<1>. QED
    BY <1>2, <1>4, <1>5, FiniteRateErr DEF IInv, UdeInputsFinite, UdeAxes

\* A PD+UDE iteration with UDE_TD = 0 and finite inputs leaves u_total
\* finite: its rate error is the setpoint minus the measured rate.
LEMMA PdUdeRecovers ==
    ASSUME IInv, MemorylessLaws, PdUdeIteration
    PROVE  FreshStreakRecovered'
<1>1. PICK sp \in [Axes -> RateSetpoints], thr \in Thrusts,
           ref \in [UdeAxes -> BOOLEAN], wv \in BOOLEAN,
           step \in [UdeAxes -> UdeSteps] :
         PdUdeStep(sp, thr, ref, wv, step)
    BY DEF PdUdeIteration
<1>. DEFINE err == RateErr(sp)
            hpf == [i \in UdeAxes |-> TdHpfFinite(td_dot_fin[i], td_ref_fin[i], ref[i])]
            eRate == [i \in UdeAxes |->
                        PdRateErrFinite(hpf[i], IsFinite(gyro[i]), IsFinite(err[i]))]
<1>2. /\ u_total_fin' = [a \in Axes |-> IF a \in UdeAxes THEN ref[a] /\ eRate[a]
                                        ELSE AttCtlFin(sp)[a]]
      /\ fin_streak' = NextStreak(UdeInputsFinite(sp, ref))
    BY <1>1 DEF PdUdeStep, Finish
<1>3. SUFFICES ASSUME fin_streak' >= 1 PROVE \A i \in UdeAxes : u_total_fin'[i]
    BY DEF FreshStreakRecovered
<1>4. UdeInputsFinite(sp, ref)
    BY <1>2, <1>3, StreakMeansFinite DEF IInv, UdeInputsFinite
<1>5. prm.td = 0
    BY DEF MemorylessLaws, PdUdeIteration, IInv, TypeOK
<1>6. \A i \in UdeAxes : eRate[i] = IsFinite(err[i])
    BY <1>5 DEF PdRateErrFinite
<1>7. sp \in [Axes -> Val]
    BY InputsVal
<1>. QED
    BY <1>2, <1>4, <1>6, <1>7, FiniteRateErr DEF IInv, UdeInputsFinite, UdeAxes


\* Under the hypothesis no motor-dynamics iteration runs; every other step
\* leaves the strengthening true: copying the inputs starts an iteration,
\* a classical iteration restarts the streak at 0.
LEMMA RInvStep ==
    ASSUME MemorylessLaws, RInv, [Next]_vars
    PROVE  RInv'
<1>1. IInv'
    BY NextIInv DEF RInv
<1>. SUFFICES FreshStreakRecovered'
    BY <1>1 DEF RInv
<1>2. CASE PollInputs
    BY <1>2 DEF PollInputs, FreshStreakRecovered
<1>3. CASE CascadeUdeIteration
    BY <1>3, CascadeRecovers DEF RInv
<1>4. CASE PdUdeIteration
    BY <1>4, PdUdeRecovers DEF RInv
<1>5. CASE MUdeIteration
    <2>1. prm.ude = 3 /\ prm \in Params
        BY <1>5 DEF MUdeIteration, RInv, IInv, TypeOK
    <2>. QED
        BY <2>1 DEF MemorylessLaws
<1>6. ASSUME NEW ri0, NEW sp, NEW thr, NEW r, PidTail(ri0, sp, thr, r)
      PROVE  fin_streak' = 0
    BY <1>6 DEF PidTail, Finish
<1>7. CASE AttitudeIteration \/ AcroIteration \/ RatesSetpointIteration
    <2>1. fin_streak' = 0
        BY <1>7, <1>6 DEF AttitudeIteration, AcroIteration, RatesSetpointIteration
    <2>. QED
        BY <2>1 DEF FreshStreakRecovered
<1>8. CASE UNCHANGED vars
    BY <1>8 DEF vars, RInv, FreshStreakRecovered
<1>. QED
    BY <1>2, <1>3, <1>4, <1>5, <1>7, <1>8 DEF Next

\* The memoryless UDE laws recover from a non-finite input: whenever the
\* task may only load the classical path, the cascade law or PD+UDE
\* without the filtered derivative, u_total on roll and pitch is finite
\* again once the inputs have been finite for StreakBound iterations (in
\* fact after one), for every limit, step set and signal set.
THEOREM UdeRecoversMemoryless == MemorylessLaws => (Spec => []UdeRecovers)
<1>. SUFFICES ASSUME MemorylessLaws PROVE Spec => []UdeRecovers
    OBVIOUS
<1>1. Init => RInv
    <2>1. Init => fin_streak = 0
        BY DEF Init
    <2>. QED
        BY InitIInv, <2>1 DEF RInv, FreshStreakRecovered
<1>2. RInv /\ [Next]_vars => RInv'
    BY RInvStep
<1>3. RInv => UdeRecovers
    BY LoopConstAssumption DEF RInv, IInv, TypeOK, FreshStreakRecovered, UdeRecovers
<1>. QED
    BY <1>1, <1>2, <1>3, PTL DEF Spec

=============================================================================
