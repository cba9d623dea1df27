-------------------------- MODULE LoopRateProofs --------------------------
(***************************************************************************)
(* Proofs about the loop-rate estimator for every choice of the clamp      *)
(* band, the accumulation period, the start window and the raw intervals.  *)
(* EstimateInBand alone is not inductive: a re-estimate is taken from the  *)
(* running accumulators, so they must already be in band.  Each clamped    *)
(* dt lies in [DtFloor, DtCeil], hence so does the mean of any run of them *)
(* (AccumulatorInBand), and a re-estimate inherits it.                     *)
(***************************************************************************)
EXTENDS LoopRate, TLAPS

\* The running accumulators: each of the loop_counter intervals summed in
\* dt_accumulator lay in the clamp band.
AccumulatorInBand ==
    loop_counter * DtFloor <= dt_acc /\ dt_acc <= loop_counter * DtCeil

IInv == LoopRateTypeOK /\ AccumulatorInBand /\ EstimateInBand

\* The clamp keeps every interval in [DtFloor, DtCeil].
LEMMA ClampInBand ==
    ASSUME NEW gap \in Gaps
    PROVE  ClampDt(gap) \in DtFloor..DtCeil
  BY LoopRateAssumption DEF ClampDt

LEMMA IInvInit == LoopRateInit => IInv
  <1> SUFFICES ASSUME LoopRateInit PROVE IInv
    OBVIOUS
  <1>1. LoopRateTypeOK
    <2>1. <<1, DtFloor>> \in Nat \X Nat
      BY LoopRateAssumption
    <2>2. 0 \in 0..StartWindow
      BY LoopRateAssumption
    <2> QED BY <2>1, <2>2 DEF LoopRateInit, LoopRateTypeOK
  <1>2. AccumulatorInBand
    BY LoopRateAssumption DEF LoopRateInit, AccumulatorInBand
  <1>3. EstimateInBand
    BY LoopRateAssumption DEF LoopRateInit, EstimateInBand
  <1> QED BY <1>1, <1>2, <1>3 DEF IInv

LEMMA IInvStep == IInv /\ [LoopRateNext]_lrVars => IInv'
  <1> SUFFICES ASSUME IInv, [LoopRateNext]_lrVars PROVE IInv'
    OBVIOUS
  <1> USE LoopRateAssumption
  <1>1. CASE ArmingChange
    BY <1>1 DEF ArmingChange, IInv, LoopRateTypeOK, AccumulatorInBand,
                EstimateInBand
  <1>2. CASE Wakeup
    <2> PICK gap \in Gaps : WakeupAfter(gap)
      BY <1>2 DEF Wakeup
    <2> DEFINE dt == ClampDt(gap)
               elapsed == IF since_start + gap >= StartWindow
                          THEN StartWindow ELSE since_start + gap
               acc == dt_acc + dt
               cnt == loop_counter + 1
    <2> USE DEF WakeupAfter
    <2>1. dt \in DtFloor..DtCeil
      BY ClampInBand
    <2>2. cnt * DtFloor <= acc /\ acc <= cnt * DtCeil
      BY <2>1 DEF IInv, LoopRateTypeOK, AccumulatorInBand
    <2>3. since_start' \in 0..StartWindow
      BY DEF IInv, LoopRateTypeOK
    <2>4. CASE EstimatorActive(armed, elapsed) /\ acc > Second
      BY <2>1, <2>2, <2>3, <2>4
         DEF IInv, LoopRateTypeOK, AccumulatorInBand, EstimateInBand
    <2>5. CASE EstimatorActive(armed, elapsed) /\ ~(acc > Second)
      <3>1. /\ dt_acc' = acc /\ loop_counter' = cnt /\ retuned' = FALSE
            /\ estimate' = estimate /\ armed' = armed
        BY <2>5
      <3>2. acc \in Nat /\ cnt \in Nat
        BY <2>1 DEF IInv, LoopRateTypeOK
      <3> QED
        BY <2>2, <2>3, <3>1, <3>2
           DEF IInv, LoopRateTypeOK, AccumulatorInBand, EstimateInBand
    <2>6. CASE ~EstimatorActive(armed, elapsed)
      BY <2>3, <2>6
         DEF IInv, LoopRateTypeOK, AccumulatorInBand, EstimateInBand
    <2> QED BY <2>4, <2>5, <2>6
  <1>3. CASE UNCHANGED lrVars
    BY <1>3 DEF lrVars, IInv, LoopRateTypeOK, AccumulatorInBand,
                EstimateInBand
  <1> QED BY <1>1, <1>2, <1>3 DEF LoopRateNext

\* Every loop rate the estimator hands to the D-term filters lies between
\* 1/DtCeil and 1/DtFloor, for every clock behaviour: a repeated time stamp
\* or a stall cannot make the re-tuned cutoff degenerate.
THEOREM EstimateAlwaysInBand == LoopRateSpec => []EstimateInBand
  <1>1. IInv => EstimateInBand
    BY DEF IInv
  <1> QED BY <1>1, IInvInit, IInvStep, PTL DEF LoopRateSpec

=============================================================================
