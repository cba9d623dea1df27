------------------------------ MODULE LoopRate ------------------------------
(***************************************************************************)
(* The timing part of MulticopterAttitudeControl::run(): the dt of every   *)
(* gyro wake-up, clamped to [0.2 ms, 20 ms], and the loop-rate estimator   *)
(* that, while disarmed or during the first 3.3 s, accumulates dt and a    *)
(* count of iterations and, each time more than a second has accumulated,  *)
(* re-estimates the loop rate and re-tunes the D-term filters with it.     *)
(*                                                                         *)
(* Time is an integer number of ticks.  DtFloor and DtCeil are the clamp   *)
(* bounds, Second and StartWindow the 1 s and 3.3 s thresholds.  Gaps are  *)
(* the raw intervals between two wake-ups the clock may show: zero (two    *)
(* samples with the same time stamp), within the band, and beyond it (a    *)
(* stalled sensor or a run of poll timeouts, which only lengthen the next  *)
(* interval).  The estimate counter/acc is kept as the pair it is computed *)
(* from.  The code hands set_cutoff_frequency the average of that raw      *)
(* estimate and the previous rate (0.5 * old + 0.5 * new); the average is  *)
(* not modelled, and lies in the band whenever both of its terms do.       *)
(***************************************************************************)
EXTENDS Integers

CONSTANTS
    DtFloor,        \* 0.0002 s
    DtCeil,         \* 0.02 s
    Second,         \* 1 s, the accumulation period
    StartWindow,    \* 3.3 s after task start
    Gaps            \* raw intervals now - last_run

ASSUME LoopRateAssumption ==
    /\ DtFloor \in Nat \ {0} /\ DtCeil \in Nat /\ DtFloor <= DtCeil
    /\ Second \in Nat /\ StartWindow \in Nat
    /\ Gaps \subseteq Nat /\ Gaps # {}

VARIABLES
    since_start,    \* now - task_start, saturated at StartWindow
    armed,          \* _v_control_mode.flag_armed
    dt_acc,         \* dt_accumulator
    loop_counter,   \* loop_counter
    estimate,       \* <<loop_counter, dt_accumulator>> of the last re-estimate
    retuned         \* the D-term filters were re-tuned in this iteration

lrVars == <<since_start, armed, dt_acc, loop_counter, estimate, retuned>>

LoopRateTypeOK ==
    /\ since_start \in 0..StartWindow
    /\ armed \in BOOLEAN
    /\ dt_acc \in Nat /\ loop_counter \in Nat
    /\ estimate \in Nat \X Nat
    /\ retuned \in BOOLEAN

\* task_start = last_run = now, dt_accumulator = 0, loop_counter = 0.
LoopRateInit ==
    /\ since_start = 0
    /\ armed = FALSE
    /\ dt_acc = 0
    /\ loop_counter = 0
    /\ estimate = <<1, DtFloor>>
    /\ retuned = FALSE

\* Fault model: the guard against too small and too large dt's left out.
ClampDtMissing(gap) == gap

\* dt = (now - last_run), then "if (dt < 0.0002f) dt = 0.0002f; else if
\* (dt > 0.02f) dt = 0.02f;".
ClampDt(gap) ==
    IF gap < DtFloor THEN DtFloor ELSE IF gap > DtCeil THEN DtCeil ELSE gap

\* Fault model: the estimator run only while armed.
EstimatorActiveInverted(arm, elapsed) == arm \/ elapsed < StartWindow

\* "calculate loop update rate while disarmed or at least a few times".
EstimatorActive(arm, elapsed) == ~arm \/ elapsed < StartWindow

\* The vehicle is armed or disarmed (vehicle_control_mode, polled at the
\* top of the loop); the loop has no say in it.
ArmingChange ==
    /\ armed' = ~armed
    /\ UNCHANGED <<since_start, dt_acc, loop_counter, estimate, retuned>>

\* One gyro wake-up gap ticks after the previous one: dt from the clock,
\* then (at the end of the iteration) the estimator, which re-estimates and
\* re-tunes once dt_accumulator exceeds a second and then starts over.
WakeupAfter(gap) ==
    LET dt == ClampDt(gap)
        elapsed == IF since_start + gap >= StartWindow
                   THEN StartWindow ELSE since_start + gap
        acc == dt_acc + dt
        cnt == loop_counter + 1
    IN  /\ since_start' = elapsed
        /\ IF EstimatorActive(armed, elapsed)
           THEN IF acc > Second
                THEN /\ estimate' = <<cnt, acc>>
                     /\ dt_acc' = 0
                     /\ loop_counter' = 0
                     /\ retuned' = TRUE
                ELSE /\ dt_acc' = acc
                     /\ loop_counter' = cnt
                     /\ retuned' = FALSE
                     /\ UNCHANGED estimate
           ELSE /\ retuned' = FALSE
                /\ UNCHANGED <<dt_acc, loop_counter, estimate>>
        /\ UNCHANGED armed

Wakeup == \E gap \in Gaps : WakeupAfter(gap)

LoopRateNext == ArmingChange \/ Wakeup

\* The sensor driver keeps publishing, and px4_poll returns on every new
\* sample, so a wake-up always eventually happens.  Arming is up to the
\* pilot and gets no fairness.
LoopRateSpec == LoopRateInit /\ [][LoopRateNext]_lrVars /\ WF_lrVars(Wakeup)

-----------------------------------------------------------------------------
(* Properties.                                                             *)

\* The raw loop-rate estimate, the new term of the rate handed to
\* set_cutoff_frequency, is sane: every loop_counter / dt_accumulator lies between 1/DtCeil and 1/DtFloor (50 Hz
\* and 5 kHz), whatever intervals the clock shows, same-time-stamp samples
\* and long stalls included.
EstimateInBand ==
    estimate[1] * DtFloor <= estimate[2] /\ estimate[2] <= estimate[1] * DtCeil

\* While the vehicle stays disarmed the D-term filters keep being re-tuned:
\* the accumulator cannot stall, however short the intervals.
RetunedWhileDisarmed == (<>[]~armed) => []<>retuned

=============================================================================
