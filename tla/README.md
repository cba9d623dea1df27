# Verification of mc_att_control (multicopter attitude/rate control with UDE)

This directory holds TLA+ models of the PX4 control task in
`src/unnamed/part_000` (`MulticopterAttitudeControl`). It has the TLC
configurations that check the models, TLAPS proofs about them, and the
record in `PROJECT.json` of what is mapped to which source lines.

## The system

A single task blocks in `px4_poll` on the gyro topic (`run()`, lines
1283-1301). On each sample it does the following, in order:

1. Copies every uORB topic that changed into its caches: parameters,
   control mode, manual sticks, vehicle status, motor limits, battery and
   sensor corrections (1319-1331).
2. Applies the rattitude override (1336-1341).
3. If `UDE_SWITCH` is nonzero, runs one UDE law:
   - cascade, `control_attitude_cascade_ude`;
   - PD+UDE, `control_attitude_ude`;
   - motor-dynamics, `control_attitude_m_ude`.

   Each law calls the attitude law and the rate controller for yaw. The task
   then publishes roll, pitch and yaw torque and thrust, either directly or
   re-mixed through the four motors (`mixer`).
4. Otherwise runs the classical path. The rate setpoint comes from the
   attitude law, the acro sticks or the rate-setpoint topic. Then, if rate
   control is enabled, `control_attitude_rates` runs and the actuator vector
   is published.
5. Applies the flight-termination override for non-VTOL vehicles
   (1550-1577).

Every published channel goes through `PX4_ISFINITE(x) ? x : 0`.

Nothing else writes the controller's state, and an iteration is never
interrupted. The other actors (commander, sensors, parameter system) only
publish messages, which the task reads at its next poll.

## Modules

| Module | Models | State / actions |
|---|---|---|
| `ControlMath` | The float semantics the code relies on | `NaN` model value for NaN (infinities are not modelled, see Abstractions). `Plus`/`Minus` propagate it, `Greater` is false on it, `Constrain` lets it through, `FMin`/`FMax` (math::min/max) return the second argument. |
| `RateControl` | `control_attitude_rates` (1122-1233) | Pure operators. `AntiWindupErr` (1197-1207), `IntegrateAxis` (discard-or-commit, 1209-1215) and `RatesIntStep` (reset, thrust gate, integrate, clamp). |
| `UdeControl` | The integrators and filter memories of the UDE variants | `UdeReset`, `MUdeReset` (variant C's reset, 637-661, which also tests `_ude.thrust_sp`), `CommitUde` (INT_LIMIT discard-or-commit), `CascadeIntegral` (519-533), `PdIntegral` (803-816) and `TdHpfFinite` (765-779). |
| `LPFwithDelay` | `LPFwithDelay.hpp` | The header declares the members and defines only the constructor: `FilterState` (the 10-slot `input_prev`, `delay`, `T` and the finiteness of `Output_prev`) and `LpfInit`. The method bodies are not in this repository, so only the NaN latch of the recursive low-pass that variant C relies on (`LowPassFinite`) is taken from the design (4.4). The history shift, the delayed output and `set_constant` are not modelled. |
| `LoopRate` | The timing part of `run()` | The dt clamp (1311-1317) and the loop-rate estimator (1579-1592) in integer ticks: `Wakeup` (one gyro sample after a raw gap, which may be 0 or beyond the band) and `ArmingChange` (the commander). |
| `MCLoopRate` | Model-checking instance | A band of [1, 3] ticks, a period of 6 and a start window of 10 ticks, with raw gaps {0, 2, 5}. |
| `AttControlLoop` | `run()` and the two UDE laws as the task's state machine | See below. |
| `MCAttControlLoop` | Model-checking instances | The commander's control-mode flag sets (stabilized, acro, offboard rates, auto, rattitude, disarmed, termination), status sets and parameter sets. |
| `AttControlLoopProofs`, `AttControlActionProofs`, `UdeRecoveryProofs`, `PidRecoveryProofs`, `LoopRateProofs` | TLAPS proofs | See "What is proved". |

`AttControlLoop` has these variables:
- `cm`: the cached `_v_control_mode`, which the rattitude override mutates.
- `cm_msg`: the last message copied.
- `status` and `act_id`: `_vehicle_status` and `_actuators_id`.
- `prm`: the loaded parameters (integral limits, `UDE_SWITCH`, `UDE_TD`,
  the mixer switch, the circuit breaker).
- `gyro`, `sat`, `stick` and `thrust_sp`.
- `ude_thr`: `_ude.thrust_sp`, written by `control_attitude` (1073) and
  read by variant C's reset test before that call (638).
- `rates_int` and `int_lim_used` (the limit of the last clamp).
- `integral_ude`.
- The finiteness flags of `_rates_prev_filtered`, `_ude.u_total`,
  `attitude_sp_last` and `attitude_dot_sp_last`.
- `mfilt`: the finiteness of variant C's filter memories (`LPFdelay`, `HPF`
  and `HPF2`, `LPF` and `BPF`).
- Four history variables for the properties: `pubs`, the actuator vectors
  published in the iteration; `ran`, the steps run; `fin_streak`, the
  consecutive UDE iterations with finite inputs; `rates_streak`, the
  consecutive calls of `control_attitude_rates` with a finite rate setpoint
  and gyro rate. An iteration that skips rate control leaves `rates_streak`
  alone, as it leaves `_rates_prev_filtered`.

Its actions are:
- `PollInputs`: the wake-up, the copy-if-updated of every topic, and the
  rattitude override.
- `CascadeUdeIteration`, `PdUdeIteration` and `MUdeIteration`: a whole UDE iteration,
  publication and termination override included.
- `AttitudeIteration`, `AcroIteration` and `RatesSetpointIteration`: a whole
  classical iteration. `PidTail` is the rate controller and publication.
  `Finish` is the termination override and the end of the iteration.

Each action is one whole handler, from the wake-up to the next wait.

### Abstractions

- **Integrators** are integers in units of one integration step.
  `rates_i_scaled * err * dt` is the error itself: the gain times the TPA
  factor, and dt, are positive, so they change neither sign nor
  finiteness. The limits are naturals in the same units.
- **Non-finite floats** are the single value `NaN`, and infinities are
  not modelled. An infinite rate, thrust or torque is clamped by the
  `constrain` calls it meets (`constrain(+Inf, lo, hi) = hi`), so it does
  not behave like NaN. Every claim here about non-finite values (the
  latches, the mixer, the output substitution) is about NaN only.
- **Torques and filter memories** whose magnitude no property uses are
  kept only as "finite or not". This covers `_att_control`, `u_total`, the
  high-pass memories and the mixer outputs.
- **The attitude law's quaternion geometry** is not modelled. Each
  iteration draws its rate setpoint, thrust, reference-finiteness and
  weather-vane flag from small sets. The weather-vane reset of the yaw
  integrator (1048-1058) is modelled.
- **A published channel** is `"zero"` or `"value"`, which is the NaN-to-zero
  substitution.

## Runs

All runs but `looprate` use `MCAttControlLoop`. Each config names its own constant sets.

| Run | Expect | Checks | Shows |
|---|---|---|---|
| `pid` | pass (151k states) | `TypeOK`, `IntegratorWithinLimit`, `PidRecovers`, `AntiWindup`, `ThrustGate` | Classical paths on the yaw axis in every mode (termination included), for a multicopter and for a VTOL in multicopter phase (weather-vane reset, `is_rotary_wing` false, termination without effect), with the integral limit moving between 1 and 3, every saturation flag, NaN gyro and NaN thrust, and rate control switched off and on between NaN and finite samples. |
| `term` | violation | `TerminationOutputsZero` | In UDE mode the termination iteration publishes the UDE vector before the zero vector. |
| `ratt` | violation | `AttitudeControlFollowsCommand` | The rattitude override persists after the stick returns. |
| `disarm` | violation | `DisarmedIntegratorsZero` | A disarmed update integrates right after the reset. |
| `tdlatch` | violation | `UdeRecovers` | With `UDE_TD = 1` one NaN reference makes the PD+UDE torque NaN forever. |
| `mude` | pass (30k states) | `TypeOK`, `ThrustGate` | Variant C, armed and disarmed, direct and mixed, with NaN setpoints, gyro and thrust. |
| `mlatch` | violation | `UdeRecovers` | Variant C's filters keep one NaN forever: the torque never recovers. |
| `mstale` | violation | `MUdeResetBelowThrust` | Variant C's reset tests last iteration's thrust: armed with thrust 0 right after thrust 2, `integral_ude` stays non-zero. |
| `mixnan` | violation | `ThrustOutputFollowsSetpoint` | Through the mixer, a NaN torque zeroes the thrust channel too. The direct path meets the property. |
| `looprate` | pass (1.8k states) | `EstimateInBand`, `RetunedWhileDisarmed` | Estimates stay in band; while disarmed, the D-filters keep being re-tuned. |

The seven violations are recorded as findings in `PROJECT.json`.

### The properties

- **`IntegratorWithinLimit`**: every axis of `_rates_int` lies within the
  limit of the last clamp.
- **`AntiWindup`** (action): a positively saturated axis never ends an
  iteration above max(old, 0), and symmetrically for negative saturation.
- **`ThrustGate`** (action): in an iteration whose thrust is not above
  `MIN_TAKEOFF_THRUST` (NaN included), neither integrator moves away from
  zero.
- **`UdeRecovers`**: after `StreakBound` = 2 UDE iterations with finite
  inputs, the roll/pitch `u_total` is finite.
- **`PidRecovers`**: after `StreakBound` = 2 consecutive calls of
  `control_attitude_rates` on a finite rate setpoint and gyro rate, every
  torque channel a classical iteration publishes is finite. The D term
  differentiates against `_rates_prev_filtered` (1176), which is written
  only when rate control runs (1180). A NaN sample therefore also poisons
  the next call, however many iterations skip rate control in between.
  With `StreakBound` = 1 the property fails. It relies on the D-term
  filter passing finiteness per sample (see "Not modelled").
- **`MUdeResetBelowThrust`**: a variant-C iteration whose thrust is below
  `MIN_TAKEOFF_THRUST` ends with a zero `integral_ude` (design 4.3).
- **`ThrustOutputFollowsSetpoint`**: with a finite thrust setpoint and no
  termination, the thrust channel is published as a value (design 4.6 and 7:
  per-channel substitution).
- **`EstimateInBand`**: every estimate `loop_counter / dt_accumulator` lies
  between 1/DtCeil and 1/DtFloor.
- **`RetunedWhileDisarmed`** (liveness): `<>[]~armed => []<>retuned`.

Each property has a fault model that breaks it (`PROJECT.json`,
"mutants"):
- the range test negated, which lets NaN through;
- the clamp or the positive anti-windup branch dropped;
- the thrust gate negated, or removed from the cascade integral;
- the `UDE_TD` test inverted;
- the INT_LIMIT test made inclusive, or the gate dropped from the PD integral;
- `_rates_prev_filtered += rates_filtered` instead of `=`, which keeps a
  NaN for good;
- the dt clamp dropped, or the estimator's armed test inverted.

### Bounds

- **Axes.** Each run has one axis. The integrator code is per-axis and the
  axes never interact; only the mixer couples them. The `pid` run uses yaw,
  where the weather-vane reset and `u_total[2]` matter. The UDE runs use
  the axes their cfg names.
- **Integral limits** are 1 and 3. A step of 1 can then reach ±2 under
  limit 3, and switching to limit 1 exercises the clamp.
- **Thrusts** are {0, 2, NaN} around `MIN_TAKEOFF_THRUST` = 1: below,
  above, and non-finite.
- **Rate setpoints** are {-1, 1}, plus NaN in the UDE runs. **Gyro** values
  are {0, NaN}. Together these give errors of both signs and NaN.
- **`INT_LIMIT`** (`UdeLimit`) is 2.

Every branch of the integrator code is reached: reset, gate, discard at the
limit, commit and clamp.

`LoopRate`: a band of [1, 3] ticks and a period of 6 means a re-estimate
takes 2 to 6 wake-ups. The gaps {0, 2, 5} hit the floor, the band and the
ceiling. The start window of 10 closes after a few wake-ups, so both sides
of the `(now - task_start) < 3.3 s` test are reached. The model checks the
raw estimate `loop_counter / dt_accumulator`. The code stores
`0.5 * old + 0.5 * new` (1586), which stays in the band when the old value
is in it. The smoothed value is not modelled, because its rationals grow
without bound. The smoothed value is in the band (50 Hz to 5 kHz) as long
as its initial value is. That value is set in the class header, which is
not in this repository.

### Fairness

Only `LoopRate` has fairness: `WF_lrVars(Wakeup)`. The gyro driver keeps
publishing, and `px4_poll` returns on every sample. A poll timeout only
lengthens the next gap, which the gap 5 stands for. Arming is the pilot's
choice and gets no fairness, so `RetunedWhileDisarmed` assumes
`<>[]~armed`. The control-task runs check only safety.

## What is proved

`AttControlLoopProofs` proves, for all constants satisfying the named
assumptions (`NaNAssumption`, `AxesAssumption`, `MinTakeoffAssumption`,
`UdeLimitAssumption`, `UdeStepsAssumption`, `LoopConstAssumption`):

- `TypeCorrect`: `Spec => []TypeOK`.
- `IntegratorBounded`: `Spec => []IntegratorWithinLimit`.

Both follow from the inductive invariant `IInv == TypeOK /\
IntegratorWithinLimit /\ UdeIntegralWithinLimit`. The bound is part of the induction because a
classical iteration with rate control off keeps `_rates_int` and the
recorded limit as they were, so only the previous bound shows the state is
still within the limit.

The argument rests on three operator lemmas:
- `ConstrainInBand`: constrain of a finite value is in the band.
- `IntegrateAxisInt`: discard-or-commit keeps the integrator finite.
- `RatesIntStepBounded`: the whole update lands in [-lim, lim].

`FinishInv` shows that the end of an iteration, termination included,
re-establishes the invariant from well-typed results. There is one lemma
per action, and `NextIInv` combines them.

`UdeIntegralWithinLimit` (`integral_ude` strictly inside `INT_LIMIT`) is
needed to show that `integral_ude` stays an integer. `CommitUdeBand` shows
that the commit test stores only an integer strictly inside the limit, and
`ResetInBand` covers both resets.

`PidRecoveryProofs` proves `PidRecoversAlways`:
`StreakBound >= 2 => (Spec => []PidRecovers)`. The strengthening
`StreakMeansPrevFinite` says that while the rates streak is not 0, every
stored filtered rate is finite. A call with finite inputs stores finite
filtered rates and a positive streak (`CallKeepsPrevFinite`). A skipped
call changes neither, and a UDE iteration is such a call too. A streak
that reaches a bound of at least 2 was already positive
(`RatesStreakWasRunning`). The D term then sees finite samples on both
sides, so every published torque is a value (`PidTailPInv`). The pid run
shows that one finite call is not enough.

`LoopRateProofs` proves `EstimateAlwaysInBand`
(`LoopRateSpec => []EstimateInBand`) from `LoopRateAssumption`.
`EstimateInBand` is not inductive, because an estimate is taken from the
running sums. The strengthening `AccumulatorInBand`
(`loop_counter * DtFloor <= dt_acc <= loop_counter * DtCeil`) holds because
`ClampInBand` puts each dt in the band.

`AttControlActionProofs` proves the two action properties of the pid,
ude and mude runs for all constants:
- `AntiWindupHolds`: `Spec => AntiWindup`.
- `ThrustGateHolds`: `Spec => ThrustGate`.

Neither step formula holds from an arbitrary state: both need the types
of `IInv` (an integer integrator, natural limits, float errors). The
proof shows `IInv /\ [Next]_vars => [AntiWindupStep /\ ThrustGateStep]_vars`
(`NextSteps`) and combines it with `[]IInv` by PTL.

The argument turns on `Between(x, y)`: x lies between 0 and y. It implies
both anti-windup bounds and `|x| <= |y|`. Every operation that touches an
integrator produces a value between 0 and the old value, or respects the
saturated direction:
- `AntiWindupErrSign`: `math::min(err, 0)` of a NaN error is 0, so a
  saturated axis's error is a finite value of the right sign.
- `IntegrateAxisSign`: discard-or-commit never moves in the saturated
  direction.
- `ConstrainToward`: the explicit clamp keeps those bounds.
- `RatesIntStepToward` and `RatesIntGated` compose these for a whole call
  of control_attitude_rates. With the thrust gate closed, the result is
  between 0 and the start.
- `WeathervaneBetween` and `ResetBetween` cover the weather-vane zeroing
  and both disarm resets. `UdeGateClosed` shows that a closed gate leaves
  `integral_ude` as it was.
- `FinishSteps` turns all of this into both step formulas. The
  termination override only zeroes the integrators, and `sat` is not
  changed by an iteration.

`UdeRecoveryProofs` proves `UdeRecoversMemoryless`:
`MemorylessLaws => (Spec => []UdeRecovers)`. `MemorylessLaws` says every
loadable parameter set selects the classical path, the cascade law or
PD+UDE with `UDE_TD = 0`. It is a hypothesis of the theorem, not an
assumption of the model. The ude run's `UdeParams` satisfy it. The
tdlatch and mlatch runs show that `UdeRecovers` fails without it.

`UdeRecovers` is not inductive. The strengthening
`FreshStreakRecovered` (u_total is finite right after a UDE iteration whose
streak is not 0) was checked by TLC on the ude instance before being
proved. A non-zero streak means this iteration's inputs were finite
(`StreakMeansFinite`). The memoryless laws compute u_total from those
inputs alone (`CascadeRecovers`, `PdUdeRecovers`). A classical iteration
restarts the streak.

The following stay with TLC:
- `RetunedWhileDisarmed`: liveness, which TLAPS does not prove here;
- `UdeRecovers` for the variants with memory, where it is violated;
- everything about the `ENABLED` operator, or needing induction over data.

## Not modelled (yet)

- **The bodies of LPFwithDelay's methods.** They are not in this
  repository. Only the low-pass NaN latch is taken from the design (4.4).
  The history, the delayed output and `set_constant` are not modelled.
- **Infinities.** See Abstractions: NaN only.
- **The loop-rate smoothing** at 1586 (see Bounds).
- **The attitude law's quaternion math and the platform trajectory
  generator.** Rotation math over the reals is out of TLC's reach. The
  generator is a bench feature.
- **The coupling of dt and the estimate to the controller.** `LoopRate`
  and `AttControlLoop` are separate. The controller uses dt only as a
  positive factor, and the estimate only re-tunes a filter whose memory is
  not modelled.
- **Battery scaling and the gyro corrections.** They scale finite values
  and preserve finiteness.
- **The D-term low-pass filter's own memory.** That filter is a library
  class outside this repository. Its output is taken as finite exactly when
  the sample is. Its delay elements would hold a NaN for a few more
  samples, which would lengthen the recovery `PidRecovers` describes.
- **The task lifecycle and CLI.**
