---------------------------- MODULE UdeControl -----------------------------
(***************************************************************************)
(* The uncertainty/disturbance-estimation (UDE) attitude laws of           *)
(* mc_att_control as pure operators on one iteration's values.  They act   *)
(* on roll and pitch only; yaw keeps the PID output of the rate            *)
(* controller.  integral_ude is an integer in units of its smallest step   *)
(* and INT_LIMIT is UdeLimit of those units.  A torque or filter memory    *)
(* whose magnitude no property depends on is abstracted to whether it is   *)
(* finite.                                                                 *)
(***************************************************************************)
EXTENDS RateControl

CONSTANTS
    UdeLimit,   \* INT_LIMIT (1.0) in integrator units
    UdeSteps    \* the finite values an integrator step of unknown size takes

ASSUME UdeLimitAssumption == UdeLimit \in Nat \ {0}
ASSUME UdeStepsAssumption == UdeSteps \subseteq Int

\* The axes a UDE law controls.
UdeAxes == Axes \cap {0, 1}

\* "reset integral if disarmed": cascade and PD+UDE variants.
UdeReset(iu, active) == IF active THEN iu ELSE ZeroVector(UdeAxes)

\* Fault model: the range test negated, letting a non-finite value through.
CommitUdeNegatedTest(iu, v) ==
    IF ~((v # NaN /\ v <= -UdeLimit) \/ (v # NaN /\ v >= UdeLimit)) THEN v ELSE iu

\* Commit an integrator candidate only if finite and strictly inside the
\* limit, else keep the previous value.
CommitUde(iu, v) ==
    IF IsFinite(v) /\ v > -UdeLimit /\ v < UdeLimit THEN v ELSE iu

\* "reset integral if disarmed" of the motor-dynamics variant, which also
\* resets when _ude.thrust_sp (as last stored) is below MIN_TAKEOFF_THRUST
\* or the vehicle is not a rotary wing.
MUdeReset(iu, udeThr, active) ==
    IF Less(udeThr, MinTakeoffThrust) \/ ~active THEN ZeroVector(UdeAxes) ELSE iu

\* Fault model: the cascade integral updated whatever the thrust.
CascadeIntegralNoGate(iu, errRate, thrust) ==
    CommitUde(iu, Minus(iu, errRate))

\* Variant 2 (cascade): integral = integral_ude - Kp * err_rate * dt, only
\* above MIN_TAKEOFF_THRUST.
CascadeIntegral(iu, errRate, thrust) ==
    IF Greater(thrust, MinTakeoffThrust)
    THEN CommitUde(iu, Minus(iu, errRate))
    ELSE iu

\* Fault model: the PD+UDE / motor-dynamics integral updated whatever the
\* thrust.
PdIntegralNoGate(iu, step, thrust) == CommitUde(iu, Plus(iu, step))

\* Variant 1 (PD+UDE): integral = integral_ude - dt*(ff + Kp*e_att + Kd*e_rate);
\* the step is a value of UdeSteps when its terms are finite, NaN otherwise.
PdIntegral(iu, step, thrust) ==
    IF Greater(thrust, MinTakeoffThrust)
    THEN CommitUde(iu, Plus(iu, step))
    ELSE iu

\* The high-pass reference derivative of variant 1,
\*   hpf = (T*attitude_dot_sp_last + attitude_ref - attitude_sp_last)/(T + dt),
\* is finite iff both memories and the new reference are; constrain(hpf,-4,4)
\* lets NaN through, and the result becomes attitude_dot_sp_last.
TdHpfFinite(dotLastFin, refLastFin, refFin) ==
    dotLastFin /\ refLastFin /\ refFin

=============================================================================
