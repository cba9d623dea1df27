---------------------------- MODULE RateControl ----------------------------
(***************************************************************************)
(* The rate controller MulticopterAttitudeControl::control_attitude_rates *)
(* as pure operators on one iteration's values: the per-axis integrator    *)
(* with its disarm reset, thrust gate, conditional anti-windup, discard    *)
(* of out-of-range or non-finite results and final clamp, and whether the *)
(* PID output _att_control is finite.                                      *)
(*                                                                         *)
(* Units: an integrator step rates_i_scaled * rates_err * dt is the rate   *)
(* error itself (rates_i_scaled = I gain * TPA attenuation >= 0.05 * I and *)
(* dt >= 0.0002 are positive factors, so they change neither the sign nor  *)
(* the finiteness of a step).                                              *)
(***************************************************************************)
EXTENDS ControlMath

CONSTANTS
    Axes,              \* the body axes modelled: 0 roll, 1 pitch, 2 yaw
    MinTakeoffThrust   \* MIN_TAKEOFF_THRUST (0.1) in thrust units

ASSUME AxesAssumption == Axes \subseteq 0..2
ASSUME MinTakeoffAssumption == MinTakeoffThrust \in Nat

\* The saturation flags of _saturation_status for one axis.
SatFlags == SUBSET {"pos", "neg"}

ZeroVector(S) == [a \in S |-> 0]

\* Fault model: the positive-saturation branch left out.
AntiWindupErrNoPos(err, sat) ==
    IF "neg" \in sat THEN FMax(err, 0) ELSE err

\* Conditional anti-windup: a positively saturated axis may not integrate a
\* positive error, a negatively saturated one no negative error.
AntiWindupErr(err, sat) ==
    LET e1 == IF "pos" \in sat THEN FMin(err, 0) ELSE err
    IN  IF "neg" \in sat THEN FMax(e1, 0) ELSE e1

\* Fault model: the range test written as !(rate_i <= -lim || rate_i >= lim),
\* which lets a non-finite rate_i through (the comparisons with NaN are false).
IntegrateAxisNegatedTest(int, lim, err, sat) ==
    LET rate_i == Plus(int, AntiWindupErr(err, sat))
    IN  IF ~((rate_i # NaN /\ rate_i <= -lim) \/ (rate_i # NaN /\ rate_i >= lim))
        THEN rate_i ELSE int

\* One forward-Euler step of one axis, kept only if finite and strictly
\* inside the limit; otherwise the previous value is retained.
IntegrateAxis(int, lim, err, sat) ==
    LET rate_i == Plus(int, AntiWindupErr(err, sat))
    IN  IF IsFinite(rate_i) /\ rate_i > -lim /\ rate_i < lim
        THEN rate_i ELSE int

\* Fault models of the whole update: the explicit clamp left out, and the
\* thrust gate written as !(_thrust_sp <= MIN_TAKEOFF_THRUST), which a NaN
\* thrust passes.
RatesIntStepNoClamp(int, lim, active, thrust, err, sat) ==
    LET i0 == IF active THEN int ELSE ZeroVector(Axes)
    IN  IF Greater(thrust, MinTakeoffThrust)
        THEN [a \in Axes |-> IntegrateAxis(i0[a], lim[a], err[a], sat[a])]
        ELSE i0

RatesIntStepNaNThrust(int, lim, active, thrust, err, sat) ==
    LET i0 == IF active THEN int ELSE ZeroVector(Axes)
        i1 == IF ~(thrust # NaN /\ thrust <= MinTakeoffThrust)
              THEN [a \in Axes |-> IntegrateAxis(i0[a], lim[a], err[a], sat[a])]
              ELSE i0
    IN  [a \in Axes |-> Constrain(i1[a], -lim[a], lim[a])]

\* The integrator after one call of control_attitude_rates: reset when not
\* armed or not rotary wing, integrate only above MIN_TAKEOFF_THRUST, then
\* clamp explicitly to the current limit.
RatesIntStep(int, lim, active, thrust, err, sat) ==
    LET i0 == IF active THEN int ELSE ZeroVector(Axes)
        i1 == IF Greater(thrust, MinTakeoffThrust)
              THEN [a \in Axes |-> IntegrateAxis(i0[a], lim[a], err[a], sat[a])]
              ELSE i0
    IN  [a \in Axes |-> Constrain(i1[a], -lim[a], lim[a])]

\* _att_control(a) = P*err + int - D*(filtered - prev_filtered)/dt + FF*sp
\* is finite iff the setpoint, the gyro rate and both filtered rates are;
\* the integrator is always finite.
AttControlFinite(sp, rate, filt, prevFilt) ==
    IsFinite(sp) /\ IsFinite(rate) /\ filt /\ prevFilt

=============================================================================
