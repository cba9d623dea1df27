---------------------------- MODULE ControlMath ----------------------------
(***************************************************************************)
(* The float signals of mc_att_control, abstracted.                        *)
(*                                                                         *)
(* A signal whose magnitude a property tells apart (an integrator, a rate  *)
(* error, a thrust compared with MIN_TAKEOFF_THRUST) is an integer in the  *)
(* units of its smallest step, or NaN.  Infinities are not modelled: an   *)
(* infinite rate, thrust or torque is clamped by the constrain calls it    *)
(* meets (constrain(+Inf, lo, hi) = hi), so it behaves unlike NaN, and    *)
(* every claim of this project about non-finite values is about NaN only.  *)
(* The operators below give the float semantics the code                  *)
(* relies on: arithmetic propagates NaN, a comparison with NaN is false,   *)
(* and math::constrain / math::min / math::max are the ternaries of        *)
(* mathlib/Limits.hpp, so constrain lets NaN through while min(NaN, 0)     *)
(* and max(NaN, 0) return 0.                                               *)
(***************************************************************************)
EXTENDS Integers

CONSTANT NaN

ASSUME NaNAssumption == NaN \notin Int

\* Every value a float signal of the model takes.
Val == Int \cup {NaN}

\* PX4_ISFINITE(x)
IsFinite(x) == x # NaN

\* x + y and x - y in float arithmetic.
Plus(x, y) == IF x = NaN \/ y = NaN THEN NaN ELSE x + y
Minus(x, y) == IF x = NaN \/ y = NaN THEN NaN ELSE x - y

\* The float comparisons x > c and x < c against a finite constant c:
\* false for NaN.
Greater(x, c) == x # NaN /\ x > c
Less(x, c) == x # NaN /\ x < c

\* math::constrain(v, lo, hi) == (v < lo) ? lo : ((v > hi) ? hi : v).
Constrain(v, lo, hi) ==
    IF v = NaN THEN NaN ELSE IF v < lo THEN lo ELSE IF v > hi THEN hi ELSE v

\* math::min(a, b) == (a < b) ? a : b and math::max(a, b) == (a > b) ? a : b.
FMin(a, b) == IF a # NaN /\ b # NaN /\ a < b THEN a ELSE b
FMax(a, b) == IF a # NaN /\ b # NaN /\ a > b THEN a ELSE b

\* The integer maximum, for stating properties.
IMax(a, b) == IF a > b THEN a ELSE b
IMin(a, b) == IF a < b THEN a ELSE b
IAbs(a) == IF a < 0 THEN -a ELSE a

=============================================================================
