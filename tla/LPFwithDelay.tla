---------------------------- MODULE LPFwithDelay ----------------------------
(***************************************************************************)
(* math::LPFwithDelay (LPFwithDelay.hpp): a first-order low-pass filter    *)
(* with a fixed-length history of its raw inputs, which Variant C of the   *)
(* UDE controller uses to reconstruct the realised torque (update).        *)
(*                                                                         *)
(* The header declares the state and the constructor; the method bodies   *)
(* are not part of the repository, so only what the controller's          *)
(* properties need is taken from the design (section 4.4): the low-pass   *)
(* output, kept as "finite or not".  A first-order recursive filter       *)
(* y' = (T*y + dt*x)/(T + dt) is NaN whenever its memory y or the input x *)
(* is, so one NaN input is kept forever.  The history, the delayed output *)
(* and set_constant are not modelled.                                     *)
(***************************************************************************)
EXTENDS ControlMath

\* float input_prev[10]
InputPrevLen == 10
LastIndex == InputPrevLen - 1

\* The private members: Output_prev (kept as its finiteness), delay,
\* input_prev[10] and the time constant T.
FilterState ==
    [out_fin: BOOLEAN, delay: Val, input_prev: [0..LastIndex -> Val], T: Val]

\* LPFwithDelay(): every member zero.
LpfInit ==
    [out_fin |-> TRUE, delay |-> 0, input_prev |-> [i \in 0..LastIndex |-> 0],
     T |-> 0]

\* The recursive low-pass memory after one sample.
LowPassFinite(memFin, inFin) == memFin /\ inFin

=============================================================================
