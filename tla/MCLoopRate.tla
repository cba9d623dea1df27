---------------------------- MODULE MCLoopRate ----------------------------
(***************************************************************************)
(* Model-checking instance of LoopRate.  One tick stands for 0.2 ms: the   *)
(* clamp band is [1, 3] ticks, the accumulation period 6 ticks and the     *)
(* start window 10 ticks, so that a re-estimate takes two to six           *)
(* wake-ups and the window closes after a few of them.  The raw gaps are   *)
(* a repeated time stamp (0), an in-band interval (2) and a stall (5).     *)
(***************************************************************************)
EXTENDS LoopRate

MCDtFloor == 1
MCDtCeil == 3
MCSecond == 6
MCStartWindow == 10
MCGaps == {0, 2, 5}

=============================================================================
