------------------------------- MODULE MCTimer -------------------------------
(* The periods of the source, 1024, 16, 64 and 256, in the ratio 8:1:2:4. *)
EXTENDS TimerRefinement

MCCyclesOf == [s \in Select |-> CASE s = 0 -> 8 [] s = 1 -> 1 [] s = 2 -> 2 [] s = 3 -> 4]
=============================================================================
