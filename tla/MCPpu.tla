-------------------------------- MODULE MCPpu --------------------------------
(* What an uninitialised int may hold: nothing unusual, a negative number, *)
(* and a line far beyond the map.                                          *)
EXTENDS Ppu
MCGarbage == {-1, 0, 300}
=============================================================================
