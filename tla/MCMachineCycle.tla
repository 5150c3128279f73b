--------------------------- MODULE MCMachineCycle ---------------------------
(***************************************************************************)
(* Instances of MachineCycle for TLC: a PPU that raises VBlank, a timer,   *)
(* and a serial port that is started by the program.                       *)
(***************************************************************************)
EXTENDS MachineCycleRefinement

MCDevices == {"ppu", "timer", "serial"}
MCOneShot == {"serial"}
MCWaits ==
  [p \in MCDevices |-> CASE p = "ppu" -> {2, 5} [] p = "timer" -> {4} [] p = "serial" -> {6}]
MCFirst == [p \in MCDevices |-> CASE p = "ppu" -> 1 [] p = "timer" -> 4 [] p = "serial" -> 0]
MCRaises == [p \in MCDevices |-> CASE p = "ppu" -> {0} [] p = "timer" -> {2} [] p = "serial" -> {3}]
=============================================================================
