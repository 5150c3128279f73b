----------------------- MODULE MachineCycleRefinement -----------------------
(***************************************************************************)
(* MachineCycle implements LockStep, for programs without HALT that start  *)
(* no one-shot process.  In the state of LockStep that a state stands for, *)
(* the CPU has already slept through its lead.                             *)
(***************************************************************************)
EXTENDS MachineCycle

(* How much of a wait lies before the last instruction's own time. *)
Behind == IF cpu = "wait" /\ cpuDue > spent THEN cpuDue - spent ELSE 0

absPhase == CASE cpu = "top" -> "look" [] cpu = "exec" -> "run" [] OTHER -> "sleep"

absCpuDue ==
  CASE cpu = "tail" -> spent
    [] cpu = "wait" -> cpuDue - Behind
    [] OTHER -> 0

absDue == [p \in Devices |-> IF p \in armed THEN due[p] - lead - Behind ELSE due[p]]

LS == INSTANCE LockStep WITH phase <- absPhase, cpuDue <- absCpuDue, due <- absDue

(***************************************************************************)
(* Temporal decoupling is transparent: the program sees every interrupt at *)
(* the instruction at which a CPU that waits after each instruction would. *)
(***************************************************************************)
ImplementsLockStep == LS!Spec

(***************************************************************************)
(* What the loop grants the other processes: running ahead, halting and    *)
(* dispatching, it never moves a wake-up nor sleeps over one.              *)
(***************************************************************************)
PR == INSTANCE Processes

CpuKeepsProcesses == PR!Spec
=============================================================================
