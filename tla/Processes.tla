------------------------------ MODULE Processes ------------------------------
(***************************************************************************)
(* What the CPU loop and the devices assume of each other: a process       *)
(* sleeps for one of its waiting times, may then set its own bits of the   *)
(* flag register, and sleeps again or, if one-shot, until it is started.   *)
(* The program changes the flag register at any moment, but no waiting     *)
(* time that has begun; and time does not pass over a process that is due. *)
(* MachineCycle, Timer and Ports each implement it for their processes.    *)
(***************************************************************************)
EXTENDS Integers

CONSTANTS
  Devices,    \* the processes
  OneShot,    \* those that sleep until they are started
  Waits,      \* Waits[p]: the times p may sleep between two activations
  First,      \* First[p]: when p is activated first, unless one-shot
  Raises      \* Raises[p]: the interrupt request bits p may set

VARIABLES
  armed,      \* the processes that have a wake-up scheduled
  due,        \* how long each of them still sleeps
  iflag       \* the interrupt flag register

vars == <<armed, due, iflag>>

Init ==
  /\ armed \subseteq Devices
  /\ Devices \ OneShot \subseteq armed
  /\ due \in [Devices -> Nat]
  /\ \A p \in armed : due[p] = First[p]

(* Time passes, for some process and hence for all. *)
Elapse ==
  /\ \E q \in armed : \E d \in 1 .. due[q] :
       /\ \A p \in armed : d <= due[p]
       /\ due' = [p \in Devices |-> IF p \in armed THEN due[p] - d ELSE due[p]]
  /\ UNCHANGED <<armed, iflag>>

Activate(p) ==
  /\ p \in armed /\ due[p] = 0
  /\ \E raised \in SUBSET Raises[p] : iflag' = iflag \cup raised
  /\ IF p \in OneShot
       THEN armed' = armed \ {p} /\ UNCHANGED due
       ELSE /\ \E w \in Waits[p] : due' = [due EXCEPT ![p] = w]
            /\ UNCHANGED armed

Start(p) ==
  /\ p \in OneShot \ armed
  /\ armed' = armed \cup {p}
  /\ \E w \in Waits[p] : due' = [due EXCEPT ![p] = w]
  /\ UNCHANGED iflag

Program == UNCHANGED <<armed, due>>

Next == Elapse \/ Program \/ \E p \in Devices : Activate(p) \/ Start(p)

Spec == Init /\ [][Next]_vars
=============================================================================
