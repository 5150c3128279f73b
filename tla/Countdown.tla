------------------------------ MODULE Countdown ------------------------------
(***************************************************************************)
(* What the Timer module promises the program: a running timer requests    *)
(* its interrupt exactly when a countdown ends, which only the passing of  *)
(* time and writes to the timer's registers change, and then counts the    *)
(* whole period down again; DIV wraps around once per period of its own,   *)
(* whether the timer runs or not.  Neither the prescaler's threads nor the *)
(* steps of the registers are visible here.                                *)
(***************************************************************************)
EXTENDS Integers

CONSTANTS
  DivPeriod,  \* the cycles between two wraps of DIV
  DivStep     \* by how much a write to DIV, which does not restart the prescaler, errs

VARIABLES
  running,    \* the timer is enabled
  left,       \* the cycles until its next interrupt, 0 if it is not enabled
  reload,     \* the cycles between two interrupts
  irq,        \* the interrupt is requested
  divLeft     \* the cycles until DIV wraps around

vars == <<running, left, reload, irq, divLeft>>

Init ==
  /\ running \in BOOLEAN
  /\ left \in Nat
  /\ reload \in Nat \ {0}
  /\ irq = FALSE
  /\ divLeft \in 0 .. DivPeriod

(* A cycle passes; none does while an interrupt or a wrap is to be made. *)
Elapse ==
  /\ divLeft > 0
  /\ divLeft' = divLeft - 1
  /\ running => left > 0
  /\ left' = IF running THEN left - 1 ELSE left
  /\ UNCHANGED <<running, reload, irq>>

Expire ==
  /\ running /\ left = 0
  /\ left' = reload
  /\ irq' = TRUE
  /\ UNCHANGED <<running, reload, divLeft>>

DivWraps ==
  /\ divLeft = 0
  /\ divLeft' = DivPeriod
  /\ UNCHANGED <<running, left, reload, irq>>

-----------------------------------------------------------------------------
(* The program. *)

SetCount == left' \in Nat /\ UNCHANGED <<running, reload, irq, divLeft>>

(* The present countdown is not affected. *)
SetModulo == reload' \in Nat \ {0} /\ UNCHANGED <<running, left, irq, divLeft>>

SetControl ==
  /\ running' \in BOOLEAN
  /\ left' \in Nat
  /\ reload' \in Nat \ {0}
  /\ UNCHANGED <<irq, divLeft>>

ResetDiv ==
  /\ divLeft' \in DivPeriod - DivStep .. DivPeriod
  /\ UNCHANGED <<running, left, reload, irq>>

Acknowledge == irq' \in BOOLEAN /\ UNCHANGED <<running, left, reload, divLeft>>

Next ==
  \/ Elapse \/ Expire \/ DivWraps
  \/ SetCount \/ SetModulo \/ SetControl \/ ResetDiv \/ Acknowledge

Spec == Init /\ [][Next]_vars
=============================================================================
