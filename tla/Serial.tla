------------------------------- MODULE Serial -------------------------------
(***************************************************************************)
(* The Serial module: nobody is ever connected, but a transfer started     *)
(* with the internal clock raises its interrupt after the time of eight    *)
(* bits.  The completion is a timed SystemC event; ongoing_transmission    *)
(* keeps a second one from being scheduled.                                *)
(***************************************************************************)
EXTENDS Integers

CONSTANT TransferTime   \* 8 * 122 us

VARIABLES
  start, internal,  \* bits 7 and 0 of reg_sc
  ongoing,          \* ongoing_transmission
  scheduled,        \* interrupt_event has a notification pending,
  eventDue,         \* in this time
  iflag             \* the interrupt flag register, as a set of bits

serialVars == <<start, internal, ongoing, scheduled, eventDue>>

SerialIO == 3       \* the bit kSerialIOIf

TypeOK ==
  /\ start \in BOOLEAN /\ internal \in BOOLEAN
  /\ ongoing \in BOOLEAN
  /\ scheduled \in BOOLEAN
  /\ eventDue \in Nat

(***************************************************************************)
(* SerialInterrupt is a method without dont_initialize(): it has run once  *)
(* before the first thread does, on registers nobody initialised.          *)
(***************************************************************************)
Init ==
  /\ start = FALSE
  /\ internal \in BOOLEAN
  /\ ongoing = FALSE
  /\ scheduled = FALSE
  /\ eventDue = 0
  /\ SerialIO \in iflag

(* Faults: the completion leaves the start bit, or requests the timer's interrupt. *)
SerialInterruptStarted ==
  /\ scheduled /\ eventDue = 0
  /\ scheduled' = FALSE /\ ongoing' = FALSE
  /\ iflag' = iflag \cup {SerialIO}
  /\ UNCHANGED <<start, internal, eventDue>>

SerialInterruptTimer ==
  /\ scheduled /\ eventDue = 0
  /\ scheduled' = FALSE /\ start' = FALSE /\ ongoing' = FALSE
  /\ iflag' = iflag \cup {SerialIO - 1}
  /\ UNCHANGED <<internal, eventDue>>

SerialInterrupt ==
  /\ scheduled
  /\ eventDue = 0
  /\ scheduled' = FALSE
  /\ iflag' = iflag \cup {SerialIO}
  /\ start' = FALSE
  /\ ongoing' = FALSE
  /\ UNCHANGED <<internal, eventDue>>

(* Fault: a transfer starts with the edge of the start bit. *)
WriteSCEdge ==
  /\ start' \in BOOLEAN /\ internal' \in BOOLEAN
  /\ IF start' /\ ~start /\ ~ongoing /\ internal'
       THEN ongoing' = TRUE /\ scheduled' = TRUE /\ eventDue' = TransferTime
       ELSE UNCHANGED <<ongoing, scheduled, eventDue>>
  /\ UNCHANGED iflag

(* A store to SC; one to SB has no effect. *)
WriteSC ==
  /\ start' \in BOOLEAN
  /\ internal' \in BOOLEAN
  /\ IF start' /\ ~ongoing /\ internal'
       THEN ongoing' = TRUE /\ scheduled' = TRUE /\ eventDue' = TransferTime
       ELSE UNCHANGED <<ongoing, scheduled, eventDue>>
  /\ UNCHANGED iflag

SerialTick ==
  /\ scheduled
  /\ eventDue > 0
  /\ eventDue' = eventDue - 1
  /\ UNCHANGED <<start, internal, ongoing, scheduled, iflag>>

Next == SerialInterrupt \/ WriteSC \/ SerialTick

(***************************************************************************)
(* A transfer that the program sees running has its completion scheduled,  *)
(* and ongoing_transmission is released with the event it stands for: no   *)
(* sequence of starts, aborts and changes of the clock leaves the start    *)
(* bit set for ever, keeps a later transfer from starting, or puts the     *)
(* completion off beyond the time of eight bits.                           *)
(***************************************************************************)
TransferIsScheduled ==
  /\ ongoing = scheduled
  /\ start /\ internal => ongoing
  /\ scheduled => eventDue <= TransferTime
=============================================================================
