-------------------------------- MODULE Ports --------------------------------
(***************************************************************************)
(* The serial port and the joypad, which share the interrupt flag register *)
(* with the program.                                                       *)
(***************************************************************************)
EXTENDS Integers, Sequences

CONSTANTS TransferTime, Lines, UiKeys, QueueMax

VARIABLES
  start, internal, ongoing, scheduled, eventDue,
  buttons, p1, event, rendered, running, queue, held, known,
  iflag

S == INSTANCE Serial
J == INSTANCE JoyPad

ASSUME PortsAssumption ==
  /\ TransferTime \in Nat \ {0}
  /\ Lines \subseteq 0 .. 3
  /\ UiKeys \subseteq {J!Ui} \X (1 .. 3)
  /\ QueueMax \in Nat

serialVars == <<start, internal, ongoing, scheduled, eventDue>>
joypadVars == <<buttons, p1, event, rendered, running, queue, held, known>>
vars == <<serialVars, joypadVars, iflag>>

Init == iflag = {S!SerialIO} /\ S!Init /\ J!Init

(* The program serves a request or overwrites the flag register. *)
Acknowledge ==
  /\ running
  /\ \E b \in iflag : iflag' = iflag \ {b}
  /\ UNCHANGED <<serialVars, joypadVars>>

SerialStep == running /\ S!Next /\ UNCHANGED joypadVars
JoyPadStep == J!Next /\ UNCHANGED serialVars

Next == SerialStep \/ JoyPadStep \/ Acknowledge

Spec ==
  /\ Init
  /\ [][Next]_vars
  /\ WF_vars(running /\ S!SerialInterrupt /\ UNCHANGED joypadVars)
  /\ WF_vars(running /\ S!SerialTick /\ UNCHANGED joypadVars)
  /\ WF_vars(J!Poll /\ UNCHANGED serialVars)

-----------------------------------------------------------------------------
(* The properties of the two modules; Serial and JoyPad explain them. *)

TypeOK == S!TypeOK /\ J!TypeOK /\ iflag \subseteq {S!SerialIO, J!Joypad}

(* Serial::b_transport: a running transfer has its completion scheduled. *)
TransferIsScheduled == S!TransferIsScheduled

(* Serial::SerialInterrupt: unless the window is closed, transfers end. *)
TransferEnds == (start /\ internal) ~> (~start \/ ~internal \/ ~running)

(***************************************************************************)
(* Why TransferEnds holds: from its start to its end, a transfer is put    *)
(* off or called off by nothing, neither by a store to SC nor by one that  *)
(* clears the start bit, and with its event the bit and the request come.  *)
(***************************************************************************)
NotPutOff ==
  [][ongoing => \/ ongoing' /\ scheduled' /\ eventDue' <= eventDue
                \/ eventDue = 0 /\ ~start' /\ S!SerialIO \in iflag']_vars

(***************************************************************************)
(* The serial port as MachineCycle assumes it: a one-shot process, which   *)
(* the program can start only when it is idle and cannot stop or delay.    *)
(* Its first activation, at time 0, is over.                               *)
(***************************************************************************)
SerialPort == {"serial"}

PR == INSTANCE Processes WITH
        Devices <- SerialPort, OneShot <- SerialPort,
        Waits <- [p \in SerialPort |-> {TransferTime}],
        First <- [p \in SerialPort |-> 0],
        Raises <- [p \in SerialPort |-> {S!SerialIO}],
        armed <- IF scheduled THEN SerialPort ELSE {},
        due <- [p \in SerialPort |-> eventDue]

SerialIsAProcess == PR!Spec

(* JoyPad::InputLoop: the buttons are the user's keys but for the queue. *)
ButtonsFollowKeys == J!ButtonsFollowKeys
=============================================================================
