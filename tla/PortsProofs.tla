---------------------------- MODULE PortsProofs ----------------------------
(***************************************************************************)
(* Theorems about the serial port and the joypad, for any transfer time,   *)
(* any lines and keys, and any length of SDL's queue.                      *)
(***************************************************************************)
EXTENDS Ports, TLAPS

(* The two components' steps and the program's. *)
LEMMA StepCases ==
  ASSUME Next
  PROVE  \/ S!SerialInterrupt /\ UNCHANGED joypadVars
         \/ S!WriteSC /\ UNCHANGED joypadVars
         \/ S!SerialTick /\ UNCHANGED joypadVars
         \/ J!Next /\ UNCHANGED serialVars
         \/ Acknowledge
BY DEF Next, SerialStep, JoyPadStep, S!Next

-----------------------------------------------------------------------------
(* The serial port. *)

(***************************************************************************)
(* A completion that is scheduled belongs to the transfer, and the one the *)
(* program sees is under way: SerialInterrupt releases both at once.       *)
(***************************************************************************)
LEMMA TransferStep ==
  ASSUME TypeOK, TransferIsScheduled, [Next]_vars
  PROVE  TransferIsScheduled'
<1> USE DEF TransferIsScheduled, S!TransferIsScheduled, TypeOK, S!TypeOK, serialVars, joypadVars
<1>0. TransferTime \in Nat
  BY PortsAssumption DEF PortsAssumption
<1>1. CASE S!SerialInterrupt
  BY <1>1 DEF S!SerialInterrupt
<1>2. CASE S!WriteSC
  <2>1. CASE start' /\ ~ongoing /\ internal'
    BY <1>0, <1>2, <2>1 DEF S!WriteSC
  <2>2. CASE ~(start' /\ ~ongoing /\ internal')
    BY <1>2, <2>2 DEF S!WriteSC
  <2> QED
    BY <2>1, <2>2
<1>3. CASE S!SerialTick
  BY <1>0, <1>3 DEF S!SerialTick
<1>4. CASE UNCHANGED serialVars
  BY <1>4
<1>5. CASE UNCHANGED vars
  BY <1>5 DEF vars
<1> QED
  BY <1>1, <1>2, <1>3, <1>4, <1>5, StepCases DEF Acknowledge

-----------------------------------------------------------------------------
(* Types. *)

LEMMA SerialType ==
  ASSUME S!TypeOK, S!SerialInterrupt \/ S!WriteSC \/ S!SerialTick
  PROVE  S!TypeOK' /\ (iflag' = iflag \/ iflag' = iflag \cup {S!SerialIO})
<1>1. CASE S!SerialInterrupt
  BY <1>1 DEF S!TypeOK, S!SerialInterrupt
<1>2. CASE S!WriteSC
  <2>1. TransferTime \in Nat
    BY PortsAssumption DEF PortsAssumption
  <2> QED
    BY <1>2, <2>1 DEF S!TypeOK, S!WriteSC
<1>3. CASE S!SerialTick
  BY <1>3 DEF S!TypeOK, S!SerialTick
<1> QED
  BY <1>1, <1>2, <1>3

(* The events are a key's, the user's wish to end, or none. *)
LEMMA EventFacts ==
  /\ J!NoEvent \in J!Events /\ J!Quit \in J!Events
  /\ \A e \in J!Events :
       /\ e.type \in {"none", "quit", "down", "up"}
       /\ e.type \in {"down", "up"} => e.key \in J!Keys \cup UiKeys /\ e.repeat \in BOOLEAN
       /\ e.type \in {"none", "quit"} => e.key = <<0, 0>> /\ e.repeat = FALSE
BY DEF J!Events, J!NoEvent, J!Quit

LEMMA HandleType ==
  ASSUME J!TypeOK, NEW e \in J!Events, J!Handle(e)
  PROVE  /\ buttons' \subseteq J!Keys
         /\ event' \in J!Events
         /\ rendered' \subseteq UiKeys
         /\ running' \in BOOLEAN
         /\ iflag' = iflag \/ iflag' = iflag \cup {J!Joypad}
<1>1. /\ e.type \in {"none", "quit", "down", "up"}
      /\ e.type \in {"down", "up"} => e.key \in J!Keys \cup UiKeys /\ e.repeat \in BOOLEAN
  BY EventFacts
<1>2. e.type \in {"down", "up"} => J!SetButton(buttons, e) \subseteq J!Keys
  BY <1>1 DEF J!SetButton, J!TypeOK
<1>3. e.key \in UiKeys => J!Toggle(rendered, e.key) \subseteq UiKeys
  BY DEF J!Toggle, J!TypeOK
<1> QED
  BY <1>1, <1>2, <1>3, EventFacts DEF J!Handle, J!TypeOK

(* SDL's queue loses its first event, or gains one. *)
LEMMA QueueFacts ==
  ASSUME NEW q \in Seq(J!Events)
  PROVE  /\ q # <<>> =>
              Head(q) \in J!Events /\ Tail(q) \in Seq(J!Events) /\ Len(Tail(q)) = Len(q) - 1
         /\ \A e \in J!Events : Append(q, e) \in Seq(J!Events) /\ Len(Append(q, e)) = Len(q) + 1
         /\ Len(q) \in Nat
  OBVIOUS

LEMMA PollCases ==
  ASSUME J!TypeOK, J!Poll
  PROVE  \E e \in J!Events :
           /\ J!Handle(e)
           /\ UNCHANGED <<p1, held>>
           /\ \/ /\ queue # <<>> /\ e = Head(queue) /\ queue' = Tail(queue)
                 /\ known' = IF e.repeat THEN known ELSE known \cup ({e.key} \cap J!Keys)
              \/ e \in {event, J!NoEvent} /\ UNCHANGED <<queue, known>>
<1>1. CASE queue # <<>> /\ J!Handle(Head(queue))
  BY <1>1, QueueFacts DEF J!Poll, J!TypeOK
<1>2. CASE queue = <<>> /\ \E e \in {event, J!NoEvent} : J!Handle(e)
  BY <1>2, EventFacts DEF J!Poll, J!TypeOK
<1> QED
  BY <1>1, <1>2 DEF J!Poll

LEMMA JoyPadType ==
  ASSUME J!TypeOK, J!Next
  PROVE  J!TypeOK' /\ (iflag' = iflag \/ iflag' = iflag \cup {J!Joypad})
<1> USE DEF J!TypeOK
<1>0. QueueMax \in Nat /\ Lines \subseteq 0 .. 3
  BY PortsAssumption DEF PortsAssumption
<1>1. CASE J!Poll
  <2>1. PICK e \in J!Events :
          /\ J!Handle(e)
          /\ UNCHANGED <<p1, held>>
          /\ \/ /\ queue # <<>> /\ e = Head(queue) /\ queue' = Tail(queue)
                /\ known' = IF e.repeat THEN known ELSE known \cup ({e.key} \cap J!Keys)
             \/ e \in {event, J!NoEvent} /\ UNCHANGED <<queue, known>>
    BY <1>1, PollCases
  <2>2. queue' \in Seq(J!Events) /\ Len(queue') <= QueueMax /\ known' \subseteq J!Keys
    BY <1>0, <2>1, QueueFacts
  <2> QED
    BY <2>1, <2>2, HandleType
<1>2. CASE J!ReadReg
  <2>0. Lines \subseteq 0 .. 7
    BY <1>0
  <2>1. ASSUME NEW bits, bits \subseteq 0 .. 7, NEW group PROVE J!Shown(bits, group) \subseteq 0 .. 7
    BY <2>0, <2>1, Zenon DEF J!Shown
  <2>2. J!ReadValue \subseteq 0 .. 7
    BY <2>1 DEF J!ReadValue
  <2> QED
    BY <1>2, <2>2 DEF J!ReadReg
<1>3. CASE J!WriteReg
  BY <1>3 DEF J!WriteReg
<1>4. ASSUME NEW e \in J!Events, J!Post(e), held' \subseteq J!Keys \cup UiKeys
      PROVE  J!TypeOK' /\ iflag' = iflag
  BY <1>0, <1>4, QueueFacts DEF J!Post
<1>5. CASE J!Close
  BY <1>4, <1>5, EventFacts DEF J!Close
<1>6. ASSUME NEW k \in J!Keys \cup UiKeys, J!Press(k) \/ J!Release(k)
      PROVE  J!TypeOK' /\ iflag' = iflag
  <2>1. /\ [type |-> "down", key |-> k, repeat |-> k \in held] \in J!Events
        /\ [type |-> "up", key |-> k, repeat |-> FALSE] \in J!Events
    BY DEF J!Events
  <2> QED
    BY <1>4, <1>6, <2>1 DEF J!Press, J!Release
<1> QED
  BY <1>1, <1>2, <1>3, <1>5, <1>6 DEF J!Next

LEMMA TypeStep == TypeOK /\ [Next]_vars => TypeOK'
<1> SUFFICES ASSUME TypeOK, [Next]_vars PROVE TypeOK'
  OBVIOUS
<1>0. S!TypeOK /\ J!TypeOK /\ iflag \subseteq {S!SerialIO, J!Joypad}
  BY DEF TypeOK
<1>1. CASE (S!SerialInterrupt \/ S!WriteSC \/ S!SerialTick) /\ UNCHANGED joypadVars
  <2>1. S!TypeOK' /\ iflag' \subseteq {S!SerialIO, J!Joypad}
    BY <1>0, <1>1, SerialType
  <2>2. J!TypeOK'
    BY <1>0, <1>1 DEF J!TypeOK, joypadVars
  <2> QED
    BY <2>1, <2>2 DEF TypeOK
<1>2. CASE J!Next /\ UNCHANGED serialVars
  <2>1. J!TypeOK' /\ iflag' \subseteq {S!SerialIO, J!Joypad}
    BY <1>0, <1>2, JoyPadType
  <2>2. S!TypeOK'
    BY <1>0, <1>2 DEF S!TypeOK, serialVars
  <2> QED
    BY <2>1, <2>2 DEF TypeOK
<1>3. CASE Acknowledge \/ UNCHANGED vars
  BY <1>0, <1>3 DEF TypeOK, S!TypeOK, J!TypeOK, vars, serialVars, joypadVars, Acknowledge
<1> QED
  BY <1>1, <1>2, <1>3, StepCases

LEMMA PortsInit == Init => TypeOK /\ TransferIsScheduled
<1> SUFFICES ASSUME Init PROVE TypeOK /\ TransferIsScheduled
  OBVIOUS
<1>1. S!TypeOK /\ TransferIsScheduled
  BY DEF Init, S!Init, S!TypeOK, TransferIsScheduled, S!TransferIsScheduled
<1>2. J!TypeOK
  <2>1. <<>> \in Seq(J!Events) /\ Len(<<>>) <= QueueMax /\ 0 .. 5 \subseteq 0 .. 7
    BY PortsAssumption DEF PortsAssumption
  <2> QED
    BY <2>1, EventFacts DEF Init, J!Init, J!TypeOK
<1> QED
  BY <1>1, <1>2 DEF Init, TypeOK

(***************************************************************************)
(* Both devices keep their registers in range, hold no key they do not     *)
(* know, and request no interrupt but their own.                           *)
(***************************************************************************)
THEOREM PortsTypeCorrect == Spec => []TypeOK
BY PortsInit, TypeStep, PTL DEF Spec

(***************************************************************************)
(* Serial::b_transport and SerialInterrupt: a transfer that the program    *)
(* sees running has its completion scheduled, no later than the time of    *)
(* eight bits ahead, and ongoing_transmission is set exactly while it is,  *)
(* whatever is started, aborted or switched to the external clock.         *)
(***************************************************************************)
THEOREM TransfersAreScheduled == Spec => []TransferIsScheduled
<1>1. TypeOK /\ TransferIsScheduled /\ [Next]_vars => TransferIsScheduled'
  BY TransferStep
<1> QED
  BY <1>1, PortsInit, TypeStep, PTL DEF Spec

(***************************************************************************)
(* Serial::b_transport: whatever the program stores to SC meanwhile, a     *)
(* transfer's completion only comes nearer, and ends it.                   *)
(***************************************************************************)
THEOREM TransfersAreNotPutOff == Spec => NotPutOff
<1> DEFINE Kept == ongoing => \/ ongoing' /\ scheduled' /\ eventDue' <= eventDue
                              \/ eventDue = 0 /\ ~start' /\ S!SerialIO \in iflag'
<1>1. ASSUME TypeOK, TransferIsScheduled, Next PROVE Kept
  <2> SUFFICES ASSUME ongoing PROVE Kept
    OBVIOUS
  <2>1. scheduled /\ eventDue \in Nat
    BY <1>1 DEF TransferIsScheduled, S!TransferIsScheduled, TypeOK, S!TypeOK
  <2>2. CASE S!SerialInterrupt
    BY <2>2 DEF S!SerialInterrupt
  <2>3. CASE S!WriteSC \/ S!SerialTick \/ UNCHANGED serialVars
    <3>1. UNCHANGED <<ongoing, scheduled>> /\ (eventDue' = eventDue \/ eventDue' = eventDue - 1)
      BY <2>3 DEF S!WriteSC, S!SerialTick, serialVars
    <3>2. eventDue' <= eventDue
      BY <2>1, <3>1
    <3> QED
      BY <2>1, <3>1, <3>2, Zenon
  <2> QED
    BY <1>1, <2>2, <2>3 DEF Next, SerialStep, S!Next, JoyPadStep, Acknowledge
<1>2. TypeOK /\ TransferIsScheduled /\ [Next]_vars => [Kept]_vars
  BY <1>1
<1> QED
  BY <1>2, PortsTypeCorrect, TransfersAreScheduled, PTL DEF Spec, NotPutOff

(***************************************************************************)
(* Serial::b_transport: as a process of the kernel, the serial port is     *)
(* started by the program only when it is idle, then sleeps for the time   *)
(* of eight bits and raises its own interrupt; no store to SC stops it.    *)
(***************************************************************************)
THEOREM SerialIsOneShot == Spec => SerialIsAProcess
<1> DEFINE p == "serial"
           armed == IF scheduled THEN SerialPort ELSE {}
           due == [q \in SerialPort |-> eventDue]
<1>0. p \in SerialPort /\ \A q \in SerialPort : q = p
  BY DEF SerialPort
<1>1. Init => PR!Init
  BY DEF Init, S!Init, PR!Init
<1>2. TypeOK /\ TransferIsScheduled /\ [Next]_vars => [PR!Next]_(PR!vars)
  <2> SUFFICES ASSUME TypeOK, TransferIsScheduled, [Next]_vars PROVE PR!Next
    OBVIOUS
  <2>0. scheduled \in BOOLEAN /\ eventDue \in Nat
    BY DEF TypeOK, S!TypeOK
  <2>1. CASE S!SerialInterrupt
    BY <1>0, <2>1 DEF S!SerialInterrupt, PR!Next, PR!Activate, SerialPort
  <2>2. CASE S!WriteSC
    BY <1>0, <2>2 DEF S!WriteSC, PR!Next, PR!Start, PR!Program, SerialPort, TransferIsScheduled,
       S!TransferIsScheduled
  <2>3. CASE S!SerialTick
    BY <1>0, <2>0, <2>3 DEF S!SerialTick, PR!Next, PR!Elapse, SerialPort
  <2>4. CASE UNCHANGED serialVars
    BY <2>4 DEF serialVars, PR!Next, PR!Program
  <2> QED
    BY <2>1, <2>2, <2>3, <2>4, StepCases DEF Acknowledge, vars
<1> QED
  BY <1>1, <1>2, PortsTypeCorrect, TransfersAreScheduled, PTL DEF Spec, PR!Spec, SerialIsAProcess

-----------------------------------------------------------------------------
(* The keys of the joypad. *)

(***************************************************************************)
(* The event InputLoop may find again in an empty queue changes no button: *)
(* once a key has been reported, it is the event handled last.             *)
(***************************************************************************)
EventSettled ==
  known # {} /\ event.type \in {"down", "up"} => J!SetButton(buttons, event) = buttons

ButtonsAgree == ButtonsFollowKeys /\ EventSettled

LEMMA SettledStep ==
  ASSUME NEW e, J!Handle(e)
  PROVE  EventSettled'
<1>1. event' = e
  BY DEF J!Handle
<1>2. CASE e.type \in {"down", "up"}
  <2>1. buttons' = J!SetButton(buttons, e)
    BY <1>2 DEF J!Handle
  <2> QED
    BY <1>1, <1>2, <2>1 DEF EventSettled, J!SetButton
<1>3. CASE e.type \notin {"down", "up"}
  BY <1>1, <1>3 DEF EventSettled
<1> QED
  BY <1>2, <1>3

(* The state of one key, for any queue, set of buttons and user. *)
Follows(k, q, told, down, holds) ==
  LET about == {i \in DOMAIN q : q[i].key = k /\ ~q[i].repeat}
  IN  /\ about = {} /\ told => (holds <=> down)
      /\ \A i \in about : (\A j \in about : j <= i) => (holds <=> q[i].type = "down")

LEMMA ButtonsOneByOne ==
  ButtonsFollowKeys <=>
    \A k \in J!Keys : Follows(k, queue, k \in known, k \in buttons, k \in held)
BY DEF ButtonsFollowKeys, J!ButtonsFollowKeys, J!About, Follows

(* Taking the first event and applying it to the button. *)
LEMMA FollowsTail ==
  ASSUME NEW k, NEW q \in Seq(J!Events), q # <<>>, NEW told, NEW down, NEW holds,
         Follows(k, q, told, down, holds), k # <<0, 0>>
  PROVE  Follows(k, Tail(q), told \/ (Head(q).key = k /\ ~Head(q).repeat),
                 IF Head(q).key = k /\ ~Head(q).repeat THEN Head(q).type = "down" ELSE down,
                 holds)
<1> DEFINE A == {i \in DOMAIN q : q[i].key = k /\ ~q[i].repeat}
           B == {i \in DOMAIN Tail(q) : Tail(q)[i].key = k /\ ~Tail(q)[i].repeat}
<1>1. /\ Len(q) \in Nat /\ DOMAIN q = 1 .. Len(q) /\ Len(q) >= 1 /\ Head(q) = q[1]
      /\ DOMAIN Tail(q) = 1 .. Len(q) - 1
      /\ \A i \in 1 .. Len(q) - 1 : Tail(q)[i] = q[i + 1]
  OBVIOUS
<1>2. /\ \A i \in B : i + 1 \in A /\ q[i + 1] = Tail(q)[i] /\ i \in Nat
      /\ \A i \in A : i \in Nat /\ (i = 1 \/ i - 1 \in B)
      /\ 1 \in A <=> Head(q).key = k /\ ~Head(q).repeat
  BY <1>1
<1>3. /\ A = {} /\ told => (holds <=> down)
      /\ \A i \in A : (\A j \in A : j <= i) => (holds <=> q[i].type = "down")
  BY DEF Follows
<1> HIDE DEF A, B
<1>4. ASSUME B = {}, told \/ 1 \in A
      PROVE  holds <=> IF 1 \in A THEN Head(q).type = "down" ELSE down
  <2>1. CASE 1 \in A
    <3>1. \A j \in A : j <= 1
      BY <1>2, <1>4
    <3> QED
      BY <1>1, <1>3, <2>1, <3>1
  <2>2. CASE 1 \notin A
    BY <1>2, <1>3, <1>4, <2>2
  <2> QED
    BY <2>1, <2>2
<1>5. ASSUME NEW i \in B, \A j \in B : j <= i
      PROVE  holds <=> Tail(q)[i].type = "down"
  <2>1. \A j \in A : j <= i + 1
    <3> TAKE j \in A
    <3>1. CASE j = 1
      BY <1>2, <3>1
    <3>2. CASE j - 1 \in B
      BY <1>2, <1>5, <3>2
    <3> QED
      BY <1>2, <3>1, <3>2
  <2> QED
    BY <1>2, <1>3, <2>1
<1> QED
  BY <1>2, <1>4, <1>5 DEF Follows, A, B

(* SDL adding an event that is not about the key, or that is. *)
LEMMA FollowsAppend ==
  ASSUME NEW k, NEW q \in Seq(J!Events), NEW e \in J!Events, NEW told, NEW down, NEW holds,
         NEW holds2,
         Follows(k, q, told, down, holds),
         IF e.key = k /\ ~e.repeat THEN holds2 <=> e.type = "down" ELSE holds2 <=> holds
  PROVE  Follows(k, Append(q, e), told, down, holds2)
<1> DEFINE A == {i \in DOMAIN q : q[i].key = k /\ ~q[i].repeat}
           B == {i \in DOMAIN Append(q, e) : Append(q, e)[i].key = k /\ ~Append(q, e)[i].repeat}
           n == Len(q) + 1
<1>1. /\ Len(q) \in Nat /\ DOMAIN q = 1 .. Len(q)
      /\ DOMAIN Append(q, e) = 1 .. n
      /\ \A i \in 1 .. Len(q) : Append(q, e)[i] = q[i]
      /\ Append(q, e)[n] = e
  OBVIOUS
<1>2. /\ \A i \in A : i \in B /\ i \in Nat /\ i < n
      /\ \A i \in B : i \in Nat /\ i <= n /\ (i = n \/ (i \in A /\ Append(q, e)[i] = q[i]))
      /\ n \in B <=> e.key = k /\ ~e.repeat
      /\ n \in Nat
  BY <1>1
<1>3. /\ A = {} /\ told => (holds <=> down)
      /\ \A i \in A : (\A j \in A : j <= i) => (holds <=> q[i].type = "down")
  BY DEF Follows
<1> HIDE DEF A, B, n
<1>4. B = {} /\ told => (holds2 <=> down)
  BY <1>2, <1>3
<1>5. ASSUME NEW i \in B, \A j \in B : j <= i
      PROVE  holds2 <=> Append(q, e)[i].type = "down"
  <2>1. CASE n \in B
    <3>1. i = n
      BY <1>2, <1>5, <2>1
    <3> QED
      BY <1>1, <1>2, <2>1, <3>1
  <2>2. CASE n \notin B
    BY <1>2, <1>3, <1>5, <2>2
  <2> QED
    BY <2>1, <2>2
<1> QED
  BY <1>4, <1>5 DEF Follows, B

LEMMA ButtonsPoll ==
  ASSUME TypeOK, ButtonsAgree, J!Poll
  PROVE  ButtonsAgree'
<1>1. PICK e \in J!Events :
        /\ J!Handle(e)
        /\ UNCHANGED held
        /\ \/ /\ queue # <<>> /\ e = Head(queue) /\ queue' = Tail(queue)
              /\ known' = IF e.repeat THEN known ELSE known \cup ({e.key} \cap J!Keys)
           \/ e \in {event, J!NoEvent} /\ UNCHANGED <<queue, known>>
  BY PollCases DEF TypeOK
<1>2. /\ buttons' = IF e.type \in {"down", "up"} THEN J!SetButton(buttons, e) ELSE buttons
      /\ queue \in Seq(J!Events) /\ known \subseteq J!Keys
  BY <1>1 DEF J!Handle, TypeOK, J!TypeOK
<1>3. \A k \in J!Keys : k # <<0, 0>>
  BY DEF J!Keys, J!Direction, J!Button
<1>4. CASE e \in {event, J!NoEvent} /\ UNCHANGED <<queue, known>>
  <2>1. CASE known = {}
    BY <1>1, <1>4, <2>1, SettledStep
       DEF ButtonsAgree, ButtonsFollowKeys, J!ButtonsFollowKeys, J!About
  <2>2. CASE known # {}
    <3>1. UNCHANGED <<buttons, queue, held, known>>
      BY <1>1, <1>2, <1>4, <2>2 DEF ButtonsAgree, EventSettled, J!NoEvent
    <3> QED
      BY <1>1, <3>1, SettledStep DEF ButtonsAgree, ButtonsFollowKeys, J!ButtonsFollowKeys, J!About
  <2> QED
    BY <2>1, <2>2
<1>5. CASE /\ queue # <<>> /\ e = Head(queue) /\ queue' = Tail(queue)
           /\ known' = IF e.repeat THEN known ELSE known \cup ({e.key} \cap J!Keys)
  <2>1. ASSUME NEW k \in J!Keys
        PROVE  Follows(k, queue', k \in known', k \in buttons', k \in held')
    <3>1. Follows(k, queue, k \in known, k \in buttons, k \in held)
      BY ButtonsOneByOne DEF ButtonsAgree
    <3>2. Follows(k, Tail(queue), k \in known \/ (e.key = k /\ ~e.repeat),
                  IF e.key = k /\ ~e.repeat THEN e.type = "down" ELSE k \in buttons,
                  k \in held)
      BY <1>2, <1>3, <1>5, <3>1, FollowsTail
    <3>3. (k \in buttons') = IF e.key = k /\ ~e.repeat THEN e.type = "down" ELSE k \in buttons
      <4>1. CASE e.type \in {"none", "quit"}
        BY <1>2, <1>3, <4>1, EventFacts
      <4>2. CASE e.type = "down"
        <5>1. buttons' = IF e.key \notin J!Keys \/ e.repeat THEN buttons ELSE buttons \cup {e.key}
          BY <1>2, <4>2 DEF J!SetButton
        <5> QED
          BY <4>2, <5>1
      <4>3. CASE e.type = "up"
        <5>1. buttons' = IF e.key \notin J!Keys \/ e.repeat THEN buttons ELSE buttons \ {e.key}
          BY <1>2, <4>3 DEF J!SetButton
        <5> QED
          BY <4>3, <5>1
      <4> QED
        BY <4>1, <4>2, <4>3, EventFacts
    <3>4. e.repeat \in BOOLEAN
      BY EventFacts
    <3>5. (k \in known') = (k \in known \/ (e.key = k /\ ~e.repeat))
      BY <1>5, <3>4
    <3> QED
      BY <1>1, <1>5, <3>2, <3>3, <3>5, Zenon
  <2>2. ButtonsFollowKeys'
    BY <2>1 DEF ButtonsFollowKeys, J!ButtonsFollowKeys, J!About, Follows
  <2> QED
    BY <1>1, <2>2, SettledStep DEF ButtonsAgree
<1> QED
  BY <1>1, <1>4, <1>5

LEMMA ButtonsPost ==
  ASSUME TypeOK, ButtonsAgree, NEW e \in J!Events, J!Post(e),
         \A k \in J!Keys : IF e.key = k /\ ~e.repeat THEN k \in held' <=> e.type = "down"
                                                    ELSE k \in held' <=> k \in held
  PROVE  ButtonsAgree'
<1>1. queue \in Seq(J!Events) /\ queue' = Append(queue, e) /\ UNCHANGED <<buttons, event, known>>
  BY DEF J!Post, TypeOK, J!TypeOK
<1>2. ASSUME NEW k \in J!Keys
      PROVE  Follows(k, queue', k \in known', k \in buttons', k \in held')
  <2>1. Follows(k, queue, k \in known, k \in buttons, k \in held)
    BY ButtonsOneByOne DEF ButtonsAgree
  <2>2. Follows(k, Append(queue, e), k \in known, k \in buttons, k \in held')
    BY <1>1, <2>1, FollowsAppend
  <2> QED
    BY <1>1, <2>2, Zenon
<1>3. ButtonsFollowKeys'
  BY <1>2 DEF ButtonsFollowKeys, J!ButtonsFollowKeys, J!About, Follows
<1> QED
  BY <1>1, <1>3 DEF ButtonsAgree, EventSettled

LEMMA ButtonsStep == TypeOK /\ ButtonsAgree /\ [Next]_vars => ButtonsAgree'
<1> SUFFICES ASSUME TypeOK, ButtonsAgree, [Next]_vars PROVE ButtonsAgree'
  OBVIOUS
<1>1. CASE UNCHANGED <<buttons, event, queue, held, known>>
  BY <1>1 DEF ButtonsAgree, EventSettled, ButtonsFollowKeys, J!ButtonsFollowKeys, J!About
<1>2. CASE J!Poll
  BY <1>2, ButtonsPoll
<1>3. CASE J!Close
  <2>1. J!Quit.key = <<0, 0>> /\ \A k \in J!Keys : k # <<0, 0>>
    BY DEF J!Quit, J!NoEvent, J!Keys, J!Direction, J!Button
  <2> QED
    BY <1>3, <2>1, EventFacts, ButtonsPost DEF J!Close
<1>4. ASSUME NEW k \in J!Keys \cup UiKeys, J!Press(k) PROVE ButtonsAgree'
  <2> DEFINE e == [type |-> "down", key |-> k, repeat |-> k \in held]
  <2>1. e \in J!Events /\ e.type = "down" /\ e.key = k /\ e.repeat = (k \in held)
    BY DEF J!Events
  <2>2. J!Post(e) /\ held' = held \cup {k}
    BY <1>4 DEF J!Press
  <2> HIDE DEF e
  <2> QED
    BY <2>1, <2>2, ButtonsPost
<1>5. ASSUME NEW k \in J!Keys \cup UiKeys, J!Release(k) PROVE ButtonsAgree'
  <2> DEFINE e == [type |-> "up", key |-> k, repeat |-> FALSE]
  <2>1. e \in J!Events /\ e.type = "up" /\ e.key = k /\ e.repeat = FALSE
    BY DEF J!Events
  <2>2. J!Post(e) /\ held' = held \ {k}
    BY <1>5 DEF J!Release
  <2> HIDE DEF e
  <2> QED
    BY <2>1, <2>2, ButtonsPost
<1>6. CASE J!ReadReg \/ J!WriteReg
  BY <1>1, <1>6 DEF J!ReadReg, J!WriteReg
<1>7. CASE J!Next
  BY <1>2, <1>3, <1>4, <1>5, <1>6, <1>7 DEF J!Next
<1> QED
  BY <1>1, <1>7, StepCases DEF vars, joypadVars, Acknowledge

(***************************************************************************)
(* JoyPad::InputLoop: once the events SDL still holds are polled, exactly  *)
(* the keys the user holds down are pressed buttons.  Whether SDL clears   *)
(* the event of an empty queue, at each poll anew, does not matter, as     *)
(* handling the last event again changes no button; and the uninitialised  *)
(* event spoils a button only until its key is reported.                   *)
(***************************************************************************)
THEOREM ButtonsAreTheKeys == Spec => []ButtonsFollowKeys
<1>1. Init => ButtonsAgree
  BY DEF Init, J!Init, ButtonsAgree, EventSettled, ButtonsFollowKeys, J!ButtonsFollowKeys, J!About
<1>2. ButtonsAgree => ButtonsFollowKeys
  BY DEF ButtonsAgree
<1> QED
  BY <1>1, <1>2, ButtonsStep, PortsTypeCorrect, PTL DEF Spec
=============================================================================
