----------------------------- MODULE GdbProofs -----------------------------
(***************************************************************************)
(* Proofs of the safety properties of GdbServer that hold whatever the     *)
(* addresses and the number of messages under way.                         *)
(***************************************************************************)
EXTENDS GdbServer, SequenceTheorems, TLAPS

(***************************************************************************)
(* The message that answers a command is one of at most one message under  *)
(* way, and there is none unless the client waits for it.                  *)
(***************************************************************************)
OneAtATime ==
  /\ Asked # {} \/ Replies # {} => awaiting
  /\ Asked = {} \/ Replies = {}
  /\ \A i, j \in Asked : i = j
  /\ \A i, j \in Replies : i = j

(***************************************************************************)
(* A client that leaves, and a server it has left, have no breakpoints.    *)
(***************************************************************************)
Leaving == \E i \in DOMAIN inbox : inbox[i].kind = "D"
Left == ~attached /\ place \notin {"accept", "dead"}

NoneLeft == Leaving \/ Left => bps = {} /\ view \in {"detached", "lost"}

(* A client's commands but the handshake meet a server that is attached. *)
OnlyAttached ==
  /\ place = "accept" => ~attached
  /\ Leaving => attached

GdbInv ==
  /\ TypeOK
  /\ OneAtATime
  /\ NoneLeft
  /\ OnlyAttached
  /\ HaltedByGdb

(***************************************************************************)
(* The breakpoints are those the PC was compared with, until the next poll.*)
(***************************************************************************)
BreakpointInv ==
  /\ BreakpointMissedOnlyByDispatch
  /\ place = "interrupts" => pc \notin bps

-----------------------------------------------------------------------------
(* Sequences of messages under way. *)

(* A message that arrives leaves the others, one place further on. *)
LEMMA TailFacts ==
  ASSUME NEW S, NEW s \in Seq(S), s # <<>>
  PROVE  /\ Tail(s) \in Seq(S)
         /\ Head(s) = s[1] /\ Head(s) \in S /\ 1 \in DOMAIN s
         /\ \A i \in DOMAIN Tail(s) : i + 1 \in DOMAIN s /\ Tail(s)[i] = s[i + 1] /\ i \in Nat \ {0}
  OBVIOUS

(* A message that is sent comes last. *)
LEMMA AppendFacts ==
  ASSUME NEW S, NEW s \in Seq(S), NEW m \in S
  PROVE  /\ Append(s, m) \in Seq(S)
         /\ \A i \in DOMAIN Append(s, m) :
              (i \in DOMAIN s /\ Append(s, m)[i] = s[i])
                \/ (i = Len(s) + 1 /\ Append(s, m)[i] = m)
  OBVIOUS

(* The message that the server adds to the outbox. *)
LEMMA TellFacts ==
  ASSUME NEW o \in Seq({"stop", "reply"}), NEW what \in {"stop", "reply"},
         NEW next, next = Append(o, what)
  PROVE  /\ next \in Seq({"stop", "reply"})
         /\ \A i \in DOMAIN next :
              (i \in DOMAIN o /\ next[i] = o[i]) \/ (i = Len(o) + 1 /\ next[i] = what)
BY AppendFacts

-----------------------------------------------------------------------------
(* Types. *)

LEMMA RecvType ==
  ASSUME TypeOK, RecvMsg
  PROVE  /\ Head(inbox) \in Commands /\ Head(inbox).kind # "bad"
         /\ pc' \in Addrs
         /\ halted' \in BOOLEAN /\ attached' \in BOOLEAN
         /\ bps' \subseteq Addrs
         /\ inbox' \in Seq(Commands)
         /\ outbox' \in Seq({"stop", "reply"})
<1>1. inbox # <<>> /\ inbox' = Tail(inbox) /\ Handle(Head(inbox))
  BY DEF RecvMsg
<1>2. Head(inbox) \in Commands /\ inbox' \in Seq(Commands)
  BY <1>1, TailFacts DEF TypeOK
<1>3. Head(inbox).kind \in {"Z", "z", "G"} => Head(inbox).addr \in Addrs
  BY <1>2 DEF Commands
<1>4. \A what \in {"stop", "reply"} : Append(outbox, what) \in Seq({"stop", "reply"})
  BY AppendFacts DEF TypeOK
<1> QED
  BY <1>1, <1>2, <1>3, <1>4
  DEF TypeOK, Handle, CmdHalted, CmdAttached, CmdContinue, CmdDetach, CmdInsertBp,
      CmdRemoveBp, CmdWriteReg, CmdOther, Tell

LEMMA TypeInit == Init => TypeOK
<1>1. <<>> \in Seq(Commands) /\ <<>> \in Seq({"stop", "reply"})
  OBVIOUS
<1> QED
  BY <1>1 DEF Init, TypeOK, Places

LEMMA TypeStep == TypeOK /\ [Next]_vars => TypeOK'
<1> SUFFICES ASSUME TypeOK, [Next]_vars PROVE TypeOK'
  OBVIOUS
<1> USE DEF TypeOK, Places, serverVars, clientVars
<1>1. CASE InitBlocking \/ HandleMessages
  BY <1>1, RecvType DEF InitBlocking, HandleMessages, RecvMsg
<1>2. CASE Reject
  BY <1>2, TailFacts DEF Reject
<1>3. CASE NoMessage \/ Spin \/ NoBreakpoint
  BY <1>3 DEF NoMessage, Spin, NoBreakpoint
<1>10. CASE HandleInterrupts
  BY <1>10, GdbAssumption DEF HandleInterrupts, GdbAssumption
<1>11. CASE Execute
  BY <1>11, GdbAssumption DEF Execute, GdbAssumption
<1>12. CASE HaltEnds
  BY <1>12 DEF HaltEnds
<1>4. CASE BpReached
  BY <1>4, TellFacts DEF BpReached, Tell
<1>5. ASSUME NEW m \in Commands, Send(m) PROVE inbox' \in Seq(Commands) /\ crossed' \in BOOLEAN
  BY <1>5, AppendFacts DEF Send
<1>6. \A k \in {"?", "qAttached", "ctrl-c", "c", "D", "bad"} : [kind |-> k] \in Commands
  BY DEF Commands
<1>7. CASE Client /\ ~Receive
  <2>1. PICK m \in Commands : Send(m)
    BY <1>6, <1>7 DEF Client, AskStopReason, Attach, Request, Resume, Detach, CtrlC, Garble
  <2> QED
    BY <1>5, <1>7, <2>1
    DEF Client, AskStopReason, Attach, Request, Resume, Detach, CtrlC, Garble, Send
<1>8. CASE Receive
  BY <1>8, TailFacts DEF Receive
<1>9. CASE UNCHANGED vars
  BY <1>9 DEF vars
<1> QED
  BY <1>1, <1>2, <1>3, <1>4, <1>7, <1>8, <1>9, <1>10, <1>11, <1>12 DEF Next, CpuThread

(***************************************************************************)
(* The type invariant of the server, the loop and the client: every        *)
(* message under way is one that the protocol knows.                       *)
(***************************************************************************)
THEOREM GdbTypeCorrect == Spec => []TypeOK
BY TypeInit, TypeStep, PTL DEF Spec

-----------------------------------------------------------------------------
(* One request at a time. *)

LEMMA OneInit == Init => OneAtATime
BY DEF Init, OneAtATime, Asked, Replies

(***************************************************************************)
(* The server takes a request off the inbox before it replies.             *)
(***************************************************************************)
LEMMA OneRecv ==
  ASSUME TypeOK, OneAtATime, UNCHANGED awaiting, inbox # <<>>, inbox' = Tail(inbox),
         UNCHANGED outbox \/ Tell("stop") \/ (Asks(Head(inbox)) /\ Tell("reply"))
  PROVE  OneAtATime'
<1>1. /\ 1 \in DOMAIN inbox /\ Head(inbox) = inbox[1]
      /\ \A i \in DOMAIN inbox' :
           i + 1 \in DOMAIN inbox /\ inbox'[i] = inbox[i + 1] /\ i \in Nat \ {0}
  BY TailFacts DEF TypeOK
<1>2. \A i \in Asked' : i \in Nat \ {0} /\ i + 1 \in Asked
  BY <1>1 DEF Asked, Asks
<1>3. Asks(Head(inbox)) => 1 \in Asked
  BY <1>1 DEF Asked
<1>4. \A i, j \in Asked' : i = j
  BY <1>2 DEF OneAtATime
<1>5. Asks(Head(inbox)) => Asked' = {}
  BY <1>2, <1>3 DEF OneAtATime
<1>6. CASE Asks(Head(inbox)) /\ Tell("reply")
  <2>1. Replies = {} /\ awaiting
    BY <1>3, <1>6 DEF OneAtATime
  <2>2. outbox' = Append(outbox, "reply") /\ outbox \in Seq({"stop", "reply"})
    BY <1>6 DEF Tell, TypeOK
  <2>3. \A i \in DOMAIN outbox' :
          i = Len(outbox) + 1 \/ (i \in DOMAIN outbox /\ outbox'[i] = outbox[i])
    BY <2>2, TellFacts, Zenon
  <2>4. \A i \in Replies' : i = Len(outbox) + 1
    BY <2>1, <2>3 DEF Replies
  <2> QED
    BY <1>4, <1>5, <1>6, <2>1, <2>4 DEF OneAtATime
<1>7. CASE UNCHANGED outbox \/ Tell("stop")
  <2>1. ASSUME UNCHANGED outbox PROVE \A i \in Replies' : i \in Replies
    BY <2>1 DEF Replies
  <2>2. ASSUME Tell("stop") PROVE \A i \in Replies' : i \in Replies
    <3>1. outbox' = Append(outbox, "stop") /\ outbox \in Seq({"stop", "reply"})
      BY <2>2 DEF Tell, TypeOK
    <3>2. \A i \in DOMAIN outbox' :
            outbox'[i] = "stop" \/ (i \in DOMAIN outbox /\ outbox'[i] = outbox[i])
      BY <3>1, TellFacts, Zenon
    <3> QED
      BY <3>2 DEF Replies
  <2>3. \A i \in Replies' : i \in Replies
    BY <1>7, <2>1, <2>2
  <2>4. Asked' # {} => Asked # {}
    BY <1>2
  <2> QED
    BY <1>4, <2>3, <2>4 DEF OneAtATime
<1> QED
  BY <1>6, <1>7

(***************************************************************************)
(* The client sends a request only when no other is on its way.            *)
(***************************************************************************)
LEMMA OneSend ==
  ASSUME TypeOK, OneAtATime, NEW m \in Commands, Send(m),
         IF Asks(m) THEN ~awaiting /\ awaiting' ELSE awaiting' = awaiting
  PROVE  OneAtATime'
<1>1. Replies' = Replies
  BY DEF Send, Replies
<1>2. \A i \in Asked' : i \in Asked \/ (i = Len(inbox) + 1 /\ Asks(m))
  BY AppendFacts DEF Send, Asked, TypeOK
<1>3. CASE Asks(m)
  BY <1>1, <1>2, <1>3 DEF OneAtATime
<1>4. CASE ~Asks(m)
  BY <1>1, <1>2, <1>4 DEF OneAtATime
<1> QED
  BY <1>3, <1>4

LEMMA OneReceive ==
  ASSUME TypeOK, OneAtATime, Receive
  PROVE  OneAtATime'
<1>1. /\ 1 \in DOMAIN outbox /\ Head(outbox) = outbox[1]
      /\ \A i \in DOMAIN outbox' :
           i + 1 \in DOMAIN outbox /\ outbox'[i] = outbox[i + 1] /\ i \in Nat \ {0}
  BY TailFacts DEF TypeOK, Receive
<1>2. \A i \in Replies' : i \in Nat \ {0} /\ i + 1 \in Replies
  BY <1>1 DEF Replies
<1>3. Asked' = Asked
  BY DEF Receive, Asked
<1>4. CASE Head(outbox) = "stop"
  BY <1>2, <1>3, <1>4 DEF OneAtATime, Receive
<1>5. CASE Head(outbox) # "stop"
  <2>1. 1 \in Replies
    BY <1>1, <1>5 DEF Replies, TypeOK
  <2>2. Replies' = {} /\ Asked = {}
    BY <1>2, <2>1 DEF OneAtATime
  <2> QED
    BY <1>3, <2>2 DEF OneAtATime
<1> QED
  BY <1>4, <1>5

LEMMA OneStep == TypeOK /\ OneAtATime /\ [Next]_vars => OneAtATime'
<1> SUFFICES ASSUME TypeOK, OneAtATime, [Next]_vars PROVE OneAtATime'
  OBVIOUS
<1>1. CASE InitBlocking \/ HandleMessages
  <2>1. /\ inbox # <<>> /\ inbox' = Tail(inbox) /\ awaiting' = awaiting
        /\ Handle(Head(inbox))
    BY <1>1 DEF InitBlocking, HandleMessages, RecvMsg, clientVars
  <2>2. UNCHANGED outbox \/ Tell("stop") \/ (Asks(Head(inbox)) /\ Tell("reply"))
    BY <2>1 DEF Handle, CmdHalted, CmdAttached, CmdContinue, CmdDetach, CmdInsertBp,
        CmdRemoveBp, CmdWriteReg, CmdOther, Asks
  <2> QED
    BY <2>1, <2>2, OneRecv
<1>2. CASE Reject
  BY <1>2, OneRecv DEF Reject, clientVars
<1>3. ASSUME UNCHANGED <<inbox, awaiting>>, UNCHANGED outbox \/ Tell("stop")
      PROVE  OneAtATime'
  <2>1. \A i \in Replies' : i \in Replies
    BY <1>3, AppendFacts DEF Tell, Replies, TypeOK
  <2>2. Asked' = Asked
    BY <1>3 DEF Asked
  <2> QED
    BY <1>3, <2>1, <2>2 DEF OneAtATime
<1>4. CASE NoMessage \/ Spin \/ BpReached \/ NoBreakpoint \/ HandleInterrupts \/ Execute \/ HaltEnds
  BY <1>3, <1>4
  DEF NoMessage, Spin, BpReached, NoBreakpoint, HandleInterrupts, Execute, HaltEnds, clientVars
<1>5. CASE Client /\ ~Receive
  <2>1. \A k \in {"?", "qAttached", "ctrl-c", "c", "D", "bad"} : [kind |-> k] \in Commands
    BY DEF Commands
  <2>2. CASE AskStopReason \/ Resume \/ CtrlC
    BY <2>1, <2>2, OneSend DEF AskStopReason, Resume, CtrlC, Asks
  <2>3. CASE Attach \/ Detach \/ Garble
    BY <2>1, <2>3, OneSend DEF Attach, Detach, Garble, Asks
  <2>4. CASE Request
    BY <2>4, OneSend DEF Request, Asks
  <2> QED
    BY <1>5, <2>2, <2>3, <2>4 DEF Client
<1>6. CASE Receive
  BY <1>6, OneReceive
<1>7. CASE UNCHANGED vars
  BY <1>3, <1>7 DEF vars, clientVars
<1> QED
  BY <1>1, <1>2, <1>4, <1>5, <1>6, <1>7 DEF Next, CpuThread

-----------------------------------------------------------------------------
(* A halted CPU has a client. *)

(***************************************************************************)
(* A message a client sends when it is not about to leave.                 *)
(***************************************************************************)
LEMMA SendLeaves ==
  ASSUME TypeOK, NEW m \in Commands, Send(m)
  PROVE  Leaving' => Leaving \/ m.kind = "D"
BY AppendFacts DEF Send, Leaving, TypeOK

LEMMA TailLeaves ==
  ASSUME TypeOK, OneAtATime, inbox # <<>>, inbox' = Tail(inbox)
  PROVE  /\ Leaving' => Leaving
         /\ Leaving' => ~Asks(Head(inbox))
         /\ Head(inbox).kind = "D" => Leaving
<1>1. /\ 1 \in DOMAIN inbox /\ Head(inbox) = inbox[1]
      /\ \A i \in DOMAIN inbox' :
           i + 1 \in DOMAIN inbox /\ inbox'[i] = inbox[i + 1] /\ i \in Nat \ {0}
  BY TailFacts DEF TypeOK
<1>2. ASSUME Leaving', Asks(Head(inbox)) PROVE FALSE
  <2>1. PICK i \in DOMAIN inbox' : inbox'[i].kind = "D"
    BY <1>2 DEF Leaving
  <2>2. i + 1 \in Asked /\ 1 \in Asked
    BY <1>1, <1>2, <2>1 DEF Asked, Asks
  <2> QED
    BY <1>1, <2>2 DEF OneAtATime
<1> QED
  BY <1>1, <1>2 DEF Leaving

LEMMA GdbStep == GdbInv /\ [Next]_vars => GdbInv'
<1> SUFFICES ASSUME GdbInv, [Next]_vars PROVE GdbInv'
  OBVIOUS
<1>0. TypeOK /\ TypeOK' /\ OneAtATime /\ OneAtATime'
  BY TypeStep, OneStep DEF GdbInv
<1> DEFINE Rest == NoneLeft /\ OnlyAttached /\ HaltedByGdb
<1>r. Rest
  BY DEF GdbInv
<1> SUFFICES Rest'
  BY <1>0 DEF GdbInv
<1> USE DEF NoneLeft, OnlyAttached, HaltedByGdb, Left, serverVars, clientVars
<1>1. CASE InitBlocking
  <2>1. /\ inbox # <<>> /\ inbox' = Tail(inbox) /\ Handle(Head(inbox))
        /\ place = "accept" /\ UNCHANGED view
        /\ place' = IF Head(inbox).kind = "qAttached" THEN "poll" ELSE "accept"
    BY <1>1 DEF InitBlocking, RecvMsg
  <2>2. ~Leaving /\ ~attached
    BY <1>r, <2>1
  <2>3. ~Leaving' /\ Head(inbox).kind # "D"
    BY <1>0, <2>1, <2>2, TailLeaves
  <2>4. IF Head(inbox).kind = "qAttached" THEN attached' ELSE ~attached'
    BY <2>1, <2>2, <2>3 DEF Handle, CmdHalted, CmdAttached, CmdContinue, CmdDetach,
       CmdInsertBp, CmdRemoveBp, CmdWriteReg, CmdOther
  <2> QED
    BY <2>1, <2>3, <2>4
<1>2. CASE HandleMessages
  <2>1. /\ inbox # <<>> /\ inbox' = Tail(inbox) /\ Handle(Head(inbox))
        /\ place = "poll" /\ place' = "poll" /\ attached /\ UNCHANGED view
    BY <1>2 DEF HandleMessages, RecvMsg, MsgPending
  <2>2. /\ Leaving' => Leaving /\ ~Asks(Head(inbox))
        /\ Head(inbox).kind = "D" => Leaving
    BY <1>0, <2>1, TailLeaves
  <2>3. CASE CmdDetach /\ Head(inbox).kind = "D"
    <3>1. ~Leaving'
      BY <2>2, <2>3 DEF Asks
    <3> QED
      BY <1>r, <2>1, <2>2, <2>3, <3>1 DEF CmdDetach
  <2>4. CASE ~(CmdDetach /\ Head(inbox).kind = "D")
    <3>1. attached'
      BY <2>1, <2>4 DEF Handle, CmdHalted, CmdAttached, CmdContinue,
         CmdInsertBp, CmdRemoveBp, CmdWriteReg, CmdOther
    <3>2. ~Asks(Head(inbox)) => UNCHANGED bps
      BY <2>1 DEF Asks, Handle, CmdHalted, CmdAttached, CmdContinue, CmdDetach,
         CmdInsertBp, CmdRemoveBp, CmdWriteReg, CmdOther
    <3> QED
      BY <1>r, <2>1, <2>2, <3>1, <3>2
  <2> QED
    BY <2>3, <2>4
<1>3. CASE Reject
  <2>1. inbox # <<>> /\ inbox' = Tail(inbox) /\ Asks(Head(inbox)) /\ place' = "dead"
    BY <1>3 DEF Reject, Asks
  <2>2. ~Leaving'
    BY <1>0, <2>1, TailLeaves
  <2> QED
    BY <2>1, <2>2
<1>4. CASE NoMessage \/ Spin \/ NoBreakpoint \/ HandleInterrupts \/ Execute \/ HaltEnds
  <2>1. /\ UNCHANGED <<inbox, view, attached, halted, bps>>
        /\ place \notin {"accept", "dead"} /\ place' \notin {"accept", "dead"}
    BY <1>4 DEF NoMessage, Spin, NoBreakpoint, HandleInterrupts, Execute, HaltEnds
  <2> QED
    BY <1>r, <2>1 DEF Leaving
<1>5. CASE BpReached
  <2>1. /\ UNCHANGED <<inbox, view, attached, bps>> /\ pc \in bps
        /\ place = "check" /\ place' = "poll"
    BY <1>5 DEF BpReached
  <2> QED
    BY <1>r, <2>1 DEF Leaving
<1>6. CASE Client /\ ~Receive
  <2>1. UNCHANGED <<place, halted, attached, bps>>
    BY <1>6 DEF Client, AskStopReason, Attach, Request, Resume, Detach, CtrlC, Garble, Send
  <2>2. CASE Detach
    <3>1. attached /\ bps = {} /\ view' = "detached"
      BY <2>2 DEF Detach
    <3> QED
      BY <1>r, <2>1, <3>1
  <2>3. CASE ~Detach
    <3>1. PICK m \in Commands : Send(m) /\ m.kind # "D"
      <4>1. \A k \in {"?", "qAttached", "ctrl-c", "c", "bad"} : [kind |-> k] \in Commands
        BY DEF Commands
      <4> QED
        BY <1>6, <2>3, <4>1 DEF Client, AskStopReason, Attach, Request, Resume, CtrlC, Garble
    <3>2. Leaving' => Leaving
      BY <1>0, <3>1, SendLeaves
    <3>3. view \in {"detached", "lost"} => FALSE
      BY <1>6, <2>3 DEF Client, AskStopReason, Attach, Request, Resume, CtrlC, Garble
    <3> QED
      BY <1>r, <2>1, <3>2, <3>3
  <2> QED
    BY <2>2, <2>3
<1>7. CASE Receive
  <2>1. /\ UNCHANGED <<place, halted, attached, bps, inbox>>
        /\ view \in {"detached", "lost"} => view' \in {"detached", "lost"}
    BY <1>7 DEF Receive
  <2> QED
    BY <1>r, <2>1 DEF Leaving
<1>8. CASE UNCHANGED vars
  BY <1>r, <1>8 DEF vars, Leaving
<1> QED
  BY <1>1, <1>2, <1>3, <1>4, <1>5, <1>6, <1>7, <1>8 DEF Next, CpuThread

LEMMA GdbInit == Init => GdbInv
<1> SUFFICES ASSUME Init PROVE GdbInv
  OBVIOUS
<1> QED
  BY TypeInit, OneInit DEF Init, GdbInv, NoneLeft, OnlyAttached, HaltedByGdb, Leaving, Left

(***************************************************************************)
(* cpu.h: halted_ is "true, GDB is currently halting the CPU".  No order   *)
(* of commands, Ctrl-C, breakpoints and detaching leaves the CPU halted    *)
(* without a client that can continue it.                                  *)
(***************************************************************************)
THEOREM HaltedOnlyByGdb == Spec => []HaltedByGdb
<1>1. GdbInv => HaltedByGdb
  BY DEF GdbInv
<1> QED
  BY <1>1, GdbInit, GdbStep, PTL DEF Spec

-----------------------------------------------------------------------------
(* The client and the CPU agree. *)

Quiet == inbox = <<>> /\ outbox = <<>>
Sent(K) == outbox = <<>> /\ \E m \in Commands : m.kind \in K /\ inbox = <<m>>
Told(what) == inbox = <<>> /\ outbox = <<what>>

(* A request is on its way, or its reply is, or it was garbled and no one answers. *)
Pending(K) == Sent(K) \/ Told("reply") \/ (Quiet /\ place = "dead")

(***************************************************************************)
(* What is under way, and whether the CPU stands still, while the client   *)
(* believes in each view; "lost" is none of them.                          *)
(***************************************************************************)
Connecting ==
  /\ ~halted /\ bps = {}
  /\ IF awaiting THEN Pending({"qAttached", "bad"}) ELSE Quiet

StopAsked ==
  /\ ~awaiting /\ bps = {}
  /\ Sent({"?"}) \/ (Told("stop") /\ halted)

Stopped ==
  /\ halted
  /\ IF awaiting THEN Pending({"qAttached", "bad", "Z", "z", "G", "other"}) ELSE Quiet

(* A Ctrl-C may follow the command to continue, and meets a CPU that runs. *)
Running ==
  /\ ~awaiting
  /\ \/ Sent({"c"}) /\ halted
     \/ /\ halted /\ ctrlC /\ outbox = <<>>
        /\ \E c, s \in Commands : c.kind = "c" /\ s.kind = "ctrl-c" /\ inbox = <<c, s>>
     \/ Quiet /\ ~halted
     \/ Sent({"ctrl-c"}) /\ ~halted /\ ctrlC
     \/ Told("stop") /\ halted

Detached ==
  /\ bps = {}
  /\ IF awaiting THEN Sent({"D"}) \/ (Told("reply") /\ ~halted) ELSE Quiet /\ ~halted

StepInv ==
  ~crossed =>
    /\ place = "dead" => awaiting /\ Quiet
    /\ \/ view = "connecting" /\ Connecting
       \/ view = "asked" /\ StopAsked
       \/ view = "stopped" /\ Stopped
       \/ view = "running" /\ Running
       \/ view = "detached" /\ Detached

LEMMA StepMeansInStep == StepInv => ClientInStep
BY DEF StepInv, ClientInStep, Stopped

(* One message under way, and two. *)
LEMMA OneMessage ==
  ASSUME NEW m
  PROVE  /\ <<m>> # <<>> /\ Head(<<m>>) = m /\ Tail(<<m>>) = <<>>
         /\ Append(<<>>, m) = <<m>>
  OBVIOUS

LEMMA TwoMessages ==
  ASSUME NEW m, NEW n
  PROVE  /\ <<m, n>> # <<>> /\ Head(<<m, n>>) = m /\ Tail(<<m, n>>) = <<n>>
         /\ Append(<<m>>, n) = <<m, n>>
<1>1. /\ <<m, n>> # <<>> /\ Head(<<m, n>>) = m /\ Len(<<m, n>>) = 2 /\ <<m, n>>[2] = n
      /\ Len(<<m>>) = 1 /\ <<m>>[1] = m
  OBVIOUS
<1>2. <<m>> \in Seq({m, n}) /\ <<m, n>> \in Seq({m, n}) /\ <<n>> \in Seq({m, n})
  OBVIOUS
<1>3. Tail(<<m, n>>) = <<n>>
  BY <1>1, <1>2
<1>4. Append(<<m>>, n) = <<m, n>>
  <2> DEFINE S == {m, n}
             t == Append(<<m>>, n)
             u == <<m, n>>
  <2>1. t \in Seq(S) /\ Len(t) = 2 /\ t[1] = m /\ t[2] = n
    BY <1>1, <1>2
  <2>2. u \in Seq(S) /\ Len(u) = 2 /\ u[1] = m /\ u[2] = n
    BY <1>1, <1>2
  <2> HIDE DEF S, t, u
  <2>3. Len(t) = Len(u) /\ \A i \in 1 .. Len(t) : t[i] = u[i]
    BY <2>1, <2>2
  <2>4. t = u
    BY <2>1, <2>2, <2>3, SeqEqual
  <2> QED
    BY <2>4 DEF t, u
<1> QED
  BY <1>1, <1>3, <1>4

(* The first message under way, when there is only one, and what follows it. *)
LEMMA SentFacts ==
  ASSUME NEW K, Sent(K)
  PROVE  outbox = <<>> /\ inbox # <<>> /\ Head(inbox).kind \in K /\ Tail(inbox) = <<>>
<1>1. PICK m \in Commands : m.kind \in K /\ inbox = <<m>>
  BY DEF Sent
<1> QED
  BY <1>1, OneMessage, Zenon DEF Sent

LEMMA ToldFacts ==
  ASSUME NEW what, Told(what)
  PROVE  inbox = <<>> /\ outbox # <<>> /\ Head(outbox) = what /\ Tail(outbox) = <<>>
BY OneMessage, Zenon DEF Told

(* Telling the client when nothing is under way, and sending when nothing is. *)
LEMMA TellAlone ==
  ASSUME NEW what, outbox = <<>>, inbox' = <<>>, Tell(what)
  PROVE  Told(what)'
BY OneMessage, Zenon DEF Tell, Told

LEMMA SendAlone ==
  ASSUME NEW m \in Commands, Quiet, Send(m)
  PROVE  Sent({m.kind})' /\ UNCHANGED <<place, halted, bps>>
<1>1. inbox' = <<m>> /\ outbox' = <<>>
  BY OneMessage, Zenon DEF Quiet, Send
<1>2. UNCHANGED <<place, halted, bps>>
  BY DEF Send, serverVars
<1> QED
  BY <1>1, <1>2 DEF Sent, Quiet

(***************************************************************************)
(* Each message is handled in the view it was sent in, and answered by at  *)
(* most one other.                                                         *)
(***************************************************************************)
LEMMA StepRecv ==
  ASSUME TypeOK, StepInv, ~crossed, RecvMsg, place # "dead", place' # "dead"
  PROVE  StepInv'
<1>1. /\ inbox # <<>> /\ inbox' = Tail(inbox) /\ Handle(Head(inbox))
      /\ UNCHANGED <<view, awaiting, ctrlC>> /\ crossed' = crossed
  BY DEF RecvMsg, clientVars
<1>2. CASE view = "connecting"
  <2>1. Connecting /\ awaiting /\ Sent({"qAttached", "bad"})
    BY <1>1, <1>2, ToldFacts DEF StepInv, Connecting, Quiet, Pending
  <2>2. Head(inbox).kind \in {"qAttached", "bad"} /\ inbox' = <<>> /\ outbox = <<>>
    BY <1>1, <2>1, SentFacts
  <2>3. CmdAttached
    BY <1>1, <2>2 DEF Handle
  <2>4. Told("reply")' /\ UNCHANGED <<halted, bps>>
    BY <2>2, <2>3, TellAlone DEF CmdAttached
  <2> QED
    BY <1>1, <1>2, <2>1, <2>4 DEF StepInv, Connecting, Pending
<1>3. CASE view = "asked"
  <2>1. StopAsked /\ Sent({"?"})
    BY <1>1, <1>3, ToldFacts DEF StepInv, StopAsked
  <2>2. Head(inbox).kind = "?" /\ inbox' = <<>> /\ outbox = <<>>
    BY <1>1, <2>1, SentFacts
  <2>3. CmdHalted
    BY <1>1, <2>2 DEF Handle
  <2>4. Told("stop")' /\ halted' /\ UNCHANGED bps
    BY <2>2, <2>3, TellAlone DEF CmdHalted
  <2> QED
    BY <1>1, <1>3, <2>1, <2>4 DEF StepInv, StopAsked
<1>4. CASE view = "stopped"
  <2>1. Stopped /\ awaiting /\ Sent({"qAttached", "bad", "Z", "z", "G", "other"})
    BY <1>1, <1>4, ToldFacts DEF StepInv, Stopped, Quiet, Pending
  <2>2. /\ Head(inbox).kind \in {"qAttached", "bad", "Z", "z", "G", "other"}
        /\ inbox' = <<>> /\ outbox = <<>>
    BY <1>1, <2>1, SentFacts
  <2>3. Tell("reply") /\ UNCHANGED halted
    BY <1>1, <2>2
    DEF Handle, CmdAttached, CmdInsertBp, CmdRemoveBp, CmdWriteReg, CmdOther
  <2>4. Told("reply")'
    BY <2>2, <2>3, TellAlone
  <2> QED
    BY <1>1, <1>4, <2>1, <2>3, <2>4 DEF StepInv, Stopped, Pending
<1>5. CASE view = "running"
  <2> DEFINE Both == \E c, s \in Commands : c.kind = "c" /\ s.kind = "ctrl-c" /\ inbox = <<c, s>>
  <2>1. Running
    BY <1>5 DEF StepInv, Connecting, StopAsked, Stopped, Detached
  <2>2. CASE Sent({"c"})
    <3>1. Head(inbox).kind = "c" /\ inbox' = <<>> /\ outbox = <<>>
      BY <1>1, <2>2, SentFacts
    <3>2. CmdContinue
      BY <1>1, <3>1 DEF Handle
    <3>3. Quiet' /\ ~halted'
      BY <3>1, <3>2 DEF CmdContinue, Quiet
    <3> QED
      BY <1>1, <1>5, <2>1, <3>3 DEF StepInv, Running
  <2>3. CASE ctrlC /\ outbox = <<>> /\ Both
    <3>1. PICK c, s \in Commands : c.kind = "c" /\ s.kind = "ctrl-c" /\ inbox = <<c, s>>
      BY <2>3
    <3>2. Head(inbox) = c /\ inbox' = <<s>>
      BY <1>1, <3>1, TwoMessages, Zenon
    <3>3. CmdContinue
      BY <1>1, <3>1, <3>2 DEF Handle
    <3>4. Sent({"ctrl-c"})' /\ ~halted'
      BY <2>3, <3>1, <3>2, <3>3 DEF CmdContinue, Sent
    <3> QED
      BY <1>1, <1>5, <2>1, <2>3, <3>4 DEF StepInv, Running
  <2>4. CASE Sent({"ctrl-c"})
    <3>1. Head(inbox).kind = "ctrl-c" /\ inbox' = <<>> /\ outbox = <<>>
      BY <1>1, <2>4, SentFacts
    <3>2. CmdHalted
      BY <1>1, <3>1 DEF Handle
    <3>3. Told("stop")' /\ halted'
      BY <3>1, <3>2, TellAlone DEF CmdHalted
    <3> QED
      BY <1>1, <1>5, <2>1, <3>3 DEF StepInv, Running
  <2>5. ~Quiet /\ ~Told("stop")
    BY <1>1, ToldFacts DEF Quiet
  <2> QED
    BY <2>1, <2>2, <2>3, <2>4, <2>5 DEF Running
<1>6. CASE view = "detached"
  <2>1. Detached /\ awaiting /\ Sent({"D"})
    BY <1>1, <1>6, ToldFacts DEF StepInv, Detached, Quiet
  <2>2. Head(inbox).kind = "D" /\ inbox' = <<>> /\ outbox = <<>>
    BY <1>1, <2>1, SentFacts
  <2>3. CmdDetach
    BY <1>1, <2>2 DEF Handle
  <2>4. Told("reply")' /\ ~halted' /\ UNCHANGED bps
    BY <2>2, <2>3, TellAlone DEF CmdDetach
  <2> QED
    BY <1>1, <1>6, <2>1, <2>4 DEF StepInv, Detached
<1> QED
  BY <1>2, <1>3, <1>4, <1>5, <1>6 DEF StepInv

(* The program ends at a message that is not one: its sender waits for ever. *)
LEMMA StepReject ==
  ASSUME TypeOK, StepInv, ~crossed, Reject
  PROVE  StepInv'
<1>1. /\ inbox # <<>> /\ inbox' = Tail(inbox) /\ Head(inbox).kind = "bad"
      /\ place' = "dead"
      /\ UNCHANGED <<halted, bps, outbox, view, awaiting, crossed>>
  BY DEF Reject, clientVars
<1> DEFINE K == {"qAttached", "bad", "Z", "z", "G", "other"}
<1>2. \/ view = "connecting" /\ Connecting /\ awaiting /\ outbox = <<>> /\ Tail(inbox) = <<>>
      \/ view = "stopped" /\ Stopped /\ awaiting /\ outbox = <<>> /\ Tail(inbox) = <<>>
  <2>1. \A c, s \in Commands : c.kind = "c" /\ inbox = <<c, s>> => FALSE
    BY <1>1, TwoMessages
  <2>2. ~Sent({"?"}) /\ ~Sent({"c"}) /\ ~Sent({"ctrl-c"}) /\ ~Sent({"D"})
    BY <1>1, SentFacts
  <2>3. ~Quiet /\ ~Told("stop") /\ ~Told("reply")
    BY <1>1, ToldFacts DEF Quiet
  <2>4. /\ ~(view = "asked" /\ StopAsked) /\ ~(view = "running" /\ Running)
        /\ ~(view = "detached" /\ Detached)
    BY <2>1, <2>2, <2>3 DEF StopAsked, Running, Detached
  <2>5. CASE view = "connecting" /\ Connecting
    <3>1. awaiting /\ Sent({"qAttached", "bad"})
      BY <2>3, <2>5 DEF Connecting, Pending
    <3> QED
      BY <2>5, <3>1, SentFacts
  <2>6. CASE view = "stopped" /\ Stopped
    <3>1. awaiting /\ Sent(K)
      BY <2>3, <2>6 DEF Stopped, Pending
    <3> QED
      BY <2>6, <3>1, SentFacts
  <2> QED
    BY <2>4, <2>5, <2>6 DEF StepInv
<1>3. Quiet'
  BY <1>1, <1>2 DEF Quiet
<1> QED
  BY <1>1, <1>2, <1>3 DEF StepInv, Connecting, Stopped, Pending

(***************************************************************************)
(* A breakpoint is reached only while the client believes that the CPU     *)
(* runs: in every other view it stands still or there is no breakpoint.    *)
(***************************************************************************)
LEMMA StepBpReached ==
  ASSUME TypeOK, StepInv, ~crossed, ~crossed', BpReached
  PROVE  StepInv'
<1>1. /\ ~halted /\ halted' /\ bps # {} /\ Tell("stop")
      /\ place # "dead" /\ place' # "dead"
      /\ UNCHANGED <<bps, inbox, view, awaiting, ctrlC>>
      /\ ~\E i \in DOMAIN inbox : inbox[i].kind = "ctrl-c"
  BY DEF BpReached, clientVars
<1>2. view = "running" /\ Running
  BY <1>1 DEF StepInv, Connecting, StopAsked, Stopped, Detached
<1>3. ~Sent({"ctrl-c"})
  <2>1. SUFFICES ASSUME Sent({"ctrl-c"}) PROVE FALSE
    OBVIOUS
  <2>2. inbox # <<>> /\ Head(inbox).kind = "ctrl-c"
    BY <2>1, SentFacts
  <2> QED
    BY <1>1, <2>2, TailFacts DEF TypeOK
<1>4. Quiet
  BY <1>1, <1>2, <1>3 DEF Running
<1>5. Told("stop")'
  BY <1>1, <1>4, TellAlone DEF Quiet
<1> QED
  BY <1>1, <1>2, <1>5 DEF StepInv, Running

(* A step of the loop that handles no message. *)
LEMMA StepLoop ==
  ASSUME StepInv, place # "dead", place' # "dead",
         UNCHANGED <<halted, bps, inbox, outbox, view, awaiting, ctrlC, crossed>>
  PROVE  StepInv'
BY DEF StepInv, Connecting, StopAsked, Stopped, Running, Detached, Quiet, Sent, Told, Pending

(* The client sends when nothing is under way, but for a Ctrl-C after "c". *)
LEMMA StepSend ==
  ASSUME TypeOK, StepInv, ~crossed, ~crossed', Client, ~Receive
  PROVE  StepInv'
<1>1. \A k \in {"?", "qAttached", "ctrl-c", "c", "D", "bad"} : [kind |-> k] \in Commands
  BY DEF Commands
<1>2. CASE AskStopReason
  <2>1. Quiet /\ Connecting /\ place # "dead"
    BY <1>2 DEF AskStopReason, StepInv, Connecting
  <2>2. Sent({"?"})' /\ UNCHANGED <<place, halted, bps>>
    BY <1>1, <1>2, <2>1, SendAlone DEF AskStopReason
  <2> QED
    BY <1>2, <2>1, <2>2 DEF AskStopReason, StepInv, StopAsked, Connecting
<1>3. CASE Attach \/ Garble \/ Request
  <2>1. /\ Quiet /\ place # "dead"
        /\ (view = "connecting" /\ Connecting) \/ (view = "stopped" /\ Stopped)
    BY <1>3 DEF Attach, Garble, Request, StepInv, Connecting, Stopped
  <2>2. PICK m \in Commands :
          /\ m.kind \in {"qAttached", "bad", "Z", "z", "G", "other"}
          /\ view = "connecting" => m.kind \in {"qAttached", "bad"}
          /\ Send(m)
    BY <1>1, <1>3 DEF Attach, Garble, Request
  <2>3. Sent({m.kind})' /\ UNCHANGED <<place, halted, bps>> /\ awaiting' /\ UNCHANGED view
    BY <1>3, <2>1, <2>2, SendAlone DEF Attach, Garble, Request
  <2>4. \A K : m.kind \in K => Sent(K)'
    BY <2>3 DEF Sent
  <2> QED
    BY <2>1, <2>2, <2>3, <2>4 DEF StepInv, Connecting, Stopped, Pending
<1>4. CASE Resume
  <2>1. Quiet /\ Stopped /\ place # "dead"
    BY <1>4 DEF Resume, StepInv, Stopped
  <2>2. Sent({"c"})' /\ UNCHANGED <<place, halted>>
    BY <1>1, <1>4, <2>1, SendAlone DEF Resume
  <2> QED
    BY <1>4, <2>1, <2>2 DEF Resume, StepInv, Stopped, Running
<1>5. CASE Detach
  <2>1. Quiet /\ Stopped /\ place # "dead"
    BY <1>5 DEF Detach, StepInv, Stopped
  <2>2. Sent({"D"})' /\ UNCHANGED <<place, bps>>
    BY <1>1, <1>5, <2>1, SendAlone DEF Detach
  <2> QED
    BY <1>5, <2>1, <2>2 DEF Detach, StepInv, Detached
<1>6. CASE CtrlC
  <2> DEFINE s == [kind |-> "ctrl-c"]
  <2>1. /\ Running /\ ~ctrlC /\ ctrlC' /\ Send(s) /\ s \in Commands
        /\ view = "running" /\ UNCHANGED <<view, awaiting>> /\ place # "dead"
    BY <1>1, <1>6 DEF CtrlC, StepInv, Running
  <2>2. outbox = <<>> /\ outbox' = <<>> /\ inbox' = Append(inbox, s) /\ UNCHANGED <<place, halted>>
    BY <2>1 DEF Send, serverVars
  <2>3. ~Told("stop")
    BY <2>2, ToldFacts
  <2>4. CASE Sent({"c"}) /\ halted
    <3>1. PICK c \in Commands : c.kind = "c" /\ inbox = <<c>>
      BY <2>4 DEF Sent
    <3>2. inbox' = <<c, s>>
      BY <2>2, <3>1, TwoMessages, Zenon
    <3> QED
      BY <2>1, <2>2, <2>4, <3>1, <3>2 DEF StepInv, Running
  <2>5. CASE Quiet /\ ~halted
    <3>1. Sent({"ctrl-c"})'
      BY <2>1, <2>5, SendAlone
    <3> QED
      BY <2>1, <2>2, <2>5, <3>1 DEF StepInv, Running
  <2> QED
    BY <2>1, <2>3, <2>4, <2>5 DEF Running
<1> QED
  BY <1>2, <1>3, <1>4, <1>5, <1>6 DEF Client

LEMMA StepReceive ==
  ASSUME TypeOK, StepInv, ~crossed, Receive
  PROVE  StepInv'
<1>1. /\ outbox # <<>> /\ outbox' = Tail(outbox)
      /\ UNCHANGED <<place, halted, bps, inbox, ctrlC, crossed>>
  BY DEF Receive, serverVars
<1>2. /\ \A K : ~Sent(K)
      /\ ~Quiet
  BY <1>1, SentFacts DEF Quiet
<1>3. place # "dead"
  BY <1>2 DEF StepInv
<1>4. CASE Told("reply")
  <2>1. Quiet' /\ Head(outbox) = "reply"
    BY <1>1, <1>4, ToldFacts DEF Quiet
  <2>2. Head(outbox) # "stop" /\ ~Told("stop")
    BY <1>4, <2>1, ToldFacts
  <2>3. awaiting /\ ~awaiting' /\ UNCHANGED view
    BY <1>2, <2>1, <2>2 DEF Receive, StepInv, Connecting, StopAsked, Stopped, Running, Detached
  <2> QED
    BY <1>1, <1>2, <1>3, <1>4, <2>1, <2>2, <2>3
    DEF StepInv, Connecting, StopAsked, Stopped, Running, Detached, Pending
<1>5. CASE Told("stop")
  <2>1. Quiet' /\ Head(outbox) = "stop"
    BY <1>1, <1>5, ToldFacts DEF Quiet
  <2>2. ~Told("reply")
    BY <1>5, <2>1, ToldFacts
  <2>3. view \in {"asked", "running"} /\ ~awaiting /\ halted
    BY <1>2, <1>3, <1>5, <2>2
    DEF StepInv, Connecting, StopAsked, Stopped, Running, Detached, Pending
  <2>4. view' = "stopped" /\ ~awaiting'
    BY <2>1, <2>3 DEF Receive
  <2> QED
    BY <1>1, <1>3, <2>1, <2>3, <2>4 DEF StepInv, Stopped
<1> QED
  BY <1>1, <1>2, <1>3, <1>4, <1>5
  DEF StepInv, Connecting, StopAsked, Stopped, Running, Detached, Pending

LEMMA StepStep == TypeOK /\ StepInv /\ [Next]_vars => StepInv'
<1> SUFFICES ASSUME TypeOK, StepInv, [Next]_vars PROVE StepInv'
  OBVIOUS
<1>1. SUFFICES ASSUME ~crossed' PROVE StepInv'
  BY DEF StepInv
<1>2. ~crossed
  BY <1>1 DEF Next, CpuThread, Client, InitBlocking, HandleMessages, RecvMsg, Reject, NoMessage,
     Spin, BpReached, NoBreakpoint, HandleInterrupts, Execute, HaltEnds, AskStopReason, Attach,
     Request, Resume, Detach, CtrlC, Garble, Send, Receive, vars, TypeOK
<1>3. CASE InitBlocking \/ HandleMessages
  <2>1. RecvMsg /\ place # "dead" /\ place' # "dead"
    BY <1>3 DEF InitBlocking, HandleMessages
  <2> QED
    BY <1>2, <2>1, StepRecv
<1>4. CASE Reject
  BY <1>2, <1>4, StepReject
<1>5. CASE NoMessage \/ Spin \/ NoBreakpoint \/ HandleInterrupts \/ Execute \/ HaltEnds
  <2>1. /\ place # "dead" /\ place' # "dead"
        /\ UNCHANGED <<halted, bps, inbox, outbox, view, awaiting, ctrlC, crossed>>
    BY <1>5
    DEF NoMessage, Spin, NoBreakpoint, HandleInterrupts, Execute, HaltEnds, clientVars
  <2> QED
    BY <2>1, StepLoop
<1>6. CASE BpReached
  BY <1>1, <1>2, <1>6, StepBpReached
<1>7. CASE Client /\ ~Receive
  BY <1>1, <1>2, <1>7, StepSend
<1>8. CASE Receive
  BY <1>2, <1>8, StepReceive
<1>9. CASE UNCHANGED vars
  BY <1>9 DEF vars, serverVars, clientVars, StepInv, Connecting, StopAsked, Stopped, Running,
     Detached, Quiet, Sent, Told, Pending
<1> QED
  BY <1>3, <1>4, <1>5, <1>6, <1>7, <1>8, <1>9 DEF Next, CpuThread

LEMMA StepInit == Init => StepInv
BY DEF Init, StepInv, Connecting, Quiet

(***************************************************************************)
(* A client that has seen the CPU stop and has not resumed it inspects a   *)
(* CPU that stands still, and never takes a message for the answer to      *)
(* another, unless its Ctrl-C crosses the report of a breakpoint: RecvMsg  *)
(* answers a request once, "c" not at all, and BpReached tells the client  *)
(* that has resumed.                                                       *)
(***************************************************************************)
THEOREM ClientStaysInStep == Spec => []ClientInStep
<1>1. Init => TypeOK /\ StepInv
  BY TypeInit, StepInit
<1>2. TypeOK /\ StepInv /\ [Next]_vars => (TypeOK /\ StepInv)'
  BY TypeStep, StepStep
<1> QED
  BY <1>1, <1>2, StepMeansInStep, PTL DEF Spec

-----------------------------------------------------------------------------
(* Breakpoints. *)

(***************************************************************************)
(* The set of breakpoints changes only while the CPU thread handles        *)
(* messages, and the PC after the comparison only by a dispatch.           *)
(***************************************************************************)
LEMMA BreakpointStep == BreakpointInv /\ [Next]_vars => BreakpointInv'
<1> SUFFICES ASSUME BreakpointInv, [Next]_vars PROVE BreakpointInv'
  OBVIOUS
<1> USE DEF BreakpointInv, BreakpointMissedOnlyByDispatch, serverVars
<1>1. CASE InitBlocking \/ HandleMessages \/ Reject
  BY <1>1 DEF InitBlocking, HandleMessages, Reject
<1>2. CASE NoMessage \/ Spin \/ BpReached \/ NoBreakpoint \/ HandleInterrupts \/ Execute \/ HaltEnds
  BY <1>2 DEF NoMessage, Spin, BpReached, NoBreakpoint, HandleInterrupts, Execute, HaltEnds
<1>3. CASE Client
  <2>1. UNCHANGED serverVars
    BY <1>3 DEF Client, AskStopReason, Attach, Request, Resume, Detach, CtrlC, Garble, Send, Receive
  <2> QED
    BY <2>1
<1>4. CASE UNCHANGED vars
  BY <1>4 DEF vars
<1> QED
  BY <1>1, <1>2, <1>3, <1>4 DEF Next, CpuThread

(***************************************************************************)
(* Breakpoints are exact but for the first instruction of an interrupt     *)
(* handler: the loop looks at the PC before HandleInterrupts changes it.   *)
(***************************************************************************)
THEOREM OnlyDispatchMisses == Spec => []BreakpointMissedOnlyByDispatch
<1>1. Init => BreakpointInv
  BY DEF Init, BreakpointInv, BreakpointMissedOnlyByDispatch
<1>2. BreakpointInv => BreakpointMissedOnlyByDispatch
  BY DEF BreakpointInv
<1> QED
  BY <1>1, <1>2, BreakpointStep, PTL DEF Spec

-----------------------------------------------------------------------------
(* Nothing is lost. *)

(* A client that leaves sends nothing after its D. *)
LeavesLast == \A i \in DOMAIN inbox : inbox[i].kind = "D" => i = Len(inbox)

LostInv == GdbInv /\ NothingIsLost /\ LeavesLast

(* Whoever takes the first message of a sequence leaves the others. *)
LEMMA TailKeeps ==
  ASSUME NEW S, NEW s \in Seq(S), s # <<>>, NEW i \in DOMAIN s, i # 1
  PROVE  i - 1 \in DOMAIN Tail(s) /\ Tail(s)[i - 1] = s[i]
  OBVIOUS

LEMMA AppendKeeps ==
  ASSUME NEW S, NEW s \in Seq(S), NEW m \in S
  PROVE  /\ \A i \in DOMAIN s : i \in DOMAIN Append(s, m) /\ Append(s, m)[i] = s[i]
         /\ Len(s) + 1 \in DOMAIN Append(s, m) /\ Append(s, m)[Len(s) + 1] = m
         /\ Len(Append(s, m)) = Len(s) + 1
  OBVIOUS

(* What is on its way to the server stays so until it is the first. *)
LEMMA ReadKeeps ==
  ASSUME TypeOK, inbox # <<>>, inbox' = Tail(inbox)
  PROVE  /\ Asked # {} => Asked' # {} \/ Asks(Head(inbox))
         /\ CtrlCs # {} => CtrlCs' # {} \/ Head(inbox).kind = "ctrl-c"
         /\ LeavesLast => LeavesLast'
         /\ LeavesLast /\ Head(inbox).kind = "D" => inbox' = <<>>
<1>1. inbox \in Seq(Commands) /\ 1 \in DOMAIN inbox /\ Head(inbox) = inbox[1]
  BY TailFacts DEF TypeOK
<1>2. \A i \in DOMAIN inbox : i # 1 => i - 1 \in DOMAIN inbox' /\ inbox'[i - 1] = inbox[i]
  BY <1>1, TailKeeps
<1>3. \A i \in Asked : i # 1 => i - 1 \in Asked'
  BY <1>2 DEF Asked
<1>4. \A i \in CtrlCs : i # 1 => i - 1 \in CtrlCs'
  BY <1>2 DEF CtrlCs
<1>5. LeavesLast => LeavesLast'
  <2> SUFFICES ASSUME LeavesLast, NEW i \in DOMAIN inbox', inbox'[i].kind = "D"
               PROVE  i = Len(inbox')
    BY DEF LeavesLast
  <2>1. i \in Nat \ {0} /\ i + 1 \in DOMAIN inbox /\ inbox'[i] = inbox[i + 1]
    BY <1>1, TailFacts
  <2>2. i + 1 = Len(inbox)
    BY <2>1 DEF LeavesLast
  <2>3. Len(inbox') = Len(inbox) - 1
    BY <1>1
  <2> QED
    BY <2>1, <2>2, <2>3
<1>6. LeavesLast /\ Head(inbox).kind = "D" => inbox' = <<>>
  <2> SUFFICES ASSUME Len(inbox) = 1 PROVE inbox' = <<>>
    BY <1>1 DEF LeavesLast
  <2>1. inbox' \in Seq(Commands) /\ Len(inbox') = 0
    BY <1>1
  <2> QED
    BY <2>1
<1> QED
  BY <1>1, <1>3, <1>4, <1>5, <1>6 DEF Asked, CtrlCs

(* What the server has said stays said until the client reads it. *)
LEMMA ToldKeeps ==
  ASSUME TypeOK, NEW what \in {"stop", "reply"}, UNCHANGED outbox \/ Tell(what)
  PROVE  /\ Replies # {} => Replies' # {}
         /\ Reports # {} => Reports' # {}
         /\ Tell("reply") => Replies' # {}
         /\ Tell("stop") => Reports' # {}
<1>1. outbox \in Seq({"stop", "reply"})
  BY DEF TypeOK
<1>2. ASSUME NEW w \in {"stop", "reply"}, Tell(w)
      PROVE  /\ \A i \in DOMAIN outbox : i \in DOMAIN outbox' /\ outbox'[i] = outbox[i]
             /\ \E i \in DOMAIN outbox' : outbox'[i] = w
  BY <1>1, <1>2, AppendKeeps DEF Tell
<1>3. Replies \subseteq Replies' /\ Reports \subseteq Reports'
  BY <1>2 DEF Replies, Reports
<1>4. Tell("reply") => Replies' # {}
  BY <1>2 DEF Replies
<1>5. Tell("stop") => Reports' # {}
  BY <1>2 DEF Reports
<1> QED
  BY <1>3, <1>4, <1>5

LEMMA SentKeeps ==
  ASSUME TypeOK, NEW m \in Commands, Send(m)
  PROVE  /\ Asked # {} \/ Asks(m) => Asked' # {}
         /\ CtrlCs # {} \/ m.kind = "ctrl-c" => CtrlCs' # {}
         /\ UNCHANGED <<Replies, Reports>>
         /\ ~Leaving => LeavesLast'
<1>1. inbox \in Seq(Commands) /\ inbox' = Append(inbox, m) /\ outbox' = outbox
  BY DEF TypeOK, Send
<1>2. /\ \A i \in DOMAIN inbox : i \in DOMAIN inbox' /\ inbox'[i] = inbox[i]
      /\ Len(inbox) + 1 \in DOMAIN inbox' /\ inbox'[Len(inbox) + 1] = m
      /\ Len(inbox') = Len(inbox) + 1
  BY <1>1, AppendKeeps
<1>3. \A i \in DOMAIN inbox' : (i \in DOMAIN inbox /\ inbox'[i] = inbox[i]) \/ i = Len(inbox) + 1
  BY <1>1, AppendFacts
<1>4. ~Leaving => LeavesLast'
  BY <1>2, <1>3 DEF Leaving, LeavesLast
<1>5. (Asked # {} \/ Asks(m) => Asked' # {}) /\ (CtrlCs # {} \/ m.kind = "ctrl-c" => CtrlCs' # {})
  BY <1>2 DEF Asked, CtrlCs
<1> QED
  BY <1>1, <1>4, <1>5 DEF Replies, Reports

(* The client takes the reply it waits for, or leaves it there. *)
LEMMA ReceivedKeeps ==
  ASSUME TypeOK, Receive
  PROVE  /\ Replies # {} => Replies' # {} \/ ~awaiting'
         /\ Reports # {} => Reports' # {} \/ view' # "running"
<1>1. outbox \in Seq({"stop", "reply"}) /\ outbox # <<>> /\ outbox' = Tail(outbox)
  BY DEF TypeOK, Receive
<1>2. 1 \in DOMAIN outbox /\ Head(outbox) = outbox[1]
  BY <1>1, TailFacts
<1>3. \A i \in DOMAIN outbox : i # 1 => i - 1 \in DOMAIN outbox' /\ outbox'[i - 1] = outbox[i]
  BY <1>1, TailKeeps
<1>4. (\A i \in Replies : i # 1 => i - 1 \in Replies') /\ (\A i \in Reports : i # 1 => i - 1 \in Reports')
  BY <1>3 DEF Replies, Reports
<1>5. 1 \in Replies => ~awaiting'
  BY <1>2 DEF Replies, Receive
<1>6. 1 \in Reports => view' # "running"
  BY <1>2 DEF Reports, Receive
<1> QED
  BY <1>4, <1>5, <1>6

LEMMA LostReads == LostInv /\ (InitBlocking \/ HandleMessages) => NothingIsLost' /\ LeavesLast'
<1> SUFFICES ASSUME LostInv, InitBlocking \/ HandleMessages
             PROVE  NothingIsLost' /\ LeavesLast'
  OBVIOUS
<1>0. TypeOK /\ NothingIsLost /\ LeavesLast
  BY DEF LostInv, GdbInv
<1>1. /\ place # "dead" /\ inbox # <<>> /\ inbox' = Tail(inbox) /\ Handle(Head(inbox))
      /\ UNCHANGED <<view, awaiting, ctrlC>>
  BY DEF InitBlocking, HandleMessages, RecvMsg, clientVars
<1>2. /\ UNCHANGED outbox \/ Tell("stop") \/ Tell("reply")
      /\ Asks(Head(inbox)) => Tell("reply")
      /\ Head(inbox).kind = "ctrl-c" => Tell("stop")
  BY <1>1 DEF Asks, Handle, CmdHalted, CmdAttached, CmdContinue, CmdDetach, CmdInsertBp,
     CmdRemoveBp, CmdWriteReg, CmdOther
<1>3. /\ Replies # {} \/ Asks(Head(inbox)) => Replies' # {}
      /\ Reports # {} \/ Head(inbox).kind = "ctrl-c" => Reports' # {}
  BY <1>0, <1>2, ToldKeeps
<1>4. /\ Asked # {} => Asked' # {} \/ Asks(Head(inbox))
      /\ CtrlCs # {} => CtrlCs' # {} \/ Head(inbox).kind = "ctrl-c"
      /\ LeavesLast' /\ (Head(inbox).kind = "D" => inbox' = <<>>)
  BY <1>0, <1>1, ReadKeeps
<1>5. inbox' # <<>> => attached' \/ place' = "accept"
  <2>1. CASE InitBlocking
    BY <1>1, <2>1 DEF InitBlocking, Handle, CmdAttached
  <2>2. CASE HandleMessages
    BY <1>1, <1>4, <2>2 DEF HandleMessages, MsgPending, Handle, CmdHalted, CmdAttached,
       CmdContinue, CmdDetach, CmdInsertBp, CmdRemoveBp, CmdWriteReg, CmdOther
  <2> QED
    BY <2>1, <2>2
<1>6. (awaiting => Asked # {} \/ Replies # {}) /\ (view = "running" /\ ctrlC => CtrlCs # {} \/ Reports # {})
  BY <1>0, <1>1 DEF NothingIsLost
<1>7. awaiting' => Asked' # {} \/ Replies' # {}
  BY <1>1, <1>3, <1>4, <1>6
<1>8. view' = "running" /\ ctrlC' => CtrlCs' # {} \/ Reports' # {}
  BY <1>1, <1>3, <1>4, <1>6
<1> QED
  BY <1>4, <1>5, <1>7, <1>8 DEF NothingIsLost

LEMMA LostSends == LostInv /\ Client /\ ~Receive => NothingIsLost' /\ LeavesLast'
<1> SUFFICES ASSUME LostInv, Client, ~Receive PROVE NothingIsLost' /\ LeavesLast'
  OBVIOUS
<1>0. TypeOK /\ NothingIsLost /\ LeavesLast /\ NoneLeft
  BY DEF LostInv, GdbInv
<1>1. PICK m \in Commands :
        /\ Send(m)
        /\ view \in {"connecting", "stopped", "running"}
        /\ awaiting' => awaiting \/ Asks(m)
        /\ view' = "running" /\ ctrlC' => (view = "running" /\ ctrlC) \/ m.kind = "ctrl-c"
  <2>1. \A k \in {"?", "qAttached", "ctrl-c", "c", "D", "bad"} : [kind |-> k] \in Commands
    BY DEF Commands
  <2>2. CASE AskStopReason \/ Resume \/ CtrlC
    BY <2>1, <2>2 DEF AskStopReason, Resume, CtrlC
  <2>3. CASE Attach \/ Detach \/ Garble
    BY <2>1, <2>3 DEF Attach, Detach, Garble, Asks
  <2>4. CASE Request
    BY <2>4 DEF Request, Asks
  <2> QED
    BY <2>2, <2>3, <2>4 DEF Client
<1>2. UNCHANGED <<place, attached>>
  BY <1>1 DEF Send, serverVars
<1>3. ~Leaving /\ ~Left
  BY <1>0, <1>1 DEF NoneLeft
<1>4. /\ Asked # {} \/ Asks(m) => Asked' # {}
      /\ CtrlCs # {} \/ m.kind = "ctrl-c" => CtrlCs' # {}
      /\ UNCHANGED <<Replies, Reports>>
      /\ LeavesLast'
  BY <1>0, <1>1, <1>3, SentKeeps
<1>5. place # "dead" => attached' \/ place' = "accept"
  BY <1>2, <1>3 DEF Left
<1> QED
  BY <1>0, <1>1, <1>2, <1>4, <1>5 DEF NothingIsLost

LEMMA LostStep == LostInv /\ [Next]_vars => LostInv'
<1> SUFFICES ASSUME LostInv, [Next]_vars PROVE LostInv'
  OBVIOUS
<1>0. TypeOK /\ NothingIsLost /\ LeavesLast /\ GdbInv'
  BY GdbStep DEF LostInv, GdbInv
<1> SUFFICES NothingIsLost' /\ LeavesLast'
  BY <1>0 DEF LostInv
<1>1. CASE InitBlocking \/ HandleMessages
  BY <1>1, LostReads
<1>2. CASE Reject
  <2>1. place' = "dead" /\ inbox # <<>> /\ inbox' = Tail(inbox)
    BY <1>2 DEF Reject
  <2> QED
    BY <1>0, <2>1, ReadKeeps DEF NothingIsLost
<1>3. ASSUME UNCHANGED <<inbox, view, awaiting, ctrlC, attached>>, UNCHANGED outbox \/ Tell("stop"),
             place = "dead" => place' = "dead", place = "accept" => place' = "accept"
      PROVE  NothingIsLost' /\ LeavesLast'
  <2>1. (Replies # {} => Replies' # {}) /\ (Reports # {} => Reports' # {})
    BY <1>0, <1>3, ToldKeeps
  <2>2. UNCHANGED <<Asked, CtrlCs>> /\ LeavesLast'
    BY <1>0, <1>3 DEF Asked, CtrlCs, LeavesLast
  <2> QED
    BY <1>0, <1>3, <2>1, <2>2 DEF NothingIsLost
<1>4. CASE NoMessage \/ Spin \/ BpReached \/ NoBreakpoint \/ HandleInterrupts \/ Execute \/ HaltEnds
  BY <1>3, <1>4
  DEF NoMessage, Spin, BpReached, NoBreakpoint, HandleInterrupts, Execute, HaltEnds, clientVars
<1>5. CASE Client /\ ~Receive
  BY <1>5, LostSends
<1>6. CASE Receive
  <2>1. /\ Replies # {} => Replies' # {} \/ ~awaiting'
        /\ Reports # {} => Reports' # {} \/ view' # "running"
    BY <1>0, <1>6, ReceivedKeeps
  <2>2. /\ UNCHANGED <<place, attached, inbox, ctrlC>>
        /\ awaiting' => awaiting
        /\ view' = "running" => view = "running"
    BY <1>6 DEF Receive, serverVars
  <2>3. UNCHANGED <<Asked, CtrlCs>> /\ LeavesLast'
    BY <1>0, <2>2 DEF Asked, CtrlCs, LeavesLast
  <2> QED
    BY <1>0, <2>1, <2>2, <2>3 DEF NothingIsLost
<1>7. CASE UNCHANGED vars
  BY <1>3, <1>7 DEF vars, serverVars, clientVars
<1> QED
  BY <1>1, <1>2, <1>4, <1>5, <1>6, <1>7 DEF Next, CpuThread

LEMMA LostInvariant == Spec => []LostInv
<1>1. Init => LostInv
  BY GdbInit DEF Init, LostInv, NothingIsLost, LeavesLast
<1> QED
  BY <1>1, LostStep, PTL DEF Spec

(***************************************************************************)
(* RecvMsgBlocking and the replies: whatever the client waits for is under *)
(* way, and what is under way to the server finds it listening.            *)
(***************************************************************************)
THEOREM NothingGetsLost == Spec => []NothingIsLost
<1>1. LostInv => NothingIsLost
  BY DEF LostInv
<1> QED
  BY LostInvariant, <1>1, PTL

(***************************************************************************)
(* DoMachineCycle with messages waiting: every step of the CPU thread      *)
(* handles one or is one less until it does.                               *)
(***************************************************************************)
THEOREM EveryMessageIsHeard == Spec => MessagesAreHeard
<1> DEFINE Heard == inbox # <<>> /\ CpuThread =>
                      inbox' = Tail(inbox) \/ (inbox' = inbox /\ StepsToPoll' < StepsToPoll)
<1>1. ASSUME LostInv PROVE Heard
  <2> SUFFICES ASSUME inbox # <<>>, CpuThread
               PROVE  inbox' = Tail(inbox) \/ (inbox' = inbox /\ StepsToPoll' < StepsToPoll)
    OBVIOUS
  <2>1. CASE InitBlocking \/ HandleMessages \/ Reject
    BY <2>1 DEF InitBlocking, HandleMessages, Reject, RecvMsg
  <2>2. ~NoMessage
    BY <1>1 DEF NoMessage, MsgPending, LostInv, NothingIsLost
  <2>3. CASE Spin \/ BpReached \/ NoBreakpoint \/ HandleInterrupts \/ Execute
    BY <2>3 DEF Spin, BpReached, NoBreakpoint, HandleInterrupts, Execute, StepsToPoll
  <2> QED
    BY <2>1, <2>2, <2>3 DEF CpuThread
<1>2. LostInv /\ [Next]_vars => [Heard]_vars
  BY <1>1
<1> QED
  BY <1>2, LostInvariant, PTL DEF Spec, MessagesAreHeard
=============================================================================
