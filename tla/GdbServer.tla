------------------------------ MODULE GdbServer ------------------------------
(***************************************************************************)
(* The GDB server and the loop of Cpu::DoMachineCycle that polls it.       *)
(*                                                                         *)
(* The CPU thread blocks until a client has attached.  After that, between *)
(* two instructions, it handles the messages that have arrived, spins      *)
(* while halted_ is set, and stops at a breakpoint.  The client (external) *)
(* is another process: it sends commands one at a time, waits for each     *)
(* reply, and may send Ctrl-C while it believes the CPU to be running.     *)
(***************************************************************************)
EXTENDS Integers, Sequences

CONSTANTS
  Addrs,   \* the addresses of instructions
  Isr,     \* the one that an interrupt is dispatched to
  InFlight \* bound on the messages under way when the client sends another

ASSUME GdbAssumption == Isr \in Addrs /\ InFlight \in Nat \ {0}

VARIABLES
  place,       \* where the CPU thread is
  pc,          \* the next instruction
  dispatched,  \* pc was set by HandleInterrupts in this iteration
  halted,      \* Cpu::halted_
  attached,    \* GdbServer::is_attached_
  bps,         \* GdbServer::bp_set_
  inbox,       \* bytes on their way to the server, as whole messages
  outbox,      \* and to the client: "stop" for S05, "reply" for the rest
  view,        \* external: what the client believes
  awaiting,    \* external: the client waits for the reply to a command
  ctrlC,       \* external: the client has sent Ctrl-C since it last resumed
  crossed      \* history: Ctrl-C and the report of a breakpoint crossed each other

serverVars == <<place, pc, dispatched, halted, attached, bps>>
clientVars == <<view, awaiting, ctrlC>>
vars == <<serverVars, inbox, outbox, clientVars, crossed>>

Commands ==
  [kind : {"?", "qAttached", "ctrl-c", "c", "D", "other", "bad"}] \cup
  [kind : {"Z", "z", "G"}, addr : Addrs]

Places == {"accept", "poll", "check", "interrupts", "exec", "asleep", "dead"}

TypeOK ==
  /\ place \in Places
  /\ pc \in Addrs
  /\ dispatched \in BOOLEAN
  /\ halted \in BOOLEAN /\ attached \in BOOLEAN
  /\ bps \subseteq Addrs
  /\ inbox \in Seq(Commands)
  /\ outbox \in Seq({"stop", "reply"})
  /\ view \in {"connecting", "asked", "stopped", "running", "detached", "lost"}
  /\ awaiting \in BOOLEAN /\ ctrlC \in BOOLEAN /\ crossed \in BOOLEAN

Init ==
  /\ place = "accept"
  /\ pc \in Addrs
  /\ dispatched = FALSE
  /\ halted = FALSE
  /\ attached = FALSE
  /\ bps = {}
  /\ inbox = <<>>
  /\ outbox = <<>>
  /\ view = "connecting"
  /\ awaiting = FALSE
  /\ ctrlC = FALSE
  /\ crossed = FALSE

Tell(what) == outbox' = Append(outbox, what)

-----------------------------------------------------------------------------
(* The commands of the remote serial protocol, as DecodeAndCall runs them. *)

CmdHalted ==
  /\ halted' = TRUE
  /\ Tell("stop")
  /\ UNCHANGED <<pc, attached, bps>>

CmdAttached ==
  /\ attached' = TRUE
  /\ Tell("reply")
  /\ UNCHANGED <<pc, halted, bps>>

(* Fault: "c" is acknowledged like the other commands. *)
CmdContinueReplies ==
  /\ halted' = FALSE
  /\ Tell("reply")
  /\ UNCHANGED <<pc, attached, bps>>

CmdContinue ==
  /\ halted' = FALSE
  /\ UNCHANGED <<pc, attached, bps, outbox>>

(* Fault: the CPU is not continued. *)
CmdDetachHalted ==
  /\ attached' = FALSE
  /\ Tell("reply")
  /\ UNCHANGED <<pc, halted, bps>>

(* The breakpoints stay. *)
CmdDetach ==
  /\ attached' = FALSE
  /\ halted' = FALSE
  /\ Tell("reply")
  /\ UNCHANGED <<pc, bps>>

(* Fault: an address beyond the one asked for. *)
CmdInsertBpNext(addr) ==
  /\ bps' = bps \cup {addr + 1}
  /\ Tell("reply")
  /\ UNCHANGED <<pc, halted, attached>>

CmdInsertBp(addr) ==
  /\ bps' = bps \cup {addr}
  /\ Tell("reply")
  /\ UNCHANGED <<pc, halted, attached>>

CmdRemoveBp(addr) ==
  /\ bps' = bps \ {addr}
  /\ Tell("reply")
  /\ UNCHANGED <<pc, halted, attached>>

CmdWriteReg(addr) ==
  /\ pc' = addr
  /\ Tell("reply")
  /\ UNCHANGED <<halted, attached, bps>>

(* g, m, M, qSupported, and the empty reply to a command not known. *)
CmdOther == Tell("reply") /\ UNCHANGED <<pc, halted, attached, bps>>

(***************************************************************************)
(* RecvMsgBlocking: one message, from its first byte to its handler.       *)
(***************************************************************************)
Handle(m) ==
  \/ m.kind \in {"?", "ctrl-c"} /\ CmdHalted
  \/ m.kind = "qAttached" /\ CmdAttached
  \/ m.kind = "c" /\ CmdContinue
  \/ m.kind = "D" /\ CmdDetach
  \/ m.kind = "Z" /\ CmdInsertBp(m.addr)
  \/ m.kind = "z" /\ CmdRemoveBp(m.addr)
  \/ m.kind = "G" /\ CmdWriteReg(m.addr)
  \/ m.kind = "other" /\ CmdOther

(* Fault: what has arrived behind the message is thrown away with it. *)
RecvMsgFlushes ==
  /\ inbox # <<>>
  /\ inbox' = <<>>
  /\ Handle(Head(inbox))
  /\ UNCHANGED <<dispatched, clientVars, crossed>>

RecvMsg ==
  /\ inbox # <<>>
  /\ inbox' = Tail(inbox)
  /\ Handle(Head(inbox))
  /\ UNCHANGED <<dispatched, clientVars, crossed>>

(* A wrong first byte, length or checksum: an exception ends the program. *)
Reject ==
  /\ place = "accept" \/ (place = "poll" /\ attached)
  /\ inbox # <<>>
  /\ Head(inbox).kind = "bad"
  /\ place' = "dead"
  /\ inbox' = Tail(inbox)
  /\ UNCHANGED <<pc, dispatched, halted, attached, bps, outbox, clientVars, crossed>>

(* InitBlocking returns after the message qAttached. *)
InitBlocking ==
  /\ place = "accept"
  /\ RecvMsg
  /\ place' = IF Head(inbox).kind = "qAttached" THEN "poll" ELSE "accept"

-----------------------------------------------------------------------------
(* The loop of DoMachineCycle. *)

MsgPending == attached /\ inbox # <<>>

HandleMessages == place = "poll" /\ MsgPending /\ RecvMsg /\ UNCHANGED place

NoMessage ==
  /\ place = "poll"
  /\ ~MsgPending
  /\ place' = "check"
  /\ UNCHANGED <<pc, dispatched, halted, attached, bps, inbox, outbox, clientVars, crossed>>

(* Fault: a halted CPU does not look for messages. *)
SpinDeaf == place = "check" /\ halted /\ UNCHANGED vars

(* halted_ is set: sleep one millisecond of real time and poll again. *)
Spin ==
  /\ place = "check"
  /\ halted
  /\ place' = "poll"
  /\ UNCHANGED <<pc, dispatched, halted, attached, bps, inbox, outbox, clientVars, crossed>>

BpReached ==
  /\ place = "check"
  /\ ~halted
  /\ pc \in bps
  /\ halted' = TRUE
  /\ Tell("stop")
  /\ crossed' = (crossed \/ \E i \in DOMAIN inbox : inbox[i].kind = "ctrl-c")
  /\ place' = "poll"
  /\ UNCHANGED <<pc, dispatched, attached, bps, inbox, clientVars>>

(* Fault: an iteration that does not look for a breakpoint. *)
NoBreakpointCheck ==
  /\ place = "check"
  /\ ~halted
  /\ place' = "interrupts"
  /\ UNCHANGED <<pc, dispatched, halted, attached, bps, inbox, outbox, clientVars, crossed>>

NoBreakpoint ==
  /\ place = "check"
  /\ ~halted
  /\ pc \notin bps
  /\ place' = "interrupts"
  /\ UNCHANGED <<pc, dispatched, halted, attached, bps, inbox, outbox, clientVars, crossed>>

HandleInterrupts ==
  /\ place = "interrupts"
  /\ place' = "exec"
  /\ \/ dispatched' = TRUE /\ pc' = Isr
     \/ dispatched' = FALSE /\ UNCHANGED pc
  /\ UNCHANGED <<halted, attached, bps, inbox, outbox, clientVars, crossed>>

(* HALT sleeps within the instruction; InstrHalt does not poll the server. *)
Execute ==
  /\ place = "exec"
  /\ pc' \in Addrs
  /\ dispatched' = FALSE
  /\ place' \in {"poll", "asleep"}
  /\ UNCHANGED <<halted, attached, bps, inbox, outbox, clientVars, crossed>>

HaltEnds ==
  /\ place = "asleep"
  /\ place' = "poll"
  /\ UNCHANGED <<pc, dispatched, halted, attached, bps, inbox, outbox, clientVars, crossed>>

CpuThread ==
  \/ InitBlocking \/ HandleMessages \/ Reject \/ NoMessage
  \/ Spin \/ BpReached \/ NoBreakpoint \/ HandleInterrupts \/ Execute

-----------------------------------------------------------------------------
(* The client (external), as far as GDB keeps to its own protocol. *)

Send(m) ==
  /\ Len(inbox) + Len(outbox) < InFlight
  /\ inbox' = Append(inbox, m)
  /\ crossed' = (crossed \/ (m.kind = "ctrl-c" /\ outbox # <<>>))
  /\ UNCHANGED <<serverVars, outbox>>

(* The handshake: it asks for the stop reason and for qAttached, in any order. *)
AskStopReason ==
  /\ view = "connecting"
  /\ ~awaiting
  /\ Send([kind |-> "?"])
  /\ view' = "asked"
  /\ UNCHANGED <<awaiting, ctrlC>>

Attach ==
  /\ place = "accept"
  /\ view \in {"connecting", "stopped"}
  /\ ~awaiting
  /\ Send([kind |-> "qAttached"])
  /\ awaiting' = TRUE
  /\ UNCHANGED <<view, ctrlC>>

Request ==
  /\ view = "stopped"
  /\ attached
  /\ ~awaiting
  /\ \E m \in Commands : m.kind \in {"Z", "z", "G", "other"} /\ Send(m)
  /\ awaiting' = TRUE
  /\ UNCHANGED <<view, ctrlC>>

Resume ==
  /\ view = "stopped"
  /\ attached
  /\ ~awaiting
  /\ Send([kind |-> "c"])
  /\ view' = "running"
  /\ ctrlC' = FALSE
  /\ UNCHANGED awaiting

(* GDB takes its breakpoints out before it detaches. *)
Detach ==
  /\ view = "stopped"
  /\ attached
  /\ ~awaiting
  /\ bps = {}
  /\ Send([kind |-> "D"])
  /\ view' = "detached"
  /\ awaiting' = TRUE
  /\ UNCHANGED ctrlC

CtrlC ==
  /\ view = "running"
  /\ ~ctrlC
  /\ Send([kind |-> "ctrl-c"])
  /\ ctrlC' = TRUE
  /\ UNCHANGED <<view, awaiting>>

Garble ==
  /\ view \in {"connecting", "stopped"}
  /\ ~awaiting
  /\ Send([kind |-> "bad"])
  /\ awaiting' = TRUE
  /\ UNCHANGED <<view, ctrlC>>

Receive ==
  /\ outbox # <<>>
  /\ outbox' = Tail(outbox)
  /\ IF Head(outbox) = "stop"
       THEN /\ view' = IF ~awaiting /\ view \in {"asked", "running", "stopped"}
                         THEN "stopped" ELSE "lost"
            /\ UNCHANGED awaiting
       ELSE /\ view' = IF awaiting THEN view ELSE "lost"
            /\ awaiting' = FALSE
  /\ UNCHANGED <<serverVars, inbox, ctrlC, crossed>>

Client ==
  \/ AskStopReason \/ Attach \/ Request \/ Resume \/ Detach \/ CtrlC \/ Garble \/ Receive

Next == CpuThread \/ HaltEnds \/ Client

(***************************************************************************)
(* The operating system schedules both processes.  A HALT need not end and *)
(* the client need not send anything, but it reads what it is sent.        *)
(***************************************************************************)
Spec == Init /\ [][Next]_vars /\ WF_vars(CpuThread) /\ WF_vars(Receive)

-----------------------------------------------------------------------------
(* Properties. *)

ResumeSent == \E i \in DOMAIN inbox : inbox[i].kind \in {"c", "D"}

(***************************************************************************)
(* The client and the CPU agree: a client that has seen the CPU stop, and  *)
(* has sent nothing to resume it, inspects a CPU that stands still; and no *)
(* message is taken for the answer to another.  The exception is a Ctrl-C  *)
(* that crosses the report of a breakpoint: it is answered a second time.  *)
(***************************************************************************)
ClientInStep ==
  ~crossed =>
    /\ view # "lost"
    /\ view = "stopped" /\ ~ResumeSent /\ place # "dead" => halted

(***************************************************************************)
(* cpu.h: halted_ is "true, GDB is currently halting the CPU".  Once the   *)
(* loop runs, a halted CPU has a client attached that can continue it.     *)
(***************************************************************************)
HaltedByGdb == halted /\ place \notin {"accept", "dead"} => attached

(***************************************************************************)
(* An instruction at a breakpoint is executed only as the first one of an  *)
(* interrupt handler: BpReached looks at the PC before HandleInterrupts    *)
(* changes it.                                                             *)
(***************************************************************************)
BreakpointMissedOnlyByDispatch == place = "exec" /\ pc \in bps => dispatched

(***************************************************************************)
(* "Breakpoint reached indicated by sending a SIGTRAP signal": no          *)
(* instruction at a breakpoint is executed without the stop.               *)
(***************************************************************************)
BreakpointsStop == place = "exec" => pc \notin bps

(***************************************************************************)
(* Every command is answered and every Ctrl-C stops the CPU, unless the    *)
(* program sleeps in HALT, which does not poll.                            *)
(***************************************************************************)
Answered ==
  /\ awaiting ~> (~awaiting \/ view = "lost" \/ place \in {"asleep", "dead"})
  /\ (view = "running" /\ ctrlC) ~> (view # "running" \/ place \in {"asleep", "dead"})

(***************************************************************************)
(* The messages under way that the client waits for: a command that will   *)
(* be answered, or the answer.  "?", Ctrl-C and "c" are answered by a      *)
(* report of their own, if at all.                                         *)
(***************************************************************************)
Asks(m) == m.kind \notin {"?", "ctrl-c", "c"}

Asked == {i \in DOMAIN inbox : Asks(inbox[i])}
Replies == {i \in DOMAIN outbox : outbox[i] = "reply"}

(* And those it waits for after a Ctrl-C. *)
CtrlCs == {i \in DOMAIN inbox : inbox[i].kind = "ctrl-c"}
Reports == {i \in DOMAIN outbox : outbox[i] = "stop"}

(***************************************************************************)
(* No command and no Ctrl-C is dropped: while the client waits, what it    *)
(* waits for is under way, and whatever is on its way to the server finds  *)
(* it listening, also behind a D or a Ctrl-C that crossed a report.        *)
(***************************************************************************)
NothingIsLost ==
  place # "dead" =>
    /\ awaiting => Asked # {} \/ Replies # {}
    /\ view = "running" /\ ctrlC => CtrlCs # {} \/ Reports # {}
    /\ inbox # <<>> => attached \/ place = "accept"

(***************************************************************************)
(* Why Answered holds of the server: while a message waits, every step of  *)
(* the CPU thread handles one or brings it nearer to the place where it    *)
(* does, whether the CPU runs, spins or meets a breakpoint.                *)
(***************************************************************************)
StepsToPoll ==
  CASE place = "check" -> 3 [] place = "interrupts" -> 2 [] place = "exec" -> 1 [] OTHER -> 0

MessagesAreHeard ==
  [][inbox # <<>> /\ CpuThread =>
       \/ inbox' = Tail(inbox)
       \/ inbox' = inbox /\ StepsToPoll' < StepsToPoll]_vars
=============================================================================
