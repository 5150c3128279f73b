---------------------------- MODULE MachineCycle ----------------------------
(***************************************************************************)
(* Cpu::DoMachineCycle on the SystemC kernel, without the debugger.        *)
(*                                                                         *)
(* The CPU is one thread of a cooperative simulation kernel.  It takes a   *)
(* pending interrupt, executes one instruction, adds the instruction's     *)
(* time to local_time_delta_ (lead) and hands control to the kernel only   *)
(* when some other process is due no later than that.  The PPU, the timer, *)
(* the serial port, the joypad and the APU are processes that sleep for a  *)
(* while, set bits of the interrupt flag register, and sleep again.        *)
(*                                                                         *)
(* All times are relative to the kernel's current time: due[p] is how long *)
(* process p still sleeps, cpuDue how long the CPU thread does.  The unit  *)
(* is any that divides them all: one nanosecond, in the source.            *)
(***************************************************************************)
EXTENDS Integers

CONSTANTS
  Devices,    \* the SystemC processes other than the CPU
  OneShot,    \* those that sleep until the program starts them (Serial)
  Waits,      \* Waits[p]: the times p may sleep between two activations
  First,      \* First[p]: when p's first activation with an effect is due
  Raises,     \* Raises[p]: the interrupt request bits p may set
  Bits,       \* the bits of IE and IF that are modelled, of 0..7
  Costs,      \* the possible values of wait_ns_ after an instruction
  HaltTime,   \* the polling interval of InstrHalt
  PushTime,   \* the value InstrPush leaves in wait_ns_
  Ops,        \* the kinds of instruction the program contains
  StackOver   \* which of the registers IE, IF a pushed byte may land on

Vectored == Bits \cap 0 .. 4     \* VBlank, LCDC, timer, serial, joypad
Elsewhere == 8                    \* any other program counter
AllOps == {"plain", "ei", "di", "storeIF", "storeIE", "start", "halt"}

ASSUME DevicesAssumption ==
  /\ OneShot \subseteq Devices
  /\ Waits \in [Devices -> SUBSET (Nat \ {0})]
  /\ First \in [Devices -> Nat]
  /\ Raises \in [Devices -> SUBSET Vectored]

ASSUME CpuAssumption ==
  /\ Bits \subseteq 0 .. 7
  /\ Costs \subseteq Nat \ {0}
  /\ HaltTime \in Nat \ {0}
  /\ PushTime \in Nat \ {0}
  /\ Ops \subseteq AllOps
  /\ StackOver \subseteq {"IE", "IF"}

VARIABLES
  cpu,     \* where the CPU thread is in its loop
  pc,      \* the vector just jumped to (its bit), or Elsewhere
  ime,     \* intr_master_enable
  ie,      \* register 0xFFFF, as the set of its bits
  iflag,   \* register 0xFF0F, as the set of its bits
  spent,   \* wait_ns_
  lead,    \* local_time_delta_
  cpuDue,  \* how long the CPU thread still sleeps
  armed,   \* the processes that have a wake-up scheduled
  due      \* how long each of them still sleeps

intrVars == <<pc, ime, ie, iflag>>
timeVars == <<spent, lead, cpuDue>>
devVars == <<armed, due>>
vars == <<cpu, pc, ime, ie, iflag, spent, lead, cpuDue, armed, due>>

Sleeping == {"wait", "yield", "halt"}  \* the CPU thread is inside a wait()

TypeOK ==
  /\ cpu \in {"top", "exec", "tail"} \cup Sleeping
  /\ pc \in {Elsewhere} \cup Vectored
  /\ ime \in BOOLEAN
  /\ ie \in SUBSET Bits
  /\ iflag \in SUBSET Bits
  /\ spent \in Nat
  /\ lead \in Nat
  /\ cpuDue \in Nat
  /\ armed \in SUBSET Devices
  /\ due \in [Devices -> Nat]

(***************************************************************************)
(* Time 0: every process is scheduled.  The first activation of a thread   *)
(* that only performs its first wait() is folded into First.               *)
(***************************************************************************)
Init ==
  /\ cpu = "wait"
  /\ pc = Elsewhere
  /\ ime = FALSE
  /\ ie = {}
  /\ iflag = {}
  /\ spent = 0
  /\ lead = 0
  /\ cpuDue = 0
  /\ armed = Devices
  /\ due = First

-----------------------------------------------------------------------------
(* The CPU thread. *)

Pending == ie \cap iflag

(***************************************************************************)
(* HandleInterrupts finds nothing to do.  wait_ns_ has just been cleared.  *)
(***************************************************************************)
NoInterrupt ==
  /\ cpu = "top"
  /\ ~ime \/ Pending = {}
  /\ cpu' = "exec"
  /\ spent' = 0
  /\ UNCHANGED <<intrVars, lead, cpuDue, devVars>>

(***************************************************************************)
(* Pushing the program counter overwrites a register that the stack lies   *)
(* over: two bytes, never both of the registers.                           *)
(***************************************************************************)
Pushed(newIe, newIf) ==
  /\ newIe = ie \/ ("IE" \in StackOver /\ newIf = iflag)
  /\ newIf = iflag \/ ("IF" \in StackOver /\ newIe = ie)

(* Fault: the last of the tests of HandleInterrupts wins. *)
Lowest(S) == {b \in S : \A c \in S : b >= c}

Highest(S) == {b \in S : \A c \in S : b <= c}

(* Faults: IME stays set within the handler; the whole flag register is    *)
(* cleared instead of the one bit.                                         *)
DispatchKeepsIme ==
  /\ cpu = "top" /\ ime /\ Pending # {}
  /\ cpu' = "exec"
  /\ spent' = PushTime
  /\ \E b \in Highest(Pending) : pc' = b /\ iflag' = iflag \ {b}
  /\ UNCHANGED <<ime, ie, lead, cpuDue, devVars>>

DispatchClearsAll ==
  /\ cpu = "top" /\ ime /\ Pending # {}
  /\ cpu' = "exec"
  /\ ime' = FALSE
  /\ spent' = PushTime
  /\ \E b \in Highest(Pending) : pc' = b /\ iflag' = {}
  /\ UNCHANGED <<ie, lead, cpuDue, devVars>>

(***************************************************************************)
(* HandleInterrupts dispatches.  The requests are sampled before the push, *)
(* the flag is cleared after it.  With only spare bits requested nothing   *)
(* but IME and the stack changes.                                          *)
(***************************************************************************)
Dispatch ==
  /\ cpu = "top"
  /\ ime
  /\ Pending # {}
  /\ ime' = FALSE
  /\ spent' = PushTime
  /\ cpu' = "exec"
  /\ \E newIe, newIf \in SUBSET Bits :
       /\ Pushed(newIe, newIf)
       /\ ie' = newIe
       /\ \/ /\ Pending \cap Vectored = {}
             /\ iflag' = newIf
             /\ UNCHANGED pc
          \/ \E b \in Highest(Pending \cap Vectored) :
               /\ pc' = b
               /\ iflag' = newIf \ {b}
  /\ UNCHANGED <<lead, cpuDue, devVars>>

(***************************************************************************)
(* One instruction that sets wait_ns_, kind by kind: all that matters here *)
(* is its time and what it does to the interrupt state.                    *)
(***************************************************************************)
Execute(kind) ==
  /\ kind \in Ops
  /\ cpu = "exec"
  /\ cpu' = "tail"
  /\ pc' = Elsewhere
  /\ spent' \in Costs
  /\ UNCHANGED <<lead, cpuDue>>

Plain == Execute("plain") /\ UNCHANGED <<ime, ie, iflag, devVars>>

(* EI and RETI; the effect of EI is not delayed by one instruction. *)
EnableInterrupts ==
  Execute("ei") /\ ime' = TRUE /\ UNCHANGED <<ie, iflag, devVars>>

DisableInterrupts ==
  Execute("di") /\ ime' = FALSE /\ UNCHANGED <<ie, iflag, devVars>>

(* An instruction that stores to 0xFF0F or to 0xFFFF, both plain memory. *)
StoreIF ==
  Execute("storeIF") /\ iflag' \in SUBSET Bits /\ UNCHANGED <<ime, ie, devVars>>

StoreIE ==
  Execute("storeIE") /\ ie' \in SUBSET Bits /\ UNCHANGED <<ime, iflag, devVars>>

(***************************************************************************)
(* An instruction that starts a one-shot process (a serial transfer).  The *)
(* notification is relative to the kernel's time, not to the CPU's.        *)
(***************************************************************************)
StartDevice ==
  /\ Execute("start")
  /\ \E p \in OneShot \ armed :
       /\ armed' = armed \cup {p}
       /\ \E w \in Waits[p] : due' = [due EXCEPT ![p] = w]
  /\ UNCHANGED <<ime, ie, iflag>>

(***************************************************************************)
(* InstrHalt sleeps without handing in the lead and without setting        *)
(* wait_ns_, which keeps the time of a push just made, if any.             *)
(***************************************************************************)
Halt ==
  /\ "halt" \in Ops
  /\ cpu = "exec"
  /\ cpu' = "halt"
  /\ pc' = Elsewhere
  /\ cpuDue' = HaltTime
  /\ UNCHANGED <<ime, ie, iflag, spent, lead, devVars>>

(* Fault: HALT waits for an interrupt that will be taken. *)
HaltPollIme ==
  /\ cpu = "halt" /\ cpuDue = 0
  /\ IF ~ime \/ Pending = {}
       THEN cpuDue' = HaltTime /\ UNCHANGED cpu
       ELSE cpu' = "tail" /\ UNCHANGED cpuDue
  /\ UNCHANGED <<intrVars, spent, lead, devVars>>

HaltPoll ==
  /\ cpu = "halt"
  /\ cpuDue = 0
  /\ IF Pending = {}
       THEN cpuDue' = HaltTime /\ UNCHANGED cpu
       ELSE cpu' = "tail" /\ UNCHANGED cpuDue
  /\ UNCHANGED <<intrVars, spent, lead, devVars>>

(* Faults: a process due at the very end of the instruction is overlooked, *)
(* or the time of the instruction is.                                      *)
MustSyncStrict(time) == armed = {} \/ \E p \in armed : due[p] < time
MustSyncBefore(time) == armed = {} \/ \E p \in armed : due[p] <= lead

(***************************************************************************)
(* The end of the loop body: local_time_delta_ += wait_ns_, and a wait if  *)
(* some process is due by then or none is scheduled.                       *)
(***************************************************************************)
MustSync(time) == armed = {} \/ \E p \in armed : due[p] <= time

RunAhead ==
  /\ cpu = "tail"
  /\ ~MustSync(lead + spent)
  /\ lead' = lead + spent
  /\ cpu' = "top"
  /\ UNCHANGED <<intrVars, spent, cpuDue, devVars>>

(* Fault: the lead is taken off the wait instead of added to it. *)
SyncSubtracts ==
  /\ cpu = "tail" /\ MustSync(lead + spent)
  /\ cpuDue' = spent - lead
  /\ lead' = 0
  /\ cpu' = IF spent = lead THEN "yield" ELSE "wait"
  /\ UNCHANGED <<intrVars, spent, devVars>>

(* wait(SC_ZERO_TIME) lets every runnable process go first. *)
Sync ==
  /\ cpu = "tail"
  /\ MustSync(lead + spent)
  /\ cpuDue' = lead + spent
  /\ lead' = 0
  /\ cpu' = IF lead + spent = 0 THEN "yield" ELSE "wait"
  /\ UNCHANGED <<intrVars, spent, devVars>>

Resume ==
  /\ cpuDue = 0
  /\ \/ cpu = "wait"
     \/ cpu = "yield" /\ \A p \in armed : due[p] > 0
  /\ cpu' = "top"
  /\ UNCHANGED <<intrVars, timeVars, devVars>>

-----------------------------------------------------------------------------
(* The SystemC kernel and the other processes. *)

(***************************************************************************)
(* Nobody is runnable: time advances to the earliest wake-up.              *)
(***************************************************************************)
Elapse(d) ==
  /\ cpu \in {"wait", "halt"}
  /\ d > 0
  /\ d <= cpuDue
  /\ \A p \in armed : d <= due[p]
  /\ cpuDue' = cpuDue - d
  /\ due' = [p \in Devices |-> IF p \in armed THEN due[p] - d ELSE due[p]]
  /\ UNCHANGED <<cpu, intrVars, spent, lead, armed>>

(***************************************************************************)
(* Process p is due while the CPU thread sleeps: it may set some of its    *)
(* request bits, then sleeps again or, if one-shot, until it is started.   *)
(***************************************************************************)
Activate(p) ==
  /\ cpu \in Sleeping
  /\ p \in armed
  /\ due[p] = 0
  /\ \E raised \in SUBSET Raises[p] : iflag' = iflag \cup raised
  /\ IF p \in OneShot
       THEN armed' = armed \ {p} /\ UNCHANGED due
       ELSE /\ \E w \in Waits[p] : due' = [due EXCEPT ![p] = w]
            /\ UNCHANGED armed
  /\ UNCHANGED <<cpu, pc, ime, ie, timeVars>>

CpuStep ==
  \/ NoInterrupt \/ Dispatch
  \/ Plain \/ EnableInterrupts \/ DisableInterrupts
  \/ StoreIF \/ StoreIE \/ StartDevice
  \/ Halt \/ HaltPoll
  \/ RunAhead \/ Sync \/ Resume

Advance == \E d \in {cpuDue} \cup {due[p] : p \in armed} : Elapse(d)

Next == CpuStep \/ Advance \/ \E p \in Devices : Activate(p)

Spec == Init /\ [][Next]_vars

(***************************************************************************)
(* The kernel never idles while there is something to run or to wait for.  *)
(* What the program and the devices choose to do is left open.             *)
(***************************************************************************)
FairSpec == Spec /\ WF_vars(CpuStep) /\ WF_vars(Advance)
                 /\ \A p \in Devices : WF_vars(Activate(p))

-----------------------------------------------------------------------------
(* Properties. *)

(***************************************************************************)
(* Temporal decoupling never lets the CPU run past another process: when   *)
(* an iteration of DoMachineCycle looks at the interrupt registers and     *)
(* executes an instruction at a local time ahead of the kernel's, every    *)
(* other process is due later than that local time.                        *)
(***************************************************************************)
NoTimeTravel ==
  cpu \in {"top", "exec"} /\ lead > 0 =>
    armed # {} /\ \A p \in armed : due[p] > lead

(***************************************************************************)
(* A process that becomes due while the CPU thread is in the wait() of     *)
(* DoMachineCycle is overtaken by at most the one instruction that led to  *)
(* that wait: the rest of the wait is no longer than wait_ns_.             *)
(* Holds of programs without HALT that start no one-shot process.          *)
(***************************************************************************)
LateByOneInstruction ==
  cpu = "wait" => \A p \in armed : due[p] = 0 => cpuDue <= spent

(***************************************************************************)
(* A bit leaves the interrupt flag register only by the dispatch of its    *)
(* own vector, or by a store of the program to the register: neither a     *)
(* device setting its bits, nor the dispatch of another vector, nor one    *)
(* that pushes over IE loses a request.  Says nothing of programs whose    *)
(* stack lies over IF.                                                     *)
(***************************************************************************)
NoLostRequest ==
  [][ "IF" \notin StackOver =>
      \A b \in iflag \ iflag' : StoreIF \/ (cpu = "top" /\ pc' = b) ]_vars

(***************************************************************************)
(* HandleInterrupts: "This disables IME and sets the PC in case of an      *)
(* interrupt."  Whenever it clears IME, the PC is a vector.                *)
(***************************************************************************)
DispatchSetsPC ==
  [][cpu = "top" /\ ime /\ ~ime' => pc' \in Vectored]_vars

(***************************************************************************)
(* HALT ends once an enabled interrupt is requested and stays so.          *)
(***************************************************************************)
HaltWakes ==
  (cpu = "halt" /\ Pending # {}) ~> cpu # "halt"

(***************************************************************************)
(* With IME set a pending interrupt is eventually taken, or the program    *)
(* withdraws it or clears IME: no amount of running ahead, halting or      *)
(* device activity postpones HandleInterrupts for ever.                    *)
(***************************************************************************)
Served == (ime /\ Pending # {}) ~> (~ime \/ Pending = {})

(***************************************************************************)
(* How far the CPU is from its next look at the interrupt registers: the   *)
(* part of the loop it is in, then how long it sleeps, then the processes  *)
(* that run before it.  Nearer: a step comes closer, lexicographically.    *)
(***************************************************************************)
Distance ==
  CASE cpu = "exec" -> 4
    [] cpu = "halt" -> 3
    [] cpu = "tail" -> 2
    [] cpu \in {"wait", "yield"} -> 1
    [] OTHER -> 0

DueNow == {p \in armed : due[p] = 0}

Nearer ==
  \/ Distance' < Distance
  \/ Distance' = Distance /\ cpuDue' < cpuDue
  \/ Distance' = Distance /\ cpuDue' = cpuDue /\ DueNow' \subseteq DueNow /\ DueNow' # DueNow

(***************************************************************************)
(* Why Served and HaltWakes hold: while an interrupt waits for IME's       *)
(* dispatch, and while one waits for HALT to end, every single step of the *)
(* CPU, of a process or of time comes nearer, so that there are finitely   *)
(* many of them.  No instruction, poll or activation starts over.          *)
(***************************************************************************)
NearerToDispatch ==
  [][ime /\ Pending # {} => ~ime' \/ Pending' = {} \/ Nearer]_vars

NearerToWaking ==
  [][cpu = "halt" /\ Pending # {} => cpu' # "halt" \/ (Pending' # {} /\ Nearer)]_vars
=============================================================================
