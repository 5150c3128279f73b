------------------------- MODULE MachineCycleProofs -------------------------
(***************************************************************************)
(* Theorems about MachineCycle for all processes, waiting times,           *)
(* instruction times and programs.                                         *)
(***************************************************************************)
EXTENDS MachineCycleRefinement, TLAPS

USE DevicesAssumption, CpuAssumption


(***************************************************************************)
(* Every variable keeps its type: in particular no clock of the CPU or of  *)
(* a process ever becomes negative.                                        *)
(***************************************************************************)
LEMMA TypeInit == Init => TypeOK
<1> SUFFICES ASSUME Init PROVE TypeOK
  OBVIOUS
<1>1. due \in [Devices -> Nat]
  BY DEF Init
<1> QED
  BY <1>1 DEF Init, TypeOK, Sleeping

LEMMA TypeStep == TypeOK /\ [Next]_vars => TypeOK'
<1> SUFFICES ASSUME TypeOK, [Next]_vars PROVE TypeOK'
  OBVIOUS
<1> USE DEF TypeOK, Sleeping
<1>1. CASE NoInterrupt
  BY <1>1 DEF NoInterrupt, intrVars, devVars
<1>2. CASE Dispatch
  BY <1>2 DEF Dispatch, Highest, Pending, devVars
<1>3. ASSUME NEW kind, Execute(kind)
      PROVE  /\ cpu' = "tail" /\ pc' = Elsewhere /\ spent' \in Nat
             /\ lead' = lead /\ cpuDue' = cpuDue
  BY <1>3 DEF Execute
<1>4. CASE Plain \/ EnableInterrupts \/ DisableInterrupts \/ StoreIF \/ StoreIE
  BY <1>3, <1>4 DEF Plain, EnableInterrupts, DisableInterrupts, StoreIF, StoreIE, devVars
<1>5. CASE StartDevice
  <2>1. PICK p \in OneShot \ armed :
          /\ armed' = armed \cup {p}
          /\ \E w \in Waits[p] : due' = [due EXCEPT ![p] = w]
    BY <1>5 DEF StartDevice
  <2>2. armed' \in SUBSET Devices /\ due' \in [Devices -> Nat]
    BY <2>1
  <2>3. /\ cpu' = "tail" /\ pc' = Elsewhere /\ spent' \in Nat
        /\ lead' = lead /\ cpuDue' = cpuDue
    BY <1>3, <1>5 DEF StartDevice
  <2>4. UNCHANGED <<ime, ie, iflag>>
    BY <1>5 DEF StartDevice
  <2> QED
    BY <2>2, <2>3, <2>4
<1>6. CASE Halt \/ HaltPoll
  BY <1>6 DEF Halt, HaltPoll, intrVars, devVars
<1>7. CASE RunAhead \/ Sync \/ Resume
  <2>1. CASE RunAhead
    BY <2>1 DEF RunAhead, intrVars, devVars
  <2>2. CASE Sync
    BY <2>2 DEF Sync, intrVars, devVars
  <2>3. CASE Resume
    BY <2>3 DEF Resume, intrVars, timeVars, devVars
  <2> QED
    BY <1>7, <2>1, <2>2, <2>3
<1>8. CASE Advance
  <2>1. PICK d \in {cpuDue} \cup {due[p] : p \in armed} : Elapse(d)
    BY <1>8 DEF Advance
  <2>2. d \in Nat /\ cpuDue' \in Nat
    BY <2>1 DEF Elapse
  <2>3. due' \in [Devices -> Nat]
    BY <2>1, <2>2 DEF Elapse
  <2> QED
    BY <2>1, <2>2, <2>3 DEF Elapse, intrVars
<1>9. ASSUME NEW p \in Devices, Activate(p) PROVE TypeOK'
  <2>1. iflag' \in SUBSET Bits
    BY <1>9 DEF Activate, Vectored
  <2>2. armed' \in SUBSET Devices /\ due' \in [Devices -> Nat]
    BY <1>9 DEF Activate
  <2> QED
    BY <1>9, <2>1, <2>2 DEF Activate, timeVars
<1>10. CASE UNCHANGED vars
  BY <1>10 DEF vars
<1> QED
  BY <1>1, <1>2, <1>4, <1>5, <1>6, <1>7, <1>8, <1>9, <1>10 DEF Next, CpuStep

THEOREM TypeCorrect == Spec => []TypeOK
BY TypeInit, TypeStep, PTL DEF Spec

-----------------------------------------------------------------------------

(***************************************************************************)
(* NoTimeTravel is not inductive by itself: the CPU returns from a wait()  *)
(* to the top of its loop, so the lead must have been handed in there.     *)
(* Only the wait() of InstrHalt keeps a lead.                              *)
(***************************************************************************)
LeadInv ==
  /\ TypeOK
  /\ NoTimeTravel
  /\ cpu \in {"wait", "yield"} => lead = 0

LEMMA LeadInit == Init => LeadInv
BY TypeInit DEF Init, LeadInv, NoTimeTravel

LEMMA LeadStep == LeadInv /\ [Next]_vars => LeadInv'
<1> SUFFICES ASSUME LeadInv, [Next]_vars PROVE LeadInv'
  OBVIOUS
<1>0. TypeOK /\ TypeOK'
  BY TypeStep DEF LeadInv
<1> USE DEF LeadInv, NoTimeTravel
<1>1. CASE NoInterrupt \/ Dispatch
  BY <1>0, <1>1 DEF NoInterrupt, Dispatch, devVars
<1>2. CASE Plain \/ EnableInterrupts \/ DisableInterrupts \/ StoreIF \/ StoreIE \/ StartDevice
  BY <1>0, <1>2 DEF Plain, EnableInterrupts, DisableInterrupts, StoreIF, StoreIE,
                    StartDevice, Execute
<1>3. CASE Halt \/ HaltPoll
  BY <1>0, <1>3 DEF Halt, HaltPoll
<1>4. CASE RunAhead
  <2>1. armed # {} /\ \A p \in armed : ~(due[p] <= lead + spent)
    BY <1>4 DEF RunAhead, MustSync
  <2>2. \A p \in armed : due[p] \in Nat
    BY <1>0 DEF TypeOK
  <2>3. \A p \in armed : due[p] > lead + spent
    BY <1>0, <2>1, <2>2 DEF TypeOK
  <2>4. cpu' = "top" /\ lead' = lead + spent /\ armed' = armed /\ due' = due
    BY <1>4 DEF RunAhead, devVars
  <2> QED
    BY <1>0, <2>1, <2>3, <2>4
<1>5. CASE Sync \/ Resume
  BY <1>0, <1>5 DEF Sync, Resume, timeVars
<1>6. CASE Advance
  BY <1>0, <1>6 DEF Advance, Elapse
<1>7. ASSUME NEW p \in Devices, Activate(p) PROVE LeadInv'
  BY <1>0, <1>7 DEF Activate, Sleeping, timeVars
<1>8. CASE UNCHANGED vars
  BY <1>0, <1>8 DEF vars
<1> QED
  BY <1>1, <1>2, <1>3, <1>4, <1>5, <1>6, <1>7, <1>8 DEF Next, CpuStep

(***************************************************************************)
(* The CPU never executes an instruction at a local time at which another  *)
(* process should already have run.                                        *)
(***************************************************************************)
THEOREM NeverTimeTravels == Spec => []NoTimeTravel
<1>1. LeadInv => NoTimeTravel
  BY DEF LeadInv
<1> QED
  BY <1>1, LeadInit, LeadStep, PTL DEF Spec

-----------------------------------------------------------------------------

(***************************************************************************)
(* No step but a store to IF or the dispatch of its own vector clears a    *)
(* request bit.                                                            *)
(***************************************************************************)
THEOREM RequestsAreKept == Spec => NoLostRequest
<1> DEFINE Kept == "IF" \notin StackOver =>
             \A b \in iflag \ iflag' : StoreIF \/ (cpu = "top" /\ pc' = b)
<1>1. ASSUME Next PROVE Kept
  <2>1. CASE Dispatch
    <3>1. SUFFICES ASSUME "IF" \notin StackOver, NEW b \in iflag \ iflag' PROVE pc' = b
      BY <2>1 DEF Dispatch
    <3>2. PICK newIe, newIf \in SUBSET Bits :
            /\ Pushed(newIe, newIf)
            /\ \/ iflag' = newIf
               \/ \E c \in Highest(Pending \cap Vectored) : pc' = c /\ iflag' = newIf \ {c}
      BY <2>1 DEF Dispatch
    <3>3. newIf = iflag
      BY <3>1, <3>2 DEF Pushed
    <3> QED
      BY <3>1, <3>2, <3>3
  <2>2. ASSUME NEW p \in Devices, Activate(p) PROVE Kept
    BY <2>2 DEF Activate
  <2>3. CASE StoreIF
    BY <2>3
  <2>4. CASE NoInterrupt \/ Plain \/ EnableInterrupts \/ DisableInterrupts \/ StoreIE
             \/ StartDevice \/ Halt \/ HaltPoll \/ RunAhead \/ Sync \/ Resume \/ Advance
    <3>1. iflag' = iflag
      BY <2>4 DEF NoInterrupt, Plain, EnableInterrupts, DisableInterrupts, StoreIE, StartDevice,
                  Halt, HaltPoll, RunAhead, Sync, Resume, Advance, Elapse, intrVars
    <3> QED
      BY <3>1
  <2> QED
    BY <1>1, <2>1, <2>2, <2>3, <2>4 DEF Next, CpuStep
<1>2. [Next]_vars => [Kept]_vars
  BY <1>1
<1> QED
  BY <1>2, PTL DEF Spec, NoLostRequest

-----------------------------------------------------------------------------

(***************************************************************************)
(* The refinement of LockStep, for programs without HALT that start no     *)
(* one-shot process.  Besides NoTimeTravel it needs that a wait() in       *)
(* progress is no longer than the earliest process allows, but for the     *)
(* time of the last instruction.                                           *)
(***************************************************************************)
DecouplingInv ==
  /\ LeadInv
  /\ cpu \notin {"halt", "yield"}
  /\ cpu = "tail" => spent > 0 /\ (lead > 0 => \A p \in armed : due[p] > lead)
  /\ cpu = "wait" => \A p \in armed : cpuDue <= due[p] + spent

LEMMA DecouplingInit == Init => DecouplingInv
BY LeadInit, TypeInit DEF Init, DecouplingInv, TypeOK

LEMMA DecouplingStep ==
  ASSUME "halt" \notin Ops, "start" \notin Ops
  PROVE  DecouplingInv /\ [Next]_vars => DecouplingInv'
<1> SUFFICES ASSUME DecouplingInv, [Next]_vars PROVE DecouplingInv'
  OBVIOUS
<1>0. LeadInv /\ LeadInv' /\ TypeOK /\ TypeOK'
  BY LeadStep DEF DecouplingInv, LeadInv
<1>1. CASE NoInterrupt \/ Dispatch
  BY <1>0, <1>1 DEF DecouplingInv, NoInterrupt, Dispatch
<1>2. CASE Plain \/ EnableInterrupts \/ DisableInterrupts \/ StoreIF \/ StoreIE
  <2>1. /\ cpu = "exec" /\ cpu' = "tail" /\ spent' \in Costs
        /\ UNCHANGED <<lead, armed, due>>
    BY <1>2 DEF Plain, EnableInterrupts, DisableInterrupts, StoreIF, StoreIE, Execute, devVars
  <2> QED
    BY <1>0, <2>1 DEF DecouplingInv, LeadInv, NoTimeTravel
<1>3. ~StartDevice /\ ~Halt /\ ~HaltPoll
  BY DEF DecouplingInv, StartDevice, Execute, Halt, HaltPoll
<1>4. CASE RunAhead \/ Resume
  BY <1>0, <1>4 DEF DecouplingInv, RunAhead, Resume
<1>5. CASE Sync
  <2>1. /\ cpu = "tail" /\ cpu' = "wait" /\ cpuDue' = lead + spent
        /\ UNCHANGED <<spent, armed, due>>
    BY <1>0, <1>5 DEF DecouplingInv, Sync, devVars, TypeOK
  <2>2. \A p \in armed : due[p] \in Nat /\ (lead = 0 \/ due[p] > lead)
    BY <1>0, <2>1 DEF DecouplingInv, TypeOK
  <2> QED
    BY <1>0, <2>1, <2>2 DEF DecouplingInv, TypeOK
<1>6. CASE Advance
  <2>1. PICK d \in {cpuDue} \cup {due[p] : p \in armed} : Elapse(d)
    BY <1>6 DEF Advance
  <2>2. /\ cpu = "wait" /\ d \in Nat /\ cpuDue' = cpuDue - d
        /\ UNCHANGED <<cpu, spent, lead, armed>>
        /\ \A p \in armed : due'[p] = due[p] - d /\ due[p] \in Nat
    BY <1>0, <2>1 DEF Elapse, DecouplingInv, TypeOK
  <2> QED
    BY <1>0, <2>2 DEF DecouplingInv, TypeOK
<1>7. ASSUME NEW p \in Devices, Activate(p) PROVE DecouplingInv'
  <2>1. /\ cpu = "wait" /\ p \in armed /\ due[p] = 0 /\ cpuDue <= spent
        /\ UNCHANGED <<cpu, spent, lead, cpuDue>>
    BY <1>0, <1>7 DEF Activate, Sleeping, DecouplingInv, timeVars, TypeOK
  <2>2. \A q \in armed' : cpuDue' <= due'[q] + spent'
    BY <1>0, <2>1 DEF TypeOK
  <2> QED
    BY <1>0, <2>1, <2>2 DEF DecouplingInv
<1>8. CASE UNCHANGED vars
  BY <1>0, <1>8 DEF DecouplingInv, vars
<1> QED
  BY <1>1, <1>2, <1>3, <1>4, <1>5, <1>6, <1>7, <1>8 DEF Next, CpuStep

(***************************************************************************)
(* A process that becomes due while the CPU waits is overtaken by at most  *)
(* one instruction.                                                        *)
(***************************************************************************)
THEOREM AtMostOneInstructionLate ==
  ASSUME "halt" \notin Ops, "start" \notin Ops
  PROVE  Spec => []LateByOneInstruction
<1>1. DecouplingInv => LateByOneInstruction
  BY DEF DecouplingInv, LateByOneInstruction, LeadInv, TypeOK
<1> QED
  BY <1>1, DecouplingInit, DecouplingStep, PTL DEF Spec

(* Each kind of step of MachineCycle as a step of LockStep. *)

LEMMA LookSimulated ==
  ASSUME DecouplingInv, NoInterrupt \/ Dispatch
  PROVE  LS!Look
<1>0. TypeOK
  BY DEF DecouplingInv, LeadInv
<1>1. cpu = "top" /\ cpu' = "exec" /\ UNCHANGED <<lead, cpuDue, armed, due>>
  BY DEF NoInterrupt, Dispatch, devVars
<1>2. absPhase = "look" /\ absPhase' = "run" /\ UNCHANGED <<absCpuDue, armed, absDue>>
  BY <1>1 DEF absPhase, absCpuDue, absDue, Behind
<1>3. CASE NoInterrupt
  BY <1>2, <1>3 DEF NoInterrupt, Pending, intrVars, LS!Look, LS!intr
<1>4. CASE Dispatch
  <2>1. PICK newIe, newIf \in SUBSET Bits :
          /\ Pushed(newIe, newIf)
          /\ ie' = newIe
          /\ \/ /\ Pending \cap Vectored = {}
                /\ iflag' = newIf
             \/ \E b \in Highest(Pending \cap Vectored) : iflag' = newIf \ {b}
    BY <1>4 DEF Dispatch
  <2>2. LS!Requested = Pending \cap Vectored
    BY <1>0, CpuAssumption DEF LS!Requested, Pending, Vectored, TypeOK
  <2>3. PICK served \in SUBSET LS!Requested :
          /\ (LS!Requested = {}) = (served = {})
          /\ \A b \in served, c \in LS!Requested : b <= c
          /\ iflag' = newIf \ served
    <3>1. CASE Pending \cap Vectored = {}
      <4>1. iflag' = newIf \ {}
        BY <2>1, <3>1 DEF Highest
      <4> QED
        BY <2>2, <3>1, <4>1
    <3>2. CASE Pending \cap Vectored # {}
      <4>1. PICK b \in Highest(Pending \cap Vectored) : iflag' = newIf \ {b}
        BY <2>1, <3>2
      <4> QED
        BY <2>2, <3>2, <4>1 DEF Highest
    <3> QED
      BY <3>1, <3>2
  <2>4. \/ ie' = ie /\ iflag' = iflag \ served
        \/ "IE" \in StackOver /\ ie' \in SUBSET Bits /\ iflag' = iflag \ served
        \/ "IF" \in StackOver /\ ie' = ie /\ \E byte \in SUBSET Bits : iflag' = byte \ served
    BY <2>1, <2>3 DEF Pushed
  <2>5. ime /\ ie \cap iflag # {} /\ ime' = FALSE
    BY <1>4 DEF Dispatch, Pending
  <2> QED
    BY <1>2, <2>3, <2>4, <2>5 DEF LS!Look
<1> QED
  BY <1>3, <1>4

LEMMA InstructionSimulated ==
  ASSUME DecouplingInv, Plain \/ EnableInterrupts \/ DisableInterrupts \/ StoreIF \/ StoreIE
  PROVE  LS!Instruction
<1>0. TypeOK
  BY DEF DecouplingInv, LeadInv
<1>1. /\ cpu = "exec" /\ cpu' = "tail" /\ spent' \in Costs
      /\ UNCHANGED <<lead, armed, due>>
  BY DEF Plain, EnableInterrupts, DisableInterrupts, StoreIF, StoreIE, Execute, devVars
<1>2. /\ absPhase = "run" /\ absPhase' = "sleep" /\ absCpuDue' \in Costs
      /\ UNCHANGED <<armed, absDue>>
  BY <1>1 DEF absPhase, absCpuDue, absDue, Behind
<1>3. \/ ime' \in BOOLEAN /\ UNCHANGED <<ie, iflag>>
      \/ ie' \in SUBSET Bits /\ UNCHANGED <<ime, iflag>>
      \/ iflag' \in SUBSET Bits /\ UNCHANGED <<ime, ie>>
  BY <1>0 DEF Plain, EnableInterrupts, DisableInterrupts, StoreIF, StoreIE, TypeOK
<1> QED
  BY <1>2, <1>3 DEF LS!Instruction

LEMMA RunAheadSimulated ==
  ASSUME DecouplingInv, RunAhead
  PROVE  LS!WakeUp
<1>0. TypeOK
  BY DEF DecouplingInv, LeadInv
<1>1. /\ cpu = "tail" /\ cpu' = "top" /\ lead' = lead + spent
      /\ \A p \in armed : ~(due[p] <= lead + spent)
      /\ UNCHANGED <<ime, ie, iflag, armed, due>>
  BY DEF RunAhead, MustSync, intrVars, devVars
<1>2. absPhase = "sleep" /\ absPhase' = "look" /\ absCpuDue = spent /\ absCpuDue' = 0
  BY <1>1 DEF absPhase, absCpuDue
<1>3. \A p \in armed : absDue[p] = due[p] - lead /\ spent <= absDue[p]
  BY <1>0, <1>1 DEF absDue, Behind, TypeOK
<1>4. absDue' = LS!After(absCpuDue)
  BY <1>0, <1>1, <1>2 DEF absDue, Behind, LS!After, TypeOK
<1> QED
  BY <1>1, <1>2, <1>3, <1>4 DEF LS!WakeUp, LS!NobodyDueBefore, LS!intr

LEMMA ResumeSimulated ==
  ASSUME DecouplingInv, Resume
  PROVE  LS!WakeUp
<1>0. TypeOK
  BY DEF DecouplingInv, LeadInv
<1>1. /\ cpu = "wait" /\ cpu' = "top" /\ cpuDue = 0 /\ lead = 0
      /\ UNCHANGED <<ime, ie, iflag, spent, lead, cpuDue, armed, due>>
  BY DEF Resume, DecouplingInv, LeadInv, intrVars, timeVars, devVars
<1>2. /\ absPhase = "sleep" /\ absPhase' = "look"
      /\ absCpuDue = 0 /\ absCpuDue' = 0
      /\ Behind = 0 /\ Behind' = 0
  BY <1>0, <1>1 DEF absPhase, absCpuDue, Behind, TypeOK
<1>3. \A p \in armed : 0 <= absDue[p]
  BY <1>0, <1>1, <1>2 DEF absDue, TypeOK
<1>4. absDue' = LS!After(0)
  BY <1>0, <1>1, <1>2 DEF absDue, LS!After, TypeOK
<1> QED
  BY <1>1, <1>2, <1>3, <1>4 DEF LS!WakeUp, LS!NobodyDueBefore, LS!intr

LEMMA SyncSimulated ==
  ASSUME DecouplingInv, Sync
  PROVE  UNCHANGED LS!vars
<1>0. TypeOK
  BY DEF DecouplingInv, LeadInv
<1>1. /\ cpu = "tail" /\ cpu' = "wait" /\ cpuDue' = lead + spent /\ lead' = 0
      /\ UNCHANGED <<ime, ie, iflag, spent, armed, due>>
  BY <1>0 DEF Sync, DecouplingInv, intrVars, devVars, TypeOK
<1>2. Behind = 0 /\ Behind' = lead
  BY <1>0, <1>1 DEF Behind, TypeOK
<1>3. absPhase' = absPhase /\ absCpuDue' = absCpuDue
  BY <1>0, <1>1, <1>2 DEF absPhase, absCpuDue, TypeOK
<1>4. absDue' = absDue
  BY <1>0, <1>1, <1>2 DEF absDue, TypeOK
<1> QED
  BY <1>1, <1>3, <1>4 DEF LS!vars

(***************************************************************************)
(* While the CPU sleeps through the lead, LockStep has nothing left to do; *)
(* after that both sleep through the time of the last instruction.         *)
(***************************************************************************)
LEMMA AdvanceSimulated ==
  ASSUME DecouplingInv, Advance
  PROVE  UNCHANGED LS!vars \/ \E d \in 1 .. absCpuDue : LS!Wait(d)
<1>0. TypeOK
  BY DEF DecouplingInv, LeadInv
<1>1. PICK d \in {cpuDue} \cup {due[p] : p \in armed} : Elapse(d)
  BY DEF Advance
<1>2. /\ cpu = "wait" /\ lead = 0 /\ d > 0 /\ d <= cpuDue /\ d \in Nat
      /\ \A p \in armed : d <= due[p]
      /\ cpuDue' = cpuDue - d
      /\ due' = [p \in Devices |-> IF p \in armed THEN due[p] - d ELSE due[p]]
      /\ UNCHANGED <<cpu, ime, ie, iflag, spent, lead, armed>>
  BY <1>0, <1>1 DEF Elapse, DecouplingInv, LeadInv, TypeOK, intrVars
<1>3. absPhase = "sleep" /\ absPhase' = "sleep"
  BY <1>2 DEF absPhase
<1>4. CASE cpuDue - d >= spent
  <2>1. Behind' = Behind - d /\ Behind \in Nat /\ absCpuDue' = absCpuDue
    BY <1>0, <1>2, <1>4 DEF Behind, absCpuDue, TypeOK
  <2>2. absDue' = absDue
    BY <1>0, <1>2, <2>1 DEF absDue, TypeOK
  <2> QED
    BY <1>2, <1>3, <2>1, <2>2 DEF LS!vars
<1>5. CASE cpuDue - d < spent
  <2> DEFINE e == d - Behind
  <2>1. /\ Behind' = 0 /\ Behind \in Nat
        /\ absCpuDue = cpuDue - Behind /\ absCpuDue' = cpuDue - d
        /\ e \in 1 .. absCpuDue
    BY <1>0, <1>2, <1>5 DEF Behind, absCpuDue, TypeOK
  <2>2. \A p \in armed : absDue[p] = due[p] - Behind /\ e <= absDue[p]
    BY <1>0, <1>2, <2>1 DEF absDue, TypeOK
  <2>3. absDue' = LS!After(e)
    BY <1>0, <1>2, <2>1 DEF absDue, LS!After, TypeOK
  <2>4. absCpuDue' = absCpuDue - e
    BY <1>0, <1>2, <2>1 DEF TypeOK
  <2>5. LS!Wait(e)
    BY <1>2, <1>3, <2>1, <2>2, <2>3, <2>4 DEF LS!Wait, LS!NobodyDueBefore, LS!intr
  <2> QED
    BY <2>1, <2>5
<1> QED
  BY <1>0, <1>2, <1>4, <1>5 DEF TypeOK

LEMMA ActivateSimulated ==
  ASSUME DecouplingInv, NEW p \in Devices, Activate(p)
  PROVE  LS!Activate(p)
<1>0. TypeOK
  BY DEF DecouplingInv, LeadInv
<1>1. /\ cpu = "wait" /\ lead = 0 /\ p \in armed /\ due[p] = 0 /\ cpuDue <= spent
      /\ UNCHANGED <<cpu, ime, ie, spent, lead, cpuDue>>
  BY <1>0 DEF Activate, Sleeping, DecouplingInv, LeadInv, TypeOK, timeVars
<1>2. Behind = 0 /\ Behind' = 0 /\ absPhase = "sleep" /\ UNCHANGED <<absPhase, absCpuDue>>
  BY <1>0, <1>1 DEF Behind, absPhase, absCpuDue, TypeOK
<1>3. absDue = due /\ absDue' = due'
  <2>1. due' \in [Devices -> Nat]
    BY <1>0, TypeStep DEF Next, TypeOK
  <2> QED
    BY <1>0, <1>1, <1>2, <2>1 DEF absDue, TypeOK
<1> QED
  BY <1>1, <1>2, <1>3 DEF Activate, LS!Activate

(***************************************************************************)
(* local_time_delta_ is an optimisation and nothing else: for every set of *)
(* processes, every timing of theirs and every program without HALT that   *)
(* starts no one-shot process, DoMachineCycle behaves like a CPU that      *)
(* waits after every instruction.                                          *)
(***************************************************************************)
THEOREM DecouplingIsTransparent ==
  ASSUME "halt" \notin Ops, "start" \notin Ops
  PROVE  Spec => ImplementsLockStep
<1>1. Init => LS!Init
  BY DevicesAssumption DEF Init, LS!Init, absPhase, absCpuDue, absDue, Behind, DevicesAssumption
<1>2. DecouplingInv /\ [Next]_vars => [LS!Next]_(LS!vars)
  <2> SUFFICES ASSUME DecouplingInv, [Next]_vars PROVE LS!Next \/ UNCHANGED LS!vars
    OBVIOUS
  <2>1. CASE NoInterrupt \/ Dispatch
    BY <2>1, LookSimulated DEF LS!Next
  <2>2. CASE Plain \/ EnableInterrupts \/ DisableInterrupts \/ StoreIF \/ StoreIE
    BY <2>2, InstructionSimulated DEF LS!Next
  <2>3. ~StartDevice /\ ~Halt /\ ~HaltPoll
    BY DEF DecouplingInv, StartDevice, Execute, Halt, HaltPoll
  <2>4. CASE RunAhead
    BY <2>4, RunAheadSimulated DEF LS!Next
  <2>5. CASE Sync
    BY <2>5, SyncSimulated
  <2>6. CASE Resume
    BY <2>6, ResumeSimulated DEF LS!Next
  <2>7. CASE Advance
    BY <2>7, AdvanceSimulated DEF LS!Next
  <2>8. ASSUME NEW p \in Devices, Activate(p) PROVE LS!Next
    BY <2>8, ActivateSimulated DEF LS!Next
  <2>9. CASE UNCHANGED vars
    BY <2>9 DEF vars, LS!vars, absPhase, absCpuDue, absDue, Behind
  <2> QED
    BY <2>1, <2>2, <2>3, <2>4, <2>5, <2>6, <2>7, <2>8, <2>9 DEF Next, CpuStep
<1> QED
  BY <1>1, <1>2, DecouplingInit, DecouplingStep, PTL DEF Spec, LS!Spec, ImplementsLockStep
-----------------------------------------------------------------------------

(***************************************************************************)
(* Progress.  Time and the processes bring the CPU nearer to the top of    *)
(* its loop: what sleeps gets closer to its wake-up, and a process that    *)
(* was due has a wait in front of it or is not scheduled any more.         *)
(***************************************************************************)
LEMMA AdvanceNearer ==
  ASSUME TypeOK, Advance
  PROVE  Nearer /\ UNCHANGED <<cpu, ime, ie, iflag>>
<1>1. PICK d \in {cpuDue} \cup {due[p] : p \in armed} : Elapse(d)
  BY DEF Advance
<1>2. d \in Nat /\ d > 0 /\ cpuDue' = cpuDue - d /\ UNCHANGED <<cpu, ime, ie, iflag>>
  BY <1>1 DEF Elapse, TypeOK, intrVars
<1>3. cpuDue' < cpuDue
  BY <1>2 DEF TypeOK
<1>4. Distance' = Distance
  BY <1>2 DEF Distance
<1> QED
  BY <1>2, <1>3, <1>4 DEF Nearer

LEMMA ActivateNearer ==
  ASSUME TypeOK, NEW p \in Devices, Activate(p)
  PROVE  Nearer /\ UNCHANGED <<cpu, ime, ie>> /\ iflag \subseteq iflag'
<1>1. /\ p \in armed /\ due[p] = 0
      /\ iflag \subseteq iflag'
      /\ UNCHANGED <<cpu, ime, ie, cpuDue>>
  BY DEF Activate, timeVars
<1>2. p \in DueNow
  BY <1>1 DEF DueNow
<1>3. DueNow' \subseteq DueNow /\ p \notin DueNow'
  <2>1. CASE p \in OneShot
    BY <2>1 DEF Activate, DueNow
  <2>2. CASE p \notin OneShot
    <3>1. PICK w \in Waits[p] : due' = [due EXCEPT ![p] = w]
      BY <2>2 DEF Activate
    <3>2. w # 0
      BY <3>1
    <3>3. armed' = armed /\ due'[p] = w /\ \A q \in Devices \ {p} : due'[q] = due[q]
      BY <2>2, <3>1 DEF Activate, TypeOK
    <3> QED
      BY <3>2, <3>3 DEF DueNow, TypeOK
  <2> QED
    BY <2>1, <2>2
<1>4. Distance' = Distance
  BY <1>1 DEF Distance
<1> QED
  BY <1>1, <1>2, <1>3, <1>4 DEF Nearer

LEMMA CpuNearer ==
  ASSUME TypeOK, CpuStep
  PROVE  \/ cpu = "top" /\ (NoInterrupt \/ Dispatch)
         \/ cpu = "halt" /\ Pending = {} /\ HaltPoll
         \/ Nearer /\ (cpu = "halt" => cpu' = "tail")
<1> USE DEF Distance, Nearer
<1>1. CASE NoInterrupt \/ Dispatch
  BY <1>1 DEF NoInterrupt, Dispatch
<1>2. CASE Plain \/ EnableInterrupts \/ DisableInterrupts \/ StoreIF \/ StoreIE \/ StartDevice
  <2>1. cpu = "exec" /\ cpu' = "tail"
    BY <1>2 DEF Plain, EnableInterrupts, DisableInterrupts, StoreIF, StoreIE, StartDevice,
                Execute
  <2> QED
    BY <2>1
<1>3. CASE Halt \/ RunAhead \/ Sync \/ Resume
  BY <1>3 DEF Halt, RunAhead, Sync, Resume
<1>4. CASE HaltPoll
  BY <1>4 DEF HaltPoll
<1> QED
  BY <1>1, <1>2, <1>3, <1>4 DEF CpuStep

(***************************************************************************)
(* A pending interrupt with IME set: every step comes nearer to its        *)
(* dispatch, whatever the program and the processes do.                    *)
(***************************************************************************)
THEOREM DispatchComesNearer == Spec => NearerToDispatch
<1> DEFINE Closer == ime /\ Pending # {} => ~ime' \/ Pending' = {} \/ Nearer
<1>1. ASSUME TypeOK, Next PROVE Closer
  <2>1. CASE CpuStep
    <3>1. CASE cpu = "top" /\ (NoInterrupt \/ Dispatch)
      BY <3>1 DEF NoInterrupt, Dispatch
    <3> QED
      BY <1>1, <2>1, <3>1, CpuNearer
  <2>2. CASE Advance
    BY <1>1, <2>2, AdvanceNearer
  <2>3. ASSUME NEW p \in Devices, Activate(p) PROVE Closer
    BY <1>1, <2>3, ActivateNearer
  <2> QED
    BY <1>1, <2>1, <2>2, <2>3 DEF Next
<1>2. TypeOK /\ [Next]_vars => [Closer]_vars
  BY <1>1
<1> QED
  BY <1>2, TypeCorrect, PTL DEF Spec, NearerToDispatch

(***************************************************************************)
(* HALT with an enabled interrupt requested: the request stays and every   *)
(* step comes nearer to the poll that ends it.                             *)
(***************************************************************************)
THEOREM WakingComesNearer == Spec => NearerToWaking
<1> DEFINE Closer ==
      cpu = "halt" /\ Pending # {} => cpu' # "halt" \/ (Pending' # {} /\ Nearer)
<1>1. ASSUME TypeOK, Next PROVE Closer
  <2>1. CASE CpuStep
    BY <1>1, <2>1, CpuNearer
  <2>2. CASE Advance
    BY <1>1, <2>2, AdvanceNearer DEF Pending
  <2>3. ASSUME NEW p \in Devices, Activate(p) PROVE Closer
    BY <1>1, <2>3, ActivateNearer DEF Pending
  <2> QED
    BY <1>1, <2>1, <2>2, <2>3 DEF Next
<1>2. TypeOK /\ [Next]_vars => [Closer]_vars
  BY <1>1
<1> QED
  BY <1>2, TypeCorrect, PTL DEF Spec, NearerToWaking

-----------------------------------------------------------------------------
(***************************************************************************)
(* DoMachineCycle and InstrHalt: nothing that the CPU does moves another   *)
(* process's wake-up, and the kernel sleeps over none; a process that the  *)
(* program starts sleeps one of its own times.                             *)
(***************************************************************************)
THEOREM CpuLeavesProcesses == Spec => CpuKeepsProcesses
<1>1. Init => PR!Init
  BY DevicesAssumption DEF Init, PR!Init, DevicesAssumption
<1>2. TypeOK /\ [Next]_vars => [PR!Next]_(PR!vars)
  <2> SUFFICES ASSUME TypeOK, [Next]_vars PROVE PR!Next
    OBVIOUS
  <2>1. CASE StartDevice
    <3>1. PICK p \in OneShot \ armed : /\ armed' = armed \cup {p}
                                      /\ \E w \in Waits[p] : due' = [due EXCEPT ![p] = w]
      BY <2>1 DEF StartDevice
    <3>2. p \in Devices /\ UNCHANGED iflag
      BY <2>1 DEF StartDevice, DevicesAssumption
    <3> QED
      BY <3>1, <3>2 DEF PR!Next, PR!Start
  <2>2. CASE CpuStep /\ ~StartDevice
    <3>1. UNCHANGED <<armed, due>>
      BY <2>2 DEF CpuStep, NoInterrupt, Dispatch, Plain, EnableInterrupts, DisableInterrupts,
         StoreIF, StoreIE, Halt, HaltPoll, RunAhead, Sync, Resume, devVars
    <3> QED
      BY <3>1 DEF PR!Next, PR!Program
  <2>3. CASE Advance
    <3>1. PICK d \in {cpuDue} \cup {due[p] : p \in armed} : Elapse(d)
      BY <2>3 DEF Advance
    <3>2. CASE armed = {}
      <4>1. UNCHANGED <<armed, due>>
        BY <3>1, <3>2 DEF Elapse, TypeOK
      <4> QED
        BY <4>1 DEF PR!Next, PR!Program
    <3>3. ASSUME NEW q \in armed PROVE PR!Next
      <4>1. d \in Nat /\ d > 0 /\ d <= due[q] /\ due[q] \in Nat
        BY <3>1 DEF Elapse, TypeOK
      <4>2. d \in 1 .. due[q]
        BY <4>1
      <4> QED
        BY <3>1, <4>2 DEF Elapse, intrVars, PR!Next, PR!Elapse
    <3> QED
      BY <3>2, <3>3
  <2>4. ASSUME NEW p \in Devices, Activate(p) PROVE PR!Next
    BY <2>4 DEF Activate, PR!Next, PR!Activate
  <2>5. CASE UNCHANGED vars
    BY <2>5 DEF vars, PR!Next, PR!Program
  <2> QED
    BY <2>1, <2>2, <2>3, <2>4, <2>5 DEF Next
<1> QED
  BY <1>1, <1>2, TypeCorrect, PTL DEF Spec, PR!Spec, CpuKeepsProcesses
=============================================================================
