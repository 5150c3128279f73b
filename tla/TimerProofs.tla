----------------------------- MODULE TimerProofs -----------------------------
(***************************************************************************)
(* Theorems about Timer for every register width and every set of periods. *)
(***************************************************************************)
EXTENDS TimerRefinement, TLAPS

USE TimerAssumption DEF Reg

LEMMA TypeInit == Init => TypeOK
<1> SUFFICES ASSUME Init PROVE TypeOK
  OBVIOUS
<1>1. cyclesPerInc \in Nat \ {0}
  BY DEF Init
<1> QED
  BY <1>1 DEF Init, TypeOK

(* Counting wraps around within the register. *)
LEMMA CountInReg ==
  ASSUME NEW x \in Reg
  PROVE  /\ (x + 1) % (RegMax + 1) \in Reg
         /\ (x + 1) % (RegMax + 1) = IF x = RegMax THEN 0 ELSE x + 1
<1>1. CASE x = RegMax
  BY <1>1
<1>2. CASE x < RegMax
  BY <1>2
<1> QED
  BY <1>1, <1>2

LEMMA TypeStep == TypeOK /\ [Next]_vars => TypeOK'
<1> SUFFICES ASSUME TypeOK, [Next]_vars PROVE TypeOK'
  OBVIOUS
<1> USE DEF TypeOK, ghosts
<1>1. CASE DivLoop
  BY <1>1, CountInReg DEF DivLoop
<1>2. CASE TimerLoop
  <2>1. tima' \in Reg /\ timerIf' \in BOOLEAN /\ clean' \in BOOLEAN /\ since' \in Nat
    BY <1>2, CountInReg DEF TimerLoop, Count
  <2> QED
    BY <1>2, <2>1 DEF TimerLoop
<1>3. CASE Tick
  BY <1>3 DEF Tick, regs
<1>4. CASE WriteDiv \/ WriteTima \/ WriteTma
  <2>1. CASE WriteDiv
    BY <2>1 DEF WriteDiv
  <2>2. CASE WriteTima
    BY <2>2 DEF WriteTima, Written
  <2>3. CASE WriteTma
    BY <2>3 DEF WriteTma, Written
  <2> QED
    BY <1>4, <2>1, <2>2, <2>3
<1>5. CASE WriteTac
  <2>1. select' \in Select /\ cyclesPerInc' \in Nat \ {0}
    BY <1>5 DEF WriteTac
  <2> QED
    BY <1>5, <2>1 DEF WriteTac, Written
<1>6. CASE Acknowledge \/ Stop
  BY <1>6 DEF Acknowledge, Stop, regs
<1>7. CASE UNCHANGED vars
  BY <1>7 DEF vars, regs
<1> QED
  BY <1>1, <1>2, <1>3, <1>4, <1>5, <1>6, <1>7 DEF Next, Program

(***************************************************************************)
(* Timer: the registers keep their width, TIMA and DIV wrap around within  *)
(* it, and a period is never zero, whatever the program writes and when.   *)
(***************************************************************************)
THEOREM TimerTypeCorrect == Spec => []TypeOK
BY TypeInit, TypeStep, PTL DEF Spec

(***************************************************************************)
(* ExactPeriod is not inductive: that a count adds a whole period needs    *)
(* the thread to sleep no longer than the period, and that an untouched    *)
(* timer counts at all needs it to stay enabled.                           *)
(***************************************************************************)
PeriodInv ==
  /\ TypeOK
  /\ ExactPeriod
  /\ clean => enable /\ timDue <= cyclesPerInc

LEMMA PeriodStep == PeriodInv /\ [Next]_vars => PeriodInv'
<1> SUFFICES ASSUME PeriodInv, [Next]_vars PROVE PeriodInv'
  OBVIOUS
<1>0. TypeOK /\ TypeOK'
  BY TypeStep DEF PeriodInv
<1> USE DEF PeriodInv, ExactPeriod, ghosts
<1>1. CASE TimerLoop
  <2>1. /\ timDue = 0 /\ timDue' = cyclesPerInc
        /\ UNCHANGED <<tma, enable, cyclesPerInc>>
    BY <1>1 DEF TimerLoop
  <2>2. CASE enable /\ tima = RegMax
    <3>1. tima' = tma /\ clean' = TRUE /\ since' = 0
      BY <1>0, <1>1, <2>2, CountInReg DEF TimerLoop, Count, TypeOK
    <3> QED
      BY <1>0, <2>1, <2>2, <3>1 DEF TypeOK
  <2>3. CASE enable /\ tima # RegMax
    <3>1. tima' = tima + 1 /\ UNCHANGED <<clean, since>>
      BY <1>0, <1>1, <2>3, CountInReg DEF TimerLoop, Count, TypeOK
    <3>2. (tima + 1 - tma) * cyclesPerInc = (tima - tma) * cyclesPerInc + cyclesPerInc
      BY <1>0 DEF TypeOK
    <3> QED
      BY <1>0, <2>1, <2>3, <3>1, <3>2 DEF TypeOK
  <2>4. CASE ~enable
    BY <1>0, <1>1, <2>1, <2>4 DEF TimerLoop
  <2> QED
    BY <2>2, <2>3, <2>4
<1>2. CASE Tick
  <2>1. UNCHANGED <<tima, tma, cyclesPerInc, enable, clean>> /\ timDue' = timDue - 1
    BY <1>2 DEF Tick, regs
  <2>2. clean => since' = since + 1
    BY <1>2 DEF Tick
  <2>3. (tima - tma) * cyclesPerInc \in Int
    BY <1>0 DEF TypeOK
  <2> QED
    BY <1>0, <2>1, <2>2, <2>3 DEF TypeOK
<1>3. CASE WriteTima \/ WriteTma \/ WriteTac
  BY <1>0, <1>3 DEF WriteTima, WriteTma, WriteTac, Written
<1>4. CASE DivLoop \/ WriteDiv \/ Acknowledge \/ Stop \/ UNCHANGED vars
  <2>1. UNCHANGED <<tima, tma, cyclesPerInc, enable, timDue, clean, since>>
    BY <1>4 DEF DivLoop, WriteDiv, Acknowledge, Stop, vars, regs
  <2> QED
    BY <1>0, <2>1
<1> QED
  BY <1>1, <1>2, <1>3, <1>4 DEF Next, Program

(***************************************************************************)
(* The overflows of an untouched timer are exactly RegMax + 1 - TMA        *)
(* periods apart, for every register width and every period.               *)
(***************************************************************************)
THEOREM TimerIsExact == Spec => []ExactPeriod
<1>1. Init => PeriodInv
  BY TypeInit DEF Init, PeriodInv, ExactPeriod
<1>2. PeriodInv => ExactPeriod
  BY DEF PeriodInv
<1> QED
  BY <1>1, <1>2, PeriodStep, PTL DEF Spec

-----------------------------------------------------------------------------
(* Timer implements Countdown. *)

(* The divider's thread sleeps no longer than one increment takes. *)
DivInv == TypeOK /\ divDue <= DivCycles

LEMMA DivStepInv == DivInv /\ [Next]_vars => DivInv'
<1> SUFFICES ASSUME DivInv, [Next]_vars PROVE DivInv'
  OBVIOUS
<1>1. TypeOK /\ TypeOK'
  BY TypeStep DEF DivInv
<1>2. divDue' \in {divDue, divDue - 1, DivCycles}
  BY DEF Next, DivLoop, TimerLoop, Tick, Program, WriteDiv, WriteTima, WriteTma, WriteTac,
         Written, Acknowledge, Stop, vars
<1> QED
  BY <1>1, <1>2 DEF DivInv, TypeOK

(* Whole counts in cycles. *)
LEMMA Times ==
  ASSUME NEW c \in Nat \ {0}
  PROVE  /\ \A n \in Nat : n * c \in Nat /\ (n + 1) * c = n * c + c
         /\ \A n \in Nat \ {0} : n * c \in Nat \ {0}
<1>1. \A n \in Nat : n * c \in Nat /\ (n + 1) * c = n * c + c
  OBVIOUS
<1>2. ASSUME NEW n \in Nat \ {0} PROVE n * c \in Nat \ {0}
  <2>1. n - 1 \in Nat /\ (n - 1) * c \in Nat /\ n * c = (n - 1) * c + c
    BY <1>1
  <2> QED
    BY <2>1
<1> QED
  BY <1>1, <1>2

LEMMA CountdownTypes ==
  TypeOK => absLeft \in Nat /\ absReload \in Nat \ {0} /\ absDivLeft \in Nat
<1> SUFFICES ASSUME TypeOK
             PROVE  absLeft \in Nat /\ absReload \in Nat \ {0} /\ absDivLeft \in Nat
  OBVIOUS
<1>1. /\ RegMax - tima \in Nat /\ RegMax - div \in Nat /\ RegMax + 1 - tma \in Nat \ {0}
      /\ timDue \in Nat /\ divDue \in Nat
  BY DEF TypeOK
<1>2. /\ (RegMax - tima) * cyclesPerInc \in Nat
      /\ (RegMax + 1 - tma) * cyclesPerInc \in Nat \ {0}
  BY <1>1, Times DEF TypeOK
<1>3. (RegMax - div) * DivCycles \in Nat
  BY <1>1, Times
<1> QED
  BY <1>1, <1>2, <1>3 DEF absLeft, absReload, absDivLeft

LEMMA CountdownInit == Init => CD!Init
<1> SUFFICES ASSUME Init PROVE CD!Init
  OBVIOUS
<1>1. TypeOK /\ absLeft \in Nat /\ absReload \in Nat \ {0} /\ absDivLeft \in Nat
  BY TypeInit, CountdownTypes
<1>2. absDivLeft <= (RegMax + 1) * DivCycles
  <2>1. RegMax - div \in Nat /\ div \in Nat /\ divDue = DivCycles
    BY DEF Init
  <2>2. (RegMax - div) * DivCycles + div * DivCycles = RegMax * DivCycles
    BY <2>1
  <2>3. (RegMax + 1) * DivCycles = RegMax * DivCycles + DivCycles
    BY Times
  <2>4. div * DivCycles \in Nat /\ (RegMax - div) * DivCycles \in Nat /\ RegMax * DivCycles \in Nat
    BY <2>1, Times
  <2> QED
    BY <2>1, <2>2, <2>3, <2>4 DEF absDivLeft
<1>3. (RegMax + 1) * DivCycles \in Nat
  BY Times
<1> QED
  BY <1>1, <1>2, <1>3 DEF Init, CD!Init

(* An increment of DIV is invisible, unless DIV wraps around. *)
LEMMA DivLoopSimulated ==
  ASSUME TypeOK, DivLoop PROVE CD!DivWraps \/ UNCHANGED CD!vars
<1>0. /\ div \in Reg /\ divDue = 0 /\ divDue' = DivCycles
      /\ div' = IF div = RegMax THEN 0 ELSE div + 1
      /\ UNCHANGED <<tima, tma, enable, cyclesPerInc, timerIf, timDue>>
  BY CountInReg DEF DivLoop, TypeOK
<1>1. UNCHANGED <<enable, absLeft, absReload, timerIf>>
  BY <1>0 DEF absLeft, absReload
<1>2. CASE div = RegMax
  <2>1. absDivLeft = 0
    BY <1>0, <1>2 DEF absDivLeft
  <2>2. absDivLeft' = (RegMax + 1) * DivCycles
    BY <1>0, <1>2, Times DEF absDivLeft
  <2> QED
    BY <1>1, <2>1, <2>2 DEF CD!DivWraps
<1>3. CASE div < RegMax
  <2>1. RegMax - (div + 1) \in Nat /\ (RegMax - (div + 1)) + 1 = RegMax - div
    BY <1>0, <1>3
  <2>2. (RegMax - div) * DivCycles = (RegMax - (div + 1)) * DivCycles + DivCycles
    BY <2>1, Times
  <2>3. absDivLeft' = absDivLeft
    BY <1>0, <1>3, <2>2 DEF absDivLeft
  <2> QED
    BY <1>1, <2>3 DEF CD!vars
<1> QED
  BY <1>0, <1>2, <1>3

(* So is a count of TIMA, unless it overflows. *)
LEMMA TimerLoopSimulated ==
  ASSUME TypeOK, TimerLoop PROVE CD!Expire \/ UNCHANGED CD!vars
<1>0. /\ tima \in Reg /\ timDue = 0 /\ timDue' = cyclesPerInc
      /\ UNCHANGED <<div, tma, enable, cyclesPerInc, divDue>>
  BY DEF TimerLoop, TypeOK
<1>1. UNCHANGED <<enable, absReload, absDivLeft>>
  BY <1>0 DEF absReload, absDivLeft
<1>2. CASE ~enable
  BY <1>0, <1>1, <1>2 DEF TimerLoop, absLeft, CD!vars
<1>3. CASE enable /\ tima = RegMax
  <2>1. tima' = tma /\ timerIf' = TRUE
    BY <1>0, <1>3, CountInReg DEF TimerLoop, Count
  <2>2. absLeft = 0
    BY <1>0, <1>3, Times DEF absLeft, TypeOK
  <2>3. RegMax - tma \in Nat /\ cyclesPerInc \in Nat \ {0}
    BY DEF TypeOK
  <2>4. (RegMax - tma + 1) * cyclesPerInc = (RegMax - tma) * cyclesPerInc + cyclesPerInc
    BY <2>3, Times
  <2>5. RegMax - tma + 1 = RegMax + 1 - tma
    BY <2>3 DEF TypeOK
  <2>6. absLeft' = absReload
    BY <1>0, <1>3, <2>1, <2>4, <2>5 DEF absLeft, absReload
  <2> QED
    BY <1>1, <1>3, <2>1, <2>2, <2>6 DEF CD!Expire
<1>4. CASE enable /\ tima < RegMax
  <2>1. tima' = tima + 1 /\ timerIf' = timerIf
    BY <1>0, <1>4, CountInReg DEF TimerLoop, Count
  <2>2. /\ RegMax - (tima + 1) \in Nat /\ (RegMax - (tima + 1)) + 1 = RegMax - tima
        /\ cyclesPerInc \in Nat \ {0}
    BY <1>0, <1>4 DEF TypeOK
  <2>3. /\ (RegMax - tima) * cyclesPerInc = (RegMax - (tima + 1)) * cyclesPerInc + cyclesPerInc
        /\ (RegMax - (tima + 1)) * cyclesPerInc \in Nat
    BY <2>2, Times
  <2>4. absLeft' = absLeft
    BY <1>0, <1>4, <2>1, <2>2, <2>3 DEF absLeft
  <2> QED
    BY <1>1, <2>1, <2>4 DEF CD!vars
<1> QED
  BY <1>0, <1>2, <1>3, <1>4

LEMMA TickSimulated == ASSUME TypeOK, Tick PROVE CD!Elapse
<1>0. /\ divDue > 0 /\ divDue' = divDue - 1 /\ timDue > 0 /\ timDue' = timDue - 1
      /\ UNCHANGED <<div, tima, tma, enable, cyclesPerInc, timerIf>>
      /\ divDue \in Nat /\ timDue \in Nat
  BY DEF Tick, regs, TypeOK
<1>1. /\ RegMax - tima \in Nat /\ RegMax - div \in Nat /\ cyclesPerInc \in Nat \ {0}
  BY DEF TypeOK
<1>2. (RegMax - tima) * cyclesPerInc \in Nat /\ (RegMax - div) * DivCycles \in Nat
  BY <1>1, Times
<1>3. absDivLeft > 0 /\ absDivLeft' = absDivLeft - 1
  BY <1>0, <1>2 DEF absDivLeft
<1>4. IF enable THEN absLeft > 0 /\ absLeft' = absLeft - 1 ELSE absLeft' = absLeft
  BY <1>0, <1>2 DEF absLeft
<1>5. absReload' = absReload
  BY <1>0 DEF absReload
<1> QED
  BY <1>0, <1>3, <1>4, <1>5 DEF CD!Elapse

LEMMA ProgramSimulated == ASSUME DivInv, TypeOK', Program PROVE CD!Next \/ UNCHANGED CD!vars
<1>0. absLeft' \in Nat /\ absReload' \in Nat \ {0} /\ absDivLeft' \in Nat
  <2>1. TypeOK' => (absLeft \in Nat /\ absReload \in Nat \ {0} /\ absDivLeft \in Nat)'
    BY CountdownTypes, PTL
  <2> QED
    BY <2>1
<1>1. CASE WriteDiv
  <2>1. UNCHANGED <<enable, absLeft, absReload, timerIf>>
    BY <1>1 DEF WriteDiv, absLeft, absReload
  <2>2. absDivLeft' = RegMax * DivCycles + divDue
    BY <1>1 DEF WriteDiv, absDivLeft
  <2>3. /\ (RegMax + 1) * DivCycles = RegMax * DivCycles + DivCycles
        /\ RegMax * DivCycles \in Nat
    BY Times
  <2>4. divDue \in Nat /\ divDue <= DivCycles
    BY DEF DivInv, TypeOK
  <2>5. CD!ResetDiv
    BY <2>1, <2>2, <2>3, <2>4 DEF CD!ResetDiv
  <2> QED
    BY <2>5 DEF CD!Next
<1>2. CASE WriteTima
  <2>1. CD!SetCount
    BY <1>0, <1>2 DEF WriteTima, Written, CD!SetCount, absReload, absDivLeft
  <2> QED
    BY <2>1 DEF CD!Next
<1>3. CASE WriteTma
  <2>1. CD!SetModulo
    BY <1>0, <1>3 DEF WriteTma, Written, CD!SetModulo, absLeft, absDivLeft
  <2> QED
    BY <2>1 DEF CD!Next
<1>4. CASE WriteTac
  <2>1. CD!SetControl
    BY <1>0, <1>4 DEF WriteTac, Written, CD!SetControl, absDivLeft
  <2> QED
    BY <2>1 DEF CD!Next
<1>5. CASE Acknowledge
  <2>1. CD!Acknowledge
    BY <1>5 DEF Acknowledge, regs, CD!Acknowledge, absLeft, absReload, absDivLeft
  <2> QED
    BY <2>1 DEF CD!Next
<1>6. CASE Stop
  BY <1>6 DEF Stop, regs, CD!vars, absLeft, absReload, absDivLeft
<1> QED
  BY <1>1, <1>2, <1>3, <1>4, <1>5, <1>6 DEF Program

(***************************************************************************)
(* Timer: two threads that wake now and then, and look at the registers    *)
(* only then, keep the time of a counter of cycles: from any write on, the *)
(* next interrupt comes when the countdown is over and not before, for any *)
(* register width and any periods.                                         *)
(***************************************************************************)
THEOREM TimerCountsDown == Spec => ImplementsCountdown
<1>1. Init => CD!Init
  BY CountdownInit
<1>2. DivInv /\ TypeOK' /\ [Next]_vars => [CD!Next]_(CD!vars)
  <2> SUFFICES ASSUME DivInv, TypeOK', [Next]_vars PROVE CD!Next \/ UNCHANGED CD!vars
    OBVIOUS
  <2>1. TypeOK
    BY DEF DivInv
  <2>2. CASE DivLoop
    BY <2>1, <2>2, DivLoopSimulated DEF CD!Next
  <2>3. CASE TimerLoop
    BY <2>1, <2>3, TimerLoopSimulated DEF CD!Next
  <2>4. CASE Tick
    BY <2>1, <2>4, TickSimulated DEF CD!Next
  <2>5. CASE Program
    BY <2>5, ProgramSimulated
  <2>6. CASE UNCHANGED vars
    BY <2>6 DEF vars, regs, CD!vars, absLeft, absReload, absDivLeft
  <2> QED
    BY <2>2, <2>3, <2>4, <2>5, <2>6 DEF Next
<1>3. Init => DivInv
  BY TypeInit DEF Init, DivInv
<1> QED
  BY <1>1, <1>2, <1>3, DivStepInv, TimerTypeCorrect, PTL DEF Spec, ImplementsCountdown, CD!Spec

(***************************************************************************)
(* Progress: a halted program with a running timer gets its interrupt      *)
(* after finitely many steps, because each of them brings it nearer.       *)
(***************************************************************************)
THEOREM InterruptComesNearer == Spec => NearerToInterrupt
<1> DEFINE Shorter == absLeft' < absLeft
           Sooner  == absLeft' = absLeft /\ DueLoops' \subseteq DueLoops /\ DueLoops' # DueLoops
           Closer  == halted /\ enable /\ ~timerIf => timerIf' \/ Shorter \/ Sooner
<1>1. ASSUME TypeOK, Next PROVE Closer
  <2> SUFFICES ASSUME halted, enable PROVE timerIf' \/ Shorter \/ Sooner
    OBVIOUS
  <2>1. CASE DivLoop
    <3>1. "DivLoop" \in DueLoops /\ "DivLoop" \notin DueLoops' /\ timDue' = timDue
      BY <2>1 DEF DivLoop, DueLoops
    <3>2. absLeft' = absLeft
      BY <2>1 DEF DivLoop, absLeft
    <3> QED
      BY <3>1, <3>2 DEF DueLoops
  <2>2. CASE TimerLoop
    <3>1. "TimerLoop" \in DueLoops /\ "TimerLoop" \notin DueLoops' /\ divDue' = divDue
      BY <1>1, <2>2 DEF TimerLoop, DueLoops, TypeOK
    <3>2. CASE CD!Expire
      BY <3>2 DEF CD!Expire
    <3>3. CASE UNCHANGED CD!vars
      BY <3>1, <3>3 DEF CD!vars, DueLoops
    <3> QED
      BY <1>1, <2>2, <3>2, <3>3, TimerLoopSimulated
  <2>3. CASE Tick
    <3>1. absLeft' = absLeft - 1
      BY <1>1, <2>3, TickSimulated DEF CD!Elapse
    <3> QED
      BY <1>1, <3>1, CountdownTypes
  <2>4. CASE Program
    BY <2>4 DEF Program, WriteDiv, WriteTima, WriteTma, WriteTac, Written, Acknowledge, Stop
  <2> QED
    BY <1>1, <2>1, <2>2, <2>3, <2>4 DEF Next
<1>2. TypeOK /\ [Next]_vars => [Closer]_vars
  BY <1>1
<1> QED
  BY <1>2, TimerTypeCorrect, PTL DEF Spec, NearerToInterrupt

-----------------------------------------------------------------------------
(* The threads are processes as MachineCycle assumes them. *)

(* A thread's next wait is the period of some value of TAC. *)
ThreadInv == TypeOK /\ \E s \in Select : cyclesPerInc = CyclesOf[s]

LEMMA ThreadStep == ThreadInv /\ [Next]_vars => ThreadInv'
<1> SUFFICES ASSUME ThreadInv, [Next]_vars PROVE ThreadInv'
  OBVIOUS
<1>1. cyclesPerInc' = cyclesPerInc \/ \E s \in Select : cyclesPerInc' = CyclesOf[s]
  BY DEF Next, DivLoop, TimerLoop, Tick, Program, WriteDiv, WriteTima, WriteTma, WriteTac,
     Written, Acknowledge, Stop, vars, regs, ThreadInv, TypeOK
<1> QED
  BY <1>1, TypeStep DEF ThreadInv

(***************************************************************************)
(* Timer::TimerLoop and Timer::DivLoop: each sleeps for a period of its    *)
(* own, from the first wait on, raises no interrupt but the timer's and    *)
(* that only when it wakes; no write to a register moves a wake-up.        *)
(***************************************************************************)
THEOREM ThreadsKeepTheirWaits == Spec => ThreadsAreProcesses
<1> DEFINE d == "DivLoop"
           t == "TimerLoop"
<1>0. d \in Threads /\ t \in Threads /\ Threads = {d, t} /\ d # t
  BY DEF Threads
<1>1. Init => PR!Init
  <2> SUFFICES ASSUME Init PROVE PR!Init
    OBVIOUS
  <2>1. ThreadDue \in [Threads -> Nat]
    BY TypeInit DEF ThreadDue, TypeOK
  <2>2. \A p \in Threads : ThreadDue[p] = ThreadFirst[p]
    BY DEF Init, ThreadDue, ThreadFirst
  <2> QED
    BY <2>1, <2>2 DEF PR!Init
<1>2. ThreadInv /\ [Next]_vars => [PR!Next]_(PR!vars)
  <2> SUFFICES ASSUME ThreadInv, [Next]_vars PROVE PR!Next
    OBVIOUS
  <2>0. TypeOK
    BY DEF ThreadInv
  <2>1. CASE DivLoop
    <3>1. /\ ThreadDue[d] = 0 /\ ThreadDue' = [ThreadDue EXCEPT ![d] = DivCycles]
          /\ DivCycles \in ThreadWaits[d]
      BY <2>1 DEF DivLoop, ThreadDue, ThreadWaits, Threads
    <3>2. {} \in SUBSET ThreadRaises[d] /\ Requested' = Requested \cup {}
      BY <2>1 DEF DivLoop, Requested
    <3> QED
      BY <1>0, <3>1, <3>2 DEF PR!Next, PR!Activate
  <2>2. CASE TimerLoop
    <3>1. /\ ThreadDue[t] = 0 /\ ThreadDue' = [ThreadDue EXCEPT ![t] = cyclesPerInc]
          /\ cyclesPerInc \in ThreadWaits[t]
      BY <2>2 DEF TimerLoop, ThreadDue, ThreadWaits, Threads, ThreadInv
    <3>2. timerIf' = timerIf \/ timerIf' = TRUE
      BY <2>2 DEF TimerLoop, Count
    <3>3. ThreadRaises[t] = {TimerIf}
      BY DEF ThreadRaises, Threads
    <3>4. \E raised \in SUBSET ThreadRaises[t] : Requested' = Requested \cup raised
      <4>1. CASE timerIf' = timerIf
        BY <3>3, <4>1 DEF Requested
      <4>2. CASE timerIf' = TRUE
        <5>1. Requested' = Requested \cup {TimerIf}
          BY <4>2 DEF Requested
        <5> QED
          BY <3>3, <5>1
      <4> QED
        BY <3>2, <4>1, <4>2
    <3> QED
      BY <1>0, <3>1, <3>4 DEF PR!Next, PR!Activate
  <2>3. CASE Tick
    <3>1. 1 \in 1 .. ThreadDue[d] /\ \A p \in Threads : 1 <= ThreadDue[p]
      BY <2>0, <2>3 DEF Tick, ThreadDue, Threads, TypeOK
    <3>2. ThreadDue' = [p \in Threads |-> IF p \in Threads THEN ThreadDue[p] - 1 ELSE ThreadDue[p]]
      BY <2>3 DEF Tick, ThreadDue
    <3>3. UNCHANGED Requested
      BY <2>3 DEF Tick, Requested
    <3> QED
      BY <1>0, <3>1, <3>2, <3>3 DEF PR!Next, PR!Elapse
  <2>4. CASE Program \/ UNCHANGED vars
    <3>1. UNCHANGED <<divDue, timDue>>
      BY <2>4 DEF Program, WriteDiv, WriteTima, WriteTma, WriteTac, Written, Acknowledge, Stop, vars
    <3> QED
      BY <3>1 DEF PR!Next, PR!Program, ThreadDue
  <2> QED
    BY <2>1, <2>2, <2>3, <2>4 DEF Next
<1>3. Init => ThreadInv
  BY TypeInit DEF Init, ThreadInv
<1> QED
  BY <1>1, <1>2, <1>3, ThreadStep, PTL DEF Spec, PR!Spec, ThreadsAreProcesses
=============================================================================
