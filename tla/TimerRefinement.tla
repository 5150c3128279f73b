--------------------------- MODULE TimerRefinement ---------------------------
(***************************************************************************)
(* Timer implements Countdown: what is left of a countdown is the counts   *)
(* still missing, in cycles of the selected period, and the rest of the    *)
(* wait that the thread has already begun, whatever its length was.        *)
(***************************************************************************)
EXTENDS Timer

absLeft == IF enable THEN (RegMax - tima) * cyclesPerInc + timDue ELSE 0
absReload == (RegMax + 1 - tma) * cyclesPerInc
absDivLeft == (RegMax - div) * DivCycles + divDue

CD == INSTANCE Countdown WITH
        DivPeriod <- (RegMax + 1) * DivCycles, DivStep <- DivCycles,
        running <- enable, left <- absLeft, reload <- absReload, irq <- timerIf,
        divLeft <- absDivLeft

(***************************************************************************)
(* Timer::TimerLoop and Timer::DivLoop: the interrupt comes when the       *)
(* countdown that the registers showed at the last write is over and at no *)
(* other time, and DIV ("the divider is always counting", timer.h) does    *)
(* not depend on the timer: sleeping threads that read the registers only  *)
(* when they wake are indistinguishable from counters of cycles.           *)
(***************************************************************************)
ImplementsCountdown == CD!Spec

(***************************************************************************)
(* Why TimerWakesHalted holds: while a program halts for the interrupt of  *)
(* a running timer, every step of a thread or of time brings it, shortens  *)
(* the countdown, or is that of a thread which was due and is not now.     *)
(***************************************************************************)
DueLoops == {loop \in {"DivLoop", "TimerLoop"} :
               IF loop = "DivLoop" THEN divDue = 0 ELSE timDue = 0}

NearerToInterrupt ==
  [][halted /\ enable /\ ~timerIf =>
       \/ timerIf'
       \/ absLeft' < absLeft
       \/ absLeft' = absLeft /\ DueLoops' \subseteq DueLoops /\ DueLoops' # DueLoops]_vars

(***************************************************************************)
(* The two threads as MachineCycle assumes its processes: what the program *)
(* writes to TAC and the other registers moves no wait that has begun, and *)
(* every wait is one of the periods of the source, also the first ones.    *)
(***************************************************************************)
Threads == {"DivLoop", "TimerLoop"}
TimerIf == 2      \* the bit kTimerIf

ThreadWaits ==
  [t \in Threads |-> IF t = "DivLoop" THEN {DivCycles} ELSE {CyclesOf[s] : s \in Select}]
ThreadFirst == [t \in Threads |-> IF t = "DivLoop" THEN DivCycles ELSE CyclesOf[0]]
ThreadRaises == [t \in Threads |-> IF t = "DivLoop" THEN {} ELSE {TimerIf}]
ThreadDue == [t \in Threads |-> IF t = "DivLoop" THEN divDue ELSE timDue]
Requested == IF timerIf THEN {TimerIf} ELSE {}

PR == INSTANCE Processes WITH
        Devices <- Threads, OneShot <- {}, Waits <- ThreadWaits, First <- ThreadFirst,
        Raises <- ThreadRaises, armed <- Threads, due <- ThreadDue, iflag <- Requested

ThreadsAreProcesses == PR!Spec
=============================================================================
