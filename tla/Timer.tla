-------------------------------- MODULE Timer --------------------------------
(***************************************************************************)
(* The Timer module: the divider DIV, the counter TIMA with its modulo TMA *)
(* and control TAC, and the two threads that count.  A thread reads the    *)
(* waiting time once, before it sleeps; the program writes the registers   *)
(* at any moment in between, or halts for good and waits for an interrupt. *)
(* divDue and timDue are the times for which the two threads still sleep.  *)
(***************************************************************************)
EXTENDS Integers

CONSTANTS
  RegMax,      \* the largest value of a register (255)
  Select,      \* the values of TAC's input clock select (0..3)
  CyclesOf,    \* CyclesOf[s]: the cycles per increment that s selects
  DivCycles    \* the cycles per increment of DIV (256)

ASSUME TimerAssumption ==
  /\ RegMax \in Nat \ {0}
  /\ 0 \in Select
  /\ CyclesOf \in [Select -> Nat \ {0}]
  /\ DivCycles \in Nat \ {0}

VARIABLES
  div, tima, tma,   \* the registers DIV, TIMA and TMA
  enable, select,   \* the fields of TAC
  cyclesPerInc,     \* cycles_per_inc_ (and inc_time_, the same in time)
  timerIf,          \* the timer bit of the interrupt flag register
  divDue, timDue,
  halted,           \* the program has executed its last HALT
  clean,            \* no register was written since the last overflow
  since             \* and how long ago that overflow was

regs == <<div, tima, tma, enable, select, cyclesPerInc>>
ghosts == <<clean, since>>
vars == <<regs, timerIf, divDue, timDue, halted, ghosts>>

Reg == 0 .. RegMax

TypeOK ==
  /\ div \in Reg /\ tima \in Reg /\ tma \in Reg
  /\ enable \in BOOLEAN
  /\ select \in Select
  /\ cyclesPerInc \in Nat \ {0}
  /\ timerIf \in BOOLEAN
  /\ divDue \in Nat /\ timDue \in Nat
  /\ halted \in BOOLEAN
  /\ clean \in BOOLEAN
  /\ since \in Nat

(***************************************************************************)
(* The registers are not initialised; cycles_per_inc_ is, whatever TAC     *)
(* says.  Both threads have started their first wait.                      *)
(***************************************************************************)
Init ==
  /\ div \in Reg /\ tima \in Reg /\ tma \in Reg
  /\ enable \in BOOLEAN
  /\ select \in Select
  /\ cyclesPerInc = CyclesOf[0]
  /\ timerIf = FALSE
  /\ divDue = DivCycles
  /\ timDue = cyclesPerInc
  /\ halted = FALSE
  /\ clean = FALSE
  /\ since = 0

-----------------------------------------------------------------------------
(* The threads. *)

(* Fault: the divider obeys the enable bit of TAC. *)
DivLoopGated ==
  /\ divDue = 0
  /\ div' = IF enable THEN (div + 1) % (RegMax + 1) ELSE div
  /\ divDue' = DivCycles
  /\ UNCHANGED <<tima, tma, enable, select, cyclesPerInc, timerIf, timDue, halted, ghosts>>

DivLoop ==
  /\ divDue = 0
  /\ div' = (div + 1) % (RegMax + 1)
  /\ divDue' = DivCycles
  /\ UNCHANGED <<tima, tma, enable, select, cyclesPerInc, timerIf, timDue, halted, ghosts>>

(* Faults: TIMA grows beyond its width; the overflow is tested for after   *)
(* the wrap; the overflow clears TIMA.                                     *)
CountWide == tima' = tima + 1 /\ UNCHANGED <<timerIf, ghosts>>

CountSilently == tima' = (tima + 1) % (RegMax + 1) /\ UNCHANGED <<timerIf, ghosts>>

CountFromZero ==
  IF tima = RegMax
    THEN tima' = 0 /\ timerIf' = TRUE /\ clean' = TRUE /\ since' = 0
    ELSE tima' = tima + 1 /\ UNCHANGED <<timerIf, ghosts>>

Count ==
  LET next == (tima + 1) % (RegMax + 1)
  IN  IF tima > next
        THEN /\ tima' = tma
             /\ timerIf' = TRUE
             /\ clean' = TRUE
             /\ since' = 0
        ELSE tima' = next /\ UNCHANGED <<timerIf, ghosts>>

TimerLoop ==
  /\ timDue = 0
  /\ IF enable THEN Count ELSE UNCHANGED <<tima, timerIf, ghosts>>
  /\ timDue' = cyclesPerInc
  /\ UNCHANGED <<div, tma, enable, select, cyclesPerInc, divDue, halted>>

(***************************************************************************)
(* Time passes, one cycle at a time, while neither thread is due.          *)
(***************************************************************************)
Tick ==
  /\ divDue > 0
  /\ timDue > 0
  /\ divDue' = divDue - 1
  /\ timDue' = timDue - 1
  /\ since' = IF clean THEN since + 1 ELSE 0
  /\ UNCHANGED <<regs, timerIf, halted, clean>>

-----------------------------------------------------------------------------
(* The program. *)

Written ==
  /\ ~halted
  /\ clean' = FALSE
  /\ since' = 0
  /\ UNCHANGED <<timerIf, divDue, timDue, halted>>

WriteDiv ==
  /\ ~halted
  /\ div' = 0
  /\ UNCHANGED <<tima, tma, enable, select, cyclesPerInc, timerIf, divDue, timDue, halted, ghosts>>

WriteTima ==
  /\ Written
  /\ tima' \in Reg
  /\ UNCHANGED <<div, tma, enable, select, cyclesPerInc>>

WriteTma ==
  /\ Written
  /\ tma' \in Reg
  /\ UNCHANGED <<div, tima, enable, select, cyclesPerInc>>

WriteTac ==
  /\ Written
  /\ enable' \in BOOLEAN
  /\ select' \in Select
  /\ cyclesPerInc' = CyclesOf[select']
  /\ UNCHANGED <<div, tima, tma>>

(* The interrupt is taken, or the program overwrites the flag register. *)
Acknowledge ==
  /\ ~halted
  /\ timerIf' \in BOOLEAN
  /\ UNCHANGED <<regs, divDue, timDue, halted, ghosts>>

Stop ==
  /\ ~halted
  /\ halted' = TRUE
  /\ UNCHANGED <<regs, timerIf, divDue, timDue, ghosts>>

Program == WriteDiv \/ WriteTima \/ WriteTma \/ WriteTac \/ Acknowledge \/ Stop

Next == DivLoop \/ TimerLoop \/ Tick \/ Program

(***************************************************************************)
(* The kernel runs what is due and then lets time pass; the program owes   *)
(* nothing.                                                                *)
(***************************************************************************)
Spec == Init /\ [][Next]_vars /\ WF_vars(DivLoop) /\ WF_vars(TimerLoop) /\ WF_vars(Tick)

-----------------------------------------------------------------------------
(* Properties. *)

(***************************************************************************)
(* From one overflow to the next, TIMA keeps exact time: as long as the    *)
(* program leaves the registers alone, the time since the overflow is the  *)
(* number of counts above TMA, plus the part of the current count that has *)
(* passed.  So the overflows come RegMax + 1 - TMA counts apart.           *)
(***************************************************************************)
ExactPeriod ==
  clean => since = (tima - tma) * cyclesPerInc + (cyclesPerInc - timDue)

(***************************************************************************)
(* A program that halts with the timer enabled gets its timer interrupt,   *)
(* whatever it wrote before.                                               *)
(***************************************************************************)
TimerWakesHalted == (halted /\ enable) ~> timerIf
=============================================================================
