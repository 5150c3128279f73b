------------------------------ MODULE PpuProofs ------------------------------
(***************************************************************************)
(* Theorems about Ppu for every number of lines, every size of the tile    *)
(* map, every width of the registers and every division of a line.         *)
(***************************************************************************)
EXTENDS Ppu, TLAPS

USE PpuAssumption DEF Reg

(* LY stays within its register, and wraps around only at its end. *)
LEMMA NextLy ==
  ASSUME NEW y \in Reg
  PROVE  /\ Next8(y) \in Reg
         /\ y < RegMax => Next8(y) = y + 1
<1>1. CASE y = RegMax
  BY <1>1 DEF Next8
<1>2. CASE y < RegMax
  BY <1>2 DEF Next8
<1> QED
  BY <1>1, <1>2

LEMMA TypeInit == Init => TypeOK
<1> SUFFICES ASSUME Init PROVE TypeOK
  OBVIOUS
<1>1. 0 \in Reg /\ line \in Lines /\ windowLine \in Int
  BY DEF Init, Lines
<1>2. 0 \in 0 .. 3 /\ 0 \in 0 .. 2 /\ 0 \in Nat
  OBVIOUS
<1> QED
  BY <1>1, <1>2, Zenon DEF Init, TypeOK

(* A comparison leaves Boolean values behind. *)
LEMMA CheckType ==
  ASSUME NEW r \in BOOLEAN, NEW ys, CheckLycInterrupt(r, ys)
  PROVE  statIf' \in BOOLEAN /\ coinc' \in BOOLEAN /\ unchecked' \in BOOLEAN
<1>1. (lyc = ly') \in BOOLEAN /\ (r \/ (lycEnable /\ lyc \in ys)) \in BOOLEAN
  BY Zenon
<1> QED
  BY <1>1, Zenon DEF CheckLycInterrupt

LEMMA TypeStep == TypeOK /\ [Next]_vars => TypeOK'
<1> SUFFICES ASSUME TypeOK, [Next]_vars PROVE TypeOK'
  OBVIOUS
<1> USE DEF TypeOK, Lines, stat, flags, ghosts
<1>1. CASE Start
  BY <1>1 DEF Start, OamSearch
<1>2. CASE Transfer
  <2>1. mode' \in 0 .. 3
    BY <1>2 DEF Transfer
  <2> QED
    BY <1>2, <2>1 DEF Transfer
<1>3. CASE HBlank
  <2>1. ly' \in Reg
    BY <1>3, NextLy DEF HBlank
  <2>2. windowLine' \in Int
    BY <1>3 DEF HBlank, DrawWndwToLine
  <2>3. statIf' \in BOOLEAN /\ coinc' \in BOOLEAN /\ unchecked' \in BOOLEAN
    <3>1. (statIf \/ hEnable) \in BOOLEAN
      BY Zenon
    <3> QED
      BY <1>3, <3>1, CheckType DEF HBlank
  <2> QED
    BY <1>3, <2>1, <2>2, <2>3 DEF HBlank
<1>4. CASE NextLine
  BY <1>4 DEF NextLine, OamSearch
<1>5. CASE VBlank
  <2>1. mode' \in 0 .. 3
    BY <1>5 DEF VBlank
  <2> QED
    BY <1>5, <2>1 DEF VBlank
<1>6. CASE VBlankLine
  <2>1. ly' \in Reg
    BY <1>6, NextLy DEF VBlankLine
  <2>2. statIf' \in BOOLEAN /\ coinc' \in BOOLEAN /\ unchecked' \in BOOLEAN
    BY <1>6, CheckType DEF VBlankLine
  <2> QED
    BY <1>6, <2>1, <2>2 DEF VBlankLine
<1>7. CASE NewFrame
  <2>1. statIf' \in BOOLEAN /\ coinc' \in BOOLEAN /\ unchecked' \in BOOLEAN
    BY <1>7, CheckType DEF NewFrame, EndVBlank
  <2>2. place' = "oam" /\ line' = 0 /\ mode' = 2 /\ ly' = 0
    BY <1>7 DEF NewFrame, EndVBlank, OamSearch
  <2>3. elapsed' \in Nat
    BY <1>7 DEF NewFrame, EndVBlank
  <2>4. lyWritten' \in BOOLEAN
    BY <1>7 DEF NewFrame, EndVBlank
  <2>5. UNCHANGED <<lyc, hEnable, lycEnable, vblankIf, windowLine, halted, frames, period>>
    BY <1>7 DEF NewFrame, EndVBlank
  <2> QED
    <3>1. line' \in Lines' /\ ly' \in Reg /\ mode' \in 0 .. 3
      BY <2>2
    <3>2. lyc' \in Reg /\ windowLine' \in Int /\ frames' \in 0 .. 2 /\ period' \in Nat
      BY <2>5
    <3>3. hEnable' \in BOOLEAN /\ lycEnable' \in BOOLEAN /\ vblankIf' \in BOOLEAN /\ halted' \in BOOLEAN
      BY <2>5
    <3> QED
      BY <2>1, <2>2, <2>3, <2>4, <3>1, <3>2, <3>3, Zenon
<1>8. CASE Program
  <2>1. CASE WriteStat
    BY <2>1 DEF WriteStat
  <2>2. CASE WriteLyc
    BY <2>2 DEF WriteLyc
  <2>3. CASE WriteLy
    BY <2>3 DEF WriteLy
  <2>4. CASE Acknowledge
    BY <2>4 DEF Acknowledge
  <2>5. CASE Stop
    BY <2>5 DEF Stop
  <2> QED
    BY <1>8, <2>1, <2>2, <2>3, <2>4, <2>5 DEF Program
<1>9. CASE UNCHANGED vars
  BY <1>9 DEF vars
<1> QED
  BY <1>1, <1>2, <1>3, <1>4, <1>5, <1>6, <1>7, <1>8, <1>9 DEF Next, RenderLoop

(***************************************************************************)
(* The registers and the loop counters keep their ranges: LY, which the    *)
(* program may overwrite at any time, never leaves its byte.               *)
(***************************************************************************)
THEOREM PpuTypeCorrect == Spec => []TypeOK
BY TypeInit, TypeStep, PTL DEF Spec

-----------------------------------------------------------------------------
(***************************************************************************)
(* Where the frame is: the cycles since the last V-Blank interrupt follow  *)
(* from the place, as soon as there has been one.                          *)
(***************************************************************************)
Since ==
  CASE place = "vblank" -> line * VBlankTime
    [] place = "oam" -> (VLines + line) * VBlankTime
    [] place = "transfer" -> (VLines + line) * VBlankTime + OamTime
    [] place = "hblank" -> (VLines + line) * VBlankTime + OamTime + TransferTime
    [] OTHER -> elapsed

TimeInv ==
  /\ place = "start" => line = 0 /\ frames = 0
  /\ place = "vblank" => frames > 0
  /\ frames > 0 => elapsed = Since

(* The window has been drawn on the lines of this frame at most. *)
WindowInv ==
  frames > 0 =>
    /\ windowLine >= 0
    /\ windowLine <= CASE place = "vblank" -> 0
                       [] place = "hblank" -> line + 1
                       [] OTHER -> line

PpuInv ==
  /\ TypeOK
  /\ LyFollowsLine
  /\ StatShowsState
  /\ TimeInv
  /\ RefreshIsPeriodic
  /\ WindowInv

LEMMA InvInit == Init => PpuInv
BY TypeInit DEF Init, PpuInv, LyFollowsLine, StatShowsState, TimeInv, RefreshIsPeriodic, WindowInv

(* LY: it is right before a step of the thread, hence below its maximum, and counts on. *)
LEMMA LyStep == PpuInv /\ [Next]_vars => LyFollowsLine'
<1> SUFFICES ASSUME PpuInv, [Next]_vars PROVE LyFollowsLine'
  OBVIOUS
<1> USE DEF PpuInv, TypeOK, Lines, TimeInv, LyFollowsLine, stat, flags, ghosts
<1>1. CASE Start
  BY <1>1 DEF Start, OamSearch
<1>2. CASE Transfer
  BY <1>2 DEF Transfer
<1>3. CASE HBlank
  <2> SUFFICES ASSUME ~lyWritten' PROVE ly' = line' + 1
    BY <1>3 DEF HBlank
  <2>1. ly = line /\ line' = line
    BY <1>3 DEF HBlank
  <2>2. ly < RegMax
    BY <2>1, <1>3 DEF HBlank
  <2> QED
    BY <2>1, <2>2, <1>3, NextLy DEF HBlank
<1>4. CASE NextLine
  BY <1>4 DEF NextLine, OamSearch
<1>5. CASE VBlank
  BY <1>5 DEF VBlank
<1>6. CASE VBlankLine
  <2> SUFFICES ASSUME ~lyWritten' PROVE ly' = Height + line'
    BY <1>6 DEF VBlankLine
  <2>1. ly = Height + line /\ line' = line + 1
    BY <1>6 DEF VBlankLine
  <2>2. ly < RegMax
    BY <2>1, <1>6 DEF VBlankLine
  <2> QED
    BY <2>1, <2>2, <1>6, NextLy DEF VBlankLine
<1>7. CASE NewFrame
  BY <1>7 DEF NewFrame, EndVBlank, OamSearch
<1>8. CASE Program
  <2>1. CASE WriteStat
    BY <2>1 DEF WriteStat
  <2>2. CASE WriteLyc
    BY <2>2 DEF WriteLyc
  <2>3. CASE WriteLy
    BY <2>3 DEF WriteLy
  <2>4. CASE Acknowledge
    BY <2>4 DEF Acknowledge
  <2>5. CASE Stop
    BY <2>5 DEF Stop
  <2> QED
    BY <1>8, <2>1, <2>2, <2>3, <2>4, <2>5 DEF Program
<1>9. CASE UNCHANGED vars
  BY <1>9 DEF vars
<1> QED
  BY <1>1, <1>2, <1>3, <1>4, <1>5, <1>6, <1>7, <1>8, <1>9 DEF Next, RenderLoop

(* STAT: the mode is set by every step of the thread, the flag by every comparison. *)
LEMMA StatStep == PpuInv /\ [Next]_vars => StatShowsState'
<1> SUFFICES ASSUME PpuInv, [Next]_vars PROVE StatShowsState'
  OBVIOUS
<1> USE DEF PpuInv, TypeOK, StatShowsState, stat, flags, ghosts
<1>1. CASE Start
  BY <1>1 DEF Start, OamSearch
<1>2. CASE Transfer
  <2>1. mode' = 3
    BY <1>2 DEF Transfer
  <2> QED
    BY <1>2, <2>1 DEF Transfer
<1>3. CASE HBlank
  BY <1>3 DEF HBlank, CheckLycInterrupt
<1>4. CASE NextLine
  BY <1>4 DEF NextLine, OamSearch
<1>5. CASE VBlank
  <2>1. mode' = 1
    BY <1>5 DEF VBlank
  <2> QED
    BY <1>5, <2>1 DEF VBlank
<1>6. CASE VBlankLine
  BY <1>6 DEF VBlankLine, CheckLycInterrupt
<1>7. CASE NewFrame
  BY <1>7 DEF NewFrame, EndVBlank, OamSearch, CheckLycInterrupt
<1>8. CASE Program
  <2>1. CASE WriteStat
    BY <2>1 DEF WriteStat
  <2>2. CASE WriteLyc
    BY <2>2 DEF WriteLyc
  <2>3. CASE WriteLy
    BY <2>3 DEF WriteLy
  <2>4. CASE Acknowledge
    BY <2>4 DEF Acknowledge
  <2>5. CASE Stop
    BY <2>5 DEF Stop
  <2> QED
    BY <1>8, <2>1, <2>2, <2>3, <2>4, <2>5 DEF Program
<1>9. CASE UNCHANGED vars
  BY <1>9 DEF vars
<1> QED
  BY <1>1, <1>2, <1>3, <1>4, <1>5, <1>6, <1>7, <1>8, <1>9 DEF Next, RenderLoop

(* A line takes as long as a line of V-Blank. *)
LEMMA NextLineTime ==
  ASSUME NEW n \in Nat
  PROVE  (n + 1) * VBlankTime = n * VBlankTime + OamTime + TransferTime + CheckTime
<1>1. (n + 1) * VBlankTime = n * VBlankTime + VBlankTime
  OBVIOUS
<1> QED
  BY <1>1

LEMMA TimeStep == PpuInv /\ [Next]_vars => TimeInv' /\ RefreshIsPeriodic'
<1> SUFFICES ASSUME PpuInv, [Next]_vars PROVE TimeInv' /\ RefreshIsPeriodic'
  OBVIOUS
<1> USE DEF PpuInv, TypeOK, Lines, TimeInv, Since, RefreshIsPeriodic, stat, flags, ghosts
<1>1. CASE Start
  BY <1>1 DEF Start, OamSearch
<1>2. CASE Transfer
  BY <1>2 DEF Transfer
<1>3. CASE HBlank
  BY <1>3 DEF HBlank
<1>4. CASE NextLine
  <2>1. (VLines + (line + 1)) * VBlankTime
          = (VLines + line) * VBlankTime + OamTime + TransferTime + CheckTime
    <3>1. VLines + line \in Nat /\ VLines + (line + 1) = (VLines + line) + 1
      BY <1>4 DEF NextLine
    <3> QED
      BY <3>1, NextLineTime
  <2> DEFINE now == (VLines + line) * VBlankTime
  <2>2. now \in Nat /\ (frames > 0 => elapsed = now + OamTime + TransferTime)
    BY <1>4 DEF NextLine
  <2> HIDE DEF now
  <2>3. frames > 0 => elapsed' = now + OamTime + TransferTime + CheckTime
    BY <2>2, <1>4 DEF NextLine
  <2>4. place' = "oam" /\ line' = line + 1 /\ frames' = frames /\ period' = period
    BY <1>4 DEF NextLine, OamSearch
  <2> QED
    BY <2>1, <2>3, <2>4 DEF now
<1>5. CASE VBlank
  <2>1. RefreshCycles = (VLines + line) * VBlankTime + OamTime + TransferTime + CheckTime
    <3>1. VLines + line \in Nat /\ Height + VLines = (VLines + line) + 1
      BY <1>5 DEF VBlank
    <3> QED
      BY <3>1, NextLineTime DEF RefreshCycles
  <2> DEFINE now == (VLines + line) * VBlankTime
  <2>2. now \in Nat /\ (frames > 0 => elapsed = now + OamTime + TransferTime)
    BY <1>5 DEF VBlank
  <2> HIDE DEF now
  <2>3. frames > 0 => period' = now + OamTime + TransferTime + CheckTime
    BY <2>2, <1>5 DEF VBlank
  <2>4. RefreshIsPeriodic'
    BY <2>1, <2>3, <1>5 DEF VBlank, RefreshCycles, now
  <2>5. TimeInv'
    BY <1>5 DEF VBlank
  <2> QED
    BY <2>4, <2>5
<1>6. CASE VBlankLine
  <2>1. (line + 1) * VBlankTime = line * VBlankTime + VBlankTime
    BY <1>6 DEF VBlankLine
  <2> QED
    BY <1>6, <2>1 DEF VBlankLine
<1>7. CASE NewFrame
  <2>1. VLines * VBlankTime = (VLines - 1) * VBlankTime + VBlankTime
    OBVIOUS
  <2>2. elapsed' = VLines * VBlankTime
    BY <1>7, <2>1 DEF NewFrame, EndVBlank
  <2> QED
    BY <1>7, <2>2 DEF NewFrame, EndVBlank, OamSearch
<1>8. CASE Program
  <2>1. CASE WriteStat
    BY <2>1 DEF WriteStat
  <2>2. CASE WriteLyc
    BY <2>2 DEF WriteLyc
  <2>3. CASE WriteLy
    BY <2>3 DEF WriteLy
  <2>4. CASE Acknowledge
    BY <2>4 DEF Acknowledge
  <2>5. CASE Stop
    BY <2>5 DEF Stop
  <2> QED
    BY <1>8, <2>1, <2>2, <2>3, <2>4, <2>5 DEF Program
<1>9. CASE UNCHANGED vars
  BY <1>9 DEF vars
<1> QED
  BY <1>1, <1>2, <1>3, <1>4, <1>5, <1>6, <1>7, <1>8, <1>9 DEF Next, RenderLoop

LEMMA WindowStep == PpuInv /\ [Next]_vars => WindowInv'
<1> SUFFICES ASSUME PpuInv, [Next]_vars PROVE WindowInv'
  OBVIOUS
<1> USE DEF PpuInv, TypeOK, Lines, TimeInv, WindowInv, stat, flags, ghosts
<1>1. CASE Start
  BY <1>1 DEF Start, OamSearch
<1>2. CASE Transfer
  BY <1>2 DEF Transfer
<1>3. CASE HBlank
  <2>1. windowLine' = windowLine \/ windowLine' = windowLine + 1
    BY <1>3 DEF HBlank, DrawWndwToLine
  <2> QED
    BY <1>3, <2>1 DEF HBlank
<1>4. CASE NextLine
  BY <1>4 DEF NextLine, OamSearch
<1>5. CASE VBlank
  BY <1>5 DEF VBlank
<1>6. CASE VBlankLine
  BY <1>6 DEF VBlankLine
<1>7. CASE NewFrame
  BY <1>7 DEF NewFrame, EndVBlank, OamSearch
<1>8. CASE Program
  <2>1. CASE WriteStat
    BY <2>1 DEF WriteStat
  <2>2. CASE WriteLyc
    BY <2>2 DEF WriteLyc
  <2>3. CASE WriteLy
    BY <2>3 DEF WriteLy
  <2>4. CASE Acknowledge
    BY <2>4 DEF Acknowledge
  <2>5. CASE Stop
    BY <2>5 DEF Stop
  <2> QED
    BY <1>8, <2>1, <2>2, <2>3, <2>4, <2>5 DEF Program
<1>9. CASE UNCHANGED vars
  BY <1>9 DEF vars
<1> QED
  BY <1>1, <1>2, <1>3, <1>4, <1>5, <1>6, <1>7, <1>8, <1>9 DEF Next, RenderLoop

LEMMA PpuInvariant == Spec => []PpuInv
<1>1. PpuInv /\ [Next]_vars => PpuInv'
  BY TypeStep, LyStep, StatStep, TimeStep, WindowStep DEF PpuInv
<1> QED
  BY InvInit, <1>1, PTL DEF Spec

(***************************************************************************)
(* RenderLoop's counter and LY agree in every frame in which the program   *)
(* has not written LY, whatever it did in the frames before.               *)
(***************************************************************************)
THEOREM LyIsTheLine == Spec => []LyFollowsLine
<1>1. PpuInv => LyFollowsLine
  BY DEF PpuInv
<1> QED
  BY PpuInvariant, <1>1, PTL

(***************************************************************************)
(* The read-only bits of STAT tell the mode and the last comparison of LY  *)
(* with LYC, at any interleaving of the program's writes with RenderLoop.  *)
(***************************************************************************)
THEOREM StatIsTrue == Spec => []StatShowsState
<1>1. PpuInv => StatShowsState
  BY DEF PpuInv
<1> QED
  BY PpuInvariant, <1>1, PTL

(***************************************************************************)
(* The V-Blank interrupts of RenderLoop come once in every RefreshCycles   *)
(* cycles, from the second one on.                                         *)
(***************************************************************************)
THEOREM RefreshIsExact == Spec => []RefreshIsPeriodic
<1>1. PpuInv => RefreshIsPeriodic
  BY DEF PpuInv
<1> QED
  BY PpuInvariant, <1>1, PTL

(***************************************************************************)
(* From the second frame on, DrawWndwToLine stays within the tile map, as  *)
(* its assertion says.                                                     *)
(***************************************************************************)
THEOREM WindowStaysInMap == Spec => []WindowLineInMap
<1>1. PpuInv => WindowLineInMap
  BY DEF PpuInv, TypeOK, Lines, WindowInv, WindowLineInMap
<1> QED
  BY PpuInvariant, <1>1, PTL

-----------------------------------------------------------------------------
(***************************************************************************)
(* Progress.  A step of the thread is one step less of the frame, and a    *)
(* new frame starts with a whole one before it; LY reaches LYC when it     *)
(* moves on from below, unless the program has written it.                 *)
(***************************************************************************)
FrameSteps == 3 * Height + VLines

LEMMA StepsTaken ==
  ASSUME PpuInv, RenderLoop
  PROVE  /\ StepsLeft \in Nat \ {0}
         /\ IF NewFrame THEN StepsLeft = 1 /\ StepsLeft' = FrameSteps
                        ELSE StepsLeft' = StepsLeft - 1
<1> USE DEF PpuInv, TypeOK, Lines, TimeInv, StepsLeft, FrameSteps
<1>1. CASE Start
  BY <1>1 DEF Start, OamSearch, NewFrame, EndVBlank
<1>2. CASE Transfer
  BY <1>2 DEF Transfer, NewFrame, EndVBlank
<1>3. CASE HBlank
  BY <1>3 DEF HBlank, NewFrame, EndVBlank
<1>4. CASE NextLine
  BY <1>4 DEF NextLine, OamSearch, NewFrame, EndVBlank
<1>5. CASE VBlank
  BY <1>5 DEF VBlank, NewFrame, EndVBlank
<1>6. CASE VBlankLine
  BY <1>6 DEF VBlankLine, NewFrame, EndVBlank
<1>7. CASE NewFrame
  BY <1>7 DEF NewFrame, EndVBlank, OamSearch
<1> QED
  BY <1>1, <1>2, <1>3, <1>4, <1>5, <1>6, <1>7 DEF RenderLoop

(* LYC is still to come in this frame. *)
Ahead == ~lyWritten /\ lyc > ly

(* Moving LY on meets LYC or leaves it ahead. *)
LEMMA LyMovesOn ==
  ASSUME PpuInv, lycEnable, HBlank \/ VBlankLine, Ahead
  PROVE  statIf' \/ Ahead'
<1>1. ly < RegMax /\ ly \in Reg /\ lyc \in Reg
  BY DEF PpuInv, TypeOK, Lines, LyFollowsLine, HBlank, VBlankLine, Ahead
<1>2. ly' = ly + 1 /\ lyc' = lyc /\ lyWritten' = lyWritten
  BY <1>1, NextLy DEF HBlank, VBlankLine
<1>3. lyc = ly' => statIf'
  BY DEF HBlank, VBlankLine, CheckLycInterrupt
<1> QED
  BY <1>1, <1>2, <1>3 DEF Ahead

LEMMA LineStaysAhead ==
  ASSUME PpuInv, lycEnable, lyc < Height + VLines, RenderLoop, Ahead
  PROVE  ~NewFrame /\ (statIf' \/ Ahead')
<1>1. ~NewFrame
  <2> SUFFICES ASSUME NewFrame PROVE FALSE
    OBVIOUS
  <2>1. place = "vblank" /\ line = VLines - 1
    BY DEF NewFrame, EndVBlank
  <2>2. ly = Height + line
    BY <2>1 DEF PpuInv, LyFollowsLine, Ahead
  <2> QED
    BY <2>1, <2>2 DEF PpuInv, TypeOK, Ahead
<1>2. CASE HBlank \/ VBlankLine
  BY <1>1, <1>2, LyMovesOn
<1>3. CASE Start \/ Transfer \/ NextLine \/ VBlank
  <2>1. UNCHANGED <<ly, lyc, lyWritten>>
    BY <1>3 DEF Start, Transfer, NextLine, VBlank, ghosts
  <2> QED
    BY <1>1, <2>1 DEF Ahead
<1> QED
  BY <1>1, <1>2, <1>3 DEF RenderLoop

(* A frame that was written to or has passed the line is followed by one that has not. *)
LEMMA FrameStartsAhead ==
  ASSUME PpuInv, lycEnable, NewFrame
  PROVE  statIf' \/ Ahead'
<1>1. ly' = 0 /\ lyWritten' = FALSE /\ lyc' = lyc /\ (lyc = 0 => statIf')
  BY DEF NewFrame, EndVBlank, CheckLycInterrupt
<1>2. lyc = 0 \/ lyc > 0
  BY DEF PpuInv, TypeOK
<1> QED
  BY <1>1, <1>2 DEF Ahead

(***************************************************************************)
(* A program that halts until a line is met gets nearer to it with every   *)
(* step of RenderLoop, however it left LY and LYC behind.                  *)
(***************************************************************************)
THEOREM LycComesNearer == Spec => NearerToLyc
<1> DEFINE Closer == halted /\ lycEnable /\ lyc < Height + VLines /\ ~statIf
                       => statIf' \/ StepsToLyc' < StepsToLyc
<1>1. ASSUME PpuInv, TypeOK', Next PROVE Closer
  <2> SUFFICES ASSUME halted, lycEnable, lyc < Height + VLines, ~statIf'
               PROVE  StepsToLyc' < StepsToLyc
    OBVIOUS
  <2>1. RenderLoop
    BY <1>1 DEF Next, Program, WriteStat, WriteLyc, WriteLy, Acknowledge, Stop
  <2>2. StepsToLyc = StepsLeft + IF Ahead THEN 0 ELSE FrameSteps
    BY <1>1 DEF StepsToLyc, Ahead, FrameSteps, PpuInv, TypeOK
  <2>3. StepsToLyc' = StepsLeft' + IF Ahead' THEN 0 ELSE FrameSteps
    BY <1>1 DEF StepsToLyc, Ahead, FrameSteps, TypeOK
  <2>4. FrameSteps \in Nat
    BY DEF FrameSteps
  <2>5. CASE Ahead
    <3>1. ~NewFrame /\ Ahead'
      BY <1>1, <2>1, <2>5, LineStaysAhead
    <3> QED
      BY <1>1, <2>1, <2>2, <2>3, <2>5, <3>1, StepsTaken
  <2>6. CASE ~Ahead /\ NewFrame
    <3>1. Ahead'
      BY <1>1, <2>6, FrameStartsAhead
    <3> QED
      BY <1>1, <2>1, <2>2, <2>3, <2>4, <2>6, <3>1, StepsTaken
  <2>7. CASE ~Ahead /\ ~NewFrame
    BY <1>1, <2>1, <2>2, <2>3, <2>4, <2>7, StepsTaken
  <2> QED
    BY <2>5, <2>6, <2>7
<1>2. PpuInv /\ TypeOK' /\ [Next]_vars => [Closer]_vars
  BY <1>1
<1>3. PpuInv => TypeOK
  BY DEF PpuInv
<1> QED
  BY <1>2, <1>3, PpuInvariant, PTL DEF Spec, NearerToLyc
=============================================================================
