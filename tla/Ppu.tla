--------------------------------- MODULE Ppu ---------------------------------
(***************************************************************************)
(* The pixel processing unit: RenderLoop, a thread that walks through the  *)
(* lines of a frame, and the registers LY, LYC and STAT, which it shares   *)
(* with the program through memory.  A step of the thread is the code      *)
(* between two of its waits; place names the wait it is in.  The program   *)
(* writes registers in between.  LY is a byte of memory beside the loop's  *)
(* own counter: the two agree only as long as the program leaves LY alone. *)
(* Pixels are left out; of drawing only the window's line counter is kept, *)
(* since it is carried from line to line.                                  *)
(***************************************************************************)
EXTENDS Integers

CONSTANTS
  Height,       \* kGbScreenHeight, the visible lines (144)
  VLines,       \* the lines of V-Blank (10)
  MapLines,     \* the lines of a tile map (32 rows of 8)
  RegMax,       \* the largest value of a register (255)
  OamTime, TransferTime, CheckTime, VBlankTime,  \* the four waits, in cycles
  Garbage       \* what window_line_ may hold before it is first set

ASSUME PpuAssumption ==
  /\ Height \in Nat \ {0} /\ VLines \in Nat \ {0}
  /\ Height <= MapLines /\ MapLines \in Nat
  /\ RegMax \in Nat /\ Height + VLines <= RegMax
  /\ OamTime \in Nat /\ TransferTime \in Nat /\ CheckTime \in Nat /\ VBlankTime \in Nat
  /\ OamTime + TransferTime + CheckTime = VBlankTime
  /\ Garbage \subseteq Int

VARIABLES
  place,        \* the wait of RenderLoop that the thread is in
  line,         \* i, the counter of the loop that this wait is in
  ly, lyc,      \* *reg_lcdc_y and *reg_ly_comp
  mode, coinc,  \* the bits of *reg_stat that the program cannot write: 0-1 and 2
  hEnable, lycEnable,   \* and those that it can: 3 and 6
  vblankIf, statIf,     \* bits 0 and 1 of the interrupt flag register
  windowLine,   \* window_line_
  halted,       \* the program has executed its last HALT
  lyWritten,    \* the program has written LY in this frame
  unchecked,    \* it has written LY or LYC since they were last compared
  frames,       \* the frames completed so far: 0, 1 or more
  elapsed,      \* the cycles since the last V-Blank interrupt,
  period        \* and between the last one and the one before

stat == <<mode, coinc, hEnable, lycEnable>>
flags == <<vblankIf, statIf>>
ghosts == <<lyWritten, unchecked, frames, elapsed, period>>
vars == <<place, line, ly, lyc, stat, flags, windowLine, halted, ghosts>>

Reg == 0 .. RegMax
Lines == IF place = "vblank" THEN 0 .. VLines - 1 ELSE 0 .. Height - 1

TypeOK ==
  /\ place \in {"start", "oam", "transfer", "hblank", "vblank"}
  /\ line \in Lines
  /\ ly \in Reg /\ lyc \in Reg
  /\ mode \in 0 .. 3
  /\ coinc \in BOOLEAN /\ hEnable \in BOOLEAN /\ lycEnable \in BOOLEAN
  /\ vblankIf \in BOOLEAN /\ statIf \in BOOLEAN
  /\ windowLine \in Int
  /\ halted \in BOOLEAN
  /\ lyWritten \in BOOLEAN /\ unchecked \in BOOLEAN
  /\ frames \in 0 .. 2
  /\ elapsed \in Nat /\ period \in Nat

(***************************************************************************)
(* The registers are zeroed by GenericMemory, so that the flag of STAT     *)
(* does not yet say that LY equals LYC.  window_line_ is not initialised.  *)
(***************************************************************************)
Init ==
  /\ place = "start" /\ line = 0
  /\ ly = 0 /\ lyc = 0
  /\ mode = 0 /\ coinc = FALSE /\ hEnable = FALSE /\ lycEnable = FALSE
  /\ vblankIf = FALSE /\ statIf = FALSE
  /\ windowLine \in Garbage
  /\ halted = FALSE
  /\ lyWritten = FALSE /\ unchecked = TRUE
  /\ frames = 0 /\ elapsed = 0 /\ period = 0

-----------------------------------------------------------------------------
(* The thread. *)

Next8(y) == (y + 1) % (RegMax + 1)

(***************************************************************************)
(* CheckLycInterrupt, with the request bit as it is when it is called, and *)
(* LY having taken the values ys one after another: each comparison may    *)
(* raise the interrupt, the last one sets the flag.                        *)
(***************************************************************************)
CheckLycInterrupt(requested, ys) ==
  /\ statIf' = (requested \/ (lycEnable /\ lyc \in ys))
  /\ coinc' = (lyc = ly')
  /\ unchecked' = FALSE

(* The head of the loop over the visible lines; SetBit(stat, true, 1) and  *)
(* SetBit(stat, false, 0).                                                 *)
OamSearch(i) ==
  /\ place' = "oam"
  /\ line' = i
  /\ mode' = 2

Start ==
  /\ place = "start"
  /\ OamSearch(0)
  /\ UNCHANGED <<ly, lyc, coinc, hEnable, lycEnable, flags, windowLine, halted, ghosts>>

(* SetBit(stat, true, 0): the other bit stays as it was. *)
Transfer ==
  /\ place = "oam"
  /\ place' = "transfer"
  /\ mode' = 2 * (mode \div 2) + 1
  /\ elapsed' = elapsed + OamTime
  /\ UNCHANGED <<line, ly, lyc, coinc, hEnable, lycEnable, flags, windowLine, halted,
                 lyWritten, unchecked, frames, period>>

(***************************************************************************)
(* The window is drawn on a line if LCDC enables it and the line is not    *)
(* above it; its position and the enable bit are read here and nowhere     *)
(* else, so that they are chosen here.  The counter moves on even when     *)
(* nothing is visible of it (LCDC bit 0).                                  *)
(***************************************************************************)
DrawWndwToLine(i) ==
  \E enabled \in BOOLEAN, y \in Reg :
    windowLine' = IF enabled /\ y < Height /\ i >= y THEN windowLine + 1 ELSE windowLine

(* Fault: the flag is set before LY moves on. *)
HBlankCompareFirst ==
  /\ place = "transfer"
  /\ place' = "hblank"
  /\ mode' = 0
  /\ DrawWndwToLine(line)
  /\ ly' = Next8(ly)
  /\ statIf' = (statIf \/ hEnable \/ (lycEnable /\ lyc = ly))
  /\ coinc' = (lyc = ly)
  /\ unchecked' = FALSE
  /\ elapsed' = elapsed + TransferTime
  /\ UNCHANGED <<line, lyc, hEnable, lycEnable, vblankIf, halted, lyWritten, frames, period>>

HBlank ==
  /\ place = "transfer"
  /\ place' = "hblank"
  /\ mode' = 0
  /\ DrawWndwToLine(line)
  /\ ly' = Next8(ly)
  /\ CheckLycInterrupt(statIf \/ hEnable, {ly'})
  /\ elapsed' = elapsed + TransferTime
  /\ UNCHANGED <<line, lyc, hEnable, lycEnable, vblankIf, halted, lyWritten, frames, period>>

NextLine ==
  /\ place = "hblank"
  /\ line + 1 < Height
  /\ OamSearch(line + 1)
  /\ elapsed' = elapsed + CheckTime
  /\ UNCHANGED <<ly, lyc, coinc, hEnable, lycEnable, flags, windowLine, halted,
                 lyWritten, unchecked, frames, period>>

(* Fault: the window's line counter is carried into the next frame. *)
VBlankKeepsWindow ==
  /\ place = "hblank"
  /\ line + 1 = Height
  /\ place' = "vblank"
  /\ line' = 0
  /\ mode' = 2 * (mode \div 2) + 1
  /\ vblankIf' = TRUE
  /\ frames' = IF frames = 2 THEN 2 ELSE frames + 1
  /\ elapsed' = 0
  /\ period' = elapsed + CheckTime
  /\ UNCHANGED <<ly, lyc, coinc, hEnable, lycEnable, statIf, windowLine, halted, lyWritten, unchecked>>

VBlank ==
  /\ place = "hblank"
  /\ line + 1 = Height
  /\ place' = "vblank"
  /\ line' = 0
  /\ windowLine' = 0
  /\ mode' = 2 * (mode \div 2) + 1
  /\ vblankIf' = TRUE
  /\ frames' = IF frames = 2 THEN 2 ELSE frames + 1
  /\ elapsed' = 0
  /\ period' = elapsed + CheckTime
  /\ UNCHANGED <<ly, lyc, coinc, hEnable, lycEnable, statIf, halted, lyWritten, unchecked>>

(* Fault: LYC is not compared during V-Blank. *)
VBlankLineUnchecked ==
  /\ place = "vblank"
  /\ line + 1 < VLines
  /\ line' = line + 1
  /\ ly' = Next8(ly)
  /\ unchecked' = TRUE
  /\ elapsed' = elapsed + VBlankTime
  /\ UNCHANGED <<place, lyc, stat, flags, windowLine, halted, lyWritten, frames, period>>

VBlankLine ==
  /\ place = "vblank"
  /\ line + 1 < VLines
  /\ line' = line + 1
  /\ ly' = Next8(ly)
  /\ CheckLycInterrupt(statIf, {ly'})
  /\ elapsed' = elapsed + VBlankTime
  /\ UNCHANGED <<place, lyc, mode, hEnable, lycEnable, vblankIf, windowLine, halted,
                 lyWritten, frames, period>>

(***************************************************************************)
(* After the given line of V-Blank, LY is incremented once more and        *)
(* compared with LYC, then set and compared again, and the next frame      *)
(* begins, all in one step.                                                *)
(***************************************************************************)
EndVBlank(last, resetTo, first) ==
  /\ place = "vblank"
  /\ line = last
  /\ ly' = resetTo
  /\ CheckLycInterrupt(statIf, {Next8(ly), ly'})
  /\ OamSearch(first)
  /\ elapsed' = elapsed + VBlankTime
  /\ lyWritten' = FALSE
  /\ UNCHANGED <<lyc, hEnable, lycEnable, vblankIf, windowLine, halted, frames, period>>

(* Faults: LY is left to wrap around by itself; V-Blank is a line short;   *)
(* the loop begins behind the last line.                                   *)
NewFrameNoReset == EndVBlank(VLines - 1, Next8(ly), 0)
NewFrameEarly == EndVBlank(VLines - 2, 0, 0)
NewFrameAtHeight == EndVBlank(VLines - 1, 0, Height)

NewFrame == EndVBlank(VLines - 1, 0, 0)

RenderLoop ==
  Start \/ Transfer \/ HBlank \/ NextLine \/ VBlank \/ VBlankLine \/ NewFrame

-----------------------------------------------------------------------------
(* The program, through IoRegisters. *)

(* The three lowest bits are kept. *)
WriteStat ==
  /\ ~halted
  /\ hEnable' \in BOOLEAN
  /\ lycEnable' \in BOOLEAN
  /\ UNCHANGED <<place, line, ly, lyc, mode, coinc, flags, windowLine, halted, ghosts>>

(* Nothing is compared on a write, and LY can be written like any byte. *)
WriteLyc ==
  /\ ~halted
  /\ lyc' \in Reg
  /\ unchecked' = TRUE
  /\ UNCHANGED <<place, line, ly, stat, flags, windowLine, halted,
                 lyWritten, frames, elapsed, period>>

WriteLy ==
  /\ ~halted
  /\ ly' \in Reg
  /\ lyWritten' = TRUE
  /\ unchecked' = TRUE
  /\ UNCHANGED <<place, line, lyc, stat, flags, windowLine, halted, frames, elapsed, period>>

(* An interrupt is taken, or the program writes the flag register. *)
Acknowledge ==
  /\ ~halted
  /\ vblankIf' \in BOOLEAN
  /\ statIf' \in BOOLEAN
  /\ UNCHANGED <<place, line, ly, lyc, stat, windowLine, halted, ghosts>>

Stop ==
  /\ ~halted
  /\ halted' = TRUE
  /\ UNCHANGED <<place, line, ly, lyc, stat, flags, windowLine, ghosts>>

Program == WriteStat \/ WriteLyc \/ WriteLy \/ Acknowledge \/ Stop

Next == RenderLoop \/ Program

(* The kernel wakes the thread when its wait is over. *)
Spec == Init /\ [][Next]_vars /\ WF_vars(RenderLoop)

-----------------------------------------------------------------------------
(* Properties. *)

(***************************************************************************)
(* LY, which RenderLoop only increments and clears, is the number of lines *)
(* whose drawing is over, unless the program has written it; a new frame   *)
(* puts it right again.                                                    *)
(***************************************************************************)
LyFollowsLine ==
  ~lyWritten =>
    ly = CASE place = "vblank" -> Height + line
           [] place = "hblank" -> line + 1
           [] OTHER -> line

(***************************************************************************)
(* STAT, whose bits are set one at a time by RenderLoop and written by the *)
(* program, always shows the mode of the line and, once LY and LYC have    *)
(* been compared after the program's last write to them, whether they      *)
(* agree: IoRegisters, "Mode (first two bits) is read-only".               *)
(***************************************************************************)
StatShowsState ==
  /\ mode = CASE place = "oam" -> 2
              [] place = "transfer" -> 3
              [] place = "vblank" -> 1
              [] OTHER -> 0
  /\ ~unchecked => (coinc <=> ly = lyc)

(***************************************************************************)
(* RenderLoop's comment, "A complete screen refresh occurs every 70224     *)
(* cycles": V-Blank interrupts come (Height + VLines) * VBlankTime cycles  *)
(* apart, which for 154 lines of 456 cycles is that number.                *)
(***************************************************************************)
RefreshCycles == (Height + VLines) * VBlankTime

RefreshIsPeriodic == frames = 2 => period = RefreshCycles

(***************************************************************************)
(* The assertion of DrawWndwToLine, that the tile is one of the map's:     *)
(* when a line is drawn, the window's line counter, which is counted up    *)
(* here and cleared only in V-Blank, is a line of the map.  In the first   *)
(* frame the counter has not been initialised.                             *)
(***************************************************************************)
WindowLineInMap ==
  (frames > 0 /\ place = "transfer") => windowLine \in 0 .. MapLines - 1

(***************************************************************************)
(* A program that halts until the line LYC is waked: with the interrupt    *)
(* enabled, every LYC up to the last line meets LY, whatever was written   *)
(* before.                                                                 *)
(***************************************************************************)
LycWakesHalted == (halted /\ lycEnable /\ lyc < Height + VLines) ~> statIf

(***************************************************************************)
(* How many steps of RenderLoop there are at most until LY meets LYC: the  *)
(* rest of this frame, and a whole frame more if the line has passed or    *)
(* the program has written LY, so that this frame may miss it.             *)
(***************************************************************************)
StepsLeft ==
  CASE place = "vblank" -> VLines - line
    [] place = "hblank" -> 3 * (Height - 1 - line) + VLines + 1
    [] place = "transfer" -> 3 * (Height - 1 - line) + VLines + 2
    [] place = "oam" -> 3 * (Height - 1 - line) + VLines + 3
    [] OTHER -> 3 * Height + VLines + 1

StepsToLyc == StepsLeft + IF lyWritten \/ lyc <= ly THEN 3 * Height + VLines ELSE 0

(***************************************************************************)
(* Why LycWakesHalted holds: while the program halts for line LYC, every   *)
(* step of RenderLoop either raises the interrupt or brings it nearer.  It *)
(* comes by the end of the next frame at the latest, and no write of LY    *)
(* before the HALT makes RenderLoop miss the line twice.                   *)
(***************************************************************************)
NearerToLyc ==
  [][halted /\ lycEnable /\ lyc < Height + VLines /\ ~statIf
       => statIf' \/ StepsToLyc' < StepsToLyc]_vars
=============================================================================
