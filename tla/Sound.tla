------------------------------- MODULE Sound -------------------------------
(***************************************************************************)
(* The sound registers (io_registers.cpp) and the APU behind them          *)
(* (apu.cpp).  A write reaches the APU in two ways: the APU reads the      *)
(* registers through a direct pointer when it needs them, and eight boolean *)
(* signals tell it by a change of value that a length has to be reloaded   *)
(* or a note begins.  A signal takes its requested value, and the APU's    *)
(* methods run, once the CPU waits: what the CPU writes until then is one  *)
(* delta cycle.  The SDL library calls the audio callback on a thread of   *)
(* its own, so that its steps come between any two of the others.          *)
(*                                                                         *)
(* Registers are named by their offset from FF10.  The bits of NR52 are    *)
(* the variables power and status.  The samples themselves are left out.   *)
(***************************************************************************)
EXTENDS Integers, FiniteSets

CONSTANTS
  Starts,   \* what the program may write, how often, and what memory held: see Init
  Beats     \* a bound: the calls of UpdateEnvelopes are counted modulo Beats

Channels == {"square1", "square2", "wave", "noise"}
Enveloped == Channels \ {"wave"}
Byte == {x \in Nat : x < 256}
NR52 == 22
Regs == (0 .. 31) \ {NR52}
Lines == {"reload", "trigger"} \X Channels
Above == 2048                      \* any frequency of more than eleven bits
Frequency == {x \in Nat : x =< Above}

(* NR11, NR21, NR31, NR41 and so on. *)
LengthReg == [square1 |-> 1, square2 |-> 6, wave |-> 11, noise |-> 16]
VolumeReg == [square1 |-> 2, square2 |-> 7, wave |-> 12, noise |-> 17]
ControlReg == [square1 |-> 4, square2 |-> 9, wave |-> 14, noise |-> 19]
NR10 == 0
NR13 == 3
NR14 == 4
NR30 == 10

ASSUME StartsAssumption ==
  /\ Starts \subseteq [writes : SUBSET ((Regs \cup {NR52}) \X Byte), left : Nat,
                       reg : [Regs -> Byte], power : BOOLEAN,
                       length : [Channels -> Nat], volume : [Channels -> Int],
                       freq : Frequency, sweep : Nat]
  /\ \A s \in Starts : s.power \/ \A i \in Regs : s.reg[i] = 0
  /\ Beats \in Nat \ {0}

VARIABLES
  reg,        \* data_ of the IO registers, NR52 apart
  power,      \* bit 7 of NR52
  status,     \* the channels whose bit is set in NR52
  line,       \* the signals' values
  asked,      \* the values they take next
  pending,    \* the APU's methods that are to run in this delta cycle
  due,        \* channels for which a note was asked and not yet begun
  length,     \* length_load
  volume,
  freq,       \* square1.frequency
  sweep,      \* square1.sweep_counter
  pitch,      \* the frequency DoSweep works on
  stage,      \* where AudioLoop waits, or what DoSweep does next
  after,      \* where AudioLoop waits after the sweep
  beat,       \* the static counter of UpdateEnvelopes
  lsb,        \* what the audio callback has read of NR13, 256 outside of it
  writes, left  \* what the program may still write, and how often

signals == <<line, asked, pending, due>>
notes == <<length, volume>>
square == <<freq, sweep, pitch>>
loop == <<stage, after, beat>>
code == <<writes, left>>
vars == <<reg, power, status, signals, notes, square, loop, lsb, code>>

Waits == {"first", "second", "third", "fourth", "fifth"}

TypeOK ==
  /\ reg \in [Regs -> Byte]
  /\ power \in BOOLEAN
  /\ status \in SUBSET Channels
  /\ line \in [Lines -> BOOLEAN] /\ asked \in [Lines -> BOOLEAN]
  /\ pending \in SUBSET Lines
  /\ due \in SUBSET Channels
  /\ length \in [Channels -> Nat]
  /\ volume \in [Channels -> Int]
  /\ freq \in Frequency /\ pitch \in Frequency
  /\ sweep \in Nat
  /\ stage \in Waits \cup {"check", "lsb", "msb"}
  /\ after \in Waits
  /\ beat \in {x \in Nat : x < Beats}
  /\ lsb \in {x \in Nat : x =< 256}
  /\ writes \in SUBSET ((Regs \cup {NR52}) \X Byte) /\ left \in Nat

(***************************************************************************)
(* A stretch of the program that begins while nothing plays.  The          *)
(* registers start cleared, and are so whenever the sound is off; the      *)
(* fields of the channels are not initialised.                             *)
(***************************************************************************)
Init ==
  /\ \E s \in Starts :
       /\ writes = s.writes /\ left = s.left
       /\ reg = s.reg /\ power = s.power
       /\ length = s.length /\ volume = s.volume
       /\ freq = s.freq /\ sweep = s.sweep
  /\ status = {}
  /\ line = [l \in Lines |-> FALSE] /\ asked = [l \in Lines |-> FALSE]
  /\ pending = {}
  /\ due = {}
  /\ pitch = 0
  /\ stage = "first" /\ after = "first" /\ beat = 0
  /\ lsb = 256

-----------------------------------------------------------------------------
(* Writes of the program. *)

(* The signals whose value a write inverts: NR10 stands where NR11 belongs. *)
Inverts(a, v) ==
  CASE a = NR10 -> {<<"reload", "square1">>}
    [] a = LengthReg["square2"] -> {<<"reload", "square2">>}
    [] v >= 128 /\ (\E ch \in Enveloped : a = ControlReg[ch]) ->
         {<<"trigger", ch>> : ch \in {c \in Enveloped : a = ControlReg[c]}}
    [] OTHER -> {}

(* The signals a write sets, for good. *)
Raises(a) == {<<"reload", ch>> : ch \in {c \in {"wave", "noise"} : a = LengthReg[c]}}

(* Fault: the value that is inverted is the one asked for last. *)
AskedToggling(a, v) ==
  [l \in Lines |-> IF l \in Inverts(a, v) THEN ~asked[l]
                   ELSE IF l \in Raises(a) THEN TRUE ELSE asked[l]]

(* write(!read()): read() gives the present value, not the one asked for. *)
Asked(a, v) ==
  [l \in Lines |-> IF l \in Inverts(a, v) THEN ~line[l]
                   ELSE IF l \in Raises(a) THEN TRUE ELSE asked[l]]

(* The kernel's processes exclude each other: DoSweep is not interrupted by one of them. *)
Settled == stage \in Waits

(* NR52: the status bits go whatever is written, the registers when it turns the sound off. *)
WritePower(v) ==
  /\ power' = (v >= 128)
  /\ status' = {}
  /\ reg' = IF v >= 128 THEN reg ELSE [i \in Regs |-> IF i = NR30 THEN reg[i] ELSE 0]
  /\ UNCHANGED <<asked, due>>

WriteRegister(a, v) ==
  /\ a # NR52
  /\ IF power
     THEN /\ reg' = [reg EXCEPT ![a] = v]
          /\ asked' = Asked(a, v)
          /\ due' = due \cup {ch \in Channels : a = ControlReg[ch] /\ v >= 128}
     ELSE UNCHANGED <<reg, asked, due>>
  /\ UNCHANGED <<power, status>>

(***************************************************************************)
(* A store of the program.  After a wait of zero time the CPU's thread     *)
(* runs in the same evaluation phase as the methods that are pending, and  *)
(* SystemC leaves it open which of them goes first.                        *)
(***************************************************************************)
Write ==
  /\ Settled /\ left > 0
  /\ left' = left - 1
  /\ \E w \in writes : IF w[1] = NR52 THEN WritePower(w[2]) ELSE WriteRegister(w[1], w[2])
  /\ UNCHANGED <<line, pending, notes, square, loop, lsb, writes>>

(* All have run: signals take their values, and methods sensitive to them are to run. *)
Update ==
  /\ Settled /\ pending = {} /\ asked # line
  /\ pending' = {l \in Lines : asked[l] # line[l]}
  /\ line' = asked
  /\ UNCHANGED <<reg, power, status, asked, due, notes, square, loop, lsb, code>>

-----------------------------------------------------------------------------
(* The methods of the APU. *)

FullLength(ch) == IF ch = "wave" THEN 256 ELSE 64

(* Fault: the duty in the upper bits of NR11 and NR21 is taken for length. *)
ReloadedWithDuty(ch) == FullLength(ch) - reg[LengthReg[ch]]

Reloaded(ch) == FullLength(ch) - (reg[LengthReg[ch]] % FullLength(ch))
DacOn(ch) == ch = "wave" \/ reg[VolumeReg[ch]] >= 8
StartVolume(ch) ==
  IF ch = "wave" THEN (reg[VolumeReg[ch]] \div 32) % 4 ELSE reg[VolumeReg[ch]] \div 16

ReloadLength(ch) ==
  /\ length' = [length EXCEPT ![ch] = Reloaded(ch)]
  /\ UNCHANGED <<volume, status, due>>

(* Fault: a note begins with the length that is left, though that be none. *)
TriggerEventEmpty(ch) ==
  /\ length' = length
  /\ volume' = [volume EXCEPT ![ch] = StartVolume(ch)]
  /\ status' = IF DacOn(ch) THEN status \cup {ch} ELSE status
  /\ due' = due \ {ch}

TriggerEvent(ch) ==
  /\ length' = IF length[ch] = 0 THEN [length EXCEPT ![ch] = Reloaded(ch)] ELSE length
  /\ volume' = [volume EXCEPT ![ch] = StartVolume(ch)]
  /\ status' = IF DacOn(ch) THEN status \cup {ch} ELSE status
  /\ due' = due \ {ch}

(* The kernel runs the methods of a delta cycle in any order. *)
Deliver ==
  \E l \in pending :
    /\ pending' = pending \ {l}
    /\ IF l[1] = "reload" THEN ReloadLength(l[2]) ELSE TriggerEvent(l[2])
    /\ UNCHANGED <<reg, power, line, asked, square, loop, lsb, code>>

-----------------------------------------------------------------------------
(* AudioLoop: lengths four times, the sweep twice and envelopes once in 65536 cycles. *)

LengthEnabled(ch) == (reg[ControlReg[ch]] \div 64) % 2 = 1
Counts(ch) == LengthEnabled(ch) /\ length[ch] >= 1

(* Fault: the bit of a channel that ran out stays set. *)
DecrementLengthsOnly ==
  /\ length' = [ch \in Channels |-> IF Counts(ch) THEN length[ch] - 1 ELSE length[ch]]
  /\ status' = status

DecrementLengths ==
  /\ length' = [ch \in Channels |-> IF Counts(ch) THEN length[ch] - 1 ELSE length[ch]]
  /\ status' = status \ {ch \in Channels : Counts(ch) /\ length[ch] = 1}

SweepStep == reg[NR10] % 8
SweepDown == (reg[NR10] \div 8) % 2 = 1
SweepPeriod == (reg[NR10] \div 16) % 8
Sweeps == SweepPeriod # 0 /\ sweep >= SweepPeriod

PowersOfTwo == <<1, 2, 4, 8, 16, 32, 64, 128>>

(***************************************************************************)
(* dir * frequency is divided as an unsigned number: for dir = -1 it is    *)
(* 2^32 less the frequency, and what a shift leaves of that is far above   *)
(* 2047; without a shift the sum wraps around to zero.                     *)
(***************************************************************************)
Swept ==
  LET sum == freq + (freq \div PowersOfTwo[SweepStep + 1])
  IN  IF freq = 0 \/ (SweepDown /\ SweepStep = 0) THEN 0
      ELSE IF SweepDown \/ sum > 2047 THEN Above ELSE sum

(* The lengths, and the first part of the sweep, if it is one's turn. *)
LengthsAndSweep(here, next) ==
  /\ stage = here
  /\ DecrementLengths
  /\ IF Sweeps
     THEN /\ stage' = "check" /\ after' = next
          /\ freq' = Swept /\ pitch' = Swept
          /\ sweep' = 0
     ELSE /\ stage' = next
          /\ sweep' = IF SweepPeriod = 0 THEN sweep ELSE sweep + 1
          /\ UNCHANGED <<after, freq, pitch>>
  /\ UNCHANGED <<reg, volume, beat>>

Lengths(here, next) ==
  /\ stage = here /\ stage' = next
  /\ DecrementLengths
  /\ UNCHANGED <<reg, volume, square, after, beat>>

(* Up or down by one, every period-th beat. *)
Stepped(ch) ==
  LET period == reg[VolumeReg[ch]] % 8
      up == (reg[VolumeReg[ch]] \div 8) % 2 = 1
      v == volume[ch]
  IN  IF ch \notin Enveloped \/ period = 0 \/ beat % period # 0 THEN v
      ELSE IF up THEN (IF v < 14 THEN v + 1 ELSE 15) ELSE (IF v > 1 THEN v - 1 ELSE 0)

UpdateEnvelopes ==
  /\ stage = "fifth" /\ stage' = "first"
  /\ volume' = [ch \in Channels |-> Stepped(ch)]
  /\ beat' = (beat + 1) % Beats
  /\ UNCHANGED <<reg, status, length, square, after>>

(* It waits for time, which does not advance while a method is to run. *)
AudioLoop ==
  /\ pending = {}
  /\ \/ Lengths("first", "second") \/ LengthsAndSweep("second", "third")
     \/ Lengths("third", "fourth") \/ LengthsAndSweep("fourth", "fifth")
     \/ UpdateEnvelopes
  /\ UNCHANGED <<power, signals, lsb, code>>

(***************************************************************************)
(* The rest of DoSweep.  The callback may store square1.frequency between  *)
(* any two of these steps, and the code's reads of it may or may not see   *)
(* that.  NR14 loses the bit that enables the length.                      *)
(***************************************************************************)
DoSweep ==
  /\ \E f \in {freq, pitch} :
       LET kept == IF f = Above THEN 2047 ELSE f
       IN  \/ /\ stage = "check" /\ stage' = "lsb"
              /\ status' = IF f = Above THEN status \ {"square1"} ELSE status
              /\ freq' = kept /\ pitch' = kept
              /\ reg' = reg
           \/ /\ stage = "lsb" /\ stage' = "msb"
              /\ reg' = [reg EXCEPT ![NR13] = kept % 256]
              /\ UNCHANGED <<status, freq, pitch>>
           \/ /\ stage = "msb" /\ stage' = after
              /\ reg' = [reg EXCEPT ![NR14] = kept \div 256]
              /\ UNCHANGED <<status, freq, pitch>>
  /\ UNCHANGED <<power, signals, notes, sweep, after, beat, lsb, code>>

-----------------------------------------------------------------------------
(* The audio callback: first one half of the frequency, then the other. *)

ReadLsb ==
  /\ lsb = 256 /\ power
  /\ lsb' = reg[NR13]
  /\ UNCHANGED <<reg, power, status, signals, notes, square, loop, code>>

StoreFrequency ==
  /\ lsb # 256
  /\ freq' = 256 * (reg[NR14] % 8) + lsb
  /\ lsb' = 256
  /\ UNCHANGED <<reg, power, status, signals, notes, sweep, pitch, loop, code>>

-----------------------------------------------------------------------------
Next == Write \/ Update \/ Deliver \/ AudioLoop \/ DoSweep \/ ReadLsb \/ StoreFrequency

(***************************************************************************)
(* The kernel ends every delta cycle and wakes AudioLoop in its time; the  *)
(* program writes what it likes, and SDL calls when it likes.              *)
(***************************************************************************)
Spec == Init /\ [][Next]_vars /\ SF_vars(Update) /\ WF_vars(Deliver) /\ WF_vars(AudioLoop)
             /\ WF_vars(DoSweep)

-----------------------------------------------------------------------------
(***************************************************************************)
(* A channel that NR52 shows as playing has some of its length left, and   *)
(* the sound is on: the program's writes, the length counters, the sweep   *)
(* and the notes that begin a delta cycle after they were asked for, which *)
(* may be after the sound was turned off, agree about it in every order.   *)
(***************************************************************************)
PlayingHasLength == \A ch \in status : power /\ length[ch] > 0

(***************************************************************************)
(* While a note of an enveloped channel is due, its signal is about to     *)
(* change or the change is about to be handled: no further write takes the *)
(* change back, be it of the same delta cycle or before the methods run.   *)
(***************************************************************************)
NotesUnderWay ==
  \A ch \in Enveloped :
    LET l == <<"trigger", ch>>
    IN  ch \in due => l \in pending \/ asked[l] # line[l]

(***************************************************************************)
(* A note that the program began by bit 7 of NRx4 sounds, unless its DAC   *)
(* was turned off: however many writes share a delta cycle, the signals'   *)
(* values do not cancel.  Of the wave channel it is not true: nothing      *)
(* writes its signal.                                                      *)
(***************************************************************************)
NotesBegin == \A ch \in Enveloped : ch \in due ~> ch \in status \/ ~DacOn(ch)

(***************************************************************************)
(* A note with its length enabled ends, unless the bit that enables the    *)
(* length is taken away: by the program, or by a sweep, which clears it.   *)
(***************************************************************************)
NotesEnd ==
  \A ch \in Channels : ch \in status /\ LengthEnabled(ch) ~> ch \notin status \/ ~LengthEnabled(ch)

(***************************************************************************)
(* A note plays out: of a channel that sounds, nothing but the length      *)
(* counter counts, one at a time; its end comes with the last count, by an *)
(* overflow of the sweep or by a store to NR52; and a note that begins     *)
(* while one plays does not start its length over.                         *)
(***************************************************************************)
CountsLengths == stage \in {"first", "second", "third", "fourth"} /\ stage' # stage

NotesPlayOut ==
  [][\A ch \in status :
       IF CountsLengths /\ LengthEnabled(ch)
         THEN length'[ch] = length[ch] - 1 /\ (ch \in status' <=> length[ch] > 1)
         ELSE /\ length'[ch] = length[ch] \/ <<"reload", ch>> \in pending \ pending'
              /\ \/ ch \in status'
                 \/ ch = "square1" /\ stage = "check" /\ stage' = "lsb"
                 \/ left' < left /\ status' = {} ]_vars
=============================================================================
