---------------------------- MODULE SoundProofs ----------------------------
(***************************************************************************)
(* Theorems about Sound: for every program, however long, every value the  *)
(* memory held before, and every interleaving with the audio callback.     *)
(***************************************************************************)
EXTENDS Sound, TLAPS

LEMMA Registers ==
  /\ \A ch \in Channels : /\ LengthReg[ch] \in Regs
                          /\ VolumeReg[ch] \in Regs /\ ControlReg[ch] \in Regs
  /\ NR10 \in Regs /\ NR13 \in Regs /\ NR14 \in Regs /\ NR30 \in Regs
  /\ \A ch \in Channels : VolumeReg[ch] # NR13 /\ VolumeReg[ch] # NR14 /\ VolumeReg[ch] # NR30
BY DEF Channels, LengthReg, VolumeReg, ControlReg, Regs, NR52, NR10, NR13, NR14, NR30

(* A length to reload is never none. *)
LEMMA ReloadedPositive ==
  ASSUME TypeOK, NEW ch \in Channels
  PROVE  Reloaded(ch) \in Nat /\ Reloaded(ch) > 0
<1>1. reg[LengthReg[ch]] \in Nat
  BY Registers DEF TypeOK, Byte
<1>2. FullLength(ch) \in {64, 256}
  BY DEF FullLength
<1>3. CASE FullLength(ch) = 64
  BY <1>1, <1>3 DEF Reloaded
<1>4. CASE FullLength(ch) = 256
  BY <1>1, <1>4 DEF Reloaded
<1> QED
  BY <1>2, <1>3, <1>4

LEMMA SweptType == ASSUME TypeOK PROVE Swept \in Frequency
<1> DEFINE k == SweepStep + 1
           d == PowersOfTwo[k]
<1>1. SweepStep \in 0 .. 7
  BY Registers DEF TypeOK, Byte, SweepStep
<1>2. d \in {1, 2, 4, 8, 16, 32, 64, 128}
  BY <1>1 DEF PowersOfTwo
<1>3. freq \in Nat
  BY DEF TypeOK, Frequency
<1> HIDE DEF d
<1>4. freq \div d \in Nat
  BY <1>2, <1>3
<1> QED
  BY <1>3, <1>4 DEF Swept, Frequency, Above, d

LEMMA SteppedType == ASSUME TypeOK, NEW ch \in Channels PROVE Stepped(ch) \in Int
<1>1. volume[ch] \in Int
  BY DEF TypeOK
<1> QED
  BY <1>1 DEF Stepped

LEMMA AskedType ==
  ASSUME TypeOK, NEW a, NEW v PROVE Asked(a, v) \in [Lines -> BOOLEAN]
BY DEF TypeOK, Asked

LEMMA Decrements ==
  ASSUME TypeOK, DecrementLengths
  PROVE  /\ length' \in [Channels -> Nat] /\ status' \subseteq status
         /\ \A ch \in status' : length[ch] > 0 => length'[ch] > 0
<1>1. \A ch \in Channels : length[ch] \in Nat
  BY DEF TypeOK
<1>2. length' \in [Channels -> Nat]
  BY <1>1 DEF DecrementLengths, Counts
<1>3. ASSUME NEW ch \in status', length[ch] > 0 PROVE length'[ch] > 0
  <2>1. ch \in status /\ ch \in Channels /\ ~(Counts(ch) /\ length[ch] = 1)
    BY <1>3 DEF DecrementLengths, TypeOK
  <2> QED
    BY <1>1, <1>3, <2>1 DEF DecrementLengths
<1> QED
  BY <1>2, <1>3 DEF DecrementLengths

-----------------------------------------------------------------------------
(***************************************************************************)
(* The write handler, the signals, the methods behind them, AudioLoop and  *)
(* the callback keep every variable in its range: bytes in the registers,  *)
(* lengths that do not wrap below zero.                                    *)
(***************************************************************************)
THEOREM TypeCorrect == Spec => []TypeOK
<1> USE DEF Waits
<1>1. Init => TypeOK
  BY StartsAssumption DEF Init, TypeOK, Byte, Frequency, Above
<1>2. TypeOK /\ [Next]_vars => TypeOK'
  <2> SUFFICES ASSUME TypeOK, [Next]_vars PROVE TypeOK'
    OBVIOUS
  <2> USE DEF TypeOK
  <2>1. CASE Write
    <3>1. PICK w \in writes : IF w[1] = NR52 THEN WritePower(w[2]) ELSE WriteRegister(w[1], w[2])
      BY <2>1 DEF Write
    <3>2. w[2] \in Byte /\ w[2] \in Nat /\ w \in (Regs \cup {NR52}) \X Byte
      BY DEF Byte
    <3>6. w[1] \in Regs \cup {NR52}
      BY <3>2
    <3>7. 0 \in Byte
      BY DEF Byte
    <3>3. reg' \in [Regs -> Byte] /\ power' \in BOOLEAN /\ status' \in SUBSET Channels
      <4>1. CASE w[1] = NR52
        BY <3>1, <3>7, <4>1 DEF WritePower
      <4>2. CASE w[1] # NR52
        BY <3>1, <3>2, <3>6, <4>2 DEF WriteRegister
      <4> QED
        BY <4>1, <4>2
    <3>4. asked' \in [Lines -> BOOLEAN] /\ due' \in SUBSET Channels
      BY <3>1, AskedType DEF WritePower, WriteRegister
    <3>5. left' \in Nat
      BY <2>1 DEF Write
    <3> QED
      BY <2>1, <3>3, <3>4, <3>5 DEF Write, notes, square, loop
  <2>2. CASE Update
    BY <2>2 DEF Update, notes, square, loop, code
  <2>3. CASE Deliver
    <3>1. PICK l \in pending :
            /\ pending' = pending \ {l}
            /\ IF l[1] = "reload" THEN ReloadLength(l[2]) ELSE TriggerEvent(l[2])
            /\ UNCHANGED <<reg, power, line, asked, square, loop, lsb, code>>
      BY <2>3 DEF Deliver
    <3>2. l[2] \in Channels
      BY DEF Lines
    <3>3. Reloaded(l[2]) \in Nat /\ StartVolume(l[2]) \in Int
      BY <3>2, ReloadedPositive, Registers DEF StartVolume, Byte
    <3>4. length' \in [Channels -> Nat] /\ volume' \in [Channels -> Int]
      BY <3>1, <3>2, <3>3 DEF ReloadLength, TriggerEvent
    <3>5. status' \in SUBSET Channels /\ due' \in SUBSET Channels
      BY <3>1, <3>2 DEF ReloadLength, TriggerEvent
    <3> QED
      BY <3>1, <3>4, <3>5 DEF square, loop, code
  <2>4. CASE AudioLoop
    <3>1. CASE \E here, next \in Waits : Lengths(here, next)
      BY <2>4, <3>1, Decrements DEF AudioLoop, Lengths, signals, square, code
    <3>2. CASE \E here, next \in Waits : LengthsAndSweep(here, next)
      <4>1. PICK here \in Waits, next \in Waits : LengthsAndSweep(here, next)
        BY <3>2
      <4>2. length' \in [Channels -> Nat] /\ status' \in SUBSET Channels
        BY <4>1, Decrements DEF LengthsAndSweep
      <4>3. /\ freq' \in Frequency /\ pitch' \in Frequency /\ sweep' \in Nat
            /\ stage' \in Waits \cup {"check", "lsb", "msb"} /\ after' \in Waits
        BY <4>1, SweptType DEF LengthsAndSweep
      <4> QED
        BY <2>4, <4>1, <4>2, <4>3 DEF AudioLoop, LengthsAndSweep, signals, code
    <3>3. CASE UpdateEnvelopes
      <4>1. volume' \in [Channels -> Int]
        BY <3>3, SteppedType DEF UpdateEnvelopes
      <4>2. beat' \in {x \in Nat : x < Beats}
        BY <3>3, StartsAssumption DEF UpdateEnvelopes
      <4> QED
        BY <2>4, <3>3, <4>1, <4>2 DEF AudioLoop, UpdateEnvelopes, signals, square, code
    <3> QED
      BY <2>4, <3>1, <3>2, <3>3 DEF AudioLoop
  <2>5. CASE DoSweep
    <3>1. PICK f \in {freq, pitch} :
            LET kept == IF f = Above THEN 2047 ELSE f
            IN  \/ /\ stage = "check" /\ stage' = "lsb"
                   /\ status' = IF f = Above THEN status \ {"square1"} ELSE status
                   /\ freq' = kept /\ pitch' = kept
                   /\ reg' = reg
                \/ /\ stage = "lsb" /\ stage' = "msb"
                   /\ reg' = [reg EXCEPT ![NR13] = kept % 256]
                   /\ UNCHANGED <<status, freq, pitch>>
                \/ /\ stage = "msb" /\ stage' = after
                   /\ reg' = [reg EXCEPT ![NR14] = kept \div 256]
                   /\ UNCHANGED <<status, freq, pitch>>
      BY <2>5 DEF DoSweep
    <3> DEFINE kept == IF f = Above THEN 2047 ELSE f
    <3>2. kept \in Frequency /\ kept % 256 \in Byte /\ kept \div 256 \in Byte
      BY DEF Frequency, Above, Byte
    <3> HIDE DEF kept
    <3>3. /\ reg' \in [Regs -> Byte] /\ status' \in SUBSET Channels
          /\ freq' \in Frequency /\ pitch' \in Frequency
      BY <3>1, <3>2 DEF kept
    <3>4. stage' \in Waits \cup {"check", "lsb", "msb"}
      BY <3>1
    <3> QED
      BY <2>5, <3>3, <3>4 DEF DoSweep, signals, notes, code
  <2>6. CASE ReadLsb
    <3>1. reg[NR13] \in Byte
      BY Registers
    <3> QED
      BY <2>6, <3>1 DEF ReadLsb, Byte, signals, notes, square, loop, code
  <2>7. CASE StoreFrequency
    <3>1. reg[NR14] \in Byte /\ lsb < 256
      BY <2>7, Registers DEF StoreFrequency
    <3>2. 256 * (reg[NR14] % 8) + lsb \in Frequency
      BY <3>1 DEF Frequency, Above, Byte
    <3> QED
      BY <2>7, <3>2 DEF StoreFrequency, signals, notes, loop, code
  <2>8. CASE UNCHANGED vars
    BY <2>8 DEF vars, signals, notes, square, loop, code
  <2> QED
    BY <2>1, <2>2, <2>3, <2>4, <2>5, <2>6, <2>7, <2>8 DEF Next
<1> QED
  BY <1>1, <1>2, PTL DEF Spec

-----------------------------------------------------------------------------
(***************************************************************************)
(* Why a note that begins late begins with the sound on: turning it off    *)
(* clears the volume registers, so that no DAC is on; and the method of    *)
(* the wave channel, which asks for no DAC, never runs.                    *)
(***************************************************************************)
OffMeansNoDac == power \/ \A ch \in Enveloped : reg[VolumeReg[ch]] = 0
WaveTrigger == <<"trigger", "wave">>
NoWaveTrigger ==
  asked[WaveTrigger] = FALSE /\ line[WaveTrigger] = FALSE /\ WaveTrigger \notin pending

SoundInv == TypeOK /\ PlayingHasLength /\ OffMeansNoDac /\ NoWaveTrigger

LEMMA AskedNoWave ==
  ASSUME TypeOK, NoWaveTrigger, NEW a, NEW v
  PROVE  Asked(a, v)[WaveTrigger] = FALSE
<1>1. WaveTrigger \in Lines
  BY DEF Lines, Channels, WaveTrigger
<1>2. WaveTrigger \notin Inverts(a, v)
  BY DEF Inverts, Enveloped, WaveTrigger
<1>3. WaveTrigger \notin Raises(a)
  BY DEF Raises, WaveTrigger
<1> QED
  BY <1>1, <1>2, <1>3 DEF Asked, NoWaveTrigger

LEMMA SoundInvInit == Init => SoundInv
<1> SUFFICES ASSUME Init PROVE SoundInv
  OBVIOUS
<1>1. TypeOK
  BY StartsAssumption DEF Init, TypeOK, Byte, Frequency, Above, Waits
<1>2. PlayingHasLength
  BY DEF Init, PlayingHasLength
<1>3. OffMeansNoDac
  BY StartsAssumption, Registers DEF Init, OffMeansNoDac, Enveloped
<1>4. WaveTrigger \in Lines
  BY DEF Lines, Channels, WaveTrigger
<1>5. NoWaveTrigger
  BY <1>4 DEF Init, NoWaveTrigger
<1> QED
  BY <1>1, <1>2, <1>3, <1>5 DEF SoundInv

LEMMA SoundInvNext == SoundInv /\ TypeOK' /\ [Next]_vars => SoundInv'
<1> SUFFICES ASSUME SoundInv, TypeOK', [Next]_vars PROVE SoundInv'
  OBVIOUS
<1> USE DEF SoundInv
<1>1. CASE Write
  <2>1. PICK w \in writes : IF w[1] = NR52 THEN WritePower(w[2]) ELSE WriteRegister(w[1], w[2])
    BY <1>1 DEF Write
  <2>2. UNCHANGED <<line, pending, length>>
    BY <1>1 DEF Write, notes
  <2>3. CASE w[1] = NR52
    <3>1. WritePower(w[2])
      BY <2>1, <2>3
    <3>2. PlayingHasLength'
      BY <3>1 DEF WritePower, PlayingHasLength
    <3>3. OffMeansNoDac'
      <4>1. CASE w[2] >= 128
        BY <3>1, <4>1 DEF WritePower, OffMeansNoDac
      <4>2. CASE ~(w[2] >= 128)
        BY <3>1, <4>2, Registers DEF WritePower, OffMeansNoDac, Enveloped
      <4> QED
        BY <4>1, <4>2
    <3>5. asked' = asked
      BY <3>1 DEF WritePower
    <3>4. NoWaveTrigger'
      BY <2>2, <3>5 DEF NoWaveTrigger
    <3> QED
      BY <3>2, <3>3, <3>4
  <2>4. CASE w[1] # NR52
    <3>1. WriteRegister(w[1], w[2])
      BY <2>1, <2>4
    <3>2. PlayingHasLength'
      BY <2>2, <3>1 DEF WriteRegister, PlayingHasLength
    <3>3. OffMeansNoDac'
      BY <3>1 DEF WriteRegister, OffMeansNoDac
    <3>5. Asked(w[1], w[2])[WaveTrigger] = FALSE
      BY AskedNoWave
    <3>6. asked' = asked \/ asked' = Asked(w[1], w[2])
      BY <3>1 DEF WriteRegister
    <3>4. NoWaveTrigger'
      BY <2>2, <3>5, <3>6 DEF NoWaveTrigger
    <3> QED
      BY <3>2, <3>3, <3>4
  <2> QED
    BY <2>3, <2>4
<1>2. CASE Update
  <2>1. PlayingHasLength' /\ OffMeansNoDac'
    BY <1>2 DEF Update, PlayingHasLength, OffMeansNoDac, notes
  <2>2. NoWaveTrigger'
    BY <1>2 DEF Update, NoWaveTrigger
  <2> QED
    BY <2>1, <2>2
<1>3. CASE Deliver
  <2>1. PICK l \in pending :
          /\ pending' = pending \ {l}
          /\ IF l[1] = "reload" THEN ReloadLength(l[2]) ELSE TriggerEvent(l[2])
          /\ UNCHANGED <<reg, power, line, asked, square, loop, lsb, code>>
    BY <1>3 DEF Deliver
  <2>2. l[2] \in Channels /\ l[1] \in {"reload", "trigger"} /\ l = <<l[1], l[2]>>
    BY DEF TypeOK, Lines
  <2>3. Reloaded(l[2]) > 0 /\ Reloaded(l[2]) \in Nat
    BY <2>2, ReloadedPositive
  <2>4. \A ch \in Channels : length[ch] \in Nat
    BY DEF TypeOK
  <2>5. OffMeansNoDac' /\ NoWaveTrigger'
    BY <2>1 DEF OffMeansNoDac, NoWaveTrigger
  <2>6. CASE l[1] = "reload"
    <3>1. \A ch \in Channels : length'[ch] = IF ch = l[2] THEN Reloaded(l[2]) ELSE length[ch]
      BY <2>1, <2>6 DEF ReloadLength, TypeOK
    <3>2. PlayingHasLength'
      BY <2>1, <2>3, <2>6, <3>1 DEF ReloadLength, PlayingHasLength, TypeOK
    <3> QED
      BY <2>5, <3>2
  <2>7. CASE l[1] # "reload"
    <3>1. TriggerEvent(l[2]) /\ l[1] = "trigger"
      BY <2>1, <2>2, <2>7
    <3>2. l[2] \in Enveloped
      BY <2>2, <3>1 DEF NoWaveTrigger, WaveTrigger, Enveloped
    <3>3. DacOn(l[2]) => power
      BY <3>2 DEF DacOn, OffMeansNoDac, Enveloped
    <3>4. \A ch \in Channels : length[ch] > 0 => length'[ch] > 0
      BY <2>3, <2>4, <3>1 DEF TriggerEvent, TypeOK
    <3>5. length'[l[2]] > 0
      BY <2>2, <2>3, <2>4, <3>1 DEF TriggerEvent, TypeOK
    <3>6. status' \subseteq status \cup {l[2]} /\ power' = power
      BY <2>1, <3>1 DEF TriggerEvent
    <3>7. l[2] \in status' => power
      BY <3>1, <3>3 DEF TriggerEvent, PlayingHasLength
    <3>8. PlayingHasLength'
      BY <3>4, <3>5, <3>6, <3>7 DEF PlayingHasLength, TypeOK
    <3> QED
      BY <2>5, <3>8
  <2> QED
    BY <2>6, <2>7
<1>4. CASE AudioLoop
  <2>1. UNCHANGED <<reg, power, signals>>
    BY <1>4 DEF AudioLoop, Lengths, LengthsAndSweep, UpdateEnvelopes
  <2>2. OffMeansNoDac' /\ NoWaveTrigger'
    BY <2>1 DEF OffMeansNoDac, NoWaveTrigger, signals
  <2>3. CASE UpdateEnvelopes
    BY <2>1, <2>2, <2>3 DEF UpdateEnvelopes, PlayingHasLength
  <2>4. CASE DecrementLengths
    <3>1. status' \subseteq status /\ \A ch \in status' : length[ch] > 0 => length'[ch] > 0
      BY <2>4, Decrements
    <3> QED
      BY <2>1, <2>2, <3>1 DEF PlayingHasLength
  <2> QED
    BY <1>4, <2>3, <2>4 DEF AudioLoop, Lengths, LengthsAndSweep
<1>5. CASE DoSweep
  <2>1. /\ UNCHANGED <<power, signals, length>> /\ status' \subseteq status
        /\ \A i \in Regs : i # NR13 /\ i # NR14 => reg'[i] = reg[i]
    BY <1>5 DEF DoSweep, notes, TypeOK
  <2>2. OffMeansNoDac' /\ NoWaveTrigger'
    BY <2>1, Registers DEF OffMeansNoDac, NoWaveTrigger, signals, Enveloped
  <2> QED
    BY <2>1, <2>2 DEF PlayingHasLength
<1>6. CASE ReadLsb \/ StoreFrequency \/ UNCHANGED vars
  <2>1. UNCHANGED <<reg, power, status, signals, length>>
    BY <1>6 DEF ReadLsb, StoreFrequency, vars, notes
  <2> QED
    BY <2>1 DEF PlayingHasLength, OffMeansNoDac, NoWaveTrigger, signals
<1> QED
  BY <1>1, <1>2, <1>3, <1>4, <1>5, <1>6 DEF Next

(***************************************************************************)
(* NR52 shows a channel as playing only while the sound is on and some of  *)
(* the channel's length is left, although notes begin a delta cycle after  *)
(* the write to NRx4 and the counters are decremented by another process.  *)
(***************************************************************************)
THEOREM PlayingHasLengthHolds == Spec => []PlayingHasLength
<1>1. SoundInv => PlayingHasLength
  BY DEF SoundInv
<1> QED
  BY <1>1, SoundInvInit, SoundInvNext, TypeCorrect, PTL DEF Spec

-----------------------------------------------------------------------------
(* Notes that were asked for. *)

TriggerOf(ch) == <<"trigger", ch>>

LEMMA Triggers ==
  /\ \A ch \in Enveloped : TriggerOf(ch) \in Lines /\ ch \in Channels
  /\ \A l \in Lines : l[1] # "reload" => l = TriggerOf(l[2])
  /\ \A l \in Lines, ch \in Channels : l = TriggerOf(ch) => l[1] = "trigger" /\ l[2] = ch
BY DEF TriggerOf, Lines, Enveloped, Channels

(* What a write asks of the signal that begins a channel's note. *)
LEMMA AskedTrigger ==
  ASSUME TypeOK, NEW a \in Regs, NEW v \in Byte, NEW ch \in Enveloped
  PROVE  Asked(a, v)[TriggerOf(ch)] =
           IF a = ControlReg[ch] /\ v >= 128 THEN ~line[TriggerOf(ch)] ELSE asked[TriggerOf(ch)]
<1>1. TriggerOf(ch) \in Lines
  BY Triggers
<1>2. TriggerOf(ch) \notin Raises(a)
  BY DEF Raises, TriggerOf
<1>3. /\ ControlReg[ch] # NR10 /\ ControlReg[ch] # LengthReg["square2"]
      /\ \A c \in Enveloped : ControlReg[c] = ControlReg[ch] => c = ch
  BY DEF Enveloped, Channels, ControlReg, LengthReg, NR10
<1>4. TriggerOf(ch) \in Inverts(a, v) <=> a = ControlReg[ch] /\ v >= 128
  <2>1. CASE a = NR10
    BY <1>3, <2>1 DEF Inverts, TriggerOf
  <2>2. CASE a # NR10 /\ a = LengthReg["square2"]
    <3>1. Inverts(a, v) = {<<"reload", "square2">>}
      BY <2>2 DEF Inverts, LengthReg, NR10, ControlReg, Enveloped, Channels
    <3> QED
      BY <1>3, <2>2, <3>1 DEF TriggerOf
  <2>3. CASE a # NR10 /\ a # LengthReg["square2"] /\ v >= 128 /\ \E c \in Enveloped : a = ControlReg[c]
    <3>1. Inverts(a, v) = {TriggerOf(c) : c \in {c \in Enveloped : a = ControlReg[c]}}
      BY <2>3 DEF Inverts, TriggerOf
    <3>2. \A c \in Enveloped : TriggerOf(c) = TriggerOf(ch) => c = ch
      BY DEF TriggerOf
    <3> QED
      BY <1>3, <2>3, <3>1, <3>2
  <2>4. CASE a # NR10 /\ a # LengthReg["square2"] /\ ~(v >= 128 /\ \E c \in Enveloped : a = ControlReg[c])
    <3>1. Inverts(a, v) = {}
      BY <2>4 DEF Inverts
    <3> QED
      BY <2>4, <3>1
  <2> QED
    BY <2>1, <2>2, <2>3, <2>4
<1> QED
  BY <1>1, <1>2, <1>4 DEF Asked

LEMMA DueInit == Init => NotesUnderWay
BY DEF Init, NotesUnderWay

LEMMA DueNext == TypeOK /\ NotesUnderWay /\ [Next]_vars => NotesUnderWay'
<1> SUFFICES ASSUME TypeOK, NotesUnderWay, [Next]_vars, NEW ch \in Enveloped, ch \in due'
             PROVE  TriggerOf(ch) \in pending' \/ asked'[TriggerOf(ch)] # line'[TriggerOf(ch)]
  BY DEF NotesUnderWay, TriggerOf
<1>1. ch \in due => TriggerOf(ch) \in pending \/ asked[TriggerOf(ch)] # line[TriggerOf(ch)]
  BY DEF NotesUnderWay, TriggerOf
<1>2. CASE Write
  <2>1. PICK w \in writes : IF w[1] = NR52 THEN WritePower(w[2]) ELSE WriteRegister(w[1], w[2])
    BY <1>2 DEF Write
  <2>2. pending' = pending /\ line' = line
    BY <1>2 DEF Write
  <2>3. CASE asked' = asked /\ due' = due
    BY <1>1, <2>2, <2>3
  <2>4. CASE /\ w[1] # NR52
             /\ asked' = Asked(w[1], w[2])
             /\ due' = due \cup {c \in Channels : w[1] = ControlReg[c] /\ w[2] >= 128}
    <3>1. w[1] \in Regs /\ w[2] \in Byte
      BY <2>4 DEF TypeOK
    <3>2. asked'[TriggerOf(ch)] =
            IF w[1] = ControlReg[ch] /\ w[2] >= 128 THEN ~line[TriggerOf(ch)] ELSE asked[TriggerOf(ch)]
      BY <2>4, <3>1, AskedTrigger
    <3>3. line[TriggerOf(ch)] \in BOOLEAN
      BY Triggers DEF TypeOK
    <3>4. CASE w[1] = ControlReg[ch] /\ w[2] >= 128
      <4>1. asked'[TriggerOf(ch)] = ~line[TriggerOf(ch)]
        BY <3>2, <3>4, Zenon
      <4>2. (~line[TriggerOf(ch)]) # line[TriggerOf(ch)]
        BY <3>3
      <4> QED
        BY <2>2, <4>1, <4>2, Zenon
    <3>5. CASE ~(w[1] = ControlReg[ch] /\ w[2] >= 128)
      <4>1. ch \in due
        BY <2>4, <3>5
      <4>2. asked'[TriggerOf(ch)] = asked[TriggerOf(ch)]
        BY <3>2, <3>5, Zenon
      <4> QED
        BY <1>1, <2>2, <4>1, <4>2, Zenon
    <3> QED
      BY <3>4, <3>5
  <2> QED
    BY <2>1, <2>3, <2>4 DEF WritePower, WriteRegister
<1>3. CASE Update
  BY <1>1, <1>3, Triggers DEF Update, Settled
<1>4. CASE Deliver
  <2>1. PICK l \in pending :
          /\ pending' = pending \ {l}
          /\ IF l[1] = "reload" THEN ReloadLength(l[2]) ELSE TriggerEvent(l[2])
          /\ line' = line /\ asked' = asked
    BY <1>4 DEF Deliver
  <2>2. due' = IF l[1] = "reload" THEN due ELSE due \ {l[2]}
    BY <2>1 DEF ReloadLength, TriggerEvent
  <2>3. TriggerOf(ch) = l => l[1] # "reload" /\ l[2] = ch
    BY Triggers DEF TypeOK
  <2> QED
    BY <1>1, <2>1, <2>2, <2>3
<1>5. CASE UNCHANGED signals
  BY <1>1, <1>5 DEF signals
<1>6. AudioLoop \/ DoSweep \/ ReadLsb \/ StoreFrequency \/ UNCHANGED vars => UNCHANGED signals
  BY DEF AudioLoop, DoSweep, ReadLsb, StoreFrequency, vars, signals
<1> QED
  BY <1>2, <1>3, <1>4, <1>5, <1>6 DEF Next

(***************************************************************************)
(* NR14, NR24 and NR44: a note asked for is under way until it begins, for *)
(* any number of writes in one delta cycle; together with the kernel's     *)
(* fairness that is why it begins.                                         *)
(***************************************************************************)
THEOREM NotesAreUnderWay == Spec => []NotesUnderWay
BY DueInit, DueNext, TypeCorrect, PTL DEF Spec

-----------------------------------------------------------------------------
(* How a note plays out. *)

(* What a step may do to a channel that sounds. *)
PlaysOut(ch) ==
  IF CountsLengths /\ LengthEnabled(ch)
    THEN length'[ch] = length[ch] - 1 /\ (ch \in status' <=> length[ch] > 1)
    ELSE /\ length'[ch] = length[ch] \/ <<"reload", ch>> \in pending \ pending'
         /\ \/ ch \in status'
            \/ ch = "square1" /\ stage = "check" /\ stage' = "lsb"
            \/ left' < left /\ status' = {}

(* The length counter reaches none with the end of the note, not before or after. *)
LEMMA CountPlaysOut ==
  ASSUME SoundInv, AudioLoop, NEW ch \in status
  PROVE  PlaysOut(ch)
<1>1. ch \in Channels /\ length[ch] \in Nat /\ length[ch] > 0
  BY DEF SoundInv, PlayingHasLength, TypeOK
<1>2. CASE UpdateEnvelopes
  BY <1>2 DEF UpdateEnvelopes, CountsLengths, PlaysOut
<1>3. CASE ~UpdateEnvelopes
  <2>1. CountsLengths /\ DecrementLengths
    BY <1>3 DEF AudioLoop, Lengths, LengthsAndSweep, CountsLengths
  <2>2. /\ length'[ch] = IF Counts(ch) THEN length[ch] - 1 ELSE length[ch]
        /\ ch \in status' <=> ~(Counts(ch) /\ length[ch] = 1)
    BY <1>1, <2>1 DEF DecrementLengths
  <2>3. Counts(ch) <=> LengthEnabled(ch)
    BY <1>1 DEF Counts
  <2>4. CASE LengthEnabled(ch)
    BY <1>1, <2>1, <2>2, <2>3, <2>4 DEF PlaysOut
  <2>5. CASE ~LengthEnabled(ch)
    BY <2>2, <2>3, <2>5 DEF PlaysOut
  <2> QED
    BY <2>4, <2>5
<1> QED
  BY <1>2, <1>3

LEMMA DeliverPlaysOut ==
  ASSUME SoundInv, Deliver, NEW ch \in status
  PROVE  PlaysOut(ch)
<1>1. PICK l \in pending :
        /\ pending' = pending \ {l}
        /\ IF l[1] = "reload" THEN ReloadLength(l[2]) ELSE TriggerEvent(l[2])
        /\ UNCHANGED loop
  BY DEF Deliver
<1>2. l[2] \in Channels /\ l = <<l[1], l[2]>> /\ l \in pending \ pending'
  BY <1>1 DEF SoundInv, TypeOK, Lines
<1>3. ch \in Channels /\ length[ch] # 0 /\ ~CountsLengths
  BY <1>1 DEF SoundInv, PlayingHasLength, TypeOK, CountsLengths, loop
<1>4. ch \in status'
  BY <1>1 DEF ReloadLength, TriggerEvent
<1>5. CASE l[1] = "reload"
  <2>1. length'[ch] = length[ch] \/ l[2] = ch
    BY <1>1, <1>3, <1>5 DEF ReloadLength, SoundInv, TypeOK
  <2> QED
    BY <1>2, <1>3, <1>4, <1>5, <2>1 DEF PlaysOut
<1>6. CASE l[1] # "reload"
  <2>1. length'[ch] = length[ch]
    BY <1>1, <1>3, <1>6 DEF TriggerEvent, SoundInv, TypeOK
  <2> QED
    BY <1>3, <1>4, <2>1 DEF PlaysOut
<1> QED
  BY <1>5, <1>6

LEMMA RestPlaysOut ==
  ASSUME SoundInv, Write \/ Update \/ DoSweep \/ ReadLsb \/ StoreFrequency, NEW ch \in status
  PROVE  PlaysOut(ch)
<1>1. length' = length
  BY DEF Write, Update, DoSweep, ReadLsb, StoreFrequency, notes
<1>2. CASE Write
  <2>1. left' < left /\ stage' = stage
    BY <1>2 DEF Write, loop, SoundInv, TypeOK
  <2>2. status' = status \/ status' = {}
    BY <1>2 DEF Write, WritePower, WriteRegister
  <2> QED
    BY <1>1, <2>1, <2>2 DEF PlaysOut, CountsLengths
<1>3. CASE DoSweep
  <2>1. ~CountsLengths
    BY <1>3 DEF DoSweep, CountsLengths
  <2>2. status' = status \/ (status' = status \ {"square1"} /\ stage = "check" /\ stage' = "lsb")
    BY <1>3 DEF DoSweep
  <2> QED
    BY <1>1, <2>1, <2>2 DEF PlaysOut
<1>4. CASE Update \/ ReadLsb \/ StoreFrequency
  <2>1. stage' = stage /\ status' = status
    BY <1>4 DEF Update, ReadLsb, StoreFrequency, loop
  <2> QED
    BY <1>1, <2>1 DEF PlaysOut, CountsLengths
<1> QED
  BY <1>2, <1>3, <1>4

(***************************************************************************)
(* DecrementLengths, TriggerEvent and the sweep: a note that sounds with   *)
(* its length enabled ends exactly with its last count, unless a sweep or  *)
(* a store to NR52 ends it before or its signal reloads the length.        *)
(***************************************************************************)
THEOREM NotesPlayOutInTime == Spec => NotesPlayOut
<1>1. SoundInv /\ [Next]_vars => [\A ch \in status : PlaysOut(ch)]_vars
  BY CountPlaysOut, DeliverPlaysOut, RestPlaysOut DEF Next
<1>2. [\A ch \in status : PlaysOut(ch)]_vars =>
        [\A ch \in status :
           IF CountsLengths /\ LengthEnabled(ch)
             THEN length'[ch] = length[ch] - 1 /\ (ch \in status' <=> length[ch] > 1)
             ELSE /\ length'[ch] = length[ch] \/ <<"reload", ch>> \in pending \ pending'
                  /\ \/ ch \in status'
                     \/ ch = "square1" /\ stage = "check" /\ stage' = "lsb"
                     \/ left' < left /\ status' = {}]_vars
  BY DEF PlaysOut
<1> QED
  BY <1>1, <1>2, SoundInvInit, SoundInvNext, TypeCorrect, PTL DEF Spec, NotesPlayOut
=============================================================================
