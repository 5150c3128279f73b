-------------------------- MODULE CartridgeProofs --------------------------
(***************************************************************************)
(* Proofs about Cartridge, for any number of banks, any stored values and  *)
(* any bytes written to the controller's registers.                        *)
(***************************************************************************)
EXTENDS Cartridge, TLAPS

(***************************************************************************)
(* What the registers remember of the writes, for each controller.         *)
(***************************************************************************)
Mbc1Inv ==
  /\ reg.low = last["bank"] % 32
  /\ reg.bits = last["bits"] % 4
  /\ reg.mode <=> last["mode"] % 2 = 1

Mbc3Inv ==
  /\ reg.rtc <=> last["bits"] >= 8
  /\ ~reg.rtc => reg.ramInd = last["bits"] /\ ramBank = last["bits"]
  /\ (IF reg.romInd = 0 THEN 1 ELSE reg.romInd) = RomBankAsked

Mbc5Inv ==
  /\ reg.low = last["bank"]
  /\ reg.high = last["bankHigh"] % 2
  /\ reg.bits = last["bits"] % 16
  /\ reg.enabled => ramBank = reg.bits

RegInv ==
  /\ reg.enabled <=> RamAsked
  /\ mapper = "mbc1" => Mbc1Inv
  /\ mapper = "mbc3" => Mbc3Inv
  /\ mapper = "mbc5" => Mbc5Inv
  /\ mapper \in {"mbc1", "mbc5"} => ~reg.rtc
  /\ mapper = "mbc1" => ramBank = RamBankAsked

(***************************************************************************)
(* The save file is what the program had stored at the last orderly end.   *)
(***************************************************************************)
SaveInv == mapper \in Battery => saved = kept

CartridgeInv ==
  /\ TypeOK
  /\ power = "on" => RegInv
  /\ RomBankFollowsWrites
  /\ RamHoldsStores
  /\ SaveInv

-----------------------------------------------------------------------------
(* The registers. *)

Registers == [enabled : BOOLEAN, low : 0 .. 255, high : 0 .. 1, bits : 0 .. 15,
              mode : BOOLEAN, rtc : BOOLEAN, romInd : 0 .. 255, ramInd : 0 .. 15]

LEMMA ModFacts ==
  /\ \A n \in Nat : /\ n % 2 \in 0 .. 1 /\ n % 4 \in 0 .. 3 /\ n % 16 \in 0 .. 15
                    /\ n % 32 \in 0 .. 31 /\ n % 128 \in 0 .. 127 /\ n % 256 \in 0 .. 255
  /\ \A low \in 0 .. 31, bits \in 0 .. 3 : (low + 32 * bits) % 32 = low
  /\ \A low \in 0 .. 255, high \in 0 .. 1 : (256 * high + low) % 256 = low
  OBVIOUS

(* The Boolean fields stay Boolean, one register of each kind being set.    *)
LEMMA Booleans ==
  ASSUME reg \in Registers, NEW byte \in 0 .. 255, NEW s,
         s.enabled = reg.enabled \/ s.enabled = Enables(byte),
         s.mode = reg.mode \/ s.mode = (byte % 2 = 1),
         s.rtc = reg.rtc \/ s.rtc = (byte >= 8)
  PROVE  s.enabled \in BOOLEAN /\ s.mode \in BOOLEAN /\ s.rtc \in BOOLEAN
<1>1. /\ Enables(byte) \in BOOLEAN
      /\ (byte % 2 = 1) \in BOOLEAN /\ (byte >= 8) \in BOOLEAN
  BY DEF Enables
<1>2. reg.enabled \in BOOLEAN /\ reg.mode \in BOOLEAN /\ reg.rtc \in BOOLEAN
  BY DEF Registers
<1> QED
  BY <1>1, <1>2, Zenon

LEMMA RegistersIntro ==
  ASSUME NEW s,
         s = [enabled |-> s.enabled, low |-> s.low, high |-> s.high, bits |-> s.bits,
              mode |-> s.mode, rtc |-> s.rtc, romInd |-> s.romInd, ramInd |-> s.ramInd],
         s.enabled \in BOOLEAN, s.mode \in BOOLEAN, s.rtc \in BOOLEAN,
         s.low \in 0 .. 255, s.high \in 0 .. 1, s.bits \in 0 .. 15,
         s.romInd \in 0 .. 255, s.ramInd \in 0 .. 15
  PROVE  s \in Registers
BY DEF Registers

-----------------------------------------------------------------------------
(* The decoders, field by field. *)

LEMMA Mbc1Fields ==
  ASSUME reg \in Registers, NEW area \in Areas, NEW byte \in 0 .. 255,
         reg' = Mbc1(area, byte), reg.low \in 0 .. 31, reg.bits \in 0 .. 3
  PROVE  /\ reg' \in Registers
         /\ reg'.enabled = IF area = "enable" THEN Enables(byte) ELSE reg.enabled
         /\ reg'.low = IF area \in {"bank", "bankHigh"} THEN byte % 32 ELSE reg.low
         /\ reg'.bits = IF area = "bits" THEN byte % 4 ELSE reg.bits
         /\ reg'.mode = IF area = "mode" THEN byte % 2 = 1 ELSE reg.mode
         /\ reg'.rtc = reg.rtc
         /\ reg'.romInd = (IF reg'.low = 0 THEN 1 ELSE reg'.low) + (IF reg'.mode THEN 0 ELSE 32 * reg'.bits)
         /\ reg'.ramInd = IF reg'.mode THEN reg'.bits ELSE 0
<1> DEFINE s == reg'
<1>1. s.low = IF area \in {"bank", "bankHigh"} THEN byte % 32 ELSE reg.low
  BY DEF Mbc1, Registers
<1>2. s.bits = IF area = "bits" THEN byte % 4 ELSE reg.bits
  BY DEF Mbc1, Registers
<1>3. s.mode = IF area = "mode" THEN byte % 2 = 1 ELSE reg.mode
  BY DEF Mbc1, Registers
<1>4. s.enabled = IF area = "enable" THEN Enables(byte) ELSE reg.enabled
  BY DEF Mbc1, Registers, Enables
<1>5. s.rtc = reg.rtc /\ s.high = reg.high
  BY DEF Mbc1, Registers
<1>6. s.ramInd = IF s.mode THEN s.bits ELSE 0
  BY DEF Mbc1, Registers
<1>7. s.low \in 0 .. 31 /\ s.bits \in 0 .. 3
  BY <1>1, <1>2, ModFacts DEF Registers
<1>8. s.romInd = LET ind == s.low + (IF s.mode THEN 0 ELSE 32 * s.bits)
                 IN  IF ind % 32 = 0 THEN ind + 1 ELSE ind
  BY DEF Mbc1, Registers
<1>9. s.romInd = (IF s.low = 0 THEN 1 ELSE s.low) + (IF s.mode THEN 0 ELSE 32 * s.bits)
  <2>1. (s.low + 32 * s.bits) % 32 = s.low /\ (s.low + 32 * 0) % 32 = s.low
    BY <1>7, ModFacts
  <2>2. CASE s.mode
    BY <1>7, <1>8, <2>1, <2>2
  <2>3. CASE ~s.mode
    BY <1>7, <1>8, <2>1, <2>3
  <2> QED
    BY <2>2, <2>3
<1>10. s.romInd \in 0 .. 255 /\ s.ramInd \in 0 .. 15
  BY <1>6, <1>7, <1>9
<1>11. s = [enabled |-> s.enabled, low |-> s.low, high |-> s.high, bits |-> s.bits,
            mode |-> s.mode, rtc |-> s.rtc, romInd |-> s.romInd, ramInd |-> s.ramInd]
  BY DEF Mbc1, Registers
<1>12. s.high \in 0 .. 1
  BY <1>5 DEF Registers
<1>13. s.enabled \in BOOLEAN /\ s.mode \in BOOLEAN /\ s.rtc \in BOOLEAN
  <2>1. s.enabled = reg.enabled \/ s.enabled = Enables(byte)
    BY <1>4
  <2>2. s.mode = reg.mode \/ s.mode = (byte % 2 = 1)
    BY <1>3
  <2>3. s.rtc = reg.rtc
    BY <1>5
  <2>4. Enables(byte) \in BOOLEAN /\ (byte % 2 = 1) \in BOOLEAN
    BY DEF Enables
  <2>5. reg.enabled \in BOOLEAN /\ reg.mode \in BOOLEAN /\ reg.rtc \in BOOLEAN
    BY DEF Registers
  <2> QED
    BY <2>1, <2>2, <2>3, <2>4, <2>5, Zenon
<1>14. s \in Registers
  BY <1>7, <1>10, <1>11, <1>12, <1>13, RegistersIntro
<1> QED
  BY <1>1, <1>2, <1>3, <1>4, <1>5, <1>6, <1>9, <1>14

LEMMA Mbc3Fields ==
  ASSUME reg \in Registers, NEW area \in Areas, NEW byte \in 0 .. 255,
         reg' = Mbc3(area, byte)
  PROVE  /\ reg' \in Registers
         /\ reg'.enabled = IF area = "enable" THEN Enables(byte) ELSE reg.enabled
         /\ reg'.rtc = IF area = "bits" /\ byte < 13 THEN byte >= 8 ELSE reg.rtc
         /\ reg'.ramInd = IF area = "bits" /\ byte < 8 THEN byte ELSE reg.ramInd
         /\ reg'.romInd = LET ind == IF area \in {"bank", "bankHigh"} THEN byte % 128 ELSE reg.romInd
                       IN  IF ind = 0 THEN 1 ELSE ind
<1> DEFINE s == reg'
<1>1. s.enabled = IF area = "enable" THEN Enables(byte) ELSE reg.enabled
  BY DEF Mbc3, Registers, Enables
<1>2. s.rtc = IF area = "bits" /\ byte < 13 THEN byte >= 8 ELSE reg.rtc
  BY DEF Mbc3, Registers
<1>3. s.ramInd = IF area = "bits" /\ byte < 8 THEN byte ELSE reg.ramInd
  BY DEF Mbc3, Registers
<1>4. s.romInd = LET ind == IF area \in {"bank", "bankHigh"} THEN byte % 128 ELSE reg.romInd
                IN  IF ind = 0 THEN 1 ELSE ind
  BY DEF Mbc3, Registers
<1>5. s.low = reg.low /\ s.high = reg.high /\ s.bits = reg.bits /\ s.mode = reg.mode
  BY DEF Mbc3, Registers
<1>6. /\ s.romInd \in 0 .. 255 /\ s.ramInd \in 0 .. 15
      /\ s.low \in 0 .. 255 /\ s.high \in 0 .. 1 /\ s.bits \in 0 .. 15
  BY <1>3, <1>4, <1>5, ModFacts DEF Registers
<1>7. s = [enabled |-> s.enabled, low |-> s.low, high |-> s.high, bits |-> s.bits,
           mode |-> s.mode, rtc |-> s.rtc, romInd |-> s.romInd, ramInd |-> s.ramInd]
  BY DEF Mbc3, Registers
<1>8. s.enabled \in BOOLEAN /\ s.mode \in BOOLEAN /\ s.rtc \in BOOLEAN
  <2>1. s.enabled = reg.enabled \/ s.enabled = Enables(byte)
    BY <1>1
  <2>2. s.rtc = reg.rtc \/ s.rtc = (byte >= 8)
    BY <1>2
  <2> QED
    BY <1>5, <2>1, <2>2, Booleans
<1>9. s \in Registers
  BY <1>6, <1>7, <1>8, RegistersIntro
<1> QED
  BY <1>1, <1>2, <1>3, <1>4, <1>9, Zenon

LEMMA Mbc5Fields ==
  ASSUME reg \in Registers, NEW area \in Areas, NEW byte \in 0 .. 255,
         reg' = Mbc5(area, byte)
  PROVE  /\ reg' \in Registers
         /\ reg'.enabled = IF area = "enable" THEN Enables(byte) ELSE reg.enabled
         /\ reg'.low = IF area = "bank" THEN byte ELSE reg.low
         /\ reg'.high = IF area = "bankHigh" THEN byte % 2 ELSE reg.high
         /\ reg'.bits = IF area = "bits" THEN byte % 16 ELSE reg.bits
         /\ reg'.rtc = reg.rtc
         /\ reg'.romInd = reg'.low
         /\ reg'.ramInd = IF reg'.enabled THEN reg'.bits ELSE 0
<1> DEFINE s == reg'
<1>1. s.low = IF area = "bank" THEN byte ELSE reg.low
  BY DEF Mbc5, Registers
<1>2. s.high = IF area = "bankHigh" THEN byte % 2 ELSE reg.high
  BY DEF Mbc5, Registers
<1>3. s.bits = IF area = "bits" THEN byte % 16 ELSE reg.bits
  BY DEF Mbc5, Registers
<1>4. s.enabled = IF area = "enable" THEN Enables(byte) ELSE reg.enabled
  BY DEF Mbc5, Registers, Enables
<1>5. s.rtc = reg.rtc /\ s.mode = reg.mode
  BY DEF Mbc5, Registers
<1>6. s.ramInd = IF s.enabled THEN s.bits ELSE 0
  BY DEF Mbc5, Registers
<1>7. s.low \in 0 .. 255 /\ s.high \in 0 .. 1 /\ s.bits \in 0 .. 15
  BY <1>1, <1>2, <1>3, ModFacts DEF Registers
<1>8. s.romInd = (256 * s.high + s.low) % 256
  BY DEF Mbc5, Registers
<1>9. s.romInd = s.low
  BY <1>7, <1>8, ModFacts
<1>10. s.romInd \in 0 .. 255 /\ s.ramInd \in 0 .. 15
  BY <1>6, <1>7, <1>9
<1>11. s = [enabled |-> s.enabled, low |-> s.low, high |-> s.high, bits |-> s.bits,
            mode |-> s.mode, rtc |-> s.rtc, romInd |-> s.romInd, ramInd |-> s.ramInd]
  BY DEF Mbc5, Registers
<1>12. s.enabled \in BOOLEAN /\ s.mode \in BOOLEAN /\ s.rtc \in BOOLEAN
  <2>1. s.enabled = reg.enabled \/ s.enabled = Enables(byte)
    BY <1>4
  <2> QED
    BY <1>5, <2>1, Booleans
<1>13. s \in Registers
  BY <1>7, <1>10, <1>11, <1>12, RegistersIntro
<1> QED
  BY <1>1, <1>2, <1>3, <1>4, <1>5, <1>6, <1>9, <1>13, Zenon

-----------------------------------------------------------------------------
(* A write to the ROM area. *)

LEMMA RecordFacts ==
  ASSUME last \in [Areas -> 0 .. 255], NEW area \in Areas, NEW byte \in 0 .. 255,
         Record(area, byte)
  PROVE  /\ last' \in [Areas -> 0 .. 255]
         /\ last'["enable"] = IF area = "enable" THEN byte ELSE last["enable"]
         /\ last'["mode"] = IF area = "mode" THEN byte ELSE last["mode"]
         /\ last'["bits"] = IF area = "bits" /\ ~(mapper = "mbc3" /\ byte >= 13)
                              THEN byte ELSE last["bits"]
         /\ mapper = "mbc5" =>
              /\ last'["bank"] = IF area = "bank" THEN byte ELSE last["bank"]
              /\ last'["bankHigh"] = IF area = "bankHigh" THEN byte ELSE last["bankHigh"]
         /\ mapper # "mbc5" =>
              last'["bank"] = IF area \in {"bank", "bankHigh"} THEN byte ELSE last["bank"]
<1>1. \A slot \in Areas : LET f == [last EXCEPT ![slot] = byte]
                          IN  /\ f \in [Areas -> 0 .. 255]
                              /\ f[slot] = byte
                              /\ \A a \in Areas : a # slot => f[a] = last[a]
  OBVIOUS
<1>2. CASE mapper = "mbc3" /\ area = "bits" /\ byte >= 13
  BY <1>2 DEF Record, Areas
<1>3. CASE ~(mapper = "mbc3" /\ area = "bits" /\ byte >= 13)
  <2> DEFINE slot == IF area = "bankHigh" /\ mapper # "mbc5" THEN "bank" ELSE area
  <2>1. slot \in Areas /\ last' = [last EXCEPT ![slot] = byte]
    BY <1>3 DEF Record, Areas
  <2>2. /\ last' \in [Areas -> 0 .. 255] /\ last'[slot] = byte
        /\ \A a \in Areas : a # slot => last'[a] = last[a]
    BY <1>1, <2>1, Zenon
  <2> QED
    BY <1>3, <2>2 DEF Areas
<1> QED
  BY <1>2, <1>3

(* Either both windows show the bank they are given, or the process ends. *)
LEMMA SwitchFacts ==
  ASSUME TypeOK, power = "on", reg' \in Registers, RomIndex(reg') \in Nat, DoBankSwitch(reg')
  PROVE  /\ romBank' \in 0 .. NumRom[mapper] - 1
         /\ ramBank' \in RamBanks
         /\ power' \in {"on", "crashed"}
         /\ power' = "on" => romBank' = RomIndex(reg') /\ ramBank' = reg'.ramInd
<1>1. NumRom[mapper] \in Nat /\ NumRam[mapper] \in Nat
  BY CartridgeAssumption DEF CartridgeAssumption, TypeOK
<1>2. reg'.ramInd \in 0 .. 15
  BY DEF Registers
<1> QED
  <2>1. CASE RomIndex(reg') < NumRom[mapper] /\ reg'.ramInd < NumRam[mapper]
    BY <1>1, <1>2, <2>1 DEF DoBankSwitch, RamBanks
  <2>2. CASE ~(RomIndex(reg') < NumRom[mapper] /\ reg'.ramInd < NumRam[mapper])
    BY <2>2 DEF DoBankSwitch, TypeOK
  <2> QED
    BY <2>1, <2>2

(* What a write has to preserve. *)
Follows ==
  /\ reg \in Registers
  /\ RomIndex(reg) \in Nat
  /\ romBank = RomIndex(reg) /\ ramBank = reg.ramInd =>
       RegInv /\ RomBankFollowsWrites

LEMMA Mbc1Write ==
  ASSUME CartridgeInv, power = "on", mapper = "mbc1", mapper' = mapper,
         NEW area \in Areas, NEW byte \in 0 .. 255,
         reg' = Mbc1(area, byte), Record(area, byte)
  PROVE  Follows'
<1>1. Mbc1Inv /\ (reg.enabled <=> RamAsked) /\ ~reg.rtc
  BY DEF CartridgeInv, RegInv
<1>2. reg \in Registers /\ last \in [Areas -> 0 .. 255]
  BY DEF CartridgeInv, TypeOK, Registers
<1>3. /\ last["bank"] \in Nat /\ last["bits"] \in Nat /\ last["mode"] \in Nat
  BY <1>2 DEF Areas
<1>4. reg.low \in 0 .. 31 /\ reg.bits \in 0 .. 3
  BY <1>1, <1>3, ModFacts DEF Mbc1Inv
<1> DEFINE s == reg'
<1>5. /\ s \in Registers
      /\ s.enabled = IF area = "enable" THEN Enables(byte) ELSE reg.enabled
      /\ s.low = IF area \in {"bank", "bankHigh"} THEN byte % 32 ELSE reg.low
      /\ s.bits = IF area = "bits" THEN byte % 4 ELSE reg.bits
      /\ s.mode = IF area = "mode" THEN byte % 2 = 1 ELSE reg.mode
      /\ s.rtc = reg.rtc
      /\ s.romInd = (IF s.low = 0 THEN 1 ELSE s.low) + (IF s.mode THEN 0 ELSE 32 * s.bits)
      /\ s.ramInd = IF s.mode THEN s.bits ELSE 0
  BY <1>2, <1>4, Mbc1Fields
<1>6. /\ last'["enable"] = IF area = "enable" THEN byte ELSE last["enable"]
      /\ last'["mode"] = IF area = "mode" THEN byte ELSE last["mode"]
      /\ last'["bits"] = IF area = "bits" THEN byte ELSE last["bits"]
      /\ last'["bank"] = IF area \in {"bank", "bankHigh"} THEN byte ELSE last["bank"]
  <2>1. last'["enable"] = IF area = "enable" THEN byte ELSE last["enable"]
    BY <1>2, RecordFacts
  <2>2. last'["mode"] = IF area = "mode" THEN byte ELSE last["mode"]
    BY <1>2, RecordFacts
  <2>3. last'["bits"] = IF area = "bits" THEN byte ELSE last["bits"]
    BY <1>2, RecordFacts
  <2>4. last'["bank"] = IF area \in {"bank", "bankHigh"} THEN byte ELSE last["bank"]
    BY <1>2, RecordFacts
  <2> QED
    BY <2>1, <2>2, <2>3, <2>4, Zenon
<1>7. s.enabled <=> RamAsked'
  BY <1>1, <1>5, <1>6 DEF RamAsked
<1>8. Mbc1Inv'
  BY <1>1, <1>5, <1>6 DEF Mbc1Inv
<1>9. s.low \in 0 .. 31 /\ s.bits \in 0 .. 3
  BY <1>4, <1>5, ModFacts
<1>10. s.romInd \in Nat /\ s.romInd >= 1
  BY <1>5, <1>9
<1>11. RomBankAsked' = s.romInd
  BY <1>5, <1>8, <1>9 DEF RomBankAsked, Mbc1Inv
<1>12. RamBankAsked' = s.ramInd
  BY <1>5, <1>8 DEF RamBankAsked, Mbc1Inv
<1>13. ~s.rtc
  BY <1>1, <1>5
<1> QED
  BY <1>5, <1>7, <1>8, <1>10, <1>11, <1>12, <1>13
  DEF Follows, RegInv, RomIndex, RomBankFollowsWrites

LEMMA Mbc3Write ==
  ASSUME CartridgeInv, power = "on", mapper = "mbc3", mapper' = mapper,
         NEW area \in Areas, NEW byte \in 0 .. 255,
         reg' = Mbc3(area, byte), Record(area, byte)
  PROVE  Follows'
<1>1. Mbc3Inv /\ (reg.enabled <=> RamAsked)
  BY DEF CartridgeInv, RegInv
<1>2. reg \in Registers /\ last \in [Areas -> 0 .. 255]
  BY DEF CartridgeInv, TypeOK, Registers
<1>3. reg.romInd \in 0 .. 255 /\ byte % 128 \in 0 .. 127
  BY <1>2, ModFacts DEF Registers
<1> DEFINE s == reg'
<1>5. /\ s \in Registers
      /\ s.enabled = IF area = "enable" THEN Enables(byte) ELSE reg.enabled
      /\ s.rtc = IF area = "bits" /\ byte < 13 THEN byte >= 8 ELSE reg.rtc
      /\ s.ramInd = IF area = "bits" /\ byte < 8 THEN byte ELSE reg.ramInd
      /\ s.romInd = LET ind == IF area \in {"bank", "bankHigh"} THEN byte % 128 ELSE reg.romInd
                    IN  IF ind = 0 THEN 1 ELSE ind
  BY <1>2, Mbc3Fields
<1>6. /\ last'["enable"] = IF area = "enable" THEN byte ELSE last["enable"]
      /\ last'["bits"] = IF area = "bits" /\ ~(byte >= 13) THEN byte ELSE last["bits"]
      /\ last'["bank"] = IF area \in {"bank", "bankHigh"} THEN byte ELSE last["bank"]
  <2>1. last'["enable"] = IF area = "enable" THEN byte ELSE last["enable"]
    BY <1>2, RecordFacts
  <2>2. last'["bits"] = IF area = "bits" /\ ~(byte >= 13) THEN byte ELSE last["bits"]
    BY <1>2, RecordFacts
  <2>3. last'["bank"] = IF area \in {"bank", "bankHigh"} THEN byte ELSE last["bank"]
    BY <1>2, RecordFacts
  <2> QED
    BY <2>1, <2>2, <2>3, Zenon
<1>7. s.enabled <=> RamAsked'
  BY <1>1, <1>5, <1>6 DEF RamAsked
<1>8. (s.rtc <=> last'["bits"] >= 8) /\ (~s.rtc => s.ramInd = last'["bits"])
  <2>1. (reg.rtc <=> last["bits"] >= 8) /\ (~reg.rtc => reg.ramInd = last["bits"])
    BY <1>1 DEF Mbc3Inv
  <2>2. CASE area = "bits" /\ byte < 13
    <3>1. s.rtc = (byte >= 8) /\ last'["bits"] = byte
      BY <1>5, <1>6, <2>2
    <3>2. byte < 8 => s.ramInd = byte
      BY <1>5, <2>2
    <3>3. CASE byte >= 8
      BY <3>1, <3>3
    <3>4. CASE byte < 8
      BY <3>1, <3>2, <3>4
    <3> QED
      BY <3>3, <3>4
  <2>3. CASE ~(area = "bits" /\ byte < 13)
    <3>1. s.rtc = reg.rtc /\ s.ramInd = reg.ramInd /\ last'["bits"] = last["bits"]
      BY <1>5, <1>6, <2>3
    <3> QED
      BY <2>1, <3>1
  <2> QED
    BY <2>2, <2>3
<1>10. s.romInd = RomBankAsked' /\ s.romInd \in Nat /\ s.romInd >= 1
  BY <1>1, <1>3, <1>5, <1>6 DEF Mbc3Inv, RomBankAsked
<1> QED
  BY <1>5, <1>7, <1>8, <1>10
  DEF Follows, RegInv, Mbc3Inv, RomIndex, RomBankFollowsWrites

LEMMA Mbc5Write ==
  ASSUME CartridgeInv, power = "on", mapper = "mbc5", mapper' = mapper,
         NEW area \in Areas, NEW byte \in 0 .. 255,
         reg' = Mbc5(area, byte), Record(area, byte)
  PROVE  Follows'
<1>1. Mbc5Inv /\ (reg.enabled <=> RamAsked) /\ ~reg.rtc
  BY DEF CartridgeInv, RegInv
<1>2. reg \in Registers /\ last \in [Areas -> 0 .. 255]
  BY DEF CartridgeInv, TypeOK, Registers
<1> DEFINE s == reg'
<1>5. /\ s \in Registers
      /\ s.enabled = IF area = "enable" THEN Enables(byte) ELSE reg.enabled
      /\ s.low = IF area = "bank" THEN byte ELSE reg.low
      /\ s.high = IF area = "bankHigh" THEN byte % 2 ELSE reg.high
      /\ s.bits = IF area = "bits" THEN byte % 16 ELSE reg.bits
      /\ s.rtc = reg.rtc
      /\ s.romInd = s.low
      /\ s.ramInd = IF s.enabled THEN s.bits ELSE 0
  BY <1>2, Mbc5Fields
<1>6. /\ last'["enable"] = IF area = "enable" THEN byte ELSE last["enable"]
      /\ last'["bits"] = IF area = "bits" THEN byte ELSE last["bits"]
      /\ last'["bank"] = IF area = "bank" THEN byte ELSE last["bank"]
      /\ last'["bankHigh"] = IF area = "bankHigh" THEN byte ELSE last["bankHigh"]
  <2>1. last'["enable"] = IF area = "enable" THEN byte ELSE last["enable"]
    BY <1>2, RecordFacts
  <2>2. last'["bits"] = IF area = "bits" THEN byte ELSE last["bits"]
    BY <1>2, RecordFacts
  <2>3. last'["bank"] = IF area = "bank" THEN byte ELSE last["bank"]
    BY <1>2, RecordFacts
  <2>4. last'["bankHigh"] = IF area = "bankHigh" THEN byte ELSE last["bankHigh"]
    BY <1>2, RecordFacts
  <2> QED
    BY <2>1, <2>2, <2>3, <2>4, Zenon
<1>7. s.enabled <=> RamAsked'
  BY <1>1, <1>5, <1>6 DEF RamAsked
<1>8. s.low = last'["bank"] /\ s.high = last'["bankHigh"] % 2 /\ s.bits = last'["bits"] % 16
  BY <1>1, <1>5, <1>6 DEF Mbc5Inv
<1>9. s.romInd \in Nat /\ RomBankAsked' = s.romInd + 1
  BY <1>5, <1>8 DEF RomBankAsked, Registers
<1>10. ~s.rtc
  BY <1>1, <1>5
<1> QED
  BY <1>5, <1>7, <1>8, <1>9, <1>10
  DEF Follows, RegInv, Mbc5Inv, RomIndex, RomBankFollowsWrites

-----------------------------------------------------------------------------
(* The invariant. *)

LEMMA BlankType == mapper \in Mappers => Blank \in [RamBanks -> Values]
BY CartridgeAssumption DEF Blank, CartridgeAssumption

LEMMA CartridgeInit == Init => CartridgeInv
<1> SUFFICES ASSUME Init PROVE CartridgeInv
  OBVIOUS
<1>1. mapper \in Mappers
  BY DEF Init
<1>2. NumRom[mapper] \in Nat \ {0} /\ NumRam[mapper] \in Nat \ {0}
  BY <1>1, CartridgeAssumption DEF CartridgeAssumption
<1>3. romBank \in 0 .. NumRom[mapper] - 1 /\ ramBank \in RamBanks
  BY <1>2 DEF Init, RamBanks
<1>4. reg \in Registers /\ last \in [Areas -> 0 .. 255]
  BY DEF Init, ResetReg, Registers, NoWrites
<1>5. TypeOK
  BY <1>1, <1>3, <1>4, BlankType DEF Init, TypeOK, Registers
<1> QED
  BY <1>5 DEF Init, CartridgeInv, RomBankFollowsWrites, RamHoldsStores, SaveInv

LEMMA WriteRomStep == CartridgeInv /\ WriteRom => CartridgeInv'
<1> SUFFICES ASSUME CartridgeInv, WriteRom PROVE CartridgeInv'
  OBVIOUS
<1>1. /\ power = "on" /\ TypeOK
      /\ UNCHANGED <<mapper, ram, saved, stored, kept>>
  BY DEF WriteRom, CartridgeInv
<1>a. PICK area \in Areas : \E byte \in Bytes[area] :
         reg' = Decode(area, byte) /\ DoBankSwitch(reg') /\ Record(area, byte)
  BY DEF WriteRom
<1>2. PICK byte \in Bytes[area] :
         reg' = Decode(area, byte) /\ DoBankSwitch(reg') /\ Record(area, byte)
  BY <1>a
<1>3. byte \in 0 .. 255
  BY <1>2, CartridgeAssumption DEF CartridgeAssumption
<1>4. mapper \in {"mbc1", "mbc3", "mbc5"}
  BY <1>1, CartridgeAssumption DEF CartridgeAssumption, TypeOK
<1>5. Follows'
  <2>1. CASE mapper = "mbc1"
    <3>1. reg' = Mbc1(area, byte)
      BY <1>2, <2>1 DEF Decode
    <3> QED
      BY <1>1, <1>2, <1>3, <2>1, <3>1, Mbc1Write
  <2>2. CASE mapper = "mbc3"
    <3>1. reg' = Mbc3(area, byte)
      BY <1>2, <2>2 DEF Decode
    <3> QED
      BY <1>1, <1>2, <1>3, <2>2, <3>1, Mbc3Write
  <2>3. CASE mapper = "mbc5"
    <3>1. reg' = Mbc5(area, byte)
      BY <1>2, <2>3 DEF Decode
    <3> QED
      BY <1>1, <1>2, <1>3, <2>3, <3>1, Mbc5Write
  <2> QED
    BY <1>4, <2>1, <2>2, <2>3
<1>6. reg' \in Registers /\ RomIndex(reg') \in Nat
  BY <1>1, <1>5 DEF Follows, RomIndex
<1>7. /\ romBank' \in 0 .. NumRom[mapper] - 1 /\ ramBank' \in RamBanks
      /\ power' \in {"on", "crashed"}
      /\ power' = "on" => romBank' = RomIndex(reg') /\ ramBank' = reg'.ramInd
  BY <1>1, <1>2, <1>6, SwitchFacts
<1>8. last' \in [Areas -> 0 .. 255]
  BY <1>1, <1>2, <1>3, RecordFacts DEF TypeOK
<1>9. TypeOK'
  BY <1>1, <1>6, <1>7, <1>8 DEF TypeOK, Registers, RamBanks
<1>10. power' = "on" => RegInv' /\ RomBankFollowsWrites'
  BY <1>1, <1>5, <1>7 DEF Follows, RomIndex
<1>11. power' # "on" => RomBankFollowsWrites'
  BY DEF RomBankFollowsWrites
<1>12. RamHoldsStores' /\ SaveInv'
  BY <1>1 DEF CartridgeInv, RamHoldsStores, SaveInv
<1> QED
  BY <1>9, <1>10, <1>11, <1>12 DEF CartridgeInv

(***************************************************************************)
(* A store changes the bank that the writes ask for, or none.              *)
(***************************************************************************)
LEMMA StoreFacts ==
  ASSUME CartridgeInv, power = "on"
  PROVE  /\ MayStore <=> RamAsked /\ ~RtcAsked
         /\ MayStore => ramBank = RamBankAsked
<1>1. RegInv /\ mapper \in {"mbc1", "mbc3", "mbc5"}
  BY CartridgeAssumption DEF CartridgeInv, TypeOK, CartridgeAssumption
<1>2. CASE mapper = "mbc1"
  BY <1>1, <1>2 DEF RegInv, MayStore, RtcAsked
<1>3. CASE mapper = "mbc3"
  BY <1>1, <1>3 DEF RegInv, Mbc3Inv, MayStore, RtcAsked, RamBankAsked
<1>4. CASE mapper = "mbc5"
  BY <1>1, <1>4 DEF RegInv, Mbc5Inv, MayStore, RtcAsked, RamBankAsked
<1> QED
  BY <1>1, <1>2, <1>3, <1>4

LEMMA StoreRamStep ==
  ASSUME CartridgeInv, NEW value \in Values, StoreRam(value)
  PROVE  CartridgeInv'
<1>1. /\ power = "on" /\ TypeOK /\ ram = stored
      /\ UNCHANGED <<mapper, power, reg, romBank, ramBank, saved, last, kept>>
  BY DEF StoreRam, CartridgeInv, RamHoldsStores
<1>2. ram' = stored'
  <2>1. CASE MayStore
    BY <1>1, <2>1, StoreFacts DEF StoreRam
  <2>2. CASE ~MayStore
    BY <1>1, <2>2, StoreFacts DEF StoreRam
  <2> QED
    BY <2>1, <2>2
<1>3. ram' \in [RamBanks -> Values]
  BY <1>1 DEF StoreRam, TypeOK
<1>4. TypeOK'
  BY <1>1, <1>2, <1>3 DEF TypeOK, RamBanks
<1>5. RegInv' /\ RomBankFollowsWrites' /\ SaveInv'
  BY <1>1 DEF CartridgeInv, RegInv, Mbc1Inv, Mbc3Inv, Mbc5Inv, RomBankFollowsWrites, SaveInv,
     RamAsked, RomBankAsked, RamBankAsked
<1> QED
  BY <1>2, <1>4, <1>5 DEF CartridgeInv, RamHoldsStores

LEMMA PowerOnStep == CartridgeInv /\ PowerOn => CartridgeInv'
<1> SUFFICES ASSUME CartridgeInv, PowerOn PROVE CartridgeInv'
  OBVIOUS
<1>1. /\ TypeOK /\ SaveInv /\ UNCHANGED <<mapper, saved, kept>>
      /\ power' = "on" /\ romBank' = 0 /\ ramBank' = 0 /\ reg' = ResetReg /\ last' = NoWrites
  BY DEF CartridgeInv, PowerOn
<1>2. NumRom[mapper] \in Nat \ {0} /\ NumRam[mapper] \in Nat \ {0}
  BY <1>1, CartridgeAssumption DEF CartridgeAssumption, TypeOK
<1>3. ram' = stored' /\ ram' \in [RamBanks -> Values]
  BY <1>1, BlankType DEF PowerOn, SaveInv, TypeOK
<1>4. reg' \in Registers /\ last' \in [Areas -> 0 .. 255]
  BY <1>1 DEF ResetReg, Registers, NoWrites
<1>5. romBank' \in 0 .. NumRom[mapper] - 1 /\ ramBank' \in RamBanks
  BY <1>1, <1>2 DEF RamBanks
<1>6. TypeOK'
  BY <1>1, <1>3, <1>4, <1>5 DEF TypeOK, Registers, RamBanks
<1>7. /\ last'["enable"] = 0 /\ last'["bank"] = 0 /\ last'["bankHigh"] = 0
      /\ last'["bits"] = 0 /\ last'["mode"] = 0
  BY <1>1 DEF NoWrites, Areas
<1>8. /\ ~reg'.enabled /\ reg'.low = 0 /\ reg'.high = 0 /\ reg'.bits = 0
      /\ ~reg'.mode /\ ~reg'.rtc /\ reg'.romInd = 0 /\ reg'.ramInd = 0
  BY <1>1 DEF ResetReg
<1>9. ~RamAsked' /\ RomBankAsked' = 1
  BY <1>1, <1>4, <1>7, CartridgeAssumption
  DEF RamAsked, Enables, RomBankAsked, TypeOK, CartridgeAssumption
<1>10. mapper = "mbc1" => RamBankAsked' = 0
  BY <1>1, <1>7 DEF RamBankAsked
<1>11. RegInv'
  BY <1>1, <1>7, <1>8, <1>9, <1>10 DEF RegInv, Mbc1Inv, Mbc3Inv, Mbc5Inv
<1>12. RomBankFollowsWrites'
  BY <1>1, <1>9 DEF RomBankFollowsWrites
<1> QED
  BY <1>1, <1>3, <1>6, <1>11, <1>12 DEF CartridgeInv, RamHoldsStores, SaveInv

LEMMA CartridgeStep == CartridgeInv /\ [Next]_vars => CartridgeInv'
<1> SUFFICES ASSUME CartridgeInv, [Next]_vars PROVE CartridgeInv'
  OBVIOUS
<1>1. CASE WriteRom
  BY <1>1, WriteRomStep
<1>2. CASE \E value \in Values : StoreRam(value)
  BY <1>2, StoreRamStep
<1>3. CASE PowerOn
  BY <1>3, PowerOnStep
<1>4. CASE AccessDisabled \/ Abort
  <2>1. /\ power' = "crashed"
        /\ UNCHANGED <<mapper, reg, romBank, ramBank, ram, saved, last, stored, kept>>
    BY <1>4 DEF AccessDisabled, Abort
  <2> QED
    BY <2>1 DEF CartridgeInv, TypeOK, RamBanks, RomBankFollowsWrites, RamHoldsStores, SaveInv
<1>5. CASE PowerOff
  <2>1. /\ power' = "off" /\ ram = stored
        /\ UNCHANGED <<mapper, reg, romBank, ramBank, ram, last, stored>>
        /\ saved' = IF mapper \in Battery THEN ram ELSE saved
        /\ kept' = stored
    BY <1>5 DEF PowerOff, CartridgeInv, RamHoldsStores
  <2> QED
    BY <2>1 DEF CartridgeInv, TypeOK, RamBanks, RomBankFollowsWrites, RamHoldsStores, SaveInv
<1>6. CASE UNCHANGED vars
  <2>1. TypeOK'
    BY <1>6 DEF vars, CartridgeInv, TypeOK, RamBanks
  <2>2. RegInv => RegInv'
    <3>5. RomBankAsked' = RomBankAsked /\ RamBankAsked' = RamBankAsked
      BY <1>6 DEF vars, RomBankAsked, RamBankAsked
    <3>1. Mbc1Inv' <=> Mbc1Inv
      BY <1>6 DEF vars, Mbc1Inv
    <3>2. Mbc3Inv' <=> Mbc3Inv
      BY <1>6, <3>5 DEF vars, Mbc3Inv
    <3>3. Mbc5Inv' <=> Mbc5Inv
      BY <1>6 DEF vars, Mbc5Inv
    <3>4. RamAsked' <=> RamAsked
      BY <1>6 DEF vars, RamAsked
    <3> QED
      BY <1>6, <3>1, <3>2, <3>3, <3>4, <3>5 DEF vars, RegInv
  <2>3. RomBankFollowsWrites'
    BY <1>6, Zenon DEF vars, CartridgeInv, RomBankFollowsWrites, RomBankAsked
  <2>4. RamHoldsStores' /\ SaveInv'
    BY <1>6 DEF vars, CartridgeInv, RamHoldsStores, SaveInv
  <2> QED
    BY <1>6, <2>1, <2>2, <2>3, <2>4 DEF vars, CartridgeInv
<1> QED
  BY <1>1, <1>2, <1>3, <1>4, <1>5, <1>6 DEF Next

(***************************************************************************)
(* DoBankSwitch: the bank indices stay within the memories, whatever is    *)
(* written, because the process ends before they would leave them.         *)
(***************************************************************************)
THEOREM CartridgeTypeCorrect == Spec => []TypeOK
<1>1. CartridgeInv => TypeOK
  BY DEF CartridgeInv
<1> QED
  BY <1>1, CartridgeInit, CartridgeStep, PTL DEF Spec

(***************************************************************************)
(* The b_transport_rom of the three controllers: after any sequence of     *)
(* writes the window shows the bank that they ask for.                     *)
(***************************************************************************)
THEOREM WindowFollowsWrites == Spec => []RomBankFollowsWrites
<1>1. CartridgeInv => RomBankFollowsWrites
  BY DEF CartridgeInv
<1> QED
  BY <1>1, CartridgeInit, CartridgeStep, PTL DEF Spec

(***************************************************************************)
(* RAM and save file: no sequence of bank writes, stores, power cycles and *)
(* crashes loses a store made before the last orderly end, or moves one to *)
(* another bank.                                                           *)
(***************************************************************************)
THEOREM RamIsKept == Spec => []RamHoldsStores
<1>1. CartridgeInv => RamHoldsStores
  BY DEF CartridgeInv
<1> QED
  BY <1>1, CartridgeInit, CartridgeStep, PTL DEF Spec
=============================================================================
