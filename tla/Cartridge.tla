------------------------------ MODULE Cartridge ------------------------------
(***************************************************************************)
(* The cartridge: its memory bank controller, the banks that the two       *)
(* windows of the address space show, the external RAM and the save file.  *)
(* The program writes the controller's registers through ROM addresses.    *)
(* The module is the build with assertions: a failed one ends the process  *)
(* without the destructor, so without writing the save file.               *)
(***************************************************************************)
EXTENDS Integers

CONSTANTS
  Mappers,   \* the controllers considered
  NumRam,    \* NumRam[m]: the banks of ext_ram
  NumRom,    \* NumRom[m]: the banks of rom_high
  Battery,   \* the controllers whose RAM has a save file
  Values,    \* what the program stores in RAM
  Bytes      \* Bytes[a]: what the program writes to register area a

(***************************************************************************)
(* The areas: 0000-1FFF, 2000-2FFF, 3000-3FFF, 4000-5FFF, 6000-7FFF.       *)
(***************************************************************************)
Areas == {"enable", "bank", "bankHigh", "bits", "mode"}

ASSUME CartridgeAssumption ==
  /\ Battery \subseteq Mappers
  /\ Mappers \subseteq {"mbc1", "mbc3", "mbc5"}
  /\ NumRam \in [Mappers -> Nat \ {0}]
  /\ NumRom \in [Mappers -> Nat \ {0}]
  /\ 0 \in Values
  /\ Bytes \in [Areas -> SUBSET (0 .. 255)]

VARIABLES
  mapper,    \* the controller in the cartridge
  power,     \* of the emulator: "on", "off", or "crashed" by an assertion
  reg,       \* the controller's registers
  romBank,   \* rom_high.current_bank_ind_
  ramBank,   \* ext_ram.current_bank_ind_
  ram,       \* ext_ram, a cell for each bank
  saved,     \* the save file; all 0 stands for none
  last,      \* history: the last byte written to each area
  stored,    \* history: what the program last stored in each bank
  kept       \* history: that, when the emulator last ended orderly

vars == <<mapper, power, reg, romBank, ramBank, ram, saved, last, stored, kept>>

RamBanks == 0 .. NumRam[mapper] - 1
Blank == [b \in RamBanks |-> 0]
NoWrites == [a \in Areas |-> 0]

(***************************************************************************)
(* low and high: rom_bank_low_bits and rom_bank_high_bits_; bits:          *)
(* the_two_bits_ or ram_bits_; mode: more_ram_mode_; rtc: rtc_mapped_.     *)
(***************************************************************************)
ResetReg == [enabled |-> FALSE, low |-> 0, high |-> 0, bits |-> 0, mode |-> FALSE,
             rtc |-> FALSE, romInd |-> 0, ramInd |-> 0]

TypeOK ==
  /\ mapper \in Mappers
  /\ power \in {"on", "off", "crashed"}
  /\ reg \in [enabled : BOOLEAN, low : 0 .. 255, high : 0 .. 1, bits : 0 .. 15,
              mode : BOOLEAN, rtc : BOOLEAN, romInd : 0 .. 255, ramInd : 0 .. 15]
  /\ romBank \in 0 .. NumRom[mapper] - 1
  /\ ramBank \in RamBanks
  /\ ram \in [RamBanks -> Values] /\ stored \in [RamBanks -> Values]
  /\ saved \in [RamBanks -> Values] /\ kept \in [RamBanks -> Values]
  /\ last \in [Areas -> 0 .. 255]

Init ==
  /\ mapper \in Mappers
  /\ power = "off"
  /\ reg = ResetReg
  /\ romBank = 0 /\ ramBank = 0
  /\ ram = Blank /\ saved = Blank
  /\ last = NoWrites
  /\ stored = Blank /\ kept = Blank

-----------------------------------------------------------------------------
(* Writes to the ROM area. *)

(* *ptr & 0xA == 0xA *)
Enables(byte) == (byte \div 2) % 2 = 1 /\ (byte \div 8) % 2 = 1

(* Fault: only bank 0 becomes bank 1. *)
Mbc1NoAlias(area, byte) ==
  LET s == [reg EXCEPT
              !.enabled = IF area = "enable" THEN Enables(byte) ELSE @,
              !.low     = IF area \in {"bank", "bankHigh"} THEN byte % 32 ELSE @,
              !.bits    = IF area = "bits" THEN byte % 4 ELSE @,
              !.mode    = IF area = "mode" THEN byte % 2 = 1 ELSE @]
      ind == s.low + (IF s.mode THEN 0 ELSE 32 * s.bits)
  IN  [s EXCEPT !.romInd = IF ind = 0 THEN 1 ELSE ind,
                !.ramInd = IF s.mode THEN s.bits ELSE 0]

Mbc1(area, byte) ==
  LET s == [reg EXCEPT
              !.enabled = IF area = "enable" THEN Enables(byte) ELSE @,
              !.low     = IF area \in {"bank", "bankHigh"} THEN byte % 32 ELSE @,
              !.bits    = IF area = "bits" THEN byte % 4 ELSE @,
              !.mode    = IF area = "mode" THEN byte % 2 = 1 ELSE @]
      ind == s.low + (IF s.mode THEN 0 ELSE 32 * s.bits)
  IN  [s EXCEPT !.romInd = IF ind % 32 = 0 THEN ind + 1 ELSE ind,
                !.ramInd = IF s.mode THEN s.bits ELSE 0]

Mbc3(area, byte) ==
  LET s == [reg EXCEPT
              !.enabled = IF area = "enable" THEN Enables(byte) ELSE @,
              !.romInd  = IF area \in {"bank", "bankHigh"} THEN byte % 128 ELSE @,
              !.ramInd  = IF area = "bits" /\ byte < 8 THEN byte ELSE @,
              !.rtc     = IF area = "bits" /\ byte < 13 THEN byte >= 8 ELSE @]
  IN  [s EXCEPT !.romInd = IF @ = 0 THEN 1 ELSE @]

(* rom_ind_ has eight bits. *)
Mbc5(area, byte) ==
  LET s == [reg EXCEPT
              !.enabled = IF area = "enable" THEN Enables(byte) ELSE @,
              !.low     = IF area = "bank" THEN byte ELSE @,
              !.high    = IF area = "bankHigh" THEN byte % 2 ELSE @,
              !.bits    = IF area = "bits" THEN byte % 16 ELSE @]
  IN  [s EXCEPT !.romInd = (256 * s.high + s.low) % 256,
                !.ramInd = IF s.enabled THEN s.bits ELSE 0]

Decode(area, byte) ==
  CASE mapper = "mbc1" -> Mbc1(area, byte)
    [] mapper = "mbc3" -> Mbc3(area, byte)
    [] mapper = "mbc5" -> Mbc5(area, byte)

(* What DoBankSwitch is given for rom_high. *)
RomIndex(s) == IF mapper = "mbc5" THEN s.romInd ELSE s.romInd - 1

(* Fault: one bank more than there are. *)
DoBankSwitchBeyond(s) ==
  /\ romBank' = RomIndex(s)
  /\ IF s.ramInd <= NumRam[mapper]
       THEN ramBank' = s.ramInd /\ UNCHANGED power
       ELSE power' = "crashed" /\ UNCHANGED ramBank

DoBankSwitch(s) ==
  IF RomIndex(s) < NumRom[mapper] /\ s.ramInd < NumRam[mapper]
    THEN romBank' = RomIndex(s) /\ ramBank' = s.ramInd /\ UNCHANGED power
    ELSE power' = "crashed" /\ UNCHANGED <<romBank, ramBank>>

(* Two areas may be one register; what an MBC3 ignores is not recorded. *)
Record(area, byte) ==
  LET slot == IF area = "bankHigh" /\ mapper # "mbc5" THEN "bank" ELSE area
  IN  last' = IF mapper = "mbc3" /\ area = "bits" /\ byte >= 13
                THEN last ELSE [last EXCEPT ![slot] = byte]

WriteRom ==
  /\ power = "on"
  /\ \E area \in Areas : \E byte \in Bytes[area] :
       /\ reg' = Decode(area, byte)
       /\ DoBankSwitch(reg')
       /\ Record(area, byte)
  /\ UNCHANGED <<mapper, ram, saved, stored, kept>>

-----------------------------------------------------------------------------
(* What the last writes ask for. *)

RamAsked == Enables(last["enable"])
RtcAsked == mapper = "mbc3" /\ last["bits"] >= 8

RamBankAsked ==
  CASE mapper = "mbc1" -> IF last["mode"] % 2 = 1 THEN last["bits"] % 4 ELSE 0
    [] mapper = "mbc3" -> last["bits"]
    [] mapper = "mbc5" -> last["bits"] % 16

(* The bank of the file; rom_high leaves out the first one. *)
RomBankAsked ==
  CASE mapper = "mbc1" ->
         (IF last["bank"] % 32 = 0 THEN 1 ELSE last["bank"] % 32)
           + 32 * (IF last["mode"] % 2 = 1 THEN 0 ELSE last["bits"] % 4)
    [] mapper = "mbc3" -> IF last["bank"] % 128 = 0 THEN 1 ELSE last["bank"] % 128
    [] mapper = "mbc5" -> last["bank"] + 1

-----------------------------------------------------------------------------
(* Accesses to the external RAM. *)

(* Fault: what is written to the clock lands in the RAM. *)
MayStoreAnywhere == reg.enabled

MayStore == reg.enabled /\ ~reg.rtc

(***************************************************************************)
(* A store reaches the bank, the clock's register (which ignores it), or   *)
(* nothing; an MBC5 whose RAM is disabled has an assertion there.          *)
(***************************************************************************)
StoreRam(value) ==
  /\ power = "on"
  /\ mapper = "mbc5" => reg.enabled
  /\ ram' = IF MayStore THEN [ram EXCEPT ![ramBank] = value] ELSE ram
  /\ stored' = IF RamAsked /\ ~RtcAsked
                 THEN [stored EXCEPT ![RamBankAsked] = value] ELSE stored
  /\ UNCHANGED <<mapper, power, reg, romBank, ramBank, saved, last, kept>>

(* A load or a store, with the same assertion. *)
AccessDisabled ==
  /\ power = "on"
  /\ mapper = "mbc5"
  /\ ~reg.enabled
  /\ power' = "crashed"
  /\ UNCHANGED <<mapper, reg, romBank, ramBank, ram, saved, last, stored, kept>>

-----------------------------------------------------------------------------
(* The process. *)

(* The constructor: the save file, when there is one, becomes ext_ram. *)
PowerOn ==
  /\ power # "on"
  /\ power' = "on"
  /\ reg' = ResetReg
  /\ romBank' = 0 /\ ramBank' = 0
  /\ ram' = IF mapper \in Battery THEN saved ELSE Blank
  /\ last' = NoWrites
  /\ stored' = IF mapper \in Battery THEN kept ELSE Blank
  /\ UNCHANGED <<mapper, saved, kept>>

(* sc_stop, then the destructors. *)
PowerOff ==
  /\ power = "on"
  /\ power' = "off"
  /\ saved' = IF mapper \in Battery THEN ram ELSE saved
  /\ kept' = stored
  /\ UNCHANGED <<mapper, reg, romBank, ramBank, ram, last, stored>>

(* An assertion, an exception or exit() elsewhere in the emulator. *)
Abort ==
  /\ power = "on"
  /\ power' = "crashed"
  /\ UNCHANGED <<mapper, reg, romBank, ramBank, ram, saved, last, stored, kept>>

Next ==
  \/ WriteRom
  \/ \E value \in Values : StoreRam(value)
  \/ AccessDisabled \/ PowerOn \/ PowerOff \/ Abort

Spec == Init /\ [][Next]_vars

-----------------------------------------------------------------------------
(* Properties. *)

(***************************************************************************)
(* The upper ROM window shows the bank that the last writes to the         *)
(* controller's registers ask for, in whatever order they came.  The ninth *)
(* bit of an MBC5's bank number is lost, so the statement excludes it.     *)
(***************************************************************************)
RomBankFollowsWrites ==
  power = "on" /\ (mapper = "mbc5" => last["bankHigh"] % 2 = 0) =>
    romBank + 1 = RomBankAsked

(***************************************************************************)
(* Each RAM bank holds what the program last stored in it: stores reach    *)
(* the bank asked for and no other, a disabled RAM keeps its contents, and *)
(* so does the save file, up to the last orderly end of the process.       *)
(***************************************************************************)
RamHoldsStores == power = "on" => ram = stored

(***************************************************************************)
(* Cartridge.cpp asserts in DoBankSwitch that the bank exists: switching   *)
(* banks never ends the process.                                           *)
(***************************************************************************)
BanksExist == [][WriteRom => power' = "on"]_vars
=============================================================================
