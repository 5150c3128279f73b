---------------------------- MODULE Instructions ----------------------------
(***************************************************************************)
(* The instruction set: decoding (cpu_jumptable.cpp) and the handlers      *)
(* (cpu_ops.cpp) on the registers and the bus.  An instruction fetches its *)
(* bytes, then reads, then writes; every access goes through one shared    *)
(* payload whose response status outlives it.  A read that finds an error  *)
(* status throws, and that ends the emulation.                             *)
(*                                                                         *)
(* Ram is the part of the work and high RAM the program uses as memory and *)
(* stack.  What a ROM or a device register delivers is an input, and so    *)
(* are the bytes that follow an opcode.  Of the cartridge, this module has *)
(* what decides whether an access is answered.  The opcodes 256..511 are   *)
(* those behind the prefix 0xCB.  No debugger is attached, nothing traced. *)
(***************************************************************************)
EXTENDS CpuOps, Sequences

CONSTANTS
  Ram,      \* the memory cells that are modelled
  Device,   \* the bytes other addresses may deliver
  Imm,      \* the bytes that may follow an opcode
  Starts    \* states in which a stretch of code begins: see Init

Opcode == (0 .. 511) \ {203}
Addr == Word
Between(lo, hi) == {a \in Word : lo =< a /\ a =< hi}
Echo == Between(57344, 65023)                       \* E000-FDFF
Canon(a) == IF a \in Echo THEN a - 8192 ELSE a      \* the cell behind an address
FirstBank == Between(0, 16383)                      \* read by DMI
RomArea == Between(0, 32767)
Unmapped == Between(65184, 65279) \cup Between(65288, 65294)   \* FEA0-FEFF, FF08-FF0E
SerialEnd == 65283                                  \* FF03
ExtRam == Between(40960, 49151)
RamEnable == Between(0, 8191)
RamBank == Between(16384, 24575)
DmaStart == 65350                                   \* FF46

Reg8 == {"A", "B", "C", "D", "E", "H", "L"}
Kinds == {"add", "sub", "cp", "addhl", "addsp", "daaAdd", "daaSub", "pop", "return", "other"}
Statuses == {"ok", "error"}
Mappers == {"ROM ONLY", "MBC1", "MBC3", "MBC5"}
Did == [kind : Kinds, x : Word, y : Word, c : 0 .. 1]

ASSUME InputAssumption ==
  /\ Ram \subseteq Between(49152, 57343) \cup Between(65408, 65534)
  /\ Device \subseteq Byte /\ Device # {}
  /\ Imm \subseteq Byte

ASSUME StartsAssumption ==
  Starts \subseteq [r : [Reg8 -> Byte], f : Flags, sp : Word, pc : Word, ime : BOOLEAN,
                    status : Statuses, mapper : Mappers, ramOn : BOOLEAN,
                    program : SUBSET Opcode, left : Nat]

VARIABLES
  r, f,       \* the byte registers; the flags in F
  sp, pc,
  ime,        \* intr_master_enable
  mem,
  status,     \* the response status left in the payload
  run,        \* how the emulation ended, if it did
  wait,       \* wait_ns_, in clock cycles
  program,    \* the opcodes in this stretch of code
  left,       \* and how many instructions it has still to execute
  did,        \* what the last instruction computed, from which operands
  frames,     \* the words on the stack, as they were pushed
  failed,     \* the access at which the emulation ended
  busy,       \* the number of bus accesses of the last instruction
  mapper,     \* the controller in the cartridge
  ramOn       \* its ram_enabled_ or ram_rtc_enabled_

regs == <<r, f, sp, pc, ime>>
code == <<program, left>>
cart == <<mapper, ramOn>>
vars == <<regs, mem, status, run, wait, code, did, frames, failed, busy, cart>>

NoAccess == [addr |-> 65536, write |-> FALSE, v |-> 0]
Frame == [at : Word, word : Word]

TypeOK ==
  /\ r \in [Reg8 -> Byte]
  /\ f \in Flags
  /\ sp \in Word /\ pc \in Word
  /\ ime \in BOOLEAN
  /\ mem \in [Ram -> Byte]
  /\ status \in Statuses
  /\ run \in {"running", "thrown", "aborted", "exited"}
  /\ wait \in Nat
  /\ program \in SUBSET Opcode
  /\ left \in Nat
  /\ did \in Did
  /\ frames \in Seq(Frame)
  /\ failed \in [addr : Word, write : BOOLEAN, v : Byte] \cup {NoAccess}
  /\ busy \in Nat
  /\ mapper \in Mappers
  /\ ramOn \in BOOLEAN

Nothing == [kind |-> "other", x |-> 0, y |-> 0, c |-> 0]

(***************************************************************************)
(* The memories start cleared.  A payload without a response counts as an  *)
(* error; the code before the stretch may have left either status.         *)
(***************************************************************************)
Init ==
  /\ \E s \in Starts :
       /\ r = s.r /\ f = s.f /\ sp = s.sp /\ pc = s.pc /\ ime = s.ime
       /\ status = s.status /\ program = s.program /\ left = s.left
       /\ mapper = s.mapper /\ ramOn = s.ramOn
  /\ mem = [a \in Ram |-> 0]
  /\ run = "running"
  /\ wait = 0
  /\ did = Nothing
  /\ frames = <<>>
  /\ failed = NoAccess
  /\ busy = 0

-----------------------------------------------------------------------------
(* The bus. *)

Rd(a) == [addr |-> a, write |-> FALSE, v |-> 0]
Wr(a, v) == [addr |-> a, write |-> TRUE, v |-> v]
Fetches(n) == [i \in 1 .. n |-> Rd(Plus(pc, i - 1))]

(* A cartridge without a controller answers for the RAM it does not have. *)
Disabled(a) == a \in ExtRam /\ ~ramOn /\ mapper # "ROM ONLY"

(***************************************************************************)
(* Who answers an access: a read of the first bank uses the direct memory  *)
(* pointer, a controller takes a store to the ROM area, an access to       *)
(* disabled RAM only prints a warning: none of these sets a status.        *)
(***************************************************************************)
Silent(x) ==
  IF x.write THEN Disabled(x.addr) \/ (x.addr \in RomArea /\ mapper # "ROM ONLY")
  ELSE Disabled(x.addr) \/ x.addr \in FirstBank
Loud(x) == ~Silent(x)

(* The serial port has two addresses, and the MBC5's RAM is not to be used disabled. *)
AssertsAt(a) == a = SerialEnd \/ (mapper = "MBC5" /\ Disabled(a))

(***************************************************************************)
(* The targets' assertions: these two, DoBankSwitch's of the MBC3's RAM    *)
(* bank, and those that the OAM DMA runs into: a store to FF46 starts it,  *)
(* and it reads 160 bytes before the store returns.                        *)
(***************************************************************************)
Asserts(x) ==
  \/ AssertsAt(x.addr)
  \/ x.write /\ mapper = "MBC3" /\ x.addr \in RamBank /\ x.v \in 4 .. 7
  \/ x.write /\ x.addr = DmaStart /\ \E i \in 0 .. 159 : AssertsAt(256 * x.v + i)

(* The status after the first i of the accesses acc. *)
StatusAfter(acc, i) ==
  LET loud == {j \in 1 .. i : Loud(acc[j])}
      last == CHOOSE j \in loud : \A k \in loud : k =< j
  IN  IF loud = {} THEN status
      ELSE IF acc[last].addr \in Unmapped THEN "error" ELSE "ok"

(* No instruction goes to the RAM after it has enabled or disabled it. *)
RamAfter(acc) ==
  LET stores == {j \in DOMAIN acc : acc[j].write /\ acc[j].addr \in RamEnable}
      last == CHOOSE j \in stores : \A k \in stores : k =< j
  IN  IF stores = {} THEN ramOn ELSE {1, 3} \subseteq Bits(acc[last].v)

(* Fault: a store throws as well. *)
FatalStores(acc) ==
  {i \in DOMAIN acc : Asserts(acc[i]) \/ StatusAfter(acc, i) = "error"}

(* A target asserts, or ReadBus throws. *)
Fatal(acc) ==
  {i \in DOMAIN acc : \/ Asserts(acc[i])
                      \/ /\ ~acc[i].write /\ acc[i].addr \notin FirstBank
                         /\ StatusAfter(acc, i) = "error"}

Accesses(n, data) == Fetches(n) \o data

Answered(acc) ==
  /\ Fatal(acc) = {}
  /\ status' = StatusAfter(acc, Len(acc))
  /\ ramOn' = RamAfter(acc)
  /\ UNCHANGED <<run, failed>>

Ends(acc) ==
  /\ \E i \in Fatal(acc) :
       /\ \A j \in Fatal(acc) : i =< j
       /\ failed' = acc[i]
       /\ run' = IF Asserts(acc[i]) THEN "aborted" ELSE "thrown"
  /\ UNCHANGED <<regs, mem, status, wait, did, frames, busy, ramOn>>

Completes(n, data, cycles) ==
  /\ Answered(Accesses(n, data))
  /\ wait' = cycles
  /\ busy' = Len(Accesses(n, data))

Fails(n, data) == Ends(Accesses(n, data))

(***************************************************************************)
(* An instruction that fetches n bytes, makes the accesses data and takes  *)
(* so many cycles; if an access is fatal nothing of it counts.             *)
(***************************************************************************)
Do(n, data, cycles, Effect) == (Effect /\ Completes(n, data, cycles)) \/ Fails(n, data)

(* What a load delivers, and what a store leaves. *)
Loads(a) == IF Canon(a) \in Ram THEN {mem[Canon(a)]} ELSE Device
Stored(m, a, v) == IF Canon(a) \in Ram THEN [m EXCEPT ![Canon(a)] = v] ELSE m

-----------------------------------------------------------------------------
(* The register file, and the words on the stack. *)

HL == Pair(r["H"], r["L"])
BC == Pair(r["B"], r["C"])
DE == Pair(r["D"], r["E"])
AF == Pair(r["A"], FByte(f))

SetHL(w) == [r EXCEPT !["H"] = Hi(w), !["L"] = Lo(w)]

Cells(fr) == {Canon(fr.at), Canon(Plus(fr.at, 1))}

(* A store over a pushed word, or a new SP, and the words are forgotten. *)
Undisturbed(a) == IF \E i \in DOMAIN frames : Canon(a) \in Cells(frames[i]) THEN <<>> ELSE frames

NextPc(n) == Plus(pc, n)
KeepStack == UNCHANGED <<sp, ime, mem, frames>>
Plain == did' = Nothing

-----------------------------------------------------------------------------
(* Operands: the order of the registers in an opcode, "M" being (HL). *)

Operands == <<"B", "C", "D", "E", "H", "L", "M", "A">>
Src(op) == Operands[(op % 8) + 1]
Dst(op) == Operands[((op \div 8) % 8) + 1]
WordNo(op) == (op \div 16) % 4        \* BC, DE, HL, and SP or AF

ByteOf(s) == IF s = "M" THEN Loads(HL) ELSE {r[s]}
ReadsOf(s) == IF s = "M" THEN <<Rd(HL)>> ELSE <<>>
WritesOf(s, v) == IF s = "M" THEN <<Wr(HL, v)>> ELSE <<>>

(* r, mem and frames after v has been put where s says. *)
Put(s, v) ==
  /\ r' = IF s = "M" THEN r ELSE [r EXCEPT ![s] = v]
  /\ mem' = IF s = "M" THEN Stored(mem, HL, v) ELSE mem
  /\ frames' = IF s = "M" THEN Undisturbed(HL) ELSE frames
  /\ UNCHANGED <<sp, ime>>

(* NZ, Z, NC, C *)
Condition(op) ==
  CASE (op \div 8) % 4 = 0 -> ~f.z
    [] (op \div 8) % 4 = 1 -> f.z
    [] (op \div 8) % 4 = 2 -> ~f.c
    [] OTHER -> f.c

Rr(op) ==
  CASE WordNo(op) = 0 -> BC [] WordNo(op) = 1 -> DE [] WordNo(op) = 2 -> HL [] OTHER -> sp

SetRr(op, w) ==
  /\ r' = CASE WordNo(op) = 0 -> [r EXCEPT !["B"] = Hi(w), !["C"] = Lo(w)]
            [] WordNo(op) = 1 -> [r EXCEPT !["D"] = Hi(w), !["E"] = Lo(w)]
            [] WordNo(op) = 2 -> SetHL(w)
            [] OTHER -> r
  /\ sp' = IF WordNo(op) = 3 THEN w ELSE sp
  /\ frames' = IF WordNo(op) = 3 THEN <<>> ELSE frames
  /\ UNCHANGED <<f, ime, mem>>

-----------------------------------------------------------------------------
(* Decoding: the table's columns repeat, so that a few cases describe it. *)

LowFamily(op) ==
  CASE op % 8 = 4 -> "inc" [] op % 8 = 5 -> "dec" [] op % 8 = 6 -> "mov" [] op % 8 = 7 -> "acc"
    [] op % 16 = 1 -> "loadWord" [] op % 16 = 9 -> "addHl"
    [] op % 16 = 3 -> "incWord" [] op % 16 = 11 -> "decWord"
    [] op % 16 = 2 -> "storeA" [] op % 16 = 10 -> "loadA"
    [] op = 0 -> "nop" [] op = 8 -> "storeSp" [] op = 16 -> "stop" [] OTHER -> "jr"

MovFamily(op) == IF op = 118 THEN "halt" ELSE "mov"

HighFamily(op) ==
  CASE op % 8 = 6 -> "alu" [] op % 8 = 7 -> "rst"
    [] op % 16 = 1 -> "pop" [] op % 16 = 5 -> "push"
    [] op \in {192, 200, 201, 208, 216, 217} -> "ret"
    [] op \in {194, 195, 202, 210, 218} -> "jp"
    [] op \in {196, 204, 205, 212, 220} -> "call"
    [] op \in {224, 226, 234} -> "storeHigh" [] op \in {240, 242, 250} -> "loadHigh"
    [] op = 232 -> "addSp" [] op = 248 -> "loadHlSp" [] op = 249 -> "loadSpHl"
    [] op = 233 -> "jpHl" [] op = 243 -> "di" [] op = 251 -> "ei" [] op = 211 -> "emu"
    [] OTHER -> "unknown"

Family(op) ==
  CASE op < 64 -> LowFamily(op)
    [] op \in 64 .. 127 -> MovFamily(op)
    [] op \in 128 .. 191 -> "alu"
    [] op \in 192 .. 255 -> HighFamily(op)
    [] OTHER -> "cb"

(* The rows of 0x80-0xBF, and of 0xC6-0xFE. *)
Alu(op, a, y, aliased) ==
  LET row == (op \div 8) % 8
      carry == Num(f.c)
  IN  CASE row = 0 -> AddA(a, y)
        [] row = 1 -> AddACarry(a, y, carry)
        [] row = 2 -> Sub(a, y)
        [] row = 3 -> SubCarry(a, y, carry, aliased)
        [] row = 4 -> And(a, y)
        [] row = 5 -> Xor(a, y)
        [] row = 6 -> Or(a, y)
        [] OTHER -> Comp(a, y)

AluKind(op) == <<"add", "add", "sub", "sub", "other", "other", "other", "cp">>[((op \div 8) % 8) + 1]

(* 0x07-0x3F, the column of A and the flags. *)
Acc(op, a) ==
  LET row == (op \div 8) % 8
  IN  CASE row = 0 -> OnA(Rlc(a, f))
        [] row = 1 -> OnA(Rrc(a, f))
        [] row = 2 -> OnA(RotLeft(a, f))
        [] row = 3 -> OnA(RotRight(a, f))
        [] row = 4 -> Daa(a, f)
        [] row = 5 -> Complement(a, f)
        [] row = 6 -> SCF(a, f)
        [] OTHER -> CCF(a, f)

(* CB 0x00-0x3F *)
Shift(op, x) ==
  LET row == (op \div 8) % 8
  IN  CASE row = 0 -> Rlc(x, f)
        [] row = 1 -> Rrc(x, f)
        [] row = 2 -> RotLeft(x, f)
        [] row = 3 -> RotRight(x, f)
        [] row = 4 -> SLA(x, f)
        [] row = 5 -> SRA(x, f)
        [] row = 6 -> Swap(x, f)
        [] OTHER -> ShiftRight(x, f)

BitNo(op) == (op \div 8) % 8
IsBit(op) == op \in 320 .. 383
IsReset(op) == op \in 384 .. 447
IsSet(op) == op \in 448 .. 511

-----------------------------------------------------------------------------
(* Loads, stores and moves. *)

Nop(op) ==
  /\ Family(op) = "nop"
  /\ Do(1, <<>>, 4, pc' = NextPc(1) /\ UNCHANGED <<r, f>> /\ KeepStack /\ Plain)

(* Fault: LD (HL),u8 is charged like LD r,u8. *)
MovCheap(op) ==
  LET byImm == op < 64
      n == IF byImm THEN 2 ELSE 1
      mem1 == Dst(op) = "M"
      mem2 == ~byImm /\ Src(op) = "M"
  IN  /\ Family(op) = "mov"
      /\ \E v \in (IF byImm THEN Imm ELSE ByteOf(Src(op))) :
           Do(n, (IF mem2 THEN <<Rd(HL)>> ELSE <<>>) \o WritesOf(Dst(op), v),
              IF byImm \/ mem1 \/ mem2 THEN 8 ELSE 4,
              pc' = NextPc(n) /\ Put(Dst(op), v) /\ f' = f /\ Plain)

(* LD r,r; LD r,(HL); LD (HL),r; LD r,u8; LD (HL),u8 *)
Mov(op) ==
  LET byImm == op < 64
      n == IF byImm THEN 2 ELSE 1
      mem1 == Dst(op) = "M"
      mem2 == ~byImm /\ Src(op) = "M"
  IN  /\ Family(op) = "mov"
      /\ \E v \in (IF byImm THEN Imm ELSE ByteOf(Src(op))) :
           Do(n, (IF mem2 THEN <<Rd(HL)>> ELSE <<>>) \o WritesOf(Dst(op), v),
              IF byImm /\ mem1 THEN 12 ELSE IF byImm \/ mem1 \/ mem2 THEN 8 ELSE 4,
              pc' = NextPc(n) /\ Put(Dst(op), v) /\ f' = f /\ Plain)

(* LD (BC),A; LD (DE),A; LD (HL+),A; LD (HL-),A, and the loads to A. *)
ByWord(op) == CASE WordNo(op) = 0 -> BC [] WordNo(op) = 1 -> DE [] OTHER -> HL
Stepped(op) ==
  CASE WordNo(op) = 2 -> SetHL(Plus(HL, 1)) [] WordNo(op) = 3 -> SetHL(Plus(HL, -1)) [] OTHER -> r

StoreA(op) ==
  /\ Family(op) = "storeA"
  /\ Do(1, <<Wr(ByWord(op), r["A"])>>, 8,
        /\ pc' = NextPc(1)
        /\ mem' = Stored(mem, ByWord(op), r["A"])
        /\ frames' = Undisturbed(ByWord(op))
        /\ r' = Stepped(op)
        /\ Plain
        /\ UNCHANGED <<f, sp, ime>>)

LoadA(op) ==
  /\ Family(op) = "loadA"
  /\ \E v \in Loads(ByWord(op)) :
       Do(1, <<Rd(ByWord(op))>>, 8,
          /\ pc' = NextPc(1)
          /\ r' = [Stepped(op) EXCEPT !["A"] = v]
          /\ f' = f /\ KeepStack /\ Plain)

(***************************************************************************)
(* LDH (u8),A; LD (C),A; LD (u16),A and the loads: the bytes fetched, the  *)
(* address and the time.                                                   *)
(***************************************************************************)
HighBytes(op) == (op \div 2) % 8    \* 0: one byte, 1: none, 5: two
HighAddr(op, lo, hi) ==
  CASE HighBytes(op) = 0 -> 65280 + lo [] HighBytes(op) = 1 -> 65280 + r["C"] [] OTHER -> Pair(hi, lo)
HighFetches(op) == CASE HighBytes(op) = 0 -> 2 [] HighBytes(op) = 1 -> 1 [] OTHER -> 3
HighCycles(op) == CASE HighBytes(op) = 0 -> 12 [] HighBytes(op) = 1 -> 8 [] OTHER -> 16

StoreHigh(op) ==
  /\ Family(op) = "storeHigh"
  /\ \E lo \in Imm, hi \in Imm :
       LET a == HighAddr(op, lo, hi)
       IN  Do(HighFetches(op), <<Wr(a, r["A"])>>, HighCycles(op),
              /\ pc' = NextPc(HighFetches(op))
              /\ mem' = Stored(mem, a, r["A"])
              /\ frames' = Undisturbed(a)
              /\ Plain
              /\ UNCHANGED <<r, f, sp, ime>>)

LoadHigh(op) ==
  /\ Family(op) = "loadHigh"
  /\ \E lo \in Imm, hi \in Imm :
       LET a == HighAddr(op, lo, hi)
       IN  \E v \in Loads(a) :
             Do(HighFetches(op), <<Rd(a)>>, HighCycles(op),
                pc' = NextPc(HighFetches(op)) /\ r' = [r EXCEPT !["A"] = v] /\ f' = f
                /\ KeepStack /\ Plain)

LoadWord(op) ==
  /\ Family(op) = "loadWord"
  /\ \E lo \in Imm, hi \in Imm :
       Do(3, <<>>, 12, pc' = NextPc(3) /\ SetRr(op, Pair(hi, lo)) /\ Plain)

(* LD (u16),SP *)
StoreSp(op) ==
  /\ Family(op) = "storeSp"
  /\ \E lo \in Imm, hi \in Imm :
       LET a == Pair(hi, lo)
           b == Plus(a, 1)
       IN  Do(3, <<Wr(a, Lo(sp)), Wr(b, Hi(sp))>>, 20,
              /\ pc' = NextPc(3)
              /\ mem' = Stored(Stored(mem, a, Lo(sp)), b, Hi(sp))
              /\ frames' = IF Undisturbed(a) = frames THEN Undisturbed(b) ELSE <<>>
              /\ Plain
              /\ UNCHANGED <<r, f, sp, ime>>)

LoadSpHl(op) ==
  /\ Family(op) = "loadSpHl"
  /\ Do(1, <<>>, 8,
        pc' = NextPc(1) /\ sp' = HL /\ frames' = <<>> /\ Plain /\ UNCHANGED <<r, f, ime, mem>>)

-----------------------------------------------------------------------------
(* Arithmetic. *)

AluOp(op) ==
  LET byImm == op >= 192
      n == IF byImm THEN 2 ELSE 1
      atHl == ~byImm /\ Src(op) = "M"
  IN  /\ Family(op) = "alu"
      /\ \E y \in (IF byImm THEN Imm ELSE ByteOf(Src(op))) :
           LET res == Alu(op, r["A"], y, ~byImm /\ Src(op) = "A")
           IN  Do(n, (IF atHl THEN <<Rd(HL)>> ELSE <<>>),
                  IF byImm \/ atHl THEN 8 ELSE 4,
                  /\ pc' = NextPc(n)
                  /\ r' = [r EXCEPT !["A"] = res.v] /\ f' = res.f
                  /\ did' = [kind |-> AluKind(op), x |-> r["A"], y |-> y,
                             c |-> IF (op \div 8) % 8 \in {1, 3} THEN Num(f.c) ELSE 0]
                  /\ KeepStack)

(* INC and DEC of a register or of (HL). *)
IncDec(op) ==
  LET s == Dst(op)
  IN  /\ Family(op) \in {"inc", "dec"}
      /\ \E x \in ByteOf(s) :
           LET res == IF Family(op) = "inc" THEN Inc(x, f) ELSE Dec(x, f)
           IN  Do(1, ReadsOf(s) \o WritesOf(s, res.v), IF s = "M" THEN 12 ELSE 4,
                  pc' = NextPc(1) /\ Put(s, res.v) /\ f' = res.f /\ Plain)

(* The column of A and the flags; a DAA follows up an addition or a subtraction. *)
AccOp(op) ==
  LET res == Acc(op, r["A"])
      follows == op = 39 /\ did.kind \in {"add", "sub"}
  IN  /\ Family(op) = "acc"
      /\ Do(1, <<>>, 4,
            /\ pc' = NextPc(1)
            /\ r' = [r EXCEPT !["A"] = res.v] /\ f' = res.f
            /\ did' = IF follows THEN [did EXCEPT !.kind = IF @ = "add" THEN "daaAdd" ELSE "daaSub"]
                      ELSE Nothing
            /\ KeepStack)

IncDecWord(op) ==
  /\ Family(op) \in {"incWord", "decWord"}
  /\ Do(1, <<>>, 8,
        /\ pc' = NextPc(1)
        /\ SetRr(op, Plus(Rr(op), IF Family(op) = "incWord" THEN 1 ELSE -1))
        /\ Plain)

AddHlOp(op) ==
  LET res == AddHl(HL, Rr(op), f)
  IN  /\ Family(op) = "addHl"
      /\ Do(1, <<>>, 8,
            /\ pc' = NextPc(1)
            /\ r' = SetHL(res.v) /\ f' = res.f
            /\ did' = [kind |-> "addhl", x |-> HL, y |-> Rr(op), c |-> 0]
            /\ KeepStack)

(* ADD SP,i8 and LD HL,SP+i8 *)
AddSpOp(op) ==
  /\ Family(op) \in {"addSp", "loadHlSp"}
  /\ \E imm \in Imm :
       LET res == AddSp(sp, imm)
           toSp == Family(op) = "addSp"
       IN  Do(2, <<>>, IF toSp THEN 16 ELSE 12,
              /\ pc' = NextPc(2)
              /\ r' = IF toSp THEN r ELSE SetHL(res.v)
              /\ sp' = IF toSp THEN res.v ELSE sp
              /\ frames' = IF toSp THEN <<>> ELSE frames
              /\ f' = res.f
              /\ did' = [kind |-> "addsp", x |-> sp, y |-> imm, c |-> 0]
              /\ UNCHANGED <<ime, mem>>)

(* The opcodes behind 0xCB. *)
CbOp(op) ==
  LET s == Src(op)
  IN  /\ Family(op) = "cb"
      /\ \E x \in ByteOf(s) :
           LET res == CASE IsBit(op) -> BitN(BitNo(op), x, f)
                        [] IsReset(op) -> ResetBit(BitNo(op), x, f)
                        [] IsSet(op) -> SetBitN(BitNo(op), x, f)
                        [] OTHER -> Shift(op, x)
           IN  IF IsBit(op)
               THEN Do(2, ReadsOf(s), IF s = "M" THEN 12 ELSE 8,
                       pc' = NextPc(2) /\ f' = res.f /\ r' = r /\ KeepStack /\ Plain)
               ELSE Do(2, ReadsOf(s) \o WritesOf(s, res.v), IF s = "M" THEN 16 ELSE 8,
                       pc' = NextPc(2) /\ Put(s, res.v) /\ f' = res.f /\ Plain)

-----------------------------------------------------------------------------
(* Jumps and the stack. *)

(* JR: PC as it is before the offset is fetched, plus 1, plus the offset. *)
Jr(op) ==
  /\ Family(op) = "jr"
  /\ \E imm \in Imm :
       LET taken == op = 24 \/ Condition(op)
       IN  Do(2, <<>>, IF taken THEN 12 ELSE 8,
              /\ pc' = IF taken THEN Plus(NextPc(2), Signed(imm)) ELSE NextPc(2)
              /\ UNCHANGED <<r, f>> /\ KeepStack /\ Plain)

Jp(op) ==
  /\ Family(op) = "jp"
  /\ \E lo \in Imm, hi \in Imm :
       LET taken == op = 195 \/ Condition(op)
       IN  Do(3, <<>>, IF taken THEN 16 ELSE 12,
              /\ pc' = IF taken THEN Pair(hi, lo) ELSE NextPc(3)
              /\ UNCHANGED <<r, f>> /\ KeepStack /\ Plain)

JpHl(op) ==
  /\ Family(op) = "jpHl"
  /\ Do(1, <<>>, 4, pc' = HL /\ UNCHANGED <<r, f>> /\ KeepStack /\ Plain)

(* Fault: the low byte is pushed first. *)
PushesLowFirst(w) ==
  LET a == Plus(sp, -1)
      b == Plus(sp, -2)
      kept == IF Undisturbed(a) = frames THEN Undisturbed(b) ELSE <<>>
  IN  /\ mem' = Stored(Stored(mem, a, Lo(w)), b, Hi(w))
      /\ sp' = b
      /\ frames' = IF {Canon(a), Canon(b)} \subseteq Ram
                   THEN Append(kept, [at |-> b, word |-> w]) ELSE <<>>

(* Two bytes below SP, the high one first. *)
Pushes(w) ==
  LET a == Plus(sp, -1)
      b == Plus(sp, -2)
      kept == IF Undisturbed(a) = frames THEN Undisturbed(b) ELSE <<>>
  IN  /\ mem' = Stored(Stored(mem, a, Hi(w)), b, Lo(w))
      /\ sp' = b
      /\ frames' = IF {Canon(a), Canon(b)} \subseteq Ram
                   THEN Append(kept, [at |-> b, word |-> w]) ELSE <<>>

StackWrites(w) == <<Wr(Plus(sp, -1), Hi(w)), Wr(Plus(sp, -2), Lo(w))>>
StackReads == <<Rd(sp), Rd(Plus(sp, 1))>>
Popped == {Pair(hi, lo) : lo \in Loads(sp), hi \in Loads(Plus(sp, 1))}
Pops ==
  /\ sp' = Plus(sp, 2)
  /\ frames' = IF frames = <<>> THEN <<>> ELSE SubSeq(frames, 1, Len(frames) - 1)
  /\ mem' = mem

Push(op) ==
  /\ Family(op) = "push"
  /\ LET w == IF WordNo(op) = 3 THEN AF ELSE Rr(op)
     IN  Do(1, StackWrites(w), 16,
            pc' = NextPc(1) /\ Pushes(w) /\ Plain /\ UNCHANGED <<r, f, ime>>)

(* The low half of F is masked out of the word popped into AF. *)
Pop(op) ==
  /\ Family(op) = "pop"
  /\ \E w \in Popped :
       Do(1, StackReads, 12,
          /\ pc' = NextPc(1)
          /\ r' = CASE WordNo(op) = 0 -> [r EXCEPT !["B"] = Hi(w), !["C"] = Lo(w)]
                    [] WordNo(op) = 1 -> [r EXCEPT !["D"] = Hi(w), !["E"] = Lo(w)]
                    [] WordNo(op) = 2 -> SetHL(w)
                    [] OTHER -> [r EXCEPT !["A"] = Hi(w)]
          /\ f' = IF WordNo(op) = 3 THEN FOf(Lo(w)) ELSE f
          /\ Pops
          /\ did' = [Nothing EXCEPT !.kind = "pop", !.x = WordNo(op)]
          /\ ime' = ime)

Call(op) ==
  /\ Family(op) = "call"
  /\ \E lo \in Imm, hi \in Imm :
       IF op = 205 \/ Condition(op)
       THEN Do(3, StackWrites(NextPc(3)), 24,
               pc' = Pair(hi, lo) /\ Pushes(NextPc(3)) /\ Plain /\ UNCHANGED <<r, f, ime>>)
       ELSE Do(3, <<>>, 12, pc' = NextPc(3) /\ UNCHANGED <<r, f>> /\ KeepStack /\ Plain)

RST(op) ==
  /\ Family(op) = "rst"
  /\ Do(1, StackWrites(NextPc(1)), 16,
        pc' = op - 199 /\ Pushes(NextPc(1)) /\ Plain /\ UNCHANGED <<r, f, ime>>)

(* RET, RETI and RET cc *)
Ret(op) ==
  /\ Family(op) = "ret"
  /\ IF op \in {201, 217} \/ Condition(op)
     THEN \E w \in Popped :
            Do(1, StackReads, IF op \in {201, 217} THEN 16 ELSE 20,
               /\ pc' = w
               /\ Pops
               /\ ime' = (op = 217 \/ ime)
               /\ did' = [Nothing EXCEPT !.kind = "return"]
               /\ UNCHANGED <<r, f>>)
     ELSE Do(1, <<>>, 8, pc' = NextPc(1) /\ UNCHANGED <<r, f>> /\ KeepStack /\ Plain)

-----------------------------------------------------------------------------
(* The rest. *)

DiEi(op) ==
  /\ Family(op) \in {"di", "ei"}
  /\ Do(1, <<>>, 4,
        /\ pc' = NextPc(1)
        /\ ime' = (Family(op) = "ei")
        /\ Plain
        /\ UNCHANGED <<r, f, sp, mem, frames>>)

(* HALT waits in the kernel's time and 0xD3 is not of this machine: neither sets wait_ns_. *)
HaltEmu(op) ==
  /\ Family(op) \in {"halt", "emu"}
  /\ Do(1, <<>>, 0, pc' = NextPc(1) /\ UNCHANGED <<r, f>> /\ KeepStack /\ Plain)

(* STOP throws, and an undefined opcode ends the process. *)
Undefined(op) ==
  /\ Family(op) \in {"stop", "unknown"}
  /\ IF Fatal(Accesses(1, <<>>)) = {}
     THEN /\ run' = IF Family(op) = "stop" THEN "thrown" ELSE "exited"
          /\ UNCHANGED <<regs, mem, status, wait, did, frames, failed, busy, ramOn>>
     ELSE Fails(1, <<>>)

Instr(op) ==
  \/ Nop(op) \/ Mov(op) \/ StoreA(op) \/ LoadA(op) \/ StoreHigh(op) \/ LoadHigh(op)
  \/ LoadWord(op) \/ StoreSp(op) \/ LoadSpHl(op)
  \/ AluOp(op) \/ IncDec(op) \/ AccOp(op) \/ IncDecWord(op) \/ AddHlOp(op) \/ AddSpOp(op)
  \/ CbOp(op) \/ Jr(op) \/ Jp(op) \/ JpHl(op) \/ Push(op) \/ Pop(op) \/ Call(op) \/ RST(op)
  \/ Ret(op) \/ DiEi(op) \/ HaltEmu(op) \/ Undefined(op)

Execute(op) ==
  /\ run = "running" /\ left > 0 /\ Instr(op) /\ left' = left - 1
  /\ UNCHANGED <<program, mapper>>

(***************************************************************************)
(* HandleInterrupts, for whatever IE and IF hold (MachineCycle has them):  *)
(* the PC is pushed and, if the request has a vector, set.                 *)
(***************************************************************************)
Dispatch ==
  /\ run = "running" /\ left > 0 /\ ime
  /\ \/ /\ Answered(StackWrites(pc))
        /\ Pushes(pc)
        /\ \E v \in {64, 72, 80, 88, 96, pc} : pc' = v
        /\ ime' = FALSE
        /\ Plain
        /\ UNCHANGED <<r, f, wait, busy>>
     \/ Ends(StackWrites(pc))
  /\ left' = left - 1
  /\ UNCHANGED <<program, mapper>>

Next == Dispatch \/ \E op \in program : Execute(op)

Spec == Init /\ [][Next]_vars

-----------------------------------------------------------------------------
(***************************************************************************)
(* What an addition or a subtraction leaves in A and in the flags is,      *)
(* together, the exact sum or difference of what went in, and Z says       *)
(* whether A is zero: the code derives the carry from the wrapped result,  *)
(* after the operand, which may be A itself, has been overwritten.         *)
(***************************************************************************)
ArithmeticIsExact ==
  LET a == r["A"]
      x == did.x
      y == did.y
      c == did.c
  IN  /\ did.kind = "add" => /\ a + 256 * Num(f.c) = x + y + c
                             /\ f.h <=> (x % 16) + (y % 16) + c >= 16
      /\ did.kind = "sub" => /\ a - 256 * Num(f.c) = x - y - c
                             /\ f.h <=> (x % 16) < (y % 16) + c
      /\ did.kind = "cp" => a = x /\ (f.z <=> x = y) /\ (f.c <=> x < y)
      /\ did.kind \in {"add", "sub"} => (f.z <=> a = 0)
      /\ did.kind = "addhl" => HL + 65536 * Num(f.c) = x + y
      /\ did.kind = "addsp" => /\ f.c <=> Lo(x) + y >= 256
                               /\ f.h <=> (x % 16) + (y % 16) >= 16

Bcd(x) == x \div 16 =< 9 /\ x % 16 =< 9
Decimal(x) == 10 * (x \div 16) + (x % 16)

(***************************************************************************)
(* Two numbers in binary coded decimal, added or subtracted and then       *)
(* adjusted by DAA, give the decimal result, with C as its hundreds or its *)
(* borrow.  It takes two instructions: DAA sees only A and the flags.      *)
(***************************************************************************)
DecimalIsExact ==
  did.kind \in {"daaAdd", "daaSub"} /\ Bcd(did.x) /\ Bcd(did.y) =>
    /\ Bcd(r["A"])
    /\ did.kind = "daaAdd" =>
         Decimal(r["A"]) + 100 * Num(f.c) = Decimal(did.x) + Decimal(did.y) + did.c
    /\ did.kind = "daaSub" =>
         Decimal(r["A"]) - 100 * Num(f.c) = Decimal(did.x) - Decimal(did.y) - did.c

Top == frames[Len(frames)]

(***************************************************************************)
(* PUSH, CALL, RST and the dispatch of interrupts share one stack with POP *)
(* and RET: the word that comes off is the one that was put on last, and   *)
(* the bytes are in the right halves, unless the program stored over it or *)
(* moved SP.  POP AF drops the low half of F.                              *)
(***************************************************************************)
StackIsLifo ==
  [][frames # <<>> /\ Len(frames') < Len(frames) /\ did'.kind \in {"pop", "return"} =>
       /\ sp = Top.at
       /\ did'.kind = "return" => pc' = Top.word
       /\ did'.kind = "pop" =>
            CASE did'.x = 0 -> BC' = Top.word
              [] did'.x = 1 -> DE' = Top.word
              [] did'.x = 2 -> HL' = Top.word
              [] OTHER -> AF' = 16 * (Top.word \div 16)]_vars

(***************************************************************************)
(* The emulation ends at an assertion: FF03 of the serial port, RAM banks  *)
(* 4 to 7 of an MBC3, the disabled RAM of an MBC5, or the OAM DMA reading  *)
(* one of these; or it ends at a read, never a store, that nobody answers. *)
(* The one other cause is a status left by an earlier failed store: the    *)
(* shared payload carries it to a read of the disabled RAM of an MBC1 or   *)
(* MBC3, but only if no access in between reports success, as every fetch  *)
(* from beyond the first ROM bank does.                                    *)
(***************************************************************************)
FailureHasACause ==
  /\ run = "aborted" =>
       \/ failed.addr = SerialEnd
       \/ mapper = "MBC3" /\ failed.write /\ failed.addr \in RamBank /\ failed.v \in 4 .. 7
       \/ mapper = "MBC5" /\ ~ramOn /\ failed.addr \in ExtRam
       \/ /\ failed.write /\ failed.addr = DmaStart
          /\ failed.v = 255 \/ (mapper = "MBC5" /\ ~ramOn /\ failed.v \in 160 .. 191)
  /\ run = "thrown" /\ failed # NoAccess =>
       /\ ~failed.write
       /\ \/ failed.addr \in Unmapped
          \/ /\ mapper \in {"MBC1", "MBC3"} /\ ~ramOn /\ failed.addr \in ExtRam
             /\ pc \in FirstBank \/ failed.addr = pc

(***************************************************************************)
(* wait_ns_ accounts for at least one machine cycle per bus access, except *)
(* in HALT and 0xD3: the table of times agrees with what the handlers do.  *)
(***************************************************************************)
TimeCoversAccesses == wait > 0 => wait >= 4 * busy
=============================================================================
