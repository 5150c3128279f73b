------------------------- MODULE InstructionsProofs -------------------------
(***************************************************************************)
(* Theorems about Instructions: for every byte and word, every memory, and *)
(* every stretch of code, however long.                                    *)
(***************************************************************************)
EXTENDS Instructions, SequenceTheorems, TLAPS

-----------------------------------------------------------------------------
(* The arithmetic. *)

(* An operation yields a byte and flags. *)
Yields(res) == res.v \in Byte /\ res.f \in Flags

LEMMA ValueType == ASSUME NEW S PROVE Value(S) \in Byte
BY DEF Value, Byte

LEMMA NumType == ASSUME NEW b \in BOOLEAN PROVE Num(b) \in 0 .. 1
BY DEF Num

(* Halves of words. *)
LEMMA Halves ==
  ASSUME NEW w \in Word
  PROVE  Lo(w) \in Byte /\ Hi(w) \in Byte /\ Pair(Hi(w), Lo(w)) = w
BY DEF Word, Byte, Lo, Hi, Pair

LEMMA PairType ==
  ASSUME NEW hi \in Byte, NEW lo \in Byte
  PROVE  Pair(hi, lo) \in Word /\ Hi(Pair(hi, lo)) = hi /\ Lo(Pair(hi, lo)) = lo
BY DEF Word, Byte, Lo, Hi, Pair

LEMMA PlusType == ASSUME NEW w \in Word, NEW i \in Int PROVE Plus(w, i) \in Word
BY DEF Plus, Word

(* F holds the four flags. *)
LEMMA FlagsType ==
  ASSUME NEW fl \in Flags
  PROVE  /\ fl.z \in BOOLEAN /\ fl.n \in BOOLEAN /\ fl.h \in BOOLEAN /\ fl.c \in BOOLEAN
         /\ FByte(fl) \in Byte
BY DEF Flags, FByte, Num, Byte

LEMMA AddFacts ==
  ASSUME NEW a \in Byte, NEW y \in Byte, NEW res, res = AddA(a, y)
  PROVE  /\ Yields(res)
         /\ res.v + 256 * Num(res.f.c) = a + y
         /\ res.f.h <=> (a % 16) + (y % 16) + 0 >= 16
         /\ res.f.z <=> res.v = 0
<1> DEFINE v == (a + y) % 256
           h == Nibble(a) + Nibble(y) > 15
           c == v < y
<1>1. v \in Byte /\ v + 256 * Num(c) = a + y
  BY DEF Byte, Num
<1>2. h <=> (a % 16) + (y % 16) + 0 >= 16
  BY DEF Byte, Nibble
<1>4. res = Result(v, FALSE, h, c)
  BY DEF AddA
<1> HIDE DEF v
<1>5. res.v = v /\ res.f.z = (v = 0) /\ res.f.h = h /\ res.f.c = c
  BY <1>4 DEF Result
<1>7. Yields(res)
  BY <1>1, <1>4 DEF Result, Yields, Flags
<1> HIDE DEF h, c
<1>6. Num(res.f.c) = Num(c)
  BY <1>5 DEF Num
<1> QED
  BY <1>1, <1>2, <1>5, <1>6, <1>7

LEMMA AdcFacts ==
  ASSUME NEW a \in Byte, NEW y \in Byte, NEW carry \in 0 .. 1,
         NEW res, res = AddACarry(a, y, carry)
  PROVE  /\ Yields(res)
         /\ res.v + 256 * Num(res.f.c) = a + y + carry
         /\ res.f.h <=> (a % 16) + (y % 16) + carry >= 16
         /\ res.f.z <=> res.v = 0
<1> DEFINE v == (a + y + carry) % 256
           h == Nibble(a) + Nibble(y) + carry > 15
           c == v < a \/ (v = a /\ carry = 1)
<1>1. v \in Byte /\ v + 256 * Num(c) = a + y + carry
  BY DEF Byte, Num
<1>2. h <=> (a % 16) + (y % 16) + carry >= 16
  BY DEF Byte, Nibble
<1>4. res = Result(v, FALSE, h, c)
  BY DEF AddACarry
<1> HIDE DEF v
<1>5. res.v = v /\ res.f.z = (v = 0) /\ res.f.h = h /\ res.f.c = c
  BY <1>4 DEF Result
<1>7. Yields(res)
  BY <1>1, <1>4 DEF Result, Yields, Flags
<1> HIDE DEF h, c
<1>6. Num(res.f.c) = Num(c)
  BY <1>5 DEF Num
<1> QED
  BY <1>1, <1>2, <1>5, <1>6, <1>7

LEMMA SubFacts ==
  ASSUME NEW a \in Byte, NEW y \in Byte, NEW res, res = Sub(a, y)
  PROVE  /\ Yields(res)
         /\ res.v - 256 * Num(res.f.c) = a - y - 0
         /\ res.f.h <=> (a % 16) < (y % 16) + 0
         /\ res.f.z <=> res.v = 0
         /\ res.f.z <=> a = y
         /\ res.f.c <=> a < y
<1> DEFINE v == (a - y) % 256
           h == Nibble(a) < Nibble(y)
           c == v > a
<1>1. v \in Byte /\ v - 256 * Num(c) = a - y - 0 /\ (c <=> a < y) /\ (v = 0 <=> a = y)
  BY DEF Byte, Num
<1>2. h <=> (a % 16) < (y % 16) + 0
  BY DEF Byte, Nibble
<1>4. res = Result(v, TRUE, h, c)
  BY DEF Sub
<1> HIDE DEF v
<1>5. res.v = v /\ res.f.z = (v = 0) /\ res.f.h = h /\ res.f.c = c
  BY <1>4 DEF Result
<1>7. Yields(res)
  BY <1>1, <1>4 DEF Result, Yields, Flags
<1> HIDE DEF h, c
<1>6. Num(res.f.c) = Num(c)
  BY <1>5 DEF Num
<1> QED
  BY <1>1, <1>2, <1>5, <1>6, <1>7

(* SBC A,A included: there y is a. *)
LEMMA SbcFacts ==
  ASSUME NEW a \in Byte, NEW y \in Byte, NEW carry \in 0 .. 1, NEW aliased \in BOOLEAN,
         aliased => y = a, NEW res, res = SubCarry(a, y, carry, aliased)
  PROVE  /\ Yields(res)
         /\ res.v - 256 * Num(res.f.c) = a - y - carry
         /\ res.f.h <=> (a % 16) < (y % 16) + carry
         /\ res.f.z <=> res.v = 0
<1> DEFINE v == (a - y - carry) % 256
           again == IF aliased THEN v ELSE y
           c == v > a \/ (v = a /\ carry = 1)
           h == Nibble(a) - Nibble(again) - carry < 0
<1>1. v \in Byte /\ v - 256 * Num(c) = a - y - carry
  BY DEF Byte, Num
<1>2. h <=> (a % 16) < (y % 16) + carry
  <2>1. CASE ~aliased
    BY <2>1 DEF Byte, Nibble
  <2>2. CASE aliased
    <3>1. y = a
      BY <2>2
    <3>2. CASE carry = 0
      <4>1. v = 0
        BY <3>1, <3>2 DEF Byte
      <4>2. Nibble(again) = 0
        BY <2>2, <4>1 DEF Nibble
      <4> HIDE DEF again
      <4> QED
        BY <3>1, <3>2, <4>2 DEF Byte, Nibble
    <3>3. CASE carry = 1
      <4>1. a - y - carry = -1
        BY <3>1, <3>3 DEF Byte
      <4>3. v = 255
        BY <4>1
      <4>2. Nibble(again) = 15
        BY <2>2, <4>3 DEF Nibble
      <4> HIDE DEF again
      <4> QED
        BY <3>1, <3>3, <4>2 DEF Byte, Nibble
    <3> QED
      BY <3>2, <3>3
  <2> QED
    BY <2>1, <2>2
<1>4. res = Result(v, TRUE, h, c)
  BY DEF SubCarry
<1> HIDE DEF v
<1>5. res.v = v /\ res.f.z = (v = 0) /\ res.f.h = h /\ res.f.c = c
  BY <1>4 DEF Result
<1>7. Yields(res)
  BY <1>1, <1>4 DEF Result, Yields, Flags
<1> HIDE DEF h, c
<1>6. Num(res.f.c) = Num(c)
  BY <1>5 DEF Num
<1> QED
  BY <1>1, <1>2, <1>5, <1>6, <1>7

LEMMA CompFacts ==
  ASSUME NEW a \in Byte, NEW y \in Byte
  PROVE  LET res == Comp(a, y)
         IN  Yields(res) /\ res.v = a /\ (res.f.z <=> a = y) /\ (res.f.c <=> a < y)
<1> DEFINE res == Sub(a, y)
<1>1. res = [v |-> res.v, f |-> res.f]
  BY DEF Sub, Result
<1> HIDE DEF res
<1>2. [res EXCEPT !.v = a].v = a /\ [res EXCEPT !.v = a].f = res.f
  BY <1>1
<1>3. Comp(a, y) = [res EXCEPT !.v = a]
  BY DEF Comp, res
<1>4. Yields(res) /\ (res.f.z <=> a = y) /\ (res.f.c <=> a < y)
  BY SubFacts DEF res
<1> QED
  BY <1>2, <1>3, <1>4 DEF Yields

LEMMA LogicYields ==
  ASSUME NEW a \in Byte, NEW y \in Byte
  PROVE  Yields(And(a, y)) /\ Yields(Xor(a, y)) /\ Yields(Or(a, y))
BY ValueType DEF Result, Yields, Flags, And, Xor, Or

LEMMA IncDecYield ==
  ASSUME NEW x \in Byte, NEW fl \in Flags
  PROVE  Yields(Inc(x, fl)) /\ Yields(Dec(x, fl))
<1> DEFINE up == (x + 1) % 256
           down == (x - 1) % 256
<1>1. up \in Byte /\ down \in Byte /\ fl.c \in BOOLEAN
  BY FlagsType DEF Byte
<1>2. Inc(x, fl) = Result(up, FALSE, Nibble(up) = 0, fl.c)
  BY DEF Inc
<1>3. Dec(x, fl) = Result(down, TRUE, Nibble(down) = 15, fl.c)
  BY DEF Dec
<1> HIDE DEF up, down
<1>4. Yields(Inc(x, fl))
  BY <1>1, <1>2 DEF Result, Yields, Flags
<1>5. Yields(Dec(x, fl))
  BY <1>1, <1>3 DEF Result, Yields, Flags
<1> QED
  BY <1>4, <1>5

LEMMA ShiftsYield ==
  ASSUME NEW x \in Byte, NEW fl \in Flags
  PROVE  /\ Yields(Rlc(x, fl)) /\ Yields(Rrc(x, fl)) /\ Yields(RotLeft(x, fl))
         /\ Yields(RotRight(x, fl)) /\ Yields(SLA(x, fl)) /\ Yields(SRA(x, fl))
         /\ Yields(Swap(x, fl)) /\ Yields(ShiftRight(x, fl))
<1>1. Num(fl.c) \in 0 .. 1
  BY FlagsType, NumType
<1>2. /\ ((2 * x) % 256) + (x \div 128) \in Byte
      /\ (x \div 2) + 128 * (x % 2) \in Byte
      /\ (2 * x) % 256 \in Byte
      /\ (x \div 2) + 128 * (x \div 128) \in Byte
      /\ x \div 2 \in Byte
  BY DEF Byte
<1>3. ((2 * x) % 256) + Num(fl.c) \in Byte /\ (x \div 2) + 128 * Num(fl.c) \in Byte
  BY <1>1 DEF Byte
<1>4. 16 * (x % 16) + (x \div 16) \in Byte
  BY DEF Byte
<1>5. Yields(Rlc(x, fl))
  <2> DEFINE v == ((2 * x) % 256) + (x \div 128)
  <2>1. v \in Byte
    BY <1>2
  <2> QED
    BY <2>1 DEF Rlc, Result, Yields, Flags
<1>6. Yields(Rrc(x, fl))
  <2> DEFINE v == (x \div 2) + 128 * (x % 2)
  <2>1. v \in Byte
    BY <1>2
  <2> QED
    BY <2>1 DEF Rrc, Result, Yields, Flags
<1>7. Yields(RotLeft(x, fl))
  <2> DEFINE v == ((2 * x) % 256) + Num(fl.c)
  <2>1. v \in Byte
    BY <1>3
  <2> QED
    BY <2>1 DEF RotLeft, Result, Yields, Flags
<1>8. Yields(RotRight(x, fl))
  <2> DEFINE v == (x \div 2) + 128 * Num(fl.c)
  <2>1. v \in Byte
    BY <1>3
  <2> QED
    BY <2>1 DEF RotRight, Result, Yields, Flags
<1>9. Yields(SLA(x, fl))
  <2> DEFINE v == (2 * x) % 256
  <2>1. v \in Byte
    BY <1>2
  <2> QED
    BY <2>1 DEF SLA, Result, Yields, Flags
<1>10. Yields(SRA(x, fl))
  <2> DEFINE v == (x \div 2) + 128 * (x \div 128)
  <2>1. v \in Byte
    BY <1>2
  <2> QED
    BY <2>1 DEF SRA, Result, Yields, Flags
<1>11. Yields(Swap(x, fl))
  <2> DEFINE v == 16 * (x % 16) + (x \div 16)
  <2>1. v \in Byte
    BY <1>4
  <2> QED
    BY <2>1 DEF Swap, Result, Yields, Flags
<1>12. Yields(ShiftRight(x, fl))
  <2> DEFINE v == x \div 2
  <2>1. v \in Byte
    BY <1>2
  <2> QED
    BY <2>1 DEF ShiftRight, Result, Yields, Flags
<1> QED
  BY <1>5, <1>6, <1>7, <1>8, <1>9, <1>10, <1>11, <1>12

LEMMA BitsYield ==
  ASSUME NEW x \in Byte, NEW fl \in Flags, NEW i
  PROVE  Yields(BitN(i, x, fl)) /\ Yields(ResetBit(i, x, fl)) /\ Yields(SetBitN(i, x, fl))
BY FlagsType, ValueType DEF Yields, BitN, ResetBit, SetBitN, Flags

LEMMA DaaYields ==
  ASSUME NEW a \in Byte, NEW fl \in Flags
  PROVE  Yields(Daa(a, fl))
<1> DEFINE low == IF fl.h \/ (~fl.n /\ Nibble(a) > 9) THEN 6 ELSE 0
           high == IF fl.c \/ (~fl.n /\ a > 153) THEN 96 ELSE 0
           v == IF fl.n THEN (a - low - high) % 256 ELSE (a + low + high) % 256
<1>1. low \in {0, 6} /\ high \in {0, 96}
  OBVIOUS
<1>2. v \in Byte
  BY <1>1 DEF Byte
<1>3. (fl.c \/ high = 96) \in BOOLEAN
  OBVIOUS
<1> QED
  BY <1>2, <1>3, FlagsType DEF Daa, Yields, Flags

LEMMA AccYields ==
  ASSUME NEW a \in Byte, NEW fl \in Flags
  PROVE  Yields(Complement(a, fl)) /\ Yields(SCF(a, fl)) /\ Yields(CCF(a, fl))
<1>1. 255 - a \in Byte
  BY DEF Byte
<1>2. /\ [fl EXCEPT !.n = TRUE, !.h = TRUE] \in Flags
      /\ [fl EXCEPT !.n = FALSE, !.h = FALSE, !.c = TRUE] \in Flags
      /\ [fl EXCEPT !.n = FALSE, !.h = FALSE, !.c = ~fl.c] \in Flags
  BY DEF Flags
<1> QED
  BY <1>1, <1>2 DEF Yields, Complement, SCF, CCF

LEMMA OnAYields == ASSUME NEW x \in Byte, NEW n \in BOOLEAN, NEW h \in BOOLEAN, NEW c \in BOOLEAN
                   PROVE Yields(OnA(Result(x, n, h, c)))
BY DEF Yields, OnA, Result, Flags
(* The rows of additions and subtractions, of A and the flags, of shifts. *)
LEMMA AluYields ==
  ASSUME NEW op \in Nat, NEW a \in Byte, NEW y \in Byte, NEW aliased \in BOOLEAN,
         aliased => y = a, f \in Flags
  PROVE  Yields(Alu(op, a, y, aliased))
<1>1. Num(f.c) \in 0 .. 1
  BY FlagsType, NumType
<1>2. Yields(AddA(a, y))
  BY AddFacts
<1>3. Yields(AddACarry(a, y, Num(f.c)))
  BY <1>1, AdcFacts
<1>4. Yields(Sub(a, y))
  BY SubFacts
<1>5. Yields(SubCarry(a, y, Num(f.c), aliased))
  BY <1>1, SbcFacts
<1>6. Yields(Comp(a, y))
  BY CompFacts
<1>7. Yields(And(a, y)) /\ Yields(Xor(a, y)) /\ Yields(Or(a, y))
  BY LogicYields
<1> QED
  BY <1>2, <1>3, <1>4, <1>5, <1>6, <1>7 DEF Alu

LEMMA ShiftYields ==
  ASSUME NEW op \in Nat, NEW x \in Byte, f \in Flags
  PROVE  Yields(Shift(op, x))
<1>1. /\ Yields(Rlc(x, f)) /\ Yields(Rrc(x, f)) /\ Yields(RotLeft(x, f))
      /\ Yields(RotRight(x, f)) /\ Yields(SLA(x, f)) /\ Yields(SRA(x, f))
      /\ Yields(Swap(x, f)) /\ Yields(ShiftRight(x, f))
  BY ShiftsYield
<1> QED
  BY <1>1 DEF Shift

LEMMA OnAKeeps == ASSUME NEW res, Yields(res), res = [v |-> res.v, f |-> res.f]
                  PROVE  Yields(OnA(res))
BY DEF Yields, OnA, Flags

LEMMA AccYieldsAll ==
  ASSUME NEW op \in Nat, NEW a \in Byte, f \in Flags
  PROVE  Yields(Acc(op, a))
<1>1. Yields(Rlc(a, f)) /\ Yields(Rrc(a, f)) /\ Yields(RotLeft(a, f)) /\ Yields(RotRight(a, f))
  BY ShiftsYield
<1>2. /\ Rlc(a, f) = [v |-> Rlc(a, f).v, f |-> Rlc(a, f).f]
      /\ Rrc(a, f) = [v |-> Rrc(a, f).v, f |-> Rrc(a, f).f]
      /\ RotLeft(a, f) = [v |-> RotLeft(a, f).v, f |-> RotLeft(a, f).f]
      /\ RotRight(a, f) = [v |-> RotRight(a, f).v, f |-> RotRight(a, f).f]
  BY DEF Rlc, Rrc, RotLeft, RotRight, Result
<1>3. Yields(OnA(Rlc(a, f))) /\ Yields(OnA(Rrc(a, f))) /\ Yields(OnA(RotLeft(a, f)))
      /\ Yields(OnA(RotRight(a, f)))
  BY <1>1, <1>2, OnAKeeps
<1>4. Yields(Daa(a, f))
  BY DaaYields
<1>5. Yields(Complement(a, f)) /\ Yields(SCF(a, f)) /\ Yields(CCF(a, f))
  BY AccYields
<1> QED
  BY <1>3, <1>4, <1>5 DEF Acc

(***************************************************************************)
(* Rotations and shifts lose no bit but the one that C takes, whose value  *)
(* the code often reads from the result: the result and the carry together *)
(* are twice the operand, or its half, exactly.  SRA halves the signed     *)
(* number, and SWAP exchanges the halves.                                  *)
(***************************************************************************)
THEOREM ShiftsAreExact ==
  ASSUME NEW x \in Byte, NEW fl \in Flags
  PROVE  /\ Rlc(x, fl).v + 255 * Num(Rlc(x, fl).f.c) = 2 * x
         /\ 2 * Rrc(x, fl).v = x + 255 * Num(Rrc(x, fl).f.c)
         /\ RotLeft(x, fl).v + 256 * Num(RotLeft(x, fl).f.c) = 2 * x + Num(fl.c)
         /\ 2 * RotRight(x, fl).v + Num(RotRight(x, fl).f.c) = x + 256 * Num(fl.c)
         /\ SLA(x, fl).v + 256 * Num(SLA(x, fl).f.c) = 2 * x
         /\ 2 * Signed(SRA(x, fl).v) + Num(SRA(x, fl).f.c) = Signed(x)
         /\ 2 * ShiftRight(x, fl).v + Num(ShiftRight(x, fl).f.c) = x
         /\ Swap(x, fl).v % 16 = x \div 16 /\ Swap(x, fl).v \div 16 = x % 16
<1>0. Num(fl.c) \in 0 .. 1
  BY FlagsType, NumType
<1>1. Rlc(x, fl).v + 255 * Num(Rlc(x, fl).f.c) = 2 * x
  <2> DEFINE v == ((2 * x) % 256) + (x \div 128)
  <2>1. v + 255 * (IF v % 2 = 1 THEN 1 ELSE 0) = 2 * x
    BY DEF Byte
  <2>2. Rlc(x, fl) = Result(v, FALSE, FALSE, v % 2 = 1)
    BY DEF Rlc
  <2> HIDE DEF v
  <2>3. Rlc(x, fl).v = v /\ Rlc(x, fl).f.c = (v % 2 = 1)
    BY <2>2 DEF Result
  <2> QED
    BY <2>1, <2>3 DEF Num
<1>2. 2 * Rrc(x, fl).v = x + 255 * Num(Rrc(x, fl).f.c)
  <2> DEFINE v == (x \div 2) + 128 * (x % 2)
  <2>1. 2 * v = x + 255 * (IF v >= 128 THEN 1 ELSE 0)
    BY DEF Byte
  <2>2. Rrc(x, fl) = Result(v, FALSE, FALSE, v >= 128)
    BY DEF Rrc
  <2> HIDE DEF v
  <2>3. Rrc(x, fl).v = v /\ Rrc(x, fl).f.c = (v >= 128)
    BY <2>2 DEF Result
  <2> QED
    BY <2>1, <2>3 DEF Num
<1>3. RotLeft(x, fl).v + 256 * Num(RotLeft(x, fl).f.c) = 2 * x + Num(fl.c)
  <2> DEFINE v == ((2 * x) % 256) + Num(fl.c)
  <2>1. v + 256 * (IF x >= 128 THEN 1 ELSE 0) = 2 * x + Num(fl.c)
    BY <1>0 DEF Byte
  <2>2. RotLeft(x, fl) = Result(v, FALSE, FALSE, x >= 128)
    BY DEF RotLeft
  <2> HIDE DEF v
  <2>3. RotLeft(x, fl).v = v /\ RotLeft(x, fl).f.c = (x >= 128)
    BY <2>2 DEF Result
  <2>4. Num(RotLeft(x, fl).f.c) = IF x >= 128 THEN 1 ELSE 0
    BY <2>3 DEF Num
  <2> QED
    BY <2>1, <2>3, <2>4
<1>4. 2 * RotRight(x, fl).v + Num(RotRight(x, fl).f.c) = x + 256 * Num(fl.c)
  <2> DEFINE v == (x \div 2) + 128 * Num(fl.c)
  <2>1. 2 * v + (IF x % 2 = 1 THEN 1 ELSE 0) = x + 256 * Num(fl.c)
    BY <1>0 DEF Byte
  <2>2. RotRight(x, fl) = Result(v, FALSE, FALSE, x % 2 = 1)
    BY DEF RotRight
  <2> HIDE DEF v
  <2>3. RotRight(x, fl).v = v /\ RotRight(x, fl).f.c = (x % 2 = 1)
    BY <2>2 DEF Result
  <2>4. Num(RotRight(x, fl).f.c) = IF x % 2 = 1 THEN 1 ELSE 0
    BY <2>3 DEF Num
  <2> QED
    BY <2>1, <2>3, <2>4
<1>5. SLA(x, fl).v + 256 * Num(SLA(x, fl).f.c) = 2 * x
  <2> DEFINE v == (2 * x) % 256
  <2>1. v + 256 * (IF x >= 128 THEN 1 ELSE 0) = 2 * x
    BY DEF Byte
  <2>2. SLA(x, fl) = Result(v, FALSE, FALSE, x >= 128)
    BY DEF SLA
  <2> HIDE DEF v
  <2>3. SLA(x, fl).v = v /\ SLA(x, fl).f.c = (x >= 128)
    BY <2>2 DEF Result
  <2> QED
    BY <2>1, <2>3 DEF Num
<1>6. 2 * Signed(SRA(x, fl).v) + Num(SRA(x, fl).f.c) = Signed(x)
  <2> DEFINE v == (x \div 2) + 128 * (x \div 128)
  <2>1. 2 * Signed(v) + (IF x % 2 = 1 THEN 1 ELSE 0) = Signed(x)
    BY DEF Byte, Signed
  <2>2. SRA(x, fl) = Result(v, FALSE, FALSE, x % 2 = 1)
    BY DEF SRA
  <2> HIDE DEF v
  <2>3. SRA(x, fl).v = v /\ SRA(x, fl).f.c = (x % 2 = 1)
    BY <2>2 DEF Result
  <2> QED
    BY <2>1, <2>3 DEF Num
<1>7. 2 * ShiftRight(x, fl).v + Num(ShiftRight(x, fl).f.c) = x
  <2>1. 2 * (x \div 2) + (IF x % 2 = 1 THEN 1 ELSE 0) = x
    BY DEF Byte
  <2>2. ShiftRight(x, fl).v = x \div 2 /\ ShiftRight(x, fl).f.c = (x % 2 = 1)
    BY DEF ShiftRight, Result
  <2> QED
    BY <2>1, <2>2 DEF Num
<1>8. Swap(x, fl).v % 16 = x \div 16 /\ Swap(x, fl).v \div 16 = x % 16
  <2>1. Swap(x, fl).v = 16 * (x % 16) + (x \div 16)
    BY DEF Swap, Result
  <2> QED
    BY <2>1 DEF Byte
<1> QED
  BY <1>1, <1>2, <1>3, <1>4, <1>5, <1>6, <1>7, <1>8

(***************************************************************************)
(* INC and DEC keep the carry and undo each other, and the half carry,     *)
(* which the code reads from the result, is the one of the low half.       *)
(***************************************************************************)
THEOREM IncDecAreExact ==
  ASSUME NEW x \in Byte, NEW fl \in Flags
  PROVE  /\ Inc(x, fl).v + 256 * Num(x = 255) = x + 1
         /\ Inc(x, fl).f.h <=> (x % 16) + 1 >= 16
         /\ Dec(x, fl).v - 256 * Num(x = 0) = x - 1
         /\ Dec(x, fl).f.h <=> x % 16 < 1
         /\ Inc(x, fl).f.c = fl.c /\ Dec(x, fl).f.c = fl.c
         /\ Dec(Inc(x, fl).v, fl).v = x /\ Inc(Dec(x, fl).v, fl).v = x
<1> DEFINE up == (x + 1) % 256
           down == (x - 1) % 256
<1>1. /\ Inc(x, fl) = Result(up, FALSE, Nibble(up) = 0, fl.c)
      /\ Dec(x, fl) = Result(down, TRUE, Nibble(down) = 15, fl.c)
  BY DEF Inc, Dec
<1>2. /\ up + 256 * (IF x = 255 THEN 1 ELSE 0) = x + 1
      /\ down - 256 * (IF x = 0 THEN 1 ELSE 0) = x - 1
      /\ Nibble(up) = 0 <=> (x % 16) + 1 >= 16
      /\ Nibble(down) = 15 <=> x % 16 < 1
      /\ (up - 1) % 256 = x /\ (down + 1) % 256 = x
  BY DEF Byte, Nibble
<1> HIDE DEF up, down
<1>3. /\ Inc(x, fl).v = up /\ Inc(x, fl).f.h = (Nibble(up) = 0) /\ Inc(x, fl).f.c = fl.c
      /\ Dec(x, fl).v = down /\ Dec(x, fl).f.h = (Nibble(down) = 15) /\ Dec(x, fl).f.c = fl.c
  BY <1>1 DEF Result
<1>4. Dec(up, fl).v = (up - 1) % 256 /\ Inc(down, fl).v = (down + 1) % 256
  BY DEF Inc, Dec, Result
<1> QED
  BY <1>2, <1>3, <1>4 DEF Num

(* What bit i of a byte is. *)
LEMMA BitsOf ==
  ASSUME NEW x \in Byte
  PROVE  /\ Bits(x) \subseteq 0 .. 7
         /\ 0 \in Bits(x) <=> x % 2 = 1
         /\ 1 \in Bits(x) <=> (x \div 2) % 2 = 1
         /\ 2 \in Bits(x) <=> (x \div 4) % 2 = 1
         /\ 3 \in Bits(x) <=> (x \div 8) % 2 = 1
         /\ 4 \in Bits(x) <=> (x \div 16) % 2 = 1
         /\ 5 \in Bits(x) <=> (x \div 32) % 2 = 1
         /\ 6 \in Bits(x) <=> (x \div 64) % 2 = 1
         /\ 7 \in Bits(x) <=> (x \div 128) % 2 = 1
<1>1. 2^0 = 1 /\ 2^1 = 2 /\ 2^2 = 4 /\ 2^3 = 8 /\ 2^4 = 16 /\ 2^5 = 32 /\ 2^6 = 64 /\ 2^7 = 128
  OBVIOUS
<1>2. \A i \in 0 .. 7 : i \in Bits(x) <=> (x \div 2^i) % 2 = 1
  BY Zenon DEF Bits
<1>3. \A i \in {0, 1, 2, 3, 4, 5, 6, 7} : i \in 0 .. 7
  OBVIOUS
<1>4. /\ 0 \in Bits(x) <=> (x \div 2^0) % 2 = 1
      /\ 1 \in Bits(x) <=> (x \div 2^1) % 2 = 1
      /\ 2 \in Bits(x) <=> (x \div 2^2) % 2 = 1
      /\ 3 \in Bits(x) <=> (x \div 2^3) % 2 = 1
      /\ 4 \in Bits(x) <=> (x \div 2^4) % 2 = 1
      /\ 5 \in Bits(x) <=> (x \div 2^5) % 2 = 1
      /\ 6 \in Bits(x) <=> (x \div 2^6) % 2 = 1
      /\ 7 \in Bits(x) <=> (x \div 2^7) % 2 = 1
  BY <1>2, <1>3, Zenon
<1>5. x \div 1 = x
  BY DEF Byte
<1>6. Bits(x) \subseteq 0 .. 7
  BY Zenon DEF Bits
<1>7. 0 \in Bits(x) <=> (x \div 1) % 2 = 1
  BY <1>1, <1>4, Zenon
<1>8. /\ 1 \in Bits(x) <=> (x \div 2) % 2 = 1
      /\ 2 \in Bits(x) <=> (x \div 4) % 2 = 1
      /\ 3 \in Bits(x) <=> (x \div 8) % 2 = 1
      /\ 4 \in Bits(x) <=> (x \div 16) % 2 = 1
      /\ 5 \in Bits(x) <=> (x \div 32) % 2 = 1
      /\ 6 \in Bits(x) <=> (x \div 64) % 2 = 1
      /\ 7 \in Bits(x) <=> (x \div 128) % 2 = 1
  BY <1>1, <1>4, Zenon
<1> QED
  BY <1>5, <1>6, <1>7, <1>8

LEMMA SameBits ==
  ASSUME NEW S, NEW T, S \subseteq 0 .. 7, T \subseteq 0 .. 7,
         0 \in S <=> 0 \in T, 1 \in S <=> 1 \in T, 2 \in S <=> 2 \in T, 3 \in S <=> 3 \in T,
         4 \in S <=> 4 \in T, 5 \in S <=> 5 \in T, 6 \in S <=> 6 \in T, 7 \in S <=> 7 \in T
  PROVE  S = T
<1>1. \A i \in 0 .. 7 : i \in {0, 1, 2, 3, 4, 5, 6, 7}
  OBVIOUS
<1>2. \A i \in 0 .. 7 : i \in S <=> i \in T
  BY <1>1
<1> QED
  BY <1>2

(* A byte is the sum of its bits, and a set of bits is the byte's that it sums to. *)
LEMMA ValueOfBits == ASSUME NEW x \in Byte PROVE Value(Bits(x)) = x
<1>1. /\ x % 2 \in {0, 1} /\ (x \div 2) % 2 \in {0, 1} /\ (x \div 4) % 2 \in {0, 1}
      /\ (x \div 8) % 2 \in {0, 1} /\ (x \div 16) % 2 \in {0, 1} /\ (x \div 32) % 2 \in {0, 1}
      /\ (x \div 64) % 2 \in {0, 1} /\ (x \div 128) % 2 \in {0, 1}
  BY DEF Byte
<1>2. x = (x % 2) + 2 * ((x \div 2) % 2) + 4 * ((x \div 4) % 2) + 8 * ((x \div 8) % 2)
          + 16 * ((x \div 16) % 2) + 32 * ((x \div 32) % 2) + 64 * ((x \div 64) % 2)
          + 128 * ((x \div 128) % 2)
  BY DEF Byte
<1> QED
  BY <1>1, <1>2, BitsOf DEF Value

LEMMA BitsOfValue == ASSUME NEW S, S \subseteq 0 .. 7 PROVE Bits(Value(S)) = S
<1> DEFINE b0 == IF 0 \in S THEN 1 ELSE 0
           b1 == IF 1 \in S THEN 1 ELSE 0
           b2 == IF 2 \in S THEN 1 ELSE 0
           b3 == IF 3 \in S THEN 1 ELSE 0
           b4 == IF 4 \in S THEN 1 ELSE 0
           b5 == IF 5 \in S THEN 1 ELSE 0
           b6 == IF 6 \in S THEN 1 ELSE 0
           b7 == IF 7 \in S THEN 1 ELSE 0
           x == Value(S)
<1>1. /\ b0 \in 0 .. 1 /\ b1 \in 0 .. 1 /\ b2 \in 0 .. 1 /\ b3 \in 0 .. 1
      /\ b4 \in 0 .. 1 /\ b5 \in 0 .. 1 /\ b6 \in 0 .. 1 /\ b7 \in 0 .. 1
  OBVIOUS
<1>2. x = b0 + 2 * b1 + 4 * b2 + 8 * b3 + 16 * b4 + 32 * b5 + 64 * b6 + 128 * b7
  BY DEF Value
<1>3. /\ 0 \in S <=> b0 = 1
      /\ 1 \in S <=> b1 = 1
      /\ 2 \in S <=> b2 = 1
      /\ 3 \in S <=> b3 = 1
      /\ 4 \in S <=> b4 = 1
      /\ 5 \in S <=> b5 = 1
      /\ 6 \in S <=> b6 = 1
      /\ 7 \in S <=> b7 = 1
  OBVIOUS
<1>4. x \in Byte
  BY ValueType
<1> HIDE DEF b0, b1, b2, b3, b4, b5, b6, b7, x
<1>5. /\ x % 2 = b0 /\ (x \div 2) % 2 = b1 /\ (x \div 4) % 2 = b2 /\ (x \div 8) % 2 = b3
      /\ (x \div 16) % 2 = b4 /\ (x \div 32) % 2 = b5 /\ (x \div 64) % 2 = b6
      /\ (x \div 128) % 2 = b7
  BY <1>1, <1>2
<1>6. Bits(x) = S
  <2>1. /\ 0 \in Bits(x) <=> 0 \in S
        /\ 1 \in Bits(x) <=> 1 \in S
        /\ 2 \in Bits(x) <=> 2 \in S
        /\ 3 \in Bits(x) <=> 3 \in S
        /\ 4 \in Bits(x) <=> 4 \in S
        /\ 5 \in Bits(x) <=> 5 \in S
        /\ 6 \in Bits(x) <=> 6 \in S
        /\ 7 \in Bits(x) <=> 7 \in S
    BY <1>3, <1>4, <1>5, BitsOf
  <2>2. Bits(x) \subseteq 0 .. 7
    BY <1>4, BitsOf
  <2> QED
    BY <2>1, <2>2, SameBits, Zenon
<1> QED
  BY <1>6 DEF x

(***************************************************************************)
(* The logic operations and the bit instructions do to every bit what they *)
(* are named for and Z tells what they found: bytes put together from      *)
(* their bits are taken apart into the same bits again.  XOR undoes        *)
(* itself, CPL is computed by arithmetic, and BIT sees what SET and RES    *)
(* have done and nothing else.                                             *)
(***************************************************************************)
THEOREM LogicIsBitwise ==
  ASSUME NEW a \in Byte, NEW y \in Byte, NEW fl \in Flags, NEW i \in 0 .. 7
  PROVE  /\ Bits(And(a, y).v) = Bits(a) \cap Bits(y)
         /\ Bits(Or(a, y).v) = Bits(a) \cup Bits(y)
         /\ Bits(Xor(a, y).v) = (Bits(a) \ Bits(y)) \cup (Bits(y) \ Bits(a))
         /\ Xor(Xor(a, y).v, y).v = a
         /\ And(a, y).f.z <=> Bits(a) \cap Bits(y) = {}
         /\ Or(a, y).f.z <=> a = 0 /\ y = 0
         /\ Xor(a, y).f.z <=> a = y
         /\ Bits(Complement(a, fl).v) = (0 .. 7) \ Bits(a)
         /\ BitN(i, SetBitN(i, a, fl).v, fl).f.z = FALSE
         /\ BitN(i, ResetBit(i, a, fl).v, fl).f.z = TRUE
         /\ \A j \in (0 .. 7) \ {i} :
              /\ BitN(j, SetBitN(i, a, fl).v, fl).f = BitN(j, a, fl).f
              /\ BitN(j, ResetBit(i, a, fl).v, fl).f = BitN(j, a, fl).f
<1> DEFINE A == Bits(a)
           Y == Bits(y)
<1>1. A \subseteq 0 .. 7 /\ Y \subseteq 0 .. 7 /\ Value(A) = a /\ Value(Y) = y
  BY BitsOf, ValueOfBits
<1>2. /\ And(a, y).v = Value(A \cap Y) /\ And(a, y).f.z = (Value(A \cap Y) = 0)
      /\ Or(a, y).v = Value(A \cup Y) /\ Or(a, y).f.z = (Value(A \cup Y) = 0)
  BY DEF And, Or, Result
<1>3. /\ Xor(a, y).v = Value((A \ Y) \cup (Y \ A))
      /\ Xor(a, y).f.z = (Value((A \ Y) \cup (Y \ A)) = 0)
      /\ Xor(Xor(a, y).v, y).v = Value((Bits(Xor(a, y).v) \ Y) \cup (Y \ Bits(Xor(a, y).v)))
  BY DEF Xor, Result
<1> HIDE DEF A, Y
<1>4. ASSUME NEW S, S \subseteq 0 .. 7 PROVE Value(S) = 0 <=> S = {}
  <2>1. Bits(Value(S)) = S
    BY <1>4, BitsOfValue
  <2>2. Value({}) = 0
    BY DEF Value
  <2>3. Bits(Value({})) = {}
    BY BitsOfValue
  <2> QED
    BY <2>1, <2>2, <2>3
<1>5. /\ A \cap Y \subseteq 0 .. 7 /\ A \cup Y \subseteq 0 .. 7
      /\ (A \ Y) \cup (Y \ A) \subseteq 0 .. 7
  BY <1>1
<1>6. Bits(And(a, y).v) = A \cap Y /\ Bits(Or(a, y).v) = A \cup Y
      /\ Bits(Xor(a, y).v) = (A \ Y) \cup (Y \ A)
  BY <1>2, <1>3, <1>5, BitsOfValue
<1>7. /\ And(a, y).f.z <=> A \cap Y = {}
      /\ Or(a, y).f.z <=> A \cup Y = {}
      /\ Xor(a, y).f.z <=> (A \ Y) \cup (Y \ A) = {}
  BY <1>2, <1>3, <1>4, <1>5
<1>8. Xor(Xor(a, y).v, y).v = a
  <2>1. (((A \ Y) \cup (Y \ A)) \ Y) \cup (Y \ ((A \ Y) \cup (Y \ A))) = A
    OBVIOUS
  <2> QED
    BY <1>1, <1>3, <1>6, <2>1
<1>9. (A = {} <=> a = 0) /\ (Y = {} <=> y = 0) /\ (A = Y <=> a = y)
  <2>1. (A = {} <=> a = 0) /\ (Y = {} <=> y = 0)
    BY <1>1, <1>4
  <2>2. A = Y => a = y
    BY <1>1
  <2>3. a = y => A = Y
    BY DEF A, Y
  <2> QED
    BY <2>1, <2>2, <2>3
<1>10. Bits(Complement(a, fl).v) = (0 .. 7) \ A
  <2> DEFINE S == (0 .. 7) \ A
  <2>1. Bits(Value(S)) = S
    BY BitsOfValue
  <2>2. Value(S) + Value(A) = 255
    <3>1. \A k \in {0, 1, 2, 3, 4, 5, 6, 7} : k \in S <=> k \notin A
      OBVIOUS
    <3> HIDE DEF S
    <3> QED
      BY <3>1 DEF Value
  <2>3. Complement(a, fl).v = 255 - a
    BY DEF Complement
  <2>4. Value(S) = 255 - a
    BY <1>1, <2>2, ValueType DEF Byte
  <2> QED
    BY <2>1, <2>3, <2>4
<1>11. /\ SetBitN(i, a, fl).v = Value(A \cup {i}) /\ ResetBit(i, a, fl).v = Value(A \ {i})
  BY DEF SetBitN, ResetBit, A
<1>12. /\ Bits(SetBitN(i, a, fl).v) = A \cup {i} /\ Bits(ResetBit(i, a, fl).v) = A \ {i}
  BY <1>1, <1>11, BitsOfValue
<1>13. /\ BitN(i, SetBitN(i, a, fl).v, fl).f.z = FALSE
       /\ BitN(i, ResetBit(i, a, fl).v, fl).f.z = TRUE
  BY <1>12 DEF BitN
<1>14. ASSUME NEW j, NEW x, j \in Bits(x) <=> j \in A
       PROVE  BitN(j, x, fl).f = BitN(j, a, fl).f
  <2>1. (j \notin Bits(x)) = (j \notin Bits(a))
    BY <1>14 DEF A
  <2> QED
    BY <2>1 DEF BitN
<1>15. \A j \in (0 .. 7) \ {i} :
         /\ BitN(j, SetBitN(i, a, fl).v, fl).f = BitN(j, a, fl).f
         /\ BitN(j, ResetBit(i, a, fl).v, fl).f = BitN(j, a, fl).f
  BY <1>12, <1>14
<1>16. /\ A \cup Y = {} <=> a = 0 /\ y = 0
       /\ (A \ Y) \cup (Y \ A) = {} <=> a = y
  BY <1>9
<1> QED
  BY <1>6, <1>7, <1>8, <1>10, <1>13, <1>15, <1>16 DEF A, Y

LEMMA AddHlFacts ==
  ASSUME NEW hl \in Word, NEW y \in Word, NEW fl \in Flags, NEW res, res = AddHl(hl, y, fl)
  PROVE  /\ res.v \in Word /\ res.f \in Flags
         /\ res.v + 65536 * Num(res.f.c) = hl + y
<1> DEFINE v == (hl + y) % 65536
           h == (hl % 4096) + (y % 4096) > 4095
           c == v < hl
<1>1. v \in Word /\ v + 65536 * Num(c) = hl + y
  BY DEF Word, Num
<1>2. res = [v |-> v, f |-> [z |-> fl.z, n |-> FALSE, h |-> h, c |-> c]]
  BY DEF AddHl
<1>3. fl.z \in BOOLEAN
  BY FlagsType
<1> HIDE DEF v
<1>4. res.v = v /\ res.f.c = c /\ res.f \in Flags
  BY <1>2, <1>3 DEF Flags
<1> HIDE DEF c, h
<1>5. Num(res.f.c) = Num(c)
  BY <1>4 DEF Num
<1> QED
  BY <1>1, <1>4, <1>5

LEMMA Parity ==
  ASSUME NEW a \in Int, NEW b \in Int, NEW k \in Int, NEW n \in 0 .. 1
  PROVE  (a + (b % 2) + (a + b + n - 2 * k)) % 2 = n
<1>1. PICK q \in Int : b = 2 * q + (b % 2)
  OBVIOUS
<1> DEFINE m == a + q - k + (b % 2)
<1>2. a + (b % 2) + (a + b + n - 2 * k) = 2 * m + n
  BY <1>1
<1>3. m \in Int
  BY <1>1
<1> HIDE DEF m
<1>4. (2 * m + n) % 2 = n
  BY <1>3
<1> QED
  BY <1>2, <1>4

(* The flags of ADD SP,i8 are those of adding the byte without its sign. *)
LEMMA AddSpFacts ==
  ASSUME NEW s \in Word, NEW imm \in Byte, NEW res, res = AddSp(s, imm)
  PROVE  /\ res.v \in Word /\ res.f \in Flags
         /\ res.f.c <=> Lo(s) + imm >= 256
         /\ res.f.h <=> (s % 16) + (imm % 16) >= 16
<1> DEFINE v == (s + Signed(imm)) % 65536
           h == CarryInto(16, s, (imm \div 16) % 2, v)
           c == CarryInto(256, s, imm \div 128, v)
           nh == IF (s % 16) + (imm % 16) >= 16 THEN 1 ELSE 0
           nc == IF (s % 256) + imm >= 256 THEN 1 ELSE 0
<1>1. Signed(imm) = imm - 256 * (imm \div 128) /\ imm \div 128 \in {0, 1}
  BY DEF Signed, Byte
<1>2. PICK m \in Int : v = s + imm - 256 * (imm \div 128) - 65536 * m
  <2>1. s + Signed(imm) \in Int /\ v = (s + Signed(imm)) - 65536 * ((s + Signed(imm)) \div 65536)
    BY <1>1 DEF Word, Byte
  <2>2. (s + Signed(imm)) \div 65536 \in Int
    BY <2>1
  <2> QED
    BY <1>1, <2>1, <2>2 DEF Byte, Word
<1>3. v \in Word
  BY <1>1 DEF Word, Byte
<1>4. h <=> nh = 1
  <2>1. (s + imm) \div 16 = (s \div 16) + (imm \div 16) + nh
    BY DEF Word, Byte
  <2>2. v \div 16 = (s \div 16) + (imm \div 16) + nh - 2 * (8 * (imm \div 128) + 2048 * m)
    <3> DEFINE j == imm \div 128
    <3>1. j \in Int /\ v = (s + imm) - 16 * (16 * j + 4096 * m)
      BY <1>1, <1>2 DEF Word, Byte
    <3> HIDE DEF j, v
    <3>2. v \div 16 = ((s + imm) \div 16) - (16 * j + 4096 * m)
      BY <3>1 DEF Word, Byte
    <3> HIDE DEF nh
    <3>3. nh \in 0 .. 1
      BY DEF nh
    <3> QED
      BY <2>1, <3>1, <3>2, <3>3 DEF Word, Byte, j
  <2>3. ((s \div 16) + ((imm \div 16) % 2) + (v \div 16)) % 2 = nh
    <3>1. s \div 16 \in Int /\ imm \div 16 \in Int /\ nh \in 0 .. 1
          /\ 8 * (imm \div 128) + 2048 * m \in Int
      BY DEF Word, Byte
    <3> QED
      BY <2>2, <3>1, Parity
  <2> QED
    BY <2>3 DEF CarryInto
<1>5. c <=> nc = 1
  <2>1. (s + imm) \div 256 = (s \div 256) + nc
    BY DEF Word, Byte
  <2>2. v \div 256 = (s \div 256) + nc - (imm \div 128) - 256 * m
    <3> DEFINE j == imm \div 128
    <3>1. j \in Int /\ v = (s + imm) - 256 * (j + 256 * m)
      BY <1>1, <1>2 DEF Word, Byte
    <3> HIDE DEF j, v
    <3>2. v \div 256 = ((s + imm) \div 256) - (j + 256 * m)
      BY <3>1 DEF Word, Byte
    <3> HIDE DEF nc
    <3>3. nc \in 0 .. 1
      BY DEF nc
    <3> QED
      BY <2>1, <3>1, <3>2, <3>3 DEF Word, Byte, j
  <2>3. ((s \div 256) + (imm \div 128) + (v \div 256)) % 2 = nc
    <3> DEFINE a == s \div 256
               j == imm \div 128
    <3>1. a \in Int /\ j \in {0, 1} /\ nc \in 0 .. 1
      BY <1>1 DEF Word, Byte
    <3>2. v \div 256 = a + nc - j - 256 * m
      BY <2>2
    <3> HIDE DEF a, j, v, nc
    <3>3. a + j + (v \div 256) = 2 * (a - 128 * m) + nc
      BY <3>1, <3>2
    <3>4. (2 * (a - 128 * m) + nc) % 2 = nc
      BY <3>1
    <3> QED
      BY <3>3, <3>4 DEF a, j
  <2> QED
    BY <2>3 DEF CarryInto
<1>6. res = [v |-> v, f |-> [z |-> FALSE, n |-> FALSE, h |-> h, c |-> c]]
  BY DEF AddSp
<1>7. nh = 1 <=> (s % 16) + (imm % 16) >= 16
  OBVIOUS
<1>8. nc = 1 <=> Lo(s) + imm >= 256
  BY DEF Lo
<1>9. h \in BOOLEAN /\ c \in BOOLEAN
  BY DEF CarryInto
<1> HIDE DEF v, h, c, nh, nc
<1>10. res.v = v /\ res.f.h = h /\ res.f.c = c /\ res.f \in Flags
  BY <1>6, <1>9 DEF Flags
<1> QED
  BY <1>3, <1>4, <1>5, <1>7, <1>8, <1>10

-----------------------------------------------------------------------------
(* Accesses. *)

Access == [addr : Word, write : BOOLEAN, v : Byte]

(* What a handler does on the bus: two accesses at most, its reads before its stores. *)
Orderly(data) ==
  /\ data \in Seq(Access) /\ Len(data) =< 2
  /\ \A i, j \in 1 .. Len(data) : i < j /\ data[i].write => data[j].write

(* The instruction in progress fetches something and takes its time, or is HALT or 0xD3. *)
Steps ==
  \E n \in 1 .. 3, cycles \in Nat : \E data \in Seq(Access) :
    /\ Orderly(data)
    /\ cycles = 0 \/ cycles >= 4 * (n + Len(data))
    /\ Completes(n, data, cycles) \/ Fails(n, data)

PayloadOK ==
  /\ status \in Statuses
  /\ run \in {"running", "thrown", "aborted", "exited"}
  /\ wait \in Nat
  /\ failed \in Access \cup {NoAccess}
  /\ busy \in Nat
  /\ ramOn \in BOOLEAN

StateOK ==
  /\ r \in [Reg8 -> Byte]
  /\ f \in Flags
  /\ sp \in Word /\ pc \in Word
  /\ ime \in BOOLEAN
  /\ mem \in [Ram -> Byte]
  /\ did \in Did
  /\ frames \in Seq(Frame)

LEMMA TypeParts ==
  TypeOK <=> /\ StateOK /\ PayloadOK
             /\ program \in SUBSET Opcode /\ left \in Nat /\ mapper \in Mappers
BY DEF TypeOK, StateOK, PayloadOK, Access

LEMMA RdWr == ASSUME NEW a \in Word, NEW v \in Byte
              PROVE  /\ Rd(a) \in Access /\ Rd(a).addr = a /\ ~Rd(a).write
                     /\ Wr(a, v) \in Access /\ Wr(a, v).addr = a /\ Wr(a, v).write
BY DEF Rd, Wr, Access, Byte

(* The shapes that occur. *)
LEMMA Shapes ==
  ASSUME NEW a \in Word, NEW b \in Word, NEW u \in Byte, NEW v \in Byte
  PROVE  /\ Orderly(<<>>) /\ Len(<<>>) = 0
         /\ Orderly(<<Rd(a)>>) /\ Len(<<Rd(a)>>) = 1
         /\ Orderly(<<Wr(a, u)>>) /\ Len(<<Wr(a, u)>>) = 1
         /\ Orderly(<<Rd(a), Rd(b)>>) /\ Len(<<Rd(a), Rd(b)>>) = 2
         /\ Orderly(<<Rd(a), Wr(b, v)>>) /\ Len(<<Rd(a), Wr(b, v)>>) = 2
         /\ Orderly(<<Wr(a, u), Wr(b, v)>>) /\ Len(<<Wr(a, u), Wr(b, v)>>) = 2
<1>1. /\ Rd(a) \in Access /\ Rd(b) \in Access /\ ~Rd(a).write /\ ~Rd(b).write
      /\ Wr(a, u) \in Access /\ Wr(b, v) \in Access /\ Wr(a, u).write /\ Wr(b, v).write
  BY RdWr
<1>2. \A x \in Access : Orderly(<<x>>) /\ Len(<<x>>) = 1
  BY DEF Orderly
<1>3. \A x, y \in Access : (x.write => y.write) => Orderly(<<x, y>>) /\ Len(<<x, y>>) = 2
  BY DEF Orderly
<1>4. Orderly(<<>>) /\ Len(<<>>) = 0
  BY DEF Orderly
<1> QED
  BY <1>1, <1>2, <1>3, <1>4

LEMMA ReadShapes ==
  ASSUME NEW a \in Word, NEW b \in Word
  PROVE  /\ Orderly(<<Rd(a)>>) /\ Len(<<Rd(a)>>) = 1
         /\ Orderly(<<Rd(a), Rd(b)>>) /\ Len(<<Rd(a), Rd(b)>>) = 2
<1>1. 0 \in Byte
  BY DEF Byte
<1> QED
  BY <1>1, Shapes

(* An instruction's accesses: the fetches, then the data. *)
LEMMA AccessFacts ==
  ASSUME NEW n \in 1 .. 3, NEW data \in Seq(Access), pc \in Word
  PROVE  /\ Accesses(n, data) \in Seq(Access)
         /\ Len(Accesses(n, data)) = n + Len(data)
         /\ DOMAIN Accesses(n, data) = 1 .. (n + Len(data))
         /\ \A i \in 1 .. n : Accesses(n, data)[i] = Rd(Plus(pc, i - 1))
         /\ \A i \in 1 .. Len(data) : Accesses(n, data)[n + i] = data[i]
<1>1. Fetches(n) \in Seq(Access) /\ Len(Fetches(n)) = n
      /\ \A i \in 1 .. n : Fetches(n)[i] = Rd(Plus(pc, i - 1))
  <2>1. 0 \in Byte
    BY DEF Byte
  <2> QED
    BY <2>1, RdWr, PlusType DEF Fetches
<1> HIDE DEF Fetches
<1> QED
  BY <1>1 DEF Accesses

LEMMA StatusType ==
  ASSUME NEW acc, NEW i, status \in Statuses
  PROVE  StatusAfter(acc, i) \in Statuses
BY DEF StatusAfter, Statuses

LEMMA RamAfterType ==
  ASSUME NEW acc, ramOn \in BOOLEAN
  PROVE  RamAfter(acc) \in BOOLEAN
BY DEF RamAfter

LEMMA AnsweredPayload ==
  ASSUME TypeOK, NEW acc, Answered(acc), wait' \in Nat, busy' \in Nat
  PROVE  PayloadOK'
<1>1. status' \in Statuses
  BY StatusType DEF Answered, TypeOK
<1>2. ramOn' \in BOOLEAN
  BY RamAfterType DEF Answered, TypeOK
<1>3. UNCHANGED <<run, failed>>
  BY DEF Answered
<1>4. PayloadOK
  BY TypeParts
<1> QED
  BY <1>1, <1>2, <1>3, <1>4 DEF PayloadOK

LEMMA EndsPayload ==
  ASSUME TypeOK, NEW acc \in Seq(Access), Ends(acc)
  PROVE  PayloadOK'
<1>1. PICK i \in Fatal(acc) :
        failed' = acc[i] /\ run' = IF Asserts(acc[i]) THEN "aborted" ELSE "thrown"
  BY DEF Ends
<1>2. i \in DOMAIN acc
  BY DEF Fatal
<1>3. failed' \in Access
  BY <1>1, <1>2
<1>4. UNCHANGED <<status, wait, busy, ramOn>>
  BY DEF Ends
<1>5. PayloadOK
  BY TypeParts
<1> QED
  BY <1>1, <1>3, <1>4, <1>5 DEF PayloadOK

LEMMA StepPayload ==
  ASSUME TypeOK, Steps
  PROVE  PayloadOK'
<1>1. PICK n \in 1 .. 3, cycles \in Nat, data \in Seq(Access) :
        Completes(n, data, cycles) \/ Fails(n, data)
  BY DEF Steps
<1>2. Accesses(n, data) \in Seq(Access)
  BY AccessFacts DEF TypeOK
<1>3. Len(Accesses(n, data)) \in Nat
  BY <1>2
<1>4. CASE Completes(n, data, cycles)
  BY <1>3, <1>4, AnsweredPayload DEF Completes
<1>5. CASE Fails(n, data)
  BY <1>2, <1>5, EndsPayload DEF Fails
<1> QED
  BY <1>1, <1>4, <1>5

LEMMA EndsKeeps ==
  ASSUME TypeOK, NEW acc, Ends(acc)
  PROVE  StateOK' /\ UNCHANGED <<r, f, sp, pc, ime, mem, did, frames>>
BY DEF Ends, TypeOK, StateOK, regs

LEMMA FailsKeeps ==
  ASSUME TypeOK, NEW n, NEW data, Fails(n, data)
  PROVE  StateOK' /\ UNCHANGED <<r, f, sp, pc, ime, mem, did, frames>>
BY EndsKeeps DEF Fails

(* The last access that set the status, if one did. *)
LEMMA LastLoud ==
  ASSUME NEW acc, NEW i \in 1 .. 5
  PROVE  \/ (\A j \in 1 .. i : ~Loud(acc[j])) /\ StatusAfter(acc, i) = status
         \/ \E j \in 1 .. i :
              /\ Loud(acc[j])
              /\ \A k \in 1 .. i : Loud(acc[k]) => k =< j
              /\ StatusAfter(acc, i) = (IF acc[j].addr \in Unmapped THEN "error" ELSE "ok")
<1> DEFINE loud == {j \in 1 .. i : Loud(acc[j])}
           last == CHOOSE j \in loud : \A k \in loud : k =< j
<1>1. CASE loud = {}
  BY <1>1 DEF StatusAfter
<1>2. CASE loud # {}
  <2>1. \E j \in loud : \A k \in loud : k =< j
    <3>1. loud \subseteq 1 .. i
      OBVIOUS
    <3> HIDE DEF loud
    <3>2. CASE 5 \in loud
      BY <3>1, <3>2
    <3>3. CASE 5 \notin loud /\ 4 \in loud
      BY <3>1, <3>3
    <3>4. CASE 5 \notin loud /\ 4 \notin loud /\ 3 \in loud
      BY <3>1, <3>4
    <3>5. CASE 5 \notin loud /\ 4 \notin loud /\ 3 \notin loud /\ 2 \in loud
      BY <3>1, <3>5
    <3>6. CASE 5 \notin loud /\ 4 \notin loud /\ 3 \notin loud /\ 2 \notin loud
      <4>1. \A k \in loud : k = 1
        BY <3>1, <3>6
      <4>2. PICK k \in loud : TRUE
        BY <1>2
      <4> QED
        BY <4>1, <4>2
    <3> QED
      BY <3>2, <3>3, <3>4, <3>5, <3>6
  <2>2. last \in loud /\ \A k \in loud : k =< last
    BY <2>1
  <2>3. StatusAfter(acc, i) = IF acc[last].addr \in Unmapped THEN "error" ELSE "ok"
    BY <1>2 DEF StatusAfter
  <2> HIDE DEF last
  <2> QED
    BY <2>2, <2>3
<1> QED
  BY <1>1, <1>2

LEMMA BetweenFacts ==
  ASSUME NEW lo, NEW hi, NEW x
  PROVE  x \in Between(lo, hi) <=> x \in Word /\ lo =< x /\ x =< hi
BY DEF Between

LEMMA UnmappedApart == ASSUME NEW x \in Unmapped PROVE x \in Word /\ x \notin FirstBank
<1>1. x \in Between(65184, 65279) \/ x \in Between(65288, 65294)
  BY DEF Unmapped
<1>2. x \in Word /\ x >= 65184
  BY <1>1, BetweenFacts DEF Word
<1>3. x \in FirstBank => x =< 16383
  BY BetweenFacts DEF FirstBank
<1> QED
  BY <1>2, <1>3 DEF Word

FailInv == FailureHasACause /\ (run = "running" => failed = NoAccess)

(* The causes FailureHasACause names, of an assertion and of an exception. *)
AbortCause(x) ==
  \/ x.addr = SerialEnd
  \/ mapper = "MBC3" /\ x.write /\ x.addr \in RamBank /\ x.v \in 4 .. 7
  \/ mapper = "MBC5" /\ ~ramOn /\ x.addr \in ExtRam
  \/ /\ x.write /\ x.addr = DmaStart
     /\ x.v = 255 \/ (mapper = "MBC5" /\ ~ramOn /\ x.v \in 160 .. 191)

ThrowCause(x) ==
  /\ ~x.write
  /\ \/ x.addr \in Unmapped
     \/ /\ mapper \in {"MBC1", "MBC3"} /\ ~ramOn /\ x.addr \in ExtRam
        /\ pc \in FirstBank \/ x.addr = pc

(* The pages from which the DMA meets an assertion. *)
LEMMA DmaPages ==
  ASSUME NEW v \in Byte, NEW i \in 0 .. 159
  PROVE  /\ 256 * v + i = SerialEnd => v = 255
         /\ 256 * v + i \in ExtRam => v \in 160 .. 191
<1>1. v \in 0 .. 255
  BY DEF Byte
<1>2. 256 * v + i = SerialEnd => v = 255
  BY <1>1 DEF SerialEnd
<1>3. 256 * v + i \in ExtRam => 40960 =< 256 * v + i /\ 256 * v + i =< 49151
  BY BetweenFacts DEF ExtRam
<1> QED
  BY <1>1, <1>2, <1>3

LEMMA AssertionCause ==
  ASSUME NEW x \in Access, Asserts(x)
  PROVE  AbortCause(x)
<1>1. CASE AssertsAt(x.addr)
  BY <1>1 DEF AssertsAt, Disabled, AbortCause
<1>2. CASE x.write /\ mapper = "MBC3" /\ x.addr \in RamBank /\ x.v \in 4 .. 7
  BY <1>2 DEF AbortCause
<1>3. CASE x.write /\ x.addr = DmaStart /\ \E i \in 0 .. 159 : AssertsAt(256 * x.v + i)
  <2>1. PICK i \in 0 .. 159 : AssertsAt(256 * x.v + i)
    BY <1>3
  <2>2. x.v \in Byte
    BY DEF Access
  <2>3. 256 * x.v + i = SerialEnd \/ (mapper = "MBC5" /\ ~ramOn /\ 256 * x.v + i \in ExtRam)
    BY <2>1 DEF AssertsAt, Disabled
  <2>4. x.v = 255 \/ (mapper = "MBC5" /\ ~ramOn /\ x.v \in 160 .. 191)
    BY <2>2, <2>3, DmaPages
  <2> QED
    BY <1>3, <2>4 DEF AbortCause
<1> QED
  BY <1>1, <1>2, <1>3 DEF Asserts

(* An access that ends the emulation passes its cause on to FailureHasACause. *)
LEMMA EndsCause ==
  ASSUME NEW acc \in Seq(Access), Ends(acc), mapper' = mapper,
         \A i \in Fatal(acc) : (\A j \in Fatal(acc) : i =< j) /\ ~Asserts(acc[i]) => ThrowCause(acc[i])
  PROVE  FailInv'
<1>1. PICK i \in Fatal(acc) :
        /\ \A j \in Fatal(acc) : i =< j
        /\ failed' = acc[i]
        /\ run' = IF Asserts(acc[i]) THEN "aborted" ELSE "thrown"
  BY DEF Ends
<1>2. UNCHANGED <<ramOn, pc>>
  BY DEF Ends, regs
<1>3. i \in DOMAIN acc
  BY DEF Fatal
<1>4. acc[i] \in Access
  BY <1>3
<1>5. CASE Asserts(acc[i])
  <2>1. AbortCause(acc[i])
    BY <1>4, <1>5, AssertionCause
  <2>2. run' = "aborted"
    BY <1>1, <1>5
  <2> QED
    BY <1>1, <1>2, <2>1, <2>2 DEF AbortCause, FailInv, FailureHasACause
<1>6. CASE ~Asserts(acc[i])
  <2>1. ThrowCause(acc[i])
    BY <1>1, <1>6
  <2>2. run' = "thrown"
    BY <1>1, <1>6
  <2> QED
    BY <1>1, <1>2, <2>1, <2>2 DEF ThrowCause, FailInv, FailureHasACause
<1> QED
  BY <1>5, <1>6

LEMMA UpToFive ==
  ASSUME NEW n \in 1 .. 3, NEW k \in Nat, k =< 2
  PROVE  k \in 0 .. 2 /\ n + k \in 1 .. 5
OBVIOUS

(* Where the first fatal access of an instruction can lie. *)
LEMMA FirstFatal ==
  ASSUME TypeOK, NEW n \in 1 .. 3, NEW data \in Seq(Access), Orderly(data),
         NEW i \in Fatal(Accesses(n, data)),
         \A j \in Fatal(Accesses(n, data)) : i =< j,
         ~Asserts(Accesses(n, data)[i])
  PROVE  ThrowCause(Accesses(n, data)[i])
<1> DEFINE a == Accesses(n, data)[i].addr
           acc == Accesses(n, data)
           m == n + Len(data)
<1>1. pc \in Word /\ status \in Statuses /\ Plus(pc, 0) = pc
  BY DEF TypeOK, Plus, Word
<1>2. Len(data) \in 0 .. 2 /\ m \in 1 .. 5
  <2>1. Len(data) \in Nat
    OBVIOUS
  <2>2. Len(data) =< 2
    BY DEF Orderly
  <2> QED
    BY <2>1, <2>2, UpToFive
<1>3. /\ acc \in Seq(Access) /\ DOMAIN acc = 1 .. m
      /\ \A k \in 1 .. n : acc[k] = Rd(Plus(pc, k - 1))
      /\ \A k \in 1 .. Len(data) : acc[n + k] = data[k]
  <2>1. pc \in Word
    BY <1>1
  <2> QED
    BY <2>1, AccessFacts
<1>4. acc[1] = Rd(pc)
  BY <1>1, <1>3
<1>5. \A j, k \in 1 .. m : j < k /\ acc[j].write => acc[k].write
  <2> SUFFICES ASSUME NEW j \in 1 .. m, NEW k \in 1 .. m, j < k, acc[j].write
               PROVE  acc[k].write
    OBVIOUS
  <2>1. j > n
    <3> SUFFICES ASSUME j =< n PROVE FALSE
      OBVIOUS
    <3>1. acc[j] = Rd(Plus(pc, j - 1))
      BY <1>3
    <3> QED
      BY <3>1 DEF Rd
  <2>2. j - n \in 1 .. Len(data) /\ k - n \in 1 .. Len(data) /\ j - n < k - n
    BY <1>2, <2>1
  <2>3. acc[n + (j - n)] = data[j - n] /\ acc[n + (k - n)] = data[k - n]
    BY <1>3, <2>2
  <2>4. n + (j - n) = j /\ n + (k - n) = k
    OBVIOUS
  <2>5. data[j - n].write
    BY <2>3, <2>4
  <2> HIDE DEF acc, m
  <2>6. data[k - n].write
    BY <2>2, <2>5 DEF Orderly
  <2> QED
    BY <2>3, <2>4, <2>6
<1> HIDE DEF a, acc
<1>6. i \in 1 .. m /\ ~acc[i].write /\ a \notin FirstBank /\ StatusAfter(acc, i) = "error"
      /\ a = acc[i].addr /\ ~Asserts(acc[i])
  BY <1>3 DEF Fatal, a, acc
<1>7. \A j \in 1 .. m : j < i /\ ~acc[j].write /\ acc[j].addr \notin FirstBank
        => StatusAfter(acc, j) # "error"
  BY <1>2, <1>3, <1>6 DEF Fatal, acc
<1>8. CASE Loud(acc[i])
  <2> SUFFICES a \in Unmapped
    BY <1>6 DEF ThrowCause, acc
  <2>1. i \in 1 .. 5
    BY <1>2, <1>6
  <2>2. PICK j \in 1 .. i :
              /\ Loud(acc[j])
              /\ \A k \in 1 .. i : Loud(acc[k]) => k =< j
              /\ StatusAfter(acc, i) = (IF acc[j].addr \in Unmapped THEN "error" ELSE "ok")
    BY <1>8, <2>1, LastLoud
  <2>3. j = i
    BY <1>8, <2>1, <2>2
  <2> QED
    BY <1>6, <2>2, <2>3
<1>9. CASE ~Loud(acc[i])
  <2>1. a \in ExtRam /\ ~ramOn /\ mapper \in {"MBC1", "MBC3"}
    <3>1. Disabled(a)
      BY <1>6, <1>9 DEF Loud, Silent
    <3>2. mapper # "MBC5"
      BY <1>6, <3>1 DEF Asserts, AssertsAt
    <3> QED
      BY <3>1, <3>2 DEF Disabled, TypeOK, Mappers
  <2> SUFFICES ASSUME pc \notin FirstBank, a # pc PROVE FALSE
    BY <1>6, <2>1 DEF ThrowCause, acc
  <2>2. i \in 1 .. 5 /\ 1 < i
    <3>1. i # 1
      BY <1>4, <1>6 DEF Rd
    <3> QED
      BY <1>2, <1>6, <3>1
  <2>3. StatusAfter(acc, 1) # "error"
    <3>1. ~acc[1].write /\ acc[1].addr = pc
      BY <1>4 DEF Rd
    <3> QED
      BY <1>2, <1>7, <2>2, <3>1
  <2>4. CASE \A k \in 1 .. i : ~Loud(acc[k])
    <3>1. StatusAfter(acc, i) = status
      BY <2>2, <2>4, LastLoud
    <3>2. StatusAfter(acc, 1) = status
      BY <2>2, <2>4 DEF StatusAfter
    <3> QED
      BY <1>6, <2>3, <3>1, <3>2
  <2>5. CASE \E k \in 1 .. i : Loud(acc[k])
    <3>1. PICK j \in 1 .. i :
              /\ Loud(acc[j])
              /\ \A k \in 1 .. i : Loud(acc[k]) => k =< j
              /\ StatusAfter(acc, i) = (IF acc[j].addr \in Unmapped THEN "error" ELSE "ok")
      BY <2>2, <2>5, LastLoud
    <3>2. acc[j].addr \in Unmapped /\ j < i /\ j \in 1 .. m /\ j \in 1 .. 5
      BY <1>2, <1>6, <1>9, <2>2, <3>1
    <3>3. ~acc[j].write
      BY <1>5, <1>6, <3>2
    <3>4. acc[j].addr \notin FirstBank
      BY <3>2, UnmappedApart
    <3>5. StatusAfter(acc, j) # "error"
      BY <1>7, <3>2, <3>3, <3>4
    <3>6. StatusAfter(acc, j) = "error"
      <4>1. PICK l \in 1 .. j :
              /\ Loud(acc[l])
              /\ \A k \in 1 .. j : Loud(acc[k]) => k =< l
              /\ StatusAfter(acc, j) = (IF acc[l].addr \in Unmapped THEN "error" ELSE "ok")
        BY <3>1, <3>2, LastLoud
      <4>2. l = j
        BY <3>1, <3>2, <4>1
      <4> QED
        BY <3>2, <4>1, <4>2
    <3> QED
      BY <3>5, <3>6
  <2> QED
    BY <2>4, <2>5
<1> QED
  BY <1>8, <1>9

LEMMA StepCause ==
  ASSUME TypeOK, Steps, run = "running", FailInv, mapper' = mapper
  PROVE  FailInv'
<1>1. PICK n \in 1 .. 3, cycles \in Nat, data \in Seq(Access) :
        Orderly(data) /\ (Completes(n, data, cycles) \/ Fails(n, data))
  BY DEF Steps
<1>2. CASE Completes(n, data, cycles)
  BY <1>2 DEF Completes, Answered, FailInv, FailureHasACause
<1>3. CASE Fails(n, data)
  <2>1. Accesses(n, data) \in Seq(Access)
    BY AccessFacts DEF TypeOK
  <2>2. Ends(Accesses(n, data))
    BY <1>3 DEF Fails
  <2>3. \A i \in Fatal(Accesses(n, data)) :
          (\A j \in Fatal(Accesses(n, data)) : i =< j) /\ ~Asserts(Accesses(n, data)[i])
            => ThrowCause(Accesses(n, data)[i])
    BY <1>1, FirstFatal
  <2> QED
    BY <2>1, <2>2, <2>3, EndsCause
<1> QED
  BY <1>1, <1>2, <1>3

LEMMA StepTime ==
  ASSUME TypeOK, Steps, TimeCoversAccesses
  PROVE  TimeCoversAccesses'
<1>1. PICK n \in 1 .. 3, cycles \in Nat, data \in Seq(Access) :
        /\ cycles = 0 \/ cycles >= 4 * (n + Len(data))
        /\ Completes(n, data, cycles) \/ Fails(n, data)
  BY DEF Steps
<1>2. CASE Completes(n, data, cycles)
  <2>1. pc \in Word
    BY DEF TypeOK
  <2>2. Len(Accesses(n, data)) = n + Len(data)
    BY <2>1, AccessFacts
  <2>3. wait' = cycles /\ busy' = n + Len(data)
    BY <1>2, <2>2 DEF Completes
  <2>4. cycles > 0 => cycles >= 4 * (n + Len(data))
    BY <1>1
  <2> QED
    BY <2>3, <2>4 DEF TimeCoversAccesses
<1>3. CASE Fails(n, data)
  BY <1>3 DEF Fails, Ends, TimeCoversAccesses
<1> QED
  BY <1>1, <1>2, <1>3

-----------------------------------------------------------------------------
(* Operands. *)

LEMMA OpcodeNat == ASSUME NEW op \in Opcode PROVE op \in Nat /\ op < 512
BY DEF Opcode

LEMMA OperandNames == \A i \in 1 .. 8 : Operands[i] \in Reg8 \cup {"M"}
BY DEF Operands, Reg8

LEMMA OperandType ==
  ASSUME NEW op \in Nat
  PROVE  Src(op) \in Reg8 \cup {"M"} /\ Dst(op) \in Reg8 \cup {"M"}
<1>1. (op % 8) + 1 \in 1 .. 8 /\ ((op \div 8) % 8) + 1 \in 1 .. 8
  OBVIOUS
<1> QED
  BY <1>1, OperandNames DEF Src, Dst

LEMMA Registers ==
  ASSUME TypeOK
  PROVE  /\ r["A"] \in Byte /\ r["B"] \in Byte /\ r["C"] \in Byte /\ r["D"] \in Byte
         /\ r["E"] \in Byte /\ r["H"] \in Byte /\ r["L"] \in Byte
         /\ HL \in Word /\ BC \in Word /\ DE \in Word /\ AF \in Word
         /\ sp \in Word /\ pc \in Word /\ f \in Flags
<1>1. /\ r["A"] \in Byte /\ r["B"] \in Byte /\ r["C"] \in Byte /\ r["D"] \in Byte
      /\ r["E"] \in Byte /\ r["H"] \in Byte /\ r["L"] \in Byte
  BY DEF TypeOK, Reg8
<1>2. sp \in Word /\ pc \in Word /\ f \in Flags /\ FByte(f) \in Byte
  BY FlagsType DEF TypeOK
<1> QED
  BY <1>1, <1>2, PairType DEF HL, BC, DE, AF

LEMMA LoadsType ==
  ASSUME TypeOK, NEW a, NEW v \in Loads(a)
  PROVE  v \in Byte
BY InputAssumption DEF TypeOK, Loads

LEMMA StoredType ==
  ASSUME NEW m \in [Ram -> Byte], NEW a, NEW v \in Byte
  PROVE  Stored(m, a, v) \in [Ram -> Byte]
BY DEF Stored

LEMMA UndisturbedType ==
  ASSUME TypeOK, NEW a
  PROVE  Undisturbed(a) \in Seq(Frame)
BY DEF TypeOK, Undisturbed

LEMMA ByteOfType ==
  ASSUME TypeOK, NEW s \in Reg8 \cup {"M"}, NEW v \in ByteOf(s)
  PROVE  v \in Byte
<1>1. CASE s = "M"
  BY <1>1, LoadsType DEF ByteOf
<1>2. CASE s # "M"
  BY <1>2 DEF ByteOf, TypeOK
<1> QED
  BY <1>1, <1>2

LEMMA Joined ==
  ASSUME NEW x \in Access, NEW y \in Access
  PROVE  <<x>> \o <<y>> = <<x, y>> /\ <<x>> \o <<>> = <<x>> /\ <<>> \o <<x>> = <<x>>
<1> DEFINE s == <<x>> \o <<y>>
<1>1. <<x>> \in Seq(Access) /\ <<y>> \in Seq(Access) /\ <<x, y>> \in Seq(Access)
  OBVIOUS
<1>2. s \in Seq(Access) /\ Len(s) = 2 /\ s[1] = x /\ s[2] = y
  BY <1>1
<1> HIDE DEF s
<1>3. s = <<x, y>>
  BY <1>1, <1>2, SeqEqual
<1>4. <<x>> \o <<>> = <<x>> /\ <<>> \o <<x>> = <<x>>
  BY <1>1, ConcatEmptySeq
<1> QED
  BY <1>3, <1>4 DEF s

LEMMA OperandAccesses ==
  ASSUME TypeOK, NEW s \in Reg8 \cup {"M"}, NEW v \in Byte
  PROVE  /\ Orderly(ReadsOf(s)) /\ Len(ReadsOf(s)) = (IF s = "M" THEN 1 ELSE 0)
         /\ Orderly(WritesOf(s, v)) /\ Len(WritesOf(s, v)) = (IF s = "M" THEN 1 ELSE 0)
         /\ Orderly(ReadsOf(s) \o WritesOf(s, v))
         /\ Len(ReadsOf(s) \o WritesOf(s, v)) = (IF s = "M" THEN 2 ELSE 0)
<1>1. HL \in Word
  BY Registers
<1>2. CASE s = "M"
  <2>1. ReadsOf(s) = <<Rd(HL)>> /\ WritesOf(s, v) = <<Wr(HL, v)>>
    BY <1>2 DEF ReadsOf, WritesOf
  <2>2. ReadsOf(s) \o WritesOf(s, v) = <<Rd(HL), Wr(HL, v)>>
    BY <1>1, <2>1, RdWr, Joined
  <2> QED
    BY <1>1, <1>2, <2>1, <2>2, Shapes
<1>3. CASE s # "M"
  <2>1. ReadsOf(s) = <<>> /\ WritesOf(s, v) = <<>>
    BY <1>3 DEF ReadsOf, WritesOf
  <2>2. ReadsOf(s) \o WritesOf(s, v) = <<>>
    BY <2>1
  <2> QED
    BY <1>1, <1>3, <2>1, <2>2, Shapes
<1> QED
  BY <1>2, <1>3

LEMMA SetHLType ==
  ASSUME TypeOK, NEW w \in Word
  PROVE  SetHL(w) \in [Reg8 -> Byte] /\ Pair(SetHL(w)["H"], SetHL(w)["L"]) = w
<1>1. Lo(w) \in Byte /\ Hi(w) \in Byte /\ Pair(Hi(w), Lo(w)) = w
  BY Halves
<1>2. SetHL(w) = [r EXCEPT !["H"] = Hi(w), !["L"] = Lo(w)]
  BY DEF SetHL
<1> QED
  BY <1>1, <1>2 DEF TypeOK, Reg8

LEMMA PutType ==
  ASSUME TypeOK, NEW s \in Reg8 \cup {"M"}, NEW v \in Byte, Put(s, v)
  PROVE  r' \in [Reg8 -> Byte] /\ mem' \in [Ram -> Byte] /\ frames' \in Seq(Frame)
         /\ sp' = sp /\ ime' = ime
BY StoredType, UndisturbedType DEF Put, TypeOK

LEMMA RrType ==
  ASSUME TypeOK, NEW op \in Nat
  PROVE  Rr(op) \in Word
BY Registers DEF Rr

LEMMA SetRrType ==
  ASSUME TypeOK, NEW op \in Nat, NEW w \in Word, SetRr(op, w)
  PROVE  r' \in [Reg8 -> Byte] /\ sp' \in Word /\ frames' \in Seq(Frame)
         /\ UNCHANGED <<f, ime, mem>>
<1>1. Lo(w) \in Byte /\ Hi(w) \in Byte /\ SetHL(w) \in [Reg8 -> Byte]
  BY Halves, SetHLType
<1>2. /\ [r EXCEPT !["B"] = Hi(w), !["C"] = Lo(w)] \in [Reg8 -> Byte]
      /\ [r EXCEPT !["D"] = Hi(w), !["E"] = Lo(w)] \in [Reg8 -> Byte]
      /\ r \in [Reg8 -> Byte]
  BY <1>1 DEF TypeOK, Reg8
<1>3. r' \in [Reg8 -> Byte]
  BY <1>1, <1>2 DEF SetRr
<1>4. sp' \in Word /\ frames' \in Seq(Frame)
  BY DEF SetRr, TypeOK
<1> QED
  BY <1>3, <1>4 DEF SetRr

LEMMA PushesType ==
  ASSUME TypeOK, NEW w \in Word, Pushes(w)
  PROVE  mem' \in [Ram -> Byte] /\ sp' \in Word /\ frames' \in Seq(Frame)
<1> DEFINE a == Plus(sp, -1)
           b == Plus(sp, -2)
<1>1. Lo(w) \in Byte /\ Hi(w) \in Byte /\ a \in Word /\ b \in Word
  BY Halves, PlusType DEF TypeOK
<1>2. mem' \in [Ram -> Byte]
  <2>1. Stored(mem, a, Hi(w)) \in [Ram -> Byte]
    BY <1>1, StoredType DEF TypeOK
  <2> QED
    BY <1>1, <2>1, StoredType DEF Pushes
<1>3. [at |-> b, word |-> w] \in Frame
  BY <1>1 DEF Frame
<1>4. \A s \in Seq(Frame) : Append(s, [at |-> b, word |-> w]) \in Seq(Frame)
  BY <1>3
<1>5. Undisturbed(b) \in Seq(Frame) /\ <<>> \in Seq(Frame)
  BY UndisturbedType
<1> QED
  BY <1>1, <1>2, <1>4, <1>5 DEF Pushes

LEMMA PopsType ==
  ASSUME TypeOK, Pops
  PROVE  mem' \in [Ram -> Byte] /\ sp' \in Word /\ frames' \in Seq(Frame)
<1>1. sp' \in Word /\ mem' = mem
  BY PlusType DEF Pops, TypeOK
<1>2. frames \in Seq(Frame)
  BY DEF TypeOK
<1>3. frames # <<>> => SubSeq(frames, 1, Len(frames) - 1) \in Seq(Frame)
  BY <1>2
<1>4. frames' \in Seq(Frame)
  BY <1>2, <1>3 DEF Pops
<1> QED
  BY <1>1, <1>4 DEF TypeOK

LEMMA PoppedType ==
  ASSUME TypeOK, NEW w \in Popped
  PROVE  w \in Word
<1>1. PICK lo \in Loads(sp), hi \in Loads(Plus(sp, 1)) : w = Pair(hi, lo)
  BY DEF Popped
<1>2. lo \in Byte /\ hi \in Byte
  BY <1>1, LoadsType
<1> QED
  BY <1>1, <1>2, PairType

LEMMA StackShapes ==
  ASSUME TypeOK, NEW w \in Word
  PROVE  Orderly(StackWrites(w)) /\ Len(StackWrites(w)) = 2
<1>1. Plus(sp, -1) \in Word /\ Plus(sp, -2) \in Word
  BY PlusType DEF TypeOK
<1>2. Hi(w) \in Byte /\ Lo(w) \in Byte
  BY Halves
<1> QED
  BY <1>1, <1>2, Shapes DEF StackWrites

LEMMA PopShapes ==
  ASSUME TypeOK
  PROVE  Orderly(StackReads) /\ Len(StackReads) = 2
<1>1. Plus(sp, 1) \in Word /\ sp \in Word
  BY PlusType DEF TypeOK
<1> QED
  BY <1>1, ReadShapes DEF StackReads

LEMMA NextPcType == ASSUME TypeOK, NEW n \in 1 .. 3 PROVE NextPc(n) \in Word
BY PlusType DEF NextPc, TypeOK

LEMMA NothingType == Nothing \in Did
BY DEF Nothing, Did, Kinds, Word

LEMMA ImmType == ASSUME NEW i \in Imm PROVE i \in Byte
BY InputAssumption

-----------------------------------------------------------------------------
(* One lemma for each action. *)

Advances == StateOK' /\ Steps

(* Nothing is computed that ArithmeticIsExact speaks of. *)
Quiet == did' = Nothing \/ did'.kind \in {"pop", "return"} \/ UNCHANGED <<r, f, did>>

LEMMA Failed ==
  ASSUME TypeOK, NEW n \in 1 .. 3, NEW data, Orderly(data), Fails(n, data)
  PROVE  Advances /\ UNCHANGED <<r, f, did>>
<1>1. StateOK' /\ UNCHANGED <<r, f, did>>
  BY FailsKeeps
<1>2. Steps
  BY DEF Steps, Orderly
<1> QED
  BY <1>1, <1>2 DEF Advances

LEMMA Done ==
  ASSUME NEW n \in 1 .. 3, NEW data, NEW cycles \in Nat, Orderly(data),
         cycles = 0 \/ cycles >= 4 * (n + Len(data)),
         Completes(n, data, cycles), StateOK'
  PROVE  Advances
BY DEF Advances, Steps, Orderly

LEMMA StackKept ==
  ASSUME TypeOK, KeepStack, r' \in [Reg8 -> Byte], f' \in Flags, pc' \in Word, did' \in Did
  PROVE  StateOK'
BY DEF KeepStack, StateOK, TypeOK

LEMMA Kept == TypeOK => r \in [Reg8 -> Byte] /\ f \in Flags
BY DEF TypeOK

LEMMA NoData == Orderly(<<>>) /\ Len(<<>>) = 0
BY DEF Orderly

LEMMA PlainFacts == Plain => did' \in Did /\ did' = Nothing
BY NothingType DEF Plain

(* Instructions that change nothing but the PC. *)
LEMMA NopOk ==
  ASSUME TypeOK, NEW op \in Opcode, Nop(op)
  PROVE  Advances /\ Quiet
<1>1. CASE Fails(1, <<>>)
  BY <1>1, NoData, Failed DEF Quiet
<1>2. CASE /\ Completes(1, <<>>, 4)
           /\ pc' = NextPc(1) /\ UNCHANGED <<r, f>> /\ KeepStack /\ Plain
  <2>1. StateOK'
    BY <1>2, NextPcType, Kept, PlainFacts, StackKept
  <2> QED
    BY <1>2, <2>1, NoData, Done, PlainFacts DEF Quiet
<1> QED
  BY <1>1, <1>2 DEF Nop, Do

LEMMA HaltEmuOk ==
  ASSUME TypeOK, NEW op \in Opcode, HaltEmu(op)
  PROVE  Advances /\ Quiet
<1>1. CASE Fails(1, <<>>)
  BY <1>1, NoData, Failed DEF Quiet
<1>2. CASE /\ Completes(1, <<>>, 0)
           /\ pc' = NextPc(1) /\ UNCHANGED <<r, f>> /\ KeepStack /\ Plain
  <2>1. StateOK'
    BY <1>2, NextPcType, Kept, PlainFacts, StackKept
  <2> QED
    BY <1>2, <2>1, NoData, Done, PlainFacts DEF Quiet
<1> QED
  BY <1>1, <1>2 DEF HaltEmu, Do

LEMMA JpHlOk ==
  ASSUME TypeOK, NEW op \in Opcode, JpHl(op)
  PROVE  Advances /\ Quiet
<1>1. CASE Fails(1, <<>>)
  BY <1>1, NoData, Failed DEF Quiet
<1>2. CASE /\ Completes(1, <<>>, 4)
           /\ pc' = HL /\ UNCHANGED <<r, f>> /\ KeepStack /\ Plain
  <2>1. StateOK'
    BY <1>2, Registers, Kept, PlainFacts, StackKept
  <2> QED
    BY <1>2, <2>1, NoData, Done, PlainFacts DEF Quiet
<1> QED
  BY <1>1, <1>2 DEF JpHl, Do

LEMMA JrOk ==
  ASSUME TypeOK, NEW op \in Opcode, Jr(op)
  PROVE  Advances /\ Quiet
<1> DEFINE taken == op = 24 \/ Condition(op)
           cycles == IF taken THEN 12 ELSE 8
<1>1. PICK imm \in Imm :
        \/ Fails(2, <<>>)
        \/ /\ Completes(2, <<>>, cycles)
           /\ pc' = IF taken THEN Plus(NextPc(2), Signed(imm)) ELSE NextPc(2)
           /\ UNCHANGED <<r, f>> /\ KeepStack /\ Plain
  BY DEF Jr, Do
<1>2. CASE Fails(2, <<>>)
  BY <1>2, NoData, Failed DEF Quiet
<1>3. CASE ~Fails(2, <<>>)
  <2>1. Signed(imm) \in Int
    BY ImmType DEF Signed, Byte
  <2>2. pc' \in Word
    BY <1>1, <1>3, <2>1, NextPcType, PlusType
  <2>3. StateOK'
    BY <1>1, <1>3, <2>2, Kept, PlainFacts, StackKept
  <2>4. cycles \in Nat /\ cycles >= 8
    OBVIOUS
  <2> HIDE DEF cycles
  <2>5. Advances
    BY <1>1, <1>3, <2>3, <2>4, NoData, Done
  <2> QED
    BY <1>1, <1>3, <2>5, PlainFacts DEF Quiet
<1> QED
  BY <1>2, <1>3

LEMMA JpOk ==
  ASSUME TypeOK, NEW op \in Opcode, Jp(op)
  PROVE  Advances /\ Quiet
<1> DEFINE taken == op = 195 \/ Condition(op)
           cycles == IF taken THEN 16 ELSE 12
<1>1. PICK lo \in Imm, hi \in Imm :
        \/ Fails(3, <<>>)
        \/ /\ Completes(3, <<>>, cycles)
           /\ pc' = IF taken THEN Pair(hi, lo) ELSE NextPc(3)
           /\ UNCHANGED <<r, f>> /\ KeepStack /\ Plain
  BY DEF Jp, Do
<1>2. CASE Fails(3, <<>>)
  BY <1>2, NoData, Failed DEF Quiet
<1>3. CASE ~Fails(3, <<>>)
  <2>1. Pair(hi, lo) \in Word
    BY ImmType, PairType
  <2>2. pc' \in Word
    BY <1>1, <1>3, <2>1, NextPcType
  <2>3. StateOK'
    BY <1>1, <1>3, <2>2, Kept, PlainFacts, StackKept
  <2>4. cycles \in Nat /\ cycles >= 12
    OBVIOUS
  <2> HIDE DEF cycles
  <2>5. Advances
    BY <1>1, <1>3, <2>3, <2>4, NoData, Done
  <2> QED
    BY <1>1, <1>3, <2>5, PlainFacts DEF Quiet
<1> QED
  BY <1>2, <1>3

LEMMA DiEiOk ==
  ASSUME TypeOK, NEW op \in Opcode, DiEi(op)
  PROVE  Advances /\ Quiet
<1>1. CASE Fails(1, <<>>)
  BY <1>1, NoData, Failed DEF Quiet
<1>2. CASE /\ Completes(1, <<>>, 4)
           /\ pc' = NextPc(1) /\ ime' = (Family(op) = "ei") /\ Plain
           /\ UNCHANGED <<r, f, sp, mem, frames>>
  <2>1. StateOK'
    BY <1>2, NextPcType, PlainFacts DEF StateOK, TypeOK
  <2> QED
    BY <1>2, <2>1, NoData, Done, PlainFacts DEF Quiet
<1> QED
  BY <1>1, <1>2 DEF DiEi, Do

(* LD (HL),(HL) is HALT. *)
LEMMA NoMemoryToMemory ==
  ASSUME NEW op \in Nat, op >= 64, Family(op) = "mov"
  PROVE  ~(Src(op) = "M" /\ Dst(op) = "M")
<1>1. op \in 64 .. 127 /\ op # 118
  BY DEF Family, MovFamily, HighFamily
<1>2. Src(op) = "M" => op % 8 = 6
  BY DEF Src, Operands
<1>3. Dst(op) = "M" => (op \div 8) % 8 = 6
  BY DEF Dst, Operands
<1>4. ~(op % 8 = 6 /\ (op \div 8) % 8 = 6)
  BY <1>1
<1> QED
  BY <1>2, <1>3, <1>4

LEMMA MovOk ==
  ASSUME TypeOK, NEW op \in Opcode, Mov(op)
  PROVE  Advances /\ Quiet
<1> DEFINE byImm == op < 64
           n == IF byImm THEN 2 ELSE 1
           mem1 == Dst(op) = "M"
           mem2 == ~byImm /\ Src(op) = "M"
           accesses(v) == (IF mem2 THEN <<Rd(HL)>> ELSE <<>>) \o WritesOf(Dst(op), v)
           cycles == IF byImm /\ mem1 THEN 12 ELSE IF byImm \/ mem1 \/ mem2 THEN 8 ELSE 4
<1>1. PICK v \in (IF byImm THEN Imm ELSE ByteOf(Src(op))) :
        \/ Fails(n, accesses(v))
        \/ Completes(n, accesses(v), cycles) /\ pc' = NextPc(n) /\ Put(Dst(op), v) /\ f' = f /\ Plain
  BY DEF Mov, Do
<1> DEFINE data == accesses(v)
<1>2. op \in Nat /\ Src(op) \in Reg8 \cup {"M"} /\ Dst(op) \in Reg8 \cup {"M"} /\ HL \in Word
  BY OpcodeNat, OperandType, Registers
<1>3. v \in Byte
  BY <1>1, <1>2, ImmType, ByteOfType
<1>4. ~(mem1 /\ mem2)
  BY <1>2, NoMemoryToMemory DEF Mov
<1>5. Orderly(data) /\ Len(data) = (IF mem1 \/ mem2 THEN 1 ELSE 0)
  <2>1. CASE mem1
    <3>1. WritesOf(Dst(op), v) = <<Wr(HL, v)>> /\ ~mem2
      BY <1>4, <2>1 DEF WritesOf
    <3>2. data = <<Wr(HL, v)>>
      BY <1>2, <1>3, <3>1, RdWr, Joined
    <3> QED
      BY <1>2, <1>3, <2>1, <3>2, Shapes
  <2>2. CASE mem2
    <3>1. WritesOf(Dst(op), v) = <<>>
      BY <1>4, <2>2 DEF WritesOf
    <3>2. data = <<Rd(HL)>>
      BY <1>2, <1>3, <2>2, <3>1, RdWr, Joined
    <3> QED
      BY <1>2, <1>3, <2>2, <3>2, Shapes
  <2>3. CASE ~mem1 /\ ~mem2
    <3>1. WritesOf(Dst(op), v) = <<>>
      BY <2>3 DEF WritesOf
    <3>2. data = <<>>
      BY <2>3, <3>1
    <3> QED
      BY <2>3, <3>2, NoData
  <2> QED
    BY <2>1, <2>2, <2>3
<1>6. n \in 1 .. 3 /\ cycles \in Nat /\ cycles >= 4 * (n + (IF mem1 \/ mem2 THEN 1 ELSE 0))
  <2>1. byImm => ~mem2
    OBVIOUS
  <2> HIDE DEF byImm, mem1, mem2
  <2> QED
    BY <1>4, <2>1
<1> HIDE DEF accesses, cycles, n
<1>7. CASE Fails(n, data)
  BY <1>5, <1>6, <1>7, Failed DEF Quiet
<1>8. CASE ~Fails(n, data)
  <2>1. r' \in [Reg8 -> Byte] /\ mem' \in [Ram -> Byte] /\ frames' \in Seq(Frame)
        /\ sp' = sp /\ ime' = ime
    BY <1>1, <1>2, <1>3, <1>8, PutType
  <2>2. StateOK'
    BY <1>1, <1>6, <1>8, <2>1, NextPcType, PlainFacts DEF StateOK, TypeOK
  <2>3. Advances
    BY <1>1, <1>5, <1>6, <1>8, <2>2, Done
  <2> QED
    BY <1>1, <1>8, <2>3, PlainFacts DEF Quiet
<1> QED
  BY <1>7, <1>8

LEMMA ByWordType ==
  ASSUME TypeOK, NEW op \in Nat
  PROVE  ByWord(op) \in Word /\ Stepped(op) \in [Reg8 -> Byte]
<1>1. BC \in Word /\ DE \in Word /\ HL \in Word /\ r \in [Reg8 -> Byte]
  BY Registers, Kept
<1>2. Plus(HL, 1) \in Word /\ Plus(HL, -1) \in Word
  BY <1>1, PlusType
<1>3. SetHL(Plus(HL, 1)) \in [Reg8 -> Byte] /\ SetHL(Plus(HL, -1)) \in [Reg8 -> Byte]
  BY <1>2, SetHLType
<1> QED
  BY <1>1, <1>3 DEF ByWord, Stepped

LEMMA StoreAOk ==
  ASSUME TypeOK, NEW op \in Opcode, StoreA(op)
  PROVE  Advances /\ Quiet
<1> DEFINE a == ByWord(op)
           data == <<Wr(a, r["A"])>>
<1>1. op \in Nat /\ a \in Word /\ Stepped(op) \in [Reg8 -> Byte] /\ r["A"] \in Byte
  BY OpcodeNat, ByWordType, Registers
<1>2. Orderly(data) /\ Len(data) = 1
  BY <1>1, Shapes
<1>3. CASE Fails(1, data)
  BY <1>2, <1>3, Failed DEF Quiet
<1>4. CASE /\ Completes(1, data, 8)
           /\ pc' = NextPc(1) /\ mem' = Stored(mem, a, r["A"]) /\ frames' = Undisturbed(a)
           /\ r' = Stepped(op) /\ Plain /\ UNCHANGED <<f, sp, ime>>
  <2>1. mem' \in [Ram -> Byte] /\ frames' \in Seq(Frame)
    BY <1>4, Registers, StoredType, UndisturbedType DEF TypeOK
  <2>2. StateOK'
    BY <1>1, <1>4, <2>1, NextPcType, PlainFacts DEF StateOK, TypeOK
  <2>3. 1 \in 1 .. 3 /\ 8 \in Nat /\ (8 = 0 \/ 8 >= 4 * (1 + Len(data)))
    BY <1>2
  <2> HIDE DEF data
  <2>4. Advances
    BY <1>2, <1>4, <2>2, <2>3, Done
  <2> QED
    BY <1>4, <2>4, PlainFacts DEF Quiet
<1> QED
  BY <1>3, <1>4 DEF StoreA, Do

LEMMA LoadAOk ==
  ASSUME TypeOK, NEW op \in Opcode, LoadA(op)
  PROVE  Advances /\ Quiet
<1> DEFINE a == ByWord(op)
           data == <<Rd(a)>>
<1>1. op \in Nat /\ a \in Word /\ Stepped(op) \in [Reg8 -> Byte]
  BY OpcodeNat, ByWordType
<1>2. Orderly(data) /\ Len(data) = 1
  BY <1>1, ReadShapes
<1>3. PICK v \in Loads(a) :
        \/ Fails(1, data)
        \/ /\ Completes(1, data, 8)
           /\ pc' = NextPc(1) /\ r' = [Stepped(op) EXCEPT !["A"] = v]
           /\ f' = f /\ KeepStack /\ Plain
  BY DEF LoadA, Do
<1> HIDE DEF data
<1>4. CASE Fails(1, data)
  BY <1>2, <1>4, Failed DEF Quiet
<1>5. CASE ~Fails(1, data)
  <2>1. v \in Byte
    BY LoadsType
  <2>2. r' \in [Reg8 -> Byte]
    BY <1>1, <1>3, <1>5, <2>1
  <2>3. StateOK'
    BY <1>3, <1>5, <2>2, NextPcType, Kept, PlainFacts, StackKept
  <2>4. 1 \in 1 .. 3 /\ 8 \in Nat /\ (8 = 0 \/ 8 >= 4 * (1 + Len(data)))
    BY <1>2
  <2>5. Advances
    BY <1>2, <1>3, <1>5, <2>3, <2>4, Done
  <2> QED
    BY <1>3, <1>5, <2>5, PlainFacts DEF Quiet
<1> QED
  BY <1>4, <1>5

LEMMA HighFacts ==
  ASSUME TypeOK, NEW op \in Nat, NEW lo \in Imm, NEW hi \in Imm
  PROVE  /\ HighAddr(op, lo, hi) \in Word
         /\ HighFetches(op) \in 1 .. 3
         /\ HighCycles(op) \in Nat /\ HighCycles(op) >= 4 * (HighFetches(op) + 1)
<1>1. Pair(hi, lo) \in Word /\ 65280 + lo \in Word /\ 65280 + r["C"] \in Word
  <2>1. lo \in Byte /\ hi \in Byte /\ r["C"] \in Byte
    BY ImmType, Registers
  <2> QED
    BY <2>1, PairType DEF Byte, Word
<1>2. HighAddr(op, lo, hi) \in Word
  BY <1>1 DEF HighAddr
<1>3. /\ HighFetches(op) \in 1 .. 3
      /\ HighCycles(op) \in Nat /\ HighCycles(op) >= 4 * (HighFetches(op) + 1)
  BY DEF HighFetches, HighCycles
<1> QED
  BY <1>2, <1>3

LEMMA StoreHighOk ==
  ASSUME TypeOK, NEW op \in Opcode, StoreHigh(op)
  PROVE  Advances /\ Quiet
<1> DEFINE n == HighFetches(op)
           cycles == HighCycles(op)
<1>1. PICK lo \in Imm, hi \in Imm :
        LET a == HighAddr(op, lo, hi)
        IN  \/ Fails(n, <<Wr(a, r["A"])>>)
            \/ /\ Completes(n, <<Wr(a, r["A"])>>, cycles)
               /\ pc' = NextPc(n) /\ mem' = Stored(mem, a, r["A"]) /\ frames' = Undisturbed(a)
               /\ Plain /\ UNCHANGED <<r, f, sp, ime>>
  BY DEF StoreHigh, Do
<1> DEFINE a == HighAddr(op, lo, hi)
           data == <<Wr(a, r["A"])>>
<1>2. a \in Word /\ n \in 1 .. 3 /\ cycles \in Nat /\ cycles >= 4 * (n + 1)
  BY OpcodeNat, HighFacts
<1>3. Orderly(data) /\ Len(data) = 1
  <2>1. r["A"] \in Byte
    BY Registers
  <2> QED
    BY <1>2, <2>1, Shapes
<1>4. CASE Fails(n, data)
  BY <1>2, <1>3, <1>4, Failed DEF Quiet
<1>5. CASE ~Fails(n, data)
  <2> HIDE DEF n, cycles
  <2>1. mem' \in [Ram -> Byte] /\ frames' \in Seq(Frame)
    BY <1>1, <1>5, Registers, StoredType, UndisturbedType DEF TypeOK
  <2>2. StateOK'
    BY <1>1, <1>2, <1>5, <2>1, NextPcType, PlainFacts DEF StateOK, TypeOK
  <2>3. Completes(n, data, cycles) /\ Plain
    BY <1>1, <1>5
  <2> HIDE DEF data
  <2>4. Advances
    BY <1>2, <1>3, <2>2, <2>3, Done
  <2> QED
    BY <2>3, <2>4, PlainFacts DEF Quiet
<1> QED
  BY <1>4, <1>5

LEMMA LoadHighOk ==
  ASSUME TypeOK, NEW op \in Opcode, LoadHigh(op)
  PROVE  Advances /\ Quiet
<1> DEFINE n == HighFetches(op)
           cycles == HighCycles(op)
<1>1. PICK lo \in Imm, hi \in Imm :
        \E v \in Loads(HighAddr(op, lo, hi)) :
          \/ Fails(n, <<Rd(HighAddr(op, lo, hi))>>)
          \/ /\ Completes(n, <<Rd(HighAddr(op, lo, hi))>>, cycles)
             /\ pc' = NextPc(n) /\ r' = [r EXCEPT !["A"] = v] /\ f' = f
             /\ KeepStack /\ Plain
  BY DEF LoadHigh, Do
<1> DEFINE a == HighAddr(op, lo, hi)
           data == <<Rd(a)>>
<1>2. a \in Word /\ n \in 1 .. 3 /\ cycles \in Nat /\ cycles >= 4 * (n + 1)
  BY OpcodeNat, HighFacts
<1>3. Orderly(data) /\ Len(data) = 1
  BY <1>2, ReadShapes
<1>4. CASE Fails(n, data)
  BY <1>2, <1>3, <1>4, Failed DEF Quiet
<1>5. CASE ~Fails(n, data)
  <2> HIDE DEF n, cycles
  <2>1. PICK v \in Loads(a) :
             /\ Completes(n, data, cycles)
             /\ pc' = NextPc(n) /\ r' = [r EXCEPT !["A"] = v] /\ f' = f
             /\ KeepStack /\ Plain
    BY <1>1, <1>5
  <2>2. v \in Byte
    BY LoadsType
  <2> HIDE DEF data
  <2>3. r' \in [Reg8 -> Byte]
    BY <2>1, <2>2, Kept
  <2>4. StateOK'
    BY <1>2, <2>1, <2>3, NextPcType, Kept, PlainFacts, StackKept
  <2>5. Advances
    BY <1>2, <1>3, <2>1, <2>4, Done
  <2> QED
    BY <2>1, <2>5, PlainFacts DEF Quiet
<1> QED
  BY <1>4, <1>5

LEMMA LoadWordOk ==
  ASSUME TypeOK, NEW op \in Opcode, LoadWord(op)
  PROVE  Advances /\ Quiet
<1>1. PICK lo \in Imm, hi \in Imm :
        \/ Fails(3, <<>>)
        \/ Completes(3, <<>>, 12) /\ pc' = NextPc(3) /\ SetRr(op, Pair(hi, lo)) /\ Plain
  BY DEF LoadWord, Do
<1>2. CASE Fails(3, <<>>)
  BY <1>2, NoData, Failed DEF Quiet
<1>3. CASE ~Fails(3, <<>>)
  <2>1. op \in Nat /\ Pair(hi, lo) \in Word
    BY OpcodeNat, ImmType, PairType
  <2>2. r' \in [Reg8 -> Byte] /\ sp' \in Word /\ frames' \in Seq(Frame) /\ UNCHANGED <<f, ime, mem>>
    BY <1>1, <1>3, <2>1, SetRrType
  <2>3. StateOK'
    BY <1>1, <1>3, <2>2, NextPcType, PlainFacts DEF StateOK, TypeOK
  <2>4. Advances
    BY <1>1, <1>3, <2>3, NoData, Done
  <2> QED
    BY <1>1, <1>3, <2>4, PlainFacts DEF Quiet
<1> QED
  BY <1>2, <1>3

LEMMA StoreSpOk ==
  ASSUME TypeOK, NEW op \in Opcode, StoreSp(op)
  PROVE  Advances /\ Quiet
<1>1. PICK lo \in Imm, hi \in Imm :
        LET a == Pair(hi, lo)
            b == Plus(a, 1)
        IN  \/ Fails(3, <<Wr(a, Lo(sp)), Wr(b, Hi(sp))>>)
            \/ /\ Completes(3, <<Wr(a, Lo(sp)), Wr(b, Hi(sp))>>, 20)
               /\ pc' = NextPc(3)
               /\ mem' = Stored(Stored(mem, a, Lo(sp)), b, Hi(sp))
               /\ frames' = IF Undisturbed(a) = frames THEN Undisturbed(b) ELSE <<>>
               /\ Plain /\ UNCHANGED <<r, f, sp, ime>>
  BY DEF StoreSp, Do
<1> DEFINE a == Pair(hi, lo)
           b == Plus(a, 1)
           data == <<Wr(a, Lo(sp)), Wr(b, Hi(sp))>>
<1>2. a \in Word /\ b \in Word
  BY ImmType, PairType, PlusType
<1>3. Orderly(data) /\ Len(data) = 2
  <2>1. Lo(sp) \in Byte /\ Hi(sp) \in Byte
    BY Halves, Registers
  <2> QED
    BY <1>2, <2>1, Shapes
<1>4. CASE Fails(3, data)
  BY <1>3, <1>4, Failed DEF Quiet
<1>5. CASE ~Fails(3, data)
  <2>1. Lo(sp) \in Byte /\ Hi(sp) \in Byte
    BY Halves, Registers
  <2>2. Stored(mem, a, Lo(sp)) \in [Ram -> Byte]
    BY <2>1, StoredType DEF TypeOK
  <2>3. Stored(Stored(mem, a, Lo(sp)), b, Hi(sp)) \in [Ram -> Byte]
    BY <2>1, <2>2, StoredType
  <2>4. mem' \in [Ram -> Byte] /\ frames' \in Seq(Frame)
    <3>1. Undisturbed(b) \in Seq(Frame) /\ <<>> \in Seq(Frame)
      BY UndisturbedType
    <3>2. mem' = Stored(Stored(mem, a, Lo(sp)), b, Hi(sp))
          /\ (frames' = Undisturbed(b) \/ frames' = <<>>)
      BY <1>1, <1>5
    <3> QED
      BY <2>3, <3>1, <3>2
  <2>5. Completes(3, data, 20) /\ Plain /\ pc' = NextPc(3) /\ UNCHANGED <<r, f, sp, ime>>
    BY <1>1, <1>5
  <2>6. StateOK'
    BY <2>4, <2>5, NextPcType, PlainFacts DEF StateOK, TypeOK
  <2>7. 3 \in 1 .. 3 /\ 20 \in Nat /\ (20 = 0 \/ 20 >= 4 * (3 + Len(data)))
    BY <1>3
  <2> HIDE DEF data
  <2>8. Advances
    BY <1>3, <2>5, <2>6, <2>7, Done
  <2> QED
    BY <2>5, <2>8, PlainFacts DEF Quiet
<1> QED
  BY <1>4, <1>5

LEMMA LoadSpHlOk ==
  ASSUME TypeOK, NEW op \in Opcode, LoadSpHl(op)
  PROVE  Advances /\ Quiet
<1>1. CASE Fails(1, <<>>)
  BY <1>1, NoData, Failed DEF Quiet
<1>2. CASE /\ Completes(1, <<>>, 8)
           /\ pc' = NextPc(1) /\ sp' = HL /\ frames' = <<>> /\ Plain /\ UNCHANGED <<r, f, ime, mem>>
  <2>1. StateOK'
    BY <1>2, NextPcType, Registers, PlainFacts DEF StateOK, TypeOK
  <2> QED
    BY <1>2, <2>1, NoData, Done, PlainFacts DEF Quiet
<1> QED
  BY <1>1, <1>2 DEF LoadSpHl, Do

(* The last computation is exact, and N says whether it was a subtraction. *)
SumsAgree ==
  /\ ArithmeticIsExact
  /\ did.kind = "add" => ~f.n
  /\ did.kind = "sub" => f.n
  /\ DecimalIsExact

Settles == SumsAgree' \/ UNCHANGED <<r, f, did>>

LEMMA QuietSettles ==
  ASSUME TypeOK, Quiet
  PROVE  Settles
<1>1. CASE did' = Nothing
  BY <1>1 DEF Settles, SumsAgree, ArithmeticIsExact, DecimalIsExact, Nothing
<1>2. CASE did'.kind \in {"pop", "return"}
  BY <1>2 DEF Settles, SumsAgree, ArithmeticIsExact, DecimalIsExact
<1> QED
  BY <1>1, <1>2 DEF Quiet, Settles

LEMMA NegativeFlag ==
  ASSUME NEW a, NEW y, NEW c, NEW aliased
  PROVE  /\ AddA(a, y).f.n = FALSE /\ AddACarry(a, y, c).f.n = FALSE
         /\ Sub(a, y).f.n = TRUE /\ SubCarry(a, y, c, aliased).f.n = TRUE
BY DEF AddA, AddACarry, Sub, SubCarry, Result

(* What ArithmeticIsExact and SumsAgree ask of a result. *)
Exact(kind, res, a, y, c) ==
  /\ kind \in {"add", "sub", "cp", "other"}
  /\ kind = "add" => /\ res.v + 256 * Num(res.f.c) = a + y + c
                     /\ res.f.h <=> (a % 16) + (y % 16) + c >= 16
                     /\ ~res.f.n
  /\ kind = "sub" => /\ res.v - 256 * Num(res.f.c) = a - y - c
                     /\ res.f.h <=> (a % 16) < (y % 16) + c
                     /\ res.f.n
  /\ kind = "cp" => res.v = a /\ (res.f.z <=> a = y) /\ (res.f.c <=> a < y)
  /\ kind \in {"add", "sub"} => (res.f.z <=> res.v = 0)

LEMMA AluExact ==
  ASSUME TypeOK, NEW op \in Nat, NEW a \in Byte, NEW y \in Byte, NEW aliased \in BOOLEAN,
         aliased => y = a, NEW res, res = Alu(op, a, y, aliased),
         NEW c, c = IF (op \div 8) % 8 \in {1, 3} THEN Num(f.c) ELSE 0
  PROVE  c \in 0 .. 1 /\ Exact(AluKind(op), res, a, y, c)
<1> DEFINE row == (op \div 8) % 8
<1>1. row \in 0 .. 7 /\ Num(f.c) \in 0 .. 1 /\ c \in 0 .. 1
  <2>1. Num(f.c) \in 0 .. 1
    BY FlagsType, NumType DEF TypeOK
  <2> QED
    BY <2>1
<1>2. /\ row = 0 => AluKind(op) = "add" /\ res = AddA(a, y) /\ c = 0
      /\ row = 1 => AluKind(op) = "add" /\ res = AddACarry(a, y, Num(f.c)) /\ c = Num(f.c)
      /\ row = 2 => AluKind(op) = "sub" /\ res = Sub(a, y) /\ c = 0
      /\ row = 3 => AluKind(op) = "sub" /\ res = SubCarry(a, y, Num(f.c), aliased) /\ c = Num(f.c)
      /\ row \in {4, 5, 6} => AluKind(op) = "other"
      /\ row = 7 => AluKind(op) = "cp" /\ res = Comp(a, y)
  BY DEF Alu, AluKind
<1> HIDE DEF row
<1>3. CASE row = 0
  <2>1. /\ res.v + 256 * Num(res.f.c) = a + y
        /\ res.f.h <=> (a % 16) + (y % 16) + 0 >= 16
        /\ res.f.z <=> res.v = 0
    BY <1>2, <1>3, AddFacts
  <2>2. ~res.f.n /\ AluKind(op) = "add"
    BY <1>2, <1>3, NegativeFlag
  <2>3. a + y + 0 = a + y
    BY DEF Byte
  <2> QED
    BY <1>1, <1>2, <1>3, <2>1, <2>2, <2>3 DEF Exact
<1>4. CASE row = 1
  <2>1. /\ res.v + 256 * Num(res.f.c) = a + y + c
        /\ res.f.h <=> (a % 16) + (y % 16) + c >= 16
        /\ res.f.z <=> res.v = 0
    BY <1>1, <1>2, <1>4, AdcFacts
  <2>2. ~res.f.n /\ AluKind(op) = "add"
    BY <1>2, <1>4, NegativeFlag
  <2> QED
    BY <1>1, <1>2, <1>4, <2>1, <2>2 DEF Exact
<1>5. CASE row = 2
  <2>1. /\ res.v - 256 * Num(res.f.c) = a - y - 0
        /\ res.f.h <=> (a % 16) < (y % 16) + 0
        /\ res.f.z <=> res.v = 0
    BY <1>2, <1>5, SubFacts
  <2>2. res.f.n /\ AluKind(op) = "sub"
    BY <1>2, <1>5, NegativeFlag
  <2> QED
    BY <1>1, <1>2, <1>5, <2>1, <2>2 DEF Exact
<1>6. CASE row = 3
  <2>1. /\ res.v - 256 * Num(res.f.c) = a - y - c
        /\ res.f.h <=> (a % 16) < (y % 16) + c
        /\ res.f.z <=> res.v = 0
    BY <1>1, <1>2, <1>6, SbcFacts
  <2>2. res.f.n /\ AluKind(op) = "sub"
    BY <1>2, <1>6, NegativeFlag
  <2> QED
    BY <1>1, <1>2, <1>6, <2>1, <2>2 DEF Exact
<1>7. CASE row \in {4, 5, 6}
  BY <1>1, <1>2, <1>7 DEF Exact
<1>8. CASE row = 7
  <2>1. res.v = a /\ (res.f.z <=> a = y) /\ (res.f.c <=> a < y)
    BY <1>2, <1>8, CompFacts
  <2> QED
    BY <1>1, <1>2, <1>8, <2>1 DEF Exact
<1> QED
  BY <1>1, <1>3, <1>4, <1>5, <1>6, <1>7, <1>8

LEMMA AluOpOk ==
  ASSUME TypeOK, NEW op \in Opcode, AluOp(op)
  PROVE  Advances /\ Settles
<1> DEFINE byImm == op >= 192
           n == IF byImm THEN 2 ELSE 1
           atHl == ~byImm /\ Src(op) = "M"
           data == IF atHl THEN <<Rd(HL)>> ELSE <<>>
           cycles == IF byImm \/ atHl THEN 8 ELSE 4
           aliased == ~byImm /\ Src(op) = "A"
           c == IF (op \div 8) % 8 \in {1, 3} THEN Num(f.c) ELSE 0
           a == r["A"]
<1>1. PICK y \in (IF byImm THEN Imm ELSE ByteOf(Src(op))) :
        \/ Fails(n, data)
        \/ /\ Completes(n, data, cycles)
           /\ pc' = NextPc(n)
           /\ r' = [r EXCEPT !["A"] = Alu(op, a, y, aliased).v]
           /\ f' = Alu(op, a, y, aliased).f
           /\ did' = [kind |-> AluKind(op), x |-> a, y |-> y, c |-> c]
           /\ KeepStack
  BY DEF AluOp, Do
<1> DEFINE res == Alu(op, a, y, aliased)
<1>2. op \in Nat /\ Src(op) \in Reg8 \cup {"M"} /\ HL \in Word /\ a \in Byte /\ f \in Flags
  BY OpcodeNat, OperandType, Registers
<1>3. y \in Byte
  BY <1>1, <1>2, ImmType, ByteOfType
<1>4. aliased => y = a
  BY <1>1 DEF ByteOf
<1>5. Orderly(data) /\ Len(data) = (IF atHl THEN 1 ELSE 0)
  BY <1>2, Shapes
<1>6. n \in 1 .. 3 /\ cycles \in Nat /\ cycles >= 4 * (n + (IF atHl THEN 1 ELSE 0))
  <2>1. byImm => ~atHl
    OBVIOUS
  <2> HIDE DEF byImm, atHl
  <2> QED
    BY <2>1
<1>7. aliased \in BOOLEAN
  OBVIOUS
<1>8. Yields(res)
  BY <1>2, <1>3, <1>4, <1>7, AluYields
<1>9. c \in 0 .. 1 /\ Exact(AluKind(op), res, a, y, c)
  BY <1>2, <1>3, <1>4, <1>7, AluExact
<1> HIDE DEF data, cycles, n, aliased, c
<1>10. CASE Fails(n, data)
  BY <1>5, <1>6, <1>10, Failed DEF Settles
<1>11. CASE ~Fails(n, data)
  <2> HIDE DEF res
  <2>1. /\ Completes(n, data, cycles)
        /\ pc' = NextPc(n)
        /\ r' = [r EXCEPT !["A"] = res.v]
        /\ f' = res.f
        /\ did' = [kind |-> AluKind(op), x |-> a, y |-> y, c |-> c]
        /\ KeepStack
    BY <1>1, <1>11 DEF res
  <2>2. did' \in Did
    BY <1>2, <1>3, <1>9, <2>1 DEF Exact, Did, Kinds, Byte, Word
  <2>3. r' \in [Reg8 -> Byte] /\ f' \in Flags /\ r'["A"] = res.v
    BY <1>8, <2>1, Kept DEF Yields, Reg8
  <2>4. StateOK'
    BY <1>6, <2>1, <2>2, <2>3, NextPcType, StackKept
  <2>5. Advances
    BY <1>5, <1>6, <2>1, <2>4, Done
  <2>6. did'.kind = AluKind(op) /\ did'.x = a /\ did'.y = y /\ did'.c = c
    BY <2>1
  <2> HIDE DEF a
  <2>7. SumsAgree'
    BY <1>9, <2>1, <2>3, <2>6 DEF Exact, SumsAgree, ArithmeticIsExact, DecimalIsExact
  <2> QED
    BY <2>5, <2>7 DEF Settles
<1> QED
  BY <1>10, <1>11

(***************************************************************************)
(* DAA.  A byte is its two digits, and a sum or difference of bytes is one *)
(* of the digits, t, and one of the units, s.                              *)
(***************************************************************************)
LEMMA Digits ==
  ASSUME NEW h \in 0 .. 15, NEW l \in 0 .. 15, NEW v, v = 16 * h + l
  PROVE  v \div 16 = h /\ v % 16 = l
OBVIOUS

LEMMA DigitsOf ==
  ASSUME NEW x \in Byte
  PROVE  x \div 16 \in 0 .. 15 /\ x % 16 \in 0 .. 15 /\ x = 16 * (x \div 16) + (x % 16)
BY DEF Byte

(* Two decimal numbers, digit by digit. *)
LEMMA TwoDecimals ==
  ASSUME NEW x \in Byte, NEW y \in Byte, Bcd(x), Bcd(y)
  PROVE  \E i, j, k, l \in 0 .. 9 :
           /\ x \div 16 = i /\ x % 16 = j /\ x = 16 * i + j /\ Decimal(x) = 10 * i + j
           /\ y \div 16 = k /\ y % 16 = l /\ y = 16 * k + l /\ Decimal(y) = 10 * k + l
<1>1. /\ x \div 16 \in 0 .. 9 /\ x % 16 \in 0 .. 9 /\ x = 16 * (x \div 16) + (x % 16)
      /\ y \div 16 \in 0 .. 9 /\ y % 16 \in 0 .. 9 /\ y = 16 * (y \div 16) + (y % 16)
  BY DigitsOf DEF Bcd
<1> QED
  BY <1>1 DEF Decimal

LEMMA DaaAdd ==
  ASSUME NEW x \in Byte, NEW y \in Byte, NEW c \in 0 .. 1, Bcd(x), Bcd(y),
         NEW a \in Byte, NEW g \in Flags, ~g.n, a + 256 * Num(g.c) = x + y + c,
         g.h <=> (x % 16) + (y % 16) + c >= 16,
         NEW res, res = Daa(a, g)
  PROVE  /\ Bcd(res.v)
         /\ Decimal(res.v) + 100 * Num(res.f.c) = Decimal(x) + Decimal(y) + c
<1> DEFINE s == (x % 16) + (y % 16) + c
           t == (x \div 16) + (y \div 16)
           low == IF g.h \/ (~g.n /\ Nibble(a) > 9) THEN 6 ELSE 0
           high == IF g.c \/ (~g.n /\ a > 153) THEN 96 ELSE 0
           units == IF s < 10 THEN s ELSE s - 10
           carry == IF s < 10 THEN 0 ELSE 1
           tens == IF t + carry < 10 THEN t + carry ELSE t + carry - 10
<1>0. PICK i \in 0 .. 9, j \in 0 .. 9, k \in 0 .. 9, l \in 0 .. 9 :
           /\ x \div 16 = i /\ x % 16 = j /\ x = 16 * i + j /\ Decimal(x) = 10 * i + j
           /\ y \div 16 = k /\ y % 16 = l /\ y = 16 * k + l /\ Decimal(y) = 10 * k + l
  BY TwoDecimals
<1>s. s = j + l + c /\ t = i + k
  BY <1>0
<1>1. s \in 0 .. 19 /\ t \in 0 .. 18 /\ x + y + c = 16 * t + s
  <2> HIDE DEF s, t
  <2> QED
    BY <1>0, <1>s
<1>2. Decimal(x) + Decimal(y) + c = 10 * t + s
  <2> HIDE DEF s, t
  <2> QED
    BY <1>0, <1>s
<1>3. res.v = (a + low + high) % 256 /\ res.f.c = (g.c \/ high = 96)
  BY DEF Daa
<1>4. a + 256 * Num(g.c) = 16 * t + s /\ (g.h <=> s >= 16) /\ Num(g.c) = (IF g.c THEN 1 ELSE 0)
  BY <1>1 DEF Num
<1>5. low = 6 * carry
  <2>1. Nibble(a) = s % 16
    BY <1>1, <1>4 DEF Nibble, Byte
  <2> HIDE DEF s, t
  <2> QED
    BY <1>1, <1>4, <2>1
<1> HIDE DEF low
<1>6. high = 96 <=> t + carry >= 10
  <2> HIDE DEF s, t
  <2> QED
    BY <1>1, <1>4 DEF Byte
<1>7. high = 0 \/ high = 96
  OBVIOUS
<1> HIDE DEF high, s, t
<1>8. units \in 0 .. 9 /\ tens \in 0 .. 9 /\ s = units + 10 * carry /\ carry \in 0 .. 1
  BY <1>1
<1>9. res.v = 16 * tens + units
  BY <1>1, <1>3, <1>4, <1>5, <1>6, <1>7 DEF Byte
<1>10. Num(res.f.c) = IF t + carry >= 10 THEN 1 ELSE 0
  <2>1. g.c => t + carry >= 10
    BY <1>1, <1>4 DEF Byte
  <2>2. res.f.c <=> t + carry >= 10
    BY <1>3, <1>6, <2>1
  <2> QED
    BY <1>3, <2>2 DEF Num
<1>11. res.v \div 16 = tens /\ res.v % 16 = units
  BY <1>8, <1>9, Digits
<1> QED
  BY <1>1, <1>2, <1>8, <1>10, <1>11 DEF Bcd, Decimal

LEMMA DaaSub ==
  ASSUME NEW x \in Byte, NEW y \in Byte, NEW c \in 0 .. 1, Bcd(x), Bcd(y),
         NEW a \in Byte, NEW g \in Flags, g.n, a - 256 * Num(g.c) = x - y - c,
         g.h <=> (x % 16) < (y % 16) + c,
         NEW res, res = Daa(a, g)
  PROVE  /\ Bcd(res.v)
         /\ Decimal(res.v) - 100 * Num(res.f.c) = Decimal(x) - Decimal(y) - c
<1> DEFINE s == (x % 16) - (y % 16) - c
           t == (x \div 16) - (y \div 16)
           low == IF g.h \/ (~g.n /\ Nibble(a) > 9) THEN 6 ELSE 0
           high == IF g.c \/ (~g.n /\ a > 153) THEN 96 ELSE 0
           borrow == IF s < 0 THEN 1 ELSE 0
           units == s + 10 * borrow
           tens == IF t - borrow < 0 THEN t - borrow + 10 ELSE t - borrow
<1>0. PICK i \in 0 .. 9, j \in 0 .. 9, k \in 0 .. 9, l \in 0 .. 9 :
           /\ x \div 16 = i /\ x % 16 = j /\ x = 16 * i + j /\ Decimal(x) = 10 * i + j
           /\ y \div 16 = k /\ y % 16 = l /\ y = 16 * k + l /\ Decimal(y) = 10 * k + l
  BY TwoDecimals
<1>s. s = j - l - c /\ t = i - k
  BY <1>0
<1>h. g.h <=> j < l + c
  BY <1>0
<1>1. s \in -10 .. 9 /\ t \in -9 .. 9 /\ x - y - c = 16 * t + s /\ (g.h <=> s < 0)
  <2> HIDE DEF s, t
  <2> QED
    BY <1>0, <1>s, <1>h
<1>2. Decimal(x) - Decimal(y) - c = 10 * t + s
  <2> HIDE DEF s, t
  <2> QED
    BY <1>0, <1>s
<1>3. res.v = (a - low - high) % 256 /\ res.f.c = (g.c \/ high = 96)
  BY DEF Daa
<1>4. a - 256 * Num(g.c) = 16 * t + s /\ Num(g.c) = (IF g.c THEN 1 ELSE 0)
  BY <1>1 DEF Num
<1>5. low = 6 * borrow
  BY <1>1
<1>6. high = (IF g.c THEN 96 ELSE 0)
  OBVIOUS
<1> HIDE DEF low, high, s, t
<1>7. g.c <=> t - borrow < 0
  BY <1>1, <1>4 DEF Byte
<1>8. units \in 0 .. 9 /\ tens \in 0 .. 9 /\ borrow \in 0 .. 1
  BY <1>1
<1>9. res.v = 16 * tens + units
  BY <1>1, <1>3, <1>4, <1>5, <1>6, <1>7 DEF Byte
<1>10. Num(res.f.c) = IF t - borrow < 0 THEN 1 ELSE 0
  <2>1. t - borrow < 0 <=> res.f.c
    <3>1. high = 96 <=> t - borrow < 0
      BY <1>6, <1>7
    <3>2. g.c => t - borrow < 0
      BY <1>7
    <3> HIDE DEF borrow
    <3> QED
      BY <1>3, <3>1, <3>2
  <2> QED
    BY <1>3, <2>1 DEF Num
<1>11. res.v \div 16 = tens /\ res.v % 16 = units
  BY <1>8, <1>9, Digits
<1> QED
  BY <1>1, <1>2, <1>8, <1>10, <1>11 DEF Bcd, Decimal

LEMMA IncDecOk ==
  ASSUME TypeOK, NEW op \in Opcode, IncDec(op)
  PROVE  Advances /\ Quiet
<1> DEFINE s == Dst(op)
           cycles == IF s = "M" THEN 12 ELSE 4
           res(x) == IF Family(op) = "inc" THEN Inc(x, f) ELSE Dec(x, f)
           accesses(x) == ReadsOf(s) \o WritesOf(s, res(x).v)
<1>1. PICK x \in ByteOf(s) :
        \/ Fails(1, accesses(x))
        \/ /\ Completes(1, accesses(x), cycles)
           /\ pc' = NextPc(1) /\ Put(s, res(x).v) /\ f' = res(x).f /\ Plain
  BY DEF IncDec, Do
<1> DEFINE data == accesses(x)
<1>2. s \in Reg8 \cup {"M"} /\ f \in Flags
  BY OpcodeNat, OperandType, Registers
<1>3. x \in Byte
  BY <1>2, ByteOfType
<1>4. Yields(res(x))
  BY <1>2, <1>3, IncDecYield
<1>5. Orderly(data) /\ Len(data) = (IF s = "M" THEN 2 ELSE 0)
  <2> HIDE DEF s, res
  <2> QED
    BY <1>2, <1>4, OperandAccesses DEF Yields
<1>6. cycles \in Nat /\ cycles >= 4 * (1 + Len(data)) /\ 1 \in 1 .. 3
  <2> HIDE DEF data
  <2> QED
    BY <1>5
<1> HIDE DEF accesses, cycles, s, res
<1>7. CASE Fails(1, data)
  BY <1>5, <1>7, Failed DEF Quiet
<1>8. CASE ~Fails(1, data)
  <2>1. r' \in [Reg8 -> Byte] /\ mem' \in [Ram -> Byte] /\ frames' \in Seq(Frame)
        /\ sp' = sp /\ ime' = ime
    BY <1>1, <1>2, <1>4, <1>8, PutType DEF Yields
  <2>2. StateOK'
    BY <1>1, <1>4, <1>8, <2>1, NextPcType, PlainFacts DEF StateOK, TypeOK, Yields
  <2>3. Advances
    BY <1>1, <1>5, <1>6, <1>8, <2>2, Done
  <2> QED
    BY <1>1, <1>8, <2>3, PlainFacts DEF Quiet
<1> QED
  BY <1>7, <1>8

LEMMA DaaIsDecimal ==
  ASSUME TypeOK, SumsAgree, did.kind \in {"add", "sub"},
         did'.x = did.x, did'.y = did.y, did'.c = did.c,
         did'.kind = IF did.kind = "add" THEN "daaAdd" ELSE "daaSub",
         NEW res, res = Daa(r["A"], f), r'["A"] = res.v, f' = res.f
  PROVE  DecimalIsExact'
<1> SUFFICES ASSUME Bcd(did.x), Bcd(did.y)
             PROVE  /\ Bcd(res.v)
                    /\ did.kind = "add" =>
                         Decimal(res.v) + 100 * Num(res.f.c)
                           = Decimal(did.x) + Decimal(did.y) + did.c
                    /\ did.kind = "sub" =>
                         Decimal(res.v) - 100 * Num(res.f.c)
                           = Decimal(did.x) - Decimal(did.y) - did.c
  BY DEF DecimalIsExact
<1>1. did.x \in Word /\ did.y \in Word /\ did.c \in 0 .. 1 /\ f \in Flags /\ r["A"] \in Byte
  BY DEF TypeOK, Did, Reg8
<1>2. did.x \in Byte /\ did.y \in Byte
  BY <1>1 DEF Bcd, Byte, Word
<1>3. CASE did.kind = "add"
  <2>1. ~f.n /\ r["A"] + 256 * Num(f.c) = did.x + did.y + did.c
        /\ (f.h <=> (did.x % 16) + (did.y % 16) + did.c >= 16)
    BY <1>3 DEF SumsAgree, ArithmeticIsExact
  <2>2. Bcd(res.v) /\ Decimal(res.v) + 100 * Num(res.f.c)
                       = Decimal(did.x) + Decimal(did.y) + did.c
    BY <1>1, <1>2, <2>1, DaaAdd
  <2> QED
    BY <1>3, <2>2
<1>4. CASE did.kind = "sub"
  <2>1. f.n /\ r["A"] - 256 * Num(f.c) = did.x - did.y - did.c
        /\ (f.h <=> (did.x % 16) < (did.y % 16) + did.c)
    BY <1>4 DEF SumsAgree, ArithmeticIsExact
  <2>2. Bcd(res.v) /\ Decimal(res.v) - 100 * Num(res.f.c)
                       = Decimal(did.x) - Decimal(did.y) - did.c
    BY <1>1, <1>2, <2>1, DaaSub
  <2> QED
    BY <1>4, <2>2
<1> QED
  BY <1>3, <1>4

LEMMA AccOpOk ==
  ASSUME TypeOK, SumsAgree, NEW op \in Opcode, AccOp(op)
  PROVE  Advances /\ Settles
<1> DEFINE res == Acc(op, r["A"])
           follows == op = 39 /\ did.kind \in {"add", "sub"}
<1>1. CASE Fails(1, <<>>)
  BY <1>1, NoData, Failed DEF Settles
<1>2. CASE ~Fails(1, <<>>)
  <2>1. /\ Completes(1, <<>>, 4)
        /\ pc' = NextPc(1)
        /\ r' = [r EXCEPT !["A"] = res.v] /\ f' = res.f
        /\ did' = IF follows THEN [did EXCEPT !.kind = IF @ = "add" THEN "daaAdd" ELSE "daaSub"]
                  ELSE Nothing
        /\ KeepStack
    BY <1>2 DEF AccOp, Do
  <2>2. Yields(res)
    BY OpcodeNat, Registers, AccYieldsAll
  <2> HIDE DEF res
  <2>3. did \in Did
    BY DEF TypeOK
  <2>4. did' \in Did /\ did'.kind \in {"daaAdd", "daaSub", "other"}
    BY <2>1, <2>3, NothingType DEF Did, Kinds, Nothing
  <2>5. r' \in [Reg8 -> Byte] /\ f' \in Flags
    BY <2>1, <2>2, Kept DEF Yields
  <2>6. StateOK'
    BY <2>1, <2>4, <2>5, NextPcType, StackKept
  <2>7. Advances
    BY <2>1, <2>6, NoData, Done
  <2>8. CASE did'.kind = "other"
    <3>1. SumsAgree'
      BY <2>8 DEF SumsAgree, ArithmeticIsExact, DecimalIsExact
    <3> QED
      BY <2>7, <3>1 DEF Settles
  <2>9. CASE did'.kind # "other"
    <3>1. op = 39 /\ did.kind \in {"add", "sub"}
      BY <2>1, <2>9 DEF Nothing
    <3>2. /\ did' = [did EXCEPT !.kind = IF @ = "add" THEN "daaAdd" ELSE "daaSub"]
          /\ r'["A"] = res.v /\ f' = res.f /\ res = Daa(r["A"], f)
      <4>1. res = Daa(r["A"], f)
        BY <3>1 DEF Acc, res
      <4>2. r'["A"] = res.v
        BY <2>1, Kept DEF Reg8
      <4> QED
        BY <2>1, <3>1, <4>1, <4>2
    <3>3. /\ did'.x = did.x /\ did'.y = did.y /\ did'.c = did.c
          /\ did'.kind = IF did.kind = "add" THEN "daaAdd" ELSE "daaSub"
      BY <2>3, <3>2 DEF Did
    <3>4. DecimalIsExact'
      BY <3>1, <3>2, <3>3, DaaIsDecimal
    <3>5. SumsAgree'
      BY <2>4, <3>4 DEF SumsAgree, ArithmeticIsExact
    <3> QED
      BY <2>7, <3>5 DEF Settles
  <2> QED
    BY <2>8, <2>9
<1> QED
  BY <1>1, <1>2

LEMMA IncDecWordOk ==
  ASSUME TypeOK, NEW op \in Opcode, IncDecWord(op)
  PROVE  Advances /\ Quiet
<1> DEFINE w == Plus(Rr(op), IF Family(op) = "incWord" THEN 1 ELSE -1)
<1>1. CASE Fails(1, <<>>)
  BY <1>1, NoData, Failed DEF Quiet
<1>2. CASE ~Fails(1, <<>>)
  <2>1. Completes(1, <<>>, 8) /\ pc' = NextPc(1) /\ SetRr(op, w) /\ Plain
    BY <1>2 DEF IncDecWord, Do
  <2>2. op \in Nat /\ Rr(op) \in Word
    BY OpcodeNat, RrType
  <2>3. w \in Word
    BY <2>2, PlusType
  <2> HIDE DEF w
  <2>4. r' \in [Reg8 -> Byte] /\ sp' \in Word /\ frames' \in Seq(Frame) /\ UNCHANGED <<f, ime, mem>>
    BY <2>1, <2>2, <2>3, SetRrType
  <2>5. StateOK'
    BY <2>1, <2>4, NextPcType, PlainFacts DEF StateOK, TypeOK
  <2>6. Advances
    BY <2>1, <2>5, NoData, Done
  <2> QED
    BY <2>1, <2>6, PlainFacts DEF Quiet
<1> QED
  BY <1>1, <1>2

LEMMA AddHlOpOk ==
  ASSUME TypeOK, NEW op \in Opcode, AddHlOp(op)
  PROVE  Advances /\ Settles
<1> DEFINE y == Rr(op)
           res == AddHl(HL, y, f)
<1>1. CASE Fails(1, <<>>)
  BY <1>1, NoData, Failed DEF Settles
<1>2. CASE ~Fails(1, <<>>)
  <2>1. /\ Completes(1, <<>>, 8)
        /\ pc' = NextPc(1) /\ r' = SetHL(res.v) /\ f' = res.f
        /\ did' = [kind |-> "addhl", x |-> HL, y |-> y, c |-> 0]
        /\ KeepStack
    BY <1>2 DEF AddHlOp, Do
  <2>2. y \in Word /\ HL \in Word /\ f \in Flags
    BY OpcodeNat, RrType, Registers
  <2>3. res.v \in Word /\ res.f \in Flags /\ res.v + 65536 * Num(res.f.c) = HL + y
    BY <2>2, AddHlFacts
  <2> HIDE DEF res, y
  <2>4. did' \in Did
    BY <2>1, <2>2 DEF Did, Kinds
  <2>5. r' \in [Reg8 -> Byte] /\ Pair(r'["H"], r'["L"]) = res.v
    BY <2>1, <2>3, SetHLType
  <2>6. StateOK'
    BY <2>1, <2>3, <2>4, <2>5, NextPcType, StackKept
  <2>7. Advances
    BY <2>1, <2>6, NoData, Done
  <2>8. HL' = res.v
    BY <2>5 DEF HL
  <2>9. did'.kind = "addhl" /\ did'.x = HL /\ did'.y = y
    BY <2>1
  <2>10. HL' + 65536 * Num(f'.c) = did'.x + did'.y
    BY <2>1, <2>3, <2>8, <2>9
  <2>11. SumsAgree'
    BY <2>9, <2>10 DEF SumsAgree, ArithmeticIsExact, DecimalIsExact
  <2> QED
    BY <2>7, <2>11 DEF Settles
<1> QED
  BY <1>1, <1>2

LEMMA AddSpOpOk ==
  ASSUME TypeOK, NEW op \in Opcode, AddSpOp(op)
  PROVE  Advances /\ Settles
<1> DEFINE toSp == Family(op) = "addSp"
           cycles == IF toSp THEN 16 ELSE 12
<1>1. PICK imm \in Imm :
        \/ Fails(2, <<>>)
        \/ /\ Completes(2, <<>>, cycles)
           /\ pc' = NextPc(2)
           /\ r' = IF toSp THEN r ELSE SetHL(AddSp(sp, imm).v)
           /\ sp' = IF toSp THEN AddSp(sp, imm).v ELSE sp
           /\ frames' = IF toSp THEN <<>> ELSE frames
           /\ f' = AddSp(sp, imm).f
           /\ did' = [kind |-> "addsp", x |-> sp, y |-> imm, c |-> 0]
           /\ UNCHANGED <<ime, mem>>
  BY DEF AddSpOp, Do
<1> DEFINE res == AddSp(sp, imm)
<1>2. imm \in Byte /\ sp \in Word
  BY ImmType, Registers
<1>3. /\ res.v \in Word /\ res.f \in Flags
      /\ res.f.c <=> Lo(sp) + imm >= 256
      /\ res.f.h <=> (sp % 16) + (imm % 16) >= 16
  BY <1>2, AddSpFacts
<1> HIDE DEF res
<1>4. cycles \in Nat /\ cycles >= 12
  OBVIOUS
<1> HIDE DEF cycles
<1>5. CASE Fails(2, <<>>)
  BY <1>5, NoData, Failed DEF Settles
<1>6. CASE ~Fails(2, <<>>)
  <2>1. /\ Completes(2, <<>>, cycles)
        /\ pc' = NextPc(2)
        /\ r' = IF toSp THEN r ELSE SetHL(res.v)
        /\ sp' = IF toSp THEN res.v ELSE sp
        /\ frames' = IF toSp THEN <<>> ELSE frames
        /\ f' = res.f
        /\ did' = [kind |-> "addsp", x |-> sp, y |-> imm, c |-> 0]
        /\ UNCHANGED <<ime, mem>>
    BY <1>1, <1>6 DEF res
  <2> HIDE DEF toSp
  <2>2. did' \in Did
    BY <1>2, <2>1 DEF Did, Kinds, Byte, Word
  <2>3. r' \in [Reg8 -> Byte]
    BY <1>3, <2>1, SetHLType, Kept
  <2>4. sp' \in Word /\ frames' \in Seq(Frame)
    BY <1>2, <1>3, <2>1 DEF TypeOK
  <2>5. StateOK'
    BY <1>3, <2>1, <2>2, <2>3, <2>4, NextPcType DEF StateOK, TypeOK
  <2>6. Advances
    BY <1>4, <2>1, <2>5, NoData, Done
  <2>7. did'.kind = "addsp" /\ did'.x = sp /\ did'.y = imm
    BY <2>1
  <2>8. SumsAgree'
    BY <1>3, <2>1, <2>7 DEF SumsAgree, ArithmeticIsExact, DecimalIsExact
  <2> QED
    BY <2>6, <2>8 DEF Settles
<1> QED
  BY <1>5, <1>6

LEMMA CbOpOk ==
  ASSUME TypeOK, NEW op \in Opcode, CbOp(op)
  PROVE  Advances /\ Quiet
<1> DEFINE s == Src(op)
           reads == ReadsOf(s)
           few == IF s = "M" THEN 12 ELSE 8
           more == IF s = "M" THEN 16 ELSE 8
           res(x) == CASE IsBit(op) -> BitN(BitNo(op), x, f)
                       [] IsReset(op) -> ResetBit(BitNo(op), x, f)
                       [] IsSet(op) -> SetBitN(BitNo(op), x, f)
                       [] OTHER -> Shift(op, x)
           accesses(x) == ReadsOf(s) \o WritesOf(s, res(x).v)
<1>1. PICK x \in ByteOf(s) :
        \/ Fails(2, reads)
        \/ /\ Completes(2, reads, few)
           /\ pc' = NextPc(2) /\ f' = res(x).f /\ r' = r /\ KeepStack /\ Plain
        \/ Fails(2, accesses(x))
        \/ /\ Completes(2, accesses(x), more)
           /\ pc' = NextPc(2) /\ Put(s, res(x).v) /\ f' = res(x).f /\ Plain
  BY DEF CbOp, Do
<1> DEFINE both == accesses(x)
<1>2. op \in Nat /\ s \in Reg8 \cup {"M"} /\ f \in Flags
  BY OpcodeNat, OperandType, Registers
<1>3. x \in Byte
  BY <1>2, ByteOfType
<1>4. Yields(res(x))
  <2>1. /\ Yields(BitN(BitNo(op), x, f)) /\ Yields(ResetBit(BitNo(op), x, f))
        /\ Yields(SetBitN(BitNo(op), x, f))
    BY <1>2, <1>3, BitsYield
  <2>2. Yields(Shift(op, x))
    BY <1>2, <1>3, ShiftYields
  <2> QED
    BY <2>1, <2>2
<1>5. /\ Orderly(reads) /\ Len(reads) = (IF s = "M" THEN 1 ELSE 0)
      /\ Orderly(both) /\ Len(both) = (IF s = "M" THEN 2 ELSE 0)
  <2> HIDE DEF s, res
  <2> QED
    BY <1>2, <1>4, OperandAccesses DEF Yields
<1>6. /\ few \in Nat /\ few >= 4 * (2 + Len(reads))
      /\ more \in Nat /\ more >= 4 * (2 + Len(both))
      /\ 2 \in 1 .. 3
  <2> HIDE DEF reads, both
  <2> QED
    BY <1>5
<1> HIDE DEF s, reads, accesses, few, more, res
<1>7. CASE Fails(2, reads)
  BY <1>5, <1>6, <1>7, Failed DEF Quiet
<1>8. CASE Fails(2, both)
  BY <1>5, <1>6, <1>8, Failed DEF Quiet
<1>9. CASE /\ Completes(2, reads, few)
           /\ pc' = NextPc(2) /\ f' = res(x).f /\ r' = r /\ KeepStack /\ Plain
  <2>1. StateOK'
    BY <1>4, <1>6, <1>9, NextPcType, Kept, PlainFacts, StackKept DEF Yields
  <2>2. Advances
    BY <1>5, <1>6, <1>9, <2>1, Done
  <2> QED
    BY <1>9, <2>2, PlainFacts DEF Quiet
<1>10. CASE /\ Completes(2, both, more)
            /\ pc' = NextPc(2) /\ Put(s, res(x).v) /\ f' = res(x).f /\ Plain
  <2>1. r' \in [Reg8 -> Byte] /\ mem' \in [Ram -> Byte] /\ frames' \in Seq(Frame)
        /\ sp' = sp /\ ime' = ime
    BY <1>2, <1>4, <1>10, PutType DEF Yields
  <2>2. StateOK'
    BY <1>4, <1>6, <1>10, <2>1, NextPcType, PlainFacts DEF StateOK, TypeOK, Yields
  <2>3. Advances
    BY <1>5, <1>6, <1>10, <2>2, Done
  <2> QED
    BY <1>10, <2>3, PlainFacts DEF Quiet
<1> QED
  BY <1>1, <1>7, <1>8, <1>9, <1>10

LEMMA PushOk ==
  ASSUME TypeOK, NEW op \in Opcode, Push(op)
  PROVE  Advances /\ Quiet
<1> DEFINE w == IF WordNo(op) = 3 THEN AF ELSE Rr(op)
<1>0. w \in Word
  BY OpcodeNat, RrType, Registers
<1>1. CASE Fails(1, StackWrites(w))
  <2> HIDE DEF w
  <2> QED
    BY <1>0, <1>1, StackShapes, Failed DEF Quiet
<1>2. CASE ~Fails(1, StackWrites(w))
  <2>1. /\ Completes(1, StackWrites(w), 16)
        /\ pc' = NextPc(1) /\ Pushes(w) /\ Plain /\ UNCHANGED <<r, f, ime>>
    BY <1>2 DEF Push, Do
  <2> HIDE DEF w
  <2>3. mem' \in [Ram -> Byte] /\ sp' \in Word /\ frames' \in Seq(Frame)
    BY <1>0, <2>1, PushesType
  <2>4. StateOK'
    BY <2>1, <2>3, NextPcType, PlainFacts DEF StateOK, TypeOK
  <2>5. 16 \in Nat /\ 1 \in 1 .. 3 /\ (16 = 0 \/ 16 >= 4 * (1 + Len(StackWrites(w))))
    <3>1. Len(StackWrites(w)) = 2
      BY <1>0, StackShapes
    <3> QED
      BY <3>1
  <2>6. Advances
    BY <1>0, <2>1, <2>4, <2>5, StackShapes, Done
  <2> QED
    BY <2>1, <2>6, PlainFacts DEF Quiet
<1> QED
  BY <1>1, <1>2

LEMMA RstCodes ==
  ASSUME NEW op \in Nat, Family(op) = "rst"
  PROVE  op >= 199
<1>1. LowFamily(op) # "rst" /\ MovFamily(op) # "rst"
  BY DEF LowFamily, MovFamily
<1>2. op \in 192 .. 255 /\ HighFamily(op) = "rst"
  BY <1>1 DEF Family
<1>3. op % 8 = 7
  BY <1>2 DEF HighFamily
<1> QED
  BY <1>2, <1>3

LEMMA TwoAccesses ==
  ASSUME NEW data, Len(data) = 2
  PROVE  /\ 16 \in Nat /\ 1 \in 1 .. 3 /\ (16 = 0 \/ 16 >= 4 * (1 + Len(data)))
         /\ 24 \in Nat /\ 3 \in 1 .. 3 /\ (24 = 0 \/ 24 >= 4 * (3 + Len(data)))
OBVIOUS

LEMMA RstOk ==
  ASSUME TypeOK, NEW op \in Opcode, RST(op)
  PROVE  Advances /\ Quiet
<1>1. CASE Fails(1, StackWrites(NextPc(1)))
  BY <1>1, NextPcType, StackShapes, Failed DEF Quiet
<1>2. CASE ~Fails(1, StackWrites(NextPc(1)))
  <2>1. /\ Completes(1, StackWrites(NextPc(1)), 16)
        /\ pc' = op - 199 /\ Pushes(NextPc(1)) /\ Plain /\ UNCHANGED <<r, f, ime>>
    BY <1>2 DEF RST, Do
  <2>2. NextPc(1) \in Word
    BY NextPcType
  <2>3. op - 199 \in Word
    BY OpcodeNat, RstCodes DEF RST, Word
  <2>4. mem' \in [Ram -> Byte] /\ sp' \in Word /\ frames' \in Seq(Frame)
    BY <2>1, <2>2, PushesType
  <2>5. StateOK'
    BY <2>1, <2>3, <2>4, PlainFacts DEF StateOK, TypeOK
  <2>6. 16 \in Nat /\ 1 \in 1 .. 3 /\ (16 = 0 \/ 16 >= 4 * (1 + Len(StackWrites(NextPc(1)))))
    BY <2>2, StackShapes, TwoAccesses
  <2>7. Advances
    BY <2>1, <2>2, <2>5, <2>6, StackShapes, Done
  <2> QED
    BY <2>1, <2>7, PlainFacts DEF Quiet
<1> QED
  BY <1>1, <1>2

LEMMA CallOk ==
  ASSUME TypeOK, NEW op \in Opcode, Call(op)
  PROVE  Advances /\ Quiet
<1>1. PICK lo \in Imm, hi \in Imm :
        \/ Fails(3, StackWrites(NextPc(3)))
        \/ /\ Completes(3, StackWrites(NextPc(3)), 24)
           /\ pc' = Pair(hi, lo) /\ Pushes(NextPc(3)) /\ Plain /\ UNCHANGED <<r, f, ime>>
        \/ Fails(3, <<>>)
        \/ /\ Completes(3, <<>>, 12)
           /\ pc' = NextPc(3) /\ UNCHANGED <<r, f>> /\ KeepStack /\ Plain
  BY DEF Call, Do
<1>2. CASE Fails(3, StackWrites(NextPc(3)))
  BY <1>2, NextPcType, StackShapes, Failed DEF Quiet
<1>3. CASE Fails(3, <<>>)
  BY <1>3, NoData, Failed DEF Quiet
<1>4. CASE /\ Completes(3, StackWrites(NextPc(3)), 24)
           /\ pc' = Pair(hi, lo) /\ Pushes(NextPc(3)) /\ Plain /\ UNCHANGED <<r, f, ime>>
  <2>1. NextPc(3) \in Word /\ Pair(hi, lo) \in Word
    BY NextPcType, ImmType, PairType
  <2>2. mem' \in [Ram -> Byte] /\ sp' \in Word /\ frames' \in Seq(Frame)
    BY <1>4, <2>1, PushesType
  <2>3. StateOK'
    BY <1>4, <2>1, <2>2, PlainFacts DEF StateOK, TypeOK
  <2>4. 24 \in Nat /\ 3 \in 1 .. 3 /\ (24 = 0 \/ 24 >= 4 * (3 + Len(StackWrites(NextPc(3)))))
    BY <2>1, StackShapes, TwoAccesses
  <2>5. Advances
    BY <1>4, <2>1, <2>3, <2>4, StackShapes, Done
  <2> QED
    BY <1>4, <2>5, PlainFacts DEF Quiet
<1>5. CASE /\ Completes(3, <<>>, 12)
           /\ pc' = NextPc(3) /\ UNCHANGED <<r, f>> /\ KeepStack /\ Plain
  <2>1. StateOK'
    BY <1>5, NextPcType, Kept, PlainFacts, StackKept
  <2> QED
    BY <1>5, <2>1, NoData, Done, PlainFacts DEF Quiet
<1> QED
  BY <1>1, <1>2, <1>3, <1>4, <1>5

LEMMA PoppedWord ==
  ASSUME TypeOK, NEW w \in Word
  PROVE  /\ [r EXCEPT !["B"] = Hi(w), !["C"] = Lo(w)] \in [Reg8 -> Byte]
         /\ [r EXCEPT !["D"] = Hi(w), !["E"] = Lo(w)] \in [Reg8 -> Byte]
         /\ SetHL(w) \in [Reg8 -> Byte]
         /\ [r EXCEPT !["A"] = Hi(w)] \in [Reg8 -> Byte]
         /\ FOf(Lo(w)) \in Flags
<1>1. Lo(w) \in Byte /\ Hi(w) \in Byte /\ SetHL(w) \in [Reg8 -> Byte]
  BY Halves, SetHLType
<1>2. FOf(Lo(w)) \in Flags
  BY DEF FOf, Flags
<1> QED
  BY <1>1, <1>2 DEF TypeOK, Reg8

LEMMA PopOk ==
  ASSUME TypeOK, NEW op \in Opcode, Pop(op)
  PROVE  Advances /\ Quiet
<1>1. PICK w \in Popped :
        \/ Fails(1, StackReads)
        \/ /\ Completes(1, StackReads, 12)
           /\ pc' = NextPc(1)
           /\ r' = CASE WordNo(op) = 0 -> [r EXCEPT !["B"] = Hi(w), !["C"] = Lo(w)]
                     [] WordNo(op) = 1 -> [r EXCEPT !["D"] = Hi(w), !["E"] = Lo(w)]
                     [] WordNo(op) = 2 -> SetHL(w)
                     [] OTHER -> [r EXCEPT !["A"] = Hi(w)]
           /\ f' = IF WordNo(op) = 3 THEN FOf(Lo(w)) ELSE f
           /\ Pops
           /\ did' = [Nothing EXCEPT !.kind = "pop", !.x = WordNo(op)]
           /\ ime' = ime
  BY DEF Pop, Do
<1>2. CASE Fails(1, StackReads)
  BY <1>2, PopShapes, Failed DEF Quiet
<1>3. CASE ~Fails(1, StackReads)
  <2>1. w \in Word
    BY PoppedType
  <2>2. r' \in [Reg8 -> Byte] /\ f' \in Flags
    <3>1. f' \in Flags
      BY <1>1, <1>3, <2>1, PoppedWord, Kept
    <3>2. \/ r' = [r EXCEPT !["B"] = Hi(w), !["C"] = Lo(w)]
          \/ r' = [r EXCEPT !["D"] = Hi(w), !["E"] = Lo(w)]
          \/ r' = SetHL(w)
          \/ r' = [r EXCEPT !["A"] = Hi(w)]
      BY <1>1, <1>3
    <3> QED
      BY <2>1, <3>1, <3>2, PoppedWord
  <2>3. mem' \in [Ram -> Byte] /\ sp' \in Word /\ frames' \in Seq(Frame)
    BY <1>1, <1>3, PopsType
  <2>4. did' \in Did /\ did'.kind = "pop"
    <3>1. WordNo(op) \in Word
      BY OpcodeNat DEF WordNo, Word
    <3>2. did' = [kind |-> "pop", x |-> WordNo(op), y |-> 0, c |-> 0]
      BY <1>1, <1>3 DEF Nothing
    <3> QED
      BY <3>1, <3>2 DEF Did, Kinds, Word
  <2>5. StateOK'
    BY <1>1, <1>3, <2>2, <2>3, <2>4, NextPcType DEF StateOK, TypeOK
  <2>6. 12 \in Nat /\ 1 \in 1 .. 3 /\ (12 = 0 \/ 12 >= 4 * (1 + Len(StackReads)))
    <3>1. Len(StackReads) = 2
      BY PopShapes
    <3> QED
      BY <3>1
  <2>7. Advances
    BY <1>1, <1>3, <2>5, <2>6, PopShapes, Done
  <2> QED
    BY <2>4, <2>7 DEF Quiet
<1> QED
  BY <1>2, <1>3

LEMMA RetOk ==
  ASSUME TypeOK, NEW op \in Opcode, Ret(op)
  PROVE  Advances /\ Quiet
<1> DEFINE cycles == IF op \in {201, 217} THEN 16 ELSE 20
<1>1. CASE Fails(1, StackReads)
  BY <1>1, PopShapes, Failed DEF Quiet
<1>2. CASE Fails(1, <<>>)
  BY <1>2, NoData, Failed DEF Quiet
<1>3. CASE \E w \in Popped :
             /\ Completes(1, StackReads, cycles)
             /\ pc' = w /\ Pops /\ ime' = (op = 217 \/ ime)
             /\ did' = [Nothing EXCEPT !.kind = "return"]
             /\ UNCHANGED <<r, f>>
  <2>1. PICK w \in Popped :
             /\ Completes(1, StackReads, cycles)
             /\ pc' = w /\ Pops /\ ime' = (op = 217 \/ ime)
             /\ did' = [Nothing EXCEPT !.kind = "return"]
             /\ UNCHANGED <<r, f>>
    BY <1>3
  <2>2. w \in Word
    BY PoppedType
  <2>3. mem' \in [Ram -> Byte] /\ sp' \in Word /\ frames' \in Seq(Frame)
    BY <2>1, PopsType
  <2>4. did' \in Did /\ did'.kind = "return"
    BY <2>1 DEF Nothing, Did, Kinds, Word
  <2>5. ime' \in BOOLEAN
    BY <2>1
  <2>6. StateOK'
    BY <2>1, <2>2, <2>3, <2>4, <2>5 DEF StateOK, TypeOK
  <2>7. cycles \in Nat /\ 1 \in 1 .. 3 /\ (cycles = 0 \/ cycles >= 4 * (1 + Len(StackReads)))
    <3>1. Len(StackReads) = 2
      BY PopShapes
    <3> QED
      BY <3>1
  <2> HIDE DEF cycles
  <2>8. Advances
    BY <2>1, <2>6, <2>7, PopShapes, Done
  <2> QED
    BY <2>4, <2>8 DEF Quiet
<1>4. CASE /\ Completes(1, <<>>, 8)
           /\ pc' = NextPc(1) /\ UNCHANGED <<r, f>> /\ KeepStack /\ Plain
  <2>1. StateOK'
    BY <1>4, NextPcType, Kept, PlainFacts, StackKept
  <2> QED
    BY <1>4, <2>1, NoData, Done, PlainFacts DEF Quiet
<1> QED
  BY <1>1, <1>2, <1>3, <1>4 DEF Ret, Do

-----------------------------------------------------------------------------
(* Steps of the program. *)

Handled(op) ==
  \/ Nop(op) \/ Mov(op) \/ StoreA(op) \/ LoadA(op) \/ StoreHigh(op) \/ LoadHigh(op)
  \/ LoadWord(op) \/ StoreSp(op) \/ LoadSpHl(op)
  \/ AluOp(op) \/ IncDec(op) \/ AccOp(op) \/ IncDecWord(op) \/ AddHlOp(op) \/ AddSpOp(op)
  \/ CbOp(op) \/ Jr(op) \/ Jp(op) \/ JpHl(op) \/ Push(op) \/ Pop(op) \/ Call(op) \/ RST(op)
  \/ Ret(op) \/ DiEi(op) \/ HaltEmu(op)

LEMMA HandledOk ==
  ASSUME TypeOK, SumsAgree, NEW op \in Opcode, Handled(op)
  PROVE  Advances /\ Settles
<1>1. CASE AluOp(op) \/ AccOp(op) \/ AddHlOp(op) \/ AddSpOp(op)
  BY <1>1, AluOpOk, AccOpOk, AddHlOpOk, AddSpOpOk
<1>2. CASE \/ Nop(op) \/ Mov(op) \/ StoreA(op) \/ LoadA(op) \/ StoreHigh(op) \/ LoadHigh(op)
           \/ LoadWord(op) \/ StoreSp(op) \/ LoadSpHl(op)
  <2>1. Advances /\ Quiet
    BY <1>2, NopOk, MovOk, StoreAOk, LoadAOk, StoreHighOk, LoadHighOk, LoadWordOk, StoreSpOk,
       LoadSpHlOk
  <2> QED
    BY <2>1, QuietSettles
<1>3. CASE IncDec(op) \/ IncDecWord(op) \/ CbOp(op) \/ Jr(op) \/ Jp(op) \/ JpHl(op)
  <2>1. Advances /\ Quiet
    BY <1>3, IncDecOk, IncDecWordOk, CbOpOk, JrOk, JpOk, JpHlOk
  <2> QED
    BY <2>1, QuietSettles
<1>4. CASE Push(op) \/ Pop(op) \/ Call(op) \/ RST(op) \/ Ret(op) \/ DiEi(op) \/ HaltEmu(op)
  <2>1. Advances /\ Quiet
    BY <1>4, PushOk, PopOk, CallOk, RstOk, RetOk, DiEiOk, HaltEmuOk
  <2> QED
    BY <2>1, QuietSettles
<1> QED
  BY <1>1, <1>2, <1>3, <1>4 DEF Handled

LEMMA TypePartsNext ==
  StateOK' /\ PayloadOK' /\ program' \in SUBSET Opcode /\ left' \in Nat /\ mapper' \in Mappers
    => TypeOK'
BY DEF TypeOK, StateOK, PayloadOK, Access

IInv == TypeOK /\ SumsAgree /\ FailInv /\ TimeCoversAccesses

LEMMA SumsKept == SumsAgree /\ UNCHANGED <<r, f, did>> => SumsAgree'
BY DEF SumsAgree, ArithmeticIsExact, DecimalIsExact, HL

LEMMA UndefinedOk ==
  ASSUME IInv, NEW op \in Opcode, Undefined(op), run = "running", mapper' = mapper
  PROVE  StateOK' /\ PayloadOK' /\ SumsAgree' /\ FailInv' /\ TimeCoversAccesses'
<1>1. CASE Fails(1, <<>>)
  <2>1. Advances /\ UNCHANGED <<r, f, did>>
    BY <1>1, NoData, Failed DEF IInv
  <2> QED
    BY <2>1, SumsKept, StepPayload, StepCause, StepTime DEF IInv, Advances
<1>2. CASE /\ run' = IF Family(op) = "stop" THEN "thrown" ELSE "exited"
           /\ UNCHANGED <<regs, mem, status, wait, did, frames, failed, busy, ramOn>>
  <2>1. UNCHANGED <<r, f, sp, pc, ime, mem, status, wait, did, frames, failed, busy, ramOn>>
    BY <1>2 DEF regs
  <2>2. StateOK' /\ PayloadOK'
    BY <1>2, <2>1, TypeParts DEF IInv, StateOK, PayloadOK
  <2>3. SumsAgree' /\ TimeCoversAccesses'
    BY <2>1, SumsKept DEF IInv, TimeCoversAccesses
  <2>4. FailInv'
    BY <1>2, <2>1 DEF IInv, FailInv, FailureHasACause
  <2> QED
    BY <2>2, <2>3, <2>4
<1> QED
  BY <1>1, <1>2 DEF Undefined

LEMMA ExecuteOk ==
  ASSUME IInv, NEW op \in program, Execute(op)
  PROVE  IInv'
<1>1. op \in Opcode /\ TypeOK /\ run = "running"
  BY DEF IInv, TypeOK, Execute
<1>2. program' \in SUBSET Opcode /\ left' \in Nat /\ mapper' \in Mappers /\ mapper' = mapper
  BY DEF IInv, TypeOK, Execute
<1>3. CASE Handled(op)
  <2>1. StateOK' /\ Steps /\ Settles
    BY <1>1, <1>3, HandledOk DEF Advances, IInv
  <2>2. SumsAgree'
    BY <2>1, SumsKept DEF Settles, IInv
  <2> QED
    BY <1>1, <1>2, <2>1, <2>2, StepPayload, StepCause, StepTime, TypePartsNext DEF IInv
<1>4. CASE Undefined(op)
  <2>1. StateOK' /\ PayloadOK' /\ SumsAgree' /\ FailInv' /\ TimeCoversAccesses'
    BY <1>1, <1>2, <1>4, UndefinedOk
  <2> QED
    BY <1>2, <2>1, TypePartsNext DEF IInv
<1> QED
  BY <1>3, <1>4 DEF Execute, Instr, Handled

LEMMA DispatchOk ==
  ASSUME IInv, Dispatch
  PROVE  IInv'
<1>1. TypeOK /\ run = "running" /\ pc \in Word
  BY DEF IInv, TypeOK, Dispatch
<1>2. program' \in SUBSET Opcode /\ left' \in Nat /\ mapper' \in Mappers /\ mapper' = mapper
  BY DEF IInv, TypeOK, Dispatch
<1>3. Orderly(StackWrites(pc)) /\ StackWrites(pc) \in Seq(Access)
  BY <1>1, StackShapes DEF Orderly
<1>4. CASE Ends(StackWrites(pc))
  <2>1. StateOK' /\ PayloadOK' /\ SumsAgree'
    BY <1>1, <1>3, <1>4, EndsKeeps, EndsPayload, SumsKept DEF IInv
  <2>2. \A i \in Fatal(StackWrites(pc)) : Asserts(StackWrites(pc)[i])
    <3>1. \A i \in DOMAIN StackWrites(pc) : StackWrites(pc)[i].write
      BY DEF StackWrites, Wr
    <3> QED
      BY <3>1 DEF Fatal
  <2>3. FailInv'
    BY <1>2, <1>3, <1>4, <2>2, EndsCause
  <2>4. TimeCoversAccesses'
    BY <1>4 DEF Ends, IInv, TimeCoversAccesses
  <2> QED
    BY <1>2, <2>1, <2>3, <2>4, TypePartsNext DEF IInv
<1>5. CASE /\ Answered(StackWrites(pc)) /\ Pushes(pc)
           /\ \E v \in {64, 72, 80, 88, 96, pc} : pc' = v
           /\ ime' = FALSE /\ Plain /\ UNCHANGED <<r, f, wait, busy>>
  <2>1. mem' \in [Ram -> Byte] /\ sp' \in Word /\ frames' \in Seq(Frame)
    BY <1>1, <1>5, PushesType
  <2>2. pc' \in Word
    BY <1>1, <1>5 DEF Word
  <2>3. did' \in Did /\ did' = Nothing
    BY <1>5, PlainFacts
  <2>4. StateOK'
    BY <1>1, <1>5, <2>1, <2>2, <2>3 DEF StateOK, TypeOK
  <2>5. PayloadOK'
    BY <1>1, <1>5, AnsweredPayload DEF TypeOK
  <2>6. SumsAgree' /\ TimeCoversAccesses'
    BY <1>5, <2>3 DEF IInv, SumsAgree, ArithmeticIsExact, DecimalIsExact, Nothing,
                      TimeCoversAccesses
  <2>7. FailInv'
    BY <1>1, <1>5 DEF Answered, IInv, FailInv, FailureHasACause
  <2> QED
    BY <1>2, <2>4, <2>5, <2>6, <2>7, TypePartsNext DEF IInv
<1> QED
  BY <1>4, <1>5 DEF Dispatch

LEMMA Inductive == IInv /\ [Next]_vars => IInv'
<1> SUFFICES ASSUME IInv, [Next]_vars PROVE IInv'
  OBVIOUS
<1>1. CASE Dispatch
  BY <1>1, DispatchOk
<1>2. CASE \E op \in program : Execute(op)
  BY <1>2, ExecuteOk
<1>3. CASE UNCHANGED vars
  <2>1. UNCHANGED <<r, f, did>>
    BY <1>3 DEF vars, regs
  <2>2. SumsAgree'
    BY <2>1, SumsKept DEF IInv
  <2>3. TypeOK'
    BY <1>3 DEF vars, regs, code, cart, IInv, TypeOK
  <2>4. FailInv' /\ TimeCoversAccesses'
    BY <1>3 DEF vars, regs, code, cart, IInv, FailInv, FailureHasACause, TimeCoversAccesses
  <2> QED
    BY <2>2, <2>3, <2>4 DEF IInv
<1> QED
  BY <1>1, <1>2, <1>3 DEF Next

LEMMA Initially == Init => IInv
<1> SUFFICES ASSUME Init PROVE IInv
  OBVIOUS
<1>1. PICK s \in Starts :
        /\ r = s.r /\ f = s.f /\ sp = s.sp /\ pc = s.pc /\ ime = s.ime
        /\ status = s.status /\ program = s.program /\ left = s.left
        /\ mapper = s.mapper /\ ramOn = s.ramOn
  BY DEF Init
<1>2. s \in [r : [Reg8 -> Byte], f : Flags, sp : Word, pc : Word, ime : BOOLEAN,
             status : Statuses, mapper : Mappers, ramOn : BOOLEAN,
             program : SUBSET Opcode, left : Nat]
  BY StartsAssumption
<1>3. /\ r \in [Reg8 -> Byte] /\ f \in Flags /\ sp \in Word /\ pc \in Word /\ ime \in BOOLEAN
      /\ status \in Statuses /\ program \in SUBSET Opcode /\ left \in Nat
      /\ mapper \in Mappers /\ ramOn \in BOOLEAN
  BY <1>1, <1>2
<1>4. mem \in [Ram -> Byte] /\ did \in Did /\ did = Nothing /\ frames \in Seq(Frame)
  BY NothingType DEF Init, Byte
<1>5. run = "running" /\ wait = 0 /\ failed = NoAccess /\ busy = 0
  BY DEF Init
<1>6. TypeOK
  BY <1>3, <1>4, <1>5 DEF TypeOK
<1>7. SumsAgree /\ FailInv /\ TimeCoversAccesses
  BY <1>4, <1>5 DEF SumsAgree, ArithmeticIsExact, DecimalIsExact, Nothing, FailInv, FailureHasACause,
                    TimeCoversAccesses
<1> QED
  BY <1>6, <1>7 DEF IInv

LEMMA Invariance == Spec => []IInv
BY Initially, Inductive, PTL DEF Spec

-----------------------------------------------------------------------------
(* The registers stay bytes and words, the memory bytes, the stack a sequence *)
(* of words: no instruction computes a value that does not fit.               *)
THEOREM TypeCorrect == Spec => []TypeOK
BY Invariance, PTL DEF IInv

(* A, the flags and what an addition or a subtraction was given agree after   *)
(* every instruction, for any memory, any ROM and any code: no later          *)
(* instruction forgets to record that it changed A or the flags.              *)
THEOREM ArithmeticHolds == Spec => []ArithmeticIsExact
<1>1. IInv => ArithmeticIsExact
  BY DEF IInv, SumsAgree
<1> QED
  BY <1>1, Invariance, PTL

(* The two instructions of a decimal sum, ADD and DAA, give the digits that  *)
(* the operands' digits call for: the half carry and N the first one leaves   *)
(* are what DAA needs, whatever program they are part of.                     *)
THEOREM DecimalHolds == Spec => []DecimalIsExact
<1>1. IInv => DecimalIsExact
  BY DEF IInv, SumsAgree
<1> QED
  BY <1>1, Invariance, PTL

(* The emulation ends only where a target asserts (FF03, banks 4 to 7 of an    *)
(* MBC3's RAM, an MBC5's disabled RAM, or the OAM DMA reading from them), at   *)
(* a read nobody answers, or at a read of an MBC1's or MBC3's disabled RAM by  *)
(* code in the first bank (or an opcode fetched from that RAM), which finds an *)
(* earlier failure: for any code, memory and devices.                          *)
THEOREM FailuresHaveACause == Spec => []FailureHasACause
<1>1. IInv => FailureHasACause
  BY DEF IInv, FailInv
<1> QED
  BY <1>1, Invariance, PTL

(* The times of cpu_jumptable.cpp are at least a machine cycle for every bus  *)
(* access of the handler, whatever its operands are.                          *)
THEOREM TimeIsCovered == Spec => []TimeCoversAccesses
<1>1. IInv => TimeCoversAccesses
  BY DEF IInv
<1> QED
  BY <1>1, Invariance, PTL

-----------------------------------------------------------------------------
(***************************************************************************)
(* The stack of the instruction set: what POP and RET take off is what     *)
(* PUSH, CALL, RST and the dispatch of interrupts put on.  The invariant   *)
(* says that every word on the stack is still in memory, one below the     *)
(* other, with SP at the last one.                                         *)
(***************************************************************************)

(* The memory m holds the word of the frame fr, low half first. *)
Holds(m, fr) ==
  /\ Cells(fr) \subseteq Ram
  /\ m[Canon(fr.at)] = Lo(fr.word)
  /\ m[Canon(Plus(fr.at, 1))] = Hi(fr.word)

(* A stack of frames s in the memory m, whose top is at p. *)
Stacked(m, s, p) ==
  /\ \A i \in 1 .. Len(s) : Holds(m, s[i])
  /\ \A i, j \in 1 .. Len(s) : j = i + 1 => s[i].at = Plus(s[j].at, 2)
  /\ \A i \in 1 .. Len(s) : i = Len(s) => p = s[i].at

FramesHold == Stacked(mem, frames, sp)

-----------------------------------------------------------------------------
(* Addresses and memory. *)

LEMMA EchoFacts == ASSUME NEW a \in Word
                   PROVE  Canon(a) = IF a >= 57344 /\ a =< 65023 THEN a - 8192 ELSE a
BY BetweenFacts DEF Canon, Echo

(* Adjacent addresses are different cells, also across the echo's borders. *)
LEMMA Adjacent ==
  ASSUME NEW b \in Word
  PROVE  Plus(b, 1) \in Word /\ Canon(b) # Canon(Plus(b, 1))
<1>1. Plus(b, 1) \in Word /\ Plus(b, 1) = IF b = 65535 THEN 0 ELSE b + 1
  BY DEF Plus, Word
<1>2. Canon(b) = IF b >= 57344 /\ b =< 65023 THEN b - 8192 ELSE b
  BY EchoFacts
<1>3. Canon(Plus(b, 1)) = IF Plus(b, 1) >= 57344 /\ Plus(b, 1) =< 65023
                          THEN Plus(b, 1) - 8192 ELSE Plus(b, 1)
  BY <1>1, EchoFacts
<1> QED
  BY <1>1, <1>2, <1>3 DEF Word

LEMMA Below ==
  ASSUME NEW s \in Word
  PROVE  /\ Plus(s, -1) \in Word /\ Plus(s, -2) \in Word
         /\ Plus(Plus(s, -2), 1) = Plus(s, -1) /\ Plus(Plus(s, -2), 2) = s
BY DEF Plus, Word

LEMMA FrameType == ASSUME NEW fr \in Frame PROVE fr.at \in Word /\ fr.word \in Word
BY DEF Frame

LEMMA StoreKeeps ==
  ASSUME NEW m \in [Ram -> Byte], NEW fr, NEW a, NEW v,
         Canon(a) \notin Cells(fr), Holds(m, fr)
  PROVE  Holds(Stored(m, a, v), fr)
BY DEF Holds, Stored, Cells

LEMMA StackedKept ==
  ASSUME NEW m \in [Ram -> Byte], NEW s, NEW p, NEW a, NEW v,
         Stacked(m, s, p), \A i \in 1 .. Len(s) : Canon(a) \notin Cells(s[i])
  PROVE  Stacked(Stored(m, a, v), s, p)
BY StoreKeeps DEF Stacked

LEMMA NoFrames == ASSUME NEW m, NEW p PROVE Stacked(m, <<>>, p)
BY DEF Stacked

LEMMA UndisturbedFacts ==
  ASSUME TypeOK, NEW a
  PROVE  \/ Undisturbed(a) = <<>>
         \/ /\ Undisturbed(a) = frames
            /\ \A i \in 1 .. Len(frames) : Canon(a) \notin Cells(frames[i])
<1>1. DOMAIN frames = 1 .. Len(frames)
  BY DEF TypeOK
<1> QED
  BY <1>1 DEF Undisturbed

(* What is left of the stack after stores to a and b. *)
LEMMA TwoUndisturbed ==
  ASSUME TypeOK, NEW a, NEW b, NEW kept,
         kept = IF Undisturbed(a) = frames THEN Undisturbed(b) ELSE <<>>
  PROVE  \/ kept = <<>>
         \/ /\ kept = frames
            /\ \A i \in 1 .. Len(frames) :
                 Canon(a) \notin Cells(frames[i]) /\ Canon(b) \notin Cells(frames[i])
<1>1. CASE frames = <<>>
  BY <1>1, UndisturbedFacts
<1>2. CASE frames # <<>>
  BY <1>2, UndisturbedFacts
<1> QED
  BY <1>1, <1>2

-----------------------------------------------------------------------------
(* What a step may do to the stack. *)

(* POP and RET deliver the word w. *)
Delivers(w) ==
  /\ did'.kind = "return" => pc' = w
  /\ did'.kind = "pop" =>
       CASE did'.x = 0 -> BC' = w
         [] did'.x = 1 -> DE' = w
         [] did'.x = 2 -> HL' = w
         [] OTHER -> AF' = 16 * (w \div 16)

StackKeeps == UNCHANGED <<sp, mem, frames>>
TakesNone == did'.kind \notin {"pop", "return"}
Store(a, v) == sp' = sp /\ mem' = Stored(mem, a, v) /\ frames' = Undisturbed(a) /\ TakesNone
StoreTwo(a, b, u, v) ==
  /\ sp' = sp /\ mem' = Stored(Stored(mem, a, u), b, v)
  /\ frames' = IF Undisturbed(a) = frames THEN Undisturbed(b) ELSE <<>>
  /\ TakesNone
Forgets == frames' = <<>> /\ TakesNone
Puts(w) == Pushes(w) /\ TakesNone
Takes(w) == Pops /\ Delivers(w)

StackStep ==
  \/ StackKeeps
  \/ \E a \in Word, v \in Byte : Store(a, v)
  \/ \E a \in Word, b \in Word, u \in Byte, v \in Byte : StoreTwo(a, b, u, v)
  \/ Forgets
  \/ \E w \in Word : Puts(w)
  \/ \E w \in Popped : Takes(w)

LEMMA PutsHold ==
  ASSUME TypeOK, FramesHold, NEW w \in Word, Pushes(w)
  PROVE  FramesHold'
<1> DEFINE a == Plus(sp, -1)
           b == Plus(sp, -2)
           kept == IF Undisturbed(a) = frames THEN Undisturbed(b) ELSE <<>>
           m == Stored(mem, a, Hi(w))
           fr == [at |-> b, word |-> w]
<1>1. sp \in Word /\ a \in Word /\ b \in Word /\ Plus(b, 1) = a /\ Plus(b, 2) = sp
  BY Below DEF TypeOK
<1>2. Canon(a) # Canon(b)
  BY <1>1, Adjacent
<1>3. Lo(w) \in Byte /\ Hi(w) \in Byte
  BY Halves
<1>4. mem \in [Ram -> Byte] /\ m \in [Ram -> Byte] /\ frames \in Seq(Frame)
  BY <1>3, StoredType DEF TypeOK
<1>5. /\ mem' = Stored(m, b, Lo(w)) /\ sp' = b
      /\ frames' = IF {Canon(a), Canon(b)} \subseteq Ram THEN Append(kept, fr) ELSE <<>>
  BY DEF Pushes
<1>6. CASE ~({Canon(a), Canon(b)} \subseteq Ram)
  BY <1>5, <1>6, NoFrames DEF FramesHold
<1>7. CASE {Canon(a), Canon(b)} \subseteq Ram
  <2>1. kept \in Seq(Frame) /\ Stacked(mem', kept, sp)
    <3>1. \/ kept = <<>>
          \/ /\ kept = frames
             /\ \A i \in 1 .. Len(frames) :
                  Canon(a) \notin Cells(frames[i]) /\ Canon(b) \notin Cells(frames[i])
      BY TwoUndisturbed
    <3> HIDE DEF kept
    <3>2. CASE kept = <<>>
      <4>1. Stacked(mem', <<>>, sp)
        BY NoFrames
      <4> QED
        BY <3>2, <4>1
    <3>3. CASE /\ kept = frames
               /\ \A i \in 1 .. Len(frames) :
                    Canon(a) \notin Cells(frames[i]) /\ Canon(b) \notin Cells(frames[i])
      <4>1. Stacked(m, frames, sp)
        BY <1>4, <3>3, StackedKept DEF FramesHold
      <4> HIDE DEF m
      <4>2. Stacked(mem', frames, sp)
        BY <1>4, <1>5, <3>3, <4>1, StackedKept
      <4> QED
        BY <1>4, <3>3, <4>2
    <3> QED
      BY <3>1, <3>2, <3>3
  <2>2. Holds(mem', fr)
    <3>1. mem'[Canon(a)] = Hi(w) /\ mem'[Canon(b)] = Lo(w)
      BY <1>2, <1>4, <1>5, <1>7 DEF Stored
    <3> QED
      BY <1>1, <1>7, <3>1 DEF Holds, Cells
  <2>3. frames' = Append(kept, fr) /\ fr \in Frame /\ fr.at = b
    BY <1>1, <1>5, <1>7 DEF Frame
  <2> HIDE DEF kept, fr, m, a, b
  <2>4. /\ Len(frames') = Len(kept) + 1 /\ Len(kept) \in Nat
        /\ frames'[Len(kept) + 1] = fr
        /\ \A i \in 1 .. Len(kept) : frames'[i] = kept[i]
    BY <2>1, <2>3
  <2>5. \A i \in 1 .. Len(frames') : Holds(mem', frames'[i])
    BY <2>1, <2>2, <2>4 DEF Stacked
  <2>6. \A i, j \in 1 .. Len(frames') : j = i + 1 => frames'[i].at = Plus(frames'[j].at, 2)
    <3> SUFFICES ASSUME NEW i \in 1 .. Len(frames'), i + 1 \in 1 .. Len(frames')
                 PROVE  frames'[i].at = Plus(frames'[i + 1].at, 2)
      OBVIOUS
    <3>1. CASE i + 1 = Len(kept) + 1
      <4>1. i = Len(kept) /\ i \in 1 .. Len(kept)
        BY <2>4, <3>1
      <4>2. kept[i].at = sp
        BY <2>1, <4>1 DEF Stacked
      <4> QED
        BY <1>1, <2>3, <2>4, <3>1, <4>1, <4>2
    <3>2. CASE i + 1 # Len(kept) + 1
      <4>1. i \in 1 .. Len(kept) /\ i + 1 \in 1 .. Len(kept)
        BY <2>4, <3>2
      <4> QED
        BY <2>1, <2>4, <4>1 DEF Stacked
    <3> QED
      BY <3>1, <3>2
  <2>7. sp' = frames'[Len(frames')].at
    BY <1>5, <2>3, <2>4
  <2> QED
    BY <2>5, <2>6, <2>7 DEF FramesHold, Stacked
<1> QED
  BY <1>6, <1>7

LEMMA Shortened ==
  ASSUME NEW s \in Seq(Frame), NEW n \in Nat, n =< Len(s)
  PROVE  Len(SubSeq(s, 1, n)) = n /\ \A i \in 1 .. n : SubSeq(s, 1, n)[i] = s[i]
OBVIOUS

(* Below the top frame the stack is as it was. *)
LEMMA PopsHold ==
  ASSUME TypeOK, FramesHold, Pops
  PROVE  FramesHold'
<1>1. frames \in Seq(Frame) /\ Len(frames) \in Nat /\ mem' = mem /\ sp' = Plus(sp, 2)
  BY DEF TypeOK, Pops
<1>2. CASE frames = <<>>
  BY <1>2, NoFrames DEF Pops, FramesHold
<1>3. CASE frames # <<>>
  <2> DEFINE n == Len(frames) - 1
  <2>1. n \in Nat /\ frames' = SubSeq(frames, 1, n)
    BY <1>1, <1>3 DEF Pops
  <2>0. n =< Len(frames)
    BY <1>1
  <2>2. Len(frames') = n /\ \A i \in 1 .. n : frames'[i] = frames[i]
    <3> HIDE DEF n
    <3> QED
      BY <1>1, <2>0, <2>1, Shortened
  <2>3. 1 .. n \subseteq 1 .. Len(frames)
    BY <1>1
  <2>4. sp = frames[n + 1].at /\ n + 1 = Len(frames)
    BY <1>1, <1>3, <2>1 DEF FramesHold, Stacked
  <2>5. n # 0 => sp' = frames[n].at
    <3> SUFFICES ASSUME n # 0 PROVE sp' = frames[n].at
      OBVIOUS
    <3> HIDE DEF n
    <3>1. n \in 1 .. Len(frames) /\ n + 1 \in 1 .. Len(frames)
      BY <2>1, <2>4
    <3>2. frames[n].at = Plus(frames[n + 1].at, 2)
      BY <3>1 DEF FramesHold, Stacked
    <3> QED
      BY <1>1, <2>4, <3>2
  <2> HIDE DEF n
  <2>6. \A i \in 1 .. n : Holds(mem, frames[i])
    BY <2>3 DEF FramesHold, Stacked
  <2>7. \A i, j \in 1 .. n : j = i + 1 => frames[i].at = Plus(frames[j].at, 2)
    BY <2>3 DEF FramesHold, Stacked
  <2> QED
    BY <1>1, <2>1, <2>2, <2>5, <2>6, <2>7 DEF FramesHold, Stacked
<1> QED
  BY <1>2, <1>3

LEMMA StepHolds ==
  ASSUME TypeOK, FramesHold, StackStep
  PROVE  FramesHold'
<1>0. mem \in [Ram -> Byte]
  BY DEF TypeOK
<1>1. CASE StackKeeps
  BY <1>1 DEF StackKeeps, FramesHold
<1>2. CASE \E a \in Word, v \in Byte : Store(a, v)
  <2>1. PICK a \in Word, v \in Byte : Store(a, v)
    BY <1>2
  <2>2. CASE Undisturbed(a) = <<>>
    BY <2>1, <2>2, NoFrames DEF Store, FramesHold
  <2>3. CASE /\ Undisturbed(a) = frames
             /\ \A i \in 1 .. Len(frames) : Canon(a) \notin Cells(frames[i])
    <3>1. Stacked(Stored(mem, a, v), frames, sp)
      BY <1>0, <2>3, StackedKept DEF FramesHold
    <3> QED
      BY <2>1, <2>3, <3>1 DEF Store, FramesHold
  <2> QED
    BY <2>2, <2>3, UndisturbedFacts
<1>3. CASE \E a \in Word, b \in Word, u \in Byte, v \in Byte : StoreTwo(a, b, u, v)
  <2>1. PICK a \in Word, b \in Word, u \in Byte, v \in Byte : StoreTwo(a, b, u, v)
    BY <1>3
  <2> DEFINE kept == IF Undisturbed(a) = frames THEN Undisturbed(b) ELSE <<>>
             m == Stored(mem, a, u)
  <2>2. frames' = kept /\ mem' = Stored(m, b, v) /\ sp' = sp /\ m \in [Ram -> Byte]
    BY <1>0, <2>1, StoredType DEF StoreTwo
  <2>3. \/ kept = <<>>
        \/ /\ kept = frames
           /\ \A i \in 1 .. Len(frames) :
                Canon(a) \notin Cells(frames[i]) /\ Canon(b) \notin Cells(frames[i])
    BY TwoUndisturbed
  <2> HIDE DEF kept
  <2>4. CASE kept = <<>>
    BY <2>2, <2>4, NoFrames DEF FramesHold
  <2>5. CASE /\ kept = frames
             /\ \A i \in 1 .. Len(frames) :
                  Canon(a) \notin Cells(frames[i]) /\ Canon(b) \notin Cells(frames[i])
    <3>1. Stacked(m, frames, sp)
      BY <1>0, <2>5, StackedKept DEF FramesHold
    <3> HIDE DEF m
    <3>2. Stacked(Stored(m, b, v), frames, sp)
      BY <2>2, <2>5, <3>1, StackedKept
    <3> QED
      BY <2>2, <2>5, <3>2 DEF FramesHold
  <2> QED
    BY <2>3, <2>4, <2>5
<1>4. CASE Forgets
  BY <1>4, NoFrames DEF Forgets, FramesHold
<1>5. CASE \E w \in Word : Puts(w)
  BY <1>5, PutsHold DEF Puts
<1>6. CASE \E w \in Popped : Takes(w)
  BY <1>6, PopsHold DEF Takes
<1> QED
  BY <1>1, <1>2, <1>3, <1>4, <1>5, <1>6 DEF StackStep

(* The word in memory at SP is the top frame's. *)
LEMMA TopPopped ==
  ASSUME TypeOK, FramesHold, frames # <<>>, NEW w \in Popped
  PROVE  sp = Top.at /\ w = Top.word
<1>1. frames \in Seq(Frame) /\ Len(frames) \in 1 .. Len(frames) /\ Top \in Frame
  BY DEF TypeOK, Top
<1>2. Holds(mem, Top) /\ sp = Top.at
  BY <1>1 DEF FramesHold, Stacked, Top
<1>3. Canon(sp) \in Ram /\ Canon(Plus(sp, 1)) \in Ram
  BY <1>2 DEF Holds, Cells
<1>4. w = Pair(mem[Canon(Plus(sp, 1))], mem[Canon(sp)])
  BY <1>3 DEF Popped, Loads
<1>5. w = Pair(Hi(Top.word), Lo(Top.word))
  BY <1>2, <1>4 DEF Holds
<1> QED
  BY <1>1, <1>2, <1>5, FrameType, Halves

LEMMA StepIsLifo ==
  ASSUME TypeOK, FramesHold, StackStep,
         frames # <<>>, Len(frames') < Len(frames), did'.kind \in {"pop", "return"}
  PROVE  sp = Top.at /\ Delivers(Top.word)
<1>1. Len(frames) \in Nat
  BY DEF TypeOK
<1>2. ~StackKeeps /\ ~TakesNone
  BY <1>1 DEF StackKeeps, TakesNone
<1>3. PICK w \in Popped : Takes(w)
  BY <1>2 DEF StackStep, Store, StoreTwo, Forgets, Puts
<1> QED
  BY <1>3, TopPopped DEF Takes

-----------------------------------------------------------------------------
(* Every action is one of those steps. *)

LEMMA FailsStack == ASSUME NEW n, NEW data, Fails(n, data) PROVE StackStep
BY DEF Fails, Ends, regs, StackStep, StackKeeps

LEMMA KeepsStack == KeepStack => StackStep
BY DEF KeepStack, StackStep, StackKeeps

LEMMA PlainTakesNone == Plain => TakesNone
BY DEF Plain, Nothing, TakesNone

LEMMA PutStack ==
  ASSUME TypeOK, NEW s, NEW v \in Byte, Put(s, v), Plain
  PROVE  StackStep
<1>1. CASE s = "M"
  <2>1. Store(HL, v)
    BY <1>1, PlainTakesNone DEF Put, Store
  <2> QED
    BY <2>1, Registers DEF StackStep
<1>2. CASE s # "M"
  BY <1>2 DEF Put, StackStep, StackKeeps
<1> QED
  BY <1>1, <1>2

LEMMA SetRrStack ==
  ASSUME NEW op, NEW w, SetRr(op, w), Plain
  PROVE  StackStep
<1>1. CASE WordNo(op) = 3
  BY <1>1, PlainTakesNone DEF SetRr, StackStep, Forgets
<1>2. CASE WordNo(op) # 3
  BY <1>2 DEF SetRr, StackStep, StackKeeps
<1> QED
  BY <1>1, <1>2

LEMMA KeepingStack ==
  ASSUME NEW op,
         \/ Nop(op) \/ LoadA(op) \/ LoadHigh(op) \/ AluOp(op) \/ AccOp(op) \/ AddHlOp(op)
         \/ Jr(op) \/ Jp(op) \/ JpHl(op) \/ DiEi(op) \/ HaltEmu(op)
  PROVE  StackStep
<1>1. CASE DiEi(op)
  <2>1. StackKeeps \/ Fails(1, <<>>)
    BY <1>1 DEF DiEi, Do, StackKeeps
  <2> QED
    BY <2>1, FailsStack DEF StackStep
<1>2. ~DiEi(op) => KeepStack \/ \E n, data : Fails(n, data)
  <2>1. CASE Nop(op) \/ JpHl(op) \/ HaltEmu(op) \/ AccOp(op) \/ AddHlOp(op)
    BY <2>1 DEF Nop, JpHl, HaltEmu, AccOp, AddHlOp, Do
  <2>2. CASE LoadA(op)
    BY <2>2 DEF LoadA, Do
  <2>3. CASE LoadHigh(op)
    BY <2>3 DEF LoadHigh, Do
  <2>4. CASE AluOp(op)
    BY <2>4 DEF AluOp, Do
  <2>5. CASE Jr(op) \/ Jp(op)
    BY <2>5 DEF Jr, Jp, Do
  <2> QED
    BY <2>1, <2>2, <2>3, <2>4, <2>5
<1> QED
  BY <1>1, <1>2, FailsStack, KeepsStack

LEMMA StoringStack ==
  ASSUME TypeOK, NEW op \in Opcode,
         \/ Mov(op) \/ StoreA(op) \/ StoreHigh(op) \/ StoreSp(op) \/ IncDec(op) \/ CbOp(op)
  PROVE  StackStep
<1>0. op \in Nat /\ Src(op) \in Reg8 \cup {"M"} /\ Dst(op) \in Reg8 \cup {"M"} /\ r["A"] \in Byte
  BY OpcodeNat, OperandType, Registers
<1>1. CASE Mov(op)
  <2>1. PICK v \in (IF op < 64 THEN Imm ELSE ByteOf(Src(op))) :
          (Put(Dst(op), v) /\ Plain) \/ \E n, data : Fails(n, data)
    BY <1>1 DEF Mov, Do
  <2>2. v \in Byte
    BY <1>0, <2>1, ImmType, ByteOfType
  <2> QED
    BY <2>1, <2>2, PutStack, FailsStack
<1>2. CASE StoreA(op)
  <2>1. \/ Fails(1, <<Wr(ByWord(op), r["A"])>>)
        \/ /\ mem' = Stored(mem, ByWord(op), r["A"]) /\ frames' = Undisturbed(ByWord(op))
           /\ Plain /\ sp' = sp
    BY <1>2 DEF StoreA, Do
  <2>2. ByWord(op) \in Word
    BY Registers DEF ByWord
  <2> QED
    BY <1>0, <2>1, <2>2, FailsStack, PlainTakesNone DEF Store, StackStep
<1>3. CASE StoreHigh(op)
  <2>1. PICK lo \in Imm, hi \in Imm :
          \/ \E n, data : Fails(n, data)
          \/ /\ mem' = Stored(mem, HighAddr(op, lo, hi), r["A"])
             /\ frames' = Undisturbed(HighAddr(op, lo, hi)) /\ Plain /\ sp' = sp
    BY <1>3 DEF StoreHigh, Do
  <2>2. HighAddr(op, lo, hi) \in Word
    <3>1. lo \in Byte /\ hi \in Byte /\ r["C"] \in Byte
      BY ImmType, Registers
    <3> QED
      BY <3>1, PairType DEF HighAddr, Byte, Word
  <2> QED
    BY <1>0, <2>1, <2>2, FailsStack, PlainTakesNone DEF Store, StackStep
<1>4. CASE StoreSp(op)
  <2>1. PICK lo \in Imm, hi \in Imm :
          \/ \E n, data : Fails(n, data)
          \/ /\ mem' = Stored(Stored(mem, Pair(hi, lo), Lo(sp)), Plus(Pair(hi, lo), 1), Hi(sp))
             /\ frames' = (IF Undisturbed(Pair(hi, lo)) = frames
                           THEN Undisturbed(Plus(Pair(hi, lo), 1)) ELSE <<>>)
             /\ Plain /\ sp' = sp
    BY <1>4 DEF StoreSp, Do
  <2>2. Pair(hi, lo) \in Word /\ Plus(Pair(hi, lo), 1) \in Word
        /\ Lo(sp) \in Byte /\ Hi(sp) \in Byte
    BY ImmType, PairType, PlusType, Halves DEF TypeOK
  <2>3. CASE Plain /\ StoreTwo(Pair(hi, lo), Plus(Pair(hi, lo), 1), Lo(sp), Hi(sp))
    BY <2>2, <2>3 DEF StackStep
  <2> QED
    BY <2>1, <2>3, FailsStack, PlainTakesNone DEF StoreTwo
<1>5. CASE IncDec(op)
  <2>1. PICK x \in ByteOf(Dst(op)) :
          \/ \E n, data : Fails(n, data)
          \/ /\ Put(Dst(op), (IF Family(op) = "inc" THEN Inc(x, f) ELSE Dec(x, f)).v)
             /\ Plain
    BY <1>5 DEF IncDec, Do
  <2>2. x \in Byte
    BY <1>0, <2>1, ByteOfType
  <2>3. (IF Family(op) = "inc" THEN Inc(x, f) ELSE Dec(x, f)).v \in Byte
    BY <2>2, IncDecYield, Kept DEF Yields
  <2> QED
    BY <2>1, <2>3, PutStack, FailsStack
<1>6. CASE CbOp(op)
  <2> DEFINE res(x) == CASE IsBit(op) -> BitN(BitNo(op), x, f)
                         [] IsReset(op) -> ResetBit(BitNo(op), x, f)
                         [] IsSet(op) -> SetBitN(BitNo(op), x, f)
                         [] OTHER -> Shift(op, x)
  <2>1. PICK x \in ByteOf(Src(op)) :
          \/ \E n, data : Fails(n, data)
          \/ KeepStack
          \/ Put(Src(op), res(x).v) /\ Plain
    BY <1>6 DEF CbOp, Do
  <2>2. x \in Byte
    BY <1>0, <2>1, ByteOfType
  <2>3. res(x).v \in Byte
    <3>1. f \in Flags
      BY Kept
    <3>2. /\ Yields(BitN(BitNo(op), x, f)) /\ Yields(ResetBit(BitNo(op), x, f))
          /\ Yields(SetBitN(BitNo(op), x, f)) /\ Yields(Shift(op, x))
      BY <1>0, <2>2, <3>1, BitsYield, ShiftYields
    <3> QED
      BY <3>2 DEF Yields
  <2> HIDE DEF res
  <2> QED
    BY <2>1, <2>3, PutStack, FailsStack, KeepsStack
<1> QED
  BY <1>1, <1>2, <1>3, <1>4, <1>5, <1>6

LEMMA ForgettingStack ==
  ASSUME NEW op, LoadWord(op) \/ IncDecWord(op) \/ LoadSpHl(op) \/ AddSpOp(op)
  PROVE  StackStep
<1>1. CASE LoadWord(op) \/ IncDecWord(op)
  <2>1. (\E w : SetRr(op, w) /\ Plain) \/ \E n, data : Fails(n, data)
    BY <1>1 DEF LoadWord, IncDecWord, Do
  <2> QED
    BY <2>1, SetRrStack, FailsStack
<1>2. CASE LoadSpHl(op)
  <2>1. (frames' = <<>> /\ Plain) \/ Fails(1, <<>>)
    BY <1>2 DEF LoadSpHl, Do
  <2> QED
    BY <2>1, FailsStack, PlainTakesNone DEF Forgets, StackStep
<1>3. CASE AddSpOp(op)
  <2>1. PICK imm \in Imm :
          \/ Fails(2, <<>>)
          \/ /\ sp' = IF Family(op) = "addSp" THEN AddSp(sp, imm).v ELSE sp
             /\ frames' = IF Family(op) = "addSp" THEN <<>> ELSE frames
             /\ did' = [kind |-> "addsp", x |-> sp, y |-> imm, c |-> 0]
             /\ mem' = mem
    BY <1>3 DEF AddSpOp, Do
  <2>2. CASE Family(op) = "addSp" /\ ~Fails(2, <<>>)
    BY <2>1, <2>2 DEF StackStep, Forgets, TakesNone
  <2>3. CASE Family(op) # "addSp" /\ ~Fails(2, <<>>)
    BY <2>1, <2>3 DEF StackStep, StackKeeps
  <2> QED
    BY <2>2, <2>3, FailsStack
<1> QED
  BY <1>1, <1>2, <1>3

LEMMA PushingStack ==
  ASSUME TypeOK, NEW op \in Opcode, Push(op) \/ Call(op) \/ RST(op)
  PROVE  StackStep
<1>0. op \in Nat /\ NextPc(1) \in Word /\ NextPc(3) \in Word /\ AF \in Word /\ Rr(op) \in Word
  BY OpcodeNat, NextPcType, Registers, RrType
<1>1. \A w \in Word : Pushes(w) /\ Plain => StackStep
  BY PlainTakesNone DEF Puts, StackStep
<1>2. CASE Push(op)
  <2> DEFINE w == IF WordNo(op) = 3 THEN AF ELSE Rr(op)
  <2>1. Fails(1, StackWrites(w)) \/ (Pushes(w) /\ Plain)
    BY <1>2 DEF Push, Do
  <2>2. w \in Word
    BY <1>0
  <2> HIDE DEF w
  <2> QED
    BY <1>1, <2>1, <2>2, FailsStack
<1>3. CASE Call(op)
  <2>1. \/ \E n, data : Fails(n, data)
        \/ Pushes(NextPc(3)) /\ Plain
        \/ KeepStack
    BY <1>3 DEF Call, Do
  <2> QED
    BY <1>0, <1>1, <2>1, FailsStack, KeepsStack
<1>4. CASE RST(op)
  <2>1. Fails(1, StackWrites(NextPc(1))) \/ (Pushes(NextPc(1)) /\ Plain)
    BY <1>4 DEF RST, Do
  <2> QED
    BY <1>0, <1>1, <2>1, FailsStack
<1> QED
  BY <1>2, <1>3, <1>4

(* F without its low half. *)
LEMMA FlagsByte ==
  ASSUME NEW x \in Byte
  PROVE  FByte(FOf(x)) = 16 * (x \div 16)
<1>1. /\ FOf(x).z = (7 \in Bits(x)) /\ FOf(x).n = (6 \in Bits(x))
      /\ FOf(x).h = (5 \in Bits(x)) /\ FOf(x).c = (4 \in Bits(x))
  BY DEF FOf
<1>2. /\ Num(FOf(x).z) = (x \div 128) % 2
      /\ Num(FOf(x).n) = (x \div 64) % 2
      /\ Num(FOf(x).h) = (x \div 32) % 2
      /\ Num(FOf(x).c) = (x \div 16) % 2
  <2>1. /\ (x \div 128) % 2 \in {0, 1} /\ (x \div 64) % 2 \in {0, 1}
        /\ (x \div 32) % 2 \in {0, 1} /\ (x \div 16) % 2 \in {0, 1}
    BY DEF Byte
  <2>2. /\ Num(FOf(x).z) = (IF 7 \in Bits(x) THEN 1 ELSE 0)
        /\ Num(FOf(x).n) = (IF 6 \in Bits(x) THEN 1 ELSE 0)
        /\ Num(FOf(x).h) = (IF 5 \in Bits(x) THEN 1 ELSE 0)
        /\ Num(FOf(x).c) = (IF 4 \in Bits(x) THEN 1 ELSE 0)
    BY <1>1 DEF Num
  <2> QED
    BY <2>1, <2>2, BitsOf
<1>3. 16 * (x \div 16) = 128 * ((x \div 128) % 2) + 64 * ((x \div 64) % 2)
                          + 32 * ((x \div 32) % 2) + 16 * ((x \div 16) % 2)
  BY DEF Byte
<1> QED
  BY <1>2, <1>3 DEF FByte

LEMMA TakingStack ==
  ASSUME TypeOK, NEW op \in Opcode, Pop(op) \/ Ret(op)
  PROVE  StackStep
<1>1. CASE Pop(op)
  <2>1. PICK w \in Popped :
          \/ Fails(1, StackReads)
          \/ /\ r' = CASE WordNo(op) = 0 -> [r EXCEPT !["B"] = Hi(w), !["C"] = Lo(w)]
                       [] WordNo(op) = 1 -> [r EXCEPT !["D"] = Hi(w), !["E"] = Lo(w)]
                       [] WordNo(op) = 2 -> SetHL(w)
                       [] OTHER -> [r EXCEPT !["A"] = Hi(w)]
             /\ f' = IF WordNo(op) = 3 THEN FOf(Lo(w)) ELSE f
             /\ Pops
             /\ did' = [Nothing EXCEPT !.kind = "pop", !.x = WordNo(op)]
    BY <1>1 DEF Pop, Do
  <2>2. CASE Fails(1, StackReads)
    BY <2>2, FailsStack
  <2>3. CASE ~Fails(1, StackReads)
    <3>1. w \in Word /\ Lo(w) \in Byte /\ Hi(w) \in Byte /\ Pair(Hi(w), Lo(w)) = w
      BY PoppedType, Halves
    <3>2. did'.kind = "pop" /\ did'.x = WordNo(op)
      BY <2>1, <2>3 DEF Nothing
    <3>3. r \in [Reg8 -> Byte] /\ Pops
      BY <2>1, <2>3, Kept
    <3>4. CASE WordNo(op) = 0
      <4>1. r' = [r EXCEPT !["B"] = Hi(w), !["C"] = Lo(w)]
        BY <2>1, <2>3, <3>4
      <4>2. BC' = w
        BY <3>1, <3>3, <4>1 DEF BC, Reg8
      <4> QED
        BY <3>2, <3>3, <3>4, <4>2 DEF StackStep, Takes, Delivers
    <3>5. CASE WordNo(op) = 1
      <4>1. r' = [r EXCEPT !["D"] = Hi(w), !["E"] = Lo(w)]
        BY <2>1, <2>3, <3>5
      <4>2. DE' = w
        BY <3>1, <3>3, <4>1 DEF DE, Reg8
      <4> QED
        BY <3>2, <3>3, <3>5, <4>2 DEF StackStep, Takes, Delivers
    <3>6. CASE WordNo(op) = 2
      <4>1. r' = [r EXCEPT !["H"] = Hi(w), !["L"] = Lo(w)]
        BY <2>1, <2>3, <3>6 DEF SetHL
      <4>2. HL' = w
        BY <3>1, <3>3, <4>1 DEF HL, Reg8
      <4> QED
        BY <3>2, <3>3, <3>6, <4>2 DEF StackStep, Takes, Delivers
    <3>7. CASE WordNo(op) \notin {0, 1, 2}
      <4>1. WordNo(op) = 3
        BY <3>7, OpcodeNat DEF WordNo
      <4>2. r' = [r EXCEPT !["A"] = Hi(w)] /\ f' = FOf(Lo(w))
        BY <2>1, <2>3, <4>1
      <4>3. AF' = 256 * Hi(w) + 16 * (Lo(w) \div 16)
        BY <3>1, <3>3, <4>2, FlagsByte DEF AF, Pair, Reg8
      <4>4. 256 * Hi(w) + 16 * (Lo(w) \div 16) = 16 * (w \div 16)
        BY <3>1 DEF Hi, Lo, Word
      <4> QED
        BY <3>2, <3>3, <3>7, <4>3, <4>4 DEF StackStep, Takes, Delivers
    <3> QED
      BY <3>4, <3>5, <3>6, <3>7
  <2> QED
    BY <2>2, <2>3
<1>2. CASE Ret(op)
  <2>1. \/ \E n, data : Fails(n, data)
        \/ KeepStack
        \/ \E w \in Popped :
             pc' = w /\ Pops /\ did' = [Nothing EXCEPT !.kind = "return"]
    BY <1>2 DEF Ret, Do
  <2>2. CASE \E w \in Popped :
               pc' = w /\ Pops /\ did' = [Nothing EXCEPT !.kind = "return"]
    <3>1. PICK w \in Popped : pc' = w /\ Pops /\ did' = [Nothing EXCEPT !.kind = "return"]
      BY <2>2
    <3>2. did'.kind = "return"
      BY <3>1 DEF Nothing
    <3> QED
      BY <3>1, <3>2 DEF StackStep, Takes, Delivers
  <2> QED
    BY <2>1, <2>2, FailsStack, KeepsStack
<1> QED
  BY <1>1, <1>2

LEMMA ExecuteStack ==
  ASSUME TypeOK, NEW op \in program, Execute(op)
  PROVE  StackStep
<1>1. op \in Opcode
  BY DEF TypeOK
<1>2. CASE Undefined(op)
  <2>1. (UNCHANGED <<regs, mem, frames>>) \/ Fails(1, <<>>)
    BY <1>2 DEF Undefined
  <2> QED
    BY <2>1, FailsStack DEF regs, StackStep, StackKeeps
<1>3. CASE \/ Nop(op) \/ LoadA(op) \/ LoadHigh(op) \/ AluOp(op) \/ AccOp(op) \/ AddHlOp(op)
           \/ Jr(op) \/ Jp(op) \/ JpHl(op) \/ DiEi(op) \/ HaltEmu(op)
  BY <1>3, KeepingStack
<1>4. CASE \/ Mov(op) \/ StoreA(op) \/ StoreHigh(op) \/ StoreSp(op) \/ IncDec(op) \/ CbOp(op)
  BY <1>1, <1>4, StoringStack
<1>5. CASE LoadWord(op) \/ IncDecWord(op) \/ LoadSpHl(op) \/ AddSpOp(op)
  BY <1>5, ForgettingStack
<1>6. CASE Push(op) \/ Call(op) \/ RST(op) \/ Pop(op) \/ Ret(op)
  BY <1>1, <1>6, PushingStack, TakingStack
<1> QED
  BY <1>2, <1>3, <1>4, <1>5, <1>6 DEF Execute, Instr

LEMMA DispatchStack ==
  ASSUME TypeOK, Dispatch
  PROVE  StackStep
<1>1. CASE Ends(StackWrites(pc))
  BY <1>1, EndsKeeps DEF StackStep, StackKeeps
<1>2. CASE Pushes(pc) /\ Plain
  BY <1>2, PlainTakesNone DEF TypeOK, StackStep, Puts
<1> QED
  BY <1>1, <1>2 DEF Dispatch

LEMMA NextStack == TypeOK /\ [Next]_vars => StackStep
<1> SUFFICES ASSUME TypeOK, [Next]_vars PROVE StackStep
  OBVIOUS
<1>1. CASE UNCHANGED vars
  BY <1>1 DEF vars, regs, StackStep, StackKeeps
<1> QED
  BY <1>1, ExecuteStack, DispatchStack DEF Next

LEMMA FramesAlwaysHold == Spec => []FramesHold
<1>1. Init => FramesHold
  BY NoFrames DEF Init, FramesHold
<1>2. TypeOK /\ FramesHold /\ [Next]_vars => FramesHold'
  BY NextStack, StepHolds
<1> QED
  BY <1>1, <1>2, TypeCorrect, PTL DEF Spec

-----------------------------------------------------------------------------
(* Whatever the program, and wherever its interrupts strike: what POP and RET *)
(* deliver is the word last put on the stack, in the right halves, as long as *)
(* nothing has been stored over it and SP has not been set.                   *)
THEOREM StackHolds == Spec => StackIsLifo
<1> DEFINE Lifo ==
      frames # <<>> /\ Len(frames') < Len(frames) /\ did'.kind \in {"pop", "return"} =>
        /\ sp = Top.at
        /\ did'.kind = "return" => pc' = Top.word
        /\ did'.kind = "pop" =>
             CASE did'.x = 0 -> BC' = Top.word
               [] did'.x = 1 -> DE' = Top.word
               [] did'.x = 2 -> HL' = Top.word
               [] OTHER -> AF' = 16 * (Top.word \div 16)
<1>1. TypeOK /\ FramesHold /\ [Next]_vars => [Lifo]_vars
  BY NextStack, StepIsLifo DEF Delivers
<1> QED
  BY <1>1, TypeCorrect, FramesAlwaysHold, PTL DEF Spec, StackIsLifo
=============================================================================
