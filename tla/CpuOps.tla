------------------------------- MODULE CpuOps -------------------------------
(***************************************************************************)
(* The arithmetic of cpu_ops.cpp: what an instruction computes from bytes, *)
(* words and flags.  Registers are u8 and u16 and wrap around; a sum is an *)
(* int until it is stored.  A flag is derived the way the code derives it, *)
(* mostly from the result already stored, which is what can go wrong.      *)
(***************************************************************************)
EXTENDS Integers

Byte == {x \in Nat : x < 256}
Word == {x \in Nat : x < 65536}
Flags == [z : BOOLEAN, n : BOOLEAN, h : BOOLEAN, c : BOOLEAN]

Num(b) == IF b THEN 1 ELSE 0
Lo(w) == w % 256
Hi(w) == w \div 256
Pair(hi, lo) == 256 * hi + lo

(* Fault: a program counter or stack pointer of more than sixteen bits. *)
PlusUnwrapped(w, i) == w + i

Plus(w, i) == (w + i) % 65536

Nibble(x) == x % 16
Signed(x) == IF x < 128 THEN x ELSE x - 256

(* A byte as the set of its bits, and back. *)
Bits(x) == {i \in 0 .. 7 : (x \div 2^i) % 2 = 1}
Value(S) ==
  LET w(i, v) == IF i \in S THEN v ELSE 0
  IN  w(0, 1) + w(1, 2) + w(2, 4) + w(3, 8) + w(4, 16) + w(5, 32) + w(6, 64) + w(7, 128)

(* The register F, whose low half is empty. *)
FByte(f) == 128 * Num(f.z) + 64 * Num(f.n) + 32 * Num(f.h) + 16 * Num(f.c)
FOf(x) == LET b == Bits(x) IN [z |-> 7 \in b, n |-> 6 \in b, h |-> 5 \in b, c |-> 4 \in b]

Result(v, n, h, c) == [v |-> v, f |-> [z |-> v = 0, n |-> n, h |-> h, c |-> c]]

-----------------------------------------------------------------------------
(* Additions and subtractions on A. *)

AddA(a, y) ==
  LET v == (a + y) % 256
  IN  Result(v, FALSE, Nibble(a) + Nibble(y) > 15, v < y)

(* Fault: the carry out of A + 255 + 1 is overlooked. *)
AddACarryForgets(a, y, c) ==
  LET v == (a + y + c) % 256
  IN  Result(v, FALSE, Nibble(a) + Nibble(y) + c > 15, v < a)

AddACarry(a, y, c) ==
  LET v == (a + y + c) % 256
  IN  Result(v, FALSE, Nibble(a) + Nibble(y) + c > 15, v < a \/ (v = a /\ c = 1))

Sub(a, y) ==
  LET v == (a - y) % 256
  IN  Result(v, TRUE, Nibble(a) < Nibble(y), v > a)

(* SBC A,A reads its operand a second time, after A was assigned. *)
SubCarry(a, y, c, aliased) ==
  LET v == (a - y - c) % 256
      again == IF aliased THEN v ELSE y
  IN  Result(v, TRUE, Nibble(a) - Nibble(again) - c < 0, v > a \/ (v = a /\ c = 1))

(* CP is SUB without the result. *)
Comp(a, y) == [Sub(a, y) EXCEPT !.v = a]

And(a, y) == Result(Value(Bits(a) \cap Bits(y)), FALSE, TRUE, FALSE)
Xor(a, y) == Result(Value((Bits(a) \ Bits(y)) \cup (Bits(y) \ Bits(a))), FALSE, FALSE, FALSE)
Or(a, y) == Result(Value(Bits(a) \cup Bits(y)), FALSE, FALSE, FALSE)

(* INC and DEC leave the carry alone. *)
Inc(x, f) == LET v == (x + 1) % 256 IN Result(v, FALSE, Nibble(v) = 0, f.c)
Dec(x, f) == LET v == (x - 1) % 256 IN Result(v, TRUE, Nibble(v) = 15, f.c)

(* Fault: the corrections are chosen after the low one has been added. *)
DaaInTwoSteps(a, f) ==
  LET low == IF f.h \/ (~f.n /\ Nibble(a) > 9) THEN 6 ELSE 0
      half == IF f.n THEN (a - low) % 256 ELSE (a + low) % 256
      high == IF f.c \/ (~f.n /\ half > 153) THEN 96 ELSE 0
      v == IF f.n THEN (half - high) % 256 ELSE (half + high) % 256
  IN  [v |-> v, f |-> [z |-> v = 0, n |-> f.n, h |-> FALSE, c |-> f.c \/ high = 96]]

(* DAA only ever sets the carry. *)
Daa(a, f) ==
  LET low == IF f.h \/ (~f.n /\ Nibble(a) > 9) THEN 6 ELSE 0
      high == IF f.c \/ (~f.n /\ a > 153) THEN 96 ELSE 0
      v == IF f.n THEN (a - low - high) % 256 ELSE (a + low + high) % 256
  IN  [v |-> v, f |-> [z |-> v = 0, n |-> f.n, h |-> FALSE, c |-> f.c \/ high = 96]]

Complement(a, f) == [v |-> 255 - a, f |-> [f EXCEPT !.n = TRUE, !.h = TRUE]]
SCF(a, f) == [v |-> a, f |-> [f EXCEPT !.n = FALSE, !.h = FALSE, !.c = TRUE]]
CCF(a, f) == [v |-> a, f |-> [f EXCEPT !.n = FALSE, !.h = FALSE, !.c = ~f.c]]

-----------------------------------------------------------------------------
(* Words. *)

(* ADD HL,rr leaves Z alone; the half carry is the one out of bit 11. *)
AddHl(hl, y, f) ==
  LET v == (hl + y) % 65536
  IN  [v |-> v, f |-> [z |-> f.z, n |-> FALSE, h |-> (hl % 4096) + (y % 4096) > 4095, c |-> v < hl]]

(***************************************************************************)
(* SP plus a signed byte.  The flags are the carries into bits 4 and 8,    *)
(* found as the bits in which the sum differs from the exclusive or of its *)
(* operands; the byte is sign-extended, so that its bit 8 is its bit 7.    *)
(***************************************************************************)
CarryInto(d, sp, y, v) == ((sp \div d) + y + (v \div d)) % 2 = 1

AddSp(sp, imm) ==
  LET v == (sp + Signed(imm)) % 65536
  IN  [v |-> v, f |-> [z |-> FALSE, n |-> FALSE,
                       h |-> CarryInto(16, sp, (imm \div 16) % 2, v),
                       c |-> CarryInto(256, sp, imm \div 128, v)]]

-----------------------------------------------------------------------------
(* Rotations and shifts. *)

Rlc(x, f) == LET v == ((2 * x) % 256) + (x \div 128) IN Result(v, FALSE, FALSE, v % 2 = 1)
Rrc(x, f) == LET v == (x \div 2) + 128 * (x % 2) IN Result(v, FALSE, FALSE, v >= 128)
RotLeft(x, f) == Result(((2 * x) % 256) + Num(f.c), FALSE, FALSE, x >= 128)
RotRight(x, f) == Result((x \div 2) + 128 * Num(f.c), FALSE, FALSE, x % 2 = 1)
SLA(x, f) == Result((2 * x) % 256, FALSE, FALSE, x >= 128)
SRA(x, f) == Result((x \div 2) + 128 * (x \div 128), FALSE, FALSE, x % 2 = 1)
Swap(x, f) == Result(16 * (x % 16) + (x \div 16), FALSE, FALSE, FALSE)
ShiftRight(x, f) == Result(x \div 2, FALSE, FALSE, x % 2 = 1)

(* The four rotations of A clear Z whatever the result. *)
OnA(res) == [res EXCEPT !.f.z = FALSE]

BitN(i, x, f) == [v |-> x, f |-> [z |-> i \notin Bits(x), n |-> FALSE, h |-> TRUE, c |-> f.c]]
ResetBit(i, x, f) == [v |-> Value(Bits(x) \ {i}), f |-> f]
SetBitN(i, x, f) == [v |-> Value(Bits(x) \cup {i}), f |-> f]
=============================================================================
