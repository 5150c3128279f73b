--------------------------- MODULE MCInstructions ---------------------------
(***************************************************************************)
(* Stretches of code for the model checker: arithmetic on many operands,   *)
(* the stack, accesses that fail, and every opcode once.                   *)
(***************************************************************************)
EXTENDS Instructions

MCRam == 49152 .. 49159 \cup {65408}
MCDevice == {0, 181}
MCImm == {3, 160, 192, 254}

With(kind, enabled, a, b, hl, carry, half, at, from, on, st, ops, n) ==
  [r |-> [x \in Reg8 |-> CASE x = "A" -> a [] x = "B" -> b [] x = "H" -> Hi(hl) [] x = "L" -> Lo(hl)
                           [] x = "C" -> 3 [] OTHER -> 192],
   f |-> [z |-> FALSE, n |-> FALSE, h |-> half, c |-> carry],
   sp |-> at, pc |-> from, ime |-> on, status |-> st,
   mapper |-> kind, ramOn |-> enabled, program |-> ops, left |-> n]

Begin(a, b, hl, carry, half, at, from, on, st, ops, n) ==
  With("MBC1", FALSE, a, b, hl, carry, half, at, from, on, st, ops, n)

Interesting == {0, 1, 9, 16, 25, 73, 80, 105, 127, 128, 144, 153, 255}

Arithmetic ==
  {Begin(a, b, 49152, c, FALSE, 49160, 256, FALSE, "ok", {39, 128, 135, 136, 144, 152, 159, 184, 198, 222}, 2) :
     a \in Interesting, b \in Interesting, c \in BOOLEAN}

Words ==
  {Begin(1, b, hl, c, FALSE, s, 256, FALSE, "ok", {9, 25, 41, 57, 232, 248, 51, 59}, 2) :
     b \in {15, 255}, hl \in {0, 4095, 36863, 65535}, c \in BOOLEAN, s \in {0, 8, 255, 32767, 65535}}

Stack ==
  {Begin(7, 11, 49154, FALSE, TRUE, s, 20480, on, "ok",
         {197, 193, 245, 241, 205, 201, 217, 215, 112, 34, 51, 8, 196, 192}, 3) :
     s \in {49156, 49153, 57345}, on \in BOOLEAN}

ShortStack ==
  {Begin(7, 11, 49154, TRUE, FALSE, s, 20480, TRUE, "ok", {197, 193, 229, 225, 241, 201, 231}, 4) :
     s \in {49156, 49158, 49154}}

Failures ==
  {Begin(0, 2, hl, FALSE, FALSE, s, p, FALSE, st, {234, 250, 119, 126, 233, 197, 240}, 3) :
     hl \in {40960, 65184}, s \in {65186, 40962}, p \in {256, 16383, 20480},
     st \in Statuses}

(* A is what a store to the controller, to FF46 or to the RAM delivers. *)
Cartridges ==
  {With(kind, enabled, a, 2, hl, FALSE, FALSE, s, p, s = 40962, "error", {119, 126, 234, 250}, 2) :
     kind \in Mappers, enabled \in BOOLEAN, a \in {4, 10, 160, 255}, hl \in {16384, 40960, 65350},
     s \in {49156, 40962}, p \in {256, 20480}}

Every ==
  {Begin(150, 2, hl, c, TRUE, 49156, p, TRUE, "error", Opcode, 1) :
     hl \in {49153, 57346}, c \in BOOLEAN, p \in {256, 65182}}

MCStarts == Arithmetic \cup Words \cup Stack \cup ShortStack \cup Failures \cup Cartridges \cup Every
=============================================================================
