----------------------------- MODULE MCCartridge -----------------------------
EXTENDS Cartridge

MCNumRam == [m \in Mappers |-> IF m = "mbc5" THEN 16 ELSE 4]
MCNumRom == [m \in Mappers |-> IF m = "mbc5" THEN 512 ELSE 128]

(* Each byte takes one more path: all mode bits, the clock, and aliases. *)
MCBytes ==
  [a \in Areas |->
     CASE a = "enable" -> {0, 10}
       [] a = "bank" -> {0, 1, 32}
       [] a = "bankHigh" -> {0, 1}
       [] a = "bits" -> {0, 1, 4, 9, 13}
       [] a = "mode" -> {0, 1}]
=============================================================================
