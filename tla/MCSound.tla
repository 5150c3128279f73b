------------------------------ MODULE MCSound ------------------------------
(***************************************************************************)
(* Short programs that turn the sound on and play notes: of one or two     *)
(* steps' length, with and without an envelope, a sweep up or down.        *)
(***************************************************************************)
EXTENDS Sound

Off == [i \in Regs |-> 0]

Plays(what, n, r, on, lens, f) ==
  {[writes |-> what, left |-> n, reg |-> r, power |-> on,
    length |-> [c \in Channels |-> k], volume |-> [c \in Channels |-> 0],
    freq |-> f, sweep |-> 0] : k \in lens}

Down == Plays({<<0, 25>>, <<4, 199>>}, 2, [Off EXCEPT ![1] = 63, ![2] = 128], TRUE, {0, 1}, 2048)
Up ==
  Plays({<<0, 16>>, <<4, 199>>}, 2, [Off EXCEPT ![1] = 62, ![2] = 128, ![4] = 6], TRUE, {1}, 1536)
Square2 ==
  Plays({<<22, 0>>, <<6, 191>>, <<7, 0>>, <<9, 192>>}, 4,
        [Off EXCEPT ![6] = 62, ![7] = 17], TRUE, {0, 1}, 0)
PowerOn == Plays({<<22, 0>>, <<22, 128>>, <<7, 17>>, <<9, 192>>}, 4, Off, FALSE, {1}, 0)
WaveNoise ==
  Plays({<<11, 255>>, <<14, 192>>, <<16, 63>>, <<19, 192>>}, 3,
        [Off EXCEPT ![16] = 62, ![17] = 233], TRUE, {2}, 0)

MCStarts == Down \cup Up \cup Square2 \cup PowerOn \cup WaveNoise
=============================================================================
