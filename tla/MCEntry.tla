------------------------------ MODULE MCEntry -------------------------------
(* An instance of Entry: tss in the image's second megabyte, the two         *)
(* exceptions that have a gate and an invalid instruction.                   *)
EXTENDS Entry

MCTssBase == [b \in 0..7 |-> <<64, 32, 16, 128, 255, 255, 255, 255>>[b + 1]]
=============================================================================
