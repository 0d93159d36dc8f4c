------------------------------ MODULE MCSponge ------------------------------
(* A small instance of Sponge: a message without repetitions in sight, in  *)
(* pieces of nothing, a byte and around one block; at the rate of SHAKE256 *)
(* of a key and a ciphertext, as rkprf absorbs them, and around one block. *)
EXTENDS Sponge

Text == [i \in 1..2200 |-> (i * i + 11 * i + 5) % 256]
Around == [r \in {h.r : h \in Functions5} |-> {0, 1, r - 1, r + 1}]
AroundOrKem == [Around EXCEPT ![shake256.r] = {32, 135, 137, 1088}]
===========================================================================
