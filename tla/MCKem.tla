-------------------------------- MODULE MCKem --------------------------------
(* A small instance of Kem: the keyGen vector of native/selftest_kat.h, and   *)
(* a seed for which three blocks are too few for one entry of the matrix.     *)
EXTENDS Kem

KAT_KEYGEN_D ==
    << 229, 130, 183, 215, 94, 108, 128, 176, 90, 227, 146, 161, 252, 159, 113, 83,
       177, 35, 144, 253, 153, 147, 3, 104, 204, 103, 167, 104, 186, 235, 200, 160 >>

KAT_KEYGEN_Z ==
    << 28, 218, 203, 135, 64, 192, 184, 124, 74, 55, 149, 117, 241, 135, 179, 103,
       203, 250, 59, 48, 11, 245, 145, 177, 9, 247, 152, 22, 233, 203, 232, 240 >>

\* H(ek), which the known secret key holds before z.
KAT_KEYGEN_H ==
    << 129, 230, 110, 245, 167, 162, 33, 97, 159, 106, 100, 3, 156, 195, 105, 132,
       62, 16, 223, 92, 133, 159, 105, 89, 204, 63, 216, 229, 39, 35, 48, 253 >>

Repeat(byte) == [i \in 1..32 |-> byte]

MCCoins == {<<KAT_KEYGEN_D, KAT_KEYGEN_Z>>, <<Repeat(25), Repeat(7)>>}
MCMessages == {Repeat(0), Repeat(173)}
\* The first and the last byte of the vector and of the polynomial.
MCFlips == {0, 959, 960, 1087}
MCVectors == {[coins |-> <<KAT_KEYGEN_D, KAT_KEYGEN_Z>>, h |-> KAT_KEYGEN_H]}
==============================================================================
