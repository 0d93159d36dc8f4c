--------------------------- MODULE MCModelResolver ---------------------------
(* A small instance of ModelResolver: constants for the .cfg file.         *)
EXTENDS ModelResolver

CONSTANTS r1, r2, m, u, k1

TwoRequests == {r1, r2}
OneModel == {m}
OneUuid == {u}
Chutes == {u, k1}

E(chute, tee) == [chute_id |-> chute, confidential |-> tee]
\* The model is there, has lost its confidential compute, is withdrawn.
ThreeLists == {[x \in OneModel |-> E(k1, TRUE)], [x \in OneModel |-> E(k1, FALSE)],
               [x \in OneModel |-> NoEntry]}
===========================================================================
