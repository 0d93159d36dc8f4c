------------------------------ MODULE MCRingOps ------------------------------
(* A small instance of RingOps.                                             *)
EXTENDS RingOps

\* Every reduced coefficient occurs in one of these: -1664 .. 1664.
Sweep == {[i \in Index |-> IF 256 * n + i <= 3328 THEN 256 * n + i - 1664 ELSE 1664] : n \in 0..13}

\* One coefficient at a time, and all of them at the limits.
Monomial(c, e) == [i \in Index |-> IF i = e THEN c ELSE 0]
Extremes ==
    {Monomial(1, 0), Monomial(-1664, 1), Monomial(3329, 128), Monomial(2, 255),
     [i \in Index |-> 3329], [i \in Index |-> -3329],
     [i \in Index |-> IF i < 128 THEN 3329 ELSE -3329],
     [i \in Index |-> (17 * i * i) % 3329]}

MCInputs == Sweep \cup Extremes
\* The transform of a constant, and numbers up to the largest that 12 bits hold.
MCFactors == {[i \in Index |-> IF i % 2 = 0 THEN 4095 ELSE 0],
              [i \in Index |-> 4095 - ((i * 1237) % 4096)]}
==============================================================================
