---------------------------- MODULE MCSSEStream ----------------------------
EXTENDS SSEStream

\* Every stream of at most two lines, and of three lines after an e2e_init.
MCBodies == BoundedSeq(LineKinds, 2) \cup {<<"init">> \o s : s \in BoundedSeq(LineKinds, 3)}
===========================================================================
