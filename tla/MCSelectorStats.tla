-------------------------- MODULE MCSelectorStats --------------------------
(* Small instances of SelectorStats: constants for the .cfg files.         *)
EXTENDS SelectorStats

CONSTANTS a, b

Two == {a, b}

Has(id) == [instance_id |-> id, nonces |-> <<1>>]
Busy(id) == [instance_id |-> id, nonces |-> <<>>]

\* Both instances, a out of nonces, a gone, none left.
BatchesTwo == {<<Has(a), Has(b)>>, <<Busy(a), Has(b)>>, <<Has(b)>>, <<Busy(a), Busy(b)>>}

Alpha == [num |-> 3, den |-> 10]
===========================================================================
