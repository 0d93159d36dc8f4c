---------------------------- MODULE NonceLedger ----------------------------
(***************************************************************************)
(* What the proxy promises about the nonces of /e2e/instances, without     *)
(* saying how: a nonce is offered, claimed by one request, and put on the  *)
(* wire once or not at all.  README.md, "single-use nonces".               *)
(* RoundTrip implements it with the batch cache and the coroutines' locals *)
(* (Ledger in RoundTrip).                                                  *)
(***************************************************************************)
CONSTANT Nonce

VARIABLES offered,  \* in the cached batch
          claimed,  \* taken by a request that has not sent it
          used      \* sent to /e2e/invoke

vars == <<offered, claimed, used>>

Init == offered = {} /\ claimed = {} /\ used = {}

\* A discovery answer replaces what was offered by nonces that are new.
Refresh ==
    /\ offered' \subseteq Nonce \ (offered \cup claimed \cup used)
    /\ UNCHANGED <<claimed, used>>

Claim ==
    /\ \E n \in offered : offered' = offered \ {n} /\ claimed' = claimed \cup {n}
    /\ UNCHANGED used

Use ==
    /\ \E n \in claimed : claimed' = claimed \ {n} /\ used' = used \cup {n}
    /\ UNCHANGED offered

\* A claim is given up, the offer is withdrawn, or both.
Forget ==
    /\ offered' \in {offered, {}}
    /\ claimed' = claimed \/ \E n \in claimed : claimed' = claimed \ {n}
    /\ UNCHANGED used

Next == Refresh \/ Claim \/ Use \/ Forget

Spec == Init /\ [][Next]_vars
===========================================================================
