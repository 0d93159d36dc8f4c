---------------------------- MODULE MCRoundTrip ----------------------------
(* Small instances of RoundTrip: constants for the .cfg files.             *)
EXTENDS RoundTrip, TLC

CONSTANTS a, b, c,             \* instance ids
          r1, r2,              \* requests
          ka, kb, rogue, junk  \* keys: two genuine ones, a substituted one, no key at all

Two == {a, b}
Three == {a, b, c}
OneRequest == {r1}
TwoRequests == {r1, r2}
RequestSymmetry == Permutations(TwoRequests)

Keys == {ka, kb, rogue, junk}
Base64Keys == {ka, kb, rogue}
GenuineKeys == {ka, kb}

---------------------------------------------------------------------------
(* Discovery answers: instance, key, number of nonces.                     *)
In(id, key, n) == [instance_id |-> id, e2e_pubkey |-> key, n |-> n]

\* Both instances, instance a once behind a substituted key.
ShapesSwap == {<<In(a, ka, 1), In(b, kb, 1)>>, <<In(a, rogue, 1), In(b, kb, 1)>>}
\* The same with a key that is not base64 and an answer without nonces.
ShapesRich == ShapesSwap \cup {<<In(a, junk, 1)>>, <<In(b, kb, 0)>>}
\* Three instances; one of them absent; one alone, with two nonces.
ShapesThree == {<<In(a, ka, 1), In(b, ka, 1), In(c, ka, 1)>>, <<In(b, ka, 1), In(c, ka, 1)>>,
                <<In(a, ka, 2)>>}
ShapesOne == {<<In(a, ka, 1)>>}

---------------------------------------------------------------------------
(* Evidence documents                                                      *)
Quote(ours, key) ==
    [tdx |-> TRUE, ours |-> ours, key |-> key, debug |-> FALSE, measured |-> TRUE]
DebugQuote(key) == [Quote(TRUE, key) EXCEPT !.debug = TRUE]
Entry1(id, q) == [instance_id |-> id, quotes |-> {q}]
Doc(entries, listed, other) == [entries |-> entries, failed |-> listed, other |-> other]

\* Quotes made for our nonce; a quote replayed from an earlier verification.
GoodDoc == Doc(<<Entry1(a, Quote(TRUE, ka)), Entry1(b, Quote(TRUE, kb))>>, {}, {})
ReplayDoc == Doc(<<>>, {}, {Quote(FALSE, rogue)})
\* Evidence only for b, a listed as failed; a debug TD; a quote without a key.
FailedDoc == Doc(<<Entry1(b, Quote(TRUE, kb))>>, {a}, {})
DebugDoc == Doc(<<Entry1(a, DebugQuote(rogue))>>, {}, {})
NoKeyDoc == Doc(<<Entry1(a, Quote(TRUE, NoKey))>>, {}, {})

EvidenceSmall == {GoodDoc, ReplayDoc}
EvidenceRich == {NoDoc, GoodDoc, ReplayDoc, FailedDoc, DebugDoc, NoKeyDoc}

---------------------------------------------------------------------------
ScoresAny == [Instance -> {0, 1}]
ScoresFlat == {[i \in Instance |-> 0]}

===========================================================================
