---------------------------- MODULE RandomBytes ----------------------------
(***************************************************************************)
(* native/randombytes.c on Linux: filling a buffer with random bytes from  *)
(* getrandom(), which may be interrupted, may return fewer bytes than      *)
(* asked for or may not exist, and then from /dev/urandom, which may be    *)
(* missing or end early.  The callers (the AEAD nonce, the coins of        *)
(* ML-KEM) abort the worker rather than go on with an unfilled buffer.     *)
(*                                                                         *)
(* The buffer is abstracted to the number of bytes written from its start. *)
(***************************************************************************)
EXTENDS Integers

CONSTANT MaxLen   \* bound: the longest buffer

ASSUME LenAssumption == MaxLen \in Nat \ {0}

VARIABLES len,      \* bytes wanted
          got,      \* bytes the loop at hand has got
          filled,   \* bytes of the buffer that are random
          fill      \* where the filling is

randomVars == <<len, got, filled, fill>>

---------------------------------------------------------------------------
RandomInit ==
    /\ len \in 0..MaxLen
    /\ got = 0
    /\ filled = 0
    /\ fill = IF len = 0 THEN "ok" ELSE "getrandom"

Larger(x, y) == IF x > y THEN x ELSE y

\* Mutant: a short read counts as a full one.
Advance_short(r) == got' = len

Advance(r) == got' = got + r

\* How many bytes the next call asks for.
Room == len - got

\* r bytes are written behind the ones the loop already has.
Got(r) ==
    /\ Advance(r)
    /\ filled' = Larger(filled, got + r)

GetrandomReads(r) ==
    /\ fill = "getrandom" /\ got < len
    /\ r \in 1..Room
    /\ Got(r)
    /\ UNCHANGED <<len, fill>>

GetrandomInterrupted ==
    /\ fill = "getrandom" /\ got < len
    /\ UNCHANGED randomVars

\* ENOSYS or any other error: the whole buffer is filled from /dev/urandom.
GetrandomFails ==
    /\ fill = "getrandom" /\ got < len
    /\ fill' = "open"
    /\ UNCHANGED <<len, got, filled>>

GetrandomDone ==
    /\ fill = "getrandom" /\ got = len
    /\ fill' = "ok"
    /\ UNCHANGED <<len, got, filled>>

OpenUrandom ==
    /\ fill = "open"
    /\ \/ fill' = "urandom" /\ got' = 0
       \/ fill' = "failed" /\ UNCHANGED got
    /\ UNCHANGED <<len, filled>>

UrandomReads(r) ==
    /\ fill = "urandom" /\ got < len
    /\ r \in 1..Room
    /\ Got(r)
    /\ UNCHANGED <<len, fill>>

UrandomEnds ==
    /\ fill = "urandom" /\ got < len
    /\ fill' = "failed"
    /\ UNCHANGED <<len, got, filled>>

UrandomDone ==
    /\ fill = "urandom" /\ got = len
    /\ fill' = "ok"
    /\ UNCHANGED <<len, got, filled>>

\* PQCLEAN_randombytes and e2ee_random_bytes: use the buffer, or abort().
CallerGoesOn == fill = "ok" /\ fill' = "used" /\ UNCHANGED <<len, got, filled>>
CallerAborts == fill = "failed" /\ fill' = "aborted" /\ UNCHANGED <<len, got, filled>>

Over == fill \in {"used", "aborted"} /\ UNCHANGED randomVars

Step ==
    \/ \E r \in 1..MaxLen : GetrandomReads(r) \/ UrandomReads(r)
    \/ GetrandomFails \/ GetrandomDone
    \/ OpenUrandom \/ UrandomEnds \/ UrandomDone
    \/ CallerGoesOn \/ CallerAborts

RandomNext == Step \/ GetrandomInterrupted \/ Over

RandomSpec == RandomInit /\ [][RandomNext]_randomVars

---------------------------------------------------------------------------
\* Type correctness; no loop writes beyond the buffer.
RandomTypeOK ==
    /\ len \in 0..MaxLen /\ got \in 0..len /\ filled \in 0..len
    /\ fill \in {"getrandom", "open", "urandom", "ok", "failed", "used", "aborted"}

\* "ML-KEM must never proceed with unfilled coins": whatever mixture of short
\* reads, interruptions and fallback, a buffer that is used is random to its end.
UsedOnlyFilled == fill = "used" => filled = len

\* What UsedOnlyFilled rests on.
FillInv ==
    /\ fill \in {"getrandom", "urandom"} => filled >= got
    /\ fill \in {"ok", "used"} => filled = len
===========================================================================
