------------------------------- MODULE Sponge -------------------------------
(***************************************************************************)
(* A caller of native/mlkem/common/fips202.h: it hashes the first bytes of *)
(* Message with one of the five functions, in one call, block by block     *)
(* (the way gen_matrix does) or piece by piece (the way rkprf does), and   *)
(* may go on with a clone of its context at any time.  Contexts live on    *)
(* the heap and the program exits when malloc fails; when they are freed   *)
(* is not followed.                                                        *)
(***************************************************************************)
EXTENDS Fips202, FiniteSets

CONSTANTS MaxCalls,   \* bound: calls that absorb, and calls that squeeze
          Message,    \* the bytes to hash, as many as all the calls can absorb
          Pieces,     \* for every rate, how many bytes a call may absorb
          Reads       \* for every rate, how many bytes a call may squeeze

Functions5 == {shake128, shake256, sha3_256, sha3_384, sha3_512}

ASSUME CallsAssumption == MaxCalls \in Nat
ASSUME MessageAssumption == Message \in Seq(0..255)
ASSUME LengthsAssumption ==
    \A h \in Functions5 : Pieces[h.r] \subseteq Nat /\ Reads[h.r] \subseteq Nat

VARIABLES hash,      \* the hash function in use
          ctx,       \* state->ctx, what it points to
          absorbed,  \* bytes of the message absorbed
          out,       \* bytes squeezed
          calls,     \* calls in this phase
          phase

spongeVars == <<hash, ctx, absorbed, out, calls, phase>>

IsXof == hash.out = 0

Piece(from, len) == [i \in 1..len |-> Message[from + i]]

---------------------------------------------------------------------------
SpongeInit ==
    /\ hash \in Functions5
    /\ ctx = keccak_inc_init
    /\ absorbed = 0 /\ out = <<>> /\ calls = 0
    /\ phase = "idle"

\* malloc returns NULL: exit(111).
MallocFails ==
    /\ phase \in {"idle", "absorb", "squeeze", "blocks"}
    /\ phase' = "exit"
    /\ UNCHANGED <<hash, ctx, absorbed, out, calls>>

IncInit ==
    /\ phase = "idle"
    /\ ctx' = keccak_inc_init
    /\ phase' = "absorb"
    /\ UNCHANGED <<hash, absorbed, out, calls>>

IncAbsorb(len) ==
    /\ phase = "absorb" /\ calls < MaxCalls
    /\ ctx' = keccak_inc_absorb(ctx, hash.r, Piece(absorbed, len))
    /\ absorbed' = absorbed + len
    /\ calls' = calls + 1
    /\ UNCHANGED <<hash, out, phase>>

\* shake*_inc_finalize
IncFinalize ==
    /\ phase = "absorb" /\ IsXof
    /\ ctx' = keccak_inc_finalize(ctx, hash.r, hash.p)
    /\ calls' = 0
    /\ phase' = "squeeze"
    /\ UNCHANGED <<hash, absorbed, out>>

IncSqueeze(len) ==
    /\ phase = "squeeze" /\ calls < MaxCalls
    /\ LET squeezed == keccak_inc_squeeze(len, ctx, hash.r) IN
         /\ ctx' = [s |-> squeezed.s, n |-> squeezed.n]
         /\ out' = out \o squeezed.h
    /\ calls' = calls + 1
    /\ UNCHANGED <<hash, absorbed, phase>>

\* Mutant: the context is cloned without its counter.
Copy_lanes(c) == [c EXCEPT !.n = 0]

\* memcpy of the lanes and of the counter
Copy(c) == c

\* The caller goes on with a clone of its context.
Clone ==
    /\ phase \in {"absorb", "squeeze", "blocks"} /\ calls = 1
    /\ ctx' = Copy(ctx)
    /\ UNCHANGED <<hash, absorbed, out, calls, phase>>

\* sha3_*_inc_finalize pads and squeezes one block.
Sha3Finalize ==
    /\ phase = "absorb" /\ ~IsXof
    /\ LET padded == keccak_inc_finalize(ctx, hash.r, hash.p)
           block == keccak_squeezeblocks(1, padded.s, hash.r)
       IN  /\ ctx' = [s |-> block.s, n |-> padded.n]
           /\ out' = SubSeq(block.h, 1, hash.out)
    /\ phase' = "end"
    /\ UNCHANGED <<hash, absorbed, calls>>

---------------------------------------------------------------------------
\* shake*_absorb: the whole input at once.
Absorb(len) ==
    /\ phase = "idle" /\ IsXof
    /\ ctx' = [s |-> keccak_absorb(hash.r, Piece(0, len), hash.p), n |-> 0]
    /\ absorbed' = len
    /\ phase' = "blocks"
    /\ UNCHANGED <<hash, out, calls>>

\* shake*_squeezeblocks: any number of blocks, any number of times.
SqueezeBlocks(nblocks) ==
    /\ phase = "blocks" /\ calls < MaxCalls
    /\ LET squeezed == keccak_squeezeblocks(nblocks, ctx.s, hash.r) IN
         /\ ctx' = [ctx EXCEPT !.s = squeezed.s]
         /\ out' = out \o squeezed.h
    /\ calls' = calls + 1
    /\ UNCHANGED <<hash, absorbed, phase>>

\* shake*_inc_ctx_release, shake*_ctx_release
Release ==
    /\ phase \in {"squeeze", "blocks"}
    /\ phase' = "end"
    /\ UNCHANGED <<hash, ctx, absorbed, out, calls>>

\* shake128(), shake256(), sha3_256() ...: everything in one call.
OneShot(len, outlen) ==
    /\ phase = "idle"
    /\ absorbed' = len
    /\ out' = IF IsXof THEN shake(hash, outlen, Piece(0, len)) ELSE sha3(hash, Piece(0, len))
    /\ phase' = "end"
    /\ UNCHANGED <<hash, ctx, calls>>

Over == phase \in {"end", "exit"} /\ UNCHANGED spongeVars

SpongeNext ==
    \/ MallocFails \/ IncInit \/ IncFinalize \/ Clone \/ Sha3Finalize \/ Release \/ Over
    \/ \E len \in Pieces[hash.r] : IncAbsorb(len) \/ Absorb(len)
    \/ \E len \in Reads[hash.r] : IncSqueeze(len)
    \/ \E n \in {1, 2} : SqueezeBlocks(n)
    \/ \E len \in Pieces[hash.r], outlen \in Reads[hash.r] : OneShot(len, outlen)

SpongeSpec == SpongeInit /\ [][SpongeNext]_spongeVars

---------------------------------------------------------------------------
(* FIPS 202: the message is padded to whole blocks, each block is          *)
(* exclusive-ored into the state and permuted.                             *)
Padded(m) ==
    LET room == hash.r - (Len(m) % hash.r)
    IN  m \o (IF room = 1 THEN <<hash.p + 128>>
              ELSE <<hash.p>> \o [i \in 1..(room - 2) |-> 0] \o <<128>>)

Digest(m, len) ==
    LET P == Padded(m)
        n == Len(P) \div hash.r
        state[k \in 0..n] ==
          IF k = 0 THEN ZeroState
          ELSE KeccakF1600_StatePermute(
                 XorBytes(state[k - 1], 0, SubSeq(P, (k - 1) * hash.r + 1, k * hash.r)))
        stream[k \in 1..(1 + len \div hash.r)] ==
          IF k = 1 THEN [s |-> state[n], h |-> Bytes(state[n], 0, hash.r)]
          ELSE LET next == KeccakF1600_StatePermute(stream[k - 1].s)
               IN  [s |-> next, h |-> stream[k - 1].h \o Bytes(next, 0, hash.r)]
    IN  SubSeq(stream[1 + len \div hash.r].h, 1, len)

---------------------------------------------------------------------------
\* However the message is cut into pieces, however the output is asked for and
\* whichever of the three interfaces is used, the bytes squeezed are a prefix
\* of the digest of the whole message (keccak_absorb, keccak_inc_*).
OutputIsDigest ==
    out # <<>> /\ phase # "exit" => out = Digest(Piece(0, absorbed), Len(out))

\* "After keccak_inc_absorb, we are guaranteed that s_inc[25] < r, so we can
\* always use one more byte for p in the current state" (keccak_inc_finalize).
RoomForPadding == phase = "absorb" => ctx.n \in 0..(hash.r - 1)
===========================================================================
