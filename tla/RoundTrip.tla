----------------------------- MODULE RoundTrip -----------------------------
(***************************************************************************)
(* lua/e2ee_handler.lua, e2ee_round_trip, with the discovery cache         *)
(* (lua/e2ee_discovery.lua), the attestation caches (lua/e2ee_attest.lua)  *)
(* and the routing state (InstanceSelector) it shares with every other     *)
(* request for the same chute.                                             *)
(*                                                                         *)
(* nginx runs one worker and one coroutine at a time.  A coroutine gives   *)
(* the worker up only at its I/O calls, and ngx.now() is the time of the   *)
(* current event-loop turn, so `worker` names the coroutine that runs:     *)
(* its steps interleave with nothing and the clock stands still until it   *)
(* waits (worker = Nil).  A *Return action is the event loop resuming a    *)
(* coroutine with the outcome of its I/O call.                             *)
(***************************************************************************)
EXTENDS InstanceSelector, Attest

CONSTANTS
    Request,       \* client requests for the chute
    Streaming,     \* those that set "stream": true
    Modes,         \* the route modes they ask for
    BatchShapes,   \* discovery answers: sequences of [instance_id, e2e_pubkey, n]
    Evidence,      \* evidence documents
    Scores,        \* score tables, [Instance -> Nat]
    UpstreamStatus,\* statuses /e2e/invoke may answer with
    MaxPicks,      \* attested picks per attempt: 3 in the code
    NONCE_TTL_S,   \* nonce_expires_in of a discovery answer
    MaxBatches,    \* bound: discovery batches told apart at any time
    MaxTime        \* bound: the clock stops here

ASSUME RoundTripAssumption ==
    /\ Nil \notin Request
    /\ Streaming \subseteq Request
    /\ Modes \subseteq RouteModes
    /\ \A s \in BatchShapes : s \in Seq([instance_id : Instance, e2e_pubkey : Key, n : Nat])
    /\ UpstreamStatus \subseteq Nat
    /\ NONCE_TTL_S \in Nat
    /\ MaxPicks \in Nat \ {0}
    /\ MaxBatches \in Nat /\ MaxTime \in Nat

\* What the API's evidence is worth: a quote over our nonce, from a TD that is
\* not in debug mode and measures as pinned, names a key generated in that TD.
ASSUME EvidenceAssumption ==
    \A doc \in Evidence \ {NoDoc} : \A q \in doc_quotes(doc) :
        /\ q.key \in Key \cup {NoKey}
        /\ (q.ours /\ ~q.debug /\ q.measured /\ q.key # NoKey) => q.key \in GenuineKey

VARIABLES
    now,          \* ngx.now()
    worker,       \* the running coroutine, or Nil
    cs,           \* instance_selector: state[chute_id]
    nonce_cache,  \* e2ee_discovery: nonce_cache[chute_id], or Nil
    verified,     \* e2ee_attest: verified[instance_id], or Nil
    failed,       \* e2ee_attest: failed[instance_id], or Nil
    pc,           \* per request: where its coroutine is
    mode,         \* per request: opts.mode
    loop,         \* per request: [attempt, pick]
    inst,         \* per request: instance and nonce as [instance_id, e2e_pubkey, nonce], or Nil
    t0,           \* per request: verify's `now`, later t_seal
    res,          \* per request: res.status once the response headers are set, or Nil
    sent,         \* history: every /e2e/invoke request put on the wire
    attested,     \* history: every successful verification
    refusals,     \* history: the nonces that /e2e/invoke refused
    lastfail      \* history: when each instance last failed a request, or Nil

locals  == <<mode, loop, inst, t0, res>>
shared  == <<cs, nonce_cache, verified, failed>>
history == <<sent, attested, refusals, lastfail>>
vars    == <<now, worker, pc, locals, shared, history>>

---------------------------------------------------------------------------
(* A nonce is named by its batch, the position of its instance in the     *)
(* batch and its index there.                                             *)
Nonce == [b : Nat, p : Nat, k : Nat]

Batch(shape, b) ==
    [p \in DOMAIN shape |->
        [instance_id |-> shape[p].instance_id,
         e2e_pubkey  |-> shape[p].e2e_pubkey,
         nonces      |-> [k \in 1..shape[p].n |-> [b |-> b, p |-> p, k |-> k]]]]

\* The nonces in the cache, in the coroutines' hands, and used up.
Pooled == IF nonce_cache = Nil THEN {}
          ELSE UNION {{nonce_cache.instances[p].nonces[k]
                       : k \in DOMAIN nonce_cache.instances[p].nonces}
                      : p \in DOMAIN nonce_cache.instances}
Held   == {inst[r].nonce : r \in {q \in Request : inst[q] # Nil}}
Spent  == {s.nonce : s \in sent}

\* The API never hands out a nonce twice.  Names of nonces nobody knows any
\* more are used again, so an endless run needs finitely many of them.
FreshBatch(b) ==
    LET used == {n.b : n \in Pooled \cup Held \cup Spent}
    IN  b \in (1..MaxBatches) \ used /\ \A c \in (1..MaxBatches) \ used : b <= c

---------------------------------------------------------------------------
FirstTry == [attempt |-> 1, pick |-> 1]

Init ==
    /\ now = 0
    /\ worker = Nil
    /\ cs = chute_state
    /\ nonce_cache = Nil
    /\ verified = [i \in Instance |-> Nil]
    /\ failed = [i \in Instance |-> Nil]
    /\ pc = [r \in Request |-> "idle"]
    /\ mode = [r \in Request |-> Nil]
    /\ loop = [r \in Request |-> FirstTry]
    /\ inst = [r \in Request |-> Nil]
    /\ t0 = [r \in Request |-> 0]
    /\ res = [r \in Request |-> Nil]
    /\ sent = {}
    /\ attested = {}
    /\ refusals = {}
    /\ lastfail = [i \in Instance |-> Nil]

Running(r, at) == worker = r /\ pc[r] = at
Waiting(r, at) == worker = Nil /\ pc[r] = at

Continue(r, at) == worker' = r /\ pc' = [pc EXCEPT ![r] = at]
Await(r, at)    == worker' = Nil /\ pc' = [pc EXCEPT ![r] = at]

\* The coroutine ends and its locals go.  The status names the answer the client
\* gets; no property tells statuses apart, so it is not kept.
Answer(r, status) ==
    /\ Await(r, "done")
    /\ mode' = [mode EXCEPT ![r] = Nil]
    /\ loop' = [loop EXCEPT ![r] = FirstTry]
    /\ inst' = [inst EXCEPT ![r] = Nil]
    /\ t0' = [t0 EXCEPT ![r] = 0]
    /\ UNCHANGED res

\* selector.invalidate, called wherever an instance failed a request.
selector_invalidate(id) ==
    /\ cs' = invalidate(cs, id, now)
    /\ lastfail' = [lastfail EXCEPT ![id] = now]

---------------------------------------------------------------------------
(* Request entry: handle, and resolve_chute_id.                           *)

Arrive(r) ==
    /\ Waiting(r, "idle")
    /\ \E m \in Modes : mode' = [mode EXCEPT ![r] = m]
    /\ Continue(r, "take")
    /\ UNCHANGED <<now, loop, inst, t0, res, shared, history>>

\* No body, no JSON, no model, no API key, or a model that does not resolve.
Refuse(r) ==
    /\ Waiting(r, "idle")
    /\ Answer(r, 400)
    /\ UNCHANGED <<now, shared, history>>

---------------------------------------------------------------------------
(* discovery.get_nonce: take_nonce before ("take") and, if that finds     *)
(* nothing, after ("retake") a discovery fetch.                           *)

NothingTaken(r, from) ==
    \/ from = "take" /\ Await(r, "fetch") /\ UNCHANGED locals
    \/ from = "retake" /\ Answer(r, 503)

\* Mutant: the nonce is read but stays in the batch.
WithoutNonce_peek(cache, p) == cache

\* table.remove(inst.nonces, 1)
WithoutNonce(cache, p) ==
    LET e == cache.instances[p]
    IN  [expires_at |-> cache.expires_at,
         instances  |-> [cache.instances EXCEPT ![p] =
                           [instance_id |-> e.instance_id, e2e_pubkey |-> e.e2e_pubkey,
                            nonces |-> Tail(e.nonces)]]]

\* The coroutine leaves take_nonce with an instance and its first nonce.
Taken(r, e) ==
    /\ inst' = [inst EXCEPT ![r] = [instance_id |-> e.instance_id, e2e_pubkey |-> e.e2e_pubkey,
                                    nonce |-> Head(e.nonces)]]
    /\ Continue(r, "guard")
    /\ UNCHANGED <<mode, loop, t0, res>>

take_nonce(r, from) ==
    /\ Running(r, from)
    /\ \/ /\ nonce_cache = Nil
          /\ NothingTaken(r, from)
          /\ UNCHANGED <<cs, nonce_cache>>
       \/ /\ nonce_cache # Nil
          /\ now >= nonce_cache.expires_at
          /\ nonce_cache' = Nil
          /\ NothingTaken(r, from)
          /\ UNCHANGED cs
       \/ /\ nonce_cache # Nil
          /\ now < nonce_cache.expires_at
          /\ \E sc \in Scores : \E o \in pick(cs, nonce_cache.instances, now, mode[r], sc) :
               /\ cs' = o.cs
               /\ \/ /\ o.chosen = 0
                     /\ nonce_cache' = Nil
                     /\ NothingTaken(r, from)
                  \/ /\ o.chosen # 0
                     /\ nonce_cache' = WithoutNonce(nonce_cache, o.chosen)
                     /\ Taken(r, nonce_cache.instances[o.chosen])
    /\ UNCHANGED <<now, verified, failed, history>>

TakeNonce(r) == take_nonce(r, "take")
RetakeNonce(r) == take_nonce(r, "retake")

\* fetch_instances: the answer replaces whatever batch is cached by then.
FetchReturn(r) ==
    /\ Waiting(r, "fetch")
    /\ \E shape \in BatchShapes, b \in 1..MaxBatches :
         /\ FreshBatch(b)
         /\ nonce_cache' = [instances |-> Batch(shape, b), expires_at |-> now + NONCE_TTL_S]
    /\ Continue(r, "retake")
    /\ UNCHANGED <<now, locals, cs, verified, failed, history>>

\* Transport error, timeout, status other than 200, or no instance list.
FetchFails(r) ==
    /\ Waiting(r, "fetch")
    /\ Answer(r, 503)
    /\ UNCHANGED <<now, shared, history>>

---------------------------------------------------------------------------
(* attest.guard                                                           *)

\* Mutants: the key is not compared; the expiry is not.
Current_anykey(entry, key) == entry # Nil /\ now < entry.expires_at
Current_forever(entry, key) == entry # Nil /\ entry.key = key

\* A cache entry counts for the key it was made for, until it expires.
Current(entry, key) == entry # Nil /\ entry.key = key /\ now < entry.expires_at

GuardPasses(r) ==
    \/ MODE = "off"
    \/ MODE = "observe" /\ Current(failed[inst[r].instance_id], inst[r].e2e_pubkey)
    \/ Current(verified[inst[r].instance_id], inst[r].e2e_pubkey)

\* verify returned nil: observe remembers the failure and goes on.
VerifyFailed(r) ==
    \/ /\ MODE = "observe"
       /\ failed' = [failed EXCEPT ![inst[r].instance_id] =
                       [key |-> inst[r].e2e_pubkey, expires_at |-> now + ATTEST_FAIL_TTL_S]]
       /\ Continue(r, "seal")
    \/ /\ MODE # "observe"
       /\ UNCHANGED failed
       /\ Continue(r, "reject")

Guard(r) ==
    /\ Running(r, "guard")
    /\ \/ GuardPasses(r) /\ Continue(r, "seal") /\ UNCHANGED t0
       \/ ~GuardPasses(r) /\ Await(r, "evidence") /\ t0' = [t0 EXCEPT ![r] = now]
    /\ UNCHANGED <<now, mode, loop, inst, res, shared, history>>

\* random_bytes gave no attestation nonce.
GuardNoEntropy(r) ==
    /\ Running(r, "guard")
    /\ ~GuardPasses(r)
    /\ VerifyFailed(r)
    /\ UNCHANGED <<now, locals, cs, nonce_cache, verified, history>>

EvidenceReturn(r) ==
    /\ Waiting(r, "evidence")
    /\ \E doc \in Evidence :
         \/ /\ verify(doc, inst[r].instance_id, inst[r].e2e_pubkey)
            /\ verified' = [verified EXCEPT ![inst[r].instance_id] =
                              [key |-> inst[r].e2e_pubkey, expires_at |-> t0[r] + ATTEST_TTL_S]]
            /\ failed' = [failed EXCEPT ![inst[r].instance_id] = Nil]
            /\ attested' = attested \cup {[instance |-> inst[r].instance_id,
                                           key |-> inst[r].e2e_pubkey, at |-> t0[r], by |-> r]}
            /\ Continue(r, "seal")
         \/ /\ ~verify(doc, inst[r].instance_id, inst[r].e2e_pubkey)
            /\ VerifyFailed(r)
            /\ UNCHANGED <<verified, attested>>
    /\ UNCHANGED <<now, locals, cs, nonce_cache, sent, refusals, lastfail>>

\* Mutant: a rejected pick is not counted.
Reject_uncounted(r) ==
    /\ Running(r, "reject")
    /\ verified' = [verified EXCEPT ![inst[r].instance_id] = Nil]
    /\ failed' = [failed EXCEPT ![inst[r].instance_id] = Nil]
    /\ nonce_cache' = Nil
    /\ selector_invalidate(inst[r].instance_id)
    /\ inst' = [inst EXCEPT ![r] = Nil]
    /\ Continue(r, "take")
    /\ UNCHANGED <<now, mode, loop, t0, res, sent, attested, refusals>>

\* The handler drops the rejected instance everywhere and picks again, at most
\* MaxPicks times per attempt.
Reject(r) ==
    /\ Running(r, "reject")
    /\ verified' = [verified EXCEPT ![inst[r].instance_id] = Nil]
    /\ failed' = [failed EXCEPT ![inst[r].instance_id] = Nil]
    /\ nonce_cache' = Nil
    /\ selector_invalidate(inst[r].instance_id)
    /\ \/ /\ loop[r].pick < MaxPicks
          /\ loop' = [loop EXCEPT ![r] = [attempt |-> loop[r].attempt, pick |-> loop[r].pick + 1]]
          /\ inst' = [inst EXCEPT ![r] = Nil]
          /\ Continue(r, "take")
          /\ UNCHANGED <<mode, t0, res>>
       \/ loop[r].pick >= MaxPicks /\ Answer(r, 502)
    /\ UNCHANGED <<now, sent, attested, refusals>>

---------------------------------------------------------------------------
(* crypto.build_e2ee_request, connect_upstream, httpc:request             *)

Seal(r) ==
    /\ Running(r, "seal")
    /\ can_seal(inst[r].e2e_pubkey)
    /\ t0' = [t0 EXCEPT ![r] = now]
    /\ Await(r, "connect")
    /\ UNCHANGED <<now, mode, loop, inst, res, shared, history>>

\* A key that is no ML-KEM key, or a failure inside the native library.
SealFails(r) ==
    /\ Running(r, "seal")
    /\ Answer(r, 500)
    /\ UNCHANGED <<now, shared, history>>

ConnectReturn(r) ==
    /\ Waiting(r, "connect")
    /\ sent' = sent \cup {[r |-> r, attempt |-> loop[r].attempt, instance |-> inst[r].instance_id,
                           key |-> inst[r].e2e_pubkey, nonce |-> inst[r].nonce, sealed |-> t0[r]]}
    /\ Await(r, "request")
    /\ UNCHANGED <<now, locals, shared, attested, refusals, lastfail>>

ConnectFails(r) ==
    /\ Waiting(r, "connect")
    /\ selector_invalidate(inst[r].instance_id)
    /\ Answer(r, 502)
    /\ UNCHANGED <<now, nonce_cache, verified, failed, sent, attested, refusals>>

\* Only the first attempt looks into a 403; everything else leaves the loop
\* and sets the X-E2EE-* response headers.
RequestReturn(r) ==
    /\ Waiting(r, "request")
    /\ \E status \in UpstreamStatus :
         \/ /\ status = 403 /\ loop[r].attempt < 2
            /\ Await(r, "body403")
            /\ UNCHANGED res
         \/ /\ ~(status = 403 /\ loop[r].attempt < 2)
            /\ res' = [res EXCEPT ![r] = status]
            /\ Await(r, IF status # 200 THEN "errbody"
                        ELSE IF r \in Streaming THEN "stream" ELSE "body")
    /\ UNCHANGED <<now, mode, loop, inst, t0, shared, history>>

\* Mutant: a lost answer is retried like a refused nonce.
RequestFails_retry(r) ==
    /\ Waiting(r, "request")
    /\ selector_invalidate(inst[r].instance_id)
    /\ \/ /\ loop[r].attempt < 2
          /\ loop' = [loop EXCEPT ![r] = [attempt |-> 2, pick |-> 1]]
          /\ inst' = [inst EXCEPT ![r] = Nil]
          /\ Continue(r, "take")
          /\ UNCHANGED <<mode, t0, res>>
       \/ loop[r].attempt = 2 /\ Answer(r, 502)
    /\ UNCHANGED <<now, nonce_cache, verified, failed, sent, attested, refusals>>

\* Timeout or broken connection: the prompt may be running, so no retry.
RequestFails(r) ==
    /\ Waiting(r, "request")
    /\ selector_invalidate(inst[r].instance_id)
    /\ Answer(r, 502)
    /\ UNCHANGED <<now, nonce_cache, verified, failed, sent, attested, refusals>>

---------------------------------------------------------------------------
(* The response                                                           *)

\* The body names the nonce: drop the batch and the instance, try again.
NonceRefused(r) ==
    /\ Waiting(r, "body403")
    /\ nonce_cache' = Nil
    /\ selector_invalidate(inst[r].instance_id)
    /\ refusals' = refusals \cup {inst[r].nonce}
    /\ loop' = [loop EXCEPT ![r] = [attempt |-> loop[r].attempt + 1, pick |-> 1]]
    /\ inst' = [inst EXCEPT ![r] = Nil]
    /\ Continue(r, "take")
    /\ UNCHANGED <<now, mode, t0, res, verified, failed, sent, attested>>

OtherForbidden(r) ==
    /\ Waiting(r, "body403")
    /\ Answer(r, 403)
    /\ UNCHANGED <<now, shared, history>>

ErrBodyReturn(r) ==
    /\ Waiting(r, "errbody")
    /\ \/ res[r] >= 500 /\ selector_invalidate(inst[r].instance_id)
       \/ res[r] < 500 /\ UNCHANGED <<cs, lastfail>>
    /\ Answer(r, res[r])
    /\ UNCHANGED <<now, nonce_cache, verified, failed, sent, attested, refusals>>

\* Empty or undecryptable bodies are a 502; the instance is not invalidated.
BodyReturn(r) ==
    /\ Waiting(r, "body")
    /\ \E status \in {200, 502} : Answer(r, status)
    /\ UNCHANGED <<now, shared, history>>

\* SSEStream models the stream itself.
StreamEnds(r) ==
    /\ Waiting(r, "stream")
    /\ Answer(r, 200)
    /\ UNCHANGED <<now, shared, history>>

---------------------------------------------------------------------------
Tick ==
    /\ worker = Nil
    /\ now < MaxTime
    /\ now' = now + 1
    /\ UNCHANGED <<worker, pc, locals, shared, history>>

\* Every request has been answered and nothing is left to do.
Quiescent ==
    /\ \A r \in Request : pc[r] = "done"
    /\ UNCHANGED vars

\* What the coroutine of r does by itself, or when its I/O call returns.
Progress(r) ==
    \/ TakeNonce(r) \/ RetakeNonce(r) \/ FetchReturn(r) \/ FetchFails(r)
    \/ Guard(r) \/ GuardNoEntropy(r) \/ EvidenceReturn(r) \/ Reject(r)
    \/ Seal(r) \/ SealFails(r) \/ ConnectReturn(r) \/ ConnectFails(r)
    \/ RequestReturn(r) \/ RequestFails(r) \/ NonceRefused(r) \/ OtherForbidden(r)
    \/ ErrBodyReturn(r) \/ BodyReturn(r)

Next ==
    \/ \E r \in Request : Arrive(r) \/ Refuse(r) \/ Progress(r) \/ StreamEnds(r)
    \/ Tick
    \/ Quiescent

Spec == Init /\ [][Next]_vars

\* Every I/O call carries a timeout and nginx resumes the coroutines whose I/O
\* is ready.  A stream may stay open for ever, so StreamEnds is not fair.
FairSpec == Spec /\ \A r \in Request : WF_vars(Progress(r))

---------------------------------------------------------------------------
PCs == {"idle", "take", "fetch", "retake", "guard", "evidence", "reject", "seal",
        "connect", "request", "body403", "errbody", "body", "stream", "done"}

Entry == [instance_id : Instance, e2e_pubkey : Key, nonces : Seq(Nonce)]

\* The contents of the ring are the subject of RingOK.
SelectorType(s) ==
    /\ s = [sticky |-> s.sticky, ring |-> s.ring, ring_pos |-> s.ring_pos, banned |-> s.banned]
    /\ s.sticky \in Instance \cup {Nil}
    /\ s.banned \in [Instance -> Nat]

LoopType == [attempt : 1..2, pick : 1..MaxPicks]
InstType == [instance_id : Instance, e2e_pubkey : Key, nonce : Nonce]
CacheType == [instances : Seq(Entry), expires_at : Nat]
VerdictType == [key : Key, expires_at : Nat]
SentType == [r : Request, attempt : 1..2, instance : Instance, key : Key,
             nonce : Nonce, sealed : Nat]
ProofType == [instance : Instance, key : Key, at : Nat, by : Request]

\* Lua's nil is no table and no number.
ASSUME NilAssumption == Nil \notin InstType \cup CacheType \cup VerdictType \cup Nat

CoroutinesOK ==
    /\ worker \in Request \cup {Nil}
    /\ pc \in [Request -> PCs]
    /\ mode \in [Request -> RouteModes \cup {Nil}]
    /\ loop \in [Request -> LoopType]
    /\ inst \in [Request -> InstType \cup {Nil}]
    /\ t0 \in [Request -> Nat]
    /\ res \in [Request -> Nat \cup {Nil}]

TablesOK ==
    /\ SelectorType(cs)
    /\ nonce_cache \in CacheType \cup {Nil}
    /\ verified \in [Instance -> VerdictType \cup {Nil}]
    /\ failed \in [Instance -> VerdictType \cup {Nil}]

HistoryOK ==
    /\ sent \subseteq SentType
    /\ attested \subseteq ProofType
    /\ refusals \subseteq Nonce
    /\ lastfail \in [Instance -> Nat \cup {Nil}]

\* Type correctness of the clock, of the coroutines' locals, of the worker's
\* shared tables and of the histories.
TypeOK == now \in Nat /\ CoroutinesOK /\ TablesOK /\ HistoryOK

\* Which coroutine runs, and what a coroutine has in its locals at each point.
RunningPCs == {"take", "retake", "guard", "reject", "seal"}
Unsent     == {"guard", "evidence", "reject", "seal", "connect"}
Holding    == Unsent \cup {"request", "body403", "errbody", "body", "stream"}

LocalInv ==
    \A r \in Request :
        /\ pc[r] \in RunningPCs <=> worker = r
        /\ pc[r] \in Holding <=> inst[r] # Nil
        /\ pc[r] \notin {"idle", "done"} => mode[r] \in RouteModes
        /\ pc[r] = "errbody" => res[r] # Nil
        /\ pc[r] = "body403" => loop[r].attempt = 1

\* A nonce is single-use (README "single-use nonces"): no two /e2e/invoke
\* requests ever carry the same one, whatever the requests' interleaving with
\* each other, with batch refreshes and with invalidations.
NonceSingleUse == \A s1, s2 \in sent : s1.nonce = s2.nonce => s1 = s2

\* Its inductive strengthening: no nonce of the batch is in anybody's hands or
\* spent, no two coroutines hold the same one, and a coroutine that has not sent
\* yet holds one nobody has sent.
Distinct(batch) ==
    \A p, q \in DOMAIN batch :
       \A k \in DOMAIN batch[p].nonces : \A l \in DOMAIN batch[q].nonces :
          batch[p].nonces[k] = batch[q].nonces[l] => p = q /\ k = l
PoolDistinct ==
    nonce_cache # Nil => Distinct(nonce_cache.instances)

NonceInv ==
    /\ PoolDistinct
    /\ \A r \in Request : inst[r] # Nil => inst[r].nonce \notin Pooled
    /\ \A s \in sent : s.nonce \notin Pooled
    /\ \A r, q \in Request :
         inst[r] # Nil /\ inst[q] # Nil /\ inst[r].nonce = inst[q].nonce => r = q
    /\ \A r \in Request : pc[r] \in Unsent => inst[r].nonce \notin Spent
    /\ NonceSingleUse

\* The nonces of the coroutines between take_nonce and connect.
ClaimedNonces == {inst[r].nonce : r \in {q \in Request : pc[q] \in Unsent}}

\* The cached batch offers, a coroutine between take_nonce and connect claims.
Ledger == INSTANCE NonceLedger WITH
            offered <- Pooled, claimed <- ClaimedNonces, used <- Spent

\* Every step of every coroutine is one step of the ledger, or none: a batch
\* refresh, a claim, a use, or a nonce forgotten; none comes back once claimed.
LedgerSpec == Ledger!Spec

\* With E2EE_ATTEST=enforce and debug TDs refused, a prompt is only ever sealed
\* to a key that was generated in a genuine TD, even when an instance's key is
\* swapped between two discoveries or while a verification is under way.
SealedToGenuineKey ==
    MODE = "enforce" /\ ~ATTEST_ALLOW_DEBUG_TD => \A s \in sent : s.key \in GenuineKey

\* In enforce mode the key of every sent request was verified for that very
\* instance, by the request itself or less than ATTEST_TTL_S before the sealing.
AttestationFresh ==
    MODE = "enforce" =>
        \A s \in sent : \E a \in attested :
            /\ a.instance = s.instance /\ a.key = s.key
            /\ a.by = s.r \/ s.sealed - a.at < ATTEST_TTL_S

\* Their inductive strengthening: a cached verdict stands for a verification, and
\* a coroutine past guard is backed by one.
Backed(r, id, key, t) ==
    \E a \in attested :
        /\ a.instance = id /\ a.key = key
        /\ a.by = r \/ t - a.at < ATTEST_TTL_S

AttestInv ==
    MODE = "enforce" =>
        /\ \A a \in attested :
             ATTEST_ALLOW_DEBUG_TD \/ a.key \in GenuineKey \/ a.key \notin Decodable
        /\ \A i \in Instance : verified[i] # Nil =>
             \E a \in attested :
                a.instance = i /\ a.key = verified[i].key /\ a.at + ATTEST_TTL_S = verified[i].expires_at
        /\ \A r \in Request : pc[r] = "seal" =>
             Backed(r, inst[r].instance_id, inst[r].e2e_pubkey, now)
        /\ \A r \in Request : pc[r] = "connect" =>
             Backed(r, inst[r].instance_id, inst[r].e2e_pubkey, t0[r]) /\ can_seal(inst[r].e2e_pubkey)
        /\ \A s \in sent : Backed(s.r, s.instance, s.key, s.sealed) /\ can_seal(s.key)

\* A prompt is put on the wire a second time only after /e2e/invoke refused the
\* nonce of the first delivery ("Retry once on a nonce 403"), and never a third
\* time: no answer, timeout or broken connection may bill the prompt twice.
AtMostOneDelivery ==
    \A s1, s2 \in sent : s1.r = s2.r /\ s1 # s2 =>
        {s1.attempt, s2.attempt} = {1, 2} /\ (s1.attempt = 1 => s1.nonce \in refusals)

\* Its inductive strengthening: what a request has sent, relative to the attempt
\* it is in.
Unanswered == {"request", "body403"}
Accounted(s) ==
    /\ pc[s.r] # "idle"
    /\ pc[s.r] \notin Unanswered \cup {"errbody", "body", "stream", "done"} =>
         s.attempt < loop[s.r].attempt
    /\ pc[s.r] # "done" /\ s.attempt < loop[s.r].attempt => s.nonce \in refusals
    /\ pc[s.r] # "done" => s.attempt <= loop[s.r].attempt
    /\ pc[s.r] \in Unanswered /\ s.attempt = loop[s.r].attempt => s.nonce = inst[s.r].nonce
DeliveryInv ==
    /\ \A s \in sent : Accounted(s)
    /\ AtMostOneDelivery

\* "avoided for ROUTE_BAN_S": an instance that failed any request less than
\* ROUTE_BAN_S ago (5xx, no connection, no answer, attestation, refused nonce) is
\* picked only when every instance that still has nonces failed as recently.
RecentlyFailed(id) == lastfail[id] # Nil /\ now < lastfail[id] + ROUTE_BAN_S
AvoidedAfterFailure ==
    [][\A r \in Request : (
         /\ Running(r, "take") \/ Running(r, "retake")
         /\ pc'[r] = "guard" /\ RecentlyFailed(inst'[r].instance_id)
         ) =>
             \A p \in eligible(nonce_cache.instances) :
                RecentlyFailed(nonce_cache.instances[p].instance_id)]_vars

\* The bans agree with the failures: what AvoidedAfterFailure rests on.
BanInv ==
    \A i \in Instance :
        /\ cs.banned[i] # 0 => lastfail[i] # Nil /\ cs.banned[i] = lastfail[i] + ROUTE_BAN_S
        /\ RecentlyFailed(i) => cs.banned[i] = lastfail[i] + ROUTE_BAN_S

\* The balanced ring is a set of at most BALANCED_N instances in some order,
\* whatever sequence of picks, absent instances and invalidations made it.
RingOK ==
    /\ cs.ring \in Seq(Instance)
    /\ Len(cs.ring) <= BALANCED_N
    /\ IsInjective(cs.ring)
    /\ cs.ring_pos \in 0..BALANCED_N

\* take_nonce throws an unexpired batch away because "All nonces consumed": so it
\* does in the modes that consider every candidate (the ring of balanced may be
\* full of instances that have no nonce left).
DropOnlyWhenConsumed ==
    [][\A r \in Request : (
         /\ Running(r, "take") \/ Running(r, "retake")
         /\ mode[r] # "balanced"
         /\ nonce_cache # Nil /\ now < nonce_cache.expires_at /\ nonce_cache' = Nil
         ) =>
             eligible(nonce_cache.instances) = {}]_vars

\* Every request that entered the proxy is answered, or is streaming: retries,
\* rejected instances and other requests' invalidations cannot keep it busy.
EventuallyAnswered ==
    \A r \in Request : (pc[r] # "idle") ~> (pc[r] \in {"done", "stream"})
===========================================================================
