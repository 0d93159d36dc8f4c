-------------------------- MODULE RoundTrip_proof --------------------------
(***************************************************************************)
(* Proofs about RoundTrip, for every set of requests and instances, every  *)
(* discovery answer and evidence document, and every bound.                *)
(***************************************************************************)
EXTENDS RoundTrip, SequenceTheorems, Induction, TLAPS

\* What pick promises whatever the mode, the scores and the ring contain: the
\* chosen position is a candidate, and of the bans only those that have run out
\* are forgotten.
LEMMA BalancedResult ==
    ASSUME NEW s, SelectorType(s), NEW instances \in Seq(Entry),
           NEW cands \in SUBSET DOMAIN instances,
           NEW o \in pick_balanced(s, instances, cands)
    PROVE  /\ o.chosen = 0 \/ o.chosen \in cands
           /\ SelectorType(o.cs)
           /\ o.cs.banned = s.banned
PROOF
  BY DEF pick_balanced, find, First, WithRing, SelectorType

\* The same of every mode: a candidate or nothing, and no ban changes.
LEMMA ModeResult ==
    ASSUME NEW s, SelectorType(s), NEW instances \in Seq(Entry),
           NEW cands \in SUBSET DOMAIN instances, NEW m \in RouteModes, NEW sc,
           NEW o \in pick_mode(s, instances, cands, m, sc)
    PROVE  /\ o.chosen = 0 \/ o.chosen \in cands
           /\ SelectorType(o.cs)
           /\ o.cs.banned = s.banned
<1>1. CASE m = "default"
  BY <1>1 DEF pick_mode, First
<1>2. CASE m = "agent"
  <2>1. PICK p \in cands : o = [chosen |-> p, cs |-> WithSticky(s, instances[p].instance_id)]
    BY <1>2 DEF pick_mode, pick_agent, find, First, lowest_score
  <2>2. instances[p] \in Entry
    OBVIOUS
  <2> QED
    BY <2>1, <2>2 DEF SelectorType, WithSticky, Entry
<1>3. CASE m = "balanced"
  BY <1>3, BalancedResult DEF pick_mode
<1>4. CASE m = "performance"
  BY <1>4 DEF pick_mode, pick_performance
<1> QED
  BY <1>1, <1>2, <1>3, <1>4 DEF RouteModes

\* pick chooses among the instances that are not banned unless all are, and forgets
\* no ban that has not lapsed.
LEMMA PickResult ==
    ASSUME NEW s, SelectorType(s), NEW instances \in Seq(Entry), NEW t \in Nat,
           NEW m \in RouteModes, NEW sc,
           NEW o \in pick(s, instances, t, m, sc)
    PROVE  /\ o.chosen = 0 \/ o.chosen \in without_banned(s, instances, eligible(instances), t)
           /\ SelectorType(o.cs)
           /\ \A i \in Instance : o.cs.banned[i] = s.banned[i] \/ (o.cs.banned[i] = 0 /\ s.banned[i] <= t)
<1> DEFINE all == eligible(instances)
           cands == without_banned(s, instances, all, t)
           s1 == lapse_bans(s, instances, all, t)
<1>1. all \in SUBSET DOMAIN instances /\ cands \in SUBSET all
  BY DEF eligible, without_banned, unbanned
<1>2. SelectorType(s1)
  BY DEF lapse_bans, SelectorType
<1>3. \A i \in Instance : s1.banned[i] = s.banned[i] \/ (s1.banned[i] = 0 /\ s.banned[i] <= t)
  BY DEF lapse_bans, SelectorType, unbanned
<1>4. CASE all = {}
  BY <1>4 DEF pick
<1>5. CASE all # {} /\ o \in pick_mode(s1, instances, cands, m, sc)
  <2>1. cands \in SUBSET DOMAIN instances
    BY <1>1
  <2>2. /\ o.chosen = 0 \/ o.chosen \in cands
        /\ SelectorType(o.cs)
        /\ o.cs.banned = s1.banned
    <3> HIDE DEF cands, s1
    <3> QED BY <1>2, <1>5, <2>1, ModeResult
  <2> QED
    BY <2>2, <1>3
<1>6. CASE all # {} /\ \E p \in cands : o = [chosen |-> p, cs |-> s1]
  BY <1>6, <1>2, <1>3
<1> QED
  BY <1>4, <1>5, <1>6 DEF pick, find, First

\* Outside balanced mode pick comes back empty-handed only from a batch in which
\* no instance has a nonce left: bans, pins and stickiness hide none.
LEMMA PickFinds ==
    ASSUME NEW s, NEW instances \in Seq(Entry), NEW t \in Nat,
           NEW m \in RouteModes \ {"balanced"}, NEW sc,
           NEW o \in pick(s, instances, t, m, sc), o.chosen = 0
    PROVE  eligible(instances) = {}
<1> DEFINE all == eligible(instances)
           cands == without_banned(s, instances, all, t)
           s1 == lapse_bans(s, instances, all, t)
<1>1. 0 \notin cands
  BY DEF eligible, without_banned, unbanned
<1>2. CASE \E p \in cands : o = [chosen |-> p, cs |-> s1]
  BY <1>1, <1>2
<1>3. CASE o \in pick_mode(s1, instances, cands, m, sc)
  <2> HIDE DEF cands, s1
  <2>1. \E p \in cands : o.chosen = p
    <3>1. CASE m = "default"
      BY <1>3, <3>1 DEF pick_mode, First
    <3>2. CASE m = "agent"
      BY <1>3, <3>2 DEF pick_mode, pick_agent, find, First, lowest_score
    <3>3. CASE m = "performance"
      BY <1>3, <3>3 DEF pick_mode, pick_performance
    <3> QED
      BY <3>1, <3>2, <3>3 DEF RouteModes
  <2> QED
    BY <1>1, <2>1
<1> QED
  BY <1>2, <1>3 DEF pick, find, First

---------------------------------------------------------------------------
\* Facts about the constants, in the form the proofs use.
LEMMA ConstFacts ==
    /\ Nil \notin Instance /\ Nil \notin Request
    /\ ROUTE_BAN_S \in Nat /\ NONCE_TTL_S \in Nat
    /\ ATTEST_TTL_S \in Nat /\ ATTEST_FAIL_TTL_S \in Nat
    /\ MaxPicks \in Nat \ {0}
    /\ UpstreamStatus \subseteq Nat
    /\ Modes \subseteq RouteModes
    /\ MODE \in {"enforce", "observe", "off"}
BY SelectorAssumption, AttestAssumption, RoundTripAssumption

---------------------------------------------------------------------------
\* The initial tables and locals have their types.
LEMMA InitTypeOK == Init => TypeOK /\ LocalInv
<1> SUFFICES ASSUME Init PROVE TypeOK /\ LocalInv
  OBVIOUS
<1>1. FirstTry \in LoopType
  BY ConstFacts DEF FirstTry, LoopType
<1>2. SelectorType(cs)
  BY DEF Init, chute_state, SelectorType
<1>3. LocalInv
  BY ConstFacts DEF Init, LocalInv, Holding, Unsent, RunningPCs
<1>4. pc \in [Request -> PCs]
  BY DEF Init, PCs
<1> QED
  BY <1>1, <1>2, <1>3, <1>4 DEF Init, TypeOK, CoroutinesOK, TablesOK, HistoryOK

\* invalidate keeps the types of the routing state and of the failure times.
LEMMA InvalidateType ==
    ASSUME TypeOK, NEW id \in Instance, selector_invalidate(id)
    PROVE  SelectorType(cs') /\ lastfail' \in [Instance -> Nat \cup {Nil}]
<1>1. now + ROUTE_BAN_S \in Nat
  BY ConstFacts DEF TypeOK
<1>2. SelectorType(invalidate(cs, id, now))
  BY <1>1 DEF TypeOK, TablesOK, SelectorType, invalidate
<1> QED
  BY <1>2 DEF TypeOK, HistoryOK, selector_invalidate

\* Every way a coroutine moves on.
LEMMA AwaitType ==
    ASSUME CoroutinesOK, NEW r \in Request, NEW at \in PCs,
           Await(r, at) \/ Continue(r, at)
    PROVE  worker' \in Request \cup {Nil} /\ pc' \in [Request -> PCs]
BY DEF CoroutinesOK, Await, Continue

\* Answering clears the locals and keeps every type.
LEMMA AnswerType ==
    ASSUME CoroutinesOK, LocalInv, NEW r \in Request, NEW status, Answer(r, status),
           worker \in {r, Nil}
    PROVE  CoroutinesOK' /\ LocalInv'
<1>1. FirstTry \in LoopType
  BY ConstFacts DEF FirstTry, LoopType
<1>2. LocalInv'
  BY ConstFacts DEF CoroutinesOK, LocalInv, Answer, Await, PCs, Holding, Unsent, RunningPCs
<1>3. pc' \in [Request -> PCs] /\ worker' \in Request \cup {Nil}
  BY AwaitType DEF Answer, PCs
<1> QED
  BY <1>1, <1>2, <1>3 DEF CoroutinesOK, Answer

\* A coroutine between take_nonce and its end has an instance and a nonce.
LEMMA HoldingType ==
    ASSUME CoroutinesOK, LocalInv, NEW r \in Request, pc[r] \in Holding
    PROVE  inst[r] \in InstType
BY DEF CoroutinesOK, LocalInv

\* The two ways take_nonce ends: empty-handed with the batch gone, or with the
\* first nonce of a candidate of the cached batch.
LEMMA TakeCases ==
    ASSUME TypeOK, LocalInv, NEW r \in Request, NEW from \in {"take", "retake"},
           take_nonce(r, from)
    PROVE  /\ mode[r] \in RouteModes /\ worker = r /\ pc[r] = from
           /\ UNCHANGED <<now, verified, failed, history>>
           /\ SelectorType(cs')
           /\ \A i \in Instance : \/ cs'.banned[i] = cs.banned[i]
                                  \/ cs'.banned[i] = 0 /\ cs.banned[i] <= now
           /\ \/ nonce_cache' = Nil /\ NothingTaken(r, from)
              \/ \E c \in without_banned(cs, nonce_cache.instances, eligible(nonce_cache.instances), now) :
                   /\ nonce_cache \in CacheType
                   /\ nonce_cache' = WithoutNonce(nonce_cache, c)
                   /\ Taken(r, nonce_cache.instances[c])
<1>1. mode[r] \in RouteModes /\ worker = r /\ pc[r] = from
  BY DEF take_nonce, Running, LocalInv
<1>2. UNCHANGED <<now, verified, failed, history>>
  BY DEF take_nonce
<1>3. now \in Nat /\ (nonce_cache = Nil \/ nonce_cache \in CacheType) /\ SelectorType(cs)
  BY DEF TypeOK, TablesOK
<1>4. CASE nonce_cache = Nil \/ now >= nonce_cache.expires_at
  <2>1. cs' = cs /\ nonce_cache' = Nil /\ NothingTaken(r, from)
    BY <1>3, <1>4 DEF take_nonce, CacheType
  <2> QED
    BY <1>1, <1>2, <1>3, <2>1
<1>5. CASE nonce_cache # Nil /\ now < nonce_cache.expires_at
  <2> DEFINE End(o) ==
               /\ cs' = o.cs
               /\ \/ o.chosen = 0 /\ nonce_cache' = Nil /\ NothingTaken(r, from)
                  \/ /\ o.chosen # 0
                     /\ nonce_cache' = WithoutNonce(nonce_cache, o.chosen)
                     /\ Taken(r, nonce_cache.instances[o.chosen])
  <2>1. PICK sc \in Scores : \E o \in pick(cs, nonce_cache.instances, now, mode[r], sc) : End(o)
    BY <1>3, <1>5 DEF take_nonce, CacheType
  <2>2. PICK o \in pick(cs, nonce_cache.instances, now, mode[r], sc) : End(o)
    BY <2>1
  <2>3. nonce_cache \in CacheType
    BY <1>3, <1>5
  <2>4. /\ SelectorType(o.cs)
        /\ o.chosen = 0 \/ o.chosen \in without_banned(cs, nonce_cache.instances,
                                           eligible(nonce_cache.instances), now)
        /\ \A i \in Instance : \/ o.cs.banned[i] = cs.banned[i]
                               \/ o.cs.banned[i] = 0 /\ cs.banned[i] <= now
    BY <1>1, <1>3, <2>3, PickResult DEF CacheType
  <2> QED
    BY <1>1, <1>2, <2>2, <2>3, <2>4
<1> QED
  BY <1>3, <1>4, <1>5 DEF CacheType

\* A candidate is an instance of the batch that has nonces.
LEMMA CandidateType ==
    ASSUME TypeOK, nonce_cache \in CacheType,
           NEW c \in without_banned(cs, nonce_cache.instances, eligible(nonce_cache.instances), now)
    PROVE  /\ c \in DOMAIN nonce_cache.instances
           /\ nonce_cache.instances[c] \in Entry
           /\ nonce_cache.instances[c].nonces \in Seq(Nonce) \ {<<>>}
           /\ Head(nonce_cache.instances[c].nonces) \in Nonce
           /\ WithoutNonce(nonce_cache, c) \in CacheType
<1> DEFINE e == nonce_cache.instances[c]
           e2 == [instance_id |-> e.instance_id, e2e_pubkey |-> e.e2e_pubkey, nonces |-> Tail(e.nonces)]
<1>1. c \in DOMAIN nonce_cache.instances /\ e \in Entry /\ e.nonces # <<>>
  BY DEF CacheType, without_banned, unbanned, eligible, has_nonces
<1>2. e.nonces \in Seq(Nonce) /\ Head(e.nonces) \in Nonce /\ Tail(e.nonces) \in Seq(Nonce)
  BY <1>1 DEF Entry
<1>3. e2 \in Entry
  BY <1>1, <1>2 DEF Entry
<1>4. [nonce_cache.instances EXCEPT ![c] = e2] \in Seq(Entry)
  BY <1>1, <1>3 DEF CacheType
<1> QED
  BY <1>1, <1>2, <1>4 DEF WithoutNonce, CacheType

\* A discovery answer becomes a well-typed batch.
LEMMA BatchType ==
    ASSUME NEW shape \in BatchShapes, NEW b \in 1..MaxBatches
    PROVE  Batch(shape, b) \in Seq(Entry)
<1>1. shape \in Seq([instance_id : Instance, e2e_pubkey : Key, n : Nat]) /\ MaxBatches \in Nat
  BY RoundTripAssumption
<1>2. ASSUME NEW p \in DOMAIN shape PROVE Batch(shape, b)[p] \in Entry
  <2>0. DOMAIN shape = 1..Len(shape) /\ Len(shape) \in Nat
    BY <1>1
  <2>1. shape[p] \in [instance_id : Instance, e2e_pubkey : Key, n : Nat] /\ p \in Nat
    <3> DEFINE S == [instance_id : Instance, e2e_pubkey : Key, n : Nat]
    <3>1. p \in 1..Len(shape) /\ p \in Nat
      BY <2>0
    <3>2. shape \in Seq(S)
      BY <1>1
    <3> HIDE DEF S
    <3>3. shape[p] \in S
      BY <3>1, <3>2, ElementOfSeq
    <3> QED
      BY <3>1, <3>3 DEF S
  <2>2. [k \in 1..shape[p].n |-> [b |-> b, p |-> p, k |-> k]] \in Seq(Nonce)
    <3> DEFINE n == shape[p].n
    <3>1. n \in Nat /\ b \in Nat
      BY <1>1, <2>1
    <3>2. \A k \in 1..n : [b |-> b, p |-> p, k |-> k] \in Nonce
      BY <2>1, <3>1 DEF Nonce
    <3>3. [k \in 1..n |-> [b |-> b, p |-> p, k |-> k]] \in [1..n -> Nonce]
      BY <3>2
    <3>4. [1..n -> Nonce] \subseteq Seq(Nonce)
      BY <3>1, SeqDef
    <3> QED
      BY <3>3, <3>4
  <2> QED
    BY <2>1, <2>2 DEF Batch, Entry
<1> QED
  BY <1>1, <1>2 DEF Batch

---------------------------------------------------------------------------
\* Type correctness is preserved by every step; LocalInv supplies the facts on
\* which coroutine runs and which locals are set.
LEMMA TypeStep ==
    ASSUME TypeOK, LocalInv, [Next]_vars
    PROVE  TypeOK' /\ LocalInv'
<1> USE ConstFacts
<1>1. ASSUME NEW r \in Request, Arrive(r) PROVE TypeOK' /\ LocalInv'
  <2>1. CoroutinesOK'
    BY <1>1, AwaitType DEF Arrive, TypeOK, CoroutinesOK, PCs
  <2>2. LocalInv'
    BY <1>1 DEF Arrive, LocalInv, Waiting, Continue, TypeOK, CoroutinesOK, Holding, Unsent, RunningPCs
  <2> QED
    BY <1>1, <2>1, <2>2 DEF Arrive, TypeOK, TablesOK, HistoryOK, shared, history
<1>2. ASSUME NEW r \in Request, NEW status, Answer(r, status), worker \in {r, Nil},
             UNCHANGED <<now, shared, history>>
      PROVE  TypeOK' /\ LocalInv'
  BY <1>2, AnswerType DEF TypeOK, TablesOK, HistoryOK, shared, history
<1>3. ASSUME NEW r \in Request, Refuse(r) \/ FetchFails(r) \/ SealFails(r) \/ OtherForbidden(r)
                                 \/ BodyReturn(r) \/ StreamEnds(r)
      PROVE  TypeOK' /\ LocalInv'
  BY <1>2, <1>3 DEF Refuse, FetchFails, SealFails, OtherForbidden, BodyReturn, StreamEnds,
                    Waiting, Running
<1>4. ASSUME NEW r \in Request, NEW from \in {"take", "retake"}, take_nonce(r, from)
      PROVE  TypeOK' /\ LocalInv'
  <2>1. /\ mode[r] \in RouteModes /\ worker = r /\ pc[r] = from
        /\ UNCHANGED <<now, verified, failed, history>>
        /\ SelectorType(cs')
    BY <1>4, TakeCases
  <2>2. CASE nonce_cache' = Nil /\ NothingTaken(r, from)
    <3>1. CASE from = "take" /\ Await(r, "fetch") /\ UNCHANGED locals
      <4>1. CoroutinesOK'
        BY <3>1, AwaitType DEF TypeOK, CoroutinesOK, PCs, locals
      <4>2. LocalInv'
        BY <2>1, <3>1 DEF LocalInv, Await, TypeOK, CoroutinesOK, Holding, Unsent, RunningPCs, locals
      <4> QED
        BY <2>1, <2>2, <4>1, <4>2 DEF TypeOK, TablesOK, HistoryOK, history
    <3>2. CASE from = "retake" /\ Answer(r, 503)
      <4>1. CoroutinesOK' /\ LocalInv'
        BY <2>1, <3>2, AnswerType DEF TypeOK
      <4> QED
        BY <2>1, <2>2, <4>1 DEF TypeOK, TablesOK, HistoryOK, history
    <3> QED
      BY <2>2, <3>1, <3>2 DEF NothingTaken
  <2>3. ASSUME NEW c \in without_banned(cs, nonce_cache.instances, eligible(nonce_cache.instances), now),
               nonce_cache \in CacheType,
               nonce_cache' = WithoutNonce(nonce_cache, c),
               Taken(r, nonce_cache.instances[c])
        PROVE  TypeOK' /\ LocalInv'
    <3> DEFINE e == nonce_cache.instances[c]
    <3>1. e \in Entry /\ Head(e.nonces) \in Nonce /\ nonce_cache' \in CacheType
      BY <2>3, CandidateType
    <3>2. [instance_id |-> e.instance_id, e2e_pubkey |-> e.e2e_pubkey, nonce |-> Head(e.nonces)] \in InstType
      BY <3>1 DEF Entry, InstType
    <3>3. inst' \in [Request -> InstType \cup {Nil}] /\ inst'[r] # Nil
      BY <2>3, <3>2, NilAssumption DEF Taken, TypeOK, CoroutinesOK
    <3>4. loop' \in [Request -> LoopType]
      BY <2>3 DEF Taken, TypeOK, CoroutinesOK, LoopType
    <3>5. CoroutinesOK'
      BY <2>3, <3>3, <3>4, AwaitType DEF Taken, TypeOK, CoroutinesOK, PCs
    <3>6. LocalInv'
      BY <2>1, <2>3, <3>3 DEF Taken, LocalInv, Continue, TypeOK, CoroutinesOK, Holding, Unsent, RunningPCs
    <3> QED
      BY <2>1, <3>1, <3>5, <3>6 DEF TypeOK, TablesOK, HistoryOK, history
  <2> QED
    BY <1>4, <2>2, <2>3, TakeCases
<1>5. ASSUME NEW r \in Request, FetchReturn(r) PROVE TypeOK' /\ LocalInv'
  <2>1. PICK shape \in BatchShapes, b \in 1..MaxBatches :
          nonce_cache' = [instances |-> Batch(shape, b), expires_at |-> now + NONCE_TTL_S]
    BY <1>5 DEF FetchReturn
  <2>2. Batch(shape, b) \in Seq(Entry)
    BY BatchType
  <2>3. nonce_cache' \in CacheType
    BY <2>1, <2>2 DEF TypeOK, CacheType
  <2>4. CoroutinesOK'
    BY <1>5, AwaitType DEF FetchReturn, TypeOK, CoroutinesOK, PCs, locals
  <2>5. LocalInv'
    BY <1>5 DEF FetchReturn, LocalInv, Waiting, Continue, TypeOK, CoroutinesOK, Holding, Unsent, RunningPCs, locals
  <2> QED
    BY <1>5, <2>3, <2>4, <2>5 DEF FetchReturn, TypeOK, TablesOK, HistoryOK, history
<1>6. ASSUME NEW r \in Request, Guard(r) PROVE TypeOK' /\ LocalInv'
  <2>1. CoroutinesOK'
    BY <1>6, AwaitType DEF Guard, TypeOK, CoroutinesOK, PCs
  <2>2. LocalInv'
    BY <1>6 DEF Guard, LocalInv, Running, Await, Continue, TypeOK, CoroutinesOK, Holding, Unsent, RunningPCs
  <2> QED
    BY <1>6, <2>1, <2>2 DEF Guard, TypeOK, TablesOK, HistoryOK, shared, history
\* VerifyFailed, the common end of a failed verification.
<1>7. ASSUME NEW r \in Request, pc[r] \in {"guard", "evidence"}, worker \in {r, Nil},
             VerifyFailed(r), UNCHANGED <<now, locals, cs, nonce_cache, verified, history>>
      PROVE  TypeOK' /\ LocalInv'
  <2>1. inst[r] \in InstType
    BY <1>7, HoldingType DEF TypeOK, Holding, Unsent
  <2>2. CoroutinesOK'
    BY <1>7, AwaitType DEF VerifyFailed, TypeOK, CoroutinesOK, PCs, locals
  <2>3. LocalInv'
    BY <1>7 DEF VerifyFailed, LocalInv, Continue, TypeOK, CoroutinesOK, Holding, Unsent, RunningPCs, locals
  <2>4. failed' \in [Instance -> VerdictType \cup {Nil}]
    <3>1. [key |-> inst[r].e2e_pubkey, expires_at |-> now + ATTEST_FAIL_TTL_S] \in VerdictType
      BY <2>1 DEF InstType, VerdictType, TypeOK
    <3> QED
      BY <1>7, <3>1 DEF VerifyFailed, TypeOK, TablesOK
  <2> QED
    BY <1>7, <2>2, <2>3, <2>4 DEF TypeOK, TablesOK, HistoryOK, history
<1>8. ASSUME NEW r \in Request, GuardNoEntropy(r) PROVE TypeOK' /\ LocalInv'
  BY <1>7, <1>8 DEF GuardNoEntropy, Running
<1>9. ASSUME NEW r \in Request, EvidenceReturn(r) PROVE TypeOK' /\ LocalInv'
  <2>1. inst[r] \in InstType
    BY <1>9, HoldingType DEF EvidenceReturn, Waiting, TypeOK, Holding, Unsent
  <2>2. CASE VerifyFailed(r) /\ UNCHANGED <<verified, attested>>
    BY <1>7, <1>9, <2>2 DEF EvidenceReturn, Waiting, history
  <2>3. CASE /\ verified' = [verified EXCEPT ![inst[r].instance_id] =
                               [key |-> inst[r].e2e_pubkey, expires_at |-> t0[r] + ATTEST_TTL_S]]
             /\ failed' = [failed EXCEPT ![inst[r].instance_id] = Nil]
             /\ attested' = attested \cup {[instance |-> inst[r].instance_id,
                                            key |-> inst[r].e2e_pubkey, at |-> t0[r], by |-> r]}
             /\ Continue(r, "seal")
    <3>1. CoroutinesOK'
      BY <1>9, <2>3, AwaitType DEF EvidenceReturn, TypeOK, CoroutinesOK, PCs, locals
    <3>2. LocalInv'
      BY <1>9, <2>3 DEF EvidenceReturn, LocalInv, Waiting, Continue, TypeOK, CoroutinesOK, Holding,
                        Unsent, RunningPCs, locals
    <3>3. [key |-> inst[r].e2e_pubkey, expires_at |-> t0[r] + ATTEST_TTL_S] \in VerdictType
      BY <2>1 DEF InstType, VerdictType, TypeOK, CoroutinesOK
    <3>4. attested' \subseteq ProofType
      BY <2>1, <2>3 DEF InstType, ProofType, TypeOK, CoroutinesOK, HistoryOK
    <3>5. /\ verified' \in [Instance -> VerdictType \cup {Nil}]
          /\ failed' \in [Instance -> VerdictType \cup {Nil}]
      BY <2>3, <3>3 DEF TypeOK, TablesOK
    <3> QED
      BY <1>9, <3>1, <3>2, <3>4, <3>5 DEF EvidenceReturn, TypeOK, TablesOK, HistoryOK
  <2> QED
    BY <1>9, <2>2, <2>3 DEF EvidenceReturn
<1>10. ASSUME NEW r \in Request, Reject(r) PROVE TypeOK' /\ LocalInv'
  <2>1. inst[r] \in InstType /\ worker = r /\ pc[r] = "reject"
    BY <1>10, HoldingType DEF Reject, Running, TypeOK, Holding, Unsent
  <2>2. SelectorType(cs') /\ lastfail' \in [Instance -> Nat \cup {Nil}]
    BY <1>10, <2>1, InvalidateType DEF Reject, InstType
  <2>3. CoroutinesOK' /\ LocalInv'
    <3>1. CASE loop[r].pick >= MaxPicks /\ Answer(r, 502)
      BY <2>1, <3>1, AnswerType DEF TypeOK
    <3>2. CASE /\ loop[r].pick < MaxPicks
               /\ loop' = [loop EXCEPT ![r] = [attempt |-> loop[r].attempt, pick |-> loop[r].pick + 1]]
               /\ inst' = [inst EXCEPT ![r] = Nil]
               /\ Continue(r, "take")
               /\ UNCHANGED <<mode, t0, res>>
      <4>1. loop' \in [Request -> LoopType]
        BY <3>2 DEF TypeOK, CoroutinesOK, LoopType
      <4>2. CoroutinesOK'
        BY <3>2, <4>1, AwaitType DEF TypeOK, CoroutinesOK, PCs
      <4>3. mode[r] \in RouteModes
        BY <2>1 DEF LocalInv
      <4>4. LocalInv'
        BY <2>1, <3>2, <4>3 DEF LocalInv, Continue, TypeOK, CoroutinesOK, Holding, Unsent, RunningPCs
      <4> QED
        BY <4>2, <4>4
    <3> QED
      BY <1>10, <3>1, <3>2 DEF Reject
  <2>4. /\ verified' \in [Instance -> VerdictType \cup {Nil}]
        /\ failed' \in [Instance -> VerdictType \cup {Nil}]
    BY <1>10 DEF Reject, TypeOK, TablesOK
  <2> QED
    BY <1>10, <2>2, <2>3, <2>4 DEF Reject, TypeOK, TablesOK, HistoryOK
<1>11. ASSUME NEW r \in Request, Seal(r) PROVE TypeOK' /\ LocalInv'
  <2>1. CoroutinesOK'
    BY <1>11, AwaitType DEF Seal, TypeOK, CoroutinesOK, PCs
  <2>2. LocalInv'
    BY <1>11 DEF Seal, LocalInv, Running, Await, TypeOK, CoroutinesOK, Holding, Unsent, RunningPCs
  <2> QED
    BY <1>11, <2>1, <2>2 DEF Seal, TypeOK, TablesOK, HistoryOK, shared, history
<1>12. ASSUME NEW r \in Request, ConnectReturn(r) PROVE TypeOK' /\ LocalInv'
  <2>1. inst[r] \in InstType
    BY <1>12, HoldingType DEF ConnectReturn, Waiting, TypeOK, Holding, Unsent
  <2>2. [r |-> r, attempt |-> loop[r].attempt, instance |-> inst[r].instance_id,
         key |-> inst[r].e2e_pubkey, nonce |-> inst[r].nonce, sealed |-> t0[r]] \in SentType
    BY <2>1 DEF TypeOK, CoroutinesOK, LoopType, InstType, SentType
  <2>3. CoroutinesOK'
    BY <1>12, AwaitType DEF ConnectReturn, TypeOK, CoroutinesOK, PCs, locals
  <2>4. LocalInv'
    BY <1>12 DEF ConnectReturn, LocalInv, Waiting, Await, TypeOK, CoroutinesOK, Holding, Unsent,
                 RunningPCs, locals
  <2> QED
    BY <1>12, <2>2, <2>3, <2>4 DEF ConnectReturn, TypeOK, TablesOK, HistoryOK, shared
\* The ends that invalidate the instance.
<1>13. ASSUME NEW r \in Request, NEW status, Answer(r, status), worker = Nil, pc[r] \in Holding,
              selector_invalidate(inst[r].instance_id) \/ UNCHANGED <<cs, lastfail>>,
              UNCHANGED <<now, nonce_cache, verified, failed, sent, attested, refusals>>
       PROVE  TypeOK' /\ LocalInv'
  <2>1. inst[r] \in InstType
    BY <1>13, HoldingType DEF TypeOK
  <2>2. SelectorType(cs') /\ lastfail' \in [Instance -> Nat \cup {Nil}]
    BY <1>13, <2>1, InvalidateType DEF InstType, TypeOK, TablesOK, HistoryOK
  <2>3. CoroutinesOK' /\ LocalInv'
    BY <1>13, AnswerType DEF TypeOK
  <2> QED
    BY <1>13, <2>2, <2>3 DEF TypeOK, TablesOK, HistoryOK
<1>14. ASSUME NEW r \in Request, ConnectFails(r) \/ RequestFails(r) \/ ErrBodyReturn(r)
       PROVE  TypeOK' /\ LocalInv'
  BY <1>13, <1>14 DEF ConnectFails, RequestFails, ErrBodyReturn, Waiting, Holding, Unsent
<1>15. ASSUME NEW r \in Request, RequestReturn(r) PROVE TypeOK' /\ LocalInv'
  <2>1. PICK status \in UpstreamStatus :
          \/ /\ status = 403 /\ loop[r].attempt < 2
             /\ Await(r, "body403")
             /\ UNCHANGED res
          \/ /\ ~(status = 403 /\ loop[r].attempt < 2)
             /\ res' = [res EXCEPT ![r] = status]
             /\ Await(r, IF status # 200 THEN "errbody"
                         ELSE IF r \in Streaming THEN "stream" ELSE "body")
    BY <1>15 DEF RequestReturn
  <2>2. status \in Nat /\ status # Nil
    BY <2>1, NilAssumption
  <2>3. PICK at \in {"body403", "errbody", "stream", "body"} : Await(r, at)
    BY <2>1
  <2>4. CoroutinesOK'
    BY <1>15, <2>1, <2>2, <2>3, AwaitType DEF RequestReturn, TypeOK, CoroutinesOK, PCs
  <2>5. loop[r].attempt \in 1..2
    BY DEF TypeOK, CoroutinesOK, LoopType
  <2>6. LocalInv'
    BY <1>15, <2>1, <2>2, <2>5 DEF RequestReturn, LocalInv, Waiting, Await, TypeOK, CoroutinesOK,
                                   Holding, Unsent, RunningPCs
  <2> QED
    BY <1>15, <2>4, <2>6 DEF RequestReturn, TypeOK, TablesOK, HistoryOK, shared, history
<1>16. ASSUME NEW r \in Request, NonceRefused(r) PROVE TypeOK' /\ LocalInv'
  <2>1. inst[r] \in InstType /\ worker = Nil /\ pc[r] = "body403"
    BY <1>16, HoldingType DEF NonceRefused, Waiting, TypeOK, Holding, Unsent
  <2>2. SelectorType(cs') /\ lastfail' \in [Instance -> Nat \cup {Nil}]
    BY <1>16, <2>1, InvalidateType DEF NonceRefused, InstType
  <2>3. loop' \in [Request -> LoopType]
    <3>1. loop[r].attempt = 1
      BY <2>1 DEF LocalInv
    <3> QED
      BY <1>16, <3>1 DEF NonceRefused, TypeOK, CoroutinesOK, LoopType
  <2>4. CoroutinesOK'
    BY <1>16, <2>3, AwaitType DEF NonceRefused, TypeOK, CoroutinesOK, PCs
  <2>5. LocalInv'
    <3>1. mode[r] \in RouteModes
      BY <2>1 DEF LocalInv
    <3> QED
      BY <1>16, <2>1, <3>1 DEF NonceRefused, LocalInv, Continue, TypeOK, CoroutinesOK, Holding,
                               Unsent, RunningPCs
  <2> QED
    BY <1>16, <2>1, <2>2, <2>4, <2>5 DEF NonceRefused, TypeOK, TablesOK, HistoryOK, InstType
<1>17. ASSUME Tick PROVE TypeOK' /\ LocalInv'
  BY <1>17 DEF Tick, TypeOK, CoroutinesOK, TablesOK, HistoryOK, LocalInv, locals, shared, history
<1>18. ASSUME UNCHANGED vars PROVE TypeOK' /\ LocalInv'
  BY <1>18 DEF vars, TypeOK, CoroutinesOK, TablesOK, HistoryOK, LocalInv, locals, shared, history
<1> QED
  BY <1>1, <1>3, <1>4, <1>5, <1>6, <1>8, <1>9, <1>10, <1>11, <1>12, <1>14, <1>15, <1>16, <1>17, <1>18
     DEF Next, Progress, TakeNonce, RetakeNonce, Quiescent

\* The tables, the locals of the coroutines and the histories keep their types,
\* and LocalInv says which coroutine runs and which locals it has set.
THEOREM TypeCorrect == Spec => [](TypeOK /\ LocalInv)
<1>1. TypeOK /\ LocalInv /\ [Next]_vars => TypeOK' /\ LocalInv'
  BY TypeStep
<1> QED
  BY InitTypeOK, <1>1, PTL DEF Spec

---------------------------------------------------------------------------
(* Nonces                                                                  *)

\* A step that takes nothing out of a batch and puts nothing on the wire.
LEMMA NonceStable ==
    ASSUME NonceInv, sent' = sent,
           nonce_cache' \in {nonce_cache, Nil},
           \A r \in Request : inst'[r] \in {inst[r], Nil},
           \A r \in Request : pc'[r] \in Unsent => pc[r] \in Unsent /\ inst'[r] = inst[r]
    PROVE  NonceInv'
<1>1. Pooled' \subseteq Pooled /\ Spent' = Spent
  BY DEF Pooled, Spent
<1>2. PoolDistinct'
  BY DEF NonceInv, PoolDistinct, Distinct
<1> QED
  BY <1>1, <1>2 DEF NonceInv, NonceSingleUse

\* take_nonce moves exactly one nonce from the batch to one coroutine.
LEMMA TakenPool ==
    ASSUME TypeOK, LocalInv, NonceInv, NEW r \in Request, pc[r] \in {"take", "retake"},
           nonce_cache \in CacheType,
           NEW c \in without_banned(cs, nonce_cache.instances, eligible(nonce_cache.instances), now),
           nonce_cache' = WithoutNonce(nonce_cache, c),
           Taken(r, nonce_cache.instances[c])
    PROVE  /\ PoolDistinct'
           /\ \E n \in Pooled :
                /\ Pooled' = Pooled \ {n}
                /\ inst'[r] # Nil /\ inst'[r].nonce = n /\ pc'[r] = "guard"
                /\ \A q \in Request \ {r} : inst'[q] = inst[q] /\ pc'[q] = pc[q]
<1> DEFINE batch == nonce_cache.instances
           ns == batch[c].nonces
           n == Head(ns)
           batch2 == nonce_cache'.instances
<1>1. /\ c \in DOMAIN batch /\ ns \in Seq(Nonce) \ {<<>>}
      /\ nonce_cache' \in CacheType /\ nonce_cache # Nil /\ nonce_cache' # Nil
  BY CandidateType, NilAssumption
<1>2. /\ DOMAIN batch2 = DOMAIN batch
      /\ batch2[c].nonces = Tail(ns)
      /\ \A p \in DOMAIN batch \ {c} : batch2[p] = batch[p]
  BY <1>1 DEF WithoutNonce, CacheType
<1>3. /\ 1 \in DOMAIN ns /\ n = ns[1]
      /\ \A k \in DOMAIN Tail(ns) : k + 1 \in DOMAIN ns /\ k + 1 # 1 /\ Tail(ns)[k] = ns[k + 1] /\ k \in Nat
      /\ \A k \in DOMAIN ns \ {1} : k - 1 \in DOMAIN Tail(ns) /\ Tail(ns)[k - 1] = ns[k]
  BY <1>1
<1>4. n \in Pooled
  BY <1>1, <1>3 DEF Pooled
<1>5. \A p \in DOMAIN batch2 : \A k \in DOMAIN batch2[p].nonces :
         /\ batch2[p].nonces[k] # n
         /\ batch2[p].nonces[k] \in Pooled
  <2> SUFFICES ASSUME NEW p \in DOMAIN batch2, NEW k \in DOMAIN batch2[p].nonces
               PROVE  batch2[p].nonces[k] # n /\ batch2[p].nonces[k] \in Pooled
    OBVIOUS
  <2>1. CASE p = c
    <3>1. batch2[p].nonces[k] = ns[k + 1] /\ k + 1 \in DOMAIN ns /\ k + 1 # 1
      BY <1>2, <1>3, <2>1
    <3> QED
      BY <1>1, <1>3, <3>1 DEF NonceInv, PoolDistinct, Distinct, Pooled
  <2>2. CASE p # c
    <3>1. batch2[p] = batch[p] /\ p \in DOMAIN batch
      BY <1>2, <2>2
    <3> QED
      BY <1>1, <1>3, <2>2, <3>1 DEF NonceInv, PoolDistinct, Distinct, Pooled
  <2> QED
    BY <2>1, <2>2
<1>6. Pooled' \subseteq Pooled \ {n}
  BY <1>1, <1>5 DEF Pooled
<1>7. Pooled \ {n} \subseteq Pooled'
  <2> SUFFICES ASSUME NEW p \in DOMAIN batch, NEW k \in DOMAIN batch[p].nonces,
                      batch[p].nonces[k] # n
               PROVE  batch[p].nonces[k] \in Pooled'
    BY <1>1 DEF Pooled
  <2>1. PICK l \in DOMAIN batch2[p].nonces : batch2[p].nonces[l] = batch[p].nonces[k]
    <3>1. CASE p = c
      BY <1>2, <1>3, <3>1
    <3>2. CASE p # c
      BY <1>2, <3>2
    <3> QED
      BY <3>1, <3>2
  <2> QED
    BY <1>1, <1>2, <2>1 DEF Pooled
<1>8. PoolDistinct'
  <2> SUFFICES ASSUME NEW p \in DOMAIN batch2, NEW q \in DOMAIN batch2,
                      NEW k \in DOMAIN batch2[p].nonces, NEW l \in DOMAIN batch2[q].nonces,
                      batch2[p].nonces[k] = batch2[q].nonces[l]
               PROVE  p = q /\ k = l
    BY DEF PoolDistinct, Distinct
  <2> DEFINE ix(x, y) == IF x = c THEN y + 1 ELSE y
  <2>1. /\ ix(p, k) \in DOMAIN batch[p].nonces
        /\ batch2[p].nonces[k] = batch[p].nonces[ix(p, k)]
    BY <1>2, <1>3
  <2>2. /\ ix(q, l) \in DOMAIN batch[q].nonces
        /\ batch2[q].nonces[l] = batch[q].nonces[ix(q, l)]
    BY <1>2, <1>3
  <2>3. p = q /\ ix(p, k) = ix(q, l)
    <3>1. Distinct(batch)
      BY <1>1 DEF NonceInv, PoolDistinct
    <3>2. p \in DOMAIN batch /\ q \in DOMAIN batch
      BY <1>2
    <3>3. batch[p].nonces[ix(p, k)] = batch[q].nonces[ix(q, l)]
      BY <2>1, <2>2
    <3> HIDE DEF ix, batch, batch2
    <3> QED
      BY <2>1, <2>2, <3>1, <3>2, <3>3 DEF Distinct
  <2>4. p = c => k \in Nat /\ l \in Nat
    BY <1>2, <1>3, <2>3
  <2> QED
    BY <2>3, <2>4
<1>9. /\ inst'[r] # Nil /\ inst'[r].nonce = n /\ pc'[r] = "guard"
      /\ \A q \in Request \ {r} : inst'[q] = inst[q] /\ pc'[q] = pc[q]
  <2>1. batch[c] \in Entry /\ n \in Nonce
    BY CandidateType
  <2>2. [instance_id |-> batch[c].instance_id, e2e_pubkey |-> batch[c].e2e_pubkey, nonce |-> n] \in InstType
    BY <2>1 DEF Entry, InstType
  <2> QED
    BY <2>2, NilAssumption DEF Taken, Continue, TypeOK, CoroutinesOK
<1>10. Pooled' = Pooled \ {n}
  BY <1>6, <1>7
<1> QED
  BY <1>4, <1>8, <1>9, <1>10

\* So the nonces stay apart.
LEMMA NonceTaken ==
    ASSUME TypeOK, LocalInv, NonceInv, NEW r \in Request, pc[r] \in {"take", "retake"},
           nonce_cache \in CacheType,
           NEW c \in without_banned(cs, nonce_cache.instances, eligible(nonce_cache.instances), now),
           nonce_cache' = WithoutNonce(nonce_cache, c),
           Taken(r, nonce_cache.instances[c]), sent' = sent
    PROVE  NonceInv'
<1>1. PICK n \in Pooled :
        /\ Pooled' = Pooled \ {n}
        /\ inst'[r] # Nil /\ inst'[r].nonce = n
        /\ \A q \in Request \ {r} : inst'[q] = inst[q] /\ pc'[q] = pc[q]
  BY TakenPool
<1>2. PoolDistinct'
  BY TakenPool
<1>3. \A q \in Request : inst[q] # Nil => inst[q].nonce # n
  BY DEF NonceInv
<1>4. Spent' = Spent /\ n \notin Spent
  BY DEF NonceInv, Spent
<1>5. \A q \in Request : inst'[q] # Nil => inst'[q].nonce \notin Pooled'
  BY <1>1 DEF NonceInv
<1>6. \A q, x \in Request :
         inst'[q] # Nil /\ inst'[x] # Nil /\ inst'[q].nonce = inst'[x].nonce => q = x
  BY <1>1, <1>3 DEF NonceInv
<1>7. \A q \in Request : pc'[q] \in Unsent => inst'[q].nonce \notin Spent'
  BY <1>1, <1>4 DEF NonceInv
<1>8. \A s \in sent' : s.nonce \notin Pooled'
  BY <1>1 DEF NonceInv
<1> QED
  BY <1>2, <1>5, <1>6, <1>7, <1>8 DEF NonceInv, NonceSingleUse

\* fetch_instances brings only nonces nobody knows yet.
LEMMA FetchedPool ==
    ASSUME TypeOK, LocalInv, NEW r \in Request, FetchReturn(r)
    PROVE  /\ PoolDistinct'
           /\ Pooled' \cap (Pooled \cup Held \cup Spent) = {}
           /\ sent' = sent /\ inst' = inst
           /\ \A q \in Request : pc'[q] \in Unsent <=> pc[q] \in Unsent
<1>1. PICK shape \in BatchShapes, b \in 1..MaxBatches :
        /\ FreshBatch(b)
        /\ nonce_cache' = [instances |-> Batch(shape, b), expires_at |-> now + NONCE_TTL_S]
  BY DEF FetchReturn
<1> DEFINE batch2 == nonce_cache'.instances
<1>2. /\ nonce_cache' # Nil
      /\ \A p \in DOMAIN batch2 : \A k \in DOMAIN batch2[p].nonces :
            /\ batch2[p].nonces[k].b = b
            /\ batch2[p].nonces[k].p = p
            /\ batch2[p].nonces[k].k = k
  <2>1. nonce_cache' \in CacheType
    BY <1>1, BatchType, RoundTripAssumption DEF CacheType, TypeOK
  <2>2. batch2 = Batch(shape, b)
    BY <1>1
  <2>3. DOMAIN batch2 = DOMAIN shape
    BY <2>2 DEF Batch
  <2>4. ASSUME NEW p \in DOMAIN batch2, NEW k \in DOMAIN batch2[p].nonces
        PROVE  /\ batch2[p].nonces[k].b = b
               /\ batch2[p].nonces[k].p = p
               /\ batch2[p].nonces[k].k = k
    <3> DEFINE named == [j \in 1..shape[p].n |-> [b |-> b, p |-> p, k |-> j]]
    <3>1. batch2[p].nonces = named
      <4>1. batch2[p] = [instance_id |-> shape[p].instance_id, e2e_pubkey |-> shape[p].e2e_pubkey,
                         nonces |-> named]
        BY <2>2, <2>3, <2>4, Zenon DEF Batch
      <4> HIDE DEF named, batch2
      <4> QED
        BY <4>1
    <3>2. k \in DOMAIN named
      BY <2>4, <3>1
    <3>3. k \in 1..shape[p].n
      BY <3>2
    <3>4. named[k] = [b |-> b, p |-> p, k |-> k]
      BY <3>3
    <3> HIDE DEF named
    <3>5. batch2[p].nonces[k] = [b |-> b, p |-> p, k |-> k]
      BY <3>1, <3>4
    <3> QED
      BY <3>5
  <2> QED
    BY <2>1, <2>4, NilAssumption
<1> HIDE DEF batch2
<1>3. PoolDistinct'
  <2> SUFFICES ASSUME NEW p \in DOMAIN batch2, NEW q \in DOMAIN batch2,
                      NEW k \in DOMAIN batch2[p].nonces, NEW l \in DOMAIN batch2[q].nonces,
                      batch2[p].nonces[k] = batch2[q].nonces[l]
               PROVE  p = q /\ k = l
    BY DEF PoolDistinct, Distinct, batch2
  <2> QED
    BY <1>2
<1>4. \A n \in Pooled' : n.b = b
  BY <1>2 DEF Pooled, batch2
<1>5. \A n \in Pooled \cup Held \cup Spent : n.b # b
  BY <1>1 DEF FreshBatch
<1>6. sent' = sent /\ inst' = inst /\ \A q \in Request : pc'[q] \in Unsent <=> pc[q] \in Unsent
  BY DEF FetchReturn, Waiting, history, locals, Continue, Unsent, TypeOK, CoroutinesOK
<1> QED
  BY <1>3, <1>4, <1>5, <1>6

\* So they stay apart from the known ones.
LEMMA NonceFetched ==
    ASSUME TypeOK, LocalInv, NonceInv, NEW r \in Request, FetchReturn(r)
    PROVE  NonceInv'
<1>1. \A q \in Request : inst'[q] # Nil => inst'[q].nonce \notin Pooled'
  BY FetchedPool DEF Held
<1>2. \A s \in sent' : s.nonce \notin Pooled'
  BY FetchedPool DEF Spent
<1> QED
  BY <1>1, <1>2, FetchedPool DEF NonceInv, NonceSingleUse, Spent

\* Sending spends the nonce in hand, which nobody had spent.
LEMMA NonceSent ==
    ASSUME TypeOK, LocalInv, NonceInv, NEW r \in Request, ConnectReturn(r)
    PROVE  NonceInv'
<1>1. /\ nonce_cache' = nonce_cache /\ inst' = inst
      /\ pc[r] = "connect" /\ pc' = [pc EXCEPT ![r] = "request"]
  BY DEF ConnectReturn, Waiting, Await, shared, locals
<1> DEFINE new == [r |-> r, attempt |-> loop[r].attempt, instance |-> inst[r].instance_id,
                   key |-> inst[r].e2e_pubkey, nonce |-> inst[r].nonce, sealed |-> t0[r]]
<1>2. sent' = sent \cup {new} /\ new.nonce = inst[r].nonce
  BY DEF ConnectReturn
<1> HIDE DEF new
<1>3. inst[r] # Nil /\ inst[r].nonce \notin Spent /\ inst[r].nonce \notin Pooled
  BY <1>1 DEF NonceInv, LocalInv, Holding, Unsent
<1>4. Pooled' = Pooled /\ PoolDistinct'
  BY <1>1 DEF Pooled, NonceInv, PoolDistinct
<1>5. \A s \in sent : s.nonce # inst[r].nonce
  BY <1>3 DEF Spent
<1>6. NonceSingleUse'
  BY <1>2, <1>5 DEF NonceSingleUse, NonceInv
<1>7. \A q \in Request : pc'[q] \in Unsent => inst'[q].nonce \notin Spent'
  <2> SUFFICES ASSUME NEW q \in Request, pc'[q] \in Unsent PROVE inst'[q].nonce \notin Spent'
    OBVIOUS
  <2>1. q # r /\ pc[q] \in Unsent /\ inst[q] # Nil
    BY <1>1 DEF Unsent, TypeOK, CoroutinesOK, LocalInv, Holding
  <2>2. inst[q].nonce # inst[r].nonce /\ inst[q].nonce \notin Spent
    BY <1>3, <2>1 DEF NonceInv
  <2> QED
    BY <1>1, <1>2, <2>2 DEF Spent
<1> QED
  BY <1>1, <1>2, <1>3, <1>4, <1>6, <1>7 DEF NonceInv

\* The steps that only drop nonces: every action but a successful take_nonce,
\* FetchReturn and ConnectReturn.
LEMMA NonceStep ==
    ASSUME TypeOK, LocalInv, NonceInv, [Next]_vars
    PROVE  NonceInv'
<1> USE DEF TypeOK, CoroutinesOK
<1>1. ASSUME NEW r \in Request, NEW status, Answer(r, status), sent' = sent,
             nonce_cache' \in {nonce_cache, Nil}
      PROVE  NonceInv'
  BY <1>1, NonceStable DEF Answer, Await, Unsent
<1>2. ASSUME NEW r \in Request, NEW at, at \in Unsent => pc[r] \in Unsent,
             Await(r, at) \/ Continue(r, at), inst' = inst, sent' = sent,
             nonce_cache' \in {nonce_cache, Nil}
      PROVE  NonceInv'
  BY <1>2, NonceStable DEF Await, Continue
<1>3. ASSUME NEW r \in Request, Continue(r, "take"), inst' = [inst EXCEPT ![r] = Nil],
             sent' = sent, nonce_cache' \in {nonce_cache, Nil}
      PROVE  NonceInv'
  BY <1>3, NonceStable DEF Continue, Unsent
<1>4. ASSUME NEW r \in Request, NEW from \in {"take", "retake"}, take_nonce(r, from)
      PROVE  NonceInv'
  <2>1. pc[r] = from /\ sent' = sent
    BY <1>4, TakeCases DEF history
  <2>2. CASE nonce_cache' = Nil /\ NothingTaken(r, from)
    BY <1>1, <1>2, <2>1, <2>2 DEF NothingTaken, locals, Unsent
  <2>3. ASSUME NEW c \in without_banned(cs, nonce_cache.instances, eligible(nonce_cache.instances), now),
               nonce_cache \in CacheType,
               nonce_cache' = WithoutNonce(nonce_cache, c),
               Taken(r, nonce_cache.instances[c])
        PROVE  NonceInv'
    BY <2>1, <2>3, NonceTaken
  <2> QED
    BY <1>4, <2>2, <2>3, TakeCases
<1>5. ASSUME NEW r \in Request,
             Arrive(r) \/ Refuse(r) \/ FetchFails(r) \/ StreamEnds(r) \/ BodyReturn(r) \/ OtherForbidden(r)
      PROVE  NonceInv'
  BY <1>1, <1>2, <1>5 DEF Arrive, Refuse, FetchFails, StreamEnds, BodyReturn, OtherForbidden,
                          shared, history, Unsent
<1>6. ASSUME NEW r \in Request, Guard(r) \/ GuardNoEntropy(r) \/ EvidenceReturn(r)
      PROVE  NonceInv'
  BY <1>2, <1>6 DEF Guard, GuardNoEntropy, EvidenceReturn, VerifyFailed, Running, Waiting,
                    shared, history, locals, Unsent
<1>7. ASSUME NEW r \in Request, Reject(r) \/ NonceRefused(r)
      PROVE  NonceInv'
  BY <1>1, <1>3, <1>7 DEF Reject, NonceRefused
<1>8. ASSUME NEW r \in Request, Seal(r) \/ SealFails(r) \/ ConnectFails(r)
      PROVE  NonceInv'
  BY <1>1, <1>2, <1>8 DEF Seal, SealFails, ConnectFails, Running, shared, history, Unsent
<1>9. ASSUME NEW r \in Request, RequestReturn(r) \/ RequestFails(r) \/ ErrBodyReturn(r)
      PROVE  NonceInv'
  BY <1>1, <1>2, <1>9 DEF RequestReturn, RequestFails, ErrBodyReturn, shared, history, Unsent
<1>10. ASSUME Tick \/ UNCHANGED vars PROVE NonceInv'
  BY <1>10, NonceStable DEF Tick, vars, locals, shared, history
<1> QED
  BY <1>4, <1>5, <1>6, <1>7, <1>8, <1>9, <1>10, NonceFetched, NonceSent
     DEF Next, Progress, TakeNonce, RetakeNonce, Quiescent

\* The separation of the nonces is an invariant.
LEMMA NonceCorrect == Spec => []NonceInv
<1>1. Init => NonceInv
  BY DEF Init, NonceInv, PoolDistinct, NonceSingleUse, Unsent
<1>2. TypeOK /\ LocalInv /\ NonceInv /\ [Next]_vars => NonceInv'
  BY NonceStep
<1> QED
  BY <1>1, <1>2, TypeCorrect, PTL DEF Spec

\* No nonce travels twice, however many requests share the batch and however
\* often batches are refreshed and dropped under them.
THEOREM SingleUse == Spec => []NonceSingleUse
<1>1. NonceInv => NonceSingleUse
  BY DEF NonceInv
<1> QED
  BY <1>1, NonceCorrect, PTL

---------------------------------------------------------------------------
(* The ledger                                                              *)

\* The nonces of a batch are nonces.
LEMMA BatchNonces ==
    ASSUME NEW cache \in CacheType, NEW p \in DOMAIN cache.instances,
           NEW k \in DOMAIN cache.instances[p].nonces
    PROVE  cache.instances[p].nonces[k] \in Nonce
<1>1. cache.instances \in Seq(Entry)
  BY DEF CacheType
<1>2. cache.instances[p] \in Entry
  BY <1>1
<1>3. cache.instances[p].nonces \in Seq(Nonce)
  BY <1>2 DEF Entry
<1> QED
  BY <1>3

\* A step of r that puts nothing on the wire and takes nothing out of the batch:
\* r keeps its claim or gives it up.
LEMMA LedgerForget ==
    ASSUME TypeOK, LocalInv, NonceInv, NEW r \in Request, sent' = sent,
           nonce_cache' \in {nonce_cache, Nil},
           \A q \in Request \ {r} : pc'[q] = pc[q] /\ inst'[q] = inst[q],
           pc'[r] \in Unsent => pc[r] \in Unsent /\ inst'[r] = inst[r]
    PROVE  Ledger!Forget
<1>1. Pooled' \in {Pooled, {}} /\ Spent' = Spent
  BY DEF Pooled, Spent
<1>2. \A q \in Request : pc[q] \in Unsent => inst[q] # Nil
  BY DEF LocalInv, Holding
<1>3. CASE pc'[r] \in Unsent \/ pc[r] \notin Unsent
  <2>1. ClaimedNonces' = ClaimedNonces
    BY <1>3 DEF ClaimedNonces
  <2> QED
    BY <1>1, <2>1 DEF Ledger!Forget
<1>4. CASE pc'[r] \notin Unsent /\ pc[r] \in Unsent
  <2>1. inst[r].nonce \in ClaimedNonces
    BY <1>4 DEF ClaimedNonces
  <2>2. \A q \in Request \ {r} : pc[q] \in Unsent => inst[q].nonce # inst[r].nonce
    BY <1>2, <1>4 DEF NonceInv
  <2>3. ClaimedNonces' = ClaimedNonces \ {inst[r].nonce}
    BY <1>4, <2>2 DEF ClaimedNonces
  <2> QED
    BY <1>1, <2>1, <2>3 DEF Ledger!Forget
<1> QED
  BY <1>3, <1>4

\* A successful take_nonce claims.
LEMMA LedgerClaim ==
    ASSUME TypeOK, LocalInv, NonceInv, NEW r \in Request, pc[r] \in {"take", "retake"},
           nonce_cache \in CacheType,
           NEW c \in without_banned(cs, nonce_cache.instances, eligible(nonce_cache.instances), now),
           nonce_cache' = WithoutNonce(nonce_cache, c),
           Taken(r, nonce_cache.instances[c]), sent' = sent
    PROVE  Ledger!Claim
<1>1. PICK n \in Pooled :
        /\ Pooled' = Pooled \ {n}
        /\ inst'[r] # Nil /\ inst'[r].nonce = n /\ pc'[r] = "guard"
        /\ \A q \in Request \ {r} : inst'[q] = inst[q] /\ pc'[q] = pc[q]
  BY TakenPool
<1>2. pc[r] \notin Unsent /\ pc'[r] \in Unsent
  BY <1>1 DEF Unsent
<1>3. ClaimedNonces' = ClaimedNonces \cup {n}
  BY <1>1, <1>2 DEF ClaimedNonces
<1> QED
  BY <1>1, <1>3 DEF Ledger!Claim, Spent

\* A discovery answer refreshes the offer.
LEMMA LedgerRefresh ==
    ASSUME TypeOK, LocalInv, NonceInv, NEW r \in Request, FetchReturn(r)
    PROVE  Ledger!Refresh
<1>1. ClaimedNonces \subseteq Held
  BY DEF ClaimedNonces, Held, LocalInv, Holding
<1>2. ClaimedNonces' = ClaimedNonces /\ Spent' = Spent
  BY FetchedPool DEF ClaimedNonces, Spent
<1>3. Pooled' \subseteq Nonce
  <2>1. nonce_cache' \in CacheType \cup {Nil}
    BY TypeStep DEF Next, Progress, TypeOK, TablesOK
  <2> QED
    BY <2>1, BatchNonces DEF Pooled
<1>4. Pooled' \cap (Pooled \cup ClaimedNonces \cup Spent) = {}
  BY <1>1, FetchedPool
<1> QED
  BY <1>2, <1>3, <1>4 DEF Ledger!Refresh

\* Putting the request on the wire uses the claim.
LEMMA LedgerUse ==
    ASSUME TypeOK, LocalInv, NonceInv, NEW r \in Request, ConnectReturn(r)
    PROVE  Ledger!Use
<1>1. /\ nonce_cache' = nonce_cache /\ inst' = inst
      /\ pc[r] = "connect" /\ pc' = [pc EXCEPT ![r] = "request"]
  BY DEF ConnectReturn, Waiting, Await, shared, locals
<1>2. Pooled' = Pooled
  BY <1>1 DEF Pooled
<1>3. Spent' = Spent \cup {inst[r].nonce}
  <2> DEFINE new == [r |-> r, attempt |-> loop[r].attempt, instance |-> inst[r].instance_id,
                     key |-> inst[r].e2e_pubkey, nonce |-> inst[r].nonce, sealed |-> t0[r]]
  <2>1. sent' = sent \cup {new} /\ new.nonce = inst[r].nonce
    BY DEF ConnectReturn
  <2> HIDE DEF new
  <2> QED
    BY <2>1 DEF Spent
<1>4. \A q \in Request : pc[q] \in Unsent => inst[q] # Nil
  BY DEF LocalInv, Holding
<1>5. pc[r] \in Unsent /\ \A q \in Request : pc'[q] \in Unsent <=> pc[q] \in Unsent /\ q # r
  BY <1>1 DEF Unsent, TypeOK, CoroutinesOK
<1>6. \A q \in Request \ {r} : pc[q] \in Unsent => inst[q].nonce # inst[r].nonce
  BY <1>4, <1>5 DEF NonceInv
<1>7. /\ inst[r].nonce \in ClaimedNonces
      /\ ClaimedNonces' = ClaimedNonces \ {inst[r].nonce}
  BY <1>1, <1>5, <1>6 DEF ClaimedNonces
<1> QED
  BY <1>2, <1>3, <1>7 DEF Ledger!Use

\* Every step is a step of the ledger, or leaves it alone.
LEMMA LedgerStep ==
    ASSUME TypeOK, LocalInv, NonceInv, [Next]_vars
    PROVE  [Ledger!Next]_(Ledger!vars)
<1> USE DEF TypeOK, CoroutinesOK
<1> SUFFICES Ledger!Next \/ UNCHANGED Ledger!vars
  OBVIOUS
<1>1. ASSUME NEW r \in Request, NEW status, Answer(r, status), sent' = sent,
             nonce_cache' \in {nonce_cache, Nil}
      PROVE  Ledger!Forget
  BY <1>1, LedgerForget DEF Answer, Await, Unsent
<1>2. ASSUME NEW r \in Request, NEW at, at \in Unsent => pc[r] \in Unsent,
             Await(r, at) \/ Continue(r, at), inst' = inst, sent' = sent,
             nonce_cache' \in {nonce_cache, Nil}
      PROVE  Ledger!Forget
  BY <1>2, LedgerForget DEF Await, Continue
<1>3. ASSUME NEW r \in Request, Continue(r, "take"), inst' = [inst EXCEPT ![r] = Nil],
             sent' = sent, nonce_cache' \in {nonce_cache, Nil}
      PROVE  Ledger!Forget
  BY <1>3, LedgerForget DEF Continue, Unsent
<1>4. ASSUME NEW r \in Request, NEW from \in {"take", "retake"}, take_nonce(r, from)
      PROVE  Ledger!Claim \/ Ledger!Forget
  <2>1. pc[r] = from /\ sent' = sent
    BY <1>4, TakeCases DEF history
  <2>2. CASE nonce_cache' = Nil /\ NothingTaken(r, from)
    BY <1>1, <1>2, <2>1, <2>2 DEF NothingTaken, locals, Unsent
  <2>3. ASSUME NEW c \in without_banned(cs, nonce_cache.instances, eligible(nonce_cache.instances), now),
               nonce_cache \in CacheType,
               nonce_cache' = WithoutNonce(nonce_cache, c),
               Taken(r, nonce_cache.instances[c])
        PROVE  Ledger!Claim
    BY <2>1, <2>3, LedgerClaim
  <2> QED
    BY <1>4, <2>2, <2>3, TakeCases
<1>5. ASSUME NEW r \in Request,
             Arrive(r) \/ Refuse(r) \/ FetchFails(r) \/ StreamEnds(r) \/ BodyReturn(r) \/ OtherForbidden(r)
      PROVE  Ledger!Forget
  BY <1>1, <1>2, <1>5 DEF Arrive, Refuse, FetchFails, StreamEnds, BodyReturn, OtherForbidden,
                          shared, history, Unsent
<1>6. ASSUME NEW r \in Request, Guard(r) \/ GuardNoEntropy(r) \/ EvidenceReturn(r)
      PROVE  Ledger!Forget
  BY <1>2, <1>6 DEF Guard, GuardNoEntropy, EvidenceReturn, VerifyFailed, Running, Waiting,
                    shared, history, locals, Unsent
<1>7. ASSUME NEW r \in Request, Reject(r) \/ NonceRefused(r)
      PROVE  Ledger!Forget
  BY <1>1, <1>3, <1>7 DEF Reject, NonceRefused
<1>8. ASSUME NEW r \in Request, Seal(r) \/ SealFails(r) \/ ConnectFails(r)
      PROVE  Ledger!Forget
  BY <1>1, <1>2, <1>8 DEF Seal, SealFails, ConnectFails, Running, shared, history, Unsent
<1>9. ASSUME NEW r \in Request, RequestReturn(r) \/ RequestFails(r) \/ ErrBodyReturn(r)
      PROVE  Ledger!Forget
  BY <1>1, <1>2, <1>9 DEF RequestReturn, RequestFails, ErrBodyReturn, shared, history, Unsent
<1>10. ASSUME Tick \/ UNCHANGED vars PROVE UNCHANGED Ledger!vars
  <2>1. UNCHANGED <<nonce_cache, inst, pc, sent>>
    BY <1>10 DEF Tick, vars, locals, shared, history
  <2> QED
    BY <2>1 DEF Ledger!vars, Pooled, ClaimedNonces, Spent
<1> QED
  BY <1>4, <1>5, <1>6, <1>7, <1>8, <1>9, <1>10, LedgerRefresh, LedgerUse
     DEF Next, Progress, TakeNonce, RetakeNonce, Quiescent, Ledger!Next

\* The batch cache and the coroutines' locals implement the ledger: whatever the
\* interleaving, a nonce goes from the batch to one request and from there to
\* the wire once, or is forgotten.
THEOREM ImplementsLedger == Spec => LedgerSpec
<1>1. Init => Ledger!Init
  BY DEF Init, Ledger!Init, Pooled, ClaimedNonces, Spent, Unsent
<1>2. TypeOK /\ LocalInv /\ NonceInv /\ [Next]_vars => [Ledger!Next]_(Ledger!vars)
  BY LedgerStep
<1> QED
  BY <1>1, <1>2, TypeCorrect, NonceCorrect, PTL DEF Spec, LedgerSpec, Ledger!Spec

---------------------------------------------------------------------------
(* Attestation                                                             *)

\* A quote over our nonce from a TD that is not in debug mode names a genuine
\* key, or is a quote without a key and the key was no base64.
LEMMA VerifyGenuine ==
    ASSUME NEW doc \in Evidence, NEW id \in Instance, NEW key \in Key, verify(doc, id, key)
    PROVE  ATTEST_ALLOW_DEBUG_TD \/ key \in GenuineKey \/ key \notin Decodable
<1>1. PICK q \in select_evidence(doc, id) : check_quote(q, key)
  BY DEF verify
<1>2. doc # NoDoc /\ q \in doc_quotes(doc)
  <2>1. doc # NoDoc
    BY DEF verify
  <2>2. select_evidence(doc, id) \subseteq doc_quotes(doc)
    BY DEF select_evidence, doc_quotes, find_quotes
  <2> QED
    BY <2>1, <2>2
<1>3. q.key = key \/ (q.key = NoKey /\ key \notin Decodable)
  BY <1>1 DEF check_quote, bound_strings
<1>4. key # NoKey
  BY AttestAssumption
<1> QED
  BY <1>1, <1>2, <1>3, <1>4, EvidenceAssumption DEF check_quote

\* A step that keeps the verdicts or drops some, sends nothing, and takes no
\* coroutine past guard.
LEMMA AttestStable ==
    ASSUME AttestInv, attested' = attested, sent' = sent,
           \A i \in Instance : verified'[i] \in {verified[i], Nil},
           \A r \in Request : pc'[r] \in {"seal", "connect"} =>
                pc'[r] = pc[r] /\ inst'[r] = inst[r] /\ t0'[r] = t0[r],
           now' = now \/ \A r \in Request : pc'[r] # "seal"
    PROVE  AttestInv'
BY DEF AttestInv, Backed

\* guard lets a coroutine through on a verdict that is about this key and has not
\* expired.
LEMMA AttestGuard ==
    ASSUME TypeOK, LocalInv, AttestInv, NEW r \in Request, Guard(r)
    PROVE  AttestInv'
<1> USE DEF TypeOK, CoroutinesOK
<1>1. CASE ~GuardPasses(r)
  BY <1>1, AttestStable DEF Guard, Await, shared, history
<1>2. CASE GuardPasses(r)
  <2> SUFFICES ASSUME MODE = "enforce" PROVE AttestInv'
    BY DEF AttestInv
  <2>1. inst[r] \in InstType
    BY HoldingType DEF Guard, Running, Holding, Unsent
  <2> DEFINE id == inst[r].instance_id
             key == inst[r].e2e_pubkey
  <2>2. id \in Instance /\ verified[id] # Nil /\ verified[id].key = key /\ now < verified[id].expires_at
    BY <1>2, <2>1 DEF GuardPasses, Current, InstType
  <2>3. Backed(r, id, key, now)
    <3>1. PICK a \in attested :
            a.instance = id /\ a.key = key /\ a.at + ATTEST_TTL_S = verified[id].expires_at
      BY <2>2 DEF AttestInv
    <3>2. a.at \in Nat
      BY DEF HistoryOK, ProofType
    <3> QED
      BY <2>2, <3>1, <3>2, ConstFacts DEF Backed
  <2>4. /\ pc' = [pc EXCEPT ![r] = "seal"]
        /\ UNCHANGED <<now, inst, verified, attested, sent, t0>>
    BY <1>2 DEF Guard, Continue, shared, history
  <2> HIDE DEF id, key
  <2>5. \A q \in Request : pc'[q] = "seal" => Backed(q, inst[q].instance_id, inst[q].e2e_pubkey, now)
    BY <2>3, <2>4 DEF AttestInv, id, key
  <2>6. \A q \in Request : pc'[q] = "connect" => pc[q] = "connect"
    BY <2>4
  <2>7. \A q, i, k, t : Backed(q, i, k, t)' <=> Backed(q, i, k, t)
    BY <2>4 DEF Backed
  <2> QED
    BY <2>4, <2>5, <2>6, <2>7 DEF AttestInv
<1> QED
  BY <1>1, <1>2

\* A verification that succeeds backs the coroutine that made it and the verdict
\* it caches.
LEMMA AttestVerdict ==
    ASSUME TypeOK, LocalInv, AttestInv, NEW r \in Request,
           EvidenceReturn(r) \/ GuardNoEntropy(r)
    PROVE  AttestInv'
<1> USE DEF TypeOK, CoroutinesOK
<1> SUFFICES ASSUME MODE = "enforce" PROVE AttestInv'
  BY DEF AttestInv
<1>1. inst[r] \in InstType
  BY HoldingType DEF EvidenceReturn, GuardNoEntropy, Running, Waiting, Holding, Unsent
<1> DEFINE id == inst[r].instance_id
           key == inst[r].e2e_pubkey
           new == [instance |-> id, key |-> key, at |-> t0[r], by |-> r]
<1>2. id \in Instance /\ key \in Key
  BY <1>1 DEF InstType
<1>3. CASE VerifyFailed(r) /\ UNCHANGED <<now, locals, verified, attested, sent>>
  BY <1>3, AttestStable DEF VerifyFailed, Continue, locals
<1>4. ASSUME NEW doc \in Evidence, verify(doc, id, key),
             verified' = [verified EXCEPT ![id] = [key |-> key, expires_at |-> t0[r] + ATTEST_TTL_S]],
             attested' = attested \cup {new},
             Continue(r, "seal"), UNCHANGED <<now, locals, sent>>
      PROVE  AttestInv'
  <2>1. ATTEST_ALLOW_DEBUG_TD \/ key \in GenuineKey \/ key \notin Decodable
    BY <1>2, <1>4, VerifyGenuine
  <2>2. new \in attested' /\ attested \subseteq attested'
    BY <1>4
  <2>3. new.instance = id /\ new.key = key /\ new.at = t0[r] /\ new.by = r
    OBVIOUS
  <2> HIDE DEF new, id, key
  <2>4. \A q, i, k, t : Backed(q, i, k, t) => Backed(q, i, k, t)'
    BY <2>2 DEF Backed
  <2>5. Backed(r, id, key, now)'
    BY <1>4, <2>2, <2>3 DEF Backed, id, key, locals
  <2>6. \A i \in Instance : verified'[i] # Nil =>
          \E a \in attested' :
             a.instance = i /\ a.key = verified'[i].key /\ a.at + ATTEST_TTL_S = verified'[i].expires_at
    <3> SUFFICES ASSUME NEW i \in Instance, verified'[i] # Nil
                 PROVE  \E a \in attested' : /\ a.instance = i /\ a.key = verified'[i].key
                                             /\ a.at + ATTEST_TTL_S = verified'[i].expires_at
      OBVIOUS
    <3>1. CASE i = id
      BY <1>2, <1>4, <2>2, <2>3, <3>1 DEF TablesOK
    <3>2. CASE i # id
      <4>1. verified'[i] = verified[i]
        BY <1>4, <3>2 DEF TablesOK
      <4> QED
        BY <2>2, <4>1 DEF AttestInv
    <3> QED
      BY <3>1, <3>2
  <2>7. \A a \in attested' : ATTEST_ALLOW_DEBUG_TD \/ a.key \in GenuineKey \/ a.key \notin Decodable
    BY <1>4, <2>1, <2>3 DEF AttestInv
  <2>8. pc' = [pc EXCEPT ![r] = "seal"] /\ UNCHANGED <<now, inst, t0, sent>>
    BY <1>4 DEF Continue, locals
  <2>9. \A q \in Request : pc'[q] = "seal" =>
           Backed(q, inst[q].instance_id, inst[q].e2e_pubkey, now)'
    BY <2>4, <2>5, <2>8 DEF AttestInv, id, key
  <2>10. \A q \in Request : pc'[q] = "connect" => pc[q] = "connect"
    BY <2>8
  <2> QED
    BY <2>4, <2>6, <2>7, <2>8, <2>9, <2>10 DEF AttestInv
<1> QED
  BY <1>3, <1>4 DEF EvidenceReturn, GuardNoEntropy, locals, history

\* Sealing and sending carry the backing of a coroutine over to the request.
LEMMA AttestSealed ==
    ASSUME TypeOK, LocalInv, AttestInv, NEW r \in Request, Seal(r) \/ ConnectReturn(r)
    PROVE  AttestInv'
<1> USE DEF TypeOK, CoroutinesOK
<1> SUFFICES ASSUME MODE = "enforce" PROVE AttestInv'
  BY DEF AttestInv
<1>1. UNCHANGED <<now, inst, verified, attested>>
  BY DEF Seal, ConnectReturn, shared, history, locals
<1>2. \A q, i, k, t : Backed(q, i, k, t)' <=> Backed(q, i, k, t)
  BY <1>1 DEF Backed
<1>3. CASE Seal(r)
  <2>1. /\ pc[r] = "seal" /\ pc' = [pc EXCEPT ![r] = "connect"]
        /\ t0' = [t0 EXCEPT ![r] = now] /\ sent' = sent /\ can_seal(inst[r].e2e_pubkey)
    BY <1>3 DEF Seal, Running, Await, history
  <2>2. \A q \in Request : pc'[q] = "connect" =>
           /\ Backed(q, inst[q].instance_id, inst[q].e2e_pubkey, t0'[q])
           /\ can_seal(inst[q].e2e_pubkey)
    BY <2>1 DEF AttestInv
  <2>3. \A q \in Request : pc'[q] = "seal" => pc[q] = "seal"
    BY <2>1
  <2> QED
    BY <1>1, <1>2, <2>1, <2>2, <2>3 DEF AttestInv
<1>4. CASE ConnectReturn(r)
  <2> DEFINE new == [r |-> r, attempt |-> loop[r].attempt, instance |-> inst[r].instance_id,
                     key |-> inst[r].e2e_pubkey, nonce |-> inst[r].nonce, sealed |-> t0[r]]
  <2>1. /\ pc[r] = "connect" /\ pc' = [pc EXCEPT ![r] = "request"]
        /\ t0' = t0 /\ sent' = sent \cup {new}
    BY <1>4 DEF ConnectReturn, Waiting, Await, locals
  <2>2. /\ new.r = r /\ new.instance = inst[r].instance_id
        /\ new.key = inst[r].e2e_pubkey /\ new.sealed = t0[r]
    OBVIOUS
  <2> HIDE DEF new
  <2>3. \A s \in sent' : Backed(s.r, s.instance, s.key, s.sealed) /\ can_seal(s.key)
    BY <2>1, <2>2 DEF AttestInv
  <2>4. \A q \in Request : pc'[q] \in {"seal", "connect"} => pc'[q] = pc[q]
    BY <2>1
  <2> QED
    BY <1>1, <1>2, <2>1, <2>3, <2>4 DEF AttestInv
<1> QED
  BY <1>3, <1>4

\* Every step preserves AttestInv.
LEMMA AttestStep ==
    ASSUME TypeOK, LocalInv, AttestInv, [Next]_vars
    PROVE  AttestInv'
<1> USE DEF TypeOK, CoroutinesOK
<1> DEFINE Kept == /\ UNCHANGED <<now, sent, attested>>
                   /\ \A i \in Instance : verified'[i] \in {verified[i], Nil}
<1>1. ASSUME NEW r \in Request, NEW at, at \notin {"seal", "connect"},
             Await(r, at) \/ Continue(r, at), Kept,
             \A q \in Request \ {r} : inst'[q] = inst[q] /\ t0'[q] = t0[q]
      PROVE  AttestInv'
  BY <1>1, AttestStable DEF Await, Continue
<1>2. ASSUME NEW r \in Request, NEW status, Answer(r, status), Kept PROVE AttestInv'
  BY <1>1, <1>2 DEF Answer
<1>3. ASSUME NEW r \in Request, NEW from \in {"take", "retake"}, take_nonce(r, from)
      PROVE  AttestInv'
  <2>1. Kept
    BY <1>3 DEF take_nonce, history
  <2>2. CASE NothingTaken(r, from)
    BY <1>1, <1>2, <2>1, <2>2 DEF NothingTaken, locals
  <2>3. ASSUME NEW e, Taken(r, e) PROVE AttestInv'
    BY <1>1, <2>1, <2>3 DEF Taken
  <2> QED
    BY <1>3, <2>2, <2>3, TakeCases
<1>4. ASSUME NEW r \in Request,
             \/ Arrive(r) \/ Refuse(r) \/ FetchReturn(r) \/ FetchFails(r)
             \/ SealFails(r) \/ RequestReturn(r)
             \/ OtherForbidden(r) \/ BodyReturn(r) \/ StreamEnds(r)
      PROVE  AttestInv'
  <2>1. Kept
    BY <1>4 DEF Arrive, Refuse, FetchReturn, FetchFails, SealFails, RequestReturn, OtherForbidden,
                BodyReturn, StreamEnds, shared, history
  <2> HIDE DEF Kept
  <2> QED
    BY <1>1, <1>2, <1>4, <2>1
       DEF Arrive, Refuse, FetchReturn, FetchFails, SealFails, RequestReturn, OtherForbidden,
           BodyReturn, StreamEnds, locals
<1>5. ASSUME NEW r \in Request, ConnectFails(r) \/ RequestFails(r) \/ ErrBodyReturn(r)
      PROVE  AttestInv'
  BY <1>2, <1>5 DEF ConnectFails, RequestFails, ErrBodyReturn
<1>6. ASSUME NEW r \in Request, Reject(r) PROVE AttestInv'
  <2>1. Kept
    BY <1>6 DEF Reject, TablesOK
  <2> QED
    BY <1>1, <1>2, <1>6, <2>1 DEF Reject
<1>7. ASSUME NEW r \in Request, NonceRefused(r) PROVE AttestInv'
  BY <1>1, <1>7 DEF NonceRefused
<1>8. ASSUME Tick PROVE AttestInv'
  <2>1. \A r \in Request : pc[r] # "seal"
    BY <1>8, ConstFacts DEF Tick, LocalInv, RunningPCs
  <2> QED
    BY <1>8, <2>1, AttestStable DEF Tick, locals, shared, history
<1>9. ASSUME UNCHANGED vars PROVE AttestInv'
  BY <1>9, AttestStable DEF vars, locals, shared, history
<1> QED
  BY <1>3, <1>4, <1>5, <1>6, <1>7, <1>8, <1>9, AttestGuard, AttestVerdict, AttestSealed
     DEF Next, Progress, TakeNonce, RetakeNonce, Quiescent

\* Every cached verdict, every coroutine past guard and every sent request is
\* backed by a verification.
LEMMA AttestCorrect == Spec => []AttestInv
<1>1. Init => AttestInv
  BY DEF Init, AttestInv
<1>2. TypeOK /\ LocalInv /\ AttestInv /\ [Next]_vars => AttestInv'
  BY AttestStep
<1> QED
  BY <1>1, <1>2, TypeCorrect, PTL DEF Spec

\* In enforce mode every prompt goes to a key generated in a genuine TD.
THEOREM Attested == Spec => []SealedToGenuineKey
<1>1. AttestInv => SealedToGenuineKey
  BY AttestAssumption DEF AttestInv, SealedToGenuineKey, Backed, can_seal
<1> QED
  BY <1>1, AttestCorrect, PTL

\* In enforce mode the key was verified for that instance, by the request itself
\* or less than ATTEST_TTL_S before it was sealed to.
THEOREM FreshlyAttested == Spec => []AttestationFresh
<1>1. AttestInv => AttestationFresh
  BY DEF AttestInv, AttestationFresh, Backed
<1> QED
  BY <1>1, AttestCorrect, PTL

---------------------------------------------------------------------------
(* Deliveries                                                              *)

\* A step of r that sends nothing and does not move r between attempts.
LEMMA DeliveryStable ==
    ASSUME TypeOK, DeliveryInv, NEW r \in Request, NEW at, at # "idle",
           pc' = [pc EXCEPT ![r] = at],
           \/ at = "done"
           \/ at \in Unanswered \cup {"errbody", "body", "stream"} /\ pc[r] \in Unanswered
           \/ at \notin Unanswered \cup {"errbody", "body", "stream", "done"}
              /\ pc[r] \notin Unanswered \cup {"errbody", "body", "stream", "done"},
           \A q \in Request \ {r} : loop'[q] = loop[q] /\ inst'[q] = inst[q],
           at # "done" => loop'[r].attempt = loop[r].attempt,
           at \in Unanswered => inst'[r] = inst[r],
           sent' = sent, refusals \subseteq refusals'
    PROVE  DeliveryInv'
<1>1. \A q \in Request : pc'[q] = IF q = r THEN at ELSE pc[q]
  BY DEF TypeOK, CoroutinesOK
<1>2. ASSUME NEW s \in sent
      PROVE  Accounted(s)'
  <2>1. s.r \in Request
    BY DEF TypeOK, HistoryOK, SentType
  <2>2. CASE s.r = r
    BY <1>1, <2>1, <2>2 DEF DeliveryInv, Accounted, Unanswered
  <2>3. CASE s.r # r
    BY <1>1, <2>1, <2>3 DEF DeliveryInv, Accounted
  <2> QED
    BY <2>2, <2>3
<1>3. AtMostOneDelivery'
  BY DEF DeliveryInv, AtMostOneDelivery
<1> QED
  BY <1>2, <1>3 DEF DeliveryInv

\* A refused nonce moves the request to its second attempt.
LEMMA DeliveryRetry ==
    ASSUME TypeOK, LocalInv, DeliveryInv, NEW r \in Request, NonceRefused(r)
    PROVE  DeliveryInv'
<1>1. /\ pc[r] = "body403" /\ loop[r].attempt = 1 /\ loop[r] \in LoopType
      /\ \A q \in Request : pc'[q] = IF q = r THEN "take" ELSE pc[q]
      /\ \A q \in Request \ {r} : loop'[q] = loop[q] /\ inst'[q] = inst[q]
      /\ loop'[r].attempt = 2
      /\ sent' = sent /\ refusals' = refusals \cup {inst[r].nonce}
  BY DEF NonceRefused, Waiting, Continue, LocalInv, TypeOK, CoroutinesOK, LoopType
<1>2. ASSUME NEW s \in sent
      PROVE  Accounted(s)'
  <2>1. s.r \in Request /\ s.attempt \in 1..2
    BY DEF TypeOK, HistoryOK, SentType
  <2>2. CASE s.r = r
    <3>1. s.attempt <= 1
      BY <1>1, <2>2 DEF DeliveryInv, Accounted
    <3>2. s.attempt = 1
      BY <2>1, <3>1
    <3>3. s.nonce = inst[r].nonce
      BY <1>1, <2>2, <3>2 DEF DeliveryInv, Accounted, Unanswered
    <3> QED
      BY <1>1, <2>2, <3>2, <3>3 DEF Accounted, Unanswered
  <2>3. CASE s.r # r
    BY <1>1, <2>1, <2>3 DEF DeliveryInv, Accounted
  <2> QED
    BY <2>2, <2>3
<1>3. AtMostOneDelivery'
  BY <1>1 DEF DeliveryInv, AtMostOneDelivery
<1> QED
  BY <1>1, <1>2, <1>3 DEF DeliveryInv

\* A request is sent once per attempt.
LEMMA DeliverySent ==
    ASSUME TypeOK, LocalInv, DeliveryInv, NEW r \in Request, ConnectReturn(r)
    PROVE  DeliveryInv'
<1> DEFINE new == [r |-> r, attempt |-> loop[r].attempt, instance |-> inst[r].instance_id,
                   key |-> inst[r].e2e_pubkey, nonce |-> inst[r].nonce, sealed |-> t0[r]]
<1>1. /\ pc[r] = "connect" /\ loop[r].attempt \in 1..2
      /\ \A q \in Request : pc'[q] = IF q = r THEN "request" ELSE pc[q]
      /\ loop' = loop /\ inst' = inst /\ refusals' = refusals
      /\ sent' = sent \cup {new}
  BY DEF ConnectReturn, Waiting, Await, locals, TypeOK, CoroutinesOK, LoopType
<1>2. new.r = r /\ new.attempt = loop[r].attempt /\ new.nonce = inst[r].nonce
  OBVIOUS
<1> HIDE DEF new
<1>3. \A s \in sent : s.r \in Request /\ s.attempt \in 1..2
  BY DEF TypeOK, HistoryOK, SentType
<1>4. \A s \in sent : s.r = r =>
         s.attempt < loop[r].attempt /\ s.nonce \in refusals
  BY <1>1 DEF DeliveryInv, Accounted, Unanswered
<1>5. ASSUME NEW s \in sent'
      PROVE  Accounted(s)'
  <2>1. CASE s = new
    BY <1>1, <1>2, <2>1 DEF Accounted, Unanswered
  <2>2. CASE s \in sent /\ s.r = r
    BY <1>1, <1>3, <1>4, <2>2 DEF Accounted, Unanswered
  <2>3. CASE s \in sent /\ s.r # r
    BY <1>1, <1>3, <2>3 DEF DeliveryInv, Accounted
  <2> QED
    BY <1>1, <2>1, <2>2, <2>3
<1>6. AtMostOneDelivery'
  <2> SUFFICES ASSUME NEW s1 \in sent', NEW s2 \in sent', s1.r = s2.r, s1 # s2
               PROVE  /\ {s1.attempt, s2.attempt} = {1, 2}
                      /\ s1.attempt = 1 => s1.nonce \in refusals'
    BY DEF AtMostOneDelivery
  <2>1. CASE s1 \in sent /\ s2 \in sent
    BY <1>1, <2>1 DEF DeliveryInv, AtMostOneDelivery
  <2>2. CASE s1 = new /\ s2 \in sent
    <3>1. s2.attempt = 1 /\ s1.attempt = 2
      BY <1>1, <1>2, <1>3, <1>4, <2>2
    <3> QED
      BY <3>1
  <2>3. CASE s2 = new /\ s1 \in sent
    <3>1. s1.attempt = 1 /\ s2.attempt = 2 /\ s1.nonce \in refusals'
      BY <1>1, <1>2, <1>3, <1>4, <2>3
    <3> QED
      BY <3>1
  <2> QED
    BY <1>1, <2>1, <2>2, <2>3
<1> QED
  BY <1>5, <1>6 DEF DeliveryInv

\* Every step preserves DeliveryInv.
LEMMA DeliveryStep ==
    ASSUME TypeOK, LocalInv, DeliveryInv, [Next]_vars
    PROVE  DeliveryInv'
<1> USE DEF TypeOK, CoroutinesOK
<1> DEFINE Before == {"take", "fetch", "retake", "guard", "evidence", "reject", "seal", "connect"}
<1>1. ASSUME NEW r \in Request, NEW status, Answer(r, status), sent' = sent, refusals' = refusals
      PROVE  DeliveryInv'
  BY <1>1, DeliveryStable DEF Answer, Await, Unanswered
<1>2. ASSUME NEW r \in Request, pc[r] \in Before \cup {"idle"}, NEW at \in Before,
             Await(r, at) \/ Continue(r, at),
             \A q \in Request \ {r} : loop'[q] = loop[q] /\ inst'[q] = inst[q],
             loop'[r].attempt = loop[r].attempt, sent' = sent, refusals' = refusals
      PROVE  DeliveryInv'
  BY <1>2, DeliveryStable DEF Await, Continue, Unanswered
<1>3. ASSUME NEW r \in Request, NEW from \in {"take", "retake"}, take_nonce(r, from)
      PROVE  DeliveryInv'
  <2>1. pc[r] \in Before /\ sent' = sent /\ refusals' = refusals
    BY <1>3, TakeCases DEF history
  <2>2. CASE NothingTaken(r, from)
    BY <1>1, <1>2, <2>1, <2>2 DEF NothingTaken, locals
  <2>3. ASSUME NEW e, Taken(r, e) PROVE DeliveryInv'
    <3>1. loop'[r].attempt = loop[r].attempt
      BY <2>3 DEF Taken
    <3> QED
      BY <1>2, <2>1, <2>3, <3>1 DEF Taken
  <2> QED
    BY <1>3, <2>2, <2>3, TakeCases
<1>4. ASSUME NEW r \in Request,
             \/ Arrive(r) \/ FetchReturn(r) \/ Guard(r) \/ GuardNoEntropy(r)
             \/ EvidenceReturn(r) \/ Seal(r)
      PROVE  DeliveryInv'
  <2>1. pc[r] \in Before \cup {"idle"} /\ UNCHANGED <<loop, inst, sent, refusals>>
    BY <1>4 DEF Arrive, FetchReturn, Guard, GuardNoEntropy, EvidenceReturn, Seal,
                Running, Waiting, locals, history
  <2>2. \E at \in Before : Await(r, at) \/ Continue(r, at)
    BY <1>4 DEF Arrive, FetchReturn, Guard, GuardNoEntropy, EvidenceReturn, VerifyFailed, Seal
  <2> QED
    BY <1>2, <2>1, <2>2
<1>5. ASSUME NEW r \in Request,
             \/ Refuse(r) \/ FetchFails(r) \/ SealFails(r) \/ ConnectFails(r) \/ RequestFails(r)
             \/ OtherForbidden(r) \/ ErrBodyReturn(r) \/ BodyReturn(r) \/ StreamEnds(r)
      PROVE  DeliveryInv'
  BY <1>1, <1>5 DEF Refuse, FetchFails, SealFails, ConnectFails, RequestFails, OtherForbidden,
                    ErrBodyReturn, BodyReturn, StreamEnds, history
<1>6. ASSUME NEW r \in Request, Reject(r) PROVE DeliveryInv'
  <2>1. CASE Answer(r, 502)
    BY <1>1, <1>6, <2>1 DEF Reject
  <2>2. CASE ~Answer(r, 502)
    <3>1. /\ loop' = [loop EXCEPT ![r] = [attempt |-> loop[r].attempt, pick |-> loop[r].pick + 1]]
          /\ inst' = [inst EXCEPT ![r] = Nil] /\ Continue(r, "take")
          /\ pc[r] = "reject" /\ sent' = sent /\ refusals' = refusals
      BY <1>6, <2>2 DEF Reject, Running
    <3>2. loop'[r].attempt = loop[r].attempt
      BY <3>1
    <3> QED
      BY <1>2, <3>1, <3>2
  <2> QED
    BY <2>1, <2>2
<1>7. ASSUME NEW r \in Request, RequestReturn(r) PROVE DeliveryInv'
  <2>1. PICK at \in {"body403", "errbody", "stream", "body"} : Await(r, at)
    BY <1>7 DEF RequestReturn
  <2>2. pc[r] = "request" /\ UNCHANGED <<loop, inst, sent, refusals>>
    BY <1>7 DEF RequestReturn, Waiting, history
  <2> QED
    BY <2>1, <2>2, DeliveryStable DEF Await, Unanswered
<1>8. ASSUME Tick \/ UNCHANGED vars PROVE DeliveryInv'
  <2>1. UNCHANGED <<pc, loop, inst, sent, refusals>>
    BY <1>8 DEF Tick, vars, locals, history
  <2> QED
    BY <2>1 DEF DeliveryInv, Accounted, AtMostOneDelivery
<1> QED
  BY <1>3, <1>4, <1>5, <1>6, <1>7, <1>8, DeliveryRetry, DeliverySent
     DEF Next, Progress, TakeNonce, RetakeNonce, Quiescent

\* A prompt is delivered once, or twice when the first nonce was refused.
THEOREM Deliveries == Spec => []AtMostOneDelivery
<1>1. Init => DeliveryInv
  BY DEF Init, DeliveryInv, AtMostOneDelivery
<1>2. TypeOK /\ LocalInv /\ DeliveryInv /\ [Next]_vars => DeliveryInv'
  BY DeliveryStep
<1>3. DeliveryInv => AtMostOneDelivery
  BY DEF DeliveryInv
<1> QED
  BY <1>1, <1>2, <1>3, TypeCorrect, PTL DEF Spec

---------------------------------------------------------------------------
(* Bans                                                                    *)

\* invalidate sets the ban and the failure time together.
LEMMA BanInvalidate ==
    ASSUME TypeOK, BanInv, NEW id \in Instance, selector_invalidate(id), now' = now
    PROVE  BanInv'
<1>1. /\ now \in Nat /\ cs.banned \in [Instance -> Nat]
      /\ cs'.banned = [cs.banned EXCEPT ![id] = now + ROUTE_BAN_S]
      /\ lastfail \in [Instance -> Nat \cup {Nil}]
      /\ lastfail' = [lastfail EXCEPT ![id] = now]
  BY DEF TypeOK, TablesOK, HistoryOK, SelectorType, selector_invalidate, invalidate
<1>2. now # Nil
  BY <1>1, NilAssumption
<1> QED
  BY <1>1, <1>2 DEF BanInv, RecentlyFailed

\* Every step preserves BanInv.
LEMMA BanStep ==
    ASSUME TypeOK, LocalInv, BanInv, [Next]_vars
    PROVE  BanInv'
<1> USE DEF TypeOK, CoroutinesOK
<1>1. CASE UNCHANGED <<cs, lastfail, now>>
  BY <1>1 DEF BanInv, RecentlyFailed
<1>2. ASSUME Tick PROVE BanInv'
  <2>1. UNCHANGED <<cs, lastfail>> /\ now' = now + 1
    BY <1>2 DEF Tick, shared, history
  <2>2. \A i \in Instance : lastfail[i] # Nil => lastfail[i] + ROUTE_BAN_S \in Nat
    BY ConstFacts DEF HistoryOK
  <2> QED
    BY <2>1, <2>2 DEF BanInv, RecentlyFailed
<1>3. ASSUME NEW r \in Request, pc[r] \in Holding, selector_invalidate(inst[r].instance_id), now' = now
      PROVE  BanInv'
  BY <1>3, HoldingType, BanInvalidate DEF InstType
<1>4. ASSUME NEW r \in Request, NEW from \in {"take", "retake"}, take_nonce(r, from)
      PROVE  BanInv'
  <2>1. /\ lastfail' = lastfail /\ now' = now
        /\ \A i \in Instance : \/ cs'.banned[i] = cs.banned[i]
                               \/ cs'.banned[i] = 0 /\ cs.banned[i] <= now
    BY <1>4, TakeCases DEF history
  <2>2. \A i \in Instance : lastfail[i] # Nil => lastfail[i] + ROUTE_BAN_S \in Nat
    BY ConstFacts DEF HistoryOK
  <2> QED
    BY <2>1, <2>2 DEF BanInv, RecentlyFailed
<1>5. ASSUME NEW r \in Request,
             \/ Arrive(r) \/ Refuse(r) \/ FetchReturn(r) \/ FetchFails(r)
             \/ Guard(r) \/ GuardNoEntropy(r) \/ EvidenceReturn(r)
             \/ Seal(r) \/ SealFails(r) \/ ConnectReturn(r) \/ RequestReturn(r)
             \/ OtherForbidden(r) \/ BodyReturn(r) \/ StreamEnds(r)
      PROVE  BanInv'
  BY <1>1, <1>5 DEF Arrive, Refuse, FetchReturn, FetchFails, Guard, GuardNoEntropy, EvidenceReturn,
                    Seal, SealFails, ConnectReturn, RequestReturn, OtherForbidden, BodyReturn,
                    StreamEnds, shared, history
<1>6. ASSUME NEW r \in Request, Reject(r) \/ ConnectFails(r) \/ RequestFails(r) \/ NonceRefused(r)
      PROVE  BanInv'
  BY <1>3, <1>6 DEF Reject, ConnectFails, RequestFails, NonceRefused, Running, Waiting, Holding, Unsent
<1>7. ASSUME NEW r \in Request, ErrBodyReturn(r) PROVE BanInv'
  BY <1>1, <1>3, <1>7 DEF ErrBodyReturn, Waiting, Holding
<1>8. ASSUME UNCHANGED vars PROVE BanInv'
  BY <1>1, <1>8 DEF vars, shared, history
<1> QED
  BY <1>2, <1>4, <1>5, <1>6, <1>7, <1>8 DEF Next, Progress, TakeNonce, RetakeNonce, Quiescent

\* A coroutine in take_nonce runs on: no other coroutine and no clock tick comes
\* between its steps.
LEMMA TakeRuns ==
    ASSUME TypeOK, [Next]_vars, ~UNCHANGED vars, NEW r \in Request,
           Running(r, "take") \/ Running(r, "retake")
    PROVE  \E from \in {"take", "retake"} : take_nonce(r, from)
<1>1. worker = r /\ pc[r] \in {"take", "retake"} /\ worker # Nil
  BY ConstFacts DEF Running
<1>2. \A q \in Request : \A at : ~Waiting(q, at)
  BY <1>1 DEF Waiting
<1>3. ~Tick /\ ~Quiescent
  BY <1>1 DEF Tick, Quiescent, vars
<1>4. PICK q \in Request : Arrive(q) \/ Refuse(q) \/ Progress(q) \/ StreamEnds(q)
  BY <1>3 DEF Next
<1>5. TakeNonce(q) \/ RetakeNonce(q) \/ Guard(q) \/ GuardNoEntropy(q) \/ Reject(q) \/ Seal(q) \/ SealFails(q)
  BY <1>2, <1>4 DEF Progress, Arrive, Refuse, StreamEnds, FetchReturn, FetchFails, EvidenceReturn,
                    ConnectReturn, ConnectFails, RequestReturn, RequestFails, NonceRefused,
                    OtherForbidden, ErrBodyReturn, BodyReturn
<1>6. q = r
  BY <1>1, <1>5 DEF TakeNonce, RetakeNonce, take_nonce, Guard, GuardNoEntropy, Reject, Seal, SealFails, Running
<1> QED
  BY <1>1, <1>5, <1>6 DEF TakeNonce, RetakeNonce, Guard, GuardNoEntropy, Reject, Seal, SealFails, Running

\* What one step of take_nonce may pick.
LEMMA AvoidStep ==
    ASSUME TypeOK, LocalInv, BanInv, [Next]_vars, NEW r \in Request,
           Running(r, "take") \/ Running(r, "retake"),
           pc'[r] = "guard", RecentlyFailed(inst'[r].instance_id)
    PROVE  \A p \in eligible(nonce_cache.instances) :
              RecentlyFailed(nonce_cache.instances[p].instance_id)
<1> USE DEF TypeOK, CoroutinesOK
<1>1. PICK from \in {"take", "retake"} : take_nonce(r, from)
  <2>1. ~UNCHANGED vars
    BY DEF Running, vars
  <2> QED
    BY <2>1, TakeRuns
<1>2. PICK c \in without_banned(cs, nonce_cache.instances, eligible(nonce_cache.instances), now) :
        /\ nonce_cache \in CacheType
        /\ Taken(r, nonce_cache.instances[c])
  <2>1. ~NothingTaken(r, from)
    BY <1>1 DEF NothingTaken, Answer, Await
  <2> QED
    BY <1>1, <2>1, TakeCases
<1> DEFINE batch == nonce_cache.instances
<1>3. inst'[r].instance_id = batch[c].instance_id
  BY <1>2 DEF Taken
<1>4. /\ cs.banned \in [Instance -> Nat] /\ now \in Nat
      /\ \A i \in Instance : lastfail[i] # Nil => lastfail[i] + ROUTE_BAN_S \in Nat
  BY ConstFacts DEF TablesOK, SelectorType, HistoryOK
<1>5. \A i \in Instance : RecentlyFailed(i) <=> now < cs.banned[i]
  BY <1>4 DEF BanInv, RecentlyFailed
<1>6. \A p \in eligible(batch) : batch[p].instance_id \in Instance
  BY DEF eligible
<1>7. c \in eligible(batch)
  BY <1>2 DEF without_banned, unbanned
<1>8. now < cs.banned[batch[c].instance_id]
  BY <1>3, <1>5, <1>6, <1>7
<1>9. unbanned(cs, batch, eligible(batch), now) = {}
  BY <1>2, <1>4, <1>6, <1>7, <1>8 DEF without_banned, unbanned
<1>10. \A p \in eligible(batch) : now < cs.banned[batch[p].instance_id]
  BY <1>4, <1>6, <1>9 DEF unbanned
<1> QED
  BY <1>5, <1>6, <1>10

\* Failover holds across requests: a failed instance is avoided by everybody.
THEOREM Avoided == Spec => AvoidedAfterFailure
<1>1. Init => BanInv
  <2>1. ASSUME Init PROVE BanInv
    BY <2>1 DEF Init, BanInv, RecentlyFailed, chute_state
  <2> QED
    BY <2>1
<1>2. TypeOK /\ LocalInv /\ BanInv /\ [Next]_vars => BanInv'
  BY BanStep
<1>3. TypeOK /\ LocalInv /\ BanInv /\ [Next]_vars =>
        [\A r \in Request : (
           /\ Running(r, "take") \/ Running(r, "retake")
           /\ pc'[r] = "guard" /\ RecentlyFailed(inst'[r].instance_id)
           ) =>
               \A p \in eligible(nonce_cache.instances) :
                  RecentlyFailed(nonce_cache.instances[p].instance_id)]_vars
  BY AvoidStep
<1> QED
  BY <1>1, <1>2, <1>3, TypeCorrect, PTL DEF Spec, AvoidedAfterFailure
---------------------------------------------------------------------------
(* Dropped batches                                                         *)

\* What one step of take_nonce may throw away.
LEMMA DropStep ==
    ASSUME TypeOK, LocalInv, [Next]_vars, NEW r \in Request,
           Running(r, "take") \/ Running(r, "retake"), mode[r] # "balanced",
           nonce_cache # Nil, now < nonce_cache.expires_at, nonce_cache' = Nil
    PROVE  eligible(nonce_cache.instances) = {}
<1>1. ~UNCHANGED vars
  BY DEF vars, shared
<1>2. PICK from \in {"take", "retake"} : take_nonce(r, from)
  BY <1>1, TakeRuns
<1>3. nonce_cache \in CacheType /\ now \in Nat /\ mode[r] \in RouteModes \ {"balanced"}
  BY <1>2, TakeCases DEF TypeOK, TablesOK
<1>4. \E sc \in Scores : \E o \in pick(cs, nonce_cache.instances, now, mode[r], sc) :
         \/ o.chosen = 0
         \/ nonce_cache' = WithoutNonce(nonce_cache, o.chosen)
  BY <1>2, <1>3 DEF take_nonce, CacheType
<1>5. PICK sc \in Scores : \E o \in pick(cs, nonce_cache.instances, now, mode[r], sc) :
         \/ o.chosen = 0
         \/ nonce_cache' = WithoutNonce(nonce_cache, o.chosen)
  BY <1>4
<1>6. PICK o \in pick(cs, nonce_cache.instances, now, mode[r], sc) :
         \/ o.chosen = 0
         \/ nonce_cache' = WithoutNonce(nonce_cache, o.chosen)
  BY <1>5
<1>7. CASE o.chosen = 0
  BY <1>3, <1>7, PickFinds DEF CacheType
<1>8. CASE nonce_cache' = WithoutNonce(nonce_cache, o.chosen) /\ o.chosen # 0
  <2>1. o.chosen \in without_banned(cs, nonce_cache.instances, eligible(nonce_cache.instances), now)
    BY <1>3, <1>8, PickResult DEF CacheType, TypeOK, TablesOK
  <2>2. nonce_cache' \in CacheType
    BY <1>3, <1>8, <2>1, CandidateType
  <2> QED
    BY <2>2, NilAssumption
<1> QED
  BY <1>6, <1>7, <1>8

\* Outside balanced mode an unexpired batch is thrown away only when every nonce
\* of it has been consumed.
THEOREM DroppedConsumed == Spec => DropOnlyWhenConsumed
<1>1. TypeOK /\ LocalInv /\ [Next]_vars =>
        [\A r \in Request : (
           /\ Running(r, "take") \/ Running(r, "retake")
           /\ mode[r] # "balanced"
           /\ nonce_cache # Nil /\ now < nonce_cache.expires_at /\ nonce_cache' = Nil
           ) =>
               eligible(nonce_cache.instances) = {}]_vars
  BY DropStep
<1> QED
  BY <1>1, TypeCorrect, PTL DEF Spec, DropOnlyWhenConsumed
---------------------------------------------------------------------------
(* The ring                                                                *)

Rings == {ring \in Seq(Instance) : Len(ring) <= BALANCED_N /\ IsInjective(ring)}

\* The turns of the loop behind kept, one by one.
LEMMA KeptLoop ==
    ASSUME NEW ring \in Seq(Instance), NEW ids
    PROVE  \E out : /\ out = [k \in 0..Len(ring) |->
                               IF k = 0 THEN <<>>
                               ELSE IF ring[k] \in ids THEN Append(out[k - 1], ring[k]) ELSE out[k - 1]]
                    /\ kept(ring, ids) = out[Len(ring)]
<1> DEFINE N == Len(ring)
           S == Seq(Instance)
           none == <<>>
           Turn(x, k) == IF ring[k] \in ids THEN Append(x, ring[k]) ELSE x
           Body(f) == [k \in 0..N |-> IF k = 0 THEN none ELSE Turn(f[k - 1], k)]
           G == [k \in 1..N |-> [x \in S |-> Turn(x, k)]]
<1>1. \A k \in 1..N : \A x \in S : Turn(x, k) \in S
  OBVIOUS
<1>2. N \in Nat /\ none \in S
  OBVIOUS
<1> HIDE DEF N, S, Turn, none
<1>3. G \in [1..N -> [S -> S]]
  BY <1>1
<1>4. PICK f \in [0..N -> S] : IsLoop(f, none, N, G)
  <2> HIDE DEF G
  <2> QED
    BY <1>2, <1>3, LoopValues
<1>5. f = Body(f)
  <2>1. \A k \in 1..N : f[k - 1] \in S
    BY <1>2
  <2>2. f[0] = none /\ \A k \in 1..N : f[k] = Turn(f[k - 1], k)
    BY <1>4, <2>1 DEF IsLoop
  <2> QED
    BY <1>2, <2>2
<1> DEFINE out == CHOOSE g : g = Body(g)
<1>6. out = Body(out)
  <2> HIDE DEF Body
  <2> QED
    BY <1>5
<1>7. kept(ring, ids) = out[N]
  BY DEF kept, N, Turn, none
<1> HIDE DEF out
<1> QED
  BY <1>6, <1>7 DEF N, Turn, none

\* Pruning a ring leaves a ring.
LEMMA KeptRing ==
    ASSUME NEW ring \in Rings, NEW ids
    PROVE  kept(ring, ids) \in Rings
<1>1. ring \in Seq(Instance) /\ Len(ring) \in Nat /\ Len(ring) <= BALANCED_N /\ IsInjective(ring)
  BY DEF Rings
<1>2. PICK out : /\ out = [k \in 0..Len(ring) |->
                             IF k = 0 THEN <<>>
                             ELSE IF ring[k] \in ids THEN Append(out[k - 1], ring[k]) ELSE out[k - 1]]
                 /\ kept(ring, ids) = out[Len(ring)]
  BY <1>1, KeptLoop
<1>3. /\ out[0] = <<>>
      /\ \A k \in 1..Len(ring) :
           out[k] = IF ring[k] \in ids THEN Append(out[k - 1], ring[k]) ELSE out[k - 1]
  <2>1. 0 \in 0..Len(ring) /\ \A k \in 1..Len(ring) : k \in 0..Len(ring) /\ k # 0
    BY <1>1
  <2> QED
    BY <1>2, <2>1
<1> DEFINE Good(k) == /\ out[k] \in Seq(Instance)
                      /\ Len(out[k]) <= k
                      /\ \A i, j \in 1..Len(out[k]) : out[k][i] = out[k][j] => i = j
                      /\ \A i \in 1..Len(out[k]) : \E j \in 1..k : out[k][i] = ring[j]
           Turned == {k \in Nat : k <= Len(ring) => Good(k)}
<1>4. 0 \in Turned
  <2>1. out[0] \in Seq(Instance) /\ Len(out[0]) = 0
    BY <1>3
  <2> QED
    BY <2>1
<1>5. ASSUME NEW k \in Nat, k \in Turned PROVE k + 1 \in Turned
  <2> SUFFICES ASSUME k + 1 <= Len(ring) PROVE Good(k + 1)
    OBVIOUS
  <2>1. Good(k) /\ k + 1 \in 1..Len(ring)
    BY <1>1, <1>5
  <2>2. CASE ring[k + 1] \notin ids
    <3>1. out[k + 1] = out[k]
      BY <1>3, <2>1, <2>2
    <3>2. \A i \in 1..Len(out[k]) : \E j \in 1..(k + 1) : out[k][i] = ring[j]
      <4> SUFFICES ASSUME NEW i \in 1..Len(out[k]) PROVE \E j \in 1..(k + 1) : out[k][i] = ring[j]
        OBVIOUS
      <4>1. PICK j \in 1..k : out[k][i] = ring[j]
        BY <2>1
      <4> QED
        BY <4>1
    <3>3. Len(out[k]) <= k + 1
      <4>1. Len(out[k]) \in Nat /\ Len(out[k]) <= k
        BY <2>1
      <4> QED
        BY <4>1
    <3> QED
      BY <2>1, <3>1, <3>2, <3>3
  <2>3. CASE ring[k + 1] \in ids
    <3> DEFINE a == out[k]
               b == out[k + 1]
    <3>0. ring[k + 1] \in Instance /\ (k + 1) - 1 = k
      BY <1>1, <2>1
    <3>1. b = Append(a, ring[k + 1])
      <4>1. out[k + 1] = Append(out[(k + 1) - 1], ring[k + 1])
        BY <1>3, <2>1, <2>3, Zenon
      <4> QED
        BY <3>0, <4>1, Zenon
    <3>2. a \in Seq(Instance) /\ Len(a) <= k
      BY <2>1
    <3>3. /\ b \in Seq(Instance) /\ Len(b) = Len(a) + 1
          /\ b[Len(a) + 1] = ring[k + 1]
          /\ \A i \in 1..Len(a) : b[i] = a[i]
      BY <3>0, <3>1, <3>2
    <3>4. \A i \in 1..Len(a) : a[i] # ring[k + 1]
      <4> SUFFICES ASSUME NEW i \in 1..Len(a), a[i] = ring[k + 1] PROVE FALSE
        OBVIOUS
      <4>1. PICK j \in 1..k : a[i] = ring[j]
        BY <2>1
      <4>2. j \in DOMAIN ring /\ k + 1 \in DOMAIN ring /\ j # k + 1
        BY <1>1, <2>1
      <4> QED
        BY <1>1, <4>1, <4>2 DEF IsInjective
    <3> HIDE DEF a, b
    <3>5. \A i, j \in 1..Len(b) : b[i] = b[j] => i = j
      <4> SUFFICES ASSUME NEW i \in 1..Len(b), NEW j \in 1..Len(b), b[i] = b[j] PROVE i = j
        OBVIOUS
      <4>1. \A x \in 1..Len(b) : x \in 1..Len(a) \/ x = Len(a) + 1
        BY <3>2, <3>3
      <4>2. \A x, y \in 1..Len(a) : a[x] = a[y] => x = y
        BY <2>1 DEF a
      <4> QED
        BY <3>3, <3>4, <4>1, <4>2
    <3>6. \A i \in 1..Len(b) : \E j \in 1..(k + 1) : b[i] = ring[j]
      <4> SUFFICES ASSUME NEW i \in 1..Len(b) PROVE \E j \in 1..(k + 1) : b[i] = ring[j]
        OBVIOUS
      <4>1. CASE i = Len(a) + 1
        BY <3>3, <4>1
      <4>2. CASE i \in 1..Len(a)
        <5>1. PICK j \in 1..k : a[i] = ring[j]
          BY <2>1, <4>2 DEF a
        <5> QED
          BY <3>3, <4>2, <5>1
      <4> QED
        BY <3>2, <3>3, <4>1, <4>2
    <3>7. Len(b) <= k + 1
      BY <3>2, <3>3
    <3> QED
      BY <3>3, <3>5, <3>6, <3>7 DEF b
  <2> QED
    BY <2>2, <2>3
<1>6. Len(ring) \in Turned
  <2> HIDE DEF Turned
  <2> QED
    BY <1>1, <1>4, <1>5, SetInduction
<1>7. Good(Len(ring))
  BY <1>1, <1>6
<1> DEFINE last == out[Len(ring)]
<1>8. /\ last \in Seq(Instance) /\ Len(last) <= Len(ring)
      /\ \A i, j \in 1..Len(last) : last[i] = last[j] => i = j
  BY <1>7
<1> HIDE DEF last
<1>9. last \in Rings
  BY <1>1, <1>8, SelectorAssumption DEF Rings, IsInjective
<1> QED
  BY <1>2, <1>9 DEF last

\* Filling a ring leaves a ring.
LEMMA FilledRing ==
    ASSUME NEW ring \in Rings, NEW instances \in Seq(Entry), NEW cands
    PROVE  fill_ring(ring, instances, cands) \in Rings
<1> DEFINE N == Len(instances)
           S == Rings
           Turn(x, p) == IF p \in cands THEN Join(x, instances[p].instance_id) ELSE x
           Body(f) == [p \in 0..N |-> IF p = 0 THEN ring ELSE Turn(f[p - 1], p)]
           G == [p \in 1..N |-> [x \in S |-> Turn(x, p)]]
<1>1. ASSUME NEW p \in 1..N, NEW x \in S PROVE Turn(x, p) \in S
  <2> DEFINE id == instances[p].instance_id
  <2>1. id \in Instance
    <3>1. instances[p] \in Entry
      BY ElementOfSeq
    <3> QED
      BY <3>1 DEF Entry
  <2>2. x \in Seq(Instance) /\ Len(x) <= BALANCED_N /\ IsInjective(x) /\ BALANCED_N \in Nat
    BY SelectorAssumption DEF Rings
  <2> HIDE DEF id
  <2>3. ASSUME Len(x) < BALANCED_N, \A k \in DOMAIN x : x[k] # id
        PROVE  Append(x, id) \in Rings
    <3> DEFINE b == Append(x, id)
    <3>1. /\ b \in Seq(Instance) /\ Len(b) = Len(x) + 1 /\ b[Len(x) + 1] = id
          /\ \A i \in 1..Len(x) : b[i] = x[i]
          /\ DOMAIN x = 1..Len(x) /\ Len(x) \in Nat
      BY <2>1, <2>2
    <3> HIDE DEF b
    <3>2. DOMAIN b = 1..Len(b)
      BY <3>1
    <3>3. \A i \in 1..Len(b) : i \in 1..Len(x) \/ i = Len(x) + 1
      BY <3>1
    <3>4. ASSUME NEW i \in 1..Len(b), NEW j \in 1..Len(b), b[i] = b[j] PROVE i = j
      BY <2>2, <2>3, <3>1, <3>3, <3>4 DEF IsInjective
    <3>5. IsInjective(b)
      BY <3>2, <3>4 DEF IsInjective
    <3>6. Len(b) <= BALANCED_N
      BY <2>2, <2>3, <3>1
    <3>7. b \in Rings
      BY <3>1, <3>5, <3>6 DEF Rings
    <3> QED
      BY <3>7 DEF b
  <2> QED
    BY <2>3 DEF Join, id
<1>2. N \in Nat /\ ring \in S
  OBVIOUS
<1> HIDE DEF N, S, Turn
<1>3. G \in [1..N -> [S -> S]]
  BY <1>1
<1>4. PICK f \in [0..N -> S] : IsLoop(f, ring, N, G)
  <2> HIDE DEF G
  <2> QED
    BY <1>2, <1>3, LoopValues
<1>5. f = Body(f)
  <2>1. \A k \in 1..N : f[k - 1] \in S
    BY <1>2
  <2>2. f[0] = ring /\ \A k \in 1..N : f[k] = Turn(f[k - 1], k)
    BY <1>4, <2>1 DEF IsLoop
  <2> QED
    BY <1>2, <2>2
<1> DEFINE out == CHOOSE g : g = Body(g)
<1>6. out = Body(out)
  <2> HIDE DEF Body
  <2> QED
    BY <1>5
<1>7. fill_ring(ring, instances, cands) = out[N]
  BY DEF fill_ring, N, Turn
<1> HIDE DEF out
<1> DEFINE Turned == {k \in Nat : k <= N => out[k] \in S}
<1>8. 0 \in Turned
  BY <1>2, <1>6
<1>9. ASSUME NEW k \in Nat, k \in Turned PROVE k + 1 \in Turned
  BY <1>1, <1>2, <1>6, <1>9
<1>10. N \in Turned
  <2> HIDE DEF Turned
  <2> QED
    BY <1>2, <1>8, <1>9, SetInduction
<1> QED
  BY <1>2, <1>7, <1>10 DEF S

RingState(s) == s.ring \in Rings /\ s.ring_pos \in 0..BALANCED_N

\* The round robin of balanced mode stays on the ring.
LEMMA BalancedRing ==
    ASSUME NEW s, RingState(s), NEW instances \in Seq(Entry), NEW cands,
           NEW o \in pick_balanced(s, instances, cands)
    PROVE  RingState(o.cs)
<1> DEFINE ring == fill_ring(prune_ring(s.ring, instances), instances, cands)
           Idx(step) == ((s.ring_pos + step - 1) % Len(ring)) + 1
<1>1. ring \in Rings
  BY KeptRing, FilledRing DEF RingState, prune_ring
<1>2. BALANCED_N \in Nat /\ Len(ring) \in Nat /\ Len(ring) <= BALANCED_N /\ s.ring_pos \in Nat
  <2> HIDE DEF ring
  <2> QED
    BY <1>1, SelectorAssumption DEF Rings, RingState
<1>3. \E pos : /\ o.cs = WithRing(s, ring, pos)
               /\ pos = s.ring_pos \/ \E step \in 1..Len(ring) : pos = Idx(step)
  <2> DEFINE Hit(step) == find(instances, cands, ring[Idx(step)])
             hits == {step \in 1..Len(ring) : Hit(step) # {}}
  <2>1. o \in IF hits = {}
              THEN {[chosen |-> 0, cs |-> WithRing(s, ring, s.ring_pos)]}
              ELSE UNION {{[chosen |-> p, cs |-> WithRing(s, ring, Idx(step))] : p \in Hit(step)}
                          : step \in First(hits)}
    BY DEF pick_balanced
  <2> HIDE DEF ring, Hit, Idx
  <2>2. First(hits) \subseteq 1..Len(ring)
    BY DEF First
  <2> HIDE DEF hits
  <2>3. CASE hits = {}
    BY <2>1, <2>3
  <2>4. CASE hits # {}
    <3>1. PICK step \in First(hits) :
             o \in {[chosen |-> p, cs |-> WithRing(s, ring, Idx(step))] : p \in Hit(step)}
      BY <2>1, <2>4
    <3> QED
      BY <2>2, <3>1
  <2> QED
    BY <2>3, <2>4
<1> HIDE DEF ring
<1>4. \A step \in 1..Len(ring) : Idx(step) \in 0..BALANCED_N
  <2> SUFFICES ASSUME NEW step \in 1..Len(ring) PROVE Idx(step) \in 0..BALANCED_N
    OBVIOUS
  <2> DEFINE n == Len(ring)
             x == s.ring_pos + step - 1
  <2>1. n \in Nat /\ n > 0 /\ x \in Nat /\ n <= BALANCED_N
    BY <1>2
  <2> HIDE DEF n, x
  <2>2. x % n \in 0..(n - 1)
    BY <2>1
  <2>3. (x % n) + 1 \in 0..BALANCED_N
    BY <1>2, <2>1, <2>2
  <2> QED
    BY <2>3 DEF n, x
<1>5. \A pos : WithRing(s, ring, pos).ring = ring /\ WithRing(s, ring, pos).ring_pos = pos
  BY DEF WithRing
<1> QED
  BY <1>1, <1>3, <1>4, <1>5 DEF RingState

\* Whatever the mode, pick keeps the ring a ring.
LEMMA PickRing ==
    ASSUME NEW s, RingState(s), NEW instances \in Seq(Entry), NEW t \in Nat,
           NEW m \in RouteModes, NEW sc,
           NEW o \in pick(s, instances, t, m, sc)
    PROVE  RingState(o.cs)
<1> DEFINE all == eligible(instances)
           cands == without_banned(s, instances, all, t)
           s1 == lapse_bans(s, instances, all, t)
<1>1. RingState(s1)
  BY DEF lapse_bans, RingState
<1>2. \/ o.cs = s \/ o.cs = s1 \/ o \in pick_mode(s1, instances, cands, m, sc)
  BY DEF pick
<1>3. ASSUME o \in pick_mode(s1, instances, cands, m, sc) PROVE RingState(o.cs)
  <2> HIDE DEF cands, s1
  <2>1. CASE m \in {"default", "performance"}
    <3>1. o.cs = s1
      BY <1>3, <2>1 DEF pick_mode
    <3> QED
      BY <1>1, <3>1
  <2>2. CASE m = "agent"
    <3>1. \E p : o.cs = WithSticky(s1, instances[p].instance_id)
      BY <1>3, <2>2 DEF pick_mode, pick_agent
    <3> QED
      BY <1>1, <3>1 DEF WithSticky, RingState
  <2>3. CASE m = "balanced"
    <3>1. o \in pick_balanced(s1, instances, cands)
      BY <1>3, <2>3 DEF pick_mode
    <3> QED
      BY <1>1, <3>1, BalancedRing
  <2> QED
    BY <2>1, <2>2, <2>3 DEF RouteModes
<1> QED
  BY <1>1, <1>2, <1>3

\* invalidate takes the instance off the ring.
LEMMA InvalidateRing ==
    ASSUME NEW s, RingState(s), NEW id, NEW t
    PROVE  RingState(invalidate(s, id, t))
<1> DEFINE left == kept(s.ring, Instance \ {id})
<1>1. left \in Rings
  BY KeptRing DEF RingState
<1>2. invalidate(s, id, t).ring = left /\ invalidate(s, id, t).ring_pos \in {0, s.ring_pos}
  BY DEF invalidate
<1> HIDE DEF left
<1> QED
  BY <1>1, <1>2, SelectorAssumption DEF RingState

\* Every step preserves the ring.
LEMMA RingStep ==
    ASSUME TypeOK, LocalInv, RingState(cs), [Next]_vars
    PROVE  RingState(cs')
<1>1. CASE cs' = cs
  BY <1>1
<1>2. ASSUME NEW id, selector_invalidate(id) PROVE RingState(cs')
  BY <1>2, InvalidateRing DEF selector_invalidate
<1>3. ASSUME NEW r \in Request, NEW from \in {"take", "retake"}, take_nonce(r, from)
      PROVE  RingState(cs')
  <2>1. now \in Nat /\ mode[r] \in RouteModes
    BY <1>3, TakeCases DEF TypeOK
  <2>2. CASE nonce_cache # Nil /\ \E sc \in Scores :
               \E o \in pick(cs, nonce_cache.instances, now, mode[r], sc) : cs' = o.cs
    <3>1. nonce_cache.instances \in Seq(Entry)
      BY <2>2 DEF TypeOK, TablesOK, CacheType
    <3> QED
      BY <2>1, <2>2, <3>1, PickRing
  <2> QED
    BY <1>1, <1>3, <2>2 DEF take_nonce
<1>4. ASSUME NEW r \in Request,
             \/ Arrive(r) \/ Refuse(r) \/ FetchReturn(r) \/ FetchFails(r)
             \/ Guard(r) \/ GuardNoEntropy(r) \/ EvidenceReturn(r)
             \/ Seal(r) \/ SealFails(r) \/ ConnectReturn(r) \/ RequestReturn(r)
             \/ OtherForbidden(r) \/ BodyReturn(r) \/ StreamEnds(r)
      PROVE  RingState(cs')
  BY <1>1, <1>4 DEF Arrive, Refuse, FetchReturn, FetchFails, Guard, GuardNoEntropy, EvidenceReturn,
                    Seal, SealFails, ConnectReturn, RequestReturn, OtherForbidden, BodyReturn,
                    StreamEnds, shared
<1>5. ASSUME NEW r \in Request,
             Reject(r) \/ ConnectFails(r) \/ RequestFails(r) \/ NonceRefused(r) \/ ErrBodyReturn(r)
      PROVE  RingState(cs')
  BY <1>1, <1>2, <1>5 DEF Reject, ConnectFails, RequestFails, NonceRefused, ErrBodyReturn
<1>6. ASSUME Tick \/ UNCHANGED vars PROVE RingState(cs')
  BY <1>1, <1>6 DEF Tick, vars, shared
<1> QED
  BY <1>3, <1>4, <1>5, <1>6 DEF Next, Progress, TakeNonce, RetakeNonce, Quiescent

\* The ring of balanced mode stays a list of at most BALANCED_N distinct instances
\* with ring_pos on it or at 0, through any sequence of picks in any mode, batches
\* that lack members of the ring, and invalidations.
THEOREM RingWellFormed == Spec => []RingOK
<1>1. Init => RingState(cs)
  <2> SUFFICES ASSUME Init PROVE RingState(cs)
    OBVIOUS
  <2>1. cs.ring = <<>> /\ cs.ring_pos = 0
    BY DEF Init, chute_state
  <2>2. <<>> \in Rings
    BY SelectorAssumption DEF Rings, IsInjective
  <2> QED
    BY <2>1, <2>2, SelectorAssumption DEF RingState
<1>2. TypeOK /\ LocalInv /\ RingState(cs) /\ [Next]_vars => RingState(cs)'
  BY RingStep
<1>3. RingState(cs) => RingOK
  BY DEF RingState, Rings, RingOK
<1> QED
  BY <1>1, <1>2, <1>3, TypeCorrect, PTL DEF Spec
===========================================================================
