---------------------------- MODULE Routing_proof ----------------------------
(***************************************************************************)
(* Proofs about where a request goes: which chute a model name stands for  *)
(* (ModelResolver, for every set of requests, models and lists and every   *)
(* MODEL_MAP_TTL_S), and which instance of the chute serves it             *)
(* (SelectorStats, for every set of instances, batches and samples).       *)
(***************************************************************************)
EXTENDS ModelResolver, SelectorStats, FiniteSetTheorems, Induction, TLAPS

---------------------------------------------------------------------------
(* Agent mode                                                              *)

\* The last agent-mode pick is the instance that the selector holds on to.
StickyInv == agent # Nil => cs.sticky = agent /\ agent \in Instance

\* Of a set of positions First keeps one at most, and only members.
LEMMA FirstMember ==
    ASSUME NEW ps, NEW p \in First(ps)
    PROVE  p \in ps
BY DEF First

\* Forgetting bans leaves the sticky instance alone.
LEMMA LapseSticky ==
    ASSUME NEW s, NEW batch, NEW cands, NEW t
    PROVE  lapse_bans(s, batch, cands, t).sticky = s.sticky
BY DEF lapse_bans

\* Only agent mode moves the sticky instance, to the one it picks.
LEMMA ModeSticky ==
    ASSUME NEW s, NEW batch, NEW cands, NEW mode, NEW sc, NEW o \in pick_mode(s, batch, cands, mode, sc)
    PROVE  /\ mode # "agent" => o.cs.sticky = s.sticky
           /\ mode = "agent" => o.chosen \in cands /\ o.cs.sticky = batch[o.chosen].instance_id
<1>1. CASE mode = "agent"
  <2>1. o \in pick_agent(s, batch, cands, sc)
    BY <1>1 DEF pick_mode
  <2>2. PICK p \in cands : o = [chosen |-> p, cs |-> WithSticky(s, batch[p].instance_id)]
    BY <2>1 DEF pick_agent, find, First, lowest_score
  <2> QED
    BY <1>1, <2>2 DEF WithSticky
<1>2. CASE mode = "balanced"
  <2>1. o \in pick_balanced(s, batch, cands)
    BY <1>2 DEF pick_mode
  <2>2. \E c, ring, pos : o = [chosen |-> c, cs |-> WithRing(s, ring, pos)]
    BY <2>1 DEF pick_balanced
  <2> QED
    BY <1>2, <2>2 DEF WithRing
<1>3. CASE mode # "agent" /\ mode # "balanced"
  <2>1. \E p : o = [chosen |-> p, cs |-> s]
    BY <1>3 DEF pick_mode
  <2> QED
    BY <1>3, <2>1
<1> QED
  BY <1>1, <1>2, <1>3

\* The same of pick as a whole, when no instance is pinned.
LEMMA PickSticky ==
    ASSUME PIN_INSTANCE_ID = Nil, NEW s, NEW batch, NEW t, NEW mode, NEW sc,
           NEW o \in pick(s, batch, t, mode, sc)
    PROVE  /\ mode # "agent" \/ eligible(batch) = {} => o.cs.sticky = s.sticky
           /\ mode = "agent" /\ eligible(batch) # {} =>
                /\ o.chosen \in without_banned(s, batch, eligible(batch), t)
                /\ o.cs.sticky = batch[o.chosen].instance_id
           /\ eligible(batch) = {} => o.chosen = 0
<1>1. CASE eligible(batch) = {}
  BY <1>1 DEF pick
<1>2. CASE eligible(batch) # {}
  <2>1. PICK cands : cands = without_banned(s, batch, eligible(batch), t)
    OBVIOUS
  <2>2. PICK s1 : s1 = lapse_bans(s, batch, eligible(batch), t)
    OBVIOUS
  <2>3. find(batch, cands, PIN_INSTANCE_ID) = {}
    BY <2>1, SelectorAssumption DEF find, First, without_banned, unbanned, eligible
  <2>4. o \in pick_mode(s1, batch, cands, mode, sc)
    BY <1>2, <2>1, <2>2, <2>3 DEF pick
  <2>5. s1.sticky = s.sticky
    BY <2>2, LapseSticky
  <2> QED
    BY <1>2, <2>1, <2>4, <2>5, ModeSticky
<1> QED
  BY <1>1, <1>2


\* What may be picked has nonces, an id, and a place in the batch.
LEMMA Candidate ==
    ASSUME NEW s, NEW batch \in Batches, NEW t, NEW p \in without_banned(s, batch, eligible(batch), t)
    PROVE  p \in eligible(batch) /\ batch[p].instance_id \in Instance /\ p # 0
<1>1. p \in eligible(batch)
  BY DEF without_banned, unbanned
<1>2. batch \in Seq([instance_id : Instance \cup {Nil}, nonces : Seq(Nat)])
  BY StatsAssumption
<1> QED
  BY <1>1, <1>2 DEF eligible

\* Every pick keeps StickyInv.
LEMMA PickHolds ==
    ASSUME PIN_INSTANCE_ID = Nil, StickyInv, NEW batch \in Batches, NEW mode, Pick(batch, mode)
    PROVE  StickyInv'
<1>1. PICK o \in pick(cs, batch, now, mode, [i \in Instance |-> score(i)]) :
         /\ cs' = o.cs
         /\ \/ o.chosen = 0 /\ UNCHANGED <<served, agent>>
            \/ /\ o.chosen # 0
               /\ agent' = IF mode = "agent" THEN batch[o.chosen].instance_id ELSE agent
  BY DEF Pick
<1>2. CASE mode # "agent" \/ eligible(batch) = {}
  <2>1. o.cs.sticky = cs.sticky /\ agent' = agent
    BY <1>1, <1>2, PickSticky
  <2> QED
    BY <1>1, <2>1 DEF StickyInv
<1>3. CASE mode = "agent" /\ eligible(batch) # {}
  <2>1. /\ o.chosen \in without_banned(cs, batch, eligible(batch), now)
        /\ o.cs.sticky = batch[o.chosen].instance_id
    BY <1>1, <1>3, PickSticky
  <2>2. o.chosen # 0 /\ batch[o.chosen].instance_id \in Instance
    BY <2>1, Candidate
  <2> QED
    BY <1>1, <1>3, <2>1, <2>2 DEF StickyInv
<1> QED
  BY <1>2, <1>3

LEMMA StepSticky ==
    ASSUME PIN_INSTANCE_ID = Nil, StickyInv, [Next]_vars
    PROVE  StickyInv'
<1>1. ASSUME NEW batch \in Batches, NEW mode \in Modes, Pick(batch, mode) PROVE StickyInv'
  BY <1>1, PickHolds
<1>2. ASSUME UNCHANGED <<cs, agent>> PROVE StickyInv'
  BY <1>2 DEF StickyInv
<1>3. ASSUME NEW id \in Instance, Invalidate(id) PROVE StickyInv'
  <2>1. /\ agent' = IF agent = id THEN Nil ELSE agent
        /\ cs' = invalidate(cs, id, now)
    BY <1>3 DEF Invalidate
  <2>2. cs'.sticky = IF cs.sticky = id THEN Nil ELSE cs.sticky
    BY <2>1 DEF invalidate
  <2> QED
    BY <2>1, <2>2 DEF StickyInv
<1> QED
  BY <1>1, <1>2, <1>3 DEF Next, RecordSuccess, RecordFailure, Tick, vars

\* The instance that is held on to is picked again while it may be picked.
LEMMA HeldPicked ==
    ASSUME PIN_INSTANCE_ID = Nil, StickyInv, NEW batch \in Batches, agent # Nil,
           cs.banned[agent] <= now, Pick(batch, "agent"),
           NEW p \in eligible(batch), batch[p].instance_id = agent
    PROVE  agent' = agent
<1>1. PICK cands : cands = without_banned(cs, batch, eligible(batch), now)
  OBVIOUS
<1>2. PICK s1 : s1 = lapse_bans(cs, batch, eligible(batch), now)
  OBVIOUS
<1>3. p \in cands
  BY <1>1 DEF without_banned, unbanned
<1>4. s1.sticky = agent
  BY <1>2, LapseSticky DEF StickyInv
<1>5. PICK o \in pick(cs, batch, now, "agent", [i \in Instance |-> score(i)]) :
         \/ o.chosen = 0 /\ agent' = agent
         \/ o.chosen # 0 /\ agent' = batch[o.chosen].instance_id
  BY DEF Pick
<1>6. find(batch, cands, PIN_INSTANCE_ID) = {}
  BY <1>1, SelectorAssumption DEF find, First, without_banned, unbanned, eligible
<1>7. o \in pick_agent(s1, batch, cands, [i \in Instance |-> score(i)])
  BY <1>1, <1>2, <1>5, <1>6 DEF pick, pick_mode
<1>8. find(batch, cands, agent) # {}
  <2>1. PICK hits : hits = {q \in cands : batch[q].instance_id = agent}
    OBVIOUS
  <2>2. hits \in SUBSET Nat /\ hits # {}
    <3>1. batch \in Seq([instance_id : Instance \cup {Nil}, nonces : Seq(Nat)])
      BY StatsAssumption
    <3>2. cands \in SUBSET DOMAIN batch
      BY <1>1 DEF without_banned, unbanned, eligible
    <3> QED
      BY <1>3, <2>1, <3>1, <3>2
  <2>3. PICK q \in hits : \A m \in hits : q <= m
    BY <2>2, LeastNatural
  <2> QED
    BY <2>1, <2>3 DEF find, First
<1>9. PICK q \in find(batch, cands, agent) : o.chosen = q
  BY <1>4, <1>7, <1>8 DEF pick_agent
<1>10. batch[q].instance_id = agent
  BY <1>9 DEF find, First
<1> QED
  BY <1>5, <1>9, <1>10

\* "one sticky instance per chute": as long as no instance is pinned, agent mode picks
\* the same instance again, whatever the other modes did meanwhile, until it is
\* invalidated, banned or out of nonces.
THEOREM Sticks ==
    ASSUME PIN_INSTANCE_ID = Nil
    PROVE  Spec => AgentSticks
<1>1. Init => StickyInv
  BY DEF Init, StickyInv
<1>2. StickyInv /\ [Next]_vars => StickyInv'
  BY StepSticky
<1>3. StickyInv /\ [Next]_vars =>
        [\A batch \in Batches :
           (/\ agent # Nil /\ cs.banned[agent] <= now /\ Pick(batch, "agent")
            /\ \E p \in eligible(batch) : batch[p].instance_id = agent) => agent' = agent]_vars
  BY HeldPicked
<1> QED
  BY <1>1, <1>2, <1>3, PTL DEF Spec, AgentSticks

---------------------------------------------------------------------------
(* The scores                                                              *)

\* A power of two counts subsets, so it is positive and grows with its exponent.
LEMMA PowerOfTwo ==
    ASSUME NEW k \in Nat
    PROVE  /\ IsFiniteSet(SUBSET (1..k)) /\ Cardinality(SUBSET (1..k)) = 2^k
           /\ 2^k \in Nat /\ 2^k >= 1
<1>1. IsFiniteSet(1..k) /\ Cardinality(1..k) = k
  BY FS_Interval
<1>2. IsFiniteSet(SUBSET (1..k)) /\ Cardinality(SUBSET (1..k)) = 2^k
  BY <1>1, FS_SUBSET
<1>3. Cardinality(SUBSET (1..k)) \in Nat /\ Cardinality(SUBSET (1..k)) # 0
  BY <1>2, FS_CardinalityType, FS_EmptySet
<1>4. PICK c \in Nat : c = 2^k /\ c # 0
  BY <1>2, <1>3
<1> QED
  BY <1>2, <1>4

LEMMA PowerGrows ==
    ASSUME NEW j \in Nat, NEW k \in Nat, j <= k
    PROVE  2^j <= 2^k
<1>1. SUBSET (1..j) \in SUBSET (SUBSET (1..k))
  OBVIOUS
<1>2. Cardinality(SUBSET (1..j)) <= Cardinality(SUBSET (1..k))
  BY <1>1, PowerOfTwo, FS_Subset
<1> QED
  BY <1>2, PowerOfTwo

\* The statistics have their types, and no sample is from the future.
StatsOK ==
    /\ now \in Nat
    /\ stats \in [Instance -> [ewma : 0..FLOAT_MAX, n : Nat, last : Nat, fails : Nat]]
    /\ \A i \in Instance : stats[i].last <= now

\* What a failure counts as, and an average, stay within the doubles.
LEMMA SampleType ==
    ASSUME NEW e \in 0..FLOAT_MAX, NEW k \in Nat, NEW st, st.ewma = e, st.n = k
    PROVE  /\ failure_sample(st) \in 0..FLOAT_MAX
           /\ failure_sample(st) = FLOAT_MAX \/
                (failure_sample(st) >= SLOW /\ (k > 0 => failure_sample(st) >= 4 * e))
           /\ k = 0 /\ PERF_COLD_START_S < FLOAT_MAX => failure_sample(st) > PERF_COLD_START_S
BY StatsAssumption DEF failure_sample, cap

LEMMA MeanType ==
    ASSUME NEW s \in 0..FLOAT_MAX, NEW e \in 0..FLOAT_MAX
    PROVE  mean(s, e) \in 0..FLOAT_MAX
<1>1. PICK num \in Nat, den \in Nat : num = PERF_EWMA_ALPHA.num /\ den = PERF_EWMA_ALPHA.den
                                       /\ 1 <= num /\ num <= den
  BY StatsAssumption
<1>2. PICK a \in Nat : a = num * s
  OBVIOUS
<1>3. PICK b \in Nat : b = (den - num) * e
  BY <1>1
<1>4. (a + b) \div den \in Nat
  BY <1>1
<1>5. PICK d \in Nat : d = (a + b) \div den
  BY <1>4
<1>6. cap(d) \in 0..FLOAT_MAX
  BY StatsAssumption DEF cap
<1>7. FLOAT_MAX \in 0..FLOAT_MAX
  BY StatsAssumption
<1>8. mean(s, e) \in {FLOAT_MAX, cap(d)}
  BY <1>1, <1>2, <1>3, <1>5, Zenon DEF mean
<1> QED
  BY <1>6, <1>7, <1>8

LEMMA RecordedType ==
    ASSUME StatsOK, NEW id \in Instance, NEW sample \in 0..FLOAT_MAX, NEW failures \in Nat
    PROVE  recorded(stats[id], sample, failures) \in [ewma : 0..FLOAT_MAX, n : Nat, last : Nat, fails : Nat]
<1>1. /\ stats[id].ewma \in 0..FLOAT_MAX /\ stats[id].n \in Nat /\ stats[id].fails \in Nat /\ now \in Nat
  BY DEF StatsOK
<1>2. mean(sample, stats[id].ewma) \in 0..FLOAT_MAX
  BY <1>1, MeanType
<1> QED
  BY <1>1, <1>2 DEF recorded

\* The new entry of an instance whose sample is recorded.
LEMMA RecordOK ==
    ASSUME StatsOK, NEW id \in Instance, NEW sample \in 0..FLOAT_MAX, NEW failures \in Nat,
           record(id, sample, failures), now' = now
    PROVE  StatsOK'
<1>1. PICK new : new = recorded(stats[id], sample, failures)
  OBVIOUS
<1>2. new \in [ewma : 0..FLOAT_MAX, n : Nat, last : Nat, fails : Nat] /\ new.last = now
  BY <1>1, RecordedType DEF recorded
<1>3. stats' = [stats EXCEPT ![id] = new]
  BY <1>1 DEF record
<1> QED
  BY <1>2, <1>3 DEF StatsOK

LEMMA InitStats == Init => StatsOK
BY StatsAssumption DEF Init, StatsOK, no_stats

LEMMA StepStats == StatsOK /\ [Next]_vars => StatsOK'
<1> SUFFICES ASSUME StatsOK, [Next]_vars PROVE StatsOK'
  OBVIOUS
<1>1. ASSUME NEW id \in Instance PROVE failure_sample(stats[id]) \in 0..FLOAT_MAX
  BY SampleType DEF StatsOK
<1>2. ASSUME NEW id \in Instance, RecordSuccess(id) PROVE StatsOK'
  <2>1. PICK ttft \in Samples : record(id, ttft, 0)
    BY <1>2 DEF RecordSuccess
  <2>2. ttft \in 0..FLOAT_MAX
    BY StatsAssumption
  <2> QED
    BY <1>2, <2>1, <2>2, RecordOK DEF RecordSuccess
<1>3. ASSUME NEW id \in Instance, RecordFailure(id) \/ Invalidate(id) PROVE StatsOK'
  <2>1. record(id, failure_sample(stats[id]), 1) /\ now' = now
    BY <1>3 DEF RecordFailure, Invalidate
  <2> QED
    BY <1>1, <2>1, RecordOK
<1>4. ASSUME UNCHANGED stats, now' \in {now, now + 1} PROVE StatsOK'
  BY <1>4 DEF StatsOK
<1> QED
  BY <1>2, <1>3, <1>4 DEF Next, Pick, Tick, vars

\* The score lies between the average and the cold start value.
LEMMA ScoreBound ==
    ASSUME StatsOK, NEW i \in Instance, stats[i].n # 0, stats[i].ewma # FLOAT_MAX
    PROVE  /\ score(i) \in Int
           /\ stats[i].ewma >= PERF_COLD_START_S => score(i) <= stats[i].ewma
           /\ stats[i].ewma < PERF_COLD_START_S => score(i) < PERF_COLD_START_S
<1>1. PICK e \in Nat, c \in Nat, p \in Nat :
        e = stats[i].ewma /\ c = PERF_COLD_START_S /\ p = 2^(now - stats[i].last) /\ p >= 1
  <2>1. now - stats[i].last \in Nat /\ stats[i].ewma \in Nat
    BY DEF StatsOK
  <2> QED
    BY <2>1, PowerOfTwo, StatsAssumption
<1>2. score(i) = c + (e - c) \div p
  BY <1>1 DEF score
<1>3. PICK q \in Int : q = (e - c) \div p
  BY <1>1
<1>4. p * q <= e - c /\ e - c < p * q + p
  BY <1>1, <1>3
<1>5. e >= c => q <= e - c
  BY <1>1, <1>4
<1>6. e < c => q < 0
  BY <1>1, <1>4
<1> QED
  BY <1>1, <1>2, <1>3, <1>5, <1>6

---------------------------------------------------------------------------
(* Failures                                                                *)

\* What the constants must be for a failure to count: a first failure is no
\* improvement on the cold start, and a unit of the fixed-point numbers is small
\* against PERF_COLD_START_S.
FailuresCount ==
    /\ PERF_EWMA_ALPHA.num * SLOW >= PERF_EWMA_ALPHA.den * PERF_COLD_START_S
    /\ 3 * (PERF_EWMA_ALPHA.num * PERF_COLD_START_S) >= PERF_EWMA_ALPHA.den
    /\ PERF_COLD_START_S < FLOAT_MAX

\* The arithmetic: a sample of at least 4 * e and SLOW raises the average above e
\* and to the cold start value.
LEMMA AverageRises ==
    ASSUME NEW num \in Nat, NEW den \in Nat, NEW slow \in Nat, NEW c \in Nat, NEW e \in Nat, NEW s \in Nat,
           1 <= num, num <= den, num * slow >= den * c, 3 * (num * c) >= den, s >= slow, s >= 4 * e
    PROVE  /\ e >= c => (num * s + (den - num) * e) \div den >= e + 1
           /\ (num * s + (den - num) * e) \div den >= c
<1>1. PICK d \in Int : d = (num * s + (den - num) * e) \div den
  OBVIOUS
<1>2. num * s + (den - num) * e < den * d + den
  BY <1>1
<1>3. num * s >= num * slow
  OBVIOUS
<1>4. (den - num) * e >= 0
  OBVIOUS
<1>5. d >= c
  <2>1. den * c < den * d + den
    <3>1. PICK a \in Int, b \in Int, x \in Int, y \in Int, z \in Int :
             a = num * s /\ b = (den - num) * e /\ x = den * d /\ y = den * c /\ z = num * slow
      OBVIOUS
    <3> QED
      BY <1>2, <1>3, <1>4, <3>1
  <2>2. den * (d + 1 - c) > 0
    BY <2>1
  <2> QED
    BY <2>2
<1>6. ASSUME e >= c PROVE d >= e + 1
  <2>1. num * s >= num * (4 * e)
    OBVIOUS
  <2>2. num * e >= num * c
    BY <1>6
  <2>3. den * (e + 1) < den * d + den
    <3>1. PICK a \in Int, b \in Int, x \in Int, y \in Int, z \in Int :
             a = num * s /\ b = den * e /\ x = den * d /\ y = num * e /\ z = num * c
      OBVIOUS
    <3>2. (den - num) * e = b - y /\ num * (4 * e) = 4 * y /\ den * (e + 1) = b + den
      BY <3>1
    <3> QED
      BY <1>2, <2>1, <2>2, <3>1, <3>2
  <2>4. den * (d - e) > 0
    BY <2>3
  <2> QED
    BY <2>4
<1> QED
  BY <1>1, <1>5, <1>6

\* The score of an instance right after a failure of it.
LEMMA FailureScores ==
    ASSUME FailuresCount, StatsOK, StatsOK', NEW i \in Instance, now' = now, score(i) # FLOAT_MAX,
           stats'[i] = recorded(stats[i], failure_sample(stats[i]), 1)
    PROVE  score(i)' > score(i)
<1>1. PICK c \in Nat : c = PERF_COLD_START_S /\ c >= 1 /\ c < FLOAT_MAX
  BY StatsAssumption DEF FailuresCount
<1>2. PICK e \in 0..FLOAT_MAX, k \in Nat : e = stats[i].ewma /\ k = stats[i].n
  BY DEF StatsOK
<1>3. PICK s \in 0..FLOAT_MAX :
        /\ s = failure_sample(stats[i])
        /\ s = FLOAT_MAX \/ (s >= SLOW /\ (k > 0 => s >= 4 * e))
        /\ k = 0 => s > c
  BY <1>1, <1>2, SampleType
<1>4. PICK e2 \in 0..FLOAT_MAX : e2 = IF k = 0 THEN s ELSE mean(s, e)
  BY <1>2, <1>3, MeanType
<1>5. stats'[i].ewma = e2 /\ stats'[i].n = k + 1 /\ stats'[i].last = now
  BY <1>2, <1>3, <1>4 DEF recorded
<1>6. score(i)' = e2
  <2>1. score(i)' = IF k + 1 = 0 THEN c ELSE IF e2 = FLOAT_MAX THEN FLOAT_MAX
                    ELSE c + (e2 - c) \div 2^(now - now)
    BY <1>1, <1>5 DEF score
  <2>2. now - now = 0
    BY DEF StatsOK
  <2>3. 2^0 = 1
    OBVIOUS
  <2>4. 2^(now - now) = 1
    BY <2>2, <2>3, Zenon
  <2> QED
    BY <2>1, <2>4
<1>7. CASE k = 0
  <2>1. score(i) = c
    BY <1>1, <1>2, <1>7 DEF score
  <2> QED
    BY <1>3, <1>4, <1>6, <1>7, <2>1
<1>8. CASE k # 0
  <2>1. e # FLOAT_MAX
    BY <1>2, <1>8 DEF score
  <2>2. score(i) \in Int /\ (e >= c => score(i) <= e) /\ (e < c => score(i) < c)
    BY <1>1, <1>2, <1>8, <2>1, ScoreBound
  <2>3. FLOAT_MAX \in Nat
    BY StatsAssumption
  <2>4. CASE s = FLOAT_MAX
    <3>1. e2 = FLOAT_MAX
      BY <1>4, <1>8, <2>4 DEF mean
    <3> QED
      BY <1>1, <1>6, <2>1, <2>2, <2>3, <3>1
  <2>5. CASE s # FLOAT_MAX
    <3>1. PICK num \in Nat, den \in Nat :
            /\ num = PERF_EWMA_ALPHA.num /\ den = PERF_EWMA_ALPHA.den /\ 1 <= num /\ num <= den
      BY StatsAssumption
    <3>2. PICK slow \in Nat : slow = SLOW
      BY StatsAssumption
    <3>3. num * slow >= den * c /\ 3 * (num * c) >= den
      BY <1>1, <3>1, <3>2 DEF FailuresCount
    <3>4. s >= slow /\ s >= 4 * e
      BY <1>3, <1>8, <2>5, <3>2
    <3>5. PICK d \in Int : d = (num * s + (den - num) * e) \div den
      BY <3>1
    <3>6. (e >= c => d >= e + 1) /\ d >= c
      <4>1. s \in Nat /\ e \in Nat
        OBVIOUS
      <4>2. /\ e >= c => (num * s + (den - num) * e) \div den >= e + 1
            /\ (num * s + (den - num) * e) \div den >= c
        BY <3>1, <3>3, <3>4, <4>1, AverageRises, Zenon
      <4> QED
        BY <3>5, <4>2, Zenon
    <3>7. e2 = cap(d)
      <4>1. FLOAT_MAX \notin {s, e}
        BY <2>1, <2>5
      <4> QED
        BY <1>4, <1>8, <3>1, <3>5, <4>1, Zenon DEF mean
    <3>8. e2 = IF d > FLOAT_MAX THEN FLOAT_MAX ELSE d
      BY <3>7 DEF cap
    <3> QED
      BY <1>1, <1>6, <2>1, <2>2, <2>3, <3>6, <3>8
  <2> QED
    BY <2>4, <2>5
<1> QED
  BY <1>7, <1>8

\* "its stats are penalised": whatever an instance's history, failing a request makes
\* it score worse than the moment before, unless it cannot.  For an instance that was
\* fast and has not been used for long this needs that PERF_EWMA_ALPHA of the least
\* failure sample is no less than the cold start value, as the defaults are.
THEOREM Penalised ==
    ASSUME FailuresCount
    PROVE  Spec => FailurePenalised
<1>1. StatsOK /\ StatsOK' /\ [Next]_vars =>
        [\A i \in Instance :
           stats'[i].fails > stats[i].fails => score(i)' > score(i) \/ score(i) = FLOAT_MAX]_vars
  <2> SUFFICES ASSUME StatsOK, StatsOK', [Next]_vars, NEW i \in Instance,
                      stats'[i].fails > stats[i].fails, score(i) # FLOAT_MAX
               PROVE  score(i)' > score(i)
    OBVIOUS
  <2>1. stats[i].fails \in Nat
    BY DEF StatsOK
  <2>2. ASSUME NEW id \in Instance, NEW sample, NEW failures \in {0, 1}, record(id, sample, failures)
        PROVE  i = id /\ failures = 1 /\ stats'[i] = recorded(stats[i], sample, 1)
    <3>1. stats' = [stats EXCEPT ![id] = recorded(stats[id], sample, failures)]
      BY <2>2 DEF record
    <3>2. id = i
      BY <2>1, <3>1 DEF StatsOK
    <3>3. stats'[i] = recorded(stats[i], sample, failures)
      BY <3>1, <3>2 DEF StatsOK
    <3>4. stats'[i].fails = stats[i].fails + failures
      BY <3>3 DEF recorded
    <3>5. failures = 1
      BY <2>1, <2>2, <3>4
    <3> QED
      BY <3>2, <3>3, <3>5
  <2>3. ASSUME NEW id \in Instance, RecordSuccess(id) PROVE FALSE
    BY <2>2, <2>3 DEF RecordSuccess
  <2>4. ASSUME NEW id \in Instance, RecordFailure(id) \/ Invalidate(id) PROVE score(i)' > score(i)
    <3>1. record(id, failure_sample(stats[id]), 1) /\ now' = now
      BY <2>4 DEF RecordFailure, Invalidate
    <3>2. stats'[i] = recorded(stats[i], failure_sample(stats[i]), 1)
      BY <2>2, <3>1
    <3> QED
      BY <3>1, <3>2, FailureScores
  <2>5. ASSUME UNCHANGED stats PROVE FALSE
    BY <2>1, <2>5
  <2> QED
    BY <2>3, <2>4, <2>5 DEF Next, Pick, Tick, vars
<1> QED
  BY <1>1, InitStats, StepStats, PTL DEF Spec, FailurePenalised

\* "one slow episode does not blacklist an instance forever": when Forgotten half-lives
\* are enough for the largest double to shrink to a unit, the score is back at the cold
\* start value by then, whatever was recorded before, unless failure upon failure has
\* driven the average beyond the largest double, from where it never comes back.
THEOREM Forgiven ==
    ASSUME FLOAT_MAX - PERF_COLD_START_S <= 2 * 2^Forgotten
    PROVE  Spec => []SlowEpisodeForgotten
<1>1. StatsOK => SlowEpisodeForgotten
  <2> SUFFICES ASSUME StatsOK, NEW i \in Instance, now - stats[i].last >= Forgotten,
                      stats[i].ewma < FLOAT_MAX
               PROVE  score(i) <= PERF_COLD_START_S + 1
    BY DEF SlowEpisodeForgotten
  <2>1. PICK c \in Nat : c = PERF_COLD_START_S
    BY StatsAssumption
  <2>2. CASE stats[i].n = 0
    BY <2>1, <2>2 DEF score
  <2>3. CASE stats[i].n # 0
    <3>1. PICK e \in Nat : e = stats[i].ewma /\ e < FLOAT_MAX
      BY DEF StatsOK
    <3>2. PICK k \in Nat : k = now - stats[i].last /\ k >= Forgotten
      BY DEF StatsOK
    <3>3. PICK p \in Nat, q \in Nat : p = 2^k /\ q = 2^Forgotten /\ p >= 1 /\ q <= p
      BY <3>2, PowerOfTwo, PowerGrows, StatsAssumption
    <3>4. score(i) = c + (e - c) \div p
      <4>1. stats[i].ewma # FLOAT_MAX
        BY <3>1, StatsAssumption
      <4> QED
        BY <2>1, <2>3, <3>1, <3>2, <3>3, <4>1 DEF score
    <3>5. e - c < 2 * p
      BY <2>1, <3>1, <3>3, StatsAssumption
    <3>6. PICK d \in Int : d = (e - c) \div p
      BY <3>3
    <3>7. p * d <= e - c
      BY <3>3, <3>6
    <3>8. p * (d - 2) < 0
      BY <3>5, <3>7
    <3>9. d < 2
      BY <3>3, <3>8
    <3> QED
      BY <2>1, <3>4, <3>6, <3>9
  <2> QED
    BY <2>2, <2>3
<1> QED
  BY <1>1, InitStats, StepStats, PTL DEF Spec

---------------------------------------------------------------------------
(* The model list                                                          *)
USE DEF Time

---------------------------------------------------------------------------
\* The initial cache and requests have their types.
LEMMA InitResolver == ResolverInit => ResolverTypeOK
<1> SUFFICES ASSUME ResolverInit PROVE ResolverTypeOK
  OBVIOUS
<1>1. model_map \in List
  BY DEF ResolverInit, List
<1>2. inforce \in [Time -> SUBSET Lists]
  BY ResolverAssumption DEF ResolverInit
<1>3. reply \in [Request -> List]
  BY <1>1 DEF ResolverInit
<1>4. /\ clock \in Time /\ published \in Lists /\ made \in Time
      /\ model_map_expires \in 0..(MaxClock + MODEL_MAP_TTL_S)
  BY ResolverAssumption DEF ResolverInit
<1>4a. cached \in BOOLEAN
  BY Zenon DEF ResolverInit
<1>5. /\ pc \in [Request -> {"idle", "fetch", "served", "done"}]
      /\ model \in [Request -> Model \cup Uuid]
      /\ start \in [Request -> Time] /\ replied \in [Request -> Time]
      /\ result \in [Request -> Chute \cup {NoChute}]
      /\ how \in [Request -> {"none", "uuid", "cache", "fetch", "stale", "error"}]
      /\ at \in [Request -> Time]
  BY ResolverAssumption DEF ResolverInit
<1>6. \A r \in Request : pc[r] \in {"fetch", "served"} => model[r] \in Model
  BY DEF ResolverInit
<1>7. QED
  BY <1>1, <1>2, <1>3, <1>4, <1>5, <1>6, <1>4a DEF ResolverTypeOK

\* check_confidential gives a chute or an error.
LEMMA CheckType ==
    ASSUME NEW e \in Entry \cup {NoEntry} PROVE check_confidential(e) \in Chute \cup {NoChute}
BY ResolverAssumption DEF check_confidential, Entry

\* What is resolved is in the list, confidential unless that is waived.
LEMMA CheckSound ==
    ASSUME NEW e, check_confidential(e) # NoChute
    PROVE  e # NoEntry /\ e.chute_id = check_confidential(e) /\ (e.confidential \/ ALLOW_NON_CONFIDENTIAL)
BY DEF check_confidential

\* Every step keeps them.
LEMMA StepResolver == ResolverTypeOK /\ [ResolverNext]_resolverVars => ResolverTypeOK'
<1> SUFFICES ASSUME ResolverTypeOK, [ResolverNext]_resolverVars PROVE ResolverTypeOK'
  OBVIOUS
<1> USE ResolverAssumption DEF ResolverTypeOK, listVars, cacheVars, resultVars
<1>1. ASSUME NEW r \in Request, ReturnUuid(r) PROVE ResolverTypeOK'
  BY <1>1 DEF ReturnUuid, Return
<1>2. ASSUME NEW r \in Request, ReturnCached(r) PROVE ResolverTypeOK'
  <2>1. model_map[model[r]] \in Entry \cup {NoEntry}
    BY <1>2 DEF ReturnCached, List
  <2>2. QED
    BY <1>2, <2>1, CheckType DEF ReturnCached, Return
<1>3. ASSUME NEW r \in Request, StartFetch(r) PROVE ResolverTypeOK'
  BY <1>3 DEF StartFetch
<1>4. ASSUME NEW r \in Request, FetchOk(r) PROVE ResolverTypeOK'
  <2>0. model[r] \in Model
    BY <1>4 DEF FetchOk
  <2>1. reply[r] \in List /\ reply[r][model[r]] \in Entry \cup {NoEntry}
    BY <2>0 DEF List
  <2>2. Expiry(r) \in 0..(MaxClock + MODEL_MAP_TTL_S)
    BY DEF Expiry
  <2>3. QED
    BY <1>4, <2>1, <2>2, CheckType DEF FetchOk, Return
<1>5. ASSUME NEW r \in Request, FetchFails(r) PROVE ResolverTypeOK'
  <2>1. model_map[model[r]] \in Entry \cup {NoEntry}
    BY <1>5 DEF FetchFails, List
  <2>2. PICK c \in Chute \cup {NoChute}, way \in {"stale", "error"} : Return(r, c, way)
    BY <1>5, <2>1, CheckType DEF FetchFails
  <2>3. QED
    BY <1>5, <2>2 DEF FetchFails, Return
<1>6. ASSUME NEW r \in Request, Serve(r) PROVE ResolverTypeOK'
  BY <1>6 DEF Serve, List
<1>7. CASE Publish
  BY <1>7 DEF Publish
<1>8. CASE ClockTick
  BY <1>8 DEF ClockTick
<1>9. CASE UNCHANGED resolverVars
  BY <1>9 DEF resolverVars
<1>10. QED
  BY <1>1, <1>2, <1>3, <1>4, <1>5, <1>6, <1>7, <1>8, <1>9 DEF ResolverNext, Resolve

---------------------------------------------------------------------------
(* Where the lists come from: CacheInv is inductive.                       *)

\* CacheInv holds initially.
LEMMA InitCacheInv == ResolverInit => CacheInv
BY ResolverAssumption DEF ResolverInit, CacheInv

\* Every step preserves CacheInv: fetches overlap, yet each list expires a TTL after
\* its request was made.
LEMMA NextCacheInv == ResolverTypeOK /\ CacheInv /\ [ResolverNext]_resolverVars => CacheInv'
<1> SUFFICES ASSUME ResolverTypeOK, CacheInv, [ResolverNext]_resolverVars PROVE CacheInv'
  OBVIOUS
<1> USE ResolverAssumption DEF ResolverTypeOK, CacheInv, listVars, cacheVars, resultVars
<1>1. ASSUME NEW r \in Request, ReturnUuid(r) \/ ReturnCached(r) PROVE CacheInv'
  BY <1>1 DEF ReturnUuid, ReturnCached, Return
<1>2. ASSUME NEW r \in Request, StartFetch(r) PROVE CacheInv'
  BY <1>2 DEF StartFetch
<1>3. ASSUME NEW r \in Request, FetchOk(r) PROVE CacheInv'
  BY <1>3 DEF FetchOk, Expiry, Return
<1>4. ASSUME NEW r \in Request, FetchFails(r) PROVE CacheInv'
  BY <1>4 DEF FetchFails, Return
<1>5. ASSUME NEW r \in Request, Serve(r) PROVE CacheInv'
  BY <1>5 DEF Serve
<1>6. CASE Publish
  BY <1>6 DEF Publish
<1>7. CASE ClockTick
  BY <1>7 DEF ClockTick
<1>8. CASE UNCHANGED resolverVars
  BY <1>8 DEF resolverVars
<1>9. QED
  BY <1>1, <1>2, <1>3, <1>4, <1>5, <1>6, <1>7, <1>8 DEF ResolverNext, Resolve

\* The list that resolve_chute_id takes for fresh was made less than
\* MODEL_MAP_TTL_S ago, however the fetches of the requests overlap.
THEOREM Fresh == ResolverSpec => [](ResolverTypeOK /\ CacheFresh)
<1>1. ResolverTypeOK /\ CacheInv => CacheFresh
  BY ResolverAssumption DEF ResolverTypeOK, CacheInv, CacheFresh
<1>2. QED
  BY InitResolver, StepResolver, InitCacheInv, NextCacheInv, <1>1, PTL DEF ResolverSpec

---------------------------------------------------------------------------
(* What a request is told                                                  *)

\* Every step resolves names by a list recent enough, and undoes no resolution.
LEMMA NextResolved ==
    ResolverTypeOK /\ CacheInv /\ ResolvedAsListed /\ [ResolverNext]_resolverVars => ResolvedAsListed'
<1> SUFFICES ASSUME ResolverTypeOK, CacheInv, ResolvedAsListed, [ResolverNext]_resolverVars,
                    NEW r \in Request, how'[r] \in {"cache", "fetch"}, result'[r] # NoChute
             PROVE  \E t \in Time : Oldest(r)' <= t /\ t <= at'[r] /\ Listed(r, t)'
  BY DEF ResolvedAsListed
<1> USE ResolverAssumption
\* A request that had its answer before keeps it, and what was in force stays so.
<1>1. ASSUME how'[r] = how[r], result'[r] = result[r], at'[r] = at[r], start'[r] = start[r],
             model'[r] = model[r], \A t \in Time : t <= clock => inforce[t] \subseteq inforce'[t]
      PROVE  \E t \in Time : Oldest(r)' <= t /\ t <= at'[r] /\ Listed(r, t)'
  <2>1. PICK t \in Time : Oldest(r) <= t /\ t <= at[r] /\ Listed(r, t)
    BY <1>1 DEF ResolvedAsListed
  <2>2. t <= clock
    BY <2>1 DEF CacheInv, ResolverTypeOK
  <2>3. Listed(r, t)'
    BY <1>1, <2>1, <2>2 DEF Listed
  <2>4. Oldest(r)' = Oldest(r)
    BY <1>1 DEF Oldest
  <2>5. QED
    BY <1>1, <2>1, <2>3, <2>4
<1>2. ASSUME UNCHANGED <<inforce, result, how, at, start, model>>
      PROVE  \E t \in Time : Oldest(r)' <= t /\ t <= at'[r] /\ Listed(r, t)'
  BY <1>1, <1>2
<1>3. ASSUME NEW q \in Request, q # r, Resolve(q)
      PROVE  \E t \in Time : Oldest(r)' <= t /\ t <= at'[r] /\ Listed(r, t)'
  <2>1. /\ how'[r] = how[r] /\ result'[r] = result[r] /\ at'[r] = at[r]
        /\ start'[r] = start[r] /\ model'[r] = model[r] /\ inforce' = inforce
    BY <1>3 DEF ResolverTypeOK, Resolve, ReturnUuid, ReturnCached, StartFetch, FetchOk, FetchFails, Return,
                listVars, cacheVars, resultVars
  <2>2. QED
    BY <1>1, <2>1
<1>4. CASE ReturnUuid(r)
  BY <1>4 DEF ReturnUuid, Return, ResolverTypeOK
<1>5. CASE ReturnCached(r)
  <2>1. /\ how'[r] = "cache" /\ at'[r] = clock /\ inforce' = inforce /\ model' = model
        /\ result'[r] = check_confidential(model_map[model[r]])
    BY <1>5 DEF ReturnCached, Return, ResolverTypeOK, listVars
  <2>2. made <= clock /\ clock - MODEL_MAP_TTL_S + 1 <= made /\ model_map \in inforce[made]
    BY <1>5 DEF ReturnCached, Usable, CacheInv, ResolverTypeOK
  <2>3. PICK t \in Time : t = made
    BY DEF ResolverTypeOK
  <2>4. Oldest(r)' <= t /\ t <= at'[r]
    BY <2>1, <2>2, <2>3 DEF Oldest
  <2>5. Listed(r, t)'
    BY <2>1, <2>2, <2>3, CheckSound DEF Listed
  <2>6. QED
    BY <2>4, <2>5
<1>6. CASE StartFetch(r)
  BY <1>6 DEF StartFetch, CacheInv, resultVars, ResolverTypeOK
<1>7. CASE FetchOk(r)
  <2>1. /\ how'[r] = "fetch" /\ at'[r] = clock /\ inforce' = inforce /\ model' = model /\ start' = start
        /\ result'[r] = check_confidential(reply[r][model[r]])
    BY <1>7 DEF FetchOk, Return, ResolverTypeOK, listVars
  <2>2. /\ start[r] <= replied[r] /\ replied[r] <= clock /\ replied[r] \in Time
        /\ reply[r] \in inforce[replied[r]]
    BY <1>7 DEF FetchOk, CacheInv, ResolverTypeOK
  <2>3. PICK t \in Time : t = replied[r]
    BY <2>2
  <2>4. Oldest(r)' <= t /\ t <= at'[r]
    BY <2>1, <2>2, <2>3 DEF Oldest
  <2>5. Listed(r, t)'
    BY <2>1, <2>2, <2>3, CheckSound DEF Listed
  <2>6. QED
    BY <2>4, <2>5
<1>8. CASE FetchFails(r)
  BY <1>8 DEF FetchFails, Return, ResolverTypeOK
<1>9. ASSUME NEW q \in Request, Serve(q)
      PROVE  \E t \in Time : Oldest(r)' <= t /\ t <= at'[r] /\ Listed(r, t)'
  BY <1>2, <1>9 DEF Serve, listVars, resultVars
<1>10. CASE Publish
  <2>1. \A t \in Time : t <= clock => inforce[t] \subseteq inforce'[t]
    BY <1>10 DEF Publish, ResolverTypeOK
  <2>2. QED
    BY <1>1, <1>10, <2>1 DEF Publish, resultVars
<1>11. CASE ClockTick
  <2>1. \A t \in Time : t <= clock => inforce[t] \subseteq inforce'[t]
    BY <1>11 DEF ClockTick, ResolverTypeOK
  <2>2. QED
    BY <1>1, <1>11, <2>1 DEF ClockTick, resultVars
<1>12. CASE UNCHANGED resolverVars
  BY <1>2, <1>12 DEF resolverVars, listVars, resultVars
<1>13. QED
  BY <1>3, <1>4, <1>5, <1>6, <1>7, <1>8, <1>9, <1>10, <1>11, <1>12 DEF ResolverNext, Resolve

\* A name that was resolved without a failed fetch was listed so, confidential,
\* less than MODEL_MAP_TTL_S before, or while the request was waiting.
THEOREM Resolved == ResolverSpec => []ResolvedAsListed
<1>1. ResolverInit => ResolvedAsListed
  BY DEF ResolverInit, ResolvedAsListed
<1>2. QED
  BY InitResolver, StepResolver, InitCacheInv, NextCacheInv, NextResolved, <1>1, PTL DEF ResolverSpec
=============================================================================
