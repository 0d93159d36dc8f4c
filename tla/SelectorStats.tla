--------------------------- MODULE SelectorStats ---------------------------
(***************************************************************************)
(* lua/instance_selector.lua as a state machine of its own: the routing    *)
(* state of one chute together with the latency statistics that score its  *)
(* instances.  RoundTrip calls the same pick and invalidate with arbitrary *)
(* scores; here they are the ones the code computes.                       *)
(*                                                                         *)
(* Latencies are fixed-point numbers, the clock counts half-lives, and     *)
(* FLOAT_MAX stands for the largest double: what exceeds it is infinite    *)
(* and stays so, as inf * alpha + x and inf * factor do.                   *)
(***************************************************************************)
EXTENDS InstanceSelector

CONSTANTS
    PERF_COLD_START_S,   \* optimistic score of an unknown instance
    PERF_EWMA_ALPHA,     \* as [num, den]
    SLOW,                \* the least sample a failure counts as: 10 s
    FLOAT_MAX,           \* the largest double
    Samples,             \* time-to-first-token values
    Batches,             \* the batches pick may be given
    Modes,               \* the route modes it may be given
    Forgotten,           \* half-lives after which a slow episode is forgotten
    MaxSamples,          \* bound: samples per instance
    MaxTime              \* bound: the clock stops here

ASSUME StatsAssumption ==
    /\ PERF_COLD_START_S \in Nat \ {0} /\ SLOW \in Nat \ {0}
    /\ PERF_EWMA_ALPHA.den \in Nat \ {0} /\ PERF_EWMA_ALPHA.num \in 1..PERF_EWMA_ALPHA.den
    /\ Samples \subseteq Nat
    /\ FLOAT_MAX \in Nat /\ \A s \in Samples : s < FLOAT_MAX
    /\ Modes \subseteq RouteModes
    /\ \A batch \in Batches :
         batch \in Seq([instance_id : Instance \cup {Nil}, nonces : Seq(Nat)])
    /\ Forgotten \in Nat
    /\ MaxSamples \in Nat /\ MaxTime \in Nat

VARIABLES
    now,     \* ngx.now(), in half-lives
    cs,      \* state[chute_id] without its stats
    stats,   \* state[chute_id].stats
    served,  \* history: the instances picked so far
    agent    \* history: the last agent-mode pick, until it is invalidated

vars == <<now, cs, stats, served, agent>>

---------------------------------------------------------------------------
no_stats == [ewma |-> 0, n |-> 0, last |-> 0, fails |-> 0]

cap(x) == IF x > FLOAT_MAX THEN FLOAT_MAX ELSE x

\* Mutant: old samples do not decay.
score_nodecay(id) == IF stats[id].n = 0 THEN PERF_COLD_START_S ELSE stats[id].ewma

score(id) ==
    LET st == stats[id]
    IN  IF st.n = 0 THEN PERF_COLD_START_S
        ELSE IF st.ewma = FLOAT_MAX THEN FLOAT_MAX
        ELSE PERF_COLD_START_S + (st.ewma - PERF_COLD_START_S) \div 2^(now - st.last)

\* PERF_EWMA_ALPHA * sample + (1 - PERF_EWMA_ALPHA) * ewma
mean(sample, old) ==
    IF FLOAT_MAX \in {sample, old} THEN FLOAT_MAX
    ELSE cap((PERF_EWMA_ALPHA.num * sample
              + (PERF_EWMA_ALPHA.den - PERF_EWMA_ALPHA.num) * old) \div PERF_EWMA_ALPHA.den)

\* Mutant: a failure repeats the average.
failure_sample_mild(st) == IF st.n > 0 THEN st.ewma ELSE PERF_COLD_START_S

failure_sample(st) ==
    LET slow == 4 * (IF st.n > 0 THEN st.ewma ELSE PERF_COLD_START_S)
    IN  cap(IF slow > SLOW THEN slow ELSE SLOW)

recorded(st, sample, failures) ==
    [ewma |-> IF st.n = 0 THEN sample ELSE mean(sample, st.ewma),
     n |-> st.n + 1, last |-> now, fails |-> st.fails + failures]

\* record(chute_id, id, ttft, true) and record(chute_id, id, nil, false)
record(id, sample, failures) ==
    /\ stats[id].n < MaxSamples
    /\ stats' = [stats EXCEPT ![id] = recorded(stats[id], sample, failures)]

---------------------------------------------------------------------------
Init ==
    /\ now = 0
    /\ cs = chute_state
    /\ stats = [i \in Instance |-> no_stats]
    /\ served = {}
    /\ agent = Nil

Pick(batch, mode) ==
    /\ \E o \in pick(cs, batch, now, mode, [i \in Instance |-> score(i)]) :
         /\ cs' = o.cs
         /\ \/ o.chosen = 0 /\ UNCHANGED <<served, agent>>
            \/ /\ o.chosen # 0
               /\ LET id == batch[o.chosen].instance_id
                  IN  /\ served' = served \cup {id}
                      /\ agent' = IF mode = "agent" THEN id ELSE agent
    /\ UNCHANGED <<now, stats>>

RecordSuccess(id) ==
    /\ id \in served
    /\ \E ttft \in Samples : record(id, ttft, 0)
    /\ UNCHANGED <<now, cs, served, agent>>

RecordFailure(id) ==
    /\ id \in served
    /\ record(id, failure_sample(stats[id]), 1)
    /\ UNCHANGED <<now, cs, served, agent>>

Invalidate(id) ==
    /\ id \in served
    /\ cs' = invalidate(cs, id, now)
    /\ record(id, failure_sample(stats[id]), 1)
    /\ agent' = IF agent = id THEN Nil ELSE agent
    /\ UNCHANGED <<now, served>>

Tick ==
    /\ now < MaxTime
    /\ now' = now + 1
    /\ UNCHANGED <<cs, stats, served, agent>>

Next ==
    \/ \E batch \in Batches, mode \in Modes : Pick(batch, mode)
    \/ \E id \in Instance : RecordSuccess(id) \/ RecordFailure(id) \/ Invalidate(id)
    \/ Tick

Spec == Init /\ [][Next]_vars

---------------------------------------------------------------------------
\* Type correctness of the routing state and the statistics.
TypeOK ==
    /\ now \in 0..MaxTime
    /\ cs.sticky \in Instance \cup {Nil} /\ cs.ring \in Seq(Instance)
    /\ cs.ring_pos \in Nat /\ cs.banned \in [Instance -> Nat]
    /\ stats \in [Instance -> [ewma : 0..FLOAT_MAX, n : 0..MaxSamples,
                               last : 0..MaxTime, fails : 0..MaxSamples]]
    /\ \A i \in Instance : stats[i].fails <= stats[i].n

\* "its stats are penalised": whatever an instance's history, failing a request
\* makes it score worse than it did the moment before, if that is possible.
FailurePenalised ==
    [][\A i \in Instance :
         stats'[i].fails > stats[i].fails => score(i)' > score(i) \/ score(i) = FLOAT_MAX]_vars

\* "one sticky instance per model": agent mode picks the same instance again,
\* whatever the other modes did meanwhile, until that instance is invalidated,
\* or has no nonces in the batch.  (An instance picked while banned, because all
\* were, does not stick.)
AgentSticks ==
    [][\A batch \in Batches :
         (/\ agent # Nil /\ cs.banned[agent] <= now /\ Pick(batch, "agent")
          /\ \E p \in eligible(batch) : batch[p].instance_id = agent) => agent' = agent]_vars

\* "one slow episode does not blacklist an instance forever": after Forgotten
\* half-lives without a new sample the score is back at the cold start value,
\* unless failure upon failure has driven the average beyond the largest double.
SlowEpisodeForgotten ==
    \A i \in Instance :
        now - stats[i].last >= Forgotten /\ stats[i].ewma < FLOAT_MAX =>
            score(i) <= PERF_COLD_START_S + 1
===========================================================================
