------------------------- MODULE InstanceSelector -------------------------
(***************************************************************************)
(* lua/instance_selector.lua: which GPU instance serves a request.         *)
(*                                                                         *)
(* The operators act on the routing state of one chute,                    *)
(*                                                                         *)
(*   cs = [sticky, ring, ring_pos, banned]                                 *)
(*                                                                         *)
(* where banned[id] = 0 stands for an absent entry (the clock starts at 0  *)
(* and an entry in the past means the same as none).  A batch is the list  *)
(* `instances` that discovery returned; a candidate list is the SET of its *)
(* positions in the batch, because the code never reorders candidates.     *)
(* The scores are a parameter sc: SelectorStats computes them from the     *)
(* latency statistics, RoundTrip lets them be anything.                    *)
(*                                                                         *)
(* pick returns the set of possible outcomes [chosen, cs], chosen = 0      *)
(* meaning that the code returns nil.                                      *)
(***************************************************************************)
EXTENDS Integers, Sequences, SequencesExt, FiniteSets

CONSTANTS
    Instance,        \* the instance ids of the chute
    Nil,             \* Lua's nil
    BALANCED_N,      \* size of the balanced ring
    ROUTE_BAN_S,     \* how long an invalidated instance is avoided
    PIN_INSTANCE_ID  \* an instance id, or Nil

ASSUME SelectorAssumption ==
    /\ Nil \notin Instance
    /\ BALANCED_N \in Nat \ {0}
    /\ ROUTE_BAN_S \in Nat
    /\ PIN_INSTANCE_ID \in Instance \cup {Nil}

RouteModes == {"agent", "balanced", "performance", "default"}

chute_state ==
    [sticky |-> Nil, ring |-> <<>>, ring_pos |-> 0, banned |-> [i \in Instance |-> 0]]

has_nonces(inst) == inst.nonces # <<>>

eligible(instances) ==
    {p \in DOMAIN instances :
        has_nonces(instances[p]) /\ instances[p].instance_id \in Instance}

\* The first position of a set: what a scan that stops at its first hit finds.
First(ps) == {p \in ps : \A q \in ps : p <= q}

find(instances, cands, id) == First({p \in cands : instances[p].instance_id = id})

unbanned(cs, instances, cands, t) ==
    {p \in cands : cs.banned[instances[p].instance_id] <= t}

without_banned(cs, instances, cands, t) ==
    LET out == unbanned(cs, instances, cands, t)
    IN  IF out = {} THEN cands ELSE out

\* The scan of without_banned also forgets the bans that have run out.
lapse_bans(cs, instances, cands, t) ==
    [sticky |-> cs.sticky, ring |-> cs.ring, ring_pos |-> cs.ring_pos,
     banned |-> [i \in Instance |->
        IF \E p \in unbanned(cs, instances, cands, t) : instances[p].instance_id = i
        THEN 0 ELSE cs.banned[i]]]

---------------------------------------------------------------------------
\* Performance mode: two distinct candidates at random, the better one wins.
pick_performance(instances, cands, sc) ==
    LET score(p) == sc[instances[p].instance_id]
    IN  IF Cardinality(cands) = 1
        THEN cands
        ELSE {p \in cands : \E q \in cands \ {p} : score(p) <= score(q)}

\* Agent mode without a usable sticky instance: lowest score, first on a tie.
lowest_score(instances, cands, sc) ==
    LET score(p) == sc[instances[p].instance_id]
    IN  {p \in cands : \A q \in cands :
            score(p) < score(q) \/ (score(p) = score(q) /\ p <= q)}

---------------------------------------------------------------------------
\* Balanced mode.

\* The members of a list that are in a set of ids, in their order: the loop of
\* prune_ring and the one of invalidate.
kept(ring, ids) ==
    LET out[k \in 0..Len(ring)] ==
            IF k = 0 THEN <<>>
            ELSE IF ring[k] \in ids THEN Append(out[k - 1], ring[k]) ELSE out[k - 1]
    IN  out[Len(ring)]

prune_ring(ring, instances) == kept(ring, {instances[p].instance_id : p \in DOMAIN instances})

\* Mutant: an instance joins again.
Join_again(ring, id) ==
    IF Len(ring) < BALANCED_N THEN Append(ring, id) ELSE ring

\* An instance joins the ring at its end, once, while there is room.
Join(ring, id) ==
    IF Len(ring) < BALANCED_N /\ \A k \in DOMAIN ring : ring[k] # id
    THEN Append(ring, id)
    ELSE ring

fill_ring(ring, instances, cands) ==
    LET out[p \in 0..Len(instances)] ==
            IF p = 0 THEN ring
            ELSE IF p \in cands THEN Join(out[p - 1], instances[p].instance_id)
            ELSE out[p - 1]
    IN  out[Len(instances)]

WithRing(cs, ring, pos) ==
    [sticky |-> cs.sticky, ring |-> ring, ring_pos |-> pos, banned |-> cs.banned]

pick_balanced(cs, instances, cands) ==
    LET ring      == fill_ring(prune_ring(cs.ring, instances), instances, cands)
        Idx(step) == ((cs.ring_pos + step - 1) % Len(ring)) + 1
        Hit(step) == find(instances, cands, ring[Idx(step)])
        hits      == {step \in 1..Len(ring) : Hit(step) # {}}
    IN  IF hits = {}
        THEN {[chosen |-> 0, cs |-> WithRing(cs, ring, cs.ring_pos)]}
        ELSE UNION {{[chosen |-> p, cs |-> WithRing(cs, ring, Idx(step))] : p \in Hit(step)}
                    : step \in First(hits)}

---------------------------------------------------------------------------
WithSticky(cs, id) ==
    [sticky |-> id, ring |-> cs.ring, ring_pos |-> cs.ring_pos, banned |-> cs.banned]

\* Mutant: the choice is not remembered.
pick_agent_unstuck(cs, instances, cands, sc) ==
    {[chosen |-> p, cs |-> cs] : p \in lowest_score(instances, cands, sc)}

pick_agent(cs, instances, cands, sc) ==
    LET held == find(instances, cands, cs.sticky)
    IN  {[chosen |-> p, cs |-> WithSticky(cs, instances[p].instance_id)]
         : p \in IF held # {} THEN held ELSE lowest_score(instances, cands, sc)}

pick_mode(cs, instances, cands, mode, sc) ==
    LET Keep(ps) == {[chosen |-> p, cs |-> cs] : p \in ps}
    IN  IF mode = "default" THEN Keep(First(cands))
        ELSE IF mode = "agent" THEN pick_agent(cs, instances, cands, sc)
        ELSE IF mode = "balanced" THEN pick_balanced(cs, instances, cands)
        ELSE Keep(pick_performance(instances, cands, sc))

\* Mutant: when every candidate is banned there is nothing to pick.
pick_nofallback(cs, instances, t, mode, sc) ==
    LET cands == unbanned(cs, instances, eligible(instances), t)
    IN  IF cands = {}
        THEN {[chosen |-> 0, cs |-> cs]}
        ELSE pick_mode(cs, instances, cands, mode, sc)

pick(cs, instances, t, mode, sc) ==
    LET all    == eligible(instances)
        cands  == without_banned(cs, instances, all, t)
        cs1    == lapse_bans(cs, instances, all, t)
        pinned == find(instances, cands, PIN_INSTANCE_ID)
    IN  IF all = {}
        THEN {[chosen |-> 0, cs |-> cs]}
        ELSE IF pinned # {}
             THEN {[chosen |-> p, cs |-> cs1] : p \in pinned}
             ELSE pick_mode(cs1, instances, cands, mode, sc)

\* Mutant: stickiness is dropped, the instance is not banned.
invalidate_noban(cs, id, t) ==
    LET left == kept(cs.ring, Instance \ {id})
    IN  [sticky   |-> IF cs.sticky = id THEN Nil ELSE cs.sticky,
         ring     |-> left,
         ring_pos |-> IF cs.ring_pos > Len(left) THEN 0 ELSE cs.ring_pos,
         banned   |-> cs.banned]

\* selector.invalidate(chute_id, instance_id) on an existing chute state.
invalidate(cs, id, t) ==
    LET left == kept(cs.ring, Instance \ {id})
    IN  [sticky   |-> IF cs.sticky = id THEN Nil ELSE cs.sticky,
         ring     |-> left,
         ring_pos |-> IF cs.ring_pos > Len(left) THEN 0 ELSE cs.ring_pos,
         banned   |-> [cs.banned EXCEPT ![id] = t + ROUTE_BAN_S]]
===========================================================================
