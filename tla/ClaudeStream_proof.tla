------------------------- MODULE ClaudeStream_proof -------------------------
(***************************************************************************)
(* Proofs about ClaudeStream, for streams of every length and chunks with  *)
(* any contents and any number of tool-call deltas.                        *)
(***************************************************************************)
EXTENDS ClaudeStream, Chunks_proof, FiniteSetTheorems

EventNames == {"start", "delta", "stop", "message_start", "message_delta", "message_stop"}
Kinds == {"nil", "text", "thinking", "tool", "end_turn", "max_tokens", "tool_use"}
Events == [ev : EventNames, index : Nat, kind : Kinds, data : Seq(Pieces)]
ToolStates == [known : BOOLEAN, block_index : Nat, started : BOOLEAN,
               pending : Seq(Pieces), seen : BOOLEAN]
States == [block_index : Nat, current_type : {"nil", "text", "thinking"}, text_started : BOOLEAN,
           first_content : BOOLEAN, think_detected : BOOLEAN, message_started : BOOLEAN,
           stop_reason : Kinds, tool_states : [ToolIndex -> ToolStates], events : Seq(Events)]

\* The flags say which block is open, and a tool call is started when it was seen.
StateOK(st) ==
    /\ st \in States
    /\ st.text_started <=> st.current_type = "text"
    /\ st.current_type = "thinking" => st.think_detected
    /\ st.first_content => st.current_type = "nil"
    /\ \A i \in ToolIndex : st.tool_states[i].started => st.tool_states[i].seen

\* How many blocks with an index are open.
Opens(st) ==
    [x \in Nat |->
        (IF st.current_type # "nil" /\ st.block_index = x THEN 1 ELSE 0)
      + (IF st.tool_states["t0"].started /\ st.tool_states["t0"].block_index = x THEN 1 ELSE 0)
      + (IF st.tool_states["t1"].started /\ st.tool_states["t1"].block_index = x THEN 1 ELSE 0)]
Hit(e, ev, x) == IF e.ev = ev /\ e.index = x THEN 1 ELSE 0

\* A log is bracketed and leaves open what f says.
Marks(log, ev, x, k) == {i \in 1..k : log[i].ev = ev /\ log[i].index = x}
CountIn(log, ev, x, k) == Cardinality(Marks(log, ev, x, k))
LogOK(log, f) ==
    /\ log \in Seq(Events)
    /\ \A i \in DOMAIN log :
          /\ log[i].ev = "delta" =>
               CountIn(log, "start", log[i].index, i) > CountIn(log, "stop", log[i].index, i)
          /\ log[i].ev = "stop" =>
               CountIn(log, "start", log[i].index, i) >= CountIn(log, "stop", log[i].index, i)
    /\ \A x \in Nat : CountIn(log, "start", x, Len(log)) = CountIn(log, "stop", x, Len(log)) + f[x]

\* A handler's state, with what it has written so far.
Good(st) == /\ out \in Seq(Events)
            /\ StateOK(st)
            /\ LogOK(out \o st.events, Opens(st))

BracketInv ==
    /\ state.events = <<>> /\ n \in Nat
    /\ IF ended THEN LogOK(out, [x \in Nat |-> 0]) ELSE Good(state)

---------------------------------------------------------------------------
(* Logs                                                                    *)

\* A count is a natural.
LEMMA CountType ==
    ASSUME NEW log, NEW ev, NEW x, NEW k \in Nat
    PROVE  IsFiniteSet(Marks(log, ev, x, k)) /\ CountIn(log, ev, x, k) \in Nat
<1>1. IsFiniteSet(1..k)
  BY FS_Interval
<1>2. Marks(log, ev, x, k) \in SUBSET (1..k)
  BY DEF Marks
<1>3. IsFiniteSet(Marks(log, ev, x, k))
  BY <1>1, <1>2, FS_Subset
<1> QED
  BY <1>3, FS_CardinalityType DEF CountIn

\* An event more.
Counted(log, e, ev, x) ==
    /\ \A k \in 0..Len(log) : CountIn(Append(log, e), ev, x, k) = CountIn(log, ev, x, k)
    /\ CountIn(Append(log, e), ev, x, Len(log) + 1) = CountIn(log, ev, x, Len(log)) + Hit(e, ev, x)

LEMMA CountAppend ==
    ASSUME NEW log \in Seq(Events), NEW e \in Events, NEW ev, NEW x
    PROVE  Counted(log, e, ev, x)
<1> DEFINE m == Len(log)
           new == Append(log, e)
           S == Marks(log, ev, x, m)
           T == Marks(new, ev, x, m + 1)
<1>1. m \in Nat /\ new[m + 1] = e /\ \A i \in 1..m : new[i] = log[i]
  BY AppendProperties, LenProperties
<1> HIDE DEF m, new
<1>2. ASSUME NEW k \in 0..m
      PROVE  CountIn(new, ev, x, k) = CountIn(log, ev, x, k)
  <2>1. Marks(new, ev, x, k) = Marks(log, ev, x, k)
    BY <1>1 DEF Marks
  <2> QED
    BY <2>1 DEF CountIn
<1>3. IsFiniteSet(S) /\ Cardinality(S) \in Nat
  BY <1>1, CountType DEF CountIn
<1>4. CASE e.ev = ev /\ e.index = x
  <2>1. T = S \cup {m + 1} /\ m + 1 \notin S
    BY <1>1, <1>4 DEF Marks
  <2>2. Cardinality(T) = Cardinality(S) + 1
    BY <1>3, <2>1, FS_AddElement
  <2>3. CountIn(new, ev, x, m + 1) = CountIn(log, ev, x, m) + Hit(e, ev, x)
    BY <1>4, <2>2 DEF CountIn, Hit
  <2> QED
    BY <1>2, <2>3 DEF Counted, m, new
<1>5. CASE ~(e.ev = ev /\ e.index = x)
  <2>1. T = S
    BY <1>1, <1>5 DEF Marks
  <2>2. CountIn(new, ev, x, m + 1) = CountIn(log, ev, x, m) + Hit(e, ev, x)
    BY <1>3, <1>5, <2>1 DEF CountIn, Hit
  <2> QED
    BY <1>2, <2>2 DEF Counted, m, new
<1> QED
  BY <1>4, <1>5

\* An event that starts a block, stops one that is open, or needs one that is open.
LEMMA LogAppend ==
    ASSUME NEW log, NEW f \in [Nat -> Nat], NEW g \in [Nat -> Nat], LogOK(log, f), NEW e \in Events,
           e.ev \in {"delta", "stop"} => f[e.index] > 0,
           \A x \in Nat : g[x] = f[x] + Hit(e, "start", x)
                                      - Hit(e, "stop", x)
    PROVE  LogOK(Append(log, e), g)
<1> DEFINE m == Len(log)
           new == Append(log, e)
<1>0. log \in Seq(Events)
  BY DEF LogOK
<1>1. /\ m \in Nat /\ new \in Seq(Events) /\ new[m + 1] = e /\ \A i \in 1..m : new[i] = log[i]
      /\ DOMAIN log = 1..m /\ DOMAIN new = 1..(m + 1) /\ Len(new) = m + 1
  BY <1>0, AppendProperties, LenProperties
<1>2. ASSUME NEW x
      PROVE  /\ \A k \in 0..m : /\ CountIn(new, "start", x, k) = CountIn(log, "start", x, k)
                                 /\ CountIn(new, "stop", x, k) = CountIn(log, "stop", x, k)
             /\ CountIn(new, "start", x, m + 1)
                  = CountIn(log, "start", x, m) + Hit(e, "start", x)
             /\ CountIn(new, "stop", x, m + 1)
                  = CountIn(log, "stop", x, m) + Hit(e, "stop", x)
             /\ CountIn(log, "start", x, m) \in Nat /\ CountIn(log, "stop", x, m) \in Nat
  <2>1. ASSUME NEW ev
        PROVE  /\ \A k \in 0..m : CountIn(new, ev, x, k) = CountIn(log, ev, x, k)
               /\ CountIn(new, ev, x, m + 1) = CountIn(log, ev, x, m) + Hit(e, ev, x)
               /\ CountIn(log, ev, x, m) \in Nat
    <3>1. CountIn(log, ev, x, m) \in Nat
      BY <1>1, CountType
    <3>2. Counted(log, e, ev, x)
      BY <1>0, CountAppend
    <3> QED
      BY <3>1, <3>2 DEF Counted
  <2> HIDE DEF m, new
  <2> QED
    BY <2>1
<1> HIDE DEF m, new
<1>3. ASSUME NEW x \in Nat
      PROVE  CountIn(new, "start", x, m + 1) = CountIn(new, "stop", x, m + 1) + g[x]
  <2>1. CountIn(log, "start", x, m) = CountIn(log, "stop", x, m) + f[x]
    BY DEF LogOK, m
  <2>2. g[x] \in Nat /\ f[x] \in Nat
    OBVIOUS
  <2>3. g[x] = f[x] + Hit(e, "start", x) - Hit(e, "stop", x)
    OBVIOUS
  <2>4. Hit(e, "start", x) \in Int /\ Hit(e, "stop", x) \in Int
    BY DEF Hit
  <2> QED
    BY <1>2, <2>1, <2>2, <2>3, <2>4
<1>4. ASSUME NEW i \in 1..(m + 1)
      PROVE  /\ new[i].ev = "delta" =>
                  CountIn(new, "start", new[i].index, i) > CountIn(new, "stop", new[i].index, i)
             /\ new[i].ev = "stop" =>
                  CountIn(new, "start", new[i].index, i) >= CountIn(new, "stop", new[i].index, i)
  <2>1. CASE i \in 1..m
    <3>1. new[i] = log[i] /\ i \in 0..m /\ i \in DOMAIN log
      BY <1>1, <2>1
    <3>2. /\ log[i].ev = "delta" =>
               CountIn(log, "start", log[i].index, i) > CountIn(log, "stop", log[i].index, i)
          /\ log[i].ev = "stop" =>
               CountIn(log, "start", log[i].index, i) >= CountIn(log, "stop", log[i].index, i)
      BY <3>1 DEF LogOK
    <3>3. /\ CountIn(new, "start", log[i].index, i) = CountIn(log, "start", log[i].index, i)
          /\ CountIn(new, "stop", log[i].index, i) = CountIn(log, "stop", log[i].index, i)
      BY <1>2, <3>1
    <3> QED
      BY <3>1, <3>2, <3>3
  <2>2. CASE i = m + 1
    <3>1. new[i] = e /\ e.index \in Nat /\ g[e.index] \in Nat /\ f[e.index] \in Nat
      BY <1>1, <2>2 DEF Events
    <3>2. CountIn(new, "start", e.index, i) = CountIn(new, "stop", e.index, i) + g[e.index]
      BY <1>3, <2>2, <3>1
    <3>3. CountIn(new, "stop", e.index, i) \in Nat
      <4>1. i \in Nat
        BY <1>1, <2>2
      <4> QED
        BY <4>1, CountType, Zenon
    <3>4. e.ev = "delta" => g[e.index] > 0
      <4>1. g[e.index] = f[e.index] + Hit(e, "start", e.index)
                                    - Hit(e, "stop", e.index)
        BY <3>1
      <4> QED
        BY <3>1, <4>1 DEF Hit
    <3> QED
      BY <3>1, <3>2, <3>3, <3>4
  <2> QED
    BY <1>1, <2>1, <2>2
<1>5. LogOK(new, g)
  BY <1>1, <1>3, <1>4 DEF LogOK
<1> QED
  BY <1>5 DEF new

---------------------------------------------------------------------------
(* One event                                                               *)

LEMMA OpensType ==
    ASSUME NEW st, StateOK(st)
    PROVE  Opens(st) \in [Nat -> Nat]
<1> QED
  BY DEF Opens

LEMMA AppendLast ==
    ASSUME NEW p \in Seq(Events), NEW q \in Seq(Events), NEW e \in Events
    PROVE  p \o Append(q, e) = Append(p \o q, e)
<1>0. <<e>> \in Seq(Events)
  OBVIOUS
<1>1. PICK last \in Seq(Events) : last = <<e>>
  BY <1>0, Zenon
<1>2. PICK both \in Seq(Events) : both = p \o q
  BY ConcatProperties
<1>3. Append(q, e) = q \o last
  BY <1>1, AppendIsConcat
<1>4. Append(both, e) = both \o last
  BY <1>1, AppendIsConcat
<1>5. (p \o q) \o last = p \o (q \o last)
  BY ConcatAssociative
<1> QED
  BY <1>2, <1>3, <1>4, <1>5, Zenon

\* An event with its kind and its index.
EventIs(e, ev, index) == e \in Events /\ e.ev = ev /\ e.index = index
LEMMA EventType ==
    ASSUME NEW ev \in EventNames, NEW index \in Nat, NEW kind \in Kinds, NEW data \in Seq(Pieces)
    PROVE  EventIs(sse_event(ev, index, kind, data), ev, index)
<1> QED
  BY DEF sse_event, Events, EventIs
LEMMA BareEventType ==
    ASSUME NEW ev \in EventNames, NEW index \in Nat, NEW kind \in Kinds
    PROVE  EventIs(sse_event(ev, index, kind, <<>>), ev, index)
<1>0. <<>> \in Seq(Pieces)
  OBVIOUS
<1>1. PICK data \in Seq(Pieces) : data = <<>>
  BY <1>0, Zenon
<1>2. EventIs(sse_event(ev, index, kind, data), ev, index)
  BY EventType
<1> QED
  BY <1>1, <1>2, Zenon

\* Handlers that write one event e and go from st to s.
LEMMA EventStep ==
    ASSUME NEW st, Good(st), NEW s, StateOK(s), NEW e \in Events,
           s.events = Append(st.events, e),
           e.ev \in {"delta", "stop"} => Opens(st)[e.index] > 0,
           \A x \in Nat : Opens(s)[x] = Opens(st)[x] + Hit(e, "start", x) - Hit(e, "stop", x)
    PROVE  Good(s)
<1>1. PICK f \in [Nat -> Nat] : f = Opens(st)
  BY OpensType DEF Good
<1>2. PICK g \in [Nat -> Nat] : g = Opens(s)
  BY OpensType
<1>3. out \in Seq(Events) /\ st.events \in Seq(Events)
  BY DEF Good, StateOK, States
<1>4. out \o s.events = Append(out \o st.events, e)
  BY <1>3, AppendLast
<1>5. PICK log : log = out \o st.events
  OBVIOUS
<1>6. LogOK(log, f)
  BY <1>1, <1>5 DEF Good
<1>7. /\ e.ev \in {"delta", "stop"} => f[e.index] > 0
      /\ \A x \in Nat : g[x] = f[x] + Hit(e, "start", x) - Hit(e, "stop", x)
  BY <1>1, <1>2
<1>8. LogOK(Append(log, e), g)
  BY <1>6, <1>7, LogAppend
<1> QED
  BY <1>2, <1>3, <1>4, <1>5, <1>8 DEF Good

\* The content block opens.
LEMMA OpenStep ==
    ASSUME NEW st, Good(st), st.current_type = "nil", NEW s, StateOK(s), NEW kind \in Kinds,
           s.events = Append(st.events, sse_event("start", st.block_index, kind, <<>>)),
           s.block_index = st.block_index, s.tool_states = st.tool_states, s.current_type # "nil"
    PROVE  Good(s)
<1>1. PICK e : e = sse_event("start", st.block_index, kind, <<>>)
  OBVIOUS
<1>2. st.block_index \in Nat
  BY DEF Good, StateOK, States
<1>3. e \in Events /\ e.ev = "start" /\ e.index = st.block_index
  <2>1. PICK b \in Nat : b = st.block_index
    BY <1>2
  <2>2. EventIs(sse_event("start", b, kind, <<>>), "start", b)
    BY BareEventType DEF EventNames
  <2> QED
    BY <1>1, <2>1, <2>2 DEF EventIs
<1>4. ASSUME NEW x \in Nat
      PROVE  Opens(s)[x] = Opens(st)[x] + Hit(e, "start", x) - Hit(e, "stop", x)
  BY <1>3 DEF Opens, Hit
<1> QED
  BY <1>1, <1>3, <1>4, EventStep

\* A delta of the content block.
LEMMA DeltaStep ==
    ASSUME NEW st, Good(st), st.current_type # "nil", NEW s, StateOK(s), NEW kind \in Kinds,
           NEW data \in Seq(Pieces),
           s.events = Append(st.events, sse_event("delta", st.block_index, kind, data)),
           s.block_index = st.block_index, s.tool_states = st.tool_states,
           s.current_type = st.current_type
    PROVE  Good(s)
<1>1. PICK e : e = sse_event("delta", st.block_index, kind, data)
  OBVIOUS
<1>2. st.block_index \in Nat
  BY DEF Good, StateOK, States
<1>3. e \in Events /\ e.ev = "delta" /\ e.index = st.block_index
  <2>1. PICK b \in Nat : b = st.block_index
    BY <1>2
  <2>2. EventIs(sse_event("delta", b, kind, data), "delta", b)
    BY EventType DEF EventNames
  <2> QED
    BY <1>1, <2>1, <2>2 DEF EventIs
<1>4. ASSUME NEW x \in Nat
      PROVE  Opens(s)[x] = Opens(st)[x] + Hit(e, "start", x) - Hit(e, "stop", x)
  <2>1. Opens(s) = Opens(st) /\ Opens(st)[x] \in Nat
    BY OpensType DEF Opens, Good
  <2> QED
    BY <1>3, <2>1 DEF Hit
<1>5. Opens(st)[e.index] > 0
  BY <1>2, <1>3 DEF Opens
<1> QED
  BY <1>1, <1>3, <1>4, <1>5, EventStep

\* The content block closes.
LEMMA StopStep ==
    ASSUME NEW st, Good(st), st.current_type # "nil", NEW s, StateOK(s),
           s.events = Append(st.events, sse_event("stop", st.block_index, st.current_type, <<>>)),
           s.tool_states = st.tool_states, s.current_type = "nil"
    PROVE  Good(s)
<1>1. PICK e : e = sse_event("stop", st.block_index, st.current_type, <<>>)
  OBVIOUS
<1>2. st.block_index \in Nat /\ st.current_type \in Kinds
  <2>1. st.block_index \in Nat /\ st.current_type \in {"nil", "text", "thinking"}
    BY DEF Good, StateOK, States
  <2> QED
    BY <2>1 DEF Kinds
<1>3. e \in Events /\ e.ev = "stop" /\ e.index = st.block_index
  <2>1. PICK b \in Nat : b = st.block_index
    BY <1>2
  <2>2. PICK kind \in Kinds : kind = st.current_type
    BY <1>2
  <2>3. EventIs(sse_event("stop", b, kind, <<>>), "stop", b)
    BY BareEventType DEF EventNames
  <2> QED
    BY <1>1, <2>1, <2>2, <2>3 DEF EventIs
<1>4. ASSUME NEW x \in Nat
      PROVE  Opens(s)[x] = Opens(st)[x] + Hit(e, "start", x) - Hit(e, "stop", x)
  BY <1>3 DEF Opens, Hit
<1>5. Opens(st)[e.index] > 0
  BY <1>2, <1>3 DEF Opens
<1> QED
  BY <1>1, <1>3, <1>4, <1>5, EventStep

\* A step that writes nothing and opens nothing.
LEMMA QuietStep ==
    ASSUME NEW st, Good(st), NEW s, StateOK(s), s.events = st.events, Opens(s) = Opens(st)
    PROVE  Good(s)
<1> QED
  BY DEF Good

\* The same blocks are open in st and in s.
SameBlocks(st, s) ==
    /\ s.current_type = st.current_type /\ s.block_index = st.block_index
    /\ \A i \in ToolIndex :
          /\ s.tool_states[i].started = st.tool_states[i].started
          /\ st.tool_states[i].started => s.tool_states[i].block_index = st.tool_states[i].block_index

LEMMA SameOpens ==
    ASSUME NEW st, NEW s, StateOK(st), StateOK(s), SameBlocks(st, s)
    PROVE  Opens(s) = Opens(st) /\ Opens(st) \in [Nat -> Nat]
<1>1. "t0" \in ToolIndex /\ "t1" \in ToolIndex
  BY DEF ToolIndex
<1>2. ASSUME NEW x \in Nat PROVE Opens(s)[x] = Opens(st)[x]
  BY <1>1 DEF Opens, SameBlocks
<1>3. Opens(s) \in [Nat -> Nat] /\ Opens(st) \in [Nat -> Nat]
  BY OpensType
<1> QED
  BY <1>2, <1>3

\* An event of the message: no block opens or closes.
LEMMA MessageStep ==
    ASSUME NEW st, Good(st), NEW s, StateOK(s), SameBlocks(st, s),
           NEW ev \in {"message_start", "message_delta", "message_stop"}, NEW kind \in Kinds,
           s.events = Append(st.events, sse_event(ev, 0, kind, <<>>))
    PROVE  Good(s)
<1>1. PICK e : e = sse_event(ev, 0, kind, <<>>)
  OBVIOUS
<1>2. EventIs(sse_event(ev, 0, kind, <<>>), ev, 0)
  BY BareEventType DEF EventNames
<1>3. e \in Events /\ e.ev = ev /\ e.index = 0
  BY <1>1, <1>2 DEF EventIs
<1>4. Opens(s) = Opens(st) /\ Opens(st) \in [Nat -> Nat]
  BY SameOpens DEF Good
<1>5. ASSUME NEW x \in Nat
      PROVE  Opens(s)[x] = Opens(st)[x] + Hit(e, "start", x) - Hit(e, "stop", x)
  <2>1. Hit(e, "start", x) = 0 /\ Hit(e, "stop", x) = 0
    BY <1>3 DEF Hit
  <2>2. Opens(st)[x] \in Nat
    BY <1>4
  <2> QED
    BY <1>4, <2>1, <2>2
<1>6. e.ev \notin {"delta", "stop"}
  BY <1>3
<1> QED
  BY <1>1, <1>3, <1>5, <1>6, EventStep

\* The block of a tool call opens.
LEMMA ToolStartStep ==
    ASSUME NEW st, Good(st), NEW s, StateOK(s), NEW i \in ToolIndex,
           s.current_type = st.current_type, s.block_index = st.block_index,
           ~st.tool_states[i].started, s.tool_states[i].started,
           \A j \in ToolIndex \ {i} : s.tool_states[j] = st.tool_states[j],
           s.events = Append(st.events, sse_event("start", s.tool_states[i].block_index, "tool", <<>>))
    PROVE  Good(s)
<1>1. PICK b \in Nat : b = s.tool_states[i].block_index
  BY DEF StateOK, States, ToolStates
<1>2. PICK e : e = sse_event("start", b, "tool", <<>>)
  OBVIOUS
<1>3. e \in Events /\ e.ev = "start" /\ e.index = b
  <2>1. EventIs(sse_event("start", b, "tool", <<>>), "start", b)
    BY BareEventType DEF EventNames, Kinds
  <2> QED
    BY <1>2, <2>1 DEF EventIs
<1>4. ASSUME NEW x \in Nat
      PROVE  Opens(s)[x] = Opens(st)[x] + Hit(e, "start", x) - Hit(e, "stop", x)
  <2>1. CASE i = "t0"
    <3>1. s.tool_states["t1"] = st.tool_states["t1"]
      BY <2>1 DEF ToolIndex
    <3> QED
      BY <1>1, <1>3, <2>1, <3>1 DEF Opens, Hit
  <2>2. CASE i = "t1"
    <3>1. s.tool_states["t0"] = st.tool_states["t0"]
      BY <2>2 DEF ToolIndex
    <3> QED
      BY <1>1, <1>3, <2>2, <3>1 DEF Opens, Hit
  <2> QED
    BY <2>1, <2>2 DEF ToolIndex
<1> QED
  BY <1>1, <1>2, <1>3, <1>4, EventStep

\* A delta of a tool call's block.
LEMMA ToolDeltaStep ==
    ASSUME NEW st, Good(st), NEW s, StateOK(s), NEW i \in ToolIndex, SameBlocks(st, s),
           st.tool_states[i].started, NEW data \in Seq(Pieces),
           s.events = Append(st.events, sse_event("delta", st.tool_states[i].block_index, "tool", data))
    PROVE  Good(s)
<1>1. PICK b \in Nat : b = st.tool_states[i].block_index
  BY DEF StateOK, States, ToolStates, Good
<1>2. PICK e : e = sse_event("delta", b, "tool", data)
  OBVIOUS
<1>3. e \in Events /\ e.ev = "delta" /\ e.index = b
  <2>1. EventIs(sse_event("delta", b, "tool", data), "delta", b)
    BY EventType DEF EventNames, Kinds
  <2> QED
    BY <1>2, <2>1 DEF EventIs
<1>4. Opens(s) = Opens(st) /\ Opens(st) \in [Nat -> Nat]
  BY SameOpens DEF Good
<1>5. ASSUME NEW x \in Nat
      PROVE  Opens(s)[x] = Opens(st)[x] + Hit(e, "start", x) - Hit(e, "stop", x)
  BY <1>3, <1>4 DEF Hit
<1>6. Opens(st)[b] > 0
  <2>1. CASE i = "t0"
    BY <1>1, <2>1 DEF Opens
  <2>2. CASE i = "t1"
    BY <1>1, <2>2 DEF Opens
  <2> QED
    BY <2>1, <2>2 DEF ToolIndex
<1> QED
  BY <1>1, <1>2, <1>3, <1>5, <1>6, EventStep

---------------------------------------------------------------------------
(* The handlers                                                            *)

LEMMA EventsGrow ==
    ASSUME NEW st, st \in States, NEW ev \in EventNames, NEW index \in Nat, NEW kind \in Kinds,
           NEW data \in Seq(Pieces)
    PROVE  Append(st.events, sse_event(ev, index, kind, data)) \in Seq(Events)
<1>1. PICK e : e = sse_event(ev, index, kind, data)
  OBVIOUS
<1>2. e \in Events
  BY <1>1, EventType DEF EventIs
<1>3. st.events \in Seq(Events)
  BY DEF States
<1> QED
  BY <1>1, <1>2, <1>3

\* Emit changes the events and nothing else.
Emitted(st, s, ev, index, kind, data) ==
    /\ s \in States
    /\ s.events = Append(st.events, sse_event(ev, index, kind, data))
    /\ s.block_index = st.block_index /\ s.current_type = st.current_type
    /\ s.text_started = st.text_started /\ s.first_content = st.first_content
    /\ s.think_detected = st.think_detected /\ s.message_started = st.message_started
    /\ s.stop_reason = st.stop_reason /\ s.tool_states = st.tool_states

LEMMA EmitFields ==
    ASSUME NEW st \in States, NEW ev \in EventNames, NEW index \in Nat, NEW kind \in Kinds,
           NEW data \in Seq(Pieces)
    PROVE  Emitted(st, Emit(st, ev, index, kind, data), ev, index, kind, data)
<1>1. PICK es \in Seq(Events) : es = Append(st.events, sse_event(ev, index, kind, data))
  BY EventsGrow
<1>2. Emit(st, ev, index, kind, data) = [st EXCEPT !.events = es]
  BY <1>1 DEF Emit
<1>3. Emitted(st, [st EXCEPT !.events = es], ev, index, kind, data)
  BY <1>1 DEF Emitted, States
<1> QED
  BY <1>2, <1>3, Zenon

\* Deltas of the content block.
LEMMA BlockDeltaGood ==
    ASSUME NEW st, Good(st), st.current_type # "nil", NEW kind \in Kinds, NEW data \in Seq(Pieces)
    PROVE  /\ Good(BlockDelta(st, kind, data))
           /\ BlockDelta(st, kind, data).current_type = st.current_type
           /\ BlockDelta(st, kind, data).block_index = st.block_index
<1>1. st \in States /\ StateOK(st)
  BY DEF Good, StateOK
<1>2. PICK b \in Nat : b = st.block_index
  BY <1>1 DEF States
<1>3. PICK s : s = BlockDelta(st, kind, data)
  OBVIOUS
<1>4. Emitted(st, Emit(st, "delta", b, kind, data), "delta", b, kind, data)
  BY <1>1, EmitFields DEF EventNames
<1>5. Emitted(st, s, "delta", b, kind, data)
  BY <1>2, <1>3, <1>4 DEF BlockDelta
<1>6. StateOK(s)
  BY <1>1, <1>5 DEF StateOK, Emitted
<1>7. Good(s)
  BY <1>2, <1>5, <1>6, DeltaStep DEF Emitted
<1> QED
  BY <1>3, <1>5, <1>7 DEF Emitted

\* A step that opens the content block, from a state with the same log and blocks.
Opened(st, s, kind) ==
    /\ StateOK(s)
    /\ s.events = Append(st.events, sse_event("start", st.block_index, kind, <<>>))
    /\ s.block_index = st.block_index /\ s.tool_states = st.tool_states
    /\ s.current_type = kind

LEMMA OpenedGood ==
    ASSUME NEW st, Good(st), st.current_type = "nil", NEW kind \in {"text", "thinking"},
           NEW s, Opened(st, s, kind)
    PROVE  Good(s) /\ s.current_type # "nil" /\ s.block_index = st.block_index
<1>1. kind \in Kinds /\ kind # "nil"
  BY DEF Kinds
<1> QED
  BY <1>1, OpenStep DEF Opened

\* BlockStart on a state that differs from st in its flags only.
LEMMA BlockStartGood ==
    ASSUME NEW st, Good(st), st.current_type = "nil", NEW kind \in {"text", "thinking"},
           NEW mid \in States, mid.events = st.events, mid.block_index = st.block_index,
           mid.tool_states = st.tool_states, mid.current_type = kind, ~mid.first_content,
           mid.text_started <=> kind = "text", kind = "thinking" => mid.think_detected
    PROVE  /\ Good(BlockStart(mid, kind))
           /\ BlockStart(mid, kind).current_type = kind
<1>1. PICK b \in Nat : b = st.block_index
  BY DEF Good, StateOK, States
<1>2. kind \in Kinds
  BY DEF Kinds
<1>3. PICK data \in Seq(Pieces) : data = <<>>
  <2>1. <<>> \in Seq(Pieces)
    OBVIOUS
  <2> QED
    BY <2>1, Zenon
<1>4. Emitted(mid, Emit(mid, "start", b, kind, data), "start", b, kind, data)
  BY <1>2, EmitFields DEF EventNames
<1>5. PICK s : s = BlockStart(mid, kind)
  OBVIOUS
<1>6. s = Emit(mid, "start", b, kind, data)
  BY <1>1, <1>3, <1>5 DEF BlockStart
<1>7. Emitted(mid, s, "start", b, kind, data)
  BY <1>4, <1>6, Zenon
<1>8. \A i \in ToolIndex : s.tool_states[i].started => s.tool_states[i].seen
  BY <1>7 DEF Emitted, Good, StateOK
<1>9. StateOK(s)
  BY <1>7, <1>8 DEF StateOK, Emitted
<1>10. s.events = Append(st.events, sse_event("start", st.block_index, kind, <<>>))
  BY <1>1, <1>3, <1>7 DEF Emitted
<1>11. Opened(st, s, kind)
  BY <1>7, <1>9, <1>10 DEF Opened, Emitted
<1> QED
  BY <1>5, <1>11, OpenedGood DEF Opened

LEMMA FirstDeltaGood ==
    ASSUME NEW st, Good(st), st.first_content, NEW c \in Contents, n \in Nat
    PROVE  Good(first_delta(st, c))
<1>1. st \in States /\ st.current_type = "nil" /\ ~st.text_started
  BY DEF Good, StateOK
<1>2. n + 1 \in Nat
  OBVIOUS
<1>3. X(n + 1, c) \o Y(n + 1, c) \in Seq(Pieces)
  BY <1>2, PiecesType
<1>4. CASE c.tag = "full"
  <2> DEFINE mid == [[st EXCEPT !.first_content = FALSE] EXCEPT !.think_detected = TRUE, !.current_type = "thinking"]
             open == BlockStart(mid, "thinking")
  <2>1. /\ mid \in States /\ mid.events = st.events /\ mid.block_index = st.block_index
        /\ mid.tool_states = st.tool_states /\ mid.current_type = "thinking" /\ ~mid.first_content
        /\ ~mid.text_started /\ mid.think_detected
    BY <1>1 DEF States
  <2> HIDE DEF mid
  <2>2. Good(open) /\ open.current_type = "thinking"
    BY <1>1, <2>1, BlockStartGood
  <2>3. first_delta(st, c) = IF Nonempty(c) THEN BlockDelta(open, "thinking", X(n + 1, c) \o Y(n + 1, c)) ELSE open
    BY <1>4 DEF first_delta, mid
  <2> HIDE DEF open
  <2>4. Good(BlockDelta(open, "thinking", X(n + 1, c) \o Y(n + 1, c)))
    BY <1>3, <2>2, BlockDeltaGood DEF Kinds
  <2> QED
    BY <2>2, <2>3, <2>4
<1>5. CASE c.tag # "full"
  <2> DEFINE mid == [[st EXCEPT !.first_content = FALSE] EXCEPT !.current_type = "text", !.text_started = TRUE]
             open == BlockStart(mid, "text")
  <2>1. /\ mid \in States /\ mid.events = st.events /\ mid.block_index = st.block_index
        /\ mid.tool_states = st.tool_states /\ mid.current_type = "text" /\ ~mid.first_content
        /\ mid.text_started
    BY <1>1 DEF States
  <2> HIDE DEF mid
  <2>2. Good(open) /\ open.current_type = "text"
    BY <1>1, <2>1, BlockStartGood
  <2>3. first_delta(st, c) = BlockDelta(open, "text", X(n + 1, c) \o Y(n + 1, c))
    BY <1>5 DEF first_delta, mid
  <2> HIDE DEF open
  <2>4. Good(BlockDelta(open, "text", X(n + 1, c) \o Y(n + 1, c)))
    BY <1>3, <2>2, BlockDeltaGood DEF Kinds
  <2> QED
    BY <2>3, <2>4
<1> QED
  BY <1>4, <1>5

\* BlockStop writes the stop event and changes nothing else.
LEMMA BlockStopFields ==
    ASSUME NEW st \in States
    PROVE  Emitted(st, BlockStop(st), "stop", st.block_index, st.current_type, <<>>)
<1>1. PICK b \in Nat : b = st.block_index
  BY DEF States
<1>2. PICK data \in Seq(Pieces) : data = <<>>
  <2>1. <<>> \in Seq(Pieces)
    OBVIOUS
  <2> QED
    BY <2>1, Zenon
<1>3. PICK kind \in Kinds : kind = st.current_type
  BY DEF Kinds, States
<1>4. BlockStop(st) = Emit(st, "stop", b, kind, data)
  BY <1>1, <1>2, <1>3 DEF BlockStop
<1>5. Emitted(st, Emit(st, "stop", b, kind, data), "stop", b, kind, data)
  BY EmitFields DEF EventNames
<1> QED
  BY <1>1, <1>2, <1>3, <1>4, <1>5, Zenon

\* The content block closes: a state s with the stop event and no content block.
LEMMA BlockStopGood ==
    ASSUME NEW st, Good(st), st.current_type # "nil", NEW s \in States,
           s.events = BlockStop(st).events, s.tool_states = st.tool_states,
           s.current_type = "nil", ~s.text_started, s.first_content = st.first_content
    PROVE  Good(s)
<1>1. BlockStop(st).events = Append(st.events, sse_event("stop", st.block_index, st.current_type, <<>>))
  <2>1. st \in States
    BY DEF Good, StateOK
  <2> QED
    BY <2>1 DEF BlockStop, Emit, States
<1>2. StateOK(s)
  BY DEF StateOK, Good
<1> QED
  BY <1>1, <1>2, StopStep

LEMMA ThinkingDeltaGood ==
    ASSUME NEW st, Good(st), ~st.first_content, st.think_detected, st.current_type = "thinking",
           NEW c \in Contents, n \in Nat
    PROVE  Good(thinking_delta(st, c))
<1>1. st \in States /\ ~st.text_started
  BY DEF Good, StateOK
<1>2. n + 1 \in Nat /\ "thinking" \in Kinds /\ "text" \in Kinds
  BY DEF Kinds
<1>3. X(n + 1, c) \in Seq(Pieces) /\ Y(n + 1, c) \in Seq(Pieces)
  BY <1>2, PiecesType
<1>4. PICK told : told = BlockDelta(st, "thinking", X(n + 1, c))
  OBVIOUS
<1>5. Good(told) /\ told.current_type = "thinking"
  BY <1>2, <1>3, <1>4, BlockDeltaGood
<1>6. ~told.first_content /\ told.think_detected
  BY <1>1, <1>4 DEF BlockDelta, Emit, States
<1>7. CASE ~c.close
  BY <1>4, <1>5, <1>7 DEF thinking_delta
<1>8. CASE c.close
  <2>1. PICK before : before = IF c.tag # "none" \/ c.x THEN told ELSE st
    OBVIOUS
  <2>2. /\ Good(before) /\ before.current_type = "thinking" /\ before.think_detected
        /\ ~before.first_content
    BY <1>5, <1>6, <2>1
  <2>3. before \in States /\ ~before.text_started
    BY <2>2 DEF Good, StateOK
  <2>4. PICK stopped : stopped = BlockStop(before)
    OBVIOUS
  <2>41. /\ stopped \in States /\ stopped.tool_states = before.tool_states
         /\ ~stopped.text_started /\ stopped.first_content = before.first_content
    BY <2>2, <2>3, <2>4, BlockStopFields DEF Emitted
  <2>42. PICK next \in Nat : next = stopped.block_index + 1
    BY <2>41 DEF States
  <2> DEFINE closed == [stopped EXCEPT !.block_index = next]
             nil == [closed EXCEPT !.current_type = "nil"]
             mid == [closed EXCEPT !.current_type = "text", !.text_started = TRUE]
             text == BlockStart(mid, "text")
  <2>5. /\ nil \in States /\ nil.events = BlockStop(before).events
        /\ nil.tool_states = before.tool_states /\ nil.current_type = "nil"
        /\ ~nil.text_started /\ nil.first_content = before.first_content
    BY <2>2, <2>4, <2>41 DEF States
  <2>6. /\ mid \in States /\ mid.events = nil.events /\ mid.block_index = nil.block_index
        /\ mid.tool_states = nil.tool_states /\ mid.current_type = "text" /\ ~mid.first_content
        /\ mid.text_started
    BY <2>2, <2>4, <2>41 DEF States
  <2>7. thinking_delta(st, c) = IF c.y THEN BlockDelta(text, "text", Y(n + 1, c)) ELSE text
    BY <1>4, <1>8, <2>1, <2>4, <2>42 DEF thinking_delta
  <2> HIDE DEF nil, mid
  <2>8. Good(nil)
    BY <2>2, <2>5, BlockStopGood
  <2>9. Good(text) /\ text.current_type = "text"
    BY <2>5, <2>6, <2>8, BlockStartGood
  <2> HIDE DEF text
  <2>10. Good(BlockDelta(text, "text", Y(n + 1, c)))
    BY <1>2, <1>3, <2>9, BlockDeltaGood
  <2> QED
    BY <2>7, <2>9, <2>10
<1> QED
  BY <1>7, <1>8

LEMMA TextDeltaGood ==
    ASSUME NEW st, Good(st), ~st.first_content, st.current_type # "thinking",
           NEW c \in Contents, n \in Nat
    PROVE  Good(text_delta(st, c))
<1>1. st \in States /\ st.current_type \in {"nil", "text", "thinking"}
      /\ (st.text_started <=> st.current_type = "text")
  BY DEF Good, StateOK, States
<1>2. n + 1 \in Nat /\ "text" \in Kinds
  BY DEF Kinds
<1>3. X(n + 1, c) \o Y(n + 1, c) \in Seq(Pieces)
  BY <1>2, PiecesType
<1> DEFINE mid == [st EXCEPT !.text_started = TRUE, !.current_type = "text"]
           new == BlockStart(mid, "text")
           open == IF st.text_started THEN st ELSE new
<1>4. Good(open) /\ open.current_type = "text"
  <2>1. CASE st.text_started
    BY <1>1, <2>1
  <2>2. CASE ~st.text_started
    <3>1. /\ mid \in States /\ mid.events = st.events /\ mid.block_index = st.block_index
          /\ mid.tool_states = st.tool_states /\ mid.current_type = "text" /\ ~mid.first_content
          /\ mid.text_started
      BY <1>1 DEF States
    <3>2. st.current_type = "nil"
      BY <1>1, <2>2
    <3> HIDE DEF mid
    <3>3. Good(new) /\ new.current_type = "text"
      BY <3>1, <3>2, BlockStartGood
    <3> HIDE DEF new
    <3> QED
      BY <2>2, <3>3
  <2> QED
    BY <2>1, <2>2
<1>5. text_delta(st, c) = BlockDelta(open, "text", X(n + 1, c) \o Y(n + 1, c))
  BY DEF text_delta
<1> HIDE DEF open
<1>6. Good(BlockDelta(open, "text", X(n + 1, c) \o Y(n + 1, c)))
  BY <1>2, <1>3, <1>4, BlockDeltaGood
<1> QED
  BY <1>5, <1>6

LEMMA ContentDeltaGood ==
    ASSUME NEW st, Good(st), NEW c \in Contents \cup {NoContent}, n \in Nat
    PROVE  Good(content_delta(st, c))
<1>1. CASE c = NoContent
  BY <1>1 DEF content_delta
<1>2. CASE c # NoContent
  <2>1. c \in Contents
    BY <1>2
  <2>2. CASE st.first_content
    BY <1>2, <2>1, <2>2, FirstDeltaGood DEF content_delta
  <2>3. CASE ~st.first_content /\ st.current_type = "thinking"
    <3>1. st.think_detected
      BY <2>3 DEF Good, StateOK
    <3> QED
      BY <1>2, <2>1, <2>3, <3>1, ThinkingDeltaGood DEF content_delta
  <2>4. CASE ~st.first_content /\ st.current_type # "thinking"
    BY <1>2, <2>1, <2>4, TextDeltaGood DEF content_delta
  <2> QED
    BY <2>2, <2>3, <2>4
<1> QED
  BY <1>1, <1>2

\* The content block is closed before the first block of a tool call.
LEMMA CloseForToolGood ==
    ASSUME NEW st, Good(st)
    PROVE  Good(close_for_tool(st)) /\ close_for_tool(st).tool_states = st.tool_states
<1>1. st \in States /\ st.current_type \in {"nil", "text", "thinking"}
      /\ (st.text_started <=> st.current_type = "text")
  BY DEF Good, StateOK, States
<1>2. CASE st.current_type = "nil"
  BY <1>1, <1>2 DEF close_for_tool
<1>3. CASE st.current_type # "nil"
  <2>0. PICK stopped : stopped = BlockStop(st)
    OBVIOUS
  <2>1. /\ stopped \in States /\ stopped.tool_states = st.tool_states
        /\ stopped.first_content = st.first_content /\ stopped.text_started = st.text_started
    BY <1>1, <2>0, BlockStopFields DEF Emitted
  <2>11. PICK next \in Nat : next = stopped.block_index + 1
    BY <2>1 DEF States
  <2>2. PICK s : s = close_for_tool(st)
    OBVIOUS
  <2>21. s = IF st.current_type = "text"
             THEN [stopped EXCEPT !.block_index = next, !.text_started = FALSE, !.current_type = "nil"]
             ELSE [stopped EXCEPT !.block_index = next, !.current_type = "nil"]
    BY <1>1, <1>3, <2>0, <2>11, <2>2 DEF close_for_tool
  <2>3. /\ s \in States /\ s.events = BlockStop(st).events
        /\ s.tool_states = st.tool_states /\ s.current_type = "nil"
        /\ ~s.text_started /\ s.first_content = st.first_content
    BY <1>1, <2>0, <2>1, <2>21 DEF States
  <2>4. Good(s)
    BY <1>3, <2>3, BlockStopGood
  <2> QED
    BY <2>2, <2>3, <2>4
<1> QED
  BY <1>2, <1>3

\* Only the state of tool call i changes.
ToolSet(st, s, i, r) ==
    /\ s \in States
    /\ s.events = st.events
    /\ s.block_index = st.block_index /\ s.current_type = st.current_type
    /\ s.text_started = st.text_started /\ s.first_content = st.first_content
    /\ s.think_detected = st.think_detected
    /\ s.tool_states[i] = r
    /\ \A j \in ToolIndex \ {i} : s.tool_states[j] = st.tool_states[j]

LEMMA ToolSetFields ==
    ASSUME NEW st \in States, NEW i \in ToolIndex, NEW r \in ToolStates
    PROVE  ToolSet(st, [st EXCEPT !.tool_states[i] = r], i, r)
<1>1. PICK f \in [ToolIndex -> ToolStates] : f = [st.tool_states EXCEPT ![i] = r]
  BY DEF States
<1>2. f[i] = r /\ \A j \in ToolIndex \ {i} : f[j] = st.tool_states[j]
  BY <1>1 DEF States
<1>3. PICK s : s = [st EXCEPT !.tool_states = f]
  OBVIOUS
<1>4. [st EXCEPT !.tool_states[i] = r] = s
  BY <1>1, <1>3
<1>5. /\ s \in States /\ s.events = st.events
      /\ s.block_index = st.block_index /\ s.current_type = st.current_type
      /\ s.text_started = st.text_started /\ s.first_content = st.first_content
      /\ s.think_detected = st.think_detected /\ s.tool_states = f
  BY <1>3 DEF States
<1>6. ToolSet(st, s, i, r)
  BY <1>2, <1>5 DEF ToolSet
<1> QED
  BY <1>4, <1>6, Zenon

LEMMA ToolSetOK ==
    ASSUME NEW st, StateOK(st), NEW i \in ToolIndex, NEW r, r.started => r.seen, NEW s, ToolSet(st, s, i, r)
    PROVE  StateOK(s)
<1>1. ASSUME NEW j \in ToolIndex PROVE s.tool_states[j].started => s.tool_states[j].seen
  <2>1. CASE j = i
    BY <2>1 DEF ToolSet
  <2>2. CASE j # i
    BY <2>2 DEF ToolSet, StateOK
  <2> QED
    BY <2>1, <2>2
<1>2. s \in States
  BY DEF ToolSet
<1>3. /\ s.text_started <=> s.current_type = "text"
      /\ s.current_type = "thinking" => s.think_detected
      /\ s.first_content => s.current_type = "nil"
  BY DEF ToolSet, StateOK
<1> QED
  BY <1>1, <1>2, <1>3 DEF StateOK

\* ... and its block is neither opened nor closed.
LEMMA ToolSetGood ==
    ASSUME NEW st, Good(st), NEW i \in ToolIndex, NEW r, r.started => r.seen,
           NEW s, ToolSet(st, s, i, r), r.started = st.tool_states[i].started,
           r.started => r.block_index = st.tool_states[i].block_index
    PROVE  Good(s) /\ SameBlocks(st, s)
<1>1. StateOK(s)
  BY ToolSetOK DEF Good
<1>2. ASSUME NEW j \in ToolIndex
      PROVE  /\ s.tool_states[j].started = st.tool_states[j].started
             /\ st.tool_states[j].started => s.tool_states[j].block_index = st.tool_states[j].block_index
  <2>1. CASE j = i
    BY <2>1 DEF ToolSet
  <2>2. CASE j # i
    BY <2>2 DEF ToolSet
  <2> QED
    BY <2>1, <2>2
<1>3. SameBlocks(st, s)
  BY <1>2 DEF SameBlocks, ToolSet
<1>4. Opens(s) = Opens(st)
  BY <1>1, <1>3, SameOpens DEF Good
<1>5. s.events = st.events
  BY DEF ToolSet
<1> QED
  BY <1>1, <1>3, <1>4, <1>5, QuietStep

\* The first delta of a tool call.
ToolDeltas == [idx : ToolIndex, known : BOOLEAN, args : BOOLEAN]
LEMMA FirstSeenGood ==
    ASSUME NEW st0, Good(st0), NEW i \in ToolIndex
    PROVE  Good(first_seen(st0, i)) /\ first_seen(st0, i).tool_states[i].seen
<1>1. CASE st0.tool_states[i].seen
  BY <1>1 DEF first_seen
<1>2. CASE ~st0.tool_states[i].seen
  <2>1. PICK closed : closed = close_for_tool(st0)
    OBVIOUS
  <2>2. Good(closed) /\ closed.tool_states = st0.tool_states
    BY <2>1, CloseForToolGood
  <2>3. closed \in States
    BY <2>2 DEF Good, StateOK
  <2>4. PICK b \in Nat : b = closed.block_index
    BY <2>3 DEF States
  <2>5. PICK r : r = [no_tool EXCEPT !.block_index = b, !.seen = TRUE]
    OBVIOUS
  <2>6. r \in ToolStates /\ ~r.started /\ r.seen
    <3>1. <<>> \in Seq(Pieces)
      OBVIOUS
    <3> QED
      BY <2>5, <3>1 DEF no_tool, ToolStates
  <2>7. PICK s : s = [closed EXCEPT !.tool_states[i] = r]
    OBVIOUS
  <2>8. ToolSet(closed, s, i, r)
    BY <2>3, <2>6, <2>7, ToolSetFields
  <2>9. closed.tool_states[i].started = FALSE
    <3>1. closed.tool_states[i].started \in BOOLEAN
      BY <2>3 DEF States, ToolStates
    <3>2. closed.tool_states[i].started => closed.tool_states[i].seen
      BY <2>2 DEF Good, StateOK
    <3> QED
      BY <1>2, <2>2, <3>1, <3>2
  <2>10. r.started = FALSE
    BY <2>6 DEF ToolStates
  <2>11. Good(s)
    BY <2>2, <2>6, <2>8, <2>9, <2>10, ToolSetGood
  <2>12. first_seen(st0, i) = s
    BY <1>2, <2>1, <2>4, <2>5, <2>7 DEF first_seen
  <2> QED
    BY <2>6, <2>8, <2>11, <2>12 DEF ToolSet
<1> QED
  BY <1>1, <1>2

\* An event of a tool call's block, from a state whose flags hold.
LEMMA EmitTool ==
    ASSUME NEW st, StateOK(st), NEW ev \in {"start", "delta", "stop"}, NEW b \in Nat,
           NEW data \in Seq(Pieces)
    PROVE  /\ Emitted(st, Emit(st, ev, b, "tool", data), ev, b, "tool", data)
           /\ StateOK(Emit(st, ev, b, "tool", data))
<1>1. PICK s : s = Emit(st, ev, b, "tool", data)
  OBVIOUS
<1>2. Emitted(st, s, ev, b, "tool", data)
  BY <1>1, EmitFields DEF EventNames, Kinds, StateOK
<1>3. StateOK(s)
  BY <1>2 DEF StateOK, Emitted
<1> QED
  BY <1>1, <1>2, <1>3

LEMMA EmitToolDeltaGood ==
    ASSUME NEW st, Good(st), NEW i \in ToolIndex, st.tool_states[i].started, NEW b,
           b = st.tool_states[i].block_index, NEW data \in Seq(Pieces)
    PROVE  Good(Emit(st, "delta", b, "tool", data))
<1>1. StateOK(st) /\ b \in Nat
  BY DEF Good, StateOK, States, ToolStates
<1>2. PICK s : s = Emit(st, "delta", b, "tool", data)
  OBVIOUS
<1>3. Emitted(st, s, "delta", b, "tool", data) /\ StateOK(s)
  BY <1>1, <1>2, EmitTool
<1>4. SameBlocks(st, s)
  BY <1>3 DEF SameBlocks, Emitted
<1>5. s.events = Append(st.events, sse_event("delta", st.tool_states[i].block_index, "tool", data))
  BY <1>3 DEF Emitted
<1> QED
  BY <1>2, <1>3, <1>4, <1>5, ToolDeltaStep

\* A delta of a tool call, whatever it carries: ts is what is known of the call
\* with it, pending the arguments that have come since its block could not start.
ToolPut(st, i, r) == [st EXCEPT !.tool_states[i] = r]
ToolStarted(st, i, ts, b) ==
    Emit(ToolPut(st, i, [ts EXCEPT !.started = TRUE, !.pending = <<>>]), "start", b, "tool", <<>>)
ToolTurn(st0, t, st, ts, pending, new, b) ==
    /\ st = first_seen(st0, t.idx) /\ Good(st) /\ st.tool_states[t.idx].seen
    /\ new \in Seq(Pieces) /\ new = Args(n + 1, t)
    /\ pending \in Seq(Pieces) /\ pending = st.tool_states[t.idx].pending \o new
    /\ ts \in ToolStates /\ ts.pending = pending
    /\ ts.started = st.tool_states[t.idx].started /\ ts.seen = st.tool_states[t.idx].seen
    /\ b \in Nat /\ ts.block_index = b /\ st.tool_states[t.idx].block_index = b
    /\ tool_delta(st0, t) =
         IF ~ts.started /\ ts.known
         THEN IF pending # <<>> THEN Emit(ToolStarted(st, t.idx, ts, b), "delta", b, "tool", pending)
              ELSE ToolStarted(st, t.idx, ts, b)
         ELSE IF ts.started /\ t.args THEN Emit(ToolPut(st, t.idx, ts), "delta", b, "tool", new)
         ELSE ToolPut(st, t.idx, ts)

LEMMA ToolDeltaTurn ==
    ASSUME NEW st0, Good(st0), NEW t \in ToolDeltas, n \in Nat
    PROVE  \E st, ts, pending, new, b : ToolTurn(st0, t, st, ts, pending, new, b)
<1>1. PICK i \in ToolIndex : i = t.idx
  BY DEF ToolDeltas
<1>2. PICK st : st = first_seen(st0, i)
  OBVIOUS
<1>3. Good(st) /\ st.tool_states[i].seen
  BY <1>2, FirstSeenGood
<1>4. st \in States /\ StateOK(st)
  BY <1>3 DEF Good, StateOK
<1>5. PICK old \in ToolStates : old = st.tool_states[i]
  BY <1>4 DEF States
<1>6. PICK new \in Seq(Pieces) : new = Args(n + 1, t)
  <2>1. n + 1 \in Nat /\ t.idx \in Parts /\ t.args \in BOOLEAN
    BY DEF ToolDeltas, ToolIndex, Parts
  <2>2. Args(n + 1, t) \in Seq(Pieces)
    BY <2>1, PieceType DEF Args
  <2> QED
    BY <2>2
<1>7. PICK pending \in Seq(Pieces) : pending = old.pending \o new
  <2>1. old.pending \in Seq(Pieces)
    BY DEF ToolStates
  <2> QED
    BY <2>1, ConcatProperties
<1>8. PICK known \in BOOLEAN : known = (old.known \/ t.known)
  BY DEF ToolStates, ToolDeltas
<1>9. PICK ts : ts = [old EXCEPT !.known = known, !.pending = pending]
  OBVIOUS
<1>10. /\ ts \in ToolStates /\ ts.started = old.started /\ ts.seen = old.seen
       /\ ts.block_index = old.block_index /\ ts.pending = pending
  BY <1>9 DEF ToolStates
<1>11. PICK b \in Nat : b = ts.block_index
  BY <1>10 DEF ToolStates
<1>12. tool_delta(st0, t) =
         IF ~ts.started /\ ts.known
         THEN IF pending # <<>> THEN Emit(ToolStarted(st, i, ts, b), "delta", b, "tool", pending)
              ELSE ToolStarted(st, i, ts, b)
         ELSE IF ts.started /\ t.args THEN Emit(ToolPut(st, i, ts), "delta", b, "tool", new)
         ELSE ToolPut(st, i, ts)
  <2> DEFINE got0 == [st.tool_states[i] EXCEPT !.known = @ \/ t.known, !.pending = @ \o Args(n + 1, t)]
             Set(ts2) == [st EXCEPT !.tool_states[i] = ts2]
             start0 == Emit(Set([got0 EXCEPT !.started = TRUE, !.pending = <<>>]),
                            "start", got0.block_index, "tool", <<>>)
  <2>1. got0 = ts
    BY <1>5, <1>6, <1>7, <1>8, <1>9
  <2>2. tool_delta(st0, t) =
          IF ~got0.started /\ got0.known
          THEN IF got0.pending # <<>> THEN Emit(start0, "delta", got0.block_index, "tool", got0.pending)
               ELSE start0
          ELSE IF got0.started /\ t.args
          THEN Emit(Set(got0), "delta", got0.block_index, "tool", Args(n + 1, t))
          ELSE Set(got0)
    <3>1. st = first_seen(st0, t.idx)
      BY <1>1, <1>2
    <3> QED
      BY <1>1, <3>1 DEF tool_delta, new_args
  <2> HIDE DEF got0
  <2> QED
    BY <1>6, <1>10, <1>11, <2>1, <2>2 DEF ToolStarted, ToolPut
<1>13. ToolTurn(st0, t, st, ts, pending, new, b)
  <2>1. st = first_seen(st0, t.idx) /\ Good(st) /\ st.tool_states[t.idx].seen
    BY <1>1, <1>2, <1>3
  <2>2. old = st.tool_states[t.idx]
    BY <1>1, <1>5
  <2> QED
    BY <1>1, <1>6, <1>7, <1>10, <1>11, <1>12, <2>1, <2>2, Zenon DEF ToolTurn
<1> QED
  BY <1>13, Zenon

LEMMA ToolDeltaGood ==
    ASSUME NEW st0, Good(st0), NEW t \in ToolDeltas, n \in Nat
    PROVE  Good(tool_delta(st0, t))
<1>1. PICK i \in ToolIndex : i = t.idx
  BY DEF ToolDeltas
<1>2. PICK st, ts, pending, new, b : ToolTurn(st0, t, st, ts, pending, new, b)
  BY ToolDeltaTurn
<1>3. Good(st) /\ st.tool_states[i].seen
  BY <1>1, <1>2 DEF ToolTurn
<1>4. st \in States /\ StateOK(st)
  BY <1>3 DEF Good, StateOK
<1>5. PICK old \in ToolStates : old = st.tool_states[i]
  BY <1>4 DEF States
<1>6. new \in Seq(Pieces) /\ pending \in Seq(Pieces) /\ b \in Nat
  BY <1>2 DEF ToolTurn
<1>10. /\ ts \in ToolStates /\ ts.started = old.started /\ ts.seen = old.seen
       /\ ts.block_index = old.block_index /\ ts.pending = pending
  BY <1>1, <1>2, <1>5 DEF ToolTurn
<1>11. b = ts.block_index
  BY <1>2 DEF ToolTurn
<1> DEFINE begun == [ts EXCEPT !.started = TRUE, !.pending = <<>>]
           With(ts2) == [st EXCEPT !.tool_states[i] = ts2]
           start == Emit(With(begun), "start", b, "tool", <<>>)
<1>12. tool_delta(st0, t) =
         IF ~ts.started /\ ts.known
         THEN IF pending # <<>> THEN Emit(start, "delta", b, "tool", pending) ELSE start
         ELSE IF ts.started /\ t.args THEN Emit(With(ts), "delta", b, "tool", new)
         ELSE With(ts)
  BY <1>1, <1>2 DEF ToolTurn, ToolStarted, ToolPut
<1>13. Good(With(ts)) /\ With(ts).tool_states[i] = ts
  <2>1. ToolSet(st, With(ts), i, ts)
    BY <1>4, <1>10, ToolSetFields
  <2>2. ts.started => ts.seen
    BY <1>3, <1>5, <1>10
  <2> HIDE DEF With
  <2>3. Good(With(ts))
    BY <1>3, <1>5, <1>10, <2>1, <2>2, ToolSetGood
  <2> QED
    BY <2>1, <2>3 DEF ToolSet
<1>14. ASSUME ~ts.started
       PROVE  Good(start) /\ start.tool_states[i].started /\ start.tool_states[i].block_index = b
  <2>1. begun \in ToolStates /\ begun.started /\ begun.seen /\ begun.block_index = b
    <3>1. <<>> \in Seq(Pieces)
      OBVIOUS
    <3> QED
      BY <1>3, <1>5, <1>10, <1>11, <3>1 DEF ToolStates
  <2>2. PICK w : w = With(begun)
    OBVIOUS
  <2> HIDE DEF begun
  <2>3. ToolSet(st, w, i, begun)
    BY <1>4, <2>1, <2>2, ToolSetFields
  <2>4. StateOK(w)
    BY <1>4, <2>1, <2>3, ToolSetOK
  <2>5. PICK data \in Seq(Pieces) : data = <<>>
    <3>1. <<>> \in Seq(Pieces)
      OBVIOUS
    <3> QED
      BY <3>1, Zenon
  <2>6. PICK s : s = Emit(w, "start", b, "tool", data)
    OBVIOUS
  <2>7. Emitted(w, s, "start", b, "tool", data) /\ StateOK(s)
    BY <1>6, <2>4, <2>6, EmitTool
  <2>8. /\ s.current_type = st.current_type /\ s.block_index = st.block_index
        /\ s.tool_states[i].started /\ s.tool_states[i].block_index = b
        /\ \A j \in ToolIndex \ {i} : s.tool_states[j] = st.tool_states[j]
    BY <2>1, <2>3, <2>7 DEF Emitted, ToolSet
  <2>9. s.events = Append(st.events, sse_event("start", s.tool_states[i].block_index, "tool", <<>>))
    BY <2>3, <2>5, <2>7, <2>8 DEF Emitted, ToolSet
  <2>10. ~st.tool_states[i].started
    BY <1>5, <1>10, <1>14
  <2>11. Good(s)
    BY <1>3, <2>7, <2>8, <2>9, <2>10, ToolStartStep
  <2>12. start = s
    BY <2>2, <2>5, <2>6
  <2> QED
    BY <2>8, <2>11, <2>12, Zenon
<1> HIDE DEF start, With
<1>15. CASE ~ts.started /\ ts.known
  <2>1. Good(start) /\ start.tool_states[i].started /\ start.tool_states[i].block_index = b
    BY <1>14, <1>15
  <2>2. Good(Emit(start, "delta", b, "tool", pending))
    BY <1>6, <2>1, EmitToolDeltaGood
  <2> QED
    BY <1>12, <1>15, <2>1, <2>2
<1>16. CASE ts.started /\ t.args
  <2>1. Good(Emit(With(ts), "delta", b, "tool", new))
    BY <1>6, <1>11, <1>13, <1>16, EmitToolDeltaGood
  <2> QED
    BY <1>12, <1>16, <2>1
<1>17. CASE ~(~ts.started /\ ts.known) /\ ~(ts.started /\ t.args)
  BY <1>12, <1>13, <1>17
<1> QED
  BY <1>15, <1>16, <1>17

\* The tool-call deltas of a chunk, one after the other.
ToolLoop(after, st, ts) ==
    /\ after[0] = st
    /\ \A k \in 1..Len(ts) : after[k] = tool_delta(after[k - 1], ts[k])
    /\ \A k \in 0..Len(ts) : Good(after[k])
    /\ tool_deltas(st, ts) = after[Len(ts)]
LEMMA ToolDeltasLoop ==
    ASSUME NEW st, Good(st), NEW ts \in Seq(ToolDeltas), n \in Nat
    PROVE  \E after : ToolLoop(after, st, ts)
<1> DEFINE N == Len(ts)
           S == {x \in States : Good(x)}
           Turn(x, k) == tool_delta(x, ts[k])
           Body(f) == [k \in 0..N |-> IF k = 0 THEN st ELSE Turn(f[k - 1], k)]
           G == [k \in 1..N |-> [x \in S |-> Turn(x, k)]]
<1>1. ASSUME NEW k \in 1..N, NEW x \in S PROVE Turn(x, k) \in S
  <2>1. ts[k] \in ToolDeltas /\ Good(x)
    OBVIOUS
  <2>2. Good(tool_delta(x, ts[k]))
    BY <2>1, ToolDeltaGood
  <2>3. PICK y : y = tool_delta(x, ts[k])
    OBVIOUS
  <2>4. y \in States
    BY <2>2, <2>3 DEF Good, StateOK
  <2> QED
    BY <2>2, <2>3, <2>4
<1>2. N \in Nat /\ st \in S
  BY DEF Good, StateOK
<1>20. \A x \in S : Good(x)
  OBVIOUS
<1> HIDE DEF N, S, Turn
<1>3. G \in [1..N -> [S -> S]]
  BY <1>1
<1>4. PICK f \in [0..N -> S] : IsLoop(f, st, N, G)
  <2> HIDE DEF G
  <2> QED
    BY <1>2, <1>3, LoopValues
<1>5. f = Body(f)
  <2>1. \A k \in 1..N : f[k - 1] \in S
    BY <1>2
  <2>2. f[0] = st /\ \A k \in 1..N : f[k] = Turn(f[k - 1], k)
    BY <1>4, <2>1 DEF IsLoop
  <2> QED
    BY <1>2, <2>2
<1> DEFINE after == CHOOSE g : g = Body(g)
<1>6. after = Body(after)
  <2> HIDE DEF Body
  <2> QED
    BY <1>5
<1>7. tool_deltas(st, ts) = after[N]
  BY DEF tool_deltas, N, Turn
<1> HIDE DEF after
<1>8. after[0] = st /\ \A k \in 1..N : after[k] = Turn(after[k - 1], k)
  BY <1>2, <1>6
<1> DEFINE Turned == {k \in Nat : k <= N => after[k] \in S}
<1>9. 0 \in Turned
  BY <1>2, <1>8
<1>10. ASSUME NEW k \in Nat, k \in Turned PROVE k + 1 \in Turned
  <2> SUFFICES ASSUME k + 1 <= N PROVE after[k + 1] \in S
    OBVIOUS
  <2>1. after[k] \in S /\ k + 1 \in 1..N /\ (k + 1) - 1 = k
    BY <1>2, <1>10
  <2> QED
    BY <1>1, <1>8, <2>1
<1>11. \A k \in 0..N : Good(after[k])
  <2>1. \A k \in Nat : k \in Turned
    <3> HIDE DEF Turned
    <3> QED
      BY <1>9, <1>10, SetInduction
  <2>2. \A k \in 0..N : after[k] \in S
    BY <1>2, <2>1
  <2> QED
    BY <1>20, <2>2
<1> QED
  BY <1>7, <1>8, <1>11 DEF ToolLoop, N, Turn

LEMMA ToolDeltasGood ==
    ASSUME NEW st, Good(st), NEW ts \in Seq(ToolDeltas), n \in Nat
    PROVE  Good(tool_deltas(st, ts))
<1>1. PICK after : ToolLoop(after, st, ts)
  BY ToolDeltasLoop
<1>2. Len(ts) \in 0..Len(ts)
  OBVIOUS
<1> QED
  BY <1>1, <1>2 DEF ToolLoop

LEMMA MessageStartGood ==
    ASSUME NEW st, Good(st)
    PROVE  Good(message_start(st))
<1>1. st \in States /\ StateOK(st)
  BY DEF Good, StateOK
<1>2. CASE st.message_started
  BY <1>2 DEF message_start
<1>3. CASE ~st.message_started
  <2>1. PICK mid : mid = [st EXCEPT !.message_started = TRUE]
    OBVIOUS
  <2>2. /\ mid \in States /\ mid.events = st.events /\ mid.block_index = st.block_index
        /\ mid.tool_states = st.tool_states /\ mid.current_type = st.current_type
        /\ mid.first_content = st.first_content /\ mid.text_started = st.text_started
        /\ mid.think_detected = st.think_detected
    BY <1>1, <2>1 DEF States
  <2>3. PICK data \in Seq(Pieces) : data = <<>>
    <3>1. <<>> \in Seq(Pieces)
      OBVIOUS
    <3> QED
      BY <3>1, Zenon
  <2>4. PICK s : s = Emit(mid, "message_start", 0, "nil", data)
    OBVIOUS
  <2>5. Emitted(mid, s, "message_start", 0, "nil", data)
    BY <2>2, <2>4, EmitFields DEF EventNames, Kinds
  <2>6. StateOK(s)
    BY <1>1, <2>2, <2>5 DEF StateOK, Emitted
  <2>7. SameBlocks(st, s)
    BY <2>2, <2>5 DEF SameBlocks, Emitted
  <2>8. s.events = Append(st.events, sse_event("message_start", 0, "nil", <<>>))
    BY <2>2, <2>3, <2>5 DEF Emitted
  <2>9. Good(s)
    BY <2>6, <2>7, <2>8, MessageStep DEF Kinds
  <2> QED
    BY <1>3, <2>1, <2>3, <2>4, <2>9 DEF message_start
<1> QED
  BY <1>2, <1>3

LEMMA FinishGood ==
    ASSUME NEW st, Good(st), NEW f, NEW ts
    PROVE  Good(finish(st, f, ts))
<1>1. st \in States /\ StateOK(st)
  BY DEF Good, StateOK
<1>2. CASE f = "nil"
  BY <1>2 DEF finish
<1>3. CASE f # "nil"
  <2>1. PICK r \in Kinds :
          r = IF ts # <<>> \/ \E i \in ToolIndex : st.tool_states[i].seen THEN "tool_use"
              ELSE map_stop_reason(f)
    BY DEF map_stop_reason, Kinds
  <2>2. PICK s : s = [st EXCEPT !.stop_reason = r]
    OBVIOUS
  <2>3. /\ s \in States /\ s.events = st.events /\ s.block_index = st.block_index
        /\ s.tool_states = st.tool_states /\ s.current_type = st.current_type
        /\ s.first_content = st.first_content /\ s.text_started = st.text_started
        /\ s.think_detected = st.think_detected
    BY <1>1, <2>2 DEF States
  <2>4. StateOK(s)
    BY <1>1, <2>3 DEF StateOK
  <2>5. SameBlocks(st, s)
    BY <2>3 DEF SameBlocks
  <2>6. Good(s)
    BY <1>1, <2>3, <2>4, <2>5, SameOpens, QuietStep
  <2> QED
    BY <1>3, <2>1, <2>2, <2>6 DEF finish
<1> QED
  BY <1>2, <1>3

\* A whole chunk.
LEMMA ChunkGood ==
    ASSUME NEW st, Good(st), NEW c \in Contents \cup {NoContent}, NEW ts \in Tools, NEW f, n \in Nat
    PROVE  Good(stream_chunk_from_openai(st, c, ts, f))
<1>1. ts \in Seq(ToolDeltas)
  BY ChunksAssumption DEF ToolDeltas
<1>2. PICK s1 : s1 = message_start(st)
  OBVIOUS
<1>3. PICK s2 : s2 = finish(s1, f, ts)
  OBVIOUS
<1>4. PICK s3 : s3 = content_delta(s2, c)
  OBVIOUS
<1>5. Good(s1)
  BY <1>2, MessageStartGood
<1>6. Good(s2)
  BY <1>3, <1>5, FinishGood
<1>7. Good(s3)
  BY <1>4, <1>6, ContentDeltaGood
<1>8. Good(tool_deltas(s3, ts))
  BY <1>1, <1>7, ToolDeltasGood
<1> QED
  BY <1>2, <1>3, <1>4, <1>8 DEF stream_chunk_from_openai

---------------------------------------------------------------------------
(* The end of the stream: stream_end does not clear the flags of the blocks *)
(* it closes, so the proof follows a shadow that has them cleared.          *)

Shadow(sh, st, closed) ==
    /\ Good(sh) /\ st \in States
    /\ sh.events = st.events
    /\ sh.current_type = "nil"
    /\ \A i \in ToolIndex : IF i \in closed THEN ~sh.tool_states[i].started
                            ELSE sh.tool_states[i] = st.tool_states[i]

LEMMA CloseContentShadow ==
    ASSUME NEW st, Good(st)
    PROVE  \E sh : Shadow(sh, close_content(st), {})
<1>1. st \in States /\ st.current_type \in {"nil", "text", "thinking"}
      /\ (st.text_started <=> st.current_type = "text")
  BY DEF Good, StateOK, States
<1>2. CASE st.current_type = "nil"
  <2>1. close_content(st) = st
    BY <1>1, <1>2 DEF close_content
  <2>2. Shadow(st, st, {})
    BY <1>1, <1>2 DEF Shadow
  <2> QED
    BY <2>1, <2>2, Zenon
<1>3. CASE st.current_type # "nil"
  <2>1. PICK stopped : stopped = BlockStop(st)
    OBVIOUS
  <2>2. close_content(st) = stopped
    BY <1>1, <1>3, <2>1 DEF close_content
  <2>3. /\ stopped \in States /\ stopped.tool_states = st.tool_states
        /\ stopped.first_content = st.first_content
    BY <1>1, <2>1, BlockStopFields DEF Emitted
  <2>4. PICK sh : sh = [stopped EXCEPT !.current_type = "nil", !.text_started = FALSE]
    OBVIOUS
  <2>5. /\ sh \in States /\ sh.events = stopped.events
        /\ sh.tool_states = stopped.tool_states /\ sh.current_type = "nil"
        /\ ~sh.text_started /\ sh.first_content = stopped.first_content
    BY <2>3, <2>4 DEF States
  <2>6. Good(sh)
    BY <1>3, <2>1, <2>3, <2>5, BlockStopGood
  <2>7. Shadow(sh, stopped, {})
    BY <2>3, <2>5, <2>6 DEF Shadow
  <2> QED
    BY <2>2, <2>7, Zenon
<1> QED
  BY <1>2, <1>3

\* The block of a tool call closes.
LEMMA ToolStopStep ==
    ASSUME NEW st, Good(st), NEW s, StateOK(s), NEW i \in ToolIndex,
           s.current_type = st.current_type, s.block_index = st.block_index,
           st.tool_states[i].started, ~s.tool_states[i].started,
           \A j \in ToolIndex \ {i} : s.tool_states[j] = st.tool_states[j],
           s.events = Append(st.events, sse_event("stop", st.tool_states[i].block_index, "tool", <<>>))
    PROVE  Good(s)
<1>1. PICK b \in Nat : b = st.tool_states[i].block_index
  BY DEF Good, StateOK, States, ToolStates
<1>2. PICK e : e = sse_event("stop", b, "tool", <<>>)
  OBVIOUS
<1>3. e \in Events /\ e.ev = "stop" /\ e.index = b
  <2>1. EventIs(sse_event("stop", b, "tool", <<>>), "stop", b)
    BY BareEventType DEF EventNames, Kinds
  <2> QED
    BY <1>2, <2>1 DEF EventIs
<1>4. /\ \A x \in Nat : Opens(s)[x] = Opens(st)[x] + Hit(e, "start", x) - Hit(e, "stop", x)
      /\ Opens(st)[b] > 0
  <2>1. CASE i = "t0"
    <3>1. s.tool_states["t1"] = st.tool_states["t1"]
      BY <2>1 DEF ToolIndex
    <3> QED
      BY <1>1, <1>3, <2>1, <3>1 DEF Opens, Hit
  <2>2. CASE i = "t1"
    <3>1. s.tool_states["t0"] = st.tool_states["t0"]
      BY <2>2 DEF ToolIndex
    <3> QED
      BY <1>1, <1>3, <2>2, <3>1 DEF Opens, Hit
  <2> QED
    BY <2>1, <2>2 DEF ToolIndex
<1> QED
  BY <1>1, <1>2, <1>3, <1>4, EventStep

LEMMA CloseToolShadow ==
    ASSUME NEW closed, NEW i \in ToolIndex, i \notin closed, NEW sh0, NEW st, Shadow(sh0, st, closed)
    PROVE  \E sh : Shadow(sh, close_tool(st, i), closed \cup {i})
<1>1. sh0.tool_states[i] = st.tool_states[i] /\ StateOK(sh0) /\ st \in States /\ sh0 \in States
  BY DEF Shadow, Good, StateOK
<1>2. CASE ~st.tool_states[i].started
  <2>1. close_tool(st, i) = st
    BY <1>2 DEF close_tool
  <2>2. Shadow(sh0, st, closed \cup {i})
    BY <1>1, <1>2 DEF Shadow
  <2> QED
    BY <2>1, <2>2, Zenon
<1>3. CASE st.tool_states[i].started
  <2>1. PICK old \in ToolStates : old = st.tool_states[i]
    BY <1>1 DEF States
  <2>2. PICK b \in Nat : b = old.block_index
    BY DEF ToolStates
  <2>3. PICK data \in Seq(Pieces) : data = <<>>
    <3>1. <<>> \in Seq(Pieces)
      OBVIOUS
    <3> QED
      BY <3>1, Zenon
  <2>4. PICK s : s = Emit(st, "stop", b, "tool", data)
    OBVIOUS
  <2>5. close_tool(st, i) = s
    BY <1>3, <2>1, <2>2, <2>3, <2>4 DEF close_tool
  <2>6. Emitted(st, s, "stop", b, "tool", data)
    BY <1>1, <2>4, EmitFields DEF EventNames, Kinds
  <2>7. PICK r : r = [old EXCEPT !.started = FALSE]
    OBVIOUS
  <2>8. r \in ToolStates /\ ~r.started
    BY <2>7 DEF ToolStates
  <2>9. PICK w : w = [sh0 EXCEPT !.tool_states[i] = r]
    OBVIOUS
  <2>10. ToolSet(sh0, w, i, r)
    BY <1>1, <2>8, <2>9, ToolSetFields
  <2>11. StateOK(w)
    BY <1>1, <2>8, <2>10, ToolSetOK
  <2>12. PICK sh : sh = Emit(w, "stop", b, "tool", data)
    OBVIOUS
  <2>13. Emitted(w, sh, "stop", b, "tool", data) /\ StateOK(sh)
    BY <2>11, <2>12, EmitTool
  <2>14. /\ sh.current_type = sh0.current_type /\ sh.block_index = sh0.block_index
         /\ ~sh.tool_states[i].started
         /\ \A j \in ToolIndex \ {i} : sh.tool_states[j] = sh0.tool_states[j]
         /\ sh.events = Append(sh0.events, sse_event("stop", b, "tool", <<>>))
    BY <2>3, <2>8, <2>10, <2>13 DEF ToolSet, Emitted
  <2>15. Good(sh)
    <3>1. sh0.tool_states[i].started /\ sh0.tool_states[i].block_index = b
      BY <1>1, <1>3, <2>1, <2>2
    <3>2. Good(sh0)
      BY DEF Shadow
    <3> QED
      BY <2>13, <2>14, <3>1, <3>2, ToolStopStep
  <2>16. s \in States /\ s.tool_states = st.tool_states
         /\ s.events = Append(st.events, sse_event("stop", b, "tool", <<>>))
    BY <2>3, <2>6 DEF Emitted
  <2>17. Shadow(sh, s, closed \cup {i})
    BY <2>14, <2>15, <2>16 DEF Shadow
  <2> QED
    BY <2>5, <2>17, Zenon
<1> QED
  BY <1>2, <1>3

\* An event of the message after the blocks.
LEMMA EndEventShadow ==
    ASSUME NEW closed, NEW sh0, NEW st, Shadow(sh0, st, closed),
           NEW ev \in {"message_delta", "message_stop"}, NEW kind \in Kinds
    PROVE  \E sh : Shadow(sh, Emit(st, ev, 0, kind, <<>>), closed)
<1>1. StateOK(sh0) /\ st \in States /\ sh0 \in States
  BY DEF Shadow, Good, StateOK
<1>2. PICK data \in Seq(Pieces) : data = <<>>
  <2>1. <<>> \in Seq(Pieces)
    OBVIOUS
  <2> QED
    BY <2>1, Zenon
<1>3. PICK s : s = Emit(st, ev, 0, kind, data)
  OBVIOUS
<1>4. Emitted(st, s, ev, 0, kind, data)
  BY <1>1, <1>3, EmitFields DEF EventNames
<1>5. PICK sh : sh = Emit(sh0, ev, 0, kind, data)
  OBVIOUS
<1>6. Emitted(sh0, sh, ev, 0, kind, data)
  BY <1>1, <1>5, EmitFields DEF EventNames
<1>7. StateOK(sh) /\ SameBlocks(sh0, sh)
  BY <1>1, <1>6 DEF StateOK, SameBlocks, Emitted
<1>8. Good(sh)
  <2>1. sh.events = Append(sh0.events, sse_event(ev, 0, kind, <<>>)) /\ Good(sh0)
    BY <1>2, <1>6 DEF Emitted, Shadow
  <2> QED
    BY <1>7, <2>1, MessageStep
<1>9. Shadow(sh, s, closed)
  BY <1>4, <1>6, <1>8 DEF Shadow, Emitted
<1> QED
  BY <1>2, <1>3, <1>9, Zenon

\* After stream_end the log is bracketed and no block is open.
LEMMA StreamEndCloses ==
    ASSUME NEW st, Good(st)
    PROVE  /\ out \in Seq(Events) /\ stream_end(st) \in States
           /\ LogOK(out \o stream_end(st).events, [x \in Nat |-> 0])
<1>1. PICK s1 : s1 = close_content(st)
  OBVIOUS
<1>2. PICK s2 : s2 = close_tool(s1, "t0")
  OBVIOUS
<1>3. PICK s3 : s3 = close_tool(s2, "t1")
  OBVIOUS
<1>4. PICK kind \in Kinds : kind = st.stop_reason
  BY DEF Good, StateOK, States
<1>5. PICK s4 : s4 = Emit(s3, "message_delta", 0, kind, <<>>)
  OBVIOUS
<1>6. PICK s5 : s5 = Emit(s4, "message_stop", 0, "nil", <<>>)
  OBVIOUS
<1>7. stream_end(st) = s5
  BY <1>1, <1>2, <1>3, <1>4, <1>5, <1>6 DEF stream_end
<1>8. PICK h1 : Shadow(h1, s1, {})
  BY <1>1, CloseContentShadow
<1>9. PICK h2 : Shadow(h2, s2, {} \cup {"t0"})
  BY <1>2, <1>8, CloseToolShadow DEF ToolIndex
<1>10. PICK h3 : Shadow(h3, s3, ({} \cup {"t0"}) \cup {"t1"})
  BY <1>3, <1>9, CloseToolShadow DEF ToolIndex
<1>11. PICK all : all = ({} \cup {"t0"}) \cup {"t1"}
  OBVIOUS
<1>12. PICK h4 : Shadow(h4, s4, all)
  BY <1>5, <1>10, <1>11, EndEventShadow
<1>13. PICK h5 : Shadow(h5, s5, all)
  BY <1>6, <1>12, EndEventShadow DEF Kinds
<1>14. /\ h5.current_type = "nil"
       /\ ~h5.tool_states["t0"].started /\ ~h5.tool_states["t1"].started
  BY <1>11, <1>13 DEF Shadow, ToolIndex
<1>15. Opens(h5) = [x \in Nat |-> 0]
  BY <1>14 DEF Opens
<1>16. out \in Seq(Events) /\ s5 \in States /\ LogOK(out \o s5.events, Opens(h5))
  BY <1>13 DEF Shadow, Good
<1> QED
  BY <1>7, <1>15, <1>16

---------------------------------------------------------------------------
(* The stream                                                              *)

LEMMA InitBracket == Init => BracketInv
<1> SUFFICES ASSUME Init PROVE BracketInv
  OBVIOUS
<1>1. PICK no \in ToolStates : no = no_tool
  <2>1. <<>> \in Seq(Pieces)
    OBVIOUS
  <2> QED
    BY <2>1 DEF no_tool, ToolStates
<1>2. ~no.started
  BY <1>1 DEF no_tool
<1>3. PICK none \in Seq(Events) : none = <<>>
  <2>1. <<>> \in Seq(Events)
    OBVIOUS
  <2> QED
    BY <2>1, Zenon
<1>4. PICK tools \in [ToolIndex -> ToolStates] : tools = [i \in ToolIndex |-> no]
  OBVIOUS
<1>5. state = [block_index |-> 0, current_type |-> "nil", text_started |-> FALSE, first_content |-> TRUE,
               think_detected |-> FALSE, message_started |-> FALSE, stop_reason |-> "end_turn",
               tool_states |-> tools, events |-> none]
  BY <1>1, <1>3, <1>4 DEF Init, new_stream_state
<1>6. /\ state \in States /\ state.events = none /\ state.tool_states = tools
      /\ state.current_type = "nil" /\ ~state.text_started
  BY <1>5 DEF States, Kinds
<1>7. \A i \in ToolIndex : ~state.tool_states[i].started
  BY <1>2, <1>4, <1>6
<1>8. StateOK(state)
  BY <1>6, <1>7 DEF StateOK
<1>9. Opens(state) = [x \in Nat |-> 0]
  BY <1>6, <1>7 DEF Opens, ToolIndex
<1>10. LogOK(none, [x \in Nat |-> 0])
  <2>1. Len(none) = 0 /\ DOMAIN none = {}
    BY <1>3
  <2>2. ASSUME NEW ev, NEW x PROVE CountIn(none, ev, x, 0) = 0
    <3>1. Marks(none, ev, x, 0) = {}
      BY DEF Marks
    <3> QED
      BY <3>1, FS_EmptySet DEF CountIn
  <2> QED
    BY <2>1, <2>2 DEF LogOK
<1>11. out = none /\ out \o state.events = none
  BY <1>3, <1>6 DEF Init
<1>12. Good(state)
  BY <1>8, <1>9, <1>10, <1>11 DEF Good
<1> QED
  BY <1>3, <1>6, <1>12 DEF BracketInv, Init

\* What a handler wrote is sent to the client.
LEMMA WriteGood ==
    ASSUME NEW s, Good(s), Write(s)
    PROVE  Good(state)' /\ state'.events = <<>>
<1>1. s \in States /\ StateOK(s) /\ s.events \in Seq(Events) /\ out \in Seq(Events)
  BY DEF Good, StateOK, States
<1>2. PICK none \in Seq(Events) : none = <<>>
  <2>1. <<>> \in Seq(Events)
    OBVIOUS
  <2> QED
    BY <2>1, Zenon
<1>3. PICK t : t = [s EXCEPT !.events = none]
  OBVIOUS
<1>4. /\ t \in States /\ t.events = none /\ t.block_index = s.block_index
      /\ t.tool_states = s.tool_states /\ t.current_type = s.current_type
      /\ t.first_content = s.first_content /\ t.text_started = s.text_started
      /\ t.think_detected = s.think_detected
  BY <1>1, <1>3 DEF States
<1>5. StateOK(t) /\ Opens(t) = Opens(s)
  BY <1>1, <1>4 DEF StateOK, Opens
<1>6. state' = t /\ out' = out \o s.events
  BY <1>2, <1>3 DEF Write
<1>7. out' \in Seq(Events) /\ out' \o t.events = out'
  BY <1>1, <1>2, <1>4, <1>6, ConcatProperties, ConcatEmptySeq
<1>8. LogOK(out', Opens(t))
  BY <1>5, <1>6 DEF Good
<1>9. /\ out' \in Seq(Events)
      /\ StateOK(state')
      /\ LogOK(out' \o state'.events, Opens(state'))
  BY <1>5, <1>6, <1>7, <1>8
<1>10. Good(state)'
  BY <1>9, Zenon DEF Good, StateOK, LogOK, Opens, CountIn, Marks, States
<1> QED
  BY <1>2, <1>4, <1>6, <1>10

\* Nothing happens.
LEMMA GoodSame ==
    ASSUME Good(state), out' = out, state' = state
    PROVE  Good(state)'
<1>1. /\ out' \in Seq(Events)
      /\ StateOK(state')
      /\ LogOK(out' \o state'.events, Opens(state'))
  BY DEF Good
<1> QED
  BY <1>1, Zenon DEF Good, StateOK, LogOK, Opens, CountIn, Marks, States

LEMMA StepBracket == BracketInv /\ [Next]_vars => BracketInv'
<1> SUFFICES ASSUME BracketInv, [Next]_vars PROVE BracketInv'
  OBVIOUS
<1>1. state.events = <<>> /\ n \in Nat
  BY DEF BracketInv
<1>2. ASSUME ~ended PROVE Good(state)
  BY <1>2 DEF BracketInv
<1>3. ASSUME NEW c \in Contents \cup {NoContent}, NEW ts \in Tools, NEW f \in FinishReasons, Chunk(c, ts, f)
      PROVE  BracketInv'
  <2>1. PICK s : s = stream_chunk_from_openai(state, c, ts, f)
    OBVIOUS
  <2>2. Good(s)
    BY <1>1, <1>2, <1>3, <2>1, ChunkGood DEF Chunk
  <2>3. Good(state)' /\ state'.events = <<>>
    BY <1>3, <2>1, <2>2, WriteGood DEF Chunk
  <2> QED
    BY <1>1, <1>3, <2>3 DEF Chunk, BracketInv
<1>4. CASE ChunkWithoutChoice
  <2>1. PICK s : s = message_start(state)
    OBVIOUS
  <2>2. Good(s)
    BY <1>2, <1>4, <2>1, MessageStartGood DEF ChunkWithoutChoice
  <2>3. Good(state)' /\ state'.events = <<>>
    BY <1>4, <2>1, <2>2, WriteGood DEF ChunkWithoutChoice
  <2> QED
    BY <1>1, <1>4, <2>3 DEF ChunkWithoutChoice, BracketInv
<1>5. CASE ChunkUnreadable
  <2>1. Good(state)'
    BY <1>2, <1>5, GoodSame DEF ChunkUnreadable
  <2> QED
    BY <1>1, <1>5, <2>1 DEF ChunkUnreadable, BracketInv
<1>6. CASE End
  <2>1. PICK s : s = stream_end(state)
    OBVIOUS
  <2>2. PICK zero : zero = [x \in Nat |-> 0]
    OBVIOUS
  <2>3. s \in States /\ LogOK(out \o s.events, zero)
    BY <1>2, <1>6, <2>1, <2>2, StreamEndCloses DEF End
  <2>4. out' = out \o s.events /\ state' = [s EXCEPT !.events = <<>>]
    BY <1>6, <2>1 DEF End, Write
  <2>5. state'.events = <<>>
    BY <2>3, <2>4 DEF States
  <2>6. LogOK(out', [x \in Nat |-> 0])
    BY <2>2, <2>3, <2>4
  <2>7. LogOK(out, [x \in Nat |-> 0])'
    BY <2>6 DEF LogOK, CountIn, Marks
  <2> QED
    BY <1>1, <1>6, <2>5, <2>7 DEF End, BracketInv
<1>7. CASE UNCHANGED vars
  <2>1. CASE ended
    <3>1. LogOK(out, [x \in Nat |-> 0])'
      BY <1>7, <2>1 DEF vars, BracketInv, LogOK, CountIn, Marks
    <3> QED
      BY <1>1, <1>7, <2>1, <3>1 DEF vars, BracketInv
  <2>2. CASE ~ended
    <3>1. out' = out /\ state' = state /\ Good(state)
      BY <1>2, <1>7, <2>2 DEF vars
    <3>2. Good(state)'
      BY <3>1, GoodSame
    <3> QED
      BY <1>1, <1>7, <2>2, <3>2 DEF vars, BracketInv
  <2> QED
    BY <2>1, <2>2
<1> QED
  BY <1>3, <1>4, <1>5, <1>6, <1>7 DEF Next, Done

\* The log of the client is the one the property counts in.
LEMMA BracketEnough == BracketInv => BlocksBracketed
<1> SUFFICES ASSUME BracketInv PROVE BlocksBracketed
  OBVIOUS
<1>1. PICK f : LogOK(out, f) /\ (ended => f = [x \in Nat |-> 0])
  <2>1. CASE ended
    BY <2>1 DEF BracketInv
  <2>2. CASE ~ended
    <3>1. Good(state) /\ state.events = <<>>
      BY <2>2 DEF BracketInv
    <3>2. out \in Seq(Events)
      BY <3>1 DEF Good
    <3>3. out \o state.events = out
      BY <3>1, <3>2, ConcatEmptySeq
    <3> QED
      BY <2>2, <3>1, <3>3 DEF Good
  <2> QED
    BY <2>1, <2>2
<1>2. ASSUME NEW ev, NEW x, NEW k PROVE Count(ev, x, k) = CountIn(out, ev, x, k)
  BY DEF Count, CountIn, Marks
<1>3. ASSUME ended, NEW x \in Indices PROVE Count("start", x, Len(out)) = Count("stop", x, Len(out))
  <2>1. PICK i \in DOMAIN out : x = out[i].index
    BY DEF Indices
  <2>2. out[i] \in Events
    BY <1>1, <2>1 DEF LogOK
  <2>3. x \in Nat
    BY <2>1, <2>2 DEF Events
  <2>4. CountIn(out, "start", x, Len(out)) = CountIn(out, "stop", x, Len(out)) + 0
    BY <1>1, <1>3, <2>3 DEF LogOK
  <2>5. CountIn(out, "stop", x, Len(out)) \in Nat
    <3>1. Len(out) \in Nat
      BY <1>1 DEF LogOK
    <3> QED
      BY <3>1, CountType
  <2> QED
    BY <1>2, <2>4, <2>5
<1>4. \A i \in DOMAIN out :
          /\ out[i].ev = "delta" =>
               Count("start", out[i].index, i) > Count("stop", out[i].index, i)
          /\ out[i].ev = "stop" =>
               Count("start", out[i].index, i) >= Count("stop", out[i].index, i)
  BY <1>1, <1>2 DEF LogOK
<1> QED
  BY <1>3, <1>4 DEF BlocksBracketed

\* In every stream of chunks, of any length and with any contents and tool calls,
\* the Claude events are bracketed: deltas and stops only in open blocks, and all
\* blocks closed by stream_end.
THEOREM Bracketed == Spec => []BlocksBracketed
<1>1. Init => BracketInv
  BY InitBracket
<1>2. BracketInv /\ [Next]_vars => BracketInv'
  BY StepBracket
<1>3. BracketInv => BlocksBracketed
  BY BracketEnough
<1> QED
  BY <1>1, <1>2, <1>3, PTL DEF Spec

---------------------------------------------------------------------------
(* What a log tells                                                        *)

\* The data of a log's events of some kinds.
Told(log, kinds) == FlattenSeq([i \in DOMAIN log |-> IF log[i].kind \in kinds THEN log[i].data ELSE <<>>])
Carried(e, kinds) == IF e.kind \in kinds THEN e.data ELSE <<>>
LEMMA ToldAppend ==
    ASSUME NEW log \in Seq(Events), NEW e \in Events, NEW kinds
    PROVE  /\ Told(log, kinds) \in Seq(Pieces)
           /\ Told(Append(log, e), kinds) = Told(log, kinds) \o Carried(e, kinds)
<1>1. ASSUME NEW x \in Events PROVE Carried(x, kinds) \in Seq(Pieces)
  <2>1. x.data \in Seq(Pieces)
    BY DEF Events
  <2>2. <<>> \in Seq(Pieces)
    OBVIOUS
  <2> QED
    BY <2>1, <2>2, Zenon DEF Carried
<1>2. PICK m \in Nat : m = Len(log)
  OBVIOUS
<1>3. PICK new \in Seq(Events) : new = Append(log, e)
  <2>1. Append(log, e) \in Seq(Events)
    BY AppendProperties
  <2> QED
    BY <2>1, Zenon
<1>4. /\ DOMAIN log = 1..m /\ DOMAIN new = 1..(m + 1) /\ new[m + 1] = e
      /\ \A i \in 1..m : new[i] = log[i] /\ log[i] \in Events
  BY <1>2, <1>3, AppendProperties, LenProperties
<1> DEFINE old == [i \in 1..m |-> Carried(log[i], kinds)]
           more == [i \in 1..(m + 1) |-> Carried(new[i], kinds)]
<1>5. Told(log, kinds) = FlattenSeq(old) /\ Told(new, kinds) = FlattenSeq(more)
  BY <1>4 DEF Told, Carried
<1>6. old \in Seq(Seq(Pieces)) /\ Len(old) = m
  <2>1. \A i \in 1..m : Carried(log[i], kinds) \in Seq(Pieces)
    BY <1>1, <1>4
  <2> QED
    BY <2>1
<1>7. PICK x \in Seq(Pieces) : x = Carried(e, kinds)
  BY <1>1
<1>8. more = Append(old, x)
  <2>1. \A i \in 1..(m + 1) : more[i] = Append(old, x)[i]
    <3>1. \A i \in 1..m : Append(old, x)[i] = Carried(log[i], kinds)
      BY <1>6, AppendProperties
    <3>2. Append(old, x)[m + 1] = x
      BY <1>6, AppendProperties
    <3>3. \A i \in 1..(m + 1) : i \in 1..m \/ i = m + 1
      OBVIOUS
    <3> QED
      BY <1>4, <1>7, <3>1, <3>2, <3>3
  <2>2. Append(old, x) \in Seq(Seq(Pieces)) /\ Len(Append(old, x)) = m + 1
    BY <1>6, AppendProperties
  <2>3. DOMAIN Append(old, x) = 1..(m + 1) /\ Append(old, x) = [i \in 1..(m + 1) |-> Append(old, x)[i]]
    BY <2>2, LenProperties
  <2> QED
    BY <2>1, <2>3
<1> HIDE DEF old, more
<1>9. /\ FlattenSeq(old) \in Seq(Pieces)
      /\ FlattenSeq(Append(old, x)) = FlattenSeq(old) \o x
  BY <1>6, FlatAppend
<1> QED
  BY <1>3, <1>5, <1>7, <1>8, <1>9, Zenon

LEMMA NothingTold ==
    ASSUME NEW kinds, NEW parts
    PROVE  Told(<<>>, kinds) = <<>> /\ Only(<<>>, parts) = <<>>
<1>1. PICK log : log = <<>>
  OBVIOUS
<1>2. [i \in DOMAIN log |-> IF log[i].kind \in kinds THEN log[i].data ELSE <<>>] = <<>>
  BY <1>1
<1>3. Told(log, kinds) = FlattenSeq(<<>>)
  BY <1>2 DEF Told
<1> QED
  BY <1>1, <1>3, FlatEmpty, OnlyNothing, Zenon

\* The pieces of tool call i.
Own(i) == [chunk : Nat, part : {i}]

\* Pieces of tool call i alone.
OnlyTheirs(pieces, own, i) ==
    /\ Only(pieces \o own, {i}) = Only(pieces, {i}) \o own
    /\ \A j \in ToolIndex \ {i} : Only(pieces \o own, {j}) = Only(pieces, {j})
LEMMA OnlyOwn ==
    ASSUME NEW i \in ToolIndex, NEW pieces \in Seq(Pieces), NEW own \in Seq(Own(i))
    PROVE  OnlyTheirs(pieces, own, i)
<1>1. Own(i) \subseteq Pieces
  BY DEF Own, Pieces, Parts, ToolIndex
<1> DEFINE Right == {k \in Nat : \A w \in Seq(Own(i)) : Len(w) = k => OnlyTheirs(pieces, w, i)}
<1>2. 0 \in Right
  <2> SUFFICES ASSUME NEW w \in Seq(Own(i)), Len(w) = 0 PROVE OnlyTheirs(pieces, w, i)
    OBVIOUS
  <2>1. w = <<>>
    BY EmptySeq
  <2>2. pieces \o <<>> = pieces
    BY ConcatEmptySeq
  <2>3. Only(pieces, {i}) \in Seq(Pieces)
    <3>1. PICK p \in Pieces : p = [chunk |-> 0, part |-> "x"]
      BY DEF Pieces, Parts
    <3> QED
      BY <3>1, OnlyAppend
  <2>4. Only(pieces, {i}) \o <<>> = Only(pieces, {i})
    BY <2>3, ConcatEmptySeq
  <2> QED
    BY <2>1, <2>2, <2>4, Zenon DEF OnlyTheirs
<1>3. ASSUME NEW k \in Nat, k \in Right PROVE k + 1 \in Right
  <2> SUFFICES ASSUME NEW w \in Seq(Own(i)), Len(w) = k + 1 PROVE OnlyTheirs(pieces, w, i)
    OBVIOUS
  <2>1. PICK v \in Seq(Own(i)), p \in Own(i) : w = Append(v, p) /\ Len(v) = k
    <3>1. k + 1 \in 1..Len(w) /\ 1 \in 1..Len(w) /\ k + 1 - 1 = k
      OBVIOUS
    <3>2. SubSeq(w, 1, k + 1) = SubSeq(w, 1, k + 1 - 1) \o <<w[k + 1]>>
      BY <3>1, SubSeqRecursiveSecond
    <3>3. SubSeq(w, 1, k + 1) = w
      BY SubSeqFull
    <3>4. PICK v \in Seq(Own(i)) : v = SubSeq(w, 1, k) /\ Len(v) = k
      <4>1. \A j \in 1..k : w[j] \in Own(i)
        OBVIOUS
      <4>2. SubSeq(w, 1, k) \in Seq(Own(i)) /\ Len(SubSeq(w, 1, k)) = k
        BY <4>1, SubSeqProperties
      <4> QED
        BY <4>2, Zenon
    <3>5. PICK p \in Own(i) : p = w[k + 1]
      BY <3>1
    <3>6. Append(v, p) = v \o <<p>>
      BY AppendIsConcat
    <3>7. w = Append(v, p)
      BY <3>1, <3>2, <3>3, <3>4, <3>5, <3>6, Zenon
    <3> QED
      BY <3>4, <3>7
  <2>2. OnlyTheirs(pieces, v, i)
    BY <1>3, <2>1
  <2>3. v \in Seq(Pieces) /\ p \in Pieces
    BY <1>1, SeqMonotonic
  <2>4. PICK both \in Seq(Pieces) : both = pieces \o v
    <3>1. pieces \o v \in Seq(Pieces)
      BY <2>3, ConcatProperties
    <3> QED
      BY <3>1, Zenon
  <2>5. pieces \o Append(v, p) = Append(both, p)
    <3>1. PICK one \in Seq(Pieces) : one = <<p>>
      <4>1. <<p>> \in Seq(Pieces)
        BY <2>3
      <4> QED
        BY <4>1, Zenon
    <3>2. Append(v, p) = v \o one /\ Append(both, p) = both \o one
      BY <2>3, <3>1, AppendIsConcat
    <3>3. (pieces \o v) \o one = pieces \o (v \o one)
      BY <2>3, ConcatAssociative
    <3> QED
      BY <2>4, <3>2, <3>3, Zenon
  <2>6. ASSUME NEW parts PROVE Only(pieces \o w, parts) = Only(both, parts) \o Kept(p, parts)
    BY <2>1, <2>3, <2>5, OnlyAppend
  <2>7. p.part = i
    BY DEF Own
  <2>8. Only(pieces \o w, {i}) = Only(pieces, {i}) \o w
    <3>1. Kept(p, {i}) = <<p>>
      BY <2>7 DEF Kept
    <3>2. Only(pieces \o w, {i}) = (Only(pieces, {i}) \o v) \o <<p>>
      BY <2>2, <2>4, <2>6, <3>1, Zenon DEF OnlyTheirs
    <3>3. PICK some \in Seq(Pieces) : some = Only(pieces, {i})
      <4>1. Only(pieces, {i}) \in Seq(Pieces)
        BY <2>3, OnlyAppend
      <4> QED
        BY <4>1, Zenon
    <3>4. PICK one \in Seq(Pieces) : one = <<p>>
      <4>1. <<p>> \in Seq(Pieces)
        BY <2>3
      <4> QED
        BY <4>1, Zenon
    <3>5. (some \o v) \o one = some \o (v \o one)
      <4>1. Regroup(some, v, one)
        BY <2>3, PiecesRegroup
      <4> QED
        BY <4>1, Zenon DEF Regroup
    <3>6. w = v \o one
      BY <2>1, <3>4, AppendIsConcat
    <3> QED
      BY <3>2, <3>3, <3>4, <3>5, <3>6, Zenon
  <2>9. ASSUME NEW j \in ToolIndex \ {i} PROVE Only(pieces \o w, {j}) = Only(pieces, {j})
    <3>1. Kept(p, {j}) = <<>>
      BY <2>7 DEF Kept
    <3>2. Only(both, {j}) = Only(pieces, {j})
      BY <2>2, <2>4, Zenon DEF OnlyTheirs
    <3>3. Only(pieces, {j}) \in Seq(Pieces)
      BY <2>3, OnlyAppend
    <3>4. Only(pieces, {j}) \o <<>> = Only(pieces, {j})
      BY <3>3, ConcatEmptySeq
    <3> QED
      BY <2>6, <3>1, <3>2, <3>4, Zenon
  <2> QED
    BY <2>8, <2>9 DEF OnlyTheirs
<1>4. Len(own) \in Nat
  OBVIOUS
<1>5. Len(own) \in Right
  <2> HIDE DEF Right
  <2> QED
    BY <1>2, <1>3, <1>4, SetInduction
<1> QED
  BY <1>5

---------------------------------------------------------------------------
(* What the handlers tell the client                                       *)

TextTold(st) == Told(out \o st.events, {"text", "thinking"})
ToolTold(st) == Told(out \o st.events, {"tool"})

LEMMA ToldType ==
    ASSUME out \in Seq(Events), NEW st \in States
    PROVE  TextTold(st) \in Seq(Pieces) /\ ToolTold(st) \in Seq(Pieces)
<1>1. PICK log \in Seq(Events) : log = out \o st.events
  <2>1. st.events \in Seq(Events)
    BY DEF States
  <2>2. out \o st.events \in Seq(Events)
    BY <2>1, ConcatProperties
  <2> QED
    BY <2>2, Zenon
<1>2. PICK e \in Events : TRUE
  <2>1. <<>> \in Seq(Pieces)
    OBVIOUS
  <2>2. [ev |-> "start", index |-> 0, kind |-> "nil", data |-> <<>>] \in Events
    BY <2>1 DEF Events, EventNames, Kinds
  <2> QED
    BY <2>2, Zenon
<1>3. ASSUME NEW kinds PROVE Told(log, kinds) \in Seq(Pieces)
  BY <1>2, ToldAppend
<1> QED
  BY <1>1, <1>3, Zenon DEF TextTold, ToolTold

\* The same, with x more of text and thinking.
Same(st, s) == /\ TextTold(s) = TextTold(st) /\ ToolTold(s) = ToolTold(st)
               /\ s.tool_states = st.tool_states
Says(st, s, x) == /\ TextTold(s) = TextTold(st) \o x /\ ToolTold(s) = ToolTold(st)
                  /\ s.tool_states = st.tool_states
\* ... or x more of tool arguments.
Passes(st, s, x) == /\ TextTold(s) = TextTold(st) /\ ToolTold(s) = ToolTold(st) \o x
                    /\ s.tool_states = st.tool_states

LEMMA SameEvents ==
    ASSUME NEW st, NEW s, s.events = st.events, s.tool_states = st.tool_states
    PROVE  Same(st, s)
<1> QED
  BY DEF Same, TextTold, ToolTold

LEMMA SameSays ==
    ASSUME out \in Seq(Events), NEW st \in States, NEW s, Same(st, s)
    PROVE  Says(st, s, <<>>) /\ Passes(st, s, <<>>)
<1>1. Neutral(TextTold(st)) /\ Neutral(ToolTold(st))
  BY ToldType, PiecesNeutral
<1> QED
  BY <1>1, Zenon DEF Same, Says, Passes, Neutral

LEMMA SameTwice ==
    ASSUME NEW st, NEW mid, NEW s, Same(st, mid), Same(mid, s)
    PROVE  Same(st, s)
<1> QED
  BY Zenon DEF Same

LEMMA SameThenSays ==
    ASSUME NEW st, NEW mid, NEW s, NEW x, Same(st, mid), Says(mid, s, x)
    PROVE  Says(st, s, x)
<1> QED
  BY Zenon DEF Same, Says

LEMMA SaysThenSame ==
    ASSUME NEW st, NEW mid, NEW s, NEW x, Says(st, mid, x), Same(mid, s)
    PROVE  Says(st, s, x)
<1> QED
  BY Zenon DEF Same, Says

LEMMA SaysTwice ==
    ASSUME out \in Seq(Events), NEW st \in States, NEW mid, NEW s,
           NEW x \in Seq(Pieces), NEW y \in Seq(Pieces), Says(st, mid, x), Says(mid, s, y)
    PROVE  Says(st, s, x \o y)
<1>1. Regroup(TextTold(st), x, y)
  BY ToldType, PiecesRegroup
<1> QED
  BY <1>1, Zenon DEF Says, Regroup

\* An event tells its data, by its kind.
LEMMA EmitTold ==
    ASSUME out \in Seq(Events), NEW st \in States, NEW s, NEW ev \in EventNames, NEW index \in Nat,
           NEW kind \in Kinds, NEW data \in Seq(Pieces), Emitted(st, s, ev, index, kind, data)
    PROVE  /\ kind \in {"text", "thinking"} => Says(st, s, data)
           /\ kind = "tool" => Passes(st, s, data)
           /\ data = <<>> => Same(st, s)
<1>1. PICK e : e = sse_event(ev, index, kind, data)
  OBVIOUS
<1>2. e \in Events /\ e.kind = kind /\ e.data = data
  BY <1>1 DEF sse_event, Events
<1>3. s.events = Append(st.events, e) /\ s.tool_states = st.tool_states
  BY <1>1 DEF Emitted
<1>4. PICK old \in Seq(Events) : old = st.events
  BY DEF States
<1>5. PICK log \in Seq(Events) : log = out \o old
  <2>1. out \o old \in Seq(Events)
    BY ConcatProperties
  <2> QED
    BY <2>1, Zenon
<1>6. out \o Append(old, e) = Append(out \o old, e)
  BY <1>2, AppendLast
<1>7. out \o s.events = Append(log, e)
  BY <1>3, <1>4, <1>5, <1>6, Zenon
<1>8. ASSUME NEW kinds PROVE Told(out \o s.events, kinds) = Told(log, kinds) \o Carried(e, kinds)
  BY <1>2, <1>7, ToldAppend
<1>9. /\ TextTold(s) = TextTold(st) \o Carried(e, {"text", "thinking"})
      /\ ToolTold(s) = ToolTold(st) \o Carried(e, {"tool"})
  BY <1>4, <1>5, <1>8, Zenon DEF TextTold, ToolTold
<1>10. Neutral(TextTold(st)) /\ Neutral(ToolTold(st))
  BY ToldType, PiecesNeutral
<1>11. ASSUME kind \in {"text", "thinking"} PROVE Says(st, s, data)
  <2>1. Carried(e, {"text", "thinking"}) = data /\ Carried(e, {"tool"}) = <<>>
    BY <1>2, <1>11 DEF Carried
  <2> QED
    BY <1>3, <1>9, <1>10, <2>1, Zenon DEF Says, Neutral
<1>12. ASSUME kind = "tool" PROVE Passes(st, s, data)
  <2>1. Carried(e, {"text", "thinking"}) = <<>> /\ Carried(e, {"tool"}) = data
    BY <1>2, <1>12 DEF Carried
  <2> QED
    BY <1>3, <1>9, <1>10, <2>1, Zenon DEF Passes, Neutral
<1>13. ASSUME data = <<>> PROVE Same(st, s)
  <2>1. Carried(e, {"text", "thinking"}) = <<>> /\ Carried(e, {"tool"}) = <<>>
    BY <1>2, <1>13 DEF Carried
  <2> QED
    BY <1>3, <1>9, <1>10, <2>1, Zenon DEF Same, Neutral
<1> QED
  BY <1>11, <1>12, <1>13

\* An event without data.
LEMMA BareEmitTold ==
    ASSUME out \in Seq(Events), NEW st \in States, NEW ev \in EventNames, NEW index \in Nat,
           NEW kind \in Kinds
    PROVE  /\ Emit(st, ev, index, kind, <<>>) \in States
           /\ Same(st, Emit(st, ev, index, kind, <<>>))
<1>1. PICK data \in Seq(Pieces) : data = <<>>
  <2>1. <<>> \in Seq(Pieces)
    OBVIOUS
  <2> QED
    BY <2>1, Zenon
<1>2. PICK s : s = Emit(st, ev, index, kind, data)
  OBVIOUS
<1>3. Emitted(st, s, ev, index, kind, data)
  BY <1>2, EmitFields
<1>4. s \in States /\ Same(st, s)
  BY <1>1, <1>3, EmitTold DEF Emitted
<1> QED
  BY <1>1, <1>2, <1>4, Zenon

LEMMA BlockTold ==
    ASSUME out \in Seq(Events), NEW st \in States
    PROVE  /\ BlockStop(st) \in States /\ Same(st, BlockStop(st))
           /\ \A kind \in {"text", "thinking"} :
                 BlockStart(st, kind) \in States /\ Same(st, BlockStart(st, kind))
<1>1. PICK b \in Nat : b = st.block_index
  BY DEF States
<1>2. PICK type \in Kinds : type = st.current_type
  BY DEF Kinds, States
<1>3. BlockStop(st) = Emit(st, "stop", b, type, <<>>)
  BY <1>1, <1>2 DEF BlockStop
<1>4. Emit(st, "stop", b, type, <<>>) \in States /\ Same(st, Emit(st, "stop", b, type, <<>>))
  BY BareEmitTold DEF EventNames
<1>5. ASSUME NEW kind \in {"text", "thinking"}
      PROVE  BlockStart(st, kind) \in States /\ Same(st, BlockStart(st, kind))
  <2>1. BlockStart(st, kind) = Emit(st, "start", b, kind, <<>>)
    BY <1>1 DEF BlockStart
  <2>2. kind \in Kinds
    BY DEF Kinds
  <2>3. Emit(st, "start", b, kind, <<>>) \in States /\ Same(st, Emit(st, "start", b, kind, <<>>))
    BY <2>2, BareEmitTold DEF EventNames
  <2> QED
    BY <2>1, <2>3, Zenon
<1> QED
  BY <1>3, <1>4, <1>5, Zenon

LEMMA BlockDeltaSays ==
    ASSUME out \in Seq(Events), NEW st \in States, NEW kind \in {"text", "thinking"},
           NEW data \in Seq(Pieces)
    PROVE  BlockDelta(st, kind, data) \in States /\ Says(st, BlockDelta(st, kind, data), data)
<1>1. PICK b \in Nat : b = st.block_index
  BY DEF States
<1>2. kind \in Kinds
  BY DEF Kinds
<1>3. PICK s : s = Emit(st, "delta", b, kind, data)
  OBVIOUS
<1>4. Emitted(st, s, "delta", b, kind, data)
  BY <1>2, <1>3, EmitFields DEF EventNames
<1>5. Says(st, s, data)
  BY <1>2, <1>4, EmitTold DEF EventNames
<1>6. BlockDelta(st, kind, data) = s
  BY <1>1, <1>3 DEF BlockDelta
<1> QED
  BY <1>4, <1>5, <1>6 DEF Emitted

\* The content of a delta is told, all of it and in order.
LEMMA FirstDeltaSays ==
    ASSUME out \in Seq(Events), NEW st \in States, NEW c \in Contents, n \in Nat
    PROVE  /\ first_delta(st, c) \in States
           /\ Says(st, first_delta(st, c), X(n + 1, c) \o Y(n + 1, c))
<1>1. n + 1 \in Nat
  OBVIOUS
<1>2. PICK data \in Seq(Pieces) : data = X(n + 1, c) \o Y(n + 1, c)
  <2>1. X(n + 1, c) \o Y(n + 1, c) \in Seq(Pieces)
    BY <1>1, PiecesType
  <2> QED
    BY <2>1, Zenon
<1>3. CASE c.tag = "full"
  <2>1. PICK mid : mid = [[st EXCEPT !.first_content = FALSE] EXCEPT !.think_detected = TRUE, !.current_type = "thinking"]
    OBVIOUS
  <2>2. mid \in States /\ mid.events = st.events /\ mid.tool_states = st.tool_states
    BY <2>1 DEF States
  <2>3. PICK open : open = BlockStart(mid, "thinking")
    OBVIOUS
  <2>4. open \in States /\ Same(mid, open)
    BY <2>2, <2>3, BlockTold
  <2>5. Same(st, open)
    BY <2>2, <2>4, SameEvents, SameTwice
  <2>6. PICK s : s = BlockDelta(open, "thinking", data)
    OBVIOUS
  <2>7. s \in States /\ Says(open, s, data)
    BY <2>4, <2>6, BlockDeltaSays
  <2>8. Says(st, s, data)
    BY <2>5, <2>7, SameThenSays
  <2>9. first_delta(st, c) = IF Nonempty(c) THEN s ELSE open
    BY <1>2, <1>3, <2>1, <2>3, <2>6 DEF first_delta
  <2>10. ASSUME ~Nonempty(c) PROVE data = <<>>
    <3>1. ~c.x /\ ~c.y
      BY <2>10, ChunksAssumption DEF Nonempty
    <3>2. X(n + 1, c) = <<>> /\ Y(n + 1, c) = <<>>
      BY <3>1 DEF X, Y, Piece
    <3> QED
      BY <1>2, <3>2
  <2>11. ASSUME ~Nonempty(c) PROVE Says(st, open, data)
    BY <2>5, <2>10, <2>11, SameSays
  <2> QED
    BY <1>2, <2>4, <2>7, <2>8, <2>9, <2>11, Zenon
<1>4. CASE c.tag # "full"
  <2>1. PICK mid : mid = [[st EXCEPT !.first_content = FALSE] EXCEPT !.current_type = "text", !.text_started = TRUE]
    OBVIOUS
  <2>2. mid \in States /\ mid.events = st.events /\ mid.tool_states = st.tool_states
    BY <2>1 DEF States
  <2>3. PICK open : open = BlockStart(mid, "text")
    OBVIOUS
  <2>4. open \in States /\ Same(mid, open)
    BY <2>2, <2>3, BlockTold
  <2>5. Same(st, open)
    BY <2>2, <2>4, SameEvents, SameTwice
  <2>6. PICK s : s = BlockDelta(open, "text", data)
    OBVIOUS
  <2>7. s \in States /\ Says(open, s, data)
    BY <2>4, <2>6, BlockDeltaSays
  <2>8. Says(st, s, data)
    BY <2>5, <2>7, SameThenSays
  <2>9. first_delta(st, c) = s
    BY <1>2, <1>4, <2>1, <2>3, <2>6 DEF first_delta
  <2> QED
    BY <1>2, <2>7, <2>8, <2>9, Zenon
<1> QED
  BY <1>3, <1>4, Zenon

LEMMA ThinkingDeltaSays ==
    ASSUME out \in Seq(Events), NEW st \in States, NEW c \in Contents, n \in Nat
    PROVE  /\ thinking_delta(st, c) \in States
           /\ Says(st, thinking_delta(st, c), X(n + 1, c) \o Y(n + 1, c))
<1>1. n + 1 \in Nat
  OBVIOUS
<1>2. PICK x \in Seq(Pieces) : x = X(n + 1, c)
  BY <1>1, PiecesType
<1>3. PICK y \in Seq(Pieces) : y = Y(n + 1, c)
  BY <1>1, PiecesType
<1>4. PICK told : told = BlockDelta(st, "thinking", x)
  OBVIOUS
<1>5. told \in States /\ Says(st, told, x)
  BY <1>4, BlockDeltaSays
<1>6. ASSUME ~c.y PROVE y = <<>>
  BY <1>3, <1>6 DEF Y, Piece
<1>7. CASE ~c.close
  <2>1. thinking_delta(st, c) = told
    BY <1>2, <1>4, <1>7 DEF thinking_delta
  <2>2. y = <<>>
    BY <1>6, <1>7, ChunksAssumption
  <2>3. x \o y = x
    BY <2>2, PiecesNeutral DEF Neutral
  <2> QED
    BY <1>2, <1>3, <1>5, <2>1, <2>3, Zenon
<1>8. CASE c.close
  <2>1. PICK before : before = IF c.tag # "none" \/ c.x THEN told ELSE st
    OBVIOUS
  <2>2. before \in States /\ Says(st, before, x)
    <3>1. CASE c.tag # "none" \/ c.x
      BY <1>5, <2>1, <3>1
    <3>2. CASE ~(c.tag # "none" \/ c.x)
      <4>1. x = <<>>
        BY <1>2, <3>2 DEF X, Piece
      <4>2. before = st
        BY <2>1, <3>2
      <4>3. Says(st, st, <<>>)
        BY SameEvents, SameSays
      <4> QED
        BY <4>1, <4>2, <4>3, Zenon
    <3> QED
      BY <3>1, <3>2
  <2>3. PICK stopped : stopped = BlockStop(before)
    OBVIOUS
  <2>4. stopped \in States /\ Same(before, stopped)
    BY <2>2, <2>3, BlockTold
  <2>5. PICK next \in Nat : next = stopped.block_index + 1
    BY <2>4 DEF States
  <2>6. PICK mid : mid = [[stopped EXCEPT !.block_index = next] EXCEPT !.current_type = "text", !.text_started = TRUE]
    OBVIOUS
  <2>7. mid \in States /\ mid.events = stopped.events /\ mid.tool_states = stopped.tool_states
    BY <2>4, <2>6 DEF States
  <2>8. PICK text : text = BlockStart(mid, "text")
    OBVIOUS
  <2>9. text \in States /\ Same(mid, text)
    BY <2>7, <2>8, BlockTold
  <2>10. Same(before, text)
    <3>1. Same(stopped, mid)
      BY <2>7, SameEvents
    <3>2. Same(stopped, text)
      BY <2>9, <3>1, SameTwice
    <3> QED
      BY <2>4, <3>2, SameTwice
  <2>11. Says(st, text, x)
    BY <2>2, <2>10, SaysThenSame
  <2>12. PICK s : s = IF c.y THEN BlockDelta(text, "text", y) ELSE text
    OBVIOUS
  <2>13. s \in States /\ Says(text, s, y)
    <3>1. CASE c.y
      <4>1. BlockDelta(text, "text", y) \in States /\ Says(text, BlockDelta(text, "text", y), y)
        BY <2>9, BlockDeltaSays
      <4> QED
        BY <2>12, <3>1, <4>1, Zenon
    <3>2. CASE ~c.y
      <4>1. s = text /\ y = <<>>
        BY <1>6, <2>12, <3>2
      <4>2. Says(text, text, <<>>)
        BY <2>9, SameEvents, SameSays
      <4> QED
        BY <2>9, <4>1, <4>2, Zenon
    <3> QED
      BY <3>1, <3>2
  <2>14. Says(st, s, x \o y)
    BY <2>11, <2>13, SaysTwice
  <2>15. thinking_delta(st, c) = s
    BY <1>2, <1>3, <1>4, <1>8, <2>1, <2>3, <2>5, <2>6, <2>8, <2>12 DEF thinking_delta
  <2> QED
    BY <1>2, <1>3, <2>13, <2>14, <2>15, Zenon
<1> QED
  BY <1>7, <1>8, Zenon

LEMMA TextDeltaSays ==
    ASSUME out \in Seq(Events), NEW st \in States, NEW c \in Contents, n \in Nat
    PROVE  /\ text_delta(st, c) \in States
           /\ Says(st, text_delta(st, c), X(n + 1, c) \o Y(n + 1, c))
<1>1. n + 1 \in Nat
  OBVIOUS
<1>2. PICK data \in Seq(Pieces) : data = X(n + 1, c) \o Y(n + 1, c)
  <2>1. X(n + 1, c) \o Y(n + 1, c) \in Seq(Pieces)
    BY <1>1, PiecesType
  <2> QED
    BY <2>1, Zenon
<1>3. PICK mid : mid = [st EXCEPT !.text_started = TRUE, !.current_type = "text"]
  OBVIOUS
<1>4. mid \in States /\ mid.events = st.events /\ mid.tool_states = st.tool_states
  BY <1>3 DEF States
<1>5. PICK new : new = BlockStart(mid, "text")
  OBVIOUS
<1>6. new \in States /\ Same(mid, new)
  BY <1>4, <1>5, BlockTold
<1>7. Same(st, new)
  BY <1>4, <1>6, SameEvents, SameTwice
<1>8. PICK open : open = IF st.text_started THEN st ELSE new
  OBVIOUS
<1>9. open \in States /\ Same(st, open)
  BY <1>6, <1>7, <1>8, SameEvents
<1>10. PICK s : s = BlockDelta(open, "text", data)
  OBVIOUS
<1>11. s \in States /\ Says(open, s, data)
  BY <1>9, <1>10, BlockDeltaSays
<1>12. Says(st, s, data)
  BY <1>9, <1>11, SameThenSays
<1>13. text_delta(st, c) = s
  BY <1>2, <1>3, <1>5, <1>8, <1>10 DEF text_delta
<1> QED
  BY <1>2, <1>11, <1>12, <1>13, Zenon

\* What a content delta adds to the text.
Spoken(c) == IF c = NoContent THEN <<>> ELSE X(n + 1, c) \o Y(n + 1, c)

LEMMA ContentDeltaSays ==
    ASSUME out \in Seq(Events), NEW st \in States, NEW c \in Contents \cup {NoContent}, n \in Nat
    PROVE  content_delta(st, c) \in States /\ Says(st, content_delta(st, c), Spoken(c))
<1>1. CASE c = NoContent
  <2>1. content_delta(st, c) = st /\ Spoken(c) = <<>>
    BY <1>1 DEF content_delta, Spoken
  <2>2. Says(st, st, <<>>)
    BY SameEvents, SameSays
  <2> QED
    BY <2>1, <2>2, Zenon
<1>2. CASE c # NoContent
  <2>1. c \in Contents
    BY <1>2
  <2>2. PICK data : data = X(n + 1, c) \o Y(n + 1, c)
    OBVIOUS
  <2>3. /\ first_delta(st, c) \in States /\ Says(st, first_delta(st, c), data)
        /\ thinking_delta(st, c) \in States /\ Says(st, thinking_delta(st, c), data)
        /\ text_delta(st, c) \in States /\ Says(st, text_delta(st, c), data)
    BY <2>1, <2>2, FirstDeltaSays, ThinkingDeltaSays, TextDeltaSays
  <2>4. content_delta(st, c) \in {first_delta(st, c), thinking_delta(st, c), text_delta(st, c)}
    BY <1>2 DEF content_delta
  <2>5. Spoken(c) = data
    BY <1>2, <2>2 DEF Spoken
  <2> QED
    BY <2>3, <2>4, <2>5, Zenon
<1> QED
  BY <1>1, <1>2

---------------------------------------------------------------------------
(* The arguments of the tool calls                                         *)

\* What has come and was not told yet: with what was told of tool call i it makes up
\* all that has come for it.
Rest(st, i) == IF st.tool_states[i].started THEN <<>> ELSE st.tool_states[i].pending
ToolOK(st, args, i) ==
    /\ st.tool_states[i].pending \in Seq(Own(i))
    /\ ~st.tool_states[i].seen => st.tool_states[i].pending = <<>>
    /\ Only(ToolTold(st), {i}) \o Rest(st, i) = Only(args, {i})
ToolsTold(st, args) == \A i \in ToolIndex : ToolOK(st, args, i)

LEMMA SameTools ==
    ASSUME NEW st, NEW s, NEW args, ToolsTold(st, args), ToolTold(s) = ToolTold(st),
           s.tool_states = st.tool_states
    PROVE  ToolsTold(s, args)
<1> QED
  BY Zenon DEF ToolsTold, ToolOK, Rest

LEMMA CloseForToolSame ==
    ASSUME out \in Seq(Events), NEW st \in States
    PROVE  close_for_tool(st) \in States /\ Same(st, close_for_tool(st))
<1>1. PICK stopped : stopped = BlockStop(st)
  OBVIOUS
<1>2. stopped \in States /\ Same(st, stopped)
  BY <1>1, BlockTold
<1>3. PICK next \in Nat : next = stopped.block_index + 1
  BY <1>2 DEF States
<1>4. PICK a : a = [stopped EXCEPT !.block_index = next, !.text_started = FALSE, !.current_type = "nil"]
  OBVIOUS
<1>5. PICK b : b = [stopped EXCEPT !.block_index = next, !.current_type = "nil"]
  OBVIOUS
<1>6. /\ a \in States /\ a.events = stopped.events /\ a.tool_states = stopped.tool_states
      /\ b \in States /\ b.events = stopped.events /\ b.tool_states = stopped.tool_states
  BY <1>2, <1>4, <1>5 DEF States
<1>7. Same(st, a) /\ Same(st, b) /\ Same(st, st)
  BY <1>2, <1>6, SameEvents, SameTwice
<1>8. close_for_tool(st) \in {a, b, st}
  BY <1>1, <1>3, <1>4, <1>5 DEF close_for_tool
<1> QED
  BY <1>6, <1>7, <1>8, Zenon

LEMMA FirstSeenTold ==
    ASSUME NEW st0, Good(st0), NEW i \in ToolIndex, NEW args, ToolsTold(st0, args)
    PROVE  /\ ToolsTold(first_seen(st0, i), args)
           /\ TextTold(first_seen(st0, i)) = TextTold(st0)
<1>1. CASE st0.tool_states[i].seen
  BY <1>1 DEF first_seen
<1>2. CASE ~st0.tool_states[i].seen
  <2>1. PICK closed : closed = close_for_tool(st0)
    OBVIOUS
  <2>2. st0 \in States /\ out \in Seq(Events)
    BY DEF Good, StateOK
  <2>3. closed \in States /\ Same(st0, closed)
    BY <2>1, <2>2, CloseForToolSame
  <2>4. PICK b \in Nat : b = closed.block_index
    BY <2>3 DEF States
  <2>5. PICK r : r = [no_tool EXCEPT !.block_index = b, !.seen = TRUE]
    OBVIOUS
  <2>6. r \in ToolStates /\ ~r.started /\ r.seen /\ r.pending = <<>>
    <3>1. <<>> \in Seq(Pieces)
      OBVIOUS
    <3> QED
      BY <2>5, <3>1 DEF no_tool, ToolStates
  <2>7. PICK s : s = [closed EXCEPT !.tool_states[i] = r]
    OBVIOUS
  <2>8. ToolSet(closed, s, i, r)
    BY <2>3, <2>6, <2>7, ToolSetFields
  <2>9. TextTold(s) = TextTold(st0) /\ ToolTold(s) = ToolTold(st0)
    <3>1. s.events = closed.events
      BY <2>8 DEF ToolSet
    <3>2. TextTold(s) = TextTold(closed) /\ ToolTold(s) = ToolTold(closed)
      BY <3>1, Zenon DEF TextTold, ToolTold
    <3> QED
      BY <2>3, <3>2, Zenon DEF Same
  <2>10. ASSUME NEW j \in ToolIndex PROVE ToolOK(s, args, j)
    <3>1. ToolOK(st0, args, j)
      BY DEF ToolsTold
    <3>2. CASE j # i
      <4>1. s.tool_states[j] = st0.tool_states[j]
        BY <2>3, <2>8, <3>2 DEF ToolSet, Same
      <4> QED
        BY <2>9, <3>1, <4>1, Zenon DEF ToolOK, Rest
    <3>3. CASE j = i
      <4>1. s.tool_states[j] = r
        BY <2>8, <3>3 DEF ToolSet
      <4>2. st0.tool_states[j].pending = <<>> /\ ~st0.tool_states[j].started
        BY <1>2, <3>1, <3>3 DEF ToolOK, Good, StateOK
      <4>3. Rest(st0, j) = <<>> /\ Rest(s, j) = <<>>
        BY <2>6, <4>1, <4>2, Zenon DEF Rest
      <4>4. s.tool_states[j].pending = <<>> /\ s.tool_states[j].seen
        BY <2>6, <4>1, Zenon
      <4> QED
        BY <2>9, <3>1, <4>2, <4>3, <4>4, Zenon DEF ToolOK
    <3> QED
      BY <3>2, <3>3
  <2>11. first_seen(st0, i) = s
    BY <1>2, <2>1, <2>4, <2>5, <2>7 DEF first_seen
  <2> QED
    BY <2>9, <2>10, <2>11, Zenon DEF ToolsTold
<1> QED
  BY <1>1, <1>2

\* Of what has come for tool call i, w is told and rest is kept.
LEMMA ToolTurnTold ==
    ASSUME out \in Seq(Events), NEW st \in States, NEW s \in States, NEW i \in ToolIndex,
           NEW args \in Seq(Pieces), NEW new \in Seq(Own(i)), ToolsTold(st, args),
           NEW w \in Seq(Own(i)), ToolTold(s) = ToolTold(st) \o w,
           \A j \in ToolIndex \ {i} : s.tool_states[j] = st.tool_states[j],
           s.tool_states[i].pending \in Seq(Own(i)), s.tool_states[i].seen,
           NEW rest \in Seq(Own(i)), Rest(s, i) = rest, Rest(st, i) \o new = w \o rest
    PROVE  ToolsTold(s, args \o new)
<1>1. PICK told \in Seq(Pieces) : told = ToolTold(st)
  BY ToldType
<1>2. OnlyTheirs(told, w, i)
  BY OnlyOwn
<1>3. OnlyTheirs(args, new, i)
  BY OnlyOwn
<1>4. ASSUME NEW j \in ToolIndex PROVE ToolOK(s, args \o new, j)
  <2>1. ToolOK(st, args, j)
    BY DEF ToolsTold
  <2>2. CASE j # i
    <3>1. s.tool_states[j] = st.tool_states[j]
      BY <2>2
    <3>2. Only(args \o new, {j}) = Only(args, {j}) /\ Only(told \o w, {j}) = Only(told, {j})
      BY <1>2, <1>3, <2>2 DEF OnlyTheirs
    <3> QED
      BY <1>1, <2>1, <3>1, <3>2, Zenon DEF ToolOK, Rest
  <2>3. CASE j = i
    <3>1. PICK some \in Seq(Pieces) : some = Only(told, {i})
      <4>1. PICK p \in Pieces : p = [chunk |-> 0, part |-> "x"]
        BY DEF Pieces, Parts
      <4>2. Only(told, {i}) \in Seq(Pieces)
        BY <4>1, OnlyAppend
      <4> QED
        BY <4>2, Zenon
    <3>2. PICK left \in Seq(Own(i)) : left = Rest(st, i)
      <4>1. st.tool_states[i].pending \in Seq(Own(i)) /\ <<>> \in Seq(Own(i))
        BY <2>1, <2>3 DEF ToolOK
      <4> QED
        BY <4>1, Zenon DEF Rest
    <3>3. /\ left \in Seq(Pieces) /\ new \in Seq(Pieces) /\ w \in Seq(Pieces) /\ rest \in Seq(Pieces)
      <4>1. Own(i) \subseteq Pieces
        BY DEF Own, Pieces, Parts, ToolIndex
      <4> QED
        BY <4>1, SeqMonotonic
    <3>4. Regroup(some, left, new) /\ Regroup(some, w, rest)
      BY <3>3, PiecesRegroup
    <3>5. some \o left = Only(args, {i})
      BY <1>1, <2>1, <2>3, <3>1, <3>2, Zenon DEF ToolOK
    <3>6. Only(ToolTold(s), {i}) = some \o w
      BY <1>1, <1>2, <3>1, Zenon DEF OnlyTheirs
    <3>7. Only(args \o new, {i}) = (some \o left) \o new
      BY <1>3, <3>5, Zenon DEF OnlyTheirs
    <3>8. Only(ToolTold(s), {i}) \o Rest(s, i) = Only(args \o new, {i})
      BY <3>2, <3>4, <3>6, <3>7, Zenon DEF Regroup
    <3> QED
      BY <2>3, <3>8, Zenon DEF ToolOK
  <2> QED
    BY <2>2, <2>3
<1> QED
  BY <1>4, Zenon DEF ToolsTold

\* A delta of a tool call: its arguments are told now, or kept until its id and name
\* have come and told then, before anything that comes later.
LEMMA ToolDeltaTold ==
    ASSUME NEW st0, Good(st0), NEW t \in ToolDeltas, n \in Nat, NEW args \in Seq(Pieces),
           ToolsTold(st0, args)
    PROVE  /\ ToolsTold(tool_delta(st0, t), args \o Args(n + 1, t))
           /\ TextTold(tool_delta(st0, t)) = TextTold(st0)
<1>1. PICK i \in ToolIndex : i = t.idx
  BY DEF ToolDeltas
<1>2. PICK st, ts, pending, new, b : ToolTurn(st0, t, st, ts, pending, new, b)
  BY ToolDeltaTurn
<1>3. st \in States /\ StateOK(st) /\ st.tool_states[i].seen /\ out \in Seq(Events)
  BY <1>1, <1>2 DEF ToolTurn, Good, StateOK
<1>4. ToolsTold(st, args) /\ TextTold(st) = TextTold(st0)
  BY <1>1, <1>2, FirstSeenTold DEF ToolTurn
<1>5. new \in Seq(Pieces) /\ pending \in Seq(Pieces) /\ b \in Nat /\ new = Args(n + 1, t)
  BY <1>2 DEF ToolTurn
<1>6. /\ ts \in ToolStates /\ ts.started = st.tool_states[i].started /\ ts.seen
      /\ ts.block_index = b /\ ts.pending = pending
  BY <1>1, <1>2 DEF ToolTurn
<1>7. new \in Seq(Own(i)) /\ (~t.args => new = <<>>)
  <2>0. PICK k \in Nat : k = n + 1
    OBVIOUS
  <2>1. PICK p \in Own(i) : p = [chunk |-> k, part |-> t.idx]
    <3>1. [chunk |-> k, part |-> i] \in Own(i)
      BY DEF Own
    <3> QED
      BY <1>1, <3>1, Zenon
  <2>2. <<p>> \in Seq(Own(i)) /\ <<>> \in Seq(Own(i))
    OBVIOUS
  <2>3. new = IF t.args THEN <<p>> ELSE <<>>
    BY <1>5, <2>0, <2>1 DEF Args, Piece
  <2> QED
    BY <2>2, <2>3, Zenon
<1>8. PICK kept \in Seq(Own(i)) : kept = st.tool_states[i].pending
  BY <1>4 DEF ToolsTold, ToolOK
<1>9. pending = kept \o new
  BY <1>1, <1>2, <1>8 DEF ToolTurn
<1>10. pending \in Seq(Own(i))
  BY <1>7, <1>9, ConcatProperties
<1>11. PICK none \in Seq(Own(i)) : none = <<>>
  <2>1. <<>> \in Seq(Own(i))
    OBVIOUS
  <2> QED
    BY <2>1, Zenon
<1>12. /\ none \o new = new /\ new \o none = new /\ none \o pending = pending
       /\ pending \o none = pending
  BY <1>7, <1>10, <1>11, ConcatEmptySeq
<1>13. ts.started \in BOOLEAN
  BY <1>6 DEF ToolStates
<1>14. CASE ~ts.started /\ ts.known
  <2>1. PICK begun : begun = [ts EXCEPT !.started = TRUE, !.pending = <<>>]
    OBVIOUS
  <2>2. begun \in ToolStates /\ begun.started /\ begun.seen /\ begun.pending = none
    <3>1. <<>> \in Seq(Pieces)
      OBVIOUS
    <3> QED
      BY <1>6, <1>11, <2>1, <3>1 DEF ToolStates
  <2>3. PICK with : with = ToolPut(st, i, begun)
    OBVIOUS
  <2>4. ToolSet(st, with, i, begun)
    BY <1>3, <2>2, <2>3, ToolSetFields DEF ToolPut
  <2>5. with \in States /\ with.events = st.events
    BY <2>4 DEF ToolSet
  <2>6. TextTold(with) = TextTold(st) /\ ToolTold(with) = ToolTold(st)
    BY <2>5, Zenon DEF TextTold, ToolTold
  <2>7. PICK start : start = Emit(with, "start", b, "tool", <<>>)
    OBVIOUS
  <2>8. start \in States /\ Same(with, start)
    BY <1>3, <1>5, <2>5, <2>7, BareEmitTold DEF EventNames, Kinds
  <2>9. PICK more : more = Emit(start, "delta", b, "tool", pending)
    OBVIOUS
  <2>10. more \in States /\ Passes(start, more, pending)
    <3>1. Emitted(start, more, "delta", b, "tool", pending)
      BY <1>5, <2>8, <2>9, EmitFields DEF EventNames, Kinds
    <3> QED
      BY <1>3, <1>5, <2>8, <3>1, EmitTold DEF EventNames, Kinds, Emitted
  <2>11. PICK s : s = tool_delta(st0, t)
    OBVIOUS
  <2>12. s = IF pending # <<>> THEN more ELSE start
    <3>1. ToolStarted(st, t.idx, ts, b) = start
      BY <1>1, <2>1, <2>3, <2>7 DEF ToolStarted
    <3> QED
      BY <1>2, <1>14, <2>9, <2>11, <3>1 DEF ToolTurn
  <2>13. s \in States /\ Passes(start, s, pending)
    <3>1. CASE pending # <<>>
      BY <2>10, <2>12, <3>1
    <3>2. CASE pending = <<>>
      <4>1. Passes(start, start, <<>>)
        BY <1>3, <2>8, SameEvents, SameSays
      <4> QED
        BY <2>8, <2>12, <3>2, <4>1, Zenon
    <3> QED
      BY <3>1, <3>2
  <2>14. /\ TextTold(s) = TextTold(st) /\ ToolTold(s) = ToolTold(st) \o pending
         /\ s.tool_states = with.tool_states
    BY <2>6, <2>8, <2>13, Zenon DEF Same, Passes
  <2>15. s.tool_states[i] = begun /\ \A j \in ToolIndex \ {i} : s.tool_states[j] = st.tool_states[j]
    BY <2>4, <2>14 DEF ToolSet
  <2>16. Rest(st, i) = kept /\ Rest(s, i) = none
    BY <1>6, <1>8, <1>11, <1>14, <2>2, <2>15, Zenon DEF Rest
  <2>17. Rest(st, i) \o new = pending \o none
    BY <1>9, <1>12, <2>16, Zenon
  <2>18. s.tool_states[i].pending \in Seq(Own(i)) /\ s.tool_states[i].seen
    BY <1>11, <2>2, <2>15, Zenon
  <2>19. ToolsTold(s, args \o new)
    BY <1>3, <1>4, <1>7, <1>10, <1>11, <2>13, <2>14, <2>15, <2>16, <2>17, <2>18, ToolTurnTold
  <2> QED
    BY <1>4, <1>5, <2>11, <2>14, <2>19, Zenon
<1>15. CASE ~(~ts.started /\ ts.known)
  <2>1. PICK with : with = ToolPut(st, i, ts)
    OBVIOUS
  <2>2. ToolSet(st, with, i, ts)
    BY <1>3, <1>6, <2>1, ToolSetFields DEF ToolPut
  <2>3. with \in States /\ with.events = st.events
    BY <2>2 DEF ToolSet
  <2>4. TextTold(with) = TextTold(st) /\ ToolTold(with) = ToolTold(st)
    BY <2>3, Zenon DEF TextTold, ToolTold
  <2>5. PICK more : more = Emit(with, "delta", b, "tool", new)
    OBVIOUS
  <2>6. more \in States /\ Passes(with, more, new)
    <3>1. Emitted(with, more, "delta", b, "tool", new)
      BY <1>5, <2>3, <2>5, EmitFields DEF EventNames, Kinds
    <3> QED
      BY <1>3, <1>5, <2>3, <3>1, EmitTold DEF EventNames, Kinds, Emitted
  <2>7. PICK s : s = tool_delta(st0, t)
    OBVIOUS
  <2>8. s = IF ts.started /\ t.args THEN more ELSE with
    BY <1>1, <1>2, <1>15, <2>1, <2>5, <2>7 DEF ToolTurn
  <2>9. PICK w \in Seq(Own(i)) : w = IF ts.started THEN new ELSE none
    BY <1>7, <1>11
  <2>10. s \in States /\ Passes(with, s, w)
    <3>1. CASE ts.started /\ t.args
      BY <2>6, <2>8, <2>9, <3>1
    <3>2. CASE ~(ts.started /\ t.args)
      <4>1. s = with /\ w = <<>>
        BY <1>7, <1>11, <2>8, <2>9, <3>2
      <4>2. Passes(with, with, <<>>)
        BY <1>3, <2>3, SameEvents, SameSays
      <4> QED
        BY <2>3, <4>1, <4>2, Zenon
    <3> QED
      BY <3>1, <3>2
  <2>11. /\ TextTold(s) = TextTold(st) /\ ToolTold(s) = ToolTold(st) \o w
         /\ s.tool_states = with.tool_states
    BY <2>4, <2>10, Zenon DEF Passes
  <2>12. s.tool_states[i] = ts /\ \A j \in ToolIndex \ {i} : s.tool_states[j] = st.tool_states[j]
    BY <2>2, <2>11 DEF ToolSet
  <2>13. PICK rest \in Seq(Own(i)) : rest = IF ts.started THEN none ELSE pending
    BY <1>10, <1>11
  <2>14. Rest(s, i) = rest
    BY <1>6, <1>11, <2>12, <2>13, Zenon DEF Rest
  <2>15. Rest(st, i) = IF ts.started THEN none ELSE kept
    BY <1>6, <1>8, <1>11, Zenon DEF Rest
  <2>16. Rest(st, i) \o new = w \o rest
    <3>1. CASE ts.started
      <4>1. Rest(st, i) = none /\ w = new /\ rest = none
        BY <2>9, <2>13, <2>15, <3>1, Zenon
      <4> QED
        BY <1>12, <4>1, Zenon
    <3>2. CASE ~ts.started
      <4>1. Rest(st, i) = kept /\ w = none /\ rest = pending
        BY <2>9, <2>13, <2>15, <3>2, Zenon
      <4> QED
        BY <1>9, <1>12, <4>1, Zenon
    <3> QED
      BY <3>1, <3>2, Zenon
  <2>17. s.tool_states[i].pending \in Seq(Own(i)) /\ s.tool_states[i].seen
    BY <1>6, <1>10, <2>12, Zenon
  <2>18. ToolsTold(s, args \o new)
    BY <1>3, <1>4, <1>7, <2>9, <2>10, <2>11, <2>12, <2>13, <2>14, <2>16, <2>17, ToolTurnTold
  <2> QED
    BY <1>4, <1>5, <2>7, <2>11, <2>18, Zenon
<1> QED
  BY <1>14, <1>15, Zenon

\* The tool-call deltas of a chunk: what came for the calls is what the chunk has.
LEMMA ToolDeltasTold ==
    ASSUME NEW st, Good(st), NEW ts \in Seq(ToolDeltas), n \in Nat, NEW args \in Seq(Pieces),
           ToolsTold(st, args)
    PROVE  LET new == FlattenSeq([i \in DOMAIN ts |-> Args(n + 1, ts[i])])
           IN  /\ args \o new \in Seq(Pieces)
               /\ ToolsTold(tool_deltas(st, ts), args \o new)
               /\ TextTold(tool_deltas(st, ts)) = TextTold(st)
<1>1. PICK N \in Nat : N = Len(ts)
  OBVIOUS
<1>2. DOMAIN ts = 1..N /\ \A k \in 1..N : ts[k] \in ToolDeltas
  BY <1>1
<1>3. PICK seqs \in Seq(Seq(Pieces)) :
        /\ seqs = [i \in DOMAIN ts |-> Args(n + 1, ts[i])] /\ Len(seqs) = N
        /\ \A k \in 1..N : seqs[k] = Args(n + 1, ts[k]) /\ seqs[k] \in Seq(Pieces)
  <2>1. ASSUME NEW k \in 1..N PROVE Args(n + 1, ts[k]) \in Seq(Pieces)
    <3>1. n + 1 \in Nat /\ ts[k].idx \in Parts /\ ts[k].args \in BOOLEAN
      BY <1>2 DEF ToolDeltas, ToolIndex, Parts
    <3> QED
      BY <3>1, PieceType DEF Args
  <2> DEFINE new == [i \in 1..N |-> Args(n + 1, ts[i])]
  <2>2. /\ new \in Seq(Seq(Pieces)) /\ Len(new) = N
        /\ \A k \in 1..N : new[k] = Args(n + 1, ts[k]) /\ new[k] \in Seq(Pieces)
    BY <2>1
  <2> HIDE DEF new
  <2>3. new = [i \in DOMAIN ts |-> Args(n + 1, ts[i])]
    BY <1>2 DEF new
  <2> QED
    BY <2>2, <2>3
<1>4. PICK f : IsFlat(f, seqs, Pieces)
  BY FlatExists
<1>5. /\ f \in [0..N -> Seq(Pieces)] /\ f[0] = <<>>
      /\ \A k \in 1..N : f[k] = f[k - 1] \o seqs[k]
  BY <1>3, <1>4 DEF IsFlat
<1>6. FlattenSeq(seqs) = f[N]
  BY <1>3, <1>4, FlatValue
<1>7. PICK after : ToolLoop(after, st, ts)
  BY ToolDeltasLoop
<1>8. /\ after[0] = st /\ \A k \in 1..N : after[k] = tool_delta(after[k - 1], ts[k])
      /\ \A k \in 0..N : Good(after[k])
      /\ tool_deltas(st, ts) = after[N]
  BY <1>1, <1>7 DEF ToolLoop
<1> DEFINE Right(k) == /\ args \o f[k] \in Seq(Pieces)
                       /\ ToolsTold(after[k], args \o f[k])
                       /\ TextTold(after[k]) = TextTold(st)
           Done0 == {k \in Nat : k <= N => Right(k)}
<1>9. Right(0)
  <2>1. args \o <<>> = args
    BY ConcatEmptySeq
  <2> QED
    BY <1>5, <1>8, <2>1, Zenon
<1>10. ASSUME NEW k \in 1..N, Right(k - 1) PROVE Right(k)
  <2>1. k - 1 \in 0..N
    BY <1>1
  <2>2. PICK before \in Seq(Pieces) : before = f[k - 1]
    BY <1>5, <2>1
  <2>3. PICK new \in Seq(Pieces) : new = Args(n + 1, ts[k])
    BY <1>3
  <2>4. f[k] = before \o new
    BY <1>3, <1>5, <2>2, <2>3, Zenon
  <2>5. PICK all \in Seq(Pieces) : all = args \o before
    BY <1>10, <2>2, Zenon
  <2>6. PICK mid : mid = after[k - 1]
    OBVIOUS
  <2>7. Good(mid) /\ ToolsTold(mid, all) /\ TextTold(mid) = TextTold(st)
    BY <1>8, <1>10, <2>1, <2>2, <2>5, <2>6, Zenon
  <2>8. /\ ToolsTold(tool_delta(mid, ts[k]), all \o Args(n + 1, ts[k]))
        /\ TextTold(tool_delta(mid, ts[k])) = TextTold(mid)
    BY <1>2, <2>7, ToolDeltaTold
  <2>9. Regroup(args, before, new)
    BY PiecesRegroup
  <2>10. all \o new = args \o f[k]
    BY <2>4, <2>5, <2>9, Zenon DEF Regroup
  <2>11. all \o new \in Seq(Pieces)
    BY ConcatProperties
  <2>12. after[k] = tool_delta(mid, ts[k])
    BY <1>8, <2>6, Zenon
  <2> QED
    BY <2>3, <2>7, <2>8, <2>10, <2>11, <2>12, Zenon
<1> HIDE DEF Right
<1>11. 0 \in Done0
  BY <1>9
<1>12. ASSUME NEW k \in Nat, k \in Done0 PROVE k + 1 \in Done0
  <2> SUFFICES ASSUME k + 1 <= N PROVE Right(k + 1)
    OBVIOUS
  <2>1. PICK m \in 1..N : m = k + 1
    BY <1>1
  <2>2. m - 1 = k /\ Right(k)
    BY <1>1, <1>12, <2>1
  <2>3. Right(m)
    BY <1>10, <2>2
  <2> QED
    BY <2>1, <2>3
<1>13. N \in Done0
  <2> HIDE DEF Done0
  <2> QED
    BY <1>1, <1>11, <1>12, SetInduction
<1>14. Right(N)
  BY <1>13
<1> QED
  BY <1>3, <1>6, <1>8, <1>14, Zenon DEF Right

---------------------------------------------------------------------------
(* The stream                                                              *)

\* The text of the chunks so far and of one more content delta.
LEMMA TokensSpoken ==
    ASSUME NEW tokens \in Seq(Pieces), NEW c \in Contents \cup {NoContent}, n \in Nat
    PROVE  /\ tokens \o Tokens(n + 1, c) \in Seq(Pieces)
           /\ Text(tokens \o Tokens(n + 1, c)) = Text(tokens) \o Spoken(c)
<1>1. n + 1 \in Nat
  OBVIOUS
<1>2. /\ tokens \o Tokens(n + 1, c) \in Seq(Pieces)
      /\ Text(tokens \o Tokens(n + 1, c)) = Text(tokens) \o SpokenIn(n + 1, c)
  BY <1>1, TokensText
<1> QED
  BY <1>2, Zenon DEF Spoken, SpokenIn

LEMMA MessageStartSame ==
    ASSUME out \in Seq(Events), NEW st \in States
    PROVE  message_start(st) \in States /\ Same(st, message_start(st))
<1>1. PICK mid : mid = [st EXCEPT !.message_started = TRUE]
  OBVIOUS
<1>2. mid \in States /\ mid.events = st.events /\ mid.tool_states = st.tool_states
  BY <1>1 DEF States
<1>3. PICK s : s = Emit(mid, "message_start", 0, "nil", <<>>)
  OBVIOUS
<1>4. s \in States /\ Same(mid, s)
  BY <1>2, <1>3, BareEmitTold DEF EventNames, Kinds
<1>5. Same(st, s) /\ Same(st, st)
  BY <1>2, <1>4, SameEvents, SameTwice
<1>6. message_start(st) \in {st, s}
  BY <1>1, <1>3 DEF message_start
<1> QED
  BY <1>4, <1>5, <1>6, Zenon

LEMMA FinishSame ==
    ASSUME NEW st \in States, NEW f, NEW ts
    PROVE  finish(st, f, ts) \in States /\ Same(st, finish(st, f, ts))
<1>1. PICK r \in Kinds :
        r = IF ts # <<>> \/ \E i \in ToolIndex : st.tool_states[i].seen THEN "tool_use"
            ELSE map_stop_reason(f)
  BY DEF map_stop_reason, Kinds
<1>2. PICK s : s = [st EXCEPT !.stop_reason = r]
  OBVIOUS
<1>3. s \in States /\ s.events = st.events /\ s.tool_states = st.tool_states
  BY <1>2 DEF States
<1>4. Same(st, s) /\ Same(st, st)
  BY <1>3, SameEvents
<1>5. finish(st, f, ts) \in {st, s}
  BY <1>1, <1>2 DEF finish
<1> QED
  BY <1>3, <1>4, <1>5, Zenon

\* The end of the stream adds nothing.
LEMMA StreamEndSame ==
    ASSUME out \in Seq(Events), NEW st \in States
    PROVE  stream_end(st) \in States /\ Same(st, stream_end(st))
<1>1. ASSUME NEW s \in States, NEW i \in ToolIndex
      PROVE  close_tool(s, i) \in States /\ Same(s, close_tool(s, i))
  <2>1. PICK b \in Nat : b = s.tool_states[i].block_index
    BY DEF States, ToolStates
  <2>2. PICK e : e = Emit(s, "stop", b, "tool", <<>>)
    OBVIOUS
  <2>3. e \in States /\ Same(s, e)
    BY <2>2, BareEmitTold DEF EventNames, Kinds
  <2>4. Same(s, s)
    BY SameEvents
  <2>5. close_tool(s, i) \in {s, e}
    BY <2>1, <2>2 DEF close_tool
  <2> QED
    BY <2>3, <2>4, <2>5, Zenon
<1>2. PICK s1 : s1 = close_content(st)
  OBVIOUS
<1>3. s1 \in States /\ Same(st, s1)
  <2>1. BlockStop(st) \in States /\ Same(st, BlockStop(st)) /\ Same(st, st)
    BY BlockTold, SameEvents
  <2>2. s1 \in {st, BlockStop(st)}
    BY <1>2 DEF close_content
  <2> QED
    BY <2>1, <2>2, Zenon
<1>4. PICK s2 : s2 = close_tool(s1, "t0")
  OBVIOUS
<1>5. PICK s3 : s3 = close_tool(s2, "t1")
  OBVIOUS
<1>6. s2 \in States /\ Same(s1, s2)
  BY <1>1, <1>3, <1>4 DEF ToolIndex
<1>7. s3 \in States /\ Same(s2, s3)
  BY <1>1, <1>5, <1>6 DEF ToolIndex
<1>8. PICK kind \in Kinds : kind = st.stop_reason
  BY DEF States
<1>9. PICK s4 : s4 = Emit(s3, "message_delta", 0, kind, <<>>)
  OBVIOUS
<1>10. PICK s5 : s5 = Emit(s4, "message_stop", 0, "nil", <<>>)
  OBVIOUS
<1>11. s4 \in States /\ Same(s3, s4)
  BY <1>7, <1>9, BareEmitTold DEF EventNames
<1>12. s5 \in States /\ Same(s4, s5)
  BY <1>10, <1>11, BareEmitTold DEF EventNames, Kinds
<1>13. Same(st, s5)
  BY <1>3, <1>6, <1>7, <1>11, <1>12, Zenon DEF Same
<1>14. stream_end(st) = s5
  BY <1>2, <1>4, <1>5, <1>8, <1>9, <1>10 DEF stream_end
<1> QED
  BY <1>12, <1>13, <1>14, Zenon

\* What the client has got of text and thinking is what came, and of each tool call
\* what came and is not kept.
LostInv ==
    /\ BracketInv
    /\ got.tokens \in Seq(Pieces) /\ got.args \in Seq(Pieces)
    /\ NothingLost
    /\ ~ended => ToolsTold(state, got.args)

LEMMA InitLost == Init => LostInv
<1> SUFFICES ASSUME Init PROVE LostInv
  OBVIOUS
<1>1. BracketInv
  BY InitBracket
<1>2. got.tokens = <<>> /\ got.args = <<>>
  BY DEF Init, nothing
<1>3. got.tokens \in Seq(Pieces) /\ got.args \in Seq(Pieces)
  BY <1>2, EmptySeq
<1>4. ASSUME NEW i \in ToolIndex PROVE state.tool_states[i] = no_tool
  BY DEF Init, new_stream_state
<1>5. ~no_tool.started /\ no_tool.pending = <<>>
  BY DEF no_tool
<1>6. NothingLost
  <2>1. Data({"text", "thinking"}) = Told(<<>>, {"text", "thinking"})
    BY Zenon DEF Data, Told, Init
  <2>2. Text(got.tokens) = Only(<<>>, {"x", "y"})
    BY <1>2, Zenon DEF Text
  <2>3. \A i \in ToolIndex : ~state.tool_states[i].started
    BY <1>4, <1>5, Zenon
  <2> QED
    BY <2>1, <2>2, <2>3, NothingTold, Zenon DEF NothingLost
<1>7. ToolsTold(state, got.args)
  <2>1. out \o state.events = <<>>
    <3>1. out = <<>> /\ state.events = <<>>
      BY DEF Init, new_stream_state
    <3> QED
      BY <3>1
  <2>2. ToolTold(state) = <<>>
    BY <2>1, NothingTold, Zenon DEF ToolTold
  <2>3. ASSUME NEW i \in ToolIndex PROVE ToolOK(state, got.args, i)
    <3>1. state.tool_states[i].pending = <<>> /\ Rest(state, i) = <<>>
      BY <1>4, <1>5, Zenon DEF Rest
    <3>2. Only(<<>>, {i}) = <<>>
      BY NothingTold
    <3>3. Only(ToolTold(state), {i}) \o Rest(state, i) = <<>> \o <<>>
      BY <2>2, <3>1, <3>2, Zenon
    <3>4. <<>> \o <<>> = <<>> /\ <<>> \in Seq(Own(i))
      OBVIOUS
    <3> QED
      BY <1>2, <3>1, <3>2, <3>3, <3>4, Zenon DEF ToolOK
  <2> QED
    BY <2>3, Zenon DEF ToolsTold
<1> QED
  BY <1>1, <1>3, <1>6, <1>7 DEF LostInv

\* What the invariant says of the client's log.
LEMMA LostNow ==
    ASSUME LostInv, ~ended
    PROVE  /\ Good(state) /\ out \in Seq(Events) /\ state \in States /\ n \in Nat
           /\ TextTold(state) = Text(got.tokens)
           /\ ToolsTold(state, got.args)
<1>1. Good(state) /\ state.events = <<>> /\ n \in Nat
  BY DEF LostInv, BracketInv
<1>2. out \in Seq(Events) /\ state \in States
  BY <1>1 DEF Good, StateOK
<1>3. out \o state.events = out
  BY <1>1, <1>2, ConcatEmptySeq
<1>4. TextTold(state) = Data({"text", "thinking"})
  BY <1>3, Zenon DEF TextTold, Told, Data
<1> QED
  BY <1>1, <1>2, <1>4, Zenon DEF LostInv, NothingLost

\* What a handler told is in the client's log.
LEMMA WriteTold ==
    ASSUME out \in Seq(Events), NEW s \in States, Write(s)
    PROVE  /\ Data({"text", "thinking"})' = TextTold(s) /\ Data({"tool"})' = ToolTold(s)
           /\ ToolTold(state)' = ToolTold(s)
           /\ state'.tool_states = s.tool_states
<1>1. out' = out \o s.events /\ state' = [s EXCEPT !.events = <<>>]
  BY DEF Write
<1>2. state'.tool_states = s.tool_states /\ state'.events = <<>> /\ s.events \in Seq(Events)
  BY <1>1 DEF States
<1>3. out' \in Seq(Events)
  BY <1>1, <1>2, ConcatProperties
<1>4. out' \o state'.events = out'
  BY <1>2, <1>3, ConcatEmptySeq
<1>5. Data({"text", "thinking"})' = TextTold(s) /\ Data({"tool"})' = ToolTold(s)
  BY <1>1, Zenon DEF Data, Told, TextTold, ToolTold
<1>6. ToolTold(state)' = ToolTold(s)
  BY <1>1, <1>4, Zenon DEF ToolTold
<1> QED
  BY <1>2, <1>5, <1>6, Zenon

\* A tool call that has started has been told all that came.
LEMMA StartedTold ==
    ASSUME out \in Seq(Events), NEW s \in States, NEW args, ToolsTold(s, args), NEW i \in ToolIndex,
           s.tool_states[i].started
    PROVE  Only(ToolTold(s), {i}) = Only(args, {i})
<1>1. PICK told \in Seq(Pieces) : told = ToolTold(s)
  BY ToldType
<1>2. PICK p \in Pieces : p = [chunk |-> 0, part |-> "x"]
  BY DEF Pieces, Parts
<1>3. Only(told, {i}) \in Seq(Pieces)
  BY <1>2, OnlyAppend
<1>4. Neutral(Only(told, {i}))
  BY <1>3, PiecesNeutral
<1>5. ToolOK(s, args, i) /\ Rest(s, i) = <<>>
  BY DEF ToolsTold, Rest
<1> QED
  BY <1>1, <1>4, <1>5, Zenon DEF ToolOK, Neutral

LEMMA WriteLost ==
    ASSUME out \in Seq(Events), NEW s \in States, Write(s), BracketInv',
           got'.tokens \in Seq(Pieces), got'.args \in Seq(Pieces),
           TextTold(s) = Text(got'.tokens), ToolsTold(s, got'.args)
    PROVE  LostInv'
<1>1. /\ Data({"text", "thinking"})' = TextTold(s) /\ Data({"tool"})' = ToolTold(s)
      /\ ToolTold(state)' = ToolTold(s) /\ state'.tool_states = s.tool_states
  BY WriteTold
<1>2. ASSUME NEW i \in ToolIndex, state'.tool_states[i].started
      PROVE  Only(Data({"tool"})', {i}) = Only(got'.args, {i})
  <2>1. s.tool_states[i].started
    BY <1>1, <1>2, Zenon
  <2>2. Only(ToolTold(s), {i}) = Only(got'.args, {i})
    BY <2>1, StartedTold
  <2> QED
    BY <1>1, <2>2, Zenon
<1>3. Data({"text", "thinking"})' = Text(got'.tokens)
  BY <1>1, Zenon
<1>4. NothingLost'
  BY <1>2, <1>3, Zenon DEF NothingLost
<1>5. ASSUME NEW i \in ToolIndex PROVE ToolOK(state, got.args, i)'
  <2>1. ToolOK(s, got'.args, i)
    BY DEF ToolsTold
  <2> QED
    BY <1>1, <2>1, Zenon DEF ToolOK, Rest
<1>6. ToolsTold(state, got.args)'
  BY <1>5, Zenon DEF ToolsTold
<1> QED
  BY <1>4, <1>6, Zenon DEF LostInv

\* A chunk tells what it carries.
LEMMA ChunkTold ==
    ASSUME LostInv, ~ended, NEW c \in Contents \cup {NoContent}, NEW ts \in Tools, NEW f
    PROVE  LET s   == stream_chunk_from_openai(state, c, ts, f)
               new == FlattenSeq([i \in DOMAIN ts |-> Args(n + 1, ts[i])])
           IN  /\ s \in States
               /\ got.tokens \o Tokens(n + 1, c) \in Seq(Pieces) /\ got.args \o new \in Seq(Pieces)
               /\ TextTold(s) = Text(got.tokens \o Tokens(n + 1, c))
               /\ ToolsTold(s, got.args \o new)
<1>1. /\ Good(state) /\ out \in Seq(Events) /\ state \in States /\ n \in Nat
      /\ TextTold(state) = Text(got.tokens) /\ ToolsTold(state, got.args)
  BY LostNow
<1>2. got.tokens \in Seq(Pieces) /\ got.args \in Seq(Pieces)
  BY DEF LostInv
<1>3. PICK s1 : s1 = message_start(state)
  OBVIOUS
<1>4. PICK s2 : s2 = finish(s1, f, ts)
  OBVIOUS
<1>5. PICK s3 : s3 = content_delta(s2, c)
  OBVIOUS
<1>6. PICK s : s = tool_deltas(s3, ts)
  OBVIOUS
<1>7. Good(s1) /\ s1 \in States /\ Same(state, s1)
  BY <1>1, <1>3, MessageStartGood, MessageStartSame
<1>8. Good(s2) /\ s2 \in States /\ Same(s1, s2)
  BY <1>4, <1>7, FinishGood, FinishSame
<1>9. Good(s3) /\ s3 \in States /\ Says(s2, s3, Spoken(c))
  BY <1>1, <1>5, <1>8, ContentDeltaGood, ContentDeltaSays
<1>10. Says(state, s3, Spoken(c))
  BY <1>7, <1>8, <1>9, SameTwice, SameThenSays
<1>11. ToolsTold(s3, got.args)
  BY <1>1, <1>10, SameTools DEF Says
<1>12. ts \in Seq(ToolDeltas)
  BY ChunksAssumption DEF ToolDeltas
<1>13. PICK new : new = FlattenSeq([i \in DOMAIN ts |-> Args(n + 1, ts[i])])
  OBVIOUS
<1>14. /\ got.args \o new \in Seq(Pieces) /\ ToolsTold(s, got.args \o new)
       /\ TextTold(s) = TextTold(s3)
  BY <1>1, <1>2, <1>6, <1>9, <1>11, <1>12, <1>13, ToolDeltasTold
<1>15. Good(s)
  BY <1>1, <1>6, <1>9, <1>12, ToolDeltasGood
<1>16. s \in States
  BY <1>15 DEF Good, StateOK
<1>17. /\ got.tokens \o Tokens(n + 1, c) \in Seq(Pieces)
       /\ Text(got.tokens \o Tokens(n + 1, c)) = Text(got.tokens) \o Spoken(c)
  BY <1>1, <1>2, TokensSpoken
<1>18. TextTold(s) = Text(got.tokens \o Tokens(n + 1, c))
  BY <1>1, <1>10, <1>14, <1>17, Zenon DEF Says
<1>19. stream_chunk_from_openai(state, c, ts, f) = s
  BY <1>3, <1>4, <1>5, <1>6, Zenon DEF stream_chunk_from_openai
<1> QED
  BY <1>13, <1>14, <1>16, <1>17, <1>18, <1>19, Zenon

\* A step that leaves the client's log, the state and the history alone.
LEMMA LostSame ==
    ASSUME LostInv, BracketInv', state' = state, out' = out, got' = got, ended' = ended
    PROVE  LostInv'
<1>1. Data({"text", "thinking"})' = Data({"text", "thinking"}) /\ Data({"tool"})' = Data({"tool"})
  BY Zenon DEF Data
<1>2. NothingLost'
  BY <1>1, Zenon DEF LostInv, NothingLost
<1>3. ToolTold(state)' = ToolTold(state)
  BY Zenon DEF ToolTold
<1>4. ASSUME ~ended PROVE ToolsTold(state, got.args)'
  <2>1. ToolsTold(state, got.args)
    BY <1>4 DEF LostInv
  <2>2. ASSUME NEW i \in ToolIndex PROVE ToolOK(state, got.args, i)'
    <3>1. ToolOK(state, got.args, i)
      BY <2>1 DEF ToolsTold
    <3> QED
      BY <1>3, <3>1, Zenon DEF ToolOK, Rest
  <2> QED
    BY <2>2, Zenon DEF ToolsTold
<1>5. got'.tokens \in Seq(Pieces) /\ got'.args \in Seq(Pieces)
  BY DEF LostInv
<1>6. ~ended' => ~ended
  OBVIOUS
<1> QED
  BY <1>2, <1>4, <1>5, <1>6, Zenon DEF LostInv

LEMMA StepLost == LostInv /\ [Next]_vars => LostInv'
<1> SUFFICES ASSUME LostInv, [Next]_vars PROVE LostInv'
  OBVIOUS
<1>1. BracketInv'
  <2>1. BracketInv
    BY DEF LostInv
  <2> QED
    BY <2>1, StepBracket
<1>2. ASSUME NEW c \in Contents \cup {NoContent}, NEW ts \in Tools, NEW f \in FinishReasons, Chunk(c, ts, f)
      PROVE  LostInv'
  <2>1. ~ended /\ Write(stream_chunk_from_openai(state, c, ts, f)) /\ got' = Extend(got, n + 1, c, ts)
    BY <1>2 DEF Chunk
  <2>2. PICK s : s = stream_chunk_from_openai(state, c, ts, f)
    OBVIOUS
  <2>3. PICK new : new = FlattenSeq([i \in DOMAIN ts |-> Args(n + 1, ts[i])])
    OBVIOUS
  <2>4. PICK tokens : tokens = got.tokens \o Tokens(n + 1, c)
    OBVIOUS
  <2>5. PICK args : args = got.args \o new
    OBVIOUS
  <2>6. /\ s \in States /\ tokens \in Seq(Pieces) /\ args \in Seq(Pieces)
        /\ TextTold(s) = Text(tokens) /\ ToolsTold(s, args)
    BY <2>1, <2>2, <2>3, <2>4, <2>5, ChunkTold
  <2>7. got'.tokens = tokens /\ got'.args = args
    <3>1. PICK at : got' = [tokens |-> tokens, args |-> args, toolAt |-> at]
      BY <2>1, <2>3, <2>4, <2>5, Zenon DEF Extend
    <3> QED
      BY <3>1
  <2>8. out \in Seq(Events)
    BY <2>1, LostNow
  <2>9. Write(s)
    BY <2>1, <2>2
  <2>10. /\ got'.tokens \in Seq(Pieces) /\ got'.args \in Seq(Pieces)
         /\ TextTold(s) = Text(got'.tokens) /\ ToolsTold(s, got'.args)
    BY <2>6, <2>7, Zenon
  <2> QED
    BY <1>1, <2>6, <2>8, <2>9, <2>10, WriteLost
<1>3. ASSUME NEW s \in States, Write(s), ~ended, Same(state, s), got' = got PROVE LostInv'
  <2>1. /\ out \in Seq(Events) /\ TextTold(state) = Text(got.tokens) /\ ToolsTold(state, got.args)
    BY <1>3, LostNow
  <2>2. ToolsTold(s, got.args)
    BY <1>3, <2>1, SameTools DEF Same
  <2>3. /\ got'.tokens \in Seq(Pieces) /\ got'.args \in Seq(Pieces)
        /\ TextTold(s) = Text(got'.tokens) /\ ToolsTold(s, got'.args)
    BY <1>3, <2>1, <2>2, Zenon DEF LostInv, Same
  <2> QED
    BY <1>1, <1>3, <2>1, <2>3, WriteLost
<1>4. CASE ChunkWithoutChoice
  <2>1. ~ended /\ Write(message_start(state)) /\ got' = got
    BY <1>4 DEF ChunkWithoutChoice
  <2>2. message_start(state) \in States /\ Same(state, message_start(state))
    BY <2>1, LostNow, MessageStartSame
  <2> QED
    BY <1>3, <2>1, <2>2
<1>5. CASE ChunkUnreadable
  BY <1>1, <1>5, LostSame DEF ChunkUnreadable
<1>6. CASE End
  <2>1. ~ended /\ Write(stream_end(state)) /\ got' = got
    BY <1>6 DEF End
  <2>2. stream_end(state) \in States /\ Same(state, stream_end(state))
    BY <2>1, LostNow, StreamEndSame
  <2> QED
    BY <1>3, <2>1, <2>2
<1>7. CASE UNCHANGED vars
  BY <1>1, <1>7, LostSame DEF vars
<1> QED
  BY <1>2, <1>4, <1>5, <1>6, <1>7 DEF Next, Done

\* In every stream of chunks, of any length and with any contents and tool calls, the
\* client's text and thinking deltas are the text that came, each piece once and in
\* order, and a tool call whose block has started has got all its arguments, the ones
\* that came before its id and name included.
THEOREM ToldAll == Spec => []NothingLost
<1>1. Init => LostInv
  BY InitLost
<1>2. LostInv /\ [Next]_vars => LostInv'
  BY StepLost
<1>3. LostInv => NothingLost
  BY DEF LostInv
<1> QED
  BY <1>1, <1>2, <1>3, PTL DEF Spec

---------------------------------------------------------------------------
(* Thinking and text                                                       *)

\* What the client has been told of the one and of the other.
Thought(st) == Told(out \o st.events, {"thinking"})
Answer(st) == Told(out \o st.events, {"text"})

\* th more of thinking and tx more of text, and what the translator is in.
Tells(st, s, th, tx) == Thought(s) = Thought(st) \o th /\ Answer(s) = Answer(st) \o tx
Silent(st, s) == Thought(s) = Thought(st) /\ Answer(s) = Answer(st)
Mode(st, first, think, type) ==
    /\ st \in States
    /\ st.first_content = first /\ st.think_detected = think /\ st.current_type = type
SameMode(st, s) == Mode(s, st.first_content, st.think_detected, st.current_type)

LEMMA ThoughtType ==
    ASSUME out \in Seq(Events), NEW st \in States
    PROVE  Thought(st) \in Seq(Pieces) /\ Answer(st) \in Seq(Pieces)
<1>1. PICK log \in Seq(Events) : log = out \o st.events
  <2>1. st.events \in Seq(Events)
    BY DEF States
  <2>2. out \o st.events \in Seq(Events)
    BY <2>1, ConcatProperties
  <2> QED
    BY <2>2, Zenon
<1>2. PICK e \in Events : TRUE
  <2>1. <<>> \in Seq(Pieces)
    OBVIOUS
  <2>2. [ev |-> "start", index |-> 0, kind |-> "nil", data |-> <<>>] \in Events
    BY <2>1 DEF Events, EventNames, Kinds
  <2> QED
    BY <2>2, Zenon
<1>3. ASSUME NEW kinds PROVE Told(log, kinds) \in Seq(Pieces)
  BY <1>2, ToldAppend
<1> QED
  BY <1>1, <1>3, Zenon DEF Thought, Answer

LEMMA SilentEvents ==
    ASSUME NEW st, NEW s, s.events = st.events
    PROVE  Silent(st, s)
<1> QED
  BY DEF Silent, Thought, Answer

LEMMA SilentTwice ==
    ASSUME NEW st, NEW mid, NEW s, Silent(st, mid), Silent(mid, s)
    PROVE  Silent(st, s)
<1> QED
  BY Zenon DEF Silent

LEMMA SilentTells ==
    ASSUME out \in Seq(Events), NEW st \in States, NEW s, Silent(st, s)
    PROVE  Tells(st, s, <<>>, <<>>)
<1>1. Neutral(Thought(st)) /\ Neutral(Answer(st))
  BY ThoughtType, PiecesNeutral
<1> QED
  BY <1>1, Zenon DEF Silent, Tells, Neutral

LEMMA SilentThenTells ==
    ASSUME NEW st, NEW mid, NEW s, NEW th, NEW tx, Silent(st, mid), Tells(mid, s, th, tx)
    PROVE  Tells(st, s, th, tx)
<1> QED
  BY Zenon DEF Silent, Tells

\* An event tells its data, by its kind.
LEMMA EmitTells ==
    ASSUME out \in Seq(Events), NEW st \in States, NEW s, NEW ev \in EventNames, NEW index \in Nat,
           NEW kind \in Kinds, NEW data \in Seq(Pieces), Emitted(st, s, ev, index, kind, data)
    PROVE  /\ SameMode(st, s)
           /\ kind = "thinking" => Tells(st, s, data, <<>>)
           /\ kind = "text" => Tells(st, s, <<>>, data)
           /\ kind \notin {"text", "thinking"} \/ data = <<>> => Silent(st, s)
<1>1. PICK e : e = sse_event(ev, index, kind, data)
  OBVIOUS
<1>2. e \in Events /\ e.kind = kind /\ e.data = data
  BY <1>1 DEF sse_event, Events
<1>3. s.events = Append(st.events, e)
  BY <1>1 DEF Emitted
<1>4. PICK old \in Seq(Events) : old = st.events
  BY DEF States
<1>5. PICK log \in Seq(Events) : log = out \o old
  <2>1. out \o old \in Seq(Events)
    BY ConcatProperties
  <2> QED
    BY <2>1, Zenon
<1>6. out \o Append(old, e) = Append(out \o old, e)
  BY <1>2, AppendLast
<1>7. out \o s.events = Append(log, e)
  BY <1>3, <1>4, <1>5, <1>6, Zenon
<1>8. ASSUME NEW kinds PROVE Told(out \o s.events, kinds) = Told(log, kinds) \o Carried(e, kinds)
  BY <1>2, <1>7, ToldAppend
<1>9. Tells(st, s, Carried(e, {"thinking"}), Carried(e, {"text"}))
  BY <1>4, <1>5, <1>8, Zenon DEF Tells, Thought, Answer
<1>10. Neutral(Thought(st)) /\ Neutral(Answer(st))
  BY ThoughtType, PiecesNeutral
<1>11. ASSUME kind = "thinking" PROVE Tells(st, s, data, <<>>)
  <2>1. Carried(e, {"thinking"}) = data /\ Carried(e, {"text"}) = <<>>
    BY <1>2, <1>11 DEF Carried
  <2> QED
    BY <1>9, <2>1, Zenon
<1>12. ASSUME kind = "text" PROVE Tells(st, s, <<>>, data)
  <2>1. Carried(e, {"thinking"}) = <<>> /\ Carried(e, {"text"}) = data
    BY <1>2, <1>12 DEF Carried
  <2> QED
    BY <1>9, <2>1, Zenon
<1>13. ASSUME kind \notin {"text", "thinking"} \/ data = <<>> PROVE Silent(st, s)
  <2>1. Carried(e, {"thinking"}) = <<>> /\ Carried(e, {"text"}) = <<>>
    BY <1>2, <1>13 DEF Carried
  <2> QED
    BY <1>9, <1>10, <2>1, Zenon DEF Tells, Silent, Neutral
<1>14. SameMode(st, s)
  BY DEF SameMode, Mode, Emitted
<1> QED
  BY <1>11, <1>12, <1>13, <1>14

LEMMA BareEmitSilent ==
    ASSUME out \in Seq(Events), NEW st \in States, NEW ev \in EventNames, NEW index \in Nat,
           NEW kind \in Kinds
    PROVE  /\ SameMode(st, Emit(st, ev, index, kind, <<>>))
           /\ Silent(st, Emit(st, ev, index, kind, <<>>))
<1>1. PICK data \in Seq(Pieces) : data = <<>>
  <2>1. <<>> \in Seq(Pieces)
    OBVIOUS
  <2> QED
    BY <2>1, Zenon
<1>2. PICK s : s = Emit(st, ev, index, kind, data)
  OBVIOUS
<1>3. Emitted(st, s, ev, index, kind, data)
  BY <1>2, EmitFields
<1>4. SameMode(st, s) /\ Silent(st, s)
  BY <1>1, <1>3, EmitTells
<1> QED
  BY <1>1, <1>2, <1>4, Zenon

LEMMA BlockSilent ==
    ASSUME out \in Seq(Events), NEW st \in States
    PROVE  /\ SameMode(st, BlockStop(st)) /\ Silent(st, BlockStop(st))
           /\ \A kind \in {"text", "thinking"} :
                 SameMode(st, BlockStart(st, kind)) /\ Silent(st, BlockStart(st, kind))
<1>1. PICK b \in Nat : b = st.block_index
  BY DEF States
<1>2. PICK type \in Kinds : type = st.current_type
  BY DEF Kinds, States
<1>3. BlockStop(st) = Emit(st, "stop", b, type, <<>>)
  BY <1>1, <1>2 DEF BlockStop
<1>4. SameMode(st, Emit(st, "stop", b, type, <<>>)) /\ Silent(st, Emit(st, "stop", b, type, <<>>))
  BY BareEmitSilent DEF EventNames
<1>5. ASSUME NEW kind \in {"text", "thinking"}
      PROVE  SameMode(st, BlockStart(st, kind)) /\ Silent(st, BlockStart(st, kind))
  <2>1. BlockStart(st, kind) = Emit(st, "start", b, kind, <<>>)
    BY <1>1 DEF BlockStart
  <2>2. kind \in Kinds
    BY DEF Kinds
  <2>3. SameMode(st, Emit(st, "start", b, kind, <<>>)) /\ Silent(st, Emit(st, "start", b, kind, <<>>))
    BY <2>2, BareEmitSilent DEF EventNames
  <2> QED
    BY <2>1, <2>3, Zenon
<1> QED
  BY <1>3, <1>4, <1>5, Zenon

LEMMA BlockDeltaTells ==
    ASSUME out \in Seq(Events), NEW st \in States, NEW data \in Seq(Pieces)
    PROVE  /\ SameMode(st, BlockDelta(st, "thinking", data))
           /\ Tells(st, BlockDelta(st, "thinking", data), data, <<>>)
           /\ SameMode(st, BlockDelta(st, "text", data))
           /\ Tells(st, BlockDelta(st, "text", data), <<>>, data)
<1>1. PICK b \in Nat : b = st.block_index
  BY DEF States
<1>2. ASSUME NEW kind \in {"text", "thinking"}
      PROVE  /\ SameMode(st, BlockDelta(st, kind, data))
             /\ kind = "thinking" => Tells(st, BlockDelta(st, kind, data), data, <<>>)
             /\ kind = "text" => Tells(st, BlockDelta(st, kind, data), <<>>, data)
  <2>1. kind \in Kinds
    BY DEF Kinds
  <2>2. PICK s : s = Emit(st, "delta", b, kind, data)
    OBVIOUS
  <2>3. Emitted(st, s, "delta", b, kind, data)
    BY <2>1, <2>2, EmitFields DEF EventNames
  <2>4. /\ SameMode(st, s)
        /\ kind = "thinking" => Tells(st, s, data, <<>>)
        /\ kind = "text" => Tells(st, s, <<>>, data)
    BY <2>1, <2>3, EmitTells DEF EventNames
  <2>5. BlockDelta(st, kind, data) = s
    BY <1>1, <2>2 DEF BlockDelta
  <2> QED
    BY <2>4, <2>5, Zenon
<1> QED
  BY <1>2

\* The content handlers.
LEMMA FirstDeltaTells ==
    ASSUME out \in Seq(Events), NEW st \in States, NEW c \in Contents, n \in Nat
    PROVE  LET s    == first_delta(st, c)
               data == X(n + 1, c) \o Y(n + 1, c)
           IN  /\ c.tag = "full" => Mode(s, FALSE, TRUE, "thinking") /\ Tells(st, s, data, <<>>)
               /\ c.tag # "full" => Mode(s, FALSE, st.think_detected, "text") /\ Tells(st, s, <<>>, data)
<1>1. n + 1 \in Nat
  OBVIOUS
<1>2. PICK data \in Seq(Pieces) : data = X(n + 1, c) \o Y(n + 1, c)
  <2>1. X(n + 1, c) \o Y(n + 1, c) \in Seq(Pieces)
    BY <1>1, PiecesType
  <2> QED
    BY <2>1, Zenon
<1>3. CASE c.tag = "full"
  <2>1. PICK mid : mid = [[st EXCEPT !.first_content = FALSE] EXCEPT !.think_detected = TRUE, !.current_type = "thinking"]
    OBVIOUS
  <2>2. Mode(mid, FALSE, TRUE, "thinking") /\ mid.events = st.events
    BY <2>1 DEF States, Mode
  <2>3. PICK open : open = BlockStart(mid, "thinking")
    OBVIOUS
  <2>4. SameMode(mid, open) /\ Silent(mid, open)
    BY <2>2, <2>3, BlockSilent DEF Mode
  <2>5. Mode(open, FALSE, TRUE, "thinking") /\ Silent(st, open)
    <3>1. Silent(st, mid)
      BY <2>2, SilentEvents
    <3> QED
      BY <2>2, <2>4, <3>1, SilentTwice DEF SameMode, Mode
  <2>6. PICK s : s = BlockDelta(open, "thinking", data)
    OBVIOUS
  <2>7. SameMode(open, s) /\ Tells(open, s, data, <<>>)
    BY <2>5, <2>6, BlockDeltaTells DEF Mode
  <2>8. Mode(s, FALSE, TRUE, "thinking") /\ Tells(st, s, data, <<>>)
    BY <2>5, <2>7, SilentThenTells DEF SameMode, Mode
  <2>9. first_delta(st, c) = IF Nonempty(c) THEN s ELSE open
    BY <1>2, <1>3, <2>1, <2>3, <2>6 DEF first_delta
  <2>10. ASSUME ~Nonempty(c) PROVE data = <<>>
    <3>1. ~c.x /\ ~c.y
      BY <2>10, ChunksAssumption DEF Nonempty
    <3>2. X(n + 1, c) = <<>> /\ Y(n + 1, c) = <<>>
      BY <3>1 DEF X, Y, Piece
    <3> QED
      BY <1>2, <3>2
  <2>11. ASSUME ~Nonempty(c) PROVE Tells(st, open, data, <<>>)
    BY <2>5, <2>10, <2>11, SilentTells
  <2> QED
    BY <1>2, <1>3, <2>5, <2>8, <2>9, <2>11, Zenon
<1>4. CASE c.tag # "full"
  <2>1. PICK mid : mid = [[st EXCEPT !.first_content = FALSE] EXCEPT !.current_type = "text", !.text_started = TRUE]
    OBVIOUS
  <2>2. Mode(mid, FALSE, st.think_detected, "text") /\ mid.events = st.events
    BY <2>1 DEF States, Mode
  <2>3. PICK open : open = BlockStart(mid, "text")
    OBVIOUS
  <2>4. SameMode(mid, open) /\ Silent(mid, open)
    BY <2>2, <2>3, BlockSilent DEF Mode
  <2>5. Mode(open, FALSE, st.think_detected, "text") /\ Silent(st, open)
    <3>1. Silent(st, mid)
      BY <2>2, SilentEvents
    <3> QED
      BY <2>2, <2>4, <3>1, SilentTwice DEF SameMode, Mode
  <2>6. PICK s : s = BlockDelta(open, "text", data)
    OBVIOUS
  <2>7. SameMode(open, s) /\ Tells(open, s, <<>>, data)
    BY <2>5, <2>6, BlockDeltaTells DEF Mode
  <2>8. Mode(s, FALSE, st.think_detected, "text") /\ Tells(st, s, <<>>, data)
    BY <2>5, <2>7, SilentThenTells DEF SameMode, Mode
  <2>9. first_delta(st, c) = s
    BY <1>2, <1>4, <2>1, <2>3, <2>6 DEF first_delta
  <2> QED
    BY <1>2, <1>4, <2>8, <2>9, Zenon
<1> QED
  BY <1>3, <1>4

LEMMA ThinkingDeltaTells ==
    ASSUME out \in Seq(Events), NEW st \in States, NEW c \in Contents, n \in Nat
    PROVE  LET s == thinking_delta(st, c)
           IN  /\ ~c.close => SameMode(st, s) /\ Tells(st, s, X(n + 1, c), <<>>)
               /\ c.close => /\ Mode(s, st.first_content, st.think_detected, "text")
                             /\ Tells(st, s, X(n + 1, c), Y(n + 1, c))
<1>1. n + 1 \in Nat
  OBVIOUS
<1>2. PICK x \in Seq(Pieces) : x = X(n + 1, c)
  BY <1>1, PiecesType
<1>3. PICK y \in Seq(Pieces) : y = Y(n + 1, c)
  BY <1>1, PiecesType
<1>4. PICK told : told = BlockDelta(st, "thinking", x)
  OBVIOUS
<1>5. SameMode(st, told) /\ Tells(st, told, x, <<>>)
  BY <1>4, BlockDeltaTells
<1>6. ASSUME ~c.y PROVE y = <<>>
  BY <1>3, <1>6 DEF Y, Piece
<1>7. CASE ~c.close
  <2>1. thinking_delta(st, c) = told
    BY <1>2, <1>4, <1>7 DEF thinking_delta
  <2> QED
    BY <1>2, <1>5, <1>7, <2>1, Zenon
<1>8. CASE c.close
  <2>1. PICK before : before = IF c.tag # "none" \/ c.x THEN told ELSE st
    OBVIOUS
  <2>2. SameMode(st, before) /\ Tells(st, before, x, <<>>)
    <3>1. CASE c.tag # "none" \/ c.x
      BY <1>5, <2>1, <3>1
    <3>2. CASE ~(c.tag # "none" \/ c.x)
      <4>1. x = <<>>
        BY <1>2, <3>2 DEF X, Piece
      <4>2. before = st
        BY <2>1, <3>2
      <4>3. Tells(st, st, <<>>, <<>>) /\ SameMode(st, st)
        BY SilentEvents, SilentTells DEF SameMode, Mode
      <4> QED
        BY <4>1, <4>2, <4>3, Zenon
    <3> QED
      BY <3>1, <3>2
  <2>3. PICK stopped : stopped = BlockStop(before)
    OBVIOUS
  <2>4. SameMode(before, stopped) /\ Silent(before, stopped)
    BY <2>2, <2>3, BlockSilent DEF SameMode, Mode
  <2>41. Mode(stopped, st.first_content, st.think_detected, st.current_type)
    BY <2>2, <2>4 DEF SameMode, Mode
  <2>5. PICK next \in Nat : next = stopped.block_index + 1
    BY <2>41 DEF States, Mode
  <2>6. PICK mid : mid = [[stopped EXCEPT !.block_index = next] EXCEPT !.current_type = "text", !.text_started = TRUE]
    OBVIOUS
  <2>7. Mode(mid, st.first_content, st.think_detected, "text") /\ mid.events = stopped.events
    BY <2>41, <2>6 DEF States, Mode
  <2>8. PICK text : text = BlockStart(mid, "text")
    OBVIOUS
  <2>9. SameMode(mid, text) /\ Silent(mid, text)
    BY <2>7, <2>8, BlockSilent DEF Mode
  <2>10. Mode(text, st.first_content, st.think_detected, "text") /\ Silent(before, text)
    <3>1. Silent(stopped, mid)
      BY <2>7, SilentEvents
    <3>2. Silent(stopped, text)
      BY <2>9, <3>1, SilentTwice
    <3> QED
      BY <2>4, <2>7, <2>9, <3>2, SilentTwice DEF SameMode, Mode
  <2>11. Tells(st, text, x, <<>>)
    BY <2>2, <2>10, Zenon DEF Tells, Silent
  <2>12. PICK s : s = IF c.y THEN BlockDelta(text, "text", y) ELSE text
    OBVIOUS
  <2>13. SameMode(text, s) /\ Tells(text, s, <<>>, y)
    <3>1. CASE c.y
      BY <2>10, <2>12, <3>1, BlockDeltaTells DEF Mode
    <3>2. CASE ~c.y
      <4>1. s = text /\ y = <<>> /\ text \in States
        BY <1>6, <2>10, <2>12, <3>2 DEF Mode
      <4>2. Tells(text, text, <<>>, <<>>) /\ SameMode(text, text)
        BY <4>1, SilentEvents, SilentTells DEF SameMode, Mode
      <4> QED
        BY <4>1, <4>2, Zenon
    <3> QED
      BY <3>1, <3>2
  <2>14. Tells(st, s, x, y)
    <3>1. Thought(text) \in Seq(Pieces) /\ Answer(st) \in Seq(Pieces)
      BY <2>10, ThoughtType DEF Mode
    <3>2. Neutral(Thought(text)) /\ Neutral(Answer(st))
      BY <3>1, PiecesNeutral
    <3> QED
      BY <2>11, <2>13, <3>2, Zenon DEF Tells, Neutral
  <2>15. Mode(s, st.first_content, st.think_detected, "text")
    BY <2>10, <2>13 DEF SameMode, Mode
  <2>16. thinking_delta(st, c) = s
    BY <1>2, <1>3, <1>4, <1>8, <2>1, <2>3, <2>5, <2>6, <2>8, <2>12 DEF thinking_delta
  <2> QED
    BY <1>2, <1>3, <1>8, <2>14, <2>15, <2>16, Zenon
<1> QED
  BY <1>7, <1>8

LEMMA TextDeltaTells ==
    ASSUME out \in Seq(Events), NEW st \in States, st.text_started => st.current_type = "text",
           NEW c \in Contents, n \in Nat
    PROVE  LET s == text_delta(st, c)
           IN  /\ Mode(s, st.first_content, st.think_detected, "text")
               /\ Tells(st, s, <<>>, X(n + 1, c) \o Y(n + 1, c))
<1>1. n + 1 \in Nat
  OBVIOUS
<1>2. PICK data \in Seq(Pieces) : data = X(n + 1, c) \o Y(n + 1, c)
  <2>1. X(n + 1, c) \o Y(n + 1, c) \in Seq(Pieces)
    BY <1>1, PiecesType
  <2> QED
    BY <2>1, Zenon
<1>3. PICK mid : mid = [st EXCEPT !.text_started = TRUE, !.current_type = "text"]
  OBVIOUS
<1>4. Mode(mid, st.first_content, st.think_detected, "text") /\ mid.events = st.events
  BY <1>3 DEF States, Mode
<1>5. PICK new : new = BlockStart(mid, "text")
  OBVIOUS
<1>6. SameMode(mid, new) /\ Silent(mid, new)
  BY <1>4, <1>5, BlockSilent DEF Mode
<1>7. Mode(new, st.first_content, st.think_detected, "text") /\ Silent(st, new)
  <2>1. Silent(st, mid)
    BY <1>4, SilentEvents
  <2> QED
    BY <1>4, <1>6, <2>1, SilentTwice DEF SameMode, Mode
<1>8. PICK open : open = IF st.text_started THEN st ELSE new
  OBVIOUS
<1>9. Mode(open, st.first_content, st.think_detected, "text") /\ Silent(st, open)
  BY <1>7, <1>8, SilentEvents DEF Mode
<1>10. PICK s : s = BlockDelta(open, "text", data)
  OBVIOUS
<1>11. SameMode(open, s) /\ Tells(open, s, <<>>, data)
  BY <1>9, <1>10, BlockDeltaTells DEF Mode
<1>12. Mode(s, st.first_content, st.think_detected, "text") /\ Tells(st, s, <<>>, data)
  BY <1>9, <1>11, SilentThenTells DEF SameMode, Mode
<1>13. text_delta(st, c) = s
  BY <1>2, <1>3, <1>5, <1>8, <1>10 DEF text_delta
<1> QED
  BY <1>2, <1>12, <1>13, Zenon

\* The tool handlers tell neither; they may end the content block.
Interrupts(st, s) ==
    /\ Silent(st, s)
    /\ \/ SameMode(st, s)
       \/ Mode(s, st.first_content, st.think_detected, "nil")

LEMMA InterruptsTwice ==
    ASSUME NEW st, NEW mid, NEW s, Interrupts(st, mid), Interrupts(mid, s)
    PROVE  Interrupts(st, s)
<1>1. Silent(st, s)
  BY SilentTwice DEF Interrupts
<1> QED
  BY <1>1 DEF Interrupts, SameMode, Mode

LEMMA CloseForToolInterrupts ==
    ASSUME out \in Seq(Events), NEW st \in States
    PROVE  Interrupts(st, close_for_tool(st))
<1>1. PICK stopped : stopped = BlockStop(st)
  OBVIOUS
<1>2. SameMode(st, stopped) /\ Silent(st, stopped)
  BY <1>1, BlockSilent
<1>3. PICK next \in Nat : next = stopped.block_index + 1
  BY <1>2 DEF States, SameMode, Mode
<1>4. PICK a : a = [stopped EXCEPT !.block_index = next, !.text_started = FALSE, !.current_type = "nil"]
  OBVIOUS
<1>5. PICK b : b = [stopped EXCEPT !.block_index = next, !.current_type = "nil"]
  OBVIOUS
<1>6. /\ Mode(a, st.first_content, st.think_detected, "nil") /\ a.events = stopped.events
      /\ Mode(b, st.first_content, st.think_detected, "nil") /\ b.events = stopped.events
  BY <1>2, <1>4, <1>5 DEF States, SameMode, Mode
<1>7. Silent(st, a) /\ Silent(st, b) /\ Silent(st, st) /\ SameMode(st, st)
  <2>1. Silent(stopped, a) /\ Silent(stopped, b) /\ Silent(st, st)
    BY <1>6, SilentEvents
  <2>2. Silent(st, a) /\ Silent(st, b)
    BY <1>2, <2>1, SilentTwice
  <2>3. SameMode(st, st)
    BY DEF SameMode, Mode
  <2> QED
    BY <2>1, <2>2, <2>3
<1>8. Interrupts(st, a) /\ Interrupts(st, b) /\ Interrupts(st, st)
  BY <1>6, <1>7 DEF Interrupts
<1>9. close_for_tool(st) \in {a, b, st}
  BY <1>1, <1>3, <1>4, <1>5 DEF close_for_tool
<1> QED
  BY <1>8, <1>9, Zenon

LEMMA FirstSeenInterrupts ==
    ASSUME NEW st0, Good(st0), NEW i \in ToolIndex
    PROVE  Interrupts(st0, first_seen(st0, i))
<1>0. st0 \in States /\ out \in Seq(Events)
  BY DEF Good, StateOK
<1>1. CASE st0.tool_states[i].seen
  <2>1. first_seen(st0, i) = st0
    BY <1>1 DEF first_seen
  <2>2. Silent(st0, st0) /\ SameMode(st0, st0)
    BY <1>0, SilentEvents DEF SameMode, Mode
  <2> QED
    BY <2>1, <2>2, Zenon DEF Interrupts
<1>2. CASE ~st0.tool_states[i].seen
  <2>1. PICK closed : closed = close_for_tool(st0)
    OBVIOUS
  <2>2. closed \in States /\ Interrupts(st0, closed)
    BY <1>0, <2>1, CloseForToolInterrupts DEF Interrupts, SameMode, Mode
  <2>3. PICK b \in Nat : b = closed.block_index
    BY <2>2 DEF States
  <2>4. PICK r : r = [no_tool EXCEPT !.block_index = b, !.seen = TRUE]
    OBVIOUS
  <2>5. r \in ToolStates
    <3>1. <<>> \in Seq(Pieces)
      OBVIOUS
    <3> QED
      BY <2>4, <3>1 DEF no_tool, ToolStates
  <2>6. PICK s : s = [closed EXCEPT !.tool_states[i] = r]
    OBVIOUS
  <2>7. ToolSet(closed, s, i, r)
    BY <2>2, <2>5, <2>6, ToolSetFields
  <2>8. Silent(closed, s) /\ SameMode(closed, s)
    BY <2>7, SilentEvents DEF ToolSet, SameMode, Mode
  <2>9. first_seen(st0, i) = s
    BY <1>2, <2>1, <2>3, <2>4, <2>6 DEF first_seen
  <2>10. Interrupts(closed, s)
    BY <2>8 DEF Interrupts
  <2> QED
    BY <2>2, <2>9, <2>10, InterruptsTwice, Zenon
<1> QED
  BY <1>1, <1>2

LEMMA ToolDeltaInterrupts ==
    ASSUME NEW st0, Good(st0), NEW t \in ToolDeltas, n \in Nat
    PROVE  Interrupts(st0, tool_delta(st0, t))
<1>1. PICK i \in ToolIndex : i = t.idx
  BY DEF ToolDeltas
<1>2. PICK st, ts, pending, new, b : ToolTurn(st0, t, st, ts, pending, new, b)
  BY ToolDeltaTurn
<1>3. st \in States /\ out \in Seq(Events)
  BY <1>2 DEF ToolTurn, Good, StateOK
<1>4. Interrupts(st0, st)
  BY <1>1, <1>2, FirstSeenInterrupts DEF ToolTurn
<1>5. new \in Seq(Pieces) /\ pending \in Seq(Pieces) /\ b \in Nat /\ ts \in ToolStates
  BY <1>2 DEF ToolTurn
<1>6. ASSUME NEW r \in ToolStates, NEW put, put = ToolPut(st, i, r)
      PROVE  put \in States /\ Interrupts(st, put)
  <2>1. ToolSet(st, put, i, r)
    BY <1>3, <1>6, ToolSetFields DEF ToolPut
  <2>2. Silent(st, put) /\ SameMode(st, put)
    BY <2>1, SilentEvents DEF ToolSet, SameMode, Mode
  <2> QED
    BY <2>2 DEF Interrupts, SameMode, Mode
<1>7. ASSUME NEW mid \in States, NEW data \in Seq(Pieces), NEW s, s = Emit(mid, "delta", b, "tool", data)
      PROVE  s \in States /\ Interrupts(mid, s)
  <2>1. Emitted(mid, s, "delta", b, "tool", data)
    BY <1>5, <1>7, EmitFields DEF EventNames, Kinds
  <2>2. "tool" \in Kinds /\ "delta" \in EventNames /\ "tool" \notin {"text", "thinking"}
    BY DEF Kinds, EventNames
  <2>3. Silent(mid, s) /\ SameMode(mid, s)
    BY <1>3, <1>5, <2>1, <2>2, EmitTells
  <2> QED
    BY <2>3 DEF Interrupts, SameMode, Mode
<1>8. PICK begun : begun = [ts EXCEPT !.started = TRUE, !.pending = <<>>]
  OBVIOUS
<1>9. begun \in ToolStates
  <2>1. <<>> \in Seq(Pieces)
    OBVIOUS
  <2> QED
    BY <1>5, <1>8, <2>1 DEF ToolStates
<1>10. PICK with : with = ToolPut(st, i, begun)
  OBVIOUS
<1>11. with \in States /\ Interrupts(st, with)
  BY <1>6, <1>9, <1>10
<1>12. PICK start : start = Emit(with, "start", b, "tool", <<>>)
  OBVIOUS
<1>13. start \in States /\ Interrupts(with, start)
  <2>1. SameMode(with, start) /\ Silent(with, start)
    BY <1>3, <1>5, <1>11, <1>12, BareEmitSilent DEF EventNames, Kinds
  <2> QED
    BY <2>1 DEF Interrupts, SameMode, Mode
<1>14. PICK told : told = Emit(start, "delta", b, "tool", pending)
  OBVIOUS
<1>15. Interrupts(start, told)
  BY <1>5, <1>7, <1>13, <1>14
<1>16. PICK put : put = ToolPut(st, i, ts)
  OBVIOUS
<1>17. put \in States /\ Interrupts(st, put)
  BY <1>5, <1>6, <1>16
<1>18. PICK more : more = Emit(put, "delta", b, "tool", new)
  OBVIOUS
<1>19. Interrupts(put, more)
  BY <1>5, <1>7, <1>17, <1>18
<1>20. Interrupts(st0, start) /\ Interrupts(st0, told) /\ Interrupts(st0, put) /\ Interrupts(st0, more)
  <2>1. Interrupts(st0, with) /\ Interrupts(st0, put)
    BY <1>4, <1>11, <1>17, InterruptsTwice
  <2>2. Interrupts(st0, start) /\ Interrupts(st0, more)
    BY <1>13, <1>19, <2>1, InterruptsTwice
  <2>3. Interrupts(st0, told)
    BY <1>15, <2>2, InterruptsTwice
  <2> QED
    BY <2>1, <2>2, <2>3
<1>21. tool_delta(st0, t) \in {start, told, put, more}
  <2>1. ToolStarted(st, t.idx, ts, b) = start
    BY <1>1, <1>8, <1>10, <1>12 DEF ToolStarted
  <2>2. ToolPut(st, t.idx, ts) = put
    BY <1>1, <1>16
  <2> QED
    BY <1>2, <1>14, <1>18, <2>1, <2>2 DEF ToolTurn
<1> QED
  BY <1>20, <1>21, Zenon

LEMMA ToolDeltasInterrupt ==
    ASSUME NEW st, Good(st), NEW ts \in Seq(ToolDeltas), n \in Nat
    PROVE  /\ Interrupts(st, tool_deltas(st, ts))
           /\ ts = <<>> => tool_deltas(st, ts) = st
<1>1. PICK N \in Nat : N = Len(ts)
  OBVIOUS
<1>2. \A k \in 1..N : ts[k] \in ToolDeltas
  BY <1>1
<1>3. PICK after : ToolLoop(after, st, ts)
  BY ToolDeltasLoop
<1>4. /\ after[0] = st /\ \A k \in 1..N : after[k] = tool_delta(after[k - 1], ts[k])
      /\ \A k \in 0..N : Good(after[k])
      /\ tool_deltas(st, ts) = after[N]
  BY <1>1, <1>3 DEF ToolLoop
<1> DEFINE Kept0 == {k \in Nat : k <= N => Interrupts(st, after[k])}
<1>5. 0 \in Kept0
  <2>1. Silent(st, st) /\ SameMode(st, st)
    BY SilentEvents DEF SameMode, Mode, Good, StateOK
  <2>2. Interrupts(st, after[0])
    BY <1>4, <2>1, Zenon DEF Interrupts
  <2> QED
    BY <2>2
<1>6. ASSUME NEW k \in Nat, k \in Kept0 PROVE k + 1 \in Kept0
  <2> SUFFICES ASSUME k + 1 <= N PROVE Interrupts(st, after[k + 1])
    OBVIOUS
  <2>1. PICK m \in 1..N : m = k + 1 /\ m - 1 = k /\ k \in 0..N
    BY <1>1
  <2>2. PICK mid : mid = after[k]
    OBVIOUS
  <2>3. Good(mid) /\ Interrupts(st, mid)
    BY <1>1, <1>4, <1>6, <2>1, <2>2
  <2>4. Interrupts(mid, tool_delta(mid, ts[m]))
    BY <1>2, <2>3, ToolDeltaInterrupts
  <2>5. after[m] = tool_delta(mid, ts[m])
    BY <1>4, <2>1, <2>2
  <2>6. Interrupts(st, after[m])
    BY <2>3, <2>4, <2>5, InterruptsTwice
  <2> QED
    BY <2>1, <2>6
<1>7. N \in Kept0
  <2> HIDE DEF Kept0
  <2> QED
    BY <1>1, <1>5, <1>6, SetInduction
<1>8. ts = <<>> => N = 0
  BY <1>1
<1> QED
  BY <1>1, <1>4, <1>7, <1>8

\* Tags come whole, and the thinking is not closed in the delta that opens it: the
\* first delta is not searched for </think>, and a part of <think> is flushed as text.
WholeTagged == \A c \in Contents : c.tag \in {"none", "full"} /\ (c.tag = "full" => ~c.close)

\* What the translator knows of the thinking: which it is in, and what has been told
\* of each; after a tool call has cut the thinking short, only that there is no close
\* before it.
Interrupted(tokens, toolAt) ==
    /\ toolAt # NoToolYet
    /\ \A i \in 1..Len(tokens) : tokens[i].part = "close" => i > toolAt
Opening(st, tokens) ==
    /\ st.first_content <=> Len(tokens) = 0
    /\ st.first_content => ~st.think_detected
    /\ Len(tokens) > 0 => tokens[1].part # "half" /\ (st.think_detected <=> tokens[1].part = "full")
Separated(st, tokens, toolAt) ==
    /\ tokens \in Seq(Pieces) /\ toolAt \in Int /\ toolAt <= Len(tokens)
    /\ Opening(st, tokens)
    /\ ~st.think_detected => Thought(st) = <<>> /\ Answer(st) = Text(tokens)
    /\ st.think_detected /\ st.current_type = "thinking" =>
          NoClose(tokens) /\ Thought(st) = Text(tokens) /\ Answer(st) = <<>>
    /\ st.think_detected /\ st.current_type # "thinking" =>
          Closed(tokens, Thought(st), Answer(st)) \/ Interrupted(tokens, toolAt)

LEMMA StillInterrupted ==
    ASSUME NEW p \in Seq(Pieces), NEW q \in Seq(Pieces), NEW at \in Int, at <= Len(p), Interrupted(p, at)
    PROVE  Interrupted(p \o q, at)
<1>1. PICK all \in Seq(Pieces) : all = p \o q
  BY ConcatProperties
<1>2. PICK l \in Nat, m \in Nat : l = Len(p) /\ m = Len(q)
  OBVIOUS
<1>3. Len(all) = l + m /\ \A i \in 1..l + m : all[i] = IF i <= l THEN p[i] ELSE q[i - l]
  BY <1>1, <1>2, ConcatProperties
<1>4. ASSUME NEW i \in 1..l + m, all[i].part = "close" PROVE i > at
  <2>1. CASE i <= l
    <3>1. i \in 1..l /\ all[i] = p[i]
      BY <1>3, <2>1
    <3> QED
      BY <1>2, <1>4, <3>1 DEF Interrupted
  <2>2. CASE i > l
    BY <1>2, <2>2
  <2> QED
    BY <2>1, <2>2
<1> QED
  BY <1>1, <1>3, <1>4 DEF Interrupted

LEMMA FirstDeltaSeparates ==
    ASSUME NEW st, Good(st), NEW tokens, NEW toolAt, Separated(st, tokens, toolAt), st.first_content,
           NEW c \in Contents, c # NoContent, n \in Nat, WholeTagged
    PROVE  Separated(first_delta(st, c), tokens \o Tokens(n + 1, c), toolAt)
<1>0. out \in Seq(Events) /\ st \in States
  BY DEF Good, StateOK
<1>1. tokens = <<>> /\ ~st.think_detected /\ toolAt \in Int /\ toolAt <= 0
  BY EmptySeq DEF Separated, Opening
<1>2. PICK new : new = Tokens(n + 1, c)
  OBVIOUS
<1>3. /\ new \in Seq(Pieces) /\ Len(new) > 0
      /\ new[1].part # "half" /\ (new[1].part = "full" <=> c.tag = "full")
      /\ ~c.close => NoClose(new)
  <2>1. /\ new \in Seq(Pieces) /\ Len(new) > 0 /\ new[1].part = First(c)
        /\ ~c.close => NoClose(new)
    BY <1>2, TokensPlaces
  <2> QED
    BY <2>1 DEF First, WholeTagged
<1>4. PICK data \in Seq(Pieces) : data = X(n + 1, c) \o Y(n + 1, c)
  <2>1. n + 1 \in Nat
    OBVIOUS
  <2> QED
    BY <2>1, PiecesType, Zenon
<1>5. Neutral(data) /\ Neutral(new)
  BY <1>3, PiecesNeutral
<1>6. tokens \o new = new
  BY <1>1, <1>5, Zenon DEF Neutral
<1>7. Text(new) = data
  <2>1. Text(tokens \o Tokens(n + 1, c)) = Text(tokens) \o Spoken(c)
    BY TokensSpoken DEF Separated
  <2>2. Spoken(c) = data
    BY <1>4 DEF Spoken
  <2> QED
    BY <1>1, <1>2, <1>5, <1>6, <2>1, <2>2, TextOfNothing, Zenon DEF Neutral
<1>8. Thought(st) = <<>> /\ Answer(st) = <<>>
  BY <1>1, TextOfNothing, Zenon DEF Separated
<1>9. PICK s : s = first_delta(st, c)
  OBVIOUS
<1>10. /\ c.tag = "full" => Mode(s, FALSE, TRUE, "thinking") /\ Tells(st, s, data, <<>>)
       /\ c.tag # "full" => Mode(s, FALSE, st.think_detected, "text") /\ Tells(st, s, <<>>, data)
  BY <1>0, <1>4, <1>9, FirstDeltaTells
<1>11. <<>> \o <<>> = <<>>
  OBVIOUS
<1>12. CASE c.tag = "full"
  <2>1. Thought(s) = Text(new) /\ Answer(s) = <<>>
    BY <1>5, <1>7, <1>8, <1>10, <1>11, <1>12, Zenon DEF Tells, Neutral
  <2>2. NoClose(new)
    BY <1>3, <1>12 DEF WholeTagged
  <2>3. s.first_content = FALSE /\ s.think_detected = TRUE /\ s.current_type = "thinking"
    BY <1>10, <1>12 DEF Mode
  <2>4. Opening(s, new)
    BY <1>3, <1>12, <2>3 DEF Opening
  <2>5. Separated(s, new, toolAt)
    BY <1>1, <1>3, <2>1, <2>2, <2>3, <2>4 DEF Separated
  <2> QED
    BY <1>2, <1>6, <1>9, <2>5, Zenon
<1>13. CASE c.tag # "full"
  <2>1. Thought(s) = <<>> /\ Answer(s) = Text(new)
    BY <1>5, <1>7, <1>8, <1>10, <1>11, <1>13, Zenon DEF Tells, Neutral
  <2>2. s.first_content = FALSE /\ ~s.think_detected
    BY <1>1, <1>10, <1>13 DEF Mode
  <2>3. Opening(s, new)
    BY <1>3, <1>13, <2>2 DEF Opening
  <2>4. Separated(s, new, toolAt)
    BY <1>1, <1>3, <2>1, <2>2, <2>3 DEF Separated
  <2> QED
    BY <1>2, <1>6, <1>9, <2>4, Zenon
<1> QED
  BY <1>12, <1>13

\* Beyond the first delta the flags say what they said.
LEMMA OpeningKept ==
    ASSUME NEW st, NEW s, NEW tokens \in Seq(Pieces), NEW new \in Seq(Pieces), Opening(st, tokens),
           ~st.first_content, s.first_content = st.first_content, s.think_detected = st.think_detected
    PROVE  Opening(s, tokens \o new)
<1>1. Len(tokens) > 0
  BY DEF Opening
<1>2. Len(tokens \o new) > 0 /\ (tokens \o new)[1] = tokens[1]
  BY <1>1, Grown
<1>3. PICK all : all = tokens \o new
  OBVIOUS
<1>4. Len(all) > 0 /\ all[1] = tokens[1]
  BY <1>2, <1>3, Zenon
<1>5. Opening(s, all)
  BY <1>1, <1>4 DEF Opening
<1> QED
  BY <1>3, <1>5, Zenon

LEMMA ThinkingDeltaSeparates ==
    ASSUME NEW st, Good(st), NEW tokens, NEW toolAt, Separated(st, tokens, toolAt), ~st.first_content,
           st.think_detected, st.current_type = "thinking",
           NEW c \in Contents, c # NoContent, n \in Nat, WholeTagged
    PROVE  Separated(thinking_delta(st, c), tokens \o Tokens(n + 1, c), toolAt)
<1>0. /\ out \in Seq(Events) /\ st \in States /\ n + 1 \in Nat
      /\ tokens \in Seq(Pieces) /\ toolAt \in Int /\ toolAt <= Len(tokens) /\ Opening(st, tokens)
      /\ NoClose(tokens) /\ Thought(st) = Text(tokens) /\ Answer(st) = <<>>
  BY DEF Good, StateOK, Separated
<1>1. PICK new \in Seq(Pieces) : new = Tokens(n + 1, c)
  BY TokensType
<1>2. PICK all \in Seq(Pieces) : all = tokens \o new
  BY <1>0, ConcatProperties
<1>3. toolAt <= Len(all)
  BY <1>0, <1>2, Grown
<1>4. PICK s : s = thinking_delta(st, c)
  OBVIOUS
<1>5. /\ ~c.close => SameMode(st, s) /\ Tells(st, s, X(n + 1, c), <<>>)
      /\ c.close => /\ Mode(s, st.first_content, st.think_detected, "text")
                    /\ Tells(st, s, X(n + 1, c), Y(n + 1, c))
  BY <1>0, <1>4, ThinkingDeltaTells
<1>6. s.first_content = st.first_content /\ s.think_detected = st.think_detected
  BY <1>5 DEF SameMode, Mode
<1>7. Opening(s, all)
  BY <1>0, <1>2, <1>6, OpeningKept
<1>8. X(n + 1, c) \in Seq(Pieces) /\ Y(n + 1, c) \in Seq(Pieces)
  BY <1>0, PiecesType
<1>9. Neutral(X(n + 1, c)) /\ Neutral(Y(n + 1, c)) /\ Neutral(<<>>)
  BY <1>8, TextOfNothing, PiecesNeutral
<1>10. CASE ~c.close
  <2>1. Thought(s) = Text(tokens) \o X(n + 1, c) /\ Answer(s) = <<>>
    BY <1>0, <1>5, <1>9, <1>10, Zenon DEF Tells, Neutral
  <2>2. Y(n + 1, c) = <<>>
    BY <1>10, ChunksAssumption DEF Y, Piece
  <2>3. Text(all) = Text(tokens) \o X(n + 1, c)
    <3>1. Text(tokens \o Tokens(n + 1, c)) = Text(tokens) \o Spoken(c)
      BY <1>0, TokensSpoken
    <3>2. Spoken(c) = X(n + 1, c) \o Y(n + 1, c)
      BY DEF Spoken
    <3> QED
      BY <1>1, <1>2, <1>9, <2>2, <3>1, <3>2, Zenon DEF Neutral
  <2>4. NoClose(all)
    <3>1. NoClose(new)
      BY <1>1, <1>10, TokensPlaces
    <3> QED
      BY <1>0, <1>2, <3>1, Grown
  <2>5. s.think_detected /\ s.current_type = "thinking"
    BY <1>5, <1>10 DEF SameMode, Mode
  <2>6. Thought(s) = Text(all)
    BY <2>1, <2>3, Zenon
  <2>7. Separated(s, all, toolAt)
    BY <1>0, <1>3, <1>7, <2>1, <2>4, <2>5, <2>6 DEF Separated
  <2> QED
    BY <1>1, <1>2, <1>4, <2>7, Zenon
<1>11. CASE c.close
  <2>1. Thought(s) = Text(tokens) \o X(n + 1, c) /\ Answer(s) = Y(n + 1, c)
    BY <1>0, <1>5, <1>9, <1>11, Zenon DEF Tells, Neutral
  <2>2. Len(tokens) > 0
    BY <1>0 DEF Opening
  <2>3. Closed(tokens \o Tokens(n + 1, c), Text(tokens) \o X(n + 1, c), Y(n + 1, c))
    BY <1>0, <1>11, <2>2, ClosedNow
  <2>4. Closed(all, Thought(s), Answer(s))
    BY <1>1, <1>2, <2>1, <2>3, Zenon
  <2>5. s.think_detected /\ s.current_type # "thinking"
    BY <1>5, <1>11 DEF Mode
  <2>6. Separated(s, all, toolAt)
    BY <1>0, <1>3, <1>7, <2>4, <2>5 DEF Separated
  <2> QED
    BY <1>1, <1>2, <1>4, <2>6, Zenon
<1> QED
  BY <1>10, <1>11

LEMMA TextDeltaSeparates ==
    ASSUME NEW st, Good(st), NEW tokens, NEW toolAt, Separated(st, tokens, toolAt), ~st.first_content,
           st.current_type # "thinking", NEW c \in Contents, c # NoContent, n \in Nat, WholeTagged
    PROVE  Separated(text_delta(st, c), tokens \o Tokens(n + 1, c), toolAt)
<1>0. /\ out \in Seq(Events) /\ st \in States /\ n + 1 \in Nat
      /\ st.text_started => st.current_type = "text"
      /\ tokens \in Seq(Pieces) /\ toolAt \in Int /\ toolAt <= Len(tokens) /\ Opening(st, tokens)
  BY DEF Good, StateOK, Separated
<1>1. PICK new \in Seq(Pieces) : new = Tokens(n + 1, c)
  BY TokensType
<1>2. PICK all \in Seq(Pieces) : all = tokens \o new
  BY <1>0, ConcatProperties
<1>3. toolAt <= Len(all)
  BY <1>0, <1>2, Grown
<1>4. PICK s : s = text_delta(st, c)
  OBVIOUS
<1>5. Spoken(c) = X(n + 1, c) \o Y(n + 1, c)
  BY DEF Spoken
<1>6. Mode(s, st.first_content, st.think_detected, "text") /\ Tells(st, s, <<>>, Spoken(c))
  BY <1>0, <1>4, <1>5, TextDeltaTells, Zenon
<1>7. s.first_content = st.first_content /\ s.think_detected = st.think_detected /\ s.current_type = "text"
  BY <1>6 DEF Mode
<1>8. Opening(s, all)
  BY <1>0, <1>2, <1>7, OpeningKept
<1>9. Thought(s) = Thought(st) /\ Answer(s) = Answer(st) \o Spoken(c)
  <2>1. Neutral(Thought(st))
    BY <1>0, ThoughtType, PiecesNeutral
  <2> QED
    BY <1>6, <2>1, Zenon DEF Tells, Neutral
<1>10. CASE ~st.think_detected
  <2>1. Thought(st) = <<>> /\ Answer(st) = Text(tokens)
    BY <1>10 DEF Separated
  <2>2. Text(tokens \o Tokens(n + 1, c)) = Text(tokens) \o Spoken(c)
    BY <1>0, TokensSpoken
  <2>3. Thought(s) = <<>> /\ Answer(s) = Text(all)
    BY <1>1, <1>2, <1>9, <2>1, <2>2, Zenon
  <2>4. Separated(s, all, toolAt)
    BY <1>0, <1>3, <1>7, <1>8, <1>10, <2>3 DEF Separated
  <2> QED
    BY <1>1, <1>2, <1>4, <2>4, Zenon
<1>11. CASE st.think_detected
  <2>1. Closed(tokens, Thought(st), Answer(st)) \/ Interrupted(tokens, toolAt)
    BY <1>11 DEF Separated
  <2>2. ASSUME Closed(tokens, Thought(st), Answer(st)) PROVE Closed(all, Thought(s), Answer(s))
    <3>1. Closed(tokens \o Tokens(n + 1, c), Thought(st), Answer(st) \o SpokenIn(n + 1, c))
      BY <1>0, <2>2, ClosedGrows
    <3>2. SpokenIn(n + 1, c) = Spoken(c)
      BY DEF SpokenIn, Spoken
    <3> QED
      BY <1>1, <1>2, <1>9, <3>1, <3>2, Zenon
  <2>3. ASSUME Interrupted(tokens, toolAt) PROVE Interrupted(all, toolAt)
    BY <1>0, <1>2, <2>3, StillInterrupted
  <2>4. Separated(s, all, toolAt)
    BY <1>0, <1>3, <1>7, <1>8, <1>11, <2>1, <2>2, <2>3 DEF Separated
  <2> QED
    BY <1>1, <1>2, <1>4, <2>4, Zenon
<1> QED
  BY <1>10, <1>11

LEMMA ContentSeparates ==
    ASSUME NEW st, Good(st), NEW tokens, NEW toolAt, Separated(st, tokens, toolAt),
           NEW c \in Contents \cup {NoContent}, n \in Nat, WholeTagged
    PROVE  Separated(content_delta(st, c), tokens \o Tokens(n + 1, c), toolAt)
<1>1. CASE c = NoContent
  <2>1. content_delta(st, c) = st /\ Tokens(n + 1, c) = <<>>
    BY <1>1 DEF content_delta, Tokens
  <2>2. Neutral(tokens)
    BY PiecesNeutral DEF Separated
  <2> QED
    BY <2>1, <2>2, Zenon DEF Neutral
<1>2. CASE c # NoContent
  <2>1. c \in Contents
    BY <1>2
  <2>2. CASE st.first_content
    <3>1. content_delta(st, c) = first_delta(st, c)
      BY <1>2, <2>2 DEF content_delta
    <3> QED
      BY <1>2, <2>1, <2>2, <3>1, FirstDeltaSeparates
  <2>3. CASE ~st.first_content /\ st.current_type = "thinking"
    <3>1. st.think_detected
      BY <2>3 DEF Good, StateOK
    <3>2. content_delta(st, c) = thinking_delta(st, c)
      BY <1>2, <2>3, <3>1 DEF content_delta
    <3> QED
      BY <1>2, <2>1, <2>3, <3>1, <3>2, ThinkingDeltaSeparates
  <2>4. CASE ~st.first_content /\ st.current_type # "thinking"
    <3>1. content_delta(st, c) = text_delta(st, c)
      BY <1>2, <2>4 DEF content_delta
    <3> QED
      BY <1>2, <2>1, <2>4, <3>1, TextDeltaSeparates
  <2> QED
    BY <2>2, <2>3, <2>4
<1> QED
  BY <1>1, <1>2

\* What says nothing and stays in its mode separates as before; a tool call may cut
\* the thinking short.
LEMMA SilentSeparates ==
    ASSUME NEW st, NEW s, NEW tokens, NEW toolAt, Separated(st, tokens, toolAt),
           Silent(st, s), SameMode(st, s)
    PROVE  Separated(s, tokens, toolAt)
<1>1. /\ s.first_content = st.first_content /\ s.think_detected = st.think_detected
      /\ s.current_type = st.current_type /\ Thought(s) = Thought(st) /\ Answer(s) = Answer(st)
  BY DEF Silent, SameMode, Mode
<1> QED
  BY <1>1 DEF Separated, Opening

LEMMA ToolsSeparate ==
    ASSUME NEW st, Good(st), NEW tokens, NEW toolAt, Separated(st, tokens, toolAt),
           NEW ts \in Seq(ToolDeltas), n \in Nat
    PROVE  Separated(tool_deltas(st, ts), tokens,
                     IF ts # <<>> /\ toolAt = NoToolYet THEN Len(tokens) ELSE toolAt)
<1>0. tokens \in Seq(Pieces) /\ toolAt \in Int /\ toolAt <= Len(tokens) /\ Len(tokens) \in Nat
  BY DEF Separated
<1>1. PICK s : s = tool_deltas(st, ts)
  OBVIOUS
<1>2. Interrupts(st, s) /\ (ts = <<>> => s = st)
  BY <1>1, ToolDeltasInterrupt
<1>3. PICK at : at = IF ts # <<>> /\ toolAt = NoToolYet THEN Len(tokens) ELSE toolAt
  OBVIOUS
<1>4. CASE ts = <<>>
  <2>1. at = toolAt /\ s = st
    BY <1>2, <1>3, <1>4
  <2> QED
    BY <1>1, <1>3, <2>1, Zenon
<1>5. CASE ts # <<>>
  <2>1. at \in Int /\ at <= Len(tokens) /\ at # NoToolYet
    BY <1>0, <1>3, <1>5 DEF NoToolYet
  <2>2. ASSUME Interrupted(tokens, toolAt) PROVE Interrupted(tokens, at)
    <3>1. at = toolAt
      BY <1>3, <2>2 DEF Interrupted
    <3> QED
      BY <2>2, <3>1, Zenon
  <2>3. ASSUME NoClose(tokens) PROVE Interrupted(tokens, at)
    BY <2>1, <2>3 DEF NoClose, Interrupted
  <2>4. Thought(s) = Thought(st) /\ Answer(s) = Answer(st)
    BY <1>2 DEF Interrupts, Silent
  <2>5. s.first_content = st.first_content /\ s.think_detected = st.think_detected
    BY <1>2 DEF Interrupts, SameMode, Mode
  <2>6. s.current_type = st.current_type \/ s.current_type = "nil"
    BY <1>2 DEF Interrupts, SameMode, Mode
  <2>7. Opening(s, tokens)
    BY <2>5 DEF Separated, Opening
  <2>8. CASE ~st.think_detected
    BY <1>0, <1>1, <1>3, <2>1, <2>4, <2>5, <2>7, <2>8 DEF Separated
  <2>9. CASE st.think_detected /\ st.current_type = "thinking"
    <3>1. NoClose(tokens) /\ Thought(st) = Text(tokens) /\ Answer(st) = <<>>
      BY <2>9 DEF Separated
    <3>2. Separated(s, tokens, at)
      BY <1>0, <2>1, <2>3, <2>4, <2>5, <2>6, <2>7, <2>9, <3>1 DEF Separated
    <3> QED
      BY <1>1, <1>3, <3>2, Zenon
  <2>10. CASE st.think_detected /\ st.current_type # "thinking"
    <3>1. Closed(tokens, Thought(st), Answer(st)) \/ Interrupted(tokens, toolAt)
      BY <2>10 DEF Separated
    <3>2. Closed(tokens, Thought(s), Answer(s)) \/ Interrupted(tokens, at)
      BY <2>2, <2>4, <3>1, Zenon
    <3>3. Separated(s, tokens, at)
      BY <1>0, <2>1, <2>5, <2>6, <2>7, <2>10, <3>2 DEF Separated
    <3> QED
      BY <1>1, <1>3, <3>3, Zenon
  <2> QED
    BY <2>8, <2>9, <2>10
<1> QED
  BY <1>4, <1>5

\* The other handlers say nothing and stay in their mode.
LEMMA MessageStartQuiet ==
    ASSUME out \in Seq(Events), NEW st \in States
    PROVE  SameMode(st, message_start(st)) /\ Silent(st, message_start(st))
<1>1. PICK mid : mid = [st EXCEPT !.message_started = TRUE]
  OBVIOUS
<1>2. SameMode(st, mid) /\ mid.events = st.events
  BY <1>1 DEF States, SameMode, Mode
<1>3. PICK s : s = Emit(mid, "message_start", 0, "nil", <<>>)
  OBVIOUS
<1>4. mid \in States /\ SameMode(mid, s) /\ Silent(mid, s)
  <2>1. mid \in States
    BY <1>2 DEF SameMode, Mode
  <2> QED
    BY <1>3, <2>1, BareEmitSilent DEF EventNames, Kinds
<1>5. Silent(st, s) /\ Silent(st, st) /\ SameMode(st, s) /\ SameMode(st, st)
  <2>1. Silent(st, mid) /\ Silent(st, st)
    BY <1>2, SilentEvents
  <2> QED
    BY <1>2, <1>4, <2>1, SilentTwice DEF SameMode, Mode
<1>6. message_start(st) \in {st, s}
  BY <1>1, <1>3 DEF message_start
<1> QED
  BY <1>5, <1>6, Zenon

LEMMA FinishQuiet ==
    ASSUME NEW st \in States, NEW f, NEW ts
    PROVE  SameMode(st, finish(st, f, ts)) /\ Silent(st, finish(st, f, ts))
<1>1. PICK r \in Kinds :
        r = IF ts # <<>> \/ \E i \in ToolIndex : st.tool_states[i].seen THEN "tool_use"
            ELSE map_stop_reason(f)
  BY DEF map_stop_reason, Kinds
<1>2. PICK s : s = [st EXCEPT !.stop_reason = r]
  OBVIOUS
<1>3. SameMode(st, s) /\ s.events = st.events /\ SameMode(st, st)
  BY <1>2 DEF States, SameMode, Mode
<1>4. Silent(st, s) /\ Silent(st, st)
  BY <1>3, SilentEvents
<1>5. finish(st, f, ts) \in {st, s}
  BY <1>1, <1>2 DEF finish
<1> QED
  BY <1>3, <1>4, <1>5, Zenon

LEMMA StreamEndQuiet ==
    ASSUME out \in Seq(Events), NEW st \in States
    PROVE  SameMode(st, stream_end(st)) /\ Silent(st, stream_end(st))
<1> DEFINE Quiet(a, b) == SameMode(a, b) /\ Silent(a, b)
<1>0. ASSUME NEW a, NEW b, NEW d, Quiet(a, b), Quiet(b, d) PROVE Quiet(a, d)
  BY <1>0, SilentTwice DEF SameMode, Mode
<1>1. ASSUME NEW s \in States, NEW i \in ToolIndex
      PROVE  close_tool(s, i) \in States /\ Quiet(s, close_tool(s, i))
  <2>1. PICK b \in Nat : b = s.tool_states[i].block_index
    BY DEF States, ToolStates
  <2>2. PICK e : e = Emit(s, "stop", b, "tool", <<>>)
    OBVIOUS
  <2>3. Quiet(s, e) /\ Quiet(s, s)
    BY <2>2, BareEmitSilent, SilentEvents DEF EventNames, Kinds, SameMode, Mode
  <2>4. e \in States
    BY <2>3 DEF SameMode, Mode
  <2>5. close_tool(s, i) \in {s, e}
    BY <2>1, <2>2 DEF close_tool
  <2> QED
    BY <2>3, <2>4, <2>5, Zenon
<1>2. PICK s1 : s1 = close_content(st)
  OBVIOUS
<1>3. s1 \in States /\ Quiet(st, s1)
  <2>1. Quiet(st, BlockStop(st)) /\ Quiet(st, st)
    BY BlockSilent, SilentEvents DEF SameMode, Mode
  <2>2. s1 \in {st, BlockStop(st)}
    BY <1>2 DEF close_content
  <2>3. Quiet(st, s1)
    BY <2>1, <2>2, Zenon
  <2> QED
    BY <2>3 DEF SameMode, Mode
<1>4. PICK s2 : s2 = close_tool(s1, "t0")
  OBVIOUS
<1>5. PICK s3 : s3 = close_tool(s2, "t1")
  OBVIOUS
<1>6. s2 \in States /\ Quiet(s1, s2)
  BY <1>1, <1>3, <1>4 DEF ToolIndex
<1>7. s3 \in States /\ Quiet(s2, s3)
  BY <1>1, <1>5, <1>6 DEF ToolIndex
<1>8. PICK kind \in Kinds : kind = st.stop_reason
  BY DEF States
<1>9. PICK s4 : s4 = Emit(s3, "message_delta", 0, kind, <<>>)
  OBVIOUS
<1>10. PICK s5 : s5 = Emit(s4, "message_stop", 0, "nil", <<>>)
  OBVIOUS
<1>11. s4 \in States /\ Quiet(s3, s4)
  BY <1>7, <1>9, BareEmitSilent DEF EventNames, SameMode, Mode
<1>12. Quiet(s4, s5)
  BY <1>10, <1>11, BareEmitSilent DEF EventNames, Kinds
<1>13. Quiet(st, s5)
  <2> HIDE DEF Quiet
  <2>1. Quiet(st, s2)
    BY <1>0, <1>3, <1>6
  <2>2. Quiet(st, s3)
    BY <1>0, <1>7, <2>1
  <2>3. Quiet(st, s4)
    BY <1>0, <1>11, <2>2
  <2> QED
    BY <1>0, <1>12, <2>3
<1>14. stream_end(st) = s5
  BY <1>2, <1>4, <1>5, <1>8, <1>9, <1>10 DEF stream_end
<1> QED
  BY <1>13, <1>14, Zenon

ThinkInv == LostInv /\ Separated(state, got.tokens, got.toolAt)

LEMMA InitThink == Init => ThinkInv
<1> SUFFICES ASSUME Init PROVE ThinkInv
  OBVIOUS
<1>1. LostInv
  BY InitLost
<1>2. got.tokens = <<>> /\ got.toolAt = -1
  BY DEF Init, nothing, NoToolYet
<1>3. out = <<>> /\ state.events = <<>> /\ state.first_content /\ ~state.think_detected
  BY DEF Init, new_stream_state
<1>4. out \o state.events = <<>>
  BY <1>3
<1>5. Thought(state) = <<>> /\ Answer(state) = <<>>
  BY <1>4, NothingTold, Zenon DEF Thought, Answer
<1>6. got.tokens \in Seq(Pieces) /\ Text(got.tokens) = <<>>
  BY <1>2, TextOfNothing, Zenon
<1>7. Len(got.tokens) = 0
  BY <1>2
<1>8. Separated(state, got.tokens, got.toolAt)
  BY <1>2, <1>3, <1>5, <1>6, <1>7 DEF Separated, Opening
<1> QED
  BY <1>1, <1>8 DEF ThinkInv

\* What a handler has separated is separated in the client's log.
LEMMA WriteThink ==
    ASSUME out \in Seq(Events), NEW s \in States, Write(s), LostInv',
           Separated(s, got'.tokens, got'.toolAt)
    PROVE  ThinkInv'
<1>1. out' = out \o s.events /\ state' = [s EXCEPT !.events = <<>>]
  BY DEF Write
<1>2. /\ state'.events = <<>> /\ s.events \in Seq(Events)
      /\ state'.first_content = s.first_content /\ state'.think_detected = s.think_detected
      /\ state'.current_type = s.current_type
  BY <1>1 DEF States
<1>3. out' \in Seq(Events)
  BY <1>1, <1>2, ConcatProperties
<1>4. out' \o state'.events = out'
  BY <1>2, <1>3, ConcatEmptySeq
<1>5. Thought(state)' = Thought(s) /\ Answer(state)' = Answer(s)
  BY <1>1, <1>4, Zenon DEF Thought, Answer
<1>6. Separated(state, got.tokens, got.toolAt)'
  BY <1>2, <1>5 DEF Separated, Opening
<1> QED
  BY <1>6 DEF ThinkInv

LEMMA ThinkSame ==
    ASSUME ThinkInv, LostInv', state' = state, out' = out, got' = got
    PROVE  ThinkInv'
<1>1. Thought(state)' = Thought(state) /\ Answer(state)' = Answer(state)
  BY Zenon DEF Thought, Answer
<1>2. Separated(state, got.tokens, got.toolAt)'
  BY <1>1 DEF ThinkInv, Separated, Opening
<1> QED
  BY <1>2 DEF ThinkInv

\* A chunk separates what it carries.
LEMMA ChunkSeparates ==
    ASSUME ThinkInv, ~ended, NEW c \in Contents \cup {NoContent}, NEW ts \in Tools, NEW f, WholeTagged
    PROVE  LET tokens == got.tokens \o Tokens(n + 1, c)
           IN  /\ stream_chunk_from_openai(state, c, ts, f) \in States
               /\ Separated(stream_chunk_from_openai(state, c, ts, f), tokens,
                     IF ts # <<>> /\ got.toolAt = NoToolYet THEN Len(tokens) ELSE got.toolAt)
<1>1. Good(state) /\ out \in Seq(Events) /\ state \in States /\ n \in Nat
  BY LostNow DEF ThinkInv
<1>2. PICK s1 : s1 = message_start(state)
  OBVIOUS
<1>3. PICK s2 : s2 = finish(s1, f, ts)
  OBVIOUS
<1>4. PICK s3 : s3 = content_delta(s2, c)
  OBVIOUS
<1>5. PICK s : s = tool_deltas(s3, ts)
  OBVIOUS
<1>6. PICK at : at = got.toolAt
  OBVIOUS
<1>7. Separated(state, got.tokens, at)
  BY <1>6 DEF ThinkInv
<1>8. Good(s1) /\ s1 \in States /\ Separated(s1, got.tokens, at)
  <2>1. SameMode(state, s1) /\ Silent(state, s1)
    BY <1>1, <1>2, MessageStartQuiet
  <2>2. Good(s1)
    BY <1>1, <1>2, MessageStartGood
  <2> QED
    BY <1>7, <2>1, <2>2, SilentSeparates DEF SameMode, Mode
<1>9. Good(s2) /\ Separated(s2, got.tokens, at)
  <2>1. SameMode(s1, s2) /\ Silent(s1, s2)
    BY <1>3, <1>8, FinishQuiet
  <2>2. Good(s2)
    BY <1>3, <1>8, FinishGood
  <2> QED
    BY <1>8, <2>1, <2>2, SilentSeparates
<1>10. PICK tokens : tokens = got.tokens \o Tokens(n + 1, c)
  OBVIOUS
<1>11. Good(s3) /\ Separated(s3, tokens, at)
  BY <1>1, <1>4, <1>9, <1>10, ContentDeltaGood, ContentSeparates
<1>12. ts \in Seq(ToolDeltas)
  BY ChunksAssumption DEF ToolDeltas
<1>13. Separated(s, tokens, IF ts # <<>> /\ at = NoToolYet THEN Len(tokens) ELSE at)
  BY <1>1, <1>5, <1>11, <1>12, ToolsSeparate
<1>14. Good(s)
  BY <1>1, <1>5, <1>11, <1>12, ToolDeltasGood
<1>15. s \in States
  BY <1>14 DEF Good, StateOK
<1>16. stream_chunk_from_openai(state, c, ts, f) = s
  BY <1>2, <1>3, <1>4, <1>5, Zenon DEF stream_chunk_from_openai
<1> QED
  BY <1>6, <1>10, <1>13, <1>15, <1>16, Zenon

LEMMA StepThink == ASSUME WholeTagged PROVE ThinkInv /\ [Next]_vars => ThinkInv'
<1> SUFFICES ASSUME ThinkInv, [Next]_vars PROVE ThinkInv'
  OBVIOUS
<1>1. LostInv'
  BY StepLost DEF ThinkInv
<1>2. ASSUME NEW c \in Contents \cup {NoContent}, NEW ts \in Tools, NEW f \in FinishReasons, Chunk(c, ts, f)
      PROVE  ThinkInv'
  <2>1. ~ended /\ Write(stream_chunk_from_openai(state, c, ts, f)) /\ got' = Extend(got, n + 1, c, ts)
    BY <1>2 DEF Chunk
  <2>2. PICK s : s = stream_chunk_from_openai(state, c, ts, f)
    OBVIOUS
  <2>3. PICK tokens : tokens = got.tokens \o Tokens(n + 1, c)
    OBVIOUS
  <2>4. PICK at : at = IF ts # <<>> /\ got.toolAt = NoToolYet THEN Len(tokens) ELSE got.toolAt
    OBVIOUS
  <2>5. s \in States /\ Separated(s, tokens, at)
    BY <2>1, <2>2, <2>3, <2>4, ChunkSeparates
  <2>6. got'.tokens = tokens /\ got'.toolAt = at
    <3>1. PICK args : got' = [tokens |-> tokens, args |-> args, toolAt |-> at]
      BY <2>1, <2>3, <2>4, Zenon DEF Extend
    <3> QED
      BY <3>1
  <2>7. out \in Seq(Events)
    BY <2>1, LostNow DEF ThinkInv
  <2>8. Write(s)
    BY <2>1, <2>2
  <2>9. Separated(s, got'.tokens, got'.toolAt)
    BY <2>5, <2>6, Zenon
  <2> QED
    BY <1>1, <2>5, <2>7, <2>8, <2>9, WriteThink
<1>3. ASSUME NEW s, Write(s), ~ended, SameMode(state, s), Silent(state, s), got' = got PROVE ThinkInv'
  <2>1. out \in Seq(Events) /\ s \in States
    BY <1>3, LostNow DEF ThinkInv, SameMode, Mode
  <2>2. Separated(s, got.tokens, got.toolAt)
    BY <1>3, SilentSeparates DEF ThinkInv
  <2>3. Separated(s, got'.tokens, got'.toolAt)
    BY <1>3, <2>2, Zenon
  <2> QED
    BY <1>1, <1>3, <2>1, <2>3, WriteThink
<1>4. CASE ChunkWithoutChoice
  <2>1. ~ended /\ Write(message_start(state)) /\ got' = got
    BY <1>4 DEF ChunkWithoutChoice
  <2>2. SameMode(state, message_start(state)) /\ Silent(state, message_start(state))
    BY <2>1, LostNow, MessageStartQuiet DEF ThinkInv
  <2> QED
    BY <1>3, <2>1, <2>2
<1>5. CASE ChunkUnreadable
  BY <1>1, <1>5, ThinkSame DEF ChunkUnreadable
<1>6. CASE End
  <2>1. ~ended /\ Write(stream_end(state)) /\ got' = got
    BY <1>6 DEF End
  <2>2. SameMode(state, stream_end(state)) /\ Silent(state, stream_end(state))
    BY <2>1, LostNow, StreamEndQuiet DEF ThinkInv
  <2> QED
    BY <1>3, <2>1, <2>2
<1>7. CASE UNCHANGED vars
  BY <1>1, <1>7, ThinkSame DEF vars
<1> QED
  BY <1>2, <1>4, <1>5, <1>6, <1>7 DEF Next, Done

LEMMA ThinkEnough == ThinkInv => ThinkSeparated
<1> SUFFICES ASSUME ThinkInv, Complete(got)
             PROVE  [thinking |-> Data({"thinking"}), text |-> Data({"text"})] = response_from_openai(got.tokens)
  BY DEF ThinkSeparated
<1>1. PICK tokens \in Seq(Pieces) : tokens = got.tokens
  BY DEF ThinkInv, LostInv
<1>2. PICK at : at = got.toolAt
  OBVIOUS
<1>3. Thought(state) = Data({"thinking"}) /\ Answer(state) = Data({"text"})
  <2>1. out \in Seq(Events) /\ state.events = <<>>
    BY DEF ThinkInv, LostInv, BracketInv, Good, LogOK
  <2>2. out \o state.events = out
    BY <2>1, ConcatEmptySeq
  <2> QED
    BY <2>2, Zenon DEF Thought, Answer, Told, Data
<1>4. Separated(state, tokens, at)
  BY <1>1, <1>2 DEF ThinkInv
<1>5. state.think_detected <=> OpenLen(tokens) # 0
  BY <1>4 DEF Separated, Opening, OpenLen
<1>6. OpenLen(tokens) \in {0, 1}
  BY <1>4 DEF Separated, Opening, OpenLen
<1>7. CASE ~state.think_detected
  <2>1. Thought(state) = <<>> /\ Answer(state) = Text(tokens)
    BY <1>4, <1>7 DEF Separated
  <2>2. response_from_openai(tokens) = [thinking |-> <<>>, text |-> Text(tokens)]
    BY <1>5, <1>7 DEF response_from_openai
  <2> QED
    BY <1>1, <1>3, <2>1, <2>2, Zenon
<1>8. CASE state.think_detected
  <2>1. PICK i \in Closes(tokens) : at = NoToolYet \/ at >= i
    BY <1>1, <1>2, <1>5, <1>8 DEF Complete
  <2>2. i \in 1..Len(tokens) /\ tokens[i].part = "close"
    BY <2>1 DEF Closes
  <2>3. state.current_type # "thinking"
    BY <1>4, <1>8, <2>2 DEF Separated, NoClose
  <2>4. ~Interrupted(tokens, at)
    BY <1>4, <2>1, <2>2 DEF Interrupted, Separated
  <2>5. Closed(tokens, Thought(state), Answer(state))
    BY <1>4, <1>8, <2>3, <2>4 DEF Separated
  <2>6. OpenLen(tokens) = 1
    BY <1>5, <1>6, <1>8
  <2>7. response_from_openai(tokens) = [thinking |-> Thought(state), text |-> Answer(state)]
    BY <2>5, <2>6, CutAtClose
  <2> QED
    BY <1>1, <1>3, <2>7, Zenon
<1> QED
  BY <1>7, <1>8

\* When tags arrive whole and no delta both opens and closes the thinking, streaming
\* separates thinking and text as the non-streaming translator does for the whole
\* message, in every stream of chunks of any length in which the thinking is closed
\* before the first tool call.
THEOREM ThinkingApart == ASSUME WholeTagged PROVE Spec => []ThinkSeparated
<1>1. Init => ThinkInv
  BY InitThink
<1>2. ThinkInv /\ [Next]_vars => ThinkInv'
  BY StepThink
<1>3. ThinkInv => ThinkSeparated
  BY ThinkEnough
<1> QED
  BY <1>1, <1>2, <1>3, PTL DEF Spec
=============================================================================
