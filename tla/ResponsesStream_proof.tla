------------------------ MODULE ResponsesStream_proof ------------------------
(***************************************************************************)
(* Proofs about ResponsesStream: for every number of chunks, the deltas    *)
(* carry what the chunks carry, the closing events what the deltas do, the *)
(* items are opened and closed around their deltas, and reasoning and text *)
(* are cut apart where the message says.                                   *)
(***************************************************************************)
EXTENDS ResponsesStream, Chunks_proof, FiniteSetTheorems

Dones == {"text.done", "part.done", "item.done"}
EventTypes == Dones \cup {"delta", "item.added", "part.added", "response.created", "response.completed"}
Statuses == {"completed", "incomplete", "failed"}
Names == Items \cup Statuses \cup {"nil"}
Events == {e \in [type : EventTypes, seq : Nat, item : Names, index : Int,
                  data : Seq(Pieces) \cup SUBSET Items] :
             e.type = "delta" => e.data \in Seq(Pieces)}
ToolStates == [seen : BOOLEAN, known : BOOLEAN, started : BOOLEAN, args : Seq(Pieces),
               output_index : Int]
States == [seq : Nat, output_index : Int, next_output_index : Int, first_content : BOOLEAN,
           think_detected : BOOLEAN, reasoning_text : Seq(Pieces), accumulated_text : Seq(Pieces),
           message_started : BOOLEAN, text_part_started : BOOLEAN, response_created : BOOLEAN,
           status : Statuses, tool_states : [ToolIndex -> ToolStates], events : Seq(Events)]

---------------------------------------------------------------------------
(* What a log tells                                                        *)

\* What event e tells of the items, what the first k events of the log do, and
\* what the whole log does.
Carried(e, items) == IF e.type = "delta" /\ e.item \in items THEN e.data ELSE <<>>
Upto(log, items, k) == FlattenSeq([i \in 1..k |-> Carried(log[i], items)])
Told(log, items) == Upto(log, items, Len(log))

LEMMA CarriedType ==
    ASSUME NEW e \in Events, NEW items
    PROVE  Carried(e, items) \in Seq(Pieces)
<1>1. e.type = "delta" => e.data \in Seq(Pieces)
  BY DEF Events
<1>2. <<>> \in Seq(Pieces)
  OBVIOUS
<1> QED
  BY <1>1, <1>2, Zenon DEF Carried

\* One more event leaves what the events before it tell.
LEMMA UptoKept ==
    ASSUME NEW log \in Seq(Events), NEW e \in Events, NEW items, NEW k \in Nat, k <= Len(log)
    PROVE  Upto(Append(log, e), items, k) = Upto(log, items, k)
<1>1. PICK new : new = Append(log, e)
  OBVIOUS
<1>2. \A i \in 1..k : new[i] = log[i]
  BY <1>1, AppendProperties
<1>3. [i \in 1..k |-> Carried(new[i], items)] = [i \in 1..k |-> Carried(log[i], items)]
  BY <1>2
<1> QED
  BY <1>1, <1>3 DEF Upto

LEMMA ToldAppend ==
    ASSUME NEW log \in Seq(Events), NEW e \in Events, NEW items
    PROVE  /\ Told(log, items) \in Seq(Pieces)
           /\ Told(Append(log, e), items) = Told(log, items) \o Carried(e, items)
<1>1. ASSUME NEW x \in Events PROVE Carried(x, items) \in Seq(Pieces)
  BY CarriedType
<1>2. PICK m \in Nat : m = Len(log)
  OBVIOUS
<1>3. PICK new \in Seq(Events) : new = Append(log, e)
  <2>1. Append(log, e) \in Seq(Events)
    BY AppendProperties
  <2> QED
    BY <2>1, Zenon
<1>4. /\ Len(new) = m + 1 /\ new[m + 1] = e
      /\ \A i \in 1..m : new[i] = log[i] /\ log[i] \in Events
  BY <1>2, <1>3, AppendProperties, LenProperties
<1> DEFINE old == [i \in 1..m |-> Carried(log[i], items)]
           more == [i \in 1..(m + 1) |-> Carried(new[i], items)]
<1>5. Told(log, items) = FlattenSeq(old) /\ Told(new, items) = FlattenSeq(more)
  BY <1>2, <1>4 DEF Told, Upto
<1>6. old \in Seq(Seq(Pieces)) /\ Len(old) = m
  <2>1. \A i \in 1..m : Carried(log[i], items) \in Seq(Pieces)
    BY <1>1, <1>4
  <2> QED
    BY <2>1
<1>7. PICK x \in Seq(Pieces) : x = Carried(e, items)
  BY <1>1
<1>8. more = Append(old, x)
  <2>1. \A i \in 1..(m + 1) : more[i] = Append(old, x)[i]
    <3>1. \A i \in 1..m : Append(old, x)[i] = Carried(log[i], items)
      BY <1>6, AppendProperties
    <3>2. Append(old, x)[m + 1] = x
      BY <1>6, AppendProperties
    <3>3. \A i \in 1..(m + 1) : i \in 1..m \/ i = m + 1
      OBVIOUS
    <3> QED
      BY <1>4, <1>7, <3>1, <3>2, <3>3
  <2>2. Append(old, x) \in Seq(Seq(Pieces)) /\ Len(Append(old, x)) = m + 1
    BY <1>6, AppendProperties
  <2>3. DOMAIN Append(old, x) = 1..(m + 1) /\ Append(old, x) = [i \in 1..(m + 1) |-> Append(old, x)[i]]
    BY <2>2, LenProperties
  <2> QED
    BY <2>1, <2>3
<1> HIDE DEF old, more
<1>9. /\ FlattenSeq(old) \in Seq(Pieces)
      /\ FlattenSeq(Append(old, x)) = FlattenSeq(old) \o x
  BY <1>6, FlatAppend
<1> QED
  BY <1>3, <1>5, <1>7, <1>8, <1>9, Zenon

LEMMA NothingTold ==
    ASSUME NEW items
    PROVE  Told(<<>>, items) = <<>>
<1>1. PICK log : log = <<>>
  OBVIOUS
<1>2. Len(log) = 0 /\ [i \in 1..Len(log) |-> Carried(log[i], items)] = <<>>
  BY <1>1
<1>3. Told(log, items) = FlattenSeq(<<>>)
  BY <1>2 DEF Told, Upto
<1> QED
  BY <1>1, <1>3, FlatEmpty, Zenon

\* A closing event in the log carries what the deltas before it told of its item.
DonesOK(log) ==
    \A i \in 1..Len(log) : log[i].type \in Dones => log[i].data = Upto(log, {log[i].item}, i)

LEMMA DonesAppend ==
    ASSUME NEW log \in Seq(Events), NEW e \in Events, DonesOK(log),
           e.type \in Dones => e.data = Told(log, {e.item})
    PROVE  DonesOK(Append(log, e))
<1>1. PICK m \in Nat : m = Len(log)
  OBVIOUS
<1>2. PICK new \in Seq(Events) : new = Append(log, e)
  <2>1. Append(log, e) \in Seq(Events)
    BY AppendProperties
  <2> QED
    BY <2>1, Zenon
<1>3. Len(new) = m + 1 /\ new[m + 1] = e /\ \A i \in 1..m : new[i] = log[i]
  BY <1>1, <1>2, AppendProperties
<1>4. ASSUME NEW i \in 1..m, new[i].type \in Dones PROVE new[i].data = Upto(new, {new[i].item}, i)
  <2>1. log[i].data = Upto(log, {log[i].item}, i)
    BY <1>1, <1>3, <1>4 DEF DonesOK
  <2>2. Upto(new, {log[i].item}, i) = Upto(log, {log[i].item}, i)
    BY <1>1, <1>2, UptoKept
  <2> QED
    BY <1>3, <2>1, <2>2
<1>5. ASSUME e.type \in Dones PROVE e.data = Upto(new, {e.item}, m + 1)
  <2>1. Told(log, {e.item}) \in Seq(Pieces) /\ Told(new, {e.item}) = Told(log, {e.item}) \o Carried(e, {e.item})
    BY <1>2, ToldAppend
  <2>2. Carried(e, {e.item}) = <<>>
    BY <1>5 DEF Carried, Dones
  <2>3. Neutral(Told(log, {e.item}))
    BY <2>1, PiecesNeutral
  <2>4. Told(new, {e.item}) = Upto(new, {e.item}, m + 1)
    BY <1>3 DEF Told
  <2> QED
    BY <1>5, <2>1, <2>2, <2>3, <2>4, Zenon DEF Neutral
<1>6. ASSUME NEW i \in 1..(m + 1), new[i].type \in Dones
      PROVE  new[i].data = Upto(new, {new[i].item}, i)
  <2>1. i \in 1..m \/ i = m + 1
    OBVIOUS
  <2> QED
    BY <1>3, <1>4, <1>5, <1>6, <2>1
<1> QED
  BY <1>2, <1>3, <1>6, Zenon DEF DonesOK

---------------------------------------------------------------------------
(* What a handler adds                                                     *)

\* The log once the events of st are written.
Log(st) == out \o st.events
Voice == {"rs", "msg"}

\* The reasoning and the text the state keeps are what the log tells.
Base(st) ==
    /\ out \in Seq(Events) /\ st \in States
    /\ Told(Log(st), {"rs"}) = st.reasoning_text
    /\ Told(Log(st), {"msg"}) = st.accumulated_text
    /\ DonesOK(Log(st))

\* The step from st to s tells x, and nothing of the tool calls.
Speaks(st, s, x) ==
    /\ Base(s)
    /\ Told(Log(s), Voice) = Told(Log(st), Voice) \o x
    /\ s.tool_states = st.tool_states
    /\ \A i \in ToolIndex : Told(Log(s), {i}) = Told(Log(st), {i})
Quiet(st, s) == Speaks(st, s, <<>>)

LEMMA LogType ==
    ASSUME NEW st, Base(st)
    PROVE  Log(st) \in Seq(Events) /\ \A items : Told(Log(st), items) \in Seq(Pieces)
<1>1. out \in Seq(Events) /\ st.events \in Seq(Events)
  BY DEF Base, States
<1>2. PICK log \in Seq(Events) : log = Log(st)
  BY <1>1, ConcatProperties DEF Log
<1>3. PICK e : e \in Events
  <2>1. PICK none \in Seq(Pieces) : none = <<>>
    <3>1. <<>> \in Seq(Pieces)
      OBVIOUS
    <3> QED
      BY <3>1, Zenon
  <2> DEFINE rec == [type |-> "delta", seq |-> 0, item |-> "rs", index |-> 0, data |-> none]
  <2>2. rec \in Events
    BY DEF Events, EventTypes, Names, Items
  <2> QED
    BY <2>2, Zenon
<1>4. \A items : Told(log, items) \in Seq(Pieces)
  BY <1>3, ToldAppend
<1> QED
  BY <1>2, <1>4, Zenon

LEMMA SpeaksTwice ==
    ASSUME NEW st, NEW s, NEW u, Base(st), NEW x \in Seq(Pieces), NEW y \in Seq(Pieces),
           Speaks(st, s, x), Speaks(s, u, y)
    PROVE  Speaks(st, u, x \o y)
<1>1. PICK a \in Seq(Pieces) : a = Told(Log(st), Voice)
  BY LogType
<1>2. Regroup(a, x, y)
  BY PiecesRegroup
<1> QED
  BY <1>1, <1>2, Zenon DEF Speaks, Regroup

LEMMA Empty == <<>> \in Seq(Pieces) /\ <<>> \o <<>> = <<>>
<1>1. PICK none \in Seq(Pieces) : none = <<>>
  <2>1. <<>> \in Seq(Pieces)
    OBVIOUS
  <2> QED
    BY <2>1, Zenon
<1>2. Neutral(none)
  BY PiecesNeutral
<1> QED
  BY <1>1, <1>2, Zenon DEF Neutral

LEMMA QuietTwice ==
    ASSUME NEW st, NEW s, NEW u, Base(st), Quiet(st, s), Quiet(s, u)
    PROVE  Quiet(st, u)
<1>1. Speaks(st, u, <<>> \o <<>>)
  BY Empty, SpeaksTwice, Zenon DEF Quiet
<1> QED
  BY <1>1, Empty, Zenon DEF Quiet

LEMMA QuietThenSpeaks ==
    ASSUME NEW st, NEW s, NEW u, Base(st), NEW x \in Seq(Pieces), Quiet(st, s), Speaks(s, u, x)
    PROVE  Speaks(st, u, x)
<1>1. Speaks(st, u, <<>> \o x)
  BY Empty, SpeaksTwice, Zenon DEF Quiet
<1>2. Neutral(x)
  BY PiecesNeutral
<1> QED
  BY <1>1, <1>2, Zenon DEF Neutral

LEMMA SpeaksThenQuiet ==
    ASSUME NEW st, NEW s, NEW u, Base(st), NEW x \in Seq(Pieces), Speaks(st, s, x), Quiet(s, u)
    PROVE  Speaks(st, u, x)
<1>1. Speaks(st, u, x \o <<>>)
  BY Empty, SpeaksTwice, Zenon DEF Quiet
<1>2. Neutral(x)
  BY PiecesNeutral
<1> QED
  BY <1>1, <1>2, Zenon DEF Neutral

\* A step that changes flags and indices only.
LEMMA Adjusted ==
    ASSUME NEW st, Base(st), NEW s \in States, s.events = st.events, s.tool_states = st.tool_states,
           s.reasoning_text = st.reasoning_text, s.accumulated_text = st.accumulated_text
    PROVE  Quiet(st, s)
<1>1. Log(s) = Log(st)
  BY DEF Log
<1>2. Told(Log(st), Voice) \in Seq(Pieces)
  BY LogType
<1>3. Neutral(Told(Log(st), Voice))
  BY <1>2, PiecesNeutral
<1> QED
  BY <1>1, <1>3, Zenon DEF Base, Quiet, Speaks, Neutral

LEMMA QuietSelf ==
    ASSUME NEW st, Base(st)
    PROVE  Quiet(st, st)
<1>1. st \in States
  BY DEF Base
<1> QED
  BY <1>1, Adjusted

\* One event.
Emitted(st, s, type, item, data) ==
    /\ s \in States
    /\ s.tool_states = st.tool_states /\ s.reasoning_text = st.reasoning_text
    /\ s.accumulated_text = st.accumulated_text
    /\ \E e \in Events : /\ e.type = type /\ e.item = item /\ e.data = data
                         /\ s.events = Append(st.events, e)
LEMMA EventFields ==
    ASSUME NEW st \in States, NEW type \in EventTypes, NEW item \in Names, NEW index \in Int,
           NEW data \in Seq(Pieces) \cup SUBSET Items, type = "delta" => data \in Seq(Pieces)
    PROVE  Emitted(st, stream_event(st, type, item, index, data), type, item, data)
<1>1. PICK e : e = [type |-> type, seq |-> st.seq + 1, item |-> item, index |-> index, data |-> data]
  OBVIOUS
<1>2. e \in Events /\ e.type = type /\ e.item = item /\ e.data = data
  <2>1. st.seq + 1 \in Nat
    BY DEF States
  <2> QED
    BY <1>1, <2>1 DEF Events
<1>3. PICK s : s = stream_event(st, type, item, index, data)
  OBVIOUS
<1>4. s = [st EXCEPT !.seq = @ + 1, !.events = Append(@, e)]
  BY <1>1, <1>3 DEF stream_event
<1>5. PICK log \in Seq(Events) : log = Append(st.events, e)
  <2>1. st.events \in Seq(Events)
    BY DEF States
  <2> QED
    BY <1>2, <2>1, AppendProperties
<1>6. PICK m \in Nat : m = st.seq + 1
  BY DEF States
<1>8. s = [st EXCEPT !.seq = m, !.events = log]
  BY <1>4, <1>5, <1>6
<1>7. /\ s \in States /\ s.events = log /\ s.tool_states = st.tool_states
      /\ s.reasoning_text = st.reasoning_text /\ s.accumulated_text = st.accumulated_text
  BY <1>8 DEF States
<1> QED
  BY <1>2, <1>3, <1>5, <1>7, Zenon DEF Emitted

Heard(type, item, items, data) == IF type = "delta" /\ item \in items THEN data ELSE <<>>
Adds(st, s, items, x) ==
    Told(Log(st), items) \in Seq(Pieces) /\ Told(Log(s), items) = Told(Log(st), items) \o x
Hears(st, s, type, item, data) ==
    /\ \A items : Adds(st, s, items, Heard(type, item, items, data))
    /\ DonesOK(Log(st)) /\ (type \in Dones => data = Told(Log(st), {item})) => DonesOK(Log(s))
LEMMA EmittedTold ==
    ASSUME out \in Seq(Events), NEW st \in States, NEW s, NEW type, NEW item, NEW data,
           Emitted(st, s, type, item, data)
    PROVE  Hears(st, s, type, item, data)
<1>1. PICK e \in Events : e.type = type /\ e.item = item /\ e.data = data /\ s.events = Append(st.events, e)
  BY DEF Emitted
<1>2. PICK evs \in Seq(Events) : evs = st.events
  BY DEF States
<1>3. PICK log \in Seq(Events) : log = Log(st)
  BY <1>2, ConcatProperties DEF Log
<1>4. Log(s) = Append(log, e)
  <2>1. <<e>> \in Seq(Events) /\ Append(evs, e) = evs \o <<e>> /\ Append(log, e) = log \o <<e>>
    BY AppendIsConcat
  <2>2. out \o (evs \o <<e>>) = (out \o evs) \o <<e>>
    BY <2>1, ConcatAssociative
  <2> QED
    BY <1>1, <1>2, <1>3, <2>1, <2>2, Zenon DEF Log
<1>5. \A items : Told(log, items) \in Seq(Pieces) /\ Told(Append(log, e), items) = Told(log, items) \o Carried(e, items)
  BY ToldAppend
<1>6. \A items : Carried(e, items) = Heard(type, item, items, data)
  BY <1>1, Zenon DEF Carried, Heard
<1>7. DonesOK(log) /\ (e.type \in Dones => e.data = Told(log, {e.item})) => DonesOK(Append(log, e))
  BY DonesAppend
<1> QED
  BY <1>1, <1>3, <1>4, <1>5, <1>6, <1>7, Zenon DEF Hears, Adds

\* An event that is no delta, a closing one with what was told, says nothing.
LEMMA EventQuiet ==
    ASSUME NEW st, Base(st), NEW type \in EventTypes \ {"delta"}, NEW item \in Names,
           NEW index \in Int, NEW data \in Seq(Pieces) \cup SUBSET Items,
           type \in Dones => data = Told(Log(st), {item})
    PROVE  Quiet(st, stream_event(st, type, item, index, data))
<1>1. PICK s : s = stream_event(st, type, item, index, data)
  OBVIOUS
<1>2. st \in States /\ out \in Seq(Events)
  BY DEF Base
<1>3. Emitted(st, s, type, item, data)
  BY <1>1, <1>2, EventFields
<1>4. Hears(st, s, type, item, data)
  BY <1>2, <1>3, EmittedTold, Zenon
<1>5. \A items : Heard(type, item, items, data) = <<>>
  BY DEF Heard
<1>6. \A items : Neutral(Told(Log(st), items))
  BY <1>4, PiecesNeutral, Zenon DEF Hears, Adds
<1>7. ASSUME NEW items
      PROVE  Told(Log(s), items) = Told(Log(st), items) \o <<>> /\ Told(Log(s), items) = Told(Log(st), items)
  <2>1. Adds(st, s, items, <<>>)
    <3>1. Adds(st, s, items, Heard(type, item, items, data))
      BY <1>4, Zenon DEF Hears
    <3> QED
      BY <1>5, <3>1, Zenon
  <2>2. Told(Log(st), items) \o <<>> = Told(Log(st), items)
    BY <1>6, Zenon DEF Neutral
  <2> QED
    BY <2>1, <2>2, Zenon DEF Adds
<1>8. Base(s)
  BY <1>2, <1>3, <1>4, <1>7, Zenon DEF Base, Emitted, Hears
<1> QED
  BY <1>1, <1>3, <1>7, <1>8, Zenon DEF Quiet, Speaks, Emitted

\* A delta of the reasoning or of the message says its text, if the state takes note of it.
LEMMA VoiceDelta ==
    ASSUME NEW st, Base(st), NEW mid \in States, NEW item \in Voice, NEW index \in Int,
           NEW text \in Seq(Pieces),
           mid.events = st.events, mid.tool_states = st.tool_states,
           mid.reasoning_text = st.reasoning_text \o Heard("delta", item, {"rs"}, text),
           mid.accumulated_text = st.accumulated_text \o Heard("delta", item, {"msg"}, text)
    PROVE  Speaks(st, stream_event(mid, "delta", item, index, text), text)
<1>1. PICK s : s = stream_event(mid, "delta", item, index, text)
  OBVIOUS
<1>2. out \in Seq(Events)
  BY DEF Base
<1>3. Emitted(mid, s, "delta", item, text)
  BY <1>1, EventFields DEF EventTypes, Names, Items, Voice
<1>4. Hears(mid, s, "delta", item, text)
  BY <1>2, <1>3, EmittedTold
<1>5. Log(mid) = Log(st)
  BY DEF Log
<1>6. \A items : Adds(st, s, items, Heard("delta", item, items, text))
  BY <1>4, <1>5, Zenon DEF Hears, Adds
<1>7. /\ Told(Log(s), {"rs"}) = Told(Log(st), {"rs"}) \o Heard("delta", item, {"rs"}, text)
      /\ Told(Log(s), {"msg"}) = Told(Log(st), {"msg"}) \o Heard("delta", item, {"msg"}, text)
  BY <1>6, Zenon DEF Adds
<1>8. "delta" \notin Dones
  BY DEF Dones
<1>9. Base(s)
  BY <1>2, <1>3, <1>4, <1>5, <1>7, <1>8, Zenon DEF Base, Emitted, Hears
<1>10. Heard("delta", item, Voice, text) = text
  BY DEF Heard
<1>11. Told(Log(s), Voice) = Told(Log(st), Voice) \o text
  <2>1. Adds(st, s, Voice, Heard("delta", item, Voice, text))
    BY <1>6, Zenon
  <2> QED
    BY <1>10, <2>1, Zenon DEF Adds
<1>12. ASSUME NEW i \in ToolIndex PROVE Told(Log(s), {i}) = Told(Log(st), {i})
  <2>1. Heard("delta", item, {i}, text) = <<>>
    BY DEF Heard, ToolIndex, Voice
  <2>2. Adds(st, s, {i}, Heard("delta", item, {i}, text))
    BY <1>6, Zenon
  <2>3. Neutral(Told(Log(st), {i}))
    BY <2>2, PiecesNeutral DEF Adds
  <2> QED
    BY <2>1, <2>2, <2>3, Zenon DEF Adds, Neutral
<1> QED
  BY <1>1, <1>3, <1>9, <1>11, <1>12, Zenon DEF Speaks, Emitted

LEMMA ReasoningOutSpeaks ==
    ASSUME NEW st, Base(st), NEW index \in Int, NEW text \in Seq(Pieces)
    PROVE  Speaks(st, reasoning_out(st, index, text), text)
<1>1. st \in States /\ st.reasoning_text \in Seq(Pieces) /\ st.accumulated_text \in Seq(Pieces)
  BY DEF Base, States
<1>2. PICK all \in Seq(Pieces) : all = st.reasoning_text \o text
  BY <1>1, ConcatProperties
<1>3. PICK mid : mid = [st EXCEPT !.reasoning_text = all]
  OBVIOUS
<1>4. /\ mid \in States /\ mid.events = st.events /\ mid.tool_states = st.tool_states
      /\ mid.reasoning_text = all /\ mid.accumulated_text = st.accumulated_text
  BY <1>1, <1>3 DEF States
<1>5. Heard("delta", "rs", {"rs"}, text) = text /\ Heard("delta", "rs", {"msg"}, text) = <<>>
  BY DEF Heard
<1>6. Neutral(st.accumulated_text)
  BY <1>1, PiecesNeutral
<1>7. mid.accumulated_text = st.accumulated_text \o <<>>
  BY <1>4, <1>6, Zenon DEF Neutral
<1>8. reasoning_out(st, index, text) = stream_event(mid, "delta", "rs", index, text)
  BY <1>2, <1>3 DEF reasoning_out
<1>9. "rs" \in Voice
  BY DEF Voice
<1>10. Speaks(st, stream_event(mid, "delta", "rs", index, text), text)
  BY <1>2, <1>4, <1>5, <1>7, <1>9, VoiceDelta
<1> QED
  BY <1>8, <1>10, Zenon

\* Opening the message and its text part says nothing.
LEMMA MessageStartedQuiet ==
    ASSUME NEW st, Base(st)
    PROVE  Quiet(st, ensure_message_started(st))
<1>1. st \in States /\ st.output_index \in Int
  BY DEF Base, States
<1>2. CASE st.message_started
  BY <1>2, QuietSelf DEF ensure_message_started
<1>3. CASE ~st.message_started
  <2>1. PICK mid : mid = [st EXCEPT !.message_started = TRUE]
    OBVIOUS
  <2>2. /\ mid \in States /\ mid.events = st.events /\ mid.tool_states = st.tool_states
        /\ mid.reasoning_text = st.reasoning_text /\ mid.accumulated_text = st.accumulated_text
    BY <1>1, <2>1 DEF States
  <2>3. Quiet(st, mid)
    BY <2>2, Adjusted
  <2>4. Base(mid)
    BY <2>3 DEF Quiet, Speaks
  <2>5. "item.added" \in EventTypes \ {"delta"} /\ "item.added" \notin Dones /\ "msg" \in Names
    BY DEF EventTypes, Dones, Names, Items
  <2>6. Quiet(mid, stream_event(mid, "item.added", "msg", st.output_index, <<>>))
    BY <1>1, <2>4, <2>5, Empty, EventQuiet
  <2>7. ensure_message_started(st) = stream_event(mid, "item.added", "msg", st.output_index, <<>>)
    BY <1>3, <2>1 DEF ensure_message_started
  <2> QED
    BY <2>3, <2>6, <2>7, QuietTwice
<1> QED
  BY <1>2, <1>3

LEMMA TextPartQuiet ==
    ASSUME NEW st0, Base(st0)
    PROVE  Quiet(st0, ensure_text_part_started(st0))
<1>1. PICK st : st = ensure_message_started(st0)
  OBVIOUS
<1>2. Quiet(st0, st) /\ Base(st)
  BY <1>1, MessageStartedQuiet DEF Quiet, Speaks
<1>3. st \in States /\ st.output_index \in Int
  BY <1>2 DEF Base, States
<1>4. CASE st.text_part_started
  BY <1>1, <1>2, <1>4 DEF ensure_text_part_started
<1>5. CASE ~st.text_part_started
  <2>1. PICK mid : mid = [st EXCEPT !.text_part_started = TRUE]
    OBVIOUS
  <2>2. /\ mid \in States /\ mid.events = st.events /\ mid.tool_states = st.tool_states
        /\ mid.reasoning_text = st.reasoning_text /\ mid.accumulated_text = st.accumulated_text
    BY <1>3, <2>1 DEF States
  <2>3. Quiet(st, mid)
    BY <1>2, <2>2, Adjusted
  <2>4. Base(mid)
    BY <2>3 DEF Quiet, Speaks
  <2>5. "part.added" \in EventTypes \ {"delta"} /\ "part.added" \notin Dones /\ "msg" \in Names
    BY DEF EventTypes, Dones, Names, Items
  <2>6. PICK s : s = stream_event(mid, "part.added", "msg", st.output_index, <<>>)
    OBVIOUS
  <2>7. Quiet(mid, s)
    BY <1>3, <2>4, <2>5, <2>6, Empty, EventQuiet
  <2>8. ensure_text_part_started(st0) = s
    BY <1>1, <1>5, <2>1, <2>6 DEF ensure_text_part_started
  <2>9. Quiet(st, s)
    BY <1>2, <2>3, <2>7, QuietTwice
  <2> QED
    BY <1>2, <2>8, <2>9, QuietTwice
<1> QED
  BY <1>4, <1>5

LEMMA TextOutSpeaks ==
    ASSUME NEW st0, Base(st0), NEW text \in Seq(Pieces)
    PROVE  Speaks(st0, text_out(st0, text), text)
<1>0. PICK st : st = ensure_text_part_started(st0)
  OBVIOUS
<1>1. Quiet(st0, st) /\ Base(st)
  BY <1>0, TextPartQuiet DEF Quiet, Speaks
<1>2. /\ st \in States /\ st.reasoning_text \in Seq(Pieces) /\ st.accumulated_text \in Seq(Pieces)
      /\ st.output_index \in Int
  BY <1>1 DEF Base, States
<1>3. PICK all \in Seq(Pieces) : all = st.accumulated_text \o text
  BY <1>2, ConcatProperties
<1>4. PICK mid : mid = [st EXCEPT !.accumulated_text = all]
  OBVIOUS
<1>5. /\ mid \in States /\ mid.events = st.events /\ mid.tool_states = st.tool_states
      /\ mid.accumulated_text = all /\ mid.reasoning_text = st.reasoning_text
  BY <1>2, <1>4 DEF States
<1>6. Heard("delta", "msg", {"rs"}, text) = <<>> /\ Heard("delta", "msg", {"msg"}, text) = text
  BY DEF Heard
<1>7. Neutral(st.reasoning_text)
  BY <1>2, PiecesNeutral
<1>8. mid.reasoning_text = st.reasoning_text \o <<>>
  BY <1>5, <1>7, Zenon DEF Neutral
<1>9. "msg" \in Voice
  BY DEF Voice
<1>10. Speaks(st, stream_event(mid, "delta", "msg", st.output_index, text), text)
  BY <1>1, <1>2, <1>3, <1>5, <1>6, <1>8, <1>9, VoiceDelta
<1>11. text_out(st0, text) = stream_event(mid, "delta", "msg", st.output_index, text)
  BY <1>0, <1>3, <1>4 DEF text_out
<1>12. Speaks(st, text_out(st0, text), text)
  BY <1>10, <1>11, Zenon
<1> QED
  BY <1>1, <1>12, QuietThenSpeaks

\* Closing the reasoning or the message says nothing.
LEMMA ReasoningCloseQuiet ==
    ASSUME NEW st, Base(st)
    PROVE  Quiet(st, reasoning_close(st))
<1>1. PICK text \in Seq(Pieces) : text = st.reasoning_text /\ Told(Log(st), {"rs"}) = text
  BY DEF Base, States
<1>2. PICK s1 : s1 = stream_event(st, "text.done", "rs", 0, text)
  OBVIOUS
<1>3. /\ "text.done" \in EventTypes \ {"delta"} /\ "item.done" \in EventTypes \ {"delta"}
      /\ "rs" \in Names /\ 0 \in Int
  BY DEF EventTypes, Dones, Names, Items
<1>4. Quiet(st, s1)
  BY <1>1, <1>2, <1>3, EventQuiet
<1>5. Base(s1) /\ s1.reasoning_text = text
  <2>1. Emitted(st, s1, "text.done", "rs", text)
    BY <1>2, <1>3, EventFields DEF Base
  <2> QED
    BY <1>1, <1>4, <2>1 DEF Emitted, Quiet, Speaks
<1>6. Told(Log(s1), {"rs"}) = text
  BY <1>5 DEF Base
<1>7. Quiet(s1, stream_event(s1, "item.done", "rs", 0, text))
  BY <1>3, <1>5, <1>6, EventQuiet
<1>8. reasoning_close(st) = stream_event(s1, "item.done", "rs", 0, text)
  BY <1>1, <1>2 DEF reasoning_close
<1> QED
  BY <1>4, <1>7, <1>8, QuietTwice

LEMMA MessageDoneQuiet ==
    ASSUME NEW st, Base(st), NEW type \in Dones
    PROVE  Quiet(st, stream_event(st, type, "msg", st.output_index, st.accumulated_text))
<1>1. PICK text \in Seq(Pieces) : text = st.accumulated_text /\ Told(Log(st), {"msg"}) = text
  BY DEF Base, States
<1>2. PICK index \in Int : index = st.output_index
  BY DEF Base, States
<1>3. type \in EventTypes \ {"delta"} /\ "msg" \in Names
  BY DEF EventTypes, Dones, Names, Items
<1>4. Quiet(st, stream_event(st, type, "msg", index, text))
  BY <1>1, <1>3, EventQuiet
<1> QED
  BY <1>1, <1>2, <1>4, Zenon

LEMMA MessageCloseQuiet ==
    ASSUME NEW st, Base(st)
    PROVE  Quiet(st, message_close(st))
<1> DEFINE Ev(s, type) == stream_event(s, type, "msg", s.output_index, s.accumulated_text)
<1>1. ASSUME NEW s, Base(s), NEW type \in Dones PROVE Quiet(s, Ev(s, type)) /\ Base(Ev(s, type))
  BY <1>1, MessageDoneQuiet, Zenon DEF Quiet, Speaks
<1>2. message_close(st) = Ev(Ev(Ev(st, "text.done"), "part.done"), "item.done")
  BY DEF message_close
<1>3. "text.done" \in Dones /\ "part.done" \in Dones /\ "item.done" \in Dones
  BY DEF Dones
<1> HIDE DEF Ev
<1>4. PICK s1 : s1 = Ev(st, "text.done")
  OBVIOUS
<1>5. PICK s2 : s2 = Ev(s1, "part.done")
  OBVIOUS
<1>6. PICK s3 : s3 = Ev(s2, "item.done")
  OBVIOUS
<1>7. Quiet(st, s1) /\ Base(s1)
  BY <1>1, <1>3, <1>4
<1>8. Quiet(s1, s2) /\ Base(s2)
  BY <1>1, <1>3, <1>5, <1>7
<1>9. Quiet(s2, s3)
  BY <1>1, <1>3, <1>6, <1>8
<1>10. Quiet(st, s2)
  BY <1>7, <1>8, QuietTwice
<1>11. message_close(st) = s3
  BY <1>2, <1>4, <1>5, <1>6, Zenon
<1> QED
  BY <1>9, <1>10, <1>11, QuietTwice

---------------------------------------------------------------------------
(* The content of a chunk                                                  *)

LEMMA FirstDeltaSpeaks ==
    ASSUME NEW st0, Base(st0), NEW c \in Contents, n \in Nat
    PROVE  Speaks(st0, first_delta(st0, c), X(n + 1, c) \o Y(n + 1, c))
<1>0. st0 \in States
  BY DEF Base
<1>1. PICK st : st = [st0 EXCEPT !.first_content = FALSE]
  OBVIOUS
<1>2. /\ st \in States /\ st.events = st0.events /\ st.tool_states = st0.tool_states
      /\ st.reasoning_text = st0.reasoning_text /\ st.accumulated_text = st0.accumulated_text
  BY <1>0, <1>1 DEF States
<1>3. PICK xy \in Seq(Pieces) : xy = X(n + 1, c) \o Y(n + 1, c)
  <2>1. n + 1 \in Nat
    OBVIOUS
  <2> QED
    BY <2>1, PiecesType
<1>4. CASE c.tag = "full"
  <2>1. PICK mid : mid = [st EXCEPT !.think_detected = TRUE]
    OBVIOUS
  <2>2. /\ mid \in States /\ mid.events = st0.events /\ mid.tool_states = st0.tool_states
        /\ mid.reasoning_text = st0.reasoning_text /\ mid.accumulated_text = st0.accumulated_text
    BY <1>2, <2>1 DEF States
  <2>3. Quiet(st0, mid) /\ Base(mid)
    BY <2>2, Adjusted DEF Quiet, Speaks
  <2>4. PICK index \in Int : index = st.output_index
    BY <1>2 DEF States
  <2>5. PICK s : s = stream_event(mid, "item.added", "rs", index, <<>>)
    OBVIOUS
  <2>6. "item.added" \in EventTypes \ {"delta"} /\ "item.added" \notin Dones /\ "rs" \in Names
    BY DEF EventTypes, Dones, Names, Items
  <2>7. Quiet(mid, s)
    BY <2>3, <2>5, <2>6, Empty, EventQuiet
  <2>8. Quiet(st0, s) /\ Base(s)
    BY <2>3, <2>7, QuietTwice DEF Quiet, Speaks
  <2>9. PICK open : open = [s EXCEPT !.next_output_index = @ + 1]
    OBVIOUS
  <2>10. s \in States
    BY <2>8 DEF Base
  <2>11. /\ open \in States /\ open.events = s.events /\ open.tool_states = s.tool_states
         /\ open.reasoning_text = s.reasoning_text /\ open.accumulated_text = s.accumulated_text
         /\ open.output_index \in Int
    <3>1. PICK m \in Int : m = s.next_output_index + 1
      BY <2>10 DEF States
    <3>2. open = [s EXCEPT !.next_output_index = m]
      BY <2>9, <3>1
    <3> QED
      BY <2>10, <3>2 DEF States
  <2>12. Quiet(s, open)
    BY <2>8, <2>11, Adjusted
  <2>13. Quiet(st0, open) /\ Base(open)
    BY <2>8, <2>12, QuietTwice DEF Quiet, Speaks
  <2>14. first_delta(st0, c) = IF c.x \/ c.close THEN reasoning_out(open, open.output_index, xy) ELSE open
    BY <1>1, <1>3, <1>4, <2>1, <2>4, <2>5, <2>9 DEF first_delta
  <2>15. CASE c.x \/ c.close
    <3>1. Speaks(open, reasoning_out(open, open.output_index, xy), xy)
      BY <2>11, <2>13, ReasoningOutSpeaks
    <3> QED
      BY <1>3, <2>13, <2>14, <2>15, <3>1, QuietThenSpeaks
  <2>16. CASE ~(c.x \/ c.close)
    <3>1. ~c.x /\ ~c.y
      BY <2>16, ChunksAssumption
    <3>2. X(n + 1, c) = <<>> /\ Y(n + 1, c) = <<>>
      BY <3>1 DEF X, Y, Piece
    <3>3. xy = <<>>
      BY <1>3, <3>2, Empty, Zenon
    <3> QED
      BY <1>3, <2>13, <2>14, <2>16, <3>3, Zenon DEF Quiet
  <2> QED
    BY <2>15, <2>16
<1>5. CASE c.tag # "full"
  <2>1. PICK mid : mid = [st EXCEPT !.output_index = st.next_output_index - 1]
    OBVIOUS
  <2>2. /\ mid \in States /\ mid.events = st0.events /\ mid.tool_states = st0.tool_states
        /\ mid.reasoning_text = st0.reasoning_text /\ mid.accumulated_text = st0.accumulated_text
    <3>1. PICK m \in Int : m = st.next_output_index - 1
      BY <1>2 DEF States
    <3>2. mid = [st EXCEPT !.output_index = m]
      BY <2>1, <3>1
    <3> QED
      BY <1>2, <3>2 DEF States
  <2>3. Quiet(st0, mid) /\ Base(mid)
    BY <2>2, Adjusted DEF Quiet, Speaks
  <2>4. first_delta(st0, c) = text_out(mid, xy)
    BY <1>1, <1>3, <1>5, <2>1 DEF first_delta
  <2>5. Speaks(mid, text_out(mid, xy), xy)
    BY <2>3, TextOutSpeaks
  <2> QED
    BY <1>3, <2>3, <2>4, <2>5, QuietThenSpeaks
<1> QED
  BY <1>4, <1>5

LEMMA ReasoningDeltaSpeaks ==
    ASSUME NEW st, Base(st), NEW c \in Contents, n \in Nat
    PROVE  Speaks(st, reasoning_delta(st, c), X(n + 1, c) \o Y(n + 1, c))
<1>1. PICK x \in Seq(Pieces), y \in Seq(Pieces) :
        x = X(n + 1, c) /\ y = Y(n + 1, c) /\ x \o y \in Seq(Pieces)
  <2>1. n + 1 \in Nat
    OBVIOUS
  <2> QED
    BY <2>1, PiecesType
<1>2. CASE ~c.close
  <2>0. PICK xy \in Seq(Pieces) : xy = x \o y
    BY <1>1
  <2>1. Speaks(st, reasoning_out(st, 0, xy), xy)
    BY ReasoningOutSpeaks
  <2>2. reasoning_delta(st, c) = reasoning_out(st, 0, xy)
    BY <1>1, <1>2, <2>0 DEF reasoning_delta
  <2> QED
    BY <1>1, <2>0, <2>1, <2>2, Zenon
<1>3. CASE c.close
  <2>1. PICK before : before = IF c.tag # "none" \/ c.x THEN reasoning_out(st, 0, x) ELSE st
    OBVIOUS
  <2>2. Speaks(st, before, x)
    <3>1. CASE c.tag # "none" \/ c.x
      BY <2>1, <3>1, ReasoningOutSpeaks
    <3>2. CASE ~(c.tag # "none" \/ c.x)
      <4>1. x = <<>>
        BY <1>1, <3>2 DEF X, Piece
      <4>2. before = st
        BY <2>1, <3>2
      <4>3. Quiet(st, st)
        BY QuietSelf
      <4> QED
        BY <4>1, <4>2, <4>3, Zenon DEF Quiet
    <3> QED
      BY <3>1, <3>2
  <2>3. Base(before)
    BY <2>2 DEF Speaks
  <2>4. PICK shut : shut = reasoning_close(before)
    OBVIOUS
  <2>5. Quiet(before, shut) /\ Base(shut)
    BY <2>3, <2>4, ReasoningCloseQuiet DEF Quiet, Speaks
  <2>6. shut \in States /\ before \in States
    BY <2>3, <2>5 DEF Base
  <2>7. PICK closed : closed = [shut EXCEPT !.output_index = before.next_output_index,
                                             !.next_output_index = @ + 1]
    OBVIOUS
  <2>8. /\ closed \in States /\ closed.events = shut.events /\ closed.tool_states = shut.tool_states
        /\ closed.reasoning_text = shut.reasoning_text /\ closed.accumulated_text = shut.accumulated_text
    <3>1. PICK m \in Int, next \in Int : m = shut.next_output_index + 1 /\ next = before.next_output_index
      BY <2>6 DEF States
    <3>2. closed = [shut EXCEPT !.output_index = next, !.next_output_index = m]
      BY <2>7, <3>1
    <3> QED
      BY <2>6, <3>2 DEF States
  <2>9. Quiet(shut, closed)
    BY <2>5, <2>8, Adjusted
  <2>10. Quiet(before, closed)
    BY <2>3, <2>5, <2>9, QuietTwice
  <2>11. Speaks(st, closed, x) /\ Base(closed)
    <3>1. Speaks(st, closed, x)
      BY <2>2, <2>10, SpeaksThenQuiet
    <3> QED
      BY <3>1 DEF Speaks
  <2>12. reasoning_delta(st, c) = IF c.y THEN text_out(closed, y) ELSE closed
    BY <1>1, <1>3, <2>1, <2>4, <2>7 DEF reasoning_delta
  <2>13. CASE c.y
    <3>1. Speaks(closed, text_out(closed, y), y)
      BY <2>11, TextOutSpeaks
    <3> QED
      BY <1>1, <2>11, <2>12, <2>13, <3>1, SpeaksTwice
  <2>14. CASE ~c.y
    <3>1. y = <<>>
      BY <1>1, <2>14 DEF Y, Piece
    <3>2. Neutral(x)
      BY PiecesNeutral
    <3>3. x \o y = x
      BY <3>1, <3>2, Zenon DEF Neutral
    <3> QED
      BY <1>1, <2>11, <2>12, <2>14, <3>3, Zenon
  <2> QED
    BY <2>13, <2>14
<1> QED
  BY <1>2, <1>3

LEMMA TextDeltaSpeaks ==
    ASSUME NEW st, Base(st), NEW c \in Contents, n \in Nat
    PROVE  Speaks(st, text_delta(st, c), X(n + 1, c) \o Y(n + 1, c))
<1>1. PICK xy \in Seq(Pieces) : xy = X(n + 1, c) \o Y(n + 1, c)
  <2>1. n + 1 \in Nat
    OBVIOUS
  <2> QED
    BY <2>1, PiecesType
<1>2. PICK mid : mid = IF st.message_started THEN st ELSE [st EXCEPT !.output_index = st.next_output_index - 1]
  OBVIOUS
<1>3. st \in States
  BY DEF Base
<1>4. /\ mid \in States /\ mid.events = st.events /\ mid.tool_states = st.tool_states
      /\ mid.reasoning_text = st.reasoning_text /\ mid.accumulated_text = st.accumulated_text
  <2>1. PICK m \in Int : m = st.next_output_index - 1
    BY <1>3 DEF States
  <2>2. mid = IF st.message_started THEN st ELSE [st EXCEPT !.output_index = m]
    BY <1>2, <2>1
  <2>3. CASE st.message_started
    BY <1>3, <2>2, <2>3
  <2>4. CASE ~st.message_started
    BY <1>3, <2>2, <2>4 DEF States
  <2> QED
    BY <2>3, <2>4
<1>5. Quiet(st, mid) /\ Base(mid)
  BY <1>4, Adjusted DEF Quiet, Speaks
<1>6. Speaks(mid, text_out(mid, xy), xy)
  BY <1>5, TextOutSpeaks
<1>7. text_delta(st, c) = text_out(mid, xy)
  BY <1>1, <1>2 DEF text_delta
<1> QED
  BY <1>1, <1>5, <1>6, <1>7, QuietThenSpeaks

\* A content delta is passed on whole, in order, as reasoning or as text.
LEMMA ContentDeltaSpeaks ==
    ASSUME NEW st, Base(st), NEW c \in Contents \cup {NoContent}, n \in Nat
    PROVE  Speaks(st, content_delta(st, c), SpokenIn(n + 1, c))
<1>1. CASE c = NoContent
  <2>1. content_delta(st, c) = st /\ SpokenIn(n + 1, c) = <<>>
    BY <1>1 DEF content_delta, SpokenIn
  <2>2. Quiet(st, st)
    BY QuietSelf
  <2> QED
    BY <2>1, <2>2, Zenon DEF Quiet
<1>2. CASE c # NoContent
  <2>1. c \in Contents /\ SpokenIn(n + 1, c) = X(n + 1, c) \o Y(n + 1, c)
    BY <1>2 DEF SpokenIn
  <2>2. \/ content_delta(st, c) = first_delta(st, c)
        \/ content_delta(st, c) = reasoning_delta(st, c)
        \/ content_delta(st, c) = text_delta(st, c)
    BY <1>2, Zenon DEF content_delta
  <2>3. /\ Speaks(st, first_delta(st, c), SpokenIn(n + 1, c))
        /\ Speaks(st, reasoning_delta(st, c), SpokenIn(n + 1, c))
        /\ Speaks(st, text_delta(st, c), SpokenIn(n + 1, c))
    BY <2>1, FirstDeltaSpeaks, ReasoningDeltaSpeaks, TextDeltaSpeaks
  <2> QED
    BY <2>2, <2>3, Zenon
<1> QED
  BY <1>1, <1>2

---------------------------------------------------------------------------
(* The tool calls of a chunk                                               *)

ToolDeltas == [idx : ToolIndex, known : BOOLEAN, args : BOOLEAN]

\* A call keeps the arguments that came, and once it has started they are told.
ToolFit(st, i, args) ==
    /\ st.tool_states[i].args = Only(args, {i})
    /\ Told(Log(st), {i}) = IF st.tool_states[i].started THEN st.tool_states[i].args ELSE <<>>
    /\ ~st.tool_states[i].seen => ~st.tool_states[i].started /\ st.tool_states[i].args = <<>>
ToolsFit(st, args) == \A i \in ToolIndex : ToolFit(st, i, args)

LEMMA QuietFits ==
    ASSUME NEW st, NEW s, NEW x, NEW args, Speaks(st, s, x), ToolsFit(st, args)
    PROVE  ToolsFit(s, args)
<1> QED
  BY Zenon DEF Speaks, ToolsFit, ToolFit

\* The state s is st with the call i at r.
Put(st, s, i, r) ==
    /\ s \in States /\ s.events = st.events
    /\ s.reasoning_text = st.reasoning_text /\ s.accumulated_text = st.accumulated_text
    /\ s.tool_states[i] = r
    /\ \A j \in ToolIndex \ {i} : s.tool_states[j] = st.tool_states[j]
LEMMA PutFields ==
    ASSUME NEW st \in States, NEW i \in ToolIndex, NEW r \in ToolStates
    PROVE  Put(st, [st EXCEPT !.tool_states[i] = r], i, r)
<1>1. PICK tools \in [ToolIndex -> ToolStates] : tools = st.tool_states
  BY DEF States
<1>2. PICK new \in [ToolIndex -> ToolStates] : new = [tools EXCEPT ![i] = r]
  OBVIOUS
<1>3. new[i] = r /\ \A j \in ToolIndex \ {i} : new[j] = tools[j]
  BY <1>2
<1>4. PICK s : s = [st EXCEPT !.tool_states[i] = r]
  OBVIOUS
<1>5. s = [st EXCEPT !.tool_states = new]
  BY <1>1, <1>2, <1>4
<1>6. /\ s \in States /\ s.events = st.events /\ s.tool_states = new
      /\ s.reasoning_text = st.reasoning_text /\ s.accumulated_text = st.accumulated_text
  BY <1>5 DEF States
<1> QED
  BY <1>1, <1>3, <1>4, <1>6, Zenon DEF Put

LEMMA PutBase ==
    ASSUME NEW st, NEW s, NEW i, NEW r, Base(st), Put(st, s, i, r)
    PROVE  Base(s) /\ Log(s) = Log(st)
<1>1. Log(s) = Log(st)
  BY DEF Put, Log
<1> QED
  BY <1>1, Zenon DEF Put, Base

\* A delta of the call i.
Passes(st, s, i, x) ==
    /\ Base(s) /\ s.tool_states = st.tool_states
    /\ Told(Log(s), Voice) = Told(Log(st), Voice)
    /\ Told(Log(s), {i}) = Told(Log(st), {i}) \o x
    /\ \A j \in ToolIndex \ {i} : Told(Log(s), {j}) = Told(Log(st), {j})
LEMMA ToolEventPasses ==
    ASSUME NEW st, Base(st), NEW i \in ToolIndex, NEW index \in Int, NEW data \in Seq(Pieces)
    PROVE  Passes(st, stream_event(st, "delta", i, index, data), i, data)
<1>1. PICK s : s = stream_event(st, "delta", i, index, data)
  OBVIOUS
<1>2. out \in Seq(Events) /\ st \in States
  BY DEF Base
<1>3. Emitted(st, s, "delta", i, data)
  BY <1>1, <1>2, EventFields DEF EventTypes, Names, Items
<1>4. Hears(st, s, "delta", i, data)
  BY <1>2, <1>3, EmittedTold
<1>5. ASSUME NEW items, i \notin items PROVE Told(Log(s), items) = Told(Log(st), items)
  <2>1. Heard("delta", i, items, data) = <<>>
    BY <1>5 DEF Heard
  <2>2. Adds(st, s, items, Heard("delta", i, items, data))
    BY <1>4, Zenon DEF Hears
  <2>3. Neutral(Told(Log(st), items))
    BY <2>2, PiecesNeutral DEF Adds
  <2> QED
    BY <2>1, <2>2, <2>3, Zenon DEF Adds, Neutral
<1>6. i \notin {"rs"} /\ i \notin {"msg"} /\ i \notin Voice
  BY DEF ToolIndex, Voice
<1>7. "delta" \notin Dones
  BY DEF Dones
<1>8. /\ Told(Log(s), {"rs"}) = Told(Log(st), {"rs"}) /\ Told(Log(s), {"msg"}) = Told(Log(st), {"msg"})
      /\ Told(Log(s), Voice) = Told(Log(st), Voice)
  BY <1>5, <1>6, Zenon
<1>9. Base(s)
  BY <1>2, <1>3, <1>4, <1>7, <1>8, Zenon DEF Base, Emitted, Hears
<1>10. Told(Log(s), {i}) = Told(Log(st), {i}) \o data
  <2>1. Heard("delta", i, {i}, data) = data
    BY DEF Heard
  <2>2. Adds(st, s, {i}, Heard("delta", i, {i}, data))
    BY <1>4, Zenon DEF Hears
  <2> QED
    BY <2>1, <2>2, Zenon DEF Adds
<1>11. ASSUME NEW j \in ToolIndex \ {i} PROVE Told(Log(s), {j}) = Told(Log(st), {j})
  <2>1. i \notin {j}
    OBVIOUS
  <2> QED
    BY <1>5, <2>1, Zenon
<1> QED
  BY <1>1, <1>3, <1>8, <1>9, <1>10, <1>11, Zenon DEF Passes, Emitted

LEMMA CloseForToolQuiet ==
    ASSUME NEW st, Base(st)
    PROVE  Quiet(st, close_for_tool(st))
<1>1. CASE ~st.text_part_started
  BY <1>1, QuietSelf DEF close_for_tool
<1>2. CASE st.text_part_started
  <2>1. PICK s : s = message_close(st)
    OBVIOUS
  <2>2. Quiet(st, s) /\ Base(s)
    BY <2>1, MessageCloseQuiet DEF Quiet, Speaks
  <2>3. PICK u : u = [s EXCEPT !.text_part_started = FALSE, !.message_started = FALSE]
    OBVIOUS
  <2>4. s \in States
    BY <2>2 DEF Base
  <2>5. /\ u \in States /\ u.events = s.events /\ u.tool_states = s.tool_states
        /\ u.reasoning_text = s.reasoning_text /\ u.accumulated_text = s.accumulated_text
    BY <2>3, <2>4 DEF States
  <2>6. Quiet(s, u)
    BY <2>2, <2>5, Adjusted
  <2>7. close_for_tool(st) = u
    BY <1>2, <2>1, <2>3 DEF close_for_tool
  <2> QED
    BY <2>2, <2>6, <2>7, QuietTwice
<1> QED
  BY <1>1, <1>2

\* A call gets its entry when it is first seen.
FirstSeen(st0, i) ==
    IF st0.tool_states[i].seen THEN st0
    ELSE [st0 EXCEPT !.tool_states[i] =
             [no_tool EXCEPT !.seen = TRUE, !.output_index = st0.next_output_index],
          !.next_output_index = @ + 1]
Entered(st0, st, i, r) ==
    /\ r \in ToolStates /\ Put(st0, st, i, r)
    /\ r.seen /\ r.started = st0.tool_states[i].started /\ r.args = st0.tool_states[i].args
LEMMA FirstSeenEntered ==
    ASSUME NEW st0, Base(st0), NEW i \in ToolIndex, NEW args, ToolFit(st0, i, args)
    PROVE  \E r : Entered(st0, FirstSeen(st0, i), i, r)
<1>0. st0 \in States /\ st0.tool_states[i] \in ToolStates
  BY DEF Base, States
<1>1. CASE st0.tool_states[i].seen
  <2>1. FirstSeen(st0, i) = st0
    BY <1>1 DEF FirstSeen
  <2>2. Put(st0, st0, i, st0.tool_states[i])
    BY <1>0, Zenon DEF Put
  <2>3. Entered(st0, st0, i, st0.tool_states[i])
    BY <1>0, <1>1, <2>2, Zenon DEF Entered
  <2> QED
    BY <2>1, <2>3, Zenon
<1>2. CASE ~st0.tool_states[i].seen
  <2>1. PICK next \in Int, m \in Int : next = st0.next_output_index /\ m = next + 1
    BY <1>0 DEF States
  <2>2. PICK none \in Seq(Pieces) : none = <<>>
    BY Empty, Zenon
  <2>3. PICK r : r = [no_tool EXCEPT !.seen = TRUE, !.output_index = next]
    OBVIOUS
  <2>4. r = [seen |-> TRUE, known |-> FALSE, started |-> FALSE, args |-> none, output_index |-> next]
    BY <2>2, <2>3 DEF no_tool
  <2>5. r \in ToolStates /\ r.seen /\ r.started = FALSE /\ r.args = none
    BY <2>4 DEF ToolStates
  <2>6. PICK mid : mid = [st0 EXCEPT !.tool_states[i] = r]
    OBVIOUS
  <2>7. Put(st0, mid, i, r)
    BY <1>0, <2>5, <2>6, PutFields
  <2>8. PICK s : s = [mid EXCEPT !.next_output_index = m]
    OBVIOUS
  <2>9. mid \in States
    BY <2>7 DEF Put
  <2>10. /\ s \in States /\ s.events = mid.events /\ s.tool_states = mid.tool_states
         /\ s.reasoning_text = mid.reasoning_text /\ s.accumulated_text = mid.accumulated_text
    BY <2>8, <2>9 DEF States
  <2>11. Put(st0, s, i, r)
    BY <2>7, <2>10, Zenon DEF Put
  <2>12. s = FirstSeen(st0, i)
    <3>1. FirstSeen(st0, i) = [st0 EXCEPT !.tool_states[i] = r, !.next_output_index = @ + 1]
      BY <1>2, <2>1, <2>3 DEF FirstSeen
    <3>2. st0.next_output_index + 1 = m
      BY <2>1
    <3> QED
      BY <1>0, <2>6, <2>8, <3>1, <3>2 DEF States
  <2>13. st0.tool_states[i].started = FALSE /\ st0.tool_states[i].args = <<>>
    <3>1. st0.tool_states[i].started \in BOOLEAN
      BY <1>0 DEF ToolStates
    <3> QED
      BY <1>2, <3>1 DEF ToolFit
  <2>14. Entered(st0, s, i, r)
    BY <2>2, <2>5, <2>11, <2>13, Zenon DEF Entered
  <2> QED
    BY <2>12, <2>14, Zenon
<1> QED
  BY <1>1, <1>2

\* Where the delta of call i leaves it: all is what came for it.
Turned(st0, s, i, all) ==
    /\ Base(s) /\ Told(Log(s), Voice) = Told(Log(st0), Voice)
    /\ s.tool_states[i].seen /\ s.tool_states[i].args = all
    /\ Told(Log(s), {i}) = IF s.tool_states[i].started THEN all ELSE <<>>
    /\ \A j \in ToolIndex \ {i} : /\ s.tool_states[j] = st0.tool_states[j]
                                  /\ Told(Log(s), {j}) = Told(Log(st0), {j})

Noted(st, t) ==
    [st.tool_states[t.idx] EXCEPT !.known = @ \/ t.known, !.args = @ \o Args(n + 1, t)]
Placed(st, i, r) == [st EXCEPT !.tool_states[i] = r]
Opening(st, t) ==
    LET ts    == Noted(st, t)
        start == stream_event(close_for_tool(Placed(st, t.idx, [ts EXCEPT !.started = TRUE])),
                              "item.added", t.idx, ts.output_index, <<>>)
    IN  IF ts.args # <<>> THEN stream_event(start, "delta", t.idx, ts.output_index, ts.args) ELSE start
LEMMA ToolDeltaShape ==
    ASSUME NEW st0, NEW t
    PROVE  LET st == FirstSeen(st0, t.idx)
               ts == Noted(st, t)
           IN  tool_delta(st0, t) =
                 IF ~ts.started /\ ts.known THEN Opening(st, t)
                 ELSE IF ts.started /\ t.args
                 THEN stream_event(Placed(st, t.idx, ts), "delta", t.idx, ts.output_index, Args(n + 1, t))
                 ELSE Placed(st, t.idx, ts)
<1> QED
  BY Zenon DEF tool_delta, FirstSeen, Noted, Placed, Opening

LEMMA NotedFields ==
    ASSUME NEW st0, NEW st, NEW t \in ToolDeltas, NEW r, Entered(st0, st, t.idx, r), n \in Nat
    PROVE  /\ Args(n + 1, t) \in Seq(Pieces)
           /\ Noted(st, t) \in ToolStates /\ Noted(st, t).seen
           /\ Noted(st, t).started = st0.tool_states[t.idx].started
           /\ Noted(st, t).args = st0.tool_states[t.idx].args \o Args(n + 1, t)
<1>1. t.idx \in ToolIndex /\ t.known \in BOOLEAN /\ t.args \in BOOLEAN
  BY DEF ToolDeltas
<1>2. PICK new \in Seq(Pieces) : new = Args(n + 1, t)
  <2>1. n + 1 \in Nat /\ t.idx \in Parts
    BY <1>1 DEF ToolIndex, Parts
  <2> QED
    BY <1>1, <2>1, PieceType DEF Args
<1>3. r \in ToolStates /\ st.tool_states[t.idx] = r
  BY DEF Entered, Put
<1>4. PICK all \in Seq(Pieces) : all = r.args \o new
  <2>1. r.args \in Seq(Pieces)
    BY <1>3 DEF ToolStates
  <2> QED
    BY <2>1, ConcatProperties
<1>5. PICK known \in BOOLEAN : known = (r.known \/ t.known)
  OBVIOUS
<1>6. PICK ts : ts = [r EXCEPT !.known = known, !.args = all]
  OBVIOUS
<1>7. Noted(st, t) = ts
  BY <1>2, <1>3, <1>4, <1>5, <1>6 DEF Noted
<1>8. ts \in ToolStates /\ ts.seen = r.seen /\ ts.started = r.started /\ ts.args = all
  BY <1>3, <1>6 DEF ToolStates
<1> QED
  BY <1>2, <1>4, <1>7, <1>8 DEF Entered

NotTold(st0, s, i, ts) ==
    /\ Base(s) /\ Log(s) = Log(st0) /\ s.tool_states[i] = ts
    /\ \A j \in ToolIndex \ {i} : s.tool_states[j] = st0.tool_states[j]
LEMMA PlacedTurn ==
    ASSUME NEW st0, Base(st0), NEW st, NEW i \in ToolIndex, NEW r, Entered(st0, st, i, r),
           NEW ts \in ToolStates
    PROVE  NotTold(st0, Placed(st, i, ts), i, ts)
<1>1. Put(st0, st, i, r) /\ st \in States
  BY DEF Entered, Put
<1>2. PICK s : s = Placed(st, i, ts)
  OBVIOUS
<1>3. Put(st, s, i, ts)
  BY <1>1, <1>2, PutFields DEF Placed
<1>4. Base(st) /\ Log(st) = Log(st0)
  BY <1>1, PutBase
<1>5. Base(s) /\ Log(s) = Log(st)
  BY <1>3, <1>4, PutBase
<1> QED
  BY <1>1, <1>2, <1>3, <1>4, <1>5, Zenon DEF Put, NotTold

LEMMA OpeningTurned ==
    ASSUME NEW st0, Base(st0), NEW st, NEW t \in ToolDeltas, NEW r, Entered(st0, st, t.idx, r),
           n \in Nat, ~st0.tool_states[t.idx].started, Told(Log(st0), {t.idx}) = <<>>
    PROVE  Turned(st0, Opening(st, t), t.idx, st0.tool_states[t.idx].args \o Args(n + 1, t))
<1>0. PICK i \in ToolIndex : i = t.idx
  BY DEF ToolDeltas
<1>1. PICK ts \in ToolStates : ts = Noted(st, t) /\ ts.seen /\ ts.args = st0.tool_states[i].args \o Args(n + 1, t)
  BY <1>0, NotedFields
<1>2. PICK all \in Seq(Pieces) : all = ts.args
  BY DEF ToolStates
<1>3. PICK ts1 : ts1 = [ts EXCEPT !.started = TRUE]
  OBVIOUS
<1>4. ts1 \in ToolStates /\ ts1.started /\ ts1.seen /\ ts1.args = all
  BY <1>1, <1>2, <1>3 DEF ToolStates
<1>5. PICK w : w = Placed(st, i, ts1)
  OBVIOUS
<1>6. /\ Base(w) /\ Log(w) = Log(st0) /\ w.tool_states[i] = ts1
      /\ \A j \in ToolIndex \ {i} : w.tool_states[j] = st0.tool_states[j]
  <2>1. NotTold(st0, Placed(st, i, ts1), i, ts1)
    BY <1>0, <1>4, PlacedTurn, Zenon
  <2> QED
    BY <1>5, <2>1, Zenon DEF NotTold
<1>7. PICK u : u = close_for_tool(w)
  OBVIOUS
<1>8. Quiet(w, u) /\ Base(u)
  BY <1>6, <1>7, CloseForToolQuiet DEF Quiet, Speaks
<1>9. PICK index \in Int : index = ts.output_index
  BY DEF ToolStates
<1>10. PICK v : v = stream_event(u, "item.added", i, index, <<>>)
  OBVIOUS
<1>11. "item.added" \in EventTypes \ {"delta"} /\ "item.added" \notin Dones /\ i \in Names
  BY DEF EventTypes, Dones, Names, Items
<1>12. Quiet(u, v)
  BY <1>8, <1>10, <1>11, Empty, EventQuiet
<1>13. Quiet(w, v)
  BY <1>6, <1>8, <1>12, QuietTwice
<1>14. /\ Base(v) /\ v.tool_states = w.tool_states
       /\ \A j \in ToolIndex : Told(Log(v), {j}) = Told(Log(w), {j})
  BY <1>13, Zenon DEF Quiet, Speaks
<1>15. Told(Log(v), Voice) = Told(Log(w), Voice)
  <2>1. Told(Log(w), Voice) \in Seq(Pieces)
    BY <1>6, LogType
  <2>2. Neutral(Told(Log(w), Voice))
    BY <2>1, PiecesNeutral
  <2> QED
    BY <1>13, <2>2, Zenon DEF Quiet, Speaks, Neutral
<1>16. Told(Log(v), {i}) = <<>>
  BY <1>0, <1>6, <1>14, Zenon
<1>17. Opening(st, t) = IF all # <<>> THEN stream_event(v, "delta", i, index, all) ELSE v
  BY <1>0, <1>1, <1>2, <1>3, <1>5, <1>7, <1>9, <1>10, Zenon DEF Opening
<1>18. PICK s : s = Opening(st, t)
  OBVIOUS
<1>19. /\ Base(s) /\ s.tool_states = v.tool_states /\ Told(Log(s), Voice) = Told(Log(v), Voice)
       /\ Told(Log(s), {i}) = all
       /\ \A j \in ToolIndex \ {i} : Told(Log(s), {j}) = Told(Log(v), {j})
  <2>1. CASE all = <<>>
    BY <1>14, <1>16, <1>17, <1>18, <2>1, Zenon
  <2>2. CASE all # <<>>
    <3>1. s = stream_event(v, "delta", i, index, all)
      BY <1>17, <1>18, <2>2
    <3>2. Passes(v, s, i, all)
      BY <1>14, <3>1, ToolEventPasses
    <3>3. Neutral(all)
      BY PiecesNeutral
    <3> QED
      BY <1>16, <3>2, <3>3, Zenon DEF Passes, Neutral
  <2> QED
    BY <2>1, <2>2
<1>20. Turned(st0, s, i, all)
  <2>1. s.tool_states[i] = ts1
    BY <1>6, <1>14, <1>19, Zenon
  <2>2. /\ Told(Log(s), Voice) = Told(Log(st0), Voice)
        /\ \A j \in ToolIndex \ {i} : s.tool_states[j] = st0.tool_states[j]
    BY <1>6, <1>14, <1>15, <1>19, Zenon
  <2>3. \A j \in ToolIndex \ {i} : Told(Log(s), {j}) = Told(Log(st0), {j})
    BY <1>6, <1>14, <1>19
  <2> QED
    BY <1>4, <1>19, <2>1, <2>2, <2>3, Zenon DEF Turned
<1> QED
  BY <1>0, <1>1, <1>2, <1>18, <1>20, Zenon

LEMMA ToolDeltaTurned ==
    ASSUME NEW st0, Base(st0), NEW t \in ToolDeltas, NEW args, ToolFit(st0, t.idx, args), n \in Nat
    PROVE  Turned(st0, tool_delta(st0, t), t.idx, st0.tool_states[t.idx].args \o Args(n + 1, t))
<1>0. PICK i \in ToolIndex : i = t.idx
  BY DEF ToolDeltas
<1>1. PICK st : st = FirstSeen(st0, i)
  OBVIOUS
<1>2. PICK r : Entered(st0, st, i, r)
  BY <1>0, <1>1, FirstSeenEntered
<1>3. PICK new \in Seq(Pieces) : new = Args(n + 1, t)
  BY <1>0, <1>2, NotedFields
<1>4. PICK ts \in ToolStates : /\ ts = Noted(st, t) /\ ts.seen /\ ts.started = st0.tool_states[i].started
                               /\ ts.args = st0.tool_states[i].args \o new
  BY <1>0, <1>2, <1>3, NotedFields
<1>5. PICK before \in Seq(Pieces), all \in Seq(Pieces) :
        before = st0.tool_states[i].args /\ all = ts.args /\ all = before \o new
  <2>1. st0.tool_states[i] \in ToolStates
    BY DEF Base, States
  <2> QED
    BY <1>4, <2>1 DEF ToolStates
<1>6. PICK w : w = Placed(st, i, ts)
  OBVIOUS
<1>7. /\ Base(w) /\ Log(w) = Log(st0) /\ w.tool_states[i] = ts
      /\ \A j \in ToolIndex \ {i} : w.tool_states[j] = st0.tool_states[j]
  <2>1. NotTold(st0, Placed(st, i, ts), i, ts)
    BY <1>2, PlacedTurn, Zenon
  <2> QED
    BY <1>6, <2>1, Zenon DEF NotTold
<1>8. PICK index \in Int : index = ts.output_index
  BY DEF ToolStates
<1>9. Told(Log(st0), {i}) = IF ts.started THEN before ELSE <<>>
  BY <1>0, <1>4, <1>5 DEF ToolFit
<1>10. tool_delta(st0, t) = IF ~ts.started /\ ts.known THEN Opening(st, t)
                            ELSE IF ts.started /\ t.args THEN stream_event(w, "delta", i, index, new)
                            ELSE w
  BY <1>0, <1>1, <1>3, <1>4, <1>6, <1>8, ToolDeltaShape, Zenon
<1>11. CASE ~ts.started /\ ts.known
  <2>1. tool_delta(st0, t) = Opening(st, t)
    BY <1>10, <1>11
  <2>2. ~st0.tool_states[t.idx].started /\ Told(Log(st0), {t.idx}) = <<>>
    BY <1>0, <1>4, <1>9, <1>11
  <2> QED
    BY <1>0, <1>2, <2>1, <2>2, OpeningTurned
<1>12. CASE ts.started /\ t.args
  <2>1. PICK s : s = stream_event(w, "delta", i, index, new)
    OBVIOUS
  <2>2. Passes(w, s, i, new)
    BY <1>7, <2>1, ToolEventPasses
  <2>3. Told(Log(s), {i}) = all
    <3>1. Told(Log(w), {i}) = before
      BY <1>7, <1>9, <1>12
    <3> QED
      BY <1>5, <2>2, <3>1, Zenon DEF Passes
  <2>4. Turned(st0, s, i, all)
    BY <1>4, <1>5, <1>7, <1>12, <2>2, <2>3, Zenon DEF Passes, Turned
  <2>5. tool_delta(st0, t) = s
    BY <1>10, <1>12, <2>1
  <2> QED
    BY <1>0, <1>3, <1>5, <2>4, <2>5, Zenon
<1>13. CASE ~(~ts.started /\ ts.known) /\ ~(ts.started /\ t.args)
  <2>1. tool_delta(st0, t) = w
    BY <1>10, <1>13
  <2>2. Told(Log(w), {i}) = IF ts.started THEN all ELSE <<>>
    <3>1. CASE ts.started
      <4>1. new = <<>>
        BY <1>3, <1>13, <3>1 DEF Args, Piece
      <4>2. Neutral(before)
        BY PiecesNeutral
      <4>3. all = before
        BY <1>5, <4>1, <4>2, Zenon DEF Neutral
      <4> QED
        BY <1>7, <1>9, <3>1, <4>3
    <3>2. CASE ~ts.started
      BY <1>7, <1>9, <3>2
    <3> QED
      BY <3>1, <3>2
  <2>3. Turned(st0, w, i, all)
    BY <1>4, <1>5, <1>7, <2>2, Zenon DEF Turned
  <2> QED
    BY <1>0, <1>3, <1>5, <2>1, <2>3, Zenon
<1> QED
  BY <1>11, <1>12, <1>13

\* A tool-call delta: the calls keep and tell what came for them, the text is left.
LEMMA ToolDeltaFits ==
    ASSUME NEW st, Base(st), NEW t \in ToolDeltas, NEW args \in Seq(Pieces), ToolsFit(st, args), n \in Nat
    PROVE  /\ Base(tool_delta(st, t)) /\ ToolsFit(tool_delta(st, t), args \o Args(n + 1, t))
           /\ Told(Log(tool_delta(st, t)), Voice) = Told(Log(st), Voice)
<1>0. PICK i \in ToolIndex : i = t.idx
  BY DEF ToolDeltas
<1>1. PICK s : s = tool_delta(st, t)
  OBVIOUS
<1>2. ToolFit(st, i, args)
  BY DEF ToolsFit
<1>3. Turned(st, s, i, st.tool_states[i].args \o Args(n + 1, t))
  BY <1>0, <1>1, <1>2, ToolDeltaTurned
<1>4. n + 1 \in Nat /\ i \in Parts /\ t.args \in BOOLEAN
  BY DEF ToolIndex, Parts, ToolDeltas
<1>5. ASSUME NEW parts
      PROVE  Only(args \o Args(n + 1, t), parts)
               = Only(args, parts) \o (IF i \in parts THEN Args(n + 1, t) ELSE <<>>)
  <2>1. PICK k \in Nat : k = n + 1
    BY <1>4
  <2>2. Args(n + 1, t) = Piece(k, i, t.args)
    BY <1>0, <2>1 DEF Args
  <2>3. Only(args \o Piece(k, i, t.args), parts)
          = Only(args, parts) \o (IF i \in parts THEN Piece(k, i, t.args) ELSE <<>>)
    BY <1>4, OnlyPiece
  <2> QED
    BY <2>2, <2>3, Zenon
<1>6. ToolFit(s, i, args \o Args(n + 1, t))
  <2>1. Only(args \o Args(n + 1, t), {i}) = Only(args, {i}) \o Args(n + 1, t)
    <3>1. (IF i \in {i} THEN Args(n + 1, t) ELSE <<>>) = Args(n + 1, t)
      OBVIOUS
    <3> QED
      BY <1>5, <3>1, Zenon
  <2>2. st.tool_states[i].args = Only(args, {i})
    BY <1>2, Zenon DEF ToolFit
  <2> QED
    BY <1>3, <2>1, <2>2, Zenon DEF Turned, ToolFit
<1>7. ASSUME NEW j \in ToolIndex \ {i} PROVE ToolFit(s, j, args \o Args(n + 1, t))
  <2>1. Only(args, {j}) \in Seq(Pieces)
    <3>1. PICK p \in Pieces : p = [chunk |-> 0, part |-> "x"]
      BY DEF Pieces, Parts
    <3> QED
      BY <3>1, OnlyAppend
  <2>2. Neutral(Only(args, {j}))
    BY <2>1, PiecesNeutral
  <2>3. (IF i \in {j} THEN Args(n + 1, t) ELSE <<>>) = <<>>
    OBVIOUS
  <2>4. Only(args \o Args(n + 1, t), {j}) = Only(args, {j})
    <3>1. Only(args \o Args(n + 1, t), {j}) = Only(args, {j}) \o <<>>
      BY <1>5, <2>3, Zenon
    <3> QED
      BY <2>2, <3>1, Zenon DEF Neutral
  <2>5. ToolFit(st, j, args)
    BY DEF ToolsFit
  <2> QED
    BY <1>3, <2>4, <2>5, Zenon DEF Turned, ToolFit
<1>8. ToolsFit(s, args \o Args(n + 1, t))
  <2>1. \A j \in ToolIndex : j = i \/ j \in ToolIndex \ {i}
    OBVIOUS
  <2> QED
    BY <1>6, <1>7, <2>1, Zenon DEF ToolsFit
<1> QED
  BY <1>1, <1>3, <1>8, Zenon DEF Turned

\* The deltas one after the other.
ToolLoop(after, st, ts) ==
    /\ after[0] = st
    /\ \A k \in 1..Len(ts) : after[k] = tool_delta(after[k - 1], ts[k])
    /\ tool_deltas(st, ts) = after[Len(ts)]
Fits(x) == Base(x) /\ \E a \in Seq(Pieces) : ToolsFit(x, a)
LEMMA ToolDeltasLoop ==
    ASSUME NEW st, Fits(st), NEW ts \in Seq(ToolDeltas), n \in Nat
    PROVE  \E after : ToolLoop(after, st, ts)
<1> DEFINE N == Len(ts)
           S == {x \in States : Fits(x)}
           Turn(x, k) == tool_delta(x, ts[k])
           Body(f) == [k \in 0..N |-> IF k = 0 THEN st ELSE Turn(f[k - 1], k)]
           G == [k \in 1..N |-> [x \in S |-> Turn(x, k)]]
<1>1. ASSUME NEW k \in 1..N, NEW x \in S PROVE Turn(x, k) \in S
  <2>1. PICK t \in ToolDeltas : t = ts[k]
    OBVIOUS
  <2>2. PICK a \in Seq(Pieces) : Base(x) /\ ToolsFit(x, a)
    BY DEF Fits
  <2>3. PICK y : y = tool_delta(x, t)
    OBVIOUS
  <2>4. Base(y) /\ ToolsFit(y, a \o Args(n + 1, t))
    BY <2>2, <2>3, ToolDeltaFits
  <2>5. a \o Args(n + 1, t) \in Seq(Pieces)
    <3>1. n + 1 \in Nat /\ t.idx \in Parts /\ t.args \in BOOLEAN
      BY DEF ToolDeltas, ToolIndex, Parts
    <3>2. Args(n + 1, t) \in Seq(Pieces)
      BY <3>1, PieceType DEF Args
    <3> QED
      BY <3>2, ConcatProperties
  <2>6. y \in States /\ Fits(y)
    BY <2>4, <2>5, Zenon DEF Base, Fits
  <2> QED
    BY <2>1, <2>3, <2>6
<1>2. N \in Nat /\ st \in S
  BY DEF Fits, Base
<1> HIDE DEF N, S, Turn
<1>3. G \in [1..N -> [S -> S]]
  BY <1>1
<1>4. PICK f \in [0..N -> S] : IsLoop(f, st, N, G)
  <2> HIDE DEF G
  <2> QED
    BY <1>2, <1>3, LoopValues
<1>5. f = Body(f)
  <2>1. \A k \in 1..N : f[k - 1] \in S
    BY <1>2
  <2>2. f[0] = st /\ \A k \in 1..N : f[k] = Turn(f[k - 1], k)
    BY <1>4, <2>1 DEF IsLoop
  <2> QED
    BY <1>2, <2>2
<1> DEFINE after == CHOOSE g : g = Body(g)
<1>6. after = Body(after)
  <2> HIDE DEF Body
  <2> QED
    BY <1>5
<1>7. tool_deltas(st, ts) = after[N]
  BY DEF tool_deltas, N, Turn
<1> HIDE DEF after
<1>8. after[0] = st /\ \A k \in 1..N : after[k] = Turn(after[k - 1], k)
  BY <1>2, <1>6
<1> QED
  BY <1>7, <1>8 DEF ToolLoop, N, Turn

\* The tool-call deltas of a chunk add to the calls what the chunk has for them.
LEMMA ToolDeltasFit ==
    ASSUME NEW st, Base(st), NEW ts \in Seq(ToolDeltas), n \in Nat, NEW args \in Seq(Pieces),
           ToolsFit(st, args)
    PROVE  LET new == FlattenSeq([i \in DOMAIN ts |-> Args(n + 1, ts[i])])
           IN  /\ args \o new \in Seq(Pieces)
               /\ Base(tool_deltas(st, ts)) /\ ToolsFit(tool_deltas(st, ts), args \o new)
               /\ Told(Log(tool_deltas(st, ts)), Voice) = Told(Log(st), Voice)
<1>1. PICK N \in Nat : N = Len(ts)
  OBVIOUS
<1>2. DOMAIN ts = 1..N /\ \A k \in 1..N : ts[k] \in ToolDeltas
  BY <1>1
<1>3. PICK seqs \in Seq(Seq(Pieces)) :
        /\ seqs = [i \in DOMAIN ts |-> Args(n + 1, ts[i])] /\ Len(seqs) = N
        /\ \A k \in 1..N : seqs[k] = Args(n + 1, ts[k]) /\ seqs[k] \in Seq(Pieces)
  <2>1. ASSUME NEW k \in 1..N PROVE Args(n + 1, ts[k]) \in Seq(Pieces)
    <3>1. n + 1 \in Nat /\ ts[k].idx \in Parts /\ ts[k].args \in BOOLEAN
      BY <1>2 DEF ToolDeltas, ToolIndex, Parts
    <3> QED
      BY <3>1, PieceType DEF Args
  <2> DEFINE new == [i \in 1..N |-> Args(n + 1, ts[i])]
  <2>2. /\ new \in Seq(Seq(Pieces)) /\ Len(new) = N
        /\ \A k \in 1..N : new[k] = Args(n + 1, ts[k]) /\ new[k] \in Seq(Pieces)
    BY <2>1
  <2> HIDE DEF new
  <2>3. new = [i \in DOMAIN ts |-> Args(n + 1, ts[i])]
    BY <1>2 DEF new
  <2> QED
    BY <2>2, <2>3
<1>4. PICK f : IsFlat(f, seqs, Pieces)
  BY FlatExists
<1>5. /\ f \in [0..N -> Seq(Pieces)] /\ f[0] = <<>>
      /\ \A k \in 1..N : f[k] = f[k - 1] \o seqs[k]
  BY <1>3, <1>4 DEF IsFlat
<1>6. FlattenSeq(seqs) = f[N]
  BY <1>3, <1>4, FlatValue
<1>7. PICK after : ToolLoop(after, st, ts)
  BY ToolDeltasLoop DEF Fits
<1>8. /\ after[0] = st /\ \A k \in 1..N : after[k] = tool_delta(after[k - 1], ts[k])
      /\ tool_deltas(st, ts) = after[N]
  BY <1>1, <1>7 DEF ToolLoop
<1> DEFINE Right(k) == /\ args \o f[k] \in Seq(Pieces)
                       /\ Base(after[k]) /\ ToolsFit(after[k], args \o f[k])
                       /\ Told(Log(after[k]), Voice) = Told(Log(st), Voice)
           Done0 == {k \in Nat : k <= N => Right(k)}
<1>9. Right(0)
  <2>1. args \o <<>> = args
    BY ConcatEmptySeq
  <2> QED
    BY <1>5, <1>8, <2>1, Zenon
<1>10. ASSUME NEW k \in 1..N, Right(k - 1) PROVE Right(k)
  <2>1. k - 1 \in 0..N
    BY <1>1
  <2>2. PICK before \in Seq(Pieces) : before = f[k - 1]
    BY <1>5, <2>1
  <2>3. PICK new \in Seq(Pieces) : new = Args(n + 1, ts[k])
    BY <1>3
  <2>4. f[k] = before \o new
    BY <1>3, <1>5, <2>2, <2>3, Zenon
  <2>5. PICK all \in Seq(Pieces) : all = args \o before
    BY <1>10, <2>2, Zenon
  <2>6. PICK mid : mid = after[k - 1]
    OBVIOUS
  <2>7. Base(mid) /\ ToolsFit(mid, all) /\ Told(Log(mid), Voice) = Told(Log(st), Voice)
    BY <1>10, <2>2, <2>5, <2>6, Zenon
  <2>8. /\ Base(tool_delta(mid, ts[k])) /\ ToolsFit(tool_delta(mid, ts[k]), all \o Args(n + 1, ts[k]))
        /\ Told(Log(tool_delta(mid, ts[k])), Voice) = Told(Log(mid), Voice)
    BY <1>2, <2>7, ToolDeltaFits
  <2>9. Regroup(args, before, new)
    BY PiecesRegroup
  <2>10. all \o new = args \o f[k]
    BY <2>4, <2>5, <2>9, Zenon DEF Regroup
  <2>11. all \o new \in Seq(Pieces)
    BY ConcatProperties
  <2>12. after[k] = tool_delta(mid, ts[k])
    BY <1>8, <2>6, Zenon
  <2> QED
    BY <2>3, <2>7, <2>8, <2>10, <2>11, <2>12, Zenon
<1> HIDE DEF Right
<1>11. 0 \in Done0
  BY <1>9
<1>12. ASSUME NEW k \in Nat, k \in Done0 PROVE k + 1 \in Done0
  <2> SUFFICES ASSUME k + 1 <= N PROVE Right(k + 1)
    OBVIOUS
  <2>1. PICK m \in 1..N : m = k + 1
    BY <1>1
  <2>2. m - 1 = k /\ Right(k)
    BY <1>1, <1>12, <2>1
  <2>3. Right(m)
    BY <1>10, <2>2
  <2> QED
    BY <2>1, <2>3
<1>13. N \in Done0
  <2> HIDE DEF Done0
  <2> QED
    BY <1>1, <1>11, <1>12, SetInduction
<1>14. Right(N)
  BY <1>13
<1> QED
  BY <1>3, <1>6, <1>8, <1>14, Zenon DEF Right

---------------------------------------------------------------------------
(* A chunk, and the end of the stream                                      *)

LEMMA ResponseCreatedQuiet ==
    ASSUME NEW st, Base(st)
    PROVE  Quiet(st, response_created(st))
<1>1. st \in States
  BY DEF Base
<1>2. CASE st.response_created
  BY <1>2, QuietSelf DEF response_created
<1>3. CASE ~st.response_created
  <2>1. PICK mid : mid = [st EXCEPT !.response_created = TRUE]
    OBVIOUS
  <2>2. /\ mid \in States /\ mid.events = st.events /\ mid.tool_states = st.tool_states
        /\ mid.reasoning_text = st.reasoning_text /\ mid.accumulated_text = st.accumulated_text
    BY <1>1, <2>1 DEF States
  <2>3. Quiet(st, mid) /\ Base(mid)
    BY <2>2, Adjusted DEF Quiet, Speaks
  <2>4. "response.created" \in EventTypes \ {"delta"} /\ "response.created" \notin Dones /\ "nil" \in Names
    BY DEF EventTypes, Dones, Names, Items
  <2>5. Quiet(mid, stream_event(mid, "response.created", "nil", 0, <<>>))
    <3>1. 0 \in Int /\ <<>> \in Seq(Pieces) \cup SUBSET Items
      BY Empty
    <3> QED
      BY <2>3, <2>4, <3>1, EventQuiet, Zenon
  <2>6. response_created(st) = stream_event(mid, "response.created", "nil", 0, <<>>)
    BY <1>3, <2>1 DEF response_created
  <2> QED
    BY <2>3, <2>5, <2>6, QuietTwice
<1> QED
  BY <1>2, <1>3

LEMMA FinishQuiet ==
    ASSUME NEW st, Base(st), NEW finish_reason
    PROVE  Quiet(st, finish(st, finish_reason))
<1>1. st \in States
  BY DEF Base
<1>2. PICK status \in Statuses : status = map_status(finish_reason)
  BY DEF map_status, Statuses
<1>3. PICK s : s = [st EXCEPT !.status = status]
  OBVIOUS
<1>4. /\ s \in States /\ s.events = st.events /\ s.tool_states = st.tool_states
      /\ s.reasoning_text = st.reasoning_text /\ s.accumulated_text = st.accumulated_text
  BY <1>1, <1>3 DEF States
<1>5. Quiet(st, s) /\ Quiet(st, st)
  BY <1>4, Adjusted, QuietSelf
<1>6. finish(st, finish_reason) = st \/ finish(st, finish_reason) = s
  BY <1>2, <1>3, Zenon DEF finish
<1> QED
  BY <1>5, <1>6, Zenon

\* A chunk tells its content and what it has for the tool calls.
LEMMA ChunkFits ==
    ASSUME NEW st, Base(st), NEW args \in Seq(Pieces), ToolsFit(st, args), n \in Nat,
           NEW c \in Contents \cup {NoContent}, NEW ts \in Tools, NEW finish_reason
    PROVE  LET s   == stream_chunk_from_openai(st, c, ts, finish_reason)
               new == FlattenSeq([i \in DOMAIN ts |-> Args(n + 1, ts[i])])
           IN  /\ Base(s) /\ args \o new \in Seq(Pieces) /\ ToolsFit(s, args \o new)
               /\ Told(Log(s), Voice) = Told(Log(st), Voice) \o SpokenIn(n + 1, c)
<1>1. PICK s1 : s1 = response_created(st)
  OBVIOUS
<1>2. Quiet(st, s1) /\ Base(s1)
  BY <1>1, ResponseCreatedQuiet DEF Quiet, Speaks
<1>3. PICK s2 : s2 = finish(s1, finish_reason)
  OBVIOUS
<1>4. Quiet(s1, s2)
  BY <1>2, <1>3, FinishQuiet
<1>5. Quiet(st, s2) /\ Base(s2)
  BY <1>2, <1>4, QuietTwice DEF Quiet, Speaks
<1>6. PICK s3 : s3 = content_delta(s2, c)
  OBVIOUS
<1>7. Speaks(s2, s3, SpokenIn(n + 1, c))
  BY <1>5, <1>6, ContentDeltaSpeaks
<1>8. SpokenIn(n + 1, c) \in Seq(Pieces)
  <2>1. CASE c = NoContent
    BY <2>1, Empty, Zenon DEF SpokenIn
  <2>2. CASE c # NoContent
    <3>1. c \in Contents /\ n + 1 \in Nat
      BY <2>2
    <3> QED
      BY <2>2, <3>1, PiecesType DEF SpokenIn
  <2> QED
    BY <2>1, <2>2
<1>9. Speaks(st, s3, SpokenIn(n + 1, c))
  BY <1>5, <1>7, <1>8, QuietThenSpeaks
<1>10. Base(s3) /\ ToolsFit(s3, args)
  BY <1>9, QuietFits DEF Speaks
<1>11. ts \in Seq(ToolDeltas)
  BY ChunksAssumption DEF ToolDeltas
<1>12. PICK new : new = FlattenSeq([i \in DOMAIN ts |-> Args(n + 1, ts[i])])
  OBVIOUS
<1>13. PICK s : s = tool_deltas(s3, ts)
  OBVIOUS
<1>14. /\ args \o new \in Seq(Pieces) /\ Base(s) /\ ToolsFit(s, args \o new)
       /\ Told(Log(s), Voice) = Told(Log(s3), Voice)
  BY <1>10, <1>11, <1>12, <1>13, ToolDeltasFit
<1>15. s = stream_chunk_from_openai(st, c, ts, finish_reason)
  BY <1>1, <1>3, <1>6, <1>13 DEF stream_chunk_from_openai
<1>16. Told(Log(s), Voice) = Told(Log(st), Voice) \o SpokenIn(n + 1, c)
  BY <1>9, <1>14, Zenon DEF Speaks
<1> QED
  BY <1>12, <1>14, <1>15, <1>16, Zenon

LEMMA CloseToolQuiet ==
    ASSUME NEW st, Base(st), NEW i \in ToolIndex, NEW args, ToolsFit(st, args)
    PROVE  Quiet(st, close_tool(st, i))
<1>1. CASE ~st.tool_states[i].started
  BY <1>1, QuietSelf DEF close_tool
<1>2. CASE st.tool_states[i].started
  <2>1. PICK ts \in ToolStates : ts = st.tool_states[i]
    BY DEF Base, States
  <2>2. PICK data \in Seq(Pieces), index \in Int : data = ts.args /\ index = ts.output_index
    BY DEF ToolStates
  <2>3. Told(Log(st), {i}) = data
    BY <1>2, <2>1, <2>2 DEF ToolsFit, ToolFit
  <2>4. PICK s : s = stream_event(st, "text.done", i, index, data)
    OBVIOUS
  <2>5. /\ "text.done" \in EventTypes \ {"delta"} /\ "item.done" \in EventTypes \ {"delta"} /\ i \in Names
    BY DEF EventTypes, Dones, Names, Items
  <2>6. Quiet(st, s)
    BY <2>3, <2>4, <2>5, EventQuiet
  <2>7. Base(s) /\ Told(Log(s), {i}) = data
    BY <2>3, <2>6, Zenon DEF Quiet, Speaks
  <2>8. Quiet(s, stream_event(s, "item.done", i, index, data))
    BY <2>5, <2>7, EventQuiet
  <2>9. close_tool(st, i) = stream_event(s, "item.done", i, index, data)
    BY <1>2, <2>1, <2>2, <2>4 DEF close_tool
  <2> QED
    BY <2>6, <2>8, <2>9, QuietTwice
<1> QED
  BY <1>1, <1>2

LEMMA StreamEndQuiet ==
    ASSUME NEW st, Base(st), NEW args, ToolsFit(st, args)
    PROVE  Quiet(st, stream_end(st))
<1>0. st \in States
  BY DEF Base
<1>1. PICK s1 : s1 = IF st.think_detected /\ ~st.text_part_started THEN reasoning_close(st) ELSE st
  OBVIOUS
<1>2. Quiet(st, s1) /\ Base(s1)
  <2>1. Quiet(st, reasoning_close(st)) /\ Quiet(st, st)
    BY ReasoningCloseQuiet, QuietSelf
  <2>2. Quiet(st, s1)
    BY <1>1, <2>1, Zenon
  <2> QED
    BY <2>2 DEF Quiet, Speaks
<1>3. PICK s2 : s2 = IF st.text_part_started THEN message_close(s1) ELSE s1
  OBVIOUS
<1>4. Quiet(s1, s2)
  <2>1. Quiet(s1, message_close(s1)) /\ Quiet(s1, s1)
    BY <1>2, MessageCloseQuiet, QuietSelf
  <2> QED
    BY <1>3, <2>1, Zenon
<1>5. Quiet(st, s2)
  BY <1>2, <1>4, QuietTwice
<1>6. Base(s2) /\ ToolsFit(s2, args)
  BY <1>5, QuietFits DEF Quiet, Speaks
<1>7. PICK s3 : s3 = close_tool(s2, "t0")
  OBVIOUS
<1>8. "t0" \in ToolIndex /\ "t1" \in ToolIndex
  BY DEF ToolIndex
<1>9. Quiet(s2, s3)
  BY <1>6, <1>7, <1>8, CloseToolQuiet
<1>10. Base(s3) /\ ToolsFit(s3, args)
  BY <1>6, <1>9, QuietFits DEF Quiet, Speaks
<1>11. PICK s4 : s4 = close_tool(s3, "t1")
  OBVIOUS
<1>12. Quiet(s3, s4)
  BY <1>8, <1>10, <1>11, CloseToolQuiet
<1>13. Quiet(st, s3)
  BY <1>5, <1>9, QuietTwice
<1>14. Quiet(st, s4) /\ Base(s4)
  BY <1>12, <1>13, QuietTwice DEF Quiet, Speaks
<1>15. PICK items \in SUBSET Items : items = final_output(st)
  <2>1. final_output(st) \subseteq Items
    BY DEF final_output, Items
  <2> QED
    BY <2>1
<1>16. PICK status \in Names : status = st.status
  BY <1>0 DEF States, Names
<1>17. "response.completed" \in EventTypes \ {"delta"} /\ "response.completed" \notin Dones
  BY DEF EventTypes, Dones
<1>18. Quiet(s4, stream_event(s4, "response.completed", status, 0, items))
  <2>1. 0 \in Int /\ items \in Seq(Pieces) \cup SUBSET Items
    OBVIOUS
  <2> QED
    BY <1>14, <1>17, <2>1, EventQuiet, Zenon
<1>19. stream_end(st) = stream_event(s4, "response.completed", status, 0, items)
  BY <1>1, <1>3, <1>7, <1>11, <1>15, <1>16 DEF stream_end
<1> QED
  BY <1>14, <1>18, <1>19, QuietTwice

---------------------------------------------------------------------------
(* The stream                                                              *)

\* The log tells what the state keeps and what has come.
Account(log, st, tokens, args) ==
    /\ log \in Seq(Events) /\ st \in States /\ st.events = <<>>
    /\ tokens \in Seq(Pieces) /\ args \in Seq(Pieces)
    /\ Told(log, {"rs"}) = st.reasoning_text /\ Told(log, {"msg"}) = st.accumulated_text
    /\ DonesOK(log)
    /\ Told(log, Voice) = Text(tokens)
    /\ \A i \in ToolIndex :
         /\ st.tool_states[i].args = Only(args, {i})
         /\ Told(log, {i}) = IF st.tool_states[i].started THEN st.tool_states[i].args ELSE <<>>
         /\ ~st.tool_states[i].seen => ~st.tool_states[i].started /\ st.tool_states[i].args = <<>>
TellInv == n \in Nat /\ Account(out, state, got.tokens, got.args)

LEMMA InitTell == Init => TellInv
<1> SUFFICES ASSUME Init PROVE TellInv
  OBVIOUS
<1>1. PICK none \in Seq(Pieces) : none = <<>>
  BY Empty, Zenon
<1>2. PICK quiet \in Seq(Events) : quiet = <<>>
  <2>1. <<>> \in Seq(Events)
    OBVIOUS
  <2> QED
    BY <2>1, Zenon
<1>3. PICK tools \in [ToolIndex -> ToolStates] : tools = [i \in ToolIndex |-> no_tool]
  <2>1. no_tool = [seen |-> FALSE, known |-> FALSE, started |-> FALSE, args |-> none, output_index |-> 0]
    BY <1>1 DEF no_tool
  <2>2. no_tool \in ToolStates
    BY <2>1 DEF ToolStates
  <2> QED
    BY <2>2
<1>4. state = [seq |-> 0, output_index |-> 0, next_output_index |-> 1, first_content |-> TRUE,
               think_detected |-> FALSE, reasoning_text |-> none, accumulated_text |-> none,
               message_started |-> FALSE, text_part_started |-> FALSE, response_created |-> FALSE,
               status |-> "completed", tool_states |-> tools, events |-> quiet]
  BY <1>1, <1>2, <1>3 DEF Init, new_stream_state
<1>5. /\ state \in States /\ state.events = quiet /\ state.reasoning_text = none
      /\ state.accumulated_text = none /\ state.tool_states = tools
  BY <1>4 DEF States, Statuses
<1>6. n \in Nat /\ out = quiet /\ got.tokens = none /\ got.args = none
  BY <1>1, <1>2 DEF Init, nothing
<1>7. \A items : Told(out, items) = none
  BY <1>1, <1>2, <1>6, NothingTold, Zenon
<1>8. \A parts : Only(none, parts) = none
  BY <1>1, OnlyNothing, Zenon
<1>9. DonesOK(out)
  <2>1. Len(quiet) = 0
    BY <1>2
  <2> QED
    BY <1>6, <2>1 DEF DonesOK
<1>10. ASSUME NEW i \in ToolIndex
       PROVE  state.tool_states[i].args = none /\ ~state.tool_states[i].started
  BY <1>1, <1>3, <1>5 DEF no_tool
<1>11. Told(out, Voice) = Text(none)
  BY <1>7, <1>8, Zenon DEF Text
<1>12. ASSUME NEW i \in ToolIndex
       PROVE  /\ state.tool_states[i].args = Only(none, {i})
              /\ Told(out, {i}) = IF state.tool_states[i].started THEN state.tool_states[i].args ELSE <<>>
              /\ ~state.tool_states[i].seen => ~state.tool_states[i].started /\ state.tool_states[i].args = <<>>
  BY <1>1, <1>7, <1>8, <1>10, Zenon
<1>13. Account(out, state, none, none)
  BY <1>2, <1>5, <1>6, <1>7, <1>9, <1>11, <1>12, Zenon DEF Account
<1> QED
  BY <1>6, <1>13, Zenon DEF TellInv

\* What the invariant says of the state a handler gets.
LEMMA TellNow ==
    ASSUME TellInv
    PROVE  /\ Base(state) /\ n \in Nat /\ got.tokens \in Seq(Pieces) /\ got.args \in Seq(Pieces)
           /\ Told(Log(state), Voice) = Text(got.tokens) /\ ToolsFit(state, got.args)
<1>1. Account(out, state, got.tokens, got.args) /\ n \in Nat
  BY DEF TellInv
<1>2. out \in Seq(Events) /\ state.events = <<>>
  BY <1>1 DEF Account
<1>3. Log(state) = out
  <2>1. out \o <<>> = out
    BY <1>2, ConcatEmptySeq
  <2> QED
    BY <1>2, <2>1, Zenon DEF Log
<1>4. Base(state)
  BY <1>1, <1>3, Zenon DEF Account, Base
<1>5. ToolsFit(state, got.args)
  BY <1>1, <1>3, Zenon DEF Account, ToolsFit, ToolFit
<1> QED
  BY <1>1, <1>3, <1>4, <1>5, Zenon DEF Account

\* What a handler's events tell is in the client's log.
LEMMA WriteTell ==
    ASSUME NEW s, Base(s), Write(s), NEW tokens \in Seq(Pieces), NEW args \in Seq(Pieces),
           Told(Log(s), Voice) = Text(tokens), ToolsFit(s, args),
           got'.tokens = tokens, got'.args = args, n' \in Nat
    PROVE  TellInv'
<1>1. s \in States /\ out \in Seq(Events)
  BY DEF Base
<1>2. PICK none \in Seq(Events) : none = <<>>
  <2>1. <<>> \in Seq(Events)
    OBVIOUS
  <2> QED
    BY <2>1, Zenon
<1>3. PICK st : st = [s EXCEPT !.events = none]
  OBVIOUS
<1>4. /\ st \in States /\ st.events = none /\ st.tool_states = s.tool_states
      /\ st.reasoning_text = s.reasoning_text /\ st.accumulated_text = s.accumulated_text
  BY <1>1, <1>3 DEF States
<1>5. state' = st /\ out' = Log(s)
  BY <1>2, <1>3 DEF Write, Log
<1>6. PICK log \in Seq(Events) : log = Log(s)
  BY LogType
<1>7. ASSUME NEW i \in ToolIndex
      PROVE  /\ st.tool_states[i].args = Only(args, {i})
             /\ Told(log, {i}) = IF st.tool_states[i].started THEN st.tool_states[i].args ELSE <<>>
             /\ ~st.tool_states[i].seen => ~st.tool_states[i].started /\ st.tool_states[i].args = <<>>
  <2>1. ToolFit(s, i, args)
    BY DEF ToolsFit
  <2> QED
    BY <1>4, <1>6, <2>1, Zenon DEF ToolFit
<1>8. /\ Told(log, {"rs"}) = st.reasoning_text /\ Told(log, {"msg"}) = st.accumulated_text
      /\ DonesOK(log) /\ Told(log, Voice) = Text(tokens)
  BY <1>4, <1>6, Zenon DEF Base
<1>9. Account(log, st, tokens, args)
  BY <1>2, <1>4, <1>7, <1>8, Zenon DEF Account
<1>10. Account(out', state', got'.tokens, got'.args)
  BY <1>5, <1>6, <1>9, Zenon
<1> QED
  BY <1>10, Zenon DEF TellInv

LEMMA StepTell == TellInv /\ [Next]_vars => TellInv'
<1> SUFFICES ASSUME TellInv, [Next]_vars PROVE TellInv'
  OBVIOUS
<1>1. /\ Base(state) /\ n \in Nat /\ got.tokens \in Seq(Pieces) /\ got.args \in Seq(Pieces)
      /\ Told(Log(state), Voice) = Text(got.tokens) /\ ToolsFit(state, got.args)
  BY TellNow
<1>2. ASSUME NEW c \in Contents \cup {NoContent}, NEW ts \in Tools, NEW f \in FinishReasons, Chunk(c, ts, f)
      PROVE  TellInv'
  <2>1. /\ Write(stream_chunk_from_openai(state, c, ts, f)) /\ got' = Extend(got, n + 1, c, ts)
        /\ n' = n + 1
    BY <1>2 DEF Chunk
  <2>2. PICK s : s = stream_chunk_from_openai(state, c, ts, f)
    OBVIOUS
  <2>3. PICK new : new = FlattenSeq([i \in DOMAIN ts |-> Args(n + 1, ts[i])])
    OBVIOUS
  <2>4. /\ Base(s) /\ got.args \o new \in Seq(Pieces) /\ ToolsFit(s, got.args \o new)
        /\ Told(Log(s), Voice) = Told(Log(state), Voice) \o SpokenIn(n + 1, c)
    BY <1>1, <2>2, <2>3, ChunkFits
  <2>5. PICK args \in Seq(Pieces) : args = got.args \o new
    BY <2>4, Zenon
  <2>6. n + 1 \in Nat
    BY <1>1
  <2>7. PICK tokens \in Seq(Pieces) : /\ tokens = got.tokens \o Tokens(n + 1, c)
                                      /\ Text(tokens) = Text(got.tokens) \o SpokenIn(n + 1, c)
    BY <1>1, <2>6, TokensText
  <2>8. got'.tokens = tokens /\ got'.args = args
    <3>1. PICK at : got' = [tokens |-> tokens, args |-> args, toolAt |-> at]
      BY <2>1, <2>3, <2>5, <2>7, Zenon DEF Extend
    <3> QED
      BY <3>1
  <2>9. Told(Log(s), Voice) = Text(tokens)
    BY <1>1, <2>4, <2>7, Zenon
  <2>10. Write(s) /\ n' \in Nat /\ ToolsFit(s, args)
    BY <2>1, <2>2, <2>4, <2>5, <2>6
  <2> QED
    BY <2>4, <2>8, <2>9, <2>10, WriteTell
<1>3. ASSUME NEW s, Quiet(state, s), Write(s), got' = got, n' \in Nat PROVE TellInv'
  <2>1. Base(s) /\ ToolsFit(s, got.args)
    BY <1>1, <1>3, QuietFits DEF Quiet, Speaks
  <2>2. Told(Log(s), Voice) = Text(got.tokens)
    <3>1. Told(Log(state), Voice) \in Seq(Pieces)
      BY <1>1, LogType
    <3>2. Neutral(Told(Log(state), Voice))
      BY <3>1, PiecesNeutral
    <3> QED
      BY <1>1, <1>3, <3>2, Zenon DEF Quiet, Speaks, Neutral
  <2>3. PICK tokens \in Seq(Pieces), args \in Seq(Pieces) : tokens = got.tokens /\ args = got.args
    BY <1>1
  <2>4. got'.tokens = tokens /\ got'.args = args
    BY <1>3, <2>3
  <2> QED
    BY <1>3, <2>1, <2>2, <2>3, <2>4, WriteTell
<1>4. CASE ChunkWithoutChoice
  <2>1. Write(response_created(state)) /\ got' = got /\ n' \in Nat
    BY <1>1, <1>4 DEF ChunkWithoutChoice
  <2>2. Quiet(state, response_created(state))
    BY <1>1, ResponseCreatedQuiet
  <2> QED
    BY <1>3, <2>1, <2>2
<1>5. CASE ChunkUnreadable
  <2>1. n' \in Nat /\ state' = state /\ out' = out /\ got' = got
    BY <1>1, <1>5 DEF ChunkUnreadable
  <2> QED
    BY <2>1, Zenon DEF TellInv
<1>6. CASE End
  <2>1. Write(stream_end(state)) /\ got' = got /\ n' \in Nat
    BY <1>1, <1>6 DEF End
  <2>2. Quiet(state, stream_end(state))
    BY <1>1, StreamEndQuiet
  <2> QED
    BY <1>3, <2>1, <2>2
<1>7. CASE UNCHANGED vars
  <2>1. n' = n /\ state' = state /\ out' = out /\ got' = got
    BY <1>7 DEF vars
  <2> QED
    BY <2>1, Zenon DEF TellInv
<1> QED
  BY <1>2, <1>4, <1>5, <1>6, <1>7 DEF Next, Done

LEMMA TellEnough == TellInv => NothingLost /\ DoneMatchesDeltas
<1> SUFFICES ASSUME TellInv PROVE NothingLost /\ DoneMatchesDeltas
  OBVIOUS
<1>1. Account(out, state, got.tokens, got.args) /\ out \in Seq(Events)
  BY DEF TellInv, Account
<1>2. DOMAIN out = 1..Len(out)
  BY <1>1, LenProperties
<1>3. \A items : Data(items) = Told(out, items)
  BY <1>2, Zenon DEF Data, Told, Upto, Carried
<1>4. NothingLost
  <2>1. Data({"rs", "msg"}) = Text(got.tokens)
    BY <1>1, <1>3, Zenon DEF Account, Voice
  <2>2. ASSUME NEW i \in ToolIndex, state.tool_states[i].started PROVE Data({i}) = Only(got.args, {i})
    BY <1>1, <1>3, <2>2, Zenon DEF Account
  <2> QED
    BY <2>1, <2>2, Zenon DEF NothingLost
<1>5. DoneMatchesDeltas
  <2>1. ASSUME NEW i \in DOMAIN out, out[i].type \in {"text.done", "part.done", "item.done"}
        PROVE  out[i].data = Sent(out[i].item, i)
    <3>1. out[i].data = Upto(out, {out[i].item}, i)
      BY <1>1, <1>2, <2>1, Zenon DEF Account, DonesOK, Dones
    <3>2. PICK item : item = out[i].item
      OBVIOUS
    <3>3. [k \in 1..i |-> Carried(out[k], {item})]
            = [k \in 1..i |-> IF out[k].type = "delta" /\ out[k].item = item THEN out[k].data ELSE <<>>]
      BY DEF Carried
    <3>4. Sent(item, i) = Upto(out, {item}, i)
      BY <3>3, Zenon DEF Sent, Upto
    <3> QED
      BY <3>1, <3>2, <3>4, Zenon
  <2> QED
    BY <2>1, Zenon DEF DoneMatchesDeltas
<1> QED
  BY <1>4, <1>5

\* In every stream of chunks, of any length and with any contents and tool calls, the
\* reasoning and message deltas the client gets are the text that came, each piece once
\* and in order, and a function call that has started has got all its arguments, the
\* ones that came before its id and name included.
THEOREM ResponsesTold == Spec => []NothingLost
<1>1. Init => TellInv
  BY InitTell
<1>2. TellInv /\ [Next]_vars => TellInv'
  BY StepTell
<1>3. TellInv => NothingLost
  BY TellEnough
<1> QED
  BY <1>1, <1>2, <1>3, PTL DEF Spec

\* Whenever an item is closed, a second time or after a tool call interrupted it
\* included, the text in the closing events is what its deltas have carried so far.
THEOREM DonesRight == Spec => []DoneMatchesDeltas
<1>1. Init => TellInv
  BY InitTell
<1>2. TellInv /\ [Next]_vars => TellInv'
  BY StepTell
<1>3. TellInv => DoneMatchesDeltas
  BY TellEnough
<1> QED
  BY <1>1, <1>2, <1>3, PTL DEF Spec

---------------------------------------------------------------------------
(* Which items are open                                                    *)

Marks(log, type, item, k) == {i \in 1..k : log[i].type = type /\ log[i].item = item}
CountIn(log, type, item, k) == Cardinality(Marks(log, type, item, k))
Hit(e, type, item) == IF e.type = type /\ e.item = item THEN 1 ELSE 0

LEMMA CountType ==
    ASSUME NEW log, NEW type, NEW item, NEW k \in Nat
    PROVE  CountIn(log, type, item, k) \in Nat /\ IsFiniteSet(Marks(log, type, item, k))
<1>1. IsFiniteSet(1..k)
  BY FS_Interval
<1>2. Marks(log, type, item, k) \in SUBSET (1..k)
  BY DEF Marks
<1>3. IsFiniteSet(Marks(log, type, item, k))
  BY <1>1, <1>2, FS_Subset
<1> QED
  BY <1>3, FS_CardinalityType DEF CountIn

\* One event more.
Counted(log, new, e, type, item) ==
    /\ \A k \in 0..Len(log) : CountIn(new, type, item, k) = CountIn(log, type, item, k)
    /\ CountIn(new, type, item, Len(log) + 1) = CountIn(log, type, item, Len(log)) + Hit(e, type, item)
LEMMA CountAppend ==
    ASSUME NEW log \in Seq(Events), NEW e \in Events, NEW type, NEW item
    PROVE  Counted(log, Append(log, e), e, type, item)
<1>1. PICK m \in Nat : m = Len(log)
  OBVIOUS
<1>2. PICK new : new = Append(log, e)
  OBVIOUS
<1>3. new[m + 1] = e /\ \A i \in 1..m : new[i] = log[i]
  BY <1>1, <1>2, AppendProperties
<1>4. ASSUME NEW k \in 0..m PROVE CountIn(new, type, item, k) = CountIn(log, type, item, k)
  <2>1. Marks(new, type, item, k) = Marks(log, type, item, k)
    BY <1>3 DEF Marks
  <2> QED
    BY <2>1 DEF CountIn
<1>5. PICK S, T : S = Marks(log, type, item, m) /\ T = Marks(new, type, item, m + 1)
  OBVIOUS
<1>6. IsFiniteSet(S) /\ Cardinality(S) \in Nat
  BY <1>5, CountType DEF CountIn
<1>7. Cardinality(T) = Cardinality(S) + Hit(e, type, item)
  <2>1. CASE e.type = type /\ e.item = item
    <3>1. T = S \cup {m + 1} /\ m + 1 \notin S
      BY <1>3, <1>5, <2>1 DEF Marks
    <3>2. Cardinality(T) = Cardinality(S) + 1
      BY <1>6, <3>1, FS_AddElement
    <3> QED
      BY <2>1, <3>2 DEF Hit
  <2>2. CASE ~(e.type = type /\ e.item = item)
    <3>1. T = S
      BY <1>3, <1>5, <2>2 DEF Marks
    <3> QED
      BY <1>6, <2>2, <3>1 DEF Hit
  <2> QED
    BY <2>1, <2>2
<1> QED
  BY <1>1, <1>2, <1>4, <1>5, <1>7, Zenon DEF Counted, CountIn

\* In the log exactly the items of the set open are open, and no delta is outside
\* its item.  The reasoning item, once added, counts as open for good; "over" is in the
\* set when it has been done.
IsOpen(log, item, k) ==
    CountIn(log, "item.added", item, k) = IF item = "rs" THEN 1 ELSE CountIn(log, "item.done", item, k) + 1
IsShut(log, item, k) ==
    /\ CountIn(log, "item.added", item, k) = CountIn(log, "item.done", item, k)
    /\ item = "rs" => CountIn(log, "item.added", item, k) = 0
Over(log, k) == CountIn(log, "item.done", "rs", k) > 0
Stand(log, item, open) ==
    IF item \in open THEN IsOpen(log, item, Len(log)) ELSE IsShut(log, item, Len(log))
DeltasOK(log) == \A i \in 1..Len(log) : log[i].type = "delta" => IsOpen(log, log[i].item, i)
OpenIn(log, open) ==
    /\ log \in Seq(Events) /\ open \in SUBSET (Items \cup {"over"})
    /\ DeltasOK(log)
    /\ \A item \in Items : Stand(log, item, open)
    /\ "over" \in open => Over(log, Len(log))

\* An event adds an item that is not open, or is done with one that is, or is a delta
\* of one.
Allowed(open, type, item) ==
    /\ type = "delta" => item \in open \cap Items
    /\ type = "item.added" => item \in Items \ open
    /\ type = "item.done" => item \in open \cap Items
Opened(open, type, item) ==
    IF type = "item.added" THEN open \cup {item}
    ELSE IF type = "item.done" THEN IF item = "rs" THEN open \cup {"over"} ELSE open \ {item}
    ELSE open
LEMMA OpenAppend ==
    ASSUME NEW log, NEW open, OpenIn(log, open), NEW e \in Events, Allowed(open, e.type, e.item)
    PROVE  OpenIn(Append(log, e), Opened(open, e.type, e.item))
<1>0. /\ log \in Seq(Events) /\ open \subseteq Items \cup {"over"} /\ DeltasOK(log)
      /\ \A item \in Items : Stand(log, item, open)
      /\ "over" \in open => Over(log, Len(log))
  BY DEF OpenIn
<1>1. PICK m \in Nat : m = Len(log)
  BY <1>0
<1>2. PICK new \in Seq(Events) : new = Append(log, e)
  <2>1. Append(log, e) \in Seq(Events)
    BY <1>0, AppendProperties
  <2> QED
    BY <2>1, Zenon
<1>3. Len(new) = m + 1 /\ new[m + 1] = e /\ \A i \in 1..m : new[i] = log[i]
  BY <1>0, <1>1, <1>2, AppendProperties
<1>4. PICK next : next = Opened(open, e.type, e.item)
  OBVIOUS
<1>5. next \in SUBSET (Items \cup {"over"})
  BY <1>0, <1>4 DEF Opened, Allowed
<1>6. ASSUME NEW type, NEW item
      PROVE  /\ \A k \in 0..m : CountIn(new, type, item, k) = CountIn(log, type, item, k)
             /\ CountIn(new, type, item, m + 1) = CountIn(log, type, item, m) + Hit(e, type, item)
             /\ CountIn(log, type, item, m) \in Nat
  <2>1. Counted(log, new, e, type, item)
    BY <1>0, <1>2, CountAppend
  <2>2. CountIn(log, type, item, m) \in Nat
    BY CountType
  <2> QED
    BY <1>1, <2>1, <2>2, Zenon DEF Counted
<1>7. ASSUME NEW item \in Items PROVE Stand(new, item, next)
  <2>1. PICK a \in Nat, d \in Nat :
          a = CountIn(log, "item.added", item, m) /\ d = CountIn(log, "item.done", item, m)
    BY <1>6, Zenon
  <2>2. /\ CountIn(new, "item.added", item, m + 1) = a + Hit(e, "item.added", item)
        /\ CountIn(new, "item.done", item, m + 1) = d + Hit(e, "item.done", item)
    BY <1>6, <2>1, Zenon
  <2>3. IF item \in open THEN a = IF item = "rs" THEN 1 ELSE d + 1
        ELSE a = d /\ (item = "rs" => a = 0)
    BY <1>0, <1>1, <2>1, Zenon DEF Stand, IsOpen, IsShut
  <2>4. item # "over"
    BY DEF Items, ToolIndex
  <2>5. IF item \in next
        THEN a + Hit(e, "item.added", item) = IF item = "rs" THEN 1 ELSE d + Hit(e, "item.done", item) + 1
        ELSE /\ a + Hit(e, "item.added", item) = d + Hit(e, "item.done", item)
             /\ item = "rs" => a + Hit(e, "item.added", item) = 0
    BY <1>4, <2>3, <2>4 DEF Opened, Allowed, Hit
  <2> QED
    BY <1>3, <2>2, <2>5, Zenon DEF Stand, IsOpen, IsShut
<1>8. ASSUME NEW i \in 1..(m + 1), new[i].type = "delta" PROVE IsOpen(new, new[i].item, i)
  <2>1. CASE i \in 1..m
    <3>1. IsOpen(log, log[i].item, i) /\ new[i] = log[i]
      BY <1>0, <1>1, <1>3, <1>8, <2>1 DEF DeltasOK
    <3>2. i \in 0..m
      BY <2>1
    <3> QED
      BY <1>6, <3>1, <3>2, Zenon DEF IsOpen
  <2>2. CASE i = m + 1
    <3>1. e.type = "delta" /\ new[i] = e
      BY <1>3, <1>8, <2>2
    <3>2. e.item \in open /\ next = open
      BY <1>4, <3>1 DEF Allowed, Opened
    <3>3. e.item \in Items
      BY <3>1 DEF Allowed
    <3>4. Stand(new, e.item, next)
      BY <1>7, <3>3
    <3> QED
      BY <1>3, <2>2, <3>1, <3>2, <3>4, Zenon DEF Stand
  <2> QED
    BY <2>1, <2>2
<1>9. DeltasOK(new)
  BY <1>3, <1>8, Zenon DEF DeltasOK
<1>10. ASSUME "over" \in next PROVE Over(new, m + 1)
  <2>1. PICK d \in Nat : d = CountIn(log, "item.done", "rs", m)
    BY <1>6, Zenon
  <2>2. CountIn(new, "item.done", "rs", m + 1) = d + Hit(e, "item.done", "rs")
    BY <1>6, <2>1, Zenon
  <2>3. "over" \in open => d > 0
    BY <1>0, <1>1, <2>1 DEF Over
  <2>4. "over" \in open \/ Hit(e, "item.done", "rs") = 1
    <3>1. "over" \notin Items
      BY DEF Items, ToolIndex
    <3> QED
      BY <1>4, <1>10, <3>1 DEF Opened, Allowed, Hit
  <2>5. d + Hit(e, "item.done", "rs") > 0
    BY <2>3, <2>4 DEF Hit
  <2> QED
    BY <2>2, <2>5 DEF Over
<1> QED
  BY <1>2, <1>3, <1>4, <1>5, <1>7, <1>9, <1>10, Zenon DEF OpenIn

\* What a state shows of the content: nothing was said yet, there was reasoning, a
\* message with its text part is open, the reasoning and the text; and the tool calls.
Shows(st, first, think, part, reasoning, text, tools) ==
    /\ st.first_content = first /\ st.think_detected = think
    /\ st.text_part_started = part /\ st.message_started = part
    /\ st.reasoning_text = reasoning /\ st.accumulated_text = text
    /\ st.tool_states = tools
Same(st, s) ==
    /\ s.first_content = st.first_content /\ s.think_detected = st.think_detected
    /\ s.text_part_started = st.text_part_started /\ s.message_started = st.message_started
    /\ s.reasoning_text = st.reasoning_text /\ s.accumulated_text = st.accumulated_text
    /\ s.tool_states = st.tool_states
Level(st, open) == st \in States /\ out \in Seq(Events) /\ OpenIn(Log(st), open)

PartOpen(part, open) == part <=> "msg" \in open

LEMMA LevelKept ==
    ASSUME NEW st, NEW open, Level(st, open), NEW s \in States, s.events = st.events
    PROVE  Level(s, open)
<1>1. Log(s) = Log(st)
  BY DEF Log
<1> QED
  BY <1>1, Zenon DEF Level

LEMMA LevelEvent ==
    ASSUME NEW st, NEW open, Level(st, open), NEW type \in EventTypes, NEW item \in Names,
           NEW index \in Int, NEW data \in Seq(Pieces) \cup SUBSET Items,
           type = "delta" => data \in Seq(Pieces), Allowed(open, type, item)
    PROVE  /\ Level(stream_event(st, type, item, index, data), Opened(open, type, item))
           /\ Same(st, stream_event(st, type, item, index, data))
<1>1. PICK s : s = stream_event(st, type, item, index, data)
  OBVIOUS
<1>2. st \in States /\ out \in Seq(Events) /\ OpenIn(Log(st), open)
  BY DEF Level
<1>3. Emitted(st, s, type, item, data)
  BY <1>1, <1>2, EventFields
<1>4. PICK e \in Events : e.type = type /\ e.item = item /\ s.events = Append(st.events, e)
  BY <1>3, Zenon DEF Emitted
<1>5. PICK evs \in Seq(Events) : evs = st.events
  BY <1>2 DEF States
<1>6. PICK log \in Seq(Events) : log = Log(st)
  BY <1>2, Zenon DEF OpenIn
<1>7. Log(s) = Append(log, e)
  <2>1. <<e>> \in Seq(Events) /\ Append(evs, e) = evs \o <<e>> /\ Append(log, e) = log \o <<e>>
    BY AppendIsConcat
  <2>2. out \o (evs \o <<e>>) = (out \o evs) \o <<e>>
    BY <1>2, <2>1, ConcatAssociative
  <2> QED
    BY <1>4, <1>5, <1>6, <2>1, <2>2, Zenon DEF Log
<1>8. OpenIn(Append(log, e), Opened(open, e.type, e.item))
  BY <1>2, <1>4, <1>6, OpenAppend
<1>9. Level(s, Opened(open, type, item))
  BY <1>2, <1>3, <1>4, <1>7, <1>8, Zenon DEF Level, Emitted
<1>10. Same(st, s)
  <2>1. st = [seq |-> st.seq, output_index |-> st.output_index, next_output_index |-> st.next_output_index,
              first_content |-> st.first_content, think_detected |-> st.think_detected,
              reasoning_text |-> st.reasoning_text, accumulated_text |-> st.accumulated_text,
              message_started |-> st.message_started, text_part_started |-> st.text_part_started,
              response_created |-> st.response_created, status |-> st.status,
              tool_states |-> st.tool_states, events |-> st.events]
    BY <1>2 DEF States
  <2>2. PICK seq, events : s = [st EXCEPT !.seq = seq, !.events = events]
    BY <1>1 DEF stream_event
  <2> QED
    BY <2>1, <2>2 DEF Same
<1> QED
  BY <1>1, <1>9, <1>10, Zenon

\* A step without items: opening and closing of parts, the response's own events.
LEMMA LevelAside ==
    ASSUME NEW st, NEW open, Level(st, open), NEW item \in Names, NEW index \in Int,
           NEW type \in EventTypes \ {"delta", "item.added", "item.done"},
           NEW data \in Seq(Pieces) \cup SUBSET Items
    PROVE  /\ Level(stream_event(st, type, item, index, data), open)
           /\ Same(st, stream_event(st, type, item, index, data))
<1>1. Allowed(open, type, item) /\ Opened(open, type, item) = open
  BY DEF Allowed, Opened
<1> QED
  BY <1>1, LevelEvent

LEMMA LevelAdd ==
    ASSUME NEW st, NEW open, Level(st, open), NEW item \in Items, item \notin open, NEW index \in Int,
           NEW data \in Seq(Pieces)
    PROVE  /\ Level(stream_event(st, "item.added", item, index, data), open \cup {item})
           /\ Same(st, stream_event(st, "item.added", item, index, data))
<1>1. /\ Allowed(open, "item.added", item) /\ Opened(open, "item.added", item) = open \cup {item}
      /\ item \in Names /\ "item.added" \in EventTypes
  BY DEF Allowed, Opened, Names, EventTypes
<1>2. /\ Level(stream_event(st, "item.added", item, index, data), Opened(open, "item.added", item))
      /\ Same(st, stream_event(st, "item.added", item, index, data))
  BY <1>1, LevelEvent
<1> QED
  BY <1>1, <1>2, Zenon

LEMMA LevelDone ==
    ASSUME NEW st, NEW open, Level(st, open), NEW item \in Items \ {"rs"}, item \in open, NEW index \in Int,
           NEW data \in Seq(Pieces)
    PROVE  /\ Level(stream_event(st, "item.done", item, index, data), open \ {item})
           /\ Same(st, stream_event(st, "item.done", item, index, data))
<1>1. /\ Allowed(open, "item.done", item) /\ Opened(open, "item.done", item) = open \ {item}
      /\ item \in Names /\ "item.done" \in EventTypes
  BY DEF Allowed, Opened, Names, EventTypes, Dones, Level, OpenIn
<1>2. /\ Level(stream_event(st, "item.done", item, index, data), Opened(open, "item.done", item))
      /\ Same(st, stream_event(st, "item.done", item, index, data))
  BY <1>1, LevelEvent
<1> QED
  BY <1>1, <1>2, Zenon

LEMMA LevelOver ==
    ASSUME NEW st, NEW open, Level(st, open), "rs" \in open, NEW index \in Int,
           NEW data \in Seq(Pieces)
    PROVE  /\ Level(stream_event(st, "item.done", "rs", index, data), open \cup {"over"})
           /\ Same(st, stream_event(st, "item.done", "rs", index, data))
<1>1. /\ Allowed(open, "item.done", "rs") /\ Opened(open, "item.done", "rs") = open \cup {"over"}
      /\ "rs" \in Names /\ "item.done" \in EventTypes
  BY DEF Allowed, Opened, Names, EventTypes, Dones, Items
<1>2. /\ Level(stream_event(st, "item.done", "rs", index, data), Opened(open, "item.done", "rs"))
      /\ Same(st, stream_event(st, "item.done", "rs", index, data))
  BY <1>1, LevelEvent
<1> QED
  BY <1>1, <1>2, Zenon

LEMMA LevelDelta ==
    ASSUME NEW st, NEW open, Level(st, open), NEW item \in Items, item \in open, NEW index \in Int,
           NEW data \in Seq(Pieces)
    PROVE  /\ Level(stream_event(st, "delta", item, index, data), open)
           /\ Same(st, stream_event(st, "delta", item, index, data))
<1>1. /\ Allowed(open, "delta", item) /\ Opened(open, "delta", item) = open
      /\ item \in Names /\ "delta" \in EventTypes
  BY DEF Allowed, Opened, Names, EventTypes, Level, OpenIn
<1>2. /\ Level(stream_event(st, "delta", item, index, data), Opened(open, "delta", item))
      /\ Same(st, stream_event(st, "delta", item, index, data))
  BY <1>1, LevelEvent
<1> QED
  BY <1>1, <1>2, Zenon

LEMMA ShowsKept ==
    ASSUME NEW st, NEW s, Same(st, s), NEW first, NEW think, NEW part, NEW reasoning, NEW text, NEW tools,
           Shows(st, first, think, part, reasoning, text, tools)
    PROVE  Shows(s, first, think, part, reasoning, text, tools)
<1> QED
  BY Zenon DEF Same, Shows

Asides == EventTypes \ {"delta", "item.added", "item.done"}
LEMMA AsidesHold ==
    /\ "text.done" \in Asides /\ "part.done" \in Asides /\ "part.added" \in Asides
    /\ "response.created" \in Asides /\ "response.completed" \in Asides
    /\ "rs" \in Names /\ "msg" \in Names /\ "nil" \in Names /\ ToolIndex \subseteq Names
<1> QED
  BY DEF Asides, Names, Items, EventTypes, Dones

LEMMA ReasoningOutLevel ==
    ASSUME NEW st, NEW open, Level(st, open), "rs" \in open, NEW index \in Int, NEW data \in Seq(Pieces),
           NEW first, NEW think, NEW part, NEW reasoning, NEW text, NEW tools,
           Shows(st, first, think, part, reasoning, text, tools)
    PROVE  /\ Level(reasoning_out(st, index, data), open)
           /\ Shows(reasoning_out(st, index, data), first, think, part, reasoning \o data, text, tools)
<1>0. st \in States /\ st.reasoning_text \in Seq(Pieces)
  BY DEF Level, States
<1>1. PICK all \in Seq(Pieces) : all = st.reasoning_text \o data
  BY <1>0, ConcatProperties
<1>2. PICK mid : mid = [st EXCEPT !.reasoning_text = all]
  OBVIOUS
<1>3. mid \in States /\ mid.events = st.events /\ Shows(mid, first, think, part, all, text, tools)
  BY <1>0, <1>2 DEF States, Shows
<1>4. Level(mid, open)
  BY <1>3, LevelKept
<1>5. PICK s : s = stream_event(mid, "delta", "rs", index, data)
  OBVIOUS
<1>6. Level(s, open) /\ Same(mid, s)
  BY <1>4, <1>5, LevelDelta DEF Items
<1>7. reasoning_out(st, index, data) = s
  BY <1>1, <1>2, <1>5 DEF reasoning_out
<1>8. all = reasoning \o data
  BY <1>1, Zenon DEF Shows
<1> QED
  BY <1>3, <1>6, <1>7, <1>8, ShowsKept, Zenon

LEMMA ReasoningCloseLevel ==
    ASSUME NEW st, NEW open, Level(st, open), "rs" \in open,
           NEW first, NEW think, NEW part, NEW reasoning, NEW text, NEW tools,
           Shows(st, first, think, part, reasoning, text, tools)
    PROVE  /\ Level(reasoning_close(st), open \cup {"over"})
           /\ Shows(reasoning_close(st), first, think, part, reasoning, text, tools)
<1>1. PICK data \in Seq(Pieces) : data = st.reasoning_text
  BY DEF Level, States
<1>2. PICK s : s = stream_event(st, "text.done", "rs", 0, data)
  OBVIOUS
<1>3. Level(s, open) /\ Same(st, s)
  <2>1. 0 \in Int /\ "text.done" \in EventTypes \ {"delta", "item.added", "item.done"} /\ "rs" \in Names
    BY AsidesHold DEF Asides
  <2>2. data \in Seq(Pieces) \cup SUBSET Items
    OBVIOUS
  <2> QED
    BY <1>2, <2>1, <2>2, LevelAside, Zenon
<1>4. PICK u : u = stream_event(s, "item.done", "rs", 0, data)
  OBVIOUS
<1>5. Level(u, open \cup {"over"}) /\ Same(s, u)
  <2>1. 0 \in Int
    OBVIOUS
  <2> QED
    BY <1>3, <1>4, <2>1, LevelOver, Zenon
<1>6. reasoning_close(st) = u
  BY <1>1, <1>2, <1>4 DEF reasoning_close
<1> QED
  BY <1>3, <1>5, <1>6, ShowsKept, Zenon

LEMMA MessageCloseLevel ==
    ASSUME NEW st, NEW open, Level(st, open), "msg" \in open,
           NEW first, NEW think, NEW part, NEW reasoning, NEW text, NEW tools,
           Shows(st, first, think, part, reasoning, text, tools)
    PROVE  /\ Level(message_close(st), open \ {"msg"})
           /\ Shows(message_close(st), first, think, part, reasoning, text, tools)
<1> DEFINE Ev(s, type) == stream_event(s, type, "msg", s.output_index, s.accumulated_text)
<1>1. ASSUME NEW s, Level(s, open)
      PROVE  s.output_index \in Int /\ s.accumulated_text \in Seq(Pieces)
  BY <1>1 DEF Level, States
<1>2. ASSUME NEW s, Level(s, open), NEW type \in Asides PROVE Level(Ev(s, type), open) /\ Same(s, Ev(s, type))
  <2>1. PICK index \in Int, data \in Seq(Pieces) : index = s.output_index /\ data = s.accumulated_text
    BY <1>1, <1>2
  <2>2. /\ Level(stream_event(s, type, "msg", index, data), open)
        /\ Same(s, stream_event(s, type, "msg", index, data))
    BY <1>2, AsidesHold, LevelAside DEF Asides
  <2> QED
    BY <2>1, <2>2
<1>3. PICK s1 : s1 = Ev(st, "text.done")
  OBVIOUS
<1>4. PICK s2 : s2 = Ev(s1, "part.done")
  OBVIOUS
<1>5. PICK s3 : s3 = Ev(s2, "item.done")
  OBVIOUS
<1>6. message_close(st) = s3
  BY <1>3, <1>4, <1>5 DEF message_close
<1> HIDE DEF Ev
<1>7. Level(s1, open) /\ Same(st, s1)
  BY <1>2, <1>3, AsidesHold
<1>8. Level(s2, open) /\ Same(s1, s2)
  BY <1>2, <1>4, <1>7, AsidesHold
<1>9. Level(s3, open \ {"msg"}) /\ Same(s2, s3)
  <2>1. "msg" \in Items \ {"rs"}
    BY DEF Items
  <2> QED
    BY <1>1, <1>5, <1>8, <2>1, LevelDone, Zenon DEF Ev
<1>10. Shows(s1, first, think, part, reasoning, text, tools)
  BY <1>7, ShowsKept
<1>11. Shows(s2, first, think, part, reasoning, text, tools)
  BY <1>8, <1>10, ShowsKept
<1> QED
  BY <1>6, <1>9, <1>11, ShowsKept, Zenon

\* Some text of the message, which is opened for it if need be.
LEMMA TextOutLevel ==
    ASSUME NEW st, NEW open, Level(st, open), NEW data \in Seq(Pieces),
           NEW first, NEW think, NEW part, NEW reasoning, NEW text, NEW tools,
           Shows(st, first, think, part, reasoning, text, tools), PartOpen(part, open)
    PROVE  /\ Level(text_out(st, data), open \cup {"msg"})
           /\ Shows(text_out(st, data), first, think, TRUE, reasoning, text \o data, tools)
<1>0. st \in States /\ st.message_started = part /\ st.text_part_started = part
  BY DEF Level, OpenIn, Shows
<1>1. PICK more : more = open \cup {"msg"}
  OBVIOUS
<1>2. PICK u : u = ensure_text_part_started(st)
  OBVIOUS
<1>3. Level(u, more) /\ Shows(u, first, think, TRUE, reasoning, text, tools)
  <2>1. CASE part
    <3>1. u = st
      BY <1>0, <1>2, <2>1 DEF ensure_text_part_started, ensure_message_started
    <3>2. more = open
      BY <1>1, <2>1 DEF PartOpen
    <3>3. Shows(st, first, think, TRUE, reasoning, text, tools)
      <4>1. part = TRUE
        BY <1>0, <2>1 DEF States
      <4> QED
        BY <4>1, Zenon
    <3> QED
      BY <3>1, <3>2, <3>3, Zenon
  <2>2. CASE ~part
    <3>1. PICK m1 : m1 = [st EXCEPT !.message_started = TRUE]
      OBVIOUS
    <3>2. /\ m1 \in States /\ m1.events = st.events /\ m1.first_content = first
          /\ m1.think_detected = think /\ m1.message_started = TRUE /\ m1.text_part_started = part
          /\ m1.reasoning_text = reasoning /\ m1.accumulated_text = text /\ m1.tool_states = tools
          /\ m1.output_index = st.output_index
      BY <1>0, <3>1 DEF States, Shows
    <3>3. Level(m1, open)
      BY <3>2, LevelKept
    <3>4. PICK index \in Int : index = st.output_index
      BY <1>0 DEF States
    <3>5. PICK m2 : m2 = stream_event(m1, "item.added", "msg", index, <<>>)
      OBVIOUS
    <3>6. Level(m2, more) /\ Same(m1, m2)
      <4>1. "msg" \in Items /\ "msg" \notin open
        BY <2>2 DEF Items, PartOpen
      <4> QED
        BY <1>1, <3>3, <3>5, <4>1, Empty, LevelAdd, Zenon
    <3>7. ensure_message_started(st) = m2
      BY <1>0, <2>2, <3>1, <3>4, <3>5 DEF ensure_message_started
    <3>8. PICK index2 \in Int : index2 = m2.output_index
      BY <3>6 DEF Level, States
    <3>9. PICK m3 : m3 = [m2 EXCEPT !.text_part_started = TRUE]
      OBVIOUS
    <3>10. m2 \in States
      BY <3>6 DEF Level
    <3>11. m3 \in States /\ m3.events = m2.events /\ Shows(m3, first, think, TRUE, reasoning, text, tools)
      BY <3>2, <3>6, <3>9, <3>10 DEF States, Shows, Same
    <3>12. Level(m3, more)
      BY <3>6, <3>11, LevelKept
    <3>13. PICK m4 : m4 = stream_event(m3, "part.added", "msg", index2, <<>>)
      OBVIOUS
    <3>14. Level(m4, more) /\ Same(m3, m4)
      <4>1. /\ "part.added" \in EventTypes \ {"delta", "item.added", "item.done"} /\ "msg" \in Names
            /\ <<>> \in Seq(Pieces) \cup SUBSET Items
        BY AsidesHold, Empty DEF Asides
      <4> QED
        BY <3>12, <3>13, <4>1, LevelAside, Zenon
    <3>15. u = m4
      <4>1. ~m2.text_part_started
        BY <2>2, <3>2, <3>6 DEF Same
      <4> QED
        BY <1>2, <3>7, <3>8, <3>9, <3>13, <4>1 DEF ensure_text_part_started
    <3> QED
      BY <3>11, <3>14, <3>15, ShowsKept, Zenon
  <2> QED
    BY <2>1, <2>2
<1>4. u \in States /\ u.accumulated_text \in Seq(Pieces)
  BY <1>3 DEF Level, States
<1>5. PICK all \in Seq(Pieces) : all = u.accumulated_text \o data
  BY <1>4, ConcatProperties
<1>6. PICK mid : mid = [u EXCEPT !.accumulated_text = all]
  OBVIOUS
<1>7. mid \in States /\ mid.events = u.events /\ Shows(mid, first, think, TRUE, reasoning, all, tools)
  BY <1>3, <1>4, <1>6 DEF States, Shows
<1>8. Level(mid, more)
  BY <1>3, <1>7, LevelKept
<1>9. PICK index \in Int : index = u.output_index
  BY <1>4 DEF States
<1>10. PICK s : s = stream_event(mid, "delta", "msg", index, data)
  OBVIOUS
<1>11. Level(s, more) /\ Same(mid, s)
  <2>1. "msg" \in more /\ "msg" \in Items
    BY <1>1 DEF Items
  <2> QED
    BY <1>8, <1>10, <2>1, LevelDelta
<1>12. text_out(st, data) = s
  BY <1>2, <1>5, <1>6, <1>9, <1>10 DEF text_out
<1>13. all = text \o data
  BY <1>3, <1>5, Zenon DEF Shows
<1> QED
  BY <1>1, <1>7, <1>11, <1>12, <1>13, ShowsKept, Zenon

LEMMA NoPieces ==
    ASSUME NEW c \in Contents, NEW k \in Nat
    PROVE  /\ ~c.x => X(k, c) = <<>>
           /\ ~c.close => Y(k, c) = <<>>
           /\ ~c.x /\ ~c.close => X(k, c) \o Y(k, c) = <<>>
<1>1. ~c.x => X(k, c) = <<>>
  BY DEF X, Piece
<1>2. ~c.close => Y(k, c) = <<>>
  BY ChunksAssumption DEF Y, Piece
<1> QED
  BY <1>1, <1>2, Empty, Zenon

LEMMA FirstDeltaLevel ==
    ASSUME NEW st, NEW open, Level(st, open), "rs" \notin open, "msg" \notin open,
           NEW reasoning, NEW text, NEW tools, Shows(st, TRUE, FALSE, FALSE, reasoning, text, tools),
           NEW c \in Contents, n \in Nat
    PROVE  LET s  == first_delta(st, c)
               xy == X(n + 1, c) \o Y(n + 1, c)
           IN  /\ c.tag = "full" => /\ Level(s, open \cup {"rs"})
                                    /\ Shows(s, FALSE, TRUE, FALSE, reasoning \o xy, text, tools)
               /\ c.tag # "full" => /\ Level(s, open \cup {"msg"})
                                    /\ Shows(s, FALSE, FALSE, TRUE, reasoning, text \o xy, tools)
<1>0. st \in States /\ reasoning \in Seq(Pieces) /\ n + 1 \in Nat
  BY DEF Level, Shows, States
<1>1. PICK xy \in Seq(Pieces) : xy = X(n + 1, c) \o Y(n + 1, c)
  BY <1>0, PiecesType
<1>2. PICK s0 : s0 = [st EXCEPT !.first_content = FALSE]
  OBVIOUS
<1>3. /\ s0 \in States /\ s0.events = st.events /\ Shows(s0, FALSE, FALSE, FALSE, reasoning, text, tools)
      /\ s0.output_index \in Int /\ s0.next_output_index \in Int
  BY <1>0, <1>2 DEF States, Shows
<1>4. PICK s : s = first_delta(st, c)
  OBVIOUS
<1>5. ASSUME c.tag = "full"
      PROVE  Level(s, open \cup {"rs"}) /\ Shows(s, FALSE, TRUE, FALSE, reasoning \o xy, text, tools)
  <2>1. PICK m1 : m1 = [s0 EXCEPT !.think_detected = TRUE]
    OBVIOUS
  <2>2. m1 \in States /\ m1.events = st.events /\ Shows(m1, FALSE, TRUE, FALSE, reasoning, text, tools)
    BY <1>3, <2>1 DEF States, Shows
  <2>3. Level(m1, open)
    BY <2>2, LevelKept
  <2>4. PICK index \in Int : index = s0.output_index
    BY <1>3
  <2>5. PICK m2 : m2 = stream_event(m1, "item.added", "rs", index, <<>>)
    OBVIOUS
  <2>6. PICK more : more = open \cup {"rs"}
    OBVIOUS
  <2>7. Level(m2, more) /\ Same(m1, m2)
    <3>1. "rs" \in Items
      BY DEF Items
    <3> QED
      BY <2>3, <2>5, <2>6, <3>1, Empty, LevelAdd, Zenon
  <2>8. m2 \in States /\ m2.next_output_index \in Int
    BY <2>7 DEF Level, States
  <2>9. PICK next \in Int : next = m2.next_output_index + 1
    BY <2>8
  <2>10. PICK m3 : m3 = [m2 EXCEPT !.next_output_index = next]
    OBVIOUS
  <2>11. Shows(m2, FALSE, TRUE, FALSE, reasoning, text, tools)
    BY <2>2, <2>7, ShowsKept
  <2>12. m3 \in States /\ m3.events = m2.events /\ Shows(m3, FALSE, TRUE, FALSE, reasoning, text, tools)
    BY <2>8, <2>10, <2>11 DEF States, Shows
  <2>13. Level(m3, more)
    BY <2>7, <2>12, LevelKept
  <2>14. PICK index2 \in Int : index2 = m3.output_index
    BY <2>12 DEF States
  <2>15. PICK r : r = reasoning_out(m3, index2, xy)
    OBVIOUS
  <2>16. Level(r, more) /\ Shows(r, FALSE, TRUE, FALSE, reasoning \o xy, text, tools)
    <3>1. "rs" \in more
      BY <2>6
    <3> QED
      BY <2>12, <2>13, <2>15, <3>1, ReasoningOutLevel, Zenon
  <2>17. s = IF c.x \/ c.close THEN r ELSE m3
    BY <1>1, <1>2, <1>4, <1>5, <2>1, <2>4, <2>5, <2>9, <2>10, <2>14, <2>15 DEF first_delta
  <2>18. CASE c.x \/ c.close
    BY <2>6, <2>16, <2>17, <2>18
  <2>19. CASE ~(c.x \/ c.close)
    <3>1. xy = <<>>
      BY <1>0, <1>1, <2>19, NoPieces
    <3>2. Neutral(reasoning)
      BY <1>0, PiecesNeutral
    <3>3. reasoning \o xy = reasoning
      BY <3>1, <3>2, Zenon DEF Neutral
    <3>4. s = m3
      BY <2>17, <2>19
    <3> QED
      BY <2>6, <2>12, <2>13, <3>3, <3>4, Zenon
  <2> QED
    BY <2>18, <2>19
<1>6. ASSUME c.tag # "full"
      PROVE  Level(s, open \cup {"msg"}) /\ Shows(s, FALSE, FALSE, TRUE, reasoning, text \o xy, tools)
  <2>1. PICK index \in Int : index = s0.next_output_index - 1
    BY <1>3
  <2>2. PICK m1 : m1 = [s0 EXCEPT !.output_index = index]
    OBVIOUS
  <2>3. m1 \in States /\ m1.events = st.events /\ Shows(m1, FALSE, FALSE, FALSE, reasoning, text, tools)
    BY <1>3, <2>2 DEF States, Shows
  <2>4. Level(m1, open)
    BY <2>3, LevelKept
  <2>5. s = text_out(m1, xy)
    BY <1>1, <1>2, <1>4, <1>6, <2>1, <2>2 DEF first_delta
  <2> QED
    BY <2>3, <2>4, <2>5, TextOutLevel, Zenon DEF PartOpen
<1> QED
  BY <1>1, <1>4, <1>5, <1>6, Zenon

\* A delta of the reasoning; the answer may begin in one that closes it.
LEMMA ReasoningDeltaLevel ==
    ASSUME NEW st, NEW open, Level(st, open), "rs" \in open, "msg" \notin open,
           NEW first, NEW think, NEW reasoning, NEW text, NEW tools,
           Shows(st, first, think, FALSE, reasoning, text, tools),
           NEW c \in Contents, n \in Nat
    PROVE  LET s  == reasoning_delta(st, c)
           IN  /\ ~c.close => /\ Level(s, open)
                              /\ Shows(s, first, think, FALSE,
                                       reasoning \o (X(n + 1, c) \o Y(n + 1, c)), text, tools)
               /\ c.close /\ ~c.y => /\ Level(s, open \cup {"over"})
                                     /\ Shows(s, first, think, FALSE, reasoning \o X(n + 1, c), text, tools)
               /\ c.close /\ c.y => /\ Level(s, (open \cup {"over"}) \cup {"msg"})
                                    /\ Shows(s, first, think, TRUE,
                                             reasoning \o X(n + 1, c), text \o Y(n + 1, c), tools)
<1>0. st \in States /\ reasoning \in Seq(Pieces) /\ n + 1 \in Nat
  BY DEF Level, Shows, States
<1>1. PICK x \in Seq(Pieces), y \in Seq(Pieces), xy \in Seq(Pieces) :
        x = X(n + 1, c) /\ y = Y(n + 1, c) /\ xy = x \o y
  BY <1>0, PiecesType
<1>2. PICK s : s = reasoning_delta(st, c)
  OBVIOUS
<1>3. ASSUME ~c.close
      PROVE  Level(s, open) /\ Shows(s, first, think, FALSE, reasoning \o xy, text, tools)
  <2>1. s = reasoning_out(st, 0, xy)
    BY <1>1, <1>2, <1>3 DEF reasoning_delta
  <2>2. 0 \in Int
    OBVIOUS
  <2> QED
    BY <2>1, <2>2, ReasoningOutLevel, Zenon
<1>4. ASSUME c.close
      PROVE  /\ ~c.y => /\ Level(s, open \cup {"over"})
                        /\ Shows(s, first, think, FALSE, reasoning \o x, text, tools)
             /\ c.y => /\ Level(s, (open \cup {"over"}) \cup {"msg"})
                       /\ Shows(s, first, think, TRUE, reasoning \o x, text \o y, tools)
  <2>1. PICK before : before = IF c.tag # "none" \/ c.x THEN reasoning_out(st, 0, x) ELSE st
    OBVIOUS
  <2>2. Level(before, open) /\ Shows(before, first, think, FALSE, reasoning \o x, text, tools)
    <3>1. CASE c.tag # "none" \/ c.x
      <4>1. before = reasoning_out(st, 0, x) /\ 0 \in Int
        BY <2>1, <3>1
      <4> QED
        BY <4>1, ReasoningOutLevel, Zenon
    <3>2. CASE ~(c.tag # "none" \/ c.x)
      <4>1. x = <<>> /\ before = st
        BY <1>0, <1>1, <2>1, <3>2, NoPieces
      <4>2. Neutral(reasoning)
        BY <1>0, PiecesNeutral
      <4>3. reasoning \o x = reasoning
        BY <4>1, <4>2, Zenon DEF Neutral
      <4> QED
        BY <4>1, <4>3, Zenon
    <3> QED
      BY <3>1, <3>2
  <2>3. PICK r : r = reasoning_close(before)
    OBVIOUS
  <2>4. Level(r, open \cup {"over"}) /\ Shows(r, first, think, FALSE, reasoning \o x, text, tools)
    BY <2>2, <2>3, ReasoningCloseLevel, Zenon
  <2>5. PICK more : more = open \cup {"over"} /\ "msg" \notin more
    <3>1. "msg" \notin open \cup {"over"}
      OBVIOUS
    <3> QED
      BY <3>1, Zenon
  <2>6. r \in States /\ r.next_output_index \in Int /\ before \in States /\ before.next_output_index \in Int
    BY <2>2, <2>4 DEF Level, States
  <2>7. PICK index \in Int, next \in Int : index = before.next_output_index /\ next = r.next_output_index + 1
    BY <2>6
  <2>8. PICK closed : closed = [r EXCEPT !.output_index = index, !.next_output_index = next]
    OBVIOUS
  <2>9. closed \in States /\ closed.events = r.events /\ Shows(closed, first, think, FALSE, reasoning \o x, text, tools)
    BY <2>4, <2>6, <2>8 DEF States, Shows
  <2>10. Level(closed, more)
    BY <2>4, <2>5, <2>9, LevelKept, Zenon
  <2>11. s = IF c.y THEN text_out(closed, y) ELSE closed
    BY <1>1, <1>2, <1>4, <2>1, <2>3, <2>7, <2>8 DEF reasoning_delta
  <2>12. /\ Level(text_out(closed, y), more \cup {"msg"})
         /\ Shows(text_out(closed, y), first, think, TRUE, reasoning \o x, text \o y, tools)
    BY <2>5, <2>9, <2>10, TextOutLevel, Zenon DEF PartOpen
  <2> QED
    BY <2>5, <2>9, <2>10, <2>11, <2>12, Zenon
<1> QED
  BY <1>1, <1>2, <1>3, <1>4, Zenon

LEMMA TextDeltaLevel ==
    ASSUME NEW st, NEW open, Level(st, open), NEW first, NEW think, NEW part, NEW reasoning, NEW text,
           NEW tools, Shows(st, first, think, part, reasoning, text, tools), PartOpen(part, open),
           NEW c \in Contents, n \in Nat
    PROVE  LET s == text_delta(st, c)
           IN  /\ Level(s, open \cup {"msg"})
               /\ Shows(s, first, think, TRUE, reasoning, text \o (X(n + 1, c) \o Y(n + 1, c)), tools)
<1>0. st \in States /\ n + 1 \in Nat
  BY DEF Level
<1>1. PICK xy \in Seq(Pieces) : xy = X(n + 1, c) \o Y(n + 1, c)
  BY <1>0, PiecesType
<1>2. PICK index \in Int : index = st.next_output_index - 1
  BY <1>0 DEF States
<1>3. PICK mid : mid = [st EXCEPT !.output_index = index]
  OBVIOUS
<1>4. mid \in States /\ mid.events = st.events /\ Shows(mid, first, think, part, reasoning, text, tools)
  BY <1>0, <1>3 DEF States, Shows
<1>5. Level(mid, open)
  BY <1>4, LevelKept
<1>6. text_delta(st, c) = text_out(st, xy) \/ text_delta(st, c) = text_out(mid, xy)
  BY <1>1, <1>2, <1>3, Zenon DEF text_delta
<1>7. /\ Level(text_out(st, xy), open \cup {"msg"}) /\ Level(text_out(mid, xy), open \cup {"msg"})
      /\ Shows(text_out(st, xy), first, think, TRUE, reasoning, text \o xy, tools)
      /\ Shows(text_out(mid, xy), first, think, TRUE, reasoning, text \o xy, tools)
  <2>1. /\ Level(text_out(st, xy), open \cup {"msg"})
        /\ Shows(text_out(st, xy), first, think, TRUE, reasoning, text \o xy, tools)
    BY TextOutLevel, Zenon
  <2>2. /\ Level(text_out(mid, xy), open \cup {"msg"})
        /\ Shows(text_out(mid, xy), first, think, TRUE, reasoning, text \o xy, tools)
    BY <1>4, <1>5, TextOutLevel, Zenon
  <2> QED
    BY <2>1, <2>2
<1> QED
  BY <1>1, <1>6, <1>7, Zenon

---------------------------------------------------------------------------
(* The tool calls and the open items                                       *)

\* The items of the set open are open: the message if its text part is, the calls
\* that have started, perhaps the reasoning.
Stands(st, open) ==
    /\ Level(st, open)
    /\ st.message_started = st.text_part_started
    /\ st.text_part_started <=> "msg" \in open
    /\ \A i \in ToolIndex : st.tool_states[i].started <=> i \in open
\* A step that says nothing.
Silent(st, s) ==
    /\ s.first_content = st.first_content /\ s.think_detected = st.think_detected
    /\ s.reasoning_text = st.reasoning_text /\ s.accumulated_text = st.accumulated_text
Flags(st, s) ==
    /\ Silent(st, s)
    /\ s.text_part_started = st.text_part_started /\ s.message_started = st.message_started

LEMMA PlacedFlags ==
    ASSUME NEW st \in States, NEW i, NEW r
    PROVE  Flags(st, Placed(st, i, r))
<1>1. PICK new : Placed(st, i, r) = [st EXCEPT !.tool_states = new]
  BY DEF Placed
<1> QED
  BY <1>1 DEF States, Flags, Silent
LEMMA FirstSeenFlags ==
    ASSUME NEW st \in States, NEW i
    PROVE  Flags(st, FirstSeen(st, i))
<1>1. CASE st.tool_states[i].seen
  <2>1. FirstSeen(st, i) = st
    BY <1>1 DEF FirstSeen
  <2> QED
    BY <2>1 DEF Flags, Silent
<1>2. CASE ~st.tool_states[i].seen
  <2>1. PICK new, next : FirstSeen(st, i) = [st EXCEPT !.tool_states = new, !.next_output_index = next]
    BY <1>2 DEF FirstSeen
  <2> QED
    BY <2>1 DEF States, Flags, Silent
<1> QED
  BY <1>1, <1>2

LEMMA CloseForToolLevel ==
    ASSUME NEW st, NEW open, Level(st, open), NEW first, NEW think, NEW part, NEW reasoning, NEW text,
           NEW tools, Shows(st, first, think, part, reasoning, text, tools), PartOpen(part, open)
    PROVE  /\ Level(close_for_tool(st), open \ {"msg"})
           /\ Shows(close_for_tool(st), first, think, FALSE, reasoning, text, tools)
<1>0. st.text_part_started = part /\ st.text_part_started \in BOOLEAN
  BY DEF Shows, Level, States
<1>1. CASE ~part
  <2>1. close_for_tool(st) = st /\ open \ {"msg"} = open /\ part = FALSE
    BY <1>0, <1>1 DEF close_for_tool, PartOpen
  <2> QED
    BY <2>1, Zenon
<1>2. CASE part
  <2>1. PICK s : s = message_close(st)
    OBVIOUS
  <2>2. Level(s, open \ {"msg"}) /\ Shows(s, first, think, part, reasoning, text, tools)
    BY <1>2, <2>1, MessageCloseLevel, Zenon DEF PartOpen
  <2>3. PICK u : u = [s EXCEPT !.text_part_started = FALSE, !.message_started = FALSE]
    OBVIOUS
  <2>4. s \in States
    BY <2>2 DEF Level
  <2>5. u \in States /\ u.events = s.events /\ Shows(u, first, think, FALSE, reasoning, text, tools)
    BY <2>2, <2>3, <2>4 DEF States, Shows
  <2>6. Level(u, open \ {"msg"})
    BY <2>2, <2>5, LevelKept, Zenon
  <2>7. close_for_tool(st) = u
    BY <1>0, <1>2, <2>1, <2>3 DEF close_for_tool
  <2> QED
    BY <2>5, <2>6, <2>7, Zenon
<1> QED
  BY <1>1, <1>2

\* A call that is noted but not told.
LEMMA PlacedLevel ==
    ASSUME NEW st0, NEW open, Level(st0, open), NEW i \in ToolIndex, NEW r,
           Entered(st0, FirstSeen(st0, i), i, r), NEW ts \in ToolStates
    PROVE  /\ Level(Placed(FirstSeen(st0, i), i, ts), open)
           /\ Flags(st0, Placed(FirstSeen(st0, i), i, ts))
           /\ Placed(FirstSeen(st0, i), i, ts).tool_states[i] = ts
           /\ \A j \in ToolIndex \ {i} : Placed(FirstSeen(st0, i), i, ts).tool_states[j] = st0.tool_states[j]
<1>1. PICK st : st = FirstSeen(st0, i)
  OBVIOUS
<1>2. PICK s : s = Placed(st, i, ts)
  OBVIOUS
<1>3. Put(st0, st, i, r) /\ st \in States /\ st0 \in States
  BY <1>1 DEF Entered, Put, Level
<1>4. Put(st, s, i, ts)
  BY <1>2, <1>3, PutFields DEF Placed
<1>5. s \in States /\ s.events = st0.events
  BY <1>3, <1>4, Zenon DEF Put
<1>6. Level(s, open)
  BY <1>5, LevelKept
<1>7. Flags(st0, st) /\ Flags(st, s)
  BY <1>1, <1>2, <1>3, PlacedFlags, FirstSeenFlags
<1>8. Flags(st0, s)
  BY <1>7, Zenon DEF Flags, Silent
<1> QED
  BY <1>1, <1>2, <1>3, <1>4, <1>6, <1>8, Zenon DEF Put

ToolStep(st0, s, open) ==
    \E next : /\ Stands(s, next) /\ Silent(st0, s)
              /\ "rs" \in next <=> "rs" \in open
              /\ "over" \in next <=> "over" \in open
              /\ "msg" \in next => "msg" \in open
LEMMA OpeningLevel ==
    ASSUME NEW st0, NEW open, Stands(st0, open), NEW t \in ToolDeltas, NEW r,
           Entered(st0, FirstSeen(st0, t.idx), t.idx, r), n \in Nat, ~st0.tool_states[t.idx].started
    PROVE  ToolStep(st0, Opening(FirstSeen(st0, t.idx), t), open)
<1>0. PICK i \in ToolIndex : i = t.idx
  BY DEF ToolDeltas
<1>1. PICK st : st = FirstSeen(st0, i)
  OBVIOUS
<1>2. PICK ts \in ToolStates : ts = Noted(st, t)
  BY <1>0, <1>1, NotedFields
<1>3. PICK all \in Seq(Pieces), index \in Int : all = ts.args /\ index = ts.output_index
  BY DEF ToolStates
<1>4. PICK ts1 : ts1 = [ts EXCEPT !.started = TRUE]
  OBVIOUS
<1>5. ts1 \in ToolStates /\ ts1.started = TRUE
  BY <1>4 DEF ToolStates
<1>6. PICK w : w = Placed(st, i, ts1)
  OBVIOUS
<1>7. /\ Level(w, open) /\ Flags(st0, w) /\ w.tool_states[i] = ts1
      /\ \A j \in ToolIndex \ {i} : w.tool_states[j] = st0.tool_states[j]
  BY <1>0, <1>1, <1>5, <1>6, PlacedLevel DEF Stands
<1>8. /\ st0.message_started = st0.text_part_started
      /\ st0.text_part_started <=> "msg" \in open
      /\ \A j \in ToolIndex : st0.tool_states[j].started <=> j \in open
  BY DEF Stands
<1>9. PICK part : part = st0.text_part_started
  OBVIOUS
<1>10. Shows(w, st0.first_content, st0.think_detected, part, st0.reasoning_text, st0.accumulated_text, w.tool_states)
  BY <1>7, <1>8, <1>9, Zenon DEF Flags, Silent, Shows
<1>11. PICK u : u = close_for_tool(w)
  OBVIOUS
<1>12. PICK less : less = open \ {"msg"}
  OBVIOUS
<1>13. /\ Level(u, less)
       /\ Shows(u, st0.first_content, st0.think_detected, FALSE, st0.reasoning_text, st0.accumulated_text, w.tool_states)
  <2>1. PartOpen(part, open)
    BY <1>8, <1>9 DEF PartOpen
  <2> QED
    BY <1>7, <1>10, <1>11, <1>12, <2>1, CloseForToolLevel, Zenon
<1>14. i \in Items /\ i \notin less /\ i # "msg" /\ i # "rs" /\ i # "over"
  BY <1>0, <1>8, <1>12 DEF Items, ToolIndex
<1>15. PICK next : next = less \cup {i}
  OBVIOUS
<1>16. PICK v : v = stream_event(u, "item.added", i, index, <<>>)
  OBVIOUS
<1>17. Level(v, next) /\ Same(u, v)
  BY <1>13, <1>14, <1>15, <1>16, Empty, LevelAdd, Zenon
<1>18. PICK d : d = stream_event(v, "delta", i, index, all)
  OBVIOUS
<1>19. Level(d, next) /\ Same(v, d)
  <2>1. i \in next /\ i \in Items
    BY <1>15 DEF Items
  <2> QED
    BY <1>17, <1>18, <2>1, LevelDelta, Zenon
<1>20. Opening(st, t) = IF all # <<>> THEN d ELSE v
  BY <1>0, <1>2, <1>3, <1>4, <1>6, <1>11, <1>16, <1>18, Zenon DEF Opening
<1>21. PICK s : s = Opening(st, t)
  OBVIOUS
<1>22. /\ Level(s, next)
       /\ Shows(s, st0.first_content, st0.think_detected, FALSE, st0.reasoning_text, st0.accumulated_text, w.tool_states)
  <2>1. Shows(v, st0.first_content, st0.think_detected, FALSE, st0.reasoning_text, st0.accumulated_text, w.tool_states)
    BY <1>13, <1>17, ShowsKept
  <2>2. Shows(d, st0.first_content, st0.think_detected, FALSE, st0.reasoning_text, st0.accumulated_text, w.tool_states)
    BY <1>19, <2>1, ShowsKept
  <2>3. s = d \/ s = v
    BY <1>20, <1>21, Zenon
  <2> QED
    BY <1>17, <1>19, <2>1, <2>2, <2>3, Zenon
<1>23. /\ "msg" \notin next /\ ("rs" \in next <=> "rs" \in open) /\ ("over" \in next <=> "over" \in open)
       /\ \A j \in ToolIndex \ {i} : j \in next <=> j \in open
  BY <1>12, <1>14, <1>15 DEF ToolIndex
<1>24. ASSUME NEW j \in ToolIndex PROVE s.tool_states[j].started <=> j \in next
  <2>1. s.tool_states = w.tool_states
    BY <1>22 DEF Shows
  <2>2. CASE j = i
    <3>1. i \in next
      BY <1>15
    <3> QED
      BY <1>5, <1>7, <2>1, <2>2, <3>1
  <2>3. CASE j # i
    <3>1. j \in ToolIndex \ {i}
      BY <2>3
    <3>2. s.tool_states[j] = st0.tool_states[j] /\ (j \in next <=> j \in open)
      BY <1>7, <1>23, <2>1, <3>1, Zenon
    <3> QED
      BY <1>8, <3>2
  <2> QED
    BY <2>2, <2>3
<1>25. Stands(s, next) /\ Silent(st0, s)
  BY <1>22, <1>23, <1>24, Zenon DEF Stands, Shows, Silent
<1> QED
  BY <1>0, <1>1, <1>21, <1>23, <1>25, Zenon DEF ToolStep

LEMMA ToolDeltaLevel ==
    ASSUME NEW st0, NEW open, Stands(st0, open), Base(st0), NEW t \in ToolDeltas, NEW args,
           ToolFit(st0, t.idx, args), n \in Nat
    PROVE  ToolStep(st0, tool_delta(st0, t), open)
<1>0. PICK i \in ToolIndex : i = t.idx
  BY DEF ToolDeltas
<1>1. PICK st : st = FirstSeen(st0, i)
  OBVIOUS
<1>2. PICK r : Entered(st0, FirstSeen(st0, i), i, r)
  BY <1>0, FirstSeenEntered
<1>3. PICK ts \in ToolStates : ts = Noted(st, t) /\ ts.started = st0.tool_states[i].started
  BY <1>0, <1>1, <1>2, NotedFields
<1>4. PICK new \in Seq(Pieces) : new = Args(n + 1, t)
  BY <1>0, <1>2, NotedFields
<1>5. PICK w : w = Placed(st, i, ts)
  OBVIOUS
<1>6. PICK index \in Int : index = ts.output_index
  BY DEF ToolStates
<1>7. tool_delta(st0, t) =
        IF ~ts.started /\ ts.known THEN Opening(st, t)
        ELSE IF ts.started /\ t.args THEN stream_event(w, "delta", i, index, new)
        ELSE w
  BY <1>0, <1>1, <1>3, <1>4, <1>5, <1>6, ToolDeltaShape, Zenon
<1>8. Stands(w, open) /\ Silent(st0, w)
  <2>1. /\ Level(w, open) /\ Flags(st0, w) /\ w.tool_states[i] = ts
        /\ \A j \in ToolIndex \ {i} : w.tool_states[j] = st0.tool_states[j]
    BY <1>1, <1>2, <1>5, PlacedLevel DEF Stands
  <2>2. ASSUME NEW j \in ToolIndex PROVE w.tool_states[j].started <=> j \in open
    <3>1. w.tool_states[j].started = st0.tool_states[j].started
      <4>1. CASE j = i
        BY <1>3, <2>1, <4>1
      <4>2. CASE j # i
        <5>1. j \in ToolIndex \ {i}
          BY <4>2
        <5> QED
          BY <2>1, <5>1, Zenon
      <4> QED
        BY <4>1, <4>2
    <3> QED
      BY <3>1, Zenon DEF Stands
  <2> QED
    BY <2>1, <2>2, Zenon DEF Stands, Flags
<1>9. CASE ~ts.started /\ ts.known
  <2>1. ToolStep(st0, Opening(st, t), open)
    BY <1>0, <1>1, <1>2, <1>3, <1>9, OpeningLevel, Zenon
  <2> QED
    BY <1>7, <1>9, <2>1, Zenon
<1>10. CASE ts.started /\ t.args
  <2>1. PICK s : s = stream_event(w, "delta", i, index, new)
    OBVIOUS
  <2>2. i \in open /\ i \in Items /\ Level(w, open)
    BY <1>3, <1>8, <1>10, Zenon DEF Stands, Items
  <2>3. Level(s, open) /\ Same(w, s)
    BY <2>1, <2>2, LevelDelta, Zenon
  <2>4. Stands(s, open) /\ Silent(st0, s)
    BY <1>8, <2>3, Zenon DEF Stands, Silent, Same
  <2>5. tool_delta(st0, t) = s
    BY <1>7, <1>10, <2>1, Zenon
  <2> QED
    BY <2>4, <2>5, Zenon DEF ToolStep
<1>11. CASE ~(~ts.started /\ ts.known) /\ ~(ts.started /\ t.args)
  <2>1. tool_delta(st0, t) = w
    BY <1>7, <1>11, Zenon
  <2> QED
    BY <1>8, <2>1, Zenon DEF ToolStep
<1> QED
  BY <1>9, <1>10, <1>11, Zenon

LEMMA ToolDeltaKeeps ==
    ASSUME NEW x, Fits(x), NEW t \in ToolDeltas, n \in Nat
    PROVE  Fits(tool_delta(x, t))
<1>1. PICK a \in Seq(Pieces) : Base(x) /\ ToolsFit(x, a)
  BY DEF Fits
<1>2. Base(tool_delta(x, t)) /\ ToolsFit(tool_delta(x, t), a \o Args(n + 1, t))
  BY <1>1, ToolDeltaFits
<1>3. a \o Args(n + 1, t) \in Seq(Pieces)
  <2>1. n + 1 \in Nat /\ t.idx \in Parts /\ t.args \in BOOLEAN
    BY DEF ToolDeltas, ToolIndex, Parts
  <2>2. Args(n + 1, t) \in Seq(Pieces)
    BY <2>1, PieceType DEF Args
  <2> QED
    BY <2>2, ConcatProperties
<1> QED
  BY <1>2, <1>3, Zenon DEF Fits

LEMMA ToolDeltasLevel ==
    ASSUME NEW st, NEW open, Stands(st, open), Fits(st), NEW ts \in Seq(ToolDeltas), n \in Nat
    PROVE  ToolStep(st, tool_deltas(st, ts), open)
<1>1. PICK N \in Nat : N = Len(ts)
  OBVIOUS
<1>2. \A k \in 1..N : ts[k] \in ToolDeltas
  BY <1>1
<1>3. PICK after : ToolLoop(after, st, ts)
  BY ToolDeltasLoop
<1>4. /\ after[0] = st /\ \A k \in 1..N : after[k] = tool_delta(after[k - 1], ts[k])
      /\ tool_deltas(st, ts) = after[N]
  BY <1>1, <1>3 DEF ToolLoop
<1> DEFINE Right(k) == Fits(after[k]) /\ ToolStep(st, after[k], open)
           Done0 == {k \in Nat : k <= N => Right(k)}
<1>5. Right(0)
  BY <1>4, Zenon DEF ToolStep, Silent
<1>6. ASSUME NEW k \in 1..N, Right(k - 1) PROVE Right(k)
  <2>1. PICK mid : mid = after[k - 1]
    OBVIOUS
  <2>2. PICK t \in ToolDeltas : t = ts[k]
    BY <1>2
  <2>3. PICK s : s = tool_delta(mid, t)
    OBVIOUS
  <2>4. after[k] = s
    BY <1>4, <2>1, <2>2, <2>3, Zenon
  <2>5. PICK a, next : /\ Base(mid) /\ ToolsFit(mid, a)
                       /\ Stands(mid, next) /\ Silent(st, mid)
                       /\ "rs" \in next <=> "rs" \in open
                       /\ "over" \in next <=> "over" \in open
                       /\ "msg" \in next => "msg" \in open
    BY <1>6, <2>1, Zenon DEF Fits, ToolStep
  <2>6. ToolFit(mid, t.idx, a)
    BY <2>5 DEF ToolsFit, ToolDeltas
  <2>7. ToolStep(mid, s, next)
    BY <2>3, <2>5, <2>6, ToolDeltaLevel, Zenon
  <2>8. ToolStep(st, s, open)
    BY <2>5, <2>7, Zenon DEF ToolStep, Silent
  <2>9. Fits(s)
    BY <1>6, <2>1, <2>3, ToolDeltaKeeps, Zenon
  <2> QED
    BY <2>4, <2>8, <2>9, Zenon
<1> HIDE DEF Right
<1>7. 0 \in Done0
  BY <1>5
<1>8. ASSUME NEW k \in Nat, k \in Done0 PROVE k + 1 \in Done0
  <2> SUFFICES ASSUME k + 1 <= N PROVE Right(k + 1)
    OBVIOUS
  <2>1. PICK m \in 1..N : m = k + 1
    BY <1>1
  <2>2. m - 1 = k /\ Right(k)
    BY <1>1, <1>8, <2>1
  <2>3. Right(m)
    BY <1>6, <2>2
  <2> QED
    BY <2>1, <2>3
<1>9. N \in Done0
  <2> HIDE DEF Done0
  <2> QED
    BY <1>1, <1>7, <1>8, SetInduction
<1>10. Right(N)
  BY <1>9
<1> QED
  BY <1>4, <1>10, Zenon DEF Right

---------------------------------------------------------------------------
(* The other steps and the open items                                      *)

LEMMA CreatedLevel ==
    ASSUME NEW st, NEW open, Level(st, open)
    PROVE  Level(response_created(st), open) /\ Same(st, response_created(st))
<1>0. st \in States
  BY DEF Level
<1>1. CASE st.response_created
  <2>1. response_created(st) = st
    BY <1>1 DEF response_created
  <2> QED
    BY <2>1, Zenon DEF Same
<1>2. CASE ~st.response_created
  <2>1. PICK mid : mid = [st EXCEPT !.response_created = TRUE]
    OBVIOUS
  <2>2. mid \in States /\ mid.events = st.events /\ Same(st, mid)
    BY <1>0, <2>1 DEF States, Same
  <2>3. Level(mid, open)
    BY <2>2, LevelKept
  <2>4. PICK s : s = stream_event(mid, "response.created", "nil", 0, <<>>)
    OBVIOUS
  <2>5. Level(s, open) /\ Same(mid, s)
    <3>1. /\ 0 \in Int /\ "response.created" \in EventTypes \ {"delta", "item.added", "item.done"} /\ "nil" \in Names
          /\ <<>> \in Seq(Pieces) \cup SUBSET Items
      BY AsidesHold, Empty DEF Asides
    <3> QED
      BY <2>3, <2>4, <3>1, LevelAside, Zenon
  <2>6. response_created(st) = s
    BY <1>2, <2>1, <2>4 DEF response_created
  <2> QED
    BY <2>2, <2>5, <2>6, Zenon DEF Same
<1> QED
  BY <1>1, <1>2

LEMMA FinishLevel ==
    ASSUME NEW st, NEW open, Level(st, open), NEW finish_reason
    PROVE  Level(finish(st, finish_reason), open) /\ Same(st, finish(st, finish_reason))
<1>0. st \in States
  BY DEF Level
<1>1. PICK status \in Statuses : status = map_status(finish_reason)
  BY DEF map_status, Statuses
<1>2. PICK s : s = [st EXCEPT !.status = status]
  OBVIOUS
<1>3. s \in States /\ s.events = st.events /\ Same(st, s)
  BY <1>0, <1>2 DEF States, Same
<1>4. Level(s, open)
  BY <1>3, LevelKept
<1>5. finish(st, finish_reason) = st \/ finish(st, finish_reason) = s
  BY <1>1, <1>2, Zenon DEF finish
<1> QED
  BY <1>3, <1>4, <1>5, Zenon DEF Same

LEMMA StandsKept ==
    ASSUME NEW st, NEW s, NEW open, Stands(st, open), Level(s, open), Same(st, s)
    PROVE  Stands(s, open)
<1> QED
  BY Zenon DEF Stands, Same

LEMMA CloseToolLevel ==
    ASSUME NEW st, NEW open, Level(st, open), NEW i \in ToolIndex, st.tool_states[i].started <=> i \in open
    PROVE  Level(close_tool(st, i), open \ {i}) /\ Same(st, close_tool(st, i))
<1>1. CASE ~st.tool_states[i].started
  <2>1. close_tool(st, i) = st /\ open \ {i} = open
    BY <1>1 DEF close_tool
  <2> QED
    BY <2>1, Zenon DEF Same
<1>2. CASE st.tool_states[i].started
  <2>1. PICK ts \in ToolStates : ts = st.tool_states[i]
    BY DEF Level, States
  <2>2. PICK data \in Seq(Pieces), index \in Int : data = ts.args /\ index = ts.output_index
    BY DEF ToolStates
  <2>3. PICK s : s = stream_event(st, "text.done", i, index, data)
    OBVIOUS
  <2>4. Level(s, open) /\ Same(st, s)
    <3>1. /\ "text.done" \in EventTypes \ {"delta", "item.added", "item.done"} /\ i \in Names
          /\ data \in Seq(Pieces) \cup SUBSET Items
      BY AsidesHold DEF Asides
    <3> QED
      BY <2>3, <3>1, LevelAside, Zenon
  <2>5. PICK u : u = stream_event(s, "item.done", i, index, data)
    OBVIOUS
  <2>6. Level(u, open \ {i}) /\ Same(s, u)
    <3>1. i \in Items \ {"rs"}
      BY DEF Items, ToolIndex
    <3> QED
      BY <1>2, <2>4, <2>5, <3>1, LevelDone, Zenon
  <2>7. close_tool(st, i) = u
    BY <1>2, <2>1, <2>2, <2>3, <2>5 DEF close_tool
  <2> QED
    BY <2>4, <2>6, <2>7, Zenon DEF Same
<1> QED
  BY <1>1, <1>2

\* The end of the stream closes what is open, and nothing else; reasoning that there
\* was is over.
Left(open) == open \subseteq {"rs", "over"} /\ ("rs" \in open => "over" \in open)
LEMMA StreamEndLevel ==
    ASSUME NEW st, NEW open, Stands(st, open), st.think_detected <=> "rs" \in open,
           st.think_detected /\ st.text_part_started => "over" \in open
    PROVE  (\E left : Left(left) /\ Level(stream_end(st), left)) /\ Same(st, stream_end(st))
<1>0. /\ Level(st, open) /\ st \in States /\ open \subseteq Items \cup {"over"}
      /\ st.text_part_started <=> "msg" \in open
      /\ \A i \in ToolIndex : st.tool_states[i].started <=> i \in open
  BY DEF Stands, Level, OpenIn
<1>1. Shows(st, st.first_content, st.think_detected, st.text_part_started, st.reasoning_text,
            st.accumulated_text, st.tool_states)
  BY DEF Shows, Stands
<1>2. PICK s1 : s1 = IF st.think_detected /\ ~st.text_part_started THEN reasoning_close(st) ELSE st
  OBVIOUS
<1>3. PICK o1 : o1 = IF st.think_detected /\ ~st.text_part_started THEN open \cup {"over"} ELSE open
  OBVIOUS
<1>4. /\ Level(s1, o1)
      /\ Shows(s1, st.first_content, st.think_detected, st.text_part_started, st.reasoning_text,
               st.accumulated_text, st.tool_states)
  <2>1. CASE st.think_detected /\ ~st.text_part_started
    <3>1. s1 = reasoning_close(st) /\ "rs" \in open
      BY <1>2, <2>1
    <3> QED
      BY <1>0, <1>1, <1>3, <3>1, ReasoningCloseLevel, Zenon
  <2>2. CASE ~(st.think_detected /\ ~st.text_part_started)
    <3>1. s1 = st /\ o1 = open
      BY <1>2, <1>3, <2>2
    <3> QED
      BY <1>0, <1>1, <3>1, Zenon
  <2> QED
    BY <2>1, <2>2, Zenon
<1>5. PICK s2 : s2 = IF st.text_part_started THEN message_close(s1) ELSE s1
  OBVIOUS
<1>6. PICK o2 : o2 = o1 \ {"msg"}
  OBVIOUS
<1>7. /\ Level(s2, o2)
      /\ Shows(s2, st.first_content, st.think_detected, st.text_part_started, st.reasoning_text,
               st.accumulated_text, st.tool_states)
  <2>1. CASE st.text_part_started
    <3>1. s2 = message_close(s1) /\ "msg" \in o1
      BY <1>0, <1>3, <1>5, <2>1
    <3> QED
      BY <1>4, <1>6, <3>1, MessageCloseLevel, Zenon
  <2>2. CASE ~st.text_part_started
    <3>1. s2 = s1 /\ o2 = o1
      BY <1>0, <1>3, <1>5, <1>6, <2>2
    <3> QED
      BY <1>4, <3>1, Zenon
  <2> QED
    BY <2>1, <2>2, Zenon
<1>8. "t0" \in ToolIndex /\ "t1" \in ToolIndex
  BY DEF ToolIndex
<1>9. PICK s3 : s3 = close_tool(s2, "t0")
  OBVIOUS
<1>10. Level(s3, o2 \ {"t0"}) /\ Same(s2, s3)
  <2>1. s2.tool_states["t0"].started <=> "t0" \in o2
    BY <1>0, <1>3, <1>6, <1>7, <1>8 DEF Shows
  <2> QED
    BY <1>7, <1>8, <1>9, <2>1, CloseToolLevel, Zenon
<1>11. PICK o3 : o3 = o2 \ {"t0"}
  OBVIOUS
<1>12. PICK s4 : s4 = close_tool(s3, "t1")
  OBVIOUS
<1>13. Level(s4, o3 \ {"t1"}) /\ Same(s3, s4)
  <2>1. s3.tool_states["t1"].started <=> "t1" \in o3
    BY <1>0, <1>3, <1>6, <1>7, <1>8, <1>10, <1>11 DEF Shows, Same, ToolIndex
  <2> QED
    BY <1>8, <1>10, <1>11, <1>12, <2>1, CloseToolLevel, Zenon
<1>14. PICK left : left = o3 \ {"t1"} /\ Left(left)
  <2>1. o1 \subseteq Items \cup {"over"} /\ ("rs" \in o1 => "over" \in o1)
    BY <1>0, <1>3
  <2>2. Left(o3 \ {"t1"})
    BY <1>6, <1>11, <2>1 DEF Items, ToolIndex, Left
  <2> QED
    BY <2>2
<1>15. PICK items \in SUBSET Items : items = final_output(st)
  <2>1. final_output(st) \subseteq Items
    BY DEF final_output, Items
  <2> QED
    BY <2>1
<1>16. PICK status \in Names : status = st.status
  BY <1>0 DEF States, Names
<1>17. PICK s5 : s5 = stream_event(s4, "response.completed", status, 0, items)
  OBVIOUS
<1>18. Level(s5, left) /\ Same(s4, s5)
  <2>1. /\ 0 \in Int /\ "response.completed" \in EventTypes \ {"delta", "item.added", "item.done"}
        /\ items \in Seq(Pieces) \cup SUBSET Items
    BY AsidesHold DEF Asides
  <2>2. Level(s4, left)
    BY <1>13, <1>14, Zenon
  <2> QED
    BY <1>17, <2>1, <2>2, LevelAside, Zenon
<1>19. stream_end(st) = s5
  BY <1>2, <1>5, <1>9, <1>12, <1>15, <1>16, <1>17 DEF stream_end
<1>20. Same(st, s5)
  BY <1>1, <1>7, <1>10, <1>13, <1>18, Zenon DEF Same, Shows
<1> QED
  BY <1>14, <1>18, <1>19, <1>20, Zenon

---------------------------------------------------------------------------
(* Where the answer begins                                                 *)

\* There is no answer yet; there is one, th the text before it and tx its own.
NoAnswer(tokens) == \A i \in 1..Len(tokens) : tokens[i].part # "y" \/ tokens[i].chunk = tokens[1].chunk
Answered(tokens, th, tx) ==
    \E a, b \in Seq(Pieces) :
        /\ Len(a) > 0 /\ NoAnswer(a)
        /\ Len(b) > 0 /\ b[1].part = "y" /\ b[1].chunk # a[1].chunk
        /\ tokens = a \o b /\ th = Text(a) /\ tx = Text(b)
NoY(tokens) == \A i \in 1..Len(tokens) : tokens[i].part # "y"

LEMMA NoAnswerIs ==
    ASSUME NEW tokens \in Seq(Pieces)
    PROVE  NoAnswer(tokens) <=> Answers(tokens) = {}
<1>1. DOMAIN tokens = 1..Len(tokens)
  OBVIOUS
<1> QED
  BY <1>1 DEF NoAnswer, Answers

LEMMA NoYBoth ==
    ASSUME NEW p \in Seq(Pieces), NEW q \in Seq(Pieces), NoY(p), NoY(q)
    PROVE  NoY(p \o q)
<1>1. PICK all : all = p \o q
  OBVIOUS
<1>2. PICK l \in Nat, m \in Nat : l = Len(p) /\ m = Len(q)
  OBVIOUS
<1>3. Len(all) = l + m /\ \A i \in 1..l + m : all[i] = IF i <= l THEN p[i] ELSE q[i - l]
  BY <1>1, <1>2, ConcatProperties
<1>4. ASSUME NEW i \in 1..l + m PROVE all[i].part # "y"
  <2>1. CASE i <= l
    <3>1. i \in 1..l /\ all[i] = p[i]
      BY <1>3, <2>1
    <3> QED
      BY <1>2, <3>1 DEF NoY
  <2>2. CASE i > l
    <3>1. i - l \in 1..m /\ all[i] = q[i - l]
      BY <1>3, <2>2
    <3> QED
      BY <1>2, <3>1 DEF NoY
  <2> QED
    BY <2>1, <2>2
<1> QED
  BY <1>1, <1>3, <1>4 DEF NoY

\* The pieces of a delta before its y.
LEMMA HeadNoY ==
    ASSUME NEW c \in Contents, c # NoContent, NEW k \in Nat,
           NEW tag, NEW x, NEW close, NEW y, DeltaTokens(k, c, Tokens(k, c), tag, x, close, y)
    PROVE  /\ (tag \o x) \o close \in Seq(Pieces) /\ NoY((tag \o x) \o close)
           /\ Tokens(k, c) = ((tag \o x) \o close) \o y
<1>1. tag \in Seq(Pieces) /\ x \in Seq(Pieces) /\ close \in Seq(Pieces) /\ y \in Seq(Pieces)
  BY DEF DeltaTokens, Shape
<1>2. c.tag # "y"
  BY ChunksAssumption DEF Tags
<1>3. NoY(tag) /\ NoY(x) /\ NoY(close)
  BY <1>2 DEF DeltaTokens, Shape, NoY
<1>4. PICK t2 \in Seq(Pieces) : t2 = tag \o x /\ NoY(t2)
  BY <1>1, <1>3, NoYBoth, ConcatProperties
<1>5. PICK t3 \in Seq(Pieces) : t3 = t2 \o close /\ NoY(t3)
  BY <1>1, <1>3, <1>4, NoYBoth, ConcatProperties
<1> QED
  BY <1>4, <1>5, Zenon DEF DeltaTokens

LEMMA TokensNoY ==
    ASSUME NEW c \in Contents, c # NoContent, NEW k \in Nat, ~c.y
    PROVE  NoY(Tokens(k, c))
<1>1. PICK tag, x, close, y : DeltaTokens(k, c, Tokens(k, c), tag, x, close, y)
  BY TokensShape
<1>2. PICK head \in Seq(Pieces) : head = (tag \o x) \o close /\ NoY(head) /\ Tokens(k, c) = head \o y
  <2>1. /\ (tag \o x) \o close \in Seq(Pieces) /\ NoY((tag \o x) \o close)
        /\ Tokens(k, c) = ((tag \o x) \o close) \o y
    BY <1>1, HeadNoY
  <2> QED
    BY <2>1, Zenon
<1>3. y \in Seq(Pieces) /\ Len(y) = 0
  BY <1>1 DEF DeltaTokens, Shape
<1>4. NoY(y)
  BY <1>3 DEF NoY
<1> QED
  BY <1>2, <1>3, <1>4, NoYBoth

LEMMA NoAnswerGrows ==
    ASSUME NEW tokens \in Seq(Pieces), Len(tokens) > 0, NoAnswer(tokens), NEW q \in Seq(Pieces), NoY(q)
    PROVE  NoAnswer(tokens \o q)
<1>1. PICK all : all = tokens \o q
  OBVIOUS
<1>2. PICK l \in Nat, m \in Nat : l = Len(tokens) /\ m = Len(q)
  OBVIOUS
<1>3. Len(all) = l + m /\ \A i \in 1..l + m : all[i] = IF i <= l THEN tokens[i] ELSE q[i - l]
  BY <1>1, <1>2, ConcatProperties
<1>4. all[1] = tokens[1]
  BY <1>2, <1>3
<1>5. ASSUME NEW i \in 1..l + m PROVE all[i].part # "y" \/ all[i].chunk = all[1].chunk
  <2>1. CASE i <= l
    <3>1. i \in 1..l /\ all[i] = tokens[i]
      BY <1>3, <2>1
    <3> QED
      BY <1>2, <1>4, <3>1 DEF NoAnswer
  <2>2. CASE i > l
    <3>1. i - l \in 1..m /\ all[i] = q[i - l]
      BY <1>3, <2>2
    <3> QED
      BY <1>2, <3>1 DEF NoY
  <2> QED
    BY <2>1, <2>2
<1> QED
  BY <1>1, <1>3, <1>5 DEF NoAnswer

\* The first delta of a message has none.
LEMMA FirstNoAnswer ==
    ASSUME NEW c \in Contents, c # NoContent, NEW k \in Nat
    PROVE  NoAnswer(Tokens(k, c))
<1>1. From(Tokens(k, c), k) /\ Tokens(k, c) \in Seq(Pieces) /\ Len(Tokens(k, c)) > 0
  BY TokensFrom, TokensPlaces
<1>2. 1 \in 1..Len(Tokens(k, c))
  BY <1>1
<1> QED
  BY <1>1, <1>2 DEF From, NoAnswer

\* The answer begins.
LEMMA AnswerNow ==
    ASSUME NEW tokens \in Seq(Pieces), Len(tokens) > 0, NoAnswer(tokens),
           NEW c \in Contents, c # NoContent, c.y, NEW k \in Nat, tokens[1].chunk # k
    PROVE  Answered(tokens \o Tokens(k, c), Text(tokens) \o X(k, c), Y(k, c))
<1>1. PICK tag, x, close, y : DeltaTokens(k, c, Tokens(k, c), tag, x, close, y)
  BY TokensShape
<1>2. tag \in Seq(Pieces) /\ x \in Seq(Pieces) /\ close \in Seq(Pieces) /\ y \in Seq(Pieces)
  BY <1>1 DEF DeltaTokens, Shape
<1>3. PICK head \in Seq(Pieces) : head = (tag \o x) \o close /\ NoY(head) /\ Tokens(k, c) = head \o y
  <2>1. /\ (tag \o x) \o close \in Seq(Pieces) /\ NoY((tag \o x) \o close)
        /\ Tokens(k, c) = ((tag \o x) \o close) \o y
    BY <1>1, HeadNoY
  <2> QED
    BY <2>1, Zenon
<1>4. /\ c.x \in BOOLEAN /\ c.y \in BOOLEAN /\ "close" \in Parts \ {"x", "y"} /\ c.close \in BOOLEAN
      /\ c.tag \in Parts \ {"x", "y"} /\ (c.tag # "none") \in BOOLEAN
  BY ChunksAssumption DEF Parts, Tags
<1>5. /\ tag = Piece(k, c.tag, c.tag # "none") /\ x = Piece(k, "x", c.x)
      /\ close = Piece(k, "close", c.close) /\ y = Piece(k, "y", c.y)
  BY <1>1 DEF DeltaTokens, X, Y
<1>6. PICK tagged \in Seq(Pieces) : tagged = tokens \o tag /\ Text(tagged) = Text(tokens)
  <2>1. /\ tokens \o Piece(k, c.tag, c.tag # "none") \in Seq(Pieces)
        /\ Text(tokens \o Piece(k, c.tag, c.tag # "none")) = Text(tokens)
    BY <1>4, PieceSkipped
  <2> QED
    BY <1>5, <2>1, Zenon
<1>7. PICK said \in Seq(Pieces) : said = tagged \o x /\ Text(said) = Text(tokens) \o x
  <2>1. /\ tagged \o Piece(k, "x", c.x) \in Seq(Pieces)
        /\ Text(tagged \o Piece(k, "x", c.x)) = Text(tagged) \o Piece(k, "x", c.x)
    BY <1>4, PieceSpoken
  <2> QED
    BY <1>5, <1>6, <2>1, Zenon
<1>8. PICK a \in Seq(Pieces) : a = said \o close /\ Text(a) = Text(tokens) \o x
  <2>1. /\ said \o Piece(k, "close", c.close) \in Seq(Pieces)
        /\ Text(said \o Piece(k, "close", c.close)) = Text(said)
    BY <1>4, PieceSkipped
  <2> QED
    BY <1>5, <1>7, <2>1, Zenon
<1>9. a = tokens \o head
  <2>1. PICK t2 \in Seq(Pieces) : t2 = tag \o x
    BY <1>2, ConcatProperties
  <2>2. Regroup(tokens, tag, x) /\ Regroup(tokens, t2, close)
    BY <1>2, <2>1, PiecesRegroup
  <2> QED
    BY <1>3, <1>6, <1>7, <1>8, <2>1, <2>2, Zenon DEF Regroup
<1>10. NoAnswer(a) /\ Len(a) > 0 /\ a[1] = tokens[1]
  <2>1. NoAnswer(a)
    BY <1>3, <1>9, NoAnswerGrows
  <2> QED
    BY <1>3, <1>9, <2>1, Grown
<1>11. Len(y) > 0 /\ y[1].part = "y" /\ y[1].chunk = k
  BY <1>5 DEF Piece
<1>12. Text(y) = y
  <2>1. PICK none \in Seq(Pieces) : none = <<>> /\ Text(none) = none
    BY TextOfNothing, Zenon
  <2>2. Text(none \o Piece(k, "y", c.y)) = Text(none) \o Piece(k, "y", c.y)
    BY <1>4, PieceSpoken
  <2>3. Neutral(y)
    BY <1>2, PiecesNeutral
  <2> QED
    BY <1>5, <2>1, <2>2, <2>3, Zenon DEF Neutral
<1>13. tokens \o Tokens(k, c) = a \o y
  <2>1. Regroup(tokens, head, y)
    BY <1>2, PiecesRegroup
  <2> QED
    BY <1>3, <1>9, <2>1, Zenon DEF Regroup
<1>14. x = X(k, c) /\ y = Y(k, c)
  BY <1>1 DEF DeltaTokens
<1>15. y[1].chunk # a[1].chunk
  BY <1>10, <1>11
<1> QED
  BY <1>2, <1>8, <1>10, <1>11, <1>12, <1>13, <1>14, <1>15, Zenon DEF Answered

\* It goes on.
LEMMA AnsweredGrows ==
    ASSUME NEW tokens \in Seq(Pieces), NEW th, NEW tx, Answered(tokens, th, tx),
           NEW c \in Contents, NEW k \in Nat
    PROVE  Answered(tokens \o Tokens(k, c), th, tx \o SpokenIn(k, c))
<1>1. PICK a \in Seq(Pieces), b \in Seq(Pieces) :
        /\ Len(a) > 0 /\ NoAnswer(a)
        /\ Len(b) > 0 /\ b[1].part = "y" /\ b[1].chunk # a[1].chunk
        /\ tokens = a \o b /\ th = Text(a) /\ tx = Text(b)
  BY DEF Answered
<1>2. PICK new \in Seq(Pieces) : new = Tokens(k, c)
  BY TokensType
<1>3. PICK b2 \in Seq(Pieces) : b2 = b \o new /\ Text(b2) = Text(b) \o SpokenIn(k, c)
  <2>1. b \o Tokens(k, c) \in Seq(Pieces) /\ Text(b \o Tokens(k, c)) = Text(b) \o SpokenIn(k, c)
    BY TokensText
  <2> QED
    BY <1>2, <2>1, Zenon
<1>4. Regroup(a, b, new)
  BY <1>2, PiecesRegroup
<1>5. tokens \o new = a \o b2
  BY <1>1, <1>3, <1>4, Zenon DEF Regroup
<1>6. Len(b2) > 0 /\ b2[1] = b[1]
  BY <1>1, <1>2, <1>3, Grown
<1> QED
  BY <1>1, <1>2, <1>3, <1>5, <1>6, Zenon DEF Answered

\* The whole message, cut where its answer begins.
LEMMA CutAtAnswer ==
    ASSUME NEW tokens \in Seq(Pieces), NEW th, NEW tx, Answered(tokens, th, tx), Thinks(tokens)
    PROVE  Split(tokens) = [thinking |-> th, text |-> tx] /\ Answers(tokens) # {}
<1>1. PICK a \in Seq(Pieces), b \in Seq(Pieces) :
        /\ Len(a) > 0 /\ NoAnswer(a)
        /\ Len(b) > 0 /\ b[1].part = "y" /\ b[1].chunk # a[1].chunk
        /\ tokens = a \o b /\ th = Text(a) /\ tx = Text(b)
  BY DEF Answered
<1>2. PICK l \in Nat, r \in Nat : l = Len(a) /\ r = Len(b) /\ l > 0 /\ r > 0
  BY <1>1
<1>3. /\ Len(tokens) = l + r
      /\ \A i \in 1..l + r : tokens[i] = IF i <= l THEN a[i] ELSE b[i - l]
  <2>1. Joined(a, b)
    BY PiecesJoined
  <2> QED
    BY <1>1, <1>2, <2>1 DEF Joined
<1>4. tokens[1] = a[1] /\ tokens[l + 1] = b[1] /\ DOMAIN tokens = 1..l + r
  BY <1>2, <1>3
<1>5. l + 1 \in Answers(tokens) /\ \A i \in Answers(tokens) : l + 1 <= i
  <2>1. l + 1 \in Answers(tokens)
    BY <1>1, <1>2, <1>4 DEF Answers
  <2>2. ASSUME NEW i \in Answers(tokens), i <= l PROVE FALSE
    <3>1. i \in 1..l /\ tokens[i].part = "y" /\ tokens[i].chunk # tokens[1].chunk
      BY <1>4, <2>2 DEF Answers
    <3>2. tokens[i] = a[i]
      BY <1>3, <3>1
    <3> QED
      BY <1>1, <1>2, <1>4, <3>1, <3>2 DEF NoAnswer
  <2>3. \A i \in Answers(tokens) : i \in Int
    BY <1>4 DEF Answers
  <2> QED
    BY <2>1, <2>2, <2>3
<1>6. ASSUME NEW i \in Answers(tokens), \A j \in Answers(tokens) : i <= j PROVE i = l + 1
  <2>1. i \in Int
    BY <1>4 DEF Answers
  <2>2. i <= l + 1 /\ l + 1 <= i
    BY <1>5, <1>6
  <2> QED
    BY <2>1, <2>2
<1>7. AnswerAt(tokens) = l + 1
  BY <1>5, <1>6 DEF AnswerAt
<1>8. SubSeq(tokens, 1, l) = a
  <2>1. PICK part : part = SubSeq(tokens, 1, l)
    OBVIOUS
  <2>2. part \in Seq(Pieces) /\ Len(part) = l - 1 + 1 /\ \A i \in 1..l - 1 + 1 : part[i] = tokens[1 + i - 1]
    BY <1>2, <1>3, <2>1, PiecesCut
  <2>3. Len(part) = l /\ \A i \in 1..l : part[i] = a[i]
    <3>1. l - 1 + 1 = l /\ \A i \in 1..l : 1 + i - 1 = i
      OBVIOUS
    <3>2. \A i \in 1..l : part[i] = tokens[i]
      BY <2>2, <3>1
    <3> QED
      BY <1>3, <2>2, <3>1, <3>2
  <2> QED
    BY <1>2, <2>1, <2>2, <2>3, SeqEqual
<1>9. SubSeq(tokens, l + 1, Len(tokens)) = b
  <2>1. PICK part : part = SubSeq(tokens, l + 1, l + r)
    OBVIOUS
  <2>2. /\ part \in Seq(Pieces) /\ Len(part) = (l + r) - (l + 1) + 1
        /\ \A i \in 1..(l + r) - (l + 1) + 1 : part[i] = tokens[(l + 1) + i - 1]
    BY <1>3, <2>1, PiecesCut
  <2>3. Len(part) = r /\ \A i \in 1..r : part[i] = b[i]
    <3>1. (l + r) - (l + 1) + 1 = r
      OBVIOUS
    <3>2. ASSUME NEW i \in 1..r PROVE part[i] = b[i]
      <4>1. PICK j \in 1..l + r : j = (l + 1) + i - 1 /\ j - l = i /\ ~(j <= l)
        OBVIOUS
      <4>2. part[i] = tokens[j]
        BY <2>2, <3>1, <4>1
      <4> QED
        BY <1>3, <4>1, <4>2
    <3> QED
      BY <2>2, <3>1, <3>2
  <2>4. part = b
    BY <1>2, <2>2, <2>3, SeqEqual
  <2> QED
    BY <1>3, <2>1, <2>4, Zenon
<1>10. Answers(tokens) # {}
  BY <1>5
<1>11. l + 1 - 1 = l
  OBVIOUS
<1>12. Split(tokens) = [thinking |-> Text(SubSeq(tokens, 1, l + 1 - 1)),
                        text     |-> Text(SubSeq(tokens, l + 1, Len(tokens)))]
  BY <1>7, <1>10 DEF Split
<1> QED
  BY <1>1, <1>8, <1>9, <1>10, <1>11, <1>12, Zenon

---------------------------------------------------------------------------
(* How far the content has come                                            *)

\* The reasoning and the text told so far, for the tokens that have come.  Without an
\* opening tag all is text.  With one all is reasoning until the answer begins; from
\* then on the text is the answer's, as long as there was no tool call.
Thinking(part, reasoning, text, tokens) ==
    ~part /\ NoAnswer(tokens) /\ reasoning = Text(tokens) /\ text = <<>>
Answering(part, reasoning, text, tokens, tool) ==
    \E th, tx, w \in Seq(Pieces) :
        /\ Answered(tokens, th, tx) /\ reasoning = th \o w
        /\ ~tool => part /\ w = <<>> /\ text = tx
Phase(first, think, part, reasoning, text, tokens, tool) ==
    /\ tokens \in Seq(Pieces) /\ (first <=> Len(tokens) = 0)
    /\ first => ~think /\ ~part
    /\ Len(tokens) > 0 => (think <=> tokens[1].part = "full")
    /\ ~think => reasoning = <<>> /\ text = Text(tokens)
    /\ think => Thinking(part, reasoning, text, tokens) \/ Answering(part, reasoning, text, tokens, tool)
PhaseOf(st, tokens, tool) ==
    Phase(st.first_content, st.think_detected, st.text_part_started, st.reasoning_text,
          st.accumulated_text, tokens, tool)

\* Once the answer has begun: more text; and after a tool call more reasoning as well.
LEMMA AnswerGoesOn ==
    ASSUME NEW part, NEW reasoning, NEW text, NEW tokens \in Seq(Pieces), NEW tool,
           Answering(part, reasoning, text, tokens, tool),
           NEW c \in Contents, c # NoContent, NEW k \in Nat
    PROVE  LET all == tokens \o Tokens(k, c)
           IN  /\ part => Answering(TRUE, reasoning, text \o (X(k, c) \o Y(k, c)), all, tool)
               /\ tool => \A more \in Seq(Pieces) : \A p, t : Answering(p, reasoning \o more, t, all, tool)
<1>1. PICK th \in Seq(Pieces), tx \in Seq(Pieces), w \in Seq(Pieces) :
        /\ Answered(tokens, th, tx) /\ reasoning = th \o w
        /\ ~tool => part /\ w = <<>> /\ text = tx
  BY Zenon DEF Answering
<1>2. PICK xy \in Seq(Pieces) : xy = X(k, c) \o Y(k, c) /\ xy = SpokenIn(k, c)
  BY PiecesType DEF SpokenIn
<1>3. PICK next \in Seq(Pieces) : next = tx \o xy
  BY ConcatProperties
<1>4. PICK all : all = tokens \o Tokens(k, c)
  OBVIOUS
<1>5. Answered(all, th, next)
  BY <1>1, <1>2, <1>3, <1>4, AnsweredGrows
<1>6. ASSUME part PROVE Answering(TRUE, reasoning, text \o xy, all, tool)
  BY <1>1, <1>3, <1>5, Zenon DEF Answering
<1>7. ASSUME tool, NEW more \in Seq(Pieces), NEW p, NEW t PROVE Answering(p, reasoning \o more, t, all, tool)
  <2>1. PICK wide \in Seq(Pieces) : wide = w \o more
    BY ConcatProperties
  <2>2. Regroup(th, w, more)
    BY PiecesRegroup
  <2>3. reasoning \o more = th \o wide
    BY <1>1, <2>1, <2>2, Zenon DEF Regroup
  <2> QED
    BY <1>5, <1>7, <2>3, Zenon DEF Answering
<1> QED
  BY <1>2, <1>4, <1>6, <1>7, Zenon

PlainEnd(p) == p \in Seq(Pieces) /\ p = p \o <<>>

\* The first delta of a message.
LEMMA FirstPhase ==
    ASSUME NEW reasoning, NEW text, NEW tokens, NEW tool,
           Phase(TRUE, FALSE, FALSE, reasoning, text, tokens, tool),
           NEW c \in Contents, c # NoContent, NEW k \in Nat
    PROVE  LET all == tokens \o Tokens(k, c)
               xy  == X(k, c) \o Y(k, c)
           IN  /\ c.tag = "full" => Phase(FALSE, TRUE, FALSE, reasoning \o xy, text, all, tool)
               /\ c.tag # "full" => Phase(FALSE, FALSE, TRUE, reasoning, text \o xy, all, tool)
<1>1. /\ tokens \in Seq(Pieces) /\ Len(tokens) = 0 /\ reasoning = <<>> /\ text = Text(tokens)
  BY Zenon DEF Phase
<1>2. tokens = <<>> /\ Text(tokens) = <<>>
  <2>1. tokens = <<>>
    BY <1>1, EmptySeq
  <2> QED
    BY <2>1, TextOfNothing
<1>3. PICK new \in Seq(Pieces) : new = Tokens(k, c)
  BY TokensType
<1>4. PICK xy \in Seq(Pieces) : xy = X(k, c) \o Y(k, c)
  BY PiecesType
<1>5. PICK all \in Seq(Pieces) : all = tokens \o new
  BY <1>1, <1>3, ConcatProperties
<1>6. all = new /\ <<>> \o xy = xy
  BY <1>2, <1>3, <1>4, <1>5, PiecesNeutral DEF Neutral
<1>7. Len(all) > 0 /\ Len(all) # 0 /\ all[1].part = First(c) /\ NoAnswer(all)
  <2>1. Len(new) > 0 /\ new[1].part = First(c)
    BY <1>3, TokensPlaces
  <2>2. Len(new) \in Nat
    BY <1>3
  <2>3. Len(new) # 0
    BY <2>1, <2>2
  <2>4. NoAnswer(new)
    BY <1>3, FirstNoAnswer
  <2> QED
    BY <1>6, <2>1, <2>3, <2>4, Zenon
<1>8. First(c) = "full" <=> c.tag = "full"
  BY ChunksAssumption DEF First, Tags
<1>9. Text(all) = xy
  <2>1. Text(all) = Text(tokens) \o SpokenIn(k, c)
    BY <1>1, <1>3, <1>5, TokensText
  <2> QED
    BY <1>2, <1>4, <1>6, <2>1, Zenon DEF SpokenIn
<1>10. ASSUME c.tag = "full" PROVE Phase(FALSE, TRUE, FALSE, reasoning \o xy, text, all, tool)
  <2>1. Thinking(FALSE, reasoning \o xy, text, all)
    BY <1>1, <1>2, <1>6, <1>7, <1>9, Zenon DEF Thinking
  <2> QED
    BY <1>5, <1>7, <1>8, <1>10, <2>1, Zenon DEF Phase
<1>11. ASSUME c.tag # "full" PROVE Phase(FALSE, FALSE, TRUE, reasoning, text \o xy, all, tool)
  BY <1>1, <1>2, <1>5, <1>6, <1>7, <1>8, <1>9, <1>11, Zenon DEF Phase
<1> QED
  BY <1>3, <1>4, <1>5, <1>10, <1>11, Zenon

\* The next delta: of the reasoning while no text part is open, of the text otherwise.
LEMMA NextPhase ==
    ASSUME NEW think \in BOOLEAN, NEW part \in BOOLEAN, NEW reasoning \in Seq(Pieces), NEW text \in Seq(Pieces),
           NEW tokens, NEW tool, Phase(FALSE, think, part, reasoning, text, tokens, tool),
           NEW c \in Contents, c # NoContent, NEW k \in Nat, tokens[1].chunk # k
    PROVE  LET all == tokens \o Tokens(k, c)
               xy  == X(k, c) \o Y(k, c)
           IN  /\ think /\ ~part /\ ~c.y => Phase(FALSE, TRUE, FALSE, reasoning \o xy, text, all, tool)
               /\ think /\ ~part /\ c.y =>
                    Phase(FALSE, TRUE, TRUE, reasoning \o X(k, c), text \o Y(k, c), all, tool)
               /\ ~(think /\ ~part) => Phase(FALSE, think, TRUE, reasoning, text \o xy, all, tool)
<1>1. tokens \in Seq(Pieces) /\ Len(tokens) # 0
  BY Zenon DEF Phase
<1>2. Len(tokens) > 0 /\ (think <=> tokens[1].part = "full")
  <2>1. Len(tokens) > 0
    BY <1>1
  <2> QED
    BY <2>1, Zenon DEF Phase
<1>3. PICK new \in Seq(Pieces) : new = Tokens(k, c)
  BY TokensType
<1>4. PICK x \in Seq(Pieces), y \in Seq(Pieces), xy \in Seq(Pieces) : x = X(k, c) /\ y = Y(k, c) /\ xy = x \o y
  BY PiecesType
<1>5. PICK all \in Seq(Pieces) : all = tokens \o new
  BY <1>1, <1>3, ConcatProperties
<1>6. Len(all) > 0 /\ Len(all) # 0 /\ all[1] = tokens[1]
  <2>1. Len(all) > 0 /\ all[1] = tokens[1]
    BY <1>1, <1>2, <1>3, <1>5, Grown
  <2>2. Len(all) # 0
    BY <2>1
  <2> QED
    BY <2>1, <2>2
<1>7. Text(all) = Text(tokens) \o xy
  <2>1. Text(all) = Text(tokens) \o SpokenIn(k, c)
    BY <1>1, <1>3, <1>5, TokensText
  <2> QED
    BY <1>4, <2>1, Zenon DEF SpokenIn
<1>8. ASSUME Answering(part, reasoning, text, tokens, tool)
      PROVE  /\ part => Answering(TRUE, reasoning, text \o xy, all, tool)
             /\ tool => \A more \in Seq(Pieces) : \A p, t : Answering(p, reasoning \o more, t, all, tool)
  BY <1>1, <1>3, <1>4, <1>5, <1>8, AnswerGoesOn, Zenon
<1>9. ASSUME think, ~part, ~Thinking(part, reasoning, text, tokens)
      PROVE  tool /\ Answering(part, reasoning, text, tokens, tool)
  BY <1>9, Zenon DEF Phase, Answering
<1>10. ASSUME think, ~part, ~c.y PROVE Phase(FALSE, TRUE, FALSE, reasoning \o xy, text, all, tool)
  <2>1. CASE Thinking(part, reasoning, text, tokens)
    <3>1. NoAnswer(all)
      BY <1>1, <1>2, <1>3, <1>5, <1>10, <2>1, TokensNoY, NoAnswerGrows DEF Thinking
    <3>2. Thinking(FALSE, reasoning \o xy, text, all)
      BY <1>7, <2>1, <3>1, Zenon DEF Thinking
    <3> QED
      BY <1>2, <1>5, <1>6, <1>10, <3>2, Zenon DEF Phase
  <2>2. CASE ~Thinking(part, reasoning, text, tokens)
    <3>1. Answering(FALSE, reasoning \o xy, text, all, tool)
      BY <1>8, <1>9, <1>10, <2>2, Zenon
    <3> QED
      BY <1>2, <1>5, <1>6, <1>10, <3>1, Zenon DEF Phase
  <2> QED
    BY <2>1, <2>2
<1>11. ASSUME think, ~part, c.y PROVE Phase(FALSE, TRUE, TRUE, reasoning \o x, text \o y, all, tool)
  <2>1. CASE Thinking(part, reasoning, text, tokens)
    <3>1. NoAnswer(tokens) /\ reasoning = Text(tokens) /\ text = <<>>
      BY <2>1, Zenon DEF Thinking
    <3>2. Answered(all, reasoning \o x, y)
      BY <1>1, <1>2, <1>3, <1>4, <1>5, <1>11, <3>1, AnswerNow
    <3>3. text \o y = y /\ PlainEnd(reasoning \o x)
      <4>1. Neutral(y)
        BY PiecesNeutral
      <4>2. PICK rx \in Seq(Pieces) : rx = reasoning \o x
        BY ConcatProperties
      <4>3. Neutral(rx)
        BY PiecesNeutral
      <4> QED
        BY <3>1, <4>1, <4>2, <4>3, Zenon DEF Neutral, PlainEnd
    <3>4. Answering(TRUE, reasoning \o x, text \o y, all, tool)
      BY <3>2, <3>3, Empty, Zenon DEF Answering, PlainEnd
    <3> QED
      BY <1>2, <1>5, <1>6, <1>11, <3>4, Zenon DEF Phase
  <2>2. CASE ~Thinking(part, reasoning, text, tokens)
    <3>1. Answering(TRUE, reasoning \o x, text \o y, all, tool)
      BY <1>8, <1>9, <1>11, <2>2, Zenon
    <3> QED
      BY <1>2, <1>5, <1>6, <1>11, <3>1, Zenon DEF Phase
  <2> QED
    BY <2>1, <2>2
<1>12. ASSUME ~(think /\ ~part) PROVE Phase(FALSE, think, TRUE, reasoning, text \o xy, all, tool)
  <2>1. CASE ~think
    BY <1>2, <1>5, <1>6, <1>7, <2>1, Zenon DEF Phase
  <2>2. CASE think
    <3>1. part /\ Answering(part, reasoning, text, tokens, tool)
      BY <1>12, <2>2, Zenon DEF Phase, Thinking
    <3>2. Answering(TRUE, reasoning, text \o xy, all, tool)
      BY <1>8, <3>1, Zenon
    <3> QED
      BY <1>2, <1>5, <1>6, <2>2, <3>2, Zenon DEF Phase
  <2> QED
    BY <2>1, <2>2
<1> QED
  BY <1>3, <1>4, <1>5, <1>10, <1>11, <1>12, Zenon

\* The reasoning item has been added, and is done when the answer has begun.
Reasons(think, part, open) ==
    /\ think <=> "rs" \in open
    /\ think /\ part => "over" \in open
\* The state is in the phase of its tokens, and the items stand as it says.
Ready(st, tokens, tool) ==
    /\ PhaseOf(st, tokens, tool)
    /\ \E open : Stands(st, open) /\ Reasons(st.think_detected, st.text_part_started, open)

LEMMA ReadyKept ==
    ASSUME NEW st, NEW s, NEW tokens, NEW tool, Ready(st, tokens, tool), Same(st, s),
           \A open : Level(st, open) => Level(s, open)
    PROVE  Ready(s, tokens, tool)
<1>1. PICK open : Stands(st, open) /\ Reasons(st.think_detected, st.text_part_started, open)
  BY Zenon DEF Ready
<1>2. Stands(s, open)
  <2>1. Level(s, open)
    BY <1>1, Zenon DEF Stands
  <2> QED
    BY <1>1, <2>1, StandsKept, Zenon
<1>3. PhaseOf(s, tokens, tool)
  BY Zenon DEF Ready, PhaseOf, Same
<1>4. Reasons(s.think_detected, s.text_part_started, open)
  BY <1>1, Zenon DEF Same
<1> QED
  BY <1>2, <1>3, <1>4, Zenon DEF Ready

LEMMA ShownReady ==
    ASSUME NEW s, NEW next, Level(s, next), NEW first, NEW think, NEW part, NEW reasoning, NEW text, NEW tools,
           Shows(s, first, think, part, reasoning, text, tools), PartOpen(part, next),
           \A i \in ToolIndex : tools[i].started <=> i \in next,
           Reasons(think, part, next),
           NEW tokens, NEW tool, Phase(first, think, part, reasoning, text, tokens, tool)
    PROVE  Ready(s, tokens, tool)
<1>1. Stands(s, next)
  BY Zenon DEF Shows, PartOpen, Stands
<1>2. PhaseOf(s, tokens, tool)
  BY Zenon DEF Shows, PhaseOf
<1>3. Reasons(s.think_detected, s.text_part_started, next)
  BY Zenon DEF Shows
<1> QED
  BY <1>1, <1>2, <1>3, Zenon DEF Ready

LEMMA ContentReady ==
    ASSUME NEW st, NEW tokens, NEW tool, Ready(st, tokens, tool),
           NEW c \in Contents \cup {NoContent}, n \in Nat, Len(tokens) > 0 => tokens[1].chunk # n + 1
    PROVE  Ready(content_delta(st, c), tokens \o Tokens(n + 1, c), tool)
<1>1. PICK open : Stands(st, open) /\ Reasons(st.think_detected, st.text_part_started, open)
  BY Zenon DEF Ready
<1>2. Level(st, open) /\ st \in States
  BY <1>1 DEF Stands, Level
<1>3. PICK first \in BOOLEAN, think \in BOOLEAN, part \in BOOLEAN, reasoning \in Seq(Pieces), text \in Seq(Pieces),
           tools \in [ToolIndex -> ToolStates] :
        /\ first = st.first_content /\ think = st.think_detected /\ part = st.text_part_started
        /\ reasoning = st.reasoning_text /\ text = st.accumulated_text /\ tools = st.tool_states
  BY <1>2 DEF States
<1>4. Shows(st, first, think, part, reasoning, text, tools)
  BY <1>1, <1>3, Zenon DEF Shows, Stands
<1>5. /\ PartOpen(part, open) /\ \A i \in ToolIndex : tools[i].started <=> i \in open
      /\ Reasons(think, part, open)
  BY <1>1, <1>3, Zenon DEF Stands, PartOpen
<1>6. Phase(first, think, part, reasoning, text, tokens, tool) /\ tokens \in Seq(Pieces)
  BY <1>3, Zenon DEF Ready, PhaseOf, Phase
<1>7. n + 1 \in Nat
  OBVIOUS
<1>8. CASE c = NoContent
  <2>1. tokens \o Tokens(n + 1, c) = tokens
    BY <1>6, <1>8, PiecesNeutral DEF Tokens, Neutral
  <2>2. content_delta(st, c) = st
    BY <1>8 DEF content_delta
  <2> QED
    BY <2>1, <2>2, Zenon
<1>9. CASE c # NoContent
  <2>1. c \in Contents
    BY <1>9
  <2>2. PICK k \in Nat : k = n + 1
    BY <1>7
  <2>3. PICK all, x, y, xy : all = tokens \o Tokens(k, c) /\ x = X(k, c) /\ y = Y(k, c) /\ xy = x \o y
    BY Zenon
  <2>4. \A i \in ToolIndex : i # "rs" /\ i # "msg" /\ i # "over"
    BY DEF ToolIndex
  <2>5. CASE first
    <3>1. first = TRUE /\ think = FALSE /\ part = FALSE
      BY <1>6, <2>5 DEF Phase
    <3>2. "rs" \notin open /\ "msg" \notin open
      BY <1>5, <3>1, Zenon DEF PartOpen, Reasons
    <3>3. PICK s : s = first_delta(st, c)
      OBVIOUS
    <3>4. Shows(st, TRUE, FALSE, FALSE, reasoning, text, tools) /\ Phase(TRUE, FALSE, FALSE, reasoning, text, tokens, tool)
      BY <1>4, <1>6, <3>1, Zenon
    <3>5. /\ c.tag = "full" => /\ Level(s, open \cup {"rs"})
                               /\ Shows(s, FALSE, TRUE, FALSE, reasoning \o xy, text, tools)
          /\ c.tag # "full" => /\ Level(s, open \cup {"msg"})
                               /\ Shows(s, FALSE, FALSE, TRUE, reasoning, text \o xy, tools)
      BY <1>2, <2>1, <2>2, <2>3, <3>2, <3>3, <3>4, FirstDeltaLevel, Zenon
    <3>6. /\ c.tag = "full" => Phase(FALSE, TRUE, FALSE, reasoning \o xy, text, all, tool)
          /\ c.tag # "full" => Phase(FALSE, FALSE, TRUE, reasoning, text \o xy, all, tool)
      BY <1>9, <2>1, <2>2, <2>3, <3>4, FirstPhase, Zenon
    <3>7. CASE c.tag = "full"
      <4>1. PICK next : next = open \cup {"rs"}
        OBVIOUS
      <4>2. /\ PartOpen(FALSE, next) /\ (\A i \in ToolIndex : tools[i].started <=> i \in next)
            /\ Reasons(TRUE, FALSE, next)
        BY <1>5, <2>4, <3>2, <4>1 DEF PartOpen, Reasons
      <4>3. Ready(s, all, tool)
        BY <3>5, <3>6, <3>7, <4>1, <4>2, ShownReady, Zenon
      <4> QED
        BY <1>3, <1>9, <2>2, <2>3, <2>5, <3>3, <4>3, Zenon DEF content_delta
    <3>8. CASE c.tag # "full"
      <4>1. PICK next : next = open \cup {"msg"}
        OBVIOUS
      <4>2. /\ PartOpen(TRUE, next) /\ (\A i \in ToolIndex : tools[i].started <=> i \in next)
            /\ Reasons(FALSE, TRUE, next)
        BY <1>5, <2>4, <3>2, <4>1 DEF PartOpen, Reasons
      <4>3. Ready(s, all, tool)
        BY <3>5, <3>6, <3>8, <4>1, <4>2, ShownReady, Zenon
      <4> QED
        BY <1>3, <1>9, <2>2, <2>3, <2>5, <3>3, <4>3, Zenon DEF content_delta
    <3> QED
      BY <3>7, <3>8
  <2>6. CASE ~first
    <3>0. first = FALSE
      BY <2>6
    <3>1. Phase(FALSE, think, part, reasoning, text, tokens, tool) /\ tokens[1].chunk # k
      <4>1. Len(tokens) # 0
        BY <1>6, <3>0, Zenon DEF Phase
      <4>2. Len(tokens) > 0
        BY <1>6, <4>1
      <4> QED
        BY <1>6, <2>2, <3>0, <4>2, Zenon
    <3>2. /\ think /\ ~part /\ ~c.y => Phase(FALSE, TRUE, FALSE, reasoning \o xy, text, all, tool)
          /\ think /\ ~part /\ c.y => Phase(FALSE, TRUE, TRUE, reasoning \o x, text \o y, all, tool)
          /\ ~(think /\ ~part) => Phase(FALSE, think, TRUE, reasoning, text \o xy, all, tool)
      BY <1>9, <2>1, <2>2, <2>3, <3>1, NextPhase, Zenon
    <3>3. CASE think /\ ~part
      <4>1. PICK s : s = reasoning_delta(st, c)
        OBVIOUS
      <4>2. "rs" \in open /\ "msg" \notin open
        BY <1>5, <3>3, Zenon DEF PartOpen, Reasons
      <4>3. Shows(st, FALSE, TRUE, FALSE, reasoning, text, tools)
        <5>1. think = TRUE /\ part = FALSE
          BY <3>3
        <5> QED
          BY <1>4, <3>0, <5>1, Zenon
      <4>4. /\ ~c.close => Level(s, open) /\ Shows(s, FALSE, TRUE, FALSE, reasoning \o xy, text, tools)
            /\ c.close /\ ~c.y => /\ Level(s, open \cup {"over"})
                                  /\ Shows(s, FALSE, TRUE, FALSE, reasoning \o x, text, tools)
            /\ c.close /\ c.y => /\ Level(s, (open \cup {"over"}) \cup {"msg"})
                                 /\ Shows(s, FALSE, TRUE, TRUE, reasoning \o x, text \o y, tools)
        BY <1>2, <2>1, <2>2, <2>3, <4>1, <4>2, <4>3, ReasoningDeltaLevel, Zenon
      <4>5. content_delta(st, c) = s
        BY <1>3, <1>9, <2>6, <3>3, <4>1, Zenon DEF content_delta
      <4>6. CASE ~c.close
        <5>1. PartOpen(FALSE, open) /\ Reasons(TRUE, FALSE, open) /\ ~c.y
          BY <2>1, <4>2, <4>6, ChunksAssumption DEF PartOpen, Reasons
        <5>2. Ready(s, all, tool)
          BY <1>5, <3>2, <3>3, <4>4, <4>6, <5>1, ShownReady, Zenon
        <5> QED
          BY <2>2, <2>3, <4>5, <5>2, Zenon
      <4>7. CASE c.close /\ ~c.y
        <5>1. PICK next : next = open \cup {"over"}
          OBVIOUS
        <5>2. /\ PartOpen(FALSE, next) /\ (\A i \in ToolIndex : tools[i].started <=> i \in next)
              /\ Reasons(TRUE, FALSE, next)
          BY <1>5, <2>4, <4>2, <5>1 DEF PartOpen, Reasons
        <5>3. x = xy
          <6>1. c.x \in BOOLEAN /\ y = <<>>
            BY <2>1, <2>3, <4>7, ChunksAssumption DEF Y, Piece
          <6>2. x \in Seq(Pieces)
            BY <2>1, <2>2, <2>3, PiecesType
          <6>3. Neutral(x)
            BY <6>2, PiecesNeutral
          <6> QED
            BY <2>3, <6>1, <6>3, Zenon DEF Neutral
        <5>4. Shows(s, FALSE, TRUE, FALSE, reasoning \o xy, text, tools)
          BY <4>4, <4>7, <5>3, Zenon
        <5>5. Ready(s, all, tool)
          BY <3>2, <3>3, <4>4, <4>7, <5>1, <5>2, <5>4, ShownReady, Zenon
        <5> QED
          BY <2>2, <2>3, <4>5, <5>5, Zenon
      <4>8. CASE c.close /\ c.y
        <5>1. PICK next : next = (open \cup {"over"}) \cup {"msg"}
          OBVIOUS
        <5>2. /\ PartOpen(TRUE, next) /\ (\A i \in ToolIndex : tools[i].started <=> i \in next)
              /\ Reasons(TRUE, TRUE, next)
          BY <1>5, <2>4, <4>2, <5>1 DEF PartOpen, Reasons
        <5>3. Ready(s, all, tool)
          BY <3>2, <3>3, <4>4, <4>8, <5>1, <5>2, ShownReady, Zenon
        <5> QED
          BY <2>2, <2>3, <4>5, <5>3, Zenon
      <4> QED
        BY <4>6, <4>7, <4>8
    <3>4. CASE ~(think /\ ~part)
      <4>1. PICK s : s = text_delta(st, c)
        OBVIOUS
      <4>2. Shows(st, FALSE, think, part, reasoning, text, tools)
        BY <1>4, <3>0, Zenon
      <4>3. Level(s, open \cup {"msg"}) /\ Shows(s, FALSE, think, TRUE, reasoning, text \o xy, tools)
        BY <1>2, <1>5, <2>1, <2>2, <2>3, <4>1, <4>2, TextDeltaLevel, Zenon
      <4>4. PICK next : next = open \cup {"msg"}
        OBVIOUS
      <4>5. /\ PartOpen(TRUE, next) /\ (\A i \in ToolIndex : tools[i].started <=> i \in next)
            /\ Reasons(think, TRUE, next)
        BY <1>5, <2>4, <3>4, <4>4 DEF PartOpen, Reasons
      <4>6. Ready(s, all, tool)
        BY <3>2, <3>4, <4>3, <4>4, <4>5, ShownReady, Zenon
      <4>7. content_delta(st, c) = s
        BY <1>3, <1>9, <2>6, <3>4, <4>1, Zenon DEF content_delta
      <4> QED
        BY <2>2, <2>3, <4>6, <4>7, Zenon
    <3> QED
      BY <3>3, <3>4
  <2> QED
    BY <2>5, <2>6
<1> QED
  BY <1>8, <1>9

\* The tool calls of a chunk.
Joins(tool, ts) == tool \/ ts # <<>>
LEMMA ToolsReady ==
    ASSUME NEW st, NEW tokens, NEW tool, Ready(st, tokens, tool), Fits(st), NEW ts \in Seq(ToolDeltas), n \in Nat
    PROVE  Ready(tool_deltas(st, ts), tokens, Joins(tool, ts))
<1>1. CASE ts = <<>>
  <2>1. PICK after : ToolLoop(after, st, ts)
    BY ToolDeltasLoop
  <2>2. Len(ts) = 0
    BY <1>1
  <2>3. tool_deltas(st, ts) = st
    BY <2>1, <2>2, Zenon DEF ToolLoop
  <2>4. PhaseOf(st, tokens, Joins(tool, ts))
    <3>1. PhaseOf(st, tokens, tool)
      BY Zenon DEF Ready
    <3> QED
      BY <1>1, <3>1, Zenon DEF PhaseOf, Phase, Answering, Joins
  <2> QED
    BY <2>3, <2>4, Zenon DEF Ready
<1>2. CASE ts # <<>>
  <2>1. PICK open : Stands(st, open) /\ Reasons(st.think_detected, st.text_part_started, open)
    BY Zenon DEF Ready
  <2>2. PhaseOf(st, tokens, tool)
    BY Zenon DEF Ready
  <2>3. PICK s : s = tool_deltas(st, ts)
    OBVIOUS
  <2>4. PICK next : /\ Stands(s, next) /\ Silent(st, s)
                    /\ "rs" \in next <=> "rs" \in open
                    /\ "over" \in next <=> "over" \in open
                    /\ "msg" \in next => "msg" \in open
    BY <2>1, <2>3, ToolDeltasLevel, Zenon DEF ToolStep
  <2>5. s.text_part_started => st.text_part_started
    BY <2>1, <2>4, Zenon DEF Stands
  <2>6. PhaseOf(s, tokens, Joins(tool, ts))
    BY <1>2, <2>2, <2>4, <2>5, Zenon DEF Phase, PhaseOf, Silent, Thinking, Answering, Joins
  <2>7. Reasons(s.think_detected, s.text_part_started, next)
    BY <2>1, <2>4, <2>5, Zenon DEF Silent, Reasons
  <2> QED
    BY <2>3, <2>4, <2>6, <2>7, Zenon DEF Ready
<1> QED
  BY <1>1, <1>2

LEMMA ChunkReady ==
    ASSUME NEW st, NEW tokens, NEW tool, Ready(st, tokens, tool), Base(st), NEW args \in Seq(Pieces),
           ToolsFit(st, args), NEW c \in Contents \cup {NoContent}, NEW ts \in Tools, NEW finish_reason,
           n \in Nat, Len(tokens) > 0 => tokens[1].chunk # n + 1, NEW all, all = tokens \o Tokens(n + 1, c)
    PROVE  Ready(stream_chunk_from_openai(st, c, ts, finish_reason), all, Joins(tool, ts))
<1>1. PICK s1 : s1 = response_created(st)
  OBVIOUS
<1>2. Ready(s1, tokens, tool) /\ Base(s1) /\ ToolsFit(s1, args)
  <2>1. Same(st, s1) /\ \A open : Level(st, open) => Level(s1, open)
    <3>1. PICK open : Level(st, open)
      BY Zenon DEF Ready, Stands
    <3>2. Same(st, s1)
      BY <1>1, <3>1, CreatedLevel
    <3>3. ASSUME NEW o, Level(st, o) PROVE Level(s1, o)
      BY <1>1, <3>3, CreatedLevel
    <3> QED
      BY <3>2, <3>3
  <2>2. Quiet(st, s1)
    BY <1>1, ResponseCreatedQuiet
  <2>3. Base(s1) /\ ToolsFit(s1, args)
    BY <2>2, QuietFits DEF Quiet, Speaks
  <2> QED
    BY <2>1, <2>3, ReadyKept
<1>3. PICK s2 : s2 = finish(s1, finish_reason)
  OBVIOUS
<1>4. Ready(s2, tokens, tool) /\ Base(s2) /\ ToolsFit(s2, args)
  <2>1. Same(s1, s2) /\ \A open : Level(s1, open) => Level(s2, open)
    <3>1. PICK open : Level(s1, open)
      BY <1>2, Zenon DEF Ready, Stands
    <3>2. Same(s1, s2)
      BY <1>3, <3>1, FinishLevel
    <3>3. ASSUME NEW o, Level(s1, o) PROVE Level(s2, o)
      BY <1>3, <3>3, FinishLevel
    <3> QED
      BY <3>2, <3>3
  <2>2. Quiet(s1, s2)
    BY <1>2, <1>3, FinishQuiet
  <2>3. Base(s2) /\ ToolsFit(s2, args)
    BY <1>2, <2>2, QuietFits DEF Quiet, Speaks
  <2> QED
    BY <1>2, <2>1, <2>3, ReadyKept
<1>5. PICK s3 : s3 = content_delta(s2, c)
  OBVIOUS
<1>6. Ready(s3, all, tool)
  BY <1>4, <1>5, ContentReady
<1>7. Fits(s3)
  <2>1. Speaks(s2, s3, SpokenIn(n + 1, c))
    BY <1>4, <1>5, ContentDeltaSpeaks
  <2>2. Base(s3) /\ ToolsFit(s3, args)
    BY <1>4, <2>1, QuietFits DEF Speaks
  <2> QED
    BY <2>2 DEF Fits
<1>8. ts \in Seq(ToolDeltas)
  BY ChunksAssumption DEF ToolDeltas
<1>9. Ready(tool_deltas(s3, ts), all, Joins(tool, ts))
  BY <1>6, <1>7, <1>8, ToolsReady
<1> QED
  BY <1>1, <1>3, <1>5, <1>9, Zenon DEF stream_chunk_from_openai

---------------------------------------------------------------------------
(* The invariant of the items: the state is in the phase of the tokens that *)
(* came, and the client's log has the open items it stands for; none but a  *)
(* reasoning item that is done once the stream has ended.                   *)

Outline(log, st) ==
    /\ st.message_started = st.text_part_started
    /\ \E open : /\ OpenIn(log, open)
                 /\ st.text_part_started <=> "msg" \in open
                 /\ \A i \in ToolIndex : st.tool_states[i].started <=> i \in open
                 /\ Reasons(st.think_detected, st.text_part_started, open)
Balanced(log, st, over) ==
    IF over THEN \E left : Left(left) /\ OpenIn(log, left) ELSE Outline(log, st)
Tooled(g) == g.toolAt # NoToolYet
Begun(tokens, k) == Len(tokens) > 0 => tokens[1].chunk <= k
ItemInv ==
    /\ PhaseOf(state, got.tokens, Tooled(got)) /\ Balanced(out, state, ended)
    /\ Begun(got.tokens, n)

LEMMA OutlineNow ==
    ASSUME TellInv, NEW tokens, NEW tool, PhaseOf(state, tokens, tool), Outline(out, state)
    PROVE  Ready(state, tokens, tool)
<1>1. state \in States /\ out \in Seq(Events) /\ state.events = <<>>
  BY DEF TellInv, Account
<1>2. Log(state) = out
  <2>1. out \o <<>> = out
    BY <1>1, ConcatEmptySeq
  <2> QED
    BY <1>1, <2>1, Zenon DEF Log
<1> QED
  BY <1>1, <1>2, Zenon DEF Outline, Ready, Stands, Level

\* What a handler leaves is what the client's log and the next state are.
LEMMA WriteFields ==
    ASSUME NEW s \in States, Write(s)
    PROVE  /\ out' = Log(s) /\ state'.first_content = s.first_content
           /\ state'.think_detected = s.think_detected /\ state'.text_part_started = s.text_part_started
           /\ state'.message_started = s.message_started /\ state'.reasoning_text = s.reasoning_text
           /\ state'.accumulated_text = s.accumulated_text /\ state'.tool_states = s.tool_states
<1>1. PICK none : none = <<>>
  OBVIOUS
<1>2. PICK st : st = [s EXCEPT !.events = none]
  OBVIOUS
<1>3. /\ st.first_content = s.first_content /\ st.think_detected = s.think_detected
      /\ st.text_part_started = s.text_part_started /\ st.message_started = s.message_started
      /\ st.reasoning_text = s.reasoning_text /\ st.accumulated_text = s.accumulated_text
      /\ st.tool_states = s.tool_states
  BY <1>2 DEF States
<1>4. state' = st /\ out' = Log(s)
  BY <1>1, <1>2 DEF Write, Log
<1> QED
  BY <1>3, <1>4, Zenon

LEMMA WriteReady ==
    ASSUME NEW s, NEW tokens, NEW tool, Ready(s, tokens, tool), Write(s)
    PROVE  PhaseOf(state', tokens, tool) /\ Outline(out', state')
<1>1. PICK open : Stands(s, open) /\ Reasons(s.think_detected, s.text_part_started, open)
  BY Zenon DEF Ready
<1>2. s \in States /\ OpenIn(Log(s), open)
  BY <1>1 DEF Stands, Level
<1>3. PICK st, log : st = state' /\ log = out'
  OBVIOUS
<1>4. /\ log = Log(s) /\ st.first_content = s.first_content
      /\ st.think_detected = s.think_detected /\ st.text_part_started = s.text_part_started
      /\ st.message_started = s.message_started /\ st.reasoning_text = s.reasoning_text
      /\ st.accumulated_text = s.accumulated_text /\ st.tool_states = s.tool_states
  BY <1>2, <1>3, WriteFields
<1>5. PhaseOf(st, tokens, tool)
  BY <1>4, Zenon DEF Ready, PhaseOf
<1>6. Outline(log, st)
  BY <1>1, <1>2, <1>4, Zenon DEF Outline, Stands
<1> QED
  BY <1>3, <1>5, <1>6, Zenon

LEMMA InitItems == Init => ItemInv
<1> SUFFICES ASSUME Init PROVE ItemInv
  OBVIOUS
<1>1. PICK none \in Seq(Pieces) : none = <<>> /\ Text(none) = none /\ Len(none) = 0
  BY TextOfNothing
<1>2. PICK quiet \in Seq(Events) : quiet = <<>> /\ Len(quiet) = 0
  <2>1. <<>> \in Seq(Events) /\ Len(<<>>) = 0
    OBVIOUS
  <2> QED
    BY <2>1, Zenon
<1>3. PICK tools : tools = [i \in ToolIndex |-> no_tool]
  OBVIOUS
<1>4. /\ state.first_content = TRUE /\ state.think_detected = FALSE /\ state.text_part_started = FALSE
      /\ state.message_started = FALSE /\ state.reasoning_text = none /\ state.accumulated_text = none
      /\ state.tool_states = tools
  <2>1. state = [seq |-> 0, output_index |-> 0, next_output_index |-> 1, first_content |-> TRUE,
                 think_detected |-> FALSE, reasoning_text |-> none, accumulated_text |-> none,
                 message_started |-> FALSE, text_part_started |-> FALSE, response_created |-> FALSE,
                 status |-> "completed", tool_states |-> tools, events |-> quiet]
    BY <1>1, <1>2, <1>3 DEF Init, new_stream_state
  <2> QED
    BY <2>1
<1>5. out = quiet /\ got.tokens = none /\ ended = FALSE
  BY <1>1, <1>2 DEF Init, nothing
<1>6. PhaseOf(state, none, Tooled(got)) /\ Begun(none, n)
  <2>1. ~(Len(none) > 0)
    BY <1>1
  <2> QED
    BY <1>1, <1>4, <2>1, Zenon DEF PhaseOf, Phase, Begun
<1>7. OpenIn(out, {})
  <2>1. ASSUME NEW type, NEW item PROVE CountIn(quiet, type, item, Len(quiet)) = 0
    <3>1. Marks(quiet, type, item, 0) = {}
      BY DEF Marks
    <3> QED
      BY <1>2, <3>1, FS_EmptySet DEF CountIn
  <2>2. ASSUME NEW item \in Items PROVE Stand(quiet, item, {})
    BY <2>1 DEF Stand, IsShut
  <2>3. DeltasOK(quiet)
    BY <1>2 DEF DeltasOK
  <2>4. {} \in SUBSET (Items \cup {"over"}) /\ "over" \notin {}
    OBVIOUS
  <2> QED
    BY <1>5, <2>2, <2>3, <2>4, Zenon DEF OpenIn
<1>8. ASSUME NEW i \in ToolIndex PROVE ~state.tool_states[i].started
  BY <1>3, <1>4 DEF no_tool
<1>9. Outline(out, state)
  <2>1. PICK open : open = {}
    OBVIOUS
  <2>2. "msg" \notin open /\ "rs" \notin open /\ \A i \in ToolIndex : i \notin open
    BY <2>1
  <2>3. /\ OpenIn(out, open) /\ (state.text_part_started <=> "msg" \in open)
        /\ (\A i \in ToolIndex : state.tool_states[i].started <=> i \in open)
        /\ Reasons(state.think_detected, state.text_part_started, open)
    BY <1>4, <1>7, <1>8, <2>1, <2>2, Zenon DEF Reasons
  <2>4. state.message_started = state.text_part_started
    BY <1>4, Zenon
  <2> QED
    BY <2>3, <2>4, Zenon DEF Outline
<1> QED
  BY <1>5, <1>6, <1>9, Zenon DEF Balanced, ItemInv

LEMMA FirstChunk ==
    ASSUME NEW tokens \in Seq(Pieces), Len(tokens) > 0
    PROVE  tokens[1].chunk \in Nat
<1>1. 1 \in 1..Len(tokens)
  OBVIOUS
<1>2. PICK piece \in Pieces : piece = tokens[1]
  BY <1>1, ElementOfSeq
<1> QED
  BY <1>2 DEF Pieces

LEMMA StepItems == TellInv /\ ItemInv /\ [Next]_vars => ItemInv'
<1> SUFFICES ASSUME TellInv, ItemInv, [Next]_vars
             PROVE  /\ PhaseOf(state', got'.tokens, Tooled(got')) /\ Balanced(out', state', ended')
                    /\ Begun(got'.tokens, n')
  BY DEF ItemInv
<1>1. /\ Base(state) /\ n \in Nat /\ got.tokens \in Seq(Pieces) /\ got.args \in Seq(Pieces)
      /\ ToolsFit(state, got.args)
  BY TellNow
<1>2. ASSUME ~ended PROVE Ready(state, got.tokens, Tooled(got))
  <2>1. PhaseOf(state, got.tokens, Tooled(got)) /\ Outline(out, state)
    BY <1>2, Zenon DEF ItemInv, Balanced
  <2> QED
    BY <2>1, OutlineNow
<1>3. ASSUME NEW s, NEW tokens, NEW tool, Ready(s, tokens, tool), Write(s), tokens = got'.tokens,
             tool = Tooled(got'), ~ended'
      PROVE  PhaseOf(state', got'.tokens, Tooled(got')) /\ Balanced(out', state', ended')
  <2>1. PhaseOf(state', tokens, tool) /\ Outline(out', state')
    BY <1>3, WriteReady
  <2> QED
    BY <1>3, <2>1, Zenon DEF Balanced
<1>4. ASSUME got' = got, n' = n \/ n' = n + 1 PROVE Begun(got'.tokens, n') /\ Tooled(got') = Tooled(got)
  <2>1. PICK tokens, k : tokens \in Seq(Pieces) /\ tokens = got.tokens /\ tokens = got'.tokens /\ k = n'
    BY <1>1, <1>4, Zenon
  <2>2. Len(tokens) > 0 => tokens[1].chunk \in Nat
    BY <2>1, FirstChunk
  <2>3. Begun(tokens, k)
    BY <1>1, <1>4, <2>1, <2>2 DEF ItemInv, Begun
  <2>4. Tooled(got') = Tooled(got)
    BY <1>4 DEF Tooled
  <2> QED
    BY <2>1, <2>3, <2>4, Zenon
<1>5. ASSUME NEW c \in Contents \cup {NoContent}, NEW ts \in Tools, NEW f \in FinishReasons, Chunk(c, ts, f)
      PROVE  /\ PhaseOf(state', got'.tokens, Tooled(got')) /\ Balanced(out', state', ended')
             /\ Begun(got'.tokens, n')
  <2>1. /\ Write(stream_chunk_from_openai(state, c, ts, f)) /\ got' = Extend(got, n + 1, c, ts)
        /\ ~ended /\ ~ended' /\ n' = n + 1
    BY <1>5 DEF Chunk
  <2>2. PICK k \in Nat : k = n + 1
    BY <1>1
  <2>3. PICK tokens \in Seq(Pieces) : tokens = got.tokens
    BY <1>1
  <2>4. PICK all : all = tokens \o Tokens(k, c)
    OBVIOUS
  <2>5. Begun(tokens, n) /\ (Len(tokens) > 0 => tokens[1].chunk # n + 1)
    <3>1. Begun(tokens, n)
      BY <2>3, Zenon DEF ItemInv
    <3>2. Len(tokens) > 0 => tokens[1].chunk \in Nat
      BY FirstChunk
    <3> QED
      BY <1>1, <3>1, <3>2 DEF Begun
  <2>6. PICK s : s = stream_chunk_from_openai(state, c, ts, f)
    OBVIOUS
  <2>7. PICK tool : tool = Tooled(got)
    OBVIOUS
  <2>8. Ready(s, all, Joins(tool, ts))
    <3>1. Ready(state, tokens, tool)
      BY <1>2, <2>1, <2>3, <2>7
    <3>2. all = tokens \o Tokens(n + 1, c)
      BY <2>2, <2>4
    <3> QED
      BY <1>1, <2>5, <2>6, <3>1, <3>2, ChunkReady, Zenon
  <2>9. got'.tokens = all /\ (Tooled(got') <=> Joins(tool, ts))
    <3>1. PICK at : at = IF ts # <<>> /\ got.toolAt = NoToolYet THEN Len(all) ELSE got.toolAt
      OBVIOUS
    <3>2. PICK args : got' = [tokens |-> all, args |-> args, toolAt |-> at]
      BY <2>1, <2>2, <2>3, <2>4, <3>1, Zenon DEF Extend
    <3>3. got'.tokens = all /\ got'.toolAt = at
      BY <3>2
    <3>4. Len(all) # NoToolYet
      <4>1. all \in Seq(Pieces)
        BY <2>4, TokensText
      <4> QED
        BY <4>1 DEF NoToolYet
    <3> QED
      BY <2>7, <3>1, <3>3, <3>4, Zenon DEF Tooled, Joins
  <2>10. Begun(all, k)
    <3>1. PICK new \in Seq(Pieces) : new = Tokens(k, c)
      BY TokensType
    <3>2. CASE c = NoContent
      <4>1. all = tokens
        BY <2>4, <3>2, PiecesNeutral DEF Tokens, Neutral
      <4>2. Len(tokens) > 0 => tokens[1].chunk \in Nat
        BY FirstChunk
      <4> QED
        BY <1>1, <2>2, <2>5, <4>1, <4>2 DEF Begun
    <3>3. CASE c # NoContent
      <4>1. From(new, k) /\ Len(new) > 0
        BY <3>1, <3>3, TokensFrom, TokensPlaces
      <4>2. new[1].chunk = k
        BY <4>1 DEF From
      <4>3. CASE Len(tokens) > 0
        <5>1. all[1] = tokens[1]
          BY <2>4, <3>1, <4>3, Grown
        <5>2. tokens[1].chunk \in Nat
          BY <4>3, FirstChunk
        <5> QED
          BY <1>1, <2>2, <2>5, <4>3, <5>1, <5>2 DEF Begun
      <4>4. CASE ~(Len(tokens) > 0)
        <5>1. tokens = <<>>
          BY <4>4, EmptySeq
        <5>2. all = new
          BY <2>4, <3>1, <5>1, PiecesNeutral DEF Neutral
        <5> QED
          BY <4>2, <5>2 DEF Begun
      <4> QED
        BY <4>3, <4>4
    <3> QED
      BY <3>2, <3>3
  <2>11. Joins(tool, ts) = Tooled(got')
    BY <2>9, Zenon DEF Tooled, Joins
  <2> QED
    BY <1>3, <2>1, <2>2, <2>6, <2>8, <2>9, <2>10, <2>11, Zenon
<1>6. CASE ChunkWithoutChoice
  <2>1. Write(response_created(state)) /\ got' = got /\ ~ended /\ ~ended' /\ n' = n + 1
    BY <1>6 DEF ChunkWithoutChoice
  <2>2. Ready(state, got.tokens, Tooled(got))
    BY <1>2, <2>1, Zenon
  <2>3. PICK s : s = response_created(state)
    OBVIOUS
  <2>4. Ready(s, got.tokens, Tooled(got))
    <3>1. PICK open : Level(state, open)
      BY <2>2, Zenon DEF Ready, Stands
    <3>2. Same(state, s)
      BY <2>3, <3>1, CreatedLevel
    <3>3. ASSUME NEW o, Level(state, o) PROVE Level(s, o)
      BY <2>3, <3>3, CreatedLevel
    <3> QED
      BY <2>2, <3>2, <3>3, ReadyKept
  <2>5. PICK tokens, tool : tokens = got.tokens /\ tool = Tooled(got)
    OBVIOUS
  <2>6. tokens = got'.tokens /\ tool = Tooled(got') /\ Begun(got'.tokens, n')
    BY <1>4, <2>1, <2>5, Zenon
  <2> QED
    BY <1>3, <2>1, <2>3, <2>4, <2>5, <2>6, Zenon
<1>7. CASE End
  <2>1. Write(stream_end(state)) /\ got' = got /\ ~ended /\ ended' /\ n' = n
    BY <1>7 DEF End
  <2>2. Ready(state, got.tokens, Tooled(got))
    BY <1>2, <2>1, Zenon
  <2>3. PICK s : s = stream_end(state)
    OBVIOUS
  <2>4. PICK open : Stands(state, open) /\ Reasons(state.think_detected, state.text_part_started, open)
    BY <2>2, Zenon DEF Ready
  <2>5. (\E left : Left(left) /\ Level(s, left)) /\ Same(state, s)
    BY <2>3, <2>4, StreamEndLevel, Zenon DEF Reasons
  <2>6. PICK left : Left(left) /\ s \in States /\ OpenIn(Log(s), left)
    BY <2>5, Zenon DEF Level
  <2>7. PICK st, log : st = state' /\ log = out'
    OBVIOUS
  <2>8. /\ log = Log(s) /\ st.first_content = s.first_content
        /\ st.think_detected = s.think_detected /\ st.text_part_started = s.text_part_started
        /\ st.reasoning_text = s.reasoning_text /\ st.accumulated_text = s.accumulated_text
    BY <2>1, <2>3, <2>6, <2>7, WriteFields
  <2>9. PICK tokens, tool : tokens = got.tokens /\ tokens = got'.tokens /\ tool = Tooled(got) /\ tool = Tooled(got')
    BY <1>4, <2>1, Zenon
  <2>10. PhaseOf(st, tokens, tool)
    BY <2>2, <2>5, <2>8, <2>9, Zenon DEF Ready, PhaseOf, Same
  <2>11. Balanced(log, st, TRUE)
    BY <2>6, <2>8, Zenon DEF Balanced
  <2>12. Balanced(out', state', ended')
    BY <2>1, <2>7, <2>11, Zenon DEF Balanced
  <2> QED
    BY <1>4, <2>1, <2>7, <2>9, <2>10, <2>12, Zenon
<1>8. CASE state' = state /\ out' = out /\ got' = got /\ ended' = ended /\ (n' = n \/ n' = n + 1)
  <2>1. PICK tokens, tool : tokens = got.tokens /\ tokens = got'.tokens /\ tool = Tooled(got) /\ tool = Tooled(got')
    BY <1>4, <1>8, Zenon
  <2>2. PhaseOf(state, tokens, tool) /\ Balanced(out, state, ended)
    BY <2>1, Zenon DEF ItemInv
  <2> QED
    BY <1>4, <1>8, <2>1, <2>2, Zenon
<1>9. CASE ChunkUnreadable
  BY <1>8, <1>9 DEF ChunkUnreadable
<1>10. CASE UNCHANGED vars
  BY <1>8, <1>10 DEF vars
<1> QED
  BY <1>5, <1>6, <1>7, <1>9, <1>10 DEF Next, Done

LEMMA BracketsEnough == TellInv /\ ItemInv => ItemsBracketed
<1> SUFFICES ASSUME TellInv, ItemInv PROVE ItemsBracketed
  OBVIOUS
<1>1. DOMAIN out = 1..Len(out)
  <2>1. out \in Seq(Events)
    BY DEF TellInv, Account
  <2> QED
    BY <2>1, LenProperties
<1>2. \A type, item, k : Count(type, item, k) = CountIn(out, type, item, k)
  BY Zenon DEF Count, CountIn, Marks
<1>3. Balanced(out, state, ended)
  BY Zenon DEF ItemInv
<1>4. PICK open : OpenIn(out, open)
  BY <1>3, Zenon DEF Balanced, Outline
<1>5. ASSUME NEW i \in DOMAIN out, out[i].type = "delta"
      PROVE  Count("item.added", out[i].item, i) =
               IF out[i].item = "rs" THEN 1 ELSE Count("item.done", out[i].item, i) + 1
  BY <1>1, <1>2, <1>4, <1>5, Zenon DEF OpenIn, DeltasOK, IsOpen
<1>6. ASSUME ended
      PROVE  /\ \A item \in Items \ {"rs"} :
                   Count("item.added", item, Len(out)) = Count("item.done", item, Len(out))
             /\ Count("item.added", "rs", Len(out)) \in {0, 1}
             /\ Count("item.added", "rs", Len(out)) = 1 <=> Count("item.done", "rs", Len(out)) > 0
  <2>1. PICK left : Left(left) /\ OpenIn(out, left)
    BY <1>3, <1>6, Zenon DEF Balanced
  <2>2. ASSUME NEW item \in Items \ {"rs"}
        PROVE  Count("item.added", item, Len(out)) = Count("item.done", item, Len(out))
    <3>1. item \notin left /\ item \in Items
      BY <2>1 DEF Left, Items, ToolIndex
    <3> QED
      BY <1>2, <2>1, <3>1, Zenon DEF OpenIn, Stand, IsShut
  <2>3. "rs" \in Items
    BY DEF Items
  <2>4. CASE "rs" \in left
    <3>1. "over" \in left
      BY <2>1, <2>4 DEF Left
    <3>2. CountIn(out, "item.added", "rs", Len(out)) = 1 /\ CountIn(out, "item.done", "rs", Len(out)) > 0
      BY <2>1, <2>3, <2>4, <3>1, Zenon DEF OpenIn, Stand, IsOpen, Over
    <3> QED
      BY <1>2, <2>2, <3>2
  <2>5. CASE "rs" \notin left
    <3>1. CountIn(out, "item.added", "rs", Len(out)) = 0 /\ CountIn(out, "item.done", "rs", Len(out)) = 0
      BY <2>1, <2>3, <2>5, Zenon DEF OpenIn, Stand, IsShut
    <3> QED
      BY <1>2, <2>2, <3>1
  <2> QED
    BY <2>4, <2>5
<1> QED
  BY <1>5, <1>6, Zenon DEF ItemsBracketed

\* What is cut off at its own length is itself, and so is the front of what follows it.
LEMMA FrontOf ==
    ASSUME NEW p \in Seq(Pieces), NEW q \in Seq(Pieces)
    PROVE  SubSeq(p \o q, 1, Len(p)) = p
<1>1. PICK l \in Nat, m \in Nat : l = Len(p) /\ m = Len(q)
  OBVIOUS
<1>2. PICK all \in Seq(Pieces) : all = p \o q
  BY ConcatProperties
<1>3. Len(all) = l + m /\ \A i \in 1..l + m : all[i] = IF i <= l THEN p[i] ELSE q[i - l]
  <2>1. Joined(p, q)
    BY PiecesJoined
  <2> QED
    BY <1>1, <1>2, <2>1 DEF Joined
<1>4. PICK part : part = SubSeq(all, 1, l)
  OBVIOUS
<1>5. part \in Seq(Pieces) /\ Len(part) = l - 1 + 1 /\ \A i \in 1..l - 1 + 1 : part[i] = all[1 + i - 1]
  BY <1>3, <1>4, PiecesCut
<1>6. Len(part) = l /\ \A i \in 1..l : part[i] = p[i]
  <2>1. l - 1 + 1 = l /\ \A i \in 1..l : 1 + i - 1 = i
    OBVIOUS
  <2>2. \A i \in 1..l : part[i] = all[i]
    BY <1>5, <2>1
  <2> QED
    BY <1>3, <1>5, <2>1, <2>2
<1>7. part = p
  BY <1>1, <1>5, <1>6, SeqEqual
<1> QED
  BY <1>1, <1>2, <1>4, <1>7, Zenon

\* The answer has a first piece.
LEMMA AnswerFirst ==
    ASSUME NEW tokens \in Seq(Pieces), Answers(tokens) # {}
    PROVE  AnswerAt(tokens) \in Answers(tokens)
<1>1. Answers(tokens) \subseteq Nat
  BY LenProperties DEF Answers
<1>2. \E i \in Answers(tokens) : \A j \in Answers(tokens) : i <= j
  BY <1>1, LeastNatural
<1> QED
  BY <1>2 DEF AnswerAt

\* Where the two translators cut at the same place they tell the same.
LEMMA SameCutSame ==
    ASSUME NEW tokens \in Seq(Pieces), SameCut(tokens)
    PROVE  Split(tokens) = response_from_openai(tokens)
<1>1. DOMAIN tokens = 1..Len(tokens) /\ Len(tokens) \in Nat
  BY LenProperties
<1>2. CASE OpenLen(tokens) = 0
  <2>1. ~Thinks(tokens)
    BY <1>2 DEF OpenLen, Thinks
  <2> QED
    BY <1>2, <2>1, Zenon DEF Split, response_from_openai
<1>3. CASE OpenLen(tokens) # 0
  <2>1. PICK i \in Closes(tokens) : /\ Thinks(tokens) /\ Answers(tokens) # {}
                                    /\ i = AnswerAt(tokens) - 1 /\ \A j \in Closes(tokens) : i <= j
    BY <1>3 DEF SameCut
  <2>2. PICK close : close = CHOOSE k \in Closes(tokens) : \A j \in Closes(tokens) : k <= j
    OBVIOUS
  <2>3. close \in Closes(tokens) /\ \A j \in Closes(tokens) : close <= j
    BY <2>1, <2>2
  <2>4. \A j \in Closes(tokens) : j \in Nat
    BY <1>1 DEF Closes
  <2>5. close = i
    BY <2>1, <2>3, <2>4
  <2>6. PICK at : at = AnswerAt(tokens) /\ at \in Answers(tokens)
    BY <2>1, AnswerFirst
  <2>7. at \in Nat
    BY <1>1, <2>6 DEF Answers
  <2>8. at - 1 = close /\ at = close + 1
    BY <2>1, <2>4, <2>5, <2>6, <2>7
  <2>9. Split(tokens) = [thinking |-> Text(SubSeq(tokens, 1, at - 1)), text |-> Text(SubSeq(tokens, at, Len(tokens)))]
    BY <2>1, <2>6 DEF Split
  <2>10. Closes(tokens) # {}
    BY <2>1
  <2>11. response_from_openai(tokens) = [thinking |-> Text(SubSeq(tokens, 1, close)),
                                         text     |-> Text(SubSeq(tokens, close + 1, Len(tokens)))]
    BY <1>3, <2>2, <2>10 DEF response_from_openai
  <2> QED
    BY <2>8, <2>9, <2>11, Zenon
<1> QED
  BY <1>2, <1>3

LEMMA SplitEnough == TellInv /\ ItemInv => ReasoningSplit
<1> SUFFICES ASSUME TellInv, ItemInv PROVE ReasoningSplit
  OBVIOUS
<1>1. PICK tokens \in Seq(Pieces) : tokens = got.tokens
  BY DEF TellInv, Account
<1>2. PICK first, think, part, reasoning, text :
        /\ first = state.first_content /\ think = state.think_detected /\ part = state.text_part_started
        /\ reasoning = state.reasoning_text /\ text = state.accumulated_text
  BY Zenon
<1>3. PICK tool : tool = Tooled(got) /\ (~tool <=> got.toolAt = NoToolYet)
  BY Zenon DEF Tooled
<1>4. Phase(first, think, part, reasoning, text, tokens, tool)
  BY <1>1, <1>2, <1>3, Zenon DEF ItemInv, PhaseOf
<1>5. Data({"rs"}) = reasoning /\ Data({"msg"}) = text
  <2>1. out \in Seq(Events) /\ Told(out, {"rs"}) = reasoning /\ Told(out, {"msg"}) = text
    BY <1>2, Zenon DEF TellInv, Account
  <2>2. DOMAIN out = 1..Len(out)
    BY <2>1, LenProperties
  <2>3. \A items : Data(items) = Told(out, items)
    BY <2>2, Zenon DEF Data, Told, Upto, Carried
  <2> QED
    BY <2>1, <2>3, Zenon
<1>6. PICK apart, split : /\ apart = [thinking |-> reasoning, text |-> text] /\ split = Split(tokens)
                          /\ Apart = apart
  BY <1>5, Zenon DEF Apart
<1>7. think <=> Thinks(tokens)
  <2>1. Len(tokens) \in Nat /\ (Len(tokens) = 0 <=> tokens = <<>>)
    BY EmptySeq
  <2> QED
    BY <1>4, <2>1 DEF Phase, Thinks
<1>8. /\ ~think \/ ~tool \/ Answers(tokens) = {} => apart = split
      /\ SubSeq(reasoning, 1, Len(split.thinking)) = split.thinking
  <2>0. PICK none \in Seq(Pieces) : none = <<>>
    BY Empty, Zenon
  <2>1. CASE ~think
    <3>1. reasoning = none /\ text = Text(tokens)
      BY <1>4, <2>0, <2>1, Zenon DEF Phase
    <3>2. split = [thinking |-> reasoning, text |-> text]
      BY <1>6, <1>7, <2>0, <2>1, <3>1, Zenon DEF Split
    <3>3. split.thinking = none /\ apart = split
      BY <1>6, <3>1, <3>2
    <3>4. SubSeq(none \o none, 1, Len(none)) = none
      BY FrontOf
    <3> QED
      BY <2>0, <3>1, <3>3, <3>4, Empty, Zenon
  <2>2. CASE think /\ Thinking(part, reasoning, text, tokens)
    <3>1. NoAnswer(tokens) /\ reasoning = Text(tokens) /\ text = <<>>
      BY <2>2, Zenon DEF Thinking
    <3>2. Answers(tokens) = {}
      BY <3>1, NoAnswerIs
    <3>3. split = [thinking |-> reasoning, text |-> text]
      BY <1>6, <1>7, <2>2, <3>1, <3>2, Zenon DEF Split
    <3>4. split.thinking = reasoning /\ apart = split
      BY <1>6, <3>3
    <3>5. reasoning \in Seq(Pieces)
      BY <1>2 DEF TellInv, Account, States
    <3>6. SubSeq(reasoning \o none, 1, Len(reasoning)) = reasoning /\ Neutral(reasoning)
      BY <3>5, FrontOf, PiecesNeutral
    <3> QED
      BY <2>0, <3>4, <3>6, Zenon DEF Neutral
  <2>3. CASE think /\ Answering(part, reasoning, text, tokens, tool)
    <3>1. PICK th \in Seq(Pieces), tx \in Seq(Pieces), w \in Seq(Pieces) :
            /\ Answered(tokens, th, tx) /\ reasoning = th \o w
            /\ ~tool => part /\ w = <<>> /\ text = tx
      BY <2>3, Zenon DEF Answering
    <3>2. split = [thinking |-> th, text |-> tx] /\ Answers(tokens) # {}
      BY <1>6, <1>7, <2>3, <3>1, CutAtAnswer
    <3>3. split.thinking = th
      BY <3>2
    <3>4. SubSeq(th \o w, 1, Len(th)) = th
      BY FrontOf
    <3>5. ASSUME ~tool PROVE apart = split
      <4>1. Neutral(th)
        BY PiecesNeutral
      <4>2. reasoning = th /\ text = tx
        BY <3>1, <3>5, <4>1, Zenon DEF Neutral
      <4> QED
        BY <1>6, <3>2, <4>2, Zenon
    <3> QED
      BY <2>3, <3>1, <3>2, <3>3, <3>4, <3>5, Zenon
  <2> QED
    BY <1>4, <2>1, <2>2, <2>3, Zenon DEF Phase
<1>9. SameCut(tokens) => split = response_from_openai(tokens)
  BY <1>6, SameCutSame
<1> QED
  BY <1>1, <1>3, <1>5, <1>6, <1>7, <1>8, <1>9, Zenon DEF ReasoningSplit

\* For every stream of chunks, whatever its length, its contents and its tool calls: a
\* delta of the message or of a call is sent only while that item is open, tool calls that
\* interrupt the message and the message opened again included, and when the stream has
\* ended they are done as often as they were added.  The reasoning item is added at most
\* once, before its first delta, and is done by the end.
THEOREM BracketedItems == Spec => []ItemsBracketed
<1>1. Init => TellInv /\ ItemInv
  BY InitTell, InitItems
<1>2. TellInv /\ ItemInv /\ [Next]_vars => TellInv' /\ ItemInv'
  BY StepTell, StepItems
<1>3. TellInv /\ ItemInv => ItemsBracketed
  BY BracketsEnough
<1> QED
  BY <1>1, <1>2, <1>3, PTL DEF Spec

\* For every stream of chunks: without a tool call, or as long as there is no answer, the
\* reasoning deltas and the text deltas add up to the message cut where text first
\* follows a </think> in its delta, and to what the non-streaming translator makes of the
\* whole message when its own cut is there too; with tool calls the reasoning deltas
\* begin with the reasoning of that cut.
THEOREM ReasoningApart == Spec => []ReasoningSplit
<1>1. Init => TellInv /\ ItemInv
  BY InitTell, InitItems
<1>2. TellInv /\ ItemInv /\ [Next]_vars => TellInv' /\ ItemInv'
  BY StepTell, StepItems
<1>3. TellInv /\ ItemInv => ReasoningSplit
  BY SplitEnough
<1> QED
  BY <1>1, <1>2, <1>3, PTL DEF Spec
==============================================================================
