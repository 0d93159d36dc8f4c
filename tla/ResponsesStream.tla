-------------------------- MODULE ResponsesStream --------------------------
(***************************************************************************)
(* lua/responses_format.lua, streaming: OpenAI chat-completion chunks in,  *)
(* Responses API events out (stream_chunk_from_openai, stream_end).        *)
(* OpenAIChunks says what a chunk is; as in ClaudeStream the think_buffer  *)
(* is never carried from one delta to the next.                            *)
(*                                                                         *)
(* An event is [type, seq, item, index, data].  The items are "rs" (the    *)
(* reasoning item), "msg" (the message, which keeps its id when it is      *)
(* opened again) and one per tool call.                                    *)
(***************************************************************************)
EXTENDS OpenAIChunks

VARIABLES state,   \* new_stream_state
          out,     \* the events written to the client
          n,       \* chunks received
          ended,   \* stream_end has run
          got      \* history: the message the chunks add up to

vars == <<state, out, n, ended, got>>

Items == {"rs", "msg"} \cup ToolIndex

---------------------------------------------------------------------------
no_tool == [seen |-> FALSE, known |-> FALSE, started |-> FALSE, args |-> <<>>, output_index |-> 0]

new_stream_state ==
    [seq |-> 0, output_index |-> 0, next_output_index |-> 1, first_content |-> TRUE,
     think_detected |-> FALSE, reasoning_text |-> <<>>, accumulated_text |-> <<>>,
     message_started |-> FALSE, text_part_started |-> FALSE, response_created |-> FALSE,
     status |-> "completed", tool_states |-> [i \in ToolIndex |-> no_tool], events |-> <<>>]

\* The handlers map a stream state to the next one; `events` collects their output.
stream_event(st, type, item, index, data) ==
    [st EXCEPT !.seq = @ + 1,
               !.events = Append(@, [type |-> type, seq |-> st.seq + 1, item |-> item,
                                     index |-> index, data |-> data])]

ensure_message_started(st) ==
    IF st.message_started THEN st
    ELSE stream_event([st EXCEPT !.message_started = TRUE], "item.added", "msg", st.output_index, <<>>)

ensure_text_part_started(st0) ==
    LET st == ensure_message_started(st0)
    IN  IF st.text_part_started THEN st
        ELSE stream_event([st EXCEPT !.text_part_started = TRUE],
                          "part.added", "msg", st.output_index, <<>>)

\* Mutant: the text is sent on and not accumulated.
text_out_lost(st0, text) ==
    LET st == ensure_text_part_started(st0)
    IN  stream_event(st, "delta", "msg", st.output_index, text)

text_out(st0, text) ==
    LET st == ensure_text_part_started(st0)
    IN  stream_event([st EXCEPT !.accumulated_text = @ \o text], "delta", "msg", st.output_index, text)

reasoning_out(st, index, text) ==
    stream_event([st EXCEPT !.reasoning_text = @ \o text], "delta", "rs", index, text)

reasoning_close(st) ==
    stream_event(stream_event(st, "text.done", "rs", 0, st.reasoning_text),
                 "item.done", "rs", 0, st.reasoning_text)

message_close(st) ==
    LET Ev(s, type) == stream_event(s, type, "msg", s.output_index, s.accumulated_text)
    IN  Ev(Ev(Ev(st, "text.done"), "part.done"), "item.done")

---------------------------------------------------------------------------
(* The content of a chunk                                                  *)

first_delta(st0, c) ==
    LET st == [st0 EXCEPT !.first_content = FALSE]
        xy == X(n + 1, c) \o Y(n + 1, c)
    IN  IF c.tag = "full"
        THEN LET open == [stream_event([st EXCEPT !.think_detected = TRUE],
                                       "item.added", "rs", st.output_index, <<>>)
                          EXCEPT !.next_output_index = @ + 1]
             IN  IF c.x \/ c.close THEN reasoning_out(open, open.output_index, xy) ELSE open
        ELSE text_out([st EXCEPT !.output_index = st.next_output_index - 1], xy)

\* Mutant: the reasoning item is not closed.
reasoning_delta_open(st, c) ==
    IF ~c.close THEN reasoning_out(st, 0, X(n + 1, c) \o Y(n + 1, c))
    ELSE text_out(reasoning_out(st, 0, X(n + 1, c)), Y(n + 1, c))

\* Reasoning is on as long as no text part is open, also when </think> has come.
reasoning_delta(st, c) ==
    IF ~c.close THEN reasoning_out(st, 0, X(n + 1, c) \o Y(n + 1, c))
    ELSE LET before == IF c.tag # "none" \/ c.x THEN reasoning_out(st, 0, X(n + 1, c)) ELSE st
             closed == [reasoning_close(before) EXCEPT
                          !.output_index = before.next_output_index, !.next_output_index = @ + 1]
         IN  IF c.y THEN text_out(closed, Y(n + 1, c)) ELSE closed

text_delta(st, c) ==
    text_out(IF st.message_started THEN st
             ELSE [st EXCEPT !.output_index = st.next_output_index - 1],
             X(n + 1, c) \o Y(n + 1, c))

\* Mutant: a delta with a tag is dropped.
content_delta_tagless(st, c) ==
    IF c = NoContent THEN st
    ELSE IF st.first_content THEN first_delta(st, c)
    ELSE IF c.close THEN reasoning_close(st)
    ELSE text_delta(st, c)

\* Mutant: once there was reasoning, everything is.
content_delta_stuck(st, c) ==
    IF c = NoContent THEN st
    ELSE IF st.first_content THEN first_delta(st, c)
    ELSE IF st.think_detected THEN reasoning_delta(st, c)
    ELSE text_delta(st, c)

content_delta(st, c) ==
    IF c = NoContent THEN st
    ELSE IF st.first_content THEN first_delta(st, c)
    ELSE IF st.think_detected /\ ~st.text_part_started THEN reasoning_delta(st, c)
    ELSE text_delta(st, c)

---------------------------------------------------------------------------
(* The tool calls of a chunk                                               *)

close_for_tool(st) ==
    IF ~st.text_part_started THEN st
    ELSE [message_close(st) EXCEPT !.text_part_started = FALSE, !.message_started = FALSE]

tool_delta(st0, t) ==
    LET i   == t.idx
        st  == IF st0.tool_states[i].seen THEN st0
               ELSE [st0 EXCEPT !.tool_states[i] =
                        [no_tool EXCEPT !.seen = TRUE, !.output_index = st0.next_output_index],
                     !.next_output_index = @ + 1]
        ts  == [st.tool_states[i] EXCEPT !.known = @ \/ t.known, !.args = @ \o Args(n + 1, t)]
        With(ts2) == [st EXCEPT !.tool_states[i] = ts2]
    IN  IF ~ts.started /\ ts.known
        THEN LET start == stream_event(close_for_tool(With([ts EXCEPT !.started = TRUE])),
                                       "item.added", i, ts.output_index, <<>>)
             IN  IF ts.args # <<>> THEN stream_event(start, "delta", i, ts.output_index, ts.args)
                 ELSE start
        ELSE IF ts.started /\ t.args
        THEN stream_event(With(ts), "delta", i, ts.output_index, Args(n + 1, t))
        ELSE With(ts)

tool_deltas(st, ts) ==
    LET after[k \in 0..Len(ts)] == IF k = 0 THEN st ELSE tool_delta(after[k - 1], ts[k])
    IN  after[Len(ts)]

---------------------------------------------------------------------------
response_created(st) ==
    IF st.response_created THEN st
    ELSE stream_event([st EXCEPT !.response_created = TRUE], "response.created", "nil", 0, <<>>)

map_status(finish_reason) ==
    IF finish_reason = "length" THEN "incomplete"
    ELSE IF finish_reason = "content_filter" THEN "failed"
    ELSE "completed"

finish(st, finish_reason) ==
    IF finish_reason = "nil" THEN st ELSE [st EXCEPT !.status = map_status(finish_reason)]

stream_chunk_from_openai(st, c, ts, finish_reason) ==
    tool_deltas(content_delta(finish(response_created(st), finish_reason), c), ts)

\* The items of the final response: an open message, the started tool calls
\* (in no particular order, which no property looks at).
final_output(st) ==
    (IF st.text_part_started THEN {"msg"} ELSE {}) \cup {i \in ToolIndex : st.tool_states[i].started}

close_tool(st, i) ==
    IF ~st.tool_states[i].started THEN st
    ELSE LET ts == st.tool_states[i]
             Ev(s, type) == stream_event(s, type, i, ts.output_index, ts.args)
         IN  Ev(Ev(st, "text.done"), "item.done")

stream_end(st) ==
    LET reasoning == IF st.think_detected /\ ~st.text_part_started THEN reasoning_close(st) ELSE st
        text      == IF st.text_part_started THEN message_close(reasoning) ELSE reasoning
    IN  stream_event(close_tool(close_tool(text, "t0"), "t1"),
                     "response.completed", st.status, 0, final_output(st))

---------------------------------------------------------------------------
Init ==
    /\ state = new_stream_state
    /\ out = <<>>
    /\ n = 0
    /\ ended = FALSE
    /\ got = nothing

Write(st) == out' = out \o st.events /\ state' = [st EXCEPT !.events = <<>>]

Chunk(c, ts, finish_reason) ==
    /\ ~ended /\ n < MaxChunks
    /\ Write(stream_chunk_from_openai(state, c, ts, finish_reason))
    /\ got' = Extend(got, n + 1, c, ts)
    /\ n' = n + 1
    /\ UNCHANGED ended

\* A chunk without choices: usage, or an error object.
ChunkWithoutChoice ==
    /\ ~ended /\ n < MaxChunks
    /\ Write(response_created(state))
    /\ n' = n + 1
    /\ UNCHANGED <<ended, got>>

\* Something that is no JSON: nothing happens.
ChunkUnreadable ==
    /\ ~ended /\ n < MaxChunks
    /\ n' = n + 1
    /\ UNCHANGED <<state, out, ended, got>>

End ==
    /\ ~ended
    /\ Write(stream_end(state))
    /\ ended' = TRUE
    /\ UNCHANGED <<n, got>>

Done == ended /\ UNCHANGED vars

Next ==
    \/ \E c \in Contents \cup {NoContent}, ts \in Tools, f \in FinishReasons : Chunk(c, ts, f)
    \/ ChunkWithoutChoice \/ ChunkUnreadable \/ End \/ Done

Spec == Init /\ [][Next]_vars

---------------------------------------------------------------------------
\* The events of a type for an item among the first k.
Count(type, item, k) == Cardinality({i \in 1..k : out[i].type = type /\ out[i].item = item})

\* The text sent for an item in the first k events.
Sent(item, k) ==
    FlattenSeq([i \in 1..k |-> IF out[i].type = "delta" /\ out[i].item = item THEN out[i].data ELSE <<>>])
Data(items) ==
    FlattenSeq([i \in DOMAIN out |-> IF out[i].type = "delta" /\ out[i].item \in items
                                     THEN out[i].data ELSE <<>>])

\* Type correctness: an open text part is a part of an open message, the indices
\* of the items stay below the next free one.
TypeOK ==
    /\ state.text_part_started => state.message_started
    /\ state.output_index < state.next_output_index
    /\ \A i \in ToolIndex : state.tool_states[i].output_index < state.next_output_index
    /\ n \in 0..MaxChunks /\ ended \in BOOLEAN

\* No text is lost, doubled or reordered, and a tool call that has started has got
\* every argument piece that came, the ones before its id and name included.
NothingLost ==
    /\ Data({"rs", "msg"}) = Text(got.tokens)
    /\ \A i \in ToolIndex : state.tool_states[i].started =>
          Data({i}) = Only(got.args, {i})

\* The closing events of an item carry exactly what its deltas carried.
DoneMatchesDeltas ==
    \A i \in DOMAIN out :
        out[i].type \in {"text.done", "part.done", "item.done"} => out[i].data = Sent(out[i].item, i)

\* A delta of the message or of a tool call is sent only while that item is open, and
\* at the end they have been done as often as added, calls that interrupt the message
\* included.  The reasoning item is added once, before any delta of it, and is done by
\* the end; it may be done more than once, and go on in between (ReasoningStaysClosed).
ItemsBracketed ==
    /\ \A i \in DOMAIN out : out[i].type = "delta" =>
          IF out[i].item = "rs" THEN Count("item.added", "rs", i) = 1
          ELSE Count("item.added", out[i].item, i) = Count("item.done", out[i].item, i) + 1
    /\ ended => /\ \A item \in Items \ {"rs"} :
                      Count("item.added", item, Len(out)) = Count("item.done", item, Len(out))
                /\ Count("item.added", "rs", Len(out)) \in {0, 1}
                /\ Count("item.added", "rs", Len(out)) = 1 <=> Count("item.done", "rs", Len(out)) > 0

\* "End reasoning", then "Start text output": nothing of the reasoning item comes after
\* it is done, but in two cases that the code gets wrong: a </think> ended its delta, so
\* that no text part was opened, or a tool call came.
EndsDelta(tokens, i) ==
    /\ tokens[i].part = "close"
    /\ ~(i < Len(tokens) /\ tokens[i + 1].part = "y" /\ tokens[i + 1].chunk = tokens[i].chunk)
ReasoningStaysClosed ==
    (\E i, j \in DOMAIN out : i < j /\ out[i].type = "item.done" /\ out[i].item = "rs" /\ out[j].item = "rs")
        => got.toolAt # NoToolYet \/ \E i \in DOMAIN got.tokens : EndsDelta(got.tokens, i)

---------------------------------------------------------------------------
(* Where the whole message is cut.  Reasoning needs its <think> in one piece at   *)
(* the start, and the answer begins with the first text that follows a </think>  *)
(* in its own delta, the delta of the <think> left aside.                         *)
Thinks(tokens) == tokens # <<>> /\ tokens[1].part = "full"
Answers(tokens) == {i \in DOMAIN tokens : tokens[i].part = "y" /\ tokens[i].chunk # tokens[1].chunk}
AnswerAt(tokens) == CHOOSE i \in Answers(tokens) : \A j \in Answers(tokens) : i <= j
Split(tokens) ==
    IF ~Thinks(tokens) THEN [thinking |-> <<>>, text |-> Text(tokens)]
    ELSE IF Answers(tokens) = {} THEN [thinking |-> Text(tokens), text |-> <<>>]
    ELSE [thinking |-> Text(SubSeq(tokens, 1, AnswerAt(tokens) - 1)),
          text     |-> Text(SubSeq(tokens, AnswerAt(tokens), Len(tokens)))]

\* The non-streaming translator cuts there too: there is no <think>, or the first
\* </think> behind it is the one the answer follows.
SameCut(tokens) ==
    \/ OpenLen(tokens) = 0
    \/ /\ Thinks(tokens) /\ Answers(tokens) # {}
       /\ \E i \in Closes(tokens) : i = AnswerAt(tokens) - 1 /\ \A j \in Closes(tokens) : i <= j

Apart == [thinking |-> Data({"rs"}), text |-> Data({"msg"})]

\* However a message is cut into deltas, its reasoning and its text are told apart at the
\* same place, which is that of the non-streaming translator when the two agree on the
\* cut; tool calls change that only for text that comes after both reasoning and answer,
\* and what was reasoning is told as reasoning all the same.
ReasoningSplit ==
    LET split  == Split(got.tokens)
        simple == ~Thinks(got.tokens) \/ got.toolAt = NoToolYet
    IN  /\ simple \/ Answers(got.tokens) = {} => Apart = split
        /\ simple /\ SameCut(got.tokens) => Apart = response_from_openai(got.tokens)
        /\ SubSeq(Data({"rs"}), 1, Len(split.thinking)) = split.thinking
===========================================================================
