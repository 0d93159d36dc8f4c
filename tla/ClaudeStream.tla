---------------------------- MODULE ClaudeStream ----------------------------
(***************************************************************************)
(* lua/claude_format.lua, streaming: OpenAI chat-completion chunks in,     *)
(* Claude Messages events out (stream_chunk_from_openai, stream_end).      *)
(* OpenAIChunks says what a chunk is.  The think_buffer of the code never  *)
(* holds anything from one delta to the next: a first delta that begins    *)
(* with "<think>" is long enough to decide, any other one is flushed.      *)
(***************************************************************************)
EXTENDS OpenAIChunks

VARIABLES state,   \* new_stream_state
          out,     \* the events written to the client
          n,       \* chunks received
          ended,   \* stream_end has run
          got      \* history: the message the chunks add up to

vars == <<state, out, n, ended, got>>

---------------------------------------------------------------------------
no_tool == [known |-> FALSE, block_index |-> 0, started |-> FALSE, pending |-> <<>>, seen |-> FALSE]

new_stream_state ==
    [block_index |-> 0, current_type |-> "nil", text_started |-> FALSE, first_content |-> TRUE,
     think_detected |-> FALSE, message_started |-> FALSE, stop_reason |-> "end_turn",
     tool_states |-> [i \in ToolIndex |-> no_tool], events |-> <<>>]

sse_event(ev, index, kind, data) == [ev |-> ev, index |-> index, kind |-> kind, data |-> data]

\* The handlers map a stream state to the next one; `events` collects their output.
Emit(st, ev, index, kind, data) ==
    [st EXCEPT !.events = Append(@, sse_event(ev, index, kind, data))]
BlockStart(st, kind) == Emit(st, "start", st.block_index, kind, <<>>)
BlockDelta(st, kind, data) == Emit(st, "delta", st.block_index, kind, data)
BlockStop(st) == Emit(st, "stop", st.block_index, st.current_type, <<>>)

Nonempty(c) == c.x \/ c.close

---------------------------------------------------------------------------
(* The content of a chunk                                                  *)

\* The first content delta decides: <think> opens a thinking block, and what
\* follows it in the delta is thinking; anything else, a part of <think> too,
\* is flushed as text.
first_delta(st0, c) ==
    LET st == [st0 EXCEPT !.first_content = FALSE]
    IN  IF c.tag = "full"
        THEN LET open == BlockStart([st EXCEPT !.think_detected = TRUE, !.current_type = "thinking"],
                                    "thinking")
             IN  IF Nonempty(c) THEN BlockDelta(open, "thinking", X(n + 1, c) \o Y(n + 1, c)) ELSE open
        ELSE BlockDelta(BlockStart([st EXCEPT !.current_type = "text", !.text_started = TRUE], "text"),
                        "text", X(n + 1, c) \o Y(n + 1, c))

\* Mutant: the end of the thinking block is not looked for.
thinking_delta_on(st, c) == BlockDelta(st, "thinking", X(n + 1, c) \o Y(n + 1, c))

thinking_delta(st, c) ==
    IF ~c.close
    THEN BlockDelta(st, "thinking", X(n + 1, c))
    ELSE LET before == IF c.tag # "none" \/ c.x THEN BlockDelta(st, "thinking", X(n + 1, c)) ELSE st
             closed == [BlockStop(before) EXCEPT !.block_index = @ + 1]
             text   == BlockStart([closed EXCEPT !.current_type = "text", !.text_started = TRUE], "text")
         IN  IF c.y THEN BlockDelta(text, "text", Y(n + 1, c)) ELSE text

text_delta(st, c) ==
    LET open == IF st.text_started THEN st
                ELSE BlockStart([st EXCEPT !.text_started = TRUE, !.current_type = "text"], "text")
    IN  BlockDelta(open, "text", X(n + 1, c) \o Y(n + 1, c))

content_delta(st, c) ==
    IF c = NoContent THEN st
    ELSE IF st.first_content THEN first_delta(st, c)
    ELSE IF st.think_detected /\ st.current_type = "thinking" THEN thinking_delta(st, c)
    ELSE text_delta(st, c)

---------------------------------------------------------------------------
(* The tool calls of a chunk                                               *)

\* Mutant: an open thinking block is left open.
close_for_tool_text(st) ==
    IF st.text_started /\ st.current_type = "text"
    THEN [BlockStop(st) EXCEPT !.block_index = @ + 1, !.text_started = FALSE, !.current_type = "nil"]
    ELSE [st EXCEPT !.current_type = "nil"]

close_for_tool(st) ==
    IF st.text_started /\ st.current_type = "text"
    THEN [BlockStop(st) EXCEPT !.block_index = @ + 1, !.text_started = FALSE, !.current_type = "nil"]
    ELSE IF st.current_type = "thinking"
    THEN [BlockStop(st) EXCEPT !.block_index = @ + 1, !.current_type = "nil"]
    ELSE st

\* Mutant: arguments that come before id and name are not kept.
new_args_none(ts, t) == IF ts.known THEN Args(n + 1, t) ELSE <<>>

new_args(ts, t) == Args(n + 1, t)

\* The first delta of a tool call closes the content block and takes its index.
first_seen(st, i) ==
    IF st.tool_states[i].seen THEN st
    ELSE [close_for_tool(st) EXCEPT !.tool_states[i] =
            [no_tool EXCEPT !.block_index = close_for_tool(st).block_index, !.seen = TRUE]]

tool_delta(st0, t) ==
    LET st    == first_seen(st0, t.idx)
        ts    == [st.tool_states[t.idx] EXCEPT !.known = @ \/ t.known, !.pending = @ \o new_args(st.tool_states[t.idx], t)]
        With(ts2) == [st EXCEPT !.tool_states[t.idx] = ts2]
    IN  IF ~ts.started /\ ts.known
        THEN LET start == Emit(With([ts EXCEPT !.started = TRUE, !.pending = <<>>]),
                               "start", ts.block_index, "tool", <<>>)
             IN  IF ts.pending # <<>> THEN Emit(start, "delta", ts.block_index, "tool", ts.pending)
                 ELSE start
        ELSE IF ts.started /\ t.args
        THEN Emit(With(ts), "delta", ts.block_index, "tool", Args(n + 1, t))
        ELSE With(ts)

tool_deltas(st, ts) ==
    LET after[k \in 0..Len(ts)] == IF k = 0 THEN st ELSE tool_delta(after[k - 1], ts[k])
    IN  after[Len(ts)]

---------------------------------------------------------------------------
message_start(st) ==
    IF st.message_started THEN st
    ELSE Emit([st EXCEPT !.message_started = TRUE], "message_start", 0, "nil", <<>>)

map_stop_reason(finish_reason) ==
    IF finish_reason = "length" THEN "max_tokens"
    ELSE IF finish_reason \in {"tool_calls", "function_call"} THEN "tool_use"
    ELSE "end_turn"

finish(st, finish_reason, ts) ==
    IF finish_reason = "nil" THEN st
    ELSE [st EXCEPT !.stop_reason =
            IF ts # <<>> \/ \E i \in ToolIndex : st.tool_states[i].seen THEN "tool_use"
            ELSE map_stop_reason(finish_reason)]

stream_chunk_from_openai(st, c, ts, finish_reason) ==
    tool_deltas(content_delta(finish(message_start(st), finish_reason, ts), c), ts)

\* The blocks that are open when the stream ends; the tool blocks come in no
\* particular order, which no property looks at.
close_content(st) ==
    IF (st.current_type = "text" /\ st.text_started) \/ st.current_type = "thinking"
    THEN BlockStop(st) ELSE st

close_tool(st, i) ==
    IF st.tool_states[i].started THEN Emit(st, "stop", st.tool_states[i].block_index, "tool", <<>>) ELSE st

stream_end(st) ==
    LET closed == close_tool(close_tool(close_content(st), "t0"), "t1")
    IN  Emit(Emit(closed, "message_delta", 0, st.stop_reason, <<>>), "message_stop", 0, "nil", <<>>)

---------------------------------------------------------------------------
Init ==
    /\ state = new_stream_state
    /\ out = <<>>
    /\ n = 0
    /\ ended = FALSE
    /\ got = nothing

Write(st) == out' = out \o st.events /\ state' = [st EXCEPT !.events = <<>>]

Chunk(c, ts, finish_reason) ==
    /\ ~ended /\ n < MaxChunks
    /\ Write(stream_chunk_from_openai(state, c, ts, finish_reason))
    /\ got' = Extend(got, n + 1, c, ts)
    /\ n' = n + 1
    /\ UNCHANGED ended

\* A chunk without choices: usage, or an error object.
ChunkWithoutChoice ==
    /\ ~ended /\ n < MaxChunks
    /\ Write(message_start(state))
    /\ n' = n + 1
    /\ UNCHANGED <<ended, got>>

\* Something that is no JSON: nothing happens.
ChunkUnreadable ==
    /\ ~ended /\ n < MaxChunks
    /\ n' = n + 1
    /\ UNCHANGED <<state, out, ended, got>>

End ==
    /\ ~ended
    /\ Write(stream_end(state))
    /\ ended' = TRUE
    /\ UNCHANGED <<n, got>>

Done == ended /\ UNCHANGED vars

Next ==
    \/ \E c \in Contents \cup {NoContent}, ts \in Tools, f \in FinishReasons : Chunk(c, ts, f)
    \/ ChunkWithoutChoice \/ ChunkUnreadable \/ End \/ Done

Spec == Init /\ [][Next]_vars

---------------------------------------------------------------------------
\* How often `ev` happened at `index` among the first k events.
Count(ev, index, k) == Cardinality({i \in 1..k : out[i].ev = ev /\ out[i].index = index})
Indices == {out[i].index : i \in DOMAIN out}

\* Type correctness of the translator's state.
TypeOK ==
    /\ state.current_type \in {"nil", "text", "thinking"}
    /\ state.block_index \in 0..MaxChunks + 1
    /\ state.text_started => state.current_type = "text"
    /\ n \in 0..MaxChunks /\ ended \in BOOLEAN

\* A delta is written only while a block with its index is open, no stop closes
\* what is not open, and at the end of the stream every block that was opened has
\* been closed, whatever the order of text, thinking and tool deltas.
BlocksBracketed ==
    /\ \A i \in DOMAIN out :
          /\ out[i].ev = "delta" =>
               Count("start", out[i].index, i) > Count("stop", out[i].index, i)
          /\ out[i].ev = "stop" =>
               Count("start", out[i].index, i) >= Count("stop", out[i].index, i)
    /\ ended => \A x \in Indices : Count("start", x, Len(out)) = Count("stop", x, Len(out))

\* No text is lost, doubled or reordered: the text and thinking deltas carry the
\* pieces of the chunks' contents, and once a tool's block has started it has got
\* every argument piece that came, the ones before its id and name included.
Data(kinds) == FlattenSeq([i \in DOMAIN out |-> IF out[i].kind \in kinds THEN out[i].data ELSE <<>>])
NothingLost ==
    /\ Data({"text", "thinking"}) = Text(got.tokens)
    /\ \A i \in ToolIndex : state.tool_states[i].started =>
          Only(Data({"tool"}), {i}) = Only(got.args, {i})

\* Streaming separates thinking and text as the non-streaming translator does
\* for the whole message, once the thinking is complete.
ThinkSeparated ==
    Complete(got) =>
        [thinking |-> Data({"thinking"}), text |-> Data({"text"})] = response_from_openai(got.tokens)

===========================================================================
