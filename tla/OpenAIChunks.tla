---------------------------- MODULE OpenAIChunks ----------------------------
(***************************************************************************)
(* What the two streaming translators (ClaudeStream, ResponsesStream) get: *)
(* chat-completion chunks.                                                 *)
(*                                                                         *)
(* A content delta is [tag, x, close, y]: an opening <think> at its start  *)
(* ("full", or the first or second half of one that was cut in two, or     *)
(* "none"), text, a closing </think>, text.  A tool-call delta is          *)
(* [idx, known, args]: its index, whether it carries id and name, whether  *)
(* it carries arguments.  A piece of text is named by the chunk it came in *)
(* and its place there.                                                    *)
(***************************************************************************)
EXTENDS Integers, Sequences, SequencesExt, FiniteSets

CONSTANTS Contents,       \* content deltas; NoContent is always possible
          Tools,          \* lists of tool-call deltas of a chunk
          FinishReasons,  \* choice.finish_reason, "nil" when absent
          NoContent,      \* delta.content is absent or empty
          MaxChunks       \* bound: chunks per stream

ToolIndex == {"t0", "t1"}
Tags == {"none", "half", "rest", "full"}

ASSUME ChunksAssumption ==
    /\ \A c \in Contents :
         /\ c \in [tag : Tags, x : BOOLEAN, close : BOOLEAN, y : BOOLEAN]
         /\ c.tag # "none" \/ c.x \/ c.close
         /\ c.y => c.close
    /\ \A t \in Tools : t \in Seq([idx : ToolIndex, known : BOOLEAN, args : BOOLEAN])
    /\ FinishReasons \subseteq {"nil", "stop", "length", "tool_calls", "function_call", "content_filter"}
    /\ MaxChunks \in Nat

\* The pieces of chunk k: its text before and after </think>, its arguments.
Piece(k, part, present) == IF present THEN <<[chunk |-> k, part |-> part]>> ELSE <<>>
X(k, c) == Piece(k, "x", c.x)
Y(k, c) == Piece(k, "y", c.y)
Args(k, t) == Piece(k, t.idx, t.args)

---------------------------------------------------------------------------
(* The history of a stream: the whole message its chunks add up to.        *)

NoToolYet == -1
nothing == [tokens |-> <<>>, args |-> <<>>, toolAt |-> NoToolYet]

Tokens(k, c) ==
    IF c = NoContent THEN <<>>
    ELSE Piece(k, c.tag, c.tag # "none") \o X(k, c) \o Piece(k, "close", c.close) \o Y(k, c)

Extend(got, k, c, ts) ==
    LET tokens == got.tokens \o Tokens(k, c)
    IN  [tokens |-> tokens,
         args   |-> got.args \o FlattenSeq([i \in DOMAIN ts |-> Args(k, ts[i])]),
         toolAt |-> IF ts # <<>> /\ got.toolAt = NoToolYet THEN Len(tokens) ELSE got.toolAt]

\* The pieces with one of the places in parts.
Only(pieces, parts) ==
    FlattenSeq([i \in DOMAIN pieces |-> IF pieces[i].part \in parts THEN <<pieces[i]>> ELSE <<>>])
Text(tokens) == Only(tokens, {"x", "y"})

\* How many tokens make up an opening <think> at the very start of the message.
OpenLen(tokens) ==
    IF tokens # <<>> /\ tokens[1].part = "full" THEN 1
    ELSE IF Len(tokens) >= 2 /\ tokens[1].part = "half" /\ tokens[2].part = "rest" THEN 2
    ELSE 0
Closes(tokens) == {i \in DOMAIN tokens : i > OpenLen(tokens) /\ tokens[i].part = "close"}

\* The non-streaming translators: "^<think>(.-)</think>(.*)$" on the whole content.
response_from_openai(tokens) ==
    IF OpenLen(tokens) = 0 \/ Closes(tokens) = {}
    THEN [thinking |-> <<>>, text |-> Text(tokens)]
    ELSE LET close == CHOOSE i \in Closes(tokens) : \A j \in Closes(tokens) : i <= j
         IN  [thinking |-> Text(SubSeq(tokens, 1, close)),
              text     |-> Text(SubSeq(tokens, close + 1, Len(tokens)))]

\* The thinking, if there is any, is closed, and no tool call came before its end.
Complete(got) ==
    \/ OpenLen(got.tokens) = 0
    \/ \E i \in Closes(got.tokens) : got.toolAt = NoToolYet \/ got.toolAt >= i
===========================================================================
