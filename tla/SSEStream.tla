----------------------------- MODULE SSEStream -----------------------------
(***************************************************************************)
(* lua/e2ee_handler.lua, the streaming half of e2ee_round_trip: reads the  *)
(* encrypted event stream, cuts it into lines, decrypts and hands each     *)
(* line to on_chunk, then on_chunk(nil).                                   *)
(*                                                                         *)
(* A body is a sequence of lines, given by what process_sse_line makes of  *)
(* them.  Line i is three bytes long: 3i-2 and 3i-1 are its text, 3i its   *)
(* newline.  reader(8192) returns any non-empty piece of what is left, the *)
(* end or an error, so `arrived` counts the bytes read and `eaten` those   *)
(* cut off the front of the buffer.                                        *)
(***************************************************************************)
EXTENDS Integers, Sequences, SequencesExt, FiniteSets

CONSTANT Bodies   \* the event streams upstream may send

LineKinds ==
    {"init",      \* e2e_init that decapsulates
     "badinit",   \* e2e_init that does not
     "chunk",     \* e2e chunk that opens under the stream key
     "uchunk",    \* the same, with a usage object inside
     "badchunk",  \* e2e chunk that does not open
     "usage",     \* usage event in the clear
     "failure",   \* e2e_error event
     "done",      \* [DONE]
     "scalar",    \* null, true or a number, which has no fields to look at
     "noise"}     \* anything else: comment, empty data, no JSON, unknown event

ASSUME BodiesAssumption == \A b \in Bodies : b \in Seq(LineKinds)

VARIABLES
    body,          \* the event stream
    arrived,       \* bytes read
    eaten,         \* bytes removed from the front of buffer
    pc,            \* read | tail | finish | end | raised
    stream_key,    \* has e2e_init been seen
    done_sent, had_error,
    first_chunk,   \* first_chunk_at is set
    last_usage,    \* line of the last usage delivered, 0 for nil
    out,           \* the calls of on_chunk: line numbers, ErrorLine, Terminator
    records,       \* the calls of selector.record: "ok" or "fail"
    accounted,     \* the calls of account_usage
    broken         \* history: the reader gave an error

\* on_chunk("data: {error...}") and on_chunk(nil)
Terminator == 0
ErrorLine == -1

vars == <<body, arrived, eaten, pc, stream_key, done_sent, had_error, first_chunk,
          last_usage, out, records, accounted, broken>>

---------------------------------------------------------------------------
\* The event type of a line; chunk and passthrough are both delivered.  A scalar is
\* no event type: reading its field raises a Lua error, which nothing catches.
process_sse_line(kind, key) ==
    IF kind \in {"usage", "failure"} \/ (kind \in {"chunk", "uchunk"} /\ key) THEN "deliver"
    ELSE IF kind \in {"badinit", "badchunk", "chunk", "uchunk"} THEN "error"
    ELSE IF kind \in {"init", "done"} THEN kind
    ELSE IF kind = "scalar" THEN "raise"
    ELSE "none"

\* Mutant: every usage is accounted as it comes.
deliver_each(i) ==
    /\ out' = Append(out, i)
    /\ first_chunk' = TRUE
    /\ records' = IF first_chunk THEN records ELSE Append(records, "ok")
    /\ last_usage' = IF body[i] \in {"usage", "uchunk"} THEN i ELSE last_usage
    /\ accounted' = IF body[i] \in {"usage", "uchunk"} THEN Append(accounted, i) ELSE accounted

deliver(i) ==
    /\ out' = Append(out, i)
    /\ first_chunk' = TRUE
    /\ records' = IF first_chunk THEN records ELSE Append(records, "ok")
    /\ last_usage' = IF body[i] \in {"usage", "uchunk"} THEN i ELSE last_usage
    /\ UNCHANGED accounted

close(calls) ==
    /\ out' = out \o calls
    /\ done_sent' = TRUE
    /\ UNCHANGED <<first_chunk, records, last_usage, accounted>>

handle(i) ==
    LET event == process_sse_line(body[i], stream_key)
    IN  \/ /\ event = "init"
           /\ stream_key' = TRUE
           /\ UNCHANGED <<done_sent, had_error, first_chunk, last_usage, out, records, accounted>>
        \/ event = "deliver" /\ deliver(i) /\ UNCHANGED <<stream_key, done_sent, had_error>>
        \/ event = "done" /\ close(<<Terminator>>) /\ UNCHANGED <<stream_key, had_error>>
        \/ /\ event = "error"
           /\ close(<<ErrorLine, Terminator>>)
           /\ had_error' = TRUE
           /\ UNCHANGED stream_key
        \/ /\ event \in {"raise", "none"}
           /\ UNCHANGED <<stream_key, done_sent, had_error, first_chunk, last_usage, out,
                          records, accounted>>

---------------------------------------------------------------------------
Init ==
    /\ body \in Bodies
    /\ arrived = 0 /\ eaten = 0
    /\ pc = "read"
    /\ stream_key = FALSE /\ done_sent = FALSE /\ had_error = FALSE
    /\ first_chunk = FALSE /\ last_usage = 0
    /\ out = <<>> /\ records = <<>> /\ accounted = <<>>
    /\ broken = FALSE

Size == 3 * Len(body)
HasLine == eaten + 3 <= arrived
NextLine == eaten \div 3 + 1

decoding == <<stream_key, done_sent, had_error, first_chunk, last_usage, out, records, accounted>>

\* reader(8192) returned a piece.
Read ==
    /\ pc = "read" /\ ~done_sent /\ ~HasLine
    /\ arrived' \in arrived + 1 .. Size
    /\ UNCHANGED <<body, eaten, pc, decoding, broken>>

\* The body ended, or the connection closed quietly.
ReadEnd ==
    /\ pc = "read" /\ ~done_sent /\ ~HasLine
    /\ pc' = "tail"
    /\ UNCHANGED <<body, arrived, eaten, decoding, broken>>

\* Timeout, reset, broken chunked encoding.
ReadError ==
    /\ pc = "read" /\ ~done_sent /\ ~HasLine
    /\ pc' = "tail"
    /\ had_error' = TRUE
    /\ broken' = TRUE
    /\ UNCHANGED <<body, arrived, eaten, stream_key, done_sent, first_chunk, last_usage, out, records,
                   accounted>>

\* Where an event leaves the coroutine that was to go on at `next`.
after(event, next) == IF event = "raise" THEN "raised" ELSE next

\* Mutant: the rest of the piece is dropped with its first line.
Line_drop ==
    /\ pc = "read" /\ ~done_sent /\ HasLine
    /\ handle(NextLine)
    /\ eaten' = 3 * (arrived \div 3)
    /\ pc' = after(process_sse_line(body[NextLine], stream_key), "read")
    /\ UNCHANGED <<body, arrived, broken>>

Line ==
    /\ pc = "read" /\ ~done_sent /\ HasLine
    /\ handle(NextLine)
    /\ eaten' = eaten + 3
    /\ pc' = after(process_sse_line(body[NextLine], stream_key), "read")
    /\ UNCHANGED <<body, arrived, broken>>

ReadDone ==
    /\ pc = "read" /\ done_sent
    /\ pc' = "tail"
    /\ UNCHANGED <<body, arrived, eaten, decoding, broken>>

\* The trailing partial line: one byte of text is not JSON, two are the line
\* without its newline.  Its errors are dropped.
Tail_line ==
    /\ pc = "tail"
    /\ LET event == IF arrived - eaten = 2 THEN process_sse_line(body[NextLine], stream_key) ELSE "none"
       IN  IF done_sent THEN pc' = "finish" /\ UNCHANGED decoding
           ELSE /\ pc' = after(event, "finish")
                /\ \/ /\ event = "deliver"
                      /\ deliver(NextLine)
                      /\ UNCHANGED <<stream_key, done_sent, had_error>>
                   \/ event = "done" /\ close(<<Terminator>>) /\ UNCHANGED <<stream_key, had_error>>
                   \/ event \notin {"deliver", "done"} /\ UNCHANGED decoding
    /\ UNCHANGED <<body, arrived, eaten, broken>>

Finish ==
    /\ pc = "finish"
    /\ pc' = "end"
    /\ out' = IF done_sent THEN out ELSE Append(out, Terminator)
    /\ accounted' = IF last_usage # 0 THEN Append(accounted, last_usage) ELSE accounted
    /\ records' = IF had_error THEN Append(records, "fail")
                  ELSE IF ~first_chunk THEN Append(records, "ok") ELSE records
    /\ UNCHANGED <<body, arrived, eaten, stream_key, done_sent, had_error, first_chunk, last_usage, broken>>

\* The handler returned, or nginx aborted the request for the Lua error.
Ended == pc \in {"end", "raised"} /\ UNCHANGED vars

Next == Read \/ ReadEnd \/ ReadError \/ Line \/ ReadDone \/ Tail_line \/ Finish \/ Ended

Spec == Init /\ [][Next]_vars

---------------------------------------------------------------------------
\* Type correctness of the reader's locals.
TypeOK ==
    /\ body \in Bodies
    /\ arrived \in 0..Size /\ eaten \in 0..arrived
    /\ pc \in {"read", "tail", "finish", "end", "raised"}
    /\ {stream_key, done_sent, had_error, first_chunk, broken} \subseteq BOOLEAN
    /\ last_usage \in 0..Len(body)
    /\ out \in Seq(ErrorLine..Len(body))
    /\ records \in Seq({"ok", "fail"})
    /\ accounted \in Seq(1..Len(body))

\* What the first `bytes` bytes of the body should give the client, read in one
\* piece: the lines that carry something, up to the first that ends the stream.  An
\* error in a line without its newline is dropped, a scalar there raises all the same.
Keyed(i) == \E j \in 1..i-1 : body[j] = "init"
Event(i) == process_sse_line(body[i], Keyed(i))
Delivers(i) == Event(i) = "deliver"
Stops(i) == Event(i) \in {"done", "error", "raise"}
Delivered[n \in 0..Len(body)] ==
    IF n = 0 THEN <<>>
    ELSE IF Delivers(n) THEN Append(Delivered[n - 1], n) ELSE Delivered[n - 1]
FirstStop(n) ==
    LET stops == {i \in 1..n : Stops(i)}
    IN  IF stops = {} THEN n + 1 ELSE CHOOSE i \in stops : \A j \in stops : i <= j
Closing(told) == IF told THEN <<ErrorLine, Terminator>> ELSE <<Terminator>>
Ending(first, bytes) ==
    IF first <= (bytes + 1) \div 3 /\ Event(first) = "raise" THEN <<>>
    ELSE Closing(first <= bytes \div 3 /\ Event(first) = "error")
Whole(bytes) ==
    LET first == FirstStop((bytes + 1) \div 3)
    IN  Delivered[first - 1] \o Ending(first, bytes)

\* However the bytes are cut into reads, and wherever the connection ends, the
\* client gets what it would have got in one piece, in order, terminated once unless
\* a line raised.
SameAsWhole == pc \in {"end", "raised"} => out = Whole(arrived)

\* Its inductive strengthening: out is what the lines handled so far deliver, and
\* the last of them ended the stream if anything did.
Handled == eaten \div 3
RelayInv ==
    /\ eaten = 3 * Handled
    /\ pc \in {"read", "tail"} /\ ~done_sent =>
         /\ stream_key <=> Keyed(Handled + 1)
         /\ \A i \in 1..Handled : ~Stops(i)
         /\ out = Delivered[Handled]
    /\ pc \in {"read", "tail"} /\ done_sent =>
         /\ Handled > 0 /\ Stops(Handled) /\ Event(Handled) # "raise"
         /\ \A i \in 1..Handled - 1 : ~Stops(i)
         /\ out = Delivered[Handled - 1] \o Closing(Event(Handled) = "error")
    /\ pc = "tail" /\ ~done_sent => ~HasLine
    /\ pc = "finish" => Whole(arrived) = IF done_sent THEN out ELSE Append(out, Terminator)
    /\ SameAsWhole

\* The calls of on_chunk that handed a usage to the client.
Used == {i \in DOMAIN out : out[i] \in 1..Len(body) /\ body[out[i]] \in {"usage", "uchunk"}}

\* The stream went wrong: the reader gave an error, or of the first k lines the one
\* that ended it does not open.
ErrorIn(k) == \E i \in 1..k : Event(i) = "error" /\ \A j \in 1..i-1 : ~Stops(j)
Failed == broken \/ ErrorIn(arrived \div 3)
GotLine == \E i \in DOMAIN out : out[i] > 0

\* What a stream leaves behind is right however it ended.  "The usage is only
\* accounted once per request, from the last chunk that had one".  The selector hears
\* a success from every stream that delivered a line or did not fail, and a failure
\* after it exactly from those that failed: the reader gave an error, or a line with
\* its newline did not open.  So a stream that fails after its first line counts as
\* both, and an error in a last line without newline counts as none (it is dropped).
\* A stream that raises leaves no usage, and a record only if it had delivered.
ReportedOnce ==
    /\ pc = "end" =>
        /\ accounted = IF Used = {} THEN <<>>
                       ELSE <<out[CHOOSE i \in Used : \A j \in Used : j <= i]>>
        /\ records = (IF GotLine \/ ~Failed THEN <<"ok">> ELSE <<>>)
                     \o (IF Failed THEN <<"fail">> ELSE <<>>)
    /\ pc = "raised" => accounted = <<>> /\ records = IF GotLine THEN <<"ok">> ELSE <<>>

\* Its inductive strengthening: nothing is accounted before the end, last_usage
\* follows the last delivered line that had one, and had_error knows of the lines
\* handled and of the reader; once reading is over there is nothing else to know.
ReportInv ==
    /\ pc # "end" => accounted = <<>> /\ records = IF first_chunk THEN <<"ok">> ELSE <<>>
    /\ last_usage = 0 => Used = {}
    /\ last_usage # 0 => \E i \in Used : out[i] = last_usage /\ \A j \in Used : j <= i
    /\ first_chunk <=> GotLine
    /\ had_error <=> broken \/ ErrorIn(Handled)
    /\ pc \in {"tail", "finish", "end"} => (ErrorIn(Handled) <=> ErrorIn(arrived \div 3))
    /\ ReportedOnce
===========================================================================
