---------------------------- MODULE Relay_proof ----------------------------
(***************************************************************************)
(* What passes between the client and the instance.  SSEStream, for every  *)
(* event stream, however long and however it is cut into reads; then       *)
(* RandomBytes and Envelope, for buffers and texts of every length, every  *)
(* width of an unsigned int and every mixture of failures.                 *)
(***************************************************************************)
EXTENDS SSEStream, Envelope, SequenceTheorems, Induction, TLAPS

\* An event stream is a sequence of lines.
LEMMA BodyType ==
    ASSUME body \in Bodies
    PROVE  body \in Seq(LineKinds) /\ Len(body) \in Nat
BY BodiesAssumption

\* What process_sse_line may answer.
LEMMA EventType ==
    ASSUME NEW line, NEW k
    PROVE  process_sse_line(line, k) \in {"deliver", "error", "init", "done", "raise", "none"}
BY DEF process_sse_line

\* Only e2e_init is an init event, whatever the key.
LEMMA InitEvent ==
    ASSUME NEW line, NEW k
    PROVE  process_sse_line(line, k) = "init" <=> line = "init"
BY DEF process_sse_line

---------------------------------------------------------------------------
\* handle only appends calls for its line, and only the calls it makes.
LEMMA HandleType ==
    ASSUME TypeOK, NEW i \in 1..Len(body), handle(i)
    PROVE  /\ {stream_key', done_sent', had_error', first_chunk'} \subseteq BOOLEAN
           /\ last_usage' \in 0..Len(body)
           /\ out' \in Seq(ErrorLine..Len(body))
           /\ records' \in Seq({"ok", "fail"})
           /\ accounted' \in Seq(1..Len(body))
<1>1. /\ Len(body) \in Nat
      /\ ErrorLine \in ErrorLine..Len(body) /\ Terminator \in ErrorLine..Len(body)
      /\ i \in ErrorLine..Len(body)
  BY BodyType DEF TypeOK, ErrorLine, Terminator
<1>2. CASE deliver(i) /\ UNCHANGED <<stream_key, done_sent, had_error>>
  BY <1>1, <1>2 DEF deliver, TypeOK
<1>3. ASSUME NEW calls \in Seq(ErrorLine..Len(body)), close(calls), had_error' \in BOOLEAN,
             stream_key' = stream_key
      PROVE  /\ {stream_key', done_sent', had_error', first_chunk'} \subseteq BOOLEAN
             /\ last_usage' \in 0..Len(body)
             /\ out' \in Seq(ErrorLine..Len(body))
             /\ records' \in Seq({"ok", "fail"})
             /\ accounted' \in Seq(1..Len(body))
  BY <1>3, ConcatProperties DEF close, TypeOK
<1>4. /\ <<Terminator>> \in Seq(ErrorLine..Len(body))
      /\ <<ErrorLine, Terminator>> \in Seq(ErrorLine..Len(body))
  BY <1>1
<1> QED
  BY <1>2, <1>3, <1>4 DEF handle, TypeOK

\* Tail_line handles its line as the loop does, or leaves it.
LEMMA TailHandles ==
    ASSUME TypeOK, Tail_line
    PROVE  \/ UNCHANGED decoding
           \/ arrived - eaten = 2 /\ ~done_sent /\ NextLine \in 1..Len(body) /\ handle(NextLine)
<1> SUFFICES ASSUME ~UNCHANGED decoding
             PROVE  arrived - eaten = 2 /\ ~done_sent /\ NextLine \in 1..Len(body) /\ handle(NextLine)
  OBVIOUS
<1>1. Len(body) \in Nat /\ arrived \in Nat /\ eaten \in Nat /\ eaten <= arrived /\ arrived <= 3 * Len(body)
  BY BodyType DEF TypeOK, Size
<1>2. arrived - eaten = 2 /\ ~done_sent
  BY DEF Tail_line
<1>3. NextLine \in 1..Len(body)
  BY <1>1, <1>2 DEF NextLine
<1>4. handle(NextLine)
  BY <1>2 DEF Tail_line, handle
<1> QED
  BY <1>2, <1>3, <1>4

\* Every step keeps the types.
LEMMA TypeStep == TypeOK /\ [Next]_vars => TypeOK'
<1> SUFFICES ASSUME TypeOK, [Next]_vars PROVE TypeOK'
  OBVIOUS
<1>1. Len(body) \in Nat /\ arrived \in Nat /\ eaten \in Nat /\ eaten <= arrived /\ arrived <= 3 * Len(body)
  BY BodyType DEF TypeOK, Size
<1>2. CASE Read
  <2>1. arrived' \in 0..Size /\ eaten' \in 0..arrived' /\ body' = body
    BY <1>1, <1>2 DEF Read, Size
  <2> QED
    BY <1>2, <2>1 DEF Read, decoding, TypeOK, Size
<1>3. CASE ReadEnd \/ ReadError \/ ReadDone \/ Ended \/ UNCHANGED vars
  BY <1>3 DEF ReadEnd, ReadError, ReadDone, Ended, vars, decoding, TypeOK, Size
<1>4. CASE Line
  <2>1. eaten + 3 <= arrived /\ NextLine \in 1..Len(body)
    BY <1>1, <1>4 DEF Line, HasLine, NextLine
  <2>2. /\ UNCHANGED <<body, arrived, broken>> /\ pc' \in {"read", "raised"}
        /\ eaten' \in 0..arrived /\ handle(NextLine)
    BY <1>1, <1>4, <2>1 DEF Line, after
  <2> QED
    BY <2>1, <2>2, HandleType DEF TypeOK, Size
<1>5. CASE Tail_line
  <2>1. UNCHANGED <<body, arrived, eaten, broken>> /\ pc' \in {"finish", "raised"}
    BY <1>5 DEF Tail_line, after
  <2>2. CASE UNCHANGED decoding
    BY <2>1, <2>2 DEF decoding, TypeOK, Size
  <2>3. CASE NextLine \in 1..Len(body) /\ handle(NextLine)
    BY <2>1, <2>3, HandleType DEF TypeOK, Size
  <2> QED
    BY <1>5, <2>2, <2>3, TailHandles
<1>6. CASE Finish
  <2>1. Terminator \in ErrorLine..Len(body)
    BY <1>1 DEF Terminator, ErrorLine
  <2>2. last_usage # 0 => last_usage \in 1..Len(body)
    BY <1>1 DEF TypeOK
  <2>3. out' \in Seq(ErrorLine..Len(body))
    <3>1. out \in Seq(ErrorLine..Len(body))
      BY DEF TypeOK
    <3>2. Append(out, Terminator) \in Seq(ErrorLine..Len(body))
      BY <2>1, <3>1, AppendProperties, Zenon
    <3>3. out' = out \/ out' = Append(out, Terminator)
      BY <1>6, Zenon DEF Finish
    <3> QED
      BY <3>1, <3>2, <3>3, Zenon
  <2>4. accounted' \in Seq(1..Len(body))
    <3>1. accounted \in Seq(1..Len(body))
      BY DEF TypeOK
    <3>2. last_usage # 0 => Append(accounted, last_usage) \in Seq(1..Len(body))
      BY <2>2, <3>1, AppendProperties, Zenon
    <3>3. accounted' = accounted \/ (last_usage # 0 /\ accounted' = Append(accounted, last_usage))
      BY <1>6, Zenon DEF Finish
    <3> QED
      BY <3>1, <3>2, <3>3, Zenon
  <2>5. records' \in Seq({"ok", "fail"})
    BY <1>6 DEF Finish, TypeOK
  <2> QED
    BY <1>6, <2>3, <2>4, <2>5 DEF Finish, TypeOK, Size
<1> QED
  BY <1>2, <1>3, <1>4, <1>5, <1>6 DEF Next

\* The types hold at the start.
LEMMA InitTypes == Init => TypeOK
<1> SUFFICES ASSUME Init PROVE TypeOK
  OBVIOUS
<1>1. body \in Bodies /\ Len(body) \in Nat
  BY BodyType DEF Init
<1>2. /\ out \in Seq(ErrorLine..Len(body)) /\ records \in Seq({"ok", "fail"})
      /\ accounted \in Seq(1..Len(body))
  BY EmptySeq, Zenon DEF Init
<1>3. arrived \in 0..3 * Len(body) /\ eaten \in 0..arrived /\ last_usage \in 0..Len(body)
  <2>1. arrived = 0 /\ eaten = 0 /\ last_usage = 0
    BY DEF Init
  <2> QED
    BY <1>1, <2>1
<1>4. {stream_key, done_sent, had_error, first_chunk, broken} \subseteq BOOLEAN
  BY DEF Init
<1>5. body \in Bodies /\ pc = "read"
  BY DEF Init
<1> QED
  BY <1>2, <1>3, <1>4, <1>5, Zenon DEF TypeOK, Size

\* The reader's locals keep their types.
THEOREM TypeCorrect == Spec => []TypeOK
BY InitTypes, TypeStep, PTL DEF Spec

---------------------------------------------------------------------------
(* What a stream reports                                                   *)

\* A call that carries no usage leaves last_usage right.
LEMMA UsedKept ==
    ASSUME TypeOK, body' = body, NEW x \in ErrorLine..Len(body), out' = Append(out, x),
           ~(x \in 1..Len(body) /\ body[x] \in {"usage", "uchunk"})
    PROVE  Used' = Used /\ \A i \in Used : out'[i] = out[i]
<1>1. out \in Seq(ErrorLine..Len(body))
  BY DEF TypeOK
<1>2. /\ DOMAIN out = 1..Len(out) /\ DOMAIN out' = 1..(Len(out) + 1) /\ Len(out) \in Nat
      /\ out'[Len(out) + 1] = x
      /\ \A i \in 1..Len(out) : out'[i] = out[i]
  BY <1>1
<1>3. \A i \in 1..(Len(out) + 1) : i \in 1..Len(out) \/ i = Len(out) + 1
  BY <1>2
<1> QED
  BY <1>2, <1>3 DEF Used

\* A call that carries a usage is the last that does.
LEMMA UsedAdded ==
    ASSUME TypeOK, body' = body, NEW x \in 1..Len(body), out' = Append(out, x),
           body[x] \in {"usage", "uchunk"}
    PROVE  \E i \in Used' : out'[i] = x /\ \A j \in Used' : j <= i
<1>1. out \in Seq(ErrorLine..Len(body)) /\ Len(body) \in Nat
  BY BodyType DEF TypeOK
<1>2. /\ DOMAIN out' = 1..(Len(out) + 1) /\ Len(out) \in Nat
      /\ out'[Len(out) + 1] = x
  BY <1>1
<1>3. Len(out) + 1 \in Used' /\ \A j \in Used' : j <= Len(out) + 1
  BY <1>2 DEF Used
<1> QED
  BY <1>2, <1>3

UsageOK ==
    /\ last_usage = 0 => Used = {}
    /\ last_usage # 0 => \E i \in Used : out[i] = last_usage /\ \A j \in Used : j <= i

\* deliver follows the usage and records the first chunk as a success.
LEMMA ReportDeliver ==
    ASSUME TypeOK, UsageOK, NEW i \in 1..Len(body), deliver(i), body' = body
    PROVE  UsageOK'
<1>0. i # 0 /\ i \in ErrorLine..Len(body)
  BY BodyType DEF TypeOK, ErrorLine
<1>1. CASE body[i] \in {"usage", "uchunk"}
  <2>1. last_usage' = i /\ out' = Append(out, i)
    BY <1>1 DEF deliver
  <2> QED
    BY <1>0, <1>1, <2>1, UsedAdded DEF UsageOK
<1>2. CASE body[i] \notin {"usage", "uchunk"}
  <2>1. last_usage' = last_usage /\ out' = Append(out, i)
    BY <1>2 DEF deliver
  <2>2. Used' = Used /\ \A j \in Used : out'[j] = out[j]
    BY <1>0, <1>2, <2>1, UsedKept
  <2> QED
    BY <2>1, <2>2 DEF UsageOK
<1> QED
  BY <1>1, <1>2

\* Closing calls carry no usage.
LEMMA UsedClosed ==
    ASSUME TypeOK, body' = body, NEW calls \in Seq({ErrorLine, Terminator}), out' = out \o calls
    PROVE  Used' = Used /\ \A i \in Used : out'[i] = out[i]
<1>1. out \in Seq(ErrorLine..Len(body)) /\ Len(body) \in Nat
  BY BodyType DEF TypeOK
<1>2. /\ DOMAIN out = 1..Len(out) /\ DOMAIN out' = 1..(Len(out) + Len(calls))
      /\ Len(out) \in Nat /\ Len(calls) \in Nat
      /\ \A i \in 1..Len(out) : out'[i] = out[i]
      /\ \A i \in 1..(Len(out) + Len(calls)) : i > Len(out) => out'[i] = calls[i - Len(out)]
  BY <1>1
<1>3. ASSUME NEW i \in 1..(Len(out) + Len(calls)), i \notin 1..Len(out)
      PROVE  out'[i] \notin 1..Len(body)
  <2>1. i - Len(out) \in 1..Len(calls) /\ out'[i] = calls[i - Len(out)]
    BY <1>2, <1>3
  <2>2. out'[i] \in {ErrorLine, Terminator}
    BY <2>1
  <2> QED
    BY <1>1, <2>2 DEF ErrorLine, Terminator
<1>4. Used' = {i \in 1..(Len(out) + Len(calls)) :
                 out'[i] \in 1..Len(body) /\ body[out'[i]] \in {"usage", "uchunk"}}
  BY <1>2 DEF Used
<1>5. Used = {i \in 1..Len(out) : out[i] \in 1..Len(body) /\ body[out[i]] \in {"usage", "uchunk"}}
  BY <1>2 DEF Used
<1>6. 1..Len(out) \subseteq 1..(Len(out) + Len(calls))
  BY <1>2
<1> QED
  BY <1>2, <1>3, <1>4, <1>5, <1>6, Zenon

\* What has been reported before the end.
ReportedSoFar == accounted = <<>> /\ records = IF first_chunk THEN <<"ok">> ELSE <<>>

\* A line is reported rightly, whatever it is.
LEMMA ReportHandle ==
    ASSUME TypeOK, UsageOK, ReportedSoFar, NEW i \in 1..Len(body), handle(i), body' = body
    PROVE  UsageOK' /\ ReportedSoFar'
<1>1. CASE deliver(i)
  <2>1. UsageOK'
    BY <1>1, ReportDeliver
  <2>2. accounted' = <<>> /\ first_chunk' = TRUE
    BY <1>1 DEF deliver, ReportedSoFar
  <2>3. records' = <<"ok">>
    BY <1>1 DEF deliver, ReportedSoFar
  <2> QED
    BY <2>1, <2>2, <2>3 DEF ReportedSoFar
<1>2. ASSUME NEW calls \in Seq({ErrorLine, Terminator}), close(calls)
      PROVE  UsageOK' /\ ReportedSoFar'
  <2>1. /\ out' = out \o calls
        /\ UNCHANGED <<first_chunk, records, last_usage, accounted>>
    BY <1>2 DEF close
  <2>2. Used' = Used /\ \A j \in Used : out'[j] = out[j]
    BY <2>1, UsedClosed
  <2>3. UsageOK'
    BY <2>1, <2>2 DEF UsageOK
  <2> QED
    BY <2>1, <2>3 DEF ReportedSoFar
<1>3. <<Terminator>> \in Seq({ErrorLine, Terminator})
      /\ <<ErrorLine, Terminator>> \in Seq({ErrorLine, Terminator})
  OBVIOUS
<1>4. CASE UNCHANGED <<first_chunk, last_usage, out, records, accounted>>
  BY <1>4 DEF UsageOK, ReportedSoFar, Used
<1>5. \/ deliver(i) \/ close(<<Terminator>>) \/ close(<<ErrorLine, Terminator>>)
      \/ UNCHANGED <<first_chunk, last_usage, out, records, accounted>>
  BY DEF handle
<1> QED
  BY <1>1, <1>2, <1>3, <1>4, <1>5

\* At the end the last usage is accounted, and the outcome recorded.
LEMMA ReportFinish ==
    ASSUME TypeOK, UsageOK, ReportedSoFar, Finish
    PROVE  /\ UsageOK'
           /\ accounted' = IF Used' = {} THEN <<>>
                           ELSE <<out'[CHOOSE i \in Used' : \A j \in Used' : j <= i]>>
           /\ records' = (IF first_chunk \/ ~had_error THEN <<"ok">> ELSE <<>>)
                         \o (IF had_error THEN <<"fail">> ELSE <<>>)
<1>1. body' = body /\ last_usage' = last_usage /\ had_error' = had_error /\ first_chunk' = first_chunk
  BY DEF Finish
<1>2. out' = out \/ out' = Append(out, Terminator)
  BY Zenon DEF Finish
<1>3. Used' = Used /\ \A i \in Used : out'[i] = out[i]
  <2>1. CASE out' = out
    BY <1>1, <2>1 DEF Used
  <2>2. CASE out' = Append(out, Terminator)
    <3>1. Terminator \in ErrorLine..Len(body) /\ Terminator \notin 1..Len(body)
      BY BodyType DEF Terminator, ErrorLine, TypeOK
    <3> QED
      BY <1>1, <2>2, <3>1, UsedKept
  <2> QED
    BY <1>2, <2>1, <2>2
<1>4. UsageOK'
  BY <1>1, <1>3 DEF UsageOK
<1>5. accounted' = IF Used' = {} THEN <<>>
                   ELSE <<out'[CHOOSE i \in Used' : \A j \in Used' : j <= i]>>
  <2>1. CASE last_usage = 0
    <3>1. accounted' = <<>> /\ Used' = {}
      BY <1>3, <2>1 DEF Finish, ReportedSoFar, UsageOK
    <3> QED
      BY <3>1
  <2>2. CASE last_usage # 0
    <3>1. PICK i \in Used : out[i] = last_usage /\ \A j \in Used : j <= i
      BY <2>2 DEF UsageOK
    <3>2. \A j \in Used : j \in Nat
      <4>1. out \in Seq(ErrorLine..Len(body))
        BY DEF TypeOK
      <4>2. DOMAIN out \subseteq Nat
        BY <4>1
      <4> QED
        BY <4>2 DEF Used
    <3> DEFINE last == CHOOSE k \in Used : \A j \in Used : j <= k
    <3>3. last \in Used /\ \A j \in Used : j <= last
      BY <3>1
    <3>4. last = i
      BY <3>1, <3>2, <3>3
    <3>5. accounted' = <<last_usage>>
      BY <2>2 DEF Finish, ReportedSoFar
    <3>6. out'[last] = last_usage
      BY <1>3, <3>1, <3>4
    <3> QED
      BY <1>3, <3>1, <3>5, <3>6
  <2> QED
    BY <2>1, <2>2
<1>6. records' = (IF first_chunk \/ ~had_error THEN <<"ok">> ELSE <<>>)
                 \o (IF had_error THEN <<"fail">> ELSE <<>>)
  <2>1. first_chunk \in BOOLEAN /\ had_error \in BOOLEAN
    BY DEF TypeOK
  <2>2. records = IF first_chunk THEN <<"ok">> ELSE <<>>
    BY DEF ReportedSoFar
  <2>3. records' = IF had_error THEN Append(records, "fail")
                   ELSE IF ~first_chunk THEN Append(records, "ok") ELSE records
    BY Zenon DEF Finish
  <2>4. CASE first_chunk /\ had_error
    BY <1>1, <2>2, <2>3, <2>4
  <2>5. CASE first_chunk /\ ~had_error
    BY <1>1, <2>2, <2>3, <2>5
  <2>6. CASE ~first_chunk /\ had_error
    BY <1>1, <2>2, <2>3, <2>6
  <2>7. CASE ~first_chunk /\ ~had_error
    BY <1>1, <2>2, <2>3, <2>7
  <2> QED
    BY <2>1, <2>4, <2>5, <2>6, <2>7
<1> QED
  BY <1>4, <1>5, <1>6

---------------------------------------------------------------------------
(* What the client gets                                                    *)

\* Delivered is the loop over the lines that its definition says.
LEMMA DeliveredLoop ==
    ASSUME TypeOK
    PROVE  /\ Delivered \in [0..Len(body) -> Seq(Nat)]
           /\ Delivered[0] = <<>>
           /\ \A n \in 1..Len(body) :
                 Delivered[n] = IF Delivers(n) THEN Append(Delivered[n - 1], n) ELSE Delivered[n - 1]
<1> DEFINE N == Len(body)
           S == Seq(Nat)
           none == <<>>
           Turn(x, k) == IF Delivers(k) THEN Append(x, k) ELSE x
           Body(f) == [k \in 0..N |-> IF k = 0 THEN none ELSE Turn(f[k - 1], k)]
           G == [k \in 1..N |-> [x \in S |-> Turn(x, k)]]
<1>1. \A k \in 1..N : \A x \in S : Turn(x, k) \in S
  OBVIOUS
<1>2. N \in Nat /\ none \in S
  BY BodyType DEF TypeOK
<1> HIDE DEF N, S, Turn, none
<1>3. G \in [1..N -> [S -> S]]
  BY <1>1
<1>4. PICK f \in [0..N -> S] : IsLoop(f, none, N, G)
  <2> HIDE DEF G
  <2> QED
    BY <1>2, <1>3, LoopValues
<1>5. f = Body(f)
  <2>1. \A k \in 1..N : f[k - 1] \in S
    BY <1>2
  <2>2. f[0] = none /\ \A k \in 1..N : f[k] = Turn(f[k - 1], k)
    BY <1>4, <2>1 DEF IsLoop
  <2> QED
    BY <1>2, <2>2
<1> DEFINE out0 == CHOOSE g : g = Body(g)
<1>6. out0 = Body(out0)
  <2> HIDE DEF Body
  <2> QED
    BY <1>5
<1>7. Delivered = out0
  BY DEF Delivered, N, Turn, none
<1> HIDE DEF out0
<1>8. /\ Delivered[0] = none
      /\ \A k \in 1..N : Delivered[k] = Turn(Delivered[k - 1], k)
      /\ Delivered = [k \in 0..N |-> Delivered[k]]
  <2>1. Delivered = Body(Delivered)
    BY <1>6, <1>7
  <2> HIDE DEF out0
  <2>2. Delivered[0] = none
    BY <1>2, <2>1
  <2>3. \A k \in 1..N : Delivered[k] = Turn(Delivered[k - 1], k)
    BY <1>2, <2>1
  <2>4. Delivered = [k \in 0..N |-> Delivered[k]]
    BY <2>1
  <2> QED
    BY <2>2, <2>3, <2>4
<1> DEFINE Good == {k \in Nat : k <= N => Delivered[k] \in S}
<1>9. \A k \in Nat : k \in Good
  <2>1. 0 \in Good
    BY <1>2, <1>8
  <2>2. ASSUME NEW k \in Nat, k \in Good PROVE k + 1 \in Good
    <3> SUFFICES ASSUME k + 1 <= N PROVE Delivered[k + 1] \in S
      OBVIOUS
    <3>1. Delivered[k] \in S /\ k + 1 \in 1..N /\ (k + 1) - 1 = k
      BY <1>2, <2>2
    <3>2. Delivered[k + 1] = Turn(Delivered[k], k + 1)
      BY <1>8, <3>1
    <3> QED
      BY <1>1, <3>1, <3>2
  <2> HIDE DEF Good
  <2> QED
    BY <2>1, <2>2, SetInduction
<1>10. \A k \in 0..N : Delivered[k] \in S
  BY <1>2, <1>9
<1>11. Delivered \in [0..N -> S]
  BY <1>8, <1>10
<1> QED
  BY <1>8, <1>11 DEF N, S, none, Turn

\* What the reader of the whole body is told depends on the body alone.
LEMMA SameBody ==
    ASSUME body' = body
    PROVE  /\ Delivered' = Delivered
           /\ \A i : Event(i)' = Event(i)
           /\ \A i : Keyed(i)' = Keyed(i)
<1>1. Delivered' = Delivered
  BY DEF Delivered, Delivers, Event, Keyed, process_sse_line
<1>2. ASSUME NEW i PROVE Event(i)' = Event(i) /\ Keyed(i)' = Keyed(i)
  BY DEF Event, Keyed, process_sse_line
<1> QED
  BY <1>1, <1>2

LEMMA SameWhole ==
    ASSUME body' = body, arrived' = arrived
    PROVE  Whole(arrived)' = Whole(arrived)
<1>1. Delivered' = Delivered /\ \A i : Event(i)' = Event(i)
  BY SameBody
<1>2. ASSUME NEW n PROVE FirstStop(n)' = FirstStop(n)
  BY DEF FirstStop, Stops, Event, Keyed, process_sse_line
<1>3. ASSUME NEW first PROVE Ending(first, arrived)' = Ending(first, arrived)
  BY <1>1 DEF Ending, Closing
<1> QED
  BY <1>1, <1>2, <1>3 DEF Whole

\* Whole, when its first stop is known.
LEMMA WholeFrom ==
    ASSUME NEW bytes, NEW first, FirstStop((bytes + 1) \div 3) = first
    PROVE  Whole(bytes) = Delivered[first - 1] \o Ending(first, bytes)
BY Zenon DEF Whole

\* The whole of a body whose first stop is line s.
LEMMA WholeStop ==
    ASSUME TypeOK, NEW bytes \in 0..Size, NEW s \in 1..((bytes + 1) \div 3), Stops(s),
           \A i \in 1..(s - 1) : ~Stops(i)
    PROVE  Whole(bytes) = Delivered[s - 1] \o Ending(s, bytes)
<1> DEFINE n == (bytes + 1) \div 3
           stops == {i \in 1..n : Stops(i)}
           first == CHOOSE i \in stops : \A j \in stops : i <= j
<1>1. bytes \in Nat /\ n \in Nat
  BY BodyType DEF TypeOK, Size
<1>2. s \in stops /\ \A j \in stops : s <= j
  BY <1>1
<1>3. first \in stops /\ \A j \in stops : first <= j
  BY <1>2
<1>4. first = s
  BY <1>1, <1>2, <1>3
<1>5. FirstStop(n) = s
  BY <1>2, <1>4 DEF FirstStop
<1> QED
  BY <1>5, WholeFrom

\* A stream that ends well is closed by the terminator alone.
LEMMA ClosedWell ==
    ASSUME NEW d \in Seq(Nat)
    PROVE  d \o Closing(FALSE) = Append(d, Terminator)
<1>1. Terminator \in Int /\ d \in Seq(Int)
  BY DEF Terminator
<1>2. Append(d, Terminator) = d \o <<Terminator>>
  BY <1>1, AppendIsConcat, Zenon
<1> QED
  BY <1>2 DEF Closing

\* The whole of a body without a stop.
LEMMA WholeNoStop ==
    ASSUME TypeOK, NEW bytes \in 0..Size, \A i \in 1..((bytes + 1) \div 3) : ~Stops(i)
    PROVE  Whole(bytes) = Append(Delivered[(bytes + 1) \div 3], Terminator)
<1> DEFINE n == (bytes + 1) \div 3
<1>1. bytes \in Nat /\ n \in 0..Len(body) /\ bytes \div 3 <= n
  BY BodyType DEF TypeOK, Size
<1>2. PICK first : first = n + 1
  OBVIOUS
<1>3. FirstStop(n) = first
  BY <1>1, <1>2 DEF FirstStop
<1>4. Whole(bytes) = Delivered[first - 1] \o Ending(first, bytes)
  BY <1>3, WholeFrom
<1>5. ~(first <= bytes \div 3) /\ ~(first <= n) /\ first - 1 = n
  BY <1>1, <1>2
<1>5a. Ending(first, bytes) = Closing(FALSE)
  BY <1>5 DEF Ending, Closing
<1>6. Delivered[n] \in Seq(Nat)
  BY <1>1, DeliveredLoop
<1> HIDE DEF n
<1>7. Whole(bytes) = Delivered[n] \o Closing(FALSE)
  BY <1>4, <1>5, <1>5a
<1>8. Whole(bytes) = Append(Delivered[n], Terminator)
  BY <1>6, <1>7, ClosedWell
<1> QED
  BY <1>8 DEF n

\* Whether the key is there is whether an e2e_init was among the lines handled.
LEMMA KeyedNext ==
    ASSUME NEW k \in Nat
    PROVE  Keyed(k + 2) <=> Keyed(k + 1) \/ body[k + 1] = "init"
BY DEF Keyed

\* The state of the reader between two lines, k of them handled: open, and closed.
Open(k) ==
    /\ stream_key <=> Keyed(k + 1)
    /\ \A i \in 1..k : ~Stops(i)
    /\ out = Delivered[k]
Closed(k) ==
    /\ k > 0 /\ Stops(k) /\ Event(k) # "raise"
    /\ \A i \in 1..(k - 1) : ~Stops(i)
    /\ out = Delivered[k - 1] \o Closing(Event(k) = "error")

\* The key that process_sse_line uses makes the line what Event says.
LEMMA LineEvent ==
    ASSUME TypeOK, NEW k \in Nat, Open(k)
    PROVE  process_sse_line(body[k + 1], stream_key) = Event(k + 1)
<1>1. stream_key \in BOOLEAN /\ Keyed(k + 1) \in BOOLEAN
  BY DEF TypeOK, Keyed
<1>2. stream_key = Keyed(k + 1)
  BY <1>1 DEF Open
<1> QED
  BY <1>2 DEF Event

\* Handling a line leaves the stream open, or closes it.
LEMMA HandleRelays ==
    ASSUME TypeOK, NEW k \in Nat, k + 1 \in 1..Len(body), Open(k), ~done_sent,
           handle(k + 1), body' = body, Event(k + 1) # "raise"
    PROVE  /\ done_sent' \in BOOLEAN
           /\ ~done_sent' => Open(k + 1)'
           /\ done_sent' => Closed(k + 1)'
<1>0. PICK e : e = Event(k + 1)
  OBVIOUS
<1>1. process_sse_line(body[k + 1], stream_key) = e
  BY <1>0, LineEvent
<1>2. e = "init" <=> body[k + 1] = "init"
  BY <1>0, InitEvent DEF Event
<1>3. Delivered' = Delivered /\ (\A i : Event(i)' = Event(i)) /\ \A i : Keyed(i)' = Keyed(i)
  BY SameBody
<1>4. \A i : Stops(i)' <=> Stops(i)
  BY <1>3 DEF Stops
<1>5. k + 1 - 1 = k /\ (k + 1) + 1 = k + 2 /\ k + 1 > 0
  OBVIOUS
<1>6. Delivered[k + 1] = IF e = "deliver" THEN Append(Delivered[k], k + 1) ELSE Delivered[k]
  BY <1>0, <1>5, DeliveredLoop DEF Delivers
<1>7. Keyed(k + 2) <=> Keyed(k + 1) \/ e = "init"
  BY <1>2, KeyedNext
<1>8. out = Delivered[k] /\ (stream_key <=> Keyed(k + 1)) /\ \A i \in 1..k : ~Stops(i)
  BY DEF Open
<1>9. CASE e \in {"init", "deliver", "none"}
  <2>1. /\ done_sent' = FALSE
        /\ stream_key' <=> stream_key \/ e = "init"
        /\ out' = IF e = "deliver" THEN Append(out, k + 1) ELSE out
    <3>1. done_sent = FALSE
      BY DEF TypeOK
    <3> QED
      BY <1>1, <1>9, <3>1 DEF handle, deliver
  <2>2. ~Stops(k + 1)
    BY <1>0, <1>9 DEF Stops
  <2>3. \A i \in 1..(k + 1) : ~Stops(i)
    BY <1>8, <2>2
  <2>4. stream_key' <=> Keyed((k + 1) + 1)
    BY <1>5, <1>7, <1>8, <2>1
  <2>5. out' = Delivered[k + 1]
    BY <1>6, <1>8, <2>1
  <2>6. Open(k + 1)'
    BY <1>3, <1>4, <2>3, <2>4, <2>5 DEF Open
  <2> QED
    BY <2>1, <2>6
<1>10. CASE e \in {"done", "error"}
  <2>1. done_sent' = TRUE /\ out' = out \o Closing(e = "error")
    BY <1>1, <1>10 DEF handle, close, Closing
  <2>2. Stops(k + 1) /\ Event(k + 1) # "raise"
    BY <1>0, <1>10 DEF Stops
  <2>3. out' = Delivered[(k + 1) - 1] \o Closing(Event(k + 1) = "error")
    <3>1. Delivered[(k + 1) - 1] = out /\ (Event(k + 1) = "error" <=> e = "error")
      BY <1>0, <1>5, <1>8
    <3> QED
      BY <2>1, <3>1 DEF Closing
  <2>4. \A i \in 1..((k + 1) - 1) : ~Stops(i)
    BY <1>5, <1>8
  <2>5. Closed(k + 1)'
    BY <1>3, <1>4, <1>5, <2>2, <2>3, <2>4 DEF Closed, Closing
  <2> QED
    BY <2>1, <2>5
<1> QED
  BY <1>0, <1>1, <1>9, <1>10, EventType

\* A line that raises ends the client's stream where it is, without a terminator.
LEMMA RaiseRelays ==
    ASSUME TypeOK, NEW k \in Nat, Open(k), k + 1 <= (arrived + 1) \div 3, Event(k + 1) = "raise"
    PROVE  Whole(arrived) = out
<1>1. arrived \in 0..Size /\ arrived \in Nat /\ Len(body) \in Nat /\ arrived <= 3 * Len(body)
  BY BodyType DEF TypeOK, Size
<1>2. PICK s : s = k + 1
  OBVIOUS
<1>3. s \in 1..((arrived + 1) \div 3) /\ s - 1 = k /\ k \in 0..Len(body) /\ s <= (arrived + 1) \div 3
  BY <1>1, <1>2
<1>4. Stops(s) /\ Event(s) = "raise" /\ \A i \in 1..(s - 1) : ~Stops(i)
  BY <1>2, <1>3 DEF Stops, Open
<1>5. Whole(arrived) = Delivered[s - 1] \o Ending(s, arrived)
  BY <1>1, <1>3, <1>4, WholeStop
<1>6. Ending(s, arrived) = <<>>
  BY <1>3, <1>4 DEF Ending
<1>7. Delivered[k] \in Seq(Nat)
  BY <1>3, DeliveredLoop
<1>8. Delivered[k] \o <<>> = Delivered[k]
  BY <1>7, ConcatEmptySeq
<1> QED
  BY <1>3, <1>5, <1>6, <1>8 DEF Open

\* What Finish will have sent is the whole, whether the stream was closed by a line
\* of the loop, by the partial line behind it, or by neither.
LEMMA TailRelays ==
    ASSUME TypeOK, NEW k \in Nat, eaten = 3 * k, Tail_line,
           ~done_sent => Open(k) /\ arrived < eaten + 3,
           done_sent => Closed(k)
    PROVE  /\ pc' \in {"finish", "raised"}
           /\ pc' = "finish" => Whole(arrived) = IF done_sent' THEN out' ELSE Append(out', Terminator)
           /\ pc' = "raised" => Whole(arrived) = out'
<1>1. /\ Len(body) \in Nat /\ arrived \in 0..Size /\ arrived \in Nat /\ eaten <= arrived
      /\ arrived <= 3 * Len(body)
  BY BodyType DEF TypeOK, Size
<1>2. CASE done_sent
  <2>1. done_sent' = TRUE /\ out' = out /\ pc' = "finish"
    BY <1>2 DEF Tail_line, decoding, TypeOK
  <2>2. k \in 1..((arrived + 1) \div 3) /\ k <= arrived \div 3
    BY <1>1, <1>2 DEF Closed
  <2>3. Stops(k) /\ Event(k) # "raise" /\ \A i \in 1..(k - 1) : ~Stops(i)
    BY <1>2 DEF Closed
  <2>4. Whole(arrived) = Delivered[k - 1] \o Ending(k, arrived)
    BY <1>1, <2>2, <2>3, WholeStop
  <2>5. Whole(arrived) = Delivered[k - 1] \o Closing(Event(k) = "error")
    BY <2>2, <2>3, <2>4 DEF Ending, Closing
  <2> QED
    BY <1>2, <2>1, <2>5 DEF Closed
<1>3. CASE ~done_sent
  <2>1. Open(k) /\ arrived < 3 * k + 3 /\ done_sent = FALSE
    BY <1>3 DEF TypeOK
  <2>2. NextLine = k + 1
    BY DEF NextLine
  <2>3. k \in 0..Len(body) /\ Delivered[k] \in Seq(Nat) /\ out = Delivered[k]
    <3>1. k \in 0..Len(body)
      BY <1>1
    <3>2. Delivered \in [0..Len(body) -> Seq(Nat)]
      BY DeliveredLoop
    <3> QED
      BY <2>1, <3>1, <3>2 DEF Open
  <2>4. CASE arrived - eaten # 2
    <3>1. (arrived + 1) \div 3 = k
      BY <1>1, <2>1, <2>4
    <3>2. done_sent' = FALSE /\ out' = out /\ pc' = "finish"
      BY <2>1, <2>4 DEF Tail_line, decoding, after
    <3>3. Whole(arrived) = Append(Delivered[(arrived + 1) \div 3], Terminator)
      BY <1>1, <2>1, <3>1, WholeNoStop DEF Open
    <3> QED
      BY <2>3, <3>1, <3>2, <3>3
  <2>5. CASE arrived - eaten = 2
    <3>1. (arrived + 1) \div 3 = k + 1 /\ arrived \div 3 = k /\ k + 1 \in 1..Len(body)
      BY <1>1, <2>5
    <3>2. PICK e : e = Event(k + 1)
      OBVIOUS
    <3>3. process_sse_line(body[NextLine], stream_key) = e
      BY <2>1, <2>2, <3>2, LineEvent
    <3>4. e \in {"deliver", "error", "init", "done", "raise", "none"}
      BY <3>3, EventType
    <3>5. CASE e \in {"done", "error"}
      <4>0. PICK s : s = k + 1
        OBVIOUS
      <4>1. Stops(s) /\ s - 1 = k /\ ~(s <= arrived \div 3) /\ s \in 1..((arrived + 1) \div 3)
        BY <3>1, <3>2, <3>5, <4>0 DEF Stops
      <4>2. \A i \in 1..(s - 1) : ~Stops(i)
        BY <2>1, <4>1 DEF Open
      <4>3. Whole(arrived) = Delivered[s - 1] \o Ending(s, arrived)
        BY <1>1, <4>1, <4>2, WholeStop
      <4>4. Whole(arrived) = Delivered[k] \o Closing(FALSE)
        <5>1. Event(s) # "raise"
          BY <3>2, <3>5, <4>0
        <5> QED
          BY <4>1, <4>3, <5>1 DEF Ending, Closing
      <4>5. CASE e = "done"
        <5>1. done_sent' = TRUE /\ out' = out \o Closing(FALSE) /\ pc' = "finish"
          BY <2>1, <2>5, <3>3, <4>5 DEF Tail_line, close, Closing, after
        <5> QED
          BY <2>3, <4>4, <5>1
      <4>6. CASE e = "error"
        <5>1. done_sent' = FALSE /\ out' = out /\ pc' = "finish"
          BY <2>1, <2>5, <3>3, <4>6 DEF Tail_line, decoding, after
        <5>2. Whole(arrived) = Append(Delivered[k], Terminator)
          BY <2>3, <4>4, ClosedWell
        <5> QED
          BY <2>3, <5>1, <5>2
      <4> QED
        BY <3>5, <4>5, <4>6
    <3>6. CASE e \in {"deliver", "init", "none"}
      <4>1. ~Stops(k + 1)
        BY <3>2, <3>6 DEF Stops
      <4>2. \A i \in 1..(k + 1) : ~Stops(i)
        BY <2>1, <4>1 DEF Open
      <4>3. Whole(arrived) = Append(Delivered[(arrived + 1) \div 3], Terminator)
        BY <1>1, <3>1, <4>2, WholeNoStop
      <4>4. Delivered[k + 1] = IF e = "deliver" THEN Append(Delivered[k], k + 1) ELSE Delivered[k]
        <5>1. k + 1 - 1 = k
          OBVIOUS
        <5> QED
          BY <3>1, <3>2, <5>1, DeliveredLoop DEF Delivers
      <4>5. /\ done_sent' = FALSE /\ pc' = "finish"
            /\ out' = IF e = "deliver" THEN Append(out, k + 1) ELSE out
        BY <2>1, <2>2, <2>5, <3>3, <3>6 DEF Tail_line, deliver, decoding, after
      <4> QED
        BY <2>3, <3>1, <4>3, <4>4, <4>5
    <3>7. CASE e = "raise"
      <4>1. pc' = "raised" /\ out' = out
        BY <2>1, <2>5, <3>3, <3>7 DEF Tail_line, decoding, after
      <4>2. Whole(arrived) = out
        BY <2>1, <3>1, <3>2, <3>7, RaiseRelays
      <4> QED
        BY <4>1, <4>2
    <3> QED
      BY <3>4, <3>5, <3>6, <3>7
  <2> QED
    BY <2>4, <2>5
<1> QED
  BY <1>2, <1>3

LEMMA RelayStart == Init => RelayInv
<1> SUFFICES ASSUME Init PROVE RelayInv
  OBVIOUS
<1>0. TypeOK
  BY InitTypes
<1>1. Handled = 0 /\ eaten = 0
  BY DEF Init, Handled
<1>2. Open(0)
  BY <1>0, DeliveredLoop DEF Init, Open, Keyed
<1> QED
  BY <1>1, <1>2 DEF Init, RelayInv, Open, SameAsWhole

LEMMA RelayStep == TypeOK /\ RelayInv /\ [Next]_vars => RelayInv'
<1> SUFFICES ASSUME TypeOK, RelayInv, [Next]_vars PROVE RelayInv'
  OBVIOUS
<1>0. Len(body) \in Nat /\ arrived \in Nat /\ eaten \in Nat /\ eaten <= arrived /\ arrived <= 3 * Len(body)
  BY BodyType DEF TypeOK, Size
<1>1. PICK k \in Nat : eaten = 3 * k /\ Handled = k
  BY <1>0 DEF RelayInv, Handled
<1>2. /\ pc \in {"read", "tail"} /\ ~done_sent => Open(k)
      /\ pc \in {"read", "tail"} /\ done_sent => Closed(k)
      /\ pc = "tail" /\ ~done_sent => ~HasLine
      /\ pc = "finish" => Whole(arrived) = IF done_sent THEN out ELSE Append(out, Terminator)
      /\ SameAsWhole
  BY <1>1 DEF RelayInv, Open, Closed
<1>3. ASSUME NEW m \in Nat, eaten' = 3 * m,
             /\ pc' \in {"read", "tail"} /\ ~done_sent' => Open(m)'
             /\ pc' \in {"read", "tail"} /\ done_sent' => Closed(m)'
             /\ pc' = "tail" /\ ~done_sent' => ~HasLine'
             /\ pc' = "finish" => Whole(arrived)' = IF done_sent' THEN out' ELSE Append(out', Terminator)
             /\ SameAsWhole'
      PROVE  RelayInv'
  <2>1. Handled' = m
    BY <1>3 DEF Handled
  <2> QED
    BY <1>3, <2>1 DEF RelayInv, Open, Closed
<1>4. ASSUME UNCHANGED <<body, out, stream_key>>
      PROVE  (Open(k) => Open(k)') /\ (Closed(k) => Closed(k)')
  <2>1. Delivered' = Delivered /\ (\A i : Event(i)' = Event(i)) /\ \A i : Keyed(i)' = Keyed(i)
    BY <1>4, SameBody
  <2>2. \A i : Stops(i)' <=> Stops(i)
    BY <2>1 DEF Stops
  <2> QED
    BY <1>4, <2>1, <2>2 DEF Open, Closed, Closing
<1>5. CASE Read \/ ReadEnd \/ ReadError \/ ReadDone
  <2>1. /\ pc = "read" /\ pc' \in {"read", "tail"}
        /\ UNCHANGED <<body, eaten, out, stream_key, done_sent>>
        /\ pc' = "tail" /\ ~done_sent => ~HasLine /\ arrived' = arrived
    BY <1>5 DEF Read, ReadEnd, ReadError, ReadDone, decoding
  <2>2. pc' = "tail" /\ ~done_sent' => ~HasLine'
    BY <2>1 DEF HasLine
  <2> QED
    BY <1>1, <1>2, <1>3, <1>4, <2>1, <2>2 DEF SameAsWhole
<1>6. CASE Line
  <2>1. pc = "read" /\ body' = body /\ arrived' = arrived /\ eaten' = eaten + 3 /\ ~done_sent
    BY <1>6 DEF Line
  <2>2. NextLine = k + 1 /\ k + 1 \in 1..Len(body) /\ eaten' = 3 * (k + 1)
    BY <1>0, <1>1, <1>6, <2>1 DEF Line, HasLine, NextLine
  <2>3. handle(k + 1) /\ Open(k)
    BY <1>2, <1>6, <2>1, <2>2 DEF Line
  <2>4. process_sse_line(body[NextLine], stream_key) = Event(k + 1)
    BY <2>2, <2>3, LineEvent
  <2>5. CASE Event(k + 1) # "raise"
    <3>1. pc' = "read"
      BY <1>6, <2>4, <2>5 DEF Line, after
    <3>2. (~done_sent' => Open(k + 1)') /\ (done_sent' => Closed(k + 1)')
      BY <2>1, <2>2, <2>3, <2>5, HandleRelays
    <3> QED
      BY <1>3, <2>2, <3>1, <3>2 DEF SameAsWhole
  <2>6. CASE Event(k + 1) = "raise"
    <3>1. pc' = "raised" /\ out' = out
      BY <1>6, <2>4, <2>6 DEF Line, after, handle
    <3>2. k + 1 <= (arrived + 1) \div 3
      BY <1>0, <1>1, <1>6 DEF Line, HasLine
    <3>3. Whole(arrived) = out
      BY <2>3, <2>6, <3>2, RaiseRelays
    <3>4. Whole(arrived)' = Whole(arrived)
      BY <2>1, SameWhole
    <3>5. SameAsWhole'
      BY <3>1, <3>3, <3>4 DEF SameAsWhole
    <3> QED
      BY <1>3, <2>2, <3>1, <3>5
  <2> QED
    BY <2>5, <2>6
<1>7. CASE Tail_line
  <2>1. pc = "tail" /\ UNCHANGED <<body, arrived, eaten>>
    BY <1>7 DEF Tail_line
  <2>2. /\ ~done_sent => Open(k) /\ arrived < eaten + 3
        /\ done_sent => Closed(k)
    BY <1>0, <1>2, <2>1 DEF HasLine
  <2>3. /\ pc' \in {"finish", "raised"}
        /\ pc' = "finish" => Whole(arrived) = IF done_sent' THEN out' ELSE Append(out', Terminator)
        /\ pc' = "raised" => Whole(arrived) = out'
    BY <1>1, <1>7, <2>2, TailRelays
  <2>4. Whole(arrived)' = Whole(arrived)
    BY <2>1, SameWhole
  <2> QED
    BY <1>1, <1>3, <2>1, <2>3, <2>4 DEF SameAsWhole
<1>8. CASE Finish
  <2>1. /\ pc = "finish" /\ pc' = "end" /\ UNCHANGED <<body, arrived, eaten>>
        /\ out' = IF done_sent THEN out ELSE Append(out, Terminator)
    BY <1>8 DEF Finish
  <2>2. Whole(arrived)' = Whole(arrived)
    BY <2>1, SameWhole
  <2>3. out' = Whole(arrived)'
    BY <1>2, <2>1, <2>2
  <2> QED
    BY <1>1, <1>3, <2>1, <2>3 DEF SameAsWhole
<1>9. CASE Ended \/ UNCHANGED vars
  <2>1. UNCHANGED <<body, arrived, eaten, pc, stream_key, done_sent, out>>
    BY <1>9 DEF Ended, vars
  <2>2. Whole(arrived)' = Whole(arrived)
    BY <2>1, SameWhole
  <2>3. HasLine' <=> HasLine
    BY <2>1 DEF HasLine
  <2>4. SameAsWhole'
    BY <1>2, <2>1, <2>2 DEF SameAsWhole
  <2>5. pc' = "finish" => Whole(arrived)' = IF done_sent' THEN out' ELSE Append(out', Terminator)
    BY <1>2, <2>1, <2>2
  <2>6. (Open(k) => Open(k)') /\ (Closed(k) => Closed(k)')
    BY <1>4, <2>1
  <2>7. /\ pc' \in {"read", "tail"} /\ ~done_sent' => Open(k)'
        /\ pc' \in {"read", "tail"} /\ done_sent' => Closed(k)'
        /\ pc' = "tail" /\ ~done_sent' => ~HasLine'
    BY <1>2, <2>1, <2>3, <2>6
  <2>8. eaten' = 3 * k
    BY <1>1, <2>1
  <2> QED
    BY <1>3, <2>4, <2>5, <2>7, <2>8
<1> QED
  BY <1>5, <1>6, <1>7, <1>8, <1>9 DEF Next

\* However the bytes are cut into reads, and wherever the connection ends, the
\* client gets what it would have got in one piece, in order, terminated once unless
\* a line raised.
THEOREM SameStream == Spec => []SameAsWhole
<1>1. RelayInv => SameAsWhole
  BY DEF RelayInv
<1> QED
  BY <1>1, RelayStart, RelayStep, TypeCorrect, PTL DEF Spec

---------------------------------------------------------------------------
(* What the selector hears of a stream                                     *)

\* A delivered line is a call with a line; closing calls have none.
LEMMA GotAdded ==
    ASSUME TypeOK, NEW x \in 1..Len(body), out' = Append(out, x)
    PROVE  GotLine'
<1>1. out \in Seq(ErrorLine..Len(body)) /\ Len(body) \in Nat
  BY BodyType DEF TypeOK
<1>2. Len(out) + 1 \in DOMAIN out' /\ out'[Len(out) + 1] = x /\ x > 0
  BY <1>1
<1> QED
  BY <1>2 DEF GotLine

LEMMA GotKept ==
    ASSUME TypeOK, NEW calls \in Seq({ErrorLine, Terminator}), out' = out \o calls
    PROVE  GotLine' <=> GotLine
<1>1. out \in Seq(ErrorLine..Len(body)) /\ Len(body) \in Nat
  BY BodyType DEF TypeOK
<1>2. /\ DOMAIN out = 1..Len(out) /\ DOMAIN out' = 1..(Len(out) + Len(calls))
      /\ Len(out) \in Nat /\ Len(calls) \in Nat
      /\ \A i \in 1..Len(out) : out'[i] = out[i]
      /\ \A i \in 1..(Len(out) + Len(calls)) : i > Len(out) => out'[i] = calls[i - Len(out)]
  BY <1>1
<1>3. ASSUME NEW i \in 1..(Len(out) + Len(calls)), i \notin 1..Len(out)
      PROVE  ~(out'[i] > 0)
  <2>1. i - Len(out) \in 1..Len(calls) /\ out'[i] = calls[i - Len(out)]
    BY <1>2, <1>3
  <2>2. out'[i] \in {ErrorLine, Terminator}
    BY <2>1
  <2> QED
    BY <2>2 DEF ErrorLine, Terminator
<1>4. GotLine' <=> \E i \in 1..(Len(out) + Len(calls)) : out'[i] > 0
  BY <1>2 DEF GotLine
<1>5. GotLine <=> \E i \in 1..Len(out) : out[i] > 0
  BY <1>2 DEF GotLine
<1>6. 1..Len(out) \subseteq 1..(Len(out) + Len(calls))
  BY <1>2
<1> QED
  BY <1>2, <1>3, <1>4, <1>5, <1>6, Zenon

LEMMA GotHandled ==
    ASSUME TypeOK, NEW i \in 1..Len(body), handle(i), first_chunk <=> GotLine
    PROVE  first_chunk' <=> GotLine'
<1>1. CASE deliver(i)
  <2>1. out' = Append(out, i) /\ first_chunk' = TRUE
    BY <1>1 DEF deliver
  <2> QED
    BY <2>1, GotAdded
<1>2. ASSUME NEW calls \in Seq({ErrorLine, Terminator}), close(calls)
      PROVE  first_chunk' <=> GotLine'
  <2>1. out' = out \o calls /\ first_chunk' = first_chunk
    BY <1>2 DEF close
  <2> QED
    BY <2>1, GotKept
<1>3. CASE UNCHANGED <<first_chunk, out>>
  BY <1>3 DEF GotLine
<1>4. \/ deliver(i) \/ close(<<Terminator>>) \/ close(<<ErrorLine, Terminator>>)
      \/ UNCHANGED <<first_chunk, out>>
  BY DEF handle
<1>5. <<Terminator>> \in Seq({ErrorLine, Terminator})
      /\ <<ErrorLine, Terminator>> \in Seq({ErrorLine, Terminator})
  OBVIOUS
<1> QED
  BY <1>1, <1>2, <1>3, <1>4, <1>5

\* Whether the first k lines hold an error depends on the body alone.
LEMMA ErrorSame ==
    ASSUME body' = body
    PROVE  \A k : ErrorIn(k)' <=> ErrorIn(k)
BY DEF ErrorIn, Stops, Event, Keyed, process_sse_line

\* Lines that do not stop the stream hold none, and the first that does decides.
LEMMA ErrorNone ==
    ASSUME NEW k \in Nat, \A i \in 1..k : ~Stops(i)
    PROVE  ~ErrorIn(k)
BY DEF ErrorIn, Stops

LEMMA ErrorAt ==
    ASSUME NEW k \in Nat, k > 0, Stops(k), \A i \in 1..(k - 1) : ~Stops(i), NEW n \in Nat, k <= n
    PROVE  ErrorIn(n) <=> Event(k) = "error"
<1>1. ASSUME NEW i \in 1..n, \A j \in 1..(i - 1) : ~Stops(j), Event(i) = "error"
      PROVE  i = k
  <2>1. Stops(i)
    BY <1>1 DEF Stops
  <2>2. ~(i < k) /\ ~(k < i)
    BY <1>1, <2>1
  <2> QED
    BY <2>2
<1>2. k \in 1..n
  OBVIOUS
<1> QED
  BY <1>1, <1>2 DEF ErrorIn

\* A line sets had_error when it is an error.
LEMMA LineErrs ==
    ASSUME TypeOK, NEW k \in Nat, k + 1 \in 1..Len(body), Open(k), handle(k + 1)
    PROVE  had_error' <=> had_error \/ Event(k + 1) = "error"
<1>1. PICK e : e = Event(k + 1)
  OBVIOUS
<1>2. process_sse_line(body[k + 1], stream_key) = e
  BY <1>1, LineEvent
<1>3. CASE e = "error"
  <2>1. had_error' = TRUE
    BY <1>2, <1>3 DEF handle
  <2> QED
    BY <1>1, <1>3, <2>1
<1>4. CASE e # "error"
  <2>1. had_error' = had_error
    BY <1>2, <1>4 DEF handle
  <2> QED
    BY <1>1, <1>4, <2>1
<1> QED
  BY <1>3, <1>4

\* had_error knows of the reader and of the lines handled.
ErrorKnown == had_error <=> broken \/ ErrorIn(Handled)
AllKnown == pc \in {"tail", "finish", "end"} => (ErrorIn(Handled) <=> ErrorIn(arrived \div 3))

\* What every step does to that.
LEMMA ErrorStep ==
    ASSUME TypeOK, RelayInv, ErrorKnown, AllKnown, [Next]_vars
    PROVE  ErrorKnown' /\ AllKnown'
<1>0. Len(body) \in Nat /\ arrived \in Nat /\ eaten \in Nat /\ eaten <= arrived /\ arrived <= 3 * Len(body)
  BY BodyType DEF TypeOK, Size
<1>1. PICK k \in Nat : eaten = 3 * k /\ Handled = k
  BY <1>0 DEF RelayInv, Handled
<1>2. /\ pc \in {"read", "tail"} /\ ~done_sent => Open(k)
      /\ pc \in {"read", "tail"} /\ done_sent => Closed(k)
  BY <1>1 DEF RelayInv, Open, Closed
<1>3. body' = body
  BY DEF Next, Read, ReadEnd, ReadError, ReadDone, Line, Tail_line, Finish, Ended, vars
<1>4. \A n : ErrorIn(n)' <=> ErrorIn(n)
  BY <1>3, ErrorSame
<1>5. ASSUME UNCHANGED <<eaten, arrived>>
      PROVE  /\ Handled' = k /\ (arrived \div 3)' = arrived \div 3
             /\ ErrorIn(Handled)' <=> ErrorIn(k)
             /\ ErrorIn(arrived \div 3)' <=> ErrorIn(arrived \div 3)
  <2>1. Handled' = k
    BY <1>1, <1>5 DEF Handled
  <2>2. (ErrorIn(Handled)' <=> ErrorIn(k)) /\ (ErrorIn(arrived \div 3)' <=> ErrorIn(arrived \div 3))
    BY <1>3, <1>5, <2>1 DEF ErrorIn, Stops, Event, Keyed, process_sse_line
  <2> QED
    BY <1>5, <2>1, <2>2
<1>6. CASE Read
  <2>1. pc' = "read" /\ UNCHANGED <<eaten, had_error, broken>> /\ Handled' = k
    BY <1>1, <1>6 DEF Read, decoding, Handled
  <2>2. ErrorIn(Handled)' <=> ErrorIn(k)
    BY <1>3, <2>1 DEF ErrorIn, Stops, Event, Keyed, process_sse_line
  <2> QED
    BY <1>1, <2>1, <2>2 DEF ErrorKnown, AllKnown
<1>7. CASE ReadEnd \/ ReadError
  <2>1. /\ UNCHANGED <<eaten, arrived>> /\ pc = "read" /\ ~done_sent /\ ~HasLine
        /\ \/ UNCHANGED <<had_error, broken>>
           \/ had_error' = TRUE /\ broken' = TRUE
    BY <1>7 DEF ReadEnd, ReadError, decoding
  <2>2. arrived \div 3 = k
    BY <1>0, <1>1, <2>1 DEF HasLine
  <2> QED
    BY <1>1, <1>5, <2>1, <2>2 DEF ErrorKnown, AllKnown
<1>8. CASE ReadDone
  <2>1. /\ UNCHANGED <<eaten, arrived, had_error, broken>> /\ pc = "read" /\ done_sent
    BY <1>8 DEF ReadDone, decoding
  <2>2. Closed(k)
    BY <1>2, <2>1
  <2>3. arrived \div 3 \in Nat /\ k <= arrived \div 3
    BY <1>0, <1>1
  <2>4. k > 0 /\ Stops(k) /\ \A i \in 1..(k - 1) : ~Stops(i)
    BY <2>2 DEF Closed
  <2>5. (ErrorIn(k) <=> Event(k) = "error") /\ (ErrorIn(arrived \div 3) <=> Event(k) = "error")
    BY <2>3, <2>4, ErrorAt
  <2> QED
    BY <1>1, <1>5, <2>1, <2>5 DEF ErrorKnown, AllKnown
<1>9. CASE Line
  <2>1. pc = "read" /\ arrived' = arrived /\ eaten' = eaten + 3 /\ ~done_sent /\ broken' = broken
    BY <1>9 DEF Line
  <2>2. NextLine = k + 1 /\ k + 1 \in 1..Len(body) /\ Handled' = k + 1
    BY <1>0, <1>1, <1>9, <2>1 DEF Line, HasLine, NextLine, Handled
  <2>3. handle(k + 1) /\ Open(k)
    BY <1>2, <1>9, <2>1, <2>2 DEF Line
  <2>4. had_error' <=> had_error \/ Event(k + 1) = "error"
    BY <2>2, <2>3, LineErrs
  <2>5. pc' \in {"read", "raised"}
    BY <1>9 DEF Line, after
  <2>6. \A i \in 1..k : ~Stops(i)
    BY <2>3 DEF Open
  <2>7. ~ErrorIn(k)
    BY <2>6, ErrorNone
  <2>8. ErrorIn(k + 1) <=> Event(k + 1) = "error"
    <3>1. CASE Stops(k + 1)
      <4>1. k + 1 \in Nat /\ k + 1 > 0 /\ (k + 1) - 1 = k
        OBVIOUS
      <4> QED
        BY <2>6, <3>1, <4>1, ErrorAt
    <3>2. CASE ~Stops(k + 1)
      <4>1. k + 1 \in Nat /\ \A i \in 1..(k + 1) : ~Stops(i)
        BY <2>6, <3>2
      <4>2. ~ErrorIn(k + 1)
        BY <4>1, ErrorNone
      <4> QED
        BY <3>2, <4>2 DEF Stops
    <3> QED
      BY <3>1, <3>2
  <2>9. ErrorIn(Handled)' <=> ErrorIn(k + 1)
    BY <1>3, <2>2 DEF ErrorIn, Stops, Event, Keyed, process_sse_line
  <2> QED
    BY <1>1, <2>1, <2>4, <2>5, <2>7, <2>8, <2>9 DEF ErrorKnown, AllKnown
<1>10. CASE Tail_line
  <2>1. /\ UNCHANGED <<eaten, arrived, broken>> /\ pc = "tail"
        /\ had_error' = had_error
    BY <1>10 DEF Tail_line, decoding
  <2> QED
    BY <1>1, <1>5, <2>1 DEF ErrorKnown, AllKnown
<1>11. CASE Finish
  <2>1. /\ UNCHANGED <<eaten, arrived, broken, had_error>> /\ pc = "finish"
    BY <1>11 DEF Finish
  <2> QED
    BY <1>1, <1>5, <2>1 DEF ErrorKnown, AllKnown
<1>12. CASE Ended \/ UNCHANGED vars
  <2>1. UNCHANGED <<eaten, arrived, broken, had_error, pc>>
    BY <1>12 DEF Ended, vars
  <2> QED
    BY <1>1, <1>5, <2>1 DEF ErrorKnown, AllKnown
<1> QED
  BY <1>6, <1>7, <1>8, <1>9, <1>10, <1>11, <1>12 DEF Next

\* What a stream leaves behind is right however it ended: the last usage delivered is
\* accounted, once; the selector hears a success from every stream that delivered a
\* line or did not fail, and a failure after it exactly from those that failed.  An error
\* in a last line without its newline is dropped, and a line that raises leaves no usage.
THEOREM ReportedRight == Spec => []ReportedOnce
<1>1. Init => ReportInv
  <2> SUFFICES ASSUME Init PROVE ReportInv
    OBVIOUS
  <2>1. Handled = 0 /\ ~ErrorIn(0)
    BY DEF Init, Handled, ErrorIn
  <2>2. Used = {} /\ ~GotLine
    BY DEF Init, Used, GotLine
  <2> QED
    BY <2>1, <2>2 DEF Init, ReportInv, ReportedOnce
<1>2. TypeOK /\ RelayInv /\ ReportInv /\ [Next]_vars => ReportInv'
  <2> SUFFICES ASSUME TypeOK, RelayInv, ReportInv, [Next]_vars PROVE ReportInv'
    OBVIOUS
  <2>1. /\ UsageOK /\ ReportedOnce /\ (pc # "end" => ReportedSoFar) /\ (first_chunk <=> GotLine)
        /\ ErrorKnown /\ AllKnown
    BY DEF ReportInv, UsageOK, ReportedSoFar, ErrorKnown, AllKnown
  <2>2. ErrorKnown' /\ AllKnown'
    BY <2>1, ErrorStep
  <2>3. SUFFICES UsageOK' /\ ReportedOnce' /\ (pc' # "end" => ReportedSoFar') /\ (first_chunk' <=> GotLine')
    BY <2>2 DEF ReportInv, UsageOK, ReportedSoFar, ErrorKnown, AllKnown
  <2>4. ASSUME pc' # "end", ReportedSoFar', first_chunk' <=> GotLine'
        PROVE  ReportedOnce'
    BY <2>4 DEF ReportedOnce, ReportedSoFar
  <2>5. CASE Finish
    <3>1. /\ UsageOK'
          /\ accounted' = IF Used' = {} THEN <<>>
                          ELSE <<out'[CHOOSE i \in Used' : \A j \in Used' : j <= i]>>
          /\ records' = (IF first_chunk \/ ~had_error THEN <<"ok">> ELSE <<>>)
                        \o (IF had_error THEN <<"fail">> ELSE <<>>)
      BY <2>1, <2>5, ReportFinish DEF Finish
    <3>2. pc' = "end" /\ first_chunk' = first_chunk /\ had_error' = had_error
      BY <2>5 DEF Finish
    <3>3. first_chunk' <=> GotLine'
      <4>1. out \in Seq(ErrorLine..Len(body)) /\ <<Terminator>> \in Seq({ErrorLine, Terminator})
            /\ Append(out, Terminator) = out \o <<Terminator>>
        BY DEF TypeOK
      <4>2. CASE out' = out
        BY <2>1, <3>2, <4>2 DEF GotLine
      <4>3. CASE out' = Append(out, Terminator)
        <5>1. out' = out \o <<Terminator>>
          BY <4>1, <4>3
        <5> QED
          BY <2>1, <3>2, <4>1, <5>1, GotKept
      <4> QED
        BY <2>5, <4>2, <4>3 DEF Finish
    <3>4. had_error' <=> Failed'
      BY <2>2, <3>2 DEF ErrorKnown, AllKnown, Failed
    <3>5. records' = (IF GotLine' \/ ~Failed' THEN <<"ok">> ELSE <<>>)
                     \o (IF Failed' THEN <<"fail">> ELSE <<>>)
      BY <3>1, <3>2, <3>3, <3>4
    <3>6. ReportedOnce'
      BY <3>1, <3>2, <3>5 DEF ReportedOnce
    <3> QED
      BY <3>1, <3>2, <3>3, <3>6
  <2>6. CASE pc # "end" /\ pc' # "end"
             /\ UNCHANGED <<body, first_chunk, last_usage, out, records, accounted>>
    <3>1. UsageOK' /\ ReportedSoFar' /\ (first_chunk' <=> GotLine')
      BY <2>1, <2>6 DEF UsageOK, ReportedSoFar, Used, GotLine
    <3> QED
      BY <2>4, <2>6, <3>1
  <2>7. CASE Ended \/ UNCHANGED vars
    <3>1. UNCHANGED <<body, arrived, pc, broken, first_chunk, last_usage, out, records, accounted>>
      BY <2>7 DEF Ended, vars
    <3>2. Used' = Used /\ (GotLine' <=> GotLine) /\ (Failed' <=> Failed)
      BY <3>1 DEF Used, GotLine, Failed, ErrorIn, Stops, Event, Keyed, process_sse_line
    <3> QED
      BY <2>1, <3>1, <3>2 DEF UsageOK, ReportedSoFar, ReportedOnce
  <2>8. CASE Line
    <3>1. Len(body) \in Nat /\ arrived \in Nat /\ eaten \in Nat /\ arrived <= 3 * Len(body)
      BY BodyType DEF TypeOK, Size
    <3>2. NextLine \in 1..Len(body)
      BY <2>8, <3>1 DEF Line, HasLine, NextLine
    <3>3. body' = body /\ pc = "read" /\ pc' # "end" /\ handle(NextLine)
      BY <2>8 DEF Line, after
    <3>4. UsageOK' /\ ReportedSoFar'
      BY <2>1, <3>2, <3>3, ReportHandle
    <3>5. first_chunk' <=> GotLine'
      BY <2>1, <3>2, <3>3, GotHandled
    <3> QED
      BY <2>4, <3>3, <3>4, <3>5
  <2>9. CASE Tail_line
    <3>1. body' = body /\ pc = "tail" /\ pc' # "end"
      BY <2>9 DEF Tail_line, after
    <3>2. CASE UNCHANGED decoding
      BY <2>6, <3>1, <3>2 DEF decoding
    <3>3. CASE NextLine \in 1..Len(body) /\ handle(NextLine)
      <4>1. UsageOK' /\ ReportedSoFar'
        BY <2>1, <3>1, <3>3, ReportHandle
      <4>2. first_chunk' <=> GotLine'
        BY <2>1, <3>3, GotHandled
      <4> QED
        BY <2>4, <3>1, <4>1, <4>2
    <3> QED
      BY <2>9, <3>2, <3>3, TailHandles
  <2>10. CASE Read \/ ReadEnd \/ ReadError \/ ReadDone
    BY <2>6, <2>10 DEF Read, ReadEnd, ReadError, ReadDone, decoding
  <2> QED
    BY <2>5, <2>7, <2>8, <2>9, <2>10 DEF Next
<1>3. ReportInv => ReportedOnce
  BY DEF ReportInv
<1> QED
  BY <1>1, <1>2, <1>3, RelayStart, RelayStep, TypeCorrect, PTL DEF Spec

---------------------------------------------------------------------------
(* The inductive invariant of an exchange                                  *)

\* Every ciphertext there is in this exchange.
Ciphertexts == [pk : {"nobody", "instance", "response", "other"},
                head : {"intact", "damaged"}, rest : {"intact", "damaged"}]

\* Where the worker is in the functions of e2ee_proxy_api.c.
Sealing == {"cipher", "setup", "loop", "get_tag", "cipher_out"}
Opening == {"cipher", "setup", "loop", "cipher_out"}
Inflating == {"inflate", "inflating", "inflate_end"}
Packing == {"payload", "gzip", "deflate", "deflate_end", "nonce"}
Deriving == {"hkdf", "derive", "hkdf_out"}

\* What is sealed or opened, by where the worker is.
Placed ==
    /\ at \in {"keygen", "pubkey", "encapsulate", "sent", "wire", "decapsulate", "await",
               "returned", "failed"} \cup Packing \cup Deriving \cup Sealing \cup Inflating
    /\ kind \in {"request", "response", "init", "chunk"}
    /\ at \in {"keygen", "pubkey", "encapsulate", "get_tag", "sent"} \cup Packing => kind = "request"
    /\ at \in Deriving => kind # "chunk"
    /\ at \in Sealing => kind # "init"
    /\ at = "wire" => kind # "request"
    /\ at = "decapsulate" => kind \in {"response", "init"}
    /\ at = "await" => kind = "init"
    /\ at \in Inflating => kind = "response"
    /\ at = "returned" => kind \in {"response", "chunk"}

\* The framing of a compressed answer is always there.
TextOK ==
    /\ text \in [size : Nat, len : Nat, whose : {"nobody", "ours"}]
    /\ kind \in {"response", "chunk"} => text.whose = "ours"
    /\ kind = "response" => text.len >= 18

\* A request is sealed with the key the instance will derive.
RequestOK ==
    kind = "request" =>
        /\ at \in Deriving \cup Packing \cup Sealing \cup {"sent"} => ct = Encapsulated("instance")
        /\ at \in Packing \cup Sealing \cup {"sent"} \/ (at = "hkdf_out" /\ rc = 0) =>
             key = KeyFor(Secret("instance", ct), ct, "request")
        /\ at = "sent" \/ (at = "cipher_out" /\ rc = 0) => blob = Sealed(ct, key, text)

\* What is on its way is genuine, and stays so unless the wire did something; only
\* what is genuine opens under a key of ours.
OnTheWay == at \in {"wire", "decapsulate"} \cup Deriving \cup Opening \cup Inflating
Genuine == blob = Answered(IF kind = "init" THEN None ELSE text, Encapsulated("response"), kind)
Unforged(b) == \A c \in Ciphertexts :
    Authentic(b, KeyFor(Secret("response", c), c, kind)) => b.text = text
BlobOK ==
    kind # "request" /\ OnTheWay =>
        /\ blob.ct \in Ciphertexts
        /\ at = "wire" \/ cause = {} => Genuine
        /\ kind # "init" => Unforged(blob)
        /\ at \in Inflating \/ (at = "cipher_out" /\ rc = 0) => Authentic(blob, key)

\* It is opened with a key of ours, the right one unless the wire did something.
KeyDerived == \/ kind = "response" /\ at \in Opening \cup Inflating
              \/ kind = "init" /\ at = "await"
              \/ kind \in {"response", "init"} /\ at = "hkdf_out" /\ rc = 0
              \/ kind = "chunk" /\ OnTheWay
KeyOK ==
    /\ ct \in Ciphertexts
    /\ KeyDerived => key = KeyFor(Secret("response", ct), ct, kind)
    /\ KeyDerived \/ (kind # "request" /\ at \in Deriving) =>
         (cause = {} => ct = Encapsulated("response"))

\* There is something to leak only after a cipher ran over an answer.
BufferOK ==
    \/ kind = "request"
    \/ at \notin {"loop", "cipher_out", "returned", "failed"} \cup Inflating
    => buf = "zero"

\* A function is to return an error only for a cause, or for a size.
TooLong == text.size = 0 \/ text.size >= UINT_MAX \/ text.len > UINT_MAX
ReturnOK ==
    /\ at \in {"setup", "loop", "get_tag"} => rc # 0
    /\ at \in {"hkdf_out", "cipher_out"} /\ rc # 0 => cause # {}
    /\ at = "deflate_end" => rc \in Nat /\ (rc = 0 => cause # {})
    /\ at = "inflating" => gzip_isize(text) # 0
    /\ at = "inflate_end" /\ rc # 0 => rc = text.size
    /\ at = "inflate_end" /\ rc = 0 => cause # {} \/ TooLong

EnvInv == /\ Placed /\ TextOK /\ RequestOK /\ BlobOK /\ KeyOK /\ BufferOK /\ ReturnOK
          /\ ExactBothWays /\ ErrorHasCause /\ NothingLeftBehind

---------------------------------------------------------------------------
(* Random bytes                                                            *)
RandomInv == RandomTypeOK /\ FillInv

\* No step of randombytes, or of its callers, breaks the invariant.
LEMMA FillStep == RandomInv /\ [RandomNext]_randomVars => RandomInv'
<1> SUFFICES ASSUME RandomInv, [RandomNext]_randomVars PROVE RandomInv'
  OBVIOUS
<1> USE LenAssumption DEF RandomInv, RandomTypeOK, FillInv
<1>1. ASSUME NEW r \in 1..MaxLen, GetrandomReads(r) \/ UrandomReads(r) PROVE RandomInv'
  BY <1>1 DEF GetrandomReads, UrandomReads, Got, Advance, Room, Larger
<1>2. CASE GetrandomFails \/ GetrandomDone
  BY <1>2 DEF GetrandomFails, GetrandomDone
<1>3. CASE OpenUrandom
  BY <1>3 DEF OpenUrandom
<1>4. CASE UrandomEnds \/ UrandomDone
  BY <1>4 DEF UrandomEnds, UrandomDone
<1>5. CASE CallerGoesOn \/ CallerAborts
  BY <1>5 DEF CallerGoesOn, CallerAborts
<1>6. CASE UNCHANGED randomVars
  BY <1>6 DEF randomVars
<1> QED
  BY <1>1, <1>2, <1>3, <1>4, <1>5, <1>6 DEF RandomNext, Step, GetrandomInterrupted, Over

\* In an exchange the random bytes move as randombytes does, start anew, or rest.
LEMMA FillMoves == [EnvNext]_allvars => [RandomNext]_randomVars \/ DrawRandom
<1> SUFFICES ASSUME EnvNext PROVE [RandomNext]_randomVars \/ DrawRandom
  BY DEF allvars
<1>1. CASE RandomTurn
  BY <1>1 DEF RandomTurn, RandomNext
<1>2. CASE Keygen \/ ServerPubkey \/ Encapsulate \/ HkdfNew \/ HkdfCall \/ HkdfDerive \/ HkdfOut
  BY <1>2 DEF Keygen, ServerPubkey, Encapsulate, HkdfNew, HkdfCall, HkdfDerive, HkdfOut
<1>3. CASE \E n \in RequestSizes : InjectResponsePk(n)
  BY <1>3 DEF InjectResponsePk
<1>4. CASE DeflateInit \/ (\E produced \in DeflateLengths(text.size) : Deflate(produced)) \/ DeflateEnd
  BY <1>4 DEF DeflateInit, Deflate, DeflateEnd
<1>5. CASE Nonce \/ CipherNew \/ CipherSetup \/ CipherUpdate
          \/ CipherFinal \/ GetTag \/ CipherOut \/ CallFails
  BY <1>5 DEF Nonce, CipherNew, CipherSetup, CipherUpdate, CipherFinal, GetTag, CipherOut, CallFails
<1>6. CASE Receive \/ Decapsulate \/ InflateInit \/ Inflate \/ InflateEnd
  BY <1>6 DEF Receive, Decapsulate, InflateInit, Inflate, InflateEnd
<1>7. CASE Instance
  BY <1>7 DEF Instance, InstanceResponds, InstanceStreams, InstanceSendsChunk
<1>8. CASE ExchangeOver
  BY <1>8 DEF ExchangeOver, allvars
<1> QED
  BY <1>1, <1>2, <1>3, <1>4, <1>5, <1>6, <1>7, <1>8 DEF EnvNext, Worker

\* Every buffer an exchange uses, for its keys, its coins or its nonce, is random to
\* its end, and none is written beyond it: for every length and every sequence of
\* short reads, interruptions and failures of getrandom and /dev/urandom.
THEOREM Filled == EnvSpec => [](RandomTypeOK /\ UsedOnlyFilled)
<1>1. EnvInit => RandomInv
  BY LenAssumption DEF EnvInit, RandomInit, RandomInv, RandomTypeOK, FillInv
<1>2. RandomInv /\ DrawRandom => RandomInv'
  BY LenAssumption DEF DrawRandom, RandomInv, RandomTypeOK, FillInv
<1>3. RandomInv /\ [EnvNext]_allvars => RandomInv'
  BY <1>2, FillStep, FillMoves
<1>4. RandomInv => RandomTypeOK /\ UsedOnlyFilled
  BY DEF RandomInv, FillInv, UsedOnlyFilled
<1> QED
  BY <1>1, <1>3, <1>4, PTL DEF EnvSpec

---------------------------------------------------------------------------
(* Envelopes                                                               *)

\* A chunk is opened with the key of the stream's e2e_init.
LEMMA ChunkKey == \A ss, c : KeyFor(ss, c, "chunk") = KeyFor(ss, c, "init")
BY DEF KeyFor, Info

\* The secrets of two ciphertexts made for different keys differ.
LEMMA SecretOurs ==
    ASSUME NEW c \in Ciphertexts
    PROVE  Secret("response", c) # Secret("other", Encapsulated("other"))
BY DEF Secret

\* The instance's answer opens under the key of its ciphertext, and is the text.
LEMMA GenuineOpens ==
    ASSUME Genuine, kind \in {"response", "init", "chunk"}
    PROVE  /\ blob.ct = Encapsulated("response") /\ blob.ct \in Ciphertexts
           /\ Authentic(blob, KeyFor(Secret("response", blob.ct), blob.ct, kind))
           /\ kind # "init" => blob.text = text /\ Unforged(blob)
BY DEF Genuine, Answered, Sealed, InstanceKey, KeyFor, Authentic, Encapsulated, Ciphertexts, Unforged

\* Nothing the wire can make of it opens as another text.
LEMMA DamagedUnforged ==
    ASSUME Genuine, TextOK, kind \in {"response", "init", "chunk"}, NEW b \in Damaged
    PROVE  b.ct \in Ciphertexts /\ (kind # "init" => Unforged(b))
<1> DEFINE c0 == Encapsulated("response")
           t0 == IF kind = "init" THEN None ELSE text
           k0 == InstanceKey(Secret("response", c0), c0, kind)
<1>1. blob = [ct |-> c0, nonce |-> "n", text |-> t0, tag |-> <<k0, "n", t0>>]
  BY DEF Genuine, Answered, Sealed
<1>2. c0 = [pk |-> "response", head |-> "intact", rest |-> "intact"]
  BY DEF Encapsulated
<1> HIDE DEF c0, t0, k0
<1>3. CASE b = [blob EXCEPT !.ct.head = "damaged"] \/ b = [blob EXCEPT !.ct.rest = "damaged"]
  <2>1. b.text = t0 /\ b.ct \in Ciphertexts
    BY <1>1, <1>2, <1>3 DEF Ciphertexts
  <2> QED
    BY <2>1 DEF t0, Unforged
<1>4. CASE b = [blob EXCEPT !.nonce = "damaged"]
  <2>1. b.text = t0 /\ b.ct = c0
    BY <1>1, <1>4
  <2> QED
    BY <1>2, <2>1 DEF t0, Unforged, Ciphertexts
<1>5. CASE b = [blob EXCEPT !.text.whose = "damaged"]
  <2>1. b.ct \in Ciphertexts
    BY <1>1, <1>2, <1>5 DEF Ciphertexts
  <2>2. ASSUME kind # "init", NEW k PROVE ~Authentic(b, k)
    <3>1. t0 = text /\ text.whose = "ours" /\ text \in [size : Nat, len : Nat, whose : {"nobody", "ours"}]
      BY <2>2 DEF t0, TextOK
    <3>2. b.tag = <<k0, "n", text>> /\ b.text = [text EXCEPT !.whose = "damaged"]
      BY <1>1, <1>5, <3>1
    <3>3. b.text.whose = "damaged"
      BY <3>1, <3>2
    <3> QED
      BY <3>1, <3>2, <3>3 DEF Authentic
  <2> QED
    BY <2>1, <2>2 DEF Unforged
<1>6. CASE b = [blob EXCEPT !.tag = <<"damaged">>]
  <2>1. b.ct = c0 /\ b.tag = <<"damaged">>
    BY <1>1, <1>6
  <2>2. ASSUME NEW k PROVE ~Authentic(b, k)
    BY <2>1 DEF Authentic
  <2> QED
    BY <1>2, <2>1, <2>2 DEF Unforged, Ciphertexts
<1>7. CASE b = Foreign
  <2> DEFINE co == Encapsulated("other")
             ko == InstanceKey(Secret("other", co), co, kind)
             tt == [text EXCEPT !.whose = "theirs"]
  <2>1. b.ct = co /\ b.tag = <<ko, "n", tt>>
    BY <1>7 DEF Foreign, Sealed
  <2>2. co \in Ciphertexts
    BY DEF Encapsulated, Ciphertexts
  <2>3. ko.ss = Secret("other", co)
    BY DEF InstanceKey
  <2> HIDE DEF ko, tt
  <2>4. ASSUME NEW c \in Ciphertexts PROVE ~Authentic(b, KeyFor(Secret("response", c), c, kind))
    <3> DEFINE k == KeyFor(Secret("response", c), c, kind)
    <3>1. k.ss = Secret("response", c)
      BY DEF KeyFor
    <3> HIDE DEF k
    <3>2. k # ko
      BY <2>3, <3>1, SecretOurs
    <3>3. ~Authentic(b, k)
      BY <2>1, <3>2 DEF Authentic
    <3> QED
      BY <3>3 DEF k
  <2> QED
    BY <2>1, <2>2, <2>4 DEF Unforged
<1> QED
  BY <1>3, <1>4, <1>5, <1>6, <1>7 DEF Damaged

---------------------------------------------------------------------------
(* Every step keeps the invariant                                          *)

\* Building a request, up to its compressed payload.
LEMMA BuildStep ==
    ASSUME EnvInv,
           Keygen \/ ServerPubkey \/ Encapsulate \/ Nonce \/ \E n \in RequestSizes : InjectResponsePk(n)
    PROVE  EnvInv'
<1> USE DEF EnvInv, Placed, TextOK, RequestOK, BlobOK, OnTheWay, KeyDerived, KeyOK, BufferOK, ReturnOK,
            Packing, Deriving, Sealing, Opening, Inflating,
            ExactBothWays, ErrorHasCause, NothingLeftBehind, Goto, Fail, native
<1>1. CASE Keygen
  BY <1>1 DEF Keygen
<1>2. CASE ServerPubkey
  BY <1>2 DEF ServerPubkey
<1>3. CASE Encapsulate
  BY <1>3 DEF Encapsulate, Encapsulated, Ciphertexts
<1>4. CASE Nonce
  BY <1>4 DEF Nonce
<1>5. ASSUME NEW n \in RequestSizes, InjectResponsePk(n) PROVE EnvInv'
  BY <1>5, SizesAssumption DEF InjectResponsePk
<1> QED
  BY <1>1, <1>2, <1>3, <1>4, <1>5

\* gzip_bound is what deflate may need.
LEMMA BoundSuffices ==
    ASSUME NEW n \in Nat, NEW produced \in DeflateLengths(n)
    PROVE  /\ produced \in Nat /\ produced >= 18
           /\ gzip_bound(n) \in Nat /\ n < gzip_bound(n) /\ produced <= gzip_bound(n)
<1>1. n \div 4096 \in Nat /\ n \div 16384 \in Nat /\ n \div 33554432 \in Nat
  OBVIOUS
<1> QED
  BY <1>1 DEF DeflateLengths, gzip_bound

\* Compressing the payload fails for the size of the text only.
LEMMA GzipStep ==
    ASSUME EnvInv,
           DeflateInit \/ (\E produced \in DeflateLengths(text.size) : Deflate(produced)) \/ DeflateEnd
    PROVE  EnvInv'
<1> USE DEF EnvInv, Placed, TextOK, RequestOK, BlobOK, OnTheWay, KeyDerived, KeyOK, BufferOK, ReturnOK,
            Packing, Deriving, Sealing, Opening, Inflating,
            ExactBothWays, ErrorHasCause, NothingLeftBehind, Goto, Fail, native
<1>1. text.size \in Nat /\ UINT_MAX \in Nat
  BY UintAssumption
<1>2. CASE DeflateInit
  <2>1. GzipRefuses(text.size, gzip_bound(text.size)) => gzip_bound(text.size) > UINT_MAX
    <3>1. gzip_bound(text.size) \in Nat /\ text.size < gzip_bound(text.size)
      BY <1>1, BoundSuffices DEF DeflateLengths
    <3> QED
      BY <1>1, <3>1 DEF GzipRefuses
  <2> HIDE DEF TextOK
  <2> QED
    BY <1>2, <2>1 DEF DeflateInit, TextOK
<1>3. ASSUME NEW produced \in DeflateLengths(text.size), Deflate(produced) PROVE EnvInv'
  <2>1. Deflated(produced, gzip_bound(text.size)) \in Nat \ {0}
    BY <1>1, BoundSuffices DEF Deflated
  <2> QED
    BY <1>3, <2>1 DEF Deflate
<1>4. CASE DeflateEnd
  BY <1>4 DEF DeflateEnd
<1> QED
  BY <1>2, <1>3, <1>4

\* Deriving a key.
LEMMA DeriveStep ==
    ASSUME EnvInv, HkdfNew \/ HkdfCall \/ HkdfDerive \/ HkdfOut
    PROVE  EnvInv'
<1> USE DEF EnvInv, Placed, TextOK, RequestOK, BlobOK, OnTheWay, KeyDerived, KeyOK, BufferOK, ReturnOK,
            Packing, Deriving, Sealing, Opening, Inflating,
            ExactBothWays, ErrorHasCause, NothingLeftBehind, Goto, Fail, native
<1>1. CASE HkdfNew
  BY <1>1 DEF HkdfNew, Genuine, Unforged
<1>2. CASE HkdfCall
  BY <1>2 DEF HkdfCall, Genuine, Unforged
<1>3. CASE HkdfDerive
  BY <1>3 DEF HkdfDerive, SecretKey, Genuine, Unforged
<1>4. CASE HkdfOut
  BY <1>4 DEF HkdfOut, AfterDerive, Genuine, Unforged
<1> QED
  BY <1>1, <1>2, <1>3, <1>4

\* The cipher, up to its tag.
LEMMA CipherStep ==
    ASSUME EnvInv, CipherNew \/ CipherSetup \/ CipherUpdate \/ GetTag
    PROVE  EnvInv'
<1> USE DEF EnvInv, Placed, TextOK, RequestOK, BlobOK, OnTheWay, KeyDerived, KeyOK, BufferOK, ReturnOK,
            Packing, Deriving, Sealing, Opening, Inflating,
            ExactBothWays, ErrorHasCause, NothingLeftBehind, Goto, Fail, native
<1>1. CASE CipherNew
  BY <1>1 DEF CipherNew, Genuine, Unforged
<1>2. CASE CipherSetup
  BY <1>2 DEF CipherSetup, Genuine, Unforged
<1>3. CASE CipherUpdate
  BY <1>3 DEF CipherUpdate, Encrypting, Genuine, Unforged
<1>4. CASE GetTag
  BY <1>4 DEF GetTag
<1> QED
  BY <1>1, <1>2, <1>3, <1>4

\* A failing call is a cause, whichever it is.
LEMMA FailsStep ==
    ASSUME EnvInv, CallFails
    PROVE  EnvInv'
<1> USE DEF EnvInv, Placed, TextOK, RequestOK, BlobOK, OnTheWay, KeyDerived, KeyOK, BufferOK, ReturnOK,
            Packing, Deriving, Sealing, Opening, Inflating,
            ExactBothWays, ErrorHasCause, NothingLeftBehind, Goto, Fail, native
<1>1. cause' # {} /\ UNCHANGED <<kind, ct, key, text, blob, done, result>>
  BY DEF CallFails
<1>2. CASE at \in {"derive", "deflate", "inflating"}
  BY <1>1, <1>2 DEF CallFails, Out, Unforged
<1>3. CASE at \in {"setup", "loop", "get_tag"}
  BY <1>1, <1>3 DEF CallFails, Out, Encrypting, Unforged
<1> QED
  BY <1>2, <1>3 DEF CallFails

\* The tag decides: an answer is refused only if the wire did something.
LEMMA TagStep ==
    ASSUME EnvInv, CipherFinal
    PROVE  EnvInv'
<1> USE DEF EnvInv, Placed, TextOK, RequestOK, BlobOK, OnTheWay, KeyDerived, KeyOK, BufferOK, ReturnOK,
            Packing, Deriving, Sealing, Opening, Inflating,
            ExactBothWays, ErrorHasCause, NothingLeftBehind, Goto, Fail, native
<1>1. at = "loop" /\ cause' = cause /\ UNCHANGED <<kind, ct, key, text, blob, buf, done, result>>
  BY DEF CipherFinal
<1>2. CASE kind = "request"
  BY <1>1, <1>2 DEF CipherFinal, Encrypting
<1>3. CASE kind # "request" /\ Authentic(blob, key)
  <2>1. at' = "cipher_out" /\ rc' = 0
    BY <1>3 DEF CipherFinal, Encrypting
  <2>2. Authentic(blob, key)'
    BY <1>1, <1>3 DEF Authentic
  <2> QED
    BY <1>1, <1>3, <2>1, <2>2 DEF Unforged, Genuine
<1>4. CASE kind # "request" /\ ~Authentic(blob, key)
  <2>1. at' = "cipher_out" /\ rc' = rc
    BY <1>4 DEF CipherFinal, Encrypting
  <2>2. cause # {}
    <3> SUFFICES ASSUME cause = {} PROVE FALSE
      OBVIOUS
    <3>1. Genuine /\ ct = Encapsulated("response") /\ key = KeyFor(Secret("response", ct), ct, kind)
      BY <1>1, <1>4
    <3>2. blob.ct = ct /\ Authentic(blob, KeyFor(Secret("response", blob.ct), blob.ct, kind))
      BY <1>1, <1>4, <3>1, GenuineOpens
    <3> QED
      BY <1>4, <3>1, <3>2
  <2> QED
    BY <1>1, <1>4, <2>1, <2>2 DEF Unforged, Genuine
<1> QED
  BY <1>2, <1>3, <1>4

\* The cipher is left: what is returned is the text that was sent.
LEMMA OutStep ==
    ASSUME EnvInv, CipherOut
    PROVE  EnvInv'
<1> USE DEF EnvInv, Placed, TextOK, RequestOK, BlobOK, OnTheWay, KeyDerived, KeyOK, BufferOK, ReturnOK,
            Packing, Deriving, Sealing, Opening, Inflating,
            ExactBothWays, ErrorHasCause, NothingLeftBehind, Goto, Fail, native
<1>1. at = "cipher_out" /\ UNCHANGED <<kind, ct, key, text, blob, done, rc>>
  BY DEF CipherOut
<1>2. CASE rc = 0 /\ kind = "request"
  <2>1. Goto("sent") /\ UNCHANGED <<buf, result>>
    BY <1>2 DEF CipherOut, Encrypting
  <2>2. /\ Authentic(blob, InstanceKey(Secret("instance", blob.ct), blob.ct, "request"))
        /\ blob.text = text
    BY <1>1, <1>2 DEF Sealed, Authentic, InstanceKey, KeyFor
  <2> QED
    BY <1>1, <1>2, <2>1, <2>2
<1>3. CASE rc = 0 /\ kind # "request"
  <2>1. /\ result' = IF kind = "chunk" THEN blob.text ELSE None
        /\ at' = (IF kind = "response" THEN "inflate" ELSE "returned") /\ cause' = cause
        /\ UNCHANGED buf
    BY <1>3 DEF CipherOut, Encrypting, AfterOpen
  <2>2. Authentic(blob, key) /\ blob.text = text
    BY <1>1, <1>3 DEF Unforged
  <2> QED
    BY <1>1, <1>3, <2>1, <2>2 DEF Unforged, Genuine
<1>4. CASE rc # 0
  BY <1>1, <1>4 DEF CipherOut, Scrub, Encrypting
<1> QED
  BY <1>2, <1>3, <1>4

\* The instance answers.
LEMMA InstanceStep ==
    ASSUME EnvInv, Instance
    PROVE  EnvInv'
<1> USE DEF EnvInv, Placed, TextOK, RequestOK, OnTheWay, KeyDerived, KeyOK, BufferOK, ReturnOK,
            Packing, Deriving, Sealing, Opening, Inflating,
            ExactBothWays, ErrorHasCause, NothingLeftBehind, Goto, native
<1>0. Encapsulated("response") \in Ciphertexts
  BY DEF Encapsulated, Ciphertexts
<1>1. ASSUME NEW n \in AnswerSizes, NEW produced \in DeflateLengths(n), InstanceResponds(n, produced)
      PROVE  EnvInv'
  <2>1. n \in Nat /\ produced \in Nat /\ produced >= 18
    BY SizesAssumption, BoundSuffices
  <2>2. text' = [size |-> n, len |-> produced, whose |-> "ours"]
    BY <1>1 DEF InstanceResponds
  <2>3. blob'.ct \in Ciphertexts /\ blob'.text = text' /\ Genuine' /\ kind' = "response"
    BY <1>0, <1>1 DEF InstanceResponds, Answered, Sealed, Genuine
  <2>4. BlobOK'
    BY <1>1, <2>3 DEF BlobOK, Unforged, InstanceResponds
  <2> QED
    BY <1>1, <2>1, <2>2, <2>4 DEF InstanceResponds
<1>2. CASE InstanceStreams
  <2>1. blob'.ct \in Ciphertexts /\ Genuine' /\ kind' = "init"
    BY <1>0, <1>2 DEF InstanceStreams, Answered, Sealed, Genuine
  <2>2. BlobOK'
    BY <1>2, <2>1 DEF BlobOK, InstanceStreams
  <2> QED
    BY <1>2, <2>2 DEF InstanceStreams
<1>3. ASSUME NEW n \in ChunkSizes, InstanceSendsChunk(n)
      PROVE  EnvInv'
  <2>1. n \in Nat
    BY SizesAssumption
  <2>2. text' = [size |-> n, len |-> n, whose |-> "ours"]
    BY <1>3 DEF InstanceSendsChunk
  <2>3. blob'.ct \in Ciphertexts /\ blob'.text = text' /\ Genuine' /\ kind' = "chunk"
    BY <1>0, <1>3 DEF InstanceSendsChunk, Answered, Sealed, Genuine
  <2>4. BlobOK'
    BY <1>3, <2>3 DEF BlobOK, Unforged, InstanceSendsChunk
  <2>5. KeyOK'
    BY <1>3, <2>3, ChunkKey DEF InstanceSendsChunk
  <2> QED
    BY <1>3, <2>1, <2>2, <2>4, <2>5 DEF InstanceSendsChunk
<1> QED
  BY <1>1, <1>2, <1>3 DEF Instance

\* The wire leaves an envelope as it is, spoils it, or loses it.
LEMMA ReceiveStep ==
    ASSUME EnvInv, Receive
    PROVE  EnvInv'
<1> USE DEF EnvInv, Placed, RequestOK, OnTheWay, KeyDerived, KeyOK, BufferOK, ReturnOK,
            Packing, Deriving, Sealing, Opening, Inflating,
            ExactBothWays, ErrorHasCause, NothingLeftBehind
<1>1. /\ at = "wire" /\ UNCHANGED <<kind, ct, key, text, buf, done, rc, result>>
      /\ at' \in {IF kind = "chunk" THEN "cipher" ELSE "decapsulate", "failed"}
      /\ Genuine /\ kind \in {"response", "init", "chunk"} /\ TextOK
  BY DEF Receive, Goto, Fail, BlobOK, native
<1>2. TextOK'
  BY <1>1 DEF TextOK
<1>3. CASE at' # "failed" /\ UNCHANGED <<blob, cause>>
  <2>1. BlobOK'
    BY <1>1, <1>3, GenuineOpens DEF BlobOK, Genuine, Unforged
  <2> QED
    BY <1>1, <1>2, <1>3, <2>1
<1>4. CASE at' # "failed" /\ blob' \in Damaged /\ cause' = cause \cup {"wire"}
  <2>1. blob'.ct \in Ciphertexts /\ (kind # "init" => Unforged(blob'))
    BY <1>1, <1>4, DamagedUnforged
  <2>2. cause' # {}
    BY <1>4
  <2>3. BlobOK'
    BY <1>1, <1>4, <2>1, <2>2 DEF BlobOK, Unforged
  <2> QED
    BY <1>1, <1>2, <1>4, <2>2, <2>3
<1>5. CASE at' = "failed" /\ cause' = cause \cup {"wire"} /\ UNCHANGED blob
  <2>1. cause' # {}
    BY <1>5
  <2> QED
    BY <1>1, <1>2, <1>5, <2>1 DEF BlobOK
<1> QED
  BY <1>1, <1>3, <1>4, <1>5 DEF Receive, Goto, Fail

\* The ciphertext that came is the one the key is derived from.
LEMMA DecapsulateStep ==
    ASSUME EnvInv, Decapsulate
    PROVE  EnvInv'
<1> USE DEF EnvInv, Placed, TextOK, RequestOK, BlobOK, OnTheWay, KeyDerived, KeyOK, BufferOK, ReturnOK,
            Packing, Deriving, Sealing, Opening, Inflating,
            ExactBothWays, ErrorHasCause, NothingLeftBehind, Goto, native
<1>1. at = "decapsulate" /\ ct' = blob.ct /\ kind \in {"response", "init"}
  BY DEF Decapsulate
<1>2. cause = {} => ct' = Encapsulated("response")
  BY <1>1, GenuineOpens
<1> QED
  BY <1>1, <1>2 DEF Decapsulate, Unforged, Genuine

\* A text whose size the trailer can express is inflated to its last byte.
LEMMA InflateExact ==
    ASSUME TextOK, kind = "response"
    PROVE  LET n == Inflated(text, gzip_isize(text) + 1) IN
             /\ n # 0 => n = text.size
             /\ \/ n = 0 \/ gzip_isize(text) = 0 \/ text.len = 0
                \/ GzipRefuses(text.len, gzip_isize(text) + 1)
                => TooLong
<1>1. text.size \in Nat /\ text.len \in Nat /\ text.len >= 18 /\ UINT_MAX \in Nat
  BY UintAssumption DEF TextOK
<1>2. text.size < UINT_MAX => text.size % (UINT_MAX + 1) = text.size
  BY <1>1
<1>3. gzip_isize(text) \in Nat /\ (text.size < UINT_MAX => gzip_isize(text) = text.size)
  BY <1>1, <1>2 DEF gzip_isize
<1> QED
  BY <1>1, <1>3 DEF Inflated, GzipRefuses, TooLong

\* The last steps of decrypt_response.
LEMMA InflateStep ==
    ASSUME EnvInv, InflateInit \/ Inflate \/ InflateEnd
    PROVE  EnvInv'
<1> USE DEF EnvInv, Placed, RequestOK, BlobOK, OnTheWay, KeyDerived, KeyOK, BufferOK, ReturnOK,
            Packing, Deriving, Sealing, Opening, Inflating,
            ExactBothWays, ErrorHasCause, NothingLeftBehind, Goto, Fail, native
<1>1. at \in Inflating /\ kind = "response" /\ UNCHANGED <<kind, ct, key, text, blob, buf, done>>
  BY DEF InflateInit, Inflate, InflateEnd
<1>2. Authentic(blob, key) /\ blob.text = text
  BY <1>1 DEF Unforged
<1>3. TextOK'
  BY <1>1 DEF TextOK
<1> DEFINE n == Inflated(text, gzip_isize(text) + 1)
           refused == \/ gzip_isize(text) = 0 \/ text.len = 0
                      \/ GzipRefuses(text.len, gzip_isize(text) + 1)
<1>4. (n # 0 => n = text.size) /\ (n = 0 \/ refused => TooLong)
  BY <1>1, InflateExact
<1>5. (TooLong <=> TooLong') /\ gzip_isize(text') = gzip_isize(text)
  BY <1>1 DEF TooLong
<1>6. CASE InflateInit
  <2>1. /\ at = "inflate" /\ UNCHANGED <<rc, result>>
        /\ \/ refused /\ Fail("")
           \/ gzip_isize(text) # 0 /\ Goto("inflating")
           \/ Fail("library")
    BY <1>2, <1>6 DEF InflateInit, InflateRoom
  <2> HIDE DEF refused
  <2>2. CASE refused /\ Fail("")
    BY <1>1, <1>2, <1>3, <1>4, <2>1, <2>2 DEF TooLong
  <2>3. CASE gzip_isize(text) # 0 /\ Goto("inflating")
    BY <1>1, <1>2, <1>3, <1>5, <2>1, <2>3 DEF Unforged, Genuine
  <2>4. CASE Fail("library")
    BY <1>1, <1>2, <1>3, <2>1, <2>4
  <2> QED
    BY <2>1, <2>2, <2>3, <2>4
<1>7. CASE Inflate
  <2>1. at' = "inflate_end" /\ rc' = n /\ cause' = cause /\ result' = result
    BY <1>2, <1>7 DEF Inflate, InflateRoom
  <2> HIDE DEF n, refused
  <2> QED
    BY <1>1, <1>2, <1>3, <1>4, <1>5, <2>1 DEF Unforged, Genuine
<1>8. CASE InflateEnd
  <2>1. CASE rc # 0
    <3>1. rc = text.size /\ Goto("returned") /\ result' = [text EXCEPT !.size = rc]
      BY <1>2, <1>8, <2>1 DEF InflateEnd
    <3>2. result' = text
      BY <3>1 DEF TextOK
    <3> QED
      BY <1>1, <1>2, <1>3, <3>1, <3>2
  <2>2. CASE rc = 0
    <3>1. Fail("") /\ UNCHANGED result /\ (cause # {} \/ TooLong)
      BY <1>8, <2>2 DEF InflateEnd
    <3> QED
      BY <1>1, <1>2, <1>3, <3>1 DEF TooLong
  <2> QED
    BY <2>1, <2>2
<1> QED
  BY <1>6, <1>7, <1>8

\* Every step of an exchange keeps the invariant.
LEMMA EnvStep == EnvInv /\ [EnvNext]_allvars => EnvInv'
<1> SUFFICES ASSUME EnvInv, [EnvNext]_allvars PROVE EnvInv'
  OBVIOUS
<1>1. CASE UNCHANGED evars
  BY <1>1 DEF evars, native, EnvInv, Placed, TextOK, RequestOK, BlobOK, Genuine, Unforged, OnTheWay,
              KeyDerived, KeyOK, BufferOK, ReturnOK, TooLong, Packing, Deriving, Sealing, Opening,
              Inflating, ExactBothWays, ErrorHasCause, NothingLeftBehind
<1>2. CASE RandomTurn \/ ExchangeOver \/ UNCHANGED allvars
  BY <1>1, <1>2 DEF RandomTurn, ExchangeOver, allvars
<1> QED
  BY <1>2, BuildStep, GzipStep, DeriveStep, CipherStep, FailsStep, TagStep, OutStep, InstanceStep,
     ReceiveStep, DecapsulateStep, InflateStep DEF EnvNext, Worker

\* The invariant holds at the start.
LEMMA EnvStart == EnvInit => EnvInv
<1> SUFFICES ASSUME EnvInit PROVE EnvInv
  OBVIOUS
<1> QED
  BY DEF EnvInit, EnvInv, Placed, TextOK, RequestOK, BlobOK, OnTheWay, KeyDerived, KeyOK,
         BufferOK, ReturnOK, Packing, Deriving, Sealing, Opening, Inflating,
         ExactBothWays, ErrorHasCause, NothingLeftBehind, Encapsulated, Ciphertexts, None

\* What is sealed the instance can open, and what is returned is what it sent, to
\* the last byte, whatever the wire does and whatever the sizes.
THEOREM ExactText == EnvSpec => []ExactBothWays
<1>1. EnvInv => ExactBothWays
  BY DEF EnvInv
<1> QED
  BY <1>1, EnvStart, EnvStep, PTL DEF EnvSpec

\* No exchange fails without a reason outside this code, but for sizes that the
\* 32-bit interface of zlib or the size trailer cannot express.
THEOREM FailureHasCause == EnvSpec => []ErrorHasCause
<1>1. EnvInv => ErrorHasCause
  BY DEF EnvInv
<1> QED
  BY <1>1, EnvStart, EnvStep, PTL DEF EnvSpec

\* Decrypted bytes outlive the cipher only when the tag was right, whichever call
\* failed before the tag was compared.
THEOREM NoLeak == EnvSpec => []NothingLeftBehind
<1>1. EnvInv => NothingLeftBehind
  BY DEF EnvInv
<1> QED
  BY <1>1, EnvStart, EnvStep, PTL DEF EnvSpec

\* No step loses a context or a stream, or frees one that is in use.
LEMMA FreedStep ==
    ASSUME Placed, AllFreed, EnvNext
    PROVE  AllFreed'
<1> USE DEF AllFreed, Goto, Fail
<1>1. CASE RandomTurn \/ ExchangeOver
  BY <1>1 DEF RandomTurn, ExchangeOver, allvars, evars, native
<1>2. CASE Keygen \/ ServerPubkey \/ Encapsulate \/ Nonce \/ \E n \in RequestSizes : InjectResponsePk(n)
  BY <1>2 DEF Keygen, ServerPubkey, Encapsulate, Nonce, InjectResponsePk, native
<1>3. CASE HkdfNew \/ HkdfCall \/ HkdfDerive
  BY <1>3 DEF HkdfNew, HkdfCall, HkdfDerive
<1>4. CASE HkdfOut
  BY <1>4 DEF HkdfOut, AfterDerive, Placed, Deriving
<1>5. CASE DeflateInit \/ (\E produced \in DeflateLengths(text.size) : Deflate(produced)) \/ DeflateEnd
  BY <1>5 DEF DeflateInit, Deflate, DeflateEnd
<1>6. CASE CipherNew \/ CipherSetup \/ CipherUpdate
  BY <1>6 DEF CipherNew, CipherSetup, CipherUpdate, native
<1>7. CASE CipherFinal \/ GetTag \/ CipherOut
  BY <1>7 DEF CipherFinal, GetTag, CipherOut, AfterOpen
<1>8. CASE CallFails
  BY <1>8 DEF CallFails, Out
<1>9. CASE Receive \/ Decapsulate
  BY <1>9 DEF Receive, Decapsulate, native
<1>10. CASE InflateInit \/ Inflate \/ InflateEnd
  BY <1>10 DEF InflateInit, Inflate, InflateEnd
<1>11. CASE Instance
  BY <1>11 DEF Instance, InstanceResponds, InstanceStreams, InstanceSendsChunk, native
<1> QED
  BY <1>1, <1>2, <1>3, <1>4, <1>5, <1>6, <1>7, <1>8, <1>9, <1>10, <1>11 DEF EnvNext, Worker

\* Whichever call into OpenSSL or zlib fails, each of the functions that make a
\* context or a stream has freed it when it returns, and uses none it has freed.
THEOREM Released == EnvSpec => []AllFreed
<1>1. EnvInit => AllFreed
  BY DEF EnvInit, AllFreed
<1>2. EnvInv => Placed
  BY DEF EnvInv
<1>3. EnvInv /\ AllFreed /\ [EnvNext]_allvars => AllFreed'
  BY <1>2, FreedStep DEF allvars, evars, native, AllFreed
<1> QED
  BY <1>1, <1>3, EnvStart, EnvStep, PTL DEF EnvSpec
============================================================================
