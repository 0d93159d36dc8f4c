---------------------------- MODULE Chunks_proof ----------------------------
(***************************************************************************)
(* What the proofs about the two stream translators share: flattening, the *)
(* pieces and the text of the chunks of OpenAIChunks, and where the        *)
(* thinking of a message is cut from its answer.                           *)
(***************************************************************************)
EXTENDS OpenAIChunks, SequenceTheorems, Induction, TLAPS

(* Flattening a sequence of sequences                                      *)

\* f[k] is what the first k of them make.
IsFlat(f, seqs, S) ==
    /\ f \in [0..Len(seqs) -> Seq(S)]
    /\ f[0] = <<>>
    /\ \A k \in 1..Len(seqs) : f[k] = f[k - 1] \o seqs[k]

LEMMA FlatExists ==
    ASSUME NEW S, NEW seqs \in Seq(Seq(S))
    PROVE  \E f : IsFlat(f, seqs, S)
<1> DEFINE N == Len(seqs)
           Q == Seq(S)
           Turn(x, k) == x \o seqs[k]
           G == [k \in 1..N |-> [x \in Q |-> Turn(x, k)]]
<1>1. ASSUME NEW k \in 1..N, NEW x \in Q PROVE Turn(x, k) \in Q
  <2>1. seqs[k] \in Seq(S)
    OBVIOUS
  <2> QED
    BY <2>1, ConcatProperties
<1>2. PICK none \in Q : none = <<>>
  <2>1. <<>> \in Q
    OBVIOUS
  <2> QED
    BY <2>1, Zenon
<1>3. N \in Nat
  OBVIOUS
<1> HIDE DEF Q, Turn, N
<1>4. G \in [1..N -> [Q -> Q]]
  BY <1>1
<1>5. PICK f \in [0..N -> Q] : IsLoop(f, none, N, G)
  <2> HIDE DEF G
  <2> QED
    BY <1>2, <1>3, <1>4, LoopValues
<1>6. \A k \in 1..N : f[k - 1] \in Q
  BY <1>3
<1>7. f[0] = none /\ \A k \in 1..N : f[k] = Turn(f[k - 1], k)
  BY <1>5, <1>6 DEF IsLoop
<1> QED
  BY <1>2, <1>7 DEF IsFlat, N, Q, Turn

\* FlattenSeq computes it.
LEMMA FlatValue ==
    ASSUME NEW S, NEW seqs \in Seq(Seq(S)), NEW f, IsFlat(f, seqs, S)
    PROVE  FlattenSeq(seqs) = f[Len(seqs)]
<1>0. PICK N \in Nat : N = Len(seqs)
  OBVIOUS
<1>1. CASE N = 0
  <2>1. seqs = <<>>
    BY <1>0, <1>1, EmptySeq
  <2>2. FlattenSeq(seqs) = seqs
    BY <1>0, <1>1 DEF FlattenSeq
  <2> QED
    BY <1>0, <1>1, <2>1, <2>2 DEF IsFlat
<1>2. CASE N # 0
  <2> DEFINE Body(g) == [i \in 1..N |-> IF i = 1 THEN seqs[i] ELSE g[i - 1] \o seqs[i]]
             h == [i \in 1..N |-> f[i]]
             flatten == CHOOSE g : g = Body(g)
  <2>1. f[0] = <<>> /\ \A k \in 1..N : f[k] = f[k - 1] \o seqs[k]
    BY <1>0 DEF IsFlat
  <2>2. f[1] = seqs[1]
    <3>1. seqs[1] \in Seq(S) /\ 1 \in 1..N
      BY <1>0, <1>2
    <3>2. f[1] = f[1 - 1] \o seqs[1]
      BY <2>1, <3>1, Zenon
    <3>3. 1 - 1 = 0
      OBVIOUS
    <3>4. f[1] = <<>> \o seqs[1]
      BY <2>1, <3>2, <3>3, Zenon
    <3> QED
      BY <3>1, <3>4, ConcatEmptySeq
  <2>3. h = Body(h)
    <3>1. ASSUME NEW i \in 1..N PROVE f[i] = IF i = 1 THEN seqs[i] ELSE h[i - 1] \o seqs[i]
      <4>1. CASE i = 1
        BY <2>2, <4>1
      <4>2. CASE i # 1
        <5>1. i - 1 \in 1..N
          BY <4>2
        <5>2. h[i - 1] = f[i - 1]
          BY <5>1
        <5> QED
          BY <2>1, <4>2, <5>2
      <4> QED
        BY <4>1, <4>2
    <3> QED
      BY <3>1
  <2>4. flatten = Body(flatten)
    <3> HIDE DEF Body, h
    <3> QED
      BY <2>3
  <2>5. FlattenSeq(seqs) = flatten[N]
    BY <1>0, <1>2 DEF FlattenSeq
  <2> HIDE DEF flatten
  <2>6. /\ flatten[1] = seqs[1]
        /\ \A i \in 1..N : i # 1 => flatten[i] = flatten[i - 1] \o seqs[i]
    <3>1. ASSUME NEW i \in 1..N
          PROVE  Body(flatten)[i] = IF i = 1 THEN seqs[i] ELSE flatten[i - 1] \o seqs[i]
      OBVIOUS
    <3>2. ASSUME NEW i \in 1..N
          PROVE  flatten[i] = IF i = 1 THEN seqs[i] ELSE flatten[i - 1] \o seqs[i]
      <4> HIDE DEF Body
      <4> QED
        BY <2>4, <3>1, Zenon
    <3>3. 1 \in 1..N
      BY <1>2
    <3> QED
      BY <3>2, <3>3
  <2> DEFINE Same == {k \in Nat : k + 1 <= N => flatten[k + 1] = f[k + 1]}
  <2>7. 0 \in Same
    BY <2>2, <2>6
  <2>8. ASSUME NEW k \in Nat, k \in Same PROVE k + 1 \in Same
    <3> SUFFICES ASSUME k + 1 + 1 <= N PROVE flatten[k + 1 + 1] = f[k + 1 + 1]
      OBVIOUS
    <3>1. flatten[k + 1] = f[k + 1]
      BY <2>8
    <3>2. PICK i \in 1..N : i = k + 1 + 1
      OBVIOUS
    <3>3. i # 1 /\ i - 1 = k + 1
      BY <3>2
    <3>4. flatten[i] = flatten[i - 1] \o seqs[i] /\ f[i] = f[i - 1] \o seqs[i]
      BY <2>1, <2>6, <3>3
    <3> QED
      BY <3>1, <3>2, <3>3, <3>4
  <2>9. N - 1 \in Same
    <3>1. N - 1 \in Nat
      BY <1>2
    <3> HIDE DEF Same
    <3> QED
      BY <2>7, <2>8, <3>1, SetInduction
  <2>10. N - 1 + 1 = N
    BY <1>0
  <2> QED
    BY <1>0, <2>5, <2>9, <2>10
<1> QED
  BY <1>1, <1>2

\* One more sequence.
LEMMA FlatAppend ==
    ASSUME NEW S, NEW seqs \in Seq(Seq(S)), NEW x \in Seq(S)
    PROVE  /\ FlattenSeq(seqs) \in Seq(S)
           /\ FlattenSeq(Append(seqs, x)) = FlattenSeq(seqs) \o x
<1>1. PICK f : IsFlat(f, seqs, S)
  BY FlatExists
<1>2. PICK N \in Nat : N = Len(seqs)
  OBVIOUS
<1>3. PICK more \in Seq(Seq(S)) : more = Append(seqs, x)
  <2>1. Append(seqs, x) \in Seq(Seq(S))
    BY AppendProperties
  <2> QED
    BY <2>1, Zenon
<1>4. Len(more) = N + 1 /\ more[N + 1] = x /\ \A k \in 1..N : more[k] = seqs[k]
  BY <1>2, <1>3, AppendProperties
<1>5. /\ f \in [0..N -> Seq(S)] /\ f[0] = <<>>
      /\ \A k \in 1..N : f[k] = f[k - 1] \o seqs[k]
  BY <1>1, <1>2 DEF IsFlat
<1>6. PICK last \in Seq(S) : last = f[N]
  <2>1. N \in 0..N
    OBVIOUS
  <2>2. f[N] \in Seq(S)
    BY <1>5, <2>1
  <2> QED
    BY <2>2, Zenon
<1>7. PICK longer \in Seq(S) : longer = last \o x
  <2>1. last \o x \in Seq(S)
    BY ConcatProperties
  <2> QED
    BY <2>1, Zenon
<1> DEFINE g == [k \in 0..(N + 1) |-> IF k <= N THEN f[k] ELSE longer]
<1>8. g \in [0..(N + 1) -> Seq(S)]
  <2>1. ASSUME NEW k \in 0..(N + 1) PROVE (IF k <= N THEN f[k] ELSE longer) \in Seq(S)
    <3>1. k <= N => k \in 0..N
      OBVIOUS
    <3> QED
      BY <1>5, <3>1
  <2> QED
    BY <2>1
<1>9. g[0] = <<>> /\ g[N + 1] = longer /\ \A k \in 0..N : g[k] = f[k]
  BY <1>5
<1> HIDE DEF g
<1>10. ASSUME NEW k \in 1..(N + 1) PROVE g[k] = g[k - 1] \o more[k]
  <2>1. CASE k <= N
    <3>1. k \in 1..N /\ k - 1 \in 0..N /\ k \in 0..N
      BY <2>1
    <3> QED
      BY <1>4, <1>5, <1>9, <3>1
  <2>2. CASE k = N + 1
    <3>1. k - 1 = N /\ N \in 0..N
      BY <2>2
    <3> QED
      BY <1>4, <1>6, <1>7, <1>9, <2>2, <3>1
  <2>3. k <= N \/ k = N + 1
    OBVIOUS
  <2> QED
    BY <2>1, <2>2, <2>3, Zenon
<1>11. IsFlat(g, more, S)
  BY <1>4, <1>8, <1>9, <1>10 DEF IsFlat
<1>12. FlattenSeq(more) = g[N + 1]
  BY <1>4, <1>11, FlatValue
<1>13. FlattenSeq(seqs) = f[N]
  BY <1>1, <1>2, FlatValue
<1> QED
  BY <1>3, <1>6, <1>7, <1>9, <1>12, <1>13

LEMMA FlatEmpty == FlattenSeq(<<>>) = <<>>
<1> QED
  BY DEF FlattenSeq

---------------------------------------------------------------------------
(* Pieces                                                                  *)

Parts == {"x", "y", "t0", "t1", "none", "half", "rest", "full", "close"}
Pieces == [chunk : Nat, part : Parts]

\* The pieces of a chunk.
LEMMA PieceType ==
    ASSUME NEW k \in Nat, NEW part \in Parts, NEW present \in BOOLEAN
    PROVE  Piece(k, part, present) \in Seq(Pieces)
<1>1. PICK p \in Pieces : p = [chunk |-> k, part |-> part]
  BY DEF Pieces
<1>2. <<p>> \in Seq(Pieces) /\ <<>> \in Seq(Pieces)
  OBVIOUS
<1>3. Piece(k, part, present) = IF present THEN <<p>> ELSE <<>>
  BY <1>1 DEF Piece
<1> QED
  BY <1>2, <1>3, Zenon
LEMMA PiecesType ==
    ASSUME NEW k \in Nat, NEW c \in Contents
    PROVE  /\ X(k, c) \in Seq(Pieces) /\ Y(k, c) \in Seq(Pieces)
           /\ X(k, c) \o Y(k, c) \in Seq(Pieces)
<1>0. c.x \in BOOLEAN /\ c.y \in BOOLEAN
  BY ChunksAssumption
<1>1. X(k, c) \in Seq(Pieces)
  BY <1>0, PieceType DEF X, Parts
<1>2. Y(k, c) \in Seq(Pieces)
  BY <1>0, PieceType DEF Y, Parts
<1> QED
  BY <1>1, <1>2, ConcatProperties

\* The pieces of some parts.
Kept(p, parts) == IF p.part \in parts THEN <<p>> ELSE <<>>

LEMMA OnlyAppend ==
    ASSUME NEW pieces \in Seq(Pieces), NEW p \in Pieces, NEW parts
    PROVE  /\ Only(pieces, parts) \in Seq(Pieces)
           /\ Only(Append(pieces, p), parts) = Only(pieces, parts) \o Kept(p, parts)
<1>1. ASSUME NEW x \in Pieces PROVE Kept(x, parts) \in Seq(Pieces)
  <2>1. <<x>> \in Seq(Pieces) /\ <<>> \in Seq(Pieces)
    OBVIOUS
  <2> QED
    BY <2>1, Zenon DEF Kept
<1>2. PICK m \in Nat : m = Len(pieces)
  OBVIOUS
<1>3. PICK new \in Seq(Pieces) : new = Append(pieces, p)
  <2>1. Append(pieces, p) \in Seq(Pieces)
    BY AppendProperties
  <2> QED
    BY <2>1, Zenon
<1>4. /\ DOMAIN pieces = 1..m /\ DOMAIN new = 1..(m + 1) /\ new[m + 1] = p
      /\ \A i \in 1..m : new[i] = pieces[i] /\ pieces[i] \in Pieces
  BY <1>2, <1>3, AppendProperties, LenProperties
<1> DEFINE old == [i \in 1..m |-> Kept(pieces[i], parts)]
           more == [i \in 1..(m + 1) |-> Kept(new[i], parts)]
<1>5. Only(pieces, parts) = FlattenSeq(old) /\ Only(new, parts) = FlattenSeq(more)
  BY <1>4 DEF Only, Kept
<1>6. old \in Seq(Seq(Pieces)) /\ Len(old) = m
  <2>1. \A i \in 1..m : Kept(pieces[i], parts) \in Seq(Pieces)
    BY <1>1, <1>4
  <2> QED
    BY <2>1
<1>7. PICK x \in Seq(Pieces) : x = Kept(p, parts)
  BY <1>1
<1>8. more = Append(old, x)
  <2>1. \A i \in 1..(m + 1) : more[i] = Append(old, x)[i]
    <3>1. \A i \in 1..m : Append(old, x)[i] = Kept(pieces[i], parts)
      BY <1>6, AppendProperties
    <3>2. Append(old, x)[m + 1] = x
      BY <1>6, AppendProperties
    <3>3. \A i \in 1..(m + 1) : i \in 1..m \/ i = m + 1
      OBVIOUS
    <3> QED
      BY <1>4, <1>7, <3>1, <3>2, <3>3
  <2>2. Append(old, x) \in Seq(Seq(Pieces)) /\ Len(Append(old, x)) = m + 1
    BY <1>6, AppendProperties
  <2>3. DOMAIN Append(old, x) = 1..(m + 1) /\ Append(old, x) = [i \in 1..(m + 1) |-> Append(old, x)[i]]
    BY <2>2, LenProperties
  <2> QED
    BY <2>1, <2>3
<1> HIDE DEF old, more
<1>9. /\ FlattenSeq(old) \in Seq(Pieces)
      /\ FlattenSeq(Append(old, x)) = FlattenSeq(old) \o x
  BY <1>6, FlatAppend
<1> QED
  BY <1>3, <1>5, <1>7, <1>8, <1>9, Zenon

Regroup(p, q, r) == (p \o q) \o r = p \o (q \o r)
LEMMA PiecesRegroup ==
    ASSUME NEW p \in Seq(Pieces), NEW q \in Seq(Pieces), NEW r \in Seq(Pieces)
    PROVE  Regroup(p, q, r)
<1> QED
  BY ConcatAssociative DEF Regroup
Neutral(p) == p \o <<>> = p /\ <<>> \o p = p
LEMMA PiecesNeutral ==
    ASSUME NEW p \in Seq(Pieces)
    PROVE  Neutral(p)
<1> QED
  BY ConcatEmptySeq DEF Neutral

LEMMA OnlyNothing ==
    ASSUME NEW parts
    PROVE  Only(<<>>, parts) = <<>>
<1>1. PICK pieces : pieces = <<>>
  OBVIOUS
<1>2. [i \in DOMAIN pieces |-> IF pieces[i].part \in parts THEN <<pieces[i]>> ELSE <<>>] = <<>>
  BY <1>1
<1>3. Only(pieces, parts) = FlattenSeq(<<>>)
  BY <1>2 DEF Only
<1> QED
  BY <1>1, <1>3, FlatEmpty, Zenon

\* One piece more, or none.
LEMMA OnlyPiece ==
    ASSUME NEW pieces \in Seq(Pieces), NEW k \in Nat, NEW part \in Parts, NEW present \in BOOLEAN,
           NEW parts
    PROVE  Only(pieces \o Piece(k, part, present), parts)
             = Only(pieces, parts) \o (IF part \in parts THEN Piece(k, part, present) ELSE <<>>)
<1>1. PICK p \in Pieces : p = [chunk |-> k, part |-> part]
  BY DEF Pieces
<1>2. p.part = part
  BY <1>1
<1>3. Only(pieces, parts) \in Seq(Pieces)
  BY <1>1, OnlyAppend
<1>4. CASE ~present
  <2>1. Piece(k, part, present) = <<>>
    BY <1>4 DEF Piece
  <2>2. pieces \o <<>> = pieces /\ Only(pieces, parts) \o <<>> = Only(pieces, parts)
    BY <1>3, ConcatEmptySeq
  <2> QED
    BY <2>1, <2>2, Zenon
<1>5. CASE present
  <2>1. Piece(k, part, present) = <<p>>
    BY <1>1, <1>5 DEF Piece
  <2>2. Append(pieces, p) = pieces \o <<p>>
    BY AppendIsConcat
  <2>3. Only(Append(pieces, p), parts) = Only(pieces, parts) \o Kept(p, parts)
    BY OnlyAppend
  <2>4. Kept(p, parts) = IF part \in parts THEN <<p>> ELSE <<>>
    BY <1>2, Zenon DEF Kept
  <2> QED
    BY <2>1, <2>2, <2>3, <2>4, Zenon
<1> QED
  BY <1>4, <1>5

\* The text of the chunks so far and of one more content delta.
LEMMA PieceSkipped ==
    ASSUME NEW pieces \in Seq(Pieces), NEW k \in Nat, NEW part \in Parts \ {"x", "y"},
           NEW present \in BOOLEAN
    PROVE  /\ pieces \o Piece(k, part, present) \in Seq(Pieces)
           /\ Text(pieces \o Piece(k, part, present)) = Text(pieces)
<1>1. Piece(k, part, present) \in Seq(Pieces)
  BY PieceType
<1>2. Only(pieces \o Piece(k, part, present), {"x", "y"})
        = Only(pieces, {"x", "y"}) \o (IF part \in {"x", "y"} THEN Piece(k, part, present) ELSE <<>>)
  BY OnlyPiece
<1>3. (IF part \in {"x", "y"} THEN Piece(k, part, present) ELSE <<>>) = <<>>
  OBVIOUS
<1>4. PICK p \in Pieces : p = [chunk |-> 0, part |-> "x"]
  BY DEF Pieces, Parts
<1>5. Only(pieces, {"x", "y"}) \in Seq(Pieces)
  BY <1>4, OnlyAppend
<1>6. Neutral(Only(pieces, {"x", "y"}))
  BY <1>5, PiecesNeutral
<1> QED
  BY <1>1, <1>2, <1>3, <1>6, ConcatProperties, Zenon DEF Text, Neutral

LEMMA PieceSpoken ==
    ASSUME NEW pieces \in Seq(Pieces), NEW k \in Nat, NEW part \in {"x", "y"}, NEW present \in BOOLEAN
    PROVE  /\ Piece(k, part, present) \in Seq(Pieces)
           /\ pieces \o Piece(k, part, present) \in Seq(Pieces)
           /\ Text(pieces) \in Seq(Pieces)
           /\ Text(pieces \o Piece(k, part, present)) = Text(pieces) \o Piece(k, part, present)
<1>0. part \in Parts
  BY DEF Parts
<1>1. Piece(k, part, present) \in Seq(Pieces)
  BY <1>0, PieceType
<1>2. Only(pieces \o Piece(k, part, present), {"x", "y"})
        = Only(pieces, {"x", "y"}) \o (IF part \in {"x", "y"} THEN Piece(k, part, present) ELSE <<>>)
  BY <1>0, OnlyPiece
<1>3. (IF part \in {"x", "y"} THEN Piece(k, part, present) ELSE <<>>) = Piece(k, part, present)
  OBVIOUS
<1>4. PICK p \in Pieces : p = [chunk |-> 0, part |-> "x"]
  BY DEF Pieces, Parts
<1>5. Only(pieces, {"x", "y"}) \in Seq(Pieces)
  BY <1>4, OnlyAppend
<1> QED
  BY <1>1, <1>2, <1>3, <1>5, ConcatProperties, Zenon DEF Text

\* The text of a content delta.
SpokenIn(k, c) == IF c = NoContent THEN <<>> ELSE X(k, c) \o Y(k, c)

LEMMA TokensText ==
    ASSUME NEW tokens \in Seq(Pieces), NEW c \in Contents \cup {NoContent}, NEW k \in Nat
    PROVE  /\ tokens \o Tokens(k, c) \in Seq(Pieces)
           /\ Text(tokens \o Tokens(k, c)) = Text(tokens) \o SpokenIn(k, c)
<1>0. Text(tokens) \in Seq(Pieces)
  <2>1. "x" \in {"x", "y"} /\ 0 \in Nat /\ TRUE \in BOOLEAN
    OBVIOUS
  <2> QED
    BY <2>1, PieceSpoken
<1>1. CASE c = NoContent
  <2>1. Tokens(k, c) = <<>> /\ SpokenIn(k, c) = <<>>
    BY <1>1 DEF Tokens, SpokenIn
  <2>2. Neutral(tokens) /\ Neutral(Text(tokens))
    BY <1>0, PiecesNeutral
  <2> QED
    BY <2>1, <2>2, Zenon DEF Neutral
<1>2. CASE c # NoContent
  <2>2. /\ c.tag \in Parts \ {"x", "y"} /\ (c.tag # "none") \in BOOLEAN /\ c.x \in BOOLEAN
        /\ c.close \in BOOLEAN /\ c.y \in BOOLEAN /\ "close" \in Parts \ {"x", "y"}
    BY <1>2, ChunksAssumption DEF Parts, Tags
  <2>3. PICK tag \in Seq(Pieces) : tag = Piece(k, c.tag, c.tag # "none")
    BY <2>2, PieceType
  <2>4. PICK x \in Seq(Pieces) : x = Piece(k, "x", c.x)
    BY <2>2, PieceType DEF Parts
  <2>5. PICK close \in Seq(Pieces) : close = Piece(k, "close", c.close)
    BY <2>2, PieceType
  <2>6. PICK y \in Seq(Pieces) : y = Piece(k, "y", c.y)
    BY <2>2, PieceType DEF Parts
  <2>7. PICK s1 \in Seq(Pieces) : s1 = tokens \o tag /\ Text(s1) = Text(tokens)
    <3>1. /\ tokens \o Piece(k, c.tag, c.tag # "none") \in Seq(Pieces)
          /\ Text(tokens \o Piece(k, c.tag, c.tag # "none")) = Text(tokens)
      BY <2>2, PieceSkipped
    <3> QED
      BY <2>3, <3>1, Zenon
  <2>8. PICK s2 \in Seq(Pieces) : s2 = s1 \o x /\ Text(s2) = Text(s1) \o x
    <3>1. /\ s1 \o Piece(k, "x", c.x) \in Seq(Pieces)
          /\ Text(s1 \o Piece(k, "x", c.x)) = Text(s1) \o Piece(k, "x", c.x)
      BY <2>2, PieceSpoken
    <3> QED
      BY <2>4, <3>1, Zenon
  <2>9. PICK s3 \in Seq(Pieces) : s3 = s2 \o close /\ Text(s3) = Text(s2)
    <3>1. /\ s2 \o Piece(k, "close", c.close) \in Seq(Pieces)
          /\ Text(s2 \o Piece(k, "close", c.close)) = Text(s2)
      BY <2>2, PieceSkipped
    <3> QED
      BY <2>5, <3>1, Zenon
  <2>10. PICK s4 \in Seq(Pieces) : s4 = s3 \o y /\ Text(s4) = Text(s3) \o y
    <3>1. /\ s3 \o Piece(k, "y", c.y) \in Seq(Pieces)
          /\ Text(s3 \o Piece(k, "y", c.y)) = Text(s3) \o Piece(k, "y", c.y)
      BY <2>2, PieceSpoken
    <3> QED
      BY <2>6, <3>1, Zenon
  <2>11. Tokens(k, c) = ((tag \o x) \o close) \o y
    BY <1>2, <2>3, <2>4, <2>5, <2>6 DEF Tokens, X, Y
  <2>12. PICK t2 \in Seq(Pieces) : t2 = tag \o x
    BY ConcatProperties
  <2>13. PICK t3 \in Seq(Pieces) : t3 = t2 \o close
    BY ConcatProperties
  <2>14. Regroup(tokens, tag, x) /\ Regroup(tokens, t2, close) /\ Regroup(tokens, t3, y)
    BY PiecesRegroup
  <2>15. tokens \o Tokens(k, c) = s4
    BY <2>7, <2>8, <2>9, <2>10, <2>11, <2>12, <2>13, <2>14, Zenon DEF Regroup
  <2>16. SpokenIn(k, c) = x \o y
    BY <1>2, <2>4, <2>6 DEF SpokenIn, X, Y
  <2>17. Regroup(Text(tokens), x, y)
    BY <1>0, PiecesRegroup
  <2>18. Text(s4) = Text(tokens) \o SpokenIn(k, c)
    BY <2>7, <2>8, <2>9, <2>10, <2>16, <2>17, Zenon DEF Regroup
  <2> QED
    BY <2>15, <2>18, Zenon
<1> QED
  BY <1>1, <1>2, Zenon

---------------------------------------------------------------------------
(* A message split at its first </think>                                   *)

NoClose(tokens) == \A i \in 1..Len(tokens) : tokens[i].part # "close"
\* The pieces of a sequence of at most one piece.
Shape(p, part, present) ==
    /\ p \in Seq(Pieces)
    /\ Len(p) = IF present THEN 1 ELSE 0
    /\ \A i \in 1..Len(p) : p[i].part = part

LEMMA PieceShape ==
    ASSUME NEW k \in Nat, NEW part \in Parts, NEW present \in BOOLEAN
    PROVE  Shape(Piece(k, part, present), part, present)
<1>1. PICK p \in Pieces : p = [chunk |-> k, part |-> part]
  BY DEF Pieces
<1>2. Piece(k, part, present) = IF present THEN <<p>> ELSE <<>>
  BY <1>1 DEF Piece
<1>3. p.part = part
  BY <1>1
<1>4. Shape(<<p>>, part, TRUE) /\ Shape(<<>>, part, FALSE)
  BY <1>3 DEF Shape
<1> QED
  BY <1>2, <1>4, Zenon

\* The thinking of the message is closed, th is its text and tx the text behind it.
Closed(tokens, th, tx) ==
    \E a, close, b \in Seq(Pieces) :
        /\ Len(a) > 0 /\ NoClose(a) /\ Shape(close, "close", TRUE)
        /\ tokens = (a \o close) \o b
        /\ th = Text(a \o close) /\ tx = Text(b)

LEMMA TextOfNothing == <<>> \in Seq(Pieces) /\ Text(<<>>) = <<>>
<1>1. <<>> \in Seq(Pieces)
  OBVIOUS
<1> QED
  BY <1>1, OnlyNothing, Zenon DEF Text

LEMMA TokensType ==
    ASSUME NEW c \in Contents \cup {NoContent}, NEW k \in Nat
    PROVE  Tokens(k, c) \in Seq(Pieces)
<1>1. PICK none \in Seq(Pieces) : none = <<>>
  BY TextOfNothing, Zenon
<1>2. none \o Tokens(k, c) \in Seq(Pieces)
  BY TokensText
<1>3. none \o Tokens(k, c) = Tokens(k, c)
  BY <1>1 DEF Tokens, Piece, X, Y
<1> QED
  BY <1>2, <1>3

\* Thinking that is closed stays closed, and the rest is the answer.
LEMMA ClosedGrows ==
    ASSUME NEW tokens \in Seq(Pieces), NEW th, NEW tx, Closed(tokens, th, tx),
           NEW c \in Contents \cup {NoContent}, NEW k \in Nat
    PROVE  Closed(tokens \o Tokens(k, c), th, tx \o SpokenIn(k, c))
<1>1. PICK a \in Seq(Pieces), close \in Seq(Pieces), b \in Seq(Pieces) :
        /\ Len(a) > 0 /\ NoClose(a) /\ Shape(close, "close", TRUE)
        /\ tokens = (a \o close) \o b
        /\ th = Text(a \o close) /\ tx = Text(b)
  BY DEF Closed
<1>2. PICK new : new = Tokens(k, c)
  OBVIOUS
<1>3. new \in Seq(Pieces)
  BY <1>2, TokensType
<1>4. PICK b2 \in Seq(Pieces) : b2 = b \o new /\ Text(b2) = Text(b) \o SpokenIn(k, c)
  <2>1. b \o Tokens(k, c) \in Seq(Pieces) /\ Text(b \o Tokens(k, c)) = Text(b) \o SpokenIn(k, c)
    BY TokensText
  <2> QED
    BY <1>2, <2>1, Zenon
<1>5. PICK head \in Seq(Pieces) : head = a \o close
  BY ConcatProperties
<1>6. Regroup(head, b, new)
  BY <1>3, PiecesRegroup
<1>7. tokens \o new = (a \o close) \o b2
  BY <1>1, <1>4, <1>5, <1>6, Zenon DEF Regroup
<1> QED
  BY <1>1, <1>2, <1>4, <1>7, Zenon DEF Closed

Joined(p, q) ==
    /\ Len(p \o q) = Len(p) + Len(q)
    /\ \A i \in 1..Len(p) + Len(q) : (p \o q)[i] = IF i <= Len(p) THEN p[i] ELSE q[i - Len(p)]
LEMMA PiecesJoined ==
    ASSUME NEW p \in Seq(Pieces), NEW q \in Seq(Pieces)
    PROVE  Joined(p, q)
<1> QED
  BY ConcatProperties DEF Joined
LEMMA PiecesCut ==
    ASSUME NEW p \in Seq(Pieces), NEW m \in Nat, NEW k \in Nat, 1 <= m, m <= k + 1, k <= Len(p)
    PROVE  /\ SubSeq(p, m, k) \in Seq(Pieces) /\ Len(SubSeq(p, m, k)) = k - m + 1
           /\ \A i \in 1..k - m + 1 : SubSeq(p, m, k)[i] = p[m + i - 1]
<1>1. \A i \in m..k : p[i] \in Pieces
  OBVIOUS
<1>2. /\ SubSeq(p, m, k) \in Seq(Pieces)
      /\ Len(SubSeq(p, m, k)) = IF m <= k THEN k - m + 1 ELSE 0
      /\ \A i \in 1..k - m + 1 : SubSeq(p, m, k)[i] = p[m + i - 1]
  BY <1>1, SubSeqProperties
<1> QED
  BY <1>2

\* The whole message, cut at its first close.
LEMMA CutAtClose ==
    ASSUME NEW tokens \in Seq(Pieces), NEW th, NEW tx, Closed(tokens, th, tx), OpenLen(tokens) = 1
    PROVE  response_from_openai(tokens) = [thinking |-> th, text |-> tx]
<1>1. PICK a \in Seq(Pieces), close \in Seq(Pieces), b \in Seq(Pieces) :
        /\ Len(a) > 0 /\ NoClose(a) /\ Shape(close, "close", TRUE)
        /\ tokens = (a \o close) \o b
        /\ th = Text(a \o close) /\ tx = Text(b)
  BY DEF Closed
<1>2. PICK head \in Seq(Pieces) : head = a \o close
  BY ConcatProperties
<1>3. PICK l \in Nat, r \in Nat : l = Len(a) /\ r = Len(b)
  OBVIOUS
<1>4. Len(close) = 1 /\ close[1].part = "close"
  BY <1>1 DEF Shape
<1>5. Len(head) = l + 1 /\ \A i \in 1..l + 1 : head[i] = IF i <= l THEN a[i] ELSE close[i - l]
  <2>1. Joined(a, close)
    BY PiecesJoined
  <2> QED
    BY <1>2, <1>3, <1>4, <2>1 DEF Joined
<1>6. tokens = head \o b
  BY <1>1, <1>2, Zenon
<1>7. /\ Len(tokens) = l + 1 + r
      /\ \A i \in 1..l + 1 + r : tokens[i] = IF i <= l + 1 THEN head[i] ELSE b[i - (l + 1)]
  <2>1. Joined(head, b)
    BY PiecesJoined
  <2> QED
    BY <1>3, <1>5, <1>6, <2>1 DEF Joined
<1>8. l + 1 \in Closes(tokens) /\ \A i \in Closes(tokens) : l + 1 <= i
  <2>1. tokens[l + 1] = close[1]
    BY <1>5, <1>7
  <2>2. l + 1 \in Closes(tokens)
    BY <1>1, <1>3, <1>4, <1>7, <2>1 DEF Closes
  <2>3. ASSUME NEW i \in Closes(tokens), i <= l PROVE FALSE
    <3>1. i \in 1..l /\ tokens[i].part = "close"
      BY <1>3, <1>7, <2>3 DEF Closes
    <3>2. tokens[i] = a[i]
      BY <1>5, <1>7, <3>1
    <3> QED
      BY <1>1, <1>3, <3>1, <3>2 DEF NoClose
  <2>4. \A i \in Closes(tokens) : i \in Int
    BY <1>7 DEF Closes
  <2> QED
    BY <2>2, <2>3, <2>4
<1>9. ASSUME NEW i \in Closes(tokens), \A j \in Closes(tokens) : i <= j PROVE i = l + 1
  <2>1. i \in Int
    BY <1>7 DEF Closes
  <2>2. i <= l + 1 /\ l + 1 <= i
    BY <1>8, <1>9
  <2> QED
    BY <2>1, <2>2
<1>10. (CHOOSE i \in Closes(tokens) : \A j \in Closes(tokens) : i <= j) = l + 1
  BY <1>8, <1>9
<1>11. SubSeq(tokens, 1, l + 1) = head
  <2>1. PICK part : part = SubSeq(tokens, 1, l + 1)
    OBVIOUS
  <2>2. part \in Seq(Pieces) /\ Len(part) = (l + 1) - 1 + 1 /\ \A i \in 1..(l + 1) - 1 + 1 : part[i] = tokens[1 + i - 1]
    BY <1>7, <2>1, PiecesCut
  <2>3. Len(part) = l + 1 /\ \A i \in 1..l + 1 : part[i] = head[i]
    <3>1. (l + 1) - 1 + 1 = l + 1 /\ \A i \in 1..l + 1 : 1 + i - 1 = i
      OBVIOUS
    <3>2. \A i \in 1..l + 1 : part[i] = tokens[i]
      BY <2>2, <3>1
    <3> QED
      BY <1>7, <2>2, <3>1, <3>2
  <2> QED
    BY <1>5, <2>1, <2>2, <2>3, SeqEqual
<1>12. SubSeq(tokens, l + 2, Len(tokens)) = b
  <2>1. PICK part : part = SubSeq(tokens, l + 2, l + 1 + r)
    OBVIOUS
  <2>2. /\ part \in Seq(Pieces) /\ Len(part) = (l + 1 + r) - (l + 2) + 1
        /\ \A i \in 1..(l + 1 + r) - (l + 2) + 1 : part[i] = tokens[(l + 2) + i - 1]
    BY <1>7, <2>1, PiecesCut
  <2>3. Len(part) = r /\ \A i \in 1..r : part[i] = b[i]
    <3>1. (l + 1 + r) - (l + 2) + 1 = r
      OBVIOUS
    <3>2. ASSUME NEW i \in 1..r PROVE part[i] = b[i]
      <4>1. PICK j \in 1..l + 1 + r : j = (l + 2) + i - 1 /\ j - (l + 1) = i /\ ~(j <= l + 1)
        OBVIOUS
      <4>2. part[i] = tokens[j]
        BY <2>2, <3>1, <4>1
      <4> QED
        BY <1>7, <4>1, <4>2
    <3> QED
      BY <2>2, <3>1, <3>2
  <2>4. part = b
    BY <1>3, <2>2, <2>3, SeqEqual
  <2> QED
    BY <1>7, <2>1, <2>4, Zenon
<1>13. Closes(tokens) # {}
  BY <1>8
<1>14. response_from_openai(tokens) =
         [thinking |-> Text(SubSeq(tokens, 1, l + 1)), text |-> Text(SubSeq(tokens, (l + 1) + 1, Len(tokens)))]
  <2>1. OpenLen(tokens) # 0
    OBVIOUS
  <2> QED
    BY <1>10, <1>13, <2>1, Zenon DEF response_from_openai
<1>15. (l + 1) + 1 = l + 2
  OBVIOUS
<1> QED
  BY <1>1, <1>2, <1>11, <1>12, <1>14, <1>15, Zenon

LEMMA Grown ==
    ASSUME NEW p \in Seq(Pieces), NEW q \in Seq(Pieces)
    PROVE  /\ p \o q \in Seq(Pieces) /\ Len(p \o q) >= Len(p)
           /\ Len(p) > 0 => Len(p \o q) > 0 /\ (p \o q)[1] = p[1]
           /\ NoClose(p) /\ NoClose(q) => NoClose(p \o q)
<1>1. PICK all \in Seq(Pieces) : all = p \o q
  BY ConcatProperties
<1>2. PICK l \in Nat, m \in Nat : l = Len(p) /\ m = Len(q)
  OBVIOUS
<1>3. Len(all) = l + m /\ \A i \in 1..l + m : all[i] = IF i <= l THEN p[i] ELSE q[i - l]
  BY <1>1, <1>2, ConcatProperties
<1>4. ASSUME NoClose(p), NoClose(q) PROVE NoClose(all)
  <2>1. ASSUME NEW i \in 1..l + m PROVE all[i].part # "close"
    <3>1. CASE i <= l
      <4>1. i \in 1..l /\ all[i] = p[i]
        BY <1>3, <3>1
      <4> QED
        BY <1>2, <1>4, <4>1 DEF NoClose
    <3>2. CASE i > l
      <4>1. i - l \in 1..m /\ all[i] = q[i - l]
        BY <1>3, <3>2
      <4> QED
        BY <1>2, <1>4, <4>1 DEF NoClose
    <3> QED
      BY <3>1, <3>2
  <2> QED
    BY <1>3, <2>1 DEF NoClose
<1>5. Len(all) >= l /\ (l > 0 => Len(all) > 0 /\ all[1] = p[1])
  BY <1>2, <1>3
<1> QED
  BY <1>1, <1>2, <1>4, <1>5

\* A content delta as the tokens of the message.
DeltaTokens(k, c, tokens, tag, x, close, y) ==
    /\ tokens = ((tag \o x) \o close) \o y
    /\ Shape(tag, c.tag, c.tag # "none") /\ Shape(x, "x", c.x)
    /\ Shape(close, "close", c.close) /\ Shape(y, "y", c.y)
    /\ tag = Piece(k, c.tag, c.tag # "none")
    /\ x = X(k, c) /\ close = Piece(k, "close", c.close) /\ y = Y(k, c)

LEMMA TokensShape ==
    ASSUME NEW c \in Contents, c # NoContent, NEW k \in Nat
    PROVE  \E tag, x, close, y : DeltaTokens(k, c, Tokens(k, c), tag, x, close, y)
<1>1. /\ c.x \in BOOLEAN /\ c.close \in BOOLEAN /\ c.y \in BOOLEAN /\ c.tag \in Parts
      /\ "x" \in Parts /\ "y" \in Parts /\ "close" \in Parts /\ (c.tag # "none") \in BOOLEAN
  BY ChunksAssumption DEF Parts, Tags
<1>2. PICK x : x = X(k, c)
  OBVIOUS
<1>3. PICK y : y = Y(k, c)
  OBVIOUS
<1>4. PICK close : close = Piece(k, "close", c.close)
  OBVIOUS
<1>5. PICK tag : tag = Piece(k, c.tag, c.tag # "none")
  OBVIOUS
<1>6. Shape(x, "x", c.x) /\ Shape(y, "y", c.y) /\ Shape(close, "close", c.close)
  BY <1>1, <1>2, <1>3, <1>4, PieceShape DEF X, Y
<1>7. Shape(tag, c.tag, c.tag # "none")
  BY <1>1, <1>5, PieceShape
<1>8. Tokens(k, c) = ((tag \o x) \o close) \o y
  BY <1>2, <1>3, <1>4, <1>5 DEF Tokens
<1> QED
  BY <1>2, <1>3, <1>4, <1>5, <1>6, <1>7, <1>8, Zenon DEF DeltaTokens

\* What the first token of a delta is, and where its </think> is.
First(c) == IF c.tag # "none" THEN c.tag ELSE IF c.x THEN "x" ELSE "close"
LastClose(tokens) == tokens[Len(tokens)].part = "close"
CloseThenText(tokens) ==
    Len(tokens) > 1 /\ tokens[Len(tokens) - 1].part = "close" /\ tokens[Len(tokens)].part = "y"

LEMMA TokensPlaces ==
    ASSUME NEW c \in Contents, c # NoContent, NEW k \in Nat
    PROVE  /\ Tokens(k, c) \in Seq(Pieces) /\ Len(Tokens(k, c)) > 0
           /\ Tokens(k, c)[1].part = First(c)
           /\ ~c.close => NoClose(Tokens(k, c))
           /\ c.close /\ ~c.y => LastClose(Tokens(k, c))
           /\ c.close /\ c.y => CloseThenText(Tokens(k, c))
<1>0. PICK tokens, tag, x, close, y : tokens = Tokens(k, c) /\ DeltaTokens(k, c, tokens, tag, x, close, y)
  BY TokensShape, Zenon
<1>1. c.tag # "none" \/ c.x \/ c.close
  BY ChunksAssumption
<1>2. tag \in Seq(Pieces) /\ x \in Seq(Pieces) /\ close \in Seq(Pieces) /\ y \in Seq(Pieces)
  BY <1>0 DEF DeltaTokens, Shape
<1>3. PICK t2 \in Seq(Pieces) : t2 = tag \o x
  BY <1>2, ConcatProperties
<1>4. PICK t3 \in Seq(Pieces) : t3 = t2 \o close
  BY <1>2, ConcatProperties
<1>5. tokens = t3 \o y
  BY <1>0, <1>3, <1>4 DEF DeltaTokens
<1>6. tokens \in Seq(Pieces)
  BY <1>2, <1>5, ConcatProperties
<1>7. PICK a \in Nat, b \in Nat, d \in Nat, e \in Nat :
        a = Len(tag) /\ b = Len(x) /\ d = Len(close) /\ e = Len(y)
  BY <1>2
<1>8. Len(t2) = a + b /\ \A i \in 1..a + b : t2[i] = IF i <= a THEN tag[i] ELSE x[i - a]
  BY <1>2, <1>3, <1>7, ConcatProperties
<1>9. Len(t3) = a + b + d /\ \A i \in 1..a + b + d : t3[i] = IF i <= a + b THEN t2[i] ELSE close[i - (a + b)]
  <2>1. /\ Len(t2 \o close) = Len(t2) + Len(close)
        /\ \A i \in 1..Len(t2) + Len(close) :
              (t2 \o close)[i] = IF i <= Len(t2) THEN t2[i] ELSE close[i - Len(t2)]
    BY <1>2, ConcatProperties, Zenon
  <2>2. Len(t2) = a + b /\ Len(close) = d
    BY <1>7, <1>8
  <2> QED
    BY <1>4, <2>1, <2>2
<1>10. /\ Len(tokens) = a + b + d + e
       /\ \A i \in 1..a + b + d + e : tokens[i] = IF i <= a + b + d THEN t3[i] ELSE y[i - (a + b + d)]
  <2>1. /\ Len(t3 \o y) = Len(t3) + Len(y)
        /\ \A i \in 1..Len(t3) + Len(y) :
              (t3 \o y)[i] = IF i <= Len(t3) THEN t3[i] ELSE y[i - Len(t3)]
    BY <1>2, ConcatProperties, Zenon
  <2>2. Len(t3) = a + b + d /\ Len(y) = e
    BY <1>7, <1>9
  <2> QED
    BY <1>5, <2>1, <2>2
<1>11. /\ \A i \in 1..a : tag[i].part = c.tag
       /\ \A i \in 1..b : x[i].part = "x"
       /\ \A i \in 1..d : close[i].part = "close"
       /\ \A i \in 1..e : y[i].part = "y"
  BY <1>0, <1>7 DEF DeltaTokens, Shape
<1>12. /\ a = IF c.tag # "none" THEN 1 ELSE 0
       /\ b = IF c.x THEN 1 ELSE 0
       /\ d = IF c.close THEN 1 ELSE 0
       /\ e = IF c.y THEN 1 ELSE 0
  BY <1>0, <1>7 DEF DeltaTokens, Shape
<1>13. Len(tokens) > 0
  BY <1>1, <1>10, <1>12
<1>14. tokens[1].part = First(c)
  <2>1. CASE c.tag # "none"
    <3>1. tokens[1] = tag[1] /\ tag[1].part = c.tag
      BY <1>8, <1>9, <1>10, <1>11, <1>12, <2>1
    <3> QED
      BY <2>1, <3>1 DEF First
  <2>2. CASE c.tag = "none" /\ c.x
    <3>1. tokens[1] = x[1] /\ x[1].part = "x"
      BY <1>8, <1>9, <1>10, <1>11, <1>12, <2>2
    <3> QED
      BY <2>2, <3>1 DEF First
  <2>3. CASE c.tag = "none" /\ ~c.x
    <3>1. c.close
      BY <1>1, <2>3
    <3>2. tokens[1] = close[1] /\ close[1].part = "close"
      BY <1>8, <1>9, <1>10, <1>11, <1>12, <2>3, <3>1
    <3> QED
      BY <2>3, <3>2 DEF First
  <2> QED
    BY <2>1, <2>2, <2>3
<1>15. ASSUME ~c.close PROVE NoClose(tokens)
  <2>1. d = 0 /\ e = 0
    BY <1>12, <1>15, ChunksAssumption
  <2>2. ASSUME NEW i \in 1..a + b PROVE tokens[i].part # "close"
    <3>1. tokens[i] = IF i <= a THEN tag[i] ELSE x[i - a]
      BY <1>8, <1>9, <1>10, <2>1
    <3>2. CASE i <= a
      <4>1. c.tag # "close"
        BY ChunksAssumption DEF Tags
      <4> QED
        BY <1>11, <3>1, <3>2, <4>1
    <3>3. CASE i > a
      <4>1. i - a \in 1..b
        BY <3>3
      <4> QED
        BY <1>11, <3>1, <3>3, <4>1
    <3> QED
      BY <3>2, <3>3
  <2> QED
    BY <1>10, <2>1, <2>2 DEF NoClose
<1>16. ASSUME c.close, ~c.y PROVE LastClose(tokens)
  <2>1. d = 1 /\ e = 0 /\ Len(tokens) = a + b + 1
    BY <1>10, <1>12, <1>16
  <2>2. tokens[a + b + 1] = t3[a + b + 1] /\ t3[a + b + 1] = close[1]
    BY <1>9, <1>10, <2>1
  <2> QED
    BY <1>11, <2>1, <2>2 DEF LastClose
<1>17. ASSUME c.close, c.y PROVE CloseThenText(tokens)
  <2>1. d = 1 /\ e = 1 /\ Len(tokens) = a + b + 2
    BY <1>10, <1>12, <1>17
  <2>2. tokens[a + b + 1] = t3[a + b + 1] /\ t3[a + b + 1] = close[1] /\ tokens[a + b + 2] = y[1]
    BY <1>9, <1>10, <2>1
  <2>3. a + b + 2 > 1 /\ (a + b + 2) - 1 = a + b + 1
    BY <1>1, <1>12
  <2>4. close[1].part = "close" /\ y[1].part = "y"
    BY <1>11, <2>1
  <2> QED
    BY <2>1, <2>2, <2>3, <2>4 DEF CloseThenText
<1> QED
  BY <1>0, <1>6, <1>13, <1>14, <1>15, <1>16, <1>17, Zenon

\* A close ends the thinking.
LEMMA ClosedNow ==
    ASSUME NEW tokens \in Seq(Pieces), Len(tokens) > 0, NoClose(tokens),
           NEW c \in Contents, c # NoContent, c.close, NEW k \in Nat
    PROVE  Closed(tokens \o Tokens(k, c), Text(tokens) \o X(k, c), Y(k, c))
<1>1. PICK tag, x, close, y : DeltaTokens(k, c, Tokens(k, c), tag, x, close, y)
  BY TokensShape
<1>2. /\ tag \in Seq(Pieces) /\ x \in Seq(Pieces) /\ close \in Seq(Pieces) /\ y \in Seq(Pieces)
      /\ Shape(close, "close", TRUE)
  BY <1>1 DEF DeltaTokens, Shape
<1>3. /\ c.x \in BOOLEAN /\ c.y \in BOOLEAN /\ "close" \in Parts \ {"x", "y"} /\ c.close \in BOOLEAN
      /\ c.tag \in Parts \ {"x", "y"} /\ c.tag # "close" /\ (c.tag # "none") \in BOOLEAN
  BY ChunksAssumption DEF Parts, Tags
<1>4. /\ tag = Piece(k, c.tag, c.tag # "none") /\ x = Piece(k, "x", c.x)
      /\ close = Piece(k, "close", c.close) /\ y = Piece(k, "y", c.y)
  BY <1>1 DEF DeltaTokens, X, Y
<1>5. PICK tagged \in Seq(Pieces) : tagged = tokens \o tag /\ Text(tagged) = Text(tokens)
  <2>1. /\ tokens \o Piece(k, c.tag, c.tag # "none") \in Seq(Pieces)
        /\ Text(tokens \o Piece(k, c.tag, c.tag # "none")) = Text(tokens)
    BY <1>3, PieceSkipped
  <2> QED
    BY <1>4, <2>1, Zenon
<1>6. Len(tagged) > 0 /\ NoClose(tagged)
  <2>1. NoClose(tag)
    BY <1>1, <1>3 DEF DeltaTokens, Shape, NoClose
  <2> QED
    BY <1>2, <1>5, <2>1, Grown
<1>7. PICK a \in Seq(Pieces) : a = tagged \o x /\ Text(a) = Text(tokens) \o x
  <2>1. /\ tagged \o Piece(k, "x", c.x) \in Seq(Pieces)
        /\ Text(tagged \o Piece(k, "x", c.x)) = Text(tagged) \o Piece(k, "x", c.x)
    BY <1>3, PieceSpoken
  <2> QED
    BY <1>4, <1>5, <2>1, Zenon
<1>8. Len(a) > 0 /\ NoClose(a)
  <2>1. NoClose(x)
    BY <1>1 DEF DeltaTokens, Shape, NoClose
  <2> QED
    BY <1>2, <1>6, <1>7, <2>1, Grown
<1>9. Text(a \o close) = Text(tokens) \o x
  <2>1. Text(a \o Piece(k, "close", c.close)) = Text(a)
    BY <1>3, PieceSkipped
  <2> QED
    BY <1>4, <1>7, <2>1, Zenon
<1>10. Text(y) = y
  <2>1. PICK none \in Seq(Pieces) : none = <<>> /\ Text(none) = none
    BY TextOfNothing, Zenon
  <2>2. Text(none \o Piece(k, "y", c.y)) = Text(none) \o Piece(k, "y", c.y)
    BY <1>3, PieceSpoken
  <2>3. Neutral(y)
    BY <1>2, PiecesNeutral
  <2> QED
    BY <1>4, <2>1, <2>2, <2>3, Zenon DEF Neutral
<1>11. tokens \o Tokens(k, c) = (a \o close) \o y
  <2>1. PICK t2 \in Seq(Pieces) : t2 = tag \o x
    BY <1>2, ConcatProperties
  <2>2. PICK t3 \in Seq(Pieces) : t3 = t2 \o close
    BY <1>2, ConcatProperties
  <2>3. Regroup(tokens, tag, x) /\ Regroup(tokens, t2, close) /\ Regroup(tokens, t3, y)
    BY <1>2, PiecesRegroup
  <2>4. Tokens(k, c) = t3 \o y
    BY <1>1, <2>1, <2>2, Zenon DEF DeltaTokens
  <2> QED
    BY <1>5, <1>7, <2>1, <2>2, <2>3, <2>4, Zenon DEF Regroup
<1>12. x = X(k, c) /\ y = Y(k, c)
  BY <1>1 DEF DeltaTokens
<1> QED
  BY <1>2, <1>8, <1>9, <1>10, <1>11, <1>12, Zenon DEF Closed

\* All of them are pieces of the chunk.
From(tokens, k) == \A i \in 1..Len(tokens) : tokens[i].chunk = k
LEMMA PieceFrom ==
    ASSUME NEW k \in Nat, NEW part, NEW present
    PROVE  From(Piece(k, part, present), k)
<1>1. CASE present
  BY <1>1 DEF Piece, From
<1>2. CASE ~present
  BY <1>2 DEF Piece, From
<1> QED
  BY <1>1, <1>2
LEMMA FromBoth ==
    ASSUME NEW p \in Seq(Pieces), NEW q \in Seq(Pieces), NEW k, From(p, k), From(q, k)
    PROVE  From(p \o q, k)
<1>1. PICK all : all = p \o q
  OBVIOUS
<1>2. PICK l \in Nat, m \in Nat : l = Len(p) /\ m = Len(q)
  OBVIOUS
<1>3. Len(all) = l + m /\ \A i \in 1..l + m : all[i] = IF i <= l THEN p[i] ELSE q[i - l]
  BY <1>1, <1>2, ConcatProperties
<1>4. ASSUME NEW i \in 1..l + m PROVE all[i].chunk = k
  <2>1. CASE i <= l
    <3>1. i \in 1..l /\ all[i] = p[i]
      BY <1>3, <2>1
    <3> QED
      BY <1>2, <3>1 DEF From
  <2>2. CASE i > l
    <3>1. i - l \in 1..m /\ all[i] = q[i - l]
      BY <1>3, <2>2
    <3> QED
      BY <1>2, <3>1 DEF From
  <2> QED
    BY <2>1, <2>2
<1> QED
  BY <1>1, <1>3, <1>4 DEF From
LEMMA TokensFrom ==
    ASSUME NEW c \in Contents, c # NoContent, NEW k \in Nat
    PROVE  From(Tokens(k, c), k)
<1>1. PICK tag, x, close, y : DeltaTokens(k, c, Tokens(k, c), tag, x, close, y)
  BY TokensShape
<1>2. tag \in Seq(Pieces) /\ x \in Seq(Pieces) /\ close \in Seq(Pieces) /\ y \in Seq(Pieces)
  BY <1>1 DEF DeltaTokens, Shape
<1>3. From(tag, k) /\ From(x, k) /\ From(close, k) /\ From(y, k)
  BY <1>1, PieceFrom, Zenon DEF DeltaTokens, X, Y
<1>4. PICK t2 \in Seq(Pieces) : t2 = tag \o x
  BY <1>2, ConcatProperties
<1>5. PICK t3 \in Seq(Pieces) : t3 = t2 \o close
  BY <1>2, ConcatProperties
<1>6. Tokens(k, c) = t3 \o y
  BY <1>1, <1>4, <1>5, Zenon DEF DeltaTokens
<1>7. From(t2, k)
  BY <1>2, <1>3, <1>4, FromBoth
<1>8. From(t3, k)
  BY <1>2, <1>3, <1>5, <1>7, FromBoth
<1> QED
  BY <1>2, <1>3, <1>6, <1>8, FromBoth, Zenon

=============================================================================
