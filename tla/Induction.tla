----------------------------- MODULE Induction -----------------------------
(***************************************************************************)
(* Induction over the naturals and recursive functions, stated for sets    *)
(* and functions: the form in which the proofs about the loops of the code *)
(* use them.                                                               *)
(***************************************************************************)
EXTENDS Integers, NaturalsInduction, WellFoundedInduction, TLAPS

\* A set of naturals that is not empty has a least member.
LEMMA LeastNatural ==
    ASSUME NEW T \in SUBSET Nat, T # {}
    PROVE  \E n \in T : \A m \in T : n <= m
<1> DEFINE R == {p \in Nat \X Nat : p[1] < p[2]}
<1>1. IsWellFoundedOn(R, Nat)
  <2>1. IsWellFoundedOn(OpToRel(<, Nat), Nat)
    BY NatLessThanWellFounded, Zenon
  <2>2. OpToRel(<, Nat) = R
    BY DEF OpToRel
  <2> QED
    BY <2>1, <2>2, Zenon
<1>2. \A x, y \in Nat : y < x => <<y, x>> \in R
  OBVIOUS
<1> HIDE DEF R
<1>3. PICK x \in T : \A y \in T : <<y, x>> \notin R
  BY <1>1, WFMin
<1>4. ASSUME NEW y \in T PROVE x <= y
  <2>1. x \in Nat /\ y \in Nat
    OBVIOUS
  <2>2. ~(y < x)
    BY <1>2, <1>3, <2>1
  <2> QED
    BY <2>1, <2>2
<1> QED
  BY <1>4

\* A set that holds 0 and, with n, also n + 1, holds every natural.
LEMMA SetInduction ==
    ASSUME NEW S, 0 \in S, \A n \in Nat : n \in S => n + 1 \in S
    PROVE  \A n \in Nat : n \in S
<1> SUFFICES ASSUME Nat \ S # {} PROVE FALSE
  OBVIOUS
<1>1. PICK n \in Nat \ S : \A m \in Nat \ S : n <= m
  BY LeastNatural
<1>2. n # 0 /\ n - 1 \in Nat
  OBVIOUS
<1>3. n - 1 \in S
  BY <1>1, <1>2
<1>4. n - 1 + 1 \in S
  BY <1>2, <1>3
<1> QED
  BY <1>2, <1>4

\* f[k] is what a loop that starts from base has after its turns G[1] .. G[k].
IsLoop(f, base, N, G) == f[0] = base /\ \A k \in 1..N : f[k] = G[k][f[k - 1]]

\* A loop that runs N times from base, G[k] being its turn k: its values exist and
\* stay in S when every turn stays in S.
LEMMA LoopValues ==
    ASSUME NEW S, NEW base \in S, NEW N \in Nat, NEW G \in [1..N -> [S -> S]]
    PROVE  \E f \in [0..N -> S] : IsLoop(f, base, N, G)
<1> DEFINE Fits(f, m) == f[0] = base /\ \A k \in 1..m : f[k] = G[k][f[k - 1]]
           Done == {m \in Nat : m <= N => \E f \in [0..m -> S] : Fits(f, m)}
<1>1. 0 \in Done
  <2>1. Fits([k \in 0..0 |-> base], 0)
    OBVIOUS
  <2> QED
    BY <2>1
<1>2. ASSUME NEW m \in Nat, m \in Done PROVE m + 1 \in Done
  <2> SUFFICES ASSUME m + 1 <= N PROVE \E f \in [0..(m + 1) -> S] : Fits(f, m + 1)
    OBVIOUS
  <2>1. PICK f \in [0..m -> S] : Fits(f, m)
    BY <1>2
  <2> DEFINE g == [k \in 0..(m + 1) |-> IF k <= m THEN f[k] ELSE G[m + 1][f[m]]]
  <2>2. f[m] \in S /\ m + 1 \in 1..N
    OBVIOUS
  <2>3. G[m + 1][f[m]] \in S
    BY <2>2
  <2>4. g \in [0..(m + 1) -> S]
    BY <2>3
  <2>5. g[0] = base
    BY <2>1
  <2>6. ASSUME NEW k \in 1..(m + 1) PROVE g[k] = G[k][g[k - 1]]
    <3>1. CASE k <= m
      BY <2>1, <3>1
    <3>2. CASE k = m + 1
      BY <3>2
    <3> QED
      BY <3>1, <3>2
  <2> HIDE DEF g
  <2> QED
    BY <2>4, <2>5, <2>6
<1>3. N \in Done
  <2> HIDE DEF Done
  <2> QED
    BY <1>1, <1>2, SetInduction
<1> QED
  BY <1>3 DEF IsLoop
===========================================================================
