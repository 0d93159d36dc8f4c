------------------------------- MODULE Keccak -------------------------------
(***************************************************************************)
(* The permutation of native/mlkem/common/fips202.c.  A lane (uint64_t) is *)
(* the set of the positions of its 1 bits, so that exclusive or is the     *)
(* symmetric difference and (~a) & b is b \ a.  The 25 lanes are kept in   *)
(* the five rows b, g, k, m, s of five lanes a, e, i, o, u that the code   *)
(* names: A[y][x] is state[5 * (y - 1) + (x - 1)].                         *)
(***************************************************************************)
EXTENDS Integers, Sequences

NROUNDS == 24

Xor(a, b) == (a \ b) \cup (b \ a)

ROL(a, offset) == {(i + offset) % 64 : i \in a}

KeccakF_RoundConstants ==
    << {0}, {1, 7, 15}, {1, 3, 7, 15, 63}, {15, 31, 63},
       {0, 1, 3, 7, 15}, {0, 31}, {0, 7, 15, 31, 63}, {0, 3, 15, 63},
       {1, 3, 7}, {3, 7}, {0, 3, 15, 31}, {1, 3, 31},
       {0, 1, 3, 7, 15, 31}, {0, 1, 3, 7, 63}, {0, 3, 7, 15, 63}, {0, 1, 15, 63},
       {1, 15, 63}, {7, 63}, {1, 3, 15}, {1, 3, 31, 63},
       {0, 7, 15, 31, 63}, {7, 15, 63}, {0, 31}, {3, 15, 31, 63} >>

\* The i-th of the lanes BCa .. BCu that a row of E is made of is a lane of the
\* i-th row of A: its column and its rotation.
RhoPi ==
    << << <<1, 0>>,  <<2, 44>>, <<3, 43>>, <<4, 21>>, <<5, 14>> >>,
       << <<4, 28>>, <<5, 20>>, <<1, 3>>,  <<2, 45>>, <<3, 61>> >>,
       << <<2, 1>>,  <<3, 6>>,  <<4, 25>>, <<5, 8>>,  <<1, 18>> >>,
       << <<5, 27>>, <<1, 36>>, <<2, 10>>, <<3, 15>>, <<4, 56>> >>,
       << <<3, 62>>, <<4, 55>>, <<5, 39>>, <<1, 41>>, <<2, 2>> >> >>

\* theta: what every lane of a column is exclusive-ored with.
Theta(A) ==
    LET Column(x) == Xor(Xor(Xor(A[1][x], A[2][x]), Xor(A[3][x], A[4][x])), A[5][x])
        Mix(BC) == <<Xor(BC[5], ROL(BC[2], 1)), Xor(BC[1], ROL(BC[3], 1)), Xor(BC[2], ROL(BC[4], 1)),
                     Xor(BC[3], ROL(BC[5], 1)), Xor(BC[4], ROL(BC[1], 1))>>
    IN  Mix(<<Column(1), Column(2), Column(3), Column(4), Column(5)>>)

Chi(b) == <<Xor(b[1], b[3] \ b[2]), Xor(b[2], b[4] \ b[3]), Xor(b[3], b[5] \ b[4]),
            Xor(b[4], b[1] \ b[5]), Xor(b[5], b[2] \ b[1])>>

\* A row of E from the lanes that f names.
RowOf(A, D, f) ==
    LET Lane(y) == ROL(Xor(A[y][f[y][1]], D[f[y][1]]), f[y][2])
    IN  Chi(<<Lane(1), Lane(2), Lane(3), Lane(4), Lane(5)>>)

\* One round: theta, then rho and pi, chi, and iota on the first lane.
Round(A, constant) ==
    LET E(D) == <<RowOf(A, D, RhoPi[1]), RowOf(A, D, RhoPi[2]), RowOf(A, D, RhoPi[3]),
                  RowOf(A, D, RhoPi[4]), RowOf(A, D, RhoPi[5])>>
    IN  [E(Theta(A)) EXCEPT ![1][1] = Xor(@, constant)]

LaneState == [1..5 -> [1..5 -> SUBSET (0..63)]]

KeccakF1600_StatePermute(state) ==
    LET rounds[n \in 0..NROUNDS, A \in LaneState] ==
          IF n = NROUNDS THEN A ELSE rounds[n + 1, Round(A, KeccakF_RoundConstants[n + 1])]
    IN  rounds[0, state]
===========================================================================
