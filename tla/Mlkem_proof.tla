---------------------------- MODULE Mlkem_proof ----------------------------
(***************************************************************************)
(* The native code of ML-KEM.  Arithmetic: the two reductions of reduce.c  *)
(* for every argument they are meant for, and NoWrap and FormatsExact of   *)
(* RingOps for every input and every other factor.  Hashing: whatever the  *)
(* pieces of a message and however many, the incremental counter of Sponge *)
(* leaves room for the padding.                                            *)
(***************************************************************************)
EXTENDS RingOps, Sponge, SequenceTheorems, TLAPS

\* Storing into an int16_t adds a multiple of 2^16 and gives an int16_t.
LEMMA Int16Cong ==
  ASSUME NEW x \in Int
  PROVE  \E j \in Int : Int16(x) = x - 65536 * j /\ -32768 <= Int16(x) /\ Int16(x) <= 32767
<1> DEFINE d == (x + 32768) \div 65536
<1>1. /\ d \in Int
      /\ x + 32768 = 65536 * d + ((x + 32768) % 65536)
      /\ 0 <= (x + 32768) % 65536 /\ (x + 32768) % 65536 <= 65535
  BY SMTT(20)
<1> HIDE DEF d
<1>2. Int16(x) = x - 65536 * d /\ -32768 <= Int16(x) /\ Int16(x) <= 32767
  BY <1>1, SMTT(20) DEF Int16
<1> QED BY <1>1, <1>2, SMTT(20)

LEMMA Int16Type ==
  ASSUME NEW x \in Int
  PROVE  Int16(x) \in Int16Range
<1>1. PICK j \in Int : Int16(x) = x - 65536 * j /\ -32768 <= Int16(x) /\ Int16(x) <= 32767
  BY Int16Cong, SMTT(20)
<1> QED BY <1>1, SMTT(20) DEF Int16Range

\* What fits is stored as it is.
LEMMA Int16Same ==
  ASSUME NEW x \in Int, -32768 <= x, x <= 32767
  PROVE  Int16(x) = x
  BY SMTT(20) DEF Int16

---------------------------------------------------------------------------
\* QINV is the inverse of q modulo 2^16: 3329 * 3327 = 169 * 65536 - 1.
LEMMA MontArith ==
  ASSUME NEW x \in Int, NEW u \in Int, NEW t \in Int, NEW i \in Int, NEW j \in Int,
         u = x - 65536 * j, t = u * (-3327) - 65536 * i
  PROVE  x - t * 3329 = 65536 * (x * 169 - 3329 * (3327 * j - i))
  BY SMTT(20)

LEMMA Shift16 ==
  ASSUME NEW x \in Int
  PROVE  (65536 * x) \div 65536 = x
  BY SMTT(20)

LEMMA Multiple == \A x \in Int : (3329 * x) % 3329 = 0
  BY SMTT(20)

\* montgomery_reduce: for an argument in -q * 2^15 .. q * 2^15 - 1 the result lies
\* strictly between -q and q, and 2^16 times it is the argument modulo q.
THEOREM MontgomeryCorrect ==
  ASSUME NEW x \in Int, -109084672 <= x, x < 109084672
  PROVE  /\ montgomery_reduce(x) \in Int
         /\ -3328 <= montgomery_reduce(x) /\ montgomery_reduce(x) <= 3328
         /\ (montgomery_reduce(x) * 65536 - x) % 3329 = 0
<1>1. PICK j \in Int : Int16(x) = x - 65536 * j /\ -32768 <= Int16(x) /\ Int16(x) <= 32767
  BY Int16Cong, SMTT(20)
<1> DEFINE u == Int16(x)
<1>2. u \in Int /\ u * (-3327) \in Int BY <1>1, SMTT(20)
<1>3. PICK i \in Int : /\ Int16(u * (-3327)) = u * (-3327) - 65536 * i
                       /\ -32768 <= Int16(u * (-3327)) /\ Int16(u * (-3327)) <= 32767
  <2> HIDE DEF u
  <2> QED BY <1>2, Int16Cong, SMTT(20)
<1> DEFINE t == Int16(u * (-3327))
           n == x * 169 - 3329 * (3327 * j - i)
<1>4. n \in Int BY SMTT(20)
<1>5. t \in Int /\ -32768 <= t /\ t <= 32767 /\ t = u * (-3327) - 65536 * i
  BY <1>2, <1>3, SMTT(20)
<1>6. x - t * 3329 = 65536 * n
  <2> HIDE DEF t
  <2>1. u = x - 65536 * j BY <1>1, SMTT(20)
  <2> HIDE DEF u
  <2> QED BY <1>2, <1>5, <2>1, MontArith, SMTT(20)
<1>7. montgomery_reduce(x) = Int16((x - t * 3329) \div 65536)
  BY SMTT(20) DEF montgomery_reduce, KYBER_Q, QINV
<1> HIDE DEF n, t, u
<1>8. montgomery_reduce(x) = Int16(n) BY <1>4, <1>6, <1>7, Shift16, SMTT(20)
<1>9. -3328 <= n /\ n <= 3328 BY <1>4, <1>5, <1>6, SMTT(20)
<1>10. Int16(n) = n BY <1>4, <1>9, Int16Same, SMTT(20)
<1>11. n * 65536 - x = 3329 * (0 - t) BY <1>4, <1>5, <1>6, SMTT(20)
<1>12. (n * 65536 - x) % 3329 = 0 BY <1>5, <1>11, Multiple, SMTT(20)
<1> QED BY <1>4, <1>8, <1>9, <1>10, <1>12, SMTT(20)

---------------------------------------------------------------------------
LEMMA BarrettArith ==
  ASSUME NEW x \in Int, -32768 <= x, x <= 32767,
         NEW t \in Int, t = (20159 * x + 33554432) \div 67108864
  PROVE  /\ -1664 <= x - t * 3329 /\ x - t * 3329 <= 1664
         /\ -10 <= t /\ t <= 10
  BY SMTT(60)

\* barrett_reduce: every int16_t is reduced to the representative in
\* -(q - 1) / 2 .. (q - 1) / 2, although t * q itself need not fit an int16_t.
THEOREM BarrettCorrect ==
  ASSUME NEW x \in Int16Range
  PROVE  /\ barrett_reduce(x) \in Int
         /\ -1664 <= barrett_reduce(x) /\ barrett_reduce(x) <= 1664
         /\ (barrett_reduce(x) - x) % 3329 = 0
<1>1. x \in Int /\ -32768 <= x /\ x <= 32767 BY SMTT(20) DEF Int16Range
<1> DEFINE t == (20159 * x + 33554432) \div 67108864
<1>2. t \in Int BY <1>1, SMTT(20)
<1>3. /\ -1664 <= x - t * 3329 /\ x - t * 3329 <= 1664
      /\ -10 <= t /\ t <= 10
  <2> HIDE DEF t
  <2>1. t = (20159 * x + 33554432) \div 67108864 BY SMTT(20) DEF t
  <2> QED BY <1>1, <1>2, <2>1, BarrettArith, SMTT(20)
<1>4. (67108864 + 3329 \div 2) \div 3329 = 20159 BY SMTT(20)
<1>5. barrett_reduce(x) = Int16(x - Int16(Int16(t) * 3329))
  BY <1>4, SMTT(60) DEF barrett_reduce, KYBER_Q
<1> HIDE DEF t
<1>6. Int16(t) = t BY <1>2, <1>3, Int16Same, SMTT(20)
<1>7. PICK j \in Int : Int16(t * 3329) = t * 3329 - 65536 * j
                       /\ -32768 <= Int16(t * 3329) /\ Int16(t * 3329) <= 32767
  <2> DEFINE p == t * 3329
  <2>1. p \in Int BY <1>2, SMTT(20)
  <2>2. \E j \in Int : Int16(p) = p - 65536 * j /\ -32768 <= Int16(p) /\ Int16(p) <= 32767
    <3> HIDE DEF p
    <3> QED BY <2>1, Int16Cong, SMTT(20)
  <2> QED BY <2>2, SMTT(20)
<1>8. Int16(x - Int16(t * 3329)) = x - t * 3329
  BY <1>1, <1>2, <1>3, <1>7, SMTT(20) DEF Int16
<1>9. barrett_reduce(x) = x - t * 3329 BY <1>5, <1>6, <1>8, SMTT(20)
<1>10. x - t * 3329 - x = 3329 * (0 - t) BY <1>1, <1>2, SMTT(20)
<1>11. (x - t * 3329 - x) % 3329 = 0 BY <1>2, <1>10, Multiple, SMTT(20)
<1> QED BY <1>1, <1>2, <1>3, <1>9, <1>11, SMTT(20)

---------------------------------------------------------------------------
LEMMA ZetaRange ==
  ASSUME NEW n \in Nat, n <= 127
  PROVE  zeta(n) \in Int /\ -1664 <= zeta(n) /\ zeta(n) <= 1664
<1>1. \A i \in 1..128 : zetas[i] \in Int /\ -1664 <= zetas[i] /\ zetas[i] <= 1664
  BY SMTT(60) DEF zetas
<1>2. n + 1 \in 1..128 BY SMTT(20)
<1> QED BY <1>1, <1>2, SMTT(20) DEF zeta

LEMMA MulBound ==
  ASSUME NEW A \in Nat, NEW B \in Nat, NEW x \in Int, NEW y \in Int,
         -A <= x, x <= A, -B <= y, y <= B
  PROVE  x * y \in Int /\ -(A * B) <= x * y /\ x * y <= A * B
<1>1. CASE x >= 0 /\ y >= 0 BY <1>1, SMTT(20)
<1>2. CASE x >= 0 /\ y < 0 BY <1>2, SMTT(20)
<1>3. CASE x < 0 /\ y >= 0 BY <1>3, SMTT(20)
<1>4. CASE x < 0 /\ y < 0 BY <1>4, SMTT(20)
<1> QED BY <1>1, <1>2, <1>3, <1>4, SMTT(20)

\* A product of a number below q and any number the transforms hold is reduced.
LEMMA FqmulRange ==
  ASSUME NEW x \in Int, NEW y \in Int, -3328 <= x, x <= 3328, -26632 <= y, y <= 26632
  PROVE  /\ fqmul(x, y) \in Int /\ -3328 <= fqmul(x, y) /\ fqmul(x, y) <= 3328
         /\ fqmul(y, x) \in Int /\ -3328 <= fqmul(y, x) /\ fqmul(y, x) <= 3328
<1>1. x * y \in Int /\ -(3328 * 26632) <= x * y /\ x * y <= 3328 * 26632
  BY MulBound, SMTT(20)
<1>2. x * y = y * x BY SMTT(20)
<1>3. -109084672 <= x * y /\ x * y < 109084672 BY <1>1, SMTT(20)
<1> DEFINE p == x * y
<1>4. p \in Int /\ -109084672 <= p /\ p < 109084672 BY <1>1, <1>3, SMTT(20)
<1>5. fqmul(x, y) = montgomery_reduce(p) /\ fqmul(y, x) = montgomery_reduce(p)
  BY <1>2, SMTT(20) DEF fqmul
<1> HIDE DEF p
<1> QED BY <1>4, <1>5, MontgomeryCorrect, SMTT(20)

LEMMA FqmulLeft ==
  ASSUME NEW x \in Int, NEW y \in Int, -3328 <= x, x <= 3328, -26632 <= y, y <= 26632
  PROVE  fqmul(x, y) \in Int /\ -3328 <= fqmul(x, y) /\ fqmul(x, y) <= 3328
  BY FqmulRange, SMTT(20)

LEMMA FqmulRight ==
  ASSUME NEW x \in Int, NEW y \in Int, -3328 <= x, x <= 3328, -26632 <= y, y <= 26632
  PROVE  fqmul(y, x) \in Int /\ -3328 <= fqmul(y, x) /\ fqmul(y, x) <= 3328
  BY FqmulRange, SMTT(20)

---------------------------------------------------------------------------
\* Polynomials as poly_reduce, the butterflies of invntt and poly_frombytes leave them.
Centred(f) == f \in [Index -> Int] /\ \A i \in Index : -1664 <= f[i] /\ f[i] <= 1664
Small(f) == f \in [Index -> Int] /\ \A i \in Index : -3328 <= f[i] /\ f[i] <= 3328
Parsed(f) == f \in [Index -> Int] /\ \A i \in Index : 0 <= f[i] /\ f[i] <= 4095

LEMMA IndexFact == \A i : i \in Index <=> i \in Int /\ 0 <= i /\ i <= 255
  BY SMTT(20) DEF Index, KYBER_N

\* A block of butterflies: no sum wraps, a bound on the coefficients from start
\* on grows by q inside the block, and the rest stays as it is.
LEMMA NttBlockBound ==
  ASSUME NEW q \in [Index -> Int], NEW B \in Nat, B <= 23303,
         NEW s \in Nat, NEW l \in Nat, s + 2 * l <= 256,
         NEW z \in Int, -1664 <= z, z <= 1664,
         \A i \in Index : i >= s => -B <= q[i] /\ q[i] <= B
  PROVE  /\ \A i \in Lower(s, l) : /\ q[i] + fqmul(z, q[i + l]) \in Int16Range
                                   /\ q[i] - fqmul(z, q[i + l]) \in Int16Range
         /\ NttBlock(q, s, l, z) \in [Index -> Int]
         /\ \A i \in Index : i < s \/ i >= s + 2 * l => NttBlock(q, s, l, z)[i] = q[i]
         /\ \A i \in Index : i >= s /\ i < s + 2 * l =>
              /\ -(B + 3329) <= NttBlock(q, s, l, z)[i]
              /\ NttBlock(q, s, l, z)[i] <= B + 3329
<1>1. \A i : i \in Lower(s, l) <=> i \in Int /\ s <= i /\ i < s + l
  BY SMTT(20) DEF Lower
<1>2. \A i : i \in Upper(s, l) <=> i \in Int /\ s + l <= i /\ i < s + 2 * l
  BY SMTT(20) DEF Upper
<1>3. \A i \in Index : q[i] \in Int BY SMTT(20)
<1>4. ASSUME NEW i \in Lower(s, l)
      PROVE  /\ q[i] + fqmul(z, q[i + l]) \in Int
             /\ -(B + 3329) <= q[i] + fqmul(z, q[i + l]) /\ q[i] + fqmul(z, q[i + l]) <= B + 3329
             /\ q[i] - fqmul(z, q[i + l]) \in Int
             /\ -(B + 3329) <= q[i] - fqmul(z, q[i + l]) /\ q[i] - fqmul(z, q[i + l]) <= B + 3329
  <2>1. i \in Index /\ i + l \in Index /\ i >= s /\ i + l >= s
    BY <1>1, <1>4, IndexFact, SMTT(20)
  <2> DEFINE x == q[i]
             y == q[i + l]
  <2>2. x \in Int /\ y \in Int /\ -B <= x /\ x <= B /\ -B <= y /\ y <= B
    BY <1>3, <2>1, SMTT(20)
  <2> DEFINE t == fqmul(z, y)
  <2>3. t \in Int /\ -3328 <= t /\ t <= 3328
    <3> HIDE DEF x, y
    <3>1. -26632 <= y /\ y <= 26632 /\ -3328 <= z /\ z <= 3328 BY <2>2, SMTT(20)
    <3> QED BY <2>2, <3>1, FqmulLeft, SMTT(20)
  <2> HIDE DEF t
  <2>4. /\ x + t \in Int /\ -(B + 3329) <= x + t /\ x + t <= B + 3329
        /\ x - t \in Int /\ -(B + 3329) <= x - t /\ x - t <= B + 3329
    <3> HIDE DEF x
    <3> QED BY <2>2, <2>3, SMTT(20)
  <2> QED BY <2>4, SMTT(20) DEF t
<1>5. ASSUME NEW i \in Lower(s, l)
      PROVE  /\ q[i] + fqmul(z, q[i + l]) \in Int16Range
             /\ q[i] - fqmul(z, q[i + l]) \in Int16Range
             /\ Int16(q[i] + fqmul(z, q[i + l])) = q[i] + fqmul(z, q[i + l])
             /\ Int16(q[i] - fqmul(z, q[i + l])) = q[i] - fqmul(z, q[i + l])
  <2> DEFINE x == q[i] + fqmul(z, q[i + l])
             y == q[i] - fqmul(z, q[i + l])
  <2>1. x \in Int /\ -32768 <= x /\ x <= 32767 /\ y \in Int /\ -32768 <= y /\ y <= 32767
    BY <1>4, <1>5, SMTT(20)
  <2> HIDE DEF x, y
  <2>2. x \in Int16Range /\ y \in Int16Range /\ Int16(x) = x /\ Int16(y) = y
    BY <2>1, Int16Same, SMTT(20) DEF Int16Range
  <2> QED BY <2>2, SMTT(20) DEF x, y
<1> DEFINE f == NttBlock(q, s, l, z)
<1>6. \A i \in Index : i < s \/ i >= s + 2 * l => f[i] = q[i]
  BY <1>1, <1>2, <1>3, IndexFact, SMTT(20) DEF NttBlock
<1>7. ASSUME NEW i \in Index, i >= s, i < s + l
      PROVE  f[i] \in Int /\ -(B + 3329) <= f[i] /\ f[i] <= B + 3329
  <2>1. i \in Lower(s, l) BY <1>1, <1>7, IndexFact, SMTT(20)
  <2>2. f[i] = Int16(q[i] + fqmul(z, q[i + l])) BY <2>1, SMTT(20) DEF NttBlock
  <2> HIDE DEF f
  <2>3. f[i] = q[i] + fqmul(z, q[i + l]) BY <1>5, <2>1, <2>2, SMTT(20)
  <2> QED BY <1>4, <2>1, <2>3, SMTT(20)
<1>8. ASSUME NEW i \in Index, i >= s + l, i < s + 2 * l
      PROVE  f[i] \in Int /\ -(B + 3329) <= f[i] /\ f[i] <= B + 3329
  <2>1. i - l \in Lower(s, l) /\ i \notin Lower(s, l) /\ i \in Upper(s, l) /\ (i - l) + l = i
    BY <1>1, <1>2, <1>8, IndexFact, SMTT(20)
  <2>2. f[i] = Int16(q[i - l] - fqmul(z, q[i])) BY <2>1, SMTT(20) DEF NttBlock
  <2> HIDE DEF f
  <2>3. f[i] = q[i - l] - fqmul(z, q[i]) BY <1>5, <2>1, <2>2, SMTT(20)
  <2> QED BY <1>4, <2>1, <2>3, SMTT(20)
<1>9. \A i \in Index : f[i] \in Int BY <1>3, <1>6, <1>7, <1>8, IndexFact, SMTT(20)
<1>10. f = [i \in Index |-> f[i]] BY SMTT(20) DEF NttBlock
<1> HIDE DEF f
<1>11. f \in [Index -> Int] BY <1>9, <1>10, SMTT(20)
<1>12. \A i \in Index : i >= s /\ i < s + 2 * l => -(B + 3329) <= f[i] /\ f[i] <= B + 3329
  BY <1>7, <1>8, IndexFact, SMTT(20)
<1> QED BY <1>5, <1>6, <1>11, <1>12, SMTT(20) DEF f

\* The inverse butterflies: with every coefficient below q no sum wraps, and
\* every coefficient stays below q.
LEMMA InvNttBlockBound ==
  ASSUME NEW q, Small(q),
         NEW s \in Nat, NEW l \in Nat, s + 2 * l <= 256,
         NEW z \in Int, -1664 <= z, z <= 1664
  PROVE  /\ \A i \in Lower(s, l) : /\ q[i] + q[i + l] \in Int16Range
                                   /\ q[i + l] - q[i] \in Int16Range
         /\ Small(InvNttBlock(q, s, l, z))
<1>1. \A i : i \in Lower(s, l) <=> i \in Int /\ s <= i /\ i < s + l
  BY SMTT(20) DEF Lower
<1>2. \A i : i \in Upper(s, l) <=> i \in Int /\ s + l <= i /\ i < s + 2 * l
  BY SMTT(20) DEF Upper
<1>3. \A i \in Index : q[i] \in Int /\ -3328 <= q[i] /\ q[i] <= 3328
  BY SMTT(20) DEF Small
<1>4. ASSUME NEW i \in Lower(s, l)
      PROVE  /\ i \in Index /\ i + l \in Index
             /\ q[i] + q[i + l] \in Int16Range /\ q[i + l] - q[i] \in Int16Range
             /\ -6656 <= q[i + l] - q[i] /\ q[i + l] - q[i] <= 6656
             /\ Int16(q[i] + q[i + l]) = q[i] + q[i + l]
             /\ Int16(q[i + l] - q[i]) = q[i + l] - q[i]
  <2>1. i \in Index /\ i + l \in Index BY <1>1, <1>4, IndexFact, SMTT(20)
  <2> DEFINE x == q[i] + q[i + l]
             y == q[i + l] - q[i]
  <2>2. x \in Int /\ y \in Int /\ -6656 <= x /\ x <= 6656 /\ -6656 <= y /\ y <= 6656
    BY <1>3, <2>1, SMTT(20)
  <2>3. x \in Int16Range /\ y \in Int16Range /\ Int16(x) = x /\ Int16(y) = y
    <3> HIDE DEF x, y
    <3> QED BY <2>2, Int16Same, SMTT(20) DEF Int16Range
  <2> QED BY <2>1, <2>2, <2>3, SMTT(20)
<1> DEFINE f == InvNttBlock(q, s, l, z)
<1>5. ASSUME NEW i \in Index, i < s \/ i >= s + 2 * l
      PROVE  f[i] \in Int /\ -3328 <= f[i] /\ f[i] <= 3328
  <2>1. i \notin Lower(s, l) /\ i \notin Upper(s, l)
    BY <1>1, <1>2, <1>5, IndexFact, SMTT(20)
  <2>2. f[i] = q[i] BY <2>1, SMTT(20) DEF InvNttBlock
  <2> HIDE DEF f
  <2> QED BY <1>3, <2>2, SMTT(20)
<1>6. ASSUME NEW i \in Index, i >= s, i < s + l
      PROVE  f[i] \in Int /\ -3328 <= f[i] /\ f[i] <= 3328
  <2>1. i \in Lower(s, l) BY <1>1, <1>6, IndexFact, SMTT(20)
  <2>2. f[i] = barrett_reduce(Int16(q[i] + q[i + l])) BY <2>1, SMTT(20) DEF InvNttBlock
  <2> DEFINE x == Int16(q[i] + q[i + l])
  <2>3. x \in Int16Range BY <1>4, <2>1, SMTT(20)
  <2> HIDE DEF f, x
  <2>4. f[i] = barrett_reduce(x) BY <2>2, SMTT(20) DEF x
  <2> QED BY <2>3, <2>4, BarrettCorrect, SMTT(20)
<1>7. ASSUME NEW i \in Index, i >= s + l, i < s + 2 * l
      PROVE  f[i] \in Int /\ -3328 <= f[i] /\ f[i] <= 3328
  <2>1. i - l \in Lower(s, l) /\ i \notin Lower(s, l) /\ i \in Upper(s, l) /\ (i - l) + l = i
    BY <1>1, <1>2, <1>7, IndexFact, SMTT(20)
  <2>2. f[i] = fqmul(z, Int16(q[i] - q[i - l])) BY <2>1, SMTT(20) DEF InvNttBlock
  <2> DEFINE x == Int16(q[i] - q[i - l])
  <2>3. x \in Int /\ -26632 <= x /\ x <= 26632 /\ -3328 <= z /\ z <= 3328
    <3>1. x = q[i] - q[i - l] BY <1>4, <2>1, SMTT(20)
    <3>2. q[i] \in Int /\ q[i - l] \in Int BY <1>3, <1>4, <2>1, SMTT(20)
    <3>3. -6656 <= q[i] - q[i - l] /\ q[i] - q[i - l] <= 6656 BY <1>4, <2>1, SMTT(20)
    <3> HIDE DEF x
    <3> QED BY <3>1, <3>2, <3>3, SMTT(20)
  <2> HIDE DEF f, x
  <2>4. f[i] = fqmul(z, x) BY <2>2, SMTT(20) DEF x
  <2>5. fqmul(z, x) \in Int /\ -3328 <= fqmul(z, x) /\ fqmul(z, x) <= 3328
    BY <2>3, FqmulLeft, SMTT(20)
  <2> QED BY <2>4, <2>5, SMTT(20)
<1>8. \A i \in Index : f[i] \in Int /\ -3328 <= f[i] /\ f[i] <= 3328
  BY <1>5, <1>6, <1>7, IndexFact, SMTT(20)
<1>9. f = [i \in Index |-> f[i]] BY SMTT(20) DEF InvNttBlock
<1> HIDE DEF f
<1>10. f \in [Index -> Int] BY <1>8, <1>9, SMTT(20)
<1>11. Small(f) BY <1>8, <1>10, SMTT(20) DEF Small
<1> QED BY <1>4, <1>11, SMTT(20) DEF f

---------------------------------------------------------------------------
\* poly_reduce of 16-bit coefficients.
LEMMA ReduceBound ==
  ASSUME NEW q, \A i \in Index : q[i] \in Int16Range
  PROVE  Centred(poly_reduce(q))
<1>1. \A i \in Index : /\ barrett_reduce(q[i]) \in Int
                       /\ -1664 <= barrett_reduce(q[i]) /\ barrett_reduce(q[i]) <= 1664
  BY BarrettCorrect, SMTT(20)
<1> QED BY <1>1, SMTT(20) DEF poly_reduce, Centred

LEMMA PairZetaRange ==
  ASSUME NEW n \in Nat, n <= 127
  PROVE  PairZeta(n) \in Int /\ -1664 <= PairZeta(n) /\ PairZeta(n) <= 1664
<1> DEFINE m == 64 + n \div 2
<1>1. m \in Nat /\ m <= 127 BY SMTT(20)
<1>2. PairZeta(n) = zeta(m) \/ PairZeta(n) = -zeta(m) BY SMTT(20) DEF PairZeta
<1> HIDE DEF m
<1>3. zeta(m) \in Int /\ -1664 <= zeta(m) /\ zeta(m) <= 1664 BY <1>1, ZetaRange, SMTT(20)
<1> QED BY <1>2, <1>3, SMTT(20)

\* One coefficient of a product of two terms of degree one, before it is stored.
LEMMA PairBound ==
  ASSUME NEW f0 \in Int, 0 <= f0, f0 <= 4095, NEW f1 \in Int, 0 <= f1, f1 <= 4095,
         NEW g0 \in Int, -1664 <= g0, g0 <= 1664, NEW g1 \in Int, -1664 <= g1, g1 <= 1664,
         NEW z \in Int, -1664 <= z, z <= 1664
  PROVE  /\ fqmul(fqmul(f1, g1), z) + fqmul(f0, g0) \in Int
         /\ -6656 <= fqmul(fqmul(f1, g1), z) + fqmul(f0, g0)
         /\ fqmul(fqmul(f1, g1), z) + fqmul(f0, g0) <= 6656
         /\ fqmul(f0, g1) + fqmul(f1, g0) \in Int
         /\ -6656 <= fqmul(f0, g1) + fqmul(f1, g0)
         /\ fqmul(f0, g1) + fqmul(f1, g0) <= 6656
<1> DEFINE c == fqmul(f1, g1)
           d == fqmul(f0, g0)
           u == fqmul(f0, g1)
           v == fqmul(f1, g0)
<1>1. c \in Int /\ -3328 <= c /\ c <= 3328 BY FqmulRight, SMTT(20)
<1>2. d \in Int /\ -3328 <= d /\ d <= 3328 BY FqmulRight, SMTT(20)
<1>3. u \in Int /\ -3328 <= u /\ u <= 3328 BY FqmulRight, SMTT(20)
<1>4. v \in Int /\ -3328 <= v /\ v <= 3328 BY FqmulRight, SMTT(20)
<1> DEFINE w == fqmul(c, z)
<1> HIDE DEF c, d, u, v
<1>5. w \in Int /\ -3328 <= w /\ w <= 3328 BY <1>1, FqmulLeft, SMTT(20)
<1> HIDE DEF w
<1>6. /\ w + d \in Int /\ -6656 <= w + d /\ w + d <= 6656
      /\ u + v \in Int /\ -6656 <= u + v /\ u + v <= 6656
  BY <1>2, <1>3, <1>4, <1>5, SMTT(20)
<1> QED BY <1>6, SMTT(20) DEF w, c, d, u, v

\* Coefficient i of the product of f and g, before it is stored.
BaseSum(f, g, i) ==
    LET e == 2 * (i \div 2)
    IN  IF i % 2 = 0
        THEN fqmul(fqmul(f[e + 1], g[e + 1]), PairZeta(i \div 2)) + fqmul(f[e], g[e])
        ELSE fqmul(f[e], g[e + 1]) + fqmul(f[e + 1], g[e])

LEMMA BaseSumBound ==
  ASSUME NEW f, Parsed(f), NEW g, Centred(g), NEW i \in Index
  PROVE  BaseSum(f, g, i) \in Int /\ -6656 <= BaseSum(f, g, i) /\ BaseSum(f, g, i) <= 6656
<1> DEFINE n == i \div 2
           e == 2 * n
<1>1. i \in Int /\ 0 <= i /\ i <= 255 BY IndexFact, SMTT(20)
<1>2. n \in Nat /\ n <= 127 BY <1>1, SMTT(20)
<1>3. e \in Index /\ e + 1 \in Index
  <2> HIDE DEF n
  <2> QED BY <1>2, IndexFact, SMTT(20)
<1> DEFINE z == PairZeta(n)
<1>4. z \in Int /\ -1664 <= z /\ z <= 1664
  <2> HIDE DEF n
  <2> QED BY <1>2, PairZetaRange, SMTT(20)
<1> DEFINE f0 == f[e]
           f1 == f[e + 1]
           g0 == g[e]
           g1 == g[e + 1]
<1>5. f0 \in Int /\ 0 <= f0 /\ f0 <= 4095 /\ f1 \in Int /\ 0 <= f1 /\ f1 <= 4095
  BY <1>3, SMTT(20) DEF Parsed
<1>6. g0 \in Int /\ -1664 <= g0 /\ g0 <= 1664 /\ g1 \in Int /\ -1664 <= g1 /\ g1 <= 1664
  BY <1>3, SMTT(20) DEF Centred
<1>7. \/ BaseSum(f, g, i) = fqmul(fqmul(f1, g1), z) + fqmul(f0, g0)
      \/ BaseSum(f, g, i) = fqmul(f0, g1) + fqmul(f1, g0)
  BY SMTT(20) DEF BaseSum
<1> HIDE DEF f0, f1, g0, g1, z, e, n
<1> DEFINE w == fqmul(fqmul(f1, g1), z) + fqmul(f0, g0)
           u == fqmul(f0, g1) + fqmul(f1, g0)
<1>8. w \in Int /\ -6656 <= w /\ w <= 6656 /\ u \in Int /\ -6656 <= u /\ u <= 6656
  BY <1>4, <1>5, <1>6, PairBound, SMTT(20)
<1> QED BY <1>7, <1>8, SMTT(20)

\* The sum of three equal rows, reduced.
LEMMA ProductBound ==
  ASSUME NEW f, Parsed(f), NEW g, Centred(g)
  PROVE  /\ \A i \in Index : 3 * BaseSum(f, g, i) \in Int16Range
         /\ Small(polyvec_basemul_acc_montgomery([i \in Rows |-> f], [i \in Rows |-> g]))
<1> DEFINE t == poly_basemul_montgomery(f, g)
           u == poly_add(poly_add(t, t), t)
<1>1. ASSUME NEW i \in Index
      PROVE  3 * BaseSum(f, g, i) \in Int16Range /\ u[i] \in Int16Range
  <2>1. t[i] = Int16(BaseSum(f, g, i))
    BY SMTT(30) DEF poly_basemul_montgomery, basemul, BaseSum
  <2> DEFINE w == BaseSum(f, g, i)
  <2>2. w \in Int /\ -6656 <= w /\ w <= 6656 BY BaseSumBound, SMTT(20)
  <2> HIDE DEF t, w
  <2>3. t[i] = w BY <2>1, <2>2, Int16Same, SMTT(20) DEF w
  <2>4. u[i] = Int16(Int16(w + w) + w) BY <2>3, SMTT(20) DEF poly_add
  <2> HIDE DEF u
  <2>5. w + w \in Int /\ -13312 <= w + w /\ w + w <= 13312 /\ 3 * w = (w + w) + w
        /\ 3 * w \in Int /\ -19968 <= 3 * w /\ 3 * w <= 19968
    BY <2>2, SMTT(20)
  <2> DEFINE d == w + w
             e == 3 * w
  <2>6. Int16(d) = d
    <3> HIDE DEF d
    <3>1. d \in Int /\ -32768 <= d /\ d <= 32767 BY <2>5, SMTT(20) DEF d
    <3> QED BY <3>1, Int16Same, SMTT(20)
  <2>7. Int16(e) = e
    <3> HIDE DEF e
    <3>1. e \in Int /\ -32768 <= e /\ e <= 32767 BY <2>5, SMTT(20) DEF e
    <3> QED BY <3>1, Int16Same, SMTT(20)
  <2>8. u[i] = e BY <2>4, <2>5, <2>6, <2>7, SMTT(20)
  <2>9. e \in Int16Range BY <2>5, SMTT(20) DEF Int16Range
  <2> QED BY <2>8, <2>9, SMTT(20) DEF w
<1>2. polyvec_basemul_acc_montgomery([i \in Rows |-> f], [i \in Rows |-> g]) = poly_reduce(u)
  BY SMTT(20) DEF polyvec_basemul_acc_montgomery, Rows, KYBER_K
<1> HIDE DEF u
<1>3. Centred(poly_reduce(u)) BY <1>1, ReduceBound, SMTT(20)
<1>4. Small(poly_reduce(u)) BY <1>3, SMTT(20) DEF Small, Centred
<1> QED BY <1>1, <1>2, <1>4, SMTT(20)

---------------------------------------------------------------------------
(* The inductive invariant.  In ntt a coefficient grows by at most q in a  *)
(* layer: the ones before start have been through the present layer, the   *)
(* others have not.  start and k move together, which keeps k below 128.   *)
Grows(f, s, B) ==
    /\ f \in [Index -> Int]
    /\ \A i \in Index : /\ i < s => -(B + 3329) <= f[i] /\ f[i] <= B + 3329
                        /\ i >= s => -B <= f[i] /\ f[i] <= B

Layer(l, B) ==
    /\ len = l /\ start \in Nat /\ k \in Nat
    /\ start + 2 * l <= 256 /\ 2 * l * k = 256 + start
    /\ Grows(r, start, B)

NttInv ==
    pc = "ntt" =>
        \/ Layer(128, 3329) \/ Layer(64, 6658) \/ Layer(32, 9987) \/ Layer(16, 13316)
        \/ Layer(8, 16645) \/ Layer(4, 19974) \/ Layer(2, 23303)
        \/ len = 1 /\ Grows(r, 0, 26632)

InvLayer(l) ==
    /\ len = l /\ start \in Nat /\ k \in Nat
    /\ start + 2 * l <= 256 /\ 2 * l * (k + 1) = 512 - start

InvNttInv ==
    pc = "invntt" =>
        /\ Small(r)
        /\ \/ InvLayer(2) \/ InvLayer(4) \/ InvLayer(8) \/ InvLayer(16) \/ InvLayer(32)
           \/ InvLayer(64) \/ InvLayer(128) \/ len = 256

Inv ==
    /\ NttInv
    /\ pc = "product" => Centred(r)
    /\ InvNttInv
    /\ Parsed(h)

LEMMA InitInv == Init => Inv
<1> SUFFICES ASSUME Init PROVE Inv OBVIOUS
<1>1. a \in [Index -> (-KYBER_Q)..KYBER_Q] /\ h \in [Index -> 0..4095]
  BY InputsAssumption, FactorsAssumption, SMTT(20) DEF Init
<1>2. \A i \in Index : a[i] \in Int /\ -3329 <= a[i] /\ a[i] <= 3329
  <2>1. KYBER_Q \in Int BY DEF KYBER_Q
  <2>2. \A i \in Index : a[i] \in Int /\ -KYBER_Q <= a[i] /\ a[i] <= KYBER_Q
    BY <1>1, <2>1, SMTT(20)
  <2> QED BY <2>2, SMTT(20) DEF KYBER_Q
<1>3. a \in [Index -> Int] BY <1>1, <1>2, SMTT(20)
<1>4. \A i \in Index : i >= 0 /\ ~(i < 0) BY IndexFact, SMTT(20)
<1>5. r = a /\ k = 1 /\ len = 128 /\ start = 0 /\ pc = "ntt" BY SMTT(20) DEF Init
<1>6. Grows(r, start, 3329) BY <1>2, <1>3, <1>4, <1>5, SMTT(20) DEF Grows
<1>7. Layer(128, 3329) BY <1>5, <1>6, SMTT(20) DEF Layer
<1>8. NttInv BY <1>7 DEF NttInv
<1>9. Parsed(h)
  <2> DEFINE top == 4095
  <2>0. h \in [Index -> 0..top] /\ top \in Int BY <1>1
  <2> HIDE DEF top
  <2>1. \A i \in Index : h[i] \in Int /\ 0 <= h[i] /\ h[i] <= top BY <2>0, SMTT(20)
  <2>2. h \in [Index -> Int] BY <2>0, <2>1, SMTT(20)
  <2>3. \A i \in Index : 0 <= h[i] /\ h[i] <= 4095 BY <2>1 DEF top
  <2> QED BY <2>2, <2>3 DEF Parsed
<1> QED BY <1>5, <1>8, <1>9, SMTT(20) DEF Inv, InvNttInv

\* One turn of the loop over start, whatever the layer.
LEMMA GrowStep ==
  ASSUME NEW q, NEW s \in Nat, NEW l \in Nat, NEW n \in Nat, NEW B \in Nat,
         B <= 23303, s + 2 * l <= 256, n <= 127, Grows(q, s, B)
  PROVE  /\ \A i \in Lower(s, l) : /\ q[i] + fqmul(zeta(n), q[i + l]) \in Int16Range
                                   /\ q[i] - fqmul(zeta(n), q[i + l]) \in Int16Range
         /\ Grows(NttBlock(q, s, l, zeta(n)), s + 2 * l, B)
<1> DEFINE z == zeta(n)
           f == NttBlock(q, s, l, z)
<1>1. z \in Int /\ -1664 <= z /\ z <= 1664 BY ZetaRange, SMTT(20)
<1> HIDE DEF z
<1>2. q \in [Index -> Int] BY DEF Grows
<1>3. \A i \in Index : /\ i < s => -(B + 3329) <= q[i] /\ q[i] <= B + 3329
                       /\ i >= s => -B <= q[i] /\ q[i] <= B
  BY DEF Grows
<1>4. \A i \in Index : i >= s => -B <= q[i] /\ q[i] <= B BY <1>3
<1>5. /\ \A i \in Lower(s, l) : /\ q[i] + fqmul(z, q[i + l]) \in Int16Range
                                /\ q[i] - fqmul(z, q[i + l]) \in Int16Range
      /\ f \in [Index -> Int]
      /\ \A i \in Index : i < s \/ i >= s + 2 * l => f[i] = q[i]
      /\ \A i \in Index : i >= s /\ i < s + 2 * l => -(B + 3329) <= f[i] /\ f[i] <= B + 3329
  BY <1>1, <1>2, <1>4, NttBlockBound, SMTT(30)
<1> HIDE DEF f
<1>6. Grows(f, s + 2 * l, B)
  BY <1>3, <1>5, IndexFact, SMTT(20) DEF Grows
<1> QED BY <1>5, <1>6 DEF f, z

\* At the end of a layer every coefficient has grown.
LEMMA GrownAll ==
  ASSUME NEW q, NEW B \in Nat, Grows(q, 256, B)
  PROVE  Grows(q, 0, B + 3329)
  BY IndexFact, SMTT(20) DEF Grows

\* A turn stays in its layer, or it was the last one.
LEMMA LayerStep ==
  ASSUME NEW l \in Nat, l >= 2, NEW B \in Nat, B <= 23303, Layer(l, B), k <= 127, NttTurn
  PROVE  /\ k' = k + 1
         /\ \/ /\ start + 2 * l < 256 /\ len' = l /\ start' = start + 2 * l
               /\ Grows(r', start', B)
            \/ /\ start + 2 * l = 256 /\ len' = l \div 2 /\ start' = 0
               /\ Grows(r', start', B + 3329)
<1>1. len = l /\ start \in Nat /\ k \in Nat /\ start + 2 * l <= 256 /\ Grows(r, start, B)
  BY SMTT(20) DEF Layer
<1> DEFINE f == NttBlock(r, start, l, zeta(k))
<1>2. Grows(f, start + 2 * l, B) BY <1>1, GrowStep, SMTT(20)
<1>3. /\ r' = f /\ k' = k + 1
      /\ start' = IF start + 2 * l < 256 THEN start + 2 * l ELSE 0
      /\ len' = IF start + 2 * l >= 256 THEN l \div 2 ELSE l
  BY <1>1, SMTT(20) DEF NttTurn, NextStart, Wraps, KYBER_N
<1> HIDE DEF f
<1>4. CASE start + 2 * l < 256
  <2>1. start' = start + 2 * l /\ len' = l BY <1>1, <1>3, <1>4, SMTT(20)
  <2> QED BY <1>2, <1>3, <1>4, <2>1
<1>5. CASE start + 2 * l = 256
  <2>1. start' = 0 /\ len' = l \div 2 BY <1>1, <1>3, <1>5, SMTT(20)
  <2>2. Grows(f, 256, B) BY <1>2, <1>5
  <2>3. Grows(f, 0, B + 3329) BY <2>2, GrownAll
  <2> QED BY <1>3, <1>5, <2>1, <2>3
<1> QED BY <1>1, <1>4, <1>5, SMTT(20)

LEMMA NttTurnInv ==
  ASSUME NttInv, NttTurn
  PROVE  NttInv'
<1>0. pc = "ntt" /\ len >= 2 /\ pc' = "ntt" BY SMTT(20) DEF NttTurn
<1>1. CASE Layer(128, 3329)
  <2>1. k <= 127 BY <1>1, SMTT(20) DEF Layer
  <2>2. Layer(128, 3329)' \/ Layer(64, 6658)'
    <3>1. /\ k' = k + 1
          /\ \/ /\ start + 256 < 256 /\ len' = 128 /\ start' = start + 256
                /\ Grows(r', start', 3329)
             \/ /\ start + 256 = 256 /\ len' = 64 /\ start' = 0
                /\ Grows(r', start', 6658)
      BY <1>1, <2>1, LayerStep, SMTT(20)
    <3>2. start \in Nat /\ k \in Nat /\ 256 * k = 256 + start BY <1>1, SMTT(20) DEF Layer
    <3> QED BY <3>1, <3>2, SMTT(20) DEF Layer
  <2> QED BY <2>2 DEF NttInv
<1>2. CASE Layer(64, 6658)
  <2>1. k <= 127 BY <1>2, SMTT(20) DEF Layer
  <2>2. Layer(64, 6658)' \/ Layer(32, 9987)'
    <3>1. /\ k' = k + 1
          /\ \/ /\ start + 128 < 256 /\ len' = 64 /\ start' = start + 128
                /\ Grows(r', start', 6658)
             \/ /\ start + 128 = 256 /\ len' = 32 /\ start' = 0
                /\ Grows(r', start', 9987)
      BY <1>2, <2>1, LayerStep, SMTT(20)
    <3>2. start \in Nat /\ k \in Nat /\ 128 * k = 256 + start BY <1>2, SMTT(20) DEF Layer
    <3> QED BY <3>1, <3>2, SMTT(20) DEF Layer
  <2> QED BY <2>2 DEF NttInv
<1>3. CASE Layer(32, 9987)
  <2>1. k <= 127 BY <1>3, SMTT(20) DEF Layer
  <2>2. Layer(32, 9987)' \/ Layer(16, 13316)'
    <3>1. /\ k' = k + 1
          /\ \/ /\ start + 64 < 256 /\ len' = 32 /\ start' = start + 64
                /\ Grows(r', start', 9987)
             \/ /\ start + 64 = 256 /\ len' = 16 /\ start' = 0
                /\ Grows(r', start', 13316)
      BY <1>3, <2>1, LayerStep, SMTT(20)
    <3>2. start \in Nat /\ k \in Nat /\ 64 * k = 256 + start BY <1>3, SMTT(20) DEF Layer
    <3> QED BY <3>1, <3>2, SMTT(20) DEF Layer
  <2> QED BY <2>2 DEF NttInv
<1>4. CASE Layer(16, 13316)
  <2>1. k <= 127 BY <1>4, SMTT(20) DEF Layer
  <2>2. Layer(16, 13316)' \/ Layer(8, 16645)'
    <3>1. /\ k' = k + 1
          /\ \/ /\ start + 32 < 256 /\ len' = 16 /\ start' = start + 32
                /\ Grows(r', start', 13316)
             \/ /\ start + 32 = 256 /\ len' = 8 /\ start' = 0
                /\ Grows(r', start', 16645)
      BY <1>4, <2>1, LayerStep, SMTT(20)
    <3>2. start \in Nat /\ k \in Nat /\ 32 * k = 256 + start BY <1>4, SMTT(20) DEF Layer
    <3> QED BY <3>1, <3>2, SMTT(20) DEF Layer
  <2> QED BY <2>2 DEF NttInv
<1>5. CASE Layer(8, 16645)
  <2>1. k <= 127 BY <1>5, SMTT(20) DEF Layer
  <2>2. Layer(8, 16645)' \/ Layer(4, 19974)'
    <3>1. /\ k' = k + 1
          /\ \/ /\ start + 16 < 256 /\ len' = 8 /\ start' = start + 16
                /\ Grows(r', start', 16645)
             \/ /\ start + 16 = 256 /\ len' = 4 /\ start' = 0
                /\ Grows(r', start', 19974)
      BY <1>5, <2>1, LayerStep, SMTT(20)
    <3>2. start \in Nat /\ k \in Nat /\ 16 * k = 256 + start BY <1>5, SMTT(20) DEF Layer
    <3> QED BY <3>1, <3>2, SMTT(20) DEF Layer
  <2> QED BY <2>2 DEF NttInv
<1>6. CASE Layer(4, 19974)
  <2>1. k <= 127 BY <1>6, SMTT(20) DEF Layer
  <2>2. Layer(4, 19974)' \/ Layer(2, 23303)'
    <3>1. /\ k' = k + 1
          /\ \/ /\ start + 8 < 256 /\ len' = 4 /\ start' = start + 8
                /\ Grows(r', start', 19974)
             \/ /\ start + 8 = 256 /\ len' = 2 /\ start' = 0
                /\ Grows(r', start', 23303)
      BY <1>6, <2>1, LayerStep, SMTT(20)
    <3>2. start \in Nat /\ k \in Nat /\ 8 * k = 256 + start BY <1>6, SMTT(20) DEF Layer
    <3> QED BY <3>1, <3>2, SMTT(20) DEF Layer
  <2> QED BY <2>2 DEF NttInv
<1>7. CASE Layer(2, 23303)
  <2>1. k <= 127 BY <1>7, SMTT(20) DEF Layer
  <2>2. Layer(2, 23303)' \/ (len = 1 /\ Grows(r, 0, 26632))'
    <3>1. /\ k' = k + 1
          /\ \/ /\ start + 4 < 256 /\ len' = 2 /\ start' = start + 4
                /\ Grows(r', start', 23303)
             \/ /\ start + 4 = 256 /\ len' = 1 /\ start' = 0
                /\ Grows(r', start', 26632)
      BY <1>7, <2>1, LayerStep, SMTT(20)
    <3>2. start \in Nat /\ k \in Nat /\ 4 * k = 256 + start BY <1>7, SMTT(20) DEF Layer
    <3> QED BY <3>1, <3>2, SMTT(20) DEF Layer
  <2> QED BY <2>2 DEF NttInv
<1> QED
  <2>1. ~(len = 1) BY <1>0, SMTT(20)
  <2> QED BY <1>0, <1>1, <1>2, <1>3, <1>4, <1>5, <1>6, <1>7, <2>1 DEF NttInv

LEMMA InvStart ==
  ASSUME NEW l \in Nat, l >= 2, InvLayer(l), k <= 127, InvNttTurn, Small(r)
  PROVE  /\ Small(r') /\ k' = k - 1
         /\ \/ start + 2 * l < 256 /\ len' = l /\ start' = start + 2 * l
            \/ start + 2 * l = 256 /\ len' = 2 * l /\ start' = 0
<1>1. len = l /\ start \in Nat /\ k \in Nat /\ start + 2 * l <= 256
  BY SMTT(20) DEF InvLayer
<1> DEFINE z == zeta(k)
<1>2. z \in Int /\ -1664 <= z /\ z <= 1664 BY <1>1, ZetaRange, SMTT(20)
<1>3. r' = InvNttBlock(r, start, l, z) BY <1>1 DEF InvNttTurn
<1> HIDE DEF z
<1>4. Small(r') BY <1>1, <1>2, <1>3, InvNttBlockBound, SMTT(20)
<1>5. /\ k' = k - 1
      /\ start' = IF start + 2 * l < 256 THEN start + 2 * l ELSE 0
      /\ len' = IF start + 2 * l >= 256 THEN l * 2 ELSE l
  BY <1>1, SMTT(20) DEF InvNttTurn, NextStart, Wraps, KYBER_N
<1> QED BY <1>1, <1>4, <1>5, SMTT(20)

LEMMA InvNttTurnInv ==
  ASSUME InvNttInv, InvNttTurn
  PROVE  InvNttInv'
<1>0. pc = "invntt" /\ len <= 128 /\ pc' = "invntt" /\ Small(r)
  BY SMTT(20) DEF InvNttTurn, InvNttInv
<1>1. CASE InvLayer(2)
  <2>1. start \in Nat /\ k \in Nat /\ 4 * (k + 1) = 512 - start BY <1>1, SMTT(20) DEF InvLayer
  <2>2. k <= 127 BY <2>1, SMTT(20)
  <2>3. /\ Small(r') /\ k' = k - 1
        /\ \/ start + 4 < 256 /\ len' = 2 /\ start' = start + 4
           \/ start + 4 = 256 /\ len' = 4 /\ start' = 0
    BY <1>0, <1>1, <2>2, InvStart, SMTT(20)
  <2>4. InvLayer(2)' \/ InvLayer(4)' BY <2>1, <2>3, SMTT(20) DEF InvLayer
  <2> QED BY <2>3, <2>4 DEF InvNttInv
<1>2. CASE InvLayer(4)
  <2>1. start \in Nat /\ k \in Nat /\ 8 * (k + 1) = 512 - start BY <1>2, SMTT(20) DEF InvLayer
  <2>2. k <= 127 BY <2>1, SMTT(20)
  <2>3. /\ Small(r') /\ k' = k - 1
        /\ \/ start + 8 < 256 /\ len' = 4 /\ start' = start + 8
           \/ start + 8 = 256 /\ len' = 8 /\ start' = 0
    BY <1>0, <1>2, <2>2, InvStart, SMTT(20)
  <2>4. InvLayer(4)' \/ InvLayer(8)' BY <2>1, <2>3, SMTT(20) DEF InvLayer
  <2> QED BY <2>3, <2>4 DEF InvNttInv
<1>3. CASE InvLayer(8)
  <2>1. start \in Nat /\ k \in Nat /\ 16 * (k + 1) = 512 - start BY <1>3, SMTT(20) DEF InvLayer
  <2>2. k <= 127 BY <2>1, SMTT(20)
  <2>3. /\ Small(r') /\ k' = k - 1
        /\ \/ start + 16 < 256 /\ len' = 8 /\ start' = start + 16
           \/ start + 16 = 256 /\ len' = 16 /\ start' = 0
    BY <1>0, <1>3, <2>2, InvStart, SMTT(20)
  <2>4. InvLayer(8)' \/ InvLayer(16)' BY <2>1, <2>3, SMTT(20) DEF InvLayer
  <2> QED BY <2>3, <2>4 DEF InvNttInv
<1>4. CASE InvLayer(16)
  <2>1. start \in Nat /\ k \in Nat /\ 32 * (k + 1) = 512 - start BY <1>4, SMTT(20) DEF InvLayer
  <2>2. k <= 127 BY <2>1, SMTT(20)
  <2>3. /\ Small(r') /\ k' = k - 1
        /\ \/ start + 32 < 256 /\ len' = 16 /\ start' = start + 32
           \/ start + 32 = 256 /\ len' = 32 /\ start' = 0
    BY <1>0, <1>4, <2>2, InvStart, SMTT(20)
  <2>4. InvLayer(16)' \/ InvLayer(32)' BY <2>1, <2>3, SMTT(20) DEF InvLayer
  <2> QED BY <2>3, <2>4 DEF InvNttInv
<1>5. CASE InvLayer(32)
  <2>1. start \in Nat /\ k \in Nat /\ 64 * (k + 1) = 512 - start BY <1>5, SMTT(20) DEF InvLayer
  <2>2. k <= 127 BY <2>1, SMTT(20)
  <2>3. /\ Small(r') /\ k' = k - 1
        /\ \/ start + 64 < 256 /\ len' = 32 /\ start' = start + 64
           \/ start + 64 = 256 /\ len' = 64 /\ start' = 0
    BY <1>0, <1>5, <2>2, InvStart, SMTT(20)
  <2>4. InvLayer(32)' \/ InvLayer(64)' BY <2>1, <2>3, SMTT(20) DEF InvLayer
  <2> QED BY <2>3, <2>4 DEF InvNttInv
<1>6. CASE InvLayer(64)
  <2>1. start \in Nat /\ k \in Nat /\ 128 * (k + 1) = 512 - start BY <1>6, SMTT(20) DEF InvLayer
  <2>2. k <= 127 BY <2>1, SMTT(20)
  <2>3. /\ Small(r') /\ k' = k - 1
        /\ \/ start + 128 < 256 /\ len' = 64 /\ start' = start + 128
           \/ start + 128 = 256 /\ len' = 128 /\ start' = 0
    BY <1>0, <1>6, <2>2, InvStart, SMTT(20)
  <2>4. InvLayer(64)' \/ InvLayer(128)' BY <2>1, <2>3, SMTT(20) DEF InvLayer
  <2> QED BY <2>3, <2>4 DEF InvNttInv
<1>7. CASE InvLayer(128)
  <2>1. start \in Nat /\ k \in Nat /\ 256 * (k + 1) = 512 - start BY <1>7, SMTT(20) DEF InvLayer
  <2>2. k <= 127 BY <2>1, SMTT(20)
  <2>3. /\ Small(r') /\ k' = k - 1
        /\ \/ start + 256 < 256 /\ len' = 128 /\ start' = start + 256
           \/ start + 256 = 256 /\ len' = 256 /\ start' = 0
    BY <1>0, <1>7, <2>2, InvStart, SMTT(20)
  <2>4. InvLayer(128)' \/ (len = 256)' BY <2>1, <2>3, SMTT(20) DEF InvLayer
  <2> QED BY <2>3, <2>4 DEF InvNttInv
<1> QED
  <2>1. ~(len = 256) BY <1>0, SMTT(20)
  <2> QED BY <1>0, <1>1, <1>2, <1>3, <1>4, <1>5, <1>6, <1>7, <2>1 DEF InvNttInv

LEMMA ReduceStep ==
  ASSUME NttInv, Reduce
  PROVE  Centred(r')
<1>1. pc = "ntt" /\ len < 2 /\ r' = poly_reduce(r) BY SMTT(20) DEF Reduce
<1>2. len = 1 /\ Grows(r, 0, 26632) BY <1>1, SMTT(20) DEF NttInv, Layer
<1>3. \A i \in Index : r[i] \in Int16Range
  BY <1>2, IndexFact, SMTT(20) DEF Grows, Int16Range
<1> QED BY <1>1, <1>3, ReduceBound

LEMMA StepInv == Inv /\ [Next]_vars => Inv'
<1> SUFFICES ASSUME Inv, [Next]_vars PROVE Inv' OBVIOUS
<1>0. NttInv /\ (pc = "product" => Centred(r)) /\ InvNttInv /\ Parsed(h) BY DEF Inv
<1>1. CASE NttTurn
  <2>1. NttInv' BY <1>0, <1>1, NttTurnInv
  <2>2. pc' = "ntt" /\ h' = h BY <1>1 DEF NttTurn
  <2> QED BY <1>0, <2>1, <2>2 DEF Inv, InvNttInv
<1>2. CASE Reduce
  <2>1. Centred(r') BY <1>0, <1>2, ReduceStep
  <2>2. pc' = "product" /\ h' = h BY <1>2 DEF Reduce
  <2> QED BY <1>0, <2>1, <2>2 DEF Inv, InvNttInv, NttInv
<1>3. CASE Product
  <2>1. /\ Centred(r) /\ pc' = "invntt" /\ h' = h /\ len' = 2 /\ start' = 0 /\ k' = 127
        /\ r' = polyvec_basemul_acc_montgomery([i \in Rows |-> h], [i \in Rows |-> r])
    BY <1>0, <1>3 DEF Product
  <2>2. Small(r') BY <1>0, <2>1, ProductBound
  <2>3. InvLayer(2)' BY <2>1, SMTT(20) DEF InvLayer
  <2> QED BY <1>0, <2>1, <2>2, <2>3 DEF Inv, InvNttInv, NttInv
<1>4. CASE InvNttTurn
  <2>1. InvNttInv' BY <1>0, <1>4, InvNttTurnInv
  <2>2. pc' = "invntt" /\ h' = h BY <1>4 DEF InvNttTurn
  <2> QED BY <1>0, <2>1, <2>2 DEF Inv, NttInv
<1>5. CASE Scale \/ ToBytes \/ FromBytes \/ Compress \/ Decompress \/ ToMsg \/ FromMsg
  <2>1. h' = h /\ pc' \in {"multiplied", "bytes", "parsed", "compressed10", "compressed4",
                           "decompressed10", "decompressed4", "message", "decompressed1"}
    BY <1>5 DEF Scale, ToBytes, FromBytes, Compress, Decompress, ToMsg, FromMsg
  <2> QED BY <1>0, <2>1 DEF Inv, InvNttInv, NttInv
<1>6. CASE Ended \/ UNCHANGED vars
  <2>1. UNCHANGED vars BY <1>6 DEF Ended
  <2> QED BY <1>0, <2>1 DEF vars, Inv, InvNttInv, NttInv, InvLayer, Layer
<1> QED BY <1>1, <1>2, <1>3, <1>4, <1>5, <1>6 DEF Next

\* The sums of the next turn, whatever the layer.
LEMMA LayerNoWrap ==
  ASSUME NEW l \in Nat, NEW B \in Nat, B <= 23303, Layer(l, B), k <= 127
  PROVE  \A i \in Lower(start, len) : /\ r[i] + fqmul(zeta(k), r[i + len]) \in Int16Range
                                      /\ r[i] - fqmul(zeta(k), r[i + len]) \in Int16Range
<1>1. len = l /\ start \in Nat /\ k \in Nat /\ start + 2 * l <= 256 /\ Grows(r, start, B)
  BY SMTT(20) DEF Layer
<1> QED BY <1>1, GrowStep

LEMMA InvNoWrap ==
  ASSUME NEW l \in Nat, InvLayer(l), Small(r)
  PROVE  \A i \in Lower(start, len) : /\ r[i] + r[i + len] \in Int16Range
                                      /\ r[i + len] - r[i] \in Int16Range
<1>1. len = l /\ start \in Nat /\ start + 2 * l <= 256 BY SMTT(20) DEF InvLayer
<1>2. 0 \in Int /\ -1664 <= 0 /\ 0 <= 1664 BY SMTT(20)
<1> QED BY <1>1, <1>2, InvNttBlockBound, SMTT(20)

LEMMA InvImplies == Inv => NoWrap
<1> SUFFICES ASSUME Inv PROVE NoWrap OBVIOUS
<1>0. NttInv /\ (pc = "product" => Centred(r)) /\ InvNttInv /\ Parsed(h) BY DEF Inv
<1>1. ASSUME pc = "ntt", len >= 2
      PROVE  \A i \in Lower(start, len) : /\ r[i] + fqmul(zeta(k), r[i + len]) \in Int16Range
                                          /\ r[i] - fqmul(zeta(k), r[i + len]) \in Int16Range
  <2>1. CASE Layer(128, 3329)
    <3>1. k <= 127 BY <2>1, SMTT(20) DEF Layer
    <3> QED BY <2>1, <3>1, LayerNoWrap, SMTT(20)
  <2>2. CASE Layer(64, 6658)
    <3>1. k <= 127 BY <2>2, SMTT(20) DEF Layer
    <3> QED BY <2>2, <3>1, LayerNoWrap, SMTT(20)
  <2>3. CASE Layer(32, 9987)
    <3>1. k <= 127 BY <2>3, SMTT(20) DEF Layer
    <3> QED BY <2>3, <3>1, LayerNoWrap, SMTT(20)
  <2>4. CASE Layer(16, 13316)
    <3>1. k <= 127 BY <2>4, SMTT(20) DEF Layer
    <3> QED BY <2>4, <3>1, LayerNoWrap, SMTT(20)
  <2>5. CASE Layer(8, 16645)
    <3>1. k <= 127 BY <2>5, SMTT(20) DEF Layer
    <3> QED BY <2>5, <3>1, LayerNoWrap, SMTT(20)
  <2>6. CASE Layer(4, 19974)
    <3>1. k <= 127 BY <2>6, SMTT(20) DEF Layer
    <3> QED BY <2>6, <3>1, LayerNoWrap, SMTT(20)
  <2>7. CASE Layer(2, 23303)
    <3>1. k <= 127 BY <2>7, SMTT(20) DEF Layer
    <3> QED BY <2>7, <3>1, LayerNoWrap, SMTT(20)
  <2>8. ~(len = 1) BY <1>1, SMTT(20)
  <2> QED BY <1>0, <1>1, <2>1, <2>2, <2>3, <2>4, <2>5, <2>6, <2>7, <2>8 DEF NttInv
<1>2. ASSUME pc = "product", NEW i \in Index
      PROVE  Accumulated(i) \in Int16Range
  <2>1. Accumulated(i) = 3 * BaseSum(h, r, i) BY DEF Accumulated, BaseSum
  <2> QED BY <1>0, <1>2, <2>1, ProductBound
<1>3. ASSUME pc = "invntt", len <= 128
      PROVE  \A i \in Lower(start, len) : /\ r[i] + r[i + len] \in Int16Range
                                          /\ r[i + len] - r[i] \in Int16Range
  <2>1. ~(len = 256) BY <1>3, SMTT(20)
  <2>2. Small(r) BY <1>0, <1>3 DEF InvNttInv
  <2>3. \E l \in {2, 4, 8, 16, 32, 64, 128} : InvLayer(l)
    BY <1>0, <1>3, <2>1 DEF InvNttInv
  <2>4. PICK l \in {2, 4, 8, 16, 32, 64, 128} : InvLayer(l) BY <2>3
  <2>5. l \in Nat BY SMTT(20)
  <2> QED BY <2>2, <2>4, <2>5, InvNoWrap
<1> QED BY <1>1, <1>2, <1>3 DEF NoWrap

\* No coefficient wraps in either transform or in the products, whatever
\* polynomials go in: ntt.c needs no reduction between its layers.
THEOREM NeverWraps == Spec => []NoWrap
<1>1. Init => Inv BY InitInv
<1>2. Inv /\ [Next]_vars => Inv' BY StepInv
<1>3. Inv => NoWrap BY InvImplies
<1> QED BY <1>1, <1>2, <1>3, PTL DEF Spec

---------------------------------------------------------------------------
(* The byte formats.  One coefficient first: the multiplications by the    *)
(* reciprocals divide by q exactly, for every reduced coefficient.         *)

LEMMA StandardFact ==
  \A u \in Int : -1664 <= u /\ u <= 1664 =>
     /\ Standard(u) = u % 3329 /\ Standard(u) \in Int /\ 0 <= Standard(u) /\ Standard(u) <= 3328
  BY SMTT(20) DEF Standard, KYBER_Q

LEMMA Compress4Fact ==
  \A u \in Int : -1664 <= u /\ u <= 1664 =>
     /\ Compress4(u) = Rounded(16, u % 3329)
     /\ Compress4(u) \in Int /\ 0 <= Compress4(u) /\ Compress4(u) <= 15
<1>1. ASSUME NEW x \in Int, 0 <= x, x <= 3328
      PROVE  MulShift(16 * x + 1665, 80635, 28) % 16 = ((32 * x + 3329) \div 6658) % 16
  BY <1>1, SMTT(60) DEF MulShift
<1> QED BY <1>1, StandardFact, SMTT(20) DEF Compress4, Rounded, KYBER_Q

LEMMA Compress10Fact ==
  \A u \in Int : -1664 <= u /\ u <= 1664 =>
     /\ Compress10(u) = Rounded(1024, u % 3329)
     /\ Compress10(u) \in Int /\ 0 <= Compress10(u) /\ Compress10(u) <= 1023
<1>1. ASSUME NEW x \in Int, 0 <= x, x <= 3328
      PROVE  MulShift(1024 * x + 1665, 1290167, 32) % 1024 = ((2048 * x + 3329) \div 6658) % 1024
  BY <1>1, SMTT(60) DEF MulShift
<1> QED BY <1>1, StandardFact, SMTT(20) DEF Compress10, Rounded, KYBER_Q

LEMMA Compress1Fact ==
  \A u \in Int : -1664 <= u /\ u <= 1664 =>
     /\ Compress1(u) = Rounded(2, u % 3329)
     /\ Compress1(u) \in Int /\ 0 <= Compress1(u) /\ Compress1(u) <= 1
<1>1. ASSUME NEW u \in Int, -1664 <= u, u <= 1664
      PROVE  Compress1(u) = ((4 * (u % 3329) + 3329) \div 6658) % 2
  BY <1>1, SMTT(60) DEF Compress1, MulShift
<1>2. ASSUME NEW w \in Int
      PROVE  Rounded(2, w) = ((4 * w + 3329) \div 6658) % 2 /\ Rounded(2, w) \in {0, 1}
  BY SMTT(20) DEF Rounded, KYBER_Q
<1>3. ASSUME NEW u \in Int, -1664 <= u, u <= 1664
      PROVE  /\ Compress1(u) = Rounded(2, u % 3329)
             /\ Compress1(u) \in Int /\ 0 <= Compress1(u) /\ Compress1(u) <= 1
  <2>1. PICK w \in Int : w = u % 3329 BY SMTT(20)
  <2>2. Compress1(u) = ((4 * (u % 3329) + 3329) \div 6658) % 2 BY <1>1, <1>3
  <2>3. Compress1(u) = ((4 * w + 3329) \div 6658) % 2 BY <2>1, <2>2
  <2>4. Compress1(u) = Rounded(2, w) /\ Rounded(2, w) \in {0, 1} BY <1>2, <2>3
  <2> QED BY <2>1, <2>4
<1> QED BY <1>3

\* Decompression gives the nearest point of the grid back.
LEMMA DecompressFact ==
  \A t \in Int : 0 <= t /\ t <= 1023 =>
     Decompress4(t) = Restored(16, t) /\ Decompress10(t) = Restored(1024, t)
  BY SMTT(20) DEF Decompress4, Decompress10, Restored, KYBER_Q

\* Coefficients packed two in a byte, two in three bytes and four in five bytes.
Nibble(c) == c \in Int /\ 0 <= c /\ c <= 15
Twelfth(c) == c \in Int /\ 0 <= c /\ c <= 4095
Tenth(c) == c \in Int /\ 0 <= c /\ c <= 1023

LEMMA Pack4 ==
  ASSUME NEW c, NEW d, Nibble(c), Nibble(d)
  PROVE  (c + 16 * d) % 16 = c /\ (c + 16 * d) \div 16 = d
  BY SMTT(20) DEF Nibble

LEMMA Pack12 ==
  ASSUME NEW c, NEW d, Twelfth(c), Twelfth(d)
  PROVE  /\ (c % 256) + 256 * (((c \div 256 + d * 16) % 256) % 16) = c
         /\ ((c \div 256 + d * 16) % 256) \div 16 + 16 * ((d \div 16) % 256) = d
  BY SMTT(20) DEF Twelfth

Packed10(c, d, e, g) ==
  /\ ((c % 256) + ((c \div 256 + d * 4) % 256) * 256) % 1024 = c
  /\ (((c \div 256 + d * 4) % 256) \div 4 + ((d \div 64 + e * 16) % 256) * 64) % 1024 = d
  /\ (((d \div 64 + e * 16) % 256) \div 16 + ((e \div 16 + g * 64) % 256) * 16) % 1024 = e
  /\ (((e \div 16 + g * 64) % 256) \div 64 + (g \div 4) * 4) % 1024 = g
LEMMA Pack10 ==
  ASSUME NEW c, NEW d, NEW e, NEW g, Tenth(c), Tenth(d), Tenth(e), Tenth(g)
  PROVE  Packed10(c, d, e, g)
<1>1. ((c % 256) + ((c \div 256 + d * 4) % 256) * 256) % 1024 = c BY SMTT(30) DEF Tenth
<1>2. (((c \div 256 + d * 4) % 256) \div 4 + ((d \div 64 + e * 16) % 256) * 64) % 1024 = d
  BY SMTT(30) DEF Tenth
<1>3. (((d \div 64 + e * 16) % 256) \div 16 + ((e \div 16 + g * 64) % 256) * 16) % 1024 = e
  BY SMTT(30) DEF Tenth
<1>4. (((e \div 16 + g * 64) % 256) \div 64 + (g \div 4) * 4) % 1024 = g BY SMTT(30) DEF Tenth
<1> QED BY <1>1, <1>2, <1>3, <1>4 DEF Packed10

\* A coefficient i is one of the pair j.
LEMMA PairFact ==
  \A i \in Index : \E j \in Int :
     /\ j = i \div 2 /\ 0 <= j /\ j <= 127 /\ 2 * j \in Index /\ 2 * j + 1 \in Index
     /\ \/ i = 2 * j /\ i % 2 = 0
        \/ i = 2 * j + 1 /\ i % 2 = 1
<1>1. ASSUME NEW i \in Int, 0 <= i, i <= 255
      PROVE  /\ i \div 2 \in Int /\ 0 <= i \div 2 /\ i \div 2 <= 127
             /\ \/ i = 2 * (i \div 2) /\ i % 2 = 0
                \/ i = 2 * (i \div 2) + 1 /\ i % 2 = 1
  BY <1>1, SMTT(20)
<1>2. \A j \in Int : 0 <= j /\ j <= 127 => 2 * j \in Index /\ 2 * j + 1 \in Index
  BY IndexFact, SMTT(20)
<1> QED BY <1>1, <1>2, IndexFact

LEMMA Format4 ==
  ASSUME NEW f, Centred(f), NEW i \in Index
  PROVE  poly_decompress(poly_compress(f))[i] = Restored(16, Rounded(16, f[i] % 3329))
<1>1. PICK j \in Int :
        /\ j = i \div 2 /\ 0 <= j /\ j <= 127 /\ 2 * j \in Index /\ 2 * j + 1 \in Index
        /\ \/ i = 2 * j /\ i % 2 = 0
           \/ i = 2 * j + 1 /\ i % 2 = 1
  BY PairFact
<1>2. PICK c : c = Compress4(f[2 * j]) OBVIOUS
<1>3. PICK d : d = Compress4(f[2 * j + 1]) OBVIOUS
<1>4. Nibble(c) /\ Nibble(d)
  BY <1>1, <1>2, <1>3, Compress4Fact DEF Nibble, Centred
<1>5. PICK s : s = poly_compress(f) OBVIOUS
<1>6. s[j + 1] = c + 16 * d
  <2>1. j + 1 \in 1..KYBER_POLYCOMPRESSEDBYTES BY <1>1 DEF KYBER_POLYCOMPRESSEDBYTES
  <2>2. s[j + 1] = Compress4(f[2 * (j + 1) - 2]) + 16 * Compress4(f[2 * (j + 1) - 1])
    BY <1>5, <2>1 DEF poly_compress
  <2>3. 2 * (j + 1) - 2 = 2 * j /\ 2 * (j + 1) - 1 = 2 * j + 1 BY <1>1
  <2> QED BY <1>2, <1>3, <2>2, <2>3
<1>7. (c + 16 * d) % 16 = c /\ (c + 16 * d) \div 16 = d BY <1>4, Pack4
<1>8. poly_decompress(s)[i] = Decompress4(IF i % 2 = 0 THEN s[j + 1] % 16 ELSE s[j + 1] \div 16)
  BY <1>1 DEF poly_decompress
<1>9. CASE i = 2 * j /\ i % 2 = 0
  <2>1. poly_decompress(s)[i] = Decompress4(c) BY <1>6, <1>7, <1>8, <1>9
  <2>2. Decompress4(c) = Restored(16, c) BY <1>4, DecompressFact DEF Nibble
  <2>3. c = Rounded(16, f[i] % 3329) BY <1>1, <1>2, <1>9, Compress4Fact DEF Centred
  <2> QED BY <1>5, <2>1, <2>2, <2>3
<1>10. CASE i = 2 * j + 1 /\ i % 2 = 1
  <2>1. poly_decompress(s)[i] = Decompress4(d) BY <1>6, <1>7, <1>8, <1>10
  <2>2. Decompress4(d) = Restored(16, d) BY <1>4, DecompressFact DEF Nibble
  <2>3. d = Rounded(16, f[i] % 3329) BY <1>1, <1>3, <1>10, Compress4Fact DEF Centred
  <2> QED BY <1>5, <2>1, <2>2, <2>3
<1> QED BY <1>1, <1>9, <1>10

LEMMA Format12 ==
  ASSUME NEW f, Centred(f), NEW i \in Index
  PROVE  poly_frombytes(poly_tobytes(f))[i] = f[i] % 3329
<1>1. PICK j \in Int :
        /\ j = i \div 2 /\ 0 <= j /\ j <= 127 /\ 2 * j \in Index /\ 2 * j + 1 \in Index
        /\ \/ i = 2 * j /\ i % 2 = 0
           \/ i = 2 * j + 1 /\ i % 2 = 1
  BY PairFact
<1>2. PICK c : c = Standard(f[2 * j]) OBVIOUS
<1>3. PICK d : d = Standard(f[2 * j + 1]) OBVIOUS
<1>4. /\ Twelfth(c) /\ Twelfth(d)
      /\ c = f[2 * j] % 3329 /\ d = f[2 * j + 1] % 3329
  BY <1>1, <1>2, <1>3, StandardFact DEF Twelfth, Centred
<1>5. PICK s : s = poly_tobytes(f) OBVIOUS
<1> DEFINE B == << c % 256, (c \div 256 + d * 16) % 256, (d \div 16) % 256 >>
<1>6. ASSUME NEW m \in {1, 2, 3} PROVE s[3 * j + m] = B[m]
  <2>1. PICK n \in 1..KYBER_POLYBYTES : n = 3 * j + m BY <1>1 DEF KYBER_POLYBYTES
  <2>2. (n - 1) \div 3 = j /\ ((n - 1) % 3) + 1 = m
    <3>1. j \in Int /\ m \in Int /\ 1 <= m /\ m <= 3 OBVIOUS
    <3>2. n \in Int /\ n = 3 * j + m BY <2>1 DEF KYBER_POLYBYTES
    <3> QED BY <3>1, <3>2, SMTT(20)
  <2>3. s[n] = << Standard(f[2 * j]) % 256,
                  (Standard(f[2 * j]) \div 256 + Standard(f[2 * j + 1]) * 16) % 256,
                  (Standard(f[2 * j + 1]) \div 16) % 256 >>[m]
    BY <1>5, <2>2 DEF poly_tobytes
  <2> QED BY <1>2, <1>3, <2>1, <2>3
<1>7. /\ s[3 * j + 1] = c % 256
      /\ s[3 * j + 2] = (c \div 256 + d * 16) % 256
      /\ s[3 * j + 3] = (d \div 16) % 256
  <2>1. s[3 * j + 1] = B[1] /\ s[3 * j + 2] = B[2] /\ s[3 * j + 3] = B[3] BY <1>6
  <2> QED BY <2>1
<1>8. /\ s[3 * j + 1] + 256 * (s[3 * j + 2] % 16) = c
      /\ s[3 * j + 2] \div 16 + 16 * s[3 * j + 3] = d
  BY <1>4, <1>7, Pack12
<1>9. Twelve(s, 3 * j) = << c, d >> BY <1>8 DEF Twelve
<1>10. poly_frombytes(s)[i] = Twelve(s, 3 * j)[(i % 2) + 1] BY <1>1 DEF poly_frombytes
<1>11. CASE i = 2 * j /\ i % 2 = 0
  BY <1>4, <1>5, <1>9, <1>10, <1>11
<1>12. CASE i = 2 * j + 1 /\ i % 2 = 1
  BY <1>4, <1>5, <1>9, <1>10, <1>12
<1> QED BY <1>1, <1>11, <1>12

\* A coefficient i is one of the four of group j.
LEMMA FourFact ==
  \A i \in Index : \E j \in Int :
     /\ j = i \div 4 /\ 0 <= j /\ j <= 63
     /\ 4 * j \in Index /\ 4 * j + 1 \in Index /\ 4 * j + 2 \in Index /\ 4 * j + 3 \in Index
     /\ \E m \in {0, 1, 2, 3} : i = 4 * j + m /\ i % 4 = m
<1>1. ASSUME NEW i \in Int, 0 <= i, i <= 255
      PROVE  /\ i \div 4 \in Int /\ 0 <= i \div 4 /\ i \div 4 <= 63
             /\ i % 4 \in {0, 1, 2, 3} /\ i = 4 * (i \div 4) + (i % 4)
  BY <1>1, SMTT(20)
<1>2. \A j \in Int : 0 <= j /\ j <= 63 =>
        4 * j \in Index /\ 4 * j + 1 \in Index /\ 4 * j + 2 \in Index /\ 4 * j + 3 \in Index
  BY IndexFact, SMTT(20)
<1> QED BY <1>1, <1>2, IndexFact

\* The vector that Compress packs.
Thrice(f) == [q \in Rows |-> f]
LEMMA Format10 ==
  ASSUME NEW f, Centred(f), NEW i \in Index
  PROVE  polyvec_decompress(polyvec_compress(Thrice(f)))[2][i]
           = Restored(1024, Rounded(1024, f[i] % 3329))
<1>1. PICK j \in Int :
        /\ j = i \div 4 /\ 0 <= j /\ j <= 63
        /\ 4 * j \in Index /\ 4 * j + 1 \in Index /\ 4 * j + 2 \in Index /\ 4 * j + 3 \in Index
        /\ \E m \in {0, 1, 2, 3} : i = 4 * j + m /\ i % 4 = m
  BY FourFact
<1>2. PICK c : c = Compress10(f[4 * j]) OBVIOUS
<1>3. PICK d : d = Compress10(f[4 * j + 1]) OBVIOUS
<1>4. PICK e : e = Compress10(f[4 * j + 2]) OBVIOUS
<1>5. PICK g : g = Compress10(f[4 * j + 3]) OBVIOUS
<1>6. /\ Tenth(c) /\ Tenth(d) /\ Tenth(e) /\ Tenth(g)
      /\ c = Rounded(1024, f[4 * j] % 3329) /\ d = Rounded(1024, f[4 * j + 1] % 3329)
      /\ e = Rounded(1024, f[4 * j + 2] % 3329) /\ g = Rounded(1024, f[4 * j + 3] % 3329)
  BY <1>1, <1>2, <1>3, <1>4, <1>5, Compress10Fact DEF Tenth, Centred
<1>7. PICK v : v = Thrice(f) OBVIOUS
<1>8. v[2] = f /\ 2 \in Rows BY <1>7 DEF Thrice, Rows, KYBER_K
<1>9. PICK s : s = polyvec_compress(v) OBVIOUS
<1>10. PICK b \in Int : b = 640 + 5 * j BY <1>1
<1>11. s[b + 1] = c % 256
  <2>1. PICK n \in 1..(KYBER_K * 320) : n = b + 1 BY <1>1, <1>10 DEF KYBER_K
  <2>2. (n - 1) \div 320 = 2 /\ ((n - 1) % 320) \div 5 = j /\ n % 5 = 1
    BY <1>1, <1>10, <2>1, SMTT(20)
  <2>3. s[n] = Compress10(v[2][4 * j + 0]) % 256
    BY <1>9, <2>2 DEF polyvec_compress
  <2>4. 4 * j + 0 = 4 * j BY <1>1
  <2> QED BY <1>2, <1>3, <1>4, <1>5, <1>8, <2>1, <2>3, <2>4
<1>12. s[b + 2] = (c \div 256 + d * 4) % 256
  <2>1. PICK n \in 1..(KYBER_K * 320) : n = b + 2 BY <1>1, <1>10 DEF KYBER_K
  <2>2. (n - 1) \div 320 = 2 /\ ((n - 1) % 320) \div 5 = j /\ n % 5 = 2
    BY <1>1, <1>10, <2>1, SMTT(20)
  <2>3. s[n] = (Compress10(v[2][4 * j + 0]) \div 256 + Compress10(v[2][4 * j + 1]) * 4) % 256
    BY <1>9, <2>2 DEF polyvec_compress
  <2>4. 4 * j + 0 = 4 * j BY <1>1
  <2> QED BY <1>2, <1>3, <1>4, <1>5, <1>8, <2>1, <2>3, <2>4
<1>13. s[b + 3] = (d \div 64 + e * 16) % 256
  <2>1. PICK n \in 1..(KYBER_K * 320) : n = b + 3 BY <1>1, <1>10 DEF KYBER_K
  <2>2. (n - 1) \div 320 = 2 /\ ((n - 1) % 320) \div 5 = j /\ n % 5 = 3
    BY <1>1, <1>10, <2>1, SMTT(20)
  <2>3. s[n] = (Compress10(v[2][4 * j + 1]) \div 64 + Compress10(v[2][4 * j + 2]) * 16) % 256
    BY <1>9, <2>2 DEF polyvec_compress
  <2>4. 4 * j + 0 = 4 * j BY <1>1
  <2> QED BY <1>2, <1>3, <1>4, <1>5, <1>8, <2>1, <2>3, <2>4
<1>14. s[b + 4] = (e \div 16 + g * 64) % 256
  <2>1. PICK n \in 1..(KYBER_K * 320) : n = b + 4 BY <1>1, <1>10 DEF KYBER_K
  <2>2. (n - 1) \div 320 = 2 /\ ((n - 1) % 320) \div 5 = j /\ n % 5 = 4
    BY <1>1, <1>10, <2>1, SMTT(20)
  <2>3. s[n] = (Compress10(v[2][4 * j + 2]) \div 16 + Compress10(v[2][4 * j + 3]) * 64) % 256
    BY <1>9, <2>2 DEF polyvec_compress
  <2>4. 4 * j + 0 = 4 * j BY <1>1
  <2> QED BY <1>2, <1>3, <1>4, <1>5, <1>8, <2>1, <2>3, <2>4
<1>15. s[b + 5] = g \div 4
  <2>1. PICK n \in 1..(KYBER_K * 320) : n = b + 5 BY <1>1, <1>10 DEF KYBER_K
  <2>2. (n - 1) \div 320 = 2 /\ ((n - 1) % 320) \div 5 = j /\ n % 5 = 0
    BY <1>1, <1>10, <2>1, SMTT(20)
  <2>3. s[n] = Compress10(v[2][4 * j + 3]) \div 4
    BY <1>9, <2>2 DEF polyvec_compress
  <2>4. 4 * j + 0 = 4 * j BY <1>1
  <2> QED BY <1>2, <1>3, <1>4, <1>5, <1>8, <2>1, <2>3, <2>4
<1>16. /\ (s[b + 1] + s[b + 2] * 256) % 1024 = c
       /\ (s[b + 2] \div 4 + s[b + 3] * 64) % 1024 = d
       /\ (s[b + 3] \div 16 + s[b + 4] * 16) % 1024 = e
       /\ (s[b + 4] \div 64 + s[b + 5] * 4) % 1024 = g
  <2>0. Packed10(c, d, e, g) BY <1>6, Pack10
  <2>1. (s[b + 1] + s[b + 2] * 256) % 1024 = c BY <1>11, <1>12, <2>0 DEF Packed10
  <2>2. (s[b + 2] \div 4 + s[b + 3] * 64) % 1024 = d BY <1>12, <1>13, <2>0 DEF Packed10
  <2>3. (s[b + 3] \div 16 + s[b + 4] * 16) % 1024 = e BY <1>13, <1>14, <2>0 DEF Packed10
  <2>4. (s[b + 4] \div 64 + s[b + 5] * 4) % 1024 = g BY <1>14, <1>15, <2>0 DEF Packed10
  <2> QED BY <2>1, <2>2, <2>3, <2>4
<1>17. PICK m \in {0, 1, 2, 3} : i = 4 * j + m /\ i % 4 = m BY <1>1
<1>18. polyvec_decompress(s)[2][i] =
         Decompress10((s[b + 1 + m] \div 4^m + s[b + 1 + m + 1] * (256 \div 4^m)) % 1024)
  BY <1>1, <1>8, <1>10, <1>17 DEF polyvec_decompress
<1>19. CASE m = 0
  <2>1. 4^m = 1 /\ 256 \div 4^m = 256 BY <1>19
  <2>2. b + 1 + m = b + 1 /\ b + 1 + m + 1 = b + 2 BY <1>10, <1>19
  <2>3. (s[b + 1 + m] \div 4^m + s[b + 1 + m + 1] * (256 \div 4^m)) % 1024 = c
    BY <1>6, <1>10, <1>11, <1>16, <2>1, <2>2 DEF Tenth
  <2>4. Decompress10(c) = Restored(1024, c) BY <1>6, DecompressFact DEF Tenth
  <2>5. c = Rounded(1024, f[i] % 3329) BY <1>1, <1>6, <1>17, <1>19
  <2> QED BY <1>7, <1>9, <1>18, <2>3, <2>4, <2>5
<1>20. CASE m = 1
  <2>1. 4^m = 4 /\ 256 \div 4^m = 64 BY <1>20
  <2>2. b + 1 + m = b + 2 /\ b + 1 + m + 1 = b + 3 BY <1>10, <1>20
  <2>3. (s[b + 1 + m] \div 4^m + s[b + 1 + m + 1] * (256 \div 4^m)) % 1024 = d
    BY <1>6, <1>10, <1>11, <1>16, <2>1, <2>2 DEF Tenth
  <2>4. Decompress10(d) = Restored(1024, d) BY <1>6, DecompressFact DEF Tenth
  <2>5. d = Rounded(1024, f[i] % 3329) BY <1>1, <1>6, <1>17, <1>20
  <2> QED BY <1>7, <1>9, <1>18, <2>3, <2>4, <2>5
<1>21. CASE m = 2
  <2>1. 4^m = 16 /\ 256 \div 4^m = 16 BY <1>21
  <2>2. b + 1 + m = b + 3 /\ b + 1 + m + 1 = b + 4 BY <1>10, <1>21
  <2>3. (s[b + 1 + m] \div 4^m + s[b + 1 + m + 1] * (256 \div 4^m)) % 1024 = e
    BY <1>6, <1>10, <1>11, <1>16, <2>1, <2>2 DEF Tenth
  <2>4. Decompress10(e) = Restored(1024, e) BY <1>6, DecompressFact DEF Tenth
  <2>5. e = Rounded(1024, f[i] % 3329) BY <1>1, <1>6, <1>17, <1>21
  <2> QED BY <1>7, <1>9, <1>18, <2>3, <2>4, <2>5
<1>22. CASE m = 3
  <2>1. 4^m = 64 /\ 256 \div 4^m = 4 BY <1>22
  <2>2. b + 1 + m = b + 4 /\ b + 1 + m + 1 = b + 5 BY <1>10, <1>22
  <2>3. (s[b + 1 + m] \div 4^m + s[b + 1 + m + 1] * (256 \div 4^m)) % 1024 = g
    BY <1>6, <1>10, <1>11, <1>16, <2>1, <2>2 DEF Tenth
  <2>4. Decompress10(g) = Restored(1024, g) BY <1>6, DecompressFact DEF Tenth
  <2>5. g = Rounded(1024, f[i] % 3329) BY <1>1, <1>6, <1>17, <1>22
  <2> QED BY <1>7, <1>9, <1>18, <2>3, <2>4, <2>5
<1> QED BY <1>17, <1>19, <1>20, <1>21, <1>22

\* The eight bits of a byte.
IsBit(b) == b \in Int /\ 0 <= b /\ b <= 1
Byte(b0, b1, b2, b3, b4, b5, b6, b7) ==
  b0 + 2 * b1 + 4 * b2 + 8 * b3 + 16 * b4 + 32 * b5 + 64 * b6 + 128 * b7
ByteBits(x, b0, b1, b2, b3, b4, b5, b6, b7) ==
  /\ x % 2 = b0 /\ (x \div 2) % 2 = b1 /\ (x \div 4) % 2 = b2 /\ (x \div 8) % 2 = b3
  /\ (x \div 16) % 2 = b4 /\ (x \div 32) % 2 = b5 /\ (x \div 64) % 2 = b6 /\ (x \div 128) % 2 = b7
LEMMA PackBits ==
  ASSUME NEW b0, NEW b1, NEW b2, NEW b3, NEW b4, NEW b5, NEW b6, NEW b7,
         IsBit(b0), IsBit(b1), IsBit(b2), IsBit(b3), IsBit(b4), IsBit(b5), IsBit(b6), IsBit(b7)
  PROVE  ByteBits(Byte(b0, b1, b2, b3, b4, b5, b6, b7), b0, b1, b2, b3, b4, b5, b6, b7)
<1>1. PICK x : x = Byte(b0, b1, b2, b3, b4, b5, b6, b7) OBVIOUS
<1>2. x % 2 = b0 /\ (x \div 2) % 2 = b1 /\ (x \div 4) % 2 = b2 /\ (x \div 8) % 2 = b3
  BY <1>1, SMTT(30) DEF IsBit, Byte
<1>3. (x \div 16) % 2 = b4 /\ (x \div 32) % 2 = b5 /\ (x \div 64) % 2 = b6 /\ (x \div 128) % 2 = b7
  BY <1>1, SMTT(30) DEF IsBit, Byte
<1> QED BY <1>1, <1>2, <1>3 DEF ByteBits

\* A coefficient i is one of the eight of group j.
LEMMA EightFact ==
  \A i \in Index : \E j \in Int :
     /\ j = i \div 8 /\ 0 <= j /\ j <= 31
     /\ \A m \in {0, 1, 2, 3, 4, 5, 6, 7} : 8 * j + m \in Index
     /\ \E m \in {0, 1, 2, 3, 4, 5, 6, 7} : i = 8 * j + m /\ i % 8 = m
<1>1. ASSUME NEW i \in Int, 0 <= i, i <= 255
      PROVE  /\ i \div 8 \in Int /\ 0 <= i \div 8 /\ i \div 8 <= 31
             /\ i % 8 \in {0, 1, 2, 3, 4, 5, 6, 7} /\ i = 8 * (i \div 8) + (i % 8)
  BY <1>1, SMTT(20)
<1>2. \A j \in Int : 0 <= j /\ j <= 31 => \A m \in {0, 1, 2, 3, 4, 5, 6, 7} : 8 * j + m \in Index
  BY IndexFact, SMTT(20)
<1> QED BY <1>1, <1>2, IndexFact

LEMMA RestoreBit == \A b \in {0, 1} : cmov_int16(0, (KYBER_Q + 1) \div 2, b) = Restored(2, b)
  BY SMTT(20) DEF cmov_int16, KYBER_Q, Restored

LEMMA Format1 ==
  ASSUME NEW f, Centred(f), NEW i \in Index
  PROVE  poly_frommsg(poly_tomsg(f))[i] = Restored(2, Rounded(2, f[i] % 3329))
<1>1. PICK j \in Int :
        /\ j = i \div 8 /\ 0 <= j /\ j <= 31
        /\ \A m \in {0, 1, 2, 3, 4, 5, 6, 7} : 8 * j + m \in Index
        /\ \E m \in {0, 1, 2, 3, 4, 5, 6, 7} : i = 8 * j + m /\ i % 8 = m
  BY EightFact
<1>2. PICK b0 : b0 = Compress1(f[8 * j + 0]) OBVIOUS
<1>3. PICK b1 : b1 = Compress1(f[8 * j + 1]) OBVIOUS
<1>4. PICK b2 : b2 = Compress1(f[8 * j + 2]) OBVIOUS
<1>5. PICK b3 : b3 = Compress1(f[8 * j + 3]) OBVIOUS
<1>6. PICK b4 : b4 = Compress1(f[8 * j + 4]) OBVIOUS
<1>7. PICK b5 : b5 = Compress1(f[8 * j + 5]) OBVIOUS
<1>8. PICK b6 : b6 = Compress1(f[8 * j + 6]) OBVIOUS
<1>9. PICK b7 : b7 = Compress1(f[8 * j + 7]) OBVIOUS
<1>10. ASSUME NEW m \in {0, 1, 2, 3, 4, 5, 6, 7}
       PROVE  /\ IsBit(Compress1(f[8 * j + m]))
              /\ Compress1(f[8 * j + m]) = Rounded(2, f[8 * j + m] % 3329)
  <2>1. PICK u \in Int : u = f[8 * j + m] /\ -1664 <= u /\ u <= 1664 BY <1>1 DEF Centred
  <2>2. Compress1(u) = Rounded(2, u % 3329) /\ IsBit(Compress1(u)) BY <2>1, Compress1Fact DEF IsBit
  <2> QED BY <2>1, <2>2
<1>11. /\ IsBit(b0) /\ IsBit(b1) /\ IsBit(b2) /\ IsBit(b3)
       /\ IsBit(b4) /\ IsBit(b5) /\ IsBit(b6) /\ IsBit(b7)
  BY <1>2, <1>3, <1>4, <1>5, <1>6, <1>7, <1>8, <1>9, <1>10
<1>12. PICK x : x = Byte(b0, b1, b2, b3, b4, b5, b6, b7) OBVIOUS
<1>13. ByteBits(x, b0, b1, b2, b3, b4, b5, b6, b7) /\ x \in Int
  <2>1. ByteBits(x, b0, b1, b2, b3, b4, b5, b6, b7) BY <1>11, <1>12, PackBits
  <2>2. x \in Int BY <1>11, <1>12 DEF Byte, IsBit
  <2> QED BY <2>1, <2>2
<1>14. PICK s : s = poly_tomsg(f) OBVIOUS
<1>15. s[j + 1] = x
  <2>1. j + 1 \in 1..(KYBER_N \div 8) /\ (j + 1) - 1 = j BY <1>1 DEF KYBER_N
  <2>2. s[j + 1] = Compress1(f[8 * j + 0]) * 2^0 + Compress1(f[8 * j + 1]) * 2^1
                 + Compress1(f[8 * j + 2]) * 2^2 + Compress1(f[8 * j + 3]) * 2^3
                 + Compress1(f[8 * j + 4]) * 2^4 + Compress1(f[8 * j + 5]) * 2^5
                 + Compress1(f[8 * j + 6]) * 2^6 + Compress1(f[8 * j + 7]) * 2^7
    BY <1>14, <2>1 DEF poly_tomsg
  <2>3. s[j + 1] = b0 * 2^0 + b1 * 2^1 + b2 * 2^2 + b3 * 2^3 + b4 * 2^4 + b5 * 2^5 + b6 * 2^6 + b7 * 2^7
    BY <1>2, <1>3, <1>4, <1>5, <1>6, <1>7, <1>8, <1>9, <2>2, Zenon
  <2>4. 2^0 = 1 /\ 2^1 = 2 /\ 2^2 = 4 /\ 2^3 = 8 /\ 2^4 = 16 /\ 2^5 = 32 /\ 2^6 = 64 /\ 2^7 = 128
    BY SMTT(20)
  <2> QED BY <1>11, <1>12, <2>3, <2>4, SMTT(20) DEF Byte, IsBit
<1>16. PICK m \in {0, 1, 2, 3, 4, 5, 6, 7} : i = 8 * j + m /\ i % 8 = m BY <1>1
<1>17. Bit(s, i) = (x \div 2^m) % 2 BY <1>1, <1>15, <1>16 DEF Bit
<1>18. (x \div 2^m) % 2 = Compress1(f[8 * j + m])
  <2>1. CASE m = 0
    <3>1. 2^m = 1 BY <2>1
    <3>2. (x \div 1) % 2 = b0 BY <1>13 DEF ByteBits
    <3> QED BY <1>2, <2>1, <3>1, <3>2
  <2>2. CASE m = 1
    <3>1. 2^m = 2 BY <2>2
    <3>2. (x \div 2) % 2 = b1 BY <1>13 DEF ByteBits
    <3> QED BY <1>3, <2>2, <3>1, <3>2
  <2>3. CASE m = 2
    <3>1. 2^m = 4 BY <2>3
    <3>2. (x \div 4) % 2 = b2 BY <1>13 DEF ByteBits
    <3> QED BY <1>4, <2>3, <3>1, <3>2
  <2>4. CASE m = 3
    <3>1. 2^m = 8 BY <2>4
    <3>2. (x \div 8) % 2 = b3 BY <1>13 DEF ByteBits
    <3> QED BY <1>5, <2>4, <3>1, <3>2
  <2>5. CASE m = 4
    <3>1. 2^m = 16 BY <2>5
    <3>2. (x \div 16) % 2 = b4 BY <1>13 DEF ByteBits
    <3> QED BY <1>6, <2>5, <3>1, <3>2
  <2>6. CASE m = 5
    <3>1. 2^m = 32 BY <2>6
    <3>2. (x \div 32) % 2 = b5 BY <1>13 DEF ByteBits
    <3> QED BY <1>7, <2>6, <3>1, <3>2
  <2>7. CASE m = 6
    <3>1. 2^m = 64 BY <2>7
    <3>2. (x \div 64) % 2 = b6 BY <1>13 DEF ByteBits
    <3> QED BY <1>8, <2>7, <3>1, <3>2
  <2>8. CASE m = 7
    <3>1. 2^m = 128 BY <2>8
    <3>2. (x \div 128) % 2 = b7 BY <1>13 DEF ByteBits
    <3> QED BY <1>9, <2>8, <3>1, <3>2
  <2> QED BY <2>1, <2>2, <2>3, <2>4, <2>5, <2>6, <2>7, <2>8
<1>19. PICK b : b = Compress1(f[8 * j + m]) OBVIOUS
<1>20. b \in {0, 1} /\ b = Rounded(2, f[i] % 3329)
  BY <1>10, <1>16, <1>19 DEF IsBit
<1>21. poly_frommsg(s)[i] = cmov_int16(0, (KYBER_Q + 1) \div 2, b)
  BY <1>17, <1>18, <1>19 DEF poly_frommsg
<1> QED BY <1>14, <1>20, <1>21, RestoreBit

---------------------------------------------------------------------------
\* From which array each format starts: while k is 1 the transform has done
\* nothing, and k only grows.
FormatInv ==
  /\ a \in [Index -> Int]
  /\ pc = "ntt" => k \in Int /\ 1 <= k /\ (k = 1 => r = a)
  /\ pc = "bytes" => Centred(a) /\ r = poly_tobytes(a)
  /\ pc = "compressed4" => Centred(a) /\ r = poly_compress(a)
  /\ pc = "compressed10" => Centred(a) /\ r = polyvec_compress([i \in Rows |-> a])
  /\ pc = "message" => Centred(a) /\ r = poly_tomsg(a)
  /\ pc = "parsed" => Centred(a) /\ r = poly_frombytes(poly_tobytes(a))
  /\ pc = "decompressed4" => Centred(a) /\ r = poly_decompress(poly_compress(a))
  /\ pc = "decompressed10" => Centred(a) /\ r = polyvec_decompress(polyvec_compress([i \in Rows |-> a]))[2]
  /\ pc = "decompressed1" => Centred(a) /\ r = poly_frommsg(poly_tomsg(a))

LEMMA InitFormat == Init => FormatInv
<1> SUFFICES ASSUME Init PROVE FormatInv OBVIOUS
<1>1. a \in [Index -> (-KYBER_Q)..KYBER_Q] BY InputsAssumption, SMTT(20) DEF Init
<1>2. a \in [Index -> Int]
  <2>1. KYBER_Q \in Int BY DEF KYBER_Q
  <2> QED BY <1>1, <2>1, SMTT(20)
<1> QED BY <1>2 DEF Init, FormatInv

LEMMA CentredInput == FormatInv /\ AtInput => r = a /\ Centred(a)
<1> SUFFICES ASSUME FormatInv, AtInput PROVE r = a /\ Centred(a) OBVIOUS
<1>1. r = a BY DEF FormatInv, AtInput
<1>2. \A i \in Index : -1664 <= a[i] /\ a[i] <= 1664
  <2> DEFINE low == -1664
  <2>1. \A i \in Index : a[i] \in low..1664 BY <1>1 DEF AtInput
  <2>2. low \in Int OBVIOUS
  <2> HIDE DEF low
  <2>3. \A i \in Index : low <= a[i] /\ a[i] <= 1664 BY <2>1, <2>2
  <2> QED BY <2>3 DEF low
<1> QED BY <1>1, <1>2 DEF FormatInv, Centred

LEMMA StepFormat == FormatInv /\ [Next]_vars => FormatInv'
<1> SUFFICES ASSUME FormatInv, [Next]_vars PROVE FormatInv' OBVIOUS
<1>0. a \in [Index -> Int] BY DEF FormatInv
<1>1. CASE NttTurn
  <2>1. k \in Int /\ 1 <= k /\ k' = k + 1 /\ pc' = "ntt" /\ a' = a BY <1>1 DEF NttTurn, FormatInv
  <2>2. k' \in Int /\ 1 <= k' /\ k' # 1 BY <2>1
  <2> QED BY <1>0, <2>1, <2>2 DEF FormatInv
<1>2. CASE Reduce \/ Product \/ InvNttTurn \/ Scale
  <2>1. a' = a /\ pc' \in {"product", "invntt", "multiplied"}
    BY <1>2 DEF Reduce, Product, InvNttTurn, Scale
  <2> QED BY <1>0, <2>1 DEF FormatInv
<1>3. CASE ToBytes
  <2>1. a' = a /\ pc' = "bytes" /\ r' = poly_tobytes(r) /\ AtInput BY <1>3 DEF ToBytes
  <2>2. r = a /\ Centred(a) BY <2>1, CentredInput
  <2>3. Centred(a)' BY <2>1, <2>2 DEF Centred
  <2> QED BY <1>0, <2>1, <2>2, <2>3 DEF FormatInv
<1>4. CASE FromBytes
  <2>1. a' = a /\ pc' = "parsed" /\ r' = poly_frombytes(r) /\ pc = "bytes" BY <1>4 DEF FromBytes
  <2>2. Centred(a) /\ r = poly_tobytes(a) BY <2>1 DEF FormatInv
  <2>3. Centred(a)' BY <2>1, <2>2 DEF Centred
  <2> QED BY <1>0, <2>1, <2>2, <2>3 DEF FormatInv
<1>5. CASE Compress
  <2>1. a' = a /\ AtInput BY <1>5 DEF Compress
  <2>2. r = a /\ Centred(a) BY <2>1, CentredInput
  <2>3. Centred(a)' BY <2>1, <2>2 DEF Centred
  <2>4. CASE r' = polyvec_compress([i \in Rows |-> r]) /\ pc' = "compressed10"
    BY <1>0, <2>1, <2>2, <2>3, <2>4 DEF FormatInv
  <2>5. CASE r' = poly_compress(r) /\ pc' = "compressed4"
    BY <1>0, <2>1, <2>2, <2>3, <2>5 DEF FormatInv
  <2> QED BY <1>5, <2>4, <2>5 DEF Compress
<1>6. CASE Decompress
  <2>1. a' = a BY <1>6 DEF Decompress
  <2>2. CASE pc = "compressed10" /\ r' = polyvec_decompress(r)[2] /\ pc' = "decompressed10"
    <3>1. Centred(a) /\ r = polyvec_compress([i \in Rows |-> a]) BY <2>2 DEF FormatInv
    <3>2. Centred(a)' BY <2>1, <3>1 DEF Centred
    <3> QED BY <1>0, <2>1, <2>2, <3>1, <3>2 DEF FormatInv
  <2>3. CASE pc = "compressed4" /\ r' = poly_decompress(r) /\ pc' = "decompressed4"
    <3>1. Centred(a) /\ r = poly_compress(a) BY <2>3 DEF FormatInv
    <3>2. Centred(a)' BY <2>1, <3>1 DEF Centred
    <3> QED BY <1>0, <2>1, <2>3, <3>1, <3>2 DEF FormatInv
  <2> QED BY <1>6, <2>2, <2>3 DEF Decompress
<1>7. CASE ToMsg
  <2>1. a' = a /\ pc' = "message" /\ r' = poly_tomsg(r) /\ AtInput BY <1>7 DEF ToMsg
  <2>2. r = a /\ Centred(a) BY <2>1, CentredInput
  <2>3. Centred(a)' BY <2>1, <2>2 DEF Centred
  <2> QED BY <1>0, <2>1, <2>2, <2>3 DEF FormatInv
<1>8. CASE FromMsg
  <2>1. a' = a /\ pc' = "decompressed1" /\ r' = poly_frommsg(r) /\ pc = "message" BY <1>8 DEF FromMsg
  <2>2. Centred(a) /\ r = poly_tomsg(a) BY <2>1 DEF FormatInv
  <2>3. Centred(a)' BY <2>1, <2>2 DEF Centred
  <2> QED BY <1>0, <2>1, <2>2, <2>3 DEF FormatInv
<1>9. CASE Ended \/ UNCHANGED vars
  <2>1. UNCHANGED vars BY <1>9 DEF Ended
  <2> QED BY <2>1 DEF vars, FormatInv, Centred
<1> QED BY <1>1, <1>2, <1>3, <1>4, <1>5, <1>6, <1>7, <1>8, <1>9 DEF Next

LEMMA FormatEnough == FormatInv => FormatsExact
<1> SUFFICES ASSUME FormatInv PROVE FormatsExact OBVIOUS
<1>1. ASSUME pc = "parsed" PROVE r = [i \in Index |-> a[i] % KYBER_Q]
  <2>1. Centred(a) /\ r = poly_frombytes(poly_tobytes(a)) BY <1>1 DEF FormatInv
  <2>2. \A i \in Index : r[i] = a[i] % KYBER_Q BY <2>1, Format12 DEF KYBER_Q
  <2>3. r = [i \in Index |-> r[i]] BY <2>1 DEF poly_frombytes
  <2> QED BY <2>2, <2>3
<1>2. ASSUME pc = "decompressed1", NEW i \in Index
      PROVE  r[i] = Restored(2, Rounded(2, a[i] % KYBER_Q))
  <2>1. Centred(a) /\ r = poly_frommsg(poly_tomsg(a)) BY <1>2 DEF FormatInv
  <2>2. poly_frommsg(poly_tomsg(a))[i] = Restored(2, Rounded(2, a[i] % 3329)) BY <2>1, Format1
  <2> QED BY <2>1, <2>2 DEF KYBER_Q
<1>3. ASSUME pc = "decompressed4", NEW i \in Index
      PROVE  r[i] = Restored(16, Rounded(16, a[i] % KYBER_Q))
  <2>1. Centred(a) /\ r = poly_decompress(poly_compress(a)) BY <1>3 DEF FormatInv
  <2>2. poly_decompress(poly_compress(a))[i] = Restored(16, Rounded(16, a[i] % 3329))
    BY <2>1, Format4
  <2> QED BY <2>1, <2>2 DEF KYBER_Q
<1>4. ASSUME pc = "decompressed10", NEW i \in Index
      PROVE  r[i] = Restored(1024, Rounded(1024, a[i] % KYBER_Q))
  <2>1. Centred(a) /\ r = polyvec_decompress(polyvec_compress(Thrice(a)))[2]
    BY <1>4 DEF FormatInv, Thrice
  <2>2. polyvec_decompress(polyvec_compress(Thrice(a)))[2][i]
          = Restored(1024, Rounded(1024, a[i] % 3329))
    BY <2>1, Format10
  <2> QED BY <2>1, <2>2 DEF KYBER_Q
<1>5. 2^1 = 2 /\ 2^4 = 16 /\ 2^10 = 1024 BY SMTT(20)
<1>6. ASSUME NEW d \in {1, 4, 10},
             pc = (CASE d = 1 -> "decompressed1" [] d = 4 -> "decompressed4"
                     [] d = 10 -> "decompressed10"),
             NEW i \in Index
      PROVE  r[i] = Restored(2^d, Rounded(2^d, a[i] % KYBER_Q))
  <2>1. CASE d = 1
    <3>1. pc = "decompressed1" BY <1>6, <2>1
    <3> QED BY <1>2, <1>5, <2>1, <3>1
  <2>2. CASE d = 4
    <3>1. pc = "decompressed4" BY <1>6, <2>2
    <3> QED BY <1>3, <1>5, <2>2, <3>1
  <2>3. CASE d = 10
    <3>1. pc = "decompressed10" BY <1>6, <2>3
    <3> QED BY <1>4, <1>5, <2>3, <3>1
  <2> QED BY <2>1, <2>2, <2>3
<1> QED BY <1>1, <1>6 DEF FormatsExact

\* Every byte format of poly.c and polyvec.c, for every polynomial whose
\* coefficients are reduced: twelve bits keep a coefficient modulo q, and the
\* compressions round as the standard says although the code never divides.
THEOREM FormatsRight == Spec => []FormatsExact
<1>1. Init => FormatInv BY InitFormat
<1>2. FormatInv /\ [Next]_vars => FormatInv' BY StepFormat
<1>3. FormatInv => FormatsExact BY FormatEnough
<1> QED BY <1>1, <1>2, <1>3, PTL DEF Spec

---------------------------------------------------------------------------
(* Hashing                                                                 *)

\* The inductive invariant: the rate, and a counter below it while absorbing.
RateOK == hash \in Functions5 /\ hash.r \in Nat /\ hash.r >= 72
CounterOK == phase = "absorb" => ctx.n \in Nat /\ ctx.n < hash.r
SpongeInv == RateOK /\ CounterOK

---------------------------------------------------------------------------
LEMMA PieceLen ==
  ASSUME NEW from, NEW size \in Nat
  PROVE  Len(Piece(from, size)) = size
<1> DEFINE S == {Message[from + i] : i \in 1..size}
           m == Piece(from, size)
<1>1. m \in [1..size -> S] /\ DOMAIN m = 1..size BY DEF Piece
<1> HIDE DEF m, S
<1>2. m \in Seq(S) BY <1>1, SeqDef
<1>3. Len(m) \in Nat /\ DOMAIN m = 1..Len(m) BY <1>2, LenProperties
<1>4. Len(m) = size BY <1>1, <1>3, SMTT(20)
<1> QED BY <1>4 DEF m

\* A number without its whole blocks.
LEMMA Division ==
  ASSUME NEW t \in Nat, NEW rate \in Nat, rate >= 1
  PROVE  /\ t \div rate \in Nat /\ (t \div rate) * rate \in Int
         /\ 0 <= t - (t \div rate) * rate /\ t - (t \div rate) * rate < rate
  BY SMTT(20)

\* The counter after x more bytes when it was y, with b blocks completed.
LEMMA CounterArith ==
  ASSUME NEW x \in Nat, NEW y \in Nat, NEW rate \in Nat, rate >= 1, y < rate,
         NEW b \in Nat, b = (x + y) \div rate
  PROVE  /\ (IF b = 0 THEN y ELSE 0) + (x - (IF b = 0 THEN 0 ELSE b * rate - y)) \in Nat
         /\ (IF b = 0 THEN y ELSE 0) + (x - (IF b = 0 THEN 0 ELSE b * rate - y)) < rate
<1> DEFINE p == b * rate
<1>1. p \in Int /\ 0 <= (x + y) - p /\ (x + y) - p < rate
  <2>1. x + y \in Nat BY SMTT(20)
  <2> QED BY <2>1, Division, SMTT(20)
<1>2. b = 0 => p = 0 BY SMTT(20)
<1> HIDE DEF p
<1>3. /\ (IF b = 0 THEN y ELSE 0) + (x - (IF b = 0 THEN 0 ELSE p - y)) \in Nat
      /\ (IF b = 0 THEN y ELSE 0) + (x - (IF b = 0 THEN 0 ELSE p - y)) < rate
  BY <1>1, <1>2, SMTT(20)
<1> QED BY <1>3 DEF p

\* keccak_inc_absorb permutes as soon as a block is full.
LEMMA AbsorbCounter ==
  ASSUME NEW c, NEW y \in Nat, c.n = y, NEW rate \in Nat, rate >= 1, y < rate,
         NEW m, NEW x \in Nat, Len(m) = x
  PROVE  keccak_inc_absorb(c, rate, m).n \in Nat /\ keccak_inc_absorb(c, rate, m).n < rate
<1> DEFINE b == (x + y) \div rate
           n == (IF b = 0 THEN y ELSE 0) + (x - (IF b = 0 THEN 0 ELSE b * rate - y))
<1>1. keccak_inc_absorb(c, rate, m).n = n BY Zenon DEF keccak_inc_absorb
<1>2. b \in Nat
  <2>1. x + y \in Nat BY SMTT(20)
  <2> QED BY <2>1, Division, SMTT(20)
<1>3. b = (x + y) \div rate OBVIOUS
<1> HIDE DEF b
<1>4. n \in Nat /\ n < rate BY <1>2, <1>3, CounterArith, SMTT(20)
<1> QED BY <1>1, <1>4

---------------------------------------------------------------------------
LEMMA InitSponge == SpongeInit => SpongeInv
<1> SUFFICES ASSUME SpongeInit PROVE SpongeInv OBVIOUS
<1>1. CASE hash = shake128
  <2>1. hash.r = 168 BY <1>1 DEF shake128
  <2> QED BY <2>1, SMTT(20) DEF SpongeInit, SpongeInv, RateOK, CounterOK
<1>2. CASE hash = shake256 \/ hash = sha3_256
  <2>1. hash.r = 136 BY <1>2 DEF shake256, sha3_256
  <2> QED BY <2>1, SMTT(20) DEF SpongeInit, SpongeInv, RateOK, CounterOK
<1>3. CASE hash = sha3_384
  <2>1. hash.r = 104 BY <1>3 DEF sha3_384
  <2> QED BY <2>1, SMTT(20) DEF SpongeInit, SpongeInv, RateOK, CounterOK
<1>4. CASE hash = sha3_512
  <2>1. hash.r = 72 BY <1>4 DEF sha3_512
  <2> QED BY <2>1, SMTT(20) DEF SpongeInit, SpongeInv, RateOK, CounterOK
<1> QED BY <1>1, <1>2, <1>3, <1>4 DEF SpongeInit, Functions5

LEMMA PiecesNat == ASSUME RateOK, NEW size \in Pieces[hash.r] PROVE size \in Nat
  BY LengthsAssumption DEF RateOK

\* The actions that leave the function and do not absorb.
LEMMA CounterStep ==
  ASSUME SpongeInv, hash' = hash, phase' # "absorb"
  PROVE  SpongeInv'
  BY DEF SpongeInv, RateOK, CounterOK

LEMMA StepSponge == SpongeInv /\ [SpongeNext]_spongeVars => SpongeInv'
<1> SUFFICES ASSUME SpongeInv, [SpongeNext]_spongeVars PROVE SpongeInv' OBVIOUS
<1>0. RateOK /\ CounterOK BY DEF SpongeInv
<1>1. CASE MallocFails
  <2>1. phase' = "exit" /\ hash' = hash BY <1>1 DEF MallocFails
  <2> QED BY <2>1, CounterStep
<1>2. CASE IncInit
  <2>1. phase' = "absorb" /\ hash' = hash /\ ctx' = keccak_inc_init
    BY <1>2 DEF IncInit
  <2>2. RateOK' BY <1>0, <2>1 DEF RateOK
  <2>3. CounterOK'
    <3>1. (ctx').n = 0 BY <2>1 DEF keccak_inc_init
    <3>2. (hash').r \in Nat /\ (hash').r >= 72 BY <2>2 DEF RateOK
    <3> DEFINE rate == (hash').r
    <3>3. 0 < rate
      <4>1. rate \in Nat /\ rate >= 72 BY <3>2
      <4> HIDE DEF rate
      <4> QED BY <4>1, SMTT(20)
    <3> QED BY <3>1, <3>3 DEF CounterOK
  <2> QED BY <2>2, <2>3 DEF SpongeInv
<1>3. CASE IncFinalize
  <2>1. phase' = "squeeze" /\ hash' = hash BY <1>3 DEF IncFinalize
  <2> QED BY <2>1, CounterStep
<1>4. CASE Clone
  <2>1. phase' = phase /\ hash' = hash /\ ctx' = ctx BY <1>4 DEF Clone, Copy
  <2> QED BY <1>0, <2>1 DEF SpongeInv, RateOK, CounterOK
<1>5. CASE Sha3Finalize
  <2>1. phase' = "end" /\ hash' = hash BY <1>5 DEF Sha3Finalize
  <2> QED BY <2>1, CounterStep
<1>6. CASE Release
  <2>1. phase' = "end" /\ hash' = hash BY <1>6 DEF Release
  <2> QED BY <2>1, CounterStep
<1>7. CASE Over \/ UNCHANGED spongeVars
  <2>1. phase' = phase /\ hash' = hash /\ ctx' = ctx BY <1>7 DEF Over, spongeVars
  <2> QED BY <1>0, <2>1 DEF SpongeInv, RateOK, CounterOK
<1>8. ASSUME NEW size \in Pieces[hash.r], IncAbsorb(size) PROVE SpongeInv'
  <2>1. size \in Nat BY <1>0, PiecesNat
  <2>2. /\ phase = "absorb" /\ phase' = "absorb" /\ hash' = hash
        /\ ctx' = keccak_inc_absorb(ctx, hash.r, Piece(absorbed, size))
    BY <1>8 DEF IncAbsorb
  <2>3. PICK y \in Nat : y = ctx.n BY <1>0, <2>2 DEF CounterOK
  <2>4. PICK rate \in Nat : rate = hash.r /\ rate >= 72 /\ y < rate
    BY <1>0, <2>2, <2>3 DEF CounterOK, RateOK
  <2>5. rate >= 1 BY <2>4, SMTT(20)
  <2> DEFINE m == Piece(absorbed, size)
  <2>6. Len(m) = size BY <2>1, PieceLen
  <2>7. ctx' = keccak_inc_absorb(ctx, rate, m) BY <2>2, <2>4
  <2> HIDE DEF m
  <2>8. (ctx').n \in Nat /\ (ctx').n < rate
    BY <2>1, <2>3, <2>4, <2>5, <2>6, <2>7, AbsorbCounter, Zenon
  <2>9. RateOK' BY <1>0, <2>2 DEF RateOK
  <2>10. CounterOK' BY <2>2, <2>4, <2>8 DEF CounterOK
  <2> QED BY <2>9, <2>10 DEF SpongeInv
<1>9. ASSUME NEW size \in Reads[hash.r], IncSqueeze(size) PROVE SpongeInv'
  <2>1. phase' = phase /\ phase = "squeeze" /\ hash' = hash BY <1>9 DEF IncSqueeze
  <2> QED BY <2>1, CounterStep
<1>10. ASSUME NEW size \in Pieces[hash.r], Absorb(size) PROVE SpongeInv'
  <2>1. phase' = "blocks" /\ hash' = hash BY <1>10 DEF Absorb
  <2> QED BY <2>1, CounterStep
<1>11. ASSUME NEW n \in {1, 2}, SqueezeBlocks(n) PROVE SpongeInv'
  <2>1. phase' = phase /\ phase = "blocks" /\ hash' = hash BY <1>11 DEF SqueezeBlocks
  <2> QED BY <2>1, CounterStep
<1>12. ASSUME NEW size \in Pieces[hash.r], NEW outlen \in Reads[hash.r], OneShot(size, outlen) PROVE SpongeInv'
  <2>1. phase' = "end" /\ hash' = hash BY <1>12 DEF OneShot
  <2> QED BY <2>1, CounterStep
<1> QED BY <1>1, <1>2, <1>3, <1>4, <1>5, <1>6, <1>7, <1>8, <1>9, <1>10, <1>11, <1>12 DEF SpongeNext

---------------------------------------------------------------------------
\* keccak_inc_finalize always finds the byte it needs for the padding, whatever
\* the number of the pieces and their lengths (Pieces is any choice of lengths).
THEOREM Room == SpongeSpec => []RoomForPadding
<1>1. SpongeInv => RoomForPadding
  <2> SUFFICES ASSUME SpongeInv, phase = "absorb" PROVE ctx.n \in 0..(hash.r - 1) BY DEF RoomForPadding
  <2>1. PICK y \in Nat : y = ctx.n BY DEF SpongeInv, CounterOK
  <2>2. PICK rate \in Nat : rate = hash.r /\ y < rate BY <2>1 DEF SpongeInv, CounterOK, RateOK
  <2>3. y \in 0..(rate - 1) BY <2>2, SMTT(20)
  <2> QED BY <2>1, <2>2, <2>3
<1> QED BY InitSponge, StepSponge, <1>1, PTL DEF SpongeSpec
=============================================================================
