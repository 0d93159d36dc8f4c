-------------------------------- MODULE Poly --------------------------------
(***************************************************************************)
(* Polynomials, vectors of polynomials, and their byte formats:            *)
(* native/mlkem/pqclean-ml-kem-768 poly.c, polyvec.c, cbd.c and verify.c.  *)
(* A vector is an array indexed from 0; a byte string is a sequence.       *)
(***************************************************************************)
EXTENDS NTT, Sequences

KYBER_K == 3
KYBER_POLYBYTES == 384
KYBER_POLYCOMPRESSEDBYTES == 128

Rows == 0..(KYBER_K - 1)
PolyVec == [Rows -> Poly]

\* The k-th part of n bytes of s, counted from 0.
Part(s, k, n) == SubSeq(s, k * n + 1, (k + 1) * n)

\* u += (u >> 15) & KYBER_Q: the positive standard representative.
Standard(u) == IF u < 0 THEN u + KYBER_Q ELSE u

\* (x * c) >> n for n >= 18, as the floors of three shorter products, none of
\* which leaves the 32 bits of TLC's integers.
MulShift(x, c, n) ==
    ((x \div 262144) * c
        + (((x \div 512) % 512) * c + ((x % 512) * c) \div 512) \div 512)
    \div 2^(n - 18)

---------------------------------------------------------------------------
\* Mutant: the rounding constant is left out.
Compress4_truncates(u) == MulShift(16 * Standard(u), 80635, 28) % 16

\* What the 32-bit product loses at its top is cut off by the mask as well.
Compress4(u) == MulShift(16 * Standard(u) + 1665, 80635, 28) % 16

Compress10(u) == MulShift(1024 * Standard(u) + 1665, 1290167, 32) % 1024

\* No standard representative: the mask makes a negative coefficient harmless.
Compress1(u) == MulShift(2 * u + 1665, 80635, 28) % 2

Decompress4(t) == (t * KYBER_Q + 8) \div 16
Decompress10(t) == (t * KYBER_Q + 512) \div 1024

poly_compress(a) ==
    [i \in 1..KYBER_POLYCOMPRESSEDBYTES |->
       Compress4(a[2 * i - 2]) + 16 * Compress4(a[2 * i - 1])]

poly_decompress(s) ==
    [i \in Index |-> Decompress4(IF i % 2 = 0 THEN s[i \div 2 + 1] % 16
                                              ELSE s[i \div 2 + 1] \div 16)]

\* Two coefficients in three bytes.
poly_tobytes(a) ==
    [n \in 1..KYBER_POLYBYTES |->
       LET i  == (n - 1) \div 3
           t0 == Standard(a[2 * i])
           t1 == Standard(a[2 * i + 1])
       IN  << t0 % 256, (t0 \div 256 + t1 * 16) % 256, (t1 \div 16) % 256 >>[((n - 1) % 3) + 1]]

\* The two 12-bit numbers in the three bytes of s that follow the first n.
Twelve(s, n) == << s[n + 1] + 256 * (s[n + 2] % 16), s[n + 2] \div 16 + 16 * s[n + 3] >>

poly_frombytes(s) == [i \in Index |-> Twelve(s, 3 * (i \div 2))[(i % 2) + 1]]

Bit(s, i) == (s[i \div 8 + 1] \div 2^(i % 8)) % 2

cmov_int16(r, v, b) == IF b = 1 THEN v ELSE r

poly_frommsg(msg) == [i \in Index |-> cmov_int16(0, (KYBER_Q + 1) \div 2, Bit(msg, i))]

poly_tomsg(a) ==
    [n \in 1..(KYBER_N \div 8) |->
       LET t(j) == Compress1(a[8 * (n - 1) + j]) * 2^j
       IN  t(0) + t(1) + t(2) + t(3) + t(4) + t(5) + t(6) + t(7)]

\* Each coefficient is the difference of two sums of two bits.
cbd2(buf) ==
    [i \in Index |-> (Bit(buf, 4 * i) + Bit(buf, 4 * i + 1))
                     - (Bit(buf, 4 * i + 2) + Bit(buf, 4 * i + 3))]

---------------------------------------------------------------------------
poly_add(a, b) == [i \in Index |-> Int16(a[i] + b[i])]
poly_sub(a, b) == [i \in Index |-> Int16(a[i] - b[i])]
poly_reduce(a) == [i \in Index |-> barrett_reduce(a[i])]
\* f is 2^32 modulo q.
poly_tomont(a) == [i \in Index |-> montgomery_reduce(a[i] * 1353)]

poly_ntt(a) == poly_reduce(ntt(a))
poly_invntt_tomont(a) == invntt(a)

\* Mutant: both pairs of a group of four use the same root.
PairZeta_same(m) == zeta(64 + m \div 2)

\* The pair at 2 * m is multiplied modulo X^2 -/+ zetas[64 + m \div 2].
PairZeta(m) == IF m % 2 = 0 THEN zeta(64 + m \div 2) ELSE -zeta(64 + m \div 2)

poly_basemul_montgomery(a, b) ==
    [i \in Index |->
       LET e == 2 * (i \div 2)
       IN  basemul(i % 2, a[e], a[e + 1], b[e], b[e + 1], PairZeta(i \div 2))]

---------------------------------------------------------------------------
polyvec_compress(v) ==
    [n \in 1..(KYBER_K * 320) |->
       LET i == (n - 1) \div 320
           j == ((n - 1) % 320) \div 5
           t(k) == Compress10(v[i][4 * j + k])
       IN  CASE n % 5 = 1 -> t(0) % 256
             [] n % 5 = 2 -> (t(0) \div 256 + t(1) * 4) % 256
             [] n % 5 = 3 -> (t(1) \div 64 + t(2) * 16) % 256
             [] n % 5 = 4 -> (t(2) \div 16 + t(3) * 64) % 256
             [] n % 5 = 0 -> t(3) \div 4]

polyvec_decompress(s) ==
    [i \in Rows |-> [c \in Index |->
       LET a == 320 * i + 5 * (c \div 4) + 1
           k == c % 4
       IN  Decompress10(
             (s[a + k] \div 4^k + s[a + k + 1] * (256 \div 4^k)) % 1024)]]

polyvec_tobytes(v) == poly_tobytes(v[0]) \o poly_tobytes(v[1]) \o poly_tobytes(v[2])
polyvec_frombytes(s) == [i \in Rows |-> poly_frombytes(Part(s, i, KYBER_POLYBYTES))]
polyvec_ntt(v) == [i \in Rows |-> poly_ntt(v[i])]
polyvec_invntt_tomont(v) == [i \in Rows |-> poly_invntt_tomont(v[i])]
polyvec_reduce(v) == [i \in Rows |-> poly_reduce(v[i])]
polyvec_add(v, w) == [i \in Rows |-> poly_add(v[i], w[i])]

polyvec_basemul_acc_montgomery(v, w) ==
    LET t == [i \in Rows |-> poly_basemul_montgomery(v[i], w[i])]
    IN  poly_reduce(poly_add(poly_add(t[0], t[1]), t[2]))

---------------------------------------------------------------------------
\* 0 when the first len bytes are the same, and 1 otherwise.
verify(a, b, len) == IF \A i \in 1..len : a[i] = b[i] THEN 0 ELSE 1

\* r, or x in its place when b is 1.
cmov(r, x, b) == IF b = 1 THEN x ELSE r
===========================================================================
