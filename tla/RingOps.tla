------------------------------- MODULE RingOps -------------------------------
(***************************************************************************)
(* What ML-KEM does to one polynomial, loop turn by loop turn: the forward *)
(* transform, the products with the entries of a matrix row or of a public *)
(* key, the inverse transform (native/mlkem/pqclean-ml-kem-768 ntt.c and   *)
(* polyvec.c), or one of its byte formats and back (poly.c, polyvec.c).    *)
(* Coefficients are int16_t that nobody checks: NoWrap says none wraps.    *)
(***************************************************************************)
EXTENDS Poly

CONSTANTS Inputs,   \* polynomials to transform or to serialise
          Factors   \* polynomials already transformed, the other factor

\* Noise, reduced and decompressed polynomials lie within q; a public key is not
\* checked when it is parsed, so its coefficients are any 12-bit numbers.
ASSUME InputsAssumption == Inputs \subseteq [Index -> (-KYBER_Q)..KYBER_Q]
ASSUME FactorsAssumption == Factors \subseteq [Index -> 0..4095]

VARIABLES a,              \* the input
          h,              \* the other factor
          r,              \* r[256], or the bytes written
          k, len, start,  \* the loop variables of the transforms
          pc

vars == <<a, h, r, k, len, start, pc>>

Init ==
    /\ a \in Inputs /\ h \in Factors
    /\ r = a
    /\ k = 1 /\ len = 128 /\ start = 0
    /\ pc = "ntt"

\* One turn of the loop over start in ntt.
NttTurn ==
    /\ pc = "ntt" /\ len >= 2
    /\ r' = NttBlock(r, start, len, zeta(k))
    /\ k' = k + 1
    /\ start' = NextStart(start, len)
    /\ len' = IF Wraps(start, len) THEN len \div 2 ELSE len
    /\ UNCHANGED <<a, h, pc>>

\* poly_ntt ends with poly_reduce.
Reduce ==
    /\ pc = "ntt" /\ len < 2
    /\ r' = poly_reduce(r)
    /\ pc' = "product"
    /\ UNCHANGED <<a, h, k, len, start>>

\* polyvec_basemul_acc_montgomery with the factor in every row, the most that
\* can add up, and the start of invntt.
Product ==
    /\ pc = "product"
    /\ r' = polyvec_basemul_acc_montgomery([i \in Rows |-> h], [i \in Rows |-> r])
    /\ k' = 127 /\ len' = 2 /\ start' = 0
    /\ pc' = "invntt"
    /\ UNCHANGED <<a, h>>

\* One turn of the loop over start in invntt.
InvNttTurn ==
    /\ pc = "invntt" /\ len <= 128
    /\ r' = InvNttBlock(r, start, len, zeta(k))
    /\ k' = k - 1
    /\ start' = NextStart(start, len)
    /\ len' = IF Wraps(start, len) THEN len * 2 ELSE len
    /\ UNCHANGED <<a, h, pc>>

Scale ==
    /\ pc = "invntt" /\ len > 128
    /\ r' = InvNttScale(r)
    /\ pc' = "multiplied"
    /\ UNCHANGED <<a, h, k, len, start>>

---------------------------------------------------------------------------
\* Every caller of the formats reduces the polynomial first.
AtInput == pc = "ntt" /\ k = 1 /\ \A i \in Index : r[i] \in -1664..1664

ToBytes ==
    /\ AtInput
    /\ r' = poly_tobytes(r) /\ pc' = "bytes"
    /\ UNCHANGED <<a, h, k, len, start>>

FromBytes ==
    /\ pc = "bytes"
    /\ r' = poly_frombytes(r) /\ pc' = "parsed"
    /\ UNCHANGED <<a, h, k, len, start>>

\* A ciphertext holds a vector with 10 bits for a coefficient and a polynomial with 4.
Compress ==
    /\ AtInput
    /\ \/ r' = polyvec_compress([i \in Rows |-> r]) /\ pc' = "compressed10"
       \/ r' = poly_compress(r) /\ pc' = "compressed4"
    /\ UNCHANGED <<a, h, k, len, start>>

Decompress ==
    /\ \/ pc = "compressed10" /\ r' = polyvec_decompress(r)[2] /\ pc' = "decompressed10"
       \/ pc = "compressed4" /\ r' = poly_decompress(r) /\ pc' = "decompressed4"
    /\ UNCHANGED <<a, h, k, len, start>>

ToMsg ==
    /\ AtInput
    /\ r' = poly_tomsg(r) /\ pc' = "message"
    /\ UNCHANGED <<a, h, k, len, start>>

FromMsg ==
    /\ pc = "message"
    /\ r' = poly_frommsg(r) /\ pc' = "decompressed1"
    /\ UNCHANGED <<a, h, k, len, start>>

Ended ==
    /\ pc \in {"multiplied", "parsed", "decompressed10", "decompressed4", "decompressed1"}
    /\ UNCHANGED vars

Next ==
    \/ NttTurn \/ Reduce \/ Product \/ InvNttTurn \/ Scale
    \/ ToBytes \/ FromBytes \/ Compress \/ Decompress \/ ToMsg \/ FromMsg
    \/ Ended

Spec == Init /\ [][Next]_vars

---------------------------------------------------------------------------
\* The sum of two products, before it is stored and before it is added.
Accumulated(i) ==
    LET e == 2 * (i \div 2)
        one == IF i % 2 = 0
               THEN fqmul(fqmul(h[e + 1], r[e + 1]), PairZeta(i \div 2)) + fqmul(h[e], r[e])
               ELSE fqmul(h[e], r[e + 1]) + fqmul(h[e + 1], r[e])
    IN  3 * one

\* No sum or difference the next step stores in an int16_t leaves its range:
\* ntt runs seven layers without a reduction, invntt reduces one half of every
\* butterfly, and the accumulated products are reduced at the end only.
NoWrap ==
    /\ pc = "ntt" /\ len >= 2 =>
         \A i \in Lower(start, len) :
            LET t == fqmul(zeta(k), r[i + len])
            IN  r[i] + t \in Int16Range /\ r[i] - t \in Int16Range
    /\ pc = "product" => \A i \in Index : Accumulated(i) \in Int16Range
    /\ pc = "invntt" /\ len <= 128 =>
         \A i \in Lower(start, len) :
            r[i] + r[i + len] \in Int16Range /\ r[i + len] - r[i] \in Int16Range

---------------------------------------------------------------------------
(* The reference: q has a root of unity 17 of order 256, X^256 + 1 splits  *)
(* into 128 factors X^2 - 17^(2 * BitRev(m) + 1), and a polynomial is      *)
(* known by its remainders modulo them.                                    *)
RootPowers ==
    LET build[n \in 1..256, s \in Seq(Int)] ==
          IF n = 256 THEN s ELSE build[n + 1, Append(s, (17 * s[n]) % KYBER_Q)]
    IN  build[1, <<1>>]

BitRev(m) ==
    64 * (m % 2) + 32 * ((m \div 2) % 2) + 16 * ((m \div 4) % 2) + 8 * ((m \div 8) % 2)
    + 4 * ((m \div 16) % 2) + 2 * ((m \div 32) % 2) + (m \div 64)

Root(m, j) == RootPowers[(((2 * BitRev(m) + 1) * j) % 256) + 1]

\* Coefficient p of the remainder of the polynomial f modulo the factor m.
Remainder(f, m, p) ==
    LET sum[j \in 0..128] ==
          IF j = 0 THEN 0 ELSE (sum[j - 1] + f[2 * (j - 1) + p] * Root(m, j - 1)) % KYBER_Q
    IN  sum[128]

\* After poly_ntt the array holds the 128 remainders of the input, in
\* bit-reversed order and reduced.
TransformIsCRT ==
    pc = "product" =>
        \A m \in 0..127, p \in {0, 1} :
            /\ r[2 * m + p] \in -1664..1664
            /\ r[2 * m + p] % KYBER_Q = Remainder(a, m, p)

\* Transform, products and inverse transform multiply in the ring, with no
\* factor of 2^16 left over: the remainders of the result are the products of
\* the remainders, for each of the three equal rows.
ProductInRing ==
    pc = "multiplied" =>
        \A m \in 0..127 :
            LET a0 == Remainder(a, m, 0)
                a1 == Remainder(a, m, 1)
                h0 == h[2 * m] % KYBER_Q
                h1 == h[2 * m + 1] % KYBER_Q
            IN  /\ Remainder(r, m, 0)
                     = (3 * ((a0 * h0) + ((a1 * h1) % KYBER_Q) * Root(m, 1))) % KYBER_Q
                /\ Remainder(r, m, 1) = (3 * ((a0 * h1 + a1 * h0) % KYBER_Q)) % KYBER_Q

\* FIPS 203, Compress: 2^d * x / q rounded to the nearest, modulo 2^d; Decompress
\* the other way round.  n is 2^d.
Rounded(n, x) == ((2 * n * x + KYBER_Q) \div (2 * KYBER_Q)) % n
Restored(n, y) == (2 * KYBER_Q * y + n) \div (2 * n)

\* What the formats make of every coefficient: twelve bits are the standard
\* representative of what poly_tobytes was given, and the multiplications by 80635
\* and 1290167 divide by q exactly as the standard rounds, with every bit of the
\* ciphertext formats kept.
FormatsExact ==
    /\ pc = "parsed" => r = [i \in Index |-> a[i] % KYBER_Q]
    /\ \A d \in {1, 4, 10} :
        pc = (CASE d = 1 -> "decompressed1" [] d = 4 -> "decompressed4"
                [] d = 10 -> "decompressed10") =>
            \A i \in Index : r[i] = Restored(2^d, Rounded(2^d, a[i] % KYBER_Q))
===========================================================================
