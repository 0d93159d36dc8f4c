-------------------------------- MODULE NTT --------------------------------
(***************************************************************************)
(* Arithmetic modulo q in 16-bit integers: native/mlkem/pqclean-ml-kem-768 *)
(* reduce.c and ntt.c.  A polynomial is an array of KYBER_N coefficients   *)
(* indexed from 0; Int16 is what storing into an int16_t does to a value.  *)
(***************************************************************************)
EXTENDS Integers

KYBER_N == 256
KYBER_Q == 3329
MONT == -1044   \* 2^16 modulo q
QINV == -3327   \* the inverse of q modulo 2^16

Int16Range == {x \in Int : -32768 <= x /\ x <= 32767}
Int16(x) == ((x + 32768) % 65536) - 32768

Index == 0..(KYBER_N - 1)
Poly == [Index -> Int16Range]

---------------------------------------------------------------------------
montgomery_reduce(a) ==
    LET t == Int16(Int16(a) * QINV)
    IN  Int16((a - t * KYBER_Q) \div 65536)

\* Mutant: the quotient is cut off instead of rounded.
barrett_reduce_floor(a) ==
    LET t == Int16((20159 * a) \div 67108864)
    IN  Int16(a - Int16(t * KYBER_Q))

\* v is 2^26 / q, rounded, and t is v * a / 2^26, rounded.
barrett_reduce(a) ==
    LET v == (67108864 + KYBER_Q \div 2) \div KYBER_Q
        t == Int16((v * a + 33554432) \div 67108864)
    IN  Int16(a - Int16(t * KYBER_Q))

fqmul(a, b) == montgomery_reduce(a * b)

---------------------------------------------------------------------------
\* Powers of the root of unity 17 in bit-reversed order, times 2^16, modulo q.
zetas ==
    << -1044,  -758,  -359, -1517,  1493,  1422,   287,   202,
        -171,   622,  1577,   182,   962, -1202, -1474,  1468,
         573, -1325,   264,   383,  -829,  1458, -1602,  -130,
        -681,  1017,   732,   608, -1542,   411,  -205, -1571,
        1223,   652,  -552,  1015, -1293,  1491,  -282, -1544,
         516,    -8,  -320,  -666, -1618, -1162,   126,  1469,
        -853,   -90,  -271,   830,   107, -1421,  -247,  -951,
        -398,   961, -1508,  -725,   448, -1065,   677, -1275,
       -1103,   430,   555,   843, -1251,   871,  1550,   105,
         422,   587,   177,  -235,  -291,  -460,  1574,  1653,
        -246,   778,  1159,  -147,  -777,  1483,  -602,  1119,
       -1590,   644,  -872,   349,   418,   329,  -156,   -75,
         817,  1097,   603,   610,  1322, -1285, -1465,   384,
       -1215,  -136,  1218, -1335,  -874,   220, -1187, -1659,
       -1185, -1530, -1278,   794, -1510,  -854,  -870,   478,
        -108,  -308,   996,   991,   958, -1460,  1522,  1628 >>

\* zetas[k], counted from 0 as in the code.
zeta(k) == zetas[k + 1]

\* The lower and the upper half of the block of 2 * len coefficients at start.
Lower(start, len) == start..(start + len - 1)
Upper(start, len) == (start + len)..(start + 2 * len - 1)

\* One turn of the loop over start: len butterflies with the same zeta.
NttBlock(r, start, len, z) ==
    [i \in Index |->
       IF i \in Lower(start, len) THEN Int16(r[i] + fqmul(z, r[i + len]))
       ELSE IF i \in Upper(start, len) THEN Int16(r[i - len] - fqmul(z, r[i]))
       ELSE r[i]]

\* Mutant: the sum is not reduced, "it fits anyway".
InvNttBlock_lazy(r, start, len, z) ==
    [i \in Index |->
       IF i \in Lower(start, len) THEN Int16(r[i] + r[i + len])
       ELSE IF i \in Upper(start, len) THEN fqmul(z, Int16(r[i] - r[i - len]))
       ELSE r[i]]

InvNttBlock(r, start, len, z) ==
    [i \in Index |->
       IF i \in Lower(start, len) THEN barrett_reduce(Int16(r[i] + r[i + len]))
       ELSE IF i \in Upper(start, len) THEN fqmul(z, Int16(r[i] - r[i - len]))
       ELSE r[i]]

\* start = j + len, and the next turn of the loop over len when start is 256.
NextStart(start, len) == IF start + 2 * len < KYBER_N THEN start + 2 * len ELSE 0
Wraps(start, len) == start + 2 * len >= KYBER_N

ntt(r) ==
    LET loop[k \in 1..128, len \in 1..128, start \in Index, a \in Poly] ==
          IF len < 2 THEN a
          ELSE loop[k + 1, IF Wraps(start, len) THEN len \div 2 ELSE len,
                    NextStart(start, len), NttBlock(a, start, len, zeta(k))]
    IN  loop[1, 128, 0, r]

\* fqmul(r[j], mont^2 / 128)
InvNttScale(r) == [i \in Index |-> fqmul(r[i], 1441)]

invntt(r) ==
    LET loop[k \in 0..127, len \in 2..256, start \in Index, a \in Poly] ==
          IF len > 128 THEN InvNttScale(a)
          ELSE loop[k - 1, IF Wraps(start, len) THEN len * 2 ELSE len,
                    NextStart(start, len), InvNttBlock(a, start, len, zeta(k))]
    IN  loop[127, 2, 0, r]

\* (a0 + a1 X)(b0 + b1 X) modulo X^2 - z, divided by 2^16: coefficient p of it.
basemul(p, a0, a1, b0, b1, z) ==
    IF p = 0 THEN Int16(fqmul(fqmul(a1, b1), z) + fqmul(a0, b0))
    ELSE Int16(fqmul(a0, b1) + fqmul(a1, b0))
===========================================================================
