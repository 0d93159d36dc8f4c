------------------------------ MODULE Fips202 ------------------------------
(***************************************************************************)
(* The sponge of native/mlkem/common/fips202.c on the permutation of       *)
(* Keccak: absorbing and squeezing, in one call or piece by piece, and the *)
(* hash functions ML-KEM takes from it.  Byte strings are sequences of     *)
(* 0..255; r is the rate in bytes, p the domain-separation byte.           *)
(***************************************************************************)
EXTENDS Keccak

Lesser(x, y) == IF x < y THEN x ELSE y

BitsOf == [v \in 0..255 |-> {b \in 0..7 : (v \div 2^b) % 2 = 1}]

ZeroRow == << {}, {}, {}, {}, {} >>
ZeroState == <<ZeroRow, ZeroRow, ZeroRow, ZeroRow, ZeroRow>>

\* The bytes m exclusive-ored into the state from its byte pos on: byte i of a
\* lane is its bits 8i .. 8i + 7 (load64 is little-endian).
XorBytes(s, pos, m) ==
    LET Bits(l) == {8 * k + b : k \in {k \in 0..7 : 8 * l + k >= pos /\ 8 * l + k < pos + Len(m)},
                                b \in 0..7}
        Set(l) == {x \in Bits(l) : x % 8 \in BitsOf[m[8 * l + (x \div 8) - pos + 1]]}
        Lane(l) == Xor(s[(l \div 5) + 1][(l % 5) + 1], Set(l))
        Row(l) == <<Lane(l), Lane(l + 1), Lane(l + 2), Lane(l + 3), Lane(l + 4)>>
    IN  <<Row(0), Row(5), Row(10), Row(15), Row(20)>>

\* n bytes of the state from its byte pos on (store64, or byte by byte).
Bytes(s, pos, n) ==
    LET Bit(lane, b, v) == IF b \in lane THEN v ELSE 0
        Byte(lane, b) == Bit(lane, b, 1) + Bit(lane, b + 1, 2) + Bit(lane, b + 2, 4)
                         + Bit(lane, b + 3, 8) + Bit(lane, b + 4, 16) + Bit(lane, b + 5, 32)
                         + Bit(lane, b + 6, 64) + Bit(lane, b + 7, 128)
        At(i) == Byte(s[((i \div 8) \div 5) + 1][((i \div 8) % 5) + 1], 8 * (i % 8))
    IN  [i \in 1..n |-> At(pos + i - 1)]

---------------------------------------------------------------------------
\* Absorb the whole of m into a zero state and pad it.
keccak_absorb(r, m, p) ==
    LET blocks == Len(m) \div r
        after[k \in 0..blocks] ==
          IF k = 0 THEN ZeroState
          ELSE KeccakF1600_StatePermute(XorBytes(after[k - 1], 0, SubSeq(m, (k - 1) * r + 1, k * r)))
        mlen == Len(m) % r
        t == [i \in 1..r |-> IF i <= mlen THEN m[blocks * r + i] ELSE IF i = mlen + 1 THEN p ELSE 0]
    IN  XorBytes(after[blocks], 0, [t EXCEPT ![r] = IF @ >= 128 THEN @ ELSE @ + 128])

\* nblocks blocks of r bytes and the state after them.
keccak_squeezeblocks(nblocks, s, r) ==
    LET after[k \in 0..nblocks] ==
          IF k = 0 THEN [s |-> s, h |-> <<>>]
          ELSE LET prev == after[k - 1]
                   next == KeccakF1600_StatePermute(prev.s)
               IN  [s |-> next, h |-> prev.h \o Bytes(next, 0, r)]
    IN  after[nblocks]

---------------------------------------------------------------------------
(* The incremental state: s_inc[0..24] is s, s_inc[25] is n, which counts  *)
(* the bytes absorbed since the last permutation and, after the padding,   *)
(* the bytes of the block at hand that have not been squeezed.             *)
keccak_inc_init == [s |-> ZeroState, n |-> 0]

\* Mutant: a block that is just full is not permuted.
keccak_inc_absorb_late(c, r, m) ==
    LET blocks == IF Len(m) + c.n = 0 THEN 0 ELSE (Len(m) + c.n - 1) \div r
        start(k) == IF k = 0 THEN 0 ELSE k * r - c.n
        after[k \in 0..blocks] ==
          IF k = 0 THEN c.s
          ELSE KeccakF1600_StatePermute(XorBytes(after[k - 1], IF k = 1 THEN c.n ELSE 0,
                                                 SubSeq(m, start(k - 1) + 1, start(k))))
        n == IF blocks = 0 THEN c.n ELSE 0
        mlen == Len(m) - start(blocks)
    IN  [s |-> XorBytes(after[blocks], n, SubSeq(m, start(blocks) + 1, Len(m))), n |-> n + mlen]

keccak_inc_absorb(c, r, m) ==
    LET blocks == (Len(m) + c.n) \div r
        start(k) == IF k = 0 THEN 0 ELSE k * r - c.n
        after[k \in 0..blocks] ==
          IF k = 0 THEN c.s
          ELSE KeccakF1600_StatePermute(XorBytes(after[k - 1], IF k = 1 THEN c.n ELSE 0,
                                                 SubSeq(m, start(k - 1) + 1, start(k))))
        n == IF blocks = 0 THEN c.n ELSE 0
        mlen == Len(m) - start(blocks)
    IN  [s |-> XorBytes(after[blocks], n, SubSeq(m, start(blocks) + 1, Len(m))), n |-> n + mlen]

keccak_inc_finalize(c, r, p) ==
    [s |-> XorBytes(XorBytes(c.s, c.n, <<p>>), r - 1, <<128>>), n |-> 0]

keccak_inc_squeeze(outlen, c, r) ==
    LET had == Lesser(outlen, c.n)
        left == outlen - had
        blocks == (left + r - 1) \div r
        after[k \in 0..blocks] ==
          IF k = 0 THEN [s |-> c.s, h |-> Bytes(c.s, r - c.n, had), n |-> c.n - had]
          ELSE LET i == Lesser(left - (k - 1) * r, r)
                   prev == after[k - 1]
                   next == KeccakF1600_StatePermute(prev.s)
               IN  [s |-> next, h |-> prev.h \o Bytes(next, 0, i), n |-> r - i]
    IN  after[blocks]

---------------------------------------------------------------------------
(* The functions built on the sponge.  out = 0 marks an extendable-output  *)
(* function, whose caller names the length it wants.                       *)
shake128 == [r |-> 168, p |-> 31, out |-> 0]
shake256 == [r |-> 136, p |-> 31, out |-> 0]
sha3_256 == [r |-> 136, p |-> 6, out |-> 32]
sha3_384 == [r |-> 104, p |-> 6, out |-> 48]
sha3_512 == [r |-> 72, p |-> 6, out |-> 64]

\* The non-incremental SHAKE: whole blocks first, then a part of one more.
shake(f, outlen, m) ==
    LET nblocks == outlen \div f.r
        first == keccak_squeezeblocks(nblocks, keccak_absorb(f.r, m, f.p), f.r)
        rest == outlen - nblocks * f.r
    IN  IF rest = 0 THEN first.h
        ELSE first.h \o SubSeq(keccak_squeezeblocks(1, first.s, f.r).h, 1, rest)

\* The non-incremental SHA3: the first bytes of one block.
sha3(f, m) == SubSeq(keccak_squeezeblocks(1, keccak_absorb(f.r, m, f.p), f.r).h, 1, f.out)
===========================================================================
