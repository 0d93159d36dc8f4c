------------------------------- MODULE IndCpa -------------------------------
(***************************************************************************)
(* The pure part of native/mlkem/pqclean-ml-kem-768 indcpa.c and           *)
(* symmetric-shake.c: the formats of keys and ciphertexts and the sampling *)
(* of polynomials from the hash functions.                                 *)
(***************************************************************************)
EXTENDS Poly, Fips202

KYBER_SYMBYTES == 32
KYBER_POLYVECBYTES == KYBER_K * KYBER_POLYBYTES
KYBER_POLYVECCOMPRESSEDBYTES == KYBER_K * 320
KYBER_INDCPA_BYTES == KYBER_POLYVECCOMPRESSEDBYTES + KYBER_POLYCOMPRESSEDBYTES
KYBER_SECRETKEYBYTES == 2 * KYBER_POLYVECBYTES + 3 * KYBER_SYMBYTES
GEN_MATRIX_NBLOCKS == ((12 * (KYBER_N \div 8) * 4096) \div KYBER_Q + shake128.r) \div shake128.r

\* n bytes of s from the offset from on.
Slice(s, from, n) == SubSeq(s, from + 1, from + n)

pack_pk(pk, seed) == polyvec_tobytes(pk) \o seed
unpack_pk(s) == polyvec_frombytes(s)
pk_seed(s) == Slice(s, KYBER_POLYVECBYTES, KYBER_SYMBYTES)
pack_sk(sk) == polyvec_tobytes(sk)
unpack_sk(s) == polyvec_frombytes(s)
pack_ciphertext(b, v) == polyvec_compress(b) \o poly_compress(v)
unpack_ciphertext(c) ==
    [b |-> polyvec_decompress(c),
     v |-> poly_decompress(Slice(c, KYBER_POLYVECCOMPRESSEDBYTES, KYBER_POLYCOMPRESSEDBYTES))]

---------------------------------------------------------------------------
hash_h(m) == sha3(sha3_256, m)
hash_g(m) == sha3(sha3_512, m)
xof_absorb(seed, x, y) == keccak_absorb(shake128.r, seed \o <<x, y>>, shake128.p)
prf(outlen, key, nonce) == shake(shake256, outlen, key \o <<nonce>>)

rkprf(key, input) ==
    LET r == shake256.r
        absorbed == keccak_inc_absorb(keccak_inc_absorb(keccak_inc_init, r, key), r, input)
    IN  keccak_inc_squeeze(KYBER_SYMBYTES, keccak_inc_finalize(absorbed, r, shake256.p), r).h

poly_getnoise_eta1(seed, nonce) == cbd2(prf(2 * (KYBER_N \div 4), seed, nonce))
poly_getnoise_eta2(seed, nonce) == cbd2(prf(2 * (KYBER_N \div 4), seed, nonce))

\* The 12-bit numbers of a buffer, two in every three bytes.
Candidates(buf) ==
    [n \in 1..(2 * (Len(buf) \div 3)) |-> Twelve(buf, 3 * ((n - 1) \div 2))[((n - 1) % 2) + 1]]

\* Mutant: the modulus itself passes for a coefficient.
rej_uniform_closed(len, buf) ==
    LET r == SelectSeq(Candidates(buf), LAMBDA val : val <= KYBER_Q)
    IN  SubSeq(r, 1, Lesser(len, Len(r)))

\* At most len of the numbers below q, in the order of the buffer.
rej_uniform(len, buf) ==
    LET r == SelectSeq(Candidates(buf), LAMBDA val : val < KYBER_Q)
    IN  SubSeq(r, 1, Lesser(len, Len(r)))
===========================================================================
