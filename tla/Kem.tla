--------------------------------- MODULE Kem ---------------------------------
(***************************************************************************)
(* ML-KEM-768, native/mlkem/pqclean-ml-kem-768 kem.c and the procedures of *)
(* indcpa.c: an instance makes a key pair, the proxy encapsulates a secret *)
(* to it, the ciphertext arrives as it was sent or changed, the instance   *)
(* decapsulates.  who is the procedure that runs: "keypair", "enc" or      *)
(* "dec", which encrypts again; the variables from seed to v are its       *)
(* locals.  A step is a loop turn or a group of assignments.               *)
(***************************************************************************)
EXTENDS IndCpa

CONSTANTS Coins,    \* pairs <<d, z>>, the randomness of a key pair
          Messages, \* the randomness of an encapsulation
          Flips,    \* offsets of the bytes that may change on the way
          Vectors   \* known answers: [coins, h], h the hash of the public key

VARIABLES pc, who,
          coins, pk, sk,        \* the instance's
          m, ct, ss,            \* the proxy's
          wire, key,            \* what arrives, and the instance's secret
          buf, kr,              \* the message and the hash of it
          seed, nonceseed,      \* what the matrix and the noise come from
          a, cell, xof, noise,  \* the matrix, the entry at hand, its state
          b, v

locals == <<seed, nonceseed, a, cell, xof, noise, b, v>>
vars == <<pc, who, coins, pk, sk, m, ct, ss, wire, key, buf, kr, locals>>

None == <<>>
NoMatrix == [i \in Rows |-> [j \in Rows |-> None]]
\* A matrix entry is filled as a sequence; this is the polynomial it is.
AsPoly(s) == [i \in Index |-> s[i + 1]]
Row(i) == [j \in Rows |-> AsPoly(a[i][j])]

Init ==
    /\ coins \in Coins
    /\ pc = "idle" /\ who = "keypair"
    /\ pk = None /\ sk = None /\ m = None /\ ct = None /\ ss = None
    /\ wire = None /\ key = None /\ buf = None /\ kr = None
    /\ seed = None /\ nonceseed = None /\ noise = None /\ b = None /\ v = None
    /\ a = NoMatrix /\ cell = 0 /\ xof = None

Locals(publicseed, noiseseed) ==
    /\ seed' = publicseed /\ nonceseed' = noiseseed
    /\ a' = NoMatrix /\ cell' = 0 /\ xof' = None
    /\ noise' = None /\ b' = None /\ v' = None

---------------------------------------------------------------------------
\* gen_matrix, three blocks at first; i, j of the entry are cell \div 3, cell % 3.
XofFirst ==
    /\ pc = "matrix" /\ cell < 9 /\ xof = None
    /\ LET i == cell \div 3
           j == cell % 3
           state == IF who = "keypair" THEN xof_absorb(seed, j, i) ELSE xof_absorb(seed, i, j)
           squeezed == keccak_squeezeblocks(GEN_MATRIX_NBLOCKS, state, shake128.r)
       IN  /\ a' = [a EXCEPT ![i][j] = rej_uniform(KYBER_N, squeezed.h)]
           /\ xof' = squeezed.s
    /\ UNCHANGED <<pc, who, coins, pk, sk, m, ct, ss, wire, key, buf, kr,
                   seed, nonceseed, cell, noise, b, v>>

\* ... then one block at a time while coefficients are missing.
XofMore ==
    /\ pc = "matrix" /\ xof # None
    /\ LET i == cell \div 3
           j == cell % 3
           squeezed == keccak_squeezeblocks(1, xof, shake128.r)
       IN  /\ Len(a[i][j]) < KYBER_N
           /\ a' = [a EXCEPT ![i][j] = @ \o rej_uniform(KYBER_N - Len(@), squeezed.h)]
           /\ xof' = squeezed.s
    /\ UNCHANGED <<pc, who, coins, pk, sk, m, ct, ss, wire, key, buf, kr,
                   seed, nonceseed, cell, noise, b, v>>

XofRelease ==
    /\ pc = "matrix" /\ xof # None
    /\ Len(a[cell \div 3][cell % 3]) = KYBER_N
    /\ cell' = cell + 1 /\ xof' = None
    /\ UNCHANGED <<pc, who, coins, pk, sk, m, ct, ss, wire, key, buf, kr,
                   seed, nonceseed, a, noise, b, v>>

\* Every polynomial has a nonce of its own: six for a key pair, seven for a ciphertext.
GetNoise ==
    /\ pc = "matrix" /\ cell = 9
    /\ noise' = [nonce \in 0..(IF who = "keypair" THEN 5 ELSE 6) |->
                   IF nonce < KYBER_K \/ who = "keypair"
                   THEN poly_getnoise_eta1(nonceseed, nonce)
                   ELSE poly_getnoise_eta2(nonceseed, nonce)]
    /\ pc' = "ntt"
    /\ UNCHANGED <<who, coins, pk, sk, m, ct, ss, wire, key, buf, kr,
                   seed, nonceseed, a, cell, xof, b, v>>

NoiseVec(from) == [i \in Rows |-> noise[from + i]]

---------------------------------------------------------------------------
\* crypto_kem_keypair_derand, indcpa_keypair_derand
Keypair ==
    /\ pc = "idle" /\ who = "keypair"
    /\ LET g == hash_g(coins[1] \o <<KYBER_K>>)
       IN  Locals(Slice(g, 0, KYBER_SYMBYTES), Slice(g, KYBER_SYMBYTES, KYBER_SYMBYTES))
    /\ pc' = "matrix"
    /\ UNCHANGED <<who, coins, pk, sk, m, ct, ss, wire, key, buf, kr>>

\* b is the secret vector, v the error vector.
KeypairNtt ==
    /\ pc = "ntt" /\ who = "keypair"
    /\ b' = polyvec_ntt(NoiseVec(0))
    /\ v' = polyvec_ntt(NoiseVec(KYBER_K))
    /\ pc' = "product"
    /\ UNCHANGED <<who, coins, pk, sk, m, ct, ss, wire, key, buf, kr,
                   seed, nonceseed, a, cell, xof, noise>>

\* Mutant: the product is not brought back to the Montgomery domain.
PublicVec_plain ==
    [i \in Rows |-> polyvec_basemul_acc_montgomery(Row(i), b)]

PublicVec ==
    [i \in Rows |-> poly_tomont(polyvec_basemul_acc_montgomery(Row(i), b))]

\* sk is the secret vector, the public key, its hash and z.
KeypairPack ==
    /\ pc = "product" /\ who = "keypair"
    /\ pk' = pack_pk(polyvec_reduce(polyvec_add(PublicVec, v)), seed)
    /\ sk' = pack_sk(b) \o pk' \o hash_h(pk') \o coins[2]
    /\ pc' = "idle" /\ who' = "enc"
    /\ Locals(None, None)
    /\ UNCHANGED <<coins, m, ct, ss, wire, key, buf, kr>>

---------------------------------------------------------------------------
\* crypto_kem_enc_derand up to indcpa_enc.
Enc(msg) ==
    /\ pc = "idle" /\ who = "enc"
    /\ m' = msg
    /\ buf' = msg \o hash_h(pk)
    /\ kr' = hash_g(buf')
    /\ Locals(pk_seed(pk), Slice(kr', KYBER_SYMBYTES, KYBER_SYMBYTES))
    /\ pc' = "matrix"
    /\ UNCHANGED <<who, coins, pk, sk, ct, ss, wire, key>>

\* The public key indcpa_enc works with: in crypto_kem_dec the one inside sk.
EncKey == IF who = "enc" THEN pk ELSE Slice(sk, KYBER_POLYVECBYTES, Len(pk))

\* b is sp, and then the product of the matrix with it; v the product of the key.
EncNtt ==
    /\ pc = "ntt" /\ who # "keypair"
    /\ b' = polyvec_ntt(NoiseVec(0))
    /\ pc' = "product"
    /\ UNCHANGED <<who, coins, pk, sk, m, ct, ss, wire, key, buf, kr,
                   seed, nonceseed, a, cell, xof, noise, v>>

EncProduct ==
    /\ pc = "product" /\ who # "keypair"
    /\ b' = [i \in Rows |-> polyvec_basemul_acc_montgomery(Row(i), b)]
    /\ v' = polyvec_basemul_acc_montgomery(unpack_pk(EncKey), b)
    /\ pc' = "invntt"
    /\ UNCHANGED <<who, coins, pk, sk, m, ct, ss, wire, key, buf, kr,
                   seed, nonceseed, a, cell, xof, noise>>

EncInvNtt ==
    /\ pc = "invntt"
    /\ b' = polyvec_invntt_tomont(b)
    /\ v' = poly_invntt_tomont(v)
    /\ pc' = "pack"
    /\ UNCHANGED <<who, coins, pk, sk, m, ct, ss, wire, key, buf, kr,
                   seed, nonceseed, a, cell, xof, noise>>

\* The ciphertext indcpa_enc ends with.
Ciphertext ==
    LET k == poly_frommsg(Slice(buf, 0, KYBER_SYMBYTES))
        sum == poly_add(poly_add(v, noise[2 * KYBER_K]), k)
    IN  pack_ciphertext(polyvec_reduce(polyvec_add(b, NoiseVec(KYBER_K))), poly_reduce(sum))

EncPack ==
    /\ pc = "pack" /\ who = "enc"
    /\ ct' = Ciphertext
    /\ ss' = Slice(kr, 0, KYBER_SYMBYTES)
    /\ pc' = "sent"
    /\ Locals(None, None)
    /\ UNCHANGED <<who, coins, pk, sk, m, wire, key, buf, kr>>

---------------------------------------------------------------------------
\* The ciphertext arrives as it was sent, or with a bit of one byte changed.
Arrive(c) ==
    /\ pc = "sent"
    /\ wire' = c
    /\ pc' = "arrived" /\ who' = "dec"
    /\ UNCHANGED <<coins, pk, sk, m, ct, ss, key, buf, kr, locals>>

Flipped(offset) == [ct EXCEPT ![offset + 1] = IF @ % 2 = 0 THEN @ + 1 ELSE @ - 1]

\* crypto_kem_dec: indcpa_dec in two steps.
Dec ==
    /\ pc = "arrived"
    /\ LET u == unpack_ciphertext(wire)
       IN  b' = polyvec_ntt(u.b) /\ v' = u.v
    /\ pc' = "decrypt"
    /\ UNCHANGED <<who, coins, pk, sk, m, ct, ss, wire, key, buf, kr,
                   seed, nonceseed, a, cell, xof, noise>>

\* ... and the hash of what was decrypted, from which it is encrypted again.
DecMessage ==
    /\ pc = "decrypt"
    /\ LET mp == poly_invntt_tomont(polyvec_basemul_acc_montgomery(unpack_sk(sk), b))
       IN  buf' = poly_tomsg(poly_reduce(poly_sub(v, mp)))
                  \o Slice(sk, KYBER_SECRETKEYBYTES - 2 * KYBER_SYMBYTES, KYBER_SYMBYTES)
    /\ kr' = hash_g(buf')
    /\ Locals(pk_seed(EncKey), Slice(kr', KYBER_SYMBYTES, KYBER_SYMBYTES))
    /\ pc' = "matrix"
    /\ UNCHANGED <<who, coins, pk, sk, m, ct, ss, wire, key>>

\* Mutant: only the compressed vector is compared.
Fail_prefix(cmp) == verify(wire, cmp, KYBER_POLYVECCOMPRESSEDBYTES)

Fail(cmp) == verify(wire, cmp, KYBER_INDCPA_BYTES)

DecSelect ==
    /\ pc = "pack" /\ who = "dec"
    /\ LET z == Slice(sk, KYBER_SECRETKEYBYTES - KYBER_SYMBYTES, KYBER_SYMBYTES)
       IN  key' = cmov(rkprf(z, wire), Slice(kr, 0, KYBER_SYMBYTES), 1 - Fail(Ciphertext))
    /\ pc' = "done"
    /\ Locals(None, None)
    /\ UNCHANGED <<who, coins, pk, sk, m, ct, ss, wire, buf, kr>>

Done == pc = "done" /\ UNCHANGED vars

Next ==
    \/ Keypair \/ KeypairNtt \/ KeypairPack
    \/ \E msg \in Messages : Enc(msg)
    \/ EncNtt \/ EncProduct \/ EncInvNtt \/ EncPack
    \/ Arrive(ct)
    \/ \E offset \in Flips : Arrive(Flipped(offset))
    \/ Dec \/ DecMessage \/ DecSelect
    \/ XofFirst \/ XofMore \/ XofRelease \/ GetNoise
    \/ Done

Spec == Init /\ [][Next]_vars

---------------------------------------------------------------------------
\* FIPS 203, SampleNTT: the first 256 numbers below q in one long stream.
SampleNTT(B) ==
    SubSeq(SelectSeq(Candidates(shake(shake128, 6 * shake128.r, B)), LAMBDA d : d < KYBER_Q),
           1, KYBER_N)

\* gen_matrix gives the matrix of the standard, and indcpa_enc its transpose,
\* also when the first three blocks hold too few numbers below q: the blocks
\* squeezed later go on where the sampling stopped.
MatrixOfSeed ==
    pc = "matrix" /\ cell = 9 =>
        \A i, j \in Rows :
            a[i][j] = SampleNTT(seed \o (IF who = "keypair" THEN <<j, i>> ELSE <<i, j>>))

\* Both ends hold the same secret when the ciphertext arrived as it was sent
\* (crypto_kem_enc, crypto_kem_dec); when a byte of it has changed, anywhere,
\* the instance holds J(z || c), which is another one.
SecretAgreed ==
    pc = "done" =>
        /\ wire = ct => key = ss
        /\ wire # ct => key # ss /\ key = shake(shake256, KYBER_SYMBYTES, coins[2] \o wire)

\* The keyGen vector of selftest.c: a variant of the scheme that agrees with
\* itself but is not FIPS 203 gives another public key.
KnownAnswer ==
    \A vec \in Vectors :
        pc = "idle" /\ who = "enc" /\ coins = vec.coins =>
            /\ hash_h(pk) = vec.h
            /\ Slice(sk, KYBER_SECRETKEYBYTES - 2 * KYBER_SYMBYTES, 2 * KYBER_SYMBYTES)
                 = vec.h \o coins[2]
===========================================================================
