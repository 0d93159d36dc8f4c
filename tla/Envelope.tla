------------------------------ MODULE Envelope ------------------------------
(***************************************************************************)
(* One exchange through the encryption envelope: lua/e2ee_crypto.lua and   *)
(* the calls of native/e2ee_proxy_api.c it is made of.  The worker builds  *)
(* a request, the instance (external) opens it and answers with a response *)
(* or with a stream, the wire may damage what arrives, the worker decrypts *)
(* it.  Every call into OpenSSL and zlib (external) may fail.              *)
(*                                                                         *)
(* Keys, ciphertexts and tags are terms.  ML-KEM is what Kem shows of it:  *)
(* an undamaged ciphertext gives its secret to the key it was made for,    *)
(* anything else an unrelated one.  Lengths are numbers, with 32 bits cut  *)
(* down to those of UINT_MAX.                                              *)
(***************************************************************************)
EXTENDS RandomBytes

CONSTANTS UINT_MAX,      \* the largest unsigned int
          RequestSizes,  \* lengths of the JSON text of a request
          AnswerSizes,   \* lengths of the JSON text of a response
          ChunkSizes     \* lengths of the text in a stream chunk

ASSUME UintAssumption == UINT_MAX \in Nat /\ UINT_MAX >= 127
ASSUME SizesAssumption == /\ RequestSizes \subseteq Nat \ {0}
                          /\ AnswerSizes \subseteq Nat
                          /\ ChunkSizes \subseteq Nat

INT_MAX == UINT_MAX \div 2

VARIABLES at,      \* where the worker is
          kind,    \* what is sealed or opened: request, response, init, chunk
          ct,      \* the ML-KEM ciphertext at hand
          key,     \* the key derived from it
          text,    \* the text to send, then the text the instance has sent
          blob,    \* the envelope on its way
          buf,     \* plaintext buffer of e2ee_chacha20_open
          done,    \* bytes the cipher has been fed
          alive,   \* the OpenSSL contexts and zlib streams that are not freed
          call,    \* calls into OpenSSL that have succeeded since its context was made
          rc,      \* what the function of e2ee_proxy_api.c is to return
          cause,   \* what went wrong outside this code
          result   \* what the caller got

native == <<alive, call, rc>>
evars == <<at, kind, ct, key, text, blob, buf, done, native, cause, result>>
allvars == <<randomVars, evars>>

None == [size |-> 0, len |-> 0, whose |-> "nobody"]

---------------------------------------------------------------------------
\* A ciphertext; its first 16 bytes are the salt.
Encapsulated(pk) == [pk |-> pk, head |-> "intact", rest |-> "intact"]

Secret(sk, c) ==
    IF c = Encapsulated(sk) THEN <<"agreed", sk>> ELSE <<"rejected", sk, c>>

Info(k) == CASE k = "request" -> "e2e-req-v1" [] k = "response" -> "e2e-resp-v1"
             [] k \in {"init", "chunk"} -> "e2e-stream-v1"

\* derive_key: HKDF of the secret, salted with the ciphertext.
KeyFor(ss, c, k) == [ss |-> ss, salt |-> c.head, info |-> Info(k)]

\* What the instance derives from a ciphertext, by the protocol.
InstanceKey(ss, c, k) == [ss |-> ss, salt |-> c.head, info |-> Info(k)]

Sealed(c, k, t) == [ct |-> c, nonce |-> "n", text |-> t, tag |-> <<k, "n", t>>]
Authentic(b, k) == b.tag = <<k, b.nonce, b.text>>

---------------------------------------------------------------------------
(* gzip: 10 bytes before and 8 behind the deflated data, which are at      *)
(* least 2 and at most what deflateBound says.                             *)
DeflateLengths(n) == {20, n + n \div 4096 + n \div 16384 + n \div 33554432 + 25}

\* Mutant: room for the data, none for the framing.
gzip_bound_tight(n) == n + n \div 4096

gzip_bound(n) == n + n \div 4096 + n \div 16384 + n \div 33554432 + 64

\* ISIZE; 0 stands for nil as well, the caller refuses both.
gzip_isize(t) == IF t.len < 18 THEN 0 ELSE t.size % (UINT_MAX + 1)

\* The early returns of e2ee_gzip_compress and e2ee_gzip_decompress.
GzipRefuses(in_len, out_max) == out_max = 0 \/ in_len > UINT_MAX \/ out_max > UINT_MAX

\* deflate: 0 unless the stream has ended.
Deflated(produced, out_max) == IF produced > out_max THEN 0 ELSE produced

\* Mutant: what fitted is returned, whether or not the stream has ended.
Inflated_part(t, out_max) == IF t.size > out_max THEN out_max ELSE t.size

\* inflate, likewise.
Inflated(t, out_max) == IF t.size > out_max THEN 0 ELSE t.size

\* The early returns of e2ee_hkdf_sha256; every length here is a constant.
HkdfRefuses(ikm_len, salt_len, info_len, okm_len) ==
    \/ ikm_len = 0 \/ okm_len = 0
    \/ ikm_len > INT_MAX \/ salt_len > INT_MAX \/ info_len > INT_MAX
    \/ okm_len > 255 * 32

---------------------------------------------------------------------------
EnvInit ==
    /\ RandomInit /\ len > 0
    /\ at = "keygen" /\ kind = "request"
    /\ ct = Encapsulated("nobody") /\ key = KeyFor(<<"none">>, ct, "request")
    /\ text = None /\ result = None
    /\ blob = Sealed(ct, key, text)
    /\ buf = "zero" /\ done = 0
    /\ alive = {} /\ call = 0 /\ rc = 0
    /\ cause = {}

\* The function returns nil and an error; why is "" when only this code is to blame.
Fail(why) ==
    /\ at' = "failed"
    /\ cause' = IF why = "" THEN cause ELSE cause \cup {why}

Goto(step) == at' = step /\ UNCHANGED cause

\* A buffer is to be filled: the coins of ML-KEM, the nonce.
DrawRandom == len' \in 1..MaxLen /\ got' = 0 /\ filled' = 0 /\ fill' = "getrandom"

RandomTurn ==
    /\ at \in {"keygen", "encapsulate", "nonce"}
    /\ Step \/ GetrandomInterrupted
    /\ UNCHANGED evars

---------------------------------------------------------------------------
(* build_e2ee_request                                                      *)
Keygen ==
    /\ at = "keygen" /\ fill = "used"
    /\ Goto("pubkey")
    /\ UNCHANGED <<randomVars, kind, ct, key, text, blob, buf, done, native, result>>

\* base64 and 1184 bytes, or not.
ServerPubkey ==
    /\ at = "pubkey"
    /\ \/ Goto("encapsulate") /\ DrawRandom
       \/ Fail("pubkey") /\ UNCHANGED randomVars
    /\ UNCHANGED <<kind, ct, key, text, blob, buf, done, native, result>>

Encapsulate ==
    /\ at = "encapsulate" /\ fill = "used"
    /\ ct' = Encapsulated("instance")
    /\ Goto("hkdf")
    /\ UNCHANGED <<randomVars, kind, key, text, blob, buf, done, native, result>>

\* derive_key: the context, or NULL.
HkdfNew ==
    /\ at = "hkdf"
    /\ ~HkdfRefuses(32, 16, 13, 32)
    /\ call' = 0 /\ rc' = -1
    /\ \/ alive' = alive \cup {"pctx"} /\ Goto("derive")
       \/ Fail("library") /\ UNCHANGED alive
    /\ UNCHANGED <<randomVars, kind, ct, key, text, blob, buf, done, result>>

SecretKey == IF kind = "request" THEN "instance" ELSE "response"
AfterDerive == CASE kind = "request" -> "payload" [] kind = "response" -> "cipher"
                 [] kind = "init" -> "await"

\* derive_init, and the digest, the salt, the secret and the info set.
HkdfCall ==
    /\ at = "derive" /\ call < 5
    /\ call' = call + 1
    /\ UNCHANGED <<randomVars, at, kind, ct, key, text, blob, buf, done, alive, rc, cause, result>>

HkdfDerive ==
    /\ at = "derive" /\ call = 5
    /\ key' = KeyFor(Secret(SecretKey, ct), ct, kind)
    /\ rc' = 0
    /\ Goto("hkdf_out")
    /\ UNCHANGED <<randomVars, kind, ct, text, blob, buf, done, alive, call, result>>

\* The label out of e2ee_hkdf_sha256.
HkdfOut ==
    /\ at = "hkdf_out"
    /\ alive' = alive \ {"pctx"}
    /\ \/ rc = 0 /\ Goto(AfterDerive)
       \/ rc # 0 /\ Fail("")
    /\ UNCHANGED <<randomVars, kind, ct, key, text, blob, buf, done, call, rc, result>>

\* The response key goes into the payload, if the payload is an object.
InjectResponsePk(n) ==
    /\ at = "payload"
    /\ \/ text' = [size |-> n, len |-> n, whose |-> "ours"] /\ Goto("gzip")
       \/ Fail("payload") /\ UNCHANGED text
    /\ UNCHANGED <<randomVars, kind, ct, key, blob, buf, done, native, result>>

DeflateInit ==
    /\ at = "gzip"
    /\ LET refused == GzipRefuses(text.size, gzip_bound(text.size)) IN
         \/ refused /\ Fail("") /\ UNCHANGED alive
         \/ ~refused /\ alive' = alive \cup {"strm"} /\ Goto("deflate")
         \/ ~refused /\ Fail("library") /\ UNCHANGED alive
    /\ UNCHANGED <<randomVars, kind, ct, key, text, blob, buf, done, call, rc, result>>

Deflate(produced) ==
    /\ at = "deflate"
    /\ rc' = Deflated(produced, gzip_bound(text.size))
    /\ Goto("deflate_end")
    /\ UNCHANGED <<randomVars, kind, ct, key, text, blob, buf, done, alive, call, result>>

DeflateEnd ==
    /\ at = "deflate_end"
    /\ alive' = alive \ {"strm"}
    /\ \/ rc # 0 /\ text' = [text EXCEPT !.len = rc] /\ Goto("nonce") /\ DrawRandom
       \/ rc = 0 /\ Fail("") /\ UNCHANGED <<randomVars, text>>
    /\ UNCHANGED <<kind, ct, key, blob, buf, done, call, rc, result>>

Nonce ==
    /\ at = "nonce" /\ fill = "used"
    /\ Goto("cipher")
    /\ UNCHANGED <<randomVars, kind, ct, key, text, blob, buf, done, native, result>>

---------------------------------------------------------------------------
(* chacha20_poly1305, to seal a request or to open what has arrived        *)
Encrypting == kind = "request"
InLen == IF Encrypting THEN text.len ELSE blob.text.len

CipherNew ==
    /\ at = "cipher"
    /\ done' = 0 /\ buf' = "zero" /\ call' = 0 /\ rc' = -1
    /\ \/ alive' = alive \cup {"ctx"} /\ Goto("setup")
       \/ Fail("library") /\ UNCHANGED alive
    /\ UNCHANGED <<randomVars, kind, ct, key, text, blob, result>>

\* The cipher, the length of the nonce, the key and the nonce, and the tag to compare.
SetupCalls == IF Encrypting THEN 3 ELSE 4
CipherSetup ==
    /\ at = "setup"
    /\ call' = call + 1
    /\ Goto(IF call' = SetupCalls THEN "loop" ELSE "setup")
    /\ UNCHANGED <<randomVars, kind, ct, key, text, blob, buf, done, alive, rc, result>>

\* Mutant: no bytes for the longest chunk.
Chunk_zero == IF InLen - done > INT_MAX \div 2 THEN 0 ELSE InLen - done

Chunk == IF InLen - done > INT_MAX \div 2 THEN INT_MAX \div 2 ELSE InLen - done

CipherUpdate ==
    /\ at = "loop" /\ done < InLen
    /\ done' = done + Chunk
    /\ buf' = IF Encrypting THEN buf ELSE "decrypted"
    /\ UNCHANGED <<randomVars, at, kind, ct, key, text, blob, native, cause, result>>

\* Mutant: what has been decrypted stays in the buffer.
Scrub_none == UNCHANGED buf

\* memset in e2ee_chacha20_open
Scrub == buf' = "zero"

AfterOpen == IF kind = "response" THEN "inflate" ELSE "returned"

\* EVP_CipherFinal_ex compares the tag when it decrypts.
CipherFinal ==
    /\ at = "loop" /\ done = InLen
    /\ \/ Encrypting /\ Goto("get_tag") /\ UNCHANGED rc
       \/ ~Encrypting /\ Authentic(blob, key) /\ Goto("cipher_out") /\ rc' = 0
       \/ ~Encrypting /\ ~Authentic(blob, key) /\ Goto("cipher_out") /\ UNCHANGED rc
    /\ UNCHANGED <<randomVars, kind, ct, key, text, blob, buf, done, alive, call, result>>

GetTag ==
    /\ at = "get_tag"
    /\ blob' = Sealed(ct, key, text)
    /\ rc' = 0
    /\ Goto("cipher_out")
    /\ UNCHANGED <<randomVars, kind, ct, key, text, buf, done, alive, call, result>>

\* The label out of chacha20_poly1305, and the rest of e2ee_chacha20_open.
CipherOut ==
    /\ at = "cipher_out"
    /\ alive' = alive \ {"ctx"}
    /\ \/ rc = 0 /\ Encrypting /\ Goto("sent") /\ UNCHANGED <<buf, result>>
       \/ /\ rc = 0 /\ ~Encrypting /\ Goto(AfterOpen)
          /\ result' = IF kind = "chunk" THEN blob.text ELSE None
          /\ UNCHANGED buf
       \/ rc # 0 /\ Encrypting /\ Fail("") /\ UNCHANGED <<buf, result>>
       \/ rc # 0 /\ ~Encrypting /\ Fail("") /\ Scrub /\ UNCHANGED result
    /\ UNCHANGED <<randomVars, kind, ct, key, text, blob, done, call, rc>>

---------------------------------------------------------------------------
(* A call into OpenSSL or zlib fails                                       *)

\* Mutant: the info cannot be added, and that is all.
Out_of_info ==
    CASE at = "derive" -> IF call = 4 THEN "failed" ELSE "hkdf_out"
      [] at \in {"setup", "loop", "get_tag"} -> "cipher_out"
      [] at = "deflate" -> "deflate_end"
      [] at = "inflating" -> "inflate_end"

\* Where the function goes then: "goto out", or on to the end of the stream.
Out ==
    CASE at = "derive" -> "hkdf_out"
      [] at \in {"setup", "loop", "get_tag"} -> "cipher_out"
      [] at = "deflate" -> "deflate_end"
      [] at = "inflating" -> "inflate_end"

\* An update that fails may have decrypted something.
CallFails ==
    /\ at \in {"derive", "setup", "loop", "get_tag", "deflate", "inflating"}
    /\ at' = Out
    /\ rc' = IF at \in {"deflate", "inflating"} THEN 0 ELSE -1
    /\ buf' \in IF at = "loop" /\ ~Encrypting /\ done < InLen THEN {buf, "decrypted"} ELSE {buf}
    /\ cause' = cause \cup {"library"}
    /\ UNCHANGED <<randomVars, kind, ct, key, text, blob, done, alive, call, result>>

---------------------------------------------------------------------------
(* The instance and the wire                                               *)
Answered(t, c, k) == Sealed(c, InstanceKey(Secret("response", c), c, k), t)

\* The instance opens the request and answers to the key it found inside.
InstanceResponds(n, produced) ==
    /\ at = "sent"
    /\ kind' = "response"
    /\ text' = [size |-> n, len |-> produced, whose |-> "ours"]
    /\ blob' = Answered(text', Encapsulated("response"), "response")
    /\ Goto("wire")
    /\ UNCHANGED <<randomVars, ct, key, buf, done, native, result>>

InstanceStreams ==
    /\ at = "sent"
    /\ kind' = "init"
    /\ blob' = Answered(None, Encapsulated("response"), "init")
    /\ Goto("wire")
    /\ UNCHANGED <<randomVars, ct, key, text, buf, done, native, result>>

\* The chunks of a stream are sealed with the key of its e2e_init event.
InstanceSendsChunk(n) ==
    /\ at = "await"
    /\ kind' = "chunk"
    /\ text' = [size |-> n, len |-> n, whose |-> "ours"]
    /\ blob' = Answered(text', Encapsulated("response"), "chunk")
    /\ Goto("wire")
    /\ UNCHANGED <<randomVars, ct, key, buf, done, native, result>>

\* An envelope of another exchange, well made for somebody else's key.
Foreign ==
    LET c == Encapsulated("other")
    IN  Sealed(c, InstanceKey(Secret("other", c), c, kind), [text EXCEPT !.whose = "theirs"])

Damaged ==
    { [blob EXCEPT !.ct.head = "damaged"], [blob EXCEPT !.ct.rest = "damaged"],
      [blob EXCEPT !.nonce = "damaged"], [blob EXCEPT !.text.whose = "damaged"],
      [blob EXCEPT !.tag = <<"damaged">>], Foreign }

\* decrypt_response, decrypt_stream_init and decrypt_stream_chunk check a length first.
Receive ==
    /\ at = "wire"
    /\ LET step == IF kind = "chunk" THEN "cipher" ELSE "decapsulate" IN
         \/ Goto(step) /\ UNCHANGED blob
         \/ blob' \in Damaged /\ at' = step /\ cause' = cause \cup {"wire"}
         \/ Fail("wire") /\ UNCHANGED blob
    /\ UNCHANGED <<randomVars, kind, ct, key, text, buf, done, native, result>>

\* It never fails: a ciphertext for somebody else gives a useless secret.
Decapsulate ==
    /\ at = "decapsulate"
    /\ ct' = blob.ct
    /\ Goto("hkdf")
    /\ UNCHANGED <<randomVars, kind, key, text, blob, buf, done, native, result>>

\* The last steps of decrypt_response: a buffer by the size trailer, and e2ee_gzip_decompress.
InflateRoom == gzip_isize(blob.text) + 1
InflateInit ==
    /\ at = "inflate"
    /\ LET refused == \/ gzip_isize(blob.text) = 0 \/ blob.text.len = 0
                      \/ GzipRefuses(blob.text.len, InflateRoom)
       IN  \/ refused /\ Fail("") /\ UNCHANGED alive
           \/ ~refused /\ alive' = alive \cup {"strm"} /\ Goto("inflating")
           \/ ~refused /\ Fail("library") /\ UNCHANGED alive
    /\ UNCHANGED <<randomVars, kind, ct, key, text, blob, buf, done, call, rc, result>>

Inflate ==
    /\ at = "inflating"
    /\ rc' = Inflated(blob.text, InflateRoom)
    /\ Goto("inflate_end")
    /\ UNCHANGED <<randomVars, kind, ct, key, text, blob, buf, done, alive, call, result>>

InflateEnd ==
    /\ at = "inflate_end"
    /\ alive' = alive \ {"strm"}
    /\ \/ rc # 0 /\ result' = [blob.text EXCEPT !.size = rc] /\ Goto("returned")
       \/ rc = 0 /\ Fail("") /\ UNCHANGED result
    /\ UNCHANGED <<randomVars, kind, ct, key, text, blob, buf, done, call, rc>>

ExchangeOver == (at \in {"returned", "failed"} \/ fill = "aborted") /\ UNCHANGED allvars

---------------------------------------------------------------------------
Worker ==
    \/ Keygen \/ ServerPubkey \/ Encapsulate
    \/ HkdfNew \/ HkdfCall \/ HkdfDerive \/ HkdfOut
    \/ \E n \in RequestSizes : InjectResponsePk(n)
    \/ DeflateInit \/ (\E produced \in DeflateLengths(text.size) : Deflate(produced)) \/ DeflateEnd
    \/ Nonce \/ CipherNew \/ CipherSetup \/ CipherUpdate \/ CipherFinal \/ GetTag \/ CipherOut
    \/ Receive \/ Decapsulate \/ InflateInit \/ Inflate \/ InflateEnd

Instance ==
    \/ \E n \in AnswerSizes : \E produced \in DeflateLengths(n) : InstanceResponds(n, produced)
    \/ InstanceStreams
    \/ \E n \in ChunkSizes : InstanceSendsChunk(n)

EnvNext == RandomTurn \/ Worker \/ CallFails \/ Instance \/ ExchangeOver

EnvSpec == EnvInit /\ [][EnvNext]_allvars

\* The worker does not stop in the middle of a call, getrandom() is not
\* interrupted for ever, and the instance answers.  Nothing has to fail.
FairEnvSpec == EnvSpec /\ WF_allvars(RandomTurn) /\ WF_allvars(Worker) /\ WF_allvars(Instance)

---------------------------------------------------------------------------
\* What build_e2ee_request sends the instance can open with the key it derives
\* itself, and what decrypt_response and decrypt_stream_chunk return is what
\* the instance sent to this exchange, to the last byte: damage, a foreign
\* envelope or a size trailer that does not fit never yields other text.
ExactBothWays ==
    /\ at = "sent" =>
         /\ Authentic(blob, InstanceKey(Secret("instance", blob.ct), blob.ct, "request"))
         /\ blob.text = text
    /\ at = "returned" => result = text

\* No error without a reason outside this code, but for sizes the 32-bit
\* interface of zlib or the size trailer cannot express: whatever the sizes, an
\* intact answer is decrypted (gzip_bound, gzip_isize, the loop over chunks).
ErrorHasCause ==
    at = "failed" /\ cause = {} =>
        \/ kind = "request" /\ gzip_bound(text.size) > UINT_MAX
        \/ kind = "response" /\ (text.size = 0 \/ text.size >= UINT_MAX \/ text.len > UINT_MAX)

\* "Never leak partially-decrypted bytes on authentication failure": decrypted
\* bytes outlive the cipher only when the tag was right (e2ee_chacha20_open).
NothingLeftBehind ==
    at \notin {"loop", "cipher_out"} /\ buf = "decrypted" => Authentic(blob, key)

\* Whichever call into OpenSSL or zlib fails, when the function it was made in has
\* returned its context or stream is freed, and no other is (the labels out,
\* deflateEnd, inflateEnd).
AllFreed ==
    alive = CASE at \in {"derive", "hkdf_out"} -> {"pctx"}
              [] at \in {"setup", "loop", "get_tag", "cipher_out"} -> {"ctx"}
              [] at \in {"deflate", "deflate_end", "inflating", "inflate_end"} -> {"strm"}
              [] OTHER -> {}

\* Every exchange ends: with a text, with an error, or with the worker aborted
\* because there are no random bytes to be had.
ExchangeEnds == <>(at \in {"returned", "failed"} \/ fill = "aborted")
===========================================================================
