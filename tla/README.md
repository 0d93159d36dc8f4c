# A TLA+ model of the chutes E2EE proxy

The proxy sits between local clients and the Chutes API. It accepts OpenAI,
Claude Messages and Responses requests, picks a GPU instance, checks that the
instance's key was made inside a trusted domain, encrypts the prompt to that
key, spends one single-use nonce to deliver it, and decrypts and translates
the answer. It runs in OpenResty: one nginx worker (README.md of the
repository, "`worker_processes 1` is deliberate"), one Lua coroutine per
request, all state in module-level tables.

This directory holds the TLA+ modules that model it, the TLC configurations
that check them on small instances, and TLAPS proofs of the properties that
matter most. `PROJECT.json` lists runs, mutants, hazards, theorems and the
source lines of every definition.

    tlc -workers 2 -config MCConcurrent.cfg MCRoundTrip
    tlapm RoundTrip_proof.tla

## The system

| Component | State | Operations | Interacts with |
|---|---|---|---|
| Round trip (`e2ee_handler.lua`) | locals of each coroutine: attempt, pick, instance, nonce, response | `handle`, `e2ee_round_trip` | everything below; yields at every I/O call |
| Nonce discovery (`e2ee_discovery.lua`) | `nonce_cache` per chute: a batch of instances with nonces, its expiry | `get_nonce`, `take_nonce`, `fetch_instances`, `invalidate_nonces` | selector (pick, invalidate), API |
| Model resolution (`e2ee_discovery.lua`) | `model_map` and its expiry | `resolve_chute_id` | API |
| Instance selector (`instance_selector.lua`) | per chute: sticky instance, ring and position, bans, latency statistics | `pick`, `record`, `invalidate` | called by discovery and by the round trip |
| Attestation (`e2ee_attest.lua`) | `verified`, `failed` per instance, with key and expiry | `guard`, `verify`, `invalidate` | API (evidence), native random bytes |
| Encryption envelope (`e2ee_crypto.lua`, `native/e2ee_proxy_api.c`) | buffers and OpenSSL contexts of a call | build request, decrypt response, stream key, decrypt chunk; gzip, HKDF, ChaCha20-Poly1305 wrappers | called by the round trip; calls ML-KEM, random bytes, OpenSSL, zlib |
| ML-KEM (`native/mlkem/pqclean-ml-kem-768`) | locals of a call | `keypair`, `enc`, `dec` over polynomials with `int16_t` coefficients | called by the envelope; calls the hash functions |
| Hash functions (`native/mlkem/common/fips202.c`) | a Keccak state, and a count of bytes in the incremental interface; on the heap | absorb, finalize, squeeze, clone, release, one call | called by ML-KEM |
| Random bytes (`native/randombytes.c`) | bytes filled so far | `getrandom` loop, `/dev/urandom` fallback | called by envelope and attestation |
| Stream relay (`e2ee_handler.lua`) | buffer, stream key, flags, last usage | read loop, `process_sse_line`, `deliver`, `handle` | selector (record), metrics, the client's callback |
| Claude / Responses translation (`claude_format.lua`, `responses_format.lua`) | a stream state per request | `stream_chunk_from_openai`, `stream_end`, request and response translation | callback of the stream relay |
| Metrics, CORS, configuration, start-up, pass-through | counters; none; none; certificate files | | not modelled yet |

What is hard about it:

* **Interleaving.** A coroutine gives up the worker at each I/O call. Between
  `take_nonce` and the answer of upstream, other requests fetch batches,
  replace them, drop them, ban instances, change stickiness and verify keys.
  What was read before a yield (a batch, a verdict, a time) is used after it.
* **Failure.** Discovery, evidence, connection and request can fail or time
  out; upstream can refuse a nonce, answer 4xx or 5xx, or stop in the middle
  of a stream. Each path must leave the shared tables right, and must not
  send a prompt twice.
* **Framing.** Reads end anywhere in a line; lines may not decrypt; deltas cut
  tags and interleave text, thinking and tool calls.
* **Boundaries.** A full ring, all instances banned, expired batches, an
  average that overflows, a key that is not base64; arithmetic in 16 bits that
  nobody checks and that is reduced only where it has to be; a sponge whose
  block is just full; lengths that pass through `int` and `unsigned int`; a
  size trailer that counts modulo 2^32.
* **Native calls that fail half-way.** Each function of `e2ee_proxy_api.c`
  frees its context on every path and must not report what it did not write.

What makes each component correct: a nonce is used once; a prompt is sealed
only to a verified key and delivered at most once unless its nonce was
refused; a failed instance is avoided and yet never leaves a client without
service while another has nonces; every request is answered; a stream arrives
as sent however it is cut; a translated stream is bracketed and carries
what the untranslated one did; a buffer of random bytes is filled before it is
used; what is sealed is opened with the same parts or not at all, with nothing
left allocated; both sides of an ML-KEM exchange agree exactly when the
ciphertext arrived unchanged; polynomials are multiplied modulo q without a
coefficient wrapping; a digest does not depend on how its input was cut.

## Modules

| Module | Models | Notes |
|---|---|---|
| `InstanceSelector` | `instance_selector.lua`: `pick` in four modes, ring, bans, `invalidate` | operators on the routing state of a chute; scores are a parameter |
| `Attest` | `e2ee_attest.lua`: `select_evidence`, `find_quotes`, `check_quote`, `verify`; the key check of `build_e2ee_request` | operators on evidence documents; a quote is the five facts the code looks at |
| `RoundTrip` | `e2ee_round_trip` with `get_nonce`, `guard` and the shared tables | the core: extends both; one action per step between I/O calls |
| `NonceLedger` | what the proxy promises about nonces | abstract specification; `RoundTrip` maps itself to it (`LedgerSpec`) |
| `SelectorStats` | the selector as a machine of its own, with `record` and `score` | the statistics that `RoundTrip` leaves arbitrary |
| `SSEStream` | the streaming half of `e2ee_round_trip` | |
| `OpenAIChunks` | chat-completion chunks, and how the non-streaming translators read a whole message | shared by the next two |
| `ClaudeStream` | `claude_format.lua` `stream_chunk_from_openai`, `stream_end` | |
| `ResponsesStream` | `responses_format.lua`, the same | |
| `ModelResolver` | `resolve_chute_id` | |
| `RandomBytes` | `native/randombytes.c` on Linux | extended by `Envelope` |
| `Keccak` | the permutation of `fips202.c` | a lane is the set of its one bits |
| `Fips202` | `fips202.c`: absorb, squeeze, padding, the five functions | operators on states |
| `Sponge` | a caller of `fips202.h` | extends `Fips202` |
| `NTT` | `reduce.c`, `ntt.c` | operators with 16- and 32-bit wrapping |
| `Poly` | `poly.c`, `polyvec.c`, `cbd.c`, and reference definitions | extends `NTT` |
| `RingOps` | transforms, products and formats, a loop turn per step | extends `Poly` |
| `IndCpa` | helpers of `indcpa.c`, `symmetric-shake.c`, `verify.c` | extends `Poly`, `Fips202` |
| `Kem` | `kem.c` and the procedures of `indcpa.c` | extends `IndCpa` |
| `Envelope` | `e2ee_crypto.lua`, `e2ee_proxy_api.c` | extends `RandomBytes`; run directly, without an MC module |
| `MC*` | constants of the small instances | |
| `*_proof` | theorems and proofs | by part of the system: `Relay_proof` covers `SSEStream`, `RandomBytes` and `Envelope`, `Routing_proof` `ModelResolver` and `SelectorStats`, `Mlkem_proof` `RingOps` and `Sponge`; `Chunks_proof` has the lemmas the two translators share, on pieces, flattening and the cut between thinking and answer |
| `Induction` | lemmas: induction over the naturals, values of loops | for the proofs about streams and loops |

### RoundTrip

`worker` names the running coroutine. While a coroutine runs, no other step
happens and the clock stands still (`ngx.now()` is cached per event-loop
turn); when it reaches an I/O call, `worker` becomes `Nil` and any waiting
coroutine may be resumed, or time may pass. `pc[r]` names the points of the
code: `take`/`retake` (before and after a discovery fetch), `fetch`, `guard`,
`evidence`, `reject`, `seal`, `connect`, `request`, `body403`, `errbody`,
`body`, `stream`. Each `...Return` action is the resumption with a good
outcome, each `...Fails` with a bad one. `cs`, `nonce_cache`, `verified` and
`failed` are the module-level tables for one chute. `sent`, `attested`,
`refusals` and `lastfail` are histories that only properties read; `res` is the
status of the response that left the attempt loop.

A nonce is named by its batch, instance position and index. The API never
hands one out twice (external); names that nobody knows any more are used
again so that liveness can be checked on a finite graph.

Model names are resolved before `Arrive`; a request whose name does not
resolve is refused like one without a body. The effect of `record` on the
scores is not followed here: `Scores` are arbitrary at each pick, which
includes every value `SelectorStats` can compute.

Attestation takes as given that genuine hardware says the truth
(`EvidenceAssumption`): a quote over our nonce, not in debug mode and with the
pinned measurements, names a key made in that domain. The proxy itself does
not verify the quote's signature (the code says so in its log line).

### SelectorStats

Latencies are fixed-point integers, time counts half-lives, and `FLOAT_MAX`
stands for the largest double: beyond it a value is infinite and stays so.
`Forgotten` half-lives bring any finite value back to the cold start score; an
infinite one never comes back, and `SlowEpisodeForgotten` and its theorem name
it as their exception. `FailurePenalised` is about one call of `record`; that a
failed request makes two (`e2ee_handler.lua:361` and `invalidate`) is modelled
and makes no difference to it.

### SSEStream

A line is three bytes, two of text and the newline, so that a read can end at
each place that matters: before, inside and after the text. A line is one of
ten kinds, by what `process_sse_line` makes of it. One of them is a scalar:
`data: null` or `data: 42` is JSON, but has no fields to look at, and the Lua
error that reading one raises ends the request (`pc = "raised"`).
`ReportedOnce` judges a stream by its lines and by what the reader returned, not
by the code's `had_error`, and names what the code does not report: an error in
a last line without its newline is dropped, so such a stream counts as good.

### ClaudeStream and ResponsesStream

A content delta is an optional opening tag (whole, or one of its halves),
text, an optional closing tag, text. Each piece of text has a name, so that
losing, doubling or reordering it shows. The `think_buffer` of the code is not
a variable: a first delta that begins with the whole tag is long enough to
decide, and any other one is flushed at once, so nothing is ever kept from one
delta to the next. The reference is the non-streaming translator of the same
file applied to the concatenated content.

No message is left out of the properties of `ResponsesStream`. `ItemsBracketed`
asks that the deltas of the message and of each call lie between its
`output_item.added` and `output_item.done`; of the reasoning item it asks less,
because the code may close it and go on with it. `ReasoningStaysClosed` says when:
only after a `</think>` that ended its delta, or after a tool call.
`ReasoningSplit` says where the code cuts a message: where text first follows a
`</think>` in its own delta. When the non-streaming translator cuts there too,
both give the same. After a tool call that follows the reasoning, text counts as
reasoning again, so with tool calls it only says that nothing that was reasoning
is told as text.

### ModelResolver

The service publishes lists at will; a fetch returns the list of the moment at
which the service answered (`Serve`), and the answer arrives later. `start` is
the `now` that the code reads before the fetch and uses after it.

### Sponge

A lane of Keccak is the set of the positions of its one bits, so that exclusive
or is the symmetric difference and a rotation adds to the positions; the
permutation is otherwise the code's, step by step. The caller of `Sponge`
hashes a prefix of `Message` with one of the five functions through one of the
three interfaces of `fips202.h`: in one call, whole blocks at a time (as
`gen_matrix` does) or in pieces (as `rkprf` does), whose lengths are constants,
`Pieces` and `Reads`: any for the proof, the ones around the rate and those of
`rkprf` for the run. It may clone its context at any time and go on with the
clone. `malloc` may fail, which ends the program; when a context is freed is not
followed. The reference, `OutputIsDigest`, pads the whole message as FIPS
202 says and absorbs it in one go.

### RingOps

`ntt`, `invntt`, `basemul` and `reduce` are one action per turn of their outer
loop; a byte format is written and read back in one action each. Every
assignment to a coefficient goes through `Int16`, which wraps as the C does.
`NoWrap` says that the sums and differences the code forms fit without it. The
references are independent of the algorithm: a transformed polynomial is its
remainders by the 128 quadratic factors of X^256 + 1, a product is the product
of those remainders, and a compressed coefficient is the nearest one of its grid.

### Kem

`keypair`, `enc` and `dec` share the variables from `seed` to `v`, which are
the locals of `indcpa_keypair` and `indcpa_enc`. A step is a turn of a loop
(an entry of the matrix, one more block of its rejection sampling) or a group
of assignments that nothing can interrupt. The ciphertext arrives as it was
sent or with one byte changed. Everything is computed on real values, which is
why an instance has few of them.

### Envelope

Keys, ciphertexts and tags are terms: an HKDF output is what went into it, a
tag what it was computed over. ML-KEM is what `Kem` shows of it. Lengths are
numbers and `UINT_MAX` is cut down from 2^32-1, so that the boundaries of
`int`, of `unsigned int` and of the gzip trailer can all be met and passed.
Each call into OpenSSL and zlib is a step and may fail. `CallFails` is that
failure, whichever call it is, and goes where the code goes, to the label `out`
or to the end of the stream; the context or stream is freed there and nowhere
else (`HkdfOut`, `CipherOut`, `DeflateEnd`, `InflateEnd`). `alive` holds what is
not freed, `rc` what the function is to return. On the way back, the wire may damage
any part of the blob or cut it short. The instance's side is external, modelled
by the protocol that `e2ee_crypto.lua` expects of it.

## Runs

| Run | Shows | Bounds |
|---|---|---|
| `concurrent` | nonces used once, keys verified and fresh, one delivery, with two interleaved requests in enforce mode; `RoundTrip` implements `NonceLedger` | 2 instances, 4 keys (one substituted, one not base64), 2 requests, every kind of evidence, 8 batch names, time 0..2, one pick per attempt |
| `failover` | each of two requests is answered, one of them streaming, though each drops and bans what the other uses | one instance, enforce mode, 2 picks and 2 attempts, statuses 200, 403, 404 and 500, time 0..1 |
| `modes` | all four selection modes mixed, attestation in observe mode: ring invariants, an unexpired batch is dropped only when it is empty, bans respected | 3 instances that come and go, a ring of 2, all score tables over {0,1}, time 0..2 |
| `stats` | a failure always costs, a slow episode is forgotten, agent mode sticks | 2 samples per instance, 3 half-lives, a largest double of 18 |
| `stream` | the relay's output does not depend on the framing, the last usage is accounted once, successes and failures are recorded as the lines say | all bodies of up to two lines, and of three after an `e2e_init` |
| `claude` | blocks bracketed index by index, nothing lost, thinking separated | 3 chunks, two tool calls |
| `responses` | nothing lost, closing events agree with deltas, items bracketed, reasoning and text cut at the same place however the deltas fall, a closed reasoning item stays closed but in two named cases | 3 chunks, tags in every position, two tool calls |
| `resolver` | names resolved by recent lists only; every request gets an answer | 2 requests, 3 lists, time 0..2, TTL 1 |
| `sponge` | digests do not depend on the interface, on the pieces or on clones; padding always has room | all five functions, 2 calls that absorb and 2 that squeeze, pieces of 0, 1, r-1 and r+1 bytes; at rate 136 of 32, 135, 137 and 1088, since `rkprf` absorbs 32 and 1088 |
| `ring` | no coefficient wraps; the transform computes remainders, the products are those of the ring, the byte formats are exact | every coefficient from -1664 to 1664 in some input, inputs of the extreme values, factors with all 12 bits |
| `kem` | the matrix belongs to its seed, both sides agree exactly when the ciphertext is intact, the known keyGen answer comes out | the keyGen vector of `selftest_kat.h` and a seed for which an entry needs a fourth block; two messages; a change of byte 0, 959, 960 or 1087 |
| `envelope` | a buffer is used only when filled; what is sealed is opened exactly or an error with a cause is returned; no plaintext outlives a wrong tag, every context and stream is freed; the exchange ends | sizes on both sides of every length check, `UINT_MAX` 255 |

Why the bounds suffice: every conflict over a nonce, a verdict or a ban
involves two coroutines and one instance, plus a second instance to fail over
to; time needs one moment before an expiry, one at it and one after; a ring
shows all of its cases with one member fewer than there are instances; a
translator's state depends on the last chunk and a few flags that three chunks
set in every combination. One pick per attempt keeps `concurrent`
small; `failover` has one instance and two picks, so that a refusal or a
rejected key leads to a second pick from a new batch; the code has three. That a
pick passes over a banned instance to another is what `modes` shows. The proofs of `RoundTrip` cover every value
of these constants. A sponge call meets every case of its loops with a piece
that is empty, one that does not fill a block, one that leaves a byte of room
and one that runs over; two of them in a row reach an exactly full block. Bytes
959 and 960 are the two sides of the boundary between the parts of a
ciphertext. What the runs of `ring` cannot enumerate is proved (`NeverWraps`).

Symmetry is used over the two requests in `concurrent` and `modes` only, where nothing
tells them apart.

### Seen while modelling

Places where the code does not do what its documents or comments say.
The models contain these behaviours; the properties are stated so that they
hold beside them.

* A full ring whose members are in the batch without nonces hides the other
  instances: balanced mode answers 503 "no nonces available for chute"
  (`e2ee_discovery.lua:220`) although one has some. `DropOnlyWhenConsumed` is
  therefore about the other modes.
* "up to three are tried per request" (`README.md:187`) is three per attempt:
  a request whose first nonce was refused may try more.
* "Every response carries `X-E2EE-Instance-Id`" (`README.md:138`): only those
  that reach the end of the attempt loop.
* "one slow episode does not blacklist an instance forever"
  (`instance_selector.lua:146`): each failure record multiplies the average by
  1.9, so that about 1100 of them in a row make it infinite, for good.
* "Round-robin from the last position" (`instance_selector.lua:218`):
  `invalidate` and `prune_ring` remove a member without moving `ring_pos`, so
  the members behind it shift and one may be picked twice in a row.
* "every instance gets probed at least once" (`instance_selector.lua:143`):
  with two instances, one that is faster than the cold start score wins every
  comparison.
* "else keep buffering" (`claude_format.lua:434`) is never reached with a part
  of a tag: an opening tag cut in two is flushed as text. A first delta that
  holds both tags is put into the thinking block as it is. `claude` therefore
  uses whole tags, opening and closing in different deltas.
* "End reasoning" (`responses_format.lua:507`), "Start text output" (`:533`),
  "Close reasoning if still open" (`:681`): a `</think>` that ends its delta
  closes the reasoning item, but the text after it is still delivered as
  reasoning, and the item is closed again at the end. `ReasoningStaysClosed` names
  it as one of its two exceptions, `ReasoningSplit` says where the cut then is.
* A JSON scalar in a `data:` line (`e2ee_handler.lua:192`) raises a Lua error that
  nothing catches; an error in a last line without newline
  (`e2ee_handler.lua:500`) is dropped and the stream recorded as good.
* An instance whose key cannot be sealed to (`e2ee_handler.lua:329`) is neither
  invalidated nor banned, so that a sticky mode comes back to it.
* The block index (`claude_format.lua:537`) is not advanced past tool blocks, so
  two tool calls of one message have the same index. `BlocksBracketed` asks for
  the order of a block's events, not for different indices.
* Responses: text after a tool call takes the call's `output_index`
  (`responses_format.lua:493`); `response.completed` lacks the reasoning and
  every message that was closed before the end (`responses_format.lua:704`);
  with a tool call after thinking, the text part is closed and further text
  counts as reasoning again, whose item is then done twice.

### Fairness

`RoundTrip!FairSpec` and `ModelResolver!FairSpec` ask weak fairness of each
coroutine's steps: the worker runs what is ready and every I/O call has a
timeout, so a waiting coroutine is always resumed. A client's stream may stay
open as long as upstream sends, so `StreamEnds` is not fair and
`EventuallyAnswered` counts a streaming request as answered. `SSEStream` states
no fairness: its bodies are finite and every read has a timeout, so that what it
says of a finished stream is said of every stream.
`Envelope!FairEnvSpec` asks weak fairness of the worker's steps (a C call is not
left half-way), that `getrandom` is not interrupted by signals for ever, and
that the instance answers or the read times out. Nothing that fails is fair.

## Proofs

`RoundTrip_proof` (any sets of requests, instances and keys, any batches,
evidence, scores, statuses, modes and times):

* `TypeCorrect`: `TypeOK` with `LocalInv`, which says what a coroutine holds
  at each point (a running one is the worker; it holds an instance and nonce
  exactly between `take_nonce` and its end; a 403 is looked into on the first
  attempt only). `take_nonce` is the hard step: it needs that `pick` returns a
  position of the batch with at least one nonce, in each mode.
* `SingleUse`: `NonceSingleUse` is not inductive, since a state in which a
  nonce is both cached and spent would violate it a few steps later.
  `NonceInv` adds that the nonces in the batch, in coroutines' hands and on
  the wire are all different. A fetch keeps it because the API's nonces are
  new; taking one because it leaves the batch.
* `ImplementsLedger`: `RoundTrip` implements `NonceLedger` (`LedgerSpec`), step
  by step: `NonceInv` says that a nonce that is handed out is in exactly one of
  the three places the ledger knows.
* `Attested`, `FreshlyAttested`: `SealedToGenuineKey` and `AttestationFresh`. `AttestInv` says
  that every verdict in the cache and every coroutine at `seal` or `connect` is
  backed by a verification of that instance and key, its own or one less than
  the TTL old, and that a verified key is genuine or cannot be decoded; the
  second kind is stopped by the length check at sealing.
* `Deliveries`: `AtMostOneDelivery`. `DeliveryInv` relates what a request has
  sent to the attempt it is in.
* `Avoided`: the action property `AvoidedAfterFailure`. `BanInv` says that the
  bans agree with the times of failure, though lapsed ones are forgotten.
* `DroppedConsumed`: the action property `DropOnlyWhenConsumed`; where `pick`
  finds nobody outside balanced mode, nobody in the batch has a nonce.
* `RingWellFormed`: `RingOK`. `prune_ring` keeps the order of the members and
  `fill` adds only candidates that are not members yet.

They use `SelectorAssumption`, `AttestAssumption`, `RoundTripAssumption`,
`EvidenceAssumption` and `NilAssumption`, which TLC evaluates in every run.

`Routing_proof` (which chute a model name stands for, and which instance of it
serves the request: any lists, batches, latencies and orders of calls):

* `Fresh` (`CacheFresh`) and `Resolved` (`ResolvedAsListed`), from `CacheInv`:
  the cached list was in force when it was made, and expires no later than a
  TTL after that, because the code counts the TTL from a time read before the
  fetch.
* `Sticks`: the action property `AgentSticks`, from `StickyInv`: the selector's
  sticky instance is the one agent mode picked last, though the other modes,
  lapsing bans and failures of other instances write the same record. The
  hypothesis is that no instance is pinned: `PIN_INSTANCE_ID` is looked at
  first and leaves the sticky instance as it was.
* `Penalised`: the action property `FailurePenalised`, from the types and bounds
  of the statistics (`StatsOK`). A failure is recorded as a slow sample and also
  ends the decay toward the cold start value, so the score may move twice; the
  proof shows that the sum of both is a rise. It needs `FailuresCount`:
  `PERF_EWMA_ALPHA` of the least failure sample (10 s) is no less than
  `PERF_COLD_START_S`. The defaults satisfy it. A configuration such as 0.01 and
  60 s does not, and there a fast instance that had been idle long enough to be
  scored as unknown does score better after a failure.
* `Forgiven`: `SlowEpisodeForgotten`. The excess over the cold start value halves
  with every `PERF_HALFLIFE_S`, from at most `FLOAT_MAX`; the hypothesis says
  that `Forgotten` half-lives are enough for that. An average beyond `FLOAT_MAX`
  is excepted by the property; there the statement would be false.

`Mlkem_proof`, arithmetic (any inputs within q, any 12-bit factors, which includes public
keys that nobody has checked):

* `MontgomeryCorrect` and `BarrettCorrect`: what `montgomery_reduce` and
  `barrett_reduce` return, and within which bounds, for every argument they
  may get. The wrapping of intermediate results is part of the statement.
* `NeverWraps`: `NoWrap`. It is not inductive, since the transform adds without
  reducing: the bound on a coefficient grows by q with every layer. `Inv` says,
  for each point of the code, which part of the array lies within which bound:
  in layer `len`, what `start` has passed within one q more than the rest; at
  the products, within q/2, as `poly_reduce` leaves it; in the inverse
  transform, below q. It also ties `k` to `start` and `len`, since a bound on
  the factor `zetas[k]` needs `k` below 128.

* `FormatsRight`: `FormatsExact`, for all polynomials with reduced coefficients: what the byte
  formats pack and unpack, and that the multiplications by 80635 and 1290167
  with a shift divide by q as the standard rounds. `FormatInv` carries what
  the bytes are from the step that writes them to the one that reads them.

They use `InputsAssumption` and `FactorsAssumption`, which TLC evaluates in
`ring`.

`Mlkem_proof`, hashing: `Room` (`RoomForPadding`), for every message, number of
calls and choice of lengths (`Pieces`, `Reads`), from `Inv`: the byte count of an
absorbing context is below the rate, which is at least 72. Full blocks must be
permuted at once, not at the next byte, for the padding byte to have a place.

`Relay_proof`, the envelope (texts of every size, every width of `unsigned int`, every
mixture of failures and damage):

* `Filled` (`UsedOnlyFilled`), from `FillInv`: a loop never counts bytes that
  are not filled.
* `ExactText` (`ExactBothWays`), `FailureHasCause` (`ErrorHasCause`) and
  `NoLeak` (`NothingLeftBehind`), from one invariant, `EnvInv`. None of the
  three is inductive: that the text returned is the one sent needs that an
  envelope on its way opens under no key of this exchange unless it is genuine
  (`BlobOK`), and that the key was derived for it (`KeyOK`); that an error has a
  cause needs that the envelope is still the one sent while there is no cause, and
  what a native function is about to return (`ReturnOK`).
* `Released` (`AllFreed`): at every point of the code exactly the context or
  stream that belongs there is alive. Each call is a step of its own, so this is
  about every exit of the four functions.

`Relay_proof`, the relay (streams of every length, cut in every way):

* `TypeCorrect`: `TypeOK`.
* `SameStream` (`SameAsWhole`), from `RelayInv`: between reads, the output is what
  the lines handled so far deliver, none of them ended the stream, and the rest
  of the bytes read is less than a line. Lines that a read completes are handled
  one by one, an induction over their number.
* `ReportedRight` (`ReportedOnce`), from `ReportInv`: nothing is accounted before
  the end, `last_usage` follows the last delivered line that has one, and
  `had_error` is set exactly when the reader failed or a line handled so far did
  not open. What is left when the reading is over has no line with a newline, so
  `had_error` then knows all that the property asks about; the error in an
  unterminated last line is the exception it names.

`ClaudeStream_proof` (streams of every length, any contents, any lists of
tool-call deltas):

* `Bracketed` (`BlocksBracketed`), from `BracketInv`: the events so far are
  bracketed and, for each index, have started as many blocks more than they
  stopped as the state's flags say are open. It is not enough that the counts do
  not cross, since `stream_end` closes what the flags say. The invariant also
  holds between the handlers of a chunk, and after each tool-call delta of it.
* `ToldAll` (`NothingLost`), from `LostInv`. The property is not inductive: it
  is silent about a tool call whose block has not started. The invariant adds
  that, for each tool call, what the client was told and what is pending make up
  the arguments that came, and that nothing but its own pieces is pending. What
  a log tells is a flattening; `FlatAppend` of `Chunks_proof` says what one more
  event adds to it, and each handler then either tells nothing (`Same`), some text (`Says`) or
  some arguments (`Passes`).
* `ThinkingApart` (`ThinkSeparated`), from `ThinkInv`, under `WholeTagged`: tags
  arrive whole, and no delta both opens and closes the thinking (the code does not
  look for `</think>` in the first delta, and flushes a part of `<think>` as text).
  The invariant says which of three cases the stream is in: no thinking, and all
  text told as text; inside the thinking, with no close so far and all text told
  as thinking; or past it. Then the message splits at its first close and both
  halves were told as what they are, or a tool call cut the thinking short, and
  no close comes before that call.

`ResponsesStream_proof` (the same streams):

* `ResponsesTold` (`NothingLost`) and `DonesRight` (`DoneMatchesDeltas`), from one
  invariant, `TellInv`. Neither is inductive: the closing events repeat what the
  state has accumulated, so the state's `reasoning_text`, `accumulated_text` and
  each call's `args` must be what the log has told of that item, before a call
  has started too, when nothing of it is told and its `args` are what has come.
  `DonesOK` says it of the closing events already in the log, each against the
  deltas before it. Every handler is shown to be quiet (`Quiet`), to tell some
  text (`Speaks`) or some arguments (`Passes`).
* `BracketedItems` (`ItemsBracketed`) and `ReasoningApart` (`ReasoningSplit`),
  from `TellInv` and `ItemInv`, for every message and any tool calls. That the
  counts do not cross says nothing of what the flags will do next, so `ItemInv`
  names the set of the items that are open in the log: the message exactly while
  its text part is, a call exactly once it has started. The reasoning item is
  different: the log says only that it was added, and whether it was done before
  (`Over`), since the code may take it up again; what is needed is that whenever
  the flags say so, `stream_end` closes it. `Phase` says what was told: without an
  opening tag all as text; with one all as reasoning until the answer begins, and
  from then on the reasoning told begins with the reasoning of the message and,
  as long as there was no tool call, the text told is the rest.

Where a loop of the code is a recursive function of the model, a proof reasons
about it through `Induction`: `LoopValues` gives the function's values and
`SetInduction` carries a fact from turn to turn. Both are about sets and
functions, since lemmas with an operator for a parameter are out of reach.

Only model-checked: all liveness properties (fairness is beyond this prover);
`ReasoningStaysClosed`; what the transforms, digests and ML-KEM compute (`TransformIsCRT`, `ProductInRing`, `OutputIsDigest`
and all of `kem`: sums and folds of the libraries, which would need induction
over data).

## What is not modelled

* The inside of SHA-256, HKDF, ChaCha20-Poly1305 and zlib, which are external
  libraries and terms here, and the byte layout of quotes.
* Whether native code takes the same time for every secret.
* Of the known answers in `selftest_kat.h`, encapsulation and decapsulation:
  `Kem` checks the round trip of both against each other, and the keyGen vector.
* `randombytes.c` on systems other than Linux; the library's version string and
  its load-time checks.
* Translation of requests (`request_to_openai`), and of responses beyond
  text, thinking and tool arguments: they are functions of one document,
  without state, and unit tests reach what they do.
* Metrics (counters nobody reads back), CORS (a decision per request),
  configuration, the start-up script, nginx's own proxying, and lua-resty-http,
  which is vendored.
* Several chutes: the tables are per chute and per instance, and no operation
  on one touches another.
* A worker that crashes loses all tables with every request in flight;
  nothing is persisted, so there is nothing to recover.

## Plan

Done in this order: selector and attestation operators; the round trip, its
runs and its proofs; the nonce ledger; selector statistics; the stream relay;
the two stream translators; the model resolver; random bytes; the hash
functions with the proofs of their bounds; the ring arithmetic with its proofs;
ML-KEM; the envelope; liveness of two requests at a time; the proofs of the
ledger, the ring, the byte formats, the envelope, the relay, the Claude stream's
brackets, text and thinking, and the Responses stream's text, closing events,
items and reasoning.

Next:

1. Proofs: `OutputIsDigest`, as far as the folds it rests on allow.
2. The relay composed with a translator, so that one run covers a stream from
   upstream's bytes to the client's events.
3. Request translation of both formats, in particular the pairing of tool
   calls with tool results, against a reference.
4. The self-signed certificate's persistence in `entrypoint.sh` with a stop
   between its two copies.
