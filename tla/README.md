# cat-token: a TLA+ verification project

`cat-token` is a Rust crate for Common Access Tokens (CAT) as MOQT relays use
them: it encodes and decodes the tokens, verifies them, and decides whether a
request at a relay is authorized. This directory holds TLA+ models of the parts
of it that keep state or take decisions, the TLC configurations that check them
on small instances, and TLAPS proofs of the results that matter most. All
references of the form `dpop.rs:2270` are to `src/src/`.

## 1. The system

### Components, their state and their operations

| Component | Source | State | Operations |
|---|---|---|---|
| Strict JTI store | `dpop.rs` `InMemoryStrictJtiStore` | sharded maps key -> iat, each under a mutex; an atomic entry counter; a rejection counter | `check_and_insert`, `cleanup`, `cleanup_expired` |
| LRU JTI store | `dpop.rs` `LruJtiStore` | sharded LRU caches, a `premature_evictions` counter | `check_and_insert`, `cleanup` |
| Async strict JTI store | `async.rs` `AsyncInMemoryStrictJtiStore` | one map under one mutex, a rejection counter | `check_and_insert`, `cleanup` as futures |
| Store contract | `dpop.rs` trait `JtiStore`, `jti_contract.rs` | (what any backend must keep) | the contract test harness |
| DPoP proof | `dpop.rs` `DpopProof`, modules `cwt` and `jwt`; `jwk.rs` | header, payload, signature, the bytes it was signed over, the wire form | `create_for_moqt`, `new`, the `with_...` builders, `sign`, `encode`, `decode`, `verify_with_embedded_key` |
| DPoP validation | `dpop.rs` `DpopValidator` | settings, a store handle | `validate`, `validate_without_jti_commit`, `insert_jti`, `cleanup_expired_jtis` |
| MOQT authorization | `moqt.rs` `MoqtValidator`, `async.rs` | settings; handles to a JTI store, the integrator's replay guard and a block list | `authorize`, `authorize_with_replay`, their async forms, `authorize_offloaded`, `authorize_precommit` + `commit_async` |
| catpor block list | `token.rs` `CatPorBlockList` | sharded LRU caches id -> end of block | `is_blocked`, `add`, `enforce_catpor` |
| MOQT scopes | `claims.rs`, `moqt.rs` | none | matching of actions, namespace tuples and tracks |
| Request restrictions | `token.rs`, `claims.rs`, `geo.rs` | none | `enforce_catu`, `_catm`, `_cath`, `_catalpn`, `_catnip`, `_geo` |
| Token validator | `token.rs` `CatTokenValidator` | settings | time claims, issuer, audience, privacy, places, networks, regular expressions, composite claims |
| Decoder, admission, key resolution | `token.rs`, `pipeline.rs`, `key_resolver.rs`, `peek_issuer` in `cwt.rs` | a key ring that operators rotate | decode, admit, resolve, verify |
| CWT codec | `cwt.rs` | decoder budget counters | encode, decode |
| Pattern indexes | `trie.rs`, `trie_qp.rs` (one per build) | prefix and suffix tries; a matcher of five kinds of pattern | insert, remove, search, contains, list; `add_pattern`, `matches`, `get_matching_patterns` |
| URI matching | `uri.rs` | none | `normalize_uri`, `decompose_uri` |
| Crypto, certificates, responses, errors, tools | `crypto.rs`, `encrypt.rs`, `x509.rs`, `response.rs`, `structured_header.rs`, `error.rs`, `bin/` | none | conversions and primitives |

### How they interact

Before a relay has a token it has bytes. A `Decoder` takes the COSE envelope apart,
applies the admission policy, and, if it works with a resolver, peeks at the
issuer in the unverified payload to look up a key; only then is the signature
checked and the payload decoded within `CwtLimits`. The `VerifiedToken` becomes a
`ValidatedToken` by a `CatTokenValidator`, which calls itself for the tokens inside
composite claims.

The holder builds a proof step by step, signs it and sends it in one of two wire
forms; the relay decodes it into the same type, and the functions that build, change
and encode are open to both ends.

A relay holds a signed token and, if the token is bound to a key (`cnf`), a DPoP
proof for the request at hand. `authorize_precommit` decides everything that
can be decided from those two, the request context and one reading of the clock;
on the way it consults the catpor block list, and may add to it. It returns a
`PreCommit`: the composite JTI key still to be recorded and whether the token's
`cti` must be recorded as well. `commit` then calls, in this order, the JTI store
(`check_and_insert`) and the replay guard (`check_and_record`), both of which may
be remote. Only then is the request authorized. The async forms await both
calls and can be dropped at either; `authorize_offloaded` runs the first half
on a blocking pool. Meanwhile a timer of the operator sweeps the JTI store.

### What is hard here

* **Interleaving.** The strict store reads its entry counter without a lock,
  inserts under a shard lock, and a sweep subtracts what it removed only after
  the last shard. The block list is looked up in one critical section and
  written in another.
* **Time.** Freshness is decided at one clock reading and recorded later;
  retention, freshness and eviction compare ages with `<`, `<=` and `>=`.
* **Partial failure.** Two commits on two backends, each of which may fail
  before or after it has recorded, and a future that may be dropped between.
* **Limits.** Full stores, shard capacities with a remainder, LRU eviction.
* **Two implementations of one thing.** The tries exist twice, over characters and over
  bytes; a proof has two wire forms; a token is written by one half of `cwt.rs` and read
  by the other; a URI is read by the crate and by the server behind the relay.
* **Two parsers.** The issuer is read twice, by a byte walker before the signature is
  checked and by the decoder after it, and CBOR lets the writer choose among several
  forms of one payload.
* **Recursion under limits.** Composite claims nest tokens in composites in tokens; the
  decoder counts on shared counters, and three depth limits cut the recursion off,
  beneath a NOR if it comes to that.
* **Sequences of legal calls** with one proof at different entry points, tokens,
  actions and stores.

### What makes each part correct

* Strict store: the counter that decides admission is never lost track of and
  never wraps; the overshoot of the cap is bounded; seen from outside the store
  is an atomic insert-if-absent that forgets nothing early; a full store gets its
  capacity back; no caller gets stuck.
* Async store: the same contract, and an exact cap.
* LRU store: a key is lost only under pressure, and never without the canary.
* DPoP validation: no proof is accepted twice; an accepted JTI is on file as long
  as its proof is fresh; a forgery cannot burn the JTI of a genuine proof.
* Authorization: one proof grants one request, a replay-protected token is
  granted unflagged once, a failed request never costs the holder the token's
  `cti` before everything else has passed, a replay verdict always has an
  earlier use behind it, a grant is warranted, and a proof is good for one
  request only.
* Proofs: what is sent is what the proof says now, what verifies was signed by the
  key's holder, and no accepted proof can be read in two ways.
* Restrictions: what is granted meets the restriction as its standard reads it, and
  what meets it is not refused.
* Pattern indexes: both are maps, a lookup is a linear scan, removal loses no other
  pattern and leaves nothing behind.
* Decoding: a token verifies under the key of the issuer it names (finding 1 has the
  exception), and its budget holds for all of it, nested tokens included; a decoded token can be issued again unchanged.
* Validation: what the limits cut off never turns into acceptance.
* Block list: a block holds until it has run out or has been pushed out.

The list under `hazards` in `PROJECT.json` ties these to the lines where they
could go wrong.

## 2. The modules

| Module | Models | EXTENDS / INSTANCE |
|---|---|---|
| `JtiContract` | abstract specification of a strict JTI store | |
| `StrictJtiStore` | `InMemoryStrictJtiStore`, thread by thread | instance of `JtiContract` as refinement |
| `AsyncStrictJtiStore` | `AsyncInMemoryStrictJtiStore` | instance of `JtiContract` as refinement |
| `LruCache` | the `lru` crate's operations, as the code uses them (external) | |
| `LruJtiStore` | `LruJtiStore` | `LruCache` |
| `Checks` | "the first failing check's error is returned" | |
| `DpopProof` | the decision half of DPoP validation, pure | `Checks` |
| `DpopValidator` | `validate` and its timer | `StrictJtiStore`, `DpopProof` |
| `TextMatch` | splitting, searching, regular expressions, digests (external) | |
| `Uri` | `normalize_uri`, `decompose_uri`, pure | `Checks`, `TextMatch` |
| `RequestRestrictions` | `enforce_catu`, `_catnip`, `_geo`, `validate_method`, `validate_all_headers`, pure | `Uri` |
| `RequestReference` | what the restrictions mean, written independently | `RequestRestrictions` |
| `MoqtAuthorize` | scope matching and `authorize_precommit`'s checks in order, pure | `DpopProof`, `RequestRestrictions` |
| `CatPorBlockList` | the block list | `LruCache` |
| `RelayAuthorize` | all entry points, concurrently, over shared stores | `MoqtAuthorize`, `RequestReference`, `CatPorBlockList` |
| `PeekIssuer` | `peek_issuer`, byte by byte | |
| `CwtClaims` | CBOR items (external), the decoder of each claim and the budget counters, pure | |
| `CwtDecode` | the payload decoder: maps, order, nesting, composites, pure | `CwtClaims` |
| `CwtEncode` | `encode_token` and `encode_payload`, pure; the bytes of an item (external) | `CwtDecode` |
| `TokenValidator` | `CatTokenValidator` and composite claims, pure | `CwtDecode` |
| `TokenDecoder` | `Decoder`, admission, resolvers, key ring, `validate`, over any peek, payload decoder and validator | `CwtClaims` |
| `TokenPipeline` | `TokenDecoder` with the real ones in their places; the reader of CBOR bytes (external) | `TokenDecoder`, `TokenValidator`, `CwtEncode`, `PeekIssuer` |
| `PatternMap` | abstract specification of a trie: a map | |
| `PatternTrie` | the tree of `trie.rs` and the byte map of `trie_qp.rs`, pure | |
| `PatternIndex` | `PrefixTrie` and `SuffixTrie` of both builds, side by side | `PatternTrie`; instances of `PatternMap` as refinement |
| `UriMatcher` | `UriMatcher` of both builds, side by side | `PatternTrie`, `TextMatch` |
| `WireValue` | CBOR and JSON values and base64 (external) | `Checks`, `TextMatch` |
| `Jwk` | keys, thumbprints, `COSE_Key` and JSON forms, pure | `WireValue`, `DpopProof` |
| `ProofCodec` | both wire forms of a proof, the resource URI, pure | `Jwk` |
| `DpopWire` | the life of a proof: built, changed, signed, sent, received | `ProofCodec` |
| `DpopValidatorProofs` | theorems (section 5) about `StrictJtiStore` and `DpopValidator` | `DpopValidator`, `LibraryProofs` |
| `AsyncStrictJtiStoreProofs`, `LruJtiStoreProofs`, `RelayAuthorizeProofs`, `PatternIndexProofs`, `TokenDecoderProofs`, `DpopWireProofs` | theorems (section 5) | the module they are about (`PatternIndexProofs`: also `UriMatcher`) |
| `LibraryProofs` | the lemmas about `Checks` and `LruCache` that the others cite | `Checks`, `LruCache` |
| `MC...` | instances for TLC | |

### StrictJtiStore

`check_and_insert` is three steps: `Admit` (length check, unlocked load of
`total_entries`, refusal at the cap), `Insert` or `DetectReplay` (under the shard
lock), and `Count` (`fetch_add` while the lock is still held). `ShardLocked` is
the mutex: between `Insert` and `Count` a caller is inside its shard's critical
section; every other use of a shard lock is a single step. `cleanup` is
`StartSweep` (clock read once), `SweepShard` for each shard in order and
`FinishSweep` (one `fetch_sub` of the total). The shard maps are one function
`entries`; `ShardOf` is the keyed hash. `total_entries` is an integer: a negative
value stands for a wrapped `usize` and `TypeOK` forbids it.

### JtiContract

Accepting, detecting a replay, refusing, forgetting and time passing. `Accept` is
atomic and only for an absent key; `Forget` only for entries of age `Retention` or
more. The refinement mapping takes `entries` as the abstract store and gives a
caller its `Ok` at the insertion (the linearization point), not at the return.

### AsyncStrictJtiStore

A call is a future: `Create`, then `Drop` or one of the `Poll...` actions. The
body has no `await`, so a poll is one step. A replay is looked for before the
capacity (unlike the strict store, which refuses first). `cleanup` reads the clock
before it takes the lock: two steps.

### LruJtiStore

`check_and_insert` works under one lock: one step, `DetectReplay` (which uses
`contains` and so does not refresh the entry) or `Insert` (which may evict and
count a premature eviction). `ShardCapacity` is the division with remainder of
the constructor. `log` is a history variable.

### DpopValidator

A thread is free, has verified a proof (`attempt`, `verifiedAt`) or is inside the
store (`pc`). `Reject` and `Verify` take the decision at the present clock;
`SkipCommit`, `Commit`, `CommitReplay`, `CommitInsert`, `CommitCount` are the
commit, the last four conjoined with the actions of `StrictJtiStore`.
`CleanupExpiredJtis` is the validator's timer entry point (twice the window).
`accepted` and `twice` are history variables. `VTick` keeps the time between a
decision and its insertion at most `MaxStall`.

### RelayAuthorize

Each call is a process with its own frame in `calls`. `Begin` is steps 1 to 8b of
`authorize_precommit`, `PorLookup` and `PorDraw` are `enforce_catpor` in its two
critical sections, `Decide` is steps 10 to 12 with the one clock reading,
`CommitJti`/`JtiFails` and `CommitCti`/`SkipCti`/`CtiFails` the two commits,
`Cancel` a dropped future (the backend's request carried out or not), `JoinFails` a
blocking task that cannot be joined. The JTI store is an atomic set, which is what
`JtiContract` promises and the stores are shown to implement; calls here are far
shorter than the retention. The replay guard belongs to the integrator and
is modelled from its trait: a strict one tells the truth and records, a best-effort
one may have forgotten or fail to record. `blocks` and `leaked` are history: which
calls have put their id on which list (`Blockers`), which ids a list should therefore
refuse now (`InForce`), and how many other ids have gone into an id's shard (`Crowd`). The
restrictions are checked one after the other, the first failing one giving the error
(`Checks`).

### RequestRestrictions, Uri and RequestReference

A text is a sequence of atoms: a character with a meaning in a URI, an escape, or a run of
other characters. `Uri` follows `normalize_uri` step by step (scheme, authority,
userinfo, port, dot segments, percent-decoding of unreserved characters) and
`decompose_uri` with the nine components. Addresses are bit strings of a few bits
(`AddressBits`), a regular expression is a
literal that matches wherever it occurs, places lie on a
grid. `RequestReference` says the same in other words: the authority ends where RFC 3986
says, a path segment stays if no later `..` takes it away, a prefix is compared bit by
bit, obsolete line folding in headers is a blank. `GrantIsWarranted` and
`MetRestrictionsPass` compare the two in both directions over whole calls.
URIs that the code is known to read otherwise than the RFC are set apart by
`Ordinary` (see `relay_uri` and the observations below).

### TokenDecoder, TokenPipeline and the modules below them

A payload is a CBOR item and the bytes it was read from; `PeekIssuer` reads the bytes,
`CwtDecode` the item. The bytes may have any of the forms CBOR allows, since nothing in
`cwt.rs` asks for the shortest: heads wider than needed, indefinite maps, arrays and
strings. `ReadItem` is `ciborium::de::from_reader`, and `PipelineConstants` demands of each wire
that it read exactly the payload from the bytes. It leaves bignums out: if `ciborium` makes
integers of them, an `iss` whose label is a bignum is one more payload the two readers may
disagree on. A
decoded token is a function from claim labels to values. `DecodeEntries` is the
decoder's loop with `DecodeCounters` handed through; composites come back as an operator
and a sequence of claim sets. `CwtClaims` has an operator per claim; what it refuses,
drops and counts is the code's. Floats are in hundredths. `CwtEncode` writes each claim
and puts the labels in the order of a `BTreeMap`, which is not the order the decoder
wants where a label is negative (`Orderly`). In `PeekIssuer` the argument of an unsigned label is read
twice, as in the code. `TokenDecoder` has one action per call: `AddKey`,
`RemoveKey`, `Decode` (which borrows the ring, so no rotation can fall into it),
`Validate` and the clock. `held` is what the caller got from the last call. What the
peek, the payload decoder and the validator say does not depend on this state: to
`TokenDecoder` they are the parameters `Peek`, `Parse` and `Accepts`. `TokenPipeline`
puts `peek_issuer`, `decode_payload_with_limits` and `validate_with_provenance` in their
places, the first two tabulated (`Peeked`, `Payloads`). The reference `Means` reads OR, NOR and AND off the
payload, with no limits, no counters and no second encoding; a token's own claims are
judged by the same operators in both readings.

### PatternIndex and UriMatcher

Each call is made on both builds at once, so that one state holds the tree of `trie.rs`
(a node is the text that leads to it) and the byte map of `trie_qp.rs`. `side` chooses
prefix or suffix. `MaxDepth` is `MAX_TRIE_DEPTH`, which the code compares with
characters in one place and bytes in another. The refinement mapping to `PatternMap` reads the stored
patterns back through the conversion to keys; `Permanent` are the patterns the tree
cannot remove.

### DpopWire

One proof and what happens to it: created (`CreateForMoqt`, `New`), changed by any builder,
signed, delivered (encoded, and decoded at the other end) or
received from another encoder (`Receive`: wires with repeated keys, unknown values,
wrong types, trailing bytes). `signed_bytes` is the state that matters: `encode` and
`signing_input` prefer it, and every builder has to drop it. `signings` is a history
variable. A signature is the key and the bytes it covers. The actions may come in any order, up to
`MaxSteps`.

## 3. The runs

| Run | Shows | Bounds |
|---|---|---|
| `strict_store` | counter conservation, overshoot bound, `InsertedIsPresent`, refinement of the contract, capacity is reclaimed, every call returns | 2 callers, 2 sweepers, 2 shards, keys that share and do not share a shard and one that is too long, cap 1, 3 calls, clock 0..2 |
| `async_store` | refinement of the contract, exact cap | 2 futures at a time, 1 sweeper with 2 ages, 3 keys and a long one, cap 2, 4 calls, clock 0..3 |
| `lru_store` | retention, capacity, canary | 3 entries over 2 shards (2 + 1), 5 keys and a long one, 5 calls, clock 0..4 |
| `dpop_validator` | single use, retention while fresh, only signed proofs burn JTIs | 2 threads, 1 sweeper, 5 attempts (genuine, later, future-dated, forged, wrong token), window 2, stall 1, clock 1..6, 4 calls |
| `relay` | one grant per proof and per token, the order of commits, replay verdicts, catpor blocks | 3 of 12 calls over all entry points, lost answers and dropped futures, clock 1..2 |
| `relay_policy` | a grant is warranted, what meets the restrictions passes, a proof binds its request | URIs of two schemes, with ports, userinfo, dot segments, escapes and queries against rules that cover the components and kinds of match; folded headers; every prefix length of 3 and 4 bits; places with any part missing; every scope shape; every defect of a proof. These calls are made alone (`Solo`), those with one proof in pairs, over two stores |
| `relay_uri` (violation) | a query with a slash becomes part of the host | 1 rule, 4 URIs |
| `pipeline` | verified under its own issuer if there is no claim 0, shared budget, validation against the reference reading, a decoded token can be issued again | 69 payloads, with every claim in each of its shapes and each with something refused; 15 wires in forms `encode_token` does not write (wide heads, indefinite maps, arrays and strings, a claim 0 under short and long labels); 4 decoders, 3 validators, 2 ring entries, 2 signing keys and a MAC key, clock 0..3 |
| `pipeline_issuer` (violation) | a claim 0 can make `peek_issuer` see another issuer than the decoder | as above |
| `patterns` | both tries refine a map, no dead and no lost node, lookups and the matcher are linear scans | 6 patterns with one- and two-byte characters, the empty one and one beyond `MAX_TRIE_DEPTH` = 2; 2 values; 16 texts of up to 3 characters; matcher patterns of all five kinds, 2 regular expressions |
| `wire` | what is sent is current, what verifies was signed, what is accepted is unambiguous, resource URIs are read back | 5 steps of any kind with one proof; EC, RSA and incomplete keys, signers that are not the holder and one with a MAC key; namespaces of no, one empty and several segments; endpoints that are empty, that have separators of the query and that are refused; wires of other encoders, one with the key as a JSON array |
| `dpop_setup` (violation) | a setup proof in CWT form changes its shape | as above |

Why the bounds are enough. The strict store's races need two callers that both
pass the cap check, a shard collision, and a sweep between an insertion and its
count, and a second sweep between a removal and its subtraction: two of each. A cap
of one makes every insertion the last free one. Window 2, expiry 4 and a clock to
6 let an accepted entry be swept and its proof be judged again on both sides of
every boundary. In the relay runs the properties relate two calls, so a third
is there to intervene. The index runs without a bound on calls: its state is the set of
stored patterns, and all of those are reached. Five steps are enough for a proof to be
created, signed, sent, changed and sent again. The pipeline's limits are scaled
down together (nesting of composites 2 for 10, 10 items for 10000, decoder nesting 9),
so that payloads just below and just above each of them are in the set: composites
too deep at the top, below a NOR and inside a nested token, and one more item than the
budget spread over two levels. `i64::MAX` is 9, so that both ends of the
range of `exp` and `nbf` occur. The theorems of section 5 lift the three stores, the validator,
the relay, the tries, the matcher, the token decoder and the life of a proof to every size.

`CHECK_DEADLOCK FALSE` is used where the call bound lets the model run out of
work with no timer to keep it going; the other runs check for deadlock.

### Findings

1. `pipeline_issuer`: `peek_issuer` reads the argument of an unsigned label twice
   (`cwt.rs:2703` and `2714`) unless the label is `iss`. Canonical order puts
   one label before `iss`, 0, a legal custom claim. Written as `00` it is skipped rightly;
   written as `18 00`, which the decoder accepts as well, its second reading takes the head
   of the value for the argument and the walker goes on inside the value. In `A2 18 00 44
   00 01 61 61 01 61 62` the decoder finds claim 0, the bytes `00 01 61 61`, and `iss`
   "b", the walker `iss` "a". A ring then verifies the token with a's key, and it carries b's
   name; `PROFILE.md:122-124` says that a wrongly peeked issuer ends in a failed signature
   check. `VerifiedUnderItsIssuer` holds of all tokens without a claim 0.
2. `relay_uri`: `normalize_uri` (`uri.rs:239`, and `parse_uri`, `157`) looks for a `?`
   only if the rest has no `/`, so in a URI with an empty path the query up to its first slash
   becomes part of the host, and a `catu` rule on the host is matched against it.
   `uri.rs:219` says "Normalize a URI per RFC 3986".
3. `dpop_setup`: `moq_tns_from_canonical` (`dpop.rs:1281`) splits the empty text into one
   empty segment, so a CWT proof without a namespace arrives with one, and
   `enforce_actx_shape` refuses every setup proof in CWT form; the JWT decoder
   reads the empty text as no namespace. `dpop.rs:1503-1504` says "the two wire forms carry
   identical `actx` semantics".

Disagreements between a comment and the code that need no run to see:

* `peek_issuer` returns `Ok(None)` for a payload without `iss` (`cwt.rs:2677`). The double
  reading of finding 1 puts it out of step at every label of 24 or more, and it returns an
  error (`LongLabelsLoseTheWalker`, which TLC evaluates with `pipeline`). A token that has no
  `iss` and such a label cannot be decoded through any resolver,
  `SingleKeyResolver::dangerously_any_issuer` included.
* `max_entries` is an "Absolute cap" (`dpop.rs:2180`), but it is read without a lock
  (`2270`); `CapacityOvershootBound` says by how much it can be exceeded.
* `cleanup_expired` (`dpop.rs:2248`) drops entries of age equal to the window, at which
  `is_fresh` (`418`) still accepts the proof. `cleanup_expired_jtis` is safe
  (`RetainedWhileFresh`).
* `moqt.rs:1113-1116` promises that a retry after a failed cti commit "sees a virgin cti
  store"; a guard that fails after it has recorded makes the retry a replay.
* `catgeoalt` is decoded and enforced nowhere (`token.rs:673`), although `moqt.rs:707` and
  `PROFILE.md:64-67` say that every signed claim is.
* `dpop.rs:1802` says of an empty `tns` in a JWT that it "decodes to a single empty segment";
  the code below it (`1817`) reads it as no namespace.
* `claims.rs:26` says that fractional dates in `catr` are rejected; the decoder takes floats
  for `expadd` and `deadline` as they are (`cwt.rs:2384`).
* `moqt.rs:1406` says that the resource URI parser reads what `construct_moqt_uri` produces. An
  empty endpoint (`dpop.rs:2688`) and a namespace of one empty segment are built without an
  error and refused by the parser (`moqt.rs:1441`, `1457`).
* `encode_payload` is documented to write canonical CBOR (`cwt.rs:582`); a negative custom
  label or `catif` key comes out in an order the decoder refuses. The comment near
  `cwt.rs:128` says nested maps may use any order; the code enforces one at every depth.

Smaller observations, met while modelling and not worth a run: `with_max_entries`
caps a store built as `dangerously_unbounded` after all; `authorize_offloaded` takes
its block list by value, so its blocks die with the call; a random draw of exactly
1.0 lets a token with probability 1 pass; the composite JTI key writes an absent
issuer as `_`, the same as an issuer called `_`; both setup actions are written
`SETUP` and read back as `ClientSetup`, so a proof for `ServerSetup` that went over the
wire never matches; `LruJtiStore` does not count an eviction at an age of exactly the
window, at which a proof is still fresh; `validate_crit` rejects only keys it
knows, so `crit` may name an unknown one although `docs/security-model.md:29` says that
fails; an empty `geohash` or `catgeocoord` and a `cnf` with unknown methods only are
dropped, and geohashes are not counted against the budget; `peek_issuer` sees no
entries in an indefinite-length map, so such a token is refused by a ring; a composite
too deep inside a nested token makes that token unacceptable, which satisfies a
NOR above it (only if the decoder's nesting limit is raised); nested tokens are validated
as signed ones even in an encrypted token.

About URIs and headers: dot segments are removed before escapes are decoded; `/..//a`
becomes `/a` and `/a//.` becomes `/a/`; text after an IPv6 bracket that does not begin
with `:` is dropped; of two headers with one name only the first is checked.

About the codecs: an empty `catdpop` is decoded as present and not written again; an `aud` given
as text is written as an array, one item more; `encode` has no size check though `decode`
refuses more than 16 KiB; a JWT loses a namespace of one empty segment;
a CWT of an EC key without `y` decodes with an empty one; the escape of a safe byte
(`.61`) is accepted; repeated keys are not looked for in nested JSON objects and in CWT
parameters.

About the tries: a pattern of more than 1000 characters cannot be removed, one of more than
1000 bytes is not listed; an empty prefix or suffix is accepted and never matches.

## 4. Fairness

Only `strict_store` uses fairness (`FairSpec`): weak fairness of every caller inside
`check_and_insert` and every sweeper inside `cleanup` (ordinary threads; a shard
lock is held for a few instructions, so whoever holds it lets go), of the start of
the next `cleanup` (the constructor's documentation demands a periodic timer) and of
the clock. No fairness is assumed of new calls: nobody has to call. Without the timer
`CapacityIsReclaimed` is false, and the code says so.

## 5. The proofs

Everything here holds for every value of the constants that meets the named assumptions:
any number of callers, keys, shards, calls, tokens and patterns, any bound on clock and calls.
Each of the inductive invariants below was also checked by TLC, as an invariant of the component's
run, before it was proved.

### The strict store

`DpopValidatorProofs`, first half, from `StoreConstants` (finite sets of callers, sweepers and
keys, at least one shard, every sweep's age at least `Retention`):

* `TypeCorrect`: the counter never wraps.
* `CounterIsConserved`: `total_entries` = stored - uncounted + unsubtracted.
* `UncountedIsPresent`: an inserted key is still stored when it is counted.
* `OvershootIsBounded`: stored <= `MaxEntries` + callers - 1.
* `ImplementsContract`: the store implements `JtiContract`.

The first four rest on `IndInv`. Conservation alone does not keep the counter from
wrapping: `FinishSweep` subtracts what the sweep removed, and that is covered only
if stored - uncounted is not negative, i.e. if every uncounted caller's key is still
stored (`InsertedIsPresent`) and no two of them share one (`ShardMutex`). Conservation
itself needs that a sweep meets no key twice (`SweptBehind`: what it removed lies in
shards it has passed). The overshoot needs that admitted callers are as good as
inserted (`AdmissionBound`), since the cap check reads a counter that may lag behind by
the uncounted ones. The refinement adds `RefinementInv`: a call under way has no
answer yet, and a sweep's clock reading is never ahead of the present, so what it
drops is old enough now.

### The async store

`AsyncStrictJtiStoreProofs`, from `AsyncStoreConstants`: `CapIsNeverExceeded` (the cap is
exact here, the check and the insertion being under one lock) and `AsyncImplementsContract`.
`AInv` has what the refinement needs besides the cap: a future that has not been
polled has no answer yet, so that dropping it is a stutter of the contract, and a sweep that
read the clock before it got the lock drops only what is old enough by now as well.

### The LRU store

`LruJtiStoreProofs`, from `LruConstants`, over the lemmas of `LibraryProofs` (what
insertion, eviction and removal of several entries leave of a cache, in which order, and how
many per shard):

* `LruTypeCorrect`: no key has two entries, and the shards never hold more than the capacity
  between them.
* `RetentionIsGuaranteed`: a key is lost only after a capacity of later insertions into its
  shard, or when a sweep found it old enough.
* `CanaryIsReliable`: if `SweepAge >= Window`, no proof younger than the window is accepted
  again without the canary having counted an eviction. The validator sweeps at twice
  its window, so the hypothesis is what the code does; an operator who calls `cleanup` with
  less loses proofs silently.

`LInv` ties the cache to the history of insertions: `Mirrors` says that each entry is the
latest insertion of its key and that the entries stand in the order of insertion (a replay
does not touch the order), and `ShardsFit` that no shard is over its share. Hence whoever is
evicted is the oldest of a full shard, and everyone else in it came later. That is what
retention counts (`LostForAReason`), and what the canary's age check looks at
(`LostIsCounted`).

### The validator

`DpopValidatorProofs`, second half, from `ValidatorConstants` as well:

* `ValidatorTypeCorrect`, which carries the store's `IndInv` over to the composition.
* `NoProofIsAcceptedTwice`: `SingleUse` is an invariant, if `MaxStall < Window`.
* `AcceptedIsRetainedWhileFresh`: `RetainedWhileFresh` is an invariant, under the same
  hypothesis.
* `OnlyHoldersBurnJtis`: a forgery cannot burn the JTI of a genuine proof. `SignedInv` says that
  whoever waits for the store has verified its proof and carries that proof's key and date.

The middle two follow from `ReplayInv`. An accepted proof is on file or its age is at least
twice the window; a waiting one was fresh at most `MaxStall` ago, so its age is at most
window + `MaxStall`, less than twice the window: hence whenever an accepted proof is
inserted again it is still on file. This is the argument behind the factor two of
`jti_expiry_seconds`, and it shows its limit: a thread that stalls for a whole window
between the decision and the insertion escapes it.

### The relay

`RelayAuthorizeProofs`, from `RelayConstants` (how the entry points fill in a call; a bound
token's hash and a proof's composite key exist) and `RequestConstants` (scopes, namespaces and
tracks are lists, network identifiers of the four kinds):

* `ProofsGrantOnce`, `TokensGrantOnce`, `CtiComesLast`, `ProofsBindRequests`,
  `ReplaysNeedEarlierUse`: the invariants of the same names in `relay` and `relay_policy`.
* `GrantsAreEntitled` and `GrantsAreWithinPolicy`: the first two parts of `GrantIsWarranted`,
  i.e. all of it but the restrictions of `RequestReference`.
* `RelayTypeCorrect`, and `BlocksHold`, from `SameIdSameExpiry`.

`RInv` has a part for each frame and a part for what the frames share. `CommitsInOrder`: a
call that has put anything on record has passed `authorize_precommit` at some reading of the
clock, and its JTI was recorded before its `cti`. `GuardAsked`: a grant the guard had to see
was seen by it. `JtiRecords` and `CtiRecords`: the backends hold exactly what the calls
have put there, and no two calls the same. The proofs first show that every step but the arrival of a call
is one of three moves (it puts nothing on record, one new JTI, or one new `cti`); failures
after recording, lost answers and dropped futures are such moves too, so only the moves
have to keep the invariant. The grants follow from what passing says: the lemmas
of `LibraryProofs` turn "no error from a list of checks" into "every check passed", and
`Admitted` remembers the checks of the first half until the answer. That a scope
covers a request "byte by byte" is proved of `IsPrefix`, `IsSuffix` and equality.

`SameIdSameExpiry` says that tokens that share a `catpor` id share its expiration. The proof
does not go through without it, for a reason in the code: `add` (`token.rs:858`) replaces an entry. A
call with an earlier expiration that is already past its lookup replaces the block that
another call has put there meanwhile, and cuts it short. A token issuer who keeps an id for
one token, as the claim is meant to be used, satisfies it. `BlockListInvariant` is the rest of the argument:
every entry of a list was put there by a call, no id has two, and an id that is gone was
crowded out by a capacity of others.

### The pattern indexes

`PatternIndexProofs`, for patterns and texts of any length and any number of them:

* `TreesAreMinimal`: the nodes are exactly the beginnings of the stored patterns.
* `ListedAreRemovable`: nothing is listed that cannot be removed.
* `TreeImplementsMap` and `QpImplementsMap`: both builds implement `PatternMap`.
* `LookupsFindEverything`: `LookupsFindAll` is an invariant.
* `MatchersAreLinearScans`: `MatcherIsALinearScan` is an invariant of `MSpec`, the matcher alone.

`IndexInv` is minimality and that every key belongs to a pattern. The work is in the removal:
it goes back up the way of the pattern and cuts each node that has no value and no
child. `DeadIsUnused` shows that a node it cuts is on the way to no other pattern (at the
greatest common beginning of the two there would be a value or another child), and
that the others are.

A lookup needs no more than `IndexInv`. Because the nodes are all there, the walk along a text
gets as far as the last stored beginning of it (`WalkIsLongEnough`), so the tree looks at
the same beginnings as the qp trie, in characters instead of bytes. Patterns and depths are
then matched: the depth of a pattern is the length of its key, and both are numbered in the
same order (`DepthsInOrder`; that a finite set of numbers has exactly one i-th member is
`IthMember`). `Ascending`, which lists the depths, is written with cardinalities rather than
with `SelectSeq` for the sake of this argument. `MatcherInv` says that the two matchers keep
the accepted patterns, each kind where it belongs, with equal lists of regexes and equal
hashes; the labels are then five lists in a row of which none depends on the backend.

The assumptions: `IndexConstants`, `PatternBytes` and `TextBytes` for the indexes,
`MatcherConstants` for the matcher. They say that different patterns have different bytes,
no fewer bytes than characters, and that a text begins or ends with the bytes of a pattern
exactly when it begins or ends with the pattern (`InUtf8`). That is what UTF-8 makes of
whole texts, and where it fails the byte trie finds patterns that are not there. It follows from
`PatternConstants`, which says it of single characters, by induction over the text, which
is out of the prover's reach; TLC evaluates it.

### The token decoder

`TokenDecoderProofs`, from `DecoderConstants`, for any wires, decoders, keys and rotations, and
whatever `Peek`, `Parse` and `Accepts` say:

* `PipelineTypeCorrect`: the ring maps a triple to a key of the algorithm it names.
* `NothingIsSkipped`: what a caller holds was sealed as its decoder demands, admitted, signed by
  the resolved key under the alg of its header and decoded within the limits; what is validated
  was accepted no later than now, and as encrypted only if it was.
* `KeysAreThePeekedIssuers`: of every token, whatever the two readers make of it, the key that
  verified it is the one registered for the issuer the walker saw, at the time of the decode.
* `TokensVerifyUnderTheirIssuer`: `VerifiedUnderItsIssuer` is an invariant, if `PeekAgrees`.

`PeekAgrees` says of a wire and a decoder that the byte walker and the payload decoder do not
read two different issuers out of a payload without a claim 0 (with one they may: finding 1).
It is the hypothesis of the theorem and not an assumption about
constants, since it is a claim about the code: it is what makes it safe to choose the key
by unverified bytes. Both readers walk payloads of any size, so TLC checks it: the last
part of `VerifiedUnderItsIssuer` is `PeekAgrees` for whatever was decoded in the run, in
shortest and in other forms. What the theorem
adds is that nothing else is needed, however keys are added and removed: `UnderThePeekedIssuer`,
the invariant behind it, ties the key to the issuer of the peek at the time of the decode.

### The life of a proof

`DpopWireProofs`, for any contexts, holders, signers, foreign wires and number of steps:

* `ProofsSayWhatTheyHave`: `WireIsCurrent` is an invariant.
* `VerifiedWasSigned`: `VerifiedMeansSigned` is an invariant.
* `ReadersAgree`: `AcceptedIsUnambiguous` is an invariant.

The last needs only `ShapeInv`, the form of `signed_bytes`: in a map without repeated keys a lookup
finds the same value from either end, and every map in which it could differ is one that `decode`
refuses. The first two need `WireInv`: the bytes a proof keeps are read as the header and the payload it has
now (`ReadsAs`), and its signature covers bytes that are read as what its signer signed
(`SignedAs`). That every builder forgets the bytes is what keeps the first part, that `sign`
encodes afresh the second. Both rest on the round trip of both wire forms, which is proved
field by field: the encoders concatenate maps that have no key in common (`Tidy`, `Keys`), so each lookup finds
the one part that has its key. Base64 and the JOSE names are bijections on the values used.
Two parts of `WireInv` are there for what the forms do not carry. A context that is not in the
range of a decoder changes once (`CarriedPayload`: both setups are one, no namespace becomes one empty
segment or the reverse), and is then left alone. An incomplete key becomes a CWT with an
empty member, which is another key; `NobodysKey` says that no signer has that one.

The assumptions. `WireConstants` and `WireWords` are evaluated by TLC in each run: hashes are bytes,
foreign wires are lists, what is read from one is in the range of its decoder, the constants that stand for nothing
differ from the words of the formats, and the text forms of the namespaces and tracks
in use can be read back (`TnsSurvives`, `TnSurvives`). The last is the one part of the round
trip that is taken from TLC: it splits what was joined and unescapes what was escaped, and a
proof of it for every text is an induction over the text. `Apart`, which the theorems name,
says that `Absent` and `Refused` are no functions (Rust's `None` and `Err` are no values of the
payload types); TLC takes model values for them, of which it is true, but cannot evaluate it.

### Only model-checked

* `CapacityIsReclaimed` and the return of every call: liveness, and fairness is out of the
  prover's reach.
* The third part of `GrantIsWarranted` and `MetRestrictionsPass`: the two readings of URIs,
  headers and addresses split and fold texts of any length, which needs induction over data.
* `BudgetIsShared`, `ValidatedMeansAcceptable` and `ReissuedIsTheSame` of `TokenPipeline`: the
  payload decoder, the evaluator and their references are `RECURSIVE` operators over trees,
  which the prover cannot handle. So is `PeekAgrees`.
* `ResourceAgrees` of `DpopWire`: the URI splits and unescapes texts of any length.

## 6. Not modelled, and why

* Cryptographic primitives, PEM/DER loading, AES-GCM and X.509: a signature is the key that
  made it and the bytes it covers, an envelope well-shaped or not.
* Response headers (`response.rs`, `structured_header.rs`), error types, the
  command-line tools: formatting and I/O without state.
* The bytes of JSON, and those of CBOR except in the payload of a token, where `peek_issuer`
  walks them (a proof's and a COSE header's are values); bignums and simple values other than null;
  `f64` beyond hundredths, `u32` and `i64` at their real width (`I64Max` is small, so that both
  ends occur); the builders of tokens, roles and `CwtLimits`, which only assemble values.
* Real regular expressions and distances on the sphere.
* In a validation the clock is read once; the code reads it again for each nested token.
* Panics and poisoned locks, and process restart: the stores keep nothing on disk;
  `docs/RELAY-OBLIGATIONS.md` leaves restart to the integrator's storage.
* Clocks that step back: the models' clock is monotonic.

## 7. What is left

1. `TokenPipeline` in front of `RelayAuthorize`: the token a relay authorizes is one that
   was validated, possibly long ago.
2. The network part of `GrantIsWarranted`, which compares bits.
3. Bignums in `ReadItem`, and `PeekAgrees` for every payload, which needs an induction over the bytes outside the prover.
