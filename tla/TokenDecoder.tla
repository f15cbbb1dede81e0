---------------------------- MODULE TokenDecoder ----------------------------
(***************************************************************************)
(* Decoder (src/src/token.rs), its AdmissionPolicy and type states         *)
(* (src/src/pipeline.rs), the resolvers (src/src/key_resolver.rs) and      *)
(* VerifiedToken::validate, while the key ring is rotated and time passes. *)
(* A decode borrows the ring and a rotation needs it exclusively, so each  *)
(* is one step.                                                            *)
(*                                                                         *)
(* A wire is the COSE envelope a client presents: its tag, its protected   *)
(* header and payload as CBOR items, the bytes the payload was read from,  *)
(* in whichever of its CBOR forms, the key that signed exactly these (in a *)
(* singleton; {} if none did), the key it was encrypted under (or {}), its *)
(* size, and whether the envelope has the shape RFC 9052 asks for.         *)
(* Cryptography is symbolic. What the peek, the payload decoder and the    *)
(* validator say are parameters here; none of them looks at the state.     *)
(* TokenPipeline puts the real ones in their place.                        *)
(***************************************************************************)
EXTENDS CwtClaims

CONSTANTS
    Wires,
    Decoders,      \* [kind, key, issuer, kid, admission, enc, lim], options as singletons
    Validators,
    Keys,          \* [id, alg]
    Entries,       \* KeyEntry: <<issuer, kid, alg>>, what an operator may register
    HmacAlg,       \* ALG_HMAC256_256
    MaxTokenSize,  \* MAX_TOKEN_SIZE
    MaxTime,       \* bound: the clock stops here
    Peek(_),       \* peek_issuer, of a wire's payload: [ok, iss]
    Parse(_, _),   \* Cwt::decode_payload_with_limits, of a wire's payload: [ok, token]
    Accepts(_, _, _, _)  \* validate_with_provenance: token, provenance, time, validator

ASSUME DecoderConstants ==
    /\ \A d \in Decoders : d.kind \in {"algorithm", "single", "ring"}
    /\ \A e \in Entries : \E k \in Keys : k.alg = e[3]
    /\ MaxTime \in Nat

VARIABLES
    now,
    ring,     \* KeyRingResolver.keys
    held      \* the VerifiedToken or ValidatedToken of the last call, if any

pvars == <<now, ring, held>>

Nothing == [stage |-> "none"]

-----------------------------------------------------------------------------
\* extract_header_info: one integer alg; the last kid that is a string wins.
HeaderInfo(header) ==
    LET labelled(l) == {i \in DOMAIN header.entries : header.entries[i][1] = Integer(l)}
        value(i)    == header.entries[i][2]
        kids        == {i \in labelled(4) : value(i).type \in {"bytes", "text"}}
        ok          == /\ Cardinality(labelled(1)) = 1
                       /\ \A i \in labelled(1) : value(i).type = "int"
    IN  [ok  |-> ok,
         alg |-> IF ok THEN value(Max(labelled(1))).n ELSE 0,
         kid |-> IF kids = {} THEN {} ELSE {value(Max(kids)).str}]

\* AdmissionPolicy::check.
Admits(policy, w, header) ==
    /\ w.size <= policy.size
    /\ \A algs \in policy.algs : header.alg \in algs
    /\ \A kids \in policy.kids : header.kid # {} /\ header.kid \subseteq kids

\* SingleKeyResolver::resolve: the key, in a singleton.
ResolveSingle(d, header, iss) ==
    {k \in d.key : /\ header.alg = k.alg
                   /\ d.issuer # {} => iss = d.issuer
                   /\ d.kid # {} => header.kid = d.kid}

\* KeyRingResolver::resolve: the exact triple or nothing.
ResolveRing(keys, header, iss) ==
    {keys[e] : e \in DOMAIN keys \cap {<<i, k, header.alg>> : i \in iss, k \in header.kid}}

\* The key a decoder verifies with. Only a resolver is told the issuer, and an
\* error of the peek ends the call.
KeyFor(d, keys, w, header) ==
    LET peek == Peek(w)
    IN  CASE d.kind = "algorithm" -> d.key
          [] d.kind = "single"    -> IF peek.ok THEN ResolveSingle(d, header, peek.iss) ELSE {}
          [] d.kind = "ring"      -> IF peek.ok THEN ResolveRing(keys, header, peek.iss) ELSE {}

\* verify_and_decode: the tag and alg the key stands for, its signature, and
\* then the payload.
VerifyAndDecode(w, header, key, lim) ==
    IF /\ w.tag = IF key.alg = HmacAlg THEN "mac0" ELSE "sign1"
       /\ header.alg = key.alg
       /\ w.signer = {key}
    THEN Parse(w, lim)
    ELSE Refused

\* decode_signed, with parse_cose_envelope.
DecodeSigned(w, d, keys) ==
    LET header == HeaderInfo(w.header)
        key    == KeyFor(d, keys, w, header)
    IN  IF /\ w.size <= MaxTokenSize /\ w.shaped /\ header.ok
           /\ \A policy \in d.admission : Admits(policy, w, header)
           /\ key # {}
        THEN VerifyAndDecode(w, header, CHOOSE k \in key : TRUE, d.lim)
        ELSE Refused

\* Decoder::decode: a decoder with an encryption key accepts only what was
\* encrypted under it, one without accepts only plain tokens.
DecodeWire(w, d, keys) ==
    IF /\ w.sealed = d.enc
       /\ d.enc # {} => w.size <= Min({MaxTokenSize, d.lim.payload})
    THEN DecodeSigned(w, d, keys)
    ELSE Refused

ProvenanceBy(d) == IF d.enc = {} THEN "Signed" ELSE "Encrypted"

-----------------------------------------------------------------------------
PInit ==
    /\ now = 0
    /\ ring = <<>>
    /\ held = Nothing

\* HashMap::insert.
Registered(e, k) == [f \in DOMAIN ring \cup {e} |-> IF f = e THEN k ELSE ring[f]]

\* Mutant of AddKey: the caller names the algorithm of the entry.
AddKeyUnderAnyAlg(e, k) == ring' = Registered(e, k) /\ UNCHANGED <<now, held>>

\* add_key: registers the key under its own algorithm, replacing the entry.
AddKey(e, k) ==
    /\ k.alg = e[3]
    /\ ring' = Registered(e, k)
    /\ UNCHANGED <<now, held>>

\* remove_key.
RemoveKey(e) ==
    /\ e \in DOMAIN ring
    /\ ring' = [f \in DOMAIN ring \ {e} |-> ring[f]]
    /\ UNCHANGED <<now, held>>

\* History: the triples the signer's key is registered under right now.
TriplesOf(w, d) == IF d.kind = "ring" THEN {e \in DOMAIN ring : w.signer = {ring[e]}} ELSE {}

\* Decoder::decode; the caller keeps nothing of an Err.
Decode(w, d) ==
    LET r == DecodeWire(w, d, ring)
    IN  /\ held' = IF r.ok
                   THEN [stage |-> "verified", wire |-> w, decoder |-> d, token |-> r.token,
                         provenance |-> ProvenanceBy(d), triples |-> TriplesOf(w, d)]
                   ELSE Nothing
        /\ UNCHANGED <<now, ring>>

\* VerifiedToken::validate consumes the token either way.
Validate(v) ==
    /\ held.stage = "verified"
    /\ held' = IF Accepts(held.token, held.provenance, now, v)
               THEN [stage |-> "validated", wire |-> held.wire, decoder |-> held.decoder,
                     token |-> held.token, provenance |-> held.provenance,
                     triples |-> held.triples, validator |-> v, at |-> now]
               ELSE Nothing
    /\ UNCHANGED <<now, ring>>

Tick == now < MaxTime /\ now' = now + 1 /\ UNCHANGED <<ring, held>>

PNext ==
    \/ \E e \in Entries, k \in Keys : AddKey(e, k)
    \/ \E e \in Entries : RemoveKey(e)
    \/ \E w \in Wires, d \in Decoders : Decode(w, d)
    \/ \E v \in Validators : Validate(v)
    \/ Tick

PSpec == PInit /\ [][PNext]_pvars

-----------------------------------------------------------------------------
\* The ring maps registered triples to keys of the algorithm they name
\* (KeyRingResolver::add_key), and the caller holds a decoded wire or nothing.
PTypeOK ==
    /\ now \in 0..MaxTime
    /\ DOMAIN ring \subseteq Entries
    /\ \A e \in DOMAIN ring : ring[e] \in Keys /\ ring[e].alg = e[3]
    /\ held.stage \in {"none", "verified", "validated"}
    /\ held.stage # "none" => held.wire \in Wires /\ held.decoder \in Decoders

\* When the held token was decoded, the ring had its signer's key under this
\* issuer, the header's kid and its alg.
UnderRingKeyOf(iss) ==
    LET header == HeaderInfo(held.wire.header)
    IN  \E kid \in header.kid : <<iss, kid, header.alg>> \in held.triples

\* key_resolver.rs: no token lands on a key registered for somebody else. A
\* verified token that asserts an issuer was signed by the key that, at the time
\* of the decode, the ring held under exactly that issuer, the header's kid and
\* its alg; under a pinned SingleKeyResolver, its issuer is the pinned one. The
\* key was chosen by the bytes the peek saw, the issuer is the one the decoder
\* read after the signature had been checked: the peek saw no other. Tokens that
\* carry a claim 0, the only label that canonical order puts before iss, are set
\* apart: RingKeyIsTheIssuers speaks of them too.
VerifiedUnderItsIssuer ==
    held.stage # "none" /\ Has(held.token, ISS) /\ ~Has(held.token, 0) =>
        LET iss == held.token[ISS]
        IN  /\ held.decoder.kind = "ring" => UnderRingKeyOf(iss)
            /\ held.decoder.kind = "single" => held.decoder.issuer \subseteq {iss}
            /\ held.decoder.kind # "algorithm" => Peek(held.wire).iss \subseteq {iss}

\* docs/PROFILE.md: "if the peeked issuer selects the wrong key, the subsequent
\* signature verification rejects the token". Of every token, whatever it carries
\* besides its issuer: a ring verifies it with a key of that issuer, or not at all.
RingKeyIsTheIssuers ==
    held.stage # "none" /\ Has(held.token, ISS) /\ held.decoder.kind = "ring" =>
        UnderRingKeyOf(held.token[ISS])

-----------------------------------------------------------------------------
(* What the proofs rest on.                                                *)

\* The byte walker and the decoder agree: where both read an issuer and there is
\* no claim 0, it is the same one (peek_issuer and the iss arm of
\* decode_payload_with_limits).
PeekAgrees(w, d) ==
    LET r == Parse(w, d.lim)
    IN  Peek(w).ok /\ r.ok /\ Has(r.token, ISS) /\ ~Has(r.token, 0) =>
            Peek(w).iss \subseteq {r.token[ISS]}

\* No step of the pipeline can be skipped: whatever the caller holds was sealed
\* as its decoder demands, admitted by its policy, signed by the key that was
\* resolved for it, under the alg of its header, and decoded within the limits;
\* and what is validated was accepted at a time not later than now, as encrypted
\* only if it came sealed.
PassedInOrder ==
    held.stage # "none" =>
        LET w      == held.wire
            d      == held.decoder
            header == HeaderInfo(w.header)
            r      == Parse(w, d.lim)
        IN  /\ w.sealed = d.enc /\ w.size <= MaxTokenSize
            /\ \A policy \in d.admission : Admits(policy, w, header)
            /\ \E k \in w.signer : w.signer = {k} /\ k.alg = header.alg
            /\ d.kind \in {"algorithm", "single"} => w.signer \subseteq d.key
            /\ r.ok /\ held.token = r.token
            /\ held.provenance = IF w.sealed = {} THEN "Signed" ELSE "Encrypted"
            /\ held.stage = "validated" =>
                held.at \in 0..now /\ Accepts(held.token, held.provenance, held.at, held.validator)

\* The key is the one registered for the issuer the peek saw.
UnderThePeekedIssuer ==
    held.stage # "none" =>
        LET header == HeaderInfo(held.wire.header)
            peek   == Peek(held.wire)
        IN  /\ held.decoder.kind = "ring" =>
                peek.ok /\ \E iss \in peek.iss, kid \in header.kid :
                                <<iss, kid, header.alg>> \in held.triples
            /\ held.decoder.kind = "single" =>
                peek.ok /\ (held.decoder.issuer # {} => peek.iss = held.decoder.issuer)

DInv == PTypeOK /\ PassedInOrder /\ UnderThePeekedIssuer
=============================================================================
