------------------------- MODULE TokenDecoderProofs -------------------------
(***************************************************************************)
(* Proofs about TokenDecoder: for every set of wires, decoders and keys,   *)
(* whatever the ring's history, and whatever the payload decoder and the   *)
(* validator compute.                                                      *)
(***************************************************************************)
EXTENDS TokenDecoder, TLAPS

\* A decode that succeeds has passed every stage of Decoder::decode, and its key
\* is the resolver's.
LEMMA DecodedPassed ==
    ASSUME NEW w, NEW d, NEW keys, DecodeWire(w, d, keys).ok
    PROVE  LET header == HeaderInfo(w.header)
           IN  /\ w.sealed = d.enc /\ w.size <= MaxTokenSize
               /\ \A policy \in d.admission : Admits(policy, w, header)
               /\ DecodeWire(w, d, keys) = Parse(w, d.lim)
               /\ \E k \in KeyFor(d, keys, w, header) :
                    w.signer = {k} /\ k.alg = header.alg
<1> DEFINE header == HeaderInfo(w.header)
           key == KeyFor(d, keys, w, header)
<1>1. ~Refused.ok
  BY DEF Refused
<1>2. /\ w.sealed = d.enc
      /\ DecodeWire(w, d, keys) = DecodeSigned(w, d, keys)
  BY <1>1 DEF DecodeWire
<1>3. /\ w.size <= MaxTokenSize
      /\ \A policy \in d.admission : Admits(policy, w, header)
      /\ key # {}
      /\ DecodeSigned(w, d, keys) = VerifyAndDecode(w, header, CHOOSE k \in key : TRUE, d.lim)
  BY <1>1, <1>2 DEF DecodeSigned
<1>4. PICK k \in key : k = CHOOSE x \in key : TRUE
  BY <1>3
<1>5. /\ header.alg = k.alg
      /\ w.signer = {k}
      /\ VerifyAndDecode(w, header, k, d.lim) = Parse(w, d.lim)
  BY <1>1, <1>2, <1>3, <1>4 DEF VerifyAndDecode
<1> QED
  BY <1>2, <1>3, <1>4, <1>5

\* The keys KeyFor offers: the decoder's own,
LEMMA ResolvedKeys ==
    ASSUME NEW w, NEW d \in Decoders, NEW keys, NEW header,
           NEW k \in KeyFor(d, keys, w, header)
    PROVE  /\ d.kind \in {"algorithm", "single"} => k \in d.key
           /\ d.kind = "single" =>
                Peek(w).ok /\ (d.issuer # {} => Peek(w).iss = d.issuer)
<1>1. CASE d.kind = "algorithm"
  BY <1>1 DEF KeyFor
<1>2. CASE d.kind = "single"
  <2>1. Peek(w).ok /\ k \in ResolveSingle(d, header, Peek(w).iss)
    BY <1>2 DEF KeyFor
  <2> QED
    BY <1>2, <2>1 DEF ResolveSingle
<1>3. CASE d.kind = "ring"
  BY <1>3
<1> QED
  BY <1>1, <1>2, <1>3, DecoderConstants

\* or one of the ring, registered under the issuer the peek saw.
LEMMA ResolvedFromRing ==
    ASSUME NEW w, NEW d \in Decoders, NEW keys, NEW header,
           NEW k \in KeyFor(d, keys, w, header), d.kind = "ring"
    PROVE  /\ Peek(w).ok
           /\ \E iss \in Peek(w).iss, kid \in header.kid :
                 <<iss, kid, header.alg>> \in DOMAIN keys /\ k = keys[<<iss, kid, header.alg>>]
<1>1. Peek(w).ok /\ k \in ResolveRing(keys, header, Peek(w).iss)
  BY DEF KeyFor
<1>2. PICK e \in DOMAIN keys \cap {<<i, kid, header.alg>> : i \in Peek(w).iss, kid \in header.kid} :
          k = keys[e]
  BY <1>1 DEF ResolveRing
<1> QED
  BY <1>1, <1>2

-----------------------------------------------------------------------------
LEMMA DInit ==
    PInit => DInv
<1> SUFFICES ASSUME PInit PROVE DInv
  OBVIOUS
<1>1. held.stage = "none"
  BY DEF PInit, Nothing
<1>2. DOMAIN ring = {}
  BY DEF PInit
<1> QED
  BY <1>1, <1>2, DecoderConstants DEF PInit, DInv, PTypeOK, PassedInOrder, UnderThePeekedIssuer

\* A step that leaves what is held alone and moves neither the clock back nor the
\* ring out of its type keeps the invariant.
LEMMA HeldStays ==
    ASSUME DInv, held' = held, now' \in 0..MaxTime, now \in 0..now',
           DOMAIN ring' \subseteq Entries,
           \A e \in DOMAIN ring' : ring'[e] \in Keys /\ ring'[e].alg = e[3]
    PROVE  DInv'
<1>1. PTypeOK'
  BY DEF DInv, PTypeOK
<1>2. UnderThePeekedIssuer'
  BY DEF DInv, UnderThePeekedIssuer
<1>3. PassedInOrder'
  <2>1. 0..now \subseteq 0..now'
    BY DecoderConstants
  <2> QED
    BY <2>1 DEF DInv, PassedInOrder
<1> QED
  BY <1>1, <1>2, <1>3 DEF DInv

LEMMA AddKeyStep ==
    ASSUME DInv, NEW e \in Entries, NEW k \in Keys, AddKey(e, k)
    PROVE  DInv'
<1>1. DOMAIN ring' = {e} \cup DOMAIN ring
  BY DEF AddKey, Registered
<1>2. \A f \in DOMAIN ring' : ring'[f] = IF f = e THEN k ELSE ring[f]
  BY DEF AddKey, Registered
<1>3. /\ DOMAIN ring' \subseteq Entries
      /\ \A f \in DOMAIN ring' : ring'[f] \in Keys /\ ring'[f].alg = f[3]
  BY <1>1, <1>2 DEF DInv, PTypeOK, AddKey
<1> QED
  BY <1>3, HeldStays, DecoderConstants DEF AddKey, DInv, PTypeOK

LEMMA RemoveKeyStep ==
    ASSUME DInv, NEW e, RemoveKey(e)
    PROVE  DInv'
<1>1. /\ DOMAIN ring' \subseteq Entries
      /\ \A f \in DOMAIN ring' : ring'[f] \in Keys /\ ring'[f].alg = f[3]
  BY DEF RemoveKey, DInv, PTypeOK
<1> QED
  BY <1>1, HeldStays, DecoderConstants DEF RemoveKey, DInv, PTypeOK

LEMMA TickStep ==
    ASSUME DInv, Tick
    PROVE  DInv'
<1>1. now' \in 0..MaxTime /\ now \in 0..now'
  BY DecoderConstants DEF Tick, DInv, PTypeOK
<1> QED
  BY <1>1, HeldStays DEF Tick, DInv, PTypeOK

\* Nothing is held: the invariant says nothing of it.
LEMMA NothingHeld ==
    ASSUME DInv, held' = Nothing, now' = now, ring' = ring
    PROVE  DInv'
<1>1. held'.stage = "none"
  BY DEF Nothing
<1> QED
  BY <1>1 DEF DInv, PTypeOK, PassedInOrder, UnderThePeekedIssuer

LEMMA DecodeStep ==
    ASSUME DInv, NEW w \in Wires, NEW d \in Decoders, Decode(w, d)
    PROVE  DInv'
<1> DEFINE header == HeaderInfo(w.header)
           r == DecodeWire(w, d, ring)
           triples == TriplesOf(w, d)
<1>1. CASE ~r.ok
  BY <1>1, NothingHeld DEF Decode
<1>2. CASE r.ok
  <2>1. held' = [stage |-> "verified", wire |-> w, decoder |-> d, token |-> r.token,
                 provenance |-> ProvenanceBy(d), triples |-> triples]
    BY <1>2 DEF Decode
  <2>2. now' = now /\ ring' = ring
    BY DEF Decode
  <2>3. /\ w.sealed = d.enc /\ w.size <= MaxTokenSize
        /\ \A policy \in d.admission : Admits(policy, w, header)
        /\ r = Parse(w, d.lim)
    BY <1>2, DecodedPassed
  <2>4. PICK k \in KeyFor(d, ring, w, header) : w.signer = {k} /\ k.alg = header.alg
    BY <1>2, DecodedPassed
  <2> HIDE DEF r, triples, header
  <2>5. /\ held'.stage = "verified" /\ held'.wire = w /\ held'.decoder = d
        /\ held'.token = r.token /\ held'.provenance = ProvenanceBy(d)
        /\ held'.triples = triples
    BY <2>1
  <2>6. PTypeOK'
    BY <2>2, <2>5 DEF DInv, PTypeOK
  <2>8. d.kind \in {"algorithm", "single"} => w.signer \subseteq d.key
    BY <2>4, ResolvedKeys
  <2>9. ProvenanceBy(d) = IF w.sealed = {} THEN "Signed" ELSE "Encrypted"
    BY <2>3 DEF ProvenanceBy
  <2>10. PassedInOrder'
    BY <1>2, <2>3, <2>4, <2>5, <2>8, <2>9 DEF PassedInOrder, header
  <2>11. UnderThePeekedIssuer'
    <3>1. d.kind = "single" => Peek(w).ok /\ (d.issuer # {} => Peek(w).iss = d.issuer)
      BY <2>4, ResolvedKeys
    <3>2. ASSUME d.kind = "ring"
          PROVE  /\ Peek(w).ok
                 /\ \E iss \in Peek(w).iss, kid \in header.kid : <<iss, kid, header.alg>> \in triples
      <4>1. PICK iss \in Peek(w).iss, kid \in header.kid :
                /\ <<iss, kid, header.alg>> \in DOMAIN ring
                /\ k = ring[<<iss, kid, header.alg>>]
        BY <2>4, <3>2, ResolvedFromRing
      <4>2. <<iss, kid, header.alg>> \in triples
        BY <2>4, <3>2, <4>1 DEF triples, TriplesOf
      <4>3. Peek(w).ok
        BY <2>4, <3>2, ResolvedFromRing
      <4> QED
        BY <4>1, <4>2, <4>3
    <3> QED
      BY <2>5, <3>1, <3>2 DEF UnderThePeekedIssuer, header
  <2> QED
    BY <2>6, <2>10, <2>11 DEF DInv
<1> QED
  BY <1>1, <1>2

LEMMA ValidateStep ==
    ASSUME DInv, NEW v, Validate(v)
    PROVE  DInv'
<1>1. CASE ~Accepts(held.token, held.provenance, now, v)
  BY <1>1, NothingHeld DEF Validate
<1>2. CASE Accepts(held.token, held.provenance, now, v)
  <2>1. held' = [stage |-> "validated", wire |-> held.wire, decoder |-> held.decoder,
                 token |-> held.token, provenance |-> held.provenance,
                 triples |-> held.triples, validator |-> v, at |-> now]
    BY <1>2 DEF Validate
  <2>2. held.stage = "verified" /\ now' = now /\ ring' = ring
    BY DEF Validate
  <2>3. /\ held'.stage = "validated" /\ held'.wire = held.wire /\ held'.decoder = held.decoder
        /\ held'.token = held.token /\ held'.provenance = held.provenance
        /\ held'.triples = held.triples /\ held'.validator = v /\ held'.at = now
    BY <2>1
  <2>4. PTypeOK'
    BY <2>2, <2>3 DEF DInv, PTypeOK
  <2>5. now \in 0..now
    BY DecoderConstants DEF DInv, PTypeOK
  <2>6. PassedInOrder'
    BY <1>2, <2>2, <2>3, <2>5 DEF DInv, PassedInOrder
  <2>7. UnderThePeekedIssuer'
    BY <2>2, <2>3 DEF DInv, UnderThePeekedIssuer
  <2> QED
    BY <2>4, <2>6, <2>7 DEF DInv
<1> QED
  BY <1>1, <1>2

-----------------------------------------------------------------------------
LEMMA DStep ==
    DInv /\ [PNext]_pvars => DInv'
<1> SUFFICES ASSUME DInv, [PNext]_pvars PROVE DInv'
  OBVIOUS
<1>1. CASE \E e \in Entries, k \in Keys : AddKey(e, k)
  BY <1>1, AddKeyStep
<1>2. CASE \E e \in Entries : RemoveKey(e)
  BY <1>2, RemoveKeyStep
<1>3. CASE \E w \in Wires, d \in Decoders : Decode(w, d)
  BY <1>3, DecodeStep
<1>4. CASE \E v \in Validators : Validate(v)
  BY <1>4, ValidateStep
<1>5. CASE Tick
  BY <1>5, TickStep
<1>6. CASE UNCHANGED pvars
  BY <1>6, HeldStays, DecoderConstants DEF pvars, DInv, PTypeOK
<1> QED
  BY <1>1, <1>2, <1>3, <1>4, <1>5, <1>6 DEF PNext

LEMMA DInvariant ==
    PSpec => []DInv
BY DInit, DStep, PTL DEF PSpec

\* Whatever operators register and remove, the ring maps registered triples to
\* keys of the algorithm they name (KeyRingResolver::add_key, remove_key), and a
\* caller holds a wire that some decoder has decoded, or nothing.
THEOREM PipelineTypeCorrect ==
    PSpec => []PTypeOK
<1>1. DInv => PTypeOK
  BY DEF DInv
<1> QED
  BY <1>1, DInvariant, PTL

\* The type states of pipeline.rs keep their promise: nobody holds a verified
\* token whose wire was not admitted, sealed as demanded and signed by the key
\* resolved for it, nor a validated one that the validator did not accept at a
\* time not later than now, with the provenance its wire really has.
THEOREM NothingIsSkipped ==
    PSpec => []PassedInOrder
<1>1. DInv => PassedInOrder
  BY DEF DInv
<1> QED
  BY <1>1, DInvariant, PTL

\* The byte walker alone chooses the key (Decoder::decode, key_resolver.rs): of
\* all wires, however their payload is written and whatever the decoder reads in
\* it afterwards, a ring verifies only those whose peeked issuer, kid and alg are
\* a triple the signer's key was registered under at the time of the decode,
\* however the ring has been rotated before and after, and a pinned resolver only
\* those whose peeked issuer is the pinned one.
THEOREM KeysAreThePeekedIssuers ==
    PSpec => []UnderThePeekedIssuer
<1>1. DInv => UnderThePeekedIssuer
  BY DEF DInv
<1> QED
  BY <1>1, DInvariant, PTL

\* No token without a claim 0 lands on a key registered for somebody else
\* (key_resolver.rs): where the byte walker and the decoder read one issuer out of
\* such a payload, a verified token that names an issuer was signed by the key the
\* ring held for that very issuer, kid and alg at the time of its decode; under a
\* pinned resolver, by the pinned issuer's key. With a claim 0 the walker may read
\* another issuer than the decoder, and only KeysAreThePeekedIssuers remains.
THEOREM TokensVerifyUnderTheirIssuer ==
    ASSUME \A w \in Wires, d \in Decoders : PeekAgrees(w, d)
    PROVE  PSpec => []VerifiedUnderItsIssuer
<1>1. ASSUME DInv
      PROVE  VerifiedUnderItsIssuer
  <2> SUFFICES ASSUME held.stage # "none", Has(held.token, ISS), ~Has(held.token, 0)
               PROVE  LET iss == held.token[ISS]
                      IN  /\ held.decoder.kind = "ring" => UnderRingKeyOf(iss)
                          /\ held.decoder.kind = "single" => held.decoder.issuer \subseteq {iss}
                          /\ held.decoder.kind # "algorithm" => Peek(held.wire).iss \subseteq {iss}
    BY DEF VerifiedUnderItsIssuer
  <2>1. held.wire \in Wires /\ held.decoder \in Decoders
    BY <1>1 DEF DInv, PTypeOK
  <2>2. LET r == Parse(held.wire, held.decoder.lim) IN r.ok /\ held.token = r.token
    BY <1>1 DEF DInv, PassedInOrder
  <2>3. Peek(held.wire).ok => Peek(held.wire).iss \subseteq {held.token[ISS]}
    BY <2>1, <2>2 DEF PeekAgrees
  <2>4. CASE held.decoder.kind = "ring"
    BY <1>1, <2>3, <2>4 DEF DInv, UnderThePeekedIssuer, UnderRingKeyOf
  <2>5. CASE held.decoder.kind = "single"
    BY <1>1, <2>3, <2>5 DEF DInv, UnderThePeekedIssuer
  <2>6. CASE held.decoder.kind = "algorithm"
    BY <2>6
  <2> QED
    BY <2>1, <2>4, <2>5, <2>6, DecoderConstants
<1> QED
  BY <1>1, DInvariant, PTL
=============================================================================
