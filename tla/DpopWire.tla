------------------------------ MODULE DpopWire ------------------------------
(***************************************************************************)
(* The life of a DPoP proof (DpopProof in src/src/dpop.rs): built step by  *)
(* step, signed, encoded, received at the other end, and handled there by  *)
(* the same functions. The one piece of state that has to stay in step     *)
(* with the rest is signed_bytes, the bytes the signature covers: every    *)
(* change of a field must forget them.                                     *)
(***************************************************************************)
EXTENDS ProofCodec

CONSTANTS Contexts,      \* the [action, tns, tn] proofs are created for
          Holders,       \* the [alg, jwk] they are created with
          Signers,       \* the [alg, by] they are signed with
          Ids, Hashes, HashTexts, Nonces, Endpoints,  \* the builders' arguments
          ForeignWires,  \* proofs that some other encoder wrote
          Now,           \* the time proofs are created at
          MaxSteps       \* bound: what happens to one proof

\* What a form does to a context that is not in the range of its decoder: both
\* setups are one, a CWT has no empty namespace (it is one empty segment) and
\* a JWT has no namespace of one empty segment (it is empty).
TnsOverTheWire(tns, format) ==
    CASE format = "Cwt" /\ tns = <<>> -> << <<>> >>
      [] format = "Jwt" /\ tns = << <<>> >> -> <<>>
      [] OTHER -> tns
OverTheWire(actx, format) ==
    [actx EXCEPT !.action = ActionOverTheWire(@), !.tns = TnsOverTheWire(@, format)]
CarriedPayload(p, format) == [p EXCEPT !.actx = OverTheWire(@, format)]

\* A blob is a kind and a list of pairs, and so is the map under `inner`.
IsList(m) == m \in Seq({m[i] : i \in DOMAIN m})
IsListed(m, inner) ==
    /\ IsList(m)
    /\ \A i \in DOMAIN m : m[i][1] = inner /\ m[i][2][1] = "map" => IsList(m[i][2][2])
IsSigned(signed) == IsListed(signed[1][2], "COSE_Key") /\ IsListed(signed[2][2], "actx")

IsBytes(b) == IsList(b) /\ \A i \in DOMAIN b : b[i] \in DOMAIN Base64

\* What the canonical text forms write is read back, but for the empty
\* namespace, which is written like the one with an empty segment.
TnsSurvives(tns) ==
    /\ CanonicalTns(tns) # Absent /\ tns # Refused
    /\ CanonicalTns(tns) = <<>> <=> tns \in {<<>>, << <<>> >>}
    /\ TnsFromCanonical(CanonicalTns(tns)) = IF tns = <<>> THEN << <<>> >> ELSE tns
TnSurvives(tn) ==
    /\ CanonicalElement(tn) # Absent /\ tn # Refused
    /\ ElementFromCanonical(CanonicalElement(tn)) = tn

\* No signer has the key that an incomplete one becomes in a CWT, where a
\* missing member is an empty one.
NobodysKey(jwk) ==
    (JwkToCoseKey(jwk) # Refused /\ Thumbprint(jwk) = Refused) =>
        \A s \in Signers : s.by # Thumbprint(CoseKeyToJwk(JwkToCoseKey(jwk)))

IsKey(jwk) ==
    /\ jwk = [kty |-> jwk.kty, crv |-> jwk.crv, x |-> jwk.x, y |-> jwk.y, n |-> jwk.n, e |-> jwk.e]
    /\ jwk.kty # Absent
    /\ \A k \in {"x", "y", "n", "e"} : jwk[k] = Absent \/ IsList(jwk[k])
    /\ NobodysKey(jwk)
IsHeader(h) ==
    /\ h = [alg |-> h.alg, typ |-> h.typ, jwk |-> h.jwk]
    /\ h.alg \notin {Absent, Refused} /\ h.typ # Absent
    /\ IsKey(h.jwk)
IsActx(a) ==
    /\ a = [ctx_type |-> a.ctx_type, action |-> a.action, tns |-> a.tns, tn |-> a.tn,
            resource |-> a.resource]
    /\ a.ctx_type # Absent /\ a.action \in DOMAIN WireNames
    /\ TnsSurvives(a.tns) /\ TnSurvives(a.tn)
IsPayload(p) ==
    /\ p = [cti |-> p.cti, iat |-> p.iat, actx |-> p.actx, ath |-> p.ath, nonce |-> p.nonce]
    /\ p.iat # Absent
    /\ p.ath = Absent \/ IsBytes(p.ath)
    /\ IsActx(p.actx)

\* What is read from a foreign wire is in the range of its decoder.
IsForeign(w) ==
    /\ w.signed # Refused /\ IsSigned(w.signed)
    /\ LET p == Decode(w)
       IN  p # Refused =>
              /\ IsHeader(p.header) /\ IsPayload(p.payload)
              /\ CarriedPayload(p.payload, p.wire_format) = p.payload

ASSUME WireWords ==
    /\ Absent # Refused
    /\ {Absent, Refused} \cap ({"moqt", "dpop-proof+cwt", "dpop-proof+jwt", "EC", "RSA", "P-256"}
           \cup DOMAIN WireNames \cup {WireNames[a] : a \in DOMAIN WireNames}
           \cup {JoseNames[a] : a \in DOMAIN JoseNames}) = {}
    /\ TnsSurvives(<<>>) /\ TnsSurvives(<< <<>> >>) /\ TnSurvives(<<>>)
    /\ ElementFromCanonical(<<>>) = <<>>

ASSUME WireConstants ==
    /\ \A c \in Contexts :
          c.action \in DOMAIN WireNames /\ TnsSurvives(c.tns) /\ TnSurvives(c.tn)
    /\ \A h \in Holders : h.alg \notin {Absent, Refused} /\ IsKey(h.jwk)
    /\ Now # Absent
    /\ \A ath \in Hashes : IsBytes(ath)
    /\ \A text \in HashTexts :
          IsList(text) /\ (DecodeBase64(text) = Refused => IsBytes(text))
    /\ \A w \in ForeignWires : IsForeign(w)

VARIABLES proof,     \* the proof at hand, Absent before the first
          signings,  \* history: who signed which content
          steps      \* what has happened to it so far, up to MaxSteps

wvars == <<proof, signings, steps>>

Content(p) == <<p.header.alg, p.header.typ, Thumbprint(p.header.jwk), p.payload>>

WInit == proof = Absent /\ signings = {} /\ steps = 0

-----------------------------------------------------------------------------
\* create_for_moqt.
CreateForMoqt(c, holder) ==
    /\ proof = Absent
    /\ proof' = [header |-> [alg |-> holder.alg, typ |-> "dpop-proof+cwt", jwk |-> holder.jwk],
                 payload |-> [cti |-> Absent, iat |-> Now,
                              actx |-> [ctx_type |-> "moqt", action |-> c.action,
                                        tns |-> c.tns, tn |-> c.tn, resource |-> Absent],
                              ath |-> Absent, nonce |-> Absent],
                 signature |-> Absent, signed_bytes |-> <<>>, wire_format |-> "Cwt"]
    /\ UNCHANGED signings

\* DpopProof::new, from the parts of the proof at hand.
New ==
    /\ proof # Absent
    /\ proof' = [proof EXCEPT !.signed_bytes = <<>>, !.wire_format = "Cwt"]
    /\ UNCHANGED signings

\* A builder step that sets one payload field; each forgets the signed bytes.
WithPayload(payload) ==
    /\ proof' = [proof EXCEPT !.payload = payload, !.signed_bytes = <<>>]
    /\ UNCHANGED signings

WithReplayId(id) ==
    proof # Absent /\ WithPayload([proof.payload EXCEPT !.cti = id])

\* with_resource, with the URI construct_moqt_uri makes for the proof's own
\* context, as far as the caller names it.
WithResource(endpoint, named) ==
    /\ proof # Absent
    /\ LET actx == proof.payload.actx
           uri == ConstructMoqtUri(endpoint,
                                   IF named = "endpoint" THEN Absent ELSE actx.tns,
                                   IF named = "track" THEN actx.tn ELSE Absent)
       IN  uri # Refused /\ WithPayload([proof.payload EXCEPT !.actx.resource = uri])

WithAccessTokenHash(ath) ==
    proof # Absent /\ WithPayload([proof.payload EXCEPT !.ath = ath])

\* A text that is no base64 is stored as it is.
WithAccessTokenHashB64(text) ==
    /\ proof # Absent
    /\ WithPayload([proof.payload EXCEPT !.ath =
                        IF DecodeBase64(text) = Refused THEN text ELSE DecodeBase64(text)])

\* Mutant: the signed bytes are kept.
WithNonceKeepsBytes(nonce) ==
    /\ proof # Absent
    /\ proof' = [proof EXCEPT !.payload.nonce = nonce]
    /\ UNCHANGED signings

WithNonce(nonce) ==
    proof # Absent /\ WithPayload([proof.payload EXCEPT !.nonce = nonce])

WithWireFormat(format) ==
    /\ proof # Absent
    /\ proof' = [proof EXCEPT
                    !.wire_format = format,
                    !.header.typ = IF format = "Cwt" THEN "dpop-proof+cwt" ELSE "dpop-proof+jwt",
                    !.signed_bytes = <<>>]
    /\ UNCHANGED signings

\* sign: always over a fresh encoding. An algorithm other than the header's,
\* or a proof that cannot be encoded, is an error and changes nothing.
Sign(signer) ==
    /\ proof # Absent
    /\ signer.alg = proof.header.alg
    /\ LET bytes == EncodeHeaderAndPayload(proof.wire_format, proof.header, proof.payload)
       IN  /\ bytes # Refused
           /\ proof' = [proof EXCEPT
                  !.signature = [by |-> signer.by,
                                 over |-> SignatureInput(proof.wire_format, proof.header.alg, bytes)],
                  !.signed_bytes = bytes]
    /\ signings' = signings \cup {[by |-> signer.by, content |-> Content(proof)]}

\* encode at one end, decode at the other.
Deliver ==
    /\ proof # Absent
    /\ LET w == Encode(proof)
       IN  /\ w # Refused
           /\ Decode(w) # Refused
           /\ proof' = Decode(w)
    /\ UNCHANGED signings

\* A proof another encoder wrote, signed by `by`, arrives.
Receive(w, by) ==
    /\ proof = Absent
    /\ Decode(w) # Refused
    /\ LET p == Decode(w)
       IN  /\ proof' = [p EXCEPT !.signature =
                           [by |-> by, over |-> SignatureInput(p.wire_format, p.header.alg, w.signed)]]
           /\ signings' = {[by |-> by, content |-> Content(p)]}

Step ==
    \/ \E c \in Contexts, holder \in Holders : CreateForMoqt(c, holder)
    \/ New
    \/ \E id \in Ids : WithReplayId(id)
    \/ \E endpoint \in Endpoints, named \in {"endpoint", "namespace", "track"} :
          WithResource(endpoint, named)
    \/ \E ath \in Hashes : WithAccessTokenHash(ath)
    \/ \E text \in HashTexts : WithAccessTokenHashB64(text)
    \/ \E nonce \in Nonces : WithNonce(nonce)
    \/ \E format \in {"Cwt", "Jwt"} : WithWireFormat(format)
    \/ \E signer \in Signers : Sign(signer)
    \/ Deliver
    \/ \E w \in ForeignWires, signer \in Signers : Receive(w, signer.by)

WNext == steps < MaxSteps /\ steps' = steps + 1 /\ Step

WSpec == WInit /\ [][WNext]_wvars

-----------------------------------------------------------------------------
Carried(content, format) ==
    <<content[1], content[2], content[3], CarriedPayload(content[4], format)>>

\* What a proof puts on the wire is what it says in memory: whenever it can be
\* encoded and is not too long, the other end reads the fields the proof has
\* now, its key and its signature, whatever was changed after signing, after
\* receiving or between two forms (dpop.rs 590-656: every builder forgets
\* signed_bytes, encode() prefers them). Only a CWT of an incomplete key is left
\* out: it has an empty member for the missing one.
WireIsCurrent ==
    (proof # Absent
        /\ (proof.wire_format = "Cwt" => Thumbprint(proof.header.jwk) # Refused)) =>
        LET w == Encode(proof)
        IN  (w # Refused /\ ~(WireSize(w) > MAX_DPOP_WIRE_SIZE)) =>
                LET p == Decode(w)
                IN  /\ p # Refused
                    /\ Content(p) = Carried(Content(proof), proof.wire_format)
                    /\ p.wire_format = proof.wire_format
                    /\ p.signature = proof.signature

\* A proof that verifies says what its holder signed: a change after signing,
\* a change of form or a signature by another key never passes
\* verify_with_embedded_key (dpop.rs 2585-2603 over signing_input 670-676).
VerifiedMeansSigned ==
    (proof # Absent /\ VerifyWithEmbeddedKey(proof)) =>
        \E s \in signings :
            /\ s.by = Thumbprint(proof.header.jwk)
            /\ Carried(s.content, proof.wire_format) = Carried(Content(proof), proof.wire_format)

\* The same map read back to front, with the map under `inner` too.
Turned(pair, inner) ==
    IF pair[1] = inner /\ pair[2][1] = "map"
    THEN <<inner, Map(Reverse(pair[2][2]))>> ELSE pair
BackToFront(blob, inner) ==
    Map(Reverse([i \in DOMAIN blob[2] |-> Turned(blob[2][i], inner)]))

\* A reader that resolves repeated keys the other way round agrees about every
\* proof that was accepted: about all maps of a CWT but the parameters, and
\* about the top level of a JWT's header and payload (into_int_keyed_map,
\* dpop.rs 817-841; reject_duplicate_top_level_keys, 1548-1554).
AcceptedIsUnambiguous ==
    (proof # Absent /\ proof.signed_bytes # <<>> /\ Decode(Encode(proof)) # Refused) =>
        LET nested == proof.wire_format = "Cwt"
            flipped == Decode([Encode(proof) EXCEPT !.signed =
                          <<BackToFront(@[1], IF nested THEN "COSE_Key" ELSE ""),
                            BackToFront(@[2], IF nested THEN "actx" ELSE "")>>])
        IN  flipped # Refused /\ Content(flipped) = Content(Decode(Encode(proof)))

\* The relay's parser takes the resource URI a holder builds for its own context
\* apart into exactly the endpoint, namespace and track it was built from, in
\* either form, and into no others (construct_moqt_uri, dpop.rs 2683-2718;
\* parse_moqt_resource_uri, moqt.rs 1423-1498). It refuses two kinds of URI that
\* can be built, and no other: those of an empty endpoint, and of the namespace
\* that is one empty segment. That namespace and the empty one come out of some
\* deliveries as each other, so such a proof's URI may have been built for either.
EmptyTuples == {<<>>, << <<>> >>}
ResourceAgrees ==
    (proof # Absent /\ proof.payload.actx.resource # Absent) =>
        LET actx == proof.payload.actx
            tuples == {Absent} \cup IF actx.tns \in EmptyTuples THEN EmptyTuples ELSE {actx.tns}
            parts == [endpoint : Endpoints, namespace : tuples, track : {Absent, actx.tn}]
            built == {p \in parts :
                         ConstructMoqtUri(p.endpoint, p.namespace, p.track) = actx.resource}
        IN  /\ built # {}
            /\ \A p \in built :
                  ParseMoqtResourceUri(actx.resource) =
                      IF p.endpoint = <<>> \/ p.namespace = << <<>> >> THEN Refused ELSE p

\* A proof that has its action's shape keeps it over the wire, so that a
\* well-formed setup proof can authorize (enforce_actx_shape, moqt.rs 1547).
ShapeSurvives ==
    (proof # Absent /\ proof.signed_bytes # <<>>) =>
        LET actx == proof.payload.actx
            p == Decode(Encode(proof))
        IN  (ActxShape(actx.action, actx.tns, actx.tn) /\ p # Refused) =>
                ActxShape(p.payload.actx.action, p.payload.actx.tns, p.payload.actx.tn)

-----------------------------------------------------------------------------
(* What the theorems rest on.                                              *)

HeaderOf(format, signed) ==
    IF format = "Cwt" THEN CwtDecodeHeader(signed[1]) ELSE JwtDecodeHeader(signed[1])
PayloadOf(format, signed) ==
    IF format = "Cwt" THEN CwtDecodePayload(signed[2]) ELSE JwtDecodePayload(signed[2])

\* These bytes are read as this header and this payload.
ReadsAs(format, signed, header, payload) ==
    LET h == HeaderOf(format, signed)
    IN  /\ h # Refused /\ IsHeader(h)
        /\ h.alg = header.alg /\ h.typ = header.typ
        /\ (format = "Cwt" => Thumbprint(header.jwk) # Refused) =>
              Thumbprint(h.jwk) = Thumbprint(header.jwk)
        /\ PayloadOf(format, signed) = CarriedPayload(payload, format)

\* The bytes a signature is over are read as what its signer signed, unless
\* the key in them is not the signer's.
SignedAs(signature, s) ==
    LET over == signature.over
        signed == <<over[2], over[3]>>
        format == IF over[1] = "jws" THEN "Jwt" ELSE "Cwt"
        h == HeaderOf(format, signed)
    IN  /\ signature.by = s.by
        /\ h.alg = s.content[1] /\ h.typ = s.content[2]
        /\ Thumbprint(h.jwk) = s.content[3] \/ Thumbprint(h.jwk) # s.by
        /\ PayloadOf(format, signed) = CarriedPayload(s.content[4], format)

\* The shape of a proof and of the bytes it keeps.
ShapeInv ==
    proof # Absent =>
        /\ DOMAIN proof = {"header", "payload", "signature", "signed_bytes", "wire_format"}
        /\ proof.wire_format \in {"Cwt", "Jwt"}
        /\ proof.signed_bytes # <<>> =>
              proof.signed_bytes # Refused /\ IsSigned(proof.signed_bytes)

\* The bytes it keeps are those of the header and the payload it has now,
\* and its signature is one that somebody made.
WireInv ==
    proof # Absent =>
        /\ IsHeader(proof.header) /\ IsPayload(proof.payload)
        /\ proof.signed_bytes # <<>> =>
              ReadsAs(proof.wire_format, proof.signed_bytes, proof.header, proof.payload)
        /\ proof.signature # Absent => \E s \in signings : SignedAs(proof.signature, s)
=============================================================================
