----------------------------- MODULE ProofCodec -----------------------------
(***************************************************************************)
(* The two wire forms of a DPoP proof, modules cwt (COSE_Sign1) and jwt    *)
(* (JWS compact) of src/src/dpop.rs, and the `moqt://` resource URI.       *)
(*                                                                         *)
(* In memory a proof has header [alg, typ, jwk], payload [cti, iat, actx,  *)
(* ath, nonce], signature, signed_bytes and wire_format; actx is           *)
(* [ctx_type, action, tns, tn, resource]. signed_bytes is <<>> or the      *)
(* encoded header and payload. On the wire it is [frame, signed,           *)
(* signature]; frame is "sign1" for the tag 18 around a four-element array *)
(* with an empty unprotected map and nothing after it, "compact" for an    *)
(* ASCII text with two dots, and anything else is neither.                 *)
(***************************************************************************)
EXTENDS Jwk

CONSTANT MAX_DPOP_WIRE_SIZE  \* here in characters of the track name

WireNames == [ClientSetup |-> "SETUP", ServerSetup |-> "SETUP",
              PublishNamespace |-> "PUB_NS", SubscribeNamespace |-> "SUB_NS",
              Subscribe |-> "SUBSCRIBE", RequestUpdate |-> "REQ_UPDATE",
              Publish |-> "PUBLISH", Fetch |-> "FETCH", TrackStatus |-> "TRK_STATUS"]
ActionWireName(action) == WireNames[action]
ActionFromWireName(name) ==
    IF name = "SETUP" THEN "ClientSetup"
    ELSE IF \E a \in DOMAIN WireNames : WireNames[a] = name
    THEN CHOOSE a \in DOMAIN WireNames : WireNames[a] = name
    ELSE Refused

JoseNames == [alg \in {5, ALG_ES256, ALG_PS256} |->
                 CASE alg = 5 -> "HS256" [] alg = ALG_ES256 -> "ES256" [] OTHER -> "PS256"]
CoseToJose(alg) == IF alg \in DOMAIN JoseNames THEN JoseNames[alg] ELSE Refused
JoseToCose(name) ==
    IF \E alg \in DOMAIN JoseNames : JoseNames[alg] = name
    THEN CHOOSE alg \in DOMAIN JoseNames : JoseNames[alg] = name
    ELSE Refused

\* A record that was read, or Refused if one of its fields was.
Unless(refused, read) == IF refused THEN Refused ELSE read

-----------------------------------------------------------------------------
(* cwt                                                                     *)

ActxToCbor(actx) ==
    Map(<< <<"type", Text(actx.ctx_type)>>,
           <<"action", Text(ActionWireName(actx.action))>>,
           <<"tns", Text(CanonicalTns(actx.tns))>> >>
        \o (IF actx.tn = <<>> THEN <<>> ELSE << <<"tn", Text(CanonicalElement(actx.tn))>> >>)
        \o (IF actx.resource = Absent THEN <<>>
            ELSE << <<"parameters", Map(<< <<"resource", Text(actx.resource)>> >>)>> >>))

\* A resource that is no text is passed over, and so are parameters that are
\* no map.
CborResource(m) ==
    LET params == As(m, "parameters", "map")
        at == {i \in DOMAIN params : params[i][1] = "resource" /\ params[i][2][1] = "text"}
    IN  IF params = Absent \/ at = {} THEN Absent ELSE params[Max(at)][2][2]

\* The fields of an actx, once each has been read: both forms require type,
\* action and tns.
Actx(type, action, tns, tn, resource) ==
    Unless(action = Refused \/ tns = Refused \/ tn = Refused,
           [ctx_type |-> type, action |-> action, tns |-> tns, tn |-> tn,
            resource |-> resource])

CborToActx(v) ==
    IF v[1] # "map" THEN Refused
    ELSE IF \/ ~IntKeyed(v[2])
            \/ \E key \in {"type", "action", "tns"} : As(v[2], key, "text") = Absent
            \/ ~AbsentOr(v[2], "tn", "text")
         THEN Refused
    ELSE Actx(As(v[2], "type", "text"), ActionFromWireName(As(v[2], "action", "text")),
              TnsFromCanonical(As(v[2], "tns", "text")),
              ElementFromCanonical(OrEmpty(As(v[2], "tn", "text"))),
              CborResource(v[2]))

CwtEncodeHeader(h) ==
    LET key == JwkToCoseKey(h.jwk)
    IN  Unless(key = Refused,
               Map(<< <<"alg", Integer(h.alg)>>, <<"COSE_Key", key>>, <<"typ", Text(h.typ)>> >>))

Header(alg, typ, jwk) ==
    Unless(alg = Absent \/ alg = Refused \/ typ = Absent \/ jwk = Refused,
           [alg |-> alg, typ |-> typ, jwk |-> jwk])

CwtDecodeHeader(blob) ==
    IF blob[1] # "map" THEN Refused
    ELSE IF ~IntKeyed(blob[2]) \/ Get(blob[2], "COSE_Key") = Absent THEN Refused
    ELSE Header(As(blob[2], "alg", "int"), As(blob[2], "typ", "text"),
                CoseKeyToJwk(Get(blob[2], "COSE_Key")))

CwtEncodePayload(p) ==
    Map(<< <<"iat", Integer(p.iat)>> >> \o Optional("cti", "bytes", p.cti)
        \o << <<"actx", ActxToCbor(p.actx)>> >>
        \o Optional("nonce", "text", p.nonce) \o Optional("ath", "bytes", p.ath))

Payload(cti, iat, actx, ath, nonce) ==
    Unless(iat = Absent \/ actx = Refused \/ ath = Refused,
           [cti |-> cti, iat |-> iat, actx |-> actx, ath |-> ath, nonce |-> nonce])

CwtDecodePayload(blob) ==
    IF blob[1] # "map" THEN Refused
    ELSE IF \/ ~IntKeyed(blob[2])
            \/ ~AbsentOr(blob[2], "cti", "bytes")
            \/ ~AbsentOr(blob[2], "ath", "bytes")
            \/ ~AbsentOr(blob[2], "nonce", "text")
            \/ Get(blob[2], "actx") = Absent
         THEN Refused
    ELSE Payload(As(blob[2], "cti", "bytes"), As(blob[2], "iat", "int"),
                 CborToActx(Get(blob[2], "actx")), As(blob[2], "ath", "bytes"),
                 As(blob[2], "nonce", "text"))

-----------------------------------------------------------------------------
(* jwt                                                                     *)

ActxToJson(actx) ==
    Map(<< <<"type", Text(actx.ctx_type)>>,
           <<"action", Text(ActionWireName(actx.action))>>,
           <<"tns", Text(CanonicalTns(actx.tns))>> >>
        \o (IF actx.tn = <<>> THEN <<>> ELSE << <<"tn", Text(CanonicalElement(actx.tn))>> >>)
        \o Optional("resource", "text", actx.resource))

ActxFromJson(v) ==
    IF v[1] # "map" THEN Refused
    ELSE IF \/ \E key \in {"type", "action", "tns"} : As(v[2], key, "text") = Absent
            \/ ~AbsentOr(v[2], "tn", "text")
         THEN Refused
    ELSE Actx(As(v[2], "type", "text"), ActionFromWireName(As(v[2], "action", "text")),
              IF As(v[2], "tns", "text") = <<>> THEN <<>>
              ELSE TnsFromCanonical(As(v[2], "tns", "text")),
              ElementFromCanonical(OrEmpty(As(v[2], "tn", "text"))),
              As(v[2], "resource", "text"))

JwtEncodeHeader(h) ==
    Unless(CoseToJose(h.alg) = Refused,
           Map(<< <<"alg", Text(CoseToJose(h.alg))>>, <<"typ", Text(h.typ)>>,
                  <<"jwk", JwkToJson(h.jwk)>> >>))

\* reject_duplicate_top_level_keys comes first; only this level is looked at.
JwtDecodeHeader(blob) ==
    IF blob[1] # "map" THEN Refused
    ELSE IF \/ ~HasUniqueKeys(blob[2])
            \/ As(blob[2], "alg", "text") = Absent
            \/ Get(blob[2], "jwk") = Absent
         THEN Refused
    ELSE Header(JoseToCose(As(blob[2], "alg", "text")), As(blob[2], "typ", "text"),
                JwkFromJson(Get(blob[2], "jwk")))

JwtEncodePayload(p) ==
    Unless(p.cti # Absent /\ ~IsUtf8(p.cti),
           Map(<< <<"iat", Integer(p.iat)>> >> \o Optional("jti", "text", p.cti)
               \o << <<"actx", ActxToJson(p.actx)>> >>
               \o Optional("nonce", "text", p.nonce)
               \o Optional("ath", "text",
                           IF p.ath = Absent THEN Absent ELSE EncodeBase64(p.ath))))

\* A nonce that is no string is passed over; a jti or ath that is none is not.
JwtDecodePayload(blob) ==
    IF blob[1] # "map" THEN Refused
    ELSE IF \/ ~HasUniqueKeys(blob[2])
            \/ ~AbsentOr(blob[2], "jti", "text")
            \/ ~AbsentOr(blob[2], "ath", "text")
            \/ Get(blob[2], "actx") = Absent
         THEN Refused
    ELSE Payload(As(blob[2], "jti", "text"), As(blob[2], "iat", "int"),
                 ActxFromJson(Get(blob[2], "actx")),
                 IF Get(blob[2], "ath") = Absent THEN Absent
                 ELSE DecodeBase64(As(blob[2], "ath", "text")),
                 As(blob[2], "nonce", "text"))

-----------------------------------------------------------------------------
(* Both.                                                                   *)

EncodeHeaderAndPayload(format, header, payload) ==
    Collect(IF format = "Cwt" THEN <<CwtEncodeHeader(header), CwtEncodePayload(payload)>>
            ELSE <<JwtEncodeHeader(header), JwtEncodePayload(payload)>>)

\* The bytes a proof stands for: those received or signed, else a fresh
\* encoding.
Covered(proof) ==
    IF proof.signed_bytes # <<>> THEN proof.signed_bytes
    ELSE EncodeHeaderAndPayload(proof.wire_format, proof.header, proof.payload)

\* Mutant: the payload is left out of what is signed.
SignatureInputHeaderOnly(format, alg, signed) == <<format, alg, signed[1]>>

\* create_signing_input and jws_signing_input.
SignatureInput(format, alg, signed) ==
    IF format = "Jwt" THEN <<"jws", signed[1], signed[2]>>
    ELSE <<IF alg = 5 THEN "MAC0" ELSE "Signature1", signed[1], signed[2]>>

\* DpopProof::encode.
Encode(proof) ==
    LET signed == Covered(proof)
    IN  Unless(signed = Refused,
               [frame |-> IF proof.wire_format = "Cwt" THEN "sign1" ELSE "compact",
                signed |-> signed, signature |-> proof.signature])

WireSize(w) ==
    LET actx == As(w.signed[2][2], "actx", "map")
    IN  IF actx = Absent THEN 0 ELSE Len(OrEmpty(As(actx, "tn", "text")))

Decoded(w, format, header, payload) ==
    Unless(header = Refused \/ payload = Refused,
           [header |-> header, payload |-> payload, signature |-> w.signature,
            signed_bytes |-> w.signed, wire_format |-> format])

LooksLikeJwt(w) == w.frame = "compact"

\* DpopProof::decode.
Decode(w) ==
    IF WireSize(w) > MAX_DPOP_WIRE_SIZE THEN Refused
    ELSE IF LooksLikeJwt(w)
    THEN Decoded(w, "Jwt", JwtDecodeHeader(w.signed[1]), JwtDecodePayload(w.signed[2]))
    ELSE IF w.frame = "sign1"
    THEN Decoded(w, "Cwt", CwtDecodeHeader(w.signed[1]), CwtDecodePayload(w.signed[2]))
    ELSE Refused

\* verify_with_embedded_key.
VerifyWithEmbeddedKey(proof) ==
    LET signed == Covered(proof)
    IN  /\ signed # Refused
        /\ Verifies(proof.header.alg, proof.header.jwk)
        /\ proof.signature # Absent
        /\ proof.signature = [by |-> Thumbprint(proof.header.jwk),
                              over |-> SignatureInput(proof.wire_format,
                                                      proof.header.alg, signed)]

-----------------------------------------------------------------------------
(* The resource URI.                                                       *)

\* Mutant: the segments are joined by nothing.
ResourceQueryJoined(ns, track) ==
    <<"?", "tns", "=">> \o FlattenSeq([i \in DOMAIN ns |-> EncodeBase64(ns[i])])
    \o (IF track = Absent THEN <<>> ELSE <<"&", "tn", "=">> \o EncodeBase64(track))

ResourceQuery(ns, track) ==
    <<"?", "tns", "=">> \o JoinWith([i \in DOMAIN ns |-> EncodeBase64(ns[i])], ",")
    \o (IF track = Absent THEN <<>> ELSE <<"&", "tn", "=">> \o EncodeBase64(track))

\* construct_moqt_uri.
ConstructMoqtUri(endpoint, ns, track) ==
    Unless(\/ \E i \in DOMAIN endpoint : endpoint[i] \in {"?", "#", "/"}
           \/ ns = <<>>
           \/ ns = Absent /\ track # Absent,
           <<"moqt://">> \o endpoint
           \o IF ns = Absent THEN <<>> ELSE ResourceQuery(ns, track))

\* parse_moqt_resource_uri: `pairs` are the query's "&"-separated parts, each
\* split at its first "=".
QueryValue(pairs, key) ==
    LET at == {i \in DOMAIN pairs : pairs[i][1] = <<key>>}
    IN  IF at = {} THEN Absent ELSE pairs[Max(at)][2]
QueryIsStrict(pairs) ==
    /\ \A i \in DOMAIN pairs : Len(pairs[i]) = 2 /\ pairs[i][1] \in {<<"tns">>, <<"tn">>}
    /\ HasUniqueKeys(pairs)
    /\ QueryValue(pairs, "tns") \notin {Absent, <<>>}
Parsed(endpoint, ns, track) ==
    Unless(endpoint = <<>> \/ ns = Refused \/ track = Refused,
           [endpoint |-> endpoint, namespace |-> ns, track |-> track])
ParsedQuery(endpoint, pairs) ==
    IF ~QueryIsStrict(pairs) THEN Refused
    ELSE Parsed(endpoint,
                LET segments == SplitOn(QueryValue(pairs, "tns"), ",")
                IN  Collect([i \in DOMAIN segments |-> DecodeBase64(segments[i])]),
                IF QueryValue(pairs, "tn") = Absent THEN Absent
                ELSE DecodeBase64(QueryValue(pairs, "tn")))
ParseMoqtResourceUri(uri) ==
    IF uri = <<>> \/ Head(uri) # "moqt://" \/ \E i \in DOMAIN uri : uri[i] \in {"#", "/"}
    THEN Refused
    ELSE LET halves == SplitOnce(Tail(uri), "?")
         IN  IF Len(halves) = 1 THEN Parsed(halves[1], Absent, Absent)
             ELSE ParsedQuery(halves[1],
                      LET pairs == SplitOn(halves[2], "&")
                      IN  [i \in DOMAIN pairs |-> SplitOnce(pairs[i], "=")])
=============================================================================
