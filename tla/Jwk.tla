--------------------------------- MODULE Jwk ---------------------------------
(***************************************************************************)
(* The holder's public key (src/src/jwk.rs) and its two forms in a proof   *)
(* header: a COSE_Key and a JSON object (src/src/dpop.rs). A Jwk has kty,  *)
(* crv, x, y, n and e, the last four base64 texts.                         *)
(***************************************************************************)
EXTENDS WireValue, DpopProof

\* The RFC 7638 thumbprint: a digest of the members the key type requires.
Thumbprint(jwk) ==
    LET required == CASE jwk.kty = "EC" -> <<jwk.x, jwk.y>>
                      [] jwk.kty = "RSA" -> <<jwk.e, jwk.n>>
                      [] OTHER -> <<Absent>>
    IN  IF \/ \E i \in DOMAIN required : required[i] = Absent
           \/ \E i \in DOMAIN required : DecodeBase64(required[i]) = Refused
           \/ jwk.kty = "EC" /\ jwk.crv = Absent
        THEN Refused
        ELSE Digest("SHA-256", <<jwk.kty, IF jwk.kty = "EC" THEN jwk.crv ELSE Absent, required>>)

\* to_verifying_key, to_rsa_public_key: may this key verify under this alg.
Verifies(alg, jwk) ==
    /\ \/ alg = ALG_ES256 /\ jwk.kty = "EC" /\ jwk.crv = "P-256"
       \/ alg = ALG_PS256 /\ jwk.kty = "RSA"
    /\ Thumbprint(jwk) # Refused

OrEmpty(text) == IF text = Absent THEN <<>> ELSE text

CoseKey(members) ==
    IF \E i \in DOMAIN members : members[i][2][2] = Refused THEN Refused ELSE Map(members)
JwkToCoseKey(jwk) ==
    CASE jwk.kty = "EC" /\ jwk.crv = "P-256" ->
           CoseKey(<< <<"1", Integer(2)>>, <<"3", Integer(ALG_ES256)>>, <<"-1", Integer(1)>>,
                      <<"-2", ByteString(DecodeBase64(OrEmpty(jwk.x)))>>,
                      <<"-3", ByteString(DecodeBase64(OrEmpty(jwk.y)))>> >>)
      [] jwk.kty = "RSA" ->
           CoseKey(<< <<"1", Integer(3)>>, <<"3", Integer(ALG_PS256)>>,
                      <<"-1", ByteString(DecodeBase64(OrEmpty(jwk.n)))>>,
                      <<"-2", ByteString(DecodeBase64(OrEmpty(jwk.e)))>> >>)
      [] OTHER -> Refused

EcJwk(m) ==
    IF As(m, "-1", "int") = 1 /\ As(m, "-2", "bytes") # Absent /\ As(m, "-3", "bytes") # Absent
    THEN [kty |-> "EC", crv |-> "P-256", x |-> EncodeBase64(As(m, "-2", "bytes")),
          y |-> EncodeBase64(As(m, "-3", "bytes")), n |-> Absent, e |-> Absent]
    ELSE Refused
RsaJwk(m) ==
    IF As(m, "-1", "bytes") # Absent /\ As(m, "-2", "bytes") # Absent
    THEN [kty |-> "RSA", crv |-> Absent, x |-> Absent, y |-> Absent,
          n |-> EncodeBase64(As(m, "-1", "bytes")), e |-> EncodeBase64(As(m, "-2", "bytes"))]
    ELSE Refused
CoseKeyToJwk(v) ==
    IF v[1] # "map" THEN Refused
    ELSE IF ~IntKeyed(v[2]) THEN Refused
    ELSE CASE As(v[2], "1", "int") = 2 -> EcJwk(v[2])
           [] As(v[2], "1", "int") = 3 -> RsaJwk(v[2])
           [] OTHER -> Refused

\* serde's reading of a Jwk: a map, or an array of all its members in the order
\* of the struct. Those other than kty may be null, and in a map absent.
JwkFields == <<"kty", "crv", "x", "y", "n", "e">>
JwkMembers(v) ==
    CASE v[1] = "map" -> v[2]
      [] v[1] = "array" /\ Len(v[2]) = Len(JwkFields) ->
           [i \in DOMAIN JwkFields |-> <<JwkFields[i], v[2][i]>>]
      [] OTHER -> <<>>
JwkMember(m, key) == IF Get(m, key) = <<"null">> THEN Absent ELSE As(m, key, "text")
JwkFromJson(v) ==
    LET m == JwkMembers(v)
    IN  IF \/ As(m, "kty", "text") = Absent
           \/ \E key \in {"crv", "x", "y", "n", "e"} :
                 ~AbsentOr(m, key, "text") /\ Get(m, key) # <<"null">>
        THEN Refused
        ELSE [kty |-> As(m, "kty", "text"), crv |-> JwkMember(m, "crv"),
              x |-> JwkMember(m, "x"), y |-> JwkMember(m, "y"),
              n |-> JwkMember(m, "n"), e |-> JwkMember(m, "e")]
JwkToJson(jwk) ==
    Map(<< <<"kty", Text(jwk.kty)>> >>
        \o Optional("crv", "text", jwk.crv)
        \o Optional("x", "text", jwk.x) \o Optional("y", "text", jwk.y)
        \o Optional("n", "text", jwk.n) \o Optional("e", "text", jwk.e))
=============================================================================
