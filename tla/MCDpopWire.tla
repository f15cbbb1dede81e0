----------------------------- MODULE MCDpopWire -----------------------------
(***************************************************************************)
(* Instance for TLC. The contexts have every shape, an empty segment, the  *)
(* separators and a byte that is no text; two keys can be sent in both     *)
(* forms and two only in a JWT; the foreign proofs have what no encoder    *)
(* here writes.                                                            *)
(***************************************************************************)
EXTENDS DpopWire

CONSTANT MacKey

Ec(k, curve) == [kty |-> "EC", crv |-> curve, x |-> <<Base64[k]>>, y |-> <<Base64[k]>>,
                 n |-> Absent, e |-> Absent]
Rsa(k) == [kty |-> "RSA", crv |-> Absent, x |-> Absent, y |-> Absent,
           n |-> <<Base64[k]>>, e |-> <<Base64["a"]>>]

Context(action, tns, tn) == [action |-> action, tns |-> tns, tn |-> tn]
MCContexts == {
    Context("ClientSetup", <<>>, <<>>),
    Context("ServerSetup", <<>>, <<>>),
    Context("PublishNamespace", << <<>> >>, <<>>),
    Context("SubscribeNamespace", << <<"a", "-">>, <<>>, <<"ff">> >>, <<>>),
    Context("Subscribe", << <<"a">>, <<"a">> >>, <<".", "a">>),
    Context("Fetch", << <<"ff">> >>, <<"a", "a", "a", "a", "a">>)}

MCHolders == {
    [alg |-> ALG_ES256, jwk |-> Ec("k1", "P-256")],
    [alg |-> ALG_PS256, jwk |-> Rsa("k2")],
    [alg |-> 5, jwk |-> Ec("k1", "P-384")],
    [alg |-> ALG_ES256, jwk |-> [Ec("k1", "P-256") EXCEPT !.y = Absent]],
    [alg |-> ALG_ES256, jwk |-> [Ec("k1", "P-256") EXCEPT !.kty = "OKP"]]}
MCSigners == {
    [alg |-> ALG_ES256, by |-> Thumbprint(Ec("k1", "P-256"))],
    [alg |-> ALG_ES256, by |-> Thumbprint(Ec("k2", "P-256"))],
    [alg |-> ALG_PS256, by |-> Thumbprint(Rsa("k2"))],
    [alg |-> 5, by |-> MacKey]}

MCIds == {<<"a">>, <<"ff">>}
MCHashes == {<<"ff">>}
MCHashTexts == {<<"YQ">>, <<"a">>}
MCNonces == {<<"a">>, <<"-">>}
MCEndpoints == {<<>>, <<"r", "&", "=">>, <<"r", "?">>}

-----------------------------------------------------------------------------
\* Foreign proofs: one of each form, and what may be different about them.
CwtKey == << <<"1", Integer(2)>>, <<"-1", Integer(1)>>, <<"-2", ByteString(<<"k1">>)>>,
             <<"-3", ByteString(<<"k1">>)>> >>
CwtHeader(key) == << <<"typ", Text("dpop-proof+cwt")>>, <<"COSE_Key", Map(key)>>,
                     <<"alg", Integer(ALG_ES256)>>, <<"other", Integer(1)>> >>
CwtActx(tns) == << <<"tns", Text(tns)>>, <<"action", Text("SUBSCRIBE")>>,
                   <<"type", Text("moqt")>>, <<"tn", Text(<<".", "6", "1">>)>>,
                   <<"parameters", Map(<< <<"resource", Integer(1)>> >>)>> >>
CwtPayload(actx) == << <<"cti", ByteString(<<"ff">>)>>, <<"actx", Map(actx)>>,
                       <<"iat", Integer(Now)>> >>
JwtHeader == << <<"jwk", Map(<< <<"n", Text(<<"YQ">>)>>, <<"kty", Text("EC")>>,
                                <<"crv", Text("P-256")>>, <<"x", Text(<<"azE">>)>>,
                                <<"y", Text(<<"azE">>)>>, <<"e", <<"null">> >> >>)>>,
                <<"alg", Text("ES256")>>, <<"typ", Text("dpop-proof+jwt")>> >>
\* The same key without the names of its members.
JwtKeyArray == <<"array", <<Text("EC"), Text("P-256"), Text(<<"azE">>), Text(<<"azE">>),
                            <<"null">>, <<"null">> >> >>
JwtPayload == << <<"nonce", Integer(1)>>, <<"jti", Text(<<"a">>)>>, <<"iat", Integer(Now)>>,
                 <<"actx", Map(<< <<"type", Text("moqt")>>, <<"tns", Text(<<"a">>)>>,
                                  <<"action", Text("FETCH")>>, <<"tns", Text(<<>>)>> >>)>> >>

Wire(frame, header, payload) ==
    [frame |-> frame, signed |-> <<Map(header), Map(payload)>>, signature |-> Absent]
Cwt(header, payload) == Wire("sign1", header, payload)
Jwt(header, payload) == Wire("compact", header, payload)
PlainHeader == CwtHeader(CwtKey)
PlainPayload == CwtPayload(CwtActx(<<"a", "-", ".", "6", "1">>))

\* Repeated keys, at each place they may be.
Repeats == {
    Cwt(Append(PlainHeader, <<"alg", Integer(ALG_PS256)>>), PlainPayload),
    Cwt(CwtHeader(Append(CwtKey, <<"-2", ByteString(<<"k2">>)>>)), PlainPayload),
    Cwt(PlainHeader, Append(PlainPayload, <<"cti", ByteString(<<"a">>)>>)),
    Cwt(PlainHeader, CwtPayload(Append(CwtActx(<<"a">>), <<"tns", Text(<<>>)>>))),
    Jwt(Append(JwtHeader, <<"typ", Text("at+jwt")>>), JwtPayload),
    Jwt(JwtHeader, Append(JwtPayload, <<"jti", Text(<<"-">>)>>))}

\* Other deviations.
Deviations == {
    Cwt(Append(PlainHeader, <<"decoy", Integer(1)>>), PlainPayload),
    Cwt(PlainHeader, CwtPayload(CwtActx(<<".", "6">>))),
    Cwt(PlainHeader, CwtPayload(CwtActx(<<".", "6", "r">>))),
    Cwt(PlainHeader, CwtPayload(CwtActx(<<".", "f", "f", "a">>))),
    Cwt(PlainHeader, Tail(PlainPayload) \o << <<"cti", Text(<<"a">>)>> >>),
    Wire("other tag", PlainHeader, PlainPayload),
    Wire("three dots", JwtHeader, JwtPayload),
    [Cwt(PlainHeader, PlainPayload) EXCEPT !.signed[1] = <<"trailing", PlainHeader>>],
    Jwt(<< <<"jwk", JwtKeyArray>> >> \o Tail(JwtHeader), JwtPayload),
    Jwt(<< <<"jwk", <<"array", Front(JwtKeyArray[2])>> >> >> \o Tail(JwtHeader), JwtPayload),
    Jwt(JwtHeader, PlainPayload),
    Jwt(JwtHeader, Append(JwtPayload, <<"ath", Text(<<"!">>)>>))}

MCForeignWires ==
    {Cwt(PlainHeader, PlainPayload), Jwt(JwtHeader, JwtPayload)} \cup Repeats \cup Deviations
=============================================================================
