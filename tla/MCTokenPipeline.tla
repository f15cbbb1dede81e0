--------------------------- MODULE MCTokenPipeline ---------------------------
(***************************************************************************)
(* Tokens, decoders and validators for the runs of TokenPipeline. Issuers  *)
(* are "a" and "b", one byte each. The limits are scaled down together:    *)
(* two composites may be nested (the crate: 10) and a payload holds at     *)
(* most 10 claims and claim sets (10000).                                  *)
(***************************************************************************)
EXTENDS TokenPipeline

A == <<97>>
B == <<98>>
ES256 == -7
K1 == [id |-> "k1", alg |-> ES256]
K2 == [id |-> "k2", alg |-> ES256]
KH == [id |-> "kh", alg |-> 5]
MCKeys == {K1, K2, KH}
Kid == <<1>>
MCEntries == {<<A, Kid, ES256>>, <<B, Kid, ES256>>}
MCHmacAlg == 5

\* Claims.
C(l, v) == <<Integer(l), v>>
N(l, n) == C(l, Integer(n))
Iss(s) == C(ISS, Text(s))
Or(sets) == C(324, Array(sets))
Nor(sets) == C(325, Array(sets))
And(sets) == C(326, Array(sets))

\* Claim sets that hold up to time 1, from time 2 on, and for issuer b.
Early == Map(<<Iss(A), N(EXP, 1)>>)
Late == Map(<<Iss(A), N(NBF, 2)>>)
OfB == Map(<<Iss(B)>>)
Lone(c) == Map(<<c>>)
TokenOf(c) == Map(<<Iss(A), c>>)

\* Payloads an issuer may sign: plain ones,
PlainPayloads ==
    {Early, Late, OfB, Map(<<Iss(<<>>)>>),
     Map(<<Iss(A), N(EXP, I64Max)>>), Map(<<Iss(A), N(NBF, -I64Max - 1)>>),
     Map(<<Iss(A), C(AUD, Text(A)), N(CATV, 1)>>),
     Map(<<Iss(A), C(AUD, Array(<<Text(<<>>), Text(B)>>)), N(CATV, 2)>>),
     Map(<<Iss(A), C(SUB, Text(B))>>),
     Map(<<Iss(A), C(GEOHASH, Tag(279, Array(<<Integer(0), Text(<<57, 113, 56, 121>>)>>)))>>),
     Map(<<Iss(A), C(GEOHASH, Array(<<>>))>>),
     Map(<<Iss(A), C(CATGEOCOORD, Array(<<Array(<<Integer(-90), Integer(0), Integer(5)>>)>>))>>),
     Map(<<Iss(A), C(CNF, Map(<<C(323, Bytes(A))>>)), C(CATDPOP, Map(<<N(0, 2), N(1, 1)>>))>>),
     Map(<<Iss(A), N(400, 1), N(-1, 2)>>)}

\* ones with every other claim, in each of its shapes,
Rules(keys, matches) == Map([i \in DOMAIN keys |-> <<keys[i], Map(matches)>>])
M(n, s) == <<Integer(n), IF n >= 0 THEN Text(s) ELSE Bytes(s)>>
Arr(ns) == Array([i \in DOMAIN ns |-> Integer(ns[i])])
With(claims) == Map(<<Iss(A)>> \o claims)
ClaimPayloads ==
    {With(<<C(CNF, Map(<<C(3, Bytes(A)), C(CnfCkt, Bytes(B))>>)), N(CATREPLAY, 2),
            C(CATPOR, Array(<<Float(50), Bytes(A)>>)), C(CATM, Texts(<<A>>)),
            C(CATALPN, Array(<<Bytes(A)>>)), C(CATTPK, Bytes(A))>>),
     With(<<C(CATPOR, Array(<<Float(100), Bytes(A), Integer(I64Max)>>)),
            C(CATNIP, Array(<<Tag(52, Bytes(<<10, 0, 0, 1>>)), Tag(52, Map(<<C(12, Bytes(<<10, 16>>))>>)),
                              Tag(54, Map(<<C(0, Bytes(<<>>))>>)), Integer(7), Arr(<<1, 9>>)>>)),
            C(CATDPOP, Map(<<C(-1, Arr(<<5>>))>>))>>),
     With(<<C(EXP, Float(300)), C(CATU, Rules(<<Integer(0), Integer(3)>>, <<M(REGEX, A), M(-1, B), M(-2, B)>>)),
            C(MOQT_REVAL, Float(250))>>),
     With(<<C(CATU, Rules(<<Integer(1)>>, <<M(0, A), M(3, B)>>)),
            C(CATH, Rules(<<Text(B), Text(A)>>, <<M(1, A), M(REGEX, B)>>)), C(CATGEOISO3166, Texts(<<<<85, 83>>, <<85, 83, 45, 67, 65>>>>))>>),
     With(<<C(CATGEOCOORD, Array(<<Array(<<Float(4550), Integer(180), Float(300)>>)>>)),
            C(CATGEOALT, Array(<<Float(150), Integer(-2)>>)), C(CATIFDATA, Texts(<<A, B>>))>>),
     With(<<C(CATIF, Map(<<C(EXP, Array(<<Integer(401), Map(<<<<Text(A), Text(B)>>>>), Text(B)>>)),
                           C(MOQT, Array(<<Integer(599), Map(<<>>), Text(B)>>))>>)),
            C(CATR, Map(<<N(0, 1), N(1, 60), N(2, -5), C(3, Text(A))>>)), C(MOQT_REVAL, Integer(300))>>),
     With(<<C(CATR, Map(<<N(0, 3), C(1, Float(1050)), C(5, Texts(<<A>>)), N(7, 302), N(9, 1)>>)),
            C(MOQT, Array(<<Array(<<Arr(<<8>>), Array(<<>>), Bytes(A)>>)>>))>>),
     With(<<C(CATR, Map(<<N(1, 60)>>)),
            C(MOQT, Array(<<Array(<<Arr(<<4, 6>>), Array(<<Bytes(A), Array(<<Integer(1), Bytes(B)>>), Null>>),
                                    Array(<<Integer(2), Bytes(B)>>)>>), Array(<<Arr(<<0>>)>>)>>))>>),
     With(<<C(CATIF, Map(<<C(EXP, Arr(<<401>>)), C(-3, Arr(<<403>>))>>))>>), With(<<C(CATDPOP, Map(<<>>))>>),
     With(<<C(CATU, Rules(<<Integer(3)>>, <<M(REGEX, <<92, 92, 40, 63>>)>>))>>),
     With(<<C(CATGEOISO3166, Texts(<<<<85, 83, 45>>>>))>>), With(<<C(CATNIP, Array(<<Arr(<<0, 65537>>)>>))>>)}

\* each with one thing about it that is refused,
RefusedClaims ==
    {C(EXP, Float(150)), C(CATPOR, Array(<<Float(150), Bytes(A)>>)),
     C(CATNIP, Array(<<Tag(52, Map(<<C(12, Bytes(<<10, 17>>))>>))>>)),
     C(CATU, Rules(<<Integer(1), Integer(2), Integer(3)>>, <<>>)), C(CATH, Rules(<<Text(B)>>, <<M(5, A)>>)),
     C(CATGEOCOORD, Array(<<Array(<<Integer(1), Integer(1), Float(150)>>)>>)),
     C(CATIF, Map(<<C(EXP, Array(<<Integer(302), Map(<<<<Text(<<58>>), Text(B)>>>>)>>))>>)),
     C(CATR, Map(<<N(0, 1), N(1, 0)>>)), C(MOQT, Array(<<Array(<<Arr(<<8>>), Array(<<Null, Bytes(A)>>)>>)>>)),
     C(MOQT, Array(<<Array(<<Arr(<<8>>), Array(<<Array(<<Integer(1), Bytes(<<>>)>>)>>)>>)>>)), C(MOQT_REVAL, Odd)}

\* ones that carry no issuer,
NoIssuer == {Map(<<N(EXP, 3)>>), Map(<<N(EXP, 3), N(CATV, 1)>>)}

\* The walker sees no issuer behind a short label, and fails over a long one.
ASSUME LongLabelsLoseTheWalker ==
    {PeekIss(Encode(p)) : p \in NoIssuer} = {PeekNone, PeekErr}

\* ones that no issuer should produce,
OddPayloads ==
    {Map(<<Iss(A), Iss(B)>>), Map(<<N(EXP, 3), Iss(A)>>), Map(<<Iss(A), N(-2, 1), N(-1, 2)>>),
     Map(<<N(ISS, 7)>>), Map(<<C(ISS, Text(<<97, 97, 97, 97>>))>>), Array(<<>>),
     Map(<<Iss(A), C(CATV, Tag(6, Integer(1)))>>), Map(<<Iss(A), <<Text(B), Integer(0)>>>>),
     Map(<<Iss(A), N(400, 1), N(401, 1), N(402, 1)>>)}

\* and composites: of one level, nested, too deep for the validator at the top
\* and inside a nested token, too deep for the decoder, and over the budget.
OverPrivate == TokenOf(Nor(<<Map(<<Iss(A), C(SUB, Text(B))>>)>>))
OneLevel ==
    {TokenOf(Or(<<Early, Late>>)), TokenOf(Nor(<<Early, OfB>>)), TokenOf(And(<<Early, OfB>>)),
     TokenOf(Or(<<>>)), OverPrivate}
Nested ==
    {TokenOf(Nor(<<Lone(And(<<Early, Early>>))>>)),
     TokenOf(And(<<TokenOf(Nor(<<Late>>)), Lone(Or(<<OfB, Early>>))>>))}
Deep ==
    LET Four(leaf) == Nor(<<Lone(And(<<Lone(And(<<Lone(Or(<<leaf>>))>>))>>))>>)
    IN  {TokenOf(Four(Late)), TokenOf(Nor(<<TokenOf(Or(<<Lone(Or(<<Lone(Or(<<Map(<<>>)>>))>>))>>))>>)),
         TokenOf(Nor(<<Lone(Four(Late))>>))}
Wide == {TokenOf(Or(<<Early, Early, Late>>)),
         TokenOf(Or(<<TokenOf(Or(<<Early, Late>>)), Late>>))}

Header(alg, kid) == Map(<<N(1, alg), C(4, Bytes(kid))>>)
WireIn(bytes, payload, key) ==
    [tag |-> IF key.alg = MCHmacAlg THEN "mac0" ELSE "sign1", header |-> Header(key.alg, Kid),
     payload |-> payload, bytes |-> bytes, size |-> Len(bytes) + 8,
     signer |-> {key}, sealed |-> {}, shaped |-> TRUE]
\* As encode_token writes it,
Wire(payload, key) == WireIn(Encode(payload), payload, key)
\* and as another issuer may write it.
Written(bytes, key) == WireIn(bytes, ReadItem(bytes, 1).item, key)
Sealed(w) == [w EXCEPT !.sealed = {"e1"}]

\* Envelopes that differ from what was signed, or are not one.
OddWires ==
    LET w == Wire(Early, K1)
    IN  {[w EXCEPT !.signer = {}], [w EXCEPT !.shaped = FALSE], [w EXCEPT !.tag = "mac0"],
         [w EXCEPT !.sealed = {"e2"}], [w EXCEPT !.header = Map(<<C(4, Bytes(Kid))>>)],
         [w EXCEPT !.header = Map(<<N(1, ES256)>>)],
         [w EXCEPT !.header = Map(<<N(1, ES256), C(4, Text(<<2>>))>>)],
         [w EXCEPT !.header = Map(<<N(1, 5), C(4, Bytes(Kid))>>)]}

\* Payloads in forms that encode_token does not choose. First {1: "a"} with a
\* wide map head, iss under a wide label, a wide length, an indefinite map, text
\* in chunks; then with further claims under wide labels and in indefinite
\* arrays, maps and strings; then with a claim 0 before iss: under the short
\* label, with values the walker has to step over, and under wide labels, with a
\* value that reads as an iss "a" from its second byte on, or with none.
IssA == <<1, 97, 97>>
OtherForms ==
    {<<184, 1>> \o IssA, <<161, 24, 1, 97, 97>>, <<161, 26, 0, 0, 0, 1, 97, 97>>,
     <<161, 1, 120, 1, 97>>, <<191>> \o IssA \o <<255>>, <<161, 1, 127, 97, 97, 255>>,
     <<162>> \o IssA \o <<24, 4, 25, 0, 3>>, <<162>> \o IssA \o <<24, 3, 159, 97, 97, 255>>,
     <<162>> \o IssA \o <<25, 1, 68, 159, 191, 4, 1, 255, 255>>,
     <<162, 24, 1, 97, 97, 24, 7, 95, 65, 1, 255>>, <<161, 24, 4, 3>>,
     <<162, 0, 68, 0, 1, 97, 97, 1, 97, 98>>, <<162, 0, 191, 4, 159, 255, 255, 1, 97, 98>>,
     <<162, 24, 0, 68, 0, 1, 97, 97, 1, 97, 98>>, <<162, 25, 0, 0, 1, 1, 97, 98>>}

Private == {p \in PlainPayloads : \E i \in DOMAIN p.entries : p.entries[i][1].n \in PrivateLabels}

MCWires ==
    {Wire(p, K1) : p \in PlainPayloads \cup ClaimPayloads \cup {TokenOf(c) : c \in RefusedClaims}
                        \cup NoIssuer \cup OddPayloads \cup OneLevel \cup Nested \cup Deep \cup Wide}
    \cup {Wire(p, KH) : p \in {Early} \cup NoIssuer \cup Wide}
    \cup {Sealed(Wire(p, K1)) : p \in Private \cup {OverPrivate}} \cup {Wire(OfB, K2)}
    \cup OddWires \cup {Written(b, K1) : b \in OtherForms}

Limits == [items |-> 10, strings |-> 6, strlen |-> 3, custom |-> 2, nesting |-> 9,
           payload |-> 60, window |-> 3600, regexes |-> 2, patterns |-> 2, catnip |-> 5,
           scopes |-> 2, namespaces |-> 3]
Policy == [size |-> 30, algs |-> {{MCHmacAlg}}, kids |-> {{Kid}}]
BaseDecoder == [kind |-> "ring", key |-> {}, issuer |-> {}, kid |-> {}, admission |-> {},
                enc |-> {}, lim |-> Limits]
MCDecoders ==
    {BaseDecoder,
     [BaseDecoder EXCEPT !.kind = "algorithm", !.key = {KH}, !.admission = {Policy}],
     [BaseDecoder EXCEPT !.kind = "single", !.key = {K1}],
     [BaseDecoder EXCEPT !.kind = "single", !.key = {K1}, !.issuer = {A}, !.kid = {Kid},
                         !.enc = {"e1"}]}

BaseValidator == [issuers |-> {}, audiences |-> {}, exp_tol |-> 0, nbf_tol |-> 0,
                  plain_privacy |-> FALSE]
MCValidators ==
    {BaseValidator,
     [BaseValidator EXCEPT !.issuers = {{A, <<>>}}, !.exp_tol = 1, !.nbf_tol = 1],
     [BaseValidator EXCEPT !.audiences = {{A, <<>>}}, !.plain_privacy = TRUE]}
=============================================================================
