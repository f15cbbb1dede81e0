--------------------------- MODULE MCRelayAuthorize ---------------------------
(***************************************************************************)
(* Tokens, requests and proofs for the runs of RelayAuthorize. Each run    *)
(* takes one of the sets of calls at the end.                              *)
(***************************************************************************)
EXTENDS RelayAuthorize

Match(type, pattern) == [type |-> type, pattern |-> pattern]
Scope(ns, track) ==
    [actions |-> {"Subscribe", "ClientSetup", "ServerSetup"}, namespace_matches |-> ns, track_match |-> track]

\* A token that asks for nothing but its scope, <<"a", ...>> in the first element.
Plain ==
    [catalpn |-> Absent, catu |-> Absent, catm |-> Absent, cath |-> Absent, catnip |-> Absent,
     catgeoiso3166 |-> Absent, catgeocoord |-> Absent, geohash |-> Absent, reval |-> Absent,
     catv |-> 1, aud |-> {"relay"}, cnf |-> Absent, cattpk |-> Absent, catpor |-> Absent,
     catreplay |-> Absent, cti |-> Absent, iss |-> "iss", hash |-> "h1",
     scopes |-> <<Scope(<<Match("Prefix", <<"a">>)>>, Absent)>>]

Bound == [Plain EXCEPT !.cnf = "holder"]
Replayable(mode, cti) == [Bound EXCEPT !.catreplay = mode, !.cti = cti, !.hash = cti]
Por(id, probability, exp) ==
    [Plain EXCEPT !.catpor = [id |-> id, probability |-> probability, exp |-> exp]]

Proof(cti, ath) ==
    [typ |-> "dpop", alg |-> ALG_ES256, ctx |-> "moqt", action |-> "Subscribe",
     tns |-> << <<"a">> >>, tn |-> <<"t">>, iat |-> StartTime, cti |-> cti, ath |-> ath,
     key |-> "holder", sigKey |-> "holder", nonce |-> Absent, resource |-> Absent]

Request(proof) ==
    [alpn |-> Absent, uri |-> Absent, method |-> Absent, headers |-> <<>>, ip |-> Absent,
     asn |-> Absent, location |-> Absent, endpoint |-> "relay", action |-> "Subscribe", namespace |-> << <<"a">> >>,
     track |-> <<"t">>, proof |-> proof, nonce |-> Absent]

Call(path, tok, ctx, guard, list) ==
    [path |-> path, tok |-> tok, ctx |-> ctx, guarded |-> guard # Absent, guard |-> guard,
     list |-> list]

BaseCfg ==
    [supports_revalidation |-> TRUE, min_reval |-> 3, require_audience_binding |-> TRUE,
     require_dpop |-> FALSE, require_cattpk |-> FALSE, expected_resource |-> Absent,
     window |-> 2, honor_jti |-> TRUE, require_dpop_replay_tracking |-> FALSE]
TrackingCfg == [BaseCfg EXCEPT !.honor_jti = FALSE, !.require_dpop_replay_tracking = TRUE]

NoCalls == {}
NoIds == {}
MCAddressBits == (4 :> 3) @@ (6 :> 4)
NoShards == [id \in {} |-> 0]
OneStore == [p \in {"sync"} \cup AsyncPaths |-> "jti"]
TwoStores == [p \in {"sync"} \cup AsyncPaths |-> IF p = "sync" THEN "jti" ELSE "async_jti"]

-----------------------------------------------------------------------------
\* Two proofs for each of two tokens that demand replay protection, through
\* every entry point, one of them with a guard that is only best-effort, and
\* one that promises a guard to the first half and brings none to the second.
With(path, mode, cti, proofCti, guard) ==
    Call(path, Replayable(mode, cti), Request(Proof(proofCti, cti)), guard, Absent)

CommitCalls ==
    {With("sync", "Prohibited", "c1", "p1", "strict"),
     With("async", "Prohibited", "c1", "p1", "strict"),
     With("async", "Prohibited", "c1", "p2", "best_effort"),
     With("offloaded", "Prohibited", "c1", "p2", "strict"),
     With("async", "ReuseDetection", "c1", "p3", "strict"),
     [With("split", "Prohibited", "c1", "p4", Absent) EXCEPT !.guarded = TRUE]}

-----------------------------------------------------------------------------
\* URIs: hosts in both cases with and without ports, paths of up to three
\* segments with dots, escapes and empty segments, queries with a "/".
MV(type, value) == [type |-> type, value |-> value]
Rule(component, mv) == [component |-> component, matches |-> <<mv>>]
Hosts == {<<"H">>, <<"h", ":", "443">>, <<"[", "H", "%25", "A", "]", ":", "8443">>}
Segment == {<<>>, <<"a">>, Dot, DotDot, <<"a", ".", "A">>, <<"%2e", "%2e">>, <<"%2f">>}
Paths ==
    {<<>>} \cup {<<Slash>> \o s : s \in Segment}
    \cup {<<Slash>> \o s \o <<Slash>> \o t : s, t \in Segment}
    \cup {<<Slash, "a", Slash>> \o s \o <<Slash>> \o t : s, t \in Segment}
Absolute(scheme, host, path, query) == scheme \o <<":", "/", "/">> \o host \o path \o query
Uris ==
    {Absolute(s, h, p, <<>>) : s \in {<<"HTTPS">>, <<"moqt">>}, h \in Hosts, p \in Paths}
    \cup {Absolute(<<"HTTPS">>, <<"h">>, p, <<"?">> \o q) :
             p \in {<<>>, <<Slash, "a">>}, q \in {<<>>, <<"a">>, <<"a", "h", Slash, "a">>}}
    \cup {Absolute(<<"HTTPS">>, <<"h", "@", "h">>, <<>>, <<>>), Absolute(<<"HTTPS">>, <<"h">>, <<Slash, "#">>, <<>>),
          Absolute(<<"HTTPS">>, <<"h">>, <<Slash, "e-acute">>, <<>>)}

UriRules ==
    {<<Rule("scheme", MV("Exact", <<"https">>)), Rule("host", MV("Suffix", <<"h">>))>>,
     <<Rule("path", MV("Prefix", <<Slash, "a", Slash>>))>>,
     <<Rule("path", MV("Regex", <<Slash, "a">>)), Rule("extension", MV("Exact", <<>>))>>,
     <<Rule("parent_path", MV("Exact", <<Slash>>))>>,
     <<Rule("stem", MV("Contains", <<"a">>)), Rule("port", MV("Exact", <<>>))>>,
     <<Rule("query", MV("Sha256", Digest("Sha256", <<"a">>)))>>,
     <<Rule("filename", MV("Sha512_256", Digest("Sha256", <<>>)))>>,
     <<[component |-> "host", matches |-> <<MV("Regex", <<"*">>), MV("Prefix", <<"[">>)>>]>>}

UriPairs ==
    {<<[Plain EXCEPT !.catu = r], [Request(Absent) EXCEPT !.uri = u]>> :
         r \in UriRules, u \in Uris \cup {Absent}}

\* A host rule, and a request whose query contains a "/".
HostRule == <<Rule("host", MV("Suffix", <<"a", "h">>))>>
UriCalls ==
    {Call("sync", [Plain EXCEPT !.catu = HostRule],
          [Request(Absent) EXCEPT !.uri = Absolute(<<"HTTPS">>, h, <<>>, q)], Absent, Absent) :
         h \in {<<"h">>, <<"a", "h">>}, q \in {<<>>, <<"?", "a", "h", Slash, "a">>}}

-----------------------------------------------------------------------------
\* The other restrictions, against requests that lack, miss and meet them.
HeaderRules == <<[name |-> <<"X-Id">>, matches |-> <<MV("Exact", <<"a", " ", "b">>), MV("Prefix", <<"A">>)>>]>>
Header(name, value) == <<<<name>>, value>>
HeaderSets ==
    {<<>>} \cup {<<Header(n, v)>> : n \in {"x-id", "Y-Id"}, v \in
        {<<"a", " ", "b">>, <<"a", "CRLF", " ", "\t", "b">>, <<"a", "CRLF", "b">>, <<"A", "b">>,
         <<"A", "CRLF", " ", "CRLF", " ">>, <<"CRLF", " ", "A">>}}
    \cup {<<Header("X-Id", <<"b">>), Header("x-id", <<"A">>)>>}

Claims(tok, ctxs) == {<<tok, c>> : c \in ctxs}
SimplePairs ==
    Claims([Plain EXCEPT !.catalpn = {"moq"}], {[Request(Absent) EXCEPT !.alpn = a] : a \in {Absent, "moq", "h3"}})
    \cup Claims([Plain EXCEPT !.catm = {"GET"}], {[Request(Absent) EXCEPT !.method = m] : m \in {Absent, "GET", "get"}})
    \cup Claims([Plain EXCEPT !.cath = HeaderRules], {[Request(Absent) EXCEPT !.headers = h] : h \in HeaderSets})

V4(bits) == [family |-> 4, bits |-> bits]
V6(bits) == [family |-> 6, bits |-> bits]
IpRules == {[kind |-> "IpPrefix", ip |-> i, len |-> n] : i \in {V4(5), V6(5)}, n \in 0 .. 4}
              \cup {[kind |-> "IpAddress", ip |-> V4(5)]}
AsnRules == {[kind |-> "Asn", asn |-> 7], [kind |-> "AsnRange", start |-> 3, end |-> 5],
             [kind |-> "AsnRange", start |-> 5, end |-> 3]}
Ips == {V4(b) : b \in {0, 1, 4, 5, 7}} \cup {V6(b) : b \in {5, 13, 4, 7}} \cup {Absent}
NetworkPairs ==
    {<<[Plain EXCEPT !.catnip = n], [Request(Absent) EXCEPT !.ip = i, !.asn = a]>> :
         n \in {{}} \cup {{r} : r \in IpRules \cup AsnRules}
                    \cup {{[kind |-> "IpAddress", ip |-> V4(5)], r} : r \in AsnRules},
         i \in Ips, a \in {Absent, 2, 3, 5, 6, 7}}

Place(country, subdivision, lat, lon, hash) ==
    [country |-> country, subdivision |-> subdivision, lat |-> lat, lon |-> lon, geohash |-> hash]
Places ==
    {Absent} \cup {Place(c, s, lat, lon, h) :
        c \in {Absent, <<"us">>, <<"ca">>}, s \in {Absent, <<"CA">>}, lat \in {Absent, 0, 2}, lon \in {Absent, 0, 7},
        h \in {Absent, <<"9">>, <<"9", "q">>, <<"9", "r", "q">>}}
GeoTokens ==
    {[Plain EXCEPT !.catgeoiso3166 = {<<"US">>}], [Plain EXCEPT !.catgeoiso3166 = {<<"US", "-", "CA">>}],
     [Plain EXCEPT !.catgeocoord = {[lat |-> 0, lon |-> 1, radius |-> 2]}],
     [Plain EXCEPT !.geohash = {<<"9", "q">>, <<"9", "r">>}],
     [Plain EXCEPT !.geohash = {}, !.catgeocoord = {[lat |-> 2, lon |-> 0, radius |-> 0]},
                   !.catgeoiso3166 = {<<"CA">>, <<"US", "-", "CA">>}]}
GeoPairs == {<<t, [Request(Absent) EXCEPT !.location = p]>> : t \in GeoTokens, p \in Places}

BindingPairs ==
    {<<t, Request(Absent)>> : t \in
        {[Plain EXCEPT !.reval = 0], [Plain EXCEPT !.reval = 1], [Plain EXCEPT !.reval = 5],
         [Plain EXCEPT !.catv = 2], [Plain EXCEPT !.aud = Absent],
         [Plain EXCEPT !.aud = {"elsewhere"}], [Plain EXCEPT !.catreplay = "Prohibited"],
         [Plain EXCEPT !.scopes = Absent], [Plain EXCEPT !.scopes = <<>>]}}

Patterns == {<<>>, <<"a">>, <<"a", "b">>}
ScopePairs ==
    {<<[Plain EXCEPT !.scopes = <<Scope(<<m>>, Absent)>>],
       [Request(Absent) EXCEPT !.namespace = ns]>> :
         m \in {Match(ty, p) : ty \in {"Exact", "Prefix", "Suffix", "Any"}, p \in Patterns},
         ns \in {<<>>, << <<>> >>, << <<"a", "b">> >>, << <<"b", "a">>, <<"b">> >>}}
    \cup
    {<<[Plain EXCEPT !.scopes = <<Scope(<<Match("Any", <<>>), Nil>>, Match("Exact", <<"t">>))>>],
       [Request(Absent) EXCEPT !.namespace = ns, !.track = tr]>> :
         ns \in {<<>>, << <<"b">> >>, << <<"b">>, <<"a">> >>}, tr \in {<<"t">>, <<"u">>}}

\* A bound token, and the ways in which a proof can fail to be for it.
Good == Proof("p1", "h1")
ResourceUri(endpoint, ns, track) == [endpoint |-> endpoint, ns |-> ns, track |-> track]
GoodUri == ResourceUri("relay", << <<"a">> >>, <<"t">>)
Setup == [Good EXCEPT !.action = "ClientSetup", !.tns = <<>>, !.tn = <<>>]

BadProofs ==
    {[Good EXCEPT !.typ = "other"], [Good EXCEPT !.alg = -8], [Good EXCEPT !.ctx = "other"],
     [Good EXCEPT !.iat = StartTime + 6], [Good EXCEPT !.cti = Absent],
     [Good EXCEPT !.ath = "h2"], [Good EXCEPT !.ath = Absent], [Good EXCEPT !.key = "other"],
     [Good EXCEPT !.sigKey = "other"], [Good EXCEPT !.action = "Publish"],
     [Good EXCEPT !.tn = <<>>], [Good EXCEPT !.tns = <<>>],
     [Good EXCEPT !.resource = ResourceUri(Absent, Absent, Absent)],
     [Good EXCEPT !.resource = ResourceUri("elsewhere", << <<"a">> >>, <<"t">>)],
     [Good EXCEPT !.resource = ResourceUri("relay", << <<"b">> >>, <<"t">>)],
     [Good EXCEPT !.resource = ResourceUri("relay", << <<"a">> >>, Absent)],
     [Good EXCEPT !.resource = ResourceUri("relay", Absent, <<"t">>)]}

ProofPairs ==
    {<<Bound, Request(p)>> : p \in BadProofs \cup {Absent, [Good EXCEPT !.resource = GoodUri]}}
    \cup {<<Bound, [Request(Good) EXCEPT !.nonce = "n"]>>,
          <<Bound, [Request([Good EXCEPT !.nonce = "n"]) EXCEPT !.nonce = "n"]>>,
          <<Bound, [Request(Setup) EXCEPT !.action = "ClientSetup"]>>,
          <<Bound, [Request([Setup EXCEPT !.action = ActionOverTheWire("ServerSetup")])
                        EXCEPT !.action = "ServerSetup"]>>,
          <<Bound, [Request([Setup EXCEPT !.tn = <<"t">>]) EXCEPT !.action = "ClientSetup"]>>}

\* One proof, presented with another token, namespace, track and action.
SameProofPairs ==
    {<<[Bound EXCEPT !.hash = h],
       [Request(Good) EXCEPT !.namespace = << <<n>> >>, !.track = <<t>>, !.action = a]>> :
         h \in {"h1", "h2"}, n \in {"a", "b"}, t \in {"t", "u"}, a \in {"Subscribe", "ClientSetup"}}

Anywhere == <<Scope(<<>>, Absent)>>
SyncCalls(pairs) == {Call("sync", p[1], p[2], Absent, Absent) : p \in pairs}
SoloCalls ==
    SyncCalls(UriPairs \cup SimplePairs \cup NetworkPairs \cup GeoPairs \cup BindingPairs
                  \cup ScopePairs \cup ProofPairs)
PolicyCalls ==
    {Call(path, [p[1] EXCEPT !.scopes = Anywhere], p[2], Absent, Absent) :
         path \in {"sync", "async"}, p \in SameProofPairs}

-----------------------------------------------------------------------------
\* Tokens that are rejected by chance, on one list that all callers share.
\* Two of them have the same id.
MCPorIds == {"r1", "r2", "r3"}
MCPorShards == [id \in MCPorIds |-> IF id = "r3" THEN 1 ELSE 0]
PorCall(path, tok, list) == Call(path, tok, Request(Absent), "strict", list)

PorCalls ==
    {PorCall("sync", Por("r1", 1, StartTime + 1), "shared"),
     PorCall("async", Por("r1", 1, StartTime + 1), "shared"),
     PorCall("sync", Por("r2", 1, NoExpiry), "shared"),
     PorCall("async", Por("r3", 0, NoExpiry), "shared"),
     PorCall("async", Por("r3", 1, NoExpiry), Absent),
     PorCall("offloaded", Por("r2", 1, NoExpiry), "own")}

\* Both kinds together.
RelayCalls == CommitCalls \cup PorCalls
=============================================================================
