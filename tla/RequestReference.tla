-------------------------- MODULE RequestReference --------------------------
(***************************************************************************)
(* What the restrictions mean, written apart from how src/src/token.rs and *)
(* src/src/uri.rs compute it: URIs by the grammar and the equivalences of  *)
(* RFC 3986, prefixes bit by bit, header values without line breaks.       *)
(***************************************************************************)
EXTENDS RequestRestrictions

\* The first position of text whose atom is in S, or one past the end.
FirstOf(text, S) ==
    LET at == {i \in DOMAIN text : text[i] \in S}
    IN  IF at = {} THEN Len(text) + 1 ELSE CHOOSE i \in at : \A j \in at : i <= j

\* RFC 3986, section 5.2.4, on the segments after the root: a segment stays
\* if it is no dot segment and the ".." after it are never more than the
\* segments that lie between.
Survives(segs, i) ==
    LET Climbs(j) == Cardinality({k \in i + 1 .. j : segs[k] = DotDot})
        Names(j) == Cardinality({k \in i + 1 .. j : segs[k] \notin {Dot, DotDot}})
    IN  /\ segs[i] \notin {Dot, DotDot}
        /\ \A j \in i + 1 .. Len(segs) : Climbs(j) <= Names(j)

RfcPath(path) ==
    LET segs == Tail(SplitOn(path, Slash))
        kept == SelectSeq([i \in DOMAIN segs |-> <<i, segs[i]>>], LAMBDA s : Survives(segs, s[1]))
        open == kept # <<>> /\ Last(segs) \in {Dot, DotDot}
    IN  <<Slash>> \o JoinWith([i \in DOMAIN kept |-> kept[i][2]], Slash)
                  \o (IF open THEN <<Slash>> ELSE <<>>)

DefaultPorts == {<< <<"https">>, <<"443">> >>, << <<"http">>, <<"80">> >>}

\* A host in small letters, up to the zone of an IPv6 literal.
RfcHost(host) == [i \in DOMAIN host |-> IF i < FirstOf(host, {"%25"}) THEN Lower(host)[i] ELSE host[i]]

\* The components of a URI with a scheme: the authority ends at the first "/"
\* or "?" (section 3.2); escapes of unreserved characters are decoded before
\* dot segments are removed (section 6.2.2), a default port is none at all.
RfcComponents(uri) ==
    LET s == FirstOf(uri, {":"})
        rest == From(uri, s + 3)
        end == FirstOf(rest, {Slash, "?"})
        q == FirstOf(rest, {"?"})
        authority == Before(rest, end)
        bracket == Position(authority, "]")
        colon == bracket + FirstOf(From(authority, bracket + 1), {":"})
        port == From(authority, colon + 1)
        path == SubSeq(rest, end, q - 1)
    IN  [scheme |-> Lower(Before(uri, s)),
         host |-> RfcHost(Before(authority, colon)),
         port |-> IF <<Lower(Before(uri, s)), port>> \in DefaultPorts THEN <<>> ELSE port,
         path |-> RfcPath(NormalizePercentEncoding(IF path = <<>> THEN <<Slash>> ELSE path)),
         query |-> From(rest, q + 1)]

\* The URIs the code reads as the RFC does: no escaped dot in the path, no
\* empty segment beside dot segments, no "/" in a query that follows the host
\* at once, and nothing the profile refuses.
Ordinary(uri) ==
    LET rest == From(uri, FirstOf(uri, {":"}) + 3)
        path == SubSeq(rest, FirstOf(rest, {Slash, "?"}), FirstOf(rest, {"?"}) - 1)
        segs == SplitOn(path, Slash)
    IN  /\ \A i \in DOMAIN uri : uri[i] \notin {"@", "#"} \cup NonAscii
        /\ \A i \in DOMAIN path : path[i] \notin {"%2e", "%2E"}
        /\ path = <<>> => \A i \in DOMAIN rest : rest[i] # Slash
        /\ (\E i \in DOMAIN segs : segs[i] \in {Dot, DotDot})
              => \A i \in 2 .. Len(segs) - 1 : segs[i] # <<>>

\* A match value accepts a text.
Accepts(mv, text) ==
    LET v == mv.value
        n == Len(text)
    IN  CASE mv.type = "Exact" -> v = text
          [] mv.type = "Prefix" -> Len(v) <= n /\ SubSeq(text, 1, Len(v)) = v
          [] mv.type = "Suffix" -> Len(v) <= n /\ SubSeq(text, n - Len(v) + 1, n) = v
          [] mv.type \in {"Contains", "Regex"} ->
                /\ mv.type = "Regex" => n <= MaxRegexInputLen /\ Compiles(v)
                /\ \E i \in 0 .. n - Len(v) : SubSeq(text, i + 1, i + Len(v)) = v
          [] OTHER -> v.text = text /\ v.algorithm = mv.type

CatuHolds(rules, uri) ==
    LET c == RfcComponents(uri)
    IN  \A r \in DOMAIN rules : \E k \in DOMAIN rules[r].matches :
            Accepts(rules[r].matches[k], Component(c, rules[r].component))

\* The atom at i belongs to the white space that a line break folds.
Folded(value, i) ==
    /\ value[i] \in WhiteSpace
    /\ \E j \in 1 .. i - 1 : /\ value[j] = "CRLF"
                             /\ \A k \in j + 1 .. i : value[k] \in WhiteSpace

\* A line break and the white space after it count as one space.
OneLine(value) ==
    LET folds == [i \in DOMAIN value |->
                    CASE Folded(value, i) -> "dropped"
                      [] value[i] = "CRLF" /\ i < Len(value) /\ value[i + 1] \in WhiteSpace -> " "
                      [] OTHER -> value[i]]
    IN  SelectSeq(folds, LAMBDA a : a # "dropped")

\* Some header of that name, read on one line, is accepted.
CathHolds(rules, headers) ==
    \A r \in DOMAIN rules : \E h \in DOMAIN headers : \E k \in DOMAIN rules[r].matches :
        /\ Lower(headers[h][1]) = Lower(rules[r].name)
        /\ Accepts(rules[r].matches[k], OneLine(headers[h][2]))

\* The k-th bit of an address, from the left.
Bit(ip, k) == (ip.bits \div 2 ^ (AddressBits[ip.family] - k)) % 2

CatnipHolds(nips, ip, asn) ==
    \E n \in nips :
        \/ n.kind = "IpAddress" /\ ip = n.ip
        \/ n.kind = "IpPrefix" /\ ip # Absent /\ ip.family = n.ip.family
             /\ n.len <= AddressBits[ip.family] /\ \A k \in 1 .. n.len : Bit(ip, k) = Bit(n.ip, k)
        \/ n.kind = "Asn" /\ asn = n.asn
        \/ n.kind = "AsnRange" /\ asn # Absent /\ asn \in n.start .. n.end

\* The peer is where the token says, as far as the token says.
GeoHolds(tok, loc) ==
    /\ Restricts(tok.catgeoiso3166) => \E code \in tok.catgeoiso3166 :
          \/ Lower(code) = Lower(loc.country)
          \/ loc.subdivision # Absent
               /\ Lower(code) = Lower(loc.country \o <<"-">> \o loc.subdivision)
    /\ Restricts(tok.catgeocoord) => \E z \in tok.catgeocoord :
          HaversineMetres(loc.lat, loc.lon, z.lat, z.lon) <= z.radius
    /\ Restricts(tok.geohash) => \E t \in tok.geohash :
          Len(t) <= Len(loc.geohash) /\ SubSeq(loc.geohash, 1, Len(t)) = t

\* The request supplies what the token's restrictions are about.
Supplied(tok, ctx) ==
    /\ tok.catalpn # Absent => ctx.alpn # Absent
    /\ tok.catu # Absent => ctx.uri # Absent
    /\ tok.catm # Absent => ctx.method # Absent
    /\ tok.catnip # Absent => \A n \in tok.catnip :
          IF IsIpBased(n) THEN ctx.ip # Absent ELSE ctx.asn # Absent
    /\ Restricts(tok.catgeoiso3166) => ctx.location # Absent /\ ctx.location.country # Absent
    /\ Restricts(tok.catgeocoord) =>
          ctx.location # Absent /\ ctx.location.lat # Absent /\ ctx.location.lon # Absent
    /\ Restricts(tok.geohash) => ctx.location # Absent /\ ctx.location.geohash # Absent

\* The request meets every restriction the relay enforces.
Meets(tok, ctx) ==
    /\ Supplied(tok, ctx)
    /\ tok.catalpn # Absent => ctx.alpn \in tok.catalpn
    /\ tok.catu # Absent => CatuHolds(tok.catu, ctx.uri)
    /\ tok.catm # Absent => ctx.method \in tok.catm
    /\ tok.cath # Absent => CathHolds(tok.cath, ctx.headers)
    /\ tok.catnip # Absent /\ tok.catnip # {} => CatnipHolds(tok.catnip, ctx.ip, ctx.asn)
    /\ GeoHolds(tok, ctx.location)
=============================================================================
