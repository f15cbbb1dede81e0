------------------------- MODULE RequestRestrictions -------------------------
(***************************************************************************)
(* The claims that restrict where, how and from where a token may be used: *)
(* catalpn, catu, catm, cath, catnip and the geographic claims, as         *)
(* src/src/token.rs and authorize_precommit (src/src/moqt.rs) enforce      *)
(* them. Each operator is a list of checks in the order of the code.       *)
(*                                                                         *)
(* Texts are those of Uri. A match value is [type, value]; a hash is       *)
(* Digest(algorithm, preimage). An IP address is [family, bits]. A request *)
(* context `ctx` has alpn, uri, method, headers (a sequence of pairs), ip, *)
(* asn and location ([country, subdivision, lat, lon, geohash]); any of    *)
(* them but the headers may be Absent. `tok` has one field per claim.      *)
(***************************************************************************)
EXTENDS Uri

CONSTANTS
    MaxRegexInputLen,  \* MAX_REGEX_INPUT_LEN
    AddressBits        \* AddressBits[family]: 32 and 128 in the code

\* apply_match_value. The cache of compiled patterns is keyed by the pattern
\* and changes no answer.
ApplyMatchValue(mv, input) ==
    CASE mv.type = "Exact" -> input = mv.value
      [] mv.type = "Prefix" -> IsPrefix(mv.value, input)
      [] mv.type = "Suffix" -> IsSuffix(mv.value, input)
      [] mv.type = "Contains" -> Occurs(mv.value, input)
      [] mv.type = "Regex" -> /\ Len(input) <= MaxRegexInputLen
                              /\ Compiles(mv.value)
                              /\ RegexMatches(mv.value, input)
      [] mv.type \in {"Sha256", "Sha512_256"} -> Digest(mv.type, input) = mv.value

AnyMatches(matches, input) == \E k \in DOMAIN matches : ApplyMatchValue(matches[k], input)

\* Step 4 of authorize_precommit.
CatalpnChecks(tok, ctx) ==
    IF tok.catalpn = Absent THEN <<>>
    ELSE << <<ctx.alpn # Absent, "MissingRelayContext">>,
            <<ctx.alpn \in tok.catalpn, "InvalidClaimValue">> >>

\* Step 5 and enforce_catu: every rule, on the component it names.
CatuError(tok, ctx) ==
    IF tok.catu = Absent THEN "none"
    ELSE IF ctx.uri = Absent THEN "MissingRelayContext"
    ELSE OrElse(DecomposeError(ctx.uri),
                LET c == DecomposeUri(ctx.uri)
                IN  IF \A k \in DOMAIN tok.catu :
                           AnyMatches(tok.catu[k].matches, Component(c, tok.catu[k].component))
                    THEN "none" ELSE "InvalidClaimValue")

\* Step 6 and validate_method.
CatmChecks(tok, ctx) ==
    IF tok.catm = Absent THEN <<>>
    ELSE << <<ctx.method # Absent, "MissingRelayContext">>,
            <<ctx.method \in tok.catm, "InvalidClaimValue">> >>

WhiteSpace == {" ", "\t"}

\* unfold_header_value: a line break followed by white space becomes a space,
\* and the rest of that white space is skipped.
UnfoldHeaderValue(value) ==
    LET BreaksAt(i) == value[i] = "CRLF" /\ i < Len(value) /\ value[i + 1] \in WhiteSpace
        Copy(s, i) == CASE BreaksAt(i) -> [out |-> Append(s.out, " "), skipping |-> TRUE]
                        [] s.skipping /\ value[i] \in WhiteSpace -> s
                        [] OTHER -> [out |-> Append(s.out, value[i]), skipping |-> FALSE]
    IN  FoldLeftDomain(Copy, [out |-> <<>>, skipping |-> FALSE], value).out

\* Step 7 and validate_all_headers: the first header of that name, whatever
\* its capitals, must be there and match.
CathError(tok, ctx) ==
    IF tok.cath = Absent THEN "none"
    ELSE IF \A k \in DOMAIN tok.cath :
              LET h == SelectInSeq(ctx.headers, LAMBDA p : Lower(p[1]) = Lower(tok.cath[k].name))
              IN  h # 0 /\ AnyMatches(tok.cath[k].matches, UnfoldHeaderValue(ctx.headers[h][2]))
    THEN "none" ELSE "InvalidClaimValue"

-----------------------------------------------------------------------------
IsIpBased(nip) == nip.kind \in {"IpAddress", "IpPrefix"}
IsAsnBased(nip) == nip.kind \in {"Asn", "AsnRange"}

\* ip_in_prefix: the bits the mask keeps agree. No prefix crosses the families.
IpInPrefix(peer, prefix, len) ==
    LET width == AddressBits[peer.family]
        Kept(bits) == bits \div 2 ^ (width - len)
    IN  /\ peer.family = prefix.family
        /\ len = 0 \/ (len <= width /\ Kept(peer.bits) = Kept(prefix.bits))

MatchesIp(nip, ip) ==
    \/ nip.kind = "IpAddress" /\ nip.ip = ip
    \/ nip.kind = "IpPrefix" /\ IpInPrefix(ip, nip.ip, nip.len)

MatchesAsn(nip, asn) ==
    \/ nip.kind = "Asn" /\ asn = nip.asn
    \/ nip.kind = "AsnRange" /\ nip.start <= asn /\ asn <= nip.end

\* enforce_catnip: every family the claim names must be supplied, and one
\* identifier of any family must match. An empty claim restricts nothing.
CatnipChecks(tok, ctx) ==
    LET nips == IF tok.catnip = Absent THEN {} ELSE tok.catnip
    IN  << <<(\E n \in nips : IsIpBased(n)) => ctx.ip # Absent, "MissingRelayContext">>,
           <<(\E n \in nips : IsAsnBased(n)) => ctx.asn # Absent, "MissingRelayContext">>,
           <<nips # {} => \E n \in nips : \/ ctx.ip # Absent /\ MatchesIp(n, ctx.ip)
                                          \/ ctx.asn # Absent /\ MatchesAsn(n, ctx.asn),
             "InvalidClaimValue">> >>

-----------------------------------------------------------------------------
\* A geographic claim that is there and not empty.
Restricts(claim) == claim # Absent /\ claim # {}

\* A code is a country, or a country and a subdivision after the first "-".
Iso3166Matches(code, loc) ==
    LET dash == Position(code, "-")
    IN  IF dash = 0 THEN Lower(code) = Lower(loc.country)
        ELSE /\ Lower(Before(code, dash)) = Lower(loc.country)
             /\ loc.subdivision # Absent
             /\ Lower(From(code, dash + 1)) = Lower(loc.subdivision)

\* haversine_metres, on a globe eight degrees around: what matters is
\* that distance goes both ways across the antimeridian.
Degrees == 8
Apart(a, b) == IF a > b THEN a - b ELSE b - a
HaversineMetres(lat1, lon1, lat2, lon2) ==
    LET d == Apart(lon1, lon2)
    IN  Apart(lat1, lat2) + (IF d > Degrees - d THEN Degrees - d ELSE d)

\* The peer's geohash lies in one of the token's.
GeohashMatches(claim, hash) == \E t \in claim : IsPrefix(t, hash)

\* enforce_geo. Each of the three claims needs its own part of the location.
GeoChecks(tok, ctx) ==
    LET iso == Restricts(tok.catgeoiso3166)
        coord == Restricts(tok.catgeocoord)
        hash == Restricts(tok.geohash)
        loc == ctx.location
    IN  IF ~(iso \/ coord \/ hash) THEN <<>>
        ELSE IF loc = Absent THEN << <<FALSE, "MissingRelayContext">> >>
        ELSE << <<iso => loc.country # Absent, "MissingRelayContext">>,
                <<iso /\ loc.country # Absent =>
                      \E code \in tok.catgeoiso3166 : Iso3166Matches(code, loc),
                  "GeographicValidationFailed">>,
                <<coord => loc.lat # Absent /\ loc.lon # Absent, "MissingRelayContext">>,
                <<coord /\ loc.lat # Absent /\ loc.lon # Absent =>
                      \E z \in tok.catgeocoord :
                          HaversineMetres(z.lat, z.lon, loc.lat, loc.lon) <= z.radius,
                  "GeographicValidationFailed">>,
                <<hash => loc.geohash # Absent, "MissingRelayContext">>,
                <<hash /\ loc.geohash # Absent => GeohashMatches(tok.geohash, loc.geohash),
                  "GeographicValidationFailed">> >>

\* Steps 4 to 8b of authorize_precommit.
RestrictionError(tok, ctx) ==
    OrElse(FirstError(CatalpnChecks(tok, ctx)),
    OrElse(CatuError(tok, ctx),
    OrElse(FirstError(CatmChecks(tok, ctx)),
    OrElse(CathError(tok, ctx),
           FirstError(CatnipChecks(tok, ctx) \o GeoChecks(tok, ctx))))))
=============================================================================
