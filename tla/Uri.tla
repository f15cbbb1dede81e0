--------------------------------- MODULE Uri ---------------------------------
(***************************************************************************)
(* The request URI as catu sees it: normalize_uri and decompose_uri        *)
(* (src/src/uri.rs).                                                       *)
(*                                                                         *)
(* A text is a sequence of atoms. The characters with a meaning in a URI   *)
(* ("/", "?", ":", ".", "@", "[", "]", "#") are atoms of their own; a run  *)
(* of other characters may be one atom ("http", "443", "h"), and so is an  *)
(* escape ("%2e"). A "%" alone is one that no two hex digits follow.       *)
(***************************************************************************)
EXTENDS Checks, TextMatch

Slash == "/"
Dot == <<".">>
DotDot == <<".", ".">>
Digits == {"80", "443", "8443"}
NonAscii == {"e-acute"}

\* to_ascii_lowercase on the atoms that have capitals.
LowerCase == ("A" :> "a") @@ ("H" :> "h") @@ ("HTTPS" :> "https") @@ ("%2E" :> "%2e")
             @@ ("%2F" :> "%2f") @@ ("US" :> "us") @@ ("CA" :> "ca") @@ ("X-Id" :> "x-id") @@ ("Y-Id" :> "y-id")
Lower(text) == [i \in DOMAIN text |->
                   IF text[i] \in DOMAIN LowerCase THEN LowerCase[text[i]] ELSE text[i]]

\* The text before position k, and from position k on.
Before(text, k) == SubSeq(text, 1, k - 1)
From(text, k) == SubSeq(text, k, Len(text))

\* str::find and str::rfind for one atom: its position, or 0.
Position(text, a) == SelectInSeq(text, LAMBDA x : x = a)
LastPosition(text, a) == SelectLastInSeq(text, LAMBDA x : x = a)

\* str::find("://").
SchemeEnd(text) ==
    LET at == {i \in 1 .. Len(text) - 2 : SubSeq(text, i, i + 2) = <<":", "/", "/">>}
    IN  IF at = {} THEN 0 ELSE CHOOSE i \in at : \A j \in at : i <= j

\* The cuts both functions make first: scheme, authority, path and query. The
\* authority ends at the first "/", and at the first "?" only if there is none.
AuthorityEnd(rest) ==
    LET slash == Position(rest, Slash)
        q == Position(rest, "?")
    IN  CASE slash # 0 -> slash [] slash = 0 /\ q # 0 -> q [] OTHER -> Len(rest) + 1

CutPath(scheme, authority, pathAndQuery) ==
    LET q == Position(pathAndQuery, "?")
    IN  [scheme |-> scheme, authority |-> authority,
         path |-> IF q = 0 THEN pathAndQuery ELSE Before(pathAndQuery, q),
         query |-> IF q = 0 THEN Absent ELSE From(pathAndQuery, q + 1)]

CutRest(scheme, rest) ==
    LET end == AuthorityEnd(rest)
    IN  CutPath(scheme, Before(rest, end), From(rest, end))

Cut(uri) ==
    LET s == SchemeEnd(uri)
    IN  IF s = 0 THEN CutRest(Absent, uri) ELSE CutRest(Before(uri, s), From(uri, s + 3))

\* ensure_ascii, and what the profile refuses.
UriChecks(uri) == <<
    <<\A i \in DOMAIN uri : uri[i] \notin NonAscii, "InvalidClaimValue">>,
    <<Position(uri, "#") = 0, "InvalidClaimValue">>,
    <<Position(Cut(uri).authority, "@") = 0, "InvalidClaimValue">> >>

\* The end of an IPv6 literal, or 0.
Bracket(authority) == IF authority # <<>> /\ authority[1] = "[" THEN Position(authority, "]") ELSE 0

\* lowercase_host: the zone of an IPv6 literal keeps its case.
LowercaseHost(host) ==
    LET zone == Position(host, "%25")
    IN  IF host # <<>> /\ host[1] = "[" /\ Last(host) = "]" /\ zone # 0
        THEN Lower(Before(host, zone)) \o From(host, zone)
        ELSE Lower(host)

\* Mutant: a ".." is dropped without the segment before it.
RemoveDotSegmentsKeepsParent(path) ==
    LET joined == JoinWith(SelectSeq(SplitOn(path, Slash), LAMBDA s : s \notin {Dot, DotDot}), Slash)
    IN  IF joined = <<>> \/ joined[1] # Slash THEN <<Slash>> \o joined ELSE joined

\* remove_dot_segments: the leading "/" and a trailing one are put back.
RemoveDotSegments(path) ==
    LET segs == SplitOn(path, Slash)
        kept == FoldLeft(LAMBDA out, s :
                             CASE s = Dot -> out
                               [] s = DotDot -> IF out = <<>> THEN out ELSE Front(out)
                               [] OTHER -> Append(out, s), <<>>, segs)
        joined == JoinWith(kept, Slash)
        rooted == IF path # <<>> /\ path[1] = Slash /\ (joined = <<>> \/ joined[1] # Slash)
                  THEN <<Slash>> \o joined ELSE joined
        dots == Len(segs) > 1 /\ Last(segs) \in {Dot, DotDot}
    IN  IF dots /\ (rooted = <<>> \/ Last(rooted) # Slash) THEN Append(rooted, Slash) ELSE rooted

\* normalize_percent_encoding: an escape of an unreserved character is decoded,
\* another is written in capitals, and a lone "%" is escaped.
Escapes == ("%2e" :> ".") @@ ("%2E" :> ".") @@ ("%2f" :> "%2F") @@ ("%" :> "%25")
NormalizePercentEncoding(text) ==
    [i \in DOMAIN text |-> IF text[i] \in DOMAIN Escapes THEN Escapes[text[i]] ELSE text[i]]

DefaultPort(scheme) ==
    CASE scheme = <<"http">> -> <<"80">> [] scheme = <<"https">> -> <<"443">> [] OTHER -> <<>>

\* Host and port, the host in small letters and the port only if it is not the
\* default one. The host ends after an IPv6 literal or before the last colon;
\* any text after that colon counts as a port here.
NormalizeHostPort(scheme, host, afterHost) ==
    LowercaseHost(host)
    \o IF Len(afterHost) < 2 \/ afterHost[1] # ":" \/ Tail(afterHost) = DefaultPort(scheme)
       THEN <<>> ELSE afterHost

NormalizeAuthority(scheme, authority) ==
    LET b == Bracket(authority)
        colon == LastPosition(authority, ":")
        end == CASE b # 0 -> b [] b = 0 /\ colon # 0 -> colon - 1 [] OTHER -> Len(authority)
    IN  NormalizeHostPort(scheme, SubSeq(authority, 1, end), From(authority, end + 1))

\* normalize_uri, for a URI that passes UriChecks.
NormalizeCut(cut) ==
    LET scheme == IF cut.scheme = Absent THEN <<>> ELSE Lower(cut.scheme)
        path == IF cut.path = <<>> THEN <<Slash>> ELSE cut.path
    IN  (IF cut.scheme = Absent THEN <<>> ELSE scheme \o <<":", "/", "/">>)
        \o NormalizeAuthority(scheme, cut.authority)
        \o NormalizePercentEncoding(RemoveDotSegments(path))
        \o (IF cut.query = Absent THEN <<>> ELSE <<"?">> \o cut.query)

NormalizeUri(uri) == NormalizeCut(Cut(uri))

\* Where parse_uri looks for a port: after the literal, or at the last colon.
PortColon(authority, b) ==
    CASE b # 0 -> IF b < Len(authority) /\ authority[b + 1] = ":" THEN b + 1 ELSE 0
      [] b = 0 /\ authority # <<>> /\ authority[1] = "[" -> 0
      [] OTHER -> LastPosition(authority, ":")

\* A port has digits only, or is left with the host.
HostPort(authority, b, colon) ==
    LET isPort == /\ colon # 0 /\ colon < Len(authority)
                  /\ \A i \in colon + 1 .. Len(authority) : authority[i] \in Digits
    IN  [host |-> CASE b # 0 -> SubSeq(authority, 1, b)
                    [] b = 0 /\ isPort -> Before(authority, colon)
                    [] OTHER -> authority,
         port |-> IF isPort THEN From(authority, colon + 1) ELSE <<>>]

\* parse_uri.
ParseCut(cut) ==
    LET hp == HostPort(cut.authority, Bracket(cut.authority),
                       PortColon(cut.authority, Bracket(cut.authority)))
    IN  [scheme |-> IF cut.scheme = Absent THEN <<>> ELSE cut.scheme,
         host |-> hp.host, port |-> hp.port, path |-> cut.path,
         query |-> IF cut.query = Absent THEN <<>> ELSE cut.query]

ParseUri(uri) == ParseCut(Cut(uri))

\* decompose_uri: the checks are made before normalizing and again before parsing.
DecomposeError(uri) ==
    OrElse(FirstError(UriChecks(uri)), FirstError(UriChecks(NormalizeUri(uri))))
DecomposeUri(uri) == ParseUri(NormalizeUri(uri))

\* UriComponents::component.
Component(c, name) ==
    LET slash == LastPosition(c.path, Slash)
        filename == From(c.path, slash + 1)
        dot == LastPosition(filename, ".")
    IN  CASE name = "parent_path" -> SubSeq(c.path, 1, slash)
          [] name = "filename" -> filename
          [] name = "stem" -> IF dot = 0 THEN filename ELSE Before(filename, dot)
          [] name = "extension" -> IF dot = 0 THEN <<>> ELSE From(filename, dot + 1)
          [] name \in DOMAIN c -> c[name]
          [] OTHER -> <<>>
=============================================================================
