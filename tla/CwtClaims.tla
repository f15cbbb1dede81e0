------------------------------ MODULE CwtClaims ------------------------------
(***************************************************************************)
(* The claims of Cwt::decode_payload_with_limits (src/src/cwt.rs), one by  *)
(* one: what each label's CBOR item becomes, and what it counts.           *)
(*                                                                         *)
(* Errors are not told apart, so a counter may be compared with its limit  *)
(* after the last of several increments. Numbers the crate keeps as f64    *)
(* are in hundredths. Integers beyond i64 and u32 are left out, but for    *)
(* times. An optional member is a set of at most one value.                *)
(***************************************************************************)
EXTENDS Integers, Sequences, SequencesExt, FiniteSetsExt

CONSTANT I64Max  \* i64::MAX

ASSUME CwtConstants == I64Max \in Nat

-----------------------------------------------------------------------------
(* CBOR data items (RFC 8949) as ciborium gives them to this crate.        *)
(* Strings are sequences of bytes. A float is given in hundredths; Odd is  *)
(* a NaN, an infinity or a negative zero.                                  *)

Integer(n)    == [type |-> "int", n |-> n]
Text(s)       == [type |-> "text", str |-> s]
Bytes(s)      == [type |-> "bytes", str |-> s]
Array(items)  == [type |-> "array", items |-> items]
Map(entries)  == [type |-> "map", entries |-> entries]
Null          == [type |-> "null"]
Float(f)      == [type |-> "float", f |-> f]
Odd           == [type |-> "odd"]
Tag(t, v)     == [type |-> "tag", tag |-> t, inner |-> v]

\* The items directly inside an item.
Children(v) ==
    CASE v.type = "array" -> ToSet(v.items)
      [] v.type = "map"   -> UNION {{e[1], e[2]} : e \in ToSet(v.entries)}
      [] v.type = "tag"   -> {v.inner}
      [] OTHER            -> {}

-----------------------------------------------------------------------------
(* Claims and tokens.                                                      *)

ISS == 1
SUB == 2
AUD == 3
EXP == 4
NBF == 5
IAT == 6
CTI == 7
CNF == 8
GEOHASH == 282
CATREPLAY == 308
CATPOR == 309
CATV == 310
CATNIP == 311
CATU == 312
CATM == 313
CATALPN == 314
CATH == 315
CATGEOISO3166 == 316
CATGEOCOORD == 317
CATGEOALT == 318
CATTPK == 319
CATIFDATA == 320
CATDPOP == 321
CATIF == 322
CATR == 323
MOQT == 327
MOQT_REVAL == 328
OpOf == (324 :> "or") @@ (325 :> "nor") @@ (326 :> "and")
Composites == DOMAIN OpOf
Standard == (1..8) \cup {GEOHASH} \cup (308..328)

I64 == -I64Max - 1 .. I64Max

\* A token is a function from the labels it carries to their values.
Has(tok, l) == l \in DOMAIN tok

\* DecodeCounters, and their limits in CwtLimits.
NoCount == [items |-> 0, strings |-> 0, regexes |-> 0, patterns |-> 0]
Within(c, lim) == \A field \in DOMAIN c : c[field] <= lim[field]
CountItems(c, n) == [c EXCEPT !.items = @ + n]
CountString(c, s) == [c EXCEPT !.strings = @ + Len(s)]

-----------------------------------------------------------------------------
(* The value of one claim: refused, or decoded with the counters moved on. *)
(* `kept` is empty when the decoder leaves the claim at None.              *)
Refused == [ok |-> FALSE]
Decoded(value, c) == [ok |-> TRUE, kept |-> {value}, c |-> c]
Dropped(c) == [ok |-> TRUE, kept |-> {}, c |-> c]
The(option) == CHOOSE x \in option : TRUE

AllOf(type, v) == v.type = "array" /\ \A x \in ToSet(v.items) : x.type = type
Strings(v) == [i \in DOMAIN v.items |-> v.items[i].str]
Number(v, range) == v.type = "int" /\ v.n \in range

\* A number that is kept as f64, in hundredths: {} if this is none, or if
\* validate_float refuses it.
FloatOf(v) ==
    CASE v.type = "int"   -> {100 * v.n}
      [] v.type = "float" -> {v.f}
      [] OTHER            -> {}

\* A sequence of options: what they hold, if all of them hold something.
Each(options) ==
    IF \E i \in DOMAIN options : options[i] = {} THEN {}
    ELSE {[i \in DOMAIN options |-> The(options[i])]}

\* iss and sub.
DecodeText(v, c, lim) ==
    IF v.type = "text" /\ Len(v.str) <= lim.strlen THEN Decoded(v.str, CountString(c, v.str))
    ELSE Refused

\* aud: one audience, or an array of them.
DecodeAud(v, c, lim) ==
    LET one(s) == Len(s) <= lim.strlen
        all    == FlattenSeq(Strings(v))
    IN  IF v.type = "text" /\ one(v.str) THEN Decoded(<<v.str>>, CountString(c, v.str))
        ELSE IF AllOf("text", v) /\ \A x \in ToSet(v.items) : one(x.str)
        THEN Decoded(Strings(v), CountString(CountItems(c, Len(v.items)), all))
        ELSE Refused

\* catm and catalpn, of at most 50 strings, and catgeoiso3166.
DecodeList(type, v, c, sizes) ==
    IF AllOf(type, v) /\ Len(v.items) \in sizes
    THEN Decoded(Strings(v), CountItems(c, Len(v.items)))
    ELSE Refused

\* geohash and catifdata: text or an array of text; an empty array is dropped,
\* and only catifdata counts what the array holds.
DecodeTexts(v, c, counted) ==
    IF v.type = "text" THEN Decoded(<<v.str>>, c)
    ELSE IF ~AllOf("text", v) THEN Refused
    ELSE IF v.items = <<>> THEN Dropped(c)
    ELSE Decoded(Strings(v), CountItems(c, IF counted THEN Len(v.items) ELSE 0))

\* exp, nbf and iat: a float must be whole (safe_float_to_i64), and does not
\* reach either end of the range.
DecodeTime(v, c) ==
    IF Number(v, I64) THEN Decoded(v.n, c)
    ELSE IF v.type = "float" /\ v.f % 100 = 0 /\ v.f \div 100 \in -I64Max .. I64Max
    THEN Decoded(v.f \div 100, c)
    ELSE Refused

DecodeNumber(v, range, c) == IF Number(v, range) THEN Decoded(v.n, c) ELSE Refused

\* catgeocoord: zones of [lat, lon, radius]; no zones is no claim. The radius
\* is a whole number that may be written as a float (safe_float_to_u32).
ZoneOf(z) ==
    IF z.type = "array" /\ Len(z.items) = 3
    THEN {[lat |-> lat, lon |-> lon, radius |-> r \div 100] :
            lat \in FloatOf(z.items[1]) \cap (-9000 .. 9000),
            lon \in FloatOf(z.items[2]) \cap (-18000 .. 18000),
            r \in {r \in FloatOf(z.items[3]) : r >= 0 /\ r % 100 = 0}}
    ELSE {}

DecodeZones(v, c) ==
    IF v.type # "array" THEN Refused
    ELSE LET zones == Each([i \in DOMAIN v.items |-> ZoneOf(v.items[i])])
         IN  IF zones = {} THEN Refused
             ELSE IF v.items = <<>> THEN Dropped(c)
             ELSE Decoded(The(zones), CountItems(c, Len(v.items)))

\* catgeoalt: [altitude, deviation].
DecodeAltitude(v, c) ==
    IF v.type = "array" /\ Len(v.items) = 2 /\ \A x \in ToSet(v.items) : FloatOf(x) # {}
    THEN Decoded([i \in 1..2 |-> The(FloatOf(v.items[i]))], c)
    ELSE Refused

\* catpor: [probability, id] or [probability, id, expiration].
DecodeCatPor(v, c) ==
    IF /\ v.type = "array" /\ Len(v.items) \in 2..3
       /\ FloatOf(v.items[1]) \cap (0 .. 100) # {}
       /\ v.items[2].type = "bytes"
       /\ Len(v.items) = 3 => Number(v.items[3], I64)
    THEN Decoded([probability |-> The(FloatOf(v.items[1])), id |-> v.items[2].str,
                  expiration |-> IF Len(v.items) = 3 THEN {v.items[3].n} ELSE {}], c)
    ELSE Refused

-----------------------------------------------------------------------------
(* catnip: addresses, prefixes and autonomous systems.                     *)
OctetsOf == (52 :> 4) @@ (54 :> 16)  \* CBOR_TAG_IPV4, CBOR_TAG_IPV6
PrefixByteCount(len) == (len + 7) \div 8

\* validate_host_bits_zero.
HostBitsZero(bytes, len) == len % 8 # 0 => Last(bytes) % (2^(8 - (len % 8))) = 0

\* decode_network_identifier. A prefix carries only the bytes it covers, and
\* the rest of the address is filled with zeros. (u32 is wider than TLC's
\* integers, so no system number is out of its range here.)
PrefixOf(tag, e) ==
    IF /\ Number(e[1], 0 .. 8 * OctetsOf[tag])
       /\ e[2].type = "bytes" /\ Len(e[2].str) = PrefixByteCount(e[1].n)
       /\ HostBitsZero(e[2].str, e[1].n)
    THEN {[kind |-> "prefix", tag |-> tag, len |-> e[1].n,
           octets |-> [i \in 1 .. OctetsOf[tag] |->
                          IF i <= Len(e[2].str) THEN e[2].str[i] ELSE 0]]}
    ELSE {}

NetworkOf(x) ==
    CASE x.type = "tag" /\ x.tag \in DOMAIN OctetsOf ->
            IF x.inner.type = "bytes" /\ Len(x.inner.str) = OctetsOf[x.tag]
            THEN {[kind |-> "ip", tag |-> x.tag, octets |-> x.inner.str]}
            ELSE IF x.inner.type = "map" /\ Len(x.inner.entries) = 1
            THEN PrefixOf(x.tag, x.inner.entries[1])
            ELSE {}
      [] Number(x, Nat) -> {[kind |-> "asn", n |-> x.n]}
      [] x.type = "array" /\ Len(x.items) = 2 /\ \A y \in ToSet(x.items) : Number(y, Nat) ->
            {[kind |-> "range", first |-> x.items[1].n, last |-> x.items[2].n]}
      [] OTHER -> {}

DecodeCatnip(v, c, lim) ==
    IF v.type # "array" THEN Refused
    ELSE LET networks == Each([i \in DOMAIN v.items |-> NetworkOf(v.items[i])])
         IN  IF Len(v.items) > lim.catnip \/ networks = {} THEN Refused
             ELSE Decoded(The(networks), CountItems(c, Len(v.items)))

-----------------------------------------------------------------------------
(* catu and cath: a map from URI components or header names to matches.    *)
REGEX == 4
TypeOfMatch == [m \in 0..4 |-> "text"] @@ [m \in {-1, -2} |-> "bytes"]

\* decode_match_value.
MatchOf(e) ==
    IF Number(e[1], DOMAIN TypeOfMatch) /\ e[2].type = TypeOfMatch[e[1].n]
    THEN {[match |-> e[1].n, str |-> e[2].str]}
    ELSE {}

RuleOf(e, keyType) ==
    IF e[1].type = keyType /\ e[2].type = "map"
    THEN {[key |-> e[1], matches |-> ms] :
            ms \in Each([i \in DOMAIN e[2].entries |-> MatchOf(e[2].entries[i])])}
    ELSE {}

\* Every regular expression counts; of catu's rules, each counts as well.
DecodeRules(v, keyType, c) ==
    IF v.type # "map" THEN Refused
    ELSE LET rules == Each([i \in DOMAIN v.entries |-> RuleOf(v.entries[i], keyType)])
             seen  == The(rules)
             regexes == {p \in UNION {{i} \X DOMAIN seen[i].matches : i \in DOMAIN seen} :
                            seen[p[1]].matches[p[2]].match = REGEX}
         IN  IF rules = {} THEN Refused
             ELSE Decoded(seen, [c EXCEPT !.regexes = @ + Cardinality(regexes),
                                          !.patterns = @ + IF keyType = "int" THEN Len(seen) ELSE 0])

-----------------------------------------------------------------------------
(* cnf, catdpop, catif and catr: maps with fixed members.                  *)
KeysAre(type, v) == v.type = "map" /\ \A e \in ToSet(v.entries) : e[1].type = type
\* The last value under one of these keys.
Under(v, keys) ==
    LET at == {i \in DOMAIN v.entries : v.entries[i][1].n \in keys}
    IN  IF at = {} THEN {} ELSE {v.entries[Max(at)][2]}

\* cnf: the key thumbprints among the confirmation methods. Methods the crate
\* does not know are skipped, and a cnf without a thumbprint is dropped.
CnfJkt == {323, 3}
CnfCkt == 6
DecodeCnf(v, c) ==
    LET jkt == IF Under(v, CnfJkt) = {} THEN <<>> ELSE The(Under(v, CnfJkt)).str
        ckt == {x.str : x \in Under(v, {CnfCkt})}
    IN  IF \/ ~KeysAre("int", v)
           \/ \E e \in ToSet(v.entries) : e[1].n \in CnfJkt \cup {CnfCkt} /\ e[2].type # "bytes"
        THEN Refused
        ELSE IF jkt # <<>> \/ ckt # {} THEN Decoded([jkt |-> jkt, ckt |-> ckt], c)
        ELSE Dropped(c)

\* catdpop: crit (-1), window (0) and honor_jti (1) and nothing else; crit may
\* not name one of the three.
DpopMember(k, x, maxWindow) ==
    CASE k = -1 -> AllOf("int", x) /\ \A y \in ToSet(x.items) : y.n \notin {-1, 0, 1}
      [] k = 0  -> Number(x, 1..maxWindow)
      [] k = 1  -> Number(x, {0, 1})
      [] OTHER  -> FALSE

DecodeCatDpop(v, c, maxWindow) ==
    IF KeysAre("int", v) /\ \A e \in ToSet(v.entries) : DpopMember(e[1].n, e[2], maxWindow)
    THEN Decoded([crit   |-> {[i \in DOMAIN x.items |-> x.items[i].n] : x \in Under(v, {-1})},
                  window |-> {x.n : x \in Under(v, {0})},
                  honor  |-> {x.n = 1 : x \in Under(v, {1})}], c)
    ELSE Refused

\* ensure_header_value_clean: no NUL, CR or LF, and no colon in a name.
CleanHeader(name, value) ==
    /\ ToSet(name) \cap {0, 10, 13, 58} = {}
    /\ ToSet(value) \cap {0, 10, 13} = {}

\* catif: per claim, [status], [status, headers] or [status, headers, kid]; no
\* headers in the map are no headers.
ActionOf(e) ==
    LET arr     == e[2].items
        headers == arr[2].entries
    IN  IF /\ e[1].type = "int" /\ e[2].type = "array" /\ Len(arr) \in 1..3
           /\ Number(arr[1], 100 .. 599)
           /\ Len(arr) > 1 =>
                /\ KeysAre("text", arr[2])
                /\ \A h \in ToSet(headers) : h[2].type = "text" /\ CleanHeader(h[1].str, h[2].str)
           /\ Len(arr) > 2 => arr[3].type = "text"
        THEN {[claim |-> e[1].n, status |-> arr[1].n,
               headers |-> IF Len(arr) > 1 /\ headers # <<>>
                           THEN {[i \in DOMAIN headers |-> <<headers[i][1].str, headers[i][2].str>>]}
                           ELSE {},
               kid |-> IF Len(arr) > 2 THEN {arr[3].str} ELSE {}]}
        ELSE {}

DecodeCatif(v, c) ==
    IF v.type # "map" THEN Refused
    ELSE LET actions == Each([i \in DOMAIN v.entries |-> ActionOf(v.entries[i])])
         IN  IF actions = {} THEN Refused
             ELSE IF v.entries = <<>> THEN Dropped(c)
             ELSE Decoded(The(actions), CountItems(c, Len(v.entries)))

\* catr: members 0 to 7, any others are skipped; without a renewal type the
\* claim is dropped, with one it needs a positive expadd.
RenewalMember(k, x) ==
    CASE k = 0        -> {n \in 0..3 : Number(x, {n})}
      [] k \in {1, 2} -> FloatOf(x)
      [] k \in {3, 4} -> IF x.type = "text" THEN {x.str} ELSE {}
      [] k \in {5, 6} -> IF AllOf("text", x) THEN {Strings(x)} ELSE {}
      [] k = 7        -> IF Number(x, Nat) THEN {x.n} ELSE {}

DecodeCatr(v, c) ==
    LET known  == {k \in 0..7 : Under(v, {k}) # {}}
        member == [k \in known |-> RenewalMember(k, The(Under(v, {k})))]
    IN  IF ~KeysAre("int", v) \/ \E k \in known : member[k] = {} THEN Refused
        ELSE IF 0 \notin known THEN Dropped(CountItems(c, Len(v.entries)))
        ELSE IF 1 \in known /\ The(member[1]) > 0
        THEN Decoded([k \in known |-> The(member[k])], CountItems(c, Len(v.entries)))
        ELSE Refused

-----------------------------------------------------------------------------
(* moqt: scopes of [actions], [actions, namespaces] or [actions,           *)
(* namespaces, track].                                                     *)
BinaryMatches == <<"prefix", "suffix">>

\* decode_binary_match: a prefix or a suffix is not empty.
BinaryOf(x) ==
    CASE x.type = "bytes" -> {[match |-> "exact", pattern |-> x.str]}
      [] /\ x.type = "array" /\ Len(x.items) = 2
         /\ Number(x.items[1], DOMAIN BinaryMatches)
         /\ x.items[2].type = "bytes" /\ x.items[2].str # <<>> ->
            {[match |-> BinaryMatches[x.items[1].n], pattern |-> x.items[2].str]}
      [] OTHER -> {}

\* decode_namespace_match: null ends the namespace, as an empty pattern.
Nil == [match |-> "nil", pattern |-> <<>>]
NamespaceOf(x) == IF x = Null THEN {Nil} ELSE BinaryOf(x)
NilIsLast(namespaces) ==
    \A i \in DOMAIN namespaces : namespaces[i] = Nil => i = Len(namespaces)

ScopeOf(s, lim) ==
    IF /\ s.type = "array" /\ Len(s.items) \in 1..3
       /\ AllOf("int", s.items[1]) /\ s.items[1].items # <<>>
       /\ \A a \in ToSet(s.items[1].items) : a.n \in 0..8
       /\ Len(s.items) > 1 => s.items[2].type = "array" /\ Len(s.items[2].items) <= lim.namespaces
       /\ Len(s.items) > 2 => BinaryOf(s.items[3]) # {}
    THEN LET names == IF Len(s.items) > 1 THEN s.items[2].items ELSE <<>>
         IN  {[actions |-> [i \in DOMAIN s.items[1].items |-> s.items[1].items[i].n],
               namespaces |-> ns, track |-> IF Len(s.items) > 2 THEN BinaryOf(s.items[3]) ELSE {}] :
                ns \in {n \in Each([i \in DOMAIN names |-> NamespaceOf(names[i])]) : NilIsLast(n)}}
    ELSE {}

DecodeMoqt(v, c, lim) ==
    IF v.type # "array" THEN Refused
    ELSE LET scopes == Each([i \in DOMAIN v.items |-> ScopeOf(v.items[i], lim)])
         IN  IF Len(v.items) > lim.scopes \/ scopes = {} THEN Refused ELSE Decoded(The(scopes), c)

DecodeReval(v, c) == IF FloatOf(v) # {} THEN Decoded(The(FloatOf(v)), c) ELSE Refused

-----------------------------------------------------------------------------
\* unwrap_crs_tag: WGS84, the only reference system, is 0.
Unwrapped(v) ==
    IF v.type = "tag" /\ v.tag = 279
    THEN IF /\ v.inner.type = "array" /\ Len(v.inner.items) = 2
            /\ Number(v.inner.items[1], {0})
         THEN {v.inner.items[2]} ELSE {}
    ELSE {v}
Located(l) == l \in {GEOHASH, CATGEOCOORD, CATGEOALT}

\* One claim that is not a composite. Only the geographic claims may be tagged
\* (reject_unexpected_tag), apart from custom ones, of which a token so far
\* holds this many.
DecodeSimple(l, v, customs, c, lim) ==
    CASE l \in {ISS, SUB}        -> DecodeText(v, c, lim)
      [] l = AUD                 -> DecodeAud(v, c, lim)
      [] l \in {EXP, NBF, IAT}   -> DecodeTime(v, c)
      [] l \in {CTI, CATTPK}     -> IF v.type = "bytes" THEN Decoded(v.str, c) ELSE Refused
      [] l = CATREPLAY           -> DecodeNumber(v, 0..2, c)
      [] l = CATPOR              -> DecodeCatPor(v, c)
      [] l = CATV                -> DecodeNumber(v, Nat, c)
      [] l = CATNIP              -> DecodeCatnip(v, c, lim)
      [] l = CATU                -> DecodeRules(v, "int", c)
      [] l = CATM                -> DecodeList("text", v, c, 0..50)
      [] l = CATALPN             -> DecodeList("bytes", v, c, 0..50)
      [] l = CATH                -> DecodeRules(v, "text", c)
      [] l = CATGEOISO3166       -> DecodeList("text", v, c, Nat)
      [] l = GEOHASH             -> DecodeTexts(v, c, FALSE)
      [] l = CATIFDATA           -> DecodeTexts(v, c, TRUE)
      [] l = CATGEOCOORD         -> DecodeZones(v, c)
      [] l = CATGEOALT           -> DecodeAltitude(v, c)
      [] l = CNF                 -> DecodeCnf(v, c)
      [] l = CATDPOP             -> DecodeCatDpop(v, c, lim.window)
      [] l = CATIF               -> DecodeCatif(v, c)
      [] l = CATR                -> DecodeCatr(v, c)
      [] l = MOQT                -> DecodeMoqt(v, c, lim)
      [] l = MOQT_REVAL          -> DecodeReval(v, c)
      [] l \notin Standard       -> IF customs >= lim.custom THEN Refused ELSE Decoded(v, c)
=============================================================================
