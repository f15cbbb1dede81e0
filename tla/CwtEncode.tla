------------------------------ MODULE CwtEncode ------------------------------
(***************************************************************************)
(* encode_token (src/src/token.rs) and Cwt::encode_payload                 *)
(* (src/src/cwt.rs): a CatToken becomes the map of claims that is signed.  *)
(***************************************************************************)
EXTENDS CwtDecode

Texts(strings) == Array([i \in DOMAIN strings |-> Text(strings[i])])
\* A member of a map that is written only if it is there.
Member(k, option, Item(_)) == SetToSeq({<<Integer(k), Item(x)>> : x \in option})

\* encode_number_shortest.
EncodeNumber(x) == IF x % 100 = 0 THEN Integer(x \div 100) ELSE Float(x)

\* geohash and catifdata: a single text is written without its array.
OneOrMore(strings) == IF Len(strings) = 1 THEN Text(strings[1]) ELSE Texts(strings)

EncodeCatPor(x) ==
    Array(<<EncodeNumber(x.probability), Bytes(x.id)>> \o SetToSeq({Integer(e) : e \in x.expiration}))

EncodeZone(z) == Array(<<EncodeNumber(z.lat), EncodeNumber(z.lon), Integer(z.radius)>>)

\* Mutant of EncodeNetwork: a prefix is rounded down to whole bytes.
EncodeNetworkShort(x) ==
    CASE x.kind = "ip"     -> Tag(x.tag, Bytes(x.octets))
      [] x.kind = "prefix" ->
            Tag(x.tag, Map(<<<<Integer(x.len), Bytes(SubSeq(x.octets, 1, x.len \div 8))>>>>))
      [] x.kind = "asn"    -> Integer(x.n)
      [] x.kind = "range"  -> Array(<<Integer(x.first), Integer(x.last)>>)

\* encode_network_identifier.
EncodeNetwork(x) ==
    CASE x.kind = "ip"     -> Tag(x.tag, Bytes(x.octets))
      [] x.kind = "prefix" ->
            Tag(x.tag, Map(<<<<Integer(x.len), Bytes(SubSeq(x.octets, 1, PrefixByteCount(x.len)))>>>>))
      [] x.kind = "asn"    -> Integer(x.n)
      [] x.kind = "range"  -> Array(<<Integer(x.first), Integer(x.last)>>)

\* sort_integer_keyed_map.
SortEntries(entries) == SortSeq(entries, LAMBDA a, b : CanonicalLess(a[1].n, b[1].n))

\* encode_match_value.
EncodeMatch(m) ==
    <<Integer(m.match), IF TypeOfMatch[m.match] = "text" THEN Text(m.str) ELSE Bytes(m.str)>>

\* One rule of catu or cath.
EncodeRule(rule) ==
    <<rule.key, Map(SortEntries([i \in DOMAIN rule.matches |-> EncodeMatch(rule.matches[i])]))>>

EncodeCnf(x) ==
    Member(CnfCkt, x.ckt, Bytes) \o Member(323, {x.jkt} \ {<<>>}, Bytes)

EncodeCatDpop(x) ==
    LET honor(b) == Integer(IF b THEN 1 ELSE 0)
        crit(ks) == Array([i \in DOMAIN ks |-> Integer(ks[i])])
    IN  Member(0, x.window, Integer) \o Member(1, x.honor, honor) \o Member(-1, x.crit, crit)

\* catif: the headers are written, empty, to make room for a kid. The actions
\* are sorted by label, as integers.
EncodeAction(a) ==
    LET headers(hs) == Map([i \in DOMAIN hs |-> <<Text(hs[i][1]), Text(hs[i][2])>>])
        second == IF a.headers = {} /\ a.kid # {} THEN {<<>>} ELSE a.headers
    IN  <<Integer(a.claim),
          Array(<<Integer(a.status)>> \o SetToSeq({headers(hs) : hs \in second})
                    \o SetToSeq({Text(k) : k \in a.kid}))>>
EncodeCatif(actions) ==
    LET sorted == SortSeq(actions, LAMBDA a, b : a.claim < b.claim)
    IN  Map([i \in DOMAIN sorted |-> EncodeAction(sorted[i])])

EncodeRenewal(x) ==
    LET item(k) == CASE k \in {0, 7} -> Integer(x[k])
                     [] k \in {1, 2} -> EncodeNumber(x[k])
                     [] k \in {3, 4} -> Text(x[k])
                     [] k \in {5, 6} -> Texts(x[k])
        keys == SetToSortSeq(DOMAIN x, <)
    IN  Map([i \in DOMAIN keys |-> <<Integer(keys[i]), item(keys[i])>>])

\* encode_binary_match and encode_namespace_match.
EncodeBinary(b) ==
    CASE b.match = "nil"   -> Null
      [] b.match = "exact" -> Bytes(b.pattern)
      [] OTHER -> Array(<<Integer(CHOOSE n \in 1..2 : BinaryMatches[n] = b.match), Bytes(b.pattern)>>)

\* A scope is written only as far as it says something; a track without
\* namespaces needs their place.
EncodeScope(s) ==
    LET namespaces == Array([i \in DOMAIN s.namespaces |-> EncodeBinary(s.namespaces[i])])
    IN  Array(<<Array([i \in DOMAIN s.actions |-> Integer(s.actions[i])])>>
              \o (IF s.namespaces = <<>> /\ s.track = {} THEN <<>> ELSE <<namespaces>>)
              \o SetToSeq({EncodeBinary(b) : b \in s.track}))

\* What cannot be encoded: a scope without actions, an element after nil, a
\* wildcard where leaving the match out says it.
ScopeOK(s) ==
    /\ s.actions # <<>>
    /\ NilIsLast(s.namespaces)
    /\ \A b \in ToSet(s.namespaces) \cup s.track : b.match # "any"

\* CatToken::validate_construction.
ConstructionOK(tok) ==
    /\ CATGEOCOORD \in DOMAIN tok =>
        \A z \in ToSet(tok[CATGEOCOORD]) : z.lat \in -9000 .. 9000 /\ z.lon \in -18000 .. 18000
    /\ CATDPOP \in DOMAIN tok => \A w \in tok[CATDPOP].window : w >= 0

-----------------------------------------------------------------------------
RECURSIVE EncodeClaims(_), EncodeComposite(_), Encodable(_)

\* One claim that is not a composite.
EncodeSimple(l, x) ==
    LET each(Item(_)) == [i \in DOMAIN x |-> Item(x[i])]
    IN  CASE l \in {ISS, SUB}                      -> Text(x)
          [] l \in {AUD, CATM, CATGEOISO3166}      -> Texts(x)
          [] l \in {EXP, NBF, IAT, CATREPLAY, CATV} -> Integer(x)
          [] l \in {CTI, CATTPK}                   -> Bytes(x)
          [] l = CATPOR                            -> EncodeCatPor(x)
          [] l = CATNIP                            -> Array(each(EncodeNetwork))
          [] l = CATU                              -> Map(SortEntries(each(EncodeRule)))
          [] l = CATH                              -> Map(each(EncodeRule))
          [] l = CATALPN                           -> Array(each(Bytes))
          [] l \in {GEOHASH, CATIFDATA}            -> OneOrMore(x)
          [] l = CATGEOCOORD                       -> Array(each(EncodeZone))
          [] l = CATGEOALT                         -> Array(each(EncodeNumber))
          [] l = CNF                               -> Map(EncodeCnf(x))
          [] l = CATDPOP                           -> Map(EncodeCatDpop(x))
          [] l = CATIF                             -> EncodeCatif(x)
          [] l = CATR                              -> EncodeRenewal(x)
          [] l = MOQT                              -> Array(each(EncodeScope))
          [] l = MOQT_REVAL                        -> EncodeNumber(x)
          [] l \notin Standard                     -> x

\* encode_composite_claim.
EncodeComposite(comp) ==
    LET set(s) == IF s.kind = "token" THEN EncodeClaims(s.token)
                  ELSE Map(<<<<Integer(CHOOSE l \in Composites : OpOf[l] = s.composite.op),
                               EncodeComposite(s.composite)>>>>)
    IN  Array([i \in DOMAIN comp.claims |-> set(comp.claims[i])])

\* The map of claims, in the order of a BTreeMap over i64. A cnf or a catdpop
\* without members is left out.
EncodeClaims(tok) ==
    LET hollow == {l \in DOMAIN tok \cap {CNF, CATDPOP} : EncodeSimple(l, tok[l]).entries = <<>>}
        labels == SetToSortSeq(DOMAIN tok \ hollow, <)
    IN  Map([i \in DOMAIN labels |->
                <<Integer(labels[i]),
                  IF labels[i] \in Composites THEN EncodeComposite(tok[labels[i]])
                  ELSE EncodeSimple(labels[i], tok[labels[i]])>>])

\* The tokens inside a composite.
RECURSIVE TokensIn(_)
TokensIn(comp) ==
    UNION {IF s.kind = "token" THEN {s.token} ELSE TokensIn(s.composite) : s \in ToSet(comp.claims)}
NestedTokens(tok) == UNION {TokensIn(tok[l]) : l \in DOMAIN tok \cap Composites}

Encodable(tok) ==
    /\ MOQT \in DOMAIN tok => \A s \in ToSet(tok[MOQT]) : ScopeOK(s)
    /\ \A t \in NestedTokens(tok) : Encodable(t)

\* What encode_token signs, in a singleton; {} is an error.
EncodeToken(tok) == {EncodeClaims(t) : t \in {t \in {tok} : ConstructionOK(t) /\ Encodable(t)}}

-----------------------------------------------------------------------------
(* The bytes ciborium writes for an item. A float is a half of symbolic    *)
(* bits.                                                                   *)

\* The initial byte of an item of major type mt and its argument, in the
\* shortest form.
ItemHead(mt, n) ==
    IF n <= 23 THEN <<32 * mt + n>>
    ELSE IF n <= 255 THEN <<32 * mt + 24, n>>
    ELSE <<32 * mt + 25, n \div 256, n % 256>>

\* ciborium::ser::into_writer.
RECURSIVE Encode(_)
Encode(v) ==
    CASE v.type = "int"   -> IF v.n >= 0 THEN ItemHead(0, v.n) ELSE ItemHead(1, -1 - v.n)
      [] v.type = "bytes" -> ItemHead(2, Len(v.str)) \o v.str
      [] v.type = "text"  -> ItemHead(3, Len(v.str)) \o v.str
      [] v.type = "array" ->
            ItemHead(4, Len(v.items))
                \o FlattenSeq([i \in DOMAIN v.items |-> Encode(v.items[i])])
      [] v.type = "map"   ->
            ItemHead(5, Len(v.entries))
                \o FlattenSeq([i \in DOMAIN v.entries |->
                        Encode(v.entries[i][1]) \o Encode(v.entries[i][2])])
      [] v.type = "tag"   -> ItemHead(6, v.tag) \o Encode(v.inner)
      [] v.type = "null"  -> <<246>>
      [] v.type = "float" -> <<249, (v.f \div 256) % 256, v.f % 256>>
      [] v.type = "odd"   -> <<249, 126, 0>>
=============================================================================
