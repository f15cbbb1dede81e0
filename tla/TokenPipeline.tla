---------------------------- MODULE TokenPipeline ----------------------------
(***************************************************************************)
(* From wire bytes to a ValidatedToken: TokenDecoder with peek_issuer, the *)
(* payload decoder and the validator as they are.                          *)
(***************************************************************************)
EXTENDS TokenDecoder, TokenValidator, CwtEncode, PeekIssuer

\* ciborium::de::from_reader: the item that starts at pos of well-formed bytes,
\* and the position after it. CBOR leaves the writer a choice of forms: an
\* argument may be wider than it needs to be, and a string, an array or a map may
\* run up to a break instead of stating its length. A half float is the one of
\* Encode. Bignums and other simple values are left out.
RECURSIVE ReadItem(_, _), ReadItems(_, _, _)
ReadItem(buf, pos) ==
    LET mt   == MajorType(buf, pos)
        arg  == Argument(buf, pos + 1, AddlInfo(buf, pos))
        open == AddlInfo(buf, pos) = 31
        \* The items inside this one: one or two for each it counts.
        inside(per) == IF open THEN ReadItems(buf, pos + 1, -1)
                       ELSE ReadItems(buf, arg.pos, per * arg.n)
        flat == SubSeq(buf, arg.pos, arg.pos + arg.n - 1)
        str  == IF open THEN FlattenSeq(Strings(Array(inside(1).items))) ELSE flat
        past == IF open THEN inside(1).pos ELSE arg.pos + arg.n
    IN  CASE mt = 0 -> [pos |-> arg.pos, item |-> Integer(arg.n)]
          [] mt = 1 -> [pos |-> arg.pos, item |-> Integer(-1 - arg.n)]
          [] mt = 2 -> [pos |-> past, item |-> Bytes(str)]
          [] mt = 3 -> [pos |-> past, item |-> Text(str)]
          [] mt = 4 -> [pos |-> inside(1).pos, item |-> Array(inside(1).items)]
          [] mt = 5 ->
                LET all == inside(2).items
                IN  [pos |-> inside(2).pos,
                     item |-> Map([i \in 1 .. Len(all) \div 2 |-> <<all[2 * i - 1], all[2 * i]>>])]
          [] mt = 6 ->
                LET r == ReadItem(buf, arg.pos) IN [pos |-> r.pos, item |-> Tag(arg.n, r.item)]
          [] mt = 7 ->
                [pos |-> arg.pos,
                 item |-> CASE buf[pos] = 246   -> Null
                            [] arg.n = 32256    -> Odd
                            [] arg.n < 32768    -> Float(arg.n)
                            [] OTHER            -> Float(arg.n - 65536)]

\* The next `left` items, or all up to the break if `left` is negative.
ReadItems(buf, pos, left) ==
    IF left = 0 THEN [pos |-> pos, items |-> <<>>]
    ELSE IF left < 0 /\ AtBreak(buf, pos) THEN [pos |-> pos + 1, items |-> <<>>]
    ELSE LET r    == ReadItem(buf, pos)
             rest == ReadItems(buf, r.pos, left - 1)
         IN  [pos |-> rest.pos, items |-> <<r.item>> \o rest.items]

\* What the peek and the decoder make of each payload, independent of the state:
\* with Validates, the parameters of TokenDecoder.
Peeked == [w \in Wires |-> PeekIss(w.bytes)]
Payloads == [w \in Wires, lim \in {d.lim : d \in Decoders} |->
                DecodePayload(w.payload, Len(w.bytes), lim)]
PeekWire(w) == Peeked[w]
ParseWire(w, lim) == Payloads[w, lim]

ASSUME PipelineConstants ==
    /\ \A v \in Validators : ToleranceOK(v.exp_tol) /\ ToleranceOK(v.nbf_tol)
    \* In whatever form the bytes are, they hold the payload and nothing after it.
    /\ \A w \in Wires :
        /\ ReadItem(w.bytes, 1) = [pos |-> Len(w.bytes) + 1, item |-> w.payload]
        /\ w.size >= Len(w.bytes)

-----------------------------------------------------------------------------
\* Every claim of a payload and of the claim sets below it, and every claim set.
RECURSIVE ClaimCount(_), SetCount(_)
ClaimCount(v) ==
    FoldFunction(+, 0, [i \in DOMAIN v.entries |->
        1 + IF v.entries[i][1].n \in Composites THEN SetCount(v.entries[i][2]) ELSE 0])
SetCount(v) ==
    FoldFunction(+, 0, [i \in DOMAIN v.items |->
        1 + IF IsLone(v.items[i]) THEN SetCount(v.items[i].entries[1][2])
            ELSE ClaimCount(v.items[i])])

\* CwtLimits.max_total_items bounds the token as a whole: a verified token has no
\* more claims and claim sets than that, however they are spread over nested
\* tokens, each of which is decoded by a call of its own.
BudgetIsShared ==
    held.stage # "none" => ClaimCount(held.wire.payload) <= held.decoder.lim.items

-----------------------------------------------------------------------------
(* What a payload says, read off the CBOR items without limits: its own    *)
(* claims hold, and each composite has the truth value of its operator.    *)
OwnToken(v) ==
    LET own  == {i \in DOMAIN v.entries : v.entries[i][1].n \notin Composites}
        item == [i \in own |-> LET x == v.entries[i][2]
                               IN  IF Located(v.entries[i][1].n) /\ x.type = "tag"
                                   THEN x.inner.items[2] ELSE x]
        kept == [i \in own |->
                    DecodeSimple(v.entries[i][1].n, item[i], 0, NoCount, held.decoder.lim).kept]
        at   == {i \in own : kept[i] # {}}
    IN  [l \in {v.entries[i][1].n : i \in at} |->
            CHOOSE x \in UNION {kept[i] : i \in {j \in at : v.entries[j][1].n = l}} : TRUE]

RECURSIVE Means(_, _, _, _), Formula(_, _, _)
MeansSet(m, at, v) ==
    IF IsLone(m) THEN Formula(m.entries[1], at, v) ELSE Means(m, "Signed", at, v)
Formula(e, at, v) ==
    LET good == {m \in ToSet(e[2].items) : MeansSet(m, at, v)}
    IN  CASE e[1].n = 324 -> good # {}
          [] e[1].n = 325 -> good = {}
          [] e[1].n = 326 -> good = ToSet(e[2].items)
Means(p, provenance, at, v) ==
    /\ OwnClaimsOK(OwnToken(p), provenance, at, v)
    /\ \A e \in ToSet(p.entries) : e[1].n \in Composites => Formula(e, at, v)

\* A nested token whose own composites are too deep for the validator counts as
\* unacceptable whatever they say.
RECURSIVE CutShort(_)
CutShort(tok) ==
    \E t \in NestedTokens(tok) :
        \/ \E comp \in CompositesOf(t) : ExceedsDepth(comp, 0, MaxNestingDepth)
        \/ CutShort(t)

\* CatTokenValidator: a token that validates is one whose signed payload says it
\* is acceptable at that time: decoding and evaluating with depth limits and
\* re-encoded nested tokens agrees with the plain reading of OR, NOR and AND,
\* and privacy claims count as sealed only if the wire was encrypted. Tokens
\* that hide a composite too deep in a nested token are set apart.
ValidatedMeansAcceptable ==
    held.stage = "validated" /\ ~CutShort(held.token) =>
        Means(held.wire.payload, IF held.wire.sealed = {} THEN "Signed" ELSE "Encrypted",
              held.at, held.validator)

\* A token the encoder can write faithfully: no negative label among others (a
\* BTreeMap and sort_by_key put it first, the decoder wants it last), and no
\* catdpop without a setting.
RECURSIVE Orderly(_)
Orderly(tok) ==
    LET alone(labels) == Cardinality(labels) > 1 => \A l \in labels : l >= 0
    IN  /\ alone(DOMAIN tok)
        /\ Has(tok, CATIF) => alone({a.claim : a \in ToSet(tok[CATIF])})
        /\ Has(tok, CATDPOP) => EncodeCatDpop(tok[CATDPOP]) # <<>>
        /\ \A t \in NestedTokens(tok) : Orderly(t)

\* A token that was decoded can be issued again, as a renewal does: encode_token
\* accepts it, and what it writes decodes to the same token, claim by claim and
\* nested token by nested token. The budgets are left aside: an aud that came as
\* text is written as an array, which counts one more item.
ReissuedIsTheSame ==
    held.stage # "none" /\ Orderly(held.token) =>
        \E p \in EncodeToken(held.token) :
            LET lim == [held.decoder.lim EXCEPT !.items = 2 * @]
                r   == DecodeMap(p, NoCount, lim)
            IN  r.ok /\ r.token = held.token
=============================================================================
