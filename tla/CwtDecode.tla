----------------------------- MODULE CwtDecode -----------------------------
(***************************************************************************)
(* Cwt::decode_payload_with_limits (src/src/cwt.rs): the map of claims of  *)
(* a payload becomes a CatToken, within the budgets of CwtLimits.          *)
(*                                                                         *)
(* A CatToken is a function from the labels it carries to their values: a  *)
(* claim the decoder leaves at None is a label outside the domain. A       *)
(* custom claim keeps its CBOR item.                                       *)
(***************************************************************************)
EXTENDS CwtClaims

-----------------------------------------------------------------------------
\* cbor_canonical_key_cmp(a, b) is Less: 0, 1, 2, ..., -1, -2, ...
CanonicalLess(a, b) == IF (a >= 0) = (b >= 0) THEN (IF a >= 0 THEN a < b ELSE b < a) ELSE a >= 0

\* Mutant of KeysInOrder: an integer key may be repeated.
KeysInOrderRepeats(entries) ==
    \A i, j \in DOMAIN entries : i < j =>
        LET a == entries[i][1]
            b == entries[j][1]
        IN  a.type = "int" /\ b.type = "int" => a.n = b.n \/ CanonicalLess(a.n, b.n)

\* key_fingerprint: all floats are one key.
Fingerprint(key) ==
    CASE key.type \in {"int", "text", "bytes", "null"} -> {key}
      [] key.type \in {"float", "odd"}                 -> {Odd}
      [] OTHER                                         -> {}

\* The keys of one map: none twice, integer keys in canonical order.
KeysInOrder(entries) ==
    \A i, j \in DOMAIN entries : i < j =>
        LET a == entries[i][1]
            b == entries[j][1]
        IN  /\ Fingerprint(a) \cap Fingerprint(b) = {}
            /\ a.type = "int" /\ b.type = "int" => CanonicalLess(a.n, b.n)

\* validate_cbor_map_ordering_with_depth and validate_nested_maps_with_depth:
\* every map inside v, v being at this depth. Map keys are not descended into.
RECURSIVE WellOrdered(_, _, _)
WellOrdered(v, depth, max) ==
    /\ depth <= max
    /\ v.type = "map" =>
        /\ KeysInOrder(v.entries)
        /\ \A e \in ToSet(v.entries) : WellOrdered(e[2], depth + 1, max)
    /\ v.type \in {"array", "tag"} =>
        \A x \in Children(v) : WellOrdered(x, depth + 1, max)

-----------------------------------------------------------------------------
(* Composites and payloads. A CompositeClaim has an operator and a sequence *)
(* of claim sets, each a token or a nested composite.                      *)
RECURSIVE DecodeMap(_, _, _), DecodeEntries(_, _, _, _, _)
RECURSIVE DecodeComposite(_, _, _, _, _), DecodeMembers(_, _, _, _, _)

\* A claim set that is nothing but one composite claim.
IsLone(v) == Len(v.entries) = 1 /\ v.entries[1][1].type = "int" /\ v.entries[1][1].n \in Composites

\* Mutant of DecodeClaimSet: a nested token starts with counters of its own.
DecodeClaimSetFreshBudget(v, c, lim, depth) ==
    IF IsLone(v)
    THEN LET r == DecodeComposite(v.entries[1][1].n, v.entries[1][2], c, lim, depth + 1)
         IN  IF r.ok THEN [ok |-> TRUE, c |-> r.c,
                           set |-> [kind |-> "composite", composite |-> The(r.kept)]]
             ELSE Refused
    ELSE LET r == DecodeMap(v, NoCount, lim)
         IN  IF r.ok THEN [ok |-> TRUE, c |-> c, set |-> [kind |-> "token", token |-> r.token]]
             ELSE Refused

\* One claim set: nested composites go one level down, anything else is decoded
\* as a payload of its own, on the same counters and with its own depth.
DecodeClaimSet(v, c, lim, depth) ==
    IF IsLone(v)
    THEN LET r == DecodeComposite(v.entries[1][1].n, v.entries[1][2], c, lim, depth + 1)
         IN  IF r.ok THEN [ok |-> TRUE, c |-> r.c,
                           set |-> [kind |-> "composite", composite |-> The(r.kept)]]
             ELSE Refused
    ELSE LET r == DecodeMap(v, c, lim)
         IN  IF r.ok THEN [ok |-> TRUE, c |-> r.c, set |-> [kind |-> "token", token |-> r.token]]
             ELSE Refused

DecodeMembers(items, sets, c, lim, depth) ==
    IF items = <<>> THEN [ok |-> TRUE, sets |-> sets, c |-> c]
    ELSE IF Head(items).type # "map" \/ ~Within(CountItems(c, 1), lim) THEN Refused
    ELSE LET r == DecodeClaimSet(Head(items), CountItems(c, 1), lim, depth)
         IN  IF r.ok THEN DecodeMembers(Tail(items), Append(sets, r.set), r.c, lim, depth)
             ELSE Refused

\* decode_composite_claim_with_counters.
DecodeComposite(l, v, c, lim, depth) ==
    IF depth >= lim.nesting \/ v.type # "array" THEN Refused
    ELSE LET r == DecodeMembers(v.items, <<>>, c, lim, depth)
         IN  IF r.ok THEN Decoded([op |-> OpOf[l], claims |-> r.sets], r.c) ELSE Refused

DecodeClaim(l, v, tok, c, lim) ==
    IF l \in Composites THEN DecodeComposite(l, v, c, lim, 0)
    ELSE LET inner == IF Located(l) THEN Unwrapped(v) ELSE {v}
         IN  IF inner = {} THEN Refused
             ELSE DecodeSimple(l, The(inner), Cardinality(DOMAIN tok \ Standard), c, lim)

\* The loop over the claims; a later claim with the same label would win.
DecodeEntries(entries, i, tok, c, lim) ==
    IF i > Len(entries) THEN [ok |-> TRUE, token |-> tok, c |-> c]
    ELSE IF entries[i][1].type # "int" \/ ~Within(CountItems(c, 1), lim) THEN Refused
    ELSE LET l == entries[i][1].n
             r == DecodeClaim(l, entries[i][2], tok, CountItems(c, 1), lim)
         IN  IF ~r.ok \/ ~Within(r.c, lim) THEN Refused
             ELSE DecodeEntries(entries, i + 1,
                      IF r.kept = {} THEN tok ELSE (l :> The(r.kept)) @@ tok,
                      r.c, lim)

\* decode_payload_with_limits_and_counters. Its size check is left to
\* DecodePayload: a nested token, encoded again, is smaller than what holds it.
\* So is its nesting, and ciborium's recursion limit (CBOR_MAX_RECURSION_DEPTH)
\* is never below max_nesting_depth.
DecodeMap(v, c, lim) ==
    IF v.type = "map" /\ WellOrdered(v, 0, lim.nesting)
    THEN DecodeEntries(v.entries, 1, <<>>, c, lim)
    ELSE Refused

\* decode_payload_with_limits, of a payload of this many bytes.
DecodePayload(v, size, lim) == IF size <= lim.payload THEN DecodeMap(v, NoCount, lim) ELSE Refused
=============================================================================
