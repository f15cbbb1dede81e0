--------------------------- MODULE TokenValidator ---------------------------
(***************************************************************************)
(* CatTokenValidator (src/src/token.rs) and the evaluation of composite    *)
(* claims (src/src/claims.rs).                                             *)
(*                                                                         *)
(* A validator is a record: issuers and audiences are the allow-list in a  *)
(* singleton, or {} when none is set; exp_tol and nbf_tol the tolerances;  *)
(* plain_privacy the opt-out for unencrypted privacy claims. The clock is  *)
(* read once for a whole call.                                             *)
(***************************************************************************)
EXTENDS CwtDecode

CONSTANTS
    MaxNestingDepth,   \* MAX_NESTING_DEPTH of validate_composite_claims
    MaxEvaluateDepth,  \* CompositeClaim::MAX_EVALUATE_DEPTH
    MaxSkew            \* MAX_CLOCK_SKEW_TOLERANCE_SECS

ASSUME ValidatorConstants ==
    {MaxNestingDepth, MaxEvaluateDepth, MaxSkew} \subseteq Nat

CompositesOf(tok) == {tok[l] : l \in DOMAIN tok \cap Composites}

\* with_separate_tolerances refuses anything else.
ToleranceOK(s) == s \in 0..MaxSkew

\* The window check: an addition or subtraction that leaves i64 refuses.
TimeOK(tok, at, v) ==
    /\ Has(tok, EXP) => tok[EXP] + v.exp_tol <= I64Max /\ at <= tok[EXP] + v.exp_tol
    /\ Has(tok, NBF) => tok[NBF] - v.nbf_tol >= -I64Max - 1 /\ at >= tok[NBF] - v.nbf_tol

\* The allow-lists hold no empty string (for_expected_issuers,
\* with_expected_audiences), and none in the token counts.
Listed(names) == {s \in names : s # <<>>}

IssuerOK(tok, v) ==
    \A allowed \in v.issuers : Has(tok, ISS) /\ tok[ISS] \in Listed(allowed)

AudienceOK(tok, v) ==
    \A allowed \in v.audiences : Has(tok, AUD) /\ ToSet(tok[AUD]) \cap Listed(allowed) # {}

\* validate_privacy_claims.
PrivateLabels == {SUB, CATGEOCOORD, GEOHASH, CATGEOALT}
PrivacyOK(tok, provenance, v) ==
    v.plain_privacy \/ provenance = "Encrypted" \/ DOMAIN tok \cap PrivateLabels = {}

\* validate_iso3166_code: "US", "USA", or "US-CA" with one to three letters or
\* digits after the first hyphen.
Upper == 65..90
Alphanumeric == Upper \cup (48..57) \cup (97..122)
CountryOK(code) ==
    IF 45 \in ToSet(code)
    THEN LET hyphen == SelectInSeq(code, LAMBDA ch : ch = 45)
             part   == SubSeq(code, hyphen + 1, Len(code))
         IN  /\ hyphen = 3 /\ ToSet(SubSeq(code, 1, 2)) \subseteq Upper
             /\ Len(part) \in 1..3 /\ ToSet(part) \subseteq Alphanumeric
    ELSE Len(code) \in 2..3 /\ ToSet(code) \subseteq Upper

\* NetworkIdentifier::validate; MAX_REASONABLE_ASN_RANGE.
MaxAsnRange == 65536
NetworkOK(x) ==
    /\ x.kind = "prefix" => x.len <= 8 * OctetsOf[x.tag]
    /\ x.kind = "range" => x.first <= x.last /\ x.last - x.first <= MaxAsnRange

\* validate_geographic_restrictions: coordinates, geohashes of 4 to 12
\* characters of "0123456789bcdefghjkmnpqrstuvwxyz", countries and networks.
GeohashChars == (48..57) \cup ((98..122) \ {105, 108, 111})
GeoOK(tok) ==
    /\ Has(tok, CATGEOCOORD) =>
        \A z \in ToSet(tok[CATGEOCOORD]) : z.lat \in -9000..9000 /\ z.lon \in -18000..18000
    /\ Has(tok, GEOHASH) =>
        \A g \in ToSet(tok[GEOHASH]) : Len(g) \in 4..12 /\ ToSet(g) \subseteq GeohashChars
    /\ Has(tok, CATGEOISO3166) => \A code \in ToSet(tok[CATGEOISO3166]) : CountryOK(code)
    /\ Has(tok, CATNIP) => \A x \in ToSet(tok[CATNIP]) : NetworkOK(x)

\* validate_posix_ere, over the bytes of a pattern: no \d, \w, \s or \b (or their
\* capitals), no non-greedy quantifier, no (? group. A trailing backslash passes.
RECURSIVE PosixEre(_)
PosixEre(s) ==
    Len(s) >= 2 =>
        IF s[1] = 92
        THEN s[2] \notin {98, 100, 115, 119, 66, 68, 83, 87} /\ PosixEre(Tail(Tail(s)))
        ELSE ~(s[1] \in {40, 42, 43, 63} /\ s[2] = 63) /\ PosixEre(Tail(s))

\* validate_regex_ere.
RegexOK(tok) ==
    \A l \in DOMAIN tok \cap {CATU, CATH} : \A rule \in ToSet(tok[l]) :
        \A m \in ToSet(rule.matches) : m.match = REGEX => PosixEre(m.str)

\* Everything about a token but its composites.
OwnClaimsOK(tok, provenance, at, v) ==
    /\ TimeOK(tok, at, v)
    /\ IssuerOK(tok, v)
    /\ AudienceOK(tok, v)
    /\ Has(tok, CATV) => tok[CATV] = 1
    /\ PrivacyOK(tok, provenance, v)
    /\ GeoOK(tok)
    /\ RegexOK(tok)

-----------------------------------------------------------------------------
\* Mutant of ExceedsDepth: does not look below the top level.
ExceedsDepthShallow(comp, current, limit) == current >= limit

\* check_depth_limit: nested composites only; a token among the claim sets is
\* not looked into.
RECURSIVE ExceedsDepth(_, _, _)
ExceedsDepth(comp, current, limit) ==
    \/ current >= limit
    \/ \E s \in ToSet(comp.claims) :
        s.kind = "composite" /\ ExceedsDepth(s.composite, current + 1, limit)

RECURSIVE Evaluate(_, _, _, _), Validates(_, _, _, _)

\* evaluate_claim_set_with_depth: a nested token is validated by the validator
\* itself, always as a signed one.
Acceptable(s, depth, at, v) ==
    CASE s.kind = "token"     -> Validates(s.token, "Signed", at, v)
      [] s.kind = "composite" -> Evaluate(s.composite, depth + 1, at, v)

\* evaluate_with_depth.
Evaluate(comp, depth, at, v) ==
    /\ depth <= MaxEvaluateDepth
    /\ CASE comp.op = "or"  -> \E s \in ToSet(comp.claims) : Acceptable(s, depth, at, v)
         [] comp.op = "nor" -> ~\E s \in ToSet(comp.claims) : Acceptable(s, depth, at, v)
         [] comp.op = "and" -> \A s \in ToSet(comp.claims) : Acceptable(s, depth, at, v)

\* validate_composite_claims.
CompositesOK(tok, at, v) ==
    /\ \A comp \in CompositesOf(tok) : ~ExceedsDepth(comp, 0, MaxNestingDepth)
    /\ \A comp \in CompositesOf(tok) : Evaluate(comp, 0, at, v)

\* validate_with_provenance.
Validates(tok, provenance, at, v) ==
    OwnClaimsOK(tok, provenance, at, v) /\ CompositesOK(tok, at, v)
=============================================================================
