------------------------------ MODULE UriMatcher ------------------------------
(***************************************************************************)
(* UriMatcher: patterns of five kinds are added, URIs are matched against  *)
(* all of them. The same calls are made on the matcher of src/src/trie.rs  *)
(* ("tree") and on that of src/src/trie_qp.rs ("qp").                      *)
(*                                                                         *)
(* A pattern is [kind, text]; a hash pattern is [kind, hex], hex a         *)
(* spelling of a digest: [bytes, digest], bytes 0 if it is not hex.        *)
(***************************************************************************)
EXTENDS PatternTrie, TextMatch

CONSTANTS
    MatcherPatterns,         \* the patterns that are added
    MatcherTexts,            \* the URIs that are matched
    MaxRegexPatterns,        \* max_regex_patterns
    MaxRegexPatternLength    \* max_regex_pattern_length, in bytes

\* The prefixes and suffixes among the patterns.
TrieTexts == {p.text : p \in {q \in MatcherPatterns : q.kind \in {"prefix", "suffix"}}}

ASSUME MatcherConstants ==
    /\ \A p \in MatcherPatterns : p.kind \in {"exact", "prefix", "suffix", "regex", "hash"}
    /\ InUtf8(TrieTexts, MatcherTexts \cup TrieTexts)
    /\ \A text \in TrieTexts : Len(text) <= Len(Bytes(text))

VARIABLES
    matcher,  \* matcher[b]: the matcher over backend b
    added     \* history: the patterns add_pattern has accepted

matcherVars == <<matcher, added>>

Backends == {"tree", "qp"}

MInit ==
    /\ matcher = [b \in Backends |->
                    [prefix |-> IF b = "tree" THEN EmptyTree ELSE EmptyQp,
                     suffix |-> IF b = "tree" THEN EmptyTree ELSE EmptyQp,
                     exact |-> {}, regex |-> <<>>, hash |-> <<>>]]
    /\ added = {}

\* What add_pattern refuses.
AddError(m, p) ==
    CASE p.kind = "regex" /\ Len(m.regex) >= MaxRegexPatterns -> "too many"
      [] p.kind = "regex" /\ Len(m.regex) < MaxRegexPatterns
            /\ Len(Bytes(p.text)) > MaxRegexPatternLength -> "too long"
      [] p.kind = "regex" /\ Len(m.regex) < MaxRegexPatterns
            /\ Len(Bytes(p.text)) <= MaxRegexPatternLength /\ ~Compiles(p.text) -> "no regex"
      [] p.kind = "hash" /\ p.hex.bytes # 32 -> "no digest"
      [] OTHER -> "none"

\* Mutant: a suffix is not reversed before it goes into its trie.
StoredUnreversed(m, b, p) ==
    CASE p.kind = "exact" -> [m EXCEPT !.exact = @ \cup {p.text}]
      [] p.kind = "prefix" /\ b = "tree" -> [m EXCEPT !.prefix = TreeInsert(@, p.text, p.text)]
      [] p.kind = "prefix" /\ b = "qp" -> [m EXCEPT !.prefix = QpInsert(@, Bytes(p.text), p.text)]
      [] p.kind = "suffix" /\ b = "tree" -> [m EXCEPT !.suffix = TreeInsert(@, p.text, p.text)]
      [] p.kind = "suffix" /\ b = "qp" -> [m EXCEPT !.suffix = QpInsert(@, Bytes(p.text), p.text)]
      [] p.kind = "regex" -> [m EXCEPT !.regex = Append(@, p.text)]
      [] p.kind = "hash" -> [m EXCEPT !.hash = With(@, p.hex.digest, p.hex)]

\* The matcher with an acceptable pattern. Only regexes pile up: the other
\* kinds replace what was there.
StoredIn(m, b, p) ==
    CASE p.kind = "exact" -> [m EXCEPT !.exact = @ \cup {p.text}]
      [] p.kind = "prefix" /\ b = "tree" -> [m EXCEPT !.prefix = TreeInsert(@, p.text, p.text)]
      [] p.kind = "prefix" /\ b = "qp" -> [m EXCEPT !.prefix = QpInsert(@, Bytes(p.text), p.text)]
      [] p.kind = "suffix" /\ b = "tree" ->
            [m EXCEPT !.suffix = TreeInsert(@, Reverse(p.text), p.text)]
      [] p.kind = "suffix" /\ b = "qp" ->
            [m EXCEPT !.suffix = QpInsert(@, Reverse(Bytes(p.text)), p.text)]
      [] p.kind = "regex" -> [m EXCEPT !.regex = Append(@, p.text)]
      [] p.kind = "hash" -> [m EXCEPT !.hash = With(@, p.hex.digest, p.hex)]

\* add_pattern.
AddPattern(p) ==
    /\ matcher' = [b \in Backends |-> IF AddError(matcher[b], p) = "none"
                                      THEN StoredIn(matcher[b], b, p) ELSE matcher[b]]
    /\ added' = IF AddError(matcher["tree"], p) = "none" THEN added \cup {p} ELSE added

MNext == \E p \in MatcherPatterns : AddPattern(p)

MSpec == MInit /\ [][MNext]_matcherVars

-----------------------------------------------------------------------------
\* matches. trie.rs asks its tries for what matches, trie_qp.rs only whether
\* something does.
TriesMatch(b, m, uri) ==
    IF b = "tree" THEN TreeSearch(m.prefix, uri) # <<>> \/ TreeSearch(m.suffix, Reverse(uri)) # <<>>
    ELSE QpContains(m.prefix, Bytes(uri)) \/ QpContains(m.suffix, Reverse(Bytes(uri)))
Matches(b, uri) ==
    LET m == matcher[b]
    IN  \/ uri \in m.exact
        \/ TriesMatch(b, m, uri)
        \/ \E k \in DOMAIN m.regex : RegexMatches(m.regex[k], uri)
        \/ Digest("Sha256", uri) \in DOMAIN m.hash

\* get_matching_patterns: labels in the order the kinds are tried.
Label(kind, texts) == [i \in DOMAIN texts |-> <<kind, texts[i]>>]
TrieLabels(b, m, uri) ==
    IF b = "tree"
    THEN Label("prefix", TreeSearch(m.prefix, uri)) \o Label("suffix", TreeSearch(m.suffix, Reverse(uri)))
    ELSE Label("prefix", QpSearch(m.prefix, Bytes(uri)))
         \o Label("suffix", QpSearch(m.suffix, Reverse(Bytes(uri))))
GetMatchingPatterns(b, uri) ==
    LET m == matcher[b]
        hits == Ascending({k \in DOMAIN m.regex : RegexMatches(m.regex[k], uri)})
        digest == Digest("Sha256", uri)
    IN  (IF uri \in m.exact THEN << <<"exact", uri>> >> ELSE <<>>)
        \o TrieLabels(b, m, uri)
        \o Label("regex", [i \in DOMAIN hits |-> m.regex[hits[i]]])
        \o (IF digest \in DOMAIN m.hash THEN << <<"hash", m.hash[digest]>> >> ELSE <<>>)

-----------------------------------------------------------------------------
\* An accepted pattern applies to a URI. An empty prefix or suffix is accepted
\* and never applies.
Applies(p, uri) ==
    CASE p.kind = "exact" -> uri = p.text
      [] p.kind = "prefix" -> p.text # <<>> /\ IsPrefix(p.text, uri)
      [] p.kind = "suffix" -> p.text # <<>> /\ IsSuffix(p.text, uri)
      [] p.kind = "regex" -> RegexMatches(p.text, uri)
      [] p.kind = "hash" -> p.hex.digest = Digest("Sha256", uri)

\* Whatever was added before or after it, an accepted pattern is matched, both
\* builds give the same labels in the same order, and a URI matches exactly
\* when it gets a label.
MatcherIsALinearScan ==
    \A uri \in MatcherTexts :
        LET hits == {p \in added : Applies(p, uri)}
        IN  /\ \A b \in Backends : Matches(b, uri) <=> hits # {}
            /\ GetMatchingPatterns("tree", uri) = GetMatchingPatterns("qp", uri)
            /\ {label[1] : label \in ToSet(GetMatchingPatterns("tree", uri))} = {p.kind : p \in hits}
=============================================================================
