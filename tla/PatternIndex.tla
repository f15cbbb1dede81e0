---------------------------- MODULE PatternIndex ----------------------------
(***************************************************************************)
(* PrefixTrie and SuffixTrie of src/src/trie.rs and src/src/trie_qp.rs as  *)
(* their callers use them: the same calls are made on both.                *)
(***************************************************************************)
EXTENDS PatternTrie

CONSTANTS
    IndexPatterns,  \* the patterns that are inserted and removed
    IndexValues,    \* the values they map to
    IndexTexts      \* the texts that are looked up

ASSUME IndexConstants ==
    /\ IndexPatterns \subseteq IndexTexts
    /\ \A text \in IndexTexts : text \in Seq(Chars)

\* What PatternConstants makes of whole patterns: they are bytes, no fewer than
\* the characters, and different ones for different patterns.
ASSUME PatternBytes ==
    \A p \in IndexPatterns :
        /\ \A q \in IndexPatterns : Bytes(p) = Bytes(q) => p = q
        /\ Bytes(p) \in Seq(0 .. 255)
        /\ Len(p) <= Len(Bytes(p)) /\ Len(p) <= Len(Bytes(Reverse(p)))

ASSUME TextBytes == InUtf8(IndexPatterns, IndexTexts)

VARIABLES
    side,     \* "prefix" or "suffix": which of the two types this is
    tree,     \* the tree of trie.rs
    qp,       \* the qp trie of trie_qp.rs
    removed   \* what the last remove returned: [tree, qp]

indexVars == <<side, tree, qp, removed>>

\* SuffixTrie stores everything backwards.
Oriented(text) == IF side = "prefix" THEN text ELSE Reverse(text)
OrientedBytes(text) == IF side = "prefix" THEN Bytes(text) ELSE Reverse(Bytes(text))

IInit ==
    /\ side \in {"prefix", "suffix"}
    /\ tree = EmptyTree
    /\ qp = EmptyQp
    /\ removed = [tree |-> FALSE, qp |-> FALSE]

InsertPattern(p, v) ==
    /\ tree' = TreeInsert(tree, Oriented(p), v)
    /\ qp' = QpInsert(qp, OrientedBytes(p), v)
    /\ UNCHANGED <<side, removed>>

RemovePattern(p) ==
    /\ tree' = TreeRemove(tree, Oriented(p))
    /\ qp' = QpRemove(qp, OrientedBytes(p))
    /\ removed' = [tree |-> TreeRemoves(tree, Oriented(p)), qp |-> QpRemoves(qp, OrientedBytes(p))]
    /\ UNCHANGED side

\* The lookups: search_prefix or search_suffix, contains_prefix or
\* contains_suffix, and get_all_patterns.
TreeFinds(text) == TreeSearch(tree, Oriented(text))
TreeHas(text) == TreeContains(tree, Oriented(text))
QpFinds(text) == QpSearch(qp, OrientedBytes(text))
QpHas(text) == QpContains(qp, OrientedBytes(text))
TreeListed == {Oriented(key) : key \in TreePatterns(tree)}

INext == \E p \in IndexPatterns : RemovePattern(p) \/ \E v \in IndexValues : InsertPattern(p, v)

ISpec == IInit /\ [][INext]_indexVars

-----------------------------------------------------------------------------
\* Each is a map from patterns to values. What is stored is read back through
\* the conversion to keys, so no two patterns may share a key.
Stored(value, K(_)) == [p \in {q \in IndexPatterns : K(q) \in DOMAIN value} |-> value[K(p)]]

TreeMap == INSTANCE PatternMap WITH
    MapPatterns <- IndexPatterns, MapValues <- IndexValues,
    Permanent <- {p \in IndexPatterns : Len(p) > MaxDepth},
    map <- Stored(tree.value, Oriented), answer <- removed.tree
QpMap == INSTANCE PatternMap WITH
    MapPatterns <- IndexPatterns, MapValues <- IndexValues, Permanent <- {},
    map <- Stored(qp.value, OrientedBytes), answer <- removed.qp

\* The tree of trie.rs is a map, whatever is inserted and removed in whatever
\* order: a removal takes out its own pattern and no other, and says so. Only
\* a pattern longer than MAX_TRIE_DEPTH stays for good.
TreeIsAMap == TreeMap!MapSpec

\* The trie of trie_qp.rs is a map without that exception.
QpIsAMap == QpMap!MapSpec

\* Removal leaves no dead branch and cuts no live one: the nodes are the
\* beginnings of the stored patterns, and size counts those patterns.
TreeIsMinimal ==
    /\ tree.nodes = UNION {Prefixes(key) : key \in DOMAIN tree.value \cup {<<>>}}
    /\ tree.size = Cardinality(DOMAIN tree.value)
    /\ qp.size = Cardinality(DOMAIN qp.value)

\* A text has the pattern at the side this trie is for.
Has(text, p) == IF side = "prefix" THEN IsPrefix(p, text) ELSE IsSuffix(p, text)

\* A lookup finds every stored pattern the text begins (or ends) with, except
\* the empty pattern, in the order of their lengths.
FindsAll(found, value, K(_), text) ==
    LET hits == {p \in IndexPatterns \ {<<>>} : K(p) \in DOMAIN value /\ Has(text, p)}
    IN  found = [i \in 1 .. Cardinality(hits) |->
                    value[K(CHOOSE p \in hits : Cardinality({q \in hits : Len(q) <= Len(p)}) = i)]]

\* Characters or bytes, tree or map, it makes no difference to a lookup:
\* search_prefix and search_suffix find what is stored and nothing else, and
\* contains_prefix and contains_suffix agree with them.
LookupsFindAll ==
    \A text \in IndexTexts :
        /\ FindsAll(TreeFinds(text), tree.value, Oriented, text)
        /\ FindsAll(QpFinds(text), qp.value, OrientedBytes, text)
        /\ text # <<>> => TreeHas(text) = (TreeFinds(text) # <<>>)
        /\ QpHas(text) = (QpFinds(text) # <<>>)

\* What get_all_patterns lists and what remove can still take out differ: the
\* one limit counts bytes and the other characters. But nothing is listed that
\* cannot be removed.
ListedIsRemovable ==
    \A p \in TreeListed : TreeRemoves(tree, Oriented(p))
=============================================================================
