----------------------------- MODULE PatternTrie -----------------------------
(***************************************************************************)
(* The two tries behind PrefixTrie and SuffixTrie. src/src/trie.rs has a   *)
(* tree of nodes keyed by character; src/src/trie_qp.rs wraps the qp-trie  *)
(* crate, a map keyed by bytes. A build has one of them.                   *)
(*                                                                         *)
(* A tree is [nodes, value, size]: a node is the text that leads to it,    *)
(* the root <<>>, and value is defined at the terminal nodes (is_terminal  *)
(* and value are always set and cleared together). A qp trie is            *)
(* [value, size], its keys sequences of bytes.                             *)
(***************************************************************************)
EXTENDS Naturals, Sequences, SequencesExt

CONSTANTS
    MaxDepth,  \* MAX_TRIE_DEPTH
    Chars,     \* the characters of texts and patterns
    BytesOf    \* BytesOf[c]: the bytes of character c

ASSUME PatternConstants ==
    /\ MaxDepth \in Nat
    /\ \A c \in Chars : BytesOf[c] # <<>>
    /\ \A c, d \in Chars : IsPrefix(BytesOf[c], BytesOf[d]) \/ IsSuffix(BytesOf[c], BytesOf[d]) => c = d

\* as_bytes.
Bytes(text) == FlattenSeq([i \in DOMAIN text |-> BytesOf[text[i]]])

\* The texts are bytes too, and begin or end with the bytes of a pattern exactly
\* when they begin or end with the pattern: in UTF-8 no character's bytes are
\* the beginning or the end of another's.
InUtf8(patterns, texts) ==
    \A text \in texts :
        /\ text \in Seq(Chars)
        /\ Bytes(text) \in Seq(0 .. 255)
        /\ \A p \in patterns :
              /\ IsPrefix(Bytes(p), Bytes(text)) <=> IsPrefix(p, text)
              /\ IsSuffix(Bytes(p), Bytes(text)) <=> IsSuffix(p, text)

With(f, key, v) == [k \in DOMAIN f \cup {key} |-> IF k = key THEN v ELSE f[k]]
Without(f, key) == [k \in DOMAIN f \ {key} |-> f[k]]

\* A finite set of numbers, from the smallest up: what a loop that skips all
\* other numbers goes through.
Ascending(S) == [i \in 1 .. Cardinality(S) |-> CHOOSE k \in S : Cardinality({j \in S : j <= k}) = i]

-----------------------------------------------------------------------------
EmptyTree == [nodes |-> {<<>>}, value |-> <<>>, size |-> 0]

\* insert: the missing nodes are made on the way down.
TreeInsert(t, key, v) ==
    [nodes |-> t.nodes \cup Prefixes(key),
     value |-> With(t.value, key, v),
     size |-> IF key \in DOMAIN t.value THEN t.size ELSE t.size + 1]

\* How far the walk along text gets: the nodes on the way are all there.
Reach(t, text) ==
    CHOOSE d \in 0 .. Len(text) :
        /\ \A k \in 1 .. d : SubSeq(text, 1, k) \in t.nodes
        /\ d < Len(text) => SubSeq(text, 1, d + 1) \notin t.nodes

\* search_prefix: the values of the terminal nodes on the way, the root aside.
TreeSearch(t, text) ==
    LET hits == Ascending({k \in 1 .. Reach(t, text) : SubSeq(text, 1, k) \in DOMAIN t.value})
    IN  [i \in DOMAIN hits |-> t.value[SubSeq(text, 1, hits[i])]]

\* contains_prefix: the root counts only when the text is used up at once.
TreeContains(t, text) ==
    \/ \E k \in 1 .. Reach(t, text) : SubSeq(text, 1, k) \in DOMAIN t.value
    \/ text = <<>> /\ <<>> \in DOMAIN t.value

\* get_all_patterns: the limit is on the bytes of a pattern.
TreePatterns(t) == {key \in DOMAIN t.value : Len(Bytes(key)) <= MaxDepth}

\* Mutant: the limit is off by one.
TreeRemovesShallow(t, key) == Len(key) < MaxDepth /\ key \in DOMAIN t.value

\* remove_recursive_static comes to nothing below the depth limit, which is on
\* characters.
TreeRemoves(t, key) == Len(key) <= MaxDepth /\ key \in DOMAIN t.value

Children(t, node) == {c \in t.nodes : Len(c) = Len(node) + 1 /\ IsPrefix(node, c)}

\* Mutant: on the way back every childless node goes, terminal or not.
TreeRemoveTerminals(t, key) ==
    LET Dead(j) == \A k \in j .. Len(key) : Children(t, SubSeq(key, 1, k)) \subseteq Prefixes(key)
        gone == {SubSeq(key, 1, j) : j \in {k \in 1 .. Len(key) : Dead(k)}}
    IN  IF ~TreeRemoves(t, key) THEN t
        ELSE [nodes |-> t.nodes \ gone,
              value |-> [k \in DOMAIN t.value \ (gone \cup {key}) |-> t.value[k]],
              size |-> t.size - 1]

\* Mutant: the emptied node itself goes, the nodes that led only to it stay.
TreeRemoveLeaf(t, key) ==
    IF ~TreeRemoves(t, key) THEN t
    ELSE [nodes |-> IF key # <<>> /\ Children(t, key) = {} THEN t.nodes \ {key} ELSE t.nodes,
          value |-> Without(t.value, key),
          size |-> t.size - 1]

\* remove: on the way back a node goes if it is not terminal and its only
\* child, if any, has just gone. The root stays.
TreeRemove(t, key) ==
    LET value == Without(t.value, key)
        Dead(j) == \A k \in j .. Len(key) :
                      /\ SubSeq(key, 1, k) \notin DOMAIN value
                      /\ Children(t, SubSeq(key, 1, k)) \subseteq Prefixes(key)
    IN  IF ~TreeRemoves(t, key) THEN t
        ELSE [nodes |-> t.nodes \ {SubSeq(key, 1, j) : j \in {k \in 1 .. Len(key) : Dead(k)}},
              value |-> value,
              size |-> t.size - 1]

-----------------------------------------------------------------------------
EmptyQp == [value |-> <<>>, size |-> 0]

QpInsert(t, key, v) ==
    [value |-> With(t.value, key, v),
     size |-> IF key \in DOMAIN t.value THEN t.size ELSE t.size + 1]

\* Mutant: the text itself is not looked up.
QpSearchProper(t, bytes) ==
    LET hits == Ascending({k \in 1 .. Len(bytes) - 1 : SubSeq(bytes, 1, k) \in DOMAIN t.value})
    IN  [i \in DOMAIN hits |-> t.value[SubSeq(bytes, 1, hits[i])]]

\* search_prefix: one lookup for each prefix of the text but the empty one.
QpSearch(t, bytes) ==
    LET hits == Ascending({k \in 1 .. Len(bytes) : SubSeq(bytes, 1, k) \in DOMAIN t.value})
    IN  [i \in DOMAIN hits |-> t.value[SubSeq(bytes, 1, hits[i])]]

QpContains(t, bytes) == \E k \in 1 .. Len(bytes) : SubSeq(bytes, 1, k) \in DOMAIN t.value

\* Mutant: remove always says it has removed something.
QpRemovesAnything(t, key) == TRUE

QpRemoves(t, key) == key \in DOMAIN t.value
QpRemove(t, key) ==
    IF ~QpRemoves(t, key) THEN t
    ELSE [value |-> Without(t.value, key), size |-> t.size - 1]
=============================================================================
