------------------------- MODULE PatternIndexProofs -------------------------
(***************************************************************************)
(* Proofs about the pattern indexes, for patterns of any length and any    *)
(* number of them.                                                         *)
(***************************************************************************)
EXTENDS PatternIndex, UriMatcher, SequenceTheorems, FiniteSetTheorems, WellFoundedInduction, TLAPS

\* A non-empty set of natural numbers with a bound has a greatest element.
LEMMA GreatestElement ==
    ASSUME NEW n \in Nat, NEW S, S \subseteq 0 .. n, S # {}
    PROVE  \E i \in S : \A j \in S : j <= i
<1> DEFINE T == {k \in Nat : \E i \in S : k + i = n}
<1>1. T \subseteq Nat /\ T # {}
  <2>1. PICK i \in S : i \in 0 .. n
    OBVIOUS
  <2>2. n - i \in Nat /\ (n - i) + i = n
    BY <2>1
  <2>3. n - i \in T
    BY <2>2
  <2>4. QED
    BY <2>3
<1>2. \E k \in T : \A j \in T : ~(<<j, k>> \in OpToRel(<, Nat))
  <2> HIDE DEF T
  <2> QED
    BY <1>1, NatLessThanWellFounded, WFMin, Zenon
<1>3. \A k, j \in Nat : ~(<<j, k>> \in OpToRel(<, Nat)) => k <= j
  BY DEF OpToRel
<1>4. PICK k \in T : \A j \in T : k <= j
  BY <1>1, <1>2, <1>3
<1>5. PICK i \in S : k + i = n
  BY <1>4
<1>6. ASSUME NEW j \in S PROVE j <= i
  <2>1. j \in 0 .. n /\ i \in 0 .. n
    OBVIOUS
  <2>2. n - j \in T
    BY <2>1
  <2>3. QED
    BY <1>4, <1>5, <2>1, <2>2
<1>7. QED
  BY <1>5, <1>6

\* The beginning of a text up to a length.
Up(text, d) == SubSeq(text, 1, d)

\* Beginnings of beginnings.
LEMMA Beginnings ==
    ASSUME NEW S, NEW text \in Seq(S), NEW d \in 0 .. Len(text)
    PROVE  /\ Up(text, d) \in Seq(S)
           /\ Len(Up(text, d)) = d
           /\ \A e \in 0 .. d : Up(Up(text, d), e) = Up(text, e)
           /\ Up(text, Len(text)) = text
           /\ Up(text, 0) = <<>>
<1>1. Len(text) \in Nat /\ d \in Nat
  OBVIOUS
<1>2. Up(text, d) \in Seq(S) /\ Len(Up(text, d)) = d
  BY <1>1 DEF Up
<1>3. ASSUME NEW e \in 0 .. d PROVE Up(Up(text, d), e) = Up(text, e)
  <2>1. Up(text, d) = [i \in 1 .. d |-> text[i]]
    BY <1>1 DEF Up
  <2>2. Up(text, e) = [i \in 1 .. e |-> text[i]]
    BY <1>1 DEF Up
  <2>3. Up(Up(text, d), e) = [i \in 1 .. e |-> Up(text, d)[i]]
    BY <1>1, <1>2 DEF Up
  <2>4. \A i \in 1 .. e : Up(text, d)[i] = text[i]
    BY <2>1, <1>1
  <2>5. QED
    BY <2>2, <2>3, <2>4
<1>4. Up(text, Len(text)) = text /\ Up(text, 0) = <<>>
  BY <1>1, SubSeqFull, SubSeqEmpty DEF Up
<1>5. QED
  BY <1>2, <1>3, <1>4

\* Two texts that begin alike up to d begin alike up to less.
LEMMA AlikeBelow ==
    ASSUME NEW S, NEW a \in Seq(S), NEW b \in Seq(S), NEW d \in 0 .. Len(a), d \in 0 .. Len(b),
           Up(a, d) = Up(b, d), NEW e \in 0 .. d
    PROVE  Up(a, e) = Up(b, e)
BY Beginnings

-----------------------------------------------------------------------------
\* The beginnings of the patterns of D, and the root.
Closure(D) == UNION {Prefixes(key) : key \in D \cup {<<>>}}

\* What is in it.
LEMMA InClosure ==
    ASSUME NEW D, NEW n
    PROVE  n \in Closure(D) <=> \E k \in D \cup {<<>>} : \E i \in 0 .. Len(k) : n = Up(k, i)
<1>1. n \in Closure(D) <=> \E k \in D \cup {<<>>} : n \in Prefixes(k)
  BY DEF Closure
<1>2. \A k : n \in Prefixes(k) <=> \E i \in 0 .. Len(k) : n = Up(k, i)
  BY DEF Prefixes, Up
<1>3. QED
  BY <1>1, <1>2

\* Without patterns there is only the root.
LEMMA NoPatternsNoNodes == Closure({}) = {<<>>}
<1>1. ASSUME NEW n PROVE n \in Closure({}) <=> n = <<>>
  <2>1. <<>> \in Seq(Chars) /\ Len(<<>>) = 0 /\ 0 .. 0 = {0}
    BY EmptySeq
  <2>2. Up(<<>>, 0) = <<>>
    BY <2>1, Beginnings
  <2>3. QED
    BY <2>1, <2>2, InClosure
<1>2. QED
  BY <1>1

\* TreeInsert makes the nodes that are missing and no others.
LEMMA ClosureOfMore ==
    ASSUME NEW D, NEW key
    PROVE  Closure(D \cup {key}) = Closure(D) \cup Prefixes(key)
<1>1. ASSUME NEW n PROVE n \in Closure(D \cup {key}) <=> n \in Closure(D) \cup Prefixes(key)
  BY Zenon DEF Closure
<1>2. QED
  BY <1>1

\* On the way back from a removal a node is dead: nothing is stored at it or
\* further down the way, and no other way leads on from there.
Dead(D, nodes, key, j) ==
    \A k \in j .. Len(key) :
        /\ Up(key, k) \notin D \ {key}
        /\ \A c \in nodes : Len(c) = k + 1 /\ Up(c, k) = Up(key, k) => c \in Prefixes(key)

\* A dead node is on the way to no other pattern.
LEMMA DeadIsUnused ==
    ASSUME NEW D, D \subseteq Seq(Chars), NEW key \in D, NEW other \in D, other # key,
           NEW j \in 1 .. Len(key), j <= Len(other), Up(other, j) = Up(key, j),
           Dead(D, Closure(D), key, j)
    PROVE  FALSE
<1>1. /\ key \in Seq(Chars) /\ other \in Seq(Chars)
      /\ Len(key) \in Nat /\ Len(other) \in Nat
  OBVIOUS
<1> DEFINE alike == {d \in 0 .. Len(key) : d <= Len(other) /\ Up(other, d) = Up(key, d)}
<1>2. PICK m \in alike : \A d \in alike : d <= m
  <2>1. j \in alike /\ alike \subseteq 0 .. Len(key)
    BY <1>1
  <2>2. QED
    <3> HIDE DEF alike
    <3> QED
      BY <1>1, <2>1, GreatestElement
<1>3. /\ m \in j .. Len(key) /\ m \in Nat /\ m \in 0 .. Len(other)
      /\ Up(other, m) = Up(key, m)
  BY <1>1, <1>2
<1>4. /\ Up(key, m) \notin D \ {key}
      /\ \A c \in Closure(D) : Len(c) = m + 1 /\ Up(c, m) = Up(key, m) => c \in Prefixes(key)
  BY <1>3 DEF Dead
<1>5. CASE m = Len(other)
  <2>1. Up(other, m) = other
    BY <1>1, <1>5, Beginnings
  <2>2. QED
    BY <1>3, <1>4, <2>1
<1>6. CASE m < Len(other)
  <2> DEFINE c == Up(other, m + 1)
  <2>1. m + 1 \in 0 .. Len(other) /\ m \in 0 .. m + 1
    BY <1>1, <1>3, <1>6
  <2>2. Len(c) = m + 1 /\ Up(c, m) = Up(key, m)
    BY <1>1, <1>3, <2>1, Beginnings
  <2>3. c \in Closure(D)
    BY <2>1, InClosure
  <2>4. c \in Prefixes(key)
    BY <1>4, <2>2, <2>3
  <2>5. PICK i \in 0 .. Len(key) : c = Up(key, i)
    BY <2>4 DEF Prefixes, Up
  <2>6. i = m + 1
    BY <1>1, <2>2, <2>5, Beginnings
  <2>7. m + 1 \in alike
    BY <1>1, <1>3, <1>6, <2>5, <2>6
  <2>8. QED
    BY <1>2, <1>3, <2>7
<1>7. QED
  BY <1>1, <1>3, <1>5, <1>6

\* TreeRemove cuts the dead nodes and no others, which leaves the beginnings
\* of the patterns that stay.
LEMMA ClosureOfFewer ==
    ASSUME NEW D, D \subseteq Seq(Chars), NEW key \in D
    PROVE  Closure(D \ {key})
             = Closure(D) \ {Up(key, j) : j \in {k \in 1 .. Len(key) : Dead(D, Closure(D), key, k)}}
<1> DEFINE gone == {Up(key, j) : j \in {k \in 1 .. Len(key) : Dead(D, Closure(D), key, k)}}
<1>0. /\ key \in Seq(Chars) /\ Len(key) \in Nat
      /\ <<>> \in Seq(Chars) /\ Len(<<>>) = 0
      /\ \A k \in D \cup {<<>>} : k \in Seq(Chars) /\ Len(k) \in Nat
  <2>1. <<>> \in Seq(Chars) /\ Len(<<>>) = 0
    BY EmptySeq
  <2>2. \A k \in D \cup {<<>>} : k \in Seq(Chars)
    BY <2>1
  <2>3. QED
    BY <2>1, <2>2
<1>1. ASSUME NEW n \in Closure(D \ {key}) PROVE n \in Closure(D) /\ n \notin gone
  <2>1. PICK k \in (D \ {key}) \cup {<<>>} : \E i \in 0 .. Len(k) : n = Up(k, i)
    BY <1>1, InClosure
  <2>2. PICK i \in 0 .. Len(k) : n = Up(k, i)
    BY <2>1
  <2>3. n \in Closure(D)
    BY <2>1, <2>2, InClosure
  <2>4. ASSUME n \in gone PROVE FALSE
    <3>1. PICK j \in 1 .. Len(key) : n = Up(key, j) /\ Dead(D, Closure(D), key, j)
      BY <2>4
    <3>2. j \in 0 .. Len(key) /\ j > 0
      BY <1>0, <3>1
    <3>3. Len(n) = j
      BY <1>0, <3>1, <3>2, Beginnings
    <3>4. Len(n) = i
      BY <1>0, <2>1, <2>2, Beginnings
    <3>5. k # <<>> /\ j <= Len(k) /\ Up(k, j) = Up(key, j)
      <4>1. i = j /\ Len(k) >= j
        BY <1>0, <2>1, <2>2, <3>2, <3>3, <3>4
      <4>2. k # <<>>
        BY <1>0, <3>2, <4>1
      <4>3. QED
        BY <2>2, <3>1, <4>1, <4>2
    <3>6. k \in D /\ k # key
      BY <2>1, <3>5
    <3>7. QED
      BY <3>1, <3>5, <3>6, DeadIsUnused
  <2>5. QED
    BY <2>3, <2>4
<1>2. ASSUME NEW n \in Closure(D), n \notin gone PROVE n \in Closure(D \ {key})
  <2>1. PICK k \in D \cup {<<>>} : \E i \in 0 .. Len(k) : n = Up(k, i)
    BY <1>2, InClosure
  <2>2. PICK i \in 0 .. Len(k) : n = Up(k, i)
    BY <2>1
  <2>3. CASE k # key
    BY <2>1, <2>2, <2>3, InClosure
  <2>4. CASE k = key /\ i = 0
    <3>1. n = Up(<<>>, 0)
      BY <1>0, <2>2, <2>4, Beginnings
    <3>2. <<>> \in (D \ {key}) \cup {<<>>} /\ 0 \in 0 .. Len(<<>>)
      BY <1>0
    <3>3. QED
      BY <3>1, <3>2, InClosure
  <2>5. CASE k = key /\ i # 0
    <3>1. i \in 1 .. Len(key) /\ n = Up(key, i) /\ ~Dead(D, Closure(D), key, i)
      BY <1>0, <1>2, <2>2, <2>5
    <3>2. PICK d \in i .. Len(key) :
            \/ Up(key, d) \in D \ {key}
            \/ \E c \in Closure(D) : Len(c) = d + 1 /\ Up(c, d) = Up(key, d) /\ c \notin Prefixes(key)
      BY <3>1 DEF Dead
    <3>3. d \in 0 .. Len(key) /\ i \in 0 .. d /\ d \in Nat
      BY <1>0, <3>1, <3>2
    <3>4. Up(Up(key, d), i) = n /\ Len(Up(key, d)) = d
      BY <1>0, <3>1, <3>3, Beginnings
    <3>5. CASE Up(key, d) \in D \ {key}
      <4>1. i \in 0 .. Len(Up(key, d))
        BY <3>3, <3>4
      <4>2. QED
        BY <3>4, <3>5, <4>1, InClosure
    <3>6. ASSUME NEW c \in Closure(D), Len(c) = d + 1, Up(c, d) = Up(key, d), c \notin Prefixes(key)
          PROVE  n \in Closure(D \ {key})
      <4>1. PICK h \in D \cup {<<>>} : \E e \in 0 .. Len(h) : c = Up(h, e)
        BY <3>6, InClosure
      <4>2. PICK e \in 0 .. Len(h) : c = Up(h, e)
        BY <4>1
      <4>3. e = d + 1
        BY <1>0, <3>6, <4>1, <4>2, Beginnings
      <4>4. h # key
        BY <3>6, <4>2 DEF Prefixes, Up
      <4>5. i \in 0 .. e /\ d \in 0 .. e /\ i \in 0 .. Len(h)
        BY <1>0, <3>3, <4>2, <4>3
      <4>6. Up(h, d) = Up(key, d)
        BY <1>0, <3>6, <4>1, <4>2, <4>5, Beginnings
      <4>7. d \in 0 .. Len(h)
        BY <1>0, <4>2, <4>5
      <4>8. n = Up(h, i)
        BY <1>0, <3>1, <3>3, <4>1, <4>6, <4>7, AlikeBelow
      <4>9. QED
        BY <4>1, <4>4, <4>5, <4>8, InClosure
    <3>7. QED
      BY <3>2, <3>5, <3>6
  <2>6. QED
    BY <2>3, <2>4, <2>5
<1>3. QED
  BY <1>1, <1>2

-----------------------------------------------------------------------------
\* The keys of the two indexes, as functions of the pattern.
TreeKeys == [p \in IndexPatterns |-> Oriented(p)]
QpKeys == [p \in IndexPatterns |-> OrientedBytes(p)]

\* An index holds values under keys of patterns, and a finite number of them.
Filled(value, keys) ==
    /\ value \in [DOMAIN value -> IndexValues]
    /\ \A k \in DOMAIN value : \E p \in IndexPatterns : k = keys[p]
    /\ IsFiniteSet(DOMAIN value)

\* The inductive invariant.
IndexInv ==
    /\ side \in {"prefix", "suffix"}
    /\ Filled(tree.value, TreeKeys)
    /\ Filled(qp.value, QpKeys)
    /\ TreeIsMinimal

\* Written backwards a text is as long as it was, and written backwards twice
\* it is what it was.
LEMMA Backwards ==
    ASSUME NEW S, NEW a \in Seq(S)
    PROVE  /\ Reverse(a) \in Seq(S)
           /\ Len(Reverse(a)) = Len(a)
           /\ Reverse(Reverse(a)) = a
<1>1. Len(a) \in Nat /\ DOMAIN a = 1 .. Len(a) /\ \A i \in 1 .. Len(a) : a[i] \in S
  OBVIOUS
<1>2. \A i \in 1 .. Len(a) : (Len(a) - i) + 1 \in 1 .. Len(a)
  BY <1>1
<1>3. Reverse(a) \in Seq(S) /\ Len(Reverse(a)) = Len(a)
  <2>1. Reverse(a) \in [1 .. Len(a) -> S]
    BY <1>1, <1>2 DEF Reverse
  <2>2. QED
    BY <1>1, <2>1, IsASeq
<1>4. Reverse(Reverse(a)) = a
  <2> DEFINE r == Reverse(a)
  <2>1. ASSUME NEW i \in 1 .. Len(a) PROVE Reverse(r)[i] = a[i]
    <3>1. (Len(a) - ((Len(a) - i) + 1)) + 1 = i
      BY <1>1
    <3>2. r[(Len(a) - i) + 1] = a[i]
      BY <1>2, <3>1 DEF Reverse
    <3>3. QED
      <4> HIDE DEF r
      <4> QED
        BY <1>3, <3>2 DEF Reverse, r
  <2>2. Reverse(r) = [i \in 1 .. Len(a) |-> Reverse(r)[i]]
    <3> HIDE DEF r
    <3> QED
      BY <1>3 DEF Reverse, r
  <2>3. a = [i \in 1 .. Len(a) |-> a[i]]
    BY <1>1
  <2>4. QED
    BY <2>1, <2>2, <2>3, Zenon
<1>5. QED
  BY <1>3, <1>4

\* Different patterns have different keys; the tree's are texts as long as the
\* pattern.
LEMMA KeysDiffer ==
    ASSUME side \in {"prefix", "suffix"}
    PROVE  \A p \in IndexPatterns :
             /\ Oriented(p) \in Seq(Chars) /\ Len(Oriented(p)) = Len(p) /\ Len(p) \in Nat
             /\ \A q \in IndexPatterns : Oriented(p) = Oriented(q) => p = q
             /\ \A q \in IndexPatterns : OrientedBytes(p) = OrientedBytes(q) => p = q
<1> SUFFICES ASSUME NEW p \in IndexPatterns, NEW q \in IndexPatterns
             PROVE  /\ Oriented(p) \in Seq(Chars) /\ Len(Oriented(p)) = Len(p) /\ Len(p) \in Nat
                    /\ Oriented(p) = Oriented(q) => p = q
                    /\ OrientedBytes(p) = OrientedBytes(q) => p = q
  OBVIOUS
<1>1. /\ p \in Seq(Chars) /\ q \in Seq(Chars) /\ Len(p) \in Nat
      /\ Bytes(p) \in Seq(0 .. 255) /\ Bytes(q) \in Seq(0 .. 255)
      /\ Bytes(p) = Bytes(q) => p = q
  BY IndexConstants, PatternBytes
<1>2. Reverse(p) \in Seq(Chars) /\ Len(Reverse(p)) = Len(p) /\ (Reverse(p) = Reverse(q) => p = q)
  <2>1. Reverse(Reverse(p)) = p /\ Reverse(Reverse(q)) = q
    BY <1>1, Backwards
  <2>2. QED
    BY <1>1, <2>1, Backwards
<1>3. Reverse(Bytes(p)) = Reverse(Bytes(q)) => Bytes(p) = Bytes(q)
  <2>1. Reverse(Reverse(Bytes(p))) = Bytes(p) /\ Reverse(Reverse(Bytes(q))) = Bytes(q)
    BY <1>1, Backwards
  <2>2. QED
    BY <2>1
<1>4. QED
  BY <1>1, <1>2, <1>3 DEF Oriented, OrientedBytes

\* One more key in a map, or a new value under an old one.
LEMMA FilledWith ==
    ASSUME NEW value, NEW keys, Filled(value, keys), NEW p \in IndexPatterns,
           NEW key, key = keys[p], NEW v \in IndexValues
    PROVE  /\ Filled(With(value, key, v), keys)
           /\ DOMAIN With(value, key, v) = DOMAIN value \cup {key}
           /\ key \in DOMAIN value =>
                Cardinality(DOMAIN With(value, key, v)) = Cardinality(DOMAIN value)
           /\ key \notin DOMAIN value =>
                Cardinality(DOMAIN With(value, key, v)) = Cardinality(DOMAIN value) + 1
<1>1. DOMAIN With(value, key, v) = DOMAIN value \cup {key}
  BY DEF With
<1>2. With(value, key, v) \in [DOMAIN value \cup {key} -> IndexValues]
  BY DEF With, Filled
<1>3. /\ IsFiniteSet(DOMAIN value \cup {key})
      /\ Cardinality(DOMAIN value \cup {key})
           = IF key \in DOMAIN value THEN Cardinality(DOMAIN value)
             ELSE Cardinality(DOMAIN value) + 1
  BY FS_AddElement, FS_CardinalityType DEF Filled
<1>4. QED
  BY <1>1, <1>2, <1>3 DEF Filled

\* The same for a key that is taken out.
LEMMA FilledWithout ==
    ASSUME NEW value, NEW keys, Filled(value, keys), NEW key \in DOMAIN value
    PROVE  /\ Filled(Without(value, key), keys)
           /\ DOMAIN Without(value, key) = DOMAIN value \ {key}
           /\ Cardinality(DOMAIN value) \in Nat
           /\ Cardinality(DOMAIN Without(value, key)) = Cardinality(DOMAIN value) - 1
<1>1. DOMAIN Without(value, key) = DOMAIN value \ {key}
  BY DEF Without
<1>2. Without(value, key) \in [DOMAIN value \ {key} -> IndexValues]
  BY DEF Without, Filled
<1>3. /\ IsFiniteSet(DOMAIN value \ {key})
      /\ Cardinality(DOMAIN value) \in Nat
      /\ Cardinality(DOMAIN value \ {key}) = Cardinality(DOMAIN value) - 1
  BY FS_RemoveElement, FS_CardinalityType DEF Filled
<1>4. QED
  BY <1>1, <1>2, <1>3 DEF Filled

\* insert and remove on the tree keep it the tree of its patterns' beginnings.
LEMMA TreeStaysMinimal ==
    ASSUME IndexInv, NEW p \in IndexPatterns
    PROVE  /\ \A v \in IndexValues : TreeInsert(tree, Oriented(p), v).nodes
                  = Closure(DOMAIN tree.value \cup {Oriented(p)})
           /\ TreeRemoves(tree, Oriented(p)) =>
                TreeRemove(tree, Oriented(p)).nodes = Closure(DOMAIN tree.value \ {Oriented(p)})
<1> DEFINE key == Oriented(p)
           D == DOMAIN tree.value
<1>1. tree.nodes = Closure(D)
  BY DEF IndexInv, TreeIsMinimal, Closure
<1>2. D \subseteq Seq(Chars) /\ key \in Seq(Chars)
  BY KeysDiffer DEF IndexInv, Filled, TreeKeys
<1>3. ASSUME NEW v \in IndexValues PROVE TreeInsert(tree, key, v).nodes = Closure(D \cup {key})
  BY <1>1, ClosureOfMore DEF TreeInsert
<1>4. ASSUME TreeRemoves(tree, key) PROVE TreeRemove(tree, key).nodes = Closure(D \ {key})
  <2> DEFINE Cut(j) == \A k \in j .. Len(key) :
                          /\ SubSeq(key, 1, k) \notin DOMAIN Without(tree.value, key)
                          /\ Children(tree, SubSeq(key, 1, k)) \subseteq Prefixes(key)
  <2>1. key \in D /\ DOMAIN Without(tree.value, key) = D \ {key} /\ Len(key) \in Nat
    BY <1>2, <1>4 DEF TreeRemoves, Without
  <2>2. TreeRemove(tree, key).nodes
          = tree.nodes \ {SubSeq(key, 1, j) : j \in {k \in 1 .. Len(key) : Cut(k)}}
    BY <1>4 DEF TreeRemove
  <2>3. ASSUME NEW j \in 1 .. Len(key), NEW k \in j .. Len(key)
        PROVE  Children(tree, SubSeq(key, 1, k)) \subseteq Prefixes(key)
                 <=> \A c \in tree.nodes : Len(c) = k + 1 /\ Up(c, k) = Up(key, k) => c \in Prefixes(key)
    <3>1. k \in 0 .. Len(key) /\ k \in Nat
      BY <2>1
    <3>2. Len(Up(key, k)) = k /\ Up(Up(key, k), k) = Up(key, k)
      BY <1>2, <3>1, Beginnings
    <3>3. \A c \in tree.nodes :
            (Len(c) = Len(Up(key, k)) + 1 /\ IsPrefix(Up(key, k), c)) <=> (Len(c) = k + 1 /\ Up(c, k) = Up(key, k))
      BY <3>1, <3>2 DEF IsPrefix, Up
    <3>4. QED
      BY <3>3 DEF Children, Up
  <2>4. ASSUME NEW j \in 1 .. Len(key) PROVE Cut(j) <=> Dead(D, Closure(D), key, j)
    BY <1>1, <2>1, <2>3, <2>4 DEF Dead, Up
  <2>5. {SubSeq(key, 1, j) : j \in {k \in 1 .. Len(key) : Cut(k)}}
          = {Up(key, j) : j \in {k \in 1 .. Len(key) : Dead(D, Closure(D), key, k)}}
    BY <2>4 DEF Up
  <2>6. QED
    BY <1>1, <1>2, <2>1, <2>2, <2>5, ClosureOfFewer
<1>5. QED
  BY <1>3, <1>4

-----------------------------------------------------------------------------
\* Two empty indexes.
LEMMA InitIndexInv ==
    ASSUME IInit
    PROVE  IndexInv
<1>1. /\ tree.value = <<>> /\ tree.nodes = {<<>>} /\ tree.size = 0
      /\ qp.value = <<>> /\ qp.size = 0
  BY DEF IInit, EmptyTree, EmptyQp
<1>2. DOMAIN <<>> = {} /\ <<>> \in [{} -> IndexValues]
  OBVIOUS
<1>3. IsFiniteSet({}) /\ Cardinality({}) = 0
  BY FS_EmptySet
<1>4. tree.nodes = Closure({})
  BY <1>1, NoPatternsNoNodes
<1>5. Filled(tree.value, TreeKeys) /\ Filled(qp.value, QpKeys)
  BY <1>1, <1>2, <1>3 DEF Filled
<1>6. TreeIsMinimal
  BY <1>1, <1>2, <1>3, <1>4 DEF TreeIsMinimal, Closure
<1>7. QED
  BY <1>5, <1>6 DEF IndexInv, IInit

\* insert on both.
LEMMA InsertIndexInv ==
    ASSUME IndexInv, NEW p \in IndexPatterns, NEW v \in IndexValues, InsertPattern(p, v)
    PROVE  IndexInv'
<1>1. /\ tree'.value = With(tree.value, TreeKeys[p], v)
      /\ tree'.nodes = Closure(DOMAIN tree.value \cup {TreeKeys[p]})
      /\ tree'.size = IF TreeKeys[p] \in DOMAIN tree.value THEN tree.size ELSE tree.size + 1
  <2>1. tree'.nodes = Closure(DOMAIN tree.value \cup {Oriented(p)})
    BY TreeStaysMinimal DEF InsertPattern
  <2>2. QED
    BY <2>1 DEF InsertPattern, TreeInsert, TreeKeys
<1>2. /\ qp'.value = With(qp.value, QpKeys[p], v)
      /\ qp'.size = IF QpKeys[p] \in DOMAIN qp.value THEN qp.size ELSE qp.size + 1
  BY DEF InsertPattern, QpInsert, QpKeys
<1>3. side' = side /\ TreeKeys' = TreeKeys /\ QpKeys' = QpKeys
  BY DEF InsertPattern, TreeKeys, QpKeys, Oriented, OrientedBytes
<1>4. /\ Filled(tree'.value, TreeKeys)
      /\ DOMAIN tree'.value = DOMAIN tree.value \cup {TreeKeys[p]}
      /\ tree'.size = Cardinality(DOMAIN tree'.value)
  <2>1. Filled(tree.value, TreeKeys) /\ tree.size = Cardinality(DOMAIN tree.value)
    BY DEF IndexInv, TreeIsMinimal
  <2>2. /\ Filled(With(tree.value, TreeKeys[p], v), TreeKeys)
        /\ DOMAIN With(tree.value, TreeKeys[p], v) = DOMAIN tree.value \cup {TreeKeys[p]}
        /\ TreeKeys[p] \in DOMAIN tree.value =>
             Cardinality(DOMAIN With(tree.value, TreeKeys[p], v)) = Cardinality(DOMAIN tree.value)
        /\ TreeKeys[p] \notin DOMAIN tree.value =>
             Cardinality(DOMAIN With(tree.value, TreeKeys[p], v)) = Cardinality(DOMAIN tree.value) + 1
    <3> DEFINE value == tree.value
               keys == TreeKeys
               key == keys[p]
    <3>1. Filled(value, keys)
      BY <2>1
    <3> HIDE DEF value, keys, key
    <3>2. /\ Filled(With(value, key, v), keys)
          /\ DOMAIN With(value, key, v) = DOMAIN value \cup {key}
          /\ key \in DOMAIN value =>
               Cardinality(DOMAIN With(value, key, v)) = Cardinality(DOMAIN value)
          /\ key \notin DOMAIN value =>
               Cardinality(DOMAIN With(value, key, v)) = Cardinality(DOMAIN value) + 1
      BY <3>1, FilledWith DEF key
    <3>3. QED
      BY <3>2 DEF value, keys, key
  <2>3. QED
    BY <1>1, <2>1, <2>2
<1>5. /\ Filled(qp'.value, QpKeys)
      /\ qp'.size = Cardinality(DOMAIN qp'.value)
  <2>1. Filled(qp.value, QpKeys) /\ qp.size = Cardinality(DOMAIN qp.value)
    BY DEF IndexInv, TreeIsMinimal
  <2>2. /\ Filled(With(qp.value, QpKeys[p], v), QpKeys)
        /\ DOMAIN With(qp.value, QpKeys[p], v) = DOMAIN qp.value \cup {QpKeys[p]}
        /\ QpKeys[p] \in DOMAIN qp.value =>
             Cardinality(DOMAIN With(qp.value, QpKeys[p], v)) = Cardinality(DOMAIN qp.value)
        /\ QpKeys[p] \notin DOMAIN qp.value =>
             Cardinality(DOMAIN With(qp.value, QpKeys[p], v)) = Cardinality(DOMAIN qp.value) + 1
    BY <2>1, FilledWith
  <2>3. QED
    BY <1>2, <2>1, <2>2
<1>6. TreeIsMinimal'
  BY <1>1, <1>4, <1>5 DEF TreeIsMinimal, Closure
<1>7. Filled(tree.value, TreeKeys)' /\ Filled(qp.value, QpKeys)'
  BY <1>3, <1>4, <1>5 DEF Filled
<1>8. QED
  BY <1>3, <1>6, <1>7 DEF IndexInv

\* remove on both, each of which may or may not take something out.
LEMMA RemoveIndexInv ==
    ASSUME IndexInv, NEW p \in IndexPatterns, RemovePattern(p)
    PROVE  IndexInv'
<1> DEFINE key == Oriented(p)
           bytes == OrientedBytes(p)
<1>1. side' = side /\ TreeKeys' = TreeKeys /\ QpKeys' = QpKeys
  BY DEF RemovePattern, TreeKeys, QpKeys, Oriented, OrientedBytes
<1>2. /\ Filled(tree'.value, TreeKeys)
      /\ tree'.nodes = Closure(DOMAIN tree'.value)
      /\ tree'.size = Cardinality(DOMAIN tree'.value)
  <2>1. CASE TreeRemoves(tree, key)
    <3>1. /\ tree'.value = Without(tree.value, key)
          /\ tree'.nodes = Closure(DOMAIN tree.value \ {key})
          /\ tree'.size = tree.size - 1
          /\ key \in DOMAIN tree.value
      <4>1. tree'.nodes = Closure(DOMAIN tree.value \ {key})
        BY <2>1, TreeStaysMinimal DEF RemovePattern
      <4>2. QED
        BY <2>1, <4>1 DEF RemovePattern, TreeRemove, TreeRemoves
    <3>2. Filled(tree.value, TreeKeys) /\ tree.size = Cardinality(DOMAIN tree.value)
      BY DEF IndexInv, TreeIsMinimal
    <3>3. /\ Filled(Without(tree.value, key), TreeKeys)
          /\ DOMAIN Without(tree.value, key) = DOMAIN tree.value \ {key}
          /\ Cardinality(DOMAIN Without(tree.value, key)) = Cardinality(DOMAIN tree.value) - 1
      BY <3>1, <3>2, FilledWithout
    <3>4. QED
      BY <3>1, <3>2, <3>3
  <2>2. CASE ~TreeRemoves(tree, key)
    <3>1. tree' = tree
      BY <2>2 DEF RemovePattern, TreeRemove
    <3>2. QED
      BY <3>1 DEF IndexInv, TreeIsMinimal, Closure
  <2>3. QED
    BY <2>1, <2>2
<1>3. /\ Filled(qp'.value, QpKeys)
      /\ qp'.size = Cardinality(DOMAIN qp'.value)
  <2>1. CASE QpRemoves(qp, bytes)
    <3>1. qp'.value = Without(qp.value, bytes) /\ qp'.size = qp.size - 1 /\ bytes \in DOMAIN qp.value
      BY <2>1 DEF RemovePattern, QpRemove, QpRemoves
    <3>2. Filled(qp.value, QpKeys) /\ qp.size = Cardinality(DOMAIN qp.value)
      BY DEF IndexInv, TreeIsMinimal
    <3>3. /\ Filled(Without(qp.value, bytes), QpKeys)
          /\ Cardinality(DOMAIN Without(qp.value, bytes)) = Cardinality(DOMAIN qp.value) - 1
      BY <3>1, <3>2, FilledWithout
    <3>4. QED
      BY <3>1, <3>2, <3>3
  <2>2. CASE ~QpRemoves(qp, bytes)
    BY <2>2 DEF RemovePattern, QpRemove, IndexInv, TreeIsMinimal
  <2>3. QED
    BY <2>1, <2>2
<1>4. TreeIsMinimal'
  BY <1>2, <1>3 DEF TreeIsMinimal, Closure
<1>5. Filled(tree.value, TreeKeys)' /\ Filled(qp.value, QpKeys)'
  BY <1>1, <1>2, <1>3 DEF Filled
<1>6. QED
  BY <1>1, <1>4, <1>5 DEF IndexInv

\* The inductive invariant holds of every behaviour.
THEOREM IndexInvariant == ISpec => []IndexInv
<1>1. IInit => IndexInv
  BY InitIndexInv
<1>2. IndexInv /\ [INext]_indexVars => IndexInv'
  <2> SUFFICES ASSUME IndexInv, [INext]_indexVars PROVE IndexInv'
    OBVIOUS
  <2>1. CASE INext
    BY <2>1, InsertIndexInv, RemoveIndexInv DEF INext
  <2>2. CASE UNCHANGED indexVars
    BY <2>2 DEF IndexInv, indexVars, TreeIsMinimal, Filled, TreeKeys, QpKeys, Oriented, OrientedBytes
  <2>3. QED
    BY <2>1, <2>2
<1>3. QED
  BY <1>1, <1>2, PTL DEF ISpec

\* Removing leaves no dead branch in the tree of trie.rs and cuts no live one,
\* and both tries count what they hold.
THEOREM TreesAreMinimal == ISpec => []TreeIsMinimal
<1>1. IndexInv => TreeIsMinimal
  BY DEF IndexInv
<1>2. QED
  BY <1>1, IndexInvariant, PTL

\* Whatever get_all_patterns lists, remove can take out, although the limit of
\* the one counts bytes and the limit of the other characters.
THEOREM ListedAreRemovable == ISpec => []ListedIsRemovable
<1>1. IndexInv => ListedIsRemovable
  <2> SUFFICES ASSUME IndexInv, NEW key \in TreePatterns(tree)
               PROVE  TreeRemoves(tree, Oriented(Oriented(key)))
    BY DEF ListedIsRemovable, TreeListed
  <2>1. PICK p \in IndexPatterns : key = Oriented(p)
    BY DEF IndexInv, Filled, TreePatterns, TreeKeys
  <2>2. key \in DOMAIN tree.value /\ Len(Bytes(key)) <= MaxDepth
    BY DEF TreePatterns
  <2>3. Len(p) <= Len(Bytes(key)) /\ Len(Bytes(key)) \in Nat
    BY <2>1, PatternBytes DEF Oriented
  <2>4. key \in Seq(Chars) /\ Len(key) = Len(p) /\ Len(p) \in Nat
    BY <2>1, KeysDiffer DEF IndexInv
  <2>5. Oriented(Oriented(key)) = key
    BY <2>4, Backwards DEF Oriented
  <2>6. QED
    BY <2>2, <2>3, <2>4, <2>5, PatternConstants DEF TreeRemoves
<1>2. QED
  BY <1>1, IndexInvariant, PTL

-----------------------------------------------------------------------------
\* The members of S that f puts no higher than a.
Below(S, f, a) == {b \in S : f[b] <= f[a]}

\* In a finite set that f numbers without repetition there is exactly one i-th
\* member.
LEMMA IthMember ==
    ASSUME NEW S, IsFiniteSet(S), NEW f \in [S -> Nat], \A a, b \in S : f[a] = f[b] => a = b
    PROVE  /\ \A i \in 1 .. Cardinality(S) : \E a \in S : Cardinality(Below(S, f, a)) = i
           /\ \A a, b \in S : Cardinality(Below(S, f, a)) = Cardinality(Below(S, f, b)) => a = b
<1> DEFINE n == Cardinality(S)
           rank == [a \in S |-> Cardinality(Below(S, f, a))]
<1>1. n \in Nat
  BY FS_CardinalityType
<1>2. \A a \in S : IsFiniteSet(Below(S, f, a)) /\ Cardinality(Below(S, f, a)) \in 1 .. n
  <2> SUFFICES ASSUME NEW a \in S
               PROVE  IsFiniteSet(Below(S, f, a)) /\ Cardinality(Below(S, f, a)) \in 1 .. n
    OBVIOUS
  <2>1. Below(S, f, a) \in SUBSET S /\ a \in Below(S, f, a)
    BY DEF Below
  <2>2. IsFiniteSet(Below(S, f, a)) /\ Cardinality(Below(S, f, a)) <= n
    BY <2>1, FS_Subset
  <2>3. Cardinality(Below(S, f, a)) \in Nat
    BY <2>2, FS_CardinalityType
  <2>4. Cardinality(Below(S, f, a)) # 0
    BY <2>1, <2>2, FS_EmptySet
  <2>5. QED
    BY <1>1, <2>2, <2>3, <2>4
<1>3. \A a, b \in S : Cardinality(Below(S, f, a)) = Cardinality(Below(S, f, b)) => a = b
  <2>1. ASSUME NEW a \in S, NEW b \in S, f[a] <= f[b],
               Cardinality(Below(S, f, a)) = Cardinality(Below(S, f, b))
        PROVE  a = b
    <3>1. Below(S, f, a) \in SUBSET Below(S, f, b)
      BY <2>1 DEF Below
    <3>2. Below(S, f, b) = Below(S, f, a)
      BY <1>2, <2>1, <3>1, FS_Subset
    <3>3. f[b] <= f[a]
      BY <3>2 DEF Below
    <3>4. QED
      BY <2>1, <3>3
  <2>2. \A a, b \in S : f[a] <= f[b] \/ f[b] <= f[a]
    OBVIOUS
  <2>3. QED
    BY <2>1, <2>2
<1>4. IsFiniteSet(1 .. n) /\ Cardinality(1 .. n) = n
  BY <1>1, FS_Interval
<1>5. rank \in Injection(S, 1 .. n)
  BY <1>2, <1>3 DEF Injection, IsInjective
<1>6. rank \in Surjection(S, 1 .. n)
  <2> HIDE DEF rank
  <2> QED
    BY <1>4, <1>5, FS_Injection
<1>7. \A i \in 1 .. n : \E a \in S : Cardinality(Below(S, f, a)) = i
  BY <1>6 DEF Surjection
<1>8. QED
  BY <1>3, <1>7

\* The members of a set of numbers up to k.
UpTo(S, k) == {j \in S : j <= k}

\* Ascending lists every member once.
LEMMA AscendingLists ==
    ASSUME NEW S, IsFiniteSet(S), S \subseteq Nat
    PROVE  /\ Cardinality(S) \in Nat
           /\ DOMAIN Ascending(S) = 1 .. Cardinality(S)
           /\ \A i \in DOMAIN Ascending(S) :
                /\ Ascending(S)[i] \in S
                /\ Cardinality(UpTo(S, Ascending(S)[i])) = i
           /\ \A k \in S : \E i \in DOMAIN Ascending(S) : Ascending(S)[i] = k
           /\ \A k, l \in S : Cardinality(UpTo(S, k)) = Cardinality(UpTo(S, l)) => k = l
<1> DEFINE f == [k \in S |-> k]
<1>1. f \in [S -> Nat] /\ \A a, b \in S : f[a] = f[b] => a = b
  OBVIOUS
<1>2. \A k \in S : Below(S, f, k) = UpTo(S, k)
  BY DEF Below, UpTo
<1>3. /\ \A i \in 1 .. Cardinality(S) : \E a \in S : Cardinality(Below(S, f, a)) = i
      /\ \A a, b \in S : Cardinality(Below(S, f, a)) = Cardinality(Below(S, f, b)) => a = b
  <2> HIDE DEF f
  <2> QED
    BY <1>1, IthMember
<1>4. Cardinality(S) \in Nat
  BY FS_CardinalityType
<1>5. \A k, l \in S : Cardinality(UpTo(S, k)) = Cardinality(UpTo(S, l)) => k = l
  BY <1>2, <1>3
<1>6. ASSUME NEW i \in 1 .. Cardinality(S)
      PROVE  /\ Ascending(S)[i] \in S
             /\ Cardinality(UpTo(S, Ascending(S)[i])) = i
  <2>1. \E k \in S : Cardinality(UpTo(S, k)) = i
    BY <1>2, <1>3
  <2>2. Ascending(S)[i] = CHOOSE k \in S : Cardinality(UpTo(S, k)) = i
    BY DEF Ascending, UpTo
  <2>3. QED
    BY <2>1, <2>2
<1>7. DOMAIN Ascending(S) = 1 .. Cardinality(S)
  BY DEF Ascending
<1>8. ASSUME NEW k \in S PROVE \E i \in DOMAIN Ascending(S) : Ascending(S)[i] = k
  <2> DEFINE i == Cardinality(UpTo(S, k))
  <2>1. i \in 1 .. Cardinality(S)
    <3>1. UpTo(S, k) \in SUBSET S /\ k \in UpTo(S, k)
      BY DEF UpTo
    <3>2. IsFiniteSet(UpTo(S, k)) /\ i <= Cardinality(S)
      BY <3>1, FS_Subset
    <3>3. i \in Nat /\ i # 0
      BY <3>1, <3>2, FS_CardinalityType, FS_EmptySet
    <3>4. QED
      BY <1>4, <3>2, <3>3
  <2>2. QED
    BY <1>5, <1>6, <1>7, <2>1
<1>9. QED
  BY <1>4, <1>5, <1>6, <1>7, <1>8

\* The i-th of some patterns, in the order of their lengths.
Ith(hits, i) == CHOOSE p \in hits : Cardinality({q \in hits : Len(q) <= Len(p)}) = i

\* Patterns that are found at depths f, in the order of their lengths: the i-th
\* depth is that of the i-th pattern.
LEMMA DepthsInOrder ==
    ASSUME NEW hits, IsFiniteSet(hits), NEW f \in [hits -> Nat],
           \A p, q \in hits : f[p] = f[q] => p = q,
           \A p, q \in hits : Len(q) <= Len(p) <=> f[q] <= f[p],
           NEW depths, \A p \in hits : f[p] \in depths,
           \A k \in depths : \E p \in hits : k = f[p]
    PROVE  /\ IsFiniteSet(depths) /\ depths \subseteq Nat
           /\ Cardinality(depths) = Cardinality(hits)
           /\ \A i \in 1 .. Cardinality(hits) :
                Ith(hits, i) \in hits /\ Ascending(depths)[i] = f[Ith(hits, i)]
<1>1. depths \subseteq Nat /\ depths = {f[p] : p \in hits}
  OBVIOUS
<1>2. ASSUME NEW A, A \subseteq hits
      PROVE  IsFiniteSet({f[p] : p \in A}) /\ Cardinality({f[p] : p \in A}) = Cardinality(A)
  <2> DEFINE g == [p \in A |-> f[p]]
             T == {f[p] : p \in A}
  <2>1. IsFiniteSet(A)
    BY <1>2, FS_Subset
  <2>2. g \in Bijection(A, T)
    BY <1>2 DEF Bijection, Injection, Surjection, IsInjective
  <2>3. ExistsBijection(A, T)
    <3> HIDE DEF g, T
    <3> QED
      BY <2>2 DEF ExistsBijection
  <2>4. QED
    BY <2>1, <2>3, FS_Bijection
<1>3. IsFiniteSet(depths) /\ Cardinality(depths) = Cardinality(hits)
  BY <1>1, <1>2
<1>4. ASSUME NEW p \in hits
      PROVE  /\ {q \in hits : Len(q) <= Len(p)} = Below(hits, f, p)
             /\ Cardinality(UpTo(depths, f[p])) = Cardinality(Below(hits, f, p))
  <2>1. {q \in hits : Len(q) <= Len(p)} = Below(hits, f, p)
    BY DEF Below
  <2>2. UpTo(depths, f[p]) = {f[q] : q \in Below(hits, f, p)}
    BY <1>1 DEF Below, UpTo
  <2>3. Below(hits, f, p) \subseteq hits
    BY DEF Below
  <2>4. QED
    BY <1>2, <2>1, <2>2, <2>3
<1>5. ASSUME NEW i \in 1 .. Cardinality(hits)
      PROVE  Ith(hits, i) \in hits /\ Ascending(depths)[i] = f[Ith(hits, i)]
  <2> DEFINE p == Ith(hits, i)
             k == Ascending(depths)[i]
  <2>1. \E q \in hits : Cardinality(Below(hits, f, q)) = i
    BY IthMember
  <2>2. \E q \in hits : Cardinality({r \in hits : Len(r) <= Len(q)}) = i
    BY <1>4, <2>1
  <2>3. p \in hits /\ Cardinality({q \in hits : Len(q) <= Len(p)}) = i
    BY <2>2 DEF Ith
  <2>4. k \in depths /\ Cardinality(UpTo(depths, k)) = i
    <3>1. DOMAIN Ascending(depths) = 1 .. Cardinality(depths)
      BY <1>1, <1>3, AscendingLists
    <3>2. i \in DOMAIN Ascending(depths)
      BY <1>3, <3>1
    <3>3. QED
      BY <1>1, <1>3, <3>2, AscendingLists
  <2> HIDE DEF p, k
  <2>5. f[p] \in depths /\ Cardinality(UpTo(depths, f[p])) = i
    BY <1>4, <2>3
  <2>6. f[p] = k
    BY <1>1, <1>3, <2>4, <2>5, AscendingLists
  <2>7. QED
    BY <2>3, <2>6 DEF p, k
<1>6. QED
  BY <1>1, <1>3, <1>5

\* The depths along a text at which something is stored.
Depths(value, text) == {k \in 1 .. Len(text) : Up(text, k) \in DOMAIN value}

\* They can be listed.
LEMMA DepthsAreFinite ==
    ASSUME NEW S, NEW text \in Seq(S), NEW value
    PROVE  IsFiniteSet(Depths(value, text)) /\ Depths(value, text) \subseteq Nat
<1>1. Len(text) \in Nat
  OBVIOUS
<1>2. IsFiniteSet(1 .. Len(text)) /\ Depths(value, text) \in SUBSET (1 .. Len(text))
  BY <1>1, FS_Interval DEF Depths
<1>3. QED
  BY <1>1, <1>2, FS_Subset

\* In a tree with a node for every beginning of a stored pattern the walk along
\* a text gets as far as the last stored beginning of the text.
LEMMA WalkIsLongEnough ==
    ASSUME NEW t, DOMAIN t.value \subseteq Seq(Chars), t.nodes = Closure(DOMAIN t.value),
           NEW text \in Seq(Chars)
    PROVE  {k \in 1 .. Reach(t, text) : SubSeq(text, 1, k) \in DOMAIN t.value} = Depths(t.value, text)
<1> DEFINE r == Reach(t, text)
           alive == {d \in 0 .. Len(text) : \A k \in 1 .. d : Up(text, k) \in t.nodes}
<1>1. Len(text) \in Nat
  OBVIOUS
<1>2. /\ r \in 0 .. Len(text)
      /\ r < Len(text) => Up(text, r + 1) \notin t.nodes
  <2>1. 0 \in alive /\ alive \subseteq 0 .. Len(text)
    BY <1>1
  <2>2. PICK d \in alive : \A e \in alive : e <= d
    <3> HIDE DEF alive
    <3> QED
      BY <1>1, <2>1, GreatestElement
  <2>3. ASSUME d < Len(text), Up(text, d + 1) \in t.nodes PROVE FALSE
    <3>1. d \in Nat /\ d + 1 \in 0 .. Len(text)
      BY <1>1, <2>2, <2>3
    <3>2. \A k \in 1 .. d + 1 : k \in 1 .. d \/ k = d + 1
      BY <3>1
    <3>3. d + 1 \in alive
      BY <2>2, <2>3, <3>1, <3>2
    <3>4. QED
      BY <2>2, <3>1, <3>3
  <2>4. \E e \in 0 .. Len(text) :
           /\ \A k \in 1 .. e : SubSeq(text, 1, k) \in t.nodes
           /\ e < Len(text) => SubSeq(text, 1, e + 1) \notin t.nodes
    BY <2>2, <2>3 DEF Up
  <2>5. QED
    BY <2>4 DEF Reach, Up
<1>3. ASSUME NEW k \in Depths(t.value, text) PROVE k <= r
  <2>1. k \in 1 .. Len(text) /\ k \in 0 .. Len(text) /\ k \in Nat /\ Up(text, k) \in DOMAIN t.value
    BY <1>1 DEF Depths
  <2>2. ASSUME r < k PROVE FALSE
    <3>1. r + 1 \in 0 .. k /\ r < Len(text)
      BY <1>1, <1>2, <2>1, <2>2
    <3>2. Len(Up(text, k)) = k /\ Up(Up(text, k), r + 1) = Up(text, r + 1)
      BY <2>1, <3>1, Beginnings
    <3>3. Up(text, r + 1) \in t.nodes
      <4> HIDE DEF r
      <4> QED
        BY <2>1, <3>1, <3>2, InClosure
    <3>4. QED
      BY <1>2, <3>1, <3>3
  <2>3. QED
    BY <1>1, <1>2, <2>1, <2>2
<1>4. QED
  <2> HIDE DEF r
  <2>1. ASSUME NEW k \in 1 .. r, Up(text, k) \in DOMAIN t.value PROVE k \in Depths(t.value, text)
    BY <1>1, <1>2, <2>1 DEF Depths
  <2>2. ASSUME NEW k \in Depths(t.value, text) PROVE k \in 1 .. r /\ Up(text, k) \in DOMAIN t.value
    BY <1>1, <1>2, <1>3 DEF Depths
  <2>3. QED
    BY <2>1, <2>2 DEF r, Up

\* Patterns whose keys are the stored beginnings of a text, and compare as the
\* patterns do.
Found(hits, keys, value, text) ==
    /\ \A p, q \in hits : keys[p] = keys[q] => p = q
    /\ \A p \in hits : /\ Len(keys[p]) \in 1 .. Len(text)
                       /\ Up(text, Len(keys[p])) = keys[p]
                       /\ keys[p] \in DOMAIN value
    /\ \A k \in Depths(value, text) : \E p \in hits : keys[p] = Up(text, k)
    /\ \A p, q \in hits : Len(q) <= Len(p) <=> Len(keys[q]) <= Len(keys[p])

\* They are what a lookup of the text finds, in the order of their lengths.
LEMMA LookupInOrder ==
    ASSUME NEW S, NEW text \in Seq(S), NEW value, NEW hits, NEW keys, Found(hits, keys, value, text)
    PROVE  /\ Cardinality(hits) \in Nat
           /\ DOMAIN Ascending(Depths(value, text)) = 1 .. Cardinality(hits)
           /\ \A i \in 1 .. Cardinality(hits) :
                /\ Ith(hits, i) \in hits
                /\ Up(text, Ascending(Depths(value, text))[i]) = keys[Ith(hits, i)]
<1> DEFINE f == [p \in hits |-> Len(keys[p])]
           n == Len(text)
           D == Depths(value, text)
           depths == Ascending(D)
<1>1. n \in Nat /\ IsFiniteSet(1 .. n)
  <2>1. n \in Nat
    OBVIOUS
  <2>2. QED
    BY <2>1, FS_Interval
<1>2. /\ f \in [hits -> 1 .. n]
      /\ f \in [hits -> Nat]
      /\ \A p \in hits : Up(text, f[p]) = keys[p]
  BY <1>1 DEF Found
<1>3. \A p, q \in hits : f[p] = f[q] => p = q
  BY <1>2 DEF Found
<1>4. \A p, q \in hits : Len(q) <= Len(p) <=> f[q] <= f[p]
  BY DEF Found
<1>5. /\ \A p \in hits : f[p] \in Depths(value, text)
      /\ \A k \in Depths(value, text) : \E p \in hits : k = f[p]
  <2>1. ASSUME NEW p \in hits PROVE f[p] \in Depths(value, text)
    BY <1>2 DEF Depths, Found
  <2>2. ASSUME NEW k \in Depths(value, text) PROVE \E p \in hits : k = f[p]
    <3>1. PICK p \in hits : keys[p] = Up(text, k)
      BY DEF Found
    <3>2. k \in 0 .. Len(text)
      BY <1>1 DEF Depths
    <3>3. Len(Up(text, k)) = k
      BY <3>2, Beginnings
    <3>4. QED
      BY <3>1, <3>3
  <2>3. QED
    BY <2>1, <2>2
<1> HIDE DEF f
<1>6. IsFiniteSet(hits)
  <2>1. f \in Injection(hits, 1 .. n)
    BY <1>2, <1>3 DEF Injection, IsInjective
  <2>2. QED
    BY <1>1, <2>1, FS_Injection
<1>7. /\ Cardinality(D) = Cardinality(hits)
      /\ IsFiniteSet(D) /\ D \subseteq Nat
      /\ \A i \in 1 .. Cardinality(hits) :
           Ith(hits, i) \in hits /\ Ascending(D)[i] = f[Ith(hits, i)]
  <2>1. (\A p \in hits : f[p] \in D) /\ (\A k \in D : \E p \in hits : k = f[p])
    BY <1>5
  <2> HIDE DEF D
  <2>2. QED
    BY <1>2, <1>3, <1>4, <1>6, <2>1, DepthsInOrder
<1>8. DOMAIN depths = 1 .. Cardinality(hits)
  BY <1>7, AscendingLists
<1>9. ASSUME NEW i \in 1 .. Cardinality(hits)
      PROVE  Ith(hits, i) \in hits /\ Up(text, depths[i]) = keys[Ith(hits, i)]
  <2> DEFINE p == Ith(hits, i)
  <2>1. p \in hits /\ depths[i] = f[p]
    BY <1>7
  <2> HIDE DEF p
  <2>2. p \in hits /\ Up(text, depths[i]) = keys[p]
    BY <1>2, <2>1
  <2>3. QED
    BY <2>2 DEF p
<1>10. QED
  BY <1>6, <1>8, <1>9, FS_CardinalityType

\* A lookup returns something when something is stored on the way.
LEMMA LookupOfNothing ==
    ASSUME NEW S, NEW text \in Seq(S), NEW value, NEW found,
           found = [i \in DOMAIN Ascending(Depths(value, text)) |->
                        value[Up(text, Ascending(Depths(value, text))[i])]]
    PROVE  found # <<>> <=> Depths(value, text) # {}
<1> DEFINE D == Depths(value, text)
<1>1. IsFiniteSet(D) /\ D \subseteq Nat
  BY DepthsAreFinite
<1>2. DOMAIN found = DOMAIN Ascending(D) /\ DOMAIN <<>> = {}
  OBVIOUS
<1>3. D # {} <=> DOMAIN Ascending(D) # {}
  <2> HIDE DEF D
  <2> QED
    BY <1>1, AscendingLists
<1>4. DOMAIN Ascending(D) = {} => found = <<>>
  OBVIOUS
<1>5. QED
  BY <1>2, <1>3, <1>4

\* One sequence begins with another, in terms of Up.
Begins(a, b) == Len(a) <= Len(b) /\ Up(b, Len(a)) = a

\* That is IsPrefix; two beginnings of one text begin with one another.
LEMMA BeginsIsPrefix ==
    ASSUME NEW S, NEW a \in Seq(S), NEW b \in Seq(S)
    PROVE  /\ IsPrefix(a, b) <=> Begins(a, b)
           /\ \A c \in Seq(S) : Begins(a, c) /\ Begins(b, c) => (Len(a) <= Len(b) <=> Begins(a, b))
<1>1. Len(a) \in Nat /\ Len(b) \in Nat /\ Up(a, Len(a)) = a
  <2>1. Len(a) \in 0 .. Len(a)
    OBVIOUS
  <2>2. QED
    BY <2>1, Beginnings
<1>2. IsPrefix(a, b) <=> Begins(a, b)
  BY <1>1 DEF IsPrefix, Begins, Up
<1>3. ASSUME NEW c \in Seq(S), Begins(a, c), Begins(b, c), Len(a) <= Len(b) PROVE Begins(a, b)
  <2>1. Len(c) \in Nat /\ Len(b) \in 0 .. Len(c) /\ Len(a) \in 0 .. Len(b)
    BY <1>1, <1>3 DEF Begins
  <2>2. Up(Up(c, Len(b)), Len(a)) = Up(c, Len(a))
    BY <2>1, Beginnings
  <2>3. QED
    BY <1>3, <2>2 DEF Begins
<1>4. QED
  BY <1>2, <1>3 DEF Begins

\* A text has a pattern at the side of the index when the key of the text begins
\* with the key of the pattern, in characters and in bytes alike. The keys of
\* two patterns compare as the patterns do.
LEMMA AtThisSide ==
    ASSUME IndexInv, NEW text \in IndexTexts
    PROVE  /\ Oriented(text) \in Seq(Chars)
           /\ OrientedBytes(text) \in Seq(0 .. 255)
           /\ \A p \in IndexPatterns :
                /\ Has(text, p) <=> Begins(Oriented(p), Oriented(text))
                /\ Has(text, p) <=> Begins(OrientedBytes(p), OrientedBytes(text))
<1> SUFFICES ASSUME NEW p \in IndexPatterns
             PROVE  /\ Oriented(text) \in Seq(Chars)
                    /\ OrientedBytes(text) \in Seq(0 .. 255)
                    /\ Has(text, p) <=> Begins(Oriented(p), Oriented(text))
                    /\ Has(text, p) <=> Begins(OrientedBytes(p), OrientedBytes(text))
  <2>1. Oriented(text) \in Seq(Chars) /\ OrientedBytes(text) \in Seq(0 .. 255)
    BY IndexConstants, TextBytes, Backwards DEF Oriented, OrientedBytes, InUtf8
  <2>2. QED
    BY <2>1
<1>1. /\ p \in Seq(Chars) /\ text \in Seq(Chars)
      /\ Bytes(p) \in Seq(0 .. 255) /\ Bytes(text) \in Seq(0 .. 255)
      /\ IsPrefix(Bytes(p), Bytes(text)) <=> IsPrefix(p, text)
      /\ IsSuffix(Bytes(p), Bytes(text)) <=> IsSuffix(p, text)
  BY IndexConstants, PatternBytes, TextBytes DEF InUtf8
<1>2. /\ Reverse(p) \in Seq(Chars) /\ Reverse(text) \in Seq(Chars)
      /\ Reverse(Bytes(p)) \in Seq(0 .. 255) /\ Reverse(Bytes(text)) \in Seq(0 .. 255)
  BY <1>1, Backwards
<1>3. CASE side = "prefix"
  <2>1. /\ IsPrefix(p, text) <=> Begins(p, text)
        /\ IsPrefix(Bytes(p), Bytes(text)) <=> Begins(Bytes(p), Bytes(text))
    BY <1>1, BeginsIsPrefix
  <2>2. QED
    BY <1>1, <1>3, <2>1 DEF Oriented, OrientedBytes, Has
<1>4. CASE side = "suffix"
  <2>1. /\ IsSuffix(p, text) <=> Begins(Reverse(p), Reverse(text))
        /\ IsSuffix(Bytes(p), Bytes(text)) <=> Begins(Reverse(Bytes(p)), Reverse(Bytes(text)))
    BY <1>2, BeginsIsPrefix DEF IsSuffix
  <2>2. QED
    BY <1>1, <1>2, <1>4, <2>1 DEF Oriented, OrientedBytes, Has
<1>5. QED
  BY <1>3, <1>4 DEF IndexInv

\* The empty text has no bytes.
LEMMA NothingIsNoBytes == Len(Bytes(<<>>)) = 0
<1>1. [i \in DOMAIN <<>> |-> BytesOf[<<>>[i]]] = <<>> /\ Len(<<>>) = 0
  OBVIOUS
<1>2. Bytes(<<>>) = <<>>
  BY <1>1 DEF Bytes, FlattenSeq
<1>3. QED
  BY <1>1, <1>2

\* Only the empty pattern has an empty key.
LEMMA KeysHaveLength ==
    ASSUME IndexInv, NEW p \in IndexPatterns
    PROVE  /\ Oriented(p) \in Seq(Chars) /\ OrientedBytes(p) \in Seq(0 .. 255)
           /\ Len(Oriented(p)) = Len(p) /\ Len(p) \in Nat
           /\ Len(OrientedBytes(p)) \in Nat
           /\ p # <<>> <=> Len(p) > 0
           /\ p # <<>> <=> Len(OrientedBytes(p)) > 0
<1>1. /\ p \in Seq(Chars) /\ Len(p) \in Nat /\ Bytes(p) \in Seq(0 .. 255) /\ Len(Bytes(p)) \in Nat
      /\ Len(p) <= Len(Bytes(p))
  BY IndexConstants, PatternBytes
<1>2. /\ Oriented(p) \in Seq(Chars) /\ OrientedBytes(p) \in Seq(0 .. 255)
      /\ Len(Oriented(p)) = Len(p) /\ Len(OrientedBytes(p)) = Len(Bytes(p))
  BY <1>1, Backwards DEF Oriented, OrientedBytes
<1>3. p # <<>> <=> Len(p) > 0
  BY <1>1, EmptySeq
<1>4. QED
  BY <1>1, <1>2, <1>3, NothingIsNoBytes

\* search_prefix or search_suffix on the tree finds what FindsAll asks for.
LEMMA TreeFindsAll ==
    ASSUME IndexInv, NEW text \in IndexTexts
    PROVE  /\ FindsAll(TreeFinds(text), tree.value, Oriented, text)
           /\ text # <<>> => TreeHas(text) = (TreeFinds(text) # <<>>)
<1> DEFINE o == Oriented(text)
           value == tree.value
           hits == {p \in IndexPatterns \ {<<>>} : Oriented(p) \in DOMAIN value /\ Has(text, p)}
           depths == Ascending(Depths(value, o))
<1>1. o \in Seq(Chars) /\ Len(o) \in Nat
  BY AtThisSide
<1>2. /\ DOMAIN value \subseteq Seq(Chars) /\ tree.nodes = Closure(DOMAIN value)
      /\ \A k \in DOMAIN value : \E p \in IndexPatterns : k = Oriented(p)
  BY KeysDiffer DEF IndexInv, Filled, TreeKeys, TreeIsMinimal, Closure
<1>3. {k \in 1 .. Reach(tree, o) : SubSeq(o, 1, k) \in DOMAIN value} = Depths(value, o)
  <2> HIDE DEF o
  <2> QED
    BY <1>1, <1>2, WalkIsLongEnough
<1>4. TreeFinds(text) = [i \in DOMAIN depths |-> value[Up(o, depths[i])]]
  BY <1>3 DEF TreeFinds, TreeSearch, Up
<1>5. \A p \in hits : /\ Len(TreeKeys[p]) \in 1 .. Len(o)
                      /\ Up(o, Len(TreeKeys[p])) = TreeKeys[p]
                      /\ TreeKeys[p] \in DOMAIN value
  <2> SUFFICES ASSUME NEW p \in hits
               PROVE  /\ Len(Oriented(p)) \in 1 .. Len(o)
                      /\ Up(o, Len(Oriented(p))) = Oriented(p)
    BY DEF TreeKeys
  <2>1. Begins(Oriented(p), o)
    BY AtThisSide
  <2>2. Len(Oriented(p)) \in Nat /\ Len(Oriented(p)) > 0
    BY KeysHaveLength
  <2>3. QED
    BY <1>1, <2>1, <2>2 DEF Begins
<1>6. \A k \in Depths(value, o) : \E p \in hits : TreeKeys[p] = Up(o, k)
  <2> SUFFICES ASSUME NEW k \in Depths(value, o) PROVE \E p \in hits : TreeKeys[p] = Up(o, k)
    OBVIOUS
  <2>1. k \in 0 .. Len(o) /\ k > 0 /\ Up(o, k) \in DOMAIN value
    BY <1>1 DEF Depths
  <2>2. PICK p \in IndexPatterns : Up(o, k) = Oriented(p)
    BY <1>2, <2>1
  <2>3. Len(Oriented(p)) = k
    BY <1>1, <2>1, <2>2, Beginnings
  <2>4. Begins(Oriented(p), o) /\ p # <<>>
    BY <1>1, <2>1, <2>2, <2>3, KeysHaveLength DEF Begins
  <2>5. p \in hits
    BY <2>1, <2>2, <2>4, AtThisSide
  <2>6. QED
    BY <2>2, <2>5 DEF TreeKeys
<1>7. /\ \A p, q \in hits : TreeKeys[p] = TreeKeys[q] => p = q
      /\ \A p, q \in hits : Len(q) <= Len(p) <=> Len(TreeKeys[q]) <= Len(TreeKeys[p])
  BY KeysDiffer DEF TreeKeys, IndexInv
<1>8. /\ DOMAIN depths = 1 .. Cardinality(hits)
      /\ \A i \in DOMAIN depths : Ith(hits, i) \in hits /\ Up(o, depths[i]) = TreeKeys[Ith(hits, i)]
  <2> DEFINE keys == TreeKeys
  <2>1. Found(hits, keys, value, o)
    BY <1>5, <1>6, <1>7 DEF Found
  <2> HIDE DEF o, value, hits, keys
  <2>2. /\ DOMAIN Ascending(Depths(value, o)) = 1 .. Cardinality(hits)
        /\ \A i \in 1 .. Cardinality(hits) :
             /\ Ith(hits, i) \in hits
             /\ Up(o, Ascending(Depths(value, o))[i]) = keys[Ith(hits, i)]
    BY <1>1, <2>1, LookupInOrder
  <2>3. QED
    BY <2>2 DEF keys
<1>9. TreeFinds(text) = [i \in 1 .. Cardinality(hits) |-> value[Oriented(Ith(hits, i))]]
  <2>1. \A i \in DOMAIN depths : Up(o, depths[i]) = Oriented(Ith(hits, i))
    BY <1>8 DEF TreeKeys
  <2> HIDE DEF o, value, hits, depths
  <2>2. QED
    BY <1>4, <1>8, <2>1
<1>10. FindsAll(TreeFinds(text), tree.value, Oriented, text)
  BY <1>9 DEF FindsAll, Ith
<1>11. ASSUME text # <<>> PROVE TreeHas(text) = (TreeFinds(text) # <<>>)
  <2>1. o # <<>>
    <3>1. text \in Seq(Chars)
      BY IndexConstants
    <3>2. Len(text) # 0 /\ Len(Reverse(text)) # 0 /\ Len(<<>>) = 0
      BY <1>11, <3>1, Backwards, EmptySeq
    <3>3. QED
      BY <3>2 DEF Oriented
  <2>2. TreeHas(text) <=> Depths(value, o) # {}
    <3>1. TreeHas(text) <=> {k \in 1 .. Reach(tree, o) : SubSeq(o, 1, k) \in DOMAIN value} # {}
      BY <2>1 DEF TreeHas, TreeContains
    <3>2. QED
      BY <1>3, <3>1
  <2>3. TreeFinds(text) # <<>> <=> Depths(value, o) # {}
    <3> HIDE DEF o, value
    <3> QED
      BY <1>1, <1>4, LookupOfNothing
  <2>4. TreeHas(text) \in BOOLEAN
    BY DEF TreeHas, TreeContains
  <2>5. QED
    BY <2>2, <2>3, <2>4, Zenon
<1>12. QED
  BY <1>10, <1>11

\* The same on the map of trie_qp.rs, whose keys are bytes.
LEMMA QpFindsAll ==
    ASSUME IndexInv, NEW text \in IndexTexts
    PROVE  /\ FindsAll(QpFinds(text), qp.value, OrientedBytes, text)
           /\ QpHas(text) = (QpFinds(text) # <<>>)
<1> DEFINE o == OrientedBytes(text)
           value == qp.value
           hits == {p \in IndexPatterns \ {<<>>} : OrientedBytes(p) \in DOMAIN value /\ Has(text, p)}
           depths == Ascending(Depths(value, o))
<1>1. o \in Seq(0 .. 255) /\ Len(o) \in Nat
  BY AtThisSide
<1>2. \A k \in DOMAIN value : \E p \in IndexPatterns : k = OrientedBytes(p)
  BY DEF IndexInv, Filled, QpKeys
<1>3. QpFinds(text) = [i \in DOMAIN depths |-> value[Up(o, depths[i])]]
  BY DEF QpFinds, QpSearch, Up, Depths
<1>4. \A p \in hits : /\ Len(QpKeys[p]) \in 1 .. Len(o)
                      /\ Up(o, Len(QpKeys[p])) = QpKeys[p]
                      /\ QpKeys[p] \in DOMAIN value
  <2> SUFFICES ASSUME NEW p \in hits
               PROVE  /\ Len(OrientedBytes(p)) \in 1 .. Len(o)
                      /\ Up(o, Len(OrientedBytes(p))) = OrientedBytes(p)
    BY DEF QpKeys
  <2>1. Begins(OrientedBytes(p), o)
    BY AtThisSide
  <2>2. Len(OrientedBytes(p)) \in Nat /\ Len(OrientedBytes(p)) > 0
    BY KeysHaveLength
  <2>3. QED
    BY <1>1, <2>1, <2>2 DEF Begins
<1>5. \A k \in Depths(value, o) : \E p \in hits : QpKeys[p] = Up(o, k)
  <2> SUFFICES ASSUME NEW k \in Depths(value, o) PROVE \E p \in hits : QpKeys[p] = Up(o, k)
    OBVIOUS
  <2>1. k \in 0 .. Len(o) /\ k > 0 /\ Up(o, k) \in DOMAIN value
    BY <1>1 DEF Depths
  <2>2. PICK p \in IndexPatterns : Up(o, k) = OrientedBytes(p)
    BY <1>2, <2>1
  <2>3. Len(OrientedBytes(p)) = k
    BY <1>1, <2>1, <2>2, Beginnings
  <2>4. Begins(OrientedBytes(p), o) /\ p # <<>>
    BY <1>1, <2>1, <2>2, <2>3, KeysHaveLength DEF Begins
  <2>5. p \in hits
    BY <2>1, <2>2, <2>4, AtThisSide
  <2>6. QED
    BY <2>2, <2>5 DEF QpKeys
<1>6. \A p, q \in hits : Len(q) <= Len(p) <=> Len(QpKeys[q]) <= Len(QpKeys[p])
  <2> SUFFICES ASSUME NEW p \in hits, NEW q \in hits
               PROVE  Len(q) <= Len(p) <=> Len(OrientedBytes(q)) <= Len(OrientedBytes(p))
    BY DEF QpKeys
  <2>1. p \in IndexPatterns /\ q \in IndexPatterns /\ p \in IndexTexts
    BY IndexConstants
  <2>2. /\ Begins(Oriented(p), Oriented(text)) /\ Begins(Oriented(q), Oriented(text))
        /\ Begins(OrientedBytes(p), o) /\ Begins(OrientedBytes(q), o)
        /\ Oriented(text) \in Seq(Chars)
    BY AtThisSide
  <2>3. /\ Oriented(p) \in Seq(Chars) /\ Oriented(q) \in Seq(Chars)
        /\ OrientedBytes(p) \in Seq(0 .. 255) /\ OrientedBytes(q) \in Seq(0 .. 255)
        /\ Len(Oriented(p)) = Len(p) /\ Len(Oriented(q)) = Len(q)
    BY <2>1, KeysHaveLength
  <2>4. Len(Oriented(q)) <= Len(Oriented(p)) <=> Begins(Oriented(q), Oriented(p))
    BY <2>2, <2>3, BeginsIsPrefix
  <2>5. Len(OrientedBytes(q)) <= Len(OrientedBytes(p)) <=> Begins(OrientedBytes(q), OrientedBytes(p))
    <3> HIDE DEF o
    <3> QED
      BY <1>1, <2>2, <2>3, BeginsIsPrefix
  <2>6. /\ Has(p, q) <=> Begins(Oriented(q), Oriented(p))
        /\ Has(p, q) <=> Begins(OrientedBytes(q), OrientedBytes(p))
    BY <2>1, AtThisSide
  <2>7. QED
    BY <2>3, <2>4, <2>5, <2>6
<1>7. \A p, q \in hits : QpKeys[p] = QpKeys[q] => p = q
  BY KeysDiffer DEF QpKeys, IndexInv
<1>8. /\ DOMAIN depths = 1 .. Cardinality(hits)
      /\ \A i \in DOMAIN depths : Ith(hits, i) \in hits /\ Up(o, depths[i]) = QpKeys[Ith(hits, i)]
  <2> DEFINE keys == QpKeys
  <2>1. Found(hits, keys, value, o)
    BY <1>4, <1>5, <1>6, <1>7 DEF Found
  <2> HIDE DEF o, value, hits, keys
  <2>2. /\ DOMAIN Ascending(Depths(value, o)) = 1 .. Cardinality(hits)
        /\ \A i \in 1 .. Cardinality(hits) :
             /\ Ith(hits, i) \in hits
             /\ Up(o, Ascending(Depths(value, o))[i]) = keys[Ith(hits, i)]
    BY <1>1, <2>1, LookupInOrder
  <2>3. QED
    BY <2>2 DEF keys
<1>9. QpFinds(text) = [i \in 1 .. Cardinality(hits) |-> value[OrientedBytes(Ith(hits, i))]]
  <2>1. \A i \in DOMAIN depths : Up(o, depths[i]) = OrientedBytes(Ith(hits, i))
    BY <1>8 DEF QpKeys
  <2> HIDE DEF o, value, hits, depths
  <2>2. QED
    BY <1>3, <1>8, <2>1
<1>10. FindsAll(QpFinds(text), qp.value, OrientedBytes, text)
  BY <1>9 DEF FindsAll, Ith
<1>11. QpHas(text) = (QpFinds(text) # <<>>)
  <2>1. QpHas(text) <=> Depths(value, o) # {}
    BY DEF QpHas, QpContains, Depths, Up
  <2>2. QpFinds(text) # <<>> <=> Depths(value, o) # {}
    <3> HIDE DEF o, value
    <3> QED
      BY <1>1, <1>3, LookupOfNothing
  <2>3. QpHas(text) \in BOOLEAN
    BY DEF QpHas, QpContains
  <2>4. QED
    BY <2>1, <2>2, <2>3, Zenon
<1>12. QED
  BY <1>10, <1>11

\* Whatever was inserted and removed before, a lookup finds the stored patterns
\* the text begins (or ends) with, all of them, in the order of their lengths
\* and nothing else, whether the build has the tree or the qp trie.
THEOREM LookupsFindEverything == ISpec => []LookupsFindAll
<1>1. IndexInv => LookupsFindAll
  BY TreeFindsAll, QpFindsAll DEF LookupsFindAll
<1>2. QED
  BY <1>1, IndexInvariant, PTL

-----------------------------------------------------------------------------
\* What is stored, read back through the keys as a map of patterns.
Contents(value, keys) ==
    [p \in {q \in IndexPatterns : keys[q] \in DOMAIN value} |-> value[keys[p]]]

\* Keys that no two patterns share.
Distinct(keys) == \A p, q \in IndexPatterns : keys[p] = keys[q] => p = q

\* A new key is a new pattern, and the others keep their values.
LEMMA ContentsWith ==
    ASSUME NEW value, NEW keys, Distinct(keys), NEW p \in IndexPatterns,
           NEW key, key = keys[p], NEW v
    PROVE  Contents(With(value, key, v), keys) = With(Contents(value, keys), p, v)
<1>1. DOMAIN Contents(value, keys) = {q \in IndexPatterns : keys[q] \in DOMAIN value}
  BY DEF Contents
<1>2. {q \in IndexPatterns : keys[q] \in DOMAIN With(value, key, v)} = DOMAIN Contents(value, keys) \cup {p}
  BY <1>1 DEF With, Distinct
<1>3. ASSUME NEW q \in DOMAIN Contents(value, keys) \cup {p}
      PROVE  With(value, key, v)[keys[q]] = IF q = p THEN v ELSE Contents(value, keys)[q]
  BY <1>1, <1>3 DEF With, Distinct, Contents
<1>4. QED
  BY <1>2, <1>3 DEF Contents, With

\* A key taken out is a pattern taken out.
LEMMA ContentsWithout ==
    ASSUME NEW value, NEW keys, Distinct(keys), NEW p \in IndexPatterns,
           NEW key, key = keys[p]
    PROVE  Contents(Without(value, key), keys)
             = [q \in DOMAIN Contents(value, keys) \ {p} |-> Contents(value, keys)[q]]
<1>1. DOMAIN Contents(value, keys) = {q \in IndexPatterns : keys[q] \in DOMAIN value}
  BY DEF Contents
<1>2. {q \in IndexPatterns : keys[q] \in DOMAIN Without(value, key)} = DOMAIN Contents(value, keys) \ {p}
  BY <1>1 DEF Without, Distinct
<1>3. ASSUME NEW q \in DOMAIN Contents(value, keys) \ {p}
      PROVE  Without(value, key)[keys[q]] = Contents(value, keys)[q]
  BY <1>1, <1>3 DEF Without, Distinct, Contents
<1>4. QED
  BY <1>2, <1>3 DEF Contents

\* The keys are the ones the refinement mappings read.
LEMMA ReadBack ==
    /\ Stored(tree.value, Oriented) = Contents(tree.value, TreeKeys)
    /\ Stored(qp.value, OrientedBytes) = Contents(qp.value, QpKeys)
BY DEF Stored, Contents, TreeKeys, QpKeys

\* No two patterns share a key.
LEMMA KeysAreDistinct ==
    ASSUME IndexInv
    PROVE  Distinct(TreeKeys) /\ Distinct(QpKeys)
BY KeysDiffer DEF Distinct, TreeKeys, QpKeys, IndexInv

\* The same after a step, which never turns the index around.
LEMMA ReadBackNext ==
    ASSUME UNCHANGED side
    PROVE  /\ Stored(tree.value, Oriented)' = Contents(tree'.value, TreeKeys)
           /\ Stored(qp.value, OrientedBytes)' = Contents(qp'.value, QpKeys)
BY DEF Stored, Contents, TreeKeys, QpKeys, Oriented, OrientedBytes

\* insert is the map's insert, in both.
LEMMA InsertIsMapInsert ==
    ASSUME IndexInv, NEW p \in IndexPatterns, NEW v \in IndexValues, InsertPattern(p, v)
    PROVE  TreeMap!MapInsert(p, v) /\ QpMap!MapInsert(p, v)
<1>1. /\ tree'.value = With(tree.value, TreeKeys[p], v)
      /\ qp'.value = With(qp.value, QpKeys[p], v)
      /\ UNCHANGED <<side, removed>>
  BY DEF InsertPattern, TreeInsert, QpInsert, TreeKeys, QpKeys
<1>2. Distinct(TreeKeys) /\ Distinct(QpKeys)
  BY KeysAreDistinct
<1>3. /\ Contents(tree'.value, TreeKeys) = With(Contents(tree.value, TreeKeys), p, v)
      /\ Contents(qp'.value, QpKeys) = With(Contents(qp.value, QpKeys), p, v)
  BY <1>1, <1>2, ContentsWith
<1>4. QED
  BY <1>1, <1>3, ReadBack, ReadBackNext DEF TreeMap!MapInsert, QpMap!MapInsert, With

\* remove is the map's remove, in the tree except for patterns that are too
\* deep, and its answer is the map's.
LEMMA RemoveIsMapRemove ==
    ASSUME IndexInv, NEW p \in IndexPatterns, RemovePattern(p)
    PROVE  TreeMap!MapRemove(p) /\ QpMap!MapRemove(p)
<1> DEFINE deep == {q \in IndexPatterns : Len(q) > MaxDepth}
           stored == Contents(tree.value, TreeKeys)
           storedQp == Contents(qp.value, QpKeys)
<1>1. Distinct(TreeKeys) /\ Distinct(QpKeys)
  BY KeysAreDistinct
<1>2. TreeKeys[p] = Oriented(p) /\ QpKeys[p] = OrientedBytes(p)
  BY DEF TreeKeys, QpKeys
<1>3. TreeRemoves(tree, Oriented(p)) = (p \in DOMAIN stored \ deep)
  <2>1. Len(Oriented(p)) = Len(p) /\ Len(p) \in Nat
    BY KeysDiffer DEF IndexInv
  <2>2. QED
    BY <1>2, <2>1, PatternConstants DEF TreeRemoves, Contents
<1>4. QpRemoves(qp, OrientedBytes(p)) = (p \in DOMAIN storedQp)
  BY <1>2 DEF QpRemoves, Contents
<1>5. Contents(tree'.value, TreeKeys) = [q \in DOMAIN stored \ ({p} \ deep) |-> stored[q]]
  <2>1. CASE p \in DOMAIN stored \ deep
    <3>1. tree'.value = Without(tree.value, TreeKeys[p])
      BY <1>2, <1>3, <2>1 DEF RemovePattern, TreeRemove
    <3>2. Contents(tree'.value, TreeKeys) = [q \in DOMAIN stored \ {p} |-> stored[q]]
      <4> DEFINE value == tree.value
                 keys == TreeKeys
                 key == keys[p]
      <4>1. Distinct(keys) /\ tree'.value = Without(value, key)
        BY <1>1, <3>1
      <4> HIDE DEF value, keys, key
      <4>2. Contents(Without(value, key), keys)
                = [q \in DOMAIN Contents(value, keys) \ {p} |-> Contents(value, keys)[q]]
        BY <4>1, ContentsWithout DEF key
      <4>3. QED
        BY <4>1, <4>2 DEF value, keys
    <3>3. DOMAIN stored \ ({p} \ deep) = DOMAIN stored \ {p}
      BY <2>1
    <3>4. QED
      BY <3>2, <3>3
  <2>2. CASE p \notin DOMAIN stored \ deep
    <3>1. tree' = tree
      BY <1>3, <2>2 DEF RemovePattern, TreeRemove
    <3>2. DOMAIN stored \ ({p} \ deep) = DOMAIN stored
      BY <2>2
    <3>3. stored = [q \in DOMAIN stored |-> stored[q]]
      BY DEF Contents
    <3>4. QED
      BY <3>1, <3>2, <3>3
  <2>3. QED
    BY <2>1, <2>2
<1>6. Contents(qp'.value, QpKeys) = [q \in DOMAIN storedQp \ {p} |-> storedQp[q]]
  <2>1. CASE p \in DOMAIN storedQp
    <3>1. qp'.value = Without(qp.value, QpKeys[p])
      BY <1>2, <1>4, <2>1 DEF RemovePattern, QpRemove
    <3>2. QED
      BY <1>1, <3>1, ContentsWithout
  <2>2. CASE p \notin DOMAIN storedQp
    <3>1. qp' = qp
      BY <1>4, <2>2 DEF RemovePattern, QpRemove
    <3>2. DOMAIN storedQp \ {p} = DOMAIN storedQp
      BY <2>2
    <3>3. storedQp = [q \in DOMAIN storedQp |-> storedQp[q]]
      BY DEF Contents
    <3>4. QED
      BY <3>1, <3>2, <3>3
  <2>3. QED
    BY <2>1, <2>2
<1>7. /\ removed'.tree = (p \in DOMAIN stored \ deep)
      /\ removed'.qp = (p \in DOMAIN storedQp)
      /\ UNCHANGED side
  <2>1. /\ removed'.tree = TreeRemoves(tree, Oriented(p))
        /\ removed'.qp = QpRemoves(qp, OrientedBytes(p))
        /\ UNCHANGED side
    BY DEF RemovePattern
  <2>2. QED
    BY <1>3, <1>4, <2>1, Zenon
<1>8. QED
  <2> HIDE DEF deep
  <2>1. TreeMap!MapRemove(p)
    BY <1>5, <1>7, ReadBack, ReadBackNext DEF TreeMap!MapRemove, deep
  <2>2. QpMap!MapRemove(p)
    BY <1>6, <1>7, ReadBack, ReadBackNext DEF QpMap!MapRemove
  <2>3. QED
    BY <2>1, <2>2

\* Every step of the indexes is a step of both maps, or changes neither.
LEMMA StepIsMapStep ==
    ASSUME IndexInv, [INext]_indexVars
    PROVE  /\ [TreeMap!MapNext]_<<Stored(tree.value, Oriented), removed.tree>>
           /\ [QpMap!MapNext]_<<Stored(qp.value, OrientedBytes), removed.qp>>
<1>1. ASSUME NEW p \in IndexPatterns, NEW v \in IndexValues, InsertPattern(p, v)
      PROVE  TreeMap!MapNext /\ QpMap!MapNext
  BY <1>1, InsertIsMapInsert DEF TreeMap!MapNext, QpMap!MapNext
<1>2. ASSUME NEW p \in IndexPatterns, RemovePattern(p)
      PROVE  TreeMap!MapNext /\ QpMap!MapNext
  BY <1>2, RemoveIsMapRemove DEF TreeMap!MapNext, QpMap!MapNext
<1>3. CASE UNCHANGED indexVars
  BY <1>3, ReadBack, ReadBackNext DEF indexVars
<1>4. QED
  BY <1>1, <1>2, <1>3 DEF INext

\* Two empty maps.
LEMMA InitIsMapInit ==
    ASSUME IInit
    PROVE  TreeMap!MapInit /\ QpMap!MapInit
<1>1. tree.value = <<>> /\ qp.value = <<>> /\ removed.tree = FALSE /\ removed.qp = FALSE
  BY DEF IInit, EmptyTree, EmptyQp
<1>2. DOMAIN <<>> = {}
  OBVIOUS
<1>3. /\ Contents(tree.value, TreeKeys) = [p \in {} |-> p]
      /\ Contents(qp.value, QpKeys) = [p \in {} |-> p]
  BY <1>1, <1>2 DEF Contents
<1>4. QED
  BY <1>1, <1>3, ReadBack DEF TreeMap!MapInit, QpMap!MapInit

\* The tree of trie.rs implements a map of patterns, in which only patterns
\* longer than MAX_TRIE_DEPTH stay for good.
THEOREM TreeImplementsMap == ISpec => TreeIsAMap
BY InitIsMapInit, StepIsMapStep, IndexInvariant, PTL
   DEF ISpec, TreeIsAMap, TreeMap!MapSpec

\* The trie of trie_qp.rs implements one without exceptions.
THEOREM QpImplementsMap == ISpec => QpIsAMap
BY InitIsMapInit, StepIsMapStep, IndexInvariant, PTL
   DEF ISpec, QpIsAMap, QpMap!MapSpec
-----------------------------------------------------------------------------
\* The key under which a matcher stores a prefix or a suffix, and what it looks
\* up for a URI.
KeyOf(b, kind, text) ==
    IF kind = "prefix" THEN IF b = "tree" THEN text ELSE Bytes(text)
    ELSE IF b = "tree" THEN Reverse(text) ELSE Reverse(Bytes(text))

Alphabet(b) == IF b = "tree" THEN Chars ELSE 0 .. 255

\* The URI has the text where the kind of the pattern says.
AtSide(kind, text, uri) == IF kind = "prefix" THEN IsPrefix(text, uri) ELSE IsSuffix(text, uri)

\* Keys are sequences, and one begins with another when the text has the
\* pattern: in characters and in bytes, from the front and from the back.
LEMMA KeyFacts ==
    ASSUME NEW b \in Backends, NEW kind \in {"prefix", "suffix"},
           NEW text \in MatcherTexts \cup TrieTexts, NEW p \in TrieTexts
    PROVE  /\ KeyOf(b, kind, text) \in Seq(Alphabet(b))
           /\ KeyOf(b, kind, p) \in Seq(Alphabet(b))
           /\ Len(KeyOf("tree", kind, p)) = Len(p) /\ Len(p) \in Nat
           /\ Begins(KeyOf(b, kind, p), KeyOf(b, kind, text)) <=> AtSide(kind, p, text)
           /\ p # <<>> <=> Len(KeyOf(b, kind, p)) > 0
<1>1. /\ p \in Seq(Chars) /\ text \in Seq(Chars) /\ Len(p) \in Nat
      /\ Bytes(p) \in Seq(0 .. 255) /\ Bytes(text) \in Seq(0 .. 255) /\ Len(Bytes(p)) \in Nat
      /\ IsPrefix(Bytes(p), Bytes(text)) <=> IsPrefix(p, text)
      /\ IsSuffix(Bytes(p), Bytes(text)) <=> IsSuffix(p, text)
      /\ Len(p) <= Len(Bytes(p))
  <2>1. /\ p \in Seq(Chars) /\ text \in Seq(Chars)
        /\ Bytes(p) \in Seq(0 .. 255) /\ Bytes(text) \in Seq(0 .. 255)
        /\ IsPrefix(Bytes(p), Bytes(text)) <=> IsPrefix(p, text)
        /\ IsSuffix(Bytes(p), Bytes(text)) <=> IsSuffix(p, text)
        /\ Len(p) <= Len(Bytes(p))
    BY MatcherConstants DEF InUtf8
  <2>2. QED
    BY <2>1
<1>2. /\ Reverse(p) \in Seq(Chars) /\ Reverse(text) \in Seq(Chars)
      /\ Reverse(Bytes(p)) \in Seq(0 .. 255) /\ Reverse(Bytes(text)) \in Seq(0 .. 255)
      /\ Len(Reverse(p)) = Len(p) /\ Len(Reverse(Bytes(p))) = Len(Bytes(p))
  BY <1>1, Backwards
<1>3. /\ IsPrefix(p, text) <=> Begins(p, text)
      /\ IsPrefix(Bytes(p), Bytes(text)) <=> Begins(Bytes(p), Bytes(text))
      /\ IsSuffix(p, text) <=> Begins(Reverse(p), Reverse(text))
      /\ IsSuffix(Bytes(p), Bytes(text)) <=> Begins(Reverse(Bytes(p)), Reverse(Bytes(text)))
  BY <1>1, <1>2, BeginsIsPrefix DEF IsSuffix
<1>4. (p # <<>> <=> Len(p) > 0) /\ (p # <<>> <=> Len(Bytes(p)) > 0)
  BY <1>1, EmptySeq, NothingIsNoBytes
<1>5. b = "tree" \/ b = "qp"
  BY DEF Backends
<1>6. QED
  BY <1>1, <1>2, <1>3, <1>4, <1>5 DEF KeyOf, Alphabet, AtSide

\* No two texts share a key.
LEMMA KeyOfIsInjective ==
    ASSUME NEW b \in Backends, NEW kind \in {"prefix", "suffix"},
           NEW p \in TrieTexts, NEW q \in TrieTexts, KeyOf(b, kind, p) = KeyOf(b, kind, q)
    PROVE  p = q
<1>1. /\ KeyOf(b, kind, p) \in Seq(Alphabet(b))
      /\ p \in Seq(Chars) /\ q \in Seq(Chars)
      /\ KeyOf("tree", kind, p) \in Seq(Chars) /\ KeyOf("tree", kind, q) \in Seq(Chars)
  BY KeyFacts, MatcherConstants, Backwards DEF InUtf8, KeyOf
<1>2. Begins(KeyOf(b, kind, p), KeyOf(b, kind, q)) /\ Begins(KeyOf(b, kind, q), KeyOf(b, kind, p))
  <2> DEFINE k == KeyOf(b, kind, p)
             S == Alphabet(b)
  <2>1. k \in Seq(S) /\ KeyOf(b, kind, q) = k
    BY <1>1
  <2> HIDE DEF k, S
  <2>2. Len(k) \in 0 .. Len(k) /\ Up(k, Len(k)) = k
    BY <2>1, Beginnings
  <2>3. QED
    BY <2>1, <2>2 DEF Begins, k
<1>3. AtSide(kind, p, q) /\ AtSide(kind, q, p)
  BY <1>2, KeyFacts
<1>4. /\ Begins(KeyOf("tree", kind, p), KeyOf("tree", kind, q))
      /\ Begins(KeyOf("tree", kind, q), KeyOf("tree", kind, p))
  BY <1>3, KeyFacts DEF Backends
<1>5. KeyOf("tree", kind, p) = KeyOf("tree", kind, q)
  <2> DEFINE a == KeyOf("tree", kind, p)
             c == KeyOf("tree", kind, q)
  <2> HIDE DEF a, c
  <2>1. a \in Seq(Chars) /\ c \in Seq(Chars) /\ Begins(a, c) /\ Begins(c, a)
    BY <1>1, <1>4 DEF a, c
  <2>2. Len(a) = Len(c) /\ Len(c) \in 0 .. Len(c)
    BY <2>1 DEF Begins
  <2>3. a = c
    BY <2>1, <2>2, Beginnings DEF Begins
  <2>4. QED
    BY <2>3 DEF a, c
<1>6. Reverse(Reverse(p)) = p /\ Reverse(Reverse(q)) = q
  BY <1>1, Backwards
<1>7. QED
  BY <1>5, <1>6 DEF KeyOf

\* The key of a URI is a sequence.
LEMMA KeyIsSeq ==
    ASSUME NEW b \in Backends, NEW kind \in {"prefix", "suffix"}, NEW text \in MatcherTexts
    PROVE  KeyOf(b, kind, text) \in Seq(Alphabet(b)) /\ Len(KeyOf(b, kind, text)) \in Nat
<1>1. text \in Seq(Chars) /\ Bytes(text) \in Seq(0 .. 255)
  BY MatcherConstants DEF InUtf8
<1>2. Reverse(text) \in Seq(Chars) /\ Reverse(Bytes(text)) \in Seq(0 .. 255)
  BY <1>1, Backwards
<1>3. KeyOf(b, kind, text) \in Seq(Alphabet(b))
  BY <1>1, <1>2 DEF KeyOf, Alphabet
<1>4. QED
  BY <1>3

\* A trie of the matcher over backend b holds the texts: each under its key, as
\* its own value, and a tree has the nodes they need.
Holds(trie, b, kind, texts) ==
    /\ DOMAIN trie.value = {KeyOf(b, kind, text) : text \in texts}
    /\ \A text \in texts : trie.value[KeyOf(b, kind, text)] = text
    /\ b = "tree" => trie.nodes = Closure(DOMAIN trie.value)

\* The texts among them that a URI has, the empty one aside.
HitTexts(kind, texts, uri) == {text \in texts : text # <<>> /\ AtSide(kind, text, uri)}

\* What search_prefix returns, in terms of Depths.
Listed(value, text) ==
    [i \in DOMAIN Ascending(Depths(value, text)) |-> value[Up(text, Ascending(Depths(value, text))[i])]]

\* The texts the URI has are the ones whose keys are on its way.
LEMMA HitsAreFound ==
    ASSUME NEW b \in Backends, NEW kind \in {"prefix", "suffix"}, NEW uri \in MatcherTexts,
           NEW texts, texts \subseteq TrieTexts, NEW trie, Holds(trie, b, kind, texts)
    PROVE  Found(HitTexts(kind, texts, uri), [text \in texts |-> KeyOf(b, kind, text)],
                 trie.value, KeyOf(b, kind, uri))
<1> DEFINE o == KeyOf(b, kind, uri)
           hits == HitTexts(kind, texts, uri)
           value == trie.value
           keys == [text \in texts |-> KeyOf(b, kind, text)]
<1>1. o \in Seq(Alphabet(b)) /\ Len(o) \in Nat
  BY KeyIsSeq
<1>2. \A p \in hits : p \in texts /\ p \in TrieTexts /\ p # <<>> /\ keys[p] = KeyOf(b, kind, p)
  BY DEF HitTexts
<1>3. \A p, q \in hits : keys[p] = keys[q] => p = q
  BY <1>2, KeyOfIsInjective
<1>4. \A p \in hits : /\ Len(keys[p]) \in 1 .. Len(o)
                      /\ Up(o, Len(keys[p])) = keys[p]
                      /\ keys[p] \in DOMAIN value
  <2> SUFFICES ASSUME NEW p \in hits
               PROVE  /\ Len(KeyOf(b, kind, p)) \in 1 .. Len(o)
                      /\ Up(o, Len(KeyOf(b, kind, p))) = KeyOf(b, kind, p)
                      /\ KeyOf(b, kind, p) \in DOMAIN value
    BY <1>2
  <2>1. AtSide(kind, p, uri)
    BY DEF HitTexts
  <2>2. Begins(KeyOf(b, kind, p), o) /\ KeyOf(b, kind, p) \in Seq(Alphabet(b)) /\ Len(KeyOf(b, kind, p)) > 0
    BY <1>2, <2>1, KeyFacts
  <2>3. Len(KeyOf(b, kind, p)) \in 1 .. Len(o) /\ Up(o, Len(KeyOf(b, kind, p))) = KeyOf(b, kind, p)
    <3> HIDE DEF o
    <3> QED
      BY <1>1, <2>2 DEF Begins
  <2>4. KeyOf(b, kind, p) \in DOMAIN value
    BY <1>2 DEF Holds
  <2>5. QED
    BY <2>3, <2>4
<1>5. \A k \in Depths(value, o) : \E p \in hits : keys[p] = Up(o, k)
  <2> SUFFICES ASSUME NEW k \in Depths(value, o) PROVE \E p \in hits : keys[p] = Up(o, k)
    OBVIOUS
  <2>1. k \in 0 .. Len(o) /\ k > 0 /\ Up(o, k) \in DOMAIN value
    BY <1>1 DEF Depths
  <2>2. PICK p \in texts : Up(o, k) = KeyOf(b, kind, p)
    BY <2>1 DEF Holds
  <2>3. Len(KeyOf(b, kind, p)) = k
    <3> HIDE DEF o
    <3> QED
      BY <1>1, <2>1, <2>2, Beginnings
  <2>4. Begins(KeyOf(b, kind, p), o)
    BY <1>1, <2>1, <2>2, <2>3 DEF Begins
  <2>5. p \in TrieTexts /\ p # <<>> /\ AtSide(kind, p, uri)
    BY <2>1, <2>3, <2>4, KeyFacts
  <2>6. QED
    BY <2>2, <2>5 DEF HitTexts
<1>6. \A p, q \in hits : Len(q) <= Len(p) <=> Len(keys[q]) <= Len(keys[p])
  <2>1. ASSUME NEW p \in hits, NEW q \in hits, NEW c \in Backends
        PROVE  Len(KeyOf(c, kind, q)) <= Len(KeyOf(c, kind, p)) <=> AtSide(kind, q, p)
    <3> DEFINE S == Alphabet(c)
               x == KeyOf(c, kind, q)
               y == KeyOf(c, kind, p)
               z == KeyOf(c, kind, uri)
    <3>1. p \in TrieTexts /\ q \in TrieTexts /\ AtSide(kind, p, uri) /\ AtSide(kind, q, uri)
      BY <1>2 DEF HitTexts
    <3>2. x \in Seq(S) /\ y \in Seq(S) /\ z \in Seq(S) /\ Begins(x, z) /\ Begins(y, z)
      BY <3>1, KeyFacts
    <3>3. Begins(x, y) <=> AtSide(kind, q, p)
      BY <3>1, KeyFacts
    <3> HIDE DEF S, x, y, z
    <3>4. Len(x) <= Len(y) <=> Begins(x, y)
      BY <3>2, BeginsIsPrefix
    <3>5. QED
      BY <3>3, <3>4 DEF x, y
  <2>2. "tree" \in Backends
    BY DEF Backends
  <2>3. \A p \in hits : Len(KeyOf("tree", kind, p)) = Len(p)
    BY <1>2, KeyFacts
  <2> HIDE DEF hits
  <2>4. QED
    BY <1>2, <2>1, <2>2, <2>3
<1>7. QED
  BY <1>3, <1>4, <1>5, <1>6 DEF Found

\* Texts in a list, by length.
ByLength(hits) == [i \in 1 .. Cardinality(hits) |-> Ith(hits, i)]

\* A matcher's trie lists the texts the URI has, by length: the same ones in
\* the same order whichever the backend.
LEMMA TrieLists ==
    ASSUME NEW b \in Backends, NEW kind \in {"prefix", "suffix"}, NEW uri \in MatcherTexts,
           NEW texts, texts \subseteq TrieTexts, NEW trie, Holds(trie, b, kind, texts),
           NEW hits, hits = HitTexts(kind, texts, uri)
    PROVE  /\ Listed(trie.value, KeyOf(b, kind, uri)) = ByLength(hits)
           /\ \A i \in 1 .. Cardinality(hits) : Ith(hits, i) \in hits
           /\ Cardinality(hits) \in Nat
           /\ Listed(trie.value, KeyOf(b, kind, uri)) # <<>> <=> hits # {}
<1> DEFINE S == Alphabet(b)
           o == KeyOf(b, kind, uri)
           value == trie.value
           keys == [text \in texts |-> KeyOf(b, kind, text)]
           D == Depths(value, o)
<1>1. o \in Seq(S)
  BY KeyIsSeq
<1>2. Found(hits, keys, value, o)
  BY HitsAreFound
<1>3. \A p \in hits : p \in texts /\ value[keys[p]] = p
  BY DEF HitTexts, Holds
<1> HIDE DEF S, o, value, keys, D
<1>4. /\ DOMAIN Ascending(Depths(value, o)) = 1 .. Cardinality(hits)
      /\ \A i \in 1 .. Cardinality(hits) :
           /\ Ith(hits, i) \in hits
           /\ Up(o, Ascending(Depths(value, o))[i]) = keys[Ith(hits, i)]
  BY <1>1, <1>2, LookupInOrder
<1>5. Listed(value, o) = ByLength(hits)
  BY <1>3, <1>4 DEF Listed, ByLength
<1>6. Listed(value, o) # <<>> <=> D # {}
  BY <1>1, LookupOfNothing DEF Listed, D
<1>7. D # {} <=> hits # {}
  <2>1. ASSUME NEW p \in hits PROVE D # {}
    <3>1. Len(keys[p]) \in 1 .. Len(o) /\ Up(o, Len(keys[p])) \in DOMAIN value
      BY <1>2 DEF Found
    <3>2. QED
      BY <3>1 DEF D, Depths
  <2>2. ASSUME NEW k \in D PROVE hits # {}
    BY <1>2 DEF Found, D
  <2>3. QED
    BY <2>1, <2>2
<1>8. Cardinality(hits) \in Nat
  BY <1>1, <1>2, LookupInOrder
<1>9. QED
  BY <1>4, <1>5, <1>6, <1>7, <1>8 DEF o, value, D

-----------------------------------------------------------------------------
\* The texts of the patterns of a kind.
TextsOf(kind, patterns) == {p.text : p \in {q \in patterns : q.kind = kind}}

\* The matcher over backend b keeps the patterns: every kind where it belongs.
Keeps(m, b, patterns) ==
    /\ DOMAIN m = {"prefix", "suffix", "exact", "regex", "hash"}
    /\ Holds(m.prefix, b, "prefix", TextsOf("prefix", patterns))
    /\ Holds(m.suffix, b, "suffix", TextsOf("suffix", patterns))
    /\ m.exact = TextsOf("exact", patterns)
    /\ m.regex \in Seq(TextsOf("regex", patterns))
    /\ \A text \in TextsOf("regex", patterns) : \E k \in DOMAIN m.regex : m.regex[k] = text
    /\ DOMAIN m.hash = {p.hex.digest : p \in {q \in patterns : q.kind = "hash"}}

\* The inductive invariant: both matchers keep the accepted patterns, and where
\* the order of the calls shows they are the same.
MatcherInv ==
    /\ added \subseteq MatcherPatterns
    /\ \A b \in Backends : Keeps(matcher[b], b, added)
    /\ matcher["tree"].regex = matcher["qp"].regex
    /\ matcher["tree"].hash = matcher["qp"].hash

\* One pattern more has an effect on its own kind only.
LEMMA TextsOfMore ==
    ASSUME NEW patterns, NEW p, NEW kind
    PROVE  TextsOf(kind, patterns \cup {p})
             = IF p.kind = kind THEN TextsOf(kind, patterns) \cup {p.text} ELSE TextsOf(kind, patterns)
<1>1. CASE p.kind = kind
  <2>1. {q \in patterns \cup {p} : q.kind = kind} = {q \in patterns : q.kind = kind} \cup {p}
    BY <1>1
  <2>2. QED
    BY <1>1, <2>1 DEF TextsOf
<1>2. CASE p.kind # kind
  <2>1. {q \in patterns \cup {p} : q.kind = kind} = {q \in patterns : q.kind = kind}
    BY <1>2
  <2>2. QED
    BY <1>2, <2>1 DEF TextsOf
<1>3. QED
  BY <1>1, <1>2

\* insert puts one text more into a trie.
LEMMA HoldsOneMore ==
    ASSUME NEW kind \in {"prefix", "suffix"}, NEW texts, texts \subseteq TrieTexts,
           NEW text \in TrieTexts, NEW trie
    PROVE  /\ Holds(trie, "tree", kind, texts)
                => Holds(TreeInsert(trie, KeyOf("tree", kind, text), text), "tree", kind, texts \cup {text})
           /\ Holds(trie, "qp", kind, texts)
                => Holds(QpInsert(trie, KeyOf("qp", kind, text), text), "qp", kind, texts \cup {text})
<1>1. ASSUME NEW b \in Backends, Holds(trie, b, kind, texts)
      PROVE  LET value == With(trie.value, KeyOf(b, kind, text), text)
             IN  /\ DOMAIN value = DOMAIN trie.value \cup {KeyOf(b, kind, text)}
                 /\ DOMAIN value = {KeyOf(b, kind, t) : t \in texts \cup {text}}
                 /\ \A t \in texts \cup {text} : value[KeyOf(b, kind, t)] = t
  <2> DEFINE key == KeyOf(b, kind, text)
             value == With(trie.value, key, text)
  <2>1. DOMAIN value = DOMAIN trie.value \cup {key}
    BY DEF With
  <2>2. DOMAIN value = {KeyOf(b, kind, t) : t \in texts \cup {text}}
    <3> HIDE DEF value
    <3> QED
      BY <1>1, <2>1 DEF Holds
  <2>3. ASSUME NEW t \in texts \cup {text} PROVE value[KeyOf(b, kind, t)] = t
    <3>1. KeyOf(b, kind, t) = key => t = text
      BY KeyOfIsInjective
    <3>2. KeyOf(b, kind, t) # key => t \in texts /\ KeyOf(b, kind, t) \in DOMAIN trie.value
      BY <1>1 DEF Holds
    <3>3. value[KeyOf(b, kind, t)] = IF KeyOf(b, kind, t) = key THEN text ELSE trie.value[KeyOf(b, kind, t)]
      BY <3>2 DEF With
    <3> HIDE DEF value, key
    <3>4. QED
      BY <1>1, <3>1, <3>2, <3>3 DEF Holds
  <2>4. QED
    BY <2>1, <2>2, <2>3
<1>2. "tree" \in Backends /\ "qp" \in Backends
  BY DEF Backends
<1>3. ASSUME Holds(trie, "tree", kind, texts)
      PROVE  Holds(TreeInsert(trie, KeyOf("tree", kind, text), text), "tree", kind, texts \cup {text})
  <2> DEFINE t == TreeInsert(trie, KeyOf("tree", kind, text), text)
  <2>1. /\ t.value = With(trie.value, KeyOf("tree", kind, text), text)
        /\ t.nodes = trie.nodes \cup Prefixes(KeyOf("tree", kind, text))
    BY DEF TreeInsert
  <2>2. trie.nodes = Closure(DOMAIN trie.value)
    BY <1>3 DEF Holds
  <2>3. DOMAIN t.value = DOMAIN trie.value \cup {KeyOf("tree", kind, text)}
    BY <1>1, <1>2, <1>3, <2>1
  <2>4. t.nodes = Closure(DOMAIN t.value)
    <3> HIDE DEF t
    <3> QED
      BY <2>1, <2>2, <2>3, ClosureOfMore
  <2>5. QED
    <3> HIDE DEF t
    <3>1. Holds(t, "tree", kind, texts \cup {text})
      BY <1>1, <1>2, <1>3, <2>1, <2>4 DEF Holds
    <3>2. QED
      BY <3>1 DEF t
<1>4. ASSUME Holds(trie, "qp", kind, texts)
      PROVE  Holds(QpInsert(trie, KeyOf("qp", kind, text), text), "qp", kind, texts \cup {text})
  <2> DEFINE t == QpInsert(trie, KeyOf("qp", kind, text), text)
  <2>1. t.value = With(trie.value, KeyOf("qp", kind, text), text)
    BY DEF QpInsert
  <2> HIDE DEF t
  <2>2. Holds(t, "qp", kind, texts \cup {text})
    BY <1>1, <1>2, <1>4, <2>1 DEF Holds
  <2>3. QED
    BY <2>2 DEF t
<1>5. QED
  BY <1>3, <1>4

\* add_pattern stores an acceptable pattern where its kind belongs and leaves the
\* other kinds alone.
LEMMA StoredIsKept ==
    ASSUME NEW b \in Backends, NEW patterns, patterns \subseteq MatcherPatterns,
           NEW m, Keeps(m, b, patterns), NEW p \in MatcherPatterns
    PROVE  Keeps(StoredIn(m, b, p), b, patterns \cup {p})
<1> DEFINE n == StoredIn(m, b, p)
           more == patterns \cup {p}
           Fields == {"prefix", "suffix", "exact", "regex", "hash"}
<1>1. \A kind : TextsOf(kind, more)
        = IF p.kind = kind THEN TextsOf(kind, patterns) \cup {p.text} ELSE TextsOf(kind, patterns)
  BY TextsOfMore
<1>2. /\ TextsOf("prefix", patterns) \subseteq TrieTexts
      /\ TextsOf("suffix", patterns) \subseteq TrieTexts
  BY DEF TextsOf, TrieTexts
<1>3. DOMAIN m = Fields
  BY DEF Keeps
<1>4. {q \in more : q.kind = "hash"}
        = IF p.kind = "hash" THEN {q \in patterns : q.kind = "hash"} \cup {p}
          ELSE {q \in patterns : q.kind = "hash"}
  OBVIOUS
<1>5. CASE p.kind = "exact"
  <2>1. n = [m EXCEPT !.exact = @ \cup {p.text}]
    BY <1>5 DEF StoredIn
  <2>2. /\ DOMAIN n = Fields /\ n.exact = m.exact \cup {p.text}
        /\ n.prefix = m.prefix /\ n.suffix = m.suffix /\ n.regex = m.regex /\ n.hash = m.hash
    BY <1>3, <2>1
  <2> HIDE DEF n, more
  <2>3. Keeps(n, b, more)
    BY <1>1, <1>4, <1>5, <2>2 DEF Keeps
  <2>4. QED
    BY <2>3 DEF n, more
<1>6. CASE p.kind \in {"prefix", "suffix"}
  <2>1. p.text \in TrieTexts
    BY <1>6 DEF TrieTexts
  <2> DEFINE Inserted(trie, kind) ==
               IF b = "tree" THEN TreeInsert(trie, KeyOf("tree", kind, p.text), p.text)
               ELSE QpInsert(trie, KeyOf("qp", kind, p.text), p.text)
  <2>2. b = "tree" \/ b = "qp"
    BY DEF Backends
  <2>3. ASSUME NEW kind \in {"prefix", "suffix"}, NEW trie, NEW texts, texts \subseteq TrieTexts,
               Holds(trie, b, kind, texts)
        PROVE  Holds(Inserted(trie, kind), b, kind, texts \cup {p.text})
    BY <2>1, <2>2, <2>3, HoldsOneMore
  <2>4. CASE p.kind = "prefix"
    <3>1. n = [m EXCEPT !.prefix = Inserted(@, "prefix")]
      BY <2>2, <2>4 DEF StoredIn, KeyOf
    <3>2. /\ DOMAIN n = Fields /\ n.prefix = Inserted(m.prefix, "prefix")
          /\ n.exact = m.exact /\ n.suffix = m.suffix /\ n.regex = m.regex /\ n.hash = m.hash
      BY <1>3, <3>1
    <3>3. Holds(n.prefix, b, "prefix", TextsOf("prefix", patterns) \cup {p.text})
      <4>1. Holds(m.prefix, b, "prefix", TextsOf("prefix", patterns))
        BY DEF Keeps
      <4> HIDE DEF Inserted, n
      <4>2. Holds(Inserted(m.prefix, "prefix"), b, "prefix", TextsOf("prefix", patterns) \cup {p.text})
        BY <1>2, <2>3, <4>1
      <4>3. QED
        BY <3>2, <4>2
    <3> HIDE DEF n, more
    <3>4. Keeps(n, b, more)
      BY <1>1, <1>4, <2>4, <3>2, <3>3 DEF Keeps
    <3>5. QED
      BY <3>4 DEF n, more
  <2>5. CASE p.kind = "suffix"
    <3>1. n = [m EXCEPT !.suffix = Inserted(@, "suffix")]
      BY <2>2, <2>5 DEF StoredIn, KeyOf
    <3>2. /\ DOMAIN n = Fields /\ n.suffix = Inserted(m.suffix, "suffix")
          /\ n.exact = m.exact /\ n.prefix = m.prefix /\ n.regex = m.regex /\ n.hash = m.hash
      BY <1>3, <3>1
    <3>3. Holds(n.suffix, b, "suffix", TextsOf("suffix", patterns) \cup {p.text})
      <4>1. Holds(m.suffix, b, "suffix", TextsOf("suffix", patterns))
        BY DEF Keeps
      <4> HIDE DEF Inserted, n
      <4>2. Holds(Inserted(m.suffix, "suffix"), b, "suffix", TextsOf("suffix", patterns) \cup {p.text})
        BY <1>2, <2>3, <4>1
      <4>3. QED
        BY <3>2, <4>2
    <3> HIDE DEF n, more
    <3>4. Keeps(n, b, more)
      BY <1>1, <1>4, <2>5, <3>2, <3>3 DEF Keeps
    <3>5. QED
      BY <3>4 DEF n, more
  <2>6. QED
    BY <1>6, <2>4, <2>5
<1>7. CASE p.kind = "regex"
  <2>1. n = [m EXCEPT !.regex = Append(@, p.text)]
    BY <1>7 DEF StoredIn
  <2>2. /\ DOMAIN n = Fields /\ n.regex = Append(m.regex, p.text)
        /\ n.exact = m.exact /\ n.prefix = m.prefix /\ n.suffix = m.suffix /\ n.hash = m.hash
    BY <1>3, <2>1
  <2>3. /\ n.regex \in Seq(TextsOf("regex", patterns) \cup {p.text})
        /\ \A text \in TextsOf("regex", patterns) \cup {p.text} : \E k \in DOMAIN n.regex : n.regex[k] = text
    <3> DEFINE T == TextsOf("regex", patterns)
               r == m.regex
    <3>1. r \in Seq(T) /\ \A text \in T : \E k \in DOMAIN r : r[k] = text
      BY DEF Keeps
    <3> HIDE DEF T, r
    <3>2. Append(r, p.text) \in Seq(T \cup {p.text})
      BY <3>1
    <3>3. /\ \A k \in DOMAIN r : k \in DOMAIN Append(r, p.text) /\ Append(r, p.text)[k] = r[k]
          /\ Len(r) + 1 \in DOMAIN Append(r, p.text) /\ Append(r, p.text)[Len(r) + 1] = p.text
      BY <3>1
    <3>4. \A text \in T \cup {p.text} : \E k \in DOMAIN Append(r, p.text) : Append(r, p.text)[k] = text
      BY <3>1, <3>3
    <3>5. QED
      BY <2>2, <3>2, <3>4 DEF T, r
  <2> HIDE DEF n, more
  <2>4. Keeps(n, b, more)
    BY <1>1, <1>4, <1>7, <2>2, <2>3 DEF Keeps
  <2>5. QED
    BY <2>4 DEF n, more
<1>8. CASE p.kind = "hash"
  <2>1. n = [m EXCEPT !.hash = With(@, p.hex.digest, p.hex)]
    BY <1>8 DEF StoredIn
  <2>2. /\ DOMAIN n = Fields /\ n.hash = With(m.hash, p.hex.digest, p.hex)
        /\ n.exact = m.exact /\ n.prefix = m.prefix /\ n.suffix = m.suffix /\ n.regex = m.regex
    BY <1>3, <2>1
  <2>3. DOMAIN n.hash = {q.hex.digest : q \in {q \in patterns : q.kind = "hash"} \cup {p}}
    <3>1. DOMAIN n.hash = DOMAIN m.hash \cup {p.hex.digest}
      BY <2>2 DEF With
    <3> HIDE DEF n
    <3>2. QED
      BY <3>1 DEF Keeps
  <2> HIDE DEF n, more
  <2>4. Keeps(n, b, more)
    BY <1>1, <1>4, <1>8, <2>2, <2>3 DEF Keeps
  <2>5. QED
    BY <2>4 DEF n, more
<1>9. QED
  BY <1>5, <1>6, <1>7, <1>8, MatcherConstants

\* The invariant holds of every behaviour.
THEOREM MatcherInvariant == MSpec => []MatcherInv
<1>1. MInit => MatcherInv
  <2> SUFFICES ASSUME MInit PROVE MatcherInv
    OBVIOUS
  <2>1. \A kind : TextsOf(kind, added) = {}
    BY DEF MInit, TextsOf
  <2>2. ASSUME NEW b \in Backends PROVE Keeps(matcher[b], b, added)
    <3> DEFINE m == matcher[b]
               empty == IF b = "tree" THEN EmptyTree ELSE EmptyQp
    <3>1. m = [prefix |-> empty, suffix |-> empty, exact |-> {}, regex |-> <<>>, hash |-> <<>>]
      BY DEF MInit
    <3>2. DOMAIN <<>> = {} /\ <<>> \in Seq({})
      OBVIOUS
    <3>3. Closure({}) = {<<>>}
      BY NoPatternsNoNodes
    <3>4. \A kind : Holds(empty, b, kind, {})
      BY <3>2, <3>3 DEF Holds, EmptyTree, EmptyQp
    <3>5. {q \in added : q.kind = "hash"} = {}
      BY DEF MInit
    <3> HIDE DEF m, empty
    <3>6. Keeps(m, b, added)
      BY <2>1, <3>1, <3>2, <3>4, <3>5 DEF Keeps
    <3>7. QED
      BY <3>6 DEF m
  <2>3. QED
    BY <2>2 DEF MInit, MatcherInv, Backends
<1>2. MatcherInv /\ [MNext]_matcherVars => MatcherInv'
  <2> SUFFICES ASSUME MatcherInv, [MNext]_matcherVars PROVE MatcherInv'
    OBVIOUS
  <2>1. ASSUME NEW p \in MatcherPatterns, AddPattern(p) PROVE MatcherInv'
    <3>1. AddError(matcher["tree"], p) = AddError(matcher["qp"], p)
      BY DEF MatcherInv, AddError
    <3>2. \A b \in Backends : AddError(matcher[b], p) = AddError(matcher["tree"], p)
      BY <3>1 DEF Backends
    <3>3. CASE AddError(matcher["tree"], p) = "none"
      <4>1. /\ \A b \in Backends : matcher'[b] = StoredIn(matcher[b], b, p)
            /\ added' = added \cup {p}
        BY <2>1, <3>2, <3>3 DEF AddPattern
      <4>2. added' \subseteq MatcherPatterns /\ \A b \in Backends : Keeps(matcher'[b], b, added')
        BY <4>1, StoredIsKept DEF MatcherInv
      <4>3. matcher'["tree"].regex = matcher'["qp"].regex /\ matcher'["tree"].hash = matcher'["qp"].hash
        <5>1. ASSUME NEW b \in Backends
              PROVE  /\ StoredIn(matcher[b], b, p).regex
                          = IF p.kind = "regex" THEN Append(matcher[b].regex, p.text) ELSE matcher[b].regex
                     /\ StoredIn(matcher[b], b, p).hash
                          = IF p.kind = "hash" THEN With(matcher[b].hash, p.hex.digest, p.hex)
                            ELSE matcher[b].hash
          <6> DEFINE m == matcher[b]
          <6>1. DOMAIN m = {"prefix", "suffix", "exact", "regex", "hash"}
            BY DEF MatcherInv, Keeps
          <6>2. p.kind \in {"exact", "prefix", "suffix", "regex", "hash"} /\ (b = "tree" \/ b = "qp")
            BY MatcherConstants DEF Backends
          <6> HIDE DEF m
          <6>3. /\ StoredIn(m, b, p).regex
                     = IF p.kind = "regex" THEN Append(m.regex, p.text) ELSE m.regex
                /\ StoredIn(m, b, p).hash
                     = IF p.kind = "hash" THEN With(m.hash, p.hex.digest, p.hex) ELSE m.hash
            BY <6>1, <6>2 DEF StoredIn
          <6>4. QED
            BY <6>3 DEF m
        <5>2. QED
          BY <4>1, <5>1 DEF MatcherInv, Backends
      <4>4. QED
        BY <4>2, <4>3 DEF MatcherInv
    <3>4. CASE AddError(matcher["tree"], p) # "none"
      <4>1. (\A b \in Backends : matcher'[b] = matcher[b]) /\ added' = added
        BY <2>1, <3>2, <3>4 DEF AddPattern
      <4>2. QED
        BY <4>1 DEF MatcherInv, Backends
    <3>5. QED
      BY <3>3, <3>4
  <2>2. CASE UNCHANGED matcherVars
    BY <2>2 DEF matcherVars, MatcherInv
  <2>3. QED
    BY <2>1, <2>2 DEF MNext
<1>3. QED
  BY <1>1, <1>2, PTL DEF MSpec

-----------------------------------------------------------------------------
\* The kinds of some labels.
KindsOf(labels) == {label[1] : label \in ToSet(labels)}

\* Some labels and then others.
LEMMA KindsOfBoth ==
    ASSUME NEW A, NEW B, NEW x \in Seq(A), NEW y \in Seq(B)
    PROVE  /\ x \o y \in Seq(A \cup B)
           /\ \A k : k \in KindsOf(x \o y) <=> k \in KindsOf(x) \/ k \in KindsOf(y)
<1>1. /\ Len(x) \in Nat /\ Len(y) \in Nat
      /\ x \in Seq(A \cup B) /\ y \in Seq(A \cup B)
      /\ DOMAIN x = 1 .. Len(x) /\ DOMAIN y = 1 .. Len(y)
  OBVIOUS
<1>2. x \o y \in Seq(A \cup B) /\ DOMAIN (x \o y) = 1 .. Len(x) + Len(y)
  BY <1>1
<1>3. \A i \in 1 .. Len(x) : i \in DOMAIN (x \o y) /\ (x \o y)[i] = x[i]
  BY <1>1, <1>2
<1>4. \A i \in 1 .. Len(y) : Len(x) + i \in DOMAIN (x \o y) /\ (x \o y)[Len(x) + i] = y[i]
  BY <1>1, <1>2
<1>5. ASSUME NEW i \in DOMAIN (x \o y)
      PROVE  (x \o y)[i] \in ToSet(x) \cup ToSet(y)
  <2>1. CASE i <= Len(x)
    BY <1>1, <1>2, <1>3, <2>1 DEF ToSet
  <2>2. CASE i > Len(x)
    <3>1. i - Len(x) \in 1 .. Len(y) /\ Len(x) + (i - Len(x)) = i
      BY <1>1, <1>2, <2>2
    <3>2. (x \o y)[i] = y[i - Len(x)]
      BY <1>4, <3>1
    <3>3. QED
      BY <1>1, <3>1, <3>2 DEF ToSet
  <2>3. QED
    BY <1>1, <1>2, <2>1, <2>2
<1>6. ToSet(x \o y) = ToSet(x) \cup ToSet(y)
  <2>1. ToSet(x \o y) \subseteq ToSet(x) \cup ToSet(y)
    BY <1>5 DEF ToSet
  <2>2. ToSet(x) \subseteq ToSet(x \o y)
    BY <1>1, <1>3 DEF ToSet
  <2>3. ToSet(y) \subseteq ToSet(x \o y)
    BY <1>1, <1>4 DEF ToSet
  <2>4. QED
    BY <2>1, <2>2, <2>3
<1>7. QED
  BY <1>2, <1>6 DEF KindsOf

\* The labels of one kind.
LEMMA KindOfLabel ==
    ASSUME NEW kind, NEW texts, NEW n \in Nat, DOMAIN texts = 1 .. n
    PROVE  /\ Label(kind, texts) \in Seq({<<kind, texts[i]>> : i \in 1 .. n})
           /\ KindsOf(Label(kind, texts)) = IF n = 0 THEN {} ELSE {kind}
<1> DEFINE labels == Label(kind, texts)
           L == {<<kind, texts[i]>> : i \in 1 .. n}
<1>1. DOMAIN labels = 1 .. n /\ \A i \in 1 .. n : labels[i] = <<kind, texts[i]>>
  BY DEF Label
<1>2. labels \in [1 .. n -> L]
  BY DEF Label
<1> HIDE DEF labels
<1>3. labels \in Seq(L)
  <2> HIDE DEF L
  <2> QED
    BY <1>2, IsASeq
<1>4. ToSet(labels) = L /\ \A label \in L : label[1] = kind
  <2>1. ToSet(labels) = L
    BY <1>1, Zenon DEF ToSet
  <2>2. \A label \in L : label[1] = kind
    OBVIOUS
  <2>3. QED
    BY <2>1, <2>2
<1>5. KindsOf(labels) = IF n = 0 THEN {} ELSE {kind}
  <2>1. CASE n = 0
    BY <1>4, <2>1 DEF KindsOf
  <2>2. CASE n # 0
    <3>1. L # {}
      <4>1. 1 \in 1 .. n
        BY <2>2
      <4>2. QED
        BY <4>1
    <3> HIDE DEF L
    <3>2. KindsOf(labels) = {kind}
      BY <1>4, <3>1 DEF KindsOf
    <3>3. QED
      BY <2>2, <3>2
  <2>3. QED
    BY <2>1, <2>2
<1>6. QED
  BY <1>3, <1>5 DEF labels

\* At most one label.
LEMMA KindOfOne ==
    ASSUME NEW kind, NEW text
    PROVE  /\ << <<kind, text>> >> \in Seq({<<kind, text>>})
           /\ KindsOf(<< <<kind, text>> >>) = {kind}
           /\ <<>> \in Seq({<<kind, text>>})
           /\ KindsOf(<<>>) = {}
BY DEF KindsOf, ToSet

\* The accepted texts of a kind that a URI has.
Hit(kind, uri) == HitTexts(kind, TextsOf(kind, added), uri)

\* Both tries of both matchers list exactly these.
LEMMA SearchesList ==
    ASSUME MatcherInv, NEW uri \in MatcherTexts
    PROVE  /\ TreeSearch(matcher["tree"].prefix, uri) = ByLength(Hit("prefix", uri))
           /\ TreeSearch(matcher["tree"].suffix, Reverse(uri)) = ByLength(Hit("suffix", uri))
           /\ QpSearch(matcher["qp"].prefix, Bytes(uri)) = ByLength(Hit("prefix", uri))
           /\ QpSearch(matcher["qp"].suffix, Reverse(Bytes(uri))) = ByLength(Hit("suffix", uri))
           /\ QpContains(matcher["qp"].prefix, Bytes(uri)) <=> Hit("prefix", uri) # {}
           /\ QpContains(matcher["qp"].suffix, Reverse(Bytes(uri))) <=> Hit("suffix", uri) # {}
           /\ \A kind \in {"prefix", "suffix"} :
                /\ Cardinality(Hit(kind, uri)) \in Nat
                /\ ByLength(Hit(kind, uri)) # <<>> <=> Hit(kind, uri) # {}
                /\ Cardinality(Hit(kind, uri)) = 0 <=> Hit(kind, uri) = {}
<1>1. "tree" \in Backends /\ "qp" \in Backends
  BY DEF Backends
<1>2. \A kind \in {"prefix", "suffix"} : TextsOf(kind, added) \subseteq TrieTexts
  BY DEF MatcherInv, TextsOf, TrieTexts
<1>3. ASSUME NEW b \in Backends, NEW kind \in {"prefix", "suffix"}, NEW trie,
             Holds(trie, b, kind, TextsOf(kind, added))
      PROVE  /\ Listed(trie.value, KeyOf(b, kind, uri)) = ByLength(Hit(kind, uri))
             /\ Cardinality(Hit(kind, uri)) \in Nat
             /\ ByLength(Hit(kind, uri)) # <<>> <=> Hit(kind, uri) # {}
             /\ Depths(trie.value, KeyOf(b, kind, uri)) # {} <=> Hit(kind, uri) # {}
  <2> DEFINE texts == TextsOf(kind, added)
             hits == HitTexts(kind, texts, uri)
  <2>1. texts \subseteq TrieTexts /\ Holds(trie, b, kind, texts)
    BY <1>2, <1>3
  <2>2. hits = HitTexts(kind, texts, uri)
    OBVIOUS
  <2> HIDE DEF texts, hits
  <2>3. /\ Listed(trie.value, KeyOf(b, kind, uri)) = ByLength(hits)
        /\ Cardinality(hits) \in Nat
        /\ Listed(trie.value, KeyOf(b, kind, uri)) # <<>> <=> hits # {}
    BY <2>1, <2>2, TrieLists
  <2>4. Listed(trie.value, KeyOf(b, kind, uri)) # <<>> <=> Depths(trie.value, KeyOf(b, kind, uri)) # {}
    <3> DEFINE S == Alphabet(b)
               o == KeyOf(b, kind, uri)
    <3>1. o \in Seq(S)
      BY KeyIsSeq
    <3> HIDE DEF S, o
    <3>2. Listed(trie.value, o) # <<>> <=> Depths(trie.value, o) # {}
      BY <3>1, LookupOfNothing DEF Listed
    <3>3. QED
      BY <3>2 DEF o
  <2>5. hits = Hit(kind, uri)
    BY DEF hits, texts, Hit
  <2>6. QED
    BY <2>3, <2>4, <2>5
<1>4. ASSUME NEW kind \in {"prefix", "suffix"}, NEW trie,
             Holds(trie, "tree", kind, TextsOf(kind, added))
      PROVE  TreeSearch(trie, KeyOf("tree", kind, uri)) = Listed(trie.value, KeyOf("tree", kind, uri))
  <2> DEFINE o == KeyOf("tree", kind, uri)
  <2>1. o \in Seq(Chars)
    BY <1>1, KeyIsSeq DEF Alphabet
  <2>2. DOMAIN trie.value \subseteq Seq(Chars) /\ trie.nodes = Closure(DOMAIN trie.value)
    <3>1. ASSUME NEW text \in TextsOf(kind, added) PROVE KeyOf("tree", kind, text) \in Seq(Chars)
      <4>1. text \in TrieTexts
        BY <1>2
      <4>2. QED
        BY <1>1, <4>1, KeyFacts DEF Alphabet
    <3>2. QED
      BY <1>4, <3>1 DEF Holds
  <2> HIDE DEF o
  <2>3. {k \in 1 .. Reach(trie, o) : SubSeq(o, 1, k) \in DOMAIN trie.value} = Depths(trie.value, o)
    BY <2>1, <2>2, WalkIsLongEnough
  <2>4. TreeSearch(trie, o) = Listed(trie.value, o)
    BY <2>3 DEF TreeSearch, Listed, Up
  <2>5. QED
    BY <2>4 DEF o
<1>5. ASSUME NEW trie, NEW o
      PROVE  /\ QpSearch(trie, o) = Listed(trie.value, o)
             /\ QpContains(trie, o) <=> Depths(trie.value, o) # {}
  BY DEF QpSearch, QpContains, Listed, Depths, Up
<1>6. /\ Holds(matcher["tree"].prefix, "tree", "prefix", TextsOf("prefix", added))
      /\ Holds(matcher["tree"].suffix, "tree", "suffix", TextsOf("suffix", added))
      /\ Holds(matcher["qp"].prefix, "qp", "prefix", TextsOf("prefix", added))
      /\ Holds(matcher["qp"].suffix, "qp", "suffix", TextsOf("suffix", added))
  BY <1>1 DEF MatcherInv, Keeps
<1>7. /\ KeyOf("tree", "prefix", uri) = uri /\ KeyOf("tree", "suffix", uri) = Reverse(uri)
      /\ KeyOf("qp", "prefix", uri) = Bytes(uri) /\ KeyOf("qp", "suffix", uri) = Reverse(Bytes(uri))
  BY DEF KeyOf
<1>8. /\ TreeSearch(matcher["tree"].prefix, uri) = ByLength(Hit("prefix", uri))
      /\ TreeSearch(matcher["tree"].suffix, Reverse(uri)) = ByLength(Hit("suffix", uri))
  BY <1>1, <1>3, <1>4, <1>6, <1>7
<1>9. /\ QpSearch(matcher["qp"].prefix, Bytes(uri)) = ByLength(Hit("prefix", uri))
      /\ QpSearch(matcher["qp"].suffix, Reverse(Bytes(uri))) = ByLength(Hit("suffix", uri))
      /\ QpContains(matcher["qp"].prefix, Bytes(uri)) <=> Hit("prefix", uri) # {}
      /\ QpContains(matcher["qp"].suffix, Reverse(Bytes(uri))) <=> Hit("suffix", uri) # {}
  <2>1. ASSUME NEW kind \in {"prefix", "suffix"}, NEW trie, Holds(trie, "qp", kind, TextsOf(kind, added))
        PROVE  /\ QpSearch(trie, KeyOf("qp", kind, uri)) = ByLength(Hit(kind, uri))
               /\ QpContains(trie, KeyOf("qp", kind, uri)) <=> Hit(kind, uri) # {}
    <3>1. /\ Listed(trie.value, KeyOf("qp", kind, uri)) = ByLength(Hit(kind, uri))
          /\ Depths(trie.value, KeyOf("qp", kind, uri)) # {} <=> Hit(kind, uri) # {}
      BY <1>1, <1>3, <2>1
    <3>2. QED
      BY <1>5, <3>1
  <2>2. QED
    BY <1>6, <1>7, <2>1
<1>10. ASSUME NEW kind \in {"prefix", "suffix"}
       PROVE  /\ Cardinality(Hit(kind, uri)) \in Nat
              /\ ByLength(Hit(kind, uri)) # <<>> <=> Hit(kind, uri) # {}
              /\ Cardinality(Hit(kind, uri)) = 0 <=> Hit(kind, uri) = {}
  <2>1. /\ Cardinality(Hit(kind, uri)) \in Nat
        /\ ByLength(Hit(kind, uri)) # <<>> <=> Hit(kind, uri) # {}
    BY <1>1, <1>3, <1>6
  <2>2. Cardinality(Hit(kind, uri)) = 0 <=> ByLength(Hit(kind, uri)) = <<>>
    <3> DEFINE n == Cardinality(Hit(kind, uri))
               list == ByLength(Hit(kind, uri))
    <3>1. n \in Nat /\ DOMAIN list = 1 .. n /\ list = [i \in 1 .. n |-> list[i]]
      BY <2>1 DEF ByLength
    <3> HIDE DEF n, list
    <3>2. n = 0 <=> list = <<>>
      BY <3>1
    <3>3. QED
      BY <3>2 DEF n, list
  <2>3. QED
    BY <2>1, <2>2
<1>11. QED
  BY <1>8, <1>9, <1>10

\* The kinds of the accepted patterns that apply to a URI.
AppliedKinds(uri) == {p.kind : p \in {q \in added : Applies(q, uri)}}

\* Kind by kind, in terms of what the matchers keep.
LEMMA WhatApplies ==
    ASSUME MatcherInv, NEW uri
    PROVE  /\ AppliedKinds(uri) \subseteq {"exact", "prefix", "suffix", "regex", "hash"}
           /\ "exact" \in AppliedKinds(uri) <=> uri \in TextsOf("exact", added)
           /\ \A kind \in {"prefix", "suffix"} : kind \in AppliedKinds(uri) <=> Hit(kind, uri) # {}
           /\ "regex" \in AppliedKinds(uri) <=> \E text \in TextsOf("regex", added) : RegexMatches(text, uri)
           /\ "hash" \in AppliedKinds(uri)
                <=> Digest("Sha256", uri) \in {p.hex.digest : p \in {q \in added : q.kind = "hash"}}
<1>1. \A p \in added : p.kind \in {"exact", "prefix", "suffix", "regex", "hash"}
  BY MatcherConstants DEF MatcherInv
<1>2. \A kind : kind \in AppliedKinds(uri) <=> \E p \in added : p.kind = kind /\ Applies(p, uri)
  BY DEF AppliedKinds
<1>3. AppliedKinds(uri) \subseteq {"exact", "prefix", "suffix", "regex", "hash"}
  BY <1>1 DEF AppliedKinds
<1>4. "exact" \in AppliedKinds(uri) <=> uri \in TextsOf("exact", added)
  <2>1. \A p \in added : p.kind = "exact" => (Applies(p, uri) <=> uri = p.text)
    BY DEF Applies
  <2>2. QED
    BY <1>2, <2>1 DEF TextsOf
<1>5. ASSUME NEW kind \in {"prefix", "suffix"} PROVE kind \in AppliedKinds(uri) <=> Hit(kind, uri) # {}
  <2>1. \A p \in added : p.kind = kind => (Applies(p, uri) <=> p.text # <<>> /\ AtSide(kind, p.text, uri))
    BY DEF Applies, AtSide
  <2>2. Hit(kind, uri) # {} <=> \E p \in added : p.kind = kind /\ p.text # <<>> /\ AtSide(kind, p.text, uri)
    BY DEF Hit, HitTexts, TextsOf
  <2>3. QED
    BY <1>2, <2>1, <2>2
<1>6. "regex" \in AppliedKinds(uri) <=> \E text \in TextsOf("regex", added) : RegexMatches(text, uri)
  <2>1. \A p \in added : p.kind = "regex" => (Applies(p, uri) <=> RegexMatches(p.text, uri))
    BY DEF Applies
  <2>2. QED
    BY <1>2, <2>1 DEF TextsOf
<1>7. "hash" \in AppliedKinds(uri)
        <=> Digest("Sha256", uri) \in {p.hex.digest : p \in {q \in added : q.kind = "hash"}}
  <2>1. \A p \in added : p.kind = "hash" => (Applies(p, uri) <=> p.hex.digest = Digest("Sha256", uri))
    BY DEF Applies
  <2>2. QED
    BY <1>2, <2>1
<1>8. QED
  BY <1>3, <1>4, <1>5, <1>6, <1>7

\* Where in the list of regexes the ones are that match, and their labels.
RegexHits(m, uri) == {k \in DOMAIN m.regex : RegexMatches(m.regex[k], uri)}
RegexLabels(m, uri) ==
    Label("regex", [i \in DOMAIN Ascending(RegexHits(m, uri)) |-> m.regex[Ascending(RegexHits(m, uri))[i]]])
ExactLabels(m, uri) == IF uri \in m.exact THEN << <<"exact", uri>> >> ELSE <<>>
HashLabels(m, uri) ==
    IF Digest("Sha256", uri) \in DOMAIN m.hash THEN << <<"hash", m.hash[Digest("Sha256", uri)]>> >> ELSE <<>>

\* There is a regex label exactly if a regex matches.
LEMMA RegexKind ==
    ASSUME NEW m, NEW T, m.regex \in Seq(T), NEW uri
    PROVE  /\ \E A : RegexLabels(m, uri) \in Seq(A)
           /\ KindsOf(RegexLabels(m, uri)) = IF RegexHits(m, uri) = {} THEN {} ELSE {"regex"}
<1> DEFINE H == RegexHits(m, uri)
           texts == [i \in DOMAIN Ascending(H) |-> m.regex[Ascending(H)[i]]]
<1>1. IsFiniteSet(H) /\ H \subseteq Nat
  <2>1. DOMAIN m.regex = 1 .. Len(m.regex) /\ Len(m.regex) \in Nat
    OBVIOUS
  <2>2. IsFiniteSet(1 .. Len(m.regex)) /\ H \in SUBSET (1 .. Len(m.regex))
    BY <2>1, FS_Interval DEF RegexHits
  <2>3. QED
    BY <2>1, <2>2, FS_Subset
<1>2. DOMAIN texts = DOMAIN Ascending(H)
  OBVIOUS
<1>3. RegexLabels(m, uri) = Label("regex", texts)
  BY DEF RegexLabels
<1> HIDE DEF texts, H
<1>4. Cardinality(H) \in Nat /\ DOMAIN texts = 1 .. Cardinality(H)
  BY <1>1, <1>2, AscendingLists
<1>5. Cardinality(H) = 0 <=> H = {}
  BY <1>1, FS_EmptySet
<1> DEFINE n == Cardinality(H)
<1> HIDE DEF n
<1>6. /\ Label("regex", texts) \in Seq({<<"regex", texts[i]>> : i \in 1 .. n})
      /\ KindsOf(Label("regex", texts)) = IF n = 0 THEN {} ELSE {"regex"}
  BY <1>4, KindOfLabel DEF n
<1>7. QED
  BY <1>3, <1>5, <1>6 DEF n, H

\* get_matching_patterns is a row of five lists, of which none depends on the
\* backend.
LEMMA LabelsInARow ==
    ASSUME MatcherInv, NEW uri \in MatcherTexts, NEW b \in Backends
    PROVE  GetMatchingPatterns(b, uri)
             = ExactLabels(matcher["tree"], uri)
               \o (Label("prefix", ByLength(Hit("prefix", uri))) \o Label("suffix", ByLength(Hit("suffix", uri))))
               \o RegexLabels(matcher["tree"], uri)
               \o HashLabels(matcher["tree"], uri)
<1>1. TrieLabels(b, matcher[b], uri)
        = Label("prefix", ByLength(Hit("prefix", uri))) \o Label("suffix", ByLength(Hit("suffix", uri)))
  BY SearchesList DEF TrieLabels, Backends
<1>2. /\ matcher[b].exact = matcher["tree"].exact
      /\ matcher[b].regex = matcher["tree"].regex
      /\ matcher[b].hash = matcher["tree"].hash
  BY DEF MatcherInv, Keeps, Backends
<1>3. GetMatchingPatterns(b, uri)
        = ExactLabels(matcher[b], uri) \o TrieLabels(b, matcher[b], uri)
          \o RegexLabels(matcher[b], uri) \o HashLabels(matcher[b], uri)
  BY DEF GetMatchingPatterns, ExactLabels, RegexLabels, RegexHits, HashLabels
<1>4. /\ ExactLabels(matcher[b], uri) = ExactLabels(matcher["tree"], uri)
      /\ RegexLabels(matcher[b], uri) = RegexLabels(matcher["tree"], uri)
      /\ HashLabels(matcher[b], uri) = HashLabels(matcher["tree"], uri)
  BY <1>2 DEF ExactLabels, RegexLabels, RegexHits, HashLabels
<1>5. QED
  BY <1>1, <1>3, <1>4

\* Five lists in a row have the kinds that each has.
LEMMA KindsInARow ==
    ASSUME NEW A, NEW B, NEW C, NEW D, NEW E,
           NEW a \in Seq(A), NEW b \in Seq(B), NEW c \in Seq(C), NEW d \in Seq(D), NEW e \in Seq(E)
    PROVE  \A k : k \in KindsOf(a \o (b \o c) \o d \o e)
                    <=> \E x \in {a, b, c, d, e} : k \in KindsOf(x)
<1> DEFINE x == b \o c
           X == B \cup C
           y == a \o x
           Y == A \cup X
           z == y \o d
           Z == Y \cup D
<1>1. x \in Seq(X) /\ \A k : k \in KindsOf(x) <=> k \in KindsOf(b) \/ k \in KindsOf(c)
  BY KindsOfBoth
<1> HIDE DEF x, X
<1>2. y \in Seq(Y) /\ \A k : k \in KindsOf(y) <=> k \in KindsOf(a) \/ k \in KindsOf(x)
  BY <1>1, KindsOfBoth
<1> HIDE DEF y, Y
<1>3. z \in Seq(Z) /\ \A k : k \in KindsOf(z) <=> k \in KindsOf(y) \/ k \in KindsOf(d)
  BY <1>2, KindsOfBoth
<1> HIDE DEF z, Z
<1>4. \A k : k \in KindsOf(z \o e) <=> k \in KindsOf(z) \/ k \in KindsOf(e)
  BY <1>3, KindsOfBoth
<1>5. \A k : k \in KindsOf(z \o e) <=> \E w \in {a, b, c, d, e} : k \in KindsOf(w)
  BY <1>1, <1>2, <1>3, <1>4
<1>6. QED
  BY <1>5 DEF x, y, z

\* So the kinds of the labels are those of the patterns that apply.
LEMMA LabelsHaveTheKinds ==
    ASSUME MatcherInv, NEW uri \in MatcherTexts
    PROVE  KindsOf(GetMatchingPatterns("tree", uri)) = AppliedKinds(uri)
<1> DEFINE m == matcher["tree"]
           digest == Digest("Sha256", uri)
           a == ExactLabels(m, uri)
           b == Label("prefix", ByLength(Hit("prefix", uri)))
           c == Label("suffix", ByLength(Hit("suffix", uri)))
           d == RegexLabels(m, uri)
           e == HashLabels(m, uri)
<1>1. "tree" \in Backends /\ Keeps(m, "tree", added)
  BY DEF MatcherInv, Backends
<1>2. GetMatchingPatterns("tree", uri) = a \o (b \o c) \o d \o e
  BY <1>1, LabelsInARow
<1>3. (\E A : a \in Seq(A)) /\ KindsOf(a) = IF "exact" \in AppliedKinds(uri) THEN {"exact"} ELSE {}
  <2>1. uri \in m.exact <=> "exact" \in AppliedKinds(uri)
    BY <1>1, WhatApplies DEF Keeps
  <2>2. QED
    BY <2>1, KindOfOne DEF ExactLabels
<1>4. ASSUME NEW kind \in {"prefix", "suffix"}
      PROVE  /\ \E A : Label(kind, ByLength(Hit(kind, uri))) \in Seq(A)
             /\ KindsOf(Label(kind, ByLength(Hit(kind, uri))))
                  = IF kind \in AppliedKinds(uri) THEN {kind} ELSE {}
  <2> DEFINE texts == ByLength(Hit(kind, uri))
             n == Cardinality(Hit(kind, uri))
  <2>1. n \in Nat /\ (n = 0 <=> Hit(kind, uri) = {})
    BY SearchesList
  <2>2. DOMAIN texts = 1 .. n
    BY DEF ByLength
  <2>3. kind \in AppliedKinds(uri) <=> Hit(kind, uri) # {}
    BY WhatApplies
  <2> HIDE DEF texts, n
  <2>4. /\ Label(kind, texts) \in Seq({<<kind, texts[i]>> : i \in 1 .. n})
        /\ KindsOf(Label(kind, texts)) = IF n = 0 THEN {} ELSE {kind}
    BY <2>1, <2>2, KindOfLabel
  <2>5. QED
    BY <2>1, <2>3, <2>4 DEF texts
<1>5. (\E A : d \in Seq(A)) /\ KindsOf(d) = IF "regex" \in AppliedKinds(uri) THEN {"regex"} ELSE {}
  <2>1. /\ m.regex \in Seq(TextsOf("regex", added))
        /\ \A text \in TextsOf("regex", added) : \E k \in DOMAIN m.regex : m.regex[k] = text
    BY <1>1 DEF Keeps
  <2>2. RegexHits(m, uri) # {} <=> \E text \in TextsOf("regex", added) : RegexMatches(text, uri)
    <3> HIDE DEF m
    <3>1. \A k \in DOMAIN m.regex : m.regex[k] \in TextsOf("regex", added)
      BY <2>1
    <3>2. QED
      BY <2>1, <3>1 DEF RegexHits
  <2>3. "regex" \in AppliedKinds(uri) <=> RegexHits(m, uri) # {}
    BY <2>2, WhatApplies
  <2> HIDE DEF m
  <2>4. (\E A : d \in Seq(A)) /\ KindsOf(d) = IF RegexHits(m, uri) = {} THEN {} ELSE {"regex"}
    BY <2>1, RegexKind
  <2>5. QED
    BY <2>3, <2>4
<1>6. (\E A : e \in Seq(A)) /\ KindsOf(e) = IF "hash" \in AppliedKinds(uri) THEN {"hash"} ELSE {}
  <2>1. digest \in DOMAIN m.hash <=> "hash" \in AppliedKinds(uri)
    BY <1>1, WhatApplies DEF Keeps
  <2>2. QED
    BY <2>1, KindOfOne DEF HashLabels
<1>7. PICK A : a \in Seq(A)
  BY <1>3
<1>8. PICK B : b \in Seq(B)
  BY <1>4
<1>9. PICK C : c \in Seq(C)
  BY <1>4
<1>10. PICK D : d \in Seq(D)
  BY <1>5
<1>11. PICK E : e \in Seq(E)
  BY <1>6
<1>12. /\ KindsOf(b) = IF "prefix" \in AppliedKinds(uri) THEN {"prefix"} ELSE {}
       /\ KindsOf(c) = IF "suffix" \in AppliedKinds(uri) THEN {"suffix"} ELSE {}
  BY <1>4
<1> HIDE DEF a, b, c, d, e
<1>13. \A k : k \in KindsOf(a \o (b \o c) \o d \o e) <=> \E x \in {a, b, c, d, e} : k \in KindsOf(x)
  BY <1>7, <1>8, <1>9, <1>10, <1>11, KindsInARow
<1>14. AppliedKinds(uri) \subseteq {"exact", "prefix", "suffix", "regex", "hash"}
  BY WhatApplies
<1>15. \A k : (\E x \in {a, b, c, d, e} : k \in KindsOf(x)) <=> k \in AppliedKinds(uri)
  <2> HIDE DEF m, digest
  <2> DEFINE K == AppliedKinds(uri)
             One(kind) == IF kind \in K THEN {kind} ELSE {}
  <2>1. KindsOf(a) = One("exact") /\ KindsOf(b) = One("prefix") /\ KindsOf(c) = One("suffix")
        /\ KindsOf(d) = One("regex") /\ KindsOf(e) = One("hash")
    BY <1>3, <1>5, <1>6, <1>12
  <2>2. K \subseteq {"exact", "prefix", "suffix", "regex", "hash"}
    BY <1>14
  <2>3. QED
    BY <2>1, <2>2
<1>16. \A k : k \in KindsOf(a \o (b \o c) \o d \o e) <=> k \in AppliedKinds(uri)
  BY <1>13, <1>15
<1>17. QED
  <2> DEFINE row == a \o (b \o c) \o d \o e
  <2>1. \A k : k \in KindsOf(row) <=> k \in AppliedKinds(uri)
    BY <1>16
  <2> HIDE DEF row
  <2>2. KindsOf(row) = AppliedKinds(uri)
    BY <2>1
  <2>3. QED
    BY <1>2, <2>2 DEF row

\* matches says whether a pattern applies.
LEMMA MatchesIfApplies ==
    ASSUME MatcherInv, NEW uri \in MatcherTexts, NEW b \in Backends
    PROVE  Matches(b, uri) <=> AppliedKinds(uri) # {}
<1> DEFINE m == matcher[b]
<1>1. Keeps(m, b, added)
  BY DEF MatcherInv
<1>2. uri \in m.exact <=> "exact" \in AppliedKinds(uri)
  BY <1>1, WhatApplies DEF Keeps
<1>3. TriesMatch(b, m, uri) <=> "prefix" \in AppliedKinds(uri) \/ "suffix" \in AppliedKinds(uri)
  <2>1. \A kind \in {"prefix", "suffix"} : kind \in AppliedKinds(uri) <=> Hit(kind, uri) # {}
    BY WhatApplies
  <2>2. \A kind \in {"prefix", "suffix"} : ByLength(Hit(kind, uri)) # <<>> <=> Hit(kind, uri) # {}
    BY SearchesList
  <2>3. CASE b = "tree"
    <3>1. TriesMatch(b, m, uri) <=> ByLength(Hit("prefix", uri)) # <<>> \/ ByLength(Hit("suffix", uri)) # <<>>
      BY <2>3, SearchesList DEF TriesMatch
    <3>2. QED
      BY <2>1, <2>2, <3>1
  <2>4. CASE b = "qp"
    <3>1. TriesMatch(b, m, uri) <=> Hit("prefix", uri) # {} \/ Hit("suffix", uri) # {}
      BY <2>4, SearchesList DEF TriesMatch
    <3>2. QED
      BY <2>1, <3>1
  <2>5. QED
    BY <2>3, <2>4 DEF Backends
<1>4. (\E k \in DOMAIN m.regex : RegexMatches(m.regex[k], uri)) <=> "regex" \in AppliedKinds(uri)
  <2>1. /\ m.regex \in Seq(TextsOf("regex", added))
        /\ \A text \in TextsOf("regex", added) : \E k \in DOMAIN m.regex : m.regex[k] = text
    BY <1>1 DEF Keeps
  <2> HIDE DEF m
  <2>2. \A k \in DOMAIN m.regex : m.regex[k] \in TextsOf("regex", added)
    BY <2>1
  <2>3. QED
    BY <2>1, <2>2, WhatApplies
<1>5. Digest("Sha256", uri) \in DOMAIN m.hash <=> "hash" \in AppliedKinds(uri)
  BY <1>1, WhatApplies DEF Keeps
<1>6. AppliedKinds(uri) \subseteq {"exact", "prefix", "suffix", "regex", "hash"}
  BY WhatApplies
<1>7. Matches(b, uri) <=> \/ uri \in m.exact
                          \/ TriesMatch(b, m, uri)
                          \/ \E k \in DOMAIN m.regex : RegexMatches(m.regex[k], uri)
                          \/ Digest("Sha256", uri) \in DOMAIN m.hash
  BY DEF Matches
<1> HIDE DEF m
<1>8. QED
  BY <1>2, <1>3, <1>4, <1>5, <1>6, <1>7

\* Whatever is added and refused in whatever order, a matcher with its tries,
\* its sets and its lists answers as one that tries every accepted pattern in
\* turn, and the two builds answer alike.
THEOREM MatchersAreLinearScans == MSpec => []MatcherIsALinearScan
<1>1. MatcherInv => MatcherIsALinearScan
  <2> SUFFICES ASSUME MatcherInv, NEW uri \in MatcherTexts
               PROVE  LET hits == {p \in added : Applies(p, uri)}
                      IN  /\ \A b \in Backends : Matches(b, uri) <=> hits # {}
                          /\ GetMatchingPatterns("tree", uri) = GetMatchingPatterns("qp", uri)
                          /\ {label[1] : label \in ToSet(GetMatchingPatterns("tree", uri))} = {p.kind : p \in hits}
    BY DEF MatcherIsALinearScan
  <2> DEFINE hits == {p \in added : Applies(p, uri)}
  <2>1. AppliedKinds(uri) = {p.kind : p \in hits} /\ (AppliedKinds(uri) # {} <=> hits # {})
    BY DEF AppliedKinds
  <2>2. \A b \in Backends : Matches(b, uri) <=> hits # {}
    BY <2>1, MatchesIfApplies
  <2>3. GetMatchingPatterns("tree", uri) = GetMatchingPatterns("qp", uri)
    BY LabelsInARow DEF Backends
  <2>4. {label[1] : label \in ToSet(GetMatchingPatterns("tree", uri))} = {p.kind : p \in hits}
    BY <2>1, LabelsHaveTheKinds DEF KindsOf
  <2>5. QED
    BY <2>2, <2>3, <2>4
<1>2. QED
  BY <1>1, MatcherInvariant, PTL
=============================================================================
