---------------------------- MODULE LibraryProofs ----------------------------
(***************************************************************************)
(* Lemmas about the two modules that several components share: Checks,     *)
(* where the first failing check gives the error, and LruCache.            *)
(***************************************************************************)
EXTENDS Checks, LruCache, FiniteSetTheorems, SequenceTheorems, WellFoundedInduction, TLAPS

-----------------------------------------------------------------------------
(* Checks.                                                                 *)

\* A non-empty set of natural numbers has a least element.
LEMMA LeastElement ==
    ASSUME NEW S, S \subseteq Nat, S # {}
    PROVE  \E i \in S : \A j \in S : i <= j
<1>1. \E i \in S : \A j \in S : ~(<<j, i>> \in OpToRel(<, Nat))
  BY NatLessThanWellFounded, WFMin, Zenon
<1>2. \A i, j \in Nat : ~(<<j, i>> \in OpToRel(<, Nat)) => i <= j
  BY DEF OpToRel
<1>3. QED
  BY <1>1, <1>2

\* The checks that fail; the least of them is the one that is reported.
LEMMA FirstFailure ==
    ASSUME NEW checks, NEW n \in Nat, DOMAIN checks = 1 .. n,
           NEW k \in DOMAIN checks, ~checks[k][1]
    PROVE  \E i \in DOMAIN checks : ~checks[i][1] /\ FirstError(checks) = checks[i][2]
<1> DEFINE failed == {i \in DOMAIN checks : ~checks[i][1]}
<1>1. failed \subseteq Nat /\ failed # {}
  OBVIOUS
<1>2. \E i \in failed : \A j \in failed : i <= j
  <2> HIDE DEF failed
  <2> QED
    BY <1>1, LeastElement
<1>3. (CHOOSE i \in failed : \A j \in failed : i <= j) \in failed
  BY <1>2
<1>4. FirstError(checks) = checks[CHOOSE i \in failed : \A j \in failed : i <= j][2]
  BY <1>1 DEF FirstError
<1>5. QED
  BY <1>3, <1>4

\* If no error is called "none", a list whose first error is "none" is a list
\* of checks that all passed.
LEMMA NoErrorMeansAllPass ==
    ASSUME NEW checks, NEW n \in Nat, DOMAIN checks = 1 .. n,
           \A i \in DOMAIN checks : checks[i][2] # "none",
           FirstError(checks) = "none"
    PROVE  \A i \in DOMAIN checks : checks[i][1]
BY FirstFailure

\* What FirstError returns is "none" or the error of one of the checks.
LEMMA ErrorIsOneOfTheChecks ==
    ASSUME NEW checks, NEW n \in Nat, DOMAIN checks = 1 .. n
    PROVE  FirstError(checks) = "none" \/ \E i \in DOMAIN checks : FirstError(checks) = checks[i][2]
<1>1. CASE \A i \in DOMAIN checks : checks[i][1]
  BY <1>1 DEF FirstError
<1>2. CASE \E i \in DOMAIN checks : ~checks[i][1]
  BY <1>2, FirstFailure
<1>3. QED
  BY <1>1, <1>2

-----------------------------------------------------------------------------
(* LruCache.                                                               *)

\* Of a non-empty set of positions, Min is the first.
LEMMA LeastPosition ==
    ASSUME NEW S, S \subseteq Nat, S # {}
    PROVE  Min(S) \in S /\ \A j \in S : Min(S) <= j
<1>1. \E i \in S : \A j \in S : ~(<<j, i>> \in OpToRel(<, Nat))
  BY NatLessThanWellFounded, WFMin, Zenon
<1>2. \A i, j \in Nat : ~(<<j, i>> \in OpToRel(<, Nat)) => i <= j
  BY DEF OpToRel
<1>3. \E i \in S : \A j \in S : i <= j
  BY <1>1, <1>2
<1>4. QED
  BY <1>3 DEF Min

\* How many of the positions lie up to i.
Rank(positions, i) == Cardinality({j \in positions : j <= i})

\* Rank numbers the positions from 1 on, in their order, with no gap.
LEMMA RankIsAnEnumeration ==
    ASSUME NEW I, IsFiniteSet(I), I \subseteq Nat
    PROVE  /\ \A i \in I : Rank(I, i) \in 1 .. Cardinality(I)
           /\ \A i, k \in I : i < k => Rank(I, i) < Rank(I, k)
           /\ \A n \in 1 .. Cardinality(I) : \E i \in I : Rank(I, i) = n
<1> DEFINE UpTo(i) == {j \in I : j <= i}
<1>1. \A i \in I : /\ IsFiniteSet(UpTo(i)) /\ Cardinality(UpTo(i)) \in Nat
                   /\ Cardinality(UpTo(i)) <= Cardinality(I)
  BY FS_Subset, FS_CardinalityType
<1>2. Cardinality(I) \in Nat
  BY FS_CardinalityType
<1>3. ASSUME NEW i \in I
      PROVE  Rank(I, i) \in 1 .. Cardinality(I)
  <2>1. UpTo(i) # {}
    OBVIOUS
  <2>2. Cardinality(UpTo(i)) # 0
    BY <1>1, <2>1, FS_EmptySet
  <2>3. QED
    BY <1>1, <1>2, <2>2 DEF Rank
<1>4. ASSUME NEW i \in I, NEW k \in I, i < k
      PROVE  Rank(I, i) < Rank(I, k)
  <2>1. UpTo(i) \subseteq UpTo(k) /\ k \in UpTo(k) /\ k \notin UpTo(i)
    <3>1. i \in Nat /\ k \in Nat /\ \A j \in I : j \in Nat
      OBVIOUS
    <3>2. \A j \in I : j <= i => j <= k
      BY <1>4, <3>1
    <3>3. k <= k /\ ~(k <= i)
      BY <1>4, <3>1
    <3>4. UpTo(i) \subseteq UpTo(k)
      BY <3>2, Zenon
    <3>5. k \in UpTo(k) /\ k \notin UpTo(i)
      BY <3>3, Zenon
    <3>6. QED
      BY <3>4, <3>5
  <2>2. Cardinality(UpTo(i)) <= Cardinality(UpTo(k))
    BY <1>1, <2>1, FS_Subset
  <2>3. Cardinality(UpTo(k)) # Cardinality(UpTo(i))
    BY <1>1, <2>1, FS_Subset
  <2>4. QED
    BY <1>1, <2>2, <2>3 DEF Rank
<1>5. \A n \in 1 .. Cardinality(I) : \E i \in I : Rank(I, i) = n
  <2> DEFINE f == [i \in I |-> Rank(I, i)]
             T == 1 .. Cardinality(I)
  <2>1. f \in Injection(I, T)
    <3>1. f \in [I -> T]
      BY <1>3
    <3>2. \A i, k \in I : f[i] = f[k] => i = k
      <4> SUFFICES ASSUME NEW i \in I, NEW k \in I, Rank(I, i) = Rank(I, k), i # k
                   PROVE  FALSE
        OBVIOUS
      <4>1. i < k \/ k < i
        OBVIOUS
      <4>2. Rank(I, i) \in Int /\ Rank(I, k) \in Int
        BY <1>2, <1>3
      <4>3. QED
        BY <1>4, <4>1, <4>2
    <3> HIDE DEF f
    <3>3. QED
      BY <3>1, <3>2 DEF Injection, IsInjective
  <2>2. IsFiniteSet(T) /\ Cardinality(T) = Cardinality(I)
    BY <1>2, FS_Interval
  <2>3. f \in Surjection(I, T)
    <3> HIDE DEF f, T
    <3> QED
      BY <2>1, <2>2, FS_Injection
  <2>4. QED
    BY <2>3 DEF Surjection
<1>6. QED
  BY <1>3, <1>4, <1>5

\* pos says where in the cache each kept entry comes from.
Traces(pos, cache, I) ==
    /\ pos \in [1 .. Cardinality(I) -> I]
    /\ \A n \in 1 .. Cardinality(I) : Kept(cache, I)[n] = cache[pos[n]]
    /\ \A m, n \in 1 .. Cardinality(I) : m < n => pos[m] < pos[n]
    /\ \A i \in I : \E n \in 1 .. Cardinality(I) : pos[n] = i

\* Kept keeps the entries at the given positions and no others, once each and
\* in their order.
LEMMA KeptProperties ==
    ASSUME NEW S, NEW cache \in Seq(S), NEW I \in SUBSET (DOMAIN cache)
    PROVE  /\ IsFiniteSet(I) /\ Cardinality(I) \in Nat
           /\ Kept(cache, I) \in Seq(S)
           /\ Len(Kept(cache, I)) = Cardinality(I)
           /\ \E pos : Traces(pos, cache, I)
<1> DEFINE N == Cardinality(I)
           pos == [n \in 1 .. N |-> CHOOSE i \in I : Rank(I, i) = n]
<1>1. DOMAIN cache = 1 .. Len(cache) /\ Len(cache) \in Nat
  OBVIOUS
<1>2. IsFiniteSet(DOMAIN cache)
  BY <1>1, FS_Interval
<1>3. IsFiniteSet(I) /\ N \in Nat /\ I \subseteq Nat
  BY <1>1, <1>2, FS_Subset, FS_CardinalityType
<1>4. /\ \A i \in I : Rank(I, i) \in 1 .. N
      /\ \A i, k \in I : i < k => Rank(I, i) < Rank(I, k)
      /\ \A n \in 1 .. N : \E i \in I : Rank(I, i) = n
  BY <1>3, RankIsAnEnumeration
<1> HIDE DEF N
<1>5. pos \in [1 .. N -> I] /\ \A n \in 1 .. N : Rank(I, pos[n]) = n
  BY <1>4
<1>6. Kept(cache, I) = [n \in 1 .. N |-> cache[pos[n]]]
  BY DEF Kept, Rank, N
<1> HIDE DEF pos
<1>7. \A n \in 1 .. N : Kept(cache, I)[n] = cache[pos[n]] /\ cache[pos[n]] \in S
  BY <1>1, <1>5, <1>6
<1>8. Kept(cache, I) \in Seq(S) /\ Len(Kept(cache, I)) = N
  BY <1>3, <1>6, <1>7
<1>9. \A m, n \in 1 .. N : m < n => pos[m] < pos[n]
  <2> SUFFICES ASSUME NEW m \in 1 .. N, NEW n \in 1 .. N, m < n, ~(pos[m] < pos[n])
               PROVE  FALSE
    OBVIOUS
  <2>1. pos[m] \in Nat /\ pos[n] \in Nat /\ pos[m] \in I /\ pos[n] \in I
    BY <1>3, <1>5
  <2>2. pos[m] = pos[n] \/ pos[n] < pos[m]
    BY <2>1
  <2>3. Rank(I, pos[m]) = m /\ Rank(I, pos[n]) = n
    BY <1>5
  <2>4. QED
    BY <1>3, <1>4, <2>1, <2>2, <2>3
<1>10. \A i \in I : \E n \in 1 .. N : pos[n] = i
  <2> SUFFICES ASSUME NEW i \in I PROVE \E n \in 1 .. N : pos[n] = i
    OBVIOUS
  <2> DEFINE n == Rank(I, i)
  <2>1. n \in 1 .. N /\ pos[n] \in I /\ Rank(I, pos[n]) = n
    BY <1>4, <1>5
  <2>2. pos[n] \in Nat /\ i \in Nat
    BY <1>3, <2>1
  <2>3. pos[n] = i
    <3> SUFFICES ASSUME pos[n] # i PROVE FALSE
      OBVIOUS
    <3>1. pos[n] < i \/ i < pos[n]
      BY <2>2
    <3>2. Rank(I, pos[n]) < Rank(I, i) \/ Rank(I, i) < Rank(I, pos[n])
      BY <1>4, <2>1, <3>1
    <3>3. QED
      BY <1>3, <2>1, <3>2
  <2>4. QED
    BY <2>1, <2>3
<1>11. Traces(pos, cache, I)
  BY <1>5, <1>7, <1>9, <1>10 DEF N, Traces
<1>12. QED
  BY <1>3, <1>8, <1>11 DEF N

\* Find is 0 exactly for the ids that have no entry.
LEMMA FindProperties ==
    ASSUME NEW S, NEW cache \in Seq(S), NEW id
    PROVE  /\ Find(cache, id) = 0 <=> \A i \in DOMAIN cache : cache[i].id # id
           /\ Find(cache, id) # 0 =>
                  Find(cache, id) \in DOMAIN cache /\ cache[Find(cache, id)].id = id
<1> DEFINE I == {i \in 1 .. Len(cache) : cache[i].id = id}
<1>1. DOMAIN cache = 1 .. Len(cache) /\ Len(cache) \in Nat
  OBVIOUS
<1>2. Find(cache, id) = IF I # {} THEN Min(I) ELSE 0
  BY DEF Find, SelectInSeq
<1>3. I # {} => Min(I) \in I
  <2>1. I \subseteq Nat
    BY <1>1
  <2> HIDE DEF I
  <2>2. QED
    BY <2>1, LeastPosition
<1>4. QED
  BY <1>1, <1>2, <1>3

\* The entries of a shard are among the positions of the cache, and finitely
\* many.
LEMMA ShardIsFinite ==
    ASSUME NEW S, NEW cache \in Seq(S), NEW shardOf, NEW s
    PROVE  /\ InShard(cache, shardOf, s) \subseteq DOMAIN cache
           /\ IsFiniteSet(InShard(cache, shardOf, s))
           /\ Cardinality(InShard(cache, shardOf, s)) \in Nat
<1>1. DOMAIN cache = 1 .. Len(cache) /\ Len(cache) \in Nat
  OBVIOUS
<1>2. IsFiniteSet(DOMAIN cache)
  BY <1>1, FS_Interval
<1>3. InShard(cache, shardOf, s) \subseteq DOMAIN cache
  BY DEF InShard
<1>4. QED
  BY <1>2, <1>3, FS_Subset, FS_CardinalityType

\* Keeping only some positions keeps at most those of each shard.
LEMMA KeptShard ==
    ASSUME NEW S, NEW cache \in Seq(S), NEW I \in SUBSET (DOMAIN cache), NEW shardOf, NEW s
    PROVE  Cardinality(InShard(Kept(cache, I), shardOf, s))
               <= Cardinality(InShard(cache, shardOf, s) \cap I)
<1> DEFINE c == Kept(cache, I)
           A == InShard(c, shardOf, s)
           B == InShard(cache, shardOf, s) \cap I
           N == Cardinality(I)
<1>1. c \in Seq(S) /\ Len(c) = N /\ N \in Nat
  BY KeptProperties
<1>2. PICK pos : /\ pos \in [1 .. N -> I]
                 /\ \A n \in 1 .. N : c[n] = cache[pos[n]]
                 /\ \A m, n \in 1 .. N : m < n => pos[m] < pos[n]
  <2>1. PICK pos : Traces(pos, cache, I)
    BY KeptProperties
  <2>2. QED
    BY <2>1 DEF Traces
<1> HIDE DEF c, N
<1>3. DOMAIN c = 1 .. N
  BY <1>1
<1> DEFINE f == [n \in A |-> pos[n]]
<1>4. A \subseteq 1 .. N /\ f \in [A -> B]
  BY <1>2, <1>3 DEF InShard
<1>5. \A m, n \in A : f[m] = f[n] => m = n
  <2> SUFFICES ASSUME NEW m \in A, NEW n \in A, pos[m] = pos[n], m # n
               PROVE  FALSE
    OBVIOUS
  <2>1. m \in 1 .. N /\ n \in 1 .. N
    BY <1>4
  <2>2. m < n \/ n < m
    BY <1>1, <2>1
  <2>3. pos[m] < pos[n] \/ pos[n] < pos[m]
    BY <1>2, <2>1, <2>2
  <2>4. pos[m] \in Int
    <3>1. DOMAIN cache = 1 .. Len(cache)
      OBVIOUS
    <3>2. QED
      BY <1>2, <2>1, <3>1
  <2>5. QED
    BY <2>3, <2>4
<1>6. IsFiniteSet(B)
  BY ShardIsFinite, FS_Subset
<1> HIDE DEF f, A, B
<1>7. f \in Injection(A, B)
  BY <1>4, <1>5 DEF Injection, IsInjective
<1>8. QED
  BY <1>6, <1>7, FS_Injection DEF A, B, c

\* What makes room for id: its own entry, nothing, or the oldest of its shard.
LEMMA DisplacedProperties ==
    ASSUME NEW S, NEW cache \in Seq(S), NEW id, NEW shardOf, NEW capacity \in Nat \ {0}
    PROVE  LET A == InShard(cache, shardOf, shardOf[id])
               out == Displaced(cache, id, shardOf, capacity)
           IN  /\ Find(cache, id) # 0 => out = Find(cache, id)
               /\ Find(cache, id) = 0 /\ Cardinality(A) < capacity => out = 0
               /\ Find(cache, id) = 0 /\ Cardinality(A) >= capacity =>
                      out \in A /\ \A p \in A : out <= p
<1> DEFINE A == InShard(cache, shardOf, shardOf[id])
           out == Displaced(cache, id, shardOf, capacity)
<1>1. /\ A \subseteq DOMAIN cache /\ DOMAIN cache \subseteq Nat
      /\ IsFiniteSet(A) /\ Cardinality(A) \in Nat
  BY ShardIsFinite
<1>2. out = IF Find(cache, id) = 0 /\ Cardinality(A) >= capacity THEN Min(A) ELSE Find(cache, id)
  BY DEF Displaced
<1>3. Cardinality(A) >= capacity => A # {}
  BY <1>1, FS_EmptySet
<1>4. A # {} => Min(A) \in A /\ \A p \in A : Min(A) <= p
  BY <1>1, LeastPosition
<1> HIDE DEF A, out
<1>5. /\ Find(cache, id) # 0 => out = Find(cache, id)
      /\ Find(cache, id) = 0 /\ Cardinality(A) < capacity => out = 0
      /\ Find(cache, id) = 0 /\ Cardinality(A) >= capacity =>
             out \in A /\ \A p \in A : out <= p
  BY <1>1, <1>2, <1>3, <1>4
<1>6. QED
  BY <1>5 DEF A, out

-----------------------------------------------------------------------------
(* Which entries there are after an operation.                             *)

\* Dropping entries leaves the others as they were, and distinct.
LEMMA KeptEntries ==
    ASSUME NEW S, NEW cache \in Seq(S), NEW I \in SUBSET (DOMAIN cache), DistinctIds(cache)
    PROVE  /\ Kept(cache, I) \in Seq(S)
           /\ DistinctIds(Kept(cache, I))
           /\ \A p \in DOMAIN Kept(cache, I) : \E i \in I : Kept(cache, I)[p] = cache[i]
           /\ \A i \in I : \E p \in DOMAIN Kept(cache, I) : Kept(cache, I)[p] = cache[i]
<1> DEFINE d == Kept(cache, I)
           N == Cardinality(I)
<1>1. d \in Seq(S) /\ Len(d) = N /\ N \in Nat
  BY KeptProperties
<1>2. PICK pos : /\ pos \in [1 .. N -> I]
                 /\ \A n \in 1 .. N : d[n] = cache[pos[n]]
                 /\ \A m, n \in 1 .. N : m < n => pos[m] < pos[n]
                 /\ \A i \in I : \E n \in 1 .. N : pos[n] = i
  BY KeptProperties DEF Traces
<1> HIDE DEF d, N
<1>3. DOMAIN d = 1 .. N /\ DOMAIN cache = 1 .. Len(cache) /\ I \subseteq DOMAIN cache
  BY <1>1
<1>4. \A n \in 1 .. N : pos[n] \in DOMAIN cache /\ pos[n] \in Int /\ n \in Int
  BY <1>2, <1>3
<1>5. DistinctIds(d)
  <2> SUFFICES ASSUME NEW p \in 1 .. N, NEW q \in 1 .. N, d[p].id = d[q].id, p # q
               PROVE  FALSE
    BY <1>3 DEF DistinctIds
  <2>1. pos[p] = pos[q]
    BY <1>2, <1>4 DEF DistinctIds
  <2>2. p < q \/ q < p
    BY <1>4
  <2>3. pos[p] < pos[q] \/ pos[q] < pos[p]
    BY <1>2, <2>2
  <2>4. QED
    BY <1>4, <2>1, <2>3
<1>6. /\ \A p \in DOMAIN d : \E i \in I : d[p] = cache[i]
      /\ \A i \in I : \E p \in DOMAIN d : d[p] = cache[i]
  BY <1>2, <1>3
<1>7. QED
  BY <1>1, <1>5, <1>6 DEF d

\* d has the entries of the cache, that at position `out` aside.
Without(d, cache, out) ==
    /\ \A p \in DOMAIN d : \E i \in DOMAIN cache : i # out /\ d[p] = cache[i]
    /\ \A i \in DOMAIN cache : i # out => \E p \in DOMAIN d : d[p] = cache[i]

\* Dropping one entry, if it is there.
LEMMA RemovedEntries ==
    ASSUME NEW S, NEW cache \in Seq(S), NEW out, DistinctIds(cache)
    PROVE  /\ Removed(cache, out) \in Seq(S)
           /\ DistinctIds(Removed(cache, out))
           /\ Without(Removed(cache, out), cache, out)
<1> DEFINE I == DOMAIN cache \ {out}
<1>1. I \in SUBSET (DOMAIN cache) /\ Removed(cache, out) = Kept(cache, I)
  BY DEF Removed
<1>2. \A i : i \in I <=> i \in DOMAIN cache /\ i # out
  OBVIOUS
<1> HIDE DEF I
<1>3. QED
  BY <1>1, <1>2, KeptEntries DEF Without

\* d is the cache with a further entry e.
WithEntry(d, cache, e) ==
    /\ \A p \in DOMAIN d : (p \in DOMAIN cache /\ d[p] = cache[p]) \/ d[p] = e
    /\ \A p \in DOMAIN cache : p \in DOMAIN d /\ d[p] = cache[p]
    /\ \E p \in DOMAIN d : d[p] = e

\* Appending an entry whose id is new keeps the ids distinct.
LEMMA AppendedEntry ==
    ASSUME NEW S, NEW cache \in Seq(S), DistinctIds(cache), NEW e \in S,
           \A p \in DOMAIN cache : cache[p].id # e.id,
           NEW d, d = Append(cache, e)
    PROVE  /\ d \in Seq(S)
           /\ DistinctIds(d)
           /\ WithEntry(d, cache, e)
<1> DEFINE n == Len(cache)
<1>1. /\ n \in Nat /\ DOMAIN cache = 1 .. n /\ d \in Seq(S) /\ DOMAIN d = 1 .. n + 1
      /\ \A p \in 1 .. n : d[p] = cache[p]
      /\ d[n + 1] = e
  OBVIOUS
<1> HIDE DEF n
<1>2. /\ \A p \in DOMAIN d : p \in DOMAIN cache \/ p = n + 1
      /\ DOMAIN cache \subseteq DOMAIN d /\ n + 1 \in DOMAIN d
  BY <1>1
<1>3. DistinctIds(d)
  BY <1>1, <1>2 DEF DistinctIds
<1>4. QED
  BY <1>1, <1>2, <1>3 DEF WithEntry

\* `get` changes the order of the entries and nothing else.
LEMMA TouchedEntries ==
    ASSUME NEW S, NEW cache \in Seq(S), DistinctIds(cache), NEW id
    PROVE  /\ Touched(cache, id) \in Seq(S)
           /\ DistinctIds(Touched(cache, id))
           /\ \A p \in DOMAIN Touched(cache, id) : \E q \in DOMAIN cache : Touched(cache, id)[p] = cache[q]
           /\ \A q \in DOMAIN cache : \E p \in DOMAIN Touched(cache, id) : Touched(cache, id)[p] = cache[q]
<1>1. CASE Find(cache, id) = 0
  BY <1>1 DEF Touched
<1>2. CASE Find(cache, id) # 0
  <2> DEFINE f == Find(cache, id)
             d == Removed(cache, f)
             e == cache[f]
             t == Append(d, e)
  <2>1. f \in DOMAIN cache
    BY <1>2, FindProperties
  <2> HIDE DEF f
  <2>2. d \in Seq(S) /\ DistinctIds(d) /\ Without(d, cache, f)
    BY RemovedEntries
  <2>3. Touched(cache, id) = t
    BY <1>2 DEF Touched, f
  <2>4. e \in S /\ e = cache[f]
    BY <2>1
  <2> HIDE DEF d, e
  <2>5. \A p \in DOMAIN d : d[p].id # e.id
    BY <2>1, <2>2, <2>4 DEF DistinctIds, Without
  <2>6. t \in Seq(S) /\ DistinctIds(t) /\ WithEntry(t, d, e)
    BY <2>2, <2>4, <2>5, AppendedEntry
  <2> HIDE DEF t
  <2>7. \A p \in DOMAIN t : \E q \in DOMAIN cache : t[p] = cache[q]
    BY <2>1, <2>2, <2>4, <2>6 DEF Without, WithEntry
  <2>8. ASSUME NEW q \in DOMAIN cache PROVE \E p \in DOMAIN t : t[p] = cache[q]
    <3>1. CASE q = f
      BY <2>4, <2>6, <3>1 DEF WithEntry
    <3>2. CASE q # f
      <4>1. PICK p \in DOMAIN d : d[p] = cache[q]
        BY <2>2, <3>2 DEF Without
      <4>2. QED
        BY <2>6, <4>1 DEF WithEntry
    <3>3. QED
      BY <3>1, <3>2
  <2>9. QED
    BY <2>3, <2>6, <2>7, <2>8
<1>3. QED
  BY <1>1, <1>2

\* `put` adds the new entry, drops the displaced one and keeps the others.
LEMMA PutEntries ==
    ASSUME NEW S, NEW cache \in Seq(S), DistinctIds(cache), NEW id, NEW val,
           [id |-> id, val |-> val] \in S, NEW shardOf, NEW capacity \in Nat \ {0}
    PROVE  LET c == Put(cache, id, val, shardOf, capacity)
               out == Displaced(cache, id, shardOf, capacity)
           IN  /\ c \in Seq(S)
               /\ DistinctIds(c)
               /\ \A p \in DOMAIN c :
                      \/ c[p] = [id |-> id, val |-> val]
                      \/ \E q \in DOMAIN cache : q # out /\ c[p] = cache[q]
               /\ \A q \in DOMAIN cache : q # out => \E p \in DOMAIN c : c[p] = cache[q]
               /\ \E p \in DOMAIN c : c[p] = [id |-> id, val |-> val]
<1> DEFINE out == Displaced(cache, id, shardOf, capacity)
           d == Removed(cache, out)
           e == [id |-> id, val |-> val]
           c == Append(d, e)
<1>1. \A q \in DOMAIN cache : q # out => cache[q].id # id
  <2>1. Find(cache, id) # 0 =>
            out = Find(cache, id) /\ out \in DOMAIN cache /\ cache[out].id = id
    BY FindProperties, DisplacedProperties
  <2>2. Find(cache, id) = 0 => \A q \in DOMAIN cache : cache[q].id # id
    BY FindProperties
  <2> HIDE DEF out
  <2>3. QED
    BY <2>1, <2>2 DEF DistinctIds
<1>2. Put(cache, id, val, shardOf, capacity) = c
  BY DEF Put
<1> HIDE DEF out
<1>3. d \in Seq(S) /\ DistinctIds(d) /\ Without(d, cache, out)
  BY RemovedEntries
<1> HIDE DEF d
<1>4. e \in S /\ e.id = id
  OBVIOUS
<1> HIDE DEF e
<1>5. \A p \in DOMAIN d : d[p].id # e.id
  BY <1>1, <1>3, <1>4 DEF Without
<1>6. c \in Seq(S) /\ DistinctIds(c) /\ WithEntry(c, d, e)
  BY <1>3, <1>4, <1>5, AppendedEntry
<1> HIDE DEF c
<1>7. \A p \in DOMAIN c : c[p] = e \/ \E q \in DOMAIN cache : q # out /\ c[p] = cache[q]
  BY <1>3, <1>6 DEF Without, WithEntry
<1>8. ASSUME NEW q \in DOMAIN cache, q # out PROVE \E p \in DOMAIN c : c[p] = cache[q]
  <2>1. PICK p \in DOMAIN d : d[p] = cache[q]
    BY <1>3, <1>8 DEF Without
  <2>2. QED
    BY <1>6, <2>1 DEF WithEntry
<1>9. QED
  BY <1>2, <1>6, <1>7, <1>8 DEF out, e, WithEntry
=============================================================================
