-------------------------- MODULE LruJtiStoreProofs --------------------------
(***************************************************************************)
(* What the evicting LruJtiStore does promise, for any capacity, number of *)
(* shards and number of keys: it never holds more than was asked for, it   *)
(* loses a key only to pressure or to age, and it counts the losses that   *)
(* matter before they can be exploited.                                    *)
(***************************************************************************)
EXTENDS LruJtiStore, LibraryProofs

Entry == [id : Keys \ LongKeys, val : Iats]
LogEntry == [key : Keys, iat : Iats, at : Int, warned : BOOLEAN]

\* The number of shards is positive and no larger than the capacity, and every
\* shard has room for an entry.
LEMMA ShardArithmetic ==
    /\ ShardCount \in Nat \ {0}
    /\ ShardCount <= Capacity
    /\ \A s \in 0 .. ShardCount - 1 : ShardCapacity(s) \in Nat \ {0}
    /\ Capacity \div ShardCount \in Nat
    /\ Capacity % ShardCount \in 0 .. ShardCount - 1
    /\ Capacity = ShardCount * (Capacity \div ShardCount) + (Capacity % ShardCount)
<1>1. ShardCount \in Nat \ {0} /\ ShardCount <= Capacity /\ Capacity \in Nat
  BY LruConstants DEF ShardCount
<1>2. /\ Capacity \div ShardCount \in Int
      /\ Capacity % ShardCount \in 0 .. ShardCount - 1
      /\ Capacity = ShardCount * (Capacity \div ShardCount) + (Capacity % ShardCount)
  BY <1>1
<1>3. Capacity \div ShardCount >= 1
  <2> DEFINE n == ShardCount
             q == Capacity \div ShardCount
             r == Capacity % ShardCount
  <2>1. n \in Nat \ {0} /\ n <= Capacity /\ q \in Int /\ r \in 0 .. n - 1
        /\ Capacity = n * q + r
    BY <1>1, <1>2
  <2> HIDE DEF n, q, r
  <2>2. \A a \in Nat, b \in Int : b <= 0 => a * b <= 0
    OBVIOUS
  <2>3. q <= 0 => n * q <= 0
    BY <2>1, <2>2
  <2>4. n * q \in Int
    BY <2>1
  <2>5. q >= 1
    BY <1>1, <2>1, <2>3, <2>4
  <2>6. QED
    BY <2>5 DEF q
<1>4. QED
  BY <1>1, <1>2, <1>3 DEF ShardCapacity

-----------------------------------------------------------------------------
(* Dropping entries, and appending one.                                    *)

\* Dropping entries leaves the others distinct, in order, and each shard
\* within its share.
LEMMA KeptInvariants ==
    ASSUME NEW c \in Seq(Entry), NEW g \in Seq(LogEntry), NEW I \in SUBSET (DOMAIN c),
           DistinctIds(c), ShardsFit(c), Mirrors(c, g)
    PROVE  /\ Kept(c, I) \in Seq(Entry)
           /\ DistinctIds(Kept(c, I))
           /\ ShardsFit(Kept(c, I))
           /\ Mirrors(Kept(c, I), g)
           /\ \A p \in DOMAIN Kept(c, I) : \E i \in I : Kept(c, I)[p] = c[i]
           /\ \A i \in I : \E p \in DOMAIN Kept(c, I) : Kept(c, I)[p] = c[i]
<1> DEFINE d == Kept(c, I)
           N == Cardinality(I)
<1>1. d \in Seq(Entry) /\ Len(d) = N /\ N \in Nat
  BY KeptProperties
<1>2. PICK pos : /\ pos \in [1 .. N -> I]
                 /\ \A n \in 1 .. N : d[n] = c[pos[n]]
                 /\ \A m, n \in 1 .. N : m < n => pos[m] < pos[n]
  <2>1. PICK pos : Traces(pos, c, I)
    BY KeptProperties
  <2>2. QED
    BY <2>1 DEF Traces
<1>3. ShardsFit(d)
  <2> SUFFICES ASSUME NEW s \in 0 .. ShardCount - 1
               PROVE  Cardinality(InShard(d, ShardOf, s)) <= ShardCapacity(s)
    BY DEF ShardsFit
  <2> DEFINE A == InShard(c, ShardOf, s)
  <2>1. Cardinality(InShard(d, ShardOf, s)) <= Cardinality(A \cap I)
    BY KeptShard
  <2>2. Cardinality(A \cap I) <= Cardinality(A) /\ IsFiniteSet(A \cap I)
    BY ShardIsFinite, FS_Subset
  <2>3. /\ Cardinality(A) \in Nat /\ Cardinality(A \cap I) \in Nat
        /\ Cardinality(InShard(d, ShardOf, s)) \in Nat
    BY <1>1, <2>2, ShardIsFinite, FS_CardinalityType
  <2>4. Cardinality(A) <= ShardCapacity(s) /\ ShardCapacity(s) \in Nat
    BY ShardArithmetic DEF ShardsFit
  <2>5. QED
    BY <2>1, <2>2, <2>3, <2>4
<1> HIDE DEF d, N
<1>4. DOMAIN d = 1 .. N /\ DOMAIN c = 1 .. Len(c) /\ I \subseteq DOMAIN c
  BY <1>1
<1>5. \A n \in 1 .. N : pos[n] \in DOMAIN c /\ pos[n] \in Int /\ n \in Int
  BY <1>2, <1>4
<1>6. /\ DistinctIds(d)
      /\ \A p \in DOMAIN d : \E i \in I : d[p] = c[i]
      /\ \A i \in I : \E p \in DOMAIN d : d[p] = c[i]
  BY KeptEntries DEF d
<1>7. Mirrors(d, g)
  <2>1. \A p \in DOMAIN d : \E n \in DOMAIN g : Latest(g, d[p].id, n) /\ g[n].iat = d[p].val
    BY <1>2, <1>4, <1>5 DEF Mirrors
  <2>2. ASSUME NEW p \in DOMAIN d, NEW q \in DOMAIN d, NEW m \in DOMAIN g, NEW n \in DOMAIN g,
               p < q, Latest(g, d[p].id, m), Latest(g, d[q].id, n)
        PROVE  m < n
    <3>1. /\ pos[p] < pos[q] /\ pos[p] \in DOMAIN c /\ pos[q] \in DOMAIN c
          /\ d[p] = c[pos[p]] /\ d[q] = c[pos[q]]
      BY <1>2, <1>4, <1>5, <2>2
    <3>2. QED
      BY <2>2, <3>1 DEF Mirrors
  <2>3. QED
    BY <2>1, <2>2 DEF Mirrors
<1>8. QED
  BY <1>1, <1>3, <1>6, <1>7 DEF d

\* Appending to the log leaves the earlier entries and their ranks alone.
LEMMA AppendedLog ==
    ASSUME NEW g \in Seq(LogEntry), NEW e \in LogEntry
    PROVE  /\ Append(g, e) \in Seq(LogEntry)
           /\ Len(Append(g, e)) = Len(g) + 1
           /\ DOMAIN g = 1 .. Len(g) /\ DOMAIN Append(g, e) = 1 .. Len(g) + 1
           /\ \A n \in DOMAIN g : Append(g, e)[n] = g[n]
           /\ Append(g, e)[Len(g) + 1] = e
           /\ Latest(Append(g, e), e.key, Len(g) + 1)
           /\ \A k, n : k # e.key => (Latest(Append(g, e), k, n) <=> Latest(g, k, n))
<1> DEFINE h == Append(g, e)
<1>1. /\ h \in Seq(LogEntry) /\ Len(h) = Len(g) + 1 /\ Len(g) \in Nat
      /\ DOMAIN g = 1 .. Len(g) /\ DOMAIN h = 1 .. Len(g) + 1
      /\ \A n \in DOMAIN g : h[n] = g[n]
      /\ h[Len(g) + 1] = e
  OBVIOUS
<1> HIDE DEF h
<1>2. Latest(h, e.key, Len(g) + 1)
  BY <1>1 DEF Latest
<1>3. ASSUME NEW k, NEW n, k # e.key
      PROVE  Latest(h, k, n) <=> Latest(g, k, n)
  <2>1. \A m \in DOMAIN h : h[m].key = k => m \in DOMAIN g
    BY <1>1, <1>3
  <2>2. \A m \in DOMAIN g : m \in DOMAIN h /\ h[m] = g[m]
    BY <1>1
  <2>3. QED
    BY <2>1, <2>2 DEF Latest
<1>4. QED
  BY <1>1, <1>2, <1>3 DEF h

\* Appending a key that has no entry, to the cache and to the log.
LEMMA AppendedInvariants ==
    ASSUME NEW c \in Seq(Entry), NEW g \in Seq(LogEntry), NEW e \in Entry, NEW f \in LogEntry,
           f.key = e.id, f.iat = e.val,
           DistinctIds(c), Mirrors(c, g), \A p \in DOMAIN c : c[p].id # e.id
    PROVE  /\ Append(c, e) \in Seq(Entry)
           /\ DistinctIds(Append(c, e))
           /\ Mirrors(Append(c, e), Append(g, f))
<1> DEFINE d == Append(c, e)
           h == Append(g, f)
<1>1. /\ d \in Seq(Entry) /\ Len(c) \in Nat
      /\ DOMAIN c = 1 .. Len(c) /\ DOMAIN d = 1 .. Len(c) + 1
      /\ \A p \in DOMAIN c : d[p] = c[p]
      /\ d[Len(c) + 1] = e
  OBVIOUS
<1>2. /\ DOMAIN g = 1 .. Len(g) /\ DOMAIN h = 1 .. Len(g) + 1 /\ Len(g) \in Nat
      /\ \A n \in DOMAIN g : h[n] = g[n]
      /\ h[Len(g) + 1] = f
      /\ Latest(h, f.key, Len(g) + 1)
      /\ \A k, n : k # f.key => (Latest(h, k, n) <=> Latest(g, k, n))
  BY AppendedLog
<1> HIDE DEF d, h
<1>3. \A p \in DOMAIN d : p \in DOMAIN c \/ p = Len(c) + 1
  BY <1>1
<1>4. DistinctIds(d)
  BY <1>1, <1>3 DEF DistinctIds
<1>5. ASSUME NEW p \in DOMAIN d
      PROVE  \E n \in DOMAIN h : Latest(h, d[p].id, n) /\ h[n].iat = d[p].val
  <2>1. CASE p = Len(c) + 1
    BY <1>1, <1>2, <2>1
  <2>2. CASE p \in DOMAIN c
    <3>1. PICK n \in DOMAIN g : Latest(g, c[p].id, n) /\ g[n].iat = c[p].val
      BY <2>2 DEF Mirrors
    <3>2. n \in DOMAIN h /\ h[n] = g[n] /\ Latest(h, c[p].id, n)
      BY <1>2, <2>2, <3>1
    <3>3. QED
      BY <1>1, <2>2, <3>1, <3>2
  <2>3. QED
    BY <1>3, <2>1, <2>2
<1>6. ASSUME NEW p \in DOMAIN d, NEW q \in DOMAIN d, NEW m \in DOMAIN h, NEW n \in DOMAIN h,
             p < q, Latest(h, d[p].id, m), Latest(h, d[q].id, n)
      PROVE  m < n
  <2>1. p \in DOMAIN c
    BY <1>1, <1>3, <1>6
  <2>2. Latest(g, c[p].id, m) /\ m \in DOMAIN g
    BY <1>1, <1>2, <1>6, <2>1 DEF Latest
  <2>3. CASE q \in DOMAIN c
    <3>1. Latest(g, c[q].id, n) /\ n \in DOMAIN g
      BY <1>1, <1>2, <1>6, <2>3 DEF Latest
    <3>2. QED
      BY <1>6, <2>1, <2>2, <2>3, <3>1 DEF Mirrors
  <2>4. CASE q = Len(c) + 1
    <3>1. d[q].id = f.key
      BY <1>1, <2>4
    <3>2. n >= Len(g) + 1
      BY <1>2, <1>6, <3>1 DEF Latest
    <3>3. QED
      BY <1>2, <2>2, <3>2
  <2>5. QED
    BY <1>3, <2>3, <2>4
<1>7. Mirrors(d, h)
  BY <1>5, <1>6 DEF Mirrors
<1>8. QED
  BY <1>1, <1>4, <1>7 DEF d, h

-----------------------------------------------------------------------------
(* The capacity.                                                           *)

\* A cache whose shards keep to their shares keeps to the capacity: the shares
\* add up to it, the remainder of the division included. By a least
\* counterexample over the number of shards counted so far.
LEMMA SharesAddUp ==
    ASSUME NEW c \in Seq(Entry), ShardsFit(c)
    PROVE  Len(c) <= Capacity
<1> DEFINE q == Capacity \div ShardCount
           r == Capacity % ShardCount
           Below(n) == {i \in DOMAIN c : ShardOf[c[i].id] < n}
           Share(n) == n * q + (IF n <= r THEN n ELSE r)
           Bad == {n \in 0 .. ShardCount : ~(Cardinality(Below(n)) <= Share(n))}
<1>1. /\ ShardCount \in Nat \ {0} /\ q \in Nat /\ r \in 0 .. ShardCount - 1
      /\ Capacity = ShardCount * q + r /\ Capacity \in Nat
  BY ShardArithmetic, LruConstants
<1>2. /\ DOMAIN c = 1 .. Len(c) /\ Len(c) \in Nat /\ IsFiniteSet(DOMAIN c)
      /\ Cardinality(DOMAIN c) = Len(c)
  <2>1. DOMAIN c = 1 .. Len(c) /\ Len(c) \in Nat
    OBVIOUS
  <2>2. IsFiniteSet(1 .. Len(c)) /\ Cardinality(1 .. Len(c)) = Len(c)
    BY <2>1, FS_Interval
  <2>3. QED
    BY <2>1, <2>2
<1>3. \A i \in DOMAIN c : ShardOf[c[i].id] \in 0 .. ShardCount - 1
  <2>1. \A i \in DOMAIN c : c[i] \in Entry
    OBVIOUS
  <2>2. \A i \in DOMAIN c : c[i].id \in Keys
    BY <2>1 DEF Entry
  <2>3. QED
    BY <2>2, LruConstants
<1>4. ASSUME NEW n PROVE IsFiniteSet(Below(n)) /\ Cardinality(Below(n)) \in Nat
  BY <1>2, FS_Subset, FS_CardinalityType
<1>5. Bad = {}
  <2> SUFFICES ASSUME Bad # {} PROVE FALSE
    OBVIOUS
  <2>1. Bad \subseteq Nat
    OBVIOUS
  <2>2. PICK m \in Bad : \A n \in Bad : m <= n
    <3> HIDE DEF Bad
    <3> QED
      BY <2>1, LeastPosition
  <2>3. m \in 0 .. ShardCount /\ m \in Nat /\ ~(Cardinality(Below(m)) <= Share(m))
    OBVIOUS
  <2>4. m # 0
    <3> SUFFICES ASSUME m = 0 PROVE FALSE
      OBVIOUS
    <3>1. Below(0) = {}
      BY <1>3
    <3>2. Cardinality(Below(0)) = 0
      BY <3>1, FS_EmptySet
    <3>3. Share(0) = 0
      BY <1>1
    <3>4. QED
      BY <2>3, <3>2, <3>3
  <2> DEFINE l == m - 1
             A == InShard(c, ShardOf, l)
  <2>5. l \in 0 .. ShardCount - 1 /\ l \in 0 .. ShardCount /\ l \in Nat /\ m = l + 1
    BY <1>1, <2>3, <2>4
  <2>6. Cardinality(Below(l)) <= Share(l)
    <3>1. l \notin Bad
      BY <2>2, <2>5
    <3>2. QED
      BY <2>5, <3>1
  <2>7. Cardinality(A) <= ShardCapacity(l)
    BY <2>5 DEF ShardsFit
  <2>8. Below(m) = Below(l) \cup A
    <3>1. ASSUME NEW s \in 0 .. ShardCount - 1 PROVE s < m <=> s < l \/ s = l
      <4> HIDE DEF l
      <4> QED
        BY <2>3, <2>5
    <3>2. ASSUME NEW i \in DOMAIN c PROVE i \in Below(m) <=> i \in Below(l) \cup A
      <4> HIDE DEF l
      <4> QED
        BY <1>3, <3>1, Zenon DEF InShard
    <3>3. QED
      BY <3>2, Zenon DEF InShard
  <2>9. IsFiniteSet(A) /\ Cardinality(A) \in Nat
    BY ShardIsFinite
  <2>10. Cardinality(Below(m)) <= Cardinality(Below(l)) + Cardinality(A)
    <3>1. IsFiniteSet(Below(l) \cap A)
      BY <2>9, FS_Subset
    <3>2. Cardinality(Below(l) \cap A) \in Nat
      BY <3>1, FS_CardinalityType
    <3>3. Cardinality(Below(l) \cup A) =
              Cardinality(Below(l)) + Cardinality(A) - Cardinality(Below(l) \cap A)
      BY <1>4, <2>9, FS_Union
    <3>4. Cardinality(Below(l)) \in Nat
      BY <1>4
    <3> HIDE DEF Below, A, l
    <3>5. QED
      BY <2>8, <2>9, <3>2, <3>3, <3>4
  <2>11. Share(m) = Share(l) + ShardCapacity(l) /\ Share(l) \in Int /\ ShardCapacity(l) \in Int
    <3>1. ShardCapacity(l) = q + (IF l < r THEN 1 ELSE 0)
      BY DEF ShardCapacity
    <3> HIDE DEF q, r, l
    <3>2. (l + 1) * q = l * q + q /\ l * q \in Int
      <4>1. \A a, b \in Int : (a + 1) * b = a * b + b /\ a * b \in Int
        OBVIOUS
      <4>2. l \in Int /\ q \in Int
        BY <1>1, <2>5
      <4> QED
        BY <4>1, <4>2, Zenon
    <3>3. QED
      BY <1>1, <2>5, <3>1, <3>2
  <2>12. Cardinality(Below(m)) \in Nat /\ Cardinality(Below(l)) \in Nat
    BY <1>4
  <2> HIDE DEF Below, Share, A, l
  <2>13. QED
    BY <2>3, <2>6, <2>7, <2>9, <2>10, <2>11, <2>12
<1>6. Below(ShardCount) = DOMAIN c
  <2>1. \A s \in 0 .. ShardCount - 1 : s < ShardCount
    <3>1. ShardCount \in Nat
      BY ShardArithmetic
    <3> QED
      BY <3>1
  <2>2. QED
    BY <1>3, <2>1, Zenon
<1>7. Share(ShardCount) = Capacity
  BY <1>1
<1>8. ShardCount \notin Bad /\ ShardCount \in 0 .. ShardCount
  <2> HIDE DEF Bad
  <2> QED
    BY <1>1, <1>5
<1>9. Cardinality(Below(ShardCount)) <= Share(ShardCount)
  BY <1>8
<1>10. QED
  BY <1>2, <1>6, <1>7, <1>9

-----------------------------------------------------------------------------
(* The insertion.                                                          *)

\* What an insertion works on: the position it displaces, and the others.
Room(k) == Displaced(cache, k, ShardOf, ShardCapacity(ShardOf[k]))
Others(k) == DOMAIN cache \ {Room(k)}

\* What Insert does, spelled out. The displaced entry is the oldest of a full
\* shard, and without it the shard has room for one more.
LEMMA InsertFacts ==
    ASSUME LInv, NEW k \in Keys, NEW iat \in Iats, Insert(k, iat)
    PROVE  LET A == InShard(cache, ShardOf, ShardOf[k])
               cap == ShardCapacity(ShardOf[k])
           IN  /\ k \notin LongKeys
               /\ \A p \in DOMAIN cache : cache[p].id # k
               /\ cache' = Append(Kept(cache, Others(k)), [id |-> k, val |-> iat])
               /\ ShardOf[k] \in 0 .. ShardCount - 1
               /\ cap \in Nat \ {0}
               /\ Room(k) \in DOMAIN cache =>
                      /\ Room(k) \in A /\ \A p \in A : Room(k) <= p
                      /\ Cardinality(A) = cap
               /\ Cardinality(A \cap Others(k)) <= cap - 1
<1> DEFINE s == ShardOf[k]
           A == InShard(cache, ShardOf, s)
           cap == ShardCapacity(s)
           out == Room(k)
<1>1. k \notin LongKeys /\ Find(cache, k) = 0 /\ cache \in Seq(Entry)
  BY DEF Insert, LInv, Entry
<1>2. \A p \in DOMAIN cache : cache[p].id # k
  BY <1>1, FindProperties
<1>3. cache' = Append(Kept(cache, Others(k)), [id |-> k, val |-> iat])
  BY DEF Insert, Put, Removed, Room, Others
<1>4. s \in 0 .. ShardCount - 1 /\ cap \in Nat \ {0}
  BY LruConstants, ShardArithmetic
<1>5. Cardinality(A) <= cap
  BY <1>4 DEF LInv, ShardsFit
<1>6. A \subseteq DOMAIN cache /\ IsFiniteSet(A) /\ Cardinality(A) \in Nat
  BY <1>1, ShardIsFinite
<1>7. /\ Cardinality(A) < cap => out = 0
      /\ Cardinality(A) >= cap => out \in A /\ \A p \in A : out <= p
  BY <1>1, <1>4, DisplacedProperties DEF Room
<1>8. 0 \notin DOMAIN cache
  BY <1>1
<1> HIDE DEF s, A, cap, out
<1>9. out \in DOMAIN cache => out \in A /\ (\A p \in A : out <= p) /\ Cardinality(A) = cap
  BY <1>4, <1>5, <1>6, <1>7, <1>8
<1>10. Cardinality(A \cap Others(k)) <= cap - 1
  <2>1. A \cap Others(k) = A \ {out}
    BY <1>6 DEF Others, out
  <2>2. Cardinality(A \ {out}) = IF out \in A THEN Cardinality(A) - 1 ELSE Cardinality(A)
    BY <1>6, FS_RemoveElement
  <2>3. QED
    BY <1>4, <1>5, <1>6, <1>7, <2>1, <2>2
<1>11. QED
  BY <1>1, <1>2, <1>3, <1>4, <1>9, <1>10 DEF s, A, cap, out

\* The log entry of an insertion.
LEMMA InsertLog ==
    ASSUME LInv, NEW k \in Keys, NEW iat \in Iats, Insert(k, iat)
    PROVE  /\ UNCHANGED <<now, sweep>>
           /\ premature_evictions' \in Nat /\ premature_evictions' >= premature_evictions
           /\ (Room(k) # 0 /\ IsPremature(cache[Room(k)])) => premature_evictions' > 0
           /\ \E f \in LogEntry :
                  /\ log' = Append(log, f)
                  /\ f.key = k /\ f.iat = iat /\ f.at = now
                  /\ f.warned = (premature_evictions' > 0)
<1> DEFINE out == Displaced(cache, k, ShardOf, ShardCapacity(ShardOf[k]))
           warn == IF out # 0 /\ IsPremature(cache[out]) THEN 1 ELSE 0
           f == [key |-> k, iat |-> iat, at |-> now, warned |-> premature_evictions + warn > 0]
<1>1. /\ UNCHANGED <<now, sweep>>
      /\ premature_evictions' = premature_evictions + warn
      /\ log' = Append(log, f)
  BY DEF Insert
<1>2. premature_evictions \in Nat /\ now \in Int
  BY DEF LInv
<1>3. warn \in {0, 1}
  OBVIOUS
<1>4. (out # 0 /\ IsPremature(cache[out])) => warn = 1
  OBVIOUS
<1>5. out = Room(k)
  BY DEF Room
<1> HIDE DEF warn, out
<1>6. f \in LogEntry
  BY <1>2, <1>3 DEF LogEntry
<1>7. QED
  BY <1>1, <1>2, <1>3, <1>4, <1>5, <1>6

\* An insertion keeps the invariant.
LEMMA InsertLInv ==
    ASSUME LInv, NEW k \in Keys, NEW iat \in Iats, Insert(k, iat)
    PROVE  LInv'
<1> DEFINE I == Others(k)
           c == Kept(cache, I)
           e == [id |-> k, val |-> iat]
           A == InShard(cache, ShardOf, ShardOf[k])
           cap == ShardCapacity(ShardOf[k])
<1>1. /\ k \notin LongKeys /\ \A p \in DOMAIN cache : cache[p].id # k
      /\ cache' = Append(c, e)
      /\ cap \in Nat /\ Cardinality(A \cap I) <= cap - 1
  BY InsertFacts
<1>2. PICK f \in LogEntry : log' = Append(log, f) /\ f.key = k /\ f.iat = iat
  BY InsertLog
<1>3. I \in SUBSET (DOMAIN cache) /\ cache \in Seq(Entry) /\ log \in Seq(LogEntry) /\ e \in Entry
  BY <1>1 DEF Others, LInv, Entry, LogEntry
<1>4. DistinctIds(cache) /\ ShardsFit(cache) /\ Mirrors(cache, log)
  BY DEF LInv
<1>5. /\ c \in Seq(Entry) /\ DistinctIds(c) /\ ShardsFit(c) /\ Mirrors(c, log)
      /\ \A p \in DOMAIN c : \E i \in I : c[p] = cache[i]
  BY <1>3, <1>4, KeptInvariants
<1>6. \A p \in DOMAIN c : c[p].id # k
  BY <1>1, <1>3, <1>5
<1>7. Cardinality(InShard(c, ShardOf, ShardOf[k])) <= Cardinality(A \cap I)
  BY <1>3, KeptShard
<1>8. IsFiniteSet(A \cap I) /\ Cardinality(A \cap I) \in Nat
  BY <1>3, ShardIsFinite, FS_Subset, FS_CardinalityType
<1> HIDE DEF c, I
<1>9. /\ Append(c, e) \in Seq(Entry) /\ DistinctIds(Append(c, e))
      /\ Mirrors(Append(c, e), Append(log, f))
  <2>1. f.key = e.id /\ f.iat = e.val /\ \A p \in DOMAIN c : c[p].id # e.id
    BY <1>2, <1>6
  <2> HIDE DEF e
  <2>2. QED
    BY <1>3, <1>5, <2>1, AppendedInvariants
<1>10. ShardsFit(Append(c, e))
  <2> SUFFICES ASSUME NEW s \in 0 .. ShardCount - 1
               PROVE  Cardinality(InShard(Append(c, e), ShardOf, s)) <= ShardCapacity(s)
    BY DEF ShardsFit
  <2> DEFINE B == InShard(c, ShardOf, s)
             D == InShard(Append(c, e), ShardOf, s)
  <2>1. /\ DOMAIN c = 1 .. Len(c) /\ Len(c) \in Nat /\ DOMAIN Append(c, e) = 1 .. Len(c) + 1
        /\ \A p \in DOMAIN c : Append(c, e)[p] = c[p]
        /\ Append(c, e)[Len(c) + 1] = e
    BY <1>3, <1>5
  <2>2. B \subseteq DOMAIN c /\ IsFiniteSet(B) /\ Cardinality(B) \in Nat
    BY <1>5, ShardIsFinite
  <2>3. CASE s # ShardOf[k]
    <3>1. D = B
      BY <2>1, <2>3 DEF InShard
    <3>2. QED
      BY <1>5, <3>1 DEF ShardsFit
  <2>4. CASE s = ShardOf[k]
    <3>1. D = B \cup {Len(c) + 1} /\ Len(c) + 1 \notin B
      BY <2>1, <2>4 DEF InShard
    <3>2. Cardinality(D) = Cardinality(B) + 1
      BY <2>2, <3>1, FS_AddElement
    <3>3. QED
      BY <1>1, <1>7, <1>8, <2>2, <2>4, <3>2
  <2>5. QED
    BY <2>3, <2>4
<1>11. Append(log, f) \in Seq(LogEntry)
  BY <1>3, AppendedLog
<1>12. QED
  BY <1>1, <1>2, <1>9, <1>10, <1>11, InsertLog DEF LInv, Entry, LogEntry

-----------------------------------------------------------------------------
(* The sweep, and the first theorems.                                      *)

\* The positions a sweep of its next shard leaves.
Spared(w) ==
    {i \in DOMAIN cache : ~ /\ ShardOf[cache[i].id] = sweep[w].next
                            /\ sweep[w].at - cache[i].val >= SweepAge}

\* Sweeping a shard keeps the invariant.
LEMMA SweepLInv ==
    ASSUME LInv, NEW w \in Sweepers, SweepShard(w)
    PROVE  LInv'
<1>1. /\ cache' = Kept(cache, Spared(w))
      /\ sweep' = [sweep EXCEPT ![w] =
             IF sweep[w].next + 1 = ShardCount THEN AtRest ELSE [sweep[w] EXCEPT !.next = @ + 1]]
      /\ UNCHANGED <<now, premature_evictions, log>>
  BY DEF SweepShard, Spared
<1>2. Spared(w) \in SUBSET (DOMAIN cache) /\ cache \in Seq(Entry) /\ log \in Seq(LogEntry)
  BY DEF Spared, LInv, Entry, LogEntry
<1>3. DistinctIds(cache) /\ ShardsFit(cache) /\ Mirrors(cache, log)
  BY DEF LInv
<1>4. /\ cache' \in Seq(Entry) /\ DistinctIds(cache') /\ ShardsFit(cache')
      /\ Mirrors(cache', log)
  BY <1>1, <1>2, <1>3, KeptInvariants
<1>5. /\ sweep' \in [Sweepers -> [active : BOOLEAN, at : Int, next : Int]]
      /\ \A v \in Sweepers : sweep'[v].at <= now
  <2>1. /\ sweep \in [Sweepers -> [active : BOOLEAN, at : Int, next : Int]]
        /\ \A v \in Sweepers : sweep[v].at <= now
        /\ StartTime \in Int /\ now \in Int /\ StartTime <= now
    BY LruConstants DEF LInv
  <2>2. AtRest \in [active : BOOLEAN, at : Int, next : Int] /\ AtRest.at = StartTime
    BY <2>1 DEF AtRest
  <2>3. [sweep[w] EXCEPT !.next = @ + 1] \in [active : BOOLEAN, at : Int, next : Int]
        /\ [sweep[w] EXCEPT !.next = @ + 1].at = sweep[w].at
    BY <2>1
  <2>4. PICK x : /\ sweep' = [sweep EXCEPT ![w] = x]
                 /\ x = AtRest \/ x = [sweep[w] EXCEPT !.next = @ + 1]
    BY <1>1
  <2>5. x \in [active : BOOLEAN, at : Int, next : Int] /\ x.at <= now
    BY <2>1, <2>2, <2>3, <2>4
  <2>6. QED
    BY <2>1, <2>4, <2>5
<1>6. QED
  BY <1>1, <1>4, <1>5 DEF LInv, Entry

\* Every step keeps the invariant.
LEMMA LruStep ==
    ASSUME LInv, [LNext]_lruVars
    PROVE  LInv'
<1>1. CASE \E k \in Keys : DetectReplay(k)
  BY <1>1 DEF DetectReplay, LInv
<1>2. CASE \E k \in Keys, iat \in Iats : Insert(k, iat)
  BY <1>2, InsertLInv
<1>3. CASE \E w \in Sweepers : StartSweep(w)
  BY <1>3 DEF StartSweep, LInv
<1>4. CASE \E w \in Sweepers : SweepShard(w)
  BY <1>4, SweepLInv
<1>5. CASE LTick
  <2>1. now' = now + 1 /\ UNCHANGED <<cache, premature_evictions, sweep, log>>
    BY <1>5 DEF LTick
  <2>2. now' \in Int /\ StartTime <= now' /\ \A w \in Sweepers : sweep[w].at <= now'
    BY <2>1, LruConstants DEF LInv
  <2>3. QED
    BY <2>1, <2>2 DEF LInv
<1>6. CASE UNCHANGED lruVars
  BY <1>6 DEF lruVars, LInv
<1>7. QED
  BY <1>1, <1>2, <1>3, <1>4, <1>5, <1>6 DEF LNext

\* The invariant holds in every reachable state.
THEOREM LruInvariant == LSpec => []LInv
<1>1. LInit => LInv
  <2> SUFFICES ASSUME LInit PROVE LInv
    OBVIOUS
  <2>1. cache = <<>> /\ log = <<>> /\ DOMAIN cache = {}
    BY DEF LInit
  <2>2. DistinctIds(cache) /\ Mirrors(cache, log)
    BY <2>1 DEF DistinctIds, Mirrors
  <2>3. ShardsFit(cache)
    <3>1. \A s : Cardinality(InShard(cache, ShardOf, s)) = 0
      BY <2>1, FS_EmptySet DEF InShard
    <3>2. QED
      BY <3>1, ShardArithmetic DEF ShardsFit
  <2>4. QED
    BY <2>1, <2>2, <2>3, LruConstants DEF LInit, LInv, AtRest
<1>2. LInv /\ [LNext]_lruVars => LInv'
  BY LruStep
<1>3. QED
  BY <1>1, <1>2, PTL DEF LSpec

\* No key is stored twice, and the store never holds more than the requested
\* capacity: new_with_shards deals it out without rounding any of it up, and
\* push makes room in the shard it inserts into.
THEOREM LruTypeCorrect == LSpec => []LTypeOK
<1>1. LInv => LTypeOK
  <2> SUFFICES ASSUME LInv PROVE LTypeOK
    OBVIOUS
  <2>1. cache \in Seq(Entry) /\ premature_evictions \in Nat
    BY DEF LInv, Entry
  <2>2. \A p \in DOMAIN cache : cache[p].id \in Keys \ LongKeys /\ cache[p].val \in Iats
    <3>1. \A p \in DOMAIN cache : cache[p] \in Entry
      BY <2>1
    <3>2. QED
      BY <3>1 DEF Entry
  <2>3. Len(cache) <= Capacity
    BY <2>1, SharesAddUp DEF LInv
  <2>4. QED
    BY <2>1, <2>2, <2>3 DEF LTypeOK, LInv, DistinctIds
<1>2. QED
  BY <1>1, LruInvariant, PTL

-----------------------------------------------------------------------------
(* What becomes of a stored key.                                           *)

\* The entry of a stored insertion carries that insertion's iat.
LEMMA StoredEntry ==
    ASSUME LInv, NEW i \in DOMAIN log, Stored(i)
    PROVE  LET p == Find(cache, log[i].key)
           IN  /\ p \in DOMAIN cache
               /\ cache[p].id = log[i].key
               /\ cache[p].val = log[i].iat
<1> DEFINE p == Find(cache, log[i].key)
<1>1. cache \in Seq(Entry) /\ Latest(log, log[i].key, i) /\ p # 0
      /\ DOMAIN log = 1 .. Len(log)
  BY DEF LInv, Entry, Stored
<1>2. p \in DOMAIN cache /\ cache[p].id = log[i].key
  BY <1>1, FindProperties
<1>3. PICK n \in DOMAIN log : Latest(log, cache[p].id, n) /\ log[n].iat = cache[p].val
  BY <1>2 DEF LInv, Mirrors
<1>4. n = i
  BY <1>1, <1>2, <1>3 DEF Latest
<1>5. QED
  BY <1>2, <1>3, <1>4

\* A key whose position is kept is still found.
LEMMA KeptIsFound ==
    ASSUME NEW c \in Seq(Entry), NEW I \in SUBSET (DOMAIN c), NEW i \in I
    PROVE  \E p \in DOMAIN Kept(c, I) : Kept(c, I)[p] = c[i]
<1>1. Kept(c, I) \in Seq(Entry) /\ Len(Kept(c, I)) = Cardinality(I)
  BY KeptProperties
<1>2. PICK pos : Traces(pos, c, I)
  BY KeptProperties
<1>3. PICK n \in 1 .. Cardinality(I) : pos[n] = i
  BY <1>2 DEF Traces
<1>4. Kept(c, I)[n] = c[i]
  BY <1>2, <1>3 DEF Traces
<1>5. QED
  BY <1>1, <1>4

\* The later insertions are finitely many, and a longer log has no fewer.
LEMMA LaterGrows ==
    ASSUME LInv, NEW f \in LogEntry, log' = Append(log, f), NEW i \in DOMAIN log
    PROVE  /\ IsFiniteSet(LaterInShard(i)) /\ IsFiniteSet(LaterInShard(i)')
           /\ LaterInShard(i) \subseteq LaterInShard(i)'
           /\ Cardinality(LaterInShard(i)) \in Nat /\ Cardinality(LaterInShard(i)') \in Nat
           /\ Cardinality(LaterInShard(i)) <= Cardinality(LaterInShard(i)')
           /\ ShardOf[f.key] = ShardOf[log[i].key] =>
                  LaterInShard(i)' = LaterInShard(i) \cup {Len(log) + 1}
<1>1. log \in Seq(LogEntry)
  BY DEF LInv, LogEntry
<1>2. /\ DOMAIN log = 1 .. Len(log) /\ DOMAIN log' = 1 .. Len(log) + 1 /\ Len(log) \in Nat
      /\ \A n \in DOMAIN log : log'[n] = log[n]
      /\ log'[Len(log) + 1] = f
  BY <1>1, AppendedLog
<1>3. IsFiniteSet(DOMAIN log) /\ IsFiniteSet(DOMAIN log')
  <2>1. ASSUME NEW n \in Nat PROVE IsFiniteSet(1 .. n)
    BY FS_Interval
  <2>2. Len(log) \in Nat /\ Len(log) + 1 \in Nat
    BY <1>2
  <2>3. QED
    BY <1>2, <2>1, <2>2, Zenon
<1>4. LaterInShard(i) \subseteq LaterInShard(i)'
  BY <1>2 DEF LaterInShard
<1>5. LaterInShard(i) \subseteq DOMAIN log /\ LaterInShard(i)' \subseteq DOMAIN log'
  BY DEF LaterInShard
<1>6. IsFiniteSet(LaterInShard(i)) /\ IsFiniteSet(LaterInShard(i)')
  BY <1>3, <1>5, FS_Subset
<1>7. ShardOf[f.key] = ShardOf[log[i].key] =>
          LaterInShard(i)' = LaterInShard(i) \cup {Len(log) + 1}
  BY <1>2 DEF LaterInShard
<1>8. QED
  BY <1>4, <1>6, <1>7, FS_Subset, FS_CardinalityType

\* The oldest entry of a full shard goes only after the shard has taken as
\* many keys as it has room for: the entries that are still there came later,
\* and so does the one that pushes it out.
LEMMA EvictedByPressure ==
    ASSUME LInv, NEW k \in Keys, NEW iat \in Iats, Insert(k, iat),
           NEW i \in DOMAIN log, Stored(i), Find(cache, log[i].key) = Room(k)
    PROVE  Cardinality(LaterInShard(i)') >= ShardCapacity(ShardOf[log[i].key])
<1> DEFINE r == Room(k)
           A == InShard(cache, ShardOf, ShardOf[k])
           cap == ShardCapacity(ShardOf[k])
           B == A \ {r}
           f == [p \in B |-> CHOOSE n \in DOMAIN log : Latest(log, cache[p].id, n)]
<1>1. r \in DOMAIN cache /\ cache[r].id = log[i].key
  BY StoredEntry
<1>2. /\ r \in A /\ (\A p \in A : r <= p) /\ Cardinality(A) = cap /\ cap \in Nat \ {0}
  BY <1>1, InsertFacts
<1>3. cache \in Seq(Entry) /\ DOMAIN log = 1 .. Len(log) /\ Len(log) \in Nat
  BY DEF LInv, Entry
<1>4. A \subseteq DOMAIN cache /\ IsFiniteSet(A) /\ DOMAIN cache \subseteq Nat
  BY <1>3, ShardIsFinite
<1>5. IsFiniteSet(B) /\ Cardinality(B) = cap - 1
  BY <1>2, <1>4, FS_RemoveElement
<1>6. ShardOf[log[i].key] = ShardOf[k]
  BY <1>1, <1>2 DEF InShard
<1>7. PICK e \in LogEntry : log' = Append(log, e) /\ e.key = k
  BY InsertLog
<1>8. /\ LaterInShard(i)' = LaterInShard(i) \cup {Len(log) + 1}
      /\ IsFiniteSet(LaterInShard(i)) /\ Cardinality(LaterInShard(i)) \in Nat
  BY <1>6, <1>7, LaterGrows
<1>9. ASSUME NEW p \in B
      PROVE  /\ f[p] \in LaterInShard(i)
             /\ Latest(log, cache[p].id, f[p])
  <2>1. p \in DOMAIN cache /\ r < p /\ ShardOf[cache[p].id] = ShardOf[k]
    BY <1>1, <1>2, <1>4 DEF InShard
  <2>2. \E n \in DOMAIN log : Latest(log, cache[p].id, n)
    BY <2>1 DEF LInv, Mirrors
  <2>3. f[p] \in DOMAIN log /\ Latest(log, cache[p].id, f[p])
    BY <2>2
  <2>4. Latest(log, cache[r].id, i)
    BY <1>1 DEF Stored
  <2> HIDE DEF f
  <2>5. i < f[p]
    BY <1>1, <2>1, <2>3, <2>4 DEF LInv, Mirrors
  <2>6. log[f[p]].key = cache[p].id
    BY <2>3 DEF Latest
  <2>7. QED
    BY <1>6, <2>1, <2>3, <2>5, <2>6 DEF LaterInShard
<1>10. \A p, q \in B : f[p] = f[q] => p = q
  <2> SUFFICES ASSUME NEW p \in B, NEW q \in B, f[p] = f[q] PROVE p = q
    OBVIOUS
  <2>1. Latest(log, cache[p].id, f[p]) /\ Latest(log, cache[q].id, f[q])
    BY <1>9
  <2> HIDE DEF f
  <2>2. cache[p].id = cache[q].id /\ p \in DOMAIN cache /\ q \in DOMAIN cache
    BY <1>4, <2>1 DEF Latest
  <2>3. QED
    BY <2>2 DEF LInv, DistinctIds
<1>11. f \in [B -> LaterInShard(i)]
  BY <1>9
<1> HIDE DEF f, B, A, cap, r
<1>12. f \in Injection(B, LaterInShard(i))
  BY <1>10, <1>11 DEF Injection, IsInjective
<1>13. Cardinality(B) <= Cardinality(LaterInShard(i))
  BY <1>8, <1>12, FS_Injection
<1>14. Len(log) + 1 \notin LaterInShard(i)
  BY <1>3 DEF LaterInShard
<1>15. Cardinality(LaterInShard(i)') = Cardinality(LaterInShard(i)) + 1
  BY <1>8, <1>14, FS_AddElement
<1>16. QED
  BY <1>2, <1>5, <1>6, <1>8, <1>13, <1>15 DEF cap

\* An insertion leaves a stored key stored, unless it needs its place.
LEMMA InsertFate ==
    ASSUME LInv, NEW k \in Keys, NEW iat \in Iats, Insert(k, iat), NEW i \in DOMAIN log
    PROVE  /\ i \in DOMAIN log' /\ log'[i] = log[i]
           /\ Stored(i) /\ Find(cache, log[i].key) # Room(k) => Stored(i)'
<1> DEFINE p == Find(cache, log[i].key)
           c == Kept(cache, Others(k))
           e == [id |-> k, val |-> iat]
<1>1. cache \in Seq(Entry) /\ log \in Seq(LogEntry) /\ Others(k) \in SUBSET (DOMAIN cache)
  BY DEF LInv, Entry, LogEntry, Others
<1>2. PICK f \in LogEntry : log' = Append(log, f) /\ f.key = k
  BY InsertLog
<1>3. /\ i \in DOMAIN log' /\ log'[i] = log[i]
      /\ \A x, n : x # k => (Latest(log', x, n) <=> Latest(log, x, n))
  BY <1>1, <1>2, AppendedLog
<1>4. ASSUME Stored(i), p # Room(k)
      PROVE  Stored(i)'
  <2>1. p \in DOMAIN cache /\ cache[p].id = log[i].key
    BY <1>4, StoredEntry
  <2>2. log[i].key # k /\ k \notin LongKeys /\ cache' = Append(c, e)
    BY <2>1, InsertFacts
  <2>3. p \in Others(k)
    BY <1>4, <2>1 DEF Others
  <2>4. PICK q \in DOMAIN c : c[q] = cache[p]
    BY <1>1, <2>3, KeptIsFound
  <2>5. c \in Seq(Entry) /\ e \in Entry
    BY <1>1, <2>2, KeptProperties DEF Entry
  <2> HIDE DEF c, e, p
  <2>6. cache' \in Seq(Entry) /\ q \in DOMAIN cache' /\ cache'[q] = c[q]
    BY <2>2, <2>5
  <2>7. cache'[q].id = log'[i].key
    BY <1>3, <2>1, <2>4, <2>6
  <2>8. Find(cache', log'[i].key) # 0
    BY <2>6, <2>7, FindProperties
  <2>9. Latest(log', log'[i].key, i)
    BY <1>3, <1>4, <2>2 DEF Stored
  <2>10. QED
    BY <2>8, <2>9 DEF Stored
<1>5. QED
  BY <1>3, <1>4

\* The key just inserted is stored.
LEMMA InsertedIsStored ==
    ASSUME LInv, NEW k \in Keys, NEW iat \in Iats, Insert(k, iat),
           NEW n \in Nat, n = Len(log) + 1
    PROVE  Stored(n)'
<1> DEFINE c == Kept(cache, Others(k))
           e == [id |-> k, val |-> iat]
<1>1. cache \in Seq(Entry) /\ log \in Seq(LogEntry) /\ Others(k) \in SUBSET (DOMAIN cache)
  BY DEF LInv, Entry, LogEntry, Others
<1>2. PICK f \in LogEntry : log' = Append(log, f) /\ f.key = k
  BY InsertLog
<1>3. log'[Len(log) + 1] = f /\ Latest(log', k, Len(log) + 1)
  BY <1>1, <1>2, AppendedLog
<1>4. k \notin LongKeys /\ cache' = Append(c, e)
  BY InsertFacts
<1>5. c \in Seq(Entry) /\ e \in Entry /\ e.id = k
  BY <1>1, <1>4, KeptProperties DEF Entry
<1> HIDE DEF c, e
<1>6. cache' \in Seq(Entry) /\ Len(c) + 1 \in DOMAIN cache' /\ cache'[Len(c) + 1] = e
  BY <1>4, <1>5
<1>7. Find(cache', k) # 0
  BY <1>5, <1>6, FindProperties
<1>8. QED
  BY <1>2, <1>3, <1>7 DEF Stored

\* A sweep leaves a stored key stored, unless it is old enough.
LEMMA SweepFate ==
    ASSUME LInv, NEW w \in Sweepers, SweepShard(w), NEW i \in DOMAIN log, Stored(i)
    PROVE  Stored(i)' \/ now - log[i].iat >= SweepAge
<1> DEFINE p == Find(cache, log[i].key)
           c == Kept(cache, Spared(w))
<1>1. /\ cache' = c /\ log' = log /\ cache \in Seq(Entry)
      /\ Spared(w) \in SUBSET (DOMAIN cache)
  BY DEF SweepShard, Spared, LInv, Entry
<1>2. p \in DOMAIN cache /\ cache[p].id = log[i].key /\ cache[p].val = log[i].iat
  BY StoredEntry
<1>3. CASE p \in Spared(w)
  <2>1. PICK q \in DOMAIN c : c[q] = cache[p]
    BY <1>1, <1>3, KeptIsFound
  <2>2. c \in Seq(Entry)
    BY <1>1, KeptProperties
  <2> HIDE DEF c, p
  <2>3. Find(cache', log'[i].key) # 0
    BY <1>1, <1>2, <2>1, <2>2, FindProperties
  <2>4. QED
    BY <1>1, <2>3 DEF Stored
<1>4. CASE p \notin Spared(w)
  <2>1. sweep[w].at - cache[p].val >= SweepAge
    BY <1>2, <1>4 DEF Spared
  <2>2. /\ now \in Int /\ sweep[w].at \in Int /\ sweep[w].at <= now /\ SweepAge \in Int
    BY LruConstants DEF LInv
  <2>3. cache[p].val \in Int
    <3>1. cache[p] \in Entry
      BY <1>1, <1>2
    <3>2. QED
      BY <3>1, LruConstants DEF Entry
  <2>4. QED
    BY <1>2, <2>1, <2>2, <2>3
<1>5. QED
  BY <1>3, <1>4

-----------------------------------------------------------------------------
(* Losses have a reason.                                                   *)

\* The types of a logged insertion.
LEMMA LogTypes ==
    ASSUME LInv, NEW i \in DOMAIN log
    PROVE  log[i].key \in Keys /\ log[i].iat \in Int /\ now \in Int
<1>1. log \in Seq(LogEntry) /\ now \in Int
  BY DEF LInv, LogEntry
<1>2. log[i] \in LogEntry
  BY <1>1
<1>3. QED
  BY <1>1, <1>2, LruConstants DEF LogEntry

\* Steps that leave the cache and the log alone lose nothing.
LEMMA QuietStep ==
    ASSUME LInv, UNCHANGED <<cache, log>>, now' \in Int, now' >= now,
           NEW i \in DOMAIN log
    PROVE  /\ Stored(i)' <=> Stored(i)
           /\ LaterInShard(i)' = LaterInShard(i)
           /\ \A age \in Int : now - log[i].iat >= age => now' - log[i].iat >= age
<1>1. now \in Int /\ log[i].iat \in Int
  BY LogTypes
<1>2. QED
  BY <1>1 DEF Stored, LaterInShard

\* No step loses an insertion for another reason.
LEMMA LostForAReasonStep ==
    ASSUME LInv, LostForAReason, [LNext]_lruVars
    PROVE  LostForAReason'
<1> USE LruConstants
<1>1. ASSUME NEW k \in Keys, NEW iat \in Iats, Insert(k, iat)
      PROVE  LostForAReason'
  <2> SUFFICES ASSUME NEW i \in DOMAIN log'
               PROVE  \/ Stored(i)'
                      \/ Cardinality(LaterInShard(i)') >= ShardCapacity(ShardOf[log'[i].key])
                      \/ now' - log'[i].iat >= SweepAge
    BY DEF LostForAReason
  <2>1. PICK f \in LogEntry : log' = Append(log, f)
    BY <1>1, InsertLog
  <2>2. /\ DOMAIN log = 1 .. Len(log) /\ Len(log) \in Nat
        /\ DOMAIN log' = 1 .. Len(log) + 1
    BY <2>1, AppendedLog DEF LInv, LogEntry
  <2>3. CASE i = Len(log) + 1
    BY <1>1, <2>2, <2>3, InsertedIsStored
  <2>4. CASE i \in DOMAIN log
    <3>1. log'[i] = log[i] /\ now' = now
      BY <1>1, <2>4, InsertFate, InsertLog
    <3>2. CASE Stored(i)
      BY <1>1, <2>4, <3>1, <3>2, InsertFate, EvictedByPressure
    <3>3. CASE Cardinality(LaterInShard(i)) >= ShardCapacity(ShardOf[log[i].key])
      <4>1. /\ Cardinality(LaterInShard(i)) \in Nat /\ Cardinality(LaterInShard(i)') \in Nat
            /\ Cardinality(LaterInShard(i)) <= Cardinality(LaterInShard(i)')
        BY <2>1, <2>4, LaterGrows
      <4>2. ShardCapacity(ShardOf[log[i].key]) \in Nat
        <5>1. log[i].key \in Keys
          BY <2>4, LogTypes
        <5>2. QED
          BY <5>1, ShardArithmetic
      <4>3. QED
        BY <3>1, <3>3, <4>1, <4>2
    <3>4. CASE now - log[i].iat >= SweepAge
      BY <3>1, <3>4
    <3>5. QED
      BY <2>4, <3>2, <3>3, <3>4 DEF LostForAReason
  <2>5. QED
    BY <2>2, <2>3, <2>4
<1>2. ASSUME NEW w \in Sweepers, SweepShard(w)
      PROVE  LostForAReason'
  <2>1. log' = log /\ now' = now
    BY <1>2 DEF SweepShard
  <2> SUFFICES ASSUME NEW i \in DOMAIN log
               PROVE  \/ Stored(i)'
                      \/ Cardinality(LaterInShard(i)') >= ShardCapacity(ShardOf[log[i].key])
                      \/ now - log[i].iat >= SweepAge
    BY <2>1 DEF LostForAReason
  <2>2. LaterInShard(i)' = LaterInShard(i)
    BY <2>1 DEF LaterInShard
  <2>3. QED
    BY <1>2, <2>2, SweepFate DEF LostForAReason
<1>3. CASE UNCHANGED <<cache, log>> /\ now' \in Int /\ now' >= now
  <2> SUFFICES ASSUME NEW i \in DOMAIN log
               PROVE  \/ Stored(i)'
                      \/ Cardinality(LaterInShard(i)') >= ShardCapacity(ShardOf[log[i].key])
                      \/ now' - log[i].iat >= SweepAge
    BY <1>3 DEF LostForAReason
  <2>1. QED
    BY <1>3, QuietStep DEF LostForAReason
<1>4. now \in Int
  BY DEF LInv
<1>5. QED
  BY <1>1, <1>2, <1>3, <1>4 DEF LNext, DetectReplay, StartSweep, LTick, lruVars

\* An accepted key is lost only to pressure, after its shard has taken as many
\* further keys as it has room for, or to a sweep that found it old enough. A
\* replayed key is not one of those keys: check_and_insert uses `contains`,
\* which does not touch the order.
THEOREM RetentionIsGuaranteed == LSpec => []RetainedForCapacity
<1>1. LInit => LostForAReason
  BY DEF LInit, LostForAReason
<1>2. LInv /\ LostForAReason /\ [LNext]_lruVars => LostForAReason'
  BY LostForAReasonStep
<1>3. LostForAReason => RetainedForCapacity
  BY DEF LostForAReason, RetainedForCapacity, Stored
<1>4. QED
  BY <1>1, <1>2, <1>3, LruInvariant, PTL DEF LSpec

-----------------------------------------------------------------------------
(* The canary.                                                             *)

\* No step loses a young insertion without counting it, given that sweeps spare
\* the young ones.
LEMMA LostIsCountedStep ==
    ASSUME SweepAge >= Window, LInv, LostIsCounted, [LNext]_lruVars
    PROVE  LostIsCounted'
<1> USE LruConstants
<1>1. ASSUME NEW k \in Keys, NEW iat \in Iats, Insert(k, iat)
      PROVE  LostIsCounted'
  <2> SUFFICES ASSUME NEW i \in DOMAIN log'
               PROVE  \/ Stored(i)'
                      \/ now' - log'[i].iat >= Window
                      \/ premature_evictions' > 0
    BY DEF LostIsCounted
  <2>1. PICK f \in LogEntry : log' = Append(log, f)
    BY <1>1, InsertLog
  <2>2. /\ DOMAIN log = 1 .. Len(log) /\ Len(log) \in Nat
        /\ DOMAIN log' = 1 .. Len(log) + 1
    BY <2>1, AppendedLog DEF LInv, LogEntry
  <2>3. CASE i = Len(log) + 1
    BY <1>1, <2>2, <2>3, InsertedIsStored
  <2>4. CASE i \in DOMAIN log
    <3>1. log'[i] = log[i] /\ now' = now
      BY <1>1, <2>4, InsertFate, InsertLog
    <3>2. /\ premature_evictions' \in Nat /\ premature_evictions \in Nat
          /\ premature_evictions' >= premature_evictions
      BY <1>1, InsertLog DEF LInv
    <3>3. CASE Stored(i) /\ Find(cache, log[i].key) = Room(k)
      <4>1. Room(k) \in DOMAIN cache /\ cache[Room(k)].val = log[i].iat /\ Room(k) # 0
        BY <2>4, <3>3, StoredEntry DEF LInv
      <4>2. now - log[i].iat < Window => premature_evictions' > 0
        BY <1>1, <4>1, InsertLog DEF IsPremature
      <4>3. now \in Int /\ log[i].iat \in Int
        BY <2>4, LogTypes
      <4>4. QED
        BY <3>1, <4>2, <4>3
    <3>4. QED
      BY <1>1, <2>4, <3>1, <3>2, <3>3, InsertFate DEF LostIsCounted
  <2>5. QED
    BY <2>2, <2>3, <2>4
<1>2. ASSUME NEW w \in Sweepers, SweepShard(w)
      PROVE  LostIsCounted'
  <2>1. log' = log /\ now' = now /\ premature_evictions' = premature_evictions
    BY <1>2 DEF SweepShard
  <2> SUFFICES ASSUME NEW i \in DOMAIN log
               PROVE  \/ Stored(i)'
                      \/ now - log[i].iat >= Window
                      \/ premature_evictions > 0
    BY <2>1 DEF LostIsCounted
  <2>2. now \in Int /\ log[i].iat \in Int
    BY LogTypes
  <2>3. now - log[i].iat >= SweepAge => now - log[i].iat >= Window
    BY <2>2
  <2>4. QED
    BY <1>2, <2>3, SweepFate DEF LostIsCounted
<1>3. CASE UNCHANGED <<cache, log, premature_evictions>> /\ now' \in Int /\ now' >= now
  <2> SUFFICES ASSUME NEW i \in DOMAIN log
               PROVE  \/ Stored(i)'
                      \/ now' - log[i].iat >= Window
                      \/ premature_evictions > 0
    BY <1>3 DEF LostIsCounted
  <2>1. QED
    BY <1>3, QuietStep DEF LostIsCounted
<1>4. now \in Int
  BY DEF LInv
<1>5. QED
  BY <1>1, <1>2, <1>3, <1>4 DEF LNext, DetectReplay, StartSweep, LTick, lruVars

\* A key that is accepted again had been lost before, so the step that accepts
\* it sees the count.
LEMMA CanaryStep ==
    ASSUME LInv, LostIsCounted, CanaryWarns, [LNext]_lruVars
    PROVE  CanaryWarns'
<1>1. ASSUME NEW k \in Keys, NEW iat \in Iats, Insert(k, iat)
      PROVE  CanaryWarns'
  <2>1. PICK f \in LogEntry : /\ log' = Append(log, f)
                              /\ f.key = k /\ f.iat = iat /\ f.at = now
                              /\ f.warned = (premature_evictions' > 0)
    BY <1>1, InsertLog
  <2>2. /\ DOMAIN log = 1 .. Len(log) /\ Len(log) \in Nat
        /\ DOMAIN log' = 1 .. Len(log) + 1
        /\ \A n \in DOMAIN log : log'[n] = log[n]
        /\ log'[Len(log) + 1] = f
    BY <2>1, AppendedLog DEF LInv, LogEntry
  <2> SUFFICES ASSUME NEW j \in DOMAIN log', log'[j].at - log'[j].iat < Window,
                      NEW i \in 1 .. j - 1, log'[i].key = log'[j].key,
                      log'[i].iat = log'[j].iat
               PROVE  log'[j].warned
    BY DEF CanaryWarns
  <2>3. i \in DOMAIN log /\ log'[i] = log[i]
    BY <2>2
  <2>4. CASE j \in DOMAIN log
    BY <2>2, <2>3, <2>4 DEF CanaryWarns
  <2>5. CASE j = Len(log) + 1
    <3>1. log[i].key = k /\ log[i].iat = iat /\ now - iat < Window
      BY <2>1, <2>2, <2>3, <2>5
    <3>2. ~Stored(i)
      BY <1>1, <3>1 DEF Insert, Stored
    <3>3. now - iat >= Window => FALSE
      BY <3>1, LruConstants DEF LInv
    <3>4. premature_evictions > 0
      BY <2>3, <3>1, <3>2, <3>3 DEF LostIsCounted
    <3>5. premature_evictions' > 0
      BY <1>1, <3>4, InsertLog DEF LInv
    <3>6. QED
      BY <2>1, <2>2, <2>5, <3>5
  <2>6. QED
    BY <2>2, <2>4, <2>5
<1>2. CASE UNCHANGED log
  BY <1>2 DEF CanaryWarns
<1>3. QED
  BY <1>1, <1>2 DEF LNext, DetectReplay, StartSweep, SweepShard, LTick, lruVars

\* No proof is accepted a second time within its window before
\* premature_evictions has counted the loss. It takes a sweep that spares what
\* is younger than the window; the retention the settings give, jti_expiry, is
\* twice the window.
THEOREM CanaryIsReliable ==
    ASSUME SweepAge >= Window
    PROVE  LSpec => []CanaryWarns
<1>1. LInit => LostIsCounted /\ CanaryWarns
  BY DEF LInit, LostIsCounted, CanaryWarns
<1>2. LInv /\ LostIsCounted /\ [LNext]_lruVars => LostIsCounted'
  BY LostIsCountedStep
<1>3. LInv /\ LostIsCounted /\ CanaryWarns /\ [LNext]_lruVars => CanaryWarns'
  BY CanaryStep
<1>4. QED
  BY <1>1, <1>2, <1>3, LruInvariant, PTL DEF LSpec
=============================================================================
