------------------------------ MODULE LruCache ------------------------------
(***************************************************************************)
(* A sharded LruCache (the lru crate, as the code uses it). A cache is the *)
(* sequence of its entries [id, val], least recently used first; a shard   *)
(* is the entries that `shardOf` sends to it. An entry is named by its     *)
(* position in the sequence, and 0 stands for none.                        *)
(***************************************************************************)
EXTENDS Integers, Sequences, SequencesExt

\* The entries at the given positions, in the order of the cache: the n-th of
\* them is at the position that has n of the positions up to itself.
Kept(cache, positions) ==
    [n \in 1 .. Cardinality(positions) |->
        cache[CHOOSE i \in positions : Cardinality({j \in positions : j <= i}) = n]]

Removed(cache, i) == Kept(cache, DOMAIN cache \ {i})

\* The position of id's entry.
Find(cache, id) == SelectInSeq(cache, LAMBDA e : e.id = id)

\* `get` makes the entry the most recently used.
Touched(cache, id) ==
    IF Find(cache, id) = 0 THEN cache
    ELSE Append(Removed(cache, Find(cache, id)), cache[Find(cache, id)])

InShard(cache, shardOf, s) == {i \in DOMAIN cache : shardOf[cache[i].id] = s}

\* The entry `put` and `push` drop to make room for id: its own, if it has
\* one, or else the least recently used one of a full shard.
Displaced(cache, id, shardOf, capacity) ==
    LET shard == InShard(cache, shardOf, shardOf[id])
    IN  IF Find(cache, id) = 0 /\ Cardinality(shard) >= capacity THEN Min(shard)
        ELSE Find(cache, id)

\* `put` and `push`: the new entry is the most recently used.
Put(cache, id, val, shardOf, capacity) ==
    Append(Removed(cache, Displaced(cache, id, shardOf, capacity)), [id |-> id, val |-> val])

\* No id has two entries: what every cache that starts empty keeps.
DistinctIds(cache) == \A p, q \in DOMAIN cache : cache[p].id = cache[q].id => p = q
=============================================================================
