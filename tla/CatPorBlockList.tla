--------------------------- MODULE CatPorBlockList ---------------------------
(***************************************************************************)
(* CatPorBlockList (src/src/token.rs): the sharded LRU cache of blocked    *)
(* `catpor` ids, each with the time its block ends or NoExpiry.            *)
(***************************************************************************)
EXTENDS LruCache

CONSTANTS
    PorIds,
    PorShardOf,   \* shard_for
    PorCapacity,  \* entries per shard
    NoExpiry

ASSUME PorConstants == PorCapacity \in Nat \ {0}

\* is_blocked: an entry blocks up to its expiration, exclusive.
IsBlocked(list, id, at) ==
    /\ Find(list, id) # 0
    /\ \/ list[Find(list, id)].val = NoExpiry
       \/ at < list[Find(list, id)].val

\* add.
Added(list, id, exp) == Put(list, id, exp, PorShardOf, PorCapacity)
=============================================================================
