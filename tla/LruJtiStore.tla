----------------------------- MODULE LruJtiStore -----------------------------
(***************************************************************************)
(* LruJtiStore (src/src/dpop.rs), the default, best-effort replay store.   *)
(* It evicts under pressure, so a proof can be accepted twice; what it     *)
(* promises instead is a canary, premature_evictions.                      *)
(*                                                                         *)
(* check_and_insert does all its work under one shard lock and is one      *)
(* step. cleanup reads the clock once and then locks shard after shard.    *)
(***************************************************************************)
EXTENDS LruCache, FiniteSets

CONSTANTS
    Keys, LongKeys, Iats,
    Capacity,   \* requested_capacity
    NShards,    \* the number of shards asked for
    ShardOf,    \* shard_for
    Window,     \* freshness_window_seconds
    SweepAge,   \* the max_age_seconds cleanup is called with
    Sweepers,
    StartTime,
    MaxTime,    \* bound: the clock stops here
    MaxCalls    \* bound: check_and_insert is called this often

ShardCount == IF NShards <= Capacity THEN NShards ELSE Capacity

\* Mutant: the remainder is rounded up on every shard.
ShardCapacityRoundedUp(s) ==
    Capacity \div ShardCount + (IF Capacity % ShardCount # 0 THEN 1 ELSE 0)

\* The capacity is dealt out so that the shards add up to it exactly.
ShardCapacity(s) ==
    Capacity \div ShardCount + (IF s < Capacity % ShardCount THEN 1 ELSE 0)

ASSUME LruConstants ==
    /\ Capacity \in Nat \ {0}
    /\ NShards \in Nat \ {0}
    /\ ShardOf \in [Keys -> 0 .. ShardCount - 1]
    /\ Iats \subseteq Int
    /\ Window \in Int
    /\ SweepAge \in Int
    /\ StartTime \in Int

VARIABLES
    now,
    cache,                \* all the shards
    premature_evictions,
    sweep,                \* sweep[w]: [active, at, next]
    log,                  \* history: the insertions, [key, iat, at, warned]
    calls

lruVars == <<now, cache, premature_evictions, sweep, log, calls>>

AtRest == [active |-> FALSE, at |-> StartTime, next |-> 0]

LInit ==
    /\ now = StartTime
    /\ cache = <<>>
    /\ premature_evictions = 0
    /\ sweep = [w \in Sweepers |-> AtRest]
    /\ log = <<>>
    /\ calls = 0

\* Mutant: the test is the wrong way round.
IsPrematureInverted(e) == now - e.val >= Window

\* An eviction counts as premature if the entry's age is below the window.
IsPremature(e) == now - e.val < Window

Calling == calls < MaxCalls /\ calls' = calls + 1

\* Mutant: `get` for `contains`.
DetectReplayTouches(k) ==
    /\ Calling
    /\ Find(cache, k) # 0
    /\ cache' = Touched(cache, k)
    /\ UNCHANGED <<now, premature_evictions, sweep, log>>

\* check_and_insert of a key that is too long, or that is stored: nothing
\* changes, and the stored entry is not made more recent.
DetectReplay(k) ==
    /\ Calling
    /\ k \in LongKeys \/ Find(cache, k) # 0
    /\ UNCHANGED <<now, cache, premature_evictions, sweep, log>>

\* check_and_insert of a new key.
Insert(k, iat) ==
    /\ Calling
    /\ k \notin LongKeys
    /\ Find(cache, k) = 0
    /\ LET out == Displaced(cache, k, ShardOf, ShardCapacity(ShardOf[k]))
           warn == IF out # 0 /\ IsPremature(cache[out]) THEN 1 ELSE 0
       IN  /\ cache' = Put(cache, k, iat, ShardOf, ShardCapacity(ShardOf[k]))
           /\ premature_evictions' = premature_evictions + warn
           /\ log' = Append(log, [key |-> k, iat |-> iat, at |-> now,
                                  warned |-> premature_evictions + warn > 0])
    /\ UNCHANGED <<now, sweep>>

\* cleanup reads the clock...
StartSweep(w) ==
    /\ ~sweep[w].active
    /\ sweep' = [sweep EXCEPT ![w] = [active |-> TRUE, at |-> now, next |-> 0]]
    /\ UNCHANGED <<now, cache, premature_evictions, log, calls>>

\* ... and drops the expired entries of each shard in turn.
SweepShard(w) ==
    /\ sweep[w].active
    /\ cache' = Kept(cache, {i \in DOMAIN cache :
                    ~ /\ ShardOf[cache[i].id] = sweep[w].next
                      /\ sweep[w].at - cache[i].val >= SweepAge})
    /\ sweep' = [sweep EXCEPT ![w] =
           IF sweep[w].next + 1 = ShardCount THEN AtRest ELSE [sweep[w] EXCEPT !.next = @ + 1]]
    /\ UNCHANGED <<now, premature_evictions, log, calls>>

LTick ==
    /\ now < MaxTime
    /\ now' = now + 1
    /\ UNCHANGED <<cache, premature_evictions, sweep, log, calls>>

LNext ==
    \/ \E k \in Keys : DetectReplay(k) \/ \E iat \in Iats : Insert(k, iat)
    \/ \E w \in Sweepers : StartSweep(w) \/ SweepShard(w)
    \/ LTick

LSpec == LInit /\ [][LNext]_lruVars

-----------------------------------------------------------------------------
\* No key has two entries, and the shards together never hold more than the
\* capacity that was asked for, whatever the remainder of its division.
LTypeOK ==
    /\ premature_evictions \in Nat
    /\ \A i \in DOMAIN cache : cache[i].id \in Keys \ LongKeys /\ cache[i].val \in Iats
    /\ \A i, j \in DOMAIN cache : cache[i].id = cache[j].id => i = j
    /\ Len(cache) <= Capacity

\* The insertions after the i-th into the same shard.
LaterInShard(i) ==
    {j \in DOMAIN log : j > i /\ ShardOf[log[j].key] = ShardOf[log[i].key]}

\* Pressure is the only reason to lose a JTI early: an accepted key stays
\* until its shard has taken as many further keys as it has room for, or a
\* sweep found it old enough. Presenting a stored key over and over does not
\* shorten the life of the others.
RetainedForCapacity ==
    \A i \in DOMAIN log :
        \/ Find(cache, log[i].key) # 0
        \/ Cardinality(LaterInShard(i)) >= ShardCapacity(ShardOf[log[i].key])
        \/ now - log[i].iat >= SweepAge

\* No proof younger than the window is accepted a second time (same key, same
\* iat) unless the canary has sung, at the latest in that very step.
CanaryWarns ==
    \A j \in DOMAIN log :
        /\ log[j].at - log[j].iat < Window
        /\ \E i \in 1 .. j - 1 : log[i].key = log[j].key /\ log[i].iat = log[j].iat
        => log[j].warned

-----------------------------------------------------------------------------
(* The inductive invariant behind the three, on a cache c and a log g.     *)

\* The n-th insertion is the latest one of key k.
Latest(g, k, n) ==
    /\ n \in DOMAIN g /\ g[n].key = k
    /\ \A m \in DOMAIN g : g[m].key = k => m <= n

\* The cache is what is left of the log: every entry is the latest insertion
\* of its key, and the entries are in the order of their insertion.
Mirrors(c, g) ==
    /\ \A p \in DOMAIN c : \E n \in DOMAIN g : Latest(g, c[p].id, n) /\ g[n].iat = c[p].val
    /\ \A p, q \in DOMAIN c, m, n \in DOMAIN g :
           p < q /\ Latest(g, c[p].id, m) /\ Latest(g, c[q].id, n) => m < n

\* No shard holds more than its share of the capacity.
ShardsFit(c) ==
    \A s \in 0 .. ShardCount - 1 : Cardinality(InShard(c, ShardOf, s)) <= ShardCapacity(s)

\* The i-th insertion's entry is still there.
Stored(i) == Latest(log, log[i].key, i) /\ Find(cache, log[i].key) # 0

LInv ==
    /\ now \in Int /\ StartTime <= now
    /\ cache \in Seq([id : Keys \ LongKeys, val : Iats])
    /\ premature_evictions \in Nat
    /\ log \in Seq([key : Keys, iat : Iats, at : Int, warned : BOOLEAN])
    /\ sweep \in [Sweepers -> [active : BOOLEAN, at : Int, next : Int]]
    /\ \A w \in Sweepers : sweep[w].at <= now
    /\ DistinctIds(cache)
    /\ ShardsFit(cache)
    /\ Mirrors(cache, log)

\* An insertion whose entry is gone was pushed out or swept; one that has been
\* repeated was gone before.
LostForAReason ==
    \A i \in DOMAIN log :
        \/ Stored(i)
        \/ Cardinality(LaterInShard(i)) >= ShardCapacity(ShardOf[log[i].key])
        \/ now - log[i].iat >= SweepAge

\* An entry that went while it was younger than the window has been counted.
LostIsCounted ==
    \A i \in DOMAIN log : Stored(i) \/ now - log[i].iat >= Window \/ premature_evictions > 0
=============================================================================
