--------------------------- MODULE StrictJtiStore ---------------------------
(***************************************************************************)
(* InMemoryStrictJtiStore (src/src/dpop.rs): the sharded, capped, never    *)
(* evicting replay store, at the grain its threads interleave.             *)
(*                                                                         *)
(* check_and_insert reads the entry counter WITHOUT a lock, then takes the *)
(* lock of the key's shard, inserts, and adds one to the counter before    *)
(* the lock is dropped: three steps of a caller (Admit, Insert, Count).    *)
(* cleanup reads the clock once, then visits the shards in order, each     *)
(* under its own lock, and subtracts what it removed from the counter only *)
(* at the very end: NShards + 2 steps of a sweeper.                        *)
(*                                                                         *)
(* The HashMaps of the shards are one function from keys to iats: ShardOf  *)
(* (the keyed hash, fixed when the store is built) says which shard holds  *)
(* which key.                                                              *)
(***************************************************************************)
EXTENDS Integers, FiniteSets

CONSTANTS
    Threads,     \* callers of check_and_insert
    Sweepers,    \* callers of cleanup
    Keys,        \* composite JTI keys
    LongKeys,    \* the keys longer than MAX_JTI_LENGTH_BYTES
    Iats,        \* the iats calls carry
    NShards,     \* DEFAULT_JTI_SHARDS
    ShardOf,     \* ShardOf[k]: the shard the keyed hash sends k to
    Bounded,     \* FALSE for a dangerously_unbounded store
    MaxEntries,  \* max_entries, when Bounded
    SweepAges,   \* the max_age_seconds cleanup is called with
    Retention,   \* the least of them
    StartTime,   \* the clock when the store is built
    MaxTime,     \* bound: the clock stops here
    MaxCalls,    \* bound: check_and_insert is called this often
    NoIat        \* "no entry"

Shards == 0 .. NShards - 1

ASSUME StoreConstants ==
    /\ IsFiniteSet(Threads)
    /\ Threads # {}
    /\ IsFiniteSet(Sweepers)
    /\ IsFiniteSet(Keys)
    /\ Keys # {}
    /\ LongKeys \subseteq Keys
    /\ Iats \subseteq Int
    /\ Iats # {}
    /\ NShards \in Nat \ {0}
    /\ ShardOf \in [Keys -> Shards]
    /\ Bounded \in BOOLEAN
    /\ MaxEntries \in Nat
    /\ SweepAges \subseteq Int
    /\ Retention \in Int
    /\ \A age \in SweepAges : age >= Retention
    /\ StartTime \in Int
    /\ MaxTime \in Int
    /\ MaxCalls \in Nat
    /\ NoIat \notin Int

VARIABLES
    now,                     \* the wall clock, in seconds
    entries,                 \* entries[k]: the iat stored for k, or NoIat
    total_entries,           \* the atomic counter the cap check reads
    rejected_over_capacity,  \* refusals at the cap
    pc,                      \* where each caller is in check_and_insert
    call,                    \* the arguments of each caller's current call
    result,                  \* what each caller's latest call returned
    sweep,                   \* each sweeper's position and locals in cleanup
    calls                    \* calls made so far, for MaxCalls

storeVars == <<entries, total_entries, rejected_over_capacity>>
callerVars == <<pc, call, result, calls>>
vars == <<now, storeVars, callerVars, sweep>>

Outcomes == {"none", "Ok", "ReplayAttackDetected", "DpopValidationFailed"}
Call == [key : Keys, iat : Iats]
NoCall == CHOOSE c \in Call : TRUE  \* the arguments of a caller outside a call

\* A sweeper's frame: the clock reading, the age limit, the next shard to
\* visit (NShards: all visited) and the keys removed so far, whose number is
\* the local `removed` of the code: every key lives in one shard, so a sweep
\* removes it at most once.
Idle == [active |-> FALSE, at |-> 0, age |-> 0, next |-> 0, removed |-> {}]
SweepFrame == [active : BOOLEAN, at : Int, age : Int,
               next : 0 .. NShards, removed : SUBSET Keys]

Present == {k \in Keys : entries[k] # NoIat}
Admitted == {t \in Threads : pc[t] = "admitted"}
Uncounted == {t \in Threads : pc[t] = "inserted"}
Unsubtracted == {p \in Sweepers \X Keys : p[2] \in sweep[p[1]].removed}

\* Mutants: the lock is dropped before the counter is updated; the lock is
\* taken twice.
ShardLockedEarlyUnlock(s) == FALSE
ShardLockedTwice(s) ==
    \E t \in Uncounted \cup Admitted : ShardOf[call[t].key] = s

\* A caller between Insert and Count is inside its shard's critical section;
\* all the other uses of a shard lock are one step each.
ShardLocked(s) == \E t \in Uncounted : ShardOf[call[t].key] = s

\* Mutant: off by one.
AtCapacityOffByOne == Bounded /\ total_entries > MaxEntries

AtCapacity == Bounded /\ total_entries >= MaxEntries

-----------------------------------------------------------------------------
Init ==
    /\ now = StartTime
    /\ entries = [k \in Keys |-> NoIat]
    /\ total_entries = 0
    /\ rejected_over_capacity = 0
    /\ pc = [t \in Threads |-> "idle"]
    /\ call = [t \in Threads |-> NoCall]
    /\ result = [t \in Threads |-> "none"]
    /\ sweep = [w \in Sweepers |-> Idle]
    /\ calls = 0

Return(t, r) ==
    /\ pc' = [pc EXCEPT ![t] = "idle"]
    /\ call' = [call EXCEPT ![t] = NoCall]
    /\ result' = [result EXCEPT ![t] = r]

\* check_and_insert up to the shard lock: the length check, then the unlocked
\* load of the counter, which refuses at the cap before it looks for a replay.
Admit(t, c) ==
    /\ pc[t] = "idle"
    /\ calls < MaxCalls
    /\ calls' = calls + 1
    /\ \/ /\ c.key \in LongKeys
          /\ Return(t, "DpopValidationFailed")
          /\ UNCHANGED rejected_over_capacity
       \/ /\ c.key \notin LongKeys
          /\ AtCapacity
          /\ rejected_over_capacity' = rejected_over_capacity + 1
          /\ Return(t, "DpopValidationFailed")
       \/ /\ c.key \notin LongKeys
          /\ ~AtCapacity
          /\ pc' = [pc EXCEPT ![t] = "admitted"]
          /\ call' = [call EXCEPT ![t] = c]
          /\ result' = [result EXCEPT ![t] = "none"]
          /\ UNCHANGED rejected_over_capacity
    /\ UNCHANGED <<now, entries, total_entries, sweep>>

\* Under the shard lock: a stored key is a replay.
DetectReplay(t) ==
    /\ pc[t] = "admitted"
    /\ ~ShardLocked(ShardOf[call[t].key])
    /\ entries[call[t].key] # NoIat
    /\ Return(t, "ReplayAttackDetected")
    /\ UNCHANGED <<now, storeVars, sweep, calls>>

\* Mutant: HashMap::insert with no contains_key before it.
InsertOverwrites(t) ==
    /\ pc[t] = "admitted"
    /\ ~ShardLocked(ShardOf[call[t].key])
    /\ entries' = [entries EXCEPT ![call[t].key] = call[t].iat]
    /\ pc' = [pc EXCEPT ![t] = "inserted"]
    /\ UNCHANGED <<now, total_entries, rejected_over_capacity, call, result,
                   sweep, calls>>

\* Under the shard lock: an absent key is inserted; the lock stays held.
Insert(t) ==
    /\ pc[t] = "admitted"
    /\ ~ShardLocked(ShardOf[call[t].key])
    /\ entries[call[t].key] = NoIat
    /\ entries' = [entries EXCEPT ![call[t].key] = call[t].iat]
    /\ pc' = [pc EXCEPT ![t] = "inserted"]
    /\ UNCHANGED <<now, total_entries, rejected_over_capacity, call, result,
                   sweep, calls>>

\* fetch_add, then the guard is dropped and Ok returned.
Count(t) ==
    /\ pc[t] = "inserted"
    /\ total_entries' = total_entries + 1
    /\ Return(t, "Ok")
    /\ UNCHANGED <<now, entries, rejected_over_capacity, sweep, calls>>

-----------------------------------------------------------------------------
\* cleanup(age): the clock is read once, before the first shard.
StartSweep(w, age) ==
    /\ ~sweep[w].active
    /\ sweep' = [sweep EXCEPT ![w] = [active |-> TRUE, at |-> now, age |-> age,
                                      next |-> 0, removed |-> {}]]
    /\ UNCHANGED <<now, storeVars, callerVars>>

\* What `retain` drops from the shard the sweeper is at.
Expired(w) ==
    {k \in Present : /\ ShardOf[k] = sweep[w].next
                     /\ sweep[w].at - entries[k] >= sweep[w].age}

\* The sweeper's frame one shard further on.
Visited(w, removed) ==
    [active |-> TRUE, at |-> sweep[w].at, age |-> sweep[w].age,
     next |-> sweep[w].next + 1, removed |-> removed]

\* Mutant: `removed = ...` for `removed += ...`.
SweepShardForgets(w) ==
    /\ sweep[w].active
    /\ sweep[w].next < NShards
    /\ ~ShardLocked(sweep[w].next)
    /\ entries' = [k \in Keys |-> IF k \in Expired(w) THEN NoIat ELSE entries[k]]
    /\ sweep' = [sweep EXCEPT ![w] = Visited(w, Expired(w))]
    /\ UNCHANGED <<now, total_entries, rejected_over_capacity, callerVars>>

SweepShard(w) ==
    /\ sweep[w].active
    /\ sweep[w].next < NShards
    /\ ~ShardLocked(sweep[w].next)
    /\ entries' = [k \in Keys |-> IF k \in Expired(w) THEN NoIat ELSE entries[k]]
    /\ sweep' = [sweep EXCEPT ![w] = Visited(w, sweep[w].removed \cup Expired(w))]
    /\ UNCHANGED <<now, total_entries, rejected_over_capacity, callerVars>>

\* Mutant: the count is never given back.
FinishSweepLeaks(w) ==
    /\ sweep[w].active
    /\ sweep[w].next = NShards
    /\ sweep' = [sweep EXCEPT ![w] = Idle]
    /\ UNCHANGED <<now, storeVars, callerVars>>

\* One fetch_sub of the whole count. A negative result would be a wrapped
\* usize: a counter no insert could ever pass again.
FinishSweep(w) ==
    /\ sweep[w].active
    /\ sweep[w].next = NShards
    /\ total_entries' = total_entries - Cardinality(sweep[w].removed)
    /\ sweep' = [sweep EXCEPT ![w] = Idle]
    /\ UNCHANGED <<now, entries, rejected_over_capacity, callerVars>>

Tick ==
    /\ now < MaxTime
    /\ now' = now + 1
    /\ UNCHANGED <<storeVars, callerVars, sweep>>

-----------------------------------------------------------------------------
CallerStep(t) == DetectReplay(t) \/ Insert(t) \/ Count(t)
SweeperStep(w) == SweepShard(w) \/ FinishSweep(w)

Next ==
    \/ \E t \in Threads : CallerStep(t) \/ \E c \in Call : Admit(t, c)
    \/ \E w \in Sweepers : SweeperStep(w) \/ \E age \in SweepAges : StartSweep(w, age)
    \/ Tick

Spec == Init /\ [][Next]_vars

\* A caller inside check_and_insert and a sweeper inside cleanup keep running
\* (they are ordinary threads, and a shard's lock is only ever held for a few
\* instructions), time passes, and cleanup is on a timer, as the constructor's
\* documentation demands. Nobody has to make calls.
Fairness ==
    /\ \A t \in Threads : WF_vars(CallerStep(t))
    /\ \A w \in Sweepers : WF_vars(SweeperStep(w))
    /\ \A w \in Sweepers : WF_vars(\E age \in SweepAges : StartSweep(w, age))
    /\ WF_vars(Tick)

FairSpec == Spec /\ Fairness

-----------------------------------------------------------------------------
\* Every variable has its type; the counter is a usize that never wraps.
TypeOK ==
    /\ now \in Int
    /\ entries \in [Keys -> Int \cup {NoIat}]
    /\ total_entries \in Nat
    /\ rejected_over_capacity \in Nat
    /\ pc \in [Threads -> {"idle", "admitted", "inserted"}]
    /\ call \in [Threads -> Call]
    /\ result \in [Threads -> Outcomes]
    /\ sweep \in [Sweepers -> SweepFrame]
    /\ calls \in Nat

\* The counter that decides admission is never lost track of: at every
\* instant it is the number of stored keys, less those inserted and not yet
\* counted, plus those removed by sweeps that have not subtracted yet. In
\* particular it is exact whenever no call and no sweep is under way.
CountConservation ==
    total_entries = Cardinality(Present) - Cardinality(Uncounted)
                        + Cardinality(Unsubtracted)

\* The cap is checked without a lock, so concurrent callers can all pass it;
\* but the store never holds more than the cap plus one entry for every other
\* caller.
CapacityOvershootBound ==
    Bounded => Cardinality(Present) <= MaxEntries + Cardinality(Threads) - 1

\* A caller that was told Ok or that is about to be, and no sweep since: the
\* key a caller has inserted stays stored until it has been counted, whatever
\* sweeps run meanwhile. (This is what keeps fetch_sub from wrapping.)
InsertedIsPresent ==
    \A t \in Uncounted : entries[call[t].key] = call[t].iat

\* Two callers are never inside the critical section of the same shard.
ShardMutex ==
    \A t, u \in Uncounted :
        ShardOf[call[t].key] = ShardOf[call[u].key] => t = u

\* A sweeper's removed keys all lie in shards it has passed, and a sweeper
\* that is not in cleanup holds none.
SweptBehind ==
    \A w \in Sweepers :
        /\ sweep[w].active \/ sweep[w].removed = {}
        /\ \A k \in sweep[w].removed : ShardOf[k] < sweep[w].next

\* Callers past the cap check are as good as inserted.
AdmissionBound ==
    Bounded => Cardinality(Present) + Cardinality(Admitted)
                   <= MaxEntries + Cardinality(Threads) - 1

\* The inductive invariant behind the three theorems on the counter. The
\* conservation law alone does not keep the counter from wrapping: that
\* needs the locks (every uncounted caller's key is still stored, and no two
\* callers share one), and the law itself needs that a sweep meets no key
\* twice.
IndInv ==
    /\ TypeOK
    /\ CountConservation
    /\ InsertedIsPresent
    /\ ShardMutex
    /\ SweptBehind
    /\ AdmissionBound

\* What the refinement needs besides: a call under way has no answer yet, and
\* a sweep judges ages by a clock that is never ahead of the present one.
RefinementInv ==
    /\ \A t \in Threads : pc[t] # "idle" => result[t] = "none"
    /\ \A w \in Sweepers :
        sweep[w].active => sweep[w].at <= now /\ sweep[w].age >= Retention

\* A store that is full does not stay full: once its entries are old enough
\* the timer's sweeps give all of the capacity back, down to the last entry.
CapacityIsReclaimed == AtCapacity ~> ~AtCapacity

\* Every admitted call is answered.
EveryCallReturns == \A t \in Threads : (pc[t] # "idle") ~> (pc[t] = "idle")

\* The store is a strict JtiStore in the sense of JtiContract: seen from
\* outside, check_and_insert is atomic, and a key is forgotten only at an age
\* some cleanup was asked for.
Contract == INSTANCE JtiContract WITH
    seen <- entries,
    out <- [t \in Threads |-> IF pc[t] = "inserted" THEN "Ok" ELSE result[t]]

StrictJtiStoreImplementsContract == Contract!CSpec
=============================================================================
