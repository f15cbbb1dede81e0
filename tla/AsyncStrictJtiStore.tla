------------------------- MODULE AsyncStrictJtiStore -------------------------
(***************************************************************************)
(* AsyncInMemoryStrictJtiStore (src/src/async.rs): one map under one       *)
(* mutex. A call is a future: nothing happens until it is polled, and then *)
(* everything happens in one critical section, because the body has no     *)
(* await. cleanup reads the clock before it takes the lock.                *)
(***************************************************************************)
EXTENDS Integers, FiniteSets

CONSTANTS
    Threads, Keys, LongKeys, Iats, NoIat,
    Bounded,     \* FALSE for a dangerously_unbounded store
    MaxEntries,
    Sweepers,    \* callers of cleanup
    SweepAges,   \* the max_age_seconds they pass
    Retention,   \* the least of those
    StartTime,
    MaxTime,     \* bound: the clock stops here
    MaxCalls     \* bound: check_and_insert is called this often

ASSUME AsyncStoreConstants ==
    /\ LongKeys \subseteq Keys
    /\ Iats \subseteq Int
    /\ NoIat \notin Int
    /\ MaxEntries \in Nat
    /\ SweepAges \subseteq Int
    /\ Retention \in Int
    /\ StartTime \in Int
    /\ \A age \in SweepAges : age >= Retention

VARIABLES now, entries, rejected_over_capacity, call, result, sweep, calls

asyncVars == <<now, entries, rejected_over_capacity, call, result, sweep, calls>>

Outcomes == {"none", "Ok", "ReplayAttackDetected", "DpopValidationFailed"}
NoCall == [key |-> NoIat, iat |-> NoIat]
NoSweep == [age |-> NoIat, at |-> NoIat]

Present == {k \in Keys : entries[k] # NoIat}

\* Mutant: off by one.
AtCapacityOffByOne == Bounded /\ Cardinality(Present) > MaxEntries

AtCapacity == Bounded /\ Cardinality(Present) >= MaxEntries

AInit ==
    /\ now = StartTime
    /\ entries = [k \in Keys |-> NoIat]
    /\ rejected_over_capacity = 0
    /\ call = [t \in Threads |-> NoCall]
    /\ result = [t \in Threads |-> "none"]
    /\ sweep = [w \in Sweepers |-> NoSweep]
    /\ calls = 0

\* check_and_insert is called; its future has not been polled.
Create(t, k, iat) ==
    /\ call[t] = NoCall
    /\ calls < MaxCalls
    /\ calls' = calls + 1
    /\ call' = [call EXCEPT ![t] = [key |-> k, iat |-> iat]]
    /\ result' = [result EXCEPT ![t] = "none"]
    /\ UNCHANGED <<now, entries, rejected_over_capacity, sweep>>

\* The future is dropped before it has been polled.
Drop(t) ==
    /\ call[t] # NoCall
    /\ call' = [call EXCEPT ![t] = NoCall]
    /\ UNCHANGED <<now, entries, rejected_over_capacity, result, sweep, calls>>

\* The future is polled, and completes with r.
Polled(t, r) ==
    /\ call[t] # NoCall
    /\ call' = [call EXCEPT ![t] = NoCall]
    /\ result' = [result EXCEPT ![t] = r]
    /\ UNCHANGED <<now, sweep, calls>>

PollTooLong(t) ==
    /\ Polled(t, "DpopValidationFailed")
    /\ call[t].key \in LongKeys
    /\ UNCHANGED <<entries, rejected_over_capacity>>

\* A replay is told apart from a full store: it is looked for first.
PollReplay(t) ==
    /\ Polled(t, "ReplayAttackDetected")
    /\ call[t].key \in Present
    /\ UNCHANGED <<entries, rejected_over_capacity>>

PollFull(t) ==
    /\ Polled(t, "DpopValidationFailed")
    /\ call[t].key \notin LongKeys \cup Present
    /\ AtCapacity
    /\ rejected_over_capacity' = rejected_over_capacity + 1
    /\ UNCHANGED entries

\* Mutant: a stored key is overwritten.
PollInsertOverwrites(t) ==
    /\ Polled(t, "Ok")
    /\ call[t].key \notin LongKeys
    /\ ~AtCapacity
    /\ entries' = [entries EXCEPT ![call[t].key] = call[t].iat]
    /\ UNCHANGED rejected_over_capacity

PollInsert(t) ==
    /\ Polled(t, "Ok")
    /\ call[t].key \notin LongKeys \cup Present
    /\ ~AtCapacity
    /\ entries' = [entries EXCEPT ![call[t].key] = call[t].iat]
    /\ UNCHANGED rejected_over_capacity

\* cleanup reads the clock...
StartCleanup(w, age) ==
    /\ sweep[w] = NoSweep
    /\ sweep' = [sweep EXCEPT ![w] = [age |-> age, at |-> now]]
    /\ UNCHANGED <<now, entries, rejected_over_capacity, call, result, calls>>

\* ... then takes the lock and drops what is old enough by that reading.
FinishCleanup(w) ==
    /\ sweep[w] # NoSweep
    /\ entries' = [k \in Keys |->
           IF k \in Present /\ sweep[w].at - entries[k] >= sweep[w].age THEN NoIat
           ELSE entries[k]]
    /\ sweep' = [sweep EXCEPT ![w] = NoSweep]
    /\ UNCHANGED <<now, rejected_over_capacity, call, result, calls>>

ATick ==
    /\ now < MaxTime
    /\ now' = now + 1
    /\ UNCHANGED <<entries, rejected_over_capacity, call, result, sweep, calls>>

Poll(t) == PollTooLong(t) \/ PollReplay(t) \/ PollFull(t) \/ PollInsert(t)

ANext ==
    \/ \E t \in Threads : Drop(t) \/ Poll(t)
    \/ \E t \in Threads, k \in Keys, iat \in Iats : Create(t, k, iat)
    \/ \E w \in Sweepers : FinishCleanup(w) \/ \E age \in SweepAges : StartCleanup(w, age)
    \/ ATick

ASpec == AInit /\ [][ANext]_asyncVars

-----------------------------------------------------------------------------
\* Here the cap is exact: it is checked under the lock that guards the
\* insertion, so no interleaving of callers gets past it.
CapIsExact == Bounded => Cardinality(Present) <= MaxEntries

\* The inductive invariant behind both: the types, the cap, a pending future
\* that has not been answered, and sweeps whose clock is not ahead of the
\* present one.
AInv ==
    /\ now \in Int
    /\ entries \in [Keys -> Int \cup {NoIat}]
    /\ call \in [Threads -> [key : Keys, iat : Iats] \cup {NoCall}]
    /\ result \in [Threads -> Outcomes]
    /\ \A t \in Threads : call[t] # NoCall => result[t] = "none"
    /\ sweep \in [Sweepers -> [age : SweepAges, at : Int] \cup {NoSweep}]
    /\ \A w \in Sweepers : sweep[w] # NoSweep => sweep[w].at <= now
    /\ IsFiniteSet(Present)
    /\ CapIsExact

\* The store is a strict JtiStore in the sense of JtiContract.
Contract == INSTANCE JtiContract WITH seen <- entries, out <- result
AsyncStoreImplementsContract == Contract!CSpec
=============================================================================
