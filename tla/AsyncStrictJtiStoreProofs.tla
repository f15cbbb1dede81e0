---------------------- MODULE AsyncStrictJtiStoreProofs ----------------------
(***************************************************************************)
(* Theorems about AsyncStrictJtiStore for any number of callers, sweepers  *)
(* and keys, an infinite supply of keys included: its cap is never         *)
(* exceeded, and it implements JtiContract.                                *)
(***************************************************************************)
EXTENDS AsyncStrictJtiStore, FiniteSetTheorems, TLAPS

\* A pending call is no NoCall and a sweep no NoSweep, so the two kinds of
\* value are told apart by what the code passes.
LEMMA PendingTypes ==
    ASSUME AInv
    PROVE  /\ \A t \in Threads : call[t] # NoCall => call[t].key \in Keys /\ call[t].iat \in Iats
           /\ \A w \in Sweepers : sweep[w] # NoSweep =>
                  sweep[w].at \in Int /\ sweep[w].age \in SweepAges
           /\ \A k \in Keys, iat \in Iats : [key |-> k, iat |-> iat] # NoCall
           /\ \A age \in SweepAges, at \in Int : [age |-> age, at |-> at] # NoSweep
BY AsyncStoreConstants DEF AInv, NoCall, NoSweep

\* At the start the store is empty.
LEMMA InitAInv == AInit => AInv
<1> SUFFICES ASSUME AInit PROVE AInv
  OBVIOUS
<1>1. Present = {}
  BY DEF AInit, Present
<1>2. IsFiniteSet(Present) /\ CapIsExact
  BY <1>1, FS_EmptySet, AsyncStoreConstants DEF CapIsExact
<1>3. now \in Int /\ entries \in [Keys -> Int \cup {NoIat}] /\ result \in [Threads -> Outcomes]
  BY AsyncStoreConstants DEF AInit, Outcomes
<1>4. /\ call \in [Threads -> [key : Keys, iat : Iats] \cup {NoCall}]
      /\ \A t \in Threads : call[t] = NoCall
      /\ sweep \in [Sweepers -> [age : SweepAges, at : Int] \cup {NoSweep}]
      /\ \A w \in Sweepers : sweep[w] = NoSweep
  BY DEF AInit
<1>5. QED
  BY <1>2, <1>3, <1>4 DEF AInv

\* A step that stores nothing cannot break the cap.
LEMMA NothingStored ==
    ASSUME AInv, Present' \subseteq Present
    PROVE  IsFiniteSet(Present)' /\ CapIsExact'
<1>1. /\ IsFiniteSet(Present') /\ Cardinality(Present') <= Cardinality(Present)
      /\ Cardinality(Present') \in Nat /\ Cardinality(Present) \in Nat
  BY FS_Subset, FS_CardinalityType DEF AInv
<1>2. QED
  BY <1>1, AsyncStoreConstants DEF AInv, CapIsExact

\* Creating a future, and dropping it unpolled.
LEMMA CreateAInv ==
    ASSUME AInv, NEW t \in Threads, NEW k \in Keys, NEW iat \in Iats, Create(t, k, iat)
    PROVE  AInv'
<1>1. Present' \subseteq Present
  BY DEF Create, Present
<1>2. call' \in [Threads -> [key : Keys, iat : Iats] \cup {NoCall}]
  BY DEF AInv, Create
<1>3. /\ result' \in [Threads -> Outcomes]
      /\ \A u \in Threads : call'[u] # NoCall => result'[u] = "none"
  BY DEF AInv, Create, Outcomes
<1>4. QED
  BY <1>1, <1>2, <1>3, NothingStored DEF AInv, Create

\* A future that is dropped unpolled.
LEMMA DropAInv ==
    ASSUME AInv, NEW t \in Threads, Drop(t)
    PROVE  AInv'
<1>1. Present' \subseteq Present
  BY DEF Drop, Present
<1>2. QED
  BY <1>1, NothingStored DEF AInv, Drop

\* A poll that ends in a refusal.
LEMMA RefusalAInv ==
    ASSUME AInv, NEW t \in Threads, PollTooLong(t) \/ PollReplay(t) \/ PollFull(t)
    PROVE  AInv'
<1>1. /\ call' = [call EXCEPT ![t] = NoCall] /\ UNCHANGED <<entries, now, sweep>>
      /\ result' \in [Threads -> Outcomes]
      /\ \A u \in Threads : u # t => result'[u] = result[u]
  BY DEF PollTooLong, PollReplay, PollFull, Polled, AInv, Outcomes
<1>2. Present' \subseteq Present
  BY <1>1 DEF Present
<1>3. /\ call' \in [Threads -> [key : Keys, iat : Iats] \cup {NoCall}]
      /\ \A u \in Threads : call'[u] # NoCall => result'[u] = "none"
  BY <1>1 DEF AInv
<1>4. QED
  BY <1>1, <1>2, <1>3, NothingStored DEF AInv

\* The insertion adds one key to a store that has room for it: the check and
\* the insertion are one critical section.
LEMMA PollInsertAInv ==
    ASSUME AInv, NEW t \in Threads, PollInsert(t)
    PROVE  AInv'
<1> DEFINE k == call[t].key
<1>1. k \in Keys /\ call[t].iat \in Int /\ call[t].iat # NoIat /\ k \notin Present
  BY PendingTypes, AsyncStoreConstants DEF PollInsert, Polled
<1>2. entries' = [entries EXCEPT ![k] = call[t].iat]
  BY DEF PollInsert
<1>3. Present' = Present \cup {k}
  BY <1>1, <1>2 DEF AInv, Present
<1>4. IsFiniteSet(Present') /\ Cardinality(Present') = Cardinality(Present) + 1
  BY <1>1, <1>3, FS_AddElement DEF AInv
<1>5. CapIsExact'
  <2>1. ~AtCapacity /\ Cardinality(Present) \in Nat
    BY FS_CardinalityType DEF AInv, PollInsert
  <2>2. QED
    BY <1>4, <2>1, AsyncStoreConstants DEF CapIsExact, AtCapacity
<1>6. /\ call' \in [Threads -> [key : Keys, iat : Iats] \cup {NoCall}]
      /\ result' \in [Threads -> Outcomes]
      /\ \A u \in Threads : call'[u] # NoCall => result'[u] = "none"
  BY DEF AInv, PollInsert, Polled, Outcomes
<1>7. entries' \in [Keys -> Int \cup {NoIat}]
  BY <1>1, <1>2 DEF AInv
<1>8. QED
  BY <1>4, <1>5, <1>6, <1>7 DEF AInv, PollInsert, Polled

\* cleanup's reading of the clock, and its critical section.
LEMMA CleanupAInv ==
    ASSUME AInv, NEW w \in Sweepers,
           FinishCleanup(w) \/ \E age \in SweepAges : StartCleanup(w, age)
    PROVE  AInv'
<1>1. CASE FinishCleanup(w)
  <2>1. Present' \subseteq Present /\ entries' \in [Keys -> Int \cup {NoIat}]
    BY <1>1 DEF FinishCleanup, Present, AInv
  <2>2. QED
    BY <1>1, <2>1, NothingStored DEF FinishCleanup, AInv
<1>2. ASSUME NEW age \in SweepAges, StartCleanup(w, age)
      PROVE  AInv'
  <2>1. Present' \subseteq Present
    BY <1>2 DEF StartCleanup, Present
  <2>2. QED
    BY <1>2, <2>1, NothingStored DEF StartCleanup, AInv
<1>3. QED
  BY <1>1, <1>2

\* Every step keeps the inductive invariant.
LEMMA NextAInv == AInv /\ [ANext]_asyncVars => AInv'
<1> SUFFICES ASSUME AInv, [ANext]_asyncVars PROVE AInv'
  OBVIOUS
<1>1. ASSUME NEW t \in Threads, Drop(t) \/ Poll(t) PROVE AInv'
  BY <1>1, DropAInv, RefusalAInv, PollInsertAInv DEF Poll
<1>2. ASSUME NEW t \in Threads, NEW k \in Keys, NEW iat \in Iats, Create(t, k, iat)
      PROVE  AInv'
  BY <1>2, CreateAInv
<1>3. ASSUME NEW w \in Sweepers,
             FinishCleanup(w) \/ \E age \in SweepAges : StartCleanup(w, age)
      PROVE  AInv'
  BY <1>3, CleanupAInv
<1>4. CASE ATick
  <2>1. Present' \subseteq Present
    BY <1>4 DEF ATick, Present
  <2>2. \A w \in Sweepers : sweep[w] # NoSweep => sweep[w].at \in Int
    BY PendingTypes
  <2>3. QED
    BY <1>4, <2>1, <2>2, NothingStored DEF ATick, AInv
<1>5. CASE UNCHANGED asyncVars
  <2>1. Present' \subseteq Present
    BY <1>5 DEF asyncVars, Present
  <2>2. QED
    BY <1>5, <2>1, NothingStored DEF asyncVars, AInv
<1>6. QED
  BY <1>1, <1>2, <1>3, <1>4, <1>5 DEF ANext

\* The inductive invariant holds in every reachable state.
THEOREM AsyncStoreInvariant == ASpec => []AInv
BY InitAInv, NextAInv, PTL DEF ASpec

\* The async store never holds more than max_entries entries, whatever the
\* order in which its futures are created, polled and dropped.
THEOREM CapIsNeverExceeded == ASpec => []CapIsExact
<1>1. AInv => CapIsExact
  BY DEF AInv
<1>2. QED
  BY <1>1, AsyncStoreInvariant, PTL

-----------------------------------------------------------------------------
(* The refinement.                                                         *)

\* Every step of the store is a step of the contract, or none: a call happens
\* when its future is polled, and a dropped future has not happened.
LEMMA StepImplementsContract ==
    AInv /\ [ANext]_asyncVars => [Contract!CNext]_(Contract!cvars)
<1> SUFFICES ASSUME AInv, [ANext]_asyncVars
             PROVE  [Contract!CNext]_(Contract!cvars)
  OBVIOUS
<1>1. ASSUME NEW t \in Threads, NEW k \in Keys, NEW iat \in Iats, Create(t, k, iat)
      PROVE  Contract!CNext
  <2>1. Contract!Invoke(t)
    BY <1>1 DEF Create, Contract!Invoke, Contract!Pending
  <2>2. QED
    BY <2>1 DEF Contract!CNext
<1>2. ASSUME NEW t \in Threads, PollTooLong(t) \/ PollFull(t)
      PROVE  Contract!CNext
  <2>1. Contract!Refuse(t)
    BY <1>2 DEF PollTooLong, PollFull, Polled, Contract!Refuse, Contract!Refused
  <2>2. QED
    BY <2>1 DEF Contract!CNext
<1>3. ASSUME NEW t \in Threads, PollReplay(t)
      PROVE  Contract!CNext
  <2>1. call[t] # NoCall /\ result[t] = "none"
    BY <1>3 DEF PollReplay, Polled, AInv
  <2>2. PICK k \in Keys : k = call[t].key
    BY <2>1, PendingTypes
  <2>3. Contract!Replay(t, k)
    BY <1>3, <2>1, <2>2
       DEF PollReplay, Polled, Present, Contract!Replay, Contract!Pending, Contract!Replayed
  <2>4. QED
    BY <2>3 DEF Contract!CNext
<1>4. ASSUME NEW t \in Threads, PollInsert(t)
      PROVE  Contract!CNext
  <2>1. call[t] # NoCall /\ result[t] = "none"
    BY <1>4 DEF PollInsert, Polled, AInv
  <2>2. PICK k \in Keys, iat \in Iats : k = call[t].key /\ iat = call[t].iat
    BY <2>1, PendingTypes
  <2>3. Contract!Accept(t, k, iat)
    BY <1>4, <2>1, <2>2
       DEF PollInsert, Polled, Present, Contract!Accept, Contract!Pending, Contract!Accepted
  <2>4. QED
    BY <2>3 DEF Contract!CNext
<1>5. ASSUME NEW w \in Sweepers, FinishCleanup(w)
      PROVE  Contract!CNext
  <2> DEFINE gone == {k \in Present : sweep[w].at - entries[k] >= sweep[w].age}
  <2>1. \A k \in gone : entries[k] # NoIat /\ now - entries[k] >= Retention
    <3> SUFFICES ASSUME NEW k \in gone
                 PROVE  entries[k] # NoIat /\ now - entries[k] >= Retention
      OBVIOUS
    <3>1. entries[k] # NoIat /\ entries[k] \in Int
      BY DEF Present, AInv
    <3>2. /\ sweep[w].at \in Int /\ sweep[w].age \in SweepAges /\ now \in Int
          /\ sweep[w].at <= now
      BY <1>5, PendingTypes DEF FinishCleanup, AInv
    <3>3. sweep[w].age \in Int /\ sweep[w].age >= Retention /\ Retention \in Int
      BY <3>2, AsyncStoreConstants
    <3>4. QED
      BY <3>1, <3>2, <3>3
  <2>2. gone \in SUBSET Keys
    BY DEF Present
  <2>3. entries' = [k \in Keys |-> IF k \in gone THEN NoIat ELSE entries[k]]
    BY <1>5 DEF FinishCleanup
  <2>4. Contract!Forget(gone)
    BY <1>5, <2>1, <2>3 DEF FinishCleanup, Contract!Forget
  <2>5. QED
    BY <2>2, <2>4 DEF Contract!CNext
<1>6. CASE ATick
  <2>1. Contract!Advance
    BY <1>6 DEF ATick, Contract!Advance, AInv
  <2>2. QED
    BY <2>1 DEF Contract!CNext
<1>7. ASSUME NEW t \in Threads, Drop(t)
      PROVE  UNCHANGED Contract!cvars
  BY <1>7 DEF Drop, Contract!cvars
<1>8. ASSUME NEW w \in Sweepers, NEW age \in SweepAges, StartCleanup(w, age)
      PROVE  UNCHANGED Contract!cvars
  BY <1>8 DEF StartCleanup, Contract!cvars
<1>9. CASE UNCHANGED asyncVars
  BY <1>9 DEF asyncVars, Contract!cvars
<1>10. QED
  BY <1>1, <1>2, <1>3, <1>4, <1>5, <1>6, <1>7, <1>8, <1>9 DEF ANext, Poll

\* The async store implements the atomic contract of a strict JtiStore, the
\* same one that the sharded store implements.
THEOREM AsyncImplementsContract == ASpec => AsyncStoreImplementsContract
<1>1. AInit => Contract!CInit
  BY AsyncStoreConstants DEF AInit, Contract!CInit, Contract!Pending
<1>2. QED
  BY <1>1, AsyncStoreInvariant, StepImplementsContract, PTL
     DEF ASpec, Contract!CSpec, AsyncStoreImplementsContract
=============================================================================
