------------------------- MODULE DpopValidatorProofs -------------------------
(***************************************************************************)
(* Theorems about StrictJtiStore and the validator above it, for any       *)
(* number of threads, sweepers, keys and shards, and any interleaving of   *)
(* presentations, clock and sweeps.                                        *)
(***************************************************************************)
EXTENDS DpopValidator, LibraryProofs

(* The store: its counter never wraps and never drifts, it never exceeds   *)
(* its cap by as much as one entry per caller, and check_and_insert and    *)
(* cleanup implement JtiContract.                                          *)

USE DEF Shards

\* The sets the counter is measured against are finite.
LEMMA FiniteParts ==
    ASSUME TypeOK
    PROVE  /\ IsFiniteSet(Present) /\ Cardinality(Present) \in Nat
           /\ IsFiniteSet(Admitted) /\ Cardinality(Admitted) \in Nat
           /\ IsFiniteSet(Uncounted) /\ Cardinality(Uncounted) \in Nat
           /\ IsFiniteSet(Unsubtracted) /\ Cardinality(Unsubtracted) \in Nat
           /\ Cardinality(Threads) \in Nat
<1>1. Present \in SUBSET Keys /\ Admitted \in SUBSET Threads
      /\ Uncounted \in SUBSET Threads /\ Unsubtracted \in SUBSET (Sweepers \X Keys)
  BY DEF Present, Admitted, Uncounted, Unsubtracted
<1>2. IsFiniteSet(Sweepers \X Keys)
  BY FS_Product, StoreConstants
<1>3. QED
  BY <1>1, <1>2, FS_Subset, FS_CardinalityType, StoreConstants

\* A set paired with one element keeps its size.
LEMMA PairedCardinality ==
    ASSUME NEW w, NEW S, IsFiniteSet(S)
    PROVE  /\ IsFiniteSet({w} \X S)
           /\ Cardinality({w} \X S) = Cardinality(S)
<1>1. IsFiniteSet({w}) /\ Cardinality({w}) = 1
  BY FS_Singleton
<1>2. Cardinality(S) \in Nat
  BY FS_CardinalityType
<1>3. QED
  BY <1>1, <1>2, FS_Product

\* The size of a disjoint union.
LEMMA DisjointUnion ==
    ASSUME NEW S, NEW T, IsFiniteSet(S), IsFiniteSet(T), S \cap T = {}
    PROVE  Cardinality(S \cup T) = Cardinality(S) + Cardinality(T)
<1>1. Cardinality(S \cup T) = Cardinality(S) + Cardinality(T) - Cardinality(S \cap T)
  BY FS_Union
<1>2. Cardinality(S) \in Nat /\ Cardinality(T) \in Nat
  BY FS_CardinalityType
<1>3. Cardinality(S \cap T) = 0
  BY FS_EmptySet
<1>4. QED
  BY <1>1, <1>2, <1>3

\* The size of a set less some of its elements.
LEMMA SubsetDifference ==
    ASSUME NEW S, NEW T, IsFiniteSet(S), T \subseteq S
    PROVE  Cardinality(S \ T) = Cardinality(S) - Cardinality(T)
<1>1. Cardinality(S \ T) = Cardinality(S) - Cardinality(S \cap T)
  BY FS_Difference
<1>2. S \cap T = T
  OBVIOUS
<1>3. QED
  BY <1>1, <1>2

\* Callers that have inserted and not counted hold different keys, all stored:
\* there are at most as many of them as stored keys.
LEMMA UncountedArePresent ==
    ASSUME TypeOK, InsertedIsPresent, ShardMutex
    PROVE  Cardinality(Uncounted) <= Cardinality(Present)
<1> DEFINE f == [t \in Uncounted |-> call[t].key]
<1>1. \A t \in Uncounted : call[t] \in Call
  BY DEF TypeOK, Uncounted
<1>2. \A t \in Uncounted : call[t].key \in Present
  <2> SUFFICES ASSUME NEW t \in Uncounted
               PROVE  call[t].key \in Present
    OBVIOUS
  <2>1. entries[call[t].key] \in Int
    BY <1>1, StoreConstants DEF InsertedIsPresent, Call
  <2>2. QED
    BY <1>1, <2>1, StoreConstants DEF Present, Call
<1>3. \A t, u \in Uncounted : call[t].key = call[u].key => t = u
  BY DEF ShardMutex
<1>4. f \in Injection(Uncounted, Present)
  BY <1>2, <1>3 DEF Injection, IsInjective
<1>5. QED
  BY <1>4, FiniteParts, FS_Injection

\* The placeholder for the arguments of no call is well-typed.
LEMMA NoCallIsCall == NoCall \in Call
<1>1. PICK k \in Keys, i \in Iats : TRUE
  BY StoreConstants
<1>2. [key |-> k, iat |-> i] \in Call
  BY DEF Call
<1>3. QED
  BY <1>2 DEF NoCall

\* The empty store satisfies the inductive invariant.
LEMMA InitIndInv == Init => IndInv
<1> SUFFICES ASSUME Init PROVE IndInv
  OBVIOUS
<1>1. NoCall \in Call
  BY NoCallIsCall
<1>2. TypeOK
  BY <1>1, StoreConstants DEF Init, TypeOK, Idle, SweepFrame, Outcomes
<1>3. Present = {} /\ Admitted = {} /\ Uncounted = {} /\ Unsubtracted = {}
  BY DEF Init, Present, Admitted, Uncounted, Unsubtracted, Idle
<1>4. Cardinality(Threads) \in Nat \ {0}
  BY FS_EmptySet, FS_CardinalityType, StoreConstants
<1>5. CountConservation /\ AdmissionBound
  BY <1>3, <1>4, FS_EmptySet, StoreConstants DEF CountConservation, AdmissionBound, Init
<1>6. InsertedIsPresent /\ ShardMutex
  BY <1>3 DEF InsertedIsPresent, ShardMutex
<1>7. SweptBehind
  BY DEF SweptBehind, Init, Idle
<1>8. QED
  BY <1>2, <1>5, <1>6, <1>7 DEF IndInv

\* A step that leaves the stored keys, the sweeps and the callers inside the
\* critical sections alone, and frees or keeps the others, keeps IndInv: the
\* two refusals of Admit and DetectReplay.
LEMMA RefusalIndInv ==
    ASSUME IndInv, NEW t \in Threads, NEW r \in Outcomes,
           pc[t] # "inserted", Return(t, r),
           UNCHANGED <<now, entries, total_entries, sweep>>,
           rejected_over_capacity' \in Nat, calls' \in Nat
    PROVE  IndInv'
<1>1. TypeOK'
  BY NoCallIsCall DEF IndInv, TypeOK, Return
<1>2. Present' = Present /\ Unsubtracted' = Unsubtracted /\ Uncounted' = Uncounted
  BY DEF IndInv, TypeOK, Return, Present, Unsubtracted, Uncounted
<1>3. Admitted' \in SUBSET Admitted
  BY DEF IndInv, TypeOK, Return, Admitted
<1>4. Cardinality(Admitted') \in Nat /\ Cardinality(Admitted') <= Cardinality(Admitted)
  BY <1>3, FiniteParts, FS_Subset, FS_CardinalityType DEF IndInv
<1>5. CountConservation'
  BY <1>2 DEF IndInv, CountConservation
<1>6. AdmissionBound'
  BY <1>2, <1>4, FiniteParts, StoreConstants DEF IndInv, AdmissionBound
<1>7. \A u \in Uncounted : call'[u] = call[u]
  BY DEF IndInv, TypeOK, Return, Uncounted
<1>8. InsertedIsPresent' /\ ShardMutex'
  BY <1>2, <1>7 DEF IndInv, InsertedIsPresent, ShardMutex
<1>9. SweptBehind'
  BY DEF IndInv, SweptBehind
<1>10. QED
  BY <1>1, <1>5, <1>6, <1>8, <1>9 DEF IndInv

\* check_and_insert up to the shard lock: a caller that passes the cap check
\* adds one to the callers past it, and the counter it read was below the cap.
LEMMA AdmitIndInv ==
    ASSUME IndInv, NEW t \in Threads, NEW c \in Call, Admit(t, c)
    PROVE  IndInv'
<1>1. CASE c.key \in LongKeys \/ AtCapacity
  <2>1. Return(t, "DpopValidationFailed")
    BY <1>1 DEF Admit
  <2>2. rejected_over_capacity' \in Nat /\ calls' \in Nat
    BY DEF Admit, IndInv, TypeOK
  <2>3. QED
    BY <2>1, <2>2, RefusalIndInv DEF Admit, Outcomes
<1>2. CASE c.key \notin LongKeys /\ ~AtCapacity
  <2>1. /\ pc[t] = "idle"
        /\ pc' = [pc EXCEPT ![t] = "admitted"]
        /\ call' = [call EXCEPT ![t] = c]
        /\ result' = [result EXCEPT ![t] = "none"]
        /\ UNCHANGED <<now, entries, total_entries, rejected_over_capacity, sweep>>
        /\ calls' = calls + 1
    BY <1>2 DEF Admit
  <2>2. TypeOK'
    BY <2>1 DEF IndInv, TypeOK, Outcomes
  <2>3. Present' = Present /\ Unsubtracted' = Unsubtracted /\ Uncounted' = Uncounted
    BY <2>1 DEF IndInv, TypeOK, Present, Unsubtracted, Uncounted
  <2>4. Admitted' = Admitted \cup {t} /\ t \notin Admitted
    BY <2>1 DEF IndInv, TypeOK, Admitted
  <2>5. CountConservation'
    BY <2>1, <2>3 DEF IndInv, CountConservation
  <2>6. \A u \in Uncounted : call'[u] = call[u]
    BY <2>1 DEF IndInv, TypeOK, Uncounted
  <2>7. InsertedIsPresent' /\ ShardMutex'
    BY <2>1, <2>3, <2>6 DEF IndInv, InsertedIsPresent, ShardMutex
  <2>8. SweptBehind'
    BY <2>1 DEF IndInv, SweptBehind
  <2>9. AdmissionBound'
    <3> SUFFICES ASSUME Bounded
                 PROVE  Cardinality(Present') + Cardinality(Admitted')
                            <= MaxEntries + Cardinality(Threads) - 1
      BY DEF AdmissionBound
    <3>1. total_entries < MaxEntries /\ total_entries \in Nat
      BY <1>2, StoreConstants DEF AtCapacity, IndInv, TypeOK
    <3>2. Cardinality(Admitted \cup {t}) = Cardinality(Admitted) + 1
      BY <2>4, FiniteParts, FS_AddElement DEF IndInv
    <3>3. Cardinality(Admitted') + Cardinality(Uncounted) <= Cardinality(Threads)
      <4>1. Admitted' \cap Uncounted = {}
        BY <2>1, <2>4 DEF Admitted, Uncounted, IndInv, TypeOK
      <4>2. Admitted' \cup Uncounted \in SUBSET Threads
        BY <2>4 DEF Admitted, Uncounted
      <4>3. IsFiniteSet(Admitted') /\ IsFiniteSet(Uncounted)
        BY <2>2, <4>2, FS_Subset, StoreConstants
      <4>4. Cardinality(Admitted' \cup Uncounted) =
                Cardinality(Admitted') + Cardinality(Uncounted)
        BY <4>1, <4>3, DisjointUnion
      <4>5. QED
        BY <4>2, <4>4, FS_Subset, StoreConstants
    <3>4. Cardinality(Admitted') = Cardinality(Admitted) + 1
      BY <2>4, <3>2
    <3>5. Cardinality(Present') = Cardinality(Present)
      BY <2>3
    <3>6. QED
      BY <3>1, <3>3, <3>4, <3>5, FiniteParts, StoreConstants
         DEF IndInv, CountConservation
  <2>10. QED
    BY <2>2, <2>5, <2>7, <2>8, <2>9 DEF IndInv
<1>3. QED
  BY <1>1, <1>2

\* A replay leaves the store as it was.
LEMMA DetectReplayIndInv ==
    ASSUME IndInv, NEW t \in Threads, DetectReplay(t)
    PROVE  IndInv'
BY RefusalIndInv DEF DetectReplay, storeVars, Outcomes, IndInv, TypeOK

\* The insertion turns an admitted caller into an uncounted one.
LEMMA InsertIndInv ==
    ASSUME IndInv, NEW t \in Threads, Insert(t)
    PROVE  IndInv'
<1> DEFINE k == call[t].key
<1>1. k \in Keys /\ call[t].iat \in Int /\ call[t] \in Call
  BY StoreConstants DEF IndInv, TypeOK, Call
<1>2. TypeOK'
  BY <1>1 DEF IndInv, TypeOK, Insert
<1>3. Present' = Present \cup {k} /\ k \notin Present
  BY <1>1, StoreConstants DEF IndInv, TypeOK, Insert, Present
<1>4. Uncounted' = Uncounted \cup {t} /\ t \notin Uncounted
  BY DEF IndInv, TypeOK, Insert, Uncounted
<1>5. Admitted' = Admitted \ {t} /\ t \in Admitted
  BY DEF IndInv, TypeOK, Insert, Admitted
<1>6. Unsubtracted' = Unsubtracted
  BY DEF Insert, Unsubtracted
<1>7. /\ Cardinality(Present') = Cardinality(Present) + 1
      /\ Cardinality(Uncounted') = Cardinality(Uncounted) + 1
      /\ Cardinality(Admitted') = Cardinality(Admitted) - 1
  BY <1>3, <1>4, <1>5, FiniteParts, FS_AddElement, FS_RemoveElement DEF IndInv
<1>8. CountConservation'
  BY <1>6, <1>7, FiniteParts DEF IndInv, CountConservation, Insert
<1>9. AdmissionBound'
  BY <1>7, FiniteParts, StoreConstants DEF IndInv, AdmissionBound
<1>10. \A u \in Uncounted : ShardOf[call[u].key] # ShardOf[k]
  BY DEF Insert, ShardLocked
<1>11. InsertedIsPresent'
  <2>1. \A u \in Uncounted : call[u].key # k
    BY <1>10
  <2>2. entries' = [entries EXCEPT ![k] = call[t].iat] /\ call' = call
    BY DEF Insert
  <2>3. \A u \in Uncounted : call[u].key \in Keys
    BY DEF IndInv, TypeOK, Call, Uncounted
  <2>4. QED
    BY <1>1, <1>4, <2>1, <2>2, <2>3 DEF IndInv, TypeOK, InsertedIsPresent
<1>12. ShardMutex'
  BY <1>4, <1>10 DEF IndInv, ShardMutex, Insert
<1>13. SweptBehind'
  BY DEF IndInv, SweptBehind, Insert
<1>14. QED
  BY <1>2, <1>8, <1>9, <1>11, <1>12, <1>13 DEF IndInv

\* fetch_add settles one uncounted caller.
LEMMA CountIndInv ==
    ASSUME IndInv, NEW t \in Threads, Count(t)
    PROVE  IndInv'
<1>1. TypeOK'
  BY NoCallIsCall DEF IndInv, TypeOK, Count, Return, Outcomes
<1>2. Present' = Present /\ Unsubtracted' = Unsubtracted /\ Admitted' = Admitted
  BY DEF IndInv, TypeOK, Count, Return, Present, Unsubtracted, Admitted
<1>3. Uncounted' = Uncounted \ {t} /\ t \in Uncounted
  BY DEF IndInv, TypeOK, Count, Return, Uncounted
<1>4. Cardinality(Uncounted') = Cardinality(Uncounted) - 1
  BY <1>3, FiniteParts, FS_RemoveElement DEF IndInv
<1>5. CountConservation'
  BY <1>2, <1>4, FiniteParts DEF IndInv, CountConservation, Count
<1>6. AdmissionBound'
  BY <1>2 DEF IndInv, AdmissionBound
<1>7. \A u \in Uncounted' : u \in Uncounted /\ call'[u] = call[u]
  BY <1>3 DEF IndInv, TypeOK, Count, Return
<1>8. InsertedIsPresent' /\ ShardMutex'
  BY <1>7 DEF IndInv, InsertedIsPresent, ShardMutex, Count
<1>9. SweptBehind'
  BY DEF IndInv, SweptBehind, Count
<1>10. QED
  BY <1>1, <1>5, <1>6, <1>8, <1>9 DEF IndInv

\* cleanup begins with an empty count, where the last one left none behind.
LEMMA StartSweepIndInv ==
    ASSUME IndInv, NEW w \in Sweepers, NEW age \in Int, StartSweep(w, age)
    PROVE  IndInv'
<1>1. sweep[w].removed = {}
  BY DEF IndInv, SweptBehind, StartSweep
<1>2. TypeOK'
  BY StoreConstants DEF IndInv, TypeOK, StartSweep, SweepFrame, storeVars, callerVars
<1>3. \A v \in Sweepers : sweep'[v].removed = sweep[v].removed
  BY <1>1 DEF IndInv, TypeOK, StartSweep
<1>4. Unsubtracted' = Unsubtracted
  BY <1>3 DEF Unsubtracted
<1>5. Present' = Present /\ Admitted' = Admitted /\ Uncounted' = Uncounted
  BY DEF StartSweep, storeVars, callerVars, Present, Admitted, Uncounted
<1>6. CountConservation' /\ AdmissionBound'
  BY <1>4, <1>5 DEF IndInv, CountConservation, AdmissionBound, StartSweep, storeVars
<1>7. InsertedIsPresent' /\ ShardMutex'
  BY <1>5 DEF IndInv, InsertedIsPresent, ShardMutex, StartSweep, storeVars, callerVars
<1>8. SweptBehind'
  <2> SUFFICES ASSUME NEW v \in Sweepers
               PROVE  /\ sweep'[v].active \/ sweep'[v].removed = {}
                      /\ \A k \in sweep'[v].removed : ShardOf[k] < sweep'[v].next
    BY DEF SweptBehind
  <2>1. CASE v = w
    BY <2>1, <1>1, <1>3 DEF IndInv, TypeOK, StartSweep
  <2>2. CASE v # w
    BY <2>2 DEF IndInv, TypeOK, SweptBehind, StartSweep
  <2>3. QED
    BY <2>1, <2>2
<1>9. QED
  BY <1>2, <1>6, <1>7, <1>8 DEF IndInv

\* One shard of a sweep: what leaves the stored keys joins the sweeper's
\* removed keys, none of them for the second time, and no caller is inside
\* the shard's critical section.
LEMMA SweepShardIndInv ==
    ASSUME IndInv, NEW w \in Sweepers, SweepShard(w)
    PROVE  IndInv'
<1> DEFINE E == Expired(w)
<1>1. E \subseteq Present /\ E \subseteq Keys
  BY DEF Expired, Present
<1>2. /\ sweep[w].next \in 0 .. NShards /\ sweep[w].next < NShards
      /\ sweep[w] \in SweepFrame
  BY DEF IndInv, TypeOK, SweepFrame, SweepShard
<1>3. /\ sweep'[w] = Visited(w, sweep[w].removed \cup E)
      /\ \A v \in Sweepers : v # w => sweep'[v] = sweep[v]
      /\ sweep' \in [Sweepers -> SweepFrame]
  <2>1. Visited(w, sweep[w].removed \cup E) \in SweepFrame
    BY <1>1, <1>2, StoreConstants DEF SweepFrame, Visited
  <2>2. sweep' = [sweep EXCEPT ![w] = Visited(w, sweep[w].removed \cup E)]
    BY DEF SweepShard
  <2>3. QED
    BY <2>1, <2>2 DEF IndInv, TypeOK
<1>4. TypeOK'
  BY <1>3 DEF IndInv, TypeOK, SweepShard, callerVars
<1>5. Present' = Present \ E
  BY <1>1 DEF SweepShard, Present
<1>6. Admitted' = Admitted /\ Uncounted' = Uncounted
  BY DEF SweepShard, callerVars, Admitted, Uncounted
<1>7. Unsubtracted' = Unsubtracted \cup ({w} \X E)
  <2>1. sweep'[w].removed = sweep[w].removed \cup E
    BY <1>3 DEF Visited
  <2>2. QED
    BY <1>1, <1>3, <2>1 DEF Unsubtracted
<1>8. Unsubtracted \cap ({w} \X E) = {}
  <2>0. \A k \in E : ShardOf[k] \in Int
    BY <1>1, StoreConstants
  <2>1. \A k \in E : ShardOf[k] = sweep[w].next
    BY DEF Expired
  <2>2. \A k \in sweep[w].removed : ShardOf[k] < sweep[w].next
    BY DEF IndInv, SweptBehind
  <2>3. \A k \in E : k \notin sweep[w].removed
    BY <1>2, <2>0, <2>1, <2>2
  <2>4. QED
    BY <2>3 DEF Unsubtracted
<1>9. IsFiniteSet(E) /\ Cardinality(E) \in Nat
  BY <1>1, FiniteParts, FS_Subset, FS_CardinalityType DEF IndInv
<1>10. Cardinality(Present') = Cardinality(Present) - Cardinality(E)
  BY <1>1, <1>5, FiniteParts, SubsetDifference DEF IndInv
<1>11. Cardinality(Unsubtracted') = Cardinality(Unsubtracted) + Cardinality(E)
  <2>1. IsFiniteSet({w} \X E) /\ Cardinality({w} \X E) = Cardinality(E)
    BY <1>9, PairedCardinality
  <2>2. IsFiniteSet(Unsubtracted)
    BY FiniteParts DEF IndInv
  <2>3. Cardinality(Unsubtracted \cup ({w} \X E)) =
            Cardinality(Unsubtracted) + Cardinality({w} \X E)
    BY <1>8, <2>1, <2>2, DisjointUnion
  <2>4. QED
    BY <1>7, <2>1, <2>3
<1>12. CountConservation'
  BY <1>6, <1>9, <1>10, <1>11, FiniteParts DEF IndInv, CountConservation, SweepShard
<1>13. AdmissionBound'
  BY <1>6, <1>9, <1>10, FiniteParts, StoreConstants DEF IndInv, AdmissionBound
<1>14. InsertedIsPresent'
  <2> SUFFICES ASSUME NEW t \in Uncounted
               PROVE  entries'[call[t].key] = call[t].iat
    BY <1>6 DEF InsertedIsPresent, SweepShard, callerVars
  <2>1. ShardOf[call[t].key] # sweep[w].next
    BY DEF SweepShard, ShardLocked
  <2>2. call[t].key \notin E /\ call[t].key \in Keys
    BY <2>1 DEF Expired, IndInv, TypeOK, Call, Uncounted
  <2>3. QED
    BY <2>2 DEF SweepShard, IndInv, InsertedIsPresent
<1>15. ShardMutex'
  BY <1>6 DEF IndInv, ShardMutex, SweepShard, callerVars
<1>16. SweptBehind'
  <2> SUFFICES ASSUME NEW v \in Sweepers
               PROVE  /\ sweep'[v].active \/ sweep'[v].removed = {}
                      /\ \A k \in sweep'[v].removed : ShardOf[k] < sweep'[v].next
    BY DEF SweptBehind
  <2>1. CASE v # w
    BY <1>3, <2>1 DEF IndInv, SweptBehind
  <2>2. CASE v = w
    <3>1. /\ sweep'[w].active /\ sweep'[w].next = sweep[w].next + 1
          /\ sweep'[w].removed = sweep[w].removed \cup E
      BY <1>3 DEF Visited
    <3>2. \A k \in sweep[w].removed : k \in Keys /\ ShardOf[k] < sweep[w].next
      BY <1>2 DEF IndInv, SweptBehind, SweepFrame
    <3>3. \A k \in E : ShardOf[k] = sweep[w].next
      BY DEF Expired
    <3>4. \A k \in Keys : ShardOf[k] \in Int
      BY StoreConstants
    <3>5. QED
      BY <1>1, <1>2, <2>2, <3>1, <3>2, <3>3, <3>4
  <2>3. QED
    BY <2>1, <2>2
<1>17. QED
  BY <1>4, <1>12, <1>13, <1>14, <1>15, <1>16 DEF IndInv

\* The final fetch_sub takes off exactly what this sweep had pending, and
\* cannot wrap: the other terms of the conservation law are not negative.
LEMMA FinishSweepIndInv ==
    ASSUME IndInv, NEW w \in Sweepers, FinishSweep(w)
    PROVE  IndInv'
<1> DEFINE R == sweep[w].removed
<1>1. R \subseteq Keys /\ IsFiniteSet(R) /\ Cardinality(R) \in Nat
  BY FS_Subset, FS_CardinalityType, StoreConstants DEF IndInv, TypeOK, SweepFrame
<1>2. sweep' \in [Sweepers -> SweepFrame] /\ sweep' = [sweep EXCEPT ![w] = Idle]
  BY StoreConstants DEF IndInv, TypeOK, FinishSweep, SweepFrame, Idle
<1>3. Unsubtracted' = Unsubtracted \ ({w} \X R) /\ {w} \X R \subseteq Unsubtracted
  BY <1>1, <1>2 DEF Unsubtracted, IndInv, TypeOK, Idle
<1>4. /\ Cardinality(Unsubtracted') = Cardinality(Unsubtracted) - Cardinality(R)
      /\ Cardinality(Unsubtracted') \in Nat
  <2>1. Cardinality({w} \X R) = Cardinality(R)
    BY <1>1, PairedCardinality
  <2>2. Cardinality(Unsubtracted') = Cardinality(Unsubtracted) - Cardinality(R)
    BY <1>3, <2>1, FiniteParts, SubsetDifference DEF IndInv
  <2>3. IsFiniteSet(Unsubtracted')
    BY <1>3, FiniteParts, FS_Difference DEF IndInv
  <2>4. QED
    BY <2>2, <2>3, FS_CardinalityType
<1>5. Present' = Present /\ Admitted' = Admitted /\ Uncounted' = Uncounted
  BY DEF FinishSweep, callerVars, Present, Admitted, Uncounted
<1>6. total_entries' = total_entries - Cardinality(R)
  BY DEF FinishSweep
<1>7. CountConservation'
  BY <1>1, <1>4, <1>5, <1>6, FiniteParts DEF IndInv, CountConservation
<1>8. total_entries' \in Nat
  <2>1. Cardinality(Uncounted) <= Cardinality(Present)
    BY UncountedArePresent DEF IndInv
  <2>2. total_entries' = Cardinality(Present) - Cardinality(Uncounted)
                             + Cardinality(Unsubtracted')
    BY <1>5, <1>7 DEF CountConservation
  <2>3. QED
    BY <1>4, <2>1, <2>2, FiniteParts DEF IndInv
<1>9. TypeOK'
  BY <1>2, <1>8 DEF IndInv, TypeOK, FinishSweep, callerVars
<1>10. AdmissionBound'
  BY <1>5 DEF IndInv, AdmissionBound
<1>11. InsertedIsPresent' /\ ShardMutex'
  BY <1>5 DEF IndInv, InsertedIsPresent, ShardMutex, FinishSweep, callerVars
<1>12. SweptBehind'
  BY <1>2 DEF IndInv, TypeOK, SweptBehind, Idle
<1>13. QED
  BY <1>7, <1>9, <1>10, <1>11, <1>12 DEF IndInv

\* Time passing, or nothing happening.
LEMMA IdleIndInv ==
    ASSUME IndInv, now' \in Int, UNCHANGED <<storeVars, callerVars, sweep>>
    PROVE  IndInv'
<1> USE DEF storeVars, callerVars
<1>1. TypeOK'
  BY DEF IndInv, TypeOK
<1>2. Present' = Present /\ Admitted' = Admitted /\ Uncounted' = Uncounted
      /\ Unsubtracted' = Unsubtracted
  BY DEF Present, Admitted, Uncounted, Unsubtracted
<1>3. CountConservation' /\ AdmissionBound'
  BY <1>2 DEF IndInv, CountConservation, AdmissionBound
<1>4. InsertedIsPresent' /\ ShardMutex' /\ SweptBehind'
  BY <1>2 DEF IndInv, InsertedIsPresent, ShardMutex, SweptBehind
<1>5. QED
  BY <1>1, <1>3, <1>4 DEF IndInv

\* Every step of the store keeps the inductive invariant.
LEMMA NextIndInv == IndInv /\ [Next]_vars => IndInv'
<1> SUFFICES ASSUME IndInv, [Next]_vars PROVE IndInv'
  OBVIOUS
<1>1. ASSUME NEW t \in Threads, CallerStep(t) PROVE IndInv'
  BY <1>1, DetectReplayIndInv, InsertIndInv, CountIndInv DEF CallerStep
<1>2. ASSUME NEW t \in Threads, NEW c \in Call, Admit(t, c) PROVE IndInv'
  BY <1>2, AdmitIndInv
<1>3. ASSUME NEW w \in Sweepers, SweeperStep(w) PROVE IndInv'
  BY <1>3, SweepShardIndInv, FinishSweepIndInv DEF SweeperStep
<1>4. ASSUME NEW w \in Sweepers, NEW age \in SweepAges, StartSweep(w, age) PROVE IndInv'
  BY <1>4, StartSweepIndInv, StoreConstants
<1>5. CASE Tick
  BY <1>5, IdleIndInv DEF Tick, IndInv, TypeOK
<1>6. CASE UNCHANGED vars
  BY <1>6, IdleIndInv DEF vars, IndInv, TypeOK
<1>7. QED
  BY <1>1, <1>2, <1>3, <1>4, <1>5, <1>6 DEF Next

\* The inductive invariant holds in every reachable state.
THEOREM StoreInvariant == Spec => []IndInv
BY InitIndInv, NextIndInv, PTL DEF Spec

\* The types, and with them that total_entries is never driven below zero:
\* the fetch_sub at the end of cleanup never wraps the usize, whatever number
\* of inserters and sweepers race.
THEOREM TypeCorrect == Spec => []TypeOK
BY StoreInvariant, PTL DEF IndInv

\* The counter that decides admission never drifts from the stored entries.
THEOREM CounterIsConserved == Spec => []CountConservation
BY StoreInvariant, PTL DEF IndInv

\* An entry that its inserter has not counted yet is out of every sweep's
\* reach: the counter is never decremented for it before it was incremented.
THEOREM UncountedIsPresent == Spec => []InsertedIsPresent
BY StoreInvariant, PTL DEF IndInv

\* The unlocked cap check lets the store exceed max_entries by fewer entries
\* than there are callers, and never by more.
THEOREM OvershootIsBounded == Spec => []CapacityOvershootBound
<1>1. IndInv => CapacityOvershootBound
  BY FiniteParts, StoreConstants DEF IndInv, AdmissionBound, CapacityOvershootBound
<1>2. QED
  BY <1>1, StoreInvariant, PTL

-----------------------------------------------------------------------------
(* The store implements the contract of a strict JtiStore.                 *)

\* Every step keeps the additional facts of the refinement.
LEMMA NextRefinementInv ==
    IndInv /\ RefinementInv /\ [Next]_vars => RefinementInv'
<1> SUFFICES ASSUME IndInv, RefinementInv, [Next]_vars PROVE RefinementInv'
  OBVIOUS
<1> USE DEF IndInv, TypeOK, RefinementInv, storeVars, callerVars
<1>1. ASSUME NEW t \in Threads, NEW c \in Call, Admit(t, c) PROVE RefinementInv'
  BY <1>1 DEF Admit, Return
<1>2. ASSUME NEW t \in Threads, CallerStep(t) PROVE RefinementInv'
  BY <1>2 DEF CallerStep, DetectReplay, Insert, Count, Return
<1>3. ASSUME NEW w \in Sweepers, NEW age \in SweepAges, StartSweep(w, age)
      PROVE  RefinementInv'
  BY <1>3, StoreConstants DEF StartSweep
<1>4. ASSUME NEW w \in Sweepers, SweepShard(w) PROVE RefinementInv'
  BY <1>4 DEF SweepShard, Visited
<1>5. ASSUME NEW w \in Sweepers, FinishSweep(w) PROVE RefinementInv'
  BY <1>5 DEF FinishSweep, Idle
<1>6. CASE Tick
  <2>1. \A w \in Sweepers : sweep[w].at \in Int
    BY DEF SweepFrame
  <2>2. QED
    BY <1>6, <2>1 DEF Tick
<1>7. CASE UNCHANGED vars
  BY <1>7 DEF vars
<1>8. QED
  BY <1>1, <1>2, <1>3, <1>4, <1>5, <1>6, <1>7 DEF Next, SweeperStep

\* Every step of the store is a step of the contract, or none.
LEMMA StepImplementsContract ==
    IndInv /\ RefinementInv /\ [Next]_vars => [Contract!CNext]_(Contract!cvars)
<1> SUFFICES ASSUME IndInv, RefinementInv, [Next]_vars
             PROVE  [Contract!CNext]_(Contract!cvars)
  OBVIOUS
<1> DEFINE out == [t \in Threads |-> IF pc[t] = "inserted" THEN "Ok" ELSE result[t]]
<1> DEFINE outP == [t \in Threads |-> IF pc'[t] = "inserted" THEN "Ok" ELSE result'[t]]
<1> USE DEF storeVars, callerVars
<1>1. ASSUME NEW t \in Threads, NEW c \in Call, Admit(t, c)
      PROVE  Contract!CNext
  <2>1. UNCHANGED <<now, entries>> /\ pc[t] = "idle"
    BY <1>1 DEF Admit
  <2>2. CASE c.key \in LongKeys \/ AtCapacity
    <3>1. outP = [out EXCEPT ![t] = "DpopValidationFailed"]
      BY <1>1, <2>2 DEF Admit, Return, IndInv, TypeOK
    <3>2. Contract!Refuse(t)
      BY <2>1, <3>1 DEF Contract!Refuse, Contract!Refused
    <3>3. QED
      BY <3>2 DEF Contract!CNext
  <2>3. CASE c.key \notin LongKeys /\ ~AtCapacity
    <3>1. outP = [out EXCEPT ![t] = "none"]
      BY <1>1, <2>3 DEF Admit, IndInv, TypeOK
    <3>2. Contract!Invoke(t)
      BY <2>1, <3>1 DEF Contract!Invoke, Contract!Pending
    <3>3. QED
      BY <3>2 DEF Contract!CNext
  <2>4. QED
    BY <2>2, <2>3
<1>2. ASSUME NEW t \in Threads, DetectReplay(t)
      PROVE  Contract!CNext
  <2>1. out[t] = "none" /\ call[t].key \in Keys
    BY <1>2 DEF DetectReplay, RefinementInv, IndInv, TypeOK, Call
  <2>2. outP = [out EXCEPT ![t] = "ReplayAttackDetected"]
    BY <1>2 DEF DetectReplay, Return, IndInv, TypeOK
  <2>3. PICK k \in Keys : k = call[t].key
    BY <2>1
  <2>4. Contract!Replay(t, k)
    BY <1>2, <2>1, <2>2, <2>3
       DEF DetectReplay, Contract!Replay, Contract!Pending, Contract!Replayed
  <2>5. QED
    BY <2>4 DEF Contract!CNext
<1>3. ASSUME NEW t \in Threads, Insert(t)
      PROVE  Contract!CNext
  <2>1. out[t] = "none" /\ call[t].key \in Keys /\ call[t].iat \in Iats
    BY <1>3 DEF Insert, RefinementInv, IndInv, TypeOK, Call
  <2>2. outP = [out EXCEPT ![t] = "Ok"]
    BY <1>3 DEF Insert, IndInv, TypeOK
  <2>3. PICK k \in Keys, iat \in Iats : k = call[t].key /\ iat = call[t].iat
    BY <2>1
  <2>4. Contract!Accept(t, k, iat)
    BY <1>3, <2>1, <2>2, <2>3
       DEF Insert, Contract!Accept, Contract!Pending, Contract!Accepted
  <2>5. QED
    BY <2>4 DEF Contract!CNext
<1>4. ASSUME NEW t \in Threads, Count(t)
      PROVE  UNCHANGED Contract!cvars
  <2>1. outP = out
    BY <1>4 DEF Count, Return, IndInv, TypeOK
  <2>2. QED
    BY <1>4, <2>1 DEF Count, Contract!cvars
<1>5. ASSUME NEW w \in Sweepers, SweepShard(w)
      PROVE  Contract!CNext
  <2>1. \A k \in Expired(w) : entries[k] # NoIat /\ now - entries[k] >= Retention
    <3> SUFFICES ASSUME NEW k \in Expired(w)
                 PROVE  entries[k] # NoIat /\ now - entries[k] >= Retention
      OBVIOUS
    <3>1. entries[k] # NoIat /\ entries[k] \in Int
      BY DEF Expired, Present, IndInv, TypeOK
    <3>2. sweep[w].at - entries[k] >= sweep[w].age
      BY DEF Expired
    <3>3. /\ sweep[w].at \in Int /\ sweep[w].age \in Int /\ now \in Int
          /\ sweep[w].at <= now /\ sweep[w].age >= Retention
      BY <1>5 DEF SweepShard, RefinementInv, IndInv, TypeOK, SweepFrame
    <3>4. QED
      BY <3>1, <3>2, <3>3, StoreConstants
  <2>2. Expired(w) \in SUBSET Keys
    BY DEF Expired, Present
  <2>3. Contract!Forget(Expired(w))
    BY <1>5, <2>1 DEF SweepShard, Contract!Forget
  <2>4. QED
    BY <2>2, <2>3 DEF Contract!CNext
<1>6. ASSUME NEW w \in Sweepers,
             FinishSweep(w) \/ \E age \in SweepAges : StartSweep(w, age)
      PROVE  UNCHANGED Contract!cvars
  BY <1>6 DEF FinishSweep, StartSweep, Contract!cvars
<1>7. CASE Tick
  <2>1. Contract!Advance
    BY <1>7 DEF Tick, Contract!Advance, IndInv, TypeOK
  <2>2. QED
    BY <2>1 DEF Contract!CNext
<1>8. CASE UNCHANGED vars
  BY <1>8 DEF vars, Contract!cvars
<1>9. QED
  BY <1>1, <1>2, <1>3, <1>4, <1>5, <1>6, <1>7, <1>8 DEF Next, CallerStep, SweeperStep

\* The sharded store with its unlocked counter, its per-shard locks and its
\* sweeps in many steps implements the atomic contract of a strict JtiStore.
THEOREM ImplementsContract == Spec => StrictJtiStoreImplementsContract
<1>1. Init => Contract!CInit
  BY StoreConstants DEF Init, Contract!CInit, Contract!Pending
<1>2. Init => RefinementInv
  BY DEF Init, RefinementInv, Idle
<1>3. QED
  BY <1>1, <1>2, StoreInvariant, NextRefinementInv, StepImplementsContract, PTL
     DEF Spec, Contract!CSpec, StrictJtiStoreImplementsContract

-----------------------------------------------------------------------------
(* The validator: it accepts no proof twice, provided that a verified      *)
(* proof reaches the store in less time than the window is long.           *)

\* A proof that passes every check was fresh at the reading of the clock, was
\* signed by its own key, and was made for the token it came with.
LEMMA DecisionPasses ==
    ASSUME NEW a \in Attempts, Decision(a) = "none"
    PROVE  IsFresh(a.proof.iat, Window, now) /\ Vouched(a)
<1> DEFINE checks == PreSigChecks(a.proof, a.req, Window, now)
                         \o SignatureChecks(a.proof, a.req)
<1>1. FirstError(checks) = "none"
  BY DEF Decision, ValidateWithoutJtiCommit
<1>2. DOMAIN checks = 1 .. 10
  BY DEF PreSigChecks, SignatureChecks
<1>3. \A i \in 1 .. 10 : checks[i][2] # "none"
  BY DEF PreSigChecks, SignatureChecks
<1>4. \A i \in 1 .. 10 : checks[i][1]
  <2> HIDE DEF checks
  <2>1. 10 \in Nat
    OBVIOUS
  <2>2. QED
    BY <1>1, <1>2, <1>3, <2>1, NoErrorMeansAllPass
<1>5. checks[4][1] /\ checks[7][1] /\ checks[10][1]
  <2> HIDE DEF checks
  <2>1. 4 \in 1 .. 10 /\ 7 \in 1 .. 10 /\ 10 \in 1 .. 10
    OBVIOUS
  <2>2. QED
    BY <1>4, <2>1, Zenon
<1>6. /\ checks[4][1] = IsFresh(a.proof.iat, Window, now)
      /\ checks[7][1] = (a.req.ath # Absent => a.proof.ath = a.req.ath)
      /\ checks[10][1] = (a.proof.sigKey = a.proof.key)
  BY DEF PreSigChecks, SignatureChecks
<1>7. QED
  BY <1>5, <1>6 DEF Vouched

\* An attempt's iat is a number, and its replay call a call of the store.
LEMMA AttemptTypes ==
    ASSUME NEW a \in Attempts
    PROVE  /\ a.proof.iat \in Int
           /\ JtiCall(a) \in Call
           /\ JtiCall(a).iat = a.proof.iat
BY ValidatorConstants, StoreConstants DEF JtiCall, Call

\* Every step of the validator leaves the store alone or is a step of the
\* store that keeps the store's invariant.
LEMMA ValidatorStepIndInv ==
    ASSUME IndInv, VTypeOK, [VNext]_allVars
    PROVE  IndInv'
<1>1. ASSUME NEW t \in Threads, NEW a \in Attempts, Reject(t, a) \/ Verify(t, a)
      PROVE  IndInv'
  BY <1>1, IdleIndInv DEF Reject, Verify, vars, IndInv, TypeOK
<1>2. ASSUME NEW t \in Threads, SkipCommit(t)
      PROVE  IndInv'
  BY <1>2, IdleIndInv DEF SkipCommit, vars, IndInv, TypeOK
<1>3. ASSUME NEW t \in Threads, Commit(t)
      PROVE  IndInv'
  <2>1. attempt[t] \in Attempts
    BY <1>3 DEF VTypeOK, Commit
  <2>2. JtiCall(attempt[t]) \in Call
    BY <2>1, AttemptTypes
  <2>3. PICK c \in Call : c = JtiCall(attempt[t])
    BY <2>2
  <2>4. Admit(t, c)
    BY <1>3, <2>3 DEF Commit, Admit
  <2>5. QED
    BY <2>4, AdmitIndInv
<1>4. ASSUME NEW t \in Threads, CommitReplay(t) \/ CommitInsert(t) \/ CommitCount(t)
      PROVE  IndInv'
  BY <1>4, DetectReplayIndInv, InsertIndInv, CountIndInv
     DEF CommitReplay, CommitInsert, CommitCount
<1>5. ASSUME NEW w \in Sweepers, CleanupExpiredJtis(w)
      PROVE  IndInv'
  <2>1. JtiExpiry \in Int
    BY ValidatorConstants DEF JtiExpiry
  <2>2. QED
    BY <1>5, <2>1, StartSweepIndInv DEF CleanupExpiredJtis
<1>6. ASSUME NEW w \in Sweepers, Sweep(w)
      PROVE  IndInv'
  BY <1>6, SweepShardIndInv, FinishSweepIndInv DEF Sweep, SweeperStep
<1>7. CASE VTick
  BY <1>7, IdleIndInv DEF VTick, Tick, IndInv, TypeOK
<1>8. CASE UNCHANGED allVars
  BY <1>8, IdleIndInv DEF allVars, vars, IndInv, TypeOK
<1>9. QED
  BY <1>1, <1>2, <1>3, <1>4, <1>5, <1>6, <1>7, <1>8 DEF VNext

\* The validator's own variables keep their types.
LEMMA ValidatorStepTypes ==
    ASSUME IndInv, VTypeOK, [VNext]_allVars
    PROVE  VTypeOK'
<1>1. TypeOK'
  BY ValidatorStepIndInv DEF IndInv
<1>2. now \in Int /\ StartTime \in Int /\ call \in [Threads -> Call]
  BY StoreConstants DEF VTypeOK, TypeOK
<1> USE <1>1, <1>2 DEF VTypeOK, Answer
<1>3. ASSUME NEW t \in Threads, NEW a \in Attempts, Reject(t, a) \/ Verify(t, a)
      PROVE  VTypeOK'
  BY <1>3 DEF Reject, Verify
<1>4. ASSUME NEW t \in Threads, SkipCommit(t) \/ Commit(t) \/ CommitReplay(t) \/ CommitCount(t)
      PROVE  VTypeOK'
  BY <1>4 DEF SkipCommit, Commit, CommitReplay, CommitCount
<1>5. ASSUME NEW t \in Threads, CommitInsert(t)
      PROVE  VTypeOK'
  BY <1>5 DEF CommitInsert
<1>6. ASSUME NEW w \in Sweepers, CleanupExpiredJtis(w) \/ Sweep(w)
      PROVE  VTypeOK'
  BY <1>6 DEF CleanupExpiredJtis, Sweep, validatorVars
<1>7. CASE VTick
  BY <1>7 DEF VTick, validatorVars
<1>8. CASE UNCHANGED allVars
  BY <1>8 DEF allVars, validatorVars
<1>9. QED
  BY <1>3, <1>4, <1>5, <1>6, <1>7, <1>8 DEF VNext

\* The invariants of the store and the types hold of the composition too.
THEOREM ValidatorTypeCorrect == VSpec => [](IndInv /\ VTypeOK)
<1>1. VInit => IndInv
  BY InitIndInv DEF VInit
<1>2. VInit => VTypeOK
  BY InitIndInv, StoreConstants DEF VInit, VTypeOK, IndInv
<1>3. IndInv /\ VTypeOK /\ [VNext]_allVars => (IndInv /\ VTypeOK)'
  BY ValidatorStepIndInv, ValidatorStepTypes
<1>4. QED
  BY <1>1, <1>2, <1>3, PTL DEF VSpec

-----------------------------------------------------------------------------
(* Single use.                                                             *)

\* A proof waiting for its insertion has not reached the expiry age, so an
\* insertion never repeats an accepted proof: the key would still be stored.
LEMMA InsertIsFirst ==
    ASSUME VTypeOK, ReplayInv, MaxStall < Window, NEW t \in Threads, Insert(t)
    PROVE  call[t] \notin accepted
<1> SUFFICES ASSUME call[t] \in accepted PROVE FALSE
  OBVIOUS
<1>1. entries[call[t].key] = NoIat /\ pc[t] = "admitted"
  BY DEF Insert
<1>2. attempt[t] # NoAttempt /\ call[t] = JtiCall(attempt[t])
  BY <1>1 DEF ReplayInv
<1>3. PICK a \in Attempts : a = attempt[t]
  BY <1>2 DEF VTypeOK
<1>4. call[t].iat = a.proof.iat /\ a.proof.iat \in Int
  BY <1>2, <1>3, AttemptTypes
<1>5. now - call[t].iat >= JtiExpiry
  BY <1>1, <1>4, StoreConstants DEF ReplayInv
<1>6. now - verifiedAt[t] <= MaxStall /\ verifiedAt[t] - a.proof.iat <= Window
  BY <1>1, <1>2, <1>3 DEF ReplayInv
<1>7. now \in Int /\ verifiedAt[t] \in Int
  BY DEF VTypeOK, TypeOK
<1>8. QED
  BY <1>4, <1>5, <1>6, <1>7, ValidatorConstants DEF JtiExpiry

\* Whatever was accepted stays on file until it has aged out.
LEMMA AcceptedStep ==
    ASSUME IndInv, VTypeOK, ReplayInv, [VNext]_allVars
    PROVE  \A c \in accepted' : entries'[c.key] = c.iat \/ now' - c.iat >= JtiExpiry
<1> DEFINE Stays(c) == entries[c.key] = c.iat \/ now - c.iat >= JtiExpiry
<1>1. \A c \in accepted : Stays(c) /\ c \in Call /\ c.key \in Keys /\ c.iat \in Int
  BY StoreConstants DEF ReplayInv, VTypeOK, Call
<1>2. now \in Int /\ JtiExpiry \in Int /\ entries \in [Keys -> Int \cup {NoIat}]
  BY ValidatorConstants DEF VTypeOK, TypeOK, JtiExpiry
<1>3. ASSUME accepted' = accepted, entries' = entries, now' = now \/ now' = now + 1
      PROVE  \A c \in accepted' : entries'[c.key] = c.iat \/ now' - c.iat >= JtiExpiry
  BY <1>1, <1>2, <1>3
<1>4. ASSUME NEW t \in Threads, NEW a \in Attempts, Reject(t, a) \/ Verify(t, a)
      PROVE  accepted' = accepted /\ entries' = entries /\ now' = now
  BY <1>4 DEF Reject, Verify, vars, storeVars
<1>5. ASSUME NEW t \in Threads, SkipCommit(t) \/ Commit(t) \/ CommitReplay(t) \/ CommitCount(t)
      PROVE  accepted' = accepted /\ entries' = entries /\ now' = now
  BY <1>5 DEF SkipCommit, Commit, CommitReplay, CommitCount, Admit, DetectReplay, Count,
              vars, storeVars
<1>6. ASSUME NEW t \in Threads, CommitInsert(t)
      PROVE  \A c \in accepted' : entries'[c.key] = c.iat \/ now' - c.iat >= JtiExpiry
  <2>1. call[t] \in Call /\ call[t].key \in Keys /\ call[t].iat \in Int
    BY StoreConstants DEF VTypeOK, TypeOK, Call
  <2>2. /\ entries' = [entries EXCEPT ![call[t].key] = call[t].iat] /\ now' = now
        /\ entries[call[t].key] = NoIat /\ accepted' = accepted \cup {call[t]}
    BY <1>6 DEF CommitInsert, Insert
  <2>3. \A c \in accepted : c.key = call[t].key => now - c.iat >= JtiExpiry
    BY <1>1, <2>2, StoreConstants
  <2>4. QED
    BY <1>1, <1>2, <2>1, <2>2, <2>3
<1>7. ASSUME NEW w \in Sweepers, SweepShard(w), UNCHANGED validatorVars
      PROVE  \A c \in accepted' : entries'[c.key] = c.iat \/ now' - c.iat >= JtiExpiry
  <2> SUFFICES ASSUME NEW c \in accepted
               PROVE  entries'[c.key] = c.iat \/ now - c.iat >= JtiExpiry
    BY <1>7 DEF SweepShard, validatorVars
  <2>1. CASE c.key \notin Expired(w)
    BY <1>1, <1>7, <2>1 DEF SweepShard
  <2>2. CASE c.key \in Expired(w) /\ entries[c.key] = c.iat
    <3>1. sweep[w].at - c.iat >= sweep[w].age
      BY <2>2 DEF Expired
    <3>2. sweep[w].at <= now /\ sweep[w].age = JtiExpiry /\ sweep[w].at \in Int
      BY <1>7 DEF SweepShard, ReplayInv, VTypeOK, TypeOK, SweepFrame
    <3>3. QED
      BY <1>1, <1>2, <3>1, <3>2
  <2>3. QED
    BY <1>1, <2>1, <2>2
<1>8. ASSUME NEW w \in Sweepers,
             CleanupExpiredJtis(w) \/ (FinishSweep(w) /\ UNCHANGED validatorVars)
      PROVE  accepted' = accepted /\ entries' = entries /\ now' = now
  BY <1>8 DEF CleanupExpiredJtis, StartSweep, FinishSweep, validatorVars, storeVars
<1>9. CASE VTick
  BY <1>3, <1>9 DEF VTick, Tick, validatorVars, storeVars
<1>10. CASE UNCHANGED allVars
  BY <1>3, <1>10 DEF allVars, vars, validatorVars, storeVars
<1>11. QED
  BY <1>3, <1>4, <1>5, <1>6, <1>7, <1>8, <1>9, <1>10 DEF VNext, Sweep, SweeperStep

\* A thread's facts about its own attempt are not disturbed by a step that
\* leaves its attempt, call, program counter and the clock alone.
LEMMA ThreadFacts ==
    ASSUME IndInv, VTypeOK, ReplayInv, [VNext]_allVars, NEW u \in Threads
    PROVE  /\ pc'[u] = "admitted" =>
                 honor_jti' /\ attempt'[u] # NoAttempt /\ call'[u] = JtiCall(attempt'[u])
           /\ attempt'[u] # NoAttempt /\ pc'[u] # "inserted" =>
                 /\ now' - verifiedAt'[u] <= MaxStall
                 /\ verifiedAt'[u] - attempt'[u].proof.iat <= Window
<1> DEFINE Goal == /\ pc'[u] = "admitted" =>
                         honor_jti' /\ attempt'[u] # NoAttempt /\ call'[u] = JtiCall(attempt'[u])
                   /\ attempt'[u] # NoAttempt /\ pc'[u] # "inserted" =>
                         /\ now' - verifiedAt'[u] <= MaxStall
                         /\ verifiedAt'[u] - attempt'[u].proof.iat <= Window
<1>1. /\ pc[u] = "admitted" =>
            honor_jti /\ attempt[u] # NoAttempt /\ call[u] = JtiCall(attempt[u])
      /\ attempt[u] # NoAttempt /\ pc[u] # "inserted" =>
            /\ now - verifiedAt[u] <= MaxStall
            /\ verifiedAt[u] - attempt[u].proof.iat <= Window
  BY DEF ReplayInv
<1>2. /\ pc \in [Threads -> {"idle", "admitted", "inserted"}]
      /\ call \in [Threads -> Call] /\ now \in Int /\ MaxStall \in Nat /\ Window \in Nat
      /\ attempt \in [Threads -> Attempts \cup {NoAttempt}]
      /\ verifiedAt \in [Threads -> Int]
  BY ValidatorConstants DEF VTypeOK, TypeOK
<1>3. ASSUME pc'[u] = pc[u], call'[u] = call[u], now' = now,
             attempt'[u] = attempt[u], verifiedAt'[u] = verifiedAt[u],
             honor_jti' = honor_jti
      PROVE  Goal
  BY <1>1, <1>3
<1>4. ASSUME NEW t \in Threads, NEW a \in Attempts, Reject(t, a)
      PROVE  Goal
  BY <1>3, <1>4 DEF Reject, vars, callerVars
<1>5. ASSUME NEW t \in Threads, NEW a \in Attempts, Verify(t, a)
      PROVE  Goal
  <2>1. CASE t # u
    BY <1>2, <1>3, <1>5, <2>1 DEF Verify, vars, callerVars
  <2>2. CASE t = u
    <3>1. /\ pc'[u] = pc[u] /\ now' = now /\ attempt[u] = NoAttempt
          /\ attempt'[u] = a /\ verifiedAt'[u] = now
      BY <1>2, <1>5, <2>2 DEF Verify, vars, callerVars
    <3>2. now - a.proof.iat <= Window
      BY <1>5, DecisionPasses DEF Verify, IsFresh
    <3>3. pc'[u] # "admitted"
      BY <1>1, <3>1
    <3>4. QED
      BY <1>2, <3>1, <3>2, <3>3
  <2>3. QED
    BY <2>1, <2>2
<1>6. ASSUME NEW t \in Threads, SkipCommit(t)
      PROVE  Goal
  <2>1. CASE t # u
    BY <1>2, <1>3, <1>6, <2>1 DEF SkipCommit, Answer, vars, callerVars
  <2>2. CASE t = u /\ pc[u] # "admitted"
    BY <1>2, <1>6, <2>2 DEF SkipCommit, Answer, vars, callerVars
  <2>3. CASE t = u /\ pc[u] = "admitted"
    BY <1>6, <2>3 DEF ReplayInv, SkipCommit
  <2>4. QED
    BY <2>1, <2>2, <2>3
<1>7. ASSUME NEW t \in Threads, Commit(t)
      PROVE  Goal
  <2>1. CASE t # u
    BY <1>2, <1>3, <1>7, <2>1 DEF Commit, Admit, Return, Answer
  <2>2. CASE t = u
    BY <1>1, <1>2, <1>7, <2>2 DEF Commit, Admit, Return, Answer
  <2>3. QED
    BY <2>1, <2>2
<1>8. ASSUME NEW t \in Threads, CommitReplay(t) \/ CommitCount(t)
      PROVE  Goal
  BY <1>1, <1>2, <1>3, <1>8 DEF CommitReplay, CommitCount, DetectReplay, Count, Return, Answer
<1>9. ASSUME NEW t \in Threads, CommitInsert(t)
      PROVE  Goal
  BY <1>1, <1>2, <1>3, <1>9 DEF CommitInsert, Insert
<1>10. ASSUME NEW w \in Sweepers, CleanupExpiredJtis(w) \/ Sweep(w)
      PROVE  Goal
  BY <1>3, <1>10 DEF CleanupExpiredJtis, Sweep, StartSweep, SweeperStep, SweepShard,
                     FinishSweep, callerVars, validatorVars
<1>11. CASE VTick
  BY <1>1, <1>2, <1>11 DEF VTick, Tick, callerVars, validatorVars
<1>12. CASE UNCHANGED allVars
  BY <1>3, <1>12 DEF allVars, vars, callerVars, validatorVars
<1>13. QED
  BY <1>4, <1>5, <1>6, <1>7, <1>8, <1>9, <1>10, <1>11, <1>12 DEF VNext

\* Every step keeps the replay invariant and repeats no accepted proof.
LEMMA ReplayStep ==
    ASSUME IndInv, VTypeOK, ReplayInv, SingleUse, MaxStall < Window, [VNext]_allVars
    PROVE  ReplayInv' /\ SingleUse'
<1>1. \A w \in Sweepers :
          sweep'[w].active => sweep'[w].at <= now' /\ sweep'[w].age = JtiExpiry
  <2> SUFFICES ASSUME NEW v \in Sweepers
               PROVE  sweep'[v].active => sweep'[v].at <= now' /\ sweep'[v].age = JtiExpiry
    OBVIOUS
  <2> DEFINE Goal == sweep'[v].active => sweep'[v].at <= now' /\ sweep'[v].age = JtiExpiry
  <2>1. /\ sweep[v].at \in Int /\ sweep[v].active \in BOOLEAN
        /\ sweep[v].active => sweep[v].at <= now /\ sweep[v].age = JtiExpiry
    BY DEF ReplayInv, VTypeOK, TypeOK, SweepFrame
  <2>2. now \in Int /\ sweep \in [Sweepers -> SweepFrame]
    BY DEF VTypeOK, TypeOK
  <2>3. ASSUME sweep' = sweep, now' = now \/ now' = now + 1
        PROVE  Goal
    BY <2>1, <2>2, <2>3
  <2>4. ASSUME NEW t \in Threads, NEW a \in Attempts, Reject(t, a) \/ Verify(t, a)
        PROVE  Goal
    BY <2>3, <2>4 DEF Reject, Verify, vars
  <2>5. ASSUME NEW t \in Threads, SkipCommit(t) \/ Commit(t) \/ CommitReplay(t)
                                      \/ CommitInsert(t) \/ CommitCount(t)
        PROVE  Goal
    BY <2>3, <2>5 DEF SkipCommit, Commit, CommitReplay, CommitInsert, CommitCount,
                      Admit, DetectReplay, Insert, Count, vars
  <2>6. ASSUME NEW w \in Sweepers, CleanupExpiredJtis(w)
        PROVE  Goal
    <3>1. /\ now' = now
          /\ sweep' = [sweep EXCEPT ![w] = [active |-> TRUE, at |-> now, age |-> JtiExpiry,
                                            next |-> 0, removed |-> {}]]
      BY <2>6 DEF CleanupExpiredJtis, StartSweep
    <3>2. QED
      BY <2>1, <2>2, <3>1
  <2>7. ASSUME NEW w \in Sweepers, Sweep(w)
        PROVE  Goal
    <3>1. CASE SweepShard(w)
      <4>1. /\ now' = now /\ sweep[w].active
            /\ v # w => sweep'[v] = sweep[v]
            /\ sweep'[w].at = sweep[w].at /\ sweep'[w].age = sweep[w].age
        BY <2>2, <3>1 DEF SweepShard, Visited
      <4>2. QED
        BY <2>1, <4>1
    <3>2. CASE FinishSweep(w)
      <4>1. /\ now' = now /\ sweep'[w] = Idle
            /\ v # w => sweep'[v] = sweep[v]
        BY <2>2, <3>2 DEF FinishSweep
      <4>2. QED
        BY <2>1, <4>1 DEF Idle
    <3>3. QED
      BY <2>7, <3>1, <3>2 DEF Sweep, SweeperStep
  <2>8. CASE VTick
    BY <2>3, <2>8 DEF VTick, Tick
  <2>9. CASE UNCHANGED allVars
    BY <2>3, <2>9 DEF allVars, vars
  <2>10. QED
    BY <2>4, <2>5, <2>6, <2>7, <2>8, <2>9 DEF VNext
<1>2. ReplayInv'
  BY <1>1, AcceptedStep, ThreadFacts DEF ReplayInv, JtiCall, JtiExpiry, CommitKey, NoAttempt
<1>3. SingleUse'
  <2>1. ASSUME NEW t \in Threads, CommitInsert(t)
        PROVE  twice' = twice
    BY <2>1, InsertIsFirst DEF CommitInsert
  <2>2. CASE \A t \in Threads : ~CommitInsert(t)
    BY <2>2 DEF VNext, Reject, Verify, SkipCommit, Commit, CommitReplay, CommitCount,
                CleanupExpiredJtis, Sweep, VTick, allVars, validatorVars, SingleUse
  <2>3. QED
    BY <2>1, <2>2 DEF SingleUse
<1>4. QED
  BY <1>2, <1>3

\* If every verified proof reaches the store sooner than one window after it
\* was verified, no proof is ever accepted twice.
THEOREM NoProofIsAcceptedTwice ==
    ASSUME MaxStall < Window
    PROVE  VSpec => []SingleUse
<1>1. VInit => ReplayInv /\ SingleUse
  BY DEF VInit, Init, ReplayInv, SingleUse, Idle
<1>2. IndInv /\ VTypeOK /\ ReplayInv /\ SingleUse /\ [VNext]_allVars
        => ReplayInv' /\ SingleUse'
  BY ReplayStep
<1>3. QED
  BY <1>1, <1>2, ValidatorTypeCorrect, PTL DEF VSpec

\* Swept with twice the window, the store keeps the promise of is_strict: no
\* accepted JTI is dropped while its proof would still be judged fresh.
THEOREM AcceptedIsRetainedWhileFresh ==
    ASSUME MaxStall < Window
    PROVE  VSpec => []RetainedWhileFresh
<1>1. VInit => ReplayInv /\ SingleUse
  BY DEF VInit, Init, ReplayInv, SingleUse, Idle
<1>2. IndInv /\ VTypeOK /\ ReplayInv /\ SingleUse /\ [VNext]_allVars
        => ReplayInv' /\ SingleUse'
  BY ReplayStep
<1>3. VTypeOK /\ ReplayInv => RetainedWhileFresh
  <2> SUFFICES ASSUME VTypeOK, ReplayInv, NEW c \in accepted, IsFresh(c.iat, Window, now)
               PROVE  entries[c.key] # NoIat
    BY DEF RetainedWhileFresh
  <2>1. c.iat \in Int /\ now \in Int /\ Window \in Nat \ {0} /\ NoIat \notin Int
    BY ValidatorConstants, StoreConstants DEF VTypeOK, TypeOK, Call
  <2>2. entries[c.key] = c.iat \/ now - c.iat >= 2 * Window
    BY DEF ReplayInv, JtiExpiry
  <2>3. now - c.iat <= Window
    BY <2>1 DEF IsFresh
  <2>4. QED
    BY <2>1, <2>2, <2>3
<1>4. QED
  BY <1>1, <1>2, <1>3, ValidatorTypeCorrect, PTL DEF VSpec

-----------------------------------------------------------------------------
(* Whose JTIs are stored.                                                  *)

\* Every step keeps the facts about the calls under way.
LEMMA SignedStep ==
    ASSUME IndInv, VTypeOK, SignedInv, [VNext]_allVars
    PROVE  SignedInv'
<1> SUFFICES ASSUME NEW u \in Threads
             PROVE  /\ attempt'[u] # NoAttempt => Vouched(attempt'[u])
                    /\ pc'[u] = "admitted" =>
                          honor_jti' /\ attempt'[u] # NoAttempt /\ call'[u] = JtiCall(attempt'[u])
  BY DEF SignedInv, Vouched, JtiCall, CommitKey, NoAttempt
<1> DEFINE Goal == /\ attempt'[u] # NoAttempt => Vouched(attempt'[u])
                   /\ pc'[u] = "admitted" =>
                         honor_jti' /\ attempt'[u] # NoAttempt /\ call'[u] = JtiCall(attempt'[u])
<1>1. /\ attempt[u] # NoAttempt => Vouched(attempt[u])
      /\ pc[u] = "admitted" =>
            honor_jti /\ attempt[u] # NoAttempt /\ call[u] = JtiCall(attempt[u])
  BY DEF SignedInv
<1>2. /\ pc \in [Threads -> {"idle", "admitted", "inserted"}]
      /\ call \in [Threads -> Call]
      /\ attempt \in [Threads -> Attempts \cup {NoAttempt}]
  BY DEF VTypeOK, TypeOK
<1>3. ASSUME pc'[u] = pc[u], call'[u] = call[u], attempt'[u] = attempt[u],
             honor_jti' = honor_jti
      PROVE  Goal
  BY <1>1, <1>3
<1>4. ASSUME NEW t \in Threads, NEW a \in Attempts, Reject(t, a)
      PROVE  Goal
  BY <1>3, <1>4 DEF Reject, vars, callerVars
<1>5. ASSUME NEW t \in Threads, NEW a \in Attempts, Verify(t, a)
      PROVE  Goal
  <2>1. CASE t # u
    BY <1>2, <1>3, <1>5, <2>1 DEF Verify, vars, callerVars
  <2>2. CASE t = u
    <3>1. pc'[u] = pc[u] /\ attempt[u] = NoAttempt /\ attempt'[u] = a
      BY <1>2, <1>5, <2>2 DEF Verify, vars, callerVars
    <3>2. Vouched(a)
      BY <1>5, DecisionPasses DEF Verify
    <3>3. QED
      BY <1>1, <3>1, <3>2
  <2>3. QED
    BY <2>1, <2>2
<1>6. ASSUME NEW t \in Threads, SkipCommit(t)
      PROVE  Goal
  <2>1. CASE t # u
    BY <1>2, <1>3, <1>6, <2>1 DEF SkipCommit, Answer, vars, callerVars
  <2>2. CASE t = u
    BY <1>1, <1>2, <1>6, <2>2 DEF SkipCommit, Answer, vars, callerVars
  <2>3. QED
    BY <2>1, <2>2
<1>7. ASSUME NEW t \in Threads, Commit(t)
      PROVE  Goal
  <2>1. CASE t # u
    BY <1>2, <1>3, <1>7, <2>1 DEF Commit, Admit, Return, Answer
  <2>2. CASE t = u
    BY <1>1, <1>2, <1>7, <2>2 DEF Commit, Admit, Return, Answer
  <2>3. QED
    BY <2>1, <2>2
<1>8. ASSUME NEW t \in Threads, CommitReplay(t) \/ CommitCount(t)
      PROVE  Goal
  BY <1>1, <1>2, <1>3, <1>8 DEF CommitReplay, CommitCount, DetectReplay, Count, Return, Answer
<1>9. ASSUME NEW t \in Threads, CommitInsert(t)
      PROVE  Goal
  BY <1>1, <1>2, <1>3, <1>9 DEF CommitInsert, Insert
<1>10. ASSUME NEW w \in Sweepers, CleanupExpiredJtis(w) \/ Sweep(w)
      PROVE  Goal
  BY <1>3, <1>10 DEF CleanupExpiredJtis, Sweep, StartSweep, SweeperStep, SweepShard,
                     FinishSweep, callerVars, validatorVars
<1>11. CASE VTick
  BY <1>3, <1>11 DEF VTick, Tick, callerVars, validatorVars
<1>12. CASE UNCHANGED allVars
  BY <1>3, <1>12 DEF allVars, vars, callerVars, validatorVars
<1>13. QED
  BY <1>4, <1>5, <1>6, <1>7, <1>8, <1>9, <1>10, <1>11, <1>12 DEF VNext

\* A key comes into the store only by the insertion of a verified proof's own
\* call; sweeps only take keys away.
LEMMA BurnedStep ==
    ASSUME IndInv, VTypeOK, SignedInv, OnlySignedProofsBurnJtis, [VNext]_allVars
    PROVE  OnlySignedProofsBurnJtis'
<1> SUFFICES ASSUME NEW k \in Keys, entries'[k] # NoIat
             PROVE  \E a \in Attempts :
                        Vouched(a) /\ JtiCall(a) = [key |-> k, iat |-> entries'[k]]
  BY DEF OnlySignedProofsBurnJtis, Present, Vouched, JtiCall, CommitKey
<1> DEFINE Goal == \E a \in Attempts :
                       Vouched(a) /\ JtiCall(a) = [key |-> k, iat |-> entries'[k]]
<1>1. ASSUME entries'[k] = entries[k]
      PROVE  Goal
  BY <1>1 DEF OnlySignedProofsBurnJtis, Present
<1>2. ASSUME NEW t \in Threads, NEW a \in Attempts, Reject(t, a) \/ Verify(t, a)
      PROVE  Goal
  BY <1>1, <1>2 DEF Reject, Verify, vars, storeVars
<1>3. ASSUME NEW t \in Threads, SkipCommit(t) \/ Commit(t) \/ CommitReplay(t) \/ CommitCount(t)
      PROVE  Goal
  BY <1>1, <1>3 DEF SkipCommit, Commit, CommitReplay, CommitCount, Admit, DetectReplay, Count,
                    vars, storeVars
<1>4. ASSUME NEW t \in Threads, CommitInsert(t)
      PROVE  Goal
  <2>1. /\ pc[t] = "admitted" /\ entries \in [Keys -> Int \cup {NoIat}]
        /\ entries' = [entries EXCEPT ![call[t].key] = call[t].iat]
    BY <1>4 DEF CommitInsert, Insert, VTypeOK, TypeOK
  <2>2. CASE k # call[t].key
    BY <1>1, <2>1, <2>2
  <2>3. CASE k = call[t].key
    <3>1. PICK a \in Attempts : a = attempt[t] /\ Vouched(a) /\ call[t] = JtiCall(a)
      BY <2>1 DEF SignedInv, VTypeOK
    <3>2. entries'[k] = call[t].iat
      BY <2>1, <2>3
    <3>3. JtiCall(a) = [key |-> k, iat |-> entries'[k]]
      BY <2>3, <3>1, <3>2 DEF JtiCall
    <3>4. QED
      BY <3>1, <3>3
  <2>4. QED
    BY <2>2, <2>3
<1>5. ASSUME NEW w \in Sweepers, Sweep(w)
      PROVE  Goal
  <2>1. CASE SweepShard(w)
    BY <1>1, <2>1 DEF SweepShard
  <2>2. CASE FinishSweep(w)
    BY <1>1, <2>2 DEF FinishSweep
  <2>3. QED
    BY <1>5, <2>1, <2>2 DEF Sweep, SweeperStep
<1>6. ASSUME NEW w \in Sweepers, CleanupExpiredJtis(w)
      PROVE  Goal
  BY <1>1, <1>6 DEF CleanupExpiredJtis, StartSweep, storeVars
<1>7. CASE VTick \/ UNCHANGED allVars
  BY <1>1, <1>7 DEF VTick, Tick, allVars, vars, storeVars
<1>8. QED
  BY <1>2, <1>3, <1>4, <1>5, <1>6, <1>7 DEF VNext

\* Every entry of the replay store was put there by a proof its own holder
\* signed: validate verifies before it commits, whatever else is under way.
THEOREM OnlyHoldersBurnJtis == VSpec => []OnlySignedProofsBurnJtis
<1>1. VInit => SignedInv /\ OnlySignedProofsBurnJtis
  BY DEF VInit, Init, SignedInv, OnlySignedProofsBurnJtis, Present
<1>2. IndInv /\ VTypeOK /\ SignedInv /\ OnlySignedProofsBurnJtis /\ [VNext]_allVars
        => SignedInv' /\ OnlySignedProofsBurnJtis'
  BY SignedStep, BurnedStep
<1>3. QED
  BY <1>1, <1>2, ValidatorTypeCorrect, PTL DEF VSpec
=============================================================================
