---------------------------- MODULE JtiContract ----------------------------
(***************************************************************************)
(* What every strict JtiStore promises its callers, whatever it is built   *)
(* from: the trait of src/src/dpop.rs and the obligations that             *)
(* src/src/jti_contract.rs checks of a backend.                            *)
(*                                                                         *)
(*   - check_and_insert is one atomic insert-if-absent: it answers Ok only *)
(*     in the step that stores the key, and "replay" only while the key    *)
(*     is stored;                                                          *)
(*   - a refusal (store full, key too long, backend down) stores nothing;  *)
(*   - a stored key is forgotten only once its age has reached Retention.  *)
(*                                                                         *)
(* The concrete stores (StrictJtiStore, AsyncStrictJtiStore) implement     *)
(* this specification.                                                     *)
(***************************************************************************)
EXTENDS Integers

CONSTANTS
    Threads,    \* the callers of the store
    Keys,       \* composite JTI keys
    Iats,       \* issued-at times, seconds
    Retention,  \* the age before which no accepted key may be forgotten
    NoIat       \* "this key is not stored"

VARIABLES
    now,        \* the wall clock, in seconds
    seen,       \* seen[k]: the iat stored for k, or NoIat
    out         \* out[t]: what t's latest call has been answered

cvars == <<now, seen, out>>

Refused == "DpopValidationFailed"
Replayed == "ReplayAttackDetected"
Accepted == "Ok"
Pending == "none"

CInit ==
    /\ now \in Int
    /\ seen = [k \in Keys |-> NoIat]
    /\ out = [t \in Threads |-> Pending]

\* A new call forgets the answer to the previous one.
Invoke(t) ==
    /\ out' = [out EXCEPT ![t] = Pending]
    /\ UNCHANGED <<now, seen>>

\* Ok: the key was absent and is stored in this very step.
Accept(t, k, iat) ==
    /\ out[t] = Pending
    /\ seen[k] = NoIat
    /\ seen' = [seen EXCEPT ![k] = iat]
    /\ out' = [out EXCEPT ![t] = Accepted]
    /\ UNCHANGED now

\* ReplayAttackDetected: the key is stored.
Replay(t, k) ==
    /\ out[t] = Pending
    /\ seen[k] # NoIat
    /\ out' = [out EXCEPT ![t] = Replayed]
    /\ UNCHANGED <<now, seen>>

\* A refusal may come at any time, and stores nothing.
Refuse(t) ==
    /\ out' = [out EXCEPT ![t] = Refused]
    /\ UNCHANGED <<now, seen>>

\* Keys of age Retention or more may be forgotten, several at once.
Forget(gone) ==
    /\ \A k \in gone : seen[k] # NoIat /\ now - seen[k] >= Retention
    /\ seen' = [k \in Keys |-> IF k \in gone THEN NoIat ELSE seen[k]]
    /\ UNCHANGED <<now, out>>

\* The clock only moves forward.
Advance ==
    /\ now' \in Int
    /\ now' > now
    /\ UNCHANGED <<seen, out>>

CNext ==
    \/ \E t \in Threads : Invoke(t) \/ Refuse(t)
    \/ \E t \in Threads, k \in Keys, iat \in Iats : Accept(t, k, iat)
    \/ \E t \in Threads, k \in Keys : Replay(t, k)
    \/ \E gone \in SUBSET Keys : Forget(gone)
    \/ Advance

CSpec == CInit /\ [][CNext]_cvars
=============================================================================
