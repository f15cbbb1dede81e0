---------------------------- MODULE DpopValidator ----------------------------
(***************************************************************************)
(* DpopValidator::validate over an InMemoryStrictJtiStore (src/src/dpop.rs)*)
(* composed from DpopProof (the decision) and StrictJtiStore (the commit). *)
(*                                                                         *)
(* The freshness of a proof is decided at one reading of the clock; its    *)
(* replay key reaches the store later, and meanwhile other threads         *)
(* validate, the clock moves, and a timer runs cleanup_expired_jtis. A     *)
(* caller is in three stages: free, verified (the decision is taken, the   *)
(* store not yet entered) and inside the store's check_and_insert.         *)
(***************************************************************************)
EXTENDS StrictJtiStore, DpopProof

CONSTANTS
    Attempts,  \* the calls that arrive: [proof, req, issuer]
    Window,    \* settings.effective_window()
    MaxStall   \* bound: seconds a verified proof may wait for its insertion

NoAttempt == [proof |-> Absent]

\* What insert_jti files an attempt under.
JtiCall(a) == [key |-> CommitKey(a.proof, a.issuer), iat |-> a.proof.iat]

ASSUME ValidatorConstants ==
    /\ Window \in Nat \ {0}
    /\ MaxStall \in Nat
    /\ NoAttempt \notin Attempts
    /\ \A a \in Attempts : JtiCall(a) \in Call

VARIABLES
    honor_jti,   \* settings.should_honor_jti(), fixed at construction
    attempt,     \* the verified attempt each thread is committing
    verifiedAt,  \* the clock reading its freshness was judged by
    answer,      \* what each thread's latest validate returned
    accepted,    \* history: the (key, iat) pairs validate committed
    twice        \* history: those it committed more than once

validatorVars == <<honor_jti, attempt, verifiedAt, answer, accepted, twice>>
allVars == <<vars, validatorVars>>

\* Mutant: the signature is not checked.
DecisionUnsigned(a) == FirstError(PreSigChecks(a.proof, a.req, Window, now))

Decision(a) == ValidateWithoutJtiCommit(a.proof, a.req, Window, now)

\* Mutant: the window itself.
JtiExpirySingle == Window

\* jti_expiry_seconds: twice the window, so that a proof judged fresh is still
\* on file when it is judged again.
JtiExpiry == 2 * Window

-----------------------------------------------------------------------------
VInit ==
    /\ Init
    /\ honor_jti \in BOOLEAN
    /\ attempt = [t \in Threads |-> NoAttempt]
    /\ verifiedAt = [t \in Threads |-> StartTime]
    /\ answer = [t \in Threads |-> "none"]
    /\ accepted = {}
    /\ twice = {}

\* validate returns r and the thread is free again.
Answer(t, r) ==
    /\ attempt' = [attempt EXCEPT ![t] = NoAttempt]
    /\ verifiedAt' = [verifiedAt EXCEPT ![t] = StartTime]
    /\ answer' = [answer EXCEPT ![t] = r]

\* A proof that fails a check is answered at once and touches nothing.
Reject(t, a) ==
    /\ attempt[t] = NoAttempt
    /\ Decision(a) # "none"
    /\ answer' = [answer EXCEPT ![t] = Decision(a)]
    /\ UNCHANGED <<vars, honor_jti, attempt, verifiedAt, accepted, twice>>

\* A proof that passes them all is verified, at this reading of the clock.
Verify(t, a) ==
    /\ attempt[t] = NoAttempt
    /\ Decision(a) = "none"
    /\ attempt' = [attempt EXCEPT ![t] = a]
    /\ verifiedAt' = [verifiedAt EXCEPT ![t] = now]
    /\ answer' = [answer EXCEPT ![t] = "none"]
    /\ UNCHANGED <<vars, honor_jti, accepted, twice>>

\* dpop_commit_key is None when the settings do not honour JTIs.
SkipCommit(t) ==
    /\ attempt[t] # NoAttempt
    /\ ~honor_jti
    /\ Answer(t, "Ok")
    /\ UNCHANGED <<vars, honor_jti, accepted, twice>>

\* insert_jti enters the store, which may refuse there and then.
Commit(t) ==
    /\ attempt[t] # NoAttempt
    /\ honor_jti
    /\ Admit(t, JtiCall(attempt[t]))
    /\ IF pc'[t] = "idle" THEN Answer(t, result'[t])
       ELSE UNCHANGED <<attempt, verifiedAt, answer>>
    /\ UNCHANGED <<honor_jti, accepted, twice>>

CommitReplay(t) ==
    /\ DetectReplay(t)
    /\ Answer(t, "ReplayAttackDetected")
    /\ UNCHANGED <<honor_jti, accepted, twice>>

CommitInsert(t) ==
    /\ Insert(t)
    /\ accepted' = accepted \cup {call[t]}
    /\ twice' = IF call[t] \in accepted THEN twice \cup {call[t]} ELSE twice
    /\ UNCHANGED <<honor_jti, attempt, verifiedAt, answer>>

CommitCount(t) ==
    /\ Count(t)
    /\ Answer(t, "Ok")
    /\ UNCHANGED <<honor_jti, accepted, twice>>

\* cleanup_expired_jtis.
CleanupExpiredJtis(w) ==
    /\ StartSweep(w, JtiExpiry)
    /\ UNCHANGED validatorVars

Sweep(w) ==
    /\ SweeperStep(w)
    /\ UNCHANGED validatorVars

\* Time passes, but no verified proof waits longer than MaxStall.
VTick ==
    /\ Tick
    /\ \A t \in Threads :
        attempt[t] # NoAttempt /\ pc[t] # "inserted"
            => now' - verifiedAt[t] <= MaxStall
    /\ UNCHANGED validatorVars

VNext ==
    \/ \E t \in Threads, a \in Attempts : Reject(t, a) \/ Verify(t, a)
    \/ \E t \in Threads : SkipCommit(t) \/ Commit(t) \/ CommitReplay(t)
                             \/ CommitInsert(t) \/ CommitCount(t)
    \/ \E w \in Sweepers : CleanupExpiredJtis(w) \/ Sweep(w)
    \/ VTick

VSpec == VInit /\ [][VNext]_allVars

-----------------------------------------------------------------------------
\* Every variable has its type, those of the store under it included: its
\* counter does not wrap when validate drives it.
VTypeOK ==
    /\ TypeOK
    /\ honor_jti \in BOOLEAN
    /\ attempt \in [Threads -> Attempts \cup {NoAttempt}]
    /\ verifiedAt \in [Threads -> Int]
    /\ accepted \subseteq Call
    /\ twice \subseteq accepted

\* No proof is accepted twice: however two presentations of the same proof,
\* the clock and the sweeps interleave, its key is inserted at most once.
SingleUse == twice = {}

\* The promise of a strict store (is_strict): an accepted JTI is not dropped
\* while the proof it came from would still be judged fresh.
RetainedWhileFresh ==
    \A c \in accepted : IsFresh(c.iat, Window, now) => entries[c.key] # NoIat

\* The inductive invariant behind both. Whatever was accepted is still stored
\* or has reached the expiry age; a proof that waits for its insertion was
\* fresh at most MaxStall ago; a sweep's clock is never ahead of the present.
ReplayInv ==
    /\ \A c \in accepted : entries[c.key] = c.iat \/ now - c.iat >= JtiExpiry
    /\ \A t \in Threads :
        /\ pc[t] = "admitted" =>
               honor_jti /\ attempt[t] # NoAttempt /\ call[t] = JtiCall(attempt[t])
        /\ attempt[t] # NoAttempt /\ pc[t] # "inserted" =>
               /\ now - verifiedAt[t] <= MaxStall
               /\ verifiedAt[t] - attempt[t].proof.iat <= Window
    /\ \A w \in Sweepers :
        sweep[w].active => sweep[w].at <= now /\ sweep[w].age = JtiExpiry

\* What a verified proof is known to be: signed by the key it embeds, and for
\* the token it was presented with.
Vouched(a) ==
    /\ a.proof.sigKey = a.proof.key
    /\ a.req.ath # Absent => a.proof.ath = a.req.ath

\* Nobody can burn the JTI of a proof that somebody else has yet to present:
\* every stored entry, key and date, was put there by a proof that its own
\* holder signed, for the token it was presented with.
OnlySignedProofsBurnJtis ==
    \A k \in Present : \E a \in Attempts :
        Vouched(a) /\ JtiCall(a) = [key |-> k, iat |-> entries[k]]

\* What that needs of the calls under way: only verified attempts are waiting
\* for the store, and a caller inside it carries the key of its own attempt.
SignedInv ==
    \A t \in Threads :
        /\ attempt[t] # NoAttempt => Vouched(attempt[t])
        /\ pc[t] = "admitted" =>
               honor_jti /\ attempt[t] # NoAttempt /\ call[t] = JtiCall(attempt[t])
=============================================================================
