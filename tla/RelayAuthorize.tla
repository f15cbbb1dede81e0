--------------------------- MODULE RelayAuthorize ---------------------------
(***************************************************************************)
(* Authorization at a relay: MoqtValidator::authorize and                  *)
(* authorize_with_replay (src/src/moqt.rs), their async counterparts and   *)
(* authorize_offloaded (src/src/async.rs), and the public split into       *)
(* authorize_precommit and commit_async, all running against the same      *)
(* stores.                                                                 *)
(*                                                                         *)
(* Every call is a process of its own. A call touches shared state in up   *)
(* to four separate steps (catpor lookup, catpor insertion, JTI commit,    *)
(* cti commit); an async call may be dropped at either of its awaits; and  *)
(* a backend may fail before or after it has recorded.                     *)
(*                                                                         *)
(* The JTI store is the contract of JtiContract (an atomic                 *)
(* insert-if-absent), which StrictJtiStore is shown to implement; no call  *)
(* here lives long enough for its entries to expire. The replay guard is   *)
(* the integrator's; a "strict" one records atomically and never forgets,  *)
(* a "best_effort" one may do neither.                                     *)
(***************************************************************************)
EXTENDS MoqtAuthorize, RequestReference, CatPorBlockList

CONSTANTS
    Calls,       \* the calls that arrive: [path, tok, ctx, guarded, guard, list]
    Solo,        \* bound: further calls, each of which is made alone
    Cfg,         \* the validator's configuration
    RequireStrictGuard,  \* require_strict_replay_guard()
    Stores,      \* JTI stores
    StoreOf,     \* StoreOf[path]: the store that entry point commits to
    Lists,       \* the catpor block lists callers share
    LostAnswers, \* may a backend fail after it has recorded
    PorScale,    \* the random draw is one of 0/PorScale .. PorScale/PorScale
    StartTime,
    MaxTime,     \* bound: the clock stops here
    MaxCalls     \* bound: this many calls are made

AsyncPaths == {"async", "offloaded", "split"}

\* The form of requests and tokens: a scope's patterns and a request's namespace
\* and track are lists of bytes and lists of those, and a network identifier is
\* of one of four kinds.
IsList(s) == s \in Seq(Range(s))
WellFormed(m) == IsList(m.pattern) /\ m.type \in {"Any", "Exact", "Prefix", "Suffix"}
ASSUME RequestConstants ==
    \A c \in Calls \cup Solo :
        /\ IsList(c.ctx.track) /\ IsList(c.ctx.namespace)
        /\ \A k \in DOMAIN c.ctx.namespace :
               c.ctx.namespace[k] # Absent /\ IsList(c.ctx.namespace[k])
        /\ c.tok.scopes # Absent =>
               /\ IsList(c.tok.scopes)
               /\ \A k \in DOMAIN c.tok.scopes :
                      LET scope == c.tok.scopes[k]
                      IN  /\ \A m \in Range(scope.namespace_matches) \ {Nil} : WellFormed(m)
                          /\ IsList(scope.namespace_matches)
                          /\ scope.track_match # Absent => WellFormed(scope.track_match)
        /\ c.tok.catnip # Absent => \A n \in c.tok.catnip : IsIpBased(n) \/ IsAsnBased(n)

ASSUME RelayConstants ==
    /\ \A c \in Calls \cup Solo :
        /\ c.path \in {"sync"} \cup AsyncPaths
        /\ c.path # "split" => c.guarded = (c.guard # Absent)
        /\ c.guard \in {Absent, "strict", "best_effort"}
        /\ c.path \in {"sync", "async"} /\ c.guard = Absent => c.list = Absent
        /\ c.path # "offloaded" => c.list \in Lists \cup {Absent}
        /\ StoreOf[c.path] \in Stores
        /\ c.tok.catpor # Absent => c.tok.catpor.id \in PorIds
        /\ c.tok.cnf # Absent => c.tok.hash # Absent
        /\ c.ctx.proof # Absent => CommitKey(c.ctx.proof, c.tok.iss) # Absent
    /\ StartTime \in Int /\ MaxTime \in Int /\ StartTime <= MaxTime
    /\ LostAnswers \in BOOLEAN
    /\ RequireStrictGuard \in BOOLEAN
    /\ PorScale \in Nat \ {0}
    /\ MaxCalls \in Nat

VARIABLES
    now,
    jtis,   \* jtis[s]: the keys JTI store s has recorded
    ctis,   \* the ctis the replay guard's backend has recorded
    por,    \* por[l]: the shared block lists
    calls   \* the calls made so far, each with its progress and its outcome

relayVars == <<now, jtis, ctis, por, calls>>

NoPre == [scope_index |-> 0, jti |-> Absent, replay |-> "None", cti |-> Absent,
          requires_revalidation |-> FALSE]

\* `own` is the block list an offloaded call was given by value. The last four
\* are history: the call put its catpor id on a block list; it passed the
\* lookup although a block on its id should have been found; what it has put on record.
Fresh(c) ==
    [call |-> c, pc |-> "por", pre |-> NoPre, answer |-> "pending", reuse |-> FALSE,
     own |-> <<>>, blocks |-> FALSE, leaked |-> FALSE,
     jtiBurned |-> FALSE, ctiBurned |-> FALSE]

\* Mutant: an answer that does not end the call.
AnsweredStillRunning(f, r) == [f EXCEPT !.answer = r]

\* The call returns r.
Answered(f, r) == [f EXCEPT !.pc = "done", !.answer = r]

At(i, stage) == i \in DOMAIN calls /\ calls[i].pc = stage

RInit ==
    /\ now = StartTime
    /\ jtis = [s \in Stores |-> {}]
    /\ ctis = {}
    /\ por = [l \in Lists |-> <<>>]
    /\ calls = <<>>

-----------------------------------------------------------------------------
\* authorize_precommit, steps 1 to 8b, and the presence of a block list.
Begin(c) ==
    /\ Len(calls) < MaxCalls
    /\ LET e == OrElse(PolicyError(Cfg, c.tok, c.ctx),
                       IF c.tok.catpor # Absent /\ c.list = Absent
                       THEN "MissingRelayContext" ELSE "none")
       IN  calls' = Append(calls,
               IF e # "none" THEN Answered(Fresh(c), e)
               ELSE IF c.tok.catpor = Absent THEN [Fresh(c) EXCEPT !.pc = "decide"]
               ELSE Fresh(c))
    /\ UNCHANGED <<now, jtis, ctis, por>>

\* The block list a call works on: the shared one it was lent, or its own.
ListOf(i) ==
    IF calls[i].call.path = "offloaded" THEN calls[i].own ELSE por[calls[i].call.list]

\* The call's frame becomes f and its block list l.
PutList(i, f, l) ==
    IF calls[i].call.path = "offloaded"
    THEN /\ calls' = [calls EXCEPT ![i] = [f EXCEPT !.own = l]]
         /\ UNCHANGED por
    ELSE /\ calls' = [calls EXCEPT ![i] = f]
         /\ por' = [por EXCEPT ![calls[i].call.list] = l]

\* The calls that have put their id on the shared list l.
Blockers(l) ==
    {k \in DOMAIN calls : /\ calls[k].blocks
                          /\ calls[k].call.path # "offloaded" /\ calls[k].call.list = l}

\* The ids whose block on l has not run out.
InForce(l) ==
    {calls[j].call.tok.catpor.id : j \in {k \in Blockers(l) :
        \/ calls[k].call.tok.catpor.exp = NoExpiry
        \/ now < calls[k].call.tok.catpor.exp}}

\* The ids ever put into id's shard of l, id itself aside.
Crowd(l, id) ==
    {calls[j].call.tok.catpor.id : j \in Blockers(l)}
        \cap {r \in PorIds \ {id} : PorShardOf[r] = PorShardOf[id]}

\* enforce_catpor, first half: is_blocked, which also refreshes the entry.
PorLookup(i) ==
    /\ At(i, "por")
    /\ LET id == calls[i].call.tok.catpor.id
           list == calls[i].call.list
       IN  PutList(i, IF IsBlocked(ListOf(i), id, now)
                      THEN Answered(calls[i], "RejectedByProbability")
                      ELSE [calls[i] EXCEPT
                               !.pc = "draw",
                               !.leaked = /\ id \in InForce(list)
                                          /\ Cardinality(Crowd(list, id)) < PorCapacity],
                   Touched(ListOf(i), id))
    /\ UNCHANGED <<now, jtis, ctis>>

\* Mutant: the rejection is not put on the list.
PorDrawForgets(i) ==
    /\ At(i, "draw")
    /\ LET p == calls[i].call.tok.catpor
       IN  \E random \in 0 .. PorScale :
              IF random < p.probability
              THEN PutList(i, [Answered(calls[i], "RejectedByProbability")
                                  EXCEPT !.blocks = TRUE], ListOf(i))
              ELSE PutList(i, [calls[i] EXCEPT !.pc = "decide"], ListOf(i))
    /\ UNCHANGED <<now, jtis, ctis>>

\* enforce_catpor, second half: the draw, and the insertion when it rejects.
\* Both ends of the draw are possible: u64::MAX divided by itself is 1.
PorDraw(i) ==
    /\ At(i, "draw")
    /\ LET p == calls[i].call.tok.catpor
       IN  \/ \E random \in 0 .. PorScale :
                IF random < p.probability
                THEN PutList(i, [Answered(calls[i], "RejectedByProbability")
                                    EXCEPT !.blocks = TRUE],
                             Added(ListOf(i), p.id, p.exp))
                ELSE PutList(i, [calls[i] EXCEPT !.pc = "decide"], ListOf(i))
           \/ PutList(i, Answered(calls[i], "KeyOperationFailed"), ListOf(i))
    /\ UNCHANGED <<now, jtis, ctis>>

\* Mutant: the JTI commit is left out.
DecideSkipsJti(i) ==
    /\ At(i, "decide")
    /\ LET c == calls[i].call
           e == DecisionError(Cfg, c.tok, c.ctx, c.guarded, now)
       IN  calls' = [calls EXCEPT ![i] =
               IF e # "none" THEN Answered(calls[i], e)
               ELSE [calls[i] EXCEPT !.pre = PreCommit(Cfg, c.tok, c.ctx), !.pc = "cti"]]
    /\ UNCHANGED <<now, jtis, ctis, por>>

\* authorize_precommit, steps 10 to 12.
Decide(i) ==
    /\ At(i, "decide")
    /\ LET c == calls[i].call
           e == DecisionError(Cfg, c.tok, c.ctx, c.guarded, now)
           pre == PreCommit(Cfg, c.tok, c.ctx)
       IN  calls' = [calls EXCEPT ![i] =
               IF e # "none" THEN Answered(calls[i], e)
               ELSE [calls[i] EXCEPT !.pre = pre,
                                     !.pc = IF pre.jti = Absent THEN "cti" ELSE "jti"]]
    /\ UNCHANGED <<now, jtis, ctis, por>>

-----------------------------------------------------------------------------
JtiStoreOf(i) == StoreOf[calls[i].call.path]

\* Mutant: a failed insertion is tried again with the same key.
JtiFailsRetried(i) ==
    /\ At(i, "jti")
    /\ LostAnswers
    /\ calls[i].pre.jti \notin jtis[JtiStoreOf(i)]
    /\ jtis' = [jtis EXCEPT ![JtiStoreOf(i)] = @ \cup {calls[i].pre.jti}]
    /\ calls' = [calls EXCEPT ![i] = [calls[i] EXCEPT !.jtiBurned = TRUE]]
    /\ UNCHANGED <<now, ctis, por>>

\* The backend fails a check_and_insert, before or after it has recorded.
JtiFails(i) ==
    /\ At(i, "jti")
    /\ \/ /\ calls' = [calls EXCEPT ![i] = Answered(calls[i], "BackendUnavailable")]
          /\ UNCHANGED jtis
       \/ /\ LostAnswers
          /\ calls[i].pre.jti \notin jtis[JtiStoreOf(i)]
          /\ jtis' = [jtis EXCEPT ![JtiStoreOf(i)] = @ \cup {calls[i].pre.jti}]
          /\ calls' = [calls EXCEPT ![i] =
                           [Answered(calls[i], "BackendUnavailable") EXCEPT !.jtiBurned = TRUE]]
    /\ UNCHANGED <<now, ctis, por>>

\* commit and commit_async: the JTI first.
CommitJti(i) ==
    /\ At(i, "jti")
    /\ IF calls[i].pre.jti \in jtis[JtiStoreOf(i)]
       THEN /\ calls' = [calls EXCEPT ![i] = Answered(calls[i], "ReplayAttackDetected")]
            /\ UNCHANGED jtis
       ELSE /\ calls' = [calls EXCEPT ![i] = [calls[i] EXCEPT !.pc = "cti", !.jtiBurned = TRUE]]
            /\ jtis' = [jtis EXCEPT ![JtiStoreOf(i)] = @ \cup {calls[i].pre.jti}]
    /\ UNCHANGED <<now, ctis, por>>

\* Mutant: strictness is not asked of the guard.
GuardErrorLax(i) ==
    IF calls[i].call.guard # Absent THEN "none"
    ELSE IF calls[i].call.path \in AsyncPaths THEN "InvalidClaimValue"
    ELSE "MissingRelayContext"

\* resolve_replay_guard, and its one-line sync counterpart: by now the JTI has
\* been committed.
GuardError(i) ==
    LET guard == calls[i].call.guard
        async == calls[i].call.path \in AsyncPaths
    IN  CASE guard = Absent /\ async -> "InvalidClaimValue"
          [] guard = Absent /\ ~async -> "MissingRelayContext"
          [] guard = "best_effort" /\ async /\ RequireStrictGuard -> "ConfigurationRefused"
          [] OTHER -> "none"

\* The commit ends without asking the guard: the token has no catreplay
\* obligation and the request is authorized, or the guard is refused.
SkipCti(i) ==
    /\ At(i, "cti")
    /\ \/ /\ calls[i].pre.replay = "None"
          /\ calls' = [calls EXCEPT ![i] = Answered(calls[i], "Ok")]
       \/ /\ calls[i].pre.replay # "None"
          /\ GuardError(i) # "none"
          /\ calls' = [calls EXCEPT ![i] = Answered(calls[i], GuardError(i))]
    /\ UNCHANGED <<now, jtis, ctis, por>>

AsksGuard(i) == At(i, "cti") /\ calls[i].pre.replay # "None" /\ GuardError(i) = "none"

\* What check_and_record may answer, and whether it records: a strict guard
\* tells the truth and always records, a best-effort one may have forgotten.
GuardReplies(i) ==
    LET seen == calls[i].pre.cti \in ctis
    IN  {reply \in BOOLEAN \X BOOLEAN :
            /\ reply[1] => seen
            /\ calls[i].call.guard = "strict" => reply[2] /\ (seen => reply[1])}

\* The backend fails a check_and_record, before or after it has recorded.
CtiFails(i) ==
    /\ AsksGuard(i)
    /\ \/ /\ calls' = [calls EXCEPT ![i] = Answered(calls[i], "BackendUnavailable")]
          /\ UNCHANGED ctis
       \/ /\ LostAnswers
          /\ calls[i].pre.cti \notin ctis
          /\ ctis' = ctis \cup {calls[i].pre.cti}
          /\ calls' = [calls EXCEPT ![i] =
                           [Answered(calls[i], "BackendUnavailable") EXCEPT !.ctiBurned = TRUE]]
    /\ UNCHANGED <<now, jtis, por>>

\* Then the cti: a duplicate is an error for Prohibited, a flag for
\* ReuseDetection.
CommitCti(i) ==
    /\ AsksGuard(i)
    /\ \E reply \in GuardReplies(i) :
        /\ ctis' = IF reply[2] THEN ctis \cup {calls[i].pre.cti} ELSE ctis
        /\ calls' = [calls EXCEPT ![i] =
               IF reply[1] /\ calls[i].pre.replay = "Prohibited"
               THEN Answered(calls[i], "ReplayAttackDetected")
               ELSE [Answered(calls[i], "Ok") EXCEPT
                        !.reuse = reply[1], !.ctiBurned = reply[2] /\ calls[i].pre.cti \notin ctis]]
    /\ UNCHANGED <<now, jtis, por>>

\* The first half of authorize_offloaded runs on the blocking pool.
Offloading(i) ==
    /\ i \in DOMAIN calls
    /\ calls[i].call.path = "offloaded"
    /\ calls[i].pc \in {"por", "draw", "decide"}

\* The blocking task cannot be joined.
JoinFails(i) ==
    /\ Offloading(i)
    /\ calls' = [calls EXCEPT ![i] = Answered(calls[i], "BackendUnavailable")]
    /\ UNCHANGED <<now, jtis, ctis, por>>

\* The future of an async call is dropped at an await, its request to the
\* backend carried out or not.
Cancel(i) ==
    /\ i \in DOMAIN calls
    /\ calls[i].call.path \in AsyncPaths
    /\ \/ /\ At(i, "jti") \/ AsksGuard(i) \/ Offloading(i)
          /\ calls' = [calls EXCEPT ![i] = Answered(calls[i], "Cancelled")]
          /\ UNCHANGED <<jtis, ctis>>
       \/ /\ At(i, "jti")
          /\ calls[i].pre.jti \notin jtis[JtiStoreOf(i)]
          /\ calls' = [calls EXCEPT ![i] =
                           [Answered(calls[i], "Cancelled") EXCEPT !.jtiBurned = TRUE]]
          /\ jtis' = [jtis EXCEPT ![JtiStoreOf(i)] = @ \cup {calls[i].pre.jti}]
          /\ UNCHANGED ctis
       \/ /\ AsksGuard(i)
          /\ calls[i].pre.cti \notin ctis
          /\ calls' = [calls EXCEPT ![i] =
                           [Answered(calls[i], "Cancelled") EXCEPT !.ctiBurned = TRUE]]
          /\ ctis' = ctis \cup {calls[i].pre.cti}
          /\ UNCHANGED jtis
    /\ UNCHANGED <<now, por>>

RTick ==
    /\ now < MaxTime
    /\ now' = now + 1
    /\ UNCHANGED <<jtis, ctis, por, calls>>

-----------------------------------------------------------------------------
Step(i) == \/ PorLookup(i) \/ PorDraw(i) \/ Decide(i)
           \/ CommitJti(i) \/ JtiFails(i)
           \/ SkipCti(i) \/ CommitCti(i) \/ CtiFails(i) \/ JoinFails(i)

\* The calls that may come next: a solo call comes first and last.
Arriving ==
    IF calls = <<>> THEN Calls \cup Solo
    ELSE IF calls[1].call \in Calls THEN Calls ELSE {}

RNext ==
    \/ \E c \in Arriving : Begin(c)
    \/ \E i \in 1 .. MaxCalls : Step(i) \/ Cancel(i)
    \/ RTick

RSpec == RInit /\ [][RNext]_relayVars

-----------------------------------------------------------------------------
Errors == {"RevalidationRequired", "RevalidationIntervalTooShort", "InvalidClaimValue",
           "InvalidAudience", "MissingRequiredClaim", "MissingRelayContext",
           "GeographicValidationFailed", "RejectedByProbability", "KeyOperationFailed",
           "MoqtActionNotAuthorized", "DpopValidationFailed", "InvalidDpopBinding",
           "DpopAlgorithmNotSupported", "DpopKeyMismatch", "SignatureVerificationFailed",
           "ReplayAttackDetected", "BackendUnavailable", "ConfigurationRefused", "Cancelled"}

\* Every frame is well formed, and a call is over exactly when it has an answer.
RTypeOK ==
    /\ now \in StartTime .. MaxTime
    /\ DOMAIN jtis = Stores
    /\ \A l \in Lists : \A k \in DOMAIN por[l] : por[l][k].id \in PorIds
    /\ \A i \in DOMAIN calls :
        /\ calls[i].call \in Calls \cup Solo
        /\ calls[i].pc \in {"por", "draw", "decide", "jti", "cti", "done"}
        /\ calls[i].answer \in {"pending", "Ok"} \cup Errors
        /\ (calls[i].pc = "done") <=> (calls[i].answer # "pending")

Granted(i) == i \in DOMAIN calls /\ calls[i].answer = "Ok"

\* One DPoP proof grants at most one request per JTI store, whichever entry
\* points it is presented to, whatever fails or is dropped half way, and even
\* if the settings do not honour JTIs, once the operator requires tracking.
ProofGrantsOnce ==
    \A i, j \in DOMAIN calls :
        /\ Granted(i) /\ Granted(j)
        /\ calls[i].call.tok.cnf # Absent /\ calls[j].call.tok.cnf # Absent
        /\ Cfg.honor_jti \/ Cfg.require_dpop_replay_tracking
        /\ JtiStoreOf(i) = JtiStoreOf(j)
        /\ CommitKey(calls[i].call.ctx.proof, calls[i].call.tok.iss)
              = CommitKey(calls[j].call.ctx.proof, calls[j].call.tok.iss)
        => i = j

\* The calls whose guard does not forget: it is strict, or the validator was
\* told to insist on that.
Guarded(i) ==
    \/ calls[i].call.guard = "strict"
    \/ RequireStrictGuard /\ calls[i].call.path \in AsyncPaths

\* A token that demands replay protection is granted unflagged at most once:
\* every further use is refused (Prohibited) or flagged (ReuseDetection).
TokenGrantsOnce ==
    \A i, j \in DOMAIN calls :
        /\ Granted(i) /\ Granted(j)
        /\ MandatesGuard(calls[i].call.tok) /\ MandatesGuard(calls[j].call.tok)
        /\ Guarded(i) /\ Guarded(j)
        /\ calls[i].call.tok.cti = calls[j].call.tok.cti
        /\ ~calls[i].reuse /\ ~calls[j].reuse
        => i = j

\* The cti is the last thing a call puts on record: only a call that passed
\* every check and has committed its JTI consumes a token's cti, so a refused
\* request never costs the holder the token.
CtiIsLast ==
    \A i \in DOMAIN calls : calls[i].ctiBurned =>
        /\ calls[i].pre.jti # Absent => calls[i].jtiBurned
        /\ calls[i].answer \in {"Ok", "BackendUnavailable", "Cancelled"}

\* A call is refused as a replay only because of another call: one that put
\* the same JTI or the same cti on record before it. No retry inside the
\* pipeline ever trips over its own record.
ReplayNeedsEarlierUse ==
    \A i \in DOMAIN calls : calls[i].answer = "ReplayAttackDetected" =>
        \E j \in DOMAIN calls \ {i} :
            \/ /\ calls[j].jtiBurned
               /\ JtiStoreOf(j) = JtiStoreOf(i)
               /\ calls[j].pre.jti = calls[i].pre.jti
            \/ calls[j].ctiBurned /\ calls[j].pre.cti = calls[i].pre.cti

\* What a matcher asks of an element, byte by byte.
Fits(m, input) ==
    LET n == Len(m.pattern)
        d == Len(input) - n
    IN  CASE m.type = "Any" -> TRUE
          [] m.type = "Exact" -> d = 0 /\ \A k \in 1 .. n : input[k] = m.pattern[k]
          [] m.type = "Prefix" -> n > 0 /\ d >= 0 /\ \A k \in 1 .. n : input[k] = m.pattern[k]
          [] m.type = "Suffix" -> n > 0 /\ d >= 0 /\ \A k \in 1 .. n : input[d + k] = m.pattern[k]

\* The request is inside the scope.
Covers(scope, ctx) ==
    /\ ctx.action \in scope.actions
    /\ \A k \in DOMAIN scope.namespace_matches :
        LET m == scope.namespace_matches[k]
        IN  IF m = Nil THEN Len(ctx.namespace) < k
            ELSE k <= Len(ctx.namespace) /\ Fits(m, ctx.namespace[k])
    /\ scope.track_match # Absent => Fits(scope.track_match, ctx.track)

\* Some scope of the token covers the request, a bound token came with a proof
\* that its holder signed for this token and this action, and a token that
\* demands replay protection was given a guard.
Entitled(c) ==
    /\ c.tok.scopes # Absent /\ \E k \in DOMAIN c.tok.scopes : Covers(c.tok.scopes[k], c.ctx)
    /\ c.tok.cnf # Absent =>
        /\ c.ctx.proof.sigKey = c.tok.cnf
        /\ c.ctx.proof.ath = c.tok.hash
        /\ c.ctx.proof.action = c.ctx.action
    /\ MandatesGuard(c.tok) => c.guard # Absent

\* The code reads the request's URI as RFC 3986 does, if it reads it at all.
PlainUri(c) == c.tok.catu # Absent /\ c.ctx.uri # Absent => Ordinary(c.ctx.uri)

\* A granted request lacks nothing the token restricts, comes to a relay and
\* over a protocol and method the token names, and has the bindings the relay's
\* configuration insists on.
WithinPolicy(c) ==
    /\ Supplied(c.tok, c.ctx)
    /\ c.tok.catalpn # Absent => c.ctx.alpn \in c.tok.catalpn
    /\ c.tok.catm # Absent => c.ctx.method \in c.tok.catm
    /\ c.tok.aud # Absent => c.ctx.endpoint \in c.tok.aud
    /\ Cfg.require_audience_binding => c.tok.aud # Absent
    /\ Cfg.require_dpop => c.tok.cnf # Absent

\* Whoever is granted a request was entitled to it and inside the policy.
GrantIsEntitled == \A i \in DOMAIN calls : Granted(i) => Entitled(calls[i].call)
GrantIsWithinPolicy == \A i \in DOMAIN calls : Granted(i) => WithinPolicy(calls[i].call)

\* And the request meets every restriction of the token that
\* authorize_precommit enforces, in the meaning of RequestReference rather than
\* the one the enforcing code computes.
GrantIsWarranted ==
    /\ GrantIsEntitled
    /\ GrantIsWithinPolicy
    /\ \A i \in DOMAIN calls : Granted(i) /\ PlainUri(calls[i].call) =>
           Meets(calls[i].call.tok, calls[i].call.ctx)

\* No two headers of the request share a name the token has a rule for.
DistinctHeaders(c) ==
    \A h, k \in DOMAIN c.ctx.headers : Lower(c.ctx.headers[h][1]) = Lower(c.ctx.headers[k][1]) => h = k

\* The other way round: a request that meets every restriction is not refused
\* on account of one. (The errors below have other causes too, which the calls
\* considered here do not have.)
MetRestrictionsPass ==
    \A i \in DOMAIN calls :
        LET c == calls[i].call
        IN  /\ calls[i].answer \in {"MissingRelayContext", "InvalidClaimValue", "GeographicValidationFailed"}
            /\ PlainUri(c) /\ DistinctHeaders(c)
            /\ c.tok.catv <= 1 /\ c.tok.catpor = Absent /\ ~MandatesGuard(c.tok)
            => ~Meets(c.tok, c.ctx)

\* The documentation of normalize_uri and decompose_uri: they "normalize a URI
\* per RFC 3986" and refuse what could make the token's rules and the relay
\* disagree about it. So a granted request's URI, read as the RFC reads it,
\* meets the token's catu rules.
GrantMeetsCatu ==
    \A i \in DOMAIN calls : Granted(i) /\ calls[i].call.tok.catu # Absent =>
        CatuHolds(calls[i].call.tok.catu, calls[i].call.ctx.uri)

\* A proof is good for one request only: wherever else it is presented, and
\* even if that entry point commits to another JTI store, it can only grant
\* the same action on the same namespace and track with the same token.
ProofBindsRequest ==
    \A i, j \in DOMAIN calls :
        LET a == calls[i].call
            b == calls[j].call
        IN  /\ Granted(i) /\ Granted(j)
            /\ a.tok.cnf # Absent /\ b.tok.cnf # Absent
            /\ a.ctx.proof = b.ctx.proof
            => /\ a.tok.hash = b.tok.hash
               /\ a.ctx.action = b.ctx.action
               /\ ResourceShape(a.ctx.action) # "Endpoint" =>
                      a.ctx.namespace = b.ctx.namespace /\ a.ctx.track = b.ctx.track

\* Once a token's catpor id has been rejected by chance, no later call with
\* that id passes the lookup until the block has run out, unless enough other
\* ids have gone into its shard to push it out. authorize_offloaded
\* is left out: it takes its list by value and nobody sees the list again.
BlockHolds ==
    \A i \in DOMAIN calls : calls[i].call.path # "offloaded" => ~calls[i].leaked

-----------------------------------------------------------------------------
(* The inductive invariant behind them, first on a single frame f.         *)

\* The call has passed authorize_precommit, at some reading of the clock.
Passed(f) ==
    /\ f.pre = PreCommit(Cfg, f.call.tok, f.call.ctx)
    /\ \E at \in StartTime .. MaxTime :
           DecisionError(Cfg, f.call.tok, f.call.ctx, f.call.guarded, at) = "none"

FrameOK(f) ==
    /\ DOMAIN f = DOMAIN Fresh(f.call)
    /\ f.call \in Calls \cup Solo
    /\ f.pc \in {"por", "draw", "decide", "jti", "cti", "done"}
    /\ f.answer \in {"pending", "Ok"} \cup Errors
    /\ f.jtiBurned \in BOOLEAN /\ f.ctiBurned \in BOOLEAN
    /\ (f.pc = "done") <=> (f.answer # "pending")
    /\ f.pc \in {"por", "draw"} => f.call.tok.catpor # Absent /\ f.call.list # Absent

\* Nothing goes on record before the call has passed, and then the JTI, if
\* there is one, before the cti.
CommitsInOrder(f) ==
    /\ f.pc \in {"jti", "cti"} \/ f.answer = "Ok" \/ f.jtiBurned \/ f.ctiBurned => Passed(f)
    /\ f.pc \in {"por", "draw", "decide", "jti"} => ~f.jtiBurned
    /\ f.pc = "jti" => f.pre.jti # Absent
    /\ f.pc = "cti" \/ f.answer = "Ok" \/ f.ctiBurned => (f.pre.jti # Absent => f.jtiBurned)
    /\ f.ctiBurned => f.answer \in {"Ok", "BackendUnavailable", "Cancelled"}

\* A call that owes the guard an answer is granted only after asking it, and
\* unflagged by a guard that does not forget only if it was the first.
GuardAsked(f) ==
    f.answer = "Ok" /\ MandatesGuard(f.call.tok) =>
        /\ f.call.guard # Absent
        /\ \/ f.call.guard = "strict"
           \/ RequireStrictGuard /\ f.call.path \in AsyncPaths
           => f.reuse \/ f.ctiBurned

Frames ==
    \A i \in DOMAIN calls :
        FrameOK(calls[i]) /\ CommitsInOrder(calls[i]) /\ GuardAsked(calls[i])

\* The JTI stores hold what the calls have put there, and no two calls have
\* put the same.
JtiRecords ==
    /\ \A i \in DOMAIN calls : calls[i].jtiBurned => calls[i].pre.jti \in jtis[JtiStoreOf(i)]
    /\ \A s \in Stores : \A k \in jtis[s] : \E i \in DOMAIN calls :
           calls[i].jtiBurned /\ JtiStoreOf(i) = s /\ calls[i].pre.jti = k
    /\ \A i, j \in DOMAIN calls :
           /\ calls[i].jtiBurned /\ calls[j].jtiBurned
           /\ JtiStoreOf(i) = JtiStoreOf(j) /\ calls[i].pre.jti = calls[j].pre.jti
           => i = j

\* The same of the guard's backend.
CtiRecords ==
    /\ \A i \in DOMAIN calls : calls[i].ctiBurned => calls[i].pre.cti \in ctis
    /\ \A k \in ctis : \E i \in DOMAIN calls : calls[i].ctiBurned /\ calls[i].pre.cti = k
    /\ \A i, j \in DOMAIN calls :
           calls[i].ctiBurned /\ calls[j].ctiBurned /\ calls[i].pre.cti = calls[j].pre.cti => i = j

\* Every entry of a block list was put there by a call, no id has two, and an
\* id that has been put there and is gone was crowded out.
ListRecord(l) ==
    /\ DistinctIds(por[l])
    /\ \A p \in DOMAIN por[l] : \E k \in Blockers(l) :
           /\ calls[k].call.tok.catpor.id = por[l][p].id
           /\ calls[k].call.tok.catpor.exp = por[l][p].val
    /\ \A k \in Blockers(l) :
           LET id == calls[k].call.tok.catpor.id
           IN  Find(por[l], id) # 0 \/ Cardinality(Crowd(l, id)) >= PorCapacity

ListRecords == \A l \in Lists : ListRecord(l)

RInv ==
    /\ now \in StartTime .. MaxTime
    /\ DOMAIN jtis = Stores
    /\ calls \in Seq(Range(calls))
    /\ Frames
    /\ JtiRecords
    /\ CtiRecords
=============================================================================
