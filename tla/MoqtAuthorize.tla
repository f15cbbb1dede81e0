---------------------------- MODULE MoqtAuthorize ----------------------------
(***************************************************************************)
(* The decisions of MoqtValidator::authorize_precommit (src/src/moqt.rs),  *)
(* in the order the code takes them. The one step that touches shared      *)
(* state, catpor, comes between PolicyChecks and the rest and is in        *)
(* RelayAuthorize.                                                         *)
(*                                                                         *)
(* A token `tok` has the restrictions of RequestRestrictions, its other    *)
(* claims (reval catv aud cnf cattpk catpor catreplay cti scopes iss; cnf  *)
(* is the bound holder key) and hash, the hash of its wire bytes. A        *)
(* request context `ctx` has what the restrictions are about, endpoint,    *)
(* action, namespace, track, proof and nonce. A proof is that of DpopProof *)
(* with two further fields, nonce and resource ([endpoint, ns, track],     *)
(* endpoint Absent for a URI that does not parse). `cfg` is the            *)
(* validator's configuration.                                              *)
(***************************************************************************)
EXTENDS DpopProof, RequestRestrictions, SequencesExt

CONSTANT Nil  \* NamespaceMatch::Nil

-----------------------------------------------------------------------------
(* Scopes (src/src/claims.rs and MoqtValidator::scope_matches): which      *)
(* namespace tuples and tracks a scope covers. Byte strings are sequences. *)
(* A matcher is [type, pattern]; a namespace matcher is a matcher or Nil,  *)
(* which asks for the element to be missing. A scope is [actions,          *)
(* namespace_matches, track_match].                                        *)

\* Mutant: the empty prefix and suffix match everything.
BinaryMatchesEmptyPattern(m, input) ==
    CASE m.type = "Any" -> TRUE
      [] m.type = "Exact" -> input = m.pattern
      [] m.type = "Prefix" -> IsPrefix(m.pattern, input)
      [] m.type = "Suffix" -> IsSuffix(m.pattern, input)

\* BinaryMatch::matches. An empty prefix or suffix pattern matches nothing.
BinaryMatches(m, input) ==
    CASE m.type = "Any" -> TRUE
      [] m.type = "Exact" -> input = m.pattern
      [] m.type = "Prefix" -> m.pattern # <<>> /\ IsPrefix(m.pattern, input)
      [] m.type = "Suffix" -> m.pattern # <<>> /\ IsSuffix(m.pattern, input)

\* NamespaceMatch::matches; `element` is Absent past the end of the tuple.
NamespaceMatches(m, element) ==
    IF m = Nil \/ element = Absent
    THEN m = Nil /\ element = Absent
    ELSE BinaryMatches(m, element)

\* The i-th element of a tuple, or Absent.
Element(tuple, i) == IF i \in DOMAIN tuple THEN tuple[i] ELSE Absent

\* Every matcher of the scope is held against the element at its position; a
\* tuple longer than the list of matchers is not looked at any further.
ScopeMatches(scope, action, namespace, track) ==
    /\ action \in scope.actions
    /\ \A i \in DOMAIN scope.namespace_matches :
        NamespaceMatches(scope.namespace_matches[i], Element(namespace, i))
    /\ scope.track_match # Absent => BinaryMatches(scope.track_match, track)

\* match_scope_index: the first scope that matches, or 0.
MatchScopeIndex(scopes, action, namespace, track) ==
    IF scopes = Absent THEN 0
    ELSE SelectInSeq(scopes, LAMBDA s : ScopeMatches(s, action, namespace, track))

-----------------------------------------------------------------------------
(* The checks.                                                             *)

\* validate_moqt_claims.
MoqtClaimChecks(cfg, tok) == <<
    <<tok.reval # Absent => cfg.supports_revalidation, "RevalidationRequired">>,
    <<tok.reval # Absent /\ cfg.min_reval # Absent =>
          ~(tok.reval > 0 /\ tok.reval < cfg.min_reval), "RevalidationIntervalTooShort">> >>

BindingChecks(cfg, tok, ctx) == <<
    <<tok.catv # Absent => tok.catv <= 1, "InvalidClaimValue">>,
    <<tok.aud # Absent => ctx.endpoint \in tok.aud, "InvalidAudience">>,
    <<tok.aud = Absent => ~cfg.require_audience_binding, "MissingRequiredClaim">>,
    <<cfg.require_dpop => tok.cnf # Absent, "MissingRequiredClaim">>,
    <<cfg.require_cattpk => tok.cattpk # Absent, "MissingRequiredClaim">> >>

\* Steps 1 to 8b of authorize_precommit.
PolicyError(cfg, tok, ctx) ==
    OrElse(FirstError(MoqtClaimChecks(cfg, tok) \o BindingChecks(cfg, tok, ctx)),
           RestrictionError(tok, ctx))

-----------------------------------------------------------------------------
MandatesGuard(tok) == tok.catreplay \in {"Prohibited", "ReuseDetection"}

\* Step 10: `guarded` is what the caller says about having a replay guard.
ReplayChecks(tok, guarded) == <<
    <<MandatesGuard(tok) => guarded, "MissingRelayContext">>,
    <<MandatesGuard(tok) => tok.cti # Absent, "MissingRequiredClaim">> >>

\* Step 11.
ScopeIndex(tok, ctx) ==
    MatchScopeIndex(tok.scopes, ctx.action, ctx.namespace, ctx.track)

\* Mutant: the proof's namespace and track are not compared with the request's.
ActxChecksUnbound(p, ctx) == <<>>

\* The proof's namespace and track are the request's, except for the setups,
\* which have neither.
ActxChecks(p, ctx) ==
    IF ResourceShape(ctx.action) = "Endpoint" THEN <<>>
    ELSE << <<p.tns = ctx.namespace, "DpopValidationFailed">>,
            <<p.tn = ctx.track, "DpopValidationFailed">> >>

\* A resource URI, when there is one, parses, names this relay, agrees with
\* the proof's own namespace and track, and has the action's shape.
ResourceChecks(cfg, p, ctx) ==
    LET r == p.resource
        shape == ResourceShape(ctx.action)
    IN  << <<cfg.expected_resource # Absent => r = cfg.expected_resource,
             "DpopValidationFailed">> >>
        \o IF r = Absent THEN <<>>
           ELSE << <<r.endpoint # Absent, "DpopValidationFailed">>,
                   <<r.track # Absent => r.ns # Absent, "DpopValidationFailed">>,
                   <<r.endpoint = ctx.endpoint, "DpopValidationFailed">>,
                   <<r.ns # Absent => r.ns = p.tns, "DpopValidationFailed">>,
                   <<r.track # Absent => r.track = p.tn, "DpopValidationFailed">>,
                   <<(r.ns # Absent) <=> (shape # "Endpoint"), "DpopValidationFailed">>,
                   <<(r.track # Absent) <=> (shape = "Track"), "DpopValidationFailed">> >>

\* enforce_actx_shape, and the server's nonce when one was pinned.
ShapeChecks(p, ctx) == <<
    <<ActxShape(ctx.action, p.tns, p.tn), "DpopValidationFailed">>,
    <<ctx.nonce # Absent => p.nonce = ctx.nonce, "DpopValidationFailed">> >>

\* Step 12: proof of possession, for a token that is bound to a key.
DpopError(cfg, tok, ctx, at) ==
    IF tok.cnf = Absent THEN "none"
    ELSE IF ctx.proof = Absent \/ cfg.window = Absent THEN "DpopValidationFailed"
    ELSE IF ctx.proof.key # tok.cnf THEN "InvalidDpopBinding"
    ELSE OrElse(ValidateWithoutJtiCommit(ctx.proof,
                    [action |-> ctx.action, key |-> tok.cnf, ath |-> tok.hash],
                    cfg.window, at),
                FirstError(ActxChecks(ctx.proof, ctx)
                           \o ResourceChecks(cfg, ctx.proof, ctx)
                           \o ShapeChecks(ctx.proof, ctx)))

\* Steps 10 to 12, at one reading of the clock.
DecisionError(cfg, tok, ctx, guarded, at) ==
    OrElse(FirstError(ReplayChecks(tok, guarded)
                      \o << <<ScopeIndex(tok, ctx) # 0, "MoqtActionNotAuthorized">> >>),
           DpopError(cfg, tok, ctx, at))

\* Mutant: the operator's override is not consulted.
CommitsJtiDowngraded(cfg, tok) == tok.cnf # Absent /\ cfg.honor_jti

\* Is there a JTI to commit: the settings ask for it, or the operator does.
CommitsJti(cfg, tok) ==
    tok.cnf # Absent /\ (cfg.honor_jti \/ cfg.require_dpop_replay_tracking)

\* The PreCommit of a request that passed: what is left to commit.
PreCommit(cfg, tok, ctx) ==
    [scope_index |-> ScopeIndex(tok, ctx),
     jti |-> IF CommitsJti(cfg, tok) THEN CommitKey(ctx.proof, tok.iss) ELSE Absent,
     replay |-> IF MandatesGuard(tok) THEN tok.catreplay ELSE "None",
     cti |-> tok.cti,
     requires_revalidation |-> tok.reval # Absent /\ tok.reval > 0]
=============================================================================
