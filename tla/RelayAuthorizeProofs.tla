------------------------ MODULE RelayAuthorizeProofs ------------------------
(***************************************************************************)
(* Authorization at a relay, for any number of calls and tokens, any       *)
(* number of stores and block lists, every interleaving, and backends that *)
(* may fail or be abandoned at each step.                                  *)
(*                                                                         *)
(* Every step but the arrival of a call rewrites one frame. The lemmas     *)
(* about the actions reduce each of them to one of three moves: it puts    *)
(* nothing on record, or one new JTI, or one new cti. The invariants are   *)
(* then kept by the moves.                                                 *)
(***************************************************************************)
EXTENDS RelayAuthorize, LibraryProofs

Sound(f) == FrameOK(f) /\ CommitsInOrder(f) /\ GuardAsked(f)

FrameFields == {"call", "pc", "pre", "answer", "reuse", "own", "blocks", "leaked",
                "jtiBurned", "ctiBurned"}

\* Call i's frame becomes g.
Rewrites(i, g) ==
    /\ i \in DOMAIN calls
    /\ calls' = [calls EXCEPT ![i] = g]
    /\ g.call = calls[i].call
    /\ Sound(g)
    /\ now' = now

\* Nothing is put on record, and a replay is reported only of what was there.
KeepsRecords(i, g) ==
    /\ Rewrites(i, g)
    /\ UNCHANGED <<jtis, ctis>>
    /\ g.jtiBurned = calls[i].jtiBurned /\ g.ctiBurned = calls[i].ctiBurned
    /\ calls[i].jtiBurned \/ calls[i].ctiBurned => g.pre = calls[i].pre
    /\ g.answer = "ReplayAttackDetected" =>
           \/ ~g.jtiBurned /\ g.pre.jti \in jtis[JtiStoreOf(i)]
           \/ ~g.ctiBurned /\ g.pre.cti \in ctis

\* The call puts its JTI on record, which was not there before.
BurnsJti(i, g) ==
    /\ Rewrites(i, g)
    /\ calls[i].pre.jti \notin jtis[JtiStoreOf(i)]
    /\ jtis' = [jtis EXCEPT ![JtiStoreOf(i)] = @ \cup {calls[i].pre.jti}]
    /\ ctis' = ctis
    /\ ~calls[i].jtiBurned /\ g.jtiBurned /\ g.ctiBurned = calls[i].ctiBurned
    /\ g.pre = calls[i].pre
    /\ g.answer # "ReplayAttackDetected"

\* The call puts its cti on record, which was not there before.
BurnsCti(i, g) ==
    /\ Rewrites(i, g)
    /\ calls[i].pre.cti \notin ctis
    /\ ctis' = ctis \cup {calls[i].pre.cti}
    /\ jtis' = jtis
    /\ ~calls[i].ctiBurned /\ g.ctiBurned /\ g.jtiBurned = calls[i].jtiBurned
    /\ g.pre = calls[i].pre
    /\ g.answer # "ReplayAttackDetected"

Moves(i) == \E g : KeepsRecords(i, g) \/ BurnsJti(i, g) \/ BurnsCti(i, g)

-----------------------------------------------------------------------------
(* The checks of authorize_precommit.                                      *)

\* What authorize_precommit may answer.
Refusals == {"RevalidationRequired", "RevalidationIntervalTooShort", "InvalidClaimValue",
             "InvalidAudience", "MissingRequiredClaim", "MissingRelayContext",
             "GeographicValidationFailed", "MoqtActionNotAuthorized", "DpopValidationFailed",
             "InvalidDpopBinding", "DpopAlgorithmNotSupported", "DpopKeyMismatch",
             "SignatureVerificationFailed"}

\* A list of checks reports one of its own errors.
LEMMA ListRefuses ==
    ASSUME NEW checks, NEW n \in Nat, DOMAIN checks = 1 .. n,
           \A i \in DOMAIN checks : checks[i][2] \in Refusals
    PROVE  FirstError(checks) \in Refusals \cup {"none"}
<1>1. FirstError(checks) = "none" \/ \E i \in DOMAIN checks : FirstError(checks) = checks[i][2]
  BY ErrorIsOneOfTheChecks
<1>2. QED
  BY <1>1

\* The errors of the steps before catpor.
LEMMA PolicyRefuses ==
    ASSUME NEW cfg, NEW tok, NEW ctx
    PROVE  PolicyError(cfg, tok, ctx) \in Refusals \cup {"none"}
<1>1. FirstError(MoqtClaimChecks(cfg, tok) \o BindingChecks(cfg, tok, ctx))
          \in Refusals \cup {"none"}
  <2> DEFINE checks == MoqtClaimChecks(cfg, tok) \o BindingChecks(cfg, tok, ctx)
  <2>1. 7 \in Nat /\ DOMAIN checks = 1 .. 7
    BY DEF MoqtClaimChecks, BindingChecks
  <2>2. \A i \in 1 .. 7 : checks[i][2] \in Refusals
    BY DEF MoqtClaimChecks, BindingChecks, Refusals
  <2> HIDE DEF checks
  <2>3. QED
    BY <2>1, <2>2, ListRefuses DEF checks
<1>2. FirstError(CatalpnChecks(tok, ctx)) \in Refusals \cup {"none"}
  <2> DEFINE checks == CatalpnChecks(tok, ctx)
  <2>1. PICK n \in {0, 2} : DOMAIN checks = 1 .. n
    BY DEF CatalpnChecks
  <2>2. \A i \in DOMAIN checks : checks[i][2] \in Refusals
    BY DEF CatalpnChecks, Refusals
  <2>3. n \in Nat
    BY <2>1
  <2> HIDE DEF checks
  <2>4. QED
    BY <2>1, <2>2, <2>3, ListRefuses DEF checks
<1>3. \A uri : FirstError(UriChecks(uri)) \in Refusals \cup {"none"}
  <2> SUFFICES ASSUME NEW uri PROVE FirstError(UriChecks(uri)) \in Refusals \cup {"none"}
    OBVIOUS
  <2>1. 3 \in Nat /\ DOMAIN UriChecks(uri) = 1 .. 3
    BY DEF UriChecks
  <2>2. \A i \in 1 .. 3 : UriChecks(uri)[i][2] \in Refusals
    BY DEF UriChecks, Refusals
  <2>3. QED
    BY <2>1, <2>2, ListRefuses
<1>4. CatuError(tok, ctx) \in Refusals \cup {"none"}
  BY <1>3 DEF CatuError, DecomposeError, OrElse, Refusals
<1>5. FirstError(CatmChecks(tok, ctx)) \in Refusals \cup {"none"}
  <2> DEFINE checks == CatmChecks(tok, ctx)
  <2>1. PICK n \in {0, 2} : DOMAIN checks = 1 .. n
    BY DEF CatmChecks
  <2>2. \A i \in DOMAIN checks : checks[i][2] \in Refusals
    BY DEF CatmChecks, Refusals
  <2>3. n \in Nat
    BY <2>1
  <2> HIDE DEF checks
  <2>4. QED
    BY <2>1, <2>2, <2>3, ListRefuses DEF checks
<1>6. CathError(tok, ctx) \in Refusals \cup {"none"}
  BY DEF CathError, Refusals
<1>7. FirstError(CatnipChecks(tok, ctx) \o GeoChecks(tok, ctx)) \in Refusals \cup {"none"}
  <2> DEFINE checks == CatnipChecks(tok, ctx) \o GeoChecks(tok, ctx)
  <2>1. PICK n \in {3, 4, 9} : DOMAIN checks = 1 .. n
    BY DEF CatnipChecks, GeoChecks
  <2>2. \A i \in DOMAIN checks : checks[i][2] \in Refusals
    BY DEF CatnipChecks, GeoChecks, Refusals
  <2>3. n \in Nat
    BY <2>1
  <2> HIDE DEF checks
  <2>4. QED
    BY <2>1, <2>2, <2>3, ListRefuses DEF checks
<1>8. QED
  BY <1>1, <1>2, <1>4, <1>5, <1>6, <1>7 DEF PolicyError, RestrictionError, OrElse

\* The three lists of steps 10 to 12.
ClaimList(tok, ctx, guarded) ==
    ReplayChecks(tok, guarded) \o << <<ScopeIndex(tok, ctx) # 0, "MoqtActionNotAuthorized">> >>
ProofList(cfg, tok, ctx, at) ==
    LET req == [action |-> ctx.action, key |-> tok.cnf, ath |-> tok.hash]
    IN  PreSigChecks(ctx.proof, req, cfg.window, at) \o SignatureChecks(ctx.proof, req)
ContextList(cfg, ctx) ==
    ActxChecks(ctx.proof, ctx) \o ResourceChecks(cfg, ctx.proof, ctx) \o ShapeChecks(ctx.proof, ctx)

\* The claims and the scope.
LEMMA ClaimListChecks ==
    ASSUME NEW tok, NEW ctx, NEW guarded
    PROVE  LET checks == ClaimList(tok, ctx, guarded)
           IN  /\ DOMAIN checks = 1 .. 3 /\ \A i \in 1 .. 3 : checks[i][2] \in Refusals
               /\ checks[3][1] = (ScopeIndex(tok, ctx) # 0)
BY DEF ClaimList, ReplayChecks, Refusals

\* The proof of possession.
LEMMA ProofListChecks ==
    ASSUME NEW cfg, NEW tok, NEW ctx, NEW at
    PROVE  LET checks == ProofList(cfg, tok, ctx, at)
           IN  /\ DOMAIN checks = 1 .. 10 /\ \A i \in 1 .. 10 : checks[i][2] \in Refusals
               /\ checks[5][1] = (ctx.proof.action = ctx.action)
               /\ checks[7][1] = (tok.hash # Absent => ctx.proof.ath = tok.hash)
               /\ checks[10][1] = (ctx.proof.sigKey = ctx.proof.key)
<1> DEFINE checks == ProofList(cfg, tok, ctx, at)
<1>1. DOMAIN checks = 1 .. 10
  BY DEF ProofList, PreSigChecks, SignatureChecks
<1>2. \A i \in 1 .. 10 : checks[i][2] \in Refusals
  BY DEF ProofList, PreSigChecks, SignatureChecks, Refusals
<1>3. checks[5][1] = (ctx.proof.action = ctx.action)
  BY DEF ProofList, PreSigChecks, SignatureChecks
<1>4. checks[7][1] = (tok.hash # Absent => ctx.proof.ath = tok.hash)
  BY DEF ProofList, PreSigChecks, SignatureChecks
<1>5. checks[10][1] = (ctx.proof.sigKey = ctx.proof.key)
  BY DEF ProofList, PreSigChecks, SignatureChecks
<1>6. QED
  BY <1>1, <1>2, <1>3, <1>4, <1>5

\* The checks a proof of possession has to pass after its own.
LEMMA ContextListChecks ==
    ASSUME NEW cfg, NEW ctx
    PROVE  LET checks == ContextList(cfg, ctx)
           IN  /\ \E n \in Nat : DOMAIN checks = 1 .. n
               /\ \A i \in DOMAIN checks : checks[i][2] \in Refusals
               /\ ResourceShape(ctx.action) # "Endpoint" =>
                      /\ 1 \in DOMAIN checks /\ checks[1][1] = (ctx.proof.tns = ctx.namespace)
                      /\ 2 \in DOMAIN checks /\ checks[2][1] = (ctx.proof.tn = ctx.track)
<1> DEFINE checks == ContextList(cfg, ctx)
<1> USE DEF ContextList, ActxChecks, ResourceChecks, ShapeChecks
<1>1. CASE ResourceShape(ctx.action) = "Endpoint" /\ ctx.proof.resource = Absent
  BY <1>1 DEF Refusals
<1>2. CASE ResourceShape(ctx.action) = "Endpoint" /\ ctx.proof.resource # Absent
  <2>1. 10 \in Nat /\ DOMAIN checks = 1 .. 10
    BY <1>2
  <2>2. \A i \in 1 .. 10 : checks[i][2] = "DpopValidationFailed"
    BY <1>2
  <2> HIDE DEF ContextList
  <2>3. QED
    BY <1>2, <2>1, <2>2 DEF Refusals
<1>3. CASE ResourceShape(ctx.action) # "Endpoint" /\ ctx.proof.resource = Absent
  BY <1>3 DEF Refusals
<1>4. CASE ResourceShape(ctx.action) # "Endpoint" /\ ctx.proof.resource # Absent
  <2>1. 12 \in Nat /\ DOMAIN checks = 1 .. 12
    BY <1>4
  <2>2. \A i \in 1 .. 12 : checks[i][2] = "DpopValidationFailed"
    BY <1>4
  <2>3. /\ checks[1][1] = (ctx.proof.tns = ctx.namespace)
        /\ checks[2][1] = (ctx.proof.tn = ctx.track)
    BY <1>4
  <2> HIDE DEF ContextList
  <2>4. QED
    BY <2>1, <2>2, <2>3 DEF Refusals
<1>5. QED
  BY <1>1, <1>2, <1>3, <1>4

\* The errors of the decision.
LEMMA DecisionRefuses ==
    ASSUME NEW cfg, NEW tok, NEW ctx, NEW guarded, NEW at
    PROVE  DecisionError(cfg, tok, ctx, guarded, at) \in Refusals \cup {"none"}
<1> DEFINE first == ClaimList(tok, ctx, guarded)
           proof == ProofList(cfg, tok, ctx, at)
           context == ContextList(cfg, ctx)
<1>1. /\ DOMAIN first = 1 .. 3 /\ \A i \in 1 .. 3 : first[i][2] \in Refusals
      /\ DOMAIN proof = 1 .. 10 /\ \A i \in 1 .. 10 : proof[i][2] \in Refusals
      /\ 3 \in Nat /\ 10 \in Nat
  BY ClaimListChecks, ProofListChecks
<1>2. PICK n \in Nat : DOMAIN context = 1 .. n
  BY ContextListChecks
<1>3. \A i \in DOMAIN context : context[i][2] \in Refusals
  BY ContextListChecks
<1>4. DecisionError(cfg, tok, ctx, guarded, at)
          \in {FirstError(first), FirstError(proof), FirstError(context), "none",
               "DpopValidationFailed", "InvalidDpopBinding"}
  BY DEF DecisionError, DpopError, ValidateWithoutJtiCommit, OrElse, ClaimList, ProofList,
         ContextList
<1>5. "DpopValidationFailed" \in Refusals /\ "InvalidDpopBinding" \in Refusals
  BY DEF Refusals
<1> HIDE DEF first, proof, context
<1>6. /\ FirstError(first) \in Refusals \cup {"none"}
      /\ FirstError(proof) \in Refusals \cup {"none"}
      /\ FirstError(context) \in Refusals \cup {"none"}
  BY <1>1, <1>2, <1>3, ListRefuses
<1>7. QED
  BY <1>4, <1>5, <1>6

\* A list of checks that passes has no check that fails.
LEMMA ListPasses ==
    ASSUME NEW checks, NEW n \in Nat, DOMAIN checks = 1 .. n,
           \A i \in DOMAIN checks : checks[i][2] \in Refusals,
           FirstError(checks) = "none"
    PROVE  \A i \in DOMAIN checks : checks[i][1]
<1>1. "none" \notin Refusals
  BY DEF Refusals
<1>2. QED
  BY <1>1, NoErrorMeansAllPass

\* What a request that passed the decision has shown: a scope covers it, and
\* the holder of a bound token signed for this token and for this request.
LEMMA DecisionPasses ==
    ASSUME NEW cfg, NEW tok, NEW ctx, NEW guarded, NEW at,
           DecisionError(cfg, tok, ctx, guarded, at) = "none"
    PROVE  /\ ScopeIndex(tok, ctx) # 0
           /\ tok.cnf # Absent =>
                  /\ ctx.proof # Absent
                  /\ ctx.proof.key = tok.cnf /\ ctx.proof.sigKey = tok.cnf
                  /\ tok.hash # Absent => ctx.proof.ath = tok.hash
                  /\ ctx.proof.action = ctx.action
                  /\ ResourceShape(ctx.action) # "Endpoint" =>
                         ctx.proof.tns = ctx.namespace /\ ctx.proof.tn = ctx.track
<1> DEFINE first == ClaimList(tok, ctx, guarded)
           proof == ProofList(cfg, tok, ctx, at)
           context == ContextList(cfg, ctx)
<1>1. /\ DOMAIN first = 1 .. 3 /\ \A i \in 1 .. 3 : first[i][2] \in Refusals
      /\ first[3][1] = (ScopeIndex(tok, ctx) # 0)
      /\ DOMAIN proof = 1 .. 10 /\ \A i \in 1 .. 10 : proof[i][2] \in Refusals
      /\ proof[5][1] = (ctx.proof.action = ctx.action)
      /\ proof[7][1] = (tok.hash # Absent => ctx.proof.ath = tok.hash)
      /\ proof[10][1] = (ctx.proof.sigKey = ctx.proof.key)
      /\ 3 \in Nat /\ 10 \in Nat
  BY ClaimListChecks, ProofListChecks
<1>2. PICK n \in Nat : DOMAIN context = 1 .. n
  BY ContextListChecks
<1>3. /\ \A i \in DOMAIN context : context[i][2] \in Refusals
      /\ ResourceShape(ctx.action) # "Endpoint" =>
             /\ 1 \in DOMAIN context /\ context[1][1] = (ctx.proof.tns = ctx.namespace)
             /\ 2 \in DOMAIN context /\ context[2][1] = (ctx.proof.tn = ctx.track)
  BY ContextListChecks
<1>4. /\ FirstError(first) = "none"
      /\ tok.cnf # Absent => /\ ctx.proof # Absent /\ ctx.proof.key = tok.cnf
                             /\ FirstError(proof) = "none" /\ FirstError(context) = "none"
  BY DEF DecisionError, DpopError, ValidateWithoutJtiCommit, OrElse, ClaimList, ProofList,
         ContextList
<1> HIDE DEF first, proof, context
<1>5. \A i \in 1 .. 3 : first[i][1]
  BY <1>1, <1>4, ListPasses
<1>6. 3 \in 1 .. 3 /\ 5 \in 1 .. 10 /\ 7 \in 1 .. 10 /\ 10 \in 1 .. 10
  OBVIOUS
<1>7. ScopeIndex(tok, ctx) # 0
  BY <1>1, <1>5, <1>6, Zenon
<1>8. ASSUME tok.cnf # Absent
      PROVE  /\ ctx.proof # Absent
             /\ ctx.proof.key = tok.cnf /\ ctx.proof.sigKey = tok.cnf
             /\ tok.hash # Absent => ctx.proof.ath = tok.hash
             /\ ctx.proof.action = ctx.action
             /\ ResourceShape(ctx.action) # "Endpoint" =>
                    ctx.proof.tns = ctx.namespace /\ ctx.proof.tn = ctx.track
  <2>1. \A i \in 1 .. 10 : proof[i][1]
    BY <1>1, <1>4, <1>8, ListPasses
  <2>2. /\ ctx.proof.action = ctx.action
        /\ tok.hash # Absent => ctx.proof.ath = tok.hash
        /\ ctx.proof.sigKey = ctx.proof.key
    BY <1>1, <1>6, <2>1, Zenon
  <2>3. \A i \in DOMAIN context : context[i][1]
    BY <1>2, <1>3, <1>4, <1>8, ListPasses
  <2>4. ResourceShape(ctx.action) # "Endpoint" =>
            ctx.proof.tns = ctx.namespace /\ ctx.proof.tn = ctx.track
    BY <1>3, <2>3, Zenon
  <2>5. QED
    BY <1>4, <1>8, <2>2, <2>4
<1>9. QED
  BY <1>7, <1>8

\* What a request that passed the steps before catpor has shown.
LEMMA PolicyPasses ==
    ASSUME NEW tok, NEW ctx, PolicyError(Cfg, tok, ctx) = "none",
           tok.catnip # Absent => \A n \in tok.catnip : IsIpBased(n) \/ IsAsnBased(n)
    PROVE  /\ Supplied(tok, ctx)
           /\ tok.catalpn # Absent => ctx.alpn \in tok.catalpn
           /\ tok.catm # Absent => ctx.method \in tok.catm
           /\ tok.aud # Absent => ctx.endpoint \in tok.aud
           /\ Cfg.require_audience_binding => tok.aud # Absent
           /\ Cfg.require_dpop => tok.cnf # Absent
<1> DEFINE binding == MoqtClaimChecks(Cfg, tok) \o BindingChecks(Cfg, tok, ctx)
           alpn == CatalpnChecks(tok, ctx)
           method == CatmChecks(tok, ctx)
           place == CatnipChecks(tok, ctx) \o GeoChecks(tok, ctx)
<1>1. /\ FirstError(binding) = "none" /\ FirstError(alpn) = "none"
      /\ CatuError(tok, ctx) = "none" /\ FirstError(method) = "none"
      /\ FirstError(place) = "none"
  BY DEF PolicyError, RestrictionError, OrElse
<1>2. /\ tok.aud # Absent => ctx.endpoint \in tok.aud
      /\ Cfg.require_audience_binding => tok.aud # Absent
      /\ Cfg.require_dpop => tok.cnf # Absent
  <2>1. 7 \in Nat /\ DOMAIN binding = 1 .. 7
    BY DEF MoqtClaimChecks, BindingChecks
  <2>2. \A i \in 1 .. 7 : binding[i][2] \in Refusals
    BY DEF MoqtClaimChecks, BindingChecks, Refusals
  <2>3. /\ binding[4][1] = (tok.aud # Absent => ctx.endpoint \in tok.aud)
        /\ binding[5][1] = (tok.aud = Absent => ~Cfg.require_audience_binding)
        /\ binding[6][1] = (Cfg.require_dpop => tok.cnf # Absent)
    BY DEF MoqtClaimChecks, BindingChecks
  <2>4. 4 \in 1 .. 7 /\ 5 \in 1 .. 7 /\ 6 \in 1 .. 7
    OBVIOUS
  <2> HIDE DEF binding
  <2>5. \A i \in 1 .. 7 : binding[i][1]
    BY <1>1, <2>1, <2>2, ListPasses
  <2>6. QED
    BY <2>3, <2>4, <2>5, Zenon
<1>3. tok.catalpn # Absent => ctx.alpn # Absent /\ ctx.alpn \in tok.catalpn
  <2> SUFFICES ASSUME tok.catalpn # Absent
               PROVE  ctx.alpn # Absent /\ ctx.alpn \in tok.catalpn
    OBVIOUS
  <2>1. /\ 2 \in Nat /\ DOMAIN alpn = 1 .. 2 /\ 1 \in 1 .. 2 /\ 2 \in 1 .. 2
        /\ \A i \in 1 .. 2 : alpn[i][2] \in Refusals
        /\ alpn[1][1] = (ctx.alpn # Absent) /\ alpn[2][1] = (ctx.alpn \in tok.catalpn)
    BY DEF CatalpnChecks, Refusals
  <2> HIDE DEF alpn
  <2>2. \A i \in 1 .. 2 : alpn[i][1]
    BY <1>1, <2>1, ListPasses
  <2>3. QED
    BY <2>1, <2>2, Zenon
<1>4. tok.catm # Absent => ctx.method # Absent /\ ctx.method \in tok.catm
  <2> SUFFICES ASSUME tok.catm # Absent
               PROVE  ctx.method # Absent /\ ctx.method \in tok.catm
    OBVIOUS
  <2>1. /\ 2 \in Nat /\ DOMAIN method = 1 .. 2 /\ 1 \in 1 .. 2 /\ 2 \in 1 .. 2
        /\ \A i \in 1 .. 2 : method[i][2] \in Refusals
        /\ method[1][1] = (ctx.method # Absent) /\ method[2][1] = (ctx.method \in tok.catm)
    BY DEF CatmChecks, Refusals
  <2> HIDE DEF method
  <2>2. \A i \in 1 .. 2 : method[i][1]
    BY <1>1, <2>1, ListPasses
  <2>3. QED
    BY <2>1, <2>2, Zenon
<1>5. tok.catu # Absent => ctx.uri # Absent
  BY <1>1 DEF CatuError
<1> DEFINE nips == IF tok.catnip = Absent THEN {} ELSE tok.catnip
           iso == Restricts(tok.catgeoiso3166)
           coord == Restricts(tok.catgeocoord)
           hash == Restricts(tok.geohash)
<1>6. \A i \in DOMAIN place : place[i][1]
  <2>1. PICK n \in {3, 4, 9} : DOMAIN place = 1 .. n
    BY DEF CatnipChecks, GeoChecks
  <2>2. \A i \in DOMAIN place : place[i][2] \in Refusals
    BY SMTT(20) DEF CatnipChecks, GeoChecks, Refusals
  <2>3. n \in Nat
    BY <2>1
  <2> HIDE DEF place
  <2>4. QED
    BY <1>1, <2>1, <2>2, <2>3, ListPasses
<1>7. /\ (\E n \in nips : IsIpBased(n)) => ctx.ip # Absent
      /\ (\E n \in nips : IsAsnBased(n)) => ctx.asn # Absent
  <2>1. /\ 1 \in DOMAIN place /\ place[1][1] = ((\E n \in nips : IsIpBased(n)) => ctx.ip # Absent)
        /\ 2 \in DOMAIN place /\ place[2][1] = ((\E n \in nips : IsAsnBased(n)) => ctx.asn # Absent)
    BY DEF CatnipChecks, GeoChecks
  <2> HIDE DEF place
  <2>2. QED
    BY <1>6, <2>1, Zenon
<1>8. ASSUME iso \/ coord \/ hash
      PROVE  /\ ctx.location # Absent
             /\ iso => ctx.location.country # Absent
             /\ coord => ctx.location.lat # Absent /\ ctx.location.lon # Absent
             /\ hash => ctx.location.geohash # Absent
  <2>1. ctx.location # Absent
    <3> SUFFICES ASSUME ctx.location = Absent PROVE FALSE
      OBVIOUS
    <3>1. 4 \in DOMAIN place /\ ~place[4][1]
      <4>1. GeoChecks(tok, ctx) = << <<FALSE, "MissingRelayContext">> >>
        BY <1>8 DEF GeoChecks
      <4> DEFINE missing == <<FALSE, "MissingRelayContext">>
                 refused == CatnipChecks(tok, ctx) \o <<missing>>
      <4>2. place = refused
        BY <4>1, Zenon
      <4>3. missing[1] = FALSE
        OBVIOUS
      <4> HIDE DEF missing
      <4>4. 4 \in DOMAIN refused /\ refused[4] = missing
        BY DEF CatnipChecks
      <4> HIDE DEF place, refused
      <4>5. QED
        BY <4>2, <4>3, <4>4, Zenon
    <3> HIDE DEF place
    <3>2. QED
      BY <1>6, <3>1, Zenon
  <2>2. /\ 4 \in DOMAIN place /\ place[4][1] = (iso => ctx.location.country # Absent)
        /\ 6 \in DOMAIN place
        /\ place[6][1] = (coord => ctx.location.lat # Absent /\ ctx.location.lon # Absent)
        /\ 8 \in DOMAIN place /\ place[8][1] = (hash => ctx.location.geohash # Absent)
    BY <1>8, <2>1 DEF CatnipChecks, GeoChecks
  <2> HIDE DEF place, iso, coord, hash
  <2>3. QED
    BY <1>6, <2>1, <2>2, Zenon
<1>9. Supplied(tok, ctx)
  <2>1. tok.catnip # Absent => \A n \in tok.catnip :
            IF IsIpBased(n) THEN ctx.ip # Absent ELSE ctx.asn # Absent
    BY <1>7
  <2>2. QED
    BY <1>3, <1>4, <1>5, <1>8, <2>1 DEF Supplied
<1>10. QED
  BY <1>2, <1>3, <1>4, <1>9

-----------------------------------------------------------------------------
(* The actions are moves.                                                  *)

\* The fields of a frame that has been answered.
LEMMA AnsweredFrame ==
    ASSUME NEW f, FrameOK(f), NEW r
    PROVE  /\ DOMAIN f = FrameFields /\ DOMAIN Answered(f, r) = FrameFields
           /\ Answered(f, r).pc = "done" /\ Answered(f, r).answer = r
           /\ Answered(f, r).call = f.call /\ Answered(f, r).pre = f.pre
           /\ Answered(f, r).jtiBurned = f.jtiBurned /\ Answered(f, r).ctiBurned = f.ctiBurned
           /\ Answered(f, r).reuse = f.reuse
<1>1. DOMAIN f = FrameFields
  BY DEF FrameOK, Fresh, FrameFields
<1>2. QED
  BY <1>1 DEF Answered, FrameFields

\* Two frames of the same call with the same things on record.
SameRecord(f, g) ==
    /\ DOMAIN g = FrameFields
    /\ g.call = f.call /\ g.pre = f.pre
    /\ g.jtiBurned = f.jtiBurned /\ g.ctiBurned = f.ctiBurned

\* A call that has not been answered moves on to the draw or to the decision,
\* or is refused, for a reason other than a replay.
LEMMA QuietMove ==
    ASSUME Frames, NEW i \in DOMAIN calls, calls[i].pc # "done", NEW g, SameRecord(calls[i], g),
           \/ g.pc = "done" /\ g.answer \in Errors \ {"ReplayAttackDetected"}
           \/ /\ calls[i].pc \in {"por", "draw"} /\ g.pc \in {"draw", "decide"}
              /\ g.answer = calls[i].answer,
           calls' = [calls EXCEPT ![i] = g],
           UNCHANGED <<now, jtis, ctis>>
    PROVE  Moves(i)
<1> DEFINE f == calls[i]
<1>1. FrameOK(f) /\ CommitsInOrder(f)
  BY DEF Frames
<1>2. /\ g.call = f.call /\ g.pre = f.pre
      /\ g.jtiBurned = f.jtiBurned /\ g.ctiBurned = f.ctiBurned
      /\ DOMAIN g = FrameFields
  BY DEF SameRecord
<1>3. "Ok" \notin Errors /\ "pending" \notin Errors
  BY DEF Errors
<1>4. f.answer = "pending" /\ ~f.ctiBurned
  BY <1>1 DEF FrameOK, CommitsInOrder
<1>5. FrameOK(g)
  BY <1>1, <1>2, <1>3, <1>4 DEF FrameOK, Fresh, FrameFields
<1>6. CommitsInOrder(g)
  BY <1>1, <1>2, <1>3, <1>4 DEF CommitsInOrder, Passed
<1>7. GuardAsked(g)
  BY <1>3, <1>4 DEF GuardAsked
<1>8. KeepsRecords(i, g)
  BY <1>2, <1>3, <1>4, <1>5, <1>6, <1>7 DEF KeepsRecords, Rewrites, Sound
<1>9. QED
  BY <1>8 DEF Moves

\* So does a plain refusal.
LEMMA RefusalMove ==
    ASSUME Frames, NEW i \in DOMAIN calls, NEW r \in Errors \ {"ReplayAttackDetected"},
           calls[i].pc # "done",
           calls' = [calls EXCEPT ![i] = Answered(calls[i], r)],
           UNCHANGED <<now, jtis, ctis>>
    PROVE  Moves(i)
<1>1. FrameOK(calls[i])
  BY DEF Frames
<1>2. SameRecord(calls[i], Answered(calls[i], r))
  BY <1>1, AnsweredFrame DEF SameRecord
<1>3. Answered(calls[i], r).pc = "done" /\ Answered(calls[i], r).answer = r
  BY <1>1, AnsweredFrame
<1>4. QED
  BY <1>2, <1>3, QuietMove

\* The two halves of enforce_catpor.
LEMMA PorMoves ==
    ASSUME Frames, NEW i, PorLookup(i) \/ PorDraw(i)
    PROVE  Moves(i)
<1> DEFINE f == calls[i]
<1>1. /\ i \in DOMAIN calls /\ f.pc \in {"por", "draw"} /\ FrameOK(f)
      /\ UNCHANGED <<now, jtis, ctis>>
  BY DEF PorLookup, PorDraw, At, Frames
<1>2. ASSUME NEW g, SameRecord(f, g), NEW l, PutList(i, g, l),
             \/ g.pc = "done" /\ g.answer \in Errors \ {"ReplayAttackDetected"}
             \/ g.pc \in {"draw", "decide"} /\ g.answer = f.answer
      PROVE  Moves(i)
  <2> DEFINE h == [g EXCEPT !.own = l]
  <2>1. SameRecord(f, h) /\ h.pc = g.pc /\ h.answer = g.answer
    BY <1>2 DEF SameRecord, FrameFields
  <2>2. calls' = [calls EXCEPT ![i] = g] \/ calls' = [calls EXCEPT ![i] = h]
    BY <1>2 DEF PutList
  <2> HIDE DEF h
  <2>3. QED
    BY <1>1, <1>2, <2>1, <2>2, QuietMove
<1>3. "RejectedByProbability" \in Errors \ {"ReplayAttackDetected"}
      /\ "KeyOperationFailed" \in Errors \ {"ReplayAttackDetected"}
  BY DEF Errors
<1>4. ASSUME NEW r
      PROVE  /\ SameRecord(f, Answered(f, r))
             /\ Answered(f, r).pc = "done" /\ Answered(f, r).answer = r
  BY <1>1, AnsweredFrame DEF SameRecord
<1>5. DOMAIN f = FrameFields
  BY <1>1, AnsweredFrame
<1>6. CASE PorLookup(i)
  <2>1. PICK b, l : \/ PutList(i, Answered(f, "RejectedByProbability"), l)
                    \/ PutList(i, [f EXCEPT !.pc = "draw", !.leaked = b], l)
    BY <1>6 DEF PorLookup
  <2> DEFINE g == [f EXCEPT !.pc = "draw", !.leaked = b]
  <2>2. SameRecord(f, g) /\ g.pc = "draw" /\ g.answer = f.answer
    BY <1>5 DEF SameRecord, FrameFields
  <2> HIDE DEF g
  <2>3. PutList(i, Answered(f, "RejectedByProbability"), l) \/ PutList(i, g, l)
    BY <2>1 DEF g
  <2>4. QED
    BY <1>2, <1>3, <1>4, <2>2, <2>3
<1>7. CASE PorDraw(i)
  <2> DEFINE g == [f EXCEPT !.pc = "decide"]
             h == [Answered(f, "RejectedByProbability") EXCEPT !.blocks = TRUE]
  <2>1. PICK l : \/ PutList(i, Answered(f, "KeyOperationFailed"), l)
                 \/ PutList(i, g, l)
                 \/ PutList(i, h, l)
    BY <1>7 DEF PorDraw
  <2>2. SameRecord(f, g) /\ g.pc = "decide" /\ g.answer = f.answer
    BY <1>5 DEF SameRecord, FrameFields
  <2>3. SameRecord(f, h) /\ h.pc = "done" /\ h.answer = "RejectedByProbability"
    BY <1>4 DEF SameRecord, FrameFields
  <2> HIDE DEF g, h
  <2>4. QED
    BY <1>2, <1>3, <1>4, <2>1, <2>2, <2>3
<1>8. QED
  BY <1>6, <1>7

\* What is known of a frame that is still under way.
LEMMA OpenFrame ==
    ASSUME Frames, NEW i \in DOMAIN calls, calls[i].pc # "done"
    PROVE  /\ FrameOK(calls[i]) /\ CommitsInOrder(calls[i])
           /\ DOMAIN calls[i] = FrameFields
           /\ calls[i].answer = "pending" /\ ~calls[i].ctiBurned
           /\ calls[i].pc \in {"jti", "cti"} => Passed(calls[i])
<1>1. FrameOK(calls[i]) /\ CommitsInOrder(calls[i])
  BY DEF Frames
<1>2. QED
  BY <1>1, AnsweredFrame DEF FrameOK, CommitsInOrder

\* Steps 10 to 12.
LEMMA DecideMoves ==
    ASSUME Frames, now \in StartTime .. MaxTime, NEW i, Decide(i)
    PROVE  Moves(i)
<1> DEFINE f == calls[i]
           c == calls[i].call
           e == DecisionError(Cfg, c.tok, c.ctx, c.guarded, now)
           pre == PreCommit(Cfg, c.tok, c.ctx)
           g == [f EXCEPT !.pre = pre, !.pc = IF pre.jti = Absent THEN "cti" ELSE "jti"]
<1>1. /\ i \in DOMAIN calls /\ f.pc = "decide"
      /\ UNCHANGED <<now, jtis, ctis>>
      /\ calls' = [calls EXCEPT ![i] = IF e # "none" THEN Answered(f, e) ELSE g]
  BY DEF Decide, At
<1>2. /\ FrameOK(f) /\ DOMAIN f = FrameFields /\ f.answer = "pending" /\ ~f.ctiBurned
      /\ ~f.jtiBurned
  BY <1>1, OpenFrame DEF CommitsInOrder
<1>3. CASE e # "none"
  <2>1. e \in Errors \ {"ReplayAttackDetected"}
    <3>1. e \in Refusals
      BY <1>3, DecisionRefuses
    <3> HIDE DEF e
    <3>2. QED
      BY <3>1 DEF Refusals, Errors
  <2>2. calls' = [calls EXCEPT ![i] = Answered(f, e)]
    BY <1>1, <1>3
  <2> HIDE DEF e
  <2>3. QED
    BY <1>1, <2>1, <2>2, RefusalMove
<1>4. CASE e = "none"
  <2>1. calls' = [calls EXCEPT ![i] = g]
    BY <1>1, <1>4
  <2> HIDE DEF pre
  <2>2. /\ DOMAIN g = FrameFields /\ g.call = f.call /\ g.pre = pre /\ g.answer = f.answer
        /\ g.jtiBurned = f.jtiBurned /\ g.ctiBurned = f.ctiBurned
        /\ g.pc = IF pre.jti = Absent THEN "cti" ELSE "jti"
    BY <1>2 DEF FrameFields
  <2> HIDE DEF g
  <2>3. Passed(g)
    BY <1>4, <2>2 DEF Passed, pre
  <2>4. FrameOK(g)
    BY <1>2, <2>2 DEF FrameOK, Fresh, FrameFields
  <2>5. CommitsInOrder(g)
    BY <1>2, <2>2, <2>3 DEF CommitsInOrder
  <2>6. GuardAsked(g)
    BY <1>2, <2>2 DEF GuardAsked
  <2>7. KeepsRecords(i, g)
    BY <1>1, <1>2, <2>1, <2>2, <2>4, <2>5, <2>6 DEF KeepsRecords, Rewrites, Sound
  <2>8. QED
    BY <2>7 DEF Moves
<1>5. QED
  BY <1>3, <1>4

\* A call puts its JTI on record: it goes on to the cti, or its answer is lost.
LEMMA BurnJtiMove ==
    ASSUME Frames, NEW i, At(i, "jti"), NEW g,
           calls[i].pre.jti \notin jtis[JtiStoreOf(i)],
           jtis' = [jtis EXCEPT ![JtiStoreOf(i)] = @ \cup {calls[i].pre.jti}],
           calls' = [calls EXCEPT ![i] = g], UNCHANGED <<now, ctis>>,
           DOMAIN g = FrameFields, g.call = calls[i].call, g.pre = calls[i].pre,
           g.jtiBurned = TRUE, g.ctiBurned = calls[i].ctiBurned,
           \/ g.pc = "cti" /\ g.answer = "pending"
           \/ g.pc = "done" /\ g.answer \in {"BackendUnavailable", "Cancelled"}
    PROVE  Moves(i)
<1> DEFINE f == calls[i]
<1>1. /\ i \in DOMAIN calls /\ f.pc = "jti" /\ FrameOK(f) /\ CommitsInOrder(f)
      /\ ~f.ctiBurned /\ Passed(f) /\ ~f.jtiBurned
  BY OpenFrame DEF At, CommitsInOrder
<1>2. FrameOK(g)
  BY <1>1 DEF FrameOK, Fresh, FrameFields, Errors
<1>3. CommitsInOrder(g)
  BY <1>1 DEF CommitsInOrder, Passed
<1>4. GuardAsked(g)
  BY DEF GuardAsked
<1>5. BurnsJti(i, g)
  BY <1>1, <1>2, <1>3, <1>4 DEF BurnsJti, Rewrites, Sound
<1>6. QED
  BY <1>5 DEF Moves

\* A replay is reported of what is on record.
LEMMA ReplayMove ==
    ASSUME Frames, NEW i \in DOMAIN calls, calls[i].pc \in {"jti", "cti"},
           calls' = [calls EXCEPT ![i] = Answered(calls[i], "ReplayAttackDetected")],
           UNCHANGED <<now, jtis, ctis>>,
           \/ calls[i].pc = "jti" /\ calls[i].pre.jti \in jtis[JtiStoreOf(i)]
           \/ calls[i].pre.cti \in ctis
    PROVE  Moves(i)
<1> DEFINE f == calls[i]
           g == Answered(f, "ReplayAttackDetected")
<1>1. /\ FrameOK(f) /\ CommitsInOrder(f) /\ ~f.ctiBurned /\ Passed(f)
      /\ f.pc = "jti" => ~f.jtiBurned
  BY OpenFrame DEF CommitsInOrder
<1>2. /\ g.pc = "done" /\ g.answer = "ReplayAttackDetected" /\ g.call = f.call /\ g.pre = f.pre
      /\ g.jtiBurned = f.jtiBurned /\ g.ctiBurned = f.ctiBurned
      /\ DOMAIN g = FrameFields
  BY <1>1, AnsweredFrame
<1>3. calls' = [calls EXCEPT ![i] = g]
  OBVIOUS
<1> HIDE DEF g
<1>4. FrameOK(g)
  BY <1>1, <1>2 DEF FrameOK, Fresh, FrameFields, Errors
<1>5. CommitsInOrder(g)
  BY <1>1, <1>2 DEF CommitsInOrder, Passed
<1>6. GuardAsked(g)
  BY <1>2 DEF GuardAsked
<1>7. KeepsRecords(i, g)
  BY <1>1, <1>2, <1>3, <1>4, <1>5, <1>6 DEF KeepsRecords, Rewrites, Sound
<1>8. QED
  BY <1>7 DEF Moves

\* The JTI commit, its failures and its abandonment.
LEMMA JtiMoves ==
    ASSUME Frames, NEW i, CommitJti(i) \/ JtiFails(i)
    PROVE  Moves(i)
<1> DEFINE f == calls[i]
<1>1. i \in DOMAIN calls /\ f.pc = "jti" /\ At(i, "jti") /\ UNCHANGED <<now, ctis>>
  BY DEF CommitJti, JtiFails, At
<1>2. FrameOK(f) /\ DOMAIN f = FrameFields /\ f.answer = "pending"
  BY <1>1, OpenFrame
<1>3. CASE CommitJti(i)
  <2>1. CASE f.pre.jti \in jtis[JtiStoreOf(i)]
    BY <1>1, <1>3, <2>1, ReplayMove DEF CommitJti
  <2>2. CASE f.pre.jti \notin jtis[JtiStoreOf(i)]
    <3> DEFINE g == [f EXCEPT !.pc = "cti", !.jtiBurned = TRUE]
    <3>1. /\ jtis' = [jtis EXCEPT ![JtiStoreOf(i)] = @ \cup {calls[i].pre.jti}]
          /\ calls' = [calls EXCEPT ![i] = g]
      BY <1>3, <2>2 DEF CommitJti
    <3>2. /\ DOMAIN g = FrameFields /\ g.call = f.call /\ g.pre = f.pre
          /\ g.jtiBurned = TRUE /\ g.ctiBurned = f.ctiBurned
          /\ g.pc = "cti" /\ g.answer = "pending"
      BY <1>2 DEF FrameFields
    <3> HIDE DEF g
    <3>3. QED
      BY <1>1, <2>2, <3>1, <3>2, BurnJtiMove
  <2>3. QED
    BY <2>1, <2>2
<1>4. CASE JtiFails(i)
  <2> DEFINE g == [Answered(f, "BackendUnavailable") EXCEPT !.jtiBurned = TRUE]
  <2>1. \/ /\ calls' = [calls EXCEPT ![i] = Answered(f, "BackendUnavailable")]
           /\ UNCHANGED jtis
        \/ /\ f.pre.jti \notin jtis[JtiStoreOf(i)]
           /\ jtis' = [jtis EXCEPT ![JtiStoreOf(i)] = @ \cup {calls[i].pre.jti}]
           /\ calls' = [calls EXCEPT ![i] = g]
    BY <1>4 DEF JtiFails
  <2>2. /\ DOMAIN g = FrameFields /\ g.call = f.call /\ g.pre = f.pre
        /\ g.jtiBurned = TRUE /\ g.ctiBurned = f.ctiBurned
        /\ g.pc = "done" /\ g.answer = "BackendUnavailable"
    BY <1>2, AnsweredFrame DEF FrameFields
  <2>3. "BackendUnavailable" \in Errors \ {"ReplayAttackDetected"}
    BY DEF Errors
  <2> HIDE DEF g
  <2>4. QED
    BY <1>1, <2>1, <2>2, <2>3, BurnJtiMove, RefusalMove
<1>5. QED
  BY <1>3, <1>4

\* A guard that is asked is there, and strict wherever that is insisted on.
LEMMA AskedGuard ==
    ASSUME Frames, NEW i, AsksGuard(i)
    PROVE  /\ i \in DOMAIN calls /\ calls[i].pc = "cti"
           /\ calls[i].call.guard # Absent
           /\ RequireStrictGuard /\ calls[i].call.path \in AsyncPaths =>
                  calls[i].call.guard = "strict"
<1>1. i \in DOMAIN calls /\ calls[i].pc = "cti" /\ GuardError(i) = "none"
  BY DEF AsksGuard, At
<1>2. calls[i].call.guard \in {Absent, "strict", "best_effort"}
  BY <1>1, RelayConstants DEF Frames, FrameOK
<1>3. QED
  BY <1>1, <1>2 DEF GuardError

\* A call puts its cti on record: it is granted, or its answer is lost.
LEMMA BurnCtiMove ==
    ASSUME Frames, NEW i, AsksGuard(i), NEW g,
           calls[i].pre.cti \notin ctis,
           ctis' = ctis \cup {calls[i].pre.cti},
           calls' = [calls EXCEPT ![i] = g], UNCHANGED <<now, jtis>>,
           DOMAIN g = FrameFields, g.call = calls[i].call, g.pre = calls[i].pre,
           g.ctiBurned = TRUE, g.jtiBurned = calls[i].jtiBurned,
           g.pc = "done", g.answer \in {"Ok", "BackendUnavailable", "Cancelled"}
    PROVE  Moves(i)
<1> DEFINE f == calls[i]
<1>1. i \in DOMAIN calls /\ f.pc = "cti" /\ f.call.guard # Absent
  BY AskedGuard
<1>2. FrameOK(f) /\ CommitsInOrder(f) /\ ~f.ctiBurned /\ Passed(f)
  BY <1>1, OpenFrame
<1>3. FrameOK(g)
  BY <1>2 DEF FrameOK, Fresh, FrameFields, Errors
<1>4. CommitsInOrder(g)
  BY <1>1, <1>2 DEF CommitsInOrder, Passed
<1>5. GuardAsked(g)
  BY <1>1 DEF GuardAsked
<1>6. BurnsCti(i, g)
  BY <1>1, <1>2, <1>3, <1>4, <1>5 DEF BurnsCti, Rewrites, Sound
<1>7. QED
  BY <1>6 DEF Moves

\* A call is granted without putting its cti on record: it owes none, or the
\* guard had it or may forget it.
LEMMA GrantMove ==
    ASSUME Frames, NEW i, At(i, "cti"), NEW g,
           calls' = [calls EXCEPT ![i] = g], UNCHANGED <<now, jtis, ctis>>,
           SameRecord(calls[i], g), g.pc = "done", g.answer = "Ok",
           MandatesGuard(calls[i].call.tok) =>
               /\ calls[i].call.guard # Absent
               /\ \/ calls[i].call.guard = "strict"
                  \/ RequireStrictGuard /\ calls[i].call.path \in AsyncPaths
                  => g.reuse
    PROVE  Moves(i)
<1> DEFINE f == calls[i]
<1>1. i \in DOMAIN calls /\ f.pc = "cti"
  BY DEF At
<1>2. FrameOK(f) /\ CommitsInOrder(f) /\ ~f.ctiBurned /\ Passed(f)
  BY <1>1, OpenFrame
<1>3. /\ g.call = f.call /\ g.pre = f.pre /\ g.jtiBurned = f.jtiBurned
      /\ g.ctiBurned = f.ctiBurned /\ DOMAIN g = FrameFields
  BY DEF SameRecord
<1>4. FrameOK(g)
  BY <1>2, <1>3 DEF FrameOK, Fresh, FrameFields, Errors
<1>5. CommitsInOrder(g)
  BY <1>1, <1>2, <1>3 DEF CommitsInOrder, Passed
<1>6. GuardAsked(g)
  BY <1>3 DEF GuardAsked
<1>7. KeepsRecords(i, g)
  BY <1>1, <1>3, <1>4, <1>5, <1>6 DEF KeepsRecords, Rewrites, Sound
<1>8. QED
  BY <1>7 DEF Moves

\* The end of the commit that does not ask the guard.
LEMMA SkipCtiMoves ==
    ASSUME Frames, NEW i, SkipCti(i)
    PROVE  Moves(i)
<1> DEFINE f == calls[i]
<1>1. i \in DOMAIN calls /\ f.pc = "cti" /\ At(i, "cti") /\ UNCHANGED <<now, jtis, ctis>>
  BY DEF SkipCti, At
<1>2. FrameOK(f) /\ Passed(f)
  BY <1>1, OpenFrame
<1>3. CASE f.pre.replay = "None" /\ calls' = [calls EXCEPT ![i] = Answered(f, "Ok")]
  <2>1. ~MandatesGuard(f.call.tok)
    BY <1>2, <1>3 DEF Passed, PreCommit, MandatesGuard
  <2>2. /\ SameRecord(f, Answered(f, "Ok"))
        /\ Answered(f, "Ok").pc = "done" /\ Answered(f, "Ok").answer = "Ok"
    BY <1>2, AnsweredFrame DEF SameRecord
  <2>3. QED
    BY <1>1, <1>3, <2>1, <2>2, GrantMove
<1>4. CASE GuardError(i) # "none" /\ calls' = [calls EXCEPT ![i] = Answered(f, GuardError(i))]
  <2>1. GuardError(i) \in Errors \ {"ReplayAttackDetected"}
    BY <1>4 DEF GuardError, Errors
  <2>2. QED
    BY <1>1, <1>4, <2>1, RefusalMove
<1>5. QED
  BY <1>3, <1>4 DEF SkipCti

\* The cti commit.
LEMMA CommitCtiMoves ==
    ASSUME Frames, NEW i, CommitCti(i)
    PROVE  Moves(i)
<1> DEFINE f == calls[i]
           seen == f.pre.cti \in ctis
<1>1. /\ AsksGuard(i) /\ i \in DOMAIN calls /\ f.pc = "cti" /\ At(i, "cti")
      /\ f.call.guard # Absent
      /\ RequireStrictGuard /\ f.call.path \in AsyncPaths => f.call.guard = "strict"
      /\ UNCHANGED <<now, jtis>>
  BY AskedGuard DEF CommitCti, AsksGuard
<1>2. FrameOK(f) /\ Passed(f) /\ DOMAIN f = FrameFields /\ ~f.ctiBurned
  BY <1>1, OpenFrame
<1>3. PICK s, r \in BOOLEAN :
          /\ s => seen
          /\ f.call.guard = "strict" => r /\ (seen => s)
          /\ ctis' = IF r THEN ctis \cup {f.pre.cti} ELSE ctis
          /\ calls' = [calls EXCEPT ![i] =
                 IF s /\ f.pre.replay = "Prohibited"
                 THEN Answered(f, "ReplayAttackDetected")
                 ELSE [Answered(f, "Ok") EXCEPT
                          !.reuse = s, !.ctiBurned = r /\ f.pre.cti \notin ctis]]
  <2>1. PICK reply \in GuardReplies(i) :
          /\ ctis' = IF reply[2] THEN ctis \cup {f.pre.cti} ELSE ctis
          /\ calls' = [calls EXCEPT ![i] =
                 IF reply[1] /\ f.pre.replay = "Prohibited"
                 THEN Answered(f, "ReplayAttackDetected")
                 ELSE [Answered(f, "Ok") EXCEPT
                          !.reuse = reply[1], !.ctiBurned = reply[2] /\ f.pre.cti \notin ctis]]
    BY DEF CommitCti
  <2>2. /\ reply[1] \in BOOLEAN /\ reply[2] \in BOOLEAN
        /\ reply[1] => seen
        /\ f.call.guard = "strict" => reply[2] /\ (seen => reply[1])
    BY <2>1 DEF GuardReplies
  <2> HIDE DEF seen
  <2>3. QED
    BY <2>1, <2>2
<1>4. CASE s /\ f.pre.replay = "Prohibited"
  <2>1. ctis' = ctis
    BY <1>3, <1>4
  <2>2. calls' = [calls EXCEPT ![i] = Answered(f, "ReplayAttackDetected")]
    BY <1>3, <1>4
  <2>3. QED
    BY <1>1, <1>3, <1>4, <2>1, <2>2, ReplayMove
<1>5. CASE ~(s /\ f.pre.replay = "Prohibited")
  <2> DEFINE b == r /\ f.pre.cti \notin ctis
             g == [Answered(f, "Ok") EXCEPT !.reuse = s, !.ctiBurned = b]
  <2>1. calls' = [calls EXCEPT ![i] = g]
    BY <1>3, <1>5
  <2> HIDE DEF b
  <2>2. /\ DOMAIN g = FrameFields /\ g.call = f.call /\ g.pre = f.pre
        /\ g.jtiBurned = f.jtiBurned /\ g.ctiBurned = b /\ g.reuse = s
        /\ g.pc = "done" /\ g.answer = "Ok"
    BY <1>2, AnsweredFrame DEF FrameFields
  <2> HIDE DEF g
  <2>3. CASE b
    <3>1. f.pre.cti \notin ctis /\ ctis' = ctis \cup {f.pre.cti} /\ g.ctiBurned = TRUE
      BY <1>3, <2>2, <2>3 DEF b
    <3>2. QED
      BY <1>1, <2>1, <2>2, <3>1, BurnCtiMove
  <2>4. CASE ~b
    <3>1. ctis' = ctis /\ (f.call.guard = "strict" => seen)
      BY <1>3, <2>4 DEF b
    <3>2. f.call.guard = "strict" => g.reuse
      <4> HIDE DEF seen
      <4>1. QED
        BY <1>3, <2>2, <3>1, Zenon
    <3>3. SameRecord(f, g)
      <4>1. g.ctiBurned = f.ctiBurned
        BY <1>2, <2>2, <2>4, Zenon DEF b, FrameOK
      <4>2. QED
        BY <2>2, <4>1 DEF SameRecord
    <3>4. QED
      BY <1>1, <2>1, <2>2, <3>1, <3>2, <3>3, GrantMove
  <2>5. QED
    BY <2>3, <2>4
<1>6. QED
  BY <1>4, <1>5

\* The failures of the guard's backend, of the blocking pool, and the calls
\* that are dropped at an await.
LEMMA FailureMoves ==
    ASSUME Frames, NEW i, CtiFails(i) \/ JoinFails(i) \/ Cancel(i)
    PROVE  Moves(i)
<1> DEFINE f == calls[i]
<1>1. i \in DOMAIN calls /\ f.pc # "done"
  BY DEF CtiFails, JoinFails, Cancel, AsksGuard, At, Offloading
<1>2. FrameOK(f) /\ DOMAIN f = FrameFields
  BY <1>1, OpenFrame
<1>3. {"BackendUnavailable", "Cancelled"} \subseteq Errors \ {"ReplayAttackDetected"}
  BY DEF Errors
<1>4. PICK r \in {"BackendUnavailable", "Cancelled"} :
          /\ now' = now
          /\ \/ /\ calls' = [calls EXCEPT ![i] = Answered(f, r)]
                /\ UNCHANGED <<jtis, ctis>>
             \/ /\ AsksGuard(i) /\ f.pre.cti \notin ctis
                /\ ctis' = ctis \cup {f.pre.cti}
                /\ calls' = [calls EXCEPT ![i] = [Answered(f, r) EXCEPT !.ctiBurned = TRUE]]
                /\ UNCHANGED jtis
             \/ /\ At(i, "jti") /\ f.pre.jti \notin jtis[JtiStoreOf(i)]
                /\ jtis' = [jtis EXCEPT ![JtiStoreOf(i)] = @ \cup {f.pre.jti}]
                /\ calls' = [calls EXCEPT ![i] = [Answered(f, r) EXCEPT !.jtiBurned = TRUE]]
                /\ UNCHANGED ctis
  <2>1. CASE CtiFails(i)
    BY <2>1 DEF CtiFails
  <2>2. CASE JoinFails(i)
    BY <2>2 DEF JoinFails
  <2>3. CASE Cancel(i)
    BY <2>3 DEF Cancel
  <2>4. QED
    BY <2>1, <2>2, <2>3
<1> DEFINE g == [Answered(f, r) EXCEPT !.jtiBurned = TRUE]
           h == [Answered(f, r) EXCEPT !.ctiBurned = TRUE]
<1>5. /\ DOMAIN g = FrameFields /\ g.call = f.call /\ g.pre = f.pre
      /\ g.jtiBurned = TRUE /\ g.ctiBurned = f.ctiBurned /\ g.pc = "done" /\ g.answer = r
  BY <1>2, AnsweredFrame DEF FrameFields
<1>6. /\ DOMAIN h = FrameFields /\ h.call = f.call /\ h.pre = f.pre
      /\ h.ctiBurned = TRUE /\ h.jtiBurned = f.jtiBurned /\ h.pc = "done" /\ h.answer = r
  BY <1>2, AnsweredFrame DEF FrameFields
<1> HIDE DEF g, h
<1>7. CASE calls' = [calls EXCEPT ![i] = Answered(f, r)] /\ UNCHANGED <<jtis, ctis>>
  BY <1>1, <1>3, <1>4, <1>7, RefusalMove
<1>8. CASE /\ AsksGuard(i) /\ f.pre.cti \notin ctis
           /\ ctis' = ctis \cup {f.pre.cti}
           /\ calls' = [calls EXCEPT ![i] = h]
           /\ UNCHANGED jtis
  BY <1>4, <1>6, <1>8, BurnCtiMove
<1>9. CASE /\ At(i, "jti") /\ f.pre.jti \notin jtis[JtiStoreOf(i)]
           /\ jtis' = [jtis EXCEPT ![JtiStoreOf(i)] = @ \cup {f.pre.jti}]
           /\ calls' = [calls EXCEPT ![i] = g]
           /\ UNCHANGED ctis
  BY <1>4, <1>5, <1>9, BurnJtiMove
<1>10. QED
  BY <1>4, <1>7, <1>8, <1>9 DEF g, h

\* Every step of a call is a move.
LEMMA StepsAreMoves ==
    ASSUME Frames, now \in StartTime .. MaxTime, NEW i, Step(i) \/ Cancel(i)
    PROVE  Moves(i)
BY PorMoves, DecideMoves, JtiMoves, SkipCtiMoves, CommitCtiMoves, FailureMoves DEF Step

-----------------------------------------------------------------------------
(* The moves, the arrivals and the clock keep the invariant.               *)

\* A sequence is one over its own elements.
LEMMA SeqOfItsElements ==
    ASSUME NEW S, NEW s \in Seq(S)
    PROVE  s \in Seq(Range(s))
<1>1. \A k \in 1 .. Len(s) : s[k] \in Range(s)
  BY DEF Range
<1>2. QED
  BY <1>1

\* What a call's move does to the frames.
LEMMA MovedFrames ==
    ASSUME RInv, NEW i, NEW g, Rewrites(i, g)
    PROVE  /\ DOMAIN calls' = DOMAIN calls /\ i \in DOMAIN calls
           /\ calls'[i] = g /\ g.call = calls[i].call
           /\ \A j \in DOMAIN calls : j # i => calls'[j] = calls[j]
           /\ \A j \in DOMAIN calls : calls'[j].call = calls[j].call
           /\ \A j \in DOMAIN calls : JtiStoreOf(j)' = JtiStoreOf(j)
           /\ calls' \in Seq(Range(calls)')
           /\ Frames'
           /\ now' \in StartTime .. MaxTime
<1>1. /\ calls \in Seq(Range(calls)) /\ i \in DOMAIN calls
      /\ calls' = [calls EXCEPT ![i] = g] /\ g.call = calls[i].call /\ Sound(g) /\ now' = now
  BY DEF RInv, Rewrites
<1>2. /\ DOMAIN calls' = DOMAIN calls /\ calls'[i] = g
      /\ \A j \in DOMAIN calls : j # i => calls'[j] = calls[j]
  BY <1>1
<1>3. \A j \in DOMAIN calls : calls'[j].call = calls[j].call
  BY <1>1, <1>2
<1>4. calls' \in Seq(Range(calls) \cup {g})
  BY <1>1
<1>5. calls' \in Seq(Range(calls'))
  BY <1>4, SeqOfItsElements
<1>6. Frames'
  <2>1. \A j \in DOMAIN calls : Sound(calls'[j])
    BY <1>1, <1>2 DEF RInv, Frames, Sound
  <2>2. QED
    BY <1>2, <2>1 DEF Frames, Sound, FrameOK, CommitsInOrder, GuardAsked, Passed
<1>7. QED
  BY <1>1, <1>2, <1>3, <1>5, <1>6 DEF RInv, JtiStoreOf, Range

\* Every call's JTI store is one of the stores.
LEMMA StoresOfCalls ==
    ASSUME RInv
    PROVE  \A j \in DOMAIN calls : JtiStoreOf(j) \in Stores
BY RelayConstants DEF RInv, Frames, FrameOK, JtiStoreOf

\* A move that puts nothing on record.
LEMMA KeepsRecordsInv ==
    ASSUME RInv, NEW i, NEW g, KeepsRecords(i, g)
    PROVE  RInv'
<1>1. /\ Rewrites(i, g) /\ jtis' = jtis /\ ctis' = ctis
      /\ g.jtiBurned = calls[i].jtiBurned /\ g.ctiBurned = calls[i].ctiBurned
      /\ calls[i].jtiBurned \/ calls[i].ctiBurned => g.pre = calls[i].pre
  BY DEF KeepsRecords
<1>2. /\ DOMAIN calls' = DOMAIN calls /\ i \in DOMAIN calls /\ calls'[i] = g
      /\ \A j \in DOMAIN calls : j # i => calls'[j] = calls[j]
      /\ \A j \in DOMAIN calls : JtiStoreOf(j)' = JtiStoreOf(j)
      /\ calls' \in Seq(Range(calls)') /\ Frames' /\ now' \in StartTime .. MaxTime
  BY <1>1, MovedFrames
<1>3. \A j \in DOMAIN calls :
          /\ calls'[j].jtiBurned = calls[j].jtiBurned
          /\ calls'[j].ctiBurned = calls[j].ctiBurned
          /\ calls[j].jtiBurned \/ calls[j].ctiBurned => calls'[j].pre = calls[j].pre
  BY <1>1, <1>2
<1>4. JtiRecords'
  <2>1. JtiRecords
    BY DEF RInv
  <2>2. QED
    BY <1>1, <1>2, <1>3, <2>1 DEF JtiRecords
<1>5. CtiRecords'
  <2>1. CtiRecords
    BY DEF RInv
  <2>2. QED
    BY <1>1, <1>2, <1>3, <2>1 DEF CtiRecords
<1>6. QED
  BY <1>1, <1>2, <1>4, <1>5 DEF RInv

\* A move that puts a JTI on record.
LEMMA BurnsJtiInv ==
    ASSUME RInv, NEW i, NEW g, BurnsJti(i, g)
    PROVE  RInv'
<1> DEFINE s == JtiStoreOf(i)
           k == calls[i].pre.jti
<1>1. /\ Rewrites(i, g) /\ k \notin jtis[s] /\ jtis' = [jtis EXCEPT ![s] = @ \cup {k}]
      /\ ctis' = ctis /\ ~calls[i].jtiBurned /\ g.jtiBurned /\ g.ctiBurned = calls[i].ctiBurned
      /\ g.pre = calls[i].pre
  BY DEF BurnsJti
<1>2. /\ DOMAIN calls' = DOMAIN calls /\ i \in DOMAIN calls /\ calls'[i] = g
      /\ \A j \in DOMAIN calls : j # i => calls'[j] = calls[j]
      /\ \A j \in DOMAIN calls : JtiStoreOf(j)' = JtiStoreOf(j)
      /\ calls' \in Seq(Range(calls)') /\ Frames' /\ now' \in StartTime .. MaxTime
  BY <1>1, MovedFrames
<1>3. /\ DOMAIN jtis = Stores /\ s \in Stores /\ \A j \in DOMAIN calls : JtiStoreOf(j) \in Stores
  BY <1>2, StoresOfCalls DEF RInv
<1>4. /\ DOMAIN jtis' = Stores /\ jtis'[s] = jtis[s] \cup {k}
      /\ \A t \in Stores : t # s => jtis'[t] = jtis[t]
  BY <1>1, <1>3
<1>5. \A j \in DOMAIN calls :
          /\ calls'[j].pre = calls[j].pre /\ calls'[j].ctiBurned = calls[j].ctiBurned
          /\ j # i => calls'[j].jtiBurned = calls[j].jtiBurned
  BY <1>1, <1>2
<1>6. calls'[i].jtiBurned
  BY <1>1, <1>2
<1> HIDE DEF s, k
<1>7. JtiRecords'
  <2>1. JtiRecords
    BY DEF RInv
  <2>2. \A j \in DOMAIN calls : calls'[j].jtiBurned => calls'[j].pre.jti \in jtis'[JtiStoreOf(j)]
    BY <1>2, <1>3, <1>4, <1>5, <2>1 DEF JtiRecords, s, k
  <2>3. \A t \in Stores : \A x \in jtis'[t] : \E j \in DOMAIN calls :
            calls'[j].jtiBurned /\ JtiStoreOf(j) = t /\ calls'[j].pre.jti = x
    <3> SUFFICES ASSUME NEW t \in Stores, NEW x \in jtis'[t]
                 PROVE  \E j \in DOMAIN calls :
                            calls'[j].jtiBurned /\ JtiStoreOf(j) = t /\ calls'[j].pre.jti = x
      OBVIOUS
    <3>1. CASE x \in jtis[t]
      <4>1. PICK j \in DOMAIN calls :
                calls[j].jtiBurned /\ JtiStoreOf(j) = t /\ calls[j].pre.jti = x
        BY <2>1, <3>1 DEF JtiRecords
      <4>2. calls'[j].jtiBurned /\ calls'[j].pre.jti = x
        BY <1>1, <1>5, <4>1
      <4>3. QED
        BY <4>1, <4>2
    <3>2. CASE x \notin jtis[t]
      <4>1. t = s /\ x = k
        BY <1>4, <3>2
      <4>2. calls'[i].jtiBurned /\ JtiStoreOf(i) = t /\ calls'[i].pre.jti = x
        BY <1>2, <1>5, <1>6, <4>1 DEF s, k
      <4>3. QED
        BY <1>2, <4>2
    <3>3. QED
      BY <3>1, <3>2
  <2>4. ASSUME NEW m \in DOMAIN calls, NEW n \in DOMAIN calls,
               calls'[m].jtiBurned, calls'[n].jtiBurned,
               JtiStoreOf(m) = JtiStoreOf(n), calls'[m].pre.jti = calls'[n].pre.jti
        PROVE  m = n
    <3>1. calls[m].pre.jti = calls[n].pre.jti
      BY <1>5, <2>4
    <3>2. CASE m # i /\ n # i
      BY <1>5, <2>1, <2>4, <3>1, <3>2 DEF JtiRecords
    <3>3. CASE m = i /\ n # i
      BY <1>1, <1>5, <2>1, <2>4, <3>1, <3>3 DEF JtiRecords, s, k
    <3>4. CASE m # i /\ n = i
      BY <1>1, <1>5, <2>1, <2>4, <3>1, <3>4 DEF JtiRecords, s, k
    <3>5. QED
      BY <3>2, <3>3, <3>4
  <2>5. QED
    BY <1>2, <2>2, <2>3, <2>4 DEF JtiRecords
<1>8. CtiRecords'
  <2>1. CtiRecords
    BY DEF RInv
  <2>2. ctis' = ctis /\ DOMAIN calls' = DOMAIN calls
    BY <1>1, <1>2
  <2>3. QED
    BY <1>5, <2>1, <2>2 DEF CtiRecords
<1>9. QED
  BY <1>2, <1>4, <1>7, <1>8 DEF RInv

\* A move that puts a cti on record.
LEMMA BurnsCtiInv ==
    ASSUME RInv, NEW i, NEW g, BurnsCti(i, g)
    PROVE  RInv'
<1> DEFINE k == calls[i].pre.cti
<1>1. /\ Rewrites(i, g) /\ k \notin ctis /\ ctis' = ctis \cup {k}
      /\ jtis' = jtis /\ ~calls[i].ctiBurned /\ g.ctiBurned /\ g.jtiBurned = calls[i].jtiBurned
      /\ g.pre = calls[i].pre
  BY DEF BurnsCti
<1>2. /\ DOMAIN calls' = DOMAIN calls /\ i \in DOMAIN calls /\ calls'[i] = g
      /\ \A j \in DOMAIN calls : j # i => calls'[j] = calls[j]
      /\ \A j \in DOMAIN calls : JtiStoreOf(j)' = JtiStoreOf(j)
      /\ calls' \in Seq(Range(calls)') /\ Frames' /\ now' \in StartTime .. MaxTime
  BY <1>1, MovedFrames
<1>3. \A j \in DOMAIN calls :
          /\ calls'[j].pre = calls[j].pre /\ calls'[j].jtiBurned = calls[j].jtiBurned
          /\ j # i => calls'[j].ctiBurned = calls[j].ctiBurned
  BY <1>1, <1>2
<1>4. calls'[i].ctiBurned
  BY <1>1, <1>2
<1> HIDE DEF k
<1>5. JtiRecords'
  <2>1. JtiRecords
    BY DEF RInv
  <2>2. QED
    BY <1>1, <1>2, <1>3, <2>1 DEF JtiRecords
<1>6. CtiRecords'
  <2>1. CtiRecords
    BY DEF RInv
  <2>2. \A j \in DOMAIN calls : calls'[j].ctiBurned => calls'[j].pre.cti \in ctis'
    BY <1>1, <1>3, <2>1 DEF CtiRecords, k
  <2>3. \A x \in ctis' : \E j \in DOMAIN calls : calls'[j].ctiBurned /\ calls'[j].pre.cti = x
    <3> SUFFICES ASSUME NEW x \in ctis'
                 PROVE  \E j \in DOMAIN calls : calls'[j].ctiBurned /\ calls'[j].pre.cti = x
      OBVIOUS
    <3>1. CASE x \in ctis
      <4>1. PICK j \in DOMAIN calls : calls[j].ctiBurned /\ calls[j].pre.cti = x
        BY <2>1, <3>1 DEF CtiRecords
      <4>2. calls'[j].ctiBurned /\ calls'[j].pre.cti = x
        BY <1>1, <1>3, <4>1
      <4>3. QED
        BY <4>2
    <3>2. CASE x = k
      BY <1>2, <1>3, <1>4, <3>2 DEF k
    <3>3. QED
      BY <1>1, <3>1, <3>2
  <2>4. ASSUME NEW m \in DOMAIN calls, NEW n \in DOMAIN calls,
               calls'[m].ctiBurned, calls'[n].ctiBurned, calls'[m].pre.cti = calls'[n].pre.cti
        PROVE  m = n
    <3>1. calls[m].pre.cti = calls[n].pre.cti
      BY <1>3, <2>4
    <3>2. CASE m # i /\ n # i
      BY <1>3, <2>1, <2>4, <3>1, <3>2 DEF CtiRecords
    <3>3. CASE m = i /\ n # i
      BY <1>1, <1>3, <2>1, <2>4, <3>1, <3>3 DEF CtiRecords, k
    <3>4. CASE m # i /\ n = i
      BY <1>1, <1>3, <2>1, <2>4, <3>1, <3>4 DEF CtiRecords, k
    <3>5. QED
      BY <3>2, <3>3, <3>4
  <2>5. QED
    BY <1>2, <2>2, <2>3, <2>4 DEF CtiRecords
<1>7. QED
  BY <1>1, <1>2, <1>5, <1>6 DEF RInv

\* The frame a call starts with.
Opening(c) ==
    LET e == OrElse(PolicyError(Cfg, c.tok, c.ctx),
                    IF c.tok.catpor # Absent /\ c.list = Absent
                    THEN "MissingRelayContext" ELSE "none")
    IN  IF e # "none" THEN Answered(Fresh(c), e)
        ELSE IF c.tok.catpor = Absent THEN [Fresh(c) EXCEPT !.pc = "decide"]
        ELSE Fresh(c)

\* It is sound, and has nothing on record.
LEMMA OpeningFrame ==
    ASSUME NEW c \in Calls \cup Solo
    PROVE  /\ Sound(Opening(c)) /\ Opening(c).call = c
           /\ ~Opening(c).jtiBurned /\ ~Opening(c).ctiBurned
           /\ Opening(c).answer # "ReplayAttackDetected"
           /\ ~Opening(c).blocks /\ ~Opening(c).leaked
<1> DEFINE f == Fresh(c)
           e == OrElse(PolicyError(Cfg, c.tok, c.ctx),
                    IF c.tok.catpor # Absent /\ c.list = Absent
                    THEN "MissingRelayContext" ELSE "none")
           g == Opening(c)
<1>1. e \in Refusals \cup {"none"}
  <2>1. PolicyError(Cfg, c.tok, c.ctx) \in Refusals \cup {"none"}
    BY PolicyRefuses
  <2>2. QED
    BY <2>1 DEF OrElse, Refusals
<1>2. /\ DOMAIN f = FrameFields /\ f.call = c /\ f.pc = "por" /\ f.answer = "pending"
      /\ f.jtiBurned = FALSE /\ f.ctiBurned = FALSE /\ f.blocks = FALSE /\ f.leaked = FALSE
  BY DEF Fresh, FrameFields
<1>3. g = IF e # "none" THEN Answered(f, e)
          ELSE IF c.tok.catpor = Absent THEN [f EXCEPT !.pc = "decide"]
          ELSE f
  BY DEF Opening
<1>4. e = "none" /\ c.tok.catpor # Absent => c.list # Absent
  BY DEF OrElse
<1> HIDE DEF f, e, g
<1>5. /\ DOMAIN g = FrameFields /\ g.call = c
      /\ g.jtiBurned = FALSE /\ g.ctiBurned = FALSE /\ g.blocks = FALSE /\ g.leaked = FALSE
      /\ \/ g.pc = "done" /\ g.answer = e /\ e \in Refusals
         \/ g.pc = "decide" /\ g.answer = "pending"
         \/ g.pc = "por" /\ g.answer = "pending" /\ c.tok.catpor # Absent /\ c.list # Absent
  <2>1. CASE e # "none"
    BY <1>1, <1>2, <1>3, <2>1 DEF Answered, FrameFields
  <2>2. CASE e = "none" /\ c.tok.catpor = Absent
    BY <1>2, <1>3, <2>2 DEF FrameFields
  <2>3. CASE e = "none" /\ c.tok.catpor # Absent
    BY <1>2, <1>3, <1>4, <2>3
  <2>4. QED
    BY <2>1, <2>2, <2>3
<1>6. FrameOK(g)
  BY <1>5 DEF FrameOK, Fresh, FrameFields, Refusals, Errors
<1>7. CommitsInOrder(g) /\ GuardAsked(g)
  BY <1>5 DEF CommitsInOrder, GuardAsked, Refusals
<1>8. g.answer # "ReplayAttackDetected"
  BY <1>5 DEF Refusals
<1>9. QED
  BY <1>5, <1>6, <1>7, <1>8 DEF Sound, g

\* What the arrival of a call does to the frames.
LEMMA ArrivedFrames ==
    ASSUME RInv, NEW c \in Arriving, Begin(c)
    PROVE  /\ c \in Calls \cup Solo
           /\ UNCHANGED <<now, jtis, ctis, por>>
           /\ \E n \in Nat :
                  /\ DOMAIN calls = 1 .. n /\ DOMAIN calls' = 1 .. n + 1
                  /\ calls'[n + 1] = Opening(c)
                  /\ \A j \in 1 .. n : calls'[j] = calls[j]
           /\ calls' \in Seq(Range(calls)')
<1>1. c \in Calls \cup Solo
  BY DEF Arriving
<1>2. calls' = Append(calls, Opening(c)) /\ UNCHANGED <<now, jtis, ctis, por>>
  BY DEF Begin, Opening
<1>3. calls \in Seq(Range(calls))
  BY DEF RInv
<1> DEFINE n == Len(calls)
<1>4. n \in Nat /\ DOMAIN calls = 1 .. n
  BY <1>3
<1>5. calls' \in Seq(Range(calls) \cup {Opening(c)})
  BY <1>2, <1>3
<1>6. DOMAIN calls' = 1 .. n + 1 /\ calls'[n + 1] = Opening(c) /\ \A j \in 1 .. n : calls'[j] = calls[j]
  BY <1>2, <1>3
<1>7. calls' \in Seq(Range(calls'))
  BY <1>5, SeqOfItsElements
<1> HIDE DEF n
<1>8. QED
  BY <1>1, <1>2, <1>4, <1>6, <1>7 DEF Range

\* The arrival of a call keeps the invariant.
LEMMA BeginInv ==
    ASSUME RInv, NEW c \in Arriving, Begin(c)
    PROVE  RInv'
<1>1. PICK n \in Nat : /\ DOMAIN calls = 1 .. n /\ DOMAIN calls' = 1 .. n + 1
                       /\ calls'[n + 1] = Opening(c)
                       /\ \A j \in 1 .. n : calls'[j] = calls[j]
  BY ArrivedFrames
<1>2. c \in Calls \cup Solo /\ UNCHANGED <<now, jtis, ctis, por>> /\ calls' \in Seq(Range(calls)')
  BY ArrivedFrames
<1>3. /\ Sound(calls'[n + 1]) /\ ~calls'[n + 1].jtiBurned /\ ~calls'[n + 1].ctiBurned
  BY <1>1, <1>2, OpeningFrame
<1>4. DOMAIN calls \subseteq DOMAIN calls' /\ \A j \in DOMAIN calls' : j \in DOMAIN calls \/ j = n + 1
  BY <1>1
<1>5. \A j \in DOMAIN calls : calls'[j] = calls[j]
  BY <1>1
<1>6. \A j \in DOMAIN calls : JtiStoreOf(j)' = JtiStoreOf(j)
  BY <1>5 DEF JtiStoreOf
<1>7. Frames'
  <2>1. \A j \in DOMAIN calls' : Sound(calls'[j])
    BY <1>3, <1>4, <1>5 DEF RInv, Frames, Sound
  <2>2. QED
    BY <2>1 DEF Frames, Sound, FrameOK, CommitsInOrder, GuardAsked, Passed
<1>8. JtiRecords'
  <2>1. JtiRecords
    BY DEF RInv
  <2>2. QED
    BY <1>2, <1>3, <1>4, <1>5, <1>6, <2>1 DEF JtiRecords
<1>9. CtiRecords'
  <2>1. CtiRecords
    BY DEF RInv
  <2>2. QED
    BY <1>2, <1>3, <1>4, <1>5, <2>1 DEF CtiRecords
<1>10. QED
  BY <1>2, <1>7, <1>8, <1>9 DEF RInv

\* A step that leaves the calls and the records alone.
LEMMA IdleInv ==
    ASSUME RInv, UNCHANGED <<jtis, ctis, calls>>, now' \in StartTime .. MaxTime
    PROVE  RInv'
BY DEF RInv, Frames, FrameOK, CommitsInOrder, GuardAsked, Passed, JtiRecords, CtiRecords, JtiStoreOf, Range

\* Every step keeps the invariant.
LEMMA RelayStep ==
    ASSUME RInv, [RNext]_relayVars
    PROVE  RInv'
<1>1. CASE \E c \in Arriving : Begin(c)
  BY <1>1, BeginInv
<1>2. ASSUME NEW i, Step(i) \/ Cancel(i)
      PROVE  RInv'
  <2>1. Moves(i)
    BY <1>2, StepsAreMoves DEF RInv
  <2>2. QED
    BY <2>1, KeepsRecordsInv, BurnsJtiInv, BurnsCtiInv DEF Moves
<1>3. CASE RTick
  BY <1>3, IdleInv, RelayConstants DEF RTick, RInv
<1>4. CASE UNCHANGED relayVars
  BY <1>4, IdleInv DEF relayVars, RInv
<1>5. QED
  BY <1>1, <1>2, <1>3, <1>4 DEF RNext

\* It holds at the start.
LEMMA RelayStart == RInit => RInv
<1> SUFFICES ASSUME RInit PROVE RInv
  OBVIOUS
<1>1. now = StartTime /\ jtis = [s \in Stores |-> {}] /\ ctis = {} /\ calls = <<>>
  BY DEF RInit
<1>2. now \in StartTime .. MaxTime
  BY <1>1, RelayConstants
<1>3. DOMAIN calls = {} /\ calls \in Seq(Range(calls))
  BY <1>1
<1>4. Frames /\ JtiRecords /\ CtiRecords
  BY <1>1, <1>3 DEF Frames, JtiRecords, CtiRecords
<1>5. QED
  BY <1>1, <1>2, <1>3, <1>4 DEF RInv

\* The invariant of authorization at a relay: what every frame has done is in
\* the order in which authorize_precommit, commit and commit_async do it, and
\* the stores hold exactly what the calls have put there, each once.
THEOREM RelayInvariant == RSpec => []RInv
<1>1. RInit => RInv
  BY RelayStart
<1>2. RInv /\ [RNext]_relayVars => RInv'
  BY RelayStep
<1>3. QED
  BY <1>1, <1>2, PTL DEF RSpec

-----------------------------------------------------------------------------
(* What follows from it.                                                   *)

\* A granted call has passed the decision, and put its JTI on record if it has
\* one to put there.
LEMMA GrantedFrame ==
    ASSUME RInv, NEW i \in DOMAIN calls, Granted(i)
    PROVE  /\ FrameOK(calls[i]) /\ GuardAsked(calls[i]) /\ Passed(calls[i])
           /\ calls[i].answer = "Ok"
           /\ calls[i].pre.jti # Absent => calls[i].jtiBurned
           /\ calls[i].pre.cti = calls[i].call.tok.cti
           /\ CommitsJti(Cfg, calls[i].call.tok) =>
                  calls[i].pre.jti = CommitKey(calls[i].call.ctx.proof, calls[i].call.tok.iss)
<1>1. /\ FrameOK(calls[i]) /\ GuardAsked(calls[i]) /\ CommitsInOrder(calls[i])
      /\ calls[i].answer = "Ok"
  BY DEF RInv, Frames, Granted
<1>2. Passed(calls[i]) /\ (calls[i].pre.jti # Absent => calls[i].jtiBurned)
  BY <1>1 DEF CommitsInOrder
<1>3. calls[i].pre = PreCommit(Cfg, calls[i].call.tok, calls[i].call.ctx)
  BY <1>2 DEF Passed
<1>4. /\ calls[i].pre.cti = calls[i].call.tok.cti
      /\ CommitsJti(Cfg, calls[i].call.tok) =>
             calls[i].pre.jti = CommitKey(calls[i].call.ctx.proof, calls[i].call.tok.iss)
  BY <1>3 DEF PreCommit
<1>5. QED
  BY <1>1, <1>2, <1>4

\* One DPoP proof grants at most one request per JTI store: its composite key
\* is committed by commit and commit_async before the answer is given, and a
\* store takes a key once, whatever the backends and the callers do.
THEOREM ProofsGrantOnce == RSpec => []ProofGrantsOnce
<1>1. RInv => ProofGrantsOnce
  <2> SUFFICES ASSUME RInv, NEW i \in DOMAIN calls, NEW j \in DOMAIN calls,
                      Granted(i), Granted(j),
                      calls[i].call.tok.cnf # Absent, calls[j].call.tok.cnf # Absent,
                      Cfg.honor_jti \/ Cfg.require_dpop_replay_tracking,
                      JtiStoreOf(i) = JtiStoreOf(j),
                      CommitKey(calls[i].call.ctx.proof, calls[i].call.tok.iss)
                          = CommitKey(calls[j].call.ctx.proof, calls[j].call.tok.iss)
               PROVE  i = j
    BY DEF ProofGrantsOnce
  <2>1. ASSUME NEW k \in DOMAIN calls, Granted(k), calls[k].call.tok.cnf # Absent
        PROVE  /\ calls[k].jtiBurned
               /\ calls[k].pre.jti = CommitKey(calls[k].call.ctx.proof, calls[k].call.tok.iss)
    <3>1. CommitsJti(Cfg, calls[k].call.tok)
      BY <2>1 DEF CommitsJti
    <3>2. /\ Passed(calls[k]) /\ calls[k].call \in Calls \cup Solo
          /\ calls[k].pre.jti = CommitKey(calls[k].call.ctx.proof, calls[k].call.tok.iss)
          /\ calls[k].pre.jti # Absent => calls[k].jtiBurned
      BY <2>1, <3>1, GrantedFrame DEF FrameOK
    <3>3. calls[k].call.ctx.proof # Absent
      BY <2>1, <3>2, DecisionPasses DEF Passed
    <3>4. calls[k].pre.jti # Absent
      BY <3>2, <3>3, RelayConstants
    <3>5. QED
      BY <3>2, <3>4
  <2>2. QED
    BY <2>1 DEF RInv, JtiRecords
<1>2. QED
  BY <1>1, RelayInvariant, PTL

\* A token that demands replay protection is granted unflagged at most once
\* among the calls whose guard does not forget: the cti is asked for before
\* every such grant, and the first to record it is the only one not told.
THEOREM TokensGrantOnce == RSpec => []TokenGrantsOnce
<1>1. RInv => TokenGrantsOnce
  <2> SUFFICES ASSUME RInv, NEW i \in DOMAIN calls, NEW j \in DOMAIN calls,
                      Granted(i), Granted(j),
                      MandatesGuard(calls[i].call.tok), MandatesGuard(calls[j].call.tok),
                      Guarded(i), Guarded(j),
                      calls[i].call.tok.cti = calls[j].call.tok.cti,
                      ~calls[i].reuse, ~calls[j].reuse
               PROVE  i = j
    BY DEF TokenGrantsOnce
  <2>1. ASSUME NEW k \in DOMAIN calls, Granted(k), MandatesGuard(calls[k].call.tok),
               Guarded(k), ~calls[k].reuse
        PROVE  calls[k].ctiBurned /\ calls[k].pre.cti = calls[k].call.tok.cti
    BY <2>1, GrantedFrame DEF GuardAsked, Guarded
  <2>2. QED
    BY <2>1 DEF RInv, CtiRecords
<1>2. QED
  BY <1>1, RelayInvariant, PTL

\* The cti is the last thing a call puts on record: commit and commit_async
\* take the JTI first, and no check comes after the guard.
THEOREM CtiComesLast == RSpec => []CtiIsLast
<1>1. RInv => CtiIsLast
  BY DEF RInv, Frames, CommitsInOrder, CtiIsLast
<1>2. QED
  BY <1>1, RelayInvariant, PTL

\* A proof is good for one request only, through every entry point and in
\* every store: it names its token by hash, its action, namespace and track,
\* and validation compares all of them.
THEOREM ProofsBindRequests == RSpec => []ProofBindsRequest
<1>1. RInv => ProofBindsRequest
  <2> SUFFICES ASSUME RInv, NEW i \in DOMAIN calls, NEW j \in DOMAIN calls,
                      Granted(i), Granted(j),
                      calls[i].call.tok.cnf # Absent, calls[j].call.tok.cnf # Absent,
                      calls[i].call.ctx.proof = calls[j].call.ctx.proof
               PROVE  LET a == calls[i].call
                          b == calls[j].call
                      IN  /\ a.tok.hash = b.tok.hash
                          /\ a.ctx.action = b.ctx.action
                          /\ ResourceShape(a.ctx.action) # "Endpoint" =>
                                 a.ctx.namespace = b.ctx.namespace /\ a.ctx.track = b.ctx.track
    BY DEF ProofBindsRequest
  <2>1. ASSUME NEW k \in DOMAIN calls, Granted(k), calls[k].call.tok.cnf # Absent
        PROVE  LET c == calls[k].call
               IN  /\ c.ctx.proof.ath = c.tok.hash
                   /\ c.ctx.proof.action = c.ctx.action
                   /\ ResourceShape(c.ctx.action) # "Endpoint" =>
                          c.ctx.proof.tns = c.ctx.namespace /\ c.ctx.proof.tn = c.ctx.track
    <3>1. Passed(calls[k]) /\ calls[k].call \in Calls \cup Solo
      BY <2>1, GrantedFrame DEF FrameOK
    <3>2. calls[k].call.tok.hash # Absent
      BY <2>1, <3>1, RelayConstants
    <3>3. QED
      BY <2>1, <3>1, <3>2, DecisionPasses DEF Passed
  <2>2. QED
    BY <2>1
<1>2. QED
  BY <1>1, RelayInvariant, PTL

-----------------------------------------------------------------------------
(* Entitlement: what the matching code computes is what a scope means.     *)

\* A list and its elements.
LEMMA Listed ==
    ASSUME NEW s, IsList(s)
    PROVE  Len(s) \in Nat /\ DOMAIN s = 1 .. Len(s)
BY DEF IsList

\* starts_with, element by element.
LEMMA PrefixElements ==
    ASSUME NEW s, NEW t, IsList(s), IsList(t), IsPrefix(s, t)
    PROVE  Len(s) <= Len(t) /\ \A k \in 1 .. Len(s) : t[k] = s[k]
<1>1. Len(s) \in Nat /\ Len(t) \in Nat /\ Len(s) <= Len(t) /\ SubSeq(s, 1, Len(s)) = SubSeq(t, 1, Len(s))
  BY Listed DEF IsPrefix
<1>2. SubSeq(s, 1, Len(s)) = [k \in 1 .. Len(s) |-> s[k]]
  BY <1>1 DEF IsList
<1>3. SubSeq(t, 1, Len(s)) = [k \in 1 .. Len(s) |-> t[k]]
  BY <1>1 DEF IsList
<1>4. ASSUME NEW k \in 1 .. Len(s) PROVE t[k] = s[k]
  BY <1>1, <1>2, <1>3
<1>5. QED
  BY <1>1, <1>4

\* A list written backwards.
LEMMA BackwardsList ==
    ASSUME NEW s, IsList(s)
    PROVE  /\ IsList(Reverse(s)) /\ Len(Reverse(s)) = Len(s)
           /\ \A k \in 1 .. Len(s) : Reverse(s)[k] = s[(Len(s) - k) + 1]
<1>1. Len(s) \in Nat /\ DOMAIN s = 1 .. Len(s)
  BY Listed
<1>2. Reverse(s) = [k \in 1 .. Len(s) |-> s[(Len(s) - k) + 1]]
  BY DEF Reverse
<1>3. Reverse(s) \in [1 .. Len(s) -> Range(Reverse(s))]
  BY <1>2 DEF Range
<1>4. IsList(Reverse(s)) /\ Len(Reverse(s)) = Len(s)
  BY <1>1, <1>3, IsASeq DEF IsList
<1>5. QED
  BY <1>2, <1>4

\* ends_with, element by element.
LEMMA SuffixElements ==
    ASSUME NEW s, NEW t, IsList(s), IsList(t), IsSuffix(s, t)
    PROVE  Len(s) <= Len(t) /\ \A k \in 1 .. Len(s) : t[(Len(t) - Len(s)) + k] = s[k]
<1>1. /\ IsList(Reverse(s)) /\ Len(Reverse(s)) = Len(s)
      /\ \A k \in 1 .. Len(s) : Reverse(s)[k] = s[(Len(s) - k) + 1]
      /\ IsList(Reverse(t)) /\ Len(Reverse(t)) = Len(t)
      /\ \A k \in 1 .. Len(t) : Reverse(t)[k] = t[(Len(t) - k) + 1]
      /\ Len(s) \in Nat /\ Len(t) \in Nat
  BY BackwardsList, Listed
<1>2. Len(s) <= Len(t) /\ \A k \in 1 .. Len(s) : Reverse(t)[k] = Reverse(s)[k]
  BY <1>1, PrefixElements DEF IsSuffix
<1>3. ASSUME NEW k \in 1 .. Len(s) PROVE t[(Len(t) - Len(s)) + k] = s[k]
  <2> DEFINE j == (Len(s) - k) + 1
  <2>1. /\ j \in 1 .. Len(s) /\ j \in 1 .. Len(t)
        /\ (Len(s) - j) + 1 = k /\ (Len(t) - j) + 1 = (Len(t) - Len(s)) + k
    BY <1>1, <1>2
  <2> HIDE DEF j
  <2>2. Reverse(s)[j] = s[k] /\ Reverse(t)[j] = t[(Len(t) - Len(s)) + k]
    BY <1>1, <2>1
  <2>3. QED
    BY <1>2, <2>1, <2>2
<1>4. QED
  BY <1>2, <1>3

\* BinaryMatch::matches finds only what fits.
LEMMA MatchFits ==
    ASSUME NEW m, NEW input, WellFormed(m), IsList(input), BinaryMatches(m, input)
    PROVE  Fits(m, input)
<1>1. /\ IsList(m.pattern) /\ Len(m.pattern) \in Nat /\ Len(input) \in Nat
      /\ DOMAIN m.pattern = 1 .. Len(m.pattern)
      /\ m.type \in {"Any", "Exact", "Prefix", "Suffix"}
  BY Listed DEF WellFormed
<1>2. m.pattern # <<>> => Len(m.pattern) > 0
  BY <1>1 DEF IsList
<1>3. CASE m.type = "Any"
  BY <1>3 DEF Fits
<1>4. CASE m.type = "Exact"
  <2>1. input = m.pattern
    BY <1>4 DEF BinaryMatches
  <2>2. QED
    BY <1>1, <1>4, <2>1 DEF Fits
<1>5. CASE m.type = "Prefix"
  <2>1. m.pattern # <<>> /\ IsPrefix(m.pattern, input)
    BY <1>5 DEF BinaryMatches
  <2>2. Len(m.pattern) <= Len(input) /\ \A k \in 1 .. Len(m.pattern) : input[k] = m.pattern[k]
    BY <1>1, <2>1, PrefixElements
  <2>3. QED
    BY <1>1, <1>2, <1>5, <2>1, <2>2 DEF Fits
<1>6. CASE m.type = "Suffix"
  <2>1. m.pattern # <<>> /\ IsSuffix(m.pattern, input)
    BY <1>6 DEF BinaryMatches
  <2>2. /\ Len(m.pattern) <= Len(input)
        /\ \A k \in 1 .. Len(m.pattern) : input[(Len(input) - Len(m.pattern)) + k] = m.pattern[k]
    BY <1>1, <2>1, SuffixElements
  <2>3. QED
    BY <1>1, <1>2, <1>6, <2>1, <2>2 DEF Fits
<1>7. QED
  BY <1>1, <1>3, <1>4, <1>5, <1>6

\* scope_matches accepts only requests that are inside the scope.
LEMMA MatchCovers ==
    ASSUME NEW c \in Calls \cup Solo, c.tok.scopes # Absent, NEW k \in DOMAIN c.tok.scopes,
           ScopeMatches(c.tok.scopes[k], c.ctx.action, c.ctx.namespace, c.ctx.track)
    PROVE  Covers(c.tok.scopes[k], c.ctx)
<1> DEFINE scope == c.tok.scopes[k]
           ns == c.ctx.namespace
<1>1. /\ IsList(c.ctx.track) /\ IsList(ns)
      /\ \A i \in DOMAIN ns : ns[i] # Absent /\ IsList(ns[i])
      /\ \A m \in Range(scope.namespace_matches) \ {Nil} : WellFormed(m)
      /\ IsList(scope.namespace_matches)
      /\ scope.track_match # Absent => WellFormed(scope.track_match)
  BY RequestConstants
<1>2. Len(ns) \in Nat /\ DOMAIN ns = 1 .. Len(ns)
  BY <1>1, Listed
<1>3. /\ c.ctx.action \in scope.actions
      /\ \A i \in DOMAIN scope.namespace_matches :
             NamespaceMatches(scope.namespace_matches[i], Element(ns, i))
      /\ scope.track_match # Absent => BinaryMatches(scope.track_match, c.ctx.track)
  BY DEF ScopeMatches
<1>4. DOMAIN scope.namespace_matches = 1 .. Len(scope.namespace_matches)
      /\ Len(scope.namespace_matches) \in Nat
  BY <1>1, Listed
<1>5. ASSUME NEW i \in DOMAIN scope.namespace_matches
      PROVE  LET m == scope.namespace_matches[i]
             IN  IF m = Nil THEN Len(ns) < i ELSE i <= Len(ns) /\ Fits(m, ns[i])
  <2> DEFINE m == scope.namespace_matches[i]
  <2>1. i \in Nat /\ i >= 1 /\ m \in Range(scope.namespace_matches)
    BY <1>4 DEF Range
  <2>2. NamespaceMatches(m, Element(ns, i))
    BY <1>3
  <2>3. CASE m = Nil
    <3>1. i \notin DOMAIN ns
      BY <1>1, <2>2, <2>3 DEF NamespaceMatches, Element
    <3>2. QED
      BY <1>2, <2>1, <2>3, <3>1
  <2>4. CASE m # Nil
    <3>1. i \in DOMAIN ns /\ BinaryMatches(m, ns[i])
      BY <2>2, <2>4 DEF NamespaceMatches, Element
    <3>2. WellFormed(m) /\ IsList(ns[i])
      BY <1>1, <2>1, <2>4, <3>1
    <3>3. Fits(m, ns[i])
      <4> HIDE DEF m, ns
      <4> QED
        BY <3>1, <3>2, MatchFits
    <3>4. QED
      BY <1>2, <2>4, <3>1, <3>3
  <2>5. QED
    BY <2>3, <2>4
<1>6. scope.track_match # Absent => Fits(scope.track_match, c.ctx.track)
  BY <1>1, <1>3, MatchFits
<1>7. QED
  BY <1>3, <1>5, <1>6 DEF Covers

\* Whoever is granted a request was entitled to it: a scope of the token covers
\* it byte by byte, a bound token came with a proof its holder signed for this
\* token and action, and a token that demands replay protection had a guard.
THEOREM GrantsAreEntitled == RSpec => []GrantIsEntitled
<1>1. RInv => GrantIsEntitled
  <2> SUFFICES ASSUME RInv, NEW i \in DOMAIN calls, Granted(i)
               PROVE  Entitled(calls[i].call)
    BY DEF GrantIsEntitled
  <2> DEFINE c == calls[i].call
  <2>1. Passed(calls[i]) /\ c \in Calls \cup Solo /\ GuardAsked(calls[i]) /\ calls[i].answer = "Ok"
    BY GrantedFrame DEF FrameOK
  <2>2. /\ ScopeIndex(c.tok, c.ctx) # 0
        /\ c.tok.cnf # Absent =>
              /\ c.ctx.proof.sigKey = c.tok.cnf
              /\ c.tok.hash # Absent => c.ctx.proof.ath = c.tok.hash
              /\ c.ctx.proof.action = c.ctx.action
    BY <2>1, DecisionPasses DEF Passed
  <2>3. c.tok.cnf # Absent => c.tok.hash # Absent
    BY <2>1, RelayConstants
  <2>4. MandatesGuard(c.tok) => c.guard # Absent
    BY <2>1 DEF GuardAsked
  <2>5. c.tok.scopes # Absent
    BY <2>2 DEF ScopeIndex, MatchScopeIndex
  <2>6. \E k \in DOMAIN c.tok.scopes :
            ScopeMatches(c.tok.scopes[k], c.ctx.action, c.ctx.namespace, c.ctx.track)
    <3>1. IsList(c.tok.scopes)
      BY <2>1, <2>5, RequestConstants
    <3>2. DOMAIN c.tok.scopes = 1 .. Len(c.tok.scopes)
      BY <3>1, Listed
    <3>3. QED
      BY <2>2, <2>5, <3>2 DEF ScopeIndex, MatchScopeIndex, SelectInSeq
  <2>7. \E k \in DOMAIN c.tok.scopes : Covers(c.tok.scopes[k], c.ctx)
    BY <2>1, <2>5, <2>6, MatchCovers
  <2>8. QED
    BY <2>2, <2>3, <2>4, <2>5, <2>7 DEF Entitled
<1>2. QED
  BY <1>1, RelayInvariant, PTL

\* A call that is under way or has been granted got past the policy.
Admitted ==
    \A i \in DOMAIN calls : calls[i].pc # "done" \/ calls[i].answer = "Ok" =>
        PolicyError(Cfg, calls[i].call.tok, calls[i].call.ctx) = "none"

\* A call arrives under way only if it got past the policy.
LEMMA OpeningAdmitted ==
    ASSUME NEW c \in Calls \cup Solo, Opening(c).pc # "done" \/ Opening(c).answer = "Ok"
    PROVE  PolicyError(Cfg, c.tok, c.ctx) = "none"
<1> SUFFICES ASSUME PolicyError(Cfg, c.tok, c.ctx) # "none" PROVE FALSE
  OBVIOUS
<1> DEFINE e == PolicyError(Cfg, c.tok, c.ctx)
<1>1. e \in Refusals /\ e # "Ok"
  BY PolicyRefuses DEF Refusals
<1>2. Opening(c) = Answered(Fresh(c), e)
  BY DEF Opening, OrElse
<1> HIDE DEF e
<1>3. Opening(c).pc = "done" /\ Opening(c).answer = e
  <2>1. "pc" \in DOMAIN Fresh(c) /\ "answer" \in DOMAIN Fresh(c)
    BY DEF Fresh
  <2>2. QED
    BY <1>2, <2>1 DEF Answered
<1>4. QED
  BY <1>1, <1>3

\* A step is taken by a call that is under way.
LEMMA StepsAreOpen ==
    ASSUME NEW i, Step(i) \/ Cancel(i)
    PROVE  i \in DOMAIN calls /\ calls[i].pc # "done"
BY DEF Step, Cancel, PorLookup, PorDraw, Decide, CommitJti, JtiFails, SkipCti, CommitCti, CtiFails,
       JoinFails, Offloading, AsksGuard, At

\* Whoever is granted a request lacks nothing the token restricts, named the
\* right relay, protocol and method, and had the bindings the configuration
\* insists on: authorize_precommit fails closed on missing context.
THEOREM GrantsAreWithinPolicy == RSpec => []GrantIsWithinPolicy
<1>1. RInit => Admitted
  BY DEF RInit, Admitted
<1>2. RInv /\ Admitted /\ [RNext]_relayVars => Admitted'
  <2> SUFFICES ASSUME RInv, Admitted, [RNext]_relayVars PROVE Admitted'
    OBVIOUS
  <2>1. ASSUME NEW c \in Arriving, Begin(c) PROVE Admitted'
    <3>1. PICK n \in Nat : /\ DOMAIN calls = 1 .. n /\ DOMAIN calls' = 1 .. n + 1
                           /\ calls'[n + 1] = Opening(c)
                           /\ \A j \in 1 .. n : calls'[j] = calls[j]
      BY <2>1, ArrivedFrames
    <3>2. c \in Calls \cup Solo /\ Opening(c).call = c
      BY <2>1, ArrivedFrames, OpeningFrame
    <3>3. \A j \in DOMAIN calls' : (j \in DOMAIN calls /\ calls'[j] = calls[j]) \/ j = n + 1
      BY <3>1
    <3>4. Opening(c).pc # "done" \/ Opening(c).answer = "Ok" => PolicyError(Cfg, c.tok, c.ctx) = "none"
      BY <3>2, OpeningAdmitted
    <3>5. QED
      BY <3>1, <3>2, <3>3, <3>4 DEF Admitted
  <2>2. ASSUME NEW i, Step(i) \/ Cancel(i) PROVE Admitted'
    <3>1. i \in DOMAIN calls /\ calls[i].pc # "done"
      BY <2>2, StepsAreOpen
    <3>2. PICK g : Rewrites(i, g)
      BY <2>2, StepsAreMoves DEF RInv, Moves, KeepsRecords, BurnsJti, BurnsCti
    <3>3. /\ DOMAIN calls' = DOMAIN calls
          /\ \A j \in DOMAIN calls : calls'[j].call = calls[j].call /\ (j # i => calls'[j] = calls[j])
      BY <3>1, <3>2 DEF Rewrites
    <3>4. QED
      BY <3>1, <3>3 DEF Admitted
  <2>3. CASE RTick \/ UNCHANGED relayVars
    BY <2>3 DEF RTick, relayVars, Admitted
  <2>4. QED
    BY <2>1, <2>2, <2>3 DEF RNext
<1>3. RInv /\ Admitted => GrantIsWithinPolicy
  <2> SUFFICES ASSUME RInv, Admitted, NEW i \in DOMAIN calls, Granted(i)
               PROVE  WithinPolicy(calls[i].call)
    BY DEF GrantIsWithinPolicy
  <2>1. calls[i].call \in Calls \cup Solo /\ calls[i].answer = "Ok"
    BY GrantedFrame DEF FrameOK
  <2>2. PolicyError(Cfg, calls[i].call.tok, calls[i].call.ctx) = "none"
    BY <2>1 DEF Admitted
  <2>3. calls[i].call.tok.catnip # Absent =>
            \A n \in calls[i].call.tok.catnip : IsIpBased(n) \/ IsAsnBased(n)
    BY <2>1, RequestConstants
  <2>4. QED
    BY <2>2, <2>3, PolicyPasses DEF WithinPolicy
<1>4. QED
  BY <1>1, <1>2, <1>3, RelayInvariant, PTL DEF RSpec

-----------------------------------------------------------------------------
(* Replays.                                                                *)

\* Call j put what call i is about to put on record there before it.
Earlier(j, i) ==
    \/ /\ calls[j].jtiBurned
       /\ JtiStoreOf(j) = JtiStoreOf(i)
       /\ calls[j].pre.jti = calls[i].pre.jti
    \/ calls[j].ctiBurned /\ calls[j].pre.cti = calls[i].pre.cti

\* A move of call i keeps every other call's reason for being a replay.
LEMMA MoveKeepsReplays ==
    ASSUME RInv, ReplayNeedsEarlierUse, NEW i, Moves(i)
    PROVE  ReplayNeedsEarlierUse'
<1>1. PICK g : KeepsRecords(i, g) \/ BurnsJti(i, g) \/ BurnsCti(i, g)
  BY DEF Moves
<1>2. Rewrites(i, g)
  BY <1>1 DEF KeepsRecords, BurnsJti, BurnsCti
<1>3. /\ DOMAIN calls' = DOMAIN calls /\ i \in DOMAIN calls /\ calls'[i] = g
      /\ \A j \in DOMAIN calls : j # i => calls'[j] = calls[j]
      /\ \A j \in DOMAIN calls : JtiStoreOf(j)' = JtiStoreOf(j)
  BY <1>2, MovedFrames
<1>4. \A j \in DOMAIN calls :
          /\ calls[j].jtiBurned => calls'[j].jtiBurned /\ calls'[j].pre = calls[j].pre
          /\ calls[j].ctiBurned => calls'[j].ctiBurned /\ calls'[j].pre = calls[j].pre
  BY <1>1, <1>3 DEF KeepsRecords, BurnsJti, BurnsCti
<1>5. ASSUME NEW k \in DOMAIN calls, k # i, calls'[k].answer = "ReplayAttackDetected"
      PROVE  \E j \in DOMAIN calls \ {k} : Earlier(j, k)'
  <2>1. calls'[k] = calls[k]
    BY <1>3, <1>5
  <2>2. PICK j \in DOMAIN calls \ {k} : Earlier(j, k)
    BY <1>5, <2>1 DEF ReplayNeedsEarlierUse, Earlier
  <2>3. Earlier(j, k)'
    BY <1>3, <1>4, <2>1, <2>2 DEF Earlier
  <2>4. QED
    BY <2>3
<1>6. ASSUME g.answer = "ReplayAttackDetected"
      PROVE  \E j \in DOMAIN calls \ {i} : Earlier(j, i)'
  <2>1. /\ KeepsRecords(i, g)
        /\ g.jtiBurned = calls[i].jtiBurned /\ g.ctiBurned = calls[i].ctiBurned
        /\ \/ ~g.jtiBurned /\ g.pre.jti \in jtis[JtiStoreOf(i)]
           \/ ~g.ctiBurned /\ g.pre.cti \in ctis
    BY <1>1, <1>6 DEF KeepsRecords, BurnsJti, BurnsCti
  <2>2. CASE ~g.jtiBurned /\ g.pre.jti \in jtis[JtiStoreOf(i)]
    <3>1. PICK j \in DOMAIN calls : /\ calls[j].jtiBurned /\ JtiStoreOf(j) = JtiStoreOf(i)
                                    /\ calls[j].pre.jti = g.pre.jti
      BY <1>3, <2>2, StoresOfCalls DEF RInv, JtiRecords
    <3>2. j # i
      BY <2>1, <2>2, <3>1
    <3>3. Earlier(j, i)'
      BY <1>3, <1>4, <3>1 DEF Earlier
    <3>4. QED
      BY <3>2, <3>3
  <2>3. CASE ~g.ctiBurned /\ g.pre.cti \in ctis
    <3>1. PICK j \in DOMAIN calls : calls[j].ctiBurned /\ calls[j].pre.cti = g.pre.cti
      BY <2>3 DEF RInv, CtiRecords
    <3>2. j # i
      BY <2>1, <2>3, <3>1
    <3>3. Earlier(j, i)'
      BY <1>3, <1>4, <3>1 DEF Earlier
    <3>4. QED
      BY <3>2, <3>3
  <2>4. QED
    BY <2>1, <2>2, <2>3
<1>7. QED
  BY <1>3, <1>5, <1>6 DEF ReplayNeedsEarlierUse, Earlier

\* So does every other step.
LEMMA StepKeepsReplays ==
    ASSUME RInv, ReplayNeedsEarlierUse, [RNext]_relayVars
    PROVE  ReplayNeedsEarlierUse'
<1>1. ASSUME NEW c \in Arriving, Begin(c)
      PROVE  ReplayNeedsEarlierUse'
  <2>1. PICK n \in Nat : /\ DOMAIN calls = 1 .. n /\ DOMAIN calls' = 1 .. n + 1
                         /\ calls'[n + 1] = Opening(c)
                         /\ \A j \in 1 .. n : calls'[j] = calls[j]
    BY <1>1, ArrivedFrames
  <2>2. calls'[n + 1].answer # "ReplayAttackDetected"
    <3>1. c \in Calls \cup Solo
      BY <1>1, ArrivedFrames
    <3>2. QED
      BY <2>1, <3>1, OpeningFrame
  <2>3. /\ DOMAIN calls \subseteq DOMAIN calls'
        /\ \A j \in DOMAIN calls' : j \in DOMAIN calls \/ j = n + 1
        /\ \A j \in DOMAIN calls : calls'[j] = calls[j] /\ JtiStoreOf(j)' = JtiStoreOf(j)
    BY <2>1 DEF JtiStoreOf
  <2>4. QED
    BY <2>2, <2>3 DEF ReplayNeedsEarlierUse
<1>2. ASSUME NEW i, Step(i) \/ Cancel(i)
      PROVE  ReplayNeedsEarlierUse'
  <2>1. Moves(i)
    BY <1>2, StepsAreMoves DEF RInv
  <2>2. QED
    BY <2>1, MoveKeepsReplays
<1>3. CASE RTick \/ UNCHANGED relayVars
  BY <1>3 DEF RTick, relayVars, ReplayNeedsEarlierUse, JtiStoreOf
<1>4. QED
  BY <1>1, <1>2, <1>3 DEF RNext

\* A call is refused as a replay only because of another call: commit and
\* commit_async never trip over the call's own record, however its backend
\* answered.
THEOREM ReplaysNeedEarlierUse == RSpec => []ReplayNeedsEarlierUse
<1>1. RInit => ReplayNeedsEarlierUse
  BY DEF RInit, ReplayNeedsEarlierUse
<1>2. RInv /\ ReplayNeedsEarlierUse /\ [RNext]_relayVars => ReplayNeedsEarlierUse'
  BY StepKeepsReplays
<1>3. QED
  BY <1>1, <1>2, RelayInvariant, PTL DEF RSpec

-----------------------------------------------------------------------------
(* The block lists.                                                        *)

\* An entry of a block list.
PorEntry == [id : PorIds, val : {c.tok.catpor.exp : c \in Calls \cup Solo}]

ListsOK == por \in [Lists -> Seq(PorEntry)] /\ ListRecords

\* The calls of s that have put their id on the shared list l, and their ids.
BlockersIn(s, l) ==
    {k \in DOMAIN s : s[k].blocks /\ s[k].call.path # "offloaded" /\ s[k].call.list = l}
IdsIn(s, l) == {s[j].call.tok.catpor.id : j \in BlockersIn(s, l)}

\* There are finitely many of them.
LEMMA IdsAreFinite ==
    ASSUME NEW S, NEW s \in Seq(S), NEW l
    PROVE  IsFiniteSet(IdsIn(s, l))
<1> DEFINE B == BlockersIn(s, l)
           T == IdsIn(s, l)
           f == [j \in B |-> s[j].call.tok.catpor.id]
<1>1. DOMAIN s = 1 .. Len(s) /\ Len(s) \in Nat
  OBVIOUS
<1>2. IsFiniteSet(B)
  <2>1. IsFiniteSet(DOMAIN s)
    BY <1>1, FS_Interval
  <2>2. B \subseteq DOMAIN s
    BY DEF BlockersIn
  <2>3. QED
    BY <2>1, <2>2, FS_Subset
<1>3. f \in Surjection(B, T)
  BY DEF Surjection, IdsIn
<1> HIDE DEF f, B, T
<1>4. IsFiniteSet(T)
  BY <1>2, <1>3, FS_Surjection
<1>5. QED
  BY <1>4 DEF T

\* What a step leaves of a call, as far as the shared lists are concerned.
KeepsBlocks(k) ==
    /\ calls'[k].call = calls[k].call
    /\ calls[k].call.path # "offloaded" =>
           calls'[k].blocks = calls[k].blocks /\ calls'[k].leaked = calls[k].leaked

\* If the calls that blocked their id on l are the same before and after a
\* step, and the entries of l at most change their order, l's record stands.
LEMMA RecordKept ==
    ASSUME NEW l \in Lists, ListsOK,
           por' \in [Lists -> Seq(PorEntry)], DistinctIds(por'[l]),
           \A p \in DOMAIN por'[l] : \E q \in DOMAIN por[l] : por'[l][p] = por[l][q],
           \A q \in DOMAIN por[l] : \E p \in DOMAIN por'[l] : por'[l][p] = por[l][q],
           BlockersIn(calls', l) = BlockersIn(calls, l),
           \A k \in BlockersIn(calls, l) : calls'[k].call = calls[k].call
    PROVE  ListRecord(l)'
<1> DEFINE B == Blockers(l)
<1>1. /\ Blockers(l)' = B
      /\ \A k \in B : calls'[k].call = calls[k].call
      /\ \A id : Crowd(l, id)' = Crowd(l, id)
  BY DEF Blockers, BlockersIn, Crowd
<1>2. /\ ListRecord(l) /\ por[l] \in Seq(PorEntry) /\ por'[l] \in Seq(PorEntry)
  BY DEF ListsOK, ListRecords
<1> HIDE DEF B
<1>3. ASSUME NEW p \in DOMAIN por'[l]
      PROVE  \E k \in B : /\ calls'[k].call.tok.catpor.id = por'[l][p].id
                          /\ calls'[k].call.tok.catpor.exp = por'[l][p].val
  <2>1. PICK q \in DOMAIN por[l] : por'[l][p] = por[l][q]
    BY <1>3
  <2>2. PICK k \in B : /\ calls[k].call.tok.catpor.id = por[l][q].id
                       /\ calls[k].call.tok.catpor.exp = por[l][q].val
    BY <1>2, <2>1 DEF ListRecord, B
  <2>3. QED
    BY <1>1, <2>1, <2>2
<1>4. ASSUME NEW id, Find(por[l], id) # 0
      PROVE  Find(por'[l], id) # 0
  <2>1. Find(por[l], id) \in DOMAIN por[l] /\ por[l][Find(por[l], id)].id = id
    <3> DEFINE cache == por[l]
    <3>1. cache \in Seq(PorEntry) /\ Find(cache, id) # 0
      BY <1>2, <1>4
    <3> HIDE DEF cache
    <3>2. Find(cache, id) \in DOMAIN cache /\ cache[Find(cache, id)].id = id
      BY <3>1, FindProperties
    <3>3. QED
      BY <3>2 DEF cache
  <2>2. PICK p \in DOMAIN por'[l] : por'[l][p].id = id
    BY <2>1
  <2>3. QED
    BY <1>2, <2>2, FindProperties
<1>5. ASSUME NEW k \in B
      PROVE  LET id == calls'[k].call.tok.catpor.id
             IN  Find(por'[l], id) # 0 \/ Cardinality(Crowd(l, id)) >= PorCapacity
  <2>1. calls'[k].call = calls[k].call
    BY <1>1, <1>5
  <2>2. LET id == calls[k].call.tok.catpor.id
        IN  Find(por[l], id) # 0 \/ Cardinality(Crowd(l, id)) >= PorCapacity
    BY <1>2, <1>5 DEF ListRecord, B
  <2>3. QED
    BY <1>4, <2>1, <2>2
<1>6. QED
  BY <1>1, <1>3, <1>5 DEF ListRecord

\* An id that is pushed out of its shard leaves a full shard of others behind.
LEMMA CrowdedOut ==
    ASSUME NEW cache \in Seq(PorEntry), DistinctIds(cache), NEW id \in PorIds,
           Find(cache, id) = 0, NEW ids, IsFiniteSet(ids),
           id \in ids, \A p \in DOMAIN cache : cache[p].id \in ids,
           NEW out \in DOMAIN cache, out = Displaced(cache, id, PorShardOf, PorCapacity)
    PROVE  Cardinality(ids \cap {r \in PorIds \ {cache[out].id} :
                                     PorShardOf[r] = PorShardOf[cache[out].id]}) >= PorCapacity
<1> DEFINE A == InShard(cache, PorShardOf, PorShardOf[id])
           d == cache[out].id
           T == ids \cap {r \in PorIds \ {d} : PorShardOf[r] = PorShardOf[d]}
           h == [p \in A |-> IF p = out THEN id ELSE cache[p].id]
<1>1. out \in A /\ Cardinality(A) >= PorCapacity
  <2>1. /\ Cardinality(A) < PorCapacity => out = 0
        /\ Cardinality(A) >= PorCapacity => out \in A
    BY DisplacedProperties, PorConstants
  <2>2. Cardinality(A) \in Nat /\ PorCapacity \in Nat
    BY ShardIsFinite, PorConstants
  <2>3. out # 0
    OBVIOUS
  <2>4. QED
    BY <2>1, <2>2, <2>3
<1>2. \A p \in A : p \in DOMAIN cache /\ PorShardOf[cache[p].id] = PorShardOf[id]
  BY DEF InShard
<1>3. \A p \in DOMAIN cache : cache[p].id \in PorIds /\ cache[p].id # id
  <2>1. \A p \in DOMAIN cache : cache[p] \in PorEntry
    OBVIOUS
  <2>2. \A p \in DOMAIN cache : cache[p].id # id
    BY FindProperties
  <2>3. QED
    BY <2>1, <2>2 DEF PorEntry
<1> HIDE DEF A
<1>4. h \in [A -> T]
  <2>1. ASSUME NEW p \in A, p # out PROVE cache[p].id \in T
    BY <1>1, <1>2, <1>3, <2>1 DEF DistinctIds
  <2>2. id \in T
    BY <1>1, <1>2, <1>3
  <2> HIDE DEF T
  <2>3. QED
    BY <2>1, <2>2
<1>5. \A p, q \in A : h[p] = h[q] => p = q
  BY <1>1, <1>2, <1>3 DEF DistinctIds
<1>6. IsFiniteSet(T)
  BY FS_Subset
<1> HIDE DEF h, T
<1>7. h \in Injection(A, T)
  BY <1>4, <1>5 DEF Injection, IsInjective
<1>8. IsFiniteSet(A) /\ Cardinality(A) <= Cardinality(T)
  BY <1>6, <1>7, FS_Injection
<1>9. Cardinality(A) \in Nat /\ Cardinality(T) \in Nat
  BY <1>6, <1>8, FS_CardinalityType
<1>10. Cardinality(T) >= PorCapacity
  BY <1>1, <1>8, <1>9, PorConstants
<1>11. QED
  BY <1>10 DEF T

\* A rejection by chance puts the call's id on its list.
LEMMA RecordAdded ==
    ASSUME RInv, ListsOK, NEW i \in DOMAIN calls, NEW l \in Lists, NEW g,
           calls[i].call.path # "offloaded", calls[i].call.list = l,
           calls[i].call.tok.catpor # Absent,
           calls' = [calls EXCEPT ![i] = g], g.call = calls[i].call, g.blocks = TRUE,
           por' = [por EXCEPT ![l] = Added(por[l], calls[i].call.tok.catpor.id,
                                                   calls[i].call.tok.catpor.exp)]
    PROVE  ListsOK'
<1> DEFINE id == calls[i].call.tok.catpor.id
           exp == calls[i].call.tok.catpor.exp
           cache == por[l]
           c == Added(cache, id, exp)
           out == Displaced(cache, id, PorShardOf, PorCapacity)
           e == [id |-> id, val |-> exp]
<1>1. calls \in Seq(Range(calls)) /\ calls[i].call \in Calls \cup Solo
  BY DEF RInv, Frames, FrameOK
<1>2. id \in PorIds /\ e \in PorEntry
  BY <1>1, RelayConstants DEF PorEntry
<1>3. cache \in Seq(PorEntry) /\ DistinctIds(cache) /\ ListRecord(l)
  BY DEF ListsOK, ListRecords, ListRecord
<1>4. /\ c \in Seq(PorEntry)
      /\ DistinctIds(c)
      /\ \A p \in DOMAIN c : c[p] = e \/ \E q \in DOMAIN cache : q # out /\ c[p] = cache[q]
      /\ \A q \in DOMAIN cache : q # out => \E p \in DOMAIN c : c[p] = cache[q]
      /\ \E p \in DOMAIN c : c[p] = e
  <2> HIDE DEF id, exp, cache
  <2>1. QED
    BY <1>2, <1>3, PutEntries, PorConstants DEF Added
<1>5. e.id = id /\ e.val = exp
  OBVIOUS
<1>6. /\ por' \in [Lists -> Seq(PorEntry)] /\ por'[l] = c
      /\ \A m \in Lists : m # l => por'[m] = por[m]
  <2> HIDE DEF c
  <2>1. QED
    BY <1>4 DEF ListsOK, c
<1>7. /\ DOMAIN calls' = DOMAIN calls /\ calls' \in Seq(Range(calls) \cup {g})
      /\ \A k \in DOMAIN calls : k # i => calls'[k] = calls[k]
      /\ \A k \in DOMAIN calls : calls'[k].call = calls[k].call
      /\ calls'[i].blocks = TRUE
  BY <1>1
<1>8. ASSUME NEW m \in Lists, m # l PROVE ListRecord(m)'
  <2>1. /\ BlockersIn(calls', m) = BlockersIn(calls, m)
        /\ \A k \in BlockersIn(calls, m) : calls'[k].call = calls[k].call
    <3>1. \A k \in DOMAIN calls : k \in BlockersIn(calls', m) <=> k \in BlockersIn(calls, m)
      BY <1>7, <1>8 DEF BlockersIn
    <3>2. QED
      BY <1>7, <3>1 DEF BlockersIn
  <2>2. por'[m] = por[m] /\ DistinctIds(por[m])
    BY <1>6, <1>8 DEF ListsOK, ListRecords, ListRecord
  <2>3. QED
    BY <1>6, <2>1, <2>2, RecordKept
<1>9. ListRecord(l)'
  <2> DEFINE B == Blockers(l)
             ids == IdsIn(calls', l)
  <2>1. Blockers(l)' = B \cup {i}
    BY <1>7 DEF Blockers
  <2>2. \A k \in B : k \in DOMAIN calls
    BY DEF Blockers
  <2>3. IsFiniteSet(ids)
    BY <1>7, IdsAreFinite
  <2>4. id \in ids /\ \A k \in B : calls[k].call.tok.catpor.id \in ids
    <3>1. \A k \in B \cup {i} : k \in BlockersIn(calls', l)
      BY <2>1 DEF Blockers, BlockersIn
    <3>2. \A k \in B \cup {i} : calls'[k].call.tok.catpor.id \in ids
      BY <3>1 DEF IdsIn
    <3>3. QED
      BY <1>7, <2>2, <3>2
  <2>5. \A x : /\ Crowd(l, x)' = ids \cap {r \in PorIds \ {x} : PorShardOf[r] = PorShardOf[x]}
               /\ Crowd(l, x) \subseteq Crowd(l, x)'
    <3>1. \A x : Crowd(l, x)' = ids \cap {r \in PorIds \ {x} : PorShardOf[r] = PorShardOf[x]}
      BY DEF Crowd, IdsIn, Blockers, BlockersIn
    <3> HIDE DEF ids
    <3>2. QED
      BY <2>4, <3>1 DEF Crowd
  <2> HIDE DEF c, out, e, id, exp, cache, B, ids
  <2>6. \A p \in DOMAIN cache : \E k \in B : /\ calls[k].call.tok.catpor.id = cache[p].id
                                             /\ calls[k].call.tok.catpor.exp = cache[p].val
    BY <1>3 DEF ListRecord, B, cache
  <2>7. ASSUME NEW p \in DOMAIN c
        PROVE  \E k \in B \cup {i} : /\ calls'[k].call.tok.catpor.id = c[p].id
                                     /\ calls'[k].call.tok.catpor.exp = c[p].val
    <3>1. CASE c[p] = e
      BY <1>5, <1>7, <3>1 DEF id, exp
    <3>2. CASE c[p] # e
      <4>1. PICK q \in DOMAIN cache : c[p] = cache[q]
        BY <1>4, <3>2
      <4>2. PICK k \in B : /\ calls[k].call.tok.catpor.id = cache[q].id
                           /\ calls[k].call.tok.catpor.exp = cache[q].val
        BY <2>6
      <4>3. QED
        BY <1>7, <2>2, <4>1, <4>2
    <3>3. QED
      BY <3>1, <3>2
  <2>8. \A p \in DOMAIN c : Find(c, c[p].id) # 0
    BY <1>4, FindProperties
  <2>9. ASSUME NEW k \in B \cup {i}, NEW x, x = calls'[k].call.tok.catpor.id
        PROVE  Find(c, x) # 0 \/ Cardinality(Crowd(l, x)') >= PorCapacity
    <3>1. x = calls[k].call.tok.catpor.id
      BY <1>7, <2>2, <2>9
    <3>2. CASE x = id
      BY <1>4, <1>5, <2>8, <3>2
    <3>3. CASE x # id /\ Find(cache, x) # 0
      <4> DEFINE q == Find(cache, x)
      <4>1. q \in DOMAIN cache /\ cache[q].id = x
        BY <1>3, <3>3, FindProperties
      <4> HIDE DEF q
      <4>2. CASE q # out
        BY <1>4, <2>8, <4>1, <4>2
      <4>3. CASE q = out
        <5>1. Find(cache, id) = 0
          <6> SUFFICES ASSUME Find(cache, id) # 0 PROVE FALSE
            OBVIOUS
          <6>1. out = Find(cache, id) /\ cache[Find(cache, id)].id = id
            BY <1>3, FindProperties, DisplacedProperties, PorConstants DEF out
          <6>2. QED
            BY <3>3, <4>1, <4>3, <6>1
        <5>2. \A p \in DOMAIN cache : cache[p].id \in ids
          BY <2>4, <2>6
        <5>3. Cardinality(ids \cap {r \in PorIds \ {cache[out].id} :
                                        PorShardOf[r] = PorShardOf[cache[out].id]}) >= PorCapacity
          BY <1>2, <1>3, <2>3, <2>4, <4>1, <4>3, <5>1, <5>2, CrowdedOut DEF out
        <5>4. QED
          BY <2>5, <4>1, <4>3, <5>3
      <4>4. QED
        BY <4>2, <4>3
    <3>4. CASE x # id /\ Find(cache, x) = 0
      <4>1. k \in B
        BY <3>1, <3>4 DEF id
      <4>2. Cardinality(Crowd(l, x)) >= PorCapacity
        BY <1>3, <3>1, <3>4, <4>1 DEF ListRecord, B, cache
      <4> DEFINE T == Crowd(l, x)'
      <4>3. IsFiniteSet(T) /\ Crowd(l, x) \in SUBSET T
        BY <2>3, <2>5, FS_Subset
      <4> HIDE DEF T
      <4>4. /\ Cardinality(Crowd(l, x)) <= Cardinality(T) /\ IsFiniteSet(Crowd(l, x))
        BY <4>3, FS_Subset
      <4>5. Cardinality(T) \in Nat /\ Cardinality(Crowd(l, x)) \in Nat
        BY <4>3, <4>4, FS_CardinalityType
      <4>6. Cardinality(T) >= PorCapacity
        BY <4>2, <4>4, <4>5, PorConstants
      <4>7. QED
        BY <4>6 DEF T
    <3>5. QED
      BY <3>2, <3>3, <3>4
  <2>10. \A p \in DOMAIN c : \E k \in B \cup {i} :
            /\ calls'[k].call.tok.catpor.id = c[p].id
            /\ calls'[k].call.tok.catpor.exp = c[p].val
    BY <2>7
  <2>11. DistinctIds(c) /\ por'[l] = c
    BY <1>4, <1>6
  <2>12. QED
    BY <2>1, <2>9, <2>10, <2>11 DEF ListRecord
<1>10. QED
  BY <1>6, <1>8, <1>9 DEF ListsOK, ListRecords

\* A step leaves the shared lists, and the calls as far as they matter there.
LeavesLists ==
    /\ por' = por
    /\ DOMAIN calls' = DOMAIN calls
    /\ \A k \in DOMAIN calls : KeepsBlocks(k)

\* Call i works on the shared list l, and its frame becomes g.
UsesList(i, l, g) ==
    /\ i \in DOMAIN calls /\ l \in Lists
    /\ calls[i].call.path # "offloaded" /\ calls[i].call.list = l
    /\ calls[i].call.tok.catpor # Absent
    /\ calls' = [calls EXCEPT ![i] = g]
    /\ g.call = calls[i].call

\* It looks its id up, and may pass the lookup only if it is not blocked.
LooksUp(i, l, g) ==
    LET id == calls[i].call.tok.catpor.id
    IN  /\ UsesList(i, l, g)
        /\ g.blocks = calls[i].blocks
        /\ por' = [por EXCEPT ![l] = Touched(por[l], id)]
        /\ g.leaked => \/ calls[i].leaked
                       \/ /\ ~IsBlocked(por[l], id, now)
                          /\ id \in InForce(l)
                          /\ Cardinality(Crowd(l, id)) < PorCapacity

\* It is rejected by chance.
PutsOn(i, l, g) ==
    LET p == calls[i].call.tok.catpor
    IN  /\ UsesList(i, l, g)
        /\ g.blocks = TRUE /\ g.leaked = calls[i].leaked
        /\ por' = [por EXCEPT ![l] = Added(por[l], p.id, p.exp)]

\* The steps that have nothing to do with catpor leave the lists.
LEMMA OtherStepsLeaveLists ==
    ASSUME RInv, NEW i,
           \/ Decide(i) \/ CommitJti(i) \/ JtiFails(i) \/ SkipCti(i) \/ CommitCti(i)
           \/ CtiFails(i) \/ JoinFails(i) \/ Cancel(i)
    PROVE  LeavesLists
<1> DEFINE f == calls[i]
           Same(g) == g.call = f.call /\ g.blocks = f.blocks /\ g.leaked = f.leaked
<1>1. i \in DOMAIN calls /\ por' = por
  BY DEF Decide, CommitJti, JtiFails, SkipCti, CommitCti, CtiFails, JoinFails, Cancel,
         AsksGuard, Offloading, At
<1>2. DOMAIN f = FrameFields
  <2>1. FrameOK(f)
    BY <1>1 DEF RInv, Frames
  <2>2. QED
    BY <2>1, AnsweredFrame
<1>3. ASSUME NEW g, Same(g), calls' = [calls EXCEPT ![i] = g]
      PROVE  LeavesLists
  BY <1>1, <1>3 DEF LeavesLists, KeepsBlocks
<1>4. \A r : /\ Same(Answered(f, r))
             /\ Same([Answered(f, r) EXCEPT !.jtiBurned = TRUE])
             /\ Same([Answered(f, r) EXCEPT !.ctiBurned = TRUE])
  BY <1>2 DEF Answered, FrameFields
<1>5. \A b, r : Same([Answered(f, "Ok") EXCEPT !.reuse = b, !.ctiBurned = r])
  BY <1>2 DEF Answered, FrameFields
<1>6. Same([f EXCEPT !.pc = "cti", !.jtiBurned = TRUE])
  BY <1>2 DEF FrameFields
<1>7. \A pre, pc : Same([f EXCEPT !.pre = pre, !.pc = pc])
  BY <1>2 DEF FrameFields
<1> HIDE DEF Same
<1>8. CASE Decide(i)
  BY <1>3, <1>4, <1>7, <1>8 DEF Decide
<1>9. CASE CommitJti(i)
  BY <1>3, <1>4, <1>6, <1>9 DEF CommitJti
<1>10. CASE JtiFails(i)
  BY <1>3, <1>4, <1>10 DEF JtiFails
<1>11. CASE SkipCti(i)
  BY <1>3, <1>4, <1>11 DEF SkipCti
<1>12. CASE CommitCti(i)
  BY <1>3, <1>4, <1>5, <1>12 DEF CommitCti
<1>13. CASE CtiFails(i)
  BY <1>3, <1>4, <1>13 DEF CtiFails
<1>14. CASE JoinFails(i)
  BY <1>3, <1>4, <1>14 DEF JoinFails
<1>15. CASE Cancel(i)
  BY <1>3, <1>4, <1>15 DEF Cancel
<1>16. QED
  BY <1>8, <1>9, <1>10, <1>11, <1>12, <1>13, <1>14, <1>15, Zenon

\* The two halves of enforce_catpor use the call's list, if it is a shared one.
LEMMA PorStepsUseLists ==
    ASSUME RInv, ListsOK, NEW i, PorLookup(i) \/ PorDraw(i)
    PROVE  LeavesLists \/ \E l, g : LooksUp(i, l, g) \/ PutsOn(i, l, g)
<1> DEFINE f == calls[i]
           l == calls[i].call.list
           id == calls[i].call.tok.catpor.id
           p == calls[i].call.tok.catpor
<1>1. i \in DOMAIN calls /\ f.pc \in {"por", "draw"} /\ FrameOK(f)
  BY DEF PorLookup, PorDraw, At, RInv, Frames
<1>2. DOMAIN f = FrameFields
  BY <1>1, AnsweredFrame
<1>3. /\ p # Absent
      /\ f.call.path # "offloaded" => l \in Lists
  BY <1>1, RelayConstants DEF FrameOK
<1>4. por \in [Lists -> Seq(PorEntry)]
  BY DEF ListsOK
<1>5. CASE f.call.path = "offloaded"
  <2>1. ASSUME NEW g, DOMAIN g = FrameFields, g.call = f.call, NEW m, PutList(i, g, m)
        PROVE  LeavesLists
    <3> DEFINE h == [g EXCEPT !.own = m]
    <3>1. h.call = f.call
      BY <2>1 DEF FrameFields
    <3>2. calls' = [calls EXCEPT ![i] = h] /\ por' = por
      BY <1>5, <2>1 DEF PutList
    <3> HIDE DEF h
    <3>3. QED
      BY <1>1, <1>5, <3>1, <3>2 DEF LeavesLists, KeepsBlocks
  <2>2. \A r : DOMAIN Answered(f, r) = FrameFields /\ Answered(f, r).call = f.call
    BY <1>1, AnsweredFrame
  <2>3. CASE PorLookup(i)
    <3>1. PICK b, m : \/ PutList(i, Answered(f, "RejectedByProbability"), m)
                      \/ PutList(i, [f EXCEPT !.pc = "draw", !.leaked = b], m)
      BY <2>3 DEF PorLookup
    <3> DEFINE g == [f EXCEPT !.pc = "draw", !.leaked = b]
    <3>2. DOMAIN g = FrameFields /\ g.call = f.call
      BY <1>2 DEF FrameFields
    <3>3. PutList(i, Answered(f, "RejectedByProbability"), m) \/ PutList(i, g, m)
      BY <3>1
    <3> HIDE DEF g
    <3>4. QED
      BY <2>1, <2>2, <3>2, <3>3
  <2>4. CASE PorDraw(i)
    <3> DEFINE g == [f EXCEPT !.pc = "decide"]
               h == [Answered(f, "RejectedByProbability") EXCEPT !.blocks = TRUE]
    <3>1. PICK m : \/ PutList(i, Answered(f, "KeyOperationFailed"), m)
                   \/ PutList(i, g, m)
                   \/ PutList(i, h, m)
      BY <2>4 DEF PorDraw
    <3>2. DOMAIN g = FrameFields /\ g.call = f.call /\ DOMAIN h = FrameFields /\ h.call = f.call
      BY <1>2, <2>2 DEF FrameFields
    <3> HIDE DEF g, h
    <3>3. QED
      BY <2>1, <2>2, <3>1, <3>2
  <2>5. QED
    BY <2>3, <2>4
<1>6. CASE f.call.path # "offloaded"
  <2>1. /\ ListOf(i) = por[l]
        /\ \A g, m : PutList(i, g, m) => calls' = [calls EXCEPT ![i] = g] /\ por' = [por EXCEPT ![l] = m]
    BY <1>6 DEF ListOf, PutList
  <2>2. \A r : /\ Answered(f, r).call = f.call /\ Answered(f, r).blocks = f.blocks
               /\ Answered(f, r).leaked = f.leaked
    BY <1>2 DEF Answered, FrameFields
  <2>3. ASSUME NEW g, g.call = f.call, calls' = [calls EXCEPT ![i] = g]
        PROVE  UsesList(i, l, g)
    BY <1>1, <1>3, <1>6, <2>3 DEF UsesList
  <2>4. CASE PorLookup(i)
    <3> DEFINE leaks == /\ id \in InForce(l)
                        /\ Cardinality(Crowd(l, id)) < PorCapacity
               g == IF IsBlocked(por[l], id, now) THEN Answered(f, "RejectedByProbability")
                    ELSE [f EXCEPT !.pc = "draw", !.leaked = leaks]
    <3>1. PutList(i, g, Touched(por[l], id))
      BY <2>1, <2>4 DEF PorLookup
    <3> HIDE DEF leaks
    <3>2. /\ g.call = f.call /\ g.blocks = f.blocks
          /\ g.leaked = f.leaked \/ (~IsBlocked(por[l], id, now) /\ g.leaked = leaks)
      BY <1>2, <2>2 DEF FrameFields
    <3> HIDE DEF g
    <3>3. UsesList(i, l, g) /\ por' = [por EXCEPT ![l] = Touched(por[l], id)]
      BY <2>1, <2>3, <3>1, <3>2
    <3>4. g.leaked => f.leaked \/ (~IsBlocked(por[l], id, now) /\ leaks)
      BY <3>2
    <3>5. LooksUp(i, l, g)
      BY <3>2, <3>3, <3>4 DEF LooksUp, leaks
    <3>6. QED
      BY <3>5
  <2>5. CASE PorDraw(i)
    <3> DEFINE g == [f EXCEPT !.pc = "decide"]
               h == [Answered(f, "RejectedByProbability") EXCEPT !.blocks = TRUE]
    <3>1. \/ PutList(i, Answered(f, "KeyOperationFailed"), por[l])
          \/ PutList(i, g, por[l])
          \/ PutList(i, h, Added(por[l], p.id, p.exp))
      BY <2>1, <2>5 DEF PorDraw
    <3>2. /\ g.call = f.call /\ g.blocks = f.blocks /\ g.leaked = f.leaked
          /\ h.call = f.call /\ h.blocks = TRUE /\ h.leaked = f.leaked
      BY <1>2, <2>2 DEF FrameFields, Answered
    <3> HIDE DEF g, h
    <3>3. ASSUME NEW k, k.call = f.call, k.blocks = f.blocks, k.leaked = f.leaked,
                 PutList(i, k, por[l])
          PROVE  LeavesLists
      <4>1. calls' = [calls EXCEPT ![i] = k] /\ por' = por
        BY <1>3, <1>4, <1>6, <2>1, <3>3
      <4>2. QED
        BY <1>1, <3>3, <4>1 DEF LeavesLists, KeepsBlocks
    <3>4. ASSUME PutList(i, h, Added(por[l], p.id, p.exp))
          PROVE  PutsOn(i, l, h)
      BY <2>1, <2>3, <3>2, <3>4 DEF PutsOn
    <3>5. QED
      BY <2>2, <3>1, <3>2, <3>3, <3>4
  <2>6. QED
    BY <2>4, <2>5
<1>7. QED
  BY <1>5, <1>6

\* If no call that has blocked its id changes, the records stand.
LEMMA ListsKept ==
    ASSUME RInv, ListsOK, por' = por,
           DOMAIN calls \subseteq DOMAIN calls',
           \A k \in DOMAIN calls : KeepsBlocks(k),
           \A k \in DOMAIN calls' : k \notin DOMAIN calls => ~calls'[k].blocks
    PROVE  ListsOK'
<1>1. ASSUME NEW l \in Lists PROVE ListRecord(l)'
  <2>1. /\ BlockersIn(calls', l) = BlockersIn(calls, l)
        /\ \A k \in BlockersIn(calls, l) : calls'[k].call = calls[k].call
    BY DEF BlockersIn, KeepsBlocks
  <2>2. DistinctIds(por[l])
    BY DEF ListsOK, ListRecords, ListRecord
  <2>3. QED
    BY <2>1, <2>2, RecordKept DEF ListsOK
<1>2. QED
  BY <1>1 DEF ListsOK, ListRecords

\* A lookup keeps the records.
LEMMA LookupKeepsLists ==
    ASSUME RInv, ListsOK, NEW i, NEW l, NEW g, LooksUp(i, l, g)
    PROVE  ListsOK'
<1> DEFINE id == calls[i].call.tok.catpor.id
           t == Touched(por[l], id)
<1>1. /\ i \in DOMAIN calls /\ l \in Lists /\ calls' = [calls EXCEPT ![i] = g]
      /\ g.call = calls[i].call /\ g.blocks = calls[i].blocks
      /\ por' = [por EXCEPT ![l] = t]
      /\ por \in [Lists -> Seq(PorEntry)] /\ por[l] \in Seq(PorEntry) /\ ListRecord(l)
  BY DEF LooksUp, UsesList, ListsOK, ListRecords
<1>2. /\ t \in Seq(PorEntry)
      /\ DistinctIds(t)
      /\ \A p \in DOMAIN t : \E q \in DOMAIN por[l] : t[p] = por[l][q]
      /\ \A q \in DOMAIN por[l] : \E p \in DOMAIN t : t[p] = por[l][q]
  <2>1. DistinctIds(por[l])
    BY <1>1 DEF ListRecord
  <2> HIDE DEF id
  <2>2. QED
    BY <1>1, <2>1, TouchedEntries
<1> HIDE DEF t
<1>3. por' \in [Lists -> Seq(PorEntry)] /\ por'[l] = t /\ \A m \in Lists : m # l => por'[m] = por[m]
  BY <1>1, <1>2
<1>4. ASSUME NEW m \in Lists PROVE ListRecord(m)'
  <2>1. /\ BlockersIn(calls', m) = BlockersIn(calls, m)
        /\ \A k \in BlockersIn(calls, m) : calls'[k].call = calls[k].call
    <3>1. DOMAIN calls' = DOMAIN calls
      BY <1>1
    <3>2. \A k \in DOMAIN calls : calls'[k].call = calls[k].call /\ calls'[k].blocks = calls[k].blocks
      BY <1>1
    <3>3. QED
      BY <3>1, <3>2 DEF BlockersIn
  <2>2. DistinctIds(por[m])
    BY DEF ListsOK, ListRecords, ListRecord
  <2>3. CASE m = l
    BY <1>2, <1>3, <2>1, <2>3, RecordKept
  <2>4. CASE m # l
    BY <1>3, <2>1, <2>2, <2>4, RecordKept
  <2>5. QED
    BY <2>3, <2>4
<1>5. QED
  BY <1>3, <1>4 DEF ListsOK, ListRecords

\* Every step keeps them.
LEMMA ListsStep ==
    ASSUME RInv, ListsOK, [RNext]_relayVars
    PROVE  ListsOK'
<1>1. ASSUME NEW c \in Arriving, Begin(c) PROVE ListsOK'
  <2>1. PICK n \in Nat : /\ DOMAIN calls = 1 .. n /\ DOMAIN calls' = 1 .. n + 1
                         /\ calls'[n + 1] = Opening(c)
                         /\ \A j \in 1 .. n : calls'[j] = calls[j]
    BY <1>1, ArrivedFrames
  <2>2. c \in Calls \cup Solo /\ por' = por
    BY <1>1, ArrivedFrames
  <2>3. /\ DOMAIN calls \subseteq DOMAIN calls'
        /\ \A k \in DOMAIN calls : KeepsBlocks(k)
        /\ \A k \in DOMAIN calls' : k \notin DOMAIN calls => ~calls'[k].blocks
    BY <2>1, <2>2, OpeningFrame DEF KeepsBlocks
  <2>4. QED
    BY <2>2, <2>3, ListsKept
<1>2. ASSUME NEW i, Step(i) \/ Cancel(i) PROVE ListsOK'
  <2>1. LeavesLists \/ \E l, g : LooksUp(i, l, g) \/ PutsOn(i, l, g)
    BY <1>2, OtherStepsLeaveLists, PorStepsUseLists DEF Step
  <2>2. CASE LeavesLists
    BY <2>2, ListsKept DEF LeavesLists
  <2>3. ASSUME NEW l, NEW g, PutsOn(i, l, g) PROVE ListsOK'
    BY <2>3, RecordAdded DEF PutsOn, UsesList
  <2>4. QED
    BY <2>1, <2>2, <2>3, LookupKeepsLists
<1>3. CASE RTick \/ UNCHANGED relayVars
  <2>1. por' = por /\ calls' = calls
    BY <1>3 DEF RTick, relayVars
  <2>2. QED
    BY <2>1, ListsKept DEF KeepsBlocks
<1>4. QED
  BY <1>1, <1>2, <1>3 DEF RNext

\* The block lists hold ids that calls have put there, each once, and lose one
\* only when enough others have gone into its shard: the list side of
\* enforce_catpor and CatPorBlockList, for every interleaving of its callers.
THEOREM BlockListInvariant == RSpec => []ListsOK
<1>1. RInit => ListsOK
  <2> SUFFICES ASSUME RInit PROVE ListsOK
    OBVIOUS
  <2>1. por = [l \in Lists |-> <<>>] /\ calls = <<>>
    BY DEF RInit
  <2>2. por \in [Lists -> Seq(PorEntry)]
    BY <2>1
  <2>3. \A l \in Lists : DOMAIN por[l] = {} /\ Blockers(l) = {}
    BY <2>1 DEF Blockers
  <2>4. QED
    BY <2>2, <2>3 DEF ListsOK, ListRecords, ListRecord, DistinctIds
<1>2. RInv /\ ListsOK /\ [RNext]_relayVars => ListsOK'
  BY ListsStep
<1>3. QED
  BY <1>1, <1>2, RelayInvariant, PTL DEF RSpec

\* Every frame is well formed, a call is over exactly when it has an answer,
\* and every id on a shared list is a catpor id.
THEOREM RelayTypeCorrect == RSpec => []RTypeOK
<1>1. RInv /\ ListsOK => RTypeOK
  <2> SUFFICES ASSUME RInv, ListsOK PROVE RTypeOK
    OBVIOUS
  <2>1. ASSUME NEW l \in Lists, NEW k \in DOMAIN por[l] PROVE por[l][k].id \in PorIds
    <3>1. por[l] \in Seq(PorEntry)
      BY DEF ListsOK
    <3>2. por[l][k] \in PorEntry
      BY <2>1, <3>1
    <3>3. QED
      BY <3>2 DEF PorEntry
  <2>2. QED
    BY <2>1 DEF RInv, Frames, FrameOK, RTypeOK
<1>2. QED
  BY <1>1, RelayInvariant, BlockListInvariant, PTL

\* Tokens that share a catpor id share its expiration.
SameIdSameExpiry ==
    \A c, d \in Calls \cup Solo :
        /\ c.tok.catpor # Absent /\ d.tok.catpor # Absent
        /\ c.tok.catpor.id = d.tok.catpor.id
        => c.tok.catpor.exp = d.tok.catpor.exp

\* Only a call with a catpor claim puts an id on a shared list.
BlockersHaveCatpor ==
    \A k \in DOMAIN calls : calls[k].call.path # "offloaded" /\ calls[k].blocks =>
        calls[k].call.tok.catpor # Absent

\* While a block is in force and has not been crowded out, the lookup finds it.
LEMMA LookupFindsBlock ==
    ASSUME SameIdSameExpiry, RInv, ListsOK, BlockersHaveCatpor, NEW l \in Lists, NEW id,
           id \in InForce(l), Cardinality(Crowd(l, id)) < PorCapacity,
           IsFiniteSet(Crowd(l, id))
    PROVE  IsBlocked(por[l], id, now)
<1> DEFINE p == Find(por[l], id)
<1>1. PICK k \in Blockers(l) :
          /\ calls[k].call.tok.catpor.id = id
          /\ \/ calls[k].call.tok.catpor.exp = NoExpiry
             \/ now < calls[k].call.tok.catpor.exp
  BY DEF InForce
<1>2. ListRecord(l) /\ por[l] \in Seq(PorEntry)
  BY DEF ListsOK, ListRecords
<1>3. Cardinality(Crowd(l, id)) \in Nat /\ PorCapacity \in Nat
  BY FS_CardinalityType, PorConstants
<1>4. p # 0
  BY <1>1, <1>2, <1>3 DEF ListRecord
<1>5. p \in DOMAIN por[l] /\ por[l][p].id = id
  BY <1>2, <1>4, FindProperties
<1>6. PICK j \in Blockers(l) : /\ calls[j].call.tok.catpor.id = id
                               /\ calls[j].call.tok.catpor.exp = por[l][p].val
  BY <1>2, <1>5 DEF ListRecord
<1>7. calls[j].call.tok.catpor.exp = calls[k].call.tok.catpor.exp
  <2>1. \A n \in Blockers(l) : /\ calls[n].call \in Calls \cup Solo
                               /\ calls[n].call.tok.catpor # Absent
    BY DEF Blockers, BlockersHaveCatpor, RInv, Frames, FrameOK
  <2>2. QED
    BY <1>1, <1>6, <2>1 DEF SameIdSameExpiry
<1>8. QED
  BY <1>1, <1>4, <1>6, <1>7 DEF IsBlocked

\* Every step keeps the blocks.
LEMMA BlockStep ==
    ASSUME SameIdSameExpiry, RInv, ListsOK, BlockHolds, BlockersHaveCatpor, [RNext]_relayVars
    PROVE  BlockHolds' /\ BlockersHaveCatpor'
<1>1. ASSUME NEW c \in Arriving, Begin(c) PROVE BlockHolds' /\ BlockersHaveCatpor'
  <2>1. PICK n \in Nat : /\ DOMAIN calls = 1 .. n /\ DOMAIN calls' = 1 .. n + 1
                         /\ calls'[n + 1] = Opening(c)
                         /\ \A j \in 1 .. n : calls'[j] = calls[j]
    BY <1>1, ArrivedFrames
  <2>2. ~calls'[n + 1].leaked /\ ~calls'[n + 1].blocks
    <3>1. c \in Calls \cup Solo
      BY <1>1, ArrivedFrames
    <3>2. QED
      BY <2>1, <3>1, OpeningFrame
  <2>3. /\ \A k \in DOMAIN calls' : k \in DOMAIN calls \/ k = n + 1
        /\ \A k \in DOMAIN calls : calls'[k] = calls[k]
    BY <2>1
  <2>4. QED
    BY <2>2, <2>3 DEF BlockHolds, BlockersHaveCatpor
<1>2. ASSUME NEW i, Step(i) \/ Cancel(i) PROVE BlockHolds' /\ BlockersHaveCatpor'
  <2>1. LeavesLists \/ \E l, g : LooksUp(i, l, g) \/ PutsOn(i, l, g)
    BY <1>2, OtherStepsLeaveLists, PorStepsUseLists DEF Step
  <2>2. CASE LeavesLists
    BY <2>2 DEF LeavesLists, KeepsBlocks, BlockHolds, BlockersHaveCatpor
  <2>3. ASSUME NEW l, NEW g, UsesList(i, l, g), ~g.leaked
        PROVE  BlockHolds' /\ BlockersHaveCatpor'
    <3>1. /\ DOMAIN calls' = DOMAIN calls /\ calls'[i] = g /\ g.call = calls[i].call
          /\ \A k \in DOMAIN calls : k # i => calls'[k] = calls[k]
          /\ calls[i].call.tok.catpor # Absent
      BY <2>3 DEF UsesList
    <3>2. QED
      BY <2>3, <3>1 DEF BlockHolds, BlockersHaveCatpor
  <2>4. ASSUME NEW l, NEW g, UsesList(i, l, g) PROVE ~calls[i].leaked
    BY <2>4 DEF UsesList, BlockHolds
  <2>5. ASSUME NEW l, NEW g, PutsOn(i, l, g) PROVE BlockHolds' /\ BlockersHaveCatpor'
    BY <2>3, <2>4, <2>5 DEF PutsOn
  <2>6. ASSUME NEW l, NEW g, LooksUp(i, l, g) PROVE BlockHolds' /\ BlockersHaveCatpor'
    <3> DEFINE id == calls[i].call.tok.catpor.id
    <3>1. UsesList(i, l, g) /\ l \in Lists /\ ~calls[i].leaked
      BY <2>4, <2>6 DEF LooksUp, UsesList
    <3>2. IsFiniteSet(Crowd(l, id))
      <4>1. IsFiniteSet(IdsIn(calls, l))
        BY IdsAreFinite DEF RInv
      <4>2. Crowd(l, id) \subseteq IdsIn(calls, l)
        BY DEF Crowd, IdsIn, Blockers, BlockersIn
      <4>3. QED
        BY <4>1, <4>2, FS_Subset
    <3> HIDE DEF id
    <3>3. id \in InForce(l) /\ Cardinality(Crowd(l, id)) < PorCapacity => IsBlocked(por[l], id, now)
      BY <3>1, <3>2, LookupFindsBlock
    <3>4. ~g.leaked
      BY <2>6, <3>1, <3>3 DEF LooksUp, id
    <3>5. QED
      BY <2>3, <3>1, <3>4
  <2>7. QED
    BY <2>1, <2>2, <2>5, <2>6
<1>3. CASE RTick \/ UNCHANGED relayVars
  BY <1>3 DEF RTick, relayVars, BlockHolds, BlockersHaveCatpor
<1>4. QED
  BY <1>1, <1>2, <1>3 DEF RNext

\* Once enforce_catpor has rejected an id by chance, no later call with that id
\* passes is_blocked on the same shared list until the block has run out or the
\* id was crowded out, provided that tokens with the same id carry the same
\* expiration: `add` replaces an entry, so a shorter-lived token of the same id
\* that was already past its lookup may cut a block short.
THEOREM BlocksHold ==
    ASSUME SameIdSameExpiry
    PROVE  RSpec => []BlockHolds
<1>1. RInit => BlockHolds /\ BlockersHaveCatpor
  BY DEF RInit, BlockHolds, BlockersHaveCatpor
<1>2. /\ RInv /\ ListsOK /\ BlockHolds /\ BlockersHaveCatpor /\ [RNext]_relayVars
      => BlockHolds' /\ BlockersHaveCatpor'
  BY BlockStep
<1>3. QED
  BY <1>1, <1>2, RelayInvariant, BlockListInvariant, PTL DEF RSpec
=============================================================================
