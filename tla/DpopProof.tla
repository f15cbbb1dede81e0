------------------------------ MODULE DpopProof ------------------------------
(***************************************************************************)
(* The pure half of DPoP validation (src/src/dpop.rs): everything that is  *)
(* decided about one proof, at one reading of the clock, before the replay *)
(* store is touched.                                                       *)
(*                                                                         *)
(* A proof is a record of what the checks tell apart:                      *)
(*   typ       "dpop" for either accepted `typ`, anything else is wrong    *)
(*   alg       the COSE algorithm id                                       *)
(*   ctx       actx.ctx_type                                               *)
(*   action    actx.action                                                 *)
(*   tns, tn   actx namespace tuple and track (sequences; <<>> is empty)   *)
(*   iat       issued-at, seconds                                          *)
(*   cti       the replay identifier, or Absent                            *)
(*   ath       the access-token hash, or Absent                            *)
(*   key       the embedded public key; its thumbprint is the key itself   *)
(*   sigKey    the key whose signature the proof really carries            *)
(***************************************************************************)
EXTENDS Checks

ALG_ES256 == -7
ALG_PS256 == -37

\* The default future-clock tolerance of is_fresh, in seconds.
FutureTolerance == 5

\* MoqtAction::resource_shape: what an action must name.
ResourceShape(action) ==
    CASE action \in {"ClientSetup", "ServerSetup"} -> "Endpoint"
      [] action \in {"PublishNamespace", "SubscribeNamespace"} -> "Namespace"
      [] OTHER -> "Track"

\* The action names of the wire: both setups are written "SETUP", and "SETUP"
\* is read back as ClientSetup.
ActionOverTheWire(action) ==
    IF action = "ServerSetup" THEN "ClientSetup" ELSE action

\* enforce_actx_shape: a proof names what its action is about, and no more.
ActxShape(action, tns, tn) ==
    /\ (tns # <<>>) <=> (ResourceShape(action) # "Endpoint")
    /\ (tn # <<>>) <=> (ResourceShape(action) = "Track")

IsSupportedAlgorithm(p) == p.alg \in {ALG_ES256, ALG_PS256}
HeaderIsValid(p) == p.typ = "dpop" /\ IsSupportedAlgorithm(p)

ActxIsValid(p) ==
    /\ p.ctx = "moqt"
    /\ ResourceShape(p.action) # "Endpoint" => p.tns # <<>>

PayloadIsValid(p) == ActxIsValid(p) /\ p.iat > 0

\* Both ends are inclusive: a proof of age exactly `window` is still fresh.
IsFresh(iat, window, now) ==
    /\ now - iat <= window
    /\ now - iat >= -FutureTolerance

\* validate_claims_pre_sig. `req` is what the caller expects: the action, the
\* holder key's thumbprint and the access-token hash (or Absent).
PreSigChecks(p, req, window, now) == <<
    <<HeaderIsValid(p), "DpopValidationFailed">>,
    <<PayloadIsValid(p), "DpopValidationFailed">>,
    <<p.cti # Absent, "DpopValidationFailed">>,
    <<IsFresh(p.iat, window, now), "DpopValidationFailed">>,
    <<p.action = req.action, "DpopValidationFailed">>,
    <<p.key = req.key, "InvalidDpopBinding">>,
    <<req.ath # Absent => p.ath = req.ath, "DpopValidationFailed">> >>

\* Two of the checks once more, then verify_with_embedded_key: the signature
\* must be by the embedded key.
SignatureChecks(p, req) == <<
    <<IsSupportedAlgorithm(p), "DpopAlgorithmNotSupported">>,
    <<p.key = req.key, "DpopKeyMismatch">>,
    <<p.sigKey = p.key, "SignatureVerificationFailed">> >>

\* validate_without_jti_commit: the cheap checks, then the signature.
ValidateWithoutJtiCommit(p, req, window, now) ==
    FirstError(PreSigChecks(p, req, window, now) \o SignatureChecks(p, req))

\* dpop_commit_key: the composite key (issuer, holder key, cti), with "_" for
\* an absent issuer, and the iat it is filed under.
CommitKey(p, issuer) ==
    <<IF issuer = Absent THEN "_" ELSE issuer, p.key, p.cti>>
=============================================================================
