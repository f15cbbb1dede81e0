\* The life of a DPoP proof in both wire forms.
SPECIFICATION WSpec
CONSTANTS
  Absent = Absent
  Refused = Refused
  MacKey = MacKey
  MAX_DPOP_WIRE_SIZE = 4
  Now = 100
  MaxSteps = 5
  Contexts <- MCContexts
  Holders <- MCHolders
  Signers <- MCSigners
  Ids <- MCIds
  Hashes <- MCHashes
  HashTexts <- MCHashTexts
  Nonces <- MCNonces
  Endpoints <- MCEndpoints
  ForeignWires <- MCForeignWires
INVARIANTS
  WireIsCurrent
  VerifiedMeansSigned
  AcceptedIsUnambiguous
  ResourceAgrees
CHECK_DEADLOCK FALSE
