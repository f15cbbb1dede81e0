SPECIFICATION PSpec
CONSTANTS
    Wires <- MCWires
    Decoders <- MCDecoders
    Validators <- MCValidators
    Keys <- MCKeys
    Entries <- MCEntries
    HmacAlg <- MCHmacAlg
    MaxTokenSize = 80
    MaxTime = 3
    Peek <- PeekWire
    Parse <- ParseWire
    Accepts <- Validates
    MaxSkew = 1
    MaxNestingDepth = 2
    MaxEvaluateDepth = 2
    PeekMaxMapEntries = 4
    PeekMaxDepth = 9
    I64Max = 9
INVARIANTS
    PTypeOK
    VerifiedUnderItsIssuer
    BudgetIsShared
    ValidatedMeansAcceptable
    ReissuedIsTheSame
