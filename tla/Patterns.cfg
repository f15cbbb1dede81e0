SPECIFICATION PatternsSpec
CONSTANTS
    MaxDepth = 2
    Chars <- MCChars
    BytesOf <- MCBytesOf
    IndexPatterns <- MCIndexPatterns
    IndexValues <- MCValues
    IndexTexts <- MCTexts
    MatcherPatterns <- MCMatcherPatterns
    MatcherTexts <- MCTexts
    MaxRegexPatterns = 2
    MaxRegexPatternLength = 2
INVARIANTS
    TreeIsMinimal
    LookupsFindAll
    ListedIsRemovable
    MatcherIsALinearScan
PROPERTIES
    TreeIsAMap
    QpIsAMap
