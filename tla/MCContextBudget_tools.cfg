SPECIFICATION Spec
CONSTANTS
    MaxTokens = 4000
    SafetyMargin = 200
    Counts <- MCCounts
    ItemSizes <- MCItemSizes
    Sizes <- MCSizes
CHECK_DEADLOCK FALSE
INVARIANTS
    TypeOK
    TruncatedIffWithheld
    ListNeverEmpty
    LevelsNested
PROPERTIES
    GrantsFitLimit
