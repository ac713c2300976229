SPECIFICATION Spec
CHECK_DEADLOCK FALSE
CONSTANTS
    MaxHandshakeBytes = 2
    MaxRecords = 2
    ReadChunk = 3
    MaxNameLen = 7
    MaxLabelLen = 2
    LabelLen <- MCLabelLen
    LowerOf <- MCLowerOf
    NameChars <- MCNameChars
    Octets <- MCOctets
    Inputs <- MCInputs
    Answers <- MCAnswers
    UsizeRange = 4
INVARIANTS
    EarliestEventDecides
    CapacityWithinWireLimit
    SniExact
    MostSpecificRowWins
    EveryAddressTried
