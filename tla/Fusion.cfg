CONSTANTS
    Transforms <- Codecs123
    BuiltIn <- OneBuiltIn
    Fusions <- Registrable
    MaxFusions = 2
    MaxNodes = 3
    MaxStreams = 5
    MaxOutputs = 2
    ReallocMoves = FALSE
SPECIFICATION Spec
INVARIANTS
    LookupFindsAll
    FusedAsWired
    InputsPresent
    ChunkDecoded
