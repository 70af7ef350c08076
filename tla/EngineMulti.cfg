CONSTANTS
    NodeLimit = 4
    StreamLimit = 7
    MaxGraphDepth = 3
    MaxInputs = 2
    InputKinds = {"typed"}
    NodeShapes <- TwoOutputs
    StartGraphs = {"user"}
    Destinations = {"user", "store1"}
    PermissiveModes = {TRUE}
    Swallow = FALSE
    RepeatEdges = FALSE
    MaxChunks = 0
    MaxSessions = 1
SPECIFICATION Spec
INVARIANTS
    GuardPrecondition
    NoRecursiveBackup
    WrittenChunkDecodes
