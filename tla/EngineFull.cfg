CONSTANTS
    NodeLimit = 4
    StreamLimit = 6
    MaxGraphDepth = 3
    MaxInputs = 1
    InputKinds = {"serial", "typed", "tiny"}
    NodeShapes <- VariableOutputs
    StartGraphs = {"user", "segmenter"}
    Destinations = {"user", "serialUser", "store1", "segmenter"}
    PermissiveModes = {TRUE, FALSE}
    Swallow = FALSE
    RepeatEdges = FALSE
    MaxChunks = 2
    MaxSessions = 1
SPECIFICATION FairSpec
INVARIANTS
    TypeOK
    InputsHeld
    UserGraphDepthBounded
    WrittenChunkDecodes
PROPERTY SessionEnds
