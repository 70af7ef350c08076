CONSTANTS
    NodeLimit = 3
    StreamLimit = 5
    MaxGraphDepth = 4
    MaxInputs = 1
    InputKinds = {"serial", "typed"}
    NodeShapes <- OneOutput
    StartGraphs = {"user", "segmenter"}
    Destinations = {"store1", "segmenter"}
    PermissiveModes = {TRUE, FALSE}
    Swallow = TRUE
    RepeatEdges = TRUE
    MaxChunks = 2
    MaxSessions = 1
SPECIFICATION Spec
INVARIANTS
    RevertPoints
    EdgesHeld
