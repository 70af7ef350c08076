CONSTANTS
    Workers = {w1, w2}
    NbTasks = 2
    NbGroups = 2
    NbCalls = 2
    Callers = {"join", "trainer", "greedy", "bottomUp", "shared"}
SPECIFICATION Spec
INVARIANTS
    JoinedBeforeUnwind
    OneOwnerPerTask
PROPERTIES
    EveryTaskEnds
    PoolStops
