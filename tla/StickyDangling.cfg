CONSTANTS
    NoFrame = NoFrame
    None = None
    Freed = Freed
    c1 = c1
    c2 = c2
    Compressors = {c1, c2}
    CompressorParams <- TwoCompressors
    StartGraphs = {g}
    StartParams = {p}
    Comments = {text}
    Versions = {20, 22}
    Inputs <- SmallInputs
    ChunkMax = 1
    MaxCapacity = 4
    StickyWithParams = TRUE
    OutputSizes = {1, 3}
    Damage <- SmallDamage
SPECIFICATION Spec
INVARIANTS
    SettingsAreAlive
