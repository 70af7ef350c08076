CONSTANTS
    NbInputs = 2
    MaxElts = 2
    MaxChunks = 3
    Swallow = FALSE
    RequestsFit = TRUE
SPECIFICATION SegmenterSpec
INVARIANTS
    FrameCoversInput
PROPERTY CoverSpec
