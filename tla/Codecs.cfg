SPECIFICATION Spec
CONSTANTS
    ByteValues = 4
    Widths = {1, 2}
    BitsetBits = 1
    BitsetWidths = {1, 2, 4}
    DistanceMax <- ThreeDistances
    SampleMax = 4
    U32Max = 7
    Vector = 2
    NumericInputs <- NarrowAndWide
    SparseInputs <- Sparse
    SortedInputs <- Sorted
    StringInputs <- Strings
    Versions = {12, 13}
    Parameters = {0, 2, 5}
    Noise = {0, 1, 5}
    NarrowValues = {0, 1, 3}
    WideValues = {0, 3, 8, 15}
    MaxElts = 3
INVARIANTS
    RoundTrip
    PassesAgree
    MergedIsSortedUnion
    AcceptedIsWritten
    PrefixVectorsInside
CHECK_DEADLOCK FALSE
