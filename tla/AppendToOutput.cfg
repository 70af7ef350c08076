CONSTANTS
    NbInputs = 3
    MaxSize = 2
    MaxBefore = 1
    MaxReserve = 2
    Spare = 2
SPECIFICATION AppendSpec
INVARIANTS
    ConcatInOrder
    MovedBytesIntact
    RefusedForRoomOrOrder
