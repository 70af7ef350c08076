CONSTANTS
    Alignment = 4
    RedZone = 0
    PBuffSizeMin = 8
    PBuffSizeMax = 40
    SizeDown = 16
    SizeMax = 127
    Sizes = {0, 1, 2, 5, 124}
    MaxRequests = 3
    Plans <- ThreePlans
SPECIFICATION Spec
INVARIANTS
    SlicesApart
    BackupExact
    CapacityOfBuffer
PROPERTY SettlesInBuffer
