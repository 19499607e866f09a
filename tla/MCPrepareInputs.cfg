SPECIFICATION Spec
CONSTANTS
    MaxBits = 30
    Stored <- MCStored
    BytesLen <- MCBytesLen
    Request <- MCRequest
    OddParams <- MCOddParams
    KECCAK_FULL_RATE_IN_BYTES = 136
    MAX_KECCAK_ROUNDS = 54
    DYNAMIC_BATCH_SIZE_START = 6
    MaxCalls = 3
    MaxRange = 12
    MaxHeight = 5
INVARIANTS
    TilesTheRange
    ChainsForContract
    PairsMatch
    ResumedAsFromScratch
    ExactlyUnderTheLimit
CHECK_DEADLOCK FALSE
