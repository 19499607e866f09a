SPECIFICATION FairSpec
CONSTANTS
    Process = {p1, p2}
    HIGH_BLOCK_NUMBER = 6
    CHUNK_SIZE = 4
    MAX_RETRIES = 2
    RPC_BATCH_MAX_SIZE = 2
    View = {before, after}
    OptionalKeys <- MCOptionalKeys
INVARIANTS
    StoredIsAnInitialSegment
    StoredHeadersHash
PROPERTIES
    ImplementsHeaderLog
    AlarmMeansOvertaken
    EventuallyComplete
