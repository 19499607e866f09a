SPECIFICATION FairSpec
CONSTANTS
    MaxHeight = 4
    MaxBits = 6
    pow2_array <- pow2alloc127
    LastBlock = 3
    MaxOldLeaves = 8
    Header <- MCHeader
    Zero <- MCZero
    Seed <- MCSeed
    Number <- MCNumber
    Parent <- MCParent
    Mmrs <- MCMmrs
    ProgramInputs <- MCProgramInputs
CHECK_DEADLOCK FALSE
INVARIANTS
    TypeOK
    AcceptsOnlyJobs
    OutputIsPromised
    RejectsOnlyBadInputs
    ReadsOnlyKnownNodes
    ExtensionsAgree
PROPERTIES
    Terminates
