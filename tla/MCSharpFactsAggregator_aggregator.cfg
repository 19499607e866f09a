SPECIFICATION Spec
CONSTANTS
    MaxHeight = 3
    deployer = deployer
    other = other
    Account = {deployer}
    Deployer = deployer
    RoleCaller = {deployer}
    Header <- ForkedChain
    Zero <- MCZero
    Seed <- MCSeed
    Number <- MCNumber
    Parent <- MCParent
    LastBlock = 3
    Canonical <- MCCanonical
    Tables <- ForkedTables
    MaxLeaves = 5
    MaxJobs = 2
    MaxOutputs = 2
CHECK_DEADLOCK FALSE
INVARIANTS
    TypeOK
    OnlySettledHeaders
    TrustedHashesAreSettled
    CanContinue
    NoLostGap
PROPERTIES
    ImplementsAccumulator
    FrozenWithoutOperators
