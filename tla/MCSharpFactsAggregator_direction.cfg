SPECIFICATION Spec
CONSTANTS
    MaxHeight = 3
    deployer = deployer
    other = other
    Account = {deployer}
    Deployer = deployer
    RoleCaller = {}
    Header <- OneChain
    Zero <- MCZero
    Seed <- MCSeed
    Number <- MCNumber
    Parent <- MCParent
    LastBlock = 3
    Canonical <- MCCanonical
    Tables <- OneTable
    MaxLeaves = 3
    MaxJobs = 2
    MaxOutputs = 2
CHECK_DEADLOCK FALSE
PROPERTIES
    NextJobStartsAbove
