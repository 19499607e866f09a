SPECIFICATION Spec
CONSTANTS
    alice = alice
    bob = bob
    t1 = t1
    t2 = t2
    empty = empty
    Account <- MCAccount
    Deployer = alice
    Factory = factory
    Template <- MCTemplate
    NoCode = empty
    NoAddress = zero
    InitialTemplate = t1
    State = {s0, s1}
    NewState = s0
    Uninitialized = none
    DELAY = 2
    MaxTime = 3
    MaxUpgrades = 1
    MaxAggregators = 1
CHECK_DEADLOCK FALSE
INVARIANT CreatedMeansInitialized
