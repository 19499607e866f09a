SPECIFICATION Spec
CONSTANTS
    Job = {1, 2, 3}
    Commands = {"-pie", "-sharp", "-pie -sharp", "-pie-multicore"}
    N_CORES = 2
    Rejected <- MCRejected
    TooLarge <- MCTooLarge
    InputKeys = {}
    ProgramKeys = {}
    MaxVersion = 2
    MaxStarts = 2
INVARIANTS
    OnlyVerifiedPies
    
    FullSplitIsCurrent
    SplitIsEven
CHECK_DEADLOCK FALSE
