SPECIFICATION Spec
CONSTANTS
    Job = {1}
    Commands = {"-pie", "-sharp", "-pie -sharp"}
    N_CORES = 1
    Rejected = {}
    TooLarge = {}
    InputKeys <- WrittenKeys
    ProgramKeys <- ReadKeys
    MaxVersion = 1
    MaxStarts = 1
PROPERTIES
    RunsOnPreparedInputs
CHECK_DEADLOCK FALSE
