SPECIFICATION Spec
CONSTANTS
    MaxHeight = 7
    MaxBits = 9
    pow2_array <- pow2alloc127
    Bound = 130
CHECK_DEADLOCK FALSE
INVARIANTS
    ValidSizesAreMmrSizes
    HeightIsUnique
    PeaksAreUnique
    ToolsAgree
