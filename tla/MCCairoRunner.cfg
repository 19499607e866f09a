SPECIFICATION Spec
CONSTANTS
    Program <- MCProgram
    Tests <- MCTests
    Typed <- MCTyped
    PathOf <- MCPathOf
    BaseName <- MCBaseName
    ChunkProcessor = "src/chunk_processor.cairo"
    DataFiles = {"data/x", "data/y"}
    WithInput = {"tests/a_mmr.cairo", "src/chunk_processor.cairo"}
    NoPath = "no path"
    MaxStarts = 2
INVARIANTS
    InputBelongs
