--------------------------- MODULE MCCairoRunner ---------------------------
(* Instances of CairoRunner for TLC: two tests and the chunk processor. *)
EXTENDS CairoRunner

MCProgram == {"tests/a_mmr.cairo", "tests/mmr.cairo", "src/chunk_processor.cairo"}
MCTests == <<"tests/a_mmr.cairo", "tests/mmr.cairo">>
MCTyped == {"a_mmr.cairo", "mmr.cairo", "chunk_processor.cairo", "processor.cairo", "none"}

(* "mmr.cairo" is also the end of the path of the other test.              *)
MCPathOf ==
    [n \in MCTyped |-> CASE n \in {"a_mmr.cairo", "mmr.cairo"} -> "tests/a_mmr.cairo"
                         [] n = "none" -> "no path"
                         [] OTHER -> "src/chunk_processor.cairo"]
MCBaseName ==
    [p \in MCProgram |-> CASE p = "tests/a_mmr.cairo" -> "a_mmr.cairo"
                           [] p = "tests/mmr.cairo" -> "mmr.cairo"
                           [] OTHER -> "chunk_processor.cairo"]

=============================================================================
