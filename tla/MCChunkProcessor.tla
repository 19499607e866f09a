-------------------------- MODULE MCChunkProcessor --------------------------
(***************************************************************************)
(* Instances of ChunkProcessor for TLC.  The canonical block b has the     *)
(* header b + 101; 203 is another block 2, on top of block 1; 304 follows  *)
(* block 2 but claims the number 1; 401, 402 .. are old leaves.            *)
(***************************************************************************)
EXTENDS ChunkProcessor

CONSTANTS LastBlock, MaxOldLeaves

MCZero == 0
MCSeed == 100
MCHeader == {b + 101 : b \in 0 .. LastBlock} \union {203, 304}
                \union {400 + i : i \in 1 .. MaxOldLeaves}

MCNumber == [h \in MCHeader |->
    CASE h = 203 -> 2 [] h = 304 -> 1 [] h > 400 -> h [] OTHER -> h - 101]
MCParent == [h \in MCHeader |->
    CASE h = 203 -> 102 [] h = 304 -> 103 [] h > 400 -> 0 [] h = 101 -> 0 [] OTHER -> h - 1]

OldLeaves(k) == [i \in 1 .. k |-> IF i = 1 THEN MCSeed ELSE 400 + i]
MCMmrs == {OldLeaves(k) : k \in 1 .. MaxOldLeaves}

HashedLeaves(leaves) == [i \in DOMAIN leaves |-> <<leaves[i]>>]

(* The input the tools prepare for blocks from down to to, after k leaves. *)
Honest(k, from, to) ==
    [ from_block_number_high       |-> from,
      to_block_number_low          |-> to,
      block_n_plus_one_parent_hash |-> <<from + 101>>,
      mmr_last_len                 |-> Job!MmrSize(k),
      mmr_last_root_poseidon       |-> Job!MmrRoot(HashedLeaves(OldLeaves(k))),
      poseidon_mmr_last_peaks      |-> Job!PeakHashes(HashedLeaves(OldLeaves(k))),
      preimages_array              |-> [i \in 1 .. (from - to + 1) |-> to + 100 + i] ]

(* One thing of an input replaced: a number, a header, the anchor, the     *)
(* size or the peaks.                                                      *)
Corrupted(input) ==
    LET peaks == input.poseidon_mmr_last_peaks
    IN  { [input EXCEPT !.from_block_number_high = @ + d] : d \in {-1, 1} }
            \union
        { [input EXCEPT !.to_block_number_low = @ + d] : d \in {-1, 1} }
            \union
        { [input EXCEPT !.from_block_number_high = @ + d,
                        !.to_block_number_low = @ + d] : d \in {-1, 1} }
            \union
        { [input EXCEPT !.preimages_array[i] = h] :
            i \in DOMAIN input.preimages_array, h \in {203, 304} }
            \union
        { [input EXCEPT !.block_n_plus_one_parent_hash = <<h>>] : h \in {0, 203, 304} }
            \union
        { [input EXCEPT !.block_n_plus_one_parent_hash = <<h>>,
                        !.preimages_array[Len(input.preimages_array)] = h] :
            h \in {203, 304} }
            \union
        { [input EXCEPT !.mmr_last_len = @ + d] : d \in {-1, 1} }
            \union
        { [input EXCEPT !.poseidon_mmr_last_peaks = p] :
            p \in {Tail(peaks), Reverse(peaks), Append(peaks, <<401>>),
                   [peaks EXCEPT ![1] = <<401>>]} }

HonestInputs ==
    {Honest(k, from, to) : k \in 1 .. MaxOldLeaves, from, to \in 0 .. LastBlock}
MCProgramInputs ==
    LET inputs == {input \in HonestInputs :
                    input.from_block_number_high >= input.to_block_number_low}
    IN  inputs \union UNION {Corrupted(input) : input \in inputs}

=============================================================================
