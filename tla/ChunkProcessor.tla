--------------------------- MODULE ChunkProcessor ---------------------------
(***************************************************************************)
(* The Cairo program single_chunk_processor.  From an input that the       *)
(* prover supplies, it checks the peaks of an MMR against the MMR's root,  *)
(* verifies a run of block headers from the newest down, appends them to   *)
(* the MMR and outputs the new root and size.                              *)
(*                                                                         *)
(* An assertion that fails ends the run, and no proof comes of it.  Hints  *)
(* with which an assertion fails although others pass are not followed:    *)
(* the prover only loses by them.                                          *)
(*                                                                         *)
(* The hash of a header, or of another leaf, is the tuple of that one      *)
(* thing; the hash of a pair of hashes is the pair.                        *)
(***************************************************************************)
EXTENDS Mmr, FiniteSets

CONSTANTS
    Header,         \* all block headers
    Zero,           \* the parent of block 0, which is no header
    Number,         \* the block number of each header
    Parent,         \* the parent of each header
    Seed,           \* the first leaf of a new MMR
    MaxHeight,      \* bound: the height of a subtree
    Mmrs,           \* the MMRs, as sequences of leaves, that inputs refer to
    ProgramInputs   \* the inputs the prover may supply

(* The abstract specification of the program, and the MMR of the tools.    *)
Job == INSTANCE ChunkJob
Py == INSTANCE PyMmr

(* The same assumption as in ChunkJob. *)
ASSUME ProcessorAssumption ==
    /\ Zero \notin Header
    /\ Number \in [Header -> Nat]
    /\ Parent \in [Header -> Header \union {Zero}]

(* An input refers to MMRs and headers by their hashes; its peaks are a    *)
(* list.  Bound: the MMR with the headers appended has no subtree above    *)
(* MaxHeight; the code checks sizes against 2^126, which no array in       *)
(* memory comes near.                                                      *)
ASSUME InputAssumption ==
    \A input \in ProgramInputs :
        /\ input.from_block_number_high \in Int
        /\ input.to_block_number_low \in Int
        /\ input.block_n_plus_one_parent_hash \in {<<h>> : h \in Header \union {Zero}}
        /\ input.preimages_array \in Seq(Header)
        /\ DOMAIN input.poseidon_mmr_last_peaks = 1 .. Len(input.poseidon_mmr_last_peaks)
        /\ input.mmr_last_len \in Int
        /\ input.mmr_last_len + Len(input.preimages_array) + 1 < pow2_array[MaxHeight + 1]

(* An MMR has at least its first leaf. *)
ASSUME ForestAssumption ==
    /\ MaxHeight \in Nat /\ MaxHeight + 2 <= MaxBits
    /\ \A leaves \in Mmrs : leaves \in Seq(Header \union {Seed}) /\ leaves # <<>>

VARIABLES
    pc,                   \* the next part of main, "done" or "failed"
    program_input,        \* the input, which never changes
    index,                \* the header to verify or to append next
    expected_block_hash,  \* what that header must hash to
    poseidon_hash_array,  \* the hashes of the headers verified, by index
    mmr_array_poseidon,   \* the nodes appended to the MMR
    height,               \* the height of the last node appended
    previous_peaks_dict,  \* the previous peaks, by position
    output                \* the output of the program

vars == <<pc, program_input, index, expected_block_hash, poseidon_hash_array,
          mmr_array_poseidon, height, previous_peaks_dict, output>>

-----------------------------------------------------------------------------
(* Headers.                                                                *)

compute_starknet_blockhash(header) == <<header>>
extract_parent_hash(header) == <<Parent[header]>>
extract_block_number(header) == Number[header]

mmr_offset == program_input.mmr_last_len
LastIndex == program_input.from_block_number_high - program_input.to_block_number_low
IsPreimage(i) == i + 1 \in DOMAIN program_input.preimages_array
PreimageAt(i) == program_input.preimages_array[i + 1]

(* The MMR's nodes: those of the array, and before them the old peaks. A   *)
(* dictionary has the default value 0, which is the hash of nothing.       *)
DefaultValue == <<0>>

(* Mutant: the array is indexed by the position in the whole MMR. *)
get_full_mmr_peak_values_noOffset(position) ==
    IF RangeCheck(position - mmr_offset - 1)
    THEN {mmr_array_poseidon[i] : i \in {position} \cap DOMAIN mmr_array_poseidon}
    ELSE {previous_peaks_dict[p] : p \in {position} \cap DOMAIN previous_peaks_dict}

get_full_mmr_peak_values(position) ==
    LET i == position - mmr_offset
    IN  (IF RangeCheck(i - 1) /\ i \in DOMAIN mmr_array_poseidon
         THEN {mmr_array_poseidon[i]} ELSE {})
            \union
        (IF RangeCheck(mmr_offset - position)
         THEN {IF position \in DOMAIN previous_peaks_dict
               THEN previous_peaks_dict[position] ELSE DefaultValue}
         ELSE {})

-----------------------------------------------------------------------------
Init ==
    /\ pc = "peaks"
    /\ program_input \in ProgramInputs
    /\ index = LastIndex
    /\ expected_block_hash = program_input.block_n_plus_one_parent_hash
    /\ poseidon_hash_array = <<>>
    /\ mmr_array_poseidon = <<>>
    /\ height = 0
    /\ previous_peaks_dict = <<>>
    /\ output = <<>>

(* As many of the peaks supplied as the size has must bag to the root.     *)
PreviousPeaksMatch(positions) ==
    LET peaks == program_input.poseidon_mmr_last_peaks
    IN  /\ Len(positions) <= Len(peaks)
        /\ program_input.mmr_last_root_poseidon =
               RootOf(mmr_offset, SubSeq(peaks, 1, Len(positions)))

PreviousSizeIsValid == assert_mmr_size_is_valid(mmr_offset)

(* Mutant: the peaks are stored one position further. *)
initialize_peaks_dicts_shifted(positions, values) ==
    [p \in {positions[i] + 1 : i \in DOMAIN positions} |->
        values[CHOOSE i \in DOMAIN positions : positions[i] + 1 = p]]

initialize_peaks_dicts(positions, values) ==
    [p \in {positions[i] : i \in DOMAIN positions} |->
        values[CHOOSE i \in DOMAIN positions : positions[i] = p]]

CheckPreviousPeaks ==
    /\ pc = "peaks"
    /\ PreviousSizeIsValid
    /\ \E positions \in compute_peaks_positions(mmr_offset) :
        /\ PreviousPeaksMatch(positions)
        /\ previous_peaks_dict' =
               initialize_peaks_dicts(positions, program_input.poseidon_mmr_last_peaks)
    /\ pc' = "verify"
    /\ UNCHANGED <<program_input, index, expected_block_hash, poseidon_hash_array,
                   mmr_array_poseidon, height, output>>

(* Mutant: the hash is not compared. *)
HeaderMatches_any == IsPreimage(index)

HeaderMatches ==
    /\ IsPreimage(index)
    /\ compute_starknet_blockhash(PreimageAt(index)) = expected_block_hash

(* verify_block_headers_and_hash_them, one header; after that of index 0,  *)
(* expected_block_hash is the parent hash that the function returns.       *)
VerifyHeader ==
    /\ pc = "verify"
    /\ HeaderMatches
    /\ poseidon_hash_array' =
           [i \in DOMAIN poseidon_hash_array \union {index} |->
               IF i = index THEN expected_block_hash ELSE poseidon_hash_array[i]]
    /\ expected_block_hash' = extract_parent_hash(PreimageAt(index))
    /\ IF index = 0
       THEN pc' = "number" /\ index' = index
       ELSE pc' = pc /\ index' = index - 1
    /\ UNCHANGED <<program_input, mmr_array_poseidon, height, previous_peaks_dict, output>>

(* Mutant: the number of the newest header is compared. *)
NumberMatches_newest ==
    program_input.to_block_number_low = extract_block_number(PreimageAt(LastIndex))

NumberMatches ==
    program_input.to_block_number_low = extract_block_number(PreimageAt(0))

CheckBlockNumber ==
    /\ pc = "number"
    /\ NumberMatches
    /\ pc' = "append"
    /\ index' = LastIndex
    /\ UNCHANGED <<program_input, expected_block_hash, poseidon_hash_array,
                   mmr_array_poseidon, height, previous_peaks_dict, output>>

(* construct_mmr, one leaf. *)
AppendLeaf ==
    /\ pc = "append"
    /\ mmr_array_poseidon' = Append(mmr_array_poseidon, poseidon_hash_array[index])
    /\ height' = 0
    /\ pc' = "merge"
    /\ UNCHANGED <<program_input, index, expected_block_hash, poseidon_hash_array,
                   previous_peaks_dict, output>>

next_pos == Len(mmr_array_poseidon) + mmr_offset + 1

(* Mutant: the left child is taken one position too far left. *)
LeftChild_tooFar(pos, h) == pos - pow2_array[h + 1] - 1

LeftChild(pos, h) == pos - pow2_array[h + 1]

(* merge_subtrees_if_applicable: the next node is the parent of the last   *)
(* one when it is one higher; otherwise the next leaf follows.             *)
MergeSubtrees ==
    /\ pc = "merge"
    /\ height + 1 \in compute_height[next_pos]
    /\ \E x \in get_full_mmr_peak_values(LeftChild(next_pos, height)),
          y \in get_full_mmr_peak_values(next_pos - 1) :
        mmr_array_poseidon' = Append(mmr_array_poseidon, poseidon_hash(x, y))
    /\ height' = height + 1
    /\ UNCHANGED <<pc, program_input, index, expected_block_hash, poseidon_hash_array,
                   previous_peaks_dict, output>>

(* Mutant: the loop over the leaves ends after index 0, not at it. *)
LastLeafDone_late == index < 0

LastLeafDone == index = 0

StopMerging ==
    /\ pc = "merge"
    /\ \E h \in compute_height[next_pos] : h # height + 1
    /\ IF LastLeafDone
       THEN pc' = "roots" /\ index' = index
       ELSE pc' = "append" /\ index' = index - 1
    /\ UNCHANGED <<program_input, expected_block_hash, poseidon_hash_array,
                   mmr_array_poseidon, height, previous_peaks_dict, output>>

mmr_size == mmr_offset + Len(mmr_array_poseidon)

(* The values that get_peaks_from_positions may return. *)
get_peaks_from_positions(positions) ==
    {peaks \in [DOMAIN positions -> UNION {get_full_mmr_peak_values(positions[i]) :
                                            i \in DOMAIN positions}] :
        \A i \in DOMAIN positions : peaks[i] \in get_full_mmr_peak_values(positions[i])}

get_roots ==
    {RootOf(mmr_size, peaks) :
        peaks \in UNION {get_peaks_from_positions(positions) :
                            positions \in compute_peaks_positions(mmr_size)}}

Finish ==
    /\ pc = "roots"
    /\ \E new_mmr_root_poseidon \in get_roots :
        output' = [ from_block_number_high |-> program_input.from_block_number_high,
                    to_block_number_low    |-> program_input.to_block_number_low,
                    block_n_plus_one_parent_hash |->
                        program_input.block_n_plus_one_parent_hash,
                    block_n_minus_r_plus_one_parent_hash |-> expected_block_hash,
                    mmr_last_root_poseidon |-> program_input.mmr_last_root_poseidon,
                    mmr_last_len           |-> mmr_offset,
                    new_mmr_root_poseidon  |-> new_mmr_root_poseidon,
                    new_mmr_len            |-> mmr_size ]
    /\ pc' = "done"
    /\ UNCHANGED <<program_input, index, expected_block_hash, poseidon_hash_array,
                   mmr_array_poseidon, height, previous_peaks_dict>>

(* No hint makes the assertions of the current part pass. *)
Reject ==
    /\ \/ /\ pc = "peaks"
          /\ \/ ~PreviousSizeIsValid
             \/ ~\E positions \in compute_peaks_positions(mmr_offset) :
                    PreviousPeaksMatch(positions)
       \/ pc = "verify" /\ ~HeaderMatches
       \/ pc = "number" /\ ~NumberMatches
    /\ pc' = "failed"
    /\ UNCHANGED <<program_input, index, expected_block_hash, poseidon_hash_array,
                   mmr_array_poseidon, height, previous_peaks_dict, output>>

Next ==
    \/ CheckPreviousPeaks
    \/ VerifyHeader
    \/ CheckBlockNumber
    \/ AppendLeaf
    \/ MergeSubtrees
    \/ StopMerging
    \/ Finish
    \/ Reject

Spec == Init /\ [][Next]_vars

(* The program is sequential: a prover that starts a run carries it on.    *)
FairSpec == Spec /\ WF_vars(Next)

-----------------------------------------------------------------------------
(* Properties.                                                             *)

(* The job that the input stands for, if its root is that of these leaves; *)
(* it has no headers if the input has too few.                             *)
JobOn(leaves) ==
    [ fromBlockNumberHigh     |-> program_input.from_block_number_high,
      toBlockNumberLow        |-> program_input.to_block_number_low,
      blockNPlusOneParentHash |-> program_input.block_n_plus_one_parent_hash[1],
      mmrLastRootPoseidon     |-> leaves,
      headers |->
          IF IsPreimage(LastIndex)
          THEN Reverse(SubSeq(program_input.preimages_array, 1, LastIndex + 1))
          ELSE <<>> ]

RootHash(leaves) == Job!MmrRoot([i \in DOMAIN leaves |-> <<leaves[i]>>])

(* An abstract output with the hashes in place of what they stand for. *)
Hashed(out) ==
    [ from_block_number_high               |-> out.fromBlockNumberHigh,
      to_block_number_low                  |-> out.toBlockNumberLow,
      block_n_plus_one_parent_hash         |-> <<out.blockNPlusOneParentHash>>,
      block_n_minus_r_plus_one_parent_hash |-> <<out.blockNMinusRPlusOneParentHash>>,
      mmr_last_root_poseidon               |-> RootHash(out.mmrPreviousRootPoseidon),
      mmr_last_len                         |-> out.mmrPreviousSize,
      new_mmr_root_poseidon                |-> RootHash(out.mmrNewRootPoseidon),
      new_mmr_len                          |-> out.mmrNewSize ]

(* Type correctness; the index stays within the headers of the input. *)
TypeOK ==
    /\ pc \in {"peaks", "verify", "number", "append", "merge", "roots", "done", "failed"}
    /\ index \in Int
    /\ pc \in {"number", "append", "merge", "roots", "done"} => index \in 0 .. LastIndex
    /\ height \in Nat

(* Soundness: whatever the prover supplies and hints at, a run that ends   *)
(* was on headers that ChunkJob accepts: anchored, linked one to the next, *)
(* as many as the two block numbers say, and ending at the lower number.   *)
AcceptsOnlyJobs ==
    pc = "done" => \A leaves \in Mmrs : Job!ProgramAccepts(JobOn(leaves))

(* Such a run on the root of an MMR has the output that ChunkJob promises: *)
(* the root and the size of that MMR with the headers appended.            *)
OutputIsPromised ==
    pc = "done" =>
        \A leaves \in Mmrs :
            program_input.mmr_last_root_poseidon = RootHash(leaves) =>
                output = Hashed(Job!OutputOf(JobOn(leaves)))

(* Completeness: an input is never rejected that is a job ChunkJob accepts *)
(* and comes with the size, the root and the peaks of its MMR.             *)
RejectsOnlyBadInputs ==
    pc = "failed" =>
        ~\E leaves \in Mmrs :
            /\ Job!ProgramAccepts(JobOn(leaves))
            /\ program_input.mmr_last_len = Job!MmrSize(Len(leaves))
            /\ program_input.mmr_last_root_poseidon = RootHash(leaves)
            /\ program_input.poseidon_mmr_last_peaks =
                   Job!PeakHashes([i \in DOMAIN leaves |-> <<leaves[i]>>])

(* mmr.cairo:264: a position asked for that is not in the array is that of *)
(* a previous peak; the default value of the dictionary is never hashed.   *)
ReadsOnlyKnownNodes ==
    /\ pc = "merge" /\ height + 1 \in compute_height[next_pos] =>
        \A p \in {LeftChild(next_pos, height), next_pos - 1} :
            p <= mmr_offset => p \in DOMAIN previous_peaks_dict
    /\ pc = "roots" =>
        \A positions \in compute_peaks_positions(mmr_size) :
            \A p \in Range(positions) :
                p <= mmr_offset => p \in DOMAIN previous_peaks_dict

(* The MMR of the tools and that of the program agree: from the peaks of   *)
(* the input and the leaf hashes that the program has verified, the        *)
(* extend_mmr_poseidon of the tools reaches the root and the size that the *)
(* program outputs.  It says nothing of the leaf hashes themselves, and    *)
(* those differ: the tools hash chunks of the encoded header               *)
(* (prepare_inputs_api.py:40-51), the program the fields of a Starknet     *)
(* header (starknet_block_header.cairo:24-49).                             *)
ExtensionsAgree ==
    LET peaks     == program_input.poseidon_mmr_last_peaks
        positions == Py!py_get_peaks(mmr_offset)
        hashes    == [i \in 1 .. (LastIndex + 1) |-> poseidon_hash_array[i - 1]]
        extended  == Py!extend_mmr_poseidon(hashes, positions, peaks, mmr_offset - 1)
    IN  pc = "done" /\ Len(peaks) = Len(positions) =>
            /\ output.new_mmr_root_poseidon = extended.root
            /\ output.new_mmr_len = extended.size

(* A run ends, in an output or in a rejection: no hint that the code needs *)
(* is missing, and the recursions over headers and nodes are well-founded. *)
Terminates == <>(pc \in {"done", "failed"})

=============================================================================
