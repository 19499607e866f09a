--------------------------- MODULE MCPieMulticore ---------------------------
(* Instances of PieMulticore for TLC. *)
EXTENDS PieMulticore

(* Job 3 is not accepted at first, and then too large. *)
MCRejected == {<<3, 1>>}
MCTooLarge == {<<3, 2>>}

(* The keys that prepare_inputs_api.py writes, and those that the hints of *)
(* chunk_processor.cairo and starknet_block_header.cairo read.             *)
WrittenKeys ==
    { "mmr_last_root_poseidon", "mmr_last_root_keccak_low", "mmr_last_root_keccak_high",
      "mmr_last_len", "poseidon_mmr_last_peaks", "keccak_mmr_last_peaks",
      "from_block_number_high", "to_block_number_low",
      "block_n_plus_one_parent_hash_little_low", "block_n_plus_one_parent_hash_little_high",
      "block_headers_array", "bytes_len_array" }
ReadKeys ==
    { "from_block_number_high", "to_block_number_low", "mmr_last_len",
      "mmr_last_root_poseidon", "block_n_plus_one_parent_hash",
      "poseidon_mmr_last_peaks", "preimages_array" }

=============================================================================
