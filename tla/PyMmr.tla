------------------------------- MODULE PyMmr -------------------------------
(***************************************************************************)
(* The MMR of the off-chain tools, tools/py/mmr.py, with which they extend *)
(* an MMR on their own.  Positions are counted from 0 here; the hash of a  *)
(* pair is the pair.                                                       *)
(***************************************************************************)
EXTENDS Integers, Sequences, SequencesExt

CONSTANT MaxBits    \* bound: the bit length of a position or a size

bit_length(n) == CHOOSE b \in 0 .. MaxBits : n < 2^b /\ (b > 0 => 2^(b - 1) <= n)

(* Mutant: one bit is not given back when the peak is too large. *)
py_peak_large(n) == 2^bit_length(n) - 1

py_peak(n) ==
    LET peak == 2^bit_length(n) - 1
    IN  IF peak > n THEN 2^(bit_length(n) - 1) - 1 ELSE peak

py_is_valid_mmr_size(size) ==
    LET loop[call \in {n \in Int : n <= size} \X Nat] ==
            LET n == call[1]
                prev_peak == call[2]
            IN  IF n <= 0 THEN n = 0
                ELSE IF py_peak(n) = prev_peak THEN FALSE
                ELSE loop[<<n - py_peak(n), py_peak(n)>>]
    IN  loop[<<size, 0>>]

tree_pos_height(position) ==
    LET loop[pos \in 1 .. position + 1] ==
            LET b == bit_length(pos)
            IN  IF 2^b - 1 = pos THEN b - 1 ELSE loop[pos - (2^(b - 1) - 1)]
    IN  loop[position + 1]

(* Mutant: the sibling is one node too far. *)
sibling_offset_far(height) == 2 * 2^height

sibling_offset(height) == 2 * 2^height - 1

(* The height and the position of the leftmost peak: the last perfect tree *)
(* that still fits into the size.                                          *)
left_peak_height_pos(mmr_size) ==
    LET left_pos(height) == 2^(height + 1) - 2
        grow[height \in 0 .. MaxBits - 1] ==
            IF left_pos(height) < mmr_size THEN grow[height + 1] ELSE height - 1
    IN  <<grow[0], IF grow[0] < 0 THEN 0 ELSE left_pos(grow[0])>>

(* The next peak to the right, <<height, position>>; height -1 if none.    *)
get_right_peak(height, position, mmr_size) ==
    LET down[call \in (0 .. MaxBits) \X Int] ==
            LET h == call[1]
                pos == call[2]
            IN  IF pos <= mmr_size - 1 THEN call
                ELSE IF h = 0 THEN <<-1, 0>>
                ELSE down[<<h - 1, pos - 2 * 2^(h - 1)>>]
    IN  down[<<height, position + sibling_offset(height)>>]

py_get_peaks(mmr_size) ==
    LET more[call \in (-1 .. MaxBits) \X Nat \X Seq(Nat)] ==
            LET next == get_right_peak(call[1], call[2], mmr_size)
                poss == call[3]
            IN  IF call[1] > 0 /\ next[1] >= 0
                THEN more[<<next[1], next[2], Append(poss, next[2])>>] ELSE poss
        first == left_peak_height_pos(mmr_size)
    IN  more[<<first[1], first[2], <<first[2]>>>>]

-----------------------------------------------------------------------------
(* An MMR object: the hashes of the nodes it knows, by position, and the   *)
(* last position.                                                          *)
hash_pair(x, y) == <<x, y>>

NewMmr(pos_hash, last_pos) == [pos_hash |-> pos_hash, last_pos |-> last_pos]

(* pos_hash, when the hash at a position is set. *)
WithHash(pos_hash, pos, hash) ==
    [p \in {pos} \union DOMAIN pos_hash |-> IF p = pos THEN hash ELSE pos_hash[p]]

(* How many parents follow a leaf: one as long as the next position is     *)
(* higher than the last one, which closes two subtrees of the same height. *)
merges_after(leaf) ==
    CHOOSE k \in 0 .. MaxBits :
        /\ tree_pos_height(leaf + k + 1) <= k
        /\ \A j \in 0 .. (k - 1) : tree_pos_height(leaf + j + 1) > j

(* Appending a leaf, and then its parents.                                 *)
add(mmr, elem) ==
    LET leaf == mmr.last_pos + 1
        merges == merges_after(leaf)
        after[k \in 0 .. merges] ==
            IF k = 0 THEN WithHash(mmr.pos_hash, leaf, elem)
            ELSE LET known == after[k - 1]
                     left  == leaf + k - 2 * 2^(k - 1)
                     right == left + sibling_offset(k - 1)
                 IN  WithHash(known, leaf + k, hash_pair(known[left], known[right]))
    IN  NewMmr(after[merges], leaf + merges)

mmr_get_peaks(mmr) ==
    LET peaks == py_get_peaks(mmr.last_pos + 1)
    IN  [i \in DOMAIN peaks |-> mmr.pos_hash[peaks[i]]]

py_bag_peaks(peaks) == FoldRight(hash_pair, Front(peaks), Last(peaks))

get_root(mmr) == hash_pair(<<mmr.last_pos + 1>>, py_bag_peaks(mmr_get_peaks(mmr)))

(* prepare_inputs_api.extend_mmr_poseidon: from the peaks of an MMR alone, *)
(* append hashes from the last to the first.                               *)
extend_mmr_poseidon(hashes, peaks_positions, peaks, last_pos) ==
    LET pos_hash == [p \in ToSet(peaks_positions) |->
                        peaks[CHOOSE i \in DOMAIN peaks : peaks_positions[i] = p]]
        mmr == FoldRight(LAMBDA h, m : add(m, h), hashes, NewMmr(pos_hash, last_pos))
    IN  [peaks |-> mmr_get_peaks(mmr), root |-> get_root(mmr), size |-> mmr.last_pos + 1]

=============================================================================
