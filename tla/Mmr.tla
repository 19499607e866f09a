-------------------------------- MODULE Mmr --------------------------------
(***************************************************************************)
(* The arithmetic of Merkle Mountain Ranges in the Cairo program, module   *)
(* libs/mmr.cairo, with the part of libs/utils.cairo it rests on.          *)
(*                                                                         *)
(* Nodes are numbered from 1, in the order they are appended:              *)
(*     height 2         7                                                  *)
(*     height 1     3       6       10                                     *)
(*     height 0   1   2   4   5   8    9   11                              *)
(*                                                                         *)
(* A hint is a value the prover chooses freely; the program constrains it  *)
(* by range checks.  An operator whose code takes hints therefore returns  *)
(* the SET of the results that some choice of hints lets it return.        *)
(***************************************************************************)
EXTENDS Integers, Sequences, SequencesExt

CONSTANTS
    MaxBits,    \* the last index of the table of powers of 2: 127 in the code
    pow2_array  \* the table, a constant of the program

(* Entry i of the table is 2^i: as a power, and by doubling.               *)
IsPow2Array ==
    /\ MaxBits \in Nat \ {0}
    /\ pow2_array \in [0 .. MaxBits -> Nat]
    /\ pow2_array[0] = 1
    /\ \A i \in 0 .. MaxBits : pow2_array[i] = 2^i
    /\ \A i \in 0 .. (MaxBits - 1) : pow2_array[i + 1] = 2 * pow2_array[i]

ASSUME Pow2Assumption == IsPow2Array

(* The table of the program, for instances. *)
pow2alloc127 == [i \in 0 .. MaxBits |-> 2^i]

(* A range check accepts 0 .. 2^128 - 1.  The values that occur are below  *)
(* 2^128, or negative: and a negative felt is close to the prime.          *)
RangeCheck(x) == x >= 0

-----------------------------------------------------------------------------
(* The number of bits of x.  The hint is a bit length; the four checks     *)
(* leave those with 2^(b-1) <= x < 2^b.                                    *)
get_felt_bitlength(x) ==
    {b \in 1 .. MaxBits : /\ RangeCheck(pow2_array[b] - x - 1)
                          /\ RangeCheck(x - pow2_array[b - 1])}

(* Mutant: the peak is not halved when it is too large. *)
LargestPeak_notHalved(n, b) == pow2_array[b] - 1

(* The largest peak that fits into n nodes, for a bit length b of n.       *)
LargestPeak(n, b) ==
    IF n + 1 <= pow2_array[b] - 1 THEN pow2_array[b - 1] - 1 ELSE pow2_array[b] - 1

(* Whether n nodes are peaks of sizes that strictly decrease, the first of *)
(* them smaller than prev_peak unless that is 0.                           *)
is_valid_mmr_size_inner[call \in Int \X Nat] ==
    LET n == call[1]
        prev_peak == call[2]
    IN  IF n < 1 THEN {n = 0}
        ELSE UNION { LET peak == LargestPeak(n, b)
                     IN  IF peak = prev_peak THEN {FALSE}
                         ELSE is_valid_mmr_size_inner[<<n - peak, peak>>]
                     : b \in get_felt_bitlength(n) }

(* The assertion passes for some choice of the hints. *)
assert_mmr_size_is_valid(x) ==
    /\ RangeCheck(pow2_array[MaxBits - 1] - x)
    /\ x # 0
    /\ TRUE \in is_valid_mmr_size_inner[<<x, 0>>]

-----------------------------------------------------------------------------
(* Mutant: one position too far to the left. *)
JumpLeft_tooFar(x, b) == x - pow2_array[b - 1]

(* The same node of the next perfect subtree to the left. *)
JumpLeft(x, b) == x - pow2_array[b - 1] + 1

(* The height of the node at position x: jump left by the largest perfect  *)
(* subtree until the position is all ones in binary.                       *)
compute_height[x \in Nat] ==
    UNION { IF x = pow2_array[b] - 1 THEN {b - 1}
            ELSE IF b \in get_felt_bitlength(x)
                 THEN compute_height[JumpLeft(x, b)]
                 ELSE {}
            : b \in 1 .. MaxBits }

compute_first_peak_pos(mmr_len) ==
    { IF mmr_len = pow2_array[b] - 1 THEN mmr_len ELSE pow2_array[b - 1] - 1
      : b \in get_felt_bitlength(mmr_len) }

(* Mutant: one position too far to the right. *)
RightSibling_tooFar(pos, h) == pos + pow2_array[h + 1]

RightSibling(pos, h) == pos + pow2_array[h + 1] - 1

(* From a position of height h that may lie beyond mmr_len, down the left  *)
(* children until inside.  The hint says which; each answer is checked.    *)
left_child_jump_until_inside_mmr(mmr_len) ==
    LET jump[call \in Int \X (-1 .. MaxBits)] ==
            LET pos == call[1]
                h == call[2]
            IN  (IF RangeCheck(mmr_len - pos) THEN {pos} ELSE {})
                    \union
                (IF RangeCheck(pos - mmr_len - 1) /\ h >= 0
                 THEN jump[<<pos - pow2_array[h], h - 1>>] ELSE {})
    IN  jump

(* The positions of the peaks from the one at pos on, from left to right.  *)
compute_peaks_inner(mmr_len) ==
    LET inner[pos \in 1 .. mmr_len] ==
            IF pos = mmr_len THEN {<<pos>>}
            ELSE UNION { {<<pos>> \o rest : rest \in UNION { inner[p] :
                             p \in left_child_jump_until_inside_mmr(mmr_len)
                                       [<<RightSibling(pos, h), h>>] } }
                         : h \in compute_height[pos] }
    IN  inner

compute_peaks_positions(mmr_len) ==
    UNION { compute_peaks_inner(mmr_len)[pos] : pos \in compute_first_peak_pos(mmr_len) }

-----------------------------------------------------------------------------
(* Hashing.  The hash of a pair is the pair: it has no collisions.  A      *)
(* number that is hashed is a tuple of one, as is the hash of a header.    *)
poseidon_hash(x, y) == <<x, y>>

(* Mutant: the peaks are bagged from the left. *)
bag_peaks_left(peaks) == FoldLeft(poseidon_hash, Head(peaks), Tail(peaks))

(* H(peak1, H(peak2, ...)), the last peak being alone. *)
bag_peaks(peaks) == FoldRight(poseidon_hash, Front(peaks), Last(peaks))

(* The root commits to the size as well as to the peaks.                   *)
RootOf(size, peaks) == poseidon_hash(<<size>>, bag_peaks(peaks))

=============================================================================
