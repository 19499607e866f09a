------------------------------- MODULE MCMmr -------------------------------
(***************************************************************************)
(* The MMR arithmetic of the Cairo program, of the Python tools and of the *)
(* definition of an MMR, compared at every number up to a bound: the       *)
(* number is read as a position and as a size.                             *)
(***************************************************************************)
EXTENDS Mmr, MmrForest, FiniteSets

CONSTANT Bound

(* The subtrees of the MMRs up to the bound are among those of MmrForest,  *)
(* and their sizes below the limit of assert_mmr_size_is_valid, 2^126 in   *)
(* the code.                                                               *)
ASSUME BoundAssumption ==
    /\ MaxHeight + 2 <= MaxBits
    /\ Bound \in Nat \ {0} /\ Bound < pow2_array[MaxHeight + 1]

VARIABLE x

Py == INSTANCE PyMmr

Init == x = 1
Next == x < Bound /\ x' = x + 1
Spec == Init /\ [][Next]_x

-----------------------------------------------------------------------------
(* The number of leaves of an MMR of size n; there is one if n is a size. *)
IsSize(n) == \E k \in 1 .. n : MmrSize(k) = n
LeafCount(n) == CHOOSE k \in 1 .. n : MmrSize(k) = n

(* assert_mmr_size_is_valid passes for the sizes an MMR can have and for   *)
(* no others, and no choice of the hints turns its verdict around.         *)
ValidSizesAreMmrSizes ==
    /\ is_valid_mmr_size_inner[<<x, 0>>] = {IsSize(x)}
    /\ assert_mmr_size_is_valid(x) <=> IsSize(x)

(* compute_height returns the height of the node that the forest has at a  *)
(* position, whatever bit lengths the prover hints at.                     *)
HeightIsUnique ==
    \A t \in Subtrees(x) : PositionOf(t) = x => compute_height[x] = {t[1]}

(* compute_peaks_positions returns the peaks of the forest, from left to   *)
(* right, whatever the prover hints at.                                    *)
PeaksAreUnique ==
    IsSize(x) => compute_peaks_positions(x) = {PeakPositions(LeafCount(x))}

(* The Python tools and the Cairo program agree on which sizes are valid,  *)
(* on the height of every position and on the peaks of every size, though  *)
(* the one counts positions from 0 and the other from 1.                   *)
ToolsAgree ==
    /\ Py!py_is_valid_mmr_size(x) = assert_mmr_size_is_valid(x)
    /\ {Py!tree_pos_height(x - 1)} = compute_height[x]
    /\ IsSize(x) =>
        LET peaks == Py!py_get_peaks(x)
        IN  compute_peaks_positions(x) = {[i \in DOMAIN peaks |-> peaks[i] + 1]}

=============================================================================
