----------------------------- MODULE MmrForest -----------------------------
(***************************************************************************)
(* What a Merkle Mountain Range is, independently of how the code computes *)
(* with it: a forest of perfect binary trees over the leaves 1 .. n, whose *)
(* nodes are numbered in the order in which they can be built.             *)
(***************************************************************************)
EXTENDS Integers, Sequences, FiniteSets

CONSTANT MaxHeight  \* bound: the height of a subtree, below 126 in the code

ASSUME HeightAssumption == MaxHeight \in Nat

(* The leaves of a perfect binary tree of each height.                     *)
Width[h \in 0 .. MaxHeight] == IF h = 0 THEN 1 ELSE 2 * Width[h - 1]

(* The perfect subtrees of an MMR of n leaves: <<h, i>>, the i-th one of   *)
(* height h, is there when all its leaves are.  The size counts the nodes. *)
LastLeaf(t) == t[2] * Width[t[1]]
Subtrees(n) == {t \in (0 .. MaxHeight) \X (1 .. n) : LastLeaf(t) <= n}
MmrSize(n) == Cardinality(Subtrees(n))

(* A subtree is built with its last leaf, above the smaller ones that end  *)
(* there too: that fixes its position, counted from 1.                     *)
PositionOf(t) == MmrSize(LastLeaf(t) - 1) + t[1] + 1

(* The peaks are the subtrees that have no parent in the forest.           *)
ParentOf(t) == <<t[1] + 1, (t[2] + 1) \div 2>>
PeakTrees(n) == {t \in Subtrees(n) : ParentOf(t) \notin Subtrees(n)}

(* The peaks from left to right, that is, from the highest to the lowest.  *)
PeakSequence(n) ==
    CHOOSE s \in [1 .. Cardinality(PeakTrees(n)) -> PeakTrees(n)] :
        \A i, j \in DOMAIN s : i < j => s[i][1] > s[j][1]

PeakPositions(n) == LET s == PeakSequence(n) IN [i \in DOMAIN s |-> PositionOf(s[i])]

(* The hash of a pair is the pair: hashing has no collisions.              *)
PairHash(x, y) == <<x, y>>

(* The hash of a subtree over a sequence of hashed leaves. *)
TreeHash(leaves) ==
    LET hash[t \in Nat \X (Nat \ {0})] ==
            IF t[1] = 0 THEN leaves[t[2]]
            ELSE PairHash(hash[<<t[1] - 1, 2 * t[2] - 1>>], hash[<<t[1] - 1, 2 * t[2]>>])
    IN  hash

(* The hashes of the peaks, and the root: it commits to the size, and to   *)
(* the peaks hashed together from the right.                               *)
PeakHashes(leaves) ==
    LET s == PeakSequence(Len(leaves))
    IN  [i \in DOMAIN s |-> TreeHash(leaves)[s[i]]]

MmrRoot(leaves) ==
    LET peaks == PeakHashes(leaves)
        bag[i \in 1 .. Len(peaks)] ==
            IF i = Len(peaks) THEN peaks[i] ELSE PairHash(peaks[i], bag[i + 1])
    IN  PairHash(<<MmrSize(Len(leaves))>>, bag[1])

=============================================================================
