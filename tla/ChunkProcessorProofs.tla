------------------------ MODULE ChunkProcessorProofs ------------------------
(***************************************************************************)
(* Theorems about ChunkProcessor, for every set of headers and input.      *)
(* First the headers of a run: what is verified is a chain. Then what is   *)
(* built from them: with the arithmetic of MmrProofs, every node is where  *)
(* the program reads it, and is the hash that the leaves give it.          *)
(***************************************************************************)
EXTENDS ChunkProcessor, SequenceTheorems, WellFoundedInduction, TLAPS

-----------------------------------------------------------------------------
(* The headers of a run.                                                   *)

(* What the header at an index must hash to, and that it does. *)
Expected(i) ==
    IF i = LastIndex THEN program_input.block_n_plus_one_parent_hash
    ELSE extract_parent_hash(PreimageAt(i + 1))

Linked(i) == IsPreimage(i) /\ compute_starknet_blockhash(PreimageAt(i)) = Expected(i)

(* What is inductive: the headers above the index are linked to the anchor *)
(* and to one another while they are verified, and all of them afterwards. *)
IInv ==
    /\ TypeOK
    /\ program_input \in ProgramInputs
    /\ pc \in {"peaks", "verify"} =>
        /\ index <= LastIndex /\ (LastIndex \in Nat => index \in Nat)
        /\ expected_block_hash = Expected(index)
        /\ \A i \in (index + 1) .. LastIndex : Linked(i)
    /\ pc \in {"number", "append", "merge", "roots", "done"} =>
        \A i \in 0 .. LastIndex : Linked(i)
    /\ pc \in {"append", "merge", "roots", "done"} => NumberMatches

(* The index of the first header to verify is an integer. *)
LEMMA LastIndexType ==
    program_input \in ProgramInputs => LastIndex \in Int
BY InputAssumption DEF LastIndex

(* The links depend on the input alone. *)
LEMMA LinksStay ==
    ASSUME UNCHANGED program_input
    PROVE  /\ LastIndex' = LastIndex
           /\ NumberMatches' = NumberMatches
           /\ \A i : Expected(i)' = Expected(i) /\ Linked(i)' = Linked(i)
BY DEF LastIndex, NumberMatches, Expected, Linked, IsPreimage, PreimageAt,
       extract_block_number, extract_parent_hash, compute_starknet_blockhash

(* At the start no header is verified, and the anchor is expected first. *)
LEMMA InitInv == Init => IInv
<1> SUFFICES ASSUME Init PROVE IInv
    OBVIOUS
<1>1. LastIndex \in Int
    BY LastIndexType DEF Init
<1>2. TypeOK
    BY <1>1 DEF Init, TypeOK
<1>3. \A i \in (index + 1) .. LastIndex : Linked(i)
    BY <1>1 DEF Init
<1> QED
    BY <1>1, <1>2, <1>3 DEF Init, IInv, Expected

(* Every step keeps the invariant: one case per part of the program.       *)
LEMMA NextInv == IInv /\ [Next]_vars => IInv'
<1> SUFFICES ASSUME IInv, [Next]_vars PROVE IInv'
    OBVIOUS
<1>1. UNCHANGED program_input
    BY DEF Next, vars, CheckPreviousPeaks, VerifyHeader, CheckBlockNumber, AppendLeaf,
           MergeSubtrees, StopMerging, Finish, Reject
<1>2. LastIndex \in Int /\ LastIndex' = LastIndex /\ NumberMatches' = NumberMatches
    BY <1>1, LastIndexType, LinksStay DEF IInv
<1>3. \A i : Expected(i)' = Expected(i) /\ Linked(i)' = Linked(i)
    BY <1>1, LinksStay
<1>4. program_input' \in ProgramInputs /\ index \in Int /\ height \in Nat
    BY <1>1 DEF IInv, TypeOK
<1> HIDE DEF LastIndex, NumberMatches, Expected, Linked
<1>5. CASE CheckPreviousPeaks
    BY <1>1, <1>2, <1>3, <1>4, <1>5 DEF IInv, TypeOK, CheckPreviousPeaks
<1>6. CASE VerifyHeader
    <2>1. /\ pc = "verify" /\ IsPreimage(index)
          /\ compute_starknet_blockhash(PreimageAt(index)) = Expected(index)
        BY <1>6 DEF VerifyHeader, HeaderMatches, IInv
    <2>2. Linked(index)
        BY <2>1 DEF Linked
    <2>3. index \in 0 .. LastIndex
        <3>1. program_input.preimages_array \in Seq(Header)
            BY InputAssumption DEF IInv
        <3>2. index + 1 \in 1 .. Len(program_input.preimages_array)
            BY <2>1, <3>1, LenProperties DEF IsPreimage
        <3>3. Len(program_input.preimages_array) \in Nat
            BY <3>1, LenProperties
        <3> QED
            BY <2>1, <3>2, <3>3, <1>2, <1>4 DEF IInv
    <2>4. \A i \in index .. LastIndex : Linked(i)
        BY <2>1, <2>2, <1>2, <1>4 DEF IInv
    <2>5. CASE index = 0
        <3>1. pc' = "number" /\ index' = 0 /\ UNCHANGED height
            BY <2>5, <1>6 DEF VerifyHeader
        <3>2. \A i \in 0 .. LastIndex' : Linked(i)'
            BY <2>4, <2>5, <1>2, <1>3
        <3> QED
            BY <3>1, <3>2, <2>3, <1>2, <1>4 DEF IInv, TypeOK
    <2>6. CASE index # 0
        <3>1. pc' = "verify" /\ index' = index - 1 /\ UNCHANGED height
            BY <2>1, <2>6, <1>6 DEF VerifyHeader
        <3>2. index - 1 \in Nat /\ (index - 1) + 1 = index /\ index - 1 <= LastIndex
              /\ index - 1 # LastIndex
            BY <2>3, <2>6, <1>2
        <3>3. expected_block_hash' = extract_parent_hash(PreimageAt(index))
            BY <1>6 DEF VerifyHeader
        <3>4. Expected(index)' = extract_parent_hash(PreimageAt(index))
            BY <3>1, <3>2, <1>1, <1>2 DEF Expected, PreimageAt, extract_parent_hash
        <3>5. expected_block_hash' = Expected(index)'
            BY <3>3, <3>4
        <3>6. \A i \in (index' + 1) .. LastIndex' : Linked(i)'
            BY <3>1, <3>2, <2>4, <1>2, <1>3
        <3> QED
            BY <3>1, <3>2, <3>5, <3>6, <1>2, <1>4 DEF IInv, TypeOK
    <2> QED
        BY <2>5, <2>6
<1>7. CASE CheckBlockNumber
    <2>1. LastIndex \in 0 .. LastIndex
        BY <1>7, <1>2 DEF CheckBlockNumber, IInv, TypeOK
    <2> QED
        BY <2>1, <1>1, <1>2, <1>3, <1>4, <1>7 DEF IInv, TypeOK, CheckBlockNumber
<1>8. CASE AppendLeaf
    BY <1>1, <1>2, <1>3, <1>4, <1>8 DEF IInv, TypeOK, AppendLeaf
<1>9. CASE MergeSubtrees
    BY <1>1, <1>2, <1>3, <1>4, <1>9 DEF IInv, TypeOK, MergeSubtrees
<1>10. CASE StopMerging
    <2>1. /\ pc = "merge" /\ index \in 0 .. LastIndex
          /\ NumberMatches /\ \A i \in 0 .. LastIndex : Linked(i)
        BY <1>10 DEF IInv, TypeOK, StopMerging
    <2>2. pc' \in {"append", "roots"} /\ UNCHANGED height
        BY <1>10 DEF StopMerging
    <2>3. index' \in 0 .. LastIndex
        <3>1. CASE index = 0
            BY <3>1, <2>1, <1>10 DEF StopMerging, LastLeafDone
        <3>2. CASE index # 0
            <4>1. index' = index - 1
                BY <3>2, <1>10 DEF StopMerging, LastLeafDone
            <4> QED
                BY <4>1, <3>2, <2>1, <1>2
        <3> QED
            BY <3>1, <3>2
    <2>4. TypeOK'
        BY <2>2, <2>3, <1>2, <1>4 DEF TypeOK
    <2>5. NumberMatches' /\ \A i \in 0 .. LastIndex' : Linked(i)'
        BY <2>1, <1>2, <1>3
    <2> QED
        BY <2>2, <2>4, <2>5, <1>4 DEF IInv
<1>11. CASE Finish
    BY <1>1, <1>2, <1>3, <1>4, <1>11 DEF IInv, TypeOK, Finish
<1>12. CASE Reject
    BY <1>1, <1>2, <1>3, <1>4, <1>12 DEF IInv, TypeOK, Reject
<1>13. CASE UNCHANGED vars
    BY <1>1, <1>2, <1>3, <1>4, <1>13 DEF IInv, TypeOK, vars
<1> QED
    BY <1>5, <1>6, <1>7, <1>8, <1>9, <1>10, <1>11, <1>12, <1>13 DEF Next

(* The links hold in every reachable state, for every input and every      *)
(* choice of the hints.                                                    *)
THEOREM InvariantHolds == Spec => []IInv
<1> QED
    BY InitInv, NextInv, PTL DEF Spec

(* The variables of the program keep their types, and the index stays      *)
(* within the headers once they are verified.                              *)
THEOREM TypeCorrect == Spec => []TypeOK
<1>1. IInv => TypeOK
    BY DEF IInv
<1> QED
    BY <1>1, InvariantHolds, PTL

-----------------------------------------------------------------------------
(* Soundness.                                                              *)

(* The reverse of the first k elements of a sequence, as the headers of    *)
(* the input are turned into those of a job.                               *)
LEMMA ReverseOfPrefix ==
    ASSUME NEW S, NEW s, NEW k \in Nat, \A i \in 1 .. k : s[i] \in S
    PROVE  /\ Reverse(SubSeq(s, 1, k)) \in Seq(S)
           /\ Len(Reverse(SubSeq(s, 1, k))) = k
           /\ \A i \in 1 .. k : Reverse(SubSeq(s, 1, k))[i] = s[(k - i) + 1]
<1> DEFINE prefix == SubSeq(s, 1, k)
           run    == Reverse(prefix)
<1>1. Len(prefix) = k /\ \A i \in 1 .. k : prefix[i] = s[i]
    <2>1. /\ Len(SubSeq(s, 1, k)) = IF 1 <= k THEN k - 1 + 1 ELSE 0
          /\ \A i \in 1 .. k - 1 + 1 : SubSeq(s, 1, k)[i] = s[1 + i - 1]
        BY SubSeqProperties
    <2>2. k - 1 + 1 = k /\ \A i \in 1 .. k : 1 + i - 1 = i
        OBVIOUS
    <2> QED
        BY <2>1, <2>2
<1>2. run = [i \in 1 .. k |-> prefix[(k - i) + 1]]
    <2> HIDE DEF prefix
    <2> QED
        BY <1>1 DEF Reverse
<1>3. \A i \in 1 .. k : (k - i) + 1 \in 1 .. k
    OBVIOUS
<1>4. \A i \in 1 .. k : run[i] = s[(k - i) + 1]
    <2> HIDE DEF prefix, run
    <2> QED
        BY <1>1, <1>2, <1>3
<1>5. run \in [1 .. k -> S]
    <2> HIDE DEF prefix, run
    <2> QED
        BY <1>2, <1>3, <1>4
<1>6. run \in Seq(S)
    <2> HIDE DEF run
    <2> QED
        BY <1>5, SeqDef
<1>7. Len(run) = k
    <2> HIDE DEF run
    <2>1. Len(run) \in Nat /\ 1 .. Len(run) = 1 .. k
        BY <1>5, <1>6, LenProperties
    <2>2. Len(run) >= k
        <3>1. k # 0 => k \in 1 .. Len(run)
            BY <2>1
        <3> QED
            BY <3>1, <2>1
    <2>3. Len(run) <= k
        <3>1. Len(run) # 0 => Len(run) \in 1 .. k
            BY <2>1
        <3> QED
            BY <3>1, <2>1
    <2> QED
        BY <2>1, <2>2, <2>3
<1> QED
    BY <1>4, <1>6, <1>7

(* The headers of the job that an input with enough headers stands for.    *)
LEMMA HeadersOfJob ==
    ASSUME program_input \in ProgramInputs, LastIndex \in Nat, IsPreimage(LastIndex), NEW leaves
    PROVE  /\ JobOn(leaves).headers \in Seq(Header)
           /\ Len(JobOn(leaves).headers) = LastIndex + 1
           /\ \A i \in 1 .. (LastIndex + 1) :
                  JobOn(leaves).headers[i] = PreimageAt((LastIndex + 1) - i)
<1> DEFINE pre == program_input.preimages_array
           n   == LastIndex
           run == Reverse(SubSeq(pre, 1, n + 1))
<1>1. pre \in Seq(Header) /\ Len(pre) \in Nat /\ DOMAIN pre = 1 .. Len(pre)
    BY InputAssumption, LenProperties
<1>2. n + 1 \in 1 .. Len(pre)
    BY <1>1 DEF IsPreimage
<1>3. n + 1 \in Nat /\ \A i \in 1 .. (n + 1) : pre[i] \in Header
    BY <1>1, <1>2
<1>4. /\ run \in Seq(Header) /\ Len(run) = n + 1
      /\ \A i \in 1 .. (n + 1) : run[i] = pre[((n + 1) - i) + 1]
    <2> HIDE DEF pre, n
    <2>1. \A S : (\A i \in 1 .. (n + 1) : pre[i] \in S) =>
                     /\ run \in Seq(S) /\ Len(run) = n + 1
                     /\ \A i \in 1 .. (n + 1) : run[i] = pre[((n + 1) - i) + 1]
        BY <1>3, ReverseOfPrefix
    <2> HIDE DEF run
    <2> QED
        BY <1>3, <2>1
<1>5. JobOn(leaves).headers = run
    BY DEF JobOn
<1> QED
    BY <1>4, <1>5 DEF PreimageAt

(* When a run has ended, its headers in the order of a job are anchored,   *)
(* linked and numbered as ChunkJob demands, on whatever MMR.               *)
LEMMA DoneIsAJob ==
    ASSUME IInv, pc = "done", NEW leaves
    PROVE  Job!ProgramAccepts(JobOn(leaves))
<1> DEFINE pre == program_input.preimages_array
           n   == LastIndex
           run == JobOn(leaves).headers
<1>1. n \in Nat /\ \A i \in 0 .. n : Linked(i)
    BY LastIndexType DEF IInv, TypeOK
<1>2. pre \in Seq(Header) /\ Len(pre) \in Nat /\ DOMAIN pre = 1 .. Len(pre)
    BY InputAssumption, LenProperties DEF IInv
<1>3. IsPreimage(n) /\ n + 1 \in 1 .. Len(pre)
    BY <1>1, <1>2 DEF Linked, IsPreimage
<1>4. Len(run) = n + 1 /\ \A i \in 1 .. (n + 1) : run[i] = PreimageAt((n + 1) - i)
    BY <1>1, <1>3, HeadersOfJob DEF IInv
<1>6. /\ JobOn(leaves).fromBlockNumberHigh - JobOn(leaves).toBlockNumberLow = n
      /\ JobOn(leaves).toBlockNumberLow = program_input.to_block_number_low
      /\ JobOn(leaves).blockNPlusOneParentHash =
             program_input.block_n_plus_one_parent_hash[1]
    BY DEF JobOn, LastIndex
<1>7. run[1] = program_input.block_n_plus_one_parent_hash[1]
    <2>1. run[1] = PreimageAt(n) /\ n \in 0 .. n
        <3>1. 1 \in 1 .. (n + 1) /\ (n + 1) - 1 = n /\ n \in 0 .. n
            BY <1>1
        <3> HIDE DEF run, n
        <3> QED
            BY <3>1, <1>4
    <2>2. <<PreimageAt(n)>> = program_input.block_n_plus_one_parent_hash
        BY <2>1, <1>1 DEF Linked, Expected, compute_starknet_blockhash
    <2>3. <<PreimageAt(n)>>[1] = PreimageAt(n)
        OBVIOUS
    <2> QED
        BY <2>1, <2>2, <2>3
<1>8. \A i \in 1 .. n : run[i + 1] = Parent[run[i]]
    <2> SUFFICES ASSUME NEW i \in 1 .. n PROVE run[i + 1] = Parent[run[i]]
        OBVIOUS
    <2> DEFINE k == n - i
    <2>1. /\ i \in 1 .. (n + 1) /\ i + 1 \in 1 .. (n + 1) /\ k \in 0 .. n /\ k # n
          /\ (n + 1) - i = k + 1 /\ (n + 1) - (i + 1) = k
        BY <1>1
    <2>2. run[i] = PreimageAt(k + 1) /\ run[i + 1] = PreimageAt(k)
        <3> HIDE DEF run, n, k
        <3> QED
            BY <2>1, <1>4
    <2>3. <<PreimageAt(k)>> = <<Parent[PreimageAt(k + 1)]>>
        <3> HIDE DEF k
        <3> QED
            BY <2>1, <1>1
            DEF Linked, Expected, compute_starknet_blockhash, extract_parent_hash
    <2>4. \A x, y : <<x>> = <<y>> => x = y
        OBVIOUS
    <2> QED
        BY <2>2, <2>3, <2>4
<1>9. Number[run[n + 1]] = program_input.to_block_number_low
    <2>1. run[n + 1] = PreimageAt(0)
        <3>1. n + 1 \in 1 .. (n + 1) /\ (n + 1) - (n + 1) = 0
            BY <1>1
        <3> HIDE DEF run, n
        <3> QED
            BY <3>1, <1>4
    <2> QED
        BY <2>1 DEF IInv, NumberMatches, extract_block_number
<1> HIDE DEF run, n
<1>10. Len(run) > 0 /\ Len(run) - 1 = n
    BY <1>1, <1>4
<1> QED
    BY <1>4, <1>6, <1>7, <1>8, <1>9, <1>10 DEF run, Job!ProgramAccepts, Job!Last

(* Whatever the prover supplies and hints at, the program ends only on     *)
(* headers that are anchored, linked one to the next, as many as the block *)
(* numbers say, and end at the lower number.                               *)
THEOREM AcceptsOnlyJobsHolds == Spec => []AcceptsOnlyJobs
<1>1. IInv => AcceptsOnlyJobs
    BY DoneIsAJob DEF AcceptsOnlyJobs
<1> QED
    BY <1>1, InvariantHolds, PTL

-----------------------------------------------------------------------------
(* The library and the MMR, as MmrProofs knows them.                       *)

(* The arithmetic, with nothing to count. *)
M == INSTANCE MmrProofs WITH x <- index, Bound <- 1

(* What M assumes of its constants holds of those of the program.          *)
LEMMA Instance ==
    /\ M!IsPow2Array
    /\ MaxHeight \in Nat /\ MaxHeight + 2 <= MaxBits
    /\ 1 \in Nat \ {0} /\ 1 < pow2_array[MaxHeight + 1]
<1> DEFINE Small(i) == ~(1 < pow2_array[i])
           Bad == {i \in 1 .. MaxBits : Small(i)}
<1>1. /\ MaxBits \in Nat \ {0} /\ \A i \in 0 .. MaxBits : pow2_array[i] \in Nat
      /\ pow2_array[0] = 1 /\ \A i \in 0 .. MaxBits - 1 : pow2_array[i + 1] = 2 * pow2_array[i]
    BY Pow2Assumption DEF IsPow2Array
<1>2. Bad = {}
    <2> SUFFICES ASSUME Bad # {}
                 PROVE  FALSE
        OBVIOUS
    <2>1. Bad \in SUBSET Nat
        OBVIOUS
    <2>2. PICK m \in Bad : \A k \in Bad : ~(<<k, m>> \in OpToRel(<, Nat))
        <3> HIDE DEF Bad
        <3> QED
            BY <2>1, WFMin, NatLessThanWellFounded
    <2>3. m \in 1 .. MaxBits /\ Small(m)
        OBVIOUS
    <2>4. m - 1 \in 0 .. MaxBits - 1 /\ (m - 1) + 1 = m /\ m - 1 \in Nat /\ m \in Nat /\ m - 1 < m
          /\ m - 1 \in 0 .. MaxBits
        <3> HIDE DEF Small, Bad
        <3> QED
            BY <1>1, <2>3
    <2>5. m - 1 \notin Bad
        <3> HIDE DEF Bad
        <3> QED
            BY <2>2, <2>4 DEF OpToRel
    <2>6. pow2_array[m] = 2 * pow2_array[m - 1] /\ pow2_array[m - 1] \in Nat
        <3> HIDE DEF Small, Bad
        <3> QED
            BY <1>1, <2>4
    <2>7. m - 1 = 0 \/ ~Small(m - 1)
        <3>1. m - 1 # 0 => m - 1 \in 1 .. MaxBits
            <4> HIDE DEF Small, Bad
            <4> QED
                BY <1>1, <2>4
        <3> HIDE DEF Small
        <3> QED
            BY <2>5, <3>1
    <2>8. pow2_array[m - 1] >= 1
        BY <1>1, <2>6, <2>7
    <2>9. 1 < pow2_array[m]
        BY <2>6, <2>8
    <2> QED
        BY <2>3, <2>9
<1>3. MaxHeight \in Nat /\ MaxHeight + 2 <= MaxBits
    BY ForestAssumption
<1>4. MaxHeight + 1 \in 1 .. MaxBits
    BY <1>1, <1>3
<1>5. ~Small(MaxHeight + 1)
    <2> HIDE DEF Small
    <2> QED
        BY <1>2, <1>4
<1>6. M!IsPow2Array
    BY Pow2Assumption DEF IsPow2Array, M!IsPow2Array
<1> QED
    BY <1>3, <1>5, <1>6

(* The library of M computes heights as the library of the program does.   *)
LEMMA SameHeight == M!compute_height = compute_height
BY DEF M!compute_height, compute_height, M!JumpLeft, JumpLeft,
       M!get_felt_bitlength, get_felt_bitlength, M!RangeCheck, RangeCheck

(* And accepts the same sizes.                                             *)
LEMMA SameValidity ==
    ASSUME NEW n
    PROVE  M!assert_mmr_size_is_valid(n) <=> assert_mmr_size_is_valid(n)
<1>1. M!is_valid_mmr_size_inner = is_valid_mmr_size_inner
    BY DEF M!is_valid_mmr_size_inner, is_valid_mmr_size_inner, M!LargestPeak, LargestPeak,
           M!get_felt_bitlength, get_felt_bitlength, M!RangeCheck, RangeCheck
<1> QED
    BY <1>1 DEF M!assert_mmr_size_is_valid, assert_mmr_size_is_valid, M!RangeCheck, RangeCheck

(* And lists the same peaks.                                               *)
LEMMA SamePeakPositions ==
    ASSUME NEW n
    PROVE  M!compute_peaks_positions(n) = compute_peaks_positions(n)
<1>1. M!left_child_jump_until_inside_mmr(n) = left_child_jump_until_inside_mmr(n)
    BY DEF M!left_child_jump_until_inside_mmr, left_child_jump_until_inside_mmr, M!RangeCheck, RangeCheck
<1>2. M!compute_peaks_inner(n) = compute_peaks_inner(n)
    BY <1>1, SameHeight DEF M!compute_peaks_inner, compute_peaks_inner, M!RightSibling, RightSibling
<1>3. M!compute_first_peak_pos(n) = compute_first_peak_pos(n)
    BY DEF M!compute_first_peak_pos, compute_first_peak_pos,
           M!get_felt_bitlength, get_felt_bitlength, M!RangeCheck, RangeCheck
<1> QED
    BY <1>2, <1>3 DEF M!compute_peaks_positions, compute_peaks_positions

(* And makes the same root of a size and of peaks.                         *)
LEMMA SameRoot ==
    ASSUME NEW n, NEW p
    PROVE  M!RootOf(n, p) = RootOf(n, p)
<1>1. M!bag_peaks(p) = bag_peaks(p)
    BY DEF M!bag_peaks, bag_peaks, M!FoldRight, FoldRight, M!MapThenFoldSet, MapThenFoldSet,
           M!poseidon_hash, poseidon_hash, M!Front, Front, M!Last, Last, M!Min, Min
<1> QED
    BY <1>1 DEF M!RootOf, RootOf, M!poseidon_hash, poseidon_hash

(* The MMR of M is the one in which ChunkJob says what a program promises. *)
LEMMA SameForest ==
    /\ \A n : M!Subtrees(n) = Job!Subtrees(n) /\ M!MmrSize(n) = Job!MmrSize(n)
    /\ \A t : M!PositionOf(t) = Job!PositionOf(t)
    /\ \A n : M!PeakTrees(n) = Job!PeakTrees(n) /\ M!PeakSequence(n) = Job!PeakSequence(n)
    /\ \A s : M!TreeHash(s) = Job!TreeHash(s) /\ M!PeakHashes(s) = Job!PeakHashes(s)
              /\ M!MmrRoot(s) = Job!MmrRoot(s)
<1>1. ASSUME NEW S
      PROVE  M!Cardinality(S) = Cardinality(S) /\ Job!Cardinality(S) = Cardinality(S)
    BY DEF M!Cardinality, Job!Cardinality, Cardinality
<1>2. \A n : M!Subtrees(n) = Job!Subtrees(n)
    BY DEF M!Subtrees, Job!Subtrees, M!LastLeaf, Job!LastLeaf, M!Width, Job!Width
<1>3. \A n : M!MmrSize(n) = Job!MmrSize(n)
    BY <1>1, <1>2 DEF M!MmrSize, Job!MmrSize
<1>4. \A t : M!PositionOf(t) = Job!PositionOf(t)
    BY <1>3 DEF M!PositionOf, Job!PositionOf, M!LastLeaf, Job!LastLeaf, M!Width, Job!Width
<1>5. \A n : M!PeakTrees(n) = Job!PeakTrees(n)
    BY <1>2 DEF M!PeakTrees, Job!PeakTrees, M!ParentOf, Job!ParentOf
<1>6. ASSUME NEW n PROVE M!PeakSequence(n) = Job!PeakSequence(n)
    BY <1>1, <1>5 DEF M!PeakSequence, Job!PeakSequence
<1>7. ASSUME NEW s PROVE M!TreeHash(s) = Job!TreeHash(s)
    BY DEF M!TreeHash, Job!TreeHash, M!PairHash, Job!PairHash
<1>8. ASSUME NEW s PROVE M!PeakHashes(s) = Job!PeakHashes(s)
    BY <1>6, <1>7 DEF M!PeakHashes, Job!PeakHashes
<1>9. ASSUME NEW s PROVE M!MmrRoot(s) = Job!MmrRoot(s)
    BY <1>3, <1>8 DEF M!MmrRoot, Job!MmrRoot, M!PairHash, Job!PairHash
<1> QED
    BY <1>2, <1>3, <1>4, <1>5, <1>6, <1>7, <1>8, <1>9

-----------------------------------------------------------------------------
(* The peaks of the old MMR.                                               *)

(* The hashes of leaves. *)
HashesOf(leaves) == [i \in DOMAIN leaves |-> <<leaves[i]>>]

(* The root of an input is that of an MMR with these leaves.               *)
IsRoot(input, leaves) ==
    leaves \in Mmrs /\ input.mmr_last_root_poseidon = RootHash(leaves)

(* The number of leaves before a run. *)
Old(input) == CHOOSE k \in 1 .. input.mmr_last_len : M!MmrSize(k) = input.mmr_last_len

(* The dictionary holds the peaks of every MMR that the root can be that   *)
(* of, and all these MMRs have the number of leaves that the length of the *)
(* input says.                                                             *)
PeaksKnown(input, dict) ==
    /\ Old(input) \in Nat \ {0} /\ M!MmrSize(Old(input)) = input.mmr_last_len
    /\ DOMAIN dict = {M!PositionOf(t) : t \in M!PeakTrees(Old(input))}
    /\ \A leaves : IsRoot(input, leaves) =>
           /\ Len(leaves) = Old(input)
           /\ \A t \in M!PeakTrees(Old(input)) :
                  dict[M!PositionOf(t)] = M!TreeHash(HashesOf(leaves))[t]

(* The nodes of an input and its headers stay below the height bound.      *)
LEMMA InputFits ==
    ASSUME NEW input \in ProgramInputs
    PROVE  /\ input.mmr_last_len \in Int /\ input.mmr_last_len < M!P(MaxHeight + 1)
           /\ Len(input.preimages_array) \in Nat /\ input.preimages_array \in Seq(Header)
           /\ input.mmr_last_len + Len(input.preimages_array) + 1 < M!P(MaxHeight + 1)
           /\ M!P(MaxHeight + 1) \in Nat
<1>1. /\ input.mmr_last_len \in Int /\ input.preimages_array \in Seq(Header)
      /\ input.mmr_last_len + Len(input.preimages_array) + 1 < M!P(MaxHeight + 1)
    BY InputAssumption DEF M!P
<1>2. Len(input.preimages_array) \in Nat
    BY <1>1, LenProperties
<1>3. MaxHeight \in Nat /\ \A h \in 0 .. MaxHeight + 2 : M!P(h) \in Nat \ {0}
    BY M!Heights, Instance
<1>4. M!P(MaxHeight + 1) \in Nat
    BY <1>3
<1> QED
    BY <1>1, <1>2, <1>4

(* An MMR is a sequence of leaves, and its root is that of their hashes.   *)
LEMMA LeavesTypes ==
    ASSUME NEW leaves \in Mmrs
    PROVE  /\ Len(leaves) \in Nat \ {0} /\ DOMAIN leaves = 1 .. Len(leaves)
           /\ HashesOf(leaves) = [i \in 1 .. Len(leaves) |-> HashesOf(leaves)[i]]
           /\ Len(HashesOf(leaves)) = Len(leaves)
           /\ RootHash(leaves) = M!MmrRoot(HashesOf(leaves))
           /\ Len(leaves) <= M!MmrSize(Len(leaves)) /\ M!MmrSize(Len(leaves)) \in Nat
<1>1. leaves \in Seq(Header \union {Seed}) /\ leaves # <<>>
    BY ForestAssumption
<1>2. Len(leaves) \in Nat \ {0} /\ DOMAIN leaves = 1 .. Len(leaves)
    BY <1>1, EmptySeq, LenProperties
<1>3. HashesOf(leaves) = [i \in 1 .. Len(leaves) |-> HashesOf(leaves)[i]]
    BY <1>2 DEF HashesOf
<1>4. Len(HashesOf(leaves)) = Len(leaves)
    <2> DEFINE f == HashesOf(leaves)
               c == Len(leaves)
    <2> HIDE DEF f, c
    <2>1. f = [i \in 1 .. c |-> f[i]] /\ c \in Nat
        BY <1>2, <1>3 DEF f, c
    <2>2. Len(f) = c
        BY <2>1, M!IsSequence, Instance
    <2> QED
        BY <2>2 DEF f, c
<1>5. RootHash(leaves) = M!MmrRoot(HashesOf(leaves))
    BY SameForest DEF RootHash, HashesOf
<1>6. Len(leaves) <= M!MmrSize(Len(leaves)) /\ M!MmrSize(Len(leaves)) \in Nat
    <2> DEFINE k == Len(leaves)
    <2>1. k \in Nat
        BY <1>2
    <2> HIDE DEF k
    <2>2. k <= M!MmrSize(k) /\ M!MmrSize(k) \in Nat
        BY <2>1, M!LeavesAreNodes, M!ForestFinite, Instance
    <2> QED
        BY <2>2 DEF k
<1> QED
    BY <1>2, <1>3, <1>4, <1>5, <1>6

(* Peaks that make the root of an input are the peaks of the MMR with that *)
(* root: the size is hashed with them, so no other MMR has it.             *)
LEMMA PeaksChecked ==
    ASSUME NEW input \in ProgramInputs, assert_mmr_size_is_valid(input.mmr_last_len),
           NEW positions \in compute_peaks_positions(input.mmr_last_len),
           NEW peaks,
           input.mmr_last_root_poseidon =
               RootOf(input.mmr_last_len, SubSeq(peaks, 1, Len(positions)))
    PROVE  PeaksKnown(input, initialize_peaks_dicts(positions, peaks))
<1> DEFINE size == input.mmr_last_len
           k == Old(input)
           c == M!PeakCount(k)
           s == M!PeakSequence(k)
           dict == initialize_peaks_dicts(positions, peaks)
           known == SubSeq(peaks, 1, Len(positions))
<1>1. size \in Int /\ size < M!P(MaxHeight + 1) /\ M!P(MaxHeight + 1) \in Nat
    BY InputFits
<1>2. k \in 1 .. size /\ M!MmrSize(k) = size
    <2>1. assert_mmr_size_is_valid(size) <=> M!assert_mmr_size_is_valid(size)
        BY SameValidity
    <2> HIDE DEF size
    <2>2. \E m \in 1 .. size : M!MmrSize(m) = size
        BY <1>1, <2>1, M!ValidSize, Instance DEF size
    <2> QED
        BY <2>2 DEF Old, size
<1>3. k \in Nat \ {0} /\ k < M!P(MaxHeight + 1)
    BY <1>1, <1>2
<1> HIDE DEF size, k
<1>4. /\ c \in Nat \ {0} /\ s \in [1 .. c -> M!PeakTrees(k)]
      /\ M!PeakPositions(k) = [i \in 1 .. c |-> M!PositionOf(s[i])]
      /\ \A t \in M!PeakTrees(k) : \E i \in 1 .. c : s[i] = t
      /\ \A i, j \in 1 .. c : M!PeakPositions(k)[i] = M!PeakPositions(k)[j] => i = j
    BY <1>3, M!PeaksListed, Instance
<1>5. positions = M!PeakPositions(k)
    <2>1. M!compute_peaks_positions(M!MmrSize(k)) = {M!PeakPositions(k)}
        BY <1>3, M!PeaksInOrder, Instance
    <2>2. M!compute_peaks_positions(size) = compute_peaks_positions(size)
        BY SamePeakPositions
    <2> QED
        BY <1>2, <2>1, <2>2 DEF size
<1> HIDE DEF c, s
<1>6. /\ positions = [i \in 1 .. c |-> positions[i]] /\ Len(positions) = c
      /\ DOMAIN positions = 1 .. c /\ \A i \in 1 .. c : positions[i] = M!PositionOf(s[i])
    <2>1. positions = [i \in 1 .. c |-> positions[i]]
          /\ \A i \in 1 .. c : positions[i] = M!PositionOf(s[i])
        BY <1>4, <1>5
    <2>2. Len(positions) = c
        BY <1>4, <2>1, M!IsSequence, Instance
    <2> QED
        BY <2>1, <2>2
<1>7. known = [i \in 1 .. c |-> known[i]] /\ \A i \in 1 .. c : known[i] = peaks[i]
    <2>1. SubSeq(peaks, 1, c) = [i \in 1 .. c - 1 + 1 |-> peaks[1 + i - 1]]
        BY <1>4
    <2>2. c - 1 + 1 = c /\ \A i \in 1 .. c : 1 + i - 1 = i
        BY <1>4
    <2>3. [i \in 1 .. c - 1 + 1 |-> peaks[1 + i - 1]] = [i \in 1 .. c |-> peaks[i]]
        BY <2>2
    <2>4. known = SubSeq(peaks, 1, c)
        BY <1>6
    <2>5. known = [i \in 1 .. c |-> peaks[i]]
        BY <2>1, <2>3, <2>4, Zenon
    <2> HIDE DEF known
    <2> QED
        BY <2>5
<1>8. /\ DOMAIN dict = {M!PositionOf(t) : t \in M!PeakTrees(k)}
      /\ \A i \in 1 .. c : dict[M!PositionOf(s[i])] = peaks[i]
    <2>1. {positions[i] : i \in DOMAIN positions} = {M!PositionOf(t) : t \in M!PeakTrees(k)}
        BY <1>4, <1>6
    <2>2. ASSUME NEW i \in 1 .. c
          PROVE  (CHOOSE j \in DOMAIN positions : positions[j] = positions[i]) = i
        BY <1>4, <1>5, <1>6
    <2>3. DOMAIN dict = {positions[i] : i \in DOMAIN positions}
        BY DEF initialize_peaks_dicts
    <2>4. ASSUME NEW i \in 1 .. c
          PROVE  dict[positions[i]] = peaks[i]
        <3>1. positions[i] \in {positions[j] : j \in DOMAIN positions}
            BY <1>6
        <3>2. dict[positions[i]] = peaks[CHOOSE j \in DOMAIN positions : positions[j] = positions[i]]
            BY <3>1 DEF initialize_peaks_dicts
        <3> QED
            BY <2>2, <3>2
    <2> HIDE DEF dict
    <2> QED
        BY <1>6, <2>1, <2>3, <2>4
<1> HIDE DEF dict, known
<1>9. ASSUME NEW leaves, IsRoot(input, leaves)
      PROVE  /\ Len(leaves) = k
             /\ \A i \in 1 .. c : peaks[i] = M!TreeHash(HashesOf(leaves))[s[i]]
    <2> DEFINE m == Len(leaves)
               hashes == HashesOf(leaves)
               other == M!PeakHashes(hashes)
    <2>1. /\ m \in Nat \ {0} /\ Len(hashes) = m /\ RootHash(leaves) = M!MmrRoot(hashes)
          /\ m <= M!MmrSize(m) /\ M!MmrSize(m) \in Nat
        BY <1>9, LeavesTypes DEF IsRoot
    <2> HIDE DEF m, hashes
    <2>2. M!RootOf(size, known) = M!MmrRoot(hashes)
        <3>1. M!RootOf(size, known) = RootOf(size, known)
            BY SameRoot
        <3> QED
            BY <1>9, <2>1, <3>1 DEF IsRoot, size, known
    <2>3. size = M!MmrSize(m)
        <3>1. size = M!MmrSize(Len(hashes))
            BY <2>2, M!RootShowsSize, Instance
        <3> QED
            BY <2>1, <3>1
    <2>4. m < M!P(MaxHeight + 1)
        BY <1>1, <2>1, <2>3
    <2>5. m = k
        <3>1. M!MmrSize(k) = M!MmrSize(m) /\ k \in Nat /\ m \in Nat
            BY <1>2, <1>3, <2>1, <2>3
        <3>2. \A a \in Nat : \A b \in Nat :
                  a < M!P(MaxHeight + 1) /\ b < M!P(MaxHeight + 1) /\ M!MmrSize(a) = M!MmrSize(b)
                      => a = b
            BY M!SizeDetermines, Instance
        <3> QED
            BY <1>3, <2>4, <3>1, <3>2, Zenon
    <2>6. /\ other = [i \in 1 .. c |-> M!TreeHash(hashes)[s[i]]]
          /\ M!MmrRoot(hashes) = M!RootOf(M!MmrSize(k), other)
        <3>1. Len(hashes) = k
            BY <2>1, <2>5
        <3>2. \A a \in Nat \ {0} : a < M!P(MaxHeight + 1) /\ Len(hashes) = a =>
                  /\ M!PeakHashes(hashes) =
                         [i \in 1 .. M!PeakCount(a) |-> M!TreeHash(hashes)[M!PeakSequence(a)[i]]]
                  /\ M!MmrRoot(hashes) = M!RootOf(M!MmrSize(a), M!PeakHashes(hashes))
            BY M!RootOfLeaves, Instance
        <3> QED
            BY <1>3, <3>1, <3>2 DEF c, s
    <2> HIDE DEF other
    <2>7. other = [i \in 1 .. c |-> other[i]] /\ M!RootOf(size, known) = M!RootOf(M!MmrSize(k), other)
        BY <2>2, <2>6
    <2>8. known = other
        <3>1. c \in Nat \ {0} /\ M!HasLength(known, c) /\ M!HasLength(other, c)
            BY <1>4, <1>7, <2>7 DEF M!HasLength
        <3> QED
            BY <2>7, <3>1, M!RootDetermines, Instance
    <2>9. \A i \in 1 .. c : peaks[i] = M!TreeHash(hashes)[s[i]]
        BY <1>7, <2>6, <2>8
    <2> QED
        BY <2>5, <2>9 DEF m, hashes
<1>10. ASSUME NEW leaves, IsRoot(input, leaves), NEW t \in M!PeakTrees(k)
       PROVE  dict[M!PositionOf(t)] = M!TreeHash(HashesOf(leaves))[t]
    <2>1. PICK i \in 1 .. c : s[i] = t
        BY <1>4
    <2> QED
        BY <1>8, <1>9, <1>10, <2>1
<1> QED
    BY <1>2, <1>3, <1>8, <1>9, <1>10 DEF PeaksKnown, dict, size, k

-----------------------------------------------------------------------------
(* The nodes over the leaves of a run.                                     *)

(* The number of headers of a run, and of leaves when they are appended. *)
Run(input) == (input.from_block_number_high - input.to_block_number_low) + 1
Total(input) == Old(input) + Run(input)

(* The hashes of the leaves when the headers of a run are appended.        *)
AllHashes(input, leaves) ==
    [i \in 1 .. Total(input) |-> IF i <= Old(input) THEN <<leaves[i]>>
                                 ELSE <<input.preimages_array[(Total(input) + 1) - i]>>]

(* A value is node i of height h over the leaves of a run, whatever leaves *)
(* the root of the input is that of.                                       *)
IsNode(input, v, h, i) ==
    \A leaves : IsRoot(input, leaves) => v = M!TreeHash(AllHashes(input, leaves))[<<h, i>>]

(* The array of new nodes has that node where its position says.           *)
Has(input, array, h, i) ==
    /\ M!At(h, i) - input.mmr_last_len \in DOMAIN array
    /\ IsNode(input, array[M!At(h, i) - input.mmr_last_len], h, i)

(* Node j of height g is built when n leaves are, the last one up to       *)
(* height h: its last leaf is before n, or is n and its height is at most  *)
(* h.                                                                      *)
Reached(g, j, n, h) == j * M!P(g) < n \/ (j * M!P(g) = n /\ g <= h)

(* The array is a sequence and has every new node that is reached.         *)
NodesUpTo(input, array, n, h) ==
    /\ \E c \in Nat : M!HasLength(array, c)
    /\ \A g \in 0 .. MaxHeight : \A j \in Nat \ {0} :
           Reached(g, j, n, h) /\ Old(input) < j * M!P(g) => Has(input, array, g, j)

(* The entries of the table of powers that heights use are positive and    *)
(* double.                                                                 *)
LEMMA Powers ==
    /\ MaxHeight \in Nat /\ M!P(0) = 1
    /\ \A h \in 0 .. MaxHeight + 1 : M!P(h) \in Nat \ {0} /\ M!P(h + 1) = 2 * M!P(h)
<1>1. MaxHeight \in Nat /\ \A h \in 0 .. MaxHeight + 2 : M!P(h) \in Nat \ {0}
    BY M!Heights, Instance
<1>2. M!P(0) = 1
    BY M!PowTypes, Instance
<1>3. \A h \in 0 .. MaxHeight + 1 : M!P(h + 1) = 2 * M!P(h)
    BY M!Heights, Instance
<1>4. \A h \in 0 .. MaxHeight + 1 : h \in 0 .. MaxHeight + 2
    BY <1>1
<1> QED
    BY <1>1, <1>2, <1>3, <1>4

(* What an append does to a sequence of known length.                      *)
LEMMA Appends ==
    ASSUME NEW c \in Nat, NEW a, M!HasLength(a, c), NEW v
    PROVE  /\ Len(a) = c /\ DOMAIN a = 1 .. c
           /\ Len(Append(a, v)) = c + 1 /\ M!HasLength(Append(a, v), c + 1)
           /\ DOMAIN Append(a, v) = 1 .. c + 1
           /\ \A i \in 1 .. c : Append(a, v)[i] = a[i]
           /\ Append(a, v)[c + 1] = v
<1> DEFINE S == {a[i] : i \in 1 .. c} \union {v}
           b == Append(a, v)
<1>1. a = [i \in 1 .. c |-> a[i]]
    BY DEF M!HasLength
<1>2. Len(a) = c /\ DOMAIN a = 1 .. c
    BY <1>1, M!IsSequence, Instance
<1>3. a \in Seq(S)
    <2>1. a \in [1 .. c -> S]
        BY <1>1
    <2> HIDE DEF S
    <2> QED
        BY <2>1, SeqDef
<1>4. v \in S
    OBVIOUS
<1> HIDE DEF S
<1>5. /\ b \in Seq(S) /\ Len(b) = Len(a) + 1
      /\ \A i \in 1 .. Len(a) : b[i] = a[i]
      /\ b[Len(a) + 1] = v
    BY <1>3, <1>4, AppendProperties
<1>6. DOMAIN b = 1 .. c + 1
    BY <1>2, <1>5, LenProperties
<1>7. b = [i \in 1 .. c + 1 |-> b[i]]
    <2> HIDE DEF b
    <2>1. b \in [1 .. Len(b) -> S]
        BY <1>5, LenProperties
    <2> QED
        BY <1>2, <1>5, <2>1
<1> HIDE DEF b
<1>8. M!HasLength(b, c + 1)
    BY <1>7 DEF M!HasLength
<1>9. Len(b) = c + 1 /\ (\A i \in 1 .. c : b[i] = a[i]) /\ b[c + 1] = v
    BY <1>2, <1>5
<1> QED
    BY <1>2, <1>6, <1>8, <1>9 DEF b

(* The node that comes next is appended.                                   *)
LEMMA Pushes ==
    ASSUME NEW input, input.mmr_last_len \in Int, NEW array, NEW c \in Nat, M!HasLength(array, c),
           NEW h \in 0 .. MaxHeight, NEW i \in Nat \ {0}, NEW n, n = i * M!P(h),
           NodesUpTo(input, array, n, h - 1), M!At(h, i) - input.mmr_last_len = c + 1,
           NEW v, IsNode(input, v, h, i)
    PROVE  NodesUpTo(input, Append(array, v), n, h) /\ M!HasLength(Append(array, v), c + 1)
<1> DEFINE b == Append(array, v)
<1>1. /\ DOMAIN array = 1 .. c /\ M!HasLength(b, c + 1) /\ DOMAIN b = 1 .. c + 1
      /\ (\A k \in 1 .. c : b[k] = array[k]) /\ b[c + 1] = v
    BY Appends
<1> HIDE DEF b
<1>2. ASSUME NEW g \in 0 .. MaxHeight, NEW j \in Nat \ {0}, Reached(g, j, n, h),
             Old(input) < j * M!P(g)
      PROVE  Has(input, b, g, j)
    <2> DEFINE p == M!At(g, j) - input.mmr_last_len
    <2>1. CASE Reached(g, j, n, h - 1)
        <3>1. p \in DOMAIN array /\ IsNode(input, array[p], g, j)
            BY <1>2, <2>1 DEF NodesUpTo, Has
        <3> HIDE DEF p
        <3>2. p \in DOMAIN b /\ b[p] = array[p]
            BY <1>1, <3>1
        <3>3. p \in DOMAIN b /\ IsNode(input, b[p], g, j)
            BY <3>1, <3>2
        <3> QED
            BY <3>3 DEF Has, p
    <2>2. CASE ~Reached(g, j, n, h - 1)
        <3>1. j * M!P(g) = n /\ g = h
            <4>1. j * M!P(g) = n /\ g <= h /\ ~(g <= h - 1)
                BY <1>2, <2>2 DEF Reached
            <4> QED
                BY <4>1, Powers
        <3>2. j = i
            <4>1. M!P(h) \in Nat \ {0} /\ j * M!P(h) = i * M!P(h)
                BY <3>1, Powers
            <4> DEFINE q == M!P(h)
            <4> HIDE DEF q
            <4>2. q \in Nat \ {0} /\ j * q = i * q
                BY <4>1 DEF q
            <4> QED
                BY <4>2, M!Cancels, Instance
        <3>3. p = c + 1
            BY <3>1, <3>2
        <3> HIDE DEF p
        <3>4. p \in DOMAIN b /\ b[p] = v
            BY <1>1, <3>3
        <3>5. p \in DOMAIN b /\ IsNode(input, b[p], g, j)
            BY <3>1, <3>2, <3>4
        <3> QED
            BY <3>5 DEF Has, p
    <2> QED
        BY <2>1, <2>2
<1>3. c + 1 \in Nat
    OBVIOUS
<1>4. NodesUpTo(input, b, n, h)
    BY <1>1, <1>2, <1>3 DEF NodesUpTo
<1> QED
    BY <1>1, <1>4 DEF b

(* No higher node ends with the leaf of an odd one. *)
LEMMA Stops ==
    ASSUME NEW input, NEW array, NEW h \in 0 .. MaxHeight, NEW i \in Nat \ {0}, M!Odd(i),
           NEW n, n = i * M!P(h), NodesUpTo(input, array, n, h)
    PROVE  NodesUpTo(input, array, n, MaxHeight)
<1>1. ASSUME NEW g \in 0 .. MaxHeight, NEW j \in Nat \ {0}, Reached(g, j, n, MaxHeight)
      PROVE  Reached(g, j, n, h)
    <2>1. j * M!P(g) = i * M!P(h) => g <= h
        <3>1. j \in Int
            OBVIOUS
        <3> QED
            BY <3>1, M!OddPartIsLargest, Instance, Zenon
    <2> QED
        BY <1>1, <2>1 DEF Reached
<1> QED
    BY <1>1 DEF NodesUpTo

(* Nothing is left to build over n leaves once the last one is complete:   *)
(* nodes that end with leaf n + 1 are the next ones.                       *)
LEMMA NextLeaf ==
    ASSUME NEW input, NEW array, NEW n \in Nat, NodesUpTo(input, array, n, MaxHeight)
    PROVE  NodesUpTo(input, array, n + 1, -1)
<1>1. ASSUME NEW g \in 0 .. MaxHeight, NEW j \in Nat \ {0}, Reached(g, j, n + 1, -1)
      PROVE  Reached(g, j, n, MaxHeight)
    <2> DEFINE l == j * M!P(g)
    <2>1. l \in Nat
        BY Powers
    <2>2. l < n + 1 /\ g <= MaxHeight
        BY <1>1, Powers DEF Reached
    <2> HIDE DEF l
    <2>3. l < n \/ l = n
        BY <2>1, <2>2
    <2> QED
        BY <2>2, <2>3 DEF Reached, l
<1> QED
    BY <1>1 DEF NodesUpTo

(* A tree over one leaf is the hash of the leaf.                           *)
LEMMA TreeOfOne ==
    ASSUME NEW s, NEW i \in Nat \ {0}
    PROVE  M!TreeHash(s)[<<0, i>>] = s[i]
<1>1. ASSUME NEW g \in Nat, g = 0
      PROVE  M!TreeHash(s)[<<g, i>>] = s[i]
    <2>1. /\ M!IsPow2Array
          /\ MaxHeight \in Nat /\ MaxHeight + 2 <= MaxBits
          /\ 1 \in Nat \ {0} /\ 1 < pow2_array[MaxHeight + 1]
        BY Instance, Zenon
    <2>2. g = 0 => M!TreeHash(s)[<<g, i>>] = s[i]
        BY <2>1, M!TreeEquation, Zenon
    <2> QED
        BY <1>1, <2>2, Zenon
<1>2. 0 \in Nat
    OBVIOUS
<1> QED
    BY <1>1, <1>2, Zenon

(* The hash of a header that is appended is the node of height 0 of its    *)
(* leaf.                                                                   *)
LEMMA LeafIsNode ==
    ASSUME NEW input, Old(input) \in Nat \ {0}, Total(input) \in Nat,
           NEW i \in Nat \ {0}, Old(input) < i, i <= Total(input)
    PROVE  IsNode(input, <<input.preimages_array[(Total(input) + 1) - i]>>, 0, i)
<1>1. ASSUME NEW leaves
      PROVE  AllHashes(input, leaves)[i] = <<input.preimages_array[(Total(input) + 1) - i]>>
    <2>1. i \in 1 .. Total(input) /\ ~(i <= Old(input))
        OBVIOUS
    <2> QED
        BY <2>1 DEF AllHashes
<1>2. ASSUME NEW leaves
      PROVE  M!TreeHash(AllHashes(input, leaves))[<<0, i>>] = AllHashes(input, leaves)[i]
    BY TreeOfOne, Zenon
<1> QED
    BY <1>1, <1>2 DEF IsNode

(* A tree that is no leaf is hashed of its two halves.                     *)
LEMMA TreeOfTwo ==
    ASSUME NEW s, NEW m \in Nat \ {0}
    PROVE  \A g \in Nat : g # 0 =>
               M!TreeHash(s)[<<g, m>>] =
                   <<M!TreeHash(s)[<<g - 1, 2 * m - 1>>], M!TreeHash(s)[<<g - 1, 2 * m>>]>>
<1> SUFFICES ASSUME NEW g \in Nat, g # 0
             PROVE  M!TreeHash(s)[<<g, m>>] =
                        <<M!TreeHash(s)[<<g - 1, 2 * m - 1>>], M!TreeHash(s)[<<g - 1, 2 * m>>]>>
    OBVIOUS
<1>1. /\ M!IsPow2Array
      /\ MaxHeight \in Nat /\ MaxHeight + 2 <= MaxBits
      /\ 1 \in Nat \ {0} /\ 1 < pow2_array[MaxHeight + 1]
    BY Instance, Zenon
<1>2. g # 0 => M!TreeHash(s)[<<g, m>>] =
                   <<M!TreeHash(s)[<<g - 1, 2 * m - 1>>], M!TreeHash(s)[<<g - 1, 2 * m>>]>>
    BY <1>1, M!TreeEquation, SMTT(60)
<1> QED
    BY <1>2

(* The hash of two siblings is their parent.                               *)
LEMMA ParentIsNode ==
    ASSUME NEW input, NEW h \in Nat, NEW i \in Nat \ {0}, NEW m \in Nat \ {0}, i = 2 * m,
           NEW v, NEW w, IsNode(input, v, h, i - 1), IsNode(input, w, h, i)
    PROVE  IsNode(input, <<v, w>>, h + 1, m)
<1>1. ASSUME NEW s
      PROVE  M!TreeHash(s)[<<h + 1, m>>] = <<M!TreeHash(s)[<<h, i - 1>>], M!TreeHash(s)[<<h, i>>]>>
    <2>1. h + 1 \in Nat /\ h + 1 # 0 /\ (h + 1) - 1 = h
        OBVIOUS
    <2>2. \A g \in Nat : g # 0 =>
              M!TreeHash(s)[<<g, m>>] =
                  <<M!TreeHash(s)[<<g - 1, 2 * m - 1>>], M!TreeHash(s)[<<g - 1, 2 * m>>]>>
        BY TreeOfTwo, Zenon
    <2> DEFINE T == M!TreeHash(s)
    <2> HIDE DEF T
    <2>3. T[<<h + 1, m>>] = <<T[<<(h + 1) - 1, 2 * m - 1>>], T[<<(h + 1) - 1, 2 * m>>]>>
        BY <2>1, <2>2, Zenon DEF T
    <2> QED
        BY <2>1, <2>3 DEF T
<1> QED
    BY <1>1 DEF IsNode

(* An old peak is a node of the new MMR too. *)
LEMMA OldPeakIsNode ==
    ASSUME NEW input, NEW dict, PeaksKnown(input, dict), Total(input) \in Nat,
           Old(input) <= Total(input),
           NEW g \in 0 .. MaxHeight, NEW j, <<g, j>> \in M!PeakTrees(Old(input))
    PROVE  /\ M!At(g, j) \in DOMAIN dict
           /\ IsNode(input, dict[M!At(g, j)], g, j)
<1> DEFINE k == Old(input)
<1>1. M!PositionOf(<<g, j>>) = M!At(g, j)
    BY M!PositionIsAt, Instance
<1>2. M!At(g, j) \in DOMAIN dict
    BY <1>1 DEF PeaksKnown
<1>3. ASSUME NEW leaves, IsRoot(input, leaves)
      PROVE  M!TreeHash(HashesOf(leaves))[<<g, j>>] = M!TreeHash(AllHashes(input, leaves))[<<g, j>>]
    <2> DEFINE a == HashesOf(leaves)
               b == AllHashes(input, leaves)
    <2>1. k \in Nat /\ Len(leaves) = k /\ DOMAIN leaves = 1 .. Len(leaves)
        BY <1>3, LeavesTypes DEF PeaksKnown, IsRoot
    <2>2. \A l \in 1 .. k : a[l] = b[l]
        <3> SUFFICES ASSUME NEW l \in 1 .. k
                     PROVE  a[l] = b[l]
            OBVIOUS
        <3>1. a[l] = <<leaves[l]>>
            BY <2>1 DEF HashesOf
        <3>2. l \in 1 .. Total(input) /\ l <= Old(input)
            BY <2>1
        <3>3. b[l] = <<leaves[l]>>
            BY <3>2 DEF AllHashes
        <3> QED
            BY <3>1, <3>3
    <2>3. <<g, j>> \in M!Subtrees(k)
        BY DEF M!PeakTrees
    <2> HIDE DEF a, b, k
    <2>4. M!TreeHash(a)[<<g, j>>] = M!TreeHash(b)[<<g, j>>]
        <3>1. M!Agree(a, b, k)
            BY <2>2 DEF M!Agree
        <3> QED
            BY <2>1, <2>3, <3>1, M!TreeIsLocal, Instance
    <2> QED
        BY <2>4 DEF a, b
<1>4. IsNode(input, dict[M!At(g, j)], g, j)
    BY <1>1, <1>3 DEF IsNode, PeaksKnown
<1> QED
    BY <1>2, <1>4

(* The trees over all leaves of a run stay below the bound. *)
LEMMA TotalFits ==
    ASSUME NEW input \in ProgramInputs, NEW dict, PeaksKnown(input, dict),
           Run(input) \in Nat, Run(input) <= Len(input.preimages_array)
    PROVE  /\ Old(input) \in Nat \ {0} /\ Total(input) \in Nat /\ Old(input) <= Total(input)
           /\ Total(input) + 1 < M!P(MaxHeight + 1) /\ M!P(MaxHeight + 1) \in Nat
<1> DEFINE k == Old(input)
           bound == M!P(MaxHeight + 1)
           r == Run(input)
           size == input.mmr_last_len
           len == Len(input.preimages_array)
<1>1. k \in Nat \ {0} /\ M!MmrSize(k) = size
    BY DEF PeaksKnown
<1>2. Total(input) = k + r
    BY DEF Total, Run
<1>3. size \in Int /\ len \in Nat /\ size + len + 1 < bound /\ bound \in Nat
    BY InputFits
<1> HIDE DEF k, r
<1>4. k <= size
    BY <1>1, M!LeavesAreNodes, Instance
<1>5. r \in Nat /\ r <= len
    BY DEF r
<1> HIDE DEF bound, size, len
<1>6. k + r \in Nat /\ k <= k + r /\ (k + r) + 1 < bound
    BY <1>1, <1>3, <1>4, <1>5
<1> QED
    BY <1>1, <1>2, <1>3, <1>6 DEF bound, k

(* A node that was built is read where it is; one of the old MMR is read  *)
(* when it is a peak.                                                      *)
LEMMA ReadsNode ==
    ASSUME program_input \in ProgramInputs, PeaksKnown(program_input, previous_peaks_dict),
           Total(program_input) \in Nat, Old(program_input) <= Total(program_input),
           NEW n \in Nat, n < M!P(MaxHeight + 1), NEW h,
           NodesUpTo(program_input, mmr_array_poseidon, n, h),
           NEW g \in 0 .. MaxHeight, NEW j \in Nat \ {0}, Reached(g, j, n, h),
           j * M!P(g) <= Old(program_input) =>
               M!Odd(j) /\ Old(program_input) < (j + 1) * M!P(g)
    PROVE  /\ \E v : /\ get_full_mmr_peak_values(M!At(g, j)) = {v}
                     /\ IsNode(program_input, v, g, j)
           /\ M!At(g, j) <= mmr_offset => M!At(g, j) \in DOMAIN previous_peaks_dict
<1> DEFINE k == Old(program_input)
           l == j * M!P(g)
           q == M!At(g, j)
<1>1. k \in Nat \ {0} /\ M!MmrSize(k) = mmr_offset /\ mmr_offset \in Int
    BY InputFits DEF PeaksKnown, mmr_offset
<1>2. /\ l \in Nat /\ l <= n
    <2>1. M!P(g) \in Nat
        BY Powers
    <2> DEFINE b == M!P(g)
    <2>2. j * b \in Nat
        <3> HIDE DEF b
        <3>1. b \in Nat
            BY <2>1 DEF b
        <3> QED
            BY <3>1
    <2> HIDE DEF l
    <2> QED
        BY <2>2 DEF Reached, l
<1>3. q \in Nat \ {0}
    BY <1>2, M!AtBelow, Instance
<1>4. CASE k < l
    <2> DEFINE p == q - mmr_offset
    <2>1. p \in DOMAIN mmr_array_poseidon /\ IsNode(program_input, mmr_array_poseidon[p], g, j)
        BY <1>4 DEF NodesUpTo, Has, mmr_offset
    <2>2. PICK c \in Nat : M!HasLength(mmr_array_poseidon, c)
        BY DEF NodesUpTo
    <2>3. DOMAIN mmr_array_poseidon = 1 .. c
        BY <2>2, Appends
    <2> HIDE DEF q, mmr_offset
    <2>4. p >= 1 /\ p - 1 >= 0 /\ ~(mmr_offset - q >= 0) /\ ~(q <= mmr_offset)
        BY <1>1, <1>3, <2>1, <2>3
    <2>5. get_full_mmr_peak_values(q) = {mmr_array_poseidon[p]}
        BY <2>1, <2>4 DEF get_full_mmr_peak_values, RangeCheck
    <2> QED
        BY <2>1, <2>4, <2>5 DEF q
<1>5. CASE ~(k < l)
    <2>1. l <= k
        BY <1>1, <1>2, <1>5
    <2>2. M!Odd(j) /\ k < (j + 1) * M!P(g)
        BY <2>1
    <2>3. k < M!P(MaxHeight + 1)
        <3>1. mmr_offset < M!P(MaxHeight + 1) /\ M!P(MaxHeight + 1) \in Nat
            BY InputFits DEF mmr_offset
        <3> HIDE DEF k, mmr_offset
        <3>2. k <= mmr_offset
            BY <1>1, M!LeavesAreNodes, Instance
        <3> QED
            BY <1>1, <3>1, <3>2
    <2>4. q <= mmr_offset
        <3> HIDE DEF k
        <3>1. M!At(g, j) <= M!MmrSize(k)
            BY <1>1, <2>1, <2>3, M!AtBelow, Instance DEF l
        <3> QED
            BY <1>1, <3>1
    <2>5. <<g, j>> \in M!PeakTrees(k)
        <3> HIDE DEF k
        <3>1. j >= 1 /\ j \in Int
            OBVIOUS
        <3>2. \E m \in Int : j = 2 * m + 1
            BY <2>2 DEF M!Odd
        <3> QED
            BY <1>1, <2>1, <2>2, <2>3, <3>1, <3>2, M!PeakIff, Instance DEF l
    <2>6. q \in DOMAIN previous_peaks_dict /\ IsNode(program_input, previous_peaks_dict[q], g, j)
        BY <2>5, OldPeakIsNode
    <2> HIDE DEF q, mmr_offset
    <2>7. ~((q - mmr_offset) - 1 >= 0) /\ mmr_offset - q >= 0
        BY <1>1, <1>3, <2>4
    <2>8. get_full_mmr_peak_values(q) = {previous_peaks_dict[q]}
        BY <2>6, <2>7 DEF get_full_mmr_peak_values, RangeCheck
    <2> QED
        BY <2>6, <2>8 DEF q
<1> QED
    BY <1>4, <1>5

-----------------------------------------------------------------------------
(* What the program keeps.                                                 *)

(* The number that the leaf of the current header gets. *)
CurrentLeaf == Total(program_input) - index

(* The peaks of the old MMR are known once they were checked. *)
PeaksAreKnown ==
    pc \notin {"peaks", "failed"} => PeaksKnown(program_input, previous_peaks_dict)

(* The hashes of the headers from an index are kept by index.              *)
KeptFrom(first) ==
    \A i \in first .. LastIndex :
        i \in DOMAIN poseidon_hash_array /\ poseidon_hash_array[i] = <<PreimageAt(i)>>

(* The hashes of the headers verified are kept by index. *)
HashesAreKept ==
    /\ pc \in {"peaks", "verify"} => KeptFrom(index + 1)
    /\ pc \in {"number", "append", "merge", "roots", "done"} =>
           KeptFrom(0) /\ expected_block_hash = extract_parent_hash(PreimageAt(0))

(* The array of new nodes is what the headers appended so far make of the  *)
(* old MMR, and the next position is that of the node that comes next.     *)
(* Before a leaf is appended every subtree that ends with the one before   *)
(* it is there; while subtrees merge, those up to the height are.          *)
NodesAreBuilt ==
    /\ pc \in {"peaks", "verify", "number"} => mmr_array_poseidon = <<>>
    /\ pc = "append" =>
           /\ next_pos = M!MmrSize(CurrentLeaf - 1) + 1
           /\ NodesUpTo(program_input, mmr_array_poseidon, CurrentLeaf - 1, MaxHeight)
    /\ pc = "merge" =>
           /\ height \in 0 .. MaxHeight
           /\ \E i \in Nat \ {0} : CurrentLeaf = i * M!P(height)
           /\ next_pos = M!MmrSize(CurrentLeaf - 1) + height + 2
           /\ NodesUpTo(program_input, mmr_array_poseidon, CurrentLeaf, height)
    /\ pc \in {"roots", "done"} =>
           /\ index = 0
           /\ next_pos = M!MmrSize(CurrentLeaf) + 1
           /\ NodesUpTo(program_input, mmr_array_poseidon, CurrentLeaf, MaxHeight)

(* No step changes the input.                                              *)
LEMMA InputStays == [Next]_vars => UNCHANGED program_input
BY DEF Next, vars, CheckPreviousPeaks, VerifyHeader, CheckBlockNumber, AppendLeaf,
       MergeSubtrees, StopMerging, Finish, Reject

(* Every step keeps the peaks that were checked.                           *)
LEMMA KeepsPeaks ==
    ASSUME IInv, PeaksAreKnown, [Next]_vars
    PROVE  PeaksAreKnown'
<1>1. UNCHANGED program_input
    BY InputStays
<1>2. program_input \in ProgramInputs
    BY DEF IInv
<1>3. CASE CheckPreviousPeaks
    <2>1. PICK positions \in compute_peaks_positions(mmr_offset) :
              /\ PreviousPeaksMatch(positions)
              /\ previous_peaks_dict' =
                     initialize_peaks_dicts(positions, program_input.poseidon_mmr_last_peaks)
        BY <1>3 DEF CheckPreviousPeaks
    <2>2. PreviousSizeIsValid
        BY <1>3 DEF CheckPreviousPeaks
    <2>3. PeaksKnown(program_input,
                     initialize_peaks_dicts(positions, program_input.poseidon_mmr_last_peaks))
        BY <1>2, <2>1, <2>2, PeaksChecked DEF PreviousPeaksMatch, PreviousSizeIsValid, mmr_offset
    <2>4. PeaksKnown(program_input', previous_peaks_dict')
        BY <1>1, <2>1, <2>3
    <2> QED
        BY <2>4 DEF PeaksAreKnown
<1>4. CASE ~CheckPreviousPeaks
    <2>1. /\ UNCHANGED previous_peaks_dict
          /\ pc' \notin {"peaks", "failed"} => pc \notin {"peaks", "failed"}
        BY <1>4 DEF Next, vars, VerifyHeader, CheckBlockNumber, AppendLeaf,
                    MergeSubtrees, StopMerging, Finish, Reject
    <2> QED
        BY <1>1, <2>1 DEF PeaksAreKnown
<1> QED
    BY <1>3, <1>4

(* Every step keeps the hashes of the headers verified.                    *)
LEMMA KeepsHashes ==
    ASSUME IInv, HashesAreKept, [Next]_vars
    PROVE  HashesAreKept'
<1>1. UNCHANGED program_input
    BY InputStays
<1>2. /\ LastIndex' = LastIndex /\ LastIndex \in Int /\ \A i : PreimageAt(i)' = PreimageAt(i)
    BY <1>1, LastIndexType DEF LastIndex, PreimageAt, IInv
<1>3. CASE VerifyHeader
    <2> DEFINE kept == poseidon_hash_array
    <2>1. /\ pc = "verify" /\ KeptFrom(index + 1) /\ index \in Int /\ index <= LastIndex
          /\ expected_block_hash = <<PreimageAt(index)>>
        BY <1>3 DEF VerifyHeader, HeaderMatches, compute_starknet_blockhash, HashesAreKept, IInv, TypeOK
    <2>2. /\ index \in DOMAIN kept' /\ kept'[index] = <<PreimageAt(index)>>
          /\ \A i \in (index + 1) .. LastIndex : i \in DOMAIN kept' /\ kept'[i] = kept[i]
        <3>1. kept' = [i \in DOMAIN kept \union {index} |->
                            IF i = index THEN expected_block_hash ELSE kept[i]]
            BY <1>3 DEF VerifyHeader
        <3>2. \A i \in (index + 1) .. LastIndex : i # index
            BY <1>2, <2>1
        <3> QED
            BY <2>1, <3>1, <3>2 DEF KeptFrom
    <2>3. \A i \in index .. LastIndex : i = index \/ i \in (index + 1) .. LastIndex
        BY <1>2, <2>1
    <2>4. \A i \in index .. LastIndex : i \in DOMAIN kept' /\ kept'[i] = <<PreimageAt(i)>>
        BY <2>1, <2>2, <2>3 DEF KeptFrom
    <2>5. expected_block_hash' = extract_parent_hash(PreimageAt(index))
        BY <1>3 DEF VerifyHeader
    <2>6. CASE index = 0
        <3>1. pc' = "number"
            BY <1>3, <2>6 DEF VerifyHeader
        <3>2. KeptFrom(0)'
            BY <1>2, <2>4, <2>6 DEF KeptFrom
        <3>3. expected_block_hash' = extract_parent_hash(PreimageAt(0))'
            BY <1>2, <2>5, <2>6 DEF extract_parent_hash
        <3> QED
            BY <3>1, <3>2, <3>3 DEF HashesAreKept
    <2>7. CASE index # 0
        <3>1. pc' = "verify" /\ index' = index - 1 /\ (index - 1) + 1 = index
            BY <1>3, <2>1, <2>7 DEF VerifyHeader
        <3>2. KeptFrom(index + 1)'
            BY <1>2, <2>4, <3>1 DEF KeptFrom
        <3> QED
            BY <3>1, <3>2 DEF HashesAreKept
    <2> QED
        BY <2>6, <2>7
<1>4. CASE ~VerifyHeader
    <2>1. /\ UNCHANGED <<expected_block_hash, poseidon_hash_array>>
          /\ pc' \in {"peaks", "verify"} => pc \in {"peaks", "verify"} /\ UNCHANGED index
          /\ pc' \in {"number", "append", "merge", "roots", "done"} =>
                 pc \in {"number", "append", "merge", "roots", "done"}
        BY <1>4 DEF Next, vars, CheckPreviousPeaks, CheckBlockNumber, AppendLeaf,
                    MergeSubtrees, StopMerging, Finish, Reject
    <2>2. /\ \A j : KeptFrom(j)' <=> KeptFrom(j)
          /\ extract_parent_hash(PreimageAt(0))' = extract_parent_hash(PreimageAt(0))
        BY <1>2, <2>1 DEF KeptFrom, extract_parent_hash
    <2> QED
        BY <2>1, <2>2 DEF HashesAreKept, KeptFrom
<1> QED
    BY <1>3, <1>4

-----------------------------------------------------------------------------
(* The nodes are built: a leaf, then the subtrees that end with it.        *)

(* The numbers of leaves while the headers are appended. *)
LEMMA LeavesFit ==
    ASSUME IInv, PeaksAreKnown, pc \in {"number", "append", "merge", "roots", "done"}
    PROVE  /\ program_input \in ProgramInputs /\ PeaksKnown(program_input, previous_peaks_dict)
           /\ Old(program_input) \in Nat \ {0} /\ mmr_offset \in Int
           /\ M!MmrSize(Old(program_input)) = mmr_offset
           /\ Total(program_input) = Old(program_input) + LastIndex + 1
           /\ LastIndex \in Nat /\ index \in 0 .. LastIndex
           /\ CurrentLeaf \in Nat \ {0} /\ CurrentLeaf - 1 \in Nat
           /\ Old(program_input) < CurrentLeaf /\ CurrentLeaf <= Total(program_input)
           /\ CurrentLeaf + 1 < M!P(MaxHeight + 1) /\ M!P(MaxHeight + 1) \in Nat
           /\ Total(program_input) \in Nat
<1> DEFINE k == Old(program_input)
           total == Total(program_input)
           bound == M!P(MaxHeight + 1)
<1>1. program_input \in ProgramInputs /\ PeaksKnown(program_input, previous_peaks_dict)
    BY DEF IInv, PeaksAreKnown
<1>2. k \in Nat \ {0} /\ M!MmrSize(k) = mmr_offset /\ mmr_offset \in Int
    BY <1>1, InputFits DEF PeaksKnown, mmr_offset
<1>3. LastIndex \in Nat /\ index \in 0 .. LastIndex /\ IsPreimage(LastIndex)
    <2>1. LastIndex \in Int /\ index \in 0 .. LastIndex /\ \A i \in 0 .. LastIndex : Linked(i)
        BY LastIndexType DEF IInv, TypeOK
    <2> HIDE DEF LastIndex, IsPreimage
    <2>2. LastIndex \in Nat /\ LastIndex \in 0 .. LastIndex
        BY <2>1
    <2> QED
        BY <2>1, <2>2 DEF Linked
<1>4. Run(program_input) = LastIndex + 1
    BY DEF Run, LastIndex
<1>5. Run(program_input) <= Len(program_input.preimages_array)
    <2>1. DOMAIN program_input.preimages_array = 1 .. Len(program_input.preimages_array)
        BY <1>1, InputFits, LenProperties
    <2> HIDE DEF LastIndex
    <2> QED
        BY <1>3, <1>4, <2>1 DEF IsPreimage
<1>6. total \in Nat /\ k <= total /\ total + 1 < bound /\ bound \in Nat
    <2>1. Run(program_input) \in Nat
        BY <1>3, <1>4
    <2> QED
        BY <1>1, <1>5, <2>1, TotalFits
<1>7. total = k + LastIndex + 1
    <2>1. total = k + Run(program_input)
        BY DEF Total
    <2> HIDE DEF total, k, LastIndex
    <2> QED
        BY <1>2, <1>3, <1>4, <2>1
<1>8. CurrentLeaf = total - index
    BY DEF CurrentLeaf
<1> HIDE DEF total, k, LastIndex, bound
<1>9. /\ CurrentLeaf \in Nat \ {0} /\ CurrentLeaf - 1 \in Nat
      /\ k < CurrentLeaf /\ CurrentLeaf <= total /\ CurrentLeaf + 1 < bound
    BY <1>2, <1>3, <1>6, <1>7, <1>8
<1> QED
    BY <1>1, <1>2, <1>3, <1>6, <1>7, <1>9 DEF k, total, bound

(* The next position is the one after the array.                           *)
LEMMA ArrayLength ==
    ASSUME NEW n, NEW h, NodesUpTo(program_input, mmr_array_poseidon, n, h), mmr_offset \in Int
    PROVE  \E c \in Nat : /\ M!HasLength(mmr_array_poseidon, c) /\ Len(mmr_array_poseidon) = c
                          /\ next_pos - mmr_offset = c + 1 /\ next_pos = c + mmr_offset + 1
<1>1. PICK c \in Nat : M!HasLength(mmr_array_poseidon, c)
    BY DEF NodesUpTo
<1>2. Len(mmr_array_poseidon) = c
    BY <1>1, Appends
<1> HIDE DEF mmr_offset
<1>3. next_pos - mmr_offset = c + 1 /\ next_pos = c + mmr_offset + 1
    BY <1>2 DEF next_pos
<1> QED
    BY <1>1, <1>2, <1>3

(* The first header is appended to the old MMR and to nothing else.        *)
LEMMA StartsBuilding ==
    ASSUME IInv, PeaksAreKnown, NodesAreBuilt, CheckBlockNumber
    PROVE  NodesAreBuilt'
<1> DEFINE k == Old(program_input)
<1>1. /\ pc = "number" /\ pc' = "append" /\ index' = LastIndex
      /\ UNCHANGED <<program_input, mmr_array_poseidon>> /\ mmr_array_poseidon = <<>>
    BY DEF CheckBlockNumber, NodesAreBuilt
<1>2. /\ k \in Nat \ {0} /\ mmr_offset \in Int /\ M!MmrSize(k) = mmr_offset
      /\ Total(program_input) = k + LastIndex + 1 /\ LastIndex \in Nat
    BY <1>1, LeavesFit
<1>3. CurrentLeaf' - 1 = k
    <2>1. CurrentLeaf' = Total(program_input) - LastIndex
        BY <1>1 DEF CurrentLeaf
    <2> HIDE DEF k, LastIndex
    <2> QED
        BY <1>2, <2>1
<1>4. NodesUpTo(program_input, <<>>, k, MaxHeight)
    <2>1. M!HasLength(<<>>, 0)
        BY DEF M!HasLength
    <2>2. ASSUME NEW g \in 0 .. MaxHeight, NEW j \in Nat \ {0}, Reached(g, j, k, MaxHeight)
          PROVE  ~(k < j * M!P(g))
        <3> DEFINE l == j * M!P(g)
        <3>1. l < k \/ l = k
            BY <2>2 DEF Reached
        <3>2. l \in Nat
            <4>1. M!P(g) \in Nat
                BY Powers
            <4> DEFINE b == M!P(g)
            <4> HIDE DEF b
            <4>2. j * b \in Nat
                BY <4>1 DEF b
            <4> QED
                BY <4>2 DEF b
        <3> HIDE DEF l, k
        <3>3. ~(k < l)
            BY <1>2, <3>1, <3>2
        <3> QED
            BY <3>3 DEF l
    <2> QED
        BY <2>1, <2>2 DEF NodesUpTo
<1>5. next_pos' = M!MmrSize(k) + 1
    <2>1. next_pos' = Len(mmr_array_poseidon) + mmr_offset + 1
        BY <1>1 DEF next_pos, mmr_offset
    <2>2. Len(mmr_array_poseidon) = 0
        BY <1>1
    <2> HIDE DEF mmr_offset, k
    <2> QED
        BY <1>2, <2>1, <2>2
<1>6. /\ next_pos' = M!MmrSize(CurrentLeaf' - 1) + 1
      /\ NodesUpTo(program_input', mmr_array_poseidon', CurrentLeaf' - 1, MaxHeight)
    BY <1>1, <1>3, <1>4, <1>5
<1> QED
    BY <1>1, <1>6 DEF NodesAreBuilt

(* A header is appended as a leaf.                                         *)
LEMMA AppendsLeaf ==
    ASSUME IInv, PeaksAreKnown, HashesAreKept, NodesAreBuilt, AppendLeaf
    PROVE  NodesAreBuilt'
<1> DEFINE n == CurrentLeaf
           hash == poseidon_hash_array[index]
           array == mmr_array_poseidon
           total == Total(program_input)
<1>1. /\ pc = "append" /\ pc' = "merge" /\ height' = 0
      /\ mmr_array_poseidon' = Append(array, hash)
      /\ UNCHANGED <<program_input, index>>
      /\ next_pos = M!MmrSize(n - 1) + 1
      /\ NodesUpTo(program_input, array, n - 1, MaxHeight)
    BY DEF AppendLeaf, NodesAreBuilt
<1>2. /\ program_input \in ProgramInputs /\ mmr_offset \in Int /\ index \in 0 .. LastIndex
      /\ Old(program_input) \in Nat \ {0} /\ total \in Nat /\ LastIndex \in Nat
      /\ n \in Nat \ {0} /\ n - 1 \in Nat /\ Old(program_input) < n /\ n <= total
    BY <1>1, LeavesFit
<1>3. n = total - index
    BY DEF CurrentLeaf
<1>4. hash = <<program_input.preimages_array[(total + 1) - n]>>
    <2>1. hash = <<program_input.preimages_array[index + 1]>>
        BY <1>1, <1>2 DEF HashesAreKept, KeptFrom, PreimageAt
    <2> HIDE DEF n, total
    <2>2. (total + 1) - n = index + 1
        BY <1>2, <1>3
    <2> QED
        BY <2>1, <2>2
<1> HIDE DEF n
<1>5. IsNode(program_input, hash, 0, n)
    BY <1>2, <1>4, LeafIsNode
<1>6. 0 \in 0 .. MaxHeight /\ n = n * M!P(0)
    <2>1. M!P(0) = 1 /\ MaxHeight \in Nat
        BY Powers
    <2>2. n * 1 = n
        BY <1>2
    <2> QED
        BY <2>1, <2>2
<1>7. M!At(0, n) = M!MmrSize(n - 1) + 1
    <2>1. M!MmrSize(n - 1) \in Nat
        BY <1>2, M!ForestFinite, Instance
    <2>2. M!At(0, n) = M!MmrSize(n - 1) + 0 + 1
        BY <1>6 DEF M!At
    <2> QED
        BY <2>1, <2>2
<1>8. PICK c \in Nat : /\ M!HasLength(array, c) /\ next_pos - mmr_offset = c + 1
                       /\ next_pos = c + mmr_offset + 1
    BY <1>1, <1>2, ArrayLength
<1>9. NodesUpTo(program_input, array, n, 0 - 1)
    <2>1. NodesUpTo(program_input, array, (n - 1) + 1, -1)
        BY <1>1, <1>2, NextLeaf
    <2>2. (n - 1) + 1 = n /\ 0 - 1 = -1
        BY <1>2
    <2> QED
        BY <2>1, <2>2
<1>10. NodesUpTo(program_input, Append(array, hash), n, 0) /\ M!HasLength(Append(array, hash), c + 1)
    <2>1. M!At(0, n) - mmr_offset = c + 1
        BY <1>1, <1>7, <1>8
    <2>2. program_input.mmr_last_len \in Int /\ M!At(0, n) - program_input.mmr_last_len = c + 1
        BY <1>2, <2>1 DEF mmr_offset
    <2> HIDE DEF hash, array
    <2>3. PICK h \in 0 .. MaxHeight, i \in Nat \ {0} : h = 0 /\ i = n
        BY <1>2, <1>6
    <2>4. /\ n = i * M!P(h) /\ NodesUpTo(program_input, array, n, h - 1)
          /\ M!At(h, i) - program_input.mmr_last_len = c + 1 /\ IsNode(program_input, hash, h, i)
        BY <1>5, <1>6, <1>9, <2>2, <2>3
    <2>5. /\ NodesUpTo(program_input, Append(array, hash), n, h)
          /\ M!HasLength(Append(array, hash), c + 1)
        BY <1>8, <2>2, <2>3, <2>4, Pushes, Zenon
    <2> QED
        BY <2>3, <2>5
<1>11. next_pos' = M!MmrSize(n - 1) + height' + 2
    <2>1. Len(Append(array, hash)) = c + 1
        BY <1>8, Appends
    <2>2. next_pos' = (c + 1) + mmr_offset + 1
        BY <1>1, <2>1 DEF next_pos, mmr_offset
    <2>3. M!MmrSize(n - 1) \in Nat
        BY <1>2, M!ForestFinite, Instance
    <2> DEFINE size == M!MmrSize(n - 1)
               offset == mmr_offset
    <2>4. /\ next_pos' = (c + 1) + offset + 1 /\ next_pos = c + offset + 1
          /\ next_pos = size + 1 /\ size \in Nat /\ offset \in Int /\ height' = 0
        BY <1>1, <1>2, <1>8, <2>2, <2>3
    <2> HIDE DEF size, offset
    <2>5. next_pos' = size + height' + 2
        BY <2>4
    <2> QED
        BY <2>5 DEF size
<1>12. CurrentLeaf' = n
    BY <1>1 DEF CurrentLeaf, n
<1>13. /\ height' \in 0 .. MaxHeight
       /\ \E i \in Nat \ {0} : n = i * M!P(height')
       /\ NodesUpTo(program_input', mmr_array_poseidon', n, height')
    BY <1>1, <1>2, <1>6, <1>10
<1> QED
    BY <1>1, <1>11, <1>12, <1>13 DEF NodesAreBuilt

(* When the node that comes next is a parent, both its children can be read. *)
LEMMA NextParent ==
    ASSUME IInv, PeaksAreKnown, NodesAreBuilt, pc = "merge",
           height + 1 \in compute_height[next_pos]
    PROVE  \E h \in 0 .. MaxHeight, i \in Nat \ {0}, m \in Nat \ {0} :
              /\ h = height /\ h + 1 \in 0 .. MaxHeight
              /\ i = 2 * m /\ CurrentLeaf = i * M!P(h) /\ CurrentLeaf = m * M!P(h + 1)
              /\ next_pos = M!At(h + 1, m)
              /\ \E v, w :
                    /\ get_full_mmr_peak_values(LeftChild(next_pos, h)) = {v}
                    /\ get_full_mmr_peak_values(next_pos - 1) = {w}
                    /\ IsNode(program_input, v, h, i - 1) /\ IsNode(program_input, w, h, i)
              /\ \A p \in {LeftChild(next_pos, h), next_pos - 1} :
                     p <= mmr_offset => p \in DOMAIN previous_peaks_dict
<1>1. /\ program_input \in ProgramInputs /\ PeaksKnown(program_input, previous_peaks_dict)
      /\ Old(program_input) \in Nat \ {0} /\ Total(program_input) \in Nat
      /\ Old(program_input) < CurrentLeaf /\ CurrentLeaf <= Total(program_input)
      /\ CurrentLeaf \in Nat \ {0} /\ CurrentLeaf - 1 \in Nat
      /\ CurrentLeaf + 1 < M!P(MaxHeight + 1) /\ M!P(MaxHeight + 1) \in Nat
    BY LeavesFit
<1>2. PICK h \in 0 .. MaxHeight, i \in Nat \ {0} :
          /\ h = height /\ CurrentLeaf = i * M!P(h)
          /\ next_pos = M!MmrSize(CurrentLeaf - 1) + h + 2
          /\ NodesUpTo(program_input, mmr_array_poseidon, CurrentLeaf, h)
    BY DEF NodesAreBuilt
<1>3. PICK n \in Nat \ {0} : n = CurrentLeaf
    BY <1>1
<1> DEFINE size == M!MmrSize(n - 1)
<1>4. /\ n + 1 < M!P(MaxHeight + 1) /\ n < M!P(MaxHeight + 1) /\ n - 1 \in Nat
      /\ Old(program_input) < n /\ Old(program_input) <= Total(program_input)
    BY <1>1, <1>3
<1>5. /\ n = i * M!P(h) /\ next_pos = size + h + 2
      /\ NodesUpTo(program_input, mmr_array_poseidon, n, h)
    BY <1>2, <1>3
<1>6. size \in Nat
    BY <1>4, M!ForestFinite, Instance
<1>7. ~M!Odd(i)
    <2> SUFFICES ASSUME M!Odd(i)
                 PROVE  FALSE
        OBVIOUS
    <2>1. M!compute_height[size + h + 2] = {0}
        BY <1>4, <1>5, M!LeafIsNext, Instance
    <2>2. h + 1 \in {0}
        BY <1>2, <1>5, <2>1, SameHeight
    <2> QED
        BY <2>2
<1>8. PICK m \in Nat \ {0} : i = 2 * m /\ n = m * M!P(h + 1) /\ M!Odd(i - 1)
    BY <1>4, <1>5, <1>7, M!ParentIsNext, Instance
<1>9. h + 1 \in 0 .. MaxHeight /\ size + h + 2 - M!P(h + 1) = M!At(h, i - 1)
    BY <1>4, <1>5, <1>7, M!ParentIsNext, Instance
<1>10. LeftChild(next_pos, h) = M!At(h, i - 1)
    <2>1. LeftChild(next_pos, h) = next_pos - M!P(h + 1)
        BY DEF LeftChild, M!P
    <2> DEFINE p == M!P(h + 1)
               q == M!At(h, i - 1)
    <2>2. LeftChild(next_pos, h) = next_pos - p /\ size + h + 2 - p = q
          /\ next_pos = size + h + 2 /\ p \in Nat
        <3>1. p \in Nat
            BY <1>9, Powers
        <3> QED
            BY <1>5, <1>9, <2>1, <3>1
    <2> HIDE DEF size, p, q
    <2>3. LeftChild(next_pos, h) = q
        BY <1>6, <2>2
    <2> QED
        BY <2>3 DEF q
<1>11. next_pos - 1 = M!At(h, i) /\ next_pos = M!At(h + 1, m)
    <2>1. M!At(h, i) = size + h + 1 /\ M!At(h + 1, m) = size + (h + 1) + 1
        BY <1>5, <1>8 DEF M!At
    <2> HIDE DEF size
    <2> QED
        BY <1>5, <1>6, <2>1
<1>12. \E w : get_full_mmr_peak_values(M!At(h, i)) = {w} /\ IsNode(program_input, w, h, i)
    <2>1. Reached(h, i, n, h)
        BY <1>5 DEF Reached
    <2>2. ~(i * M!P(h) <= Old(program_input))
        BY <1>1, <1>4, <1>5
    <2>3. n \in Nat
        OBVIOUS
    <2> QED
        BY <1>1, <1>4, <1>5, <2>1, <2>2, <2>3, ReadsNode
<1>13. M!At(h, i) <= mmr_offset => M!At(h, i) \in DOMAIN previous_peaks_dict
    <2>1. Reached(h, i, n, h)
        BY <1>5 DEF Reached
    <2>2. ~(i * M!P(h) <= Old(program_input))
        BY <1>1, <1>4, <1>5
    <2>3. n \in Nat
        OBVIOUS
    <2> QED
        BY <1>1, <1>4, <1>5, <2>1, <2>2, <2>3, ReadsNode
<1>14. /\ \E v : get_full_mmr_peak_values(M!At(h, i - 1)) = {v} /\ IsNode(program_input, v, h, i - 1)
       /\ M!At(h, i - 1) <= mmr_offset => M!At(h, i - 1) \in DOMAIN previous_peaks_dict
    <2>1. PICK j \in Nat \ {0} : j = i - 1 /\ j + 1 = i
        BY <1>8
    <2>2. M!P(h) \in Nat \ {0}
        BY Powers
    <2> DEFINE q == M!P(h)
    <2>3. j * q < n
        <3> HIDE DEF q
        <3>1. q \in Nat \ {0} /\ n = (j + 1) * q
            BY <1>5, <2>1, <2>2 DEF q
        <3>2. (j + 1) * q = j * q + q /\ j * q \in Int
            BY <3>1
        <3> QED
            BY <3>1, <3>2
    <2>4. Reached(h, j, n, h)
        BY <2>3 DEF Reached
    <2>5. M!Odd(j) /\ Old(program_input) < (j + 1) * M!P(h)
        BY <1>4, <1>5, <1>8, <2>1
    <2>6. n \in Nat
        OBVIOUS
    <2>7. /\ \E v : get_full_mmr_peak_values(M!At(h, j)) = {v} /\ IsNode(program_input, v, h, j)
          /\ M!At(h, j) <= mmr_offset => M!At(h, j) \in DOMAIN previous_peaks_dict
        BY <1>1, <1>4, <1>5, <2>4, <2>5, <2>6, ReadsNode
    <2> QED
        BY <2>1, <2>7
<1>15. \E v, w :
           /\ get_full_mmr_peak_values(LeftChild(next_pos, h)) = {v}
           /\ get_full_mmr_peak_values(next_pos - 1) = {w}
           /\ IsNode(program_input, v, h, i - 1) /\ IsNode(program_input, w, h, i)
    BY <1>10, <1>11, <1>12, <1>14
<1>16. \A p \in {LeftChild(next_pos, h), next_pos - 1} :
           p <= mmr_offset => p \in DOMAIN previous_peaks_dict
    BY <1>10, <1>11, <1>13, <1>14
<1>17. CurrentLeaf = m * M!P(h + 1)
    BY <1>3, <1>8
<1> QED
    BY <1>2, <1>8, <1>9, <1>11, <1>15, <1>16, <1>17

(* A parent is appended. *)
LEMMA AppendsParent ==
    ASSUME IInv, PeaksAreKnown, NodesAreBuilt, MergeSubtrees
    PROVE  NodesAreBuilt'
<1> DEFINE n == CurrentLeaf
           array == mmr_array_poseidon
<1>1. /\ pc = "merge" /\ pc' = "merge" /\ height' = height + 1
      /\ height + 1 \in compute_height[next_pos]
      /\ UNCHANGED <<program_input, index>>
      /\ next_pos = M!MmrSize(n - 1) + height + 2
      /\ NodesUpTo(program_input, array, n, height)
    BY DEF MergeSubtrees, NodesAreBuilt
<1>2. program_input \in ProgramInputs /\ mmr_offset \in Int /\ n - 1 \in Nat
    BY <1>1, LeavesFit
<1>3. PICK h \in 0 .. MaxHeight, i \in Nat \ {0}, m \in Nat \ {0} :
          /\ h = height /\ h + 1 \in 0 .. MaxHeight
          /\ i = 2 * m /\ n = i * M!P(h) /\ n = m * M!P(h + 1)
          /\ next_pos = M!At(h + 1, m)
          /\ \E v, w :
                /\ get_full_mmr_peak_values(LeftChild(next_pos, h)) = {v}
                /\ get_full_mmr_peak_values(next_pos - 1) = {w}
                /\ IsNode(program_input, v, h, i - 1) /\ IsNode(program_input, w, h, i)
    BY <1>1, NextParent
<1> HIDE DEF n
<1>4. PICK hash : array' = Append(array, hash) /\ IsNode(program_input, hash, h + 1, m)
    <2>1. PICK v, w :
              /\ get_full_mmr_peak_values(LeftChild(next_pos, height)) = {v}
              /\ get_full_mmr_peak_values(next_pos - 1) = {w}
              /\ IsNode(program_input, v, h, i - 1) /\ IsNode(program_input, w, h, i)
        BY <1>3
    <2>2. array' = Append(array, <<v, w>>)
        BY <2>1 DEF MergeSubtrees, poseidon_hash
    <2>3. IsNode(program_input, <<v, w>>, h + 1, m)
        <3>1. h \in Nat
            OBVIOUS
        <3> QED
            BY <1>3, <2>1, <3>1, ParentIsNode
    <2> QED
        BY <2>2, <2>3
<1>5. PICK c \in Nat : /\ M!HasLength(array, c) /\ next_pos - mmr_offset = c + 1
                       /\ next_pos = c + mmr_offset + 1
    BY <1>1, <1>2, ArrayLength
<1>6. PICK g \in 0 .. MaxHeight : g = h + 1 /\ g - 1 = h
    BY <1>3
<1>7. NodesUpTo(program_input, Append(array, hash), n, g) /\ M!HasLength(Append(array, hash), c + 1)
    <2>1. /\ program_input.mmr_last_len \in Int
          /\ M!At(g, m) - program_input.mmr_last_len = c + 1
          /\ n = m * M!P(g) /\ NodesUpTo(program_input, array, n, g - 1)
          /\ IsNode(program_input, hash, g, m)
        BY <1>1, <1>2, <1>3, <1>4, <1>5, <1>6 DEF mmr_offset
    <2> HIDE DEF array
    <2> QED
        BY <1>3, <1>5, <1>6, <2>1, Pushes, Zenon
<1>8. next_pos' = M!MmrSize(n - 1) + height' + 2
    <2>1. Len(Append(array, hash)) = c + 1
        BY <1>5, Appends
    <2>2. next_pos' = (c + 1) + mmr_offset + 1
        BY <1>1, <1>4, <2>1 DEF next_pos, mmr_offset
    <2>3. M!MmrSize(n - 1) \in Nat
        BY <1>2, M!ForestFinite, Instance
    <2> DEFINE size == M!MmrSize(n - 1)
               offset == mmr_offset
    <2>4. /\ next_pos' = (c + 1) + offset + 1 /\ next_pos = c + offset + 1
          /\ next_pos = size + h + 2 /\ size \in Nat /\ offset \in Int /\ height' = h + 1
        BY <1>1, <1>2, <1>3, <1>5, <2>2, <2>3
    <2> HIDE DEF size, offset
    <2>5. next_pos' = size + height' + 2
        BY <2>4
    <2> QED
        BY <2>5 DEF size
<1>9. CurrentLeaf' = n
    BY <1>1 DEF CurrentLeaf, n
<1>10. /\ height' \in 0 .. MaxHeight
       /\ \E j \in Nat \ {0} : n = j * M!P(height')
       /\ NodesUpTo(program_input', mmr_array_poseidon', n, height')
    BY <1>1, <1>3, <1>4, <1>6, <1>7
<1> QED
    BY <1>1, <1>8, <1>9, <1>10 DEF NodesAreBuilt

(* The subtrees that end with the current leaf are complete. *)
LEMMA StopsMerging ==
    ASSUME IInv, PeaksAreKnown, NodesAreBuilt, StopMerging
    PROVE  NodesAreBuilt'
<1> DEFINE n == CurrentLeaf
           array == mmr_array_poseidon
<1>1. /\ pc = "merge" /\ (\E g \in compute_height[next_pos] : g # height + 1)
      /\ UNCHANGED <<program_input, mmr_array_poseidon>>
    BY DEF StopMerging
<1>2. /\ n \in Nat \ {0} /\ n - 1 \in Nat /\ n + 1 < M!P(MaxHeight + 1)
      /\ M!P(MaxHeight + 1) \in Nat
      /\ Total(program_input) \in Nat /\ LastIndex \in Nat /\ index \in 0 .. LastIndex
    BY <1>1, LeavesFit
<1>3. PICK h \in 0 .. MaxHeight, i \in Nat \ {0} :
          /\ h = height /\ n = i * M!P(h)
          /\ next_pos = M!MmrSize(n - 1) + h + 2
          /\ NodesUpTo(program_input, array, n, h)
    BY <1>1 DEF NodesAreBuilt
<1>4. n = Total(program_input) - index
    BY DEF CurrentLeaf
<1> HIDE DEF n
<1>5. PICK k \in Nat \ {0} : k = n /\ k - 1 \in Nat /\ k + 1 < M!P(MaxHeight + 1) /\ k < M!P(MaxHeight + 1)
    BY <1>2
<1>6. M!Odd(i)
    <2> SUFFICES ASSUME ~M!Odd(i)
                 PROVE  FALSE
        OBVIOUS
    <2>1. M!compute_height[M!MmrSize(k - 1) + h + 2] = {h + 1}
        BY <1>3, <1>5, M!ParentIsNext, Instance
    <2>2. compute_height[next_pos] = {height + 1}
        BY <1>3, <1>5, <2>1, SameHeight
    <2> QED
        BY <1>1, <2>2
<1>7. next_pos = M!MmrSize(n) + 1
    <2>1. M!MmrSize(k) = M!MmrSize(k - 1) + h + 1
        BY <1>3, <1>5, <1>6, M!LeafIsNext, Instance
    <2>2. M!MmrSize(k - 1) \in Nat
        BY <1>5, M!ForestFinite, Instance
    <2> DEFINE a == M!MmrSize(k - 1)
               b == M!MmrSize(k)
    <2>3. next_pos = a + h + 2 /\ b = a + h + 1 /\ a \in Nat
        BY <1>3, <1>5, <2>1, <2>2
    <2> HIDE DEF a, b
    <2>4. next_pos = b + 1
        BY <2>3
    <2> QED
        BY <1>5, <2>4 DEF b
<1>8. NodesUpTo(program_input, array, n, MaxHeight)
    BY <1>3, <1>6, Stops
<1>9. next_pos' = M!MmrSize(n) + 1 /\ NodesUpTo(program_input', array', n, MaxHeight)
    BY <1>1, <1>7, <1>8 DEF next_pos, mmr_offset
<1>10. CASE index = 0
    <2>1. pc' = "roots" /\ index' = 0
        BY <1>10 DEF StopMerging, LastLeafDone
    <2>2. CurrentLeaf' = n
        BY <1>1, <1>4, <1>10, <2>1 DEF CurrentLeaf
    <2> QED
        BY <1>9, <2>1, <2>2 DEF NodesAreBuilt
<1>11. CASE index # 0
    <2>1. pc' = "append" /\ index' = index - 1
        BY <1>11 DEF StopMerging, LastLeafDone
    <2>2. CurrentLeaf' = Total(program_input) - (index - 1)
        BY <1>1, <2>1 DEF CurrentLeaf
    <2>3. CurrentLeaf' - 1 = n
        BY <1>2, <1>4, <2>2
    <2> QED
        BY <1>9, <2>1, <2>3 DEF NodesAreBuilt
<1> QED
    BY <1>10, <1>11

(* Every step keeps the nodes in order.                                    *)
LEMMA KeepsNodes ==
    ASSUME IInv, PeaksAreKnown, HashesAreKept, NodesAreBuilt, [Next]_vars
    PROVE  NodesAreBuilt'
<1>1. UNCHANGED program_input
    BY InputStays
<1>2. CASE CheckPreviousPeaks
    BY <1>2 DEF CheckPreviousPeaks, NodesAreBuilt
<1>3. CASE VerifyHeader
    BY <1>3 DEF VerifyHeader, NodesAreBuilt
<1>4. CASE Reject
    BY <1>4 DEF Reject, NodesAreBuilt
<1>5. CASE Finish
    BY <1>1, <1>5 DEF Finish, NodesAreBuilt, next_pos, mmr_offset, CurrentLeaf
<1>6. CASE UNCHANGED vars
    BY <1>6 DEF vars, NodesAreBuilt, next_pos, mmr_offset, CurrentLeaf
<1> QED
    BY <1>2, <1>3, <1>4, <1>5, <1>6, StartsBuilding, AppendsLeaf, AppendsParent, StopsMerging DEF Next

-----------------------------------------------------------------------------
(* The new root and the output.                                            *)

(* A root is that of the old leaves with the headers appended.             *)
IsNewRoot(root) ==
    \A leaves : IsRoot(program_input, leaves) =>
        root = M!MmrRoot(AllHashes(program_input, leaves))

(* The output is made of the input, of the last header and of the new      *)
(* root.                                                                   *)
OutputIsMade ==
    pc = "done" =>
        \E root : /\ IsNewRoot(root)
                  /\ output =
                        [ from_block_number_high |-> program_input.from_block_number_high,
                          to_block_number_low    |-> program_input.to_block_number_low,
                          block_n_plus_one_parent_hash |->
                              program_input.block_n_plus_one_parent_hash,
                          block_n_minus_r_plus_one_parent_hash |->
                              extract_parent_hash(PreimageAt(0)),
                          mmr_last_root_poseidon |-> program_input.mmr_last_root_poseidon,
                          mmr_last_len           |-> mmr_offset,
                          new_mmr_root_poseidon  |-> root,
                          new_mmr_len            |-> M!MmrSize(Total(program_input)) ]

(* Every peak of the new MMR is read as what it must be, from the array    *)
(* when it is new and from the dictionary when it is an old peak.          *)
LEMMA NewPeaks ==
    ASSUME IInv, PeaksAreKnown, NodesAreBuilt, pc = "roots",
           NEW t \in M!PeakTrees(Total(program_input))
    PROVE  /\ \E v : /\ get_full_mmr_peak_values(M!PositionOf(t)) = {v}
                     /\ \A leaves : IsRoot(program_input, leaves) =>
                            v = M!TreeHash(AllHashes(program_input, leaves))[t]
           /\ M!PositionOf(t) <= mmr_offset => M!PositionOf(t) \in DOMAIN previous_peaks_dict
<1>1. /\ program_input \in ProgramInputs /\ PeaksKnown(program_input, previous_peaks_dict)
      /\ Old(program_input) \in Nat \ {0} /\ Total(program_input) \in Nat
      /\ Old(program_input) < CurrentLeaf
      /\ CurrentLeaf + 1 < M!P(MaxHeight + 1) /\ M!P(MaxHeight + 1) \in Nat
    BY LeavesFit
<1>2. /\ index = 0 /\ NodesUpTo(program_input, mmr_array_poseidon, CurrentLeaf, MaxHeight)
    BY DEF NodesAreBuilt
<1>3. CurrentLeaf = Total(program_input)
    BY <1>1, <1>2 DEF CurrentLeaf
<1>4. PICK n \in Nat : n = Total(program_input)
    BY <1>1
<1>5. /\ NodesUpTo(program_input, mmr_array_poseidon, n, MaxHeight)
      /\ Old(program_input) < n /\ n < M!P(MaxHeight + 1) /\ t \in M!PeakTrees(n)
      /\ Old(program_input) <= Total(program_input)
    BY <1>1, <1>2, <1>3, <1>4
<1>6. PICK g \in 0 .. MaxHeight, j \in Nat \ {0} : t = <<g, j>>
    <2>1. t \in M!Subtrees(n)
        BY <1>5 DEF M!PeakTrees
    <2>2. t \in (0 .. MaxHeight) \X (1 .. n)
        BY <2>1 DEF M!Subtrees
    <2>3. \A i \in 1 .. n : i \in Nat \ {0}
        OBVIOUS
    <2> QED
        BY <2>2, <2>3
<1>7. j * M!P(g) <= n /\ n < (j + 1) * M!P(g) /\ M!Odd(j)
    <2>1. j \in Int /\ <<g, j>> \in M!PeakTrees(n)
        BY <1>5, <1>6
    <2>2. j * M!P(g) <= n /\ n < (j + 1) * M!P(g) /\ \E m \in Int : j = 2 * m + 1
        BY <1>5, <2>1, M!PeakIff, Instance
    <2> QED
        BY <2>2 DEF M!Odd
<1>8. M!P(g) \in Nat \ {0} /\ MaxHeight \in Nat
    BY Powers
<1>9. Reached(g, j, n, MaxHeight)
    <2> DEFINE q == M!P(g)
               l == j * q
    <2>1. l \in Nat
        <3> HIDE DEF q
        <3>1. q \in Nat
            BY <1>8 DEF q
        <3> QED
            BY <3>1
    <2>2. l <= n
        BY <1>7
    <2> HIDE DEF l
    <2>3. l < n \/ l = n
        BY <2>1, <2>2
    <2> QED
        BY <1>8, <2>3 DEF Reached, l
<1>10. Old(program_input) < (j + 1) * M!P(g)
    <2> DEFINE l == (j + 1) * M!P(g)
               k == Old(program_input)
    <2>1. l \in Nat
        <3> DEFINE q == M!P(g)
        <3> HIDE DEF q
        <3>1. q \in Nat
            BY <1>8 DEF q
        <3>2. (j + 1) * q \in Nat
            BY <3>1
        <3> QED
            BY <3>2 DEF q
    <2>2. k < n /\ n < l /\ k \in Nat
        BY <1>1, <1>5, <1>7
    <2> HIDE DEF l, k
    <2>3. k < l
        BY <2>1, <2>2
    <2> QED
        BY <2>3 DEF l, k
<1>11. /\ \E v : get_full_mmr_peak_values(M!At(g, j)) = {v} /\ IsNode(program_input, v, g, j)
       /\ M!At(g, j) <= mmr_offset => M!At(g, j) \in DOMAIN previous_peaks_dict
    BY <1>1, <1>5, <1>7, <1>9, <1>10, ReadsNode
<1>12. M!PositionOf(t) = M!At(g, j)
    BY <1>6, M!PositionIsAt, Instance
<1> QED
    BY <1>6, <1>11, <1>12 DEF IsNode

(* The positions of the peaks that the program reads are those of the new  *)
(* MMR.                                                                    *)
LEMMA NewPositions ==
    ASSUME IInv, PeaksAreKnown, NodesAreBuilt, pc = "roots"
    PROVE  /\ Total(program_input) \in Nat \ {0}
           /\ Total(program_input) < M!P(MaxHeight + 1)
           /\ mmr_size = M!MmrSize(Total(program_input))
           /\ compute_peaks_positions(mmr_size) = {M!PeakPositions(Total(program_input))}
<1>1. /\ mmr_offset \in Int /\ CurrentLeaf \in Nat \ {0}
      /\ CurrentLeaf + 1 < M!P(MaxHeight + 1) /\ M!P(MaxHeight + 1) \in Nat
      /\ Total(program_input) \in Nat
    BY LeavesFit
<1>2. /\ index = 0 /\ next_pos = M!MmrSize(CurrentLeaf) + 1
      /\ NodesUpTo(program_input, mmr_array_poseidon, CurrentLeaf, MaxHeight)
    BY DEF NodesAreBuilt
<1>3. CurrentLeaf = Total(program_input)
    BY <1>1, <1>2 DEF CurrentLeaf
<1>4. PICK c \in Nat : Len(mmr_array_poseidon) = c /\ next_pos = c + mmr_offset + 1
    BY <1>1, <1>2, ArrayLength
<1>5. PICK n \in Nat \ {0} : n = Total(program_input) /\ n < M!P(MaxHeight + 1)
    BY <1>1, <1>3
<1>6. mmr_size = M!MmrSize(n)
    <2> DEFINE size == M!MmrSize(n)
    <2>1. size \in Nat
        BY <1>5, M!ForestFinite, Instance
    <2>2. next_pos = size + 1
        BY <1>2, <1>3, <1>5
    <2> HIDE DEF size, mmr_offset
    <2>3. mmr_size = size
        BY <1>1, <1>4, <2>1, <2>2 DEF mmr_size
    <2> QED
        BY <2>3 DEF size
<1>7. compute_peaks_positions(mmr_size) = {M!PeakPositions(n)}
    <2>1. M!compute_peaks_positions(M!MmrSize(n)) = {M!PeakPositions(n)}
        BY <1>5, M!PeaksInOrder, Instance
    <2> QED
        BY <1>6, <2>1, SamePeakPositions
<1> QED
    BY <1>5, <1>6, <1>7

(* The program can only compute the new root.                              *)
LEMMA RootsAreNew ==
    ASSUME IInv, PeaksAreKnown, NodesAreBuilt, pc = "roots", NEW root \in get_roots
    PROVE  IsNewRoot(root)
<1>1. PICK n \in Nat \ {0} :
          /\ n = Total(program_input) /\ n < M!P(MaxHeight + 1) /\ mmr_size = M!MmrSize(n)
          /\ compute_peaks_positions(mmr_size) = {M!PeakPositions(n)}
    BY NewPositions
<1> DEFINE c == M!PeakCount(n)
           s == M!PeakSequence(n)
           positions == M!PeakPositions(n)
<1>2. PICK peaks \in get_peaks_from_positions(positions) : root = RootOf(mmr_size, peaks)
    BY <1>1 DEF get_roots
<1>3. /\ c \in Nat \ {0} /\ s \in [1 .. c -> M!PeakTrees(n)]
      /\ positions = [i \in 1 .. c |-> M!PositionOf(s[i])]
    BY <1>1, M!PeaksListed, Instance
<1> HIDE DEF c, s
<1>4. DOMAIN positions = 1 .. c /\ \A i \in 1 .. c : positions[i] = M!PositionOf(s[i])
    BY <1>3
<1> HIDE DEF positions
<1>5. /\ peaks = [i \in 1 .. c |-> peaks[i]]
      /\ \A i \in 1 .. c : peaks[i] \in get_full_mmr_peak_values(positions[i])
    BY <1>2, <1>4 DEF get_peaks_from_positions
<1> SUFFICES ASSUME NEW leaves, IsRoot(program_input, leaves)
             PROVE  root = M!MmrRoot(AllHashes(program_input, leaves))
    BY DEF IsNewRoot
<1> DEFINE hashes == AllHashes(program_input, leaves)
           new == M!PeakHashes(hashes)
<1>6. Len(hashes) = n
    <2> HIDE DEF hashes
    <2>1. hashes = [i \in 1 .. n |-> hashes[i]]
        BY <1>1 DEF hashes, AllHashes
    <2> QED
        BY <2>1, M!IsSequence, Instance
<1> HIDE DEF hashes
<1>7. \A i \in 1 .. c : peaks[i] = M!TreeHash(hashes)[s[i]]
    <2> SUFFICES ASSUME NEW i \in 1 .. c
                 PROVE  peaks[i] = M!TreeHash(hashes)[s[i]]
        OBVIOUS
    <2>1. s[i] \in M!PeakTrees(Total(program_input))
        BY <1>1, <1>3
    <2>2. PICK v : /\ get_full_mmr_peak_values(M!PositionOf(s[i])) = {v}
                   /\ v = M!TreeHash(hashes)[s[i]]
        BY <2>1, NewPeaks DEF hashes
    <2> QED
        BY <1>4, <1>5, <2>2
<1>8. /\ new = [i \in 1 .. c |-> M!TreeHash(hashes)[s[i]]]
      /\ M!MmrRoot(hashes) = M!RootOf(M!MmrSize(n), new)
    BY <1>1, <1>6, M!RootOfLeaves, Instance DEF c, s
<1> HIDE DEF new
<1>9. peaks = new
    BY <1>5, <1>7, <1>8
<1>10. root = M!RootOf(M!MmrSize(n), new)
    BY <1>1, <1>2, <1>9, SameRoot
<1> QED
    BY <1>8, <1>10 DEF hashes

(* Every step makes the output or keeps it.                                *)
LEMMA KeepsOutput ==
    ASSUME IInv, PeaksAreKnown, HashesAreKept, NodesAreBuilt, OutputIsMade, [Next]_vars
    PROVE  OutputIsMade'
<1>1. UNCHANGED program_input
    BY InputStays
<1>2. PreimageAt(0)' = PreimageAt(0) /\ mmr_offset' = mmr_offset
      /\ \A root : IsNewRoot(root)' = IsNewRoot(root)
    BY <1>1 DEF PreimageAt, mmr_offset, IsNewRoot
<1>3. CASE Finish
    <2>1. pc = "roots" /\ expected_block_hash = extract_parent_hash(PreimageAt(0))
        BY <1>3 DEF Finish, HashesAreKept
    <2>2. mmr_size = M!MmrSize(Total(program_input))
        BY <2>1, NewPositions
    <2>3. PICK root \in get_roots :
              output' = [ from_block_number_high |-> program_input.from_block_number_high,
                          to_block_number_low    |-> program_input.to_block_number_low,
                          block_n_plus_one_parent_hash |->
                              program_input.block_n_plus_one_parent_hash,
                          block_n_minus_r_plus_one_parent_hash |-> expected_block_hash,
                          mmr_last_root_poseidon |-> program_input.mmr_last_root_poseidon,
                          mmr_last_len           |-> mmr_offset,
                          new_mmr_root_poseidon  |-> root,
                          new_mmr_len            |-> mmr_size ]
        BY <1>3 DEF Finish
    <2>4. IsNewRoot(root)
        BY <2>1, RootsAreNew
    <2> QED
        BY <1>1, <1>2, <2>1, <2>2, <2>3, <2>4 DEF OutputIsMade, extract_parent_hash
<1>4. CASE ~Finish
    <2>1. pc' = "done" => pc = "done" /\ UNCHANGED output
        BY <1>4 DEF Next, vars, CheckPreviousPeaks, VerifyHeader, CheckBlockNumber, AppendLeaf,
                    MergeSubtrees, StopMerging, Reject
    <2> QED
        BY <1>1, <1>2, <2>1 DEF OutputIsMade, extract_parent_hash
<1> QED
    BY <1>3, <1>4

-----------------------------------------------------------------------------
(* An input that belongs to an MMR and to headers is not rejected.         *)

(* An input that belongs to an MMR and to headers that ChunkJob accepts. *)
IsGood(leaves) ==
    /\ leaves \in Mmrs /\ Job!ProgramAccepts(JobOn(leaves))
    /\ program_input.mmr_last_len = M!MmrSize(Len(leaves))
    /\ program_input.mmr_last_root_poseidon = RootHash(leaves)
    /\ program_input.poseidon_mmr_last_peaks = M!PeakHashes(HashesOf(leaves))

(* The size and the peaks of a good input pass the checks.                 *)
LEMMA GoodPeaks ==
    ASSUME program_input \in ProgramInputs, NEW leaves, IsGood(leaves)
    PROVE  /\ PreviousSizeIsValid
           /\ \E positions \in compute_peaks_positions(mmr_offset) : PreviousPeaksMatch(positions)
<1> DEFINE hashes == HashesOf(leaves)
           peaks == program_input.poseidon_mmr_last_peaks
<1>1. /\ Len(leaves) \in Nat \ {0} /\ Len(leaves) <= M!MmrSize(Len(leaves))
      /\ Len(hashes) = Len(leaves) /\ RootHash(leaves) = M!MmrRoot(hashes)
    BY LeavesTypes DEF IsGood
<1>2. PICK k \in Nat \ {0} : k = Len(leaves) /\ k <= M!MmrSize(k) /\ Len(hashes) = k
    BY <1>1
<1> HIDE DEF hashes
<1>3. /\ mmr_offset = M!MmrSize(k) /\ mmr_offset \in Int
      /\ mmr_offset < M!P(MaxHeight + 1) /\ M!P(MaxHeight + 1) \in Nat
    BY <1>2, InputFits DEF IsGood, mmr_offset
<1>4. k \in 1 .. mmr_offset /\ k < M!P(MaxHeight + 1)
    <2> HIDE DEF mmr_offset
    <2> QED
        BY <1>2, <1>3
<1>5. PreviousSizeIsValid
    <2> DEFINE offset == mmr_offset
    <2>1. \E m \in 1 .. offset : M!MmrSize(m) = offset
        BY <1>3, <1>4
    <2>2. offset \in Int /\ offset < M!P(MaxHeight + 1)
        BY <1>3
    <2> HIDE DEF offset
    <2>3. M!assert_mmr_size_is_valid(offset)
        BY <2>1, <2>2, M!ValidSize, Instance
    <2> QED
        BY <2>3, SameValidity DEF PreviousSizeIsValid, offset
<1> DEFINE c == M!PeakCount(k)
           positions == M!PeakPositions(k)
           known == SubSeq(peaks, 1, Len(positions))
<1>6. positions \in compute_peaks_positions(mmr_offset)
    <2>1. M!compute_peaks_positions(M!MmrSize(k)) = {M!PeakPositions(k)}
        BY <1>4, M!PeaksInOrder, Instance
    <2> QED
        BY <1>3, <2>1, SamePeakPositions
<1>7. c \in Nat \ {0} /\ Len(positions) = c
    <2>1. /\ c \in Nat \ {0}
          /\ positions = [i \in 1 .. c |-> M!PositionOf(M!PeakSequence(k)[i])]
        BY <1>4, M!PeaksListed, Instance
    <2> HIDE DEF positions, c
    <2>2. positions = [i \in 1 .. c |-> positions[i]]
        BY <2>1
    <2>3. Len(positions) = c
        BY <2>1, <2>2, M!IsSequence, Instance
    <2> QED
        BY <2>1, <2>3
<1>8. /\ peaks = M!PeakHashes(hashes)
      /\ M!PeakHashes(hashes) = [i \in 1 .. c |-> M!TreeHash(hashes)[M!PeakSequence(k)[i]]]
      /\ Len(peaks) = c
      /\ program_input.mmr_last_root_poseidon = M!RootOf(M!MmrSize(k), peaks)
    <2>1. /\ M!PeakHashes(hashes) = [i \in 1 .. c |-> M!TreeHash(hashes)[M!PeakSequence(k)[i]]]
          /\ Len(M!PeakHashes(hashes)) = c
          /\ M!MmrRoot(hashes) = M!RootOf(M!MmrSize(k), M!PeakHashes(hashes))
        BY <1>2, <1>4, M!RootOfLeaves, Instance
    <2>2. peaks = M!PeakHashes(hashes) /\ program_input.mmr_last_root_poseidon = M!MmrRoot(hashes)
        BY <1>1 DEF IsGood, hashes
    <2> HIDE DEF c, peaks
    <2> QED
        BY <2>1, <2>2
<1>9. known = peaks
    <2> HIDE DEF c, positions, peaks
    <2>1. SubSeq(peaks, 1, c) = [i \in 1 .. c - 1 + 1 |-> peaks[1 + i - 1]]
        BY <1>7
    <2>2. c - 1 + 1 = c /\ \A i \in 1 .. c : 1 + i - 1 = i
        BY <1>7
    <2>3. peaks = [i \in 1 .. c |-> peaks[i]]
        BY <1>8
    <2> QED
        BY <1>7, <2>1, <2>2, <2>3
<1>10. PreviousPeaksMatch(positions)
    <2>1. Len(positions) <= Len(peaks)
        <3> HIDE DEF c, positions, peaks
        <3> QED
            BY <1>7, <1>8
    <2>2. program_input.mmr_last_root_poseidon = RootOf(mmr_offset, known)
        BY <1>3, <1>8, <1>9, SameRoot
    <2> QED
        BY <2>1, <2>2 DEF PreviousPeaksMatch
<1> QED
    BY <1>5, <1>6, <1>10

(* The headers of a good input are anchored, linked and end at the lower   *)
(* number.                                                                 *)
LEMMA GoodHeaders ==
    ASSUME program_input \in ProgramInputs, NEW leaves, IsGood(leaves)
    PROVE  /\ LastIndex \in Nat /\ NumberMatches
           /\ \A i \in 0 .. LastIndex : Linked(i)
<1> DEFINE n == LastIndex
           run == JobOn(leaves).headers
           pre == program_input.preimages_array
<1>1. LastIndex \in Int
    BY LastIndexType
<1>2. /\ Len(run) = n + 1 /\ Len(run) > 0
      /\ run[1] = program_input.block_n_plus_one_parent_hash[1]
      /\ \A i \in 1 .. (Len(run) - 1) : run[i + 1] = Parent[run[i]]
      /\ Number[run[Len(run)]] = program_input.to_block_number_low
    <2>1. /\ JobOn(leaves).fromBlockNumberHigh - JobOn(leaves).toBlockNumberLow = n
          /\ JobOn(leaves).toBlockNumberLow = program_input.to_block_number_low
          /\ JobOn(leaves).blockNPlusOneParentHash =
                 program_input.block_n_plus_one_parent_hash[1]
        BY DEF JobOn, LastIndex
    <2> HIDE DEF n
    <2> QED
        BY <2>1 DEF IsGood, Job!ProgramAccepts, Job!Last
<1>3. n \in Nat
    <2> HIDE DEF run, n
    <2>1. n + 1 > 0 /\ n \in Int
        BY <1>1, <1>2 DEF n
    <2> QED
        BY <2>1
<1>4. IsPreimage(n)
    <2> SUFFICES ASSUME ~IsPreimage(n)
                 PROVE  FALSE
        OBVIOUS
    <2>1. run = <<>>
        BY DEF JobOn
    <2> QED
        BY <1>2, <2>1
<1>5. /\ Len(run) = n + 1
      /\ \A i \in 1 .. (n + 1) : run[i] = PreimageAt((n + 1) - i)
    BY <1>3, <1>4, HeadersOfJob
<1>6. ASSUME NEW i \in 0 .. n
      PROVE  IsPreimage(i)
    <2>1. pre \in Seq(Header) /\ Len(pre) \in Nat /\ DOMAIN pre = 1 .. Len(pre)
        BY InputAssumption, LenProperties
    <2> HIDE DEF n, pre
    <2>2. n + 1 \in 1 .. Len(pre)
        BY <1>4, <2>1 DEF IsPreimage, pre
    <2>3. i + 1 \in DOMAIN pre
        BY <1>3, <2>1, <2>2
    <2> QED
        BY <2>3 DEF IsPreimage, pre
<1>7. <<PreimageAt(n)>> = program_input.block_n_plus_one_parent_hash
    <2>1. run[1] = PreimageAt(n)
        <3>1. 1 \in 1 .. (n + 1) /\ (n + 1) - 1 = n
            BY <1>3
        <3> HIDE DEF run, n
        <3> QED
            BY <3>1, <1>5
    <2>2. PICK h : program_input.block_n_plus_one_parent_hash = <<h>>
        BY InputAssumption
    <2> HIDE DEF run, n
    <2>3. PreimageAt(n) = h
        <3>1. <<h>>[1] = h
            OBVIOUS
        <3>2. run[1] = <<h>>[1]
            BY <1>2, <2>2
        <3> QED
            BY <2>1, <3>1, <3>2
    <2> QED
        BY <2>2, <2>3
<1>8. ASSUME NEW i \in 0 .. n, i # n
      PROVE  PreimageAt(i) = Parent[PreimageAt(i + 1)]
    <2> DEFINE j == n - i
    <2>1. j \in 1 .. n /\ j \in 1 .. (n + 1) /\ j + 1 \in 1 .. (n + 1)
          /\ (n + 1) - j = i + 1 /\ (n + 1) - (j + 1) = i /\ (n + 1) - 1 = n
        BY <1>3, <1>8
    <2> HIDE DEF j, run, n
    <2>2. run[j] = PreimageAt(i + 1) /\ run[j + 1] = PreimageAt(i)
        BY <1>5, <2>1
    <2>3. run[j + 1] = Parent[run[j]]
        BY <1>2, <2>1
    <2> QED
        BY <2>2, <2>3
<1>9. ASSUME NEW i \in 0 .. n
      PROVE  Linked(i)
    <2>1. CASE i = n
        BY <1>6, <1>7, <2>1 DEF Linked, Expected, compute_starknet_blockhash
    <2>2. CASE i # n
        <3>1. PreimageAt(i) = Parent[PreimageAt(i + 1)]
            BY <1>8, <2>2
        <3> QED
            BY <1>6, <2>2, <3>1
            DEF Linked, Expected, compute_starknet_blockhash, extract_parent_hash
    <2> QED
        BY <2>1, <2>2
<1>10. NumberMatches
    <2>1. run[n + 1] = PreimageAt(0)
        <3>1. n + 1 \in 1 .. (n + 1) /\ (n + 1) - (n + 1) = 0
            BY <1>3
        <3> HIDE DEF run, n
        <3> QED
            BY <3>1, <1>5
    <2> HIDE DEF run, n
    <2>2. Number[PreimageAt(0)] = program_input.to_block_number_low
        BY <1>2, <2>1
    <2> QED
        BY <2>2 DEF NumberMatches, extract_block_number
<1> QED
    BY <1>3, <1>9, <1>10

(* An input that was rejected is not good.                                 *)
OnlyBadRejected == pc = "failed" => ~\E leaves : IsGood(leaves)

(* No step rejects a good input.                                           *)
LEMMA KeepsGood ==
    ASSUME IInv, OnlyBadRejected, [Next]_vars
    PROVE  OnlyBadRejected'
<1>1. UNCHANGED program_input
    BY InputStays
<1>2. program_input \in ProgramInputs
    BY DEF IInv
<1>3. \A leaves : IsGood(leaves)' <=> IsGood(leaves)
    BY <1>1 DEF IsGood, JobOn, IsPreimage, LastIndex
<1>4. CASE Reject
    <2> SUFFICES ASSUME NEW leaves, IsGood(leaves)
                 PROVE  FALSE
        BY <1>3 DEF OnlyBadRejected
    <2>1. PreviousSizeIsValid /\ \E positions \in compute_peaks_positions(mmr_offset) :
                                    PreviousPeaksMatch(positions)
        BY <1>2, GoodPeaks
    <2>2. LastIndex \in Nat /\ NumberMatches /\ \A i \in 0 .. LastIndex : Linked(i)
        BY <1>2, GoodHeaders
    <2>3. pc = "verify" => HeaderMatches
        <3> SUFFICES ASSUME pc = "verify"
                     PROVE  HeaderMatches
            OBVIOUS
        <3>1. index \in Int /\ index <= LastIndex /\ index \in Nat /\ expected_block_hash = Expected(index)
            BY <2>2 DEF IInv, TypeOK
        <3> HIDE DEF LastIndex
        <3>2. index \in 0 .. LastIndex
            BY <2>2, <3>1
        <3> QED
            BY <2>2, <3>1, <3>2 DEF Linked, HeaderMatches
    <2> QED
        BY <1>4, <2>1, <2>2, <2>3 DEF Reject
<1>5. CASE ~Reject
    <2>1. pc' = "failed" => pc = "failed"
        BY <1>5 DEF Next, vars, CheckPreviousPeaks, VerifyHeader, CheckBlockNumber, AppendLeaf,
                    MergeSubtrees, StopMerging, Finish
    <2> QED
        BY <1>3, <2>1 DEF OnlyBadRejected
<1> QED
    BY <1>4, <1>5

(* That is what RejectsOnlyBadInputs says.                                 *)
LEMMA RejectedIsBad == OnlyBadRejected => RejectsOnlyBadInputs
<1> SUFFICES ASSUME OnlyBadRejected, pc = "failed", NEW leaves \in Mmrs,
                    Job!ProgramAccepts(JobOn(leaves)),
                    program_input.mmr_last_len = Job!MmrSize(Len(leaves)),
                    program_input.mmr_last_root_poseidon = RootHash(leaves),
                    program_input.poseidon_mmr_last_peaks =
                        Job!PeakHashes([i \in DOMAIN leaves |-> <<leaves[i]>>])
             PROVE  FALSE
    BY DEF RejectsOnlyBadInputs
<1>1. IsGood(leaves)
    BY SameForest DEF IsGood, HashesOf
<1> QED
    BY <1>1 DEF OnlyBadRejected

-----------------------------------------------------------------------------
(* The theorems about what is built and output.                            *)

(* What is inductive, given IInv: the peaks that were checked are those of *)
(* the MMR that the input says, the headers verified and the nodes built   *)
(* from them are where the program reads them, and so is the output.       *)
NInv ==
    /\ PeaksAreKnown
    /\ HashesAreKept
    /\ NodesAreBuilt
    /\ OutputIsMade
    /\ OnlyBadRejected

(* A program starts so.                                                    *)
LEMMA InitBuild == Init => NInv
<1> SUFFICES ASSUME Init
             PROVE  NInv
    OBVIOUS
<1>1. pc = "peaks" /\ mmr_array_poseidon = <<>> /\ index = LastIndex /\ program_input \in ProgramInputs
    BY DEF Init
<1>2. KeptFrom(index + 1)
    <2>1. LastIndex \in Int
        BY <1>1, LastIndexType
    <2> HIDE DEF LastIndex
    <2>2. (LastIndex + 1) .. LastIndex = {}
        BY <2>1
    <2> QED
        BY <1>1, <2>2 DEF KeptFrom
<1> QED
    BY <1>1, <1>2 DEF NInv, PeaksAreKnown, HashesAreKept, NodesAreBuilt, OutputIsMade, OnlyBadRejected

(* And every step keeps it.                                                *)
LEMMA NextBuild == IInv /\ NInv /\ [Next]_vars => NInv'
BY KeepsPeaks, KeepsHashes, KeepsNodes, KeepsOutput, KeepsGood DEF NInv

(* In every state of the program, whatever the hints of the prover.        *)
THEOREM BuildHolds == Spec => []NInv
<1>1. IInv /\ NInv /\ [Next]_vars => NInv'
    BY NextBuild
<1> QED
    BY <1>1, InitBuild, InvariantHolds, PTL DEF Spec

(* The program rejects no input that belongs to an MMR and to headers that *)
(* ChunkJob accepts: an honest prover is never turned down, at any number  *)
(* of leaves and headers below the height bound.                           *)
THEOREM RejectsOnlyBadInputsHolds == Spec => []RejectsOnlyBadInputs
<1>1. NInv => RejectsOnlyBadInputs
    BY RejectedIsBad DEF NInv
<1> QED
    BY <1>1, BuildHolds, PTL

(* Nodes that are merged are built or old peaks, and so are the peaks of   *)
(* the new MMR.                                                            *)
LEMMA ReadsKnown == IInv /\ NInv => ReadsOnlyKnownNodes
<1> SUFFICES ASSUME IInv, NInv
             PROVE  ReadsOnlyKnownNodes
    OBVIOUS
<1>1. ASSUME pc = "merge", height + 1 \in compute_height[next_pos],
             NEW p \in {LeftChild(next_pos, height), next_pos - 1}, p <= mmr_offset
      PROVE  p \in DOMAIN previous_peaks_dict
    BY <1>1, NextParent DEF NInv
<1>2. ASSUME pc = "roots", NEW positions \in compute_peaks_positions(mmr_size),
             NEW p \in Range(positions), p <= mmr_offset
      PROVE  p \in DOMAIN previous_peaks_dict
    <2>1. PICK n \in Nat \ {0} :
              /\ n = Total(program_input) /\ n < M!P(MaxHeight + 1)
              /\ compute_peaks_positions(mmr_size) = {M!PeakPositions(n)}
        BY <1>2, NewPositions DEF NInv
    <2> DEFINE c == M!PeakCount(n)
               s == M!PeakSequence(n)
    <2>2. /\ s \in [1 .. c -> M!PeakTrees(n)]
          /\ M!PeakPositions(n) = [i \in 1 .. c |-> M!PositionOf(s[i])]
        BY <2>1, M!PeaksListed, Instance
    <2> HIDE DEF c, s
    <2>3. positions = [i \in 1 .. c |-> M!PositionOf(s[i])]
        BY <2>1, <2>2
    <2>4. PICK i \in 1 .. c : p = M!PositionOf(s[i])
        BY <2>3 DEF Range
    <2>5. s[i] \in M!PeakTrees(Total(program_input))
        BY <2>1, <2>2
    <2> QED
        BY <1>2, <2>4, <2>5, NewPeaks DEF NInv
<1> QED
    BY <1>1, <1>2 DEF ReadsOnlyKnownNodes

(* The program reads no node of the old MMR that is not one of its checked *)
(* peaks: a dictionary read of a missing key is a value the prover is free *)
(* to choose.                                                              *)
THEOREM ReadsOnlyKnownNodesHolds == Spec => []ReadsOnlyKnownNodes
<1> QED
    BY ReadsKnown, BuildHolds, InvariantHolds, PTL

(* The leaves of an MMR with the headers of a run appended. *)
LEMMA NewLeaves ==
    ASSUME IInv, PeaksAreKnown, pc = "done", NEW leaves, IsRoot(program_input, leaves)
    PROVE  LET all == leaves \o JobOn(leaves).headers
           IN  /\ Len(all) = Total(program_input)
               /\ [i \in DOMAIN all |-> <<all[i]>>] = AllHashes(program_input, leaves)
<1> DEFINE run == JobOn(leaves).headers
           all == leaves \o run
           k == Old(program_input)
           n == LastIndex
           total == Total(program_input)
<1>1. /\ program_input \in ProgramInputs /\ PeaksKnown(program_input, previous_peaks_dict)
      /\ k \in Nat \ {0} /\ n \in Nat /\ total = k + n + 1 /\ total \in Nat
    BY LeavesFit
<1>2. leaves \in Seq(Header \union {Seed}) /\ Len(leaves) = k
    BY <1>1, ForestAssumption DEF IsRoot, PeaksKnown
<1>3. IsPreimage(n)
    <2>1. n \in 0 .. n /\ \A i \in 0 .. n : Linked(i)
        BY <1>1 DEF IInv, TypeOK
    <2> QED
        BY <2>1 DEF Linked
<1>4. /\ run \in Seq(Header) /\ Len(run) = n + 1
      /\ \A i \in 1 .. (n + 1) : run[i] = program_input.preimages_array[((n + 1) - i) + 1]
    BY <1>1, <1>3, HeadersOfJob DEF PreimageAt
<1>5. /\ all \in Seq(Header \union {Seed}) /\ Len(all) = total
      /\ \A i \in 1 .. total : all[i] = IF i <= k THEN leaves[i] ELSE run[i - k]
    <2>1. run \in Seq(Header \union {Seed})
        BY <1>4
    <2> HIDE DEF run, n
    <2>2. /\ all \in Seq(Header \union {Seed}) /\ Len(all) = Len(leaves) + Len(run)
          /\ \A i \in 1 .. Len(leaves) + Len(run) :
                 all[i] = IF i <= Len(leaves) THEN leaves[i] ELSE run[i - Len(leaves)]
        BY <1>2, <2>1, ConcatProperties
    <2>3. Len(leaves) + Len(run) = total
        BY <1>1, <1>2, <1>4
    <2> QED
        BY <1>2, <2>2, <2>3
<1> HIDE DEF all
<1>6. DOMAIN all = 1 .. total
    BY <1>5, LenProperties
<1>7. \A i \in 1 .. total :
          all[i] = IF i <= k THEN leaves[i] ELSE program_input.preimages_array[(total + 1) - i]
    <2> SUFFICES ASSUME NEW i \in 1 .. total
                 PROVE  all[i] = IF i <= k THEN leaves[i]
                                 ELSE program_input.preimages_array[(total + 1) - i]
        OBVIOUS
    <2>1. CASE i <= k
        BY <1>5, <2>1
    <2>2. CASE ~(i <= k)
        <3> DEFINE j == i - k
        <3> HIDE DEF n, k, total, run
        <3>1. j \in 1 .. (n + 1) /\ ((n + 1) - j) + 1 = (total + 1) - i
            BY <1>1, <2>2
        <3>2. all[i] = run[j]
            BY <1>5, <2>2
        <3> HIDE DEF j
        <3>3. run[j] = program_input.preimages_array[((n + 1) - j) + 1]
            BY <1>4, <3>1
        <3>4. all[i] = program_input.preimages_array[(total + 1) - i]
            BY <3>1, <3>2, <3>3
        <3> QED
            BY <2>2, <3>4
    <2> QED
        BY <2>1, <2>2
<1>8. [i \in DOMAIN all |-> <<all[i]>>] = AllHashes(program_input, leaves)
    BY <1>6, <1>7 DEF AllHashes
<1> QED
    BY <1>5, <1>8 DEF all

(* The output of a program is what ChunkJob promises.                      *)
LEMMA OutputRight == IInv /\ NInv => OutputIsPromised
<1> SUFFICES ASSUME IInv, NInv, pc = "done", NEW leaves \in Mmrs,
                    program_input.mmr_last_root_poseidon = RootHash(leaves)
             PROVE  output = Hashed(Job!OutputOf(JobOn(leaves)))
    BY DEF OutputIsPromised
<1> DEFINE run == JobOn(leaves).headers
           all == leaves \o run
           n == LastIndex
           promised == Job!OutputOf(JobOn(leaves))
<1>1. IsRoot(program_input, leaves)
    BY DEF IsRoot
<1>2. /\ program_input \in ProgramInputs /\ PeaksKnown(program_input, previous_peaks_dict)
      /\ n \in Nat /\ M!MmrSize(Old(program_input)) = mmr_offset
    BY LeavesFit DEF NInv
<1>3. \A i \in 0 .. n : Linked(i)
    BY DEF IInv
<1>4. /\ IsPreimage(n)
      /\ <<PreimageAt(n)>> = program_input.block_n_plus_one_parent_hash
    <2>1. n \in 0 .. n
        BY <1>2
    <2> QED
        BY <1>3, <2>1 DEF Linked, Expected, compute_starknet_blockhash
<1>5. /\ Len(run) = n + 1
      /\ \A i \in 1 .. (n + 1) : run[i] = PreimageAt((n + 1) - i)
    BY <1>2, <1>4, HeadersOfJob
<1>6. run[Len(run)] = PreimageAt(0)
    <2>1. n + 1 \in 1 .. (n + 1) /\ (n + 1) - (n + 1) = 0
        BY <1>2
    <2> HIDE DEF run, n
    <2> QED
        BY <1>5, <2>1
<1>7. /\ Len(all) = Total(program_input)
      /\ [i \in DOMAIN all |-> <<all[i]>>] = AllHashes(program_input, leaves)
    BY <1>1, NewLeaves DEF NInv
<1>8. PICK root :
          /\ IsNewRoot(root)
          /\ output =
                [ from_block_number_high |-> program_input.from_block_number_high,
                  to_block_number_low    |-> program_input.to_block_number_low,
                  block_n_plus_one_parent_hash |->
                      program_input.block_n_plus_one_parent_hash,
                  block_n_minus_r_plus_one_parent_hash |->
                      extract_parent_hash(PreimageAt(0)),
                  mmr_last_root_poseidon |-> program_input.mmr_last_root_poseidon,
                  mmr_last_len           |-> mmr_offset,
                  new_mmr_root_poseidon  |-> root,
                  new_mmr_len            |-> M!MmrSize(Total(program_input)) ]
    BY DEF NInv, OutputIsMade
<1>9. root = RootHash(all)
    <2>1. root = M!MmrRoot(AllHashes(program_input, leaves))
        BY <1>1, <1>8 DEF IsNewRoot
    <2> HIDE DEF all
    <2>2. RootHash(all) = Job!MmrRoot(AllHashes(program_input, leaves))
        BY <1>7 DEF RootHash
    <2> QED
        BY <2>1, <2>2, SameForest
<1>10. Job!MmrSize(Len(leaves)) = mmr_offset /\ Job!MmrSize(Len(all)) = M!MmrSize(Total(program_input))
    <2>1. Len(leaves) = Old(program_input)
        BY <1>1, <1>2 DEF PeaksKnown
    <2> HIDE DEF all
    <2> QED
        BY <1>2, <1>7, <2>1, SameForest
<1>11. <<program_input.block_n_plus_one_parent_hash[1]>> = program_input.block_n_plus_one_parent_hash
    <2>1. PICK h : program_input.block_n_plus_one_parent_hash = <<h>>
        BY <1>4
    <2>2. <<h>>[1] = h
        OBVIOUS
    <2> QED
        BY <2>1, <2>2
<1>12. /\ promised.fromBlockNumberHigh = program_input.from_block_number_high
       /\ promised.toBlockNumberLow = program_input.to_block_number_low
       /\ promised.blockNPlusOneParentHash = program_input.block_n_plus_one_parent_hash[1]
       /\ promised.blockNMinusRPlusOneParentHash = Parent[run[Len(run)]]
       /\ promised.mmrPreviousRootPoseidon = leaves
       /\ promised.mmrPreviousSize = Job!MmrSize(Len(leaves))
       /\ promised.mmrNewRootPoseidon = all
       /\ promised.mmrNewSize = Job!MmrSize(Len(all))
    BY DEF Job!OutputOf, JobOn, Job!Last
<1>13. <<promised.blockNMinusRPlusOneParentHash>> = extract_parent_hash(PreimageAt(0))
    BY <1>6, <1>12 DEF extract_parent_hash
<1> HIDE DEF promised, all, run
<1>14. Hashed(promised) =
          [ from_block_number_high |-> program_input.from_block_number_high,
            to_block_number_low    |-> program_input.to_block_number_low,
            block_n_plus_one_parent_hash |-> program_input.block_n_plus_one_parent_hash,
            block_n_minus_r_plus_one_parent_hash |-> extract_parent_hash(PreimageAt(0)),
            mmr_last_root_poseidon |-> program_input.mmr_last_root_poseidon,
            mmr_last_len           |-> mmr_offset,
            new_mmr_root_poseidon  |-> root,
            new_mmr_len            |-> M!MmrSize(Total(program_input)) ]
    BY <1>9, <1>10, <1>11, <1>12, <1>13, Zenon DEF Hashed
<1> QED
    BY <1>8, <1>14, Zenon DEF promised

(* A program that ends outputs the root and the size of the MMR whose root *)
(* it was given with its headers appended, for every MMR, every run of     *)
(* headers and every hint of the prover.                                   *)
THEOREM OutputIsPromisedHolds == Spec => []OutputIsPromised
<1> QED
    BY OutputRight, BuildHolds, InvariantHolds, PTL

-----------------------------------------------------------------------------
(* The tools build the same nodes.                                         *)

(* The tools of M list peaks and extend an MMR as those of the model.      *)
LEMMA SameTools ==
    /\ \A n : Py!py_get_peaks(n) = M!Py!py_get_peaks(n)
    /\ \A hashes, positions, peaks, last_pos :
           Py!extend_mmr_poseidon(hashes, positions, peaks, last_pos) =
               M!Py!extend_mmr_poseidon(hashes, positions, peaks, last_pos)
<1>1. ASSUME NEW n PROVE Py!bit_length(n) = M!Py!bit_length(n)
    BY DEF Py!bit_length, M!Py!bit_length
<1>2. ASSUME NEW n PROVE Py!tree_pos_height(n) = M!Py!tree_pos_height(n)
    BY <1>1 DEF Py!tree_pos_height, M!Py!tree_pos_height
<1>3. ASSUME NEW n PROVE Py!left_peak_height_pos(n) = M!Py!left_peak_height_pos(n)
    BY DEF Py!left_peak_height_pos, M!Py!left_peak_height_pos
<1>4. ASSUME NEW h, NEW p, NEW n
      PROVE  Py!get_right_peak(h, p, n) = M!Py!get_right_peak(h, p, n)
    BY DEF Py!get_right_peak, M!Py!get_right_peak, Py!sibling_offset, M!Py!sibling_offset
<1>5. ASSUME NEW n PROVE Py!py_get_peaks(n) = M!Py!py_get_peaks(n)
    BY <1>3, <1>4 DEF Py!py_get_peaks, M!Py!py_get_peaks
<1>6. ASSUME NEW n PROVE Py!merges_after(n) = M!Py!merges_after(n)
    BY <1>2 DEF Py!merges_after, M!Py!merges_after
<1>7. ASSUME NEW mmr, NEW elem PROVE Py!add(mmr, elem) = M!Py!add(mmr, elem)
    BY <1>6 DEF Py!add, M!Py!add, Py!WithHash, M!Py!WithHash, Py!NewMmr, M!Py!NewMmr,
                Py!hash_pair, M!Py!hash_pair, Py!sibling_offset, M!Py!sibling_offset
<1>8. ASSUME NEW mmr PROVE Py!mmr_get_peaks(mmr) = M!Py!mmr_get_peaks(mmr)
    BY <1>5 DEF Py!mmr_get_peaks, M!Py!mmr_get_peaks
<1>9. ASSUME NEW peaks PROVE Py!py_bag_peaks(peaks) = M!Py!py_bag_peaks(peaks)
    BY DEF Py!py_bag_peaks, M!Py!py_bag_peaks, Py!hash_pair, M!Py!hash_pair, Py!FoldRight,
           M!Py!FoldRight, Py!MapThenFoldSet, M!Py!MapThenFoldSet, Py!Front, M!Py!Front,
           Py!Last, M!Py!Last, Py!Min, M!Py!Min
<1>10. ASSUME NEW mmr PROVE Py!get_root(mmr) = M!Py!get_root(mmr)
    BY <1>8, <1>9 DEF Py!get_root, M!Py!get_root, Py!hash_pair, M!Py!hash_pair
<1>11. ASSUME NEW hashes, NEW positions, NEW peaks, NEW last_pos
       PROVE  Py!extend_mmr_poseidon(hashes, positions, peaks, last_pos) =
                  M!Py!extend_mmr_poseidon(hashes, positions, peaks, last_pos)
    BY <1>7, <1>8, <1>10 DEF Py!extend_mmr_poseidon, M!Py!extend_mmr_poseidon, Py!FoldRight,
           M!Py!FoldRight, Py!MapThenFoldSet, M!Py!MapThenFoldSet, Py!Min, M!Py!Min,
           Py!ToSet, M!Py!ToSet, Py!NewMmr, M!Py!NewMmr
<1> QED
    BY <1>5, <1>11

(* The hashes of the old peaks and of the new nodes, by position counted   *)
(* from 0 as in the tools.                                                 *)
Nodes(offset, dict, array) ==
    [q \in {p - 1 : p \in DOMAIN dict} \union {offset + i - 1 : i \in DOMAIN array} |->
        IF (q + 1) - offset \in DOMAIN array THEN array[(q + 1) - offset] ELSE dict[q + 1]]

(* A node that is appended is the one at the next position.                *)
LEMMA NodesGrow ==
    ASSUME NEW offset \in Int, NEW dict, DOMAIN dict \in SUBSET Int,
           NEW c \in Nat, NEW array, M!HasLength(array, c), NEW v
    PROVE  Nodes(offset, dict, Append(array, v)) = 
               M!Py!WithHash(Nodes(offset, dict, array), offset + c, v)
<1> DEFINE b == Append(array, v)
           old == {p - 1 : p \in DOMAIN dict}
           f == Nodes(offset, dict, array)
           g == Nodes(offset, dict, b)
<1>1. /\ DOMAIN array = 1 .. c /\ DOMAIN b = 1 .. c + 1
      /\ (\A k \in 1 .. c : b[k] = array[k]) /\ b[c + 1] = v
    BY Appends
<1> HIDE DEF b
<1>2. DOMAIN f = old \union {offset + i - 1 : i \in 1 .. c}
    BY <1>1 DEF Nodes
<1>3. DOMAIN g = old \union {offset + i - 1 : i \in 1 .. c + 1}
    BY <1>1 DEF Nodes
<1>4. DOMAIN g = {offset + c} \union DOMAIN f
    <2>1. {offset + i - 1 : i \in 1 .. c + 1} = {offset + c} \union {offset + i - 1 : i \in 1 .. c}
        <3>1. \A i \in 1 .. c + 1 : i \in 1 .. c \/ i = c + 1
            OBVIOUS
        <3>2. c + 1 \in 1 .. c + 1 /\ offset + (c + 1) - 1 = offset + c
              /\ \A i \in 1 .. c : i \in 1 .. c + 1
            OBVIOUS
        <3> QED
            BY <3>1, <3>2
    <2> QED
        BY <1>2, <1>3, <2>1
<1>5. ASSUME NEW q \in DOMAIN g
      PROVE  g[q] = IF q = offset + c THEN v ELSE f[q]
    <2>1. q \in Int
        <3>1. old \in SUBSET Int
            OBVIOUS
        <3> QED
            BY <1>3, <3>1
    <2> DEFINE i == (q + 1) - offset
    <2>2. g[q] = IF i \in 1 .. c + 1 THEN b[i] ELSE dict[q + 1]
        BY <1>1, <1>5 DEF Nodes
    <2>3. CASE q = offset + c
        <3>1. i = c + 1 /\ i \in 1 .. c + 1
            BY <2>1, <2>3
        <3> QED
            BY <1>1, <2>2, <2>3, <3>1
    <2>4. CASE q # offset + c
        <3>1. q \in DOMAIN f
            BY <1>4, <1>5, <2>4
        <3>2. f[q] = IF i \in 1 .. c THEN array[i] ELSE dict[q + 1]
            BY <1>1, <3>1 DEF Nodes
        <3>3. i \in 1 .. c <=> i \in 1 .. c + 1
            BY <2>1, <2>4
        <3> HIDE DEF i
        <3> QED
            BY <1>1, <2>2, <2>4, <3>2, <3>3
    <2> QED
        BY <2>3, <2>4
<1>6. g = [q \in DOMAIN g |-> g[q]]
    BY DEF Nodes
<1> HIDE DEF f, g
<1>7. g = [q \in {offset + c} \union DOMAIN f |-> IF q = offset + c THEN v ELSE f[q]]
    BY <1>4, <1>5, <1>6
<1> QED
    BY <1>7 DEF b, f, g, M!Py!WithHash

(* What the program can only read at a position is there.                  *)
LEMMA ReadsOfNodes ==
    ASSUME mmr_offset \in Int, NEW c \in Nat, M!HasLength(mmr_array_poseidon, c),
           NEW p \in Int, NEW v, get_full_mmr_peak_values(p) = {v},
           p <= mmr_offset => p \in DOMAIN previous_peaks_dict
    PROVE  /\ p - 1 \in DOMAIN Nodes(mmr_offset, previous_peaks_dict, mmr_array_poseidon)
           /\ Nodes(mmr_offset, previous_peaks_dict, mmr_array_poseidon)[p - 1] = v
<1> DEFINE offset == mmr_offset
           dict == previous_peaks_dict
           array == mmr_array_poseidon
           i == p - offset
           f == Nodes(offset, dict, array)
<1>1. DOMAIN array = 1 .. c
    BY Appends
<1>2. get_full_mmr_peak_values(p) =
          (IF i - 1 >= 0 /\ i \in DOMAIN array THEN {array[i]} ELSE {})
              \union
          (IF offset - p >= 0 THEN {IF p \in DOMAIN dict THEN dict[p] ELSE DefaultValue} ELSE {})
    BY DEF get_full_mmr_peak_values, RangeCheck
<1> HIDE DEF offset, dict, array
<1>3. offset \in Int /\ ((p - 1) + 1) - offset = i /\ (p - 1) + 1 = p
    BY DEF offset
<1>4. CASE p <= offset
    <2>1. p \in DOMAIN dict
        BY <1>4 DEF offset, dict
    <2>2. ~(i - 1 >= 0) /\ offset - p >= 0 /\ i \notin 1 .. c
        BY <1>3, <1>4
    <2>3. {v} = {dict[p]}
        BY <1>2, <2>1, <2>2
    <2>4. p - 1 \in DOMAIN f
        BY <2>1 DEF Nodes
    <2>5. f[p - 1] = dict[p]
        BY <1>1, <1>3, <2>2, <2>4 DEF Nodes
    <2> QED
        BY <2>3, <2>4, <2>5 DEF offset, dict, array
<1>5. CASE ~(p <= offset)
    <2>1. i - 1 >= 0 /\ ~(offset - p >= 0)
        BY <1>3, <1>5
    <2>2. i \in DOMAIN array /\ {v} = {array[i]}
        BY <1>2, <2>1
    <2>3. p - 1 = offset + i - 1
        BY <1>3
    <2>4. p - 1 \in DOMAIN f
        BY <2>2, <2>3 DEF Nodes
    <2>5. f[p - 1] = array[i]
        BY <1>3, <2>2, <2>4 DEF Nodes
    <2> QED
        BY <2>2, <2>4, <2>5 DEF offset, dict, array
<1> QED
    BY <1>4, <1>5

(* The MMR of the tools that start from the old peaks, when the headers    *)
(* from index i on have been added.                                        *)
OldMmr(input, dict) ==
    M!Py!NewMmr(Nodes(input.mmr_last_len, dict, <<>>), input.mmr_last_len - 1)

(* The hashes that the tools are given: those of the headers of the run.   *)
RunHashes(input) ==
    [i \in 1 .. Run(input) |-> compute_starknet_blockhash(input.preimages_array[i])]

(* The MMR after those from index i on, counted from 0 as in the program.  *)
After(input, dict, i) ==
    M!Folded(Run(input), RunHashes(input), OldMmr(input, dict))[i + 1 .. Run(input)]

(* Each header is added to the MMR of the headers after it.                *)
LEMMA AfterEquation ==
    ASSUME NEW input, Run(input) \in Nat, NEW dict
    PROVE  /\ After(input, dict, Run(input)) = OldMmr(input, dict)
           /\ \A i \in 0 .. Run(input) - 1 :
                  After(input, dict, i) =
                      M!Py!add(After(input, dict, i + 1), <<input.preimages_array[i + 1]>>)
<1> DEFINE n == Run(input)
           hashes == RunHashes(input)
           base == OldMmr(input, dict)
           f == M!Folded(n, hashes, base)
<1>1. \A i \in 1 .. n : hashes[i] = <<input.preimages_array[i]>>
    BY DEF RunHashes, compute_starknet_blockhash
<1>2. \A i : After(input, dict, i) = f[i + 1 .. n]
    BY DEF After
<1>3. n \in Nat
    OBVIOUS
<1> HIDE DEF n, hashes, base
<1>4. f[n + 1 .. n] = base /\ \A i \in 1 .. n : f[i .. n] = M!Py!add(f[i + 1 .. n], hashes[i])
    BY <1>3, M!FoldEquation, Instance
<1> HIDE DEF f
<1>5. \A i \in 0 .. n - 1 : i + 1 \in 1 .. n
    BY <1>3
<1> QED
    BY <1>1, <1>2, <1>4, <1>5 DEF n, base

(* The nodes that the program knows: the old peaks and its new nodes.      *)
Known == Nodes(mmr_offset, previous_peaks_dict, mmr_array_poseidon)

(* The MMR of the tools knows the same: between headers, while one is     *)
(* added after as many merges, and at the end, which outputs its root.     *)
ToolsFollow ==
    /\ pc = "append" =>
           After(program_input, previous_peaks_dict, index + 1) = M!Py!NewMmr(Known, next_pos - 2)
    /\ pc = "merge" =>
           \E mmr, f :
               /\ mmr = After(program_input, previous_peaks_dict, index + 1)
               /\ mmr.last_pos + 1 \in Int /\ (mmr.last_pos + 1) + height = next_pos - 2
               /\ M!Raises(mmr.last_pos + 1, height)
               /\ M!Adds(f, mmr, <<PreimageAt(index)>>, height) /\ f[height] = Known
    /\ pc \in {"roots", "done"} =>
           After(program_input, previous_peaks_dict, 0) = M!Py!NewMmr(Known, next_pos - 2)
    /\ pc = "done" =>
           /\ output.new_mmr_root_poseidon =
                  M!Py!get_root(After(program_input, previous_peaks_dict, 0))
           /\ output.new_mmr_len = mmr_size

(* The position of a peak is a number.                                     *)
LEMMA PeakPositionType ==
    ASSUME NEW k \in Nat \ {0}, k < M!P(MaxHeight + 1), NEW t \in M!PeakTrees(k)
    PROVE  M!PositionOf(t) \in Int
<1>1. /\ t = <<t[1], t[2]>> /\ t[1] \in 0 .. MaxHeight /\ t[2] \in Nat \ {0}
      /\ t[2] * M!P(t[1]) <= k
    BY M!PeakTypes, Instance
<1>2. PICK h \in 0 .. MaxHeight, i \in Nat \ {0} : t = <<h, i>> /\ i * M!P(h) <= k
    BY <1>1
<1>3. M!At(h, i) \in Nat \ {0}
    BY <1>2, M!AtBelow, Instance
<1> QED
    BY <1>2, <1>3, M!PositionIsAt, Instance

(* The positions of the old peaks are numbers.                             *)
LEMMA DictPositions ==
    ASSUME NEW input \in ProgramInputs, NEW dict, PeaksKnown(input, dict)
    PROVE  DOMAIN dict \in SUBSET Int
<1>1. PICK k \in Nat \ {0} : k = Old(input) /\ M!MmrSize(k) = input.mmr_last_len
                             /\ DOMAIN dict = {M!PositionOf(t) : t \in M!PeakTrees(k)}
    BY DEF PeaksKnown
<1>2. k < M!P(MaxHeight + 1)
    <2>1. input.mmr_last_len < M!P(MaxHeight + 1) /\ M!P(MaxHeight + 1) \in Nat
          /\ input.mmr_last_len \in Int
        BY InputFits
    <2>2. k <= input.mmr_last_len
        BY <1>1, M!LeavesAreNodes, Instance
    <2> QED
        BY <2>1, <2>2
<1> QED
    BY <1>1, <1>2, PeakPositionType

(* The program and the tools find the same height for the node that comes  *)
(* next.                                                                   *)
LEMMA NextHeight ==
    ASSUME IInv, PeaksAreKnown, NodesAreBuilt, pc = "merge"
    PROVE  /\ next_pos \in Nat \ {0} /\ height \in 0 .. MaxHeight
           /\ M!Py!tree_pos_height(next_pos - 1) \in Int
           /\ compute_height[next_pos] = {M!Py!tree_pos_height(next_pos - 1)}
<1>1. PICK n \in Nat \ {0} : n = CurrentLeaf /\ n < M!P(MaxHeight + 1) /\ n - 1 \in Nat
    BY LeavesFit
<1>2. PICK h \in 0 .. MaxHeight, i \in Nat \ {0} :
          h = height /\ n = i * M!P(h) /\ next_pos = M!MmrSize(n - 1) + h + 2
    BY <1>1 DEF NodesAreBuilt
<1>3. M!At(h, i) = M!MmrSize(n - 1) + h + 1
    BY <1>2 DEF M!At
<1>4. i * M!P(h) <= n
    BY <1>1, <1>2
<1>5. M!At(h, i) \in Nat \ {0} /\ M!At(h, i) <= M!MmrSize(n)
    BY <1>1, <1>4, M!AtBelow, Instance
<1>6. M!MmrSize(n) + 1 < M!P(MaxBits) /\ M!MmrSize(n) \in Nat /\ M!P(MaxBits) \in Nat
    <2>1. MaxBits \in 0 .. MaxBits
        BY M!PowTypes, Instance
    <2> QED
        BY <1>1, <2>1, M!NextFits, M!ForestFinite, M!PowTypes, Instance
<1>7. next_pos \in Nat \ {0} /\ next_pos < M!P(MaxBits)
    <2> DEFINE a == M!At(h, i)
               s == M!MmrSize(n)
               p == M!P(MaxBits)
               b == M!MmrSize(n - 1)
    <2>1. /\ a \in Nat \ {0} /\ a <= s /\ s + 1 < p /\ s \in Nat /\ p \in Nat
          /\ a = b + h + 1 /\ b \in Nat /\ next_pos = b + h + 2
        BY <1>1, <1>2, <1>3, <1>5, <1>6, M!ForestFinite, Instance
    <2> HIDE DEF a, s, p, b
    <2>2. next_pos \in Nat \ {0} /\ next_pos < p
        BY <2>1
    <2> QED
        BY <2>2 DEF p
<1>8. PICK q \in Nat \ {0} : q = next_pos /\ q < M!P(MaxBits)
    BY <1>7
<1>9. {M!Py!tree_pos_height(q - 1)} = M!compute_height[q]
    BY <1>8, M!PyHeightAgrees, Instance
<1>10. M!compute_height[q] \in SUBSET (0 .. MaxBits - 1)
    BY M!HeightBounds, Instance
<1>11. compute_height[q] = {M!Py!tree_pos_height(q - 1)} /\ M!Py!tree_pos_height(q - 1) \in Int
    BY <1>9, <1>10, SameTools, SameHeight
<1> QED
    BY <1>2, <1>8, <1>11

(* Both start from the checked peaks.                                      *)
LEMMA StartsTools ==
    ASSUME IInv, PeaksAreKnown, NodesAreBuilt, CheckBlockNumber
    PROVE  ToolsFollow'
<1>1. /\ pc = "number" /\ pc' = "append" /\ index' = LastIndex
      /\ UNCHANGED <<program_input, mmr_array_poseidon, previous_peaks_dict>>
      /\ mmr_array_poseidon = <<>>
    BY DEF CheckBlockNumber, NodesAreBuilt
<1>2. mmr_offset \in Int /\ LastIndex \in Nat
    BY <1>1, LeavesFit
<1>3. Run(program_input) = LastIndex + 1 /\ Run(program_input) \in Nat
    <2>1. Run(program_input) = LastIndex + 1
        BY DEF Run, LastIndex
    <2> HIDE DEF LastIndex
    <2> QED
        BY <1>2, <2>1
<1>4. After(program_input, previous_peaks_dict, LastIndex + 1) = OldMmr(program_input, previous_peaks_dict)
    BY <1>3, AfterEquation
<1>5. next_pos' - 2 = mmr_offset - 1
    <2>1. next_pos' = Len(mmr_array_poseidon) + mmr_offset + 1
        BY <1>1 DEF next_pos, mmr_offset
    <2>2. Len(mmr_array_poseidon) = 0
        BY <1>1
    <2> HIDE DEF mmr_offset
    <2> QED
        BY <1>2, <2>1, <2>2
<1>6. Known' = Nodes(mmr_offset, previous_peaks_dict, <<>>)
    BY <1>1 DEF Known, mmr_offset
<1>7. After(program_input', previous_peaks_dict', index' + 1) = M!Py!NewMmr(Known', next_pos' - 2)
    BY <1>1, <1>4, <1>5, <1>6 DEF OldMmr, mmr_offset
<1> QED
    BY <1>1, <1>7 DEF ToolsFollow

(* A header is added as a leaf.                                            *)
LEMMA AddsHeader ==
    ASSUME IInv, PeaksAreKnown, HashesAreKept, NodesAreBuilt, ToolsFollow, AppendLeaf
    PROVE  ToolsFollow'
<1> DEFINE hash == poseidon_hash_array[index]
           array == mmr_array_poseidon
           mmr == After(program_input, previous_peaks_dict, index + 1)
<1>1. /\ pc = "append" /\ pc' = "merge" /\ height' = 0
      /\ mmr_array_poseidon' = Append(array, hash)
      /\ UNCHANGED <<program_input, index, previous_peaks_dict>>
      /\ NodesUpTo(program_input, array, CurrentLeaf - 1, MaxHeight)
    BY DEF AppendLeaf, NodesAreBuilt
<1>2. /\ mmr_offset \in Int /\ index \in 0 .. LastIndex /\ program_input \in ProgramInputs
      /\ PeaksKnown(program_input, previous_peaks_dict)
    BY <1>1, LeavesFit
<1>3. hash = <<PreimageAt(index)>>
    BY <1>1, <1>2 DEF HashesAreKept, KeptFrom
<1>4. mmr.pos_hash = Known /\ mmr.last_pos = next_pos - 2
    BY <1>1, M!NewMmrIs, Instance DEF ToolsFollow
<1>5. PICK c \in Nat : /\ M!HasLength(array, c) /\ Len(array) = c
                       /\ next_pos = c + mmr_offset + 1
    BY <1>1, <1>2, ArrayLength
<1>6. mmr.last_pos + 1 = mmr_offset + c /\ mmr.last_pos + 1 \in Int
    <2> DEFINE o == mmr_offset
               l == mmr.last_pos
    <2>1. o \in Int /\ l = next_pos - 2 /\ next_pos = c + o + 1
        BY <1>2, <1>4, <1>5
    <2> HIDE DEF o, l
    <2>2. l + 1 = o + c /\ l + 1 \in Int
        BY <2>1
    <2> QED
        BY <2>2 DEF o, l
<1>7. Known' = M!Py!WithHash(Known, mmr_offset + c, hash)
    <2>1. Known' = Nodes(mmr_offset, previous_peaks_dict, Append(array, hash))
        BY <1>1 DEF Known, mmr_offset
    <2>2. DOMAIN previous_peaks_dict \in SUBSET Int
        BY <1>2, DictPositions
    <2> HIDE DEF array, hash
    <2>3. Nodes(mmr_offset, previous_peaks_dict, Append(array, hash)) =
              M!Py!WithHash(Nodes(mmr_offset, previous_peaks_dict, array), mmr_offset + c, hash)
        <3> DEFINE o == mmr_offset
                   d == previous_peaks_dict
        <3>1. o \in Int /\ DOMAIN d \in SUBSET Int /\ c \in Nat /\ M!HasLength(array, c)
            BY <1>2, <1>5, <2>2 DEF array
        <3> HIDE DEF o, d
        <3>2. Nodes(o, d, Append(array, hash)) = M!Py!WithHash(Nodes(o, d, array), o + c, hash)
            BY <3>1, NodesGrow
        <3> QED
            BY <3>2 DEF o, d
    <2> QED
        BY <2>1, <2>3 DEF Known, array
<1>8. next_pos' - 2 = (mmr.last_pos + 1) + 0
    <2>1. Len(Append(array, hash)) = c + 1
        BY <1>5, Appends
    <2>2. next_pos' = (c + 1) + mmr_offset + 1
        BY <1>1, <2>1 DEF next_pos, mmr_offset
    <2> DEFINE o == mmr_offset
               l == mmr.last_pos + 1
    <2>3. o \in Int /\ l = o + c /\ next_pos' = (c + 1) + o + 1
        BY <1>2, <1>6, <2>2
    <2> HIDE DEF o, l
    <2>4. next_pos' - 2 = l + 0
        BY <2>3
    <2> QED
        BY <2>4 DEF l
<1>9. M!Raises(mmr.last_pos + 1, 0)
    BY DEF M!Raises
<1>10. PICK f : /\ M!Adds(f, mmr, <<PreimageAt(index)>>, 0)
                /\ f[0] = M!Py!WithHash(mmr.pos_hash, mmr.last_pos + 1, <<PreimageAt(index)>>)
    BY M!AddsLeaf, Instance
<1>11. f[0] = Known'
    BY <1>3, <1>4, <1>6, <1>7, <1>10
<1>12. mmr = After(program_input', previous_peaks_dict', index' + 1) /\ PreimageAt(index)' = PreimageAt(index)
    BY <1>1 DEF PreimageAt
<1> HIDE DEF mmr
<1>13. \E m, g :
           /\ m = After(program_input', previous_peaks_dict', index' + 1)
           /\ m.last_pos + 1 \in Int /\ (m.last_pos + 1) + height' = next_pos' - 2
           /\ M!Raises(m.last_pos + 1, height')
           /\ M!Adds(g, m, <<PreimageAt(index)'>>, height') /\ g[height'] = Known'
    BY <1>1, <1>6, <1>8, <1>9, <1>10, <1>11, <1>12
<1> QED
    BY <1>1, <1>13 DEF ToolsFollow

(* Two nodes are merged that both know.                                    *)
LEMMA MergesBoth ==
    ASSUME IInv, PeaksAreKnown, NodesAreBuilt, ToolsFollow, MergeSubtrees
    PROVE  ToolsFollow'
<1> DEFINE array == mmr_array_poseidon
<1>1. /\ pc = "merge" /\ pc' = "merge" /\ height' = height + 1
      /\ height + 1 \in compute_height[next_pos]
      /\ UNCHANGED <<program_input, index, previous_peaks_dict>>
      /\ NodesUpTo(program_input, array, CurrentLeaf, height)
    BY DEF MergeSubtrees, NodesAreBuilt
<1>2. /\ mmr_offset \in Int /\ program_input \in ProgramInputs
      /\ PeaksKnown(program_input, previous_peaks_dict)
    BY <1>1, LeavesFit
<1>3. PICK h \in 0 .. MaxHeight : h = height
    BY <1>1, NextHeight
<1>4. PICK v, w :
          /\ h = height
          /\ get_full_mmr_peak_values(LeftChild(next_pos, h)) = {v}
          /\ get_full_mmr_peak_values(next_pos - 1) = {w}
          /\ \A p \in {LeftChild(next_pos, h), next_pos - 1} :
                 p <= mmr_offset => p \in DOMAIN previous_peaks_dict
    <2>1. \E g \in 0 .. MaxHeight, i \in Nat \ {0}, m \in Nat \ {0} :
              /\ g = height
              /\ \E v, w :
                    /\ get_full_mmr_peak_values(LeftChild(next_pos, g)) = {v}
                    /\ get_full_mmr_peak_values(next_pos - 1) = {w}
              /\ \A p \in {LeftChild(next_pos, g), next_pos - 1} :
                     p <= mmr_offset => p \in DOMAIN previous_peaks_dict
        BY <1>1, NextParent
    <2> QED
        BY <1>3, <2>1
<1>5. array' = Append(array, <<v, w>>)
    <2>1. PICK x \in {v}, y \in {w} : array' = Append(array, poseidon_hash(x, y))
        BY <1>4 DEF MergeSubtrees
    <2> QED
        BY <2>1 DEF poseidon_hash
<1>6. PICK mmr, f :
          /\ mmr = After(program_input, previous_peaks_dict, index + 1)
          /\ mmr.last_pos + 1 \in Int /\ (mmr.last_pos + 1) + h = next_pos - 2
          /\ M!Raises(mmr.last_pos + 1, h)
          /\ M!Adds(f, mmr, <<PreimageAt(index)>>, h) /\ f[h] = Known
    BY <1>1, <1>4 DEF ToolsFollow
<1>7. PICK c \in Nat : /\ M!HasLength(array, c) /\ Len(array) = c
                       /\ next_pos = c + mmr_offset + 1
    BY <1>1, <1>2, ArrayLength
<1>8. PICK leaf \in Int : leaf = mmr.last_pos + 1
    BY <1>6
<1>9. /\ leaf + (h + 1) = mmr_offset + c /\ leaf + (h + 1) = next_pos - 1
      /\ next_pos \in Int /\ h \in Nat /\ leaf + h = next_pos - 2
    <2> DEFINE o == mmr_offset
    <2>1. o \in Int /\ leaf + h = next_pos - 2 /\ next_pos = c + o + 1 /\ h \in Nat
        BY <1>2, <1>6, <1>7, <1>8
    <2> HIDE DEF o
    <2>2. leaf + (h + 1) = o + c /\ leaf + (h + 1) = next_pos - 1 /\ next_pos \in Int
        BY <2>1
    <2> QED
        BY <2>1, <2>2 DEF o
<1>10. M!P(h) \in Nat \ {0} /\ M!P(h + 1) = 2 * M!P(h) /\ 2^h = M!P(h)
    <2>1. h \in 0 .. MaxBits /\ h \in 0 .. MaxHeight + 1
        <3>1. MaxHeight \in Nat /\ MaxHeight + 2 <= MaxBits /\ MaxBits \in Int /\ h \in 0 .. MaxHeight
            BY Instance, Pow2Assumption DEF IsPow2Array
        <3> QED
            BY <3>1
    <2> QED
        BY <2>1, Powers, M!PowersAgree, Instance
<1>11. M!Left(leaf, h + 1) = LeftChild(next_pos, h) - 1 /\ M!Right(leaf, h + 1) = (next_pos - 1) - 1
       /\ LeftChild(next_pos, h) \in Int
    <2>1. (h + 1) - 1 = h
        BY <1>9
    <2>2. M!Left(leaf, h + 1) = leaf + (h + 1) - 2 * 2^h
        BY <2>1 DEF M!Left
    <2>3. M!Right(leaf, h + 1) = M!Left(leaf, h + 1) + (2 * 2^h - 1)
        BY <2>1 DEF M!Right, M!Py!sibling_offset
    <2>4. LeftChild(next_pos, h) = next_pos - M!P(h + 1)
        BY DEF LeftChild, M!P
    <2> DEFINE p == M!P(h)
               l == M!Left(leaf, h + 1)
    <2>5. /\ p \in Nat /\ l = leaf + (h + 1) - 2 * p /\ M!Right(leaf, h + 1) = l + (2 * p - 1)
          /\ LeftChild(next_pos, h) = next_pos - 2 * p
        BY <1>10, <2>2, <2>3, <2>4
    <2> HIDE DEF p, l
    <2>6. l = LeftChild(next_pos, h) - 1 /\ M!Right(leaf, h + 1) = (next_pos - 1) - 1
          /\ LeftChild(next_pos, h) \in Int
        BY <1>9, <2>5
    <2> QED
        BY <2>6 DEF l
<1>12. Known[M!Left(leaf, h + 1)] = v /\ Known[M!Right(leaf, h + 1)] = w
    <2>1. Known[LeftChild(next_pos, h) - 1] = v
        BY <1>2, <1>4, <1>7, <1>11, ReadsOfNodes DEF Known
    <2>2. Known[(next_pos - 1) - 1] = w
        <3>1. next_pos - 1 \in Int
            BY <1>9
        <3> QED
            BY <1>2, <1>4, <1>7, <3>1, ReadsOfNodes DEF Known
    <2> QED
        BY <1>11, <2>1, <2>2
<1>13. Known' = M!Py!WithHash(Known, mmr_offset + c, <<v, w>>)
    <2>1. Known' = Nodes(mmr_offset, previous_peaks_dict, Append(array, <<v, w>>))
        BY <1>1, <1>5 DEF Known, mmr_offset
    <2>2. DOMAIN previous_peaks_dict \in SUBSET Int
        BY <1>2, DictPositions
    <2> HIDE DEF array
    <2>3. Nodes(mmr_offset, previous_peaks_dict, Append(array, <<v, w>>)) =
              M!Py!WithHash(Nodes(mmr_offset, previous_peaks_dict, array), mmr_offset + c, <<v, w>>)
        <3> DEFINE o == mmr_offset
                   d == previous_peaks_dict
                   x == <<v, w>>
        <3>1. o \in Int /\ DOMAIN d \in SUBSET Int /\ c \in Nat /\ M!HasLength(array, c)
            BY <1>2, <1>7, <2>2 DEF array
        <3> HIDE DEF o, d, x
        <3>2. Nodes(o, d, Append(array, x)) = M!Py!WithHash(Nodes(o, d, array), o + c, x)
            BY <3>1, NodesGrow
        <3> QED
            BY <3>2 DEF o, d, x
    <2> QED
        BY <2>1, <2>3 DEF Known, array
<1>14. PICK g : /\ M!Adds(g, mmr, <<PreimageAt(index)>>, h + 1)
                /\ g[h + 1] = M!Parents(Known, leaf, h + 1)
    BY <1>6, <1>8, <1>9, M!AddsMore, Instance
<1>15. g[h + 1] = Known'
    BY <1>9, <1>12, <1>13, <1>14 DEF M!Parents, M!Py!hash_pair
<1>16. M!Raises(leaf, h + 1)
    <2>1. M!Py!tree_pos_height(next_pos - 1) = h + 1
        BY <1>1, <1>4, NextHeight
    <2>2. (h + 1) - 1 = h /\ leaf + h + 1 = next_pos - 1
        BY <1>9
    <2>3. ASSUME NEW j \in 0 .. (h + 1) - 1
          PROVE  /\ M!Py!tree_pos_height(leaf + j + 1) \in Int
                 /\ M!Py!tree_pos_height(leaf + j + 1) > j
        <3>1. CASE j = h
            BY <1>9, <2>1, <2>2, <3>1
        <3>2. CASE j # h
            <4>1. j \in 0 .. h - 1
                BY <1>9, <3>2
            <4> QED
                BY <1>6, <1>8, <4>1 DEF M!Raises
        <3> QED
            BY <3>1, <3>2
    <2> QED
        BY <2>3 DEF M!Raises
<1>17. leaf + (h + 1) = next_pos' - 2
    <2>1. Len(Append(array, <<v, w>>)) = c + 1
        BY <1>7, Appends
    <2>2. next_pos' = (c + 1) + mmr_offset + 1
        BY <1>1, <1>5, <2>1 DEF next_pos, mmr_offset
    <2> DEFINE o == mmr_offset
    <2>3. o \in Int /\ leaf + (h + 1) = o + c /\ next_pos' = (c + 1) + o + 1
        BY <1>2, <1>9, <2>2
    <2> HIDE DEF o
    <2> QED
        BY <2>3
<1>18. mmr = After(program_input', previous_peaks_dict', index' + 1) /\ PreimageAt(index)' = PreimageAt(index)
       /\ height' = h + 1
    BY <1>1, <1>4, <1>6 DEF PreimageAt
<1>19. \E m, k :
           /\ m = After(program_input', previous_peaks_dict', index' + 1)
           /\ m.last_pos + 1 \in Int /\ (m.last_pos + 1) + height' = next_pos' - 2
           /\ M!Raises(m.last_pos + 1, height')
           /\ M!Adds(k, m, <<PreimageAt(index)'>>, height') /\ k[height'] = Known'
    BY <1>8, <1>14, <1>15, <1>16, <1>17, <1>18
<1> QED
    BY <1>1, <1>19 DEF ToolsFollow

(* After a merge that was the last one, the next leaf follows.             *)
LEMMA StopIsDue ==
    ASSUME IInv, PeaksAreKnown, NodesAreBuilt, StopMerging
    PROVE  compute_height[next_pos] = {0}
<1>1. pc = "merge" /\ \E g \in compute_height[next_pos] : g # height + 1
    BY DEF StopMerging
<1>2. PICK k \in Nat \ {0} : k = CurrentLeaf /\ k + 1 < M!P(MaxHeight + 1)
    BY <1>1, LeavesFit
<1>3. PICK h \in 0 .. MaxHeight, i \in Nat \ {0} :
          h = height /\ k = i * M!P(h) /\ next_pos = M!MmrSize(k - 1) + h + 2
    BY <1>1, <1>2 DEF NodesAreBuilt
<1>4. k < M!P(MaxHeight + 1)
    <2>1. M!P(MaxHeight + 1) \in Nat
        BY <1>1, LeavesFit
    <2> QED
        BY <1>2, <2>1
<1>5. M!Odd(i)
    <2> SUFFICES ASSUME ~M!Odd(i)
                 PROVE  FALSE
        OBVIOUS
    <2>1. M!compute_height[M!MmrSize(k - 1) + h + 2] = {h + 1}
        BY <1>3, <1>4, M!ParentIsNext, Instance
    <2>2. compute_height[next_pos] = {height + 1}
        BY <1>3, <2>1, SameHeight
    <2> QED
        BY <1>1, <2>2
<1>6. M!compute_height[M!MmrSize(k - 1) + h + 2] = {0}
    BY <1>2, <1>3, <1>5, M!LeafIsNext, Instance
<1> QED
    BY <1>3, <1>6, SameHeight

(* Both stop merging after the same number of merges.                      *)
LEMMA StopsBoth ==
    ASSUME IInv, PeaksAreKnown, NodesAreBuilt, ToolsFollow, StopMerging
    PROVE  ToolsFollow'
<1>1. /\ pc = "merge"
      /\ UNCHANGED <<program_input, mmr_array_poseidon, previous_peaks_dict>>
    BY DEF StopMerging
<1>2. /\ next_pos \in Nat \ {0} /\ height \in 0 .. MaxHeight
      /\ M!Py!tree_pos_height(next_pos - 1) = 0
    BY <1>1, NextHeight, StopIsDue
<1>3. PICK h \in 0 .. MaxHeight : h = height
    BY <1>2
<1>4. PICK mmr, f :
          /\ h = height /\ mmr = After(program_input, previous_peaks_dict, index + 1)
          /\ mmr.last_pos + 1 \in Int /\ (mmr.last_pos + 1) + h = next_pos - 2
          /\ M!Raises(mmr.last_pos + 1, h)
          /\ M!Adds(f, mmr, <<PreimageAt(index)>>, h) /\ f[h] = Known
    BY <1>1, <1>3 DEF ToolsFollow
<1>5. PICK leaf \in Int : leaf = mmr.last_pos + 1 /\ leaf + h = next_pos - 2
    BY <1>4
<1>6. h \in Nat /\ h \in 0 .. MaxBits
    <2>1. MaxHeight \in Nat /\ MaxHeight + 2 <= MaxBits /\ MaxBits \in Int
        BY Instance, Pow2Assumption DEF IsPow2Array
    <2> QED
        BY <2>1
<1>7. M!Py!merges_after(leaf) = h
    <2>1. leaf + h + 1 = next_pos - 1
        BY <1>2, <1>5, <1>6
    <2>2. M!Py!tree_pos_height(leaf + h + 1) = 0
        BY <1>2, <2>1
    <2>3. M!Py!tree_pos_height(leaf + h + 1) \in Int /\ M!Py!tree_pos_height(leaf + h + 1) <= h
        BY <1>6, <2>2
    <2>4. M!Raises(leaf, h)
        BY <1>4, <1>5
    <2> QED
        BY <1>6, <2>3, <2>4, M!MergesAre, Instance
<1>8. M!Py!add(mmr, <<PreimageAt(index)>>) = M!Py!NewMmr(Known, next_pos - 2)
    <2> DEFINE elem == <<PreimageAt(index)>>
    <2>1. M!Adds(f, mmr, elem, h) /\ M!Py!merges_after(mmr.last_pos + 1) = h
        BY <1>4, <1>5, <1>7
    <2> HIDE DEF elem
    <2>2. M!Py!add(mmr, elem) = M!Py!NewMmr(f[h], (mmr.last_pos + 1) + h)
        BY <1>6, <2>1, M!AddIs, Instance
    <2> QED
        BY <1>4, <2>2 DEF elem
<1>9. /\ Run(program_input) = LastIndex + 1 /\ LastIndex \in Nat /\ index \in 0 .. LastIndex
    <2>1. Run(program_input) = LastIndex + 1
        BY DEF Run, LastIndex
    <2> QED
        BY <1>1, <2>1, LeavesFit
<1>10. After(program_input, previous_peaks_dict, index) = M!Py!NewMmr(Known, next_pos - 2)
    <2>1. Run(program_input) \in Nat /\ index \in 0 .. Run(program_input) - 1
        BY <1>9
    <2>2. After(program_input, previous_peaks_dict, index) =
              M!Py!add(mmr, <<program_input.preimages_array[index + 1]>>)
        BY <1>4, <2>1, AfterEquation
    <2> QED
        BY <1>8, <2>2 DEF PreimageAt
<1>11. Known' = Known /\ next_pos' = next_pos
    BY <1>1 DEF Known, next_pos, mmr_offset
<1>12. CASE index = 0
    <2>1. pc' = "roots"
        BY <1>12 DEF StopMerging, LastLeafDone
    <2>2. After(program_input', previous_peaks_dict', 0) = M!Py!NewMmr(Known', next_pos' - 2)
        BY <1>1, <1>10, <1>11, <1>12
    <2> QED
        BY <2>1, <2>2 DEF ToolsFollow
<1>13. CASE index # 0
    <2>1. pc' = "append" /\ index' = index - 1
        BY <1>13 DEF StopMerging, LastLeafDone
    <2>2. index' + 1 = index
        BY <1>9, <2>1
    <2>3. After(program_input', previous_peaks_dict', index' + 1) = M!Py!NewMmr(Known', next_pos' - 2)
        BY <1>1, <1>10, <1>11, <2>2
    <2> QED
        BY <2>1, <2>3 DEF ToolsFollow
<1> QED
    BY <1>12, <1>13

(* Both bag peaks the same way.                                            *)
LEMMA SameBag ==
    ASSUME NEW peaks, NEW size
    PROVE  M!Py!hash_pair(<<size>>, M!Py!py_bag_peaks(peaks)) = RootOf(size, peaks)
BY DEF RootOf, poseidon_hash, bag_peaks, M!Py!py_bag_peaks, M!Py!hash_pair, FoldRight, M!Py!FoldRight,
       MapThenFoldSet, M!Py!MapThenFoldSet, Front, M!Py!Front, Last, M!Py!Last, Min, M!Py!Min

(* The peaks that the program reads are those of the tools.                *)
LEMMA PeaksAreTools ==
    ASSUME IInv, PeaksAreKnown, NodesAreBuilt, pc = "roots",
           NEW t \in M!PeakTrees(Total(program_input)), NEW v \in get_full_mmr_peak_values(M!PositionOf(t))
    PROVE  M!PositionOf(t) \in Int /\ v = Known[M!PositionOf(t) - 1]
<1>1. PICK n \in Nat \ {0} : n = Total(program_input) /\ n < M!P(MaxHeight + 1)
    BY NewPositions
<1>2. PICK p \in Int : p = M!PositionOf(t)
    BY <1>1, PeakPositionType
<1>3. PICK w :
          /\ get_full_mmr_peak_values(M!PositionOf(t)) = {w}
          /\ M!PositionOf(t) <= mmr_offset => M!PositionOf(t) \in DOMAIN previous_peaks_dict
    BY NewPeaks
<1>4. mmr_offset \in Int
    BY LeavesFit
<1>5. PICK c \in Nat : M!HasLength(mmr_array_poseidon, c)
    BY <1>4, ArrayLength DEF NodesAreBuilt
<1>6. Known[p - 1] = w
    BY <1>2, <1>3, <1>4, <1>5, ReadsOfNodes DEF Known
<1> QED
    BY <1>2, <1>3, <1>6

(* The new root is that of the MMR of the tools.                           *)
LEMMA RootIsTools ==
    ASSUME IInv, PeaksAreKnown, NodesAreBuilt, pc = "roots", NEW root \in get_roots
    PROVE  /\ root = M!Py!get_root(M!Py!NewMmr(Known, next_pos - 2))
           /\ (next_pos - 2) + 1 = mmr_size
<1>1. PICK n \in Nat \ {0} :
          /\ n = Total(program_input) /\ n < M!P(MaxHeight + 1) /\ mmr_size = M!MmrSize(n)
          /\ compute_peaks_positions(mmr_size) = {M!PeakPositions(n)}
    BY NewPositions
<1> DEFINE c == M!PeakCount(n)
           s == M!PeakSequence(n)
           positions == M!PeakPositions(n)
           mmr == M!Py!NewMmr(Known, next_pos - 2)
<1>2. PICK peaks \in get_peaks_from_positions(positions) : root = RootOf(mmr_size, peaks)
    BY <1>1 DEF get_roots
<1>3. /\ c \in Nat \ {0} /\ s \in [1 .. c -> M!PeakTrees(n)]
      /\ positions = [i \in 1 .. c |-> M!PositionOf(s[i])]
    BY <1>1, M!PeaksListed, Instance
<1> HIDE DEF c, s
<1>4. DOMAIN positions = 1 .. c /\ \A i \in 1 .. c : positions[i] = M!PositionOf(s[i])
    BY <1>3
<1> HIDE DEF positions
<1>5. /\ peaks = [i \in 1 .. c |-> peaks[i]]
      /\ \A i \in 1 .. c : peaks[i] \in get_full_mmr_peak_values(positions[i])
    BY <1>2, <1>4 DEF get_peaks_from_positions
<1>6. \A i \in 1 .. c : positions[i] \in Int /\ peaks[i] = Known[positions[i] - 1]
    <2> SUFFICES ASSUME NEW i \in 1 .. c
                 PROVE  positions[i] \in Int /\ peaks[i] = Known[positions[i] - 1]
        OBVIOUS
    <2>1. s[i] \in M!PeakTrees(Total(program_input))
        BY <1>1, <1>3
    <2>2. peaks[i] \in get_full_mmr_peak_values(M!PositionOf(s[i]))
        BY <1>4, <1>5
    <2>3. M!PositionOf(s[i]) \in Int /\ peaks[i] = Known[M!PositionOf(s[i]) - 1]
        BY <2>1, <2>2, PeaksAreTools
    <2> QED
        BY <1>4, <2>3
<1>7. (next_pos - 2) + 1 = mmr_size
    <2>1. mmr_offset \in Int
        BY LeavesFit
    <2>2. PICK l \in Nat : Len(mmr_array_poseidon) = l /\ next_pos = l + mmr_offset + 1
        BY <2>1, ArrayLength DEF NodesAreBuilt
    <2>3. mmr_size = mmr_offset + l
        BY <2>2 DEF mmr_size
    <2> HIDE DEF mmr_offset
    <2> QED
        BY <2>1, <2>2, <2>3
<1>8. mmr.pos_hash = Known /\ mmr.last_pos + 1 = mmr_size
    BY <1>7, M!NewMmrIs, Instance
<1> HIDE DEF mmr
<1>9. M!Py!py_get_peaks(mmr_size) = [i \in 1 .. c |-> 0 + positions[i] - 1]
    <2>1. M!Py!py_get_peaks(M!MmrSize(n)) = M!Back(0, M!PeakPositions(n))
        BY <1>1, M!PyPeaks, Instance
    <2> QED
        BY <1>1, <1>4, <2>1, SameTools DEF M!Back, positions
<1>10. M!Py!mmr_get_peaks(mmr) = peaks
    <2> DEFINE q == M!Py!py_get_peaks(mmr_size)
    <2>1. DOMAIN q = 1 .. c /\ \A i \in 1 .. c : q[i] = positions[i] - 1
        BY <1>6, <1>9
    <2> HIDE DEF q
    <2>2. M!Py!mmr_get_peaks(mmr) = [i \in DOMAIN q |-> Known[q[i]]]
        BY <1>8 DEF M!Py!mmr_get_peaks, q
    <2>3. [i \in DOMAIN q |-> Known[q[i]]] = [i \in 1 .. c |-> peaks[i]]
        BY <1>6, <2>1
    <2> QED
        BY <1>5, <2>2, <2>3
<1>11. M!Py!get_root(mmr) = M!Py!hash_pair(<<mmr_size>>, M!Py!py_bag_peaks(peaks))
    BY <1>8, <1>10 DEF M!Py!get_root
<1> QED
    BY <1>2, <1>7, <1>11, SameBag DEF mmr

(* The program ends with the root and the size of the MMR of the tools.    *)
LEMMA FinishesTools ==
    ASSUME IInv, PeaksAreKnown, NodesAreBuilt, ToolsFollow, Finish
    PROVE  ToolsFollow'
<1>1. PICK root \in get_roots :
          output'.new_mmr_root_poseidon = root /\ output'.new_mmr_len = mmr_size
    BY DEF Finish
<1>2. /\ pc = "roots" /\ pc' = "done"
      /\ UNCHANGED <<program_input, mmr_array_poseidon, previous_peaks_dict>>
    BY DEF Finish
<1>3. root = M!Py!get_root(M!Py!NewMmr(Known, next_pos - 2))
    BY <1>1, <1>2, RootIsTools
<1>4. After(program_input, previous_peaks_dict, 0) = M!Py!NewMmr(Known, next_pos - 2)
    BY <1>2 DEF ToolsFollow
<1>5. Known' = Known /\ next_pos' = next_pos /\ mmr_size' = mmr_size
    BY <1>2 DEF Known, next_pos, mmr_offset, mmr_size
<1>6. /\ After(program_input', previous_peaks_dict', 0) = M!Py!NewMmr(Known', next_pos' - 2)
      /\ output'.new_mmr_root_poseidon = M!Py!get_root(After(program_input', previous_peaks_dict', 0))
      /\ output'.new_mmr_len = mmr_size'
    BY <1>1, <1>2, <1>3, <1>4, <1>5
<1> QED
    BY <1>2, <1>6 DEF ToolsFollow

(* Every step keeps the nodes of the tools and the program the same.       *)
LEMMA KeepsTools ==
    ASSUME IInv, PeaksAreKnown, HashesAreKept, NodesAreBuilt, ToolsFollow, [Next]_vars
    PROVE  ToolsFollow'
<1>1. CASE CheckPreviousPeaks
    BY <1>1 DEF CheckPreviousPeaks, ToolsFollow
<1>2. CASE VerifyHeader
    BY <1>2 DEF VerifyHeader, ToolsFollow
<1>3. CASE Reject
    BY <1>3 DEF Reject, ToolsFollow
<1>4. CASE UNCHANGED vars
    <2>1. UNCHANGED <<pc, program_input, index, mmr_array_poseidon, height, previous_peaks_dict, output>>
        BY <1>4 DEF vars
    <2>2. Known' = Known /\ next_pos' = next_pos /\ mmr_size' = mmr_size
          /\ PreimageAt(index)' = PreimageAt(index)
        BY <2>1 DEF Known, next_pos, mmr_offset, mmr_size, PreimageAt
    <2> QED
        BY <2>1, <2>2 DEF ToolsFollow
<1> QED
    BY <1>1, <1>2, <1>3, <1>4, StartsTools, AddsHeader, MergesBoth, StopsBoth, FinishesTools DEF Next

(* The positions of the old peaks, in the program and in the tools.        *)
LEMMA OldPositions ==
    ASSUME NEW input \in ProgramInputs, NEW dict, PeaksKnown(input, dict)
    PROVE  \E k \in Nat \ {0} :
               /\ k = Old(input) /\ k < M!P(MaxHeight + 1)
               /\ compute_peaks_positions(input.mmr_last_len) = {M!PeakPositions(k)}
               /\ M!Py!py_get_peaks(input.mmr_last_len) = M!Back(0, M!PeakPositions(k))
<1>1. PICK k \in Nat \ {0} : k = Old(input) /\ M!MmrSize(k) = input.mmr_last_len
    BY DEF PeaksKnown
<1>2. k < M!P(MaxHeight + 1)
    <2>1. input.mmr_last_len < M!P(MaxHeight + 1) /\ M!P(MaxHeight + 1) \in Nat
          /\ input.mmr_last_len \in Int
        BY InputFits
    <2>2. k <= input.mmr_last_len
        BY <1>1, M!LeavesAreNodes, Instance
    <2> QED
        BY <2>1, <2>2
<1>3. M!compute_peaks_positions(M!MmrSize(k)) = {M!PeakPositions(k)}
    BY <1>2, M!PeaksInOrder, Instance
<1>4. M!Py!py_get_peaks(M!MmrSize(k)) = M!Back(0, M!PeakPositions(k))
    BY <1>2, M!PyPeaks, Instance
<1> QED
    BY <1>1, <1>2, <1>3, <1>4, SamePeakPositions, SameTools

(* The dictionary is made of the peaks of the input.                       *)
PeaksAreInput ==
    pc \notin {"peaks", "failed"} =>
        previous_peaks_dict =
            initialize_peaks_dicts(M!PeakPositions(Old(program_input)),
                                   program_input.poseidon_mmr_last_peaks)

(* Every step keeps it so.                                                 *)
LEMMA KeepsInputPeaks ==
    ASSUME IInv, PeaksAreKnown, PeaksAreInput, [Next]_vars
    PROVE  PeaksAreInput'
<1>1. UNCHANGED program_input /\ program_input \in ProgramInputs
    BY InputStays DEF IInv
<1>2. CASE CheckPreviousPeaks
    <2>1. PICK positions \in compute_peaks_positions(mmr_offset) :
              previous_peaks_dict' =
                  initialize_peaks_dicts(positions, program_input.poseidon_mmr_last_peaks)
        BY <1>2 DEF CheckPreviousPeaks
    <2>2. pc' = "verify"
        BY <1>2 DEF CheckPreviousPeaks
    <2>3. PeaksKnown(program_input, previous_peaks_dict')
        BY <1>1, <2>2, KeepsPeaks DEF PeaksAreKnown
    <2>4. compute_peaks_positions(mmr_offset) = {M!PeakPositions(Old(program_input))}
        BY <1>1, <2>3, OldPositions DEF mmr_offset
    <2>5. positions = M!PeakPositions(Old(program_input))
        BY <2>1, <2>4
    <2> QED
        BY <1>1, <2>1, <2>5 DEF PeaksAreInput
<1>3. CASE ~CheckPreviousPeaks
    <2>1. /\ UNCHANGED previous_peaks_dict
          /\ pc' \notin {"peaks", "failed"} => pc \notin {"peaks", "failed"}
        BY <1>3 DEF Next, vars, VerifyHeader, CheckBlockNumber, AppendLeaf,
                    MergeSubtrees, StopMerging, Finish, Reject
    <2> QED
        BY <1>1, <2>1 DEF PeaksAreInput
<1> QED
    BY <1>2, <1>3

(* Positions that are numbers and differ.                                  *)
Distinct(q, c) ==
    /\ c \in Nat /\ DOMAIN q = 1 .. c
    /\ \A i \in 1 .. c : q[i] \in Int
    /\ \A i, j \in 1 .. c : q[i] = q[j] => i = j

(* What the tools start from is what the program checks.                   *)
LEMMA SameStart ==
    ASSUME NEW c, NEW q, Distinct(q, c), NEW positions, positions = M!Back(0, q),
           NEW peaks, DOMAIN peaks = 1 .. c, NEW offset
    PROVE  M!PeakHashesAt(positions, peaks) = Nodes(offset, initialize_peaks_dicts(q, peaks), <<>>)
<1> DEFINE f == [p \in Range(positions) |-> peaks[CHOOSE i \in DOMAIN peaks : positions[i] = p]]
           dict == initialize_peaks_dicts(q, peaks)
           g == Nodes(offset, dict, <<>>)
<1>0. /\ c \in Nat /\ DOMAIN q = 1 .. c /\ \A i \in 1 .. c : q[i] \in Int
      /\ \A i, j \in 1 .. c : q[i] = q[j] => i = j
      /\ DOMAIN positions = 1 .. c /\ \A i \in 1 .. c : positions[i] = q[i] - 1
    BY DEF Distinct, M!Back
<1> USE <1>0
<1>1. DOMAIN dict = {q[i] : i \in 1 .. c}
    BY DEF initialize_peaks_dicts
<1>2. ASSUME NEW j \in 1 .. c
      PROVE  dict[q[j]] = peaks[j]
    <2>1. dict[q[j]] = peaks[CHOOSE i \in 1 .. c : q[i] = q[j]]
        BY DEF initialize_peaks_dicts
    <2>2. (CHOOSE i \in 1 .. c : q[i] = q[j]) = j
        OBVIOUS
    <2> QED
        BY <2>1, <2>2
<1> HIDE DEF dict
<1>3. DOMAIN g = {p - 1 : p \in DOMAIN dict} /\ \A x \in DOMAIN g : g[x] = dict[x + 1]
    BY DEF Nodes
<1>4. g = [x \in DOMAIN g |-> g[x]]
    BY DEF Nodes
<1> HIDE DEF g
<1>5. DOMAIN g = {q[i] - 1 : i \in 1 .. c}
    BY <1>1, <1>3
<1>6. DOMAIN f = {q[i] - 1 : i \in 1 .. c}
    <2>1. Range(positions) = {positions[i] : i \in 1 .. c}
        BY DEF Range
    <2>2. Range(positions) = {q[i] - 1 : i \in 1 .. c}
        BY <2>1
    <2> QED
        BY <2>2
<1>7. ASSUME NEW j \in 1 .. c
      PROVE  f[q[j] - 1] = peaks[j] /\ g[q[j] - 1] = peaks[j]
    <2>1. (CHOOSE i \in 1 .. c : positions[i] = q[j] - 1) = j
        <3>1. \A i \in 1 .. c : positions[i] = q[j] - 1 => i = j
            OBVIOUS
        <3>2. positions[j] = q[j] - 1
            OBVIOUS
        <3> QED
            BY <3>1, <3>2
    <2>2. q[j] - 1 \in DOMAIN f /\ q[j] - 1 \in DOMAIN g
        BY <1>5, <1>6
    <2>3. f[q[j] - 1] = peaks[CHOOSE i \in 1 .. c : positions[i] = q[j] - 1]
        BY <2>2
    <2>4. (q[j] - 1) + 1 = q[j]
        OBVIOUS
    <2>5. g[q[j] - 1] = dict[q[j]]
        BY <1>3, <2>2, <2>4
    <2> QED
        BY <1>2, <2>1, <2>3, <2>5
<1>8. f = [x \in DOMAIN f |-> f[x]]
    OBVIOUS
<1> HIDE DEF f
<1>9. \A x \in DOMAIN f : f[x] = g[x]
    BY <1>6, <1>7
<1>10. f = g
    BY <1>4, <1>5, <1>6, <1>8, <1>9
<1> QED
    BY <1>10 DEF f, g, dict, M!PeakHashesAt, M!Range, Range

(* With these two, the tools extend the MMR as the program does.           *)
TInv == ToolsFollow /\ PeaksAreInput

(* At the end the tools have this root and size: they start from the same  *)
(* peaks and add the same hashes.                                          *)
LEMMA ExtendedAlike == IInv /\ NInv /\ TInv => ExtensionsAgree
<1> DEFINE input == program_input
           peaks == input.poseidon_mmr_last_peaks
           positions == M!Py!py_get_peaks(mmr_offset)
           hashes == [i \in 1 .. (LastIndex + 1) |-> poseidon_hash_array[i - 1]]
           extended == M!Py!extend_mmr_poseidon(hashes, positions, peaks, mmr_offset - 1)
           dict == previous_peaks_dict
           base == OldMmr(input, dict)
           mmr == After(input, dict, 0)
<1> SUFFICES ASSUME IInv, NInv, TInv, pc = "done", Len(peaks) = Len(positions)
             PROVE  output.new_mmr_root_poseidon = extended.root /\ output.new_mmr_len = extended.size
    BY SameTools DEF ExtensionsAgree
<1>1. /\ input \in ProgramInputs /\ PeaksKnown(input, dict) /\ LastIndex \in Nat
      /\ PeaksAreKnown /\ NodesAreBuilt /\ mmr_offset \in Int
    BY LeavesFit DEF NInv
<1>2. /\ mmr = M!Py!NewMmr(Known, next_pos - 2)
      /\ output.new_mmr_root_poseidon = M!Py!get_root(mmr) /\ output.new_mmr_len = mmr_size
    BY DEF TInv, ToolsFollow
<1>3. PICK k \in Nat \ {0} :
          /\ k = Old(input) /\ k < M!P(MaxHeight + 1)
          /\ positions = M!Back(0, M!PeakPositions(k))
    BY <1>1, OldPositions DEF mmr_offset
<1> DEFINE c == M!PeakCount(k)
           s == M!PeakSequence(k)
           q == M!PeakPositions(k)
<1>4. /\ c \in Nat \ {0} /\ s \in [1 .. c -> M!PeakTrees(k)]
      /\ q = [i \in 1 .. c |-> M!PositionOf(s[i])]
      /\ \A i, j \in 1 .. c : q[i] = q[j] => i = j
    BY <1>3, M!PeaksListed, Instance
<1>5. dict = initialize_peaks_dicts(q, peaks)
    BY <1>3 DEF TInv, PeaksAreInput
<1>6. DOMAIN q = 1 .. c /\ \A i \in 1 .. c : q[i] \in Int
    <2> HIDE DEF c, s, q
    <2>1. \A i \in 1 .. c : s[i] \in M!PeakTrees(k)
        BY <1>4
    <2>2. \A i \in 1 .. c : M!PositionOf(s[i]) \in Int
        BY <1>3, <2>1, PeakPositionType
    <2> QED
        BY <1>4, <2>2
<1>7. positions = [i \in 1 .. c |-> 0 + q[i] - 1]
    <2> HIDE DEF positions, c
    <2> QED
        BY <1>3, <1>6 DEF M!Back
<1> HIDE DEF c, s, q, positions
<1>8. DOMAIN positions = 1 .. c /\ (\A i \in 1 .. c : positions[i] = q[i] - 1) /\ Len(positions) = c
    <2>1. DOMAIN positions = 1 .. c /\ \A i \in 1 .. c : positions[i] = q[i] - 1
        BY <1>6, <1>7
    <2>2. positions = [i \in 1 .. c |-> positions[i]]
        BY <1>7
    <2>3. Len(positions) = c
        BY <1>4, <2>2, M!IsSequence, Instance
    <2> QED
        BY <2>1, <2>3
<1>9. DOMAIN peaks = 1 .. c
    <2>1. DOMAIN peaks = 1 .. Len(peaks)
        BY <1>1, InputAssumption
    <2> QED
        BY <1>8, <2>1
<1> DEFINE pos_hash == M!PeakHashesAt(positions, peaks)
<1>10. pos_hash = Nodes(mmr_offset, dict, <<>>)
    <2> DEFINE o == mmr_offset
    <2> HIDE DEF peaks, o, dict
    <2>1. Distinct(q, c)
        BY <1>4, <1>6 DEF Distinct
    <2>2. M!PeakHashesAt(positions, peaks) = Nodes(o, initialize_peaks_dicts(q, peaks), <<>>)
        BY <1>3, <1>9, <2>1, SameStart DEF q
    <2> QED
        BY <1>5, <2>2 DEF o
<1>11. base = M!Py!NewMmr(pos_hash, mmr_offset - 1)
    <2> HIDE DEF pos_hash
    <2> QED
        BY <1>10 DEF OldMmr, mmr_offset
<1>12. Run(input) = LastIndex + 1 /\ Run(input) \in Nat
    <2>1. Run(input) = LastIndex + 1
        BY DEF Run, LastIndex
    <2> HIDE DEF LastIndex
    <2> QED
        BY <1>1, <2>1
<1>13. hashes = RunHashes(input) /\ DOMAIN hashes = 1 .. Run(input)
    <2> DEFINE n == LastIndex + 1
               kept == poseidon_hash_array
    <2>1. \A i \in 0 .. LastIndex : kept[i] = <<input.preimages_array[i + 1]>>
        BY DEF NInv, HashesAreKept, KeptFrom, PreimageAt
    <2>2. \A i \in 1 .. n : i - 1 \in 0 .. LastIndex /\ (i - 1) + 1 = i
        BY <1>1
    <2>3. \A i \in 1 .. n : kept[i - 1] = compute_starknet_blockhash(input.preimages_array[i])
        BY <2>1, <2>2 DEF compute_starknet_blockhash
    <2>4. hashes = [i \in 1 .. n |-> compute_starknet_blockhash(input.preimages_array[i])]
        <3> HIDE DEF n, kept
        <3> QED
            BY <2>3 DEF n, kept
    <2> QED
        BY <1>12, <2>4 DEF RunHashes
<1>14. mmr = M!Folded(Run(input), hashes, base)[1 .. Run(input)]
    <2>1. 0 + 1 = 1
        OBVIOUS
    <2> HIDE DEF hashes, base
    <2> QED
        BY <1>13, <2>1 DEF After, base
<1> HIDE DEF hashes, base, mmr, peaks
<1>15. extended.root = M!Py!get_root(mmr) /\ extended.size = mmr.last_pos + 1
    <2> DEFINE l == mmr_offset - 1
               n == Run(input)
    <2>1. /\ n \in Nat /\ DOMAIN hashes = 1 .. n /\ mmr = M!Folded(n, hashes, base)[1 .. n]
          /\ base = M!Py!NewMmr(M!PeakHashesAt(positions, peaks), l)
        BY <1>11, <1>12, <1>13, <1>14
    <2> HIDE DEF l, n
    <2>2. /\ M!Py!extend_mmr_poseidon(hashes, positions, peaks, l).root = M!Py!get_root(mmr)
          /\ M!Py!extend_mmr_poseidon(hashes, positions, peaks, l).size = mmr.last_pos + 1
        BY <2>1, M!ExtendIs, Instance
    <2> QED
        BY <2>2 DEF l
<1>16. mmr.last_pos + 1 = mmr_size
    <2>1. mmr.last_pos = next_pos - 2
        BY <1>2, M!NewMmrIs, Instance
    <2>2. PICK l \in Nat : Len(mmr_array_poseidon) = l /\ next_pos = l + mmr_offset + 1
        BY <1>1, ArrayLength DEF NodesAreBuilt
    <2>3. mmr_size = mmr_offset + l
        BY <2>2 DEF mmr_size
    <2> HIDE DEF mmr_offset
    <2>4. (next_pos - 2) + 1 = mmr_size
        BY <1>1, <2>2, <2>3
    <2> QED
        BY <2>1, <2>4
<1> QED
    BY <1>2, <1>15, <1>16

(* Given the leaf hashes of the program, the tools extend the MMR as the   *)
(* program does.  They start from the peaks of the input alone and know    *)
(* nothing of its hints: this holds for every MMR below the height bound   *)
(* and every run.                                                          *)
THEOREM ExtensionsAgreeHolds == Spec => []ExtensionsAgree
<1>1. Init => TInv
    BY DEF Init, TInv, ToolsFollow, PeaksAreInput
<1>2. IInv /\ NInv /\ TInv /\ [Next]_vars => TInv'
    BY KeepsTools, KeepsInputPeaks DEF NInv, TInv
<1>3. IInv /\ NInv /\ TInv => ExtensionsAgree
    BY ExtendedAlike
<1> QED
    BY <1>1, <1>2, <1>3, InvariantHolds, BuildHolds, PTL DEF Spec

=============================================================================
