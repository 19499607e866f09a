----------------------- MODULE DetachedAggregatorProofs -----------------------
(***************************************************************************)
(* Theorems about two aggregators over one chain.  What is proved of one   *)
(* aggregator, SharpFactsAggregatorProofs, is proved of the detached one   *)
(* too: D is that module for its variables.  The two share the chain, the  *)
(* jobs and the facts, so that a step of the one is a step of the          *)
(* environment, or none, for the other.                                    *)
(***************************************************************************)
EXTENDS DetachedAggregator, SharpFactsAggregatorProofs

D == INSTANCE SharpFactsAggregatorProofs
    WITH aggregatorState         <- detachedState,
         blockNumberToParentHash <- detachedParentHash,
         isOperatorRequired      <- detachedRequired,
         hasRole                 <- detachedRole

-----------------------------------------------------------------------------
(* What D takes from SharpFactsAggregatorProofs.                           *)

(* An instance of an operator on constants is that operator. *)
LEMMA SameSize ==
    ASSUME NEW n
    PROVE  D!MmrSize(n) = MmrSize(n) /\ Detached!MmrSize(n) = MmrSize(n)
<1>1. D!Subtrees(n) = Subtrees(n) /\ Detached!Subtrees(n) = Subtrees(n)
    BY DEF D!Subtrees, Detached!Subtrees, Subtrees, D!LastLeaf, Detached!LastLeaf, LastLeaf,
           D!Width, Detached!Width, Width
<1>2. ASSUME NEW S
      PROVE  D!Cardinality(S) = Cardinality(S) /\ Detached!Cardinality(S) = Cardinality(S)
    BY DEF D!Cardinality, Detached!Cardinality, Cardinality
<1> QED
    BY <1>1, <1>2 DEF D!MmrSize, Detached!MmrSize, MmrSize

(* So are the jobs, their inputs and their outputs. *)
LEMMA SameJobs ==
    /\ D!Block = Block
    /\ D!ChunkInput = ChunkInput
    /\ D!JobOutput = JobOutput
    /\ \A input : /\ D!OutputOf(input) = OutputOf(input)
                  /\ Detached!OutputOf(input) = OutputOf(input)
                  /\ D!ProgramAccepts(input) <=> ProgramAccepts(input)
<1>1. \A run : D!Last(run) = Last(run) /\ Detached!Last(run) = Last(run)
    BY DEF D!Last, Detached!Last, Last
<1>2. D!Block = Block /\ D!ChunkInput = ChunkInput /\ D!JobOutput = JobOutput
    BY DEF D!Block, Block, D!ChunkInput, ChunkInput, D!Root, Root, D!Hash, Hash,
           D!JobOutput, JobOutput
<1>3. ASSUME NEW input
      PROVE  /\ D!OutputOf(input) = OutputOf(input)
             /\ Detached!OutputOf(input) = OutputOf(input)
    BY <1>1, SameSize DEF D!OutputOf, Detached!OutputOf, OutputOf
<1>4. ASSUME NEW input
      PROVE  D!ProgramAccepts(input) <=> ProgramAccepts(input)
    BY <1>1 DEF D!ProgramAccepts, ProgramAccepts
<1> QED
    BY <1>2, <1>3, <1>4

LEMMA SameFacts == D!FactsAccepted <=> FactsAccepted
    BY SameJobs DEF D!FactsAccepted, FactsAccepted

(* A transaction on the detached contract is a step of D. *)
LEMMA DetachedCall == Detached!Contract \/ Detached!RoleManagement => D!Next
<1>1. Detached!Calldata = D!Calldata
    <2>1. \A S, n : Detached!SeqOf(S, n) = D!SeqOf(S, n)
        BY DEF Detached!SeqOf, D!SeqOf
    <2>2. \A j : Detached!OutputOf(j) = D!OutputOf(j)
        BY SameJobs
    <2> QED
        BY <2>1, <2>2, Zenon DEF Detached!Calldata, D!Calldata
<1>2. ASSUME NEW sender, Detached!registerNewRange(sender)
      PROVE  D!registerNewRange(sender)
    BY <1>2 DEF Detached!registerNewRange, D!registerNewRange,
                Detached!onlyOperator, D!onlyOperator,
                Detached!cacheParentHash, D!cacheParentHash,
                Detached!stateBlockHash, D!stateBlockHash,
                Detached!accessVars, D!accessVars
<1>3. ASSUME NEW sender, NEW outputs, Detached!aggregateSharpJobs(sender, outputs)
      PROVE  D!aggregateSharpJobs(sender, outputs)
    BY <1>3 DEF Detached!aggregateSharpJobs, D!aggregateSharpJobs,
                Detached!onlyOperator, D!onlyOperator,
                Detached!cacheParentHash, D!cacheParentHash,
                Detached!ensureContinuable, D!ensureContinuable,
                Detached!ensureValidFact, D!ensureValidFact,
                Detached!ensureConsecutiveJobs, D!ensureConsecutiveJobs,
                Detached!parentHashOf, D!parentHashOf,
                Detached!accessVars, D!accessVars
<1>4. ASSUME NEW sender, NEW required, Detached!setOperatorRequired(sender, required)
      PROVE  D!setOperatorRequired(sender, required)
    BY <1>4 DEF Detached!setOperatorRequired, D!setOperatorRequired,
                Detached!onlyUnlocker, D!onlyUnlocker,
                Detached!contractVars, D!contractVars
<1>5. Detached!Contract => D!Contract
    BY <1>1, <1>2, <1>3, <1>4 DEF Detached!Contract, D!Contract
<1>6. Detached!RoleManagement => D!RoleManagement
    BY DEF Detached!RoleManagement, D!RoleManagement,
           Detached!grantRole, D!grantRole, Detached!revokeRole, D!revokeRole,
           Detached!renounceRole, D!renounceRole, Detached!contractVars, D!contractVars,
           Detached!Role, D!Role, Detached!RoleAdmin, D!RoleAdmin
<1> QED
    BY <1>5, <1>6 DEF D!Next

(* The invariant of one aggregator is one of the detached aggregator.      *)
LEMMA DetachedStepKeeps == D!IInv /\ [D!Next]_D!vars => D!IInv'
    BY D!NextInv, HeightAssumption, HeaderAssumption, BoundAssumption,
       CanonicalAssumption, TableAssumption DEF D!Block, Block

LEMMA DetachedStepKeepsGaps ==
    ASSUME D!IInv, [D!Next]_D!vars, NEW n \in Nat, n >= 1, n <= Len(D!Leaves),
           D!NoLostGapAbove(n)
    PROVE  n <= Len(D!Leaves') /\ D!NoLostGapAbove(n)'
    BY D!KeepsGapsInReach, HeightAssumption, HeaderAssumption, BoundAssumption,
       CanonicalAssumption, TableAssumption DEF D!Block, Block

LEMMA DetachedJobsDoNotMatter ==
    D!IInv /\ jobs' \subseteq D!ChunkInput
           /\ UNCHANGED <<D!contractVars, D!accessVars, stateBlockNumber, facts>>
    => D!IInv'
    BY D!JobsDoNotMatter, HeightAssumption, HeaderAssumption, BoundAssumption,
       CanonicalAssumption, TableAssumption DEF D!Block, Block

-----------------------------------------------------------------------------
(* The inductive invariant of the two.                                     *)

(* Before it is created, the cache of the detached aggregator is empty;    *)
(* from then on it has an invariant like the original's, its leaves are    *)
(* the inherited ones or more, and no hole below a leaf of its own is lost.*)
DetachedInv ==
    /\ IInv
    /\ ~Created => detachedParentHash = [b \in 0 .. (LastBlock + 1) |-> Zero]
    /\ Created => /\ D!IInv
                  /\ Len(inherited) \in Nat /\ Len(inherited) >= 1
                  /\ Len(inherited) <= Len(D!Leaves)
                  /\ D!NoLostGapAbove(Len(inherited))

(* What the factory copies is enough: a state that satisfies the original's *)
(* invariant satisfies it with an empty cache.                             *)
LEMMA CreationKeeps ==
    ASSUME DetachedInv, createAggregator
    PROVE  DetachedInv'
<1>1. /\ aggregatorState \in AggregatorState
      /\ Len(Leaves) >= 1 /\ Len(Leaves) \in Nat /\ Leaves # <<>>
    BY LenProperties DEF DetachedInv, IInv, SettledRoot, TypeOK, AggregatorState, Leaves, Root
<1>2. /\ detachedState' = aggregatorState
      /\ inherited' = Leaves
      /\ detachedParentHash' = [b \in 0 .. (LastBlock + 1) |-> Zero]
    BY <1>1 DEF createAggregator, InitialState, AggregatorState, DetachedInv, Leaves
<1>3. UNCHANGED <<aggregatorState, blockNumberToParentHash, isOperatorRequired, hasRole,
                  stateBlockNumber, jobs, facts>>
    BY DEF createAggregator, vars, contractVars, accessVars
<1>4. IInv'
    BY <1>3, NextInv DEF DetachedInv, vars, contractVars, accessVars
<1>5. D!IInv'
    <2>1. D!TypeOK'
        <3>1. D!AggregatorState = AggregatorState /\ D!Hash = Hash
            BY DEF D!AggregatorState, AggregatorState, D!Root, Root, D!Hash, Hash
        <3>2. detachedRole' \in [D!Role -> SUBSET Account] /\ detachedRequired' \in BOOLEAN
            BY BoundAssumption DEF createAggregator, D!Role, Role
        <3>3. detachedParentHash' \in [0 .. (LastBlock + 1) -> Hash]
            BY <1>2 DEF Hash
        <3>4. /\ stateBlockNumber' \in -1 .. LastBlock
              /\ jobs' \subseteq D!ChunkInput /\ facts' \subseteq D!JobOutput
            BY <1>4, SameJobs DEF IInv, TypeOK
        <3> QED
            BY <1>1, <1>2, <3>1, <3>2, <3>3, <3>4 DEF D!TypeOK
    <2>2. D!FactsAccepted'
        <3>1. FactsAccepted'
            BY <1>4 DEF IInv
        <3> QED
            BY <3>1, SameJobs DEF D!FactsAccepted, FactsAccepted
    <2>3. D!SettledRoot(D!Leaves, stateBlockNumber)'
        BY <1>2, <1>3 DEF DetachedInv, IInv, SettledRoot, Leaves, D!SettledRoot, D!Leaves
    <2>4. D!TrustedHashesAreSettled'
        BY <1>2, <1>3 DEF DetachedInv, IInv, TrustedHashesAreSettled, D!TrustedHashesAreSettled
    <2>5. D!SizeMatches'
        BY <1>2, SameSize DEF DetachedInv, IInv, SizeMatches, Leaves, D!SizeMatches, D!Leaves
    <2>6. D!GoesOnBelow'
        BY <1>2 DEF DetachedInv, IInv, GoesOnBelow, Leaves, Last, D!GoesOnBelow, D!Leaves, D!Last
    <2> QED
        BY <2>1, <2>2, <2>3, <2>4, <2>5, <2>6 DEF D!IInv
<1>6. /\ Len(inherited') \in Nat /\ Len(inherited') >= 1
      /\ Len(inherited') <= Len(D!Leaves')
      /\ D!NoLostGapAbove(Len(inherited))'
    BY <1>1, <1>2 DEF D!Leaves, Leaves, D!NoLostGapAbove
<1> QED
    BY <1>1, <1>2, <1>4, <1>5, <1>6 DEF DetachedInv, Created

(* A step that leaves the detached contract alone keeps its holes in reach.*)
LEMMA GapsAreItsOwn ==
    ASSUME UNCHANGED <<detachedVars, inherited>>, D!NoLostGapAbove(Len(inherited))
    PROVE  D!NoLostGapAbove(Len(inherited))'
    BY DEF detachedVars, D!NoLostGapAbove, D!InReach, D!Leaves

(* A step of the original, or of the environment it shares. *)
LEMMA OriginalKeeps ==
    ASSUME DetachedInv, Next, UNCHANGED <<detachedVars, inherited>>
    PROVE  DetachedInv'
<1>1. IInv'
    BY NextInv DEF DetachedInv
<1>2. ASSUME Created PROVE D!IInv'
    <2>1. CASE Contract \/ RoleManagement
        <3>1. UNCHANGED D!vars
            BY <2>1 DEF Contract, RoleManagement, registerNewRange, aggregateSharpJobs,
                setOperatorRequired, grantRole, revokeRole, renounceRole,
                D!vars, D!contractVars, D!accessVars, detachedVars
        <3> QED
            BY <1>2, <3>1, DetachedStepKeeps DEF DetachedInv
    <2>2. ASSUME NEW b \in Block, Settle(b) PROVE D!Next
        BY <2>2, SameJobs DEF Settle, D!Next, D!Environment, D!Settle, D!contractVars,
                              D!accessVars, detachedVars
    <2>3. ASSUME NEW root, NEW table, NEW from, NEW to, PrepareJob(root, table, from, to)
          PROVE  D!IInv'
        <3>1. jobs' \subseteq D!ChunkInput
            BY <1>1, SameJobs DEF IInv, TypeOK
        <3>2. UNCHANGED <<D!contractVars, D!accessVars, stateBlockNumber, facts>>
            BY <2>3 DEF PrepareJob, D!contractVars, D!accessVars, detachedVars
        <3> QED
            BY <1>2, <3>1, <3>2, DetachedJobsDoNotMatter DEF DetachedInv
    <2>4. ASSUME NEW input \in jobs, RegisterFact(input) PROVE D!Next
        BY <2>4, SameJobs DEF RegisterFact, D!Next, D!Environment, D!RegisterFact,
                              D!contractVars, D!accessVars, detachedVars
    <2> QED
        BY <1>2, <2>1, <2>2, <2>3, <2>4, DetachedStepKeeps DEF DetachedInv, Next, Environment
<1>3. Created' = Created /\ D!Leaves' = D!Leaves
    BY DEF Created, detachedVars, D!Leaves
<1> QED
    BY <1>1, <1>2, <1>3, GapsAreItsOwn DEF DetachedInv, detachedVars

(* A transaction on the detached contract. *)
LEMMA DetachedKeeps ==
    ASSUME DetachedInv, Created, Detached!Contract \/ Detached!RoleManagement,
           UNCHANGED <<contractVars, accessVars, inherited>>
    PROVE  DetachedInv'
<1>1. D!Next
    BY DetachedCall
<1>2. UNCHANGED vars
    BY DEF Detached!Contract, Detached!RoleManagement, Detached!registerNewRange,
           Detached!aggregateSharpJobs, Detached!setOperatorRequired, Detached!grantRole,
           Detached!revokeRole, Detached!renounceRole, vars
<1>3. IInv'
    BY <1>2, NextInv DEF DetachedInv
<1>4. D!IInv'
    BY <1>1, DetachedStepKeeps DEF DetachedInv
<1>5. Len(inherited) <= Len(D!Leaves') /\ D!NoLostGapAbove(Len(inherited))'
    <2> DEFINE n == Len(inherited)
    <2>1. /\ n \in Nat /\ n >= 1 /\ n <= Len(D!Leaves) /\ D!NoLostGapAbove(n)
          /\ D!IInv /\ n' = n
        BY DEF DetachedInv
    <2>2. D!NoLostGapAbove(n)' <=> \A i \in (n + 1) .. Len(D!Leaves)' : D!InReach(i)'
        BY <2>1 DEF D!NoLostGapAbove
    <2> HIDE DEF n
    <2>3. n <= Len(D!Leaves') /\ \A i \in (n + 1) .. Len(D!Leaves)' : D!InReach(i)'
        BY <1>1, <2>1, DetachedStepKeepsGaps DEF D!NoLostGapAbove
    <2> QED
        BY <2>2, <2>3 DEF n
<1> QED
    BY <1>3, <1>4, <1>5 DEF DetachedInv, Created

(* A job the tools prepare for the detached aggregator. *)
LEMMA DetachedJobKeeps ==
    ASSUME DetachedInv, Created, NEW table \in Tables, NEW from \in Block, NEW to \in Block,
           PrepareJob(detachedState.poseidonMmrRoot, table, from, to),
           UNCHANGED <<detachedVars, inherited>>
    PROVE  DetachedInv'
<1>1. detachedState.poseidonMmrRoot \in Root
    BY DEF DetachedInv, D!IInv, D!TypeOK, D!AggregatorState, D!Root, Root
<1>2. jobs' \subseteq ChunkInput
    BY <1>1, InputType DEF PrepareJob, DetachedInv, IInv, TypeOK
<1>3. IInv'
    BY <1>2, JobsDoNotMatter DEF DetachedInv, PrepareJob
<1>4. D!IInv'
    <2>1. UNCHANGED <<D!contractVars, D!accessVars, stateBlockNumber, facts>>
        BY DEF PrepareJob, D!contractVars, D!accessVars, detachedVars
    <2> QED
        BY <1>2, <2>1, SameJobs, DetachedJobsDoNotMatter DEF DetachedInv
<1>5. Created' = Created /\ D!Leaves' = D!Leaves
    BY DEF Created, detachedVars, D!Leaves
<1> QED
    BY <1>3, <1>4, <1>5, GapsAreItsOwn DEF DetachedInv, detachedVars

(* Both aggregators keep their invariants, whatever happens to the other.  *)
THEOREM DetachedInvariantHolds == DetachedSpec => []DetachedInv
<1>1. DetachedInit => DetachedInv
    BY InitInv DEF DetachedInit, DetachedInv, Created
<1>2. DetachedInv /\ [DetachedNext]_allVars => DetachedInv'
    <2> SUFFICES ASSUME DetachedInv, [DetachedNext]_allVars PROVE DetachedInv'
        OBVIOUS
    <2>1. CASE createAggregator
        BY <2>1, CreationKeeps
    <2>2. CASE Next /\ UNCHANGED <<detachedVars, inherited>>
        BY <2>2, OriginalKeeps
    <2>3. CASE /\ Created
               /\ Detached!Contract \/ Detached!RoleManagement
               /\ UNCHANGED <<contractVars, accessVars, inherited>>
        BY <2>3, DetachedKeeps
    <2>4. CASE /\ Created
               /\ \E table \in Tables, from, to \in Block :
                    PrepareJob(detachedState.poseidonMmrRoot, table, from, to)
               /\ UNCHANGED <<detachedVars, inherited>>
        BY <2>4, DetachedJobKeeps
    <2>5. CASE UNCHANGED allVars
        <3>1. UNCHANGED vars /\ UNCHANGED D!vars
            BY <2>5 DEF allVars, vars, contractVars, accessVars, detachedVars, D!vars,
                        D!contractVars, D!accessVars
        <3>2. IInv' /\ (Created => D!IInv')
            BY <3>1, NextInv, DetachedStepKeeps DEF DetachedInv
        <3>3. UNCHANGED <<detachedVars, inherited>>
            BY <2>5 DEF allVars
        <3>4. Created' = Created /\ D!Leaves' = D!Leaves
            BY <3>3 DEF Created, detachedVars, D!Leaves
        <3> QED
            BY <3>2, <3>3, <3>4, GapsAreItsOwn DEF DetachedInv, detachedVars
    <2> QED
        BY <2>1, <2>2, <2>3, <2>4, <2>5 DEF DetachedNext
<1> QED
    BY <1>1, <1>2, PTL DEF DetachedSpec

-----------------------------------------------------------------------------
(* The properties.                                                         *)

(* The detached aggregator holds only settled headers, trusts only settled *)
(* hashes, and knows its own size: for every point at which it is created, *)
(* and whatever is done with either aggregator before and after.           *)
THEOREM DetachedIsSoundHolds == DetachedSpec => []DetachedIsSound
<1>1. DetachedInv => DetachedIsSound
    <2> SUFFICES ASSUME DetachedInv, Created
                 PROVE  /\ Detached!OnlySettledHeaders
                        /\ Detached!TrustedHashesAreSettled
                        /\ detachedState.mmrSize = MmrSize(Len(DetachedLeaves))
        BY DEF DetachedIsSound
    <2>1. Detached!OnlySettledHeaders
        BY DEF DetachedInv, D!IInv, D!SettledRoot, D!Leaves, Detached!OnlySettledHeaders,
               Detached!Leaves
    <2>2. Detached!TrustedHashesAreSettled
        BY DEF DetachedInv, D!IInv, D!TrustedHashesAreSettled,
               Detached!TrustedHashesAreSettled
    <2>3. detachedState.mmrSize = MmrSize(Len(DetachedLeaves))
        BY SameSize DEF DetachedInv, D!IInv, D!SizeMatches, D!Leaves, DetachedLeaves
    <2> QED
        BY <2>1, <2>2, <2>3
<1> QED
    BY <1>1, DetachedInvariantHolds, PTL

(* It can always go on: from every hash it trusts; and, before it has      *)
(* appended anything, below the last header it inherited.                  *)
THEOREM DetachedCanContinueHolds == DetachedSpec => []DetachedCanContinue
<1>1. ASSUME DetachedInv, Created PROVE Detached!CanContinue
    <2> SUFFICES ASSUME NEW from \in Block, NEW to \in 0 .. from,
                        \/ detachedParentHash[from + 1] # Zero
                        \/ detachedState.continuableParentHash = Canonical[from]
                 PROVE  Detached!ensureContinuable(
                            Detached!parentHashOf(from + 1),
                            Detached!OutputOf(Detached!HonestInput(from, to)))
        <3>1. Detached!Block = Block
            BY DEF Detached!Block, Block
        <3> QED
            BY <3>1 DEF Detached!CanContinue
    <2>1. D!IInv
        BY <1>1 DEF DetachedInv
    <2>2. from + 1 \in DOMAIN detachedParentHash /\ from = (from + 1) - 1
        BY <2>1, BoundAssumption DEF D!IInv, D!TypeOK, Block
    <2>3. Detached!parentHashOf(from + 1) = detachedParentHash[from + 1]
        BY <2>2 DEF Detached!parentHashOf
    <2>4. detachedParentHash[from + 1] # Zero => detachedParentHash[from + 1] = Canonical[from]
        BY <2>1, <2>2 DEF D!IInv, D!TrustedHashesAreSettled
    <2> DEFINE input == Detached!HonestInput(from, to)
    <2>5. /\ OutputOf(input).mmrPreviousRootPoseidon = DetachedLeaves
          /\ OutputOf(input).mmrPreviousSize = MmrSize(Len(DetachedLeaves))
          /\ OutputOf(input).blockNPlusOneParentHash = Canonical[from]
        BY DEF OutputOf, Detached!HonestInput, Detached!Leaves, DetachedLeaves
    <2>6. detachedState.mmrSize = MmrSize(Len(DetachedLeaves))
        BY <2>1, SameSize DEF D!IInv, D!SizeMatches, D!Leaves, DetachedLeaves
    <2>7. Detached!OutputOf(input) = OutputOf(input)
        BY SameJobs
    <2> HIDE DEF input
    <2>8. Detached!ensureContinuable(Detached!parentHashOf(from + 1), Detached!OutputOf(input))
        BY <2>3, <2>4, <2>5, <2>6, <2>7 DEF Detached!ensureContinuable, DetachedLeaves
    <2> QED
        BY <2>8 DEF input
<1>2. ASSUME DetachedInv, Created, DetachedLeaves = inherited, Len(inherited) > 1,
             Parent[Last(inherited)] # Zero
      PROVE  detachedState.continuableParentHash = Parent[Last(inherited)]
    BY <1>2 DEF DetachedInv, D!IInv, D!GoesOnBelow, D!Leaves, DetachedLeaves, D!Last, Last
<1>3. DetachedInv => DetachedCanContinue
    BY <1>1, <1>2 DEF DetachedCanContinue
<1> QED
    BY <1>3, DetachedInvariantHolds, PTL

(* It never loses the hole below a header that it appended itself.         *)
THEOREM OwnGapsStayOpenHolds == DetachedSpec => []OwnGapsStayOpen
<1>1. DetachedInv => OwnGapsStayOpen
    BY DEF DetachedInv, D!NoLostGapAbove, D!InReach, D!Leaves, OwnGapsStayOpen, DetachedLeaves
<1> QED
    BY <1>1, DetachedInvariantHolds, PTL

=============================================================================
