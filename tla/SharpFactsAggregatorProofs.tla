--------------------- MODULE SharpFactsAggregatorProofs ---------------------
(***************************************************************************)
(* Theorems about SharpFactsAggregator, for every chain, every set of      *)
(* accounts and every value of the bounds.                                 *)
(***************************************************************************)
EXTENDS SharpFactsAggregator, FiniteSetTheorems, SequenceTheorems, WellFoundedInduction, TLAPS

-----------------------------------------------------------------------------
(* Arithmetic and data.                                                    *)

(* Induction along 1 .. n, with the induction hypothesis given as a set.   *)
LEMMA InductionAlongInterval ==
    ASSUME NEW n \in Nat, NEW S,
           n > 0 => 1 \in S,
           \A i \in 1 .. (n - 1) : i \in S => i + 1 \in S
    PROVE  \A i \in 1 .. n : i \in S
<1> DEFINE Missing == {i \in 1 .. n : i \notin S}
<1>1. SUFFICES ASSUME Missing # {} PROVE FALSE
    OBVIOUS
<1>2. Missing \subseteq Nat
    OBVIOUS
<1>3. PICK m \in Missing : \A k \in Missing : ~(<<k, m>> \in OpToRel(<, Nat))
    BY <1>1, <1>2, WFMin, NatLessThanWellFounded
<1>4. m \in 1 .. n /\ m \notin S
    OBVIOUS
<1>5. CASE m = 1
    BY <1>4, <1>5
<1>6. CASE m > 1
    <2>1. m - 1 \in 1 .. (n - 1)
        BY <1>4, <1>6
    <2>2. m - 1 \notin S
        BY <1>4, <2>1
    <2>3. m - 1 \in Missing
        BY <2>1, <2>2
    <2>4. <<m - 1, m>> \in OpToRel(<, Nat)
        BY <1>4, <1>6 DEF OpToRel
    <2> QED
        BY <1>3, <2>3, <2>4
<1> QED
    BY <1>4, <1>5, <1>6

(* The size of an MMR is a natural number: it has finitely many subtrees.  *)
LEMMA MmrSizeType ==
    ASSUME NEW n \in Nat
    PROVE  MmrSize(n) \in Nat
<1>1. IsFiniteSet(0 .. MaxHeight) /\ IsFiniteSet(1 .. n)
    BY FS_Interval, HeightAssumption
<1>2. IsFiniteSet((0 .. MaxHeight) \X (1 .. n))
    BY <1>1, FS_Product
<1>3. Subtrees(n) \in SUBSET ((0 .. MaxHeight) \X (1 .. n))
    BY DEF Subtrees
<1> QED
    BY <1>2, <1>3, FS_Subset, FS_CardinalityType DEF MmrSize

(* The root of a job extends the one it starts from by the job's headers.  *)
LEMMA RootType ==
    ASSUME NEW input \in ChunkInput
    PROVE  /\ input.mmrLastRootPoseidon \o input.headers \in Root
           /\ Len(input.mmrLastRootPoseidon \o input.headers)
                = Len(input.mmrLastRootPoseidon) + Len(input.headers)
<1>1. input.mmrLastRootPoseidon \in Seq(Header \union {Seed})
    BY DEF ChunkInput, Root
<1>2. input.headers \in Seq(Header \union {Seed})
    <2>1. input.headers \in Seq(Header)
        BY DEF ChunkInput
    <2> QED
        BY <2>1, SeqMonotonic
<1> QED
    BY <1>1, <1>2, ConcatProperties DEF Root

(* The outputs of a non-empty job have their type. *)
LEMMA OutputType ==
    ASSUME NEW input \in ChunkInput, Len(input.headers) > 0
    PROVE  OutputOf(input) \in JobOutput
<1>1. input.headers \in Seq(Header) /\ input.mmrLastRootPoseidon \in Root
    BY DEF ChunkInput
<1>2. Last(input.headers) \in Header
    BY <1>1, LenProperties, ElementOfSeq DEF Last
<1>3. Parent[Last(input.headers)] \in Hash
    BY <1>2, HeaderAssumption DEF Hash
<1>4. /\ Len(input.mmrLastRootPoseidon) \in Nat
      /\ Len(input.mmrLastRootPoseidon \o input.headers) \in Nat
    BY <1>1, RootType, LenProperties DEF Root
<1>5. /\ MmrSize(Len(input.mmrLastRootPoseidon)) \in Nat
      /\ MmrSize(Len(input.mmrLastRootPoseidon \o input.headers)) \in Nat
    BY <1>4, MmrSizeType
<1> QED
    BY <1>1, <1>3, <1>5, RootType DEF OutputOf, JobOutput, ChunkInput

(* The roots the tools know of are roots. *)
LEMMA KnownRootsType ==
    ASSUME TypeOK
    PROVE  KnownRoots \subseteq Root
<1>1. <<Seed>> \in Root
    BY DEF Root
<1>2. aggregatorState.poseidonMmrRoot \in Root
    BY DEF TypeOK, AggregatorState
<1>3. \A j \in jobs : OutputOf(j).mmrNewRootPoseidon \in Root
    BY RootType DEF TypeOK, OutputOf
<1> QED
    BY <1>1, <1>2, <1>3 DEF KnownRoots

(* The input the tools prepare has its type. *)
LEMMA InputType ==
    ASSUME NEW root \in Root, NEW table \in Tables, NEW from \in Block, NEW to \in Block,
           to <= from, from < LastBlock
    PROVE  InputFor(root, table, from, to) \in ChunkInput
<1>1. table \in [Block -> Header]
    BY TableAssumption
<1>2. LastBlock \in Nat
    BY BoundAssumption
<1>3. Parent[table[from + 1]] \in Hash
    <2>1. from + 1 \in Block
        BY <1>2 DEF Block
    <2> QED
        BY <1>1, <2>1, HeaderAssumption DEF Hash
<1>4. HeadersOf(table, from, to) \in Seq(Header)
    <2>1. from - to + 1 \in Nat
        BY <1>2 DEF Block
    <2>2. \A i \in 1 .. (from - to + 1) : table[from - i + 1] \in Header
        BY <1>1, <1>2 DEF Block
    <2> QED
        BY <2>1, <2>2, IsASeq DEF HeadersOf
<1>5. from \in Nat /\ to \in Nat
    BY <1>2 DEF Block
<1> QED
    BY <1>3, <1>4, <1>5 DEF InputFor, ChunkInput

-----------------------------------------------------------------------------
(* Type correctness.                                                       *)

(* A new tree is well typed. *)
LEMMA InitType == Init => TypeOK
<1> SUFFICES ASSUME Init PROVE TypeOK
    OBVIOUS
<1>1. aggregatorState \in AggregatorState
    BY MmrSizeType DEF Init, AggregatorState, Root, Hash
<1>2. blockNumberToParentHash \in [0 .. (LastBlock + 1) -> Hash]
    BY DEF Init, Hash
<1>3. hasRole \in [Role -> SUBSET Account]
    BY BoundAssumption DEF Init
<1>4. stateBlockNumber \in -1 .. LastBlock
    BY BoundAssumption DEF Init
<1> QED
    BY <1>1, <1>2, <1>3, <1>4 DEF Init, TypeOK

(* Every step keeps the types: one case per operation. *)
LEMMA NextType == TypeOK /\ [Next]_vars => TypeOK'
<1> SUFFICES ASSUME TypeOK, [Next]_vars PROVE TypeOK'
    OBVIOUS
<1> USE DEF contractVars, accessVars
<1>1. ASSUME NEW sender \in Account, registerNewRange(sender)
      PROVE  TypeOK'
    <2>1. stateBlockHash \in Hash
        BY <1>1, CanonicalAssumption DEF TypeOK, registerNewRange, stateBlockHash, Hash, Block
    <2>2. aggregatorState' \in AggregatorState
        BY <1>1, <2>1 DEF TypeOK, registerNewRange, AggregatorState
    <2>3. blockNumberToParentHash' \in [0 .. (LastBlock + 1) -> Hash]
        BY <1>1, <2>1 DEF TypeOK, registerNewRange, cacheParentHash
    <2> QED
        BY <1>1, <2>2, <2>3 DEF TypeOK, registerNewRange
<1>2. ASSUME NEW sender \in Account, NEW outputs \in Calldata,
             aggregateSharpJobs(sender, outputs)
      PROVE  TypeOK'
    <2> DEFINE last == outputs[Len(outputs)]
    <2>1. last \in JobOutput
        BY <1>2 DEF TypeOK, aggregateSharpJobs, ensureValidFact
    <2>2. /\ last.mmrNewRootPoseidon \in Root
          /\ last.mmrNewSize \in Nat
          /\ last.blockNMinusRPlusOneParentHash \in Hash
        BY <2>1 DEF JobOutput
    <2>3. aggregatorState' \in AggregatorState
        BY <1>2, <2>2 DEF aggregateSharpJobs, AggregatorState
    <2>4. blockNumberToParentHash' \in [0 .. (LastBlock + 1) -> Hash]
        BY <1>2, <2>2 DEF TypeOK, aggregateSharpJobs, cacheParentHash
    <2> QED
        BY <1>2, <2>3, <2>4 DEF TypeOK, aggregateSharpJobs, cacheParentHash
<1>3. ASSUME NEW sender \in Account, NEW required \in BOOLEAN,
             setOperatorRequired(sender, required)
      PROVE  TypeOK'
    BY <1>3 DEF TypeOK, setOperatorRequired
<1>4. ASSUME NEW sender \in RoleCaller, NEW role \in Role, NEW account \in Account,
             grantRole(sender, role, account) \/ revokeRole(sender, role, account)
      PROVE  TypeOK'
    <2>1. hasRole' \in [Role -> SUBSET Account]
        BY <1>4 DEF TypeOK, grantRole, revokeRole
    <2> QED
        BY <1>4, <2>1 DEF TypeOK, grantRole, revokeRole
<1>5. ASSUME NEW sender \in RoleCaller, NEW role \in Role, renounceRole(sender, role)
      PROVE  TypeOK'
    <2>1. hasRole' \in [Role -> SUBSET Account]
        BY <1>5 DEF TypeOK, renounceRole
    <2> QED
        BY <1>5, <2>1 DEF TypeOK, renounceRole
<1>6. ASSUME NEW b \in Block, Settle(b)
      PROVE  TypeOK'
    <2>1. stateBlockNumber' \in -1 .. LastBlock
        BY <1>6, BoundAssumption DEF Settle, Block
    <2> QED
        BY <1>6, <2>1 DEF TypeOK, Settle
<1>7. ASSUME NEW root \in KnownRoots, NEW table \in Tables,
             NEW from \in Block, NEW to \in Block, PrepareJob(root, table, from, to)
      PROVE  TypeOK'
    <2>1. InputFor(root, table, from, to) \in ChunkInput
        BY <1>7, KnownRootsType, InputType DEF PrepareJob
    <2>2. jobs' \subseteq ChunkInput
        BY <1>7, <2>1 DEF TypeOK, PrepareJob
    <2> QED
        BY <1>7, <2>2 DEF TypeOK, PrepareJob
<1>8. ASSUME NEW input \in jobs, RegisterFact(input)
      PROVE  TypeOK'
    <2>1. input \in ChunkInput /\ Len(input.headers) > 0
        BY <1>8 DEF TypeOK, RegisterFact, ProgramAccepts
    <2>2. facts' \subseteq JobOutput
        BY <1>8, <2>1, OutputType DEF TypeOK, RegisterFact
    <2> QED
        BY <1>8, <2>2 DEF TypeOK, RegisterFact
<1>9. CASE UNCHANGED vars
    BY <1>9 DEF TypeOK, vars
<1> QED
    BY <1>1, <1>2, <1>3, <1>4, <1>5, <1>6, <1>7, <1>8, <1>9
       DEF Next, Contract, RoleManagement, Environment

(* Every reachable state is well typed, whatever jobs are prepared, proved *)
(* and aggregated, and whoever holds the roles.                            *)
THEOREM TypeCorrect == Spec => []TypeOK
<1> QED
    BY InitType, NextType, PTL DEF Spec

-----------------------------------------------------------------------------
(* Jobs the program accepts.                                               *)

(* The headers of an accepted job that starts at a canonical header are    *)
(* canonical all the way down: each is the parent of the one before.       *)
LEMMA RunIsCanonical ==
    ASSUME NEW input \in ChunkInput, ProgramAccepts(input),
           NEW c \in Block, input.blockNPlusOneParentHash = Canonical[c]
    PROVE  \A i \in 1 .. Len(input.headers) :
               c - i + 1 \in Block /\ input.headers[i] = Canonical[c - i + 1]
<1> DEFINE run == input.headers
           Good == {i \in 1 .. Len(run) :
                        c - i + 1 \in Block /\ run[i] = Canonical[c - i + 1]}
<1>0. /\ run \in Seq(Header)
      /\ Len(run) \in Nat
      /\ c \in Nat /\ LastBlock \in Nat /\ c <= LastBlock
    BY BoundAssumption, LenProperties DEF ChunkInput, Block
<1>1. Len(run) > 0 => 1 \in Good
    BY <1>0 DEF ProgramAccepts, Block
<1>2. ASSUME NEW i \in 1 .. (Len(run) - 1), i \in Good
      PROVE  i + 1 \in Good
    <2>1. i \in Nat /\ i + 1 \in 1 .. Len(run)
        BY <1>0
    <2>2. run[i + 1] = Parent[Canonical[c - i + 1]]
        BY <1>2 DEF ProgramAccepts
    <2>3. run[i + 1] # Zero
        BY <1>0, <2>1, ElementOfSeq, HeaderAssumption
    <2>4. c - i + 1 # 0 /\ run[i + 1] = Canonical[(c - i + 1) - 1]
        BY <1>2, <2>2, <2>3, CanonicalAssumption
    <2>5. (c - i + 1) - 1 = c - (i + 1) + 1 /\ c - (i + 1) + 1 \in Block
        BY <1>0, <1>2, <2>1, <2>4 DEF Block
    <2> QED
        BY <2>1, <2>4, <2>5
<1>3. \A i \in 1 .. Len(run) : i \in Good
    <2> HIDE DEF Good
    <2> QED
        BY <1>0, <1>1, <1>2, InductionAlongInterval
<1> QED
    BY <1>3

(* Such a job was given the true number of its first block, though the     *)
(* program never checks it, and hands over the hash of the block below it. *)
LEMMA JobIsCanonical ==
    ASSUME NEW input \in ChunkInput, ProgramAccepts(input),
           NEW c \in Block, input.blockNPlusOneParentHash = Canonical[c]
    PROVE  /\ input.fromBlockNumberHigh = c
           /\ input.toBlockNumberLow \in 0 .. c
           /\ Parent[Last(input.headers)] =
                IF input.toBlockNumberLow = 0
                THEN Zero ELSE Canonical[input.toBlockNumberLow - 1]
<1> DEFINE run == input.headers
<1>1. /\ Len(run) \in Nat /\ Len(run) \in 1 .. Len(run)
      /\ input.fromBlockNumberHigh \in Nat /\ input.toBlockNumberLow \in Nat
      /\ c \in Nat
    BY BoundAssumption, LenProperties DEF ChunkInput, ProgramAccepts, Block
<1>2. c - Len(run) + 1 \in Block /\ run[Len(run)] = Canonical[c - Len(run) + 1]
    BY <1>1, RunIsCanonical
<1>3. Number[run[Len(run)]] = c - Len(run) + 1
    BY <1>2, CanonicalAssumption
<1>4. input.toBlockNumberLow = c - Len(run) + 1
    BY <1>3 DEF ProgramAccepts, Last
<1>5. Last(run) = Canonical[input.toBlockNumberLow] /\ input.toBlockNumberLow \in Block
    BY <1>2, <1>4 DEF Last
<1>6. input.fromBlockNumberHigh = c
    BY <1>1, <1>4 DEF ProgramAccepts
<1> QED
    BY <1>1, <1>4, <1>5, <1>6, CanonicalAssumption

-----------------------------------------------------------------------------
(* The inductive invariant.                                                *)

(* The leaves of a root are the seed and then headers of blocks up to s. *)
SettledRoot(root, s) ==
    /\ Len(root) >= 1
    /\ root[1] = Seed
    /\ \A i \in 2 .. Len(root) : \E b \in 0 .. s : root[i] = Canonical[b]

(* Every registered fact is of a job that the program accepted. *)
FactsAccepted ==
    \A fact \in facts :
        \E input \in ChunkInput : ProgramAccepts(input) /\ fact = OutputOf(input)

(* The size the contract keeps is that of the MMR it keeps the root of.    *)
SizeMatches == aggregatorState.mmrSize = MmrSize(Len(Leaves))

(* Below the last header the contract goes on, unless that is of block 0.  *)
GoesOnBelow ==
    Len(Leaves) > 1 /\ Parent[Last(Leaves)] # Zero
        => aggregatorState.continuableParentHash = Parent[Last(Leaves)]

(* What is inductive: what the contract trusts is settled, and so are the  *)
(* leaves it holds; its root, size and hash to go on from belong together; *)
(* and SHARP registers only what the program accepted.                     *)
IInv ==
    /\ TypeOK
    /\ FactsAccepted
    /\ SettledRoot(Leaves, stateBlockNumber)
    /\ TrustedHashesAreSettled
    /\ SizeMatches
    /\ GoesOnBelow

(* A job on a settled root that starts at a settled header ends so too. *)
LEMMA JobKeepsSettled ==
    ASSUME NEW input \in ChunkInput, ProgramAccepts(input),
           NEW s \in -1 .. LastBlock,
           SettledRoot(input.mmrLastRootPoseidon, s),
           NEW c \in 0 .. s, input.blockNPlusOneParentHash = Canonical[c]
    PROVE  /\ SettledRoot(OutputOf(input).mmrNewRootPoseidon, s)
           /\ OutputOf(input).toBlockNumberLow \in 0 .. s
           /\ OutputOf(input).blockNMinusRPlusOneParentHash =
                IF OutputOf(input).toBlockNumberLow = 0
                THEN Zero ELSE Canonical[OutputOf(input).toBlockNumberLow - 1]
<1> DEFINE old == input.mmrLastRootPoseidon
           run == input.headers
           new == old \o run
<1>0. /\ LastBlock \in Nat /\ c \in Nat /\ s \in Int /\ c \in Block
    BY BoundAssumption DEF Block
<1>1. /\ old \in Seq(Header \union {Seed})
      /\ run \in Seq(Header \union {Seed})
      /\ Len(old) \in Nat /\ Len(run) \in Nat
    <2>1. run \in Seq(Header)
        BY DEF ChunkInput
    <2> QED
        BY <2>1, SeqMonotonic, LenProperties DEF ChunkInput, Root
<1>2. /\ Len(new) = Len(old) + Len(run)
      /\ \A i \in 1 .. (Len(old) + Len(run)) :
            new[i] = IF i <= Len(old) THEN old[i] ELSE run[i - Len(old)]
    BY <1>1, ConcatProperties
<1>3. \A i \in 1 .. Len(run) :
            c - i + 1 \in Block /\ run[i] = Canonical[c - i + 1]
    BY <1>0, RunIsCanonical
<1>4. SettledRoot(new, s)
    <2>0. SettledRoot(old, s)
        OBVIOUS
    <2> HIDE DEF old, run, new
    <2>1. Len(new) >= 1 /\ new[1] = Seed
        BY <1>1, <1>2, <2>0 DEF SettledRoot
    <2>2. ASSUME NEW i \in 2 .. Len(new)
          PROVE  \E b \in 0 .. s : new[i] = Canonical[b]
        <3>1. CASE i <= Len(old)
            BY <1>1, <1>2, <2>0, <3>1 DEF SettledRoot
        <3>2. CASE i > Len(old)
            <4>1. i - Len(old) \in 1 .. Len(run) /\ new[i] = run[i - Len(old)]
                BY <1>1, <1>2, <3>2
            <4>2. c - (i - Len(old)) + 1 \in 0 .. s
                BY <1>0, <1>1, <1>3, <4>1 DEF Block
            <4> QED
                BY <1>3, <4>1, <4>2
        <3> QED
            BY <1>1, <1>2, <3>1, <3>2
    <2> QED
        BY <2>1, <2>2 DEF SettledRoot
<1>5. /\ input.toBlockNumberLow \in 0 .. c
      /\ Parent[Last(run)] =
            IF input.toBlockNumberLow = 0
            THEN Zero ELSE Canonical[input.toBlockNumberLow - 1]
    BY <1>0, JobIsCanonical
<1> QED
    BY <1>0, <1>4, <1>5 DEF OutputOf

(* The same for a registered fact; and a fact never starts at hash zero. *)
LEMMA FactKeepsSettled ==
    ASSUME FactsAccepted, NEW fact \in facts
    PROVE  /\ fact.blockNPlusOneParentHash # Zero
           /\ \A s \in -1 .. LastBlock, c \in Nat :
                /\ SettledRoot(fact.mmrPreviousRootPoseidon, s)
                /\ c <= s
                /\ fact.blockNPlusOneParentHash = Canonical[c]
                => /\ SettledRoot(fact.mmrNewRootPoseidon, s)
                   /\ fact.toBlockNumberLow \in 0 .. s
                   /\ fact.blockNMinusRPlusOneParentHash =
                        IF fact.toBlockNumberLow = 0
                        THEN Zero ELSE Canonical[fact.toBlockNumberLow - 1]
<1>1. PICK input \in ChunkInput : ProgramAccepts(input) /\ fact = OutputOf(input)
    BY DEF FactsAccepted
<1>2. /\ fact.blockNPlusOneParentHash = input.blockNPlusOneParentHash
      /\ fact.mmrPreviousRootPoseidon = input.mmrLastRootPoseidon
    BY <1>1 DEF OutputOf
<1>3. input.blockNPlusOneParentHash \in Header
    <2>1. input.headers \in Seq(Header) /\ Len(input.headers) > 0
        BY <1>1 DEF ChunkInput, ProgramAccepts
    <2> QED
        BY <1>1, <2>1, LenProperties, ElementOfSeq DEF ProgramAccepts
<1>4. ASSUME NEW s \in -1 .. LastBlock, NEW c \in Nat, c <= s,
             SettledRoot(fact.mmrPreviousRootPoseidon, s),
             fact.blockNPlusOneParentHash = Canonical[c]
      PROVE  /\ SettledRoot(fact.mmrNewRootPoseidon, s)
             /\ fact.toBlockNumberLow \in 0 .. s
             /\ fact.blockNMinusRPlusOneParentHash =
                  IF fact.toBlockNumberLow = 0
                  THEN Zero ELSE Canonical[fact.toBlockNumberLow - 1]
    <2>1. c \in 0 .. s
        BY <1>4
    <2> QED
        BY <1>1, <1>2, <1>4, <2>1, JobKeepsSettled
<1> QED
    BY <1>2, <1>3, <1>4, HeaderAssumption

(* The outputs handed to the contract are a sequence of prepared outputs. *)
LEMMA CalldataType ==
    ASSUME NEW outputs \in Calldata
    PROVE  Len(outputs) \in Nat
<1> DEFINE S == {OutputOf(j) : j \in jobs}
<1>1. PICK m \in 0 .. MaxOutputs : outputs \in [1 .. m -> S]
    BY DEF Calldata, SeqOf
<1>2. m \in Nat
    BY <1>1, BoundAssumption
<1>3. outputs \in Seq(S)
    BY <1>1, <1>2
<1> QED
    BY <1>3, LenProperties

(* What an accepted call establishes of each output and of its successor. *)
LEMMA AcceptedCall ==
    ASSUME NEW sender, NEW outputs \in Calldata, aggregateSharpJobs(sender, outputs)
    PROVE  /\ Len(outputs) \in Nat /\ Len(outputs) >= 1
           /\ outputs[1] \in facts
           /\ \A i \in 1 .. Len(outputs) : outputs[i] \in facts
           /\ \A i \in 1 .. (Len(outputs) - 1) :
                ensureConsecutiveJobs(outputs[i], outputs[i + 1])
<1>1. Len(outputs) \in Nat /\ Len(outputs) >= 1
    BY CalldataType DEF aggregateSharpJobs
<1>2. /\ \A i \in 1 .. (Len(outputs) - 1) : outputs[i] \in facts
      /\ outputs[Len(outputs)] \in facts
    BY DEF aggregateSharpJobs, ensureValidFact
<1>3. \A i \in 1 .. Len(outputs) : outputs[i] \in facts
    BY <1>1, <1>2
<1>4. \A i \in 1 .. (Len(outputs) - 1) :
        ensureConsecutiveJobs(outputs[i], outputs[i + 1])
    BY DEF aggregateSharpJobs
<1> QED
    BY <1>1, <1>3, <1>4

(* A root new extends old by a linked run of headers: it starts at first,  *)
(* and below its last header comes the hash below.                         *)
Extends(old, new, first, below) ==
    /\ Len(old) < Len(new)
    /\ \A i \in 1 .. Len(old) : new[i] = old[i]
    /\ new[Len(old) + 1] = first
    /\ \A i \in (Len(old) + 1) .. (Len(new) - 1) : new[i + 1] = Parent[new[i]]
    /\ Parent[new[Len(new)]] = below

(* A registered fact extends the root it names, and its sizes are those of *)
(* its roots.                                                              *)
LEMMA FactExtends ==
    ASSUME FactsAccepted, NEW fact \in facts
    PROVE  /\ fact.mmrPreviousRootPoseidon \in Root
           /\ fact.mmrNewRootPoseidon \in Root
           /\ Extends(fact.mmrPreviousRootPoseidon, fact.mmrNewRootPoseidon,
                      fact.blockNPlusOneParentHash, fact.blockNMinusRPlusOneParentHash)
           /\ fact.mmrNewSize = MmrSize(Len(fact.mmrNewRootPoseidon))
<1>1. PICK input \in ChunkInput : ProgramAccepts(input) /\ fact = OutputOf(input)
    BY DEF FactsAccepted
<1> DEFINE old == input.mmrLastRootPoseidon
           run == input.headers
           new == old \o run
<1>2. /\ fact.mmrPreviousRootPoseidon = old
      /\ fact.mmrNewRootPoseidon = new
      /\ fact.blockNPlusOneParentHash = run[1]
      /\ fact.blockNMinusRPlusOneParentHash = Parent[Last(run)]
      /\ fact.mmrNewSize = MmrSize(Len(new))
    BY <1>1 DEF OutputOf, ProgramAccepts
<1>3. old \in Root /\ new \in Root
    BY <1>1, RootType DEF ChunkInput
<1>4. /\ old \in Seq(Header \union {Seed})
      /\ run \in Seq(Header \union {Seed})
      /\ Len(old) \in Nat /\ Len(run) \in Nat /\ Len(run) > 0
    <2>1. run \in Seq(Header)
        BY <1>1 DEF ChunkInput
    <2> QED
        BY <1>1, <2>1, SeqMonotonic, LenProperties DEF ChunkInput, Root, ProgramAccepts
<1>5. /\ Len(new) = Len(old) + Len(run)
      /\ \A i \in 1 .. (Len(old) + Len(run)) :
            new[i] = IF i <= Len(old) THEN old[i] ELSE run[i - Len(old)]
    BY <1>4, ConcatProperties
<1>6. /\ \A i \in 1 .. (Len(run) - 1) : run[i + 1] = Parent[run[i]]
      /\ Last(run) = run[Len(run)]
    BY <1>1 DEF ProgramAccepts, Last
<1> HIDE DEF old, run, new
<1>7. \A i \in 1 .. Len(old) : new[i] = old[i]
    BY <1>4, <1>5
<1>8. \A k \in 1 .. Len(run) : new[Len(old) + k] = run[k]
    BY <1>4, <1>5
<1>9. ASSUME NEW i \in (Len(old) + 1) .. (Len(new) - 1)
      PROVE  new[i + 1] = Parent[new[i]]
    <2> DEFINE k == i - Len(old)
    <2>1. k \in 1 .. (Len(run) - 1) /\ k + 1 \in 1 .. Len(run) /\ k \in 1 .. Len(run)
        BY <1>4, <1>5
    <2>2. i = Len(old) + k /\ i + 1 = Len(old) + (k + 1)
        BY <1>4
    <2> HIDE DEF k
    <2> QED
        BY <1>6, <1>8, <2>1, <2>2
<1>10. Extends(old, new, run[1], Parent[Last(run)])
    BY <1>4, <1>5, <1>6, <1>7, <1>8, <1>9 DEF Extends
<1> QED
    BY <1>2, <1>3, <1>10

(* Two extensions, the second from where the first ends, are one. *)
LEMMA ExtendsTransitive ==
    ASSUME NEW a \in Root, NEW b \in Root, NEW c \in Root, NEW f, NEW g, NEW h,
           Extends(a, b, f, g), Extends(b, c, g, h)
    PROVE  Extends(a, c, f, h)
<1>1. Len(a) \in Nat /\ Len(b) \in Nat /\ Len(c) \in Nat /\ Len(a) < Len(b) /\ Len(b) < Len(c)
    BY LenProperties DEF Root, Extends
<1>2. \A i \in 1 .. Len(b) : c[i] = b[i]
    BY DEF Extends
<1>3. \A i \in 1 .. Len(a) : c[i] = a[i]
    BY <1>1, <1>2 DEF Extends
<1>4. c[Len(a) + 1] = f
    BY <1>1, <1>2 DEF Extends
<1>5. ASSUME NEW i \in (Len(a) + 1) .. (Len(c) - 1)
      PROVE  c[i + 1] = Parent[c[i]]
    <2>1. CASE i < Len(b)
        <3>1. i \in 1 .. Len(b) /\ i + 1 \in 1 .. Len(b) /\ i \in (Len(a) + 1) .. (Len(b) - 1)
            BY <1>1, <2>1
        <3>2. b[i + 1] = Parent[b[i]]
            BY <3>1 DEF Extends
        <3> QED
            BY <1>2, <3>1, <3>2
    <2>2. CASE i = Len(b)
        <3>1. c[i] = b[i] /\ c[i + 1] = g /\ Parent[b[i]] = g
            BY <1>1, <1>2, <2>2 DEF Extends
        <3> QED
            BY <3>1
    <2>3. CASE i > Len(b)
        <3>1. i \in (Len(b) + 1) .. (Len(c) - 1)
            BY <1>1, <2>3
        <3> QED
            BY <3>1 DEF Extends
    <2> QED
        BY <1>1, <2>1, <2>2, <2>3
<1>6. Parent[c[Len(c)]] = h
    BY DEF Extends
<1>7. Len(a) < Len(c)
    BY <1>1
<1> QED
    BY <1>3, <1>4, <1>5, <1>6, <1>7, Zenon DEF Extends

(* An accepted call, of any number of jobs, extends the leaves by one run  *)
(* from the hash that its first job starts at.                             *)
LEMMA CallExtends ==
    ASSUME TypeOK, FactsAccepted, NEW sender, NEW outputs \in Calldata,
           aggregateSharpJobs(sender, outputs)
    PROVE  /\ Leaves \in Root /\ Leaves' \in Root
           /\ Extends(Leaves, Leaves', outputs[1].blockNPlusOneParentHash,
                      aggregatorState'.continuableParentHash)
           /\ aggregatorState'.mmrSize = MmrSize(Len(Leaves'))
<1> DEFINE first == outputs[1].blockNPlusOneParentHash
           Good == {i \in 1 .. Len(outputs) :
                      Extends(Leaves, outputs[i].mmrNewRootPoseidon, first,
                              outputs[i].blockNMinusRPlusOneParentHash)}
<1>0. Leaves \in Root
    BY DEF TypeOK, AggregatorState, Leaves
<1>1. 1 \in Good
    <2>1. outputs[1] \in facts /\ 1 \in 1 .. Len(outputs)
        BY AcceptedCall
    <2>2. outputs[1].mmrPreviousRootPoseidon = Leaves
        BY DEF aggregateSharpJobs, ensureContinuable, Leaves
    <2> QED
        BY <2>1, <2>2, FactExtends
<1>2. ASSUME NEW i \in 1 .. (Len(outputs) - 1), i \in Good
      PROVE  i + 1 \in Good
    <2>1. i + 1 \in 1 .. Len(outputs) /\ outputs[i] \in facts /\ outputs[i + 1] \in facts
        BY AcceptedCall
    <2>2. /\ outputs[i].mmrNewRootPoseidon = outputs[i + 1].mmrPreviousRootPoseidon
          /\ outputs[i].blockNMinusRPlusOneParentHash = outputs[i + 1].blockNPlusOneParentHash
        BY AcceptedCall DEF ensureConsecutiveJobs
    <2>3. Extends(Leaves, outputs[i].mmrNewRootPoseidon, first,
                  outputs[i].blockNMinusRPlusOneParentHash)
        BY <1>2
    <2>4. /\ outputs[i].mmrNewRootPoseidon \in Root
          /\ outputs[i + 1].mmrNewRootPoseidon \in Root
          /\ Extends(outputs[i].mmrNewRootPoseidon, outputs[i + 1].mmrNewRootPoseidon,
                     outputs[i].blockNMinusRPlusOneParentHash,
                     outputs[i + 1].blockNMinusRPlusOneParentHash)
        BY <2>1, <2>2, FactExtends
    <2>5. Extends(Leaves, outputs[i + 1].mmrNewRootPoseidon, first,
                  outputs[i + 1].blockNMinusRPlusOneParentHash)
        BY <1>0, <2>3, <2>4, ExtendsTransitive
    <2> QED
        BY <2>1, <2>5
<1>3. Len(outputs) \in Good
    <2>1. \A i \in 1 .. Len(outputs) : i \in Good
        <3> HIDE DEF Good
        <3> QED
            BY <1>1, <1>2, AcceptedCall, InductionAlongInterval
    <2> QED
        BY <2>1, AcceptedCall
<1>4. outputs[Len(outputs)] \in facts
    BY AcceptedCall
<1>5. /\ Leaves' = outputs[Len(outputs)].mmrNewRootPoseidon
      /\ aggregatorState'.mmrSize = outputs[Len(outputs)].mmrNewSize
      /\ aggregatorState'.continuableParentHash
            = outputs[Len(outputs)].blockNMinusRPlusOneParentHash
    BY DEF aggregateSharpJobs, Leaves
<1> QED
    BY <1>0, <1>3, <1>4, <1>5, FactExtends

(* The first job of an accepted call starts at a settled block: the block  *)
(* its number claims, when the hash is cached, or that of the global state. *)
LEMMA FirstJobSettled ==
    ASSUME IInv, NEW sender, NEW outputs \in Calldata,
           aggregateSharpJobs(sender, outputs)
    PROVE  /\ SettledRoot(outputs[1].mmrPreviousRootPoseidon, stateBlockNumber)
           /\ \E c \in 0 .. stateBlockNumber :
                outputs[1].blockNPlusOneParentHash = Canonical[c]
<1> DEFINE cached == parentHashOf(outputs[1].fromBlockNumberHigh + 1)
           first == outputs[1].blockNPlusOneParentHash
<1>1. SettledRoot(outputs[1].mmrPreviousRootPoseidon, stateBlockNumber)
    BY DEF IInv, aggregateSharpJobs, ensureContinuable, Leaves
<1>2. outputs[1] \in facts
    BY AcceptedCall
<1>3. first # Zero
    BY <1>2, FactKeepsSettled DEF IInv
<1>4. first = IF cached = Zero THEN aggregatorState.continuableParentHash ELSE cached
    BY DEF aggregateSharpJobs, ensureContinuable
<1>5. CASE cached = Zero
    BY <1>1, <1>3, <1>4, <1>5 DEF IInv, TrustedHashesAreSettled
<1>6. CASE cached # Zero
    <2> DEFINE b == outputs[1].fromBlockNumberHigh + 1
    <2>1. outputs[1] \in JobOutput
        BY <1>2 DEF IInv, TypeOK
    <2>2. outputs[1].fromBlockNumberHigh \in Nat
        BY <2>1 DEF JobOutput
    <2>3. b \in DOMAIN blockNumberToParentHash
        BY <1>6 DEF parentHashOf
    <2>4. b - 1 \in 0 .. stateBlockNumber /\ cached = Canonical[b - 1]
        BY <1>6, <2>2, <2>3 DEF IInv, TypeOK, TrustedHashesAreSettled, parentHashOf
    <2> QED
        BY <1>1, <1>4, <1>6, <2>4
<1> QED
    BY <1>1, <1>5, <1>6

(* Every job of an accepted call starts on a settled root, at a settled     *)
(* block: the first one does, and each hands both over to the next.        *)
LEMMA LastJobSettled ==
    ASSUME IInv, NEW sender, NEW outputs \in Calldata,
           aggregateSharpJobs(sender, outputs)
    PROVE  LET last == outputs[Len(outputs)]
           IN  /\ SettledRoot(last.mmrNewRootPoseidon, stateBlockNumber)
               /\ last.toBlockNumberLow \in 0 .. stateBlockNumber
               /\ last.blockNMinusRPlusOneParentHash =
                    IF last.toBlockNumberLow = 0
                    THEN Zero ELSE Canonical[last.toBlockNumberLow - 1]
<1> DEFINE Starts(o) ==
               /\ SettledRoot(o.mmrPreviousRootPoseidon, stateBlockNumber)
               /\ \E c \in 0 .. stateBlockNumber : o.blockNPlusOneParentHash = Canonical[c]
           Ends(o) ==
               /\ SettledRoot(o.mmrNewRootPoseidon, stateBlockNumber)
               /\ o.toBlockNumberLow \in 0 .. stateBlockNumber
               /\ o.blockNMinusRPlusOneParentHash =
                    IF o.toBlockNumberLow = 0
                    THEN Zero ELSE Canonical[o.toBlockNumberLow - 1]
           Good == {i \in 1 .. Len(outputs) : Starts(outputs[i])}
<1>0. stateBlockNumber \in -1 .. LastBlock /\ FactsAccepted
    BY DEF IInv, TypeOK
<1>1. ASSUME NEW o \in facts, Starts(o) PROVE Ends(o)
    <2>1. PICK c \in 0 .. stateBlockNumber : o.blockNPlusOneParentHash = Canonical[c]
        BY <1>1
    <2>2. c \in Nat /\ c <= stateBlockNumber
        BY <1>0, <2>1
    <2> QED
        BY <1>0, <1>1, <2>1, <2>2, FactKeepsSettled
<1>2. 1 \in Good
    BY AcceptedCall, FirstJobSettled
<1>3. ASSUME NEW i \in 1 .. (Len(outputs) - 1), i \in Good
      PROVE  i + 1 \in Good
    <2>1. i + 1 \in 1 .. Len(outputs) /\ outputs[i] \in facts
        BY AcceptedCall
    <2>2. Ends(outputs[i])
        BY <1>1, <1>3, <2>1
    <2>3. ensureConsecutiveJobs(outputs[i], outputs[i + 1])
        BY AcceptedCall
    <2>4. outputs[i].toBlockNumberLow - 1 \in 0 .. stateBlockNumber
        BY <1>0, <2>2, <2>3 DEF ensureConsecutiveJobs
    <2>5. Starts(outputs[i + 1])
        BY <2>2, <2>3, <2>4 DEF ensureConsecutiveJobs
    <2> QED
        BY <2>1, <2>5
<1>4. Len(outputs) \in Good
    <2>1. \A i \in 1 .. Len(outputs) : i \in Good
        <3> HIDE DEF Good
        <3> QED
            BY <1>2, <1>3, AcceptedCall, InductionAlongInterval
    <2> QED
        BY <2>1, AcceptedCall
<1> QED
    BY <1>1, <1>4, AcceptedCall

-----------------------------------------------------------------------------
(* Invariance.                                                             *)

(* Intervals of blocks grow with their upper end. *)
LEMMA IntervalsGrow ==
    ASSUME NEW s \in Int, NEW t \in Int, s <= t
    PROVE  0 .. s \subseteq 0 .. t /\ 1 .. (s + 1) \subseteq 1 .. (t + 1)
    OBVIOUS

(* What is settled stays so as Starknet settles more. *)
LEMMA SettledRootGrows ==
    ASSUME NEW root, NEW s \in Int, NEW t \in Int, s <= t, SettledRoot(root, s)
    PROVE  SettledRoot(root, t)
<1> QED
    BY IntervalsGrow DEF SettledRoot

(* A new tree trusts nothing and holds only the seed. *)
LEMMA InitInv == Init => IInv
<1> SUFFICES ASSUME Init PROVE IInv
    OBVIOUS
<1>1. TypeOK
    BY InitType
<1>2. FactsAccepted
    BY DEF Init, FactsAccepted
<1>3. SettledRoot(Leaves, stateBlockNumber)
    BY DEF Init, SettledRoot, Leaves
<1>4. TrustedHashesAreSettled
    BY DEF Init, TrustedHashesAreSettled
<1>5. SizeMatches /\ GoesOnBelow
    BY DEF Init, SizeMatches, GoesOnBelow, Leaves
<1> QED
    BY <1>1, <1>2, <1>3, <1>4, <1>5 DEF IInv

(* Every step keeps the inductive invariant: one case per operation.      *)
LEMMA NextInv == IInv /\ [Next]_vars => IInv'
<1> SUFFICES ASSUME IInv, [Next]_vars PROVE IInv'
    OBVIOUS
<1> USE DEF contractVars, accessVars
<1>0. TypeOK'
    BY NextType DEF IInv
<1>1. ASSUME NEW sender \in Account, registerNewRange(sender)
      PROVE  IInv'
    <2> DEFINE s == stateBlockNumber
    <2>1. s \in 0 .. LastBlock /\ s' = s /\ stateBlockHash = Canonical[s]
        BY <1>1, BoundAssumption DEF IInv, TypeOK, registerNewRange, stateBlockHash
    <2>2. FactsAccepted' /\ SettledRoot(Leaves, s)'
        BY <1>1 DEF IInv, FactsAccepted, registerNewRange, Leaves, SettledRoot, TypeOK,
                    AggregatorState
    <2>3. \A b \in DOMAIN blockNumberToParentHash' :
            blockNumberToParentHash'[b] # Zero =>
                b \in 1 .. (s + 1) /\ blockNumberToParentHash'[b] = Canonical[b - 1]
        BY <1>1, <2>1 DEF IInv, TypeOK, TrustedHashesAreSettled, registerNewRange, cacheParentHash
    <2>4. aggregatorState'.continuableParentHash # Zero =>
            \E b \in 0 .. s : aggregatorState'.continuableParentHash = Canonical[b]
        BY <1>1, <2>1 DEF IInv, TypeOK, AggregatorState, TrustedHashesAreSettled,
                          registerNewRange
    <2>5. SizeMatches' /\ GoesOnBelow'
        BY <1>1 DEF IInv, TypeOK, AggregatorState, registerNewRange, SizeMatches,
                    GoesOnBelow, Leaves
    <2> QED
        BY <1>0, <2>1, <2>2, <2>3, <2>4, <2>5 DEF IInv, TrustedHashesAreSettled
<1>2. ASSUME NEW sender \in Account, NEW outputs \in Calldata,
             aggregateSharpJobs(sender, outputs)
      PROVE  IInv'
    <2> DEFINE s == stateBlockNumber
               last == outputs[Len(outputs)]
    <2>0. s \in -1 .. LastBlock /\ s' = s /\ LastBlock \in Nat
        BY <1>2, BoundAssumption DEF IInv, TypeOK, aggregateSharpJobs, cacheParentHash
    <2>1. /\ SettledRoot(last.mmrNewRootPoseidon, s)
          /\ last.toBlockNumberLow \in 0 .. s
          /\ last.blockNMinusRPlusOneParentHash =
                IF last.toBlockNumberLow = 0
                THEN Zero ELSE Canonical[last.toBlockNumberLow - 1]
        BY <1>2, LastJobSettled
    <2> HIDE DEF last
    <2>2. /\ aggregatorState' =
               [ poseidonMmrRoot       |-> last.mmrNewRootPoseidon,
                 mmrSize               |-> last.mmrNewSize,
                 continuableParentHash |-> last.blockNMinusRPlusOneParentHash ]
          /\ blockNumberToParentHash' =
               [blockNumberToParentHash EXCEPT ![last.toBlockNumberLow] =
                   last.blockNMinusRPlusOneParentHash]
        BY <1>2 DEF aggregateSharpJobs, cacheParentHash, last
    <2>3. FactsAccepted'
        BY <1>2 DEF IInv, FactsAccepted, aggregateSharpJobs
    <2>4. SettledRoot(Leaves, s)'
        BY <2>0, <2>1, <2>2 DEF Leaves, SettledRoot
    <2>5. \A b \in DOMAIN blockNumberToParentHash' :
            blockNumberToParentHash'[b] # Zero =>
                b \in 1 .. (s + 1) /\ blockNumberToParentHash'[b] = Canonical[b - 1]
        BY <2>0, <2>1, <2>2 DEF IInv, TypeOK, TrustedHashesAreSettled
    <2>6. aggregatorState'.continuableParentHash # Zero =>
            \E b \in 0 .. s : aggregatorState'.continuableParentHash = Canonical[b]
        <3>1. CASE last.toBlockNumberLow = 0
            BY <2>1, <2>2, <3>1
        <3>2. CASE last.toBlockNumberLow # 0
            <4>1. last.toBlockNumberLow - 1 \in 0 .. s
                BY <2>0, <2>1, <3>2
            <4> QED
                BY <2>1, <2>2, <3>2, <4>1
        <3> QED
            BY <3>1, <3>2
    <2>7. SizeMatches' /\ GoesOnBelow'
        BY <1>2, CallExtends DEF IInv, SizeMatches, GoesOnBelow, Extends, Last
    <2> QED
        BY <1>0, <2>0, <2>3, <2>4, <2>5, <2>6, <2>7 DEF IInv, TrustedHashesAreSettled
<1>3. ASSUME UNCHANGED <<contractVars, stateBlockNumber, facts>>
      PROVE  IInv'
    BY <1>0, <1>3 DEF IInv, FactsAccepted, Leaves, SettledRoot, TrustedHashesAreSettled,
                      SizeMatches, GoesOnBelow
<1>4. ASSUME NEW b \in Block, Settle(b)
      PROVE  IInv'
    <2>1. /\ stateBlockNumber \in Int /\ stateBlockNumber' \in Int
          /\ stateBlockNumber <= stateBlockNumber'
        BY <1>4, BoundAssumption DEF IInv, TypeOK, Settle, Block
    <2>2. FactsAccepted'
        BY <1>4 DEF IInv, FactsAccepted, Settle
    <2>3. SettledRoot(Leaves, stateBlockNumber)'
        BY <1>4, <2>1, SettledRootGrows DEF IInv, Settle, Leaves
    <2>4. TrustedHashesAreSettled'
        <3>1. /\ 0 .. stateBlockNumber \subseteq 0 .. stateBlockNumber'
              /\ 1 .. (stateBlockNumber + 1) \subseteq 1 .. (stateBlockNumber' + 1)
            BY <2>1, IntervalsGrow
        <3>2. /\ blockNumberToParentHash' = blockNumberToParentHash
              /\ aggregatorState' = aggregatorState
            BY <1>4 DEF Settle
        <3>3. TrustedHashesAreSettled
            BY DEF IInv
        <3> QED
            BY <3>1, <3>2, <3>3, Zenon DEF TrustedHashesAreSettled
    <2>5. SizeMatches' /\ GoesOnBelow'
        BY <1>4 DEF IInv, Settle, SizeMatches, GoesOnBelow, Leaves
    <2> QED
        BY <1>0, <2>2, <2>3, <2>4, <2>5 DEF IInv
<1>5. ASSUME NEW input \in jobs, RegisterFact(input)
      PROVE  IInv'
    <2>1. FactsAccepted'
        BY <1>5 DEF IInv, TypeOK, FactsAccepted, RegisterFact
    <2> QED
        BY <1>0, <1>5, <2>1
           DEF IInv, RegisterFact, Leaves, SettledRoot, TrustedHashesAreSettled,
               SizeMatches, GoesOnBelow
<1> QED
    BY <1>1, <1>2, <1>3, <1>4, <1>5
       DEF Next, Contract, RoleManagement, Environment, vars, setOperatorRequired,
           grantRole, revokeRole, renounceRole, PrepareJob

(* It does not depend on which jobs were prepared. *)
LEMMA JobsDoNotMatter ==
    IInv /\ jobs' \subseteq ChunkInput
         /\ UNCHANGED <<contractVars, accessVars, stateBlockNumber, facts>>
    => IInv'
    BY DEF IInv, TypeOK, FactsAccepted, Leaves, SettledRoot, TrustedHashesAreSettled,
           SizeMatches, GoesOnBelow, contractVars, accessVars

(* What the contract trusts and holds is settled, and every registered     *)
(* fact is of an accepted job, in every reachable state.                   *)
THEOREM InvariantHolds == Spec => []IInv
<1> QED
    BY InitInv, NextInv, PTL DEF Spec

(* The invariant contains the two properties that the runs check.          *)
LEMMA InvImplies == IInv => OnlySettledHeaders /\ TrustedHashesAreSettled
    BY DEF IInv, SettledRoot, OnlySettledHeaders

(* The MMR holds only headers settled by Starknet, for every chain, every  *)
(* set of fork headers and any number of jobs in a call.                   *)
THEOREM OnlySettledHeadersHolds == Spec => []OnlySettledHeaders
<1> QED
    BY InvariantHolds, InvImplies, PTL

(* Every parent hash the contract will start from is that of a settled     *)
(* block, cached under the number of the block above it.                   *)
THEOREM TrustedHashesHold == Spec => []TrustedHashesAreSettled
<1> QED
    BY InvariantHolds, InvImplies, PTL

-----------------------------------------------------------------------------
(* How the tree grows.                                                     *)

(* Only an accepted call of aggregateSharpJobs changes the leaves. *)
LEMMA OnlyAggregationGrows ==
    ASSUME TypeOK, [Next]_vars, Leaves' # Leaves
    PROVE  \E sender \in Account, outputs \in Calldata :
               aggregateSharpJobs(sender, outputs)
<1> USE DEF Leaves, contractVars
<1>1. ASSUME NEW sender, registerNewRange(sender) PROVE Leaves' = Leaves
    BY <1>1 DEF registerNewRange, TypeOK, AggregatorState
<1> QED
    BY <1>1 DEF Next, Contract, RoleManagement, Environment, vars, setOperatorRequired,
                grantRole, revokeRole, renounceRole, Settle, PrepareJob, RegisterFact

(* Aggregation can go on in every reachable state: the honest job for any  *)
(* number of blocks from a trusted hash down passes ensureContinuable.     *)
THEOREM CanContinueHolds == Spec => []CanContinue
<1>1. IInv => CanContinue
    <2> SUFFICES ASSUME IInv, NEW from \in Block, NEW to \in 0 .. from,
                        \/ blockNumberToParentHash[from + 1] # Zero
                        \/ aggregatorState.continuableParentHash = Canonical[from]
                 PROVE  ensureContinuable(parentHashOf(from + 1),
                                          OutputOf(HonestInput(from, to)))
        BY DEF CanContinue
    <2>1. DOMAIN blockNumberToParentHash = 0 .. (LastBlock + 1)
        BY DEF IInv, TypeOK
    <2>2. from + 1 \in DOMAIN blockNumberToParentHash /\ from = (from + 1) - 1
        BY <2>1, BoundAssumption DEF Block
    <2>3. parentHashOf(from + 1) = blockNumberToParentHash[from + 1]
        BY <2>2 DEF parentHashOf
    <2>4. parentHashOf(from + 1) # Zero => parentHashOf(from + 1) = Canonical[from]
        BY <2>2, <2>3 DEF IInv, TrustedHashesAreSettled
    <2> QED
        BY <2>3, <2>4 DEF IInv, SizeMatches, ensureContinuable, OutputOf, HonestInput, Leaves
<1> QED
    BY <1>1, InvariantHolds, PTL

-----------------------------------------------------------------------------
(* Holes.                                                                  *)

(* The hole below leaf i is in reach.                                      *)
InReach(i) ==
    LET parent == Parent[Leaves[i]]
    IN  \/ parent = Zero
        \/ \E k \in 2 .. Len(Leaves) : Leaves[k] = parent
        \/ \E b \in DOMAIN blockNumberToParentHash : blockNumberToParentHash[b] = parent

(* NoLostGap for the leaves above the first n only.                        *)
NoLostGapAbove(n) == \A i \in (n + 1) .. Len(Leaves) : InReach(i)

(* The step leaves the entry of b in the cache as it is. *)
Remembered(b) ==
    /\ b \in DOMAIN blockNumberToParentHash'
    /\ blockNumberToParentHash'[b] = blockNumberToParentHash[b]

(* The cache never forgets: a hash it holds is only overwritten by itself. *)
LEMMA CacheRemembers ==
    ASSUME IInv, [Next]_vars, NEW b \in DOMAIN blockNumberToParentHash,
           blockNumberToParentHash[b] # Zero
    PROVE  Remembered(b)
<1>1. /\ blockNumberToParentHash[b] = Canonical[b - 1]
      /\ b \in 1 .. (stateBlockNumber + 1)
    BY DEF IInv, TrustedHashesAreSettled
<1>2. /\ blockNumberToParentHash \in [0 .. (LastBlock + 1) -> Hash]
      /\ stateBlockNumber \in -1 .. LastBlock
    BY DEF IInv, TypeOK
<1>3. ASSUME NEW sender, registerNewRange(sender)
      PROVE  Remembered(b)
    BY <1>1, <1>2, <1>3 DEF registerNewRange, cacheParentHash, stateBlockHash, Remembered
<1>4. ASSUME NEW sender, NEW outputs \in Calldata, aggregateSharpJobs(sender, outputs)
      PROVE  Remembered(b)
    <2> DEFINE last == outputs[Len(outputs)]
    <2>1. last.blockNMinusRPlusOneParentHash =
                    IF last.toBlockNumberLow = 0
                    THEN Zero ELSE Canonical[last.toBlockNumberLow - 1]
        BY <1>4, LastJobSettled
    <2>2. blockNumberToParentHash' =
               [blockNumberToParentHash EXCEPT ![last.toBlockNumberLow] =
                   last.blockNMinusRPlusOneParentHash]
        BY <1>4 DEF aggregateSharpJobs, cacheParentHash
    <2> HIDE DEF last
    <2> QED
        BY <1>1, <1>2, <2>1, <2>2 DEF Remembered
<1>5. UNCHANGED blockNumberToParentHash => Remembered(b)
    BY DEF Remembered
<1> QED
    BY <1>3, <1>4, <1>5
       DEF Next, Contract, RoleManagement, Environment, vars, contractVars, setOperatorRequired,
           grantRole, revokeRole, renounceRole, Settle, PrepareJob, RegisterFact

(* A hash once cached stays cached for its block, for good: no call of the *)
(* contract overwrites it with another, or clears it.                      *)
THEOREM CacheNeverForgets ==
    Spec => [][ \A b \in DOMAIN blockNumberToParentHash :
                    blockNumberToParentHash[b] # Zero => Remembered(b) ]_vars
<1>1. IInv /\ [Next]_vars =>
        [ \A b \in DOMAIN blockNumberToParentHash :
            blockNumberToParentHash[b] # Zero => Remembered(b) ]_vars
    BY CacheRemembers
<1> QED
    BY <1>1, InvariantHolds, PTL DEF Spec

(* A step loses no hole in reach, and leaves every hole of the leaves it   *)
(* appends in reach: that below a leaf is the next one, that below the     *)
(* last one is cached.                                                     *)
LEMMA KeepsGapsInReach ==
    ASSUME IInv, [Next]_vars, NEW n \in Nat, n >= 1, n <= Len(Leaves), NoLostGapAbove(n)
    PROVE  n <= Len(Leaves') /\ NoLostGapAbove(n)'
<1>1. CASE Leaves' = Leaves
    <2>1. \A b \in DOMAIN blockNumberToParentHash :
            blockNumberToParentHash[b] # Zero => Remembered(b)
        BY CacheRemembers
    <2>2. ASSUME NEW i \in (n + 1) .. Len(Leaves')
          PROVE  InReach(i)'
        <3>1. InReach(i) /\ Leaves'[i] = Leaves[i]
            BY <1>1 DEF NoLostGapAbove
        <3> QED
            BY <1>1, <2>1, <3>1, Zenon DEF InReach, Remembered
    <2> QED
        BY <1>1, <2>2 DEF NoLostGapAbove
<1>2. CASE Leaves' # Leaves
    <2>1. PICK sender \in Account, outputs \in Calldata :
                aggregateSharpJobs(sender, outputs)
        BY <1>2, OnlyAggregationGrows DEF IInv
    <2> DEFINE last == outputs[Len(outputs)]
    <2>2. /\ Leaves \in Root /\ Leaves' \in Root
          /\ Extends(Leaves, Leaves', outputs[1].blockNPlusOneParentHash,
                     aggregatorState'.continuableParentHash)
        BY <2>1, CallExtends DEF IInv
    <2>3. /\ Len(Leaves) \in Nat /\ Len(Leaves') \in Nat /\ Len(Leaves) < Len(Leaves')
          /\ \A i \in 1 .. Len(Leaves) : Leaves'[i] = Leaves[i]
          /\ \A i \in (Len(Leaves) + 1) .. (Len(Leaves') - 1) :
                Leaves'[i + 1] = Parent[Leaves'[i]]
          /\ Parent[Leaves'[Len(Leaves')]] = aggregatorState'.continuableParentHash
        BY <2>2, LenProperties DEF Extends, Root
    <2>4. last.toBlockNumberLow \in DOMAIN blockNumberToParentHash
        <3>1. last.toBlockNumberLow \in 0 .. stateBlockNumber
            BY <2>1, LastJobSettled
        <3> QED
            BY <3>1, BoundAssumption DEF IInv, TypeOK
    <2>5. /\ last.toBlockNumberLow \in DOMAIN blockNumberToParentHash'
          /\ blockNumberToParentHash'[last.toBlockNumberLow]
                = aggregatorState'.continuableParentHash
        BY <2>1, <2>4 DEF aggregateSharpJobs, cacheParentHash, IInv, TypeOK
    <2>6. ASSUME NEW i \in (n + 1) .. Len(Leaves')
          PROVE  InReach(i)'
        <3>1. CASE i <= Len(Leaves)
            <4>1. Leaves'[i] = Leaves[i] /\ InReach(i)
                BY <2>3, <3>1 DEF NoLostGapAbove
            <4>2. \A k \in 2 .. Len(Leaves) : k \in 2 .. Len(Leaves') /\ Leaves'[k] = Leaves[k]
                BY <2>3
            <4>3. \A b \in DOMAIN blockNumberToParentHash :
                    blockNumberToParentHash[b] # Zero => Remembered(b)
                BY CacheRemembers
            <4> QED
                BY <4>1, <4>2, <4>3, Zenon DEF InReach, Remembered
        <3>2. CASE i > Len(Leaves) /\ i < Len(Leaves')
            <4>1. /\ i + 1 \in 2 .. Len(Leaves')
                  /\ i \in (Len(Leaves) + 1) .. (Len(Leaves') - 1)
                BY <2>3, <3>2
            <4> QED
                BY <2>3, <4>1 DEF InReach
        <3>3. CASE i = Len(Leaves')
            BY <2>3, <2>5, <3>3 DEF InReach
        <3> QED
            BY <2>3, <3>1, <3>2, <3>3
    <2> QED
        BY <2>3, <2>6 DEF NoLostGapAbove
<1> QED
    BY <1>1, <1>2

(* In every reachable state, for every history of registrations and calls, *)
(* no hole of the tree is out of reach.                                    *)
THEOREM NoLostGapHolds == Spec => []NoLostGap
<1> DEFINE Gaps == 1 <= Len(Leaves) /\ NoLostGapAbove(1)
<1>1. Init => Gaps
    BY DEF Init, Leaves, NoLostGapAbove
<1>2. IInv /\ Gaps /\ [Next]_vars => Gaps'
    BY KeepsGapsInReach
<1>3. Gaps => NoLostGap
    BY DEF NoLostGapAbove, InReach, NoLostGap
<1> QED
    BY <1>1, <1>2, <1>3, InvariantHolds, PTL DEF Spec

-----------------------------------------------------------------------------
(* The contract implements the accumulator.                                *)

Opened == {b \in Block : blockNumberToParentHash[b + 1] # Zero}
Appended == [i \in 1 .. (Len(Leaves) - 1) |-> Number[Leaves[i + 1]]]

(* The hash of the global state is that of an open block: what it is set   *)
(* to is cached as well.  A detached aggregator inherits one that is not.  *)
ContinuesFromOpen ==
    aggregatorState.continuableParentHash # Zero =>
        \E b \in Opened : aggregatorState.continuableParentHash = Canonical[b]

(* Two numbers of one canonical header are the same, and no header is Zero. *)
LEMMA CanonicalIsInjective ==
    ASSUME NEW a \in Block, NEW b \in Block, Canonical[a] = Canonical[b]
    PROVE  a = b /\ Canonical[a] # Zero
    BY CanonicalAssumption, HeaderAssumption

(* The concatenation of two sequences that are given as tables.            *)
LEMMA ConcatOfTables ==
    ASSUME NEW k \in Nat, NEW n \in Nat, NEW a, NEW b,
           a = [i \in 1 .. k |-> a[i]], b = [i \in 1 .. n |-> b[i]]
    PROVE  /\ Len(a) = k /\ Len(b) = n
           /\ a \o b = [i \in 1 .. (k + n) |-> IF i <= k THEN a[i] ELSE b[i - k]]
<1> DEFINE S == {a[i] : i \in 1 .. k} \union {b[i] : i \in 1 .. n}
<1>1. a \in [1 .. k -> S] /\ b \in [1 .. n -> S]
    OBVIOUS
<1> HIDE DEF S
<1>2. a \in Seq(S) /\ b \in Seq(S) /\ Len(a) = k /\ Len(b) = n
    BY <1>1
<1>3. /\ a \o b \in Seq(S) /\ Len(a \o b) = k + n
      /\ \A i \in 1 .. (k + n) : (a \o b)[i] = IF i <= k THEN a[i] ELSE b[i - k]
    <2>1. /\ a \o b \in Seq(S) /\ Len(a \o b) = Len(a) + Len(b)
          /\ \A i \in 1 .. (Len(a) + Len(b)) :
                (a \o b)[i] = IF i <= Len(a) THEN a[i] ELSE b[i - Len(a)]
        BY <1>2, ConcatProperties, ZenonT(30)
    <2> QED
        BY <1>2, <2>1, Zenon
<1>4. a \o b = [i \in 1 .. (k + n) |-> (a \o b)[i]]
    <2>1. DOMAIN (a \o b) = 1 .. (k + n)
        BY <1>3
    <2> QED
        BY <1>3, <2>1
<1>5. a \o b = [i \in 1 .. (k + n) |-> IF i <= k THEN a[i] ELSE b[i - k]]
    BY <1>3, <1>4, Zenon
<1> QED
    BY <1>2, <1>5

(* What is open is settled, and its hash is cached for the block above.    *)
LEMMA OpenIsSettled ==
    ASSUME IInv, NEW b \in Opened
    PROVE  /\ b \in Block /\ b \in 0 .. stateBlockNumber
           /\ b + 1 \in DOMAIN blockNumberToParentHash
           /\ parentHashOf(b + 1) = Canonical[b] /\ blockNumberToParentHash[b + 1] = Canonical[b]
<1>1. b \in Block /\ LastBlock \in Nat /\ b \in Int /\ blockNumberToParentHash[b + 1] # Zero
    BY BoundAssumption DEF Opened, Block
<1>2. b + 1 \in DOMAIN blockNumberToParentHash /\ stateBlockNumber \in Int
    BY <1>1 DEF IInv, TypeOK, Block
<1>3. b + 1 \in 1 .. (stateBlockNumber + 1) /\ blockNumberToParentHash[b + 1] = Canonical[(b + 1) - 1]
    BY <1>1, <1>2 DEF IInv, TrustedHashesAreSettled
<1>4. b \in 0 .. stateBlockNumber /\ (b + 1) - 1 = b
    BY <1>1, <1>2, <1>3
<1> QED
    BY <1>1, <1>2, <1>3, <1>4 DEF parentHashOf

(* The first job of an accepted call starts at an open block.              *)
LEMMA FirstJobIsOpen ==
    ASSUME IInv, ContinuesFromOpen, NEW sender, NEW outputs \in Calldata,
           aggregateSharpJobs(sender, outputs)
    PROVE  \E c \in Opened : outputs[1].blockNPlusOneParentHash = Canonical[c]
<1> DEFINE b      == outputs[1].fromBlockNumberHigh + 1
           cached == parentHashOf(b)
           first  == outputs[1].blockNPlusOneParentHash
<1>1. outputs[1] \in facts
    BY AcceptedCall
<1>2. first # Zero
    BY <1>1, FactKeepsSettled DEF IInv
<1>3. first = IF cached = Zero THEN aggregatorState.continuableParentHash ELSE cached
    BY DEF aggregateSharpJobs, ensureContinuable
<1>4. CASE cached = Zero
    BY <1>2, <1>3, <1>4 DEF ContinuesFromOpen
<1>5. CASE cached # Zero
    <2>1. b - 1 = outputs[1].fromBlockNumberHigh /\ outputs[1].fromBlockNumberHigh \in Nat
        BY <1>1 DEF IInv, TypeOK, JobOutput
    <2>2. b \in DOMAIN blockNumberToParentHash /\ cached = blockNumberToParentHash[b]
        BY <1>5 DEF parentHashOf
    <2>3. b - 1 \in 0 .. stateBlockNumber /\ cached = Canonical[b - 1]
        BY <1>5, <2>1, <2>2 DEF IInv, TypeOK, TrustedHashesAreSettled
    <2>4. b - 1 \in Block /\ (b - 1) + 1 = b
        BY <2>1, <2>3, BoundAssumption DEF IInv, TypeOK, Block
    <2>5. b - 1 \in Opened
        BY <1>5, <2>2, <2>4 DEF Opened
    <2> QED
        BY <1>3, <1>5, <2>3, <2>5
<1> QED
    BY <1>4, <1>5

(* The leaves that a call appends are the canonical headers from the open  *)
(* block it starts at down, one by one.                                    *)
LEMMA LeavesGoDown ==
    ASSUME IInv, IInv', Leaves \in Root, Leaves' \in Root,
           NEW c \in Block, NEW below, Extends(Leaves, Leaves', Canonical[c], below)
    PROVE  /\ Len(Leaves) \in Nat \ {0} /\ Len(Leaves') - Len(Leaves) \in 1 .. (c + 1)
           /\ \A i \in 1 .. (Len(Leaves') - Len(Leaves)) :
                Leaves'[Len(Leaves) + i] = Canonical[c - i + 1]
<1> DEFINE old == Len(Leaves)
           n == Len(Leaves') - Len(Leaves)
           Good == {i \in 1 .. n : c - i + 1 \in Block /\ Leaves'[old + i] = Canonical[c - i + 1]}
<1>0. /\ old \in Nat \ {0} /\ n \in Nat \ {0} /\ old + n = Len(Leaves')
      /\ c \in Nat /\ LastBlock \in Nat /\ c <= LastBlock
    BY LenProperties, BoundAssumption DEF Root, Extends, IInv, SettledRoot, Block
<1>1. 1 \in Good
    BY <1>0 DEF Extends
<1>2. ASSUME NEW i \in 1 .. (n - 1), i \in Good
      PROVE  i + 1 \in Good
    <2>1. /\ old + i \in (old + 1) .. (Len(Leaves') - 1) /\ (old + i) + 1 = old + (i + 1)
          /\ old + (i + 1) \in 2 .. Len(Leaves') /\ i + 1 \in 1 .. n
        BY <1>0
    <2>2. Leaves'[old + (i + 1)] = Parent[Canonical[c - i + 1]]
        BY <1>2, <2>1 DEF Extends
    <2>3. Leaves'[old + (i + 1)] # Zero
        <3>1. PICK b \in 0 .. stateBlockNumber' : Leaves'[old + (i + 1)] = Canonical[b]
            BY <2>1 DEF IInv, SettledRoot
        <3>2. b \in Block
            BY <3>1, BoundAssumption DEF IInv, TypeOK, Block
        <3> QED
            BY <3>1, <3>2, CanonicalIsInjective
    <2>4. c - i + 1 # 0 /\ Leaves'[old + (i + 1)] = Canonical[(c - i + 1) - 1]
        BY <1>2, <2>2, <2>3, CanonicalAssumption
    <2>5. (c - i + 1) - 1 = c - (i + 1) + 1 /\ c - (i + 1) + 1 \in Block
        BY <1>0, <1>2, <2>1, <2>4 DEF Block
    <2> QED
        BY <2>1, <2>4, <2>5
<1>3. \A i \in 1 .. n : i \in Good
    <2> HIDE DEF Good
    <2> QED
        BY <1>0, <1>1, <1>2, InductionAlongInterval
<1>4. n <= c + 1
    <2>1. n \in 1 .. n
        BY <1>0
    <2>2. n \in Good
        <3> HIDE DEF n, Good
        <3> QED
            BY <1>3, <2>1
    <2> QED
        BY <1>0, <2>2 DEF Block
<1> QED
    BY <1>0, <1>3, <1>4

(* An accepted call is one run of the accumulator, however many jobs it    *)
(* has, and leaves the block below the run open.                           *)
LEMMA CallIsOneRun ==
    ASSUME IInv, IInv', ContinuesFromOpen, NEW sender, NEW outputs \in Calldata,
           aggregateSharpJobs(sender, outputs)
    PROVE  Log!AppendRun /\ ContinuesFromOpen'
<1> DEFINE last == outputs[Len(outputs)]
           below == aggregatorState'.continuableParentHash
           n == Len(Leaves') - Len(Leaves)
<1>1. PICK c \in Opened : outputs[1].blockNPlusOneParentHash = Canonical[c]
    BY FirstJobIsOpen
<1>2. c \in Block /\ c \in Nat /\ LastBlock \in Nat
    BY OpenIsSettled, BoundAssumption DEF Block
<1> DEFINE to == c - n + 1
<1>3. /\ Leaves \in Root /\ Leaves' \in Root
      /\ Extends(Leaves, Leaves', Canonical[c], below)
    BY <1>1, CallExtends DEF IInv
<1>4. /\ Len(Leaves) \in Nat \ {0} /\ n \in 1 .. (c + 1)
      /\ \A i \in 1 .. n : Leaves'[Len(Leaves) + i] = Canonical[c - i + 1]
    BY <1>2, <1>3, LeavesGoDown
<1>5. to \in 0 .. c /\ to \in Block /\ c - to + 1 = n /\ Len(Leaves') \in Nat
      /\ Len(Leaves') = Len(Leaves) + n
    BY <1>2, <1>3, <1>4, LenProperties DEF Block, Root
<1>6. below = IF to = 0 THEN Zero ELSE Canonical[to - 1]
    <2>1. Leaves'[Len(Leaves')] = Canonical[to]
        BY <1>4, <1>5
    <2> QED
        BY <1>3, <1>5, <2>1, CanonicalAssumption DEF Extends
<1>7. /\ last.toBlockNumberLow \in 0 .. stateBlockNumber
      /\ below = IF last.toBlockNumberLow = 0 THEN Zero ELSE Canonical[last.toBlockNumberLow - 1]
      /\ blockNumberToParentHash' = [blockNumberToParentHash EXCEPT ![last.toBlockNumberLow] = below]
    BY LastJobSettled DEF aggregateSharpJobs, cacheParentHash
<1>8. last.toBlockNumberLow = to
    <2>1. last.toBlockNumberLow \in Nat /\ last.toBlockNumberLow <= LastBlock
        BY <1>7, <1>2 DEF IInv, TypeOK
    <2> DEFINE l == last.toBlockNumberLow
    <2> HIDE DEF last, to
    <2>2. l # 0 => l - 1 \in Block /\ Canonical[l - 1] # Zero
        BY <1>2, <2>1, CanonicalIsInjective DEF Block
    <2>3. to # 0 => to - 1 \in Block /\ Canonical[to - 1] # Zero
        BY <1>2, <1>5, CanonicalIsInjective DEF Block
    <2>4. CASE to = 0 \/ l = 0
        BY <1>6, <1>7, <2>2, <2>3, <2>4
    <2>5. CASE to # 0 /\ l # 0
        <3>1. l - 1 = to - 1
            BY <1>6, <1>7, <2>2, <2>3, <2>5, CanonicalIsInjective
        <3> QED
            BY <1>5, <2>1, <3>1
    <2> QED
        BY <2>4, <2>5
<1>9. Opened' = IF to = 0 THEN Opened ELSE Opened \union {to - 1}
    <2>1. /\ blockNumberToParentHash \in [0 .. (LastBlock + 1) -> Hash]
          /\ blockNumberToParentHash' = [blockNumberToParentHash EXCEPT ![to] = below]
        BY <1>7, <1>8 DEF IInv, TypeOK
    <2>2. \A b \in Block : /\ b + 1 \in 0 .. (LastBlock + 1)
                           /\ blockNumberToParentHash'[b + 1] =
                                IF b + 1 = to THEN below ELSE blockNumberToParentHash[b + 1]
        BY <1>2, <2>1 DEF Block
    <2>3. CASE to = 0
        BY <1>2, <2>2, <2>3 DEF Opened, Block
    <2>4. CASE to # 0
        <3>1. to - 1 \in Block /\ below # Zero /\ (to - 1) + 1 = to
            BY <1>2, <1>5, <1>6, <2>4, CanonicalIsInjective DEF Block
        <3>2. \A b \in Block : b + 1 = to <=> b = to - 1
            BY <1>5, BoundAssumption DEF Block
        <3> HIDE DEF to, below
        <3> QED
            BY <2>2, <2>4, <3>1, <3>2 DEF Opened
    <2> QED
        BY <2>3, <2>4
<1>10. Appended' = Appended \o Log!Down(c, to)
    <2> DEFINE k == Len(Leaves) - 1
               down == Log!Down(c, to)
    <2>1. /\ k \in Nat /\ Len(Leaves') - 1 = k + n
          /\ Appended = [i \in 1 .. k |-> Number[Leaves[i + 1]]]
          /\ Appended' = [i \in 1 .. (k + n) |-> Number[Leaves'[i + 1]]]
          /\ down = [i \in 1 .. n |-> c - i + 1]
        BY <1>4, <1>5 DEF Appended, Log!Down
    <2>2. \A i \in 1 .. k : Leaves'[i + 1] = Leaves[i + 1]
        BY <1>3, <1>4 DEF Extends
    <2>3. ASSUME NEW i \in 1 .. n
          PROVE  Number[Leaves'[(k + i) + 1]] = c - i + 1
        <3>1. (k + i) + 1 = Len(Leaves) + i /\ c - i + 1 \in Block
            BY <1>2, <1>4 DEF Block
        <3> QED
            BY <1>4, <3>1, CanonicalAssumption
    <2>0. n \in Nat
        BY <1>2, <1>4
    <2> HIDE DEF k, n, down, to
    <2>4. /\ Len(Appended) = k /\ Len(down) = n /\ n \in Nat
          /\ Appended \o down = [i \in 1 .. (k + n) |->
                IF i <= k THEN Appended[i] ELSE down[i - k]]
        <3>1. n \in Nat /\ Len(Appended) = k /\ Len(down) = n
            BY <2>0, <2>1
        <3> QED
            BY <2>0, <2>1, <3>1, ConcatOfTables
    <2>5. ASSUME NEW i \in 1 .. (k + n)
          PROVE  Appended'[i] = IF i <= k THEN Appended[i] ELSE down[i - k]
        <3>1. CASE i <= k
            BY <2>1, <2>2, <3>1
        <3>2. CASE ~(i <= k)
            <4>1. i - k \in 1 .. n /\ i = k + (i - k)
                BY <2>1, <2>4, <3>2
            <4>2. Number[Leaves'[i + 1]] = c - (i - k) + 1
                BY <2>3, <4>1
            <4> QED
                BY <2>1, <3>2, <4>1, <4>2
        <3> QED
            BY <3>1, <3>2
    <2>6. Appended' = Appended \o down
        <3>1. Appended' = [i \in 1 .. (k + n) |-> Appended'[i]]
            BY <2>1
        <3>2. Appended' = [i \in 1 .. (k + n) |-> IF i <= k THEN Appended[i] ELSE down[i - k]]
            BY <2>5, <3>1, Zenon
        <3> QED
            BY <2>4, <3>2
    <2> QED
        BY <2>6 DEF down
<1>11. Log!AppendRun
    <2>1. stateBlockNumber' = stateBlockNumber
        BY DEF aggregateSharpJobs
    <2> HIDE DEF to
    <2> QED
        BY <1>5, <1>9, <1>10, <2>1 DEF Log!AppendRun, Opened, Appended
<1>12. ContinuesFromOpen'
    BY <1>5, <1>6, <1>9 DEF ContinuesFromOpen
<1> QED
    BY <1>11, <1>12

(* Registering opens the block that was settled last.                      *)
LEMMA RegisteringOpens ==
    ASSUME IInv, ContinuesFromOpen, NEW sender, registerNewRange(sender)
    PROVE  Log!Register /\ ContinuesFromOpen'
<1>1. /\ stateBlockNumber \in Block /\ stateBlockNumber # -1
      /\ stateBlockHash = Canonical[stateBlockNumber] /\ stateBlockHash # Zero
    <2>1. stateBlockNumber \in Block /\ stateBlockNumber # -1
        BY BoundAssumption DEF registerNewRange, IInv, TypeOK, Block
    <2> QED
        BY <2>1, CanonicalIsInjective DEF stateBlockHash
<1>2. Opened' = Opened \union {stateBlockNumber}
    <2>1. /\ blockNumberToParentHash \in [0 .. (LastBlock + 1) -> Hash]
          /\ blockNumberToParentHash' =
                [blockNumberToParentHash EXCEPT ![stateBlockNumber + 1] = stateBlockHash]
        BY DEF registerNewRange, cacheParentHash, IInv, TypeOK
    <2>2. \A b \in Block : /\ b + 1 \in 0 .. (LastBlock + 1)
                           /\ b + 1 = stateBlockNumber + 1 <=> b = stateBlockNumber
        BY <1>1, BoundAssumption DEF Block
    <2> QED
        BY <1>1, <2>1, <2>2 DEF Opened
<1>3. /\ aggregatorState'.continuableParentHash =
            IF aggregatorState.continuableParentHash = Zero
            THEN stateBlockHash ELSE aggregatorState.continuableParentHash
      /\ Leaves' = Leaves /\ stateBlockNumber' = stateBlockNumber
    BY DEF registerNewRange, Leaves, IInv, TypeOK, AggregatorState
<1>4. ContinuesFromOpen'
    BY <1>1, <1>2, <1>3 DEF ContinuesFromOpen
<1>5. Appended' = Appended
    BY <1>3 DEF Appended
<1> QED
    BY <1>1, <1>2, <1>3, <1>4, <1>5 DEF Log!Register, Opened, Appended

(* Every other step settles a block or is none of the accumulator.         *)
LEMMA StepsOfTheAccumulator ==
    ASSUME IInv, IInv', ContinuesFromOpen, [Next]_vars
    PROVE  [Log!Next]_<<stateBlockNumber, Appended, Opened>> /\ ContinuesFromOpen'
<1>1. ASSUME NEW sender, registerNewRange(sender)
      PROVE  Log!Next /\ ContinuesFromOpen'
    BY <1>1, RegisteringOpens DEF Log!Next
<1>2. ASSUME NEW sender, NEW outputs \in Calldata, aggregateSharpJobs(sender, outputs)
      PROVE  Log!Next /\ ContinuesFromOpen'
    BY <1>2, CallIsOneRun DEF Log!Next
<1>3. UNCHANGED contractVars => /\ Appended' = Appended /\ Opened' = Opened
                                /\ ContinuesFromOpen'
    BY DEF contractVars, Appended, Opened, Leaves, ContinuesFromOpen
<1>4. ASSUME NEW b \in Block, Settle(b)
      PROVE  Log!Settle /\ ContinuesFromOpen'
    <2>1. b \in (stateBlockNumber + 1) .. LastBlock
        BY <1>4, BoundAssumption DEF Settle, IInv, TypeOK, Block
    <2> QED
        BY <1>3, <1>4, <2>1 DEF Settle, Log!Settle, Appended, Opened
<1>5. CASE UNCHANGED contractVars /\ UNCHANGED stateBlockNumber
    BY <1>3, <1>5
<1> QED
    BY <1>1, <1>2, <1>4, <1>5
       DEF Next, Contract, RoleManagement, Environment, vars, setOperatorRequired,
           grantRole, revokeRole, renounceRole, PrepareJob, RegisterFact, Log!Next

(* The contract implements the accumulator, for every chain, every set of  *)
(* forks and jobs and calls of any length: the MMR is never rewritten, it  *)
(* grows by settled blocks downwards from an open one, and what is open    *)
(* stays open.                                                             *)
THEOREM Refinement == Spec => ImplementsAccumulator
<1>1. Init => Log!Init /\ ContinuesFromOpen
    <2> SUFFICES ASSUME Init
                 PROVE  Log!Init /\ ContinuesFromOpen
        OBVIOUS
    <2>1. Len(Leaves) - 1 = 0 /\ Opened = {} /\ aggregatorState.continuableParentHash = Zero
        BY BoundAssumption DEF Init, Leaves, Opened, Block
    <2>2. Appended = <<>>
        <3> DEFINE e == [i \in 1 .. 0 |-> Number[Leaves[i + 1]]]
        <3>0. Appended = e
            BY <2>1, Zenon DEF Appended
        <3>1. e \in [1 .. 0 -> Nat]
            OBVIOUS
        <3> HIDE DEF e
        <3>2. e \in Seq(Nat)
            BY <3>1 DEF Seq
        <3>3. Len(e) = 0
            BY <3>1, <3>2
        <3> QED
            BY <3>0, <3>2, <3>3, EmptySeq
    <2> QED
        BY <2>1, <2>2 DEF Log!Init, Init, ContinuesFromOpen, Opened, Appended
<1> QED
    BY <1>1, InvariantHolds, StepsOfTheAccumulator, PTL
       DEF Spec, ImplementsAccumulator, Log!Spec, Opened, Appended

-----------------------------------------------------------------------------
(* Roles.                                                                  *)

(* Without operators no role is ever gained, and as long as operators are  *)
(* required the tree stays as it is, whoever calls.                        *)
THEOREM FrozenWithoutOperatorsHolds == Spec => FrozenWithoutOperators
<1> DEFINE Frozen == hasRole["OPERATOR_ROLE"] = {} =>
                        /\ \A role \in Role : hasRole'[role] \subseteq hasRole[role]
                        /\ isOperatorRequired => UNCHANGED contractVars
<1>1. TypeOK /\ [Next]_vars => [Frozen]_vars
    <2> SUFFICES ASSUME TypeOK, Next, hasRole["OPERATOR_ROLE"] = {}
                 PROVE  /\ \A role \in Role : hasRole'[role] \subseteq hasRole[role]
                        /\ isOperatorRequired => UNCHANGED contractVars
        OBVIOUS
    <2>1. hasRole \in [Role -> SUBSET Account]
        BY DEF TypeOK
    <2>2. CASE Contract
        BY <2>2 DEF Contract, registerNewRange, aggregateSharpJobs, setOperatorRequired,
           onlyOperator, accessVars
    <2>3. CASE RoleManagement
        BY <2>1, <2>3 DEF RoleManagement, grantRole, revokeRole, renounceRole, RoleAdmin
    <2>4. CASE Environment
        BY <2>4 DEF Environment, Settle, PrepareJob, RegisterFact, accessVars
    <2> QED
        BY <2>2, <2>3, <2>4 DEF Next
<1> QED
    BY <1>1, TypeCorrect, PTL DEF Spec, FrozenWithoutOperators

=============================================================================
