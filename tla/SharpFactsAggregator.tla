------------------------ MODULE SharpFactsAggregator ------------------------
(***************************************************************************)
(* The contract SharpFactsAggregator: the on-chain head of an accumulator  *)
(* of Starknet block headers.  It holds the root and the size of a Merkle  *)
(* Mountain Range (MMR) and a cache of parent hashes it trusts, and grows  *)
(* the MMR from the outputs of Cairo jobs that SHARP has proved.           *)
(*                                                                         *)
(* Its environment is part of the module: the Starknet core contract, that *)
(* settles blocks; the off-chain tools, that prepare the outputs of jobs   *)
(* from a database of headers; and SHARP, that registers the fact of a job *)
(* once the Cairo program has accepted it.                                 *)
(*                                                                         *)
(* Abstractions: a header stands for its own hash, since the hash commits  *)
(* to the header; an MMR root stands for the sequence of the leaves it     *)
(* commits to.  A transaction is one step; one that reverts is no step.    *)
(***************************************************************************)
EXTENDS ChunkJob

CONSTANTS
    Account,      \* the addresses that may call the contract
    Deployer,     \* the account that deploys and initialises the contract
    RoleCaller,   \* the accounts that manage roles (a bound on the callers)
    LastBlock,    \* the last block number (a bound on the chain)
    Canonical,    \* the header that Starknet settles at each block number
    Tables,       \* the tables of headers by number the database may hold
    MaxLeaves,    \* bound: leaves of an MMR
    MaxJobs,      \* bound: jobs prepared off-chain
    MaxOutputs    \* bound: job outputs in one call of aggregateSharpJobs

Block == 0 .. LastBlock

(* The bounds on the model, and the accounts.                              *)
ASSUME BoundAssumption ==
    /\ {LastBlock, MaxLeaves, MaxJobs, MaxOutputs} \subseteq Nat
    /\ Deployer \in Account
    /\ RoleCaller \subseteq Account

(* The canonical chain is linked, and block 0 has the parent hash zero.    *)
ASSUME CanonicalAssumption ==
    /\ Canonical \in [Block -> Header]
    /\ \A b \in Block :
        /\ Number[Canonical[b]] = b
        /\ Parent[Canonical[b]] = IF b = 0 THEN Zero ELSE Canonical[b - 1]

(* The database holds one header for each number; they are not all of one  *)
(* chain when the node that was asked has seen a reorg in between.         *)
ASSUME TableAssumption ==
    \A table \in Tables :
        /\ table \in [Block -> Header]
        /\ \A b \in Block : Number[table[b]] = b

-----------------------------------------------------------------------------
(* The tools.                                                              *)

HeadersOf(table, from, to) == [i \in 1 .. (from - to + 1) |-> table[from - i + 1]]

(* The input the tools prepare for blocks from down to to: the parent hash *)
(* of the block above comes from the header of that block in the table.    *)
InputFor(root, table, from, to) ==
    [ fromBlockNumberHigh     |-> from,
      toBlockNumberLow        |-> to,
      blockNPlusOneParentHash |-> Parent[table[from + 1]],
      mmrLastRootPoseidon     |-> root,
      headers                 |-> HeadersOf(table, from, to) ]

-----------------------------------------------------------------------------
VARIABLES
    aggregatorState,         \* the root, the size, and the hash to continue from
    blockNumberToParentHash, \* the parent hashes the contract trusts; Zero if none
    isOperatorRequired,      \* whether only operators may aggregate
    hasRole,                 \* the accounts that hold each role (OpenZeppelin)
    stateBlockNumber,        \* the last block settled on L1; -1 before the first
    jobs,                    \* the inputs prepared off-chain
    facts                    \* the outputs whose fact is registered by SHARP

contractVars == <<aggregatorState, blockNumberToParentHash>>
accessVars   == <<isOperatorRequired, hasRole>>
vars == <<contractVars, accessVars, stateBlockNumber, jobs, facts>>

Role == {"OPERATOR_ROLE", "UNLOCKER_ROLE"}

AggregatorState ==
    [ poseidonMmrRoot      : Root,
      mmrSize              : Nat,
      continuableParentHash: Hash ]

TypeOK ==
    /\ aggregatorState \in AggregatorState
    /\ blockNumberToParentHash \in [0 .. (LastBlock + 1) -> Hash]
    /\ isOperatorRequired \in BOOLEAN
    /\ hasRole \in [Role -> SUBSET Account]
    /\ stateBlockNumber \in -1 .. LastBlock
    /\ jobs \subseteq ChunkInput
    /\ facts \subseteq JobOutput

(* A new tree: the factory's initial root, and both roles for the sender.  *)
Init ==
    /\ aggregatorState = [ poseidonMmrRoot       |-> <<Seed>>,
                           mmrSize               |-> MmrSize(1),
                           continuableParentHash |-> Zero ]
    /\ blockNumberToParentHash = [b \in 0 .. (LastBlock + 1) |-> Zero]
    /\ isOperatorRequired = TRUE
    /\ hasRole = [r \in Role |-> {Deployer}]
    /\ stateBlockNumber = -1
    /\ jobs = {}
    /\ facts = {}

-----------------------------------------------------------------------------
(* Access control.                                                         *)

onlyOperator(sender) ==
    isOperatorRequired => sender \in hasRole["OPERATOR_ROLE"]

onlyUnlocker(sender) == sender \in hasRole["UNLOCKER_ROLE"]

(* Mutant: UNLOCKER_ROLE administers both roles. *)
RoleAdmin_unlocker(role) == "UNLOCKER_ROLE"

RoleAdmin(role) == "OPERATOR_ROLE"

setOperatorRequired(sender, required) ==
    /\ onlyUnlocker(sender)
    /\ isOperatorRequired' = required
    /\ UNCHANGED <<contractVars, hasRole, stateBlockNumber, jobs, facts>>

grantRole(sender, role, account) ==
    /\ sender \in hasRole[RoleAdmin(role)]
    /\ hasRole' = [hasRole EXCEPT ![role] = @ \union {account}]
    /\ UNCHANGED <<contractVars, isOperatorRequired, stateBlockNumber, jobs, facts>>

revokeRole(sender, role, account) ==
    /\ sender \in hasRole[RoleAdmin(role)]
    /\ hasRole' = [hasRole EXCEPT ![role] = @ \ {account}]
    /\ UNCHANGED <<contractVars, isOperatorRequired, stateBlockNumber, jobs, facts>>

renounceRole(sender, role) ==
    /\ hasRole' = [hasRole EXCEPT ![role] = @ \ {sender}]
    /\ UNCHANGED <<contractVars, isOperatorRequired, stateBlockNumber, jobs, facts>>

-----------------------------------------------------------------------------
(* The environment: Starknet, the off-chain tools and SHARP.               *)

(* Mutant: the parent hash of the settled block, not its hash. *)
stateBlockHash_parent ==
    IF stateBlockNumber = -1 THEN Zero ELSE Parent[Canonical[stateBlockNumber]]

stateBlockHash ==
    IF stateBlockNumber = -1 THEN Zero ELSE Canonical[stateBlockNumber]

(* Starknet's state is updated on L1, by one block or by several.          *)
Settle(b) ==
    /\ stateBlockNumber < b
    /\ stateBlockNumber' = b
    /\ UNCHANGED <<contractVars, accessVars, jobs, facts>>

(* The MMRs a job may extend: a new one, the contract's, or that of a job. *)
KnownRoots ==
    {<<Seed>>, aggregatorState.poseidonMmrRoot}
        \union {OutputOf(j).mmrNewRootPoseidon : j \in jobs}

(* The tools prepare the input of a job, whether the program accepts it or *)
(* not; the contract may have moved on by the time the outputs reach it.   *)
PrepareJob(root, table, from, to) ==
    /\ Cardinality(jobs) < MaxJobs
    /\ to <= from /\ from < LastBlock
    /\ Len(root) + (from - to + 1) <= MaxLeaves
    /\ jobs' = jobs \union {InputFor(root, table, from, to)}
    /\ UNCHANGED <<contractVars, accessVars, stateBlockNumber, facts>>

(* SHARP registers the fact of a job once the program has accepted it.     *)
RegisterFact(input) ==
    /\ ProgramAccepts(input)
    /\ facts' = facts \union {OutputOf(input)}
    /\ UNCHANGED <<contractVars, accessVars, stateBlockNumber, jobs>>

-----------------------------------------------------------------------------
(* Mutant: the cache keeps only the last hash. *)
cacheParentHash_latest(b, hash) ==
    blockNumberToParentHash' =
        [k \in DOMAIN blockNumberToParentHash |-> IF k = b THEN hash ELSE Zero]

(* Mutant: the hash is stored one block further up. *)
cacheParentHash_above(b, hash) ==
    blockNumberToParentHash' =
        [k \in DOMAIN blockNumberToParentHash \union {b + 1} |->
            IF k = b + 1 THEN hash ELSE blockNumberToParentHash[k]]

(* Writing the mapping. *)
cacheParentHash(b, hash) ==
    blockNumberToParentHash' = [blockNumberToParentHash EXCEPT ![b] = hash]

(* Registering a range.  The core contract reports block -1 before the     *)
(* first update; uint256(-1) + 1 overflows, and the call reverts.          *)
registerNewRange(sender) ==
    /\ onlyOperator(sender)
    /\ stateBlockNumber # -1
    /\ cacheParentHash(stateBlockNumber + 1, stateBlockHash)
    /\ aggregatorState' =
           [aggregatorState EXCEPT !.continuableParentHash =
               IF @ = Zero THEN stateBlockHash ELSE @]
    /\ UNCHANGED <<accessVars, stateBlockNumber, jobs, facts>>

-----------------------------------------------------------------------------
(* Aggregating the outputs of jobs.                                        *)

(* Mutant: the hash cached for the block itself, not for the one above.    *)
parentHashOf_below(b) ==
    IF b - 1 \in DOMAIN blockNumberToParentHash
    THEN blockNumberToParentHash[b - 1] ELSE Zero

(* Reading the mapping: a block that was never written has the hash zero.  *)
parentHashOf(b) ==
    IF b \in DOMAIN blockNumberToParentHash THEN blockNumberToParentHash[b] ELSE Zero

(* Mutant: the fact is not looked up. *)
ensureValidFact_any(output) == TRUE

ensureValidFact(output) == output \in facts

(* Mutant: the MMR that the first job extends is not compared. *)
ensureContinuable_anyTree(fromBlockPlusOneParentHash, output) ==
    output.blockNPlusOneParentHash =
        IF fromBlockPlusOneParentHash = Zero
        THEN aggregatorState.continuableParentHash
        ELSE fromBlockPlusOneParentHash

(* The first job extends the contract's MMR, from the hash cached for the  *)
(* block above its first one or, failing that, from the global state.      *)
ensureContinuable(fromBlockPlusOneParentHash, output) ==
    /\ output.mmrPreviousRootPoseidon = aggregatorState.poseidonMmrRoot
    /\ output.mmrPreviousSize = aggregatorState.mmrSize
    /\ output.blockNPlusOneParentHash =
           IF fromBlockPlusOneParentHash = Zero
           THEN aggregatorState.continuableParentHash
           ELSE fromBlockPlusOneParentHash

ensureConsecutiveJobs(output, nextOutput) ==
    /\ output.toBlockNumberLow # 0
    /\ output.toBlockNumberLow - 1 = nextOutput.fromBlockNumberHigh
    /\ output.mmrNewRootPoseidon = nextOutput.mmrPreviousRootPoseidon
    /\ output.mmrNewSize = nextOutput.mmrPreviousSize
    /\ output.blockNMinusRPlusOneParentHash = nextOutput.blockNPlusOneParentHash

aggregateSharpJobs(sender, outputs) ==
    LET limit      == Len(outputs)
        fromBlock  == outputs[1].fromBlockNumberHigh
        lastOutput == outputs[limit]
    IN  /\ onlyOperator(sender)
        /\ limit >= 1
        /\ ensureContinuable(parentHashOf(fromBlock + 1), outputs[1])
        /\ \A i \in 1 .. (limit - 1) :
            /\ ensureValidFact(outputs[i])
            /\ ensureConsecutiveJobs(outputs[i], outputs[i + 1])
        /\ ensureValidFact(lastOutput)
        /\ aggregatorState' =
               [ poseidonMmrRoot       |-> lastOutput.mmrNewRootPoseidon,
                 mmrSize               |-> lastOutput.mmrNewSize,
                 continuableParentHash |-> lastOutput.blockNMinusRPlusOneParentHash ]
        /\ cacheParentHash(lastOutput.toBlockNumberLow,
                           lastOutput.blockNMinusRPlusOneParentHash)
        /\ UNCHANGED <<accessVars, stateBlockNumber, jobs, facts>>

-----------------------------------------------------------------------------
Calldata == SeqOf({OutputOf(j) : j \in jobs}, MaxOutputs)

Contract ==
    \E sender \in Account :
        \/ registerNewRange(sender)
        \/ \E outputs \in Calldata : aggregateSharpJobs(sender, outputs)
        \/ \E required \in BOOLEAN : setOperatorRequired(sender, required)

RoleManagement ==
    \E sender \in RoleCaller, role \in Role :
        \/ \E account \in Account :
            \/ grantRole(sender, role, account)
            \/ revokeRole(sender, role, account)
        \/ renounceRole(sender, role)

Environment ==
    \/ \E b \in Block : Settle(b)
    \/ \E root \in KnownRoots, table \in Tables, from, to \in Block :
        PrepareJob(root, table, from, to)
    \/ \E input \in jobs : RegisterFact(input)

Next == Contract \/ RoleManagement \/ Environment

Spec == Init /\ [][Next]_vars

-----------------------------------------------------------------------------
(* Properties.                                                             *)

Leaves == aggregatorState.poseidonMmrRoot

(* README: the MMR holds only headers of the chain that Starknet settled   *)
(* on L1, whatever jobs were prepared and in whatever order their outputs  *)
(* arrive; and its first leaf stays the one it was created with.           *)
OnlySettledHeaders ==
    /\ Leaves[1] = Seed
    /\ \A i \in 2 .. Len(Leaves) : \E b \in 0 .. stateBlockNumber : Leaves[i] = Canonical[b]

(* Every hash the contract trusts is that of a settled block, cached for   *)
(* the block above it: a wrong entry would admit the headers of any chain. *)
TrustedHashesAreSettled ==
    /\ \A b \in DOMAIN blockNumberToParentHash :
        blockNumberToParentHash[b] # Zero =>
            /\ b \in 1 .. (stateBlockNumber + 1)
            /\ blockNumberToParentHash[b] = Canonical[b - 1]
    /\ aggregatorState.continuableParentHash # Zero =>
            \E b \in 0 .. stateBlockNumber :
                aggregatorState.continuableParentHash = Canonical[b]

(* The honest job for blocks from down to to, on the contract's MMR. *)
HonestInput(from, to) ==
    [ fromBlockNumberHigh     |-> from,
      toBlockNumberLow        |-> to,
      blockNPlusOneParentHash |-> Canonical[from],
      mmrLastRootPoseidon     |-> Leaves,
      headers                 |-> HeadersOf(Canonical, from, to) ]

(* Aggregation can always go on, from the global state and from any block  *)
(* that was registered: the honest job that starts there is continuable.   *)
CanContinue ==
    \A from \in Block :
        \/ blockNumberToParentHash[from + 1] # Zero
        \/ aggregatorState.continuableParentHash = Canonical[from]
        => \A to \in 0 .. from :
            ensureContinuable(parentHashOf(from + 1), OutputOf(HonestInput(from, to)))

(* No hole is out of reach: below every header in the MMR comes block 0,   *)
(* or its parent is in the MMR too, or the parent's hash is still cached.  *)
NoLostGap ==
    \A i \in 2 .. Len(Leaves) :
        LET parent == Parent[Leaves[i]]
        IN  \/ parent = Zero
            \/ \E k \in 2 .. Len(Leaves) : Leaves[k] = parent
            \/ \E b \in DOMAIN blockNumberToParentHash : blockNumberToParentHash[b] = parent

(* The contract implements the log that verifiers of headers rely on: it is *)
(* never rewritten, what a call appends goes down from a block that was    *)
(* open before it, and an open block stays open.                           *)
Log == INSTANCE Accumulator WITH
    settled <- stateBlockNumber,
    log     <- [i \in 1 .. (Len(Leaves) - 1) |-> Number[Leaves[i + 1]]],
    open    <- {b \in Block : blockNumberToParentHash[b + 1] # Zero}

ImplementsAccumulator == Log!Spec

(* The comment at SharpFactsAggregator.sol:333: in an accepted call, the   *)
(* `from block` of a job is the `to block + 1` of the one before it.  The  *)
(* jobs go down the chain, so the code requires `to block - 1`.            *)
NextJobStartsAbove ==
    [][ \A sender \in Account, outputs \in Calldata :
            aggregateSharpJobs(sender, outputs) =>
                \A i \in 1 .. (Len(outputs) - 1) :
                    outputs[i + 1].fromBlockNumberHigh = outputs[i].toBlockNumberLow + 1 ]_vars

(* OPERATOR_ROLE administers both roles: when nobody holds it any more, no *)
(* role is ever gained, and the tree is frozen while operators are required. *)
FrozenWithoutOperators ==
    [][ hasRole["OPERATOR_ROLE"] = {} =>
        /\ \A role \in Role : hasRole'[role] \subseteq hasRole[role]
        /\ isOperatorRequired => UNCHANGED contractVars ]_vars

=============================================================================
