-------------------------- MODULE AggregatorsFactory --------------------------
(***************************************************************************)
(* The contract AggregatorsFactory.  It creates aggregators as clones of a *)
(* template, new or detached from an existing aggregator, and replaces the *)
(* template under a timelock.                                              *)
(*                                                                         *)
(* Of an aggregator the module keeps what the factory reads and writes: its*)
(* state as one value, which its own operations change, and its roles.     *)
(* DetachedAggregator looks inside.                                        *)
(*                                                                         *)
(* A clone delegates every call to its template.  If the template has no   *)
(* code, the calls succeed and do nothing.                                 *)
(***************************************************************************)
EXTENDS Integers, Sequences, SequencesExt

CONSTANTS
    Account,         \* the addresses that call the contracts
    Deployer,        \* the account that deploys the factory
    Factory,         \* the address of the factory itself
    Template,        \* the addresses that may be proposed as templates
    NoCode,          \* the one among them that has no code
    NoAddress,       \* address(0)
    InitialTemplate, \* the template the factory is deployed with
    State,           \* the states of an aggregator
    NewState,        \* the state of a new one
    Uninitialized,   \* the state of a clone that was never initialised
    DELAY,           \* the delay of an upgrade
    MaxTime,         \* bound: block timestamps
    MaxUpgrades,     \* bound: proposals
    MaxAggregators   \* bound: aggregators

ASSUME FactoryAssumption ==
    /\ Deployer \in Account /\ Factory \notin Account
    /\ InitialTemplate \in Template \ {NoCode}
    /\ NoAddress \notin Template
    /\ NewState \in State /\ Uninitialized \notin State
    /\ DELAY \in Nat \ {0}

VARIABLES
    template,        \* the contract that is cloned
    upgrades,        \* the upgrade proposals by id
    aggregatorsById, \* the aggregators by id
    operators,       \* the accounts with the factory's OPERATOR_ROLE
    timestamp,       \* block.timestamp
    proposals,       \* history: what was proposed, and when
    executed         \* history: the upgrades that ran, in order

history == <<proposals, executed>>
vars == <<template, upgrades, aggregatorsById, operators, timestamp, history>>

upgradesCount == Len(upgrades)
aggregatorsCount == Len(aggregatorsById)

Role == {"OPERATOR_ROLE", "UNLOCKER_ROLE"}
Address == Account \union {Factory}

UpgradeProposalTimelock == [timestamp: Nat, newTemplate: Template \union {NoAddress}]

Aggregator ==
    [ template       : Template,
      aggregatorState: State \union {Uninitialized},
      hasRole        : [Role -> SUBSET Address] ]

TypeOK ==
    /\ template \in Template
    /\ upgrades \in Seq(UpgradeProposalTimelock)
    /\ aggregatorsById \in Seq(Aggregator)
    /\ operators \subseteq Account
    /\ timestamp \in Nat
    /\ proposals \in Seq([timestamp: Nat, newTemplate: Template])
    /\ executed \in Seq([id: Nat, latest: Nat])

Init ==
    /\ template = InitialTemplate
    /\ upgrades = <<>>
    /\ aggregatorsById = <<>>
    /\ operators = {Deployer}
    /\ timestamp = 1
    /\ proposals = <<>> /\ executed = <<>>

-----------------------------------------------------------------------------
(* Creating aggregators.                                                   *)

onlyOperator(sender) == sender \in operators

(* Reading the state of a clone without code returns nothing, and reverts. *)
CanAttach(aggregatorId) ==
    /\ aggregatorId <= aggregatorsCount
    /\ aggregatorsById[aggregatorId].aggregatorState # Uninitialized

InitialState(aggregatorId) ==
    IF aggregatorId = 0 THEN NewState
    ELSE aggregatorsById[aggregatorId].aggregatorState

(* The clone after initialize, called by the factory, and two grantRole.   *)
Clone(state, sender) ==
    IF template = NoCode
    THEN [ template        |-> template,
           aggregatorState |-> Uninitialized,
           hasRole         |-> [role \in Role |-> {}] ]
    ELSE [ template        |-> template,
           aggregatorState |-> state,
           hasRole         |-> [role \in Role |-> {Factory, sender}] ]

createAggregator(sender, aggregatorId) ==
    /\ aggregatorsCount < MaxAggregators
    /\ onlyOperator(sender)
    /\ aggregatorId # 0 => CanAttach(aggregatorId)
    /\ aggregatorsById' =
           Append(aggregatorsById, Clone(InitialState(aggregatorId), sender))
    /\ UNCHANGED <<template, upgrades, operators, timestamp, history>>

-----------------------------------------------------------------------------
(* Upgrading the template.                                                 *)

(* Mutant: the proposal can run at once. *)
Unlocked_now == timestamp

Unlocked == timestamp + DELAY

proposeUpgrade(sender, newTemplate) ==
    /\ upgradesCount < MaxUpgrades
    /\ onlyOperator(sender)
    /\ upgrades' = Append(upgrades, [timestamp |-> Unlocked, newTemplate |-> newTemplate])
    /\ proposals' = Append(proposals, [timestamp |-> timestamp, newTemplate |-> newTemplate])
    /\ UNCHANGED <<template, aggregatorsById, operators, timestamp, executed>>

IsCurrent(updateId) == updateId = upgradesCount

(* Mutant: the timelock is cleared before the new template is read. *)
NewTemplate_cleared(updateId) == NoAddress

NewTemplate(updateId) == upgrades[updateId].newTemplate

(* Mutant: the timelock is not cleared. *)
ClearTimelock_not(updateId) == UNCHANGED upgrades

ClearTimelock(updateId) ==
    upgrades' = [upgrades EXCEPT ![updateId] = [timestamp   |-> 0,
                                               newTemplate |-> NoAddress]]

upgrade(sender, updateId) ==
    /\ onlyOperator(sender)
    /\ IsCurrent(updateId)
    /\ updateId \in DOMAIN upgrades
    /\ upgrades[updateId].timestamp # 0
    /\ timestamp >= upgrades[updateId].timestamp
    /\ template' = NewTemplate(updateId)
    /\ ClearTimelock(updateId)
    /\ executed' = Append(executed, [id |-> updateId, latest |-> upgradesCount])
    /\ UNCHANGED <<aggregatorsById, operators, timestamp, proposals>>

-----------------------------------------------------------------------------
(* Roles (OpenZeppelin).  In the factory OPERATOR_ROLE administers itself; *)
(* in an aggregator it administers both roles.                             *)

grantRole(sender, account) ==
    /\ onlyOperator(sender)
    /\ operators' = operators \union {account}
    /\ UNCHANGED <<template, upgrades, aggregatorsById, timestamp, history>>

(* An operator revokes the role of an account, or an account renounces it. *)
revokeRole(sender, account) ==
    /\ onlyOperator(sender) \/ sender = account
    /\ operators' = operators \ {account}
    /\ UNCHANGED <<template, upgrades, aggregatorsById, timestamp, history>>

(* Mutant: each role administers itself. *)
RoleAdmin_self(role) == role

RoleAdmin(role) == "OPERATOR_ROLE"

aggregatorGrantRole(sender, a, role, account) ==
    /\ sender \in aggregatorsById[a].hasRole[RoleAdmin(role)]
    /\ aggregatorsById' =
           [aggregatorsById EXCEPT ![a].hasRole[role] = @ \union {account}]
    /\ UNCHANGED <<template, upgrades, operators, timestamp, history>>

aggregatorRevokeRole(sender, a, role, account) ==
    /\ sender \in aggregatorsById[a].hasRole[RoleAdmin(role)] \/ sender = account
    /\ aggregatorsById' = [aggregatorsById EXCEPT ![a].hasRole[role] = @ \ {account}]
    /\ UNCHANGED <<template, upgrades, operators, timestamp, history>>

(* An aggregator moves on by its own operations. *)
Aggregate(a, state) ==
    /\ aggregatorsById[a].aggregatorState # Uninitialized
    /\ aggregatorsById' = [aggregatorsById EXCEPT ![a].aggregatorState = state]
    /\ UNCHANGED <<template, upgrades, operators, timestamp, history>>

Tick ==
    /\ timestamp < MaxTime
    /\ timestamp' = timestamp + 1
    /\ UNCHANGED <<template, upgrades, aggregatorsById, operators, history>>

-----------------------------------------------------------------------------
FactoryStep(sender) ==
    \/ \E aggregatorId \in 0 .. MaxAggregators : createAggregator(sender, aggregatorId)
    \/ \E newTemplate \in Template : proposeUpgrade(sender, newTemplate)
    \/ \E updateId \in 0 .. MaxUpgrades : upgrade(sender, updateId)
    \/ \E account \in Account : grantRole(sender, account) \/ revokeRole(sender, account)

AggregatorStep(sender, a) ==
    \/ \E role \in Role, account \in Address :
        \/ aggregatorGrantRole(sender, a, role, account)
        \/ aggregatorRevokeRole(sender, a, role, account)
    \/ \E state \in State : Aggregate(a, state)

Next ==
    \/ \E sender \in Account :
        \/ FactoryStep(sender)
        \/ \E a \in DOMAIN aggregatorsById : AggregatorStep(sender, a)
    \/ Tick

Spec == Init /\ [][Next]_vars

-----------------------------------------------------------------------------
(* Properties.                                                             *)

(* solidity-verifier/README.md: the template changes only to one that was  *)
(* proposed at least the delay ago; and nothing was proposed since, so that*)
(* a proposal is withdrawn by the next one.                                *)
TimelockHolds ==
    [][ template' # template =>
        /\ proposals # <<>>
        /\ template' = Last(proposals).newTemplate
        /\ timestamp >= Last(proposals).timestamp + DELAY ]_vars

(* AggregatorsFactory.sol:174-187: no proposal is executed twice, and none  *)
(* after another one was made; so they are executed in the order in which  *)
(* they were made.                                                         *)
RunsAtMostOnce ==
    \A m \in DOMAIN executed :
        /\ executed[m].id = executed[m].latest
        /\ \A n \in DOMAIN executed : m < n => executed[m].id < executed[n].id

(* The factory keeps both roles in the aggregators it creates, and cannot  *)
(* use them: when no account is an operator of an aggregator any more, no  *)
(* role in it is ever gained again, not by another createAggregator either.*)
FactoryRolesAreIdle ==
    [][ \A a \in DOMAIN aggregatorsById :
            aggregatorsById[a].hasRole["OPERATOR_ROLE"] \cap Account = {} =>
                \A role \in Role :
                    aggregatorsById'[a].hasRole[role] \subseteq aggregatorsById[a].hasRole[role] ]_vars

(* AggregatorsFactory.sol:131, require(success, "Aggregator initialization *)
(* failed"): an aggregator that was created has been initialised.  The     *)
(* call also succeeds when the template has no code.                       *)
CreatedMeansInitialized ==
    \A a \in DOMAIN aggregatorsById : aggregatorsById[a].aggregatorState # Uninitialized

=============================================================================
