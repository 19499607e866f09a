----------------------- MODULE AggregatorsFactoryProofs -----------------------
(***************************************************************************)
(* Theorems about AggregatorsFactory, for every set of accounts and        *)
(* templates, every delay and all bounds.                                  *)
(***************************************************************************)
EXTENDS AggregatorsFactory, SequenceTheorems, TLAPS

(* What is inductive: every proposal that has not run is recorded with the *)
(* delay and the template it was made with.                                *)
PendingAsProposed ==
    /\ Len(proposals) = Len(upgrades)
    /\ \A id \in 1 .. Len(upgrades) :
        \/ upgrades[id].timestamp = 0
        \/ /\ upgrades[id].timestamp = proposals[id].timestamp + DELAY
           /\ upgrades[id].newTemplate = proposals[id].newTemplate

(* Whatever was executed is cleared, so that it cannot run again; and a    *)
(* later proposal gets a number beyond all those.                          *)
ExecutedAreCleared ==
    \A m \in DOMAIN executed :
        /\ executed[m].id \in DOMAIN upgrades
        /\ upgrades[executed[m].id].timestamp = 0

(* What the steps on the aggregators leave alone. *)
upgradeVars == <<template, upgrades, proposals, executed>>

IInv == TypeOK /\ PendingAsProposed /\ ExecutedAreCleared /\ RunsAtMostOnce

(* A new aggregator is well typed. *)
LEMMA CloneType ==
    ASSUME TypeOK, NEW sender \in Account, NEW aggregatorId \in 0 .. MaxAggregators,
           aggregatorId # 0 => CanAttach(aggregatorId)
    PROVE  Clone(InitialState(aggregatorId), sender) \in Aggregator
<1>1. InitialState(aggregatorId) \in State \union {Uninitialized}
    <2>1. CASE aggregatorId = 0
        BY <2>1, FactoryAssumption DEF InitialState
    <2>2. CASE aggregatorId # 0
        <3>1. aggregatorId \in 1 .. Len(aggregatorsById)
            BY <2>2 DEF CanAttach, aggregatorsCount
        <3>2. aggregatorsById[aggregatorId] \in Aggregator
            BY <3>1 DEF TypeOK
        <3> QED
            BY <2>2, <3>2 DEF InitialState, Aggregator
    <2> QED
        BY <2>1, <2>2
<1>2. [role \in Role |-> {Factory, sender}] \in [Role -> SUBSET Address]
    BY DEF Address
<1>3. [role \in Role |-> {}] \in [Role -> SUBSET Address]
    OBVIOUS
<1> QED
    BY <1>1, <1>2, <1>3 DEF Clone, Aggregator, TypeOK

(* The aggregators when the holders of a role in one of them are S. *)
WithRole(a, role, S) == [aggregatorsById EXCEPT ![a].hasRole[role] = S]

(* A step on the roles of one aggregator changes that role of it alone. *)
LEMMA RoleChange ==
    ASSUME TypeOK, NEW a \in DOMAIN aggregatorsById, NEW role \in Role,
           NEW S \in SUBSET Address,
           aggregatorsById' = WithRole(a, role, S)
    PROVE  /\ aggregatorsById' \in Seq(Aggregator)
           /\ aggregatorsById'[a].hasRole[role] = S
           /\ \A b \in DOMAIN aggregatorsById, r \in Role :
                b # a \/ r # role =>
                    aggregatorsById'[b].hasRole[r] = aggregatorsById[b].hasRole[r]
<1>1. /\ aggregatorsById \in Seq(Aggregator)
      /\ \A b \in DOMAIN aggregatorsById : aggregatorsById[b] \in Aggregator
    BY DEF TypeOK
<1> DEFINE changed == [aggregatorsById[a] EXCEPT !.hasRole[role] = S]
<1>2. changed \in Aggregator
    BY <1>1 DEF Aggregator
<1>3. aggregatorsById' = [aggregatorsById EXCEPT ![a] = changed]
    BY DEF WithRole
<1>4. aggregatorsById' \in Seq(Aggregator)
    <2> HIDE DEF changed
    <2> QED
        BY <1>1, <1>2, <1>3
<1>5. \A b \in DOMAIN aggregatorsById :
        aggregatorsById'[b] = IF b = a THEN changed ELSE aggregatorsById[b]
    BY <1>1, <1>3
<1>6. \A r \in Role : changed.hasRole[r] =
                        IF r = role THEN S ELSE aggregatorsById[a].hasRole[r]
    BY <1>1 DEF Aggregator
<1> QED
    <2> HIDE DEF changed
    <2> QED
        BY <1>4, <1>5, <1>6

(* The steps on the roles of an aggregator, as one role that grows only by *)
(* the hand of an operator, or shrinks.                                    *)
LEMMA RoleSteps ==
    ASSUME TypeOK, NEW sender \in Account, NEW a \in DOMAIN aggregatorsById,
           NEW role \in Role, NEW account \in Address,
           \/ aggregatorGrantRole(sender, a, role, account)
           \/ aggregatorRevokeRole(sender, a, role, account)
    PROVE  /\ aggregatorsById' \in Seq(Aggregator)
           /\ \A b \in DOMAIN aggregatorsById :
                \/ \A r \in Role :
                    aggregatorsById'[b].hasRole[r] \subseteq aggregatorsById[b].hasRole[r]
                \/ aggregatorsById[b].hasRole["OPERATOR_ROLE"] \cap Account # {}
<1> DEFINE old == aggregatorsById[a].hasRole[role]
<1>1. old \in SUBSET Address
    <2>1. aggregatorsById[a] \in Aggregator
        BY DEF TypeOK
    <2> QED
        BY <2>1 DEF Aggregator
<1>2. CASE aggregatorGrantRole(sender, a, role, account)
    <2> DEFINE grown == old \union {account}
    <2>1. aggregatorsById' = WithRole(a, role, grown)
        BY <1>2 DEF aggregatorGrantRole, WithRole
    <2>2. grown \in SUBSET Address
        BY <1>1
    <2>3. aggregatorsById[a].hasRole["OPERATOR_ROLE"] \cap Account # {}
        BY <1>2 DEF aggregatorGrantRole, RoleAdmin
    <2>4. /\ aggregatorsById' \in Seq(Aggregator)
          /\ \A b \in DOMAIN aggregatorsById, r \in Role :
                b # a \/ r # role =>
                    aggregatorsById'[b].hasRole[r] = aggregatorsById[b].hasRole[r]
        <3> HIDE DEF grown, old
        <3> QED
            BY <2>1, <2>2, RoleChange
    <2> QED
        BY <2>3, <2>4
<1>3. CASE aggregatorRevokeRole(sender, a, role, account)
    <2> DEFINE left == old \ {account}
    <2>1. aggregatorsById' = WithRole(a, role, left)
        BY <1>3 DEF aggregatorRevokeRole, WithRole
    <2>2. left \in SUBSET Address /\ left \subseteq old
        BY <1>1
    <2>3. /\ aggregatorsById' \in Seq(Aggregator)
          /\ aggregatorsById'[a].hasRole[role] = left
          /\ \A b \in DOMAIN aggregatorsById, r \in Role :
                b # a \/ r # role =>
                    aggregatorsById'[b].hasRole[r] = aggregatorsById[b].hasRole[r]
        <3> HIDE DEF left, old
        <3> QED
            BY <2>1, <2>2, RoleChange
    <2> QED
        BY <2>2, <2>3
<1> QED
    BY <1>2, <1>3

-----------------------------------------------------------------------------
(* The invariant.                                                          *)

(* No proposals and no aggregators at the start. *)
LEMMA InitInv == Init => IInv
<1> SUFFICES ASSUME Init PROVE IInv
    OBVIOUS
<1>1. /\ template = InitialTemplate /\ upgrades = <<>> /\ aggregatorsById = <<>>
      /\ operators = {Deployer} /\ timestamp = 1 /\ proposals = <<>> /\ executed = <<>>
    BY DEF Init
<1>2. /\ upgrades \in Seq(UpgradeProposalTimelock) /\ aggregatorsById \in Seq(Aggregator)
      /\ proposals \in Seq([timestamp: Nat, newTemplate: Template])
      /\ executed \in Seq([id: Nat, latest: Nat])
    BY <1>1
<1>3. Len(upgrades) = 0 /\ Len(proposals) = 0 /\ DOMAIN executed = {}
    BY <1>1
<1> QED
    BY <1>1, <1>2, <1>3, FactoryAssumption
    DEF IInv, TypeOK, PendingAsProposed, ExecutedAreCleared, RunsAtMostOnce

(* A proposal is recorded with its delay, and nothing before it changes. *)
LEMMA ProposeStep ==
    ASSUME IInv, NEW sender \in Account, NEW newTemplate \in Template,
           proposeUpgrade(sender, newTemplate)
    PROVE  IInv'
<1> DEFINE entry == [timestamp |-> Unlocked, newTemplate |-> newTemplate]
           made  == [timestamp |-> timestamp, newTemplate |-> newTemplate]
<1>1. /\ upgrades' = Append(upgrades, entry) /\ proposals' = Append(proposals, made)
      /\ UNCHANGED <<template, aggregatorsById, operators, timestamp, executed>>
    BY DEF proposeUpgrade
<1>2. entry \in UpgradeProposalTimelock /\ made \in [timestamp: Nat, newTemplate: Template]
    BY FactoryAssumption DEF IInv, TypeOK, UpgradeProposalTimelock, Unlocked
<1>3. entry.timestamp = made.timestamp + DELAY /\ entry.newTemplate = made.newTemplate
    BY DEF Unlocked
<1> HIDE DEF entry, made
<1>4. /\ upgrades \in Seq(UpgradeProposalTimelock)
      /\ proposals \in Seq([timestamp: Nat, newTemplate: Template])
      /\ Len(proposals) = Len(upgrades)
    BY DEF IInv, TypeOK, PendingAsProposed
<1>5. /\ upgrades' \in Seq(UpgradeProposalTimelock)
      /\ Len(upgrades') = Len(upgrades) + 1
      /\ upgrades'[Len(upgrades) + 1] = entry
      /\ \A id \in 1 .. Len(upgrades) : upgrades'[id] = upgrades[id]
    BY <1>1, <1>2, <1>4, AppendProperties
<1>6. /\ proposals' \in Seq([timestamp: Nat, newTemplate: Template])
      /\ Len(proposals') = Len(upgrades) + 1
      /\ proposals'[Len(upgrades) + 1] = made
      /\ \A id \in 1 .. Len(upgrades) : proposals'[id] = proposals[id]
    BY <1>1, <1>2, <1>4, AppendProperties
<1>7. TypeOK'
    BY <1>1, <1>5, <1>6 DEF IInv, TypeOK
<1>8. PendingAsProposed'
    <2>1. \A id \in 1 .. (Len(upgrades) + 1) :
            id \in 1 .. Len(upgrades) \/ id = Len(upgrades) + 1
        BY <1>4, LenProperties
    <2> QED
        BY <2>1, <1>3, <1>5, <1>6 DEF IInv, PendingAsProposed
<1>9. ExecutedAreCleared'
    <2>1. /\ DOMAIN upgrades = 1 .. Len(upgrades) /\ DOMAIN upgrades' = 1 .. (Len(upgrades) + 1)
          /\ Len(upgrades) \in Nat
        BY <1>4, <1>5, LenProperties
    <2>2. \A id \in DOMAIN upgrades : id \in DOMAIN upgrades' /\ upgrades'[id] = upgrades[id]
        BY <1>5, <2>1
    <2> QED
        BY <1>1, <2>2 DEF IInv, ExecutedAreCleared
<1>10. RunsAtMostOnce'
    BY <1>1 DEF IInv, RunsAtMostOnce
<1> QED
    BY <1>7, <1>8, <1>9, <1>10 DEF IInv

(* An upgrade installs the latest proposal as it was made, once its delay  *)
(* is over, and clears it.                                                 *)
LEMMA UpgradeStep ==
    ASSUME IInv, NEW sender \in Account, NEW updateId \in 0 .. MaxUpgrades,
           upgrade(sender, updateId)
    PROVE  /\ IInv'
           /\ proposals # <<>>
           /\ template' = Last(proposals).newTemplate
           /\ timestamp >= Last(proposals).timestamp + DELAY
<1> DEFINE cleared == [timestamp |-> 0, newTemplate |-> NoAddress]
           run == [id |-> updateId, latest |-> upgradesCount]
           n == Len(executed)
<1>1. /\ updateId = Len(upgrades) /\ updateId \in DOMAIN upgrades
      /\ upgrades[updateId].timestamp # 0 /\ timestamp >= upgrades[updateId].timestamp
      /\ template' = upgrades[updateId].newTemplate
      /\ upgrades' = [upgrades EXCEPT ![updateId] = cleared]
      /\ executed' = Append(executed, run)
      /\ UNCHANGED <<aggregatorsById, operators, timestamp, proposals>>
    BY DEF upgrade, IsCurrent, upgradesCount, NewTemplate, ClearTimelock
<1>2. cleared \in UpgradeProposalTimelock /\ cleared.timestamp = 0
    BY DEF UpgradeProposalTimelock
<1> HIDE DEF cleared
<1>3. /\ upgrades \in Seq(UpgradeProposalTimelock)
      /\ proposals \in Seq([timestamp: Nat, newTemplate: Template])
      /\ Len(proposals) = Len(upgrades)
    BY DEF IInv, TypeOK, PendingAsProposed
<1>4. DOMAIN upgrades = 1 .. Len(upgrades) /\ DOMAIN proposals = 1 .. Len(upgrades)
    BY <1>3, LenProperties
<1>5. /\ upgrades[updateId].timestamp = proposals[updateId].timestamp + DELAY
      /\ upgrades[updateId].newTemplate = proposals[updateId].newTemplate
    BY <1>1, <1>4 DEF IInv, PendingAsProposed
<1>6. proposals[updateId] \in [timestamp: Nat, newTemplate: Template]
    <2>1. updateId \in 1 .. Len(proposals)
        BY <1>1, <1>3, <1>4
    <2> QED
        BY <2>1, <1>3, ElementOfSeq
<1>7. /\ upgrades' \in Seq(UpgradeProposalTimelock) /\ Len(upgrades') = Len(upgrades)
      /\ \A id \in 1 .. Len(upgrades) :
            upgrades'[id] = IF id = updateId THEN cleared ELSE upgrades[id]
    BY <1>1, <1>2, <1>3, <1>4
<1>8. /\ executed' \in Seq([id: Nat, latest: Nat]) /\ n \in Nat
      /\ DOMAIN executed = 1 .. n /\ DOMAIN executed' = 1 .. (n + 1)
      /\ executed'[n + 1] = run
      /\ \A m \in 1 .. n : executed'[m] = executed[m]
    <2>1. executed \in Seq([id: Nat, latest: Nat])
        BY DEF IInv, TypeOK
    <2>2. run \in [id: Nat, latest: Nat]
        BY <1>1, <1>3, LenProperties DEF upgradesCount
    <2> HIDE DEF run
    <2>3. /\ executed' \in Seq([id: Nat, latest: Nat])
          /\ Len(executed') = Len(executed) + 1
          /\ executed'[Len(executed) + 1] = run
          /\ \A m \in 1 .. Len(executed) : executed'[m] = executed[m]
        BY <1>1, <2>1, <2>2, AppendProperties
    <2> QED
        BY <2>1, <2>3, LenProperties
<1>9. TypeOK'
    BY <1>1, <1>5, <1>6, <1>7, <1>8 DEF IInv, TypeOK
<1>10. PendingAsProposed'
    BY <1>1, <1>2, <1>3, <1>7 DEF IInv, PendingAsProposed
<1>11. proposals # <<>> /\ Last(proposals) = proposals[updateId]
    BY <1>1, <1>3, <1>4 DEF Last
<1>12. /\ run.id = Len(upgrades) /\ run.latest = Len(upgrades)
       /\ Len(upgrades) \in 1 .. Len(upgrades)
    BY <1>1, <1>4 DEF upgradesCount
<1>13. DOMAIN upgrades' = 1 .. Len(upgrades)
    BY <1>3, <1>7, LenProperties
<1>14. \A m \in 1 .. (n + 1) : m \in 1 .. n \/ m = n + 1
    BY <1>8
<1> HIDE DEF run, n
<1>15. \A m \in 1 .. n : /\ executed[m].id \in 1 .. Len(upgrades)
                         /\ upgrades[executed[m].id].timestamp = 0
                         /\ executed[m].id < Len(upgrades)
    <2>1. \A m \in 1 .. n : /\ executed[m].id \in 1 .. Len(upgrades)
                            /\ upgrades[executed[m].id].timestamp = 0
        BY <1>4, <1>8 DEF IInv, ExecutedAreCleared
    <2>2. \A m \in 1 .. n : executed[m].id # Len(upgrades)
        BY <1>1, <2>1
    <2>3. Len(upgrades) \in Nat
        BY <1>3, LenProperties
    <2> QED
        BY <2>1, <2>2, <2>3
<1>16. ExecutedAreCleared'
    <2>1. ASSUME NEW m \in 1 .. (n + 1)
          PROVE  /\ executed'[m].id \in 1 .. Len(upgrades)
                 /\ upgrades'[executed'[m].id].timestamp = 0
        <3>1. CASE m \in 1 .. n
            BY <1>2, <1>7, <1>8, <1>15, <3>1
        <3>2. CASE m = n + 1
            BY <1>1, <1>2, <1>7, <1>8, <1>12, <3>2
        <3> QED
            BY <1>14, <3>1, <3>2
    <2> QED
        BY <1>8, <1>13, <2>1 DEF ExecutedAreCleared
<1>17. RunsAtMostOnce'
    <2>1. \A m \in 1 .. n : /\ executed[m].id = executed[m].latest
                            /\ \A k \in 1 .. n : m < k => executed[m].id < executed[k].id
        BY <1>8 DEF IInv, RunsAtMostOnce
    <2>2. ASSUME NEW m \in 1 .. (n + 1)
          PROVE  /\ executed'[m].id = executed'[m].latest
                 /\ \A k \in 1 .. (n + 1) : m < k => executed'[m].id < executed'[k].id
        <3>1. CASE m \in 1 .. n
            <4>1. \A k \in 1 .. n : m < k => executed'[m].id < executed'[k].id
                BY <1>8, <2>1, <3>1
            <4>2. executed'[m].id < executed'[n + 1].id
                BY <1>8, <1>12, <1>15, <3>1
            <4> QED
                BY <1>8, <1>14, <2>1, <3>1, <4>1, <4>2
        <3>2. CASE m = n + 1
            <4>1. \A k \in 1 .. (n + 1) : ~(m < k)
                BY <1>8, <3>2
            <4> QED
                BY <1>8, <1>12, <3>2, <4>1
        <3> QED
            BY <1>14, <3>1, <3>2
    <2> QED
        BY <1>8, <2>2 DEF RunsAtMostOnce
<1> QED
    BY <1>1, <1>5, <1>9, <1>10, <1>11, <1>16, <1>17 DEF IInv

(* The other steps leave the proposals and the template alone.             *)
LEMMA OtherSteps ==
    ASSUME IInv, [Next]_vars,
           ~\E sender \in Account, newTemplate \in Template :
                proposeUpgrade(sender, newTemplate),
           ~\E sender \in Account, updateId \in 0 .. MaxUpgrades : upgrade(sender, updateId)
    PROVE  IInv' /\ UNCHANGED upgradeVars
<1> USE DEF history, upgradeVars
<1>1. ASSUME UNCHANGED upgradeVars, timestamp' \in Nat,
             operators' \subseteq Account, aggregatorsById' \in Seq(Aggregator)
      PROVE  IInv' /\ UNCHANGED upgradeVars
    BY <1>1 DEF IInv, TypeOK, PendingAsProposed, ExecutedAreCleared, RunsAtMostOnce, upgradeVars
<1>2. /\ timestamp \in Nat /\ operators \subseteq Account
      /\ aggregatorsById \in Seq(Aggregator) /\ TypeOK
    BY DEF IInv, TypeOK
<1>3. ASSUME NEW sender \in Account, NEW aggregatorId \in 0 .. MaxAggregators,
             createAggregator(sender, aggregatorId)
      PROVE  IInv' /\ UNCHANGED upgradeVars
    <2> DEFINE clone == Clone(InitialState(aggregatorId), sender)
    <2>1. clone \in Aggregator
        BY <1>2, <1>3, CloneType DEF createAggregator
    <2>2. aggregatorsById' = Append(aggregatorsById, clone)
        BY <1>3 DEF createAggregator
    <2>3. aggregatorsById' \in Seq(Aggregator)
        <3> HIDE DEF clone
        <3> QED
            BY <1>2, <2>1, <2>2, AppendProperties
    <2> QED
        BY <1>1, <1>2, <1>3, <2>3 DEF createAggregator
<1>4. ASSUME NEW sender \in Account, NEW account \in Account,
             grantRole(sender, account) \/ revokeRole(sender, account)
      PROVE  IInv' /\ UNCHANGED upgradeVars
    BY <1>1, <1>2, <1>4 DEF grantRole, revokeRole
<1>5. ASSUME NEW sender \in Account, NEW a \in DOMAIN aggregatorsById,
             NEW role \in Role, NEW account \in Address,
             \/ aggregatorGrantRole(sender, a, role, account)
             \/ aggregatorRevokeRole(sender, a, role, account)
      PROVE  IInv' /\ UNCHANGED upgradeVars
    <2>1. aggregatorsById' \in Seq(Aggregator)
        BY <1>2, <1>5, RoleSteps
    <2> QED
        BY <1>1, <1>2, <1>5, <2>1 DEF aggregatorGrantRole, aggregatorRevokeRole
<1>6. ASSUME NEW a \in DOMAIN aggregatorsById, NEW state \in State, Aggregate(a, state)
      PROVE  IInv' /\ UNCHANGED upgradeVars
    <2> DEFINE changed == [aggregatorsById[a] EXCEPT !.aggregatorState = state]
    <2>1. aggregatorsById[a] \in Aggregator
        BY <1>2
    <2>2. changed \in Aggregator
        BY <2>1 DEF Aggregator
    <2>3. aggregatorsById' = [aggregatorsById EXCEPT ![a] = changed]
        BY <1>6 DEF Aggregate
    <2>4. aggregatorsById' \in Seq(Aggregator)
        <3> HIDE DEF changed
        <3> QED
            BY <1>2, <2>2, <2>3
    <2> QED
        BY <1>1, <1>2, <1>6, <2>4 DEF Aggregate
<1>7. CASE Tick
    BY <1>1, <1>2, <1>7 DEF Tick
<1>8. CASE UNCHANGED vars
    BY <1>1, <1>2, <1>8 DEF vars
<1> QED
    BY <1>3, <1>4, <1>5, <1>6, <1>7, <1>8 DEF Next, FactoryStep, AggregatorStep

(* Every step keeps the invariant. *)
LEMMA NextInv == IInv /\ [Next]_vars => IInv'
BY ProposeStep, UpgradeStep, OtherSteps

(* The invariant holds in every reachable state. *)
THEOREM InvariantHolds == Spec => []IInv
BY InitInv, NextInv, PTL DEF Spec

(* The factory, its proposals and its aggregators are well typed; above    *)
(* all, the template is never address(0).                                  *)
THEOREM TypeCorrect == Spec => []TypeOK
<1>1. IInv => TypeOK
    BY DEF IInv
<1> QED
    BY <1>1, InvariantHolds, PTL

-----------------------------------------------------------------------------
(* The action properties.                                                  *)

(* The template changes only to the latest proposal and after its delay.   *)
THEOREM TimelockHoldsAlways == Spec => TimelockHolds
<1> DEFINE Timelock == template' # template =>
                        /\ proposals # <<>>
                        /\ template' = Last(proposals).newTemplate
                        /\ timestamp >= Last(proposals).timestamp + DELAY
<1>1. IInv /\ [Next]_vars => [Timelock]_vars
    <2> SUFFICES ASSUME IInv, [Next]_vars, template' # template PROVE Timelock
        BY DEF vars
    <2>1. CASE \E sender \in Account, updateId \in 0 .. MaxUpgrades : upgrade(sender, updateId)
        BY <2>1, UpgradeStep
    <2>2. CASE \E sender \in Account, newTemplate \in Template :
                proposeUpgrade(sender, newTemplate)
        BY <2>2 DEF proposeUpgrade
    <2> QED
        BY <2>1, <2>2, OtherSteps DEF upgradeVars
<1> QED
    BY <1>1, InvariantHolds, PTL DEF Spec, TimelockHolds

(* No proposal is executed twice, or after a later one was made.           *)
THEOREM RunsAtMostOnceHolds == Spec => []RunsAtMostOnce
<1>1. IInv => RunsAtMostOnce
    BY DEF IInv
<1> QED
    BY <1>1, InvariantHolds, PTL

(* The roles that the factory keeps in its aggregators are never used.     *)
THEOREM FactoryRolesAreIdleAlways == Spec => FactoryRolesAreIdle
<1> DEFINE Idle == \A a \in DOMAIN aggregatorsById :
                aggregatorsById[a].hasRole["OPERATOR_ROLE"] \cap Account = {} =>
                    \A role \in Role :
                        aggregatorsById'[a].hasRole[role] \subseteq aggregatorsById[a].hasRole[role]
<1>1. IInv /\ [Next]_vars => [Idle]_vars
    <2> SUFFICES ASSUME IInv, [Next]_vars PROVE Idle
        BY DEF vars
    <2>1. TypeOK /\ aggregatorsById \in Seq(Aggregator)
        BY DEF IInv, TypeOK
    <2>2. ASSUME NEW sender \in Account, NEW aggregatorId \in 0 .. MaxAggregators,
                 createAggregator(sender, aggregatorId)
          PROVE  Idle
        <3> DEFINE clone == Clone(InitialState(aggregatorId), sender)
        <3>1. aggregatorsById' = Append(aggregatorsById, clone)
            BY <2>2 DEF createAggregator
        <3>2. \A a \in DOMAIN aggregatorsById : aggregatorsById'[a] = aggregatorsById[a]
            <4> HIDE DEF clone
            <4> QED
                BY <2>1, <3>1
        <3> QED
            BY <3>2
    <2>3. ASSUME NEW sender \in Account, NEW a \in DOMAIN aggregatorsById,
                 NEW role \in Role, NEW account \in Address,
                 \/ aggregatorGrantRole(sender, a, role, account)
                 \/ aggregatorRevokeRole(sender, a, role, account)
          PROVE  Idle
        BY <2>1, <2>3, RoleSteps
    <2>4. ASSUME NEW a \in DOMAIN aggregatorsById, NEW state \in State, Aggregate(a, state)
          PROVE  Idle
        <3> DEFINE changed == [aggregatorsById[a] EXCEPT !.aggregatorState = state]
        <3>1. aggregatorsById[a] \in Aggregator
            BY <2>1
        <3>2. changed.hasRole = aggregatorsById[a].hasRole
            BY <3>1 DEF Aggregator
        <3>3. aggregatorsById' = [aggregatorsById EXCEPT ![a] = changed]
            BY <2>4 DEF Aggregate
        <3>4. \A b \in DOMAIN aggregatorsById :
                aggregatorsById'[b] = IF b = a THEN changed ELSE aggregatorsById[b]
            <4> HIDE DEF changed
            <4> QED
                BY <2>1, <3>3
        <3> HIDE DEF changed
        <3> QED
            BY <3>2, <3>4
    <2>5. UNCHANGED aggregatorsById => Idle
        OBVIOUS
    <2> HIDE DEF Idle
    <2>6. CASE UNCHANGED vars \/ Tick
        BY <2>5, <2>6 DEF vars, Tick
    <2>7. ASSUME NEW sender \in Account, FactoryStep(sender) PROVE Idle
        BY <2>2, <2>5, <2>7
        DEF FactoryStep, proposeUpgrade, upgrade, grantRole, revokeRole
    <2> QED
        BY <2>3, <2>4, <2>6, <2>7 DEF Next, AggregatorStep
<1> QED
    BY <1>1, InvariantHolds, PTL DEF Spec, FactoryRolesAreIdle

=============================================================================
