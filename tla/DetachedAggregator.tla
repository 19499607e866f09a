-------------------------- MODULE DetachedAggregator --------------------------
(***************************************************************************)
(* Two aggregators over one chain, one set of jobs and one registry of     *)
(* facts: an original, whose variables are those of SharpFactsAggregator,  *)
(* and one that the factory detaches from it at some point.                *)
(*                                                                         *)
(* createAggregator copies the state of the original, which aggregatorState*)
(* returns.  It does not copy the cached parent hashes: the ranges that    *)
(* were registered with the original, or left open by it, are not known to *)
(* the detached aggregator, except for the one it would continue with.     *)
(***************************************************************************)
EXTENDS SharpFactsAggregator

VARIABLES
    detachedState,      \* aggregatorState of the detached aggregator
    detachedParentHash, \* its blockNumberToParentHash
    detachedRequired,   \* its isOperatorRequired
    detachedRole,       \* its roles
    inherited           \* history: the leaves it was created with, <<>> before

detachedVars == <<detachedState, detachedParentHash, detachedRequired, detachedRole>>
allVars == <<vars, detachedVars, inherited>>

Detached == INSTANCE SharpFactsAggregator
    WITH aggregatorState         <- detachedState,
         blockNumberToParentHash <- detachedParentHash,
         isOperatorRequired      <- detachedRequired,
         hasRole                 <- detachedRole

(* The storage of the detached aggregator has the default values at first. *)
DetachedInit ==
    /\ Init
    /\ detachedState = [ poseidonMmrRoot       |-> <<>>,
                         mmrSize               |-> 0,
                         continuableParentHash |-> Zero ]
    /\ detachedParentHash = [b \in 0 .. (LastBlock + 1) |-> Zero]
    /\ detachedRequired = FALSE
    /\ detachedRole = [r \in Role |-> {}]
    /\ inherited = <<>>

Created == inherited # <<>>

(* Mutant: the hash to continue from is not copied. *)
InitialState_noHash == [aggregatorState EXCEPT !.continuableParentHash = Zero]

(* Mutant: the size of a new tree is passed with the leaves of the old one.*)
InitialState_newSize == [aggregatorState EXCEPT !.mmrSize = MmrSize(1)]

(* What createAggregator passes to initialize. *)
InitialState ==
    [ poseidonMmrRoot       |-> aggregatorState.poseidonMmrRoot,
      mmrSize               |-> aggregatorState.mmrSize,
      continuableParentHash |-> aggregatorState.continuableParentHash ]

createAggregator ==
    /\ ~Created
    /\ detachedState' = InitialState
    /\ detachedRequired' = TRUE
    /\ detachedRole' = [r \in Role |-> {Deployer}]
    /\ inherited' = aggregatorState.poseidonMmrRoot
    /\ UNCHANGED <<vars, detachedParentHash>>

(* The tools prepare jobs for either aggregator. *)
DetachedNext ==
    \/ createAggregator
    \/ Next /\ UNCHANGED <<detachedVars, inherited>>
    \/ /\ Created
       /\ Detached!Contract \/ Detached!RoleManagement
       /\ UNCHANGED <<contractVars, accessVars, inherited>>
    \/ /\ Created
       /\ \E table \in Tables, from, to \in Block :
            PrepareJob(detachedState.poseidonMmrRoot, table, from, to)
       /\ UNCHANGED <<detachedVars, inherited>>

DetachedSpec == DetachedInit /\ [][DetachedNext]_allVars

-----------------------------------------------------------------------------
(* Properties.                                                             *)

DetachedLeaves == detachedState.poseidonMmrRoot

(* The detached aggregator is as trustworthy as one that started anew,     *)
(* although it cannot know how the state it was given came about, and      *)
(* although outputs made for the one aggregator may be sent to the other.  *)
DetachedIsSound ==
    Created =>
        /\ Detached!OnlySettledHeaders
        /\ Detached!TrustedHashesAreSettled
        /\ detachedState.mmrSize = MmrSize(Len(DetachedLeaves))

(* It can always go on: at first where the original stood when it was      *)
(* created, whatever the original has done since; below block 0 there is   *)
(* nothing to go on with.                                                  *)
DetachedCanContinue ==
    Created =>
        /\ Detached!CanContinue
        /\ /\ DetachedLeaves = inherited
           /\ Len(inherited) > 1
           /\ Parent[Last(inherited)] # Zero
           => detachedState.continuableParentHash = Parent[Last(inherited)]

(* It never loses the hole below a header that it appended itself.  Below  *)
(* an inherited one it may: the hash it was given to continue from is kept *)
(* in the state only, and not cached, so that aggregating a range that was *)
(* registered later overwrites it.                                         *)
OwnGapsStayOpen ==
    \A i \in (Len(inherited) + 1) .. Len(DetachedLeaves) :
        Created =>
            LET parent == Parent[DetachedLeaves[i]]
            IN  \/ parent = Zero
                \/ \E k \in 2 .. Len(DetachedLeaves) : DetachedLeaves[k] = parent
                \/ \E b \in DOMAIN detachedParentHash : detachedParentHash[b] = parent

=============================================================================
