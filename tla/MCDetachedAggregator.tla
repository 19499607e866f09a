------------------------- MODULE MCDetachedAggregator -------------------------
(* The instances of MCSharpFactsAggregator, for two aggregators. *)
EXTENDS DetachedAggregator, MCSharpFactsAggregator

(* A bound: with one account, an operator, it makes no difference whether  *)
(* operators are required.                                                 *)
OperatorsRequired == isOperatorRequired /\ (Created => detachedRequired)

=============================================================================
