----------------------- MODULE MCSharpFactsAggregator -----------------------
(***************************************************************************)
(* Instances of SharpFactsAggregator for TLC.  A header is a number: that  *)
(* of the canonical block b is b + 1; 13 and 14 are the headers of a fork  *)
(* that leaves the canonical chain after block 1, at numbers 2 and 3.      *)
(***************************************************************************)
EXTENDS SharpFactsAggregator

CONSTANTS deployer, other

MCZero == 0
MCSeed == 100

CanonicalHeaders == {b + 1 : b \in Block}
ForkHeaders == {b + 11 : b \in Block \ {0, 1}}

ForkedChain == CanonicalHeaders \union ForkHeaders
OneChain == CanonicalHeaders

MCNumber == [h \in Header |-> IF h > 10 THEN h - 11 ELSE h - 1]
MCParent == [h \in Header |-> IF h = 13 THEN 2 ELSE h - 1]
(* What the database holds of blocks 2 and 3 may come from the fork.        *)
OneTable == {Canonical}
ForkedTables ==
    {[b \in Block |-> IF b \in fork THEN b + 11 ELSE b + 1] : fork \in SUBSET {2, 3}}

MCCanonical == [b \in Block |-> b + 1]

=============================================================================
