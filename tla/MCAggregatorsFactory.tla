------------------------- MODULE MCAggregatorsFactory -------------------------
(* Two accounts, two templates with code and one without. *)
EXTENDS AggregatorsFactory, TLC

CONSTANTS alice, bob, t1, t2, empty

MCAccount == {alice, bob}
MCTemplate == {t1, t2, empty}

=============================================================================
