----------------------------- MODULE MCHeaderDb -----------------------------
(* Instances of HeaderDb for TLC: seven blocks in chunks of four, the      *)
(* forks at blocks 2 and 5.                                                *)
EXTENDS HeaderDb

MCOptionalKeys ==
    [n \in Number |-> CASE n < 2 -> {}
                        [] n \in 2 .. 4 -> {"baseFeePerGas"}
                        [] OTHER -> {"baseFeePerGas", "withdrawalsRoot"}]

=============================================================================
