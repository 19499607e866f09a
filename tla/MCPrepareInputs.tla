-------------------------- MODULE MCPrepareInputs --------------------------
(* Instances of PrepareInputs for TLC. *)
EXTENDS PrepareInputs

Call(from, to, size, dynamic) ==
    [from |-> from, to |-> to, batch_size |-> size, dynamic |-> dynamic]

(* A table that lacks block 2, and calls that overlap, meet the hole, or   *)
(* are refused; a dynamic one goes down to where too few blocks are left.  *)
MCStored == (0 .. 14) \ {2}
MCRequest ==
    {Call(7, 3, 2, FALSE), Call(5, 4, 2, FALSE), Call(6, 0, 3, FALSE), Call(14, 3, 2, FALSE),
     Call(3, 4, 2, FALSE), Call(5, 4, 0, FALSE), Call(13, 5, 50, TRUE)}

(* An MMR of size 4 has two peaks; one is given.                           *)
MCOddParams == {[params |-> [NewParams EXCEPT !.mmr_size = 4], leaves |-> <<>>]}

(* Headers of 8 to 12 rounds each.                                         *)
MCBytesLen == [b \in Stored |-> 136 * (7 + 2 * (b % 3))]

=============================================================================
