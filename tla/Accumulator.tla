---------------------------- MODULE Accumulator ----------------------------
(***************************************************************************)
(* What an aggregator promises to those who verify headers against its     *)
(* MMR: a log of block numbers that only grows, by a run of blocks that    *)
(* goes down from an open block, one that Starknet settled and that was    *)
(* either registered or left as the end of an earlier run.  What is open   *)
(* stays open.  SharpFactsAggregator is the contract that keeps it.        *)
(***************************************************************************)
EXTENDS Integers, Sequences

CONSTANT LastBlock  \* the last block number

VARIABLES
    settled,  \* the last block settled; -1 before the first
    log,      \* the blocks whose headers were appended, in order
    open      \* the blocks a run may start from

Init == settled = -1 /\ log = <<>> /\ open = {}

Settle ==
    /\ settled' \in (settled + 1) .. LastBlock
    /\ UNCHANGED <<log, open>>

Register ==
    /\ settled # -1
    /\ open' = open \union {settled}
    /\ UNCHANGED <<settled, log>>

Down(from, to) == [i \in 1 .. (from - to + 1) |-> from - i + 1]

(* The block below the run is open from then on, unless there is none.     *)
AppendRun ==
    \E from \in open : \E to \in 0 .. from :
        /\ log' = log \o Down(from, to)
        /\ open' = IF to = 0 THEN open ELSE open \union {to - 1}
        /\ UNCHANGED settled

Next == Settle \/ Register \/ AppendRun

Spec == Init /\ [][Next]_<<settled, log, open>>

=============================================================================
