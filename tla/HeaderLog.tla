----------------------------- MODULE HeaderLog -----------------------------
(***************************************************************************)
(* What the header database promises to the tools that read it: a log of   *)
(* headers, one for each block from 0 up, that only grows at its top, by   *)
(* at most a chunk at once.  HeaderDb is the program that keeps it.        *)
(***************************************************************************)
EXTENDS Integers, FiniteSets

CONSTANTS
    Header,     \* the headers that may be stored
    MaxExtent   \* the most headers that are added at once

VARIABLE log    \* the header of each block below the top

top == Cardinality(DOMAIN log)

Init == log = [n \in {} |-> n]

Extend ==
    \E k \in 1 .. MaxExtent :
        /\ log' \in [0 .. (top + k - 1) -> Header]
        /\ \A n \in DOMAIN log : log'[n] = log[n]

Spec == Init /\ [][Extend]_log

=============================================================================
