------------------------------ MODULE ChunkJob ------------------------------
(***************************************************************************)
(* What one Cairo job promises: the abstract specification of the program  *)
(* single_chunk_processor, as the contract relies on it.  ChunkProcessor   *)
(* is the program itself.                                                  *)
(*                                                                         *)
(* A header stands for its own hash, since the hash commits to the header; *)
(* an MMR root stands for the sequence of the leaves it commits to.        *)
(***************************************************************************)
EXTENDS Integers, Sequences, FiniteSets, SequencesExt, MmrForest

CONSTANTS
    Header,  \* all block headers, of the canonical chain and of others
    Zero,    \* bytes32(0), which is the hash of no header
    Number,  \* the block number of each header
    Parent,  \* the parent hash of each header
    Seed     \* the first leaf of a new MMR, "brave new world"

(* Hashes are collision free: a header determines its number and parent,   *)
(* and no header hashes to zero.                                           *)
ASSUME HeaderAssumption ==
    /\ Zero \notin Header
    /\ Number \in [Header -> Nat]
    /\ Parent \in [Header -> Header \union {Zero}]

Hash == Header \union {Zero}
Root == Seq(Header \union {Seed})

-----------------------------------------------------------------------------
(* Jobs.  The input of a job holds the headers of a range of blocks, from  *)
(* the highest number down; the job appends them to an MMR in that order.  *)

ChunkInput ==
    [ fromBlockNumberHigh    : Nat,
      toBlockNumberLow       : Nat,
      blockNPlusOneParentHash: Hash,
      mmrLastRootPoseidon    : Root,
      headers                : Seq(Header) ]

JobOutput ==
    [ fromBlockNumberHigh          : Nat,
      toBlockNumberLow             : Nat,
      blockNPlusOneParentHash      : Hash,
      blockNMinusRPlusOneParentHash: Hash,
      mmrPreviousRootPoseidon      : Root,
      mmrPreviousSize              : Nat,
      mmrNewRootPoseidon           : Root,
      mmrNewSize                   : Nat ]

(* What the program outputs for an input.                                  *)
OutputOf(input) ==
    [ fromBlockNumberHigh           |-> input.fromBlockNumberHigh,
      toBlockNumberLow              |-> input.toBlockNumberLow,
      blockNPlusOneParentHash       |-> input.blockNPlusOneParentHash,
      blockNMinusRPlusOneParentHash |-> Parent[Last(input.headers)],
      mmrPreviousRootPoseidon       |-> input.mmrLastRootPoseidon,
      mmrPreviousSize               |-> MmrSize(Len(input.mmrLastRootPoseidon)),
      mmrNewRootPoseidon            |-> input.mmrLastRootPoseidon \o input.headers,
      mmrNewSize                    |->
          MmrSize(Len(input.mmrLastRootPoseidon \o input.headers)) ]

(* The Cairo program accepts an input when its first header hashes to the  *)
(* parent hash of the block above, each next header to the parent hash of  *)
(* the one before, and the last header has the number toBlockNumberLow. It *)
(* never looks at the number of the first header.                          *)
ProgramAccepts(input) ==
    LET run == input.headers
    IN  /\ Len(run) = input.fromBlockNumberHigh - input.toBlockNumberLow + 1
        /\ Len(run) > 0
        /\ run[1] = input.blockNPlusOneParentHash
        /\ \A i \in 1 .. (Len(run) - 1) : run[i + 1] = Parent[run[i]]
        /\ Number[Last(run)] = input.toBlockNumberLow

=============================================================================
