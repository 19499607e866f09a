--------------------------- MODULE PrepareInputs ---------------------------
(***************************************************************************)
(* The preparation of jobs, tools/make/prepare_inputs_api.py.  A call cuts *)
(* a range of blocks, from the highest down, into chunks; for each it      *)
(* writes the input of a job, extends both MMRs by the chunk, and writes   *)
(* the output the job should have.  Calls follow one another, and each may *)
(* be interrupted between or within the files it writes.                   *)
(*                                                                         *)
(* A block is its number, and its parent is the number below.  Its hash by *)
(* a hasher is the pair of both.                                           *)
(***************************************************************************)
EXTENDS PyMmr

CONSTANTS
    Stored,                    \* the blocks in the database
    BytesLen,                  \* the length of each block's header
    Request,                   \* the calls that are made
    OddParams,                 \* initial states a caller may make up
    KECCAK_FULL_RATE_IN_BYTES,
    MAX_KECCAK_ROUNDS,         \* the limit of rounds in a job
    DYNAMIC_BATCH_SIZE_START,
    MaxCalls,                  \* bound: calls
    MaxRange,                  \* bound: the blocks of a call
    MaxHeight                  \* bound: the height of a subtree of the MMRs

ASSUME PrepareAssumption ==
    /\ Stored \in SUBSET Nat /\ Stored # {}
    /\ BytesLen \in [Stored -> Nat]
    /\ {KECCAK_FULL_RATE_IN_BYTES, DYNAMIC_BATCH_SIZE_START} \subseteq Nat \ {0}
    /\ {MAX_KECCAK_ROUNDS, MaxCalls} \subseteq Nat
    /\ \A r \in Request : /\ {r.from, r.to, r.batch_size} \subseteq Int
                          /\ r.dynamic \in BOOLEAN
    /\ Request # {}

(* The leaves that an MMR can have. *)
MaxLeaves == MaxCalls * MaxRange + 1

(* The MMRs of all the calls, those which the search for a batch size      *)
(* builds, and those of made-up states stay below the height bound.        *)
ASSUME RoomAssumption ==
    /\ MaxHeight \in Nat /\ MaxHeight + 2 <= MaxBits
    /\ MaxRange \in Nat
    /\ \A r \in Request : r.from - r.to + 1 <= MaxRange
    /\ \A o \in OddParams : o.params.mmr_size \in 1 .. MaxLeaves
    /\ MaxLeaves + DYNAMIC_BATCH_SIZE_START + 1 < 2^(MaxHeight + 1)

(* What the provers need to know of powers of 2. *)
ASSUME PowerAssumption ==
    /\ MaxBits \in Nat \ {0}
    /\ 2^0 = 1
    /\ \A i \in 0 .. MaxBits : 2^i \in Nat
    /\ \A i \in 0 .. (MaxBits - 1) : 2^(i + 1) = 2 * 2^i

VARIABLES
    pc,            \* "idle", or the file to write next: "input" or "output"
    request,       \* the parameters of the call
    from_block_number_high, to_block_number_batch_low, batch_size,
    last,          \* peaks, size and roots of the MMRs after the last chunk
    inputs,        \* the input files, by the name of the chunk
    outputs,       \* the output files
    calls,         \* how many calls were made
    returned,      \* history: what calls returned, and its leaves
    leaves,        \* history: the blocks in the MMRs
    chunks,        \* history: the chunks of the call so far
    abandoned      \* history: chunks at which a call broke off

files == <<inputs, outputs>>
loop == <<from_block_number_high, to_block_number_batch_low, batch_size, last>>
history == <<returned, leaves, chunks, abandoned>>
vars == <<pc, request, loop, files, calls, history>>

Hasher == {"poseidon", "keccak"}

(* What the MMRs should be. *)
Forest == INSTANCE MmrForest

-----------------------------------------------------------------------------
(* The MMRs.                                                               *)

compute_hashes(block) == [h \in Hasher |-> <<h, block>>]

(* The hash of "brave new world" alone.                                    *)
Seed == -1
Parent(block) == block - 1

NewParams ==
    [ mmr_peaks |-> [h \in Hasher |-> <<compute_hashes(Seed)[h]>>],
      mmr_size  |-> 1,
      mmr_roots |-> [h \in Hasher |-> hash_pair(<<1>>, compute_hashes(Seed)[h])] ]

validate_initial_params(params) ==
    /\ Len(params.mmr_peaks["poseidon"]) = Len(params.mmr_peaks["keccak"])
    /\ py_is_valid_mmr_size(params.mmr_size)

(* Mutant: the highest block is appended last. *)
extend_mmr_ascending(hashes, peaks_positions, peaks, last_pos) ==
    extend_mmr_poseidon(Reverse(hashes), peaks_positions, peaks, last_pos)

extend_mmr(hashes, peaks_positions, peaks, last_pos) ==
    extend_mmr_poseidon(hashes, peaks_positions, peaks, last_pos)

(* Both MMRs extended by blocks, which are given from the lowest up.       *)
process_chunk(params, blocks) ==
    LET result == [h \in Hasher |->
            extend_mmr([i \in DOMAIN blocks |-> compute_hashes(blocks[i])[h]],
                       py_get_peaks(params.mmr_size), params.mmr_peaks[h],
                       params.mmr_size - 1)]
    IN  [ mmr_peaks |-> [h \in Hasher |-> result[h].peaks],
          mmr_size  |-> result["poseidon"].size,
          mmr_roots |-> [h \in Hasher |-> result[h].root] ]

(* What process_chunk asserts before it extends the MMRs.                  *)
PeaksFitSize(params) ==
    \A h \in Hasher : Len(params.mmr_peaks[h]) = Len(py_get_peaks(params.mmr_size))

-----------------------------------------------------------------------------
(* The dynamic size of a batch: the rounds of hashing the newest blocks,   *)
(* and of a mocked extension of the MMR.                                   *)

keccaks(block) == BytesLen[block] \div KECCAK_FULL_RATE_IN_BYTES + 1

RoundsOf(from, to) == MapThenSumSet(keccaks, (to .. from) \intersect Stored)

(* Mutant: the digests of the first root are forgotten. *)
hash_count_noRoot(mmr_size, n) ==
    LET size[k \in 0 .. n] ==
            IF k = 0 THEN mmr_size ELSE size[k - 1] + 1 + merges_after(size[k - 1])
    IN  (size[n] - mmr_size - n) + Len(py_get_peaks(size[n]))

(* Digests of the first root, of the parents, and of the new root.         *)
hash_count(mmr_size, n) ==
    LET size[k \in 0 .. n] ==
            IF k = 0 THEN mmr_size ELSE size[k - 1] + 1 + merges_after(size[k - 1])
    IN  Len(py_get_peaks(mmr_size)) + (size[n] - mmr_size - n) + Len(py_get_peaks(size[n]))

(* Of the blocks that were found the lowest one is dropped with each block *)
(* less in the batch, also when fewer were found than the batch started    *)
(* with.                                                                   *)
compute_dynamic_batch_size(from, mmr_size) ==
    LET found == (from - DYNAMIC_BATCH_SIZE_START + 1 .. from) \intersect Stored
        Kept(dropped) ==
            {b \in found : Cardinality({c \in found : c < b}) >= dropped}
        keccak_rounds(dropped) ==
            MapThenSumSet(keccaks, Kept(dropped))
                + hash_count(mmr_size, DYNAMIC_BATCH_SIZE_START - dropped)
    IN  DYNAMIC_BATCH_SIZE_START
            - Min({d \in 0 .. Cardinality(found) : keccak_rounds(d) <= MAX_KECCAK_ROUNDS})

(* The limit of a job is far above what extending the MMR alone takes, and *)
(* above what a job of any one block takes.                                *)
ASSUME LimitAssumption ==
    \A k \in 1 .. MaxLeaves :
        LET size == Forest!MmrSize(k)
        IN  /\ hash_count(size, DYNAMIC_BATCH_SIZE_START) <= MAX_KECCAK_ROUNDS
            /\ \A b \in Stored : keccaks(b) + hash_count(size, 1) <= MAX_KECCAK_ROUNDS

-----------------------------------------------------------------------------
(* The files of a chunk.                                                   *)

Name == <<from_block_number_high, to_block_number_batch_low>>
Torn == [torn |-> TRUE]

(* The files, after the one of a chunk is written, or replaced.            *)
Written(written, name, content) ==
    [c \in DOMAIN written \union {name} |-> IF c = name THEN content ELSE written[c]]

BlocksOf(from, to) == [i \in 1 .. (from - to + 1) |-> to + i - 1]

ChunkInput(params, from, to) ==
    [ mmr |-> params, from |-> from, to |-> to,
      block_n_plus_one_parent_hash |-> Parent(from + 1),
      blocks |-> BlocksOf(from, to) ]

(* Mutant: the last two parent hashes are those of one block. *)
ChunkOutput_oneParent(params, from, to, new) ==
    [ from |-> from, to |-> to,
      block_n_plus_one_parent_hash         |-> Parent(from + 1),
      block_n_minus_r_plus_one_parent_hash |-> Parent(from),
      mmr_last_roots |-> params.mmr_roots, mmr_last_len |-> params.mmr_size,
      new_mmr_roots  |-> new.mmr_roots,    new_mmr_len  |-> new.mmr_size ]

ChunkOutput(params, from, to, new) ==
    [ from |-> from, to |-> to,
      block_n_plus_one_parent_hash         |-> Parent(from + 1),
      block_n_minus_r_plus_one_parent_hash |-> Parent(to),
      mmr_last_roots |-> params.mmr_roots, mmr_last_len |-> params.mmr_size,
      new_mmr_roots  |-> new.mmr_roots,    new_mmr_len  |-> new.mmr_size ]

-----------------------------------------------------------------------------
Init ==
    /\ pc = "idle"
    /\ request = CHOOSE r \in Request : TRUE
    /\ from_block_number_high = 0 /\ to_block_number_batch_low = 0 /\ batch_size = 1
    /\ last = NewParams
    /\ inputs = <<>> /\ outputs = <<>>
    /\ calls = 0
    /\ returned = {[params |-> NewParams, leaves |-> <<>>]}
    /\ leaves = <<>> /\ chunks = <<>> /\ abandoned = {}

(* Mutant: the batch ends one block too low. *)
BatchLow_below(from, size, to) == Max({from - size, to})

BatchLow(from, size, to) == Max({from - size + 1, to})

(* The next chunk starts at from; the size of its batch may be computed.   *)
StartChunk(from, r, size, mmr_size) ==
    /\ from_block_number_high' = from
    /\ batch_size' = IF r.dynamic THEN compute_dynamic_batch_size(from, mmr_size) ELSE size
    /\ to_block_number_batch_low' = BatchLow(from, batch_size', r.to)

(* A call that is refused by one of these conditions writes nothing.       *)
Accepted(r, params) ==
    /\ r.from >= r.to
    /\ r.batch_size > 0
    /\ validate_initial_params(params)
    /\ r.from <= Max(Stored) - 1

prepare_full_chain_inputs(r, initial) ==
    /\ pc = "idle" /\ calls < MaxCalls
    /\ Accepted(r, initial.params)
    /\ pc' = "input"
    /\ request' = r
    /\ last' = initial.params
    /\ StartChunk(r.from, r, r.batch_size, initial.params.mmr_size)
    /\ calls' = calls + 1
    /\ leaves' = initial.leaves
    /\ chunks' = <<>>
    /\ UNCHANGED <<files, returned, abandoned>>

RowsFound ==
    to_block_number_batch_low .. (from_block_number_high + 1) \subseteq Stored

(* The call ends with an exception or is killed.                           *)
BreakOff ==
    /\ pc' = "idle"
    /\ abandoned' = abandoned \union {Name}
    /\ UNCHANGED <<request, loop, calls, returned, leaves, chunks>>

(* The parent hashes come from the blocks at both ends of the chunk and    *)
(* the one above it; all of them must be there.                            *)
prepare_chunk_input ==
    /\ pc = "input"
    /\ IF RowsFound
       THEN /\ inputs' = Written(inputs, Name, ChunkInput(last, from_block_number_high,
                                                          to_block_number_batch_low))
            /\ pc' = "output"
            /\ UNCHANGED <<outputs, request, loop, calls, history>>
       ELSE BreakOff /\ UNCHANGED files

(* Mutant: a file that is already there is kept. *)
WriteOutput_once(new) ==
    outputs' = IF Name \in DOMAIN outputs THEN outputs
               ELSE Written(outputs, Name, ChunkOutput(last, from_block_number_high,
                                                       to_block_number_batch_low, new))

WriteOutput(new) ==
    outputs' = Written(outputs, Name, ChunkOutput(last, from_block_number_high,
                                                  to_block_number_batch_low, new))

(* The loop goes on as long as a block of the range is left; the returned  *)
(* state can be the initial one of a later call.                           *)
NextChunk(new) ==
    LET from == from_block_number_high - batch_size
    IN  /\ last' = new
        /\ leaves' = leaves \o Reverse(BlocksOf(from_block_number_high,
                                                to_block_number_batch_low))
        /\ chunks' = Append(chunks, Name)
        /\ StartChunk(from, request, batch_size, new.mmr_size)
        /\ IF from >= request.to
           THEN pc' = "input" /\ UNCHANGED returned
           ELSE /\ pc' = "idle"
                /\ returned' = returned \union {[params |-> new, leaves |-> leaves']}

finish_chunk ==
    /\ pc = "output"
    /\ IF PeaksFitSize(last)
       THEN LET new == process_chunk(last, BlocksOf(from_block_number_high,
                                                    to_block_number_batch_low))
            IN  /\ WriteOutput(new)
                /\ NextChunk(new)
                /\ abandoned' = abandoned \ {Name}
                /\ UNCHANGED <<request, inputs, calls>>
       ELSE BreakOff /\ UNCHANGED files

(* A kill leaves the file that is being written as it was, or torn.        *)
Interrupt ==
    /\ pc # "idle"
    /\ BreakOff
    /\ \/ UNCHANGED files
       \/ /\ pc = "input" /\ RowsFound
          /\ inputs' = Written(inputs, Name, Torn) /\ UNCHANGED outputs
       \/ /\ pc = "output"
          /\ outputs' = Written(outputs, Name, Torn) /\ UNCHANGED inputs

Next ==
    \/ \E r \in Request, initial \in returned \union OddParams :
        prepare_full_chain_inputs(r, initial)
    \/ prepare_chunk_input
    \/ finish_chunk
    \/ Interrupt

Spec == Init /\ [][Next]_vars

-----------------------------------------------------------------------------
(* Properties.                                                             *)

TypeOK ==
    /\ pc \in {"idle", "input", "output"}
    /\ request \in Request
    /\ {from_block_number_high, to_block_number_batch_low} \subseteq Int
    /\ batch_size \in Nat \ {0}
    /\ calls \in 0 .. MaxCalls
    /\ last.mmr_size \in Nat \ {0}
    /\ \A c \in DOMAIN inputs \union DOMAIN outputs \union abandoned \union ToSet(chunks) :
        c \in Stored \X Stored /\ c[1] >= c[2]

(* Where the chunk after the first i ones has to start.                    *)
ChunkStart(i) == IF i = 0 THEN request.from ELSE chunks[i][2] - 1

AllDone == pc = "idle" /\ chunks # <<>> /\ from_block_number_high < request.to

(* The chunks of a call tile its range from the top, with neither a gap    *)
(* nor an overlap, whatever sizes the batches get; when the loop ends the  *)
(* lowest block is reached and not passed (prepare_inputs_api.py:367-376). *)
TilesTheRange ==
    /\ \A i \in 1 .. Len(chunks) : /\ chunks[i][1] = ChunkStart(i - 1)
                                   /\ request.to <= chunks[i][2]
                                   /\ chunks[i][2] <= chunks[i][1]
    /\ pc # "idle" => /\ from_block_number_high = ChunkStart(Len(chunks))
                      /\ request.to <= to_block_number_batch_low
                      /\ to_block_number_batch_low <= from_block_number_high
    /\ AllDone => ChunkStart(Len(chunks)) = request.to - 1

(* Consecutive jobs of a call can be sent to the contract together: their  *)
(* outputs pass ensureConsecutiveJobs of SharpFactsAggregator.sol.         *)
ChainsForContract ==
    \A i \in 1 .. (Len(chunks) - 1) :
        LET output == outputs[chunks[i]]
            nextOutput == outputs[chunks[i + 1]]
        IN  /\ output.to # 0 /\ output.to - 1 = nextOutput.from
            /\ output.block_n_minus_r_plus_one_parent_hash
                   = nextOutput.block_n_plus_one_parent_hash
            /\ output.new_mmr_roots = nextOutput.mmr_last_roots
            /\ output.new_mmr_len = nextOutput.mmr_last_len

(* The input and the output that share a name belong together, although    *)
(* they are written one after the other and may replace those of earlier   *)
(* calls, except where a call broke off and no later one finished the      *)
(* chunk.                                                                  *)
PairsMatch ==
    \A c \in DOMAIN inputs \ abandoned :
        \/ pc # "idle" /\ c = Name
        \/ /\ c \in DOMAIN outputs
           /\ outputs[c] = ChunkOutput(inputs[c].mmr, c[1], c[2],
                                       process_chunk(inputs[c].mmr, inputs[c].blocks))

(* The hashes of the leaves of an MMR with these blocks. *)
HashesOf(blocks, h) ==
    [i \in 1 .. (Len(blocks) + 1) |-> compute_hashes((<<Seed>> \o blocks)[i])[h]]

(* The state of an MMR that is built at once from these blocks. *)
FromScratch(blocks) ==
    [ mmr_peaks |-> [h \in Hasher |-> Forest!PeakHashes(HashesOf(blocks, h))],
      mmr_size  |-> Forest!MmrSize(Len(blocks) + 1),
      mmr_roots |-> [h \in Hasher |-> Forest!MmrRoot(HashesOf(blocks, h))] ]

(* What a call returns is the state of an MMR that was built at once from  *)
(* all the blocks of that call and of those before it: their peaks, size   *)
(* and roots can be continued from (tools/make/README.md:112).             *)
ResumedAsFromScratch == \A r \in returned : r.params = FromScratch(r.leaves)

(* The rounds of keccak of a job of blocks to .. from on an MMR of n       *)
(* leaves.  Padding fills each header up to a multiple of the rate; a      *)
(* digest of the MMR takes one round.                                      *)
HeaderRounds(b) ==
    Min({k \in 1 .. (BytesLen[b] + 1) : k * KECCAK_FULL_RATE_IN_BYTES > BytesLen[b]})

JobRounds(from, to, n) ==
    LET more == from - to + 1
        parents == Forest!MmrSize(n + more) - Forest!MmrSize(n) - more
        Peaks(m) == Cardinality(Forest!PeakTrees(m))
    IN  MapThenSumSet(HeaderRounds, to .. from) + Peaks(n) + parents + Peaks(n + more)

(* tools/make/README.md:71: with a dynamic batch size the resources are    *)
(* exactly under the limits.  A job takes no more rounds of keccak than    *)
(* there are, and it would with one block more, as long as the search for  *)
(* the size has all the blocks it starts with (prepare_inputs_api.py:221), *)
(* and the MMRs are not made up, in which case process_chunk refuses them. *)
ExactlyUnderTheLimit ==
    /\ pc = "input" /\ request.dynamic /\ PeaksFitSize(last)
    /\ from_block_number_high - DYNAMIC_BATCH_SIZE_START + 1 .. from_block_number_high
           \subseteq Stored
    =>  LET rounds(to) == JobRounds(from_block_number_high, to, Len(leaves) + 1)
        IN  /\ rounds(to_block_number_batch_low) <= MAX_KECCAK_ROUNDS
            /\ \/ to_block_number_batch_low = request.to
               \/ batch_size = DYNAMIC_BATCH_SIZE_START
               \/ rounds(to_block_number_batch_low - 1) > MAX_KECCAK_ROUNDS

=============================================================================
