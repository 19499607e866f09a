------------------------------ MODULE HeaderDb ------------------------------
(***************************************************************************)
(* The header database of the off-chain tools: tools/make/db.py, with      *)
(* fetch_block_headers.py and build_block_header.  A run of the tool       *)
(* checks the table, fetches the headers above it from a node in chunks,   *)
(* each in batches of requests and with retries, inserts a chunk in one    *)
(* transaction, and checks the table again.  Several runs may be going on  *)
(* at once, and each may die at any point.                                 *)
(*                                                                         *)
(* A header is its number, the node's view of the chain it comes from, and *)
(* the optional fields that its encoding includes.                         *)
(***************************************************************************)
EXTENDS Integers, FiniteSets, FiniteSetsExt

CONSTANTS
    Process,             \* the runs of the tool that may go on at once
    HIGH_BLOCK_NUMBER,   \* the last block to fetch
    CHUNK_SIZE,          \* blocks in one transaction
    MAX_RETRIES,         \* attempts to fetch a chunk
    RPC_BATCH_MAX_SIZE,  \* requests in one call of the node
    View,                \* the chains the node may answer from
    OptionalKeys         \* the optional fields of each block

Number == 0 .. HIGH_BLOCK_NUMBER

(* The forks of Ethereum up to Shanghai: each added a field.               *)
Layout == {{}, {"baseFeePerGas"}, {"baseFeePerGas", "withdrawalsRoot"}}

ASSUME DbAssumption ==
    /\ HIGH_BLOCK_NUMBER \in Nat
    /\ {CHUNK_SIZE, MAX_RETRIES, RPC_BATCH_MAX_SIZE} \subseteq Nat \ {0}
    /\ OptionalKeys \in [Number -> Layout]

Header == [number : Number, view : View, fields : Layout]

VARIABLES
    blocks,       \* the table: headers by block number
    pc,           \* what each run does next, or how the last one ended
    start_from,   \* the first block of the chunk
    attempt,      \* attempts to fetch the chunk
    batch,        \* the batch to request next
    all_results,  \* the headers of the chunk fetched so far
    seen          \* the lowest and highest number that a check has read

local == <<start_from, attempt, batch, all_results, seen>>
vars == <<blocks, pc, local>>

Ended == {"done", "corrupt", "failed"}
Running == {"first check", "first count", "resume", "fetch", "insert",
            "last check", "last count"}

TypeOK ==
    /\ DOMAIN blocks \subseteq Number
    /\ \A n \in DOMAIN blocks : blocks[n] \in Header
    /\ pc \in [Process -> Ended \union Running]
    /\ start_from \in [Process -> Nat]
    /\ attempt \in [Process -> 1 .. MAX_RETRIES]
    /\ batch \in [Process -> Nat \ {0}]
    /\ all_results \in [Process -> SUBSET Header]
    /\ seen \in [Process -> Number \X Number]

Init ==
    /\ blocks = [n \in {} |-> n]
    /\ pc = [p \in Process |-> "done"]
    /\ start_from = [p \in Process |-> 0]
    /\ attempt = [p \in Process |-> 1]
    /\ batch = [p \in Process |-> 1]
    /\ all_results = [p \in Process |-> {}]
    /\ seen = [p \in Process |-> <<0, 0>>]

Goto(p, next) == pc' = [pc EXCEPT ![p] = next]

-----------------------------------------------------------------------------
(* Fetching the chunk from start to end, from the highest number down.     *)

end_at(p) == Min({start_from[p] + CHUNK_SIZE - 1, HIGH_BLOCK_NUMBER})
number_of_blocks(p) == end_at(p) - start_from[p] + 1
last_batch_size(p) == number_of_blocks(p) % RPC_BATCH_MAX_SIZE

rpc_batches_amount(p) ==
    number_of_blocks(p) \div RPC_BATCH_MAX_SIZE + (IF last_batch_size(p) = 0 THEN 0 ELSE 1)

(* Mutant: a range that is a multiple of the batch ends in an empty batch. *)
current_batch_size_empty(p) ==
    IF batch[p] = rpc_batches_amount(p) THEN last_batch_size(p) ELSE RPC_BATCH_MAX_SIZE

current_batch_size(p) ==
    IF batch[p] = rpc_batches_amount(p) /\ last_batch_size(p) # 0
    THEN last_batch_size(p) ELSE RPC_BATCH_MAX_SIZE

requests(p) ==
    {end_at(p) - (batch[p] - 1) * RPC_BATCH_MAX_SIZE - j : j \in 0 .. (current_batch_size(p) - 1)}

(* Mutant: the tests are in the other order. *)
build_block_header_london(block) ==
    [ number |-> block.number,
      view   |-> block.view,
      fields |-> IF "baseFeePerGas" \in block.keys THEN {"baseFeePerGas"} ELSE {} ]

(* The layout is chosen by the fields that the block comes with.           *)
build_block_header(block) ==
    [ number |-> block.number,
      view   |-> block.view,
      fields |-> CASE "withdrawalsRoot" \in block.keys -> {"baseFeePerGas", "withdrawalsRoot"}
                   [] "withdrawalsRoot" \notin block.keys /\ "baseFeePerGas" \in block.keys
                        -> {"baseFeePerGas"}
                   [] OTHER -> {} ]

(* The answers to a batch, in any order: all of them from one view.        *)
Answers(numbers) ==
    {{[number |-> n, view |-> view, keys |-> OptionalKeys[n]] : n \in numbers} : view \in View}

fetch_batch(p) ==
    /\ pc[p] = "fetch"
    /\ \E results \in Answers(requests(p)) :
        all_results' =
            [all_results EXCEPT ![p] = @ \union {build_block_header(b) : b \in results}]
    /\ IF batch[p] < rpc_batches_amount(p)
       THEN batch' = [batch EXCEPT ![p] = @ + 1] /\ UNCHANGED pc
       ELSE Goto(p, "insert") /\ UNCHANGED batch
    /\ UNCHANGED <<blocks, start_from, attempt, seen>>

LastAttempt(p) == attempt[p] = MAX_RETRIES

(* No answer, or one that is an error or null: everything fetched of the   *)
(* chunk is dropped, and the last attempt ends the run.                    *)
fetch_fails(p) ==
    /\ pc[p] = "fetch"
    /\ all_results' = [all_results EXCEPT ![p] = {}]
    /\ batch' = [batch EXCEPT ![p] = 1]
    /\ IF LastAttempt(p)
       THEN Goto(p, "failed") /\ UNCHANGED attempt
       ELSE attempt' = [attempt EXCEPT ![p] = @ + 1] /\ UNCHANGED pc
    /\ UNCHANGED <<blocks, start_from, seen>>

-----------------------------------------------------------------------------
(* The chunk goes into the table, all of it or nothing.                    *)

Fetched(p) ==
    [n \in {h.number : h \in all_results[p]} |->
        CHOOSE h \in all_results[p] : h.number = n]

(* Mutant: INSERT OR REPLACE. *)
insert_or_ignore_replacing(p) ==
    [n \in DOMAIN blocks \union DOMAIN Fetched(p) |->
        IF n \in DOMAIN Fetched(p) THEN Fetched(p)[n] ELSE blocks[n]]

insert_or_ignore(p) ==
    [n \in DOMAIN blocks \union DOMAIN Fetched(p) |->
        IF n \in DOMAIN blocks THEN blocks[n] ELSE Fetched(p)[n]]

(* The loop goes on with the chunk above, if there is one.                 *)
StartChunk(p, first) ==
    /\ start_from' = [start_from EXCEPT ![p] = first]
    /\ attempt' = [attempt EXCEPT ![p] = 1]
    /\ batch' = [batch EXCEPT ![p] = 1]
    /\ all_results' = [all_results EXCEPT ![p] = {}]
    /\ Goto(p, IF first <= HIGH_BLOCK_NUMBER THEN "fetch" ELSE "last check")

insert_block_data(p) ==
    /\ pc[p] = "insert"
    /\ blocks' = insert_or_ignore(p)
    /\ StartChunk(p, end_at(p) + 1)
    /\ UNCHANGED seen

-----------------------------------------------------------------------------
(* The integrity check, by two queries: the bounds, and then the count.    *)

get_min_max_block_numbers == <<Min(DOMAIN blocks), Max(DOMAIN blocks)>>

ReadBounds(p, count, passed) ==
    /\ IF DOMAIN blocks = {}
       THEN Goto(p, passed) /\ UNCHANGED seen
       ELSE Goto(p, count) /\ seen' = [seen EXCEPT ![p] = get_min_max_block_numbers]
    /\ UNCHANGED <<blocks, start_from, attempt, batch, all_results>>

(* Mutant: the number of steps between the bounds, not of the blocks. *)
expected_count_steps(p) == seen[p][2] - seen[p][1]

expected_count(p) == seen[p][2] - seen[p][1] + 1

Count(p, passed) ==
    /\ Goto(p, IF expected_count(p) = Cardinality(DOMAIN blocks) THEN passed ELSE "corrupt")
    /\ UNCHANGED <<blocks, local>>

check_db_integrity(p) ==
    \/ pc[p] = "first check" /\ ReadBounds(p, "first count", "resume")
    \/ pc[p] = "first count" /\ Count(p, "resume")
    \/ pc[p] = "last check" /\ ReadBounds(p, "last count", "done")
    \/ pc[p] = "last count" /\ Count(p, "done")

-----------------------------------------------------------------------------
(* The table is created if it is not there.                                *)
setup_db(p) ==
    /\ pc[p] \in Ended
    /\ Goto(p, "first check")
    /\ UNCHANGED <<blocks, local>>

(* Mutant: one block above the highest is skipped. *)
FirstMissing_late == IF DOMAIN blocks = {} THEN 0 ELSE Max(DOMAIN blocks) + 2

FirstMissing == IF DOMAIN blocks = {} THEN 0 ELSE Max(DOMAIN blocks) + 1

resume(p) ==
    /\ pc[p] = "resume"
    /\ StartChunk(p, FirstMissing)
    /\ UNCHANGED <<blocks, seen>>

(* A run is killed, or an exception ends it outside the retries, such as a *)
(* locked table; a transaction that was open is rolled back.               *)
Die(p) ==
    /\ pc[p] \in Running
    /\ Goto(p, "failed")
    /\ UNCHANGED <<blocks, local>>

Step(p) ==
    \/ setup_db(p)
    \/ check_db_integrity(p)
    \/ resume(p)
    \/ fetch_batch(p)
    \/ insert_block_data(p)

Fail(p) == fetch_fails(p) \/ Die(p)

Next == \E p \in Process : Step(p) \/ Fail(p)

Spec == Init /\ [][Next]_vars

(* The tool is run until it is done, and again after that, and from some   *)
(* time on neither the node nor the machine fails.                         *)
FairSpec ==
    /\ Spec
    /\ \A p \in Process : WF_vars(Step(p))
    /\ <>[][\A p \in Process : ~Fail(p)]_vars

-----------------------------------------------------------------------------
(* Properties.                                                             *)

(* Whatever attempt failed and whichever run died between two steps or     *)
(* overtook another one, the table holds every block below its highest     *)
(* one, so that resuming above the highest misses none (db.py:152).        *)
StoredIsAnInitialSegment ==
    \E top \in 0 .. (HIGH_BLOCK_NUMBER + 1) : DOMAIN blocks = 0 .. (top - 1)

(* The encoding that is stored has exactly the fields of the block it is   *)
(* stored for; otherwise it does not hash to the block's hash, and nothing *)
(* before the Cairo program would notice.                                  *)
StoredHeadersHash ==
    \A n \in DOMAIN blocks : blocks[n].number = n /\ blocks[n].fields = OptionalKeys[n]

(* The table implements the log that its readers rely on: a chunk is       *)
(* stored as a whole and only above, and what a reader has once seen is    *)
(* never replaced, even if the node has meanwhile changed its view.        *)
Log == INSTANCE HeaderLog WITH log <- blocks, MaxExtent <- CHUNK_SIZE

ImplementsHeaderLog == Log!Spec

(* The check takes two queries.  A run that raises the alarm has been       *)
(* overtaken by another one, which stored a chunk between the two: what    *)
(* is stored is never at fault (db.py:117-135).                            *)
AlarmMeansOvertaken ==
    [][\A p \in Process :
        pc[p] # "corrupt" /\ pc'[p] = "corrupt" => seen[p][2] < Max(DOMAIN blocks)]_vars

(* tools/make/README.md:56: the database is updated up to the block        *)
(* HIGH_BLOCK_NUMBER, however often a run fails before.                    *)
EventuallyComplete == <>[](DOMAIN blocks = Number)

=============================================================================
