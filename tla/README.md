# Verification of the off-chain Starknet headers processor

This directory holds TLA+ models of the accumulator of Starknet block headers
in this repository, TLC runs over small instances of them, and TLAPS proofs of
theorems about them. Paths below are relative to the repository (`src/` here is
the repository's root).

## 1. The system

The system keeps, on Ethereum, the root of a Merkle Mountain Range (MMR) whose
leaves are hashes of Starknet block headers, and extends it without any
computation over headers on chain:

1. `tools/make/db.py` fetches headers from a node into an SQLite table.
2. `tools/make/prepare_inputs_api.py` cuts a descending range of blocks into
   chunks, writes the input of one Cairo job for each, and precomputes its
   output with the Python MMR of `tools/py/mmr.py`.
3. `tools/make/sharp_submit.py` runs the Cairo program
   `src/single_chunk_processor/chunk_processor.cairo` on every input (with the
   Rust hint processor or cairo-run), compares the outputs and submits the jobs
   to SHARP, which registers a *fact* for each run it has proved.
4. The contract `SharpFactsAggregator.sol` takes a list of job outputs, checks
   their facts and how they link, and moves its root on. It anchors the chain
   in the block hash that Starknet's core contract reports.
5. `AggregatorsFactory.sol` creates aggregators, new or detached from an
   existing one, and changes their template under a timelock.

### Components

| Component | State | Operations | What is hard | What makes it correct |
|---|---|---|---|---|
| `SharpFactsAggregator.sol` | root, size, continuable hash, cache block -> parent hash, roles, flag | registerNewRange, aggregateSharpJobs, setOperatorRequired, grant/revoke/renounce | late, repeated and reordered outputs; forks in the off-chain database; two index conventions for one cache; the hash zero as "none" | only settled headers enter; no hole becomes unreachable; the MMR only grows |
| `chunk_processor.cairo` | MMR nodes, dictionary of old peaks, index, expected hash | main and its recursions | every hint is the prover's choice; boundary of old and new nodes | accepts exactly linked runs, outputs the root of the extended MMR, always ends |
| `libs/mmr.cairo` | none | size check, height, peaks, bagging | hints, edges of sizes | equals the definition of an MMR, for every choice of the hints |
| `tools/py/mmr.py` | node hashes by position, last position | add, get_peaks, get_root | positions counted from 0 | agrees with the Cairo program |
| `prepare_inputs_api.py` | loop variables, MMR state, files | prepare_full_chain_inputs, dynamic batch size | last and short batches, calls broken off, calls that continue earlier ones | chunks tile the range, outputs chain, file pairs match, returned states can be continued |
| `db.py`, `fetch_block_headers.py`, `block_header.py` | table of headers | fetch, insert, integrity check, resume | retries, partial chunks, deaths, two runs at once, a node that changes its view | no holes, nothing rewritten, right encodings, complete in the end |
| `sharp_submit.py` | files, directories of the cores, results file | four commands: run, run on all cores, submit, run and submit | stale directories, failures half-way, Ctrl+C, jobs prepared again meanwhile | what is submitted or collected was verified; all results are saved |
| `launch_cairo_files.py` | the selected program, its input | run one program, run all tests | another program is named after a compiler error | a program that is named gets its own input |
| `AggregatorsFactory.sol` | template, proposals, aggregators, roles | createAggregator, proposeUpgrade, upgrade | timelock, superseded proposals, detaching | no early or stale upgrade; roles reach the caller |
| `cairo_vm_hints/` | private inputs | one handler per hint | missing fields read as 0 | delivers the input file |
| Starknet core, SHARP registry | settled block, facts | external | | |

They interact by a table (1 to 2), by files (2 to 3), by a registry of facts
(3 to 4) and by calls (5 to 4). Nothing on chain waits for anything off chain:
a contract call is atomic, and everything prepared off chain may be stale by the
time it arrives.

`PROJECT.json` lists the hazards, each at its line with the properties that
would catch it going wrong.

## 2. Modules

| Module | Models | Correspondence |
|---|---|---|
| `MmrForest` | the definition of an MMR, independent of the code | a forest of perfect trees: sizes, positions, peaks, root |
| `Mmr` | `libs/mmr.cairo`, `get_felt_bitlength` | an operator per function. A function that takes hints is the *set* of results the range checks allow |
| `MmrProofs` | | theorems about `Mmr`, compared with the forest as in `MCMmr` |
| `PyMmr` | `tools/py/mmr.py`, `extend_mmr_poseidon` | an operator per function, the MMR object as a record |
| `ChunkJob` | what a Cairo job promises | `ProgramAccepts(input)`, `OutputOf(input)`; the abstract specification the contract relies on |
| `ChunkProcessor` | `chunk_processor.cairo` | one action per recursion step: `CheckPreviousPeaks`, `VerifyHeader`, `CheckBlockNumber`, `AppendLeaf`, `MergeSubtrees`, `StopMerging`, `Finish`; `Reject` is a failed assertion |
| `ChunkProcessorProofs` | | theorems about `ChunkProcessor` |
| `SharpFactsAggregator` | the contract and its environment | one action per external function; `Settle` (Starknet), `PrepareJob` (tools), `RegisterFact` (SHARP) |
| `Accumulator` | what the contract promises to those who verify headers against its MMR | a log of blocks that only grows, by runs that go down from an open block |
| `SharpFactsAggregatorProofs` | | theorems about `SharpFactsAggregator` |
| `AggregatorsFactory` | the factory | one action per external function, role operations included; `Aggregate` stands for whatever an aggregator does on its own, `Tick` for `block.timestamp`. An aggregator's state is one value |
| `DetachedAggregator` | an aggregator and one that `createAggregator` detaches from it | EXTENDS `SharpFactsAggregator` for the original and INSTANCEs it for the other; chain, jobs and facts are shared |
| `DetachedAggregatorProofs` | | theorems about `DetachedAggregator`, which INSTANCEs `SharpFactsAggregatorProofs` |
| `AggregatorsFactoryProofs` | | theorems about `AggregatorsFactory` |
| `HeaderLog` | what the header database promises its readers | a log that grows at its top, by a chunk at most |
| `HeaderDb` | `db.py`, `fetch_block_headers.py`, `build_block_header` | any number of runs at once. Of each, an action per batch of requests, insertion, query of the integrity check; `Fail` is a failed attempt or the death of a run |
| `HeaderDbProofs` | | theorems about `HeaderDb` |
| `PrepareInputs` | `prepare_inputs_api.py`, on the MMR of `PyMmr` | one action per file: `prepare_chunk_input` writes an input, `finish_chunk` extends the MMRs, writes the output and goes on; `Interrupt` kills a call, perhaps within a file |
| `PrepareInputsProofs` | | theorems about `PrepareInputs` |
| `SharpSubmit` | the three commands of `sharp_submit.py` that go through the jobs one by one | an action for each part of the loop; `User` prepares jobs again or deletes files meanwhile |
| `PieMulticore` | the fourth command, and all four after one another | EXTENDS `SharpSubmit`; the dealing of files, one step per core, and an action for each part of `run_for_core` |
| `PieMulticoreProofs` | | theorems about `PieMulticore` with `SharpSubmit` |
| `CairoRunner` | `launch_cairo_files.py` | select, compile, run; `Edit` breaks and repairs programs |
| `MCMmr`, `MCChunkProcessor`, `MCSharpFactsAggregator`, `MCAggregatorsFactory`, `MCDetachedAggregator`, `MCHeaderDb`, `MCPrepareInputs`, `MCPieMulticore`, `MCCairoRunner` | | instances for TLC |

`SharpFactsAggregator` EXTENDS `ChunkJob`, and `ChunkProcessor` is shown to
implement the same `ChunkJob`: that is how the contract's properties rest on
the program without the two state spaces being multiplied. In the same way
`HeaderDb` is shown to implement `HeaderLog`, and `SharpFactsAggregator` to implement
`Accumulator`: a root becomes the numbers of its leaves, and a block is open when
its hash is cached. `ChainsForContract` of
`PrepareInputs` restates the checks of `ensureConsecutiveJobs`, so that what
the tools prepare is what `SharpFactsAggregator` takes.

### Abstractions

- Hashing has no collisions. In `ChunkJob` and above, a header stands for its
  own hash and a root for its sequence of leaves. In `Mmr`, `PyMmr` and
  `ChunkProcessor` the hash of a pair is the pair, so two roots are equal only if
  the nodes they were computed from are.
- A header determines its number and its parent, because its hash commits to
  every field. The three layouts of a header (`starknet_block_header.cairo`)
  are not told apart: the first field, which chooses the layout, is hashed too.
- How a header is hashed into a leaf is not modelled, on either side, and the two
  differ: the tools hash 8-byte chunks of an RLP-encoded header
  (`prepare_inputs_api.py:40-51`), the program the fields of a Starknet header
  (`starknet_block_header.cairo:24-49`). So `PrepareInputs` shows that the outputs of
  the tools are consistent with one another; where tools and program are compared
  (`ToolsAgree`, `ExtensionsAgree`), it is on the same leaf hashes.
- A transaction that reverts is a step that does not happen. Solidity's checked
  arithmetic reverts by itself at block -1 (`SharpFactsAggregator.sol:165`) and below
  block 0 (`:326`), so neither is listed as a hazard.
- `MaxBits` bounds the bit lengths in `PyMmr`, where the code has no bound: 30 in
  `prepare`, and the last index of the table of powers where the two are compared.
- `MaxLeaves`, `MaxJobs`, `MaxOutputs`, `LastBlock`, `RoleCaller`, `MaxTime`,
  `MaxUpgrades`, `MaxAggregators`, `MaxCalls`, `MaxVersion`, `MaxStarts` bound
  the environment and stand in the guards; the code has no such bounds.
- `MaxRange` and `MaxHeight` of `PrepareInputs` stand in no guard: they name how long
  a range and how high an MMR the calls lead to, which the assumptions bound (12 and
  5 in `prepare`).
- `proposals`, `executed`, `inherited`, `prompted` and `ran` are history: no action
  depends on what they hold, except that `createAggregator` of `DetachedAggregator`
  happens once.
- In Cairo a range check accepts 0 .. 2^128 - 1. Every value compared here is
  below 2^127 or is a small negative number, which as a field element is far
  above 2^128; so a range check is `>= 0`.
- Memory the prover leaves open can only be filled by supplying a longer
  input, so reading past the input's headers is a rejection.
- The templates with code are versions of `SharpFactsAggregator`: `initialize`
  and the roles are those of `SharpFactsAggregator.sol`.
- In `HeaderDb` a header is its number, the view of the chain it was taken from
  and the optional fields it was encoded with. The node answers all requests of
  one batch from one view, and may change its view between batches. The layouts
  are those that `build_block_header` knows. The node supplies every field that a
  block has; the code would store a header with a field missing without notice.
- In `PrepareInputs` a block is its number; headers of mixed chains are the
  subject of `SharpFactsAggregator`. A dynamic batch size counts rounds of keccak
  only, as the code does.
- In `SharpSubmit` and `PieMulticore` a file is the version of the job it
  belongs to, and what a run outputs is the version of its input. A file that is
  torn or that a killed run left behind counts as absent: neither can be read.
  The compiled program is written anew at the start of each command and is left
  out.
- The `submission` run leaves `InputKeys` and `ProgramKeys` empty, so that runs can
  succeed; the `keys` run gives them the keys of this repository (see Findings).
- In `CairoRunner` a path matches the names that it ends in, and the first match
  counts. The inputs beside the programs are there or not throughout; those in the data
  directory may be others at each prompt. Flags for profiles and PIEs are left out.
- A prover that hints badly only fails its own run; such runs are left out.
- An input of `ChunkProcessor` names its headers and its anchor by their hashes,
  and its old MMR with its headers appended has no subtree above `MaxHeight`
  (`InputAssumption`, `ForestAssumption`). The code checks sizes against 2^126, so
  `MaxHeight` can be taken as 125, and no array of headers comes near.

## 3. Runs

| Run | Question | Instance |
|---|---|---|
| `aggregator` | Do only settled headers enter, only as linked runs, whatever the database mixed? Can aggregation always go on, is no hole ever lost, and what if the last operator leaves? | blocks 0..3, a fork at 2 and 3, every mix of both, 2 jobs, calls of 1 or 2 outputs, 5 leaves, 1 account that grants, revokes and renounces |
| `direction` | Does the comment at `SharpFactsAggregator.sol:333` describe the check below it? | blocks 0..3, 2 jobs: it does not (violation expected) |
| `mmr` | Is the Cairo arithmetic that of an MMR, for every hint, and that of the tools? | every position and size up to 130 |
| `chunk` | Does the program accept exactly the jobs, output the promised root, as the MMR of the tools, and end? | runs of 1 to 4 blocks on MMRs of 1 to 8 leaves, and each input with one part corrupted |
| `factory` | When does the template change, and to what? What becomes of the roles the factory keeps? | 2 accounts, 2 proposals, delay 2, time 5, 1 aggregator, every exchange of roles |
| `creation` | Has a created aggregator been initialised, as the `require` says? | 1 proposal, 1 aggregator: not with a template without code (violation expected) |
| `detached` | What can a detached aggregator do with a state whose history it does not know? | one chain, 2 jobs, 4 leaves, calls of 1 output, detached at any moment |
| `database` | Is the table without holes and never rewritten, is an alarm always a race, does it get complete? | 2 runs of the tool at once, 7 blocks in chunks of 4, batches of 2, 2 attempts, 2 views of the node, new fields at blocks 2 and 5 |
| `prepare` | Do the chunks tile the range, chain, fill the limit, and leave a state that can be continued? | blocks 0..14 without 2; 7 requests, one with a dynamic size starting at 6 and a limit of 54 rounds; 3 calls, any of which may continue an earlier one or break off |
| `submission` | Is only verified work submitted and collected, are results saved, are files dealt out evenly? | 3 jobs, 2 cores, 4 commands of which 2 are given, 2 versions; job 3 is rejected at first and then too large |
| `keys` | Does the command run the present program on the inputs that are prepared, as `tools/make/README.md:123` says? | 1 job: it cannot (violation expected) |
| `runner` | Does a program that is named get its own input? | 2 tests and the chunk processor, with names that are the end of two paths; programs with and without an input beside them, any of two data files or none at each prompt; 2 starts |

Why the bounds are enough. In `aggregator` two jobs can extend the same root,
extend one another, or overlap; each can be good, on a fork, or mixed; and
Starknet may settle several blocks between any two steps. With two jobs a
range can be registered above an unfinished one and aggregated first; 5 leaves
leave room to resume the older one. The one account is the operator and the
unlocker, and can give up either role; which of several accounts holds a role
is not seen by any guard. Size 130 in `mmr` covers every combination of peaks
below height 6 and the perfect sizes 1, 3, 7, 15, 31, 63, 127 on both sides.
In `chunk` an MMR of 7 leaves that gets one more merges three times through
all its old peaks, and runs of up to four leaves cross that boundary at every
offset. `detached` needs the original to leave a hole, the detached one to
inherit it, and each to go on with a job of its own; `OperatorsRequired` is a
bound of its configuration only (with one account it makes no difference). In
`factory` the second proposal can come before, between and after the delay of
the first. In `database` there is a full chunk and a shorter one, the second
with a short batch, and two runs can overtake one another anywhere. In
`prepare` batches divide a range evenly and unevenly, a call can meet the hole
at its first or at a later chunk, and the six headers that a dynamic size
starts with exceed the limit; the dynamic call has more than one chunk. In
`submission` there are more jobs than cores, as many, or fewer, and the second
command finds what any first one has left.

Deadlock is checked in `database` and `runner`, which have no end. Elsewhere
it is not: a model whose bounds are used up stops, a program that has ended
stops, and `Terminates` says that the Cairo program stops nowhere else.

Fairness. `chunk` and `database` have a liveness property. The Cairo program is
sequential and runs on a prover that carries a run on until it ends, so weak
fairness of `Next` is assumed. `db.py` is run until it is done, and again after
it has ended (`setup_db` is part of `Step`): weak fairness of `Step(p)` for each
run of the tool. Its retries are bounded, so no number of them outlasts a node
that fails for ever; `FairSpec` assumes that from some time on nothing fails,
and says nothing of when. Nothing makes an operator call the contract or the
scripts, so no liveness is claimed of those.

Every property of a passing run has a mutant in `PROJECT.json`: a plausible bug
in the code under which TLC finds the property violated.

## 4. Findings

- The comment at `SharpFactsAggregator.sol:333` says that the next job's from
  block is the previous job's `to block + 1`; the code requires `to block - 1`.
  The code is right, since jobs go down the chain; the comment is not.
- `AggregatorsFactory.sol:131` requires that the initialisation of a clone did
  not fail. It looks at the success of a low-level call, and a call to a clone
  of an address without code succeeds, as do the two `grantRole` after it. An
  operator who proposes a wrong address gets aggregators that are recorded and
  were never initialised. The timelock does not help: nothing looks at the code
  of a template.

- `tools/make/README.md:123` says that `make batch-cairo-pie` "Runs the chunk
  processor on all the inputs files". The inputs that `prepare_inputs_api.py` writes
  are those of an earlier program, with keys such as `block_headers_array`; the
  hints of the present one read `preimages_array` and
  `block_n_plus_one_parent_hash`. No run of the one on the other succeeds. Nor would
  renaming the keys be enough: the two also hash a header into different leaves (see
  Abstractions), so that the outputs the tools precompute are not the program's.

Smaller divergences, met while modelling, that no run shows:

- `tools/make/README.md:71` promises a dynamic batch size "exactly under the
  limits". `ExactlyUnderTheLimit` holds where the search for the size finds all
  the 1700 blocks it starts with. Nearer to block 0, or to a hole of the table,
  it finds fewer; it still drops one of those it found for each block it takes
  off the size (`prepare_inputs_api.py:247`), and so counts rounds for fewer
  blocks than the batch will have.
- `db.py:130` counts the rows in a second query. A run that is overtaken by
  another one in between ends with an alarm although nothing is wrong
  (`AlarmMeansOvertaken` says that this is the only cause).
- With fewer files than cores, `sharp_submit.py:93` leaves the directories of the
  other cores alone: they process what an earlier command has left there, or
  fail where there is none (`sharp_submit.py:237`). `FullSplitIsCurrent` therefore
  asks for as many files as cores.
- Ctrl+C during the multi-core command sets a flag that is read only after all
  cores have ended (`sharp_submit.py:230`). What stops is the runs that the signal
  itself reached.
- `-sharp` alone submits the pies that lie beside the inputs, which
  `-pie-multicore` does not put there (`sharp_submit.py:193`), and which
  `-pie` writes before it checks the run.
- `sharp_submit.py:284` starts from no results, so a command given again after a
  failure overwrites the keys of the jobs that were submitted before it.
- After a compiler error among the tests, `launch_cairo_files.py:122` asks for
  a name, and the program named runs in place of the test. `InputBelongs` covers that
  program; the tests after it also get the input that was selected for it, while
  tests run without one otherwise.
- With no data files, `launch_cairo_files.py:99` keeps the input of a program that
  was selected before. Of this, and of the later tests, `InputBelongs` claims nothing.

An observation that contradicts no text of the repository: a detached aggregator
may lose a hole for good. The original caches the hash below its last header
when it aggregates; `createAggregator` copies that hash as
`continuableParentHash` but not the cache. If a range is registered with the
detached aggregator and aggregated before the inherited one is finished, the
hash is overwritten, and the headers below the inherited ones are out of its
reach. `OwnGapsStayOpen` is the part of `NoLostGap` that survives detaching, and
`DetachedCanContinue` says that until then the inherited hash is still there.

## 5. Proofs

Induction over numbers is given to the provers as the least counterexample of a
set (`InductionAlongInterval`, `SmallestExists`), because they cannot instantiate
the library's induction theorems.

### The contract

`SharpFactsAggregatorProofs`, for every chain, set of forks, tables and bounds,
from the named assumptions (headers are collision free, the canonical chain is
linked, a table holds a header of the right number at each number):

- `TypeCorrect`: `Spec => []TypeOK`.
- `OnlySettledHeadersHolds`, `TrustedHashesHold`: the two safety invariants.
- `Refinement`: `Spec => ImplementsAccumulator`.
- `CanContinueHolds`, `NoLostGapHolds`: the contract can go on, and no hole of the
  history is lost; with `CacheNeverForgets`, on which the second rests.
- `FrozenWithoutOperatorsHolds`: the action property about roles, from the type
  of `hasRole` alone, one case per group of actions.

No safety invariant is inductive. The leaves stay settled only because the hashes
a job may start from are settled; those stay settled only because the run of an
accepted job that starts at a settled header is settled all the way down; and
that needs to know that a registered fact is of an accepted job. `IInv` is the
conjunction of these, with two parts that the later theorems need: the stored
size is that of the stored root (`SizeMatches`; a job is continuable only if both
match), and the contract goes on below its last leaf (`GoesOnBelow`). The core of
the argument is `RunIsCanonical` (by induction along the run, each header is the
parent of the one before) and `JobIsCanonical` (since the LAST number is checked
and the headers are counted, the first number is true as well, although the
program never looks at it). `LastJobSettled` carries this through the jobs of
one call by a second induction, and a third one (`CallExtends`) joins
their runs.

For `Refinement`, registering is `Register`, a call of any number of jobs is one
`AppendRun` (`CallIsOneRun`), `Settle` is itself and every other step is none. A call
is told where to start by a number that nobody checks against the header, and
writes the cache at another number from the last output: that both are the ends
of the run the leaves show follows from the injectivity of `Canonical`. The
refinement needs one more invariant, `ContinuesFromOpen`: the hash of the global
state is always cached as well, so a call that starts from it starts at an open
block. A detached aggregator inherits such a hash without a cache, which is why
this is not part of `IInv`.

For `NoLostGap` a hash that is cached must stay cached. An entry is written at
two places under two conventions, but by `TrustedHashesAreSettled` the value is
determined by the number: an entry that is overwritten is overwritten by itself
(`CacheNeverForgets`). The hash below the last leaf is in the cache because a call
caches it, and an inner leaf of a run is followed by its parent. The property is
proved for the leaves above a given one (`NoLostGapAbove`), since that is what a
detached aggregator keeps.

### The detached aggregator

`DetachedAggregatorProofs`, from the same assumptions:

- `DetachedIsSoundHolds`, `DetachedCanContinueHolds`, `OwnGapsStayOpenHolds`: the
  three invariants of the run.

Nothing is proved twice: `D == INSTANCE SharpFactsAggregatorProofs` with the
detached aggregator's variables gives every lemma about one aggregator for the
other. What remains is that the instance's constants are the same
(`SameSize`, `SameJobs`), that a step of either is a step of the environment or
none for the other, and that `createAggregator` establishes `D!IInv`
(`CreationKeeps`): `IInv` must hold of a state with an empty cache, which is why it
may not say that a cached hash is there. `DetachedInv` adds that the leaves are
the inherited ones or more, and that no hole above these is lost.

### The Cairo program

`ChunkProcessorProofs`, for every set of headers, every set of inputs and every MMR
below the height bound, whatever the prover hints:

- `AcceptsOnlyJobsHolds`: the soundness of the program towards
  `ChunkJob!ProgramAccepts`.
- `OutputIsPromisedHolds`: a program that ends outputs what `ChunkJob!OutputOf` says:
  the root and the size of the MMR whose root it was given, with its headers
  appended in ascending order.
- `ReadsOnlyKnownNodesHolds`: it never reads a node of the old MMR that is not one of
  its checked peaks.
- `RejectsOnlyBadInputsHolds`: it rejects no input that belongs to an MMR and to
  headers that `ChunkJob` accepts.
- `ExtensionsAgreeHolds`: `extend_mmr_poseidon` of the tools, from the peaks of the
  input and the leaf hashes that the program has verified, returns the root and the
  size that the program outputs.
- `TypeCorrect`: `Spec => []TypeOK`.

`AcceptsOnlyJobs` speaks of the last state only. What is inductive (`IInv`) is
that the headers above the index are linked to the anchor and to one another,
that `expected_block_hash` is what the header at the index must hash to, and,
from the number check on, that all headers are linked and the number holds.
`DoneIsAJob` then turns the headers around (`ReverseOfPrefix`), because the input
counts them from the lowest block and a job from the highest.

What is built from the headers needs a second invariant (`NInv`, `BuildHolds`), of
five parts. The input does not say which leaves the old MMR has, only its root; so
every part says what holds for *all* leaves with that root.

- `PeaksAreKnown`: from the first check on, the dictionary holds the peaks of every
  MMR with the root of the input, and only those. The root commits to the size
  (`RootShowsSize`) and, the bagging of as many peaks being injective, to the peaks
  (`RootDetermines`); the keys are right by `PeaksInOrder` (`PeaksChecked`).
- `HashesAreKept`: the hash under index i is that of header i, from the current index
  up.
- `NodesAreBuilt`: a new node stands in the array, at its position less `mmr_offset` and
  with the hash that the leaves give it, if its last leaf was appended, or is being
  appended and it is not higher than `height` (`NodesUpTo`); and the next position, so
  the length of the array, is that of the node that comes next. Before a leaf, all
  subtrees that end with the one before are there.
- `OutputIsMade`: the output has the new root.
- `OnlyBadRejected`: an input that was rejected fails one of the assertions because it
  belongs to no MMR or no run of headers.

The first three are needed together: a leaf's hash comes from the hashes kept, and
when subtrees merge, the left child is either new, and then in the array, or its last
leaf is an old one. In that case it is a peak of the old MMR, because its parent ends
with a leaf beyond the old ones (`NextParent`, `ReadsNode`): the boundary of old and
new nodes that a test of one size does not reach. The program goes on merging exactly
while the next position is that of a parent (`LeafIsNext`, `ParentIsNext`), which rests
on the heights being unique. The peaks of the new MMR are read by the same lemma.

The arithmetic is that of `MmrProofs`, instantiated as `M`; the operators of the two
copies are equal (`SameHeight` to `SameForest`) and its assumptions hold (`Instance`).
For `OnlyBadRejected`, `IInv` also says that the index of a run that has headers stays a
natural number while they are verified.

That the MMR of the tools agrees does not go through the leaves: the input may
come with peaks of which no leaves are known. Instead the program is followed
node by node (`ToolsFollow`, kept by `KeepsTools`). `Known` are the hashes of the old
peaks and of the array, by the position the tools count from 0; that the array of
leaf hashes is that of the headers is `HashesAreKept`. Between two headers
they are the `pos_hash` of the MMR of the tools after the same headers (`After`); while
a header is added they are its `pos_hash` after as many merges (`Adds`). A merge of the
program is due exactly when the loop of `add` goes on, because both find the same
height of the next position (`NextHeight`, from `PyHeightAgrees`), and it hashes the
same two nodes at 0-based positions (`MergesBoth`); when the next position is a leaf
again, the loop of `add` has ended too (`StopsBoth`). The old peaks in the dictionary
are where `extend_mmr_poseidon` starts (`SameStart`, `PeaksAreInput`), and the peaks of
the new MMR are where `get_root` reads them (`RootIsTools`, from `PyPeaks`). The fold over
the headers is a function on the sets of indices that are left (`FoldExists`,
`FoldEquation`).

### The MMR arithmetic

`MmrProofs`, for every table of powers of 2 that doubles, every height of the
forest that leaves two bits of the table, and every number below the perfect
tree of one more level (2^126 and less in the code):

- `BitLengthIsUnique`: `get_felt_bitlength` has at most one result: the two range
  checks hold for one length only, because the table increases (`PowOrder`).
- `HeightIsUniqueHolds`: `compute_height` returns the height the forest has at a
  position, and no hint makes it return another.
- `ValidSizesAreMmrSizesHolds`: `assert_mmr_size_is_valid` passes for the sizes of
  forests and no others, and no hint turns its verdict around.
- `PeaksAreUniqueHolds`: for the size of any forest, `compute_peaks_positions`
  returns the positions of its peaks from left to right, and no hint makes it
  return another list.
- `ToolsAgreeHolds`: `tools/py/mmr.py` finds the same sizes valid, the same height
  at every position and the same peaks of every size, though it counts positions
  from 0, computes its powers and looks for the end of the MMR differently.

For the program above it, also where the node i of height h stands (`At`,
`PositionIsAt`), what its hash is over which leaves (`TreeEquation`, `TreeIsLocal`),
that `bag_peaks` is the bagging of the forest, and what a root determines
(`RootOfLeaves`, `RootShowsSize`, `RootDetermines`).

The provers know nothing of functions that are defined by recursion:
`RecursionExists` constructs them, for any argument with a size that decreases,
so that `compute_height` and `is_valid_mmr_size_inner` satisfy their equations
(`HeightEquation`, `ValidEquation`). The forest is counted by `SplitForest`: a
forest of P(j) + r leaves is a perfect tree and the forest of r leaves, by a
bijection between sets of subtrees; hence the size of every perfect tree and of
the forest one leaf short of it (`SizeOfPower`). A jump to the left in
`compute_height` is this split (`HeightAtPosition`), and so is taking off the
largest peak (`SizeSplits`). The check against `prev_peak` matters at one number
below each power of 2, twice a perfect tree (`NoTwins`).

The peaks take the same split. `compute_first_peak_pos` gives the root of the largest
perfect tree that fits, which is the highest peak (`FirstPeak`); if it is not the
last node, its right sibling is beyond the end, and the jumps down the left children
meet the first peak of the forest that is left (`JumpsToFirstPeak`). From there the
recursion does what it does for that forest alone, at positions that are larger by
the size of the perfect tree (`JumpShifts`, `InnerShifts`). The peaks of the forest
itself split alike (`PeaksAside`, `PositionsAside`), and so does their order: no
other sequence of them descends, because one without the highest peak would be
longer than the peaks it has left (`OrderGrows`). `PeaksInOrder` puts the two
together, by the smallest number of leaves at which they would differ.

The loops of the tools are functions of their variables, constructed by `LoopExists`.
Two of them mirror the recursions of the program (`PyValidAgrees`,
`PyHeightAgrees`). `get_peaks` does not: it finds the first peak by growing a
tree until it does not fit (`PyFirstPeak`), and each next one by
leaving the nodes from the right sibling downwards until one is inside
(`PyRightPeak`). That one is the highest tree of the nodes that are left
(`DownLands`), or there is none exactly when nothing is left
(`DownLandsNowhere`); so the list grows as `PeaksSplit` says (`PyListsNext`). The
power `2^n` of the tools is entry n of the table (`IsPow2Array`), a table of 128
literals that the runs evaluate up to their `MaxBits`.

For the preparation of inputs, also what the tools build when they go on from peaks,
and what they count. `add` keeps a map of the nodes that are complete, with the hash
that the leaves give them (`AddHolds`), so that an extension from the peaks of the
first leaves ends with the peaks, the size and the root of all of them
(`ExtendsForest`); and the merges it counts for one more leaf are those of the
forest (`MergesGrow`, `SizesAre`, `SizeAndPeaks`).

### The factory

`AggregatorsFactoryProofs`, for every set of accounts and templates, every delay
and number of proposals and aggregators:

- `TimelockHoldsAlways`, `FactoryRolesAreIdleAlways`: the two action properties of
  the run.
- `RunsAtMostOnceHolds`: of the history of executions, no proposal occurs twice, and
  none after a later one was made.
- `TypeCorrect`: the template is never the address left by a cleared proposal.

Two invariants are behind them. `PendingAsProposed`: an entry of `upgrades` either is
cleared or still holds what was proposed under its id. Without it the type of the
template could not be kept, since an upgrade reads an entry that an earlier one may
have cleared. `ExecutedAreCleared`: the entry of whatever was executed is cleared, and
as `upgrade` refuses a cleared entry, the next id to be executed is a larger one.

### The database

`HeaderDbProofs`, for any number of runs at once, any last block, and all sizes
of chunks and batches:

- `NoHoles`, `LayoutsMatch`: the two invariants of the `database` run.
- `Refinement`: `Spec => ImplementsHeaderLog`.
- `AlarmsAreRaces`: the action property about the integrity check.
- `TypeCorrect`, which no run checks beside the others.

That the table has no holes is not inductive, because a step inserts whatever
was fetched. `IInv` adds, for each run of the tool, that the table reaches up to
the start of its chunk (`ChunkOf`; it stays so because the table only grows, also
under the feet of a slower run) and that what has been fetched is exactly
the part of the chunk above the batch to request next (`BatchesArrived`); after
the last batch this is all of the chunk. The arithmetic of the short last batch
stands apart in a few lemmas about `Amount`, `Size` and `Upper`.

### The preparation of inputs

`PrepareInputsProofs`, for any database, headers, ranges, batch sizes, fixed or
dynamic, and interruptions:

- `PairsAlwaysMatch`: `Spec => []PairsMatch`. The invariant `PairInv` adds what is
  true between the two files of a chunk: the input on disk is the one that the
  output will be computed from.
- `Tiling`: `Spec => []TilesTheRange`. The invariant `IInv` adds that a chunk in
  progress starts where the last one ended and ends where its size or the range
  does (`AtChunk`).
- `OutputsChain`: `Spec => []ChainsForContract`. Outputs are files that a later
  chunk of the same call could overwrite; `ChainInv` says that the chunks of a call
  lie one below the other, so that their names differ, and that the MMR in memory
  is the one the last output ends with.
- `ResumedAsFromScratchHolds`: `Spec => []ResumedAsFromScratch`. The invariant
  `ResumeInv` says that a call in progress holds the state of the MMRs of the
  blocks of the calls it goes on from and of its own, and how many these can be.
  A chunk keeps it (`ChunkExtends`) because the tools build the forest of any
  leaves from the peaks of the first ones (`ExtendsForest` of `MmrProofs`).
- `ExactlyUnderTheLimitHolds`: `Spec => []ExactlyUnderTheLimit`. The search for a
  size counts what a job takes: for the MMR, twice the number of its peaks and one
  for each block (`HashCountIs`, as a forest has two nodes for each leaf, but for
  its peaks); for the headers, a sum over the blocks, whose order does not matter
  (`RoundsWithout`). The search leaves the blocks from the lowest up (`KeptOfAll`), so
  the size it finds is the largest within the limit (`DynamicSize`); and the last
  batch of a range, which is cut short, takes no more rounds (`RoundsGrow`).

A dynamic size is positive because the limit leaves room for one block, whatever
the MMR (`LimitAssumption`), but that is about the sizes of MMRs: so `IInv`
needs `ResumeInv`, and `ResumeInv` needs where the chunks are. The two are shown
together (`ChunksSound`).

The assumptions. `OddParamsDoNotFit`, of the last two and, where there are dynamic
sizes, of `Tiling` and `OutputsChain`: a state that a caller makes up has not as many
peaks as its size asks for, so that `process_chunk` refuses it. What a call does with
a state that fits but is of no MMR, nothing in the code says. `RoomAssumption` bounds
the ranges and calls, so that all MMRs stay below the height bound. `LimitAssumption`
holds for the limits of the code (8192 rounds, and 1700 blocks as the first size), as a
header takes a few rounds and an extension at most two per peak and one per block. `PowerAssumption` tells the provers
what they do not know of `2^n`. TLC evaluates all of them in `prepare`.

### The submission

`PieMulticoreProofs`, for any jobs, cores, commands, failures and preparations:

- `PiesAreVerified`: `Spec => []OnlyVerifiedPies`.
- `ResultsAreSaved`: `Spec => []AllResultsAreSaved`.
- `SplitIsEvenHolds`: `Spec => []SplitIsEven`.
- `FullSplitIsCurrentHolds`: `Spec => []FullSplitIsCurrent`.
- `TypeCorrect`.

For the first, `IInv` says what holds between a run and the use of its pie: the
result that waits for its check is of a run that succeeded, what waits for its
submission by `-pie -sharp` was verified, and every output file, the copies in
the directories of the cores included, was precomputed. For the second,
`SavedSoFar` counts the jobs the loop is through with: they are those listed at
the start, less those left and the one at hand; when the command ends or breaks off,
no later step touches the file before the next command (`EndingKeepsSaved`). The
third needs no invariant but the theory of dealing: `Descending` lists a set without repetition, because the
number of larger elements is a bijection to 0 .. n - 1 (`DescendingLists`,
`BeforeIsRank`), and a core gets the files whose rank is its own modulo the number
of cores that are used (`FilesAreDealt`, `NextCore`). For the fourth, `CurrentInv`
follows the age of each file: inputs are no older than when they were listed,
the directories that have been filled hold them, and with a file for every core
no directory is left out (`MostDealNothing`), so that the cores and their pies are
current too.

### What the proofs amount to

Together, the proofs about the contract and the program cover the chain of
trust from the first header hashed to the leaves of the root on chain: the contract
accepts only jobs that continue it, and a job that the program ends on outputs the
root of the extended MMR. On the same leaf hashes the MMR of the tools has that root;
that the present tools feed it the program's leaf hashes is not shown, and is not so
(see Findings). What they assume is what `ChunkJob` and `ChunkProcessor` say of hashes
and of the height of the MMR.

Every invariant and action property of the runs is proved, but for the first of
these. Only model-checked:

- `InputBelongs` of `CairoRunner`, on the one instance of the `runner` run;
- the liveness properties `Terminates` and `EventuallyComplete`, which are beyond
  the provers.

## 6. Not modelled, and the plan

Not modelled, for good: the deployment script, `Uint256Splitter.sol` (used by
no contract), `compute_fact.py`, `hints.py` and `convert_input.py` (they format a
hash, a list of strings and a file, and keep no state), the endianness helpers
of `utils.cairo` (used by no program here), the Rust plumbing around cairo-vm,
and delays, statistics and progress messages of the scripts.

What could come next: `Headers`, the composition of database, tools, program and
contract, with liveness under a fair operator.
