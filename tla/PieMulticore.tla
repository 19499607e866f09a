---------------------------- MODULE PieMulticore ----------------------------
(***************************************************************************)
(* Running the prepared jobs on all cores, the fourth command of           *)
(* tools/make/sharp_submit.py, together with the other three: the jobs are *)
(* dealt out to directories, one per core, and a pool of processes runs    *)
(* the directories in parallel.                                            *)
(***************************************************************************)
EXTENDS SharpSubmit

CONSTANT N_CORES

ASSUME CoresAssumption == N_CORES \in Nat \ {0}

Core == 0 .. (N_CORES - 1)

VARIABLES
    dir,                \* the directory of each core
    filled,             \* how many of them were dealt their files
    work, queue, made,  \* of each core: what is next, its jobs, its last run
    pie_objects,        \* the directory of all pies
    SHUTDOWN_REQUESTED

cores == <<dir, filled, work, queue, made, pie_objects, SHUTDOWN_REQUESTED>>
vars == <<serialVars, cores>>

Init ==
    /\ InitSerial
    /\ dir = [c \in Core |-> [exists |-> FALSE, input |-> NoFiles, output |-> NoFiles]]
    /\ filled = 0
    /\ work = [c \in Core |-> "done"]
    /\ queue = [c \in Core |-> <<>>]
    /\ made = [c \in Core |-> 0]
    /\ pie_objects = NoFiles
    /\ SHUTDOWN_REQUESTED = FALSE

-----------------------------------------------------------------------------
(* Dealing out the files.                                                  *)

get_sort_key(j) == j

Descending(jobs) ==
    [i \in 1 .. Cardinality(jobs) |->
        CHOOSE j \in jobs :
            Cardinality({k \in jobs : get_sort_key(k) > get_sort_key(j)}) = i - 1]

(* Mutant: the files are cut into consecutive pieces. *)
FilesOf_consecutive(c) ==
    LET n == Len(Descending(input_files))
    IN  {Descending(input_files)[i] : i \in {k \in 1 .. n : (k - 1) \div N_CORES = c}}

(* Every N_CORES-th file, from the c-th one.                               *)
FilesOf(c) ==
    LET n == Len(Descending(input_files))
    IN  {Descending(input_files)[i] : i \in {k \in 1 .. n : (k - 1) % N_CORES = c}}

(* With fewer files than cores the other cores' directories are left as    *)
(* they are, or missing.                                                   *)
CoresUsed == Min({N_CORES, Cardinality(input_files)})

(* The files copied before one is found missing.                           *)
Copied(c) ==
    {j \in FilesOf(c) : \A k \in FilesOf(c) :
        get_sort_key(k) > get_sort_key(j) => input[k] # 0 /\ output[k] # 0}

(* Mutant: the directory is not cleared. *)
Dealt_uncleared(c) ==
    [ exists |-> TRUE,
      input  |-> [j \in Job |-> IF j \in Copied(c) THEN input[j] ELSE dir[c].input[j]],
      output |-> [j \in Job |-> IF j \in Copied(c) THEN output[j] ELSE dir[c].output[j]] ]

Dealt(c) ==
    [ exists |-> TRUE,
      input  |-> [j \in Job |-> IF j \in Copied(c) THEN input[j] ELSE 0],
      output |-> [j \in Job |-> IF j \in Copied(c) THEN output[j] ELSE 0] ]

split_inputs_evenly ==
    /\ pc = "split" /\ filled < CoresUsed
    /\ dir' = [dir EXCEPT ![filled] = Dealt(filled)]
    /\ IF \A j \in FilesOf(filled) : input[j] # 0 /\ output[j] # 0
       THEN filled' = filled + 1 /\ UNCHANGED pc
       ELSE pc' = "idle" /\ UNCHANGED filled
    /\ UNCHANGED <<data, call, loop, work, queue, made, pie_objects, SHUTDOWN_REQUESTED>>

StartPool ==
    /\ pc = "split" /\ filled = CoresUsed
    /\ pc' = "pool"
    /\ work' = [c \in Core |-> "list"]
    /\ UNCHANGED <<data, call, loop, dir, filled, queue, made, pie_objects, SHUTDOWN_REQUESTED>>

-----------------------------------------------------------------------------
(* run_for_core: the files of its directory, one after the other; any      *)
(* exception ends the work of this core.                                   *)

SetWork(c, next) == work' = [work EXCEPT ![c] = next]

Proceed(c, jobs) ==
    /\ queue' = [queue EXCEPT ![c] = jobs]
    /\ SetWork(c, IF jobs = <<>> THEN "done" ELSE "run")

unshared == <<data, call, loop, pc, dir, filled, SHUTDOWN_REQUESTED>>

ListFiles(c) ==
    /\ pc = "pool" /\ work[c] = "list"
    /\ IF dir[c].exists
       THEN Proceed(c, Descending(Listed(dir[c].input)))
       ELSE SetWork(c, "failed") /\ UNCHANGED queue
    /\ UNCHANGED <<unshared, made, pie_objects>>

RunHead(c) ==
    /\ work[c] = "run"
    /\ LET j == Head(queue[c])
       IN  IF run_cairo_program(j, dir[c].input[j])
           THEN made' = [made EXCEPT ![c] = dir[c].input[j]] /\ SetWork(c, "check")
           ELSE SetWork(c, "failed") /\ UNCHANGED made
    /\ UNCHANGED <<unshared, queue, pie_objects>>

CheckAndCopy(c) ==
    /\ work[c] = "check"
    /\ LET j == Head(queue[c])
       IN  IF RunIsCorrect(j, made[c], dir[c].output[j])
           THEN pie_objects' = [pie_objects EXCEPT ![j] = made[c]] /\ Proceed(c, Tail(queue[c]))
           ELSE SetWork(c, "failed") /\ UNCHANGED <<queue, pie_objects>>
    /\ UNCHANGED <<unshared, made>>

(* The results of all cores are awaited, even if one has failed or the     *)
(* shutdown was requested.                                                 *)
JoinPool ==
    /\ pc = "pool" /\ \A c \in Core : work[c] \in {"done", "failed"}
    /\ pc' = "idle"
    /\ UNCHANGED <<data, call, loop, cores>>

(* Ctrl+C reaches every process: it ends the runs that are going on, and   *)
(* the handler, which the cores have inherited, does nothing else.         *)
signal_handler ==
    /\ pc = "pool" /\ ~SHUTDOWN_REQUESTED
    /\ SHUTDOWN_REQUESTED' = TRUE
    /\ work' = [c \in Core |-> IF work[c] = "run" THEN "failed" ELSE work[c]]
    /\ UNCHANGED <<data, call, loop, pc, dir, filled, queue, made, pie_objects>>

(* Before the handler is set, Ctrl+C ends the command.                     *)
BreakSplit ==
    /\ pc = "split"
    /\ pc' = "idle"
    /\ UNCHANGED <<data, call, loop, cores>>

-----------------------------------------------------------------------------
CoreStep(c) == ListFiles(c) \/ RunHead(c) \/ CheckAndCopy(c)

MainStep ==
    \/ SerialStep /\ UNCHANGED cores
    \/ split_inputs_evenly
    \/ StartPool
    \/ JoinPool

Next ==
    \/ (User \/ Break) /\ UNCHANGED cores
    \/ \E c \in Commands :
        /\ Start(c)
        /\ filled' = 0 /\ SHUTDOWN_REQUESTED' = FALSE
        /\ UNCHANGED <<dir, work, queue, made, pie_objects>>
    \/ MainStep
    \/ BreakSplit
    \/ signal_handler
    \/ \E c \in Core : CoreStep(c)

Spec == Init /\ [][Next]_vars

-----------------------------------------------------------------------------
(* Properties.                                                             *)

Directory == [exists : BOOLEAN, input : [Job -> Version], output : [Job -> Version]]

TypeOK ==
    /\ TypeOKSerial
    /\ dir \in [Core -> Directory]
    /\ filled \in 0 .. N_CORES
    /\ work \in [Core -> {"list", "run", "check", "done", "failed"}]
    /\ DOMAIN queue = Core /\ DOMAIN made = Core
    /\ pie_objects \in [Job -> Version]
    /\ \A c \in Core : pc = "pool" /\ work[c] \in {"run", "check"} => queue[c] # <<>>

(* Whatever lies in the directories of the cores from earlier commands,    *)
(* whichever core fails, and whenever Ctrl+C comes, the directory of all   *)
(* pies gets only runs within the limits whose output was the one          *)
(* precomputed for them (sharp_submit.py:261-273).                         *)
PieObjectsVerified ==
    \A j \in Listed(pie_objects) :
        /\ <<j, pie_objects[j]>> \in precomputed
        /\ <<j, pie_objects[j]>> \notin Rejected \union TooLarge

(* Both ways in which runs are verified before their pies are used: no     *)
(* other pie is submitted with -pie -sharp, or collected from the cores    *)
(* (sharp_submit.py:261-273, 286-309).                                     *)
OnlyVerifiedPies == SubmittedWereVerified /\ PieObjectsVerified

Joined == pc = "pool" /\ \A c \in Core : work[c] = "done"

(* With as many files as cores, or more, a command whose cores all succeed *)
(* leaves for each job the pie of the input it was given or of a later     *)
(* one, whatever earlier commands have left (sharp_submit.py:111-114).     *)
FullSplitIsCurrent ==
    Joined /\ Cardinality(Listed(asked)) >= N_CORES =>
        \A j \in Listed(asked) : pie_objects[j] >= asked[j]

(* Each file goes to one core, no core gets two files more than another,   *)
(* and the cores work on neighbouring chunks at a time, the highest first  *)
(* (sharp_submit.py:77, 105).                                              *)
SplitIsEven ==
    command = "-pie-multicore" =>
        /\ UNION {FilesOf(c) : c \in Core} = input_files
        /\ \A c, d \in Core : c # d =>
            /\ FilesOf(c) \intersect FilesOf(d) = {}
            /\ Cardinality(FilesOf(c)) <= Cardinality(FilesOf(d)) + 1
            /\ \A i \in 1 .. Cardinality(FilesOf(c)) :
                i < Cardinality(FilesOf(d)) =>
                    Descending(FilesOf(c))[i] > Descending(FilesOf(d))[i + 1]

=============================================================================
