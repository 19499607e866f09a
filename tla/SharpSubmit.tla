---------------------------- MODULE SharpSubmit ----------------------------
(***************************************************************************)
(* Running and submitting the prepared jobs one by one: three of the four  *)
(* commands of tools/make/sharp_submit.py (PieMulticore adds the fourth).  *)
(* Meanwhile jobs may be prepared again.                                   *)
(*                                                                         *)
(* A job is the highest block number in the name of its files, by which    *)
(* they are sorted.  A file is the version of the job it belongs to; 0 is  *)
(* no file.  What the program outputs is the version of its input.         *)
(***************************************************************************)
EXTENDS Integers, Sequences, SequencesExt, FiniteSets, FiniteSetsExt, TLC

CONSTANTS
    Job,
    Commands,      \* the commands that are given
    Rejected,      \* the versions of jobs the Cairo program does not accept
    TooLarge,      \* those beyond MAX_RESOURCES_PER_JOB
    InputKeys,     \* the keys of the input files
    ProgramKeys,   \* the keys that the hints of the program read
    MaxVersion,    \* bound: how often jobs are prepared
    MaxStarts      \* bound: commands

Serial == {"-pie", "-sharp", "-pie -sharp"}
WithPie == {"-pie", "-pie -sharp"}
WithSharp == {"-sharp", "-pie -sharp"}

ASSUME SubmitAssumption ==
    /\ Job \subseteq Nat \ {0} /\ IsFiniteSet(Job)
    /\ Commands \subseteq Serial \union {"-pie-multicore"}
    /\ {MaxVersion, MaxStarts} \subseteq Nat
    /\ Rejected \union TooLarge \subseteq Job \X (1 .. MaxVersion)

Version == 0 .. MaxVersion

VARIABLES
    input, output, pie,      \* the files of each job in the data directory
    version,                 \* the last version that was prepared
    command, starts,
    pc,                      \* what the command does next
    input_files,             \* the jobs that are left of those listed
    current,                 \* the job the loop is at
    sharp_results, results,  \* what was submitted: in memory, in the file
    asked,                   \* history: the inputs when the command started
    precomputed,             \* history: the versions whose output was written
    submitted                \* history: the jobs at SHARP

data == <<input, output, version, precomputed>>
call == <<command, starts, asked>>
loop == <<pie, input_files, current, sharp_results, results, submitted>>
serialVars == <<data, call, pc, loop>>

NoFiles == [j \in Job |-> 0]
Listed(files) == {j \in Job : files[j] # 0}

InitSerial ==
    /\ input = NoFiles /\ output = NoFiles /\ pie = NoFiles
    /\ version = 0 /\ precomputed = {}
    /\ command = "-pie" /\ starts = 0 /\ asked = NoFiles
    /\ pc = "idle"
    /\ input_files = {} /\ current = 0
    /\ sharp_results = NoFiles /\ results = NoFiles /\ submitted = {}

-----------------------------------------------------------------------------
(* The user: jobs are prepared, the last one perhaps without an output, or *)
(* all files but the pies are deleted.                                     *)

Prepare(jobs, complete) ==
    /\ version < MaxVersion
    /\ version' = version + 1
    /\ input' = [j \in Job |-> IF j \in jobs THEN version' ELSE input[j]]
    /\ output' = [j \in Job |-> IF j \in complete THEN version' ELSE output[j]]
    /\ precomputed' = precomputed \union {<<j, version'>> : j \in complete}
    /\ UNCHANGED <<call, pc, loop>>

CleanUp ==
    /\ pc = "idle" /\ Listed(input) # {}
    /\ input' = NoFiles /\ output' = NoFiles
    /\ UNCHANGED <<version, precomputed, call, pc, loop>>

User ==
    \/ \E jobs \in SUBSET Job \ {{}} :
        \/ Prepare(jobs, jobs)
        \/ \E last \in jobs : Prepare(jobs, jobs \ {last})
    \/ CleanUp

(* Each command compiles the program and lists the inputs first.           *)
Start(c) ==
    /\ pc = "idle" /\ starts < MaxStarts
    /\ command' = c
    /\ starts' = starts + 1
    /\ asked' = input
    /\ input_files' = Listed(input)
    /\ sharp_results' = NoFiles
    /\ pc' = IF c \in Serial THEN "next" ELSE "split"
    /\ UNCHANGED <<data, pie, current, results, submitted>>

-----------------------------------------------------------------------------
(* One run of the program on the input of a job; its output, of fourteen   *)
(* felts, is the version of the input.                                     *)

run_cairo_program(j, file) ==
    file # 0 /\ ProgramKeys \subseteq InputKeys /\ <<j, file>> \notin Rejected

assert_execution_resources_under_limits(j, result) == <<j, result>> \notin TooLarge

(* Mutant: the resources are not checked. *)
RunIsCorrect_anySize(j, result, expected_output) == result = expected_output

RunIsCorrect(j, result, expected_output) ==
    result = expected_output /\ assert_execution_resources_under_limits(j, result)

-----------------------------------------------------------------------------
(* The loop over the jobs, which come in no particular order.              *)

NextJob ==
    /\ pc = "next"
    /\ IF input_files = {}
       THEN pc' = "idle" /\ UNCHANGED <<current, input_files>>
       ELSE \E j \in input_files :
            /\ current' = j
            /\ input_files' = input_files \ {j}
            /\ pc' = IF command \in WithPie THEN "run" ELSE "submit"
    /\ UNCHANGED <<data, call, pie, sharp_results, results, submitted>>

RunJob ==
    /\ pc = "run"
    /\ IF run_cairo_program(current, input[current])
       THEN pie' = [pie EXCEPT ![current] = input[current]] /\ pc' = "check"
       ELSE pc' = "idle" /\ UNCHANGED pie
    /\ UNCHANGED <<data, call, input_files, current, sharp_results, results, submitted>>

CheckJob ==
    /\ pc = "check"
    /\ pc' = CASE ~RunIsCorrect(current, pie[current], output[current]) -> "idle"
               [] OTHER -> IF command \in WithSharp THEN "submit" ELSE "next"
    /\ UNCHANGED <<data, call, loop>>

(* What is submitted is the pie that lies in the data directory.           *)
submit_pie_to_sharp ==
    /\ pc = "submit"
    /\ IF pie[current] # 0
       THEN /\ submitted' = submitted \union
                   {[job |-> current, version |-> pie[current], by |-> command]}
            /\ pc' = "save"
       ELSE pc' = "idle" /\ UNCHANGED submitted
    /\ UNCHANGED <<data, call, pie, input_files, current, sharp_results, results>>

(* Mutant: the file holds the last result only. *)
SaveResults_last ==
    /\ pc = "save"
    /\ sharp_results' = [NoFiles EXCEPT ![current] = pie[current]]
    /\ results' = sharp_results'
    /\ pc' = "next"
    /\ UNCHANGED <<data, call, pie, input_files, current, submitted>>

SaveResults ==
    /\ pc = "save"
    /\ sharp_results' = [sharp_results EXCEPT ![current] = pie[current]]
    /\ results' = sharp_results'
    /\ pc' = "next"
    /\ UNCHANGED <<data, call, pie, input_files, current, submitted>>

(* Ctrl+C, or SHARP that refuses a pie or does not answer.  A run that is  *)
(* killed leaves the pie as it was, or one that cannot be read.            *)
Break ==
    /\ pc \in {"next", "run", "check", "submit", "save"}
    /\ pc' = "idle"
    /\ \/ UNCHANGED pie
       \/ pc = "run" /\ pie' = [pie EXCEPT ![current] = 0]
    /\ UNCHANGED <<data, call, input_files, current, sharp_results, results, submitted>>

SerialStep == NextJob \/ RunJob \/ CheckJob \/ submit_pie_to_sharp \/ SaveResults

-----------------------------------------------------------------------------
(* Properties.                                                             *)

TypeOKSerial ==
    /\ {input, output, pie, sharp_results, results, asked} \subseteq [Job -> Version]
    /\ version \in Version /\ starts \in 0 .. MaxStarts
    /\ pc \in {"idle", "next", "run", "check", "submit", "save", "split", "pool"}
    /\ input_files \subseteq Job /\ current \in Job \union {0}
    /\ precomputed \subseteq Job \X Version

(* With -pie -sharp only a run whose output was the precomputed one, and   *)
(* that stays within the limits of a job, is submitted: even if the job is *)
(* prepared again while it runs, and whatever pie an earlier command, or   *)
(* one that was broken off, has left in its place (sharp_submit.py:286).   *)
SubmittedWereVerified ==
    \A s \in submitted :
        s.by = "-pie -sharp" =>
            /\ <<s.job, s.version>> \in precomputed
            /\ <<s.job, s.version>> \notin Rejected \union TooLarge

(* The jobs that the command is through with: all of those it has listed,  *)
(* but for those that are left and the one it is at or has broken off at.  *)
(* Once it has ended, the last one counts as that; it was there before.    *)
Through == (Listed(asked) \ input_files) \ (IF pc = "next" THEN {} ELSE {current})

(* Wherever the command stands or has broken off, and not only when it gets*)
(* to its end: each job that it is through with is at SHARP, and the file  *)
(* holds the result of each, not only of the last; and nothing else once   *)
(* there is one (sharp_submit.py:313-315).                                 *)
AllResultsAreSaved ==
    command \in WithSharp /\ Through # {} =>
        /\ Through \subseteq Listed(results) /\ Listed(results) \subseteq Listed(asked)
        /\ \A j \in Through :
            [job |-> j, version |-> results[j], by |-> command] \in submitted

(* tools/make/README.md:123: the command runs the chunk processor on all   *)
(* the inputs and creates a pie for each.  The run of a job that fits, of  *)
(* the input that was prepared for it, would then not fail.                *)
RunsOnPreparedInputs ==
    [][RunJob /\ <<current, input[current]>> \notin Rejected /\ input[current] # 0
            => pc' = "check"]_serialVars

=============================================================================
