------------------------- MODULE PieMulticoreProofs -------------------------
(***************************************************************************)
(* Theorems about PieMulticore, with the commands of SharpSubmit: for any  *)
(* jobs, any number of cores, and any number of commands and preparations. *)
(***************************************************************************)
EXTENDS PieMulticore, FiniteSetTheorems, TLAPS

Verified(j, v) == <<j, v>> \in precomputed /\ <<j, v>> \notin Rejected \union TooLarge

(* What is written as the output of a job was precomputed for it, in the   *)
(* data directory and in the copies that the cores have.                   *)
OutputsPrecomputed ==
    \A j \in Job :
        /\ output[j] # 0 => <<j, output[j]>> \in precomputed
        /\ \A c \in Core : dir[c].output[j] # 0 => <<j, dir[c].output[j]>> \in precomputed

(* Where the loop, or a core, is between a run and its check, it still has *)
(* the result of that run, and before a submission a run that was checked. *)
SerialRun ==
    /\ pc \in {"run", "check", "submit", "save"} => current \in Job
    /\ pc = "check" => pie[current] # 0 /\ <<current, pie[current]>> \notin Rejected
    /\ pc = "submit" /\ command = "-pie -sharp" => Verified(current, pie[current])

CoreRun ==
    \A c \in Core :
        work[c] = "check" => made[c] # 0 /\ <<Head(queue[c]), made[c]>> \notin Rejected

IInv ==
    /\ TypeOK
    /\ OutputsPrecomputed
    /\ SerialRun
    /\ CoreRun
    /\ SubmittedWereVerified
    /\ PieObjectsVerified

-----------------------------------------------------------------------------
LEMMA Initially == Init => IInv
<1> SUFFICES ASSUME Init
             PROVE  IInv
    OBVIOUS
<1> USE DEF Init, InitSerial, NoFiles
<1>1. 0 \in Version /\ [j \in Job |-> 0] \in [Job -> Version]
    BY SubmitAssumption DEF Version
<1>2. TypeOK
    <2>1. TypeOKSerial
        BY <1>1, SubmitAssumption DEF TypeOKSerial
    <2>2. dir \in [Core -> Directory]
        BY <1>1 DEF Directory
    <2>3. filled \in 0 .. N_CORES
        BY CoresAssumption
    <2> QED
        BY <1>1, <2>1, <2>2, <2>3 DEF TypeOK
<1>3. OutputsPrecomputed /\ SerialRun /\ CoreRun
    BY DEF OutputsPrecomputed, SerialRun, CoreRun
<1>4. SubmittedWereVerified /\ PieObjectsVerified
    BY DEF SubmittedWereVerified, PieObjectsVerified, Listed
<1> QED
    BY <1>2, <1>3, <1>4 DEF IInv

(* A step that leaves the cores, what was submitted and the pies alone.    *)
LEMMA Prepares ==
    ASSUME IInv, UNCHANGED cores, NEW jobs \in SUBSET Job, NEW complete \in SUBSET jobs,
           Prepare(jobs, complete)
    PROVE  IInv'
<1> USE SubmitAssumption DEF Prepare, call, loop, cores
<1>1. version' \in Version
    BY DEF IInv, TypeOK, TypeOKSerial, Version
<1>2. input' \in [Job -> Version] /\ output' \in [Job -> Version]
    BY <1>1 DEF IInv, TypeOK, TypeOKSerial
<1>3. precomputed' \subseteq Job \X Version /\ precomputed \subseteq precomputed'
    BY <1>1 DEF IInv, TypeOK, TypeOKSerial
<1>4. TypeOK'
    BY <1>1, <1>2, <1>3, SMTT(20) DEF IInv, TypeOK, TypeOKSerial
<1>5. OutputsPrecomputed'
    BY <1>3 DEF IInv, OutputsPrecomputed
<1>6. SerialRun' /\ CoreRun' /\ SubmittedWereVerified' /\ PieObjectsVerified'
    BY <1>3 DEF IInv, SerialRun, Verified, CoreRun, SubmittedWereVerified,
       PieObjectsVerified, Listed
<1> QED
    BY <1>4, <1>5, <1>6 DEF IInv

LEMMA CleansUp ==
    ASSUME IInv, UNCHANGED cores, CleanUp
    PROVE  IInv'
<1> USE DEF CleanUp, call, loop, cores, NoFiles
<1>1. TypeOK'
    <2>1. input' \in [Job -> Version] /\ output' \in [Job -> Version]
        BY SubmitAssumption DEF Version
    <2> QED
        BY <2>1 DEF IInv, TypeOK, TypeOKSerial
<1>2. OutputsPrecomputed' /\ SerialRun' /\ CoreRun'
    BY DEF IInv, OutputsPrecomputed, SerialRun, CoreRun
<1>3. SubmittedWereVerified' /\ PieObjectsVerified'
    BY DEF IInv, SubmittedWereVerified, PieObjectsVerified, Listed
<1> QED
    BY <1>1, <1>2, <1>3 DEF IInv

LEMMA Starts ==
    ASSUME IInv, NEW c \in Commands, Start(c), filled' = 0, SHUTDOWN_REQUESTED' = FALSE,
           UNCHANGED <<dir, work, queue, made, pie_objects>>
    PROVE  IInv'
<1> USE SubmitAssumption DEF Start, data
<1>1. /\ starts' \in 0 .. MaxStarts
      /\ NoFiles \in [Job -> Version]
      /\ Listed(input) \subseteq Job
      /\ filled' \in 0 .. N_CORES
    BY CoresAssumption DEF IInv, TypeOK, TypeOKSerial, NoFiles, Version, Listed
<1>2. pc' \in {"next", "split"}
    OBVIOUS
<1>3. TypeOK'
    <2>1. TypeOKSerial'
        BY <1>1, <1>2 DEF IInv, TypeOK, TypeOKSerial
    <2> QED
        BY <2>1, <1>1, <1>2 DEF IInv, TypeOK
<1>4. OutputsPrecomputed' /\ SerialRun' /\ CoreRun'
    BY <1>2 DEF IInv, OutputsPrecomputed, SerialRun, CoreRun
<1>5. SubmittedWereVerified' /\ PieObjectsVerified'
    BY DEF IInv, SubmittedWereVerified, PieObjectsVerified, Listed
<1> QED
    BY <1>3, <1>4, <1>5 DEF IInv

-----------------------------------------------------------------------------
(* The loop over the jobs.                                                 *)

LEMMA SerialSteps ==
    ASSUME IInv, UNCHANGED cores, SerialStep
    PROVE  IInv'
<1> USE DEF cores, data, call
<1>0. TypeOK /\ TypeOKSerial
    BY DEF IInv, TypeOK
<1>1. CASE NextJob
    <2>1. /\ pc' \in {"idle", "run", "submit"}
          /\ pc' \in {"run", "submit"} => current' \in Job
          /\ pc' = "submit" => command # "-pie -sharp"
          /\ current' \in Job \union {0} /\ input_files' \subseteq Job
          /\ UNCHANGED <<pie, sharp_results, results, submitted>>
        BY <1>0, <1>1 DEF NextJob, TypeOKSerial, WithPie
    <2>2. TypeOK'
        BY <1>0, <1>1, <2>1 DEF NextJob, TypeOK, TypeOKSerial
    <2>3. OutputsPrecomputed' /\ SerialRun' /\ CoreRun'
        BY <1>1, <2>1 DEF IInv, NextJob, OutputsPrecomputed, SerialRun, CoreRun
    <2>4. SubmittedWereVerified' /\ PieObjectsVerified'
        BY <1>1, <2>1 DEF IInv, NextJob, SubmittedWereVerified, PieObjectsVerified, Listed
    <2> QED
        BY <2>2, <2>3, <2>4 DEF IInv
<1>2. CASE RunJob
    <2>1. current \in Job
        BY <1>2 DEF IInv, SerialRun, RunJob
    <2>2. /\ pc' \in {"check", "idle"}
          /\ pie' \in [Job -> Version]
          /\ pc' = "check" => pie'[current] # 0 /\ <<current, pie'[current]>> \notin Rejected
          /\ UNCHANGED <<input_files, current, sharp_results, results, submitted>>
        BY <1>0, <1>2, <2>1 DEF RunJob, TypeOKSerial, run_cairo_program
    <2>3. TypeOK'
        BY <1>0, <1>2, <2>2 DEF RunJob, TypeOK, TypeOKSerial
    <2>4. OutputsPrecomputed' /\ SerialRun' /\ CoreRun'
        BY <1>2, <2>1, <2>2 DEF IInv, RunJob, OutputsPrecomputed, SerialRun, CoreRun
    <2>5. SubmittedWereVerified' /\ PieObjectsVerified'
        BY <1>2, <2>2 DEF IInv, RunJob, SubmittedWereVerified, PieObjectsVerified, Listed
    <2> QED
        BY <2>3, <2>4, <2>5 DEF IInv
<1>3. CASE CheckJob
    <2>1. current \in Job /\ pie[current] # 0 /\ <<current, pie[current]>> \notin Rejected
        BY <1>3 DEF IInv, SerialRun, CheckJob
    <2>2. pc' \in {"idle", "submit", "next"} /\ UNCHANGED loop
        BY <1>3 DEF CheckJob
    <2>3. pc' = "submit" => Verified(current, pie[current])
        <3>1. ASSUME pc' = "submit"
              PROVE  RunIsCorrect(current, pie[current], output[current])
            BY <1>3, <3>1 DEF CheckJob
        <3> QED
            BY <2>1, <3>1 DEF IInv, OutputsPrecomputed, RunIsCorrect, Verified,
               assert_execution_resources_under_limits
    <2>4. TypeOK'
        BY <1>0, <1>3, <2>2 DEF CheckJob, loop, TypeOK, TypeOKSerial
    <2>5. OutputsPrecomputed' /\ SerialRun' /\ CoreRun'
        BY <1>3, <2>1, <2>2, <2>3
        DEF IInv, CheckJob, loop, OutputsPrecomputed, SerialRun, CoreRun, Verified
    <2>6. SubmittedWereVerified' /\ PieObjectsVerified'
        BY <1>3, <2>2 DEF IInv, CheckJob, loop, SubmittedWereVerified, PieObjectsVerified, Listed
    <2> QED
        BY <2>4, <2>5, <2>6 DEF IInv
<1>4. CASE submit_pie_to_sharp
    <2>1. /\ pc = "submit" /\ current \in Job
          /\ pc' \in {"save", "idle"}
          /\ UNCHANGED <<pie, input_files, current, sharp_results, results>>
        BY <1>4 DEF IInv, SerialRun, submit_pie_to_sharp
    <2>2. TypeOK'
        BY <1>0, <1>4, <2>1 DEF submit_pie_to_sharp, TypeOK, TypeOKSerial
    <2>3. OutputsPrecomputed' /\ SerialRun' /\ CoreRun' /\ PieObjectsVerified'
        BY <1>4, <2>1 DEF IInv, submit_pie_to_sharp, OutputsPrecomputed, SerialRun, CoreRun,
           PieObjectsVerified, Listed
    <2>4. ASSUME NEW s \in submitted', s.by = "-pie -sharp"
          PROVE  Verified(s.job, s.version)
        <3>1. CASE s \in submitted
            BY <2>4, <3>1 DEF IInv, SubmittedWereVerified, Verified
        <3>2. CASE s = [job |-> current, version |-> pie[current], by |-> command]
            BY <2>1, <2>4, <3>2 DEF IInv, SerialRun
        <3> QED
            BY <1>4, <2>4, <3>1, <3>2 DEF submit_pie_to_sharp
    <2>5. SubmittedWereVerified'
        BY <1>4, <2>4 DEF submit_pie_to_sharp, SubmittedWereVerified, Verified
    <2> QED
        BY <2>2, <2>3, <2>5 DEF IInv
<1>5. CASE SaveResults
    <2>1. current \in Job /\ pie[current] \in Version
        BY <1>0, <1>5 DEF IInv, SerialRun, SaveResults, TypeOKSerial
    <2>2. /\ sharp_results' \in [Job -> Version] /\ results' = sharp_results'
          /\ pc' = "next"
          /\ UNCHANGED <<pie, input_files, current, submitted>>
        BY <1>0, <1>5, <2>1 DEF SaveResults, TypeOKSerial
    <2>3. TypeOK'
        BY <1>0, <1>5, <2>2 DEF SaveResults, TypeOK, TypeOKSerial
    <2>4. OutputsPrecomputed' /\ SerialRun' /\ CoreRun'
        BY <1>5, <2>2 DEF IInv, SaveResults, OutputsPrecomputed, SerialRun, CoreRun
    <2>5. SubmittedWereVerified' /\ PieObjectsVerified'
        BY <1>5, <2>2 DEF IInv, SaveResults, SubmittedWereVerified, PieObjectsVerified, Listed
    <2> QED
        BY <2>3, <2>4, <2>5 DEF IInv
<1> QED
    BY <1>1, <1>2, <1>3, <1>4, <1>5 DEF SerialStep

LEMMA Breaks ==
    ASSUME IInv, UNCHANGED cores, Break
    PROVE  IInv'
<1> USE DEF cores, data, call
<1>1. /\ pc' = "idle" /\ pie' \in [Job -> Version]
      /\ UNCHANGED <<input_files, current, sharp_results, results, submitted>>
    <2>1. 0 \in Version /\ pie \in [Job -> Version]
        BY SubmitAssumption DEF IInv, TypeOK, TypeOKSerial, Version
    <2> QED
        BY <2>1 DEF Break
<1>2. TypeOK'
    BY <1>1 DEF IInv, TypeOK, TypeOKSerial, Break
<1>3. OutputsPrecomputed' /\ SerialRun' /\ CoreRun'
    BY <1>1 DEF IInv, Break, OutputsPrecomputed, SerialRun, CoreRun
<1>4. SubmittedWereVerified' /\ PieObjectsVerified'
    BY <1>1 DEF IInv, Break, SubmittedWereVerified, PieObjectsVerified, Listed
<1> QED
    BY <1>2, <1>3, <1>4 DEF IInv

-----------------------------------------------------------------------------
(* The cores.                                                              *)

(* With as many files as cores all directories are filled, and there is    *)
(* one for each core that gets files.                                      *)
LEMMA CoresUsedIsLeast ==
    ASSUME TypeOKSerial
    PROVE  /\ CoresUsed \in Nat /\ CoresUsed <= N_CORES
           /\ Cardinality(input_files) >= N_CORES => CoresUsed = N_CORES
<1> DEFINE m == Cardinality(input_files)
           P(x) == x \in {N_CORES, m} /\ \A y \in {N_CORES, m} : x <= y
<1>1. N_CORES \in Nat /\ m \in Nat
    <2>1. IsFiniteSet(input_files)
        BY SubmitAssumption, FS_Subset DEF TypeOKSerial
    <2> QED
        BY <2>1, FS_CardinalityType, CoresAssumption
<1>2. P(CoresUsed)
    <2>1. \E x : P(x)
        <3> HIDE DEF m
        <3>1. N_CORES <= m \/ m <= N_CORES
            BY <1>1
        <3> QED
            BY <1>1, <3>1
    <2>2. P(CHOOSE x : P(x))
        BY <2>1
    <2>3. CoresUsed = CHOOSE x : P(x)
        BY DEF CoresUsed, Min
    <2> QED
        BY <2>2, <2>3
<1>3. /\ CoresUsed \in Nat /\ CoresUsed <= N_CORES
      /\ m >= N_CORES => CoresUsed = N_CORES
    <2> HIDE DEF m
    <2> QED
        BY <1>1, <1>2
<1> QED
    BY <1>3

LEMMA NextCore ==
    ASSUME TypeOK, filled < CoresUsed
    PROVE  filled \in Core
<1>1. filled \in Nat
    BY DEF TypeOK
<1>2. CoresUsed \in Nat /\ CoresUsed <= N_CORES
    BY CoresUsedIsLeast DEF TypeOK
<1> QED
    BY <1>1, <1>2, CoresAssumption DEF Core

LEMMA Splits ==
    ASSUME IInv, split_inputs_evenly
    PROVE  IInv'
<1> USE DEF split_inputs_evenly, data, call, loop
<1>0. TypeOK /\ TypeOKSerial /\ 0 \in Version
    BY SubmitAssumption DEF IInv, TypeOK, Version
<1>1. filled \in Core
    BY NextCore DEF IInv
<1>2. filled \in Core /\ filled' \in 0 .. N_CORES
    BY <1>1, CoresAssumption DEF Core
<1>3. Dealt(filled) \in Directory
    BY <1>0 DEF Dealt, Directory, TypeOKSerial
<1>4. dir' = [dir EXCEPT ![filled] = Dealt(filled)] /\ dir' \in [Core -> Directory]
    BY <1>0, <1>2, <1>3 DEF TypeOK
<1>5. pc' \in {pc, "idle"} /\ pc = "split"
    OBVIOUS
<1>6. TypeOK'
    <2>1. TypeOKSerial'
        BY <1>0, <1>5 DEF TypeOKSerial
    <2>2. \A c \in Core : {dir'[c].input, dir'[c].output} \subseteq [Job -> Version]
        BY <1>4 DEF Directory
    <2> QED
        BY <1>0, <1>2, <1>4, <1>5, <2>1, <2>2 DEF TypeOK
<1>7. OutputsPrecomputed'
    <2>1. ASSUME NEW j \in Job, NEW c \in Core, dir'[c].output[j] # 0
          PROVE  <<j, dir'[c].output[j]>> \in precomputed
        <3>1. CASE c = filled
            <4>1. dir'[c].output = Dealt(filled).output
                BY <1>0, <1>4, <3>1 DEF TypeOK
            <4>2. dir'[c].output[j] = IF j \in Copied(filled) THEN output[j] ELSE 0
                BY <4>1 DEF Dealt
            <4> QED
                BY <2>1, <4>2 DEF IInv, OutputsPrecomputed
        <3>2. CASE c # filled
            BY <2>1, <1>0, <1>4, <3>2 DEF IInv, OutputsPrecomputed, TypeOK
        <3> QED
            BY <3>1, <3>2
    <2> QED
        BY <2>1 DEF IInv, OutputsPrecomputed
<1>8. SerialRun' /\ CoreRun' /\ SubmittedWereVerified' /\ PieObjectsVerified'
    BY <1>5 DEF IInv, SerialRun, CoreRun, SubmittedWereVerified, PieObjectsVerified, Listed
<1> QED
    BY <1>6, <1>7, <1>8 DEF IInv

LEMMA PoolStarts ==
    ASSUME IInv, StartPool
    PROVE  IInv'
<1> USE DEF StartPool, data, call, loop
<1>1. pc' = "pool" /\ work' = [c \in Core |-> "list"]
    OBVIOUS
<1>2. TypeOK'
    BY <1>1 DEF IInv, TypeOK, TypeOKSerial
<1>3. OutputsPrecomputed' /\ SerialRun' /\ CoreRun'
    BY <1>1 DEF IInv, OutputsPrecomputed, SerialRun, CoreRun
<1>4. SubmittedWereVerified' /\ PieObjectsVerified'
    BY DEF IInv, SubmittedWereVerified, PieObjectsVerified, Listed
<1> QED
    BY <1>2, <1>3, <1>4 DEF IInv

LEMMA CommandEnds ==
    ASSUME IInv, JoinPool \/ BreakSplit
    PROVE  IInv'
<1> USE DEF JoinPool, BreakSplit, data, call, loop, cores
<1>1. pc' = "idle" /\ UNCHANGED <<data, call, loop, cores>>
    OBVIOUS
<1>2. TypeOK'
    BY <1>1 DEF IInv, TypeOK, TypeOKSerial
<1>3. OutputsPrecomputed' /\ SerialRun' /\ CoreRun'
    BY <1>1 DEF IInv, OutputsPrecomputed, SerialRun, CoreRun
<1>4. SubmittedWereVerified' /\ PieObjectsVerified'
    BY <1>1 DEF IInv, SubmittedWereVerified, PieObjectsVerified, Listed
<1> QED
    BY <1>2, <1>3, <1>4 DEF IInv

LEMMA Signalled ==
    ASSUME IInv, signal_handler
    PROVE  IInv'
<1> USE DEF signal_handler, data, call, loop
<1>1. /\ UNCHANGED <<data, call, loop, pc, dir, filled, queue, made, pie_objects>>
      /\ \A c \in Core : work'[c] \in {work[c], "failed"}
      /\ work' = [c \in Core |-> work'[c]]
    OBVIOUS
<1>2. work' \in [Core -> {"list", "run", "check", "done", "failed"}]
    BY <1>1 DEF IInv, TypeOK
<1>3. TypeOK'
    <2>1. \A c \in Core : pc' = "pool" /\ work'[c] \in {"run", "check"} => queue'[c] # <<>>
        BY <1>1 DEF IInv, TypeOK
    <2> QED
        BY <1>1, <1>2, <2>1 DEF IInv, TypeOK, TypeOKSerial
<1>4. OutputsPrecomputed' /\ SerialRun' /\ CoreRun'
    BY <1>1 DEF IInv, OutputsPrecomputed, SerialRun, CoreRun
<1>5. SubmittedWereVerified' /\ PieObjectsVerified'
    BY DEF IInv, SubmittedWereVerified, PieObjectsVerified, Listed
<1> QED
    BY <1>3, <1>4, <1>5 DEF IInv

LEMMA CoreSteps ==
    ASSUME IInv, NEW c \in Core, CoreStep(c)
    PROVE  IInv'
<1> USE DEF unshared, data, call, loop
<1>0. TypeOK /\ TypeOKSerial
    BY DEF IInv, TypeOK
<1>1. ASSUME UNCHANGED unshared, NEW next \in {"run", "check", "done", "failed"},
             work' = [work EXCEPT ![c] = next], DOMAIN queue' = Core, DOMAIN made' = Core,
             pie_objects' \in [Job -> Version],
             \A d \in Core \ {c} : queue'[d] = queue[d] /\ made'[d] = made[d],
             next \in {"run", "check"} => pc # "pool" \/ queue'[c] # <<>>,
             next = "check" => made'[c] # 0 /\ <<Head(queue'[c]), made'[c]>> \notin Rejected
      PROVE  TypeOK' /\ OutputsPrecomputed' /\ SerialRun' /\ CoreRun' /\ SubmittedWereVerified'
    <2>1. work' \in [Core -> {"list", "run", "check", "done", "failed"}]
        BY <1>0, <1>1 DEF TypeOK
    <2>2. work'[c] = next /\ \A d \in Core \ {c} : work'[d] = work[d]
        BY <1>0, <1>1 DEF TypeOK
    <2>3. TypeOKSerial'
        BY <1>0, <1>1 DEF TypeOKSerial
    <2>4. \A d \in Core : pc' = "pool" /\ work'[d] \in {"run", "check"} => queue'[d] # <<>>
        BY <1>0, <1>1, <2>2 DEF TypeOK
    <2>5. TypeOK'
        BY <1>0, <1>1, <2>1, <2>3, <2>4 DEF TypeOK
    <2>6. CoreRun'
        BY <1>1, <2>2 DEF IInv, CoreRun
    <2>7. OutputsPrecomputed' /\ SerialRun' /\ SubmittedWereVerified'
        BY <1>1 DEF IInv, OutputsPrecomputed, SerialRun, SubmittedWereVerified, Verified
    <2> QED
        BY <2>5, <2>6, <2>7
<1>2. CASE ListFiles(c)
    <2>1. /\ UNCHANGED <<unshared, made, pie_objects>>
          /\ DOMAIN queue' = Core
          /\ \A d \in Core \ {c} : queue'[d] = queue[d] /\ made'[d] = made[d]
        BY <1>0, <1>2 DEF ListFiles, Proceed, SetWork, TypeOK
    <2>2. PICK next \in {"done", "run", "failed"} :
            /\ work' = [work EXCEPT ![c] = next]
            /\ next = "run" => queue'[c] # <<>>
        BY <1>0, <1>2 DEF ListFiles, Proceed, SetWork, TypeOK
    <2>3. TypeOK' /\ OutputsPrecomputed' /\ SerialRun' /\ CoreRun' /\ SubmittedWereVerified'
        BY <1>0, <1>1, <2>1, <2>2 DEF TypeOK
    <2>4. PieObjectsVerified'
        BY <2>1 DEF IInv, PieObjectsVerified, Listed
    <2> QED
        BY <2>3, <2>4 DEF IInv
<1>3. CASE RunHead(c)
    <2> DEFINE file == dir[c].input[Head(queue[c])]
    <2>1. /\ UNCHANGED <<unshared, queue, pie_objects>>
          /\ DOMAIN made' = Core
          /\ \A d \in Core \ {c} : queue'[d] = queue[d] /\ made'[d] = made[d]
          /\ pc # "pool" \/ queue'[c] # <<>>
        BY <1>0, <1>3 DEF RunHead, TypeOK
    <2>2. PICK next \in {"check", "failed"} :
            /\ work' = [work EXCEPT ![c] = next]
            /\ next = "check" => made'[c] = file /\ run_cairo_program(Head(queue[c]), file)
        BY <1>0, <1>3 DEF RunHead, SetWork, TypeOK
    <2>3. next = "check" => made'[c] # 0 /\ <<Head(queue'[c]), made'[c]>> \notin Rejected
        BY <2>1, <2>2 DEF run_cairo_program
    <2>4. TypeOK' /\ OutputsPrecomputed' /\ SerialRun' /\ CoreRun' /\ SubmittedWereVerified'
        BY <1>0, <1>1, <2>1, <2>2, <2>3 DEF TypeOK
    <2>5. PieObjectsVerified'
        BY <2>1 DEF IInv, PieObjectsVerified, Listed
    <2> QED
        BY <2>4, <2>5 DEF IInv
<1>4. CASE CheckAndCopy(c)
    <2> DEFINE j == Head(queue[c])
               correct == RunIsCorrect(j, made[c], dir[c].output[j])
    <2>1. /\ UNCHANGED <<unshared, made>> /\ DOMAIN queue' = Core
          /\ \A d \in Core \ {c} : queue'[d] = queue[d] /\ made'[d] = made[d]
        BY <1>0, <1>4 DEF CheckAndCopy, Proceed, SetWork, TypeOK
    <2>2. PICK next \in {"done", "run", "failed"} :
            /\ work' = [work EXCEPT ![c] = next]
            /\ next = "run" => queue'[c] # <<>>
        BY <1>0, <1>4 DEF CheckAndCopy, Proceed, SetWork, TypeOK
    <2>3. \/ correct /\ pie_objects' = [pie_objects EXCEPT ![j] = made[c]]
          \/ pie_objects' = pie_objects
        BY <1>4 DEF CheckAndCopy
    <2>4. correct /\ j \in Job => Verified(j, made[c]) /\ made[c] \in Version
        <3>1. made[c] # 0 /\ <<j, made[c]>> \notin Rejected
            BY <1>4 DEF IInv, CoreRun, CheckAndCopy
        <3> HIDE DEF j
        <3>2. j \in Job => dir[c].output[j] \in Version
            BY <1>0 DEF TypeOK, Directory
        <3> QED
            BY <3>1, <3>2 DEF IInv, OutputsPrecomputed, RunIsCorrect, Verified,
               assert_execution_resources_under_limits
    <2>5. /\ pie_objects' \in [Job -> Version]
          /\ \A k \in Job : \/ pie_objects'[k] = pie_objects[k]
                            \/ k = j /\ correct /\ pie_objects'[k] = made[c]
        <3> HIDE DEF j, correct
        <3> QED
            BY <1>0, <2>3, <2>4 DEF TypeOK
    <2>6. TypeOK' /\ OutputsPrecomputed' /\ SerialRun' /\ CoreRun' /\ SubmittedWereVerified'
        BY <1>0, <1>1, <2>1, <2>2, <2>5 DEF TypeOK
    <2>7. PieObjectsVerified'
        <3> HIDE DEF j, correct
        <3>1. ASSUME NEW k \in Job, pie_objects'[k] # 0
              PROVE  Verified(k, pie_objects'[k])
            BY <3>1, <2>4, <2>5 DEF IInv, PieObjectsVerified, Listed, Verified
        <3> QED
            BY <3>1, <2>1 DEF PieObjectsVerified, Listed, Verified
    <2> QED
        BY <2>6, <2>7 DEF IInv
<1> QED
    BY <1>2, <1>3, <1>4 DEF CoreStep

-----------------------------------------------------------------------------
LEMMA NextKeepsIInv == IInv /\ [Next]_vars => IInv'
<1> SUFFICES ASSUME IInv, [Next]_vars
             PROVE  IInv'
    OBVIOUS
<1>1. CASE UNCHANGED vars
    <2>1. UNCHANGED <<data, call, loop, pc, cores>>
        BY <1>1 DEF vars, serialVars
    <2>2. TypeOK'
        BY <2>1 DEF IInv, TypeOK, TypeOKSerial, data, call, loop, cores
    <2>3. OutputsPrecomputed' /\ SerialRun' /\ CoreRun'
        BY <2>1 DEF IInv, OutputsPrecomputed, SerialRun, Verified, CoreRun, data, call, loop, cores
    <2>4. SubmittedWereVerified' /\ PieObjectsVerified'
        BY <2>1 DEF IInv, SubmittedWereVerified, PieObjectsVerified, Listed, data, loop, cores
    <2> QED
        BY <2>2, <2>3, <2>4 DEF IInv
<1>2. CASE User /\ UNCHANGED cores
    <2>1. CASE CleanUp
        BY <1>2, <2>1, CleansUp
    <2>2. ASSUME NEW jobs \in SUBSET Job, Prepare(jobs, jobs)
          PROVE  IInv'
        BY <1>2, <2>2, Prepares
    <2>3. ASSUME NEW jobs \in SUBSET Job, NEW j \in jobs, Prepare(jobs, jobs \ {j})
          PROVE  IInv'
        <3>1. jobs \ {j} \in SUBSET jobs
            OBVIOUS
        <3> QED
            BY <1>2, <2>3, <3>1, Prepares
    <2> QED
        BY <1>2, <2>1, <2>2, <2>3 DEF User
<1>3. CASE Break /\ UNCHANGED cores
    BY <1>3, Breaks
<1>4. ASSUME NEW c \in Commands, Start(c), filled' = 0, SHUTDOWN_REQUESTED' = FALSE,
             UNCHANGED <<dir, work, queue, made, pie_objects>>
      PROVE  IInv'
    BY <1>4, Starts
<1>5. CASE MainStep
    BY <1>5, SerialSteps, Splits, PoolStarts, CommandEnds DEF MainStep
<1>6. CASE BreakSplit \/ signal_handler
    BY <1>6, CommandEnds, Signalled
<1>7. ASSUME NEW c \in Core, CoreStep(c)
      PROVE  IInv'
    BY <1>7, CoreSteps
<1> QED
    BY <1>1, <1>2, <1>3, <1>4, <1>5, <1>6, <1>7 DEF Next

THEOREM Inductive == Spec => []IInv
<1> QED
    BY Initially, NextKeepsIInv, PTL DEF Spec

(* The files, the loop and the cores have their types.                     *)
THEOREM TypeCorrect == Spec => []TypeOK
<1>1. IInv => TypeOK
    BY DEF IInv
<1> QED
    BY <1>1, Inductive, PTL

(* However the jobs are prepared again meanwhile, commands are broken off, *)
(* and cores fail: what -pie -sharp submits, and what the cores collect,   *)
(* was run within the limits and had the output precomputed for the job.   *)
THEOREM PiesAreVerified == Spec => []OnlyVerifiedPies
<1>1. IInv => OnlyVerifiedPies
    BY DEF IInv, OnlyVerifiedPies
<1> QED
    BY <1>1, Inductive, PTL

-----------------------------------------------------------------------------
(* What is saved.                                                          *)

InLoop == pc \in {"next", "run", "check", "submit", "save"}
AtJob == pc \in {"run", "check", "submit", "save"}

Submission(j, v) == [job |-> j, version |-> v, by |-> command]

(* Of the jobs that a command has listed, the results of those that it is  *)
(* through with are in memory, and so in the file once there is any.       *)
SavedSoFar ==
    InLoop /\ command \in WithSharp =>
        /\ input_files \subseteq Listed(asked)
        /\ AtJob => current \in Listed(asked) \ input_files
        /\ Listed(sharp_results) =
                (Listed(asked) \ input_files) \ (IF AtJob THEN {current} ELSE {})
        /\ Listed(sharp_results) # {} => results = sharp_results
        /\ \A j \in Listed(sharp_results) : Submission(j, sharp_results[j]) \in submitted
        /\ pc = "save" => pie[current] # 0 /\ Submission(current, pie[current]) \in submitted

LEMMA SavedInitially == Init => SavedSoFar
BY DEF Init, InitSerial, SavedSoFar, InLoop

LEMMA NextKeepsSaved == IInv /\ SavedSoFar /\ [Next]_vars => SavedSoFar'
<1> SUFFICES ASSUME IInv, SavedSoFar, [Next]_vars, InLoop', command' \in WithSharp
             PROVE  SavedSoFar'
    BY DEF SavedSoFar
<1> USE DEF InLoop, AtJob, Submission
<1>1. TypeOKSerial
    BY DEF IInv, TypeOK
<1>2. CASE UNCHANGED <<pc, command, asked, input_files, current, sharp_results, results,
                       submitted, pie>>
    BY <1>2 DEF SavedSoFar, Listed
<1>3. CASE UNCHANGED vars \/ User \/ \E c \in Core : CoreStep(c)
    BY <1>2, <1>3 DEF vars, serialVars, call, loop, User, Prepare, CleanUp, CoreStep,
       ListFiles, RunHead, CheckAndCopy, unshared
<1>4. ASSUME NEW c \in Commands, Start(c)
      PROVE  SavedSoFar'
    <2>1. /\ pc' = "next" /\ asked' = input /\ input_files' = Listed(input)
          /\ sharp_results' = NoFiles
        BY <1>4 DEF Start
    <2>2. Listed(sharp_results') = {} /\ Listed(asked)' = input_files'
        BY <2>1 DEF Listed, NoFiles
    <2> QED
        BY <2>1, <2>2 DEF SavedSoFar, Listed
<1>5. CASE NextJob
    <2>1. /\ pc = "next" /\ command' = command /\ asked' = asked
          /\ UNCHANGED <<pie, sharp_results, results, submitted>>
          /\ current' \in input_files /\ input_files' = input_files \ {current'}
          /\ pc' \in {"run", "submit"}
        BY <1>5 DEF NextJob, call
    <2>2. /\ input_files \subseteq Listed(asked)
          /\ Listed(sharp_results) = Listed(asked) \ input_files
          /\ Listed(sharp_results) # {} => results = sharp_results
          /\ \A j \in Listed(sharp_results) : Submission(j, sharp_results[j]) \in submitted
        BY <2>1 DEF SavedSoFar
    <2>3. Listed(asked)' = Listed(asked) /\ Listed(sharp_results)' = Listed(sharp_results)
        BY <2>1 DEF Listed
    <2> QED
        BY <2>1, <2>2, <2>3 DEF SavedSoFar
<1>6. CASE RunJob
    <2>1. /\ pc = "run" /\ pc' = "check"
          /\ UNCHANGED <<command, asked, input_files, current, sharp_results, results, submitted>>
        BY <1>6 DEF RunJob, call
    <2> QED
        BY <2>1 DEF SavedSoFar, Listed
<1>7. CASE CheckJob
    <2>1. /\ pc = "check" /\ pc' = "submit"
          /\ UNCHANGED <<command, asked, input_files, current, sharp_results, results, submitted>>
        BY <1>7 DEF CheckJob, call, loop
    <2> QED
        BY <2>1 DEF SavedSoFar, Listed
<1>8. CASE submit_pie_to_sharp
    <2>1. /\ pc = "submit" /\ pc' = "save" /\ pie[current] # 0
          /\ submitted' = submitted \union {Submission(current, pie[current])}
          /\ UNCHANGED <<pie, command, asked, input_files, current, sharp_results, results>>
        BY <1>8 DEF submit_pie_to_sharp, call
    <2> QED
        BY <2>1 DEF SavedSoFar, Listed
<1>9. CASE SaveResults
    <2>1. /\ pc = "save" /\ pc' = "next" /\ current \in Job
          /\ sharp_results' = [sharp_results EXCEPT ![current] = pie[current]]
          /\ results' = sharp_results'
          /\ UNCHANGED <<pie, command, asked, input_files, current, submitted>>
        BY <1>9 DEF IInv, SerialRun, SaveResults, call
    <2>2. /\ input_files \subseteq Listed(asked)
          /\ current \in Listed(asked) \ input_files
          /\ Listed(sharp_results) = (Listed(asked) \ input_files) \ {current}
          /\ \A j \in Listed(sharp_results) : Submission(j, sharp_results[j]) \in submitted
          /\ pie[current] # 0 /\ Submission(current, pie[current]) \in submitted
        BY <2>1 DEF SavedSoFar
    <2>3. \A j \in Job : sharp_results'[j] = IF j = current THEN pie[current] ELSE sharp_results[j]
        BY <1>1, <2>1 DEF TypeOKSerial
    <2>4. /\ Listed(sharp_results)' = Listed(sharp_results) \union {current}
          /\ Listed(asked)' = Listed(asked)
        BY <2>1, <2>2, <2>3 DEF Listed
    <2>5. \A j \in Listed(sharp_results)' : Submission(j, sharp_results[j])' \in submitted'
        BY <2>1, <2>2, <2>3, <2>4 DEF Listed
    <2> QED
        BY <2>1, <2>2, <2>4, <2>5 DEF SavedSoFar
<1>10. CASE MainStep
    BY <1>5, <1>6, <1>7, <1>8, <1>9, <1>10 DEF MainStep, SerialStep, split_inputs_evenly,
       StartPool, JoinPool
<1>11. CASE Break \/ BreakSplit \/ signal_handler
    BY <1>11 DEF Break, BreakSplit, signal_handler
<1> QED
    BY <1>3, <1>4, <1>10, <1>11 DEF Next

(* In the loop, the results in memory are those of the jobs that the       *)
(* command is through with, and the file is as new as the memory.          *)
LEMMA SavedInLoop == SavedSoFar /\ InLoop => AllResultsAreSaved
<1> SUFFICES ASSUME SavedSoFar, InLoop, command \in WithSharp, Through # {}
             PROVE  /\ Through \subseteq Listed(results) /\ Listed(results) \subseteq Listed(asked)
                    /\ \A j \in Through :
                         [job |-> j, version |-> results[j], by |-> command] \in submitted
    BY DEF AllResultsAreSaved
<1>1. Through = Listed(sharp_results)
    BY DEF SavedSoFar, InLoop, AtJob, Through
<1> QED
    BY <1>1 DEF SavedSoFar, Submission, Through

(* A command that ends or breaks off leaves the file as it was.            *)
LEMMA EndingKeepsSaved ==
    IInv /\ SavedSoFar /\ AllResultsAreSaved /\ [Next]_vars => AllResultsAreSaved'
<1> SUFFICES ASSUME IInv, SavedSoFar, AllResultsAreSaved, [Next]_vars, command' \in WithSharp
             PROVE  AllResultsAreSaved'
    BY DEF AllResultsAreSaved
<1>1. CASE InLoop'
    <2>1. SavedSoFar'
        BY NextKeepsSaved
    <2>2. (SavedSoFar /\ InLoop => AllResultsAreSaved)'
        BY SavedInLoop, PTL
    <2> QED
        BY <1>1, <2>1, <2>2
<1>2. ASSUME UNCHANGED <<command, asked, input_files, current, results, submitted>>,
             pc' = "next" => pc = "next"
      PROVE  AllResultsAreSaved'
    <2>1. Through' \subseteq Through
        BY <1>2 DEF Through, Listed
    <2> QED
        BY <1>2, <2>1 DEF AllResultsAreSaved, Listed
<1>3. CASE UNCHANGED vars \/ User \/ \E c \in Core : CoreStep(c)
    BY <1>2, <1>3 DEF vars, serialVars, call, loop, User, Prepare, CleanUp, CoreStep,
       ListFiles, RunHead, CheckAndCopy, unshared
<1>4. ASSUME NEW c \in Commands, Start(c)
      PROVE  AllResultsAreSaved'
    <2>1. c \in Serial /\ pc' = "next"
        BY <1>4 DEF Start, WithSharp, Serial
    <2> QED
        BY <1>1, <2>1 DEF InLoop
<1>5. CASE SerialStep
    <2>1. CASE pc' = "idle"
        BY <1>2, <1>5, <2>1
        DEF SerialStep, NextJob, RunJob, CheckJob, submit_pie_to_sharp, SaveResults, call, loop
    <2>2. pc' \in {"idle", "next", "run", "check", "submit", "save"}
        BY <1>5 DEF SerialStep, NextJob, RunJob, CheckJob, submit_pie_to_sharp, SaveResults
    <2> QED
        BY <1>1, <2>1, <2>2 DEF InLoop
<1>6. CASE split_inputs_evenly \/ StartPool \/ JoinPool \/ signal_handler \/ BreakSplit \/ Break
    BY <1>2, <1>6 DEF split_inputs_evenly, StartPool, JoinPool, signal_handler, BreakSplit,
       Break, call, loop
<1> QED
    BY <1>3, <1>4, <1>5, <1>6 DEF Next, MainStep

(* Wherever a command is or has broken off: what it is through with is at  *)
(* SHARP, and the result of each is in the file.                           *)
THEOREM ResultsAreSaved == Spec => []AllResultsAreSaved
<1>1. Init => AllResultsAreSaved
    BY DEF Init, InitSerial, AllResultsAreSaved, WithSharp
<1>2. Spec => []SavedSoFar
    BY Inductive, SavedInitially, NextKeepsSaved, PTL DEF Spec
<1> QED
    BY <1>1, <1>2, Inductive, EndingKeepsSaved, PTL DEF Spec

-----------------------------------------------------------------------------
(* How the files are dealt out.                                            *)

(* How many of the jobs come before a job.                                 *)
Before(jobs, j) == Cardinality({k \in jobs : get_sort_key(k) > get_sort_key(j)})

LEMMA BeforeIsRank ==
    ASSUME NEW jobs \in SUBSET Int, IsFiniteSet(jobs), NEW j \in jobs
    PROVE  /\ Before(jobs, j) \in 0 .. Cardinality(jobs) - 1
           /\ \A k \in jobs : k > j => Before(jobs, k) < Before(jobs, j)
<1> DEFINE Above(i) == {k \in jobs : get_sort_key(k) > get_sort_key(i)}
<1>1. \A i \in jobs : Above(i) \in SUBSET jobs /\ Above(i) # jobs
    BY DEF get_sort_key
<1>2. ASSUME NEW S \in SUBSET jobs, NEW T \in SUBSET S, T # S
      PROVE  Cardinality(T) \in Nat /\ Cardinality(S) \in Nat /\ Cardinality(T) < Cardinality(S)
    <2>1. IsFiniteSet(S) /\ Cardinality(S) \in Nat
        BY FS_Subset, FS_CardinalityType
    <2>2. IsFiniteSet(T) /\ Cardinality(T) <= Cardinality(S) /\ Cardinality(T) # Cardinality(S)
        BY <1>2, <2>1, FS_Subset
    <2>3. Cardinality(T) \in Nat
        BY <2>2, FS_CardinalityType
    <2> QED
        BY <2>1, <2>2, <2>3
<1>3. Before(jobs, j) \in 0 .. Cardinality(jobs) - 1
    <2>1. Cardinality(Above(j)) \in Nat /\ Cardinality(jobs) \in Nat
          /\ Cardinality(Above(j)) < Cardinality(jobs)
        BY <1>1, <1>2
    <2> QED
        BY <2>1 DEF Before
<1>4. ASSUME NEW k \in jobs, k > j
      PROVE  Before(jobs, k) < Before(jobs, j)
    <2>1. Above(k) \in SUBSET Above(j) /\ Above(k) # Above(j)
        <3>1. \A i \in jobs : i > k => i > j
            BY <1>4
        <3>2. k \in Above(j) /\ k \notin Above(k)
            BY <1>4 DEF get_sort_key
        <3> QED
            BY <3>1, <3>2 DEF get_sort_key
    <2>2. Cardinality(Above(k)) < Cardinality(Above(j))
        BY <1>1, <1>2, <2>1
    <2> QED
        BY <2>2 DEF Before
<1> QED
    BY <1>3, <1>4

(* The list has each job once, at the place that its rank gives it.        *)
LEMMA DescendingLists ==
    ASSUME NEW jobs \in SUBSET Int, IsFiniteSet(jobs)
    PROVE  /\ Cardinality(jobs) \in Nat
           /\ Descending(jobs) \in [1 .. Cardinality(jobs) -> jobs]
           /\ Descending(jobs) \in Seq(jobs) /\ Len(Descending(jobs)) = Cardinality(jobs)
           /\ \A j \in jobs : /\ Before(jobs, j) + 1 \in 1 .. Cardinality(jobs)
                              /\ Descending(jobs)[Before(jobs, j) + 1] = j
           /\ \A i \in 1 .. Cardinality(jobs) : Before(jobs, Descending(jobs)[i]) = i - 1
           /\ \A i, k \in 1 .. Cardinality(jobs) :
                i < k => Descending(jobs)[i] > Descending(jobs)[k]
<1> DEFINE n == Cardinality(jobs)
           place == [j \in jobs |-> Before(jobs, j) + 1]
<1>1. n \in Nat
    BY FS_CardinalityType
<1>2. \A j, k \in jobs : /\ Before(jobs, j) \in 0 .. n - 1
                         /\ j # k => Before(jobs, j) # Before(jobs, k)
                         /\ Before(jobs, j) < Before(jobs, k) => j > k
    <2>1. \A j \in jobs : /\ Before(jobs, j) \in 0 .. n - 1
                          /\ \A k \in jobs : k > j => Before(jobs, k) < Before(jobs, j)
        BY BeforeIsRank
    <2> HIDE DEF n
    <2> QED
        BY <2>1, <1>1
<1>3. place \in Surjection(jobs, 1 .. n)
    <2>1. place \in Injection(jobs, 1 .. n)
        <3> HIDE DEF n
        <3> QED
            BY <1>1, <1>2 DEF Injection, IsInjective
    <2>2. IsFiniteSet(1 .. n) /\ Cardinality(1 .. n) = n
        BY <1>1, FS_Interval
    <2> QED
        BY <2>1, <2>2, FS_Injection
<1>4. \A i \in 1 .. n : \E j \in jobs : Before(jobs, j) = i - 1
    <2> SUFFICES ASSUME NEW i \in 1 .. n
                 PROVE  \E j \in jobs : Before(jobs, j) = i - 1
        OBVIOUS
    <2>1. PICK j \in jobs : place[j] = i
        BY <1>3 DEF Surjection
    <2>2. Before(jobs, j) \in Int /\ i \in Int /\ Before(jobs, j) + 1 = i
        BY <1>1, <1>2, <2>1
    <2> QED
        BY <2>2
<1>5. \A i \in 1 .. n : /\ Descending(jobs)[i] \in jobs
                        /\ Before(jobs, Descending(jobs)[i]) = i - 1
    BY <1>4 DEF Descending, Before
<1>6. Descending(jobs) \in [1 .. n -> jobs]
    BY <1>5 DEF Descending
<1>7. Descending(jobs) \in Seq(jobs) /\ Len(Descending(jobs)) = n
    <2> HIDE DEF n
    <2> QED
        BY <1>1, <1>6
<1>8. ASSUME NEW j \in jobs
      PROVE  Before(jobs, j) + 1 \in 1 .. n /\ Descending(jobs)[Before(jobs, j) + 1] = j
    <2>1. Before(jobs, j) \in 0 .. n - 1
        BY <1>2
    <2>2. Before(jobs, j) + 1 \in 1 .. n /\ (Before(jobs, j) + 1) - 1 = Before(jobs, j)
        BY <1>1, <2>1
    <2>3. Before(jobs, Descending(jobs)[Before(jobs, j) + 1]) = Before(jobs, j)
        BY <1>5, <2>2
    <2> QED
        BY <1>2, <1>5, <2>2, <2>3
<1>9. ASSUME NEW i \in 1 .. n, NEW k \in 1 .. n, i < k
      PROVE  Descending(jobs)[i] > Descending(jobs)[k]
    <2>1. Before(jobs, Descending(jobs)[i]) < Before(jobs, Descending(jobs)[k])
        <3>1. i - 1 < k - 1
            BY <1>1, <1>9
        <3> QED
            BY <1>5, <3>1
    <2> QED
        BY <1>2, <1>5, <2>1
<1> QED
    BY <1>1, <1>5, <1>6, <1>7, <1>8, <1>9

(* A list that has each job once, the higher ones first, is that list.     *)
LEMMA ListIsDescending ==
    ASSUME NEW jobs \in SUBSET Int, NEW q \in Nat, NEW list \in [1 .. q -> jobs],
           \A j \in jobs : \E i \in 1 .. q : list[i] = j,
           \A i, k \in 1 .. q : i < k => list[i] > list[k]
    PROVE  /\ IsFiniteSet(jobs) /\ Cardinality(jobs) = q
           /\ \A i \in 1 .. q : Descending(jobs)[i] = list[i]
<1>1. \A r \in 0 .. q : IsFiniteSet(1 .. r) /\ Cardinality(1 .. r) = r
    BY FS_Interval
<1>2. \A i, k \in 1 .. q : /\ i # k => list[i] # list[k]
                          /\ list[i] > list[k] <=> i < k
    <2> SUFFICES ASSUME NEW i \in 1 .. q, NEW k \in 1 .. q
                 PROVE  /\ i # k => list[i] # list[k]
                        /\ list[i] > list[k] <=> i < k
        OBVIOUS
    <2>1. i < k \/ i = k \/ k < i
        OBVIOUS
    <2>2. list[i] \in Int /\ list[k] \in Int
        OBVIOUS
    <2> QED
        BY <2>1, <2>2
<1>3. ASSUME NEW r \in 0 .. q, NEW S, S = {list[i] : i \in 1 .. r}
      PROVE  IsFiniteSet(S) /\ Cardinality(S) = r
    <2> DEFINE part == [i \in 1 .. r |-> list[i]]
    <2>0. \A i \in 1 .. r : i \in 1 .. q
        OBVIOUS
    <2>1. part \in Surjection(1 .. r, S)
        BY <1>3 DEF Surjection
    <2>2. part \in Injection(1 .. r, S)
        BY <1>2, <1>3, <2>0 DEF Injection, IsInjective
    <2>3. IsFiniteSet(1 .. r) /\ Cardinality(1 .. r) = r
        BY <1>1
    <2> HIDE DEF part
    <2> QED
        BY <2>1, <2>2, <2>3, FS_Surjection
<1>4. IsFiniteSet(jobs) /\ Cardinality(jobs) = q
    <2>1. jobs = {list[i] : i \in 1 .. q}
        OBVIOUS
    <2>2. q \in 0 .. q
        OBVIOUS
    <2> QED
        BY <1>3, <2>1, <2>2
<1>5. ASSUME NEW k \in 1 .. q
      PROVE  Descending(jobs)[k] = list[k]
    <2>1. {j \in jobs : get_sort_key(j) > get_sort_key(list[k])} = {list[i] : i \in 1 .. k - 1}
        <3>1. ASSUME NEW j \in jobs, j > list[k]
              PROVE  \E i \in 1 .. k - 1 : list[i] = j
            <4>1. PICK i \in 1 .. q : list[i] = j
                OBVIOUS
            <4>2. i < k
                BY <1>2, <3>1, <4>1
            <4> QED
                BY <4>1, <4>2
        <3>2. \A i \in 1 .. k - 1 : i \in 1 .. q /\ list[i] \in jobs /\ list[i] > list[k]
            OBVIOUS
        <3> QED
            BY <3>1, <3>2 DEF get_sort_key
    <2>2. Before(jobs, list[k]) = k - 1
        <3>1. k - 1 \in 0 .. q
            OBVIOUS
        <3> QED
            BY <1>3, <2>1, <3>1 DEF Before
    <2>3. Descending(jobs)[Before(jobs, list[k]) + 1] = list[k]
        BY <1>4, DescendingLists
    <2>4. (k - 1) + 1 = k
        OBVIOUS
    <2> QED
        BY <2>2, <2>3, <2>4
<1> QED
    BY <1>4, <1>5

(* The k-th file of a core, among those that are dealt out.                *)
Place(c, k) == c + 1 + (k - 1) * N_CORES

LEMMA FilesOfCore ==
    ASSUME NEW c \in Core, input_files \subseteq Int, IsFiniteSet(input_files)
    PROVE  /\ FilesOf(c) \subseteq input_files
           /\ Cardinality(FilesOf(c)) \in Nat
           /\ \A k \in Nat \ {0} : Place(c, k) <= Cardinality(input_files)
                                    <=> k <= Cardinality(FilesOf(c))
           /\ \A k \in 1 .. Cardinality(FilesOf(c)) :
                /\ Place(c, k) \in 1 .. Cardinality(input_files)
                /\ Descending(FilesOf(c))[k] = Descending(input_files)[Place(c, k)]
<1> DEFINE n == Cardinality(input_files)
           files == Descending(input_files)
           q == IF c < n THEN (n - 1 - c) \div N_CORES + 1 ELSE 0
           list == [k \in 1 .. q |-> files[Place(c, k)]]
<1>1. /\ n \in Nat /\ N_CORES \in Nat \ {0} /\ c \in Nat /\ c < N_CORES
      /\ files \in [1 .. n -> input_files] /\ files \in Seq(input_files) /\ Len(files) = n
      /\ \A i, k \in 1 .. n : i < k => files[i] > files[k]
    BY DescendingLists, CoresAssumption DEF Core
<1> HIDE DEF n, files
<1>2. q \in Nat /\ (q # 0 => c + (q - 1) * N_CORES < n) /\ c + q * N_CORES >= n
    <2>1. CASE c < n
        <3> DEFINE a == n - 1 - c
                   d == a \div N_CORES
                   r == a % N_CORES
        <3>1. a \in Nat
            BY <1>1, <2>1
        <3>2. d \in Nat /\ a = N_CORES * d + r /\ r \in 0 .. N_CORES - 1
            <4> HIDE DEF a
            <4> QED
                BY <1>1, <3>1
        <3>3. q = d + 1
            BY <2>1
        <3>4. N_CORES * d = d * N_CORES /\ (d + 1) * N_CORES = d * N_CORES + N_CORES
            <4> HIDE DEF d
            <4> QED
                BY <1>1, <3>2
        <3> DEFINE p == d * N_CORES
        <3>5. p \in Nat
            <4> HIDE DEF d
            <4> QED
                BY <1>1, <3>2
        <3>6. n = 1 + c + p + r /\ r \in 0 .. N_CORES - 1
            <4>1. n = a + 1 + c
                BY <1>1
            <4> HIDE DEF a, d, r, p
            <4>2. a = p + r
                BY <3>2, <3>4 DEF p
            <4> QED
                BY <4>1, <4>2, <3>2, <3>5, <1>1
        <3> HIDE DEF r, d, q
        <3>7. q - 1 = d
            BY <3>2, <3>3
        <3>8. c + (q - 1) * N_CORES = c + p /\ c + q * N_CORES = c + p + N_CORES
            BY <3>3, <3>4, <3>5, <3>7, <1>1 DEF p
        <3> HIDE DEF p
        <3> QED
            BY <3>2, <3>3, <3>5, <3>6, <3>8, <1>1
    <2>2. CASE ~(c < n)
        <3>1. q = 0
            BY <2>2
        <3> QED
            BY <3>1, <2>2, <1>1
    <2> QED
        BY <2>1, <2>2
<1> HIDE DEF q
<1>3. ASSUME NEW k \in Nat \ {0}
      PROVE  /\ Place(c, k) \in Nat /\ (Place(c, k) - 1) % N_CORES = c
             /\ Place(c, k) <= n <=> k <= q
             /\ \A i \in Nat \ {0} : i < k => Place(c, i) < Place(c, k)
    <2>1. ASSUME NEW i \in Nat, NEW t \in Nat, i < t
          PROVE  i * N_CORES \in Nat /\ t * N_CORES \in Nat
                 /\ i * N_CORES + N_CORES <= t * N_CORES
        <3>1. i * N_CORES \in Nat /\ t * N_CORES \in Nat /\ (t - i - 1) * N_CORES \in Nat
            BY <1>1, <2>1
        <3>2. t * N_CORES = i * N_CORES + N_CORES + (t - i - 1) * N_CORES
            BY <1>1, <2>1
        <3> QED
            BY <1>1, <3>1, <3>2
    <2>2. (k - 1) * N_CORES \in Nat
        BY <1>1
    <2>3. Place(c, k) \in Nat /\ (Place(c, k) - 1) % N_CORES = c
        <3>1. k - 1 \in Nat /\ c \in 0 .. N_CORES - 1
            BY <1>1
        <3>2. (c + (k - 1) * N_CORES) % N_CORES = c
            BY <1>1, <3>1
        <3>3. Place(c, k) - 1 = c + (k - 1) * N_CORES
            BY <1>1, <2>2 DEF Place
        <3> QED
            BY <1>1, <2>2, <3>2, <3>3 DEF Place
    <2>4. Place(c, k) <= n => k <= q
        <3> SUFFICES ASSUME q < k
                     PROVE  ~(Place(c, k) <= n)
            BY <1>2
        <3>1. q = k - 1 \/ q * N_CORES + N_CORES <= (k - 1) * N_CORES
            <4>1. q = k - 1 \/ q < k - 1
                BY <1>2
            <4> QED
                BY <1>2, <2>1, <4>1
        <3>2. q * N_CORES \in Nat
            BY <1>1, <1>2
        <3>3. q * N_CORES <= (k - 1) * N_CORES
            BY <1>1, <2>2, <3>1, <3>2
        <3> DEFINE x == q * N_CORES
                   y == (k - 1) * N_CORES
        <3>4. x \in Nat /\ y \in Nat /\ x <= y /\ c + x >= n /\ Place(c, k) = c + 1 + y
            BY <1>2, <2>2, <3>2, <3>3 DEF Place
        <3> HIDE DEF x, y
        <3> QED
            BY <1>1, <3>4
    <2>5. k <= q => Place(c, k) <= n
        <3> SUFFICES ASSUME k <= q
                     PROVE  Place(c, k) <= n
            OBVIOUS
        <3>1. k = q \/ (k - 1) * N_CORES + N_CORES <= (q - 1) * N_CORES
            <4>1. k = q \/ (k - 1 < q - 1 /\ q - 1 \in Nat)
                BY <1>2
            <4> QED
                BY <2>1, <4>1
        <3>2. (q - 1) * N_CORES \in Nat
            BY <1>1, <1>2
        <3>3. (k - 1) * N_CORES <= (q - 1) * N_CORES
            BY <1>1, <2>2, <3>1, <3>2
        <3> DEFINE x == (q - 1) * N_CORES
                   y == (k - 1) * N_CORES
        <3>4. x \in Nat /\ y \in Nat /\ y <= x /\ c + x < n /\ Place(c, k) = c + 1 + y
            <4>1. q # 0
                BY <1>2
            <4> QED
                BY <1>2, <2>2, <3>2, <3>3, <4>1 DEF Place
        <3> HIDE DEF x, y
        <3> QED
            BY <1>1, <3>4
    <2>6. ASSUME NEW i \in Nat \ {0}, i < k
          PROVE  Place(c, i) < Place(c, k)
        <3>1. i - 1 < k - 1 /\ i - 1 \in Nat /\ k - 1 \in Nat
            BY <2>6
        <3>2. (i - 1) * N_CORES \in Nat /\ (i - 1) * N_CORES + N_CORES <= (k - 1) * N_CORES
            BY <2>1, <3>1
        <3> DEFINE x == (i - 1) * N_CORES
                   y == (k - 1) * N_CORES
        <3>3. x \in Nat /\ y \in Nat /\ x + N_CORES <= y
              /\ Place(c, i) = c + 1 + x /\ Place(c, k) = c + 1 + y
            BY <2>2, <3>2 DEF Place
        <3> HIDE DEF x, y
        <3> QED
            BY <1>1, <3>3
    <2> QED
        BY <2>3, <2>4, <2>5, <2>6
<1>4. FilesOf(c) = {files[i] : i \in {k \in 1 .. n : (k - 1) % N_CORES = c}}
    BY <1>1 DEF FilesOf, files
<1>5. \A k \in 1 .. q : k \in Nat \ {0} /\ Place(c, k) \in 1 .. n
    <2> SUFFICES ASSUME NEW k \in 1 .. q
                 PROVE  k \in Nat \ {0} /\ Place(c, k) \in 1 .. n
        OBVIOUS
    <2>1. k \in Nat \ {0} /\ k <= q
        BY <1>2
    <2>2. Place(c, k) \in Nat /\ Place(c, k) <= n
        BY <1>3, <2>1
    <2>3. Place(c, k) >= 1
        <3>1. (k - 1) * N_CORES \in Nat
            BY <1>1, <2>1
        <3> QED
            BY <1>1, <3>1 DEF Place
    <2> QED
        BY <1>1, <2>1, <2>2, <2>3
<1>6. list \in [1 .. q -> FilesOf(c)]
    BY <1>3, <1>4, <1>5
<1>7. ASSUME NEW j \in FilesOf(c)
      PROVE  \E k \in 1 .. q : list[k] = j
    <2>1. PICK i \in 1 .. n : files[i] = j /\ (i - 1) % N_CORES = c
        BY <1>4
    <2> DEFINE k == (i - 1) \div N_CORES + 1
    <2>2. (i - 1) \div N_CORES \in Nat /\ i - 1 = N_CORES * ((i - 1) \div N_CORES) + c
        <3>1. i - 1 \in Nat
            BY <1>1
        <3> QED
            BY <1>1, <2>1, <3>1
    <2>3. k \in Nat \ {0} /\ k - 1 = (i - 1) \div N_CORES
        BY <2>2
    <2>4. Place(c, k) = i
        <3> HIDE DEF k
        <3>1. i - 1 = N_CORES * (k - 1) + c
            BY <2>2, <2>3
        <3> QED
            BY <1>1, <2>3, <3>1 DEF Place
    <2> HIDE DEF k
    <2>5. k \in 1 .. q
        BY <1>1, <1>2, <1>3, <2>3, <2>4
    <2> QED
        BY <2>1, <2>4, <2>5
<1>8. \A i, k \in 1 .. q : i < k => list[i] > list[k]
    <2> SUFFICES ASSUME NEW i \in 1 .. q, NEW k \in 1 .. q, i < k
                 PROVE  list[i] > list[k]
        OBVIOUS
    <2>1. Place(c, i) < Place(c, k)
        BY <1>3, <1>5
    <2> QED
        BY <1>1, <1>5, <2>1
<1>9. FilesOf(c) \subseteq input_files
    BY <1>1, <1>4
<1>10. /\ Cardinality(FilesOf(c)) = q
       /\ \A k \in 1 .. q : Descending(FilesOf(c))[k] = list[k]
    <2>1. FilesOf(c) \in SUBSET Int
        BY <1>9
    <2> HIDE DEF list
    <2> QED
        BY <1>2, <1>6, <1>7, <1>8, <2>1, ListIsDescending
<1> QED
    BY <1>2, <1>3, <1>5, <1>9, <1>10 DEF n, files

(* Every file goes to one core.                                            *)
LEMMA FilesAreDealt ==
    ASSUME input_files \subseteq Int, IsFiniteSet(input_files)
    PROVE  /\ UNION {FilesOf(c) : c \in Core} = input_files
           /\ \A c, d \in Core : c # d => FilesOf(c) \intersect FilesOf(d) = {}
<1> DEFINE n == Cardinality(input_files)
           files == Descending(input_files)
<1>1. /\ n \in Nat
      /\ files \in [1 .. n -> input_files] /\ Len(files) = n
      /\ \A j \in input_files : \E i \in 1 .. n : files[i] = j
      /\ \A i, k \in 1 .. n : i < k => files[i] > files[k]
    BY DescendingLists
<1>2. \A c : FilesOf(c) = {files[i] : i \in {k \in 1 .. n : (k - 1) % N_CORES = c}}
    BY <1>1 DEF FilesOf
<1> HIDE DEF n, files
<1>3. \A i \in 1 .. n : (i - 1) % N_CORES \in Core
    <2> SUFFICES ASSUME NEW i \in 1 .. n
                 PROVE  (i - 1) % N_CORES \in Core
        OBVIOUS
    <2>1. i - 1 \in Nat
        BY <1>1
    <2> QED
        BY <2>1, CoresAssumption DEF Core
<1>4. ASSUME NEW i \in 1 .. n, NEW k \in 1 .. n, files[i] = files[k]
      PROVE  i = k
    <2>1. i < k \/ i = k \/ k < i
        BY <1>1
    <2>2. files[i] \in Int
        BY <1>1
    <2> QED
        BY <1>1, <1>4, <2>1, <2>2
<1>5. UNION {FilesOf(c) : c \in Core} = input_files
    <2>1. ASSUME NEW j \in input_files
          PROVE  \E c \in Core : j \in FilesOf(c)
        <3>1. PICK i \in 1 .. n : files[i] = j
            BY <1>1
        <3> QED
            BY <1>2, <1>3, <3>1
    <2>2. \A c \in Core : FilesOf(c) \subseteq input_files
        BY <1>1, <1>2
    <2> QED
        BY <2>1, <2>2
<1>6. ASSUME NEW c \in Core, NEW d \in Core, NEW j \in FilesOf(c), j \in FilesOf(d)
      PROVE  c = d
    BY <1>2, <1>4, <1>6
<1> QED
    BY <1>5, <1>6

(* However many files there are, and whatever their numbers: the cores get *)
(* every file once, equally many of them give or take one, and work on     *)
(* neighbouring chunks.                                                    *)
THEOREM SplitIsEvenHolds == Spec => []SplitIsEven
<1>1. TypeOK => SplitIsEven
    <2> SUFFICES ASSUME TypeOK
                 PROVE  SplitIsEven
        OBVIOUS
    <2>1. input_files \subseteq Int /\ IsFiniteSet(input_files)
        <3>1. input_files \in SUBSET Job
            BY DEF TypeOK, TypeOKSerial
        <3>2. Job \subseteq Nat /\ IsFiniteSet(Job)
            BY SubmitAssumption
        <3>3. IsFiniteSet(input_files)
            BY <3>1, <3>2, FS_Subset
        <3> QED
            BY <3>1, <3>2, <3>3
    <2> DEFINE n == Cardinality(input_files)
               files == Descending(input_files)
    <2>2. n \in Nat /\ \A i, k \in 1 .. n : i < k => files[i] > files[k]
        BY <2>1, DescendingLists
    <2> HIDE DEF n, files
    <2>3. ASSUME NEW c \in Core
          PROVE  /\ Cardinality(FilesOf(c)) \in Nat
                 /\ \A k \in Nat \ {0} : Place(c, k) <= n <=> k <= Cardinality(FilesOf(c))
                 /\ \A k \in 1 .. Cardinality(FilesOf(c)) :
                      /\ Place(c, k) \in 1 .. n
                      /\ Descending(FilesOf(c))[k] = files[Place(c, k)]
        BY <2>1, FilesOfCore DEF n, files
    <2>4. ASSUME NEW c \in Core, NEW d \in Core, NEW k \in Nat \ {0}
          PROVE  /\ Place(c, k) \in Nat /\ Place(d, k + 1) \in Nat
                 /\ Place(c, k) < Place(d, k + 1)
        <3>1. (k - 1) * N_CORES \in Nat /\ ((k + 1) - 1) * N_CORES = (k - 1) * N_CORES + N_CORES
            BY CoresAssumption
        <3> DEFINE x == (k - 1) * N_CORES
        <3>2. x \in Nat /\ Place(c, k) = c + 1 + x /\ Place(d, k + 1) = d + 1 + (x + N_CORES)
            BY <3>1 DEF Place
        <3> HIDE DEF x
        <3> QED
            BY <3>2, CoresAssumption DEF Core
    <2>5. ASSUME NEW c \in Core, NEW d \in Core
          PROVE  Cardinality(FilesOf(c)) <= Cardinality(FilesOf(d)) + 1
        <3> DEFINE p == Cardinality(FilesOf(c))
                   q == Cardinality(FilesOf(d))
        <3>1. p \in Nat /\ q \in Nat
            BY <2>3
        <3>2. p > 1 => p - 1 <= q
            <4> SUFFICES ASSUME p > 1
                         PROVE  p - 1 <= q
                OBVIOUS
            <4>1. p \in Nat \ {0} /\ p - 1 \in Nat \ {0} /\ (p - 1) + 1 = p
                BY <3>1
            <4>2. Place(c, p) <= n
                BY <2>3, <4>1
            <4>3. Place(d, p - 1) < Place(c, p) /\ Place(d, p - 1) \in Nat /\ Place(c, p) \in Nat
                BY <2>4, <4>1
            <4>4. Place(d, p - 1) <= n
                BY <2>2, <4>2, <4>3
            <4> QED
                BY <2>3, <4>1, <4>4
        <3>3. p <= q + 1
            <4> HIDE DEF p, q
            <4> QED
                BY <3>1, <3>2
        <3> QED
            BY <3>3
    <2>6. ASSUME NEW c \in Core, NEW d \in Core, NEW i \in 1 .. Cardinality(FilesOf(c)),
                 i < Cardinality(FilesOf(d))
          PROVE  Descending(FilesOf(c))[i] > Descending(FilesOf(d))[i + 1]
        <3>1. i \in Nat \ {0} /\ i + 1 \in 1 .. Cardinality(FilesOf(d))
            BY <2>3, <2>6
        <3>2. Place(c, i) < Place(d, i + 1)
            BY <2>4, <3>1
        <3>3. /\ Place(c, i) \in 1 .. n /\ Place(d, i + 1) \in 1 .. n
              /\ Descending(FilesOf(c))[i] = files[Place(c, i)]
              /\ Descending(FilesOf(d))[i + 1] = files[Place(d, i + 1)]
            BY <2>3, <3>1
        <3> QED
            BY <2>2, <3>2, <3>3
    <2> QED
        BY <2>1, <2>5, <2>6, FilesAreDealt DEF SplitIsEven
<1> QED
    BY <1>1, TypeCorrect, PTL

-----------------------------------------------------------------------------
(* What the cores work on, and what they have done.                        *)

(* No file is of a later version than the last one, and while a command    *)
(* goes on no input becomes older than when it started.                    *)
InputsAreCurrent ==
    /\ \A j \in Job : input[j] <= version
    /\ pc # "idle" => \A j \in Job : asked[j] <= input[j]

(* The directories that were filled hold what is due, and nothing older.   *)
FilledAreCurrent ==
    pc \in {"split", "pool"} =>
        /\ input_files = Listed(asked)
        /\ \A c \in 0 .. filled - 1 :
            /\ FilesOf(c) \subseteq Listed(dir[c].input)
            /\ \A j \in Listed(dir[c].input) : asked[j] <= dir[c].input[j]

Queued(c) == {queue[c][i] : i \in 1 .. Len(queue[c])}

(* Of each job of its directory, a core that has not failed has left a     *)
(* current pie, or still has the job to do.                                *)
CoreIsCurrent(c) ==
    /\ work[c] \in {"run", "check"} => queue[c] \in Seq(Listed(dir[c].input))
    /\ work[c] = "check" => made[c] = dir[c].input[Head(queue[c])]
    /\ \A j \in Listed(dir[c].input) :
        \/ work[c] \in {"list", "failed"}
        \/ work[c] \in {"run", "check"} /\ \E i \in 1 .. Len(queue[c]) : queue[c][i] = j
        \/ asked[j] <= pie_objects[j]

PoolIsCurrent ==
    pc = "pool" /\ Cardinality(Listed(asked)) >= N_CORES =>
        filled = N_CORES /\ \A c \in Core : CoreIsCurrent(c)

CurrentInv == InputsAreCurrent /\ FilledAreCurrent /\ PoolIsCurrent

LEMMA CurrentInitially == Init => CurrentInv
BY SubmitAssumption
DEF Init, InitSerial, NoFiles, CurrentInv, InputsAreCurrent, FilledAreCurrent, PoolIsCurrent

LEMMA InputsStayCurrent == IInv /\ InputsAreCurrent /\ [Next]_vars => InputsAreCurrent'
<1> SUFFICES ASSUME IInv, InputsAreCurrent, [Next]_vars
             PROVE  InputsAreCurrent'
    OBVIOUS
<1>0. /\ input \in [Job -> Version] /\ asked \in [Job -> Version] /\ version \in Version
      /\ Version \subseteq Nat
    BY SubmitAssumption DEF IInv, TypeOK, TypeOKSerial, Version
<1>1. CASE UNCHANGED <<input, version, asked>> /\ (pc' # "idle" => pc # "idle")
    BY <1>1 DEF InputsAreCurrent
<1>2. ASSUME NEW jobs \in SUBSET Job, NEW complete, Prepare(jobs, complete)
      PROVE  InputsAreCurrent'
    <2>1. /\ version' = version + 1 /\ asked' = asked /\ pc' = pc
          /\ \A j \in Job : input'[j] \in {input[j], version + 1}
        BY <1>2 DEF Prepare, call
    <2>2. ASSUME NEW j \in Job
          PROVE  /\ input'[j] <= version + 1
                 /\ pc # "idle" => asked[j] <= input'[j]
        <3>1. /\ input[j] \in Nat /\ asked[j] \in Nat /\ version \in Nat /\ input[j] <= version
              /\ pc # "idle" => asked[j] <= input[j]
            BY <1>0 DEF InputsAreCurrent
        <3> QED
            BY <2>1, <3>1
    <2> QED
        BY <2>1, <2>2 DEF InputsAreCurrent
<1>3. CASE CleanUp
    <2>1. pc' = "idle" /\ version' = version /\ \A j \in Job : input'[j] = 0
        BY <1>3 DEF CleanUp, NoFiles
    <2> QED
        BY <1>0, <2>1 DEF InputsAreCurrent
<1>4. ASSUME NEW c \in Commands, Start(c)
      PROVE  InputsAreCurrent'
    <2>1. asked' = input /\ input' = input /\ version' = version
        BY <1>4 DEF Start, data
    <2>2. ASSUME NEW j \in Job
          PROVE  input[j] <= input[j]
        <3>1. input[j] \in Nat
            BY <1>0
        <3> QED
            BY <3>1
    <2> QED
        BY <2>1, <2>2 DEF InputsAreCurrent
<1>5. CASE SerialStep \/ Break
    BY <1>1, <1>5 DEF SerialStep, NextJob, RunJob, CheckJob, submit_pie_to_sharp, SaveResults,
       Break, data, call
<1>6. CASE split_inputs_evenly \/ StartPool \/ JoinPool \/ BreakSplit \/ signal_handler
    BY <1>1, <1>6 DEF split_inputs_evenly, StartPool, JoinPool, BreakSplit, signal_handler,
       data, call
<1>7. CASE UNCHANGED vars \/ \E c \in Core : CoreStep(c)
    BY <1>1, <1>7 DEF vars, serialVars, CoreStep, ListFiles, RunHead, CheckAndCopy, unshared,
       data, call
<1> QED
    BY <1>2, <1>3, <1>4, <1>5, <1>6, <1>7 DEF Next, User, MainStep

(* The steps that change neither the directories nor what is due.          *)
DealsNothing ==
    pc' \in {"split", "pool"} =>
        pc \in {"split", "pool"} /\ UNCHANGED <<input_files, asked, filled, dir>>

LEMMA MostDealNothing ==
    ASSUME IInv, [Next]_vars
    PROVE  DealsNothing \/ split_inputs_evenly \/ \E c \in Commands : Start(c) /\ filled' = 0
<1> USE DEF DealsNothing
<1>1. CASE User /\ UNCHANGED cores
    BY <1>1 DEF User, Prepare, CleanUp, call, loop, cores
<1>2. CASE SerialStep \/ Break
    BY <1>2 DEF SerialStep, NextJob, RunJob, CheckJob, submit_pie_to_sharp, SaveResults, Break
<1>3. CASE StartPool \/ JoinPool \/ BreakSplit \/ signal_handler
    BY <1>3 DEF StartPool, JoinPool, BreakSplit, signal_handler, call, loop
<1>4. CASE UNCHANGED vars \/ \E c \in Core : CoreStep(c)
    BY <1>4 DEF vars, serialVars, cores, CoreStep, ListFiles, RunHead, CheckAndCopy, unshared,
       call, loop
<1> QED
    BY <1>1, <1>2, <1>3, <1>4 DEF Next, MainStep

LEMMA FilledStayCurrent ==
    ASSUME IInv, InputsAreCurrent, FilledAreCurrent, [Next]_vars
    PROVE  FilledAreCurrent'
<1>0. /\ input \in [Job -> Version] /\ asked \in [Job -> Version] /\ input_files \subseteq Job
      /\ Version \subseteq Nat /\ dir \in [Core -> Directory] /\ IsFiniteSet(input_files)
    <2>1. IsFiniteSet(input_files)
        BY SubmitAssumption, FS_Subset DEF IInv, TypeOK, TypeOKSerial
    <2> QED
        BY <2>1 DEF IInv, TypeOK, TypeOKSerial, Version
<1>1. CASE DealsNothing
    <2> SUFFICES ASSUME pc' \in {"split", "pool"}
                 PROVE  FilledAreCurrent'
        BY DEF FilledAreCurrent
    <2>1. pc \in {"split", "pool"} /\ UNCHANGED <<input_files, asked, filled, dir>>
        BY <1>1 DEF DealsNothing
    <2>2. \A c : FilesOf(c)' = FilesOf(c)
        BY <2>1 DEF FilesOf
    <2> QED
        BY <2>1, <2>2 DEF FilledAreCurrent, Listed
<1>2. ASSUME NEW c \in Commands, Start(c), filled' = 0
      PROVE  FilledAreCurrent'
    <2>1. input_files' = Listed(input) /\ asked' = input /\ 0 .. filled' - 1 = {}
        BY <1>2 DEF Start
    <2> QED
        BY <2>1 DEF FilledAreCurrent, Listed
<1>3. CASE split_inputs_evenly
    <2> SUFFICES ASSUME pc' # "idle"
                 PROVE  FilledAreCurrent'
        BY DEF FilledAreCurrent
    <2>1. /\ pc = "split" /\ filled < CoresUsed /\ filled' = filled + 1
          /\ dir' = [dir EXCEPT ![filled] = Dealt(filled)]
          /\ \A j \in FilesOf(filled) : input[j] # 0 /\ output[j] # 0
          /\ UNCHANGED <<input_files, asked>>
        BY <1>3 DEF split_inputs_evenly, call, loop
    <2>2. filled \in Core /\ filled \in Nat
        BY <2>1, NextCore DEF IInv, Core
    <2>3. input_files = Listed(asked) /\ pc # "idle"
        BY <2>1 DEF FilledAreCurrent
    <2>4. FilesOf(filled) \subseteq input_files
        BY <1>0, <2>2, SubmitAssumption, FilesOfCore
    <2>5. Copied(filled) = FilesOf(filled)
        BY <2>1 DEF Copied
    <2>6. /\ dir'[filled].input = [j \in Job |-> IF j \in FilesOf(filled) THEN input[j] ELSE 0]
          /\ \A c \in Core \ {filled} : dir'[c] = dir[c]
        BY <1>0, <2>1, <2>2, <2>5 DEF Dealt
    <2>7. /\ FilesOf(filled) \subseteq Listed(dir'[filled].input)
          /\ \A j \in Listed(dir'[filled].input) : asked[j] <= dir'[filled].input[j]
        BY <1>0, <2>1, <2>3, <2>4, <2>6 DEF Listed, InputsAreCurrent
    <2>8. ASSUME NEW c \in 0 .. filled - 1
          PROVE  /\ FilesOf(c) \subseteq Listed(dir'[c].input)
                 /\ \A j \in Listed(dir'[c].input) : asked[j] <= dir'[c].input[j]
        <3>1. c \in Core \ {filled}
            BY <2>2, CoresAssumption DEF Core
        <3> QED
            BY <2>1, <2>6, <3>1 DEF FilledAreCurrent
    <2>9. \A c \in 0 .. filled' - 1 : c \in 0 .. filled - 1 \/ c = filled
        BY <2>1, <2>2
    <2>10. \A c : FilesOf(c)' = FilesOf(c)
        BY <2>1 DEF FilesOf
    <2>11. \A c : Listed(dir[c].input)' = Listed(dir'[c].input) /\ Listed(asked)' = Listed(asked)
        BY <2>1 DEF Listed
    <2> QED
        BY <2>1, <2>3, <2>7, <2>8, <2>9, <2>10, <2>11 DEF FilledAreCurrent
<1> QED
    BY <1>1, <1>2, <1>3, MostDealNothing

LEMMA PoolStaysCurrent ==
    ASSUME IInv, FilledAreCurrent, PoolIsCurrent, [Next]_vars
    PROVE  PoolIsCurrent'
<1> SUFFICES ASSUME pc' = "pool", Cardinality(Listed(asked)') >= N_CORES
             PROVE  PoolIsCurrent'
    BY DEF PoolIsCurrent
<1>0. /\ asked \in [Job -> Version] /\ pie_objects \in [Job -> Version] /\ Version \subseteq Nat
      /\ dir \in [Core -> Directory] /\ DOMAIN queue = Core /\ DOMAIN made = Core
      /\ work \in [Core -> {"list", "run", "check", "done", "failed"}]
    BY SubmitAssumption DEF IInv, TypeOK, TypeOKSerial, Version
<1>1. CASE pc = "pool" /\ UNCHANGED <<asked, filled, dir, work, queue, made, pie_objects>>
    BY <1>1 DEF PoolIsCurrent, CoreIsCurrent, Listed
<1>2. CASE StartPool
    <2>1. /\ pc = "split" /\ filled = CoresUsed /\ work' = [c \in Core |-> "list"]
          /\ UNCHANGED <<asked, filled, input_files>>
        BY <1>2 DEF StartPool, call, loop
    <2>2. input_files = Listed(asked) /\ Listed(asked)' = Listed(asked)
        BY <2>1 DEF FilledAreCurrent, Listed
    <2>3. filled' = N_CORES
        BY <2>1, <2>2, CoresUsedIsLeast DEF IInv, TypeOK
    <2>4. \A c \in Core : CoreIsCurrent(c)'
        BY <2>1 DEF CoreIsCurrent
    <2> QED
        BY <2>3, <2>4 DEF PoolIsCurrent
<1>3. CASE signal_handler
    <2>1. /\ pc = "pool" /\ UNCHANGED <<asked, filled, dir, queue, made, pie_objects>>
          /\ \A c \in Core : work'[c] \in {work[c], "failed"}
        BY <1>3 DEF signal_handler, call
    <2> QED
        BY <2>1 DEF PoolIsCurrent, CoreIsCurrent, Listed
<1>4. ASSUME NEW c \in Core, CoreStep(c)
      PROVE  PoolIsCurrent'
    <2> DEFINE ours == Listed(dir[c].input)
    <2>1. UNCHANGED <<pc, asked, filled, dir>> /\ pc = "pool"
        BY <1>4 DEF CoreStep, ListFiles, RunHead, CheckAndCopy, unshared, call
    <2>2. /\ \A d \in Core : CoreIsCurrent(d)
          /\ filled = N_CORES
          /\ \A j \in ours : asked[j] <= dir[c].input[j]
        <3>1. Cardinality(Listed(asked)) >= N_CORES
            BY <2>1 DEF Listed
        <3>2. filled = N_CORES /\ \A d \in Core : CoreIsCurrent(d)
            BY <2>1, <3>1 DEF PoolIsCurrent
        <3>3. c \in 0 .. filled - 1
            BY <3>2 DEF Core
        <3> QED
            BY <2>1, <3>2, <3>3 DEF FilledAreCurrent
    <2>3. ours \subseteq Job /\ IsFiniteSet(ours) /\ ours \subseteq Int
        <3>1. ours \in SUBSET Job
            BY DEF Listed
        <3>2. Job \subseteq Int /\ IsFiniteSet(Job)
            BY SubmitAssumption
        <3> QED
            BY <3>1, <3>2, FS_Subset
    <2>4. ASSUME \A d \in Core \ {c} : /\ work'[d] = work[d] /\ queue'[d] = queue[d]
                                        /\ made'[d] = made[d],
                 \A j \in Job : pie_objects'[j] = pie_objects[j] \/ asked[j] <= pie_objects'[j],
                 CoreIsCurrent(c)'
          PROVE  PoolIsCurrent'
        <3>1. ASSUME NEW d \in Core \ {c}
              PROVE  CoreIsCurrent(d)'
            <4>1. CoreIsCurrent(d) /\ Listed(dir[d].input)' = Listed(dir[d].input)
                BY <2>1, <2>2 DEF Listed
            <4> QED
                BY <2>1, <2>4, <4>1 DEF CoreIsCurrent, Listed
        <3> QED
            BY <2>1, <2>2, <2>4, <3>1 DEF PoolIsCurrent
    <2>5. CASE ListFiles(c)
        <3>1. UNCHANGED <<made, pie_objects>>
            BY <2>5 DEF ListFiles
        <3>2. CASE work' = [work EXCEPT ![c] = "failed"] /\ UNCHANGED queue
            BY <1>0, <2>4, <3>1, <3>2 DEF CoreIsCurrent
        <3>3. CASE Proceed(c, Descending(ours))
            <4>1. /\ queue' = [queue EXCEPT ![c] = Descending(ours)]
                  /\ work' = [work EXCEPT ![c] = IF Descending(ours) = <<>> THEN "done" ELSE "run"]
                BY <3>3 DEF Proceed, SetWork
            <4>2. /\ Descending(ours) \in Seq(ours)
                  /\ \A j \in ours : \E i \in 1 .. Len(Descending(ours)) : Descending(ours)[i] = j
                BY <2>3, DescendingLists
            <4>3. /\ queue'[c] = Descending(ours)
                  /\ work'[c] = IF Descending(ours) = <<>> THEN "done" ELSE "run"
                  /\ Listed(dir[c].input)' = ours
                BY <1>0, <2>1, <4>1 DEF Listed
            <4>4. Descending(ours) = <<>> => ours = {}
                BY <4>2
            <4> HIDE DEF ours
            <4>5. CoreIsCurrent(c)'
                BY <4>2, <4>3, <4>4 DEF CoreIsCurrent
            <4> QED
                BY <1>0, <2>4, <3>1, <4>1, <4>5
        <3> QED
            BY <2>5, <3>2, <3>3 DEF ListFiles, SetWork
    <2>6. CASE RunHead(c)
        <3>1. UNCHANGED <<queue, pie_objects>> /\ work[c] = "run"
            BY <2>6 DEF RunHead
        <3>2. \/ /\ made' = [made EXCEPT ![c] = dir[c].input[Head(queue[c])]]
                 /\ work' = [work EXCEPT ![c] = "check"]
              \/ work' = [work EXCEPT ![c] = "failed"] /\ UNCHANGED made
            BY <2>6 DEF RunHead, SetWork
        <3>3. \/ work'[c] = "check" /\ made'[c] = dir[c].input[Head(queue[c])]
              \/ work'[c] = "failed"
            BY <1>0, <3>2
        <3>4. CoreIsCurrent(c) /\ Listed(dir[c].input)' = ours
            BY <2>1, <2>2 DEF Listed
        <3> HIDE DEF ours
        <3>5. CoreIsCurrent(c)'
            BY <2>1, <3>1, <3>3, <3>4 DEF CoreIsCurrent, ours
        <3> QED
            BY <1>0, <2>4, <3>1, <3>2, <3>5
    <2>7. CASE CheckAndCopy(c)
        <3> DEFINE j == Head(queue[c])
        <3>1. UNCHANGED made /\ work[c] = "check"
            BY <2>7 DEF CheckAndCopy
        <3>2. CASE work' = [work EXCEPT ![c] = "failed"] /\ UNCHANGED <<queue, pie_objects>>
            BY <1>0, <2>4, <3>1, <3>2 DEF CoreIsCurrent
        <3>3. CASE pie_objects' = [pie_objects EXCEPT ![j] = made[c]] /\ Proceed(c, Tail(queue[c]))
            <4> DEFINE left == Tail(queue[c])
            <4>1. /\ queue' = [queue EXCEPT ![c] = left]
                  /\ work' = [work EXCEPT ![c] = IF left = <<>> THEN "done" ELSE "run"]
                BY <3>3 DEF Proceed, SetWork
            <4>2. /\ queue'[c] = left
                  /\ work'[c] = IF left = <<>> THEN "done" ELSE "run"
                  /\ Listed(dir[c].input)' = ours
                BY <1>0, <2>1, <4>1 DEF Listed
            <4>3. queue[c] \in Seq(ours) /\ made[c] = dir[c].input[j] /\ queue[c] # <<>>
                BY <2>1, <2>2, <3>1 DEF CoreIsCurrent, IInv, TypeOK
            <4>4. /\ left \in Seq(ours) /\ j \in ours /\ j = queue[c][1]
                  /\ Len(left) = Len(queue[c]) - 1 /\ Len(queue[c]) \in Nat \ {0}
                  /\ \A i \in 1 .. Len(left) : left[i] = queue[c][i + 1]
                <5> HIDE DEF ours
                <5> QED
                    BY <4>3
            <4>5. asked[j] <= made[c]
                BY <2>2, <4>3, <4>4
            <4>6. /\ pie_objects'[j] = made[c]
                  /\ \A k \in Job \ {j} : pie_objects'[k] = pie_objects[k]
                <5> HIDE DEF j
                <5> QED
                    BY <1>0, <2>3, <3>3, <4>4
            <4>7. ASSUME NEW k \in ours
                  PROVE  \/ left # <<>> /\ \E i \in 1 .. Len(left) : left[i] = k
                         \/ asked[k] <= pie_objects'[k]
                <5>1. CASE k = j
                    BY <4>5, <4>6, <5>1
                <5>2. CASE k # j /\ asked[k] <= pie_objects[k]
                    BY <2>3, <4>6, <5>2
                <5>3. CASE k # j /\ ~(asked[k] <= pie_objects[k])
                    <6>1. PICK i \in 1 .. Len(queue[c]) : queue[c][i] = k
                        BY <2>2, <3>1, <5>3 DEF CoreIsCurrent
                    <6>2. i - 1 \in 1 .. Len(left) /\ (i - 1) + 1 = i
                        <7> HIDE DEF left, j
                        <7> QED
                            BY <4>4, <5>3, <6>1
                    <6>3. left[i - 1] = queue[c][(i - 1) + 1]
                        BY <4>4, <6>2
                    <6>4. left # <<>>
                        <7> HIDE DEF left
                        <7>1. Len(left) # 0
                            BY <4>4, <6>2
                        <7> QED
                            BY <7>1
                    <6> QED
                        BY <6>1, <6>2, <6>3, <6>4
                <5> QED
                    BY <5>1, <5>2, <5>3
            <4> HIDE DEF ours, left
            <4>8. CoreIsCurrent(c)'
                BY <2>1, <4>2, <4>4, <4>7 DEF CoreIsCurrent
            <4>9. \A k \in Job : pie_objects'[k] = pie_objects[k] \/ asked[k] <= pie_objects'[k]
                BY <4>5, <4>6
            <4> QED
                BY <1>0, <2>4, <3>1, <4>1, <4>8, <4>9
        <3> QED
            BY <2>7, <3>2, <3>3 DEF CheckAndCopy, SetWork
    <2> QED
        BY <1>4, <2>5, <2>6, <2>7 DEF CoreStep
<1>5. CASE (User \/ Break \/ SerialStep) /\ UNCHANGED cores
    BY <1>1, <1>5 DEF User, Prepare, CleanUp, Break, SerialStep, NextJob, RunJob, CheckJob,
       submit_pie_to_sharp, SaveResults, call, cores
<1>6. CASE split_inputs_evenly \/ JoinPool \/ BreakSplit \/ \E c \in Commands : Start(c)
    BY <1>6 DEF split_inputs_evenly, JoinPool, BreakSplit, Start
<1>7. CASE UNCHANGED vars
    BY <1>1, <1>7 DEF vars, serialVars, call, cores
<1> QED
    BY <1>2, <1>3, <1>4, <1>5, <1>6, <1>7 DEF Next, MainStep

(* However jobs are prepared again meanwhile, and whatever lies in the     *)
(* directories of the cores and of the pies: when all cores succeed, and   *)
(* there were files for each of them, the pies of all files are current.   *)
THEOREM FullSplitIsCurrentHolds == Spec => []FullSplitIsCurrent
<1>1. TypeOK /\ CurrentInv => FullSplitIsCurrent
    <2> SUFFICES ASSUME TypeOK, CurrentInv, Joined, Cardinality(Listed(asked)) >= N_CORES,
                        NEW j \in Listed(asked)
                 PROVE  pie_objects[j] >= asked[j]
        BY DEF FullSplitIsCurrent
    <2>1. /\ input_files = Listed(asked)
          /\ \A c \in Core : /\ FilesOf(c) \subseteq Listed(dir[c].input)
                             /\ CoreIsCurrent(c) /\ work[c] = "done"
        BY DEF CurrentInv, FilledAreCurrent, PoolIsCurrent, Joined, Core
    <2>2. input_files \subseteq Int /\ IsFiniteSet(input_files)
        <3>1. input_files \in SUBSET Job
            BY DEF TypeOK, TypeOKSerial
        <3>2. Job \subseteq Int /\ IsFiniteSet(Job)
            BY SubmitAssumption
        <3> QED
            BY <3>1, <3>2, FS_Subset
    <2>3. PICK c \in Core : j \in FilesOf(c)
        BY <2>1, <2>2, FilesAreDealt
    <2>4. asked[j] <= pie_objects[j]
        BY <2>1, <2>3 DEF CoreIsCurrent
    <2>5. asked[j] \in Nat /\ pie_objects[j] \in Nat
        BY SubmitAssumption DEF TypeOK, TypeOKSerial, Version, Listed
    <2> QED
        BY <2>4, <2>5
<1>2. IInv /\ CurrentInv /\ [Next]_vars => CurrentInv'
    BY InputsStayCurrent, FilledStayCurrent, PoolStaysCurrent DEF CurrentInv
<1>3. Spec => []CurrentInv
    BY <1>2, Inductive, CurrentInitially, PTL DEF Spec
<1>4. IInv => TypeOK
    BY DEF IInv
<1> QED
    BY <1>1, <1>3, <1>4, Inductive, PTL

=============================================================================
