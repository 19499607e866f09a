---------------------------- MODULE CairoRunner ----------------------------
(***************************************************************************)
(* Running Cairo programs during development: tools/make/                  *)
(* launch_cairo_files.py.  It runs one program, which the user names, or   *)
(* all the tests.  A program that does not compile makes it ask for a name *)
(* again, in both cases; meanwhile the user may edit programs.             *)
(*                                                                         *)
(* The input file beside a program goes by the path of the program.        *)
(***************************************************************************)
EXTENDS Integers, Sequences, SequencesExt, FiniteSets, TLC

CONSTANTS
    Program,    \* the paths of the Cairo files
    Tests,      \* those of the tests, in the order of the directory
    Typed,      \* what the user may type
    PathOf,     \* the first path that ends in a name, or NoPath
    BaseName,   \* the file name of a program
    ChunkProcessor,
    DataFiles,  \* the inputs for it that the data directory may hold
    WithInput,  \* the programs with an input file beside them
    NoPath, MaxStarts

ASSUME RunnerAssumption ==
    /\ ToSet(Tests) \subseteq Program /\ ChunkProcessor \in Program
    /\ WithInput \subseteq Program /\ DataFiles \cap Program = {}
    /\ PathOf \in [Typed -> Program \union {NoPath}]
    /\ BaseName \in [Program -> Typed]
    /\ NoPath \notin Program \union DataFiles

VARIABLES
    broken,                   \* the programs that do not compile
    pc, test_mode, tests_files,
    filename_dot_cairo, filename_dot_cairo_path, json_input_path,
    starts,
    prompted,                 \* history: what was typed last, and the data files then
    ran                       \* history: programs run, with the input

selection == <<filename_dot_cairo, filename_dot_cairo_path, json_input_path>>
history == <<prompted, ran>>
vars == <<broken, pc, test_mode, tests_files, selection, starts, history>>

NotPrompted == [name |-> "", files |-> {}]

Init ==
    /\ broken \in SUBSET Program
    /\ pc = "ended" /\ test_mode = FALSE /\ tests_files = <<>>
    /\ filename_dot_cairo = "" /\ filename_dot_cairo_path = NoPath
    /\ json_input_path = NoPath
    /\ starts = 0 /\ prompted = NotPrompted /\ ran = {}

Edit(p) ==
    /\ broken' = IF p \in broken THEN broken \ {p} ELSE broken \union {p}
    /\ UNCHANGED <<pc, test_mode, tests_files, selection, starts, history>>

(* A CairoRunner starts with nothing selected.                             *)
Start(test) ==
    /\ pc \in {"ended", "aborted", "all passed"} /\ starts < MaxStarts
    /\ starts' = starts + 1
    /\ test_mode' = test
    /\ tests_files' = IF test THEN Tests ELSE <<>>
    /\ filename_dot_cairo' = "" /\ filename_dot_cairo_path' = NoPath
    /\ json_input_path' = NoPath
    /\ prompted' = NotPrompted /\ ran' = {}
    /\ pc' = IF test THEN "next test" ELSE "prompt"
    /\ UNCHANGED broken

(* Mutant: the input is selected only once. *)
SelectInput_once(name, files) ==
    json_input_path' = IF json_input_path = NoPath THEN PathOf[name] ELSE json_input_path

(* When the name of the chunk processor is typed in full, its input is     *)
(* chosen from those in the data directory; if there is none, nothing is   *)
(* selected anew.  Otherwise the input is the file beside the program.     *)
SelectInput(name, files) ==
    IF name = BaseName[ChunkProcessor]
    THEN \/ files = {} /\ UNCHANGED json_input_path
         \/ json_input_path' \in files
    ELSE json_input_path' = PathOf[name]

(* The user types names until one matches.                                 *)
prompt_for_cairo_file ==
    /\ pc = "prompt"
    /\ \E name \in Typed, files \in SUBSET DataFiles :
        /\ PathOf[name] # NoPath
        /\ filename_dot_cairo' = name
        /\ filename_dot_cairo_path' = PathOf[name]
        /\ SelectInput(name, files)
        /\ prompted' = [name |-> name, files |-> files]
    /\ pc' = "compile"
    /\ UNCHANGED <<broken, test_mode, tests_files, starts, ran>>

NextTest ==
    /\ pc = "next test"
    /\ IF tests_files = <<>>
       THEN pc' = "all passed" /\ UNCHANGED <<tests_files, selection>>
       ELSE /\ filename_dot_cairo_path' = Head(tests_files)
            /\ filename_dot_cairo' = BaseName[Head(tests_files)]
            /\ tests_files' = Tail(tests_files)
            /\ pc' = "compile"
            /\ UNCHANGED json_input_path
    /\ UNCHANGED <<broken, test_mode, starts, history>>

(* What is compiled is written under the name, anew before each run.       *)
compile_cairo_file ==
    /\ pc = "compile"
    /\ pc' = IF filename_dot_cairo_path \in broken THEN "prompt" ELSE "run"
    /\ UNCHANGED <<broken, test_mode, tests_files, selection, starts, history>>

(* A file that is not there is left out.                                   *)
program_input == IF json_input_path \in WithInput \union DataFiles THEN json_input_path ELSE NoPath

(* A test that fails ends the tests.                                       *)
Run(ok) ==
    /\ pc = "run"
    /\ ran' = ran \union
           {[program  |-> filename_dot_cairo_path,
             input    |-> program_input,
             prompted |-> prompted]}
    /\ pc' = CASE ~test_mode -> "ended"
               [] test_mode /\ ok -> "next test"
               [] test_mode /\ ~ok -> "aborted"
    /\ UNCHANGED <<broken, test_mode, tests_files, selection, starts, prompted>>

Next ==
    \/ \E p \in Program : Edit(p)
    \/ \E b \in BOOLEAN : Start(b) \/ Run(b)
    \/ prompt_for_cairo_file
    \/ NextTest
    \/ compile_cairo_file

Spec == Init /\ [][Next]_vars

-----------------------------------------------------------------------------
(* Properties.                                                             *)

TypeOK ==
    /\ broken \subseteq Program
    /\ pc \in {"ended", "aborted", "all passed", "prompt", "next test", "compile", "run"}
    /\ filename_dot_cairo_path \in Program \union {NoPath}
    /\ pc \in {"compile", "run"} => filename_dot_cairo_path # NoPath
    /\ json_input_path \in Program \union DataFiles \union {NoPath}
    /\ prompted \in [name : Typed \union {""}, files : SUBSET DataFiles]

(* The inputs with which a program may run that was named at a prompt, when*)
(* the data directory held these files.  With none there is nothing to     *)
(* choose, and the code keeps what was selected before, so that nothing is *)
(* claimed.                                                                *)
InputsFor(name, files) ==
    CASE name # BaseName[ChunkProcessor] ->
            {IF PathOf[name] \in WithInput THEN PathOf[name] ELSE NoPath}
      [] name = BaseName[ChunkProcessor] /\ files # {} -> files
      [] OTHER -> Program \union DataFiles \union {NoPath}

(* tools/make/README.md:32-34: a program runs on the file of the same name *)
(* beside it, the chunk processor, named in full, on one of the data files.*)
(* This is so for every program that was named at the last prompt, whatever*)
(* was named before it and did not compile: in make run, and in make test  *)
(* where it takes the place of a test.  As long as all tests compile, they *)
(* run without an input; after a prompt the later ones get the one selected*)
(* there, of which nothing is claimed.                                     *)
InputBelongs ==
    \A r \in ran :
        /\ r.prompted = NotPrompted => test_mode /\ r.input = NoPath
        /\ r.prompted # NotPrompted /\ r.program = PathOf[r.prompted.name] =>
                r.input \in InputsFor(r.prompted.name, r.prompted.files)

=============================================================================
