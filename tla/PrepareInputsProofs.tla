------------------------ MODULE PrepareInputsProofs ------------------------
(***************************************************************************)
(* Theorems about PrepareInputs, for any database, any ranges and batch    *)
(* sizes, fixed or dynamic, and any number of calls.                       *)
(*                                                                         *)
(* Where the chunks of a call lie depends on the sizes of its batches.  A  *)
(* dynamic one is positive because the limit leaves room for one block,    *)
(* which depends on the size of the MMRs; and that is known because every  *)
(* call goes on from the MMRs of the blocks of the calls before.  So IInv, *)
(* of the chunks, and ResumeInv, of the MMRs, are shown together.          *)
(***************************************************************************)
EXTENDS PrepareInputs, FiniteSetTheorems, SequenceTheorems, TLAPS

(* Where the loop stands, before and after the last chunk of a call.       *)
AtChunk ==
    /\ request \in Request
    /\ from_block_number_high \in Int
    /\ pc # "idle" =>
        /\ batch_size \in Nat \ {0}
        /\ request.to <= from_block_number_high
        /\ to_block_number_batch_low =
                BatchLow(from_block_number_high, batch_size, request.to)
        /\ from_block_number_high = ChunkStart(Len(chunks))

ChunksTile ==
    /\ chunks \in Seq(Int \X Int)
    /\ \A i \in 1 .. Len(chunks) : /\ chunks[i][1] = ChunkStart(i - 1)
                                   /\ request.to <= chunks[i][2]
                                   /\ chunks[i][2] <= chunks[i][1]

IInv ==
    /\ AtChunk
    /\ ChunksTile
    /\ AllDone => ChunkStart(Len(chunks)) = request.to - 1

-----------------------------------------------------------------------------
LEMMA BatchBounds ==
    ASSUME NEW from \in Int, NEW size \in Nat \ {0}, NEW to \in Int, to <= from
    PROVE  /\ BatchLow(from, size, to) \in Int
           /\ to <= BatchLow(from, size, to) /\ BatchLow(from, size, to) <= from
           /\ from - size >= to => BatchLow(from, size, to) = from - size + 1
           /\ from - size < to => BatchLow(from, size, to) = to
<1> DEFINE a == from - size + 1
           P(x) == x \in {a, to} /\ \A y \in {a, to} : x >= y
<1>1. a \in Int /\ a <= from /\ (a <= to \/ to <= a)
    OBVIOUS
<1>2. BatchLow(from, size, to) = CHOOSE x : P(x)
    BY DEF BatchLow, Max
<1>3. \E x : P(x)
    <2> HIDE DEF a
    <2>1. CASE a <= to
        BY <1>1, <2>1
    <2>2. CASE to <= a
        BY <1>1, <2>2
    <2> QED
        BY <1>1, <2>1, <2>2
<1>4. P(BatchLow(from, size, to))
    BY <1>2, <1>3
<1> QED
    BY <1>1, <1>4

LEMMA Requests ==
    ASSUME NEW r \in Request
    PROVE  r.from \in Int /\ r.to \in Int /\ r.batch_size \in Int
BY PrepareAssumption

LEMMA ChunkBounds ==
    ASSUME IInv, pc # "idle"
    PROVE  /\ to_block_number_batch_low \in Int /\ from_block_number_high \in Int
           /\ request.to <= to_block_number_batch_low
           /\ to_block_number_batch_low <= from_block_number_high
<1>1. /\ request \in Request /\ from_block_number_high \in Int
      /\ batch_size \in Nat \ {0} /\ request.to <= from_block_number_high
      /\ to_block_number_batch_low = BatchLow(from_block_number_high, batch_size, request.to)
    BY DEF IInv, AtChunk
<1>2. request.to \in Int
    BY <1>1, Requests
<1> QED
    BY <1>1, <1>2, BatchBounds

LEMMA Initially == Init => IInv
<1> SUFFICES ASSUME Init
             PROVE  IInv
    OBVIOUS
<1>1. request \in Request
    BY PrepareAssumption DEF Init
<1>2. pc = "idle" /\ chunks = <<>> /\ from_block_number_high = 0
    BY DEF Init
<1>3. ChunksTile
    BY <1>2 DEF ChunksTile
<1>4. AtChunk /\ ~AllDone
    BY <1>1, <1>2 DEF AtChunk, AllDone
<1> QED
    BY <1>3, <1>4 DEF IInv

(* A step that leaves the chunks alone, and at most ends the call.         *)
LEMMA ChunksKept ==
    ASSUME IInv, UNCHANGED <<request, from_block_number_high, chunks>>,
           UNCHANGED <<batch_size, to_block_number_batch_low>>,
           pc' # "idle" => pc # "idle",
           pc' = "idle" => pc = "idle" \/ request.to <= from_block_number_high
    PROVE  IInv'
<1>1. ChunkStart(Len(chunks))' = ChunkStart(Len(chunks))
    BY DEF ChunkStart
<1>2. AtChunk'
    BY <1>1 DEF IInv, AtChunk
<1>3. ChunksTile'
    BY DEF IInv, ChunksTile, ChunkStart
<1>4. request.to \in Int /\ from_block_number_high \in Int
    BY Requests DEF IInv, AtChunk
<1>5. AllDone' => AllDone
    BY <1>4 DEF AllDone
<1> QED
    BY <1>1, <1>2, <1>3, <1>5 DEF IInv

LEMMA CallStarts ==
    ASSUME NEW r \in Request, NEW initial, prepare_full_chain_inputs(r, initial),
           batch_size' \in Nat \ {0}
    PROVE  IInv'
<1>1. /\ pc' = "input" /\ request' = r /\ chunks' = <<>>
      /\ from_block_number_high' = r.from
      /\ to_block_number_batch_low' = BatchLow(r.from, batch_size', r.to)
    BY DEF prepare_full_chain_inputs, StartChunk
<1>2. r.from >= r.to
    BY DEF prepare_full_chain_inputs, Accepted
<1>3. r.from \in Int /\ r.to \in Int
    BY Requests
<1>4. r.to <= r.from
    BY <1>2, <1>3
<1>5. ChunkStart(Len(chunks))' = r.from
    BY <1>1 DEF ChunkStart
<1>6. AtChunk'
    BY <1>1, <1>3, <1>4, <1>5 DEF AtChunk
<1>7. ChunksTile' /\ ~AllDone'
    BY <1>1 DEF ChunksTile, AllDone
<1> QED
    BY <1>6, <1>7 DEF IInv

LEMMA ChunkFinished ==
    ASSUME IInv, NEW new, pc = "output", NextChunk(new), UNCHANGED request,
           batch_size' \in Nat \ {0}
    PROVE  IInv'
<1> DEFINE high == from_block_number_high
           low == to_block_number_batch_low
           to == request.to
           n == Len(chunks)
<1>1. /\ request \in Request /\ high \in Int /\ to \in Int
      /\ batch_size \in Nat \ {0} /\ to <= high
      /\ low = BatchLow(high, batch_size, to)
      /\ high = ChunkStart(n)
    BY Requests DEF IInv, AtChunk
<1>2. /\ low \in Int /\ to <= low /\ low <= high
      /\ high - batch_size >= to => low = high - batch_size + 1
      /\ high - batch_size < to => low = to
    <2> HIDE DEF high, to
    <2> QED
        BY <1>1, BatchBounds
<1>3. /\ chunks \in Seq(Int \X Int)
      /\ n \in Nat
      /\ \A i \in 1 .. n : /\ chunks[i][1] = ChunkStart(i - 1)
                           /\ to <= chunks[i][2]
                           /\ chunks[i][2] <= chunks[i][1]
    BY DEF IInv, ChunksTile
<1>4. /\ chunks' = Append(chunks, <<high, low>>)
      /\ request' = request
      /\ from_block_number_high' = high - batch_size
      /\ to_block_number_batch_low' = BatchLow(high - batch_size, batch_size', to)
      /\ IF high - batch_size >= to THEN pc' = "input" ELSE pc' = "idle"
    BY <1>1 DEF NextChunk, StartChunk, Name
<1>5. /\ chunks' \in Seq(Int \X Int) /\ Len(chunks') = n + 1
      /\ chunks'[n + 1] = <<high, low>>
      /\ \A i \in 1 .. n : chunks'[i] = chunks[i]
    <2> HIDE DEF high, low
    <2>1. <<high, low>> \in Int \X Int
        BY <1>1, <1>2
    <2> QED
        BY <2>1, <1>3, <1>4
<1>6. \A i \in 0 .. n : ChunkStart(i)' = ChunkStart(i)
    BY <1>3, <1>4, <1>5 DEF ChunkStart
<1>7. ChunkStart(Len(chunks))' = low - 1
    BY <1>3, <1>5 DEF ChunkStart
<1>8. ChunksTile'
    <2>1. ASSUME NEW i \in 1 .. (n + 1)
          PROVE  /\ chunks'[i][1] = ChunkStart(i - 1)'
                 /\ to <= chunks'[i][2]
                 /\ chunks'[i][2] <= chunks'[i][1]
        <3>1. CASE i \in 1 .. n
            <4>1. i - 1 \in 0 .. n
                BY <3>1, <1>3
            <4> QED
                BY <3>1, <4>1, <1>3, <1>5, <1>6
        <3>2. CASE i = n + 1
            <4>1. ChunkStart(i - 1)' = ChunkStart(n)
                BY <3>2, <1>3, <1>6
            <4> QED
                BY <3>2, <4>1, <1>1, <1>2, <1>5
        <3> QED
            BY <1>3, <3>1, <3>2
    <2> QED
        BY <2>1, <1>4, <1>5 DEF ChunksTile
<1>9. CASE high - batch_size >= to
    <2>1. low - 1 = high - batch_size
        BY <1>1, <1>2, <1>9
    <2>2. AtChunk'
        BY <2>1, <1>1, <1>4, <1>7, <1>9 DEF AtChunk
    <2>3. ~AllDone'
        BY <1>4, <1>9 DEF AllDone
    <2> QED
        BY <2>2, <2>3, <1>8 DEF IInv
<1>10. CASE high - batch_size < to
    <2>1. low = to /\ pc' = "idle"
        BY <1>1, <1>2, <1>4, <1>10
    <2>2. AtChunk'
        BY <2>1, <1>1, <1>4 DEF AtChunk
    <2> QED
        BY <2>1, <2>2, <1>4, <1>7, <1>8 DEF IInv
<1> QED
    BY <1>1, <1>9, <1>10

-----------------------------------------------------------------------------
(* The files.                                                              *)

(* Between its two files, the input of a chunk is the one its output will  *)
(* be computed from.                                                       *)
PairInv ==
    /\ PairsMatch
    /\ pc = "output" =>
        /\ Name \in DOMAIN inputs
        /\ inputs[Name] =
               ChunkInput(last, from_block_number_high, to_block_number_batch_low)

(* The call breaks off: at most the files of its chunk have changed.       *)
LEMMA BreakOffKeepsPairs ==
    ASSUME PairInv, BreakOff,
           \/ UNCHANGED files
           \/ inputs' = Written(inputs, Name, Torn) /\ UNCHANGED outputs
           \/ outputs' = Written(outputs, Name, Torn) /\ UNCHANGED inputs
    PROVE  PairInv'
<1>1. pc' = "idle" /\ abandoned' = abandoned \union {Name}
    BY DEF BreakOff
<1>2. ASSUME NEW c \in DOMAIN inputs' \ abandoned'
      PROVE  /\ c \in DOMAIN outputs'
             /\ outputs'[c] = ChunkOutput(inputs'[c].mmr, c[1], c[2],
                                    process_chunk(inputs'[c].mmr, inputs'[c].blocks))
    <2>1. c # Name
        BY <1>1, <1>2
    <2>2. c \in DOMAIN inputs \ abandoned /\ inputs'[c] = inputs[c]
        BY <1>1, <1>2, <2>1 DEF Written, files
    <2>3. /\ c \in DOMAIN outputs
          /\ outputs[c] = ChunkOutput(inputs[c].mmr, c[1], c[2],
                                    process_chunk(inputs[c].mmr, inputs[c].blocks))
        BY <2>1, <2>2 DEF PairInv, PairsMatch
    <2>4. c \in DOMAIN outputs' /\ outputs'[c] = outputs[c]
        BY <2>1, <2>3 DEF Written, files
    <2> QED
        BY <2>2, <2>3, <2>4
<1> QED
    BY <1>1, <1>2 DEF PairInv, PairsMatch

(* The input of a chunk is written first. *)
LEMMA InputKeepsPairs ==
    ASSUME PairInv, pc = "input", RowsFound, prepare_chunk_input
    PROVE  PairInv'
<1> DEFINE content == ChunkInput(last, from_block_number_high, to_block_number_batch_low)
<1>1. /\ inputs' = Written(inputs, Name, content) /\ outputs' = outputs
      /\ pc' = "output" /\ last' = last /\ Name' = Name /\ abandoned' = abandoned
      /\ from_block_number_high' = from_block_number_high
      /\ to_block_number_batch_low' = to_block_number_batch_low
    BY DEF prepare_chunk_input, loop, history, Name
<1>2. Name \in DOMAIN inputs' /\ inputs'[Name] = content
    BY <1>1 DEF Written
<1>3. ASSUME NEW c \in DOMAIN inputs' \ abandoned, c # Name
      PROVE  /\ c \in DOMAIN outputs'
             /\ outputs'[c] = ChunkOutput(inputs'[c].mmr, c[1], c[2],
                                    process_chunk(inputs'[c].mmr, inputs'[c].blocks))
    <2>1. c \in DOMAIN inputs \ abandoned /\ inputs'[c] = inputs[c]
        BY <1>1, <1>3 DEF Written
    <2> QED
        BY <1>1, <1>3, <2>1 DEF PairInv, PairsMatch
<1> QED
    BY <1>1, <1>2, <1>3 DEF PairInv, PairsMatch

(* Its output is computed from that input, and replaces any older one.     *)
LEMMA OutputKeepsPairs ==
    ASSUME PairInv, pc = "output", PeaksFitSize(last), finish_chunk
    PROVE  PairInv'
<1> DEFINE high == from_block_number_high
           low  == to_block_number_batch_low
           new  == process_chunk(last, BlocksOf(high, low))
<1>1. /\ outputs' = Written(outputs, Name, ChunkOutput(last, high, low, new))
      /\ inputs' = inputs /\ abandoned' = abandoned \ {Name}
      /\ pc' # "output"
    BY DEF finish_chunk, WriteOutput, NextChunk
<1>2. /\ inputs[Name].mmr = last /\ inputs[Name].blocks = BlocksOf(high, low)
      /\ Name[1] = high /\ Name[2] = low
    BY DEF PairInv, ChunkInput, Name
<1>3. ASSUME NEW c \in DOMAIN inputs' \ abandoned'
      PROVE  /\ c \in DOMAIN outputs'
             /\ outputs'[c] = ChunkOutput(inputs'[c].mmr, c[1], c[2],
                                    process_chunk(inputs'[c].mmr, inputs'[c].blocks))
    <2>1. CASE c = Name
        <3>1. c \in DOMAIN outputs' /\ outputs'[c] = ChunkOutput(last, high, low, new)
            BY <1>1, <2>1 DEF Written
        <3> QED
            BY <1>1, <1>2, <2>1, <3>1
    <2>2. CASE c # Name
        <3>1. c \in DOMAIN inputs \ abandoned
            BY <1>1, <1>3, <2>2
        <3>2. /\ c \in DOMAIN outputs
              /\ outputs[c] = ChunkOutput(inputs[c].mmr, c[1], c[2],
                                    process_chunk(inputs[c].mmr, inputs[c].blocks))
            BY <2>2, <3>1 DEF PairInv, PairsMatch
        <3>3. c \in DOMAIN outputs' /\ outputs'[c] = outputs[c]
            BY <1>1, <2>2, <3>2 DEF Written
        <3> QED
            BY <1>1, <3>2, <3>3
    <2> QED
        BY <2>1, <2>2
<1> QED
    BY <1>1, <1>3 DEF PairInv, PairsMatch

(* The input and the output of a name belong together, for any database,   *)
(* any calls, dynamic ones too, and wherever they are broken off.          *)
THEOREM PairsAlwaysMatch == Spec => []PairsMatch
<1>1. Init => PairInv
    BY DEF Init, PairInv, PairsMatch
<1>2. PairInv /\ [Next]_vars => PairInv'
    <2> SUFFICES ASSUME PairInv, [Next]_vars PROVE PairInv'
        OBVIOUS
    <2>1. ASSUME NEW r \in Request, NEW initial, prepare_full_chain_inputs(r, initial)
          PROVE  PairInv'
        BY <2>1 DEF prepare_full_chain_inputs, files, PairInv, PairsMatch
    <2>2. CASE prepare_chunk_input
        BY <2>2, InputKeepsPairs, BreakOffKeepsPairs DEF prepare_chunk_input
    <2>3. CASE finish_chunk
        BY <2>3, OutputKeepsPairs, BreakOffKeepsPairs DEF finish_chunk
    <2>4. CASE Interrupt
        BY <2>4, BreakOffKeepsPairs DEF Interrupt
    <2>5. CASE UNCHANGED vars
        BY <2>5 DEF vars, files, loop, history, PairInv, PairsMatch, Name
    <2> QED
        BY <2>1, <2>2, <2>3, <2>4, <2>5 DEF Next
<1>3. PairInv => PairsMatch
    BY DEF PairInv
<1> QED
    BY <1>1, <1>2, <1>3, PTL DEF Spec

-----------------------------------------------------------------------------
(* The jobs of a call.                                                     *)

(* What the output file of a chunk says of it. *)
Describes(output, c) ==
    /\ output.from = c[1] /\ output.to = c[2]
    /\ output.block_n_plus_one_parent_hash = c[1]
    /\ output.block_n_minus_r_plus_one_parent_hash = c[2] - 1

(* The chunks so far have their outputs, of which each starts from the MMR *)
(* of the one before; they lie above the one that is being written.        *)
ChainInv ==
    /\ \A i \in 1 .. Len(chunks) :
        /\ chunks[i] \in DOMAIN outputs
        /\ Describes(outputs[chunks[i]], chunks[i])
        /\ chunks[i][2] \in Nat
        /\ pc # "idle" => from_block_number_high < chunks[i][2]
    /\ \A i \in 1 .. (Len(chunks) - 1) :
        /\ outputs[chunks[i]].new_mmr_roots = outputs[chunks[i + 1]].mmr_last_roots
        /\ outputs[chunks[i]].new_mmr_len = outputs[chunks[i + 1]].mmr_last_len
    /\ pc # "idle" /\ Len(chunks) > 0 =>
        /\ outputs[chunks[Len(chunks)]].new_mmr_roots = last.mmr_roots
        /\ outputs[chunks[Len(chunks)]].new_mmr_len = last.mmr_size
    /\ pc = "output" => to_block_number_batch_low \in Nat

(* The call breaks off: its earlier outputs stay.                          *)
LEMMA BreakOffKeepsChain ==
    ASSUME IInv, ChainInv, pc # "idle", BreakOff,
           UNCHANGED outputs \/ outputs' = Written(outputs, Name, Torn)
    PROVE  ChainInv'
<1>1. pc' = "idle" /\ chunks' = chunks /\ chunks \in Seq(Int \X Int)
    BY DEF BreakOff, IInv, ChunksTile
<1>2. \A i \in 1 .. Len(chunks) : chunks[i] # Name
    <2> SUFFICES ASSUME NEW i \in 1 .. Len(chunks), chunks[i] = Name PROVE FALSE
        OBVIOUS
    <2>1. from_block_number_high < chunks[i][2] /\ chunks[i][2] <= chunks[i][1]
        BY DEF ChainInv, IInv, ChunksTile
    <2>2. chunks[i][1] = from_block_number_high
        BY DEF Name
    <2>3. from_block_number_high \in Int /\ chunks[i][2] \in Nat
        BY DEF ChainInv, IInv, AtChunk
    <2> QED
        BY <2>1, <2>2, <2>3
<1>3. \A i \in 1 .. Len(chunks) :
        chunks[i] \in DOMAIN outputs' /\ outputs'[chunks[i]] = outputs[chunks[i]]
    BY <1>2 DEF Written, ChainInv
<1>4. \A i \in 1 .. (Len(chunks) - 1) : i \in 1 .. Len(chunks) /\ i + 1 \in 1 .. Len(chunks)
    BY <1>1
<1>5. \A i \in 1 .. Len(chunks) :
        /\ chunks[i] \in DOMAIN outputs'
        /\ Describes(outputs'[chunks[i]], chunks[i]) /\ chunks[i][2] \in Nat
    BY <1>3, Zenon DEF ChainInv
<1>6. \A i \in 1 .. (Len(chunks) - 1) :
        /\ outputs'[chunks[i]].new_mmr_roots = outputs'[chunks[i + 1]].mmr_last_roots
        /\ outputs'[chunks[i]].new_mmr_len = outputs'[chunks[i + 1]].mmr_last_len
    BY <1>3, <1>4, Zenon DEF ChainInv
<1> QED
    BY <1>1, <1>5, <1>6, Zenon DEF ChainInv

(* The input of a chunk is written when all its blocks are in the database. *)
LEMMA InputKeepsChain ==
    ASSUME IInv, ChainInv, pc = "input", RowsFound, prepare_chunk_input
    PROVE  ChainInv'
<1>1. to_block_number_batch_low \in Nat
    <2>1. /\ to_block_number_batch_low \in Int /\ from_block_number_high \in Int
          /\ to_block_number_batch_low <= from_block_number_high
        BY ChunkBounds
    <2>2. to_block_number_batch_low
            \in to_block_number_batch_low .. (from_block_number_high + 1)
        BY <2>1
    <2> QED
        BY <2>2, PrepareAssumption DEF RowsFound
<1>2. /\ UNCHANGED <<outputs, last, chunks, from_block_number_high,
                     to_block_number_batch_low>>
    BY DEF prepare_chunk_input, loop, history
<1> QED
    BY <1>1, <1>2 DEF ChainInv

(* Its output starts from the MMR of the chunk before, and the loop goes   *)
(* on below it with the MMR the output ends with.                          *)
LEMMA OutputKeepsChain ==
    ASSUME IInv, ChainInv, pc = "output", PeaksFitSize(last), finish_chunk
    PROVE  ChainInv'
<1> DEFINE high == from_block_number_high
           low  == to_block_number_batch_low
           n    == Len(chunks)
           new  == process_chunk(last, BlocksOf(high, low))
           content == ChunkOutput(last, high, low, new)
<1>1. /\ outputs' = Written(outputs, Name, content)
      /\ chunks' = Append(chunks, Name)
      /\ last' = new
      /\ high' = high - batch_size
      /\ pc' # "output"
      /\ pc' # "idle" => high - batch_size >= request.to
    BY DEF finish_chunk, WriteOutput, NextChunk, StartChunk
<1>2. /\ content.new_mmr_roots = new.mmr_roots /\ content.new_mmr_len = new.mmr_size
      /\ content.mmr_last_roots = last.mmr_roots /\ content.mmr_last_len = last.mmr_size
      /\ content.from = high /\ content.to = low
      /\ content.block_n_plus_one_parent_hash = Parent(high + 1)
      /\ content.block_n_minus_r_plus_one_parent_hash = Parent(low)
    BY DEF ChunkOutput
<1> HIDE DEF new, content
<1>3. /\ high \in Int /\ batch_size \in Nat \ {0} /\ low \in Nat /\ low <= high
      /\ high - batch_size >= request.to => high - batch_size < low
    <2>1. /\ high \in Int /\ batch_size \in Nat \ {0} /\ low \in Nat
          /\ request.to \in Int /\ request.to <= high
          /\ low = BatchLow(high, batch_size, request.to)
        BY Requests DEF IInv, AtChunk, ChainInv
    <2> HIDE DEF high, low
    <2>2. /\ low <= high
          /\ high - batch_size >= request.to => low = high - batch_size + 1
        BY <2>1, BatchBounds
    <2> QED
        BY <2>1, <2>2
<1>4. Describes(content, Name)
    BY <1>2, <1>3 DEF Describes, Name, Parent
<1>5. /\ chunks \in Seq(Int \X Int) /\ n \in Nat
      /\ Name \in Int \X Int /\ Name[1] = high /\ Name[2] = low
    BY <1>3 DEF IInv, ChunksTile, Name
<1>6. /\ Len(chunks') = n + 1 /\ chunks'[n + 1] = Name
      /\ \A i \in 1 .. n : chunks'[i] = chunks[i]
    BY <1>1, <1>5
<1>7. Name \in DOMAIN outputs' /\ outputs'[Name] = content
    BY <1>1 DEF Written
<1>8. \A i \in 1 .. n : chunks[i] # Name
    <2> SUFFICES ASSUME NEW i \in 1 .. n, chunks[i] = Name PROVE FALSE
        OBVIOUS
    <2>1. high < chunks[i][2] /\ chunks[i][2] <= chunks[i][1] /\ chunks[i][2] \in Nat
        BY DEF ChainInv, IInv, ChunksTile
    <2> QED
        BY <1>3, <1>5, <2>1
<1>9. \A i \in 1 .. n :
        chunks[i] \in DOMAIN outputs' /\ outputs'[chunks[i]] = outputs[chunks[i]]
    BY <1>1, <1>8 DEF Written, ChainInv
<1>10. ASSUME NEW i \in 1 .. (n + 1)
       PROVE  /\ chunks'[i] \in DOMAIN outputs'
              /\ Describes(outputs'[chunks'[i]], chunks'[i])
              /\ chunks'[i][2] \in Nat
              /\ pc' # "idle" => high' < chunks'[i][2]
    <2>1. CASE i \in 1 .. n
        <3>1. /\ Describes(outputs[chunks[i]], chunks[i])
              /\ chunks[i][2] \in Nat /\ high < chunks[i][2]
            BY <2>1 DEF ChainInv
        <3>2. high - batch_size < chunks[i][2]
            BY <1>3, <3>1
        <3> QED
            BY <1>1, <1>6, <1>9, <2>1, <3>1, <3>2
    <2>2. CASE i = n + 1
        BY <1>1, <1>3, <1>4, <1>5, <1>6, <1>7, <2>2
    <2> QED
        BY <1>5, <2>1, <2>2
<1>11. ASSUME NEW i \in 1 .. n
       PROVE  /\ outputs'[chunks'[i]].new_mmr_roots = outputs'[chunks'[i + 1]].mmr_last_roots
              /\ outputs'[chunks'[i]].new_mmr_len = outputs'[chunks'[i + 1]].mmr_last_len
    <2>1. CASE i < n
        <3>1. i \in 1 .. (n - 1) /\ i + 1 \in 1 .. n
            BY <1>5, <2>1
        <3> QED
            BY <1>6, <1>9, <3>1 DEF ChainInv
    <2>2. CASE i = n
        <3>1. /\ outputs[chunks[n]].new_mmr_roots = last.mmr_roots
              /\ outputs[chunks[n]].new_mmr_len = last.mmr_size
            BY <1>5, <2>2 DEF ChainInv
        <3> QED
            BY <1>2, <1>6, <1>7, <1>9, <2>2, <3>1
    <2> QED
        BY <1>5, <2>1, <2>2
<1>12. /\ outputs'[chunks'[n + 1]].new_mmr_roots = last'.mmr_roots
       /\ outputs'[chunks'[n + 1]].new_mmr_len = last'.mmr_size
    BY <1>1, <1>2, <1>6, <1>7
<1>13. 1 .. (Len(chunks') - 1) = 1 .. n
    BY <1>5, <1>6
<1> QED
    BY <1>1, <1>6, <1>10, <1>11, <1>12, <1>13 DEF ChainInv

-----------------------------------------------------------------------------
(* The MMRs, as MmrProofs knows them.                                      *)

Pow2Table == [i \in 0 .. MaxBits |-> 2^i]

(* The arithmetic, with nothing to count. *)
M == INSTANCE MmrProofs WITH x <- calls, Bound <- 1, pow2_array <- Pow2Table

(* What M assumes of its constants holds of those of the preparation.      *)
LEMMA Instance ==
    /\ M!IsPow2Array
    /\ MaxHeight \in Nat /\ MaxHeight + 2 <= MaxBits
    /\ 1 \in Nat \ {0} /\ 1 < Pow2Table[MaxHeight + 1]
    /\ M!P(MaxHeight + 1) = 2^(MaxHeight + 1)
<1>1. /\ MaxBits \in Nat \ {0} /\ MaxHeight \in Nat /\ MaxHeight + 2 <= MaxBits
      /\ \A i \in 0 .. MaxBits : 2^i \in Nat
    BY PowerAssumption, RoomAssumption
<1>2. \A i \in 0 .. MaxBits : Pow2Table[i] = 2^i
    BY DEF Pow2Table
<1>3. Pow2Table \in [0 .. MaxBits -> Nat]
    BY <1>1 DEF Pow2Table
<1>4. Pow2Table[0] = 1
    <2>1. 0 \in 0 .. MaxBits
        BY <1>1
    <2>2. Pow2Table[0] = 2^0
        BY <2>1, Zenon DEF Pow2Table
    <2>3. 2^0 = 1
        BY PowerAssumption, Zenon
    <2> QED
        BY <2>2, <2>3, Zenon
<1>5. \A i \in 0 .. (MaxBits - 1) : Pow2Table[i + 1] = 2 * Pow2Table[i]
    <2>1. ASSUME NEW i \in 0 .. (MaxBits - 1)
          PROVE  i \in 0 .. MaxBits /\ i + 1 \in 0 .. MaxBits /\ 2^(i + 1) = 2 * 2^i
        BY <1>1, PowerAssumption
    <2> QED
        BY <1>2, <2>1
<1>6. M!IsPow2Array
    BY <1>1, <1>2, <1>3, <1>4, <1>5 DEF M!IsPow2Array
<1>7. M!P(MaxHeight + 1) = 2^(MaxHeight + 1) /\ Pow2Table[MaxHeight + 1] = 2^(MaxHeight + 1)
    BY <1>1, <1>2 DEF M!P
<1>8. 1 < 2^(MaxHeight + 1)
    <2>1. MaxCalls \in Nat /\ MaxRange \in Nat /\ DYNAMIC_BATCH_SIZE_START \in Nat
        BY PrepareAssumption, RoomAssumption
    <2>2. MaxCalls * MaxRange \in Nat
        BY <2>1
    <2>3. MaxHeight + 1 \in 0 .. MaxBits
        BY <1>1
    <2>4. /\ 2^(MaxHeight + 1) \in Nat
          /\ MaxCalls * MaxRange + 1 + DYNAMIC_BATCH_SIZE_START + 1 < 2^(MaxHeight + 1)
        BY <1>1, <2>3, RoomAssumption DEF MaxLeaves
    <2> QED
        BY <2>1, <2>2, <2>4
<1> QED
    BY <1>1, <1>6, <1>7, <1>8

(* The forest of the model and that of M are the same.                     *)
LEMMA SameForest ==
    /\ \A n : M!MmrSize(n) = Forest!MmrSize(n)
    /\ \A n : M!PeakCount(n) = Cardinality(Forest!PeakTrees(n))
    /\ \A s : M!PeakHashes(s) = Forest!PeakHashes(s) /\ M!MmrRoot(s) = Forest!MmrRoot(s)
<1>1. ASSUME NEW S
      PROVE  M!Cardinality(S) = Cardinality(S) /\ Forest!Cardinality(S) = Cardinality(S)
    BY DEF M!Cardinality, Forest!Cardinality, Cardinality
<1>2. \A n : M!Subtrees(n) = Forest!Subtrees(n)
    BY DEF M!Subtrees, Forest!Subtrees, M!LastLeaf, Forest!LastLeaf, M!Width, Forest!Width
<1>3. \A n : M!MmrSize(n) = Forest!MmrSize(n)
    BY <1>1, <1>2 DEF M!MmrSize, Forest!MmrSize
<1>4. \A n : M!PeakTrees(n) = Forest!PeakTrees(n)
    BY <1>2 DEF M!PeakTrees, Forest!PeakTrees, M!ParentOf, Forest!ParentOf
<1>5. ASSUME NEW n PROVE M!PeakSequence(n) = Forest!PeakSequence(n)
    BY <1>1, <1>4 DEF M!PeakSequence, Forest!PeakSequence
<1>6. ASSUME NEW s PROVE M!TreeHash(s) = Forest!TreeHash(s)
    BY DEF M!TreeHash, Forest!TreeHash, M!PairHash, Forest!PairHash
<1>7. ASSUME NEW s PROVE M!PeakHashes(s) = Forest!PeakHashes(s)
    BY <1>5, <1>6 DEF M!PeakHashes, Forest!PeakHashes
<1>8. ASSUME NEW s PROVE M!MmrRoot(s) = Forest!MmrRoot(s)
    BY <1>3, <1>7 DEF M!MmrRoot, Forest!MmrRoot, M!PairHash, Forest!PairHash
<1>9. \A n : M!PeakCount(n) = Cardinality(Forest!PeakTrees(n))
    BY <1>1, <1>4 DEF M!PeakCount
<1> QED
    BY <1>3, <1>7, <1>8, <1>9

(* The tools of M list peaks and extend an MMR as those of the model.      *)
LEMMA SameTools ==
    /\ \A n : py_get_peaks(n) = M!Py!py_get_peaks(n)
    /\ \A n : merges_after(n) = M!Py!merges_after(n)
    /\ \A n : py_is_valid_mmr_size(n) = M!Py!py_is_valid_mmr_size(n)
    /\ \A hashes, positions, peaks, last_pos :
           extend_mmr_poseidon(hashes, positions, peaks, last_pos) =
               M!Py!extend_mmr_poseidon(hashes, positions, peaks, last_pos)
<1>1. ASSUME NEW n PROVE bit_length(n) = M!Py!bit_length(n)
    BY DEF bit_length, M!Py!bit_length
<1>2. ASSUME NEW n PROVE tree_pos_height(n) = M!Py!tree_pos_height(n)
    BY <1>1 DEF tree_pos_height, M!Py!tree_pos_height
<1>3. ASSUME NEW n PROVE left_peak_height_pos(n) = M!Py!left_peak_height_pos(n)
    BY DEF left_peak_height_pos, M!Py!left_peak_height_pos
<1>4. ASSUME NEW h, NEW p, NEW n
      PROVE  get_right_peak(h, p, n) = M!Py!get_right_peak(h, p, n)
    BY DEF get_right_peak, M!Py!get_right_peak, sibling_offset, M!Py!sibling_offset
<1>5. ASSUME NEW n PROVE py_get_peaks(n) = M!Py!py_get_peaks(n)
    BY <1>3, <1>4 DEF py_get_peaks, M!Py!py_get_peaks
<1>6. ASSUME NEW n PROVE merges_after(n) = M!Py!merges_after(n)
    BY <1>2 DEF merges_after, M!Py!merges_after
<1>7. ASSUME NEW mmr, NEW elem PROVE add(mmr, elem) = M!Py!add(mmr, elem)
    BY <1>6 DEF add, M!Py!add, WithHash, M!Py!WithHash, NewMmr, M!Py!NewMmr,
                hash_pair, M!Py!hash_pair, sibling_offset, M!Py!sibling_offset
<1>8. ASSUME NEW mmr PROVE mmr_get_peaks(mmr) = M!Py!mmr_get_peaks(mmr)
    BY <1>5 DEF mmr_get_peaks, M!Py!mmr_get_peaks
<1>9. ASSUME NEW peaks PROVE py_bag_peaks(peaks) = M!Py!py_bag_peaks(peaks)
    BY DEF py_bag_peaks, M!Py!py_bag_peaks, hash_pair, M!Py!hash_pair, FoldRight,
           M!Py!FoldRight, MapThenFoldSet, M!Py!MapThenFoldSet, Front, M!Py!Front,
           Last, M!Py!Last, Min, M!Py!Min
<1>10. ASSUME NEW mmr PROVE get_root(mmr) = M!Py!get_root(mmr)
    BY <1>8, <1>9 DEF get_root, M!Py!get_root, hash_pair, M!Py!hash_pair
<1>11. ASSUME NEW hashes, NEW positions, NEW peaks, NEW last_pos
       PROVE  extend_mmr_poseidon(hashes, positions, peaks, last_pos) =
                  M!Py!extend_mmr_poseidon(hashes, positions, peaks, last_pos)
    BY <1>7, <1>8, <1>10 DEF extend_mmr_poseidon, M!Py!extend_mmr_poseidon, FoldRight,
           M!Py!FoldRight, MapThenFoldSet, M!Py!MapThenFoldSet, Min, M!Py!Min,
           ToSet, M!Py!ToSet, NewMmr, M!Py!NewMmr
<1>12. ASSUME NEW n PROVE py_is_valid_mmr_size(n) = M!Py!py_is_valid_mmr_size(n)
    <2>1. \A m : py_peak(m) = M!Py!py_peak(m)
        BY <1>1 DEF py_peak, M!Py!py_peak
    <2> QED
        BY <2>1 DEF py_is_valid_mmr_size, M!Py!py_is_valid_mmr_size
<1> QED
    BY <1>5, <1>6, <1>11, <1>12

-----------------------------------------------------------------------------
(* What a call returns.                                                    *)

(* Blocks of which an MMR has one leaf each, after the seed.               *)
LEMMA HashesTypes ==
    ASSUME NEW blocks \in Seq(Int), NEW h \in Hasher
    PROVE  /\ Len(blocks) \in Nat
           /\ Len(HashesOf(blocks, h)) = Len(blocks) + 1
           /\ HashesOf(blocks, h)[1] = <<h, Seed>>
           /\ \A i \in 1 .. Len(blocks) : HashesOf(blocks, h)[i + 1] = <<h, blocks[i]>>
<1> DEFINE all == <<Seed>> \o blocks
           hashes == HashesOf(blocks, h)
<1>1. Len(blocks) \in Nat /\ Seed \in Int
    BY DEF Seed
<1>2. /\ all[1] = Seed /\ \A i \in 1 .. Len(blocks) : all[i + 1] = blocks[i]
    <2>1. /\ Len(<<Seed>>) = 1 /\ <<Seed>>[1] = Seed /\ <<Seed>> \in Seq(Int)
        BY <1>1
    <2>2. /\ Len(all) = 1 + Len(blocks)
          /\ \A i \in 1 .. Len(<<Seed>>) + Len(blocks) :
                all[i] = IF i <= Len(<<Seed>>) THEN <<Seed>>[i] ELSE blocks[i - Len(<<Seed>>)]
        BY <2>1, ConcatProperties
    <2> HIDE DEF all
    <2>3. all[1] = Seed
        BY <1>1, <2>1, <2>2
    <2>4. ASSUME NEW i \in 1 .. Len(blocks)
          PROVE  all[i + 1] = blocks[i]
        <3>1. i + 1 \in 1 .. Len(<<Seed>>) + Len(blocks) /\ ~(i + 1 <= Len(<<Seed>>))
              /\ (i + 1) - Len(<<Seed>>) = i
            BY <1>1, <2>1
        <3> QED
            BY <2>2, <3>1
    <2> QED
        BY <2>3, <2>4
<1>3. hashes = [i \in 1 .. (Len(blocks) + 1) |-> compute_hashes(all[i])[h]]
    BY DEF HashesOf
<1> HIDE DEF all, hashes
<1>4. \A i \in 1 .. (Len(blocks) + 1) : hashes[i] = <<h, all[i]>>
    BY <1>3 DEF compute_hashes
<1>5. Len(hashes) = Len(blocks) + 1
    BY <1>1, <1>3
<1>6. hashes[1] = <<h, Seed>>
    BY <1>1, <1>2, <1>4
<1>7. ASSUME NEW i \in 1 .. Len(blocks)
      PROVE  hashes[i + 1] = <<h, blocks[i]>>
    <2>1. i + 1 \in 1 .. (Len(blocks) + 1)
        BY <1>1
    <2> QED
        BY <2>1, <1>2, <1>4
<1> QED
    BY <1>1, <1>5, <1>6, <1>7 DEF hashes

(* The blocks with those of a chunk after them, the highest first.         *)
WithChunk(blocks, high, low) == blocks \o Reverse(BlocksOf(high, low))

LEMMA ChunkTypes ==
    ASSUME NEW blocks \in Seq(Int), NEW high \in Int, NEW low \in Int, low <= high
    PROVE  LET n == high - low + 1
               more == WithChunk(blocks, high, low)
           IN  /\ more \in Seq(Int) /\ Len(more) = Len(blocks) + n
               /\ \A i \in 1 .. Len(blocks) : more[i] = blocks[i]
               /\ \A i \in 1 .. n : more[Len(blocks) + i] = high - i + 1
<1> DEFINE n == high - low + 1
           chunk == Reverse(BlocksOf(high, low))
           more == WithChunk(blocks, high, low)
<1>1. n \in Nat /\ Len(blocks) \in Nat
    OBVIOUS
<1>2. BlocksOf(high, low) \in Seq(Int) /\ Len(BlocksOf(high, low)) = n
      /\ \A i \in 1 .. n : BlocksOf(high, low)[i] = low + i - 1
    <2>1. BlocksOf(high, low) \in [1 .. n -> Int]
        BY DEF BlocksOf
    <2>2. \A i \in 1 .. n : BlocksOf(high, low)[i] = low + i - 1
        BY DEF BlocksOf
    <2> HIDE DEF n
    <2>3. BlocksOf(high, low) \in Seq(Int)
        BY <1>1, <2>1
    <2>4. Len(BlocksOf(high, low)) = n
        BY <1>1, <2>1, <2>3
    <2> QED
        BY <2>2, <2>3, <2>4
<1>3. chunk = [i \in 1 .. n |-> BlocksOf(high, low)[(n - i) + 1]]
    BY <1>2 DEF Reverse
<1>4. ASSUME NEW i \in 1 .. n
      PROVE  chunk[i] = high - i + 1
    <2>1. (n - i) + 1 \in 1 .. n /\ low + ((n - i) + 1) - 1 = high - i + 1
        OBVIOUS
    <2> QED
        BY <1>2, <1>3, <2>1
<1>5. chunk \in Seq(Int) /\ Len(chunk) = n
    <2> HIDE DEF n
    <2>1. chunk \in [1 .. n -> Int]
        <3>1. \A i \in 1 .. n : chunk[i] \in Int
            BY <1>1, <1>4
        <3> HIDE DEF chunk
        <3> QED
            BY <1>3, <3>1
    <2> HIDE DEF chunk
    <2>2. chunk \in Seq(Int)
        BY <1>1, <2>1
    <2> QED
        BY <1>1, <2>1, <2>2
<1> HIDE DEF chunk, n
<1>6. more = blocks \o chunk
    BY DEF WithChunk, chunk
<1>7. /\ more \in Seq(Int) /\ Len(more) = Len(blocks) + n
      /\ \A i \in 1 .. Len(blocks) + n :
            more[i] = IF i <= Len(blocks) THEN blocks[i] ELSE chunk[i - Len(blocks)]
    <2>1. /\ blocks \o chunk \in Seq(Int) /\ Len(blocks \o chunk) = Len(blocks) + Len(chunk)
          /\ \A i \in 1 .. Len(blocks) + Len(chunk) :
                (blocks \o chunk)[i] =
                    IF i <= Len(blocks) THEN blocks[i] ELSE chunk[i - Len(blocks)]
        BY <1>5, ConcatProperties
    <2> QED
        BY <1>5, <1>6, <2>1
<1>8. \A i \in 1 .. Len(blocks) : more[i] = blocks[i]
    BY <1>1, <1>7
<1>9. ASSUME NEW i \in 1 .. n
      PROVE  more[Len(blocks) + i] = high - i + 1
    <2>1. Len(blocks) + i \in 1 .. Len(blocks) + n /\ ~(Len(blocks) + i <= Len(blocks))
          /\ (Len(blocks) + i) - Len(blocks) = i
        BY <1>1
    <2> QED
        BY <1>4, <1>7, <2>1
<1> QED
    BY <1>7, <1>8, <1>9 DEF n

(* A chunk takes the state of the MMRs of some blocks to that of the MMRs  *)
(* with its blocks added, whatever the blocks.                             *)
LEMMA ChunkExtends ==
    ASSUME NEW blocks \in Seq(Int), NEW high \in Int, NEW low \in Int, low <= high,
           Len(blocks) + (high - low + 1) + 2 < 2^(MaxHeight + 1)
    PROVE  process_chunk(FromScratch(blocks), BlocksOf(high, low)) =
               FromScratch(WithChunk(blocks, high, low))
<1> DEFINE n == high - low + 1
           k == Len(blocks) + 1
           more == WithChunk(blocks, high, low)
           params == FromScratch(blocks)
           new == FromScratch(more)
           Hashes(h) == [i \in DOMAIN BlocksOf(high, low) |->
                            compute_hashes(BlocksOf(high, low)[i])[h]]
           Result(h) == extend_mmr(Hashes(h), py_get_peaks(params.mmr_size),
                                   params.mmr_peaks[h], params.mmr_size - 1)
<1>1. /\ more \in Seq(Int) /\ Len(more) = Len(blocks) + n
      /\ \A i \in 1 .. Len(blocks) : more[i] = blocks[i]
      /\ \A i \in 1 .. n : more[Len(blocks) + i] = high - i + 1
    BY ChunkTypes
<1>2. /\ n \in Nat /\ k \in Nat \ {0} /\ Len(blocks) \in Nat
      /\ Len(more) + 1 = k + n
    BY <1>1
<1>3. k + n + 1 < M!P(MaxHeight + 1)
    <2>1. k + n + 1 = Len(blocks) + n + 2
        BY <1>2
    <2> QED
        BY <2>1, Instance
<1>4. ASSUME NEW h \in Hasher
      PROVE  /\ Result(h).peaks = Forest!PeakHashes(HashesOf(more, h))
             /\ Result(h).size = Forest!MmrSize(Len(more) + 1)
             /\ Result(h).root = Forest!MmrRoot(HashesOf(more, h))
    <2> DEFINE old == HashesOf(blocks, h)
               all == HashesOf(more, h)
    <2>1. /\ Len(old) = k /\ old[1] = <<h, Seed>>
          /\ \A i \in 1 .. Len(blocks) : old[i + 1] = <<h, blocks[i]>>
        BY HashesTypes
    <2>2. /\ Len(all) = k + n /\ all[1] = <<h, Seed>>
          /\ \A i \in 1 .. Len(more) : all[i + 1] = <<h, more[i]>>
        BY <1>1, <1>2, HashesTypes
    <2>3. M!Agree(old, all, k)
        <3>1. ASSUME NEW i \in 1 .. k
              PROVE  old[i] = all[i]
            <4>1. CASE i = 1
                BY <2>1, <2>2, <4>1
            <4>2. CASE i # 1
                <5>1. i - 1 \in 1 .. Len(blocks) /\ i - 1 \in 1 .. Len(more) /\ (i - 1) + 1 = i
                    <6> HIDE DEF more
                    <6> QED
                        BY <1>1, <1>2, <4>2
                <5>2. old[i] = <<h, blocks[i - 1]>> /\ all[i] = <<h, more[i - 1]>>
                    <6> HIDE DEF old, all, more
                    <6> QED
                        BY <2>1, <2>2, <5>1
                <5> QED
                    BY <1>1, <5>1, <5>2
            <4> QED
                BY <4>1, <4>2
        <3> QED
            BY <3>1 DEF M!Agree
    <2>4. M!LastFirst(Hashes(h), all, k, n)
        <3>1. /\ DOMAIN BlocksOf(high, low) = 1 .. n
              /\ \A i \in 1 .. n : BlocksOf(high, low)[i] = low + i - 1
            BY DEF BlocksOf
        <3>2. DOMAIN Hashes(h) = 1 .. n
            BY <3>1
        <3>3. ASSUME NEW i \in 1 .. n
              PROVE  Hashes(h)[i] = all[k + n + 1 - i]
            <4>1. Hashes(h)[i] = <<h, low + i - 1>>
                BY <3>1 DEF compute_hashes
            <4>2. /\ n + 1 - i \in 1 .. n /\ high - (n + 1 - i) + 1 = low + i - 1
                BY <1>2
            <4>3. more[Len(blocks) + (n + 1 - i)] = low + i - 1
                BY <1>1, <4>2
            <4>4. /\ Len(blocks) + (n + 1 - i) \in 1 .. Len(more)
                  /\ (Len(blocks) + (n + 1 - i)) + 1 = k + n + 1 - i
                <5> HIDE DEF more
                <5> QED
                    BY <1>1, <1>2, <4>2
            <4>5. all[k + n + 1 - i] = <<h, more[Len(blocks) + (n + 1 - i)]>>
                <5> HIDE DEF all, more
                <5> QED
                    BY <2>2, <4>4
            <4> QED
                BY <4>1, <4>3, <4>5
        <3> QED
            BY <3>2, <3>3 DEF M!LastFirst
    <2>5. /\ params.mmr_size = M!MmrSize(k) /\ params.mmr_peaks[h] = M!PeakHashes(old)
        BY SameForest DEF FromScratch
    <2>6. Result(h) = M!Py!extend_mmr_poseidon(Hashes(h), M!Py!py_get_peaks(M!MmrSize(k)),
                                               M!PeakHashes(old), M!MmrSize(k) - 1)
        <3> HIDE DEF params, Hashes, old, k
        <3> QED
            BY <2>5, SameTools DEF extend_mmr
    <2> HIDE DEF Result, Hashes, all, old, k, n
    <2>7. /\ Result(h).peaks = M!PeakHashes(all)
          /\ Result(h).size = M!MmrSize(k + n)
          /\ Result(h).root = M!MmrRoot(all)
        BY <1>2, <1>3, <2>1, <2>2, <2>3, <2>4, <2>6, M!ExtendsForest, Instance
    <2> QED
        BY <1>2, <2>7, SameForest DEF all
<1>5. process_chunk(params, BlocksOf(high, low)) =
        [ mmr_peaks |-> [h \in Hasher |-> Result(h).peaks],
          mmr_size  |-> Result("poseidon").size,
          mmr_roots |-> [h \in Hasher |-> Result(h).root] ]
    <2> DEFINE result == [h \in Hasher |-> Result(h)]
    <2>1. process_chunk(params, BlocksOf(high, low)) =
            [ mmr_peaks |-> [h \in Hasher |-> result[h].peaks],
              mmr_size  |-> result["poseidon"].size,
              mmr_roots |-> [h \in Hasher |-> result[h].root] ]
        BY Zenon DEF process_chunk
    <2>2. "poseidon" \in Hasher /\ \A h \in Hasher : result[h] = Result(h)
        BY DEF Hasher
    <2> HIDE DEF result, Result
    <2> QED
        BY <2>1, <2>2
<1>6. new = [ mmr_peaks |-> [h \in Hasher |-> Forest!PeakHashes(HashesOf(more, h))],
              mmr_size  |-> Forest!MmrSize(Len(more) + 1),
              mmr_roots |-> [h \in Hasher |-> Forest!MmrRoot(HashesOf(more, h))] ]
    BY DEF FromScratch
<1>7. "poseidon" \in Hasher
    BY DEF Hasher
<1> HIDE DEF Result, more, new, params
<1>8. process_chunk(params, BlocksOf(high, low)) = new
    BY <1>4, <1>5, <1>6, <1>7
<1> QED
    BY <1>8 DEF params, new, more

(* The MMRs of the seed alone. *)
LEMMA NewIsFromScratch == NewParams = FromScratch(<<>>)
<1>1. ASSUME NEW h \in Hasher
      PROVE  /\ Forest!PeakHashes(HashesOf(<<>>, h)) = <<compute_hashes(Seed)[h]>>
             /\ Forest!MmrRoot(HashesOf(<<>>, h)) = hash_pair(<<1>>, compute_hashes(Seed)[h])
             /\ Forest!MmrSize(1) = 1
    <2> DEFINE hashes == HashesOf(<<>>, h)
    <2>1. Len(hashes) = 1 /\ hashes[1] = compute_hashes(Seed)[h]
        <3>1. <<>> \in Seq(Int) /\ Len(<<>>) = 0
            OBVIOUS
        <3>2. compute_hashes(Seed)[h] = <<h, Seed>>
            BY DEF compute_hashes
        <3>3. Len(hashes) = Len(<<>>) + 1 /\ hashes[1] = <<h, Seed>>
            BY <3>1, HashesTypes, Zenon
        <3> HIDE DEF hashes
        <3> QED
            BY <3>1, <3>2, <3>3
    <2> HIDE DEF hashes
    <2>2. /\ M!PeakHashes(hashes) = <<hashes[1]>> /\ M!MmrSize(1) = 1
          /\ M!MmrRoot(hashes) = <<<<1>>, hashes[1]>>
        BY <2>1, M!OneLeaf, Instance
    <2> QED
        BY <2>1, <2>2, SameForest DEF hashes, hash_pair
<1>2. Len(<<>>) + 1 = 1 /\ "poseidon" \in Hasher
    BY DEF Hasher
<1>3. Forest!MmrSize(Len(<<>>) + 1) = 1
    BY <1>1, <1>2
<1> QED
    BY <1>1, <1>3 DEF NewParams, FromScratch

(* A state that a caller makes up does not fit its size: process_chunk     *)
(* refuses it.                                                             *)
OddParamsDoNotFit == \A o \in OddParams : ~PeaksFitSize(o.params)

(* This is the state of the MMRs of these blocks, which are not too many.  *)
Resumable(params, blocks, most) ==
    /\ blocks \in Seq(Int) /\ Len(blocks) <= most
    /\ params = FromScratch(blocks)

(* How many blocks a number of calls can add. *)
Room(c) == c * MaxRange

(* A call goes on from an MMR of the blocks of the calls before and of its *)
(* own, down to the chunk it is at.                                        *)
ResumeInv ==
    /\ calls \in 0 .. MaxCalls
    /\ \A r \in returned : Resumable(r.params, r.leaves, Room(calls))
    /\ pc # "idle" =>
        /\ calls >= 1
        /\ PeaksFitSize(last) =>
               Resumable(last, leaves,
                         Room(calls - 1) + (request.from - from_block_number_high))

(* The calls stay below the height bound. *)
LEMMA RoomFits ==
    /\ MaxLeaves \in Nat \ {0} /\ MaxRange \in Nat /\ 2^(MaxHeight + 1) \in Nat
    /\ MaxLeaves + DYNAMIC_BATCH_SIZE_START + 1 < 2^(MaxHeight + 1)
    /\ \A c \in 1 .. MaxCalls :
        /\ Room(c - 1) \in Nat /\ Room(c) \in Nat
        /\ Room(c - 1) + MaxRange = Room(c)
        /\ Room(c) + 1 <= MaxLeaves /\ Room(c) + 2 < 2^(MaxHeight + 1)
<1>1. MaxCalls \in Nat /\ MaxRange \in Nat /\ DYNAMIC_BATCH_SIZE_START \in Nat \ {0}
    BY PrepareAssumption, RoomAssumption
<1>2. MaxCalls * MaxRange \in Nat
    BY <1>1
<1>3. MaxLeaves = MaxCalls * MaxRange + 1 /\ MaxLeaves \in Nat \ {0}
    BY <1>2 DEF MaxLeaves
<1>4. MaxHeight + 1 \in 0 .. MaxBits
    BY RoomAssumption, PowerAssumption
<1>5. /\ 2^(MaxHeight + 1) \in Nat
      /\ MaxLeaves + DYNAMIC_BATCH_SIZE_START + 1 < 2^(MaxHeight + 1)
    BY <1>4, RoomAssumption, PowerAssumption
<1>6. ASSUME NEW c \in 1 .. MaxCalls
      PROVE  /\ Room(c - 1) \in Nat /\ Room(c) \in Nat
             /\ Room(c - 1) + MaxRange = Room(c)
             /\ Room(c) + 1 <= MaxLeaves
    <2>1. c \in Nat /\ c - 1 \in Nat /\ MaxCalls - c \in Nat
        BY <1>1
    <2>2. Room(c - 1) \in Nat /\ Room(c) \in Nat /\ (MaxCalls - c) * MaxRange \in Nat
        BY <1>1, <2>1 DEF Room
    <2>3. Room(c - 1) + MaxRange = Room(c)
        BY <1>1, <2>1 DEF Room
    <2>4. Room(c) + (MaxCalls - c) * MaxRange = MaxCalls * MaxRange
        BY <1>1, <2>1 DEF Room
    <2> HIDE DEF Room
    <2> QED
        BY <1>2, <1>3, <2>2, <2>3, <2>4
<1>7. ASSUME NEW r \in Nat, r + 1 <= MaxLeaves
      PROVE  r + 2 < 2^(MaxHeight + 1)
    <2> DEFINE top == 2^(MaxHeight + 1)
    <2>1. top \in Nat /\ MaxLeaves + DYNAMIC_BATCH_SIZE_START + 1 < top
        BY <1>5
    <2> HIDE DEF top
    <2>2. r + 2 < top
        BY <1>1, <1>3, <1>7, <2>1
    <2> QED
        BY <2>2 DEF top
<1> QED
    BY <1>1, <1>3, <1>5, <1>6, <1>7

LEMMA InitiallyResumable == Init => ResumeInv
<1> SUFFICES ASSUME Init PROVE ResumeInv
    OBVIOUS
<1>1. /\ calls = 0 /\ pc = "idle" /\ returned = {[params |-> NewParams, leaves |-> <<>>]}
    BY DEF Init
<1>2. MaxCalls \in Nat /\ MaxRange \in Nat
    BY PrepareAssumption, RoomAssumption
<1>3. Room(calls) = 0
    BY <1>1, <1>2 DEF Room
<1>4. Resumable(NewParams, <<>>, Room(calls))
    BY <1>3, NewIsFromScratch DEF Resumable
<1> QED
    BY <1>1, <1>2, <1>4 DEF ResumeInv

LEMMA CallResumes ==
    ASSUME OddParamsDoNotFit, ResumeInv, NEW r \in Request,
           NEW initial \in returned \union OddParams, prepare_full_chain_inputs(r, initial)
    PROVE  ResumeInv'
<1>1. /\ calls < MaxCalls /\ calls' = calls + 1 /\ returned' = returned
      /\ last' = initial.params /\ leaves' = initial.leaves
      /\ request' = r /\ from_block_number_high' = r.from
    BY DEF prepare_full_chain_inputs, StartChunk
<1>2. calls \in Nat /\ calls' \in 1 .. MaxCalls /\ calls' - 1 = calls
    BY <1>1, PrepareAssumption DEF ResumeInv
<1>3. /\ Room(calls) \in Nat /\ Room(calls') \in Nat
      /\ Room(calls) <= Room(calls')
    <2>1. /\ Room(calls' - 1) \in Nat /\ Room(calls') \in Nat /\ MaxRange \in Nat
          /\ Room(calls' - 1) + MaxRange = Room(calls')
        BY <1>2, RoomFits, Zenon
    <2>2. Room(calls' - 1) = Room(calls)
        BY <1>2, Zenon
    <2> QED
        BY <2>1, <2>2
<1>4. ASSUME NEW q \in returned
      PROVE  Resumable(q.params, q.leaves, Room(calls'))
    <2>1. Resumable(q.params, q.leaves, Room(calls))
        BY DEF ResumeInv
    <2>2. Len(q.leaves) \in Nat
        BY <2>1 DEF Resumable
    <2> QED
        BY <1>3, <2>1, <2>2 DEF Resumable
<1>5. ASSUME PeaksFitSize(initial.params)
      PROVE  Resumable(initial.params, initial.leaves, Room(calls' - 1) + (r.from - r.from))
    <2>1. initial \in returned
        BY <1>5 DEF OddParamsDoNotFit
    <2>2. Resumable(initial.params, initial.leaves, Room(calls))
        BY <2>1 DEF ResumeInv
    <2>3. Room(calls' - 1) + (r.from - r.from) = Room(calls)
        <3>1. r.from \in Int
            BY Requests
        <3>2. r.from - r.from = 0
            BY <3>1
        <3>3. Room(calls' - 1) = Room(calls)
            BY <1>2, Zenon
        <3>4. Room(calls) + 0 = Room(calls)
            BY <1>3
        <3> QED
            BY <3>2, <3>3, <3>4
    <2> QED
        BY <2>2, <2>3
<1>6. PeaksFitSize(last)' => PeaksFitSize(initial.params)
    BY <1>1 DEF PeaksFitSize
<1>7. \A q \in returned' : Resumable(q.params, q.leaves, Room(calls))'
    BY <1>1, <1>4 DEF Resumable, Room
<1>8. PeaksFitSize(last)' =>
        Resumable(last, leaves, Room(calls - 1) + (request.from - from_block_number_high))'
    BY <1>1, <1>5, <1>6 DEF Resumable, Room
<1> QED
    BY <1>2, <1>7, <1>8 DEF ResumeInv

(* A chunk adds its blocks, and ends above the next one, or the call with  *)
(* no more blocks than a call can have.                                    *)
LEMMA ChunkBuilds ==
    ASSUME IInv, ResumeInv, pc = "output", PeaksFitSize(last)
    PROVE  LET high == from_block_number_high
               low  == to_block_number_batch_low
               more == WithChunk(leaves, high, low)
           IN  /\ calls \in 1 .. MaxCalls
               /\ high \in Int /\ low \in Int /\ batch_size \in Nat
               /\ high - batch_size >= request.to => low = high - batch_size + 1
               /\ process_chunk(last, BlocksOf(high, low)) = FromScratch(more)
               /\ more \in Seq(Int) /\ Len(more) <= Room(calls)
               /\ Len(more) <= Room(calls - 1) + (request.from - (low - 1))
<1> DEFINE high == from_block_number_high
           low  == to_block_number_batch_low
           from == request.from
           to   == request.to
           n    == high - low + 1
           more == WithChunk(leaves, high, low)
           new  == process_chunk(last, BlocksOf(high, low))
<1>1. /\ high \in Int /\ batch_size \in Nat \ {0} /\ from \in Int /\ to \in Int
      /\ to <= high /\ low = BatchLow(high, batch_size, to)
      /\ from - to + 1 <= MaxRange
    <2>1. request \in Request
        BY DEF IInv, AtChunk
    <2> QED
        BY <2>1, Requests, RoomAssumption DEF IInv, AtChunk
<1>2. /\ low \in Int /\ to <= low /\ low <= high
      /\ high - batch_size >= to => low = high - batch_size + 1
    <2> HIDE DEF high, low, to
    <2> QED
        BY <1>1, BatchBounds
<1>3. /\ calls \in 1 .. MaxCalls
      /\ Resumable(last, leaves, Room(calls - 1) + (from - high))
    BY PrepareAssumption DEF ResumeInv
<1>4. /\ leaves \in Seq(Int) /\ Len(leaves) \in Nat
      /\ Len(leaves) <= Room(calls - 1) + (from - high)
      /\ last = FromScratch(leaves)
    BY <1>3 DEF Resumable
<1>5. /\ Room(calls - 1) \in Nat /\ Room(calls) \in Nat /\ MaxRange \in Nat
      /\ Room(calls - 1) + MaxRange = Room(calls)
      /\ Room(calls) + 2 < 2^(MaxHeight + 1) /\ 2^(MaxHeight + 1) \in Nat
    BY <1>3, RoomFits
<1>6. /\ n \in Nat /\ Len(leaves) + n <= Room(calls - 1) + (from - (low - 1))
      /\ Len(leaves) + n <= Room(calls)
    <2> DEFINE before == Room(calls - 1)
    <2>1. /\ before \in Nat /\ Room(calls) = before + MaxRange
          /\ Len(leaves) <= before + (from - high) /\ from - low + 1 <= MaxRange
        <3>1. from - low + 1 <= MaxRange
            <4> HIDE DEF high, low, from, to
            <4> QED
                BY <1>1, <1>2, <1>5
        <3> QED
            BY <1>4, <1>5, <3>1
    <2>2. n \in Nat
        <3> HIDE DEF high, low
        <3> QED
            BY <1>1, <1>2
    <2>3. ASSUME NEW l \in Nat, NEW b \in Nat, NEW f \in Int, NEW h \in Int, NEW w \in Int,
                 NEW m \in Nat, l <= b + (f - h), f - w + 1 <= m
          PROVE  l + (h - w + 1) <= b + (f - (w - 1)) /\ l + (h - w + 1) <= b + m
        BY <2>3
    <2> HIDE DEF high, low, from, before
    <2>4. /\ Len(leaves) + (high - low + 1) <= before + (from - (low - 1))
          /\ Len(leaves) + (high - low + 1) <= before + MaxRange
        BY <1>1, <1>2, <1>4, <1>5, <2>1, <2>3
    <2> QED
        BY <2>1, <2>2, <2>4 DEF before
<1>7. Len(leaves) + n + 2 < 2^(MaxHeight + 1)
    BY <1>4, <1>5, <1>6
<1>8. new = FromScratch(more)
    <2> HIDE DEF high, low
    <2> QED
        BY <1>1, <1>2, <1>4, <1>7, ChunkExtends DEF n
<1>9. more \in Seq(Int) /\ Len(more) = Len(leaves) + n
    <2> HIDE DEF high, low
    <2> QED
        BY <1>1, <1>2, <1>4, ChunkTypes DEF n
<1> QED
    BY <1>1, <1>2, <1>3, <1>6, <1>8, <1>9

LEMMA ChunkResumes ==
    ASSUME IInv, ResumeInv, pc = "output", PeaksFitSize(last), finish_chunk
    PROVE  ResumeInv'
<1> DEFINE high == from_block_number_high
           low  == to_block_number_batch_low
           from == request.from
           to   == request.to
           more == WithChunk(leaves, high, low)
           new  == process_chunk(last, BlocksOf(high, low))
<1>1. /\ calls \in 1 .. MaxCalls
      /\ high \in Int /\ low \in Int /\ batch_size \in Nat
      /\ high - batch_size >= to => low = high - batch_size + 1
      /\ new = FromScratch(more)
      /\ more \in Seq(Int) /\ Len(more) <= Room(calls)
      /\ Len(more) <= Room(calls - 1) + (from - (low - 1))
    BY ChunkBuilds
<1>2. /\ last' = new /\ leaves' = more /\ calls' = calls /\ request' = request
      /\ from_block_number_high' = high - batch_size
      /\ IF high - batch_size >= to
         THEN pc' = "input" /\ returned' = returned
         ELSE /\ pc' = "idle"
              /\ returned' = returned \union {[params |-> new, leaves |-> more]}
    BY DEF finish_chunk, NextChunk, StartChunk, WithChunk
<1> HIDE DEF new, more
<1>3. Resumable(new, more, Room(calls))
    BY <1>1 DEF Resumable
<1>4. ASSUME NEW r \in returned'
      PROVE  Resumable(r.params, r.leaves, Room(calls))
    BY <1>2, <1>3 DEF ResumeInv
<1>5. ASSUME high - batch_size >= to
      PROVE  Resumable(new, more, Room(calls - 1) + (from - (high - batch_size)))
    <2>1. high - batch_size = low - 1
        BY <1>1, <1>5
    <2> HIDE DEF high, low, from
    <2> QED
        BY <1>1, <2>1 DEF Resumable
<1>6. \A r \in returned' : Resumable(r.params, r.leaves, Room(calls))'
    BY <1>2, <1>4 DEF Resumable, Room
<1>7. pc' # "idle" =>
        Resumable(last, leaves, Room(calls - 1) + (request.from - from_block_number_high))'
    BY <1>2, <1>5 DEF Resumable, Room
<1>8. calls' \in 0 .. MaxCalls /\ calls' >= 1
    BY <1>1, <1>2
<1> QED
    BY <1>6, <1>7, <1>8 DEF ResumeInv

(* A step that adds no block. *)
LEMMA ResumeKept ==
    ASSUME ResumeInv, UNCHANGED <<calls, returned, leaves, last, request>>,
           UNCHANGED from_block_number_high, pc' # "idle" => pc # "idle"
    PROVE  ResumeInv'
BY DEF ResumeInv, Resumable, Room, PeaksFitSize

-----------------------------------------------------------------------------
(* Sums over sets of blocks.                                               *)

Rounds(S) == MapThenSumSet(keccaks, S)

(* What a sum is for every part of a set. *)
Some(s) == CHOOSE b \in s : TRUE
Adds(f, s) == IF s = {} THEN 0 ELSE keccaks(Some(s)) + f[s \ {Some(s)}]
Sums(f, S) == f = [s \in SUBSET S |-> Adds(f, s)]

LEMMA RoundsAre == \A S : Rounds(S) = (CHOOSE f : Sums(f, S))[S]
BY Zenon DEF Rounds, MapThenSumSet, MapThenFoldSet, Sums, Adds, Some

(* The rounds of a header: a whole number of blocks of the rate, of which  *)
(* the last one is padded.                                                 *)
LEMMA KeccaksTypes == \A b \in Stored : keccaks(b) \in Nat
<1> TAKE b \in Stored
<1>1. BytesLen[b] \in Nat /\ KECCAK_FULL_RATE_IN_BYTES \in Nat \ {0}
    BY PrepareAssumption
<1> DEFINE l == BytesLen[b]
           r == KECCAK_FULL_RATE_IN_BYTES
<1> HIDE DEF l, r
<1>2. l \in Nat /\ r \in Nat \ {0}
    BY <1>1 DEF l, r
<1>3. l \div r \in Nat
    BY <1>2
<1> QED
    BY <1>3 DEF keccaks, l, r

(* A part of a set without one element is smaller. *)
LEMMA Smaller ==
    ASSUME NEW S, IsFiniteSet(S), NEW s \in SUBSET S, s # {}
    PROVE  /\ Some(s) \in s /\ s \ {Some(s)} \in SUBSET S
           /\ Cardinality(s) \in Nat \ {0}
           /\ Cardinality(s \ {Some(s)}) = Cardinality(s) - 1
<1>1. Some(s) \in s
    BY Zenon DEF Some
<1>2. IsFiniteSet(s)
    BY FS_Subset
<1>3. Cardinality(s) \in Nat /\ Cardinality(s) # 0
    BY <1>2, FS_CardinalityType, FS_EmptySet
<1>4. Cardinality(s \ {Some(s)}) = Cardinality(s) - 1
    BY <1>1, <1>2, FS_RemoveElement
<1> QED
    BY <1>1, <1>3, <1>4

LEMMA SumExists ==
    ASSUME NEW S, IsFiniteSet(S), S \in SUBSET Stored
    PROVE  \E f \in [SUBSET S -> Nat] : Sums(f, S)
<1> DEFINE D == SUBSET S
           size == [s \in D |-> Cardinality(s)]
           Step == [a \in D \X [D -> Nat] |-> Adds(a[2], a[1])]
<1>1. size \in [D -> Nat]
    BY FS_Subset, FS_CardinalityType
<1>2. ASSUME NEW s \in D, NEW f \in [D -> Nat]
      PROVE  Adds(f, s) \in Nat /\ Step[<<s, f>>] = Adds(f, s)
    <2>1. ASSUME s = {}
          PROVE  Adds(f, s) \in Nat
        BY <2>1 DEF Adds
    <2>2. ASSUME s # {}
          PROVE  Adds(f, s) \in Nat
        <3>1. Some(s) \in Stored /\ s \ {Some(s)} \in D
            BY <2>2, Smaller
        <3>2. keccaks(Some(s)) \in Nat /\ f[s \ {Some(s)}] \in Nat
            BY <3>1, KeccaksTypes
        <3>3. PICK k \in Nat : k = keccaks(Some(s))
            BY <3>2, Zenon
        <3>4. PICK l \in Nat : l = f[s \ {Some(s)}]
            BY <3>2, Zenon
        <3>5. k + l \in Nat
            OBVIOUS
        <3>6. Adds(f, s) = k + l
            BY <2>2, <3>3, <3>4, Zenon DEF Adds
        <3> QED
            BY <3>5, <3>6, Zenon
    <2>3. Adds(f, s) \in Nat
        BY <2>1, <2>2
    <2>4. <<s, f>> \in D \X [D -> Nat] /\ <<s, f>>[1] = s /\ <<s, f>>[2] = f
        OBVIOUS
    <2>5. Step[<<s, f>>] = Adds(<<s, f>>[2], <<s, f>>[1])
        BY <2>4, Zenon
    <2> QED
        BY <2>3, <2>4, <2>5
<1>3. Step \in [D \X [D -> Nat] -> Nat]
    <2>1. ASSUME NEW a \in D \X [D -> Nat]
          PROVE  Adds(a[2], a[1]) \in Nat
        <3>1. a[1] \in D /\ a[2] \in [D -> Nat]
            BY DEF D
        <3> QED
            BY <1>2, <3>1
    <2> QED
        BY <2>1
<1>4. ASSUME NEW s \in D, NEW f \in [D -> Nat], NEW g \in [D -> Nat],
             \A c \in D : size[c] < size[s] => f[c] = g[c]
      PROVE  Step[<<s, f>>] = Step[<<s, g>>]
    <2>1. CASE s = {}
        BY <1>2, <2>1 DEF Adds
    <2>2. CASE s # {}
        <3>1. /\ s \ {Some(s)} \in D /\ Cardinality(s) \in Nat
              /\ Cardinality(s \ {Some(s)}) = Cardinality(s) - 1
            BY <2>2, Smaller
        <3>2. size[s \ {Some(s)}] < size[s]
            BY <3>1
        <3>3. f[s \ {Some(s)}] = g[s \ {Some(s)}]
            BY <1>4, <3>1, <3>2
        <3> QED
            BY <1>2, <2>2, <3>3 DEF Adds
    <2> QED
        BY <2>1, <2>2
<1> HIDE DEF D, size, Step
<1>5. M!LooksDown(D, size, Nat, Step)
    BY <1>1, <1>3, <1>4 DEF M!LooksDown
<1>6. PICK f : M!Follows(f, D, Nat, Step)
    BY <1>5, M!RecursionExists, Instance
<1>7. f \in [D -> Nat] /\ \A s \in D : f[s] = Adds(f, s)
    BY <1>2, <1>6 DEF M!Follows
<1>8. Sums(f, S)
    BY <1>7 DEF Sums, D
<1> QED
    BY <1>7, <1>8 DEF D

(* Sums over the parts that two sets share agree.                          *)
LEMMA SumsAgree ==
    ASSUME NEW S, IsFiniteSet(S), NEW T \in SUBSET S, NEW f, Sums(f, S), NEW g, Sums(g, T)
    PROVE  f[T] = g[T]
<1> DEFINE Bad == {n \in Nat : \E s \in SUBSET T : Cardinality(s) = n /\ f[s] # g[s]}
<1>1. /\ \A s \in SUBSET T : f[s] = Adds(f, s) /\ g[s] = Adds(g, s)
    BY DEF Sums
<1>2. Bad = {}
    <2> SUFFICES ASSUME Bad # {} PROVE FALSE
        OBVIOUS
    <2>1. PICK n \in Bad : \A m \in Bad : n <= m
        <3>1. Bad \in SUBSET Nat
            OBVIOUS
        <3> HIDE DEF Bad
        <3> QED
            BY <3>1, M!SmallestExists, Instance
    <2>2. PICK s \in SUBSET T : Cardinality(s) = n /\ f[s] # g[s]
        BY <2>1
    <2>3. s # {}
        BY <1>1, <2>2 DEF Adds
    <2>4. /\ s \ {Some(s)} \in SUBSET T /\ n \in Nat \ {0}
          /\ Cardinality(s \ {Some(s)}) = n - 1
        <3>1. IsFiniteSet(T)
            BY FS_Subset
        <3> QED
            BY <2>2, <2>3, <3>1, Smaller
    <2>5. f[s \ {Some(s)}] = g[s \ {Some(s)}]
        <3> SUFFICES ASSUME f[s \ {Some(s)}] # g[s \ {Some(s)}] PROVE FALSE
            OBVIOUS
        <3>1. n - 1 \in Bad
            BY <2>4
        <3> HIDE DEF Bad
        <3> QED
            BY <2>1, <2>4, <3>1
    <2> QED
        BY <1>1, <2>2, <2>3, <2>5 DEF Adds
<1>3. Cardinality(T) \in Nat /\ T \in SUBSET T
    BY FS_Subset, FS_CardinalityType
<1> QED
    BY <1>2, <1>3

(* A sum takes one of its elements after the other. *)
LEMMA RoundsOfSome ==
    ASSUME NEW S, IsFiniteSet(S), S \in SUBSET Stored
    PROVE  /\ Rounds(S) \in Nat
           /\ S = {} => Rounds(S) = 0
           /\ S # {} => Rounds(S) = keccaks(Some(S)) + Rounds(S \ {Some(S)})
<1>1. PICK f \in [SUBSET S -> Nat] : Sums(f, S)
    BY SumExists
<1>2. ASSUME NEW T \in SUBSET S
      PROVE  Rounds(T) = f[T]
    <2>1. IsFiniteSet(T) /\ T \in SUBSET Stored
        BY FS_Subset
    <2>2. PICK g : Sums(g, T)
        BY <2>1, SumExists
    <2>3. Sums(CHOOSE h : Sums(h, T), T)
        BY <2>2, Zenon
    <2>4. f[T] = (CHOOSE h : Sums(h, T))[T]
        BY <1>1, <2>3, SumsAgree
    <2> QED
        BY <2>4, RoundsAre
<1>3. f[S] = Adds(f, S) /\ f[S] \in Nat
    BY <1>1 DEF Sums
<1>4. Rounds(S) = f[S]
    BY <1>2
<1>5. S # {} => Rounds(S \ {Some(S)}) = f[S \ {Some(S)}]
    BY <1>2
<1> QED
    BY <1>3, <1>4, <1>5 DEF Adds

(* In whatever order.                                                      *)
LEMMA RoundsWithout ==
    ASSUME NEW S, IsFiniteSet(S), S \in SUBSET Stored, NEW x \in S
    PROVE  Rounds(S) = keccaks(x) + Rounds(S \ {x})
<1> DEFINE Fails(T) == \E y \in T : Rounds(T) # keccaks(y) + Rounds(T \ {y})
           Bad == {n \in Nat : \E T \in SUBSET S : Cardinality(T) = n /\ Fails(T)}
<1>1. Bad = {}
    <2> SUFFICES ASSUME Bad # {} PROVE FALSE
        OBVIOUS
    <2>1. PICK n \in Bad : \A m \in Bad : n <= m
        <3>1. Bad \in SUBSET Nat
            OBVIOUS
        <3> HIDE DEF Bad
        <3> QED
            BY <3>1, M!SmallestExists, Instance
    <2>2. PICK T \in SUBSET S : Cardinality(T) = n /\ Fails(T)
        BY <2>1
    <2>3. PICK y \in T : Rounds(T) # keccaks(y) + Rounds(T \ {y})
        BY <2>2
    <2> DEFINE c == Some(T)
               U == T \ {y}
               V == T \ {c}
    <2>4. IsFiniteSet(T) /\ T \in SUBSET Stored /\ c \in T
        BY <2>3, Smaller, FS_Subset
    <2>5. Rounds(T) = keccaks(c) + Rounds(V)
        BY <2>3, <2>4, RoundsOfSome
    <2>6. c # y
        BY <2>3, <2>5
    <2>7. \A W \in SUBSET S : IsFiniteSet(W) /\ Cardinality(W) = n - 1 => ~Fails(W)
        <3> SUFFICES ASSUME NEW W \in SUBSET S, Cardinality(W) = n - 1, Cardinality(W) \in Nat,
                            Fails(W)
                     PROVE  FALSE
            BY FS_CardinalityType
        <3>1. n - 1 \in Bad /\ n - 1 \in Nat /\ n \in Nat
            BY <2>1
        <3>2. ~(n <= n - 1)
            BY <3>1
        <3> HIDE DEF Bad, Fails
        <3> QED
            BY <2>1, <3>1, <3>2, Zenon
    <2>8. /\ IsFiniteSet(U) /\ Cardinality(U) = n - 1 /\ IsFiniteSet(V) /\ Cardinality(V) = n - 1
        BY <2>2, <2>3, <2>4, FS_RemoveElement
    <2>9. ~Fails(U) /\ ~Fails(V) /\ c \in U /\ y \in V
        BY <2>3, <2>4, <2>6, <2>7, <2>8
    <2>10. Rounds(U) = keccaks(c) + Rounds(U \ {c}) /\ Rounds(V) = keccaks(y) + Rounds(V \ {y})
        BY <2>9
    <2>11. U \ {c} = V \ {y}
        OBVIOUS
    <2>12. keccaks(c) \in Nat /\ keccaks(y) \in Nat /\ Rounds(U \ {c}) \in Nat
        <3>1. IsFiniteSet(U \ {c}) /\ U \ {c} \in SUBSET Stored
            BY <2>4, <2>8, FS_RemoveElement
        <3> QED
            BY <2>3, <2>4, <3>1, KeccaksTypes, RoundsOfSome
    <2> QED
        BY <2>3, <2>5, <2>10, <2>11, <2>12
<1>2. Cardinality(S) \in Nat /\ S \in SUBSET S
    BY FS_CardinalityType
<1> QED
    BY <1>1, <1>2

-----------------------------------------------------------------------------
(* The rounds of a job.                                                    *)

(* The digests of an extension: what the search for a batch size counts,   *)
(* and what it takes, are the same, and grow by one with each block.       *)
LEMMA HashCountIs ==
    ASSUME NEW k \in Nat \ {0}, NEW n \in Nat, k + n + 1 < 2^(MaxHeight + 1)
    PROVE  /\ M!PeakCount(k) \in Nat
           /\ hash_count(Forest!MmrSize(k), n) = 2 * M!PeakCount(k) + n
           /\ Cardinality(Forest!PeakTrees(k)) + (Forest!MmrSize(k + n) - Forest!MmrSize(k) - n)
                    + Cardinality(Forest!PeakTrees(k + n)) = 2 * M!PeakCount(k) + n
<1> DEFINE size == Forest!MmrSize(k)
           f == CHOOSE g : g = [j \in 0 .. n |-> IF j = 0 THEN size
                                                ELSE g[j - 1] + 1 + merges_after(g[j - 1])]
<1>1. hash_count(size, n) =
        Len(py_get_peaks(size)) + (f[n] - size - n) + Len(py_get_peaks(f[n]))
    BY Zenon DEF hash_count
<1>2. f = CHOOSE g : M!Sizes(g, M!MmrSize(k), n)
    BY SameTools, SameForest DEF M!Sizes
<1> HIDE DEF f
<1>3. k + n + 1 < M!P(MaxHeight + 1) /\ k < M!P(MaxHeight + 1) /\ k + n < M!P(MaxHeight + 1)
      /\ k + n \in Nat \ {0}
    <2>1. M!P(MaxHeight + 1) \in Nat
        BY Instance, RoomFits
    <2> QED
        BY <2>1, Instance
<1>4. f[n] = M!MmrSize(k + n)
    BY <1>2, <1>3, M!SizesAre, Instance
<1>5. /\ Len(M!Py!py_get_peaks(M!MmrSize(k))) = M!PeakCount(k)
      /\ Len(M!Py!py_get_peaks(M!MmrSize(k + n))) = M!PeakCount(k + n)
    BY <1>3, M!PyPeaksCounted, Instance
<1>6. /\ M!MmrSize(k) \in Nat /\ M!PeakCount(k) \in Nat
      /\ M!MmrSize(k) + M!PeakCount(k) = 2 * k
      /\ M!MmrSize(k + n) \in Nat /\ M!PeakCount(k + n) \in Nat
      /\ M!MmrSize(k + n) + M!PeakCount(k + n) = 2 * (k + n)
    BY <1>3, M!SizeAndPeaks, Instance
<1>7. \A m : Cardinality(Forest!PeakTrees(m)) = M!PeakCount(m)
    BY SameForest
<1>8. size = M!MmrSize(k) /\ Forest!MmrSize(k + n) = M!MmrSize(k + n)
    BY SameForest
<1>9. hash_count(size, n) =
        M!PeakCount(k) + (M!MmrSize(k + n) - M!MmrSize(k) - n) + M!PeakCount(k + n)
    BY <1>1, <1>4, <1>5, <1>8, SameTools
<1> QED
    BY <1>6, <1>7, <1>8, <1>9

(* Padding fills a header up to a multiple of the rate.                    *)
LEMMA HeaderRoundsAre == \A b \in Stored : HeaderRounds(b) = keccaks(b)
<1> TAKE b \in Stored
<1> DEFINE l == BytesLen[b]
           r == KECCAK_FULL_RATE_IN_BYTES
           q == l \div r
           Enough == {k \in 1 .. (l + 1) : k * r > l}
<1>1. l \in Nat /\ r \in Nat \ {0}
    BY PrepareAssumption
<1>2. q \in Nat /\ q * r <= l /\ l < (q + 1) * r
    <2> HIDE DEF l, r
    <2>1. q \in Nat /\ l = r * q + (l % r) /\ l % r \in 0 .. (r - 1)
        BY <1>1
    <2> HIDE DEF q
    <2>2. r * q = q * r /\ (q + 1) * r = q * r + r /\ q * r \in Nat
        BY <1>1, <2>1
    <2> QED
        BY <1>1, <2>1, <2>2
<1>3. q + 1 \in Enough
    <2> HIDE DEF l, r, q
    <2>1. q <= q * r
        BY <1>1, <1>2
    <2> QED
        BY <1>1, <1>2, <2>1
<1>4. \A k \in Enough : q + 1 <= k
    <2> SUFFICES ASSUME NEW k \in Enough, k <= q PROVE FALSE
        BY <1>2
    <2>1. k \in Nat /\ k * r > l
        OBVIOUS
    <2> HIDE DEF l, r, q, Enough
    <2>2. k * r <= q * r /\ k * r \in Nat /\ q * r \in Nat
        <3>1. q - k \in Nat
            BY <1>2, <2>1
        <3>2. (q - k) * r \in Nat /\ k * r + (q - k) * r = q * r
            BY <1>1, <1>2, <2>1, <3>1
        <3> QED
            BY <1>1, <1>2, <2>1, <3>2
    <2> QED
        BY <1>1, <1>2, <2>1, <2>2
<1>5. HeaderRounds(b) = CHOOSE m : m \in Enough /\ \A k \in Enough : m <= k
    BY DEF HeaderRounds, Min
<1> HIDE DEF Enough
<1>6. \A m \in Enough : m \in Nat
    BY <1>1 DEF Enough
<1>7. HeaderRounds(b) \in Enough /\ \A k \in Enough : HeaderRounds(b) <= k
    BY <1>3, <1>4, <1>5, Zenon
<1>8. HeaderRounds(b) = q + 1
    <2>1. HeaderRounds(b) \in Nat /\ HeaderRounds(b) <= q + 1 /\ q + 1 <= HeaderRounds(b)
        BY <1>3, <1>4, <1>6, <1>7
    <2> HIDE DEF q
    <2> QED
        BY <1>2, <2>1
<1> QED
    BY <1>8 DEF keccaks

(* The same sum, for headers that are padded and for the tools' count.     *)
HeaderSums(f, S) ==
    f = [s \in SUBSET S |-> IF s = {} THEN 0 ELSE HeaderRounds(Some(s)) + f[s \ {Some(s)}]]

LEMMA HeaderSumsAre ==
    \A S : MapThenSumSet(HeaderRounds, S) = (CHOOSE f : HeaderSums(f, S))[S]
BY Zenon DEF MapThenSumSet, MapThenFoldSet, HeaderSums, Some

LEMMA SameRounds ==
    ASSUME NEW S \in SUBSET Stored
    PROVE  MapThenSumSet(HeaderRounds, S) = Rounds(S)
<1>1. ASSUME NEW f
      PROVE  HeaderSums(f, S) <=> Sums(f, S)
    <2>1. ASSUME NEW s \in SUBSET S
          PROVE  Adds(f, s) = IF s = {} THEN 0 ELSE HeaderRounds(Some(s)) + f[s \ {Some(s)}]
        <3>1. s # {} => Some(s) \in Stored
            BY Zenon DEF Some
        <3> QED
            BY <3>1, HeaderRoundsAre DEF Adds
    <2>2. [s \in SUBSET S |-> Adds(f, s)] =
              [s \in SUBSET S |-> IF s = {} THEN 0 ELSE HeaderRounds(Some(s)) + f[s \ {Some(s)}]]
        BY <2>1, Zenon
    <2> QED
        BY <2>2, Zenon DEF HeaderSums, Sums
<1>2. (CHOOSE f : HeaderSums(f, S)) = (CHOOSE f : Sums(f, S))
    BY <1>1, Zenon
<1> QED
    BY <1>2, HeaderSumsAre, RoundsAre

LEMMA JobRoundsAre ==
    ASSUME NEW k \in Nat \ {0}, NEW from \in Int, NEW to \in Int, to <= from,
           to .. from \in SUBSET Stored, k + (from - to + 1) + 1 < 2^(MaxHeight + 1)
    PROVE  JobRounds(from, to, k) =
               Rounds(to .. from) + hash_count(Forest!MmrSize(k), from - to + 1)
<1> DEFINE n == from - to + 1
           old == Cardinality(Forest!PeakTrees(k))
           parents == Forest!MmrSize(k + n) - Forest!MmrSize(k) - n
           new == Cardinality(Forest!PeakTrees(k + n))
<1>1. n \in Nat /\ k + n + 1 < 2^(MaxHeight + 1)
    OBVIOUS
<1>2. JobRounds(from, to, k) = MapThenSumSet(HeaderRounds, to .. from) + old + parents + new
    BY Zenon DEF JobRounds
<1>3. MapThenSumSet(HeaderRounds, to .. from) = Rounds(to .. from)
    BY SameRounds
<1>4. IsFiniteSet(to .. from)
    BY FS_Interval
<1>5. Rounds(to .. from) \in Nat
    BY <1>4, RoundsOfSome
<1> HIDE DEF n
<1>6. old + parents + new = hash_count(Forest!MmrSize(k), n)
    BY <1>1, HashCountIs
<1>7. /\ old \in Nat /\ new \in Nat /\ Forest!MmrSize(k) \in Nat /\ Forest!MmrSize(k + n) \in Nat
    <2>1. k < M!P(MaxHeight + 1) /\ k + n < M!P(MaxHeight + 1) /\ k + n \in Nat
        BY <1>1, Instance, RoomFits
    <2>2. /\ M!MmrSize(k) \in Nat /\ M!PeakCount(k) \in Nat
          /\ M!MmrSize(k + n) \in Nat /\ M!PeakCount(k + n) \in Nat
        BY <2>1, M!SizeAndPeaks, Instance
    <2> QED
        BY <2>2, SameForest
<1>8. parents \in Int
    BY <1>1, <1>7
<1> HIDE DEF old, parents, new
<1>9. JobRounds(from, to, k) = Rounds(to .. from) + (old + parents + new)
    BY <1>2, <1>3, <1>5, <1>7, <1>8
<1> QED
    BY <1>6, <1>9 DEF n

(* The blocks that are left when the lowest ones are dropped.              *)
KeptOf(found, dropped) ==
    {b \in found : Cardinality({c \in found : c < b}) >= dropped}

LEMMA KeptOfAll ==
    ASSUME NEW a \in Int, NEW b \in Int, NEW d \in Nat
    PROVE  KeptOf(a .. b, d) = (a + d) .. b
<1>1. ASSUME NEW e \in a .. b
      PROVE  Cardinality({c \in a .. b : c < e}) = e - a
    <2>1. {c \in a .. b : c < e} = a .. (e - 1)
        OBVIOUS
    <2>2. Cardinality(a .. (e - 1)) = IF a > e - 1 THEN 0 ELSE (e - 1) - a + 1
        BY FS_Interval
    <2>3. (IF a > e - 1 THEN 0 ELSE (e - 1) - a + 1) = e - a
        OBVIOUS
    <2> QED
        BY <2>1, <2>2, <2>3, Zenon
<1>2. KeptOf(a .. b, d) = {e \in a .. b : e - a >= d}
    BY <1>1 DEF KeptOf
<1>3. ASSUME NEW e
      PROVE  e \in a .. b /\ e - a >= d <=> e \in (a + d) .. b
    OBVIOUS
<1> QED
    BY <1>2, <1>3

LEMMA KeptOfNone ==
    ASSUME NEW found, IsFiniteSet(found), found \in SUBSET Int
    PROVE  KeptOf(found, Cardinality(found)) = {}
<1> SUFFICES ASSUME NEW b \in found, Cardinality({c \in found : c < b}) >= Cardinality(found)
             PROVE  FALSE
    BY DEF KeptOf
<1>1. {c \in found : c < b} \in SUBSET (found \ {b})
    OBVIOUS
<1>2. /\ IsFiniteSet(found \ {b}) /\ Cardinality(found) \in Nat
      /\ Cardinality(found \ {b}) = Cardinality(found) - 1
    BY FS_RemoveElement, FS_CardinalityType
<1>3. /\ Cardinality({c \in found : c < b}) <= Cardinality(found \ {b})
      /\ Cardinality({c \in found : c < b}) \in Nat
    BY <1>1, <1>2, FS_Subset, FS_CardinalityType
<1> QED
    BY <1>2, <1>3

(* The search for a batch size finds one, with at least one block.  With   *)
(* all the blocks it starts with, it is the largest that stays within the  *)
(* limit.                                                                  *)
LEMMA DynamicSize ==
    ASSUME NEW k \in 1 .. MaxLeaves, NEW from \in Int
    PROVE  LET size  == compute_dynamic_batch_size(from, Forest!MmrSize(k))
               start == DYNAMIC_BATCH_SIZE_START
               rounds(n) == Rounds((from - n + 1) .. from) + hash_count(Forest!MmrSize(k), n)
           IN  /\ size \in 1 .. start
               /\ (from - start + 1) .. from \in SUBSET Stored =>
                    /\ rounds(size) <= MAX_KECCAK_ROUNDS
                    /\ size # start => rounds(size + 1) > MAX_KECCAK_ROUNDS
<1> DEFINE mmr_size == Forest!MmrSize(k)
           start == DYNAMIC_BATCH_SIZE_START
           all == (from - start + 1) .. from
           found == all \intersect Stored
           c == Cardinality(found)
           count(d) == Rounds(KeptOf(found, d)) + hash_count(mmr_size, start - d)
           Good == {d \in 0 .. c : count(d) <= MAX_KECCAK_ROUNDS}
           d0 == Min(Good)
<1>1. /\ start \in Nat \ {0} /\ MAX_KECCAK_ROUNDS \in Nat
      /\ Stored \in SUBSET Nat /\ k \in Nat \ {0}
    BY PrepareAssumption, RoomFits
<1>2. compute_dynamic_batch_size(from, mmr_size) = start - d0
    BY Zenon DEF compute_dynamic_batch_size, KeptOf, Rounds
<1>3. /\ IsFiniteSet(all) /\ Cardinality(all) = start
      /\ IsFiniteSet(found) /\ c \in Nat /\ c <= start /\ (c = start => all = found)
    <2>1. IsFiniteSet(all) /\ Cardinality(all) = start
        <3>1. from - start + 1 \in Int /\ ~(from - start + 1 > from)
              /\ from - (from - start + 1) + 1 = start
            BY <1>1
        <3> HIDE DEF start
        <3> QED
            BY <3>1, FS_Interval
    <2>2. found \in SUBSET all
        OBVIOUS
    <2> HIDE DEF found, all
    <2> QED
        BY <2>1, <2>2, FS_Subset, FS_CardinalityType
<1>4. ASSUME NEW n \in 0 .. start
      PROVE  /\ hash_count(mmr_size, n) = 2 * M!PeakCount(k) + n
             /\ M!PeakCount(k) \in Nat
    <2>1. n \in Nat /\ k + n + 1 < 2^(MaxHeight + 1)
        <3> DEFINE top == 2^(MaxHeight + 1)
        <3>1. top \in Nat /\ MaxLeaves \in Nat /\ MaxLeaves + start + 1 < top
            BY RoomFits
        <3> HIDE DEF top, start
        <3>2. n \in Nat /\ k + n + 1 < top
            BY <1>1, <3>1
        <3> QED
            BY <3>2 DEF top
    <2> QED
        BY <1>1, <2>1, HashCountIs
<1>5. /\ hash_count(mmr_size, start) <= MAX_KECCAK_ROUNDS
      /\ \A b \in Stored : keccaks(b) + hash_count(mmr_size, 1) <= MAX_KECCAK_ROUNDS
    BY LimitAssumption
<1> HIDE DEF mmr_size
<1>6. \E d \in Good : d < start
    <2>1. CASE c < start
        <3>1. KeptOf(found, c) = {}
            <4>1. found \in SUBSET Int
                OBVIOUS
            <4> HIDE DEF found
            <4> QED
                BY <1>3, <4>1, KeptOfNone
        <3>2. Rounds({}) = 0
            BY FS_EmptySet, RoundsOfSome
        <3>3. hash_count(mmr_size, start - c) <= hash_count(mmr_size, start)
            <4>1. start - c \in 0 .. start /\ start \in 0 .. start
                BY <1>1, <1>3
            <4> HIDE DEF c, start
            <4>2. /\ hash_count(mmr_size, start - c) = 2 * M!PeakCount(k) + (start - c)
                  /\ hash_count(mmr_size, start) = 2 * M!PeakCount(k) + start
                  /\ M!PeakCount(k) \in Nat
                BY <1>4, <4>1
            <4> QED
                BY <1>1, <1>3, <4>2
        <3>4. hash_count(mmr_size, start - c) \in Nat /\ hash_count(mmr_size, start) \in Nat
            <4>1. start - c \in 0 .. start /\ start \in 0 .. start
                BY <1>1, <1>3
            <4> HIDE DEF c, start
            <4> QED
                BY <1>1, <1>3, <1>4, <4>1
        <3> HIDE DEF c, start, found
        <3>5. count(c) <= MAX_KECCAK_ROUNDS
            BY <1>1, <1>5, <3>1, <3>2, <3>3, <3>4
        <3> QED
            BY <1>3, <2>1, <3>5
    <2>2. CASE c = start
        <3>1. found = all /\ from \in Stored
            BY <1>1, <1>3, <2>2
        <3>2. KeptOf(found, start - 1) = {from}
            <4>1. KeptOf(all, start - 1) = ((from - start + 1) + (start - 1)) .. from
                <5>1. from - start + 1 \in Int /\ start - 1 \in Nat
                    BY <1>1
                <5> HIDE DEF start
                <5> QED
                    BY <5>1, KeptOfAll
            <4>2. ((from - start + 1) + (start - 1)) .. from = {from}
                BY <1>1
            <4> HIDE DEF found, all, start
            <4> QED
                BY <3>1, <4>1, <4>2
        <3>3. Rounds({from}) = keccaks(from)
            <4>1. IsFiniteSet({from}) /\ {from} \in SUBSET Stored /\ {from} \ {from} = {}
                BY <3>1, FS_Singleton
            <4>2. Rounds({from}) = keccaks(from) + Rounds({from} \ {from})
                BY <4>1, RoundsWithout
            <4>3. Rounds({}) = 0 /\ keccaks(from) \in Nat
                BY <3>1, FS_EmptySet, RoundsOfSome, KeccaksTypes
            <4>4. Rounds({from} \ {from}) = 0
                BY <4>1, <4>3, Zenon
            <4> QED
                BY <4>2, <4>3, <4>4
        <3>4. start - 1 \in 0 .. c /\ start - 1 < start /\ start - (start - 1) = 1
            BY <1>1, <2>2
        <3> HIDE DEF c, start, found, all
        <3>5. count(start - 1) <= MAX_KECCAK_ROUNDS
            BY <1>5, <3>1, <3>2, <3>3, <3>4
        <3> QED
            BY <3>4, <3>5
    <2>3. c < start \/ c = start
        <3> HIDE DEF c, start
        <3> QED
            BY <1>1, <1>3
    <2> HIDE DEF c, start, Good
    <2> QED
        BY <2>1, <2>2, <2>3
<1>7. Good \in SUBSET Nat
    OBVIOUS
<1> HIDE DEF c, count
<1>8. d0 \in Good /\ \A d \in Good : d0 <= d
    <2>1. d0 = CHOOSE d \in Good : \A e \in Good : d <= e
        BY Zenon DEF Min
    <2> HIDE DEF Good, d0
    <2>2. \E d \in Good : \A e \in Good : d <= e
        BY <1>6, <1>7, M!SmallestExists, Instance
    <2> QED
        BY <2>1, <2>2
<1> HIDE DEF d0
<1>9. d0 \in Nat /\ d0 < start
    BY <1>1, <1>6, <1>7, <1>8
<1>10. start - d0 \in 1 .. start
    BY <1>1, <1>9
<1>11. ASSUME all \in SUBSET Stored
       PROVE  LET rounds(n) == Rounds((from - n + 1) .. from) + hash_count(mmr_size, n)
              IN  /\ rounds(start - d0) <= MAX_KECCAK_ROUNDS
                  /\ start - d0 # start => rounds(start - d0 + 1) > MAX_KECCAK_ROUNDS
    <2>1. found = all /\ c = start
        BY <1>3, <1>11 DEF c
    <2>2. ASSUME NEW d \in Nat
          PROVE  count(d) = Rounds((from - (start - d) + 1) .. from)
                                + hash_count(mmr_size, start - d)
        <3>1. KeptOf(all, d) = ((from - start + 1) + d) .. from
            <4>1. from - start + 1 \in Int
                BY <1>1
            <4> HIDE DEF start
            <4> QED
                BY <4>1, KeptOfAll
        <3>2. (from - start + 1) + d = from - (start - d) + 1
            BY <1>1
        <3> HIDE DEF all, start, found
        <3> QED
            BY <2>1, <3>1, <3>2 DEF count
    <2>3. count(d0) <= MAX_KECCAK_ROUNDS
        BY <1>8
    <2>4. ASSUME d0 # 0
          PROVE  count(d0 - 1) > MAX_KECCAK_ROUNDS /\ d0 - 1 \in Nat
        <3>1. d0 - 1 \in 0 .. c /\ ~(d0 <= d0 - 1) /\ d0 - 1 \in Nat
            BY <1>3, <1>8, <1>9, <2>4
        <3>2. ~(count(d0 - 1) <= MAX_KECCAK_ROUNDS)
            BY <1>8, <3>1
        <3>3. count(d0 - 1) \in Nat
            <4>1. IsFiniteSet(KeptOf(found, d0 - 1)) /\ KeptOf(found, d0 - 1) \in SUBSET Stored
                <5>1. KeptOf(found, d0 - 1) \in SUBSET found /\ found \in SUBSET Stored
                    BY DEF KeptOf
                <5> HIDE DEF found
                <5> QED
                    BY <1>3, <5>1, FS_Subset
            <4>2. Rounds(KeptOf(found, d0 - 1)) \in Nat
                BY <4>1, RoundsOfSome
            <4>3. start - (d0 - 1) \in 0 .. start
                BY <1>1, <1>9, <2>4
            <4> HIDE DEF start, found
            <4>4. hash_count(mmr_size, start - (d0 - 1)) \in Nat
                BY <1>1, <1>4, <4>3
            <4> QED
                BY <4>2, <4>4 DEF count
        <3> QED
            BY <1>1, <3>1, <3>2, <3>3
    <2>5. start - d0 # start => d0 # 0 /\ start - (d0 - 1) = start - d0 + 1
        BY <1>1, <1>9
    <2> HIDE DEF start
    <2> QED
        BY <1>9, <2>2, <2>3, <2>4, <2>5
<1> QED
    BY <1>2, <1>10, <1>11 DEF mmr_size

-----------------------------------------------------------------------------
(* The sizes of batches.                                                   *)

SizesAreFixed == \A r \in Request : ~r.dynamic

(* The size of an MMR of this many leaves, as many as there can be.        *)
KnownSize(size) == \E k \in 1 .. MaxLeaves : size = Forest!MmrSize(k)

LEMMA ResumableKnown ==
    ASSUME NEW params, NEW blocks, NEW c \in 1 .. MaxCalls,
           Resumable(params, blocks, Room(c))
    PROVE  KnownSize(params.mmr_size)
<1>1. /\ Len(blocks) \in Nat /\ Len(blocks) <= Room(c)
      /\ params.mmr_size = Forest!MmrSize(Len(blocks) + 1)
    BY DEF Resumable, FromScratch
<1>2. Room(c) \in Nat /\ Room(c) + 1 <= MaxLeaves /\ MaxLeaves \in Nat
    BY RoomFits
<1>3. Len(blocks) + 1 \in 1 .. MaxLeaves
    BY <1>1, <1>2
<1> QED
    BY <1>1, <1>3 DEF KnownSize

(* A made-up state is refused if no MMR has its size.                      *)
LEMMA AcceptedKnown ==
    ASSUME NEW o \in OddParams, py_is_valid_mmr_size(o.params.mmr_size)
    PROVE  KnownSize(o.params.mmr_size)
<1> DEFINE size == o.params.mmr_size
<1>1. size \in 1 .. MaxLeaves /\ MaxLeaves \in Nat
    BY RoomFits, RoomAssumption
<1> HIDE DEF size
<1>2. size \in Nat \ {0} /\ size < M!P(MaxHeight + 1)
    <2> DEFINE top == 2^(MaxHeight + 1)
    <2>1. /\ top \in Nat /\ MaxLeaves + DYNAMIC_BATCH_SIZE_START + 1 < top
          /\ DYNAMIC_BATCH_SIZE_START \in Nat
        BY RoomFits, PrepareAssumption
    <2> HIDE DEF top
    <2>2. size \in Nat \ {0} /\ size < top
        BY <1>1, <2>1
    <2> QED
        BY <2>2, Instance DEF top
<1>3. {M!Py!py_is_valid_mmr_size(size)} = {M!IsSize(size)}
    BY <1>2, M!PyValidAgrees, M!ValidIffSize, Instance
<1>4. py_is_valid_mmr_size(size) = M!Py!py_is_valid_mmr_size(size)
    BY SameTools
<1>5. M!IsSize(size)
    BY <1>3, <1>4 DEF size
<1>6. PICK k \in 1 .. size : M!MmrSize(k) = size
    BY <1>5 DEF M!IsSize
<1>7. k \in 1 .. MaxLeaves /\ size = Forest!MmrSize(k)
    BY <1>1, <1>6, SameForest
<1> QED
    BY <1>7 DEF KnownSize, size

LEMMA CallSize ==
    ASSUME SizesAreFixed \/ ResumeInv, NEW r \in Request,
           NEW initial \in returned \union OddParams, prepare_full_chain_inputs(r, initial)
    PROVE  batch_size' \in Nat \ {0}
<1>1. /\ r.batch_size > 0 /\ validate_initial_params(initial.params) /\ calls < MaxCalls
      /\ batch_size' = IF r.dynamic
                       THEN compute_dynamic_batch_size(r.from, initial.params.mmr_size)
                       ELSE r.batch_size
    BY DEF prepare_full_chain_inputs, Accepted, StartChunk
<1>2. r.from \in Int /\ r.batch_size \in Int /\ MaxCalls \in Nat
    BY Requests, PrepareAssumption
<1>3. CASE ~r.dynamic
    BY <1>1, <1>2, <1>3
<1>4. CASE r.dynamic
    <2>1. ResumeInv
        BY <1>4 DEF SizesAreFixed
    <2>2. KnownSize(initial.params.mmr_size)
        <3>1. CASE initial \in returned
            <4>1. Resumable(initial.params, initial.leaves, Room(calls)) /\ calls + 1 \in 1 .. MaxCalls
                BY <1>1, <1>2, <2>1, <3>1 DEF ResumeInv
            <4>2. Resumable(initial.params, initial.leaves, Room(calls + 1))
                <5>1. /\ Room((calls + 1) - 1) \in Nat /\ Room(calls + 1) \in Nat /\ MaxRange \in Nat
                      /\ Room((calls + 1) - 1) + MaxRange = Room(calls + 1)
                    BY <4>1, RoomFits
                <5>2. (calls + 1) - 1 = calls
                    BY <2>1 DEF ResumeInv
                <5>3. Len(initial.leaves) \in Nat /\ Len(initial.leaves) <= Room(calls)
                    BY <4>1 DEF Resumable
                <5>4. Len(initial.leaves) <= Room(calls + 1)
                    BY <5>1, <5>2, <5>3
                <5> QED
                    BY <4>1, <5>4 DEF Resumable
            <4> QED
                BY <4>1, <4>2, ResumableKnown
        <3>2. CASE initial \in OddParams
            BY <1>1, <3>2, AcceptedKnown DEF validate_initial_params
        <3> QED
            BY <3>1, <3>2
    <2>3. PICK k \in 1 .. MaxLeaves : initial.params.mmr_size = Forest!MmrSize(k)
        BY <2>2 DEF KnownSize
    <2>4. compute_dynamic_batch_size(r.from, Forest!MmrSize(k)) \in 1 .. DYNAMIC_BATCH_SIZE_START
        BY <1>2, DynamicSize
    <2> QED
        BY <1>1, <1>4, <2>3, <2>4
<1> QED
    BY <1>3, <1>4

LEMMA ChunkSize ==
    ASSUME SizesAreFixed \/ ResumeInv, IInv, pc = "output", PeaksFitSize(last), finish_chunk
    PROVE  batch_size' \in Nat \ {0}
<1> DEFINE high == from_block_number_high
           low  == to_block_number_batch_low
           more == WithChunk(leaves, high, low)
           new  == process_chunk(last, BlocksOf(high, low))
<1>1. /\ request \in Request /\ batch_size \in Nat \ {0} /\ high \in Int
      /\ batch_size' = IF request.dynamic
                       THEN compute_dynamic_batch_size(high - batch_size, new.mmr_size)
                       ELSE batch_size
    BY DEF finish_chunk, NextChunk, StartChunk, IInv, AtChunk
<1>2. CASE ~request.dynamic
    BY <1>1, <1>2
<1>3. CASE request.dynamic
    <2>1. ResumeInv
        BY <1>1, <1>3 DEF SizesAreFixed
    <2>2. /\ calls \in 1 .. MaxCalls /\ new = FromScratch(more)
          /\ more \in Seq(Int) /\ Len(more) <= Room(calls)
        BY <2>1, ChunkBuilds
    <2> HIDE DEF new, more
    <2>3. KnownSize(new.mmr_size)
        BY <2>2, ResumableKnown DEF Resumable
    <2>4. PICK k \in 1 .. MaxLeaves : new.mmr_size = Forest!MmrSize(k)
        BY <2>3 DEF KnownSize
    <2>5. high - batch_size \in Int
        BY <1>1
    <2>6. compute_dynamic_batch_size(high - batch_size, Forest!MmrSize(k))
            \in 1 .. DYNAMIC_BATCH_SIZE_START
        BY <2>5, DynamicSize
    <2> QED
        BY <1>1, <1>3, <2>4, <2>6
<1> QED
    BY <1>2, <1>3

-----------------------------------------------------------------------------
(* The invariants.                                                         *)

LEMMA NextKeepsIInv ==
    ASSUME SizesAreFixed \/ ResumeInv, IInv, [Next]_vars
    PROVE  IInv'
<1> USE DEF loop, history
<1>1. CASE UNCHANGED vars
    BY <1>1, ChunksKept DEF vars, IInv, AtChunk
<1>2. ASSUME NEW r \in Request, NEW initial \in returned \union OddParams,
             prepare_full_chain_inputs(r, initial)
      PROVE  IInv'
    BY <1>2, CallSize, CallStarts
<1>3. ASSUME pc # "idle", BreakOff
      PROVE  IInv'
    BY <1>3, ChunksKept DEF BreakOff, IInv, AtChunk
<1>4. CASE prepare_chunk_input
    <2>1. CASE RowsFound
        BY <1>4, <2>1, ChunksKept DEF prepare_chunk_input
    <2>2. CASE ~RowsFound
        BY <1>3, <1>4, <2>2 DEF prepare_chunk_input
    <2> QED
        BY <2>1, <2>2
<1>5. CASE finish_chunk
    <2>1. CASE PeaksFitSize(last)
        <3>1. batch_size' \in Nat \ {0}
            BY <1>5, <2>1, ChunkSize DEF finish_chunk
        <3> QED
            BY <1>5, <2>1, <3>1, ChunkFinished DEF finish_chunk
    <2>2. CASE ~PeaksFitSize(last)
        BY <1>3, <1>5, <2>2 DEF finish_chunk
    <2> QED
        BY <2>1, <2>2
<1>6. CASE Interrupt
    BY <1>3, <1>6 DEF Interrupt
<1> QED
    BY <1>1, <1>2, <1>4, <1>5, <1>6 DEF Next

LEMMA NextKeepsResumeInv ==
    ASSUME OddParamsDoNotFit, IInv, ResumeInv, [Next]_vars
    PROVE  ResumeInv'
<1>1. ASSUME NEW r \in Request, NEW initial \in returned \union OddParams,
             prepare_full_chain_inputs(r, initial)
      PROVE  ResumeInv'
    BY <1>1, CallResumes
<1>2. ASSUME BreakOff
      PROVE  ResumeInv'
    BY <1>2, ResumeKept DEF BreakOff, loop
<1>3. CASE prepare_chunk_input
    <2>1. CASE RowsFound
        BY <1>3, <2>1, ResumeKept DEF prepare_chunk_input, loop, history
    <2>2. CASE ~RowsFound
        BY <1>2, <1>3, <2>2 DEF prepare_chunk_input
    <2> QED
        BY <2>1, <2>2
<1>4. CASE finish_chunk
    <2>1. CASE PeaksFitSize(last)
        BY <1>4, <2>1, ChunkResumes DEF finish_chunk
    <2>2. CASE ~PeaksFitSize(last)
        BY <1>2, <1>4, <2>2 DEF finish_chunk
    <2> QED
        BY <2>1, <2>2
<1>5. CASE Interrupt
    BY <1>2, <1>5 DEF Interrupt
<1>6. CASE UNCHANGED vars
    BY <1>6, ResumeKept DEF vars, loop, history
<1> QED
    BY <1>1, <1>3, <1>4, <1>5, <1>6 DEF Next

LEMMA ChunksSound ==
    ASSUME SizesAreFixed \/ OddParamsDoNotFit
    PROVE  Spec => []IInv
<1>1. CASE SizesAreFixed
    <2>1. IInv /\ [Next]_vars => IInv'
        BY <1>1, NextKeepsIInv
    <2> QED
        BY <2>1, Initially, PTL DEF Spec
<1>2. CASE OddParamsDoNotFit
    <2>1. IInv /\ ResumeInv /\ [Next]_vars => (IInv /\ ResumeInv)'
        BY <1>2, NextKeepsIInv, NextKeepsResumeInv
    <2> QED
        BY <2>1, Initially, InitiallyResumable, PTL DEF Spec
<1> QED
    BY <1>1, <1>2

LEMMA AlwaysResumable ==
    ASSUME OddParamsDoNotFit
    PROVE  Spec => []ResumeInv
<1>1. IInv /\ ResumeInv /\ [Next]_vars => (IInv /\ ResumeInv)'
    BY NextKeepsIInv, NextKeepsResumeInv
<1> QED
    BY <1>1, Initially, InitiallyResumable, PTL DEF Spec

(* Whatever the ranges and the sizes of batches of the calls, and wherever *)
(* they are broken off: the chunks of a call tile its range from the top.  *)
THEOREM Tiling ==
    ASSUME SizesAreFixed \/ OddParamsDoNotFit
    PROVE  Spec => []TilesTheRange
<1>1. IInv => TilesTheRange
    <2> SUFFICES ASSUME IInv
                 PROVE  TilesTheRange
        OBVIOUS
    <2>1. pc # "idle" => /\ request.to <= to_block_number_batch_low
                         /\ to_block_number_batch_low <= from_block_number_high
        BY ChunkBounds
    <2> QED
        BY <2>1 DEF IInv, AtChunk, ChunksTile, TilesTheRange
<1> QED
    BY <1>1, ChunksSound, PTL

(* Whatever the ranges and sizes of batches, the outputs of the chunks of  *)
(* a call pass ensureConsecutiveJobs one after the other, also where calls *)
(* overwrote the files of others, or broke off.                            *)
THEOREM OutputsChain ==
    ASSUME SizesAreFixed \/ OddParamsDoNotFit
    PROVE  Spec => []ChainsForContract
<1>1. Init => ChainInv
    BY DEF Init, ChainInv
<1>2. IInv /\ ChainInv /\ [Next]_vars => ChainInv'
    <2> SUFFICES ASSUME IInv, ChainInv, [Next]_vars PROVE ChainInv'
        OBVIOUS
    <2>1. ASSUME NEW r \in Request, NEW initial, prepare_full_chain_inputs(r, initial)
          PROVE  ChainInv'
        BY <2>1 DEF prepare_full_chain_inputs, ChainInv
    <2>2. CASE prepare_chunk_input
        BY <2>2, InputKeepsChain, BreakOffKeepsChain DEF prepare_chunk_input, files
    <2>3. CASE finish_chunk
        BY <2>3, OutputKeepsChain, BreakOffKeepsChain DEF finish_chunk, files
    <2>4. CASE Interrupt
        BY <2>4, BreakOffKeepsChain DEF Interrupt, files
    <2>5. CASE UNCHANGED vars
        BY <2>5 DEF vars, files, loop, history, ChainInv
    <2> QED
        BY <2>1, <2>2, <2>3, <2>4, <2>5 DEF Next
<1>3. IInv /\ ChainInv => ChainsForContract
    <2> SUFFICES ASSUME IInv, ChainInv, NEW i \in 1 .. (Len(chunks) - 1)
                 PROVE  LET output == outputs[chunks[i]]
                            nextOutput == outputs[chunks[i + 1]]
                        IN  /\ output.to # 0 /\ output.to - 1 = nextOutput.from
                            /\ output.block_n_minus_r_plus_one_parent_hash
                                   = nextOutput.block_n_plus_one_parent_hash
                            /\ output.new_mmr_roots = nextOutput.mmr_last_roots
                            /\ output.new_mmr_len = nextOutput.mmr_last_len
        BY DEF ChainsForContract
    <2>1. i \in 1 .. Len(chunks) /\ i + 1 \in 1 .. Len(chunks)
        BY DEF IInv, ChunksTile
    <2>2. chunks[i + 1][1] = chunks[i][2] - 1 /\ chunks[i + 1][2] <= chunks[i + 1][1]
        <3>1. (i + 1) - 1 = i /\ i # 0
            OBVIOUS
        <3> QED
            BY <2>1, <3>1 DEF IInv, ChunksTile, ChunkStart
    <2>3. chunks[i][2] \in Nat /\ chunks[i + 1][2] \in Nat
        BY <2>1 DEF ChainInv
    <2>4. /\ Describes(outputs[chunks[i]], chunks[i])
          /\ Describes(outputs[chunks[i + 1]], chunks[i + 1])
        BY <2>1 DEF ChainInv
    <2>5. chunks[i][2] # 0
        BY <2>2, <2>3
    <2> QED
        BY <2>2, <2>4, <2>5 DEF ChainInv, Describes
<1> QED
    BY <1>1, <1>2, <1>3, ChunksSound, PTL DEF Spec

(* For any database, ranges and sizes of batches, and wherever calls are   *)
(* broken off: what a call returns is the state of the MMRs that are built *)
(* at once from its blocks and those of the calls it went on from.         *)
THEOREM ResumedAsFromScratchHolds ==
    ASSUME OddParamsDoNotFit
    PROVE  Spec => []ResumedAsFromScratch
<1>1. ResumeInv => ResumedAsFromScratch
    BY DEF ResumeInv, Resumable, ResumedAsFromScratch
<1> QED
    BY <1>1, AlwaysResumable, PTL

-----------------------------------------------------------------------------
(* The limit of rounds.                                                    *)

(* With fewer blocks there are no more rounds.                             *)
LEMMA RoundsGrow ==
    ASSUME NEW S, IsFiniteSet(S), S \in SUBSET Stored, NEW T \in SUBSET S
    PROVE  Rounds(T) <= Rounds(S) /\ Rounds(T) \in Nat /\ Rounds(S) \in Nat
<1> DEFINE Fails(U) == ~(Rounds(U) <= Rounds(S))
           Bad == {n \in Nat : \E U \in SUBSET S : Cardinality(S \ U) = n /\ Fails(U)}
<1>0. Rounds(S) \in Nat
    BY RoundsOfSome
<1>1. ASSUME NEW U \in SUBSET S
      PROVE  /\ Rounds(U) \in Nat
             /\ IsFiniteSet(S \ U) /\ Cardinality(S \ U) \in Nat
    <2>1. IsFiniteSet(U) /\ U \in SUBSET Stored
        BY FS_Subset
    <2>2. IsFiniteSet(S \ U)
        BY FS_Subset
    <2> QED
        BY <2>1, <2>2, RoundsOfSome, FS_CardinalityType
<1>2. Bad = {}
    <2> SUFFICES ASSUME Bad # {} PROVE FALSE
        OBVIOUS
    <2>1. PICK n \in Bad : \A m \in Bad : n <= m
        <3>1. Bad \in SUBSET Nat
            OBVIOUS
        <3> HIDE DEF Bad
        <3> QED
            BY <3>1, M!SmallestExists, Instance
    <2>2. PICK U \in SUBSET S : Cardinality(S \ U) = n /\ Fails(U)
        BY <2>1
    <2>3. U # S
        <3>1. Rounds(S) <= Rounds(S)
            BY <1>0
        <3> QED
            BY <2>2, <3>1
    <2>4. PICK x \in S : x \notin U
        BY <2>3
    <2> DEFINE V == U \union {x}
    <2>5. V \in SUBSET S /\ x \in V /\ V \ {x} = U /\ S \ V = (S \ U) \ {x} /\ x \in S \ U
        BY <2>4
    <2>6. Rounds(V) = keccaks(x) + Rounds(U) /\ keccaks(x) \in Nat
        <3>1. IsFiniteSet(V) /\ V \in SUBSET Stored
            BY <2>5, FS_Subset
        <3>2. Rounds(V) = keccaks(x) + Rounds(V \ {x})
            BY <2>5, <3>1, RoundsWithout
        <3>3. keccaks(x) \in Nat
            BY KeccaksTypes
        <3> QED
            BY <2>5, <3>2, <3>3
    <2> HIDE DEF V
    <2>7. Fails(V)
        <3>1. Rounds(U) \in Nat /\ ~(Rounds(U) <= Rounds(S))
            BY <1>1, <2>2
        <3> QED
            BY <1>0, <2>6, <3>1
    <2>8. Cardinality(S \ V) = n - 1 /\ Cardinality(S \ V) \in Nat
        <3>1. IsFiniteSet(S \ U)
            BY <1>1
        <3>2. Cardinality((S \ U) \ {x}) = Cardinality(S \ U) - 1
            BY <2>5, <3>1, FS_RemoveElement
        <3> QED
            BY <1>1, <2>2, <2>5, <3>2
    <2>9. n - 1 \in Bad /\ n \in Nat /\ ~(n <= n - 1)
        <3>1. n \in Nat /\ n - 1 \in Nat /\ ~(n <= n - 1)
            BY <2>1, <2>8
        <3> HIDE DEF Fails
        <3>2. n - 1 \in Bad
            BY <2>5, <2>7, <2>8, <3>1
        <3> QED
            BY <3>1, <3>2
    <2> HIDE DEF Bad, Fails
    <2> QED
        BY <2>1, <2>9, Zenon
<1>3. Cardinality(S \ T) \in Nat /\ ~Fails(T)
    BY <1>1, <1>2
<1> QED
    BY <1>1, <1>3

(* The size of a dynamic batch is the one that the search finds.           *)
SizeFound ==
    pc # "idle" /\ request.dynamic =>
        batch_size = compute_dynamic_batch_size(from_block_number_high, last.mmr_size)

LEMMA SizeAlwaysFound == Spec => []SizeFound
<1>1. Init => SizeFound
    BY DEF Init, SizeFound
<1>2. SizeFound /\ [Next]_vars => SizeFound'
    <2> SUFFICES ASSUME SizeFound, [Next]_vars PROVE SizeFound'
        OBVIOUS
    <2>1. ASSUME NEW r \in Request, NEW initial, prepare_full_chain_inputs(r, initial)
          PROVE  SizeFound'
        BY <2>1 DEF prepare_full_chain_inputs, StartChunk, SizeFound
    <2>2. ASSUME BreakOff
          PROVE  SizeFound'
        BY <2>2 DEF BreakOff, SizeFound
    <2>3. CASE prepare_chunk_input
        BY <2>2, <2>3 DEF prepare_chunk_input, loop, SizeFound
    <2>4. CASE finish_chunk
        BY <2>2, <2>4 DEF finish_chunk, NextChunk, StartChunk, SizeFound
    <2>5. CASE Interrupt
        BY <2>2, <2>5 DEF Interrupt
    <2>6. CASE UNCHANGED vars
        BY <2>6 DEF vars, loop, SizeFound
    <2> QED
        BY <2>1, <2>3, <2>4, <2>5, <2>6 DEF Next
<1> QED
    BY <1>1, <1>2, PTL DEF Spec

(* The batch that starts at a block, of the size that is found for it.     *)
LEMMA BatchUnderTheLimit ==
    ASSUME NEW k \in 1 .. MaxLeaves, NEW from \in Int, NEW to \in Int, to <= from,
           NEW size, size = compute_dynamic_batch_size(from, Forest!MmrSize(k)),
           NEW low, low = BatchLow(from, size, to),
           (from - DYNAMIC_BATCH_SIZE_START + 1) .. from \in SUBSET Stored
    PROVE  /\ JobRounds(from, low, k) <= MAX_KECCAK_ROUNDS
           /\ \/ low = to
              \/ size = DYNAMIC_BATCH_SIZE_START
              \/ JobRounds(from, low - 1, k) > MAX_KECCAK_ROUNDS
<1> DEFINE start == DYNAMIC_BATCH_SIZE_START
           mmr_size == Forest!MmrSize(k)
           Low(n) == from - n + 1
           rounds(n) == Rounds(Low(n) .. from) + hash_count(mmr_size, n)
<1>1. start \in Nat \ {0} /\ MAX_KECCAK_ROUNDS \in Nat /\ k \in Nat \ {0}
    BY PrepareAssumption, RoomFits
<1>2. /\ size \in 1 .. start
      /\ rounds(size) <= MAX_KECCAK_ROUNDS
      /\ size # start => rounds(size + 1) > MAX_KECCAK_ROUNDS
    BY DynamicSize
<1>3. ASSUME NEW n \in 1 .. start
      PROVE  /\ JobRounds(from, Low(n), k) = rounds(n)
             /\ IsFiniteSet(Low(n) .. from) /\ Low(n) .. from \in SUBSET Stored
             /\ hash_count(mmr_size, n) = 2 * M!PeakCount(k) + n
             /\ M!PeakCount(k) \in Nat
    <2>1. /\ n \in Nat /\ Low(n) \in Int /\ Low(n) <= from /\ from - Low(n) + 1 = n
          /\ from - start + 1 <= Low(n)
        BY <1>1
    <2>2. k + n + 1 < 2^(MaxHeight + 1)
        <3> DEFINE top == 2^(MaxHeight + 1)
        <3>1. top \in Nat /\ MaxLeaves \in Nat /\ MaxLeaves + start + 1 < top
            BY RoomFits
        <3> HIDE DEF top, start
        <3>2. k + n + 1 < top
            BY <1>1, <3>1
        <3> QED
            BY <3>2 DEF top
    <2>3. Low(n) .. from \in SUBSET Stored
        <3>1. \A b \in Low(n) .. from : b \in (from - start + 1) .. from
            BY <1>1, <2>1
        <3> QED
            BY <3>1
    <2>4. IsFiniteSet(Low(n) .. from)
        BY <2>1, FS_Interval
    <2>5. hash_count(mmr_size, n) = 2 * M!PeakCount(k) + n /\ M!PeakCount(k) \in Nat
        BY <1>1, <2>1, <2>2, HashCountIs
    <2> HIDE DEF Low, start, mmr_size
    <2>6. JobRounds(from, Low(n), k) =
              Rounds(Low(n) .. from) + hash_count(Forest!MmrSize(k), from - Low(n) + 1)
        BY <1>1, <2>1, <2>2, <2>3, JobRoundsAre
    <2> QED
        BY <2>1, <2>3, <2>4, <2>5, <2>6 DEF mmr_size
<1> HIDE DEF mmr_size, start
<1>4. CASE from - size >= to
    <2>1. low = Low(size)
        <3>1. size \in Nat \ {0}
            BY <1>1, <1>2
        <3> QED
            BY <1>4, <3>1, BatchBounds
    <2>2. JobRounds(from, low, k) <= MAX_KECCAK_ROUNDS
        BY <1>2, <1>3, <2>1
    <2>3. ASSUME size # start
          PROVE  JobRounds(from, low - 1, k) > MAX_KECCAK_ROUNDS
        <3>1. size + 1 \in 1 .. start /\ low - 1 = Low(size + 1)
            BY <1>1, <1>2, <2>1, <2>3
        <3>2. JobRounds(from, Low(size + 1), k) = rounds(size + 1)
            BY <1>3, <3>1
        <3> HIDE DEF Low
        <3> QED
            BY <1>2, <2>3, <3>1, <3>2
    <2> QED
        BY <2>2, <2>3 DEF start
<1>5. CASE from - size < to
    <2> DEFINE n == from - to + 1
    <2>1. low = to
        <3>1. size \in Nat \ {0}
            BY <1>1, <1>2
        <3> QED
            BY <1>5, <3>1, BatchBounds
    <2>2. n \in 1 .. start /\ n <= size /\ Low(n) = to /\ Low(size) <= Low(n)
        BY <1>1, <1>2, <1>5
    <2> HIDE DEF n
    <2>3. Rounds(Low(n) .. from) <= Rounds(Low(size) .. from)
          /\ Rounds(Low(n) .. from) \in Nat /\ Rounds(Low(size) .. from) \in Nat
        <3>1. Low(n) .. from \in SUBSET (Low(size) .. from)
            BY <1>1, <1>2, <2>2
        <3>2. IsFiniteSet(Low(size) .. from) /\ Low(size) .. from \in SUBSET Stored
            BY <1>2, <1>3
        <3> HIDE DEF Low
        <3> QED
            BY <3>1, <3>2, RoundsGrow
    <2>4. /\ hash_count(mmr_size, n) = 2 * M!PeakCount(k) + n
          /\ hash_count(mmr_size, size) = 2 * M!PeakCount(k) + size
          /\ M!PeakCount(k) \in Nat
        BY <1>2, <1>3, <2>2
    <2>5. rounds(n) <= MAX_KECCAK_ROUNDS
        <3>1. rounds(size) <= MAX_KECCAK_ROUNDS
            BY <1>2
        <3> HIDE DEF Low
        <3>2. rounds(n) <= rounds(size) /\ rounds(n) \in Nat /\ rounds(size) \in Nat
            <4>1. n \in Nat /\ size \in Nat
                BY <1>1, <1>2, <2>2
            <4> QED
                BY <2>2, <2>3, <2>4, <4>1
        <3> HIDE DEF rounds
        <3> QED
            BY <1>1, <3>1, <3>2
    <2>6. JobRounds(from, Low(n), k) = rounds(n)
        BY <1>3, <2>2
    <2> HIDE DEF rounds, Low
    <2> QED
        BY <2>1, <2>2, <2>5, <2>6
<1> QED
    BY <1>1, <1>2, <1>4, <1>5

(* For any database, headers and limit: with a dynamic batch size, a job   *)
(* takes no more rounds of keccak than there are, and would with one block *)
(* more, as long as the search has all the blocks it starts with.          *)
THEOREM ExactlyUnderTheLimitHolds ==
    ASSUME OddParamsDoNotFit
    PROVE  Spec => []ExactlyUnderTheLimit
<1>1. IInv /\ ResumeInv /\ SizeFound => ExactlyUnderTheLimit
    <2> SUFFICES ASSUME IInv, ResumeInv, SizeFound, pc = "input", request.dynamic,
                        PeaksFitSize(last),
                        from_block_number_high - DYNAMIC_BATCH_SIZE_START + 1
                            .. from_block_number_high \subseteq Stored
                 PROVE  LET rounds(to) ==
                                JobRounds(from_block_number_high, to, Len(leaves) + 1)
                        IN  /\ rounds(to_block_number_batch_low) <= MAX_KECCAK_ROUNDS
                            /\ \/ to_block_number_batch_low = request.to
                               \/ batch_size = DYNAMIC_BATCH_SIZE_START
                               \/ rounds(to_block_number_batch_low - 1) > MAX_KECCAK_ROUNDS
        BY DEF ExactlyUnderTheLimit
    <2> DEFINE high == from_block_number_high
               k == Len(leaves) + 1
    <2>1. /\ request \in Request /\ high \in Int /\ request.to <= high
          /\ to_block_number_batch_low = BatchLow(high, batch_size, request.to)
          /\ request.to \in Int /\ request.from \in Int
          /\ request.from - request.to + 1 <= MaxRange
        BY Requests, RoomAssumption DEF IInv, AtChunk
    <2>2. /\ calls \in 1 .. MaxCalls
          /\ Resumable(last, leaves, Room(calls - 1) + (request.from - high))
        BY PrepareAssumption DEF ResumeInv
    <2>3. /\ Len(leaves) \in Nat /\ Len(leaves) <= Room(calls - 1) + (request.from - high)
          /\ last.mmr_size = Forest!MmrSize(k)
        BY <2>2 DEF Resumable, FromScratch
    <2>4. k \in 1 .. MaxLeaves
        <3>1. /\ Room(calls - 1) \in Nat /\ Room(calls) \in Nat /\ MaxRange \in Nat
              /\ Room(calls - 1) + MaxRange = Room(calls)
              /\ Room(calls) + 1 <= MaxLeaves /\ MaxLeaves \in Nat
            BY <2>2, RoomFits
        <3> HIDE DEF high
        <3>2. Len(leaves) + 1 <= MaxLeaves
            <4>1. ASSUME NEW l \in Nat, NEW b \in Nat, NEW c \in Nat, NEW m \in Nat,
                         NEW f \in Int, NEW h \in Int, NEW t \in Int, NEW all \in Nat,
                         l <= b + (f - h), t <= h, f - t + 1 <= m, b + m = c, c + 1 <= all
                  PROVE  l + 1 <= all
                BY <4>1
            <4> QED
                BY <2>1, <2>3, <3>1, <4>1
        <3> QED
            BY <2>3, <3>1, <3>2
    <2>5. batch_size = compute_dynamic_batch_size(high, Forest!MmrSize(k))
        BY <2>3 DEF SizeFound
    <2> HIDE DEF k
    <2>6. /\ JobRounds(high, to_block_number_batch_low, k) <= MAX_KECCAK_ROUNDS
          /\ \/ to_block_number_batch_low = request.to
             \/ batch_size = DYNAMIC_BATCH_SIZE_START
             \/ JobRounds(high, to_block_number_batch_low - 1, k) > MAX_KECCAK_ROUNDS
        <3>1. (high - DYNAMIC_BATCH_SIZE_START + 1) .. high \in SUBSET Stored
            OBVIOUS
        <3> HIDE DEF high
        <3> QED
            BY <2>1, <2>4, <2>5, <3>1, BatchUnderTheLimit
    <2> QED
        BY <2>6 DEF k
<1> QED
    BY <1>1, ChunksSound, AlwaysResumable, SizeAlwaysFound, PTL

=============================================================================
