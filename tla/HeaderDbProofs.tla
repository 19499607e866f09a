--------------------------- MODULE HeaderDbProofs ---------------------------
(***************************************************************************)
(* Theorems about HeaderDb, for any number of runs of the tool, any block  *)
(* to fetch up to, and all sizes of chunks and batches.                    *)
(***************************************************************************)
EXTENDS HeaderDb, FiniteSetTheorems, TLAPS

(* Of a range of n numbers up to e, in batches of B: how many batches there*)
(* are, and the size and the highest number of the k-th one.               *)
Amount(n, B) == n \div B + (IF n % B = 0 THEN 0 ELSE 1)
Size(n, B, k) == IF k = Amount(n, B) /\ n % B # 0 THEN n % B ELSE B
Upper(e, B, k) == e - (k - 1) * B

Numbers(p) == {h.number : h \in all_results[p]}

(* The headers of the chunk that the batches requested so far have brought.*)
BatchesArrived(p) ==
    /\ batch[p] <= rpc_batches_amount(p)
    /\ Numbers(p) = (Upper(end_at(p), RPC_BATCH_MAX_SIZE, batch[p]) + 1) .. end_at(p)

(* What is inductive about one run: the table reaches up to its chunk, what*)
(* it has fetched is the upper part of the chunk, or all of it, with the   *)
(* fields of the blocks, and the numbers that a check has read are still   *)
(* the lowest and one of those in the table.                               *)
ChunkOf(p) ==
    /\ pc[p] \in {"fetch", "insert"} =>
        /\ start_from[p] <= HIGH_BLOCK_NUMBER
        /\ 0 .. (start_from[p] - 1) \subseteq DOMAIN blocks
    /\ pc[p] = "fetch" => BatchesArrived(p)
    /\ pc[p] = "insert" => Numbers(p) = start_from[p] .. end_at(p)

HeadersOf(p) == \A h \in all_results[p] : h.fields = OptionalKeys[h.number]

SeenOf(p) ==
    pc[p] \in {"first count", "last count"} => seen[p][1] = 0 /\ seen[p][2] \in DOMAIN blocks

RunInv(p) == ChunkOf(p) /\ HeadersOf(p) /\ SeenOf(p)

IInv ==
    /\ TypeOK
    /\ blocks \in [DOMAIN blocks -> Header]
    /\ StoredIsAnInitialSegment
    /\ StoredHeadersHash
    /\ \A p \in Process : RunInv(p)

-----------------------------------------------------------------------------
(* Arithmetic.                                                             *)

LEMMA MinOfTwo ==
    ASSUME NEW a \in Int, NEW b \in Int
    PROVE  /\ Min({a, b}) \in {a, b}
           /\ Min({a, b}) <= a /\ Min({a, b}) <= b
<1> DEFINE P(x) == x \in {a, b} /\ \A y \in {a, b} : x <= y
<1>1. \E x : P(x)
    <2>1. CASE a <= b
        BY <2>1
    <2>2. CASE b <= a
        BY <2>2
    <2> QED
        BY <2>1, <2>2
<1>2. P(CHOOSE x : P(x))
    BY <1>1
<1>3. Min({a, b}) = CHOOSE x : P(x)
    BY DEF Min
<1> QED
    BY <1>2, <1>3

LEMMA BoundsOfSegment ==
    ASSUME NEW n \in Nat \ {0}
    PROVE  Min(0 .. (n - 1)) = 0 /\ Max(0 .. (n - 1)) = n - 1
<1> DEFINE P(x) == x \in 0 .. (n - 1) /\ \A y \in 0 .. (n - 1) : x <= y
           Q(x) == x \in 0 .. (n - 1) /\ \A y \in 0 .. (n - 1) : x >= y
<1>1. P(0) /\ Q(n - 1)
    OBVIOUS
<1>2. /\ P(CHOOSE x : P(x))
      /\ Q(CHOOSE x : Q(x))
    BY <1>1
<1>3. /\ Min(0 .. (n - 1)) = CHOOSE x : P(x)
      /\ Max(0 .. (n - 1)) = CHOOSE x : Q(x)
    BY DEF Min, Max
<1>4. \A x : P(x) => x = 0
    OBVIOUS
<1>5. \A x : Q(x) => x = n - 1
    OBVIOUS
<1> QED
    BY <1>2, <1>3, <1>4, <1>5

LEMMA Division ==
    ASSUME NEW n \in Nat, NEW b \in Nat \ {0}
    PROVE  /\ n \div b \in Nat
           /\ n % b \in 0 .. (b - 1)
           /\ n = b * (n \div b) + (n % b)
OBVIOUS

LEMMA Monotonic ==
    ASSUME NEW b \in Nat, NEW k \in Int, NEW q \in Int, k <= q
    PROVE  k * b <= q * b
OBVIOUS

LEMMA Countdown ==
    ASSUME NEW upper \in Int, NEW size \in Nat
    PROVE  {upper - j : j \in 0 .. (size - 1)} = (upper - size + 1) .. upper
<1>1. ASSUME NEW x \in (upper - size + 1) .. upper
      PROVE  x \in {upper - j : j \in 0 .. (size - 1)}
    <2>1. upper - x \in 0 .. (size - 1) /\ x = upper - (upper - x)
        OBVIOUS
    <2> QED
        BY <2>1
<1>2. {upper - j : j \in 0 .. (size - 1)} \subseteq (upper - size + 1) .. upper
    OBVIOUS
<1> QED
    BY <1>1, <1>2

(* The k-th of the batches that a chunk of n numbers up to e is cut into.  *)
LEMMA BatchArithmetic ==
    ASSUME NEW n \in Nat, NEW B \in Nat \ {0}, NEW k \in Nat \ {0},
           k <= Amount(n, B), NEW e \in Int
    PROVE  /\ Amount(n, B) \in Nat /\ Size(n, B, k) \in 1 .. B /\ Upper(e, B, k) \in Int
           /\ Upper(e, B, k) <= e /\ e - n < Upper(e, B, k) - Size(n, B, k) + 1
           /\ k < Amount(n, B) => Upper(e, B, k) - Size(n, B, k) = Upper(e, B, k + 1)
           /\ k >= Amount(n, B) => Upper(e, B, k) - Size(n, B, k) = e - n
<1> DEFINE q == n \div B
           r == n % B
           amount == Amount(n, B)
           size == Size(n, B, k)
           upper == Upper(e, B, k)
           next == Upper(e, B, k + 1)
           below == (k - 1) * B
           through == k * B
           all == B * q
<1>1. q \in Nat /\ r \in 0 .. (B - 1)
    BY Division
<1>2. n = all + r
    BY Division
<1>3. /\ amount = q + (IF r = 0 THEN 0 ELSE 1)
      /\ size = IF k = amount /\ r # 0 THEN r ELSE B
      /\ k <= amount
    BY DEF Amount, Size
<1>4. upper = e - below
    BY DEF Upper
<1>5. next = e - through
    <2>1. (k + 1) - 1 = k
        OBVIOUS
    <2> QED
        BY <2>1 DEF Upper
<1>6. below \in Nat /\ through = below + B
    OBVIOUS
<1>7. k <= q => through <= all
    <2> HIDE DEF q
    <2> QED
        BY <1>1, Monotonic
<1>8. /\ k = q => through = all
      /\ k = q + 1 => below = all
      /\ all \in Nat
    <2> HIDE DEF q
    <2> QED
        BY <1>1
<1> SUFFICES
        /\ amount \in Nat /\ size \in 1 .. B /\ upper \in Int
        /\ upper <= e /\ e - n < upper - size + 1
        /\ k < amount => upper - size = next
        /\ k >= amount => upper - size = e - n
    OBVIOUS
<1> HIDE DEF q, r, amount, size, upper, next, below, through, all
<1>9. CASE k < amount
    <2>1. k <= q /\ size = B
        BY <1>1, <1>3, <1>9
    <2> QED
        BY <2>1, <1>1, <1>2, <1>3, <1>4, <1>5, <1>6, <1>7, <1>8, <1>9
<1>10. CASE k >= amount /\ r = 0
    <2>1. k = q /\ k = amount /\ size = B
        BY <1>1, <1>3, <1>10
    <2> QED
        BY <2>1, <1>1, <1>2, <1>3, <1>4, <1>6, <1>8, <1>10
<1>11. CASE k >= amount /\ r # 0
    <2>1. k = q + 1 /\ k = amount /\ size = r
        BY <1>1, <1>3, <1>11
    <2> QED
        BY <2>1, <1>1, <1>2, <1>3, <1>4, <1>6, <1>8, <1>11
<1>12. k < amount \/ k >= amount
    BY <1>1, <1>3
<1> QED
    BY <1>9, <1>10, <1>11, <1>12

-----------------------------------------------------------------------------
(* The chunk and its batches.                                              *)

LEMMA Parameters ==
    /\ HIGH_BLOCK_NUMBER \in Nat
    /\ CHUNK_SIZE \in Nat \ {0}
    /\ MAX_RETRIES \in Nat \ {0}
    /\ RPC_BATCH_MAX_SIZE \in Nat \ {0}
    /\ OptionalKeys \in [Number -> Layout]
BY DbAssumption

LEMMA ChunkBounds ==
    ASSUME NEW p \in Process, start_from[p] \in Nat, start_from[p] <= HIGH_BLOCK_NUMBER
    PROVE  /\ end_at(p) \in Nat
           /\ start_from[p] <= end_at(p)
           /\ end_at(p) <= HIGH_BLOCK_NUMBER
           /\ end_at(p) <= start_from[p] + CHUNK_SIZE - 1
<1> DEFINE a == start_from[p] + CHUNK_SIZE - 1
<1>1. a \in Int /\ HIGH_BLOCK_NUMBER \in Int /\ start_from[p] <= a
    BY Parameters
<1>2. /\ Min({a, HIGH_BLOCK_NUMBER}) \in {a, HIGH_BLOCK_NUMBER}
      /\ Min({a, HIGH_BLOCK_NUMBER}) <= a
      /\ Min({a, HIGH_BLOCK_NUMBER}) <= HIGH_BLOCK_NUMBER
    <2> HIDE DEF a
    <2> QED
        BY <1>1, MinOfTwo
<1>3. end_at(p) = Min({a, HIGH_BLOCK_NUMBER})
    BY DEF end_at
<1> QED
    BY <1>1, <1>2, <1>3, Parameters

(* The requests of a batch are the next numbers downwards, never below the *)
(* chunk, and those of the last batch reach its lowest one.                *)
Top(p) == Upper(end_at(p), RPC_BATCH_MAX_SIZE, batch[p])
Low(p) == Top(p) - current_batch_size(p) + 1

LEMMA BatchOfChunk ==
    ASSUME NEW p \in Process, number_of_blocks(p) \in Nat, end_at(p) \in Int,
           batch[p] \in Nat \ {0}, batch[p] <= rpc_batches_amount(p)
    PROVE  /\ rpc_batches_amount(p) \in Nat
           /\ current_batch_size(p) \in 1 .. RPC_BATCH_MAX_SIZE
           /\ Top(p) \in Int /\ Top(p) <= end_at(p)
           /\ end_at(p) - number_of_blocks(p) < Top(p) - current_batch_size(p) + 1
           /\ batch[p] < rpc_batches_amount(p) =>
                Top(p) - current_batch_size(p) =
                Upper(end_at(p), RPC_BATCH_MAX_SIZE, batch[p] + 1)
           /\ batch[p] >= rpc_batches_amount(p) =>
                Top(p) - current_batch_size(p) = end_at(p) - number_of_blocks(p)
<1> DEFINE n == number_of_blocks(p)
           B == RPC_BATCH_MAX_SIZE
           k == batch[p]
           e == end_at(p)
<1>1. /\ rpc_batches_amount(p) = Amount(n, B)
      /\ current_batch_size(p) = Size(n, B, k)
      /\ Top(p) = Upper(e, B, k)
    BY DEF rpc_batches_amount, last_batch_size, current_batch_size, Amount, Size, Top
<1>2. n \in Nat /\ B \in Nat \ {0} /\ k \in Nat \ {0} /\ e \in Int /\ k <= Amount(n, B)
    BY <1>1, Parameters
<1>3. /\ Amount(n, B) \in Nat /\ Size(n, B, k) \in 1 .. B /\ Upper(e, B, k) \in Int
      /\ Upper(e, B, k) <= e /\ e - n < Upper(e, B, k) - Size(n, B, k) + 1
      /\ k < Amount(n, B) => Upper(e, B, k) - Size(n, B, k) = Upper(e, B, k + 1)
      /\ k >= Amount(n, B) => Upper(e, B, k) - Size(n, B, k) = e - n
    <2> HIDE DEF n, B, k, e
    <2>1. Amount(n, B) \in Nat /\ Size(n, B, k) \in 1 .. B /\ Upper(e, B, k) \in Int
        BY <1>2, BatchArithmetic
    <2>2. Upper(e, B, k) <= e /\ e - n < Upper(e, B, k) - Size(n, B, k) + 1
        BY <1>2, BatchArithmetic
    <2>3. k < Amount(n, B) => Upper(e, B, k) - Size(n, B, k) = Upper(e, B, k + 1)
        BY <1>2, BatchArithmetic
    <2>4. k >= Amount(n, B) => Upper(e, B, k) - Size(n, B, k) = e - n
        BY <1>2, BatchArithmetic
    <2> QED
        BY <2>1, <2>2, <2>3, <2>4
<1> QED
    BY <1>1, <1>3

LEMMA BatchBounds ==
    ASSUME NEW p \in Process, start_from[p] \in Nat, start_from[p] <= HIGH_BLOCK_NUMBER,
           batch[p] \in Nat \ {0}, batch[p] <= rpc_batches_amount(p)
    PROVE  /\ rpc_batches_amount(p) \in Nat
           /\ Top(p) \in Int /\ Low(p) \in Int
           /\ Low(p) <= Top(p) /\ start_from[p] <= Low(p) /\ Top(p) <= end_at(p)
           /\ batch[p] < rpc_batches_amount(p) =>
                Low(p) = Upper(end_at(p), RPC_BATCH_MAX_SIZE, batch[p] + 1) + 1
           /\ batch[p] >= rpc_batches_amount(p) => Low(p) = start_from[p]
           /\ requests(p) = Low(p) .. Top(p)
<1> DEFINE n == number_of_blocks(p)
           size == current_batch_size(p)
           amount == rpc_batches_amount(p)
           next == Upper(end_at(p), RPC_BATCH_MAX_SIZE, batch[p] + 1)
<1>1. /\ n \in Nat /\ n = end_at(p) - start_from[p] + 1
      /\ RPC_BATCH_MAX_SIZE \in Nat \ {0}
      /\ end_at(p) \in Nat
    BY ChunkBounds, Parameters DEF number_of_blocks
<1>2. /\ amount \in Nat
      /\ size \in 1 .. RPC_BATCH_MAX_SIZE
      /\ Top(p) \in Int /\ Top(p) <= end_at(p)
      /\ end_at(p) - n < Top(p) - size + 1
      /\ batch[p] < amount => Top(p) - size = next
      /\ batch[p] >= amount => Top(p) - size = end_at(p) - n
    BY <1>1, BatchOfChunk
<1>3. Low(p) = Top(p) - size + 1
    BY DEF Low
<1>4. requests(p) = {Top(p) - j : j \in 0 .. (size - 1)}
    BY DEF requests, Upper, Top
<1> SUFFICES
        /\ amount \in Nat
        /\ Top(p) \in Int /\ Low(p) \in Int
        /\ Low(p) <= Top(p) /\ start_from[p] <= Low(p) /\ Top(p) <= end_at(p)
        /\ batch[p] < amount => Low(p) = next + 1
        /\ batch[p] >= amount => Low(p) = start_from[p]
        /\ requests(p) = Low(p) .. Top(p)
    OBVIOUS
<1> HIDE DEF n, size, amount, next
<1>5. size \in Nat
    BY <1>1, <1>2
<1>6. requests(p) = Low(p) .. Top(p)
    BY <1>2, <1>3, <1>4, <1>5, Countdown
<1>7. batch[p] \in Nat \ {0} /\ start_from[p] \in Nat
    OBVIOUS
<1>8. /\ Low(p) \in Int
      /\ Low(p) <= Top(p) /\ start_from[p] <= Low(p)
      /\ batch[p] >= amount => Low(p) = start_from[p]
    BY <1>1, <1>2, <1>3, <1>5, <1>7
<1>9. batch[p] < amount => Low(p) = next + 1
    BY <1>2, <1>3
<1> QED
    BY <1>2, <1>6, <1>8, <1>9

-----------------------------------------------------------------------------
(* What the actions have in common.                                        *)

LEMMA Initially == Init => IInv
<1> SUFFICES ASSUME Init
             PROVE  IInv
    OBVIOUS
<1>1. DOMAIN blocks = {} /\ blocks = [n \in {} |-> n]
    BY DEF Init
<1>2. blocks \in [DOMAIN blocks -> Header]
    BY <1>1
<1>3. TypeOK
    BY <1>1, Parameters DEF Init, TypeOK, Ended, Number
<1>4. StoredIsAnInitialSegment
    <2>1. 0 \in 0 .. (HIGH_BLOCK_NUMBER + 1) /\ DOMAIN blocks = 0 .. (0 - 1)
        BY <1>1, Parameters
    <2> QED
        BY <2>1 DEF StoredIsAnInitialSegment
<1>5. \A p \in Process : RunInv(p)
    BY DEF Init, RunInv, ChunkOf, HeadersOf, SeenOf
<1> QED
    BY <1>1, <1>2, <1>3, <1>4, <1>5 DEF IInv, StoredHeadersHash

(* A step of one run leaves the variables of the others alone.             *)
SameRun(q) ==
    /\ pc'[q] = pc[q]
    /\ start_from'[q] = start_from[q]
    /\ attempt'[q] = attempt[q]
    /\ batch'[q] = batch[q]
    /\ all_results'[q] = all_results[q]
    /\ seen'[q] = seen[q]

LEMMA OtherRuns ==
    ASSUME TypeOK, NEW p \in Process, Step(p) \/ Fail(p), NEW q \in Process, q # p
    PROVE  SameRun(q)
<1> USE DEF TypeOK, SameRun, Goto
<1>1. CASE setup_db(p)
    BY <1>1 DEF setup_db, local
<1>2. CASE check_db_integrity(p)
    BY <1>2 DEF check_db_integrity, ReadBounds, Count, local
<1>3. CASE resume(p)
    BY <1>3 DEF resume, StartChunk
<1>4. CASE fetch_batch(p)
    BY <1>4 DEF fetch_batch
<1>5. CASE insert_block_data(p)
    BY <1>5 DEF insert_block_data, StartChunk
<1>6. CASE fetch_fails(p)
    BY <1>6 DEF fetch_fails
<1>7. CASE Die(p)
    BY <1>7 DEF Die, local
<1> QED
    BY <1>1, <1>2, <1>3, <1>4, <1>5, <1>6, <1>7 DEF Step, Fail

(* What holds of a run survives whatever only adds to the table.           *)
LEMMA RunInvKept ==
    ASSUME NEW q \in Process, RunInv(q), SameRun(q), DOMAIN blocks \subseteq DOMAIN blocks'
    PROVE  RunInv(q)'
<1>1. /\ end_at(q)' = end_at(q)
      /\ Numbers(q)' = Numbers(q)
      /\ rpc_batches_amount(q)' = rpc_batches_amount(q)
    BY DEF SameRun, end_at, Numbers, rpc_batches_amount, number_of_blocks, last_batch_size
<1>2. BatchesArrived(q)' <=> BatchesArrived(q)
    BY <1>1 DEF SameRun, BatchesArrived
<1>3. ChunkOf(q)'
    BY <1>1, <1>2 DEF SameRun, RunInv, ChunkOf
<1>4. HeadersOf(q)' /\ SeenOf(q)'
    BY DEF SameRun, RunInv, HeadersOf, SeenOf
<1> QED
    BY <1>3, <1>4 DEF RunInv

(* The state in which a run starts with a chunk that the table reaches.    *)
LEMMA ChunkStarted ==
    ASSUME TypeOK, NEW p \in Process, NEW first \in Nat, StartChunk(p, first),
           0 .. (first - 1) \subseteq DOMAIN blocks'
    PROVE  RunInv(p)'
<1> DEFINE n == number_of_blocks(p)'
<1>1. /\ start_from'[p] = first /\ batch'[p] = 1 /\ all_results'[p] = {}
      /\ pc'[p] = IF first <= HIGH_BLOCK_NUMBER THEN "fetch" ELSE "last check"
    BY DEF StartChunk, Goto, TypeOK
<1>2. ASSUME first <= HIGH_BLOCK_NUMBER
      PROVE  BatchesArrived(p)'
    <2>1. end_at(p)' \in Nat /\ start_from'[p] <= end_at(p)'
        <3>1. end_at(p)' = Min({first + CHUNK_SIZE - 1, HIGH_BLOCK_NUMBER})
            BY <1>1 DEF end_at
        <3> DEFINE a == first + CHUNK_SIZE - 1
        <3>2. /\ a \in Int /\ HIGH_BLOCK_NUMBER \in Int /\ HIGH_BLOCK_NUMBER \in Nat
              /\ first <= a
            BY Parameters
        <3>3. Min({a, HIGH_BLOCK_NUMBER}) \in {a, HIGH_BLOCK_NUMBER}
            <4> HIDE DEF a
            <4> QED
                BY <3>2, MinOfTwo
        <3> QED
            BY <3>1, <3>2, <3>3, <1>1, <1>2
    <2>2. n \in Nat \ {0}
        <3>1. n = end_at(p)' - first + 1
            BY <1>1 DEF number_of_blocks
        <3>2. first \in Nat /\ end_at(p)' \in Nat /\ first <= end_at(p)'
            BY <2>1, <1>1
        <3> QED
            BY <3>1, <3>2
    <2>3. 1 <= rpc_batches_amount(p)'
        <3>1. /\ n \div RPC_BATCH_MAX_SIZE \in Nat /\ n % RPC_BATCH_MAX_SIZE \in Nat
              /\ n = RPC_BATCH_MAX_SIZE * (n \div RPC_BATCH_MAX_SIZE) + (n % RPC_BATCH_MAX_SIZE)
            <4> HIDE DEF n
            <4> QED
                BY <2>2, Parameters, Division
        <3> DEFINE quotient == n \div RPC_BATCH_MAX_SIZE
                   rest == n % RPC_BATCH_MAX_SIZE
        <3>2. rpc_batches_amount(p)' = quotient + (IF rest = 0 THEN 0 ELSE 1)
            BY DEF rpc_batches_amount, last_batch_size
        <3>3. quotient # 0 \/ rest # 0
            <4>1. RPC_BATCH_MAX_SIZE * 0 = 0
                BY Parameters
            <4> HIDE DEF n
            <4> QED
                BY <3>1, <4>1, <2>2
        <3> HIDE DEF quotient, rest
        <3>4. quotient \in Nat /\ rest \in Nat
            BY <3>1 DEF quotient, rest
        <3> QED
            BY <3>2, <3>3, <3>4
    <2>4. Numbers(p)' = {}
        BY <1>1 DEF Numbers
    <2>5. Upper(end_at(p)', RPC_BATCH_MAX_SIZE, 1) = end_at(p)'
        BY <2>1, Parameters DEF Upper
    <2>6. (end_at(p)' + 1) .. end_at(p)' = {}
        BY <2>1
    <2> QED
        BY <1>1, <2>3, <2>4, <2>5, <2>6 DEF BatchesArrived
<1>3. ChunkOf(p)'
    BY <1>1, <1>2 DEF ChunkOf
<1>4. HeadersOf(p)' /\ SeenOf(p)'
    BY <1>1 DEF HeadersOf, SeenOf
<1> QED
    BY <1>3, <1>4 DEF RunInv

(* The bounds and the size of a table that is an initial segment.          *)
LEMMA SegmentFacts ==
    ASSUME NEW top \in 0 .. (HIGH_BLOCK_NUMBER + 1), DOMAIN blocks = 0 .. (top - 1)
    PROVE  /\ DOMAIN blocks = {} <=> top = 0
           /\ Cardinality(DOMAIN blocks) = top
           /\ top # 0 => Min(DOMAIN blocks) = 0 /\ Max(DOMAIN blocks) = top - 1
<1>1. top \in Nat
    BY Parameters
<1>2. DOMAIN blocks = {} <=> top = 0
    BY <1>1
<1>3. Cardinality(0 .. (top - 1)) = IF 0 > top - 1 THEN 0 ELSE (top - 1) - 0 + 1
    BY <1>1, FS_Interval
<1>4. Cardinality(DOMAIN blocks) = top
    BY <1>1, <1>3
<1>5. top # 0 => Min(DOMAIN blocks) = 0 /\ Max(DOMAIN blocks) = top - 1
    BY <1>1, BoundsOfSegment
<1> QED
    BY <1>2, <1>4, <1>5

(* A step that leaves the table alone keeps what is said of the table.     *)
LEMMA SameTable ==
    ASSUME IInv, TypeOK', blocks' = blocks, NEW p \in Process, Step(p) \/ Fail(p), RunInv(p)'
    PROVE  IInv'
<1>1. ASSUME NEW q \in Process
      PROVE  RunInv(q)'
    <2>1. CASE q = p
        BY <2>1
    <2>2. CASE q # p
        BY <2>2, OtherRuns, RunInvKept DEF IInv
    <2> QED
        BY <2>1, <2>2
<1>2. StoredIsAnInitialSegment' /\ StoredHeadersHash' /\ (blocks \in [DOMAIN blocks -> Header])'
    BY DEF IInv, StoredIsAnInitialSegment, StoredHeadersHash
<1> QED
    BY <1>1, <1>2 DEF IInv

(* A node's answers to requests within the range, decoded and encoded: the *)
(* headers of exactly the numbers that were requested.                     *)
LEMMA HeadersOfAnswers ==
    ASSUME NEW numbers \in SUBSET Number, NEW results \in Answers(numbers),
           NEW headers, headers = {build_block_header(b) : b \in results}
    PROVE  /\ headers \subseteq Header
           /\ {h.number : h \in headers} = numbers
           /\ \A h \in headers : h.fields = OptionalKeys[h.number]
<1>1. PICK view \in View : results = {[number |-> n, view |-> view, keys |-> OptionalKeys[n]] : n \in numbers}
    BY DEF Answers
<1> DEFINE b(n) == [number |-> n, view |-> view, keys |-> OptionalKeys[n]]
           h(n) == [number |-> n, view |-> view, fields |-> OptionalKeys[n]]
<1>2. ASSUME NEW n \in numbers
      PROVE  build_block_header(b(n)) = h(n) /\ h(n) \in Header
    <2>1. n \in Number /\ OptionalKeys[n] \in Layout
        BY Parameters
    <2>2. \/ OptionalKeys[n] = {}
          \/ OptionalKeys[n] = {"baseFeePerGas"}
          \/ OptionalKeys[n] = {"baseFeePerGas", "withdrawalsRoot"}
        BY <2>1 DEF Layout
    <2>3. build_block_header(b(n)).fields = OptionalKeys[n]
        <3>1. CASE OptionalKeys[n] = {}
            BY <3>1 DEF build_block_header
        <3>2. CASE OptionalKeys[n] = {"baseFeePerGas"}
            BY <3>2 DEF build_block_header
        <3>3. CASE OptionalKeys[n] = {"baseFeePerGas", "withdrawalsRoot"}
            BY <3>3 DEF build_block_header
        <3> QED
            BY <2>2, <3>1, <3>2, <3>3
    <2>4. build_block_header(b(n)) = h(n)
        BY <2>3 DEF build_block_header
    <2> QED
        BY <2>1, <2>4 DEF Header
<1>3. headers = {h(n) : n \in numbers}
    <2>1. headers = {build_block_header(b(n)) : n \in numbers}
        BY <1>1
    <2> QED
        BY <2>1, <1>2
<1>4. {x.number : x \in headers} = numbers
    <2>1. ASSUME NEW n \in numbers
          PROVE  n \in {x.number : x \in headers}
        <3>1. h(n) \in headers /\ h(n).number = n
            BY <1>3
        <3> QED
            BY <3>1
    <2>2. ASSUME NEW x \in headers
          PROVE  x.number \in numbers
        BY <1>3
    <2> QED
        BY <2>1, <2>2
<1>5. headers \subseteq Header
    BY <1>2, <1>3
<1>6. \A x \in headers : x.fields = OptionalKeys[x.number]
    BY <1>3
<1> QED
    BY <1>4, <1>5, <1>6

-----------------------------------------------------------------------------
(* The actions.                                                            *)

LEMMA SetupDb ==
    ASSUME IInv, NEW p \in Process, setup_db(p)
    PROVE  TypeOK' /\ RunInv(p)' /\ blocks' = blocks
<1>1. TypeOK'
    BY DEF IInv, TypeOK, setup_db, Goto, local, Ended, Running
<1>2. pc'[p] = "first check" /\ blocks' = blocks /\ all_results' = all_results
    BY DEF IInv, TypeOK, setup_db, Goto, local
<1>3. HeadersOf(p)'
    BY <1>2 DEF IInv, RunInv, HeadersOf
<1> QED
    BY <1>1, <1>2, <1>3 DEF RunInv, ChunkOf, SeenOf

LEMMA CheckDbIntegrity ==
    ASSUME IInv, NEW p \in Process, check_db_integrity(p)
    PROVE  TypeOK' /\ RunInv(p)' /\ blocks' = blocks
<1> USE DEF IInv, TypeOK
<1>1. PICK top \in 0 .. (HIGH_BLOCK_NUMBER + 1) : DOMAIN blocks = 0 .. (top - 1)
    BY DEF StoredIsAnInitialSegment
<1>2. blocks' = blocks /\ all_results' = all_results /\ start_from' = start_from
    BY DEF check_db_integrity, ReadBounds, Count, local
<1>3. HeadersOf(p)'
    BY <1>2 DEF RunInv, HeadersOf
<1>4. ASSUME DOMAIN blocks # {}
      PROVE  /\ Min(DOMAIN blocks) = 0 /\ Max(DOMAIN blocks) \in DOMAIN blocks
             /\ 0 \in Number /\ Max(DOMAIN blocks) \in Number
    <2> HIDE DEF IInv, TypeOK
    <2>1. top # 0 /\ Min(DOMAIN blocks) = 0 /\ Max(DOMAIN blocks) = top - 1
        BY <1>1, <1>4, SegmentFacts
    <2>2. top \in Nat \ {0} /\ HIGH_BLOCK_NUMBER \in Nat
        BY <2>1, Parameters
    <2>3. top - 1 \in 0 .. (top - 1) /\ top - 1 \in Number /\ 0 \in Number
        BY <2>2 DEF Number
    <2> QED
        BY <1>1, <2>1, <2>3
<1>5. ASSUME NEW count \in {"first count", "last count"}, NEW passed \in {"resume", "done"},
             ReadBounds(p, count, passed)
      PROVE  TypeOK' /\ SeenOf(p)' /\ pc'[p] \notin {"fetch", "insert"}
    <2>1. CASE DOMAIN blocks = {}
        BY <2>1, <1>5 DEF ReadBounds, Goto, SeenOf, Ended, Running
    <2>2. CASE DOMAIN blocks # {}
        <3>1. /\ Min(DOMAIN blocks) = 0 /\ Max(DOMAIN blocks) \in DOMAIN blocks
              /\ 0 \in Number /\ Max(DOMAIN blocks) \in Number
            BY <2>2, <1>4
        <3>2. /\ pc' = [pc EXCEPT ![p] = count]
              /\ seen' = [seen EXCEPT ![p] = <<0, Max(DOMAIN blocks)>>]
              /\ UNCHANGED <<blocks, start_from, attempt, batch, all_results>>
            BY <2>2, <3>1, <1>5 DEF ReadBounds, Goto, get_min_max_block_numbers
        <3>3. SeenOf(p)'
            BY <3>1, <3>2 DEF SeenOf
        <3> QED
            BY <3>1, <3>2, <3>3 DEF Ended, Running
    <2> QED
        BY <2>1, <2>2
<1>6. ASSUME NEW passed \in {"resume", "done"}, Count(p, passed)
      PROVE  TypeOK' /\ SeenOf(p)' /\ pc'[p] \notin {"fetch", "insert"}
    <2>1. /\ pc'[p] \in {passed, "corrupt"}
          /\ pc' \in [Process -> Ended \union Running]
          /\ UNCHANGED <<blocks, start_from, attempt, batch, all_results, seen>>
        BY <1>6 DEF Count, Goto, local, Ended, Running
    <2> QED
        BY <2>1 DEF SeenOf
<1>7. TypeOK' /\ SeenOf(p)' /\ pc'[p] \notin {"fetch", "insert"}
    BY <1>5, <1>6 DEF check_db_integrity
<1>8. ChunkOf(p)'
    BY <1>7 DEF ChunkOf
<1> QED
    BY <1>2, <1>3, <1>7, <1>8 DEF RunInv

LEMMA Resume ==
    ASSUME IInv, NEW p \in Process, resume(p)
    PROVE  TypeOK' /\ RunInv(p)' /\ blocks' = blocks
<1>1. PICK top \in 0 .. (HIGH_BLOCK_NUMBER + 1) : DOMAIN blocks = 0 .. (top - 1)
    BY DEF IInv, StoredIsAnInitialSegment
<1>2. top \in Nat
    BY Parameters
<1>3. FirstMissing = top
    BY <1>1, <1>2, SegmentFacts DEF FirstMissing
<1>4. StartChunk(p, top) /\ blocks' = blocks /\ seen' = seen
    BY <1>3 DEF resume
<1>5. TypeOK'
    <2>1. /\ TypeOK /\ 1 \in 1 .. MAX_RETRIES /\ 1 \in Nat \ {0}
          /\ {"fetch", "last check"} \subseteq Ended \union Running
        BY Parameters DEF IInv, Ended, Running
    <2> QED
        BY <2>1, <1>2, <1>4 DEF TypeOK, StartChunk, Goto
<1>6. RunInv(p)'
    BY <1>1, <1>2, <1>4, ChunkStarted DEF IInv
<1> QED
    BY <1>4, <1>5, <1>6

LEMMA FetchFails ==
    ASSUME IInv, NEW p \in Process, fetch_fails(p)
    PROVE  TypeOK' /\ RunInv(p)' /\ blocks' = blocks
<1> USE DEF IInv, TypeOK
<1>1. /\ pc[p] = "fetch" /\ blocks' = blocks
      /\ start_from' = start_from /\ seen' = seen
      /\ all_results'[p] = {} /\ batch'[p] = 1
      /\ pc'[p] \in {"fetch", "failed"}
    BY DEF fetch_fails, Goto
<1>2. TypeOK'
    <2>1. CASE LastAttempt(p)
        <3>1. "failed" \in Ended /\ 1 \in Nat \ {0}
            BY DEF Ended
        <3> QED
            BY <2>1, <3>1 DEF fetch_fails, Goto
    <2>2. CASE ~LastAttempt(p)
        <3>1. attempt[p] + 1 \in 1 .. MAX_RETRIES
            <4>1. attempt[p] \in 1 .. MAX_RETRIES /\ attempt[p] # MAX_RETRIES
                BY <2>2 DEF LastAttempt
            <4> HIDE DEF IInv, TypeOK
            <4> QED
                BY <4>1, Parameters
        <3> QED
            BY <2>2, <3>1 DEF fetch_fails, Goto
    <2> QED
        BY <2>1, <2>2
<1>3. /\ start_from[p] \in Nat /\ start_from[p] <= HIGH_BLOCK_NUMBER
      /\ 0 .. (start_from[p] - 1) \subseteq DOMAIN blocks
      /\ batch[p] \in Nat \ {0} /\ batch[p] <= rpc_batches_amount(p)
    BY <1>1 DEF RunInv, ChunkOf, BatchesArrived
<1>4. end_at(p)' = end_at(p) /\ rpc_batches_amount(p)' = rpc_batches_amount(p)
    BY <1>1 DEF end_at, rpc_batches_amount, number_of_blocks, last_batch_size
<1>5. BatchesArrived(p)'
    <2>1. end_at(p) \in Int /\ RPC_BATCH_MAX_SIZE \in Int
        BY <1>3, ChunkBounds, Parameters
    <2>2. Upper(end_at(p), RPC_BATCH_MAX_SIZE, 1) = end_at(p)
        BY <2>1 DEF Upper
    <2>3. (end_at(p) + 1) .. end_at(p) = {}
        BY <2>1
    <2>4. 1 <= rpc_batches_amount(p)
        BY <1>3, BatchBounds
    <2>5. Numbers(p)' = {}
        BY <1>1 DEF Numbers
    <2> QED
        BY <1>1, <1>4, <2>2, <2>3, <2>4, <2>5 DEF BatchesArrived
<1>6. ChunkOf(p)'
    BY <1>1, <1>3, <1>5 DEF ChunkOf
<1>7. HeadersOf(p)' /\ SeenOf(p)'
    BY <1>1 DEF HeadersOf, SeenOf
<1> QED
    BY <1>1, <1>2, <1>6, <1>7 DEF RunInv

LEMMA Dying ==
    ASSUME IInv, NEW p \in Process, Die(p)
    PROVE  TypeOK' /\ RunInv(p)' /\ blocks' = blocks
<1>1. TypeOK'
    BY DEF IInv, TypeOK, Die, Goto, local, Ended
<1>2. pc'[p] = "failed" /\ blocks' = blocks /\ all_results' = all_results
    BY DEF IInv, TypeOK, Die, Goto, local
<1>3. HeadersOf(p)'
    BY <1>2 DEF IInv, RunInv, HeadersOf
<1> QED
    BY <1>1, <1>2, <1>3 DEF RunInv, ChunkOf, SeenOf

LEMMA FetchBatch ==
    ASSUME IInv, NEW p \in Process, fetch_batch(p)
    PROVE  TypeOK' /\ RunInv(p)' /\ blocks' = blocks
<1> DEFINE amount == rpc_batches_amount(p)
           next == Upper(end_at(p), RPC_BATCH_MAX_SIZE, batch[p] + 1)
<1>1. TypeOK /\ RunInv(p)
    BY DEF IInv
<1>2. /\ pc[p] = "fetch"
      /\ UNCHANGED <<blocks, start_from, attempt, seen>>
    BY DEF fetch_batch
<1>3. /\ start_from[p] \in Nat /\ start_from[p] <= HIGH_BLOCK_NUMBER
      /\ 0 .. (start_from[p] - 1) \subseteq DOMAIN blocks
      /\ batch[p] \in Nat \ {0} /\ batch[p] <= amount
      /\ Numbers(p) = (Top(p) + 1) .. end_at(p)
    BY <1>1, <1>2 DEF TypeOK, RunInv, ChunkOf, BatchesArrived, Top
<1>4. /\ amount \in Nat
      /\ Top(p) \in Int /\ Low(p) \in Int
      /\ Low(p) <= Top(p) /\ start_from[p] <= Low(p) /\ Top(p) <= end_at(p)
      /\ batch[p] < amount => Low(p) = next + 1
      /\ batch[p] >= amount => Low(p) = start_from[p]
      /\ requests(p) = Low(p) .. Top(p)
    BY <1>3, BatchBounds
<1>5. end_at(p) \in Nat /\ end_at(p) <= HIGH_BLOCK_NUMBER
    BY <1>3, ChunkBounds
<1>6. requests(p) \in SUBSET Number
    <2> HIDE DEF amount, next
    <2> QED
        BY <1>3, <1>4, <1>5, Parameters DEF Number
<1>7. PICK results \in Answers(requests(p)) :
        all_results' = [all_results EXCEPT ![p] = @ \union {build_block_header(b) : b \in results}]
    BY DEF fetch_batch
<1> DEFINE headers == {build_block_header(b) : b \in results}
<1>8. /\ headers \subseteq Header
      /\ {h.number : h \in headers} = requests(p)
      /\ \A h \in headers : h.fields = OptionalKeys[h.number]
    BY <1>6, HeadersOfAnswers
<1>9. all_results'[p] = all_results[p] \union headers /\ all_results' \in [Process -> SUBSET Header]
    <2>1. headers \in SUBSET Header /\ all_results \in [Process -> SUBSET Header]
        BY <1>1, <1>8 DEF TypeOK
    <2> QED
        BY <2>1, <1>7
<1>10. Numbers(p)' = Low(p) .. end_at(p)
    <2>1. Numbers(p)' = Numbers(p) \union {h.number : h \in headers}
        BY <1>9 DEF Numbers
    <2>2. Numbers(p)' = ((Top(p) + 1) .. end_at(p)) \union (Low(p) .. Top(p))
        BY <2>1, <1>3, <1>4, <1>8
    <2> QED
        BY <2>2, <1>4, <1>5
<1>11. /\ end_at(p)' = end_at(p)
       /\ rpc_batches_amount(p)' = amount
    BY <1>2 DEF end_at, rpc_batches_amount, number_of_blocks, last_batch_size
<1>12. HeadersOf(p)'
    BY <1>1, <1>8, <1>9 DEF RunInv, HeadersOf
<1>13. CASE batch[p] < amount
    <2>1. batch' = [batch EXCEPT ![p] = batch[p] + 1] /\ pc' = pc
        BY <1>13 DEF fetch_batch
    <2>2. TypeOK'
        <3>1. batch[p] + 1 \in Nat \ {0}
            BY <1>3
        <3> QED
            BY <2>1, <3>1, <1>1, <1>2, <1>9 DEF TypeOK
    <2>3. batch'[p] = batch[p] + 1
        BY <2>1, <1>1 DEF TypeOK
    <2>4. batch'[p] <= amount
        <3> HIDE DEF amount
        <3> QED
            BY <2>3, <1>3, <1>4, <1>13
    <2>5. BatchesArrived(p)'
        BY <2>3, <2>4, <1>4, <1>10, <1>11, <1>13 DEF BatchesArrived
    <2>6. ChunkOf(p)' /\ SeenOf(p)'
        BY <2>1, <2>5, <1>2, <1>3 DEF ChunkOf, SeenOf
    <2> QED
        BY <2>2, <2>6, <1>2, <1>12 DEF RunInv
<1>14. CASE ~(batch[p] < amount)
    <2>1. batch' = batch /\ pc' = [pc EXCEPT ![p] = "insert"]
        BY <1>14 DEF fetch_batch, Goto
    <2>2. TypeOK'
        <3>1. "insert" \in Ended \union Running
            BY DEF Running
        <3> QED
            BY <2>1, <3>1, <1>1, <1>2, <1>9 DEF TypeOK
    <2>3. pc'[p] = "insert"
        BY <2>1, <1>1 DEF TypeOK
    <2>4. Low(p) = start_from[p]
        <3> HIDE DEF amount
        <3> QED
            BY <1>3, <1>4, <1>14
    <2>5. Numbers(p)' = start_from[p] .. end_at(p)
        BY <2>4, <1>10
    <2>6. ChunkOf(p)' /\ SeenOf(p)'
        BY <2>3, <2>5, <1>2, <1>3, <1>11 DEF ChunkOf, SeenOf
    <2> QED
        BY <2>2, <2>6, <1>2, <1>12 DEF RunInv
<1> QED
    BY <1>13, <1>14

(* An insertion leaves what is stored alone and adds what is fetched above *)
(* it, which is nothing where another run has been faster.                 *)
LEMMA Insertion ==
    ASSUME IInv, NEW p \in Process, insert_block_data(p)
    PROVE  \E low \in 0 .. (HIGH_BLOCK_NUMBER + 1), high \in 0 .. (HIGH_BLOCK_NUMBER + 1) :
            /\ DOMAIN blocks = 0 .. (low - 1)
            /\ DOMAIN blocks' = 0 .. (high - 1)
            /\ low <= high /\ high <= low + CHUNK_SIZE
            /\ end_at(p) + 1 <= high
            /\ blocks' \in [DOMAIN blocks' -> Header]
            /\ \A n \in DOMAIN blocks : blocks'[n] = blocks[n]
            /\ StoredHeadersHash'
<1>1. PICK top \in 0 .. (HIGH_BLOCK_NUMBER + 1) : DOMAIN blocks = 0 .. (top - 1)
    BY DEF IInv, StoredIsAnInitialSegment
<1>2. /\ start_from[p] \in Nat /\ start_from[p] <= HIGH_BLOCK_NUMBER
      /\ 0 .. (start_from[p] - 1) \subseteq DOMAIN blocks
      /\ Numbers(p) = start_from[p] .. end_at(p)
      /\ all_results[p] \subseteq Header
      /\ \A h \in all_results[p] : h.fields = OptionalKeys[h.number]
    BY DEF IInv, TypeOK, RunInv, ChunkOf, HeadersOf, insert_block_data
<1>3. /\ end_at(p) \in Nat /\ start_from[p] <= end_at(p)
      /\ end_at(p) <= HIGH_BLOCK_NUMBER /\ end_at(p) <= start_from[p] + CHUNK_SIZE - 1
    BY <1>2, ChunkBounds
<1>4. top \in Nat /\ start_from[p] <= top
    <2>1. top \in Nat
        BY Parameters
    <2>2. start_from[p] > top => top \in 0 .. (start_from[p] - 1) /\ top \notin 0 .. (top - 1)
        BY <2>1, <1>2
    <2> QED
        BY <2>1, <2>2, <1>1, <1>2
<1>5. PICK high \in {top, end_at(p) + 1} : top <= high /\ end_at(p) + 1 <= high
    BY <1>3, <1>4
<1>6. /\ high \in 0 .. (HIGH_BLOCK_NUMBER + 1)
      /\ high <= top + CHUNK_SIZE
    <2>1. /\ HIGH_BLOCK_NUMBER \in Nat /\ CHUNK_SIZE \in Nat \ {0} /\ high \in Nat
          /\ top <= HIGH_BLOCK_NUMBER + 1
        BY <1>3, <1>4, <1>5, Parameters
    <2>2. CASE high = top
        BY <2>1, <2>2, <1>4
    <2>3. CASE high = end_at(p) + 1
        BY <2>1, <2>3, <1>2, <1>3, <1>4
    <2> QED
        BY <2>2, <2>3, <1>5
<1>7. /\ DOMAIN blocks' = DOMAIN blocks \union Numbers(p)
      /\ \A n \in DOMAIN blocks : blocks'[n] = blocks[n]
      /\ \A n \in Numbers(p) \ DOMAIN blocks : blocks'[n] = Fetched(p)[n]
      /\ blocks' = [n \in DOMAIN blocks' |-> blocks'[n]]
    <2>1. DOMAIN Fetched(p) = Numbers(p)
        BY DEF Fetched, Numbers
    <2>2. blocks' = [n \in DOMAIN blocks \union DOMAIN Fetched(p) |->
                        IF n \in DOMAIN blocks THEN blocks[n] ELSE Fetched(p)[n]]
        BY DEF insert_block_data, insert_or_ignore
    <2> QED
        BY <2>1, <2>2
<1>8. DOMAIN blocks' = 0 .. (high - 1)
    <2>1. DOMAIN blocks' = (0 .. (top - 1)) \union (start_from[p] .. end_at(p))
        BY <1>1, <1>2, <1>7
    <2> QED
        BY <2>1, <1>2, <1>3, <1>4, <1>5
<1>9. ASSUME NEW n \in Numbers(p)
      PROVE  /\ Fetched(p)[n] \in Header
             /\ Fetched(p)[n].number = n
             /\ Fetched(p)[n].fields = OptionalKeys[n]
    <2>1. Fetched(p)[n] = CHOOSE h \in all_results[p] : h.number = n
        BY DEF Fetched, Numbers
    <2>2. \E h \in all_results[p] : h.number = n
        BY DEF Numbers
    <2>3. Fetched(p)[n] \in all_results[p] /\ Fetched(p)[n].number = n
        BY <2>1, <2>2
    <2> QED
        BY <2>3, <1>2
<1>10. ASSUME NEW n \in DOMAIN blocks'
       PROVE  /\ blocks'[n] \in Header
              /\ blocks'[n].number = n
              /\ blocks'[n].fields = OptionalKeys[n]
    <2>1. CASE n \in DOMAIN blocks
        BY <2>1, <1>7 DEF IInv, TypeOK, StoredHeadersHash
    <2>2. CASE n \notin DOMAIN blocks
        BY <2>2, <1>7, <1>9
    <2> QED
        BY <2>1, <2>2
<1>11. blocks' \in [DOMAIN blocks' -> Header]
    BY <1>7, <1>10
<1>12. StoredHeadersHash'
    BY <1>10 DEF StoredHeadersHash
<1> QED
    BY <1>1, <1>5, <1>6, <1>7, <1>8, <1>11, <1>12

LEMMA InsertBlockData ==
    ASSUME IInv, NEW p \in Process, insert_block_data(p)
    PROVE  IInv'
<1>1. PICK low \in 0 .. (HIGH_BLOCK_NUMBER + 1), high \in 0 .. (HIGH_BLOCK_NUMBER + 1) :
            /\ DOMAIN blocks = 0 .. (low - 1)
            /\ DOMAIN blocks' = 0 .. (high - 1)
            /\ low <= high
            /\ end_at(p) + 1 <= high
            /\ blocks' \in [DOMAIN blocks' -> Header]
            /\ StoredHeadersHash'
    BY Insertion
<1>2. low \in Nat /\ high \in Nat /\ high <= HIGH_BLOCK_NUMBER + 1
    BY Parameters
<1>3. /\ StartChunk(p, end_at(p) + 1) /\ seen' = seen
      /\ pc[p] = "insert"
    BY DEF insert_block_data
<1>4. end_at(p) \in Nat
    BY <1>3, ChunkBounds DEF IInv, TypeOK, RunInv, ChunkOf
<1>5. TypeOK'
    <2>1. /\ TypeOK /\ 1 \in 1 .. MAX_RETRIES /\ 1 \in Nat \ {0} /\ end_at(p) + 1 \in Nat
          /\ {"fetch", "last check"} \subseteq Ended \union Running
        BY <1>4, Parameters DEF IInv, Ended, Running
    <2>2. DOMAIN blocks' \subseteq Number
        BY <1>1, <1>2, Parameters DEF Number
    <2>3. /\ pc' \in [Process -> Ended \union Running]
          /\ start_from' \in [Process -> Nat]
          /\ attempt' \in [Process -> 1 .. MAX_RETRIES]
          /\ batch' \in [Process -> Nat \ {0}]
          /\ all_results' \in [Process -> SUBSET Header]
          /\ seen' \in [Process -> Number \X Number]
        BY <2>1, <1>3 DEF TypeOK, StartChunk, Goto
    <2>4. \A n \in DOMAIN blocks' : blocks'[n] \in Header
        BY <1>1
    <2> QED
        BY <2>2, <2>3, <2>4 DEF TypeOK
<1>6. StoredIsAnInitialSegment'
    BY <1>1 DEF StoredIsAnInitialSegment
<1>7. ASSUME NEW q \in Process
      PROVE  RunInv(q)'
    <2>1. CASE q = p
        <3>1. TypeOK /\ end_at(p) + 1 \in Nat
            BY <1>4 DEF IInv
        <3> DEFINE first == end_at(p) + 1
        <3>2. RunInv(p)'
            <4>1. 0 .. (first - 1) \subseteq DOMAIN blocks'
                BY <1>1, <1>2, <1>4
            <4>2. first \in Nat
                BY <3>1
            <4>3. StartChunk(p, first)
                BY <1>3
            <4> HIDE DEF first
            <4> QED
                BY <4>1, <4>2, <4>3, <3>1, ChunkStarted
        <3> QED
            BY <2>1, <3>2
    <2>2. CASE q # p
        <3>1. DOMAIN blocks \subseteq DOMAIN blocks'
            BY <1>1, <1>2
        <3>2. RunInv(q) /\ TypeOK /\ Step(p)
            BY DEF IInv, Step
        <3>3. SameRun(q)
            BY <2>2, <3>2, OtherRuns
        <3> QED
            BY <3>1, <3>2, <3>3, RunInvKept
    <2> QED
        BY <2>1, <2>2
<1> QED
    BY <1>1, <1>5, <1>6, <1>7 DEF IInv

-----------------------------------------------------------------------------
(* The next-state relation.                                                *)

LEMMA NextKeepsIInv == IInv /\ [Next]_vars => IInv'
<1> SUFFICES ASSUME IInv, [Next]_vars
             PROVE  IInv'
    OBVIOUS
<1>1. CASE UNCHANGED vars
    <2>1. /\ blocks' = blocks /\ pc' = pc /\ start_from' = start_from /\ attempt' = attempt
          /\ batch' = batch /\ all_results' = all_results /\ seen' = seen
        BY <1>1 DEF vars, local
    <2>2. \A p \in Process : RunInv(p)'
        BY <2>1, RunInvKept DEF IInv, SameRun
    <2> QED
        BY <2>1, <2>2 DEF IInv, TypeOK, StoredIsAnInitialSegment, StoredHeadersHash
<1>2. ASSUME NEW p \in Process, Step(p) \/ Fail(p)
      PROVE  IInv'
    <2>1. CASE setup_db(p)
        BY <2>1, <1>2, SetupDb, SameTable
    <2>2. CASE check_db_integrity(p)
        BY <2>2, <1>2, CheckDbIntegrity, SameTable
    <2>3. CASE resume(p)
        BY <2>3, <1>2, Resume, SameTable
    <2>4. CASE fetch_batch(p)
        BY <2>4, <1>2, FetchBatch, SameTable
    <2>5. CASE insert_block_data(p)
        BY <2>5, InsertBlockData
    <2>6. CASE fetch_fails(p)
        BY <2>6, <1>2, FetchFails, SameTable
    <2>7. CASE Die(p)
        BY <2>7, <1>2, Dying, SameTable
    <2> QED
        BY <1>2, <2>1, <2>2, <2>3, <2>4, <2>5, <2>6, <2>7 DEF Step, Fail
<1> QED
    BY <1>1, <1>2 DEF Next

THEOREM Inductive == Spec => []IInv
<1> QED
    BY Initially, NextKeepsIInv, PTL DEF Spec

(* The variables of every run have their types, and what the table holds   *)
(* is headers of blocks up to the one to fetch up to.                      *)
THEOREM TypeCorrect == Spec => []TypeOK
<1>1. IInv => TypeOK
    BY DEF IInv
<1> QED
    BY <1>1, Inductive, PTL

(* However many runs there are, and however they overtake each other, fail *)
(* and are started again: the table never has a hole.                      *)
THEOREM NoHoles == Spec => []StoredIsAnInitialSegment
<1>1. IInv => StoredIsAnInitialSegment
    BY DEF IInv
<1> QED
    BY <1>1, Inductive, PTL

(* Every stored header has the layout of its block.                        *)
THEOREM LayoutsMatch == Spec => []StoredHeadersHash
<1>1. IInv => StoredHeadersHash
    BY DEF IInv
<1> QED
    BY <1>1, Inductive, PTL

-----------------------------------------------------------------------------
(* The log that the table implements.                                      *)

LEMMA StepsOfTheLog == IInv /\ [Next]_vars => [Log!Extend]_blocks
<1> SUFFICES ASSUME IInv, Next, blocks' # blocks
             PROVE  Log!Extend
    BY DEF vars
<1>1. PICK p \in Process : Step(p) \/ Fail(p)
    BY DEF Next
<1>2. insert_block_data(p)
    BY <1>1, SetupDb, CheckDbIntegrity, Resume, FetchBatch, FetchFails, Dying DEF Step, Fail
<1>3. PICK low \in 0 .. (HIGH_BLOCK_NUMBER + 1), high \in 0 .. (HIGH_BLOCK_NUMBER + 1) :
            /\ DOMAIN blocks = 0 .. (low - 1)
            /\ DOMAIN blocks' = 0 .. (high - 1)
            /\ low <= high /\ high <= low + CHUNK_SIZE
            /\ blocks' \in [DOMAIN blocks' -> Header]
            /\ \A n \in DOMAIN blocks : blocks'[n] = blocks[n]
    BY <1>2, Insertion
<1>4. low \in Nat /\ high \in Nat
    BY Parameters
<1>5. Log!top = low
    <2>1. Cardinality(DOMAIN blocks) = low
        BY <1>3, SegmentFacts
    <2>2. Log!Cardinality(DOMAIN blocks) = Cardinality(DOMAIN blocks)
        BY DEF Log!Cardinality, Cardinality
    <2> QED
        BY <2>1, <2>2 DEF Log!top
<1>6. low # high
    <2>1. ASSUME low = high
          PROVE  blocks' = blocks
        BY <2>1, <1>3 DEF IInv
    <2> QED
        BY <2>1
<1> DEFINE k == high - low
<1>7. k \in 1 .. CHUNK_SIZE /\ high - 1 = low + k - 1
    BY <1>3, <1>4, <1>6, Parameters
<1>8. blocks' \in [0 .. (Log!top + k - 1) -> Header]
    <2>1. blocks' \in [0 .. (high - 1) -> Header]
        BY <1>3
    <2> HIDE DEF k
    <2> QED
        BY <2>1, <1>5, <1>7
<1> HIDE DEF k
<1> QED
    BY <1>3, <1>7, <1>8 DEF Log!Extend

(* The database implements the log its readers rely on: a chunk is added   *)
(* as a whole at the top, and nothing that is stored is ever changed.      *)
THEOREM Refinement == Spec => ImplementsHeaderLog
<1>1. Init => Log!Init
    BY DEF Init, Log!Init
<1> QED
    BY <1>1, Inductive, StepsOfTheLog, PTL DEF Spec, ImplementsHeaderLog, Log!Spec

(* Only a run that another one has overtaken between its two queries finds *)
(* the table corrupt.                                                      *)
THEOREM AlarmsAreRaces == Spec => AlarmMeansOvertaken
<1> DEFINE A == \A p \in Process :
                    pc[p] # "corrupt" /\ pc'[p] = "corrupt" => seen[p][2] < Max(DOMAIN blocks)
<1>1. IInv /\ [Next]_vars => [A]_vars
    <2> SUFFICES ASSUME IInv, Next, NEW p \in Process, pc[p] # "corrupt", pc'[p] = "corrupt"
                 PROVE  seen[p][2] < Max(DOMAIN blocks)
        OBVIOUS
    <2>1. PICK q \in Process : Step(q) \/ Fail(q)
        BY DEF Next
    <2>2. q = p
        BY <2>1, OtherRuns DEF IInv, SameRun
    <2>3. TypeOK
        BY DEF IInv
    <2>4. check_db_integrity(p)
        BY <2>1, <2>2, <2>3 DEF Step, Fail, setup_db, resume, fetch_batch, insert_block_data,
           fetch_fails, Die, StartChunk, Goto, TypeOK
    <2>5. /\ pc[p] \in {"first count", "last count"}
          /\ expected_count(p) # Cardinality(DOMAIN blocks)
        BY <2>3, <2>4 DEF check_db_integrity, ReadBounds, Count, Goto, TypeOK
    <2>6. seen[p][1] = 0 /\ seen[p][2] \in DOMAIN blocks
        BY <2>5 DEF IInv, RunInv, SeenOf
    <2>7. PICK top \in 0 .. (HIGH_BLOCK_NUMBER + 1) : DOMAIN blocks = 0 .. (top - 1)
        BY DEF IInv, StoredIsAnInitialSegment
    <2>8. top \in Nat /\ seen[p][2] \in 0 .. (top - 1)
        BY <2>6, <2>7, Parameters
    <2>9. top # 0 /\ Cardinality(DOMAIN blocks) = top /\ Max(DOMAIN blocks) = top - 1
        BY <2>6, <2>7, SegmentFacts
    <2>10. expected_count(p) = seen[p][2] + 1
        BY <2>6, <2>8 DEF expected_count
    <2>11. seen[p][2] + 1 # top
        BY <2>5, <2>9, <2>10
    <2> DEFINE highest == seen[p][2]
    <2>12. highest \in 0 .. (top - 1) /\ top \in Nat /\ highest + 1 # top
        BY <2>8, <2>11
    <2>13. highest < top - 1
        <3> HIDE DEF highest
        <3> QED
            BY <2>12
    <2> QED
        BY <2>9, <2>13
<1> QED
    BY <1>1, Inductive, PTL DEF Spec, AlarmMeansOvertaken

=============================================================================
