------------------------------ MODULE MmrProofs ------------------------------
(***************************************************************************)
(* Theorems about the MMR arithmetic of the Cairo program, for every table *)
(* of powers, every height of the forest and every bound.                  *)
(*                                                                         *)
(* The theorems rest on how a forest splits: its highest peak is a         *)
(* perfect tree over P(j) leaves, and right of it stands the forest of the *)
(* leaves that are left (SplitForest), so that the sizes add up, and the   *)
(* peaks too (PeaksAside).  The program's recursions take the same step,   *)
(* and the smallest number at which they differ from the forest would have *)
(* a smaller one.                                                          *)
(*                                                                         *)
(* Then what the program builds from these sizes: where the nodes stand    *)
(* (At), what hash each has over which leaves (TreeEquation, TreeIsLocal), *)
(* and that a root with its size determines the peaks (RootDetermines).    *)
(*                                                                         *)
(* And that the loops of the Python tools, which count from 0 and end      *)
(* where the size does, find the same (PyValidAgrees, PyHeightAgrees,      *)
(* PyPeaks), build the forest of any leaves when they go on from its peaks *)
(* (ExtendsForest), and count its nodes as they are (SizesAre).            *)
(***************************************************************************)
EXTENDS MCMmr, FiniteSetTheorems, SequenceTheorems, WellFoundedInduction, TLAPS

(* The table of powers of 2. *)
P(i) == pow2_array[i]

-----------------------------------------------------------------------------
(* Powers of 2.                                                            *)

(* Every nonempty set of natural numbers has a least one.                  *)
LEMMA SmallestExists ==
    ASSUME NEW T \in SUBSET Nat, T # {}
    PROVE  \E m \in T : \A k \in T : m <= k
<1>1. PICK m \in T : \A k \in T : ~(<<k, m>> \in OpToRel(<, Nat))
    BY WFMin, NatLessThanWellFounded
<1>2. \A k \in T : m <= k
    <2>1. \A k \in T : k \in Nat /\ m \in Nat /\ ~(k < m)
        BY <1>1 DEF OpToRel
    <2> QED
        BY <2>1
<1> QED
    BY <1>2

(* The entries of the table are positive, and large enough to bound their  *)
(* index.                                                                  *)
LEMMA PowTypes ==
    /\ MaxBits \in Nat /\ \A i \in 0 .. MaxBits : P(i) \in Nat \ {0} /\ i + 1 <= P(i)
    /\ P(0) = 1 /\ \A i \in 0 .. MaxBits - 1 : P(i + 1) = 2 * P(i)
<1> DEFINE Bad == {i \in 0 .. MaxBits : ~(P(i) \in Nat \ {0} /\ i + 1 <= P(i))}
<1>1. /\ MaxBits \in Nat /\ P(0) = 1
      /\ \A i \in 0 .. MaxBits - 1 : P(i + 1) = 2 * P(i)
      /\ \A i \in 0 .. MaxBits : P(i) \in Nat
    BY Pow2Assumption DEF P, IsPow2Array
<1>2. Bad = {}
    <2> SUFFICES ASSUME Bad # {}
                 PROVE  FALSE
        OBVIOUS
    <2>1. PICK m \in Bad : \A k \in Bad : m <= k
        <3>1. Bad \in SUBSET Nat
            BY <1>1
        <3> QED
            BY <3>1, SmallestExists
    <2>2. m # 0
        BY <1>1, <2>1
    <2>3. m - 1 \in 0 .. MaxBits - 1 /\ (m - 1) + 1 = m /\ m - 1 \notin Bad
        BY <1>1, <2>1, <2>2
    <2>4. P(m) = 2 * P(m - 1) /\ P(m - 1) \in Nat \ {0} /\ (m - 1) + 1 <= P(m - 1)
        BY <1>1, <2>3
    <2>5. P(m) \in Nat \ {0} /\ m + 1 <= P(m)
        BY <1>1, <2>3, <2>4
    <2> QED
        BY <2>1, <2>5
<1> QED
    BY <1>1, <1>2

(* 2^i = 2^(i - j) * 2^j. *)
LEMMA PowProduct ==
    ASSUME NEW i \in 0 .. MaxBits, NEW j \in 0 .. i
    PROVE  P(i) = P(i - j) * P(j)
<1> DEFINE Bad == {k \in 0 .. i : P(i) # P(i - k) * P(k)}
<1>1. i \in Nat /\ i <= MaxBits /\ MaxBits \in Nat
    BY PowTypes
<1>2. Bad = {}
    <2> SUFFICES ASSUME Bad # {}
                 PROVE  FALSE
        OBVIOUS
    <2>1. PICK m \in Bad : \A k \in Bad : m <= k
        <3>1. Bad \in SUBSET Nat
            BY <1>1
        <3> QED
            BY <3>1, SmallestExists
    <2>2. m # 0
        <3>1. i - 0 = i /\ P(i) * 1 = P(i)
            BY <1>1, PowTypes
        <3> QED
            BY <2>1, <3>1, PowTypes
    <2>3. /\ m - 1 \in 0 .. MaxBits - 1 /\ (m - 1) + 1 = m /\ m - 1 \notin Bad /\ m - 1 \in 0 .. i
          /\ i - m \in 0 .. MaxBits - 1 /\ (i - m) + 1 = i - (m - 1)
          /\ i - m \in 0 .. MaxBits /\ m - 1 \in 0 .. MaxBits
        BY <1>1, <2>1, <2>2
    <2>4. P(m) = 2 * P(m - 1) /\ P(i - (m - 1)) = 2 * P(i - m) /\ P(i) = P(i - (m - 1)) * P(m - 1)
        <3>1. P((m - 1) + 1) = 2 * P(m - 1) /\ P((i - m) + 1) = 2 * P(i - m)
            BY <2>3, PowTypes
        <3> QED
            BY <2>3, <3>1
    <2>5. P(i - m) \in Nat /\ P(m - 1) \in Nat
        BY <2>3, PowTypes
    <2>6. P(i) = P(i - m) * P(m)
        BY <2>4, <2>5
    <2> QED
        BY <2>1, <2>6
<1> QED
    BY <1>2

(* The table increases. *)
LEMMA PowOrder ==
    ASSUME NEW i \in 0 .. MaxBits, NEW j \in 0 .. MaxBits
    PROVE  i < j <=> P(i) < P(j)
<1>1. ASSUME NEW a \in 0 .. MaxBits, NEW b \in 0 .. MaxBits, a < b
      PROVE  P(a) < P(b)
    <2>1. a \in 0 .. b /\ b - a \in 0 .. MaxBits /\ b - a >= 1
        BY <1>1, PowTypes
    <2>2. P(b) = P(b - a) * P(a)
        BY <2>1, PowProduct
    <2>3. P(b - a) \in Nat /\ P(b - a) >= 2 /\ P(a) \in Nat \ {0} /\ P(b) \in Nat
        BY <2>1, PowTypes
    <2> DEFINE p == P(b - a)
               q == P(a)
    <2>4. p * q >= 2 * q
        <3> HIDE DEF p, q
        <3>1. p \in Nat /\ p >= 2 /\ q \in Nat \ {0}
            BY <2>3 DEF p, q
        <3>2. (p - 2) * q \in Nat /\ p * q = (p - 2) * q + 2 * q
            BY <3>1
        <3> QED
            BY <3>1, <3>2
    <2> QED
        BY <2>2, <2>3, <2>4
<1>2. i < j \/ i = j \/ j < i
    BY PowTypes
<1>3. P(i) \in Nat /\ P(j) \in Nat
    BY PowTypes
<1> QED
    BY <1>1, <1>2, <1>3

(* The leaves of the perfect trees are counted by the table.               *)
LEMMA WidthIsPow == \A h \in 0 .. MaxHeight : Width[h] = P(h)
<1> DEFINE Def(f) == f = [h \in 0 .. MaxHeight |-> IF h = 0 THEN 1 ELSE 2 * f[h - 1]]
           table == [h \in 0 .. MaxHeight |-> P(h)]
<1>0. MaxHeight \in Nat /\ MaxHeight <= MaxBits /\ MaxBits \in Nat
    BY HeightAssumption, BoundAssumption, PowTypes
<1>1. Def(table)
    <2>1. ASSUME NEW h \in 0 .. MaxHeight
          PROVE  P(h) = IF h = 0 THEN 1 ELSE 2 * table[h - 1]
        <3>1. CASE h = 0
            BY <3>1, PowTypes
        <3>2. CASE h # 0
            <4>1. h - 1 \in 0 .. MaxBits - 1 /\ h - 1 \in 0 .. MaxHeight /\ (h - 1) + 1 = h
                BY <1>0, <3>2
            <4>2. P((h - 1) + 1) = 2 * P(h - 1)
                BY <4>1, PowTypes
            <4> QED
                BY <3>2, <4>1, <4>2
        <3> QED
            BY <3>1, <3>2
    <2> QED
        BY <2>1
<1>2. Def(Width)
    <2>1. Width = CHOOSE f : Def(f)
        BY DEF Width
    <2>2. Def(CHOOSE f : Def(f))
        BY <1>1
    <2> QED
        BY <2>1, <2>2
<1> DEFINE Bad == {h \in 0 .. MaxHeight : Width[h] # P(h)}
<1>3. Bad = {}
    <2> SUFFICES ASSUME Bad # {}
                 PROVE  FALSE
        OBVIOUS
    <2>1. PICK m \in Bad : \A k \in Bad : m <= k
        <3>1. Bad \in SUBSET Nat
            BY <1>0
        <3> QED
            BY <3>1, SmallestExists
    <2>2. Width[m] = IF m = 0 THEN 1 ELSE 2 * Width[m - 1]
        BY <1>2, <2>1
    <2>3. m # 0
        BY <2>1, <2>2, PowTypes
    <2>4. /\ m - 1 \in 0 .. MaxBits - 1 /\ (m - 1) + 1 = m
          /\ m - 1 \in 0 .. MaxHeight /\ m - 1 \notin Bad
        BY <1>0, <2>1, <2>3
    <2>5. P((m - 1) + 1) = 2 * P(m - 1)
        BY <2>4, PowTypes
    <2> QED
        BY <2>1, <2>2, <2>3, <2>4, <2>5
<1> QED
    BY <1>3

(* The range checks of get_felt_bitlength leave the length that the table  *)
(* gives, and it alone.                                                    *)
LEMMA BitLength ==
    ASSUME NEW b \in 1 .. MaxBits, NEW n \in Nat, P(b - 1) <= n, n < P(b)
    PROVE  get_felt_bitlength(n) = {b}
<1>1. /\ b \in 0 .. MaxBits /\ b - 1 \in 0 .. MaxBits /\ MaxBits \in Nat
      /\ P(b) \in Nat /\ P(b - 1) \in Nat
    BY PowTypes
<1>2. \A c \in 1 .. MaxBits : /\ c \in 0 .. MaxBits /\ c - 1 \in 0 .. MaxBits
                              /\ P(c) \in Nat /\ P(c - 1) \in Nat
    BY PowTypes
<1>3. get_felt_bitlength(n) = {c \in 1 .. MaxBits : n < P(c) /\ P(c - 1) <= n}
    BY <1>2 DEF get_felt_bitlength, RangeCheck, P
<1>4. ASSUME NEW c \in 1 .. MaxBits, n < P(c), P(c - 1) <= n
      PROVE  c = b
    <2>1. P(c - 1) < P(b) /\ P(b - 1) < P(c)
        BY <1>1, <1>2, <1>4
    <2>2. c - 1 < b /\ b - 1 < c
        BY <1>1, <1>2, <2>1, PowOrder
    <2> QED
        BY <1>1, <2>2
<1> QED
    BY <1>3, <1>4

(* get_felt_bitlength returns one value: the range checks leave the prover *)
(* no choice of the hint, whatever the number.                             *)
THEOREM BitLengthIsUnique ==
    \A n \in Int : \A b, c \in get_felt_bitlength(n) : b = c
<1>1. ASSUME NEW n \in Int, NEW b \in get_felt_bitlength(n), NEW c \in get_felt_bitlength(n)
      PROVE  b \in 1 .. MaxBits /\ ~(b < c)
    <2>1. /\ b \in 1 .. MaxBits /\ b \in 0 .. MaxBits /\ P(b) \in Nat
          /\ c \in 1 .. MaxBits /\ c - 1 \in 0 .. MaxBits /\ P(c - 1) \in Nat
        BY PowTypes DEF get_felt_bitlength
    <2>2. n < P(b) /\ P(c - 1) <= n
        BY <2>1 DEF get_felt_bitlength, RangeCheck, P
    <2>3. P(c - 1) < P(b)
        BY <2>1, <2>2
    <2>4. c - 1 < b
        BY <2>1, <2>3, PowOrder
    <2> QED
        BY <2>1, <2>4
<1>2. ASSUME NEW n \in Int, NEW b \in get_felt_bitlength(n), NEW c \in get_felt_bitlength(n)
      PROVE  b = c
    <2>1. b \in 1 .. MaxBits /\ c \in 1 .. MaxBits /\ ~(b < c) /\ ~(c < b)
        BY <1>1
    <2> QED
        BY <2>1
<1> QED
    BY <1>2

(* A positive number below an entry of the table has a length.             *)
LEMMA BitLengthExists ==
    ASSUME NEW j \in 0 .. MaxBits, NEW n \in Nat \ {0}, n < P(j)
    PROVE  \E b \in 1 .. j : P(b - 1) <= n /\ n < P(b)
<1> DEFINE Above == {b \in 0 .. j : n < P(b)}
<1>1. j \in Nat /\ j <= MaxBits /\ MaxBits \in Nat
    BY PowTypes
<1>2. PICK b \in Above : \A k \in Above : b <= k
    <2>1. Above \in SUBSET Nat /\ j \in Above
        BY <1>1
    <2> QED
        BY <2>1, SmallestExists
<1>3. b # 0
    BY <1>2, PowTypes
<1>4. b \in 1 .. j /\ b - 1 \in 0 .. j /\ b - 1 \notin Above /\ b - 1 \in 0 .. MaxBits
    BY <1>1, <1>2, <1>3
<1>5. P(b - 1) <= n
    <2>1. P(b - 1) \in Nat
        BY <1>4, PowTypes
    <2> QED
        BY <1>4, <2>1
<1> QED
    BY <1>2, <1>4, <1>5

-----------------------------------------------------------------------------
(* Recursion.                                                              *)

(* Step computes what a function returns for an argument from its values   *)
(* at arguments of a smaller size.                                         *)
LooksDown(D, size, R, Step) ==
    /\ size \in [D -> Nat] /\ R # {} /\ Step \in [D \X [D -> R] -> R]
    /\ \A d \in D : \A f, g \in [D -> R] :
           (\A c \in D : size[c] < size[d] => f[c] = g[c]) => Step[<<d, f>>] = Step[<<d, g>>]

Follows(f, D, R, Step) == f \in [D -> R] /\ \A d \in D : f[d] = Step[<<d, f>>]

(* Then a function exists that is defined by that recursion.               *)
LEMMA RecursionExists ==
    ASSUME NEW D, NEW size, NEW R, NEW Step, LooksDown(D, size, R, Step)
    PROVE  \E f : Follows(f, D, R, Step)
<1>0. size \in [D -> Nat] /\ R # {} /\ Step \in [D \X [D -> R] -> R]
    BY DEF LooksDown
<1> USE <1>0
<1> DEFINE Upto(f, n) == \A d \in D : size[d] < n => f[d] = Step[<<d, f>>]
           Bad == {n \in Nat : ~\E f \in [D -> R] : Upto(f, n)}
<1>1. ASSUME NEW n \in Nat, NEW f \in [D -> R], NEW g \in [D -> R], Upto(f, n), Upto(g, n),
             NEW d \in D, size[d] < n
      PROVE  f[d] = g[d]
    <2> DEFINE Differ == {i \in Nat : \E c \in D : size[c] = i /\ size[c] < n /\ f[c] # g[c]}
    <2> SUFFICES ASSUME f[d] # g[d]
                 PROVE  FALSE
        OBVIOUS
    <2>1. PICK m \in Differ : \A i \in Differ : m <= i
        <3>1. Differ \in SUBSET Nat /\ size[d] \in Differ
            BY <1>1
        <3> HIDE DEF Differ
        <3> QED
            BY <3>1, SmallestExists
    <2>2. PICK c \in D : size[c] = m /\ size[c] < n /\ f[c] # g[c]
        BY <2>1
    <2>3. ASSUME NEW e \in D, size[e] < size[c]
          PROVE  f[e] = g[e]
        <3>1. size[e] < n /\ ~(m <= size[e])
            BY <2>2, <2>3
        <3>2. size[e] \notin Differ
            <4> HIDE DEF Differ
            <4> QED
                BY <2>1, <3>1
        <3> QED
            BY <3>1, <3>2
    <2> HIDE DEF Differ
    <2>4. Step[<<c, f>>] = Step[<<c, g>>]
        BY <2>3 DEF LooksDown
    <2> QED
        BY <1>1, <2>2, <2>4
<1>2. Bad = {}
    <2> SUFFICES ASSUME Bad # {}
                 PROVE  FALSE
        OBVIOUS
    <2>1. PICK m \in Bad : \A k \in Bad : m <= k
        <3>1. Bad \in SUBSET Nat
            OBVIOUS
        <3> HIDE DEF Bad
        <3> QED
            BY <3>1, SmallestExists
    <2>2. m \in Nat
        BY <2>1
    <2>3. m # 0
        <3> SUFFICES ASSUME m = 0
                     PROVE  FALSE
            OBVIOUS
        <3>1. PICK r \in R : TRUE
            OBVIOUS
        <3>2. [d \in D |-> r] \in [D -> R] /\ \A d \in D : ~(size[d] < 0)
            OBVIOUS
        <3>3. Upto([d \in D |-> r], 0)
            BY <3>2
        <3> HIDE DEF Upto
        <3> QED
            BY <2>1, <3>2, <3>3
    <2>4. m - 1 \in Nat /\ m - 1 \notin Bad
        <3>1. m - 1 \in Nat /\ ~(m <= m - 1)
            BY <2>2, <2>3
        <3> HIDE DEF Bad
        <3> QED
            BY <2>1, <3>1
    <2>5. PICK f \in [D -> R] : Upto(f, m - 1)
        BY <2>4
    <2> DEFINE g == [d \in D |-> IF size[d] = m - 1 THEN Step[<<d, f>>] ELSE f[d]]
    <2>6. g \in [D -> R]
        OBVIOUS
    <2>7. \A d \in D : g[d] = IF size[d] = m - 1 THEN Step[<<d, f>>] ELSE f[d]
        OBVIOUS
    <2> HIDE DEF g
    <2>8. ASSUME NEW d \in D, size[d] < m
          PROVE  g[d] = Step[<<d, g>>]
        <3>1. \A c \in D : size[c] < size[d] => g[c] = f[c]
            <4>1. \A c \in D : size[c] < size[d] => size[c] # m - 1
                <5>1. \A i, k \in Nat : i < k /\ k < m => i # m - 1
                    BY <2>2
                <5> QED
                    BY <2>8, <5>1
            <4> QED
                BY <2>7, <4>1
        <3>2. Step[<<d, g>>] = Step[<<d, f>>]
            BY <2>6, <3>1 DEF LooksDown
        <3>3. size[d] = m - 1 \/ (size[d] < m - 1 /\ size[d] # m - 1)
            <4>1. \A i, k \in Nat : i < k => i = k - 1 \/ (i < k - 1 /\ i # k - 1)
                OBVIOUS
            <4> QED
                BY <2>2, <2>8, <4>1
        <3> QED
            BY <2>5, <2>7, <3>2, <3>3
    <2> QED
        BY <2>1, <2>6, <2>8
<1> DEFINE part == [n \in Nat |-> CHOOSE f \in [D -> R] : Upto(f, n)]
           whole == [d \in D |-> part[size[d] + 1][d]]
<1>3. \A n \in Nat : part[n] \in [D -> R] /\ Upto(part[n], n)
    <2>1. \A n \in Nat : \E f \in [D -> R] : Upto(f, n)
        BY <1>2
    <2> QED
        BY <2>1
<1>4. whole \in [D -> R]
    <2>1. \A d \in D : size[d] + 1 \in Nat
        OBVIOUS
    <2>2. \A d \in D : part[size[d] + 1] \in [D -> R]
        <3> HIDE DEF part
        <3> QED
            BY <1>3, <2>1
    <2>3. \A d \in D : part[size[d] + 1][d] \in R
        <3> HIDE DEF part
        <3> QED
            BY <2>2
    <2> HIDE DEF part
    <2> QED
        BY <2>3
<1>5. ASSUME NEW d \in D
      PROVE  whole[d] = Step[<<d, whole>>]
    <2> DEFINE n == size[d] + 1
    <2>1. ASSUME NEW c \in D, size[c] < size[d]
          PROVE  whole[c] = part[n][c]
        <3> DEFINE k == size[c] + 1
        <3>1. k \in Nat /\ n \in Nat /\ size[c] < k /\ \A e \in D : size[e] < k => size[e] < n
            BY <2>1
        <3>2. whole[c] = part[k][c]
            OBVIOUS
        <3> HIDE DEF k, n, part, whole
        <3>3. Upto(part[n], k) /\ Upto(part[k], k)
            BY <1>3, <3>1
        <3> HIDE DEF Upto
        <3>4. part[k][c] = part[n][c]
            BY <1>1, <1>3, <3>1, <3>3
        <3> QED
            BY <3>2, <3>4
    <2>2. n \in Nat /\ size[d] < n /\ whole[d] = part[n][d]
        OBVIOUS
    <2> HIDE DEF whole, part, n
    <2>3. Step[<<d, whole>>] = Step[<<d, part[n]>>]
        BY <1>3, <1>4, <2>1, <2>2 DEF LooksDown
    <2>4. part[n][d] = Step[<<d, part[n]>>]
        BY <1>3, <2>2
    <2> QED
        BY <2>2, <2>3, <2>4
<1> QED
    BY <1>4, <1>5 DEF Follows

(* A jump to the left leads to a smaller position.                         *)
LEMMA JumpsLeft ==
    ASSUME NEW n \in Nat, NEW b \in 1 .. MaxBits, b \in get_felt_bitlength(n),
           n # pow2_array[b] - 1
    PROVE  JumpLeft(n, b) \in 0 .. n - 1
<1>1. /\ b - 1 \in 0 .. MaxBits - 1 /\ b - 1 \in 0 .. MaxBits /\ (b - 1) + 1 = b
      /\ b \in 0 .. MaxBits
    BY PowTypes
<1>2. P(b - 1) <= n /\ n < P(b) /\ P(b) \in Nat /\ P(b - 1) \in Nat /\ P(b) = 2 * P(b - 1)
    <2>1. P((b - 1) + 1) = 2 * P(b - 1) /\ P(b) \in Nat /\ P(b - 1) \in Nat
        BY <1>1, PowTypes
    <2> QED
        BY <1>1, <2>1 DEF get_felt_bitlength, RangeCheck, P
<1>3. P(b - 1) > 1
    <2>1. CASE b = 1
        <3>1. P(0) = 1 /\ P(b) = 2
            BY <1>2, <2>1, PowTypes
        <3>2. n = 1
            BY <1>2, <2>1, <3>1
        <3> QED
            BY <3>1, <3>2 DEF P
    <2>2. CASE b # 1
        <3>1. (b - 1) + 1 <= P(b - 1) /\ b >= 2
            BY <1>1, <2>2, PowTypes
        <3> QED
            BY <1>2, <3>1
    <2> QED
        BY <2>1, <2>2
<1> QED
    BY <1>2, <1>3 DEF JumpLeft, P

(* compute_height satisfies its recursion: the jumps go to smaller         *)
(* positions.                                                              *)
LEMMA HeightEquation ==
    \A n \in Nat : compute_height[n] =
        UNION { IF n = P(b) - 1 THEN {b - 1}
                ELSE IF b \in get_felt_bitlength(n) THEN compute_height[JumpLeft(n, b)]
                     ELSE {}
                : b \in 1 .. MaxBits }
<1> DEFINE Value(n, f) ==
               UNION { IF n = pow2_array[b] - 1 THEN {b - 1}
                       ELSE IF b \in get_felt_bitlength(n) THEN f[JumpLeft(n, b)] ELSE {}
                       : b \in 1 .. MaxBits }
           Def(f) == f = [n \in Nat |-> Value(n, f)]
           R == SUBSET Int
           Step == [a \in Nat \X [Nat -> R] |-> Value(a[1], a[2])]
<1>1. ASSUME NEW n \in Nat, NEW b \in 1 .. MaxBits, b \in get_felt_bitlength(n),
             n # pow2_array[b] - 1
      PROVE  JumpLeft(n, b) \in 0 .. n - 1
    BY <1>1, JumpsLeft
<1>2. ASSUME NEW n \in Nat, NEW f \in [Nat -> R]
      PROVE  Value(n, f) \in R
    <2>1. ASSUME NEW b \in 1 .. MaxBits
          PROVE  (IF n = pow2_array[b] - 1 THEN {b - 1}
                  ELSE IF b \in get_felt_bitlength(n) THEN f[JumpLeft(n, b)] ELSE {}) \subseteq Int
        <3>1. CASE n # pow2_array[b] - 1 /\ b \in get_felt_bitlength(n)
            <4>1. JumpLeft(n, b) \in Nat
                BY <1>1, <3>1
            <4> QED
                BY <3>1, <4>1
        <3> QED
            BY <3>1
    <2> QED
        BY <2>1
<1>3. Step \in [Nat \X [Nat -> R] -> R]
    <2> HIDE DEF Value, R
    <2> QED
        BY <1>2
<1>4. ASSUME NEW n \in Nat, NEW f \in [Nat -> R], NEW g \in [Nat -> R],
             \A k \in 0 .. n - 1 : f[k] = g[k]
      PROVE  Step[<<n, f>>] = Step[<<n, g>>]
    <2>1. \A b \in 1 .. MaxBits :
            (IF n = pow2_array[b] - 1 THEN {b - 1}
             ELSE IF b \in get_felt_bitlength(n) THEN f[JumpLeft(n, b)] ELSE {})
            = (IF n = pow2_array[b] - 1 THEN {b - 1}
               ELSE IF b \in get_felt_bitlength(n) THEN g[JumpLeft(n, b)] ELSE {})
        BY <1>1, <1>4
    <2>2. Value(n, f) = Value(n, g)
        BY <2>1
    <2> HIDE DEF Value, R
    <2> QED
        BY <2>2
<1>5. \E f \in [Nat -> R] : \A n \in Nat : f[n] = Step[<<n, f>>]
    <2> DEFINE D == Nat
               size == [n \in D |-> n]
    <2>0. R # {} /\ size \in [D -> Nat]
        OBVIOUS
    <2>1. Step \in [D \X [D -> R] -> R]
        <3> HIDE DEF R, Step
        <3> QED
            BY <1>3
    <2>2. LooksDown(D, size, R, Step)
        <3>1. \A n \in Nat : \A k \in 0 .. n - 1 : k \in Nat /\ size[k] < size[n]
            OBVIOUS
        <3>2. \A n \in D : \A f, g \in [D -> R] :
               (\A c \in D : size[c] < size[n] => f[c] = g[c]) => Step[<<n, f>>] = Step[<<n, g>>]
            <4> HIDE DEF R, Step
            <4> QED
                BY <1>4, <3>1
        <3> HIDE DEF R, Step, D, size
        <3> QED
            BY <2>0, <2>1, <3>2 DEF LooksDown
    <2> HIDE DEF R, Step, size, D
    <2>3. \E f : Follows(f, D, R, Step)
        BY <2>2, RecursionExists
    <2> QED
        BY <2>3 DEF D, Follows
<1>6. \E f : Def(f)
    <2>1. PICK f \in [Nat -> R] : \A n \in Nat : f[n] = Step[<<n, f>>]
        BY <1>5
    <2> HIDE DEF Value, R
    <2>2. \A n \in Nat : Step[<<n, f>>] = Value(n, f)
        OBVIOUS
    <2>3. f = [n \in Nat |-> Value(n, f)]
        BY <2>1, <2>2
    <2> QED
        BY <2>3
<1>7. Def(compute_height)
    <2>1. compute_height = CHOOSE f : Def(f)
        BY DEF compute_height
    <2> HIDE DEF Def
    <2> QED
        BY <1>6, <2>1
<1> QED
    BY <1>7 DEF P

(* It ends at a position that is all ones in binary.                       *)
LEMMA HeightOfAllOnes ==
    ASSUME NEW b \in 1 .. MaxBits
    PROVE  compute_height[P(b) - 1] = {b - 1}
<1> DEFINE n == P(b) - 1
<1>0. b \in 0 .. MaxBits /\ b - 1 \in 0 .. MaxBits - 1 /\ (b - 1) + 1 = b /\ b - 1 \in 0 .. MaxBits
    BY PowTypes
<1>1. n \in Nat /\ P(b - 1) <= n /\ n < P(b) /\ P(b) \in Nat
    <2>1. P((b - 1) + 1) = 2 * P(b - 1) /\ P(b - 1) \in Nat \ {0}
        BY <1>0, PowTypes
    <2> QED
        BY <1>0, <2>1
<1>2. get_felt_bitlength(n) = {b}
    BY <1>1, BitLength
<1>3. ASSUME NEW c \in 1 .. MaxBits, n = P(c) - 1
      PROVE  c = b
    <2>1. c \in 0 .. MaxBits /\ P(c) \in Nat /\ P(c) = P(b)
        BY <1>1, <1>3, PowTypes
    <2>2. ~(c < b) /\ ~(b < c)
        BY <1>0, <1>1, <2>1, PowOrder
    <2> QED
        BY <2>2
<1> DEFINE Results(c) ==
               IF n = P(c) - 1 THEN {c - 1}
               ELSE IF c \in get_felt_bitlength(n) THEN compute_height[JumpLeft(n, c)] ELSE {}
<1>4. \A c \in 1 .. MaxBits : Results(c) = IF c = b THEN {b - 1} ELSE {}
    <2> HIDE DEF n
    <2> QED
        BY <1>2, <1>3 DEF n
<1>5. compute_height[n] = UNION {Results(c) : c \in 1 .. MaxBits}
    BY <1>1, HeightEquation
<1> HIDE DEF n, Results
<1>6. compute_height[n] = {b - 1}
    BY <1>4, <1>5
<1> QED
    BY <1>6 DEF n

(* At another position it jumps left, for the one bit length there is.     *)
LEMMA HeightJumps ==
    ASSUME NEW b \in 1 .. MaxBits, NEW n \in Nat, P(b - 1) <= n, n < P(b) - 1
    PROVE  compute_height[n] = compute_height[n - P(b - 1) + 1]
<1>0. b \in 0 .. MaxBits /\ b - 1 \in 0 .. MaxBits /\ P(b) \in Nat /\ P(b - 1) \in Nat
    BY PowTypes
<1>1. get_felt_bitlength(n) = {b}
    <2>1. n < P(b)
        BY <1>0
    <2> QED
        BY <2>1, BitLength
<1>2. ASSUME NEW c \in 1 .. MaxBits
      PROVE  n # P(c) - 1
    <2>1. c \in 0 .. MaxBits /\ P(c) \in Nat
        BY PowTypes
    <2> SUFFICES ASSUME n = P(c) - 1
                 PROVE  FALSE
        OBVIOUS
    <2>2. P(b - 1) < P(c) /\ P(c) < P(b)
        BY <1>0, <2>1
    <2>3. b - 1 < c /\ c < b
        BY <1>0, <2>1, <2>2, PowOrder
    <2> QED
        BY <2>3
<1> DEFINE Results(c) ==
               IF n = P(c) - 1 THEN {c - 1}
               ELSE IF c \in get_felt_bitlength(n) THEN compute_height[JumpLeft(n, c)] ELSE {}
<1>3. \A c \in 1 .. MaxBits :
        Results(c) = IF c = b THEN compute_height[JumpLeft(n, b)] ELSE {}
    BY <1>1, <1>2
<1>4. compute_height[n] = UNION {Results(c) : c \in 1 .. MaxBits}
    BY HeightEquation
<1> HIDE DEF Results
<1>5. compute_height[n] = compute_height[JumpLeft(n, b)]
    BY <1>3, <1>4
<1> QED
    BY <1>5 DEF JumpLeft, P

-----------------------------------------------------------------------------
(* Sizes.                                                                  *)

(* The heights that occur, and their entries in the table.                 *)
LEMMA Heights ==
    /\ MaxHeight \in Nat /\ MaxBits \in Nat /\ MaxHeight + 2 <= MaxBits
    /\ \A h \in 0 .. MaxHeight + 2 : h \in 0 .. MaxBits /\ P(h) \in Nat \ {0}
    /\ \A h \in 0 .. MaxHeight + 1 : P(h + 1) = 2 * P(h)
BY HeightAssumption, BoundAssumption, PowTypes

(* Whether a subtree stands in a forest. *)
LEMMA InForest ==
    ASSUME NEW n \in Nat, NEW h \in 0 .. MaxHeight, NEW i \in Int
    PROVE  <<h, i>> \in Subtrees(n) <=> i >= 1 /\ i * P(h) <= n
<1>1. P(h) \in Nat \ {0}
    BY Heights
<1>2. i >= 1 /\ i * P(h) <= n => i \in 1 .. n
    <2> SUFFICES ASSUME i >= 1, i * P(h) <= n
                 PROVE  i <= n
        OBVIOUS
    <2> DEFINE p == P(h)
    <2>1. i * p = i + i * (p - 1) /\ i * (p - 1) \in Nat
        <3>1. p \in Nat \ {0}
            BY <1>1
        <3> HIDE DEF p
        <3> QED
            BY <3>1
    <2> DEFINE q == i * (p - 1)
    <2>2. i + q <= n /\ q \in Nat
        BY <2>1
    <2> HIDE DEF q
    <2> QED
        BY <2>2
<1>3. LastLeaf(<<h, i>>) = i * P(h)
    BY WidthIsPow DEF LastLeaf
<1> QED
    BY <1>2, <1>3 DEF Subtrees

(* A forest has finitely many subtrees. *)
LEMMA ForestFinite ==
    ASSUME NEW n \in Nat
    PROVE  IsFiniteSet(Subtrees(n)) /\ MmrSize(n) \in Nat
<1>1. IsFiniteSet(0 .. MaxHeight) /\ IsFiniteSet(1 .. n)
    BY FS_Interval, Heights
<1>2. IsFiniteSet((0 .. MaxHeight) \X (1 .. n))
    BY <1>1, FS_Product
<1>3. Subtrees(n) \in SUBSET ((0 .. MaxHeight) \X (1 .. n))
    BY DEF Subtrees
<1> QED
    BY <1>2, <1>3, FS_Subset, FS_CardinalityType DEF MmrSize

(* More leaves, no fewer nodes. *)
LEMMA SizeGrows ==
    ASSUME NEW n \in Nat, NEW m \in 0 .. n
    PROVE  MmrSize(m) <= MmrSize(n)
<1>1. Subtrees(m) \in SUBSET Subtrees(n)
    <2>1. ASSUME NEW t \in Subtrees(m)
          PROVE  t \in Subtrees(n)
        <3>1. t \in (0 .. MaxHeight) \X (1 .. m) /\ LastLeaf(t) <= m
            BY DEF Subtrees
        <3>2. t[1] \in 0 .. MaxHeight /\ t[2] \in 1 .. m
            BY <3>1
        <3>3. LastLeaf(t) \in Int
            <4>1. Width[t[1]] \in Nat
                BY <3>2, WidthIsPow, Heights
            <4> QED
                BY <3>2, <4>1 DEF LastLeaf
        <3>4. LastLeaf(t) <= n /\ t \in (0 .. MaxHeight) \X (1 .. n)
            BY <3>1, <3>3
        <3> QED
            BY <3>4 DEF Subtrees
    <2> QED
        BY <2>1
<1> QED
    BY <1>1, ForestFinite, FS_Subset DEF MmrSize

(* Products of naturals, as the provers need them.                         *)
LEMMA Products ==
    ASSUME NEW p \in Nat \ {0}, NEW a \in Int, NEW b \in Int
    PROVE  /\ a * p \in Int /\ b * p \in Int
           /\ (a + b) * p = a * p + b * p /\ (a - b) * p = a * p - b * p
           /\ a >= 1 => p <= a * p
           /\ a <= 0 => a * p <= 0
           /\ a * p = b * p => a = b
<1>1. a * p \in Int /\ b * p \in Int /\ (a + b) * p = a * p + b * p /\ (a - b) * p = a * p - b * p
    OBVIOUS
<1>2. a >= 1 => p <= a * p
    <2> SUFFICES ASSUME a >= 1
                 PROVE  p <= a * p
        OBVIOUS
    <2>1. a * p = (a - 1) * p + p /\ (a - 1) * p \in Nat
        OBVIOUS
    <2> QED
        BY <2>1
<1>3. a <= 0 => a * p <= 0
    OBVIOUS
<1>4. a * p = b * p => a = b
    OBVIOUS
<1> QED
    BY <1>1, <1>2, <1>3, <1>4

(* A factor that is not 0 cancels.                                         *)
LEMMA Cancels ==
    ASSUME NEW p \in Nat \ {0}, NEW a \in Int, NEW b \in Int, a * p = b * p
    PROVE  a = b
OBVIOUS

Odd(i) == \E m \in Int : i = 2 * m + 1

(* A number is an odd multiple of one power of 2.                          *)
LEMMA OddPart ==
    ASSUME NEW h \in 0 .. MaxHeight + 1, NEW n \in Nat \ {0}, n < P(h)
    PROVE  \E g \in 0 .. h - 1 : \E i \in Int : n = i * P(g) /\ Odd(i)
<1> DEFINE Splits(k, j) == \E g \in 0 .. j - 1 : \E i \in Int : k = i * P(g) /\ Odd(i)
           Bad == {j \in 0 .. MaxHeight + 1 :
                      \E k \in Nat \ {0} : k < P(j) /\ ~Splits(k, j)}
<1>1. Bad = {}
    <2> SUFFICES ASSUME Bad # {}
                 PROVE  FALSE
        OBVIOUS
    <2>1. PICK j \in Nat : j \in Bad /\ \A k \in Bad : j <= k
        <3>1. Bad \in SUBSET Nat
            OBVIOUS
        <3> HIDE DEF Bad
        <3> QED
            BY <3>1, SmallestExists
    <2>2. PICK k \in Nat \ {0} : k < P(j) /\ ~Splits(k, j)
        BY <2>1
    <2>3. j \in 0 .. MaxHeight + 1 /\ j # 0
        <3>1. j # 0
            BY <2>2, PowTypes
        <3> QED
            BY <2>1, <3>1
    <2>4. j - 1 \in 0 .. MaxHeight + 1 /\ j - 1 \notin Bad /\ P(j) = 2 * P(j - 1)
        <3>1. j - 1 \in 0 .. MaxHeight + 1 /\ j - 1 \in 0 .. MaxHeight + 1
              /\ (j - 1) + 1 = j /\ ~(j <= j - 1) /\ j - 1 \in 0 .. MaxBits - 1
            BY <2>3, Heights
        <3>2. j - 1 \notin Bad
            <4> HIDE DEF Bad
            <4> QED
                BY <2>1, <3>1
        <3>3. P(j) = 2 * P(j - 1)
            BY <3>1, PowTypes
        <3> QED
            BY <3>1, <3>2, <3>3
    <2>5. ~Odd(k)
        <3>1. 0 \in 0 .. j - 1 /\ k = k * 1 /\ k \in Int /\ P(0) = 1
            BY <2>3, PowTypes
        <3> QED
            BY <2>2, <3>1
    <2>6. PICK m \in Nat \ {0} : k = 2 * m
        <3>1. /\ k % 2 = 0 \/ k % 2 = 1
              /\ k = 2 * (k \div 2) + (k % 2) /\ k \div 2 \in Nat
            OBVIOUS
        <3>2. CASE k % 2 = 1
            BY <2>5, <3>1, <3>2 DEF Odd
        <3>3. CASE k % 2 = 0
            BY <3>1, <3>3
        <3> QED
            BY <3>1, <3>2, <3>3
    <2>7. Splits(m, j - 1)
        <3>1. m < P(j - 1)
            <4>1. P(j - 1) \in Nat
                BY <2>4, Heights
            <4> QED
                BY <2>2, <2>4, <2>6, <4>1
        <3> HIDE DEF Splits
        <3> QED
            BY <2>4, <2>6, <3>1
    <2>8. PICK g \in 0 .. (j - 1) - 1, i \in Int : m = i * P(g) /\ Odd(i)
        BY <2>7
    <2>9. g + 1 \in 0 .. j - 1 /\ k = i * P(g + 1)
        <3>1. g + 1 \in 0 .. j - 1 /\ g \in 0 .. MaxHeight + 1 /\ g \in 0 .. MaxHeight + 2
            BY <2>3, <2>8, Heights
        <3>2. P(g + 1) = 2 * P(g) /\ P(g) \in Nat
            BY <3>1, Heights
        <3> HIDE DEF Bad
        <3> QED
            BY <2>6, <2>8, <3>1, <3>2
    <2> QED
        BY <2>2, <2>8, <2>9
<1>2. h \notin Bad
    BY <1>1
<1> HIDE DEF Splits
<1>3. Splits(n, h)
    BY <1>2
<1> QED
    BY <1>3 DEF Splits

(* No odd number is twice another one. *)
LEMMA OddIsNotDouble ==
    ASSUME NEW i \in Int, Odd(i), NEW m \in Int
    PROVE  i # 2 * m /\ Odd(i + 2 * m)
<1>1. PICK k \in Int : i = 2 * k + 1
    BY DEF Odd
<1>2. i # 2 * m
    BY <1>1
<1>3. i + 2 * m = 2 * (k + m) + 1 /\ k + m \in Int
    BY <1>1
<1> QED
    BY <1>2, <1>3 DEF Odd

(* It is the largest power of 2 that divides the number. *)
LEMMA OddPartIsLargest ==
    ASSUME NEW h \in 0 .. MaxHeight, NEW i \in Nat \ {0}, Odd(i),
           NEW g \in 0 .. MaxHeight, NEW j \in Int, j * P(g) = i * P(h)
    PROVE  g <= h
<1> SUFFICES ASSUME h < g
             PROVE  FALSE
    BY Heights
<1> DEFINE d == (g - h) - 1
<1>1. d \in 0 .. MaxHeight + 1 /\ d \in 0 .. MaxHeight + 2 /\ d + 1 = g - h
      /\ g \in 0 .. MaxBits /\ h \in 0 .. g /\ h \in 0 .. MaxHeight + 2
    BY Heights
<1>2. P(g) = P(g - h) * P(h)
    BY <1>1, PowProduct
<1>3. P(g - h) = 2 * P(d) /\ P(d) \in Nat /\ P(h) \in Nat \ {0}
    <2> HIDE DEF d
    <2> QED
        BY <1>1, Heights
<1> DEFINE q == P(d)
           r == P(h)
           s == P(g - h)
<1> HIDE DEF d, q, r, s
<1>4. q \in Nat /\ r \in Nat \ {0} /\ s = 2 * q /\ P(g) = s * r
    BY <1>2, <1>3 DEF q, r, s
<1>5. j * (s * r) = i * r
    BY <1>4 DEF r
<1>6. (j * s) * r = i * r /\ j * s \in Int
    BY <1>4, <1>5
<1>7. i = j * s
    BY <1>4, <1>6, Cancels
<1>8. i = 2 * (j * q) /\ j * q \in Int
    BY <1>4, <1>7
<1> QED
    BY <1>8, OddIsNotDouble

(* With a leaf come the subtrees that end with it: as many as the power of *)
(* 2 says that divides their number of leaves.                             *)
LEMMA SizeSteps ==
    ASSUME NEW h \in 0 .. MaxHeight, NEW i \in Nat \ {0}, Odd(i),
           NEW n \in Nat \ {0}, n = i * P(h)
    PROVE  MmrSize(n) = MmrSize(n - 1) + h + 1
<1> DEFINE spine == [g \in 0 .. h |-> <<g, i * P(h - g)>>]
           done == {spine[g] : g \in 0 .. h}
<1>0. h \in Nat /\ h <= MaxHeight /\ n - 1 \in Nat /\ h \in 0 .. MaxBits
    BY Heights
<1>1. ASSUME NEW g \in 0 .. h
      PROVE  /\ g \in 0 .. MaxHeight /\ P(g) \in Nat \ {0} /\ i * P(h - g) \in Nat \ {0}
             /\ n = (i * P(h - g)) * P(g)
    <2>1. g \in 0 .. MaxHeight + 2 /\ h - g \in 0 .. MaxHeight + 2 /\ g \in 0 .. MaxHeight
        BY <1>0, Heights
    <2>2. P(g) \in Nat \ {0} /\ P(h - g) \in Nat \ {0}
        BY <2>1, Heights
    <2>3. P(h) = P(h - g) * P(g)
        BY <1>0, <2>1, PowProduct
    <2>4. i * P(h - g) \in Nat \ {0} /\ i * (P(h - g) * P(g)) = (i * P(h - g)) * P(g)
        BY <2>2
    <2> QED
        BY <2>1, <2>2, <2>3, <2>4
<1>2. ASSUME NEW g \in 0 .. MaxHeight, NEW j \in Int, <<g, j>> \in Subtrees(n),
             <<g, j>> \notin Subtrees(n - 1)
      PROVE  <<g, j>> \in done
    <2>1. j >= 1 /\ j * P(g) <= n /\ ~(j * P(g) <= n - 1) /\ P(g) \in Nat \ {0}
        BY <1>0, <1>2, InForest, Heights
    <2>2. j * P(g) \in Int
        BY <2>1, Products
    <2>3. j * P(g) = n
        BY <2>1, <2>2
    <2>4. g \in 0 .. h
        <3>1. g <= h
            BY <2>3, OddPartIsLargest
        <3> QED
            BY <1>0, <3>1
    <2>5. n = (i * P(h - g)) * P(g) /\ i * P(h - g) \in Int
        BY <1>1, <2>4
    <2>6. j = i * P(h - g)
        <3> DEFINE w == i * P(h - g)
        <3> HIDE DEF w
        <3>1. j * P(g) = w * P(g) /\ w \in Int
            BY <2>3, <2>5 DEF w
        <3>2. j = w
            BY <2>1, <3>1, Cancels, Zenon
        <3> QED
            BY <3>2 DEF w
    <2>7. spine[g] = <<g, j>>
        BY <2>4, <2>6
    <2> QED
        BY <2>4, <2>7
<1>3. ASSUME NEW g \in 0 .. h
      PROVE  spine[g] \in Subtrees(n) /\ spine[g] \notin Subtrees(n - 1)
    <2> DEFINE p == i * P(h - g)
    <2>1. g \in 0 .. MaxHeight /\ p \in Int /\ p >= 1 /\ p * P(g) = n
        BY <1>1
    <2>2. p * P(g) <= n /\ ~(p * P(g) <= n - 1)
        BY <1>0, <2>1
    <2>3. spine[g] = <<g, p>>
        OBVIOUS
    <2> HIDE DEF p, spine
    <2> QED
        BY <1>0, <2>1, <2>2, <2>3, InForest
<1>4. Subtrees(n) = Subtrees(n - 1) \union done /\ Subtrees(n - 1) \intersect done = {}
    <2>1. Subtrees(n - 1) \subseteq Subtrees(n)
        <3>1. ASSUME NEW t \in Subtrees(n - 1)
              PROVE  t \in Subtrees(n)
            <4>1. t[1] \in 0 .. MaxHeight /\ t[2] \in Int /\ t = <<t[1], t[2]>>
                BY DEF Subtrees
            <4>2. t[2] >= 1 /\ t[2] * P(t[1]) <= n - 1 /\ P(t[1]) \in Nat \ {0}
                BY <1>0, <4>1, InForest, Heights
            <4>3. t[2] * P(t[1]) \in Int
                BY <4>1, <4>2, Products
            <4>4. t[2] * P(t[1]) <= n
                BY <1>0, <4>2, <4>3
            <4> QED
                BY <1>0, <4>1, <4>2, <4>4, InForest
        <3> QED
            BY <3>1
    <2>2. ASSUME NEW t \in Subtrees(n), t \notin Subtrees(n - 1)
          PROVE  t \in done
        <3>1. t[1] \in 0 .. MaxHeight /\ t[2] \in Int /\ t = <<t[1], t[2]>>
            BY DEF Subtrees
        <3> HIDE DEF done
        <3> QED
            BY <1>2, <2>2, <3>1
    <2> HIDE DEF spine
    <2> QED
        BY <1>3, <2>1, <2>2
<1>5. IsFiniteSet(done) /\ Cardinality(done) = h + 1
    <2>1. spine \in Surjection(0 .. h, done)
        BY DEF Surjection
    <2>2. ASSUME NEW s \in 0 .. h, NEW t \in 0 .. h, spine[s] = spine[t]
          PROVE  s = t
        BY <2>2
    <2>3. spine \in Injection(0 .. h, done)
        <3> HIDE DEF spine
        <3> QED
            BY <2>1, <2>2 DEF Injection, IsInjective, Surjection
    <2>4. IsFiniteSet(0 .. h) /\ Cardinality(0 .. h) = h + 1
        BY <1>0, FS_Interval
    <2> HIDE DEF spine, done
    <2> QED
        BY <2>1, <2>3, <2>4, FS_Surjection
<1>6. IsFiniteSet(Subtrees(n - 1)) /\ MmrSize(n - 1) \in Nat
    BY <1>0, ForestFinite
<1> HIDE DEF done
<1>7. Cardinality(Subtrees(n))
        = Cardinality(Subtrees(n - 1)) + Cardinality(done) - Cardinality({})
    BY <1>4, <1>5, <1>6, FS_Union
<1>8. Cardinality({}) = 0
    BY FS_EmptySet
<1> QED
    BY <1>0, <1>5, <1>6, <1>7, <1>8 DEF MmrSize

(* No leaves, no nodes. *)
LEMMA EmptyForest == MmrSize(0) = 0
<1>1. Subtrees(0) = {}
    BY DEF Subtrees
<1> QED
    BY <1>1, FS_EmptySet DEF MmrSize

(* Right of a whole number of perfect trees, the forest is that of the     *)
(* leaves that are left.                                                   *)
LEMMA SizeShifts ==
    ASSUME NEW h \in 0 .. MaxHeight + 1, NEW m \in Nat, NEW r \in 0 .. P(h) - 1
    PROVE  MmrSize(m * P(h) + r) = MmrSize(m * P(h)) + MmrSize(r)
<1> DEFINE Bad == {k \in 0 .. P(h) - 1 : MmrSize(m * P(h) + k) # MmrSize(m * P(h)) + MmrSize(k)}
<1>0. P(h) \in Nat \ {0} /\ m * P(h) \in Nat /\ h \in 0 .. MaxBits /\ h \in Nat /\ MaxHeight \in Nat
    <2>1. P(h) \in Nat \ {0} /\ h \in 0 .. MaxBits
        BY Heights
    <2> QED
        BY <2>1, Heights
<1>1. Bad = {}
    <2> SUFFICES ASSUME Bad # {}
                 PROVE  FALSE
        OBVIOUS
    <2>1. PICK k \in Nat : k \in Bad /\ \A l \in Bad : k <= l
        <3>1. Bad \in SUBSET Nat
            BY <1>0
        <3> HIDE DEF Bad
        <3> QED
            BY <3>1, SmallestExists
    <2>2. k \in 0 .. P(h) - 1 /\ MmrSize(m * P(h) + k) # MmrSize(m * P(h)) + MmrSize(k)
        BY <2>1
    <2>3. k # 0
        <3> SUFFICES ASSUME k = 0
                     PROVE  FALSE
            OBVIOUS
        <3>1. m * P(h) + 0 = m * P(h) /\ MmrSize(m * P(h)) \in Nat
            BY <1>0, ForestFinite
        <3> QED
            BY <2>2, <3>1, EmptyForest
    <2>4. k - 1 \in 0 .. P(h) - 1 /\ ~(k <= k - 1) /\ k - 1 \in Nat /\ k < P(h)
        BY <1>0, <2>2, <2>3
    <2>5. k - 1 \notin Bad
        <3> HIDE DEF Bad
        <3> QED
            BY <2>1, <2>4
    <2> DEFINE a == m * P(h)
    <2>6. MmrSize(a + (k - 1)) = MmrSize(a) + MmrSize(k - 1)
        BY <2>4, <2>5
    <2> HIDE DEF Bad
    <2>7. PICK g \in 0 .. h - 1, i \in Int : k = i * P(g) /\ Odd(i)
        BY <2>3, <2>4, OddPart
    <2>8. g \in 0 .. MaxHeight /\ P(g) \in Nat \ {0} /\ i \in Nat \ {0}
        <3>1. g \in 0 .. MaxHeight /\ g \in 0 .. MaxHeight + 2
            BY <1>0, <2>7
        <3>2. P(g) \in Nat \ {0}
            BY <3>1, Heights
        <3>3. ~(i <= 0)
            <4>1. i <= 0 => i * P(g) <= 0
                BY <3>2, Products
            <4> QED
                BY <2>3, <2>7, <4>1
        <3> QED
            BY <3>1, <3>2, <3>3
    <2>9. MmrSize(k) = MmrSize(k - 1) + g + 1
        BY <2>3, <2>7, <2>8, SizeSteps
    <2>10. MmrSize(a + k) = MmrSize(a + (k - 1)) + g + 1
        <3> DEFINE d == (h - g) - 1
        <3>1. d \in 0 .. MaxHeight + 1 /\ d + 1 = h - g /\ d \in 0 .. MaxHeight + 2 /\ g \in 0 .. h
            BY <1>0, <2>7, <2>8
        <3>2. P(h) = P(h - g) * P(g)
            BY <1>0, <3>1, PowProduct
        <3>3. P(h - g) = 2 * P(d) /\ P(d) \in Nat
            <4> HIDE DEF d
            <4> QED
                BY <3>1, Heights
        <3> DEFINE q == P(d)
                   p == P(g)
        <3> HIDE DEF d
        <3>4. q \in Nat /\ p \in Nat \ {0} /\ P(h) = (2 * q) * p
            BY <2>8, <3>2, <3>3
        <3> DEFINE i2 == i + 2 * (m * q)
        <3> HIDE DEF q, p, i2
        <3>5. a = (2 * (m * q)) * p /\ m * q \in Nat
            BY <3>4
        <3>6. a + k = i2 * p
            <4>1. k = i * p
                BY <2>7 DEF p
            <4> DEFINE w == 2 * (m * q)
            <4>2. w \in Int /\ a = w * p
                BY <3>5
            <4> HIDE DEF w, a
            <4>3. (i + w) * p = i * p + w * p
                BY <3>4, <4>2
            <4>4. i * p \in Int /\ w * p \in Int
                BY <3>4, <4>2
            <4>5. a + k = (i + w) * p
                BY <4>1, <4>2, <4>3, <4>4
            <4> QED
                BY <4>5 DEF w, i2
        <3>7. Odd(i2) /\ i2 \in Nat \ {0}
            <4> DEFINE z == m * q
            <4>1. z \in Nat
                BY <3>5
            <4> HIDE DEF z
            <4>2. z \in Int /\ i + 2 * z \in Nat \ {0}
                BY <2>8, <4>1
            <4>3. Odd(i + 2 * z)
                BY <2>7, <4>2, OddIsNotDouble, Zenon
            <4> QED
                BY <4>2, <4>3 DEF i2, z
        <3>8. a + k \in Nat \ {0} /\ (a + k) - 1 = a + (k - 1)
            BY <1>0, <2>3
        <3> DEFINE n == a + k
        <3> HIDE DEF i2, a, n
        <3>9. n = i2 * P(g) /\ n \in Nat \ {0} /\ n - 1 = a + (k - 1)
            BY <3>6, <3>8 DEF n, p
        <3>10. MmrSize(n) = MmrSize(n - 1) + g + 1
            BY <2>8, <3>7, <3>9, SizeSteps
        <3> QED
            BY <3>9, <3>10 DEF n
    <2>11. MmrSize(a) \in Nat /\ MmrSize(k - 1) \in Nat
        BY <1>0, <2>4, ForestFinite
    <2>12. MmrSize(a + k) # MmrSize(a) + MmrSize(k)
        BY <2>2
    <2> HIDE DEF a
    <2> QED
        BY <2>6, <2>9, <2>10, <2>11, <2>12
<1> QED
    BY <1>1

(* A forest whose highest peak is known: it and what is right of it.       *)
LEMMA SplitForest ==
    ASSUME NEW j \in 0 .. MaxHeight, NEW r \in 0 .. P(j) - 1
    PROVE  MmrSize(P(j) + r) = MmrSize(P(j)) + MmrSize(r)
<1>1. j \in 0 .. MaxHeight + 1 /\ 1 * P(j) = P(j)
    BY Heights
<1>2. MmrSize(1 * P(j) + r) = MmrSize(1 * P(j)) + MmrSize(r)
    BY <1>1, SizeShifts
<1> QED
    BY <1>1, <1>2

(* What the leaf P(j) completes: a subtree of every height up to j.        *)
LEMMA PowerForest ==
    ASSUME NEW j \in 0 .. MaxHeight
    PROVE  MmrSize(P(j)) = MmrSize(P(j) - 1) + j + 1
<1>1. P(j) \in Nat \ {0} /\ P(j) = 1 * P(j)
    BY Heights
<1>2. Odd(1)
    <2>1. 1 = 2 * 0 + 1 /\ 0 \in Int
        OBVIOUS
    <2> QED
        BY <2>1 DEF Odd
<1> QED
    BY <1>1, <1>2, SizeSteps

(* The size of a perfect tree, and of the forest one leaf short of it.     *)
LEMMA SizeOfPower ==
    ASSUME NEW j \in 0 .. MaxHeight
    PROVE  MmrSize(P(j)) = 2 * P(j) - 1 /\ MmrSize(P(j) - 1) = 2 * P(j) - 2 - j
<1> DEFINE Bad == {i \in 0 .. MaxHeight : ~(/\ MmrSize(P(i)) = 2 * P(i) - 1
                                            /\ MmrSize(P(i) - 1) = 2 * P(i) - 2 - i)}
<1>1. Bad = {}
    <2> SUFFICES ASSUME Bad # {}
                 PROVE  FALSE
        OBVIOUS
    <2>1. PICK m \in Bad : \A k \in Bad : m <= k
        <3>1. Bad \in SUBSET Nat
            BY Heights
        <3> HIDE DEF Bad
        <3> QED
            BY <3>1, SmallestExists
    <2>2. m \in Nat /\ m \in 0 .. MaxHeight /\ P(m) \in Nat \ {0}
        BY <2>1, Heights
    <2>3. MmrSize(P(m) - 1) = 2 * P(m) - 2 - m
        <3>1. CASE m = 0
            <4>1. P(m) = 1 /\ P(m) - 1 = 0
                BY <3>1, PowTypes
            <4>2. Subtrees(0) = {}
                BY DEF Subtrees
            <4>3. MmrSize(0) = 0
                BY <4>2, FS_EmptySet DEF MmrSize
            <4> QED
                BY <3>1, <4>1, <4>3
        <3>2. CASE m # 0
            <4> DEFINE d == m - 1
            <4>1. d \in 0 .. MaxHeight /\ d + 1 = m /\ ~(m <= d) /\ d \in 0 .. MaxHeight + 1
                  /\ d \in 0 .. MaxHeight + 2
                BY <2>2, <3>2, Heights
            <4>2. MmrSize(P(d)) = 2 * P(d) - 1 /\ MmrSize(P(d) - 1) = 2 * P(d) - 2 - d
                BY <2>1, <4>1
            <4>3. P(m) = 2 * P(d) /\ P(d) \in Nat \ {0}
                BY <4>1, Heights
            <4>4. P(d) - 1 \in 0 .. P(d) - 1
                BY <4>3
            <4> HIDE DEF d
            <4>5. MmrSize(P(d) + (P(d) - 1)) = MmrSize(P(d)) + MmrSize(P(d) - 1)
                BY <4>1, <4>4, SplitForest
            <4>6. P(d) + (P(d) - 1) = P(m) - 1
                BY <4>3
            <4> QED
                BY <4>1, <4>2, <4>3, <4>5, <4>6
        <3> QED
            BY <3>1, <3>2
    <2>4. MmrSize(P(m)) = MmrSize(P(m) - 1) + m + 1
        BY <2>2, PowerForest
    <2>5. MmrSize(P(m)) = 2 * P(m) - 1
        BY <2>2, <2>3, <2>4
    <2> QED
        BY <2>1, <2>3, <2>5
<1> QED
    BY <1>1

(* The highest peak of a forest of k leaves.                               *)
LEMMA HighestPeak ==
    ASSUME NEW k \in Nat \ {0}, k < P(MaxHeight + 1)
    PROVE  \E j \in 0 .. MaxHeight : P(j) <= k /\ k < P(j + 1)
<1>1. MaxHeight + 1 \in 0 .. MaxBits
    BY Heights
<1>2. PICK b \in 1 .. MaxHeight + 1 : P(b - 1) <= k /\ k < P(b)
    BY <1>1, BitLengthExists
<1>3. b - 1 \in 0 .. MaxHeight /\ (b - 1) + 1 = b
    BY <1>2, Heights
<1> QED
    BY <1>2, <1>3

(* compute_height at the position that the forest gives to a subtree.      *)
LEMMA HeightAtPosition ==
    ASSUME NEW k \in Nat \ {0}, k < P(MaxHeight + 1),
           NEW h \in 0 .. MaxHeight, NEW i \in Int, k = i * P(h)
    PROVE  compute_height[MmrSize(k - 1) + h + 1] = {h}
<1> DEFINE Holds(n) == \A g \in 0 .. MaxHeight : \A c \in Int :
               n = c * P(g) => compute_height[MmrSize(n - 1) + g + 1] = {g}
           Bad == {n \in Nat \ {0} : n < P(MaxHeight + 1) /\ ~Holds(n)}
<1>1. Bad = {}
    <2> SUFFICES ASSUME Bad # {}
                 PROVE  FALSE
        OBVIOUS
    <2>1. PICK m \in Bad : \A n \in Bad : m <= n
        <3>1. Bad \in SUBSET Nat
            OBVIOUS
        <3> HIDE DEF Bad
        <3> QED
            BY <3>1, SmallestExists
    <2>2. m \in Nat \ {0} /\ m < P(MaxHeight + 1)
        BY <2>1
    <2>3. ASSUME NEW n \in Nat \ {0}, n < m
          PROVE  Holds(n)
        <3>1. P(MaxHeight + 1) \in Nat /\ ~(m <= n)
            BY <2>2, <2>3, Heights
        <3>2. n < P(MaxHeight + 1) /\ n \notin Bad
            BY <2>1, <2>2, <2>3, <3>1
        <3> HIDE DEF Holds
        <3> QED
            BY <3>2
    <2>4. PICK j \in 0 .. MaxHeight : P(j) <= m /\ m < P(j + 1)
        BY <2>2, HighestPeak
    <2>5. /\ j \in Nat /\ j <= MaxHeight /\ j + 1 \in 1 .. MaxBits /\ j + 2 \in 1 .. MaxBits
          /\ j + 1 \in 0 .. MaxHeight + 1
          /\ P(j) \in Nat \ {0} /\ P(j + 1) = 2 * P(j) /\ P(j + 2) = 4 * P(j)
          /\ j + 1 <= P(j)
        <3>1. /\ j \in Nat /\ j <= MaxHeight /\ j + 1 \in 1 .. MaxBits /\ j + 2 \in 1 .. MaxBits
              /\ j + 1 \in 0 .. MaxHeight + 1 /\ (j + 1) + 1 = j + 2 /\ j \in 0 .. MaxBits
              /\ j \in 0 .. MaxHeight + 1 /\ j \in 0 .. MaxHeight + 2
            BY Heights
        <3>2. P(j + 1) = 2 * P(j) /\ P((j + 1) + 1) = 2 * P(j + 1) /\ P(j) \in Nat \ {0}
              /\ j + 1 <= P(j)
            BY <3>1, Heights, PowTypes
        <3> QED
            BY <3>1, <3>2
    <2>6. MmrSize(P(j)) = 2 * P(j) - 1 /\ MmrSize(P(j) - 1) = 2 * P(j) - 2 - j
        BY SizeOfPower
    <2>7. ASSUME NEW g \in 0 .. MaxHeight, NEW c \in Int, m = c * P(g)
          PROVE  compute_height[MmrSize(m - 1) + g + 1] = {g}
        <3>0. g \in Nat /\ g \in 0 .. MaxBits /\ P(g) \in Nat \ {0}
            BY Heights
        <3>1. c >= 1 /\ P(g) <= m
            <4>1. (c <= 0 => c * P(g) <= 0) /\ (c >= 1 => P(g) <= c * P(g))
                BY <3>0, Products
            <4> QED
                BY <2>2, <2>7, <4>1
        <3>2. g \in 0 .. j
            <4>1. P(g) < P(j + 1) /\ j + 1 \in 0 .. MaxBits
                BY <2>2, <2>4, <2>5, <3>0, <3>1
            <4>2. g < j + 1
                BY <3>0, <4>1, PowOrder
            <4> QED
                BY <2>5, <3>0, <4>2
        <3>3. CASE m = P(j) /\ g = j
            <4>1. compute_height[P(j + 1) - 1] = {(j + 1) - 1}
                BY <2>5, HeightOfAllOnes
            <4>2. MmrSize(m - 1) + g + 1 = P(j + 1) - 1 /\ (j + 1) - 1 = g
                BY <2>5, <2>6, <3>3
            <4> QED
                BY <4>1, <4>2
        <3>4. CASE m = P(j) /\ g # j
            <4> DEFINE y == 2 * P(j) - 1 - (j - g)
                       d == j - 1
            <4>1. MmrSize(m - 1) + g + 1 = y
                BY <2>5, <2>6, <3>0, <3>4
            <4>2. g <= j - 1 /\ (j + 1) - 1 = j
                BY <2>5, <3>2, <3>4
            <4>3. y \in Nat /\ P((j + 1) - 1) <= y /\ y < P(j + 1) - 1
                BY <2>5, <3>0, <4>2
            <4>4. compute_height[y] = compute_height[y - P((j + 1) - 1) + 1]
                <5> HIDE DEF y
                <5> QED
                    BY <2>5, <4>3, HeightJumps
            <4>5. d \in 0 .. MaxHeight /\ d \in 0 .. MaxHeight + 1 /\ d + 1 = j
                  /\ d \in 0 .. MaxHeight + 2 /\ g \in 0 .. d /\ d \in 0 .. MaxBits
                  /\ d - g \in 0 .. MaxHeight + 2
                BY <2>5, <3>0, <4>2, Heights
            <4>6. P(j) = 2 * P(d) /\ P(d) \in Nat \ {0}
                <5>1. P(d + 1) = 2 * P(d) /\ P(d) \in Nat \ {0}
                    BY <4>5, Heights
                <5> QED
                    BY <4>5, <5>1
            <4>7. MmrSize(P(d) - 1) = 2 * P(d) - 2 - d
                BY <4>5, SizeOfPower
            <4>8. P(d) = P(d - g) * P(g) /\ P(d - g) \in Int
                <5>1. P(d - g) \in Int
                    BY <4>5, Heights
                <5>2. P(d) = P(d - g) * P(g)
                    <6> HIDE DEF d
                    <6> QED
                        BY <4>5, PowProduct
                <5> QED
                    BY <5>1, <5>2
            <4>9. Holds(P(d))
                <5>1. P(d) \in Nat \ {0} /\ P(d) < m
                    BY <2>5, <3>4, <4>6
                <5> HIDE DEF Holds
                <5> QED
                    BY <2>3, <5>1
            <4>10. compute_height[MmrSize(P(d) - 1) + g + 1] = {g}
                BY <4>8, <4>9
            <4>11. y - P((j + 1) - 1) + 1 = MmrSize(P(d) - 1) + g + 1
                BY <2>5, <3>0, <4>2, <4>6, <4>7
            <4> QED
                BY <4>1, <4>4, <4>10, <4>11
        <3>5. CASE m # P(j)
            <4> DEFINE r == m - P(j)
                       p == P(j - g)
                       z == MmrSize(r - 1) + g + 1
                       y == 2 * P(j) - 1 + z
            <4>1. r \in Nat \ {0} /\ r < P(j) /\ r < m /\ r - 1 \in 0 .. P(j) - 1
                  /\ m - 1 = P(j) + (r - 1)
                BY <2>2, <2>4, <2>5, <3>5
            <4>2. p \in Nat \ {0} /\ P(j) = p * P(g)
                <5>1. j - g \in 0 .. MaxHeight + 2 /\ j \in 0 .. MaxBits
                    BY <2>5, <3>0, <3>2, Heights
                <5> QED
                    BY <3>2, <5>1, Heights, PowProduct
            <4>3. r = (c - p) * P(g) /\ c - p \in Int
                <5>1. (c - p) * P(g) = c * P(g) - p * P(g)
                    BY <3>0, <4>2, Products
                <5> QED
                    BY <2>7, <4>2, <5>1
            <4>4. g < j
                <5> SUFFICES ASSUME g = j
                             PROVE  FALSE
                    BY <3>0, <3>2, <2>5
                <5>1. (c - p >= 1 => P(g) <= (c - p) * P(g)) /\ (c - p <= 0 => (c - p) * P(g) <= 0)
                    BY <3>0, <4>3, Products
                <5>2. ~(P(g) <= r) /\ ~(r <= 0)
                    BY <2>5, <4>1
                <5> DEFINE d == c - p
                <5>3. d \in Int /\ (d >= 1 => P(g) <= r) /\ (d <= 0 => r <= 0)
                    BY <4>3, <5>1
                <5> HIDE DEF d, r
                <5> QED
                    BY <5>2, <5>3
            <4> HIDE DEF r, p
            <4>5. MmrSize(m - 1) = 2 * P(j) - 1 + MmrSize(r - 1)
                <5>1. MmrSize(P(j) + (r - 1)) = MmrSize(P(j)) + MmrSize(r - 1)
                    BY <4>1, SplitForest
                <5> QED
                    BY <2>6, <4>1, <5>1
            <4>6. MmrSize(r - 1) \in Nat /\ MmrSize(r - 1) <= 2 * P(j) - 2 - j
                <5>1. MmrSize(r - 1) <= MmrSize(P(j) - 1) /\ MmrSize(r - 1) \in Nat
                    BY <2>5, <4>1, SizeGrows, ForestFinite
                <5> QED
                    BY <2>6, <5>1
            <4>7. z \in Nat \ {0} /\ z <= 2 * P(j) - 1 - (j - g) /\ MmrSize(m - 1) + g + 1 = y
                BY <2>5, <3>0, <4>5, <4>6
            <4>8. compute_height[z] = {g}
                <5>1. Holds(r)
                    <6> HIDE DEF Holds
                    <6> QED
                        BY <2>3, <4>1
                <5> QED
                    BY <4>3, <5>1
            <4> HIDE DEF z
            <4>9. y \in Nat /\ P((j + 2) - 1) <= y /\ y < P(j + 2) - 1 /\ (j + 2) - 1 = j + 1
                BY <2>5, <3>0, <4>4, <4>7
            <4>10. compute_height[y] = compute_height[y - P((j + 2) - 1) + 1]
                <5> HIDE DEF y
                <5> QED
                    BY <2>5, <4>9, HeightJumps
            <4>11. y - P((j + 2) - 1) + 1 = z
                BY <2>5, <4>7, <4>9
            <4> QED
                BY <4>7, <4>8, <4>10, <4>11
        <3> QED
            BY <3>3, <3>4, <3>5
    <2> HIDE DEF Bad
    <2>8. Holds(m)
        BY <2>7
    <2> QED
        BY <2>1, <2>8 DEF Bad
<1>2. Holds(k)
    <2> HIDE DEF Holds
    <2> QED
        BY <1>1
<1> QED
    BY <1>2

-----------------------------------------------------------------------------
(* Valid sizes.                                                            *)

(* The largest peak of n nodes.                                            *)
LEMMA LargestPeakBounds ==
    ASSUME NEW n \in Nat \ {0}, NEW b \in get_felt_bitlength(n)
    PROVE  /\ b \in 1 .. MaxBits /\ LargestPeak(n, b) \in 1 .. n
           /\ P(b - 1) <= n /\ n < P(b)
<1>1. b \in 1 .. MaxBits /\ n < P(b) /\ P(b - 1) <= n /\ P(b) = 2 * P(b - 1)
      /\ P(b - 1) \in Nat \ {0} /\ b <= P(b - 1)
    <2>1. b \in 1 .. MaxBits /\ b \in 0 .. MaxBits /\ b - 1 \in 0 .. MaxBits - 1
          /\ b - 1 \in 0 .. MaxBits /\ (b - 1) + 1 = b
        BY PowTypes DEF get_felt_bitlength
    <2>2. P((b - 1) + 1) = 2 * P(b - 1) /\ P(b) \in Nat \ {0} /\ P(b - 1) \in Nat \ {0}
          /\ (b - 1) + 1 <= P(b - 1)
        BY <2>1, PowTypes
    <2>3. n < P(b) /\ P(b - 1) <= n
        BY <2>2 DEF get_felt_bitlength, RangeCheck, P
    <2> QED
        BY <2>1, <2>2, <2>3
<1>2. b = 1 => P(b - 1) = 1
    BY PowTypes
<1>3. LargestPeak(n, b) = IF n + 1 <= P(b) - 1 THEN P(b - 1) - 1 ELSE P(b) - 1
    BY DEF LargestPeak, P
<1> QED
    BY <1>1, <1>2, <1>3

(* is_valid_mmr_size_inner satisfies its recursion: a peak is taken off.   *)
LEMMA ValidEquation ==
    ASSUME NEW n \in Int, NEW q \in Nat
    PROVE  is_valid_mmr_size_inner[<<n, q>>] =
               IF n < 1 THEN {n = 0}
               ELSE UNION { IF LargestPeak(n, b) = q THEN {FALSE}
                            ELSE is_valid_mmr_size_inner[<<n - LargestPeak(n, b), LargestPeak(n, b)>>]
                            : b \in get_felt_bitlength(n) }
<1> DEFINE D == Int \X Nat
           size == [c \in D |-> IF c[1] < 0 THEN 0 ELSE c[1]]
           R == SUBSET BOOLEAN
           Term(c, f, b) == IF LargestPeak(c[1], b) = c[2] THEN {FALSE}
                            ELSE f[<<c[1] - LargestPeak(c[1], b), LargestPeak(c[1], b)>>]
           Value(c, f) == IF c[1] < 1 THEN {c[1] = 0}
                          ELSE UNION { Term(c, f, b) : b \in get_felt_bitlength(c[1]) }
           Step == [a \in D \X [D -> R] |-> Value(a[1], a[2])]
<1>1. ASSUME NEW c \in D, NEW b \in get_felt_bitlength(c[1]), ~(c[1] < 1)
      PROVE  /\ <<c[1] - LargestPeak(c[1], b), LargestPeak(c[1], b)>> \in D
             /\ size[<<c[1] - LargestPeak(c[1], b), LargestPeak(c[1], b)>>] < size[c]
    <2>1. c[1] \in Nat \ {0}
        BY <1>1
    <2>2. LargestPeak(c[1], b) \in 1 .. c[1]
        BY <2>1, LargestPeakBounds
    <2> QED
        BY <2>1, <2>2
<1>2. ASSUME NEW c \in D, NEW f \in [D -> R]
      PROVE  Value(c, f) \in R
    <2>1. CASE c[1] < 1
        <3>1. {c[1] = 0} \in R
            OBVIOUS
        <3> QED
            BY <2>1, <3>1
    <2>2. CASE ~(c[1] < 1)
        <3>1. ASSUME NEW b \in get_felt_bitlength(c[1])
              PROVE  Term(c, f, b) \subseteq BOOLEAN
            <4>1. <<c[1] - LargestPeak(c[1], b), LargestPeak(c[1], b)>> \in D
                BY <1>1, <2>2
            <4> HIDE DEF D
            <4>2. f[<<c[1] - LargestPeak(c[1], b), LargestPeak(c[1], b)>>] \in SUBSET BOOLEAN
                BY <4>1
            <4> QED
                BY <4>2
        <3> HIDE DEF Term, D
        <3> QED
            BY <2>2, <3>1
    <2> QED
        BY <2>1, <2>2
<1>3. Step \in [D \X [D -> R] -> R]
    <2> HIDE DEF Value, R, D
    <2> QED
        BY <1>2
<1>4. ASSUME NEW c \in D, NEW f \in [D -> R], NEW g \in [D -> R],
             \A e \in D : size[e] < size[c] => f[e] = g[e]
      PROVE  Step[<<c, f>>] = Step[<<c, g>>]
    <2>1. ~(c[1] < 1) => \A b \in get_felt_bitlength(c[1]) : Term(c, f, b) = Term(c, g, b)
        <3> SUFFICES ASSUME ~(c[1] < 1), NEW b \in get_felt_bitlength(c[1])
                     PROVE  Term(c, f, b) = Term(c, g, b)
            OBVIOUS
        <3> DEFINE e == <<c[1] - LargestPeak(c[1], b), LargestPeak(c[1], b)>>
        <3>1. e \in D /\ size[e] < size[c]
            BY <1>1
        <3> HIDE DEF e, size, D
        <3>2. f[e] = g[e]
            BY <1>4, <3>1
        <3> QED
            BY <3>2 DEF e
    <2>2. Value(c, f) = Value(c, g)
        <3> HIDE DEF Term
        <3> QED
            BY <2>1
    <2> HIDE DEF Value, R, D
    <2> QED
        BY <2>2
<1>5. LooksDown(D, size, R, Step)
    <2>1. size \in [D -> Nat] /\ R # {}
        OBVIOUS
    <2> HIDE DEF D, size, R, Step
    <2> QED
        BY <1>3, <1>4, <2>1 DEF LooksDown
<1> DEFINE Def(f) == f = [c \in D |-> Value(c, f)]
<1>6. \E f : Def(f)
    <2>1. PICK f : Follows(f, D, R, Step)
        <3> HIDE DEF D, size, R, Step
        <3> QED
            BY <1>5, RecursionExists
    <2> HIDE DEF Value, R, D
    <2>2. f \in [D -> R] /\ \A c \in D : f[c] = Value(c, f)
        BY <2>1 DEF Follows
    <2>3. f = [c \in D |-> Value(c, f)]
        BY <2>2
    <2> QED
        BY <2>3
<1>7. Def(is_valid_mmr_size_inner)
    <2>1. is_valid_mmr_size_inner = CHOOSE f : Def(f)
        BY DEF is_valid_mmr_size_inner
    <2> HIDE DEF Def
    <2> QED
        BY <1>6, <2>1
<1>8. <<n, q>> \in D /\ <<n, q>>[1] = n /\ <<n, q>>[2] = q
    OBVIOUS
<1>9. is_valid_mmr_size_inner[<<n, q>>] = Value(<<n, q>>, is_valid_mmr_size_inner)
    <2> HIDE DEF Value, D
    <2> QED
        BY <1>7, <1>8
<1> QED
    BY <1>9

(* A forest has at least a node for every leaf. *)
LEMMA LeavesAreNodes ==
    ASSUME NEW k \in Nat
    PROVE  k <= MmrSize(k)
<1> DEFINE leaf == [i \in 1 .. k |-> <<0, i>>]
           leaves == {leaf[i] : i \in 1 .. k}
<1>1. leaf \in Surjection(1 .. k, leaves)
    BY DEF Surjection
<1>2. leaf \in Injection(1 .. k, leaves)
    <2>1. \A i, j \in 1 .. k : leaf[i] = leaf[j] => i = j
        OBVIOUS
    <2> HIDE DEF leaf
    <2> QED
        BY <1>1, <2>1 DEF Injection, IsInjective, Surjection
<1>3. IsFiniteSet(1 .. k) /\ Cardinality(1 .. k) = k
    BY FS_Interval
<1>4. Cardinality(leaves) = k
    <2> HIDE DEF leaf, leaves
    <2> QED
        BY <1>1, <1>2, <1>3, FS_Surjection
<1>5. leaves \in SUBSET Subtrees(k)
    <2>1. ASSUME NEW i \in 1 .. k
          PROVE  leaf[i] \in Subtrees(k)
        <3>1. 0 \in 0 .. MaxHeight /\ i \in Int /\ P(0) = 1 /\ i * P(0) = i
            BY Heights, PowTypes
        <3>2. <<0, i>> \in Subtrees(k)
            BY <3>1, InForest
        <3> QED
            BY <3>2
    <2> HIDE DEF leaf
    <2> QED
        BY <2>1
<1> HIDE DEF leaves
<1>6. Cardinality(leaves) <= Cardinality(Subtrees(k))
    BY <1>5, ForestFinite, FS_Subset
<1> QED
    BY <1>4, <1>6 DEF MmrSize

(* Below the perfect tree of height j + 1, a number of nodes is a size iff  *)
(* what is left of it right of the perfect tree of height j is one; twice  *)
(* the latter is none, the two trees would have a parent.                  *)
LEMMA SizeSplits ==
    ASSUME NEW j \in 0 .. MaxHeight - 1, NEW n \in Nat,
           2 * P(j) - 1 < n, n < 4 * P(j) - 1
    PROVE  IsSize(n) <=> n # 4 * P(j) - 2 /\ IsSize(n - (2 * P(j) - 1))
<1> DEFINE m == n - (2 * P(j) - 1)
<1>0. P(j) \in Nat \ {0} /\ m \in Nat \ {0} /\ m < 2 * P(j) /\ P(j) - 1 \in Nat
      /\ n = 2 * P(j) - 1 + m /\ j \in 0 .. MaxHeight
    BY Heights
<1>1. MmrSize(P(j)) = 2 * P(j) - 1 /\ MmrSize(P(j) - 1) = 2 * P(j) - 2 - j /\ j \in Nat
    BY <1>0, SizeOfPower, Heights
<1>2. MmrSize(2 * P(j)) = 4 * P(j) - 1
    <2>1. j + 1 \in 0 .. MaxHeight /\ P(j + 1) = 2 * P(j)
        BY Heights
    <2>2. MmrSize(P(j + 1)) = 2 * P(j + 1) - 1
        BY <2>1, SizeOfPower
    <2> QED
        BY <1>0, <2>1, <2>2
<1>3. ASSUME NEW r \in 0 .. P(j) - 1
      PROVE  MmrSize(P(j) + r) = 2 * P(j) - 1 + MmrSize(r) /\ MmrSize(r) \in Nat
    <2>1. MmrSize(P(j) + r) = MmrSize(P(j)) + MmrSize(r) /\ MmrSize(r) \in Nat
        BY <1>0, SplitForest, ForestFinite
    <2> QED
        BY <1>1, <2>1
<1>4. ASSUME IsSize(n)
      PROVE  n # 4 * P(j) - 2 /\ IsSize(m)
    <2>1. PICK k \in 1 .. n : MmrSize(k) = n
        BY <1>4 DEF IsSize
    <2>2. P(j) < k
        <3> SUFFICES ASSUME k <= P(j)
                     PROVE  FALSE
            BY <1>0, <2>1
        <3>1. MmrSize(k) <= MmrSize(P(j))
            BY <1>0, SizeGrows
        <3> QED
            BY <1>0, <1>1, <2>1, <3>1
    <2>3. k < 2 * P(j)
        <3> SUFFICES ASSUME 2 * P(j) <= k
                     PROVE  FALSE
            BY <1>0, <2>1
        <3>1. MmrSize(2 * P(j)) <= MmrSize(k)
            BY <1>0, SizeGrows
        <3> QED
            BY <1>0, <1>2, <2>1, <3>1
    <2> DEFINE r == k - P(j)
    <2>4. r \in 0 .. P(j) - 1 /\ r \in Nat \ {0} /\ k = P(j) + r /\ P(j) - 1 \in Nat
        BY <1>0, <2>1, <2>2, <2>3
    <2> HIDE DEF r
    <2>5. MmrSize(r) = m
        <3>1. MmrSize(P(j) + r) = 2 * P(j) - 1 + MmrSize(r) /\ MmrSize(r) \in Nat
            BY <1>3, <2>4
        <3> QED
            BY <1>0, <2>1, <2>4, <3>1
    <2>6. r <= MmrSize(r) /\ MmrSize(r) <= MmrSize(P(j) - 1)
        BY <2>4, LeavesAreNodes, SizeGrows
    <2>7. r \in 1 .. m /\ m <= 2 * P(j) - 2 - j
        BY <1>0, <1>1, <2>4, <2>5, <2>6
    <2>8. m # 2 * P(j) - 1
        BY <1>0, <1>1, <2>7
    <2>9. IsSize(m)
        <3> HIDE DEF m
        <3> QED
            BY <2>5, <2>7 DEF IsSize
    <2> QED
        BY <1>0, <2>8, <2>9
<1>5. ASSUME n # 4 * P(j) - 2, IsSize(m)
      PROVE  IsSize(n)
    <2>1. PICK r \in 1 .. m : MmrSize(r) = m
        <3> HIDE DEF m
        <3> QED
            BY <1>5 DEF IsSize
    <2>2. r \in 0 .. P(j) - 1
        <3> SUFFICES ASSUME P(j) <= r
                     PROVE  FALSE
            BY <1>0, <2>1
        <3>1. MmrSize(P(j)) <= MmrSize(r)
            BY <1>0, <2>1, SizeGrows
        <3>2. m = 2 * P(j) - 1
            BY <1>0, <1>1, <2>1, <3>1
        <3> QED
            BY <1>0, <1>5, <3>2
    <2>3. MmrSize(P(j) + r) = n /\ P(j) + r \in 1 .. n
        <3>1. MmrSize(P(j) + r) = 2 * P(j) - 1 + MmrSize(r)
            BY <1>3, <2>2
        <3> QED
            BY <1>0, <2>1, <3>1
    <2> QED
        BY <2>3 DEF IsSize
<1> QED
    BY <1>4, <1>5

(* The one peak that is taken off n nodes.                                 *)
LEMMA TakesLargestPeak ==
    ASSUME NEW j \in 0 .. MaxHeight + 1, NEW n \in Nat, P(j) <= n, n < 2 * P(j), NEW q \in Nat,
           NEW p, p = IF n < 2 * P(j) - 1 THEN P(j) - 1 ELSE n
    PROVE  /\ p \in 1 .. n
           /\ is_valid_mmr_size_inner[<<n, q>>] =
                  IF p = q THEN {FALSE} ELSE is_valid_mmr_size_inner[<<n - p, p>>]
<1>1. /\ j + 1 \in 1 .. MaxBits /\ P(j + 1) = 2 * P(j) /\ (j + 1) - 1 = j
      /\ P(j) \in Nat \ {0} /\ n \in Nat \ {0} /\ n \in Int /\ ~(n < 1)
    BY Heights
<1>2. get_felt_bitlength(n) = {j + 1}
    BY <1>1, BitLength
<1>3. LargestPeak(n, j + 1) = p
    BY <1>1 DEF LargestPeak, P
<1>4. p \in 1 .. n
    BY <1>1, <1>2, <1>3, LargestPeakBounds
<1> DEFINE Term(b) == IF LargestPeak(n, b) = q THEN {FALSE}
                      ELSE is_valid_mmr_size_inner[<<n - LargestPeak(n, b), LargestPeak(n, b)>>]
<1>5. is_valid_mmr_size_inner[<<n, q>>] = UNION { Term(b) : b \in get_felt_bitlength(n) }
    BY <1>1, ValidEquation
<1>6. Term(j + 1) = IF p = q THEN {FALSE} ELSE is_valid_mmr_size_inner[<<n - p, p>>]
    BY <1>3
<1> HIDE DEF Term
<1>7. is_valid_mmr_size_inner[<<n, q>>] = Term(j + 1)
    BY <1>2, <1>5
<1> QED
    BY <1>4, <1>6, <1>7

(* A perfect tree is no peak right of one of the same size.                *)
LEMMA NoTwins ==
    ASSUME NEW j \in 0 .. MaxHeight + 1, NEW n \in Nat, n = 2 * P(j) - 1
    PROVE  is_valid_mmr_size_inner[<<n, n>>] = {FALSE}
<1> DEFINE p == IF n < 2 * P(j) - 1 THEN P(j) - 1 ELSE n
<1>1. P(j) <= n /\ n < 2 * P(j)
    BY Heights
<1>2. p = n
    OBVIOUS
<1> HIDE DEF p
<1>3. is_valid_mmr_size_inner[<<n, n>>] =
          IF p = n THEN {FALSE} ELSE is_valid_mmr_size_inner[<<n - p, p>>]
    <2>1. p = IF n < 2 * P(j) - 1 THEN P(j) - 1 ELSE n
        BY DEF p
    <2>2. \A q \in Nat : is_valid_mmr_size_inner[<<n, q>>] =
              IF p = q THEN {FALSE} ELSE is_valid_mmr_size_inner[<<n - p, p>>]
        BY <1>1, <2>1, TakesLargestPeak
    <2> QED
        BY <2>2
<1> QED
    BY <1>2, <1>3

(* is_valid_mmr_size_inner passes for the sizes alone.                     *)
LEMMA ValidIffSize ==
    ASSUME NEW k \in Nat \ {0}, k < P(MaxHeight + 1)
    PROVE  is_valid_mmr_size_inner[<<k, 0>>] = {IsSize(k)}
<1> DEFINE Bad == {n \in Nat \ {0} : /\ n < P(MaxHeight + 1)
                                     /\ is_valid_mmr_size_inner[<<n, 0>>] # {IsSize(n)}}
<1>1. Bad = {}
    <2> SUFFICES ASSUME Bad # {}
                 PROVE  FALSE
        OBVIOUS
    <2>1. PICK n \in Bad : \A i \in Bad : n <= i
        <3>1. Bad \in SUBSET Nat
            OBVIOUS
        <3> HIDE DEF Bad
        <3> QED
            BY <3>1, SmallestExists
    <2>2. n \in Nat \ {0} /\ n < P(MaxHeight + 1)
        BY <2>1
    <2>3. PICK j \in 0 .. MaxHeight : P(j) <= n /\ n < P(j + 1)
        BY <2>2, HighestPeak
    <2>4. /\ j \in Nat /\ j \in 0 .. MaxHeight + 1 /\ P(j) \in Nat \ {0} /\ P(j + 1) = 2 * P(j)
          /\ n < 2 * P(j)
        <3>1. /\ j \in Nat /\ j \in 0 .. MaxHeight + 1 /\ j \in 0 .. MaxHeight + 2
            BY Heights
        <3> QED
            BY <2>3, <3>1, Heights
    <2>5. CASE n = 2 * P(j) - 1
        <3>1. is_valid_mmr_size_inner[<<n, 0>>] = is_valid_mmr_size_inner[<<0, n>>]
            <4>1. n = (IF n < 2 * P(j) - 1 THEN P(j) - 1 ELSE n) /\ n # 0 /\ n - n = 0 /\ 0 \in Nat
                BY <2>2, <2>4, <2>5
            <4> QED
                BY <2>2, <2>3, <2>4, <4>1, TakesLargestPeak
        <3>2. is_valid_mmr_size_inner[<<0, n>>] = {TRUE}
            <4>1. 0 \in Int /\ n \in Nat /\ 0 < 1
                BY <2>2
            <4>2. is_valid_mmr_size_inner[<<0, n>>] = {0 = 0}
                BY <4>1, ValidEquation
            <4> QED
                BY <4>2
        <3>3. IsSize(n)
            <4>1. MmrSize(P(j)) = n /\ P(j) \in 1 .. n
                BY <2>4, <2>5, SizeOfPower
            <4> QED
                BY <4>1 DEF IsSize
        <3>4. {TRUE} = {IsSize(n)}
            BY <3>3, Zenon
        <3> HIDE DEF Bad
        <3> QED
            BY <2>1, <3>1, <3>2, <3>4 DEF Bad
    <2>6. CASE n < 2 * P(j) - 1
        <3> DEFINE d == j - 1
                   p == P(j) - 1
                   m == n - p
        <3>1. j # 0
            BY <2>2, <2>6, PowTypes
        <3>2. d \in 0 .. MaxHeight - 1 /\ d \in 0 .. MaxHeight + 1 /\ d + 1 = j
              /\ d \in 0 .. MaxHeight + 2
            BY <2>4, <3>1, Heights
        <3>3. P(j) = 2 * P(d) /\ P(d) \in Nat \ {0}
            <4>1. P(d + 1) = 2 * P(d) /\ P(d) \in Nat \ {0}
                BY <3>2, Heights
            <4> QED
                BY <3>2, <4>1
        <3>4. /\ p = 2 * P(d) - 1 /\ 2 * P(d) - 1 < n /\ n < 4 * P(d) - 1
              /\ p \in Nat \ {0} /\ m \in Nat \ {0} /\ m <= p /\ m < n /\ P(d) <= p /\ p < 2 * P(d)
            BY <2>2, <2>3, <2>4, <2>6, <3>3
        <3>5. is_valid_mmr_size_inner[<<n, 0>>] = is_valid_mmr_size_inner[<<m, p>>]
            <4>1. p = (IF n < 2 * P(j) - 1 THEN P(j) - 1 ELSE n) /\ p # 0 /\ 0 \in Nat
                BY <2>6, <3>4
            <4> HIDE DEF p
            <4> QED
                BY <2>2, <2>3, <2>4, <4>1, TakesLargestPeak
        <3>6. IsSize(n) <=> n # 4 * P(d) - 2 /\ IsSize(n - (2 * P(d) - 1))
            <4> HIDE DEF d
            <4> QED
                BY <2>2, <3>2, <3>4, SizeSplits
        <3>7. n - (2 * P(d) - 1) = m /\ (n = 4 * P(d) - 2 <=> m = p)
            BY <2>2, <3>3
        <3> HIDE DEF d, m, p
        <3>8. CASE m = p
            <4>1. p \in Nat /\ d \in 0 .. MaxHeight + 1 /\ p = 2 * P(d) - 1
                BY <3>2, <3>4
            <4>2. is_valid_mmr_size_inner[<<p, p>>] = {FALSE}
                BY <4>1, NoTwins
            <4>3. IsSize(n) = FALSE
                BY <3>6, <3>7, <3>8
            <4> QED
                BY <2>1, <3>5, <3>8, <4>2, <4>3 DEF Bad
        <3>9. CASE m # p
            <4>1. m < P(MaxHeight + 1) /\ ~(n <= m) /\ m < p
                <5>1. P(MaxHeight + 1) \in Nat
                    BY Heights
                <5> QED
                    BY <2>2, <3>4, <3>9, <5>1
            <4>2. is_valid_mmr_size_inner[<<m, 0>>] = {IsSize(m)}
                <5>1. m \notin Bad
                    BY <2>1, <4>1
                <5> QED
                    BY <3>4, <4>1, <5>1 DEF Bad
            <4>3. PICK l \in 0 .. MaxHeight : P(l) <= m /\ m < P(l + 1)
                BY <3>4, <4>1, HighestPeak
            <4>4. l \in 0 .. MaxHeight + 1 /\ P(l + 1) = 2 * P(l)
                BY Heights
            <4> DEFINE q == IF m < 2 * P(l) - 1 THEN P(l) - 1 ELSE m
            <4>5. /\ q \in 1 .. m
                  /\ is_valid_mmr_size_inner[<<m, p>>] =
                         IF q = p THEN {FALSE} ELSE is_valid_mmr_size_inner[<<m - q, q>>]
                <5>1. m < 2 * P(l)
                    BY <4>3, <4>4
                <5> HIDE DEF q
                <5> QED
                    BY <3>4, <4>3, <4>4, <5>1, TakesLargestPeak DEF q
            <4>6. is_valid_mmr_size_inner[<<m, 0>>] =
                         IF q = 0 THEN {FALSE} ELSE is_valid_mmr_size_inner[<<m - q, q>>]
                <5>1. m < 2 * P(l) /\ 0 \in Nat
                    BY <4>3, <4>4
                <5> HIDE DEF q
                <5> QED
                    BY <3>4, <4>3, <4>4, <5>1, TakesLargestPeak DEF q
            <4> HIDE DEF q
            <4>7. q # 0 /\ q # p
                BY <3>4, <4>1, <4>5
            <4>8. is_valid_mmr_size_inner[<<n, 0>>] = {IsSize(m)}
                BY <3>5, <4>2, <4>5, <4>6, <4>7
            <4>9. IsSize(n) <=> IsSize(m)
                BY <3>6, <3>7, <3>9
            <4>10. {IsSize(n)} = {IsSize(m)}
                <5>1. IsSize(n) \in BOOLEAN /\ IsSize(m) \in BOOLEAN
                    BY DEF IsSize
                <5> QED
                    BY <4>9, <5>1
            <4> QED
                BY <2>1, <4>8, <4>10 DEF Bad
        <3> QED
            BY <3>8, <3>9
    <2> QED
        BY <2>2, <2>4, <2>5, <2>6
<1> QED
    BY <1>1

-----------------------------------------------------------------------------
(* Peaks.                                                                  *)

Jump(n) == left_child_jump_until_inside_mmr(n)

(* left_child_jump_until_inside_mmr satisfies its recursion.               *)
LEMMA JumpEquation ==
    ASSUME NEW n \in Int, NEW pos \in Int, NEW h \in -1 .. MaxBits
    PROVE  Jump(n)[<<pos, h>>] =
               IF pos <= n THEN {pos}
               ELSE IF h >= 0 THEN Jump(n)[<<pos - P(h), h - 1>>] ELSE {}
<1> DEFINE D == Int \X (-1 .. MaxBits)
           size == [c \in D |-> c[2] + 1]
           R == SUBSET Int
           Value(c, f) ==
               (IF RangeCheck(n - c[1]) THEN {c[1]} ELSE {}) \union
               (IF RangeCheck(c[1] - n - 1) /\ c[2] >= 0
                THEN f[<<c[1] - pow2_array[c[2]], c[2] - 1>>] ELSE {})
           Step == [a \in D \X [D -> R] |-> Value(a[1], a[2])]
           Def(f) == f = [c \in D |-> Value(c, f)]
<1>0. MaxBits \in Nat
    BY PowTypes
<1>1. ASSUME NEW c \in D, c[2] >= 0
      PROVE  /\ <<c[1] - pow2_array[c[2]], c[2] - 1>> \in D
             /\ size[<<c[1] - pow2_array[c[2]], c[2] - 1>>] < size[c]
             /\ c[2] - 1 \in -1 .. MaxBits /\ c[2] \in 0 .. MaxBits
    <2>1. c[1] \in Int /\ c[2] \in 0 .. MaxBits /\ c[2] - 1 \in -1 .. MaxBits
        BY <1>0, <1>1
    <2>2. P(c[2]) \in Int
        BY <2>1, PowTypes
    <2> QED
        BY <2>1, <2>2 DEF P
<1>2. ASSUME NEW c \in D, NEW f \in [D -> R]
      PROVE  Value(c, f) \in R
    <2>1. c[2] >= 0 => f[<<c[1] - pow2_array[c[2]], c[2] - 1>>] \in R
        <3> HIDE DEF D, R
        <3> QED
            BY <1>1
    <2>2. c[1] \in Int
        OBVIOUS
    <2> HIDE DEF D
    <2> QED
        BY <2>1, <2>2
<1>3. Step \in [D \X [D -> R] -> R]
    <2> HIDE DEF Value, R, D
    <2> QED
        BY <1>2
<1>4. ASSUME NEW c \in D, NEW f \in [D -> R], NEW g \in [D -> R],
             \A e \in D : size[e] < size[c] => f[e] = g[e]
      PROVE  Step[<<c, f>>] = Step[<<c, g>>]
    <2>1. Value(c, f) = Value(c, g)
        <3>1. c[2] >= 0 => f[<<c[1] - pow2_array[c[2]], c[2] - 1>>]
                             = g[<<c[1] - pow2_array[c[2]], c[2] - 1>>]
            <4> HIDE DEF D, size
            <4> QED
                BY <1>1, <1>4
        <3> QED
            BY <3>1
    <2> HIDE DEF Value, R, D
    <2> QED
        BY <2>1
<1>5. LooksDown(D, size, R, Step)
    <2>1. size \in [D -> Nat] /\ R # {}
        BY <1>0
    <2> HIDE DEF D, size, R, Step
    <2> QED
        BY <1>3, <1>4, <2>1 DEF LooksDown
<1>6. \E f : Def(f)
    <2>1. PICK f : Follows(f, D, R, Step)
        <3> HIDE DEF D, size, R, Step
        <3> QED
            BY <1>5, RecursionExists
    <2> HIDE DEF Value, R, D
    <2>2. f \in [D -> R] /\ \A c \in D : f[c] = Value(c, f)
        BY <2>1 DEF Follows
    <2>3. f = [c \in D |-> Value(c, f)]
        BY <2>2
    <2> QED
        BY <2>3
<1>7. Def(Jump(n))
    <2>1. Jump(n) = CHOOSE f : Def(f)
        BY DEF Jump, left_child_jump_until_inside_mmr
    <2> HIDE DEF Def
    <2> QED
        BY <1>6, <2>1
<1>8. <<pos, h>> \in D /\ <<pos, h>>[1] = pos /\ <<pos, h>>[2] = h
    OBVIOUS
<1>9. Jump(n)[<<pos, h>>] = Value(<<pos, h>>, Jump(n))
    <2> HIDE DEF Value, D
    <2> QED
        BY <1>7, <1>8
<1> QED
    BY <1>9 DEF RangeCheck, P

Moved(s, S) == {s + u : u \in S}

(* It jumps the same way in a forest that stands further to the right.     *)
LEMMA JumpShifts ==
    ASSUME NEW n \in Int, NEW s \in Int, NEW pos \in Int, NEW h \in -1 .. MaxBits
    PROVE  Jump(s + n)[<<s + pos, h>>] = Moved(s, Jump(n)[<<pos, h>>])
<1> DEFINE Holds(g) == \A p \in Int : Jump(s + n)[<<s + p, g>>] = {s + u : u \in Jump(n)[<<p, g>>]}
           Bad == {i \in Nat : i - 1 \in -1 .. MaxBits /\ ~Holds(i - 1)}
<1>1. Bad = {}
    <2> SUFFICES ASSUME Bad # {}
                 PROVE  FALSE
        OBVIOUS
    <2>1. PICK m \in Bad : \A i \in Bad : m <= i
        <3>1. Bad \in SUBSET Nat
            OBVIOUS
        <3> HIDE DEF Bad
        <3> QED
            BY <3>1, SmallestExists
    <2> DEFINE g == m - 1
    <2>2. m \in Nat /\ g \in -1 .. MaxBits /\ ~Holds(g)
        BY <2>1
    <2>3. g >= 0 => Holds(g - 1) /\ g - 1 \in -1 .. MaxBits /\ g \in 0 .. MaxBits
        <3> SUFFICES ASSUME g >= 0
                     PROVE  Holds(g - 1) /\ g - 1 \in -1 .. MaxBits /\ g \in 0 .. MaxBits
            OBVIOUS
        <3>1. m - 1 \in Nat /\ (m - 1) - 1 \in -1 .. MaxBits /\ ~(m <= m - 1)
            BY <2>2, PowTypes
        <3>2. m - 1 \notin Bad
            <4> HIDE DEF Bad
            <4> QED
                BY <2>1, <3>1
        <3> HIDE DEF Holds
        <3>3. Holds((m - 1) - 1)
            BY <3>1, <3>2
        <3> QED
            BY <2>2, <3>1, <3>3
    <2> HIDE DEF g, Bad
    <2>4. ASSUME NEW p \in Int
          PROVE  Jump(s + n)[<<s + p, g>>] = {s + u : u \in Jump(n)[<<p, g>>]}
        <3>1. s + n \in Int /\ s + p \in Int /\ (s + p <= s + n <=> p <= n)
            OBVIOUS
        <3>2. Jump(s + n)[<<s + p, g>>] =
                 IF p <= n THEN {s + p}
                 ELSE IF g >= 0 THEN Jump(s + n)[<<(s + p) - P(g), g - 1>>] ELSE {}
            BY <2>2, <3>1, JumpEquation
        <3>3. Jump(n)[<<p, g>>] = IF p <= n THEN {p}
                               ELSE IF g >= 0 THEN Jump(n)[<<p - P(g), g - 1>>] ELSE {}
            BY <2>2, JumpEquation
        <3>4. ASSUME g >= 0
              PROVE  Jump(s + n)[<<(s + p) - P(g), g - 1>>] = {s + u : u \in Jump(n)[<<p - P(g), g - 1>>]}
            <4>1. P(g) \in Int
                BY <2>3, <3>4, PowTypes
            <4> DEFINE q == p - P(g)
            <4>2. q \in Int /\ s + q = (s + p) - P(g)
                BY <4>1
            <4> HIDE DEF q
            <4>3. Jump(s + n)[<<s + q, g - 1>>] = {s + u : u \in Jump(n)[<<q, g - 1>>]}
                BY <2>3, <3>4, <4>2
            <4> QED
                BY <4>2, <4>3 DEF q
        <3> QED
            BY <3>2, <3>3, <3>4
    <2> QED
        BY <2>2, <2>4
<1>2. h + 1 \in Nat /\ (h + 1) - 1 = h
    BY PowTypes
<1>3. Holds(h)
    <2> HIDE DEF Holds
    <2> QED
        BY <1>1, <1>2
<1> QED
    BY <1>3 DEF Moved

(* The first peak, for the one bit length there is.                        *)
LEMMA FirstPeak ==
    ASSUME NEW b \in 1 .. MaxBits, NEW n \in Nat, P(b - 1) <= n, n < P(b)
    PROVE  compute_first_peak_pos(n) = {IF n = P(b) - 1 THEN n ELSE P(b - 1) - 1}
<1>1. get_felt_bitlength(n) = {b}
    BY BitLength
<1> QED
    BY <1>1 DEF compute_first_peak_pos, P

(* The first peak is one of the nodes.                                     *)
LEMMA FirstPeakBounds ==
    ASSUME NEW n \in Nat
    PROVE  compute_first_peak_pos(n) \in SUBSET (1 .. n)
<1> SUFFICES ASSUME NEW b \in get_felt_bitlength(n)
             PROVE  (IF n = pow2_array[b] - 1 THEN n ELSE pow2_array[b - 1] - 1) \in 1 .. n
    BY DEF compute_first_peak_pos
<1>1. /\ b \in 1 .. MaxBits /\ b \in 0 .. MaxBits /\ b - 1 \in 0 .. MaxBits - 1
      /\ b - 1 \in 0 .. MaxBits /\ (b - 1) + 1 = b
    BY PowTypes DEF get_felt_bitlength
<1>2. /\ P((b - 1) + 1) = 2 * P(b - 1) /\ P(b) \in Nat \ {0} /\ P(b - 1) \in Nat \ {0}
      /\ (b - 1) + 1 <= P(b - 1) /\ (b = 1 => P(b - 1) = 1)
    BY <1>1, PowTypes
<1>3. n < P(b) /\ P(b - 1) <= n
    BY <1>2 DEF get_felt_bitlength, RangeCheck, P
<1>4. (IF n = P(b) - 1 THEN n ELSE P(b - 1) - 1) \in 1 .. n
    BY <1>1, <1>2, <1>3
<1> QED
    BY <1>4 DEF P

(* From the highest perfect tree that may stand first, the jump leads to   *)
(* the first peak.                                                         *)
LEMMA JumpsToFirstPeak ==
    ASSUME NEW n \in Nat \ {0}, NEW c \in 1 .. MaxBits
    PROVE  Jump(n)[<<P(c) - 1, c - 1>>] =
               IF n < P(c) - 1 THEN compute_first_peak_pos(n) ELSE {P(c) - 1}
<1> DEFINE Holds(d) == Jump(n)[<<P(d) - 1, d - 1>>] =
                           IF n < P(d) - 1 THEN compute_first_peak_pos(n) ELSE {P(d) - 1}
           Bad == {d \in 1 .. MaxBits : ~Holds(d)}
<1>1. Bad = {}
    <2> SUFFICES ASSUME Bad # {}
                 PROVE  FALSE
        OBVIOUS
    <2>1. PICK m \in Bad : \A d \in Bad : m <= d
        <3>1. Bad \in SUBSET Nat
            BY PowTypes
        <3> HIDE DEF Bad
        <3> QED
            BY <3>1, SmallestExists
    <2>2. m \in 1 .. MaxBits /\ ~Holds(m)
        BY <2>1
    <2>3. /\ m \in 0 .. MaxBits /\ m - 1 \in 0 .. MaxBits /\ m - 1 \in 0 .. MaxBits - 1
          /\ (m - 1) + 1 = m /\ m - 1 \in -1 .. MaxBits /\ m - 1 >= 0
        BY <2>2, PowTypes
    <2>4. P(m) \in Nat \ {0} /\ P(m - 1) \in Nat \ {0} /\ P(m) = 2 * P(m - 1)
          /\ P(m) - 1 \in Int /\ P(m - 1) - 1 \in Int
        <3>1. P((m - 1) + 1) = 2 * P(m - 1) /\ P(m) \in Nat \ {0} /\ P(m - 1) \in Nat \ {0}
            BY <2>3, PowTypes
        <3> QED
            BY <2>3, <3>1
    <2>5. Jump(n)[<<P(m) - 1, m - 1>>] =
             IF P(m) - 1 <= n THEN {P(m) - 1}
             ELSE Jump(n)[<<(P(m) - 1) - P(m - 1), (m - 1) - 1>>]
        <3> DEFINE pos == P(m) - 1
                   h == m - 1
        <3>1. pos \in Int /\ h \in -1 .. MaxBits /\ h >= 0 /\ n \in Int
            BY <2>3, <2>4
        <3> HIDE DEF pos, h
        <3>2. Jump(n)[<<pos, h>>] = IF pos <= n THEN {pos} ELSE Jump(n)[<<pos - P(h), h - 1>>]
            BY <3>1, JumpEquation
        <3> QED
            BY <3>2 DEF pos, h
    <2>6. n < P(m) - 1
        BY <2>2, <2>4, <2>5
    <2>7. m # 1
        <3>1. m = 1 => P(m - 1) = 1
            BY PowTypes
        <3> QED
            BY <2>4, <2>6, <3>1
    <2>8. m - 1 \in 1 .. MaxBits /\ ~(m <= m - 1)
        BY <2>2, <2>3, <2>7
    <2>9. Holds(m - 1)
        <3> HIDE DEF Holds
        <3> QED
            BY <2>1, <2>8
    <2>10. Jump(n)[<<P(m) - 1, m - 1>>] = Jump(n)[<<P(m - 1) - 1, (m - 1) - 1>>]
        <3>1. (P(m) - 1) - P(m - 1) = P(m - 1) - 1 /\ ~(P(m) - 1 <= n)
            BY <2>4, <2>6
        <3> QED
            BY <2>5, <3>1
    <2>11. CASE n < P(m - 1) - 1
        BY <2>2, <2>6, <2>9, <2>10, <2>11
    <2>12. CASE ~(n < P(m - 1) - 1)
        <3>1. CASE n = P(m - 1) - 1
            <4> DEFINE b == m - 1
            <4>1. b \in 1 .. MaxBits /\ b - 1 \in 0 .. MaxBits - 1 /\ (b - 1) + 1 = b
                BY <2>8, PowTypes
            <4>2. P((b - 1) + 1) = 2 * P(b - 1) /\ P(b - 1) \in Nat \ {0}
                <5>1. b - 1 \in 0 .. MaxBits
                    BY <4>1, PowTypes
                <5> QED
                    BY <4>1, <5>1, PowTypes
            <4>3. P(b - 1) <= n /\ n < P(b)
                <5>1. P(b) = 2 * P(b - 1) /\ n = P(b) - 1 /\ P(b - 1) \in Nat \ {0}
                    BY <3>1, <4>1, <4>2
                <5> HIDE DEF b
                <5> QED
                    BY <5>1
            <4>4. compute_first_peak_pos(n) = {IF n = P(b) - 1 THEN n ELSE P(b - 1) - 1}
                <5> HIDE DEF b
                <5> QED
                    BY <4>1, <4>3, FirstPeak
            <4>5. compute_first_peak_pos(n) = {P(m - 1) - 1}
                BY <3>1, <4>4
            <4> QED
                BY <2>2, <2>6, <2>9, <2>10, <2>12, <4>5
        <3>2. CASE n # P(m - 1) - 1
            <4>1. P(m - 1) <= n /\ n < P(m) /\ n # P(m) - 1
                BY <2>4, <2>6, <2>12, <3>2
            <4>2. compute_first_peak_pos(n) = {P(m - 1) - 1}
                BY <2>2, <4>1, FirstPeak
            <4> QED
                BY <2>2, <2>6, <2>9, <2>10, <2>12, <4>2
        <3> QED
            BY <3>1, <3>2
    <2> QED
        BY <2>11, <2>12
<1> QED
    BY <1>1

(* From the right sibling of a node it leads to a node right of the first. *)
LEMMA JumpBounds ==
    ASSUME NEW n \in Nat, NEW pos \in Nat, pos < n, NEW h \in 0 .. MaxBits - 1
    PROVE  Jump(n)[<<RightSibling(pos, h), h>>] \in SUBSET (pos + 1 .. n)
<1> DEFINE r == n - pos
           c == h + 1
<1>1. /\ r \in Nat \ {0} /\ r \in Int /\ pos + r = n /\ pos \in Int
      /\ c \in 1 .. MaxBits /\ c \in 0 .. MaxBits /\ c - 1 = h /\ h \in -1 .. MaxBits
    BY PowTypes
<1>2. P(c) \in Nat \ {0} /\ 2 <= P(c)
    BY <1>1, PowTypes
<1>3. RightSibling(pos, h) = pos + (P(c) - 1) /\ P(c) - 1 \in Int
    BY <1>2 DEF RightSibling, P
<1> HIDE DEF r, c
<1>4. Jump(n)[<<RightSibling(pos, h), h>>] = Moved(pos, Jump(r)[<<P(c) - 1, h>>])
    <2> DEFINE q == P(c) - 1
    <2>1. q \in Int /\ RightSibling(pos, h) = pos + q
        BY <1>3
    <2> HIDE DEF q
    <2>2. Jump(pos + r)[<<pos + q, h>>] = Moved(pos, Jump(r)[<<q, h>>])
        BY <1>1, <2>1, JumpShifts, ZenonT(30)
    <2> QED
        BY <1>1, <2>1, <2>2 DEF q
<1>5. Jump(r)[<<P(c) - 1, h>>] =
         IF r < P(c) - 1 THEN compute_first_peak_pos(r) ELSE {P(c) - 1}
    <2>1. Jump(r)[<<P(c) - 1, c - 1>>] =
             IF r < P(c) - 1 THEN compute_first_peak_pos(r) ELSE {P(c) - 1}
        BY <1>1, JumpsToFirstPeak
    <2> QED
        BY <1>1, <2>1
<1>6. Jump(r)[<<P(c) - 1, h>>] \in SUBSET (1 .. r)
    <2>1. compute_first_peak_pos(r) \in SUBSET (1 .. r)
        BY <1>1, FirstPeakBounds
    <2>2. ~(r < P(c) - 1) => P(c) - 1 \in 1 .. r
        BY <1>1, <1>2
    <2> QED
        BY <1>5, <2>1, <2>2
<1>7. \A u \in 1 .. r : pos + u \in pos + 1 .. n
    BY <1>1
<1> QED
    BY <1>4, <1>6, <1>7 DEF Moved

(* compute_height returns heights.                                         *)
LEMMA HeightBounds ==
    \A n \in Nat : compute_height[n] \in SUBSET (0 .. MaxBits - 1)
<1> DEFINE Holds(n) == compute_height[n] \in SUBSET (0 .. MaxBits - 1)
           Bad == {n \in Nat : ~Holds(n)}
<1>1. Bad = {}
    <2> SUFFICES ASSUME Bad # {}
                 PROVE  FALSE
        OBVIOUS
    <2>1. PICK m \in Bad : \A n \in Bad : m <= n
        <3>1. Bad \in SUBSET Nat
            OBVIOUS
        <3> HIDE DEF Bad
        <3> QED
            BY <3>1, SmallestExists
    <2>2. m \in Nat /\ ~Holds(m)
        BY <2>1
    <2>3. ASSUME NEW n \in 0 .. m - 1
          PROVE  Holds(n)
        <3>1. n \in Nat /\ ~(m <= n)
            BY <2>2
        <3> HIDE DEF Holds
        <3> QED
            BY <2>1, <3>1
    <2> DEFINE Results(b) == IF m = P(b) - 1 THEN {b - 1}
                             ELSE IF b \in get_felt_bitlength(m)
                                  THEN compute_height[JumpLeft(m, b)] ELSE {}
    <2>4. ASSUME NEW b \in 1 .. MaxBits
          PROVE  Results(b) \in SUBSET (0 .. MaxBits - 1)
        <3>1. CASE m = P(b) - 1
            <4>1. b - 1 \in 0 .. MaxBits - 1
                BY PowTypes
            <4> QED
                BY <3>1, <4>1
        <3>2. CASE m # P(b) - 1 /\ b \in get_felt_bitlength(m)
            <4>1. JumpLeft(m, b) \in 0 .. m - 1
                BY <2>2, <3>2, JumpsLeft DEF P
            <4>2. Holds(JumpLeft(m, b))
                <5> HIDE DEF Holds
                <5> QED
                    BY <2>3, <4>1
            <4> QED
                BY <3>2, <4>2
        <3>3. CASE m # P(b) - 1 /\ b \notin get_felt_bitlength(m)
            BY <3>3
        <3> QED
            BY <3>1, <3>2, <3>3
    <2>5. compute_height[m] = UNION {Results(b) : b \in 1 .. MaxBits}
        BY <2>2, HeightEquation
    <2> HIDE DEF Results
    <2>6. compute_height[m] \in SUBSET (0 .. MaxBits - 1)
        BY <2>4, <2>5
    <2> QED
        BY <2>2, <2>6
<1> QED
    BY <1>1

Inner(n) == compute_peaks_inner(n)

PeaksFrom(n, pos, f) ==
    IF pos = n THEN {<<pos>>}
    ELSE UNION { {<<pos>> \o rest : rest \in UNION {f[p] : p \in Jump(n)[<<RightSibling(pos, h), h>>]}}
                 : h \in compute_height[pos] }

(* compute_peaks_inner satisfies its recursion, and returns sequences of   *)
(* positions.                                                              *)
LEMMA InnerEquation ==
    ASSUME NEW n \in Nat, NEW pos \in 1 .. n
    PROVE  Inner(n)[pos] = PeaksFrom(n, pos, Inner(n)) /\ Inner(n)[pos] \in SUBSET Seq(Nat)
<1> DEFINE D == 1 .. n
           size == [c \in D |-> n - c]
           R == SUBSET Seq(Nat)
           Step == [a \in D \X [D -> R] |-> PeaksFrom(n, a[1], a[2])]
           Def(f) == f = [c \in D |-> PeaksFrom(n, c, f)]
<1>1. ASSUME NEW c \in D, c # n, NEW h \in compute_height[c],
             NEW p \in Jump(n)[<<RightSibling(c, h), h>>]
      PROVE  p \in D /\ size[p] < size[c]
    <2>1. c \in Nat /\ c < n /\ h \in 0 .. MaxBits - 1
        BY <1>1, HeightBounds
    <2>2. p \in c + 1 .. n
        BY <2>1, JumpBounds
    <2> QED
        BY <2>1, <2>2
<1>2. ASSUME NEW c \in D, NEW f, \A p \in D : size[p] < size[c] => f[p] \in R
      PROVE  PeaksFrom(n, c, f) \in R
    <2>1. CASE c = n
        <3>1. c \in Nat
            OBVIOUS
        <3>2. <<c>> \in Seq(Nat)
            BY <3>1
        <3> QED
            BY <2>1, <3>2 DEF PeaksFrom
    <2>2. CASE c # n
        <3>1. ASSUME NEW h \in compute_height[c], NEW p \in Jump(n)[<<RightSibling(c, h), h>>],
                     NEW rest \in f[p]
              PROVE  <<c>> \o rest \in Seq(Nat)
            <4>1. p \in D /\ size[p] < size[c]
                BY <1>1, <2>2, <3>1
            <4>2. rest \in Seq(Nat)
                <5> HIDE DEF D, size
                <5> QED
                    BY <1>2, <3>1, <4>1
            <4>3. c \in Nat
                OBVIOUS
            <4> QED
                BY <4>2, <4>3
        <3>2. ASSUME NEW h \in compute_height[c]
              PROVE  {<<c>> \o rest : rest \in
                          UNION {f[p] : p \in Jump(n)[<<RightSibling(c, h), h>>]}} \in R
            BY <3>1
        <3> HIDE DEF R
        <3>3. UNION { {<<c>> \o rest : rest \in
                          UNION {f[p] : p \in Jump(n)[<<RightSibling(c, h), h>>]}}
                      : h \in compute_height[c] } \in R
            BY <3>2 DEF R
        <3> QED
            BY <2>2, <3>3 DEF PeaksFrom
    <2> QED
        BY <2>1, <2>2
<1>3. Step \in [D \X [D -> R] -> R]
    <2> HIDE DEF R, D
    <2> QED
        BY <1>2
<1>4. ASSUME NEW c \in D, NEW f \in [D -> R], NEW g \in [D -> R],
             \A e \in D : size[e] < size[c] => f[e] = g[e]
      PROVE  Step[<<c, f>>] = Step[<<c, g>>]
    <2>1. PeaksFrom(n, c, f) = PeaksFrom(n, c, g)
        <3>1. ASSUME c # n, NEW h \in compute_height[c]
              PROVE  UNION {f[p] : p \in Jump(n)[<<RightSibling(c, h), h>>]}
                       = UNION {g[p] : p \in Jump(n)[<<RightSibling(c, h), h>>]}
            <4>1. \A p \in Jump(n)[<<RightSibling(c, h), h>>] : f[p] = g[p]
                <5> HIDE DEF D, size
                <5> QED
                    BY <1>1, <1>4, <3>1
            <4> QED
                BY <4>1
        <3> QED
            BY <3>1 DEF PeaksFrom
    <2> HIDE DEF R, D
    <2> QED
        BY <2>1
<1>5. LooksDown(D, size, R, Step)
    <2>1. size \in [D -> Nat] /\ R # {}
        OBVIOUS
    <2> HIDE DEF D, size, R, Step
    <2> QED
        BY <1>3, <1>4, <2>1 DEF LooksDown
<1>6. PICK f : Follows(f, D, R, Step)
    <2> HIDE DEF D, size, R, Step
    <2> QED
        BY <1>5, RecursionExists
<1>7. \E g : Def(g)
    <2> HIDE DEF R, D
    <2>1. f \in [D -> R] /\ \A c \in D : f[c] = PeaksFrom(n, c, f)
        BY <1>6 DEF Follows
    <2>2. f = [c \in D |-> PeaksFrom(n, c, f)]
        BY <2>1
    <2> QED
        BY <2>2
<1>8. Def(Inner(n))
    <2>1. Inner(n) = CHOOSE g : Def(g)
        BY DEF Inner, compute_peaks_inner, PeaksFrom, Jump
    <2> HIDE DEF Def
    <2> QED
        BY <1>7, <2>1
<1>9. \A c \in D : Inner(n)[c] = PeaksFrom(n, c, Inner(n))
    <2> HIDE DEF D
    <2> QED
        BY <1>8
<1> DEFINE Bad == {i \in Nat : \E c \in D : size[c] = i /\ Inner(n)[c] \notin R}
<1>10. Bad = {}
    <2> SUFFICES ASSUME Bad # {}
                 PROVE  FALSE
        OBVIOUS
    <2>1. PICK m \in Bad : \A i \in Bad : m <= i
        <3>1. Bad \in SUBSET Nat
            OBVIOUS
        <3> HIDE DEF Bad
        <3> QED
            BY <3>1, SmallestExists
    <2>2. PICK c \in D : size[c] = m /\ Inner(n)[c] \notin R
        BY <2>1
    <2>3. ASSUME NEW p \in D, size[p] < size[c]
          PROVE  Inner(n)[p] \in R
        <3>1. size[p] \in Nat /\ ~(m <= size[p])
            BY <2>2, <2>3
        <3> HIDE DEF D, size, R
        <3> QED
            BY <2>1, <3>1
    <2> HIDE DEF D, size, R
    <2> QED
        BY <1>2, <1>9, <2>2, <2>3
<1>11. size[pos] \in Nat /\ pos \in D
    OBVIOUS
<1> QED
    BY <1>9, <1>10, <1>11

(* The peaks of a forest that is moved to the right.                       *)
MovedPeaks(s, q) == [i \in DOMAIN q |-> s + q[i]]
AllMoved(s, S) == {MovedPeaks(s, q) : q \in S}

(* One peak is moved.                                                      *)
LEMMA MovedSingle ==
    ASSUME NEW s \in Nat, NEW p \in Nat
    PROVE  MovedPeaks(s, <<p>>) = <<s + p>>
BY DEF MovedPeaks

(* A position in front of others.                                          *)
LEMMA InFront ==
    ASSUME NEW p \in Nat, NEW rest \in Seq(Nat)
    PROVE  /\ <<p>> \o rest \in Seq(Nat) /\ Len(<<p>> \o rest) = Len(rest) + 1
           /\ (<<p>> \o rest)[1] = p
           /\ \A i \in 1 .. Len(rest) + 1 : i # 1 => (<<p>> \o rest)[i] = rest[i - 1]
<1>1. <<p>> \in Seq(Nat) /\ Len(<<p>>) = 1 /\ <<p>>[1] = p /\ Len(rest) \in Nat
    OBVIOUS
<1> DEFINE a == <<p>>
<1> HIDE DEF a
<1>2. a \in Seq(Nat) /\ Len(a) = 1 /\ a[1] = p
    BY <1>1 DEF a
<1> DEFINE joined == a \o rest
<1>3. /\ joined \in Seq(Nat) /\ Len(joined) = 1 + Len(rest)
      /\ \A i \in 1 .. 1 + Len(rest) :
             joined[i] = IF i <= 1 THEN a[i] ELSE rest[i - 1]
    <2>1. /\ joined \in Seq(Nat)
          /\ Len(joined) = Len(a) + Len(rest)
          /\ \A i \in 1 .. Len(a) + Len(rest) :
                 joined[i] = IF i <= Len(a) THEN a[i] ELSE rest[i - Len(a)]
        BY <1>2, ConcatProperties, Zenon
    <2> HIDE DEF joined
    <2> QED
        BY <1>2, <2>1, Zenon
<1> HIDE DEF joined
<1>4. joined \in Seq(Nat) /\ Len(joined) = Len(rest) + 1
    BY <1>1, <1>3
<1>5. joined[1] = p
    BY <1>1, <1>2, <1>3
<1>6. \A i \in 1 .. Len(rest) + 1 : i # 1 => joined[i] = rest[i - 1]
    BY <1>1, <1>3
<1> QED
    BY <1>4, <1>5, <1>6 DEF a, joined

(* A peak and the ones behind it are moved.                                *)
LEMMA MovedSequence ==
    ASSUME NEW s \in Nat, NEW p \in Nat, NEW rest \in Seq(Nat)
    PROVE  /\ MovedPeaks(s, rest) \in Seq(Nat) /\ Len(MovedPeaks(s, rest)) = Len(rest)
           /\ MovedPeaks(s, <<p>> \o rest) = <<s + p>> \o MovedPeaks(s, rest)
<1>1. MovedPeaks(s, rest) \in Seq(Nat) /\ Len(MovedPeaks(s, rest)) = Len(rest)
      /\ \A i \in 1 .. Len(rest) : MovedPeaks(s, rest)[i] = s + rest[i] /\ rest[i] \in Nat
    <2> DEFINE m == MovedPeaks(s, rest)
               c == Len(rest)
    <2>1. c \in Nat /\ DOMAIN rest = 1 .. c /\ \A i \in 1 .. c : rest[i] \in Nat
        OBVIOUS
    <2> HIDE DEF c
    <2>2. m = [i \in 1 .. c |-> s + rest[i]]
        BY <2>1 DEF MovedPeaks
    <2> HIDE DEF m
    <2>3. m \in [1 .. c -> Nat] /\ \A i \in 1 .. c : m[i] = s + rest[i]
        BY <2>1, <2>2
    <2>4. m \in Seq(Nat) /\ DOMAIN m = 1 .. c
        BY <2>1, <2>3
    <2>5. Len(m) = c
        BY <2>1, <2>4
    <2> QED
        BY <2>1, <2>3, <2>4, <2>5 DEF m, c
<1> DEFINE a == <<p>> \o rest
           b == <<s + p>> \o MovedPeaks(s, rest)
           l == Len(rest) + 1
<1>2. /\ a \in Seq(Nat) /\ Len(a) = l /\ a[1] = p
      /\ \A i \in 1 .. l : i # 1 => a[i] = rest[i - 1]
    BY InFront
<1>3. /\ b \in Seq(Nat) /\ Len(b) = l /\ b[1] = s + p
      /\ \A i \in 1 .. l : i # 1 => b[i] = MovedPeaks(s, rest)[i - 1]
    <2> DEFINE m == MovedPeaks(s, rest)
               e == s + p
    <2>1. m \in Seq(Nat) /\ Len(m) = Len(rest) /\ e \in Nat
        BY <1>1
    <2> HIDE DEF m, e
    <2>2. /\ <<e>> \o m \in Seq(Nat) /\ Len(<<e>> \o m) = Len(m) + 1 /\ (<<e>> \o m)[1] = e
          /\ \A i \in 1 .. Len(m) + 1 : i # 1 => (<<e>> \o m)[i] = m[i - 1]
        BY <2>1, InFront
    <2> QED
        BY <2>1, <2>2 DEF m, e
<1>4. l \in Nat /\ \A i \in 1 .. l : i # 1 => i - 1 \in 1 .. Len(rest)
    OBVIOUS
<1> HIDE DEF a, b, l
<1>5. \A i \in 1 .. l : s + a[i] = b[i]
    BY <1>1, <1>2, <1>3, <1>4
<1>6. DOMAIN a = 1 .. l /\ DOMAIN b = 1 .. l /\ b = [i \in 1 .. l |-> b[i]]
    BY <1>2, <1>3, <1>4
<1>7. MovedPeaks(s, a) = b
    BY <1>5, <1>6 DEF MovedPeaks
<1> QED
    BY <1>1, <1>7 DEF a, b

(* A position in front of peaks that are moved.                            *)
Leads(e, S) == {<<e>> \o rest : rest \in S}
LeadsMovedPeaks(e, s, S) == {<<e>> \o MovedPeaks(s, q) : q \in S}

(* The two agree. *)
LEMMA LeadsMoved ==
    ASSUME NEW e, NEW s, NEW S
    PROVE  Leads(e, AllMoved(s, S)) = LeadsMovedPeaks(e, s, S)
<1>1. ASSUME NEW z
      PROVE  z \in Leads(e, AllMoved(s, S)) <=> z \in LeadsMovedPeaks(e, s, S)
    BY DEF Leads, LeadsMovedPeaks, AllMoved
<1> QED
    BY <1>1

(* Right of a perfect tree the peaks are those of the forest that stands   *)
(* there.                                                                  *)
LEMMA InnerShifts ==
    ASSUME NEW j \in 0 .. MaxHeight, NEW s, s = 2 * P(j) - 1, NEW n \in 1 .. s, NEW p \in 1 .. n
    PROVE  Inner(s + n)[s + p] = AllMoved(s, Inner(n)[p])
<1>0. /\ P(j) \in Nat \ {0} /\ s \in Nat /\ n \in Nat /\ s + n \in Nat /\ n \in Int /\ s \in Int
      /\ j + 2 \in 1 .. MaxBits /\ (j + 2) - 1 = j + 1 /\ P(j + 1) = 2 * P(j) /\ P(j + 2) = 4 * P(j)
    <2>1. /\ j \in 0 .. MaxHeight + 1 /\ j \in 0 .. MaxHeight + 2 /\ j + 1 \in 0 .. MaxHeight + 1
          /\ (j + 1) + 1 = j + 2 /\ j + 2 \in 1 .. MaxBits /\ (j + 2) - 1 = j + 1
        BY Heights
    <2>2. P(j) \in Nat \ {0} /\ P(j + 1) = 2 * P(j) /\ P((j + 1) + 1) = 2 * P(j + 1)
        BY <2>1, Heights
    <2> QED
        BY <2>1, <2>2
<1> DEFINE Holds(q) == Inner(s + n)[s + q] = AllMoved(s, Inner(n)[q])
           Bad == {i \in Nat : \E q \in 1 .. n : n - q = i /\ ~Holds(q)}
<1>1. ASSUME NEW q \in 1 .. n, \A u \in q + 1 .. n : Holds(u)
      PROVE  Holds(q)
    <2>0. q \in Nat /\ s + q \in 1 .. s + n /\ q \in Int
        BY <1>0
    <2>1. Inner(n)[q] = PeaksFrom(n, q, Inner(n)) /\ Inner(s + n)[s + q] = PeaksFrom(s + n, s + q, Inner(s + n))
        BY <1>0, <2>0, InnerEquation
    <2>2. CASE q = n
        <3>1. Inner(n)[q] = {<<q>>} /\ Inner(s + n)[s + q] = {<<s + q>>}
            BY <2>1, <2>2 DEF PeaksFrom
        <3>2. MovedPeaks(s, <<q>>) = <<s + q>>
            BY <1>0, <2>0, MovedSingle
        <3> QED
            BY <3>1, <3>2 DEF AllMoved
    <2>3. CASE q # n
        <3> DEFINE Ahead(h) == UNION {Inner(n)[u] : u \in Jump(n)[<<RightSibling(q, h), h>>]}
                   Beyond(h) == UNION {Inner(s + n)[v] :
                                       v \in Jump(s + n)[<<RightSibling(s + q, h), h>>]}
                   Led(h) == {<<q>> \o rest : rest \in Ahead(h)}
                   LedBeyond(h) == {<<s + q>> \o rest : rest \in Beyond(h)}
        <3>1. compute_height[s + q] = compute_height[q]
            <4>1. s + q \in Nat /\ P((j + 2) - 1) <= s + q /\ s + q < P(j + 2) - 1
                BY <1>0, <2>0
            <4>2. compute_height[s + q] = compute_height[(s + q) - P((j + 2) - 1) + 1]
                BY <1>0, <4>1, HeightJumps
            <4>3. (s + q) - P((j + 2) - 1) + 1 = q
                BY <1>0, <2>0
            <4> QED
                BY <4>2, <4>3
        <3>2. Inner(n)[q] = UNION {Led(h) : h \in compute_height[q]}
            BY <2>1, <2>3 DEF PeaksFrom
        <3>3. Inner(s + n)[s + q] = UNION {LedBeyond(h) : h \in compute_height[q]}
            <4>1. s + q # s + n
                BY <1>0, <2>0, <2>3
            <4> QED
                BY <2>1, <3>1, <4>1 DEF PeaksFrom
        <3>4. ASSUME NEW h \in compute_height[q]
              PROVE  Beyond(h) = AllMoved(s, Ahead(h)) /\ Ahead(h) \in SUBSET Seq(Nat)
            <4>0. h \in 0 .. MaxBits - 1 /\ h \in -1 .. MaxBits /\ h + 1 \in 0 .. MaxBits
                BY <2>0, <3>4, HeightBounds, PowTypes
            <4> DEFINE w == RightSibling(q, h)
            <4>1. w \in Int /\ RightSibling(s + q, h) = s + w
                <5>1. pow2_array[h + 1] \in Int
                    BY <4>0, PowTypes DEF P
                <5> QED
                    BY <1>0, <2>0, <5>1 DEF RightSibling
            <4>2. Jump(n)[<<w, h>>] \in SUBSET (q + 1 .. n)
                BY <1>0, <2>0, <2>3, <4>0, JumpBounds
            <4> HIDE DEF w
            <4>3. Jump(s + n)[<<s + w, h>>] = Moved(s, Jump(n)[<<w, h>>])
                <5>1. n \in Int /\ s \in Int /\ w \in Int /\ h \in -1 .. MaxBits
                    BY <1>0, <4>0, <4>1
                <5> QED
                    BY <5>1, JumpShifts, ZenonT(30)
            <4>4. ASSUME NEW u \in Jump(n)[<<w, h>>]
                  PROVE  Inner(s + n)[s + u] = AllMoved(s, Inner(n)[u]) /\ Inner(n)[u] \in SUBSET Seq(Nat)
                <5>1. u \in q + 1 .. n /\ u \in 1 .. n
                    BY <2>0, <4>2
                <5>2. Holds(u)
                    <6> HIDE DEF Holds
                    <6> QED
                        BY <1>1, <5>1
                <5> QED
                    BY <1>0, <5>1, <5>2, InnerEquation
            <4>5. Beyond(h) = UNION {Inner(s + n)[v] : v \in Moved(s, Jump(n)[<<w, h>>])}
                BY <4>1, <4>3
            <4>6. Ahead(h) = UNION {Inner(n)[u] : u \in Jump(n)[<<w, h>>]}
                BY DEF w
            <4> HIDE DEF Beyond, Ahead
            <4>7. UNION {Inner(s + n)[v] : v \in Moved(s, Jump(n)[<<w, h>>])}
                    = UNION {AllMoved(s, Inner(n)[u]) : u \in Jump(n)[<<w, h>>]}
                BY <4>4 DEF Moved
            <4>8. UNION {AllMoved(s, Inner(n)[u]) : u \in Jump(n)[<<w, h>>]} = AllMoved(s, Ahead(h))
                BY <4>6 DEF AllMoved
            <4>9. Ahead(h) \in SUBSET Seq(Nat)
                BY <4>4, <4>6
            <4> QED
                BY <4>5, <4>7, <4>8, <4>9
        <3>5. ASSUME NEW h \in compute_height[q]
              PROVE  LedBeyond(h) = AllMoved(s, Led(h))
            <4>1. ASSUME NEW rest \in Ahead(h)
                  PROVE  MovedPeaks(s, <<q>> \o rest) = <<s + q>> \o MovedPeaks(s, rest)
                <5> HIDE DEF Ahead
                <5>1. s \in Nat /\ q \in Nat /\ rest \in Seq(Nat)
                    BY <1>0, <2>0, <3>4, <3>5, <4>1
                <5> QED
                    BY <5>1, MovedSequence, ZenonT(30)
            <4>2. Beyond(h) = AllMoved(s, Ahead(h))
                BY <3>4, <3>5
            <4> HIDE DEF Ahead, Beyond
            <4>3. LedBeyond(h) = LeadsMovedPeaks(s + q, s, Ahead(h))
                <5>1. LedBeyond(h) = Leads(s + q, Beyond(h))
                    BY DEF Leads
                <5> QED
                    BY <4>2, <5>1, LeadsMoved
            <4>4. LeadsMovedPeaks(s + q, s, Ahead(h)) = {MovedPeaks(s, <<q>> \o rest) : rest \in Ahead(h)}
                BY <4>1 DEF LeadsMovedPeaks
            <4>5. AllMoved(s, Led(h)) = {MovedPeaks(s, <<q>> \o rest) : rest \in Ahead(h)}
                BY DEF AllMoved
            <4> QED
                BY <4>3, <4>4, <4>5
        <3> HIDE DEF Led, LedBeyond
        <3>6. Inner(s + n)[s + q] = UNION {AllMoved(s, Led(h)) : h \in compute_height[q]}
            BY <3>3, <3>5
        <3>7. UNION {AllMoved(s, Led(h)) : h \in compute_height[q]}
                = AllMoved(s, UNION {Led(h) : h \in compute_height[q]})
            BY DEF AllMoved
        <3> QED
            BY <3>2, <3>6, <3>7
    <2> QED
        BY <2>2, <2>3
<1>2. Bad = {}
    <2> SUFFICES ASSUME Bad # {}
                 PROVE  FALSE
        OBVIOUS
    <2>1. PICK m \in Bad : \A i \in Bad : m <= i
        <3>1. Bad \in SUBSET Nat
            OBVIOUS
        <3> HIDE DEF Bad
        <3> QED
            BY <3>1, SmallestExists
    <2>2. PICK q \in 1 .. n : n - q = m /\ ~Holds(q)
        BY <2>1
    <2>3. ASSUME NEW u \in q + 1 .. n
          PROVE  Holds(u)
        <3>1. n - u \in Nat /\ ~(m <= n - u) /\ u \in 1 .. n
            BY <1>0, <2>2
        <3> HIDE DEF Holds
        <3> QED
            BY <2>1, <3>1
    <2> HIDE DEF Holds, Bad
    <2> QED
        BY <1>1, <2>2, <2>3
<1>3. n - p \in Nat
    BY <1>0
<1>4. Holds(p)
    <2> HIDE DEF Holds
    <2> QED
        BY <1>2, <1>3
<1> QED
    BY <1>4

(* The first peak of a forest is the highest perfect tree, and the others  *)
(* are the peaks of the forest right of it.                                *)
LEMMA FirstOfPeaks ==
    ASSUME NEW j \in 0 .. MaxHeight, NEW s, s = 2 * P(j) - 1, NEW n \in 0 .. s - 1
    PROVE  /\ n = 0 => compute_peaks_positions(s) = {<<s>>}
           /\ n # 0 => /\ compute_peaks_positions(n) \in SUBSET Seq(Nat)
                       /\ compute_peaks_positions(s + n) = LeadsMovedPeaks(s, s, compute_peaks_positions(n))
<1>0. /\ P(j) \in Nat \ {0} /\ s \in Nat \ {0} /\ s \in Int /\ n \in Nat /\ s + n \in Nat
      /\ j + 1 \in 1 .. MaxBits /\ j + 2 \in 1 .. MaxBits /\ (j + 1) - 1 = j /\ (j + 2) - 1 = j + 1
      /\ P(j + 1) = 2 * P(j) /\ P(j + 2) = 4 * P(j) /\ j \in Nat /\ j \in -1 .. MaxBits
    <2>1. /\ j \in 0 .. MaxHeight + 1 /\ j \in 0 .. MaxHeight + 2 /\ j + 1 \in 0 .. MaxHeight + 1
          /\ (j + 1) + 1 = j + 2 /\ j + 1 \in 1 .. MaxBits /\ j + 2 \in 1 .. MaxBits
          /\ (j + 2) - 1 = j + 1 /\ (j + 1) - 1 = j /\ j \in Nat /\ j \in -1 .. MaxBits
        BY Heights
    <2>2. P(j) \in Nat \ {0} /\ P(j + 1) = 2 * P(j) /\ P((j + 1) + 1) = 2 * P(j + 1)
        BY <2>1, Heights
    <2> QED
        BY <2>1, <2>2
<1>1. CASE n = 0
    <2>1. P((j + 1) - 1) <= s /\ s < P(j + 1) /\ s = P(j + 1) - 1
        BY <1>0
    <2>2. compute_first_peak_pos(s) = {s}
        BY <1>0, <2>1, FirstPeak
    <2>3. Inner(s)[s] = {<<s>>}
        <3>1. s \in 1 .. s
            BY <1>0
        <3>2. Inner(s)[s] = PeaksFrom(s, s, Inner(s))
            BY <1>0, <3>1, InnerEquation
        <3> QED
            BY <3>2 DEF PeaksFrom
    <2>4. compute_peaks_positions(s) = {<<s>>}
        BY <2>2, <2>3 DEF compute_peaks_positions, Inner
    <2> QED
        BY <1>1, <2>4
<1>2. CASE n # 0
    <2>1. compute_first_peak_pos(s + n) = {s}
        <3> DEFINE N == s + n
        <3>1. N \in Nat /\ P((j + 2) - 1) <= N /\ N < P(j + 2) /\ N # P(j + 2) - 1
            BY <1>0, <1>2
        <3> HIDE DEF N
        <3>2. compute_first_peak_pos(N) = {P((j + 2) - 1) - 1}
            BY <1>0, <3>1, FirstPeak
        <3> QED
            BY <1>0, <3>2 DEF N
    <2>2. s \in 1 .. s + n /\ s # s + n /\ s = P(j + 1) - 1 /\ n \in 1 .. s /\ n \in Int
          /\ n \in Nat \ {0}
        BY <1>0, <1>2
    <2>3. compute_height[s] = {j}
        BY <1>0, <2>2, HeightOfAllOnes
    <2>4. RightSibling(s, j) = s + s
        BY <1>0 DEF RightSibling, P
    <2>5. Jump(s + n)[<<s + s, j>>] = Moved(s, compute_first_peak_pos(n))
        <3>1. Jump(s + n)[<<s + s, j>>] = Moved(s, Jump(n)[<<s, j>>])
            BY <1>0, <2>2, JumpShifts, Zenon
        <3>2. Jump(n)[<<s, j>>] = compute_first_peak_pos(n)
            <4>1. Jump(n)[<<P(j + 1) - 1, (j + 1) - 1>>] = compute_first_peak_pos(n)
                <5>1. n < P(j + 1) - 1
                    BY <1>0, <2>2
                <5> QED
                    BY <1>0, <2>2, <5>1, JumpsToFirstPeak
            <4> QED
                BY <1>0, <2>2, <4>1
        <3> QED
            BY <3>1, <3>2
    <2>6. compute_first_peak_pos(n) \in SUBSET (1 .. n)
        BY <1>0, FirstPeakBounds
    <2>7. Inner(s + n)[s] = {<<s>> \o rest : rest \in
              UNION {Inner(s + n)[p] : p \in Moved(s, compute_first_peak_pos(n))}}
        <3>1. Inner(s + n)[s] = PeaksFrom(s + n, s, Inner(s + n))
            BY <1>0, <2>2, InnerEquation
        <3> QED
            BY <2>2, <2>3, <2>4, <2>5, <3>1 DEF PeaksFrom
    <2>8. compute_peaks_positions(s + n) = Inner(s + n)[s]
        BY <2>1 DEF compute_peaks_positions, Inner
    <2>9. compute_peaks_positions(n) = UNION {Inner(n)[p] : p \in compute_first_peak_pos(n)}
        BY DEF compute_peaks_positions, Inner
    <2>10. ASSUME NEW p \in compute_first_peak_pos(n)
           PROVE  Inner(s + n)[s + p] = AllMoved(s, Inner(n)[p]) /\ Inner(n)[p] \in SUBSET Seq(Nat)
        <3>1. p \in 1 .. n
            BY <2>6, <2>10
        <3>2. Inner(s + n)[s + p] = AllMoved(s, Inner(n)[p])
            BY <2>2, <3>1, InnerShifts, Zenon
        <3>3. Inner(n)[p] \in SUBSET Seq(Nat)
            BY <1>0, <3>1, InnerEquation
        <3> QED
            BY <3>2, <3>3
    <2>11. UNION {Inner(s + n)[p] : p \in Moved(s, compute_first_peak_pos(n))}
             = UNION {AllMoved(s, Inner(n)[p]) : p \in compute_first_peak_pos(n)}
        BY <2>10 DEF Moved
    <2>12. UNION {AllMoved(s, Inner(n)[p]) : p \in compute_first_peak_pos(n)}
             = AllMoved(s, compute_peaks_positions(n))
        BY <2>9 DEF AllMoved
    <2>13. Inner(s + n)[s] = Leads(s, AllMoved(s, compute_peaks_positions(n)))
        BY <2>7, <2>11, <2>12 DEF Leads
    <2>14. compute_peaks_positions(s + n) = LeadsMovedPeaks(s, s, compute_peaks_positions(n))
        BY <2>8, <2>13, LeadsMoved
    <2>15. compute_peaks_positions(n) \in SUBSET Seq(Nat)
        BY <2>9, <2>10
    <2> QED
        BY <1>2, <2>14, <2>15
<1> QED
    BY <1>1, <1>2

(* A subtree is a peak iff a second one like it does not fit beside it.    *)
LEMMA PeakIff ==
    ASSUME NEW n \in Nat, n < P(MaxHeight + 1), NEW h \in 0 .. MaxHeight, NEW i \in Int
    PROVE  <<h, i>> \in PeakTrees(n) <=>
               i >= 1 /\ i * P(h) <= n /\ n < (i + 1) * P(h) /\ \E m \in Int : i = 2 * m + 1
<1>0. /\ P(h) \in Nat \ {0} /\ h + 1 \in 0 .. MaxHeight + 1 /\ P(h + 1) = 2 * P(h)
      /\ i * P(h) \in Int /\ (i + 1) * P(h) = i * P(h) + P(h) /\ h \in Nat
      /\ (i >= 1 => P(h) <= i * P(h))
    <2>1. P(h) \in Nat \ {0} /\ h + 1 \in 0 .. MaxHeight + 1 /\ P(h + 1) = 2 * P(h) /\ h \in Nat
        BY Heights
    <2>2. /\ i * P(h) \in Int /\ (i + 1) * P(h) = i * P(h) + 1 * P(h)
          /\ (i >= 1 => P(h) <= i * P(h))
        BY <2>1, Products
    <2> QED
        BY <2>1, <2>2
<1>1. <<h, i>> \in Subtrees(n) <=> i >= 1 /\ i * P(h) <= n
    BY InForest
<1>2. ParentOf(<<h, i>>) = <<h + 1, (i + 1) \div 2>>
    BY DEF ParentOf
<1>3. <<h, i>> \in PeakTrees(n) <=>
          <<h, i>> \in Subtrees(n) /\ <<h + 1, (i + 1) \div 2>> \notin Subtrees(n)
    BY <1>2 DEF PeakTrees
<1>4. (\E m \in Int : i = 2 * m + 1) \/ (\E m \in Int : i = 2 * m)
    <2>1. i \div 2 \in Int /\ (i = 2 * (i \div 2) + 1 \/ i = 2 * (i \div 2))
        OBVIOUS
    <2> QED
        BY <2>1
<1>5. CASE h = MaxHeight
    <2>1. <<h + 1, (i + 1) \div 2>> \notin Subtrees(n)
        <3>1. h + 1 \notin 0 .. MaxHeight
            BY <1>0, <1>5
        <3> QED
            BY <3>1 DEF Subtrees
    <2>2. n < 2 * P(h)
        BY <1>0, <1>5
    <2>3. i >= 1 /\ i * P(h) <= n => i = 1
        <3> SUFFICES ASSUME i >= 2, i * P(h) <= n
                     PROVE  FALSE
            OBVIOUS
        <3>1. (i - 1) * P(h) = i * P(h) - 1 * P(h) /\ (i - 1 >= 1 => P(h) <= (i - 1) * P(h))
            <4>1. i - 1 \in Int
                OBVIOUS
            <4> QED
                BY <1>0, <4>1, Products
        <3>2. P(h) <= (i - 1) * P(h) /\ 1 * P(h) = P(h) /\ (i - 1) * P(h) \in Int
            BY <1>0, <3>1
        <3> QED
            BY <1>0, <2>2, <3>1, <3>2
    <2>4. 1 * P(h) = P(h) /\ 1 = 2 * 0 + 1
        BY <1>0
    <2>5. i >= 1 /\ i * P(h) <= n => n < (i + 1) * P(h) /\ \E m \in Int : i = 2 * m + 1
        <3> SUFFICES ASSUME i = 1
                     PROVE  n < (i + 1) * P(h) /\ \E m \in Int : i = 2 * m + 1
            BY <2>3
        <3> QED
            BY <1>0, <2>2, <2>4
    <2> QED
        BY <1>1, <1>3, <2>1, <2>5
<1>6. CASE h # MaxHeight
    <2>0. h + 1 \in 0 .. MaxHeight
        BY <1>0, <1>6, Heights
    <2>1. CASE \E m \in Int : i = 2 * m + 1
        <3>1. PICK m \in Int : i = 2 * m + 1
            BY <2>1
        <3>2. (i + 1) \div 2 = m + 1
            BY <3>1
        <3>3. (m + 1) * P(h + 1) = (i + 1) * P(h)
            <4> DEFINE p == P(h)
            <4>1. p \in Nat \ {0} /\ P(h + 1) = 2 * p
                BY <1>0
            <4> HIDE DEF p
            <4>2. (m + 1) * (2 * p) = (2 * m + 2) * p
                BY <4>1
            <4>3. i + 1 = 2 * m + 2
                BY <3>1
            <4> QED
                BY <4>1, <4>2, <4>3 DEF p
        <3>4. <<h + 1, m + 1>> \in Subtrees(n) <=> m + 1 >= 1 /\ (m + 1) * P(h + 1) <= n
            <4>1. m + 1 \in Int
                OBVIOUS
            <4> QED
                BY <2>0, <4>1, InForest
        <3>5. i >= 1 => m + 1 >= 1
            BY <3>1
        <3> QED
            BY <1>0, <1>1, <1>3, <2>1, <3>2, <3>3, <3>4, <3>5
    <2>2. CASE \E m \in Int : i = 2 * m
        <3>1. PICK m \in Int : i = 2 * m
            BY <2>2
        <3>2. (i + 1) \div 2 = m
            BY <3>1
        <3>3. m * P(h + 1) = i * P(h)
            <4> DEFINE p == P(h)
            <4>1. p \in Nat \ {0} /\ P(h + 1) = 2 * p
                BY <1>0
            <4> HIDE DEF p
            <4>2. m * (2 * p) = (2 * m) * p
                BY <4>1
            <4> QED
                BY <3>1, <4>1, <4>2 DEF p
        <3>4. <<h + 1, m>> \in Subtrees(n) <=> m >= 1 /\ m * P(h + 1) <= n
            BY <2>0, InForest
        <3>5. ~\E k \in Int : i = 2 * k + 1
            BY <3>1
        <3>6. i >= 1 => m >= 1
            BY <3>1
        <3> QED
            BY <1>1, <1>3, <3>2, <3>3, <3>4, <3>5, <3>6
    <2> QED
        BY <1>4, <2>1, <2>2
<1> QED
    BY <1>5, <1>6

(* The peak of the forest right of the tree of height j, in the whole.     *)
Aside(j, t) == <<t[1], P(j - t[1]) + t[2]>>

(* What PeakIff says of a peak, and its types.                             *)
LEMMA PeakTypes ==
    ASSUME NEW n \in Nat, n < P(MaxHeight + 1), NEW t \in PeakTrees(n)
    PROVE  /\ t = <<t[1], t[2]>> /\ t[1] \in 0 .. MaxHeight /\ t[2] \in Nat \ {0}
           /\ t[2] * P(t[1]) \in Nat \ {0} /\ P(t[1]) <= t[2] * P(t[1]) /\ t[2] * P(t[1]) <= n
           /\ n < (t[2] + 1) * P(t[1]) /\ \E m \in Int : t[2] = 2 * m + 1
<1>1. t = <<t[1], t[2]>> /\ t[1] \in 0 .. MaxHeight /\ t[2] \in Int
    BY DEF PeakTrees, Subtrees
<1>2. <<t[1], t[2]>> \in PeakTrees(n)
    BY <1>1
<1>3. /\ t[2] >= 1 /\ t[2] * P(t[1]) <= n /\ n < (t[2] + 1) * P(t[1])
      /\ \E m \in Int : t[2] = 2 * m + 1
    BY <1>1, <1>2, PeakIff
<1>4. P(t[1]) \in Nat \ {0}
    BY <1>1, Heights
<1>5. t[2] * P(t[1]) \in Int /\ P(t[1]) <= t[2] * P(t[1])
    BY <1>1, <1>3, <1>4, Products
<1> QED
    BY <1>1, <1>3, <1>4, <1>5

(* The peaks are the highest tree and those of the forest right of it.     *)
LEMMA PeaksAside ==
    ASSUME NEW j \in 0 .. MaxHeight, NEW r \in 0 .. P(j) - 1
    PROVE  /\ P(j) + r < P(MaxHeight + 1) /\ r < P(MaxHeight + 1)
           /\ <<j, 1>> \in PeakTrees(P(j) + r)
           /\ \A t \in PeakTrees(r) : t[1] < j /\ Aside(j, t) \in PeakTrees(P(j) + r)
           /\ \A u \in PeakTrees(P(j) + r) : u # <<j, 1>> =>
                  u[1] < j /\ \E t \in PeakTrees(r) : u = Aside(j, t)
<1> DEFINE n == P(j) + r
<1>0. /\ P(j) \in Nat \ {0} /\ r \in Nat /\ n \in Nat /\ n < 2 * P(j) /\ j \in Nat
      /\ P(j + 1) = 2 * P(j) /\ j + 1 \in 0 .. MaxBits /\ MaxHeight + 1 \in 0 .. MaxBits
      /\ j \in 0 .. MaxBits
    BY Heights
<1>1. n < P(MaxHeight + 1) /\ r < P(MaxHeight + 1)
    <2>1. ~(P(MaxHeight + 1) < P(j + 1)) /\ P(MaxHeight + 1) \in Nat
        <3>1. ~(MaxHeight + 1 < j + 1) /\ P(MaxHeight + 1) \in Nat
            BY <1>0, Heights
        <3> QED
            BY <1>0, <3>1, PowOrder
    <2> QED
        BY <1>0, <2>1
<1>2. ASSUME NEW h \in 0 .. MaxHeight, h < j
      PROVE  /\ h \in 0 .. MaxHeight /\ P(h) \in Nat \ {0} /\ P(j - h) \in Nat \ {0}
             /\ P(j) = P(j - h) * P(h) /\ \E m \in Int : P(j - h) = 2 * m
    <2>1. h \in 0 .. j /\ j - h \in 0 .. MaxHeight + 2 /\ j - h - 1 \in 0 .. MaxHeight + 1
          /\ (j - h - 1) + 1 = j - h /\ j - h - 1 \in 0 .. MaxHeight + 2
        BY <1>0, <1>2, Heights
    <2>2. P(h) \in Nat \ {0} /\ P(j - h) \in Nat \ {0} /\ P((j - h - 1) + 1) = 2 * P(j - h - 1)
          /\ P(j - h - 1) \in Int
        BY <2>1, Heights
    <2>3. P(j) = P(j - h) * P(h)
        BY <1>0, <2>1, PowProduct
    <2> QED
        BY <2>1, <2>2, <2>3
<1>3. ASSUME NEW h \in 0 .. MaxHeight, h < j, NEW i \in Int
      PROVE  <<h, P(j - h) + i>> \in PeakTrees(n) <=> <<h, i>> \in PeakTrees(r)
    <2> DEFINE e == P(j - h)
               p == P(h)
    <2>1. e \in Nat \ {0} /\ p \in Nat \ {0} /\ P(j) = e * p /\ e + i \in Int
        BY <1>2, <1>3
    <2>2. PICK m \in Int : e = 2 * m
        BY <1>2, <1>3
    <2>3. <<h, e + i>> \in PeakTrees(n) <=> /\ e + i >= 1 /\ (e + i) * P(h) <= n
              /\ n < ((e + i) + 1) * P(h) /\ \E k \in Int : e + i = 2 * k + 1
        <3> HIDE DEF e, n
        <3> QED
            BY <1>0, <1>1, <2>1, PeakIff
    <2>4. <<h, i>> \in PeakTrees(r) <=> /\ i >= 1 /\ i * P(h) <= r
              /\ r < (i + 1) * P(h) /\ \E k \in Int : i = 2 * k + 1
        BY <1>0, <1>1, PeakIff
    <2>5. /\ (e + i) * p = P(j) + i * p /\ ((e + i) + 1) * p = P(j) + (i + 1) * p
          /\ i * p \in Int /\ (i + 1) * p \in Int /\ (i + 1) * p = i * p + p
        <3> HIDE DEF e, p
        <3>1. (e + i) * p = e * p + i * p /\ i * p \in Int
            BY <2>1, Products
        <3>2. (e + (i + 1)) * p = e * p + (i + 1) * p /\ (i + 1) * p \in Int
            BY <2>1, Products
        <3>3. (i + 1) * p = i * p + 1 * p
            BY <2>1, Products
        <3>4. (e + i) + 1 = e + (i + 1) /\ 1 * p = p
            BY <2>1
        <3> QED
            BY <2>1, <3>1, <3>2, <3>3, <3>4
    <2>6. /\ (e + i) * p <= n <=> i * p <= r
          /\ n < ((e + i) + 1) * p <=> r < (i + 1) * p
        <3> DEFINE a == (e + i) * p
                   b == i * p
                   c == ((e + i) + 1) * p
                   d == (i + 1) * p
        <3>1. a = P(j) + b /\ c = P(j) + d /\ b \in Int /\ d \in Int
            BY <2>5
        <3> HIDE DEF a, b, c, d
        <3>2. (a <= n <=> b <= r) /\ (n < c <=> r < d)
            BY <1>0, <3>1
        <3> QED
            BY <3>2 DEF a, b, c, d
    <2>7. (\E k \in Int : e + i = 2 * k + 1) <=> (\E k \in Int : i = 2 * k + 1)
        <3> HIDE DEF e
        <3>1. \A k \in Int : /\ e + i = 2 * k + 1 => k - m \in Int /\ i = 2 * (k - m) + 1
                             /\ i = 2 * k + 1 => k + m \in Int /\ e + i = 2 * (k + m) + 1
            BY <2>1, <2>2
        <3> QED
            BY <3>1
    <2>8. r < (i + 1) * p /\ (\E k \in Int : i = 2 * k + 1) => i >= 1
        <3> SUFFICES ASSUME r < (i + 1) * p, NEW k \in Int, i = 2 * k + 1, i <= 0
                     PROVE  FALSE
            OBVIOUS
        <3>1. i + 1 <= 0 /\ i + 1 \in Int
            <4>1. i # 0
                OBVIOUS
            <4> QED
                BY <4>1
        <3> HIDE DEF p
        <3>2. (i + 1) * p <= 0
            BY <2>1, <3>1, Products
        <3> QED
            BY <1>0, <2>5, <3>2
    <2>9. i >= 1 => e + i >= 1
        BY <2>1
    <2> HIDE DEF e
    <2>10. <<h, e + i>> \in PeakTrees(n) <=> <<h, i>> \in PeakTrees(r)
        BY <2>3, <2>4, <2>6, <2>7, <2>8, <2>9
    <2> QED
        BY <2>10 DEF e
<1>4. <<j, 1>> \in PeakTrees(n)
    <2>1. 1 * P(j) = P(j) /\ (1 + 1) * P(j) = 2 * P(j) /\ 1 = 2 * 0 + 1 /\ 1 \in Int /\ 0 \in Int
        BY <1>0
    <2>2. 1 * P(j) <= n /\ n < (1 + 1) * P(j)
        BY <1>0, <2>1
    <2> HIDE DEF n
    <2> QED
        BY <1>0, <1>1, <2>1, <2>2, PeakIff
<1>5. ASSUME NEW t \in PeakTrees(r)
      PROVE  t[1] < j /\ Aside(j, t) \in PeakTrees(n)
    <2>1. /\ t = <<t[1], t[2]>> /\ t[1] \in 0 .. MaxHeight /\ t[2] \in Nat \ {0}
          /\ P(t[1]) <= r
        <3> DEFINE a == t[2] * P(t[1])
        <3>1. /\ t = <<t[1], t[2]>> /\ t[1] \in 0 .. MaxHeight /\ t[2] \in Nat \ {0}
              /\ a \in Nat \ {0} /\ P(t[1]) <= a /\ a <= r
            BY <1>0, <1>1, PeakTypes
        <3>2. P(t[1]) \in Nat
            BY <3>1, Heights
        <3> HIDE DEF a
        <3> QED
            BY <1>0, <3>1, <3>2
    <2>2. t[1] < j
        <3>1. P(t[1]) < P(j) /\ t[1] \in 0 .. MaxBits
            BY <1>0, <2>1, Heights
        <3> QED
            BY <1>0, <3>1, PowOrder
    <2>3. t[2] \in Int /\ <<t[1], t[2]>> \in PeakTrees(r)
        BY <2>1
    <2> HIDE DEF n
    <2> QED
        BY <1>3, <2>1, <2>2, <2>3 DEF Aside
<1>6. ASSUME NEW u \in PeakTrees(n), u # <<j, 1>>
      PROVE  u[1] < j /\ \E t \in PeakTrees(r) : u = Aside(j, t)
    <2>1. /\ u = <<u[1], u[2]>> /\ u[1] \in 0 .. MaxHeight /\ u[2] \in Nat \ {0}
          /\ u[2] * P(u[1]) \in Nat /\ P(u[1]) <= u[2] * P(u[1]) /\ u[2] * P(u[1]) <= n
        <3> HIDE DEF n
        <3> QED
            BY <1>0, <1>1, <1>6, PeakTypes
    <2>2. u[1] < j + 1
        <3>1. P(u[1]) < P(j + 1) /\ u[1] \in 0 .. MaxBits
            BY <1>0, <2>1, Heights
        <3> QED
            BY <1>0, <3>1, PowOrder
    <2>3. u[1] # j
        <3> SUFFICES ASSUME u[1] = j
                     PROVE  FALSE
            OBVIOUS
        <3>1. u[2] # 1 /\ u[2] - 1 >= 1 /\ u[2] - 1 \in Int /\ u[2] \in Int
            BY <1>6, <2>1
        <3>2. P(j) <= (u[2] - 1) * P(j) /\ (u[2] - 1) * P(j) \in Int
            BY <1>0, <3>1, Products
        <3>3. (u[2] - 1) * P(j) = u[2] * P(j) - 1 * P(j) /\ 1 * P(j) = P(j)
            BY <1>0, <3>1, Products
        <3>4. u[2] * P(j) \in Nat /\ u[2] * P(j) <= n
            BY <2>1
        <3> DEFINE a == u[2] * P(j)
                   b == (u[2] - 1) * P(j)
        <3>5. P(j) <= b /\ b \in Int /\ b = a - P(j) /\ a \in Nat /\ a <= n
            BY <3>2, <3>3, <3>4
        <3> HIDE DEF a, b
        <3> QED
            BY <1>0, <3>5
    <2>4. u[1] < j
        BY <1>0, <2>1, <2>2, <2>3
    <2> DEFINE h == u[1]
               i == u[2] - P(j - h)
    <2>5. P(j - h) \in Nat
        BY <1>2, <2>1, <2>4
    <2>6. i \in Int /\ P(j - h) + i = u[2] /\ h \in 0 .. MaxHeight /\ h < j
          /\ u = <<h, P(j - h) + i>>
        BY <2>1, <2>4, <2>5
    <2> HIDE DEF h, i, n
    <2>7. <<h, i>> \in PeakTrees(r)
        BY <1>3, <1>6, <2>6
    <2>8. u = Aside(j, <<h, i>>)
        BY <2>6 DEF Aside
    <2> QED
        BY <2>4, <2>7, <2>8
<1> QED
    BY <1>1, <1>4, <1>5, <1>6

(* Where these peaks are.                                                  *)
LEMMA PositionsAside ==
    ASSUME NEW j \in 0 .. MaxHeight, NEW r \in 0 .. P(j) - 1
    PROVE  /\ PositionOf(<<j, 1>>) = 2 * P(j) - 1
           /\ \A t \in PeakTrees(r) : /\ PositionOf(Aside(j, t)) = 2 * P(j) - 1 + PositionOf(t)
                                      /\ PositionOf(t) \in Nat
<1>0. P(j) \in Nat \ {0} /\ r \in Nat /\ j \in Nat /\ r < P(MaxHeight + 1)
    <2>1. P(j) \in Nat \ {0} /\ j \in Nat
        BY Heights
    <2>2. r < P(MaxHeight + 1)
        BY PeaksAside, Zenon
    <2> QED
        BY <2>1, <2>2
<1>1. PositionOf(<<j, 1>>) = 2 * P(j) - 1
    <2>1. LastLeaf(<<j, 1>>) = P(j)
        BY <1>0, WidthIsPow DEF LastLeaf
    <2>2. MmrSize(P(j)) = 2 * P(j) - 1 /\ MmrSize(P(j) - 1) = 2 * P(j) - 2 - j
        BY SizeOfPower
    <2> QED
        BY <1>0, <2>1, <2>2 DEF PositionOf
<1>2. ASSUME NEW t \in PeakTrees(r)
      PROVE  PositionOf(Aside(j, t)) = 2 * P(j) - 1 + PositionOf(t) /\ PositionOf(t) \in Nat
    <2> DEFINE h == t[1]
               k == t[2] * P(h)
               e == P(j - h)
    <2>1. t[2] \in Nat \ {0} /\ h \in 0 .. MaxHeight /\ k \in Nat \ {0} /\ k <= r
        BY <1>0, PeakTypes
    <2>2. h < j
        BY PeaksAside
    <2>3. e \in Nat \ {0} /\ P(j) = e * P(h) /\ P(h) \in Nat \ {0}
        <3>1. h \in 0 .. j /\ j - h \in 0 .. MaxHeight + 2 /\ j \in 0 .. MaxBits
            BY <2>1, <2>2, Heights
        <3>2. P(j) = e * P(h)
            <4> HIDE DEF h
            <4> QED
                BY <3>1, PowProduct
        <3> QED
            BY <2>1, <3>1, <3>2, Heights
    <2>4. LastLeaf(t) = k
        BY <2>1, WidthIsPow DEF LastLeaf
    <2>5. LastLeaf(Aside(j, t)) = P(j) + k
        <3>1. LastLeaf(Aside(j, t)) = (e + t[2]) * P(h)
            BY <2>1, WidthIsPow DEF LastLeaf, Aside
        <3>2. (e + t[2]) * P(h) = e * P(h) + t[2] * P(h)
            <4> HIDE DEF e, h
            <4>1. e \in Int /\ t[2] \in Int
                BY <2>1, <2>3
            <4> QED
                BY <2>3, <4>1, Products
        <3> QED
            BY <2>3, <3>1, <3>2
    <2> HIDE DEF k
    <2>6. k - 1 \in 0 .. P(j) - 1 /\ (P(j) + k) - 1 = P(j) + (k - 1) /\ k - 1 \in Nat
        BY <1>0, <2>1
    <2>7. MmrSize(P(j) + (k - 1)) = MmrSize(P(j)) + MmrSize(k - 1) /\ MmrSize(k - 1) \in Nat
          /\ MmrSize(P(j)) = 2 * P(j) - 1
        BY <2>6, SplitForest, ForestFinite, SizeOfPower
    <2>8. PositionOf(t) = MmrSize(k - 1) + h + 1
        BY <2>4 DEF PositionOf
    <2>9. PositionOf(Aside(j, t)) = MmrSize((P(j) + k) - 1) + h + 1
        BY <2>5 DEF PositionOf, Aside
    <2> QED
        BY <1>0, <2>1, <2>6, <2>7, <2>8, <2>9
<1> QED
    BY <1>1, <1>2

(* The peaks in the order of descending heights.                           *)
Descends(s, n) ==
    /\ s \in [1 .. Cardinality(PeakTrees(n)) -> PeakTrees(n)]
    /\ \A i, k \in DOMAIN s : i < k => s[i][1] > s[k][1]

Follow(j, u, c) == [i \in 1 .. c + 1 |-> IF i = 1 THEN <<j, 1>> ELSE Aside(j, u[i - 1])]

(* There are finitely many peaks.                                          *)
LEMMA PeaksFinite ==
    ASSUME NEW n \in Nat
    PROVE  IsFiniteSet(PeakTrees(n)) /\ Cardinality(PeakTrees(n)) \in Nat
<1>1. PeakTrees(n) \in SUBSET Subtrees(n)
    BY DEF PeakTrees
<1> QED
    BY <1>1, ForestFinite, FS_Subset, FS_CardinalityType

(* There is one peak more than in the forest right of the first.           *)
LEMMA OnePeakMore ==
    ASSUME NEW j \in 0 .. MaxHeight, NEW r \in 0 .. P(j) - 1
    PROVE  Cardinality(PeakTrees(P(j) + r)) = Cardinality(PeakTrees(r)) + 1
<1> DEFINE moved == {Aside(j, t) : t \in PeakTrees(r)}
           f == [t \in PeakTrees(r) |-> Aside(j, t)]
<1>0. P(j) \in Nat \ {0} /\ r \in Nat
    BY Heights
<1>1. PeakTrees(P(j) + r) = moved \union {<<j, 1>>}
    BY PeaksAside
<1>2. <<j, 1>> \notin moved
    <2> SUFFICES ASSUME NEW t \in PeakTrees(r), <<j, 1>> = Aside(j, t)
                 PROVE  FALSE
        OBVIOUS
    <2>1. t[1] < j
        BY PeaksAside, Zenon
    <2>2. t[1] = j /\ j \in Int
        BY DEF Aside
    <2> QED
        BY <2>1, <2>2
<1>3. f \in Surjection(PeakTrees(r), moved)
    BY DEF Surjection
<1>4. ASSUME NEW t \in PeakTrees(r), NEW u \in PeakTrees(r), f[t] = f[u]
      PROVE  t = u
    <2>1. r < P(MaxHeight + 1)
        BY PeaksAside, Zenon
    <2>2. /\ t = <<t[1], t[2]>> /\ t[1] \in 0 .. MaxHeight /\ t[2] \in Nat
          /\ u = <<u[1], u[2]>> /\ u[1] \in 0 .. MaxHeight /\ u[2] \in Nat
        BY <1>0, <2>1, PeakTypes
    <2>3. t[1] = u[1] /\ P(j - t[1]) + t[2] = P(j - u[1]) + u[2]
        BY <1>4 DEF Aside
    <2>4. P(j - t[1]) \in Nat
        <3>1. t[1] < j
            BY PeaksAside
        <3>2. j - t[1] \in 0 .. MaxHeight + 2
            BY <2>2, <3>1, Heights
        <3> QED
            BY <3>2, Heights
    <2> DEFINE e == P(j - t[1])
    <2>5. e \in Nat /\ e + t[2] = e + u[2]
        BY <2>3, <2>4
    <2> HIDE DEF e
    <2>6. t[2] = u[2]
        BY <2>2, <2>5
    <2> QED
        BY <2>2, <2>3, <2>6
<1>5. f \in Injection(PeakTrees(r), moved)
    <2> HIDE DEF f
    <2> QED
        BY <1>3, <1>4 DEF Injection, IsInjective, Surjection
<1>6. IsFiniteSet(PeakTrees(r))
    BY <1>0, PeaksFinite
<1> HIDE DEF f, moved
<1>7. IsFiniteSet(moved) /\ Cardinality(moved) = Cardinality(PeakTrees(r))
    BY <1>3, <1>5, <1>6, FS_Surjection
<1>8. Cardinality(moved \union {<<j, 1>>}) = Cardinality(moved) + 1
    BY <1>2, <1>7, FS_AddElement
<1> QED
    BY <1>1, <1>7, <1>8

(* There are n numbers from 1 to n.                                        *)
LEMMA Counted == \A n \in Nat : IsFiniteSet(1 .. n) /\ Cardinality(1 .. n) = n
<1> SUFFICES ASSUME NEW n \in Nat
             PROVE  IsFiniteSet(1 .. n) /\ Cardinality(1 .. n) = n
    OBVIOUS
<1> QED
    BY FS_Interval

(* The order of the peaks is determined, and so is that of one peak more.  *)
LEMMA OrderGrows ==
    ASSUME NEW j \in 0 .. MaxHeight, NEW r \in 0 .. P(j) - 1, NEW c, c = Cardinality(PeakTrees(r)),
           NEW u, Descends(u, r), \A v : Descends(v, r) => v = u
    PROVE  /\ Descends(Follow(j, u, c), P(j) + r)
           /\ \A s : Descends(s, P(j) + r) => s = Follow(j, u, c)
<1> DEFINE n == P(j) + r
           first == <<j, 1>>
<1>0. /\ P(j) \in Nat \ {0} /\ r \in Nat /\ n \in Nat /\ j \in Nat /\ c \in Nat
      /\ IsFiniteSet(PeakTrees(n)) /\ IsFiniteSet(PeakTrees(r))
    BY Heights, PeaksFinite
<1>1. Cardinality(PeakTrees(n)) = c + 1
    BY OnePeakMore
<1>2. /\ first \in PeakTrees(n) /\ r < P(MaxHeight + 1) /\ n < P(MaxHeight + 1)
      /\ \A t \in PeakTrees(r) : t[1] < j /\ Aside(j, t) \in PeakTrees(n)
      /\ \A w \in PeakTrees(n) : w # first => w[1] < j /\ \E t \in PeakTrees(r) : w = Aside(j, t)
    BY PeaksAside
<1> HIDE DEF n
<1>3. u \in [1 .. c -> PeakTrees(r)] /\ \A i, k \in 1 .. c : i < k => u[i][1] > u[k][1]
    BY DEF Descends
<1>4. \A i \in 1 .. c + 1 : i \in Nat /\ (i # 1 => i - 1 \in 1 .. c)
    BY <1>0
<1>5. Descends(Follow(j, u, c), n)
    <2> DEFINE s == Follow(j, u, c)
    <2>1. s \in [1 .. c + 1 -> PeakTrees(n)] /\ DOMAIN s = 1 .. c + 1
        BY <1>2, <1>3, <1>4 DEF Follow
    <2>2. ASSUME NEW i \in 1 .. c + 1, NEW k \in 1 .. c + 1, i < k
          PROVE  s[i][1] > s[k][1]
        <3>1. k # 1 /\ k - 1 \in 1 .. c /\ s[k] = Aside(j, u[k - 1]) /\ s[k][1] = u[k - 1][1]
            BY <1>4, <2>2 DEF Follow, Aside
        <3>2. CASE i = 1
            <4>1. s[i][1] = j /\ u[k - 1][1] < j
                BY <1>2, <1>3, <3>1, <3>2 DEF Follow
            <4> QED
                BY <1>0, <3>1, <4>1
        <3>3. CASE i # 1
            <4>1. i - 1 \in 1 .. c /\ i - 1 < k - 1 /\ s[i][1] = u[i - 1][1]
                BY <1>4, <2>2, <3>3 DEF Follow, Aside
            <4> QED
                BY <1>3, <3>1, <4>1
        <3> QED
            BY <3>2, <3>3
    <2> HIDE DEF s
    <2>3. Descends(s, n)
        BY <1>1, <2>1, <2>2 DEF Descends
    <2> QED
        BY <2>3 DEF s
<1>6. ASSUME NEW s, Descends(s, n)
      PROVE  s = Follow(j, u, c)
    <2>1. s \in [1 .. c + 1 -> PeakTrees(n)] /\ \A i, k \in 1 .. c + 1 : i < k => s[i][1] > s[k][1]
        BY <1>1, <1>6 DEF Descends
    <2>2. ASSUME NEW w \in PeakTrees(n)
          PROVE  w[1] \in Int /\ w[1] <= j /\ (w # first => w[1] < j)
        <3>1. w[1] \in Int
            BY <1>0, <1>2, PeakTypes
        <3> QED
            BY <1>0, <1>2, <3>1
    <2>3. \E i \in 1 .. c + 1 : s[i] = first
        <3> SUFFICES ASSUME \A i \in 1 .. c + 1 : s[i] # first
                     PROVE  FALSE
            OBVIOUS
        <3> DEFINE rest == PeakTrees(n) \ {first}
        <3>1. IsFiniteSet(rest) /\ Cardinality(rest) = c
            BY <1>0, <1>1, <1>2, FS_RemoveElement
        <3>2. s \in [1 .. c + 1 -> rest]
            BY <2>1
        <3>3. IsFiniteSet(1 .. c + 1) /\ Cardinality(1 .. c + 1) = c + 1
            <4>1. c + 1 \in Nat
                BY <1>0
            <4> QED
                BY <4>1, Counted, Zenon
        <3> HIDE DEF rest
        <3>4. \E i, k \in 1 .. c + 1 : i # k /\ s[i] = s[k]
            BY <1>0, <3>1, <3>2, <3>3, FS_PigeonHole, SMTT(60)
        <3>5. PICK i \in 1 .. c + 1, k \in 1 .. c + 1 : i < k /\ s[i] = s[k]
            BY <1>0, <3>4
        <3>6. s[i][1] > s[k][1] /\ s[i][1] \in Int
            BY <2>1, <2>2, <3>5
        <3> QED
            BY <3>5, <3>6
    <2>4. 1 \in 1 .. c + 1 /\ s[1] = first
        <3>1. 1 \in 1 .. c + 1
            BY <1>0
        <3>2. PICK i \in 1 .. c + 1 : s[i] = first
            BY <2>3
        <3>3. CASE i = 1
            BY <3>1, <3>2, <3>3
        <3>4. CASE i # 1
            <4>1. 1 < i
                BY <1>0, <3>4
            <4>2. s[1][1] > j /\ s[1][1] \in Int /\ s[1][1] <= j
                BY <2>1, <2>2, <3>1, <3>2, <4>1
            <4> QED
                BY <1>0, <4>2
        <3> QED
            BY <3>3, <3>4
    <2>5. ASSUME NEW i \in 1 .. c
          PROVE  i + 1 \in 1 .. c + 1 /\ \E t \in PeakTrees(r) : s[i + 1] = Aside(j, t)
        <3>1. i + 1 \in 1 .. c + 1 /\ 1 < i + 1
            BY <1>0
        <3>2. s[1][1] > s[i + 1][1] /\ s[i + 1] \in PeakTrees(n)
            BY <2>1, <2>4, <3>1
        <3>3. s[i + 1] # first
            BY <2>2, <2>4, <3>2
        <3> QED
            BY <1>2, <3>1, <3>2, <3>3
    <2> DEFINE v == [i \in 1 .. c |-> CHOOSE t \in PeakTrees(r) : s[i + 1] = Aside(j, t)]
    <2>6. \A i \in 1 .. c : v[i] \in PeakTrees(r) /\ s[i + 1] = Aside(j, v[i])
        BY <2>5
    <2>7. v \in [1 .. c -> PeakTrees(r)]
        BY <2>6
    <2> HIDE DEF v
    <2>8. \A i, k \in 1 .. c : i < k => v[i][1] > v[k][1]
        <3> SUFFICES ASSUME NEW i \in 1 .. c, NEW k \in 1 .. c, i < k
                     PROVE  v[i][1] > v[k][1]
            OBVIOUS
        <3>1. i + 1 < k + 1 /\ i + 1 \in 1 .. c + 1 /\ k + 1 \in 1 .. c + 1
            BY <1>0
        <3>2. s[i + 1][1] > s[k + 1][1]
            BY <2>1, <3>1
        <3>3. s[i + 1][1] = v[i][1] /\ s[k + 1][1] = v[k][1]
            BY <2>6 DEF Aside
        <3> QED
            BY <3>2, <3>3
    <2>9. Descends(v, r)
        BY <2>7, <2>8 DEF Descends
    <2>10. v = u
        BY <2>9
    <2>11. ASSUME NEW i \in 1 .. c + 1
           PROVE  s[i] = IF i = 1 THEN first ELSE Aside(j, u[i - 1])
        <3>1. CASE i = 1
            BY <2>4, <3>1
        <3>2. CASE i # 1
            <4>1. i - 1 \in 1 .. c /\ (i - 1) + 1 = i
                BY <1>4, <3>2
            <4>2. s[(i - 1) + 1] = Aside(j, v[i - 1])
                BY <2>6, <4>1
            <4> QED
                BY <2>10, <3>2, <4>1, <4>2
        <3> QED
            BY <3>1, <3>2
    <2>12. s = [i \in 1 .. c + 1 |-> IF i = 1 THEN first ELSE Aside(j, u[i - 1])]
        BY <2>1, <2>11
    <2> QED
        BY <2>12 DEF Follow
<1> QED
    BY <1>5, <1>6 DEF n

(* The order is determined, whatever the number of leaves, and the program *)
(* returns the positions of the peaks in this order.                       *)
LEMMA PeaksInOrder ==
    ASSUME NEW k \in Nat, k < P(MaxHeight + 1)
    PROVE  /\ \E u : Descends(u, k) /\ \A v : Descends(v, k) => v = u
           /\ PeakPositions(k) \in Seq(Nat)
           /\ k # 0 => compute_peaks_positions(MmrSize(k)) = {PeakPositions(k)}
<1> DEFINE Ordered(n) == \E u : Descends(u, n) /\ \A v : Descends(v, n) => v = u
           Holds(n) == /\ Ordered(n) /\ PeakPositions(n) \in Seq(Nat)
                       /\ n # 0 => compute_peaks_positions(MmrSize(n)) = {PeakPositions(n)}
           Bad == {n \in Nat : n < P(MaxHeight + 1) /\ ~Holds(n)}
<1>1. ASSUME NEW n \in Nat, NEW u, Descends(u, n), \A v : Descends(v, n) => v = u
      PROVE  PeakPositions(n) = [i \in 1 .. Cardinality(PeakTrees(n)) |-> PositionOf(u[i])]
    <2>1. PeakSequence(n) = CHOOSE s \in [1 .. Cardinality(PeakTrees(n)) -> PeakTrees(n)] :
                                \A i, m \in DOMAIN s : i < m => s[i][1] > s[m][1]
        BY DEF PeakSequence
    <2>2. Descends(PeakSequence(n), n)
        BY <1>1, <2>1 DEF Descends
    <2>3. PeakSequence(n) = u
        BY <1>1, <2>2
    <2>4. DOMAIN u = 1 .. Cardinality(PeakTrees(n))
        BY <1>1 DEF Descends
    <2> QED
        BY <2>3, <2>4 DEF PeakPositions
<1>2. Holds(0)
    <2>1. PeakTrees(0) = {}
        BY DEF PeakTrees, Subtrees
    <2>2. Cardinality(PeakTrees(0)) = 0 /\ 1 .. 0 = {}
        BY <2>1, FS_EmptySet
    <2> DEFINE u == [i \in {} |-> 0]
    <2>3. Descends(u, 0) /\ \A v : Descends(v, 0) => v = u
        BY <2>1, <2>2 DEF Descends
    <2> HIDE DEF u
    <2>4. PeakPositions(0) = [i \in 1 .. 0 |-> PositionOf(u[i])]
        BY <1>1, <2>2, <2>3
    <2>5. PeakPositions(0) \in [1 .. 0 -> Nat]
        BY <2>2, <2>4
    <2>6. PeakPositions(0) \in Seq(Nat)
        BY <2>5
    <2> QED
        BY <2>3, <2>6
<1>3. Bad = {}
    <2> SUFFICES ASSUME Bad # {}
                 PROVE  FALSE
        OBVIOUS
    <2>1. PICK n \in Bad : \A i \in Bad : n <= i
        <3>1. Bad \in SUBSET Nat
            OBVIOUS
        <3> HIDE DEF Bad
        <3> QED
            BY <3>1, SmallestExists
    <2>2. n \in Nat \ {0} /\ n < P(MaxHeight + 1) /\ ~Holds(n)
        <3> HIDE DEF Holds
        <3> QED
            BY <1>2, <2>1
    <2>3. PICK j \in 0 .. MaxHeight : P(j) <= n /\ n < P(j + 1)
        BY <2>2, HighestPeak
    <2> DEFINE r == n - P(j)
               s == 2 * P(j) - 1
    <2>4. /\ P(j) \in Nat \ {0} /\ P(j + 1) = 2 * P(j) /\ r \in 0 .. P(j) - 1 /\ r \in Nat
          /\ r < n /\ n = P(j) + r /\ s \in Nat /\ j \in Nat /\ P(j) - 1 \in Nat
        <3>1. P(j) \in Nat \ {0} /\ P(j + 1) = 2 * P(j) /\ j \in Nat
            BY Heights
        <3> QED
            BY <2>2, <2>3, <3>1
    <2> HIDE DEF r
    <2>5. Holds(r) /\ r < P(MaxHeight + 1)
        <3>1. P(MaxHeight + 1) \in Nat /\ ~(n <= r)
            BY <2>2, <2>4, Heights
        <3>2. r < P(MaxHeight + 1)
            BY <2>2, <2>4, <3>1
        <3> HIDE DEF Holds
        <3> QED
            BY <2>1, <2>4, <3>1, <3>2
    <2> DEFINE c == Cardinality(PeakTrees(r))
    <2>6. PICK u : Descends(u, r) /\ \A v : Descends(v, r) => v = u
        BY <2>5
    <2>7. Descends(Follow(j, u, c), n) /\ \A v : Descends(v, n) => v = Follow(j, u, c)
        <3>1. /\ Descends(Follow(j, u, c), P(j) + r)
              /\ \A v : Descends(v, P(j) + r) => v = Follow(j, u, c)
            BY <2>4, <2>6, OrderGrows
        <3> QED
            BY <2>4, <3>1
    <2>8. Cardinality(PeakTrees(n)) = c + 1 /\ c \in Nat
        <3>1. Cardinality(PeakTrees(P(j) + r)) = c + 1
            BY <2>4, OnePeakMore
        <3> QED
            BY <2>4, <3>1, PeaksFinite
    <2> DEFINE q == PeakPositions(r)
               z == <<s>> \o MovedPeaks(s, q)
    <2>9. q = [i \in 1 .. c |-> PositionOf(u[i])] /\ q \in Seq(Nat)
        BY <1>1, <2>4, <2>5, <2>6
    <2> HIDE DEF q, c
    <2>10. PeakPositions(n) = [i \in 1 .. c + 1 |-> PositionOf(Follow(j, u, c)[i])]
        BY <1>1, <2>2, <2>7, <2>8
    <2>11. \A i \in 1 .. c : u[i] \in PeakTrees(r)
        BY <2>6 DEF Descends, c
    <2>12. ASSUME NEW i \in 1 .. c + 1
           PROVE  PositionOf(Follow(j, u, c)[i]) = IF i = 1 THEN s ELSE s + q[i - 1]
        <3>1. CASE i = 1
            <4>1. Follow(j, u, c)[i] = <<j, 1>>
                BY <3>1 DEF Follow
            <4> QED
                BY <2>4, <3>1, <4>1, PositionsAside
        <3>2. CASE i # 1
            <4>1. i - 1 \in 1 .. c /\ Follow(j, u, c)[i] = Aside(j, u[i - 1])
                BY <2>8, <3>2 DEF Follow
            <4>2. u[i - 1] \in PeakTrees(r) /\ q[i - 1] = PositionOf(u[i - 1])
                BY <2>9, <2>11, <4>1
            <4>3. PositionOf(Aside(j, u[i - 1])) = 2 * P(j) - 1 + PositionOf(u[i - 1])
                BY <2>4, <4>2, PositionsAside
            <4> QED
                BY <3>2, <4>1, <4>2, <4>3
        <3> QED
            BY <3>1, <3>2
    <2>13. PeakPositions(n) = [i \in 1 .. c + 1 |-> IF i = 1 THEN s ELSE s + q[i - 1]]
        BY <2>10, <2>12
    <2> HIDE DEF s
    <2>14. z \in Seq(Nat) /\ z = [i \in 1 .. c + 1 |-> IF i = 1 THEN s ELSE s + q[i - 1]]
        <3>1. Len(q) = c /\ DOMAIN q = 1 .. c /\ \A i \in 1 .. c : q[i] \in Nat
            BY <2>8, <2>9
        <3>2. MovedPeaks(s, q) = [i \in 1 .. c |-> s + q[i]]
            BY <3>1 DEF MovedPeaks
        <3>3. MovedPeaks(s, q) \in Seq(Nat) /\ Len(MovedPeaks(s, q)) = c
            BY <2>4, <2>9, <3>1, MovedSequence
        <3>4. /\ z \in Seq(Nat) /\ Len(z) = c + 1 /\ z[1] = s
              /\ \A i \in 1 .. c + 1 : i # 1 => z[i] = MovedPeaks(s, q)[i - 1]
            BY <2>4, <3>3, InFront
        <3> HIDE DEF z
        <3>5. \A i \in 1 .. c + 1 : i # 1 => i - 1 \in 1 .. c
            BY <2>8
        <3>6. \A i \in 1 .. c + 1 : z[i] = IF i = 1 THEN s ELSE s + q[i - 1]
            BY <3>2, <3>4, <3>5
        <3>7. z = [i \in 1 .. c + 1 |-> z[i]]
            BY <2>8, <3>4
        <3> QED
            BY <3>4, <3>6, <3>7
    <2>15. PeakPositions(n) = z /\ z \in Seq(Nat)
        BY <2>13, <2>14
    <2>16. compute_peaks_positions(MmrSize(n)) = {z}
        <3> DEFINE N == MmrSize(r)
        <3>1. MmrSize(n) = s + N /\ N \in 0 .. s - 1
            <4>1. MmrSize(P(j) + r) = MmrSize(P(j)) + MmrSize(r) /\ MmrSize(P(j)) = s
                BY <2>4, SplitForest, SizeOfPower DEF s
            <4>2. MmrSize(r) <= MmrSize(P(j) - 1) /\ MmrSize(P(j) - 1) = 2 * P(j) - 2 - j
                  /\ MmrSize(r) \in Nat
                <5>1. MmrSize(r) <= MmrSize(P(j) - 1)
                    BY <2>4, SizeGrows
                <5> QED
                    BY <2>4, <5>1, SizeOfPower, ForestFinite
            <4> QED
                <5>1. MmrSize(n) = s + MmrSize(r)
                    BY <2>4, <4>1
                <5>2. MmrSize(r) <= s - 1 /\ 0 <= MmrSize(r) /\ s - 1 \in Int
                    <6> DEFINE a == MmrSize(r)
                               b == MmrSize(P(j) - 1)
                               p == P(j)
                    <6>1. /\ a \in Nat /\ a <= b /\ b = 2 * p - 2 - j /\ p \in Nat /\ j \in Nat
                          /\ s = 2 * p - 1
                        BY <2>4, <4>2 DEF s
                    <6> HIDE DEF a, b, p
                    <6>2. a <= s - 1 /\ 0 <= a /\ s - 1 \in Int
                        BY <6>1
                    <6> QED
                        BY <6>2 DEF a
                <5> QED
                    BY <2>4, <4>2, <5>1, <5>2
        <3>2. r <= N
            BY <2>4, LeavesAreNodes
        <3>3. s = 2 * P(j) - 1
            BY DEF s
        <3> HIDE DEF N
        <3>4. /\ N = 0 => compute_peaks_positions(s) = {<<s>>}
              /\ N # 0 => compute_peaks_positions(s + N) = LeadsMovedPeaks(s, s, compute_peaks_positions(N))
            BY <3>1, <3>3, FirstOfPeaks, Zenon
        <3>5. CASE N = 0
            <4>1. r = 0 /\ MmrSize(n) = s
                BY <2>4, <3>1, <3>2, <3>5
            <4>2. c = 0
                <5>1. PeakTrees(0) = {}
                    BY DEF PeakTrees, Subtrees
                <5> QED
                    BY <4>1, <5>1, FS_EmptySet DEF c
            <4>3. z = <<s>>
                <5>1. z = [i \in 1 .. 1 |-> s]
                    <6> HIDE DEF z
                    <6> QED
                        BY <2>14, <4>2
                <5>2. [i \in 1 .. 1 |-> s] = <<s>>
                    OBVIOUS
                <5> HIDE DEF z
                <5> QED
                    BY <5>1, <5>2
            <4> QED
                BY <3>4, <3>5, <4>1, <4>3
        <3>6. CASE N # 0
            <4>1. r # 0
                <5>1. MmrSize(0) = 0
                    <6>1. Subtrees(0) = {}
                        BY DEF Subtrees
                    <6> QED
                        BY <6>1, FS_EmptySet DEF MmrSize
                <5> QED
                    BY <3>6, <5>1 DEF N
            <4>2. compute_peaks_positions(N) = {q}
                BY <2>5, <4>1 DEF N, q
            <4> QED
                BY <3>1, <3>4, <3>6, <4>2 DEF LeadsMovedPeaks
        <3> QED
            BY <3>5, <3>6
    <2>17. Ordered(n)
        BY <2>7
    <2> HIDE DEF z, Ordered
    <2> QED
        BY <2>2, <2>15, <2>16, <2>17
<1>4. Holds(k)
    <2> HIDE DEF Holds
    <2> QED
        BY <1>3
<1> QED
    BY <1>4

-----------------------------------------------------------------------------
(* Positions.                                                              *)

(* A subtree has its position among the nodes of a forest that has its     *)
(* last leaf: that is what At says.                                        *)
At(h, i) == MmrSize(i * P(h) - 1) + h + 1

LEMMA PositionIsAt ==
    ASSUME NEW h \in 0 .. MaxHeight, NEW i
    PROVE  PositionOf(<<h, i>>) = At(h, i) /\ LastLeaf(<<h, i>>) = i * P(h)
<1>1. Width[h] = P(h)
    BY WidthIsPow
<1>2. LastLeaf(<<h, i>>) = i * P(h)
    BY <1>1 DEF LastLeaf
<1>3. PositionOf(<<h, i>>) = MmrSize(LastLeaf(<<h, i>>) - 1) + h + 1
    BY DEF PositionOf
<1> QED
    BY <1>2, <1>3 DEF At

LEMMA AtBelow ==
    ASSUME NEW k \in Nat, k < P(MaxHeight + 1), NEW h \in 0 .. MaxHeight, NEW i \in Nat \ {0},
           i * P(h) <= k
    PROVE  At(h, i) \in Nat \ {0} /\ At(h, i) <= MmrSize(k)
<1> DEFINE n == i * P(h)
<1>1. n \in Nat \ {0} /\ n <= k
    <2>1. P(h) \in Nat \ {0}
        BY Heights
    <2> QED
        BY <2>1
<1> HIDE DEF n
<1>2. n < P(MaxHeight + 1) /\ MaxHeight + 1 \in 0 .. MaxHeight + 1 /\ n - 1 \in Nat
    <2>1. P(MaxHeight + 1) \in Nat /\ MaxHeight + 1 \in 0 .. MaxHeight + 1
        BY Heights
    <2> QED
        BY <1>1, <2>1
<1>3. PICK g \in 0 .. MaxHeight, j \in Int : n = j * P(g) /\ Odd(j)
    <2>1. (MaxHeight + 1) - 1 = MaxHeight
        BY Heights
    <2> QED
        BY <1>1, <1>2, <2>1, OddPart
<1>4. P(g) \in Nat \ {0} /\ j \in Nat \ {0}
    <2>1. P(g) \in Nat \ {0}
        BY <1>3, Heights
    <2>2. ~(j <= 0)
        <3>1. j <= 0 => j * P(g) <= 0
            BY <2>1, Products
        <3> QED
            BY <1>1, <1>3, <3>1
    <2> QED
        BY <2>1, <2>2
<1>5. MmrSize(n) = MmrSize(n - 1) + g + 1
    BY <1>1, <1>3, <1>4, SizeSteps
<1>6. h <= g
    <2>1. i * P(h) = j * P(g)
        BY <1>3 DEF n
    <2> QED
        BY <1>3, <1>4, <2>1, OddPartIsLargest
<1>7. MmrSize(n) <= MmrSize(k) /\ MmrSize(n) \in Nat /\ MmrSize(n - 1) \in Nat /\ MmrSize(k) \in Nat
    <2>1. n \in 0 .. k
        BY <1>1
    <2> QED
        BY <1>1, <1>2, <2>1, SizeGrows, ForestFinite
<1>8. At(h, i) = MmrSize(n - 1) + h + 1
    BY DEF At, n
<1> QED
    BY <1>3, <1>5, <1>6, <1>7, <1>8

(* So an MMR is larger with each leaf, and its size tells how many it has. *)
LEMMA SizeDetermines ==
    ASSUME NEW k \in Nat, NEW m \in Nat, k < P(MaxHeight + 1), m < P(MaxHeight + 1)
    PROVE  /\ k < m => MmrSize(k) < MmrSize(m)
           /\ MmrSize(k) = MmrSize(m) => k = m
<1>1. ASSUME NEW a \in Nat, NEW b \in Nat, b < P(MaxHeight + 1), a < b
      PROVE  MmrSize(a) < MmrSize(b)
    <2>1. 0 \in 0 .. MaxHeight /\ P(0) = 1 /\ b \in Nat \ {0} /\ b * 1 = b /\ b - 1 \in Nat /\ a \in 0 .. b - 1
        BY <1>1, Heights, PowTypes
    <2>2. At(0, b) <= MmrSize(b) /\ At(0, b) = MmrSize(b - 1) + 0 + 1
        <3>1. b * P(0) <= b
            BY <2>1
        <3>2. At(0, b) <= MmrSize(b)
            BY <1>1, <2>1, <3>1, AtBelow
        <3> QED
            BY <2>1, <3>2 DEF At
    <2>3. MmrSize(a) <= MmrSize(b - 1) /\ MmrSize(a) \in Nat /\ MmrSize(b - 1) \in Nat /\ MmrSize(b) \in Nat
        BY <2>1, SizeGrows, ForestFinite
    <2> QED
        BY <2>2, <2>3
<1>2. MmrSize(k) \in Nat /\ MmrSize(m) \in Nat
    BY ForestFinite
<1>3. k < m => MmrSize(k) < MmrSize(m)
    BY <1>1
<1>4. m < k => MmrSize(m) < MmrSize(k)
    BY <1>1
<1> QED
    BY <1>2, <1>3, <1>4

(* A pair of perfect trees of one height: the left one is a perfect tree   *)
(* of nodes before the right one.                                          *)
LEMMA LeftSibling ==
    ASSUME NEW h \in 0 .. MaxHeight, NEW m \in Nat \ {0}, Odd(m)
    PROVE  At(h, m + 1) = At(h, m) + 2 * P(h) - 1
<1> DEFINE p == P(h)
           a == m * p
           b == (m + 1) * p
<1>1. p \in Nat \ {0} /\ h \in 0 .. MaxHeight + 1 /\ h \in Nat
    BY Heights
<1>2. a \in Nat \ {0} /\ b - 1 = a + (p - 1) /\ p - 1 \in 0 .. p - 1 /\ a - 1 \in Nat
    <2> HIDE DEF p
    <2> QED
        BY <1>1
<1>3. MmrSize(a + (p - 1)) = MmrSize(a) + MmrSize(p - 1)
    BY <1>1, <1>2, SizeShifts
<1>4. MmrSize(a) = MmrSize(a - 1) + h + 1
    BY <1>2, SizeSteps
<1>5. MmrSize(p - 1) = 2 * p - 2 - h
    BY SizeOfPower
<1>6. At(h, m + 1) = MmrSize(b - 1) + h + 1 /\ At(h, m) = MmrSize(a - 1) + h + 1
    BY DEF At
<1>7. MmrSize(a - 1) \in Nat
    BY <1>2, ForestFinite
<1> HIDE DEF a, b
<1>8. MmrSize(b - 1) = MmrSize(a - 1) + h + 1 + (2 * p - 2 - h)
    BY <1>2, <1>3, <1>4, <1>5
<1> HIDE DEF p
<1>9. At(h, m + 1) = At(h, m) + 2 * p - 1
    BY <1>1, <1>6, <1>7, <1>8
<1> QED
    BY <1>9 DEF p

(* After the node of height h that ends with leaf n comes its parent, if   *)
(* that is built with the same leaf, and its left child is the left        *)
(* sibling.                                                                *)
LEMMA ParentIsNext ==
    ASSUME NEW n \in Nat \ {0}, n < P(MaxHeight + 1), NEW h \in 0 .. MaxHeight,
           NEW i \in Nat \ {0}, n = i * P(h), ~Odd(i)
    PROVE  /\ h + 1 \in 0 .. MaxHeight
           /\ compute_height[MmrSize(n - 1) + h + 2] = {h + 1}
           /\ \E m \in Nat \ {0} : i = 2 * m /\ n = m * P(h + 1) /\ Odd(i - 1)
           /\ MmrSize(n - 1) + h + 2 - P(h + 1) = At(h, i - 1)
<1>0. P(h) \in Nat \ {0} /\ P(h + 1) = 2 * P(h) /\ MaxHeight \in Nat /\ P(MaxHeight + 1) \in Nat
    BY Heights
<1>1. PICK m \in Nat \ {0} : i = 2 * m
    <2>1. /\ i % 2 = 0 \/ i % 2 = 1
          /\ i = 2 * (i \div 2) + (i % 2) /\ i \div 2 \in Nat
        OBVIOUS
    <2>2. i % 2 # 1
        BY <2>1 DEF Odd
    <2> QED
        BY <2>1, <2>2
<1>2. n = m * P(h + 1)
    BY <1>0, <1>1
<1>3. h + 1 \in 0 .. MaxHeight
    <2>1. h # MaxHeight
        <3> SUFFICES ASSUME h = MaxHeight
                     PROVE  FALSE
            OBVIOUS
        <3>1. P(h + 1) <= m * P(h + 1)
            BY <1>0, <1>1, Products
        <3> DEFINE w == m * P(h + 1)
        <3>2. w \in Int
            BY <1>2
        <3> QED
            BY <1>0, <1>2, <3>1
    <2> QED
        BY <1>0, <2>1
<1>4. compute_height[MmrSize(n - 1) + (h + 1) + 1] = {h + 1}
    BY <1>1, <1>2, <1>3, HeightAtPosition
<1>5. MmrSize(n - 1) \in Nat /\ MmrSize(n - 1) + (h + 1) + 1 = MmrSize(n - 1) + h + 2
    <2>1. n - 1 \in Nat
        OBVIOUS
    <2>2. MmrSize(n - 1) \in Nat
        BY <2>1, ForestFinite
    <2> QED
        BY <2>2
<1>6. i - 1 \in Nat \ {0} /\ Odd(i - 1) /\ (i - 1) + 1 = i
    <2>1. i - 1 = 2 * (m - 1) + 1 /\ m - 1 \in Int /\ i - 1 \in Nat \ {0}
        BY <1>1
    <2> QED
        BY <2>1 DEF Odd
<1>7. At(h, i) = At(h, i - 1) + 2 * P(h) - 1
    <2> DEFINE j == i - 1
    <2>1. j \in Nat \ {0} /\ Odd(j) /\ j + 1 = i
        BY <1>6
    <2> HIDE DEF j
    <2>2. At(h, j + 1) = At(h, j) + 2 * P(h) - 1
        BY <2>1, LeftSibling
    <2> QED
        BY <2>1, <2>2 DEF j
<1>8. At(h, i) = MmrSize(n - 1) + h + 1
    BY DEF At
<1>9. At(h, i - 1) \in Int
    <2>1. (i - 1) * P(h) - 1 \in Nat
        <3> DEFINE j == i - 1
        <3>1. j \in Nat \ {0}
            BY <1>6
        <3> HIDE DEF j
        <3>2. j * P(h) - 1 \in Nat
            BY <1>0, <3>1
        <3> QED
            BY <3>2 DEF j
    <2>2. MmrSize((i - 1) * P(h) - 1) \in Nat
        BY <2>1, ForestFinite
    <2> QED
        BY <2>2 DEF At
<1>10. MmrSize(n - 1) + h + 2 - P(h + 1) = At(h, i - 1)
    BY <1>0, <1>5, <1>7, <1>8, <1>9
<1> QED
    BY <1>1, <1>2, <1>3, <1>4, <1>5, <1>6, <1>10

(* Otherwise the next leaf comes. *)
LEMMA LeafIsNext ==
    ASSUME NEW n \in Nat \ {0}, n + 1 < P(MaxHeight + 1), NEW h \in 0 .. MaxHeight,
           NEW i \in Nat \ {0}, n = i * P(h), Odd(i)
    PROVE  /\ MmrSize(n) = MmrSize(n - 1) + h + 1
           /\ compute_height[MmrSize(n - 1) + h + 2] = {0}
<1>1. MmrSize(n) = MmrSize(n - 1) + h + 1
    BY SizeSteps
<1>2. 0 \in 0 .. MaxHeight /\ n + 1 = (n + 1) * P(0) /\ n + 1 \in Nat \ {0}
    BY Heights, PowTypes
<1>3. compute_height[MmrSize((n + 1) - 1) + 0 + 1] = {0}
    BY <1>2, HeightAtPosition
<1>4. (n + 1) - 1 = n /\ MmrSize(n) \in Nat /\ MmrSize(n - 1) \in Nat
    BY ForestFinite
<1>5. MmrSize((n + 1) - 1) + 0 + 1 = MmrSize(n - 1) + h + 2
    BY <1>1, <1>4
<1> QED
    BY <1>1, <1>3, <1>5

(* The assertion on a size passes for the sizes of MMRs alone. *)
LEMMA ValidSize ==
    ASSUME NEW n \in Int, n < P(MaxHeight + 1)
    PROVE  assert_mmr_size_is_valid(n) <=> \E k \in 1 .. n : MmrSize(k) = n
<1>1. RangeCheck(pow2_array[MaxBits - 1] - n)
    <2>1. MaxBits - 1 \in 0 .. MaxBits /\ MaxHeight + 1 \in 0 .. MaxBits
          /\ ~(MaxBits - 1 < MaxHeight + 1)
        BY Heights
    <2>2. ~(P(MaxBits - 1) < P(MaxHeight + 1)) /\ P(MaxBits - 1) \in Nat /\ P(MaxHeight + 1) \in Nat
        BY <2>1, PowOrder, PowTypes
    <2> QED
        BY <2>2 DEF RangeCheck, P
<1>2. CASE n >= 1
    <2>1. is_valid_mmr_size_inner[<<n, 0>>] = {IsSize(n)}
        BY <1>2, ValidIffSize
    <2>2. TRUE \in {IsSize(n)} <=> IsSize(n)
        <3>1. IsSize(n) \in BOOLEAN
            BY DEF IsSize
        <3> QED
            BY <3>1
    <2>3. n # 0
        BY <1>2
    <2>4. assert_mmr_size_is_valid(n) <=> IsSize(n)
        BY <1>1, <2>1, <2>2, <2>3 DEF assert_mmr_size_is_valid
    <2> QED
        BY <2>4 DEF IsSize
<1>3. CASE n = 0
    <2>1. ~\E k \in 1 .. n : MmrSize(k) = n
        BY <1>3
    <2> QED
        BY <1>3, <2>1 DEF assert_mmr_size_is_valid
<1>4. CASE n < 0
    <2>1. is_valid_mmr_size_inner[<<n, 0>>] = {n = 0} /\ n # 0
        <3>1. n < 1 /\ 0 \in Nat /\ n # 0
            BY <1>4
        <3> QED
            BY <3>1, ValidEquation
    <2>2. ~(TRUE \in {n = 0})
        BY <2>1
    <2>3. ~\E k \in 1 .. n : MmrSize(k) = n
        BY <1>4
    <2> QED
        BY <2>1, <2>2, <2>3 DEF assert_mmr_size_is_valid
<1> QED
    BY <1>2, <1>3, <1>4

(* The number of peaks. *)
PeakCount(k) == Cardinality(PeakTrees(k))

(* The sequence of the peaks has each of them, and no position twice.      *)
LEMMA PeaksListed ==
    ASSUME NEW k \in Nat \ {0}, k < P(MaxHeight + 1)
    PROVE  /\ PeakCount(k) \in Nat \ {0}
           /\ PeakSequence(k) \in [1 .. PeakCount(k) -> PeakTrees(k)]
           /\ PeakPositions(k) = [i \in 1 .. PeakCount(k) |-> PositionOf(PeakSequence(k)[i])]
           /\ \A t \in PeakTrees(k) : \E i \in 1 .. PeakCount(k) : PeakSequence(k)[i] = t
           /\ \A i, j \in 1 .. PeakCount(k) :
                  PeakPositions(k)[i] = PeakPositions(k)[j] => i = j
<1> DEFINE c == PeakCount(k)
           s == PeakSequence(k)
<1>1. IsFiniteSet(PeakTrees(k)) /\ c \in Nat
    BY PeaksFinite DEF PeakCount
<1>2. PeakTrees(k) # {}
    <2>1. PICK j \in 0 .. MaxHeight : P(j) <= k /\ k < P(j + 1)
        BY HighestPeak
    <2>2. P(j) \in Nat \ {0} /\ P(j + 1) = 2 * P(j)
        BY Heights
    <2>3. 1 \in Int /\ 1 >= 1 /\ 1 * P(j) <= k /\ k < (1 + 1) * P(j) /\ 1 = 2 * 0 + 1 /\ 0 \in Int
        BY <2>1, <2>2
    <2>4. <<j, 1>> \in PeakTrees(k)
        BY <2>3, PeakIff
    <2> QED
        BY <2>4
<1>3. c # 0
    BY <1>1, <1>2, FS_EmptySet DEF PeakCount
<1>4. Descends(s, k)
    <2>1. \E u : Descends(u, k)
        BY PeaksInOrder
    <2>2. PICK u : Descends(u, k)
        BY <2>1
    <2>3. s = CHOOSE v \in [1 .. Cardinality(PeakTrees(k)) -> PeakTrees(k)] :
                  \A i, j \in DOMAIN v : i < j => v[i][1] > v[j][1]
        BY DEF PeakSequence
    <2> HIDE DEF s
    <2> QED
        BY <2>2, <2>3 DEF Descends
<1>5. s \in [1 .. c -> PeakTrees(k)] /\ \A i, j \in 1 .. c : i < j => s[i][1] > s[j][1]
    <2> HIDE DEF s
    <2>1. s \in [1 .. c -> PeakTrees(k)]
        BY <1>4 DEF Descends, PeakCount
    <2>2. DOMAIN s = 1 .. c
        BY <2>1
    <2> QED
        BY <1>4, <2>1, <2>2 DEF Descends
<1>6. ASSUME NEW i \in 1 .. c
      PROVE  /\ s[i] \in PeakTrees(k) /\ s[i][1] \in 0 .. MaxHeight
             /\ compute_height[PositionOf(s[i])] = {s[i][1]}
    <2> HIDE DEF s, c
    <2>1. s[i] \in PeakTrees(k)
        BY <1>5
    <2> DEFINE t == s[i]
    <2>2. /\ t = <<t[1], t[2]>> /\ t[1] \in 0 .. MaxHeight /\ t[2] \in Nat \ {0}
          /\ t[2] * P(t[1]) \in Nat \ {0} /\ t[2] * P(t[1]) <= k
        BY <2>1, PeakTypes
    <2> DEFINE n == t[2] * P(t[1])
    <2>3. PositionOf(t) = MmrSize(n - 1) + t[1] + 1
        <3> HIDE DEF t
        <3>1. PositionOf(<<t[1], t[2]>>) = At(t[1], t[2])
            BY <2>2, PositionIsAt
        <3> QED
            BY <2>2, <3>1 DEF At
    <2>4. n \in Nat \ {0} /\ n < P(MaxHeight + 1)
        <3>1. P(MaxHeight + 1) \in Nat
            BY Heights
        <3> HIDE DEF t
        <3>2. n \in Nat \ {0} /\ n <= k
            BY <2>2
        <3> HIDE DEF n
        <3> QED
            BY <3>1, <3>2
    <2>5. compute_height[MmrSize(n - 1) + t[1] + 1] = {t[1]}
        <3> DEFINE h == t[1]
                   m == t[2]
        <3>1. h \in 0 .. MaxHeight /\ m \in Int /\ n = m * P(h)
            BY <2>2
        <3> HIDE DEF t, n, h, m
        <3>2. compute_height[MmrSize(n - 1) + h + 1] = {h}
            BY <2>4, <3>1, HeightAtPosition
        <3> QED
            BY <3>2 DEF h
    <2> HIDE DEF n
    <2> QED
        BY <2>1, <2>2, <2>3, <2>5
<1>7. ASSUME NEW i \in 1 .. c, NEW j \in 1 .. c, s[i][1] = s[j][1]
      PROVE  i = j
    <2>1. s[i][1] \in Int /\ s[j][1] \in Int
        BY <1>6
    <2>2. ~(s[i][1] > s[j][1]) /\ ~(s[j][1] > s[i][1])
        BY <1>7, <2>1
    <2>3. ~(i < j) /\ ~(j < i)
        <3> HIDE DEF s, c
        <3> QED
            BY <1>5, <2>2
    <2>4. i \in Nat /\ j \in Nat
        BY <1>1
    <2> QED
        BY <2>3, <2>4
<1>8. \A t \in PeakTrees(k) : \E i \in 1 .. c : s[i] = t
    <2>1. s \in Injection(1 .. c, PeakTrees(k))
        <3> HIDE DEF s, c
        <3> QED
            BY <1>5, <1>7 DEF Injection, IsInjective
    <2>2. Cardinality(1 .. c) = Cardinality(PeakTrees(k))
        <3>1. Cardinality(1 .. c) = c
            BY <1>1, Counted
        <3> QED
            BY <3>1 DEF PeakCount
    <2> HIDE DEF s, c
    <2>3. s \in Surjection(1 .. c, PeakTrees(k))
        BY <1>1, <2>1, <2>2, FS_Injection
    <2> QED
        BY <2>3 DEF Surjection
<1>9. PeakPositions(k) = [i \in 1 .. c |-> PositionOf(s[i])]
    <2>1. DOMAIN s = 1 .. c
        <3> HIDE DEF s, c
        <3> QED
            BY <1>5
    <2> QED
        BY <2>1 DEF PeakPositions
<1>10. ASSUME NEW i \in 1 .. c, NEW j \in 1 .. c, PeakPositions(k)[i] = PeakPositions(k)[j]
       PROVE  i = j
    <2>1. PositionOf(s[i]) = PositionOf(s[j])
        <3> HIDE DEF s, c
        <3> QED
            BY <1>9, <1>10
    <2>2. {s[i][1]} = {s[j][1]}
        <3> HIDE DEF s, c
        <3> QED
            BY <1>6, <2>1
    <2>3. s[i][1] = s[j][1]
        BY <2>2
    <2> HIDE DEF s, c
    <2> QED
        BY <1>7, <2>3
<1> HIDE DEF s, c
<1>11. c \in Nat \ {0}
    BY <1>1, <1>3
<1> QED
    BY <1>5, <1>8, <1>9, <1>10, <1>11 DEF s, c

-----------------------------------------------------------------------------
(* Hashing.                                                                *)

(* Two arguments are computed from an argument, both of a smaller size.    *)
Halves(D, size, Base, left, right) ==
    /\ size \in [D -> Nat]
    /\ \A d \in D \ Base : /\ left[d] \in D /\ size[left[d]] < size[d]
                          /\ right[d] \in D /\ size[right[d]] < size[d]

HashesHalves(f, D, Base, base, left, right) ==
    f = [d \in D |-> IF d \in Base THEN base[d] ELSE <<f[left[d]], f[right[d]]>>]

(* There is a function that hashes what it returns for the two.            *)
LEMMA HashesExist ==
    ASSUME NEW D, NEW size, NEW Base, NEW base, NEW left, NEW right,
           Halves(D, size, Base, left, right)
    PROVE  \E f : HashesHalves(f, D, Base, base, left, right)
<1> USE DEF Halves
<1> DEFINE Step(d, f) == IF d \in Base THEN base[d] ELSE <<f[left[d]], f[right[d]]>>
           Upto(f, n) == \A d \in D : size[d] < n => f[d] = Step(d, f)
           Bad == {n \in Nat : ~\E f : Upto(f, n)}
<1>0. ASSUME NEW d \in D, NEW f, NEW g, \A c \in D : size[c] < size[d] => f[c] = g[c]
      PROVE  Step(d, f) = Step(d, g)
    <2>1. CASE d \in Base
        BY <2>1
    <2>2. CASE d \notin Base
        <3>1. f[left[d]] = g[left[d]] /\ f[right[d]] = g[right[d]]
            BY <1>0, <2>2
        <3> QED
            BY <2>2, <3>1
    <2> QED
        BY <2>1, <2>2
<1> HIDE DEF Step
<1>1. ASSUME NEW n \in Nat, NEW f, NEW g, Upto(f, n), Upto(g, n), NEW d \in D, size[d] < n
      PROVE  f[d] = g[d]
    <2> DEFINE Differ == {i \in Nat : \E c \in D : size[c] = i /\ size[c] < n /\ f[c] # g[c]}
    <2> SUFFICES ASSUME f[d] # g[d]
                 PROVE  FALSE
        OBVIOUS
    <2>1. PICK m \in Differ : \A i \in Differ : m <= i
        <3>1. Differ \in SUBSET Nat /\ size[d] \in Differ
            BY <1>1
        <3> HIDE DEF Differ
        <3> QED
            BY <3>1, SmallestExists
    <2>2. PICK c \in D : size[c] = m /\ size[c] < n /\ f[c] # g[c]
        BY <2>1
    <2>3. ASSUME NEW e \in D, size[e] < size[c]
          PROVE  f[e] = g[e]
        <3>1. size[e] < n /\ ~(m <= size[e])
            BY <2>2, <2>3
        <3>2. size[e] \notin Differ
            <4> HIDE DEF Differ
            <4> QED
                BY <2>1, <3>1
        <3> QED
            BY <3>1, <3>2
    <2> HIDE DEF Differ
    <2>4. Step(c, f) = Step(c, g)
        BY <1>0, <2>3
    <2> QED
        BY <1>1, <2>2, <2>4
<1>2. Bad = {}
    <2> SUFFICES ASSUME Bad # {}
                 PROVE  FALSE
        OBVIOUS
    <2>1. PICK m \in Bad : \A k \in Bad : m <= k
        <3>1. Bad \in SUBSET Nat
            OBVIOUS
        <3> HIDE DEF Bad
        <3> QED
            BY <3>1, SmallestExists
    <2>2. m \in Nat /\ ~\E f : Upto(f, m)
        BY <2>1
    <2>3. m # 0
        <3>1. Upto(0, 0)
            OBVIOUS
        <3> HIDE DEF Upto
        <3> QED
            BY <2>2, <3>1
    <2>4. m - 1 \in Nat /\ m - 1 \notin Bad
        <3>1. m - 1 \in Nat /\ ~(m <= m - 1)
            BY <2>2, <2>3
        <3> HIDE DEF Bad
        <3> QED
            BY <2>1, <3>1
    <2>5. PICK f : Upto(f, m - 1)
        <3> HIDE DEF Upto
        <3> QED
            BY <2>4
    <2> DEFINE g == [d \in D |-> IF size[d] = m - 1 THEN Step(d, f) ELSE f[d]]
    <2>6. \A d \in D : g[d] = IF size[d] = m - 1 THEN Step(d, f) ELSE f[d]
        OBVIOUS
    <2> HIDE DEF g
    <2>7. ASSUME NEW d \in D, size[d] < m
          PROVE  g[d] = Step(d, g)
        <3>1. \A c \in D : size[c] < size[d] => g[c] = f[c]
            <4>1. \A c \in D : size[c] < size[d] => size[c] # m - 1
                <5>1. \A i, k \in Nat : i < k /\ k < m => i # m - 1
                    BY <2>2
                <5> QED
                    BY <2>7, <5>1
            <4> QED
                BY <2>6, <4>1
        <3>2. Step(d, g) = Step(d, f)
            BY <1>0, <3>1
        <3>3. size[d] = m - 1 \/ (size[d] < m - 1 /\ size[d] # m - 1)
            <4>1. \A i, k \in Nat : i < k => i = k - 1 \/ (i < k - 1 /\ i # k - 1)
                OBVIOUS
            <4> QED
                BY <2>2, <2>7, <4>1
        <3> QED
            BY <2>5, <2>6, <3>2, <3>3
    <2>8. Upto(g, m)
        BY <2>7
    <2> HIDE DEF Upto
    <2> QED
        BY <2>2, <2>8
<1> DEFINE part == [n \in Nat |-> CHOOSE f : Upto(f, n)]
           whole == [d \in D |-> part[size[d] + 1][d]]
<1>3. \A n \in Nat : Upto(part[n], n)
    <2>1. \A n \in Nat : \E f : Upto(f, n)
        BY <1>2
    <2> HIDE DEF Upto
    <2> QED
        BY <2>1
<1>4. ASSUME NEW d \in D
      PROVE  whole[d] = Step(d, whole)
    <2> DEFINE n == size[d] + 1
    <2>1. ASSUME NEW c \in D, size[c] < size[d]
          PROVE  whole[c] = part[n][c]
        <3> DEFINE k == size[c] + 1
        <3>1. k \in Nat /\ n \in Nat /\ size[c] < k /\ \A e \in D : size[e] < k => size[e] < n
            BY <2>1
        <3>2. whole[c] = part[k][c]
            OBVIOUS
        <3> HIDE DEF k, n, part, whole
        <3>3. Upto(part[n], k) /\ Upto(part[k], k)
            BY <1>3, <3>1
        <3> HIDE DEF Upto
        <3>4. part[k][c] = part[n][c]
            BY <1>1, <3>1, <3>3
        <3> QED
            BY <3>2, <3>4
    <2>2. n \in Nat /\ size[d] < n /\ whole[d] = part[n][d]
        OBVIOUS
    <2> HIDE DEF whole, part, n
    <2>3. Step(d, whole) = Step(d, part[n])
        BY <1>0, <2>1, <2>2
    <2>4. part[n][d] = Step(d, part[n])
        BY <1>3, <2>2
    <2> QED
        BY <2>2, <2>3, <2>4
<1>5. whole = [d \in D |-> Step(d, whole)]
    <2>1. DOMAIN whole = D /\ whole = [d \in D |-> whole[d]]
        OBVIOUS
    <2> HIDE DEF whole
    <2> QED
        BY <1>4, <2>1
<1> HIDE DEF whole
<1> QED
    BY <1>5 DEF Step, HashesHalves

(* The hash of a subtree is that of its leaf, or of its two halves.        *)
LEMMA TreeEquation ==
    ASSUME NEW leaves, NEW h \in Nat, NEW i \in Nat \ {0}
    PROVE  /\ h = 0 => TreeHash(leaves)[<<h, i>>] = leaves[i]
           /\ h # 0 => TreeHash(leaves)[<<h, i>>] =
                           <<TreeHash(leaves)[<<h - 1, 2 * i - 1>>],
                             TreeHash(leaves)[<<h - 1, 2 * i>>]>>
<1> DEFINE D == Nat \X (Nat \ {0})
           Base == {t \in D : t[1] = 0}
           base == [t \in D |-> leaves[t[2]]]
           left == [t \in D |-> <<t[1] - 1, 2 * t[2] - 1>>]
           right == [t \in D |-> <<t[1] - 1, 2 * t[2]>>]
           size == [t \in D |-> t[1]]
           Equation(f) == f = [t \in D |-> IF t[1] = 0 THEN leaves[t[2]]
                                           ELSE <<f[<<t[1] - 1, 2 * t[2] - 1>>],
                                                  f[<<t[1] - 1, 2 * t[2]>>]>>]
<1>1. size \in [D -> Nat]
    OBVIOUS
<1>2. ASSUME NEW t \in D \ Base
      PROVE  /\ left[t] \in D /\ size[left[t]] < size[t]
             /\ right[t] \in D /\ size[right[t]] < size[t]
    <2>1. t \in D /\ t[1] \in Nat \ {0} /\ t[2] \in Nat \ {0}
        OBVIOUS
    <2>2. t[1] - 1 \in Nat /\ 2 * t[2] - 1 \in Nat \ {0} /\ 2 * t[2] \in Nat \ {0}
        BY <2>1
    <2> QED
        BY <2>1, <2>2
<1>3. \E f : HashesHalves(f, D, Base, base, left, right)
    <2>1. Halves(D, size, Base, left, right)
        <3> HIDE DEF D, Base, left, right, size
        <3> QED
            BY <1>1, <1>2 DEF Halves
    <2> HIDE DEF D, Base, base, left, right, size
    <2> QED
        BY <2>1, HashesExist
<1>4. \E f : Equation(f)
    BY <1>3 DEF HashesHalves
<1>5. TreeHash(leaves) = CHOOSE f : Equation(f)
    BY DEF TreeHash, PairHash
<1>6. Equation(TreeHash(leaves))
    <2> HIDE DEF Equation
    <2> QED
        BY <1>4, <1>5
<1>7. \A t \in D : TreeHash(leaves)[t] =
                     IF t[1] = 0 THEN leaves[t[2]]
                     ELSE <<TreeHash(leaves)[<<t[1] - 1, 2 * t[2] - 1>>],
                            TreeHash(leaves)[<<t[1] - 1, 2 * t[2]>>]>>
    BY <1>6
<1>8. <<h, i>> \in D
    OBVIOUS
<1> QED
    BY <1>7, <1>8

(* Two sequences of leaves that agree up to leaf n. *)
Agree(a, b, n) == \A i \in 1 .. n : a[i] = b[i]

(* The hash of a subtree depends on no leaves but its own.                 *)
LEMMA TreeIsLocal ==
    ASSUME NEW n \in Nat, NEW a, NEW b, Agree(a, b, n),
           NEW t \in Subtrees(n)
    PROVE  TreeHash(a)[t] = TreeHash(b)[t]
<1> USE DEF Agree
<1>0. PICK h \in 0 .. MaxHeight, i \in Nat \ {0} : t = <<h, i>> /\ i * P(h) <= n
    <2>1. PICK h \in 0 .. MaxHeight, i \in 1 .. n : t = <<h, i>> /\ LastLeaf(t) <= n
        BY DEF Subtrees
    <2>2. LastLeaf(<<h, i>>) = i * P(h)
        BY PositionIsAt
    <2>3. i \in Nat \ {0}
        OBVIOUS
    <2> QED
        BY <2>1, <2>2, <2>3
<1> DEFINE Holds(g) == \A k \in Nat \ {0} :
                           k * P(g) <= n => TreeHash(a)[<<g, k>>] = TreeHash(b)[<<g, k>>]
           Bad == {g \in 0 .. MaxHeight : ~Holds(g)}
<1>1. Bad = {}
    <2> SUFFICES ASSUME Bad # {}
                 PROVE  FALSE
        OBVIOUS
    <2>1. PICK g \in Nat : g \in Bad /\ \A k \in Bad : g <= k
        <3>1. Bad \in SUBSET Nat
            OBVIOUS
        <3> HIDE DEF Bad
        <3> QED
            BY <3>1, SmallestExists
    <2>2. g \in 0 .. MaxHeight /\ ~Holds(g) /\ g \in Nat /\ MaxHeight \in Nat
        BY <2>1, Heights
    <2>3. PICK k \in Nat \ {0} : /\ k * P(g) <= n
                                 /\ TreeHash(a)[<<g, k>>] # TreeHash(b)[<<g, k>>]
        BY <2>2
    <2>4. g # 0
        <3> SUFFICES ASSUME g = 0
                     PROVE  FALSE
            OBVIOUS
        <3>1. k * P(0) = k
            BY PowTypes
        <3>2. \A w : TreeHash(w)[<<0, k>>] = w[k]
            <4>1. 0 \in Nat
                OBVIOUS
            <4> QED
                BY <4>1, TreeEquation, Zenon
        <3> QED
            BY <2>3, <3>1, <3>2
    <2>5. g - 1 \in 0 .. MaxHeight /\ g - 1 \notin Bad
        <3>1. g - 1 \in 0 .. MaxHeight /\ ~(g <= g - 1)
            BY <2>2, <2>4
        <3> HIDE DEF Bad
        <3> QED
            BY <2>1, <3>1
    <2>6. Holds(g - 1)
        BY <2>5
    <2> DEFINE q == P(g - 1)
               l == 2 * k - 1
               r == 2 * k
    <2>7. l \in Nat \ {0} /\ r \in Nat \ {0} /\ l * q <= n /\ r * q <= n
        <3>1. P(g) = 2 * q /\ q \in Nat \ {0}
            <4>1. (g - 1) + 1 = g /\ g - 1 \in 0 .. MaxHeight + 1 /\ g - 1 \in 0 .. MaxHeight + 2
                BY <2>2, <2>5
            <4> QED
                BY <4>1, Heights
        <3> HIDE DEF q
        <3>2. r * q = k * (2 * q) /\ l * q = r * q - q /\ r * q \in Int
            BY <3>1
        <3> HIDE DEF l, r
        <3>3. r * q <= n /\ l * q <= r * q
            BY <2>3, <3>1, <3>2
        <3>4. l * q \in Int
            BY <3>1, <3>2
        <3>5. l \in Nat \ {0} /\ r \in Nat \ {0}
            BY DEF l, r
        <3> QED
            BY <3>2, <3>3, <3>4, <3>5
    <2>8. /\ TreeHash(a)[<<g - 1, l>>] = TreeHash(b)[<<g - 1, l>>]
          /\ TreeHash(a)[<<g - 1, r>>] = TreeHash(b)[<<g - 1, r>>]
        <3> HIDE DEF l, r
        <3> QED
            BY <2>6, <2>7
    <2>9. \A w : TreeHash(w)[<<g, k>>] = <<TreeHash(w)[<<g - 1, l>>], TreeHash(w)[<<g - 1, r>>]>>
        <3> SUFFICES ASSUME NEW w
                     PROVE  TreeHash(w)[<<g, k>>] =
                                <<TreeHash(w)[<<g - 1, l>>], TreeHash(w)[<<g - 1, r>>]>>
            OBVIOUS
        <3>1. g # 0 => TreeHash(w)[<<g, k>>] =
                           <<TreeHash(w)[<<g - 1, 2 * k - 1>>], TreeHash(w)[<<g - 1, 2 * k>>]>>
            <4> HIDE DEF Holds, Bad
            <4> QED
                BY TreeEquation, SMTT(60)
        <3> QED
            BY <2>4, <3>1, Zenon
    <2> QED
        BY <2>3, <2>8, <2>9
<1>2. Holds(h)
    <2> HIDE DEF Holds
    <2> QED
        BY <1>1
<1> QED
    BY <1>0, <1>2

(* A function on 1 .. c. *)
HasLength(f, c) == f = [i \in 1 .. c |-> f[i]]

(* A function on 1 .. c is a sequence of length c.                         *)
LEMMA IsSequence ==
    ASSUME NEW c \in Nat, NEW f, f = [i \in 1 .. c |-> f[i]]
    PROVE  Len(f) = c /\ DOMAIN f = 1 .. c /\ f \in Seq({f[i] : i \in 1 .. c})
<1> DEFINE S == {f[i] : i \in 1 .. c}
<1>1. f \in [1 .. c -> S]
    OBVIOUS
<1> HIDE DEF S
<1>2. f \in Seq(S)
    BY <1>1, SeqDef
<1>3. Len(f) \in Nat /\ DOMAIN f = 1 .. Len(f) /\ DOMAIN f = 1 .. c
    BY <1>1, <1>2, LenProperties
<1>4. Len(f) = c
    <2>1. Len(f) # 0 => Len(f) \in 1 .. c
        BY <1>3
    <2>2. c # 0 => c \in 1 .. Len(f)
        BY <1>3
    <2> QED
        BY <1>3, <2>1, <2>2
<1> QED
    BY <1>2, <1>3, <1>4 DEF S

-----------------------------------------------------------------------------
(* Bagging.                                                                *)

(* The peaks from the i-th one on, hashed together from the right. *)
Bag(peaks) ==
    CHOOSE f : f = [i \in 1 .. Len(peaks) |-> IF i = Len(peaks) THEN peaks[i]
                                              ELSE PairHash(peaks[i], f[i + 1])]

LEMMA BagEquation ==
    ASSUME NEW peaks, NEW c \in Nat \ {0}, Len(peaks) = c
    PROVE  \A i \in 1 .. c :
               Bag(peaks)[i] = IF i = c THEN peaks[i] ELSE <<peaks[i], Bag(peaks)[i + 1]>>
<1> DEFINE D == {0, 1} \X (1 .. c)
           Base == {d \in D : d[1] = 0 \/ d[2] = c}
           base == [d \in D |-> peaks[d[2]]]
           left == [d \in D |-> <<0, d[2]>>]
           right == [d \in D |-> <<1, d[2] + 1>>]
           size == [d \in D |-> IF d[1] = 0 THEN 0 ELSE (c - d[2]) + 1]
           Equation(f) == f = [i \in 1 .. c |-> IF i = c THEN peaks[i]
                                                ELSE <<peaks[i], f[i + 1]>>]
<1>1. size \in [D -> Nat]
    OBVIOUS
<1>2. ASSUME NEW d \in D \ Base
      PROVE  /\ left[d] \in D /\ size[left[d]] < size[d]
             /\ right[d] \in D /\ size[right[d]] < size[d]
    <2>1. d \in D /\ d[1] = 1 /\ d[2] \in 1 .. c /\ d[2] # c
        OBVIOUS
    <2>2. d[2] + 1 \in 1 .. c /\ 0 < (c - d[2]) + 1 /\ (c - (d[2] + 1)) + 1 < (c - d[2]) + 1
        BY <2>1
    <2>3. left[d] = <<0, d[2]>> /\ right[d] = <<1, d[2] + 1>> /\ size[d] = (c - d[2]) + 1
        BY <2>1
    <2>4. <<0, d[2]>> \in D /\ <<1, d[2] + 1>> \in D
        BY <2>1, <2>2
    <2>5. size[<<0, d[2]>>] = 0 /\ size[<<1, d[2] + 1>>] = (c - (d[2] + 1)) + 1
        BY <2>4
    <2> QED
        BY <2>2, <2>3, <2>4, <2>5
<1>3. PICK f : HashesHalves(f, D, Base, base, left, right)
    <2>1. Halves(D, size, Base, left, right)
        <3> HIDE DEF D, Base, left, right, size
        <3> QED
            BY <1>1, <1>2 DEF Halves
    <2> HIDE DEF D, Base, base, left, right, size
    <2> QED
        BY <2>1, HashesExist
<1>4. ASSUME NEW i \in 1 .. c
      PROVE  f[<<1, i>>] = IF i = c THEN peaks[i] ELSE <<peaks[i], f[<<1, i + 1>>]>>
    <2>1. \A d \in D : f[d] = IF d \in Base THEN base[d] ELSE <<f[left[d]], f[right[d]]>>
        BY <1>3 DEF HashesHalves
    <2>2. <<1, i>> \in D /\ <<0, i>> \in D
        OBVIOUS
    <2>3. f[<<0, i>>] = peaks[i]
        <3>1. <<0, i>> \in Base /\ base[<<0, i>>] = peaks[i]
            BY <2>2
        <3> HIDE DEF Base, base, D
        <3> QED
            BY <2>1, <2>2, <3>1
    <2>4. CASE i = c
        <3>1. <<1, i>> \in Base /\ base[<<1, i>>] = peaks[i]
            BY <2>2, <2>4
        <3> HIDE DEF Base, base, D
        <3> QED
            BY <2>1, <2>2, <2>4, <3>1
    <2>5. CASE i # c
        <3>1. <<1, i>> \notin Base /\ left[<<1, i>>] = <<0, i>> /\ right[<<1, i>>] = <<1, i + 1>>
            BY <2>2, <2>5
        <3> HIDE DEF Base, base, D, left, right
        <3> QED
            BY <2>1, <2>2, <2>3, <2>5, <3>1
    <2> QED
        BY <2>4, <2>5
<1> DEFINE g == [i \in 1 .. c |-> f[<<1, i>>]]
<1>5. Equation(g)
    <2>1. \A i \in 1 .. c : g[i] = IF i = c THEN peaks[i] ELSE <<peaks[i], g[i + 1]>>
        <3>1. \A i \in 1 .. c : i # c => i + 1 \in 1 .. c
            OBVIOUS
        <3>2. \A i \in 1 .. c : g[i] = f[<<1, i>>]
            OBVIOUS
        <3> HIDE DEF g
        <3> QED
            BY <1>4, <3>1, <3>2
    <2>2. g = [i \in 1 .. c |-> g[i]]
        OBVIOUS
    <2> HIDE DEF g
    <2> QED
        BY <2>1, <2>2
<1>6. Bag(peaks) = CHOOSE v : Equation(v)
    BY DEF Bag, PairHash
<1>7. Equation(Bag(peaks))
    <2> HIDE DEF Equation, g
    <2> QED
        BY <1>5, <1>6
<1> HIDE DEF D, Base, base, left, right, size, g
<1> QED
    BY <1>7

(* The program's fold is this function. *)
LEMMA BagIsFold ==
    ASSUME NEW peaks, NEW c \in Nat \ {0}, peaks = [i \in 1 .. c |-> peaks[i]]
    PROVE  bag_peaks(peaks) = Bag(peaks)[1]
<1> DEFINE front == Front(peaks)
           last == Last(peaks)
           T == 1 .. c - 1
           Equation(f, S) == f = [s \in SUBSET S |->
                                     IF s = {} THEN last
                                     ELSE <<front[Min(s)], f[s \ {Min(s)}]>>]
           fold == CHOOSE f : Equation(f, T)
<1>0. Len(peaks) = c /\ c \in Nat /\ c - 1 \in Nat
    BY IsSequence
<1>1. last = peaks[c] /\ DOMAIN front = T /\ \A i \in T : front[i] = peaks[i]
    <2>1. /\ SubSeq(peaks, 1, c - 1) = [i \in 1 .. (c - 1) |-> peaks[i]]
        <3>1. (c - 1) - 1 + 1 = c - 1 /\ \A i \in 1 .. c - 1 : 1 + i - 1 = i
            BY <1>0
        <3> DEFINE d == c - 1
        <3>2. SubSeq(peaks, 1, d) = [i \in 1 .. d - 1 + 1 |-> peaks[1 + i - 1]]
            BY <1>0
        <3> QED
            BY <3>1, <3>2
    <2>2. front = [i \in T |-> peaks[i]]
        BY <1>0, <2>1 DEF Front
    <2> QED
        BY <1>0, <2>2 DEF Last
<1>2. bag_peaks(peaks) = fold[T]
    <2>1. bag_peaks(peaks) = FoldRight(poseidon_hash, front, last)
        BY DEF bag_peaks
    <2>2. FoldRight(poseidon_hash, front, last) =
              (CHOOSE f : Equation(f, DOMAIN front))[DOMAIN front]
        BY DEF FoldRight, MapThenFoldSet, poseidon_hash
    <2> QED
        BY <1>1, <2>1, <2>2
<1>3. ASSUME NEW s \in SUBSET T, s # {}
      PROVE  Min(s) \in s /\ Min(s) \in T /\ \A y \in s : Min(s) <= y
    <2>1. s \in SUBSET Nat
        BY <1>0
    <2> HIDE DEF T
    <2>2. \E m \in s : \A y \in s : m <= y
        BY <1>3, <2>1, SmallestExists
    <2> QED
        BY <2>2 DEF Min
<1> DEFINE D == {0, 1} \X SUBSET T
           Base == {d \in D : d[1] = 0 \/ d[2] = {}}
           base == [d \in D |-> IF d[2] = {} THEN last ELSE front[Min(d[2])]]
           left == [d \in D |-> <<0, d[2]>>]
           right == [d \in D |-> <<1, d[2] \ {Min(d[2])}>>]
           size == [d \in D |-> IF d[1] = 0 \/ d[2] = {} THEN 0 ELSE c - Min(d[2])]
<1>4. Halves(D, size, Base, left, right)
    <2>1. ASSUME NEW d \in D \ Base
          PROVE  /\ left[d] \in D /\ size[left[d]] < size[d]
                 /\ right[d] \in D /\ size[right[d]] < size[d]
        <3> DEFINE s == d[2]
                   m == Min(s)
                   u == s \ {m}
        <3>1. d \in D /\ d[1] = 1 /\ s \in SUBSET T /\ s # {}
            OBVIOUS
        <3>2. m \in s /\ m \in T /\ m \in Nat /\ m < c
            <4>1. m \in T
                <5> HIDE DEF s
                <5> QED
                    BY <1>3, <3>1
            <4>2. \A y \in T : y \in Nat /\ y < c
                BY <1>0
            <4>3. m \in s
                <5> HIDE DEF s
                <5> QED
                    BY <1>3, <3>1
            <4> QED
                BY <4>1, <4>2, <4>3
        <3>3. u \in SUBSET T /\ <<0, s>> \in D /\ <<1, u>> \in D
            BY <3>1
        <3>4. left[d] = <<0, s>> /\ right[d] = <<1, u>> /\ size[d] = c - m
            BY <3>1
        <3>5. size[<<0, s>>] = 0 /\ size[<<1, u>>] = IF u = {} THEN 0 ELSE c - Min(u)
            BY <3>3
        <3>6. u # {} => Min(u) \in T /\ Min(u) # m /\ m <= Min(u) /\ Min(u) \in Nat
            <4>1. u # {} => Min(u) \in u /\ Min(u) \in T
                <5> HIDE DEF u
                <5> QED
                    BY <1>3, <3>3
            <4>2. u # {} => Min(u) \in s /\ Min(u) # m
                BY <4>1
            <4>3. \A y \in s : m <= y
                <5> HIDE DEF s
                <5> QED
                    BY <1>3, <3>1
            <4>4. \A y \in T : y \in Nat
                BY <1>0
            <4> QED
                BY <4>1, <4>2, <4>3, <4>4
        <3> HIDE DEF D, Base, left, right, size, s, m, u
        <3>7. 0 < c - m /\ (u # {} => c - Min(u) < c - m)
            <4> DEFINE v == Min(u)
            <4>1. u # {} => v \in Nat /\ v # m /\ m <= v
                BY <3>6
            <4> HIDE DEF v
            <4>2. 0 < c - m /\ (u # {} => c - v < c - m)
                BY <3>2, <4>1
            <4> QED
                BY <4>2 DEF v
        <3> QED
            BY <3>3, <3>4, <3>5, <3>7
    <2>2. size \in [D -> Nat]
        <3>1. ASSUME NEW d \in D
              PROVE  size[d] \in Nat
            <4>1. d[2] \in SUBSET T
                OBVIOUS
            <4>2. d[2] # {} => Min(d[2]) \in T
                BY <1>3, <4>1
            <4>3. d[2] # {} => c - Min(d[2]) \in Nat
                <5>1. \A y \in T : c - y \in Nat
                    BY <1>0
                <5> HIDE DEF T
                <5> QED
                    BY <4>2, <5>1
            <4>4. size[d] = IF d[1] = 0 \/ d[2] = {} THEN 0 ELSE c - Min(d[2])
                OBVIOUS
            <4> QED
                BY <4>3, <4>4
        <3>2. size = [d \in D |-> size[d]]
            OBVIOUS
        <3> HIDE DEF size, D
        <3> QED
            BY <3>1, <3>2
    <2> HIDE DEF D, Base, left, right, size
    <2> QED
        BY <2>1, <2>2 DEF Halves
<1>5. PICK f : HashesHalves(f, D, Base, base, left, right)
    <2> HIDE DEF D, Base, base, left, right, size
    <2> QED
        BY <1>4, HashesExist
<1>6. ASSUME NEW s \in SUBSET T
      PROVE  f[<<1, s>>] = IF s = {} THEN last
                           ELSE <<front[Min(s)], f[<<1, s \ {Min(s)}>>]>>
    <2>1. \A d \in D : f[d] = IF d \in Base THEN base[d] ELSE <<f[left[d]], f[right[d]]>>
        BY <1>5 DEF HashesHalves
    <2>2. <<1, s>> \in D /\ <<0, s>> \in D
        OBVIOUS
    <2>3. CASE s = {}
        <3>1. <<1, s>> \in Base /\ base[<<1, s>>] = last
            BY <2>2, <2>3
        <3> HIDE DEF Base, base, D
        <3> QED
            BY <2>1, <2>2, <2>3, <3>1
    <2>4. CASE s # {}
        <3>1. <<0, s>> \in Base /\ base[<<0, s>>] = front[Min(s)]
            BY <2>2, <2>4
        <3>2. <<1, s>> \notin Base /\ left[<<1, s>>] = <<0, s>>
              /\ right[<<1, s>>] = <<1, s \ {Min(s)}>>
            BY <2>2, <2>4
        <3> HIDE DEF Base, base, D, left, right, front, last, T
        <3> QED
            BY <2>1, <2>2, <2>4, <3>1, <3>2, ZenonT(60)
    <2> QED
        BY <2>3, <2>4
<1> DEFINE g == [s \in SUBSET T |-> f[<<1, s>>]]
<1>7. Equation(g, T)
    <2>1. \A s \in SUBSET T : g[s] = f[<<1, s>>] /\ s \ {Min(s)} \in SUBSET T
        OBVIOUS
    <2>2. g = [s \in SUBSET T |-> g[s]]
        OBVIOUS
    <2> HIDE DEF g, front, last, T
    <2>3. \A s \in SUBSET T : g[s] = IF s = {} THEN last
                                     ELSE <<front[Min(s)], g[s \ {Min(s)}]>>
        <3> SUFFICES ASSUME NEW s \in SUBSET T
                     PROVE  g[s] = IF s = {} THEN last
                                   ELSE <<front[Min(s)], g[s \ {Min(s)}]>>
            OBVIOUS
        <3>1. g[s] = f[<<1, s>>] /\ g[s \ {Min(s)}] = f[<<1, s \ {Min(s)}>>]
            BY <2>1
        <3> QED
            BY <1>6, <3>1
    <2> QED
        BY <2>2, <2>3
<1>8. Equation(fold, T)
    <2> HIDE DEF Equation, g
    <2> QED
        BY <1>7
<1>9. \A s \in SUBSET T : fold[s] = IF s = {} THEN last
                                    ELSE <<front[Min(s)], fold[s \ {Min(s)}]>>
    <2> HIDE DEF fold
    <2> QED
        BY <1>8
<1> HIDE DEF fold, g, D, Base, base, left, right, size
<1> DEFINE Same(d) == \A i \in 1 .. c : i = c - d => fold[i .. c - 1] = Bag(peaks)[i]
           Bad == {d \in Nat : ~Same(d)}
<1>10. Bad = {}
    <2> SUFFICES ASSUME Bad # {}
                 PROVE  FALSE
        OBVIOUS
    <2>1. PICK d \in Nat : d \in Bad /\ \A k \in Bad : d <= k
        <3>1. Bad \in SUBSET Nat
            OBVIOUS
        <3> HIDE DEF Bad
        <3> QED
            BY <3>1, SmallestExists
    <2>2. PICK i \in 1 .. c : i = c - d /\ fold[i .. c - 1] # Bag(peaks)[i]
        BY <2>1
    <2>3. Bag(peaks)[i] = IF i = c THEN peaks[i] ELSE <<peaks[i], Bag(peaks)[i + 1]>>
        BY <1>0, BagEquation, ZenonT(60)
    <2>4. i # c
        <3> SUFFICES ASSUME i = c
                     PROVE  FALSE
            OBVIOUS
        <3>1. i .. c - 1 = {} /\ {} \in SUBSET T
            OBVIOUS
        <3> HIDE DEF T, last, front
        <3>2. fold[{}] = last
            BY <1>9, <3>1
        <3> QED
            BY <1>1, <2>2, <2>3, <3>1, <3>2
    <2>5. i + 1 \in 1 .. c /\ i + 1 = c - (d - 1) /\ d - 1 \in Nat /\ ~(d <= d - 1)
        <3>1. \A j \in 1 .. c : j = c - d /\ j # c =>
                  j + 1 \in 1 .. c /\ j + 1 = c - (d - 1) /\ d - 1 \in Nat /\ ~(d <= d - 1)
            OBVIOUS
        <3> QED
            BY <2>2, <2>4, <3>1
    <2>6. Same(d - 1)
        <3>1. d - 1 \notin Bad
            <4> HIDE DEF Bad
            <4> QED
                BY <2>1, <2>5
        <3> HIDE DEF Same
        <3> QED
            BY <2>5, <3>1
    <2>7. fold[(i + 1) .. c - 1] = Bag(peaks)[i + 1]
        BY <2>5, <2>6
    <2> DEFINE s == i .. c - 1
    <2>8. s \in SUBSET T /\ s # {} /\ i \in s /\ i \in T /\ \A y \in s : i <= y
        BY <1>0, <2>2, <2>4
    <2>9. Min(s) = i
        <3>1. Min(s) \in s /\ \A y \in s : Min(s) <= y
            <4> HIDE DEF s, T
            <4> QED
                BY <1>3, <2>8
        <3>2. Min(s) <= i /\ i <= Min(s)
            <4> HIDE DEF s
            <4> QED
                BY <2>8, <3>1
        <3>3. \A y \in s : y \in Int
            BY <1>0
        <3> HIDE DEF s
        <3> QED
            BY <3>1, <3>2, <3>3
    <2>10. s \ {i} = (i + 1) .. c - 1
        BY <1>0, <2>2
    <2>11. fold[s] = <<front[i], fold[s \ {i}]>>
        <3> HIDE DEF s, T, front
        <3> QED
            BY <1>9, <2>8, <2>9
    <2>12. fold[s] = <<peaks[i], Bag(peaks)[i + 1]>>
        <3> HIDE DEF s, front, T
        <3> QED
            BY <1>1, <2>7, <2>8, <2>10, <2>11
    <2> QED
        BY <2>2, <2>3, <2>4, <2>12
<1>11. Same(c - 1) /\ 1 \in 1 .. c /\ 1 = c - (c - 1)
    <2>1. c - 1 \in Nat /\ c - 1 \notin Bad
        BY <1>0, <1>10
    <2>2. Same(c - 1)
        <3> HIDE DEF Same
        <3> QED
            BY <2>1
    <2> QED
        BY <2>2, <1>0
<1>12. fold[1 .. c - 1] = Bag(peaks)[1]
    BY <1>11
<1> QED
    BY <1>2, <1>12

-----------------------------------------------------------------------------
(* Roots.                                                                  *)

(* Bagging hides nothing: the same hash of as many peaks is of the same    *)
(* peaks.                                                                  *)
LEMMA BagDetermines ==
    ASSUME NEW c \in Nat \ {0}, NEW p, NEW q, Len(p) = c, Len(q) = c, Bag(p)[1] = Bag(q)[1]
    PROVE  \A i \in 1 .. c : p[i] = q[i]
<1> DEFINE Same(i) == Bag(p)[i] = Bag(q)[i]
           Bad == {i \in 1 .. c : ~Same(i)}
<1>0. \A i \in 1 .. c :
          /\ i = c => Bag(p)[i] = p[i] /\ Bag(q)[i] = q[i]
          /\ i # c => Bag(p)[i] = <<p[i], Bag(p)[i + 1]>> /\ Bag(q)[i] = <<q[i], Bag(q)[i + 1]>>
    BY BagEquation, ZenonT(60)
<1>1. Bad = {}
    <2> SUFFICES ASSUME Bad # {}
                 PROVE  FALSE
        OBVIOUS
    <2>1. PICK i \in Nat : i \in Bad /\ \A k \in Bad : i <= k
        <3>1. Bad \in SUBSET Nat
            OBVIOUS
        <3> HIDE DEF Bad
        <3> QED
            BY <3>1, SmallestExists
    <2>2. i \in 1 .. c /\ i # 1 /\ ~Same(i)
        BY <2>1
    <2> DEFINE j == i - 1
    <2>3. j \in 1 .. c /\ j # c /\ j + 1 = i /\ ~(i <= j)
        BY <2>2
    <2>4. Same(j)
        <3>1. j \notin Bad
            <4> HIDE DEF Bad, j
            <4> QED
                BY <2>1, <2>3
        <3> HIDE DEF Same, j
        <3> QED
            BY <2>3, <3>1
    <2>5. <<p[j], Bag(p)[i]>> = <<q[j], Bag(q)[i]>>
        <3> HIDE DEF j, Bad
        <3> QED
            BY <1>0, <2>3, <2>4
    <2>6. \A a, b, d, e : <<a, b>> = <<d, e>> => b = e
        OBVIOUS
    <2>7. Same(i)
        BY <2>5, <2>6
    <2> QED
        BY <2>2, <2>7
<1>2. ASSUME NEW i \in 1 .. c
      PROVE  p[i] = q[i]
    <2>1. Bag(p)[i] = Bag(q)[i]
        BY <1>1
    <2>2. CASE i = c
        BY <1>0, <2>1, <2>2
    <2>3. CASE i # c
        <3>1. <<p[i], Bag(p)[i + 1]>> = <<q[i], Bag(q)[i + 1]>>
            BY <1>0, <2>1, <2>3
        <3>2. \A a, b, d, e : <<a, b>> = <<d, e>> => a = d
            OBVIOUS
        <3> QED
            BY <3>1, <3>2
    <2> QED
        BY <2>2, <2>3
<1> QED
    BY <1>2

(* The peaks' hashes are a sequence of as many as there are peaks, and the *)
(* root of an MMR is the one the program computes from them.               *)
LEMMA RootOfLeaves ==
    ASSUME NEW leaves, NEW k \in Nat \ {0}, Len(leaves) = k, k < P(MaxHeight + 1)
    PROVE  /\ PeakHashes(leaves) =
                  [i \in 1 .. PeakCount(k) |-> TreeHash(leaves)[PeakSequence(k)[i]]]
           /\ Len(PeakHashes(leaves)) = PeakCount(k)
           /\ MmrRoot(leaves) = RootOf(MmrSize(k), PeakHashes(leaves))
<1> DEFINE c == PeakCount(k)
           s == PeakSequence(k)
           hashes == PeakHashes(leaves)
<1>1. c \in Nat \ {0} /\ DOMAIN s = 1 .. c
    BY PeaksListed
<1>2. hashes = [i \in 1 .. c |-> TreeHash(leaves)[s[i]]]
    BY <1>1 DEF PeakHashes
<1>3. hashes = [i \in 1 .. c |-> hashes[i]]
    <2> HIDE DEF hashes, s, c
    <2> QED
        BY <1>2
<1>4. Len(hashes) = c /\ bag_peaks(hashes) = Bag(hashes)[1]
    <2> HIDE DEF hashes, c
    <2> QED
        BY <1>1, <1>3, IsSequence, BagIsFold
<1>5. MmrRoot(leaves) = <<<<MmrSize(k)>>, Bag(hashes)[1]>>
    BY DEF MmrRoot, PairHash, Bag
<1> HIDE DEF hashes, s, c
<1> QED
    BY <1>2, <1>4, <1>5 DEF hashes, s, c, RootOf, poseidon_hash

(* The root of an MMR shows its size. *)
LEMMA RootShowsSize ==
    ASSUME NEW n, NEW p, NEW leaves, RootOf(n, p) = MmrRoot(leaves)
    PROVE  n = MmrSize(Len(leaves))
<1>1. \E b : MmrRoot(leaves) = <<<<MmrSize(Len(leaves))>>, b>>
    BY DEF MmrRoot, PairHash
<1>2. PICK b : <<<<n>>, bag_peaks(p)>> = <<<<MmrSize(Len(leaves))>>, b>>
    BY <1>1 DEF RootOf, poseidon_hash
<1>3. \A v, w, d, e : <<v, w>> = <<d, e>> => v = d
    OBVIOUS
<1>4. <<n>> = <<MmrSize(Len(leaves))>>
    BY <1>2, <1>3
<1>5. <<n>>[1] = n /\ <<MmrSize(Len(leaves))>>[1] = MmrSize(Len(leaves))
    OBVIOUS
<1> QED
    BY <1>4, <1>5

(* A root determines the size, and with it the peaks.                      *)
LEMMA RootDetermines ==
    ASSUME NEW n, NEW p, NEW m, NEW q, RootOf(n, p) = RootOf(m, q)
    PROVE  /\ n = m
           /\ \A c \in Nat \ {0} : HasLength(p, c) /\ HasLength(q, c) => p = q
<1>1. <<<<n>>, bag_peaks(p)>> = <<<<m>>, bag_peaks(q)>>
    BY DEF RootOf, poseidon_hash
<1>2. \A a, b, d, e : <<a, b>> = <<d, e>> => a = d /\ b = e
    OBVIOUS
<1>3. <<n>> = <<m>> /\ bag_peaks(p) = bag_peaks(q)
    BY <1>1, <1>2
<1>4. n = m
    <2>1. <<n>>[1] = n /\ <<m>>[1] = m
        OBVIOUS
    <2> QED
        BY <1>3, <2>1
<1>5. ASSUME NEW c \in Nat \ {0}, HasLength(p, c), HasLength(q, c)
      PROVE  p = q
    <2>1. \A v : HasLength(v, c) => bag_peaks(v) = Bag(v)[1] /\ Len(v) = c
        <3> SUFFICES ASSUME NEW v, HasLength(v, c)
                     PROVE  bag_peaks(v) = Bag(v)[1] /\ Len(v) = c
            OBVIOUS
        <3>1. bag_peaks(v) = Bag(v)[1]
            BY BagIsFold DEF HasLength
        <3>2. Len(v) = c
            BY IsSequence DEF HasLength
        <3> QED
            BY <3>1, <3>2
    <2>2. \A i \in 1 .. c : p[i] = q[i]
        <3>1. Len(p) = c /\ Len(q) = c /\ Bag(p)[1] = Bag(q)[1]
            BY <1>3, <1>5, <2>1
        <3> QED
            BY <3>1, BagDetermines
    <2> QED
        BY <1>5, <2>2 DEF HasLength
<1> QED
    BY <1>4, <1>5

-----------------------------------------------------------------------------
(* The Python tools: sizes and heights.                                    *)

(* The powers that the Python tools compute are those of the table.        *)
LEMMA PowersAgree == \A i \in 0 .. MaxBits : 2^i = P(i)
BY Pow2Assumption DEF IsPow2Array, P

(* int.bit_length, of a number that the table bounds. *)
LEMMA PyBitLength ==
    ASSUME NEW b \in 1 .. MaxBits, NEW n \in Nat, P(b - 1) <= n, n < P(b)
    PROVE  Py!bit_length(n) = b
<1> DEFINE Length(c) == n < 2^c /\ (c > 0 => 2^(c - 1) <= n)
<1>1. MaxBits \in Nat /\ \A c \in 0 .. MaxBits : 2^c = P(c) /\ P(c) \in Nat
    BY PowersAgree, PowTypes
<1>2. \A c \in 1 .. MaxBits : c - 1 \in 0 .. MaxBits /\ c \in 0 .. MaxBits
    BY <1>1
<1>3. Length(b)
    BY <1>1, <1>2
<1>4. ASSUME NEW c \in 0 .. MaxBits, Length(c)
      PROVE  c = b
    <2>1. n < P(c) /\ b \in 0 .. MaxBits /\ b - 1 \in 0 .. MaxBits
        BY <1>1, <1>2, <1>4
    <2>2. P(b - 1) < P(c)
        BY <1>1, <2>1
    <2>3. b - 1 < c
        BY <2>1, <2>2, PowOrder
    <2>4. c > 0
        BY <1>1, <2>3
    <2>5. c \in 1 .. MaxBits
        BY <1>1, <2>4
    <2>6. c - 1 \in 0 .. MaxBits /\ P(c - 1) <= n
        BY <1>1, <1>2, <1>4, <2>4, <2>5
    <2>7. P(c - 1) < P(b)
        BY <1>1, <2>1, <2>6
    <2>8. c - 1 < b
        BY <2>1, <2>6, <2>7, PowOrder
    <2> QED
        BY <1>1, <2>3, <2>8
<1>5. Py!bit_length(n) = CHOOSE c \in 0 .. MaxBits : Length(c)
    BY DEF Py!bit_length
<1>6. b \in 0 .. MaxBits
    BY <1>1
<1> HIDE DEF Length
<1> QED
    BY <1>3, <1>4, <1>5, <1>6

(* The largest peak that Python finds to fit. *)
LEMMA PyPeak ==
    ASSUME NEW b \in 1 .. MaxBits, NEW n \in Nat, P(b - 1) <= n, n < P(b)
    PROVE  Py!py_peak(n) = IF n < P(b) - 1 THEN P(b - 1) - 1 ELSE n
<1>1. Py!bit_length(n) = b
    BY PyBitLength
<1>2. /\ b \in 0 .. MaxBits /\ b - 1 \in 0 .. MaxBits
      /\ 2^b = P(b) /\ 2^(b - 1) = P(b - 1) /\ P(b) \in Nat
    BY PowersAgree, PowTypes
<1> QED
    BY <1>1, <1>2 DEF Py!py_peak

(* A loop: a state ends it, or leads to the next.                          *)
Loops(f, D, Final, final, next) ==
    f = [d \in D |-> IF d \in Final THEN final[d] ELSE f[next[d]]]

(* If the states get smaller there is a function that gives what the loop  *)
(* ends with.                                                              *)
LEMMA LoopExists ==
    ASSUME NEW D, NEW size, NEW Final, NEW final, NEW next, NEW R, R # {},
           size \in [D -> Nat],
           \A d \in D : d \in Final => final[d] \in R,
           \A d \in D : d \notin Final => next[d] \in D /\ size[next[d]] < size[d]
    PROVE  \E f \in [D -> R] : Loops(f, D, Final, final, next)
<1> DEFINE Value(d, f) == IF d \in Final THEN final[d] ELSE f[next[d]]
           Step == [a \in D \X [D -> R] |-> Value(a[1], a[2])]
<1>1. ASSUME NEW d \in D, NEW f \in [D -> R]
      PROVE  Value(d, f) \in R
    OBVIOUS
<1>2. Step \in [D \X [D -> R] -> R]
    <2> HIDE DEF Value
    <2> QED
        BY <1>1
<1>3. ASSUME NEW d \in D, NEW f \in [D -> R], NEW g \in [D -> R],
             \A c \in D : size[c] < size[d] => f[c] = g[c]
      PROVE  Step[<<d, f>>] = Step[<<d, g>>]
    <2>1. Value(d, f) = Value(d, g)
        BY <1>3
    <2> HIDE DEF Value
    <2> QED
        BY <2>1
<1>4. LooksDown(D, size, R, Step)
    <2> HIDE DEF Step
    <2> QED
        BY <1>2, <1>3 DEF LooksDown
<1>5. PICK f : Follows(f, D, R, Step)
    <2> HIDE DEF Step
    <2> QED
        BY <1>4, RecursionExists
<1>6. f \in [D -> R] /\ \A d \in D : f[d] = Value(d, f)
    <2> HIDE DEF Value
    <2> QED
        BY <1>5 DEF Follows
<1>7. f = [d \in D |-> Value(d, f)]
    <2> HIDE DEF Value
    <2> QED
        BY <1>6
<1> QED
    BY <1>6, <1>7 DEF Loops

(* A number of nodes below the bound, and the peak that is taken off.      *)
LEMMA PyTakesPeak ==
    ASSUME NEW n \in Nat \ {0}, n < P(MaxHeight + 1)
    PROVE  /\ Py!py_peak(n) \in 1 .. n
           /\ \A q \in Nat : is_valid_mmr_size_inner[<<n, q>>] =
                  IF Py!py_peak(n) = q THEN {FALSE}
                  ELSE is_valid_mmr_size_inner[<<n - Py!py_peak(n), Py!py_peak(n)>>]
<1>1. PICK j \in 0 .. MaxHeight : P(j) <= n /\ n < P(j + 1)
    BY HighestPeak
<1>2. /\ j \in 0 .. MaxHeight + 1 /\ j + 1 \in 1 .. MaxBits /\ (j + 1) - 1 = j
      /\ P(j + 1) = 2 * P(j) /\ P(j) \in Nat \ {0}
    BY Heights
<1> DEFINE p == Py!py_peak(n)
<1>3. p = IF n < 2 * P(j) - 1 THEN P(j) - 1 ELSE n
    BY <1>1, <1>2, PyPeak
<1>4. n < 2 * P(j)
    BY <1>1, <1>2
<1> HIDE DEF p
<1>5. p \in 1 .. n
    <2>1. P(j) # 1 \/ n = 1
        BY <1>1, <1>2, <1>4
    <2> QED
        BY <1>1, <1>2, <1>3, <1>4, <2>1
<1>6. \A q \in Nat : is_valid_mmr_size_inner[<<n, q>>] =
          IF p = q THEN {FALSE} ELSE is_valid_mmr_size_inner[<<n - p, p>>]
    BY <1>1, <1>2, <1>3, <1>4, TakesLargestPeak
<1> QED
    BY <1>5, <1>6 DEF p

(* Python's loop takes the same peaks off as the program.                  *)
LEMMA PyValidAgrees ==
    ASSUME NEW k \in Nat \ {0}, k < P(MaxHeight + 1)
    PROVE  {Py!py_is_valid_mmr_size(k)} = is_valid_mmr_size_inner[<<k, 0>>]
<1> DEFINE D == {n \in Int : n <= k} \X Nat
           Final == {d \in D : d[1] <= 0 \/ Py!py_peak(d[1]) = d[2]}
           final == [d \in D |-> IF d[1] = 0 THEN TRUE ELSE FALSE]
           next == [d \in D |-> <<d[1] - Py!py_peak(d[1]), Py!py_peak(d[1])>>]
           size == [d \in D |-> IF d[1] < 0 THEN 0 ELSE d[1]]
           Taken(n, q, f) == IF n <= 0 THEN n = 0
                             ELSE IF Py!py_peak(n) = q THEN FALSE
                             ELSE f[<<n - Py!py_peak(n), Py!py_peak(n)>>]
           Value(d, f) == Taken(d[1], d[2], f)
           Def(f) == f = [d \in D |-> Value(d, f)]
           loop == CHOOSE f : Def(f)
<1>0. P(MaxHeight + 1) \in Nat
    BY Heights
<1>1. ASSUME NEW n \in 1 .. k
      PROVE  n \in Nat \ {0} /\ n < P(MaxHeight + 1) /\ Py!py_peak(n) \in 1 .. n
    <2>1. n \in Nat \ {0} /\ n < P(MaxHeight + 1)
        BY <1>0
    <2> QED
        BY <2>1, PyTakesPeak
<1>2. ASSUME NEW d \in D, d \notin Final
      PROVE  next[d] \in D /\ size[next[d]] < size[d]
    <2>1. d[1] \in 1 .. k
        BY <1>2
    <2>2. Py!py_peak(d[1]) \in 1 .. d[1]
        BY <1>1, <2>1
    <2>3. next[d] = <<d[1] - Py!py_peak(d[1]), Py!py_peak(d[1])>> /\ next[d] \in D
        BY <2>1, <2>2
    <2> QED
        BY <2>1, <2>2, <2>3
<1>3. PICK f \in [D -> BOOLEAN] : Loops(f, D, Final, final, next)
    <2>1. size \in [D -> Nat]
        <3>1. \A d \in D : d[1] \in Int
            OBVIOUS
        <3> HIDE DEF D
        <3> QED
            BY <3>1
    <2>2. \A d \in D : final[d] \in BOOLEAN
        <3> HIDE DEF D
        <3> QED
            OBVIOUS
    <2>3. BOOLEAN # {}
        OBVIOUS
    <2> HIDE DEF D, Final, final, next, size
    <2> QED
        BY <1>2, <2>1, <2>2, <2>3, LoopExists
<1>4. Def(f)
    <2>1. \A d \in D : f[d] = IF d \in Final THEN final[d] ELSE f[next[d]]
        <3> HIDE DEF D, Final, final, next
        <3> QED
            BY <1>3 DEF Loops
    <2>2. ASSUME NEW d \in D
          PROVE  f[d] = Taken(d[1], d[2], f)
        <3>1. CASE d[1] <= 0
            <4>1. d \in Final /\ (d[1] = 0 => final[d] = TRUE) /\ (d[1] # 0 => final[d] = FALSE)
                BY <3>1
            <4> HIDE DEF Final, final, D
            <4>2. (d[1] = 0 => f[d] = TRUE) /\ (d[1] # 0 => f[d] = FALSE)
                BY <2>1, <4>1
            <4> QED
                BY <3>1, <4>2, Zenon
        <3>2. CASE d[1] > 0 /\ Py!py_peak(d[1]) = d[2]
            <4>1. d \in Final /\ final[d] = FALSE /\ ~(d[1] <= 0)
                BY <3>2
            <4> HIDE DEF Final, final, D
            <4> QED
                BY <2>1, <3>2, <4>1, Zenon
        <3>3. CASE d[1] > 0 /\ Py!py_peak(d[1]) # d[2]
            <4>1. /\ d \notin Final /\ ~(d[1] <= 0)
                  /\ next[d] = <<d[1] - Py!py_peak(d[1]), Py!py_peak(d[1])>>
                BY <3>3
            <4> HIDE DEF Final, next, D
            <4> QED
                BY <2>1, <3>3, <4>1, Zenon
        <3>4. d[1] <= 0 \/ d[1] > 0
            OBVIOUS
        <3> HIDE DEF Taken
        <3> QED
            BY <3>1, <3>2, <3>3, <3>4, Zenon
    <2> HIDE DEF Taken, D
    <2>3. f = [d \in D |-> f[d]]
        OBVIOUS
    <2> QED
        BY <2>2, <2>3
<1>5. Def(loop)
    <2> HIDE DEF Def
    <2> QED
        BY <1>4
<1>6. Py!py_is_valid_mmr_size(k) = loop[<<k, 0>>]
    BY DEF Py!py_is_valid_mmr_size
<1> HIDE DEF loop
<1>7. \A n \in Int, q \in Nat : n <= k => loop[<<n, q>>] = Taken(n, q, loop)
    <2>1. \A n \in Int, q \in Nat : n <= k => <<n, q>> \in D
        OBVIOUS
    <2>2. \A n, q : Value(<<n, q>>, loop) = Taken(n, q, loop)
        <3> HIDE DEF Taken
        <3> QED
            OBVIOUS
    <2> HIDE DEF Value, Taken, D
    <2> QED
        BY <1>5, <2>1, <2>2
<1> DEFINE Holds(n) == \A q \in Nat : {loop[<<n, q>>]} = is_valid_mmr_size_inner[<<n, q>>]
           Bad == {n \in Nat : n <= k /\ ~Holds(n)}
<1>8. Bad = {}
    <2> SUFFICES ASSUME Bad # {}
                 PROVE  FALSE
        OBVIOUS
    <2>1. PICK n \in Bad : \A i \in Bad : n <= i
        <3>1. Bad \in SUBSET Nat
            OBVIOUS
        <3> HIDE DEF Bad
        <3> QED
            BY <3>1, SmallestExists
    <2>2. n \in Nat /\ n <= k
        BY <2>1
    <2>3. ASSUME NEW q \in Nat
          PROVE  {loop[<<n, q>>]} = is_valid_mmr_size_inner[<<n, q>>]
        <3>0. loop[<<n, q>>] = Taken(n, q, loop)
            <4> HIDE DEF Taken
            <4> QED
                BY <1>7, <2>2
        <3>1. CASE n = 0
            <4>1. n <= 0 /\ n < 1 /\ n \in Int
                BY <3>1
            <4>2. loop[<<n, q>>] = (n = 0)
                BY <3>0, <4>1, Zenon
            <4>3. is_valid_mmr_size_inner[<<n, q>>] = {n = 0}
                BY <4>1, ValidEquation
            <4> QED
                BY <4>2, <4>3, Zenon
        <3>2. CASE n # 0
            <4> DEFINE p == Py!py_peak(n)
            <4>1. /\ n \in 1 .. k /\ ~(n <= 0) /\ p \in 1 .. n
                  /\ is_valid_mmr_size_inner[<<n, q>>] =
                        IF p = q THEN {FALSE} ELSE is_valid_mmr_size_inner[<<n - p, p>>]
                <5>1. n \in 1 .. k /\ n \in Nat \ {0}
                    BY <2>2, <3>2
                <5> QED
                    BY <1>1, <5>1, PyTakesPeak
            <4>2. loop[<<n, q>>] = IF p = q THEN FALSE ELSE loop[<<n - p, p>>]
                BY <3>0, <4>1
            <4> HIDE DEF p
            <4>3. n - p \in Nat /\ n - p <= k /\ ~(n <= n - p) /\ p \in Nat
                BY <2>2, <4>1
            <4>4. Holds(n - p)
                <5> HIDE DEF Holds
                <5> QED
                    BY <2>1, <4>3
            <4>5. {loop[<<n - p, p>>]} = is_valid_mmr_size_inner[<<n - p, p>>]
                BY <4>3, <4>4
            <4> QED
                BY <4>1, <4>2, <4>5
        <3> QED
            BY <3>1, <3>2
    <2> QED
        BY <2>1, <2>3
<1>9. Holds(k)
    <2>1. k \in Nat /\ k <= k
        OBVIOUS
    <2> HIDE DEF Holds
    <2> QED
        BY <1>8, <2>1
<1> QED
    BY <1>6, <1>9

(* The bit length of a position, and where Python jumps from it.           *)
LEMMA PyJumps ==
    ASSUME NEW n \in Nat \ {0}, n < P(MaxBits)
    PROVE  \E b \in 1 .. MaxBits :
               /\ Py!bit_length(n) = b /\ 2^b = P(b) /\ 2^(b - 1) = P(b - 1)
               /\ P(b) \in Nat /\ P(b - 1) \in Nat /\ P(b - 1) <= n /\ n < P(b)
               /\ P(b) - 1 # n => n - (P(b - 1) - 1) \in 1 .. n - 1
<1>1. PICK b \in 1 .. MaxBits : P(b - 1) <= n /\ n < P(b)
    <2>1. MaxBits \in 0 .. MaxBits
        BY PowTypes
    <2> QED
        BY <2>1, BitLengthExists
<1>2. Py!bit_length(n) = b
    BY <1>1, PyBitLength
<1>3. /\ b \in 0 .. MaxBits /\ b - 1 \in 0 .. MaxBits /\ b - 1 \in 0 .. MaxBits - 1
      /\ (b - 1) + 1 = b
    BY PowTypes
<1>4. /\ 2^b = P(b) /\ 2^(b - 1) = P(b - 1) /\ P(b) \in Nat /\ P(b - 1) \in Nat
      /\ P(b) = 2 * P(b - 1)
    <2>1. P((b - 1) + 1) = 2 * P(b - 1) /\ P(b) \in Nat /\ P(b - 1) \in Nat
        BY <1>3, PowTypes
    <2> QED
        BY <1>3, <2>1, PowersAgree
<1>5. P(b) - 1 # n => n - (P(b - 1) - 1) \in 1 .. n - 1
    BY <1>1, <1>4
<1> QED
    BY <1>1, <1>2, <1>4, <1>5

(* Python's loop finds the height that the program finds.                  *)
LEMMA PyHeightAgrees ==
    ASSUME NEW k \in Nat \ {0}, k < P(MaxBits)
    PROVE  {Py!tree_pos_height(k - 1)} = compute_height[k]
<1> DEFINE D == 1 .. k
           bits(n) == Py!bit_length(n)
           Final == {d \in D : 2^bits(d) - 1 = d}
           final == [d \in D |-> bits(d) - 1]
           next == [d \in D |-> d - (2^(bits(d) - 1) - 1)]
           size == [d \in D |-> d]
           Value(d, f) == IF 2^bits(d) - 1 = d THEN bits(d) - 1
                          ELSE f[d - (2^(bits(d) - 1) - 1)]
           Def(f) == f = [d \in D |-> Value(d, f)]
           loop == CHOOSE f : Def(f)
<1>1. ASSUME NEW d \in D
      PROVE  \E b \in 1 .. MaxBits :
                 /\ bits(d) = b /\ 2^b = P(b) /\ 2^(b - 1) = P(b - 1)
                 /\ P(b) \in Nat /\ P(b - 1) \in Nat /\ P(b - 1) <= d /\ d < P(b)
                 /\ P(b) - 1 # d => d - (P(b - 1) - 1) \in 1 .. d - 1
    <2>1. d \in Nat \ {0} /\ d < P(MaxBits)
        BY PowTypes
    <2> QED
        BY <2>1, PyJumps
<1>2. ASSUME NEW d \in D, d \notin Final
      PROVE  next[d] \in D /\ size[next[d]] < size[d]
    <2> HIDE DEF bits
    <2>1. next[d] \in 1 .. d - 1
        BY <1>1, <1>2
    <2> QED
        BY <2>1
<1>3. PICK f \in [D -> Int] : Loops(f, D, Final, final, next)
    <2>1. size \in [D -> Nat] /\ Int # {}
        OBVIOUS
    <2>2. \A d \in D : final[d] \in Int
        <3> HIDE DEF bits, D
        <3> QED
            BY <1>1
    <2> HIDE DEF D, Final, final, next, size
    <2> QED
        BY <1>2, <2>1, <2>2, LoopExists
<1>4. Def(f)
    <2>1. \A d \in D : f[d] = IF d \in Final THEN final[d] ELSE f[next[d]]
        <3> HIDE DEF D, Final, final, next
        <3> QED
            BY <1>3 DEF Loops
    <2> HIDE DEF bits, D
    <2>2. \A d \in D : f[d] = Value(d, f)
        BY <2>1
    <2> HIDE DEF Value
    <2>3. f = [d \in D |-> f[d]]
        OBVIOUS
    <2> QED
        BY <2>2, <2>3
<1>5. Def(loop)
    <2> HIDE DEF Def
    <2> QED
        BY <1>4
<1>6. Py!tree_pos_height(k - 1) = loop[k]
    <2>1. (k - 1) + 1 = k
        OBVIOUS
    <2> QED
        BY <2>1 DEF Py!tree_pos_height
<1> HIDE DEF loop
<1>7. \A d \in D : loop[d] = Value(d, loop)
    <2> HIDE DEF Value, D
    <2> QED
        BY <1>5
<1> HIDE DEF bits
<1> DEFINE Holds(d) == {loop[d]} = compute_height[d]
           Bad == {d \in D : ~Holds(d)}
<1>8. Bad = {}
    <2> SUFFICES ASSUME Bad # {}
                 PROVE  FALSE
        OBVIOUS
    <2>1. PICK n \in Bad : \A i \in Bad : n <= i
        <3>1. Bad \in SUBSET Nat
            OBVIOUS
        <3> HIDE DEF Bad
        <3> QED
            BY <3>1, SmallestExists
    <2>2. n \in D /\ n \in Nat
        BY <2>1
    <2>3. PICK b \in 1 .. MaxBits :
              /\ bits(n) = b /\ 2^b = P(b) /\ 2^(b - 1) = P(b - 1)
              /\ P(b) \in Nat /\ P(b - 1) \in Nat /\ P(b - 1) <= n /\ n < P(b)
              /\ P(b) - 1 # n => n - (P(b - 1) - 1) \in 1 .. n - 1
        BY <1>1, <2>2
    <2>4. loop[n] = IF P(b) - 1 = n THEN b - 1 ELSE loop[n - (P(b - 1) - 1)]
        BY <1>7, <2>2, <2>3
    <2>5. CASE P(b) - 1 = n
        <3>1. compute_height[n] = {b - 1}
            BY <2>5, HeightOfAllOnes
        <3>2. loop[n] = b - 1
            BY <2>4, <2>5
        <3>3. Holds(n)
            BY <3>1, <3>2
        <3> HIDE DEF Holds
        <3> QED
            BY <2>1, <3>3
    <2>6. CASE P(b) - 1 # n
        <3> DEFINE m == n - (P(b - 1) - 1)
        <3>1. m \in D /\ ~(n <= m) /\ m = n - P(b - 1) + 1 /\ n < P(b) - 1
            <4>1. m \in 1 .. n - 1 /\ n \in 1 .. k
                BY <2>2, <2>3, <2>6
            <4>2. m \in D /\ ~(n <= m)
                <5> HIDE DEF m
                <5> QED
                    BY <4>1
            <4>3. m = n - P(b - 1) + 1 /\ n < P(b) - 1
                <5> DEFINE u == P(b - 1)
                           v == P(b)
                <5>1. u \in Nat /\ v \in Nat /\ n \in Nat /\ n < v /\ v - 1 # n
                    BY <2>2, <2>3, <2>6
                <5> HIDE DEF u, v
                <5>2. n - (u - 1) = n - u + 1 /\ n < v - 1
                    BY <5>1
                <5> QED
                    BY <5>2 DEF u, v
            <4> QED
                BY <4>2, <4>3
        <3>2. compute_height[n] = compute_height[m]
            BY <2>2, <2>3, <3>1, HeightJumps
        <3> HIDE DEF m
        <3>3. Holds(m)
            <4> HIDE DEF Holds, D
            <4> QED
                BY <2>1, <3>1
        <3> QED
            BY <2>1, <2>4, <2>6, <3>2, <3>3 DEF m
    <2> QED
        BY <2>5, <2>6
<1>9. Holds(k)
    <2>1. k \in D
        OBVIOUS
    <2> HIDE DEF Holds, D
    <2> QED
        BY <1>8, <2>1
<1> QED
    BY <1>6, <1>9

-----------------------------------------------------------------------------
(* The Python tools: peaks.                                                *)

(* The height of the highest perfect tree that fits into n nodes.          *)
FitsBest(n, g) == P(g + 1) - 1 <= n /\ n < P(g + 2) - 1

(* Python finds the leftmost peak. *)
LEMMA PyFirstPeak ==
    ASSUME NEW g \in 0 .. MaxHeight, NEW n \in Nat, FitsBest(n, g)
    PROVE  Py!left_peak_height_pos(n) = <<g, 2 * P(g) - 2>>
<1> DEFINE D == 0 .. MaxBits - 1
           left(h) == 2^(h + 1) - 2
           Final == {h \in D : ~(left(h) < n)}
           final == [h \in D |-> h - 1]
           next == [h \in D |-> h + 1]
           size == [h \in D |-> MaxBits - h]
           Value(h, f) == IF left(h) < n THEN f[h + 1] ELSE h - 1
           Def(f) == f = [h \in D |-> Value(h, f)]
           loop == CHOOSE f : Def(f)
<1>0. /\ MaxBits \in Nat /\ g \in Nat /\ g + 2 <= MaxBits /\ g + 1 \in D
      /\ g + 1 \in 0 .. MaxBits /\ g + 2 \in 0 .. MaxBits /\ MaxHeight \in Nat
      /\ P(g + 1) = 2 * P(g) /\ P(g) \in Nat \ {0}
    BY Heights
<1>1. ASSUME NEW h \in D
      PROVE  /\ left(h) = P(h + 1) - 2 /\ h + 1 \in 0 .. MaxBits /\ P(h + 1) \in Nat
             /\ left(h) < n <=> h <= g
    <2>1. left(h) = P(h + 1) - 2 /\ h + 1 \in 0 .. MaxBits /\ P(h + 1) \in Nat
        <3>1. h + 1 \in 0 .. MaxBits
            BY <1>0
        <3> QED
            BY <3>1, PowersAgree, PowTypes
    <2>2. CASE h <= g
        <3>1. ~(P(g + 1) < P(h + 1))
            <4>1. ~(g + 1 < h + 1)
                BY <1>0, <2>2
            <4> QED
                BY <1>0, <2>1, <4>1, PowOrder
        <3>2. P(g + 1) \in Nat
            BY <1>0
        <3> QED
            BY <2>1, <2>2, <3>1, <3>2 DEF FitsBest
    <2>3. CASE h > g
        <3>1. ~(P(h + 1) < P(g + 2))
            <4>1. ~(h + 1 < g + 2)
                BY <1>0, <2>3
            <4> QED
                BY <1>0, <2>1, <4>1, PowOrder
        <3>2. P(g + 2) \in Nat
            BY <1>0, PowTypes
        <3>3. ~(left(h) < n)
            BY <2>1, <3>1, <3>2 DEF FitsBest
        <3>4. ~(h <= g)
            BY <1>0, <2>3
        <3> QED
            BY <2>1, <3>3, <3>4
    <2> QED
        BY <1>0, <2>2, <2>3
<1> HIDE DEF left
<1>2. ASSUME NEW h \in D, h \notin Final
      PROVE  next[h] \in D /\ size[next[h]] < size[h]
    <2>1. h <= g /\ h + 1 \in D
        BY <1>0, <1>1, <1>2
    <2> QED
        BY <1>0, <2>1
<1>3. PICK f \in [D -> Int] : Loops(f, D, Final, final, next)
    <2>1. size \in [D -> Nat] /\ Int # {}
        BY <1>0
    <2>2. \A h \in D : final[h] \in Int
        OBVIOUS
    <2> HIDE DEF D, Final, final, next, size
    <2> QED
        BY <1>2, <2>1, <2>2, LoopExists
<1>4. Def(f)
    <2>1. \A h \in D : f[h] = IF h \in Final THEN final[h] ELSE f[next[h]]
        <3> HIDE DEF D, Final, final, next
        <3> QED
            BY <1>3 DEF Loops
    <2> HIDE DEF D
    <2>2. \A h \in D : f[h] = Value(h, f)
        BY <2>1
    <2> HIDE DEF Value
    <2>3. f = [h \in D |-> f[h]]
        OBVIOUS
    <2> QED
        BY <2>2, <2>3
<1>5. Def(loop)
    <2> HIDE DEF Def
    <2> QED
        BY <1>4
<1>6. Py!left_peak_height_pos(n) = <<loop[0], IF loop[0] < 0 THEN 0 ELSE left(loop[0])>>
    BY DEF Py!left_peak_height_pos, left
<1> HIDE DEF loop
<1>7. \A h \in D : loop[h] = Value(h, loop)
    <2> HIDE DEF Value, D
    <2> QED
        BY <1>5
<1> DEFINE Bad == {i \in Nat : i <= g + 1 /\ loop[g + 1 - i] # g}
<1>8. Bad = {}
    <2> SUFFICES ASSUME Bad # {}
                 PROVE  FALSE
        OBVIOUS
    <2>1. PICK m \in Bad : \A i \in Bad : m <= i
        <3>1. Bad \in SUBSET Nat
            OBVIOUS
        <3> HIDE DEF Bad
        <3> QED
            BY <3>1, SmallestExists
    <2> DEFINE h == g + 1 - m
    <2>2. m \in Nat /\ h \in D /\ h \in 0 .. g + 1 /\ loop[h] # g
        BY <1>0, <2>1
    <2> HIDE DEF h
    <2>3. loop[h] = IF left(h) < n THEN loop[h + 1] ELSE h - 1
        BY <1>7, <2>2
    <2>4. left(h) < n <=> h <= g
        BY <1>1, <2>2
    <2>5. CASE h = g + 1
        BY <1>0, <2>2, <2>3, <2>4, <2>5
    <2>6. CASE h # g + 1
        <3>1. m - 1 \in Nat /\ m - 1 <= g + 1 /\ ~(m <= m - 1) /\ g + 1 - (m - 1) = h + 1
            BY <1>0, <2>1, <2>2, <2>6 DEF h
        <3>2. m - 1 \notin Bad
            <4> HIDE DEF Bad
            <4> QED
                BY <2>1, <3>1
        <3>3. loop[h + 1] = g
            BY <3>1, <3>2
        <3> QED
            BY <1>0, <2>2, <2>3, <2>4, <2>6, <3>3
    <2> QED
        BY <2>5, <2>6
<1>9. loop[0] = g
    <2>1. g + 1 \in Nat /\ g + 1 <= g + 1 /\ g + 1 - (g + 1) = 0
        BY <1>0
    <2>2. g + 1 \notin Bad
        <3> HIDE DEF Bad
        <3> QED
            BY <1>8
    <2>3. loop[g + 1 - (g + 1)] = g
        BY <2>1, <2>2
    <2> QED
        BY <2>1, <2>3
<1>10. left(g) = 2 * P(g) - 2 /\ ~(g < 0)
    <2>1. g \in D /\ g \in Nat
        BY <1>0
    <2>2. left(g) = P(g + 1) - 2 /\ ~(g < 0)
        BY <1>1, <2>1
    <2> QED
        BY <1>0, <2>2
<1> QED
    BY <1>6, <1>9, <1>10

(* From the right sibling of a tree that ends at pos, down to the highest  *)
(* tree that fits into the nodes right of it: down's function is Down.     *)
DownFrom(n, f) ==
    f = [call \in (0 .. MaxBits) \X Int |->
            LET h == call[1]
                pos == call[2]
            IN  IF pos <= n - 1 THEN call
                ELSE IF h = 0 THEN <<-1, 0>>
                ELSE f[<<h - 1, pos - 2 * 2^(h - 1)>>]]

Down(n) == CHOOSE f : DownFrom(n, f)

LEMMA DownEquation ==
    ASSUME NEW n \in Int, NEW h \in 0 .. MaxBits, NEW pos \in Int
    PROVE  Down(n)[<<h, pos>>] = IF pos <= n - 1 THEN <<h, pos>>
                                 ELSE IF h = 0 THEN <<-1, 0>>
                                 ELSE Down(n)[<<h - 1, pos - P(h)>>]
<1> DEFINE D == (0 .. MaxBits) \X Int
           Final == {d \in D : d[2] <= n - 1 \/ d[1] = 0}
           final == [d \in D |-> IF d[2] <= n - 1 THEN d ELSE <<-1, 0>>]
           next == [d \in D |-> <<d[1] - 1, d[2] - 2 * 2^(d[1] - 1)>>]
           size == [d \in D |-> d[1]]
           R == Int \X Int
           Value(d, f) == IF d[2] <= n - 1 THEN d
                          ELSE IF d[1] = 0 THEN <<-1, 0>>
                          ELSE f[<<d[1] - 1, d[2] - 2 * 2^(d[1] - 1)>>]
<1>0. MaxBits \in Nat
    BY PowTypes
<1>1. ASSUME NEW g \in 0 .. MaxBits, g # 0
      PROVE  2 * 2^(g - 1) = P(g) /\ P(g) \in Nat /\ g - 1 \in 0 .. MaxBits
    <2>1. g - 1 \in 0 .. MaxBits - 1 /\ g - 1 \in 0 .. MaxBits /\ (g - 1) + 1 = g
        BY <1>0, <1>1
    <2>2. P((g - 1) + 1) = 2 * P(g - 1) /\ P(g) \in Nat
        BY <2>1, PowTypes
    <2> QED
        BY <2>1, <2>2, PowersAgree
<1>2. ASSUME NEW d \in D, d \notin Final
      PROVE  next[d] \in D /\ size[next[d]] < size[d]
    <2>1. d[1] \in 0 .. MaxBits /\ d[1] # 0 /\ d[2] \in Int
        BY <1>2
    <2>2. 2 * 2^(d[1] - 1) \in Nat /\ d[1] - 1 \in 0 .. MaxBits
        BY <1>1, <2>1
    <2> QED
        BY <2>1, <2>2
<1>3. PICK f \in [D -> R] : Loops(f, D, Final, final, next)
    <2>1. size \in [D -> Nat] /\ R # {}
        <3>1. <<0, 0>> \in R
            OBVIOUS
        <3> QED
            BY <1>0, <3>1
    <2>2. \A d \in D : final[d] \in R
        BY <1>0
    <2> HIDE DEF D, Final, final, next, size, R
    <2> QED
        BY <1>2, <2>1, <2>2, LoopExists
<1>4. DownFrom(n, f)
    <2>1. \A d \in D : f[d] = IF d \in Final THEN final[d] ELSE f[next[d]]
        <3> HIDE DEF D, Final, final, next
        <3> QED
            BY <1>3 DEF Loops
    <2> HIDE DEF D
    <2>2. \A d \in D : f[d] = Value(d, f)
        BY <2>1
    <2>3. f = [d \in D |-> f[d]]
        <3> HIDE DEF R
        <3> QED
            OBVIOUS
    <2>4. f = [d \in D |-> Value(d, f)]
        <3> HIDE DEF Value
        <3> QED
            BY <2>2, <2>3
    <2> QED
        BY <2>4 DEF DownFrom, D
<1>5. DownFrom(n, Down(n))
    BY <1>4 DEF Down
<1>6. \A d \in D : Down(n)[d] = Value(d, Down(n))
    <2>1. Down(n) = [d \in D |-> Value(d, Down(n))]
        BY <1>5 DEF DownFrom
    <2> HIDE DEF D, Value
    <2> QED
        BY <2>1
<1>7. <<h, pos>> \in D /\ <<h, pos>>[1] = h /\ <<h, pos>>[2] = pos
    OBVIOUS
<1>8. Down(n)[<<h, pos>>] = Value(<<h, pos>>, Down(n))
    <2> HIDE DEF Value, D
    <2> QED
        BY <1>6, <1>7
<1> QED
    BY <1>1, <1>7, <1>8

(* Where down ends, if it ends inside. *)
LEMMA DownBounds ==
    ASSUME NEW n \in Int, NEW h \in 0 .. MaxBits, NEW pos \in Int
    PROVE  /\ Down(n)[<<h, pos>>] \in (-1 .. MaxBits) \X Int
           /\ Down(n)[<<h, pos>>][1] >= 0 =>
                  /\ pos - (2 * P(h) - 2) <= Down(n)[<<h, pos>>][2]
                  /\ Down(n)[<<h, pos>>][2] <= n - 1
<1> DEFINE Ends(g, p) == /\ Down(n)[<<g, p>>] \in (-1 .. MaxBits) \X Int
                         /\ Down(n)[<<g, p>>][1] >= 0 =>
                               /\ p - (2 * P(g) - 2) <= Down(n)[<<g, p>>][2]
                               /\ Down(n)[<<g, p>>][2] <= n - 1
           Holds(g) == \A p \in Int : Ends(g, p)
           Bad == {g \in 0 .. MaxBits : ~Holds(g)}
<1>0. MaxBits \in Nat /\ \A g \in 0 .. MaxBits : P(g) \in Nat \ {0}
    BY PowTypes
<1>1. Bad = {}
    <2> SUFFICES ASSUME Bad # {}
                 PROVE  FALSE
        OBVIOUS
    <2>1. PICK g \in Bad : \A i \in Bad : g <= i
        <3>1. Bad \in SUBSET Nat
            BY <1>0
        <3> HIDE DEF Bad
        <3> QED
            BY <3>1, SmallestExists
    <2>2. g \in 0 .. MaxBits /\ g \in Nat /\ P(g) \in Nat \ {0}
        BY <1>0, <2>1
    <2>3. ASSUME NEW p \in Int
          PROVE  Ends(g, p)
        <3>1. Down(n)[<<g, p>>] = IF p <= n - 1 THEN <<g, p>>
                                  ELSE IF g = 0 THEN <<-1, 0>>
                                  ELSE Down(n)[<<g - 1, p - P(g)>>]
            BY <2>2, DownEquation
        <3>2. CASE p <= n - 1
            <4>1. Down(n)[<<g, p>>] = <<g, p>>
                BY <3>1, <3>2
            <4>2. p - (2 * P(g) - 2) <= p
                BY <2>2
            <4> QED
                BY <1>0, <2>2, <3>2, <4>1, <4>2
        <3>3. CASE ~(p <= n - 1) /\ g = 0
            <4>1. Down(n)[<<g, p>>] = <<-1, 0>>
                BY <3>1, <3>3
            <4> QED
                BY <1>0, <4>1
        <3>4. CASE ~(p <= n - 1) /\ g # 0
            <4> DEFINE q == p - P(g)
                       e == g - 1
                       r == Down(n)[<<e, q>>]
            <4>1. e \in 0 .. MaxBits /\ e \in 0 .. MaxBits - 1 /\ ~(g <= e) /\ e + 1 = g /\ q \in Int
                BY <1>0, <2>2, <3>4
            <4>2. P(e + 1) = 2 * P(e) /\ P(e) \in Nat \ {0}
                BY <4>1, PowTypes
            <4>3. P(g) = 2 * P(e)
                BY <4>1, <4>2
            <4>4. Down(n)[<<g, p>>] = r
                BY <3>1, <3>4
            <4> HIDE DEF e
            <4>5. Holds(e)
                <5> HIDE DEF Holds
                <5> QED
                    BY <2>1, <4>1
            <4>6. Ends(e, q)
                <5> HIDE DEF Ends, q
                <5> QED
                    BY <4>1, <4>5
            <4>7. q - (2 * P(e) - 2) = p - (2 * P(g) - 2)
                BY <2>2, <4>2, <4>3
            <4> HIDE DEF q
            <4> QED
                BY <4>4, <4>6, <4>7
        <3> HIDE DEF Ends
        <3> QED
            BY <3>2, <3>3, <3>4
    <2> HIDE DEF Ends
    <2> QED
        BY <2>1, <2>3
<1>2. Ends(h, pos)
    <2> HIDE DEF Ends
    <2> QED
        BY <1>1
<1> QED
    BY <1>2

(* The right sibling of a tree of height h that ends at pos, from 1, is at *)
(* this position, from 0.                                                  *)
Beside(pos, h) == pos - 1 + 2 * P(h) - 1

(* From there down leads to the highest tree that fits in.                 *)
LEMMA DownLands ==
    ASSUME NEW n \in Nat, NEW pos \in 0 .. n, NEW g \in 0 .. MaxHeight, FitsBest(n - pos, g),
           NEW h \in g .. MaxHeight
    PROVE  Down(n)[<<h, Beside(pos, h)>>] = <<g, Beside(pos, g)>>
<1> DEFINE Holds(i) == Down(n)[<<i, Beside(pos, i)>>] = <<g, Beside(pos, g)>>
           Bad == {i \in g .. MaxHeight : ~Holds(i)}
<1>0. MaxBits \in Nat /\ MaxHeight \in Nat /\ MaxHeight + 2 <= MaxBits /\ g \in Nat
    BY Heights
<1>1. Bad = {}
    <2> SUFFICES ASSUME Bad # {}
                 PROVE  FALSE
        OBVIOUS
    <2>1. PICK i \in Bad : \A m \in Bad : i <= m
        <3>1. Bad \in SUBSET Nat
            BY <1>0
        <3> HIDE DEF Bad
        <3> QED
            BY <3>1, SmallestExists
    <2>2. i \in g .. MaxHeight /\ i \in 0 .. MaxBits /\ i \in 0 .. MaxHeight + 1 /\ i \in Nat
        BY <1>0, <2>1
    <2>3. P(i) \in Nat \ {0} /\ P(i + 1) = 2 * P(i)
        BY <2>2, Heights
    <2> DEFINE p == Beside(pos, i)
    <2>4. p \in Int /\ p = pos + 2 * P(i) - 2
        BY <2>3 DEF Beside
    <2>5. Down(n)[<<i, p>>] = IF p <= n - 1 THEN <<i, p>>
                              ELSE IF i = 0 THEN <<-1, 0>>
                              ELSE Down(n)[<<i - 1, p - P(i)>>]
        <3> HIDE DEF p
        <3> QED
            BY <2>2, <2>4, DownEquation
    <2>6. CASE i = g
        <3>1. 2 * P(g) - 1 <= n - pos
            BY <2>3, <2>6 DEF FitsBest
        <3>2. p <= n - 1
            BY <2>3, <2>4, <2>6, <3>1
        <3> QED
            BY <2>1, <2>5, <2>6, <3>2
    <2>7. CASE i # g
        <3>1. i - 1 \in g .. MaxHeight /\ i - 1 \in 0 .. MaxHeight + 1 /\ (i - 1) + 1 = i
              /\ ~(i <= i - 1) /\ ~(i + 1 < g + 2) /\ i + 1 \in 0 .. MaxBits /\ g + 2 \in 0 .. MaxBits
              /\ i # 0
            BY <1>0, <2>2, <2>7
        <3>2. P(i) = 2 * P(i - 1) /\ P(i - 1) \in Nat \ {0}
            <4>1. P((i - 1) + 1) = 2 * P(i - 1)
                BY <3>1, Heights
            <4>2. i - 1 \in 0 .. MaxHeight + 2
                BY <1>0, <3>1
            <4>3. P(i - 1) \in Nat \ {0}
                BY <4>2, Heights
            <4> QED
                BY <3>1, <4>1, <4>3
        <3>3. n - pos < 2 * P(i) - 1
            <4>1. ~(P(i + 1) < P(g + 2)) /\ P(g + 2) \in Nat
                BY <3>1, PowOrder, PowTypes
            <4> QED
                BY <2>3, <4>1 DEF FitsBest
        <3>4. ~(p <= n - 1)
            BY <2>3, <2>4, <3>3
        <3>5. p - P(i) = Beside(pos, i - 1)
            BY <2>4, <3>2 DEF Beside
        <3>6. Holds(i - 1)
            <4> HIDE DEF Holds
            <4> QED
                BY <2>1, <3>1
        <3>7. Down(n)[<<i, p>>] = Down(n)[<<i - 1, Beside(pos, i - 1)>>]
            BY <2>5, <3>1, <3>4, <3>5
        <3>8. Holds(i)
            BY <3>6, <3>7
        <3> HIDE DEF Holds
        <3> QED
            BY <2>1, <3>8
    <2> QED
        BY <2>6, <2>7
<1>2. Holds(h)
    <2> HIDE DEF Holds
    <2> QED
        BY <1>1
<1> QED
    BY <1>2

(* If there is nothing right of the tree it finds no peak.                 *)
LEMMA DownLandsNowhere ==
    ASSUME NEW n \in Nat, NEW h \in 0 .. MaxHeight
    PROVE  Down(n)[<<h, Beside(n, h)>>] = <<-1, 0>>
<1> DEFINE Holds(i) == Down(n)[<<i, Beside(n, i)>>] = <<-1, 0>>
           Bad == {i \in 0 .. MaxHeight : ~Holds(i)}
<1>0. MaxBits \in Nat /\ MaxHeight \in Nat /\ MaxHeight + 2 <= MaxBits
    BY Heights
<1>1. Bad = {}
    <2> SUFFICES ASSUME Bad # {}
                 PROVE  FALSE
        OBVIOUS
    <2>1. PICK i \in Bad : \A m \in Bad : i <= m
        <3>1. Bad \in SUBSET Nat
            BY <1>0
        <3> HIDE DEF Bad
        <3> QED
            BY <3>1, SmallestExists
    <2>2. i \in 0 .. MaxHeight /\ i \in 0 .. MaxBits /\ i \in 0 .. MaxHeight + 1 /\ i \in Nat
        BY <1>0, <2>1
    <2>3. P(i) \in Nat \ {0}
        BY <2>2, Heights
    <2> DEFINE p == Beside(n, i)
    <2>4. p \in Int /\ p = n + 2 * P(i) - 2 /\ ~(p <= n - 1)
        BY <2>3 DEF Beside
    <2>5. Down(n)[<<i, p>>] = IF i = 0 THEN <<-1, 0>> ELSE Down(n)[<<i - 1, p - P(i)>>]
        <3> HIDE DEF p
        <3> QED
            BY <2>2, <2>4, DownEquation
    <2>6. i # 0
        BY <2>1, <2>5
    <2>7. i - 1 \in 0 .. MaxHeight /\ i - 1 \in 0 .. MaxHeight + 1 /\ (i - 1) + 1 = i
          /\ ~(i <= i - 1)
        BY <1>0, <2>2, <2>6
    <2>8. P(i) = 2 * P(i - 1) /\ P(i - 1) \in Nat \ {0}
        <3>1. P((i - 1) + 1) = 2 * P(i - 1) /\ i - 1 \in 0 .. MaxHeight + 2
            BY <1>0, <2>7, Heights
        <3> QED
            BY <2>7, <3>1, Heights
    <2>9. p - P(i) = Beside(n, i - 1)
        BY <2>4, <2>8 DEF Beside
    <2>10. Holds(i - 1)
        <3> HIDE DEF Holds
        <3> QED
            BY <2>1, <2>7
    <2>11. Holds(i)
        BY <2>5, <2>6, <2>9, <2>10
    <2> HIDE DEF Holds
    <2> QED
        BY <2>1, <2>11
<1>2. Holds(h)
    <2> HIDE DEF Holds
    <2> QED
        BY <1>1
<1> QED
    BY <1>2

(* get_right_peak is down's function at the right sibling. *)
LEMMA PyRightPeak ==
    ASSUME NEW n \in Int, NEW h \in 0 .. MaxBits, NEW pos \in Nat
    PROVE  /\ Py!get_right_peak(h, pos, n) = Down(n)[<<h, Beside(pos + 1, h)>>]
           /\ Py!get_right_peak(h, pos, n) \in (-1 .. MaxBits) \X Int
           /\ Py!get_right_peak(h, pos, n)[1] >= 0 =>
                  /\ pos < Py!get_right_peak(h, pos, n)[2]
                  /\ Py!get_right_peak(h, pos, n)[2] < n
<1>1. P(h) \in Nat \ {0} /\ 2^h = P(h)
    BY PowTypes, PowersAgree
<1>2. pos + (2 * P(h) - 1) = Beside(pos + 1, h) /\ Beside(pos + 1, h) \in Int
    BY <1>1 DEF Beside
<1>3. Py!get_right_peak(h, pos, n) = Down(n)[<<h, Beside(pos + 1, h)>>]
    BY <1>1, <1>2 DEF Py!get_right_peak, Py!sibling_offset, Down, DownFrom
<1> DEFINE b == Beside(pos + 1, h)
           r == Down(n)[<<h, b>>]
<1>4. b \in Int /\ b - (2 * P(h) - 2) = pos + 1
    BY <1>1, <1>2 DEF Beside
<1> HIDE DEF b
<1>5. /\ r \in (-1 .. MaxBits) \X Int
      /\ r[1] >= 0 => b - (2 * P(h) - 2) <= r[2] /\ r[2] <= n - 1
    BY <1>4, DownBounds
<1>6. r[2] \in Int
    BY <1>5
<1> HIDE DEF r
<1>7. r[1] >= 0 => pos < r[2] /\ r[2] < n
    BY <1>4, <1>5, <1>6
<1> QED
    BY <1>3, <1>5, <1>7 DEF r, b

(* The function of more, and its recursion. *)
MoreFrom(n, f) ==
    f = [call \in (-1 .. MaxBits) \X Nat \X Seq(Nat) |->
            LET next == Py!get_right_peak(call[1], call[2], n)
                poss == call[3]
            IN  IF call[1] > 0 /\ next[1] >= 0
                THEN f[<<next[1], next[2], Append(poss, next[2])>>] ELSE poss]

More(n) == CHOOSE f : MoreFrom(n, f)

GoesOn(n, h, poss, right) ==
    IF h > 0 /\ right[1] >= 0
    THEN More(n)[<<right[1], right[2], Append(poss, right[2])>>] ELSE poss

LEMMA MoreEquation ==
    ASSUME NEW n \in Int, NEW h \in 0 .. MaxBits, NEW pos \in Nat, NEW poss \in Seq(Nat)
    PROVE  More(n)[<<h, pos, poss>>] = GoesOn(n, h, poss, Py!get_right_peak(h, pos, n))
<1> DEFINE D == (-1 .. MaxBits) \X Nat \X Seq(Nat)
           R == Seq(Nat)
           peak(d) == Py!get_right_peak(d[1], d[2], n)
           Final == {d \in D : ~(d[1] > 0 /\ peak(d)[1] >= 0)}
           final == [d \in D |-> d[3]]
           next == [d \in D |-> <<peak(d)[1], peak(d)[2], Append(d[3], peak(d)[2])>>]
           size == [d \in D |-> IF d[2] < n THEN n - d[2] ELSE 0]
           Value(d, f) == IF d[1] > 0 /\ peak(d)[1] >= 0
                          THEN f[<<peak(d)[1], peak(d)[2], Append(d[3], peak(d)[2])>>] ELSE d[3]
<1>0. MaxBits \in Nat
    BY PowTypes
<1>1. ASSUME NEW d \in D, d \notin Final
      PROVE  next[d] \in D /\ size[next[d]] < size[d]
    <2>1. d[1] \in 0 .. MaxBits /\ d[2] \in Nat /\ d[3] \in Seq(Nat) /\ peak(d)[1] >= 0
        BY <1>0, <1>1
    <2> HIDE DEF Final
    <2> DEFINE q == Py!get_right_peak(d[1], d[2], n)
    <2>2. q \in (-1 .. MaxBits) \X Int /\ q[1] >= 0 /\ d[2] < q[2] /\ q[2] < n
        <3>1. /\ q \in (-1 .. MaxBits) \X Int
              /\ q[1] >= 0 => d[2] < q[2] /\ q[2] < n
            BY <2>1, PyRightPeak
        <3> QED
            BY <2>1, <3>1
    <2> HIDE DEF q
    <2>3. next[d] = <<q[1], q[2], Append(d[3], q[2])>>
        BY DEF q
    <2>4. q[1] \in -1 .. MaxBits /\ q[2] \in Nat /\ Append(d[3], q[2]) \in Seq(Nat)
        <3>1. q[1] \in -1 .. MaxBits /\ q[2] \in Nat
            BY <2>1, <2>2
        <3> QED
            BY <2>1, <3>1
    <2>5. next[d] \in D /\ next[d][2] = q[2]
        <3> DEFINE u == q[1]
                   v == q[2]
                   z == Append(d[3], q[2])
        <3>1. u \in -1 .. MaxBits /\ v \in Nat /\ z \in Seq(Nat) /\ next[d] = <<u, v, z>>
            BY <2>3, <2>4
        <3> HIDE DEF u, v, z, next
        <3>2. <<u, v, z>> \in D /\ <<u, v, z>>[2] = v
            BY <3>1
        <3> HIDE DEF D
        <3> QED
            BY <3>1, <3>2 DEF v
    <2> HIDE DEF next, D
    <2>6. size[next[d]] = n - q[2] /\ size[d] = n - d[2]
        BY <2>1, <2>2, <2>4, <2>5
    <2> HIDE DEF size
    <2> QED
        BY <2>1, <2>2, <2>4, <2>5, <2>6
<1> HIDE DEF peak
<1>2. PICK f \in [D -> R] : Loops(f, D, Final, final, next)
    <2>1. size \in [D -> Nat]
        <3>1. \A d \in D : d[2] \in Nat
            OBVIOUS
        <3> HIDE DEF D
        <3> QED
            BY <3>1
    <2>2. R # {}
        <3>1. << >> \in R
            OBVIOUS
        <3> HIDE DEF R
        <3> QED
            BY <3>1
    <2>3. \A d \in D : final[d] \in R
        OBVIOUS
    <2> HIDE DEF D, Final, final, next, size, R
    <2> QED
        BY <1>1, <2>1, <2>2, <2>3, LoopExists
<1>3. MoreFrom(n, f)
    <2>1. \A d \in D : f[d] = IF d \in Final THEN final[d] ELSE f[next[d]]
        <3> HIDE DEF D, Final, final, next
        <3> QED
            BY <1>2 DEF Loops
    <2> HIDE DEF D
    <2>2. \A d \in D : f[d] = Value(d, f)
        BY <2>1
    <2>3. f = [d \in D |-> f[d]]
        <3> HIDE DEF R
        <3> QED
            OBVIOUS
    <2>4. f = [d \in D |-> Value(d, f)]
        <3> HIDE DEF Value
        <3> QED
            BY <2>2, <2>3
    <2> QED
        BY <2>4 DEF MoreFrom, D, peak
<1>4. MoreFrom(n, More(n))
    BY <1>3 DEF More
<1>5. \A d \in D : More(n)[d] = Value(d, More(n))
    <2>1. More(n) = [d \in D |-> Value(d, More(n))]
        BY <1>4 DEF MoreFrom, peak
    <2> HIDE DEF D, Value
    <2> QED
        BY <2>1
<1> DEFINE e == <<h, pos, poss>>
<1>6. e \in D /\ e[1] = h /\ e[2] = pos /\ e[3] = poss
    BY <1>0
<1> HIDE DEF e, D
<1>7. peak(e) = Py!get_right_peak(h, pos, n)
    BY <1>6 DEF peak
<1>8. More(n)[e] = Value(e, More(n))
    <2> HIDE DEF Value
    <2> QED
        BY <1>5, <1>6
<1> QED
    BY <1>6, <1>7, <1>8 DEF e, GoesOn

(* The peaks of a forest that is moved to the right, counted from 0.       *)
Back(s, q) == [i \in DOMAIN q |-> s + q[i] - 1]

LEMMA BackTypes ==
    ASSUME NEW s \in Nat, NEW c \in Nat, NEW q \in Seq(Nat), Len(q) = c,
           \A i \in 1 .. c : s + q[i] >= 1
    PROVE  /\ Back(s, q) \in Seq(Nat) /\ Len(Back(s, q)) = c
           /\ \A i \in 1 .. c : Back(s, q)[i] = s + q[i] - 1
<1> DEFINE b == Back(s, q)
<1>1. DOMAIN q = 1 .. c /\ \A i \in 1 .. c : q[i] \in Nat
    OBVIOUS
<1>2. b = [i \in 1 .. c |-> s + q[i] - 1]
    BY <1>1 DEF Back
<1> HIDE DEF b
<1>3. b \in [1 .. c -> Nat] /\ \A i \in 1 .. c : b[i] = s + q[i] - 1
    BY <1>1, <1>2
<1>4. b \in Seq(Nat) /\ DOMAIN b = 1 .. c
    BY <1>3
<1>5. Len(b) = c
    BY <1>4
<1> QED
    BY <1>3, <1>4, <1>5 DEF b

(* Positions that are found one after the other, or at once.               *)
LEMMA BackSequence ==
    ASSUME NEW s \in Nat, NEW p \in Nat \ {0}, NEW q \in Seq(Nat), NEW acc \in Seq(Nat)
    PROVE  Append(acc, s + p - 1) \o Back(s + p, q) = acc \o Back(s, <<p>> \o MovedPeaks(p, q))
<1> DEFINE c == Len(q)
           l == Len(acc)
           m == <<p>> \o MovedPeaks(p, q)
           e == s + p - 1
           acc2 == Append(acc, e)
           a == acc2 \o Back(s + p, q)
           b == acc \o Back(s, m)
<1>1. c \in Nat /\ l \in Nat /\ e \in Nat /\ \A i \in 1 .. c : q[i] \in Nat
    OBVIOUS
<1>2. /\ MovedPeaks(p, q) \in Seq(Nat) /\ Len(MovedPeaks(p, q)) = c
      /\ \A i \in 1 .. c : MovedPeaks(p, q)[i] = p + q[i]
    <2>1. MovedPeaks(p, q) \in Seq(Nat) /\ Len(MovedPeaks(p, q)) = c
        BY MovedSequence
    <2>2. DOMAIN q = 1 .. c
        OBVIOUS
    <2> QED
        BY <2>1, <2>2 DEF MovedPeaks
<1>3. /\ m \in Seq(Nat) /\ Len(m) = c + 1 /\ m[1] = p
      /\ \A i \in 1 .. c + 1 : i # 1 => m[i] = p + q[i - 1]
    <2> DEFINE mq == MovedPeaks(p, q)
    <2> HIDE DEF mq
    <2>1. /\ <<p>> \o mq \in Seq(Nat) /\ Len(<<p>> \o mq) = c + 1 /\ (<<p>> \o mq)[1] = p
          /\ \A i \in 1 .. c + 1 : i # 1 => (<<p>> \o mq)[i] = mq[i - 1]
        BY <1>2, InFront DEF mq
    <2>2. \A i \in 1 .. c + 1 : i # 1 => i - 1 \in 1 .. c
        BY <1>1
    <2> QED
        BY <1>2, <2>1, <2>2 DEF mq
<1> HIDE DEF m, c, l, e
<1>4. /\ Back(s, m) \in Seq(Nat) /\ Len(Back(s, m)) = c + 1
      /\ \A i \in 1 .. c + 1 : Back(s, m)[i] = s + m[i] - 1
    <2>1. \A i \in 1 .. c + 1 : s + m[i] >= 1
        <3>1. \A i \in 1 .. c + 1 : i # 1 => i - 1 \in 1 .. c
            BY <1>1
        <3>2. ASSUME NEW i \in 1 .. c + 1
              PROVE  s + m[i] >= 1
            <4>1. CASE i = 1
                BY <1>3, <4>1
            <4>2. CASE i # 1
                <5>1. m[i] = p + q[i - 1] /\ q[i - 1] \in Nat
                    BY <1>1, <1>3, <3>1, <4>2
                <5> QED
                    BY <5>1
            <4> QED
                BY <4>1, <4>2
        <3> QED
            BY <3>2
    <2>2. c + 1 \in Nat
        BY <1>1
    <2>3. m \in Seq(Nat) /\ Len(m) = c + 1
        BY <1>3
    <2> DEFINE d == c + 1
    <2>4. d \in Nat /\ Len(m) = d /\ \A i \in 1 .. d : s + m[i] >= 1
        BY <2>1, <2>2, <2>3
    <2> HIDE DEF d
    <2>5. /\ Back(s, m) \in Seq(Nat) /\ Len(Back(s, m)) = d
          /\ \A i \in 1 .. d : Back(s, m)[i] = s + m[i] - 1
        BY <2>3, <2>4, BackTypes
    <2> QED
        BY <2>5 DEF d
<1>5. /\ Back(s + p, q) \in Seq(Nat) /\ Len(Back(s + p, q)) = c
      /\ \A i \in 1 .. c : Back(s + p, q)[i] = (s + p) + q[i] - 1
    <2>1. s + p \in Nat /\ Len(q) = c
        BY DEF c
    <2>2. \A i \in 1 .. c : (s + p) + q[i] >= 1
        BY <1>1
    <2> QED
        BY <1>1, <2>1, <2>2, BackTypes
<1>6. /\ acc2 \in Seq(Nat) /\ Len(acc2) = l + 1 /\ acc2[l + 1] = e
      /\ \A i \in 1 .. l : acc2[i] = acc[i]
    BY <1>1, AppendProperties DEF l
<1> HIDE DEF acc2
<1> DEFINE ba == Back(s + p, q)
           bb == Back(s, m)
<1> HIDE DEF ba, bb
<1>7. /\ a \in Seq(Nat) /\ Len(a) = (l + 1) + c
      /\ \A i \in 1 .. (l + 1) + c : a[i] = IF i <= l + 1 THEN acc2[i] ELSE ba[i - (l + 1)]
    <2>1. /\ acc2 \o ba \in Seq(Nat) /\ Len(acc2 \o ba) = Len(acc2) + Len(ba)
          /\ \A i \in 1 .. Len(acc2) + Len(ba) :
                 (acc2 \o ba)[i] = IF i <= Len(acc2) THEN acc2[i] ELSE ba[i - Len(acc2)]
        <3>1. ba \in Seq(Nat)
            BY <1>5 DEF ba
        <3> QED
            BY <1>6, <3>1, ConcatProperties, Zenon
    <2>2. Len(acc2) = l + 1 /\ Len(ba) = c
        BY <1>5, <1>6 DEF ba
    <2> QED
        BY <2>1, <2>2, Zenon DEF ba
<1>8. /\ b \in Seq(Nat) /\ Len(b) = l + (c + 1)
      /\ \A i \in 1 .. l + (c + 1) : b[i] = IF i <= l THEN acc[i] ELSE bb[i - l]
    <2>1. /\ acc \o bb \in Seq(Nat) /\ Len(acc \o bb) = Len(acc) + Len(bb)
          /\ \A i \in 1 .. Len(acc) + Len(bb) :
                 (acc \o bb)[i] = IF i <= Len(acc) THEN acc[i] ELSE bb[i - Len(acc)]
        <3>1. bb \in Seq(Nat)
            BY <1>4 DEF bb
        <3> QED
            BY <3>1, ConcatProperties, Zenon
    <2>2. Len(acc) = l /\ Len(bb) = c + 1
        BY <1>4 DEF bb, l
    <2> QED
        BY <2>1, <2>2, Zenon DEF bb
<1> HIDE DEF a, b
<1> DEFINE n == l + (c + 1)
<1>9. n \in Nat /\ (l + 1) + c = n
    BY <1>1
<1>10. ASSUME NEW i \in 1 .. n
       PROVE  a[i] = b[i]
    <2>1. CASE i <= l
        <3>1. i \in 1 .. l /\ i <= l + 1
            BY <1>1, <1>9, <2>1
        <3> QED
            BY <1>6, <1>7, <1>8, <1>9, <2>1, <3>1
    <2>2. CASE i = l + 1
        <3>1. ~(i <= l) /\ i <= l + 1 /\ i - l = 1 /\ 1 \in 1 .. c + 1
            BY <1>1, <2>2
        <3>2. a[i] = e
            BY <1>6, <1>7, <1>9, <2>2, <3>1
        <3>3. b[i] = bb[1] /\ bb[1] = s + m[1] - 1
            BY <1>4, <1>8, <3>1 DEF bb
        <3> QED
            BY <1>3, <3>2, <3>3 DEF e
    <2>3. CASE i > l + 1
        <3> DEFINE k == i - (l + 1)
        <3>1. ~(i <= l) /\ ~(i <= l + 1) /\ k \in 1 .. c /\ i - l = k + 1 /\ k + 1 \in 1 .. c + 1
              /\ k + 1 # 1 /\ (k + 1) - 1 = k
            BY <1>1, <1>9, <2>3
        <3>2. a[i] = ba[k]
            BY <1>7, <1>9, <3>1
        <3>3. b[i] = bb[k + 1]
            BY <1>8, <3>1
        <3> HIDE DEF k
        <3>4. ba[k] = (s + p) + q[k] - 1
            BY <1>5, <3>1 DEF ba
        <3>5. bb[k + 1] = s + m[k + 1] - 1 /\ m[k + 1] = p + q[k]
            BY <1>3, <1>4, <3>1 DEF bb
        <3>6. q[k] \in Nat
            BY <1>1, <3>1
        <3> QED
            BY <3>2, <3>3, <3>4, <3>5, <3>6
    <2> QED
        BY <1>1, <1>9, <2>1, <2>2, <2>3
<1>11. DOMAIN a = 1 .. n /\ DOMAIN b = 1 .. n
    BY <1>7, <1>8, <1>9
<1>12. a = [i \in 1 .. n |-> a[i]] /\ b = [i \in 1 .. n |-> b[i]]
    BY <1>7, <1>8, <1>11
<1>13. a = b
    BY <1>10, <1>12
<1> QED
    BY <1>13 DEF a, b, acc2, e, m

(* The size and the peaks of a forest split at its highest tree.           *)
LEMMA PeaksSplit ==
    ASSUME NEW j \in 0 .. MaxHeight, NEW r \in 0 .. P(j) - 1, NEW s, s = 2 * P(j) - 1
    PROVE  /\ s \in Nat \ {0} /\ P(j) + r < P(MaxHeight + 1) /\ MmrSize(r) \in 0 .. s - 1
           /\ r <= MmrSize(r) /\ MmrSize(P(j) + r) = s + MmrSize(r)
           /\ PeakPositions(r) \in Seq(Nat) /\ PeakPositions(P(j) + r) \in Seq(Nat)
           /\ r = 0 => PeakPositions(P(j) + r) = <<s>>
           /\ r # 0 => PeakPositions(P(j) + r) = <<s>> \o MovedPeaks(s, PeakPositions(r))
<1> DEFINE n == P(j) + r
           N == MmrSize(r)
<1>0. P(j) \in Nat \ {0} /\ r \in Nat /\ n \in Nat \ {0} /\ s \in Nat \ {0} /\ j \in Nat
      /\ P(j) - 1 \in Nat /\ r <= P(j) - 1
    BY Heights
<1>1. n < P(MaxHeight + 1) /\ r < P(MaxHeight + 1)
    BY PeaksAside, Zenon
<1>2. MmrSize(n) = s + N
    BY SplitForest, SizeOfPower
<1>3. N \in 0 .. s - 1 /\ r <= N
    <2>1. MmrSize(r) <= MmrSize(P(j) - 1) /\ MmrSize(r) \in Nat
        BY <1>0, SizeGrows, ForestFinite
    <2>2. MmrSize(P(j) - 1) = 2 * P(j) - 2 - j /\ r <= MmrSize(r)
        BY <1>0, SizeOfPower, LeavesAreNodes
    <2> DEFINE a == MmrSize(r)
               b == MmrSize(P(j) - 1)
               p == P(j)
    <2>3. a \in Nat /\ a <= b /\ b = 2 * p - 2 - j /\ p \in Nat /\ j \in Nat /\ s = 2 * p - 1 /\ r <= a
        BY <1>0, <2>1, <2>2
    <2> HIDE DEF a, b, p
    <2>4. a \in 0 .. s - 1 /\ r <= a
        BY <2>3
    <2> QED
        BY <2>4 DEF a
<1>4. /\ PeakPositions(n) \in Seq(Nat) /\ compute_peaks_positions(MmrSize(n)) = {PeakPositions(n)}
      /\ PeakPositions(r) \in Seq(Nat)
      /\ r # 0 => compute_peaks_positions(N) = {PeakPositions(r)}
    <2>1. n # 0
        BY <1>0
    <2> HIDE DEF n
    <2> QED
        BY <1>0, <1>1, <2>1, PeaksInOrder
<1> HIDE DEF n, N
<1>5. /\ N = 0 => compute_peaks_positions(s) = {<<s>>}
      /\ N # 0 => compute_peaks_positions(s + N) = LeadsMovedPeaks(s, s, compute_peaks_positions(N))
    BY <1>3, FirstOfPeaks, Zenon
<1>6. CASE r = 0
    <2>1. N = 0
        BY <1>6, EmptyForest DEF N
    <2>2. compute_peaks_positions(s + N) = {<<s>>} /\ s + N = s
        <3>1. s + N = s
            BY <1>0, <2>1
        <3> QED
            BY <1>5, <2>1, <3>1
    <2>3. {PeakPositions(n)} = {<<s>>}
        BY <1>2, <1>4, <2>2
    <2>4. PeakPositions(n) = <<s>>
        BY <2>3
    <2> QED
        BY <1>0, <1>1, <1>2, <1>3, <1>4, <1>6, <2>4 DEF n, N
<1>7. CASE r # 0
    <2>1. N # 0
        BY <1>0, <1>3, <1>7
    <2> DEFINE z == <<s>> \o MovedPeaks(s, PeakPositions(r))
    <2>2. LeadsMovedPeaks(s, s, {PeakPositions(r)}) = {z}
        BY DEF LeadsMovedPeaks
    <2>3. {PeakPositions(n)} = {z}
        BY <1>2, <1>4, <1>5, <1>7, <2>1, <2>2
    <2>4. PeakPositions(n) = z
        BY <2>3
    <2> HIDE DEF z
    <2> QED
        BY <1>0, <1>1, <1>2, <1>3, <1>4, <1>7, <2>4 DEF n, N, z
<1> QED
    BY <1>6, <1>7

(* The highest tree is the highest that fits into the nodes.               *)
LEMMA HighestFits ==
    ASSUME NEW j \in 0 .. MaxHeight, NEW k \in Nat, P(j) <= k, k < P(j + 1)
    PROVE  FitsBest(MmrSize(k), j)
<1>0. P(j) \in Nat \ {0} /\ P(j + 1) = 2 * P(j) /\ P(j + 2) = 4 * P(j)
    <2>1. j \in 0 .. MaxHeight + 1 /\ j + 1 \in 0 .. MaxHeight + 1 /\ (j + 1) + 1 = j + 2
          /\ j \in 0 .. MaxHeight + 2
        BY Heights
    <2>2. P(j + 1) = 2 * P(j) /\ P((j + 1) + 1) = 2 * P(j + 1) /\ P(j) \in Nat \ {0}
        BY <2>1, Heights
    <2> QED
        BY <2>1, <2>2
<1> DEFINE r == k - P(j)
           s == 2 * P(j) - 1
<1>1. r \in 0 .. P(j) - 1 /\ P(j) + r = k
    BY <1>0
<1> HIDE DEF r
<1>2. MmrSize(r) \in 0 .. s - 1 /\ MmrSize(P(j) + r) = s + MmrSize(r)
    BY <1>1, PeaksSplit
<1>3. MmrSize(k) = s + MmrSize(r)
    BY <1>1, <1>2
<1> DEFINE a == MmrSize(r)
           p == P(j)
<1>4. a \in 0 .. s - 1 /\ p \in Nat \ {0} /\ s = 2 * p - 1
    BY <1>0, <1>2
<1> HIDE DEF a, p, s
<1>5. 2 * p - 1 <= s + a /\ s + a < 4 * p - 1
    BY <1>4
<1> QED
    BY <1>0, <1>3, <1>5 DEF FitsBest, a, p

(* A height that occurs, and the nodes of a tree of that height.           *)
LEMMA BesideNodes ==
    ASSUME NEW i \in 0 .. MaxHeight, NEW t \in Nat
    PROVE  /\ i \in 0 .. MaxBits /\ i \in Nat /\ P(i) \in Nat /\ 2 * P(i) - 1 \in Nat
           /\ t + (2 * P(i) - 1) \in Nat /\ Beside(t, i) = t + (2 * P(i) - 1) - 1
           /\ Beside(t, i) \in Nat
<1> DEFINE p == P(i)
<1>1. i \in 0 .. MaxBits /\ i \in Nat /\ p \in Nat \ {0}
    BY Heights
<1>2. Beside(t, i) = t - 1 + 2 * p - 1
    BY DEF Beside
<1> HIDE DEF p
<1>3. 2 * p - 1 \in Nat /\ t + (2 * p - 1) \in Nat /\ Beside(t, i) = t + (2 * p - 1) - 1
      /\ Beside(t, i) \in Nat
    BY <1>1, <1>2
<1> QED
    BY <1>1, <1>3 DEF p

(* The same, of the highest tree of the forest of m leaves.                *)
LEMMA TakesHighestTree ==
    ASSUME NEW i \in 0 .. MaxHeight, NEW m \in Nat, P(i) <= m, m < P(i + 1)
    PROVE  \E r, u :
               /\ u = 2 * P(i) - 1 /\ P(i) \in Nat /\ r < P(MaxHeight + 1)
               /\ r \in Nat /\ r < m /\ r < P(i)
               /\ u \in Nat \ {0} /\ MmrSize(r) \in 0 .. u - 1 /\ MmrSize(m) = u + MmrSize(r)
               /\ PeakPositions(r) \in Seq(Nat)
               /\ r = 0 => PeakPositions(m) = <<u>>
               /\ r # 0 => PeakPositions(m) = <<u>> \o MovedPeaks(u, PeakPositions(r))
<1> DEFINE p == P(i)
           r == m - p
           u == 2 * p - 1
<1>1. p \in Nat \ {0} /\ m < 2 * p /\ p <= m
    <2>1. i \in 0 .. MaxHeight + 1
        BY Heights
    <2> QED
        BY <2>1, Heights
<1> HIDE DEF p
<1>2. r \in 0 .. p - 1 /\ p + r = m /\ r \in Nat /\ r < m /\ r < p
    BY <1>1
<1> HIDE DEF r
<1>3. u = 2 * P(i) - 1
    BY DEF p
<1> HIDE DEF u
<1>4. /\ u \in Nat \ {0} /\ MmrSize(r) \in 0 .. u - 1
      /\ MmrSize(p + r) = u + MmrSize(r) /\ PeakPositions(r) \in Seq(Nat)
      /\ r = 0 => PeakPositions(p + r) = <<u>>
      /\ r # 0 => PeakPositions(p + r) = <<u>> \o MovedPeaks(u, PeakPositions(r))
    <2>1. r \in 0 .. P(i) - 1
        BY <1>2 DEF p
    <2>2. u \in Nat \ {0} /\ MmrSize(r) \in 0 .. u - 1
        BY <1>3, <2>1, PeaksSplit, Zenon
    <2>3. MmrSize(P(i) + r) = u + MmrSize(r) /\ PeakPositions(r) \in Seq(Nat)
        BY <1>3, <2>1, PeaksSplit, Zenon
    <2>4. /\ r = 0 => PeakPositions(P(i) + r) = <<u>>
          /\ r # 0 => PeakPositions(P(i) + r) = <<u>> \o MovedPeaks(u, PeakPositions(r))
        BY <1>3, <2>1, PeaksSplit, Zenon
    <2> QED
        BY <2>2, <2>3, <2>4 DEF p
<1>5. r < P(MaxHeight + 1)
    <2>1. P(i) + r < P(MaxHeight + 1) /\ P(MaxHeight + 1) \in Nat
        <3>1. r \in 0 .. P(i) - 1
            BY <1>2 DEF p
        <3>2. P(i) + r < P(MaxHeight + 1)
            BY <3>1, PeaksAside, Zenon
        <3> QED
            BY <3>2, Heights
    <2>2. p + r < P(MaxHeight + 1)
        BY <2>1 DEF p
    <2> QED
        BY <1>1, <1>2, <2>1, <2>2
<1> QED
    BY <1>1, <1>2, <1>3, <1>4, <1>5 DEF p

(* From the first peak on, Python lists the peaks of a forest of m leaves, *)
(* wherever it stands and whatever is listed already.                      *)
ListsPeaks(m) ==
    \A i \in 0 .. MaxHeight, t \in Nat : \A a \in Seq(Nat) :
        P(i) <= m /\ m < P(i + 1) =>
            More(t + MmrSize(m))[<<i, Beside(t, i), Append(a, Beside(t, i))>>]
                = a \o Back(t, PeakPositions(m))

(* It does if it does so right of the highest tree. *)
LEMMA PyListsNext ==
    ASSUME NEW m \in Nat, \A r \in Nat : r < m => ListsPeaks(r),
           NEW i \in 0 .. MaxHeight, P(i) <= m, m < P(i + 1),
           NEW t \in Nat, NEW a \in Seq(Nat)
    PROVE  More(t + MmrSize(m))[<<i, Beside(t, i), Append(a, Beside(t, i))>>]
               = a \o Back(t, PeakPositions(m))
<1>0. i \in 0 .. MaxBits /\ i \in Nat /\ MaxHeight \in Nat
    BY Heights
<1>1. PICK r, u :
          /\ u = 2 * P(i) - 1 /\ P(i) \in Nat /\ r < P(MaxHeight + 1)
          /\ r \in Nat /\ r < m /\ r < P(i)
          /\ u \in Nat \ {0} /\ MmrSize(r) \in 0 .. u - 1
          /\ MmrSize(m) = u + MmrSize(r) /\ PeakPositions(r) \in Seq(Nat)
          /\ r = 0 => PeakPositions(m) = <<u>>
          /\ r # 0 => PeakPositions(m) = <<u>> \o MovedPeaks(u, PeakPositions(r))
    BY TakesHighestTree
<1>2. u \in Nat /\ t + u \in Nat /\ Beside(t, i) = t + u - 1 /\ Beside(t, i) \in Nat
    <2>1. u = 2 * P(i) - 1
        BY <1>1
    <2>2. /\ 2 * P(i) - 1 \in Nat /\ t + (2 * P(i) - 1) \in Nat
          /\ Beside(t, i) = t + (2 * P(i) - 1) - 1 /\ Beside(t, i) \in Nat
        BY BesideNodes, Zenon
    <2> QED
        BY <2>1, <2>2, Zenon
<1> DEFINE e == Beside(t, i)
           n == t + MmrSize(m)
           b == Append(a, e)
           right == Py!get_right_peak(i, e, n)
<1>3. e = t + u - 1 /\ e \in Nat /\ e + 1 = t + u /\ t + u \in Nat
    <2> HIDE DEF e
    <2>1. e = t + u - 1 /\ e \in Nat /\ u \in Nat
        BY <1>2 DEF e
    <2> QED
        BY <2>1
<1>4. n = (t + u) + MmrSize(r) /\ n \in Nat /\ t + u \in 0 .. n
    <2> DEFINE v == MmrSize(r)
    <2>1. v \in Nat /\ n = t + (u + v) /\ u \in Nat
        BY <1>1
    <2> HIDE DEF v, n
    <2> QED
        BY <2>1 DEF v
<1>5. b \in Seq(Nat)
    <2> HIDE DEF e
    <2> QED
        BY <1>3
<1> HIDE DEF n
<1>6. More(n)[<<i, e, b>>] = IF i > 0 /\ right[1] >= 0
                             THEN More(n)[<<right[1], right[2], Append(b, right[2])>>] ELSE b
    <2>1. n \in Int /\ e \in Nat
        BY <1>3, <1>4
    <2>2. More(n)[<<i, e, b>>] = GoesOn(n, i, b, right)
        <3> HIDE DEF e, b
        <3> QED
            BY <1>0, <1>5, <2>1, MoreEquation
    <2> QED
        BY <2>2 DEF GoesOn
<1>7. right = Down(n)[<<i, Beside(t + u, i)>>]
    <2>1. n \in Int /\ e \in Nat
        BY <1>3, <1>4
    <2> HIDE DEF e
    <2>2. right = Down(n)[<<i, Beside(e + 1, i)>>]
        BY <1>0, <2>1, PyRightPeak
    <2> QED
        BY <1>3, <2>2
<1> HIDE DEF right, e
<1>8. CASE r = 0
    <2>1. n = t + u
        BY <1>3, <1>4, <1>8, EmptyForest
    <2>2. right = <<-1, 0>>
        BY <1>4, <1>7, <2>1, DownLandsNowhere
    <2>3. More(n)[<<i, e, b>>] = b
        BY <1>6, <2>2
    <2>4. Back(t, PeakPositions(m)) = <<e>>
        <3>1. Back(t, <<u>>) = <<t + u - 1>>
            BY DEF Back
        <3> QED
            BY <1>1, <1>3, <1>8, <3>1
    <2>5. b = a \o <<e>>
        BY <1>3, AppendProperties
    <2> QED
        BY <2>3, <2>4, <2>5 DEF n, e, b
<1>9. CASE r # 0
    <2>1. PICK g \in 0 .. MaxHeight : P(g) <= r /\ r < P(g + 1)
        BY <1>1, <1>9, HighestPeak
    <2>2. g < i /\ g \in Nat
        <3>1. g \in 0 .. MaxBits /\ P(g) \in Nat /\ g \in Nat
            BY BesideNodes, Zenon
        <3>2. P(g) < P(i)
            <4>1. r \in Nat /\ r < P(i) /\ P(i) \in Nat
                BY <1>1
            <4> QED
                BY <2>1, <3>1, <4>1
        <3> QED
            BY <1>0, <3>1, <3>2, PowOrder
    <2>3. right = <<g, Beside(t + u, g)>>
        <3>1. FitsBest(MmrSize(r), g)
            BY <1>1, <2>1, HighestFits
        <3>2. n - (t + u) = MmrSize(r)
            <4> DEFINE v == MmrSize(r)
            <4>1. v \in Nat /\ n = (t + u) + v
                BY <1>1, <1>4
            <4> HIDE DEF v
            <4> QED
                BY <1>3, <4>1 DEF v
        <3>3. i \in g .. MaxHeight
            BY <1>0, <2>2
        <3> QED
            BY <1>4, <1>7, <3>1, <3>2, <3>3, DownLands
    <2> DEFINE w == Beside(t + u, g)
    <2>4. More(n)[<<i, e, b>>] = More(n)[<<g, w, Append(b, w)>>]
        <3>1. i > 0 /\ right[1] >= 0 /\ right[1] = g /\ right[2] = w
            BY <1>0, <2>2, <2>3
        <3> HIDE DEF w, b
        <3> QED
            BY <1>6, <3>1
    <2>5. ListsPeaks(r)
        BY <1>1
    <2>6. More(n)[<<g, w, Append(b, w)>>] = b \o Back(t + u, PeakPositions(r))
        <3> HIDE DEF b
        <3> QED
            BY <1>3, <1>4, <1>5, <2>1, <2>5 DEF ListsPeaks
    <2>7. b \o Back(t + u, PeakPositions(r)) = a \o Back(t, PeakPositions(m))
        <3>1. Append(a, t + u - 1) \o Back(t + u, PeakPositions(r))
                = a \o Back(t, <<u>> \o MovedPeaks(u, PeakPositions(r)))
            <4>1. u \in Nat \ {0} /\ PeakPositions(r) \in Seq(Nat)
                BY <1>1
            <4> QED
                BY <4>1, BackSequence
        <3> QED
            BY <1>1, <1>3, <1>9, <3>1
    <2> QED
        BY <2>4, <2>6, <2>7 DEF n, e, b
<1> QED
    BY <1>8, <1>9

(* So it does for every forest. *)
LEMMA PyListsPeaks == \A k \in Nat : ListsPeaks(k)
<1> DEFINE Bad == {m \in Nat : ~ListsPeaks(m)}
<1>1. ASSUME NEW m \in Bad, \A r \in Bad : m <= r
      PROVE  FALSE
    <2>1. m \in Nat /\ ~ListsPeaks(m)
        OBVIOUS
    <2>2. \A r \in Nat : r < m => ListsPeaks(r)
        <3>1. ASSUME NEW r \in Nat, r < m
              PROVE  ListsPeaks(r)
            <4>1. ~(m <= r)
                BY <2>1, <3>1
            <4> QED
                BY <1>1, <4>1
        <3> QED
            BY <3>1
    <2>3. ListsPeaks(m)
        BY <2>1, <2>2, PyListsNext DEF ListsPeaks
    <2> QED
        BY <2>1, <2>3
<1>2. Bad \in SUBSET Nat
    OBVIOUS
<1> HIDE DEF Bad
<1>3. Bad = {}
    BY <1>1, <1>2, SmallestExists
<1> QED
    BY <1>3 DEF Bad

(* Python's get_peaks lists the peaks of the forest, counted from 0.       *)
LEMMA PyPeaks ==
    ASSUME NEW k \in Nat \ {0}, k < P(MaxHeight + 1)
    PROVE  Py!py_get_peaks(MmrSize(k)) = Back(0, PeakPositions(k))
<1> DEFINE n == MmrSize(k)
           q == PeakPositions(k)
<1>1. PICK j \in 0 .. MaxHeight : P(j) <= k /\ k < P(j + 1)
    BY HighestPeak
<1>2. n \in Nat /\ FitsBest(n, j) /\ P(j) \in Nat \ {0}
    BY <1>1, HighestFits, ForestFinite, Heights
<1> DEFINE e == Beside(0, j)
<1>3. e = 2 * P(j) - 2 /\ e \in Nat
    BY <1>2 DEF Beside
<1>4. Py!left_peak_height_pos(n) = <<j, e>>
    <2> HIDE DEF n, e
    <2> QED
        BY <1>2, <1>3, PyFirstPeak
<1>5. Py!py_get_peaks(n) = More(n)[<<j, e, <<e>>>>]
    <2> HIDE DEF n, e
    <2>1. Py!py_get_peaks(n) = More(n)[<<Py!left_peak_height_pos(n)[1], Py!left_peak_height_pos(n)[2],
                                        <<Py!left_peak_height_pos(n)[2]>>>>]
        BY DEF Py!py_get_peaks, More, MoreFrom
    <2> QED
        BY <1>4, <2>1
<1>6. More(0 + n)[<<j, e, Append(<<>>, e)>>] = <<>> \o Back(0, q)
    <2>1. <<>> \in Seq(Nat) /\ 0 \in Nat
        OBVIOUS
    <2>2. ListsPeaks(k)
        BY PyListsPeaks
    <2> QED
        BY <1>1, <2>1, <2>2, Zenon DEF ListsPeaks
<1>7. Append(<<>>, e) = <<e>> /\ 0 + n = n
    <2> HIDE DEF n, e
    <2> QED
        BY <1>2, <1>3
<1>8. <<>> \o Back(0, q) = Back(0, q)
    <2>1. q \in Seq(Nat)
        BY PeaksInOrder
    <2>2. Back(0, q) = [i \in 1 .. Len(q) |-> 0 + q[i] - 1]
        <3>1. DOMAIN q = 1 .. Len(q)
            <4> HIDE DEF q
            <4> QED
                BY <2>1
        <3> QED
            BY <3>1 DEF Back
    <2>3. Back(0, q) \in Seq(Int)
        <3> DEFINE c == Len(q)
        <3>1. c \in Nat /\ \A i \in 1 .. c : 0 + q[i] - 1 \in Int
            <4> HIDE DEF q
            <4> QED
                BY <2>1
        <3>2. Back(0, q) \in [1 .. c -> Int]
            BY <2>2, <3>1
        <3> HIDE DEF c
        <3> QED
            BY <3>1, <3>2
    <2> DEFINE z == Back(0, q)
    <2> HIDE DEF z
    <2>4. z \in Seq(Int)
        BY <2>3 DEF z
    <2>5. <<>> \o z = z
        BY <2>4, ConcatEmptySeq
    <2> QED
        BY <2>5 DEF z
<1> QED
    BY <1>5, <1>6, <1>7, <1>8

(* The position after a forest is one whose height the tools compute.      *)
LEMMA NextFits ==
    ASSUME NEW k \in Nat \ {0}, k < P(MaxHeight + 1)
    PROVE  MmrSize(k) + 1 < P(MaxBits)
<1>1. PICK j \in 0 .. MaxHeight : P(j) <= k /\ k < P(j + 1)
    BY HighestPeak
<1>2. /\ MaxHeight \in Nat /\ MaxBits \in Nat /\ MaxHeight + 2 <= MaxBits
      /\ P(j) \in Nat \ {0} /\ P(j + 1) = 2 * P(j) /\ P(j + 2) = 2 * P(j + 1)
    <2>1. \A h \in 0 .. MaxHeight + 1 : P(h + 1) = 2 * P(h)
        BY Heights
    <2>2. j \in 0 .. MaxHeight + 1 /\ j + 1 \in 0 .. MaxHeight + 1 /\ (j + 1) + 1 = j + 2
          /\ j \in 0 .. MaxHeight + 2
        BY Heights
    <2>3. P((j + 1) + 1) = 2 * P(j + 1)
        BY <2>1, <2>2, Zenon
    <2> QED
        BY <2>1, <2>2, <2>3, Heights
<1> DEFINE r == k - P(j)
           s == 2 * P(j) - 1
<1>3. r \in 0 .. P(j) - 1 /\ P(j) + r = k
    BY <1>1, <1>2
<1>4. MmrSize(k) = s + MmrSize(r) /\ MmrSize(r) \in 0 .. s - 1
    <2> HIDE DEF r
    <2>1. MmrSize(P(j) + r) = s + MmrSize(r) /\ MmrSize(r) \in 0 .. s - 1
        BY <1>3, PeaksSplit
    <2> QED
        BY <1>3, <2>1
<1>5. P(j + 2) <= P(MaxBits)
    <2>1. j + 2 \in 0 .. MaxBits /\ MaxBits \in 0 .. MaxBits /\ (j + 2 < MaxBits \/ j + 2 = MaxBits)
        BY <1>2
    <2>2. j + 2 < MaxBits => P(j + 2) < P(MaxBits)
        BY <2>1, PowOrder
    <2>3. P(j + 2) \in Nat /\ P(MaxBits) \in Nat
        BY <2>1, PowTypes
    <2> QED
        BY <2>1, <2>2, <2>3
<1>6. P(j + 2) \in Nat /\ P(MaxBits) \in Nat /\ P(j + 2) = 4 * P(j)
    <2>1. MaxBits \in 0 .. MaxBits
        BY <1>2
    <2> QED
        BY <1>2, <2>1, PowTypes
<1> DEFINE a == MmrSize(r)
           p == P(j)
           q == P(MaxBits)
<1>7. MmrSize(k) = (2 * p - 1) + a /\ a \in 0 .. (2 * p - 1) - 1 /\ p \in Nat \ {0} /\ 4 * p <= q /\ q \in Nat
    BY <1>2, <1>4, <1>5, <1>6
<1> HIDE DEF a, p, q
<1>8. (2 * p - 1) + a + 1 < q
    BY <1>7
<1> QED
    BY <1>7, <1>8 DEF q

-----------------------------------------------------------------------------
(* What the tools build.                                                   *)

(* The hashes an MMR of the tools knows while a leaf is added, after each  *)
(* number k up to h of merges.                                             *)
Left(leaf, k) == leaf + k - 2 * 2^(k - 1)
Right(leaf, k) == Left(leaf, k) + Py!sibling_offset(k - 1)

Parents(known, leaf, k) ==
    Py!WithHash(known, leaf + k, Py!hash_pair(known[Left(leaf, k)], known[Right(leaf, k)]))

Adds(f, mmr, elem, h) ==
    f = [k \in 0 .. h |-> IF k = 0 THEN Py!WithHash(mmr.pos_hash, mmr.last_pos + 1, elem)
                          ELSE Parents(f[k - 1], mmr.last_pos + 1, k)]

(* These hashes are the only ones, and one merge more extends them.        *)
LEMMA AddsOnce ==
    ASSUME NEW mmr, NEW elem, NEW h \in Nat, NEW f, NEW g,
           Adds(f, mmr, elem, h), Adds(g, mmr, elem, h)
    PROVE  f = g
<1> DEFINE Bad == {k \in 0 .. h : f[k] # g[k]}
<1>1. f = [k \in 0 .. h |-> f[k]] /\ g = [k \in 0 .. h |-> g[k]]
    BY DEF Adds
<1>2. ASSUME NEW m \in 0 .. h, \A k \in 0 .. h : k < m => f[k] = g[k]
      PROVE  f[m] = g[m]
    <2>1. m # 0 => m - 1 \in 0 .. h /\ m - 1 < m
        OBVIOUS
    <2>2. m # 0 => f[m - 1] = g[m - 1]
        BY <1>2, <2>1
    <2>3. f[m] = IF m = 0 THEN Py!WithHash(mmr.pos_hash, mmr.last_pos + 1, elem)
                 ELSE Parents(f[m - 1], mmr.last_pos + 1, m)
        BY DEF Adds
    <2>4. g[m] = IF m = 0 THEN Py!WithHash(mmr.pos_hash, mmr.last_pos + 1, elem)
                 ELSE Parents(g[m - 1], mmr.last_pos + 1, m)
        BY DEF Adds
    <2> QED
        BY <2>2, <2>3, <2>4
<1>3. Bad = {}
    <2> SUFFICES ASSUME Bad # {}
                 PROVE  FALSE
        OBVIOUS
    <2>1. Bad \in SUBSET Nat
        OBVIOUS
    <2>2. PICK m \in Bad : \A k \in Bad : m <= k
        <3> HIDE DEF Bad
        <3> QED
            BY <2>1, SmallestExists
    <2>3. \A k \in 0 .. h : k < m => f[k] = g[k]
        BY <2>1, <2>2
    <2> QED
        BY <1>2, <2>2, <2>3
<1> QED
    BY <1>1, <1>3

(* One merge more is one node more.                                        *)
LEMMA AddsMore ==
    ASSUME NEW mmr, NEW elem, NEW h \in Nat, NEW f, Adds(f, mmr, elem, h)
    PROVE  \E g : /\ Adds(g, mmr, elem, h + 1)
                  /\ g[h + 1] = Parents(f[h], mmr.last_pos + 1, h + 1)
<1> DEFINE g == [k \in 0 .. h + 1 |-> IF k = h + 1 THEN Parents(f[h], mmr.last_pos + 1, k) ELSE f[k]]
           start == Py!WithHash(mmr.pos_hash, mmr.last_pos + 1, elem)
           leaf == mmr.last_pos + 1
<1>1. h + 1 \in 0 .. h + 1 /\ g[h + 1] = Parents(f[h], leaf, h + 1)
    OBVIOUS
<1>2. \A k \in 0 .. h : k \in 0 .. h + 1 /\ g[k] = f[k]
    OBVIOUS
<1>3. \A k \in 0 .. h : f[k] = IF k = 0 THEN start ELSE Parents(f[k - 1], leaf, k)
    BY DEF Adds
<1>4. g = [k \in 0 .. h + 1 |-> g[k]]
    OBVIOUS
<1> HIDE DEF g
<1>5. ASSUME NEW k \in 0 .. h + 1
      PROVE  g[k] = IF k = 0 THEN start ELSE Parents(g[k - 1], leaf, k)
    <2> HIDE DEF start, leaf
    <2>1. CASE k = h + 1
        <3>1. k # 0 /\ k - 1 = h /\ h \in 0 .. h
            BY <2>1
        <3>2. g[k - 1] = f[h]
            BY <1>2, <3>1
        <3> QED
            BY <1>1, <2>1, <3>1, <3>2
    <2>2. CASE k # h + 1
        <3>1. k \in 0 .. h /\ (k # 0 => k - 1 \in 0 .. h)
            BY <2>2
        <3> QED
            BY <1>2, <1>3, <3>1
    <2> QED
        BY <2>1, <2>2
<1>6. Adds(g, mmr, elem, h + 1)
    BY <1>4, <1>5 DEF Adds
<1> QED
    BY <1>1, <1>6

(* Before the first merge there is the leaf.                               *)
LEMMA AddsLeaf ==
    ASSUME NEW mmr, NEW elem
    PROVE  \E f : /\ Adds(f, mmr, elem, 0)
                  /\ f[0] = Py!WithHash(mmr.pos_hash, mmr.last_pos + 1, elem)
<1> DEFINE f == [k \in 0 .. 0 |-> Py!WithHash(mmr.pos_hash, mmr.last_pos + 1, elem)]
<1>1. \A k \in 0 .. 0 : k = 0
    OBVIOUS
<1>2. Adds(f, mmr, elem, 0)
    BY <1>1 DEF Adds
<1> QED
    BY <1>2

(* Every merge so far was due: the next position was higher than the last. *)
Raises(leaf, h) ==
    \A j \in 0 .. h - 1 :
        Py!tree_pos_height(leaf + j + 1) \in Int /\ Py!tree_pos_height(leaf + j + 1) > j

(* The tools merge as often as it is due.                                  *)
LEMMA MergesAre ==
    ASSUME NEW leaf \in Int, NEW h \in 0 .. MaxBits, Raises(leaf, h),
           Py!tree_pos_height(leaf + h + 1) \in Int, Py!tree_pos_height(leaf + h + 1) <= h
    PROVE  Py!merges_after(leaf) = h
<1> DEFINE Height(j) == Py!tree_pos_height(leaf + j + 1)
           Ends(k) == Height(k) <= k /\ \A j \in 0 .. (k - 1) : Height(j) > j
<1>1. Py!merges_after(leaf) = CHOOSE k \in 0 .. MaxBits : Ends(k)
    BY DEF Py!merges_after
<1>2. /\ \A j \in 0 .. h - 1 : Height(j) \in Int /\ Height(j) > j
      /\ Height(h) \in Int /\ Height(h) <= h
    BY DEF Raises
<1> HIDE DEF Height
<1>3. Ends(h)
    BY <1>2
<1>4. ASSUME NEW k \in 0 .. MaxBits, Ends(k)
      PROVE  k = h
    <2>0. MaxBits \in Nat
        BY PowTypes
    <2>1. ~(k < h)
        <3> SUFFICES ASSUME k < h PROVE FALSE
            OBVIOUS
        <3>1. k \in 0 .. h - 1
            BY <2>0
        <3>2. Height(k) \in Int /\ Height(k) > k /\ Height(k) <= k
            BY <1>2, <1>4, <3>1
        <3> QED
            BY <3>1, <3>2
    <2>2. ~(h < k)
        <3> SUFFICES ASSUME h < k PROVE FALSE
            OBVIOUS
        <3>1. h \in 0 .. k - 1
            BY <2>0
        <3>2. Height(h) \in Int /\ Height(h) > h /\ Height(h) <= h
            BY <1>2, <1>4, <3>1
        <3> QED
            BY <3>1, <3>2
    <2> QED
        BY <2>0, <2>1, <2>2
<1> HIDE DEF Ends
<1> QED
    BY <1>1, <1>3, <1>4

(* So adding a leaf makes these nodes.                                     *)
LEMMA AddIs ==
    ASSUME NEW mmr, NEW elem, NEW h \in Nat, Py!merges_after(mmr.last_pos + 1) = h,
           NEW f, Adds(f, mmr, elem, h)
    PROVE  Py!add(mmr, elem) = Py!NewMmr(f[h], (mmr.last_pos + 1) + h)
<1> DEFINE after == CHOOSE g : Adds(g, mmr, elem, h)
<1>1. after = f
    BY AddsOnce
<1>2. Py!add(mmr, elem) = Py!NewMmr(after[h], (mmr.last_pos + 1) + h)
    BY DEF Py!add, Adds, Parents, Left, Right
<1> QED
    BY <1>1, <1>2

(* The MMR of the tools when all hashes, or those from an index on, have   *)
(* been added: what the fold of extend_mmr_poseidon is for a set of        *)
(* indices.                                                                *)
FoldsFrom(n, f, hashes, base) ==
    f = [s \in SUBSET (1 .. n) |->
            IF s = {} THEN base ELSE Py!add(f[s \ {Min(s)}], hashes[Min(s)])]

Folded(n, hashes, base) == CHOOSE f : FoldsFrom(n, f, hashes, base)

(* The least element of a set of numbers.                                  *)
LEMMA MinIs ==
    ASSUME NEW s \in SUBSET Nat, NEW m \in s, \A y \in s : m <= y
    PROVE  Min(s) = m
<1>1. \A z \in s : (\A y \in s : z <= y) => z = m
    <2> SUFFICES ASSUME NEW z \in s, \A y \in s : z <= y PROVE z = m
        OBVIOUS
    <2>1. z <= m /\ m <= z /\ z \in Nat /\ m \in Nat
        OBVIOUS
    <2> QED
        BY <2>1
<1> QED
    BY <1>1 DEF Min

(* There is such a fold.                                                   *)
LEMMA FoldExists ==
    ASSUME NEW n \in Nat, NEW hashes, NEW base
    PROVE  \E f : FoldsFrom(n, f, hashes, base)
<1> DEFINE Upto(f, k) ==
               f = [s \in SUBSET ((n - k) + 1 .. n) |->
                       IF s = {} THEN base ELSE Py!add(f[s \ {Min(s)}], hashes[Min(s)])]
           Bad == {k \in 0 .. n : ~\E f : Upto(f, k)}
<1>1. \E f : Upto(f, 0)
    <2> DEFINE f == [s \in SUBSET ((n - 0) + 1 .. n) |-> base]
    <2>1. \A s \in SUBSET ((n - 0) + 1 .. n) : s = {}
        OBVIOUS
    <2>2. f = [s \in SUBSET ((n - 0) + 1 .. n) |->
                       IF s = {} THEN base ELSE Py!add(f[s \ {Min(s)}], hashes[Min(s)])]
        BY <2>1
    <2>3. Upto(f, 0)
        BY <2>2
    <2> QED
        BY <2>3
<1>2. ASSUME NEW k \in 0 .. n, k # 0, NEW f, Upto(f, k - 1)
      PROVE  \E g : Upto(g, k)
    <2> DEFINE i == (n - k) + 1
               S == i .. n
               T == i + 1 .. n
               Value(g, s) == IF s = {} THEN base ELSE Py!add(g[s \ {Min(s)}], hashes[Min(s)])
               g == [s \in SUBSET S |-> IF i \in s THEN Py!add(f[s \ {i}], hashes[i]) ELSE f[s]]
    <2>1. i \in Nat /\ i \in S /\ T = S \ {i} /\ S \in SUBSET Nat
        <3>1. i \in Nat /\ i <= n
            BY <1>2
        <3> HIDE DEF i
        <3> QED
            BY <3>1
    <2>2. f = [s \in SUBSET T |-> Value(f, s)]
        <3>1. (n - (k - 1)) + 1 = i + 1
            OBVIOUS
        <3> QED
            BY <1>2, <3>1
    <2>3. g = [s \in SUBSET S |-> g[s]]
        OBVIOUS
    <2>4. \A s \in SUBSET T : s \in SUBSET S /\ i \notin s /\ g[s] = f[s]
        BY <2>1
    <2>5. \A s \in SUBSET S : i \in s => g[s] = Py!add(f[s \ {i}], hashes[i])
        OBVIOUS
    <2> HIDE DEF g
    <2>6. ASSUME NEW s \in SUBSET S
          PROVE  g[s] = Value(g, s)
        <3>1. CASE i \in s
            <4>1. s \in SUBSET Nat /\ \A y \in s : i <= y
                BY <2>1
            <4>2. Min(s) = i
                <5> HIDE DEF i, S
                <5> QED
                    BY <3>1, <4>1, MinIs
            <4>3. s \ {i} \in SUBSET T
                BY <2>1
            <4> HIDE DEF i, S, T
            <4>4. g[s \ {i}] = f[s \ {i}] /\ s # {}
                BY <2>4, <3>1, <4>3
            <4> QED
                BY <2>5, <3>1, <4>2, <4>4
        <3>2. CASE i \notin s
            <4>1. s \in SUBSET T
                BY <2>1, <3>2
            <4> HIDE DEF i, S, T
            <4>2. g[s] = f[s] /\ f[s] = Value(f, s)
                BY <2>2, <2>4, <4>1
            <4>3. s \ {Min(s)} \in SUBSET T
                BY <4>1
            <4>4. f[s \ {Min(s)}] = g[s \ {Min(s)}]
                BY <2>4, <4>3
            <4> QED
                BY <4>2, <4>4
        <3> QED
            BY <3>1, <3>2
    <2>7. Upto(g, k)
        <3> HIDE DEF Value
        <3>1. g = [s \in SUBSET S |-> Value(g, s)]
            BY <2>3, <2>6
        <3> QED
            BY <3>1 DEF Value
    <2> QED
        BY <2>7
<1>3. Bad = {}
    <2> SUFFICES ASSUME Bad # {}
                 PROVE  FALSE
        OBVIOUS
    <2>1. Bad \in SUBSET Nat
        OBVIOUS
    <2>2. PICK m \in Bad : \A k \in Bad : m <= k
        <3> HIDE DEF Bad
        <3> QED
            BY <2>1, SmallestExists
    <2> HIDE DEF Upto
    <2>3. m # 0 /\ m \in 0 .. n
        BY <1>1, <2>2
    <2>4. m - 1 \in 0 .. n /\ ~(m <= m - 1)
        BY <2>3
    <2>5. \E f : Upto(f, m - 1)
        BY <2>2, <2>4
    <2> QED
        BY <1>2, <2>2, <2>3, <2>5
<1>4. \E f : Upto(f, n)
    <2> HIDE DEF Upto
    <2> QED
        BY <1>3
<1>5. (n - n) + 1 = 1
    OBVIOUS
<1> QED
    BY <1>4, <1>5 DEF FoldsFrom

(* Each index adds its hash to what the later ones made.                   *)
LEMMA FoldEquation ==
    ASSUME NEW n \in Nat, NEW hashes, NEW base
    PROVE  /\ Folded(n, hashes, base)[n + 1 .. n] = base
           /\ \A i \in 1 .. n :
                  Folded(n, hashes, base)[i .. n] =
                      Py!add(Folded(n, hashes, base)[i + 1 .. n], hashes[i])
<1> DEFINE f == Folded(n, hashes, base)
<1>1. FoldsFrom(n, f, hashes, base)
    BY FoldExists DEF Folded
<1> HIDE DEF f
<1>2. ASSUME NEW s \in SUBSET (1 .. n)
      PROVE  f[s] = IF s = {} THEN base ELSE Py!add(f[s \ {Min(s)}], hashes[Min(s)])
    BY <1>1 DEF FoldsFrom
<1>3. f[n + 1 .. n] = base
    <2>1. n + 1 .. n = {} /\ {} \in SUBSET (1 .. n)
        OBVIOUS
    <2> QED
        BY <1>2, <2>1
<1>4. ASSUME NEW i \in 1 .. n
      PROVE  f[i .. n] = Py!add(f[i + 1 .. n], hashes[i])
    <2> DEFINE s == i .. n
    <2>1. /\ s \in SUBSET (1 .. n) /\ s \in SUBSET Nat /\ i \in s /\ (\A y \in s : i <= y)
          /\ s \ {i} = i + 1 .. n /\ s # {}
        OBVIOUS
    <2> HIDE DEF s
    <2>2. Min(s) = i
        BY <2>1, MinIs
    <2>3. f[s] = Py!add(f[s \ {Min(s)}], hashes[Min(s)])
        BY <1>2, <2>1
    <2>4. f[s] = Py!add(f[i + 1 .. n], hashes[i])
        BY <2>1, <2>2, <2>3
    <2> QED
        BY <2>4 DEF s
<1> QED
    BY <1>3, <1>4 DEF f

(* What the tools know at the start: each peak at its position.            *)
PeakHashesAt(positions, peaks) ==
    [p \in Range(positions) |-> peaks[CHOOSE i \in DOMAIN peaks : positions[i] = p]]

(* The tools return the peaks, the root and the size after all hashes.     *)
LEMMA ExtendIs ==
    ASSUME NEW n \in Nat, NEW hashes, DOMAIN hashes = 1 .. n,
           NEW positions, NEW peaks, NEW last_pos, NEW base,
           base = Py!NewMmr(PeakHashesAt(positions, peaks), last_pos),
           NEW mmr, mmr = Folded(n, hashes, base)[1 .. n]
    PROVE  /\ Py!extend_mmr_poseidon(hashes, positions, peaks, last_pos).peaks = Py!mmr_get_peaks(mmr)
           /\ Py!extend_mmr_poseidon(hashes, positions, peaks, last_pos).root = Py!get_root(mmr)
           /\ Py!extend_mmr_poseidon(hashes, positions, peaks, last_pos).size = mmr.last_pos + 1
<1> DEFINE pos_hash == [p \in Py!ToSet(positions) |->
                           peaks[CHOOSE i \in DOMAIN peaks : positions[i] = p]]
           start == Py!NewMmr(pos_hash, last_pos)
           fold == Folded(n, hashes, start)[DOMAIN hashes]
<1>1. /\ Py!extend_mmr_poseidon(hashes, positions, peaks, last_pos).peaks = Py!mmr_get_peaks(fold)
      /\ Py!extend_mmr_poseidon(hashes, positions, peaks, last_pos).root = Py!get_root(fold)
      /\ Py!extend_mmr_poseidon(hashes, positions, peaks, last_pos).size = fold.last_pos + 1
    BY DEF Py!extend_mmr_poseidon, Py!FoldRight, Py!MapThenFoldSet, Py!Min, Min, Folded, FoldsFrom
<1>2. start = base
    <2>1. Py!ToSet(positions) = Range(positions)
        BY DEF Py!ToSet, Range
    <2> QED
        BY <2>1 DEF PeakHashesAt
<1> QED
    BY <1>1, <1>2

(* The fields of an MMR of the tools.                                      *)
LEMMA NewMmrIs ==
    ASSUME NEW pos_hash, NEW last_pos
    PROVE  Py!NewMmr(pos_hash, last_pos).pos_hash = pos_hash
           /\ Py!NewMmr(pos_hash, last_pos).last_pos = last_pos
BY DEF Py!NewMmr

(* An MMR of the tools knows the hash of a subtree.                        *)
KnowsTree(pos_hash, leaves, t) ==
    /\ PositionOf(t) - 1 \in DOMAIN pos_hash
    /\ pos_hash[PositionOf(t) - 1] = TreeHash(leaves)[t]

(* It ends with the k-th leaf and knows the peaks.                         *)
HoldsForest(mmr, leaves, k) ==
    /\ mmr.last_pos = MmrSize(k) - 1
    /\ \A t \in PeakTrees(k) : KnowsTree(mmr.pos_hash, leaves, t)

(* While leaf n is added: the old peaks, and the subtrees below height g   *)
(* that end with n.                                                        *)
KnowsBelow(pos_hash, leaves, n, g) ==
    /\ \A t \in PeakTrees(n - 1) : KnowsTree(pos_hash, leaves, t)
    /\ \A h \in 0 .. g - 1 : \A i \in Nat \ {0} :
           n = i * P(h) => KnowsTree(pos_hash, leaves, <<h, i>>)

(* The hash that is set is known then, and the others are as before.       *)
LEMMA WithHashIs ==
    ASSUME NEW pos_hash, NEW p, NEW v, NEW f, f = Py!WithHash(pos_hash, p, v)
    PROVE  /\ p \in DOMAIN f /\ f[p] = v
           /\ \A q \in DOMAIN pos_hash : q # p => q \in DOMAIN f /\ f[q] = pos_hash[q]
BY DEF Py!WithHash

(* The subtree of the next height is put at the next position.             *)
LEMMA KnowsNext ==
    ASSUME NEW leaves, NEW n \in Nat \ {0}, n < P(MaxHeight + 1),
           NEW g \in 0 .. MaxHeight, NEW i \in Nat \ {0}, n = i * P(g),
           NEW pos_hash, KnowsBelow(pos_hash, leaves, n, g)
    PROVE  KnowsBelow(Py!WithHash(pos_hash, MmrSize(n - 1) + g, TreeHash(leaves)[<<g, i>>]),
                      leaves, n, g + 1)
<1> DEFINE k == n - 1
           p == MmrSize(k) + g
           v == TreeHash(leaves)[<<g, i>>]
           f == Py!WithHash(pos_hash, p, v)
<1>1. k \in Nat /\ k < P(MaxHeight + 1) /\ MmrSize(k) \in Nat /\ P(MaxHeight + 1) \in Nat
    <2>1. k \in Nat /\ P(MaxHeight + 1) \in Nat
        BY Heights
    <2>2. MmrSize(k) \in Nat
        <3> HIDE DEF k
        <3> QED
            BY <2>1, ForestFinite
    <2> QED
        BY <2>1, <2>2
<1>2. /\ p \in DOMAIN f /\ f[p] = v
      /\ \A q \in DOMAIN pos_hash : q # p => q \in DOMAIN f /\ f[q] = pos_hash[q]
    <2> HIDE DEF p, v, f
    <2>1. f = Py!WithHash(pos_hash, p, v)
        BY DEF f
    <2> QED
        BY <2>1, WithHashIs
<1>3. ASSUME NEW h \in 0 .. MaxHeight, NEW j \in Nat \ {0}, n = j * P(h)
      PROVE  PositionOf(<<h, j>>) - 1 = MmrSize(k) + h
    <2>1. PositionOf(<<h, j>>) = MmrSize(k) + h + 1
        BY <1>3, PositionIsAt DEF At
    <2> HIDE DEF k
    <2> QED
        BY <1>1, <2>1
<1>4. ASSUME NEW t, KnowsTree(pos_hash, leaves, t), PositionOf(t) - 1 # p
      PROVE  KnowsTree(f, leaves, t)
    <2> HIDE DEF p, f
    <2> QED
        BY <1>2, <1>4 DEF KnowsTree
<1>5. ASSUME NEW t \in PeakTrees(k)
      PROVE  KnowsTree(f, leaves, t)
    <2>1. KnowsTree(pos_hash, leaves, t)
        BY DEF KnowsBelow
    <2>2. PICK h \in 0 .. MaxHeight, j \in Nat \ {0} : t = <<h, j>> /\ j * P(h) <= k
        <3> HIDE DEF k
        <3>1. /\ t = <<t[1], t[2]>> /\ t[1] \in 0 .. MaxHeight /\ t[2] \in Nat \ {0}
              /\ t[2] * P(t[1]) <= k
            BY <1>1, PeakTypes
        <3> QED
            BY <3>1
    <2>3. PositionOf(t) \in Nat /\ PositionOf(t) <= MmrSize(k)
        <3> HIDE DEF k
        <3>1. At(h, j) \in Nat \ {0} /\ At(h, j) <= MmrSize(k)
            BY <1>1, <2>2, AtBelow
        <3> QED
            BY <2>2, <3>1, PositionIsAt
    <2>4. PositionOf(t) - 1 # p
        <3> DEFINE m == MmrSize(k)
                   r == PositionOf(t)
        <3>1. m \in Nat /\ r \in Nat /\ r <= m
            BY <1>1, <2>3
        <3> HIDE DEF m, r
        <3>2. r - 1 # m + g
            BY <3>1
        <3> QED
            BY <3>2 DEF m, r
    <2> QED
        BY <1>4, <2>1, <2>4
<1>6. ASSUME NEW h \in 0 .. g, NEW j \in Nat \ {0}, n = j * P(h)
      PROVE  KnowsTree(f, leaves, <<h, j>>)
    <2>1. h \in 0 .. MaxHeight /\ g \in Nat /\ h \in Nat
        BY Heights
    <2>2. PositionOf(<<h, j>>) - 1 = MmrSize(k) + h
        BY <1>3, <1>6, <2>1
    <2>3. CASE h = g
        <3>1. j = i
            <4> DEFINE w == P(g)
            <4>1. w \in Nat \ {0} /\ j * w = i * w
                BY <1>6, <2>3, Heights
            <4> HIDE DEF w
            <4> QED
                BY <4>1, Cancels
        <3> HIDE DEF f, v
        <3> QED
            BY <1>2, <2>2, <2>3, <3>1 DEF KnowsTree, v
    <2>4. CASE h # g
        <3>1. h \in 0 .. g - 1
            BY <2>1, <2>4
        <3>2. KnowsTree(pos_hash, leaves, <<h, j>>)
            BY <1>6, <3>1 DEF KnowsBelow
        <3>3. PositionOf(<<h, j>>) - 1 # p
            <4> DEFINE m == MmrSize(k)
            <4>1. m \in Nat
                BY <1>1
            <4> HIDE DEF m
            <4>2. m + h # m + g
                BY <2>1, <2>4, <4>1
            <4> QED
                BY <2>2, <4>2 DEF m
        <3> QED
            BY <1>4, <3>2, <3>3
    <2> QED
        BY <2>3, <2>4
<1>7. (g + 1) - 1 = g
    BY Heights
<1> HIDE DEF f
<1>8. KnowsBelow(f, leaves, n, g + 1)
    BY <1>5, <1>6, <1>7 DEF KnowsBelow
<1> QED
    BY <1>8 DEF f

(* A subtree that is no leaf is hashed of its two halves.                  *)
LEMMA TreeOfHalves ==
    ASSUME NEW leaves, NEW m \in Nat \ {0}
    PROVE  \A h \in Nat : h # 0 =>
               TreeHash(leaves)[<<h, m>>] = <<TreeHash(leaves)[<<h - 1, 2 * m - 1>>],
                                              TreeHash(leaves)[<<h - 1, 2 * m>>]>>
<1> SUFFICES ASSUME NEW h \in Nat, h # 0
             PROVE  TreeHash(leaves)[<<h, m>>] = <<TreeHash(leaves)[<<h - 1, 2 * m - 1>>],
                                                   TreeHash(leaves)[<<h - 1, 2 * m>>]>>
    OBVIOUS
<1>1. h # 0 => TreeHash(leaves)[<<h, m>>] = <<TreeHash(leaves)[<<h - 1, 2 * m - 1>>],
                                              TreeHash(leaves)[<<h - 1, 2 * m>>]>>
    BY TreeEquation, SMTT(60)
<1> QED
    BY <1>1

(* Two siblings that are known make their parent, at the next position.    *)
LEMMA ParentKnown ==
    ASSUME NEW leaves, NEW n \in Nat \ {0}, n < P(MaxHeight + 1),
           NEW g \in 0 .. MaxHeight, NEW i \in Nat \ {0}, n = i * P(g), ~Odd(i),
           NEW pos_hash, KnowsBelow(pos_hash, leaves, n, g + 1)
    PROVE  /\ g + 1 \in 0 .. MaxHeight
           /\ \E m \in Nat \ {0} : n = m * P(g + 1)
           /\ KnowsBelow(Parents(pos_hash, MmrSize(n - 1), g + 1), leaves, n, g + 2)
<1> DEFINE k == n - 1
           size == MmrSize(k)
           l == At(g, i - 1)
           r == At(g, i)
<1>1. /\ g + 1 \in 0 .. MaxHeight
      /\ size + g + 2 - P(g + 1) = l
    <2>1. /\ g + 1 \in 0 .. MaxHeight
          /\ MmrSize(n - 1) + g + 2 - P(g + 1) = At(g, i - 1)
        BY ParentIsNext
    <2> QED
        BY <2>1
<1>2. PICK m \in Nat \ {0} : i = 2 * m /\ n = m * P(g + 1) /\ Odd(i - 1)
    BY ParentIsNext
<1>3. /\ P(g) \in Nat \ {0} /\ P(g + 1) = 2 * P(g) /\ P(MaxHeight + 1) \in Nat /\ g \in Nat
      /\ 2^g = P(g) /\ MaxHeight \in Nat
    BY Heights, PowersAgree
<1>4. size \in Nat /\ k \in Nat
    <2>1. k \in Nat
        OBVIOUS
    <2> HIDE DEF k
    <2> QED
        BY <2>1, ForestFinite
<1>5. r = size + g + 1
    BY DEF At
<1> HIDE DEF l, r, size
<1>6. Left(size, g + 1) = l - 1 /\ Right(size, g + 1) = r - 1
    <2>1. (g + 1) - 1 = g
        BY <1>3
    <2> DEFINE q == P(g)
    <2>2. /\ Left(size, g + 1) = size + (g + 1) - 2 * q
          /\ Right(size, g + 1) = Left(size, g + 1) + (2 * q - 1)
        BY <1>3, <2>1 DEF Left, Right, Py!sibling_offset
    <2>3. q \in Nat /\ size + g + 2 - 2 * q = l
        BY <1>1, <1>3
    <2> HIDE DEF q
    <2> QED
        BY <1>3, <1>4, <1>5, <2>2, <2>3
<1>7. KnowsTree(pos_hash, leaves, <<g, i>>)
    <2>1. g \in 0 .. (g + 1) - 1
        BY <1>3
    <2> QED
        BY <2>1 DEF KnowsBelow
<1>8. KnowsTree(pos_hash, leaves, <<g, i - 1>>)
    <2> DEFINE j == i - 1
    <2>1. j \in Nat \ {0} /\ j \in Int /\ j >= 1 /\ j + 1 = i /\ Odd(j)
        BY <1>2
    <2>2. j * P(g) <= k /\ k < (j + 1) * P(g) /\ k < P(MaxHeight + 1)
        <3> DEFINE p == P(g)
                   a == j * p
        <3>1. p \in Nat \ {0} /\ i * p = a + p /\ a \in Int
            <4>1. p \in Nat \ {0}
                BY <1>3
            <4> HIDE DEF p
            <4>2. i * p = a + p /\ a \in Int
                BY <2>1, <4>1
            <4> QED
                BY <4>1, <4>2
        <3>2. n = i * p
            OBVIOUS
        <3> HIDE DEF p, a, j
        <3>3. a <= k /\ k < i * p /\ k < P(MaxHeight + 1)
            BY <1>3, <3>1, <3>2
        <3> QED
            BY <2>1, <3>3 DEF a, p
    <2> HIDE DEF j, k
    <2>3. <<g, j>> \in PeakTrees(k)
        BY <1>4, <2>1, <2>2, PeakIff DEF Odd
    <2> QED
        BY <2>3 DEF KnowsBelow, j, k
<1>9. /\ pos_hash[l - 1] = TreeHash(leaves)[<<g, i - 1>>]
      /\ pos_hash[r - 1] = TreeHash(leaves)[<<g, i>>]
    BY <1>7, <1>8, PositionIsAt DEF KnowsTree, l, r
<1>10. TreeHash(leaves)[<<g + 1, m>>] = <<TreeHash(leaves)[<<g, i - 1>>], TreeHash(leaves)[<<g, i>>]>>
    <2>1. g + 1 \in Nat /\ g + 1 # 0 /\ (g + 1) - 1 = g /\ 2 * m - 1 = i - 1 /\ 2 * m = i
        BY <1>2, <1>3
    <2> DEFINE T == TreeHash(leaves)
    <2>2. \A h \in Nat : h # 0 => T[<<h, m>>] = <<T[<<h - 1, 2 * m - 1>>], T[<<h - 1, 2 * m>>]>>
        BY TreeOfHalves, Zenon
    <2> HIDE DEF T
    <2> QED
        BY <2>1, <2>2 DEF T
<1>11. Parents(pos_hash, size, g + 1) =
           Py!WithHash(pos_hash, size + (g + 1), TreeHash(leaves)[<<g + 1, m>>])
    BY <1>6, <1>9, <1>10 DEF Parents, Py!hash_pair
<1>12. KnowsBelow(Py!WithHash(pos_hash, size + (g + 1), TreeHash(leaves)[<<g + 1, m>>]),
                  leaves, n, (g + 1) + 1)
    BY <1>1, <1>2, KnowsNext DEF size
<1>13. (g + 1) + 1 = g + 2
    BY <1>3
<1> QED
    BY <1>1, <1>2, <1>11, <1>12, <1>13 DEF size

(* After j merges the leaf n and its ancestors up to height j are there,   *)
(* and each merge was due.                                                 *)
Merged(mmr, leaves, n, j) ==
    \E i \in Nat \ {0} : \E f :
        /\ n = i * P(j)
        /\ Adds(f, mmr, leaves[n], j)
        /\ Raises(MmrSize(n - 1), j)
        /\ KnowsBelow(f[j], leaves, n, j + 1)

(* The next position is within the bounds of the tools. *)
LEMMA NextInBounds ==
    ASSUME NEW n \in Nat \ {0}, n < P(MaxHeight + 1),
           NEW g \in 0 .. MaxHeight, NEW c \in Nat \ {0}, n = c * P(g), Odd(c),
           NEW j \in 0 .. g
    PROVE  compute_height[MmrSize(n - 1) + j + 2] = {Py!tree_pos_height(MmrSize(n - 1) + j + 1)}
<1> DEFINE size == MmrSize(n - 1)
           k == size + j + 2
<1>1. MmrSize(n) = size + g + 1
    BY SizeSteps
<1>2. size \in Nat
    <2>1. n - 1 \in Nat
        OBVIOUS
    <2> QED
        BY <2>1, ForestFinite
<1>3. MmrSize(n) + 1 < P(MaxBits) /\ P(MaxBits) \in Nat
    BY NextFits, PowTypes
<1> HIDE DEF size
<1>4. j \in Nat /\ g \in Nat /\ j <= g
    BY Heights
<1>5. k \in Nat \ {0} /\ k < P(MaxBits) /\ k - 1 = size + j + 1
    BY <1>1, <1>2, <1>3, <1>4
<1> HIDE DEF k
<1>6. {Py!tree_pos_height(k - 1)} = compute_height[k]
    BY <1>5, PyHeightAgrees
<1> QED
    BY <1>5, <1>6 DEF size, k

LEMMA MergedFirst ==
    ASSUME NEW leaves, NEW n \in Nat \ {0}, n < P(MaxHeight + 1),
           NEW mmr, HoldsForest(mmr, leaves, n - 1)
    PROVE  Merged(mmr, leaves, n, 0)
<1> DEFINE size == MmrSize(n - 1)
<1>1. size \in Nat /\ mmr.last_pos = size - 1
    <2>1. n - 1 \in Nat
        OBVIOUS
    <2> QED
        BY <2>1, ForestFinite DEF HoldsForest
<1> HIDE DEF size
<1>2. mmr.last_pos + 1 = size + 0
    BY <1>1
<1>3. PICK f : Adds(f, mmr, leaves[n], 0)
               /\ f[0] = Py!WithHash(mmr.pos_hash, mmr.last_pos + 1, leaves[n])
    BY AddsLeaf
<1>4. n = n * P(0) /\ 0 \in 0 .. MaxHeight
    BY PowTypes, Heights
<1>5. TreeHash(leaves)[<<0, n>>] = leaves[n]
    <2>1. \A h \in Nat : h = 0 => TreeHash(leaves)[<<h, n>>] = leaves[n]
        BY TreeEquation, Zenon
    <2> QED
        BY <2>1
<1>6. KnowsBelow(mmr.pos_hash, leaves, n, 0)
    BY DEF KnowsBelow, HoldsForest
<1>7. KnowsBelow(Py!WithHash(mmr.pos_hash, size + 0, TreeHash(leaves)[<<0, n>>]), leaves, n, 0 + 1)
    BY <1>4, <1>6, KnowsNext DEF size
<1>8. KnowsBelow(f[0], leaves, n, 0 + 1)
    BY <1>2, <1>3, <1>5, <1>7
<1>9. Raises(MmrSize(n - 1), 0)
    BY DEF Raises
<1> QED
    BY <1>3, <1>4, <1>8, <1>9 DEF Merged

LEMMA MergedNext ==
    ASSUME NEW leaves, NEW n \in Nat \ {0}, n < P(MaxHeight + 1),
           NEW mmr, mmr.last_pos = MmrSize(n - 1) - 1,
           NEW g \in 0 .. MaxHeight, NEW c \in Nat \ {0}, n = c * P(g), Odd(c),
           NEW j \in 0 .. g - 1, Merged(mmr, leaves, n, j)
    PROVE  Merged(mmr, leaves, n, j + 1)
<1> DEFINE size == MmrSize(n - 1)
<1>1. PICK i \in Nat \ {0} : \E f :
          /\ n = i * P(j)
          /\ Adds(f, mmr, leaves[n], j)
          /\ Raises(size, j)
          /\ KnowsBelow(f[j], leaves, n, j + 1)
    BY DEF Merged
<1>2. PICK f :
          /\ Adds(f, mmr, leaves[n], j)
          /\ KnowsBelow(f[j], leaves, n, j + 1)
    BY <1>1
<1>3. /\ j \in 0 .. MaxHeight /\ j \in Nat /\ j \in 0 .. g /\ ~(g <= j) /\ (j + 1) + 1 = j + 2
      /\ (j + 1) - 1 = j
    BY Heights
<1>4. ~Odd(i)
    BY <1>1, <1>3, OddPartIsLargest
<1>5. compute_height[size + j + 2] = {j + 1}
    BY <1>1, <1>3, <1>4, ParentIsNext
<1>6. Py!tree_pos_height(size + j + 1) = j + 1
    <2>1. compute_height[size + j + 2] = {Py!tree_pos_height(size + j + 1)}
        BY <1>3, NextInBounds
    <2> QED
        BY <1>5, <2>1
<1>7. size \in Nat
    <2>1. n - 1 \in Nat
        OBVIOUS
    <2> QED
        BY <2>1, ForestFinite
<1> HIDE DEF size
<1>8. mmr.last_pos + 1 = size
    BY <1>7 DEF size
<1>9. Raises(size, j + 1)
    <2> SUFFICES ASSUME NEW l \in 0 .. j
                 PROVE  Py!tree_pos_height(size + l + 1) \in Int /\ Py!tree_pos_height(size + l + 1) > l
        BY <1>3 DEF Raises
    <2>1. CASE l = j
        BY <1>3, <1>6, <2>1
    <2>2. CASE l # j
        <3>1. l \in 0 .. j - 1
            BY <1>3, <2>2
        <3> QED
            BY <1>1, <3>1 DEF Raises
    <2> QED
        BY <2>1, <2>2
<1>10. PICK m \in Nat \ {0} : n = m * P(j + 1)
    BY <1>1, <1>2, <1>3, <1>4, ParentKnown
<1>11. KnowsBelow(Parents(f[j], size, j + 1), leaves, n, (j + 1) + 1)
    BY <1>1, <1>2, <1>3, <1>4, ParentKnown DEF size
<1>12. PICK e : Adds(e, mmr, leaves[n], j + 1) /\ e[j + 1] = Parents(f[j], size, j + 1)
    BY <1>2, <1>3, <1>8, AddsMore
<1> QED
    BY <1>9, <1>10, <1>11, <1>12 DEF Merged, size

(* Adding the next leaf to an MMR that knows the peaks of a forest.        *)
LEMMA AddHolds ==
    ASSUME NEW leaves, NEW n \in Nat \ {0}, n + 1 < P(MaxHeight + 1),
           NEW mmr, HoldsForest(mmr, leaves, n - 1)
    PROVE  /\ HoldsForest(Py!add(mmr, leaves[n]), leaves, n)
           /\ Py!merges_after(MmrSize(n - 1)) \in Nat
           /\ MmrSize(n) = MmrSize(n - 1) + 1 + Py!merges_after(MmrSize(n - 1))
<1> DEFINE size == MmrSize(n - 1)
<1>0. n < P(MaxHeight + 1) /\ MaxHeight \in Nat /\ MaxHeight + 1 \in 0 .. MaxHeight + 1
      /\ MaxHeight <= MaxBits /\ MaxBits \in Nat /\ P(MaxHeight + 1) \in Nat
    BY Heights
<1>1. PICK g \in 0 .. MaxHeight, c \in Nat \ {0} : n = c * P(g) /\ Odd(c)
    <2>1. PICK g \in 0 .. (MaxHeight + 1) - 1 : \E c \in Int : n = c * P(g) /\ Odd(c)
        BY <1>0, OddPart
    <2>2. PICK c \in Int : n = c * P(g) /\ Odd(c)
        BY <2>1
    <2>3. g \in 0 .. MaxHeight
        BY <1>0
    <2>4. c \in Nat \ {0}
        <3> DEFINE p == P(g)
        <3>1. p \in Nat \ {0} /\ n = c * p
            BY <2>2, <2>3, Heights
        <3> HIDE DEF p
        <3>2. ~(c <= 0)
            BY <3>1
        <3> QED
            BY <3>2
    <2> QED
        BY <2>2, <2>3, <2>4
<1>2. mmr.last_pos = size - 1
    BY DEF HoldsForest
<1>3. size \in Nat
    <2>1. n - 1 \in Nat
        OBVIOUS
    <2> QED
        BY <2>1, ForestFinite
<1>4. Merged(mmr, leaves, n, g)
    <2> DEFINE Bad == {j \in 0 .. g : ~Merged(mmr, leaves, n, j)}
    <2>1. Merged(mmr, leaves, n, 0)
        BY <1>0, MergedFirst
    <2>2. ASSUME NEW j \in 0 .. g - 1, Merged(mmr, leaves, n, j)
          PROVE  Merged(mmr, leaves, n, j + 1)
        BY <1>0, <1>1, <1>2, <2>2, MergedNext
    <2>3. Bad = {}
        <3> SUFFICES ASSUME Bad # {}
                     PROVE  FALSE
            OBVIOUS
        <3>1. Bad \in SUBSET Nat
            OBVIOUS
        <3>2. PICK m \in Bad : \A k \in Bad : m <= k
            <4> HIDE DEF Bad
            <4> QED
                BY <3>1, SmallestExists
        <3>3. m # 0 /\ m \in 0 .. g /\ ~Merged(mmr, leaves, n, m)
            BY <2>1
        <3>4. m - 1 \in 0 .. g - 1 /\ m - 1 \in 0 .. g /\ ~(m <= m - 1) /\ (m - 1) + 1 = m
            BY <1>0, <3>3
        <3>5. Merged(mmr, leaves, n, m - 1)
            BY <3>2, <3>4
        <3> QED
            BY <2>2, <3>3, <3>4, <3>5
    <2>4. g \in 0 .. g
        BY <1>0
    <2> QED
        BY <2>3, <2>4
<1>5. PICK f :
          /\ Adds(f, mmr, leaves[n], g)
          /\ Raises(size, g)
          /\ KnowsBelow(f[g], leaves, n, g + 1)
    BY <1>4 DEF Merged
<1>6. MmrSize(n) = size + g + 1 /\ compute_height[size + g + 2] = {0}
    BY <1>1, LeafIsNext
<1>7. Py!tree_pos_height(size + g + 1) = 0
    <2>1. g \in 0 .. g
        BY <1>0
    <2>2. compute_height[size + g + 2] = {Py!tree_pos_height(size + g + 1)}
        BY <1>0, <1>1, <2>1, NextInBounds
    <2> QED
        BY <1>6, <2>2
<1> HIDE DEF size
<1>8. mmr.last_pos + 1 = size /\ g \in Nat /\ g \in 0 .. MaxBits
    BY <1>0, <1>2, <1>3
<1>9. Py!merges_after(size) = g
    BY <1>3, <1>5, <1>7, <1>8, MergesAre
<1>10. Py!add(mmr, leaves[n]) = Py!NewMmr(f[g], size + g)
    BY <1>5, <1>8, <1>9, AddIs
<1>11. size + g = MmrSize(n) - 1
    BY <1>3, <1>6, <1>8
<1>12. ASSUME NEW t \in PeakTrees(n)
       PROVE  KnowsTree(f[g], leaves, t)
    <2>1. PICK h \in 0 .. MaxHeight, i \in Nat \ {0} :
              t = <<h, i>> /\ i * P(h) \in Nat /\ i * P(h) <= n /\ n < (i + 1) * P(h) /\ Odd(i)
        BY <1>0, PeakTypes DEF Odd
    <2>2. CASE i * P(h) = n
        <3>1. h <= g
            BY <1>1, <2>1, <2>2, OddPartIsLargest
        <3>2. h \in 0 .. (g + 1) - 1
            BY <1>0, <3>1
        <3> QED
            BY <1>5, <2>1, <2>2, <3>2 DEF KnowsBelow
    <2>3. CASE i * P(h) # n
        <3> DEFINE k == n - 1
        <3>1. k \in Nat /\ k < P(MaxHeight + 1) /\ i * P(h) <= k
            BY <1>0, <2>1, <2>3
        <3>2. k < (i + 1) * P(h)
            <4> DEFINE a == (i + 1) * P(h)
            <4>1. a \in Int
                <5> DEFINE p == P(h)
                <5>1. p \in Nat
                    BY Heights
                <5> HIDE DEF p
                <5> QED
                    BY <5>1 DEF p
            <4>2. n < a
                BY <2>1
            <4> HIDE DEF a
            <4>3. k < a
                BY <4>1, <4>2
            <4> QED
                BY <4>3 DEF a
        <3> HIDE DEF k
        <3>3. <<h, i>> \in PeakTrees(k)
            BY <2>1, <3>1, <3>2, PeakIff DEF Odd
        <3> QED
            BY <1>5, <2>1, <3>3 DEF KnowsBelow, k
    <2> QED
        BY <2>2, <2>3
<1>13. MmrSize(n) = size + 1 + g
    BY <1>3, <1>6, <1>8
<1>14. HoldsForest(Py!add(mmr, leaves[n]), leaves, n)
    BY <1>10, <1>11, <1>12, NewMmrIs DEF HoldsForest
<1> QED
    BY <1>8, <1>9, <1>13, <1>14 DEF size

(* Positions of peaks are numbers. *)
LEMMA PeaksHavePositions ==
    ASSUME NEW k \in Nat \ {0}, k < P(MaxHeight + 1), NEW t \in PeakTrees(k)
    PROVE  PositionOf(t) \in Nat \ {0}
<1>1. PICK h \in 0 .. MaxHeight, i \in Nat \ {0} : t = <<h, i>> /\ i * P(h) <= k
    <2>1. /\ t = <<t[1], t[2]>> /\ t[1] \in 0 .. MaxHeight /\ t[2] \in Nat \ {0}
          /\ t[2] * P(t[1]) <= k
        BY PeakTypes
    <2> QED
        BY <2>1
<1>2. At(h, i) \in Nat \ {0}
    BY <1>1, AtBelow
<1> QED
    BY <1>1, <1>2, PositionIsAt

(* The peaks of a forest in order, with where they are.                    *)
LEMMA PyPeaksListed ==
    ASSUME NEW k \in Nat \ {0}, k < P(MaxHeight + 1)
    PROVE  \E c \in Nat \ {0} : \E s :
               /\ c = PeakCount(k) /\ s = PeakSequence(k)
               /\ s \in [1 .. c -> PeakTrees(k)]
               /\ Py!py_get_peaks(MmrSize(k)) = [i \in 1 .. c |-> PositionOf(s[i]) - 1]
               /\ \A t \in PeakTrees(k) : \E i \in 1 .. c : s[i] = t
               /\ \A i, j \in 1 .. c : PositionOf(s[i]) - 1 = PositionOf(s[j]) - 1 => i = j
<1> DEFINE c == PeakCount(k)
           s == PeakSequence(k)
           q == PeakPositions(k)
<1>1. /\ c \in Nat \ {0} /\ s \in [1 .. c -> PeakTrees(k)]
      /\ q = [i \in 1 .. c |-> PositionOf(s[i])]
      /\ \A t \in PeakTrees(k) : \E i \in 1 .. c : s[i] = t
      /\ \A i, j \in 1 .. c : q[i] = q[j] => i = j
    BY PeaksListed
<1> HIDE DEF c, s
<1>2. DOMAIN q = 1 .. c /\ \A i \in 1 .. c : q[i] = PositionOf(s[i]) /\ q[i] \in Nat \ {0}
    <2> HIDE DEF q
    <2>1. \A i \in 1 .. c : PositionOf(s[i]) \in Nat \ {0}
        <3>1. \A i \in 1 .. c : s[i] \in PeakTrees(k)
            BY <1>1
        <3> QED
            BY <3>1, PeaksHavePositions
    <2> QED
        BY <1>1, <2>1
<1>3. Py!py_get_peaks(MmrSize(k)) = [i \in DOMAIN q |-> 0 + q[i] - 1]
    BY PyPeaks DEF Back
<1> HIDE DEF q
<1>4. Py!py_get_peaks(MmrSize(k)) = [i \in 1 .. c |-> PositionOf(s[i]) - 1]
    <2>1. \A i \in 1 .. c : 0 + q[i] - 1 = PositionOf(s[i]) - 1
        BY <1>2
    <2> QED
        BY <1>2, <1>3, <2>1
<1>5. \A i, j \in 1 .. c : PositionOf(s[i]) - 1 = PositionOf(s[j]) - 1 => i = j
    <2> SUFFICES ASSUME NEW i \in 1 .. c, NEW j \in 1 .. c,
                        PositionOf(s[i]) - 1 = PositionOf(s[j]) - 1
                 PROVE  i = j
        OBVIOUS
    <2>1. q[i] \in Nat /\ q[j] \in Nat /\ q[i] - 1 = q[j] - 1
        BY <1>2
    <2>2. q[i] = q[j]
        BY <2>1
    <2> QED
        BY <1>1, <2>2
<1> QED
    BY <1>1, <1>4, <1>5 DEF c, s

(* An MMR that is made of the peaks of a forest holds it.                  *)
LEMMA PeaksHoldForest ==
    ASSUME NEW k \in Nat \ {0}, k < P(MaxHeight + 1),
           NEW old, Len(old) = k, NEW leaves, Agree(old, leaves, k)
    PROVE  HoldsForest(Py!NewMmr(PeakHashesAt(Py!py_get_peaks(MmrSize(k)), PeakHashes(old)),
                                 MmrSize(k) - 1), leaves, k)
<1> DEFINE positions == Py!py_get_peaks(MmrSize(k))
           peaks == PeakHashes(old)
           f == PeakHashesAt(positions, peaks)
<1>1. PICK c \in Nat \ {0} : \E s :
               /\ c = PeakCount(k) /\ s = PeakSequence(k)
               /\ s \in [1 .. c -> PeakTrees(k)]
               /\ Py!py_get_peaks(MmrSize(k)) = [i \in 1 .. c |-> PositionOf(s[i]) - 1]
               /\ \A t \in PeakTrees(k) : \E i \in 1 .. c : s[i] = t
               /\ \A i, j \in 1 .. c : PositionOf(s[i]) - 1 = PositionOf(s[j]) - 1 => i = j
    BY PyPeaksListed
<1>2. PICK s :
               /\ c = PeakCount(k) /\ s = PeakSequence(k)
               /\ s \in [1 .. c -> PeakTrees(k)]
               /\ positions = [i \in 1 .. c |-> PositionOf(s[i]) - 1]
               /\ \A t \in PeakTrees(k) : \E i \in 1 .. c : s[i] = t
               /\ \A i, j \in 1 .. c : PositionOf(s[i]) - 1 = PositionOf(s[j]) - 1 => i = j
    BY <1>1
<1>3. peaks = [i \in 1 .. c |-> TreeHash(old)[s[i]]]
    BY <1>2, RootOfLeaves
<1> HIDE DEF positions, peaks
<1>4. ASSUME NEW t \in PeakTrees(k)
      PROVE  KnowsTree(f, leaves, t)
    <2> DEFINE p == PositionOf(t) - 1
    <2>1. PICK i \in 1 .. c : s[i] = t
        BY <1>2
    <2>2. DOMAIN positions = 1 .. c /\ DOMAIN peaks = 1 .. c /\ positions[i] = p
        BY <1>2, <1>3, <2>1
    <2>3. p \in Range(positions)
        BY <2>2 DEF Range
    <2>4. (CHOOSE j \in DOMAIN peaks : positions[j] = p) = i
        <3>1. \A j \in 1 .. c : positions[j] = p => j = i
            BY <1>2, <2>1
        <3> HIDE DEF p
        <3> QED
            BY <2>2, <3>1
    <2>5. p \in DOMAIN f /\ f[p] = peaks[i]
        <3> HIDE DEF p
        <3> QED
            BY <2>3, <2>4 DEF PeakHashesAt
    <2>6. peaks[i] = TreeHash(old)[t]
        BY <1>3, <2>1
    <2>7. TreeHash(old)[t] = TreeHash(leaves)[t]
        <3>1. t \in Subtrees(k)
            BY DEF PeakTrees
        <3> QED
            BY <3>1, TreeIsLocal
    <2> QED
        BY <2>5, <2>6, <2>7 DEF KnowsTree
<1> HIDE DEF f
<1>5. HoldsForest(Py!NewMmr(f, MmrSize(k) - 1), leaves, k)
    BY <1>4, NewMmrIs DEF HoldsForest
<1> QED
    BY <1>5 DEF f, positions, peaks

(* What the tools read from an MMR that holds a forest.                    *)
LEMMA ForestIsRead ==
    ASSUME NEW leaves, NEW k \in Nat \ {0}, Len(leaves) = k, k < P(MaxHeight + 1),
           NEW mmr, HoldsForest(mmr, leaves, k)
    PROVE  /\ Py!mmr_get_peaks(mmr) = PeakHashes(leaves)
           /\ mmr.last_pos + 1 = MmrSize(k)
           /\ Py!get_root(mmr) = MmrRoot(leaves)
<1>1. mmr.last_pos + 1 = MmrSize(k)
    <2>1. MmrSize(k) \in Nat
        BY ForestFinite
    <2> QED
        BY <2>1 DEF HoldsForest
<1> DEFINE positions == Py!py_get_peaks(MmrSize(k))
           peaks == PeakHashes(leaves)
<1>2. PICK c \in Nat \ {0} : \E s :
               /\ c = PeakCount(k) /\ s = PeakSequence(k)
               /\ s \in [1 .. c -> PeakTrees(k)]
               /\ positions = [i \in 1 .. c |-> PositionOf(s[i]) - 1]
    <2>1. \E c \in Nat \ {0} : \E s :
               /\ c = PeakCount(k) /\ s = PeakSequence(k)
               /\ s \in [1 .. c -> PeakTrees(k)]
               /\ Py!py_get_peaks(MmrSize(k)) = [i \in 1 .. c |-> PositionOf(s[i]) - 1]
        BY PyPeaksListed
    <2> QED
        BY <2>1
<1>3. PICK s :
               /\ c = PeakCount(k) /\ s = PeakSequence(k)
               /\ s \in [1 .. c -> PeakTrees(k)]
               /\ positions = [i \in 1 .. c |-> PositionOf(s[i]) - 1]
    BY <1>2
<1>4. /\ peaks = [i \in 1 .. c |-> TreeHash(leaves)[s[i]]]
      /\ MmrRoot(leaves) = RootOf(MmrSize(k), peaks)
    BY <1>3, RootOfLeaves
<1>5. Py!mmr_get_peaks(mmr) = [i \in DOMAIN positions |-> mmr.pos_hash[positions[i]]]
    BY <1>1 DEF Py!mmr_get_peaks
<1> HIDE DEF positions, peaks
<1>6. ASSUME NEW i \in 1 .. c
      PROVE  mmr.pos_hash[positions[i]] = TreeHash(leaves)[s[i]]
    <2>1. s[i] \in PeakTrees(k) /\ positions[i] = PositionOf(s[i]) - 1
        BY <1>3
    <2> QED
        BY <2>1 DEF HoldsForest, KnowsTree
<1>7. Py!mmr_get_peaks(mmr) = peaks
    <2>1. DOMAIN positions = 1 .. c
        BY <1>3
    <2> QED
        BY <1>4, <1>5, <1>6, <2>1
<1>8. Py!get_root(mmr) = Py!hash_pair(<<MmrSize(k)>>, Py!py_bag_peaks(peaks))
    BY <1>1, <1>7 DEF Py!get_root
<1>9. Py!hash_pair(<<MmrSize(k)>>, Py!py_bag_peaks(peaks)) = RootOf(MmrSize(k), peaks)
    BY DEF RootOf, poseidon_hash, bag_peaks, Py!py_bag_peaks, Py!hash_pair, FoldRight, Py!FoldRight,
           MapThenFoldSet, Py!MapThenFoldSet, Front, Py!Front, Last, Py!Last, Min, Py!Min
<1> QED
    BY <1>1, <1>4, <1>7, <1>8, <1>9 DEF peaks

(* These are the hashes of the leaves after the k-th one, the last first.  *)
LastFirst(hashes, leaves, k, n) ==
    /\ DOMAIN hashes = 1 .. n
    /\ \A i \in 1 .. n : hashes[i] = leaves[k + n + 1 - i]

(* From the peaks of an MMR alone the tools make the peaks, the size and   *)
(* the root of the MMR with more leaves, the last of them added first.     *)
LEMMA ExtendsForest ==
    ASSUME NEW k \in Nat \ {0}, NEW n \in Nat, k + n + 1 < P(MaxHeight + 1),
           NEW old, Len(old) = k, NEW leaves, Len(leaves) = k + n, Agree(old, leaves, k),
           NEW hashes, LastFirst(hashes, leaves, k, n),
           NEW result,
           result = Py!extend_mmr_poseidon(hashes, Py!py_get_peaks(MmrSize(k)), PeakHashes(old),
                                           MmrSize(k) - 1)
    PROVE  /\ result.peaks = PeakHashes(leaves)
           /\ result.size = MmrSize(k + n)
           /\ result.root = MmrRoot(leaves)
<1> DEFINE start == Py!NewMmr(PeakHashesAt(Py!py_get_peaks(MmrSize(k)), PeakHashes(old)), MmrSize(k) - 1)
<1>a. PICK base : base = start
    OBVIOUS
<1>b. PICK f : f = Folded(n, hashes, base)
    OBVIOUS
<1> DEFINE Holds(j) == HoldsForest(f[(n - j) + 1 .. n], leaves, k + j)
           Bad == {j \in 0 .. n : ~Holds(j)}
<1>0. k < P(MaxHeight + 1) /\ P(MaxHeight + 1) \in Nat
    <2>1. P(MaxHeight + 1) \in Nat
        BY Heights
    <2> QED
        BY <2>1
<1>1. HoldsForest(base, leaves, k)
    BY <1>0, <1>a, PeaksHoldForest
<1>2. f[n + 1 .. n] = base /\ \A i \in 1 .. n : f[i .. n] = Py!add(f[i + 1 .. n], hashes[i])
    BY <1>b, FoldEquation
<1> HIDE DEF start
<1>3. Holds(0)
    <2>1. (n - 0) + 1 = n + 1 /\ k + 0 = k
        OBVIOUS
    <2> QED
        BY <1>1, <1>2, <2>1
<1>4. ASSUME NEW j \in 0 .. n, j # 0, Holds(j - 1)
      PROVE  Holds(j)
    <2> DEFINE i == (n - j) + 1
               m == k + j
    <2>1. /\ i \in 1 .. n /\ i + 1 = (n - (j - 1)) + 1 /\ k + n + 1 - i = m
          /\ m \in Nat \ {0} /\ m - 1 = k + (j - 1) /\ m + 1 < P(MaxHeight + 1)
        BY <1>0, <1>4
    <2>2. HoldsForest(f[i + 1 .. n], leaves, m - 1)
        BY <1>4, <2>1
    <2> HIDE DEF i, m
    <2>3. HoldsForest(Py!add(f[i + 1 .. n], leaves[m]), leaves, m)
        BY <2>1, <2>2, AddHolds
    <2>4. f[i .. n] = Py!add(f[i + 1 .. n], leaves[m])
        BY <1>2, <2>1 DEF LastFirst
    <2> QED
        BY <2>3, <2>4 DEF i, m
<1> HIDE DEF Holds
<1>5. Bad = {}
    <2> SUFFICES ASSUME Bad # {}
                 PROVE  FALSE
        OBVIOUS
    <2>1. Bad \in SUBSET Nat
        OBVIOUS
    <2>2. PICK m \in Bad : \A j \in Bad : m <= j
        <3> HIDE DEF Bad
        <3> QED
            BY <2>1, SmallestExists
    <2>3. m # 0 /\ m \in 0 .. n /\ ~Holds(m)
        BY <1>3, <2>2
    <2>4. m - 1 \in 0 .. n /\ ~(m <= m - 1)
        BY <2>3
    <2>5. Holds(m - 1)
        BY <2>2, <2>4
    <2> QED
        BY <1>4, <2>3, <2>5
<1>6. Holds(n)
    BY <1>5
<1> DEFINE mmr == f[1 .. n]
<1>7. HoldsForest(mmr, leaves, k + n)
    <2>1. (n - n) + 1 = 1
        OBVIOUS
    <2> QED
        BY <1>6, <2>1 DEF Holds
<1>8. /\ result.peaks = Py!mmr_get_peaks(mmr)
      /\ result.root = Py!get_root(mmr)
      /\ result.size = mmr.last_pos + 1
    BY <1>a, <1>b, ExtendIs DEF start, LastFirst
<1> HIDE DEF mmr
<1>9. k + n \in Nat \ {0} /\ k + n < P(MaxHeight + 1)
    BY <1>0
<1> QED
    BY <1>7, <1>8, <1>9, ForestIsRead

(* The MMR of one leaf.                                                    *)
LEMMA OneLeaf ==
    ASSUME NEW leaves, Len(leaves) = 1
    PROVE  /\ PeakHashes(leaves) = <<leaves[1]>>
           /\ MmrSize(1) = 1
           /\ MmrRoot(leaves) = <<<<1>>, leaves[1]>>
<1> DEFINE c == PeakCount(1)
           s == PeakSequence(1)
           q == PeakPositions(1)
           peaks == PeakHashes(leaves)
<1>1. /\ 1 \in Nat \ {0} /\ 1 < P(MaxHeight + 1) /\ 0 \in 0 .. MaxHeight /\ P(0) = 1
      /\ \A h \in 0 .. MaxHeight : P(h) \in Nat \ {0} /\ h + 1 <= P(h)
    <2>1. /\ MaxHeight \in Nat /\ MaxHeight \in 0 .. MaxHeight /\ MaxHeight \in 0 .. MaxHeight + 1
          /\ \A h \in 0 .. MaxHeight : h \in 0 .. MaxBits
        BY Heights
    <2>2. P(MaxHeight) \in Nat \ {0} /\ P(MaxHeight + 1) = 2 * P(MaxHeight)
        BY <2>1, Heights
    <2>3. 1 < P(MaxHeight + 1)
        BY <2>2
    <2> QED
        BY <2>1, <2>3, PowTypes
<1>2. MmrSize(1) = 1
    <2>1. Odd(1)
        <3>1. 1 = 2 * 0 + 1 /\ 0 \in Int
            OBVIOUS
        <3> QED
            BY <3>1 DEF Odd
    <2>2. 1 = 1 * P(0) /\ 1 - 1 = 0
        BY <1>1
    <2>3. MmrSize(1) = MmrSize(1 - 1) + 0 + 1
        BY <1>1, <2>1, <2>2, SizeSteps
    <2> QED
        BY <2>2, <2>3, EmptyForest
<1>3. ASSUME NEW t \in PeakTrees(1)
      PROVE  t = <<0, 1>>
    <2>1. /\ t = <<t[1], t[2]>> /\ t[1] \in 0 .. MaxHeight /\ t[2] \in Nat \ {0}
          /\ P(t[1]) <= t[2] * P(t[1]) /\ t[2] * P(t[1]) <= 1 /\ t[2] * P(t[1]) \in Nat \ {0}
        BY <1>1, PeakTypes
    <2>2. P(t[1]) \in Nat \ {0} /\ t[1] + 1 <= P(t[1])
        BY <1>1, <2>1
    <2>3. P(t[1]) = 1
        BY <2>1, <2>2
    <2>4. t[1] = 0
        BY <2>1, <2>2, <2>3
    <2>5. t[2] = 1
        BY <2>1, <2>3
    <2> QED
        BY <2>1, <2>4, <2>5
<1>4. /\ c \in Nat \ {0} /\ s \in [1 .. c -> PeakTrees(1)]
      /\ q = [i \in 1 .. c |-> PositionOf(s[i])]
      /\ \A i, j \in 1 .. c : q[i] = q[j] => i = j
    BY <1>1, PeaksListed
<1>5. peaks = [i \in 1 .. c |-> TreeHash(leaves)[s[i]]] /\ MmrRoot(leaves) = RootOf(1, peaks)
    BY <1>1, <1>2, RootOfLeaves
<1> HIDE DEF c, s, q, peaks
<1>6. s[1] = <<0, 1>> /\ \A i \in 1 .. c : s[i] = <<0, 1>>
    BY <1>3, <1>4
<1>7. c = 1
    <2>1. 1 \in 1 .. c /\ c \in 1 .. c
        BY <1>4
    <2>2. q[1] = PositionOf(s[1]) /\ q[c] = PositionOf(s[c])
        BY <1>4, <2>1
    <2>3. s[c] = s[1]
        BY <1>6, <2>1
    <2> QED
        BY <1>4, <2>1, <2>2, <2>3
<1>8. TreeHash(leaves)[<<0, 1>>] = leaves[1]
    <2>1. \A h \in Nat : h = 0 => TreeHash(leaves)[<<h, 1>>] = leaves[1]
        BY <1>1, TreeEquation, Zenon
    <2> QED
        BY <2>1
<1>9. peaks = [i \in 1 .. 1 |-> leaves[1]]
    BY <1>5, <1>6, <1>7, <1>8
<1>10. peaks = <<leaves[1]>>
    BY <1>9
<1>11. bag_peaks(peaks) = leaves[1]
    <2>1. peaks = [i \in 1 .. 1 |-> peaks[i]] /\ peaks[1] = leaves[1] /\ Len(peaks) = 1 /\ 1 \in 1 .. 1
        BY <1>10
    <2>2. bag_peaks(peaks) = Bag(peaks)[1]
        BY <1>1, <2>1, BagIsFold
    <2>3. Bag(peaks)[1] = IF 1 = 1 THEN peaks[1] ELSE <<peaks[1], Bag(peaks)[1 + 1]>>
        BY <1>1, <2>1, BagEquation
    <2> QED
        BY <2>1, <2>2, <2>3
<1>12. RootOf(1, peaks) = <<<<1>>, leaves[1]>>
    BY <1>11 DEF RootOf, poseidon_hash
<1> QED
    BY <1>2, <1>5, <1>10, <1>12 DEF peaks

-----------------------------------------------------------------------------
(* What the tools count.                                                   *)

(* A forest has two nodes for each leaf, but for its peaks.                *)
LEMMA SizeAndPeaks ==
    ASSUME NEW k \in Nat, k < P(MaxHeight + 1)
    PROVE  MmrSize(k) \in Nat /\ PeakCount(k) \in Nat /\ MmrSize(k) + PeakCount(k) = 2 * k
<1> DEFINE Bad == {n \in Nat : n < P(MaxHeight + 1) /\ MmrSize(n) + PeakCount(n) # 2 * n}
<1>0. \A n \in Nat : MmrSize(n) \in Nat /\ PeakCount(n) \in Nat
    BY ForestFinite, PeaksFinite DEF PeakCount
<1>1. Bad = {}
    <2> SUFFICES ASSUME Bad # {}
                 PROVE  FALSE
        OBVIOUS
    <2>1. PICK n \in Bad : \A m \in Bad : n <= m
        <3>1. Bad \in SUBSET Nat
            OBVIOUS
        <3> HIDE DEF Bad
        <3> QED
            BY <3>1, SmallestExists
    <2>2. n \in Nat /\ n < P(MaxHeight + 1) /\ MmrSize(n) + PeakCount(n) # 2 * n
        BY <2>1
    <2>3. \A m \in Nat : m < n /\ m < P(MaxHeight + 1) => MmrSize(m) + PeakCount(m) = 2 * m
        BY <2>1, <2>2
    <2>4. n # 0
        <3>1. PeakTrees(0) = {}
            <4>1. Subtrees(0) = {}
                BY DEF Subtrees
            <4> QED
                BY <4>1 DEF PeakTrees
        <3>2. PeakCount(0) = 0
            BY <3>1, FS_EmptySet DEF PeakCount
        <3> QED
            BY <2>2, <3>2, EmptyForest
    <2>5. PICK j \in 0 .. MaxHeight : P(j) <= n /\ n < P(j + 1)
        BY <2>2, <2>4, HighestPeak
    <2>6. P(j) \in Nat \ {0} /\ P(j + 1) = 2 * P(j)
        BY Heights
    <2> DEFINE r == n - P(j)
    <2>7. r \in 0 .. P(j) - 1 /\ P(j) + r = n /\ r \in Nat /\ r < n
        BY <2>2, <2>5, <2>6
    <2> HIDE DEF r
    <2>8. MmrSize(n) = (2 * P(j) - 1) + MmrSize(r) /\ r < P(MaxHeight + 1)
        <3>1. MmrSize(P(j) + r) = MmrSize(P(j)) + MmrSize(r)
            BY <2>7, SplitForest
        <3>2. MmrSize(P(j)) = 2 * P(j) - 1
            BY SizeOfPower
        <3>3. r < P(MaxHeight + 1)
            BY <2>7, PeaksAside
        <3> QED
            BY <2>7, <3>1, <3>2, <3>3
    <2>9. PeakCount(n) = PeakCount(r) + 1
        BY <2>7, OnePeakMore DEF PeakCount
    <2>10. MmrSize(r) + PeakCount(r) = 2 * r
        BY <2>3, <2>7, <2>8
    <2> QED
        BY <1>0, <2>2, <2>6, <2>7, <2>8, <2>9, <2>10
<1> QED
    BY <1>0, <1>1

(* The tools find as many peaks as there are.                              *)
LEMMA PyPeaksCounted ==
    ASSUME NEW k \in Nat \ {0}, k < P(MaxHeight + 1)
    PROVE  Len(Py!py_get_peaks(MmrSize(k))) = PeakCount(k)
<1>1. PICK c \in Nat \ {0} : \E s :
          c = PeakCount(k) /\ Py!py_get_peaks(MmrSize(k)) = [i \in 1 .. c |-> PositionOf(s[i]) - 1]
    BY PyPeaksListed
<1>2. PICK s : Py!py_get_peaks(MmrSize(k)) = [i \in 1 .. c |-> PositionOf(s[i]) - 1]
    BY <1>1
<1> QED
    BY <1>1, <1>2

(* One leaf more is that leaf and its merges.                              *)
LEMMA MergesGrow ==
    ASSUME NEW k \in Nat \ {0}, k + 2 < P(MaxHeight + 1)
    PROVE  /\ Py!merges_after(MmrSize(k)) \in Nat
           /\ MmrSize(k + 1) = MmrSize(k) + 1 + Py!merges_after(MmrSize(k))
<1> DEFINE leaves == [i \in 1 .. k |-> 0]
<1>1. PICK mmr : HoldsForest(mmr, leaves, k)
    <2>1. Len(leaves) = k /\ k < P(MaxHeight + 1)
        BY Heights
    <2>2. Agree(leaves, leaves, k)
        BY DEF Agree
    <2> HIDE DEF leaves
    <2> QED
        BY <2>1, <2>2, PeaksHoldForest
<1>2. k + 1 \in Nat \ {0} /\ (k + 1) - 1 = k /\ (k + 1) + 1 < P(MaxHeight + 1)
    BY Heights
<1> HIDE DEF leaves
<1> DEFINE n == k + 1
<1> HIDE DEF n
<1>3. n \in Nat \ {0} /\ n + 1 < P(MaxHeight + 1) /\ HoldsForest(mmr, leaves, n - 1)
    BY <1>1, <1>2 DEF n
<1>4. /\ Py!merges_after(MmrSize(n - 1)) \in Nat
      /\ MmrSize(n) = MmrSize(n - 1) + 1 + Py!merges_after(MmrSize(n - 1))
    BY <1>3, AddHolds
<1> QED
    BY <1>2, <1>4 DEF n

(* The sizes of an MMR while n leaves are added.                           *)
Sizes(f, size, n) ==
    f = [j \in 0 .. n |-> IF j = 0 THEN size
                          ELSE f[j - 1] + 1 + Py!merges_after(f[j - 1])]

LEMMA SizesAre ==
    ASSUME NEW k \in Nat \ {0}, NEW n \in Nat, k + n + 1 < P(MaxHeight + 1),
           NEW f, f = (CHOOSE g : Sizes(g, MmrSize(k), n))
    PROVE  f[n] = MmrSize(k + n)
<1> DEFINE g == [j \in 0 .. n |-> MmrSize(k + j)]
           Bad == {j \in 0 .. n : f[j] # g[j]}
<1>1. ASSUME NEW j \in 1 .. n
      PROVE  MmrSize(k + j) = MmrSize(k + (j - 1)) + 1 + Py!merges_after(MmrSize(k + (j - 1)))
    <2> DEFINE m == k + (j - 1)
    <2>1. m \in Nat \ {0} /\ m + 2 < P(MaxHeight + 1) /\ m + 1 = k + j
        BY Heights
    <2> HIDE DEF m
    <2>2. MmrSize(m + 1) = MmrSize(m) + 1 + Py!merges_after(MmrSize(m))
        BY <2>1, MergesGrow
    <2> QED
        BY <2>1, <2>2 DEF m
<1>2. Sizes(g, MmrSize(k), n)
    <2>1. ASSUME NEW j \in 0 .. n
          PROVE  g[j] = IF j = 0 THEN MmrSize(k) ELSE g[j - 1] + 1 + Py!merges_after(g[j - 1])
        <3>1. CASE j = 0
            <4>1. k + j = k
                BY <3>1
            <4> QED
                BY <3>1, <4>1
        <3>2. CASE j # 0
            <4>1. j \in 1 .. n /\ j - 1 \in 0 .. n
                BY <3>2
            <4>2. g[j - 1] = MmrSize(k + (j - 1)) /\ g[j] = MmrSize(k + j)
                BY <4>1
            <4> HIDE DEF g
            <4> QED
                BY <1>1, <3>2, <4>1, <4>2
        <3> QED
            BY <3>1, <3>2
    <2>2. g = [j \in 0 .. n |-> g[j]]
        OBVIOUS
    <2> HIDE DEF g
    <2> QED
        BY <2>1, <2>2 DEF Sizes
<1> HIDE DEF g
<1>3. Sizes(f, MmrSize(k), n)
    BY <1>2, Zenon
<1>4. /\ \A j \in 0 .. n : f[j] = IF j = 0 THEN MmrSize(k)
                                  ELSE f[j - 1] + 1 + Py!merges_after(f[j - 1])
      /\ \A j \in 0 .. n : g[j] = IF j = 0 THEN MmrSize(k)
                                  ELSE g[j - 1] + 1 + Py!merges_after(g[j - 1])
    BY <1>2, <1>3 DEF Sizes
<1>5. Bad = {}
    <2> SUFFICES ASSUME Bad # {}
                 PROVE  FALSE
        OBVIOUS
    <2>1. PICK j \in Bad : \A m \in Bad : j <= m
        <3>1. Bad \in SUBSET Nat
            OBVIOUS
        <3> HIDE DEF Bad
        <3> QED
            BY <3>1, SmallestExists
    <2>2. j \in 0 .. n /\ f[j] # g[j]
        BY <2>1
    <2>3. j # 0
        BY <1>4, <2>2
    <2>4. j - 1 \in 0 .. n /\ ~(j <= j - 1)
        BY <2>2, <2>3
    <2>5. f[j - 1] = g[j - 1]
        BY <2>1, <2>4
    <2> HIDE DEF Bad
    <2> QED
        BY <1>4, <2>2, <2>3, <2>5
<1>6. n \in 0 .. n /\ f[n] = g[n]
    BY <1>5
<1> QED
    BY <1>6 DEF g

-----------------------------------------------------------------------------
(* The numbers that are compared. *)
LEMMA CountedToTheBound == Spec => [](x \in 1 .. Bound)
<1>1. Init => x \in 1 .. Bound
    BY BoundAssumption DEF Init
<1>2. x \in 1 .. Bound /\ [Next]_x => (x \in 1 .. Bound)'
    BY BoundAssumption DEF Next
<1> QED
    BY <1>1, <1>2, PTL DEF Spec

(* compute_height returns the height that the forest has at a position,    *)
(* and nothing else, whatever bit lengths the prover hints at.             *)
THEOREM HeightIsUniqueHolds == Spec => []HeightIsUnique
<1>1. x \in 1 .. Bound => HeightIsUnique
    <2> SUFFICES ASSUME x \in 1 .. Bound, NEW t \in Subtrees(x), PositionOf(t) = x
                 PROVE  compute_height[x] = {t[1]}
        BY DEF HeightIsUnique
    <2>1. x \in Nat /\ x < P(MaxHeight + 1) /\ P(MaxHeight + 1) \in Nat
        BY BoundAssumption, Heights DEF P
    <2>2. t[1] \in 0 .. MaxHeight /\ t[2] \in Int /\ t = <<t[1], t[2]>>
        BY DEF Subtrees
    <2>3. t[2] >= 1 /\ t[2] * P(t[1]) <= x /\ P(t[1]) \in Nat \ {0}
        BY <2>1, <2>2, InForest, Heights
    <2> DEFINE k == t[2] * P(t[1])
    <2>4. k \in Int /\ P(t[1]) <= k
        BY <2>2, <2>3, Products
    <2>5. k \in Nat \ {0} /\ k < P(MaxHeight + 1)
        BY <2>1, <2>3, <2>4
    <2>6. x = MmrSize(k - 1) + t[1] + 1
        BY <2>2, WidthIsPow DEF PositionOf, LastLeaf
    <2> HIDE DEF k
    <2>7. compute_height[MmrSize(k - 1) + t[1] + 1] = {t[1]}
        BY <2>2, <2>5, HeightAtPosition DEF k
    <2> QED
        BY <2>6, <2>7
<1> QED
    BY <1>1, CountedToTheBound, PTL

(* assert_mmr_size_is_valid passes for the sizes that an MMR can have and  *)
(* for no others, and no choice of the hints turns its verdict around.     *)
THEOREM ValidSizesAreMmrSizesHolds == Spec => []ValidSizesAreMmrSizes
<1>1. x \in 1 .. Bound => ValidSizesAreMmrSizes
    <2> SUFFICES ASSUME x \in 1 .. Bound
                 PROVE  ValidSizesAreMmrSizes
        OBVIOUS
    <2>1. x \in Nat \ {0} /\ x < P(MaxHeight + 1) /\ P(MaxHeight + 1) \in Nat
        BY BoundAssumption, Heights DEF P
    <2>2. is_valid_mmr_size_inner[<<x, 0>>] = {IsSize(x)}
        BY <2>1, ValidIffSize
    <2>3. RangeCheck(pow2_array[MaxBits - 1] - x)
        <3>1. MaxBits - 1 \in 0 .. MaxBits /\ MaxHeight + 1 \in 0 .. MaxBits
              /\ ~(MaxBits - 1 < MaxHeight + 1)
            BY Heights
        <3>2. ~(P(MaxBits - 1) < P(MaxHeight + 1)) /\ P(MaxBits - 1) \in Nat
            BY <3>1, PowOrder, PowTypes
        <3> QED
            BY <2>1, <3>2 DEF RangeCheck, P
    <2>4. TRUE \in {IsSize(x)} <=> IsSize(x)
        <3>1. IsSize(x) \in BOOLEAN
            BY DEF IsSize
        <3> QED
            BY <3>1
    <2> QED
        BY <2>1, <2>2, <2>3, <2>4 DEF ValidSizesAreMmrSizes, assert_mmr_size_is_valid
<1> QED
    BY <1>1, CountedToTheBound, PTL

(* compute_peaks_positions returns the positions of the peaks, from left   *)
(* to right, and nothing else, whatever the prover hints at.               *)
THEOREM PeaksAreUniqueHolds == Spec => []PeaksAreUnique
<1>1. x \in 1 .. Bound => PeaksAreUnique
    <2> SUFFICES ASSUME x \in 1 .. Bound, IsSize(x)
                 PROVE  compute_peaks_positions(x) = {PeakPositions(LeafCount(x))}
        BY DEF PeaksAreUnique
    <2> DEFINE k == LeafCount(x)
    <2>1. k \in 1 .. x /\ MmrSize(k) = x
        BY DEF IsSize, LeafCount
    <2>2. P(MaxHeight + 1) \in Nat /\ Bound \in Nat /\ Bound < P(MaxHeight + 1)
        BY BoundAssumption, Heights DEF P
    <2> HIDE DEF k
    <2>3. k \in Nat /\ k # 0 /\ k < P(MaxHeight + 1)
        BY <2>1, <2>2
    <2>4. compute_peaks_positions(MmrSize(k)) = {PeakPositions(k)}
        BY <2>3, PeaksInOrder
    <2> QED
        BY <2>1, <2>4 DEF k
<1> QED
    BY <1>1, CountedToTheBound, PTL

(* The tools find the same sizes valid as the Cairo program, the same      *)
(* height at every position and the same peaks of every size.              *)
THEOREM ToolsAgreeHolds == Spec => []ToolsAgree
<1>1. x \in 1 .. Bound => ToolsAgree
    <2> SUFFICES ASSUME x \in 1 .. Bound
                 PROVE  ToolsAgree
        OBVIOUS
    <2>1. /\ x \in Nat \ {0} /\ x < P(MaxHeight + 1) /\ P(MaxHeight + 1) \in Nat
          /\ x < P(MaxBits)
        <3>1. x \in Nat \ {0} /\ x < P(MaxHeight + 1) /\ P(MaxHeight + 1) \in Nat
            BY BoundAssumption, Heights DEF P
        <3>2. MaxBits \in 0 .. MaxBits /\ MaxHeight + 1 \in 0 .. MaxBits
              /\ ~(MaxBits < MaxHeight + 1)
            BY Heights
        <3>3. ~(P(MaxBits) < P(MaxHeight + 1)) /\ P(MaxBits) \in Nat
            BY <3>2, PowOrder, PowTypes
        <3> QED
            BY <3>1, <3>3
    <2>2. Py!py_is_valid_mmr_size(x) = assert_mmr_size_is_valid(x)
        <3>1. {Py!py_is_valid_mmr_size(x)} = {IsSize(x)}
            BY <2>1, PyValidAgrees, ValidIffSize
        <3>2. Py!py_is_valid_mmr_size(x) = IsSize(x)
            BY <3>1, Zenon
        <3>3. assert_mmr_size_is_valid(x) <=> IsSize(x)
            BY <2>1, ValidSize DEF IsSize
        <3>4. assert_mmr_size_is_valid(x) = IsSize(x)
            BY <3>3 DEF assert_mmr_size_is_valid, IsSize
        <3> QED
            BY <3>2, <3>4, Zenon
    <2>3. {Py!tree_pos_height(x - 1)} = compute_height[x]
        BY <2>1, PyHeightAgrees
    <2>4. ASSUME IsSize(x)
          PROVE  LET peaks == Py!py_get_peaks(x)
                 IN  compute_peaks_positions(x) = {[i \in DOMAIN peaks |-> peaks[i] + 1]}
        <3> DEFINE k == LeafCount(x)
                   peaks == Py!py_get_peaks(x)
                   q == PeakPositions(k)
        <3>1. k \in 1 .. x /\ MmrSize(k) = x
            BY <2>4 DEF IsSize, LeafCount
        <3> HIDE DEF k
        <3>2. k \in Nat \ {0} /\ k \in Nat /\ k # 0 /\ k < P(MaxHeight + 1)
            BY <2>1, <3>1
        <3>3. compute_peaks_positions(x) = {q} /\ q \in Seq(Nat)
            BY <3>1, <3>2, PeaksInOrder
        <3>4. peaks = Back(0, q)
            BY <3>1, <3>2, PyPeaks
        <3> HIDE DEF peaks, q
        <3>5. [i \in DOMAIN peaks |-> peaks[i] + 1] = q
            <4>1. DOMAIN peaks = DOMAIN q /\ \A i \in DOMAIN q : peaks[i] = 0 + q[i] - 1
                BY <3>4 DEF Back
            <4>2. \A i \in DOMAIN q : q[i] \in Nat
                BY <3>3
            <4>3. \A i \in DOMAIN q : peaks[i] + 1 = q[i]
                BY <4>1, <4>2
            <4>4. q = [i \in DOMAIN q |-> q[i]]
                BY <3>3
            <4> QED
                BY <4>1, <4>3, <4>4
        <3> QED
            BY <3>3, <3>5 DEF peaks
    <2> QED
        BY <2>2, <2>3, <2>4 DEF ToolsAgree
<1> QED
    BY <1>1, CountedToTheBound, PTL

=============================================================================
