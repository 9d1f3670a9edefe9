--------------------------- MODULE DBServerProofs ---------------------------
(***************************************************************************)
(* Theorems about DBServer, for tables of every size, every hash and every *)
(* draw, as long as both ends count the same chunks (SameChunks).  The     *)
(* first part says what sizes the operators of OblvSwitchNet keep, the     *)
(* second counts the messages of the scripts, the third is the invariant   *)
(* that ties a channel to what its ends have counted; the fourth says what *)
(* those operators compute, and the fifth ties it to what each server      *)
(* holds at each place of its script.                                      *)
(***************************************************************************)
EXTENDS DBServer, FoldFacts, SequenceTheorems, FiniteSetTheorems

-----------------------------------------------------------------------------
(* Chunks.                                                                 *)
LEMMA ChunksFacts ==
  ASSUME NEW rows \in Nat \ {0}
  PROVE  /\ Chunks(rows) \in Nat \ {0}
         /\ \A c \in 1 .. Chunks(rows) :
              /\ (c - 1) * Step \in Nat /\ (c - 1) * Step < rows
              /\ ChunkLen(rows, c) \in Nat /\ (c - 1) * Step + ChunkLen(rows, c) <= rows
              /\ ChunkRows(rows, c) = ((c - 1) * Step + 1) .. ((c - 1) * Step + ChunkLen(rows, c))
<1>0. Step \in Nat \ {0}
  BY StepAssumption
<1> DEFINE q == Chunks(rows)
<1>1. q \in Nat /\ q * Step <= rows + Step - 1 /\ rows + Step - 1 < q * Step + Step
  BY <1>0 DEF Chunks
<1>2. q # 0
  BY <1>0, <1>1
<1> HIDE DEF q
<1>3. ASSUME NEW c \in 1 .. q
      PROVE  /\ (c - 1) * Step \in Nat /\ (c - 1) * Step < rows
             /\ ChunkLen(rows, c) \in Nat /\ (c - 1) * Step + ChunkLen(rows, c) <= rows
             /\ ChunkRows(rows, c) = ((c - 1) * Step + 1) .. ((c - 1) * Step + ChunkLen(rows, c))
  <2>1. c * Step <= q * Step
    BY <1>0, <1>1
  <2>2. c * Step = (c - 1) * Step + Step /\ (c - 1) * Step \in Nat /\ c * Step \in Nat
    BY <1>0
  <2> DEFINE b == (c - 1) * Step
             e == c * Step
  <2>3. ChunkLen(rows, c) = (IF e < rows THEN e ELSE rows) - b
    BY DEF ChunkLen, ChunkEnd
  <2>4. ChunkRows(rows, c) = (b + 1) .. (IF e < rows THEN e ELSE rows)
    BY DEF ChunkRows, ChunkEnd
  <2>5. b \in Nat /\ e \in Nat /\ e = b + Step /\ b < rows
    BY <1>0, <1>1, <2>1, <2>2
  <2> HIDE DEF b, e
  <2>6. ChunkLen(rows, c) \in Nat /\ b + ChunkLen(rows, c) <= rows
    BY <1>0, <2>3, <2>5
  <2>7. b + ChunkLen(rows, c) = IF e < rows THEN e ELSE rows
    BY <1>0, <2>3, <2>5
  <2> QED
    BY <2>4, <2>5, <2>6, <2>7 DEF b
<1> QED
  BY <1>1, <1>2, <1>3 DEF q

-----------------------------------------------------------------------------
(* What the folds of OblvSwitchNet keep.                                   *)
(* Receiving rows keeps the number of rows.                                *)
LEMMA PlacedKeeps ==
  ASSUME NEW dest, NEW perm, NEW rows, NEW n0, NEW m0,
         Matrix(dest, m0), Matrix(perm, n0)
  PROVE  Matrix(Placed(dest, perm, rows), m0)
<1> DEFINE n == n0
           base == dest
           D == [1 .. m0 -> {dest[i] : i \in 1 .. m0} \cup {rows[i] : i \in 1 .. n0}]
           seq == [i \in DOMAIN perm |-> i]
           Op(t, k) == LET i == seq[k] IN IF perm[i] = 0 THEN t ELSE [t EXCEPT ![perm[i]] = rows[i]]
           St == [x \in D \X (1 .. n) |-> Op(x[1], x[2])]
<1>1. n \in Nat /\ base \in D
  BY DEF Matrix
<1>2. \A t \in D : \A k \in 1 .. n : Op(t, k) \in D
  BY MatrixLen
<1>3. \A t \in D : (Placed(dest, perm, rows) = t) => (Matrix(Placed(dest, perm, rows), m0))
  BY DEF Matrix
<1>a. DOMAIN seq = 1 .. n
  BY MatrixLen
<1> DEFINE Is(G) == G = [s1 \in SUBSET (1 .. n) |-> IF s1 = {} THEN base ELSE Op(G[s1 \ {Max(s1)}], Max(s1))]
           iter == CHOOSE G : Is(G)
<1>b. (\E G : Is(G)) => Is(iter) /\ Placed(dest, perm, rows) = iter[1 .. n]
  <2>1. (\E G : Is(G)) => Is(iter)
    <3> HIDE DEF Is
    <3> QED
      OBVIOUS
  <2>2. Placed(dest, perm, rows) = iter[1 .. n]
    BY <1>a, Zenon DEF FoldLeft, MapThenFoldSet, Placed, Op
  <2> HIDE DEF iter, Is
  <2> QED
    BY <2>1, <2>2
<1> HIDE DEF n, D, Op, base, seq
<1>4. St \in [D \X (1 .. n) -> D]
  BY <1>2
<1>5. \A s1 \in SUBSET (1 .. n) : s1 # {} => Max(s1) \in 1 .. n
  <2> HIDE DEF Max
  <2> QED
    BY <1>1, MaxOfSubset
<1>6. \A G : \A s1 \in SUBSET (1 .. n) : s1 # {} /\ G[s1 \ {Max(s1)}] \in D =>
          St[<<G[s1 \ {Max(s1)}], Max(s1)>>] = Op(G[s1 \ {Max(s1)}], Max(s1))
  <2> HIDE DEF Max
  <2> QED
    BY <1>5
<1> HIDE DEF St, Max
<1>7. PICK F \in [SUBSET (1 .. n) -> D] : Folds(F, n, base, St)
  BY <1>1, <1>4, FoldExists
<1>8. Is(F)
  BY <1>6, <1>7 DEF Folds
<1>9. Is(iter) /\ Placed(dest, perm, rows) = iter[1 .. n]
  <2> HIDE DEF iter, Is
  <2> QED
    BY <1>b, <1>8
<1> HIDE DEF iter
<1>10. Unfolds(iter, n, D, base, St)
  BY <1>1, <1>4, <1>6, <1>9 DEF Unfolds
<1>11. iter[1 .. n] \in D
  BY <1>10, FoldStays
<1> QED
  BY <1>3, <1>9, <1>11

(* What a row is swapped with is a row of the same chunk or behind.        *)
LEMMA SwapIdxIn ==
  ASSUME NEW draws, NEW rows \in Nat, NEW i \in 1 .. rows, draws[i] \in Nat
  PROVE  SwapIdx(draws, rows, i) \in i .. rows
<1> DEFINE w == draws[i]
           q == rows + 1 - i
<1>1. w \in Nat /\ q \in Nat \ {0}
  OBVIOUS
<1> HIDE DEF w, q
<1>2. w % q \in Nat /\ w % q < q
  BY <1>1
<1>3. SwapIdx(draws, rows, i) = (w % q) + i
  BY DEF SwapIdx, w, q
<1> QED
  BY <1>2, <1>3 DEF q

(* Rows 1 .. m of s in another order, those before chunk c where they were.*)
Unmoved(s, m, c) == {t \in [1 .. m -> {s[i] : i \in 1 .. m}] : \A i \in 1 .. (c - 1) * Step : t[i] = s[i]}

(* One swap of the shuffle.                                                *)
LEMMA ShuffleStep ==
  ASSUME NEW s, NEW draws, NEW m \in Nat \ {0}, NEW c \in 1 .. Chunks(m), NEW t \in Unmoved(s, m, c),
         NEW k \in 1 .. ChunkLen(m, c), \A i \in 1 .. m : draws[i] \in Nat
  PROVE  Swapped(t, (c - 1) * Step + k, SwapIdx(draws, m, (c - 1) * Step + k)) \in Unmoved(s, m, c)
<1> DEFINE b == (c - 1) * Step
           V == {s[i] : i \in 1 .. m}
           j == SwapIdx(draws, m, b + k)
<1>1. b \in Nat /\ b + ChunkLen(m, c) <= m /\ ChunkLen(m, c) \in Nat
  BY ChunksFacts
<1>2. t \in [1 .. m -> V] /\ \A i \in 1 .. b : t[i] = s[i]
  BY DEF Unmoved
<1> SUFFICES /\ Swapped(t, b + k, j) \in [1 .. m -> V]
             /\ \A i \in 1 .. b : Swapped(t, b + k, j)[i] = s[i]
  BY DEF Unmoved
<1> HIDE DEF b, V
<1>3. b + k \in 1 .. m
  BY <1>1
<1>4. j \in (b + k) .. m
  BY <1>3, SwapIdxIn
<1> DEFINE i0 == b + k
<1> HIDE DEF j
<1>5. i0 \in 1 .. m /\ j \in 1 .. m /\ j > b
  BY <1>1, <1>3, <1>4
<1> HIDE DEF i0
<1>6. /\ Swapped(t, i0, j) \in [1 .. m -> V]
      /\ \A x \in 1 .. m : x # i0 /\ x # j => Swapped(t, i0, j)[x] = t[x]
  BY <1>2, <1>5 DEF Swapped
<1>7. \A i \in 1 .. b : i \in 1 .. m /\ i # i0 /\ i # j
  BY <1>1, <1>3, <1>5 DEF i0
<1> QED
  BY <1>2, <1>6, <1>7 DEF i0

(* Shuffling a chunk keeps the number of rows and the chunks before it.    *)
LEMMA ShuffleKeeps ==
  ASSUME NEW s, NEW draws, NEW m0 \in Nat \ {0}, NEW c \in 1 .. Chunks(m0),
         Matrix(s, m0), \A i \in 1 .. m0 : draws[i] \in Nat
  PROVE  /\ Matrix(ShuffleChunk(s, draws, c), m0)
         /\ \A i \in 1 .. (c - 1) * Step : ShuffleChunk(s, draws, c)[i] = s[i]
<1> DEFINE n == ChunkLen(Len(s), c)
           base == s
           D == Unmoved(s, m0, c)
           seq == [k \in 1 .. ChunkLen(Len(s), c) |-> (c - 1) * Step + k]
           Op(t, k) == LET i == seq[k] IN Swapped(t, i, SwapIdx(draws, Len(s), i))
           St == [x \in D \X (1 .. n) |-> Op(x[1], x[2])]
<1>1. n \in Nat /\ base \in D
  BY ChunksFacts, MatrixLen DEF Matrix, Unmoved
<1>2. \A t \in D : \A k \in 1 .. n : Op(t, k) \in D
  <2>1. Len(s) = m0 /\ n = ChunkLen(m0, c)
    BY MatrixLen
  <2>2. \A k \in 1 .. n : seq[k] = (c - 1) * Step + k
    BY <2>1
  <2> HIDE DEF seq
  <2>3. \A t \in D : \A k \in 1 .. n : Op(t, k) = Swapped(t, (c - 1) * Step + k, SwapIdx(draws, m0, (c - 1) * Step + k))
    BY <2>1, <2>2
  <2> HIDE DEF Op, n
  <2> QED
    BY <2>1, <2>3, ShuffleStep
<1>3. \A t \in D : (ShuffleChunk(s, draws, c) = t) =>
          /\ Matrix(ShuffleChunk(s, draws, c), m0)
          /\ \A i \in 1 .. (c - 1) * Step : ShuffleChunk(s, draws, c)[i] = s[i]
  BY DEF Matrix, Unmoved
<1>a. DOMAIN seq = 1 .. n
  OBVIOUS
<1> DEFINE Is(G) == G = [s1 \in SUBSET (1 .. n) |-> IF s1 = {} THEN base ELSE Op(G[s1 \ {Max(s1)}], Max(s1))]
           iter == CHOOSE G : Is(G)
<1>b. (\E G : Is(G)) => Is(iter) /\ ShuffleChunk(s, draws, c) = iter[1 .. n]
  <2>1. (\E G : Is(G)) => Is(iter)
    <3> HIDE DEF Is
    <3> QED
      OBVIOUS
  <2>2. ShuffleChunk(s, draws, c) = iter[1 .. n]
    BY <1>a, Zenon DEF FoldLeft, MapThenFoldSet, ShuffleChunk, Op
  <2> HIDE DEF iter, Is
  <2> QED
    BY <2>1, <2>2
<1> HIDE DEF n, D, Op, base, seq
<1>4. St \in [D \X (1 .. n) -> D]
  BY <1>2
<1>5. \A s1 \in SUBSET (1 .. n) : s1 # {} => Max(s1) \in 1 .. n
  <2> HIDE DEF Max
  <2> QED
    BY <1>1, MaxOfSubset
<1>6. \A G : \A s1 \in SUBSET (1 .. n) : s1 # {} /\ G[s1 \ {Max(s1)}] \in D =>
          St[<<G[s1 \ {Max(s1)}], Max(s1)>>] = Op(G[s1 \ {Max(s1)}], Max(s1))
  <2> HIDE DEF Max
  <2> QED
    BY <1>5
<1> HIDE DEF St, Max
<1>7. PICK F \in [SUBSET (1 .. n) -> D] : Folds(F, n, base, St)
  BY <1>1, <1>4, FoldExists
<1>8. Is(F)
  BY <1>6, <1>7 DEF Folds
<1>9. Is(iter) /\ ShuffleChunk(s, draws, c) = iter[1 .. n]
  <2> HIDE DEF iter, Is
  <2> QED
    BY <1>b, <1>8
<1> HIDE DEF iter
<1>10. Unfolds(iter, n, D, base, St)
  BY <1>1, <1>4, <1>6, <1>9 DEF Unfolds
<1>11. iter[1 .. n] \in D
  BY <1>10, FoldStays
<1> QED
  BY <1>3, <1>9, <1>11

MaskRows(n) == UNION {Mask(x) : x \in 1 .. n}

(* A mask is made of the atoms of masks.                                   *)
LEMMA MaskIn ==
  ASSUME NEW n, NEW k \in 1 .. n
  PROVE  Mask(k) \subseteq MaskRows(n)
<1>1. Mask(k) \in {Mask(x) : x \in 1 .. n}
  OBVIOUS
<1> QED
  BY <1>1, Zenon DEF MaskRows

(* Removing masks keeps the number of rows.                                *)
LEMMA UnmaskedKeeps ==
  ASSUME NEW dest, NEW perm, NEW additive, NEW n0, NEW m0,
         Matrix(dest, m0), Matrix(perm, n0)
  PROVE  Matrix(Unmasked(dest, perm, additive), m0)
<1> DEFINE n == n0
           base == dest
           D == [1 .. m0 -> SUBSET ((UNION {dest[x] : x \in 1 .. m0}) \cup MaskRows(n0))]
           seq == [i \in DOMAIN perm |-> i]
           Op(t, k) == LET i == seq[k] IN IF perm[i] = 0 THEN t ELSE [t EXCEPT ![perm[i]] = IF additive THEN Xor(@, Mask(i)) ELSE Mask(i)]
           St == [x \in D \X (1 .. n) |-> Op(x[1], x[2])]
<1>1. n \in Nat /\ base \in D
  <2>1. dest = [x \in 1 .. m0 |-> dest[x]] /\ n0 \in Nat
    BY DEF Matrix
  <2>2. \A x \in 1 .. m0 : dest[x] \in SUBSET UNION {dest[y] : y \in 1 .. m0}
    BY Zenon
  <2> QED
    BY <2>1, <2>2
<1>2. \A t \in D : \A k \in 1 .. n : Op(t, k) \in D
  <2> DEFINE U == (UNION {dest[x] : x \in 1 .. m0}) \cup MaskRows(n0)
  <2> SUFFICES ASSUME NEW t \in D, NEW k \in 1 .. n PROVE Op(t, k) \in D
    OBVIOUS
  <2>1. seq[k] = k /\ k \in 1 .. n0
    BY MatrixLen
  <2>2. Mask(k) \subseteq U
    <3>1. Mask(k) \subseteq MaskRows(n0)
      BY <2>1, MaskIn
    <3> QED
      BY <3>1, Zenon
  <2>3. t \in [1 .. m0 -> SUBSET U]
    OBVIOUS
  <2> DEFINE v == IF additive THEN Xor(t[perm[k]], Mask(k)) ELSE Mask(k)
  <2>4. perm[k] \in 1 .. m0 => v \in SUBSET U
    <3> HIDE DEF U
    <3> QED
      BY <2>2, <2>3 DEF Xor
  <2>5. Op(t, k) = IF perm[k] = 0 THEN t ELSE [t EXCEPT ![perm[k]] = v]
    <3> HIDE DEF seq
    <3> QED
      BY <2>1, Zenon
  <2> HIDE DEF U, v, Op
  <2>6. Op(t, k) \in [1 .. m0 -> SUBSET U]
    BY <2>3, <2>4, <2>5
  <2> QED
    BY <2>6 DEF U
<1>3. \A t \in D : (Unmasked(dest, perm, additive) = t) => (Matrix(Unmasked(dest, perm, additive), m0))
  BY DEF Matrix
<1>a. DOMAIN seq = 1 .. n
  BY MatrixLen
<1> DEFINE Is(G) == G = [s1 \in SUBSET (1 .. n) |-> IF s1 = {} THEN base ELSE Op(G[s1 \ {Max(s1)}], Max(s1))]
           iter == CHOOSE G : Is(G)
<1>b. (\E G : Is(G)) => Is(iter) /\ Unmasked(dest, perm, additive) = iter[1 .. n]
  <2>1. (\E G : Is(G)) => Is(iter)
    <3> HIDE DEF Is
    <3> QED
      OBVIOUS
  <2>2. Unmasked(dest, perm, additive) = iter[1 .. n]
    BY <1>a, Zenon DEF FoldLeft, MapThenFoldSet, Unmasked, Op
  <2> HIDE DEF iter, Is
  <2> QED
    BY <2>1, <2>2
<1> HIDE DEF n, D, Op, base, seq
<1>4. St \in [D \X (1 .. n) -> D]
  BY <1>2
<1>5. \A s1 \in SUBSET (1 .. n) : s1 # {} => Max(s1) \in 1 .. n
  <2> HIDE DEF Max
  <2> QED
    BY <1>1, MaxOfSubset
<1>6. \A G : \A s1 \in SUBSET (1 .. n) : s1 # {} /\ G[s1 \ {Max(s1)}] \in D =>
          St[<<G[s1 \ {Max(s1)}], Max(s1)>>] = Op(G[s1 \ {Max(s1)}], Max(s1))
  <2> HIDE DEF Max
  <2> QED
    BY <1>5
<1> HIDE DEF St, Max
<1>7. PICK F \in [SUBSET (1 .. n) -> D] : Folds(F, n, base, St)
  BY <1>1, <1>4, FoldExists
<1>8. Is(F)
  BY <1>6, <1>7 DEF Folds
<1>9. Is(iter) /\ Unmasked(dest, perm, additive) = iter[1 .. n]
  <2> HIDE DEF iter, Is
  <2> QED
    BY <1>b, <1>8
<1> HIDE DEF iter
<1>10. Unfolds(iter, n, D, base, St)
  BY <1>1, <1>4, <1>6, <1>9 DEF Unfolds
<1>11. iter[1 .. n] \in D
  BY <1>10, FoldStays
<1> QED
  BY <1>3, <1>9, <1>11

(* The prefix sums of finalize, one by one.                                *)
SumBefore(counts, i) == FoldLeft(LAMBDA s, j : s + counts[j], 0, [j \in 1 .. i - 1 |-> j])

(* A sum of numbers is a number.                                           *)
LEMMA SumBeforeNat ==
  ASSUME NEW counts, NEW b0, NEW i0,
         b0 \in Nat, counts \in [1 .. b0 -> Nat], i0 \in 1 .. b0
  PROVE  SumBefore(counts, i0) \in Nat
<1> DEFINE n == i0 - 1
           base == 0
           D == Nat
           seq == [j \in 1 .. i0 - 1 |-> j]
           Op(t, k) == LET i == seq[k] IN t + counts[i]
           St == [x \in D \X (1 .. n) |-> Op(x[1], x[2])]
<1>1. n \in Nat /\ base \in D
  OBVIOUS
<1>2. \A t \in D : \A k \in 1 .. n : Op(t, k) \in D
  OBVIOUS
<1>3. \A t \in D : (SumBefore(counts, i0) = t) => (SumBefore(counts, i0) \in Nat)
  OBVIOUS
<1>a. DOMAIN seq = 1 .. n
  OBVIOUS
<1> DEFINE Is(G) == G = [s1 \in SUBSET (1 .. n) |-> IF s1 = {} THEN base ELSE Op(G[s1 \ {Max(s1)}], Max(s1))]
           iter == CHOOSE G : Is(G)
<1>b. (\E G : Is(G)) => Is(iter) /\ SumBefore(counts, i0) = iter[1 .. n]
  <2>1. (\E G : Is(G)) => Is(iter)
    <3> HIDE DEF Is
    <3> QED
      OBVIOUS
  <2>2. SumBefore(counts, i0) = iter[1 .. n]
    BY <1>a, Zenon DEF FoldLeft, MapThenFoldSet, SumBefore, Op, seq
  <2> HIDE DEF iter, Is
  <2> QED
    BY <2>1, <2>2
<1> HIDE DEF n, D, Op, base, seq
<1>4. St \in [D \X (1 .. n) -> D]
  BY <1>2
<1>5. \A s1 \in SUBSET (1 .. n) : s1 # {} => Max(s1) \in 1 .. n
  <2> HIDE DEF Max
  <2> QED
    BY <1>1, MaxOfSubset
<1>6. \A G : \A s1 \in SUBSET (1 .. n) : s1 # {} /\ G[s1 \ {Max(s1)}] \in D =>
          St[<<G[s1 \ {Max(s1)}], Max(s1)>>] = Op(G[s1 \ {Max(s1)}], Max(s1))
  <2> HIDE DEF Max
  <2> QED
    BY <1>5
<1> HIDE DEF St, Max
<1>7. PICK F \in [SUBSET (1 .. n) -> D] : Folds(F, n, base, St)
  BY <1>1, <1>4, FoldExists
<1>8. Is(F)
  BY <1>6, <1>7 DEF Folds
<1>9. Is(iter) /\ SumBefore(counts, i0) = iter[1 .. n]
  <2> HIDE DEF iter, Is
  <2> QED
    BY <1>b, <1>8
<1> HIDE DEF iter
<1>10. Unfolds(iter, n, D, base, St)
  BY <1>1, <1>4, <1>6, <1>9 DEF Unfolds
<1>11. iter[1 .. n] \in D
  BY <1>10, FoldStays
<1> QED
  BY <1>3, <1>9, <1>11

(* Orders of 1 .. m: every row is somewhere, and only there.               *)
Orders(m) ==
  {t \in [1 .. m -> 1 .. m] : /\ \A i, j \in 1 .. m : t[i] = t[j] => i = j
                              /\ \A v \in 1 .. m : \E i \in 1 .. m : t[i] = v}

(* Swapping keeps an order one.                                            *)
LEMMA SwappedOrder ==
  ASSUME NEW m \in Nat, NEW t \in Orders(m), NEW i \in 1 .. m, NEW j \in 1 .. m
  PROVE  /\ Swapped(t, i, j) \in Orders(m)
         /\ \A x \in 1 .. m : x # i /\ x # j => Swapped(t, i, j)[x] = t[x]
<1> DEFINE u == Swapped(t, i, j)
<1>1. t \in [1 .. m -> 1 .. m] /\ (\A x, y \in 1 .. m : t[x] = t[y] => x = y)
  BY DEF Orders
<1>2. /\ u \in [1 .. m -> 1 .. m] /\ u[i] = t[j] /\ u[j] = t[i]
      /\ \A x \in 1 .. m : x # i /\ x # j => u[x] = t[x]
  BY <1>1 DEF Swapped
<1> HIDE DEF u
<1>3. \A x, y \in 1 .. m : u[x] = u[y] => x = y
  BY <1>1, <1>2
<1>4. ASSUME NEW v \in 1 .. m PROVE \E x \in 1 .. m : u[x] = v
  <2>1. PICK x \in 1 .. m : t[x] = v
    BY DEF Orders
  <2> QED
    BY <1>2, <2>1
<1> QED
  BY <1>2, <1>3, <1>4 DEF Orders, u

(* A matrix with the rows of another in some order.                        *)
Rearranges(a, s, n) == \E o \in Orders(n) : a = [i \in 1 .. n |-> s[o[i]]]

(* It has them in some order after a swap too.                             *)
LEMMA RearrangedSwap ==
  ASSUME NEW s, NEW a, NEW n \in Nat, NEW i \in 1 .. n, NEW j \in 1 .. n, Rearranges(a, s, n)
  PROVE  Rearranges(Swapped(a, i, j), s, n)
<1>1. PICK o \in Orders(n) : a = [x \in 1 .. n |-> s[o[x]]]
  BY DEF Rearranges
<1> DEFINE u == Swapped(o, i, j)
<1>2. u \in Orders(n)
  BY SwappedOrder
<1>3. o \in [1 .. n -> 1 .. n]
  BY DEF Orders
<1>4. u \in [1 .. n -> 1 .. n] /\ u[i] = o[j] /\ u[j] = o[i] /\ \A x \in 1 .. n : x # i /\ x # j => u[x] = o[x]
  BY <1>3 DEF Swapped
<1>5. Swapped(a, i, j) = [x \in 1 .. n |-> IF x = j THEN a[i] ELSE IF x = i THEN a[j] ELSE a[x]]
  BY <1>1 DEF Swapped
<1> HIDE DEF u
<1>6. \A x \in 1 .. n : (IF x = j THEN a[i] ELSE IF x = i THEN a[j] ELSE a[x]) = s[u[x]]
  BY <1>1, <1>4
<1>7. Swapped(a, i, j) = [x \in 1 .. n |-> s[u[x]]]
  BY <1>5, <1>6
<1> QED
  BY <1>2, <1>7 DEF Rearranges

(* At first they are in their own order.                                   *)
LEMMA SameOrder ==
  ASSUME NEW s, NEW V, NEW n, n \in Nat, s \in [1 .. n -> V]
  PROVE  Rearranges(s, s, n)
<1> DEFINE o == [i \in 1 .. n |-> i]
<1>1. o \in Orders(n)
  BY DEF Orders
<1>2. s = [i \in 1 .. n |-> s[o[i]]]
  OBVIOUS
<1> HIDE DEF o
<1> QED
  BY <1>1, <1>2 DEF Rearranges

(* Where finalize is: the switches, and the next place for each source.    *)
Sorting(sw, n, b) ==
  {t \in [a : [1 .. n -> [mSrc : 1 .. b, mDest : 1 .. n]], counts : [1 .. b -> Nat \ {0}]] : Rearranges(t.a, sw, n)}

(* One turn of moveElement keeps the program's rows in place or swaps two. *)
LEMMA TurnKeeps ==
  ASSUME NEW sw, NEW n \in Nat, NEW b \in Nat, NEW t \in Sorting(sw, n, b), NEW i \in 1 .. n
  PROVE  LET src == t.a[i].mSrc  j == t.counts[src]
         IN (IF j < i THEN [a |-> Swapped(t.a, i, j), counts |-> [t.counts EXCEPT ![src] = @ + 1]] ELSE t)
              \in Sorting(sw, n, b)
<1> DEFINE src == t.a[i].mSrc
           j == t.counts[src]
<1>1. /\ t.a \in [1 .. n -> [mSrc : 1 .. b, mDest : 1 .. n]] /\ t.counts \in [1 .. b -> Nat \ {0}]
      /\ src \in 1 .. b /\ j \in Nat \ {0} /\ Rearranges(t.a, sw, n)
  BY DEF Sorting
<1> HIDE DEF src, j
<1>2. CASE j < i
  <2>1. j \in 1 .. n
    BY <1>1, <1>2
  <2> DEFINE A == [1 .. n -> [mSrc : 1 .. b, mDest : 1 .. n]]
             S == [mSrc : 1 .. b, mDest : 1 .. n]
  <2> HIDE DEF S
  <2>2. Swapped(t.a, i, j) \in A
    BY <1>1, <2>1 DEF Swapped, S
  <2>3. [t.counts EXCEPT ![src] = @ + 1] \in [1 .. b -> Nat \ {0}]
    BY <1>1
  <2>3a. Rearranges(Swapped(t.a, i, j), sw, n)
    BY <1>1, <2>1, RearrangedSwap
  <2> HIDE DEF A
  <2> DEFINE x == Swapped(t.a, i, j)
             y == [t.counts EXCEPT ![src] = @ + 1]
  <2> HIDE DEF x, y
  <2>4. [a |-> x, counts |-> y] \in Sorting(sw, n, b)
    BY <2>2, <2>3, <2>3a DEF Sorting, A, x, y
  <2> QED
    BY <1>2, <2>4 DEF x, y, src, j
<1>3. CASE ~ j < i
  BY <1>3 DEF src, j
<1> QED
  BY <1>2, <1>3

(* A round of its outer loop only swaps switches.                          *)
LEMMA MoveKeeps ==
  ASSUME NEW sw, NEW st, NEW n0, NEW b0, NEW i0,
         n0 \in Nat, b0 \in Nat, i0 \in 1 .. n0, st \in Sorting(sw, n0, b0)
  PROVE  MoveElement(st, i0) \in Sorting(sw, n0, b0)
<1> DEFINE n == n0
           base == st
           D == Sorting(sw, n0, b0)
           seq == st.a
           Op(t, k) == LET i == seq[k] IN LET src == t.a[i0].mSrc  j == t.counts[src] IN IF j < i0 THEN [a |-> Swapped(t.a, i0, j), counts |-> [t.counts EXCEPT ![src] = @ + 1]] ELSE t
           St == [x \in D \X (1 .. n) |-> Op(x[1], x[2])]
<1>1. n \in Nat /\ base \in D
  OBVIOUS
<1>2. \A t \in D : \A k \in 1 .. n : Op(t, k) \in D
  BY TurnKeeps
<1>3. \A t \in D : (MoveElement(st, i0) = t) => (MoveElement(st, i0) \in Sorting(sw, n0, b0))
  OBVIOUS
<1>a. DOMAIN seq = 1 .. n
  BY DEF Sorting
<1> DEFINE Is(G) == G = [s1 \in SUBSET (1 .. n) |-> IF s1 = {} THEN base ELSE Op(G[s1 \ {Max(s1)}], Max(s1))]
           iter == CHOOSE G : Is(G)
<1>b. (\E G : Is(G)) => Is(iter) /\ MoveElement(st, i0) = iter[1 .. n]
  <2>1. (\E G : Is(G)) => Is(iter)
    <3> HIDE DEF Is
    <3> QED
      OBVIOUS
  <2>2. MoveElement(st, i0) = iter[1 .. n]
    BY <1>a, Zenon DEF FoldLeft, MapThenFoldSet, MoveElement, Op, seq
  <2> HIDE DEF iter, Is
  <2> QED
    BY <2>1, <2>2
<1> HIDE DEF n, D, Op, base, seq
<1>4. St \in [D \X (1 .. n) -> D]
  BY <1>2
<1>5. \A s1 \in SUBSET (1 .. n) : s1 # {} => Max(s1) \in 1 .. n
  <2> HIDE DEF Max
  <2> QED
    BY <1>1, MaxOfSubset
<1>6. \A G : \A s1 \in SUBSET (1 .. n) : s1 # {} /\ G[s1 \ {Max(s1)}] \in D =>
          St[<<G[s1 \ {Max(s1)}], Max(s1)>>] = Op(G[s1 \ {Max(s1)}], Max(s1))
  <2> HIDE DEF Max
  <2> QED
    BY <1>5
<1> HIDE DEF St, Max
<1>7. PICK F \in [SUBSET (1 .. n) -> D] : Folds(F, n, base, St)
  BY <1>1, <1>4, FoldExists
<1>8. Is(F)
  BY <1>6, <1>7 DEF Folds
<1>9. Is(iter) /\ MoveElement(st, i0) = iter[1 .. n]
  <2> HIDE DEF iter, Is
  <2> QED
    BY <1>b, <1>8
<1> HIDE DEF iter
<1>10. Unfolds(iter, n, D, base, St)
  BY <1>1, <1>4, <1>6, <1>9 DEF Unfolds
<1>11. iter[1 .. n] \in D
  BY <1>10, FoldStays
<1> QED
  BY <1>3, <1>9, <1>11

(* The whole loop.                                                         *)
SortFold(mSrcDests, mCounts) ==
  FoldLeft(MoveElement, [a |-> mSrcDests, counts |-> PartialSums(mCounts)],
           [i \in DOMAIN mSrcDests |-> Len(mSrcDests) + 1 - i])

(* finalize neither adds nor drops a switch.                               *)
LEMMA SortKeeps ==
  ASSUME NEW sw, NEW counts0, NEW n0, NEW b0,
         n0 \in Nat, b0 \in Nat, sw \in [1 .. n0 -> [mSrc : 1 .. b0, mDest : 1 .. n0]], counts0 \in [1 .. b0 -> Nat]
  PROVE  SortFold(sw, counts0) \in Sorting(sw, n0, b0)
<1> DEFINE n == n0
           base == [a |-> sw, counts |-> PartialSums(counts0)]
           D == Sorting(sw, n0, b0)
           seq == [i \in DOMAIN sw |-> Len(sw) + 1 - i]
           Op(t, k) == LET i == seq[k] IN MoveElement(t, i)
           St == [x \in D \X (1 .. n) |-> Op(x[1], x[2])]
<1>1. n \in Nat /\ base \in D
  <2>1. \A i \in 1 .. b0 : SumBefore(counts0, i) \in Nat
    BY SumBeforeNat
  <2>2. PartialSums(counts0) = [i \in 1 .. b0 |-> 1 + SumBefore(counts0, i)]
    BY Zenon DEF PartialSums, SumBefore
  <2>3. PartialSums(counts0) \in [1 .. b0 -> Nat \ {0}]
    BY <2>1, <2>2
  <2>4. Rearranges(sw, sw, n0)
    BY SameOrder
  <2> QED
    BY <2>3, <2>4 DEF Sorting
<1>2. \A t \in D : \A k \in 1 .. n : Op(t, k) \in D
  <2>1. Matrix(sw, n0)
    BY DEF Matrix
  <2>2. \A k \in 1 .. n : seq[k] \in 1 .. n0
    <3>1. Len(sw) = n0 /\ DOMAIN sw = 1 .. n0
      BY <2>1, MatrixLen
    <3>2. \A k \in 1 .. n0 : n0 + 1 - k \in 1 .. n0
      OBVIOUS
    <3> QED
      BY <3>1, <3>2
  <2> HIDE DEF seq, D
  <2>3. \A t \in D : \A k \in 1 .. n : MoveElement(t, seq[k]) \in D
    BY <2>2, MoveKeeps DEF D
  <2> QED
    BY <2>3
<1>3. \A t \in D : (SortFold(sw, counts0) = t) => (SortFold(sw, counts0) \in Sorting(sw, n0, b0))
  OBVIOUS
<1>a. DOMAIN seq = 1 .. n
  OBVIOUS
<1> DEFINE Is(G) == G = [s1 \in SUBSET (1 .. n) |-> IF s1 = {} THEN base ELSE Op(G[s1 \ {Max(s1)}], Max(s1))]
           iter == CHOOSE G : Is(G)
<1>b. (\E G : Is(G)) => Is(iter) /\ SortFold(sw, counts0) = iter[1 .. n]
  <2>1. (\E G : Is(G)) => Is(iter)
    <3> HIDE DEF Is
    <3> QED
      OBVIOUS
  <2>2. SortFold(sw, counts0) = iter[1 .. n]
    BY <1>a, Zenon DEF FoldLeft, MapThenFoldSet, SortFold, Op, seq
  <2> HIDE DEF iter, Is
  <2> QED
    BY <2>1, <2>2
<1> HIDE DEF n, D, Op, base, seq
<1>4. St \in [D \X (1 .. n) -> D]
  BY <1>2
<1>5. \A s1 \in SUBSET (1 .. n) : s1 # {} => Max(s1) \in 1 .. n
  <2> HIDE DEF Max
  <2> QED
    BY <1>1, MaxOfSubset
<1>6. \A G : \A s1 \in SUBSET (1 .. n) : s1 # {} /\ G[s1 \ {Max(s1)}] \in D =>
          St[<<G[s1 \ {Max(s1)}], Max(s1)>>] = Op(G[s1 \ {Max(s1)}], Max(s1))
  <2> HIDE DEF Max
  <2> QED
    BY <1>5
<1> HIDE DEF St, Max
<1>7. PICK F \in [SUBSET (1 .. n) -> D] : Folds(F, n, base, St)
  BY <1>1, <1>4, FoldExists
<1>8. Is(F)
  BY <1>6, <1>7 DEF Folds
<1>9. Is(iter) /\ SortFold(sw, counts0) = iter[1 .. n]
  <2> HIDE DEF iter, Is
  <2> QED
    BY <1>b, <1>8
<1> HIDE DEF iter
<1>10. Unfolds(iter, n, D, base, St)
  BY <1>1, <1>4, <1>6, <1>9 DEF Unfolds
<1>11. iter[1 .. n] \in D
  BY <1>10, FoldStays
<1> QED
  BY <1>3, <1>9, <1>11

(* nextFree's search.                                                      *)
Marks == [idx : Nat, node : Nat]
Skipped(sw, g) ==
  IF ~ (g.node <= Len(sw) /\ sw[g.node].mSrc = g.idx) THEN g
  ELSE [idx |-> g.idx + 1, node |-> 1 + Cardinality({n \in DOMAIN sw : sw[n].mSrc <= g.idx})]
Search(sw, f) ==
  LET Used(g) == g.node <= Len(sw) /\ sw[g.node].mSrc = g.idx
      Skip(g, unused) ==
        IF ~ Used(g) THEN g
        ELSE [idx |-> g.idx + 1,
              node |-> 1 + Cardinality({n \in DOMAIN sw : sw[n].mSrc <= g.idx})]
  IN FoldLeft(Skip, f, sw)

(* It stays among the numbers.                                             *)
LEMMA SearchKeeps ==
  ASSUME NEW sw, NEW n0, NEW f,
         Matrix(sw, n0), f \in Marks
  PROVE  Search(sw, f) \in Marks
<1> DEFINE n == n0
           base == f
           D == Marks
           seq == sw
           Op(t, k) == LET i == seq[k] IN Skipped(sw, t)
           St == [x \in D \X (1 .. n) |-> Op(x[1], x[2])]
<1>1. n \in Nat /\ base \in D
  BY MatrixLen
<1>2. \A t \in D : \A k \in 1 .. n : Op(t, k) \in D
  <2> SUFFICES ASSUME NEW t \in Marks PROVE Skipped(sw, t) \in Marks
    OBVIOUS
  <2> DEFINE A == {n1 \in DOMAIN sw : sw[n1].mSrc <= t.idx}
  <2>1. A \subseteq 1 .. n0 /\ n0 \in Nat
    BY MatrixLen
  <2>2. Cardinality(A) \in Nat
    <3> HIDE DEF A
    <3>1. IsFiniteSet(1 .. n0)
      BY <2>1, 1 \in Int, n0 \in Int, FS_Interval
    <3>2. IsFiniteSet(A)
      BY <2>1, <3>1, FS_Subset
    <3> QED
      BY <3>2, FS_CardinalityType
  <2>3. t.idx \in Nat /\ t.node \in Nat
    BY DEF Marks
  <2>4. [idx |-> t.idx + 1, node |-> 1 + Cardinality(A)] \in Marks
    <3> HIDE DEF A
    <3> QED
      BY <2>2, <2>3 DEF Marks
  <2> QED
    BY <2>4 DEF Skipped
<1>3. \A t \in D : (Search(sw, f) = t) => (Search(sw, f) \in Marks)
  OBVIOUS
<1>a. DOMAIN seq = 1 .. n
  BY MatrixLen
<1> DEFINE Is(G) == G = [s1 \in SUBSET (1 .. n) |-> IF s1 = {} THEN base ELSE Op(G[s1 \ {Max(s1)}], Max(s1))]
           iter == CHOOSE G : Is(G)
<1>b. (\E G : Is(G)) => Is(iter) /\ Search(sw, f) = iter[1 .. n]
  <2>1. (\E G : Is(G)) => Is(iter)
    <3> HIDE DEF Is
    <3> QED
      OBVIOUS
  <2>2. Search(sw, f) = iter[1 .. n]
    BY <1>a, Zenon DEF FoldLeft, MapThenFoldSet, Search, Op, seq, Skipped
  <2> HIDE DEF iter, Is
  <2> QED
    BY <2>1, <2>2
<1> HIDE DEF n, D, Op, base, seq
<1>4. St \in [D \X (1 .. n) -> D]
  BY <1>2
<1>5. \A s1 \in SUBSET (1 .. n) : s1 # {} => Max(s1) \in 1 .. n
  <2> HIDE DEF Max
  <2> QED
    BY <1>1, MaxOfSubset
<1>6. \A G : \A s1 \in SUBSET (1 .. n) : s1 # {} /\ G[s1 \ {Max(s1)}] \in D =>
          St[<<G[s1 \ {Max(s1)}], Max(s1)>>] = Op(G[s1 \ {Max(s1)}], Max(s1))
  <2> HIDE DEF Max
  <2> QED
    BY <1>5
<1> HIDE DEF St, Max
<1>7. PICK F \in [SUBSET (1 .. n) -> D] : Folds(F, n, base, St)
  BY <1>1, <1>4, FoldExists
<1>8. Is(F)
  BY <1>6, <1>7 DEF Folds
<1>9. Is(iter) /\ Search(sw, f) = iter[1 .. n]
  <2> HIDE DEF iter, Is
  <2> QED
    BY <1>b, <1>8
<1> HIDE DEF iter
<1>10. Unfolds(iter, n, D, base, St)
  BY <1>1, <1>4, <1>6, <1>9 DEF Unfolds
<1>11. iter[1 .. n] \in D
  BY <1>10, FoldStays
<1> QED
  BY <1>3, <1>9, <1>11

(* programSelect's loop: the permutation so far and nextFree's marks.      *)
Placing(rows) == [perm : [1 .. rows -> Nat], f : Marks]
PlacedAt(sw, t, n) ==
  IF n > 1 /\ sw[n - 1].mSrc = sw[n].mSrc
    THEN LET f == NextFree(sw, t.f)
         IN [perm |-> [t.perm EXCEPT ![f.free] = n], f |-> [idx |-> f.idx, node |-> f.node]]
    ELSE [t EXCEPT !.perm[sw[n].mSrc] = n]
SelectFold(sw, rows) ==
  LET Place(st, n) ==
        IF n > 1 /\ sw[n - 1].mSrc = sw[n].mSrc
          THEN LET f == NextFree(sw, st.f)
               IN [perm |-> [st.perm EXCEPT ![f.free] = n], f |-> [idx |-> f.idx, node |-> f.node]]
          ELSE [st EXCEPT !.perm[sw[n].mSrc] = n]
  IN FoldLeft(Place, [perm |-> Filled(rows, 0), f |-> [idx |-> 1, node |-> 1]], [n \in DOMAIN sw |-> n])

(* One turn of programSelect.                                              *)
LEMMA PlacedAtKeeps ==
  ASSUME NEW sw, NEW n0, NEW rows \in Nat, NEW t \in Placing(rows), NEW k \in 1 .. n0, Matrix(sw, n0)
  PROVE  PlacedAt(sw, t, k) \in Placing(rows)
<1>1. t.perm \in [1 .. rows -> Nat] /\ t.f \in Marks /\ t = [perm |-> t.perm, f |-> t.f] /\ k \in Nat
  BY MatrixLen DEF Placing
<1> DEFINE f == NextFree(sw, t.f)
<1>2. [idx |-> f.idx, node |-> f.node] \in Marks
  <2>1. Search(sw, t.f) \in Marks
    BY <1>1, SearchKeeps
  <2>2. f.idx = Search(sw, t.f).idx + 1 /\ f.node = Search(sw, t.f).node
    BY DEF NextFree, Search
  <2> HIDE DEF f
  <2> QED
    BY <2>1, <2>2 DEF Marks
<1> HIDE DEF f
<1>3. [perm |-> [t.perm EXCEPT ![f.free] = k], f |-> [idx |-> f.idx, node |-> f.node]] \in Placing(rows)
  BY <1>1, <1>2 DEF Placing
<1>4. [t EXCEPT !.perm[sw[k].mSrc] = k] \in Placing(rows)
  BY <1>1 DEF Placing
<1> QED
  BY <1>3, <1>4 DEF PlacedAt, f

(* Its length stays that of the vector it starts with.                     *)
LEMMA SelectKeeps ==
  ASSUME NEW sw, NEW n0, NEW rows,
         Matrix(sw, n0), rows \in Nat
  PROVE  SelectFold(sw, rows) \in Placing(rows)
<1> DEFINE n == n0
           base == [perm |-> Filled(rows, 0), f |-> [idx |-> 1, node |-> 1]]
           D == Placing(rows)
           seq == [n1 \in DOMAIN sw |-> n1]
           Op(t, k) == LET i == seq[k] IN PlacedAt(sw, t, i)
           St == [x \in D \X (1 .. n) |-> Op(x[1], x[2])]
<1>1. n \in Nat /\ base \in D
  BY MatrixLen DEF Placing, Marks, Filled
<1>2. \A t \in D : \A k \in 1 .. n : Op(t, k) \in D
  <2>1. \A k \in 1 .. n : seq[k] = k /\ k \in 1 .. n0
    BY MatrixLen
  <2> HIDE DEF seq
  <2> QED
    BY <2>1, PlacedAtKeeps
<1>3. \A t \in D : (SelectFold(sw, rows) = t) => (SelectFold(sw, rows) \in Placing(rows))
  OBVIOUS
<1>a. DOMAIN seq = 1 .. n
  BY MatrixLen
<1> DEFINE Is(G) == G = [s1 \in SUBSET (1 .. n) |-> IF s1 = {} THEN base ELSE Op(G[s1 \ {Max(s1)}], Max(s1))]
           iter == CHOOSE G : Is(G)
<1>b. (\E G : Is(G)) => Is(iter) /\ SelectFold(sw, rows) = iter[1 .. n]
  <2>1. (\E G : Is(G)) => Is(iter)
    <3> HIDE DEF Is
    <3> QED
      OBVIOUS
  <2>2. SelectFold(sw, rows) = iter[1 .. n]
    BY <1>a, Zenon DEF FoldLeft, MapThenFoldSet, SelectFold, Op, seq, PlacedAt, base
  <2> HIDE DEF iter, Is
  <2> QED
    BY <2>1, <2>2
<1> HIDE DEF n, D, Op, base, seq
<1>4. St \in [D \X (1 .. n) -> D]
  BY <1>2
<1>5. \A s1 \in SUBSET (1 .. n) : s1 # {} => Max(s1) \in 1 .. n
  <2> HIDE DEF Max
  <2> QED
    BY <1>1, MaxOfSubset
<1>6. \A G : \A s1 \in SUBSET (1 .. n) : s1 # {} /\ G[s1 \ {Max(s1)}] \in D =>
          St[<<G[s1 \ {Max(s1)}], Max(s1)>>] = Op(G[s1 \ {Max(s1)}], Max(s1))
  <2> HIDE DEF Max
  <2> QED
    BY <1>5
<1> HIDE DEF St, Max
<1>7. PICK F \in [SUBSET (1 .. n) -> D] : Folds(F, n, base, St)
  BY <1>1, <1>4, FoldExists
<1>8. Is(F)
  BY <1>6, <1>7 DEF Folds
<1>9. Is(iter) /\ SelectFold(sw, rows) = iter[1 .. n]
  <2> HIDE DEF iter, Is
  <2> QED
    BY <1>b, <1>8
<1> HIDE DEF iter
<1>10. Unfolds(iter, n, D, base, St)
  BY <1>1, <1>4, <1>6, <1>9 DEF Unfolds
<1>11. iter[1 .. n] \in D
  BY <1>10, FoldStays
<1> QED
  BY <1>3, <1>9, <1>11

(* The permutation of the selection has a row per source or destination.   *)
LEMMA SelectPermLen ==
  ASSUME NEW sw, NEW n0, NEW size \in Nat, Matrix(sw, n0)
  PROVE  Matrix(SelectPerm(sw, size), IF n0 < size THEN size ELSE n0)
<1> DEFINE rows == IF n0 < size THEN size ELSE n0
<1>1. rows \in Nat /\ Len(sw) = n0
  BY MatrixLen
<1>2. SelectPerm(sw, size) = SelectFold(sw, rows).perm
  BY <1>1, Zenon DEF SelectPerm, SelectFold
<1>3. SelectFold(sw, rows) \in Placing(rows)
  <2> HIDE DEF rows
  <2> QED
    BY <1>1, SelectKeeps
<1> HIDE DEF rows
<1>4. SelectFold(sw, rows).perm \in [1 .. rows -> Nat]
  BY <1>3 DEF Placing
<1> QED
  BY <1>1, <1>2, <1>4 DEF Matrix, rows

(* Atoms of rows: what the duplication can put together.                   *)
Atoms(s, n) == UNION {s[i] : i \in 1 .. n}

(* The atoms of a row are among those of its matrix.                       *)
LEMMA AtomsIn ==
  ASSUME NEW s, NEW n, NEW i \in 1 .. n
  PROVE  s[i] \subseteq Atoms(s, n)
<1>1. s[i] \in {s[x] : x \in 1 .. n}
  OBVIOUS
<1> QED
  BY <1>1, Zenon DEF Atoms

(* A sum holds no atoms but those of its parts.                            *)
LEMMA XorIn ==
  ASSUME NEW a, NEW b, NEW U, a \subseteq U, b \subseteq U
  PROVE  Xor(a, b) \in SUBSET U
BY DEF Xor

(* Adding rows keeps the number of rows.                                   *)
LEMMA AddedKeeps ==
  ASSUME NEW dest, NEW perm, NEW rows, NEW n0, NEW m0,
         Matrix(dest, m0), Matrix(perm, n0)
  PROVE  Matrix(Added(dest, perm, rows), m0)
<1> DEFINE n == n0
           base == dest
           D == [1 .. m0 -> SUBSET (Atoms(dest, m0) \cup Atoms(rows, n0))]
           seq == [n1 \in DOMAIN perm |-> n1]
           Op(t, k) == LET i == seq[k] IN [t EXCEPT ![perm[i]] = Xor(@, rows[i])]
           St == [x \in D \X (1 .. n) |-> Op(x[1], x[2])]
<1>1. n \in Nat /\ base \in D
  <2>1. \A i \in 1 .. m0 : dest[i] \subseteq Atoms(dest, m0)
    BY AtomsIn
  <2> QED
    BY <2>1 DEF Matrix
<1>2. \A t \in D : \A k \in 1 .. n : Op(t, k) \in D
  <2> DEFINE U == Atoms(dest, m0) \cup Atoms(rows, n0)
  <2> SUFFICES ASSUME NEW t \in D, NEW k \in 1 .. n PROVE Op(t, k) \in D
    OBVIOUS
  <2>1. seq[k] = k /\ k \in 1 .. n0
    BY MatrixLen
  <2> HIDE DEF seq
  <2>2. rows[k] \subseteq U
    BY <2>1, AtomsIn, Zenon
  <2>3. t \in [1 .. m0 -> SUBSET U]
    OBVIOUS
  <2> HIDE DEF U
  <2>4. perm[k] \in 1 .. m0 => Xor(t[perm[k]], rows[k]) \in SUBSET U
    BY <2>2, <2>3, XorIn
  <2> DEFINE v == Xor(t[perm[k]], rows[k])
  <2>5. Op(t, k) = [t EXCEPT ![perm[k]] = v]
    BY <2>1, Zenon
  <2> HIDE DEF v, Op
  <2>6. Op(t, k) \in [1 .. m0 -> SUBSET U]
    BY <2>3, <2>4, <2>5 DEF v
  <2> QED
    BY <2>6 DEF U
<1>3. \A t \in D : (Added(dest, perm, rows) = t) => (Matrix(Added(dest, perm, rows), m0))
  BY DEF Matrix
<1>a. DOMAIN seq = 1 .. n
  BY MatrixLen
<1> DEFINE Is(G) == G = [s1 \in SUBSET (1 .. n) |-> IF s1 = {} THEN base ELSE Op(G[s1 \ {Max(s1)}], Max(s1))]
           iter == CHOOSE G : Is(G)
<1>b. (\E G : Is(G)) => Is(iter) /\ Added(dest, perm, rows) = iter[1 .. n]
  <2>1. (\E G : Is(G)) => Is(iter)
    <3> HIDE DEF Is
    <3> QED
      OBVIOUS
  <2>2. Added(dest, perm, rows) = iter[1 .. n]
    BY <1>a, Zenon DEF FoldLeft, MapThenFoldSet, Added, Op, seq
  <2> HIDE DEF iter, Is
  <2> QED
    BY <2>1, <2>2
<1> HIDE DEF n, D, Op, base, seq
<1>4. St \in [D \X (1 .. n) -> D]
  BY <1>2
<1>5. \A s1 \in SUBSET (1 .. n) : s1 # {} => Max(s1) \in 1 .. n
  <2> HIDE DEF Max
  <2> QED
    BY <1>1, MaxOfSubset
<1>6. \A G : \A s1 \in SUBSET (1 .. n) : s1 # {} /\ G[s1 \ {Max(s1)}] \in D =>
          St[<<G[s1 \ {Max(s1)}], Max(s1)>>] = Op(G[s1 \ {Max(s1)}], Max(s1))
  <2> HIDE DEF Max
  <2> QED
    BY <1>5
<1> HIDE DEF St, Max
<1>7. PICK F \in [SUBSET (1 .. n) -> D] : Folds(F, n, base, St)
  BY <1>1, <1>4, FoldExists
<1>8. Is(F)
  BY <1>6, <1>7 DEF Folds
<1>9. Is(iter) /\ Added(dest, perm, rows) = iter[1 .. n]
  <2> HIDE DEF iter, Is
  <2> QED
    BY <1>b, <1>8
<1> HIDE DEF iter
<1>10. Unfolds(iter, n, D, base, St)
  BY <1>1, <1>4, <1>6, <1>9 DEF Unfolds
<1>11. iter[1 .. n] \in D
  BY <1>10, FoldStays
<1> QED
  BY <1>3, <1>9, <1>11

(* The rows of the transfers.                                              *)
Transferred(r, share0, share1, n) == [i \in 1 .. n |-> Xor(share0[i], share1[i][r[i]])]

(* Duplication keeps the number of rows.                                   *)
LEMMA DuplicateKeeps ==
  ASSUME NEW dest, NEW sw, NEW r, NEW share0, NEW share1, NEW m0,
         Matrix(dest, m0), m0 \in Nat \ {0}
  PROVE  Matrix(ProgramDuplicate(dest, sw, r, share0, share1), m0)
<1> DEFINE n == m0 - 1
           base == dest
           D == [1 .. m0 -> SUBSET (Atoms(dest, m0) \cup Atoms(Transferred(r, share0, share1, m0), m0))]
           seq == [k \in 1 .. Len(dest) - 1 |-> k + 1]
           Op(t, k) == LET i == seq[k] IN [t EXCEPT ![i] = Xor(t[i - Dup(sw, i)], Xor(share0[i], share1[i][r[i]]))]
           St == [x \in D \X (1 .. n) |-> Op(x[1], x[2])]
<1>1. n \in Nat /\ base \in D
  <2>1. \A i \in 1 .. m0 : dest[i] \subseteq Atoms(dest, m0)
    BY AtomsIn
  <2> QED
    BY <2>1 DEF Matrix
<1>2. \A t \in D : \A k \in 1 .. n : Op(t, k) \in D
  <2> DEFINE X == Transferred(r, share0, share1, m0)
             U == Atoms(dest, m0) \cup Atoms(X, m0)
  <2> SUFFICES ASSUME NEW t \in D, NEW k \in 1 .. n PROVE Op(t, k) \in D
    OBVIOUS
  <2>1. seq[k] = k + 1 /\ k + 1 \in 1 .. m0 /\ k + 1 - 1 \in 1 .. m0
    BY MatrixLen
  <2> HIDE DEF seq
  <2> DEFINE i0 == k + 1
  <2>2. X[i0] \subseteq U
    BY <2>1, AtomsIn, Zenon
  <2>3. X[i0] = Xor(share0[i0], share1[i0][r[i0]])
    BY <2>1 DEF Transferred
  <2>4. t \in [1 .. m0 -> SUBSET U]
    OBVIOUS
  <2>5. i0 - Dup(sw, i0) \in 1 .. m0
    BY <2>1 DEF Dup
  <2> DEFINE v == Xor(t[i0 - Dup(sw, i0)], X[i0])
  <2>6. Op(t, k) = [t EXCEPT ![i0] = v]
    BY <2>1, <2>3, Zenon
  <2> HIDE DEF U, X
  <2>7. v \in SUBSET U
    BY <2>2, <2>4, <2>5, XorIn
  <2> HIDE DEF v, Op, i0
  <2>8. Op(t, k) \in [1 .. m0 -> SUBSET U]
    BY <2>4, <2>6, <2>7
  <2> QED
    BY <2>8 DEF U, X
<1>3. \A t \in D : (ProgramDuplicate(dest, sw, r, share0, share1) = t) => (Matrix(ProgramDuplicate(dest, sw, r, share0, share1), m0))
  BY DEF Matrix
<1>a. DOMAIN seq = 1 .. n
  BY MatrixLen
<1> DEFINE Is(G) == G = [s1 \in SUBSET (1 .. n) |-> IF s1 = {} THEN base ELSE Op(G[s1 \ {Max(s1)}], Max(s1))]
           iter == CHOOSE G : Is(G)
<1>b. (\E G : Is(G)) => Is(iter) /\ ProgramDuplicate(dest, sw, r, share0, share1) = iter[1 .. n]
  <2>1. (\E G : Is(G)) => Is(iter)
    <3> HIDE DEF Is
    <3> QED
      OBVIOUS
  <2>2. ProgramDuplicate(dest, sw, r, share0, share1) = iter[1 .. n]
    BY <1>a, Zenon DEF FoldLeft, MapThenFoldSet, ProgramDuplicate, Op, seq
  <2> HIDE DEF iter, Is
  <2> QED
    BY <2>1, <2>2
<1> HIDE DEF n, D, Op, base, seq
<1>4. St \in [D \X (1 .. n) -> D]
  BY <1>2
<1>5. \A s1 \in SUBSET (1 .. n) : s1 # {} => Max(s1) \in 1 .. n
  <2> HIDE DEF Max
  <2> QED
    BY <1>1, MaxOfSubset
<1>6. \A G : \A s1 \in SUBSET (1 .. n) : s1 # {} /\ G[s1 \ {Max(s1)}] \in D =>
          St[<<G[s1 \ {Max(s1)}], Max(s1)>>] = Op(G[s1 \ {Max(s1)}], Max(s1))
  <2> HIDE DEF Max
  <2> QED
    BY <1>5
<1> HIDE DEF St, Max
<1>7. PICK F \in [SUBSET (1 .. n) -> D] : Folds(F, n, base, St)
  BY <1>1, <1>4, FoldExists
<1>8. Is(F)
  BY <1>6, <1>7 DEF Folds
<1>9. Is(iter) /\ ProgramDuplicate(dest, sw, r, share0, share1) = iter[1 .. n]
  <2> HIDE DEF iter, Is
  <2> QED
    BY <1>b, <1>8
<1> HIDE DEF iter
<1>10. Unfolds(iter, n, D, base, St)
  BY <1>1, <1>4, <1>6, <1>9 DEF Unfolds
<1>11. iter[1 .. n] \in D
  BY <1>10, FoldStays
<1> QED
  BY <1>3, <1>9, <1>11

-----------------------------------------------------------------------------
(* The scripts.                                                            *)
(* Where server p is after n calls: the round, 3 behind the last one, and  *)
(* the place in it, negative in front of the first one.                    *)
CallCount(p) == IF p = 1 THEN 27 ELSE 17
Round(p, n) ==
  IF p = 1 THEN IF n <= 9 THEN 0 ELSE IF n <= 17 THEN 1 ELSE IF n <= 25 THEN 2 ELSE 3
  ELSE IF n <= 5 THEN 0 ELSE IF n <= 10 THEN 1 ELSE IF n <= 15 THEN 2 ELSE 3
Place(p, n) ==
  LET r == Round(p, n)
  IN IF r = 3 THEN 0 ELSE IF p = 1 THEN n - 2 - 8 * r ELSE n - 1 - 5 * r

CallAt(p, n) ==
  LET r == Round(p, n)  o == Place(p, n)
  IN IF r = 3 THEN Call("finish", 0)
     ELSE IF p = 0 THEN IF o = -1 THEN PermProgram(1, "table", 0) ELSE SendRecv(r + 1)[o + 1]
     ELSE IF p = 1 THEN IF o = -2 THEN PermRecv(2, 0, "table", db.bins)
                        ELSE IF o = -1 THEN Call("ownShare", 0) ELSE Program(r + 1)[o + 1]
     ELSE IF o = -1 THEN PermSend(1, "table", db.bins) ELSE Help(r + 1)[o + 1]

(* The rounds have five, eight and five calls.                             *)
LEMMA RoundLengths ==
  ASSUME NEW h
  PROVE  Matrix(SendRecv(h), 5) /\ Matrix(Program(h), 8) /\ Matrix(Help(h), 5)
<1>1. Matrix(SendRecv(h), 5)
  BY DEF Matrix, SendRecv
<1>2. Matrix(Program(h), 8)
  BY DEF Matrix, Program
<1>3. Matrix(Help(h), 5)
  BY DEF Matrix, Help
<1> QED
  BY <1>1, <1>2, <1>3

(* A script is three rounds between what comes first and the end.          *)
LEMMA ScriptIs ==
  ASSUME NEW p \in Party
  PROVE  /\ Len(Script(p)) = CallCount(p)
         /\ \A n \in 0 .. CallCount(p) - 1 : Script(p)[n + 1] = CallAt(p, n)
<1> DEFINE z == << Call("finish", 0) >>
<1>z. Matrix(z, 1) /\ z[1] = Call("finish", 0)
  BY DEF Matrix
<1>1. CASE p = 0
  <2> DEFINE a == << PermProgram(1, "table", 0) >>
             s == Script(p)
             b1 == SendRecv(1)
             b2 == SendRecv(2)
             b3 == SendRecv(3)
  <2>1. Matrix(a, 1) /\ a[1] = PermProgram(1, "table", 0)
    BY DEF Matrix
  <2>2. s = (a \o b1 \o b2 \o b3) \o z
    BY <1>1 DEF Script
  <2>3. Matrix(b1, 5) /\ Matrix(b2, 5) /\ Matrix(b3, 5)
    BY RoundLengths
  <2> HIDE DEF a, s, b1, b2, b3, z
  <2>4. RoundsIn(s, a, 1, b1, b2, b3, 5, z)
    BY <1>z, <2>1, <2>2, <2>3, RoundsOf
  <2>5. Len(s) = 17
    <3>1. Matrix(s, 17)
      BY <2>4 DEF RoundsIn
    <3> QED
      BY <3>1, MatrixLen
  <2>6. ASSUME NEW n \in 0 .. 16 PROVE s[n + 1] = CallAt(0, n)
    <3>1. n \in 0 .. 1 + 5 + 5 + 5 /\ 1 \in Nat /\ 5 \in Nat
      OBVIOUS
    <3>2. RoundAt(s, a, 1, b1, b2, b3, 5, z, n)
      BY <2>4, <3>1, RoundsAt
    <3> QED
      BY <1>z, <2>1, <3>2 DEF RoundAt, CallAt, Round, Place, b1, b2, b3, z
  <2> QED
    BY <1>1, <2>5, <2>6 DEF s, CallCount
<1>2. CASE p = 1
  <2> DEFINE a == << PermRecv(2, 0, "table", db.bins), Call("ownShare", 0) >>
             s == Script(p)
             b1 == Program(1)
             b2 == Program(2)
             b3 == Program(3)
  <2>1. Matrix(a, 2) /\ a[1] = PermRecv(2, 0, "table", db.bins) /\ a[2] = Call("ownShare", 0)
    BY DEF Matrix
  <2>2. s = (a \o b1 \o b2 \o b3) \o z
    BY <1>2 DEF Script
  <2>3. Matrix(b1, 8) /\ Matrix(b2, 8) /\ Matrix(b3, 8)
    BY RoundLengths
  <2> HIDE DEF a, s, b1, b2, b3, z
  <2>4. RoundsIn(s, a, 2, b1, b2, b3, 8, z)
    BY <1>z, <2>1, <2>2, <2>3, RoundsOf
  <2>5. Len(s) = 27
    <3>1. Matrix(s, 27)
      BY <2>4 DEF RoundsIn
    <3> QED
      BY <3>1, MatrixLen
  <2>6. ASSUME NEW n \in 0 .. 26 PROVE s[n + 1] = CallAt(1, n)
    <3>1. n \in 0 .. 2 + 8 + 8 + 8 /\ 2 \in Nat /\ 8 \in Nat
      OBVIOUS
    <3>2. RoundAt(s, a, 2, b1, b2, b3, 8, z, n)
      BY <2>4, <3>1, RoundsAt
    <3> QED
      BY <1>z, <2>1, <3>2 DEF RoundAt, CallAt, Round, Place, b1, b2, b3, z
  <2> QED
    BY <1>2, <2>5, <2>6 DEF s, CallCount
<1>3. CASE p = 2
  <2> DEFINE a == << PermSend(1, "table", db.bins) >>
             s == Script(p)
             b1 == Help(1)
             b2 == Help(2)
             b3 == Help(3)
  <2>1. Matrix(a, 1) /\ a[1] = PermSend(1, "table", db.bins)
    BY DEF Matrix
  <2>2. s = (a \o b1 \o b2 \o b3) \o z
    BY <1>3 DEF Script
  <2>3. Matrix(b1, 5) /\ Matrix(b2, 5) /\ Matrix(b3, 5)
    BY RoundLengths
  <2> HIDE DEF a, s, b1, b2, b3, z
  <2>4. RoundsIn(s, a, 1, b1, b2, b3, 5, z)
    BY <1>z, <2>1, <2>2, <2>3, RoundsOf
  <2>5. Len(s) = 17
    <3>1. Matrix(s, 17)
      BY <2>4 DEF RoundsIn
    <3> QED
      BY <3>1, MatrixLen
  <2>6. ASSUME NEW n \in 0 .. 16 PROVE s[n + 1] = CallAt(2, n)
    <3>1. n \in 0 .. 1 + 5 + 5 + 5 /\ 1 \in Nat /\ 5 \in Nat
      OBVIOUS
    <3>2. RoundAt(s, a, 1, b1, b2, b3, 5, z, n)
      BY <2>4, <3>1, RoundsAt
    <3> QED
      BY <1>z, <2>1, <3>2 DEF RoundAt, CallAt, Round, Place, b1, b2, b3, z
  <2> QED
    BY <1>3, <2>5, <2>6 DEF s, CallCount
<1> QED
  BY <1>1, <1>2, <1>3 DEF Party

-----------------------------------------------------------------------------
(* How many messages a channel has carried.  With k chunks in a table, l   *)
(* in an output, at place o of round r, d chunks into a call:              *)
Times(r, n) == IF r = 0 THEN 0 ELSE IF r = 1 THEN n ELSE IF r = 2 THEN n + n ELSE n + n + n
Part(o, at, d, n) == IF o < at THEN 0 ELSE IF o = at THEN d ELSE n

SentAt(k, l, p, q, r, o, d) ==
  CASE p = 0 /\ q = 1 -> Part(o, -1, d, k) + 2 * r + OneIf(o > 0) + OneIf(o > 3)
    [] p = 0 /\ q = 2 -> Times(r, k) + Part(o, 2, d, k)
    [] p = 1 /\ q = 0 -> Times(r, l + 1) + OneIf(o > 0) + Part(o, 7, d, l)
    [] p = 1 /\ q = 2 -> Times(r, k + 2) + OneIf(o > 2) + Part(o, 4, d, k) + OneIf(o > 5)
    [] p = 2 /\ q = 1 -> Part(o, -1, d, k) + 2 * r + OneIf(o > 0) + OneIf(o > 3)
    [] p = 2 /\ q = 0 -> Times(r, l) + Part(o, 4, d, l)
    [] OTHER -> 0

GotAt(k, l, q, p, r, o, d) ==
  CASE p = 0 /\ q = 1 -> Times(r, l + 1) + OneIf(o > 1) + Part(o, 4, d, l)
    [] p = 0 /\ q = 2 -> Times(r, l) + Part(o, 4, d, l)
    [] p = 1 /\ q = 0 -> Part(o, -2, d, k) + 2 * r + OneIf(o > 1) + OneIf(o > 6)
    [] p = 1 /\ q = 2 -> Part(o, -2, d, k) + 2 * r + OneIf(o > 3) + OneIf(o > 6)
    [] p = 2 /\ q = 0 -> Times(r, k) + Part(o, 2, d, k)
    [] p = 2 /\ q = 1 -> Times(r, k + 2) + OneIf(o > 1) + Part(o, 2, d, k) + OneIf(o > 3)
    [] OTHER -> 0

Sent(k, l, p, q, n, d) == SentAt(k, l, p, q, Round(p, n), Place(p, n), d)
Got(k, l, q, p, n, d) == GotAt(k, l, q, p, Round(p, n), Place(p, n), d)

(* The n-th message from q to p: its kind, and what it says or how many    *)
(* rows it has.                                                            *)
Within(n, size) == IF n <= size THEN n ELSE IF n <= size + size THEN n - size ELSE n - size - size

Message(k, l, q, p, n) ==
  CASE q = 0 /\ p = 1 -> IF n <= k THEN <<"perm", ChunkLen(db.bins, n)>>
                         ELSE IF n - k \in {1, 3, 5} THEN <<"hello", SendHello>> ELSE <<"share0", 0>>
    [] q = 2 /\ p = 1 -> IF n <= k THEN <<"rows", ChunkLen(db.bins, n)>>
                         ELSE IF n - k \in {1, 3, 5} THEN <<"hello", HelpHello>> ELSE <<"share1", 0>>
    [] q = 0 /\ p = 2 -> <<"rows", ChunkLen(SrcRows, Within(n, k))>>
    [] q = 2 /\ p = 0 -> <<"rows", ChunkLen(Rows, Within(n, l))>>
    [] q = 1 /\ p = 0 -> LET i == Within(n, l + 1)
                         IN IF i = 1 THEN <<"hello", SendHello>> ELSE <<"perm", ChunkLen(Rows, i - 1)>>
    [] OTHER -> LET i == Within(n, k + 2)
                IN IF i = 1 THEN <<"hello", HelpHello>>
                   ELSE IF i = k + 2 THEN <<"bits", 0>> ELSE <<"perm", ChunkLen(SrcRows, i - 1)>>

(* What a call sends and takes, chunk by chunk.                            *)
To(c) ==
  IF c.op \in {"hello", "permSend", "permProgram"} THEN c.to
  ELSE IF c.op = "sendBits" THEN 2 ELSE IF c.op \in {"helpDuplicate", "sendDuplicate"} THEN 1 ELSE 3
From(c) ==
  IF c.op = "greeted" THEN {c.from} ELSE IF c.op = "permRecv" THEN {c.data, c.perm}
  ELSE IF c.op = "sendDuplicate" THEN {1} ELSE IF c.op = "programDuplicate" THEN {0, 2} ELSE {}
Size(c) ==
  IF c.op # "permProgram" THEN c.rows
  ELSE IF c.name = "table" THEN db.bins ELSE IF c.name = "temp" THEN SrcRows ELSE Rows
Span(c) == IF c.op \in {"permSend", "permProgram", "permRecv"} THEN Chunks(Size(c)) ELSE 1
Says(c, d) ==
  IF c.op = "hello" THEN <<"hello", c.what>>
  ELSE IF c.op = "permSend" THEN <<"rows", ChunkLen(c.rows, d + 1)>>
  ELSE IF c.op = "permProgram" THEN <<"perm", ChunkLen(Size(c), d + 1)>>
  ELSE IF c.op = "sendBits" THEN <<"bits", 0>>
  ELSE IF c.op = "helpDuplicate" THEN <<"share0", 0>> ELSE <<"share1", 0>>
Hears(c, d, q) ==
  IF c.op = "greeted" THEN <<"hello", c.what>>
  ELSE IF c.op = "permRecv"
    THEN <<IF q = c.data THEN "rows" ELSE "perm", ChunkLen(IF c.name = "temp" THEN SrcRows ELSE c.rows, d + 1)>>
  ELSE IF c.op = "sendDuplicate" THEN <<"bits", 0>>
  ELSE IF q = 0 THEN <<"share0", 0>> ELSE <<"share1", 0>>

(* Each step of a call moves the counters of what it sends and takes by    *)
(* one, and the message with that number is what it sends or waits for.    *)
Moves(k, l, p, n, d) ==
  LET c == CallAt(p, n)
      n1 == IF d + 1 = Span(c) THEN n + 1 ELSE n
      d1 == IF d + 1 = Span(c) THEN 0 ELSE d + 1
  IN \A q \in Party :
       /\ Sent(k, l, p, q, n1, d1) = Sent(k, l, p, q, n, d) + OneIf(q = To(c))
       /\ Got(k, l, q, p, n1, d1) = Got(k, l, q, p, n, d) + OneIf(q \in From(c))
Counted(k, l, p, n, d) ==
  LET c == CallAt(p, n)
  IN /\ Moves(k, l, p, n, d)
     /\ \A q \in Party :
          /\ q = To(c) => Message(k, l, p, q, Sent(k, l, p, q, n, d) + 1) = Says(c, d)
          /\ q \in From(c) => Message(k, l, q, p, Got(k, l, q, p, n, d) + 1) = Hears(c, d, q)

(* The tables hold the chunks that the proofs count.                       *)
Sized(k, l) == /\ k \in Nat \ {0} /\ l \in Nat \ {0}
               /\ k = Chunks(db.bins) /\ k = Chunks(SrcRows) /\ l = Chunks(Rows)

(* What kind of call each is.                                              *)
LEMMA OpsAre ==
  /\ \A op, h : Call(op, h).op = op
  /\ \A to, name, rows : PermSend(to, name, rows).op = "permSend"
  /\ \A to, name, h : PermProgram(to, name, h).op = "permProgram"
  /\ \A data, perm, name, rows : PermRecv(data, perm, name, rows).op = "permRecv"
  /\ \A to, what : Hello(to, what).op = "hello" /\ Greeted(to, what).op = "greeted"
BY DEF Call, PermSend, PermProgram, PermRecv, Hello, Greeted

(* The calls of server 0 by their places,                                  *)
LEMMA Calls0 ==
  ASSUME NEW n \in Nat, NEW r, NEW o, NEW c, r = Round(0, n), o = Place(0, n), c = CallAt(0, n), r # 3
  PROVE  /\ r \in 0 .. 2 /\ o \in -1 .. 4 /\ (o < 0 => r = 0)
         /\ o = -1 => c = PermProgram(1, "table", 0) /\ c.op = "permProgram"
         /\ o = 0 => c = Hello(1, SendHello) /\ c.op = "hello"
         /\ o = 1 => c = Greeted(1, SendHello) /\ c.op = "greeted"
         /\ o = 2 => c = PermSend(2, "table", SrcRows) /\ c.op = "permSend"
         /\ o = 3 => c = Call("helpDuplicate", r + 1) /\ c.op = "helpDuplicate"
         /\ o = 4 => c = PermRecv(2, 1, Out(r + 1), Rows) /\ c.op = "permRecv"
<1>1. r \in 0 .. 2 /\ o \in -1 .. 4 /\ (o < 0 => r = 0)
  BY DEF Round, Place
<1>2. c = IF o = -1 THEN PermProgram(1, "table", 0) ELSE SendRecv(r + 1)[o + 1]
  BY <1>1 DEF CallAt
<1>3. /\ o = 0 => c = Hello(1, SendHello)
      /\ o = 1 => c = Greeted(1, SendHello)
      /\ o = 2 => c = PermSend(2, "table", SrcRows)
      /\ o = 3 => c = Call("helpDuplicate", r + 1)
      /\ o = 4 => c = PermRecv(2, 1, Out(r + 1), Rows)
  BY <1>2 DEF SendRecv
<1> QED
  BY <1>1, <1>2, <1>3, OpsAre

(* those of server 1                                                       *)
LEMMA Calls1 ==
  ASSUME NEW n \in Nat, NEW r, NEW o, NEW c, r = Round(1, n), o = Place(1, n), c = CallAt(1, n), r # 3
  PROVE  /\ r \in 0 .. 2 /\ o \in -2 .. 7 /\ (o < 0 => r = 0)
         /\ o = -2 => c = PermRecv(2, 0, "table", db.bins) /\ c.op = "permRecv"
         /\ o = -1 => c = Call("ownShare", 0) /\ c.op = "ownShare"
         /\ o = 0 => c = Hello(0, SendHello) /\ c.op = "hello"
         /\ o = 1 => c = Greeted(0, SendHello) /\ c.op = "greeted"
         /\ o = 2 => c = Hello(2, HelpHello) /\ c.op = "hello"
         /\ o = 3 => c = Greeted(2, HelpHello) /\ c.op = "greeted"
         /\ o = 4 => c = PermProgram(2, "temp", r + 1) /\ c.op = "permProgram"
         /\ o = 5 => c = Call("sendBits", r + 1) /\ c.op = "sendBits"
         /\ o = 6 => c = Call("programDuplicate", r + 1) /\ c.op = "programDuplicate"
         /\ o = 7 => c = PermProgram(0, Out(r + 1), r + 1) /\ c.op = "permProgram"
<1>1. r \in 0 .. 2 /\ o \in -2 .. 7 /\ (o < 0 => r = 0)
  BY DEF Round, Place
<1>2. c = IF o = -2 THEN PermRecv(2, 0, "table", db.bins)
          ELSE IF o = -1 THEN Call("ownShare", 0) ELSE Program(r + 1)[o + 1]
  BY <1>1 DEF CallAt
<1>3. /\ o = 0 => c = Hello(0, SendHello)
      /\ o = 1 => c = Greeted(0, SendHello)
      /\ o = 2 => c = Hello(2, HelpHello)
      /\ o = 3 => c = Greeted(2, HelpHello)
      /\ o = 4 => c = PermProgram(2, "temp", r + 1)
      /\ o = 5 => c = Call("sendBits", r + 1)
      /\ o = 6 => c = Call("programDuplicate", r + 1)
      /\ o = 7 => c = PermProgram(0, Out(r + 1), r + 1)
  BY <1>2 DEF Program
<1> QED
  BY <1>1, <1>2, <1>3, OpsAre

(* and those of server 2.                                                  *)
LEMMA Calls2 ==
  ASSUME NEW n \in Nat, NEW r, NEW o, NEW c, r = Round(2, n), o = Place(2, n), c = CallAt(2, n), r # 3
  PROVE  /\ r \in 0 .. 2 /\ o \in -1 .. 4 /\ (o < 0 => r = 0)
         /\ o = -1 => c = PermSend(1, "table", db.bins) /\ c.op = "permSend"
         /\ o = 0 => c = Hello(1, HelpHello) /\ c.op = "hello"
         /\ o = 1 => c = Greeted(1, HelpHello) /\ c.op = "greeted"
         /\ o = 2 => c = PermRecv(0, 1, "temp", db.bins) /\ c.op = "permRecv"
         /\ o = 3 => c = Call("sendDuplicate", r + 1) /\ c.op = "sendDuplicate"
         /\ o = 4 => c = PermSend(0, "temp", Rows) /\ c.op = "permSend"
<1>1. r \in 0 .. 2 /\ o \in -1 .. 4 /\ (o < 0 => r = 0)
  BY DEF Round, Place
<1>2. c = IF o = -1 THEN PermSend(1, "table", db.bins) ELSE Help(r + 1)[o + 1]
  BY <1>1 DEF CallAt
<1>3. /\ o = 0 => c = Hello(1, HelpHello)
      /\ o = 1 => c = Greeted(1, HelpHello)
      /\ o = 2 => c = PermRecv(0, 1, "temp", db.bins)
      /\ o = 3 => c = Call("sendDuplicate", r + 1)
      /\ o = 4 => c = PermSend(0, "temp", Rows)
  BY <1>2 DEF Help
<1> QED
  BY <1>1, <1>2, <1>3, OpsAre

(* The place behind a place.                                               *)
LastPlace(p) == IF p = 1 THEN 7 ELSE 4

(* Behind the last place of a round comes the first one of the next.       *)
LEMMA NextPlace ==
  ASSUME NEW p \in Party, NEW n \in Nat
  PROVE  /\ Round(p, n) # 3 => /\ Round(p, n + 1) = IF Place(p, n) = LastPlace(p) THEN Round(p, n) + 1 ELSE Round(p, n)
                              /\ Place(p, n + 1) = IF Place(p, n) = LastPlace(p) THEN 0 ELSE Place(p, n) + 1
         /\ Round(p, n) = 3 => Round(p, n + 1) = 3 /\ Place(p, n) = 0 /\ Place(p, n + 1) = 0 /\ CallAt(p, n) = Call("finish", 0)
<1>1. CASE p = 0
  BY <1>1 DEF Round, Place, LastPlace, CallAt
<1>2. CASE p = 1
  BY <1>2 DEF Round, Place, LastPlace, CallAt
<1>3. CASE p = 2
  BY <1>3 DEF Round, Place, LastPlace, CallAt
<1> QED
  BY <1>1, <1>2, <1>3 DEF Party

(* The round, counted from one, of the n-th message when a round has size. *)
Lap(n, size) == IF n <= size THEN 1 ELSE IF n <= size + size THEN 2 ELSE 3

(* Counting by rounds.                                                     *)
LEMMA LapIs ==
  ASSUME NEW r \in 0 .. 2, NEW n \in Nat
  PROVE  /\ \A i \in 1 .. n : Lap(Times(r, n) + i, n) = r + 1 /\ Within(Times(r, n) + i, n) = i
         /\ Times(r, n) \in Nat /\ Times(r + 1, n) = Times(r, n) + n
BY DEF Lap, Times, Within

(* What the messages are, by their numbers,                                *)
MessageAt(k, l, r, i) ==
  /\ i <= k => /\ Message(k, l, 0, 1, i) = <<"perm", ChunkLen(db.bins, i)>>
               /\ Message(k, l, 2, 1, i) = <<"rows", ChunkLen(db.bins, i)>>
               /\ Message(k, l, 0, 2, Times(r, k) + i) = <<"rows", ChunkLen(SrcRows, i)>>
  /\ i <= l => Message(k, l, 2, 0, Times(r, l) + i) = <<"rows", ChunkLen(Rows, i)>>
  /\ i <= l + 1 => Message(k, l, 1, 0, Times(r, l + 1) + i)
                     = IF i = 1 THEN <<"hello", SendHello>> ELSE <<"perm", ChunkLen(Rows, i - 1)>>
  /\ i <= k + 2 => Message(k, l, 1, 2, Times(r, k + 2) + i)
                     = IF i = 1 THEN <<"hello", HelpHello>>
                       ELSE IF i = k + 2 THEN <<"bits", 0>> ELSE <<"perm", ChunkLen(SrcRows, i - 1)>>

(* Each is the message it is in its round.                                 *)
LEMMA MessageIs ==
  ASSUME NEW k \in Nat, NEW l \in Nat, NEW r \in 0 .. 2, NEW i \in Nat \ {0}
  PROVE  MessageAt(k, l, r, i)
<1>1. i <= k => /\ Message(k, l, 0, 1, i) = <<"perm", ChunkLen(db.bins, i)>>
                /\ Message(k, l, 2, 1, i) = <<"rows", ChunkLen(db.bins, i)>>
                /\ Message(k, l, 0, 2, Times(r, k) + i) = <<"rows", ChunkLen(SrcRows, i)>>
  BY LapIs DEF Message
<1>2. i <= l => Message(k, l, 2, 0, Times(r, l) + i) = <<"rows", ChunkLen(Rows, i)>>
  BY LapIs DEF Message
<1>3. i <= l + 1 => Message(k, l, 1, 0, Times(r, l + 1) + i)
                      = IF i = 1 THEN <<"hello", SendHello>> ELSE <<"perm", ChunkLen(Rows, i - 1)>>
  <2>1. l + 1 \in Nat /\ (i <= l + 1 => i \in 1 .. l + 1)
    OBVIOUS
  <2>2. i <= l + 1 => Within(Times(r, l + 1) + i, l + 1) = i
    BY <2>1, LapIs, ZenonT(60)
  <2> QED
    BY <2>2 DEF Message
<1>4. i <= k + 2 => Message(k, l, 1, 2, Times(r, k + 2) + i)
                      = IF i = 1 THEN <<"hello", HelpHello>>
                        ELSE IF i = k + 2 THEN <<"bits", 0>> ELSE <<"perm", ChunkLen(SrcRows, i - 1)>>
  <2>1. k + 2 \in Nat /\ (i <= k + 2 => i \in 1 .. k + 2)
    OBVIOUS
  <2>2. i <= k + 2 => Within(Times(r, k + 2) + i, k + 2) = i
    BY <2>1, LapIs
  <2> QED
    BY <2>2 DEF Message
<1> QED
  BY <1>1, <1>2, <1>3, <1>4 DEF MessageAt

(* and by the places of those who send and take them.                      *)
Said(k, l, r, d) ==
  /\ d < k => /\ Message(k, l, 0, 1, d + 1) = <<"perm", ChunkLen(db.bins, d + 1)>>
              /\ Message(k, l, 2, 1, d + 1) = <<"rows", ChunkLen(db.bins, d + 1)>>
              /\ Message(k, l, 0, 2, Times(r, k) + d + 1) = <<"rows", ChunkLen(SrcRows, d + 1)>>
              /\ Message(k, l, 1, 2, Times(r, k + 2) + d + 1 + 1) = <<"perm", ChunkLen(SrcRows, d + 1)>>
  /\ d < l => /\ Message(k, l, 2, 0, Times(r, l) + d + 1) = <<"rows", ChunkLen(Rows, d + 1)>>
              /\ Message(k, l, 1, 0, Times(r, l + 1) + d + 1 + 1) = <<"perm", ChunkLen(Rows, d + 1)>>
  /\ Message(k, l, 0, 1, k + 2 * r + 1) = <<"hello", SendHello>>
  /\ Message(k, l, 0, 1, k + 2 * r + 1 + 1) = <<"share0", 0>>
  /\ Message(k, l, 2, 1, k + 2 * r + 1) = <<"hello", HelpHello>>
  /\ Message(k, l, 2, 1, k + 2 * r + 1 + 1) = <<"share1", 0>>
  /\ Message(k, l, 1, 0, Times(r, l + 1) + 1) = <<"hello", SendHello>>
  /\ Message(k, l, 1, 2, Times(r, k + 2) + 1) = <<"hello", HelpHello>>
  /\ Message(k, l, 1, 2, Times(r, k + 2) + k + 1 + 1) = <<"bits", 0>>

(* The numbers are those that SentAt and GotAt give at the places.         *)
LEMMA MessagesAre ==
  ASSUME NEW k \in Nat \ {0}, NEW l \in Nat \ {0}, NEW r \in 0 .. 2, NEW d \in Nat
  PROVE  Said(k, l, r, d)
<1>1. \A i \in Nat \ {0} : MessageAt(k, l, r, i)
  BY MessageIs
<1>2. d + 1 \in Nat \ {0} /\ d + 2 \in Nat \ {0} /\ k + 2 \in Nat \ {0} /\ 1 \in Nat \ {0}
  OBVIOUS
<1>3. Times(r, k) \in Nat /\ Times(r, l) \in Nat /\ Times(r, l + 1) \in Nat /\ Times(r, k + 2) \in Nat
  BY DEF Times
<1>4. MessageAt(k, l, r, d + 1) /\ MessageAt(k, l, r, d + 2) /\ MessageAt(k, l, r, k + 2) /\ MessageAt(k, l, r, 1)
  BY <1>1, <1>2
<1>5. /\ Message(k, l, 0, 1, k + 2 * r + 1) = <<"hello", SendHello>>
      /\ Message(k, l, 0, 1, k + 2 * r + 1 + 1) = <<"share0", 0>>
      /\ Message(k, l, 2, 1, k + 2 * r + 1) = <<"hello", HelpHello>>
      /\ Message(k, l, 2, 1, k + 2 * r + 1 + 1) = <<"share1", 0>>
  BY DEF Message
<1>6. /\ Times(r, k + 2) + d + 1 + 1 = Times(r, k + 2) + (d + 2) /\ Times(r, l + 1) + d + 1 + 1 = Times(r, l + 1) + (d + 2)
      /\ Times(r, k + 2) + k + 1 + 1 = Times(r, k + 2) + (k + 2) /\ (d + 2) - 1 = d + 1
      /\ Times(r, k) + d + 1 = Times(r, k) + (d + 1) /\ Times(r, l) + d + 1 = Times(r, l) + (d + 1)
  BY <1>3
<1> QED
  BY <1>4, <1>5, <1>6 DEF MessageAt, Said

(* What a step of a call at a place does to the counters.                  *)
Counting(k, l, p, r, o, d, s, to, from) ==
  LET over == d + 1 = s
      r1 == IF over /\ o = LastPlace(p) THEN r + 1 ELSE r
      o1 == IF ~ over THEN o ELSE IF o = LastPlace(p) THEN 0 ELSE o + 1
      d1 == IF over THEN 0 ELSE d + 1
  IN \A q \in Party : /\ SentAt(k, l, p, q, r1, o1, d1) = SentAt(k, l, p, q, r, o, d) + OneIf(q = to)
                      /\ GotAt(k, l, q, p, r1, o1, d1) = GotAt(k, l, q, p, r, o, d) + OneIf(q \in from)

(* A call counts when its step moves the counters and says what is due.    *)
LEMMA CountedIs ==
  ASSUME NEW p \in Party, NEW n \in Nat, NEW k, NEW l, NEW r, NEW o, NEW d, NEW c,
         r = Round(p, n), o = Place(p, n), r # 3, c = CallAt(p, n),
         Counting(k, l, p, r, o, d, Span(c), To(c), From(c)),
         \A q \in Party : /\ q = To(c) => Message(k, l, p, q, SentAt(k, l, p, q, r, o, d) + 1) = Says(c, d)
                          /\ q \in From(c) => Message(k, l, q, p, GotAt(k, l, q, p, r, o, d) + 1) = Hears(c, d, q)
  PROVE  Counted(k, l, p, n, d)
<1>1. Moves(k, l, p, n, d)
  BY NextPlace DEF Moves, Counting, Sent, Got
<1> QED
  BY <1>1 DEF Counted, Sent, Got

(* A round more is what a round has more of them.                          *)
LapsTo(r, k, l) == \A n \in {k, l, l + 1, k + 2} : Times(r + 1, n) = Times(r, n) + n /\ Times(r, n) \in Nat

(* It does, whatever the number of messages in a round.                    *)
LEMMA LapsAre ==
  ASSUME NEW r \in 0 .. 2, NEW k \in Nat, NEW l \in Nat
  PROVE  LapsTo(r, k, l)
BY DEF LapsTo, Times

(* Server 0's calls keep count,                                            *)
LEMMA Counts0 ==
  ASSUME NEW n \in Nat, NEW k, NEW l, NEW d, Round(0, n) # 3, Sized(k, l), d \in 0 .. Span(CallAt(0, n)) - 1
  PROVE  Counted(k, l, 0, n, d)
<1> DEFINE r == Round(0, n)
           o == Place(0, n)
           c == CallAt(0, n)
           S(q) == SentAt(k, l, 0, q, r, o, d)
           G(q) == GotAt(k, l, q, 0, r, o, d)
           Heed == \A q \in Party : (q = To(c) => Message(k, l, 0, q, S(q) + 1) = Says(c, d)) /\ (q \in From(c) => Message(k, l, q, 0, G(q) + 1) = Hears(c, d, q))
           Tally(s, to, from) == Counting(k, l, 0, r, o, d, s, to, from)
<1>0. 0 \in Party /\ r # 3 /\ r \in 0 .. 2 /\ k \in Nat \ {0} /\ l \in Nat \ {0} /\ d \in Nat /\ d \in 0 .. Span(c) - 1
  BY DEF Party, Round, Sized
<1>1. k = Chunks(db.bins) /\ k = Chunks(SrcRows) /\ l = Chunks(Rows)
  BY DEF Sized
<1>2. LapsTo(r, k, l) /\ Said(k, l, r, d)
  BY <1>0, LapsAre, MessagesAre
<1>3. CASE o = -1
  <2>0. r = 0 /\ c = PermProgram(1, "table", 0)
    BY <1>0, <1>3, Calls0
  <2> HIDE DEF c, r, o
  <2>1. To(c) = 1 /\ From(c) = {} /\ Span(c) = k /\ Says(c, d) = <<"perm", ChunkLen(db.bins, d + 1)>>
    BY <1>0, <2>0, <1>1 DEF To, From, Span, Size, Says, PermProgram
  <2>2. S(1) = d
    BY <1>0, <1>2, <1>3, <2>0 DEF LapsTo, SentAt, GotAt, Part, OneIf
  <2>3. Message(k, l, 0, 1, S(1) + 1) = Says(c, d)
    BY <1>0, <1>2, <2>1, <2>2 DEF Said
  <2>4. Tally(k, 1, {})
    BY <1>0, <1>2, <1>3, <2>0, <2>1 DEF LapsTo, Counting, LastPlace, SentAt, GotAt, Part, OneIf, Party
  <2>5. Heed
    BY <2>1, <2>3 DEF Party
  <2> QED
    BY <1>0, <2>1, <2>4, <2>5, CountedIs DEF c, r, o
<1>4. CASE o = 0
  <2>0. c = Hello(1, SendHello)
    BY <1>0, <1>4, Calls0
  <2> HIDE DEF c, r, o
  <2>1. To(c) = 1 /\ From(c) = {} /\ Span(c) = 1 /\ Says(c, d) = <<"hello", SendHello>>
    BY <1>0, <2>0, <1>1 DEF To, From, Span, Says, Hello
  <2>2. S(1) = k + 2 * r
    BY <1>0, <1>2, <1>4, <2>0 DEF LapsTo, SentAt, GotAt, Part, OneIf
  <2>3. Message(k, l, 0, 1, S(1) + 1) = Says(c, d)
    BY <1>0, <1>2, <2>1, <2>2 DEF Said
  <2>4. Tally(1, 1, {})
    BY <1>0, <1>2, <1>4, <2>0, <2>1 DEF LapsTo, Counting, LastPlace, SentAt, GotAt, Part, OneIf, Party
  <2>5. Heed
    BY <2>1, <2>3 DEF Party
  <2> QED
    BY <1>0, <2>1, <2>4, <2>5, CountedIs DEF c, r, o
<1>5. CASE o = 1
  <2>0. c = Greeted(1, SendHello)
    BY <1>0, <1>5, Calls0
  <2> HIDE DEF c, r, o
  <2>1. To(c) = 3 /\ From(c) = {1} /\ Span(c) = 1 /\ Hears(c, d, 1) = <<"hello", SendHello>>
    BY <1>0, <2>0, <1>1 DEF To, From, Span, Hears, Greeted
  <2>2. G(1) = Times(r, l + 1)
    BY <1>0, <1>2, <1>5, <2>0 DEF LapsTo, SentAt, GotAt, Part, OneIf
  <2>3. Message(k, l, 1, 0, G(1) + 1) = Hears(c, d, 1)
    BY <1>0, <1>2, <2>1, <2>2 DEF Said
  <2>4. Tally(1, 3, {1})
    BY <1>0, <1>2, <1>5, <2>0, <2>1 DEF LapsTo, Counting, LastPlace, SentAt, GotAt, Part, OneIf, Party
  <2>5. Heed
    BY <2>1, <2>3 DEF Party
  <2> QED
    BY <1>0, <2>1, <2>4, <2>5, CountedIs DEF c, r, o
<1>6. CASE o = 2
  <2>0. c = PermSend(2, "table", SrcRows)
    BY <1>0, <1>6, Calls0
  <2> HIDE DEF c, r, o
  <2>1. To(c) = 2 /\ From(c) = {} /\ Span(c) = k /\ Says(c, d) = <<"rows", ChunkLen(SrcRows, d + 1)>>
    BY <1>0, <2>0, <1>1 DEF To, From, Span, Size, Says, PermSend
  <2>2. S(2) = Times(r, k) + d
    BY <1>0, <1>2, <1>6, <2>0 DEF LapsTo, SentAt, GotAt, Part, OneIf
  <2>3. Message(k, l, 0, 2, S(2) + 1) = Says(c, d)
    BY <1>0, <1>2, <2>1, <2>2 DEF Said
  <2>4. Tally(k, 2, {})
    BY <1>0, <1>2, <1>6, <2>0, <2>1 DEF LapsTo, Counting, LastPlace, SentAt, GotAt, Part, OneIf, Party
  <2>5. Heed
    BY <2>1, <2>3 DEF Party
  <2> QED
    BY <1>0, <2>1, <2>4, <2>5, CountedIs DEF c, r, o
<1>7. CASE o = 3
  <2>0. c = Call("helpDuplicate", r + 1)
    BY <1>0, <1>7, Calls0
  <2> HIDE DEF c, r, o
  <2>1. To(c) = 1 /\ From(c) = {} /\ Span(c) = 1 /\ Says(c, d) = <<"share0", 0>>
    BY <1>0, <2>0, <1>1 DEF To, From, Span, Says, Call
  <2>2. S(1) = k + 2 * r + 1
    BY <1>0, <1>2, <1>7, <2>0 DEF LapsTo, SentAt, GotAt, Part, OneIf
  <2>3. Message(k, l, 0, 1, S(1) + 1) = Says(c, d)
    BY <1>0, <1>2, <2>1, <2>2 DEF Said
  <2>4. Tally(1, 1, {})
    BY <1>0, <1>2, <1>7, <2>0, <2>1 DEF LapsTo, Counting, LastPlace, SentAt, GotAt, Part, OneIf, Party
  <2>5. Heed
    BY <2>1, <2>3 DEF Party
  <2> QED
    BY <1>0, <2>1, <2>4, <2>5, CountedIs DEF c, r, o
<1>8. CASE o = 4
  <2>0. c = PermRecv(2, 1, Out(r + 1), Rows)
    BY <1>0, <1>8, Calls0
  <2> HIDE DEF c, r, o
  <2>a. c.op = "permRecv" /\ c.data = 2 /\ c.perm = 1 /\ c.name = Out(r + 1) /\ c.rows = Rows
    BY <2>0 DEF PermRecv
  <2>b. Hears(c, d, 2) = <<"rows", ChunkLen(Rows, d + 1)>> /\ Hears(c, d, 1) = <<"perm", ChunkLen(Rows, d + 1)>>
    BY <1>0, <2>a DEF Hears, Out
  <2>1. To(c) = 3 /\ From(c) = {2, 1} /\ Span(c) = l /\ Hears(c, d, 2) = <<"rows", ChunkLen(Rows, d + 1)>> /\ Hears(c, d, 1) = <<"perm", ChunkLen(Rows, d + 1)>>
    BY <2>a, <2>b, <1>1 DEF To, From, Span, Size
  <2>2. G(2) = Times(r, l) + d /\ G(1) = Times(r, l + 1) + d + 1
    BY <1>0, <1>2, <1>8, <2>0 DEF LapsTo, SentAt, GotAt, Part, OneIf
  <2>3. Message(k, l, 2, 0, G(2) + 1) = Hears(c, d, 2)
    BY <1>0, <1>2, <2>1, <2>2 DEF Said
  <2>4. Message(k, l, 1, 0, G(1) + 1) = Hears(c, d, 1)
    BY <1>0, <1>2, <2>1, <2>2 DEF Said
  <2>5. Tally(l, 3, {2, 1})
    BY <1>0, <1>2, <1>8, <2>0, <2>1 DEF LapsTo, Counting, LastPlace, SentAt, GotAt, Part, OneIf, Party
  <2>6. Heed
    BY <2>1, <2>3, <2>4 DEF Party
  <2> QED
    BY <1>0, <2>1, <2>5, <2>6, CountedIs DEF c, r, o
<1>9. o \in -1 .. 4
  BY <1>0, Calls0
<1> QED
  BY <1>3, <1>4, <1>5, <1>6, <1>7, <1>8, <1>9

(* those of server 1                                                        *)
LEMMA Counts1 ==
  ASSUME NEW n \in Nat, NEW k, NEW l, NEW d, Round(1, n) # 3, Sized(k, l), d \in 0 .. Span(CallAt(1, n)) - 1
  PROVE  Counted(k, l, 1, n, d)
<1> DEFINE r == Round(1, n)
           o == Place(1, n)
           c == CallAt(1, n)
           S(q) == SentAt(k, l, 1, q, r, o, d)
           G(q) == GotAt(k, l, q, 1, r, o, d)
           Heed == \A q \in Party : (q = To(c) => Message(k, l, 1, q, S(q) + 1) = Says(c, d)) /\ (q \in From(c) => Message(k, l, q, 1, G(q) + 1) = Hears(c, d, q))
           Tally(s, to, from) == Counting(k, l, 1, r, o, d, s, to, from)
<1>0. 1 \in Party /\ r # 3 /\ r \in 0 .. 2 /\ k \in Nat \ {0} /\ l \in Nat \ {0} /\ d \in Nat /\ d \in 0 .. Span(c) - 1
  BY DEF Party, Round, Sized
<1>1. k = Chunks(db.bins) /\ k = Chunks(SrcRows) /\ l = Chunks(Rows)
  BY DEF Sized
<1>2. LapsTo(r, k, l) /\ Said(k, l, r, d)
  BY <1>0, LapsAre, MessagesAre
<1>3. CASE o = -2
  <2>0. r = 0 /\ c = PermRecv(2, 0, "table", db.bins)
    BY <1>0, <1>3, Calls1
  <2> HIDE DEF c, r, o
  <2>a. c.op = "permRecv" /\ c.data = 2 /\ c.perm = 0 /\ c.name = "table" /\ c.rows = db.bins
    BY <2>0 DEF PermRecv
  <2>b. Hears(c, d, 2) = <<"rows", ChunkLen(db.bins, d + 1)>> /\ Hears(c, d, 0) = <<"perm", ChunkLen(db.bins, d + 1)>>
    BY <1>0, <2>a DEF Hears, Out
  <2>1. To(c) = 3 /\ From(c) = {2, 0} /\ Span(c) = k /\ Hears(c, d, 2) = <<"rows", ChunkLen(db.bins, d + 1)>> /\ Hears(c, d, 0) = <<"perm", ChunkLen(db.bins, d + 1)>>
    BY <2>a, <2>b, <1>1 DEF To, From, Span, Size
  <2>2. G(2) = d /\ G(0) = d
    BY <1>0, <1>2, <1>3, <2>0 DEF LapsTo, SentAt, GotAt, Part, OneIf
  <2>3. Message(k, l, 2, 1, G(2) + 1) = Hears(c, d, 2)
    BY <1>0, <1>2, <2>1, <2>2 DEF Said
  <2>4. Message(k, l, 0, 1, G(0) + 1) = Hears(c, d, 0)
    BY <1>0, <1>2, <2>1, <2>2 DEF Said
  <2>5. Tally(k, 3, {2, 0})
    BY <1>0, <1>2, <1>3, <2>0, <2>1 DEF LapsTo, Counting, LastPlace, SentAt, GotAt, Part, OneIf, Party
  <2>6. Heed
    BY <2>1, <2>3, <2>4 DEF Party
  <2> QED
    BY <1>0, <2>1, <2>5, <2>6, CountedIs DEF c, r, o
<1>4. CASE o = -1
  <2>0. r = 0 /\ c = Call("ownShare", 0)
    BY <1>0, <1>4, Calls1
  <2> HIDE DEF c, r, o
  <2>1. To(c) = 3 /\ From(c) = {} /\ Span(c) = 1
    BY <1>0, <2>0, <1>1 DEF To, From, Span, Call
  <2>2. Tally(1, 3, {})
    BY <1>0, <1>2, <1>4, <2>0, <2>1 DEF LapsTo, Counting, LastPlace, SentAt, GotAt, Part, OneIf, Party
  <2>3. Heed
    BY <2>1 DEF Party
  <2> QED
    BY <1>0, <2>1, <2>2, <2>3, CountedIs DEF c, r, o
<1>5. CASE o = 0
  <2>0. c = Hello(0, SendHello)
    BY <1>0, <1>5, Calls1
  <2> HIDE DEF c, r, o
  <2>1. To(c) = 0 /\ From(c) = {} /\ Span(c) = 1 /\ Says(c, d) = <<"hello", SendHello>>
    BY <1>0, <2>0, <1>1 DEF To, From, Span, Says, Hello
  <2>2. S(0) = Times(r, l + 1)
    BY <1>0, <1>2, <1>5, <2>0 DEF LapsTo, SentAt, GotAt, Part, OneIf
  <2>3. Message(k, l, 1, 0, S(0) + 1) = Says(c, d)
    BY <1>0, <1>2, <2>1, <2>2 DEF Said
  <2>4. Tally(1, 0, {})
    BY <1>0, <1>2, <1>5, <2>0, <2>1 DEF LapsTo, Counting, LastPlace, SentAt, GotAt, Part, OneIf, Party
  <2>5. Heed
    BY <2>1, <2>3 DEF Party
  <2> QED
    BY <1>0, <2>1, <2>4, <2>5, CountedIs DEF c, r, o
<1>6. CASE o = 1
  <2>0. c = Greeted(0, SendHello)
    BY <1>0, <1>6, Calls1
  <2> HIDE DEF c, r, o
  <2>1. To(c) = 3 /\ From(c) = {0} /\ Span(c) = 1 /\ Hears(c, d, 0) = <<"hello", SendHello>>
    BY <1>0, <2>0, <1>1 DEF To, From, Span, Hears, Greeted
  <2>2. G(0) = k + 2 * r
    BY <1>0, <1>2, <1>6, <2>0 DEF LapsTo, SentAt, GotAt, Part, OneIf
  <2>3. Message(k, l, 0, 1, G(0) + 1) = Hears(c, d, 0)
    BY <1>0, <1>2, <2>1, <2>2 DEF Said
  <2>4. Tally(1, 3, {0})
    BY <1>0, <1>2, <1>6, <2>0, <2>1 DEF LapsTo, Counting, LastPlace, SentAt, GotAt, Part, OneIf, Party
  <2>5. Heed
    BY <2>1, <2>3 DEF Party
  <2> QED
    BY <1>0, <2>1, <2>4, <2>5, CountedIs DEF c, r, o
<1>7. CASE o = 2
  <2>0. c = Hello(2, HelpHello)
    BY <1>0, <1>7, Calls1
  <2> HIDE DEF c, r, o
  <2>1. To(c) = 2 /\ From(c) = {} /\ Span(c) = 1 /\ Says(c, d) = <<"hello", HelpHello>>
    BY <1>0, <2>0, <1>1 DEF To, From, Span, Says, Hello
  <2>2. S(2) = Times(r, k + 2)
    BY <1>0, <1>2, <1>7, <2>0 DEF LapsTo, SentAt, GotAt, Part, OneIf
  <2>3. Message(k, l, 1, 2, S(2) + 1) = Says(c, d)
    BY <1>0, <1>2, <2>1, <2>2 DEF Said
  <2>4. Tally(1, 2, {})
    BY <1>0, <1>2, <1>7, <2>0, <2>1 DEF LapsTo, Counting, LastPlace, SentAt, GotAt, Part, OneIf, Party
  <2>5. Heed
    BY <2>1, <2>3 DEF Party
  <2> QED
    BY <1>0, <2>1, <2>4, <2>5, CountedIs DEF c, r, o
<1>8. CASE o = 3
  <2>0. c = Greeted(2, HelpHello)
    BY <1>0, <1>8, Calls1
  <2> HIDE DEF c, r, o
  <2>1. To(c) = 3 /\ From(c) = {2} /\ Span(c) = 1 /\ Hears(c, d, 2) = <<"hello", HelpHello>>
    BY <1>0, <2>0, <1>1 DEF To, From, Span, Hears, Greeted
  <2>2. G(2) = k + 2 * r
    BY <1>0, <1>2, <1>8, <2>0 DEF LapsTo, SentAt, GotAt, Part, OneIf
  <2>3. Message(k, l, 2, 1, G(2) + 1) = Hears(c, d, 2)
    BY <1>0, <1>2, <2>1, <2>2 DEF Said
  <2>4. Tally(1, 3, {2})
    BY <1>0, <1>2, <1>8, <2>0, <2>1 DEF LapsTo, Counting, LastPlace, SentAt, GotAt, Part, OneIf, Party
  <2>5. Heed
    BY <2>1, <2>3 DEF Party
  <2> QED
    BY <1>0, <2>1, <2>4, <2>5, CountedIs DEF c, r, o
<1>9. CASE o = 4
  <2>0. c = PermProgram(2, "temp", r + 1)
    BY <1>0, <1>9, Calls1
  <2> HIDE DEF c, r, o
  <2>1. To(c) = 2 /\ From(c) = {} /\ Span(c) = k /\ Says(c, d) = <<"perm", ChunkLen(SrcRows, d + 1)>>
    BY <1>0, <2>0, <1>1 DEF To, From, Span, Size, Says, PermProgram
  <2>2. S(2) = Times(r, k + 2) + d + 1
    BY <1>0, <1>2, <1>9, <2>0 DEF LapsTo, SentAt, GotAt, Part, OneIf
  <2>3. Message(k, l, 1, 2, S(2) + 1) = Says(c, d)
    BY <1>0, <1>2, <2>1, <2>2 DEF Said
  <2>4. Tally(k, 2, {})
    BY <1>0, <1>2, <1>9, <2>0, <2>1 DEF LapsTo, Counting, LastPlace, SentAt, GotAt, Part, OneIf, Party
  <2>5. Heed
    BY <2>1, <2>3 DEF Party
  <2> QED
    BY <1>0, <2>1, <2>4, <2>5, CountedIs DEF c, r, o
<1>10. CASE o = 5
  <2>0. c = Call("sendBits", r + 1)
    BY <1>0, <1>10, Calls1
  <2> HIDE DEF c, r, o
  <2>1. To(c) = 2 /\ From(c) = {} /\ Span(c) = 1 /\ Says(c, d) = <<"bits", 0>>
    BY <1>0, <2>0, <1>1 DEF To, From, Span, Says, Call
  <2>2. S(2) = Times(r, k + 2) + k + 1
    BY <1>0, <1>2, <1>10, <2>0 DEF LapsTo, SentAt, GotAt, Part, OneIf
  <2>3. Message(k, l, 1, 2, S(2) + 1) = Says(c, d)
    BY <1>0, <1>2, <2>1, <2>2 DEF Said
  <2>4. Tally(1, 2, {})
    BY <1>0, <1>2, <1>10, <2>0, <2>1 DEF LapsTo, Counting, LastPlace, SentAt, GotAt, Part, OneIf, Party
  <2>5. Heed
    BY <2>1, <2>3 DEF Party
  <2> QED
    BY <1>0, <2>1, <2>4, <2>5, CountedIs DEF c, r, o
<1>11. CASE o = 6
  <2>0. c = Call("programDuplicate", r + 1)
    BY <1>0, <1>11, Calls1
  <2> HIDE DEF c, r, o
  <2>1. To(c) = 3 /\ From(c) = {0, 2} /\ Span(c) = 1 /\ Hears(c, d, 0) = <<"share0", 0>> /\ Hears(c, d, 2) = <<"share1", 0>>
    BY <1>0, <2>0, <1>1 DEF To, From, Span, Hears, Call
  <2>2. G(0) = k + 2 * r + 1 /\ G(2) = k + 2 * r + 1
    BY <1>0, <1>2, <1>11, <2>0 DEF LapsTo, SentAt, GotAt, Part, OneIf
  <2>3. Message(k, l, 0, 1, G(0) + 1) = Hears(c, d, 0)
    BY <1>0, <1>2, <2>1, <2>2 DEF Said
  <2>4. Message(k, l, 2, 1, G(2) + 1) = Hears(c, d, 2)
    BY <1>0, <1>2, <2>1, <2>2 DEF Said
  <2>5. Tally(1, 3, {0, 2})
    BY <1>0, <1>2, <1>11, <2>0, <2>1 DEF LapsTo, Counting, LastPlace, SentAt, GotAt, Part, OneIf, Party
  <2>6. Heed
    BY <2>1, <2>3, <2>4 DEF Party
  <2> QED
    BY <1>0, <2>1, <2>5, <2>6, CountedIs DEF c, r, o
<1>12. CASE o = 7
  <2>0. c = PermProgram(0, Out(r + 1), r + 1)
    BY <1>0, <1>12, Calls1
  <2> HIDE DEF c, r, o
  <2>1. To(c) = 0 /\ From(c) = {} /\ Span(c) = l /\ Says(c, d) = <<"perm", ChunkLen(Rows, d + 1)>>
    BY <1>0, <2>0, <1>1 DEF To, From, Span, Size, Says, PermProgram, Out
  <2>2. S(0) = Times(r, l + 1) + d + 1
    BY <1>0, <1>2, <1>12, <2>0 DEF LapsTo, SentAt, GotAt, Part, OneIf
  <2>3. Message(k, l, 1, 0, S(0) + 1) = Says(c, d)
    BY <1>0, <1>2, <2>1, <2>2 DEF Said
  <2>4. Tally(l, 0, {})
    BY <1>0, <1>2, <1>12, <2>0, <2>1 DEF LapsTo, Counting, LastPlace, SentAt, GotAt, Part, OneIf, Party
  <2>5. Heed
    BY <2>1, <2>3 DEF Party
  <2> QED
    BY <1>0, <2>1, <2>4, <2>5, CountedIs DEF c, r, o
<1>13. o \in -2 .. 7
  BY <1>0, Calls1
<1> QED
  BY <1>3, <1>4, <1>5, <1>6, <1>7, <1>8, <1>9, <1>10, <1>11, <1>12, <1>13

(* and those of server 2.                                                  *)
LEMMA Counts2 ==
  ASSUME NEW n \in Nat, NEW k, NEW l, NEW d, Round(2, n) # 3, Sized(k, l), d \in 0 .. Span(CallAt(2, n)) - 1
  PROVE  Counted(k, l, 2, n, d)
<1> DEFINE r == Round(2, n)
           o == Place(2, n)
           c == CallAt(2, n)
           S(q) == SentAt(k, l, 2, q, r, o, d)
           G(q) == GotAt(k, l, q, 2, r, o, d)
           Heed == \A q \in Party : (q = To(c) => Message(k, l, 2, q, S(q) + 1) = Says(c, d)) /\ (q \in From(c) => Message(k, l, q, 2, G(q) + 1) = Hears(c, d, q))
           Tally(s, to, from) == Counting(k, l, 2, r, o, d, s, to, from)
<1>0. 2 \in Party /\ r # 3 /\ r \in 0 .. 2 /\ k \in Nat \ {0} /\ l \in Nat \ {0} /\ d \in Nat /\ d \in 0 .. Span(c) - 1
  BY DEF Party, Round, Sized
<1>1. k = Chunks(db.bins) /\ k = Chunks(SrcRows) /\ l = Chunks(Rows)
  BY DEF Sized
<1>2. LapsTo(r, k, l) /\ Said(k, l, r, d)
  BY <1>0, LapsAre, MessagesAre
<1>3. CASE o = -1
  <2>0. r = 0 /\ c = PermSend(1, "table", db.bins)
    BY <1>0, <1>3, Calls2
  <2> HIDE DEF c, r, o
  <2>1. To(c) = 1 /\ From(c) = {} /\ Span(c) = k /\ Says(c, d) = <<"rows", ChunkLen(db.bins, d + 1)>>
    BY <1>0, <2>0, <1>1 DEF To, From, Span, Size, Says, PermSend
  <2>2. S(1) = d
    BY <1>0, <1>2, <1>3, <2>0 DEF LapsTo, SentAt, GotAt, Part, OneIf
  <2>3. Message(k, l, 2, 1, S(1) + 1) = Says(c, d)
    BY <1>0, <1>2, <2>1, <2>2 DEF Said
  <2>4. Tally(k, 1, {})
    BY <1>0, <1>2, <1>3, <2>0, <2>1 DEF LapsTo, Counting, LastPlace, SentAt, GotAt, Part, OneIf, Party
  <2>5. Heed
    BY <2>1, <2>3 DEF Party
  <2> QED
    BY <1>0, <2>1, <2>4, <2>5, CountedIs DEF c, r, o
<1>4. CASE o = 0
  <2>0. c = Hello(1, HelpHello)
    BY <1>0, <1>4, Calls2
  <2> HIDE DEF c, r, o
  <2>1. To(c) = 1 /\ From(c) = {} /\ Span(c) = 1 /\ Says(c, d) = <<"hello", HelpHello>>
    BY <1>0, <2>0, <1>1 DEF To, From, Span, Says, Hello
  <2>2. S(1) = k + 2 * r
    BY <1>0, <1>2, <1>4, <2>0 DEF LapsTo, SentAt, GotAt, Part, OneIf
  <2>3. Message(k, l, 2, 1, S(1) + 1) = Says(c, d)
    BY <1>0, <1>2, <2>1, <2>2 DEF Said
  <2>4. Tally(1, 1, {})
    BY <1>0, <1>2, <1>4, <2>0, <2>1 DEF LapsTo, Counting, LastPlace, SentAt, GotAt, Part, OneIf, Party
  <2>5. Heed
    BY <2>1, <2>3 DEF Party
  <2> QED
    BY <1>0, <2>1, <2>4, <2>5, CountedIs DEF c, r, o
<1>5. CASE o = 1
  <2>0. c = Greeted(1, HelpHello)
    BY <1>0, <1>5, Calls2
  <2> HIDE DEF c, r, o
  <2>1. To(c) = 3 /\ From(c) = {1} /\ Span(c) = 1 /\ Hears(c, d, 1) = <<"hello", HelpHello>>
    BY <1>0, <2>0, <1>1 DEF To, From, Span, Hears, Greeted
  <2>2. G(1) = Times(r, k + 2)
    BY <1>0, <1>2, <1>5, <2>0 DEF LapsTo, SentAt, GotAt, Part, OneIf
  <2>3. Message(k, l, 1, 2, G(1) + 1) = Hears(c, d, 1)
    BY <1>0, <1>2, <2>1, <2>2 DEF Said
  <2>4. Tally(1, 3, {1})
    BY <1>0, <1>2, <1>5, <2>0, <2>1 DEF LapsTo, Counting, LastPlace, SentAt, GotAt, Part, OneIf, Party
  <2>5. Heed
    BY <2>1, <2>3 DEF Party
  <2> QED
    BY <1>0, <2>1, <2>4, <2>5, CountedIs DEF c, r, o
<1>6. CASE o = 2
  <2>0. c = PermRecv(0, 1, "temp", db.bins)
    BY <1>0, <1>6, Calls2
  <2> HIDE DEF c, r, o
  <2>a. c.op = "permRecv" /\ c.data = 0 /\ c.perm = 1 /\ c.name = "temp" /\ c.rows = db.bins
    BY <2>0 DEF PermRecv
  <2>b. Hears(c, d, 0) = <<"rows", ChunkLen(SrcRows, d + 1)>> /\ Hears(c, d, 1) = <<"perm", ChunkLen(SrcRows, d + 1)>>
    BY <1>0, <2>a DEF Hears, Out
  <2>1. To(c) = 3 /\ From(c) = {0, 1} /\ Span(c) = k /\ Hears(c, d, 0) = <<"rows", ChunkLen(SrcRows, d + 1)>> /\ Hears(c, d, 1) = <<"perm", ChunkLen(SrcRows, d + 1)>>
    BY <2>a, <2>b, <1>1 DEF To, From, Span, Size
  <2>2. G(0) = Times(r, k) + d /\ G(1) = Times(r, k + 2) + d + 1
    BY <1>0, <1>2, <1>6, <2>0 DEF LapsTo, SentAt, GotAt, Part, OneIf
  <2>3. Message(k, l, 0, 2, G(0) + 1) = Hears(c, d, 0)
    BY <1>0, <1>2, <2>1, <2>2 DEF Said
  <2>4. Message(k, l, 1, 2, G(1) + 1) = Hears(c, d, 1)
    BY <1>0, <1>2, <2>1, <2>2 DEF Said
  <2>5. Tally(k, 3, {0, 1})
    BY <1>0, <1>2, <1>6, <2>0, <2>1 DEF LapsTo, Counting, LastPlace, SentAt, GotAt, Part, OneIf, Party
  <2>6. Heed
    BY <2>1, <2>3, <2>4 DEF Party
  <2> QED
    BY <1>0, <2>1, <2>5, <2>6, CountedIs DEF c, r, o
<1>7. CASE o = 3
  <2>0. c = Call("sendDuplicate", r + 1)
    BY <1>0, <1>7, Calls2
  <2> HIDE DEF c, r, o
  <2>1. To(c) = 1 /\ From(c) = {1} /\ Span(c) = 1 /\ Says(c, d) = <<"share1", 0>> /\ Hears(c, d, 1) = <<"bits", 0>>
    BY <1>0, <2>0, <1>1 DEF To, From, Span, Says, Hears, Call
  <2>2. S(1) = k + 2 * r + 1 /\ G(1) = Times(r, k + 2) + k + 1
    BY <1>0, <1>2, <1>7, <2>0 DEF LapsTo, SentAt, GotAt, Part, OneIf
  <2>3. Message(k, l, 2, 1, S(1) + 1) = Says(c, d)
    BY <1>0, <1>2, <2>1, <2>2 DEF Said
  <2>4. Message(k, l, 1, 2, G(1) + 1) = Hears(c, d, 1)
    BY <1>0, <1>2, <2>1, <2>2 DEF Said
  <2>5. Tally(1, 1, {1})
    BY <1>0, <1>2, <1>7, <2>0, <2>1 DEF LapsTo, Counting, LastPlace, SentAt, GotAt, Part, OneIf, Party
  <2>6. Heed
    BY <2>1, <2>3, <2>4 DEF Party
  <2> QED
    BY <1>0, <2>1, <2>5, <2>6, CountedIs DEF c, r, o
<1>8. CASE o = 4
  <2>0. c = PermSend(0, "temp", Rows)
    BY <1>0, <1>8, Calls2
  <2> HIDE DEF c, r, o
  <2>1. To(c) = 0 /\ From(c) = {} /\ Span(c) = l /\ Says(c, d) = <<"rows", ChunkLen(Rows, d + 1)>>
    BY <1>0, <2>0, <1>1 DEF To, From, Span, Size, Says, PermSend
  <2>2. S(0) = Times(r, l) + d
    BY <1>0, <1>2, <1>8, <2>0 DEF LapsTo, SentAt, GotAt, Part, OneIf
  <2>3. Message(k, l, 2, 0, S(0) + 1) = Says(c, d)
    BY <1>0, <1>2, <2>1, <2>2 DEF Said
  <2>4. Tally(l, 0, {})
    BY <1>0, <1>2, <1>8, <2>0, <2>1 DEF LapsTo, Counting, LastPlace, SentAt, GotAt, Part, OneIf, Party
  <2>5. Heed
    BY <2>1, <2>3 DEF Party
  <2> QED
    BY <1>0, <2>1, <2>4, <2>5, CountedIs DEF c, r, o
<1>9. o \in -1 .. 4
  BY <1>0, Calls2
<1> QED
  BY <1>3, <1>4, <1>5, <1>6, <1>7, <1>8, <1>9

(* Every call keeps count.                                                 *)
LEMMA CountsAll ==
  ASSUME NEW p \in Party, NEW n \in 0 .. CallCount(p) - 1, NEW k, NEW l, NEW d,
         Sized(k, l), d \in 0 .. Span(CallAt(p, n)) - 1
  PROVE  Counted(k, l, p, n, d)
<1>0. n \in Nat
  BY DEF CallCount
<1>1. CASE Round(p, n) # 3
  <2>1. p \in {0, 1, 2}
    BY DEF Party
  <2> QED
    BY <1>0, <1>1, <2>1, Counts0, Counts1, Counts2
<1>2. CASE Round(p, n) = 3
  <2> DEFINE c == CallAt(p, n)
             r == Round(p, n)
  <2>1. r = 3 /\ Place(p, n) = 0 /\ Round(p, n + 1) = 3 /\ Place(p, n + 1) = 0 /\ c = Call("finish", 0)
    BY <1>0, <1>2, NextPlace
  <2> HIDE DEF c
  <2>2. To(c) = 3 /\ From(c) = {} /\ Span(c) = 1
    BY <2>1 DEF To, From, Span, Call
  <2>3. d = 0
    BY <2>2 DEF c
  <2>4. \A q \in Party : q # To(c) /\ q \notin From(c)
    BY <2>2 DEF Party
  <2>5. \A q \in Party : /\ SentAt(k, l, p, q, 3, 0, 0) \in Int /\ GotAt(k, l, q, p, 3, 0, 0) \in Int
    BY DEF SentAt, GotAt, Part, OneIf, Times, Sized
  <2>6. Moves(k, l, p, n, d)
    BY <2>1, <2>2, <2>3, <2>4, <2>5 DEF Moves, Sent, Got, OneIf, c
  <2> QED
    BY <2>4, <2>6 DEF Counted, c
<1> QED
  BY <1>1, <1>2

(* What a call can be.                                                     *)
MemNames == {"table", "temp"} \cup {Out(h) : h \in 1 .. 3}
Ops == {"hello", "greeted", "permSend", "permProgram", "permRecv", "ownShare", "helpDuplicate",
        "sendBits", "sendDuplicate", "programDuplicate", "finish"}
Sizes == {db.bins, SrcRows, Rows}
CallOK(c) ==
  /\ c.op \in Ops
  /\ c.op \in {"hello", "permSend", "permProgram"} => c.to \in Party
  /\ c.op = "greeted" => c.from \in Party
  /\ c.op \in {"permSend", "permRecv"} => c.rows \in Sizes
  /\ c.op \in {"permSend", "permRecv", "permProgram"} => c.name \in MemNames
  /\ c.op = "permProgram" /\ c.name # "table" => c.h \in 1 .. 3
  /\ c.op = "permRecv" => c.data \in Party /\ c.perm \in Party /\ c.data # c.perm
  /\ c.op \in {"helpDuplicate", "sendBits", "sendDuplicate", "programDuplicate"} => c.h \in 1 .. 3

(* The calls of the scripts are all such calls.                            *)
LEMMA CallOKCases ==
  ASSUME NEW h \in 1 .. 3
  PROVE  /\ \A what : \A q \in Party : CallOK(Hello(q, what)) /\ CallOK(Greeted(q, what))
         /\ \A q \in Party : CallOK(PermSend(q, "table", db.bins)) /\ CallOK(PermSend(q, "table", SrcRows))
                             /\ CallOK(PermSend(q, "temp", Rows))
         /\ \A q \in Party : CallOK(PermProgram(q, "table", 0)) /\ CallOK(PermProgram(q, "temp", h))
                             /\ CallOK(PermProgram(q, Out(h), h))
         /\ CallOK(PermRecv(2, 0, "table", db.bins)) /\ CallOK(PermRecv(0, 1, "temp", db.bins))
         /\ CallOK(PermRecv(2, 1, Out(h), Rows))
         /\ CallOK(Call("helpDuplicate", h)) /\ CallOK(Call("sendBits", h)) /\ CallOK(Call("sendDuplicate", h))
         /\ CallOK(Call("programDuplicate", h)) /\ CallOK(Call("ownShare", 0)) /\ CallOK(Call("finish", 0))
<1>1. "table" \in MemNames /\ "temp" \in MemNames /\ Out(h) \in MemNames
  BY Zenon DEF MemNames
<1>2. ASSUME NEW what, NEW q \in Party PROVE CallOK(Hello(q, what)) /\ CallOK(Greeted(q, what))
  BY DEF CallOK, Hello, Greeted, Ops
<1>3. ASSUME NEW q \in Party, NEW rows \in Sizes, NEW name \in MemNames
      PROVE  CallOK(PermSend(q, name, rows))
  BY DEF CallOK, PermSend, Ops
<1>4. ASSUME NEW q \in Party, NEW name \in MemNames PROVE CallOK(PermProgram(q, name, h))
  BY DEF CallOK, PermProgram, Ops
<1>5. ASSUME NEW q \in Party PROVE CallOK(PermProgram(q, "table", 0))
  BY <1>1 DEF CallOK, PermProgram, Ops
<1>6. ASSUME NEW d \in Party, NEW e \in Party, d # e, NEW rows \in Sizes, NEW name \in MemNames
      PROVE  CallOK(PermRecv(d, e, name, rows))
  <2> DEFINE c == PermRecv(d, e, name, rows)
  <2>1. c.op = "permRecv" /\ c.rows = rows /\ c.name = name /\ c.data = d /\ c.perm = e
    BY DEF PermRecv
  <2> HIDE DEF c
  <2>2. CallOK(c)
    BY <1>6, <2>1 DEF CallOK, Ops
  <2> QED
    BY <2>2 DEF c
<1>7. ASSUME NEW op \in {"helpDuplicate", "sendBits", "sendDuplicate", "programDuplicate"} PROVE CallOK(Call(op, h))
  BY DEF CallOK, Call, Ops
<1>8. CallOK(Call("ownShare", 0)) /\ CallOK(Call("finish", 0))
  BY DEF CallOK, Call, Ops
<1>9. 0 \in Party /\ 1 \in Party /\ 2 \in Party /\ 0 # 1 /\ 2 # 0 /\ 2 # 1
  BY DEF Party
<1>10. db.bins \in Sizes /\ SrcRows \in Sizes /\ Rows \in Sizes
  BY Zenon DEF Sizes
<1> QED
  BY <1>1, <1>2, <1>3, <1>4, <1>5, <1>6, <1>7, <1>8, <1>9, <1>10

(* So is the call at any place of a script.                                *)
LEMMA CallsAreOK ==
  ASSUME NEW p \in Party, NEW n \in Nat
  PROVE  CallOK(CallAt(p, n))
<1> DEFINE r == Round(p, n)
           o == Place(p, n)
<1>1. r \in 0 .. 3 /\ (r # 3 => o \in -2 .. 7 /\ (p # 1 => o \in -1 .. 4))
  BY DEF Round, Place, Party
<1>0. 0 \in Party /\ 1 \in Party /\ 2 \in Party /\ 1 \in 1 .. 3
  BY DEF Party
<1>2. CASE r = 3
  BY <1>2, <1>0, CallOKCases DEF CallAt
<1>3. CASE r # 3 /\ p = 0
  <2>1. o = -1 => CallOK(CallAt(p, n))
    BY <1>3, <1>0, CallOKCases DEF CallAt
  <2>2. o # -1 => CallAt(p, n) = SendRecv(r + 1)[o + 1]
    BY <1>3 DEF CallAt
  <2>3. \A h \in 1 .. 3 : \A i \in 1 .. 5 : CallOK(SendRecv(h)[i])
    <3> SUFFICES ASSUME NEW h \in 1 .. 3, NEW i \in 1 .. 5 PROVE CallOK(SendRecv(h)[i])
      OBVIOUS
    <3>1. SendRecv(h)[i] \in {Hello(1, SendHello), Greeted(1, SendHello), PermSend(2, "table", SrcRows),
                              Call("helpDuplicate", h), PermRecv(2, 1, Out(h), Rows)}
      BY DEF SendRecv
    <3> QED
      BY <1>0, <3>1, CallOKCases
  <2>4. r + 1 \in 1 .. 3 /\ (o # -1 => o + 1 \in 1 .. 5)
    BY <1>1, <1>3
  <2> HIDE DEF r, o
  <2> QED
    BY <2>1, <2>2, <2>3, <2>4
<1>4. CASE r # 3 /\ p = 1
  <2>1. o = -1 \/ o = -2 => CallOK(CallAt(p, n))
    BY <1>4, <1>0, CallOKCases DEF CallAt
  <2>2. o # -1 /\ o # -2 => CallAt(p, n) = Program(r + 1)[o + 1]
    BY <1>4 DEF CallAt
  <2>3. \A h \in 1 .. 3 : \A i \in 1 .. 8 : CallOK(Program(h)[i])
    <3> SUFFICES ASSUME NEW h \in 1 .. 3, NEW i \in 1 .. 8 PROVE CallOK(Program(h)[i])
      OBVIOUS
    <3>1. Program(h)[i] \in {Hello(0, SendHello), Greeted(0, SendHello), Hello(2, HelpHello), Greeted(2, HelpHello),
                             PermProgram(2, "temp", h), Call("sendBits", h), Call("programDuplicate", h),
                             PermProgram(0, Out(h), h)}
      BY DEF Program
    <3> QED
      BY <1>0, <3>1, CallOKCases
  <2>4. r + 1 \in 1 .. 3 /\ (o # -1 /\ o # -2 => o + 1 \in 1 .. 8)
    BY <1>1, <1>4
  <2> HIDE DEF r, o
  <2> QED
    BY <2>1, <2>2, <2>3, <2>4
<1>5. CASE r # 3 /\ p = 2
  <2>1. o = -1 => CallOK(CallAt(p, n))
    BY <1>5, <1>0, CallOKCases DEF CallAt
  <2>2. o # -1 => CallAt(p, n) = Help(r + 1)[o + 1]
    BY <1>5 DEF CallAt
  <2>3. \A h \in 1 .. 3 : \A i \in 1 .. 5 : CallOK(Help(h)[i])
    <3> SUFFICES ASSUME NEW h \in 1 .. 3, NEW i \in 1 .. 5 PROVE CallOK(Help(h)[i])
      OBVIOUS
    <3>1. Help(h)[i] \in {Hello(1, HelpHello), Greeted(1, HelpHello), PermRecv(0, 1, "temp", db.bins),
                          Call("sendDuplicate", h), PermSend(0, "temp", Rows)}
      BY DEF Help
    <3> QED
      BY <1>0, <3>1, CallOKCases
  <2>4. r + 1 \in 1 .. 3 /\ (o # -1 => o + 1 \in 1 .. 5)
    BY <1>1, <1>5
  <2> HIDE DEF r, o
  <2> QED
    BY <2>1, <2>2, <2>3, <2>4
<1> HIDE DEF r, o
<1> QED
  BY <1>2, <1>3, <1>4, <1>5 DEF Party

-----------------------------------------------------------------------------
(* What the databases are.                                                 *)
TableChunks == Chunks(db.bins)
OutChunks == Chunks(Rows)
DbFacts ==
  /\ db.bins \in Nat \ {0} /\ Rows \in Nat \ {0} /\ SrcRows \in Nat \ {0} /\ db.bins >= 3
  /\ Sized(TableChunks, OutChunks)
  /\ DOMAIN db.left = 1 .. Rows
  /\ SrcRows >= db.bins /\ SrcRows >= Rows
  /\ \A i \in 1 .. SrcRows : db.draws[i] \in Nat

(* They follow from what is assumed of the databases.                      *)
LEMMA DbIs ==
  ASSUME db \in Databases, SameChunks
  PROVE  DbFacts
<1>1. db.bins \in Nat /\ db.bins >= 3 /\ db.left \in Seq(Nat) /\ db.left # <<>>
  BY DatabasesAssumption
<1>2. \A i \in (1 .. db.bins) \cup DOMAIN db.left : db.draws[i] \in Nat
  BY DatabasesAssumption
<1>3. Rows > db.bins => Chunks(Rows) = Chunks(db.bins)
  BY DEF SameChunks, Rows
<1>4. Rows \in Nat /\ Rows # 0 /\ DOMAIN db.left = 1 .. Rows
  BY <1>1, LenProperties, EmptySeq DEF Rows
<1>5. SrcRows = (IF db.bins < Rows THEN Rows ELSE db.bins)
  BY DEF SrcRows
<1> HIDE DEF SrcRows, Rows
<1>6. SrcRows \in Nat \ {0} /\ SrcRows >= db.bins /\ SrcRows >= Rows
  BY <1>1, <1>4, <1>5
<1>7. \A i \in 1 .. SrcRows : db.draws[i] \in Nat
  <2>1. 1 .. SrcRows \subseteq (1 .. db.bins) \cup DOMAIN db.left
    BY <1>1, <1>4, <1>5
  <2> QED
    BY <1>2, <2>1
<1>8. Chunks(SrcRows) = Chunks(db.bins)
  BY <1>1, <1>3, <1>4, <1>5
<1>9. TableChunks \in Nat \ {0} /\ OutChunks \in Nat \ {0}
  <2>1. db.bins \in Nat \ {0} /\ Rows \in Nat \ {0}
    BY <1>1, <1>4
  <2> QED
    BY <2>1, ChunksFacts DEF TableChunks, OutChunks
<1>10. Sized(TableChunks, OutChunks)
  BY <1>8, <1>9 DEF Sized, TableChunks, OutChunks
<1> QED
  BY <1>1, <1>4, <1>6, <1>7, <1>10 DEF DbFacts

(* A call takes some steps.                                                *)
LEMMA SpanPositive ==
  ASSUME NEW p \in Party, NEW n \in Nat, DbFacts
  PROVE  /\ Span(CallAt(p, n)) \in Nat \ {0}
         /\ CallAt(p, n).op \in {"permSend", "permProgram", "permRecv"} => Size(CallAt(p, n)) \in Nat \ {0}
<1> DEFINE c == CallAt(p, n)
<1>1. CallOK(c)
  BY CallsAreOK
<1> HIDE DEF c
<1>2. c.op \in {"permSend", "permProgram", "permRecv"} => Size(c) \in Nat \ {0}
  BY <1>1 DEF Size, CallOK, DbFacts, Sizes
<1>3. Span(c) \in Nat \ {0}
  BY <1>2, ChunksFacts DEF Span
<1> QED
  BY <1>2, <1>3 DEF c

-----------------------------------------------------------------------------
(* The inductive invariant.  The call a server is in; what it is shuffling *)
(* has the size of the call, its matrices those of their names; and each   *)
(* channel holds the messages that its ends have counted differently.      *)
Matched(msg, w) ==
  /\ msg.kind = w[1]
  /\ w[1] = "hello" => msg.data = w[2]
  /\ w[1] \in {"rows", "perm"} => Matrix(msg.data, w[2])

CallsIn ==
  /\ pc \in [Party -> Nat] /\ done \in [Party -> Nat]
  /\ \A p \in Party : /\ pc[p] <= CallCount(p)
                      /\ done[p] < Span(CallAt(p, pc[p]))

WorkIn ==
  /\ work = [p \in Party |-> work[p]]
  /\ \A p \in Party : done[p] > 0 /\ CallAt(p, pc[p]).op \in {"permSend", "permProgram"} =>
       Matrix(work[p], Size(CallAt(p, pc[p])))

MemRows(name) == IF name = "table" THEN db.bins ELSE Rows
MemIn ==
  /\ mem = [p \in Party |-> mem[p]]
  /\ \A p \in Party : /\ mem[p] = [name \in MemNames |-> mem[p][name]]
                      /\ \A name \in MemNames : Matrix(mem[p][name], MemRows(name))

SentNow(q, p) == Sent(TableChunks, OutChunks, q, p, pc[q], done[q])
GotNow(q, p) == Got(TableChunks, OutChunks, q, p, pc[p], done[p])
Expected(q, p, n) == Message(TableChunks, OutChunks, q, p, n)
Carries(q, p) ==
  /\ SentNow(q, p) \in Nat /\ GotNow(q, p) \in Nat
  /\ Matrix(chan[<<q, p>>], SentNow(q, p) - GotNow(q, p))
  /\ \A i \in 1 .. SentNow(q, p) - GotNow(q, p) : Matched(chan[<<q, p>>][i], Expected(q, p, GotNow(q, p) + i))
ChanIn ==
  /\ chan = [c \in Party \X Party |-> chan[c]]
  /\ \A q, p \in Party : Carries(q, p)

JoinInv == db \in Databases /\ CallsIn /\ WorkIn /\ MemIn /\ ChanIn

(* What depends on the databases alone stays.                              *)
Same ==
  /\ Rows' = Rows /\ TableChunks' = TableChunks /\ OutChunks' = OutChunks
  /\ \A p, n : CallAt(p, n)' = CallAt(p, n)
  /\ \A c : Span(c)' = Span(c)
  /\ \A c : Size(c)' = Size(c)
  /\ \A q, p, n : Expected(q, p, n)' = Expected(q, p, n)
  /\ \A name : MemRows(name)' = MemRows(name)

(* No step changes the database, so nothing that is made of it changes.    *)
LEMMA DbStays ==
  ASSUME db' = db
  PROVE  Same
<1>1. Rows' = Rows /\ SrcRows' = SrcRows /\ SendHello' = SendHello /\ HelpHello' = HelpHello
  BY DEF Rows, SrcRows, SendHello, HelpHello
<1>2. TableChunks' = TableChunks /\ OutChunks' = OutChunks
  BY <1>1 DEF TableChunks, OutChunks
<1>3. \A p, n : CallAt(p, n)' = CallAt(p, n)
  <2>1. \A h : SendRecv(h)' = SendRecv(h) /\ Program(h)' = Program(h) /\ Help(h)' = Help(h)
    BY <1>1 DEF SendRecv, Program, Help
  <2> QED
    BY <2>1 DEF CallAt
<1>4. \A c : Size(c)' = Size(c)
  BY <1>1 DEF Size
<1>5. \A c : Span(c)' = Span(c)
  BY <1>4 DEF Span
<1>6. \A q, p, n : Expected(q, p, n)' = Expected(q, p, n)
  BY <1>1, <1>2 DEF Expected, Message
<1>7. \A name : MemRows(name)' = MemRows(name)
  BY <1>1 DEF MemRows
<1> QED
  BY <1>1, <1>2, <1>3, <1>4, <1>5, <1>6, <1>7 DEF Same

(* What every step does to the counters and the channels.                  *)
Effect(p, msg) ==
  LET c == CallAt(p, pc[p])
      over == done[p] + 1 = Span(c)
  IN /\ db' = db
     /\ pc' = [pc EXCEPT ![p] = IF over THEN pc[p] + 1 ELSE pc[p]]
     /\ done' = [done EXCEPT ![p] = IF over THEN 0 ELSE done[p] + 1]
     /\ \A q \in From(c) : chan[<<q, p>>] # <<>>
     /\ To(c) \in Party => Matched(msg, Says(c, done[p]))
     /\ chan' = [x \in Party \X Party |-> Moved(chan[x], x[2] = p /\ x[1] \in From(c), x[1] = p /\ x[2] = To(c), msg)]

(* A server stays within its script and within its call.                   *)
LEMMA CallsKeep ==
  ASSUME JoinInv, DbFacts, NEW p \in Party, pc[p] < CallCount(p), NEW msg, Effect(p, msg)
  PROVE  CallsIn'
<1> DEFINE c == CallAt(p, pc[p])
           over == done[p] + 1 = Span(c)
<1>1. /\ pc \in [Party -> Nat] /\ done \in [Party -> Nat]
      /\ \A q \in Party : pc[q] <= CallCount(q) /\ done[q] < Span(CallAt(q, pc[q]))
  BY DEF JoinInv, CallsIn
<1>2. /\ pc' = [pc EXCEPT ![p] = IF over THEN pc[p] + 1 ELSE pc[p]]
      /\ done' = [done EXCEPT ![p] = IF over THEN 0 ELSE done[p] + 1]
      /\ db' = db
  BY DEF Effect
<1>3. (\A q, n : CallAt(q, n)' = CallAt(q, n)) /\ (\A x : Span(x)' = Span(x))
  BY <1>2, DbStays DEF Same
<1>4. pc' \in [Party -> Nat] /\ done' \in [Party -> Nat]
  BY <1>1, <1>2
<1>5. ASSUME NEW q \in Party PROVE pc'[q] <= CallCount(q) /\ done'[q] < Span(CallAt(q, pc'[q]))
  <2>1. CASE q # p
    BY <1>1, <1>2, <2>1
  <2>2. CASE q = p /\ over
    <3>1. pc'[p] = pc[p] + 1 /\ done'[p] = 0 /\ pc[p] + 1 \in Nat
      BY <1>1, <1>2, <2>2
    <3>2. Span(CallAt(p, pc[p] + 1)) \in Nat \ {0}
      BY <3>1, SpanPositive
    <3>3. pc[p] + 1 <= CallCount(p)
      BY <1>1 DEF CallCount
    <3> QED
      BY <2>2, <3>1, <3>2, <3>3
  <2>3. CASE q = p /\ ~ over
    <3>1. pc'[p] = pc[p] /\ done'[p] = done[p] + 1
      BY <1>1, <1>2, <2>3
    <3>2. Span(c) \in Nat /\ done[p] < Span(c) /\ done[p] \in Nat
      BY <1>1, SpanPositive
    <3>3. done[p] + 1 < Span(c)
      <4> HIDE DEF c
      <4> QED
        BY <2>3, <3>2
    <3> QED
      BY <1>1, <2>3, <3>1, <3>3
  <2> QED
    BY <2>1, <2>2, <2>3
<1>6. \A q \in Party : done'[q] < Span(CallAt(q, pc[q]))'
  BY <1>3, <1>5
<1> QED
  BY <1>4, <1>5, <1>6 DEF CallsIn

(* The counters move with the messages.                                    *)
LEMMA CountsMove ==
  ASSUME JoinInv, DbFacts, NEW p \in Party, pc[p] < CallCount(p), NEW msg, Effect(p, msg),
         NEW q \in Party, NEW r \in Party
  PROVE  /\ Sent(TableChunks', OutChunks', q, r, pc'[q], done'[q]) = SentNow(q, r) + OneIf(q = p /\ r = To(CallAt(p, pc[p])))
         /\ Got(TableChunks', OutChunks', q, r, pc'[r], done'[r]) = GotNow(q, r) + OneIf(r = p /\ q \in From(CallAt(p, pc[p])))
         /\ q = p /\ r = To(CallAt(p, pc[p])) => Expected(q, r, SentNow(q, r) + 1) = Says(CallAt(p, pc[p]), done[p])
         /\ r = p /\ q \in From(CallAt(p, pc[p])) =>
              Expected(q, r, GotNow(q, r) + 1) = Hears(CallAt(p, pc[p]), done[p], q)
<1> DEFINE n == pc[p]
           d == done[p]
           c == CallAt(p, n)
           k == TableChunks
           l == OutChunks
           n1 == IF d + 1 = Span(c) THEN n + 1 ELSE n
           d1 == IF d + 1 = Span(c) THEN 0 ELSE d + 1
<1>1. /\ n \in 0 .. CallCount(p) - 1 /\ d \in 0 .. Span(c) - 1
      /\ pc \in [Party -> Nat] /\ done \in [Party -> Nat]
  <2>1. n \in Nat /\ d \in Nat /\ d < Span(c) /\ pc \in [Party -> Nat] /\ done \in [Party -> Nat]
    BY DEF JoinInv, CallsIn
  <2>2. Span(c) \in Nat
    BY <2>1, SpanPositive
  <2>3. CallCount(p) \in Nat
    BY DEF CallCount
  <2> QED
    BY <2>1, <2>2, <2>3
<1>2. Sized(k, l)
  BY DEF DbFacts
<1>3. Counted(k, l, p, n, d)
  <2> HIDE DEF n, d, k, l
  <2> QED
    BY <1>1, <1>2, CountsAll
<1>4. pc' = [pc EXCEPT ![p] = n1] /\ done' = [done EXCEPT ![p] = d1] /\ db' = db
  BY DEF Effect
<1>5. k' = k /\ l' = l
  BY <1>4, DbStays DEF Same
<1>6. /\ Sent(k, l, p, r, n1, d1) = Sent(k, l, p, r, n, d) + OneIf(r = To(c))
      /\ Got(k, l, q, p, n1, d1) = Got(k, l, q, p, n, d) + OneIf(q \in From(c))
      /\ r = To(c) => Message(k, l, p, r, Sent(k, l, p, r, n, d) + 1) = Says(c, d)
      /\ q \in From(c) => Message(k, l, q, p, Got(k, l, q, p, n, d) + 1) = Hears(c, d, q)
  BY <1>3 DEF Counted, Moves
<1> HIDE DEF n1, d1, c
<1>7. pc'[p] = n1 /\ done'[p] = d1 /\ (\A x \in Party : x # p => pc'[x] = pc[x] /\ done'[x] = done[x])
  BY <1>1, <1>4
<1> HIDE DEF k, l
<1>8. SentNow(q, r) = Sent(k, l, q, r, pc[q], done[q]) /\ Sent(TableChunks', OutChunks', q, r, pc'[q], done'[q]) = Sent(k, l, q, r, pc'[q], done'[q])
  BY <1>5 DEF SentNow, k, l
<1>9. GotNow(q, r) = Got(k, l, q, r, pc[r], done[r]) /\ Got(TableChunks', OutChunks', q, r, pc'[r], done'[r]) = Got(k, l, q, r, pc'[r], done'[r])
  BY <1>5 DEF GotNow, k, l
<1>10. Expected(q, r, SentNow(q, r) + 1) = Message(k, l, q, r, SentNow(q, r) + 1)
       /\ Expected(q, r, GotNow(q, r) + 1) = Message(k, l, q, r, GotNow(q, r) + 1)
  BY DEF Expected, k, l
<1>11. SentNow(q, r) \in Nat /\ GotNow(q, r) \in Nat
  BY DEF JoinInv, ChanIn, Carries
<1>12. Sent(TableChunks', OutChunks', q, r, pc'[q], done'[q]) = SentNow(q, r) + OneIf(q = p /\ r = To(c))
  <2>1. CASE q = p
    BY <1>6, <1>7, <1>8, <2>1
  <2>2. CASE q # p
    BY <1>7, <1>8, <1>11, <2>2 DEF OneIf
  <2> QED
    BY <2>1, <2>2
<1>13. Got(TableChunks', OutChunks', q, r, pc'[r], done'[r]) = GotNow(q, r) + OneIf(r = p /\ q \in From(c))
  <2>1. CASE r = p
    BY <1>6, <1>7, <1>9, <2>1
  <2>2. CASE r # p
    BY <1>7, <1>9, <1>11, <2>2 DEF OneIf
  <2> QED
    BY <2>1, <2>2
<1>14. q = p /\ r = To(c) => Expected(q, r, SentNow(q, r) + 1) = Says(c, d)
  BY <1>6, <1>8, <1>10
<1>15. r = p /\ q \in From(c) => Expected(q, r, GotNow(q, r) + 1) = Hears(c, d, q)
  BY <1>6, <1>9, <1>10
<1> QED
  BY <1>12, <1>13, <1>14, <1>15 DEF c

(* So each channel still holds what its ends have counted differently.     *)
LEMMA ChanKeeps ==
  ASSUME JoinInv, DbFacts, NEW p \in Party, pc[p] < CallCount(p), NEW msg, Effect(p, msg)
  PROVE  ChanIn'
<1> DEFINE c == CallAt(p, pc[p])
           d == done[p]
<1>1. /\ db' = db
      /\ \A q \in From(c) : chan[<<q, p>>] # <<>>
      /\ To(c) \in Party => Matched(msg, Says(c, d))
      /\ chan' = [x \in Party \X Party |-> Moved(chan[x], x[2] = p /\ x[1] \in From(c), x[1] = p /\ x[2] = To(c), msg)]
  BY DEF Effect
<1>2. chan' = [x \in Party \X Party |-> chan'[x]]
  BY <1>1
<1>3. ASSUME NEW q \in Party, NEW r \in Party PROVE Carries(q, r)'
  <2> DEFINE taken == r = p /\ q \in From(c)
             put == q = p /\ r = To(c)
             s == SentNow(q, r)
             g == GotNow(q, r)
             ch == chan[<<q, r>>]
             t == chan'[<<q, r>>]
             s1 == Sent(TableChunks', OutChunks', q, r, pc'[q], done'[q])
             g1 == Got(TableChunks', OutChunks', q, r, pc'[r], done'[r])
  <2>1. /\ s1 = s + OneIf(put) /\ g1 = g + OneIf(taken)
        /\ put => Expected(q, r, s + 1) = Says(c, d)
    BY CountsMove
  <2>2. /\ s \in Nat /\ g \in Nat /\ Matrix(ch, s - g)
        /\ \A i \in 1 .. s - g : Matched(ch[i], Expected(q, r, g + i))
    BY DEF JoinInv, ChanIn, Carries
  <2>3. t = Moved(ch, taken, put, msg)
    BY <1>1
  <2>4. taken => ch # <<>>
    BY <1>1
  <2>5. put => Matched(msg, Expected(q, r, s + 1))
    BY <1>1, <2>1
  <2>6. \A n : Expected(q, r, n)' = Expected(q, r, n)
    BY <1>1, DbStays DEF Same
  <2>b. taken \in BOOLEAN /\ put \in BOOLEAN
    OBVIOUS
  <2>u. s1 = s + OneIf(put) /\ g1 = g + OneIf(taken)
    BY <2>1
  <2> HIDE DEF taken, put, s, g, ch, t
  <2>7. QueueIs(t, ch, s - g, taken, put, msg)
    BY <2>2, <2>3, <2>4, <2>b, QueueMoves
  <2>8. s - g \in Nat /\ (taken => s - g # 0)
    BY <2>2, <2>4, QueueEmpty DEF Matrix
  <2> DEFINE w == s1 - g1
  <2> HIDE DEF s1, g1
  <2>9. s1 \in Nat /\ g1 \in Nat /\ w = (s - g) - OneIf(taken) + OneIf(put) /\ w \in Nat
    BY <2>2, <2>8, <2>u DEF OneIf
  <2>10. Matrix(t, w)
    BY <2>7, <2>9 DEF QueueIs
  <2>11. ASSUME NEW i \in 1 .. w PROVE Matched(t[i], Expected(q, r, g1 + i))
    <3>1. CASE i \in 1 .. (s - g) - OneIf(taken)
      <4> DEFINE j == i + OneIf(taken)
      <4>1. j \in 1 .. s - g /\ g + j = g1 + i
        BY <2>2, <2>8, <2>u, <3>1 DEF OneIf
      <4>2. t[i] = ch[j]
        BY <2>7, <3>1 DEF QueueIs
      <4> HIDE DEF j
      <4> QED
        BY <2>2, <4>1, <4>2
    <3>2. CASE i \notin 1 .. (s - g) - OneIf(taken)
      <4>1. put /\ i = (s - g) - OneIf(taken) + 1 /\ g1 + i = s + 1
        BY <2>2, <2>8, <2>9, <2>u, <3>2 DEF OneIf
      <4>2. t[i] = msg
        BY <2>7, <4>1 DEF QueueIs
      <4> QED
        BY <2>5, <4>1, <4>2
    <3> QED
      BY <3>1, <3>2
  <2> QED
    BY <2>6, <2>9, <2>10, <2>11 DEF Carries, SentNow, GotNow, w, s1, g1, t
<1> QED
  BY <1>2, <1>3 DEF ChanIn

-----------------------------------------------------------------------------
(* What a server is doing, in terms of the counters.                       *)
LEMMA NowIs ==
  ASSUME JoinInv, NEW p \in Party
  PROVE  /\ Finished(p) <=> pc[p] = CallCount(p)
         /\ ~ Finished(p) => Now(p) = CallAt(p, pc[p]) /\ pc[p] < CallCount(p)
<1>1. pc[p] \in Nat /\ pc[p] <= CallCount(p) /\ CallCount(p) \in Nat
  BY DEF JoinInv, CallsIn, CallCount
<1>2. Len(Script(p)) = CallCount(p) /\ \A n \in 0 .. CallCount(p) - 1 : Script(p)[n + 1] = CallAt(p, n)
  BY ScriptIs
<1>3. Finished(p) <=> pc[p] = CallCount(p)
  BY <1>2 DEF Finished
<1>4. ASSUME ~ Finished(p) PROVE Now(p) = CallAt(p, pc[p]) /\ pc[p] < CallCount(p)
  <2>1. pc[p] < CallCount(p) /\ pc[p] \in 0 .. CallCount(p) - 1
    BY <1>1, <1>3, <1>4
  <2> QED
    BY <1>2, <2>1 DEF Now
<1> QED
  BY <1>3, <1>4

(* Awaits and From name the same senders.                                  *)
LEMMA AwaitsIs ==
  ASSUME NEW p, NEW c, c = Now(p)
  PROVE  \A q : (\E a \in Awaits(p) : a[1] = q) <=> q \in From(c)
<1>1. CASE c.op = "greeted"
  <2>1. Awaits(p) = {<<c.from, "hello">>}
    BY <1>1 DEF Awaits
  <2>2. From(c) = {c.from}
    BY <1>1 DEF From
  <2> QED
    BY <2>1, <2>2
<1>2. CASE c.op = "permRecv"
  <2>1. Awaits(p) = {<<c.data, "rows">>, <<c.perm, "perm">>}
    BY <1>2 DEF Awaits
  <2>2. From(c) = {c.data, c.perm}
    BY <1>2 DEF From
  <2> QED
    BY <2>1, <2>2
<1>3. CASE c.op = "sendDuplicate"
  <2>1. Awaits(p) = {<<1, "bits">>}
    BY <1>3 DEF Awaits
  <2>2. From(c) = {1}
    BY <1>3 DEF From
  <2> QED
    BY <2>1, <2>2
<1>4. CASE c.op = "programDuplicate"
  <2>1. Awaits(p) = {<<0, "share0">>, <<2, "share1">>}
    BY <1>4 DEF Awaits
  <2>2. From(c) = {0, 2}
    BY <1>4 DEF From
  <2> QED
    BY <2>1, <2>2
<1>5. CASE c.op \notin {"greeted", "permRecv", "sendDuplicate", "programDuplicate"}
  <2>1. Awaits(p) = {}
    BY <1>5 DEF Awaits
  <2>2. From(c) = {}
    BY <1>5 DEF From
  <2> QED
    BY <2>1, <2>2
<1> QED
  BY <1>1, <1>2, <1>3, <1>4, <1>5

(* What the first message of a channel it waits for is.                    *)
LEMMA Heard ==
  ASSUME JoinInv, DbFacts, NEW p \in Party, pc[p] < CallCount(p), NEW q \in Party,
         q \in From(CallAt(p, pc[p]))
  PROVE  /\ Expected(q, p, GotNow(q, p) + 1) = Hears(CallAt(p, pc[p]), done[p], q)
         /\ chan[<<q, p>>] # <<>> => Matched(First(q, p), Hears(CallAt(p, pc[p]), done[p], q))
<1> DEFINE n == pc[p]
           d == done[p]
           c == CallAt(p, n)
           k == TableChunks
           l == OutChunks
<1>1. n \in 0 .. CallCount(p) - 1 /\ d \in 0 .. Span(c) - 1
  <2>1. n \in Nat /\ d \in Nat /\ d < Span(c)
    BY DEF JoinInv, CallsIn
  <2>2. Span(c) \in Nat
    BY <2>1, SpanPositive
  <2>3. CallCount(p) \in Nat
    BY DEF CallCount
  <2> QED
    BY <2>1, <2>2, <2>3
<1>2. Sized(k, l)
  BY DEF DbFacts
<1>3. Counted(k, l, p, n, d)
  <2> HIDE DEF n, d, k, l
  <2> QED
    BY <1>1, <1>2, CountsAll
<1>4. Expected(q, p, GotNow(q, p) + 1) = Hears(c, d, q)
  BY <1>3 DEF Counted, Expected, GotNow
<1>5. ASSUME chan[<<q, p>>] # <<>> PROVE Matched(First(q, p), Hears(c, d, q))
  <2> DEFINE s == chan[<<q, p>>]
             g == GotNow(q, p)
             m == SentNow(q, p) - g
  <2>1. Matrix(s, m) /\ \A i \in 1 .. m : Matched(s[i], Expected(q, p, g + i))
    BY DEF JoinInv, ChanIn, Carries
  <2>2. First(q, p) = Head(s)
    BY DEF First
  <2> HIDE DEF s, m
  <2>3. s # <<>> /\ m \in Nat
    BY <1>5, <2>1 DEF Matrix, s
  <2>4. m # 0 /\ Head(s) = s[1]
    BY <2>1, <2>3, QueueEmpty
  <2>5. Matched(s[1], Expected(q, p, g + 1))
    BY <2>1, <2>3, <2>4
  <2> QED
    BY <1>4, <2>2, <2>4, <2>5
<1> QED
  BY <1>4, <1>5

(* The way from the channels' definition to that of Effect.                *)
Advance(p) ==
  LET over == done[p] + 1 = Span(CallAt(p, pc[p]))
  IN /\ pc' = [pc EXCEPT ![p] = IF over THEN pc[p] + 1 ELSE pc[p]]
     /\ done' = [done EXCEPT ![p] = IF over THEN 0 ELSE done[p] + 1]

(* A call of one step ends with it.                                        *)
LEMMA ReturnIs ==
  ASSUME JoinInv, DbFacts, NEW p \in Party, Span(CallAt(p, pc[p])) = 1, Return(p)
  PROVE  Advance(p)
<1>1. done[p] = 0
  BY DEF JoinInv, CallsIn
<1> QED
  BY <1>1 DEF Return, Advance

(* A call of several chunks ends with the last.                            *)
LEMMA ChunkDoneIs ==
  ASSUME JoinInv, DbFacts, NEW p \in Party, NEW rows, Span(CallAt(p, pc[p])) = Chunks(rows), ChunkDone(p, rows)
  PROVE  Advance(p)
<1> DEFINE sp == Span(CallAt(p, pc[p]))
<1>1. /\ done[p] \in Nat /\ done[p] < sp /\ sp \in Nat
      /\ pc \in [Party -> Nat] /\ done \in [Party -> Nat]
  <2>1. pc[p] \in Nat
    BY DEF JoinInv, CallsIn
  <2> QED
    BY <2>1, SpanPositive DEF JoinInv, CallsIn
<1>2. IF done[p] + 1 < sp THEN done' = [done EXCEPT ![p] = @ + 1] /\ pc' = pc ELSE Return(p)
  BY DEF ChunkDone
<1> HIDE DEF sp
<1>3. CASE done[p] + 1 < sp
  <2>1. done[p] + 1 # sp
    BY <1>1, <1>3
  <2> QED
    BY <1>1, <1>2, <1>3, <2>1 DEF Advance, sp
<1>4. CASE ~ done[p] + 1 < sp
  <2>1. done[p] + 1 = sp
    BY <1>1, <1>4
  <2> QED
    BY <1>1, <1>2, <1>4, <2>1 DEF Advance, Return, sp
<1> QED
  BY <1>3, <1>4

ChanMoved(p, msg) ==
  chan' = [x \in Party \X Party |->
            Moved(chan[x], x[2] = p /\ x[1] \in From(Now(p)), x[1] = p /\ x[2] = To(Now(p)), msg)]

(* The channels after a step that only takes.                              *)
LEMMA QuietIs ==
  ASSUME JoinInv, NEW p \in Party, ~ Finished(p), Receives(p), NEW msg, To(Now(p)) = 3
  PROVE  ChanMoved(p, msg)
<1>1. DOMAIN chan = Party \X Party
  BY DEF JoinInv, ChanIn
<1>2. \A q : (\E a \in Awaits(p) : a[1] = q) <=> q \in From(Now(p))
  BY AwaitsIs
<1>3. chan' = [x \in Party \X Party |->
                 (IF x[2] = p /\ \E a \in Awaits(p) : a[1] = x[1] THEN Tail(chan[x]) ELSE chan[x]) \o <<>>]
  BY <1>1 DEF Receives, Queues
<1>4. ASSUME NEW x \in Party \X Party
      PROVE  (IF x[2] = p /\ \E a \in Awaits(p) : a[1] = x[1] THEN Tail(chan[x]) ELSE chan[x]) \o <<>>
               = Moved(chan[x], x[2] = p /\ x[1] \in From(Now(p)), x[1] = p /\ x[2] = To(Now(p)), msg)
  <2>1. x[2] # 3
    BY DEF Party
  <2> QED
    BY <1>2, <2>1 DEF Moved
<1> QED
  BY <1>3, <1>4 DEF ChanMoved

(* The channels after a step that sends.                                   *)
LEMMA SendsIs ==
  ASSUME JoinInv, NEW p \in Party, ~ Finished(p), NEW to \in Party, NEW kind, NEW data, Sends(p, to, kind, data),
         To(Now(p)) = to,
         NEW msg, msg = [kind |-> kind, data |-> data]
  PROVE  ChanMoved(p, msg)
<1> DEFINE sent == [x \in {<<p, to>>} |-> msg]
<1>1. DOMAIN chan = Party \X Party
  BY DEF JoinInv, ChanIn
<1>2. \A q : (\E a \in Awaits(p) : a[1] = q) <=> q \in From(Now(p))
  BY AwaitsIs
<1>3. DOMAIN sent = {<<p, to>>} /\ sent[<<p, to>>] = msg
  OBVIOUS
<1>4. chan' = Queues(p, sent)
  BY DEF Sends
<1> HIDE DEF sent
<1>5. chan' = [x \in Party \X Party |->
                 (IF x[2] = p /\ \E a \in Awaits(p) : a[1] = x[1] THEN Tail(chan[x]) ELSE chan[x])
                   \o (IF x \in DOMAIN sent THEN <<sent[x]>> ELSE <<>>)]
  BY <1>1, <1>4 DEF Queues
<1>6. ASSUME NEW x \in Party \X Party
      PROVE  (IF x[2] = p /\ \E a \in Awaits(p) : a[1] = x[1] THEN Tail(chan[x]) ELSE chan[x])
                   \o (IF x \in DOMAIN sent THEN <<sent[x]>> ELSE <<>>)
               = Moved(chan[x], x[2] = p /\ x[1] \in From(Now(p)), x[1] = p /\ x[2] = To(Now(p)), msg)
  <2>1. x \in DOMAIN sent <=> x[1] = p /\ x[2] = to
    BY <1>3
  <2>2. x \in DOMAIN sent => sent[x] = msg
    BY <1>3
  <2> QED
    BY <1>2, <2>1, <2>2 DEF Moved
<1> QED
  BY <1>5, <1>6 DEF ChanMoved

-----------------------------------------------------------------------------
(* The switching programs and permutations have the sizes they should.     *)
LEMMA PositionsIn ==
  ASSUME db \in Databases, DbFacts, NEW i \in 1 .. Rows
  PROVE  Positions(i) \in [1 .. 3 -> 1 .. db.bins]
<1> DEFINE hx == db.hash[db.left[i]]
           b0 == db.bins
           Inc(b) == (b % b0) + 1
           h1 == hx[1]
           h2 == IF hx[1] = hx[2] THEN Inc(hx[2]) ELSE hx[2]
           Move(b) == IF b \in {h1, h2} THEN Inc(b) ELSE b
<1>1. i \in DOMAIN db.left /\ b0 \in Nat /\ b0 >= 3
  BY DEF DbFacts
<1>2. db.left[i] \in ToSet(db.left)
  BY <1>1 DEF ToSet
<1>3. hx \in [1 .. 3 -> 1 .. b0]
  BY <1>2, DatabasesAssumption
<1>4. Positions(i) = <<h1, h2, Move(Move(hx[3]))>>
  BY DEF Positions, Apart
<1> HIDE DEF hx, b0
<1>5. \A b \in 1 .. b0 : Inc(b) \in 1 .. b0
  BY <1>1
<1> HIDE DEF Inc
<1>6. h1 \in 1 .. b0 /\ h2 \in 1 .. b0 /\ hx[3] \in 1 .. b0
  BY <1>3, <1>5
<1> HIDE DEF h1, h2
<1>7. \A b \in 1 .. b0 : Move(b) \in 1 .. b0
  BY <1>5
<1> HIDE DEF Move
<1> DEFINE h3 == Move(Move(hx[3]))
<1>8. h3 \in 1 .. b0
  BY <1>6, <1>7
<1> HIDE DEF h3
<1>9. <<h1, h2, h3>> \in [1 .. 3 -> 1 .. b0]
  BY <1>6, <1>8
<1> QED
  BY <1>4, <1>9 DEF b0, h3

(* The sorted program maps bins to left rows.                              *)
LEMMA SortedIs ==
  ASSUME db \in Databases, DbFacts, NEW h \in 1 .. 3
  PROVE  /\ Sorted(h) \in [1 .. Rows -> [mSrc : 1 .. db.bins, mDest : 1 .. Rows]]
         /\ Matrix(Sorted(h), Rows) /\ Rearranges(Sorted(h), Switches(h), Rows)
<1> DEFINE sw == Switches(h)
           counts == Counts(h)
           m == Rows
           b == db.bins
<1>1. DOMAIN db.left = 1 .. m /\ m \in Nat /\ b \in Nat
  BY DEF DbFacts
<1>2. sw \in [1 .. m -> [mSrc : 1 .. b, mDest : 1 .. m]]
  <2>1. \A i \in 1 .. m : Positions(i)[h] \in 1 .. b
    BY PositionsIn
  <2>2. sw = [i \in 1 .. m |-> [mSrc |-> Positions(i)[h], mDest |-> i]]
    BY <1>1 DEF Switches
  <2> HIDE DEF sw, b, m
  <2> QED
    BY <2>1, <2>2
<1>3. counts \in [1 .. b -> Nat]
  <2>1. \A c \in 1 .. b : Cardinality({i \in DOMAIN db.left : Positions(i)[h] = c}) \in Nat
    <3> SUFFICES ASSUME NEW c \in 1 .. b PROVE Cardinality({i \in DOMAIN db.left : Positions(i)[h] = c}) \in Nat
      OBVIOUS
    <3> DEFINE S == {i \in DOMAIN db.left : Positions(i)[h] = c}
    <3>1. IsFiniteSet(1 .. m)
      BY <1>1, FS_Interval
    <3>2. S \subseteq 1 .. m
      BY <1>1
    <3> HIDE DEF S
    <3> QED
      BY <3>1, <3>2, FS_Subset, FS_CardinalityType DEF S
  <2> QED
    BY <2>1 DEF Counts
<1>4. Sorted(h) = SortFold(sw, counts).a
  BY Zenon DEF Sorted, Finalize, SortFold
<1> HIDE DEF sw, counts, m, b
<1>5. SortFold(sw, counts) \in Sorting(sw, m, b)
  BY <1>1, <1>2, <1>3, SortKeeps
<1>6. Sorted(h) \in [1 .. m -> [mSrc : 1 .. b, mDest : 1 .. m]]
  BY <1>4, <1>5 DEF Sorting
<1>6a. Rearranges(Sorted(h), sw, m)
  BY <1>4, <1>5 DEF Sorting
<1>7. Matrix(Sorted(h), m)
  <2> DEFINE V == [mSrc : 1 .. b, mDest : 1 .. m]
  <2> HIDE DEF V
  <2>1. Sorted(h) \in [1 .. m -> V]
    BY <1>6 DEF V
  <2> QED
    BY <1>1, <2>1 DEF Matrix
<1> QED
  BY <1>6, <1>6a, <1>7 DEF m, b, sw

(* Each permutation has the size its call says.                            *)
LEMMA PermutationIs ==
  ASSUME db \in Databases, DbFacts, NEW c, CallOK(c), c.op = "permProgram"
  PROVE  Matrix(Permutation(c), Size(c))
<1>1. CASE c.name = "table"
  <2>1. Permutation(c) = CuckooPerm /\ Size(c) = db.bins
    BY <1>1 DEF Permutation, Size
  <2>2. db.bins \in Nat
    BY DEF DbFacts
  <2>3. Matrix(CuckooPerm, db.bins)
    BY <2>2 DEF Matrix, CuckooPerm
  <2> QED
    BY <2>1, <2>3
<1>2. CASE c.name = "temp"
  <2>1. Permutation(c) = SelectPerm(Sorted(c.h), db.bins) /\ Size(c) = SrcRows /\ c.h \in 1 .. 3
    BY <1>2 DEF Permutation, Size, CallOK
  <2>2. db.bins \in Nat /\ Rows \in Nat
    BY DEF DbFacts
  <2>3. Matrix(Sorted(c.h), Rows)
    BY <2>1, SortedIs
  <2>4. Matrix(SelectPerm(Sorted(c.h), db.bins), IF Rows < db.bins THEN db.bins ELSE Rows)
    <3> DEFINE s == Sorted(c.h)
               b == db.bins
    <3>1. Matrix(s, Rows) /\ b \in Nat
      BY <2>2, <2>3
    <3> HIDE DEF s, b
    <3>2. Matrix(SelectPerm(s, b), IF Rows < b THEN b ELSE Rows)
      BY <3>1, SelectPermLen
    <3> QED
      BY <3>2 DEF s, b
  <2>5. SrcRows = IF Rows < db.bins THEN db.bins ELSE Rows
    <3> DEFINE b == db.bins
    <3>1. SrcRows = IF b < Rows THEN Rows ELSE b
      BY DEF SrcRows
    <3>2. b \in Nat
      BY <2>2
    <3> HIDE DEF b
    <3>3. SrcRows = IF Rows < b THEN b ELSE Rows
      BY <2>2, <3>1, <3>2
    <3> QED
      BY <3>3 DEF b
  <2> QED
    BY <2>1, <2>4, <2>5
<1>3. CASE c.name # "table" /\ c.name # "temp"
  <2>1. Permutation(c) = FinalPerm(c.h) /\ Size(c) = Rows
    BY <1>3 DEF Permutation, Size
  <2>2. DOMAIN db.left = 1 .. Rows /\ Rows \in Nat
    BY DEF DbFacts
  <2>3. Matrix(FinalPerm(c.h), Rows)
    BY <2>2 DEF Matrix, FinalPerm
  <2> QED
    BY <2>1, <2>3
<1> QED
  BY <1>1, <1>2, <1>3

(* Chunks of a matrix.                                                     *)
LEMMA ChunkMatrix ==
  ASSUME NEW t, NEW m0 \in Nat \ {0}, NEW chunk \in 1 .. Chunks(m0), Matrix(t, m0)
  PROVE  Matrix(ChunkOf(t, chunk), ChunkLen(m0, chunk))
<1>1. Len(t) = m0
  BY MatrixLen
<1>2. ChunkLen(m0, chunk) \in Nat
  BY ChunksFacts
<1> QED
  BY <1>1, <1>2 DEF ChunkOf, Matrix

(* Masking a chunk keeps the number of rows.                               *)
LEMMA MaskedMatrix ==
  ASSUME NEW t, NEW m0 \in Nat \ {0}, NEW chunk \in 1 .. Chunks(m0), Matrix(t, m0)
  PROVE  /\ Matrix(Masked(t, chunk), m0)
         /\ \A i \in 1 .. (chunk - 1) * Step : Masked(t, chunk)[i] = t[i]
<1>1. Len(t) = m0 /\ DOMAIN t = 1 .. m0 /\ m0 \in Nat
  BY MatrixLen
<1>2. Matrix(Masked(t, chunk), m0)
  BY <1>1 DEF Masked, Matrix
<1>3. ASSUME NEW i \in 1 .. (chunk - 1) * Step PROVE Masked(t, chunk)[i] = t[i]
  <2> DEFINE b == (chunk - 1) * Step
  <2>1. /\ b \in Nat /\ b < m0 /\ ChunkLen(m0, chunk) \in Nat
        /\ ChunkRows(m0, chunk) = (b + 1) .. (b + ChunkLen(m0, chunk))
    BY ChunksFacts
  <2>2. i \in 1 .. b
    OBVIOUS
  <2> HIDE DEF b
  <2>3. i \in 1 .. m0 /\ i \notin ChunkRows(m0, chunk)
    BY <2>1, <2>2
  <2> QED
    BY <1>1, <2>3 DEF Masked
<1> QED
  BY <1>2, <1>3

-----------------------------------------------------------------------------
(* What a step does to what it works on and to the matrices.               *)
LEMMA WorkKeeps ==
  ASSUME JoinInv, DbFacts, NEW p \in Party, pc[p] < CallCount(p), NEW msg, Effect(p, msg), NEW t,
         work' = [work EXCEPT ![p] = t],
         CallAt(p, pc[p]).op \in {"permSend", "permProgram"} => Matrix(t, Size(CallAt(p, pc[p])))
  PROVE  WorkIn'
<1>1. /\ pc \in [Party -> Nat] /\ done \in [Party -> Nat] /\ work = [q \in Party |-> work[q]]
      /\ \A q \in Party : done[q] > 0 /\ CallAt(q, pc[q]).op \in {"permSend", "permProgram"} =>
           Matrix(work[q], Size(CallAt(q, pc[q])))
  BY DEF JoinInv, CallsIn, WorkIn
<1> DEFINE over == done[p] + 1 = Span(CallAt(p, pc[p]))
<1>2. /\ pc' = [pc EXCEPT ![p] = IF over THEN pc[p] + 1 ELSE pc[p]]
      /\ done' = [done EXCEPT ![p] = IF over THEN 0 ELSE done[p] + 1]
      /\ db' = db
  BY DEF Effect
<1> HIDE DEF over
<1>3. (\A q, n : CallAt(q, n)' = CallAt(q, n)) /\ (\A x : Size(x)' = Size(x))
  BY <1>2, DbStays DEF Same
<1>4. work' = [q \in Party |-> work'[q]]
  BY <1>1
<1>5. ASSUME NEW q \in Party, done'[q] > 0, CallAt(q, pc'[q]).op \in {"permSend", "permProgram"}
      PROVE  Matrix(work'[q], Size(CallAt(q, pc'[q])))
  <2>1. CASE q # p
    <3>1. pc'[q] = pc[q] /\ done'[q] = done[q] /\ work'[q] = work[q]
      BY <1>1, <1>2, <2>1
    <3> QED
      BY <1>1, <1>5, <3>1
  <2>2. CASE q = p
    <3>1. work'[p] = t
      BY <1>1
    <3>2. pc'[p] = pc[p]
      BY <1>1, <1>2, <1>5, <2>2
    <3> QED
      BY <1>5, <2>2, <3>1, <3>2
  <2> QED
    BY <2>1, <2>2
<1>6. \A q \in Party : done'[q] > 0 /\ (CallAt(q, pc[q]).op)' \in {"permSend", "permProgram"} =>
        Matrix(work'[q], Size(CallAt(q, pc[q]))')
  BY <1>3, <1>5
<1> QED
  BY <1>4, <1>6 DEF WorkIn

(* Replacing one server's matrices.                                        *)
LEMMA MemKeeps ==
  ASSUME JoinInv, db' = db, NEW p \in Party, NEW m, mem' = [mem EXCEPT ![p] = m],
         m = [name \in MemNames |-> m[name]], \A name \in MemNames : Matrix(m[name], MemRows(name))
  PROVE  MemIn'
<1>1. /\ mem = [q \in Party |-> mem[q]]
      /\ \A q \in Party : /\ mem[q] = [name \in MemNames |-> mem[q][name]]
                          /\ \A name \in MemNames : Matrix(mem[q][name], MemRows(name))
  BY DEF JoinInv, MemIn
<1>2. \A name : MemRows(name)' = MemRows(name)
  BY DbStays DEF Same
<1>3. mem'[p] = m /\ \A q \in Party : q # p => mem'[q] = mem[q]
  BY <1>1
<1>4. mem' = [q \in Party |-> mem'[q]]
  BY <1>1
<1>5. ASSUME NEW q \in Party
      PROVE  /\ mem'[q] = [name \in MemNames |-> mem'[q][name]]
             /\ \A name \in MemNames : Matrix(mem'[q][name], MemRows(name))
  <2>1. CASE q = p
    BY <1>3, <2>1
  <2>2. CASE q # p
    BY <1>1, <1>3, <2>2
  <2> QED
    BY <2>1, <2>2
<1> QED
  BY <1>2, <1>4, <1>5 DEF MemIn, MemNames, Out

(* Replacing one matrix.                                                   *)
LEMMA WriteKeeps ==
  ASSUME JoinInv, db' = db, NEW p \in Party, NEW name \in MemNames, NEW matrix,
         Write(p, name, matrix), Matrix(matrix, MemRows(name))
  PROVE  MemIn'
<1> DEFINE m == [mem[p] EXCEPT ![name] = matrix]
<1>1. mem[p] = [n \in MemNames |-> mem[p][n]] /\ \A n \in MemNames : Matrix(mem[p][n], MemRows(n))
  BY DEF JoinInv, MemIn
<1>2. mem' = [mem EXCEPT ![p] = m]
  BY DEF Write
<1>3. m = [n \in MemNames |-> m[n]] /\ m[name] = matrix /\ \A n \in MemNames : n # name => m[n] = mem[p][n]
  BY <1>1
<1> HIDE DEF m
<1>4. \A n \in MemNames : Matrix(m[n], MemRows(n))
  BY <1>1, <1>3
<1> QED
  BY <1>2, <1>3, <1>4, MemKeeps

(* Replacing none.                                                         *)
LEMMA MemSame ==
  ASSUME JoinInv, db' = db, mem' = mem
  PROVE  MemIn'
<1>1. \A name : MemRows(name)' = MemRows(name)
  BY DbStays DEF Same
<1> QED
  BY <1>1 DEF JoinInv, MemIn, MemNames, Out

-----------------------------------------------------------------------------
(* The steps, one by one.                                                  *)
StepKeeps(p) ==
  /\ pc[p] < CallCount(p)
  /\ \E msg : Effect(p, msg)
  /\ WorkIn'
  /\ MemIn'

(* What is known of a server that has not finished.                        *)
LEMMA Acting ==
  ASSUME JoinInv, DbFacts, NEW p \in Party, ~ Finished(p)
  PROVE  /\ Now(p) = CallAt(p, pc[p]) /\ pc[p] < CallCount(p) /\ CallOK(Now(p))
         /\ From(Now(p)) \subseteq Party
         /\ Span(Now(p)) \in Nat \ {0} /\ done[p] \in 0 .. Span(Now(p)) - 1
<1>1. Now(p) = CallAt(p, pc[p]) /\ pc[p] < CallCount(p)
  BY NowIs
<1>2. pc[p] \in Nat /\ done[p] \in Nat /\ done[p] < Span(CallAt(p, pc[p]))
  BY DEF JoinInv, CallsIn
<1>3. CallOK(Now(p))
  BY <1>1, <1>2, CallsAreOK
<1>4. Span(Now(p)) \in Nat \ {0}
  BY <1>1, <1>2, SpanPositive
<1>5. done[p] \in 0 .. Span(Now(p)) - 1
  BY <1>1, <1>2, <1>4
<1>6. From(Now(p)) \subseteq Party
  BY <1>3 DEF From, CallOK, Party
<1> QED
  BY <1>1, <1>3, <1>4, <1>5, <1>6

(* The parts of a step put together.                                       *)
LEMMA EffectIs ==
  ASSUME JoinInv, DbFacts, NEW p \in Party, ~ Finished(p), Here(p), db' = db, Advance(p), NEW msg,
         To(Now(p)) \in Party => Matched(msg, Says(Now(p), done[p])),
         ChanMoved(p, msg)
  PROVE  Effect(p, msg)
<1>1. Now(p) = CallAt(p, pc[p])
  BY Acting
<1>2. \A q \in From(Now(p)) : chan[<<q, p>>] # <<>>
  BY AwaitsIs DEF Here
<1> QED
  BY <1>1, <1>2 DEF Effect, Advance, ChanMoved

(* A step that leaves work alone keeps what is known of it.                *)
LEMMA WorkSame ==
  ASSUME JoinInv, DbFacts, NEW p \in Party, ~ Finished(p), NEW msg, Effect(p, msg), work' = work,
         Now(p).op \notin {"permSend", "permProgram"}
  PROVE  WorkIn'
<1>1. Now(p) = CallAt(p, pc[p]) /\ pc[p] < CallCount(p)
  BY Acting
<1>2. work' = [work EXCEPT ![p] = work[p]]
  BY DEF JoinInv, WorkIn
<1> QED
  BY <1>1, <1>2, WorkKeeps

(* A handshake sent.                                                       *)
LEMMA SayHelloKeeps ==
  ASSUME JoinInv, DbFacts, NEW p \in Party, SayHello(p)
  PROVE  StepKeeps(p)
<1> DEFINE c == Now(p)
           msg == [kind |-> "hello", data |-> c.what]
<1>1. /\ ~ Finished(p) /\ c.op = "hello" /\ Here(p)
      /\ Sends(p, c.to, "hello", c.what) /\ Return(p) /\ db' = db /\ work' = work /\ mem' = mem
  BY DEF SayHello, At, Ready
<1>2. c = CallAt(p, pc[p]) /\ pc[p] < CallCount(p) /\ CallOK(c)
  BY <1>1, Acting
<1> HIDE DEF c
<1>3. c.to \in Party /\ To(c) = c.to /\ Span(c) = 1 /\ Says(c, done[p]) = <<"hello", c.what>>
  BY <1>1, <1>2 DEF CallOK, To, Span, Says
<1>4. Advance(p)
  BY <1>1, <1>2, <1>3, ReturnIs
<1>5. Matched(msg, Says(c, done[p]))
  BY <1>3 DEF Matched
<1> HIDE DEF msg
<1>6. ChanMoved(p, msg)
  BY <1>1, <1>3, SendsIs DEF c, msg
<1>7. Effect(p, msg)
  BY <1>1, <1>4, <1>5, <1>6, EffectIs DEF c
<1>8. WorkIn'
  BY <1>1, <1>7, WorkSame DEF c
<1>9. MemIn'
  BY <1>1, MemSame
<1> QED
  BY <1>2, <1>7, <1>8, <1>9 DEF StepKeeps

(* A handshake taken.                                                      *)
LEMMA HearHelloKeeps ==
  ASSUME JoinInv, DbFacts, NEW p \in Party, HearHello(p)
  PROVE  StepKeeps(p)
<1> DEFINE c == Now(p)
<1>1. /\ ~ Finished(p) /\ c.op = "greeted" /\ Here(p)
      /\ Receives(p) /\ Return(p) /\ db' = db /\ work' = work /\ mem' = mem
  BY DEF HearHello, At, Ready
<1>2. c = CallAt(p, pc[p]) /\ pc[p] < CallCount(p)
  BY <1>1, Acting
<1> HIDE DEF c
<1>3. To(c) = 3 /\ Span(c) = 1 /\ To(c) \notin Party
  BY <1>1 DEF To, Span, Party
<1>4. Advance(p)
  BY <1>1, <1>2, <1>3, ReturnIs
<1>6. ChanMoved(p, 0)
  BY <1>1, <1>3, QuietIs DEF c
<1>7. Effect(p, 0)
  BY <1>1, <1>3, <1>4, <1>6, EffectIs DEF c
<1>8. WorkIn'
  BY <1>1, <1>7, WorkSame DEF c
<1>9. MemIn'
  BY <1>1, MemSame
<1> QED
  BY <1>2, <1>7, <1>8, <1>9 DEF StepKeeps

(* Shuffling and masking a chunk in place.                                 *)
LEMMA SendChunkKeeps ==
  ASSUME JoinInv, DbFacts, NEW p \in Party, SendChunk(p)
  PROVE  /\ StepKeeps(p)
         /\ done[p] > 0 => \A i \in 1 .. done[p] * Step : work'[p][i] = work[p][i]
<1> DEFINE c == Now(p)
           d == done[p]
           s == IF d = 0 THEN Resized(mem[p][c.name], c.rows) ELSE work[p]
           u == ShuffleChunk(s, db.draws, d + 1)
           t == Masked(u, d + 1)
           data == ChunkOf(t, d + 1)
           msg == [kind |-> "rows", data |-> data]
<1>1. /\ ~ Finished(p) /\ c.op = "permSend" /\ Here(p)
      /\ work' = [work EXCEPT ![p] = t]
      /\ Sends(p, c.to, "rows", data) /\ ChunkDone(p, Len(s)) /\ db' = db /\ mem' = mem
  BY DEF SendChunk, At, Ready
<1>2. /\ c = CallAt(p, pc[p]) /\ pc[p] < CallCount(p) /\ CallOK(c)
      /\ d \in 0 .. Span(c) - 1 /\ Span(c) \in Nat \ {0}
  BY <1>1, Acting
<1>3. d > 0 => Matrix(work[p], Size(c))
  BY <1>1, <1>2 DEF JoinInv, WorkIn
<1>w. work = [q \in Party |-> work[q]]
  BY DEF JoinInv, WorkIn
<1> DEFINE n == c.rows
<1> HIDE DEF c
<1>4. c.to \in Party /\ To(c) = c.to /\ Span(c) = Chunks(n) /\ Size(c) = n /\ Says(c, d) = <<"rows", ChunkLen(n, d + 1)>>
  BY <1>1, <1>2 DEF CallOK, To, Span, Says, Size
<1>5. n \in Nat \ {0} /\ \A i \in 1 .. n : db.draws[i] \in Nat
  BY <1>1, <1>2 DEF CallOK, Sizes, DbFacts
<1> HIDE DEF n, d
<1>6. Matrix(s, n)
  <2>1. CASE d = 0
    BY <1>5, <2>1 DEF Resized, Matrix, n
  <2>2. CASE d # 0
    <3>1. d > 0
      BY <1>2, <2>2
    <3> QED
      BY <1>3, <1>4, <2>2, <3>1
  <2> QED
    BY <2>1, <2>2
<1>7. Len(s) = n
  BY <1>6, MatrixLen
<1>8. d + 1 \in 1 .. Chunks(n) /\ d + 1 - 1 = d
  BY <1>2, <1>4
<1> HIDE DEF s
<1> DEFINE draws == db.draws
<1> HIDE DEF draws
<1> DEFINE ch == d + 1
<1> HIDE DEF ch
<1>c. ch \in 1 .. Chunks(n) /\ ch - 1 = d
  BY <1>2, <1>8 DEF ch
<1>9. Matrix(u, n) /\ \A i \in 1 .. (ch - 1) * Step : u[i] = s[i]
  <2> DEFINE x == ShuffleChunk(s, draws, ch)
  <2>1. u = x
    BY DEF ch, draws
  <2>2. Matrix(x, n) /\ \A i \in 1 .. (ch - 1) * Step : x[i] = s[i]
    <3>1. \A i \in 1 .. n : draws[i] \in Nat
      BY <1>5 DEF draws
    <3> QED
      BY <1>5, <1>6, <1>c, <3>1, ShuffleKeeps
  <2> HIDE DEF u, x
  <2> QED
    BY <2>1, <2>2
<1> HIDE DEF u
<1>10. Matrix(t, n) /\ \A i \in 1 .. (ch - 1) * Step : t[i] = u[i]
  <2> DEFINE x == Masked(u, ch)
  <2>1. t = x
    BY DEF ch
  <2>2. Matrix(x, n) /\ \A i \in 1 .. (ch - 1) * Step : x[i] = u[i]
    BY <1>5, <1>9, <1>c, MaskedMatrix
  <2> HIDE DEF t, x
  <2> QED
    BY <2>1, <2>2
<1> HIDE DEF t
<1>11. Matrix(data, ChunkLen(n, d + 1))
  BY <1>5, <1>8, <1>10, ChunkMatrix
<1> HIDE DEF data
<1>12. Matched(msg, Says(c, d))
  BY <1>4, <1>11 DEF Matched
<1> HIDE DEF msg
<1>13. Advance(p)
  BY <1>1, <1>2, <1>4, <1>7, ChunkDoneIs
<1>14. ChanMoved(p, msg)
  BY <1>1, <1>4, SendsIs DEF c, msg
<1>15. Effect(p, msg)
  BY <1>1, <1>12, <1>13, <1>14, EffectIs DEF c, d
<1>16. WorkIn'
  BY <1>1, <1>2, <1>4, <1>10, <1>15, WorkKeeps
<1>17. MemIn'
  BY <1>1, MemSame
<1>18. ASSUME d > 0, NEW i \in 1 .. d * Step PROVE work'[p][i] = work[p][i]
  <2>1. s = work[p]
    BY <1>18 DEF s
  <2>2. work'[p] = t
    BY <1>1, <1>w
  <2> QED
    BY <1>9, <1>10, <1>18, <1>c, <2>1, <2>2
<1> QED
  BY <1>2, <1>15, <1>16, <1>17, <1>18 DEF StepKeeps, d

(* Shuffling a chunk of the permutation, and behind the last one the unmasking. *)
LEMMA ProgramChunkKeeps ==
  ASSUME JoinInv, DbFacts, NEW p \in Party, ProgramChunk(p)
  PROVE  /\ StepKeeps(p)
         /\ done[p] > 0 => \A i \in 1 .. done[p] * Step : work'[p][i] = work[p][i]
<1> DEFINE c == Now(p)
           d == done[p]
           s == IF d = 0 THEN Permutation(c) ELSE work[p]
           t == ShuffleChunk(s, db.draws, d + 1)
           data == ChunkOf(t, d + 1)
           msg == [kind |-> "perm", data |-> data]
           dest == IF c.name = "temp" THEN NewTemp ELSE mem[p][c.name]
<1>1. /\ ~ Finished(p) /\ c.op = "permProgram" /\ Here(p)
      /\ work' = [work EXCEPT ![p] = t]
      /\ Sends(p, c.to, "perm", data) /\ ChunkDone(p, Len(s)) /\ db' = db
      /\ mem' = mem \/ Write(p, c.name, Unmasked(dest, t, c.name # "temp"))
  BY DEF ProgramChunk, At, Ready
<1>2. /\ c = CallAt(p, pc[p]) /\ pc[p] < CallCount(p) /\ CallOK(c)
      /\ d \in 0 .. Span(c) - 1 /\ Span(c) \in Nat \ {0}
  BY <1>1, Acting
<1>3. d > 0 => Matrix(work[p], Size(c))
  BY <1>1, <1>2 DEF JoinInv, WorkIn
<1>w. work = [q \in Party |-> work[q]]
  BY DEF JoinInv, WorkIn
<1>m. \A name \in MemNames : Matrix(mem[p][name], MemRows(name))
  BY DEF JoinInv, MemIn
<1> DEFINE n == Size(c)
<1> HIDE DEF c
<1>4. /\ c.to \in Party /\ To(c) = c.to /\ Span(c) = Chunks(n) /\ c.name \in MemNames
      /\ Says(c, d) = <<"perm", ChunkLen(n, d + 1)>>
  BY <1>1, <1>2 DEF CallOK, To, Span, Says
<1>5. n \in Nat \ {0} /\ \A i \in 1 .. n : db.draws[i] \in Nat
  <2>1. Size(c) = db.bins \/ Size(c) = SrcRows \/ Size(c) = Rows
    BY <1>1 DEF Size
  <2> QED
    BY <2>1 DEF DbFacts
<1>p. Matrix(Permutation(c), n)
  BY <1>1, <1>2, PermutationIs DEF JoinInv
<1> HIDE DEF n, d
<1>6. Matrix(s, n)
  <2>1. CASE d = 0
    BY <1>p, <2>1
  <2>2. CASE d # 0
    <3>1. d > 0
      BY <1>2, <2>2
    <3> QED
      BY <1>3, <2>2, <3>1 DEF n
  <2> QED
    BY <2>1, <2>2
<1>7. Len(s) = n
  BY <1>6, MatrixLen
<1>8. d + 1 \in 1 .. Chunks(n) /\ d + 1 - 1 = d
  BY <1>2, <1>4
<1> HIDE DEF s
<1> DEFINE draws == db.draws
<1> HIDE DEF draws
<1> DEFINE ch == d + 1
<1> HIDE DEF ch
<1>c. ch \in 1 .. Chunks(n) /\ ch - 1 = d
  BY <1>2, <1>8 DEF ch
<1>9. Matrix(t, n) /\ \A i \in 1 .. (ch - 1) * Step : t[i] = s[i]
  <2> DEFINE x == ShuffleChunk(s, draws, ch)
  <2>1. t = x
    BY DEF ch, draws
  <2>2. Matrix(x, n) /\ \A i \in 1 .. (ch - 1) * Step : x[i] = s[i]
    <3>1. \A i \in 1 .. n : draws[i] \in Nat
      BY <1>5 DEF draws
    <3> QED
      BY <1>5, <1>6, <1>c, <3>1, ShuffleKeeps
  <2> HIDE DEF t, x
  <2> QED
    BY <2>1, <2>2
<1> HIDE DEF t
<1>11. Matrix(data, ChunkLen(n, d + 1))
  BY <1>5, <1>8, <1>9, ChunkMatrix
<1> HIDE DEF data
<1>12. Matched(msg, Says(c, d))
  BY <1>4, <1>11 DEF Matched
<1> HIDE DEF msg
<1>13. Advance(p)
  BY <1>1, <1>2, <1>4, <1>7, ChunkDoneIs
<1>14. ChanMoved(p, msg)
  BY <1>1, <1>4, SendsIs DEF c, msg
<1>15. Effect(p, msg)
  BY <1>1, <1>12, <1>13, <1>14, EffectIs DEF c, d
<1>16. WorkIn'
  BY <1>1, <1>2, <1>9, <1>15, WorkKeeps DEF n
<1>17. MemIn'
  <2>1. CASE mem' = mem
    BY <1>1, <2>1, MemSame
  <2>2. CASE Write(p, c.name, Unmasked(dest, t, c.name # "temp"))
    <3>1. Matrix(dest, MemRows(c.name))
      <4>1. Rows \in Nat
        BY DEF DbFacts
      <4>2. Matrix(NewTemp, MemRows("temp"))
        BY <4>1 DEF NewTemp, Filled, Matrix, MemRows
      <4> QED
        BY <1>4, <1>m, <4>2
    <3> DEFINE additive == c.name # "temp"
    <3> HIDE DEF dest, additive
    <3>2. Matrix(Unmasked(dest, t, additive), MemRows(c.name))
      BY <1>9, <3>1, UnmaskedKeeps
    <3>3. Write(p, c.name, Unmasked(dest, t, additive))
      BY <2>2 DEF additive
    <3> QED
      BY <1>1, <1>4, <3>2, <3>3, WriteKeeps
  <2> QED
    BY <1>1, <2>1, <2>2
<1>18. ASSUME d > 0, NEW i \in 1 .. d * Step PROVE work'[p][i] = work[p][i]
  <2>1. s = work[p]
    BY <1>18 DEF s
  <2>2. work'[p] = t
    BY <1>1, <1>w
  <2> QED
    BY <1>9, <1>18, <1>c, <2>1, <2>2
<1> QED
  BY <1>2, <1>15, <1>16, <1>17, <1>18 DEF StepKeeps, d

(* Receiving a chunk of rows and one of the permutation.                   *)
LEMMA RecvChunkKeeps ==
  ASSUME JoinInv, DbFacts, NEW p \in Party, RecvChunk(p)
  PROVE  StepKeeps(p)
<1> DEFINE c == Now(p)
           dest == IF c.name = "temp" /\ done[p] = 0 THEN NewTemp ELSE mem[p][c.name]
           perm == Received(c.perm, p)
           rows == Received(c.data, p)
<1>1. /\ ~ Finished(p) /\ c.op = "permRecv" /\ Here(p)
      /\ Write(p, c.name, Placed(dest, perm, rows))
      /\ Receives(p) /\ ChunkDone(p, c.rows) /\ db' = db /\ work' = work
  BY DEF RecvChunk, At, Ready
<1>2. c = CallAt(p, pc[p]) /\ pc[p] < CallCount(p) /\ CallOK(c)
  BY <1>1, Acting
<1>m. \A name \in MemNames : Matrix(mem[p][name], MemRows(name))
  BY DEF JoinInv, MemIn
<1>a. \A q \in From(c) : chan[<<q, p>>] # <<>>
  BY <1>1, AwaitsIs DEF Here
<1> HIDE DEF c
<1>3. To(c) = 3 /\ Span(c) = Chunks(c.rows) /\ To(c) \notin Party
  BY <1>1 DEF To, Span, Size, Party
<1>4. c.name \in MemNames /\ c.perm \in Party /\ c.perm # c.data /\ c.perm \in From(c)
  BY <1>1, <1>2 DEF CallOK, From
<1>5. PICK n0 : Matrix(perm, n0)
  <2>1. Matched(First(c.perm, p), Hears(c, done[p], c.perm))
    BY <1>2, <1>4, <1>a, Heard
  <2>2. Hears(c, done[p], c.perm)
          = <<"perm", ChunkLen(IF c.name = "temp" THEN SrcRows ELSE c.rows, done[p] + 1)>>
    BY <1>1, <1>4 DEF Hears
  <2>3. perm = First(c.perm, p).data
    BY DEF Received, c
  <2> HIDE DEF perm
  <2>4. Matrix(perm, ChunkLen(IF c.name = "temp" THEN SrcRows ELSE c.rows, done[p] + 1))
    BY <2>1, <2>2, <2>3 DEF Matched
  <2> QED
    BY <2>4
<1>6. Matrix(dest, MemRows(c.name))
  <2>1. Rows \in Nat
    BY DEF DbFacts
  <2>2. Matrix(NewTemp, MemRows("temp"))
    BY <2>1 DEF NewTemp, Filled, Matrix, MemRows
  <2> QED
    BY <1>4, <1>m, <2>2 DEF c
<1>7. MemIn'
  <2> DEFINE x == Placed(dest, perm, rows)
  <2>1. Matrix(x, MemRows(c.name))
    <3> HIDE DEF dest, perm, rows
    <3> QED
      BY <1>5, <1>6, PlacedKeeps
  <2>2. Write(p, c.name, x)
    BY <1>1 DEF c
  <2> HIDE DEF x
  <2> QED
    BY <1>1, <1>4, <2>1, <2>2, WriteKeeps
<1>8. Advance(p)
  BY <1>1, <1>2, <1>3, ChunkDoneIs
<1>9. ChanMoved(p, 0)
  BY <1>1, <1>3, QuietIs DEF c
<1>10. Effect(p, 0)
  BY <1>1, <1>3, <1>8, <1>9, EffectIs DEF c
<1>11. WorkIn'
  BY <1>1, <1>10, WorkSame DEF c
<1> QED
  BY <1>2, <1>7, <1>10, <1>11 DEF StepKeeps

(* A call that neither sends nor receives leaves the channels as they are. *)
LEMMA SilentIs ==
  ASSUME JoinInv, NEW p \in Party, chan' = chan, NEW msg, To(Now(p)) = 3, From(Now(p)) = {}
  PROVE  ChanMoved(p, msg)
<1>1. ASSUME NEW x \in Party \X Party PROVE Moved(chan[x], FALSE, FALSE, msg) = chan[x]
  <2> DEFINE s == chan[x]
             n == SentNow(x[1], x[2]) - GotNow(x[1], x[2])
             u == Moved(s, FALSE, FALSE, msg)
  <2>1. x = <<x[1], x[2]>> /\ x[1] \in Party /\ x[2] \in Party
    OBVIOUS
  <2>2. Matrix(s, n)
    BY <2>1 DEF JoinInv, ChanIn, Carries
  <2> HIDE DEF s, n
  <2>3. QueueIs(u, s, n, FALSE, FALSE, msg)
    BY <2>2, QueueMoves
  <2> HIDE DEF u
  <2>4. n \in Nat
    BY <2>2 DEF Matrix
  <2>5. Matrix(u, n) /\ \A i \in 1 .. n : u[i] = s[i]
    BY <2>3, <2>4 DEF QueueIs, OneIf
  <2>6. u = [i \in 1 .. n |-> u[i]] /\ s = [i \in 1 .. n |-> s[i]]
    BY <2>2, <2>5 DEF Matrix
  <2>7. u = s
    BY <2>5, <2>6
  <2> QED
    BY <2>7 DEF u, s
<1>2. chan = [x \in Party \X Party |-> chan[x]]
  BY DEF JoinInv, ChanIn
<1>3. ASSUME NEW x \in Party \X Party
      PROVE  Moved(chan[x], x[2] = p /\ x[1] \in From(Now(p)), x[1] = p /\ x[2] = To(Now(p)), msg) = chan[x]
  <2>1. x[2] # 3
    BY DEF Party
  <2> QED
    BY <1>1, <2>1 DEF Moved
<1> QED
  BY <1>2, <1>3 DEF ChanMoved

(* The last call.                                                          *)
LEMMA FinishKeeps ==
  ASSUME JoinInv, DbFacts, NEW p \in Party, Finish(p)
  PROVE  StepKeeps(p)
<1> DEFINE c == Now(p)
<1>1. /\ ~ Finished(p) /\ c.op = "finish" /\ Here(p)
      /\ Return(p) /\ db' = db /\ work' = work /\ mem' = mem /\ chan' = chan
  BY DEF Finish, At, Ready
<1>2. c = CallAt(p, pc[p]) /\ pc[p] < CallCount(p)
  BY <1>1, Acting
<1> HIDE DEF c
<1>3. To(c) = 3 /\ Span(c) = 1 /\ To(c) \notin Party /\ From(c) = {}
  BY <1>1 DEF To, Span, Party, From
<1>4. Advance(p)
  BY <1>1, <1>2, <1>3, ReturnIs
<1>6. ChanMoved(p, 0)
  BY <1>1, <1>3, SilentIs DEF c
<1>7. Effect(p, 0)
  BY <1>1, <1>3, <1>4, <1>6, EffectIs DEF c
<1>8. WorkIn'
  BY <1>1, <1>7, WorkSame DEF c
<1>9. MemIn'
  BY <1>1, MemSame
<1> QED
  BY <1>2, <1>7, <1>8, <1>9 DEF StepKeeps

(* Server 1's own share of the entries.                                    *)
LEMMA OwnShareKeeps ==
  ASSUME JoinInv, DbFacts, NEW p \in Party, OwnShare(p)
  PROVE  StepKeeps(p)
<1> DEFINE c == Now(p)
           Own(h) == [i \in 1 .. Rows |-> mem[p]["table"][Positions(i)[h]]]
<1>1. /\ ~ Finished(p) /\ c.op = "ownShare" /\ Here(p)
      /\ Return(p) /\ db' = db /\ work' = work /\ chan' = chan
      /\ mem' = [mem EXCEPT ![p][Out(1)] = Own(1), ![p][Out(2)] = Own(2), ![p][Out(3)] = Own(3)]
  BY DEF OwnShare, At, Ready
<1>2. c = CallAt(p, pc[p]) /\ pc[p] < CallCount(p)
  BY <1>1, Acting
<1> HIDE DEF c
<1>3. To(c) = 3 /\ Span(c) = 1 /\ To(c) \notin Party /\ From(c) = {}
  BY <1>1 DEF To, Span, Party, From
<1>4. Advance(p)
  BY <1>1, <1>2, <1>3, ReturnIs
<1>6. ChanMoved(p, 0)
  BY <1>1, <1>3, SilentIs DEF c
<1>7. Effect(p, 0)
  BY <1>1, <1>3, <1>4, <1>6, EffectIs DEF c
<1>8. WorkIn'
  BY <1>1, <1>7, WorkSame DEF c
<1>9. MemIn'
  <2> DEFINE v1 == Own(1)
             v2 == Own(2)
             v3 == Own(3)
  <2>1. Matrix(v1, Rows) /\ Matrix(v2, Rows) /\ Matrix(v3, Rows)
    BY DEF Matrix, DbFacts
  <2>2. mem' = [mem EXCEPT ![p][Out(1)] = v1, ![p][Out(2)] = v2, ![p][Out(3)] = v3]
    BY <1>1
  <2> HIDE DEF v1, v2, v3
  <2>3. /\ mem = [q \in Party |-> mem[q]] /\ mem[p] = [name \in MemNames |-> mem[p][name]]
        /\ \A name \in MemNames : Matrix(mem[p][name], MemRows(name))
    BY DEF JoinInv, MemIn
  <2>4. Out(1) = "out1" /\ Out(2) = "out2" /\ Out(3) = "out3"
    BY DEF Out
  <2> DEFINE m == [n \in MemNames |-> IF n = "out1" THEN v1 ELSE IF n = "out2" THEN v2
                                      ELSE IF n = "out3" THEN v3 ELSE mem[p][n]]
  <2>5. mem' = [mem EXCEPT ![p] = m]
    BY <2>2, <2>3, <2>4, ZenonT(60)
  <2>6. \A name \in MemNames : Matrix(m[name], MemRows(name))
    BY <2>1, <2>3 DEF MemRows
  <2>7. m = [name \in MemNames |-> m[name]]
    OBVIOUS
  <2> HIDE DEF m
  <2> QED
    BY <1>1, <2>5, <2>6, <2>7, MemKeeps
<1> QED
  BY <1>2, <1>7, <1>8, <1>9 DEF StepKeeps

(* The three steps of the duplication,                                     *)
LEMMA HelpDupKeeps ==
  ASSUME JoinInv, DbFacts, NEW p \in Party, HelpDup(p)
  PROVE  StepKeeps(p)
<1> DEFINE c == Now(p)
           data == HelpDuplicate(Rows, db.choice)
           msg == [kind |-> "share0", data |-> data]
<1>1. /\ ~ Finished(p) /\ c.op = "helpDuplicate" /\ Here(p)
      /\ Sends(p, 1, "share0", data) /\ Return(p) /\ db' = db /\ work' = work /\ mem' = mem
  BY DEF HelpDup, At, Ready
<1>2. c = CallAt(p, pc[p]) /\ pc[p] < CallCount(p)
  BY <1>1, Acting
<1> HIDE DEF c, data
<1>3. 1 \in Party /\ To(c) = 1 /\ Span(c) = 1 /\ Says(c, done[p]) = <<"share0", 0>>
  BY <1>1, <1>2 DEF To, Span, Says, Party
<1>4. Advance(p)
  BY <1>1, <1>2, <1>3, ReturnIs
<1>5. Matched(msg, Says(c, done[p]))
  BY <1>3 DEF Matched
<1> HIDE DEF msg
<1>6. ChanMoved(p, msg)
  BY <1>1, <1>3, SendsIs DEF c, msg
<1>7. Effect(p, msg)
  BY <1>1, <1>4, <1>5, <1>6, EffectIs DEF c
<1>8. WorkIn'
  BY <1>1, <1>7, WorkSame DEF c
<1>9. MemIn'
  BY <1>1, MemSame
<1> QED
  BY <1>2, <1>7, <1>8, <1>9 DEF StepKeeps

(* of which this one is server 1's bits,                                   *)
LEMMA SendBitsKeeps ==
  ASSUME JoinInv, DbFacts, NEW p \in Party, SendBits(p)
  PROVE  StepKeeps(p)
<1> DEFINE c == Now(p)
           data == DupBits(Sorted(c.h), db.choice)
           msg == [kind |-> "bits", data |-> data]
<1>1. /\ ~ Finished(p) /\ c.op = "sendBits" /\ Here(p)
      /\ Sends(p, 2, "bits", data) /\ Return(p) /\ db' = db /\ work' = work /\ mem' = mem
  BY DEF SendBits, At, Ready
<1>2. c = CallAt(p, pc[p]) /\ pc[p] < CallCount(p)
  BY <1>1, Acting
<1> HIDE DEF c, data
<1>3. 2 \in Party /\ To(c) = 2 /\ Span(c) = 1 /\ Says(c, done[p]) = <<"bits", 0>>
  BY <1>1, <1>2 DEF To, Span, Says, Party
<1>4. Advance(p)
  BY <1>1, <1>2, <1>3, ReturnIs
<1>5. Matched(msg, Says(c, done[p]))
  BY <1>3 DEF Matched
<1> HIDE DEF msg
<1>6. ChanMoved(p, msg)
  BY <1>1, <1>3, SendsIs DEF c, msg
<1>7. Effect(p, msg)
  BY <1>1, <1>4, <1>5, <1>6, EffectIs DEF c
<1>8. WorkIn'
  BY <1>1, <1>7, WorkSame DEF c
<1>9. MemIn'
  BY <1>1, MemSame
<1> QED
  BY <1>2, <1>7, <1>8, <1>9 DEF StepKeeps

(* this one server 2's sums,                                               *)
LEMMA SendDupKeeps ==
  ASSUME JoinInv, DbFacts, NEW p \in Party, SendDup(p)
  PROVE  StepKeeps(p)
<1> DEFINE c == Now(p)
           r == SendDuplicate(mem[p]["temp"], Received(1, p), c.h)
           share == r.share
           data == r.sums
           msg == [kind |-> "share1", data |-> data]
<1>1. /\ ~ Finished(p) /\ c.op = "sendDuplicate" /\ Here(p)
      /\ Write(p, "temp", share) /\ Sends(p, 1, "share1", data)
      /\ Return(p) /\ db' = db /\ work' = work
  BY DEF SendDup, At, Ready
<1>2. c = CallAt(p, pc[p]) /\ pc[p] < CallCount(p)
  BY <1>1, Acting
<1>s. Matrix(share, Rows)
  <2>1. "temp" \in MemNames
    BY Zenon DEF MemNames
  <2>2. Matrix(mem[p]["temp"], Rows)
    BY <2>1 DEF JoinInv, MemIn, MemRows
  <2> DEFINE src == mem[p]["temp"]
  <2>3. share = [i \in DOMAIN src |-> Fresh(src, i, c.h)]
    BY DEF SendDuplicate
  <2>4. DOMAIN src = 1 .. Rows /\ Rows \in Nat
    BY <2>2, MatrixLen
  <2> HIDE DEF src, share
  <2> QED
    BY <2>3, <2>4 DEF Matrix
<1> HIDE DEF c, share, data
<1>3. 1 \in Party /\ To(c) = 1 /\ Span(c) = 1 /\ Says(c, done[p]) = <<"share1", 0>>
  BY <1>1, <1>2 DEF To, Span, Says, Party
<1>4. Advance(p)
  BY <1>1, <1>2, <1>3, ReturnIs
<1>5. Matched(msg, Says(c, done[p]))
  BY <1>3 DEF Matched
<1> HIDE DEF msg
<1>6. ChanMoved(p, msg)
  BY <1>1, <1>3, SendsIs DEF c, msg
<1>7. Effect(p, msg)
  BY <1>1, <1>4, <1>5, <1>6, EffectIs DEF c
<1>8. WorkIn'
  BY <1>1, <1>7, WorkSame DEF c
<1>9. MemIn'
  <2>1. "temp" \in MemNames
    BY Zenon DEF MemNames
  <2>2. Matrix(share, MemRows("temp"))
    BY <1>s DEF MemRows
  <2> QED
    BY <1>1, <2>1, <2>2, WriteKeeps
<1> QED
  BY <1>2, <1>7, <1>8, <1>9 DEF StepKeeps

(* and this one what server 1 makes of them.                               *)
LEMMA ProgramDupKeeps ==
  ASSUME JoinInv, DbFacts, NEW p \in Party, ProgramDup(p)
  PROVE  StepKeeps(p)
<1> DEFINE c == Now(p)
           temp == ProgramDuplicate(mem[p]["temp"], Sorted(c.h), db.choice, Received(0, p), Received(2, p))
           out == Added(mem[p][Out(c.h)], FinalPerm(c.h), temp)
<1>1. /\ ~ Finished(p) /\ c.op = "programDuplicate" /\ Here(p)
      /\ Receives(p) /\ Return(p) /\ db' = db /\ work' = work
      /\ mem' = [mem EXCEPT ![p]["temp"] = temp, ![p][Out(c.h)] = Added(@, FinalPerm(c.h), temp)]
  BY DEF ProgramDup, At, Ready
<1>2. c = CallAt(p, pc[p]) /\ pc[p] < CallCount(p) /\ CallOK(c)
  BY <1>1, Acting
<1>h. c.h \in 1 .. 3
  BY <1>1, <1>2 DEF CallOK
<1>3. To(c) = 3 /\ Span(c) = 1 /\ To(c) \notin Party
  <2> HIDE DEF c
  <2> QED
    BY <1>1 DEF To, Span, Party
<1>4. Advance(p)
  BY <1>1, <1>2, <1>3, ReturnIs
<1>6. ChanMoved(p, 0)
  BY <1>1, <1>3, QuietIs DEF c
<1>7. Effect(p, 0)
  BY <1>1, <1>3, <1>4, <1>6, EffectIs DEF c
<1>8. WorkIn'
  BY <1>1, <1>7, WorkSame DEF c
<1>9. MemIn'
  <2> DEFINE name == Out(c.h)
             perm == FinalPerm(c.h)
  <2>1. "temp" \in MemNames /\ name \in MemNames
    BY <1>h, Zenon DEF MemNames
  <2>2. name # "temp" /\ name # "table"
    BY <1>h DEF Out
  <2>3. /\ mem = [q \in Party |-> mem[q]] /\ mem[p] = [n \in MemNames |-> mem[p][n]]
        /\ \A n \in MemNames : Matrix(mem[p][n], MemRows(n))
    BY DEF JoinInv, MemIn
  <2>4. Matrix(temp, Rows)
    <3> DEFINE sw == Sorted(c.h)
               ch == db.choice
               s0 == Received(0, p)
               s1 == Received(2, p)
               src == mem[p]["temp"]
    <3>1. Matrix(src, Rows) /\ Rows \in Nat \ {0}
      BY <2>1, <2>3 DEF MemRows, DbFacts
    <3> HIDE DEF sw, ch, s0, s1, src
    <3>2. Matrix(ProgramDuplicate(src, sw, ch, s0, s1), Rows)
      BY <3>1, DuplicateKeeps
    <3> QED
      BY <3>2 DEF src, sw, ch, s0, s1
  <2>5. Matrix(perm, Rows)
    <3>1. DOMAIN db.left = 1 .. Rows /\ Rows \in Nat
      BY DEF DbFacts
    <3> QED
      BY <3>1 DEF Matrix, FinalPerm
  <2> HIDE DEF temp, perm
  <2>6. Matrix(out, Rows)
    <3> DEFINE dest == mem[p][name]
    <3>1. Matrix(dest, Rows)
      BY <2>1, <2>2, <2>3 DEF MemRows
    <3> HIDE DEF dest
    <3>2. Matrix(Added(dest, perm, temp), Rows)
      BY <2>5, <3>1, AddedKeeps
    <3> QED
      BY <3>2 DEF dest, perm
  <2> DEFINE m == [n \in MemNames |-> IF n = "temp" THEN temp ELSE IF n = name THEN out ELSE mem[p][n]]
  <2>7. mem' = [mem EXCEPT ![p] = m]
    <3>1. mem' = [mem EXCEPT ![p]["temp"] = temp, ![p][name] = Added(@, FinalPerm(c.h), temp)]
      BY <1>1 DEF temp
    <3>2. out = Added(mem[p][name], FinalPerm(c.h), temp)
      OBVIOUS
    <3> HIDE DEF name, out, c
    <3> QED
      BY <2>1, <2>2, <2>3, <3>1, <3>2
  <2> HIDE DEF name, out
  <2>8. \A n \in MemNames : Matrix(m[n], MemRows(n))
    BY <2>2, <2>3, <2>4, <2>6 DEF MemRows
  <2>9. m = [n \in MemNames |-> m[n]]
    OBVIOUS
  <2> HIDE DEF m
  <2> QED
    BY <1>1, <2>7, <2>8, <2>9, MemKeeps
<1> QED
  BY <1>2, <1>7, <1>8, <1>9 DEF StepKeeps

-----------------------------------------------------------------------------
(* When each call can have been reached: a schedule in which a call that   *)
(* waits comes after the call that sends what it waits for.                *)
TimeAt(p, r, o) ==
  IF r = 3 THEN 100
  ELSE IF o < 0 THEN IF p # 1 THEN 0 ELSE 3 + o
  ELSE 10 * r + 10 +
       (IF p = 0 THEN IF o = 0 THEN 0 ELSE IF o = 1 THEN 1 ELSE IF o = 2 THEN 4 ELSE IF o = 3 THEN 6 ELSE 9
        ELSE IF p = 1 THEN IF o <= 5 THEN o ELSE o + 1
        ELSE IF o = 0 THEN 2 ELSE IF o = 1 THEN 3 ELSE IF o = 2 THEN 5 ELSE IF o = 3 THEN 6 ELSE 8)
Time(p, n) == TimeAt(p, Round(p, n), Place(p, n))

(* Where server p can be: a place of a round, or behind the last one.      *)
IsPlace(p, r, o) ==
  /\ r \in 0 .. 3 /\ o \in -2 .. 7
  /\ r = 3 => o = 0
  /\ o < 0 => r = 0
  /\ p # 1 => o \in -1 .. 4

(* Server p at place o of round r waits for server q; d chunks are there.  *)
Waits(k, l, p, r, o, q, d) ==
  \/ p = 0 /\ (\/ o = 1 /\ q = 1 /\ d = 0
               \/ o = 4 /\ q = 2 /\ d \in 0 .. l - 1
               \/ o = 4 /\ q = 1 /\ d \in 0 .. l - 1)
  \/ p = 1 /\ (\/ o = -2 /\ q = 0 /\ d \in 0 .. k - 1
               \/ o = -2 /\ q = 2 /\ d \in 0 .. k - 1
               \/ o = 1 /\ q = 0 /\ d = 0
               \/ o = 3 /\ q = 2 /\ d = 0
               \/ o = 6 /\ q = 0 /\ d = 0
               \/ o = 6 /\ q = 2 /\ d = 0)
  \/ p = 2 /\ (\/ o = 1 /\ q = 1 /\ d = 0
               \/ o = 2 /\ q = 0 /\ d \in 0 .. k - 1
               \/ o = 2 /\ q = 1 /\ d \in 0 .. k - 1
               \/ o = 3 /\ q = 1 /\ d = 0)

(* A server that has got as far as one that waits for it has sent what     *)
(* that one waits for.                                                     *)
LEMMA SentInTime ==
  ASSUME NEW k \in Nat \ {0}, NEW l \in Nat \ {0}, NEW p \in Party, NEW q \in Party,
         NEW r, NEW o, NEW d, NEW r2, NEW o2, NEW d2 \in Nat,
         IsPlace(p, r, o), r # 3, IsPlace(q, r2, o2), Waits(k, l, p, r, o, q, d), TimeAt(q, r2, o2) >= TimeAt(p, r, o)
  PROVE  SentAt(k, l, q, p, r2, o2, d2) > GotAt(k, l, q, p, r, o, d)
<1>1. /\ r \in 0 .. 2 /\ o \in -2 .. 7 /\ (o < 0 => r = 0)
      /\ r2 \in 0 .. 3 /\ o2 \in -2 .. 7 /\ (r2 = 3 => o2 = 0) /\ (o2 < 0 => r2 = 0) /\ (q # 1 => o2 \in -1 .. 4)
  BY DEF IsPlace
<1>2. \A n \in Nat : Times(r2, n) \in Nat /\ Times(r, n) \in Nat
  BY <1>1 DEF Times
<1>3. \A n \in Nat : /\ r < r2 => Times(r2, n) >= Times(r, n) + n
                     /\ r = 0 => Times(r, n) = 0
  BY <1>1 DEF Times
<1>4. l + 1 \in Nat /\ k + 2 \in Nat /\ k \in Nat /\ l \in Nat
  OBVIOUS
<1>5. /\ Times(r2, k) \in Nat /\ Times(r, k) \in Nat /\ (r < r2 => Times(r2, k) >= Times(r, k) + k)
      /\ Times(r2, l) \in Nat /\ Times(r, l) \in Nat /\ (r < r2 => Times(r2, l) >= Times(r, l) + l)
      /\ Times(r2, l + 1) \in Nat /\ Times(r, l + 1) \in Nat /\ (r < r2 => Times(r2, l + 1) >= Times(r, l + 1) + l + 1)
      /\ Times(r2, k + 2) \in Nat /\ Times(r, k + 2) \in Nat /\ (r < r2 => Times(r2, k + 2) >= Times(r, k + 2) + k + 2)
      /\ r = 0 => Times(r, k) = 0 /\ Times(r, l) = 0 /\ Times(r, l + 1) = 0 /\ Times(r, k + 2) = 0
  BY <1>2, <1>3, <1>4
<1>6. TimeAt(q, r2, o2) >= TimeAt(p, r, o)
  OBVIOUS
<1>7. CASE p = 0 /\ o = 1 /\ q = 1 /\ d = 0
  BY <1>1, <1>5, <1>6, <1>7 DEF SentAt, GotAt, Part, OneIf, TimeAt
<1>8. CASE p = 0 /\ o = 4 /\ q = 2 /\ d \in 0 .. l - 1
  BY <1>1, <1>5, <1>6, <1>8 DEF SentAt, GotAt, Part, OneIf, TimeAt
<1>9. CASE p = 0 /\ o = 4 /\ q = 1 /\ d \in 0 .. l - 1
  BY <1>1, <1>5, <1>6, <1>9 DEF SentAt, GotAt, Part, OneIf, TimeAt
<1>10. CASE p = 1 /\ o = -2 /\ q = 0 /\ d \in 0 .. k - 1
  BY <1>1, <1>5, <1>6, <1>10 DEF SentAt, GotAt, Part, OneIf, TimeAt
<1>11. CASE p = 1 /\ o = -2 /\ q = 2 /\ d \in 0 .. k - 1
  BY <1>1, <1>5, <1>6, <1>11 DEF SentAt, GotAt, Part, OneIf, TimeAt
<1>12. CASE p = 1 /\ o = 1 /\ q = 0 /\ d = 0
  BY <1>1, <1>5, <1>6, <1>12 DEF SentAt, GotAt, Part, OneIf, TimeAt
<1>13. CASE p = 1 /\ o = 3 /\ q = 2 /\ d = 0
  BY <1>1, <1>5, <1>6, <1>13 DEF SentAt, GotAt, Part, OneIf, TimeAt
<1>14. CASE p = 1 /\ o = 6 /\ q = 0 /\ d = 0
  BY <1>1, <1>5, <1>6, <1>14 DEF SentAt, GotAt, Part, OneIf, TimeAt
<1>15. CASE p = 1 /\ o = 6 /\ q = 2 /\ d = 0
  BY <1>1, <1>5, <1>6, <1>15 DEF SentAt, GotAt, Part, OneIf, TimeAt
<1>16. CASE p = 2 /\ o = 1 /\ q = 1 /\ d = 0
  BY <1>1, <1>5, <1>6, <1>16 DEF SentAt, GotAt, Part, OneIf, TimeAt
<1>17. CASE p = 2 /\ o = 2 /\ q = 0 /\ d \in 0 .. k - 1
  BY <1>1, <1>5, <1>6, <1>17 DEF SentAt, GotAt, Part, OneIf, TimeAt
<1>18. CASE p = 2 /\ o = 2 /\ q = 1 /\ d \in 0 .. k - 1
  BY <1>1, <1>5, <1>6, <1>18 DEF SentAt, GotAt, Part, OneIf, TimeAt
<1>19. CASE p = 2 /\ o = 3 /\ q = 1 /\ d = 0
  BY <1>1, <1>5, <1>6, <1>19 DEF SentAt, GotAt, Part, OneIf, TimeAt
<1> QED
  BY <1>7, <1>8, <1>9, <1>10, <1>11, <1>12, <1>13, <1>14, <1>15, <1>16, <1>17, <1>18, <1>19 DEF Waits

(* Where a server is when it waits.                                        *)
LEMMA PlaceIs ==
  ASSUME NEW p \in Party, NEW n \in 0 .. CallCount(p)
  PROVE  IsPlace(p, Round(p, n), Place(p, n)) /\ (n < CallCount(p) - 1 <=> Round(p, n) # 3)
<1>1. CASE p = 0
  BY <1>1 DEF IsPlace, Round, Place, CallCount
<1>2. CASE p = 1
  BY <1>2 DEF IsPlace, Round, Place, CallCount
<1>3. CASE p = 2
  BY <1>3 DEF IsPlace, Round, Place, CallCount
<1> QED
  BY <1>1, <1>2, <1>3 DEF Party

(* Whom each kind of call waits for.                                       *)
LEMMA FromFacts ==
  ASSUME NEW h
  PROVE  /\ \A q, what : From(Hello(q, what)) = {} /\ From(Greeted(q, what)) = {q}
         /\ \A q, name, rows : From(PermSend(q, name, rows)) = {}
         /\ \A q, name : From(PermProgram(q, name, h)) = {}
         /\ \A q1, q2, name, rows : From(PermRecv(q1, q2, name, rows)) = {q1, q2}
         /\ From(Call("helpDuplicate", h)) = {} /\ From(Call("sendBits", h)) = {}
         /\ From(Call("sendDuplicate", h)) = {1} /\ From(Call("programDuplicate", h)) = {0, 2}
         /\ From(Call("ownShare", h)) = {} /\ From(Call("finish", h)) = {}
         /\ \A q, what : Span(Greeted(q, what)) = 1
         /\ \A q1, q2, name, rows : Span(PermRecv(q1, q2, name, rows)) = Chunks(rows)
         /\ Span(Call("sendDuplicate", h)) = 1 /\ Span(Call("programDuplicate", h)) = 1
BY DEF From, Span, Size, Hello, Greeted, PermSend, PermProgram, PermRecv, Call

(* A call that waits is at one of the places listed in Waits.              *)
LEMMA WaitsIs ==
  ASSUME NEW k, NEW l, NEW p \in Party, NEW n \in 0 .. CallCount(p) - 1, NEW q, NEW d,
         Sized(k, l), q \in From(CallAt(p, n)), d \in 0 .. Span(CallAt(p, n)) - 1
  PROVE  Round(p, n) # 3 /\ Waits(k, l, p, Round(p, n), Place(p, n), q, d)
<1> DEFINE c == CallAt(p, n)
           r == Round(p, n)
           o == Place(p, n)
<1>1. IsPlace(p, r, o)
  <2>1. n \in 0 .. CallCount(p)
    BY DEF CallCount
  <2> QED
    BY <2>1, PlaceIs
<1>2. r \in 0 .. 3 /\ o \in -2 .. 7 /\ (o < 0 => r = 0) /\ (p # 1 => o \in -1 .. 4)
  BY <1>1 DEF IsPlace
<1>3. r # 3
  <2>1. ASSUME r = 3 PROVE FALSE
    <3>1. c = Call("finish", 0)
      BY <2>1 DEF CallAt
    <3> HIDE DEF c
    <3>2. From(c) = {}
      BY <3>1, FromFacts
    <3> QED
      BY <3>2 DEF c
  <2> QED
    BY <2>1
<1>4. q \in From(c) /\ d \in 0 .. Span(c) - 1
  OBVIOUS
<1>5. Chunks(Rows) = l /\ Chunks(db.bins) = k
  BY DEF Sized
<1>6. CASE p = 0
  <2>1. c = IF o = -1 THEN PermProgram(1, "table", 0) ELSE SendRecv(r + 1)[o + 1]
    BY <1>3, <1>6 DEF CallAt
  <2>2. o \in -1 .. 4
    BY <1>2, <1>6
  <2> HIDE DEF c, r, o
  <2>3. CASE o = -1
    BY <1>4, <2>1, <2>3, FromFacts
  <2>4. CASE o = 0
    <3>1. c = Hello(1, SendHello)
      BY <2>1, <2>4 DEF SendRecv
    <3> QED
      BY <1>4, <3>1, FromFacts
  <2>5. CASE o = 1
    <3>1. c = Greeted(1, SendHello)
      BY <2>1, <2>5 DEF SendRecv
    <3>2. From(c) = {1} /\ Span(c) = 1
      BY <3>1, FromFacts
    <3> QED
      BY <1>3, <1>4, <1>6, <2>5, <3>2 DEF Waits, r, o
  <2>6. CASE o = 2
    <3>1. c = PermSend(2, "table", SrcRows)
      BY <2>1, <2>6 DEF SendRecv
    <3> QED
      BY <1>4, <3>1, FromFacts
  <2>7. CASE o = 3
    <3>1. c = Call("helpDuplicate", r + 1)
      BY <2>1, <2>7 DEF SendRecv
    <3> QED
      BY <1>4, <3>1, FromFacts
  <2>8. CASE o = 4
    <3>1. c = PermRecv(2, 1, Out(r + 1), Rows)
      BY <2>1, <2>8 DEF SendRecv
    <3>2. From(c) = {2, 1} /\ Span(c) = l
      BY <1>5, <3>1, FromFacts
    <3> QED
      BY <1>3, <1>4, <1>6, <2>8, <3>2 DEF Waits, r, o
  <2> QED
    BY <2>2, <2>3, <2>4, <2>5, <2>6, <2>7, <2>8
<1>7. CASE p = 1
  <2>1. c = IF o = -2 THEN PermRecv(2, 0, "table", db.bins)
            ELSE IF o = -1 THEN Call("ownShare", 0) ELSE Program(r + 1)[o + 1]
    BY <1>3, <1>7 DEF CallAt
  <2>2. o \in -2 .. 7
    BY <1>2, <1>7
  <2> HIDE DEF c, r, o
  <2>3. CASE o = -2
    <3>1. c = PermRecv(2, 0, "table", db.bins)
      BY <2>1, <2>3
    <3>2. From(c) = {2, 0} /\ Span(c) = k
      BY <1>5, <3>1, FromFacts
    <3> QED
      BY <1>3, <1>4, <1>7, <2>3, <3>2 DEF Waits, r, o
  <2>4. CASE o = -1
    <3>1. c = Call("ownShare", 0)
      BY <2>1, <2>4
    <3> QED
      BY <1>4, <3>1, FromFacts
  <2>5. CASE o = 0
    <3>1. c = Hello(0, SendHello)
      BY <2>1, <2>5 DEF Program
    <3> QED
      BY <1>4, <3>1, FromFacts
  <2>6. CASE o = 1
    <3>1. c = Greeted(0, SendHello)
      BY <2>1, <2>6 DEF Program
    <3>2. From(c) = {0} /\ Span(c) = 1
      BY <3>1, FromFacts
    <3> QED
      BY <1>3, <1>4, <1>7, <2>6, <3>2 DEF Waits, r, o
  <2>7. CASE o = 2
    <3>1. c = Hello(2, HelpHello)
      BY <2>1, <2>7 DEF Program
    <3> QED
      BY <1>4, <3>1, FromFacts
  <2>8. CASE o = 3
    <3>1. c = Greeted(2, HelpHello)
      BY <2>1, <2>8 DEF Program
    <3>2. From(c) = {2} /\ Span(c) = 1
      BY <3>1, FromFacts
    <3> QED
      BY <1>3, <1>4, <1>7, <2>8, <3>2 DEF Waits, r, o
  <2>9. CASE o = 4
    <3>1. c = PermProgram(2, "temp", r + 1)
      BY <2>1, <2>9 DEF Program
    <3> QED
      BY <1>4, <3>1, FromFacts
  <2>10. CASE o = 5
    <3>1. c = Call("sendBits", r + 1)
      BY <2>1, <2>10 DEF Program
    <3> QED
      BY <1>4, <3>1, FromFacts
  <2>11. CASE o = 6
    <3>1. c = Call("programDuplicate", r + 1)
      BY <2>1, <2>11 DEF Program
    <3>2. From(c) = {0, 2} /\ Span(c) = 1
      BY <3>1, FromFacts
    <3> QED
      BY <1>3, <1>4, <1>7, <2>11, <3>2 DEF Waits, r, o
  <2>12. CASE o = 7
    <3>1. c = PermProgram(0, Out(r + 1), r + 1)
      BY <2>1, <2>12 DEF Program
    <3> QED
      BY <1>4, <3>1, FromFacts
  <2> QED
    BY <2>2, <2>3, <2>4, <2>5, <2>6, <2>7, <2>8, <2>9, <2>10, <2>11, <2>12
<1>8. CASE p = 2
  <2>1. c = IF o = -1 THEN PermSend(1, "table", db.bins) ELSE Help(r + 1)[o + 1]
    BY <1>3, <1>8 DEF CallAt
  <2>2. o \in -1 .. 4
    BY <1>2, <1>8
  <2> HIDE DEF c, r, o
  <2>3. CASE o = -1
    BY <1>4, <2>1, <2>3, FromFacts
  <2>4. CASE o = 0
    <3>1. c = Hello(1, HelpHello)
      BY <2>1, <2>4 DEF Help
    <3> QED
      BY <1>4, <3>1, FromFacts
  <2>5. CASE o = 1
    <3>1. c = Greeted(1, HelpHello)
      BY <2>1, <2>5 DEF Help
    <3>2. From(c) = {1} /\ Span(c) = 1
      BY <3>1, FromFacts
    <3> QED
      BY <1>3, <1>4, <1>8, <2>5, <3>2 DEF Waits, r, o
  <2>6. CASE o = 2
    <3>1. c = PermRecv(0, 1, "temp", db.bins)
      BY <2>1, <2>6 DEF Help
    <3>2. From(c) = {0, 1} /\ Span(c) = k
      BY <1>5, <3>1, FromFacts
    <3> QED
      BY <1>3, <1>4, <1>8, <2>6, <3>2 DEF Waits, r, o
  <2>7. CASE o = 3
    <3>1. c = Call("sendDuplicate", r + 1)
      BY <2>1, <2>7 DEF Help
    <3>2. From(c) = {1} /\ Span(c) = 1
      BY <3>1, FromFacts
    <3> QED
      BY <1>3, <1>4, <1>8, <2>7, <3>2 DEF Waits, r, o
  <2>8. CASE o = 4
    <3>1. c = PermSend(0, "temp", Rows)
      BY <2>1, <2>8 DEF Help
    <3> QED
      BY <1>4, <3>1, FromFacts
  <2> QED
    BY <2>2, <2>3, <2>4, <2>5, <2>6, <2>7, <2>8
<1> HIDE DEF r, o
<1> QED
  BY <1>6, <1>7, <1>8 DEF Party, r, o

-----------------------------------------------------------------------------
(* Every action is a step of the kind above.                               *)
LEMMA ActKeeps ==
  ASSUME JoinInv, DbFacts, NEW p \in Party, Act(p)
  PROVE  StepKeeps(p)
BY SayHelloKeeps, HearHelloKeeps, SendChunkKeeps, ProgramChunkKeeps, RecvChunkKeeps, OwnShareKeeps,
   HelpDupKeeps, SendBitsKeeps, SendDupKeeps, ProgramDupKeeps, FinishKeeps DEF Act

(* A step that changes nothing keeps the invariant.                        *)
LEMMA StutterKeeps ==
  ASSUME JoinInv, DbFacts, UNCHANGED vars
  PROVE  JoinInv'
<1>1. db' = db /\ pc' = pc /\ done' = done /\ work' = work /\ mem' = mem /\ chan' = chan
  BY DEF vars
<1>2. Same
  BY <1>1, DbStays
<1>3. CallsIn'
  <2>1. /\ pc \in [Party -> Nat] /\ done \in [Party -> Nat]
        /\ \A p \in Party : pc[p] <= CallCount(p) /\ done[p] < Span(CallAt(p, pc[p]))
    BY DEF JoinInv, CallsIn
  <2> QED
    BY <1>1, <1>2, <2>1 DEF CallsIn, Same
<1>4. WorkIn'
  BY <1>1, <1>2 DEF JoinInv, WorkIn, Same
<1>5. MemIn'
  BY <1>1, MemSame
<1>6. ChanIn'
  <2>1. ASSUME NEW q \in Party, NEW p \in Party PROVE Carries(q, p)'
    <3>1. Carries(q, p)
      BY DEF JoinInv, ChanIn
    <3>2. SentNow(q, p)' = SentNow(q, p) /\ GotNow(q, p)' = GotNow(q, p)
      BY <1>1, <1>2 DEF Same, SentNow, GotNow
    <3> QED
      BY <1>1, <1>2, <3>1, <3>2 DEF Same, Carries
  <2> QED
    BY <1>1, <2>1 DEF JoinInv, ChanIn
<1> QED
  BY <1>1, <1>3, <1>4, <1>5, <1>6 DEF JoinInv

(* Every step keeps the invariant.                                         *)
LEMMA NextKeeps ==
  ASSUME JoinInv, SameChunks, [Next]_vars
  PROVE  JoinInv'
<1>1. DbFacts
  BY DbIs DEF JoinInv
<1>2. ASSUME NEW p \in Party, Act(p) PROVE JoinInv'
  <2>1. StepKeeps(p)
    BY <1>1, <1>2, ActKeeps
  <2>2. PICK msg : Effect(p, msg)
    BY <2>1 DEF StepKeeps
  <2>3. pc[p] < CallCount(p) /\ WorkIn' /\ MemIn'
    BY <2>1 DEF StepKeeps
  <2>4. CallsIn'
    BY <1>1, <2>2, <2>3, CallsKeep
  <2>5. ChanIn'
    BY <1>1, <2>2, <2>3, ChanKeeps
  <2>6. db' = db
    BY <2>2 DEF Effect
  <2> QED
    BY <2>3, <2>4, <2>5, <2>6 DEF JoinInv
<1>3. CASE UNCHANGED vars
  BY <1>1, <1>3, StutterKeeps
<1> QED
  BY <1>2, <1>3 DEF Next

(* At first no message has been sent.                                      *)
LEMMA NoneYet ==
  ASSUME NEW p \in Party, NEW q \in Party, NEW k \in Nat, NEW l \in Nat
  PROVE  Sent(k, l, p, q, 0, 0) = 0 /\ Got(k, l, q, p, 0, 0) = 0
<1>1. Round(p, 0) = 0 /\ Place(p, 0) = IF p = 1 THEN -2 ELSE -1
  BY DEF Round, Place, Party
<1>2. \A n : Times(0, n) = 0
  BY DEF Times
<1> QED
  BY <1>1, <1>2 DEF Sent, Got, SentAt, GotAt, Part, OneIf, Party

(* It holds at first.                                                      *)
LEMMA InitHolds ==
  ASSUME Init, SameChunks
  PROVE  JoinInv
<1>1. /\ db \in Databases
      /\ pc = [p \in Party |-> 0] /\ done = [p \in Party |-> 0] /\ work = [p \in Party |-> <<>>]
      /\ mem = [p \in Party |-> [n \in MemNames |-> IF n = "table" THEN FirstTable(p) ELSE Filled(Rows, Junk)]]
      /\ chan = [c \in Party \X Party |-> <<>>]
  BY DEF Init, MemNames
<1>2. DbFacts
  BY <1>1, DbIs
<1>3. CallsIn
  <2>1. ASSUME NEW p \in Party PROVE pc[p] <= CallCount(p) /\ done[p] < Span(CallAt(p, pc[p]))
    <3>1. pc[p] = 0 /\ done[p] = 0
      BY <1>1
    <3>2. Span(CallAt(p, 0)) \in Nat \ {0}
      BY <1>2, SpanPositive
    <3>3. Span(CallAt(p, 0)) > 0
      BY <3>2
    <3> QED
      BY <3>1, <3>3 DEF CallCount
  <2> QED
    BY <1>1, <2>1 DEF CallsIn
<1>4. WorkIn
  BY <1>1 DEF WorkIn
<1>5. MemIn
  <2>1. db.bins \in Nat /\ Rows \in Nat
    BY <1>2 DEF DbFacts
  <2>2. ASSUME NEW p \in Party PROVE Matrix(FirstTable(p), db.bins)
    <3>1. CASE p = 0
      BY <2>1, <3>1 DEF Matrix, FirstTable
    <3>2. CASE p = 1
      <4>1. FirstTable(p) = Filled(db.bins, {})
        BY <3>2 DEF FirstTable
      <4> QED
        BY <2>1, <4>1 DEF Matrix, Filled
    <3>3. CASE p = 2
      BY <2>1, <3>3 DEF Matrix, FirstTable
    <3> QED
      BY <3>1, <3>2, <3>3 DEF Party
  <2>3. Matrix(Filled(Rows, Junk), Rows)
    BY <2>1 DEF Matrix, Filled
  <2>4. ASSUME NEW p \in Party, NEW n \in MemNames PROVE Matrix(mem[p][n], MemRows(n))
    BY <1>1, <2>2, <2>3 DEF MemRows
  <2>5. mem = [p \in Party |-> mem[p]]
    BY <1>1
  <2>6. \A p \in Party : mem[p] = [n \in MemNames |-> mem[p][n]]
    BY <1>1
  <2> QED
    BY <2>4, <2>5, <2>6 DEF MemIn
<1>6. ChanIn
  <2>1. ASSUME NEW q \in Party, NEW p \in Party PROVE Carries(q, p)
    <3>1. TableChunks \in Nat /\ OutChunks \in Nat
      BY <1>2 DEF DbFacts, Sized
    <3>2. SentNow(q, p) = 0 /\ GotNow(q, p) = 0
      BY <1>1, <3>1, NoneYet DEF SentNow, GotNow
    <3>3. chan[<<q, p>>] = <<>>
      BY <1>1
    <3>4. Matrix(<<>>, 0)
      BY DEF Matrix
    <3>5. SentNow(q, p) - GotNow(q, p) = 0 /\ 1 .. 0 = {}
      BY <3>2
    <3> QED
      BY <3>2, <3>3, <3>4, <3>5 DEF Carries
  <2> QED
    BY <1>1, <2>1 DEF ChanIn
<1> QED
  BY <1>1, <1>3, <1>4, <1>5, <1>6 DEF JoinInv

(* In every state of every behaviour, whatever the tables are, each server *)
(* is in one of its calls, its matrices have their sizes, and each channel *)
(* holds exactly the messages the two ends have counted differently, each  *)
(* of the kind and size its receiver is going to wait for.                 *)
THEOREM JoinInvariant == SameChunks /\ Spec => []JoinInv
<1>1. SameChunks /\ Init => JoinInv
  BY InitHolds
<1>2. SameChunks /\ JoinInv /\ [Next]_vars => JoinInv'
  BY NextKeeps
<1>3. SameChunks => SameChunks'
  BY DEF SameChunks
<1> QED
  BY <1>1, <1>2, <1>3, PTL DEF Spec

(* No call before the last one is the last step of the join.               *)
LEMMA FinishIsLast ==
  ASSUME NEW p \in Party, NEW n \in Nat, Round(p, n) # 3
  PROVE  CallAt(p, n).op # "finish"
<1> DEFINE r == Round(p, n)
           o == Place(p, n)
<1>1. r \in 0 .. 2 /\ o \in -2 .. 7 /\ (p # 1 => o \in -1 .. 4)
  BY DEF Round, Place, Party
<1>2. CASE p = 0
  <2>1. CallAt(p, n) = IF o = -1 THEN PermProgram(1, "table", 0) ELSE SendRecv(r + 1)[o + 1]
    BY <1>2 DEF CallAt
  <2>2. o \in -1 .. 4
    BY <1>1, <1>2
  <2> HIDE DEF r, o
  <2>3. \A i \in 1 .. 5 : SendRecv(r + 1)[i].op # "finish"
    BY DEF SendRecv, Hello, Greeted, PermSend, PermRecv, Call
  <2>4. o = -1 \/ o + 1 \in 1 .. 5
    BY <2>2
  <2> QED
    BY <2>1, <2>3, <2>4 DEF PermProgram
<1>3. CASE p = 1
  <2>1. CallAt(p, n) = IF o = -2 THEN PermRecv(2, 0, "table", db.bins)
                       ELSE IF o = -1 THEN Call("ownShare", 0) ELSE Program(r + 1)[o + 1]
    BY <1>3 DEF CallAt
  <2>2. o \in -2 .. 7
    BY <1>1
  <2> HIDE DEF r, o
  <2>3. \A i \in 1 .. 8 : Program(r + 1)[i].op # "finish"
    BY DEF Program, Hello, Greeted, PermProgram, Call
  <2>4. o = -2 \/ o = -1 \/ o + 1 \in 1 .. 8
    BY <2>2
  <2> QED
    BY <2>1, <2>3, <2>4 DEF PermRecv, Call
<1>4. CASE p = 2
  <2>1. CallAt(p, n) = IF o = -1 THEN PermSend(1, "table", db.bins) ELSE Help(r + 1)[o + 1]
    BY <1>4 DEF CallAt
  <2>2. o \in -1 .. 4
    BY <1>1, <1>4
  <2> HIDE DEF r, o
  <2>3. \A i \in 1 .. 5 : Help(r + 1)[i].op # "finish"
    BY DEF Help, Hello, Greeted, PermSend, PermRecv, Call
  <2>4. o = -1 \/ o + 1 \in 1 .. 5
    BY <2>2
  <2> QED
    BY <2>1, <2>3, <2>4 DEF PermSend
<1> QED
  BY <1>2, <1>3, <1>4 DEF Party

-----------------------------------------------------------------------------
(* What a server finds at the head of the channels it waits for is what it *)
(* was waiting for.                                                        *)
LEMMA FitsHolds ==
  ASSUME JoinInv, DbFacts, NEW p \in Party, ~ Finished(p), Here(p)
  PROVE  Fits(p)
<1> DEFINE c == Now(p)
<1>1. c = CallAt(p, pc[p]) /\ pc[p] < CallCount(p) /\ CallOK(c) /\ From(c) \subseteq Party
  BY Acting
<1>2. ASSUME NEW q \in From(c) PROVE Matched(First(q, p), Hears(c, done[p], q))
  <2>1. q \in Party /\ q \in From(CallAt(p, pc[p]))
    BY <1>1, <1>2
  <2>2. chan[<<q, p>>] # <<>>
    BY <1>2, AwaitsIs DEF Here
  <2> QED
    BY <1>1, <2>1, <2>2, Heard
<1>3. CASE c.op = "greeted"
  <2>1. Awaits(p) = {<<c.from, "hello">>} /\ From(c) = {c.from}
    BY <1>3 DEF Awaits, From
  <2>2. Hears(c, done[p], c.from) = <<"hello", c.what>>
    BY <1>3 DEF Hears
  <2>3. First(c.from, p).kind = "hello" /\ First(c.from, p).data = c.what
    <3>1. Matched(First(c.from, p), <<"hello", c.what>>)
      BY <1>2, <2>1, <2>2
    <3> QED
      BY <3>1 DEF Matched
  <2>4. Received(Now(p).from, p) = Now(p).what /\ Now(p).op # "permRecv"
    BY <1>3, <2>3 DEF Received
  <2>5. \A a \in Awaits(p) : First(a[1], p).kind = a[2]
    BY <2>1, <2>3
  <2> QED
    BY <2>4, <2>5 DEF Fits
<1>4. CASE c.op = "permRecv"
  <2> DEFINE m == ChunkLen(IF c.name = "temp" THEN SrcRows ELSE c.rows, done[p] + 1)
             x == First(c.data, p)
             y == First(c.perm, p)
  <2>1. Awaits(p) = {<<c.data, "rows">>, <<c.perm, "perm">>} /\ From(c) = {c.data, c.perm}
    BY <1>4 DEF Awaits, From
  <2>2. c.data # c.perm
    BY <1>1, <1>4 DEF CallOK
  <2>3. Hears(c, done[p], c.data) = <<"rows", m>> /\ Hears(c, done[p], c.perm) = <<"perm", m>>
    BY <1>4, <2>2 DEF Hears
  <2>4. Matched(x, <<"rows", m>>) /\ Matched(y, <<"perm", m>>)
    BY <1>2, <2>1, <2>3
  <2>5. Received(c.data, p) = x.data /\ Received(c.perm, p) = y.data
    BY DEF Received
  <2>6. /\ First(c.data, p).kind = "rows" /\ First(c.perm, p).kind = "perm"
        /\ Matrix(x.data, m) /\ Matrix(y.data, m)
    <3> HIDE DEF m
    <3> QED
      BY <2>4 DEF Matched
  <2> HIDE DEF m, x, y
  <2>7. Len(Received(c.data, p)) = Len(Received(c.perm, p))
    BY <2>5, <2>6, MatrixLen
  <2>8. \A a \in Awaits(p) : First(a[1], p).kind = a[2]
    BY <2>1, <2>6
  <2> QED
    BY <1>4, <2>7, <2>8 DEF Fits
<1>5. CASE c.op = "sendDuplicate"
  <2>1. Awaits(p) = {<<1, "bits">>} /\ From(c) = {1}
    BY <1>5 DEF Awaits, From
  <2>2. Hears(c, done[p], 1) = <<"bits", 0>>
    BY <1>5 DEF Hears
  <2>3. First(1, p).kind = "bits"
    <3>1. Matched(First(1, p), <<"bits", 0>>)
      BY <1>2, <2>1, <2>2
    <3> QED
      BY <3>1 DEF Matched
  <2>4. \A a \in Awaits(p) : First(a[1], p).kind = a[2]
    BY <2>1, <2>3
  <2> QED
    BY <1>5, <2>4 DEF Fits
<1>6. CASE c.op = "programDuplicate"
  <2>1. Awaits(p) = {<<0, "share0">>, <<2, "share1">>} /\ From(c) = {0, 2}
    BY <1>6 DEF Awaits, From
  <2>2. Hears(c, done[p], 0) = <<"share0", 0>> /\ Hears(c, done[p], 2) = <<"share1", 0>>
    BY <1>6 DEF Hears
  <2>3. First(0, p).kind = "share0" /\ First(2, p).kind = "share1"
    <3>1. Matched(First(0, p), <<"share0", 0>>) /\ Matched(First(2, p), <<"share1", 0>>)
      BY <1>2, <2>1, <2>2
    <3> QED
      BY <3>1 DEF Matched
  <2>4. \A a \in Awaits(p) : First(a[1], p).kind = a[2]
    BY <2>1, <2>3
  <2> QED
    BY <1>6, <2>4 DEF Fits
<1>7. CASE c.op \notin {"greeted", "permRecv", "sendDuplicate", "programDuplicate"}
  <2>1. Awaits(p) = {}
    BY <1>7 DEF Awaits
  <2> QED
    BY <1>7, <2>1 DEF Fits
<1> HIDE DEF c
<1> QED
  BY <1>3, <1>4, <1>5, <1>6, <1>7

(* Behind the last call, each channel has carried as many messages as have *)
(* been taken from it.                                                     *)
LEMMA AllTaken ==
  ASSUME NEW p \in Party, NEW q \in Party, NEW k \in Nat, NEW l \in Nat
  PROVE  Sent(k, l, q, p, CallCount(q), 0) = Got(k, l, q, p, CallCount(p), 0)
<1>1. \A r \in Party : Round(r, CallCount(r)) = 3 /\ Place(r, CallCount(r)) = 0
  BY DEF Round, Place, CallCount, Party
<1> DEFINE a == Times(3, k)
           b == Times(3, l)
           e == Times(3, l + 1)
           f == Times(3, k + 2)
<1>2. a \in Nat /\ b \in Nat /\ e \in Nat /\ f \in Nat
  BY DEF Times
<1> HIDE DEF a, b, e, f
<1>3. Sent(k, l, q, p, CallCount(q), 0) = SentAt(k, l, q, p, 3, 0, 0)
  BY <1>1 DEF Sent
<1>4. Got(k, l, q, p, CallCount(p), 0) = GotAt(k, l, q, p, 3, 0, 0)
  BY <1>1 DEF Got
<1>5. SentAt(k, l, q, p, 3, 0, 0) = GotAt(k, l, q, p, 3, 0, 0)
  BY <1>2 DEF SentAt, GotAt, Part, OneIf, Party, a, b, e, f
<1> QED
  BY <1>3, <1>4, <1>5

(* So nothing is left in a channel when all are done.                      *)
LEMMA NothingIsLeft ==
  ASSUME JoinInv, DbFacts, AllDone, NEW q \in Party, NEW p \in Party
  PROVE  chan[<<q, p>>] = <<>>
<1>1. \A r \in Party : pc[r] = CallCount(r)
  BY NowIs DEF AllDone
<1>2. ASSUME NEW r \in Party PROVE done[r] = 0
  <2>1. CallAt(r, CallCount(r)) = Call("finish", 0)
    BY DEF CallAt, CallCount, Round
  <2>2. Span(Call("finish", 0)) = 1
    BY DEF Span, Call
  <2>3. done[r] \in Nat /\ done[r] < Span(CallAt(r, pc[r]))
    BY DEF JoinInv, CallsIn
  <2>4. done[r] < 1
    BY <1>1, <2>1, <2>2, <2>3
  <2> QED
    BY <2>3, <2>4
<1>3. TableChunks \in Nat /\ OutChunks \in Nat
  BY DEF DbFacts, Sized
<1>4. SentNow(q, p) = GotNow(q, p)
  BY <1>1, <1>2, <1>3, AllTaken DEF SentNow, GotNow
<1>5. Matrix(chan[<<q, p>>], SentNow(q, p) - GotNow(q, p)) /\ SentNow(q, p) \in Nat /\ GotNow(q, p) \in Nat
  BY DEF JoinInv, ChanIn, Carries
<1>6. Matrix(chan[<<q, p>>], 0)
  BY <1>4, <1>5
<1> QED
  BY <1>6, QueueEmpty

(* InStep from the invariant.                                              *)
LEMMA InStepIs == JoinInv /\ SameChunks => InStep
<1> SUFFICES ASSUME JoinInv, SameChunks PROVE InStep
  OBVIOUS
<1>1. DbFacts
  BY DbIs DEF JoinInv
<1>2. \A p \in Party : ~ Finished(p) /\ Here(p) => Fits(p)
  BY <1>1, FitsHolds
<1>3. ASSUME AllDone, NEW c \in DOMAIN chan PROVE chan[c] = <<>>
  <2>1. c \in Party \X Party
    BY <1>3 DEF JoinInv, ChanIn
  <2>2. c = <<c[1], c[2]>> /\ c[1] \in Party /\ c[2] \in Party
    BY <2>1
  <2> QED
    BY <1>1, <1>3, <2>2, NothingIsLeft
<1> QED
  BY <1>2, <1>3 DEF InStep

(* TypeOK from the invariant.                                              *)
LEMMA TypeIs == JoinInv /\ SameChunks => TypeOK
<1> SUFFICES ASSUME JoinInv, SameChunks PROVE TypeOK
  OBVIOUS
<1>1. pc \in [Party -> Nat] /\ done \in [Party -> Nat] /\ \A p \in Party : pc[p] <= CallCount(p)
  BY DEF JoinInv, CallsIn
<1>2. \A p \in Party : Len(Script(p)) = CallCount(p)
  BY ScriptIs
<1>3. ASSUME NEW p \in Party, NEW n \in MemNames PROVE Len(mem[p][n]) = MemRows(n)
  BY MatrixLen DEF JoinInv, MemIn
<1>4. ASSUME NEW p \in Party PROVE Len(mem[p]["table"]) = db.bins
  BY <1>3 DEF MemRows, MemNames
<1>5. ASSUME NEW p \in Party, NEW n \in {"temp"} \cup {Out(h) : h \in 1 .. 3} PROVE Len(mem[p][n]) = Rows
  <2>1. n \in MemNames
    BY Zenon DEF MemNames
  <2>2. n # "table"
    BY DEF Out
  <2> QED
    BY <1>3, <2>1, <2>2 DEF MemRows
<1> QED
  BY <1>1, <1>2, <1>4, <1>5 DEF TypeOK

(* A server that waits in vain waits for one that is behind it.            *)
Behind(p) == Round(p, pc[p]) # 3
TimeNow(p) == Time(p, pc[p])

(* By the schedule above, it is earlier in time than the one that waits.   *)
LEMMA WaitsForEarlier ==
  ASSUME JoinInv, DbFacts, NEW p \in Party, Behind(p), ~ Ready(p)
  PROVE  \E q \in Party : Behind(q) /\ TimeNow(q) < TimeNow(p)
<1>0. ASSUME NEW q \in Party
      PROVE  /\ pc[q] \in 0 .. CallCount(q) /\ done[q] \in Nat
             /\ IsPlace(q, Round(q, pc[q]), Place(q, pc[q])) /\ (pc[q] < CallCount(q) - 1 <=> Behind(q))
             /\ TimeNow(q) \in Nat /\ (Behind(q) <=> TimeNow(q) < 100)
  <2>1. pc[q] \in 0 .. CallCount(q) /\ done[q] \in Nat
    BY DEF JoinInv, CallsIn, CallCount
  <2>2. IsPlace(q, Round(q, pc[q]), Place(q, pc[q])) /\ (pc[q] < CallCount(q) - 1 <=> Behind(q))
    BY <2>1, PlaceIs DEF Behind
  <2>3. TimeNow(q) \in Nat /\ (Behind(q) <=> TimeNow(q) < 100)
    BY <2>2 DEF TimeNow, Time, TimeAt, IsPlace, Behind, Party
  <2> QED
    BY <2>1, <2>2, <2>3
<1>1. pc[p] # CallCount(p) /\ pc[p] < CallCount(p)
  BY <1>0 DEF CallCount
<1>2. ~ Finished(p)
  BY <1>1, NowIs
<1>3. Now(p) = CallAt(p, pc[p]) /\ From(Now(p)) \subseteq Party /\ done[p] \in 0 .. Span(Now(p)) - 1 /\ CallOK(Now(p))
  BY <1>2, Acting
<1>4. CASE Here(p)
  <2>1. Fits(p)
    BY <1>2, <1>4, FitsHolds
  <2>2. Now(p).op = "finish"
    BY <1>2, <1>4, <2>1 DEF Ready
  <2>3. FALSE
    <3>1. CallAt(p, pc[p]).op # "finish"
      BY FinishIsLast, <1>0 DEF Behind
    <3> QED
      BY <1>3, <2>2, <3>1
  <2> QED
    BY <2>3
<1>5. CASE ~ Here(p)
  <2>1. PICK q : q \in From(Now(p)) /\ chan[<<q, p>>] = <<>>
    BY <1>5, AwaitsIs DEF Here
  <2>2. q \in Party
    BY <1>3, <2>1
  <2>3. SentNow(q, p) = GotNow(q, p)
    <3>1. Matrix(chan[<<q, p>>], SentNow(q, p) - GotNow(q, p)) /\ SentNow(q, p) \in Nat /\ GotNow(q, p) \in Nat
      BY <2>2 DEF JoinInv, ChanIn, Carries
    <3>2. SentNow(q, p) - GotNow(q, p) = 0
      BY <2>1, <3>1, QueueEmpty
    <3> QED
      BY <3>1, <3>2
  <2> DEFINE k == TableChunks
             l == OutChunks
             n == pc[p]
             d == done[p]
             d2 == done[q]
             r == Round(p, n)
             o == Place(p, n)
             r2 == Round(q, pc[q])
             o2 == Place(q, pc[q])
  <2>4. Sized(k, l) /\ k \in Nat \ {0} /\ l \in Nat \ {0}
    BY DEF DbFacts, Sized
  <2>5. n \in 0 .. CallCount(p) - 1 /\ q \in From(CallAt(p, n)) /\ d \in 0 .. Span(CallAt(p, n)) - 1
    BY <1>0, <1>1, <1>3, <2>1 DEF CallCount
  <2>6. r # 3 /\ Waits(k, l, p, r, o, q, d)
    <3> HIDE DEF k, l, n, d
    <3> QED
      BY <2>4, <2>5, WaitsIs
  <2>7. IsPlace(p, r, o) /\ IsPlace(q, r2, o2) /\ d2 \in Nat
    BY <1>0, <2>2
  <2>8. SentAt(k, l, q, p, r2, o2, d2) = GotAt(k, l, q, p, r, o, d)
    BY <2>3 DEF SentNow, GotNow, Sent, Got
  <2>9. /\ SentAt(k, l, q, p, r2, o2, d2) \in Nat /\ GotAt(k, l, q, p, r, o, d) \in Nat
    BY <2>2 DEF JoinInv, ChanIn, Carries, SentNow, GotNow, Sent, Got
  <2>10. ~ TimeAt(q, r2, o2) >= TimeAt(p, r, o)
    <3>1. ASSUME TimeAt(q, r2, o2) >= TimeAt(p, r, o) PROVE SentAt(k, l, q, p, r2, o2, d2) > GotAt(k, l, q, p, r, o, d)
      <4> HIDE DEF k, l, n, d, d2, r, o, r2, o2
      <4> QED
        BY <2>2, <2>4, <2>6, <2>7, <3>1, SentInTime
    <3> HIDE DEF k, l, n, d, d2, r, o, r2, o2
    <3> QED
      BY <2>8, <2>9, <3>1
  <2>11. TimeNow(q) = TimeAt(q, r2, o2) /\ TimeNow(p) = TimeAt(p, r, o)
    BY DEF TimeNow, Time
  <2>12. TimeNow(q) \in Nat /\ TimeNow(p) \in Nat /\ TimeNow(p) < 100 /\ (Behind(q) <=> TimeNow(q) < 100)
    BY <1>0, <2>2
  <2>13. TimeNow(q) < TimeNow(p) /\ Behind(q)
    <3> HIDE DEF r, o, r2, o2
    <3> QED
      BY <2>10, <2>11, <2>12
  <2> QED
    BY <2>2, <2>13
<1> QED
  BY <1>4, <1>5

(* So the server that is furthest behind has a step, and when none is      *)
(* behind they all are in their last call, or through.                     *)
LEMMA NoDeadlockIs == JoinInv /\ SameChunks => NoDeadlock
<1> SUFFICES ASSUME JoinInv, SameChunks, ~ AllDone, \A p \in Party : ~ Ready(p) PROVE FALSE
  BY DEF NoDeadlock
<1>1. DbFacts
  BY DbIs DEF JoinInv
<1>2. ASSUME NEW p \in Party
      PROVE  TimeNow(p) \in Nat /\ (Behind(p) => \E q \in Party : Behind(q) /\ TimeNow(q) < TimeNow(p))
  <2>1. pc[p] \in 0 .. CallCount(p)
    BY DEF JoinInv, CallsIn, CallCount
  <2>2. IsPlace(p, Round(p, pc[p]), Place(p, pc[p]))
    BY <2>1, PlaceIs
  <2>3. TimeNow(p) \in Nat
    BY <2>2 DEF TimeNow, Time, TimeAt, IsPlace, Party
  <2> QED
    BY <1>1, <2>3, WaitsForEarlier
<1>3. \A p \in Party : ~ Behind(p)
  <2> DEFINE a == TimeNow(0)
             b == TimeNow(1)
             e == TimeNow(2)
  <2>1. a \in Nat /\ b \in Nat /\ e \in Nat
    BY <1>2 DEF Party
  <2>2. /\ Behind(0) => (Behind(0) /\ a < a) \/ (Behind(1) /\ b < a) \/ (Behind(2) /\ e < a)
        /\ Behind(1) => (Behind(0) /\ a < b) \/ (Behind(1) /\ b < b) \/ (Behind(2) /\ e < b)
        /\ Behind(2) => (Behind(0) /\ a < e) \/ (Behind(1) /\ b < e) \/ (Behind(2) /\ e < e)
    BY <1>2 DEF Party
  <2> HIDE DEF a, b, e
  <2>3. ~ Behind(0) /\ ~ Behind(1) /\ ~ Behind(2)
    BY <2>1, <2>2
  <2> QED
    BY <2>3 DEF Party
<1>4. ASSUME NEW p \in Party, ~ Finished(p) PROVE At(p, "finish") /\ Now(p) = Call("finish", 0)
  <2>1. Now(p) = CallAt(p, pc[p])
    BY <1>4, NowIs
  <2>2. Round(p, pc[p]) = 3
    BY <1>3 DEF Behind
  <2>3. Now(p) = Call("finish", 0)
    BY <2>1, <2>2 DEF CallAt
  <2> QED
    BY <1>4, <2>3 DEF At, Call
<1>5. AllThere
  BY <1>4 DEF AllThere
<1>6. PICK p \in Party : ~ Finished(p)
  BY DEF AllDone
<1>7. Here(p)
  <2>1. Awaits(p) = {}
    <3>1. Now(p).op = "finish"
      BY <1>4, <1>6 DEF Call
    <3> QED
      BY <3>1 DEF Awaits
  <2> QED
    BY <2>1 DEF Here
<1>8. Fits(p)
  BY <1>1, <1>6, <1>7, FitsHolds
<1> QED
  BY <1>5, <1>6, <1>7, <1>8 DEF Ready

(* Of the steps, only those that send chunks touch what is being shuffled, *)
(* and those leave the chunks in front of the present one alone.           *)
RowsStay ==
  \A p \in Party : done[p] > 0 /\ work'[p] # work[p] => \A i \in 1 .. done[p] * Step : work'[p][i] = work[p][i]

(* Each action, with what it does to work.                                 *)
LEMMA RowsStayIs ==
  ASSUME JoinInv, SameChunks, Next
  PROVE  RowsStay
<1>1. DbFacts
  BY DbIs DEF JoinInv
<1>2. work = [q \in Party |-> work[q]]
  BY DEF JoinInv, WorkIn
<1>3. PICK p \in Party : Act(p)
  BY DEF Next
<1>4. CASE SendChunk(p)
  <2>1. \E t : work' = [work EXCEPT ![p] = t]
    BY <1>4 DEF SendChunk
  <2>2. \A q \in Party : q # p => work'[q] = work[q]
    BY <1>2, <2>1
  <2>3. done[p] > 0 => \A i \in 1 .. done[p] * Step : work'[p][i] = work[p][i]
    BY <1>1, <1>4, SendChunkKeeps
  <2> QED
    BY <2>2, <2>3 DEF RowsStay
<1>5. CASE ProgramChunk(p)
  <2>1. \E t : work' = [work EXCEPT ![p] = t]
    BY <1>5 DEF ProgramChunk
  <2>2. \A q \in Party : q # p => work'[q] = work[q]
    BY <1>2, <2>1
  <2>3. done[p] > 0 => \A i \in 1 .. done[p] * Step : work'[p][i] = work[p][i]
    BY <1>1, <1>5, ProgramChunkKeeps
  <2> QED
    BY <2>2, <2>3 DEF RowsStay
<1>6. CASE ~ SendChunk(p) /\ ~ ProgramChunk(p)
  <2>1. work' = work
    BY <1>3, <1>6 DEF Act, SayHello, HearHello, RecvChunk, OwnShare, HelpDup, SendBits, SendDup, ProgramDup, Finish
  <2> QED
    BY <2>1 DEF RowsStay
<1> QED
  BY <1>4, <1>5, <1>6

(* For every database and every interleaving of the three servers: what a  *)
(* server takes from a channel is what it was waiting for, of the size it  *)
(* expects, and when all are done no message is left over.                 *)
THEOREM InStepHolds == SameChunks /\ Spec => []InStep
<1>1. SameChunks => SameChunks'
  BY DEF SameChunks
<1> QED
  BY <1>1, JoinInvariant, InStepIs, PTL

(* Likewise for the sizes of the servers' matrices.                        *)
THEOREM TypeOKHolds == SameChunks /\ Spec => []TypeOK
<1>1. SameChunks => SameChunks'
  BY DEF SameChunks
<1> QED
  BY <1>1, JoinInvariant, TypeIs, PTL

(* The servers never all wait for each other: until all are done, one has  *)
(* what its call waits for.                                                *)
THEOREM NoDeadlockHolds == SameChunks /\ Spec => []NoDeadlock
<1>1. SameChunks => SameChunks'
  BY DEF SameChunks
<1> QED
  BY <1>1, JoinInvariant, NoDeadlockIs, PTL

(* Rows that a channel holds by reference are not touched by the chunks    *)
(* that are shuffled behind them.                                          *)
THEOREM SentRowsStayHolds == SameChunks /\ Spec => SentRowsStay
<1>1. SameChunks => SameChunks'
  BY DEF SameChunks
<1>2. SameChunks /\ JoinInv /\ [Next]_vars => [RowsStay]_vars
  BY RowsStayIs
<1>3. SameChunks /\ Spec => [][RowsStay]_vars
  BY <1>1, <1>2, JoinInvariant, PTL DEF Spec
<1> QED
  BY <1>3 DEF SentRowsStay, RowsStay

-----------------------------------------------------------------------------

(* The order of rows 1 .. m after n swaps of the shuffle.                  *)
Shuffled(draws, m) ==
  LET s[n \in Nat] == IF n = 0 THEN [i \in 1 .. m |-> i]
                      ELSE IF n <= m THEN Swapped(s[n - 1], n, SwapIdx(draws, m, n)) ELSE s[n - 1]
  IN s

(* One swap after the other.                                               *)
LEMMA ShuffledIs ==
  ASSUME NEW draws, NEW m \in Nat, \A i \in 1 .. m : draws[i] \in Nat
  PROVE  /\ Shuffled(draws, m)[0] = [i \in 1 .. m |-> i]
         /\ \A n \in Nat : Shuffled(draws, m)[n] \in Orders(m)
         /\ \A n \in 1 .. m : Shuffled(draws, m)[n] = Swapped(Shuffled(draws, m)[n - 1], n, SwapIdx(draws, m, n))
<1> DEFINE D == Orders(m)
           base == [i \in 1 .. m |-> i]
           St == [x \in D \X Nat |-> IF x[2] \in 1 .. m THEN Swapped(x[1], x[2], SwapIdx(draws, m, x[2])) ELSE x[1]]
           T == Shuffled(draws, m)
<1>1. base \in D
  BY DEF Orders
<1>2. \A t \in D : \A n \in 1 .. m : Swapped(t, n, SwapIdx(draws, m, n)) \in D
  <2> SUFFICES ASSUME NEW t \in D, NEW n \in 1 .. m PROVE Swapped(t, n, SwapIdx(draws, m, n)) \in D
    OBVIOUS
  <2>1. SwapIdx(draws, m, n) \in n .. m
    BY SwapIdxIn
  <2>2. SwapIdx(draws, m, n) \in 1 .. m
    BY <2>1
  <2> QED
    BY <2>2, SwappedOrder
<1> HIDE DEF base, D
<1>3. St \in [D \X Nat -> D]
  BY <1>2
<1>4. PICK F \in [Nat -> D] : Recurs(F, base, St)
  <2> HIDE DEF St
  <2> QED
    BY <1>1, <1>3, RecursionExists
<1>5. \A n \in Nat : F[n] = IF n = 0 THEN base ELSE St[<<F[n - 1], n>>]
  BY <1>4 DEF Recurs
<1>6. ASSUME NEW n \in Nat, n # 0
      PROVE  St[<<F[n - 1], n>>] = IF n <= m THEN Swapped(F[n - 1], n, SwapIdx(draws, m, n)) ELSE F[n - 1]
  <2>1. F[n - 1] \in D
    BY <1>6
  <2>2. n <= m <=> n \in 1 .. m
    BY <1>6
  <2> HIDE DEF D
  <2> QED
    BY <2>1, <2>2
<1> HIDE DEF St
<1>7. F = [n \in Nat |-> IF n = 0 THEN base ELSE IF n <= m THEN Swapped(F[n - 1], n, SwapIdx(draws, m, n)) ELSE F[n - 1]]
  BY <1>5, <1>6
<1>8. T = CHOOSE s : s = [n \in Nat |-> IF n = 0 THEN base ELSE IF n <= m THEN Swapped(s[n - 1], n, SwapIdx(draws, m, n)) ELSE s[n - 1]]
  BY Zenon DEF Shuffled, base
<1>9. T = [n \in Nat |-> IF n = 0 THEN base ELSE IF n <= m THEN Swapped(T[n - 1], n, SwapIdx(draws, m, n)) ELSE T[n - 1]]
  <2> DEFINE Is(s) == s = [n \in Nat |-> IF n = 0 THEN base ELSE IF n <= m THEN Swapped(s[n - 1], n, SwapIdx(draws, m, n)) ELSE s[n - 1]]
  <2>1. Is(F)
    BY <1>7
  <2>2. T = CHOOSE s : Is(s)
    BY <1>8
  <2> HIDE DEF Is, T
  <2>3. Is(T)
    BY <2>1, <2>2
  <2> QED
    BY <2>3 DEF Is
<1> HIDE DEF T
<1>10. \A n \in Nat : T[n] = IF n = 0 THEN base ELSE IF n <= m THEN Swapped(T[n - 1], n, SwapIdx(draws, m, n)) ELSE T[n - 1]
  <2> DEFINE E(n) == IF n = 0 THEN base ELSE IF n <= m THEN Swapped(T[n - 1], n, SwapIdx(draws, m, n)) ELSE T[n - 1]
  <2>1. T = [n \in Nat |-> E(n)]
    BY <1>9
  <2> HIDE DEF E
  <2>2. \A n \in Nat : T[n] = E(n)
    BY <2>1
  <2> QED
    BY <2>2 DEF E
<1>11. \A n \in Nat : T[n] \in D
  <2> DEFINE S == {n \in Nat : T[n] \in D}
  <2>1. 0 \in S
    BY <1>1, <1>10
  <2>2. \A n \in Nat : n \in S => n + 1 \in S
    <3> SUFFICES ASSUME NEW n \in Nat, T[n] \in D PROVE T[n + 1] \in D
      OBVIOUS
    <3>1. T[n + 1] = IF n + 1 <= m THEN Swapped(T[n], n + 1, SwapIdx(draws, m, n + 1)) ELSE T[n]
      BY <1>10
    <3>2. n + 1 <= m => n + 1 \in 1 .. m
      OBVIOUS
    <3> QED
      BY <1>2, <3>1, <3>2
  <2> HIDE DEF S
  <2>3. \A n \in Nat : n \in S
    BY <2>1, <2>2, NatInduct
  <2> QED
    BY <2>3 DEF S
<1>12. T[0] = base
  BY <1>10
<1>13. \A n \in 1 .. m : T[n] = Swapped(T[n - 1], n, SwapIdx(draws, m, n))
  BY <1>10
<1> QED
  BY <1>11, <1>12, <1>13 DEF T, base, D

(* What a swap has passed stays.                                           *)
LEMMA ShuffledStays ==
  ASSUME NEW draws, NEW m \in Nat, NEW a \in 0 .. m, NEW b \in a .. m, NEW i \in 1 .. a,
         \A x \in 1 .. m : draws[x] \in Nat
  PROVE  Shuffled(draws, m)[b][i] = Shuffled(draws, m)[a][i]
<1> DEFINE T == Shuffled(draws, m)
           S == {n \in Nat : a + n <= m => T[a + n][i] = T[a][i]}
<1>1. /\ \A n \in Nat : T[n] \in Orders(m)
      /\ \A n \in 1 .. m : T[n] = Swapped(T[n - 1], n, SwapIdx(draws, m, n))
  BY ShuffledIs
<1> HIDE DEF T
<1>2. 0 \in S
  OBVIOUS
<1>3. ASSUME NEW n \in Nat, n \in S PROVE n + 1 \in S
  <2> SUFFICES ASSUME a + (n + 1) <= m PROVE T[a + (n + 1)][i] = T[a][i]
    OBVIOUS
  <2> DEFINE c == a + (n + 1)
  <2>1. c \in 1 .. m /\ c - 1 = a + n /\ c - 1 \in Nat /\ i \in 1 .. m /\ i < c /\ a + n <= m
    OBVIOUS
  <2>2. T[a + n][i] = T[a][i]
    BY <1>3, <2>1
  <2>3. T[c] = Swapped(T[c - 1], c, SwapIdx(draws, m, c)) /\ T[c - 1] \in Orders(m)
    BY <1>1, <2>1
  <2>4. SwapIdx(draws, m, c) \in c .. m
    BY <2>1, SwapIdxIn
  <2> HIDE DEF c
  <2>5. SwapIdx(draws, m, c) \in 1 .. m /\ i # c /\ i # SwapIdx(draws, m, c)
    BY <2>1, <2>4
  <2> DEFINE j == SwapIdx(draws, m, c)
             u == T[c - 1]
  <2>5a. u \in Orders(m) /\ c \in 1 .. m /\ j \in 1 .. m /\ i \in 1 .. m /\ i # c /\ i # j
    BY <2>1, <2>3, <2>5
  <2>5b. T[c] = Swapped(u, c, j)
    BY <2>3
  <2> HIDE DEF u, j
  <2>5c. Swapped(u, c, j)[i] = u[i]
    BY <2>5a, SwappedOrder
  <2>6. T[c][i] = T[c - 1][i]
    BY <2>5b, <2>5c DEF u
  <2> QED
    BY <2>1, <2>2, <2>6 DEF c
<1>4. b - a \in Nat /\ a + (b - a) = b
  OBVIOUS
<1>5. b - a \in S
  <2> HIDE DEF S
  <2>1. \A n \in Nat : n \in S
    BY <1>2, <1>3, NatInduct
  <2> QED
    BY <1>4, <2>1
<1> QED
  BY <1>4, <1>5 DEF T

(* Rows 1 .. m of s after e swaps, and what the shuffle makes of a chunk   *)
(* when those behind it are still so.                                      *)
Arranged(s, draws, m, e) == [i \in 1 .. m |-> s[Shuffled(draws, m)[e][i]]]
Then(t, s, draws, m, b, e) == [i \in 1 .. m |-> IF i <= b THEN t[i] ELSE Arranged(s, draws, m, e)[i]]

(* One more swap.                                                          *)
LEMMA ThenSwap ==
  ASSUME NEW t, NEW s, NEW draws, NEW m \in Nat, NEW b \in Nat, NEW e \in b .. m, e < m,
         \A i \in 1 .. m : draws[i] \in Nat
  PROVE  Swapped(Then(t, s, draws, m, b, e), e + 1, SwapIdx(draws, m, e + 1)) = Then(t, s, draws, m, b, e + 1)
<1> DEFINE T == Shuffled(draws, m)
           c == e + 1
           j == SwapIdx(draws, m, c)
           u == Then(t, s, draws, m, b, e)
           v == Then(t, s, draws, m, b, c)
<1>1. c \in 1 .. m /\ c - 1 = e /\ e \in Nat /\ c \in Nat /\ b < c
  OBVIOUS
<1>2. T[c] = Swapped(T[e], c, j) /\ T[e] \in [1 .. m -> 1 .. m] /\ T[c] \in [1 .. m -> 1 .. m]
  BY <1>1, ShuffledIs, ZenonT(60) DEF Orders
<1>3. j \in c .. m
  BY <1>1, SwapIdxIn
<1>4. u = [i \in 1 .. m |-> IF i <= b THEN t[i] ELSE s[T[e][i]]]
  BY DEF Then, Arranged
<1>5. v = [i \in 1 .. m |-> IF i <= b THEN t[i] ELSE s[T[c][i]]]
  BY DEF Then, Arranged
<1> HIDE DEF T, u, v, j, c
<1>6. j \in 1 .. m /\ ~ j <= b /\ ~ c <= b
  BY <1>1, <1>3
<1>7. T[c][c] = T[e][j] /\ T[c][j] = T[e][c] /\ \A x \in 1 .. m : x # c /\ x # j => T[c][x] = T[e][x]
  BY <1>1, <1>2, <1>6 DEF Swapped
<1>8. DOMAIN u = 1 .. m /\ u[c] = s[T[e][c]] /\ u[j] = s[T[e][j]]
  BY <1>1, <1>4, <1>6
<1>9. Swapped(u, c, j) = [x \in 1 .. m |-> IF x = j THEN u[c] ELSE IF x = c THEN u[j] ELSE u[x]]
  BY <1>1, <1>4, <1>6 DEF Swapped
<1>10. ASSUME NEW x \in 1 .. m
       PROVE  (IF x = j THEN u[c] ELSE IF x = c THEN u[j] ELSE u[x]) = IF x <= b THEN t[x] ELSE s[T[c][x]]
  <2>1. u[x] = IF x <= b THEN t[x] ELSE s[T[e][x]]
    BY <1>4
  <2> QED
    BY <1>1, <1>6, <1>7, <1>8, <2>1
<1> QED
  BY <1>5, <1>9, <1>10 DEF u, v, c, j

(* The shuffle of a chunk, swap by swap.                                   *)
LEMMA ShuffleTrace ==
  ASSUME NEW s, NEW draws, NEW m0 \in Nat \ {0}, NEW c \in 1 .. Chunks(m0),
         Matrix(s, m0), \A i \in 1 .. m0 : draws[i] \in Nat
  PROVE  \E T \in [0 .. ChunkLen(m0, c) -> Unmoved(s, m0, c)] :
           /\ T[0] = s /\ ShuffleChunk(s, draws, c) = T[ChunkLen(m0, c)]
           /\ \A k \in 1 .. ChunkLen(m0, c) :
                T[k] = Swapped(T[k - 1], (c - 1) * Step + k, SwapIdx(draws, m0, (c - 1) * Step + k))
<1> DEFINE n == ChunkLen(Len(s), c)
           base == s
           D == Unmoved(s, m0, c)
           seq == [k \in 1 .. ChunkLen(Len(s), c) |-> (c - 1) * Step + k]
           Op(t, k) == LET i == seq[k] IN Swapped(t, i, SwapIdx(draws, Len(s), i))
           St == [x \in D \X (1 .. n) |-> Op(x[1], x[2])]
<1>1. n \in Nat /\ base \in D
  BY ChunksFacts, MatrixLen DEF Matrix, Unmoved
<1>0. Len(s) = m0 /\ n = ChunkLen(m0, c)
  BY MatrixLen
<1>0a. \A t \in D : \A k \in 1 .. n : Op(t, k) = Swapped(t, (c - 1) * Step + k, SwapIdx(draws, m0, (c - 1) * Step + k))
  <2>2. \A k \in 1 .. n : seq[k] = (c - 1) * Step + k
    BY <1>0
  <2> HIDE DEF seq
  <2> QED
    BY <1>0, <2>2
<1>2. \A t \in D : \A k \in 1 .. n : Op(t, k) \in D
  <2> HIDE DEF Op, n
  <2> QED
    BY <1>0, <1>0a, ShuffleStep
<1>a. DOMAIN seq = 1 .. n
  BY MatrixLen
<1> DEFINE Is(G) == G = [s1 \in SUBSET (1 .. n) |-> IF s1 = {} THEN base ELSE Op(G[s1 \ {Max(s1)}], Max(s1))]
           iter == CHOOSE G : Is(G)
<1>b. (\E G : Is(G)) => Is(iter) /\ ShuffleChunk(s, draws, c) = iter[1 .. n]
  <2>1. (\E G : Is(G)) => Is(iter)
    <3> HIDE DEF Is
    <3> QED
      OBVIOUS
  <2>2. ShuffleChunk(s, draws, c) = iter[1 .. n]
    BY <1>a, Zenon DEF FoldLeft, MapThenFoldSet, ShuffleChunk, Op
  <2> HIDE DEF iter, Is
  <2> QED
    BY <2>1, <2>2
<1> HIDE DEF n, D, Op, base, seq
<1>4. St \in [D \X (1 .. n) -> D]
  BY <1>2
<1>5. \A s1 \in SUBSET (1 .. n) : s1 # {} => Max(s1) \in 1 .. n
  <2> HIDE DEF Max
  <2> QED
    BY <1>1, MaxOfSubset
<1>6. \A G : \A s1 \in SUBSET (1 .. n) : s1 # {} /\ G[s1 \ {Max(s1)}] \in D =>
          St[<<G[s1 \ {Max(s1)}], Max(s1)>>] = Op(G[s1 \ {Max(s1)}], Max(s1))
  <2> HIDE DEF Max
  <2> QED
    BY <1>5
<1>6a. \A t \in D : \A k \in 1 .. n : St[<<t, k>>] = Op(t, k)
  OBVIOUS
<1> HIDE DEF St, Max
<1>7. PICK F \in [SUBSET (1 .. n) -> D] : Folds(F, n, base, St)
  BY <1>1, <1>4, FoldExists
<1>8. Is(F)
  BY <1>6, <1>7 DEF Folds
<1>9. Is(iter) /\ ShuffleChunk(s, draws, c) = iter[1 .. n]
  <2> HIDE DEF iter, Is
  <2> QED
    BY <1>b, <1>8
<1> HIDE DEF iter
<1>10. Unfolds(iter, n, D, base, St)
  BY <1>1, <1>4, <1>6, <1>9 DEF Unfolds
<1>11. Traces(OnPrefixes(iter, n), n, D, base, St) /\ OnPrefixes(iter, n)[n] = iter[1 .. n]
  BY <1>10, FoldTrace
<1> DEFINE T == OnPrefixes(iter, n)
<1> HIDE DEF T
<1>12. /\ T \in [0 .. n -> D] /\ T[0] = base /\ ShuffleChunk(s, draws, c) = T[n]
       /\ \A k \in 1 .. n : T[k] = Op(T[k - 1], k)
  <2>1. \A k \in 1 .. n : k - 1 \in 0 .. n
    BY <1>1
  <2> QED
    BY <1>6a, <1>9, <1>11, <2>1 DEF Traces, T
<1>13. \A k \in 1 .. n : T[k - 1] \in D
  <2>1. \A k \in 1 .. n : k - 1 \in 0 .. n
    BY <1>1
  <2> QED
    BY <1>12, <2>1
<1>14. \A k \in 1 .. n : T[k] = Swapped(T[k - 1], (c - 1) * Step + k, SwapIdx(draws, m0, (c - 1) * Step + k))
  BY <1>0a, <1>12, <1>13
<1> QED
  BY <1>0, <1>12, <1>14 DEF base, D

(* When the rows behind the chunks that are done are in order, so are they *)
(* Rows b + 1 .. e are those of chunk c.                                   *)
IsChunk(draws, m, c, b, e) ==
  /\ m \in Nat \ {0} /\ c \in 1 .. Chunks(m) /\ b = (c - 1) * Step /\ e = b + ChunkLen(m, c)
  /\ \A i \in 1 .. m : draws[i] \in Nat

(* after one more.                                                         *)
LEMMA ShuffleChunkIs ==
  ASSUME NEW t, NEW s, NEW draws, NEW m, NEW c, NEW b, NEW e,
         IsChunk(draws, m, c, b, e), t = Then(t, s, draws, m, b, b)
  PROVE  ShuffleChunk(t, draws, c) = Then(t, s, draws, m, b, e)
<1>0. /\ m \in Nat \ {0} /\ c \in 1 .. Chunks(m) /\ b = (c - 1) * Step /\ e = b + ChunkLen(m, c)
      /\ \A i \in 1 .. m : draws[i] \in Nat
  BY DEF IsChunk
<1> USE <1>0
<1> DEFINE n == ChunkLen(m, c)
<1>1. b \in Nat /\ n \in Nat /\ b + n <= m /\ Matrix(t, m)
  <2>1. Matrix(t, m)
    BY DEF Matrix, Then
  <2> QED
    BY <2>1, ChunksFacts
<1>2. PICK T \in [0 .. n -> Unmoved(t, m, c)] :
           /\ T[0] = t /\ ShuffleChunk(t, draws, c) = T[n]
           /\ \A k \in 1 .. n : T[k] = Swapped(T[k - 1], b + k, SwapIdx(draws, m, b + k))
  BY <1>1, ShuffleTrace, SMTT(60)
<1> HIDE DEF n
<1> DEFINE S == {k \in Nat : k <= n => T[k] = Then(t, s, draws, m, b, b + k)}
<1>3. 0 \in S
  <2>1. b + 0 = b
    BY <1>1
  <2> QED
    BY <1>2, <2>1
<1>4. ASSUME NEW k \in Nat, k \in S PROVE k + 1 \in S
  <2> SUFFICES ASSUME k + 1 <= n PROVE T[k + 1] = Then(t, s, draws, m, b, b + (k + 1))
    OBVIOUS
  <2>1. k + 1 \in 1 .. n /\ k <= n /\ (k + 1) - 1 = k
    BY <1>1
  <2>2. T[k] = Then(t, s, draws, m, b, b + k)
    BY <1>4, <2>1
  <2> DEFINE x == b + k
  <2>3. x \in b .. m /\ x < m /\ b + (k + 1) = x + 1
    BY <1>1, <2>1
  <2>4. T[k + 1] = Swapped(T[k], x + 1, SwapIdx(draws, m, x + 1))
    BY <1>2, <2>1, <2>3
  <2> HIDE DEF x
  <2>5. Swapped(Then(t, s, draws, m, b, x), x + 1, SwapIdx(draws, m, x + 1)) = Then(t, s, draws, m, b, x + 1)
    BY <1>1, <2>3, ThenSwap
  <2> QED
    BY <2>2, <2>3, <2>4, <2>5 DEF x
<1>5. n \in S
  <2> HIDE DEF S
  <2> QED
    BY <1>1, <1>3, <1>4, NatInduct
<1> QED
  BY <1>1, <1>2, <1>5 DEF n

(* Chunks follow each other up to the last row.                            *)
LEMMA ChunkEnds ==
  ASSUME NEW rows \in Nat \ {0}, NEW c \in 1 .. Chunks(rows)
  PROVE  IF c < Chunks(rows) THEN (c - 1) * Step + ChunkLen(rows, c) = c * Step ELSE (c - 1) * Step + ChunkLen(rows, c) = rows
<1> DEFINE q == Chunks(rows)
<1>0. Step \in Nat \ {0}
  BY StepAssumption
<1>1. q \in Nat \ {0} /\ q * Step <= rows + Step - 1 /\ rows + Step - 1 < q * Step + Step
  <2>1. q \in Nat \ {0}
    BY ChunksFacts
  <2>2. q * Step <= rows + Step - 1 /\ rows + Step - 1 < q * Step + Step
    BY <1>0 DEF Chunks
  <2> QED
    BY <2>1, <2>2
<1> HIDE DEF q
<1>2. ChunkLen(rows, c) = (IF c * Step < rows THEN c * Step ELSE rows) - (c - 1) * Step
  BY DEF ChunkLen, ChunkEnd
<1> DEFINE x == c * Step
           y == (c - 1) * Step
           z == q * Step
<1>3. x \in Nat /\ y \in Nat /\ z \in Nat
  BY <1>0, <1>1
<1>4. c < q => x + Step <= z
  <2>1. c < q => (c + 1) * Step <= q * Step
    BY <1>0, <1>1
  <2>2. (c + 1) * Step = c * Step + Step
    BY <1>0, <1>1
  <2> QED
    BY <2>1, <2>2
<1>5. ~ c < q => x = z
  BY <1>1 DEF q
<1>6. y + ChunkLen(rows, c) = IF x < rows THEN x ELSE rows
  <2> HIDE DEF x, y
  <2>1. ChunkLen(rows, c) = (IF x < rows THEN x ELSE rows) - y
    BY <1>2 DEF x, y
  <2> QED
    BY <1>3, <2>1
<1> HIDE DEF x, y, z
<1>7. c < q => x < rows
  BY <1>0, <1>1, <1>3, <1>4 DEF z
<1>8. ~ c < q => ~ x < rows
  <2>1. z + Step >= rows + Step
    BY <1>0, <1>1, <1>3 DEF z
  <2> QED
    BY <1>0, <1>3, <1>5, <2>1
<1> QED
  BY <1>6, <1>7, <1>8 DEF q, x, y

(* The order in which the rows travel.                                     *)
Order(draws, m) == Shuffled(draws, m)[m]

(* It is one, and it is settled where the shuffle has been.                *)
LEMMA OrderIs ==
  ASSUME NEW draws, NEW m \in Nat, NEW e \in 0 .. m, \A i \in 1 .. m : draws[i] \in Nat
  PROVE  /\ Order(draws, m) \in Orders(m) /\ Order(draws, m) \in [1 .. m -> 1 .. m]
         /\ \A i \in 1 .. e : Shuffled(draws, m)[e][i] = Order(draws, m)[i]
<1>1. Order(draws, m) \in Orders(m)
  BY ShuffledIs DEF Order
<1>2. \A i \in 1 .. e : Shuffled(draws, m)[m][i] = Shuffled(draws, m)[e][i]
  BY ShuffledStays
<1> QED
  BY <1>1, <1>2 DEF Order, Orders

(* What a sender of s has in hand after e rows, and what a chunk carries.  *)
Sending(s, draws, m, e) ==
  [i \in 1 .. m |-> IF i <= e THEN Xor(s[Order(draws, m)[i]], Mask(i)) ELSE Arranged(s, draws, m, e)[i]]
RowsSent(s, draws, m, c) ==
  [n \in 1 .. ChunkLen(m, c) |-> Xor(s[Order(draws, m)[(c - 1) * Step + n]], Mask((c - 1) * Step + n))]
PermSent(perm, draws, m, c) == [n \in 1 .. ChunkLen(m, c) |-> perm[Order(draws, m)[(c - 1) * Step + n]]]

(* The rows behind e are in order in it.                                   *)
LEMMA SendingThen ==
  ASSUME NEW s, NEW draws, NEW m, NEW e
  PROVE  Sending(s, draws, m, e) = Then(Sending(s, draws, m, e), s, draws, m, e, e)
BY DEF Sending, Then

(* What is done with a chunk.                                              *)
SendsChunk(s, draws, m, c, b, e) ==
  /\ Masked(ShuffleChunk(Sending(s, draws, m, b), draws, c), c) = Sending(s, draws, m, e)
  /\ ChunkOf(Sending(s, draws, m, e), c) = RowsSent(s, draws, m, c)
ArrangesChunk(s, draws, m, c, b, e) ==
  /\ ShuffleChunk(Arranged(s, draws, m, b), draws, c) = Arranged(s, draws, m, e)
  /\ ChunkOf(Arranged(s, draws, m, e), c) = PermSent(s, draws, m, c)

(* A chunk of a sender.                                                    *)
LEMMA SendingChunk ==
  ASSUME NEW s, NEW draws, NEW m, NEW c, NEW b, NEW e, IsChunk(draws, m, c, b, e)
  PROVE  SendsChunk(s, draws, m, c, b, e)
<1>0. /\ m \in Nat \ {0} /\ c \in 1 .. Chunks(m) /\ b = (c - 1) * Step /\ e = b + ChunkLen(m, c)
      /\ \A i \in 1 .. m : draws[i] \in Nat
  BY DEF IsChunk
<1> USE <1>0
<1> DEFINE t == Sending(s, draws, m, b)
           n == ChunkLen(m, c)
           o == Order(draws, m)
           u == Then(t, s, draws, m, b, e)
           v == Sending(s, draws, m, e)
           a == Shuffled(draws, m)[e]
<1>1. b \in Nat /\ n \in Nat /\ e = b + n /\ e \in 0 .. m /\ b \in 0 .. m /\ ChunkRows(m, c) = (b + 1) .. e
  BY ChunksFacts
<1>2. ShuffleChunk(t, draws, c) = u
  <2>1. t = Then(t, s, draws, m, b, b)
    BY SendingThen
  <2> HIDE DEF t, n
  <2>2. ShuffleChunk(t, draws, c) = Then(t, s, draws, m, b, e)
    BY <2>1, ShuffleChunkIs
  <2> QED
    BY <2>2
<1>3. \A i \in 1 .. e : a[i] = o[i]
  BY <1>1, OrderIs
<1>4. t = [i \in 1 .. m |-> IF i <= b THEN Xor(s[o[i]], Mask(i)) ELSE Arranged(s, draws, m, b)[i]]
  BY DEF Sending
<1>5. u = [i \in 1 .. m |-> IF i <= b THEN t[i] ELSE s[a[i]]]
  BY DEF Then, Arranged
<1>6. v = [i \in 1 .. m |-> IF i <= e THEN Xor(s[o[i]], Mask(i)) ELSE s[a[i]]]
  BY DEF Sending, Arranged
<1>7. Matrix(u, m) /\ Matrix(v, m)
  BY DEF Matrix, Then, Sending
<1>8. Masked(u, c) = [i \in 1 .. m |-> IF i \in (b + 1) .. e THEN Xor(u[i], Mask(i)) ELSE u[i]]
  BY <1>1, <1>7, MatrixLen DEF Masked
<1>9. ChunkOf(v, c) = [x \in 1 .. n |-> v[b + x]]
  BY <1>7, MatrixLen DEF ChunkOf
<1> HIDE DEF t, o, u, v, a, n
<1>10. Masked(u, c) = v
  <2>1. ASSUME NEW i \in 1 .. m
        PROVE  (IF i \in (b + 1) .. e THEN Xor(u[i], Mask(i)) ELSE u[i])
                 = (IF i <= e THEN Xor(s[o[i]], Mask(i)) ELSE s[a[i]])
    <3>1. CASE i <= b
      <4>1. i <= e /\ ~ i \in (b + 1) .. e
        BY <1>1, <3>1
      <4>2. u[i] = t[i] /\ t[i] = Xor(s[o[i]], Mask(i))
        BY <1>4, <1>5, <3>1
      <4> QED
        BY <4>1, <4>2
    <3>2. CASE i \in (b + 1) .. e
      <4>1. i <= e /\ ~ i <= b /\ i \in 1 .. e
        BY <1>1, <3>2
      <4>2. u[i] = s[a[i]] /\ a[i] = o[i]
        BY <1>3, <1>5, <4>1
      <4> QED
        BY <3>2, <4>1, <4>2
    <3>3. CASE ~ i <= e
      <4>1. ~ i \in (b + 1) .. e /\ ~ i <= b
        BY <1>1, <3>3
      <4> QED
        BY <1>5, <3>3, <4>1
    <3> QED
      BY <1>1, <3>1, <3>2, <3>3
  <2> QED
    BY <1>6, <1>8, <2>1
<1>11. ASSUME NEW x \in 1 .. n PROVE v[b + x] = Xor(s[o[b + x]], Mask(b + x))
  <2>1. b + x \in 1 .. m /\ b + x <= e
    BY <1>1
  <2> QED
    BY <1>6, <2>1
<1>12. RowsSent(s, draws, m, c) = [x \in 1 .. n |-> Xor(s[o[b + x]], Mask(b + x))]
  BY DEF RowsSent, o, n
<1> QED
  BY <1>2, <1>9, <1>10, <1>11, <1>12 DEF t, v, SendsChunk

(* A chunk of a programmer.                                                *)
LEMMA ArrangedChunk ==
  ASSUME NEW s, NEW draws, NEW m, NEW c, NEW b, NEW e, IsChunk(draws, m, c, b, e)
  PROVE  ArrangesChunk(s, draws, m, c, b, e)
<1>0. /\ m \in Nat \ {0} /\ c \in 1 .. Chunks(m) /\ b = (c - 1) * Step /\ e = b + ChunkLen(m, c)
      /\ \A i \in 1 .. m : draws[i] \in Nat
  BY DEF IsChunk
<1> USE <1>0
<1> DEFINE t == Arranged(s, draws, m, b)
           n == ChunkLen(m, c)
           o == Order(draws, m)
           u == Then(t, s, draws, m, b, e)
           v == Arranged(s, draws, m, e)
           a == Shuffled(draws, m)[e]
           a0 == Shuffled(draws, m)[b]
<1>1. b \in Nat /\ n \in Nat /\ e = b + n /\ e \in 0 .. m /\ b \in 0 .. m
  BY ChunksFacts
<1>2. t = Then(t, s, draws, m, b, b)
  BY DEF Arranged, Then
<1>3. ShuffleChunk(t, draws, c) = u
  <2> HIDE DEF t, n
  <2>2. ShuffleChunk(t, draws, c) = Then(t, s, draws, m, b, e)
    BY <1>2, ShuffleChunkIs
  <2> QED
    BY <2>2
<1>4. (\A i \in 1 .. e : a[i] = o[i]) /\ (\A i \in 1 .. b : a0[i] = o[i])
  <2>1. \A i \in 1 .. e : a[i] = o[i]
    BY <1>1, OrderIs
  <2>2. \A i \in 1 .. b : a0[i] = o[i]
    BY <1>1, OrderIs
  <2> QED
    BY <2>1, <2>2
<1>5. t = [i \in 1 .. m |-> s[a0[i]]] /\ v = [i \in 1 .. m |-> s[a[i]]]
  BY DEF Arranged
<1>6. u = [i \in 1 .. m |-> IF i <= b THEN t[i] ELSE s[a[i]]]
  BY DEF Then, Arranged
<1>7. Matrix(v, m)
  BY DEF Matrix, Arranged
<1>8. ChunkOf(v, c) = [x \in 1 .. n |-> v[b + x]]
  BY <1>7, MatrixLen DEF ChunkOf
<1> HIDE DEF t, o, u, v, a, a0, n
<1>9. ASSUME NEW i \in 1 .. m PROVE (IF i <= b THEN t[i] ELSE s[a[i]]) = s[a[i]]
  <2>1. i <= b => i \in 1 .. b /\ i \in 1 .. e
    BY <1>1
  <2> QED
    BY <1>4, <1>5, <2>1
<1>10. u = v
  BY <1>5, <1>6, <1>9
<1>11. ASSUME NEW x \in 1 .. n PROVE v[b + x] = s[o[b + x]]
  <2>1. b + x \in 1 .. m /\ b + x \in 1 .. e
    BY <1>1
  <2> QED
    BY <1>4, <1>5, <2>1
<1>12. PermSent(s, draws, m, c) = [x \in 1 .. n |-> s[o[b + x]]]
  BY DEF PermSent, o, n
<1> QED
  BY <1>3, <1>8, <1>10, <1>11, <1>12 DEF t, v, ArrangesChunk

(* Before the first swap, and after the last one.                          *)
LEMMA Unshuffled ==
  ASSUME NEW s, NEW draws, NEW m, Matrix(s, m), \A i \in 1 .. m : draws[i] \in Nat
  PROVE  /\ Sending(s, draws, m, 0) = s /\ Arranged(s, draws, m, 0) = s
         /\ Arranged(s, draws, m, m) = [i \in 1 .. m |-> s[Order(draws, m)[i]]]
<1>0. m \in Nat /\ s = [i \in 1 .. m |-> s[i]]
  BY DEF Matrix
<1>1. Shuffled(draws, m)[0] = [i \in 1 .. m |-> i]
  BY <1>0, ShuffledIs
<1>2. \A i \in 1 .. m : Arranged(s, draws, m, 0)[i] = s[i]
  BY <1>1 DEF Arranged
<1>3. Arranged(s, draws, m, 0) = [i \in 1 .. m |-> s[i]]
  BY <1>1, <1>2 DEF Arranged
<1>4. Sending(s, draws, m, 0) = [i \in 1 .. m |-> s[i]]
  <2>1. \A i \in 1 .. m : ~ i <= 0
    OBVIOUS
  <2> QED
    BY <1>2, <2>1 DEF Sending
<1>5. Arranged(s, draws, m, m) = [i \in 1 .. m |-> s[Order(draws, m)[i]]]
  BY DEF Arranged, Order
<1> QED
  BY <1>0, <1>3, <1>4, <1>5

(* XOR is addition of sets.                                                *)
LEMMA XorFacts ==
  ASSUME NEW a, NEW b, NEW c
  PROVE  /\ Xor(a, b) = Xor(b, a) /\ Xor(Xor(a, b), c) = Xor(a, Xor(b, c))
         /\ Xor(a, a) = {} /\ Xor(a, {}) = a /\ Xor({}, a) = a
         /\ Xor(Xor(a, b), b) = a
BY DEF Xor

(* Sums of shares with the same mask.                                      *)
LEMMA XorMasked ==
  ASSUME NEW a, NEW b, NEW m
  PROVE  /\ Xor(Xor(a, m), Xor(b, m)) = Xor(a, b) /\ Xor(Xor(a, m), m) = a /\ Xor(m, Xor(a, m)) = a
         /\ Xor(Xor(a, b), Xor(b, m)) = Xor(a, m)
BY DEF Xor

-----------------------------------------------------------------------------
(* What writing rows one after the other leaves, when no place is written  *)
(* twice: row i of x, or its sum with what was there, at p[i].             *)
OneToOne(p, n) == \A i, j \in 1 .. n : p[i] = p[j] /\ p[i] # 0 => i = j
Entry(old, y, add) == IF add THEN Xor(old, y) ELSE y
WritesOne(t, u, j, y, add) == u = [v \in DOMAIN t |-> IF v = j THEN Entry(t[v], y, add) ELSE t[v]]
Written(t, dest, m, p, n, x, add) ==
  /\ Matrix(t, m)
  /\ \A v \in 1 .. m : /\ \A i \in 1 .. n : p[i] = v => t[v] = Entry(dest[v], x[i], add)
                       /\ (\A i \in 1 .. n : p[i] # v) => t[v] = dest[v]

(* One more row.                                                           *)
LEMMA WritesNext ==
  ASSUME NEW t, NEW u, NEW dest, NEW m, NEW p, NEW n, NEW k, NEW x, NEW add,
         k \in Nat, n \in Nat, k < n, OneToOne(p, n),
         Written(t, dest, m, p, k, x, add), WritesOne(t, u, p[k + 1], x[k + 1], add)
  PROVE  Written(u, dest, m, p, k + 1, x, add)
<1>1. DOMAIN t = 1 .. m /\ m \in Nat
  BY MatrixLen DEF Written
<1>2. u = [v \in 1 .. m |-> IF v = p[k + 1] THEN Entry(t[v], x[k + 1], add) ELSE t[v]]
  BY <1>1 DEF WritesOne
<1>3. Matrix(u, m)
  BY <1>1, <1>2 DEF Matrix
<1>4. ASSUME NEW v \in 1 .. m, NEW i \in 1 .. k + 1, p[i] = v PROVE u[v] = Entry(dest[v], x[i], add)
  <2>1. CASE i = k + 1
    <3>1. ASSUME NEW j \in 1 .. k PROVE p[j] # v
      <4>1. j \in 1 .. n /\ i \in 1 .. n /\ i # j /\ p[i] # 0
        BY <1>4, <2>1
      <4> QED
        BY <1>4, <4>1 DEF OneToOne
    <3>2. t[v] = dest[v]
      BY <3>1 DEF Written
    <3> QED
      BY <1>2, <1>4, <2>1, <3>2
  <2>2. CASE i # k + 1
    <3>1. i \in 1 .. k /\ i \in 1 .. n /\ k + 1 \in 1 .. n /\ p[i] # 0
      BY <1>4, <2>2
    <3>2. p[k + 1] # v
      BY <1>4, <2>2, <3>1 DEF OneToOne
    <3>3. t[v] = Entry(dest[v], x[i], add)
      BY <1>4, <3>1 DEF Written
    <3> QED
      BY <1>2, <3>2, <3>3
  <2> QED
    BY <2>1, <2>2
<1>5. ASSUME NEW v \in 1 .. m, \A i \in 1 .. k + 1 : p[i] # v PROVE u[v] = dest[v]
  <2>1. (\A i \in 1 .. k : p[i] # v) /\ p[k + 1] # v
    BY <1>5
  <2>2. t[v] = dest[v]
    BY <2>1 DEF Written
  <2> QED
    BY <1>2, <2>1, <2>2
<1> QED
  BY <1>3, <1>4, <1>5 DEF Written

(* All of them.                                                            *)
LEMMA Writes ==
  ASSUME NEW T, NEW m, NEW p, NEW n, NEW x, NEW add,
         n \in Nat, OneToOne(p, n), Matrix(T[0], m),
         \A k \in 1 .. n : Matrix(T[k - 1], m) => WritesOne(T[k - 1], T[k], p[k], x[k], add)
  PROVE  Written(T[n], T[0], m, p, n, x, add)
<1> DEFINE S == {k \in Nat : k <= n => Written(T[k], T[0], m, p, k, x, add)}
<1>1. 0 \in S
  <2>1. Written(T[0], T[0], m, p, 0, x, add)
    BY DEF Written
  <2> QED
    BY <2>1
<1>2. ASSUME NEW k \in Nat, k \in S PROVE k + 1 \in S
  <2> SUFFICES ASSUME k + 1 <= n PROVE Written(T[k + 1], T[0], m, p, k + 1, x, add)
    OBVIOUS
  <2>1. k < n /\ k + 1 \in 1 .. n /\ (k + 1) - 1 = k
    OBVIOUS
  <2>2. Written(T[k], T[0], m, p, k, x, add)
    BY <1>2, <2>1
  <2>3. WritesOne(T[k], T[k + 1], p[k + 1], x[k + 1], add)
    BY <2>1, <2>2 DEF Written
  <2> QED
    BY <2>1, <2>2, <2>3, WritesNext
<1>3. n \in S
  <2> HIDE DEF S
  <2> QED
    BY <1>1, <1>2, NatInduct
<1> QED
  BY <1>3

(* Receiving rows.                                                         *)
LEMMA PlacedIs ==
  ASSUME NEW dest, NEW perm, NEW rows, NEW n0, NEW m0, Matrix(dest, m0), Matrix(perm, n0), OneToOne(perm, n0)
  PROVE  Written(Placed(dest, perm, rows), dest, m0, perm, n0, rows, FALSE)
<1> DEFINE n == n0
           base == dest
           D == [1 .. m0 -> {dest[i] : i \in 1 .. m0} \cup {rows[i] : i \in 1 .. n0}]
           seq == [i \in DOMAIN perm |-> i]
           Op(t, k) == LET i == seq[k] IN IF perm[i] = 0 THEN t ELSE [t EXCEPT ![perm[i]] = rows[i]]
           St == [x \in D \X (1 .. n) |-> Op(x[1], x[2])]
<1>1. n \in Nat /\ base \in D
  BY DEF Matrix
<1>0. \A k \in 1 .. n : seq[k] = k
  BY MatrixLen
<1>2. \A t \in D : \A k \in 1 .. n : Op(t, k) \in D
  BY MatrixLen
<1>3. \A k \in 1 .. n : \A t : Matrix(t, m0) => WritesOne(t, Op(t, k), perm[k], rows[k], FALSE)
  <2> SUFFICES ASSUME NEW k \in 1 .. n, NEW t, Matrix(t, m0) PROVE WritesOne(t, Op(t, k), perm[k], rows[k], FALSE)
    OBVIOUS
  <2>1. DOMAIN t = 1 .. m0 /\ m0 \in Nat /\ t = [i \in 1 .. m0 |-> t[i]]
    BY MatrixLen DEF Matrix
  <2>2. seq[k] = k
    BY <1>0
  <2>3. rows[k] = rows[k]
    OBVIOUS
  <2> DEFINE y == rows[k]
             v == Entry(t[perm[k]], y, FALSE)
  <2>4. Op(t, k) = IF perm[k] = 0 THEN t ELSE [t EXCEPT ![perm[k]] = v]
    <3> HIDE DEF seq
    <3> QED
      BY <2>2, <2>3, Zenon DEF Entry
  <2> HIDE DEF Op, y, seq
  <2>5. Op(t, k) = [z \in 1 .. m0 |-> IF z = perm[k] THEN Entry(t[z], y, FALSE) ELSE t[z]]
    <3>1. CASE perm[k] = 0
      <4>1. Op(t, k) = t \/ Op(t, k) = [t EXCEPT ![perm[k]] = v]
        BY <2>4
      <4>2. \A z \in 1 .. m0 : z # perm[k]
        BY <3>1
      <4> QED
        BY <2>1, <4>1, <4>2
    <3>2. CASE perm[k] # 0
      <4>1. Op(t, k) = [t EXCEPT ![perm[k]] = v]
        BY <2>4, <3>2
      <4> QED
        BY <2>1, <4>1
    <3> QED
      BY <3>1, <3>2
  <2> HIDE DEF v
  <2> QED
    BY <2>1, <2>5 DEF WritesOne, y
<1>a. DOMAIN seq = 1 .. n
  BY MatrixLen
<1> DEFINE Is(G) == G = [s1 \in SUBSET (1 .. n) |-> IF s1 = {} THEN base ELSE Op(G[s1 \ {Max(s1)}], Max(s1))]
           iter == CHOOSE G : Is(G)
<1>b. (\E G : Is(G)) => Is(iter) /\ Placed(dest, perm, rows) = iter[1 .. n]
  <2>1. (\E G : Is(G)) => Is(iter)
    <3> HIDE DEF Is
    <3> QED
      OBVIOUS
  <2>2. Placed(dest, perm, rows) = iter[1 .. n]
    BY <1>a, Zenon DEF FoldLeft, MapThenFoldSet, Placed, Op, seq
  <2> HIDE DEF iter, Is
  <2> QED
    BY <2>1, <2>2
<1> HIDE DEF n, D, Op, base, seq
<1>4. St \in [D \X (1 .. n) -> D]
  BY <1>2
<1>5. \A s1 \in SUBSET (1 .. n) : s1 # {} => Max(s1) \in 1 .. n
  <2> HIDE DEF Max
  <2> QED
    BY <1>1, MaxOfSubset
<1>6. \A G : \A s1 \in SUBSET (1 .. n) : s1 # {} /\ G[s1 \ {Max(s1)}] \in D =>
          St[<<G[s1 \ {Max(s1)}], Max(s1)>>] = Op(G[s1 \ {Max(s1)}], Max(s1))
  <2> HIDE DEF Max
  <2> QED
    BY <1>5
<1>6a. \A t \in D : \A k \in 1 .. n : St[<<t, k>>] = Op(t, k)
  OBVIOUS
<1> HIDE DEF St, Max
<1>7. PICK F \in [SUBSET (1 .. n) -> D] : Folds(F, n, base, St)
  BY <1>1, <1>4, FoldExists
<1>8. Is(F)
  BY <1>6, <1>7 DEF Folds
<1>9. Is(iter) /\ Placed(dest, perm, rows) = iter[1 .. n]
  <2> HIDE DEF iter, Is
  <2> QED
    BY <1>b, <1>8
<1> HIDE DEF iter
<1>10. Unfolds(iter, n, D, base, St)
  BY <1>1, <1>4, <1>6, <1>9 DEF Unfolds
<1>11. Traces(OnPrefixes(iter, n), n, D, base, St) /\ OnPrefixes(iter, n)[n] = iter[1 .. n]
  BY <1>10, FoldTrace
<1> DEFINE T == OnPrefixes(iter, n)
<1> HIDE DEF T
<1>12. /\ T \in [0 .. n -> D] /\ T[0] = base /\ Placed(dest, perm, rows) = T[n]
       /\ \A k \in 1 .. n : T[k] = Op(T[k - 1], k)
  <2>1. \A k \in 1 .. n : k - 1 \in 0 .. n
    BY <1>1
  <2> QED
    BY <1>6a, <1>9, <1>11, <2>1 DEF Traces, T
<1>13. \A k \in 1 .. n : Matrix(T[k - 1], m0) => WritesOne(T[k - 1], T[k], perm[k], rows[k], FALSE)
  BY <1>3, <1>12
<1>14. Matrix(T[0], m0)
  BY <1>12 DEF base
<1> DEFINE xs == rows
<1>15. \A k \in 1 .. n : Matrix(T[k - 1], m0) => WritesOne(T[k - 1], T[k], perm[k], xs[k], FALSE)
  BY <1>13
<1>16. Written(T[n], T[0], m0, perm, n, xs, FALSE)
  <2> HIDE DEF xs
  <2> QED
    BY <1>1, <1>14, <1>15, Writes DEF n
<1> QED
  BY <1>12, <1>16 DEF base, n

(* Unmasking rows.                                                         *)
LEMMA UnmaskedIs ==
  ASSUME NEW dest, NEW perm, NEW additive, NEW n0, NEW m0, Matrix(dest, m0), Matrix(perm, n0), OneToOne(perm, n0)
  PROVE  Written(Unmasked(dest, perm, additive), dest, m0, perm, n0, [i \in 1 .. n0 |-> Mask(i)], additive)
<1> DEFINE n == n0
           base == dest
           D == [1 .. m0 -> SUBSET ((UNION {dest[x] : x \in 1 .. m0}) \cup MaskRows(n0))]
           seq == [i \in DOMAIN perm |-> i]
           Op(t, k) == LET i == seq[k] IN IF perm[i] = 0 THEN t ELSE [t EXCEPT ![perm[i]] = IF additive THEN Xor(@, Mask(i)) ELSE Mask(i)]
           St == [x \in D \X (1 .. n) |-> Op(x[1], x[2])]
<1>1. n \in Nat /\ base \in D
  <2>1. dest = [x \in 1 .. m0 |-> dest[x]] /\ n0 \in Nat
    BY DEF Matrix
  <2>2. \A x \in 1 .. m0 : dest[x] \in SUBSET UNION {dest[y] : y \in 1 .. m0}
    BY Zenon
  <2> QED
    BY <2>1, <2>2
<1>0. \A k \in 1 .. n : seq[k] = k
  BY MatrixLen
<1>2. \A t \in D : \A k \in 1 .. n : Op(t, k) \in D
  <2> DEFINE U == (UNION {dest[x] : x \in 1 .. m0}) \cup MaskRows(n0)
  <2> SUFFICES ASSUME NEW t \in D, NEW k \in 1 .. n PROVE Op(t, k) \in D
    OBVIOUS
  <2>1. seq[k] = k /\ k \in 1 .. n0
    BY MatrixLen
  <2>2. Mask(k) \subseteq U
    <3>1. Mask(k) \subseteq MaskRows(n0)
      BY <2>1, MaskIn
    <3> QED
      BY <3>1, Zenon
  <2>3. t \in [1 .. m0 -> SUBSET U]
    OBVIOUS
  <2> DEFINE v == IF additive THEN Xor(t[perm[k]], Mask(k)) ELSE Mask(k)
  <2>4. perm[k] \in 1 .. m0 => v \in SUBSET U
    <3> HIDE DEF U
    <3> QED
      BY <2>2, <2>3 DEF Xor
  <2>5. Op(t, k) = IF perm[k] = 0 THEN t ELSE [t EXCEPT ![perm[k]] = v]
    <3> HIDE DEF seq
    <3> QED
      BY <2>1, Zenon
  <2> HIDE DEF U, v, Op
  <2>6. Op(t, k) \in [1 .. m0 -> SUBSET U]
    BY <2>3, <2>4, <2>5
  <2> QED
    BY <2>6 DEF U
<1>3. \A k \in 1 .. n : \A t : Matrix(t, m0) => WritesOne(t, Op(t, k), perm[k], [i \in 1 .. n0 |-> Mask(i)][k], additive)
  <2> SUFFICES ASSUME NEW k \in 1 .. n, NEW t, Matrix(t, m0) PROVE WritesOne(t, Op(t, k), perm[k], [i \in 1 .. n0 |-> Mask(i)][k], additive)
    OBVIOUS
  <2>1. DOMAIN t = 1 .. m0 /\ m0 \in Nat /\ t = [i \in 1 .. m0 |-> t[i]]
    BY MatrixLen DEF Matrix
  <2>2. seq[k] = k
    BY <1>0
  <2>3. [i \in 1 .. n0 |-> Mask(i)][k] = Mask(k)
    OBVIOUS
  <2> DEFINE y == [i \in 1 .. n0 |-> Mask(i)][k]
             v == Entry(t[perm[k]], y, additive)
  <2>4. Op(t, k) = IF perm[k] = 0 THEN t ELSE [t EXCEPT ![perm[k]] = v]
    <3> HIDE DEF seq
    <3> QED
      BY <2>2, <2>3, Zenon DEF Entry
  <2> HIDE DEF Op, y, seq
  <2>5. Op(t, k) = [z \in 1 .. m0 |-> IF z = perm[k] THEN Entry(t[z], y, additive) ELSE t[z]]
    <3>1. CASE perm[k] = 0
      <4>1. Op(t, k) = t \/ Op(t, k) = [t EXCEPT ![perm[k]] = v]
        BY <2>4
      <4>2. \A z \in 1 .. m0 : z # perm[k]
        BY <3>1
      <4> QED
        BY <2>1, <4>1, <4>2
    <3>2. CASE perm[k] # 0
      <4>1. Op(t, k) = [t EXCEPT ![perm[k]] = v]
        BY <2>4, <3>2
      <4> QED
        BY <2>1, <4>1
    <3> QED
      BY <3>1, <3>2
  <2> HIDE DEF v
  <2> QED
    BY <2>1, <2>5 DEF WritesOne, y
<1>a. DOMAIN seq = 1 .. n
  BY MatrixLen
<1> DEFINE Is(G) == G = [s1 \in SUBSET (1 .. n) |-> IF s1 = {} THEN base ELSE Op(G[s1 \ {Max(s1)}], Max(s1))]
           iter == CHOOSE G : Is(G)
<1>b. (\E G : Is(G)) => Is(iter) /\ Unmasked(dest, perm, additive) = iter[1 .. n]
  <2>1. (\E G : Is(G)) => Is(iter)
    <3> HIDE DEF Is
    <3> QED
      OBVIOUS
  <2>2. Unmasked(dest, perm, additive) = iter[1 .. n]
    BY <1>a, Zenon DEF FoldLeft, MapThenFoldSet, Unmasked, Op, seq
  <2> HIDE DEF iter, Is
  <2> QED
    BY <2>1, <2>2
<1> HIDE DEF n, D, Op, base, seq
<1>4. St \in [D \X (1 .. n) -> D]
  BY <1>2
<1>5. \A s1 \in SUBSET (1 .. n) : s1 # {} => Max(s1) \in 1 .. n
  <2> HIDE DEF Max
  <2> QED
    BY <1>1, MaxOfSubset
<1>6. \A G : \A s1 \in SUBSET (1 .. n) : s1 # {} /\ G[s1 \ {Max(s1)}] \in D =>
          St[<<G[s1 \ {Max(s1)}], Max(s1)>>] = Op(G[s1 \ {Max(s1)}], Max(s1))
  <2> HIDE DEF Max
  <2> QED
    BY <1>5
<1>6a. \A t \in D : \A k \in 1 .. n : St[<<t, k>>] = Op(t, k)
  OBVIOUS
<1> HIDE DEF St, Max
<1>7. PICK F \in [SUBSET (1 .. n) -> D] : Folds(F, n, base, St)
  BY <1>1, <1>4, FoldExists
<1>8. Is(F)
  BY <1>6, <1>7 DEF Folds
<1>9. Is(iter) /\ Unmasked(dest, perm, additive) = iter[1 .. n]
  <2> HIDE DEF iter, Is
  <2> QED
    BY <1>b, <1>8
<1> HIDE DEF iter
<1>10. Unfolds(iter, n, D, base, St)
  BY <1>1, <1>4, <1>6, <1>9 DEF Unfolds
<1>11. Traces(OnPrefixes(iter, n), n, D, base, St) /\ OnPrefixes(iter, n)[n] = iter[1 .. n]
  BY <1>10, FoldTrace
<1> DEFINE T == OnPrefixes(iter, n)
<1> HIDE DEF T
<1>12. /\ T \in [0 .. n -> D] /\ T[0] = base /\ Unmasked(dest, perm, additive) = T[n]
       /\ \A k \in 1 .. n : T[k] = Op(T[k - 1], k)
  <2>1. \A k \in 1 .. n : k - 1 \in 0 .. n
    BY <1>1
  <2> QED
    BY <1>6a, <1>9, <1>11, <2>1 DEF Traces, T
<1>13. \A k \in 1 .. n : Matrix(T[k - 1], m0) => WritesOne(T[k - 1], T[k], perm[k], [i \in 1 .. n0 |-> Mask(i)][k], additive)
  BY <1>3, <1>12
<1>14. Matrix(T[0], m0)
  BY <1>12 DEF base
<1> DEFINE xs == [i \in 1 .. n0 |-> Mask(i)]
<1>15. \A k \in 1 .. n : Matrix(T[k - 1], m0) => WritesOne(T[k - 1], T[k], perm[k], xs[k], additive)
  BY <1>13
<1>16. Written(T[n], T[0], m0, perm, n, xs, additive)
  <2> HIDE DEF xs
  <2> QED
    BY <1>1, <1>14, <1>15, Writes DEF n
<1> QED
  BY <1>12, <1>16 DEF base, n

(* Adding rows.                                                            *)
LEMMA AddedIs ==
  ASSUME NEW dest, NEW perm, NEW rows, NEW n0, NEW m0, Matrix(dest, m0), Matrix(perm, n0), OneToOne(perm, n0)
  PROVE  Written(Added(dest, perm, rows), dest, m0, perm, n0, rows, TRUE)
<1> DEFINE n == n0
           base == dest
           D == [1 .. m0 -> SUBSET (Atoms(dest, m0) \cup Atoms(rows, n0))]
           seq == [i \in DOMAIN perm |-> i]
           Op(t, k) == LET i == seq[k] IN [t EXCEPT ![perm[i]] = Xor(@, rows[i])]
           St == [x \in D \X (1 .. n) |-> Op(x[1], x[2])]
<1>1. n \in Nat /\ base \in D
  <2>1. \A i \in 1 .. m0 : dest[i] \subseteq Atoms(dest, m0)
    BY AtomsIn
  <2> QED
    BY <2>1 DEF Matrix
<1>0. \A k \in 1 .. n : seq[k] = k
  BY MatrixLen
<1>2. \A t \in D : \A k \in 1 .. n : Op(t, k) \in D
  <2> DEFINE U == Atoms(dest, m0) \cup Atoms(rows, n0)
  <2> SUFFICES ASSUME NEW t \in D, NEW k \in 1 .. n PROVE Op(t, k) \in D
    OBVIOUS
  <2>1. seq[k] = k /\ k \in 1 .. n0
    BY MatrixLen
  <2> HIDE DEF seq
  <2>2. rows[k] \subseteq U
    BY <2>1, AtomsIn, Zenon
  <2>3. t \in [1 .. m0 -> SUBSET U]
    OBVIOUS
  <2> HIDE DEF U
  <2>4. perm[k] \in 1 .. m0 => Xor(t[perm[k]], rows[k]) \in SUBSET U
    BY <2>2, <2>3, XorIn
  <2> DEFINE v == Xor(t[perm[k]], rows[k])
  <2>5. Op(t, k) = [t EXCEPT ![perm[k]] = v]
    BY <2>1, Zenon
  <2> HIDE DEF v, Op
  <2>6. Op(t, k) \in [1 .. m0 -> SUBSET U]
    BY <2>3, <2>4, <2>5 DEF v
  <2> QED
    BY <2>6 DEF U
<1>3. \A k \in 1 .. n : \A t : Matrix(t, m0) => WritesOne(t, Op(t, k), perm[k], rows[k], TRUE)
  <2> SUFFICES ASSUME NEW k \in 1 .. n, NEW t, Matrix(t, m0) PROVE WritesOne(t, Op(t, k), perm[k], rows[k], TRUE)
    OBVIOUS
  <2>1. DOMAIN t = 1 .. m0 /\ m0 \in Nat /\ t = [i \in 1 .. m0 |-> t[i]]
    BY MatrixLen DEF Matrix
  <2>2. seq[k] = k
    BY <1>0
  <2>3. rows[k] = rows[k]
    OBVIOUS
  <2> DEFINE y == rows[k]
             v == Entry(t[perm[k]], y, TRUE)
  <2>4. Op(t, k) = [t EXCEPT ![perm[k]] = v]
    <3> HIDE DEF seq
    <3> QED
      BY <2>2, <2>3, Zenon DEF Entry
  <2> HIDE DEF Op, y, seq
  <2>5. Op(t, k) = [z \in 1 .. m0 |-> IF z = perm[k] THEN Entry(t[z], y, TRUE) ELSE t[z]]
    <3>1. CASE perm[k] = 0
      <4>1. Op(t, k) = t \/ Op(t, k) = [t EXCEPT ![perm[k]] = v]
        BY <2>4
      <4>2. \A z \in 1 .. m0 : z # perm[k]
        BY <3>1
      <4> QED
        BY <2>1, <4>1, <4>2
    <3>2. CASE perm[k] # 0
      <4>1. Op(t, k) = [t EXCEPT ![perm[k]] = v]
        BY <2>4, <3>2
      <4> QED
        BY <2>1, <4>1
    <3> QED
      BY <3>1, <3>2
  <2> HIDE DEF v
  <2> QED
    BY <2>1, <2>5 DEF WritesOne, y
<1>a. DOMAIN seq = 1 .. n
  BY MatrixLen
<1> DEFINE Is(G) == G = [s1 \in SUBSET (1 .. n) |-> IF s1 = {} THEN base ELSE Op(G[s1 \ {Max(s1)}], Max(s1))]
           iter == CHOOSE G : Is(G)
<1>b. (\E G : Is(G)) => Is(iter) /\ Added(dest, perm, rows) = iter[1 .. n]
  <2>1. (\E G : Is(G)) => Is(iter)
    <3> HIDE DEF Is
    <3> QED
      OBVIOUS
  <2>2. Added(dest, perm, rows) = iter[1 .. n]
    BY <1>a, Zenon DEF FoldLeft, MapThenFoldSet, Added, Op, seq
  <2> HIDE DEF iter, Is
  <2> QED
    BY <2>1, <2>2
<1> HIDE DEF n, D, Op, base, seq
<1>4. St \in [D \X (1 .. n) -> D]
  BY <1>2
<1>5. \A s1 \in SUBSET (1 .. n) : s1 # {} => Max(s1) \in 1 .. n
  <2> HIDE DEF Max
  <2> QED
    BY <1>1, MaxOfSubset
<1>6. \A G : \A s1 \in SUBSET (1 .. n) : s1 # {} /\ G[s1 \ {Max(s1)}] \in D =>
          St[<<G[s1 \ {Max(s1)}], Max(s1)>>] = Op(G[s1 \ {Max(s1)}], Max(s1))
  <2> HIDE DEF Max
  <2> QED
    BY <1>5
<1>6a. \A t \in D : \A k \in 1 .. n : St[<<t, k>>] = Op(t, k)
  OBVIOUS
<1> HIDE DEF St, Max
<1>7. PICK F \in [SUBSET (1 .. n) -> D] : Folds(F, n, base, St)
  BY <1>1, <1>4, FoldExists
<1>8. Is(F)
  BY <1>6, <1>7 DEF Folds
<1>9. Is(iter) /\ Added(dest, perm, rows) = iter[1 .. n]
  <2> HIDE DEF iter, Is
  <2> QED
    BY <1>b, <1>8
<1> HIDE DEF iter
<1>10. Unfolds(iter, n, D, base, St)
  BY <1>1, <1>4, <1>6, <1>9 DEF Unfolds
<1>11. Traces(OnPrefixes(iter, n), n, D, base, St) /\ OnPrefixes(iter, n)[n] = iter[1 .. n]
  BY <1>10, FoldTrace
<1> DEFINE T == OnPrefixes(iter, n)
<1> HIDE DEF T
<1>12. /\ T \in [0 .. n -> D] /\ T[0] = base /\ Added(dest, perm, rows) = T[n]
       /\ \A k \in 1 .. n : T[k] = Op(T[k - 1], k)
  <2>1. \A k \in 1 .. n : k - 1 \in 0 .. n
    BY <1>1
  <2> QED
    BY <1>6a, <1>9, <1>11, <2>1 DEF Traces, T
<1>13. \A k \in 1 .. n : Matrix(T[k - 1], m0) => WritesOne(T[k - 1], T[k], perm[k], rows[k], TRUE)
  BY <1>3, <1>12
<1>14. Matrix(T[0], m0)
  BY <1>12 DEF base
<1> DEFINE xs == rows
<1>15. \A k \in 1 .. n : Matrix(T[k - 1], m0) => WritesOne(T[k - 1], T[k], perm[k], xs[k], TRUE)
  BY <1>13
<1>16. Written(T[n], T[0], m0, perm, n, xs, TRUE)
  <2> HIDE DEF xs
  <2> QED
    BY <1>1, <1>14, <1>15, Writes DEF n
<1> QED
  BY <1>12, <1>16 DEF base, n

(* What has been written leaves no choice.                                 *)
LEMMA WrittenSame ==
  ASSUME NEW t, NEW u, NEW dest, NEW m, NEW p, NEW n, NEW x, NEW add,
         Written(t, dest, m, p, n, x, add), Written(u, dest, m, p, n, x, add)
  PROVE  t = u
<1>1. t = [i \in 1 .. m |-> t[i]] /\ u = [i \in 1 .. m |-> u[i]]
  BY DEF Written, Matrix
<1>2. ASSUME NEW v \in 1 .. m PROVE t[v] = u[v]
  <2>1. CASE \E i \in 1 .. n : p[i] = v
    <3>1. PICK i \in 1 .. n : p[i] = v
      BY <2>1
    <3>2. t[v] = Entry(dest[v], x[i], add) /\ u[v] = Entry(dest[v], x[i], add)
      BY <3>1 DEF Written
    <3> QED
      BY <3>2
  <2>2. CASE \A i \in 1 .. n : p[i] # v
    BY <2>2 DEF Written
  <2> QED
    BY <2>1, <2>2
<1> QED
  BY <1>1, <1>2

(* A receiver's matrix when e rows have come: row i of x at p[i].          *)
Delivered(dest, p, x, e) ==
  [v \in DOMAIN dest |-> IF \E i \in 1 .. e : p[i] = v THEN x[CHOOSE i \in 1 .. e : p[i] = v] ELSE dest[v]]

(* That is what writing them leaves.                                       *)
LEMMA DeliveredIs ==
  ASSUME NEW dest, NEW m, NEW p, NEW x, NEW e, Matrix(dest, m), OneToOne(p, e), e \in Nat
  PROVE  /\ Written(Delivered(dest, p, x, e), dest, m, p, e, x, FALSE)
         /\ Delivered(dest, p, x, 0) = dest
<1> DEFINE t == Delivered(dest, p, x, e)
<1>1. DOMAIN dest = 1 .. m /\ m \in Nat /\ dest = [v \in 1 .. m |-> dest[v]]
  BY MatrixLen DEF Matrix
<1>2. t = [v \in 1 .. m |-> IF \E i \in 1 .. e : p[i] = v THEN x[CHOOSE i \in 1 .. e : p[i] = v] ELSE dest[v]]
  BY <1>1 DEF Delivered
<1> HIDE DEF t
<1>3. Matrix(t, m)
  BY <1>1, <1>2 DEF Matrix
<1>4. ASSUME NEW v \in 1 .. m, NEW i \in 1 .. e, p[i] = v PROVE t[v] = x[i]
  <2> DEFINE j == CHOOSE k \in 1 .. e : p[k] = v
  <2>1. j \in 1 .. e /\ p[j] = v
    BY <1>4
  <2>2. t[v] = x[j]
    BY <1>2, <1>4
  <2> HIDE DEF j
  <2>3. i = j
    BY <1>4, <2>1 DEF OneToOne
  <2> QED
    BY <2>2, <2>3
<1>5. \A v \in 1 .. m : (\A i \in 1 .. e : p[i] # v) => t[v] = dest[v]
  BY <1>2
<1>6. Delivered(dest, p, x, 0) = dest
  <2>1. ASSUME NEW v \in 1 .. m
        PROVE  (IF \E i \in 1 .. 0 : p[i] = v THEN x[CHOOSE i \in 1 .. 0 : p[i] = v] ELSE dest[v]) = dest[v]
    OBVIOUS
  <2> QED
    BY <1>1, <2>1 DEF Delivered
<1> QED
  BY <1>3, <1>4, <1>5, <1>6 DEF Written, Entry, t

(* A part of what is written at different places is, too.                  *)
LEMMA OneToOnePart ==
  ASSUME NEW p, NEW m, NEW q, NEW b, NEW n, OneToOne(p, m), b \in Nat, n \in Nat, m \in Nat, b + n <= m,
         \A i \in 1 .. n : q[i] = p[b + i]
  PROVE  OneToOne(q, n) /\ OneToOne(p, b + n) /\ OneToOne(p, b)
<1>1. OneToOne(p, b + n) /\ OneToOne(p, b)
  <2>1. (\A i \in 1 .. b + n : i \in 1 .. m) /\ (\A i \in 1 .. b : i \in 1 .. m)
    OBVIOUS
  <2> QED
    BY <2>1 DEF OneToOne
<1>2. ASSUME NEW i \in 1 .. n, NEW j \in 1 .. n, q[i] = q[j], q[i] # 0 PROVE i = j
  <2> DEFINE x == b + i
             y == b + j
  <2>1. x \in 1 .. m /\ y \in 1 .. m
    OBVIOUS
  <2>2. p[x] = p[y] /\ p[x] # 0
    BY <1>2
  <2>3. x = y => i = j
    OBVIOUS
  <2> HIDE DEF x, y
  <2>4. x = y
    BY <2>1, <2>2 DEF OneToOne
  <2> QED
    BY <2>3, <2>4
<1> QED
  BY <1>1, <1>2 DEF OneToOne

(* Receiving a chunk.                                                      *)
LEMMA DeliveredChunk ==
  ASSUME NEW dest, NEW m0, NEW p, NEW x, NEW m, NEW b, NEW n, NEW q, NEW y,
         Matrix(dest, m0), OneToOne(p, m), m \in Nat, b \in Nat, n \in Nat, b + n <= m,
         Matrix(q, n), \A i \in 1 .. n : q[i] = p[b + i] /\ y[i] = x[b + i]
  PROVE  Placed(Delivered(dest, p, x, b), q, y) = Delivered(dest, p, x, b + n)
<1> DEFINE t == Delivered(dest, p, x, b)
           u == Placed(t, q, y)
           e == b + n
<1>1. OneToOne(q, n) /\ OneToOne(p, e) /\ OneToOne(p, b) /\ e \in Nat
  <2>1. \A i \in 1 .. n : q[i] = p[b + i]
    OBVIOUS
  <2>2. OneToOne(q, n) /\ OneToOne(p, b + n) /\ OneToOne(p, b)
    BY <2>1, OneToOnePart, ZenonT(60)
  <2> QED
    BY <2>2
<1>2. Written(t, dest, m0, p, b, x, FALSE)
  BY <1>1, DeliveredIs
<1> HIDE DEF t
<1>3. Written(u, t, m0, q, n, y, FALSE)
  <2>1. Matrix(t, m0)
    BY <1>2 DEF Written
  <2> QED
    BY <1>1, <2>1, PlacedIs
<1> HIDE DEF u
<1>4. ASSUME NEW v \in 1 .. m0, NEW i \in 1 .. e, p[i] = v PROVE u[v] = x[i]
  <2>1. CASE i <= b
    <3>1. i \in 1 .. b /\ p[i] # 0 /\ i \in 1 .. m
      BY <1>4, <2>1
    <3>2. ASSUME NEW j \in 1 .. n PROVE q[j] # v
      <4> DEFINE z == b + j
      <4>1. z \in 1 .. m /\ z # i
        BY <3>1
      <4>2. q[j] = p[z]
        OBVIOUS
      <4> HIDE DEF z
      <4> QED
        BY <1>4, <3>1, <4>1, <4>2 DEF OneToOne
    <3>3. u[v] = t[v] /\ t[v] = x[i]
      BY <1>2, <1>3, <1>4, <3>1, <3>2 DEF Written, Entry
    <3> QED
      BY <3>3
  <2>2. CASE ~ i <= b
    <3> DEFINE j == i - b
    <3>1. j \in 1 .. n /\ b + j = i
      BY <2>2
    <3>2. q[j] = v /\ y[j] = x[i]
      BY <1>4, <3>1
    <3> HIDE DEF j
    <3> QED
      BY <1>3, <3>1, <3>2 DEF Written, Entry
  <2> QED
    BY <2>1, <2>2
<1>5. ASSUME NEW v \in 1 .. m0, \A i \in 1 .. e : p[i] # v PROVE u[v] = dest[v]
  <2>1. (\A i \in 1 .. b : p[i] # v) /\ (\A i \in 1 .. n : p[b + i] # v)
    BY <1>5
  <2>2. \A i \in 1 .. n : q[i] # v
    BY <2>1
  <2> QED
    BY <1>2, <1>3, <2>1, <2>2 DEF Written
<1>6. Matrix(u, m0)
  BY <1>3 DEF Written
<1>7. Written(u, dest, m0, p, e, x, FALSE)
  BY <1>4, <1>5, <1>6 DEF Written, Entry
<1>8. Written(Delivered(dest, p, x, e), dest, m0, p, e, x, FALSE)
  BY <1>1, DeliveredIs
<1>9. u = Delivered(dest, p, x, e)
  <2> DEFINE w == Delivered(dest, p, x, e)
  <2> HIDE DEF w, e
  <2>1. u = w
    BY <1>7, <1>8, WrittenSame DEF w
  <2> QED
    BY <2>1 DEF w
<1> QED
  BY <1>9 DEF u, t

-----------------------------------------------------------------------------
(* The permutation protocol: the programmer's perm in the order of the     *)
(* shuffle, the sender's rows in that order, masked.                       *)
PermOut(perm, draws, m) == Arranged(perm, draws, m, m)
RowsOut(s, draws, m) == Sending(s, draws, m, m)

(* What they are, row by row, and that the chunks are parts of them.       *)
LEMMA OutIs ==
  ASSUME NEW s, NEW perm, NEW draws, NEW m, m \in Nat \ {0}, \A i \in 1 .. m : draws[i] \in Nat
  PROVE  /\ Matrix(PermOut(perm, draws, m), m) /\ Matrix(RowsOut(s, draws, m), m)
         /\ \A i \in 1 .. m : /\ PermOut(perm, draws, m)[i] = perm[Order(draws, m)[i]]
                              /\ RowsOut(s, draws, m)[i] = Xor(s[Order(draws, m)[i]], Mask(i))
         /\ OneToOne(perm, m) => OneToOne(PermOut(perm, draws, m), m)
<1> DEFINE o == Order(draws, m)
           P == PermOut(perm, draws, m)
           X == RowsOut(s, draws, m)
<1>1. o \in Orders(m) /\ o \in [1 .. m -> 1 .. m]
  <2>1. m \in 0 .. m
    OBVIOUS
  <2> QED
    BY <2>1, OrderIs
<1>2. Shuffled(draws, m)[m] = o
  BY DEF Order
<1>3. P = [i \in 1 .. m |-> perm[o[i]]]
  BY <1>2 DEF PermOut, Arranged
<1>4. X = [i \in 1 .. m |-> IF i <= m THEN Xor(s[o[i]], Mask(i)) ELSE s[o[i]]]
  BY <1>2 DEF RowsOut, Sending, Arranged
<1> HIDE DEF o, P, X
<1>5. \A i \in 1 .. m : X[i] = Xor(s[o[i]], Mask(i))
  BY <1>4
<1>6. Matrix(P, m) /\ Matrix(X, m)
  BY <1>3, <1>4 DEF Matrix
<1>7. ASSUME OneToOne(perm, m), NEW i \in 1 .. m, NEW j \in 1 .. m, P[i] = P[j], P[i] # 0 PROVE i = j
  <2>1. o[i] = o[j]
    BY <1>1, <1>3, <1>7 DEF OneToOne
  <2> QED
    BY <1>1, <2>1 DEF Orders
<1>8. OneToOne(perm, m) => OneToOne(P, m)
  BY <1>7 DEF OneToOne
<1> QED
  BY <1>3, <1>5, <1>6, <1>8 DEF o, P, X

(* The chunks that travel are parts of them.                               *)
LEMMA ChunksOut ==
  ASSUME NEW s, NEW perm, NEW draws, NEW m, NEW c, m \in Nat \ {0}, c \in 1 .. Chunks(m),
         \A i \in 1 .. m : draws[i] \in Nat
  PROVE  /\ Matrix(PermSent(perm, draws, m, c), ChunkLen(m, c))
         /\ \A i \in 1 .. ChunkLen(m, c) :
              /\ PermSent(perm, draws, m, c)[i] = PermOut(perm, draws, m)[(c - 1) * Step + i]
              /\ RowsSent(s, draws, m, c)[i] = RowsOut(s, draws, m)[(c - 1) * Step + i]
<1> DEFINE b == (c - 1) * Step
           n == ChunkLen(m, c)
           o == Order(draws, m)
           P == PermOut(perm, draws, m)
           X == RowsOut(s, draws, m)
<1>1. b \in Nat /\ n \in Nat /\ b + n <= m
  BY ChunksFacts
<1>2. \A i \in 1 .. m : P[i] = perm[o[i]] /\ X[i] = Xor(s[o[i]], Mask(i))
  <2>1. /\ Matrix(PermOut(perm, draws, m), m) /\ Matrix(RowsOut(s, draws, m), m)
        /\ \A i \in 1 .. m : /\ PermOut(perm, draws, m)[i] = perm[Order(draws, m)[i]]
                            /\ RowsOut(s, draws, m)[i] = Xor(s[Order(draws, m)[i]], Mask(i))
    <3> HIDE DEF b, n, o, P, X
    <3> QED
      BY OutIs, SMTT(60)
  <2> QED
    BY <2>1
<1>3. PermSent(perm, draws, m, c) = [i \in 1 .. n |-> perm[o[b + i]]]
  BY DEF PermSent
<1>4. RowsSent(s, draws, m, c) = [i \in 1 .. n |-> Xor(s[o[b + i]], Mask(b + i))]
  BY DEF RowsSent
<1> HIDE DEF b, n, o, P, X
<1>5. \A i \in 1 .. n : b + i \in 1 .. m
  BY <1>1
<1>6. Matrix(PermSent(perm, draws, m, c), n)
  BY <1>1, <1>3 DEF Matrix
<1>7. \A i \in 1 .. n : PermSent(perm, draws, m, c)[i] = P[b + i] /\ RowsSent(s, draws, m, c)[i] = X[b + i]
  BY <1>2, <1>3, <1>4, <1>5
<1> QED
  BY <1>6, <1>7 DEF b, n, P, X

(* Row n of what is sent is shared between the two destinations at perm[n],*)
(* added to what the programmer had there or in its place.                 *)
LEMMA Permuted ==
  ASSUME NEW s, NEW perm, NEW draws, NEW m, NEW dest0, NEW dest1, NEW z, NEW add, NEW n,
         m \in Nat \ {0}, \A i \in 1 .. m : draws[i] \in Nat, OneToOne(perm, m),
         Matrix(dest0, z), Matrix(dest1, z), n \in 1 .. m, perm[n] \in 1 .. z, add \in BOOLEAN
  PROVE  Xor(Unmasked(dest0, PermOut(perm, draws, m), add)[perm[n]],
             Delivered(dest1, PermOut(perm, draws, m), RowsOut(s, draws, m), m)[perm[n]])
           = IF add THEN Xor(dest0[perm[n]], s[n]) ELSE s[n]
<1> DEFINE P == PermOut(perm, draws, m)
           X == RowsOut(s, draws, m)
           U == Unmasked(dest0, P, add)
           V == Delivered(dest1, P, X, m)
           o == Order(draws, m)
           v == perm[n]
           M == [i \in 1 .. m |-> Mask(i)]
<1>1. /\ Matrix(P, m) /\ OneToOne(P, m)
      /\ \A i \in 1 .. m : P[i] = perm[o[i]] /\ X[i] = Xor(s[o[i]], Mask(i))
  BY OutIs
<1>2. PICK i \in 1 .. m : o[i] = n
  <2>1. m \in 0 .. m
    OBVIOUS
  <2>2. o \in Orders(m)
    BY <2>1, OrderIs
  <2> QED
    BY <2>2 DEF Orders
<1> HIDE DEF P, X, o
<1>3. Written(U, dest0, z, P, m, M, add)
  BY <1>1, UnmaskedIs
<1>4. Written(V, dest1, z, P, m, X, FALSE)
  BY <1>1, DeliveredIs
<1>5. P[i] = v /\ X[i] = Xor(s[n], Mask(i)) /\ M[i] = Mask(i) /\ v \in 1 .. z
  BY <1>1, <1>2
<1> HIDE DEF U, V, M, v
<1>6. U[v] = Entry(dest0[v], Mask(i), add) /\ V[v] = Xor(s[n], Mask(i))
  <2>1. U[v] = Entry(dest0[v], M[i], add)
    BY <1>3, <1>5 DEF Written
  <2>2. V[v] = Entry(dest1[v], X[i], FALSE)
    BY <1>4, <1>5 DEF Written
  <2> QED
    BY <1>5, <2>1, <2>2 DEF Entry
<1>7. Xor(U[v], V[v]) = IF add THEN Xor(dest0[v], s[n]) ELSE s[n]
  BY <1>6, XorMasked DEF Entry
<1> QED
  BY <1>7 DEF U, V, v, P, X

(* The sum of the two shares there: the programmer's, added to what it had *)
(* or in its place, and the receiver's.                                    *)
SumAdd(s, perm, draws, m, dest0, dest1, n) ==
  Xor(Unmasked(dest0, PermOut(perm, draws, m), TRUE)[perm[n]],
      Delivered(dest1, PermOut(perm, draws, m), RowsOut(s, draws, m), m)[perm[n]])
SumOver(s, perm, draws, m, dest0, dest1, n) ==
  Xor(Unmasked(dest0, PermOut(perm, draws, m), FALSE)[perm[n]],
      Delivered(dest1, PermOut(perm, draws, m), RowsOut(s, draws, m), m)[perm[n]])

(* Added to what the programmer had, or in its place.                      *)
Permutes(perm, draws, m, dest0, dest1, z) ==
  /\ m \in Nat \ {0} /\ OneToOne(perm, m) /\ \A i \in 1 .. m : draws[i] \in Nat
  /\ Matrix(dest0, z) /\ Matrix(dest1, z)

(* Row n of the sender is what they share.                                 *)
LEMMA PermutedAdd ==
  ASSUME NEW s, NEW perm, NEW draws, NEW m, NEW dest0, NEW dest1, NEW z, NEW n,
         Permutes(perm, draws, m, dest0, dest1, z), n \in 1 .. m, perm[n] \in 1 .. z
  PROVE  SumAdd(s, perm, draws, m, dest0, dest1, n) = Xor(dest0[perm[n]], s[n])
<1> DEFINE add == TRUE
           u(b) == Xor(Unmasked(dest0, PermOut(perm, draws, m), b)[perm[n]],
                       Delivered(dest1, PermOut(perm, draws, m), RowsOut(s, draws, m), m)[perm[n]])
<1>1. add \in BOOLEAN
  OBVIOUS
<1> HIDE DEF add
<1>2. Xor(Unmasked(dest0, PermOut(perm, draws, m), add)[perm[n]],
             Delivered(dest1, PermOut(perm, draws, m), RowsOut(s, draws, m), m)[perm[n]])
           = IF add THEN Xor(dest0[perm[n]], s[n]) ELSE s[n]
  BY <1>1, Permuted DEF Permutes
<1>3. u(add) = IF add THEN Xor(dest0[perm[n]], s[n]) ELSE s[n]
  BY <1>2
<1> HIDE DEF u
<1>4. u(TRUE) = Xor(dest0[perm[n]], s[n])
  BY <1>3 DEF add
<1> QED
  BY <1>4 DEF u, SumAdd

(* Likewise when the programmer had nothing there.                         *)
LEMMA PermutedOver ==
  ASSUME NEW s, NEW perm, NEW draws, NEW m, NEW dest0, NEW dest1, NEW z, NEW n,
         Permutes(perm, draws, m, dest0, dest1, z), n \in 1 .. m, perm[n] \in 1 .. z
  PROVE  SumOver(s, perm, draws, m, dest0, dest1, n) = s[n]
<1> DEFINE add == FALSE
           u(b) == Xor(Unmasked(dest0, PermOut(perm, draws, m), b)[perm[n]],
                       Delivered(dest1, PermOut(perm, draws, m), RowsOut(s, draws, m), m)[perm[n]])
<1>1. add \in BOOLEAN
  OBVIOUS
<1> HIDE DEF add
<1>2. Xor(Unmasked(dest0, PermOut(perm, draws, m), add)[perm[n]],
             Delivered(dest1, PermOut(perm, draws, m), RowsOut(s, draws, m), m)[perm[n]])
           = IF add THEN Xor(dest0[perm[n]], s[n]) ELSE s[n]
  BY <1>1, Permuted DEF Permutes
<1>3. u(add) = IF add THEN Xor(dest0[perm[n]], s[n]) ELSE s[n]
  BY <1>2
<1> HIDE DEF u
<1>4. u(FALSE) = s[n]
  BY <1>3 DEF add
<1> QED
  BY <1>4 DEF u, SumOver

(* As many values as there are rows: no value is there twice.              *)
LEMMA HitsAll ==
  ASSUME NEW f, NEW n, Matrix(f, n), \A v \in 1 .. n : \E i \in 1 .. n : f[i] = v
  PROVE  f \in [1 .. n -> 1 .. n] /\ OneToOne(f, n)
<1> DEFINE A == 1 .. n
           S == {f[i] : i \in 1 .. n}
<1>1. n \in Nat /\ f = [i \in A |-> f[i]]
  BY DEF Matrix
<1>2. IsFiniteSet(A) /\ Cardinality(A) = n
  <2>1. 1 \in Int /\ n \in Int
    BY <1>1
  <2> QED
    BY <1>1, <2>1, FS_Interval
<1>3. f \in Surjection(A, S)
  <2>1. f \in [A -> S]
    BY <1>1
  <2>2. \A v \in S : \E i \in A : f[i] = v
    OBVIOUS
  <2> HIDE DEF A, S
  <2> QED
    BY <2>1, <2>2 DEF Surjection
<1>4. A \in SUBSET S
  OBVIOUS
<1> HIDE DEF A, S
<1>5. IsFiniteSet(S) /\ Cardinality(S) <= n /\ (Cardinality(S) = n <=> f \in Injection(A, S))
  BY <1>2, <1>3, FS_Surjection
<1>6. n <= Cardinality(S) /\ (n = Cardinality(S) => S = A)
  BY <1>2, <1>4, <1>5, FS_Subset
<1>7. Cardinality(S) \in Nat
  BY <1>5, FS_CardinalityType
<1>8. Cardinality(S) = n /\ S = A /\ f \in Injection(A, S)
  BY <1>1, <1>5, <1>6, <1>7
<1>9. f \in [A -> A] /\ \A i, j \in A : f[i] = f[j] => i = j
  BY <1>8 DEF Injection, IsInjective
<1> QED
  BY <1>9 DEF OneToOne, A

(* The database's right table.                                             *)
RightFacts ==
  /\ Len(db.right) \in Nat /\ DOMAIN db.right = 1 .. Len(db.right) /\ Len(db.right) <= db.bins
  /\ db.place \in [1 .. Len(db.right) -> 1 .. db.bins]
  /\ \A i, j \in 1 .. Len(db.right) : db.place[i] = db.place[j] => i = j
  /\ EmptyBins \subseteq 1 .. db.bins /\ IsFiniteSet(EmptyBins)
  /\ Cardinality(EmptyBins) = db.bins - Len(db.right)
  /\ \A b \in 1 .. db.bins : b \in EmptyBins <=> \A r \in 1 .. Len(db.right) : db.place[r] # b

(* As many bins stay empty as the table has rows less than there are bins. *)
LEMMA RightIs ==
  ASSUME db \in Databases, DbFacts
  PROVE  RightFacts
<1> DEFINE R == Len(db.right)
           B == db.bins
           E == EmptyBins
           Occ == {db.place[r] : r \in 1 .. R}
<1>1. /\ db.right \in Seq(Nat) /\ db.place \in [DOMAIN db.right -> 1 .. B]
      /\ \A i, j \in DOMAIN db.right : db.place[i] = db.place[j] => i = j
  BY DatabasesAssumption
<1>2. R \in Nat /\ DOMAIN db.right = 1 .. R
  BY <1>1, LenProperties
<1>3. B \in Nat
  BY DEF DbFacts
<1>4. E = {b \in 1 .. B : \A r \in 1 .. R : db.place[r] # b}
  BY <1>2, Zenon DEF EmptyBins, InBin
<1> DEFINE f == db.place
           U == 1 .. B
           D == 1 .. R
<1>5. f \in [D -> U] /\ \A i, j \in D : f[i] = f[j] => i = j
  BY <1>1, <1>2
<1>6. /\ IsFiniteSet(U) /\ Cardinality(U) = B
      /\ IsFiniteSet(D) /\ Cardinality(D) = R
  <2>1. 1 \in Int /\ B \in Int /\ R \in Int
    BY <1>2, <1>3
  <2>2. IsFiniteSet(1 .. B) /\ Cardinality(1 .. B) = IF 1 > B THEN 0 ELSE B - 1 + 1
    BY <2>1, FS_Interval
  <2>3. IsFiniteSet(1 .. R) /\ Cardinality(1 .. R) = IF 1 > R THEN 0 ELSE R - 1 + 1
    BY <2>1, FS_Interval
  <2> HIDE DEF B, R
  <2> QED
    BY <1>2, <1>3, <2>2, <2>3
<1>7. f \in Injection(D, U)
  <2> HIDE DEF f, D, U
  <2> QED
    BY <1>5 DEF Injection, IsInjective
<1>8. f \in Surjection(D, Occ) /\ f \in Injection(D, Occ) /\ Occ \in SUBSET U
  <2>1. f \in [D -> Occ] /\ \A v \in Occ : \E i \in D : f[i] = v
    BY <1>5
  <2>2. Occ \in SUBSET U
    BY <1>5
  <2> HIDE DEF f, D, U, Occ
  <2> QED
    BY <1>5, <2>1, <2>2 DEF Injection, IsInjective, Surjection
<1>9. R <= B
  <2> HIDE DEF f, D, U, R, B
  <2> QED
    BY <1>6, <1>7, FS_Injection
<1>10. E = U \ Occ
  BY <1>4
<1>11. IsFiniteSet(Occ) /\ Cardinality(Occ) = R
  <2> HIDE DEF f, D, U, Occ, R, B
  <2> QED
    BY <1>6, <1>8, FS_Surjection
<1>12. IsFiniteSet(E) /\ Cardinality(E) = B - R
  <2> HIDE DEF f, D, U, Occ, R, B, E
  <2>1. U \cap Occ = Occ
    BY <1>8
  <2> QED
    BY <1>6, <1>10, <1>11, <2>1, FS_Difference
<1>13. E \subseteq 1 .. B /\ \A b \in 1 .. B : b \in E <=> \A r \in 1 .. R : f[r] # b
  BY <1>4
<1> HIDE DEF E, Occ
<1> QED
  BY <1>2, <1>5, <1>9, <1>12, <1>13 DEF RightFacts, E

(* cuckooHash's permutation fills every bin, each with one row.            *)
LEMMA CuckooIs ==
  ASSUME db \in Databases, DbFacts
  PROVE  /\ Matrix(CuckooPerm, db.bins) /\ OneToOne(CuckooPerm, db.bins)
         /\ CuckooPerm \in [1 .. db.bins -> 1 .. db.bins]
         /\ \A r \in 1 .. Len(db.right) : CuckooPerm[r] = db.place[r]
         /\ \A b \in 1 .. db.bins : \E n \in 1 .. db.bins : CuckooPerm[n] = b
<1> DEFINE R == Len(db.right)
           B == db.bins
           E == EmptyBins
           f == CuckooPerm
<1>0. RightFacts
  BY RightIs
<1>1. B \in Nat /\ R \in Nat /\ R <= B /\ DOMAIN db.right = 1 .. R
  BY <1>0 DEF DbFacts, RightFacts
<1>2. f = [n \in 1 .. B |-> IF n \in 1 .. R THEN db.place[n] ELSE NthEmpty(n - R)]
  BY <1>1 DEF CuckooPerm
<1>3. Matrix(f, B)
  BY <1>1, <1>2 DEF Matrix
<1>4. ASSUME NEW b \in 1 .. B PROVE \E n \in 1 .. B : f[n] = b
  <2>1. CASE b \notin E
    <3>1. PICK r \in 1 .. R : db.place[r] = b
      BY <1>0, <2>1 DEF RightFacts
    <3>2. r \in 1 .. B
      BY <1>1
    <3> QED
      BY <1>2, <3>1, <3>2
  <2>2. CASE b \in E
    <3> DEFINE k == Cardinality(UpTo(E, b))
    <3>1. E \subseteq 1 .. B /\ Cardinality(E) = B - R
      BY <1>0 DEF RightFacts
    <3> HIDE DEF E, B, R
    <3>2. k \in 1 .. B - R /\ \A c \in E : Cardinality(UpTo(E, c)) = k => c = b
      BY <1>1, <2>2, <3>1, RankIs
    <3>3. NthEmpty(k) = CHOOSE x \in E : Cardinality(UpTo(E, x)) = k
      BY DEF NthEmpty, UpTo, E
    <3>4. NthEmpty(k) = b
      <4> HIDE DEF k
      <4>1. Cardinality(UpTo(E, b)) = k
        BY DEF k
      <4> QED
        BY <2>2, <3>2, <3>3, <4>1
    <3> HIDE DEF k
    <3> DEFINE n == R + k
    <3>5. n \in 1 .. B /\ n \notin 1 .. R /\ n - R = k
      BY <1>1, <3>2
    <3> HIDE DEF n
    <3>6. f[n] = b
      BY <1>2, <3>4, <3>5
    <3> QED
      BY <3>5, <3>6
  <2> QED
    BY <2>1, <2>2
<1>5. \A r \in 1 .. R : f[r] = db.place[r]
  BY <1>1, <1>2
<1> HIDE DEF f, R, B
<1>6. f \in [1 .. B -> 1 .. B] /\ OneToOne(f, B)
  BY <1>3, <1>4, HitsAll
<1> QED
  BY <1>3, <1>4, <1>5, <1>6 DEF f, R, B

(* Server 0's and server 1's shares of the cuckoo table.                   *)
CuckooOut == PermOut(CuckooPerm, db.draws, db.bins)
RightOut == RowsOut(FirstTable(2), db.draws, db.bins)
Tab0 == Unmasked(FirstTable(0), CuckooOut, TRUE)
Tab1 == Delivered(FirstTable(1), CuckooOut, RightOut, db.bins)

(* What the shares of the bins are at first.                               *)
LEMMA FirstTablesAre ==
  ASSUME DbFacts
  PROVE  Matrix(FirstTable(0), db.bins) /\ Matrix(FirstTable(1), db.bins) /\ Matrix(FirstTable(2), db.bins)
<1>1. db.bins \in Nat
  BY DEF DbFacts
<1>2. FirstTable(0) = [b \in 1 .. db.bins |-> UNION {Share0(r) : r \in InBin(b)}]
  BY DEF FirstTable
<1>3. FirstTable(1) = Filled(db.bins, {})
  BY DEF FirstTable
<1>4. FirstTable(2) = [b \in 1 .. db.bins |-> IF b \in DOMAIN db.right THEN Xor(RightRow(b), Share0(b)) ELSE {}]
  BY DEF FirstTable
<1>5. Matrix(FirstTable(0), db.bins)
  BY <1>1, <1>2 DEF Matrix
<1>6. Matrix(FirstTable(1), db.bins)
  BY <1>1, <1>3 DEF Matrix, Filled
<1>7. Matrix(FirstTable(2), db.bins)
  BY <1>1, <1>4 DEF Matrix
<1> QED
  BY <1>5, <1>6, <1>7

(* They add up to the table with every right row in its bin.               *)
LEMMA TableAdds ==
  ASSUME db \in Databases, DbFacts
  PROVE  /\ Matrix(Tab0, db.bins) /\ Matrix(Tab1, db.bins)
         /\ \A b \in 1 .. db.bins : Xor(Tab0[b], Tab1[b]) = TableRow(b)
<1> DEFINE B == db.bins
           draws == db.draws
           F0 == FirstTable(0)
           F1 == FirstTable(1)
           F2 == FirstTable(2)
           cp == CuckooPerm
           P == PermOut(cp, draws, B)
           X == RowsOut(F2, draws, B)
           t0 == Unmasked(F0, P, TRUE)
           t1 == Delivered(F1, P, X, B)
           R == Len(db.right)
<1>1. B \in Nat \ {0} /\ \A i \in 1 .. B : draws[i] \in Nat
  BY DEF DbFacts
<1>2. /\ Matrix(cp, B) /\ OneToOne(cp, B) /\ cp \in [1 .. B -> 1 .. B]
      /\ \A r \in 1 .. R : cp[r] = db.place[r]
      /\ \A b \in 1 .. B : \E n \in 1 .. B : cp[n] = b
  BY CuckooIs
<1>3. Matrix(F0, B) /\ Matrix(F1, B) /\ Matrix(F2, B)
  BY FirstTablesAre
<1>4. RightFacts
  BY RightIs
<1>5. R \in Nat /\ R <= B /\ DOMAIN db.right = 1 .. R
  BY <1>4 DEF RightFacts
<1>6. \A b \in 1 .. B : F0[b] = UNION {Share0(r) : r \in InBin(b)}
  BY DEF FirstTable
<1>7. \A n \in 1 .. B : F2[n] = IF n \in 1 .. R THEN Xor(RightRow(n), Share0(n)) ELSE {}
  BY <1>5 DEF FirstTable
<1>8. \A b : InBin(b) = {r \in 1 .. R : db.place[r] = b}
  BY <1>5 DEF InBin
<1>t. Tab0 = t0 /\ Tab1 = t1
  BY DEF Tab0, Tab1, CuckooOut, RightOut
<1> HIDE DEF B, draws, F0, F1, F2, cp, R
<1>9. Matrix(P, B) /\ OneToOne(P, B)
  BY <1>1, <1>2, OutIs
<1>p. \A n \in 1 .. B : Xor(t0[cp[n]], t1[cp[n]]) = Xor(F0[cp[n]], F2[n])
  <2> SUFFICES ASSUME NEW n \in 1 .. B PROVE Xor(t0[cp[n]], t1[cp[n]]) = Xor(F0[cp[n]], F2[n])
    OBVIOUS
  <2>1. cp[n] \in 1 .. B
    BY <1>2
  <2>2. SumAdd(F2, cp, draws, B, F0, F1, n) = Xor(F0[cp[n]], F2[n])
    <3>1. Permutes(cp, draws, B, F0, F1, B)
      BY <1>1, <1>2, <1>3 DEF Permutes
    <3> QED
      BY <2>1, <3>1, PermutedAdd
  <2> QED
    BY <2>2 DEF SumAdd
<1> HIDE DEF P, X
<1>10. Matrix(t0, B)
  BY <1>3, <1>9, UnmaskedKeeps
<1>11. Matrix(t1, B)
  <2>1. B \in Nat
    BY <1>1
  <2> QED
    BY <1>3, <1>9, <2>1, DeliveredIs DEF Written
<1>12. ASSUME NEW b \in 1 .. B PROVE Xor(t0[b], t1[b]) = TableRow(b)
  <2>1. PICK n \in 1 .. B : cp[n] = b
    BY <1>2
  <2>2. Xor(t0[b], t1[b]) = Xor(F0[b], F2[n])
    BY <1>p, <2>1
  <2>3. CASE n \in 1 .. R
    <3>1. InBin(b) = {n}
      <4>1. db.place[n] = b
        BY <1>2, <2>1, <2>3
      <4>2. \A r \in 1 .. R : db.place[r] = b => r = n
        BY <1>4, <2>3, <4>1 DEF RightFacts, R
      <4> QED
        BY <1>8, <2>3, <4>1, <4>2
    <3>2. F0[b] = Share0(n) /\ TableRow(b) = RightRow(n)
      <4>1. F0[b] = UNION {Share0(r) : r \in {n}} /\ TableRow(b) = UNION {RightRow(r) : r \in {n}}
        BY <1>6, <3>1 DEF TableRow
      <4> QED
        BY <4>1, Zenon
    <3>3. F2[n] = Xor(RightRow(n), Share0(n))
      BY <1>7, <2>3
    <3>4. Xor(Share0(n), Xor(RightRow(n), Share0(n))) = RightRow(n)
      BY XorMasked
    <3> QED
      BY <2>2, <3>2, <3>3, <3>4
  <2>4. CASE n \notin 1 .. R
    <3>1. InBin(b) = {}
      <4>1. ASSUME NEW r \in 1 .. R, db.place[r] = b PROVE FALSE
        <5>0. cp[r] = b
          BY <1>2, <4>1
        <5>1. r \in 1 .. B /\ cp[r] = b /\ b # 0
          BY <1>1, <1>5, <5>0
        <5>2. r = n
          BY <1>2, <2>1, <5>1 DEF OneToOne
        <5> QED
          BY <2>4, <5>2
      <4> QED
        BY <1>8, <4>1
    <3>2. F0[b] = {} /\ TableRow(b) = {}
      <4>1. F0[b] = UNION {Share0(r) : r \in {}} /\ TableRow(b) = UNION {RightRow(r) : r \in {}}
        BY <1>6, <3>1 DEF TableRow
      <4> QED
        BY <4>1
    <3>3. F2[n] = {}
      BY <1>7, <2>4
    <3> QED
      BY <2>2, <3>2, <3>3, XorFacts
  <2> QED
    BY <2>3, <2>4
<1> HIDE DEF t0, t1
<1> QED
  BY <1>10, <1>11, <1>12, <1>t DEF B

(* The last permutation is an order of the left rows, and switch n is that *)
(* of row FinalPerm(h)[n].                                                 *)
LEMMA FinalIs ==
  ASSUME db \in Databases, DbFacts, NEW h \in 1 .. 3
  PROVE  /\ Matrix(FinalPerm(h), Rows) /\ FinalPerm(h) \in Orders(Rows) /\ FinalPerm(h) \in [1 .. Rows -> 1 .. Rows]
         /\ \A n \in 1 .. Rows : /\ Sorted(h)[n].mSrc = Positions(FinalPerm(h)[n])[h]
                                 /\ Sorted(h)[n].mSrc \in 1 .. db.bins
<1> DEFINE m == Rows
           f == FinalPerm(h)
           sw == Sorted(h)
           Pos(i) == Positions(i)[h]
<1>1. DOMAIN db.left = 1 .. m /\ m \in Nat
  BY DEF DbFacts
<1>2. \A i \in 1 .. m : Pos(i) \in 1 .. db.bins
  BY PositionsIn
<1>3. PICK o \in Orders(m) : sw = [i \in 1 .. m |-> Switches(h)[o[i]]]
  BY SortedIs DEF Rearranges
<1>4. o \in [1 .. m -> 1 .. m]
  BY DEF Orders
<1>5. Switches(h) = [i \in 1 .. m |-> [mSrc |-> Pos(i), mDest |-> i]]
  BY <1>1 DEF Switches
<1>6. f = [i \in 1 .. m |-> sw[i].mDest]
  BY <1>1 DEF FinalPerm
<1> HIDE DEF m, f, sw, Pos
<1>7. \A i \in 1 .. m : sw[i] = [mSrc |-> Pos(o[i]), mDest |-> o[i]]
  BY <1>3, <1>4, <1>5
<1>7a. ASSUME NEW i \in 1 .. m PROVE sw[i].mDest = o[i] /\ sw[i].mSrc = Pos(o[i])
  <2> DEFINE a == Pos(o[i])
             b == o[i]
  <2> HIDE DEF a, b
  <2>1. sw[i] = [mSrc |-> a, mDest |-> b]
    BY <1>7 DEF a, b
  <2>2. sw[i].mDest = b /\ sw[i].mSrc = a
    BY <2>1
  <2> QED
    BY <2>2 DEF a, b
<1>8. \A i \in 1 .. m : f[i] = o[i] /\ sw[i].mSrc = Pos(o[i])
  BY <1>6, <1>7a
<1>9. f = o
  BY <1>4, <1>6, <1>8
<1>10. \A i \in 1 .. m : sw[i].mSrc = Pos(f[i]) /\ sw[i].mSrc \in 1 .. db.bins
  BY <1>2, <1>4, <1>8, <1>9
<1>11. Matrix(f, m)
  BY <1>1, <1>6 DEF Matrix
<1> QED
  BY <1>4, <1>9, <1>10, <1>11 DEF m, f, sw, Pos

-----------------------------------------------------------------------------
(* A program of l switches that validate accepts: its sources, in order.   *)
InOrder(sw, l, k) ==
  /\ Matrix(sw, l) /\ k \in Nat /\ \A n \in 1 .. l : sw[n].mSrc \in 1 .. k
  /\ \A i, j \in 1 .. l : i <= j => sw[i].mSrc <= sw[j].mSrc

(* That is what validate says of neighbours.                               *)
LEMMA ValidIs ==
  ASSUME NEW sw, NEW l, NEW k, Matrix(sw, l), k \in Nat, \A n \in 1 .. l : sw[n].mSrc \in 1 .. k, Validate(sw)
  PROVE  InOrder(sw, l, k)
<1> DEFINE src(n) == sw[n].mSrc
           S == {d \in Nat : \A i \in 1 .. l : i + d <= l => src(i) <= src(i + d)}
<1>1. l \in Nat /\ Len(sw) = l
  BY MatrixLen
<1>2. \A n \in 1 .. l : src(n) \in Int
  OBVIOUS
<1>3. \A i \in 2 .. l : src(i - 1) <= src(i)
  BY <1>1 DEF Validate
<1> HIDE DEF src
<1>4. 0 \in S
  BY <1>2
<1>5. \A d \in Nat : d \in S => d + 1 \in S
  <2> SUFFICES ASSUME NEW d \in Nat, d \in S, NEW i \in 1 .. l, i + (d + 1) <= l PROVE src(i) <= src(i + (d + 1))
    OBVIOUS
  <2>1. src(i) <= src(i + d)
    BY <1>1
  <2>2. i + d + 1 \in 2 .. l /\ (i + d + 1) - 1 = i + d /\ i + d \in 1 .. l /\ i + (d + 1) = i + d + 1
    BY <1>1
  <2>3. src(i + d) <= src(i + d + 1)
    BY <1>3, <2>2
  <2>4. src(i) \in Int /\ src(i + d) \in Int /\ src(i + d + 1) \in Int
    BY <1>2, <2>2
  <2> QED
    BY <2>1, <2>2, <2>3, <2>4
<1>6. \A d \in Nat : d \in S
  <2> HIDE DEF S
  <2> QED
    BY <1>4, <1>5, NatInduct
<1>7. ASSUME NEW i \in 1 .. l, NEW j \in 1 .. l, i <= j PROVE src(i) <= src(j)
  <2>1. j - i \in Nat /\ i + (j - i) = j
    BY <1>1, <1>7
  <2>2. j - i \in S
    BY <1>6, <2>1
  <2> QED
    BY <2>1, <2>2
<1> QED
  BY <1>7 DEF InOrder, src

(* A set of numbers from 1 to l that has with a number those before it.    *)
LEMMA PrefixIs ==
  ASSUME NEW l \in Nat, NEW A, A \subseteq 1 .. l, \A i \in A : \A j \in 1 .. i : j \in A
  PROVE  Cardinality(A) \in Nat /\ A = 1 .. Cardinality(A)
<1> DEFINE T == {n \in Nat : n + 1 \notin A}
<1>1. l \in T
  OBVIOUS
<1>2. PICK c \in T : \A y \in T : c <= y
  BY <1>1, LeastNat
<1>3. A \subseteq 1 .. c
  <2> SUFFICES ASSUME NEW i \in A, ~ i <= c PROVE FALSE
    OBVIOUS
  <2>1. c + 1 \in 1 .. i
    OBVIOUS
  <2> QED
    BY <2>1
<1>4. 1 .. c \subseteq A
  <2> SUFFICES ASSUME NEW i \in 1 .. c, i \notin A PROVE FALSE
    OBVIOUS
  <2>1. i - 1 \in Nat /\ (i - 1) + 1 = i /\ ~ c <= i - 1
    OBVIOUS
  <2> QED
    BY <1>2, <2>1
<1>5. A = 1 .. c /\ c \in Nat
  BY <1>3, <1>4
<1>6. Cardinality(1 .. c) = c
  <2>1. 1 \in Int /\ c \in Int /\ c \in Nat
    OBVIOUS
  <2>2. Cardinality(1 .. c) = IF 1 > c THEN 0 ELSE c - 1 + 1
    BY <2>1, FS_Interval
  <2> QED
    BY <2>1, <2>2
<1> QED
  BY <1>5, <1>6

(* nextFree's marks: node is the first switch whose source is not before   *)
(* idx.                                                                    *)
Marked(sw, l, g) == g \in Marks /\ g.idx >= 1 /\ g.node >= 1 /\ \A n \in 1 .. l : sw[n].mSrc < g.idx <=> n < g.node
Used(sw, l, g) == g.node <= l /\ sw[g.node].mSrc = g.idx

(* A step of the search: it stays so, and node moves on.                   *)
LEMMA SkippedIs ==
  ASSUME NEW sw, NEW l, NEW k, NEW g, InOrder(sw, l, k), Marked(sw, l, g)
  PROVE  /\ Marked(sw, l, Skipped(sw, g))
         /\ IF Used(sw, l, g) THEN Skipped(sw, g).node >= g.node + 1 ELSE Skipped(sw, g) = g
<1>1. l \in Nat /\ Len(sw) = l /\ DOMAIN sw = 1 .. l
  BY MatrixLen DEF InOrder
<1>2. g.idx \in Nat /\ g.node \in Nat /\ g.idx >= 1 /\ g.node >= 1
  BY DEF Marked, Marks
<1>3. CASE ~ Used(sw, l, g)
  BY <1>1, <1>3 DEF Skipped, Used
<1>4. CASE Used(sw, l, g)
  <2> DEFINE A == {n \in DOMAIN sw : sw[n].mSrc <= g.idx}
             i == g.idx + 1
             c == Cardinality(A)
             u == [idx |-> i, node |-> 1 + c]
  <2>1. Skipped(sw, g) = u
    BY <1>1, <1>4 DEF Skipped, Used
  <2>2. A \subseteq 1 .. l /\ \A x \in 1 .. l : x \in A <=> sw[x].mSrc <= g.idx
    BY <1>1
  <2>3. \A x \in A : \A j \in 1 .. x : j \in A
    <3> SUFFICES ASSUME NEW x \in A, NEW j \in 1 .. x PROVE j \in A
      OBVIOUS
    <3>1. x \in 1 .. l /\ j \in 1 .. l /\ j <= x
      BY <1>1
    <3>2. sw[j].mSrc <= sw[x].mSrc /\ sw[j].mSrc \in Int /\ sw[x].mSrc \in Int
      BY <3>1 DEF InOrder
    <3> QED
      BY <1>2, <2>2, <3>1, <3>2
  <2>4. c \in Nat /\ A = 1 .. c
    <3> HIDE DEF A
    <3> QED
      BY <1>1, <2>2, <2>3, PrefixIs
  <2>5. g.node \in A
    BY <1>1, <1>2, <1>4, <2>2 DEF Used
  <2> HIDE DEF A, c
  <2>6. g.node <= c
    BY <2>4, <2>5, <1>2
  <2>7. u.idx = i /\ u.node = 1 + c /\ u \in Marks
    BY <1>2, <2>4 DEF Marks
  <2>8. \A n \in 1 .. l : sw[n].mSrc < i <=> n < 1 + c
    <3> SUFFICES ASSUME NEW n \in 1 .. l PROVE sw[n].mSrc < i <=> n < 1 + c
      OBVIOUS
    <3>1. sw[n].mSrc \in Int
      BY DEF InOrder
    <3>2. n \in A <=> sw[n].mSrc <= g.idx
      BY <2>2
    <3>3. n \in A <=> n <= c
      BY <1>1, <2>4
    <3> QED
      BY <1>2, <2>4, <3>1, <3>2, <3>3
  <2> HIDE DEF u
  <2>9. Marked(sw, l, u)
    BY <1>2, <2>4, <2>7, <2>8 DEF Marked
  <2> QED
    BY <1>2, <1>4, <2>1, <2>4, <2>6, <2>7, <2>9
<1> QED
  BY <1>3, <1>4

(* The search as a sequence of steps.                                      *)
SearchSteps(T, sw, n, f) ==
  /\ T \in [0 .. n -> Marks] /\ T[0] = f /\ Search(sw, f) = T[n]
  /\ \A k \in 1 .. n : T[k] = Skipped(sw, T[k - 1])

(* There is one.                                                           *)
LEMMA SearchTrace ==
  ASSUME NEW sw, NEW n0, NEW f, Matrix(sw, n0), f \in Marks
  PROVE  \E T : SearchSteps(T, sw, n0, f)
<1> DEFINE n == n0
           base == f
           D == Marks
           seq == sw
           Op(t, k) == LET i == seq[k] IN Skipped(sw, t)
           St == [x \in D \X (1 .. n) |-> Op(x[1], x[2])]
<1>1. n \in Nat /\ base \in D
  BY MatrixLen
<1>2. \A t \in D : \A k \in 1 .. n : Op(t, k) \in D
  <2> SUFFICES ASSUME NEW t \in Marks PROVE Skipped(sw, t) \in Marks
    OBVIOUS
  <2> DEFINE A == {n1 \in DOMAIN sw : sw[n1].mSrc <= t.idx}
  <2>1. A \subseteq 1 .. n0 /\ n0 \in Nat
    BY MatrixLen
  <2>2. Cardinality(A) \in Nat
    <3> HIDE DEF A
    <3>1. IsFiniteSet(1 .. n0)
      BY <2>1, 1 \in Int, n0 \in Int, FS_Interval
    <3>2. IsFiniteSet(A)
      BY <2>1, <3>1, FS_Subset
    <3> QED
      BY <3>2, FS_CardinalityType
  <2>3. t.idx \in Nat /\ t.node \in Nat
    BY DEF Marks
  <2>4. [idx |-> t.idx + 1, node |-> 1 + Cardinality(A)] \in Marks
    <3> HIDE DEF A
    <3> QED
      BY <2>2, <2>3 DEF Marks
  <2> QED
    BY <2>4 DEF Skipped
<1>3. \A t, k : Op(t, k) = Skipped(sw, t)
  OBVIOUS
<1>a. DOMAIN seq = 1 .. n
  BY MatrixLen
<1> DEFINE Is(G) == G = [s1 \in SUBSET (1 .. n) |-> IF s1 = {} THEN base ELSE Op(G[s1 \ {Max(s1)}], Max(s1))]
           iter == CHOOSE G : Is(G)
<1>b. (\E G : Is(G)) => Is(iter) /\ Search(sw, f) = iter[1 .. n]
  <2>1. (\E G : Is(G)) => Is(iter)
    <3> HIDE DEF Is
    <3> QED
      OBVIOUS
  <2>2. Search(sw, f) = iter[1 .. n]
    BY <1>a, Zenon DEF FoldLeft, MapThenFoldSet, Search, Op, seq, Skipped
  <2> HIDE DEF iter, Is
  <2> QED
    BY <2>1, <2>2
<1> HIDE DEF n, D, Op, base, seq
<1>4. St \in [D \X (1 .. n) -> D]
  BY <1>2
<1>5. \A s1 \in SUBSET (1 .. n) : s1 # {} => Max(s1) \in 1 .. n
  <2> HIDE DEF Max
  <2> QED
    BY <1>1, MaxOfSubset
<1>6. \A G : \A s1 \in SUBSET (1 .. n) : s1 # {} /\ G[s1 \ {Max(s1)}] \in D =>
          St[<<G[s1 \ {Max(s1)}], Max(s1)>>] = Op(G[s1 \ {Max(s1)}], Max(s1))
  <2> HIDE DEF Max
  <2> QED
    BY <1>5
<1>6a. \A t \in D : \A k \in 1 .. n : St[<<t, k>>] = Op(t, k)
  OBVIOUS
<1> HIDE DEF St, Max
<1>7. PICK F \in [SUBSET (1 .. n) -> D] : Folds(F, n, base, St)
  BY <1>1, <1>4, FoldExists
<1>8. Is(F)
  BY <1>6, <1>7 DEF Folds
<1>9. Is(iter) /\ Search(sw, f) = iter[1 .. n]
  <2> HIDE DEF iter, Is
  <2> QED
    BY <1>b, <1>8
<1> HIDE DEF iter
<1>10. Unfolds(iter, n, D, base, St)
  BY <1>1, <1>4, <1>6, <1>9 DEF Unfolds
<1>11. Traces(OnPrefixes(iter, n), n, D, base, St) /\ OnPrefixes(iter, n)[n] = iter[1 .. n]
  BY <1>10, FoldTrace
<1> DEFINE T == OnPrefixes(iter, n)
<1> HIDE DEF T
<1>12. /\ T \in [0 .. n -> D] /\ T[0] = base /\ Search(sw, f) = T[n]
       /\ \A k \in 1 .. n : T[k] = Op(T[k - 1], k)
  <2>1. \A k \in 1 .. n : k - 1 \in 0 .. n
    BY <1>1
  <2> QED
    BY <1>6a, <1>9, <1>11, <2>1 DEF Traces, T
<1>13. \A k \in 1 .. n : T[k] = Skipped(sw, T[k - 1])
  BY <1>3, <1>12
<1> QED
  BY <1>12, <1>13 DEF n, D, base, SearchSteps

(* It ends at a source that no switch uses.                                *)
LEMMA SearchIs ==
  ASSUME NEW sw, NEW l, NEW k, NEW f, InOrder(sw, l, k), Marked(sw, l, f)
  PROVE  /\ Marked(sw, l, Search(sw, f)) /\ \A n \in 1 .. l : sw[n].mSrc # Search(sw, f).idx
         /\ Search(sw, f) \in Marks
<1>1. l \in Nat /\ Len(sw) = l /\ Matrix(sw, l) /\ f \in Marks
  BY MatrixLen DEF InOrder, Marked
<1>1a. PICK T : SearchSteps(T, sw, l, f)
  BY <1>1, SearchTrace
<1>2. /\ T \in [0 .. l -> Marks] /\ T[0] = f /\ Search(sw, f) = T[l]
      /\ \A j \in 1 .. l : T[j] = Skipped(sw, T[j - 1])
  BY <1>1a DEF SearchSteps
<1> DEFINE S == {j \in Nat : j <= l => Marked(sw, l, T[j]) /\ (Used(sw, l, T[j]) => T[j].node >= j + 1)}
<1>3. 0 \in S
  BY <1>1, <1>2 DEF Marked
<1>4. \A j \in Nat : j \in S => j + 1 \in S
  <2> SUFFICES ASSUME NEW j \in Nat, j \in S, j + 1 <= l
               PROVE Marked(sw, l, T[j + 1]) /\ (Used(sw, l, T[j + 1]) => T[j + 1].node >= (j + 1) + 1)
    OBVIOUS
  <2>1. Marked(sw, l, T[j]) /\ (Used(sw, l, T[j]) => T[j].node >= j + 1)
    BY <1>1
  <2>2. T[j + 1] = Skipped(sw, T[j])
    <3>1. j + 1 \in 1 .. l /\ (j + 1) - 1 = j
      BY <1>1
    <3> QED
      BY <1>2, <3>1
  <2>3. /\ Marked(sw, l, Skipped(sw, T[j]))
        /\ IF Used(sw, l, T[j]) THEN Skipped(sw, T[j]).node >= T[j].node + 1 ELSE Skipped(sw, T[j]) = T[j]
    BY <2>1, SkippedIs
  <2>4. T[j].node \in Nat /\ T[j + 1].node \in Nat
    BY <2>1, <2>2, <2>3 DEF Marked, Marks
  <2>5. CASE Used(sw, l, T[j])
    BY <2>1, <2>2, <2>3, <2>4, <2>5
  <2>6. CASE ~ Used(sw, l, T[j])
    BY <2>1, <2>2, <2>3, <2>6
  <2> QED
    BY <2>5, <2>6
<1>5. l \in S
  <2> HIDE DEF S
  <2> QED
    BY <1>1, <1>3, <1>4, NatInduct
<1> DEFINE g == T[l]
<1>6. Marked(sw, l, g) /\ ~ Used(sw, l, g)
  <2>1. Marked(sw, l, g) /\ (Used(sw, l, g) => g.node >= l + 1)
    BY <1>1, <1>5
  <2>2. g.node \in Nat
    BY <2>1 DEF Marked, Marks
  <2> HIDE DEF g
  <2> QED
    BY <1>1, <2>1, <2>2 DEF Used
<1> HIDE DEF g
<1>7. ASSUME NEW n \in 1 .. l, sw[n].mSrc = g.idx PROVE FALSE
  <2>1. g.node \in Nat /\ g.node >= 1 /\ g.idx \in Nat
    BY <1>6 DEF Marked, Marks
  <2>2. ~ n < g.node
    BY <1>6, <1>7, <2>1 DEF Marked
  <2>3. g.node \in 1 .. l /\ g.node <= n
    BY <1>1, <2>1, <2>2
  <2>4. sw[g.node].mSrc <= g.idx
    BY <1>7, <2>3 DEF InOrder
  <2>5. ~ sw[g.node].mSrc < g.idx
    BY <1>6, <2>1, <2>3 DEF Marked
  <2>6. sw[g.node].mSrc \in Int
    BY <2>3 DEF InOrder
  <2>7. sw[g.node].mSrc = g.idx
    BY <2>1, <2>4, <2>5, <2>6
  <2> QED
    BY <1>6, <2>3, <2>7 DEF Used
<1> QED
  BY <1>2, <1>6, <1>7 DEF g, Marked

(* nextFree: the same of what it returns.                                  *)
LEMMA NextFreeIs ==
  ASSUME NEW sw, NEW l, NEW k, NEW f, InOrder(sw, l, k), Marked(sw, l, f)
  PROVE  LET g == NextFree(sw, f)
         IN /\ \A n \in 1 .. l : sw[n].mSrc # g.free
            /\ Marked(sw, l, [idx |-> g.idx, node |-> g.node])
<1> DEFINE s == Search(sw, f)
           g == NextFree(sw, f)
           h == [idx |-> s.idx + 1, node |-> s.node]
<1>1. g = [free |-> s.idx, idx |-> s.idx + 1, node |-> s.node]
  BY Zenon DEF NextFree, Search
<1>2. Marked(sw, l, s) /\ (\A n \in 1 .. l : sw[n].mSrc # s.idx) /\ s \in Marks
  BY SearchIs
<1>3. g.free = s.idx /\ [idx |-> g.idx, node |-> g.node] = h
  BY <1>1
<1> HIDE DEF s, g
<1>4. s.idx \in Nat /\ s.node \in Nat /\ s.idx >= 1 /\ s.node >= 1
  BY <1>2 DEF Marked, Marks
<1>5. h \in Marks /\ h.idx = s.idx + 1 /\ h.node = s.node
  BY <1>4 DEF Marks
<1> HIDE DEF h
<1>6. \A n \in 1 .. l : sw[n].mSrc < h.idx <=> n < h.node
  <2> SUFFICES ASSUME NEW n \in 1 .. l PROVE sw[n].mSrc < h.idx <=> n < h.node
    OBVIOUS
  <2>1. sw[n].mSrc \in Int /\ sw[n].mSrc # s.idx /\ (sw[n].mSrc < s.idx <=> n < s.node)
    BY <1>2 DEF InOrder, Marked
  <2> QED
    BY <1>4, <1>5, <2>1
<1>7. Marked(sw, l, h)
  BY <1>4, <1>5, <1>6 DEF Marked
<1> QED
  BY <1>2, <1>3, <1>7 DEF g

(* The first switch of a source.                                           *)
Starts(sw, n) == ~ (n > 1 /\ sw[n - 1].mSrc = sw[n].mSrc)

(* programSelect after n switches: each of them that starts a source has   *)
(* its number at the source's place, and no number is at two places.       *)
Chosen(sw, l, rows, t, n) ==
  /\ t.perm \in [1 .. rows -> 0 .. n] /\ OneToOne(t.perm, rows)
  /\ Marked(sw, l, t.f)
  /\ \A i \in 1 .. n : Starts(sw, i) => t.perm[sw[i].mSrc] = i

(* Writing the next number keeps that, at the place of a source that starts*)
(* or at one that has not been a source.                                   *)
LEMMA PutNext ==
  ASSUME NEW sw, NEW l, NEW k, NEW rows, NEW t, NEW u, NEW n, NEW p,
         InOrder(sw, l, k), rows \in Nat, k <= rows, n \in 1 .. l,
         Chosen(sw, l, rows, t, n - 1),
         u.perm = [t.perm EXCEPT ![p] = n], Marked(sw, l, u.f),
         \A i \in 1 .. n - 1 : Starts(sw, i) => sw[i].mSrc # p,
         Starts(sw, n) => p = sw[n].mSrc
  PROVE  Chosen(sw, l, rows, u, n)
<1> DEFINE a == t.perm
           b == u.perm
<1>1. /\ l \in Nat /\ n \in Nat /\ n >= 1 /\ k \in Nat
      /\ \A i \in 1 .. l : sw[i].mSrc \in 1 .. rows
  <2>1. \A i \in 1 .. k : i \in 1 .. rows
    BY DEF InOrder
  <2> QED
    BY <2>1, MatrixLen DEF InOrder
<1>2. /\ a \in [1 .. rows -> 0 .. n - 1] /\ OneToOne(a, rows)
      /\ \A i \in 1 .. n - 1 : Starts(sw, i) => a[sw[i].mSrc] = i
  BY DEF Chosen
<1>3. b = [a EXCEPT ![p] = n]
  OBVIOUS
<1> HIDE DEF a, b
<1>4. \A v \in 1 .. rows : b[v] = IF v = p THEN n ELSE a[v]
  BY <1>2, <1>3
<1>5. b \in [1 .. rows -> 0 .. n]
  <2>1. \A v \in 1 .. rows : b[v] \in 0 .. n
    BY <1>1, <1>2, <1>4
  <2>2. b = [v \in 1 .. rows |-> b[v]]
    BY <1>2, <1>3
  <2> QED
    BY <2>1, <2>2
<1>6. OneToOne(b, rows)
  <2> SUFFICES ASSUME NEW x \in 1 .. rows, NEW y \in 1 .. rows, b[x] = b[y], b[x] # 0 PROVE x = y
    BY DEF OneToOne
  <2>1. a[x] \in 0 .. n - 1 /\ a[y] \in 0 .. n - 1
    BY <1>2
  <2>2. a[x] # n /\ a[y] # n
    BY <1>1, <2>1
  <2>3. CASE x = p \/ y = p
    BY <1>4, <2>2, <2>3
  <2>4. CASE x # p /\ y # p
    BY <1>2, <1>4, <2>4 DEF OneToOne
  <2> QED
    BY <2>3, <2>4
<1>7. ASSUME NEW i \in 1 .. n, Starts(sw, i) PROVE b[sw[i].mSrc] = i
  <2>1. i \in 1 .. l
    BY <1>1
  <2>2. sw[i].mSrc \in 1 .. rows
    BY <1>1, <2>1
  <2>3. CASE i = n
    BY <1>4, <1>7, <2>2, <2>3
  <2>4. CASE i # n
    <3>1. i \in 1 .. n - 1
      BY <1>1, <2>4
    <3>2. sw[i].mSrc # p /\ a[sw[i].mSrc] = i
      BY <1>2, <1>7, <3>1
    <3> QED
      BY <1>4, <2>2, <3>2
  <2> QED
    BY <2>3, <2>4
<1> QED
  BY <1>5, <1>6, <1>7 DEF Chosen, b

(* That is what each turn does.                                            *)
LEMMA PlacedAtIs ==
  ASSUME NEW sw, NEW l, NEW k, NEW rows, NEW t, NEW n,
         InOrder(sw, l, k), rows \in Nat, k <= rows, n \in 1 .. l, t \in Placing(rows),
         Chosen(sw, l, rows, t, n - 1)
  PROVE  Chosen(sw, l, rows, PlacedAt(sw, t, n), n)
<1> DEFINE src == sw[n].mSrc
           g == NextFree(sw, t.f)
           u == PlacedAt(sw, t, n)
           h == [idx |-> g.idx, node |-> g.node]
<1>1. l \in Nat /\ n \in Nat /\ n >= 1
  BY MatrixLen DEF InOrder
<1>2. Marked(sw, l, t.f)
  BY DEF Chosen
<1>3. CASE Starts(sw, n)
  <2>1. u = [t EXCEPT !.perm[src] = n]
    BY <1>3 DEF PlacedAt, Starts
  <2>2. t = [perm |-> t.perm, f |-> t.f]
    BY DEF Placing
  <2>3. u.perm = [t.perm EXCEPT ![src] = n] /\ u.f = t.f
    BY <2>1, <2>2
  <2>4. ASSUME NEW i \in 1 .. n - 1 PROVE sw[i].mSrc # src
    <3>1. i \in 1 .. l /\ n - 1 \in 1 .. l /\ i <= n - 1 /\ n > 1 /\ n - 1 <= n /\ n \in 1 .. l
      BY <1>1
    <3>2. sw[i].mSrc <= sw[n - 1].mSrc /\ sw[n - 1].mSrc <= src
      BY <3>1 DEF InOrder
    <3>3. sw[i].mSrc \in Int /\ sw[n - 1].mSrc \in Int /\ src \in Int
      BY <3>1 DEF InOrder
    <3>4. sw[n - 1].mSrc # src
      BY <1>3, <3>1 DEF Starts
    <3> HIDE DEF src
    <3> QED
      BY <3>2, <3>3, <3>4
  <2> DEFINE p == src
  <2>5. p = sw[n].mSrc
    OBVIOUS
  <2>6. u.perm = [t.perm EXCEPT ![p] = n] /\ Marked(sw, l, u.f) /\ \A i \in 1 .. n - 1 : Starts(sw, i) => sw[i].mSrc # p
    BY <1>2, <2>3, <2>4
  <2> HIDE DEF p, u
  <2>7. Chosen(sw, l, rows, u, n)
    BY <2>5, <2>6, PutNext
  <2> QED
    BY <2>7 DEF u
<1>4. CASE ~ Starts(sw, n)
  <2>1. u = [perm |-> [t.perm EXCEPT ![g.free] = n], f |-> h]
    BY <1>4 DEF PlacedAt, Starts
  <2>2. (\A i \in 1 .. l : sw[i].mSrc # g.free) /\ Marked(sw, l, h)
    BY <1>2, NextFreeIs
  <2> HIDE DEF g, h
  <2> DEFINE p == g.free
  <2> HIDE DEF p
  <2>3. u.perm = [t.perm EXCEPT ![p] = n] /\ u.f = h
    BY <2>1 DEF p
  <2>4. Marked(sw, l, u.f) /\ \A i \in 1 .. n - 1 : Starts(sw, i) => sw[i].mSrc # p
    BY <1>1, <2>2, <2>3 DEF p
  <2> HIDE DEF u
  <2>5. Chosen(sw, l, rows, u, n)
    BY <1>4, <2>3, <2>4, PutNext
  <2> QED
    BY <2>5 DEF u
<1> QED
  BY <1>3, <1>4

(* The loop as a sequence of turns.                                        *)
SelectSteps(T, sw, n, rows) ==
  /\ T \in [0 .. n -> Placing(rows)]
  /\ T[0] = [perm |-> Filled(rows, 0), f |-> [idx |-> 1, node |-> 1]] /\ SelectFold(sw, rows) = T[n]
  /\ \A k \in 1 .. n : T[k] = PlacedAt(sw, T[k - 1], k)

(* There is one.                                                           *)
LEMMA SelectTrace ==
  ASSUME NEW sw, NEW n0, NEW rows, Matrix(sw, n0), rows \in Nat
  PROVE  \E T : SelectSteps(T, sw, n0, rows)
<1> DEFINE n == n0
           base == [perm |-> Filled(rows, 0), f |-> [idx |-> 1, node |-> 1]]
           D == Placing(rows)
           seq == [n1 \in DOMAIN sw |-> n1]
           Op(t, k) == LET i == seq[k] IN PlacedAt(sw, t, i)
           St == [x \in D \X (1 .. n) |-> Op(x[1], x[2])]
<1>1. n \in Nat /\ base \in D
  BY MatrixLen DEF Placing, Marks, Filled
<1>3. \A k \in 1 .. n : seq[k] = k /\ k \in 1 .. n0
  BY MatrixLen
<1>2. \A t \in D : \A k \in 1 .. n : Op(t, k) \in D
  <2> HIDE DEF seq
  <2> QED
    BY <1>3, PlacedAtKeeps
<1>3a. \A t : \A k \in 1 .. n : Op(t, k) = PlacedAt(sw, t, k)
  BY <1>3
<1>a. DOMAIN seq = 1 .. n
  BY MatrixLen
<1> DEFINE Is(G) == G = [s1 \in SUBSET (1 .. n) |-> IF s1 = {} THEN base ELSE Op(G[s1 \ {Max(s1)}], Max(s1))]
           iter == CHOOSE G : Is(G)
<1>b. (\E G : Is(G)) => Is(iter) /\ SelectFold(sw, rows) = iter[1 .. n]
  <2>1. (\E G : Is(G)) => Is(iter)
    <3> HIDE DEF Is
    <3> QED
      OBVIOUS
  <2>2. SelectFold(sw, rows) = iter[1 .. n]
    BY <1>a, Zenon DEF FoldLeft, MapThenFoldSet, SelectFold, Op, seq, PlacedAt, base
  <2> HIDE DEF iter, Is
  <2> QED
    BY <2>1, <2>2
<1> HIDE DEF n, D, Op, base, seq
<1>4. St \in [D \X (1 .. n) -> D]
  BY <1>2
<1>5. \A s1 \in SUBSET (1 .. n) : s1 # {} => Max(s1) \in 1 .. n
  <2> HIDE DEF Max
  <2> QED
    BY <1>1, MaxOfSubset
<1>6. \A G : \A s1 \in SUBSET (1 .. n) : s1 # {} /\ G[s1 \ {Max(s1)}] \in D =>
          St[<<G[s1 \ {Max(s1)}], Max(s1)>>] = Op(G[s1 \ {Max(s1)}], Max(s1))
  <2> HIDE DEF Max
  <2> QED
    BY <1>5
<1>6a. \A t \in D : \A k \in 1 .. n : St[<<t, k>>] = Op(t, k)
  OBVIOUS
<1> HIDE DEF St, Max
<1>7. PICK F \in [SUBSET (1 .. n) -> D] : Folds(F, n, base, St)
  BY <1>1, <1>4, FoldExists
<1>8. Is(F)
  BY <1>6, <1>7 DEF Folds
<1>9. Is(iter) /\ SelectFold(sw, rows) = iter[1 .. n]
  <2> HIDE DEF iter, Is
  <2> QED
    BY <1>b, <1>8
<1> HIDE DEF iter
<1>10. Unfolds(iter, n, D, base, St)
  BY <1>1, <1>4, <1>6, <1>9 DEF Unfolds
<1>11. Traces(OnPrefixes(iter, n), n, D, base, St) /\ OnPrefixes(iter, n)[n] = iter[1 .. n]
  BY <1>10, FoldTrace
<1> DEFINE T == OnPrefixes(iter, n)
<1> HIDE DEF T
<1>12. /\ T \in [0 .. n -> D] /\ T[0] = base /\ SelectFold(sw, rows) = T[n]
       /\ \A k \in 1 .. n : T[k] = Op(T[k - 1], k)
  <2>1. \A k \in 1 .. n : k - 1 \in 0 .. n
    BY <1>1
  <2> QED
    BY <1>6a, <1>9, <1>11, <2>1 DEF Traces, T
<1>13. \A k \in 1 .. n : T[k] = PlacedAt(sw, T[k - 1], k)
  BY <1>3a, <1>12
<1> QED
  BY <1>12, <1>13 DEF n, D, base, SelectSteps

(* The permutation of the selection.                                       *)
LEMMA SelectIs ==
  ASSUME NEW sw, NEW l, NEW k, NEW rows, InOrder(sw, l, k), rows = IF l < k THEN k ELSE l
  PROVE  /\ Matrix(SelectPerm(sw, k), rows) /\ OneToOne(SelectPerm(sw, k), rows)
         /\ SelectPerm(sw, k) \in [1 .. rows -> 0 .. l]
         /\ \A i \in 1 .. l : Starts(sw, i) => SelectPerm(sw, k)[sw[i].mSrc] = i
<1>1. l \in Nat /\ k \in Nat /\ Len(sw) = l /\ Matrix(sw, l)
  BY MatrixLen DEF InOrder
<1>2. rows \in Nat /\ k <= rows
  BY <1>1
<1>3. SelectPerm(sw, k) = SelectFold(sw, rows).perm
  BY <1>1, Zenon DEF SelectPerm, SelectFold
<1>4. PICK T : SelectSteps(T, sw, l, rows)
  BY <1>1, <1>2, SelectTrace
<1>5. /\ T \in [0 .. l -> Placing(rows)]
      /\ T[0] = [perm |-> Filled(rows, 0), f |-> [idx |-> 1, node |-> 1]] /\ SelectFold(sw, rows) = T[l]
      /\ \A n \in 1 .. l : T[n] = PlacedAt(sw, T[n - 1], n)
  BY <1>4 DEF SelectSteps
<1> DEFINE S == {n \in Nat : n <= l => Chosen(sw, l, rows, T[n], n)}
<1>6. 0 \in S
  <2> DEFINE f0 == [idx |-> 1, node |-> 1]
             p0 == Filled(rows, 0)
  <2>1. p0 \in [1 .. rows -> 0 .. 0] /\ OneToOne(p0, rows)
    BY <1>2 DEF Filled, OneToOne
  <2>2. Marked(sw, l, f0)
    <3>1. f0.idx = 1 /\ f0.node = 1 /\ f0 \in Marks
      BY DEF Marks
    <3>2. \A n \in 1 .. l : ~ sw[n].mSrc < 1 /\ ~ n < 1
      BY <1>1 DEF InOrder
    <3> HIDE DEF f0
    <3> QED
      BY <3>1, <3>2 DEF Marked
  <2> HIDE DEF f0, p0
  <2>3. T[0] = [perm |-> p0, f |-> f0]
    BY <1>5 DEF p0, f0
  <2>4. T[0].perm = p0 /\ T[0].f = f0
    BY <2>3
  <2>5. Chosen(sw, l, rows, T[0], 0)
    BY <2>1, <2>2, <2>4 DEF Chosen
  <2> QED
    BY <2>5
<1>7. \A n \in Nat : n \in S => n + 1 \in S
  <2> SUFFICES ASSUME NEW n \in Nat, n \in S, n + 1 <= l PROVE Chosen(sw, l, rows, T[n + 1], n + 1)
    OBVIOUS
  <2> DEFINE c == n + 1
  <2>1. c \in 1 .. l /\ c - 1 = n /\ n \in 0 .. l
    BY <1>1
  <2>2. Chosen(sw, l, rows, T[n], n) /\ T[n] \in Placing(rows)
    BY <1>1, <1>5, <2>1
  <2>3. T[c] = PlacedAt(sw, T[n], c)
    BY <1>5, <2>1
  <2> HIDE DEF c
  <2>4. Chosen(sw, l, rows, T[n], c - 1)
    BY <2>1, <2>2
  <2>5. Chosen(sw, l, rows, PlacedAt(sw, T[n], c), c)
    BY <1>2, <2>1, <2>2, <2>4, PlacedAtIs
  <2> QED
    BY <2>3, <2>5 DEF c
<1>8. l \in S
  <2> HIDE DEF S
  <2> QED
    BY <1>1, <1>6, <1>7, NatInduct
<1>9. Chosen(sw, l, rows, T[l], l)
  BY <1>1, <1>8
<1> DEFINE sp == T[l].perm
<1>10. /\ sp \in [1 .. rows -> 0 .. l] /\ OneToOne(sp, rows)
       /\ \A i \in 1 .. l : Starts(sw, i) => sp[sw[i].mSrc] = i
  BY <1>9 DEF Chosen
<1>11. SelectPerm(sw, k) = sp
  BY <1>3, <1>5
<1> HIDE DEF sp
<1>12. Matrix(sp, rows)
  BY <1>2, <1>10 DEF Matrix
<1> QED
  BY <1>10, <1>11, <1>12

(* programDuplicate as a sequence of steps; x is what the transfers give.  *)
DuplicateSteps(T, dest, sw, x, m) ==
  /\ T[0] = dest /\ \A k \in 0 .. m - 1 : Matrix(T[k], m)
  /\ \A k \in 1 .. m - 1 : \A i \in 1 .. m :
       T[k][i] = IF i = k + 1 THEN Xor(T[k - 1][i - Dup(sw, i)], x[i]) ELSE T[k - 1][i]

(* There is one.                                                           *)
LEMMA DuplicateTrace ==
  ASSUME NEW dest, NEW sw, NEW r, NEW share0, NEW share1, NEW m0,
         Matrix(dest, m0), m0 \in Nat \ {0}
  PROVE  \E T : /\ DuplicateSteps(T, dest, sw, Transferred(r, share0, share1, m0), m0)
                /\ ProgramDuplicate(dest, sw, r, share0, share1) = T[m0 - 1]
<1> DEFINE n == m0 - 1
           base == dest
           D == [1 .. m0 -> SUBSET (Atoms(dest, m0) \cup Atoms(Transferred(r, share0, share1, m0), m0))]
           seq == [k \in 1 .. Len(dest) - 1 |-> k + 1]
           X == Transferred(r, share0, share1, m0)
           Op(t, k) == LET i == seq[k] IN [t EXCEPT ![i] = Xor(t[i - Dup(sw, i)], Xor(share0[i], share1[i][r[i]]))]
           St == [x \in D \X (1 .. n) |-> Op(x[1], x[2])]
<1>1. n \in Nat /\ base \in D
  <2>1. \A i \in 1 .. m0 : dest[i] \subseteq Atoms(dest, m0)
    BY AtomsIn
  <2> QED
    BY <2>1 DEF Matrix
<1>2. \A t \in D : \A k \in 1 .. n : Op(t, k) \in D
  <2> DEFINE U == Atoms(dest, m0) \cup Atoms(X, m0)
  <2> SUFFICES ASSUME NEW t \in D, NEW k \in 1 .. n PROVE Op(t, k) \in D
    OBVIOUS
  <2>1. seq[k] = k + 1 /\ k + 1 \in 1 .. m0 /\ k + 1 - 1 \in 1 .. m0
    BY MatrixLen
  <2> HIDE DEF seq
  <2> DEFINE i0 == k + 1
  <2>2. X[i0] \subseteq U
    BY <2>1, AtomsIn, Zenon
  <2>3. X[i0] = Xor(share0[i0], share1[i0][r[i0]])
    BY <2>1 DEF Transferred
  <2>4. t \in [1 .. m0 -> SUBSET U]
    OBVIOUS
  <2>5. i0 - Dup(sw, i0) \in 1 .. m0
    BY <2>1 DEF Dup
  <2> DEFINE v == Xor(t[i0 - Dup(sw, i0)], X[i0])
  <2>6. Op(t, k) = [t EXCEPT ![i0] = v]
    BY <2>1, <2>3, Zenon
  <2> HIDE DEF U, X
  <2>7. v \in SUBSET U
    BY <2>2, <2>4, <2>5, XorIn
  <2> HIDE DEF v, Op, i0
  <2>8. Op(t, k) \in [1 .. m0 -> SUBSET U]
    BY <2>4, <2>6, <2>7
  <2> QED
    BY <2>8 DEF U, X
<1>3. \A t \in D : Matrix(t, m0) /\ DOMAIN t = 1 .. m0
  BY DEF Matrix
<1>3a. \A t : \A k \in 1 .. n : Op(t, k) = [t EXCEPT ![k + 1] = Xor(t[(k + 1) - Dup(sw, k + 1)], X[k + 1])]
  <2> SUFFICES ASSUME NEW t, NEW k \in 1 .. n
               PROVE Op(t, k) = [t EXCEPT ![k + 1] = Xor(t[(k + 1) - Dup(sw, k + 1)], X[k + 1])]
    OBVIOUS
  <2>1. seq[k] = k + 1 /\ k + 1 \in 1 .. m0
    BY MatrixLen
  <2> HIDE DEF seq
  <2>3. X[k + 1] = Xor(share0[k + 1], share1[k + 1][r[k + 1]])
    BY <2>1 DEF Transferred
  <2> QED
    BY <2>1, <2>3, Zenon
<1> HIDE DEF X
<1>a. DOMAIN seq = 1 .. n
  BY MatrixLen
<1> DEFINE Is(G) == G = [s1 \in SUBSET (1 .. n) |-> IF s1 = {} THEN base ELSE Op(G[s1 \ {Max(s1)}], Max(s1))]
           iter == CHOOSE G : Is(G)
<1>b. (\E G : Is(G)) => Is(iter) /\ ProgramDuplicate(dest, sw, r, share0, share1) = iter[1 .. n]
  <2>1. (\E G : Is(G)) => Is(iter)
    <3> HIDE DEF Is
    <3> QED
      OBVIOUS
  <2>2. ProgramDuplicate(dest, sw, r, share0, share1) = iter[1 .. n]
    BY <1>a, Zenon DEF FoldLeft, MapThenFoldSet, ProgramDuplicate, Op, seq
  <2> HIDE DEF iter, Is
  <2> QED
    BY <2>1, <2>2
<1> HIDE DEF n, D, Op, base, seq
<1>4. St \in [D \X (1 .. n) -> D]
  BY <1>2
<1>5. \A s1 \in SUBSET (1 .. n) : s1 # {} => Max(s1) \in 1 .. n
  <2> HIDE DEF Max
  <2> QED
    BY <1>1, MaxOfSubset
<1>6. \A G : \A s1 \in SUBSET (1 .. n) : s1 # {} /\ G[s1 \ {Max(s1)}] \in D =>
          St[<<G[s1 \ {Max(s1)}], Max(s1)>>] = Op(G[s1 \ {Max(s1)}], Max(s1))
  <2> HIDE DEF Max
  <2> QED
    BY <1>5
<1>6a. \A t \in D : \A k \in 1 .. n : St[<<t, k>>] = Op(t, k)
  OBVIOUS
<1> HIDE DEF St, Max
<1>7. PICK F \in [SUBSET (1 .. n) -> D] : Folds(F, n, base, St)
  BY <1>1, <1>4, FoldExists
<1>8. Is(F)
  BY <1>6, <1>7 DEF Folds
<1>9. Is(iter) /\ ProgramDuplicate(dest, sw, r, share0, share1) = iter[1 .. n]
  <2> HIDE DEF iter, Is
  <2> QED
    BY <1>b, <1>8
<1> HIDE DEF iter
<1>10. Unfolds(iter, n, D, base, St)
  BY <1>1, <1>4, <1>6, <1>9 DEF Unfolds
<1>11. Traces(OnPrefixes(iter, n), n, D, base, St) /\ OnPrefixes(iter, n)[n] = iter[1 .. n]
  BY <1>10, FoldTrace
<1> DEFINE T == OnPrefixes(iter, n)
<1> HIDE DEF T
<1>12. /\ T \in [0 .. n -> D] /\ T[0] = base /\ ProgramDuplicate(dest, sw, r, share0, share1) = T[n]
       /\ \A k \in 1 .. n : T[k] = Op(T[k - 1], k)
  <2>1. \A k \in 1 .. n : k - 1 \in 0 .. n
    BY <1>1
  <2> QED
    BY <1>6a, <1>9, <1>11, <2>1 DEF Traces, T
<1>13. DuplicateSteps(T, base, sw, X, m0)
  <2>1. \A k \in 0 .. m0 - 1 : Matrix(T[k], m0) /\ DOMAIN T[k] = 1 .. m0
    BY <1>3, <1>12 DEF n
  <2>2. ASSUME NEW k \in 1 .. m0 - 1, NEW i \in 1 .. m0
        PROVE  T[k][i] = IF i = k + 1 THEN Xor(T[k - 1][i - Dup(sw, i)], X[i]) ELSE T[k - 1][i]
    <3>1. T[k] = [T[k - 1] EXCEPT ![k + 1] = Xor(T[k - 1][(k + 1) - Dup(sw, k + 1)], X[k + 1])]
      BY <1>3a, <1>12 DEF n
    <3>2. k - 1 \in 0 .. m0 - 1
      OBVIOUS
    <3>3. DOMAIN T[k - 1] = 1 .. m0
      BY <2>1, <3>2
    <3> DEFINE u == T[k - 1]
    <3> HIDE DEF u
    <3> QED
      BY <3>1, <3>3 DEF u
  <2> QED
    BY <1>12, <2>1, <2>2 DEF DuplicateSteps
<1> QED
  BY <1>12, <1>13 DEF n, base, X

(* Row i is to be shared with F[i] as what G[i] is: its own row is, or the *)
(* one before it, if that is.                                              *)
Duplicates(dest, sw, x, F, G, m) ==
  /\ Xor(dest[1], F[1]) = G[1]
  /\ \A i \in 2 .. m : IF Dup(sw, i) = 0 THEN Xor(Xor(dest[i], x[i]), F[i]) = G[i]
                       ELSE \A d : Xor(d, F[i - 1]) = G[i - 1] => Xor(Xor(d, x[i]), F[i]) = G[i]

(* Then so is what programDuplicate leaves.                                *)
LEMMA DuplicateIs ==
  ASSUME NEW dest, NEW sw, NEW r, NEW share0, NEW share1, NEW F, NEW G, NEW m,
         Matrix(dest, m), m \in Nat \ {0}, Duplicates(dest, sw, Transferred(r, share0, share1, m), F, G, m)
  PROVE  /\ Matrix(ProgramDuplicate(dest, sw, r, share0, share1), m)
         /\ \A i \in 1 .. m : Xor(ProgramDuplicate(dest, sw, r, share0, share1)[i], F[i]) = G[i]
<1> DEFINE x == Transferred(r, share0, share1, m)
<1>1. PICK T : DuplicateSteps(T, dest, sw, x, m) /\ ProgramDuplicate(dest, sw, r, share0, share1) = T[m - 1]
  BY DuplicateTrace
<1>2. Duplicates(dest, sw, x, F, G, m)
  OBVIOUS
<1> HIDE DEF x
<1> DEFINE S == {k \in Nat : k <= m - 1 =>
                   \A i \in 1 .. m : IF i <= k + 1 THEN Xor(T[k][i], F[i]) = G[i] ELSE T[k][i] = dest[i]}
<1>3. 0 \in S
  <2>1. \A i \in 1 .. m : i <= 0 + 1 => i = 1
    OBVIOUS
  <2> QED
    BY <1>1, <1>2, <2>1 DEF DuplicateSteps, Duplicates
<1>4. \A k \in Nat : k \in S => k + 1 \in S
  <2> SUFFICES ASSUME NEW k \in Nat, k \in S, k + 1 <= m - 1, NEW i \in 1 .. m
               PROVE IF i <= (k + 1) + 1 THEN Xor(T[k + 1][i], F[i]) = G[i] ELSE T[k + 1][i] = dest[i]
    OBVIOUS
  <2> DEFINE c == k + 1
  <2>1. \A j \in 1 .. m : IF j <= c THEN Xor(T[k][j], F[j]) = G[j] ELSE T[k][j] = dest[j]
    OBVIOUS
  <2>2. c \in 1 .. m - 1 /\ c - 1 = k /\ c + 1 \in 2 .. m
    OBVIOUS
  <2> HIDE DEF c
  <2>3. T[c][i] = IF i = c + 1 THEN Xor(T[k][i - Dup(sw, i)], x[i]) ELSE T[k][i]
    BY <1>1, <2>2 DEF DuplicateSteps
  <2>4. CASE i # c + 1
    <3>1. i <= c + 1 <=> i <= c
      BY <2>2, <2>4
    <3> QED
      BY <2>1, <2>3, <2>4, <3>1 DEF c
  <2>5. CASE i = c + 1
    <3>1. i \in 2 .. m /\ ~ i <= c /\ i - 1 \in 1 .. m /\ i - 1 <= c /\ i - 0 = i
      BY <2>2, <2>5
    <3>2. T[k][i] = dest[i] /\ Xor(T[k][i - 1], F[i - 1]) = G[i - 1]
      BY <2>1, <3>1
    <3>3. Dup(sw, i) = 0 \/ Dup(sw, i) = 1
      BY DEF Dup
    <3>4. CASE Dup(sw, i) = 0
      <4>1. T[c][i] = Xor(dest[i], x[i])
        BY <2>3, <2>5, <3>1, <3>2, <3>4
      <4>2. Xor(T[c][i], F[i]) = G[i]
        BY <1>2, <3>1, <3>4, <4>1 DEF Duplicates
      <4> QED
        BY <2>5, <3>1, <4>2 DEF c
    <3>5. CASE Dup(sw, i) = 1
      <4>1. T[c][i] = Xor(T[k][i - 1], x[i])
        BY <2>3, <2>5, <3>5
      <4>2. \A d : Xor(d, F[i - 1]) = G[i - 1] => Xor(Xor(d, x[i]), F[i]) = G[i]
        BY <1>2, <3>1, <3>5 DEF Duplicates
      <4>3. Xor(T[c][i], F[i]) = G[i]
        BY <3>2, <4>1, <4>2
      <4> QED
        BY <2>5, <3>1, <4>3 DEF c
    <3> QED
      BY <3>3, <3>4, <3>5
  <2> QED
    BY <2>4, <2>5
<1>5. m - 1 \in S
  <2>1. m - 1 \in Nat
    OBVIOUS
  <2> HIDE DEF S
  <2> QED
    BY <1>3, <1>4, <2>1, NatInduct
<1>6. \A i \in 1 .. m : Xor(T[m - 1][i], F[i]) = G[i]
  <2>1. \A i \in 1 .. m : i <= (m - 1) + 1
    OBVIOUS
  <2> QED
    BY <1>5, <2>1
<1>7. Matrix(ProgramDuplicate(dest, sw, r, share0, share1), m)
  BY DuplicateKeeps
<1> QED
  BY <1>1, <1>6, <1>7

(* The helper's fresh rows, and the sums the programmer gets, for rows d   *)
(* whose shares with the helper's s are rows of table t.                   *)
LEMMA DupIs ==
  ASSUME NEW d, NEW s, NEW sw, NEW r, NEW tag, NEW t, NEW m,
         Matrix(d, m), Matrix(s, m), m \in Nat \ {0}, Matrix(sw, m), \A i \in 1 .. m : r[i] \in 0 .. 1,
         \A i \in 1 .. m : Starts(sw, i) => Xor(d[i], s[i]) = t[sw[i].mSrc]
  PROVE  LET sent == SendDuplicate(s, DupBits(sw, r), tag)
             got == ProgramDuplicate(d, sw, r, HelpDuplicate(m, r), sent.sums)
         IN /\ Matrix(sent.share, m) /\ Matrix(got, m)
            /\ \A i \in 1 .. m : Xor(got[i], sent.share[i]) = t[sw[i].mSrc]
<1> DEFINE bits == DupBits(sw, r)
           sent == SendDuplicate(s, bits, tag)
           F == sent.share
           sums == sent.sums
           help == HelpDuplicate(m, r)
           x == Transferred(r, help, sums, m)
           G == [i \in 1 .. m |-> t[sw[i].mSrc]]
           fr(i) == Fresh(s, i, tag)
           Back(i, b) == i - (IF b = 0 THEN bits[i] ELSE 1 - bits[i])
           Row(i) == [b \in 0 .. 1 |-> Xor(W(i, b), Xor(fr(i), IF Back(i, b) = i THEN s[i] ELSE Fresh(s, Back(i, b), tag)))]
<1>1. DOMAIN s = 1 .. m /\ Len(s) = m /\ DOMAIN sw = 1 .. m /\ m \in Nat
  BY MatrixLen
<1>2. \A i \in 2 .. m : bits[i] = (r[i] + Dup(sw, i)) % 2
  BY <1>1 DEF DupBits
<1>3. sent = [share |-> [i \in 1 .. m |-> fr(i)], sums |-> [i \in 2 .. m |-> Row(i)]]
  BY <1>1, Zenon DEF SendDuplicate
<1> HIDE DEF bits, fr, Row, sent
<1>4. F = [i \in 1 .. m |-> fr(i)] /\ sums = [i \in 2 .. m |-> Row(i)]
  BY <1>3
<1>5. fr(1) = s[1]
  BY DEF fr, Fresh
<1>6. help = [i \in 2 .. m |-> W(i, r[i])]
  BY DEF HelpDuplicate
<1> HIDE DEF F, sums, help
<1>7. ASSUME NEW i \in 2 .. m
      PROVE  x[i] = Xor(fr(i), IF Dup(sw, i) = 0 THEN s[i] ELSE fr(i - 1))
  <2>1. i \in 1 .. m /\ r[i] \in 0 .. 1
    OBVIOUS
  <2>2. Dup(sw, i) = 0 \/ Dup(sw, i) = 1
    BY DEF Dup
  <2>3. Back(i, r[i]) = IF Dup(sw, i) = 0 THEN i ELSE i - 1
    <3>1. bits[i] = (r[i] + Dup(sw, i)) % 2
      BY <1>2
    <3>2. r[i] = 0 \/ r[i] = 1
      BY <2>1
    <3>3. (0 + 0) % 2 = 0 /\ (0 + 1) % 2 = 1 /\ (1 + 0) % 2 = 1 /\ (1 + 1) % 2 = 0
      OBVIOUS
    <3> QED
      BY <2>1, <2>2, <3>1, <3>2, <3>3
  <2> DEFINE y == IF Back(i, r[i]) = i THEN s[i] ELSE Fresh(s, Back(i, r[i]), tag)
  <2>4. y = IF Dup(sw, i) = 0 THEN s[i] ELSE fr(i - 1)
    BY <2>1, <2>2, <2>3 DEF fr
  <2>5. sums[i][r[i]] = Xor(W(i, r[i]), Xor(fr(i), y))
    BY <1>4, <2>1 DEF Row
  <2>6. help[i] = W(i, r[i])
    BY <1>6
  <2>7. x[i] = Xor(help[i], sums[i][r[i]])
    BY <2>1 DEF Transferred
  <2> HIDE DEF x, y
  <2>8. x[i] = Xor(fr(i), y)
    BY <2>5, <2>6, <2>7 DEF Xor
  <2> QED
    BY <2>4, <2>8
<1> HIDE DEF x
<1>8. Duplicates(d, sw, x, F, G, m)
  <2>1. Xor(d[1], F[1]) = G[1]
    <3>1. 1 \in 1 .. m /\ Starts(sw, 1)
      BY <1>1 DEF Starts
    <3> QED
      BY <1>4, <1>5, <3>1
  <2>2. ASSUME NEW i \in 2 .. m, Dup(sw, i) = 0 PROVE Xor(Xor(d[i], x[i]), F[i]) = G[i]
    <3>1. i \in 1 .. m /\ Starts(sw, i)
      BY <2>2 DEF Dup, Starts
    <3>2. x[i] = Xor(fr(i), s[i]) /\ F[i] = fr(i) /\ Xor(d[i], s[i]) = G[i]
      BY <1>4, <1>7, <2>2, <3>1
    <3>3. Xor(Xor(d[i], Xor(fr(i), s[i])), fr(i)) = Xor(d[i], s[i])
      BY DEF Xor
    <3> QED
      BY <3>2, <3>3
  <2>3. ASSUME NEW i \in 2 .. m, Dup(sw, i) # 0, NEW e, Xor(e, F[i - 1]) = G[i - 1]
        PROVE  Xor(Xor(e, x[i]), F[i]) = G[i]
    <3>1. i \in 1 .. m /\ i - 1 \in 1 .. m
      OBVIOUS
    <3>2. sw[i - 1].mSrc = sw[i].mSrc
      BY <2>3 DEF Dup
    <3>3. x[i] = Xor(fr(i), fr(i - 1)) /\ F[i] = fr(i) /\ F[i - 1] = fr(i - 1) /\ G[i] = G[i - 1]
      BY <1>4, <1>7, <2>3, <3>1, <3>2
    <3>4. Xor(Xor(e, Xor(fr(i), fr(i - 1))), fr(i)) = Xor(e, fr(i - 1))
      BY DEF Xor
    <3> QED
      BY <2>3, <3>3, <3>4
  <2> QED
    BY <2>1, <2>2, <2>3 DEF Duplicates
<1> HIDE DEF G
<1> DEFINE got == ProgramDuplicate(d, sw, r, help, sums)
<1>9. Matrix(got, m) /\ \A i \in 1 .. m : Xor(got[i], F[i]) = G[i]
  <2>1. Duplicates(d, sw, Transferred(r, help, sums, m), F, G, m)
    BY <1>8 DEF x
  <2>2. /\ Matrix(ProgramDuplicate(d, sw, r, help, sums), m)
        /\ \A i \in 1 .. m : Xor(ProgramDuplicate(d, sw, r, help, sums)[i], F[i]) = G[i]
    BY <2>1, DuplicateIs
  <2> QED
    BY <2>2
<1>10. Matrix(F, m)
  BY <1>1, <1>4 DEF Matrix
<1> HIDE DEF got
<1>11. \A i \in 1 .. m : Xor(got[i], F[i]) = t[sw[i].mSrc]
  BY <1>9 DEF G
<1> QED
  BY <1>9, <1>10, <1>11 DEF got, F, sums, help, sent, bits

(* What the servers compute in round h, from their shares of the table:    *)
(* servers 1 and 2 of the selected rows, each where its first switch is,   *)
SelPerm(h) == SelectPerm(Sorted(h), db.bins)
SelOut(h) == PermOut(SelPerm(h), db.draws, SrcRows)
PickRows == Resized(Tab0, SrcRows)
PickOut == RowsOut(PickRows, db.draws, SrcRows)
Temp1(h) == Unmasked(NewTemp, SelOut(h), FALSE)
Temp2(h) == Delivered(NewTemp, SelOut(h), PickOut, SrcRows)
(* then of the duplicated rows,                                            *)
Bits(h) == DupBits(Sorted(h), db.choice)
DupSent(h) == SendDuplicate(Temp2(h), Bits(h), h)
Fresh2(h) == DupSent(h).share
Tmp1(h) == ProgramDuplicate(Temp1(h), Sorted(h), db.choice, HelpDuplicate(Rows, db.choice), DupSent(h).sums)
(* and servers 0 and 1 of the rows where each belongs.                     *)
Own(h) == [i \in 1 .. Rows |-> Tab1[Positions(i)[h]]]
LastOut(h) == PermOut(FinalPerm(h), db.draws, Rows)
LastRows(h) == RowsOut(Fresh2(h), db.draws, Rows)
AddedOut(h) == Added(Own(h), FinalPerm(h), Tmp1(h))
Out1(h) == Unmasked(AddedOut(h), LastOut(h), TRUE)
Out0(h) == Delivered(Filled(Rows, Junk), LastOut(h), LastRows(h), Rows)

(* Matrices filled with a row.                                             *)
LEMMA FilledIs ==
  ASSUME NEW n \in Nat, NEW row
  PROVE  Matrix(Filled(n, row), n) /\ \A i \in 1 .. n : Filled(n, row)[i] = row
BY DEF Matrix, Filled

(* The selection's facts.                                                  *)
LEMMA SelectionIs ==
  ASSUME db \in Databases, DbFacts, NEW h \in 1 .. 3, Validate(Sorted(h))
  PROVE  /\ InOrder(Sorted(h), Rows, db.bins)
         /\ Matrix(SelPerm(h), SrcRows) /\ OneToOne(SelPerm(h), SrcRows)
         /\ SelPerm(h) \in [1 .. SrcRows -> 0 .. Rows]
         /\ \A i \in 1 .. Rows : Starts(Sorted(h), i) => SelPerm(h)[Sorted(h)[i].mSrc] = i
<1> DEFINE sw == Sorted(h)
           k == db.bins
           l == Rows
           m == SrcRows
<1>1. Matrix(sw, l) /\ k \in Nat /\ l \in Nat /\ \A n \in 1 .. l : sw[n].mSrc \in 1 .. k
  BY FinalIs, SortedIs DEF DbFacts
<1>2. Validate(sw)
  OBVIOUS
<1>3. m = IF k < l THEN l ELSE k
  BY DEF SrcRows
<1> HIDE DEF sw, k, l, m
<1>4. InOrder(sw, l, k)
  BY <1>1, <1>2, ValidIs
<1>5. m = IF l < k THEN k ELSE l
  BY <1>1, <1>3
<1>6. /\ Matrix(SelectPerm(sw, k), m) /\ OneToOne(SelectPerm(sw, k), m)
      /\ SelectPerm(sw, k) \in [1 .. m -> 0 .. l]
      /\ \A i \in 1 .. l : Starts(sw, i) => SelectPerm(sw, k)[sw[i].mSrc] = i
  BY <1>4, <1>5, SelectIs
<1> QED
  BY <1>4, <1>6 DEF SelPerm, sw, k, l, m

(* The selected rows: server 1's and 2's shares after the duplication.     *)
LEMMA SelectionAdds ==
  ASSUME db \in Databases, DbFacts, NEW h \in 1 .. 3, Validate(Sorted(h))
  PROVE  /\ Matrix(Temp1(h), Rows) /\ Matrix(Temp2(h), Rows)
         /\ Matrix(Fresh2(h), Rows) /\ Matrix(Tmp1(h), Rows)
         /\ \A n \in 1 .. Rows : Xor(Tmp1(h)[n], Fresh2(h)[n]) = Tab0[Sorted(h)[n].mSrc]
<1> DEFINE sw == Sorted(h)
           sp == SelPerm(h)
           k == db.bins
           l == Rows
           m == SrcRows
           draws == db.draws
           r == db.choice
           src == PickRows
           d == Temp1(h)
           s == Temp2(h)
           tab == Tab0
           new == NewTemp
<1>1. /\ Matrix(sw, l) /\ l \in Nat \ {0} /\ k \in Nat /\ m \in Nat \ {0} /\ k <= m
      /\ \A i \in 1 .. m : draws[i] \in Nat
      /\ \A n \in 1 .. l : sw[n].mSrc \in 1 .. k
  BY FinalIs, SortedIs DEF DbFacts
<1>2. \A i \in 1 .. l : r[i] \in 0 .. 1
  <2>1. \A i \in DOMAIN db.left : db.choice[i] \in 0 .. 1
    BY DatabasesAssumption
  <2> QED
    BY <2>1 DEF DbFacts
<1>3. /\ Matrix(sp, m) /\ OneToOne(sp, m) /\ sp \in [1 .. m -> 0 .. l]
      /\ \A i \in 1 .. l : Starts(sw, i) => sp[sw[i].mSrc] = i
  BY SelectionIs
<1>4. Matrix(tab, k)
  BY TableAdds
<1>5. Matrix(new, l)
  <2>1. l \in Nat
    BY <1>1
  <2> QED
    BY <2>1, FilledIs DEF NewTemp
<1>6. d = Unmasked(new, PermOut(sp, draws, m), FALSE) /\ s = Delivered(new, PermOut(sp, draws, m), RowsOut(src, draws, m), m)
  BY DEF Temp1, Temp2, SelOut, PickOut
<1>7. \A v \in 1 .. k : src[v] = tab[v]
  <2>1. DOMAIN tab = 1 .. k
    BY <1>4, MatrixLen
  <2>2. src = [i \in 1 .. m |-> IF i \in DOMAIN tab THEN tab[i] ELSE Junk]
    BY DEF PickRows, Resized
  <2> HIDE DEF src, tab, k, m
  <2>3. \A v \in 1 .. k : v \in 1 .. m
    BY <1>1
  <2> QED
    BY <2>1, <2>2, <2>3
<1> HIDE DEF sw, sp, k, l, m, draws, r, src, d, s, tab, new
<1>8. Permutes(sp, draws, m, new, new, l)
  BY <1>1, <1>3, <1>5 DEF Permutes
<1>9. ASSUME NEW i \in 1 .. l, Starts(sw, i) PROVE Xor(d[i], s[i]) = tab[sw[i].mSrc]
  <2> DEFINE v == sw[i].mSrc
  <2>1. v \in 1 .. k /\ v \in 1 .. m /\ sp[v] = i
    BY <1>1, <1>3, <1>9
  <2> HIDE DEF v
  <2>2. SumOver(src, sp, draws, m, new, new, v) = src[v]
    BY <1>8, <2>1, PermutedOver
  <2>3. Xor(d[sp[v]], s[sp[v]]) = src[v]
    BY <1>6, <2>2 DEF SumOver
  <2> QED
    BY <1>7, <2>1, <2>3 DEF v
<1>10. Matrix(d, l) /\ Matrix(s, l)
  <2> DEFINE P == PermOut(sp, draws, m)
             X == RowsOut(src, draws, m)
  <2>1. Matrix(P, m) /\ OneToOne(P, m)
    BY <1>1, <1>3, OutIs
  <2> HIDE DEF P, X
  <2>2. Matrix(Unmasked(new, P, FALSE), l)
    BY <1>5, <2>1, UnmaskedKeeps
  <2>3. m \in Nat
    BY <1>1
  <2>4. Matrix(Delivered(new, P, X, m), l)
    BY <1>5, <2>1, <2>3, DeliveredIs DEF Written
  <2> QED
    BY <1>6, <2>2, <2>4 DEF P, X
<1> DEFINE sent == SendDuplicate(s, DupBits(sw, r), h)
           got == ProgramDuplicate(d, sw, r, HelpDuplicate(l, r), sent.sums)
<1>11. /\ Matrix(sent.share, l) /\ Matrix(got, l)
       /\ \A i \in 1 .. l : Xor(got[i], sent.share[i]) = tab[sw[i].mSrc]
  BY <1>1, <1>2, <1>9, <1>10, DupIs
<1>12. Fresh2(h) = sent.share /\ Tmp1(h) = got
  BY Zenon DEF Fresh2, Tmp1, DupSent, Bits, sent, got, d, s, sw, r, l
<1> HIDE DEF sent, got
<1> QED
  BY <1>10, <1>11, <1>12 DEF d, s, l, tab, sw

(* The rows where they belong: server 0's and 1's shares at the end.       *)
LEMMA OutAdds ==
  ASSUME db \in Databases, DbFacts, NEW h \in 1 .. 3, Validate(Sorted(h)), NEW i \in 1 .. Rows
  PROVE  Xor(Out0(h)[i], Out1(h)[i]) = TableRow(Positions(i)[h])
<1> DEFINE l == Rows
           f == FinalPerm(h)
           fresh == Fresh2(h)
           tmp == Tmp1(h)
           own == Own(h)
           add == AddedOut(h)
           junk == Filled(Rows, Junk)
           pos == Positions(i)[h]
           draws == db.draws
           t0 == Tab0
           t1 == Tab1
           o0 == Out0(h)
           o1 == Out1(h)
<1>1. l \in Nat \ {0} /\ \A x \in 1 .. l : draws[x] \in Nat
  BY DEF DbFacts
<1>2. /\ Matrix(f, l) /\ f \in Orders(l) /\ f \in [1 .. l -> 1 .. l]
      /\ \A n \in 1 .. l : Sorted(h)[n].mSrc = Positions(f[n])[h]
  BY FinalIs
<1>3. PICK n \in 1 .. l : f[n] = i
  BY <1>2 DEF Orders
<1>4. Xor(tmp[n], fresh[n]) = t0[pos] /\ Matrix(fresh, l) /\ Matrix(tmp, l)
  <2>1. Xor(tmp[n], fresh[n]) = t0[Sorted(h)[n].mSrc] /\ Matrix(fresh, l) /\ Matrix(tmp, l)
    BY SelectionAdds
  <2> QED
    BY <1>2, <1>3, <2>1
<1>5. own[i] = t1[pos] /\ Matrix(own, l)
  <2>1. own = [x \in 1 .. l |-> t1[Positions(x)[h]]]
    BY DEF Own
  <2> HIDE DEF own, t1, l
  <2> QED
    BY <1>1, <2>1 DEF Matrix, l
<1>6. pos \in 1 .. db.bins /\ Xor(t0[pos], t1[pos]) = TableRow(pos)
  <2>1. pos \in 1 .. db.bins
    BY PositionsIn
  <2> HIDE DEF pos
  <2> QED
    BY <2>1, TableAdds
<1>7. Matrix(junk, l)
  <2>1. l \in Nat
    BY <1>1
  <2> QED
    BY <2>1, FilledIs
<1>8. /\ o0 = Delivered(junk, PermOut(f, draws, l), RowsOut(fresh, draws, l), l)
      /\ o1 = Unmasked(add, PermOut(f, draws, l), TRUE) /\ add = Added(own, f, tmp)
  BY DEF Out0, Out1, LastOut, LastRows, AddedOut
<1> HIDE DEF l, f, fresh, tmp, own, add, junk, pos, draws, t0, t1, o0, o1
<1>9. OneToOne(f, l)
  BY <1>2 DEF Orders, OneToOne
<1>10. Written(add, own, l, f, l, tmp, TRUE)
  BY <1>2, <1>5, <1>8, <1>9, AddedIs
<1>11. Matrix(add, l) /\ add[i] = Xor(own[i], tmp[n])
  <2>1. Matrix(add, l) /\ add[f[n]] = Entry(own[f[n]], tmp[n], TRUE)
    BY <1>2, <1>3, <1>10 DEF Written
  <2> QED
    BY <1>3, <2>1 DEF Entry
<1>12. Permutes(f, draws, l, add, junk, l)
  BY <1>1, <1>7, <1>9, <1>11 DEF Permutes
<1>13. SumAdd(fresh, f, draws, l, add, junk, n) = Xor(add[f[n]], fresh[n])
  <2>1. f[n] \in 1 .. l
    BY <1>2
  <2> QED
    BY <1>12, <2>1, PermutedAdd
<1>14. Xor(o1[i], o0[i]) = Xor(add[i], fresh[n])
  BY <1>3, <1>8, <1>13 DEF SumAdd
<1>15. Xor(o0[i], o1[i]) = Xor(Xor(own[i], tmp[n]), fresh[n])
  BY <1>11, <1>14, XorFacts
<1>16. Xor(Xor(own[i], tmp[n]), fresh[n]) = Xor(own[i], Xor(tmp[n], fresh[n]))
  BY DEF Xor
<1>17. Xor(t1[pos], t0[pos]) = Xor(t0[pos], t1[pos])
  BY DEF Xor
<1>18. Xor(o0[i], o1[i]) = TableRow(pos)
  BY <1>4, <1>5, <1>6, <1>15, <1>16, <1>17
<1> QED
  BY <1>18 DEF o0, o1, pos

(* What the n-th message from q to p says, handshakes left aside: a chunk  *)
(* of the shuffled rows or of the shuffled permutation, or what the        *)
(* duplication sends.                                                      *)
Content(q, p, n) ==
  CASE q = 0 /\ p = 1 -> IF n <= TableChunks THEN PermSent(CuckooPerm, db.draws, db.bins, n)
                         ELSE HelpDuplicate(Rows, db.choice)
    [] q = 2 /\ p = 1 -> IF n <= TableChunks THEN RowsSent(FirstTable(2), db.draws, db.bins, n)
                         ELSE DupSent((n - TableChunks) \div 2).sums
    [] q = 0 /\ p = 2 -> RowsSent(PickRows, db.draws, SrcRows, Within(n, TableChunks))
    [] q = 2 /\ p = 0 -> RowsSent(Fresh2(Lap(n, OutChunks)), db.draws, Rows, Within(n, OutChunks))
    [] q = 1 /\ p = 0 -> PermSent(FinalPerm(Lap(n, OutChunks + 1)), db.draws, Rows, Within(n, OutChunks + 1) - 1)
    [] OTHER -> LET i == Within(n, TableChunks + 2)  h == Lap(n, TableChunks + 2)
                IN IF i = TableChunks + 2 THEN Bits(h) ELSE PermSent(SelPerm(h), db.draws, SrcRows, i - 1)

(* Server 1 sends the selection of a program only when it is sorted.       *)
Tells(q, p, n, msg) ==
  Expected(q, p, n)[1] # "hello" =>
    /\ msg.data = Content(q, p, n)
    /\ q = 1 /\ p = 2 => Validate(Sorted(Lap(n, TableChunks + 2)))
ContentIn ==
  \A q, p \in Party : \A i \in 1 .. SentNow(q, p) - GotNow(q, p) : Tells(q, p, GotNow(q, p) + i, chan[<<q, p>>][i])

(* What a server holds at place o of round r, d chunks into the call there,*)
(* w being what it shuffles and m its matrices.                            *)
Holds0(r, o, d, w, m) ==
  /\ m["table"] = IF o = -1 THEN FirstTable(0) ELSE Tab0
  /\ \A h \in 1 .. 3 : m[Out(h)] = IF h - 1 < r THEN Out0(h)
                                   ELSE IF h - 1 = r /\ o = 4
                                     THEN Delivered(Filled(Rows, Junk), LastOut(h), LastRows(h), d * Step)
                                   ELSE Filled(Rows, Junk)
  /\ o = -1 /\ d > 0 => w = Arranged(CuckooPerm, db.draws, db.bins, d * Step)
  /\ o = 2 /\ d > 0 => w = Sending(PickRows, db.draws, SrcRows, d * Step)
Holds1(r, o, d, w, m) ==
  /\ m["table"] = IF o = -2 THEN Delivered(FirstTable(1), CuckooOut, RightOut, d * Step) ELSE Tab1
  /\ o >= 0 => \A h \in 1 .. 3 : m[Out(h)] = IF h - 1 < r THEN Out1(h)
                                             ELSE IF h - 1 = r /\ o = 7 THEN AddedOut(h) ELSE Own(h)
  /\ o \in {5, 6} => m["temp"] = Temp1(r + 1)
  /\ o = 4 /\ d > 0 => w = Arranged(SelPerm(r + 1), db.draws, SrcRows, d * Step)
  /\ o = 7 /\ d > 0 => w = Arranged(FinalPerm(r + 1), db.draws, Rows, d * Step)
  /\ \A h \in 1 .. 3 : h - 1 < r \/ (h - 1 = r /\ (o > 4 \/ (o = 4 /\ d > 0))) => Validate(Sorted(h))
Holds2(r, o, d, w, m) ==
  /\ o = -1 => m["table"] = FirstTable(2)
  /\ o = -1 /\ d > 0 => w = Sending(FirstTable(2), db.draws, db.bins, d * Step)
  /\ o = 2 /\ d > 0 => m["temp"] = Delivered(NewTemp, SelOut(r + 1), PickOut, d * Step)
  /\ o = 3 => m["temp"] = Temp2(r + 1)
  /\ o = 4 => m["temp"] = Fresh2(r + 1)
  /\ o = 4 /\ d > 0 => w = Sending(Fresh2(r + 1), db.draws, Rows, d * Step)
Holds(p, r, o, d, w, m) ==
  CASE p = 0 -> Holds0(r, o, d, w, m) [] p = 1 -> Holds1(r, o, d, w, m) [] p = 2 -> Holds2(r, o, d, w, m)
ValuesIn == \A p \in Party : Holds(p, Round(p, pc[p]), Place(p, pc[p]), done[p], work[p], mem[p])

ValueInv == ContentIn /\ ValuesIn

(* What is sent, by the numbers of the messages.                           *)
Conveyed(k, l, r, d) ==
  /\ d < k => /\ Content(0, 1, d + 1) = PermSent(CuckooPerm, db.draws, db.bins, d + 1)
              /\ Content(2, 1, d + 1) = RowsSent(FirstTable(2), db.draws, db.bins, d + 1)
              /\ Content(0, 2, Times(r, k) + d + 1) = RowsSent(PickRows, db.draws, SrcRows, d + 1)
              /\ Content(1, 2, Times(r, k + 2) + d + 1 + 1) = PermSent(SelPerm(r + 1), db.draws, SrcRows, d + 1)
              /\ Lap(Times(r, k + 2) + d + 1 + 1, k + 2) = r + 1
  /\ d < l => /\ Content(2, 0, Times(r, l) + d + 1) = RowsSent(Fresh2(r + 1), db.draws, Rows, d + 1)
              /\ Content(1, 0, Times(r, l + 1) + d + 1 + 1) = PermSent(FinalPerm(r + 1), db.draws, Rows, d + 1)
  /\ Content(0, 1, k + 2 * r + 1 + 1) = HelpDuplicate(Rows, db.choice)
  /\ Content(2, 1, k + 2 * r + 1 + 1) = DupSent(r + 1).sums
  /\ Content(1, 2, Times(r, k + 2) + k + 1 + 1) = Bits(r + 1) /\ Lap(Times(r, k + 2) + k + 1 + 1, k + 2) = r + 1

(* The contents by the place of a message in its round.                    *)
LEMMA ContentsAre ==
  ASSUME DbFacts, NEW k, NEW l, NEW r \in 0 .. 2, NEW d \in Nat, k = TableChunks, l = OutChunks
  PROVE  Conveyed(k, l, r, d)
<1>0. k \in Nat \ {0} /\ l \in Nat \ {0} /\ k + 2 \in Nat /\ l + 1 \in Nat
  BY DEF DbFacts, Sized
<1>l. \A n \in Nat : \A i \in 1 .. n : Lap(Times(r, n) + i, n) = r + 1 /\ Within(Times(r, n) + i, n) = i
  BY LapIs
<1>1. \A n \in {k, l, l + 1, k + 2} : \A i \in 1 .. n : Lap(Times(r, n) + i, n) = r + 1 /\ Within(Times(r, n) + i, n) = i
  BY <1>0, <1>l
<1>2. Times(r, k) \in Nat /\ Times(r, l) \in Nat /\ Times(r, l + 1) \in Nat /\ Times(r, k + 2) \in Nat
  BY <1>0 DEF Times
<1>3. \A n : Content(0, 1, n) = IF n <= k THEN PermSent(CuckooPerm, db.draws, db.bins, n) ELSE HelpDuplicate(Rows, db.choice)
  BY DEF Content
<1>4. \A n : Content(2, 1, n) = IF n <= k THEN RowsSent(FirstTable(2), db.draws, db.bins, n) ELSE DupSent((n - k) \div 2).sums
  BY DEF Content
<1>5. ASSUME d < k
      PROVE  /\ Content(0, 1, d + 1) = PermSent(CuckooPerm, db.draws, db.bins, d + 1)
             /\ Content(2, 1, d + 1) = RowsSent(FirstTable(2), db.draws, db.bins, d + 1)
             /\ Content(0, 2, Times(r, k) + d + 1) = RowsSent(PickRows, db.draws, SrcRows, d + 1)
             /\ Content(1, 2, Times(r, k + 2) + d + 1 + 1) = PermSent(SelPerm(r + 1), db.draws, SrcRows, d + 1)
             /\ Lap(Times(r, k + 2) + d + 1 + 1, k + 2) = r + 1
  <2> DEFINE n == Times(r, k) + d + 1
             m == Times(r, k + 2) + d + 1 + 1
  <2>1. d + 1 \in 1 .. k /\ d + 2 \in 1 .. k + 2 /\ d + 2 # k + 2 /\ (d + 2) - 1 = d + 1
        /\ n = Times(r, k) + (d + 1) /\ m = Times(r, k + 2) + (d + 2) /\ d + 1 <= k
    BY <1>0, <1>2, <1>5
  <2>2. Within(n, k) = d + 1 /\ Within(m, k + 2) = d + 2 /\ Lap(m, k + 2) = r + 1
    BY <1>1, <2>1
  <2>3. Content(0, 2, n) = RowsSent(PickRows, db.draws, SrcRows, Within(n, k))
    BY DEF Content
  <2>4. Content(1, 2, m) = IF Within(m, k + 2) = k + 2 THEN Bits(Lap(m, k + 2))
                           ELSE PermSent(SelPerm(Lap(m, k + 2)), db.draws, SrcRows, Within(m, k + 2) - 1)
    BY DEF Content
  <2> HIDE DEF n, m
  <2>5. Content(0, 2, n) = RowsSent(PickRows, db.draws, SrcRows, d + 1)
    BY <2>2, <2>3
  <2>6. Content(1, 2, m) = PermSent(SelPerm(r + 1), db.draws, SrcRows, d + 1) /\ Lap(m, k + 2) = r + 1
    BY <2>1, <2>2, <2>4
  <2> QED
    BY <1>3, <1>4, <2>1, <2>5, <2>6 DEF n, m
<1>6. ASSUME d < l
      PROVE  /\ Content(2, 0, Times(r, l) + d + 1) = RowsSent(Fresh2(r + 1), db.draws, Rows, d + 1)
             /\ Content(1, 0, Times(r, l + 1) + d + 1 + 1) = PermSent(FinalPerm(r + 1), db.draws, Rows, d + 1)
  <2> DEFINE n == Times(r, l) + d + 1
             m == Times(r, l + 1) + d + 1 + 1
  <2>1. d + 1 \in 1 .. l /\ d + 2 \in 1 .. l + 1 /\ (d + 2) - 1 = d + 1
        /\ n = Times(r, l) + (d + 1) /\ m = Times(r, l + 1) + (d + 2)
    BY <1>0, <1>2, <1>6
  <2>2. Within(n, l) = d + 1 /\ Lap(n, l) = r + 1 /\ Within(m, l + 1) = d + 2 /\ Lap(m, l + 1) = r + 1
    BY <1>1, <2>1
  <2>3. Content(2, 0, n) = RowsSent(Fresh2(Lap(n, l)), db.draws, Rows, Within(n, l))
    BY DEF Content
  <2>4. Content(1, 0, m) = PermSent(FinalPerm(Lap(m, l + 1)), db.draws, Rows, Within(m, l + 1) - 1)
    BY DEF Content
  <2> HIDE DEF n, m
  <2>5. Content(2, 0, n) = RowsSent(Fresh2(r + 1), db.draws, Rows, d + 1)
    BY <2>2, <2>3
  <2>6. Content(1, 0, m) = PermSent(FinalPerm(r + 1), db.draws, Rows, d + 1)
    BY <2>1, <2>2, <2>4
  <2> QED
    BY <2>5, <2>6 DEF n, m
<1>7. Content(0, 1, k + 2 * r + 1 + 1) = HelpDuplicate(Rows, db.choice) /\ Content(2, 1, k + 2 * r + 1 + 1) = DupSent(r + 1).sums
  <2>1. ~ (k + 2 * r + 1 + 1 <= k) /\ ((k + 2 * r + 1 + 1) - k) \div 2 = r + 1
    BY <1>0
  <2> QED
    BY <1>3, <1>4, <2>1
<1>8. Content(1, 2, Times(r, k + 2) + k + 1 + 1) = Bits(r + 1) /\ Lap(Times(r, k + 2) + k + 1 + 1, k + 2) = r + 1
  <2> DEFINE m == Times(r, k + 2) + k + 1 + 1
  <2>1. k + 2 \in 1 .. k + 2 /\ m = Times(r, k + 2) + (k + 2)
    BY <1>0, <1>2
  <2>2. Within(m, k + 2) = k + 2 /\ Lap(m, k + 2) = r + 1
    BY <1>1, <2>1
  <2>3. Content(1, 2, m) = IF Within(m, k + 2) = k + 2 THEN Bits(Lap(m, k + 2))
                           ELSE PermSent(SelPerm(Lap(m, k + 2)), db.draws, SrcRows, Within(m, k + 2) - 1)
    BY DEF Content
  <2> HIDE DEF m
  <2>4. Content(1, 2, m) = Bits(r + 1) /\ Lap(m, k + 2) = r + 1
    BY <2>2, <2>3
  <2> QED
    BY <2>4 DEF m
<1> QED
  BY <1>5, <1>6, <1>7, <1>8 DEF Conveyed

(* What server 0 is to send at each of its places, and what it takes;      *)
Told0(k, l, r, d) ==
  /\ d < k => Content(0, 1, SentAt(k, l, 0, 1, 0, -1, d) + 1) = PermSent(CuckooPerm, db.draws, db.bins, d + 1)
  /\ d < k => Content(0, 2, SentAt(k, l, 0, 2, r, 2, d) + 1) = RowsSent(PickRows, db.draws, SrcRows, d + 1)
  /\ Content(0, 1, SentAt(k, l, 0, 1, r, 3, d) + 1) = HelpDuplicate(Rows, db.choice)
  /\ d < l => Content(2, 0, GotAt(k, l, 2, 0, r, 4, d) + 1) = RowsSent(Fresh2(r + 1), db.draws, Rows, d + 1)
  /\ d < l => Content(1, 0, GotAt(k, l, 1, 0, r, 4, d) + 1) = PermSent(FinalPerm(r + 1), db.draws, Rows, d + 1)

(* The messages of server 0 say so.                                        *)
LEMMA Contents0 ==
  ASSUME DbFacts, NEW r \in 0 .. 2, NEW d \in Nat
  PROVE  Told0(TableChunks, OutChunks, r, d)
<1> DEFINE k == TableChunks
           l == OutChunks
<1>1. k \in Nat \ {0} /\ l \in Nat \ {0} /\ LapsTo(r, k, l)
  BY LapsAre DEF DbFacts, Sized
<1>2. /\ SentAt(k, l, 0, 1, 0, -1, d) = d /\ SentAt(k, l, 0, 2, r, 2, d) = Times(r, k) + d
      /\ SentAt(k, l, 0, 1, r, 3, d) = k + 2 * r + 1 /\ GotAt(k, l, 2, 0, r, 4, d) = Times(r, l) + d
      /\ GotAt(k, l, 1, 0, r, 4, d) = Times(r, l + 1) + d + 1
  BY <1>1 DEF LapsTo, SentAt, GotAt, Part, OneIf, Times
<1>3. Conveyed(k, l, r, d)
  BY ContentsAre
<1>4. Told0(k, l, r, d)
  <2> HIDE DEF k, l
  <2> QED
    BY <1>2, <1>3 DEF Conveyed, Told0
<1> QED
  BY <1>4

(* the same for server 1,                                                  *)
Told1(k, l, r, d) ==
  /\ d < k => Content(1, 2, SentAt(k, l, 1, 2, r, 4, d) + 1) = PermSent(SelPerm(r + 1), db.draws, SrcRows, d + 1) /\ Lap(SentAt(k, l, 1, 2, r, 4, d) + 1, k + 2) = r + 1
  /\ Content(1, 2, SentAt(k, l, 1, 2, r, 5, d) + 1) = Bits(r + 1) /\ Lap(SentAt(k, l, 1, 2, r, 5, d) + 1, k + 2) = r + 1
  /\ d < l => Content(1, 0, SentAt(k, l, 1, 0, r, 7, d) + 1) = PermSent(FinalPerm(r + 1), db.draws, Rows, d + 1)
  /\ d < k => Content(2, 1, GotAt(k, l, 2, 1, 0, -2, d) + 1) = RowsSent(FirstTable(2), db.draws, db.bins, d + 1)
  /\ d < k => Content(0, 1, GotAt(k, l, 0, 1, 0, -2, d) + 1) = PermSent(CuckooPerm, db.draws, db.bins, d + 1)
  /\ Content(0, 1, GotAt(k, l, 0, 1, r, 6, d) + 1) = HelpDuplicate(Rows, db.choice)
  /\ Content(2, 1, GotAt(k, l, 2, 1, r, 6, d) + 1) = DupSent(r + 1).sums

(* Those of server 1 do.                                                   *)
LEMMA Contents1 ==
  ASSUME DbFacts, NEW r \in 0 .. 2, NEW d \in Nat
  PROVE  Told1(TableChunks, OutChunks, r, d)
<1> DEFINE k == TableChunks
           l == OutChunks
<1>1. k \in Nat \ {0} /\ l \in Nat \ {0} /\ LapsTo(r, k, l)
  BY LapsAre DEF DbFacts, Sized
<1>2. /\ SentAt(k, l, 1, 2, r, 4, d) = Times(r, k + 2) + d + 1 /\ SentAt(k, l, 1, 2, r, 5, d) = Times(r, k + 2) + k + 1
      /\ SentAt(k, l, 1, 0, r, 7, d) = Times(r, l + 1) + d + 1 /\ GotAt(k, l, 2, 1, 0, -2, d) = d
      /\ GotAt(k, l, 0, 1, 0, -2, d) = d /\ GotAt(k, l, 0, 1, r, 6, d) = k + 2 * r + 1
      /\ GotAt(k, l, 2, 1, r, 6, d) = k + 2 * r + 1
  BY <1>1 DEF LapsTo, SentAt, GotAt, Part, OneIf, Times
<1>3. Conveyed(k, l, r, d)
  BY ContentsAre
<1>4. Told1(k, l, r, d)
  <2> HIDE DEF k, l
  <2> QED
    BY <1>2, <1>3 DEF Conveyed, Told1
<1> QED
  BY <1>4

(* and for server 2.                                                       *)
Told2(k, l, r, d) ==
  /\ d < k => Content(2, 1, SentAt(k, l, 2, 1, 0, -1, d) + 1) = RowsSent(FirstTable(2), db.draws, db.bins, d + 1)
  /\ Content(2, 1, SentAt(k, l, 2, 1, r, 3, d) + 1) = DupSent(r + 1).sums
  /\ d < l => Content(2, 0, SentAt(k, l, 2, 0, r, 4, d) + 1) = RowsSent(Fresh2(r + 1), db.draws, Rows, d + 1)
  /\ d < k => Content(0, 2, GotAt(k, l, 0, 2, r, 2, d) + 1) = RowsSent(PickRows, db.draws, SrcRows, d + 1)
  /\ d < k => Content(1, 2, GotAt(k, l, 1, 2, r, 2, d) + 1) = PermSent(SelPerm(r + 1), db.draws, SrcRows, d + 1) /\ Lap(GotAt(k, l, 1, 2, r, 2, d) + 1, k + 2) = r + 1
  /\ Content(1, 2, GotAt(k, l, 1, 2, r, 3, d) + 1) = Bits(r + 1) /\ Lap(GotAt(k, l, 1, 2, r, 3, d) + 1, k + 2) = r + 1

(* And those of server 2.                                                  *)
LEMMA Contents2 ==
  ASSUME DbFacts, NEW r \in 0 .. 2, NEW d \in Nat
  PROVE  Told2(TableChunks, OutChunks, r, d)
<1> DEFINE k == TableChunks
           l == OutChunks
<1>1. k \in Nat \ {0} /\ l \in Nat \ {0} /\ LapsTo(r, k, l)
  BY LapsAre DEF DbFacts, Sized
<1>2. /\ SentAt(k, l, 2, 1, 0, -1, d) = d /\ SentAt(k, l, 2, 1, r, 3, d) = k + 2 * r + 1
      /\ SentAt(k, l, 2, 0, r, 4, d) = Times(r, l) + d /\ GotAt(k, l, 0, 2, r, 2, d) = Times(r, k) + d
      /\ GotAt(k, l, 1, 2, r, 2, d) = Times(r, k + 2) + d + 1 /\ GotAt(k, l, 1, 2, r, 3, d) = Times(r, k + 2) + k + 1
  BY <1>1 DEF LapsTo, SentAt, GotAt, Part, OneIf, Times
<1>3. Conveyed(k, l, r, d)
  BY ContentsAre
<1>4. Told2(k, l, r, d)
  <2> HIDE DEF k, l
  <2> QED
    BY <1>2, <1>3 DEF Conveyed, Told2
<1> QED
  BY <1>4

(* What the servers compute from the tables, the hash and the draws alone. *)
Fixed ==
  /\ \A q, p, n : Content(q, p, n)' = Content(q, p, n)
  /\ \A q, p, n, msg : Tells(q, p, n, msg)' = Tells(q, p, n, msg)
  /\ \A p, r, o, d, w, m : Holds(p, r, o, d, w, m)' = Holds(p, r, o, d, w, m)

(* None of it changes.                                                     *)
LEMMA FixedIs ==
  ASSUME db' = db
  PROVE  Fixed
<1>1. /\ Rows' = Rows /\ SrcRows' = SrcRows /\ TableChunks' = TableChunks /\ OutChunks' = OutChunks
      /\ NewTemp' = NewTemp
  BY DEF Rows, SrcRows, TableChunks, OutChunks, NewTemp
<1>2. \A i : Positions(i)' = Positions(i)
  BY DEF Positions
<1>3. \A h : Sorted(h)' = Sorted(h)
  <2> SUFFICES ASSUME NEW h PROVE Sorted(h)' = Sorted(h)
    OBVIOUS
  <2>1. Switches(h)' = Switches(h)
    BY <1>2 DEF Switches
  <2>2. Counts(h)' = Counts(h)
    <3>1. \A b : {i \in DOMAIN db'.left : Positions(i)'[h] = b} = {i \in DOMAIN db.left : Positions(i)[h] = b}
      BY <1>2
    <3> QED
      BY <3>1 DEF Counts
  <2> QED
    BY <2>1, <2>2 DEF Sorted
<1>4. \A h : FinalPerm(h)' = FinalPerm(h)
  BY <1>3 DEF FinalPerm
<1>5. \A b : InBin(b)' = InBin(b)
  BY DEF InBin
<1>6. CuckooPerm' = CuckooPerm
  <2>1. EmptyBins' = EmptyBins
    BY <1>5 DEF EmptyBins
  <2>2. \A n : NthEmpty(n)' = NthEmpty(n)
    BY <2>1, Zenon DEF NthEmpty
  <2> QED
    BY <2>2 DEF CuckooPerm
<1>7. \A r : RightRow(r)' = RightRow(r)
  <2>1. Travels' = Travels
    BY DEF Travels
  <2>2. \A r : Right(r)' = Right(r)
    BY DEF Right
  <2> QED
    BY <2>1, <2>2 DEF RightRow
<1>8. FirstTable(0)' = FirstTable(0)
  <2>1. \A b : UNION {Share0(r) : r \in InBin(b)'} = UNION {Share0(r) : r \in InBin(b)}
    BY <1>5
  <2> QED
    BY <1>5, <2>1 DEF FirstTable
<1>9. FirstTable(1)' = FirstTable(1)
  BY DEF FirstTable
<1>10. FirstTable(2)' = FirstTable(2)
  BY <1>7 DEF FirstTable
<1>11. /\ CuckooOut' = CuckooOut /\ RightOut' = RightOut
  BY <1>6, <1>10 DEF CuckooOut, RightOut
<1>12. Tab0' = Tab0 /\ Tab1' = Tab1
  BY <1>8, <1>9, <1>11 DEF Tab0, Tab1
<1>13. PickRows' = PickRows /\ PickOut' = PickOut
  BY <1>1, <1>12 DEF PickRows, PickOut
<1>14. \A h : SelPerm(h)' = SelPerm(h) /\ SelOut(h)' = SelOut(h)
  BY <1>1, <1>3 DEF SelPerm, SelOut
<1>15. \A h : Temp1(h)' = Temp1(h) /\ Temp2(h)' = Temp2(h)
  BY <1>1, <1>13, <1>14 DEF Temp1, Temp2
<1>16. \A h : Bits(h)' = Bits(h) /\ DupSent(h)' = DupSent(h) /\ Fresh2(h)' = Fresh2(h)
  BY <1>3, <1>15 DEF Bits, DupSent, Fresh2
<1>17. \A h : Tmp1(h)' = Tmp1(h)
  BY <1>1, <1>3, <1>15, <1>16 DEF Tmp1
<1>18. \A h : Own(h)' = Own(h)
  BY <1>1, <1>2, <1>12 DEF Own
<1>19. \A h : LastOut(h)' = LastOut(h) /\ LastRows(h)' = LastRows(h)
  BY <1>1, <1>4, <1>16 DEF LastOut, LastRows
<1>20. \A h : AddedOut(h)' = AddedOut(h)
  BY <1>4, <1>17, <1>18 DEF AddedOut
<1>21. \A h : Out1(h)' = Out1(h) /\ Out0(h)' = Out0(h)
  BY <1>1, <1>19, <1>20 DEF Out1, Out0
<1>22. \A q, p, n : Content(q, p, n)' = Content(q, p, n)
  BY <1>1, <1>4, <1>6, <1>10, <1>13, <1>14, <1>16 DEF Content
<1>23. \A q, p, n, msg : Tells(q, p, n, msg)' = Tells(q, p, n, msg)
  <2>1. \A q, p, n : Expected(q, p, n)' = Expected(q, p, n)
    BY DbStays DEF Same
  <2> QED
    BY <1>1, <1>3, <1>22, <2>1 DEF Tells
<1>24. \A p, r, o, d, w, m : Holds(p, r, o, d, w, m)' = Holds(p, r, o, d, w, m)
  <2> SUFFICES ASSUME NEW p, NEW r, NEW o, NEW d, NEW w, NEW m PROVE Holds(p, r, o, d, w, m)' = Holds(p, r, o, d, w, m)
    OBVIOUS
  <2>1. Holds0(r, o, d, w, m)' = Holds0(r, o, d, w, m)
    BY <1>1, <1>6, <1>8, <1>12, <1>13, <1>19, <1>21 DEF Holds0
  <2>2. Holds1(r, o, d, w, m)' = Holds1(r, o, d, w, m)
    BY <1>1, <1>3, <1>4, <1>9, <1>11, <1>12, <1>14, <1>15, <1>18, <1>20, <1>21 DEF Holds1
  <2>3. Holds2(r, o, d, w, m)' = Holds2(r, o, d, w, m)
    BY <1>1, <1>10, <1>13, <1>14, <1>15, <1>16 DEF Holds2
  <2> QED
    BY <2>1, <2>2, <2>3 DEF Holds
<1> QED
  BY <1>22, <1>23, <1>24 DEF Fixed

(* What a call sends is told, so every channel holds what it should.       *)
LEMMA ContentKeeps ==
  ASSUME JoinInv, DbFacts, ContentIn, NEW p \in Party, ~ Finished(p), NEW msg0, Effect(p, msg0),
         NEW msg, ChanMoved(p, msg),
         To(Now(p)) \in Party => Tells(p, To(Now(p)), SentNow(p, To(Now(p))) + 1, msg)
  PROVE  ContentIn'
<1> DEFINE c == CallAt(p, pc[p])
<1>0. Now(p) = c /\ pc[p] < CallCount(p)
  BY Acting
<1>1. /\ db' = db
      /\ \A q \in From(c) : chan[<<q, p>>] # <<>>
  BY DEF Effect
<1>2. chan' = [x \in Party \X Party |-> Moved(chan[x], x[2] = p /\ x[1] \in From(c), x[1] = p /\ x[2] = To(c), msg)]
  BY <1>0 DEF ChanMoved
<1>t. To(c) \in Party => Tells(p, To(c), SentNow(p, To(c)) + 1, msg)
  BY <1>0
<1>3. ASSUME NEW q \in Party, NEW r \in Party
      PROVE  \A i \in 1 .. SentNow(q, r)' - GotNow(q, r)' : Tells(q, r, GotNow(q, r)' + i, chan'[<<q, r>>][i])
  <2> DEFINE taken == r = p /\ q \in From(c)
             put == q = p /\ r = To(c)
             s == SentNow(q, r)
             g == GotNow(q, r)
             ch == chan[<<q, r>>]
             t == chan'[<<q, r>>]
             s1 == Sent(TableChunks', OutChunks', q, r, pc'[q], done'[q])
             g1 == Got(TableChunks', OutChunks', q, r, pc'[r], done'[r])
  <2>0. SentNow(q, r)' = s1 /\ GotNow(q, r)' = g1
    BY DEF SentNow, GotNow
  <2>1. s1 = s + OneIf(put) /\ g1 = g + OneIf(taken)
    BY <1>0, CountsMove
  <2>2. /\ s \in Nat /\ g \in Nat /\ Matrix(ch, s - g)
        /\ \A i \in 1 .. s - g : Tells(q, r, g + i, ch[i])
    BY DEF JoinInv, ChanIn, Carries, ContentIn
  <2>3. t = Moved(ch, taken, put, msg)
    BY <1>2
  <2>4. taken => ch # <<>>
    BY <1>1
  <2>5. put => Tells(q, r, s + 1, msg)
    BY <1>t
  <2>b. taken \in BOOLEAN /\ put \in BOOLEAN
    OBVIOUS
  <2>u. s1 = s + OneIf(put) /\ g1 = g + OneIf(taken)
    BY <2>1
  <2> HIDE DEF taken, put, s, g, ch, t
  <2>7. QueueIs(t, ch, s - g, taken, put, msg)
    BY <2>2, <2>3, <2>4, <2>b, QueueMoves
  <2>8. s - g \in Nat /\ (taken => s - g # 0)
    BY <2>2, <2>4, QueueEmpty DEF Matrix
  <2> DEFINE w == s1 - g1
  <2> HIDE DEF s1, g1
  <2>9. s1 \in Nat /\ g1 \in Nat /\ w = (s - g) - OneIf(taken) + OneIf(put) /\ w \in Nat
    BY <2>2, <2>8, <2>u DEF OneIf
  <2>11. ASSUME NEW i \in 1 .. w PROVE Tells(q, r, g1 + i, t[i])
    <3>1. CASE i \in 1 .. (s - g) - OneIf(taken)
      <4> DEFINE j == i + OneIf(taken)
      <4>1. j \in 1 .. s - g /\ g + j = g1 + i
        BY <2>2, <2>8, <2>u, <3>1 DEF OneIf
      <4>2. t[i] = ch[j]
        BY <2>7, <3>1 DEF QueueIs
      <4> HIDE DEF j
      <4> QED
        BY <2>2, <4>1, <4>2
    <3>2. CASE i \notin 1 .. (s - g) - OneIf(taken)
      <4>1. put /\ i = (s - g) - OneIf(taken) + 1 /\ g1 + i = s + 1
        BY <2>2, <2>8, <2>9, <2>u, <3>2 DEF OneIf
      <4>2. t[i] = msg
        BY <2>7, <4>1 DEF QueueIs
      <4> QED
        BY <2>5, <4>1, <4>2
    <3> QED
      BY <3>1, <3>2
  <2> QED
    BY <2>0, <2>11 DEF w, t
<1>4. \A q, r, n, m : Tells(q, r, n, m)' = Tells(q, r, n, m)
  BY <1>1, FixedIs DEF Fixed
<1> QED
  BY <1>3, <1>4 DEF ContentIn

(* The first message of a channel that is waited for says what it should.  *)
LEMMA HeardContent ==
  ASSUME JoinInv, DbFacts, ContentIn, NEW p \in Party, ~ Finished(p), NEW q \in Party,
         q \in From(Now(p)), Now(p).op # "greeted", chan[<<q, p>>] # <<>>
  PROVE  /\ Received(q, p) = Content(q, p, GotNow(q, p) + 1)
         /\ q = 1 /\ p = 2 => Validate(Sorted(Lap(GotNow(q, p) + 1, TableChunks + 2)))
<1> DEFINE c == CallAt(p, pc[p])
           s == chan[<<q, p>>]
           g == GotNow(q, p)
           m == SentNow(q, p) - g
<1>0. Now(p) = c /\ pc[p] < CallCount(p)
  BY Acting
<1>1. Expected(q, p, g + 1) = Hears(c, done[p], q)
  BY <1>0, Heard
<1>2. Hears(c, done[p], q)[1] # "hello"
  <2>1. c.op # "greeted"
    BY <1>0
  <2> HIDE DEF c
  <2> QED
    BY <2>1 DEF Hears
<1>3. Matrix(s, m) /\ \A i \in 1 .. m : Tells(q, p, g + i, s[i])
  BY DEF JoinInv, ChanIn, Carries, ContentIn
<1>4. Received(q, p) = Head(s).data
  BY DEF Received, First
<1> HIDE DEF s, m, g, c
<1>5. s # <<>> /\ m \in Nat
  BY <1>3 DEF Matrix, s
<1>6. m # 0 /\ Head(s) = s[1]
  BY <1>3, <1>5, QueueEmpty
<1>7. Tells(q, p, g + 1, s[1])
  BY <1>3, <1>5, <1>6
<1>8. Expected(q, p, g + 1)[1] # "hello"
  BY <1>1, <1>2
<1> QED
  BY <1>4, <1>6, <1>7, <1>8 DEF Tells, g

(* A handshake says nothing of the tables.                                 *)
LEMMA TellsHello ==
  ASSUME JoinInv, DbFacts, NEW p \in Party, ~ Finished(p), NEW msg0, Effect(p, msg0), To(Now(p)) \in Party, NEW msg
  PROVE  /\ Now(p).op = "hello" => Tells(p, To(Now(p)), SentNow(p, To(Now(p))) + 1, msg)
         /\ p # 1 /\ msg.data = Content(p, To(Now(p)), SentNow(p, To(Now(p))) + 1) =>
              Tells(p, To(Now(p)), SentNow(p, To(Now(p))) + 1, msg)
<1> DEFINE c == CallAt(p, pc[p])
           q == To(c)
<1>0. Now(p) = c /\ pc[p] < CallCount(p)
  BY Acting
<1>1. Expected(p, q, SentNow(p, q) + 1) = Says(c, done[p])
  BY <1>0, CountsMove
<1>2. c.op = "hello" => Says(c, done[p])[1] = "hello"
  <2> HIDE DEF c
  <2> QED
    BY DEF Says
<1> HIDE DEF c, q
<1> QED
  BY <1>0, <1>1, <1>2 DEF Tells, q

(* Making the next chunk, from what the chunks before it have left.        *)
ChunkNext(s0, draws, m, d, w, s) ==
  /\ m \in Nat \ {0} /\ d \in 0 .. Chunks(m) - 1 /\ Matrix(s0, m) /\ \A i \in 1 .. m : draws[i] \in Nat
  /\ s = IF d = 0 THEN s0 ELSE w
SendNext(s0, draws, m, d, w, s, t) ==
  /\ ChunkNext(s0, draws, m, d, w, s)
  /\ d > 0 => w = Sending(s0, draws, m, d * Step)
  /\ t = Masked(ShuffleChunk(s, draws, d + 1), d + 1)
ProgramNext(s0, draws, m, d, w, s, t) ==
  /\ ChunkNext(s0, draws, m, d, w, s)
  /\ d > 0 => w = Arranged(s0, draws, m, d * Step)
  /\ t = ShuffleChunk(s, draws, d + 1)

(* Sending the next chunk of s0.                                           *)
LEMMA SendStep ==
  ASSUME NEW s0, NEW draws, NEW m, NEW d, NEW w, NEW s, NEW t,
         SendNext(s0, draws, m, d, w, s, t)
  PROVE  /\ ChunkOf(t, d + 1) = RowsSent(s0, draws, m, d + 1)
         /\ d + 1 < Chunks(m) => t = Sending(s0, draws, m, (d + 1) * Step)
<1>0. /\ m \in Nat \ {0} /\ d \in 0 .. Chunks(m) - 1 /\ Matrix(s0, m) /\ \A i \in 1 .. m : draws[i] \in Nat
      /\ s = IF d = 0 THEN s0 ELSE w
      /\ d > 0 => w = Sending(s0, draws, m, d * Step)
      /\ t = Masked(ShuffleChunk(s, draws, d + 1), d + 1)
  BY DEF SendNext, ChunkNext
<1> DEFINE c == d + 1
           b == (c - 1) * Step
           e == b + ChunkLen(m, c)
<1>1. c \in 1 .. Chunks(m) /\ c - 1 = d
  BY <1>0, ChunksFacts
<1>2. s = Sending(s0, draws, m, b)
  <2>1. CASE d = 0
    <3>1. b = 0
      BY <1>0, <2>1, StepAssumption
    <3> HIDE DEF b
    <3> QED
      BY <1>0, <2>1, <3>1, Unshuffled
  <2>2. CASE d # 0
    <3>1. d > 0 /\ b = d * Step
      BY <1>0, <2>2
    <3> HIDE DEF b
    <3> QED
      BY <1>0, <2>2, <3>1
  <2> QED
    BY <1>0, <2>1, <2>2
<1>3. c < Chunks(m) => e = c * Step
  BY <1>0, <1>1, ChunkEnds
<1>c. c = d + 1
  BY <1>0
<1>a. IsChunk(draws, m, c, b, e)
  BY <1>0, <1>1 DEF IsChunk
<1> HIDE DEF b, e, c
<1>4. /\ Masked(ShuffleChunk(Sending(s0, draws, m, b), draws, c), c) = Sending(s0, draws, m, e)
      /\ ChunkOf(Sending(s0, draws, m, e), c) = RowsSent(s0, draws, m, c)
  BY <1>0, <1>a, SendingChunk DEF SendsChunk
<1>5. t = Masked(ShuffleChunk(s, draws, c), c)
  BY <1>0, <1>c
<1> QED
  BY <1>0, <1>2, <1>3, <1>4, <1>5, <1>c

(* The same for the next chunk of a permutation.                           *)
LEMMA ProgramStep ==
  ASSUME NEW s0, NEW draws, NEW m, NEW d, NEW w, NEW s, NEW t,
         ProgramNext(s0, draws, m, d, w, s, t)
  PROVE  /\ ChunkOf(t, d + 1) = PermSent(s0, draws, m, d + 1)
         /\ t = IF d + 1 < Chunks(m) THEN Arranged(s0, draws, m, (d + 1) * Step) ELSE PermOut(s0, draws, m)
<1>0. /\ m \in Nat \ {0} /\ d \in 0 .. Chunks(m) - 1 /\ Matrix(s0, m) /\ \A i \in 1 .. m : draws[i] \in Nat
      /\ s = IF d = 0 THEN s0 ELSE w
      /\ d > 0 => w = Arranged(s0, draws, m, d * Step)
      /\ t = ShuffleChunk(s, draws, d + 1)
  BY DEF ProgramNext, ChunkNext
<1> DEFINE c == d + 1
           b == (c - 1) * Step
           e == b + ChunkLen(m, c)
<1>1. c \in 1 .. Chunks(m) /\ c - 1 = d
  BY <1>0, ChunksFacts
<1>2. s = Arranged(s0, draws, m, b)
  <2>1. CASE d = 0
    <3>1. b = 0
      BY <1>0, <2>1, StepAssumption
    <3> HIDE DEF b
    <3> QED
      BY <1>0, <2>1, <3>1, Unshuffled
  <2>2. CASE d # 0
    <3>1. d > 0 /\ b = d * Step
      BY <1>0, <2>2
    <3> HIDE DEF b
    <3> QED
      BY <1>0, <2>2, <3>1
  <2> QED
    BY <1>0, <2>1, <2>2
<1>3. e = IF c < Chunks(m) THEN c * Step ELSE m
  BY <1>0, <1>1, ChunkEnds
<1>c. c = d + 1
  BY <1>0
<1>a. IsChunk(draws, m, c, b, e)
  BY <1>0, <1>1 DEF IsChunk
<1> HIDE DEF b, e, c
<1>4. /\ ShuffleChunk(Arranged(s0, draws, m, b), draws, c) = Arranged(s0, draws, m, e)
      /\ ChunkOf(Arranged(s0, draws, m, e), c) = PermSent(s0, draws, m, c)
  BY <1>0, <1>a, ArrangedChunk DEF ArrangesChunk
<1>5. t = ShuffleChunk(s, draws, c)
  BY <1>0, <1>c
<1>6. t = Arranged(s0, draws, m, e)
  BY <1>0, <1>2, <1>4, <1>5
<1>7. t = IF c < Chunks(m) THEN Arranged(s0, draws, m, c * Step) ELSE Arranged(s0, draws, m, m)
  BY <1>0, <1>3, <1>6
<1> QED
  BY <1>0, <1>4, <1>6, <1>7, <1>c DEF PermOut

(* And taking one of each.                                                 *)
LEMMA RecvStep ==
  ASSUME NEW s0, NEW perm0, NEW draws, NEW m, NEW d, NEW dest0, NEW m0, NEW dest, NEW q, NEW y,
         m \in Nat \ {0}, d \in 0 .. Chunks(m) - 1, \A i \in 1 .. m : draws[i] \in Nat,
         Matrix(dest0, m0), OneToOne(perm0, m),
         dest = Delivered(dest0, PermOut(perm0, draws, m), RowsOut(s0, draws, m), d * Step),
         q = PermSent(perm0, draws, m, d + 1), y = RowsSent(s0, draws, m, d + 1)
  PROVE  Placed(dest, q, y) = Delivered(dest0, PermOut(perm0, draws, m), RowsOut(s0, draws, m),
                                        IF d + 1 < Chunks(m) THEN (d + 1) * Step ELSE m)
<1> DEFINE c == d + 1
           b == (c - 1) * Step
           n == ChunkLen(m, c)
           P == PermOut(perm0, draws, m)
           X == RowsOut(s0, draws, m)
<1>1. c \in 1 .. Chunks(m) /\ c - 1 = d
  BY ChunksFacts
<1>2. b \in Nat /\ n \in Nat /\ b = d * Step
  BY <1>1, ChunksFacts
<1>3. IF c < Chunks(m) THEN b + n = c * Step ELSE b + n = m
  BY <1>1, ChunkEnds
<1>4. b + n <= m
  BY <1>1, ChunksFacts
<1>5. OneToOne(P, m)
  BY OutIs
<1>6. /\ Matrix(q, n)
      /\ \A i \in 1 .. n : q[i] = P[b + i] /\ y[i] = X[b + i]
  BY <1>1, ChunksOut
<1>7. dest = Delivered(dest0, P, X, b)
  BY <1>2
<1>c. c = d + 1
  OBVIOUS
<1> HIDE DEF b, n, P, X, c
<1>8. Placed(Delivered(dest0, P, X, b), q, y) = Delivered(dest0, P, X, b + n)
  BY <1>2, <1>4, <1>5, <1>6, DeliveredChunk
<1>9. b + n = IF c < Chunks(m) THEN c * Step ELSE m
  BY <1>3
<1> QED
  BY <1>7, <1>8, <1>9, <1>c DEF P, X

(* The names of the matrices.                                              *)
LEMMA Names ==
  /\ "table" \in MemNames /\ "temp" \in MemNames
  /\ \A h \in 1 .. 3 : Out(h) \in MemNames /\ Out(h) # "table" /\ Out(h) # "temp"
  /\ \A g, h \in 1 .. 3 : Out(g) = Out(h) => g = h
<1>1. "table" \in MemNames /\ "temp" \in MemNames /\ \A h \in 1 .. 3 : Out(h) \in MemNames
  BY Zenon DEF MemNames
<1> QED
  BY <1>1 DEF Out

(* What the next place and the matrices are after a step.                  *)
Stored(m, m1, name, x) == m1[name] = x /\ \A n \in MemNames : n # name => m1[n] = m[n]
After(p, s, r, o, d, w, m) ==
  IF d + 1 < s THEN Holds(p, r, o, d + 1, w, m)
  ELSE IF o = LastPlace(p) THEN Holds(p, r + 1, 0, 0, w, m) ELSE Holds(p, r, o + 1, 0, w, m)

(* One matrix replaced.                                                    *)
LEMMA StoredIs ==
  ASSUME JoinInv, NEW p \in Party, NEW name \in MemNames, NEW x, Write(p, name, x)
  PROVE  mem' = [mem EXCEPT ![p] = mem'[p]] /\ Stored(mem[p], mem'[p], name, x)
<1>1. mem = [q \in Party |-> mem[q]] /\ mem[p] = [n \in MemNames |-> mem[p][n]]
  BY DEF JoinInv, MemIn
<1> DEFINE m == [mem[p] EXCEPT ![name] = x]
<1>2. mem' = [mem EXCEPT ![p] = m]
  BY DEF Write
<1>3. m[name] = x /\ \A n \in MemNames : n # name => m[n] = mem[p][n]
  BY <1>1
<1> HIDE DEF m
<1>4. mem'[p] = m
  BY <1>1, <1>2
<1> QED
  BY <1>2, <1>3, <1>4 DEF Stored

(* Only one server's values change.                                        *)
LEMMA ValuesKeep ==
  ASSUME JoinInv, DbFacts, ValuesIn, NEW p \in Party, pc[p] < CallCount(p), NEW msg, Effect(p, msg), NEW w, NEW m,
         work' = [work EXCEPT ![p] = w], mem' = [mem EXCEPT ![p] = m],
         IF Round(p, pc[p]) # 3
           THEN After(p, Span(CallAt(p, pc[p])), Round(p, pc[p]), Place(p, pc[p]), done[p], w, m)
           ELSE Holds(p, 3, 0, 0, w, m)
  PROVE  ValuesIn'
<1> DEFINE n == pc[p]
           d == done[p]
           s == Span(CallAt(p, n))
           r == Round(p, n)
           o == Place(p, n)
           over == d + 1 = s
<1>1. /\ pc \in [Party -> Nat] /\ done \in [Party -> Nat] /\ work = [q \in Party |-> work[q]] /\ mem = [q \in Party |-> mem[q]]
      /\ n \in Nat /\ d \in Nat /\ d < s /\ s \in Nat
  <2>1. pc \in [Party -> Nat] /\ done \in [Party -> Nat] /\ work = [q \in Party |-> work[q]] /\ mem = [q \in Party |-> mem[q]]
    BY DEF JoinInv, CallsIn, WorkIn, MemIn
  <2>2. d < s
    BY DEF JoinInv, CallsIn
  <2>3. s \in Nat
    BY <2>1, SpanPositive
  <2> QED
    BY <2>1, <2>2, <2>3
<1>2. /\ db' = db
      /\ pc' = [pc EXCEPT ![p] = IF over THEN n + 1 ELSE n]
      /\ done' = [done EXCEPT ![p] = IF over THEN 0 ELSE d + 1]
  BY DEF Effect
<1>3. IF r # 3 THEN After(p, s, r, o, d, w, m) ELSE Holds(p, 3, 0, 0, w, m)
  OBVIOUS
<1>4. /\ r # 3 => /\ Round(p, n + 1) = IF o = LastPlace(p) THEN r + 1 ELSE r
                  /\ Place(p, n + 1) = IF o = LastPlace(p) THEN 0 ELSE o + 1
      /\ r = 3 => Round(p, n + 1) = 3 /\ Place(p, n + 1) = 0 /\ s = 1
  <2>1. r = 3 => CallAt(p, n) = Call("finish", 0)
    BY <1>1, NextPlace
  <2>2. r = 3 => s = 1
    BY <2>1 DEF Span, Call
  <2> QED
    BY <1>1, <2>2, NextPlace
<1> HIDE DEF s
<1>5. Holds(p, Round(p, pc'[p]), Place(p, pc'[p]), done'[p], w, m)
  <2>1. CASE over
    <3>1. pc'[p] = n + 1 /\ done'[p] = 0 /\ ~ (d + 1 < s)
      BY <1>1, <1>2, <2>1
    <3> HIDE DEF n, d, r, o
    <3> QED
      BY <1>3, <1>4, <3>1 DEF After
  <2>2. CASE ~ over
    <3>1. pc'[p] = n /\ done'[p] = d + 1 /\ d + 1 < s /\ r # 3
      BY <1>1, <1>2, <1>4, <2>2
    <3> QED
      BY <1>3, <3>1 DEF After
  <2> QED
    BY <2>1, <2>2
<1>6. ASSUME NEW q \in Party PROVE Holds(q, Round(q, pc'[q]), Place(q, pc'[q]), done'[q], work'[q], mem'[q])
  <2>1. CASE q = p
    <3>1. work'[p] = w /\ mem'[p] = m
      BY <1>1
    <3> QED
      BY <1>5, <2>1, <3>1
  <2>2. CASE q # p
    <3>1. pc'[q] = pc[q] /\ done'[q] = done[q] /\ work'[q] = work[q] /\ mem'[q] = mem[q]
      BY <1>1, <1>2, <2>2
    <3> QED
      BY <3>1 DEF ValuesIn
  <2> QED
    BY <2>1, <2>2
<1>7. \A q, x, y, e, u, v : Holds(q, x, y, e, u, v)' = Holds(q, x, y, e, u, v)
  BY <1>2, FixedIs DEF Fixed
<1> QED
  BY <1>6, <1>7 DEF ValuesIn

-----------------------------------------------------------------------------
(* The steps once more, for what they do to the values.  A server is about *)
(* to make a step of its call at place o of round r, d chunks of it done.  *)
Acts(p, r, o, d) ==
  /\ JoinInv /\ DbFacts /\ ContentIn /\ ValuesIn /\ Act(p) /\ ~ Finished(p)
  /\ r = Round(p, pc[p]) /\ r # 3 /\ o = Place(p, pc[p]) /\ d = done[p]

(* Where the server is, and the numbers of its next messages.              *)
LEMMA ActsIs ==
  ASSUME NEW p \in Party, NEW r, NEW o, NEW d, Acts(p, r, o, d)
  PROVE  /\ pc[p] \in Nat /\ d \in Nat /\ d < Span(Now(p)) /\ d \in 0 .. Span(Now(p)) - 1
         /\ Now(p) = CallAt(p, pc[p]) /\ pc[p] < CallCount(p)
         /\ Holds(p, r, o, d, work[p], mem[p])
         /\ \A q \in Party : /\ SentNow(p, q) = SentAt(TableChunks, OutChunks, p, q, r, o, d)
                             /\ GotNow(q, p) = GotAt(TableChunks, OutChunks, q, p, r, o, d)
<1>1. pc[p] \in Nat /\ d \in Nat
  BY DEF Acts, JoinInv, CallsIn
<1>2. Now(p) = CallAt(p, pc[p]) /\ pc[p] < CallCount(p) /\ d \in 0 .. Span(Now(p)) - 1 /\ Span(Now(p)) \in Nat
  BY Acting DEF Acts
<1>3. Holds(p, r, o, d, work[p], mem[p])
  BY DEF Acts, ValuesIn
<1>4. \A q \in Party : /\ SentNow(p, q) = SentAt(TableChunks, OutChunks, p, q, r, o, d)
                       /\ GotNow(q, p) = GotAt(TableChunks, OutChunks, q, p, r, o, d)
  BY DEF Acts, SentNow, GotNow, Sent, Got
<1>5. d < Span(Now(p))
  BY <1>2
<1> QED
  BY <1>1, <1>2, <1>3, <1>4, <1>5

(* What a step has to show.                                                *)
Becomes(p, r, o, d, msg, w, m) ==
  /\ ChanMoved(p, msg) /\ work' = [work EXCEPT ![p] = w] /\ mem' = [mem EXCEPT ![p] = m]
  /\ To(Now(p)) \in Party => Tells(p, To(Now(p)), SentNow(p, To(Now(p))) + 1, msg)
  /\ After(p, Span(Now(p)), r, o, d, w, m)

(* It keeps the values then.                                               *)
LEMMA BecomesKeeps ==
  ASSUME NEW p \in Party, NEW r, NEW o, NEW d, Acts(p, r, o, d), NEW msg, NEW w, NEW m,
         Becomes(p, r, o, d, msg, w, m)
  PROVE  ContentIn' /\ ValuesIn'
<1>1. JoinInv /\ DbFacts /\ ContentIn /\ ValuesIn /\ ~ Finished(p)
  BY DEF Acts
<1>2. PICK msg0 : Effect(p, msg0)
  BY <1>1, ActKeeps DEF Acts, StepKeeps
<1>3. Now(p) = CallAt(p, pc[p]) /\ pc[p] < CallCount(p)
  BY ActsIs
<1>4. ContentIn'
  BY <1>1, <1>2, ContentKeeps DEF Becomes
<1>5. IF Round(p, pc[p]) # 3
        THEN After(p, Span(CallAt(p, pc[p])), Round(p, pc[p]), Place(p, pc[p]), done[p], w, m)
        ELSE Holds(p, 3, 0, 0, w, m)
  BY <1>3 DEF Acts, Becomes
<1>6. work' = [work EXCEPT ![p] = w] /\ mem' = [mem EXCEPT ![p] = m]
  BY DEF Becomes
<1>7. ValuesIn'
  BY <1>1, <1>2, <1>3, <1>5, <1>6, ValuesKeep
<1> QED
  BY <1>4, <1>7

(* What stays.                                                             *)
LEMMA Stays ==
  ASSUME JoinInv, NEW p \in Party
  PROVE  /\ work' = work => work' = [work EXCEPT ![p] = work[p]]
         /\ mem' = mem => mem' = [mem EXCEPT ![p] = mem[p]]
<1>1. work = [q \in Party |-> work[q]] /\ mem = [q \in Party |-> mem[q]]
  BY DEF JoinInv, WorkIn, MemIn
<1> QED
  BY <1>1

(* A chunk of a permutation: what is sent, what is kept, and behind the    *)
(* last chunk the destination with its masks removed.                      *)
Programs(p, c, s0, m, d, msg, w, x) ==
  /\ msg.data = PermSent(s0, db.draws, m, d + 1) /\ ChanMoved(p, msg) /\ work' = [work EXCEPT ![p] = w]
  /\ To(c) = c.to /\ Span(c) = Chunks(m) /\ d < Chunks(m)
  /\ IF d + 1 < Chunks(m) THEN w = Arranged(s0, db.draws, m, (d + 1) * Step) /\ mem' = mem
     ELSE Write(p, c.name, Unmasked(x, PermOut(s0, db.draws, m), c.name # "temp"))

(* A step of a permutation does that.                                      *)
LEMMA ProgramIs ==
  ASSUME JoinInv, DbFacts, NEW p \in Party, ProgramChunk(p), NEW s0, NEW m, NEW d, NEW x, NEW c, d = done[p], c = Now(p),
         s0 = Permutation(c), m = Size(c), d > 0 => work[p] = Arranged(s0, db.draws, m, d * Step),
         x = IF c.name = "temp" THEN NewTemp ELSE mem[p][c.name]
  PROVE  \E msg, w : Programs(p, c, s0, m, d, msg, w, x)
<1> DEFINE s == IF d = 0 THEN s0 ELSE work[p]
           t == ShuffleChunk(s, db.draws, d + 1)
           data == ChunkOf(t, d + 1)
           msg == [kind |-> "perm", data |-> data]
<1>1. /\ ~ Finished(p) /\ c.op = "permProgram"
      /\ work' = [work EXCEPT ![p] = t]
      /\ Sends(p, c.to, "perm", data)
      /\ IF d + 1 < Chunks(Len(s)) THEN mem' = mem
         ELSE Write(p, c.name, Unmasked(x, t, c.name # "temp"))
  BY DEF ProgramChunk, At
<1>2. /\ c = CallAt(p, pc[p]) /\ pc[p] < CallCount(p) /\ CallOK(c)
      /\ d \in 0 .. Span(c) - 1 /\ Span(c) \in Nat \ {0}
  BY <1>1, Acting
<1>3. d > 0 => Matrix(work[p], m)
  BY <1>1, <1>2 DEF JoinInv, WorkIn
<1>4. /\ c.to \in Party /\ To(c) = c.to /\ Span(c) = Chunks(m)
  BY <1>1, <1>2 DEF CallOK, To, Span
<1>5. m \in Nat \ {0} /\ \A i \in 1 .. m : db.draws[i] \in Nat
  <2>1. m = db.bins \/ m = SrcRows \/ m = Rows
    BY <1>1 DEF Size
  <2> QED
    BY <2>1 DEF DbFacts
<1>p. Matrix(s0, m)
  BY <1>1, <1>2, PermutationIs DEF JoinInv
<1>d. d \in 0 .. Chunks(m) - 1 /\ d < Chunks(m)
  <2> DEFINE k == Chunks(m)
  <2>1. d \in 0 .. k - 1 /\ k \in Nat \ {0}
    BY <1>2, <1>4
  <2> HIDE DEF k
  <2>2. d < k
    BY <2>1
  <2> QED
    BY <2>1, <2>2 DEF k
<1>6. Len(s) = m
  <2>1. Matrix(s, m)
    BY <1>3, <1>p, <1>d
  <2> HIDE DEF s
  <2> QED
    BY <2>1, MatrixLen
<1> DEFINE draws == db.draws
<1>7. /\ ChunkOf(t, d + 1) = PermSent(s0, draws, m, d + 1)
      /\ t = IF d + 1 < Chunks(m) THEN Arranged(s0, draws, m, (d + 1) * Step) ELSE PermOut(s0, draws, m)
  <2> DEFINE w0 == work[p]
  <2>1. t = ShuffleChunk(s, draws, d + 1)
    OBVIOUS
  <2>2. s = IF d = 0 THEN s0 ELSE w0
    OBVIOUS
  <2>3. d > 0 => w0 = Arranged(s0, draws, m, d * Step)
    OBVIOUS
  <2>4. \A i \in 1 .. m : draws[i] \in Nat
    BY <1>5
  <2> HIDE DEF t, s, draws, w0
  <2>5. ProgramNext(s0, draws, m, d, w0, s, t)
    BY <1>5, <1>p, <1>d, <2>1, <2>2, <2>3, <2>4 DEF ProgramNext, ChunkNext
  <2> QED
    BY <2>5, ProgramStep
<1> HIDE DEF t, s
<1>8. ChanMoved(p, msg)
  BY <1>1, <1>4, SendsIs
<1>9. Programs(p, c, s0, m, d, msg, t, x)
  BY <1>1, <1>4, <1>6, <1>7, <1>8, <1>d DEF Programs
<1> QED
  BY <1>9

(* A chunk of rows.                                                        *)
SendsRows(p, c, s0, m, d, msg, w) ==
  /\ msg.data = RowsSent(s0, db.draws, m, d + 1) /\ ChanMoved(p, msg) /\ work' = [work EXCEPT ![p] = w]
  /\ To(c) = c.to /\ Span(c) = Chunks(m) /\ d < Chunks(m) /\ mem' = mem
  /\ d + 1 < Chunks(m) => w = Sending(s0, db.draws, m, (d + 1) * Step)

(* A step of a call that sends rows does that.                             *)
LEMMA SendIs ==
  ASSUME JoinInv, DbFacts, NEW p \in Party, SendChunk(p), NEW s0, NEW m, NEW d, NEW c, d = done[p], c = Now(p),
         s0 = Resized(mem[p][c.name], c.rows), m = c.rows, d > 0 => work[p] = Sending(s0, db.draws, m, d * Step)
  PROVE  \E msg, w : SendsRows(p, c, s0, m, d, msg, w)
<1> DEFINE s == IF d = 0 THEN s0 ELSE work[p]
           t == Masked(ShuffleChunk(s, db.draws, d + 1), d + 1)
           data == ChunkOf(t, d + 1)
           msg == [kind |-> "rows", data |-> data]
<1>1. /\ ~ Finished(p) /\ c.op = "permSend"
      /\ work' = [work EXCEPT ![p] = t]
      /\ Sends(p, c.to, "rows", data) /\ mem' = mem
  BY DEF SendChunk, At
<1>2. /\ c = CallAt(p, pc[p]) /\ pc[p] < CallCount(p) /\ CallOK(c)
      /\ d \in 0 .. Span(c) - 1 /\ Span(c) \in Nat \ {0}
  BY <1>1, Acting
<1>4. /\ c.to \in Party /\ To(c) = c.to /\ Span(c) = Chunks(m)
  BY <1>1, <1>2 DEF CallOK, To, Span, Size
<1>5. m \in Nat \ {0} /\ \A i \in 1 .. m : db.draws[i] \in Nat
  BY <1>1, <1>2 DEF CallOK, Sizes, DbFacts
<1>p. Matrix(s0, m)
  BY <1>5 DEF Resized, Matrix
<1>d. d \in 0 .. Chunks(m) - 1 /\ d < Chunks(m)
  <2> DEFINE k == Chunks(m)
  <2>1. d \in 0 .. k - 1 /\ k \in Nat \ {0}
    BY <1>2, <1>4
  <2> HIDE DEF k
  <2>2. d < k
    BY <2>1
  <2> QED
    BY <2>1, <2>2 DEF k
<1> DEFINE draws == db.draws
<1>7. /\ ChunkOf(t, d + 1) = RowsSent(s0, draws, m, d + 1)
      /\ d + 1 < Chunks(m) => t = Sending(s0, draws, m, (d + 1) * Step)
  <2> DEFINE w0 == work[p]
  <2>1. t = Masked(ShuffleChunk(s, draws, d + 1), d + 1)
    OBVIOUS
  <2>2. s = IF d = 0 THEN s0 ELSE w0
    OBVIOUS
  <2>3. d > 0 => w0 = Sending(s0, draws, m, d * Step)
    OBVIOUS
  <2>4. \A i \in 1 .. m : draws[i] \in Nat
    BY <1>5
  <2> HIDE DEF t, s, draws, w0
  <2>5. SendNext(s0, draws, m, d, w0, s, t)
    BY <1>5, <1>p, <1>d, <2>1, <2>2, <2>3, <2>4 DEF SendNext, ChunkNext
  <2> QED
    BY <2>5, SendStep
<1> HIDE DEF t, s
<1>8. ChanMoved(p, msg)
  BY <1>1, <1>4, SendsIs
<1>9. SendsRows(p, c, s0, m, d, msg, t)
  BY <1>1, <1>4, <1>7, <1>8, <1>d DEF SendsRows
<1> QED
  BY <1>9

(* A chunk of both taken.                                                  *)
Puts(p, c, s0, perm0, m, d, dest0) ==
  /\ ChanMoved(p, 0) /\ work' = work /\ To(c) = 3 /\ Span(c) = Chunks(m) /\ d < Chunks(m)
  /\ Write(p, c.name, Delivered(dest0, PermOut(perm0, db.draws, m), RowsOut(s0, db.draws, m),
                                IF d + 1 < Chunks(m) THEN (d + 1) * Step ELSE m))

(* A step of a call that takes both does that.                             *)
LEMMA RecvIs ==
  ASSUME JoinInv, DbFacts, ContentIn, NEW p \in Party, RecvChunk(p), NEW s0, NEW perm0, NEW m, NEW d, NEW dest0, NEW z, NEW c,
         d = done[p], c = Now(p), m \in Sizes, Chunks(m) = Chunks(c.rows),
         Matrix(dest0, z), OneToOne(perm0, m),
         (IF c.name = "temp" /\ d = 0 THEN NewTemp ELSE mem[p][c.name])
           = Delivered(dest0, PermOut(perm0, db.draws, m), RowsOut(s0, db.draws, m), d * Step),
         Content(c.data, p, GotNow(c.data, p) + 1) = RowsSent(s0, db.draws, m, d + 1),
         Content(c.perm, p, GotNow(c.perm, p) + 1) = PermSent(perm0, db.draws, m, d + 1)
  PROVE  Puts(p, c, s0, perm0, m, d, dest0)
<1> DEFINE dest == IF c.name = "temp" /\ d = 0 THEN NewTemp ELSE mem[p][c.name]
           q == Received(c.perm, p)
           y == Received(c.data, p)
           draws == db.draws
<1>1. /\ ~ Finished(p) /\ c.op = "permRecv" /\ Here(p)
      /\ Write(p, c.name, Placed(dest, q, y))
      /\ Receives(p) /\ work' = work
  BY DEF RecvChunk, At, Ready
<1>2. /\ c = CallAt(p, pc[p]) /\ pc[p] < CallCount(p) /\ CallOK(c)
      /\ d \in 0 .. Span(c) - 1 /\ Span(c) \in Nat \ {0}
  BY <1>1, Acting
<1>a. \A r \in From(c) : chan[<<r, p>>] # <<>>
  BY <1>1, AwaitsIs DEF Here
<1>3. To(c) = 3 /\ Span(c) = Chunks(m)
  BY <1>1 DEF To, Span, Size
<1>4. c.perm \in Party /\ c.data \in Party /\ c.perm \in From(c) /\ c.data \in From(c)
  BY <1>1, <1>2 DEF CallOK, From
<1>5. m \in Nat \ {0} /\ \A i \in 1 .. m : db.draws[i] \in Nat
  BY DEF Sizes, DbFacts
<1>d. d \in 0 .. Chunks(m) - 1 /\ d < Chunks(m)
  <2> DEFINE k == Chunks(m)
  <2>1. d \in 0 .. k - 1 /\ k \in Nat \ {0}
    BY <1>2, <1>3
  <2> HIDE DEF k
  <2>2. d < k
    BY <2>1
  <2> QED
    BY <2>1, <2>2 DEF k
<1>6. q = PermSent(perm0, draws, m, d + 1)
  BY <1>1, <1>4, <1>a, HeardContent
<1>7. y = RowsSent(s0, draws, m, d + 1)
  BY <1>1, <1>4, <1>a, HeardContent
<1>8. ChanMoved(p, 0)
  BY <1>1, <1>3, QuietIs
<1>9. Placed(dest, q, y) = Delivered(dest0, PermOut(perm0, draws, m), RowsOut(s0, draws, m),
                                        IF d + 1 < Chunks(m) THEN (d + 1) * Step ELSE m)
  <2>1. dest = Delivered(dest0, PermOut(perm0, draws, m), RowsOut(s0, draws, m), d * Step)
    OBVIOUS
  <2>2. \A i \in 1 .. m : draws[i] \in Nat
    BY <1>5
  <2> HIDE DEF dest, q, y, draws
  <2> QED
    BY <1>5, <1>6, <1>7, <1>d, <2>1, <2>2, RecvStep
<1> HIDE DEF dest, q, y
<1> QED
  BY <1>1, <1>3, <1>8, <1>9, <1>d DEF Puts

(* Which step a server makes is decided by its call.                       *)
LEMMA ActIs ==
  ASSUME NEW p, Act(p)
  PROVE  /\ Now(p).op = "hello" => SayHello(p)
         /\ Now(p).op = "greeted" => HearHello(p)
         /\ Now(p).op = "permSend" => SendChunk(p)
         /\ Now(p).op = "permProgram" => ProgramChunk(p)
         /\ Now(p).op = "permRecv" => RecvChunk(p)
         /\ Now(p).op = "ownShare" => OwnShare(p)
         /\ Now(p).op = "helpDuplicate" => HelpDup(p)
         /\ Now(p).op = "sendBits" => SendBits(p)
         /\ Now(p).op = "sendDuplicate" => SendDup(p)
         /\ Now(p).op = "programDuplicate" => ProgramDup(p)
         /\ Now(p).op = "finish" => Finish(p)
BY DEF Act, SayHello, HearHello, SendChunk, ProgramChunk, RecvChunk, OwnShare, HelpDup, SendBits, SendDup, ProgramDup,
       Finish, At

(* A message that says what it should.                                     *)
LEMMA TellsData ==
  ASSUME NEW p \in Party, NEW q \in Party, NEW r, NEW o, NEW d, Acts(p, r, o, d), NEW msg,
         msg.data = Content(p, q, SentAt(TableChunks, OutChunks, p, q, r, o, d) + 1),
         p = 1 /\ q = 2 => Validate(Sorted(Lap(SentAt(TableChunks, OutChunks, p, q, r, o, d) + 1, TableChunks + 2)))
  PROVE  Tells(p, q, SentNow(p, q) + 1, msg)
<1>1. SentNow(p, q) = SentAt(TableChunks, OutChunks, p, q, r, o, d)
  BY ActsIs
<1> QED
  BY <1>1 DEF Tells

(* Handshakes change no value.                                             *)
Quiet(p, d, msg) ==
  /\ ChanMoved(p, msg) /\ work' = [work EXCEPT ![p] = work[p]] /\ mem' = [mem EXCEPT ![p] = mem[p]]
  /\ To(Now(p)) \in Party => Tells(p, To(Now(p)), SentNow(p, To(Now(p))) + 1, msg)
  /\ Span(Now(p)) = 1 /\ d = 0

(* A handshake is such a step.                                             *)
LEMMA HelloIs ==
  ASSUME NEW p \in Party, NEW r, NEW o, NEW d, Acts(p, r, o, d), Now(p).op \in {"hello", "greeted"}
  PROVE  \E msg : Quiet(p, d, msg)
<1> DEFINE c == Now(p)
<1>0. JoinInv /\ DbFacts /\ Act(p) /\ ~ Finished(p)
  BY DEF Acts
<1>1. d \in 0 .. Span(c) - 1 /\ CallOK(c)
  BY <1>0, Acting, ActsIs
<1>2. Span(c) = 1
  <2> DEFINE x == c
  <2>1. x.op \in {"hello", "greeted"}
    OBVIOUS
  <2> HIDE DEF x
  <2>2. Span(x) = 1
    BY <2>1 DEF Span
  <2> QED
    BY <2>2 DEF x
<1>3. d = 0
  BY <1>1, <1>2
<1>4. CASE c.op = "hello"
  <2> DEFINE msg == [kind |-> "hello", data |-> c.what]
  <2>1. Sends(p, c.to, "hello", c.what) /\ work' = work /\ mem' = mem
    BY <1>0, <1>4, ActIs DEF SayHello
  <2>2. c.to \in Party /\ To(c) = c.to
    BY <1>1, <1>4 DEF CallOK, To
  <2>3. ChanMoved(p, msg)
    BY <1>0, <2>1, <2>2, SendsIs
  <2>4. PICK msg0 : Effect(p, msg0)
    BY <1>0, ActKeeps DEF StepKeeps
  <2> HIDE DEF msg
  <2>5. Tells(p, To(c), SentNow(p, To(c)) + 1, msg)
    BY <1>0, <1>4, <2>2, <2>4, TellsHello
  <2>6. work' = [work EXCEPT ![p] = work[p]] /\ mem' = [mem EXCEPT ![p] = mem[p]]
    BY <1>0, <2>1, Stays
  <2>7. Quiet(p, d, msg)
    BY <1>2, <1>3, <2>3, <2>5, <2>6 DEF Quiet
  <2> QED
    BY <2>7
<1>5. CASE c.op = "greeted"
  <2>1. Receives(p) /\ work' = work /\ mem' = mem
    BY <1>0, <1>5, ActIs DEF HearHello
  <2>2. To(c) = 3
    BY <1>5 DEF To
  <2>3. ChanMoved(p, 0)
    BY <1>0, <2>1, <2>2, QuietIs
  <2>4. To(c) \notin Party
    BY <2>2 DEF Party
  <2>6. work' = [work EXCEPT ![p] = work[p]] /\ mem' = [mem EXCEPT ![p] = mem[p]]
    BY <1>0, <2>1, Stays
  <2>7. Quiet(p, d, 0)
    BY <1>2, <1>3, <2>3, <2>4, <2>6 DEF Quiet
  <2> QED
    BY <2>7
<1> QED
  BY <1>4, <1>5

(* So do the messages of the duplication that need nothing.                *)
LEMMA TellingIs ==
  ASSUME NEW p \in Party, NEW q \in Party, NEW r, NEW o, NEW d, Acts(p, r, o, d), NEW kind, NEW data,
         Sends(p, q, kind, data), work' = work, mem' = mem, Span(Now(p)) = 1, To(Now(p)) = q,
         data = Content(p, q, SentAt(TableChunks, OutChunks, p, q, r, o, d) + 1),
         p = 1 /\ q = 2 => Validate(Sorted(Lap(SentAt(TableChunks, OutChunks, p, q, r, o, d) + 1, TableChunks + 2)))
  PROVE  \E msg : Quiet(p, d, msg)
<1> DEFINE msg == [kind |-> kind, data |-> data]
<1>0. JoinInv /\ DbFacts /\ Act(p) /\ ~ Finished(p)
  BY DEF Acts
<1>1. d \in 0 .. Span(Now(p)) - 1
  BY ActsIs
<1>2. d = 0
  BY <1>1
<1>3. ChanMoved(p, msg)
  BY <1>0, SendsIs
<1>4. msg.data = Content(p, q, SentAt(TableChunks, OutChunks, p, q, r, o, d) + 1)
  OBVIOUS
<1> HIDE DEF msg
<1>5. Tells(p, q, SentNow(p, q) + 1, msg)
  BY <1>4, TellsData
<1>6. work' = [work EXCEPT ![p] = work[p]] /\ mem' = [mem EXCEPT ![p] = mem[p]]
  BY <1>0, Stays
<1>7. Quiet(p, d, msg)
  BY <1>2, <1>3, <1>5, <1>6 DEF Quiet
<1> QED
  BY <1>7

(* What holds at the next place, after a call of one step.                 *)
LEMMA QuietAfter ==
  ASSUME NEW p \in Party, NEW r, NEW o, NEW d, Acts(p, r, o, d), NEW msg, Quiet(p, d, msg),
         o # LastPlace(p), Holds(p, r, o, 0, work[p], mem[p]) => Holds(p, r, o + 1, 0, work[p], mem[p])
  PROVE  ContentIn' /\ ValuesIn'
<1>1. Holds(p, r, o, d, work[p], mem[p])
  BY ActsIs
<1>2. After(p, Span(Now(p)), r, o, d, work[p], mem[p])
  BY <1>1 DEF After, Quiet
<1>3. Becomes(p, r, o, d, msg, work[p], mem[p])
  BY <1>2 DEF Becomes, Quiet
<1> QED
  BY <1>3, BecomesKeeps

(* Nothing delivered yet.                                                  *)
LEMMA NoneDelivered ==
  ASSUME NEW dest, NEW m, NEW p, NEW x, Matrix(dest, m)
  PROVE  Delivered(dest, p, x, 0 * Step) = dest /\ Delivered(dest, p, x, 0) = dest
<1>1. 0 * Step = 0
  BY StepAssumption
<1>2. DOMAIN dest = 1 .. m /\ dest = [v \in 1 .. m |-> dest[v]]
  BY DEF Matrix
<1>3. Delivered(dest, p, x, 0) = dest
  BY <1>2 DEF Delivered
<1> QED
  BY <1>1, <1>3

(* Server 0 programs the cuckoo table,                                     *)
LEMMA Program0 ==
  ASSUME NEW r, NEW d, Acts(0, r, -1, d)
  PROVE  ContentIn' /\ ValuesIn'
<1> DEFINE p == 0
           o == -1
           c == Now(0)
           k == TableChunks
           l == OutChunks
           s0 == CuckooPerm
           m == db.bins
<1>p. p \in Party
  BY DEF Party
<1>0. JoinInv /\ DbFacts /\ ContentIn /\ ValuesIn /\ Act(0) /\ r = Round(0, pc[0]) /\ r # 3 /\ o = Place(0, pc[0]) /\ d = done[0]
  BY DEF Acts
<1>1. /\ pc[0] \in Nat /\ d \in Nat /\ c = CallAt(0, pc[0]) /\ Holds0(r, -1, d, work[0], mem[0])
  <2>1. pc[0] \in Nat /\ d \in Nat /\ c = CallAt(0, pc[0]) /\ Holds(0, r, -1, d, work[0], mem[0])
    BY <1>p, ActsIs
  <2> QED
    BY <2>1 DEF Holds
<1>2. r = 0 /\ c = PermProgram(1, "table", 0) /\ c.op = "permProgram"
  BY <1>0, <1>1, Calls0
<1>t. Told0(k, l, r, d)
  BY <1>0, <1>1, <1>2, Contents0
<1>3. c.to = 1 /\ c.name = "table" /\ c.name # "temp" /\ Permutation(c) = s0 /\ Size(c) = m
  <2>1. c.to = 1 /\ c.name = "table"
    BY <1>2 DEF PermProgram
  <2> QED
    BY <1>2, <2>1 DEF Permutation, Size
<1>4. ProgramChunk(0)
  BY <1>0, <1>2, ActIs
<1>5. mem[0]["table"] = FirstTable(0) /\ (d > 0 => work[0] = Arranged(s0, db.draws, m, d * Step))
  BY <1>1 DEF Holds0
<1> HIDE DEF c
<1>6. PICK msg, w : Programs(0, c, s0, m, d, msg, w, FirstTable(0))
  BY <1>0, <1>p, <1>3, <1>4, <1>5, ProgramIs DEF c
<1>7. /\ msg.data = PermSent(s0, db.draws, m, d + 1) /\ ChanMoved(0, msg) /\ work' = [work EXCEPT ![0] = w]
      /\ To(c) = 1 /\ Span(c) = k /\ d < k
  BY <1>3, <1>6 DEF Programs, TableChunks
<1>8. Tells(0, 1, SentNow(0, 1) + 1, msg)
  <2>1. 1 \in Party
    BY DEF Party
  <2>2. Content(0, 1, SentAt(k, l, 0, 1, 0, -1, d) + 1) = PermSent(s0, db.draws, m, d + 1)
    BY <1>1, <1>7, <1>t DEF Told0
  <2> QED
    BY <1>p, <1>2, <1>7, <2>1, <2>2, TellsData
<1>9. CASE d + 1 < k
  <2>1. w = Arranged(s0, db.draws, m, (d + 1) * Step) /\ mem' = mem
    BY <1>6, <1>9 DEF Programs, TableChunks
  <2>2. Holds0(r, -1, d + 1, w, mem[0])
    BY <1>1, <1>2, <2>1 DEF Holds0
  <2>3. After(0, k, r, -1, d, w, mem[0])
    BY <1>9, <2>2 DEF After, Holds
  <2>4. mem' = [mem EXCEPT ![0] = mem[0]]
    BY <1>0, <1>p, <2>1, Stays
  <2>5. Becomes(0, r, -1, d, msg, w, mem[0])
    BY <1>7, <1>8, <2>3, <2>4 DEF Becomes, c
  <2> QED
    BY <1>p, <2>5, BecomesKeeps
<1>10. CASE ~ (d + 1 < k)
  <2> DEFINE add == c.name # "temp"
             x == Unmasked(FirstTable(0), PermOut(s0, db.draws, m), add)
  <2>1. Write(0, "table", x)
    BY <1>3, <1>6, <1>10 DEF Programs, TableChunks
  <2>2. x = Tab0
    <3>1. add = TRUE
      BY <1>3
    <3> HIDE DEF add
    <3> QED
      BY <3>1 DEF Tab0, CuckooOut
  <2> HIDE DEF x
  <2>3. mem' = [mem EXCEPT ![0] = mem'[0]] /\ Stored(mem[0], mem'[0], "table", Tab0)
    BY <1>0, <1>p, <2>1, <2>2, Names, StoredIs
  <2> DEFINE m1 == mem'[0]
  <2>4. m1["table"] = Tab0 /\ \A h \in 1 .. 3 : m1[Out(h)] = mem[0][Out(h)]
    BY <2>3, Names DEF Stored
  <2>5. Holds0(r, 0, 0, w, m1)
    BY <1>1, <1>2, <2>4 DEF Holds0
  <2>6. After(0, k, r, -1, d, w, m1)
    BY <1>10, <2>5 DEF After, Holds, LastPlace
  <2>7. mem' = [mem EXCEPT ![0] = m1]
    BY <2>3
  <2> HIDE DEF m1
  <2>8. Becomes(0, r, -1, d, msg, w, m1)
    BY <1>7, <1>8, <2>6, <2>7 DEF Becomes, c
  <2> QED
    BY <1>p, <2>8, BecomesKeeps
<1> QED
  BY <1>9, <1>10

(* sends its rows,                                                         *)
LEMMA Send0 ==
  ASSUME NEW r, NEW d, Acts(0, r, 2, d)
  PROVE  ContentIn' /\ ValuesIn'
<1> DEFINE p == 0
           o == 2
           c == Now(0)
           k == TableChunks
           l == OutChunks
           s0 == PickRows
           m == SrcRows
<1>p. p \in Party
  BY DEF Party
<1>0. JoinInv /\ DbFacts /\ ContentIn /\ ValuesIn /\ Act(0) /\ r = Round(0, pc[0]) /\ r # 3 /\ o = Place(0, pc[0]) /\ d = done[0]
  BY DEF Acts
<1>1. /\ pc[0] \in Nat /\ d \in Nat /\ c = CallAt(0, pc[0]) /\ Holds0(r, 2, d, work[0], mem[0])
  <2>1. pc[0] \in Nat /\ d \in Nat /\ c = CallAt(0, pc[0]) /\ Holds(0, r, 2, d, work[0], mem[0])
    BY <1>p, ActsIs
  <2> QED
    BY <2>1 DEF Holds
<1>2. r \in 0 .. 2 /\ c = PermSend(2, "table", SrcRows) /\ c.op = "permSend"
  BY <1>0, <1>1, Calls0
<1>t. Told0(k, l, r, d)
  BY <1>0, <1>1, <1>2, Contents0
<1>3. c.to = 2 /\ c.name = "table" /\ c.rows = m
  BY <1>2 DEF PermSend
<1>4. SendChunk(0)
  BY <1>0, <1>2, ActIs
<1>5. mem[0]["table"] = Tab0 /\ (d > 0 => work[0] = Sending(s0, db.draws, m, d * Step))
  BY <1>1 DEF Holds0
<1> HIDE DEF c
<1>a. s0 = Resized(mem[0][c.name], c.rows)
  BY <1>3, <1>5 DEF PickRows
<1> HIDE DEF s0, m
<1>6. PICK msg, w : SendsRows(0, c, s0, m, d, msg, w)
  BY <1>0, <1>p, <1>3, <1>4, <1>5, <1>a, SendIs DEF c
<1>k. Chunks(m) = k
  BY <1>0 DEF DbFacts, Sized, m
<1>7. /\ msg.data = RowsSent(s0, db.draws, m, d + 1) /\ ChanMoved(0, msg) /\ work' = [work EXCEPT ![0] = w]
      /\ To(c) = 2 /\ Span(c) = k /\ d < k /\ mem' = mem
      /\ d + 1 < k => w = Sending(s0, db.draws, m, (d + 1) * Step)
  BY <1>3, <1>6, <1>k DEF SendsRows
<1>8. Tells(0, 2, SentNow(0, 2) + 1, msg)
  <2>1. 2 \in Party
    BY DEF Party
  <2>2. Content(0, 2, SentAt(k, l, 0, 2, r, 2, d) + 1) = RowsSent(s0, db.draws, m, d + 1)
    BY <1>1, <1>2, <1>7, <1>t DEF s0, m, Told0
  <2> QED
    BY <1>p, <1>7, <2>1, <2>2, TellsData
<1>9. After(0, k, r, 2, d, w, mem[0])
  <2>1. CASE d + 1 < k
    <3>1. w = Sending(s0, db.draws, m, (d + 1) * Step)
      BY <1>7, <2>1
    <3>2. Holds0(r, 2, d + 1, w, mem[0])
      BY <1>1, <3>1 DEF Holds0, s0, m
    <3> QED
      BY <2>1, <3>2 DEF After, Holds
  <2>2. CASE ~ (d + 1 < k)
    <3>1. Holds0(r, 3, 0, w, mem[0])
      BY <1>1 DEF Holds0
    <3> QED
      BY <2>2, <3>1 DEF After, Holds, LastPlace
  <2> QED
    BY <2>1, <2>2
<1>10. mem' = [mem EXCEPT ![0] = mem[0]]
  BY <1>0, <1>p, <1>7, Stays
<1>11. Becomes(0, r, 2, d, msg, w, mem[0])
  BY <1>7, <1>8, <1>9, <1>10 DEF Becomes, c
<1> QED
  BY <1>p, <1>11, BecomesKeeps

(* helps with the duplication                                              *)
LEMMA Help0 ==
  ASSUME NEW r, NEW d, Acts(0, r, 3, d)
  PROVE  ContentIn' /\ ValuesIn'
<1> DEFINE c == Now(0)
           k == TableChunks
           l == OutChunks
           data == HelpDuplicate(Rows, db.choice)
<1>p. 0 \in Party /\ 1 \in Party
  BY DEF Party
<1>0. JoinInv /\ DbFacts /\ Act(0) /\ r = Round(0, pc[0]) /\ r # 3 /\ 3 = Place(0, pc[0]) /\ d = done[0]
  BY DEF Acts
<1>1. /\ pc[0] \in Nat /\ d \in Nat /\ c = CallAt(0, pc[0])
  BY <1>p, ActsIs
<1>2. r \in 0 .. 2 /\ c.op = "helpDuplicate"
  BY <1>0, <1>1, Calls0
<1>t. Told0(k, l, r, d)
  BY <1>0, <1>1, <1>2, Contents0
<1>3. Sends(0, 1, "share0", data) /\ work' = work /\ mem' = mem
  BY <1>0, <1>2, ActIs DEF HelpDup
<1>4. Span(c) = 1 /\ To(c) = 1
  <2> HIDE DEF c
  <2> QED
    BY <1>2 DEF Span, To
<1>5. Content(0, 1, SentAt(k, l, 0, 1, r, 3, d) + 1) = data
  BY <1>1, <1>2, <1>t DEF Told0
<1>6. PICK msg : Quiet(0, d, msg)
  BY <1>p, <1>3, <1>4, <1>5, TellingIs
<1>7. ASSUME Holds0(r, 3, 0, work[0], mem[0]) PROVE Holds0(r, 4, 0, work[0], mem[0])
  <2>1. Matrix(Filled(Rows, Junk), Rows)
    BY <1>0, FilledIs DEF DbFacts
  <2> DEFINE f == Filled(Rows, Junk)
  <2> HIDE DEF f
  <2>2. \A h : Delivered(f, LastOut(h), LastRows(h), 0 * Step) = f
    BY <2>1, NoneDelivered DEF f
  <2> QED
    BY <1>2, <1>7, <2>2 DEF Holds0, f
<1>8. Holds(0, r, 3, 0, work[0], mem[0]) => Holds(0, r, 3 + 1, 0, work[0], mem[0])
  BY <1>7 DEF Holds
<1> QED
  BY <1>p, <1>6, <1>8, QuietAfter DEF LastPlace

(* and takes the selected entries.                                         *)
LEMMA Recv0 ==
  ASSUME NEW r, NEW d, Acts(0, r, 4, d)
  PROVE  ContentIn' /\ ValuesIn'
<1> DEFINE c == Now(0)
           k == TableChunks
           l == OutChunks
           h == r + 1
           s0 == Fresh2(h)
           perm0 == FinalPerm(h)
           m == Rows
           dest0 == Filled(Rows, Junk)
           Half(e) == Delivered(dest0, PermOut(perm0, db.draws, m), RowsOut(s0, db.draws, m), e)
<1>p. 0 \in Party /\ 1 \in Party /\ 2 \in Party
  BY DEF Party
<1>0. JoinInv /\ DbFacts /\ ContentIn /\ ValuesIn /\ Act(0) /\ r = Round(0, pc[0]) /\ r # 3 /\ 4 = Place(0, pc[0]) /\ d = done[0]
  BY DEF Acts
<1>1. /\ pc[0] \in Nat /\ d \in Nat /\ c = CallAt(0, pc[0]) /\ Holds0(r, 4, d, work[0], mem[0]) /\ d < Span(c)
      /\ GotNow(2, 0) = GotAt(k, l, 2, 0, r, 4, d) /\ GotNow(1, 0) = GotAt(k, l, 1, 0, r, 4, d)
  <2>1. pc[0] \in Nat /\ d \in Nat /\ c = CallAt(0, pc[0]) /\ Holds(0, r, 4, d, work[0], mem[0]) /\ d < Span(c)
    BY <1>p, ActsIs
  <2>2. GotNow(2, 0) = GotAt(k, l, 2, 0, r, 4, d) /\ GotNow(1, 0) = GotAt(k, l, 1, 0, r, 4, d)
    BY <1>p, ActsIs
  <2> QED
    BY <2>1, <2>2 DEF Holds
<1>2. r \in 0 .. 2 /\ h \in 1 .. 3 /\ c = PermRecv(2, 1, Out(h), Rows) /\ c.op = "permRecv"
  BY <1>0, <1>1, Calls0
<1>t. Told0(k, l, r, d)
  BY <1>0, <1>1, <1>2, Contents0
<1>3. c.data = 2 /\ c.perm = 1 /\ c.name = Out(h) /\ c.rows = m /\ c.name # "temp" /\ c.name \in MemNames
  <2>1. c.data = 2 /\ c.perm = 1 /\ c.name = Out(h) /\ c.rows = m
    BY <1>2 DEF PermRecv
  <2> QED
    BY <1>2, <2>1, Names
<1>4. RecvChunk(0)
  BY <1>0, <1>2, ActIs
<1>5. mem[0][Out(h)] = Half(d * Step)
  BY <1>1, <1>2 DEF Holds0, LastOut, LastRows
<1>6. Matrix(dest0, m) /\ OneToOne(perm0, m) /\ m \in Sizes /\ Chunks(m) = l
  <2>1. Matrix(dest0, m)
    BY <1>0, FilledIs DEF DbFacts
  <2>2. perm0 \in Orders(Rows)
    BY <1>0, <1>2, FinalIs DEF JoinInv
  <2>3. OneToOne(perm0, m)
    <3> HIDE DEF perm0
    <3> QED
      BY <2>2 DEF Orders, OneToOne
  <2> QED
    BY <2>1, <2>3 DEF Sizes, OutChunks
<1>7. d < l
  <2>1. Span(c) = Chunks(c.rows)
    <3> HIDE DEF c
    <3> QED
      BY <1>2 DEF Span, Size
  <2> QED
    BY <1>1, <1>3, <1>6, <2>1
<1>8. /\ Content(2, 0, GotNow(2, 0) + 1) = RowsSent(s0, db.draws, m, d + 1)
      /\ Content(1, 0, GotNow(1, 0) + 1) = PermSent(perm0, db.draws, m, d + 1)
  BY <1>1, <1>2, <1>7, <1>t DEF Told0
<1> HIDE DEF c, s0, perm0, dest0, m, h
<1>9. Puts(0, c, s0, perm0, m, d, dest0)
  <2>1. (IF c.name = "temp" /\ d = 0 THEN NewTemp ELSE mem[0][c.name]) = Half(d * Step)
    BY <1>3, <1>5
  <2>2. Content(c.data, 0, GotNow(c.data, 0) + 1) = RowsSent(s0, db.draws, m, d + 1)
    BY <1>3, <1>8
  <2>3. Content(c.perm, 0, GotNow(c.perm, 0) + 1) = PermSent(perm0, db.draws, m, d + 1)
    BY <1>3, <1>8
  <2>4. Chunks(m) = Chunks(c.rows) /\ c = Now(0)
    BY <1>3 DEF c
  <2> QED
    BY <1>0, <1>p, <1>4, <1>6, <2>1, <2>2, <2>3, <2>4, RecvIs
<1> DEFINE x == IF d + 1 < l THEN Half((d + 1) * Step) ELSE Half(m)
<1>10. /\ ChanMoved(0, 0) /\ work' = work /\ To(c) = 3 /\ Span(c) = l /\ Write(0, Out(h), x)
  BY <1>3, <1>6, <1>9 DEF Puts
<1>11. mem' = [mem EXCEPT ![0] = mem'[0]] /\ Stored(mem[0], mem'[0], Out(h), x)
  <2>1. Out(h) \in MemNames
    BY <1>2, Names
  <2> HIDE DEF x
  <2> QED
    BY <1>0, <1>p, <1>10, <2>1, StoredIs
<1> DEFINE m1 == mem'[0]
           w == work[0]
<1>12. /\ m1["table"] = mem[0]["table"] /\ m1[Out(h)] = x
       /\ \A g \in 1 .. 3 : g # h => m1[Out(g)] = mem[0][Out(g)]
  <2> HIDE DEF x
  <2> QED
    BY <1>2, <1>11, Names DEF Stored
<1>13. mem' = [mem EXCEPT ![0] = m1]
  BY <1>11
<1> HIDE DEF m1
<1>14. After(0, l, r, 4, d, w, m1)
  <2>1. CASE d + 1 < l
    <3>1. m1[Out(h)] = Half((d + 1) * Step)
      BY <1>12, <2>1
    <3>2. m1[Out(h)] = Delivered(Filled(Rows, Junk), LastOut(h), LastRows(h), (d + 1) * Step)
      BY <3>1 DEF LastOut, LastRows, s0, perm0, m, dest0
    <3>3. Holds0(r, 4, d + 1, w, m1)
      BY <1>1, <1>2, <1>12, <3>2 DEF Holds0, h
    <3> QED
      BY <2>1, <3>3 DEF After, Holds
  <2>2. CASE ~ (d + 1 < l)
    <3>1. m1[Out(h)] = Half(m)
      BY <1>12, <2>2
    <3>2. m1[Out(h)] = Out0(h)
      BY <3>1 DEF Out0, LastOut, LastRows, s0, perm0, m, dest0
    <3>3. Holds0(r + 1, 0, 0, w, m1)
      BY <1>1, <1>2, <1>12, <3>2 DEF Holds0, h
    <3> QED
      BY <2>2, <3>3 DEF After, Holds, LastPlace
  <2> QED
    BY <2>1, <2>2
<1>15. work' = [work EXCEPT ![0] = w]
  BY <1>0, <1>p, <1>10, Stays
<1> HIDE DEF w
<1>16. Becomes(0, r, 4, d, 0, w, m1)
  <2>1. 3 \notin Party
    BY DEF Party
  <2> QED
    BY <1>10, <1>13, <1>14, <1>15, <2>1 DEF Becomes, c
<1> QED
  BY <1>p, <1>16, BecomesKeeps

(* Every step of server 0 in a round.                                      *)
LEMMA Server0Keeps ==
  ASSUME NEW r, NEW o, NEW d, Acts(0, r, o, d)
  PROVE  ContentIn' /\ ValuesIn'
<1>p. 0 \in Party
  BY DEF Party
<1>0. r = Round(0, pc[0]) /\ r # 3 /\ o = Place(0, pc[0])
  BY DEF Acts
<1>1. pc[0] \in Nat /\ Now(0) = CallAt(0, pc[0])
  BY <1>p, ActsIs
<1>2. o \in -1 .. 4
  BY <1>0, <1>1, Calls0
<1>3. CASE o = -1
  BY <1>3, Program0
<1>4. CASE o = 2
  BY <1>4, Send0
<1>5. CASE o = 3
  BY <1>5, Help0
<1>6. CASE o = 4
  BY <1>6, Recv0
<1>7. CASE o \in {0, 1}
  <2>1. Now(0).op \in {"hello", "greeted"}
    BY <1>0, <1>1, <1>7, Calls0
  <2>2. PICK msg : Quiet(0, d, msg)
    BY <1>p, <2>1, HelloIs
  <2>3. Holds0(r, o, 0, work[0], mem[0]) => Holds0(r, o + 1, 0, work[0], mem[0])
    BY <1>7 DEF Holds0
  <2>4. Holds(0, r, o, 0, work[0], mem[0]) => Holds(0, r, o + 1, 0, work[0], mem[0])
    BY <2>3 DEF Holds
  <2>5. o # LastPlace(0)
    BY <1>7 DEF LastPlace
  <2> QED
    BY <1>p, <2>2, <2>4, <2>5, QuietAfter
<1> QED
  BY <1>2, <1>3, <1>4, <1>5, <1>6, <1>7

(* Server 1 takes the cuckoo table,                                        *)
LEMMA Recv1 ==
  ASSUME NEW r, NEW d, Acts(1, r, -2, d)
  PROVE  ContentIn' /\ ValuesIn'
<1> DEFINE c == Now(1)
           k == TableChunks
           l == OutChunks
           s0 == FirstTable(2)
           perm0 == CuckooPerm
           m == db.bins
           dest0 == FirstTable(1)
           Half(e) == Delivered(dest0, PermOut(perm0, db.draws, m), RowsOut(s0, db.draws, m), e)
<1>p. 0 \in Party /\ 1 \in Party /\ 2 \in Party
  BY DEF Party
<1>0. JoinInv /\ DbFacts /\ ContentIn /\ ValuesIn /\ Act(1) /\ r = Round(1, pc[1]) /\ r # 3 /\ -2 = Place(1, pc[1]) /\ d = done[1]
  BY DEF Acts
<1>1. /\ pc[1] \in Nat /\ d \in Nat /\ c = CallAt(1, pc[1]) /\ Holds1(r, -2, d, work[1], mem[1]) /\ d < Span(c)
      /\ GotNow(2, 1) = GotAt(k, l, 2, 1, r, -2, d) /\ GotNow(0, 1) = GotAt(k, l, 0, 1, r, -2, d)
  <2>1. pc[1] \in Nat /\ d \in Nat /\ c = CallAt(1, pc[1]) /\ Holds(1, r, -2, d, work[1], mem[1]) /\ d < Span(c)
    BY <1>p, ActsIs
  <2>2. GotNow(2, 1) = GotAt(k, l, 2, 1, r, -2, d) /\ GotNow(0, 1) = GotAt(k, l, 0, 1, r, -2, d)
    BY <1>p, ActsIs
  <2> QED
    BY <2>1, <2>2 DEF Holds
<1>2. r = 0 /\ c = PermRecv(2, 0, "table", db.bins) /\ c.op = "permRecv"
  BY <1>0, <1>1, Calls1
<1>t. Told1(k, l, r, d)
  BY <1>0, <1>1, <1>2, Contents1
<1>3. c.data = 2 /\ c.perm = 0 /\ c.name = "table" /\ c.rows = m /\ c.name # "temp" /\ c.name \in MemNames
  <2>1. c.data = 2 /\ c.perm = 0 /\ c.name = "table" /\ c.rows = m
    BY <1>2 DEF PermRecv
  <2> QED
    BY <1>2, <2>1, Names
<1>4. RecvChunk(1)
  BY <1>0, <1>2, ActIs
<1>5. mem[1]["table"] = Half(d * Step)
  BY <1>1, <1>2 DEF Holds1, CuckooOut, RightOut
<1>6. Matrix(dest0, m) /\ OneToOne(perm0, m) /\ m \in Sizes /\ Chunks(m) = k
  <2>1. Matrix(dest0, m)
    BY <1>0, FirstTablesAre
  <2>2. OneToOne(perm0, m)
    BY <1>0, CuckooIs DEF JoinInv
  <2> QED
    BY <2>1, <2>2 DEF Sizes, TableChunks
<1>7. d < k
  <2>1. Span(c) = Chunks(c.rows)
    <3> HIDE DEF c
    <3> QED
      BY <1>2 DEF Span, Size
  <2> QED
    BY <1>1, <1>3, <1>6, <2>1
<1>8. /\ Content(2, 1, GotNow(2, 1) + 1) = RowsSent(s0, db.draws, m, d + 1)
      /\ Content(0, 1, GotNow(0, 1) + 1) = PermSent(perm0, db.draws, m, d + 1)
  <2>1. r \in 0 .. 2
    BY <1>2
  <2> QED
    BY <1>1, <1>2, <1>7, <2>1, <1>t DEF Told1
<1> HIDE DEF c, s0, perm0, dest0, m
<1>9. Puts(1, c, s0, perm0, m, d, dest0)
  <2>1. (IF c.name = "temp" /\ d = 0 THEN NewTemp ELSE mem[1][c.name]) = Half(d * Step)
    BY <1>3, <1>5
  <2>2. Content(c.data, 1, GotNow(c.data, 1) + 1) = RowsSent(s0, db.draws, m, d + 1)
    BY <1>3, <1>8
  <2>3. Content(c.perm, 1, GotNow(c.perm, 1) + 1) = PermSent(perm0, db.draws, m, d + 1)
    BY <1>3, <1>8
  <2>4. Chunks(m) = Chunks(c.rows) /\ c = Now(1)
    BY <1>3 DEF c
  <2> QED
    BY <1>0, <1>p, <1>4, <1>6, <2>1, <2>2, <2>3, <2>4, RecvIs
<1> DEFINE x == IF d + 1 < k THEN Half((d + 1) * Step) ELSE Half(m)
<1>10. /\ ChanMoved(1, 0) /\ work' = work /\ To(c) = 3 /\ Span(c) = k /\ Write(1, "table", x)
  BY <1>3, <1>6, <1>9 DEF Puts
<1>11. mem' = [mem EXCEPT ![1] = mem'[1]] /\ Stored(mem[1], mem'[1], "table", x)
  <2> HIDE DEF x
  <2> QED
    BY <1>0, <1>p, <1>10, Names, StoredIs
<1> DEFINE m1 == mem'[1]
           w == work[1]
<1>12. m1["table"] = x
  <2> HIDE DEF x
  <2> QED
    BY <1>11 DEF Stored
<1>13. mem' = [mem EXCEPT ![1] = m1]
  BY <1>11
<1> HIDE DEF m1
<1>14. After(1, k, r, -2, d, w, m1)
  <2>1. CASE d + 1 < k
    <3>1. m1["table"] = Half((d + 1) * Step)
      BY <1>12, <2>1
    <3>2. m1["table"] = Delivered(FirstTable(1), CuckooOut, RightOut, (d + 1) * Step)
      BY <3>1 DEF CuckooOut, RightOut, s0, perm0, m, dest0
    <3>3. Holds1(r, -2, d + 1, w, m1)
      BY <1>2, <3>2 DEF Holds1
    <3> QED
      BY <2>1, <3>3 DEF After, Holds
  <2>2. CASE ~ (d + 1 < k)
    <3>1. m1["table"] = Half(m)
      BY <1>12, <2>2
    <3>2. m1["table"] = Tab1
      BY <3>1 DEF Tab1, CuckooOut, RightOut, s0, perm0, m, dest0
    <3>3. Holds1(r, -1, 0, w, m1)
      BY <1>2, <3>2 DEF Holds1
    <3> QED
      BY <2>2, <3>3 DEF After, Holds, LastPlace
  <2> QED
    BY <2>1, <2>2
<1>15. work' = [work EXCEPT ![1] = w]
  BY <1>0, <1>p, <1>10, Stays
<1> HIDE DEF w
<1>16. Becomes(1, r, -2, d, 0, w, m1)
  <2>1. 3 \notin Party
    BY DEF Party
  <2> QED
    BY <1>10, <1>13, <1>14, <1>15, <2>1 DEF Becomes, c
<1> QED
  BY <1>p, <1>16, BecomesKeeps

(* Then its own share of the entries,                                      *)
LEMMA Own1 ==
  ASSUME NEW r, NEW d, Acts(1, r, -1, d)
  PROVE  ContentIn' /\ ValuesIn'
<1> DEFINE c == Now(1)
           w == work[1]
<1>p. 1 \in Party
  BY DEF Party
<1>0. JoinInv /\ DbFacts /\ Act(1) /\ r = Round(1, pc[1]) /\ r # 3 /\ -1 = Place(1, pc[1]) /\ d = done[1]
  BY DEF Acts
<1>1. /\ pc[1] \in Nat /\ d \in Nat /\ c = CallAt(1, pc[1]) /\ Holds1(r, -1, d, work[1], mem[1]) /\ d < Span(c)
  <2>1. pc[1] \in Nat /\ d \in Nat /\ c = CallAt(1, pc[1]) /\ Holds(1, r, -1, d, work[1], mem[1]) /\ d < Span(c)
    BY <1>p, ActsIs
  <2> QED
    BY <2>1 DEF Holds
<1>2. r = 0 /\ c.op = "ownShare"
  BY <1>0, <1>1, Calls1
<1>3. OwnShare(1)
  BY <1>0, <1>2, ActIs
<1>4. mem[1]["table"] = Tab1
  BY <1>1 DEF Holds1
<1> DEFINE v1 == Own(1)
           v2 == Own(2)
           v3 == Own(3)
<1>5. /\ mem' = [mem EXCEPT ![1][Out(1)] = v1, ![1][Out(2)] = v2, ![1][Out(3)] = v3]
      /\ work' = work /\ chan' = chan
  BY <1>3, <1>4 DEF OwnShare, Own
<1> HIDE DEF v1, v2, v3
<1>6. To(c) = 3 /\ Span(c) = 1 /\ From(c) = {} /\ To(c) \notin Party
  <2> HIDE DEF c
  <2> QED
    BY <1>2 DEF To, Span, From, Party
<1>7. ChanMoved(1, 0)
  BY <1>0, <1>p, <1>5, <1>6, SilentIs
<1> DEFINE m1 == [n \in MemNames |-> IF n = "out1" THEN v1 ELSE IF n = "out2" THEN v2
                                     ELSE IF n = "out3" THEN v3 ELSE mem[1][n]]
<1>8. mem' = [mem EXCEPT ![1] = m1]
  <2>1. mem = [q \in Party |-> mem[q]] /\ mem[1] = [n \in MemNames |-> mem[1][n]]
    BY <1>0, <1>p DEF JoinInv, MemIn
  <2>2. Out(1) = "out1" /\ Out(2) = "out2" /\ Out(3) = "out3"
    BY DEF Out
  <2> QED
    BY <1>5, <1>p, <2>1, <2>2, ZenonT(60)
<1>9. m1["table"] = Tab1 /\ \A h \in 1 .. 3 : m1[Out(h)] = Own(h)
  <2>1. m1["table"] = Tab1
    BY <1>4, Names
  <2>2. "out1" \in MemNames /\ "out2" \in MemNames /\ "out3" \in MemNames
    BY Names DEF Out
  <2>3. m1["out1"] = v1 /\ m1["out2"] = v2 /\ m1["out3"] = v3
    BY <2>2
  <2> HIDE DEF m1
  <2>4. m1[Out(1)] = Own(1) /\ m1[Out(2)] = Own(2) /\ m1[Out(3)] = Own(3)
    BY <2>3 DEF Out, v1, v2, v3
  <2> QED
    BY <2>1, <2>4
<1> HIDE DEF m1
<1>10. Holds1(r, 0, 0, w, m1)
  BY <1>2, <1>9 DEF Holds1
<1>11. After(1, 1, r, -1, d, w, m1)
  BY <1>1, <1>6, <1>10 DEF After, Holds, LastPlace
<1>12. work' = [work EXCEPT ![1] = w]
  BY <1>0, <1>p, <1>5, Stays
<1> HIDE DEF w
<1>13. Becomes(1, r, -1, d, 0, w, m1)
  BY <1>6, <1>7, <1>8, <1>11, <1>12 DEF Becomes
<1> QED
  BY <1>p, <1>13, BecomesKeeps

(* programs the selection, which is only sent when it is sorted,           *)
LEMMA Select1 ==
  ASSUME NEW r, NEW d, Acts(1, r, 4, d)
  PROVE  ContentIn' /\ ValuesIn'
<1> DEFINE c == Now(1)
           k == TableChunks
           l == OutChunks
           h == r + 1
           s0 == SelPerm(h)
           m == SrcRows
<1>p. 1 \in Party /\ 2 \in Party
  BY DEF Party
<1>0. JoinInv /\ DbFacts /\ ContentIn /\ ValuesIn /\ Act(1) /\ r = Round(1, pc[1]) /\ r # 3 /\ 4 = Place(1, pc[1]) /\ d = done[1]
  BY DEF Acts
<1>1. /\ pc[1] \in Nat /\ d \in Nat /\ c = CallAt(1, pc[1]) /\ Holds1(r, 4, d, work[1], mem[1])
  <2>1. pc[1] \in Nat /\ d \in Nat /\ c = CallAt(1, pc[1]) /\ Holds(1, r, 4, d, work[1], mem[1])
    BY <1>p, ActsIs
  <2> QED
    BY <2>1 DEF Holds
<1>2. r \in 0 .. 2 /\ h \in 1 .. 3 /\ c = PermProgram(2, "temp", h) /\ c.op = "permProgram"
  BY <1>0, <1>1, Calls1
<1>t. Told1(k, l, r, d)
  BY <1>0, <1>1, <1>2, Contents1
<1>n. Out(h) # "temp" /\ Out(h) # "table" /\ Out(h) \in MemNames
  BY <1>2, Names
<1>3. c.to = 2 /\ c.name = "temp" /\ c.h = h /\ Permutation(c) = s0 /\ Size(c) = m
  <2>1. c.to = 2 /\ c.name = "temp" /\ c.h = h
    BY <1>2 DEF PermProgram
  <2> QED
    BY <1>2, <1>n, <2>1 DEF Permutation, Size, SelPerm
<1>4. ProgramChunk(1)
  BY <1>0, <1>2, ActIs
<1>v. Validate(Sorted(h))
  <2>1. d = 0 => Validate(Sorted(h))
    BY <1>0, <1>3, <1>4 DEF ProgramChunk
  <2>2. d > 0 => Validate(Sorted(h))
    BY <1>1, <1>2 DEF Holds1
  <2> QED
    BY <1>1, <2>1, <2>2
<1>5. d > 0 => work[1] = Arranged(s0, db.draws, m, d * Step)
  BY <1>1 DEF Holds1
<1> HIDE DEF c
<1>x. NewTemp = IF c.name = "temp" THEN NewTemp ELSE mem[1][c.name]
  BY <1>3
<1> HIDE DEF s0, m
<1>6. PICK msg, w : Programs(1, c, s0, m, d, msg, w, NewTemp)
  BY <1>0, <1>p, <1>3, <1>4, <1>5, <1>x, ProgramIs DEF c
<1>k. Chunks(m) = TableChunks
  BY <1>0 DEF DbFacts, Sized, m, OutChunks
<1>7. /\ msg.data = PermSent(s0, db.draws, m, d + 1) /\ ChanMoved(1, msg) /\ work' = [work EXCEPT ![1] = w]
      /\ To(c) = 2 /\ Span(c) = TableChunks /\ d < TableChunks
  BY <1>3, <1>6, <1>k DEF Programs
<1>8. Tells(1, 2, SentNow(1, 2) + 1, msg)
  <2>1. /\ Content(1, 2, SentAt(k, l, 1, 2, r, 4, d) + 1) = PermSent(s0, db.draws, m, d + 1)
        /\ Lap(SentAt(k, l, 1, 2, r, 4, d) + 1, k + 2) = h
    BY <1>1, <1>2, <1>7, <1>t DEF s0, m, Told1
  <2> QED
    BY <1>p, <1>7, <1>v, <2>1, TellsData
<1>9. CASE d + 1 < TableChunks
  <2>1. w = Arranged(s0, db.draws, m, (d + 1) * Step) /\ mem' = mem
    BY <1>6, <1>9, <1>k DEF Programs
  <2>2. Holds1(r, 4, d + 1, w, mem[1])
    BY <1>1, <1>2, <1>v, <2>1 DEF Holds1, s0, m
  <2>3. After(1, TableChunks, r, 4, d, w, mem[1])
    BY <1>9, <2>2 DEF After, Holds
  <2>4. mem' = [mem EXCEPT ![1] = mem[1]]
    BY <1>0, <1>p, <2>1, Stays
  <2>5. Becomes(1, r, 4, d, msg, w, mem[1])
    BY <1>7, <1>8, <2>3, <2>4 DEF Becomes, c
  <2> QED
    BY <1>p, <2>5, BecomesKeeps
<1>10. CASE ~ (d + 1 < TableChunks)
  <2> DEFINE add == c.name # "temp"
             x == Unmasked(NewTemp, PermOut(s0, db.draws, m), add)
             name == c.name
  <2>1. Write(1, name, x)
    BY <1>6, <1>10, <1>k DEF Programs
  <2>2. x = Temp1(h)
    <3>1. add = FALSE
      BY <1>3, <1>n
    <3> HIDE DEF add
    <3> QED
      BY <3>1 DEF Temp1, SelOut, s0, m
  <2>a. name = "temp" /\ name \in MemNames
    BY <1>3, <1>n, Names
  <2> HIDE DEF x, name
  <2>3. mem' = [mem EXCEPT ![1] = mem'[1]] /\ Stored(mem[1], mem'[1], name, Temp1(h))
    BY <1>0, <1>p, <2>1, <2>2, <2>a, StoredIs
  <2> DEFINE m1 == mem'[1]
  <2>4. m1["temp"] = Temp1(h) /\ m1["table"] = mem[1]["table"] /\ \A g \in 1 .. 3 : m1[Out(g)] = mem[1][Out(g)]
    BY <2>3, <2>a, Names DEF Stored
  <2>5. Holds1(r, 5, 0, w, m1)
    BY <1>1, <1>2, <1>v, <2>4 DEF Holds1
  <2>6. After(1, TableChunks, r, 4, d, w, m1)
    BY <1>10, <2>5 DEF After, Holds, LastPlace
  <2>7. mem' = [mem EXCEPT ![1] = m1]
    BY <2>3
  <2> HIDE DEF m1
  <2>8. Becomes(1, r, 4, d, msg, w, m1)
    BY <1>7, <1>8, <2>6, <2>7 DEF Becomes, c
  <2> QED
    BY <1>p, <2>8, BecomesKeeps
<1> QED
  BY <1>9, <1>10

(* and in the end brings the selected rows back into their order.          *)
LEMMA Final1 ==
  ASSUME NEW r, NEW d, Acts(1, r, 7, d)
  PROVE  ContentIn' /\ ValuesIn'
<1> DEFINE c == Now(1)
           k == TableChunks
           l == OutChunks
           h == r + 1
           s0 == FinalPerm(h)
           m == Rows
<1>p. 1 \in Party /\ 0 \in Party
  BY DEF Party
<1>0. JoinInv /\ DbFacts /\ ContentIn /\ ValuesIn /\ Act(1) /\ r = Round(1, pc[1]) /\ r # 3 /\ 7 = Place(1, pc[1]) /\ d = done[1]
  BY DEF Acts
<1>1. /\ pc[1] \in Nat /\ d \in Nat /\ c = CallAt(1, pc[1]) /\ Holds1(r, 7, d, work[1], mem[1])
  <2>1. pc[1] \in Nat /\ d \in Nat /\ c = CallAt(1, pc[1]) /\ Holds(1, r, 7, d, work[1], mem[1])
    BY <1>p, ActsIs
  <2> QED
    BY <2>1 DEF Holds
<1>2. r \in 0 .. 2 /\ h \in 1 .. 3 /\ c = PermProgram(0, Out(h), h) /\ c.op = "permProgram"
  BY <1>0, <1>1, Calls1
<1>t. Told1(k, l, r, d)
  BY <1>0, <1>1, <1>2, Contents1
<1>n. Out(h) # "temp" /\ Out(h) # "table" /\ Out(h) \in MemNames
  BY <1>2, Names
<1>3. c.to = 0 /\ c.name = Out(h) /\ c.h = h /\ Permutation(c) = s0 /\ Size(c) = m
  <2>1. c.to = 0 /\ c.name = Out(h) /\ c.h = h
    BY <1>2 DEF PermProgram
  <2> QED
    BY <1>2, <1>n, <2>1 DEF Permutation, Size
<1>4. ProgramChunk(1)
  BY <1>0, <1>2, ActIs
<1>5. d > 0 => work[1] = Arranged(s0, db.draws, m, d * Step)
  BY <1>1 DEF Holds1
<1> HIDE DEF c
<1>x. AddedOut(h) = IF c.name = "temp" THEN NewTemp ELSE mem[1][c.name]
  <2>1. mem[1][Out(h)] = AddedOut(h)
    BY <1>1, <1>2 DEF Holds1
  <2> QED
    BY <1>3, <1>n, <2>1
<1> HIDE DEF s0, m
<1>6. PICK msg, w : Programs(1, c, s0, m, d, msg, w, AddedOut(h))
  BY <1>0, <1>p, <1>3, <1>4, <1>5, <1>x, ProgramIs DEF c
<1>k. Chunks(m) = OutChunks
  BY <1>0 DEF DbFacts, Sized, m, OutChunks
<1>7. /\ msg.data = PermSent(s0, db.draws, m, d + 1) /\ ChanMoved(1, msg) /\ work' = [work EXCEPT ![1] = w]
      /\ To(c) = 0 /\ Span(c) = OutChunks /\ d < OutChunks
  BY <1>3, <1>6, <1>k DEF Programs
<1>8. Tells(1, 0, SentNow(1, 0) + 1, msg)
  <2>1. d < l => Content(1, 0, SentAt(k, l, 1, 0, r, 7, d) + 1) = PermSent(FinalPerm(r + 1), db.draws, Rows, d + 1)
    BY <1>1, <1>2, <1>t DEF Told1
  <2>2. Content(1, 0, SentAt(k, l, 1, 0, r, 7, d) + 1) = PermSent(s0, db.draws, m, d + 1)
    BY <1>7, <2>1 DEF s0, m
  <2> QED
    BY <1>p, <1>7, <2>2, TellsData
<1>9. CASE d + 1 < OutChunks
  <2>1. w = Arranged(s0, db.draws, m, (d + 1) * Step) /\ mem' = mem
    BY <1>6, <1>9, <1>k DEF Programs
  <2>2. Holds1(r, 7, d + 1, w, mem[1])
    BY <1>1, <1>2, <2>1 DEF Holds1, s0, m
  <2>3. After(1, OutChunks, r, 7, d, w, mem[1])
    BY <1>9, <2>2 DEF After, Holds
  <2>4. mem' = [mem EXCEPT ![1] = mem[1]]
    BY <1>0, <1>p, <2>1, Stays
  <2>5. Becomes(1, r, 7, d, msg, w, mem[1])
    BY <1>7, <1>8, <2>3, <2>4 DEF Becomes, c
  <2> QED
    BY <1>p, <2>5, BecomesKeeps
<1>10. CASE ~ (d + 1 < OutChunks)
  <2> DEFINE add == c.name # "temp"
             x == Unmasked(AddedOut(h), PermOut(s0, db.draws, m), add)
             name == c.name
  <2>1. Write(1, name, x)
    BY <1>6, <1>10, <1>k DEF Programs
  <2>2. x = Out1(h)
    <3>1. add = TRUE
      BY <1>3, <1>n
    <3> HIDE DEF add
    <3> QED
      BY <3>1 DEF Out1, LastOut, s0, m
  <2>a. name = Out(h) /\ name \in MemNames
    BY <1>3, <1>n, Names
  <2> HIDE DEF x, name
  <2>3. mem' = [mem EXCEPT ![1] = mem'[1]] /\ Stored(mem[1], mem'[1], name, Out1(h))
    BY <1>0, <1>p, <2>1, <2>2, <2>a, StoredIs
  <2> DEFINE m1 == mem'[1]
  <2>4. m1[Out(h)] = Out1(h) /\ m1["table"] = mem[1]["table"] /\ \A g \in 1 .. 3 : g # h => m1[Out(g)] = mem[1][Out(g)]
    BY <1>2, <2>3, <2>a, Names DEF Stored
  <2>5. Holds1(r + 1, 0, 0, w, m1)
    BY <1>1, <1>2, <2>4 DEF Holds1
  <2>6. After(1, OutChunks, r, 7, d, w, m1)
    BY <1>10, <2>5 DEF After, Holds, LastPlace
  <2>7. mem' = [mem EXCEPT ![1] = m1]
    BY <2>3
  <2> HIDE DEF m1
  <2>8. Becomes(1, r, 7, d, msg, w, m1)
    BY <1>7, <1>8, <2>6, <2>7 DEF Becomes, c
  <2> QED
    BY <1>p, <2>8, BecomesKeeps
<1> QED
  BY <1>9, <1>10

(* Server 1's bits,                                                        *)
LEMMA Bits1 ==
  ASSUME NEW r, NEW d, Acts(1, r, 5, d)
  PROVE  ContentIn' /\ ValuesIn'
<1> DEFINE c == Now(1)
           k == TableChunks
           l == OutChunks
           h == r + 1
           data == Bits(h)
<1>p. 1 \in Party /\ 2 \in Party
  BY DEF Party
<1>0. JoinInv /\ DbFacts /\ Act(1) /\ r = Round(1, pc[1]) /\ r # 3 /\ 5 = Place(1, pc[1]) /\ d = done[1]
  BY DEF Acts
<1>1. /\ pc[1] \in Nat /\ d \in Nat /\ c = CallAt(1, pc[1]) /\ Holds1(r, 5, d, work[1], mem[1])
  <2>1. pc[1] \in Nat /\ d \in Nat /\ c = CallAt(1, pc[1]) /\ Holds(1, r, 5, d, work[1], mem[1])
    BY <1>p, ActsIs
  <2> QED
    BY <2>1 DEF Holds
<1>2. r \in 0 .. 2 /\ h \in 1 .. 3 /\ c = Call("sendBits", h) /\ c.op = "sendBits"
  BY <1>0, <1>1, Calls1
<1>t. Told1(k, l, r, d)
  BY <1>0, <1>1, <1>2, Contents1
<1>3. Sends(1, 2, "bits", data) /\ work' = work /\ mem' = mem
  <2>1. c.h = h
    BY <1>2 DEF Call
  <2> QED
    BY <1>0, <1>2, <2>1, ActIs DEF SendBits, Bits
<1>4. Span(c) = 1 /\ To(c) = 2
  <2> HIDE DEF c
  <2> QED
    BY <1>2 DEF Span, To
<1>v. Validate(Sorted(h))
  BY <1>1, <1>2 DEF Holds1
<1>5. Content(1, 2, SentAt(k, l, 1, 2, r, 5, d) + 1) = data /\ Lap(SentAt(k, l, 1, 2, r, 5, d) + 1, k + 2) = h
  <2>1. Content(1, 2, SentAt(k, l, 1, 2, r, 5, d) + 1) = Bits(r + 1)
    BY <1>t DEF Told1
  <2>2. Lap(SentAt(k, l, 1, 2, r, 5, d) + 1, k + 2) = r + 1
    BY <1>t DEF Told1
  <2> QED
    BY <2>1, <2>2
<1>6. PICK msg : Quiet(1, d, msg)
  <2> HIDE DEF h, data
  <2> QED
    BY <1>p, <1>3, <1>4, <1>5, <1>v, TellingIs
<1>7. ASSUME Holds1(r, 5, 0, work[1], mem[1]) PROVE Holds1(r, 6, 0, work[1], mem[1])
  BY <1>2, <1>7 DEF Holds1
<1>8. Holds(1, r, 5, 0, work[1], mem[1]) => Holds(1, r, 5 + 1, 0, work[1], mem[1])
  BY <1>7 DEF Holds
<1> QED
  BY <1>p, <1>6, <1>8, QuietAfter DEF LastPlace

(* what it makes of the answers,                                           *)
LEMMA Dup1 ==
  ASSUME NEW r, NEW d, Acts(1, r, 6, d)
  PROVE  ContentIn' /\ ValuesIn'
<1> DEFINE c == Now(1)
           k == TableChunks
           l == OutChunks
           h == r + 1
           w == work[1]
<1>p. 0 \in Party /\ 1 \in Party /\ 2 \in Party
  BY DEF Party
<1>0. /\ JoinInv /\ DbFacts /\ ContentIn /\ Act(1) /\ ~ Finished(1)
      /\ r = Round(1, pc[1]) /\ r # 3 /\ 6 = Place(1, pc[1]) /\ d = done[1]
  BY DEF Acts
<1>1. /\ pc[1] \in Nat /\ d \in Nat /\ c = CallAt(1, pc[1]) /\ Holds1(r, 6, d, work[1], mem[1]) /\ d < Span(c)
      /\ GotNow(2, 1) = GotAt(k, l, 2, 1, r, 6, d) /\ GotNow(0, 1) = GotAt(k, l, 0, 1, r, 6, d)
  <2>1. pc[1] \in Nat /\ d \in Nat /\ c = CallAt(1, pc[1]) /\ Holds(1, r, 6, d, work[1], mem[1]) /\ d < Span(c)
    BY <1>p, ActsIs
  <2>2. GotNow(2, 1) = GotAt(k, l, 2, 1, r, 6, d) /\ GotNow(0, 1) = GotAt(k, l, 0, 1, r, 6, d)
    BY <1>p, ActsIs
  <2> QED
    BY <2>1, <2>2 DEF Holds
<1>2. r \in 0 .. 2 /\ h \in 1 .. 3 /\ c = Call("programDuplicate", h) /\ c.op = "programDuplicate"
  BY <1>0, <1>1, Calls1
<1>t. Told1(k, l, r, d)
  BY <1>0, <1>1, <1>2, Contents1
<1>3. c.h = h
  BY <1>2 DEF Call
<1>4. ProgramDup(1) /\ Here(1)
  BY <1>0, <1>2, ActIs DEF ProgramDup, Ready
<1>5. To(c) = 3 /\ Span(c) = 1 /\ From(c) = {0, 2} /\ To(c) \notin Party
  <2> HIDE DEF c
  <2> QED
    BY <1>2 DEF To, Span, From, Party
<1>6. Received(0, 1) = HelpDuplicate(Rows, db.choice) /\ Received(2, 1) = DupSent(h).sums
  <2>0. \A q \in From(c) : chan[<<q, 1>>] # <<>>
    BY <1>4, AwaitsIs DEF Here
  <2>1. chan[<<0, 1>>] # <<>> /\ chan[<<2, 1>>] # <<>>
    BY <1>5, <2>0
  <2>2. Received(0, 1) = Content(0, 1, GotNow(0, 1) + 1)
    BY <1>0, <1>p, <1>2, <1>5, <2>1, HeardContent
  <2>3. Received(2, 1) = Content(2, 1, GotNow(2, 1) + 1)
    BY <1>0, <1>p, <1>2, <1>5, <2>1, HeardContent
  <2>4. Content(0, 1, GotAt(k, l, 0, 1, r, 6, d) + 1) = HelpDuplicate(Rows, db.choice)
    BY <1>t DEF Told1
  <2>5. Content(2, 1, GotAt(k, l, 2, 1, r, 6, d) + 1) = DupSent(r + 1).sums
    BY <1>t DEF Told1
  <2> QED
    BY <1>1, <2>2, <2>3, <2>4, <2>5
<1>7. mem[1]["temp"] = Temp1(h) /\ mem[1][Out(h)] = Own(h) /\ mem[1]["table"] = Tab1
  BY <1>1, <1>2 DEF Holds1
<1> DEFINE t == Tmp1(h)
           x == AddedOut(h)
           name == Out(h)
<1>n. name # "temp" /\ name # "table" /\ name \in MemNames /\ "temp" \in MemNames /\ "table" \in MemNames
  BY <1>2, Names
<1>8. /\ mem' = [mem EXCEPT ![1]["temp"] = t, ![1][name] = Added(@, FinalPerm(h), t)]
      /\ work' = work /\ Receives(1)
  BY <1>3, <1>4, <1>6, <1>7 DEF ProgramDup, Tmp1
<1>9. x = Added(mem[1][name], FinalPerm(h), t)
  BY <1>7 DEF AddedOut
<1>10. ChanMoved(1, 0)
  BY <1>0, <1>p, <1>5, <1>8, QuietIs
<1> DEFINE m1 == [n \in MemNames |-> IF n = "temp" THEN t ELSE IF n = name THEN x ELSE mem[1][n]]
<1>11. mem' = [mem EXCEPT ![1] = m1]
  <2>1. mem = [q \in Party |-> mem[q]] /\ mem[1] = [n \in MemNames |-> mem[1][n]]
    BY <1>0, <1>p DEF JoinInv, MemIn
  <2> HIDE DEF t, x, name, c, h
  <2> QED
    BY <1>8, <1>9, <1>p, <1>n, <2>1
<1>12. m1["table"] = Tab1 /\ m1[Out(h)] = x /\ \A g \in 1 .. 3 : g # h => m1[Out(g)] = mem[1][Out(g)]
  <2> HIDE DEF t, x
  <2> QED
    BY <1>2, <1>7, <1>n, Names
<1> HIDE DEF m1
<1>13. Holds1(r, 7, 0, w, m1)
  BY <1>1, <1>2, <1>12 DEF Holds1
<1>14. After(1, 1, r, 6, d, w, m1)
  BY <1>1, <1>5, <1>13 DEF After, Holds, LastPlace
<1>15. work' = [work EXCEPT ![1] = w]
  BY <1>0, <1>p, <1>8, Stays
<1> HIDE DEF w
<1>16. Becomes(1, r, 6, d, 0, w, m1)
  BY <1>5, <1>10, <1>11, <1>14, <1>15 DEF Becomes
<1> QED
  BY <1>p, <1>16, BecomesKeeps

(* Every step of server 1 in a round.                                      *)
LEMMA Server1Keeps ==
  ASSUME NEW r, NEW o, NEW d, Acts(1, r, o, d)
  PROVE  ContentIn' /\ ValuesIn'
<1>p. 1 \in Party
  BY DEF Party
<1>0. r = Round(1, pc[1]) /\ r # 3 /\ o = Place(1, pc[1])
  BY DEF Acts
<1>1. pc[1] \in Nat /\ Now(1) = CallAt(1, pc[1])
  BY <1>p, ActsIs
<1>2. o \in -2 .. 7
  BY <1>0, <1>1, Calls1
<1>3. CASE o = -2
  BY <1>3, Recv1
<1>4. CASE o = -1
  BY <1>4, Own1
<1>5. CASE o = 4
  BY <1>5, Select1
<1>6. CASE o = 5
  BY <1>6, Bits1
<1>7. CASE o = 6
  BY <1>7, Dup1
<1>8. CASE o = 7
  BY <1>8, Final1
<1>9. CASE o \in {0, 1, 2, 3}
  <2>1. Now(1).op \in {"hello", "greeted"}
    BY <1>0, <1>1, <1>9, Calls1
  <2>2. PICK msg : Quiet(1, d, msg)
    BY <1>p, <2>1, HelloIs
  <2>3. Holds1(r, o, 0, work[1], mem[1]) => Holds1(r, o + 1, 0, work[1], mem[1])
    BY <1>9 DEF Holds1
  <2>4. Holds(1, r, o, 0, work[1], mem[1]) => Holds(1, r, o + 1, 0, work[1], mem[1])
    BY <2>3 DEF Holds
  <2>5. o # LastPlace(1)
    BY <1>9 DEF LastPlace
  <2> QED
    BY <1>p, <2>2, <2>4, <2>5, QuietAfter
<1> QED
  BY <1>2, <1>3, <1>4, <1>5, <1>6, <1>7, <1>8, <1>9

(* A matrix that has the rows already.                                     *)
LEMMA ResizedSame ==
  ASSUME NEW s, NEW n, Matrix(s, n)
  PROVE  Resized(s, n) = s
BY DEF Resized, Matrix

(* Server 2 sends its sums,                                                *)
LEMMA Send2 ==
  ASSUME NEW r, NEW d, Acts(2, r, -1, d)
  PROVE  ContentIn' /\ ValuesIn'
<1> DEFINE c == Now(2)
           k == TableChunks
           l == OutChunks
           s0 == FirstTable(2)
           m == db.bins
<1>p. 2 \in Party /\ 1 \in Party
  BY DEF Party
<1>0. /\ JoinInv /\ DbFacts /\ ContentIn /\ ValuesIn /\ Act(2)
      /\ r = Round(2, pc[2]) /\ r # 3 /\ -1 = Place(2, pc[2]) /\ d = done[2]
  BY DEF Acts
<1>1. /\ pc[2] \in Nat /\ d \in Nat /\ c = CallAt(2, pc[2]) /\ Holds2(r, -1, d, work[2], mem[2])
  <2>1. pc[2] \in Nat /\ d \in Nat /\ c = CallAt(2, pc[2]) /\ Holds(2, r, -1, d, work[2], mem[2])
    BY <1>p, ActsIs
  <2> QED
    BY <2>1 DEF Holds
<1>2. r \in 0 .. 2 /\ r = 0 /\ c = PermSend(1, "table", db.bins) /\ c.op = "permSend"
  BY <1>0, <1>1, Calls2
<1>t. Told2(k, l, r, d)
  BY <1>0, <1>1, <1>2, Contents2
<1>3. c.to = 1 /\ c.name = "table" /\ c.rows = m
  BY <1>2 DEF PermSend
<1>4. SendChunk(2)
  BY <1>0, <1>2, ActIs
<1>5. mem[2]["table"] = s0 /\ (d > 0 => work[2] = Sending(s0, db.draws, m, d * Step))
  BY <1>1 DEF Holds2
<1>m. Matrix(s0, m)
  <2>1. "table" \in MemNames
    BY Names
  <2>2. Matrix(mem[2]["table"], m)
    BY <1>0, <1>p, <2>1 DEF JoinInv, MemIn, MemRows
  <2> QED
    BY <1>5, <2>2
<1> HIDE DEF c, s0, m
<1>a. s0 = Resized(mem[2][c.name], c.rows)
  BY <1>3, <1>5, <1>m, ResizedSame
<1>6. PICK msg, w : SendsRows(2, c, s0, m, d, msg, w)
  BY <1>0, <1>p, <1>3, <1>4, <1>5, <1>a, SendIs DEF c
<1>k. Chunks(m) = TableChunks
  BY DEF m, TableChunks, OutChunks
<1>7. /\ msg.data = RowsSent(s0, db.draws, m, d + 1) /\ ChanMoved(2, msg) /\ work' = [work EXCEPT ![2] = w]
      /\ To(c) = 1 /\ Span(c) = TableChunks /\ d < TableChunks /\ mem' = mem
      /\ d + 1 < TableChunks => w = Sending(s0, db.draws, m, (d + 1) * Step)
  BY <1>3, <1>6, <1>k DEF SendsRows
<1>8. Tells(2, 1, SentNow(2, 1) + 1, msg)
  <2>1. Content(2, 1, SentAt(k, l, 2, 1, r, -1, d) + 1) = RowsSent(s0, db.draws, m, d + 1)
    BY <1>1, <1>2, <1>7, <1>t DEF s0, m, Told2
  <2> QED
    BY <1>p, <1>7, <2>1, TellsData
<1>9. After(2, TableChunks, r, -1, d, w, mem[2])
  <2>1. CASE d + 1 < TableChunks
    <3>1. w = Sending(s0, db.draws, m, (d + 1) * Step)
      BY <1>7, <2>1
    <3>2. Holds2(r, -1, d + 1, w, mem[2])
      BY <1>1, <3>1 DEF Holds2, s0, m
    <3> QED
      BY <2>1, <3>2 DEF After, Holds
  <2>2. CASE ~ (d + 1 < TableChunks)
    <3>1. Holds2(r, 0, 0, w, mem[2])
      BY DEF Holds2
    <3> QED
      BY <2>2, <3>1 DEF After, Holds, LastPlace
  <2> QED
    BY <2>1, <2>2
<1>10. mem' = [mem EXCEPT ![2] = mem[2]]
  BY <1>0, <1>p, <1>7, Stays
<1>11. Becomes(2, r, -1, d, msg, w, mem[2])
  BY <1>7, <1>8, <1>9, <1>10 DEF Becomes, c
<1> QED
  BY <1>p, <1>11, BecomesKeeps

(* and in the end its share of the selected rows.                          *)
LEMMA Last2 ==
  ASSUME NEW r, NEW d, Acts(2, r, 4, d)
  PROVE  ContentIn' /\ ValuesIn'
<1> DEFINE c == Now(2)
           k == TableChunks
           l == OutChunks
           s0 == Fresh2(r + 1)
           m == Rows
<1>p. 2 \in Party /\ 0 \in Party
  BY DEF Party
<1>0. /\ JoinInv /\ DbFacts /\ ContentIn /\ ValuesIn /\ Act(2)
      /\ r = Round(2, pc[2]) /\ r # 3 /\ 4 = Place(2, pc[2]) /\ d = done[2]
  BY DEF Acts
<1>1. /\ pc[2] \in Nat /\ d \in Nat /\ c = CallAt(2, pc[2]) /\ Holds2(r, 4, d, work[2], mem[2])
  <2>1. pc[2] \in Nat /\ d \in Nat /\ c = CallAt(2, pc[2]) /\ Holds(2, r, 4, d, work[2], mem[2])
    BY <1>p, ActsIs
  <2> QED
    BY <2>1 DEF Holds
<1>2. r \in 0 .. 2 /\ c = PermSend(0, "temp", Rows) /\ c.op = "permSend"
  BY <1>0, <1>1, Calls2
<1>t. Told2(k, l, r, d)
  BY <1>0, <1>1, <1>2, Contents2
<1>3. c.to = 0 /\ c.name = "temp" /\ c.rows = m
  BY <1>2 DEF PermSend
<1>4. SendChunk(2)
  BY <1>0, <1>2, ActIs
<1>5. mem[2]["temp"] = s0 /\ (d > 0 => work[2] = Sending(s0, db.draws, m, d * Step))
  BY <1>1 DEF Holds2
<1>m. Matrix(s0, m)
  <2>1. "temp" \in MemNames
    BY Names
  <2>2. Matrix(mem[2]["temp"], m)
    BY <1>0, <1>p, <2>1 DEF JoinInv, MemIn, MemRows
  <2> QED
    BY <1>5, <2>2
<1> HIDE DEF c, s0, m
<1>a. s0 = Resized(mem[2][c.name], c.rows)
  BY <1>3, <1>5, <1>m, ResizedSame
<1>6. PICK msg, w : SendsRows(2, c, s0, m, d, msg, w)
  BY <1>0, <1>p, <1>3, <1>4, <1>5, <1>a, SendIs DEF c
<1>k. Chunks(m) = OutChunks
  BY DEF m, TableChunks, OutChunks
<1>7. /\ msg.data = RowsSent(s0, db.draws, m, d + 1) /\ ChanMoved(2, msg) /\ work' = [work EXCEPT ![2] = w]
      /\ To(c) = 0 /\ Span(c) = OutChunks /\ d < OutChunks /\ mem' = mem
      /\ d + 1 < OutChunks => w = Sending(s0, db.draws, m, (d + 1) * Step)
  BY <1>3, <1>6, <1>k DEF SendsRows
<1>8. Tells(2, 0, SentNow(2, 0) + 1, msg)
  <2>1. Content(2, 0, SentAt(k, l, 2, 0, r, 4, d) + 1) = RowsSent(s0, db.draws, m, d + 1)
    BY <1>1, <1>2, <1>7, <1>t DEF s0, m, Told2
  <2> QED
    BY <1>p, <1>7, <2>1, TellsData
<1>9. After(2, OutChunks, r, 4, d, w, mem[2])
  <2>1. CASE d + 1 < OutChunks
    <3>1. w = Sending(s0, db.draws, m, (d + 1) * Step)
      BY <1>7, <2>1
    <3>2. Holds2(r, 4, d + 1, w, mem[2])
      BY <1>1, <3>1 DEF Holds2, s0, m
    <3> QED
      BY <2>1, <3>2 DEF After, Holds
  <2>2. CASE ~ (d + 1 < OutChunks)
    <3>1. Holds2(r + 1, 0, 0, w, mem[2])
      BY DEF Holds2
    <3> QED
      BY <2>2, <3>1 DEF After, Holds, LastPlace
  <2> QED
    BY <2>1, <2>2
<1>10. mem' = [mem EXCEPT ![2] = mem[2]]
  BY <1>0, <1>p, <1>7, Stays
<1>11. Becomes(2, r, 4, d, msg, w, mem[2])
  BY <1>7, <1>8, <1>9, <1>10 DEF Becomes, c
<1> QED
  BY <1>p, <1>11, BecomesKeeps

(* In between it takes the selected rows,                                  *)
LEMMA Recv2 ==
  ASSUME NEW r, NEW d, Acts(2, r, 2, d)
  PROVE  ContentIn' /\ ValuesIn'
<1> DEFINE c == Now(2)
           k == TableChunks
           l == OutChunks
           h == r + 1
           s0 == PickRows
           perm0 == SelPerm(h)
           m == SrcRows
           dest0 == NewTemp
           Half(e) == Delivered(dest0, PermOut(perm0, db.draws, m), RowsOut(s0, db.draws, m), e)
<1>p. 0 \in Party /\ 1 \in Party /\ 2 \in Party
  BY DEF Party
<1>0. /\ JoinInv /\ DbFacts /\ ContentIn /\ ValuesIn /\ Act(2) /\ ~ Finished(2)
      /\ r = Round(2, pc[2]) /\ r # 3 /\ 2 = Place(2, pc[2]) /\ d = done[2]
  BY DEF Acts
<1>1. /\ pc[2] \in Nat /\ d \in Nat /\ c = CallAt(2, pc[2]) /\ Holds2(r, 2, d, work[2], mem[2]) /\ d < Span(c)
      /\ GotNow(0, 2) = GotAt(k, l, 0, 2, r, 2, d) /\ GotNow(1, 2) = GotAt(k, l, 1, 2, r, 2, d)
  <2>1. pc[2] \in Nat /\ d \in Nat /\ c = CallAt(2, pc[2]) /\ Holds(2, r, 2, d, work[2], mem[2]) /\ d < Span(c)
    BY <1>p, ActsIs
  <2>2. GotNow(0, 2) = GotAt(k, l, 0, 2, r, 2, d) /\ GotNow(1, 2) = GotAt(k, l, 1, 2, r, 2, d)
    BY <1>p, ActsIs
  <2> QED
    BY <2>1, <2>2 DEF Holds
<1>2. r \in 0 .. 2 /\ h \in 1 .. 3 /\ c = PermRecv(0, 1, "temp", db.bins) /\ c.op = "permRecv"
  BY <1>0, <1>1, Calls2
<1>t. Told2(k, l, r, d)
  BY <1>0, <1>1, <1>2, Contents2
<1>3. c.data = 0 /\ c.perm = 1 /\ c.name = "temp" /\ c.rows = db.bins
  BY <1>2 DEF PermRecv
<1>4. RecvChunk(2) /\ Here(2)
  BY <1>0, <1>2, ActIs DEF RecvChunk, Ready
<1>k. m \in Sizes /\ Chunks(m) = k /\ Chunks(c.rows) = k
  BY <1>0, <1>3 DEF Sizes, DbFacts, Sized, TableChunks
<1>7. d < k
  <2>1. Span(c) = Chunks(c.rows)
    <3> HIDE DEF c
    <3> QED
      BY <1>2 DEF Span, Size
  <2> QED
    BY <1>1, <1>k, <2>1
<1>8. /\ Content(0, 2, GotNow(0, 2) + 1) = RowsSent(s0, db.draws, m, d + 1)
      /\ Content(1, 2, GotNow(1, 2) + 1) = PermSent(perm0, db.draws, m, d + 1)
      /\ Lap(GotNow(1, 2) + 1, k + 2) = h
  <2>1. Content(0, 2, GotAt(k, l, 0, 2, r, 2, d) + 1) = RowsSent(s0, db.draws, m, d + 1)
    BY <1>1, <1>2, <1>7, <1>t DEF Told2
  <2>2. Content(1, 2, GotAt(k, l, 1, 2, r, 2, d) + 1) = PermSent(perm0, db.draws, m, d + 1)
    BY <1>1, <1>2, <1>7, <1>t DEF Told2
  <2>3. Lap(GotAt(k, l, 1, 2, r, 2, d) + 1, k + 2) = r + 1
    BY <1>1, <1>2, <1>7, <1>t DEF Told2
  <2> QED
    BY <1>1, <2>1, <2>2, <2>3
<1>v. Validate(Sorted(h))
  <2>0. \A q \in From(c) : chan[<<q, 2>>] # <<>>
    BY <1>4, AwaitsIs DEF Here
  <2>1. 1 \in From(c)
    <3> HIDE DEF c
    <3> QED
      BY <1>2, <1>3 DEF From
  <2>2. chan[<<1, 2>>] # <<>> /\ c.op # "greeted"
    BY <1>2, <2>0, <2>1
  <2>3. Validate(Sorted(Lap(GotNow(1, 2) + 1, k + 2)))
    BY <1>0, <1>p, <2>1, <2>2, HeardContent
  <2> QED
    BY <1>8, <2>3
<1>6. Matrix(dest0, Rows) /\ OneToOne(perm0, m)
  <2>1. Matrix(dest0, Rows)
    <3>1. Rows \in Nat
      BY <1>0 DEF DbFacts
    <3> QED
      BY <3>1, FilledIs DEF NewTemp
  <2>2. OneToOne(perm0, m)
    BY <1>0, <1>2, <1>v, SelectionIs DEF JoinInv
  <2> QED
    BY <2>1, <2>2
<1>5. (IF c.name = "temp" /\ d = 0 THEN NewTemp ELSE mem[2][c.name]) = Half(d * Step)
  <2>1. CASE d = 0
    <3> DEFINE u == PermOut(perm0, db.draws, m)
               v == RowsOut(s0, db.draws, m)
    <3> HIDE DEF u, v, dest0, m
    <3>1. Delivered(dest0, u, v, 0 * Step) = dest0
      BY <1>6, NoneDelivered
    <3>2. Delivered(dest0, u, v, d * Step) = dest0
      BY <2>1, <3>1
    <3> QED
      BY <1>3, <2>1, <3>2 DEF u, v, dest0
  <2>2. CASE d # 0
    <3>1. d > 0
      BY <1>1, <2>2
    <3>2. mem[2]["temp"] = Half(d * Step)
      BY <1>1, <3>1 DEF Holds2, SelOut, PickOut
    <3> QED
      BY <1>3, <2>2, <3>2
  <2> QED
    BY <2>1, <2>2
<1> HIDE DEF c, s0, perm0, dest0, m, h
<1>9. Puts(2, c, s0, perm0, m, d, dest0)
  <2>2. Content(c.data, 2, GotNow(c.data, 2) + 1) = RowsSent(s0, db.draws, m, d + 1)
    BY <1>3, <1>8
  <2>3. Content(c.perm, 2, GotNow(c.perm, 2) + 1) = PermSent(perm0, db.draws, m, d + 1)
    BY <1>3, <1>8
  <2>4. Chunks(m) = Chunks(c.rows) /\ c = Now(2)
    BY <1>k DEF c
  <2> QED
    BY <1>0, <1>p, <1>4, <1>5, <1>6, <1>k, <2>2, <2>3, <2>4, RecvIs
<1> DEFINE x == IF d + 1 < k THEN Half((d + 1) * Step) ELSE Half(m)
<1>10. /\ ChanMoved(2, 0) /\ work' = work /\ To(c) = 3 /\ Span(c) = k /\ Write(2, "temp", x)
  BY <1>3, <1>k, <1>9 DEF Puts
<1>11. mem' = [mem EXCEPT ![2] = mem'[2]] /\ Stored(mem[2], mem'[2], "temp", x)
  <2> HIDE DEF x
  <2> QED
    BY <1>0, <1>p, <1>10, Names, StoredIs
<1> DEFINE m1 == mem'[2]
           w == work[2]
<1>12. m1["temp"] = x
  <2> HIDE DEF x
  <2> QED
    BY <1>11 DEF Stored
<1>13. mem' = [mem EXCEPT ![2] = m1]
  BY <1>11
<1> HIDE DEF m1
<1>14. After(2, k, r, 2, d, w, m1)
  <2>1. CASE d + 1 < k
    <3>1. m1["temp"] = Half((d + 1) * Step)
      BY <1>12, <2>1
    <3>2. m1["temp"] = Delivered(NewTemp, SelOut(h), PickOut, (d + 1) * Step)
      BY <3>1 DEF SelOut, PickOut, s0, perm0, m, dest0
    <3>3. Holds2(r, 2, d + 1, w, m1)
      BY <3>2 DEF Holds2, h
    <3> QED
      BY <2>1, <3>3 DEF After, Holds
  <2>2. CASE ~ (d + 1 < k)
    <3>1. m1["temp"] = Half(m)
      BY <1>12, <2>2
    <3>2. m1["temp"] = Temp2(h)
      BY <3>1 DEF Temp2, SelOut, PickOut, s0, perm0, m, dest0
    <3>3. Holds2(r, 3, 0, w, m1)
      BY <3>2 DEF Holds2, h
    <3> QED
      BY <2>2, <3>3 DEF After, Holds, LastPlace
  <2> QED
    BY <2>1, <2>2
<1>15. work' = [work EXCEPT ![2] = w]
  BY <1>0, <1>p, <1>10, Stays
<1> HIDE DEF w
<1>16. Becomes(2, r, 2, d, 0, w, m1)
  <2>1. 3 \notin Party
    BY DEF Party
  <2> QED
    BY <1>10, <1>13, <1>14, <1>15, <2>1 DEF Becomes, c
<1> QED
  BY <1>p, <1>16, BecomesKeeps

(* and shares them anew.                                                   *)
LEMMA Dup2 ==
  ASSUME NEW r, NEW d, Acts(2, r, 3, d)
  PROVE  ContentIn' /\ ValuesIn'
<1> DEFINE c == Now(2)
           k == TableChunks
           l == OutChunks
           h == r + 1
           w == work[2]
           data == DupSent(h).sums
           share == Fresh2(h)
           msg == [kind |-> "share1", data |-> data]
<1>p. 1 \in Party /\ 2 \in Party
  BY DEF Party
<1>0. /\ JoinInv /\ DbFacts /\ ContentIn /\ Act(2) /\ ~ Finished(2)
      /\ r = Round(2, pc[2]) /\ r # 3 /\ 3 = Place(2, pc[2]) /\ d = done[2]
  BY DEF Acts
<1>1. /\ pc[2] \in Nat /\ d \in Nat /\ c = CallAt(2, pc[2]) /\ Holds2(r, 3, d, work[2], mem[2]) /\ d < Span(c)
      /\ GotNow(1, 2) = GotAt(k, l, 1, 2, r, 3, d)
  <2>1. pc[2] \in Nat /\ d \in Nat /\ c = CallAt(2, pc[2]) /\ Holds(2, r, 3, d, work[2], mem[2]) /\ d < Span(c)
    BY <1>p, ActsIs
  <2>2. GotNow(1, 2) = GotAt(k, l, 1, 2, r, 3, d)
    BY <1>p, ActsIs
  <2> QED
    BY <2>1, <2>2 DEF Holds
<1>2. r \in 0 .. 2 /\ h \in 1 .. 3 /\ c = Call("sendDuplicate", h) /\ c.op = "sendDuplicate"
  BY <1>0, <1>1, Calls2
<1>t. Told2(k, l, r, d)
  BY <1>0, <1>1, <1>2, Contents2
<1>3. c.h = h
  BY <1>2 DEF Call
<1>4. SendDup(2) /\ Here(2)
  BY <1>0, <1>2, ActIs DEF SendDup, Ready
<1>5. To(c) = 1 /\ Span(c) = 1 /\ From(c) = {1}
  <2> HIDE DEF c
  <2> QED
    BY <1>2 DEF To, Span, From
<1>6. Received(1, 2) = Bits(h)
  <2>0. \A q \in From(c) : chan[<<q, 2>>] # <<>>
    BY <1>4, AwaitsIs DEF Here
  <2>1. chan[<<1, 2>>] # <<>>
    BY <1>5, <2>0
  <2>2. Received(1, 2) = Content(1, 2, GotNow(1, 2) + 1)
    BY <1>0, <1>p, <1>2, <1>5, <2>1, HeardContent
  <2>3. Content(1, 2, GotAt(k, l, 1, 2, r, 3, d) + 1) = Bits(r + 1)
    BY <1>t DEF Told2
  <2> QED
    BY <1>1, <2>2, <2>3
<1>7. mem[2]["temp"] = Temp2(h)
  BY <1>1, <1>2 DEF Holds2
<1>8. Write(2, "temp", share) /\ Sends(2, 1, "share1", data) /\ work' = work
  BY <1>3, <1>4, <1>6, <1>7 DEF SendDup, DupSent, Fresh2
<1>9. Content(2, 1, SentAt(k, l, 2, 1, r, 3, d) + 1) = data
  BY <1>t DEF Told2
<1> HIDE DEF share, data
<1>10. ChanMoved(2, msg)
  BY <1>0, <1>p, <1>5, <1>8, SendsIs
<1>d. msg.data = data
  OBVIOUS
<1> HIDE DEF msg
<1>11. Tells(2, 1, SentNow(2, 1) + 1, msg)
  BY <1>p, <1>9, <1>d, TellsData
<1>12. mem' = [mem EXCEPT ![2] = mem'[2]] /\ Stored(mem[2], mem'[2], "temp", share)
  BY <1>0, <1>p, <1>8, Names, StoredIs
<1> DEFINE m1 == mem'[2]
<1>13. m1["temp"] = share /\ mem' = [mem EXCEPT ![2] = m1]
  BY <1>12 DEF Stored
<1> HIDE DEF m1
<1>14. Holds2(r, 4, 0, w, m1)
  BY <1>13 DEF Holds2, share
<1>15. After(2, 1, r, 3, d, w, m1)
  BY <1>1, <1>5, <1>14 DEF After, Holds, LastPlace
<1>16. work' = [work EXCEPT ![2] = w]
  BY <1>0, <1>p, <1>8, Stays
<1> HIDE DEF w
<1>17. Becomes(2, r, 3, d, msg, w, m1)
  BY <1>5, <1>10, <1>11, <1>13, <1>15, <1>16 DEF Becomes
<1> QED
  BY <1>p, <1>17, BecomesKeeps

(* Every step of server 2 in a round.                                      *)
LEMMA Server2Keeps ==
  ASSUME NEW r, NEW o, NEW d, Acts(2, r, o, d)
  PROVE  ContentIn' /\ ValuesIn'
<1>p. 2 \in Party
  BY DEF Party
<1>0. r = Round(2, pc[2]) /\ r # 3 /\ o = Place(2, pc[2])
  BY DEF Acts
<1>1. pc[2] \in Nat /\ Now(2) = CallAt(2, pc[2])
  BY <1>p, ActsIs
<1>2. o \in -1 .. 4
  BY <1>0, <1>1, Calls2
<1>3. CASE o = -1
  BY <1>3, Send2
<1>4. CASE o = 2
  BY <1>4, Recv2
<1>5. CASE o = 3
  BY <1>5, Dup2
<1>6. CASE o = 4
  BY <1>6, Last2
<1>7. CASE o \in {0, 1}
  <2>1. Now(2).op \in {"hello", "greeted"}
    BY <1>0, <1>1, <1>7, Calls2
  <2>2. PICK msg : Quiet(2, d, msg)
    BY <1>p, <2>1, HelloIs
  <2>3. Holds2(r, o + 1, 0, work[2], mem[2])
    BY <1>7 DEF Holds2
  <2>4. Holds(2, r, o, 0, work[2], mem[2]) => Holds(2, r, o + 1, 0, work[2], mem[2])
    BY <2>3 DEF Holds
  <2>5. o # LastPlace(2)
    BY <1>7 DEF LastPlace
  <2> QED
    BY <1>p, <2>2, <2>4, <2>5, QuietAfter
<1> QED
  BY <1>2, <1>3, <1>4, <1>5, <1>6, <1>7

(* The last call changes no value that is shared.                          *)
LEMMA FinishKeepsValues ==
  ASSUME JoinInv, DbFacts, ContentIn, ValuesIn, NEW p \in Party, Act(p), Round(p, pc[p]) = 3
  PROVE  ContentIn' /\ ValuesIn'
<1> DEFINE c == Now(p)
<1>1. StepKeeps(p) /\ ~ Finished(p)
  <2>1. StepKeeps(p)
    BY ActKeeps
  <2>2. ~ Finished(p)
    BY DEF Act, SayHello, HearHello, SendChunk, ProgramChunk, RecvChunk, OwnShare, HelpDup, SendBits, SendDup, ProgramDup,
           Finish, Ready
  <2> QED
    BY <2>1, <2>2
<1>2. PICK msg : Effect(p, msg)
  BY <1>1 DEF StepKeeps
<1>3. c = CallAt(p, pc[p]) /\ pc[p] < CallCount(p) /\ pc[p] \in Nat /\ done[p] \in 0 .. Span(c) - 1
  <2>1. c = CallAt(p, pc[p]) /\ pc[p] < CallCount(p) /\ done[p] \in 0 .. Span(c) - 1
    BY <1>1, Acting
  <2>2. pc[p] \in Nat
    BY DEF JoinInv, CallsIn
  <2> QED
    BY <2>1, <2>2
<1>4. c = Call("finish", 0) /\ Place(p, pc[p]) = 0
  BY <1>3, NextPlace
<1>5. c.op = "finish"
  BY <1>4 DEF Call
<1>6. chan' = chan /\ work' = work /\ mem' = mem
  BY <1>5, ActIs DEF Finish
<1>7. To(c) = 3 /\ From(c) = {} /\ Span(c) = 1
  <2> HIDE DEF c
  <2> QED
    BY <1>5 DEF To, From, Span
<1>8. ChanMoved(p, msg)
  BY <1>6, <1>7, SilentIs
<1>9. ContentIn'
  <2>1. To(c) \notin Party
    BY <1>7 DEF Party
  <2> QED
    BY <1>1, <1>2, <1>8, <2>1, ContentKeeps
<1>10. ValuesIn'
  <2> DEFINE w == work[p]
             m == mem[p]
  <2>1. work' = [work EXCEPT ![p] = w] /\ mem' = [mem EXCEPT ![p] = m]
    BY <1>6, Stays
  <2>2. Holds(p, 3, 0, 0, w, m)
    <3>1. done[p] = 0
      BY <1>3, <1>7
    <3>2. Holds(p, Round(p, pc[p]), Place(p, pc[p]), done[p], work[p], mem[p])
      BY DEF ValuesIn
    <3> QED
      BY <1>4, <3>1, <3>2
  <2> HIDE DEF w, m
  <2>3. IF Round(p, pc[p]) # 3
          THEN After(p, Span(CallAt(p, pc[p])), Round(p, pc[p]), Place(p, pc[p]), done[p], w, m)
          ELSE Holds(p, 3, 0, 0, w, m)
    BY <2>2
  <2> QED
    BY <1>2, <1>3, <2>1, <2>3, ValuesKeep
<1> QED
  BY <1>9, <1>10

(* Every step keeps the values.                                            *)
LEMMA ValuesNext ==
  ASSUME JoinInv, SameChunks, ValueInv, [Next]_vars
  PROVE  ValueInv'
<1>1. DbFacts /\ ContentIn /\ ValuesIn
  BY DbIs DEF JoinInv, ValueInv
<1>2. ASSUME NEW p \in Party, Act(p) PROVE ContentIn' /\ ValuesIn'
  <2>1. CASE Round(p, pc[p]) = 3
    BY <1>1, <1>2, <2>1, FinishKeepsValues
  <2>2. CASE Round(p, pc[p]) # 3
    <3>1. ~ Finished(p)
      BY <1>2 DEF Act, SayHello, HearHello, SendChunk, ProgramChunk, RecvChunk, OwnShare, HelpDup, SendBits, SendDup,
                  ProgramDup, Finish, Ready
    <3>2. Acts(p, Round(p, pc[p]), Place(p, pc[p]), done[p])
      BY <1>1, <1>2, <2>2, <3>1 DEF Acts
    <3>3. CASE p = 0
      BY <3>2, <3>3, Server0Keeps
    <3>4. CASE p = 1
      BY <3>2, <3>4, Server1Keeps
    <3>5. CASE p = 2
      BY <3>2, <3>5, Server2Keeps
    <3> QED
      BY <3>3, <3>4, <3>5 DEF Party
  <2> QED
    BY <2>1, <2>2
<1>3. ASSUME UNCHANGED vars PROVE ContentIn' /\ ValuesIn'
  <2>1. db' = db /\ pc' = pc /\ done' = done /\ work' = work /\ mem' = mem /\ chan' = chan
    BY <1>3 DEF vars
  <2>2. Fixed /\ Same
    BY <2>1, FixedIs, DbStays
  <2>3. ContentIn'
    <3>1. ASSUME NEW q \in Party, NEW p \in Party PROVE SentNow(q, p)' = SentNow(q, p) /\ GotNow(q, p)' = GotNow(q, p)
      BY <2>1, <2>2 DEF Same, SentNow, GotNow
    <3> QED
      BY <1>1, <2>1, <2>2, <3>1 DEF ContentIn, Fixed
  <2>4. ValuesIn'
    BY <1>1, <2>1, <2>2 DEF ValuesIn, Fixed
  <2> QED
    BY <2>3, <2>4
<1>4. ContentIn' /\ ValuesIn'
  BY <1>2, <1>3 DEF Next
<1> QED
  BY <1>4 DEF ValueInv

(* At first nothing has been sent, and the servers hold what they start    *)
(* from.                                                                   *)
LEMMA ValuesFirst ==
  ASSUME Init, SameChunks
  PROVE  ValueInv
<1>1. /\ db \in Databases
      /\ pc = [p \in Party |-> 0] /\ done = [p \in Party |-> 0]
      /\ mem = [p \in Party |-> [n \in MemNames |-> IF n = "table" THEN FirstTable(p) ELSE Filled(Rows, Junk)]]
  BY DEF Init, MemNames
<1>2. DbFacts
  BY <1>1, DbIs
<1>3. ContentIn
  <2>1. TableChunks \in Nat /\ OutChunks \in Nat
    BY <1>2 DEF DbFacts, Sized
  <2>2. ASSUME NEW q \in Party, NEW p \in Party PROVE SentNow(q, p) = 0 /\ GotNow(q, p) = 0
    BY <1>1, <2>1, NoneYet DEF SentNow, GotNow
  <2>3. ASSUME NEW q \in Party, NEW p \in Party, NEW i \in 1 .. SentNow(q, p) - GotNow(q, p) PROVE FALSE
    BY <2>2, <2>3
  <2> QED
    BY <2>3 DEF ContentIn
<1>4. ASSUME NEW p \in Party
      PROVE  mem[p]["table"] = FirstTable(p) /\ \A h \in 1 .. 3 : mem[p][Out(h)] = Filled(Rows, Junk)
  BY <1>1, Names
<1>5. ASSUME NEW p \in Party, NEW w
      PROVE  Holds(p, 0, IF p = 1 THEN -2 ELSE -1, 0, w, mem[p])
  <2>1. CASE p = 0
    <3>1. Holds0(0, -1, 0, w, mem[0])
      BY <1>4, <2>1 DEF Holds0
    <3> QED
      BY <2>1, <3>1 DEF Holds
  <2>2. CASE p = 1
    <3>1. FirstTable(1) = Delivered(FirstTable(1), CuckooOut, RightOut, 0 * Step)
      BY <1>2, FirstTablesAre, NoneDelivered
    <3>2. mem[1]["table"] = Delivered(FirstTable(1), CuckooOut, RightOut, 0 * Step)
      BY <1>4, <2>2, <3>1
    <3>3. Holds1(0, -2, 0, w, mem[1])
      BY <3>2 DEF Holds1
    <3> QED
      BY <2>2, <3>3 DEF Holds
  <2>3. CASE p = 2
    <3>1. Holds2(0, -1, 0, w, mem[2])
      BY <1>4, <2>3 DEF Holds2
    <3> QED
      BY <2>3, <3>1 DEF Holds
  <2> QED
    BY <2>1, <2>2, <2>3 DEF Party
<1>6. ASSUME NEW p \in Party PROVE Holds(p, Round(p, pc[p]), Place(p, pc[p]), done[p], work[p], mem[p])
  <2>1. pc[p] = 0 /\ done[p] = 0
    BY <1>1
  <2>2. Round(p, 0) = 0 /\ Place(p, 0) = IF p = 1 THEN -2 ELSE -1
    BY DEF Round, Place, Party
  <2>3. Holds(p, 0, IF p = 1 THEN -2 ELSE -1, 0, work[p], mem[p])
    BY <1>5
  <2> QED
    BY <2>1, <2>2, <2>3
<1> QED
  BY <1>3, <1>6 DEF ValueInv, ValuesIn

(* What the servers hold adds up.                                          *)
LEMMA ValuesAddUp ==
  ASSUME JoinInv, SameChunks, ValueInv
  PROVE  SharesAddUp
<1>1. DbFacts /\ ValuesIn /\ db \in Databases
  BY DbIs DEF JoinInv, ValueInv
<1>2. 0 \in Party /\ 1 \in Party /\ pc[0] \in Nat /\ pc[1] \in Nat
  BY DEF JoinInv, CallsIn, Party
<1> DEFINE r0 == Round(0, pc[0])
           o0 == Place(0, pc[0])
           r1 == Round(1, pc[1])
           o1 == Place(1, pc[1])
<1>3. Holds0(r0, o0, done[0], work[0], mem[0]) /\ Holds1(r1, o1, done[1], work[1], mem[1])
  <2>1. Holds(0, r0, o0, done[0], work[0], mem[0]) /\ Holds(1, r1, o1, done[1], work[1], mem[1])
    BY <1>1, <1>2 DEF ValuesIn
  <2> QED
    BY <2>1 DEF Holds
<1>4. /\ Past(0, 1) => o0 # -1
      /\ Past(1, 1) => o1 # -2
  BY <1>2 DEF Past, Round, Place
<1>5. ASSUME NEW h \in 1 .. 3, Past(0, 1 + 5 * h), Past(1, 2 + 8 * h)
      PROVE  h - 1 < r0 /\ h - 1 < r1 /\ o1 >= 0
  BY <1>2, <1>5 DEF Past, Round, Place
<1> HIDE DEF r0, o0, r1, o1
<1>6. ASSUME Past(0, 1), Past(1, 1)
      PROVE  \A b \in 1 .. db.bins : Xor(mem[0]["table"][b], mem[1]["table"][b]) = TableRow(b)
  <2>1. mem[0]["table"] = Tab0 /\ mem[1]["table"] = Tab1
    BY <1>3, <1>4, <1>6 DEF Holds0, Holds1
  <2> QED
    BY <1>1, <2>1, TableAdds
<1>7. ASSUME NEW h \in 1 .. 3, Past(0, 1 + 5 * h), Past(1, 2 + 8 * h), NEW i \in 1 .. Rows
      PROVE  Candidates(i)[h] = TableRow(Positions(i)[h])
  <2>1. mem[0][Out(h)] = Out0(h) /\ mem[1][Out(h)] = Out1(h) /\ Validate(Sorted(h))
    BY <1>3, <1>5, <1>7 DEF Holds0, Holds1
  <2>2. Candidates(i)[h] = Xor(mem[0][Out(h)][i], mem[1][Out(h)][i])
    BY DEF Candidates
  <2> QED
    BY <1>1, <2>1, <2>2, OutAdds
<1> QED
  BY <1>6, <1>7 DEF SharesAddUp

(* In every state of every behaviour, whatever the tables, the cuckoo hash,*)
(* the chunk's size and the draws are, what servers 0 and 1 hold adds up:  *)
(* once the first call is over, to the cuckoo table, and after the round   *)
(* of a hash function to the entries it selects for the left rows.         *)
THEOREM SharesAddUpHolds == SameChunks /\ Spec => []SharesAddUp
<1> DEFINE I == JoinInv /\ ValueInv
<1>1. SameChunks /\ Init => I
  BY InitHolds, ValuesFirst
<1>2. SameChunks /\ I /\ [Next]_vars => I'
  BY NextKeeps, ValuesNext
<1>3. SameChunks /\ I => SharesAddUp
  BY ValuesAddUp
<1>4. SameChunks => SameChunks'
  BY DEF SameChunks
<1> HIDE DEF I
<1> QED
  BY <1>1, <1>2, <1>3, <1>4, PTL DEF Spec
====
