------------------------------ MODULE FoldFacts ------------------------------
(***************************************************************************)
(* Induction and recursion for the proofs about folds.  A predicate is     *)
(* given as the set of the numbers that satisfy it, a step as a function,  *)
(* so that the facts are first order.  FoldLeft(op, base, seq) is the      *)
(* value at DOMAIN seq of some function on subsets of DOMAIN seq that      *)
(* satisfies a recursion: FoldExists says that there is one, MaxOfPrefix   *)
(* what it is on the prefixes 1..k.  RecursionExists is for the recursive  *)
(* functions on the numbers.  Then sequences given by their length and     *)
(* elements, their concatenation, queues, and the rank of a number in a    *)
(* set of numbers.                                                         *)
(***************************************************************************)
EXTENDS SequencesExt, SequenceTheorems, FiniteSetTheorems, WellFoundedInduction, TLAPS

(* A set of numbers has a least one.                                       *)
LEMMA LeastNat ==
  ASSUME NEW T \in SUBSET Nat, T # {}
  PROVE  \E x \in T : \A y \in T : x <= y
<1>1. PICK x \in T : \A y \in T : ~ (<<y, x>> \in OpToRel(<, Nat))
  BY WFMin, NatLessThanWellFounded
<1>2. ASSUME NEW y \in T, ~ x <= y PROVE FALSE
  <2>1. <<y, x>> \in OpToRel(<, Nat)
    BY <1>2 DEF OpToRel
  <2> QED
    BY <1>1, <2>1
<1> QED
  BY <1>2

(* Induction, for the set of the numbers that satisfy a predicate.         *)
LEMMA NatInduct ==
  ASSUME NEW S, 0 \in S, \A n \in Nat : n \in S => n + 1 \in S
  PROVE  \A n \in Nat : n \in S
<1> DEFINE T == {n \in Nat : n \notin S}
<1> SUFFICES ASSUME T # {} PROVE FALSE
  OBVIOUS
<1>1. PICK x \in T : \A y \in T : x <= y
  BY LeastNat
<1>2. x \in Nat /\ x \notin S /\ x # 0
  BY <1>1
<1>3. x - 1 \in Nat /\ ~ x <= x - 1
  BY <1>2
<1>4. x - 1 \in S
  BY <1>1, <1>3
<1>5. x - 1 + 1 = x
  BY <1>2
<1> QED
  BY <1>2, <1>3, <1>4, <1>5

(* The greatest number of a set is the one that is above all.              *)
LEMMA MaxIs ==
  ASSUME NEW s \in SUBSET Int, NEW x \in s, \A y \in s : x >= y
  PROVE  Max(s) = x
<1>1. \A z \in s : (\A y \in s : z >= y) => z = x
  OBVIOUS
<1> QED
  BY <1>1 DEF Max

(* The greatest number of a prefix, and the prefix without it.             *)
LEMMA MaxOfPrefix ==
  ASSUME NEW k \in Nat
  PROVE  /\ 1 .. (k + 1) # {}
         /\ Max(1 .. (k + 1)) = k + 1
         /\ (1 .. (k + 1)) \ {k + 1} = 1 .. k
<1>1. 1 .. (k + 1) \in SUBSET Int /\ k + 1 \in 1 .. (k + 1) /\ \A y \in 1 .. (k + 1) : k + 1 >= y
  OBVIOUS
<1>2. Max(1 .. (k + 1)) = k + 1
  BY <1>1, MaxIs
<1>3. (1 .. (k + 1)) \ {k + 1} = 1 .. k
  OBVIOUS
<1>4. 1 .. (k + 1) # {}
  BY <1>1
<1> HIDE DEF Max
<1> QED
  BY <1>2, <1>3, <1>4

(* Every set of numbers from 1 .. n has a greatest one.                    *)
LEMMA MaxOfSubset ==
  ASSUME NEW n \in Nat, NEW s \in SUBSET (1 .. n), s # {}
  PROVE  Max(s) \in s /\ \A y \in s : Max(s) >= y
<1> DEFINE T == {n - y : y \in s}
<1>1. T \subseteq Nat
  OBVIOUS
<1>2. T # {}
  OBVIOUS
<1>3. PICK m \in T : \A k \in T : m <= k
  <2> HIDE DEF T
  <2> QED
    BY <1>1, <1>2, LeastNat
<1>4. PICK x \in s : m = n - x
  BY <1>3
<1>5. ASSUME NEW y \in s PROVE x >= y
  <2>1. n - x <= n - y
    BY <1>3, <1>4
  <2> QED
    BY <2>1
<1>6. Max(s) = x
  BY <1>5, MaxIs
<1> QED
  BY <1>5, <1>6

(* There is a function that satisfies the recursion of a fold.             *)
Folds(F, n, base, St) ==
  F = [s \in SUBSET (1 .. n) |-> IF s = {} THEN base ELSE St[<<F[s \ {Max(s)}], Max(s)>>]]

(* Built up from the subsets of 1 .. k, one number at a time.              *)
LEMMA FoldExists ==
  ASSUME NEW n \in Nat, NEW D, NEW base \in D, NEW St \in [D \X (1 .. n) -> D]
  PROVE  \E F \in [SUBSET (1 .. n) -> D] : Folds(F, n, base, St)
<1> DEFINE Good(F, k) == /\ F \in [SUBSET (1 .. k) -> D]
                         /\ F[{}] = base
                         /\ \A s \in SUBSET (1 .. k) : s # {} => F[s] = St[<<F[s \ {Max(s)}], Max(s)>>]
           S == {k \in Nat : k <= n => \E F : Good(F, k)}
<1>1. 0 \in S
  <2> DEFINE F0 == [s \in SUBSET (1 .. 0) |-> base]
  <2>1. SUBSET (1 .. 0) = {{}}
    OBVIOUS
  <2>2. Good(F0, 0)
    BY <2>1
  <2> QED
    BY <2>2
<1>2. ASSUME NEW k \in Nat, k \in S, k + 1 <= n
      PROVE  \E F : Good(F, k + 1)
  <2>0. k <= n
    BY <1>2
  <2>1. PICK F : Good(F, k)
    BY <1>2, <2>0
  <2> DEFINE m == k + 1
             G == [s \in SUBSET (1 .. m) |-> IF m \in s THEN St[<<F[s \ {m}], m>>] ELSE F[s]]
  <2>2. \A s \in SUBSET (1 .. m) : m \notin s => s \in SUBSET (1 .. k)
    OBVIOUS
  <2>3. \A s \in SUBSET (1 .. m) : s \ {m} \in SUBSET (1 .. k)
    OBVIOUS
  <2>4. m \in 1 .. n
    BY <1>2
  <2>5. G \in [SUBSET (1 .. m) -> D]
    <3> SUFFICES ASSUME NEW s \in SUBSET (1 .. m) PROVE G[s] \in D
      OBVIOUS
    <3>1. CASE m \in s
      <4>1. F[s \ {m}] \in D
        BY <2>1, <2>3
      <4> QED
        BY <3>1, <4>1, <2>4
    <3>2. CASE m \notin s
      BY <3>2, <2>1, <2>2
    <3> QED
      BY <3>1, <3>2
  <2>6. G[{}] = base
    BY <2>1
  <2>7. ASSUME NEW s \in SUBSET (1 .. m), s # {}
        PROVE  G[s] = St[<<G[s \ {Max(s)}], Max(s)>>]
    <3>1. CASE m \in s
      <4>1. Max(s) = m
        BY <3>1, MaxIs
      <4>2. G[s \ {m}] = F[s \ {m}]
        OBVIOUS
      <4> QED
        BY <3>1, <4>1, <4>2
    <3>2. CASE m \notin s
      <4>1. s \in SUBSET (1 .. k) /\ G[s] = F[s]
        BY <3>2, <2>2
      <4>2. F[s] = St[<<F[s \ {Max(s)}], Max(s)>>]
        BY <2>1, <2>7, <4>1
      <4>3. G[s \ {Max(s)}] = F[s \ {Max(s)}]
        BY <3>2
      <4> QED
        BY <4>1, <4>2, <4>3
    <3> QED
      BY <3>1, <3>2
  <2> QED
    BY <2>5, <2>6, <2>7
<1>3. n \in S
  <2> HIDE DEF Good
  <2> HIDE DEF S
  <2>1. \A k \in Nat : k \in S => k + 1 \in S
    BY <1>2 DEF S
  <2> QED
    BY <1>1, <2>1, NatInduct
<1>4. PICK F : Good(F, n)
  <2> HIDE DEF Good
  <2> QED
    BY <1>3
<1> QED
  BY <1>4 DEF Folds

(* The values of a fold on the prefixes of the sequence.  The recursion is *)
(* asked for only where the value before is in D.                          *)
Traces(T, n, D, base, St) ==
  /\ T \in [0 .. n -> D] /\ T[0] = base
  /\ \A k \in 1 .. n : T[k] = St[<<T[k - 1], k>>]
OnPrefixes(F, n) == [k \in 0 .. n |-> F[1 .. k]]

Unfolds(F, n, D, base, St) ==
  /\ n \in Nat /\ base \in D /\ St \in [D \X (1 .. n) -> D] /\ F[{}] = base
  /\ \A s \in SUBSET (1 .. n) :
       s # {} /\ F[s \ {Max(s)}] \in D => F[s] = St[<<F[s \ {Max(s)}], Max(s)>>]

(* On the prefixes it goes through the sequence step by step.              *)
LEMMA FoldTrace ==
  ASSUME NEW n, NEW D, NEW base, NEW St, NEW F, Unfolds(F, n, D, base, St)
  PROVE  Traces(OnPrefixes(F, n), n, D, base, St) /\ OnPrefixes(F, n)[n] = F[1 .. n]
<1> DEFINE T == OnPrefixes(F, n)
           S == {k \in Nat : k <= n => F[1 .. k] \in D}
<1>a. /\ n \in Nat /\ base \in D /\ St \in [D \X (1 .. n) -> D] /\ F[{}] = base
      /\ \A s \in SUBSET (1 .. n) :
           s # {} /\ F[s \ {Max(s)}] \in D => F[s] = St[<<F[s \ {Max(s)}], Max(s)>>]
  BY DEF Unfolds
<1>0. F[1 .. 0] = base
  <2>1. 1 .. 0 = {}
    OBVIOUS
  <2> QED
    BY <1>a, <2>1
<1>1. 0 \in S
  BY <1>a, <1>0
<1>2. ASSUME NEW k \in Nat, k + 1 <= n, F[1 .. k] \in D
      PROVE  F[1 .. (k + 1)] = St[<<F[1 .. k], k + 1>>]
  <2> DEFINE s == 1 .. (k + 1)
  <2>1. s # {} /\ Max(s) = k + 1 /\ s \ {k + 1} = 1 .. k
    BY MaxOfPrefix
  <2>2. s \in SUBSET (1 .. n)
    BY <1>a, <1>2
  <2> HIDE DEF s
  <2>3. F[s] = St[<<F[s \ {Max(s)}], Max(s)>>]
    BY <1>a, <1>2, <2>1, <2>2
  <2> QED
    BY <2>1, <2>3 DEF s
<1>3. ASSUME NEW k \in Nat, k \in S PROVE k + 1 \in S
  <2> SUFFICES ASSUME k + 1 <= n PROVE F[1 .. (k + 1)] \in D
    OBVIOUS
  <2>1. k + 1 \in 1 .. n /\ k <= n
    BY <1>a
  <2>2. F[1 .. k] \in D
    BY <1>3, <2>1
  <2>3. F[1 .. (k + 1)] = St[<<F[1 .. k], k + 1>>]
    BY <1>2, <2>2
  <2> QED
    BY <1>a, <2>1, <2>2, <2>3
<1>4. \A k \in 0 .. n : F[1 .. k] \in D
  <2>1. \A k \in Nat : k \in S
    <3> HIDE DEF S
    <3> QED
      BY <1>1, <1>3, NatInduct
  <2> QED
    BY <1>a, <2>1
<1>5. ASSUME NEW k \in 1 .. n PROVE T[k] = St[<<T[k - 1], k>>]
  <2>1. k - 1 \in 0 .. n /\ k \in 0 .. n /\ k - 1 \in Nat /\ k - 1 + 1 = k /\ k - 1 + 1 <= n
    BY <1>a
  <2>2. T[k - 1] = F[1 .. (k - 1)] /\ T[k] = F[1 .. k]
    BY <2>1 DEF OnPrefixes
  <2>3. F[1 .. (k - 1 + 1)] = St[<<F[1 .. (k - 1)], k - 1 + 1>>]
    BY <1>2, <1>4, <2>1
  <2> QED
    BY <2>1, <2>2, <2>3
<1>6. T \in [0 .. n -> D] /\ T[0] = base /\ T[n] = F[1 .. n]
  BY <1>a, <1>0, <1>4 DEF OnPrefixes
<1> HIDE DEF T
<1> QED
  BY <1>5, <1>6 DEF Traces, T

(* A fold never leaves a set that its steps do not leave.                  *)
LEMMA FoldStays ==
  ASSUME NEW n, NEW D, NEW base, NEW St, NEW F, Unfolds(F, n, D, base, St)
  PROVE  F[1 .. n] \in D
<1>1. Traces(OnPrefixes(F, n), n, D, base, St) /\ OnPrefixes(F, n)[n] = F[1 .. n]
  BY FoldTrace
<1>2. n \in 0 .. n
  BY DEF Unfolds
<1> QED
  BY <1>1, <1>2 DEF Traces

(* There is a function that satisfies a recursion on the numbers.          *)
Recurs(F, base, St) == \A n \in Nat : F[n] = IF n = 0 THEN base ELSE St[<<F[n - 1], n>>]

(* Built up from the functions on 0 .. k, one number at a time.            *)
LEMMA RecursionExists ==
  ASSUME NEW D, NEW base, NEW St, base \in D, St \in [D \X Nat -> D]
  PROVE  \E F \in [Nat -> D] : Recurs(F, base, St)
<1> DEFINE Good(g, k) == /\ g \in [0 .. k -> D]
                         /\ g[0] = base
                         /\ \A i \in 1 .. k : g[i] = St[<<g[i - 1], i>>]
           S == {k \in Nat : \E g : Good(g, k)}
           Same(g, h, k) == {i \in Nat : i <= k => g[i] = h[i]}
<1>1. 0 \in S
  <2> DEFINE g == [i \in 0 .. 0 |-> base]
  <2>1. Good(g, 0)
    OBVIOUS
  <2> QED
    BY <2>1
<1>2. ASSUME NEW k \in Nat, k \in S
      PROVE  k + 1 \in S
  <2>1. PICK g : Good(g, k)
    BY <1>2
  <2> DEFINE h == [i \in 0 .. (k + 1) |-> IF i <= k THEN g[i] ELSE St[<<g[k], k + 1>>]]
  <2>2. St[<<g[k], k + 1>>] \in D
    BY <2>1
  <2>3. h \in [0 .. (k + 1) -> D]
    BY <2>1, <2>2
  <2>4. h[0] = base
    BY <2>1
  <2>5. ASSUME NEW i \in 1 .. (k + 1)
        PROVE  h[i] = St[<<h[i - 1], i>>]
    <3>1. h[i - 1] = g[i - 1]
      OBVIOUS
    <3>2. CASE i <= k
      <4>1. i \in 1 .. k /\ h[i] = g[i]
        BY <3>2
      <4> QED
        BY <2>1, <3>1, <4>1
    <3>3. CASE i = k + 1
      <4>1. h[i] = St[<<g[k], k + 1>>] /\ i - 1 = k
        BY <3>3
      <4> QED
        BY <3>1, <3>3, <4>1
    <3> QED
      BY <3>2, <3>3
  <2>6. Good(h, k + 1)
    BY <2>3, <2>4, <2>5
  <2> HIDE DEF Good
  <2> QED
    BY <2>6
<1>3. \A k \in Nat : \E g : Good(g, k)
  <2> HIDE DEF Good
  <2>1. \A k \in Nat : k \in S
    <3> HIDE DEF S
    <3> QED
      BY <1>1, <1>2, NatInduct
  <2> QED
    BY <2>1
<1>4. ASSUME NEW k \in Nat, NEW m \in Nat, k <= m, NEW g, NEW h, Good(g, k), Good(h, m)
      PROVE  g[k] = h[k]
  <2> DEFINE T == Same(g, h, k)
  <2>1. 0 \in T
    BY <1>4
  <2>2. ASSUME NEW i \in Nat, i \in T PROVE i + 1 \in T
    <3> SUFFICES ASSUME i + 1 <= k PROVE g[i + 1] = h[i + 1]
      OBVIOUS
    <3>1. g[i] = h[i]
      BY <2>2
    <3>2. g[i + 1] = St[<<g[i], i + 1>>] /\ h[i + 1] = St[<<h[i], i + 1>>]
      <4>1. i + 1 \in 1 .. k /\ i + 1 \in 1 .. m /\ i + 1 - 1 = i
        BY <1>4
      <4> QED
        BY <4>1, <1>4
    <3> QED
      BY <3>1, <3>2
  <2>3. k \in T
    <3> HIDE DEF T
    <3> QED
      BY <2>1, <2>2, NatInduct
  <2> QED
    BY <2>3
<1> DEFINE Some(k) == CHOOSE g : Good(g, k)
           F == [n \in Nat |-> Some(n)[n]]
<1>5. \A k \in Nat : Good(Some(k), k)
  <2> HIDE DEF Good
  <2> QED
    BY <1>3
<1>6. F \in [Nat -> D]
  <2> HIDE DEF Some
  <2> QED
    BY <1>5
<1>7. ASSUME NEW n \in Nat
      PROVE  F[n] = IF n = 0 THEN base ELSE St[<<F[n - 1], n>>]
  <2> HIDE DEF Some
  <2>1. CASE n = 0
    BY <2>1, <1>5
  <2>2. CASE n # 0
    <3>1. n - 1 \in Nat /\ n - 1 <= n /\ n \in 1 .. n
      BY <2>2
    <3>2. Good(Some(n), n) /\ Good(Some(n - 1), n - 1)
      BY <1>5, <3>1
    <3>3. Some(n - 1)[n - 1] = Some(n)[n - 1]
      <4> HIDE DEF Good
      <4> QED
        BY <1>4, <3>1, <3>2
    <3>4. Some(n)[n] = St[<<Some(n)[n - 1], n>>]
      BY <3>1, <3>2
    <3> QED
      BY <2>2, <3>1, <3>3, <3>4
  <2> QED
    BY <2>1, <2>2
<1> HIDE DEF F
<1> QED
  BY <1>6, <1>7 DEF Recurs

(* The sum of w[1] .. w[n], for each n.                                    *)
Totals(w) == LET sum[n \in Nat] == IF n = 0 THEN 0 ELSE sum[n - 1] + w[n] IN sum

(* The sums are numbers and never fall.                                    *)
LEMMA TotalsAre ==
  ASSUME NEW w \in [Nat -> Nat]
  PROVE  /\ Totals(w) \in [Nat -> Nat] /\ Totals(w)[0] = 0
         /\ \A n \in Nat : Totals(w)[n + 1] = Totals(w)[n] + w[n + 1]
         /\ \A m, n \in Nat : m <= n => Totals(w)[m] <= Totals(w)[n]
<1> DEFINE St == [x \in Nat \X Nat |-> x[1] + w[x[2]]]
           T == Totals(w)
<1>1. T = [n \in Nat |-> IF n = 0 THEN 0 ELSE T[n - 1] + w[n]]
  <2>1. St \in [Nat \X Nat -> Nat]
    OBVIOUS
  <2>2. PICK F \in [Nat -> Nat] : Recurs(F, 0, St)
    <3> HIDE DEF St
    <3> QED
      BY <2>1, 0 \in Nat, RecursionExists
  <2>3. \A n \in Nat : F[n] = IF n = 0 THEN 0 ELSE St[<<F[n - 1], n>>]
    BY <2>2 DEF Recurs
  <2>4. ASSUME NEW n \in Nat, n # 0
        PROVE  St[<<F[n - 1], n>>] = F[n - 1] + w[n]
    <3>1. F[n - 1] \in Nat
      BY <2>4
    <3> QED
      BY <3>1
  <2>5. F = [n \in Nat |-> IF n = 0 THEN 0 ELSE F[n - 1] + w[n]]
    <3> HIDE DEF St
    <3> QED
      BY <2>3, <2>4
  <2> QED
    BY <2>5 DEF Totals
<1> HIDE DEF T, St
<1>2. T[0] = 0 /\ \A n \in Nat : T[n + 1] = T[n] + w[n + 1]
  <2>1. \A n \in Nat : n + 1 \in Nat /\ n + 1 # 0 /\ n + 1 - 1 = n
    OBVIOUS
  <2> QED
    BY <1>1, <2>1
<1> DEFINE I == {n \in Nat : T[n] \in Nat}
<1>3. \A n \in Nat : n \in I
  <2>1. 0 \in I /\ \A n \in Nat : n \in I => n + 1 \in I
    BY <1>2
  <2> HIDE DEF I
  <2> QED
    BY <2>1, NatInduct
<1>4. T \in [Nat -> Nat]
  BY <1>1, <1>3
<1>5. ASSUME NEW m \in Nat, NEW n \in Nat, m <= n
      PROVE  T[m] <= T[n]
  <2> DEFINE J == {k \in Nat : m <= k => T[m] <= T[k]}
  <2>1. 0 \in J
    BY <1>4
  <2>2. ASSUME NEW k \in Nat, k \in J PROVE k + 1 \in J
    <3>1. T[k + 1] = T[k] + w[k + 1] /\ w[k + 1] \in Nat /\ T[k] \in Nat /\ T[m] \in Nat
      BY <1>2, <1>4
    <3> QED
      BY <2>2, <3>1
  <2> HIDE DEF J
  <2>3. n \in J
    BY <2>1, <2>2, NatInduct
  <2> QED
    BY <1>5, <2>3 DEF J
<1> QED
  BY <1>2, <1>4, <1>5 DEF T

-----------------------------------------------------------------------------
(* A matrix of n rows.                                                     *)
Matrix(s, n) == n \in Nat /\ s = [i \in 1 .. n |-> s[i]]

(* A matrix's length and domain.                                           *)
LEMMA MatrixLen ==
  ASSUME NEW s, NEW n, Matrix(s, n)
  PROVE  Len(s) = n /\ DOMAIN s = 1 .. n /\ n \in Nat
<1> DEFINE V == {s[i] : i \in 1 .. n}
<1>1. s \in [1 .. n -> V]
  BY DEF Matrix
<1>2. s \in Seq(V) /\ n \in Nat
  BY <1>1, SeqDef DEF Matrix
<1> HIDE DEF V
<1> QED
  BY <1>1, <1>2, LenProperties

(* A matrix below another.                                                 *)
CatIs(u, s, m, t, n) ==
  /\ Matrix(u, m + n)
  /\ \A i \in 1 .. m : u[i] = s[i]
  /\ \A i \in 1 .. n : u[m + i] = t[i]

(* Concatenation.                                                          *)
LEMMA Cat ==
  ASSUME NEW s, NEW t, NEW m, NEW n, NEW u, Matrix(s, m), Matrix(t, n), u = s \o t
  PROVE  CatIs(u, s, m, t, n)
<1> DEFINE V == {s[i] : i \in 1 .. m} \cup {t[i] : i \in 1 .. n}
<1>1. s \in [1 .. m -> V] /\ t \in [1 .. n -> V] /\ m \in Nat /\ n \in Nat
  BY DEF Matrix
<1> HIDE DEF V
<1>2. s \in Seq(V) /\ t \in Seq(V) /\ Len(s) = m /\ Len(t) = n
  BY <1>1, SeqDef, MatrixLen
<1>3. /\ Len(s \o t) = m + n /\ s \o t \in Seq(V)
      /\ \A i \in 1 .. (m + n) : (s \o t)[i] = IF i <= m THEN s[i] ELSE t[i - m]
  BY <1>1, <1>2, ConcatProperties
<1>4. Len(u) = m + n /\ u \in Seq(V) /\ \A i \in 1 .. (m + n) : u[i] = IF i <= m THEN s[i] ELSE t[i - m]
  BY <1>3
<1>5. u \in [1 .. (m + n) -> V] /\ m + n \in Nat
  BY <1>1, <1>4, LenProperties
<1>6. Matrix(u, m + n)
  BY <1>5 DEF Matrix
<1>7. ASSUME NEW i \in 1 .. m PROVE u[i] = s[i]
  <2>1. i \in 1 .. (m + n) /\ i <= m
    BY <1>1
  <2> QED
    BY <1>4, <2>1
<1>8. ASSUME NEW i \in 1 .. n PROVE u[m + i] = t[i]
  <2> DEFINE j == m + i
  <2>1. j \in 1 .. (m + n) /\ ~ j <= m /\ j - m = i
    BY <1>1
  <2> HIDE DEF j
  <2>2. u[j] = t[j - m]
    BY <1>4, <2>1
  <2> QED
    BY <2>1, <2>2 DEF j
<1> QED
  BY <1>6, <1>7, <1>8 DEF CatIs

(* Three rounds between what comes first and what comes last.              *)
RoundsIn(s, a, m, b1, b2, b3, n, z) ==
  /\ Matrix(s, m + n + n + n + 1)
  /\ \A i \in 1 .. m : s[i] = a[i]
  /\ \A i \in 1 .. n : s[m + i] = b1[i] /\ s[m + n + i] = b2[i] /\ s[m + n + n + i] = b3[i]
  /\ s[m + n + n + n + 1] = z[1]

(* A concatenation of three rounds, read place by place.                   *)
LEMMA RoundsOf ==
  ASSUME NEW a, NEW b1, NEW b2, NEW b3, NEW z, NEW s, NEW m, NEW n,
         Matrix(a, m), Matrix(b1, n), Matrix(b2, n), Matrix(b3, n), Matrix(z, 1),
         s = (a \o b1 \o b2 \o b3) \o z
  PROVE  RoundsIn(s, a, m, b1, b2, b3, n, z)
<1> DEFINE s1 == a \o b1
           s2 == s1 \o b2
           s3 == s2 \o b3
<1>0. m \in Nat /\ n \in Nat
  BY DEF Matrix
<1>1. CatIs(s1, a, m, b1, n)
  BY Cat
<1>2. s1 \o b2 = s2 /\ s2 \o b3 = s3 /\ s3 \o z = s
  OBVIOUS
<1> HIDE DEF s1, s2, s3
<1>3. CatIs(s2, s1, m + n, b2, n)
  <2>1. Matrix(s1, m + n)
    BY <1>1 DEF CatIs
  <2> QED
    BY <1>2, <2>1, Cat
<1>4. CatIs(s3, s2, m + n + n, b3, n)
  <2>1. Matrix(s2, m + n + n)
    BY <1>3 DEF CatIs
  <2> QED
    BY <1>2, <2>1, Cat
<1>5. CatIs(s, s3, m + n + n + n, z, 1)
  <2>1. Matrix(s3, m + n + n + n)
    BY <1>4 DEF CatIs
  <2> QED
    BY <1>2, <2>1, Cat
<1>6. ASSUME NEW i \in 1 .. m PROVE s[i] = a[i]
  <2>1. i \in 1 .. (m + n) /\ i \in 1 .. (m + n + n) /\ i \in 1 .. (m + n + n + n)
    BY <1>0
  <2>2. s[i] = s3[i] /\ s3[i] = s2[i] /\ s2[i] = s1[i] /\ s1[i] = a[i]
    BY <1>1, <1>3, <1>4, <1>5, <2>1 DEF CatIs
  <2> QED
    BY <2>2
<1>7. ASSUME NEW i \in 1 .. n PROVE s[m + i] = b1[i] /\ s[m + n + i] = b2[i] /\ s[m + n + n + i] = b3[i]
  <2>1. /\ m + i \in 1 .. (m + n) /\ m + i \in 1 .. (m + n + n) /\ m + i \in 1 .. (m + n + n + n)
        /\ m + n + i \in 1 .. (m + n + n) /\ m + n + i \in 1 .. (m + n + n + n)
        /\ m + n + n + i \in 1 .. (m + n + n + n)
    BY <1>0
  <2>2. s[m + i] = s3[m + i] /\ s3[m + i] = s2[m + i] /\ s2[m + i] = s1[m + i] /\ s1[m + i] = b1[i]
    BY <1>1, <1>3, <1>4, <1>5, <2>1 DEF CatIs
  <2>3. s[m + n + i] = s3[m + n + i] /\ s3[m + n + i] = s2[m + n + i] /\ s2[m + n + i] = b2[i]
    BY <1>3, <1>4, <1>5, <2>1 DEF CatIs
  <2>4. s[m + n + n + i] = s3[m + n + n + i] /\ s3[m + n + n + i] = b3[i]
    BY <1>4, <1>5, <2>1 DEF CatIs
  <2> QED
    BY <2>2, <2>3, <2>4
<1>8. Matrix(s, m + n + n + n + 1) /\ s[m + n + n + n + 1] = z[1]
  <2>1. 1 \in 1 .. 1
    OBVIOUS
  <2> QED
    BY <1>5, <2>1 DEF CatIs
<1> QED
  BY <1>6, <1>7, <1>8 DEF RoundsIn

(* The place behind the first i ones.                                      *)
RoundAt(s, a, m, b1, b2, b3, n, z, i) ==
  s[i + 1] = IF i < m THEN a[i + 1] ELSE IF i < m + n THEN b1[i - m + 1] ELSE IF i < m + n + n THEN b2[i - m - n + 1]
             ELSE IF i < m + n + n + n THEN b3[i - m - n - n + 1] ELSE z[1]

(* It is in the first part, in one of the rounds or the end.               *)
LEMMA RoundsAt ==
  ASSUME NEW a, NEW b1, NEW b2, NEW b3, NEW z, NEW s, NEW m, NEW n, NEW i,
         m \in Nat, n \in Nat, i \in 0 .. m + n + n + n, RoundsIn(s, a, m, b1, b2, b3, n, z)
  PROVE  RoundAt(s, a, m, b1, b2, b3, n, z, i)
<1>1. /\ i < m => i + 1 \in 1 .. m
      /\ ~ i < m /\ i < m + n => i - m + 1 \in 1 .. n /\ m + (i - m + 1) = i + 1
      /\ ~ i < m + n /\ i < m + n + n => i - m - n + 1 \in 1 .. n /\ m + n + (i - m - n + 1) = i + 1
      /\ ~ i < m + n + n /\ i < m + n + n + n => i - m - n - n + 1 \in 1 .. n /\ m + n + n + (i - m - n - n + 1) = i + 1
      /\ ~ i < m + n + n + n => m + n + n + n + 1 = i + 1
  OBVIOUS
<1> QED
  BY <1>1 DEF RoundsIn, RoundAt

-----------------------------------------------------------------------------
(* Queues: taking the first message and putting one at the end.            *)
OneIf(b) == IF b THEN 1 ELSE 0
Moved(s, taken, put, m) == (IF taken THEN Tail(s) ELSE s) \o (IF put THEN <<m>> ELSE <<>>)
QueueIs(t, s, n, taken, put, m) ==
  /\ Matrix(t, n - OneIf(taken) + OneIf(put))
  /\ \A i \in 1 .. n - OneIf(taken) : t[i] = s[i + OneIf(taken)]
  /\ put => t[n - OneIf(taken) + 1] = m

(* A queue is empty when it has no messages; its head is the first.        *)
LEMMA QueueEmpty ==
  ASSUME NEW s, NEW n, Matrix(s, n)
  PROVE  (s = <<>> <=> n = 0) /\ (n # 0 => Head(s) = s[1])
<1>1. Len(s) = n /\ DOMAIN s = 1 .. n /\ n \in Nat
  BY MatrixLen
<1>2. s = <<>> => n = 0
  BY <1>1
<1>3. n = 0 => s = <<>>
  BY DEF Matrix
<1> QED
  BY <1>2, <1>3

(* What is in a queue after a step.                                        *)
LEMMA QueueMoves ==
  ASSUME NEW s, NEW n, NEW taken \in BOOLEAN, NEW put \in BOOLEAN, NEW m,
         Matrix(s, n), taken => s # <<>>
  PROVE  QueueIs(Moved(s, taken, put, m), s, n, taken, put, m)
<1>1. n \in Nat /\ (taken => n # 0)
  BY QueueEmpty DEF Matrix
<1> DEFINE u == IF taken THEN Tail(s) ELSE s
           k == n - OneIf(taken)
           v == IF put THEN <<m>> ELSE <<>>
<1>2. k \in Nat
  BY <1>1 DEF OneIf
<1>3. Matrix(u, k) /\ \A i \in 1 .. k : u[i] = s[i + OneIf(taken)]
  <2>1. CASE taken
    <3> DEFINE V == {s[i] : i \in 1 .. n}
    <3>1. s \in [1 .. n -> V]
      BY DEF Matrix
    <3>2. s \in Seq(V) /\ Len(s) = n /\ s # <<>>
      <4>1. s \in Seq(V)
        <5> HIDE DEF V
        <5> QED
          BY <1>1, <3>1, SeqDef
      <4>2. Len(s) = n
        BY MatrixLen
      <4>3. s # <<>>
        BY <1>1, <2>1
      <4> HIDE DEF V
      <4> QED
        BY <4>1, <4>2, <4>3
    <3> HIDE DEF V
    <3>3. Tail(s) \in Seq(V) /\ Len(Tail(s)) = n - 1 /\ \A i \in 1 .. n - 1 : Tail(s)[i] = s[i + 1]
      BY <3>2, HeadTailProperties
    <3>4. Tail(s) \in [1 .. n - 1 -> V] /\ n - 1 \in Nat
      BY <1>1, <2>1, <3>3, LenProperties
    <3>5. k = n - 1 /\ u = Tail(s) /\ OneIf(taken) = 1
      BY <2>1 DEF OneIf
    <3> HIDE DEF u, k
    <3> QED
      BY <3>3, <3>4, <3>5 DEF Matrix
  <2>2. CASE ~ taken
    <3>1. u = s /\ k = n /\ OneIf(taken) = 0
      BY <1>1, <2>2 DEF OneIf
    <3> HIDE DEF u, k
    <3> QED
      BY <1>1, <3>1
  <2> QED
    BY <2>1, <2>2
<1>4. Matrix(v, OneIf(put)) /\ (put => v[1] = m)
  BY DEF Matrix, OneIf
<1> DEFINE w == Moved(s, taken, put, m)
<1>5. w = u \o v
  BY DEF Moved
<1> HIDE DEF u, v, w
<1>6. CatIs(w, u, k, v, OneIf(put))
  <2> HIDE DEF k
  <2> QED
    BY <1>3, <1>4, <1>5, Cat
<1>7. Matrix(w, k + OneIf(put)) /\ \A i \in 1 .. k : w[i] = s[i + OneIf(taken)]
  <2> HIDE DEF k
  <2> QED
    BY <1>3, <1>6 DEF CatIs
<1>8. put => w[k + 1] = m
  <2> HIDE DEF k
  <2>1. put => 1 \in 1 .. OneIf(put)
    BY DEF OneIf
  <2> QED
    BY <1>4, <1>6, <2>1 DEF CatIs
<1> QED
  BY <1>7, <1>8 DEF QueueIs, w

-----------------------------------------------------------------------------
(* The k-th of a set of numbers: where k of them are not above it.         *)
UpTo(E, b) == {c \in E : c <= b}

(* Different members have different ranks.                                 *)
LEMMA RankIs ==
  ASSUME NEW n \in Nat, NEW E, E \subseteq 1 .. n, NEW b \in E
  PROVE  /\ IsFiniteSet(E) /\ Cardinality(UpTo(E, b)) \in 1 .. Cardinality(E)
         /\ \A c \in E : Cardinality(UpTo(E, c)) = Cardinality(UpTo(E, b)) => c = b
<1>1. IsFiniteSet(E)
  <2>1. 1 \in Int /\ n \in Int
    OBVIOUS
  <2> QED
    BY <2>1, FS_Interval, FS_Subset
<1>2. \A c : UpTo(E, c) \in SUBSET E
  BY DEF UpTo
<1>3. \A c : IsFiniteSet(UpTo(E, c)) /\ Cardinality(UpTo(E, c)) \in Nat /\ Cardinality(UpTo(E, c)) <= Cardinality(E)
  BY <1>1, <1>2, FS_Subset, FS_CardinalityType
<1>4. Cardinality(E) \in Nat
  BY <1>1, FS_CardinalityType
<1>5. Cardinality(UpTo(E, b)) # 0
  <2>1. b \in UpTo(E, b)
    BY DEF UpTo
  <2> QED
    BY <1>3, <2>1, FS_EmptySet
<1>6. ASSUME NEW c \in E, NEW d \in E, c < d PROVE Cardinality(UpTo(E, c)) # Cardinality(UpTo(E, d))
  <2>1. UpTo(E, c) \in SUBSET UpTo(E, d)
    <3>1. c \in Nat /\ d \in Nat /\ \A x \in E : x \in Nat
      OBVIOUS
    <3>2. \A x \in E : x <= c => x <= d
      BY <1>6, <3>1
    <3> QED
      BY <3>2 DEF UpTo
  <2>2. d \in UpTo(E, d) /\ d \notin UpTo(E, c)
    BY <1>6 DEF UpTo
  <2> QED
    BY <1>3, <2>1, <2>2, FS_Subset
<1>7. ASSUME NEW c \in E, Cardinality(UpTo(E, c)) = Cardinality(UpTo(E, b)) PROVE c = b
  <2>1. c < b \/ b < c \/ c = b
    OBVIOUS
  <2> QED
    BY <1>6, <1>7, <2>1
<1> QED
  BY <1>1, <1>3, <1>4, <1>5, <1>7
=============================================================================
