---------------------------- MODULE SchedulerProofs ----------------------------
(***************************************************************************)
(* Theorems about Scheduler, for every number of tasks: it implements      *)
(* TaskGraph, step by step, so what module TaskGraphProofs proves of the   *)
(* graph holds of the lists of Task.h too; and the order of the lists and  *)
(* of the queues, which the graph does not have.  The first half is about  *)
(* one call of each method of SchedulerOps, the second about the steps.    *)
(***************************************************************************)
EXTENDS Scheduler, FoldFacts, SequenceTheorems, FiniteSetTheorems

-----------------------------------------------------------------------------
(* Scheduler objects, and what the proofs read off them.                   *)
Bases ==
  [mType : {"Round", "Continuation"}, mUpstream : SUBSET Nat,
   mDownstream : Seq(Nat), mClosures : Seq(Nat)]

Tables == UNION {[L -> Bases] : L \in SUBSET Nat}

Throws ==
  {"no", "mReady", "mNextRound", "currentTask", "popTask", "removeTask", "removeUpstream"}

Scheds ==
  [mTaskIdx : Nat, mTasks : Tables, mReady : Seq(Nat), mNextRound : Seq(Nat), threw : Throws]

Typ(s, x) == s.mTasks[x].mType
Up(s, x) == s.mTasks[x].mUpstream
Downs(s, x) == s.mTasks[x].mDownstream
Closs(s, x) == s.mTasks[x].mClosures
Down(s, x) == ToSet(Downs(s, x))
Cls(s, x) == ToSet(Closs(s, x))

(* mTasks is a function on a set of indices.                               *)
LEMMA TableFacts ==
  ASSUME NEW f
  PROVE  f \in Tables <=> DOMAIN f \subseteq Nat /\ f \in [DOMAIN f -> Bases]
  BY DEF Tables

(* The parts of a Scheduler object.                                        *)
LEMMA SchedFacts ==
  ASSUME NEW s, s \in Scheds
  PROVE  /\ Live(s) \subseteq Nat /\ s.mTasks \in [Live(s) -> Bases]
         /\ s.mTaskIdx \in Nat /\ s.mReady \in Seq(Nat) /\ s.mNextRound \in Seq(Nat) /\ s.threw \in Throws
         /\ \A x \in Live(s) : /\ s.mTasks[x] \in Bases
                               /\ Typ(s, x) \in {"Round", "Continuation"} /\ Up(s, x) \subseteq Nat
                               /\ Downs(s, x) \in Seq(Nat) /\ Closs(s, x) \in Seq(Nat)
                               /\ Down(s, x) \subseteq Nat /\ Cls(s, x) \subseteq Nat
<1>1. s.mTasks \in Tables /\ s.mTaskIdx \in Nat /\ s.mReady \in Seq(Nat) /\ s.mNextRound \in Seq(Nat) /\ s.threw \in Throws
  BY DEF Scheds
<1>2. Live(s) \subseteq Nat /\ s.mTasks \in [Live(s) -> Bases]
  BY <1>1, TableFacts DEF Live
<1>3. \A x \in Live(s) : s.mTasks[x] \in Bases
  BY <1>2
<1>4. ASSUME NEW x \in Live(s)
      PROVE  /\ Typ(s, x) \in {"Round", "Continuation"} /\ Up(s, x) \subseteq Nat
             /\ Downs(s, x) \in Seq(Nat) /\ Closs(s, x) \in Seq(Nat)
  BY <1>3 DEF Bases, Typ, Up, Downs, Closs
<1>5. \A q \in Seq(Nat) : ToSet(q) \subseteq Nat
  BY DEF ToSet
<1> QED
  BY <1>1, <1>2, <1>3, <1>4, <1>5 DEF Down, Cls

(* A scheduler built from its parts.                                       *)
LEMMA SchedIs ==
  ASSUME NEW s, NEW L, NEW f, NEW r, NEW n, NEW w,
         s \in Scheds, L \subseteq Nat, f \in [L -> Bases], r \in Seq(Nat), n \in Seq(Nat), w \in Throws
  PROVE  [mTaskIdx |-> s.mTaskIdx, mTasks |-> f, mReady |-> r, mNextRound |-> n, threw |-> w] \in Scheds
<1>1. f \in Tables
  BY TableFacts
<1> QED
  BY <1>1 DEF Scheds

(* A throw changes threw, and that only once.                              *)
LEMMA ThrowIs ==
  ASSUME NEW s, NEW where, s \in Scheds, where \in Throws
  PROVE  /\ Throw(s, where) \in Scheds /\ Live(Throw(s, where)) = Live(s)
         /\ s.threw = "no" /\ where # "no" => Throw(s, where).threw # "no"
         /\ s.threw # "no" => Throw(s, where) = s
  BY DEF Throw, Scheds, Live

(* Only the upstream of one task changes.                                  *)
UpSet(s, t, x, U) ==
  /\ t \in Scheds /\ t.threw = s.threw /\ t.mTaskIdx = s.mTaskIdx /\ Live(t) = Live(s)
  /\ t.mReady = s.mReady /\ t.mNextRound = s.mNextRound
  /\ \A y \in Live(s) : /\ Typ(t, y) = Typ(s, y) /\ Downs(t, y) = Downs(s, y) /\ Closs(t, y) = Closs(s, y)
                        /\ Up(t, y) = (IF y = x THEN U ELSE Up(s, y))

(* removeUpstream of a dependency that is there.                           *)
LEMMA RemoveUpstreamIs ==
  ASSUME NEW s, NEW x, NEW idx, s \in Scheds, x \in Live(s), idx \in Up(s, x)
  PROVE  UpSet(s, RemoveUpstream(s, x, idx), x, Up(s, x) \ {idx})
<1> DEFINE t == RemoveUpstream(s, x, idx)
           base == [s.mTasks[x] EXCEPT !.mUpstream = @ \ {idx}]
           f == [s.mTasks EXCEPT ![x] = base]
<1>1. t = [s EXCEPT !.mTasks = f]
  BY DEF RemoveUpstream, Up
<1>2. s.mTasks \in [Live(s) -> Bases] /\ Live(s) \subseteq Nat /\ s.mTasks[x] \in Bases
  BY SchedFacts
<1>3. base \in Bases /\ base.mType = s.mTasks[x].mType /\ base.mUpstream = s.mTasks[x].mUpstream \ {idx}
      /\ base.mDownstream = s.mTasks[x].mDownstream /\ base.mClosures = s.mTasks[x].mClosures
  BY <1>2 DEF Bases
<1> HIDE DEF base
<1>4. f \in [Live(s) -> Bases] /\ \A y \in Live(s) : f[y] = IF y = x THEN base ELSE s.mTasks[y]
  BY <1>2, <1>3
<1> HIDE DEF f
<1>5. /\ t \in Scheds /\ t.mTasks = f /\ t.mTaskIdx = s.mTaskIdx /\ t.threw = s.threw
      /\ t.mReady = s.mReady /\ t.mNextRound = s.mNextRound
  BY <1>1, <1>2, <1>4, TableFacts DEF Scheds
<1> HIDE DEF t
<1>6. Live(t) = Live(s)
  BY <1>4, <1>5 DEF Live
<1>7. ASSUME NEW y \in Live(s)
      PROVE  /\ Typ(t, y) = Typ(s, y) /\ Downs(t, y) = Downs(s, y) /\ Closs(t, y) = Closs(s, y)
             /\ Up(t, y) = (IF y = x THEN Up(s, x) \ {idx} ELSE Up(s, y))
  BY <1>3, <1>4, <1>5 DEF Typ, Up, Downs, Closs
<1> QED
  BY <1>5, <1>6, <1>7 DEF UpSet, t

-----------------------------------------------------------------------------
(* Lists without repetition, and lists in increasing order.                *)
NoDup(q) == \A m, n \in DOMAIN q : q[m] = q[n] => m = n
Increasing(q) == \A m, n \in DOMAIN q : m < n => q[m] < q[n]

(* Append, on lists without repetition and on increasing ones.             *)
LEMMA AppendFacts ==
  ASSUME NEW q, NEW x, q \in Seq(Nat), x \in Nat
  PROVE  /\ Append(q, x) \in Seq(Nat) /\ ToSet(Append(q, x)) = ToSet(q) \cup {x}
         /\ NoDup(q) /\ x \notin ToSet(q) => NoDup(Append(q, x))
         /\ Increasing(q) /\ (\A y \in ToSet(q) : y < x) => Increasing(Append(q, x))
<1> DEFINE n == Len(q)
           a == Append(q, x)
<1>1. n \in Nat /\ DOMAIN q = 1 .. n /\ DOMAIN a = 1 .. (n + 1) /\ a \in Seq(Nat)
      /\ a[n + 1] = x /\ \A k \in 1 .. n : a[k] = q[k]
  OBVIOUS
<1> HIDE DEF n, a
<1>2. DOMAIN a = DOMAIN q \cup {n + 1} /\ n + 1 \notin DOMAIN q /\ \A k \in DOMAIN q : k < n + 1
  BY <1>1
<1>3. ToSet(a) = ToSet(q) \cup {x}
  BY <1>1, <1>2 DEF ToSet
<1>4. ASSUME NoDup(q), x \notin ToSet(q) PROVE NoDup(a)
  <2>1. \A k \in DOMAIN q : a[k] # x /\ a[k] = q[k]
    BY <1>1, <1>4 DEF ToSet
  <2>2. \A k, m \in DOMAIN q : q[k] = q[m] => k = m
    BY <1>4 DEF NoDup
  <2> QED
    BY <1>1, <1>2, <2>1, <2>2, Zenon DEF NoDup
<1>5. ASSUME Increasing(q), \A y \in ToSet(q) : y < x PROVE Increasing(a)
  <2>1. \A k \in DOMAIN q : a[k] < x /\ a[k] = q[k]
    BY <1>1, <1>5 DEF ToSet
  <2>2. \A k, m \in DOMAIN q : k < m => q[k] < q[m]
    BY <1>5 DEF Increasing
  <2>3. \A k \in DOMAIN q : ~ (n + 1 < k)
    BY <1>1
  <2>4. ~ (n + 1 < n + 1)
    BY <1>1
  <2>5. ASSUME NEW k \in DOMAIN a, NEW m \in DOMAIN a, k < m PROVE a[k] < a[m]
    <3>1. k \in DOMAIN q
      BY <1>2, <2>3, <2>4, <2>5
    <3>2. CASE m = n + 1
      BY <1>1, <2>1, <3>1, <3>2
    <3>3. CASE m \in DOMAIN q
      BY <1>1, <2>1, <2>2, <2>5, <3>1, <3>3
    <3> QED
      BY <1>2, <3>2, <3>3
  <2> QED
    BY <2>5 DEF Increasing
<1> QED
  BY <1>1, <1>3, <1>4, <1>5 DEF a

(* addDownstream and addClosure never make a list repeat itself.           *)
LEMMA AddOnceFacts ==
  ASSUME NEW q, NEW x, q \in Seq(Nat), x \in Nat
  PROVE  /\ AddOnce(q, x) \in Seq(Nat) /\ ToSet(AddOnce(q, x)) = ToSet(q) \cup {x}
         /\ NoDup(q) => NoDup(AddOnce(q, x))
<1>1. Contains(q, x) <=> x \in ToSet(q)
  BY DEF Contains, ToSet
<1>2. CASE Contains(q, x)
  <2>1. AddOnce(q, x) = q
    BY <1>2 DEF AddOnce
  <2> QED
    BY <1>1, <1>2, <2>1
<1>3. CASE ~ Contains(q, x)
  <2>1. AddOnce(q, x) = Append(q, x)
    BY <1>3 DEF AddOnce
  <2> QED
    BY <1>1, <1>3, <2>1, AppendFacts
<1> QED
  BY <1>2, <1>3

-----------------------------------------------------------------------------
(* Task d has taken over the closures K.                                   *)
TookOver(s, t, d, K) ==
  /\ t \in Scheds /\ t.threw = s.threw /\ t.mTaskIdx = s.mTaskIdx /\ Live(t) = Live(s)
  /\ t.mReady = s.mReady /\ t.mNextRound = s.mNextRound
  /\ \A y \in Live(s) : /\ Typ(t, y) = Typ(s, y) /\ Downs(t, y) = Downs(s, y)
                        /\ y # d => Closs(t, y) = Closs(s, y)
                        /\ Up(t, y) = (IF y \in K THEN Up(s, y) \cup {d} ELSE Up(s, y))
  /\ Cls(t, d) = Cls(s, d) \cup K
  /\ NoDup(Closs(s, d)) => NoDup(Closs(t, d))

(* Handing over one closure keeps the Scheduler object whole.              *)
LEMMA HandOverKeeps ==
  ASSUME NEW s, NEW d, NEW c, s \in Scheds, d \in Live(s), c \in Nat
  PROVE  HandOver(s, d, c) \in Scheds /\ Live(HandOver(s, d, c)) = Live(s)
<1>1. CASE s.threw # "no" \/ c \notin Live(s)
  <2>1. HandOver(s, d, c) = Throw(s, "removeTask")
    BY <1>1 DEF HandOver
  <2>2. "removeTask" \in Throws
    BY DEF Throws
  <2>3. Throw(s, "removeTask") \in Scheds /\ Live(Throw(s, "removeTask")) = Live(s)
    BY <2>2, ThrowIs
  <2> QED
    BY <2>1, <2>3
<1>2. CASE ~ (s.threw # "no" \/ c \notin Live(s))
  <2> DEFINE f1 == [s.mTasks EXCEPT ![d] = [s.mTasks[d] EXCEPT !.mClosures = AddOnce(@, c)]]
             f2 == [f1 EXCEPT ![c] = [f1[c] EXCEPT !.mUpstream = @ \cup {d}]]
  <2>1. HandOver(s, d, c) = [s EXCEPT !.mTasks = f2]
    BY <1>2 DEF HandOver
  <2>2. s.mTasks \in [Live(s) -> Bases] /\ Live(s) \subseteq Nat /\ s.mTasks[d] \in Bases /\ c \in Live(s)
    BY <1>2, SchedFacts
  <2>3. AddOnce(s.mTasks[d].mClosures, c) \in Seq(Nat)
    BY <2>2, AddOnceFacts DEF Bases
  <2>4. [s.mTasks[d] EXCEPT !.mClosures = AddOnce(@, c)] \in Bases
    BY <2>2, <2>3 DEF Bases
  <2>5. f1 \in [Live(s) -> Bases]
    BY <2>2, <2>4
  <2> HIDE DEF f1
  <2>6. f1[c] \in Bases /\ d \in Nat
    BY <2>2, <2>5
  <2>7. [f1[c] EXCEPT !.mUpstream = @ \cup {d}] \in Bases
    BY <2>6 DEF Bases
  <2>8. f2 \in [Live(s) -> Bases]
    BY <2>2, <2>5, <2>7
  <2> HIDE DEF f2
  <2>9. HandOver(s, d, c) \in Scheds /\ HandOver(s, d, c).mTasks = f2
    BY <2>1, <2>2, <2>8, TableFacts DEF Scheds
  <2> QED
    BY <2>8, <2>9 DEF Live
<1> QED
  BY <1>1, <1>2

(* Handing over a closure that has an entry.                               *)
LEMMA HandOverIs ==
  ASSUME NEW s, NEW r, NEW d, NEW K, NEW c,
         TookOver(s, r, d, K), s \in Scheds, s.threw = "no", d \in Live(s), c \in Live(s), c # d
  PROVE  TookOver(s, HandOver(r, d, c), d, K \cup {c})
<1> DEFINE t == HandOver(r, d, c)
           b1 == [r.mTasks[d] EXCEPT !.mClosures = AddOnce(@, c)]
           f1 == [r.mTasks EXCEPT ![d] = b1]
           b2 == [f1[c] EXCEPT !.mUpstream = @ \cup {d}]
           f2 == [f1 EXCEPT ![c] = b2]
<1>1. /\ r \in Scheds /\ r.threw = "no" /\ r.mTaskIdx = s.mTaskIdx /\ Live(r) = Live(s)
      /\ r.mReady = s.mReady /\ r.mNextRound = s.mNextRound
  BY DEF TookOver
<1>2. t = [r EXCEPT !.mTasks = f2]
  BY <1>1 DEF HandOver
<1>3. /\ r.mTasks \in [Live(s) -> Bases] /\ Live(s) \subseteq Nat /\ r.mTasks[d] \in Bases /\ r.mTasks[c] \in Bases
      /\ c \in Nat /\ d \in Nat /\ Closs(r, d) \in Seq(Nat)
  BY <1>1, SchedFacts
<1>4. /\ AddOnce(Closs(r, d), c) \in Seq(Nat) /\ ToSet(AddOnce(Closs(r, d), c)) = Cls(r, d) \cup {c}
      /\ NoDup(Closs(r, d)) => NoDup(AddOnce(Closs(r, d), c))
  BY <1>3, AddOnceFacts DEF Cls
<1>5. b1 \in Bases /\ b1.mType = Typ(r, d) /\ b1.mUpstream = Up(r, d) /\ b1.mDownstream = Downs(r, d)
      /\ b1.mClosures = AddOnce(Closs(r, d), c)
  BY <1>3, <1>4 DEF Bases, Typ, Up, Downs, Closs
<1> HIDE DEF b1
<1>6. f1 \in [Live(s) -> Bases] /\ \A y \in Live(s) : f1[y] = IF y = d THEN b1 ELSE r.mTasks[y]
  BY <1>3, <1>5
<1>7. f1[c] = r.mTasks[c]
  BY <1>6
<1> HIDE DEF f1
<1>8. b2 \in Bases /\ b2.mType = Typ(r, c) /\ b2.mUpstream = Up(r, c) \cup {d} /\ b2.mDownstream = Downs(r, c)
      /\ b2.mClosures = Closs(r, c)
  BY <1>3, <1>7 DEF Bases, Typ, Up, Downs, Closs
<1> HIDE DEF b2
<1>9. f2 \in [Live(s) -> Bases]
      /\ \A y \in Live(s) : f2[y] = IF y = c THEN b2 ELSE IF y = d THEN b1 ELSE r.mTasks[y]
  BY <1>6, <1>8
<1> HIDE DEF f2
<1>10. /\ t \in Scheds /\ t.mTasks = f2 /\ t.mTaskIdx = r.mTaskIdx /\ t.threw = r.threw
       /\ t.mReady = r.mReady /\ t.mNextRound = r.mNextRound
  BY <1>1, <1>2, <1>3, <1>9, TableFacts DEF Scheds
<1> HIDE DEF t
<1>11. Live(t) = Live(s)
  BY <1>9, <1>10 DEF Live
<1>12. ASSUME NEW y \in Live(s)
       PROVE  /\ Typ(t, y) = Typ(r, y) /\ Downs(t, y) = Downs(r, y)
              /\ y # d => Closs(t, y) = Closs(r, y)
              /\ y = d => Closs(t, y) = AddOnce(Closs(r, d), c)
              /\ Up(t, y) = (IF y = c THEN Up(r, y) \cup {d} ELSE Up(r, y))
  BY <1>5, <1>8, <1>9, <1>10 DEF Typ, Up, Downs, Closs
<1>13. ASSUME NEW y \in Live(s)
       PROVE  /\ Typ(t, y) = Typ(s, y) /\ Downs(t, y) = Downs(s, y)
              /\ y # d => Closs(t, y) = Closs(s, y)
              /\ Up(t, y) = (IF y \in K \cup {c} THEN Up(s, y) \cup {d} ELSE Up(s, y))
  <2>1. /\ Typ(r, y) = Typ(s, y) /\ Downs(r, y) = Downs(s, y) /\ (y # d => Closs(r, y) = Closs(s, y))
        /\ Up(r, y) = (IF y \in K THEN Up(s, y) \cup {d} ELSE Up(s, y))
    BY DEF TookOver
  <2>2. Up(t, y) = (IF y = c THEN Up(r, y) \cup {d} ELSE Up(r, y))
    BY <1>12
  <2>3. Up(t, y) = (IF y \in K \cup {c} THEN Up(s, y) \cup {d} ELSE Up(s, y))
    <3>1. CASE y \in K /\ y = c
      BY <2>1, <2>2, <3>1
    <3>2. CASE y \in K /\ y # c
      BY <2>1, <2>2, <3>2
    <3>3. CASE y \notin K /\ y = c
      BY <2>1, <2>2, <3>3
    <3>4. CASE y \notin K /\ y # c
      BY <2>1, <2>2, <3>4
    <3> QED
      BY <3>1, <3>2, <3>3, <3>4
  <2>4. Typ(t, y) = Typ(r, y) /\ Downs(t, y) = Downs(r, y) /\ (y # d => Closs(t, y) = Closs(r, y))
    BY <1>12
  <2>5. Typ(r, y) = Typ(s, y) /\ Downs(r, y) = Downs(s, y) /\ (y # d => Closs(r, y) = Closs(s, y))
    BY <2>1
  <2> QED
    BY <2>3, <2>4, <2>5, Zenon
<1>14. Cls(t, d) = Cls(s, d) \cup (K \cup {c}) /\ (NoDup(Closs(s, d)) => NoDup(Closs(t, d)))
  <2>1. Cls(r, d) = Cls(s, d) \cup K /\ (NoDup(Closs(s, d)) => NoDup(Closs(r, d)))
    BY DEF TookOver
  <2>2. Cls(t, d) = Cls(r, d) \cup {c} /\ (NoDup(Closs(r, d)) => NoDup(Closs(t, d)))
    BY <1>4, <1>12 DEF Cls
  <2> QED
    BY <2>1, <2>2
<1> QED
  BY <1>1, <1>10, <1>11, <1>13, <1>14 DEF TookOver, t

HandAll(s, d, cs) == FoldLeft(LAMBDA r, c : HandOver(r, d, c), s, cs)

HandTrace(T, s, d, cs) ==
  /\ T[0] = s
  /\ \A k \in 1 .. Len(cs) : T[k] = HandOver(T[k - 1], d, cs[k])
  /\ HandAll(s, d, cs) = T[Len(cs)] /\ HandAll(s, d, cs) \in Scheds
  /\ Live(HandAll(s, d, cs)) = Live(s)

(* The loop over the closures, seen closure by closure.                    *)
LEMMA HandTraced ==
  ASSUME NEW s, NEW d, NEW cs, s \in Scheds, d \in Live(s), cs \in Seq(Nat)
  PROVE  \E T : HandTrace(T, s, d, cs)
<1> DEFINE n == Len(cs)
           D == {r \in Scheds : Live(r) = Live(s)}
           St == [x \in D \X (1 .. n) |-> HandOver(x[1], d, cs[x[2]])]
<1>1. n \in Nat /\ DOMAIN cs = 1 .. n /\ \A k \in 1 .. n : cs[k] \in Nat
  BY LenProperties
<1> HIDE DEF n
<1>2. \A r \in D : \A k \in 1 .. n : HandOver(r, d, cs[k]) \in D
  BY <1>1, HandOverKeeps
<1>4. s \in D
  OBVIOUS
<1> HIDE DEF D
<1>3. St \in [D \X (1 .. n) -> D]
  BY <1>2
<1>5. PICK F \in [SUBSET (1 .. n) -> D] : Folds(F, n, s, St)
  <2> HIDE DEF St
  <2> QED
    BY <1>1, <1>3, <1>4, FoldExists
<1> DEFINE Is(E) == E = [k \in SUBSET (1 .. n) |-> IF k = {} THEN s ELSE HandOver(E[k \ {Max(k)}], d, cs[Max(k)])]
           iter == CHOOSE E : Is(E)
<1>6. ASSUME NEW E, NEW k \in SUBSET (1 .. n), k # {}, E[k \ {Max(k)}] \in D
      PROVE  St[<<E[k \ {Max(k)}], Max(k)>>] = HandOver(E[k \ {Max(k)}], d, cs[Max(k)])
  <2>1. Max(k) \in 1 .. n
    BY <1>1, <1>6, MaxOfSubset
  <2> HIDE DEF Max
  <2> QED
    BY <1>6, <2>1
<1>7. Is(F)
  <2>1. \A k \in SUBSET (1 .. n) : k # {} => F[k \ {Max(k)}] \in D
    BY <1>5
  <2> HIDE DEF St
  <2>2. \A k \in SUBSET (1 .. n) : k # {} => St[<<F[k \ {Max(k)}], Max(k)>>] = HandOver(F[k \ {Max(k)}], d, cs[Max(k)])
    BY <1>6, <2>1
  <2> QED
    BY <1>5, <2>2 DEF Folds
<1>8. Is(iter) /\ HandAll(s, d, cs) = iter[1 .. n]
  <2>1. Is(iter)
    <3> HIDE DEF Is
    <3> QED
      BY <1>7
  <2>2. HandAll(s, d, cs) = iter[DOMAIN cs]
    BY <1>1, Zenon DEF HandAll, FoldLeft, MapThenFoldSet
  <2> HIDE DEF iter
  <2> QED
    BY <1>1, <2>1, <2>2
<1> HIDE DEF iter
<1> DEFINE T == OnPrefixes(iter, n)
<1>9. Traces(T, n, D, s, St) /\ T[n] = iter[1 .. n]
  <2>1. iter[{}] = s
    BY <1>8
  <2>2. \A k \in SUBSET (1 .. n) :
          k # {} /\ iter[k \ {Max(k)}] \in D => iter[k] = St[<<iter[k \ {Max(k)}], Max(k)>>]
    <3> HIDE DEF St, Max
    <3> QED
      BY <1>6, <1>8
  <2> HIDE DEF St, Is
  <2>3. Unfolds(iter, n, D, s, St)
    BY <1>1, <1>3, <1>4, <2>1, <2>2 DEF Unfolds
  <2> QED
    BY <2>3, FoldTrace
<1> HIDE DEF T, Is
<1>10. \A k \in 1 .. n : T[k] = HandOver(T[k - 1], d, cs[k])
  <2> SUFFICES ASSUME NEW k \in 1 .. n PROVE T[k] = HandOver(T[k - 1], d, cs[k])
    OBVIOUS
  <2>1. k - 1 \in 0 .. n
    BY <1>1
  <2>2. T[k - 1] \in D
    BY <1>9, <2>1 DEF Traces
  <2>3. T[k] = St[<<T[k - 1], k>>]
    BY <1>9 DEF Traces
  <2> QED
    BY <2>2, <2>3
<1>11. HandTrace(T, s, d, cs)
  <2>1. T[n] \in D
    BY <1>1, <1>9 DEF Traces
  <2>2. T[n] \in Scheds /\ Live(T[n]) = Live(s)
    BY <2>1 DEF D
  <2> QED
    BY <1>8, <1>9, <1>10, <2>2 DEF HandTrace, Traces, n
<1> QED
  BY <1>11

(* The inner loop of removeTask's first loop.                              *)
LEMMA HandAllIs ==
  ASSUME NEW s, NEW d, NEW cs, s \in Scheds, s.threw = "no", d \in Live(s), cs \in Seq(Nat),
         ToSet(cs) \subseteq Live(s), d \notin ToSet(cs)
  PROVE  TookOver(s, HandAll(s, d, cs), d, ToSet(cs))
<1> DEFINE n == Len(cs)
           Got(k) == {c \in ToSet(cs) : \E j \in 1 .. k : c = cs[j]}
<1>1. n \in Nat /\ DOMAIN cs = 1 .. n /\ (\A k \in 1 .. n : cs[k] \in ToSet(cs))
      /\ (\A c \in ToSet(cs) : \E k \in 1 .. n : c = cs[k])
  BY LenProperties DEF ToSet
<1>2. PICK T : HandTrace(T, s, d, cs)
  BY HandTraced
<1> DEFINE P == {k \in Nat : k <= n => TookOver(s, T[k], d, Got(k))}
<1>3. 0 \in P
  <2>1. Got(0) = {}
    OBVIOUS
  <2>2. T[0] = s
    BY <1>2 DEF HandTrace
  <2>3. TookOver(s, s, d, {})
    BY DEF TookOver
  <2> QED
    BY <2>1, <2>2, <2>3
<1>4. ASSUME NEW k \in Nat, k \in P PROVE k + 1 \in P
  <2> SUFFICES ASSUME k + 1 <= n PROVE TookOver(s, T[k + 1], d, Got(k + 1))
    OBVIOUS
  <2> DEFINE c == cs[k + 1]
  <2>1. k + 1 \in 1 .. n /\ k <= n /\ k + 1 - 1 = k
    BY <1>1
  <2>2. TookOver(s, T[k], d, Got(k))
    BY <1>4, <2>1
  <2>3. c \in ToSet(cs) /\ c \in Live(s) /\ c # d
    BY <1>1, <2>1
  <2>4. T[k + 1] = HandOver(T[k], d, c)
    BY <1>2, <2>1 DEF HandTrace
  <2>5. Got(k + 1) = Got(k) \cup {c}
    BY <1>1, <2>1, <2>3
  <2> HIDE DEF Got, c
  <2>6. TookOver(s, HandOver(T[k], d, c), d, Got(k) \cup {c})
    BY <2>2, <2>3, HandOverIs
  <2> QED
    BY <2>4, <2>5, <2>6
<1>5. TookOver(s, T[n], d, Got(n))
  <2>1. \A k \in Nat : k \in P
    <3> HIDE DEF P
    <3> QED
      BY <1>3, <1>4, NatInduct
  <2>2. n \in P
    <3> HIDE DEF P
    <3> QED
      BY <1>1, <2>1
  <2>3. n <= n
    BY <1>1
  <2> QED
    BY <2>2, <2>3
<1>6. Got(n) = ToSet(cs)
  BY <1>1
<1>7. HandAll(s, d, cs) = T[n]
  BY <1>2 DEF HandTrace
<1> QED
  BY <1>5, <1>6, <1>7

-----------------------------------------------------------------------------
(* Queue p is queue q with the tasks X put behind it; tasks of the same    *)
(* birth stay in order.                                                    *)
InOrder(q, birth) == \A m, n \in DOMAIN q : m < n /\ birth[q[m]] = birth[q[n]] => q[m] < q[n]

Grown(q, p, X, birth) ==
  /\ p \in Seq(Nat) /\ ToSet(p) = ToSet(q) \cup X
  /\ NoDup(q) => NoDup(p)
  /\ InOrder(q, birth) => InOrder(p, birth)
  /\ q # <<>> => p # <<>> /\ Head(p) = Head(q)

(* A newcomer that is younger than its siblings goes to the end.           *)
LEMMA InOrderAppend ==
  ASSUME NEW q, NEW x, NEW birth, q \in Seq(Nat), x \in Nat, InOrder(q, birth),
         \A y \in ToSet(q) : birth[y] = birth[x] => y < x
  PROVE  InOrder(Append(q, x), birth)
<1> DEFINE n == Len(q)
           a == Append(q, x)
<1>1. n \in Nat /\ DOMAIN q = 1 .. n /\ DOMAIN a = 1 .. (n + 1) /\ a \in Seq(Nat)
      /\ a[n + 1] = x /\ \A k \in 1 .. n : a[k] = q[k]
  OBVIOUS
<1> HIDE DEF n, a
<1>2. DOMAIN a = DOMAIN q \cup {n + 1} /\ n + 1 \notin DOMAIN q /\ \A k \in DOMAIN q : ~ (n + 1 < k)
  BY <1>1
<1>3. \A k \in DOMAIN q : a[k] = q[k] /\ (birth[q[k]] = birth[x] => q[k] < x)
  BY <1>1 DEF ToSet
<1>4. \A k, m \in DOMAIN q : k < m /\ birth[q[k]] = birth[q[m]] => q[k] < q[m]
  BY DEF InOrder
<1>5. ~ (n + 1 < n + 1)
  BY <1>1
<1>6. ASSUME NEW k \in DOMAIN a, NEW m \in DOMAIN a, k < m, birth[a[k]] = birth[a[m]] PROVE a[k] < a[m]
  <2>1. k \in DOMAIN q
    BY <1>2, <1>5, <1>6
  <2>2. CASE m = n + 1
    BY <1>1, <1>3, <1>6, <2>1, <2>2
  <2>3. CASE m \in DOMAIN q
    BY <1>3, <1>4, <1>6, <2>1, <2>3
  <2> QED
    BY <1>2, <2>2, <2>3
<1> QED
  BY <1>6 DEF InOrder, a

(* Append does not touch the head of a list.                               *)
LEMMA HeadOfAppend ==
  ASSUME NEW q, NEW x, q \in Seq(Nat)
  PROVE  Append(q, x) # <<>> /\ (q # <<>> => Head(Append(q, x)) = Head(q))
<1>1. Append(q, x) # <<>>
  <2>1. Len(Append(q, x)) = Len(q) + 1 /\ Len(q) \in Nat
    OBVIOUS
  <2>2. Len(<<>>) = 0
    OBVIOUS
  <2>3. Len(Append(q, x)) # 0
    BY <2>1
  <2> QED
    BY <2>2, <2>3
<1>2. q # <<>> => Append(q, x)[1] = q[1] /\ Head(q) = q[1] /\ Head(Append(q, x)) = Append(q, x)[1]
  BY <1>1
<1> QED
  BY <1>1, <1>2

(* One more task behind a queue.                                           *)
LEMMA GrowsBy ==
  ASSUME NEW q, NEW p, NEW X, NEW birth, NEW d, Grown(q, p, X, birth),
         d \notin ToSet(q), d \notin X, \A e \in X : e < d, \A e \in ToSet(q) : birth[e] # birth[d], d \in Nat
  PROVE  Grown(q, Append(p, d), X \cup {d}, birth)
<1>1. p \in Seq(Nat) /\ ToSet(p) = ToSet(q) \cup X /\ (q # <<>> => p # <<>> /\ Head(p) = Head(q))
  BY DEF Grown
<1>2. Append(p, d) \in Seq(Nat) /\ ToSet(Append(p, d)) = ToSet(q) \cup (X \cup {d})
  BY <1>1, AppendFacts
<1>3. ASSUME NoDup(q) PROVE NoDup(Append(p, d))
  <2>1. NoDup(p) /\ d \notin ToSet(p)
    BY <1>1, <1>3 DEF Grown
  <2> QED
    BY <1>1, <2>1, AppendFacts
<1>4. ASSUME InOrder(q, birth) PROVE InOrder(Append(p, d), birth)
  <2>1. InOrder(p, birth)
    BY <1>4 DEF Grown
  <2>2. \A y \in ToSet(p) : birth[y] = birth[d] => y < d
    BY <1>1
  <2> QED
    BY <1>1, <2>1, <2>2, InOrderAppend
<1>5. Append(p, d) # <<>> /\ (p # <<>> => Head(Append(p, d)) = Head(p))
  BY <1>1, HeadOfAppend
<1> QED
  BY <1>1, <1>2, <1>3, <1>4, <1>5 DEF Grown

-----------------------------------------------------------------------------
(* What is queued when task d has stopped waiting for a removed task.      *)
QueueIfFreed(u, d) ==
  IF Freed(u, d) THEN Enqueue(u, QueueFor(u.mTasks[d].mType), d) ELSE u

Queued(u, t, d) ==
  /\ t \in Scheds /\ t.threw = u.threw /\ t.mTaskIdx = u.mTaskIdx /\ t.mTasks = u.mTasks
  /\ t.mReady = (IF Up(u, d) = {} /\ Typ(u, d) # "Round" THEN Append(u.mReady, d) ELSE u.mReady)
  /\ t.mNextRound = (IF Up(u, d) = {} /\ Typ(u, d) = "Round" THEN Append(u.mNextRound, d) ELSE u.mNextRound)

(* A task that waits for nothing is queued, by its type, any other is not. *)
LEMMA QueuedIs ==
  ASSUME NEW u, NEW d, u \in Scheds, u.threw = "no", d \in Live(u)
  PROVE  Queued(u, QueueIfFreed(u, d), d)
<1> DEFINE t == QueueIfFreed(u, d)
<1>1. d \in Nat /\ u.mReady \in Seq(Nat) /\ u.mNextRound \in Seq(Nat)
  BY SchedFacts
<1>2. Append(u.mReady, d) \in Seq(Nat) /\ Append(u.mNextRound, d) \in Seq(Nat)
  BY <1>1, AppendFacts
<1>3. CASE Up(u, d) # {}
  <2>1. t = u
    BY <1>3 DEF QueueIfFreed, Freed, Up
  <2> QED
    BY <1>3, <2>1 DEF Queued
<1>4. CASE Up(u, d) = {} /\ Typ(u, d) = "Round"
  <2>1. t = [u EXCEPT !["mNextRound"] = Append(@, d)]
    BY <1>4 DEF QueueIfFreed, Freed, Enqueue, QueueFor, Up, Typ
  <2>2. /\ t \in Scheds /\ t.threw = u.threw /\ t.mTaskIdx = u.mTaskIdx /\ t.mTasks = u.mTasks
        /\ t.mReady = u.mReady /\ t.mNextRound = Append(u.mNextRound, d)
    BY <1>2, <2>1 DEF Scheds
  <2> QED
    BY <1>4, <2>2 DEF Queued
<1>5. CASE Up(u, d) = {} /\ Typ(u, d) # "Round"
  <2>1. t = [u EXCEPT !["mReady"] = Append(@, d)]
    BY <1>5 DEF QueueIfFreed, Freed, Enqueue, QueueFor, Up, Typ
  <2>2. /\ t \in Scheds /\ t.threw = u.threw /\ t.mTaskIdx = u.mTaskIdx /\ t.mTasks = u.mTasks
        /\ t.mNextRound = u.mNextRound /\ t.mReady = Append(u.mReady, d)
    BY <1>2, <2>1 DEF Scheds
  <2> QED
    BY <1>5, <2>2 DEF Queued
<1> QED
  BY <1>3, <1>4, <1>5

-----------------------------------------------------------------------------
(* What removeTask's first loop needs of the state it starts in.           *)
CanRelease(s, idx, birth) ==
  /\ s \in Scheds /\ s.threw = "no" /\ idx \in Live(s)
  /\ \A d \in Down(s, idx) : /\ d \in Live(s) /\ idx \in Up(s, d) /\ d \notin Cls(s, idx)
                             /\ d \notin ToSet(s.mReady) /\ d \notin ToSet(s.mNextRound)
  /\ Cls(s, idx) \subseteq Live(s) /\ idx \notin Down(s, idx)
  /\ Increasing(Downs(s, idx))
  /\ \A d \in Down(s, idx) : Up(s, d) = {idx} =>
       \A e \in ToSet(s.mReady) \cup ToSet(s.mNextRound) : birth[e] # birth[d]

FreedNow(s, idx, K) == {d \in K : Up(s, d) = {idx} /\ Typ(s, d) # "Round"}
FreedNext(s, idx, K) == {d \in K : Up(s, d) = {idx} /\ Typ(s, d) = "Round"}

(* It has been through the downstream tasks K.                             *)
Links(s, t, idx, K) ==
  \A y \in Live(s) :
    /\ Typ(t, y) = Typ(s, y) /\ Downs(t, y) = Downs(s, y)
    /\ y \notin K => Closs(t, y) = Closs(s, y)
    /\ y \in K => Cls(t, y) = Cls(s, y) \cup Cls(s, idx)
    /\ NoDup(Closs(s, y)) => NoDup(Closs(t, y))
    /\ y \in K => Up(t, y) = Up(s, y) \ {idx}
    /\ y \notin K /\ y \notin Cls(s, idx) => Up(t, y) = Up(s, y)
    /\ y \in Cls(s, idx) => Up(t, y) = Up(s, y) \cup K

Released(s, t, idx, K, birth) ==
  /\ t \in Scheds /\ t.threw = "no" /\ t.mTaskIdx = s.mTaskIdx /\ Live(t) = Live(s)
  /\ Links(s, t, idx, K)
  /\ Grown(s.mReady, t.mReady, FreedNow(s, idx, K), birth)
  /\ Grown(s.mNextRound, t.mNextRound, FreedNext(s, idx, K), birth)

(* The state before the closures are handed over.                          *)
Between(r, v, idx, d) ==
  /\ v \in Scheds /\ v.threw = "no" /\ v.mTaskIdx = r.mTaskIdx /\ Live(v) = Live(r)
  /\ \A y \in Live(r) : /\ Typ(v, y) = Typ(r, y) /\ Downs(v, y) = Downs(r, y) /\ Closs(v, y) = Closs(r, y)
                        /\ Up(v, y) = (IF y = d THEN Up(r, d) \ {idx} ELSE Up(r, y))
  /\ v.mReady = (IF Up(r, d) \ {idx} = {} /\ Typ(r, d) # "Round" THEN Append(r.mReady, d) ELSE r.mReady)
  /\ v.mNextRound = (IF Up(r, d) \ {idx} = {} /\ Typ(r, d) = "Round" THEN Append(r.mNextRound, d) ELSE r.mNextRound)

(* In the middle of the loop over downstream tasks.                        *)
LEMMA BetweenIs ==
  ASSUME NEW r, NEW idx, NEW d, r \in Scheds, r.threw = "no", d \in Live(r), idx \in Up(r, d)
  PROVE  Between(r, QueueIfFreed(RemoveUpstream(r, d, idx), d), idx, d)
<1> DEFINE u == RemoveUpstream(r, d, idx)
           v == QueueIfFreed(u, d)
<1>1. UpSet(r, u, d, Up(r, d) \ {idx})
  BY RemoveUpstreamIs
<1> HIDE DEF u
<1>2. /\ u \in Scheds /\ u.threw = "no" /\ u.mTaskIdx = r.mTaskIdx /\ Live(u) = Live(r) /\ d \in Live(u)
      /\ u.mReady = r.mReady /\ u.mNextRound = r.mNextRound
      /\ \A y \in Live(r) : /\ Typ(u, y) = Typ(r, y) /\ Downs(u, y) = Downs(r, y) /\ Closs(u, y) = Closs(r, y)
                            /\ Up(u, y) = (IF y = d THEN Up(r, d) \ {idx} ELSE Up(r, y))
  BY <1>1 DEF UpSet
<1>3. Queued(u, v, d)
  BY <1>2, QueuedIs
<1> HIDE DEF v
<1>4. /\ v \in Scheds /\ v.threw = "no" /\ v.mTaskIdx = r.mTaskIdx /\ v.mTasks = u.mTasks
      /\ v.mReady = (IF Up(u, d) = {} /\ Typ(u, d) # "Round" THEN Append(u.mReady, d) ELSE u.mReady)
      /\ v.mNextRound = (IF Up(u, d) = {} /\ Typ(u, d) = "Round" THEN Append(u.mNextRound, d) ELSE u.mNextRound)
  BY <1>2, <1>3 DEF Queued
<1>5. Live(v) = Live(r) /\ \A y : /\ Typ(v, y) = Typ(u, y) /\ Downs(v, y) = Downs(u, y)
                                  /\ Closs(v, y) = Closs(u, y) /\ Up(v, y) = Up(u, y)
  BY <1>2, <1>4 DEF Live, Typ, Downs, Closs, Up
<1>6. Up(u, d) = Up(r, d) \ {idx} /\ Typ(u, d) = Typ(r, d)
  BY <1>2
<1> QED
  BY <1>2, <1>4, <1>5, <1>6 DEF Between, v, u

(* One round of removeTask's first loop.                                   *)
LEMMA ReleaseDownstreamIs ==
  ASSUME NEW s, NEW r, NEW idx, NEW K, NEW d, NEW birth,
         CanRelease(s, idx, birth), Released(s, r, idx, K, birth),
         d \in Down(s, idx), d \notin K, K \subseteq Down(s, idx), \A e \in K : e < d
  PROVE  Released(s, ReleaseDownstream(r, idx, d), idx, K \cup {d}, birth)
<1> DEFINE v == QueueIfFreed(RemoveUpstream(r, d, idx), d)
           t == ReleaseDownstream(r, idx, d)
           cs == Closs(s, idx)
           C == Cls(s, idx)
<1>1. /\ s \in Scheds /\ s.threw = "no" /\ idx \in Live(s)
      /\ d \in Live(s) /\ idx \in Up(s, d) /\ d \notin C
      /\ d \notin ToSet(s.mReady) /\ d \notin ToSet(s.mNextRound)
      /\ C \subseteq Live(s) /\ idx \notin Down(s, idx) /\ idx \notin K
      /\ \A e \in K : e \in Live(s) /\ e \notin C
  BY DEF CanRelease
<1>2. /\ r \in Scheds /\ r.threw = "no" /\ r.mTaskIdx = s.mTaskIdx /\ Live(r) = Live(s)
      /\ Links(s, r, idx, K)
      /\ Grown(s.mReady, r.mReady, FreedNow(s, idx, K), birth)
      /\ Grown(s.mNextRound, r.mNextRound, FreedNext(s, idx, K), birth)
  BY DEF Released
<1>3. Closs(r, idx) = cs /\ Up(r, d) = Up(s, d) /\ Typ(r, d) = Typ(s, d) /\ Closs(r, d) = Closs(s, d)
  BY <1>1, <1>2 DEF Links
<1>4. Between(r, v, idx, d)
  BY <1>1, <1>2, <1>3, BetweenIs
<1>5. t = HandAll(v, d, cs)
  <2>1. t = HandAll(v, d, r.mTasks[idx].mClosures)
    BY <1>1, <1>2 DEF ReleaseDownstream, HandAll, QueueIfFreed
  <2> QED
    BY <1>3, <2>1 DEF Closs
<1> HIDE DEF v, t
<1>6. /\ v \in Scheds /\ v.threw = "no" /\ v.mTaskIdx = s.mTaskIdx /\ Live(v) = Live(s)
      /\ \A y \in Live(s) : /\ Typ(v, y) = Typ(r, y) /\ Downs(v, y) = Downs(r, y) /\ Closs(v, y) = Closs(r, y)
                            /\ Up(v, y) = (IF y = d THEN Up(r, d) \ {idx} ELSE Up(r, y))
  BY <1>2, <1>4 DEF Between
<1>7. cs \in Seq(Nat) /\ ToSet(cs) = C /\ d \in Nat
  BY <1>1, SchedFacts DEF Cls
<1>8. TookOver(v, t, d, C)
  <2>1. TookOver(v, HandAll(v, d, cs), d, ToSet(cs))
    BY <1>1, <1>6, <1>7, HandAllIs
  <2> QED
    BY <1>5, <1>7, <2>1
<1>9. /\ t \in Scheds /\ t.threw = "no" /\ t.mTaskIdx = s.mTaskIdx /\ Live(t) = Live(s)
      /\ t.mReady = v.mReady /\ t.mNextRound = v.mNextRound
      /\ \A y \in Live(s) : /\ Typ(t, y) = Typ(v, y) /\ Downs(t, y) = Downs(v, y)
                            /\ (y # d => Closs(t, y) = Closs(v, y))
                            /\ Up(t, y) = (IF y \in C THEN Up(v, y) \cup {d} ELSE Up(v, y))
      /\ Cls(t, d) = Cls(v, d) \cup C
      /\ (NoDup(Closs(v, d)) => NoDup(Closs(t, d)))
  BY <1>6, <1>8 DEF TookOver
<1>10. Cls(v, d) = Cls(s, d) /\ Closs(v, d) = Closs(s, d)
  BY <1>1, <1>3, <1>6 DEF Cls
<1>11. Links(s, t, idx, K \cup {d})
  <2> SUFFICES ASSUME NEW y \in Live(s)
      PROVE  /\ Typ(t, y) = Typ(s, y) /\ Downs(t, y) = Downs(s, y)
             /\ y \notin K \cup {d} => Closs(t, y) = Closs(s, y)
             /\ y \in K \cup {d} => Cls(t, y) = Cls(s, y) \cup C
             /\ NoDup(Closs(s, y)) => NoDup(Closs(t, y))
             /\ y \in K \cup {d} => Up(t, y) = Up(s, y) \ {idx}
             /\ y \notin K \cup {d} /\ y \notin C => Up(t, y) = Up(s, y)
             /\ y \in C => Up(t, y) = Up(s, y) \cup (K \cup {d})
    BY DEF Links
  <2>1. /\ Typ(r, y) = Typ(s, y) /\ Downs(r, y) = Downs(s, y)
        /\ y \notin K => Closs(r, y) = Closs(s, y)
        /\ y \in K => Cls(r, y) = Cls(s, y) \cup C
        /\ NoDup(Closs(s, y)) => NoDup(Closs(r, y))
        /\ y \in K => Up(r, y) = Up(s, y) \ {idx}
        /\ y \notin K /\ y \notin C => Up(r, y) = Up(s, y)
        /\ y \in C => Up(r, y) = Up(s, y) \cup K
    BY <1>2 DEF Links
  <2>2. /\ Typ(t, y) = Typ(r, y) /\ Downs(t, y) = Downs(r, y)
        /\ y # d => Closs(t, y) = Closs(r, y)
        /\ Up(v, y) = (IF y = d THEN Up(r, d) \ {idx} ELSE Up(r, y))
        /\ Up(t, y) = (IF y \in C THEN Up(v, y) \cup {d} ELSE Up(v, y))
    BY <1>6, <1>9
  <2>3. CASE y = d
    <3>1. Up(t, y) = Up(s, y) \ {idx}
      BY <1>1, <1>3, <2>2, <2>3
    <3>2. Cls(t, y) = Cls(s, y) \cup C /\ (NoDup(Closs(s, y)) => NoDup(Closs(t, y)))
      BY <1>9, <1>10, <2>3
    <3> QED
      BY <1>1, <2>1, <2>2, <2>3, <3>1, <3>2
  <2>4. CASE y # d /\ y \in K
    <3>1. Up(t, y) = Up(s, y) \ {idx}
      BY <1>1, <2>1, <2>2, <2>4
    <3>2. Cls(t, y) = Cls(s, y) \cup C /\ (NoDup(Closs(s, y)) => NoDup(Closs(t, y)))
      BY <2>1, <2>2, <2>4 DEF Cls
    <3> QED
      BY <1>1, <2>1, <2>2, <2>4, <3>1, <3>2
  <2>5. CASE y # d /\ y \notin K
    <3>1. Closs(t, y) = Closs(s, y)
      BY <2>1, <2>2, <2>5
    <3>2. y \notin C => Up(t, y) = Up(s, y)
      BY <2>1, <2>2, <2>5
    <3>3. y \in C => Up(t, y) = Up(s, y) \cup (K \cup {d})
      BY <2>1, <2>2, <2>5
    <3> QED
      BY <2>1, <2>2, <2>5, <3>1, <3>2, <3>3
  <2> QED
    BY <2>3, <2>4, <2>5
<1>12. Up(s, d) \ {idx} = {} <=> Up(s, d) = {idx}
  BY <1>1
<1>13. Up(s, d) = {idx} => (\A e \in ToSet(s.mReady) \cup ToSet(s.mNextRound) : birth[e] # birth[d])
  BY DEF CanRelease
<1>14. Grown(s.mReady, t.mReady, FreedNow(s, idx, K \cup {d}), birth)
  <2>1. CASE Up(s, d) = {idx} /\ Typ(s, d) # "Round"
    <3>1. t.mReady = Append(r.mReady, d)
      BY <1>3, <1>4, <1>9, <1>12, <2>1 DEF Between
    <3>2. FreedNow(s, idx, K \cup {d}) = FreedNow(s, idx, K) \cup {d}
      BY <2>1 DEF FreedNow
    <3>3. d \notin FreedNow(s, idx, K) /\ \A e \in FreedNow(s, idx, K) : e < d
      BY DEF FreedNow
    <3>4. \A e \in ToSet(s.mReady) : birth[e] # birth[d]
      BY <1>13, <2>1
    <3>5. Grown(s.mReady, Append(r.mReady, d), FreedNow(s, idx, K) \cup {d}, birth)
      BY <1>1, <1>2, <1>7, <3>3, <3>4, GrowsBy
    <3> QED
      BY <3>1, <3>2, <3>5
  <2>2. CASE ~ (Up(s, d) = {idx} /\ Typ(s, d) # "Round")
    <3>1. t.mReady = r.mReady
      BY <1>3, <1>4, <1>9, <1>12, <2>2 DEF Between
    <3>2. FreedNow(s, idx, K \cup {d}) = FreedNow(s, idx, K)
      BY <2>2 DEF FreedNow
    <3> QED
      BY <1>2, <3>1, <3>2
  <2> QED
    BY <2>1, <2>2
<1>15. Grown(s.mNextRound, t.mNextRound, FreedNext(s, idx, K \cup {d}), birth)
  <2>1. CASE Up(s, d) = {idx} /\ Typ(s, d) = "Round"
    <3>1. t.mNextRound = Append(r.mNextRound, d)
      BY <1>3, <1>4, <1>9, <1>12, <2>1 DEF Between
    <3>2. FreedNext(s, idx, K \cup {d}) = FreedNext(s, idx, K) \cup {d}
      BY <2>1 DEF FreedNext
    <3>3. d \notin FreedNext(s, idx, K) /\ \A e \in FreedNext(s, idx, K) : e < d
      BY DEF FreedNext
    <3>4. \A e \in ToSet(s.mNextRound) : birth[e] # birth[d]
      BY <1>13, <2>1
    <3>5. Grown(s.mNextRound, Append(r.mNextRound, d), FreedNext(s, idx, K) \cup {d}, birth)
      BY <1>1, <1>2, <1>7, <3>3, <3>4, GrowsBy
    <3> QED
      BY <3>1, <3>2, <3>5
  <2>2. CASE ~ (Up(s, d) = {idx} /\ Typ(s, d) = "Round")
    <3>1. t.mNextRound = r.mNextRound
      BY <1>3, <1>4, <1>9, <1>12, <2>2 DEF Between
    <3>2. FreedNext(s, idx, K \cup {d}) = FreedNext(s, idx, K)
      BY <2>2 DEF FreedNext
    <3> QED
      BY <1>2, <3>1, <3>2
  <2> QED
    BY <2>1, <2>2
<1> QED
  BY <1>9, <1>11, <1>14, <1>15 DEF Released, t

(* Every round of the first loop keeps what it relies on.                  *)
LEMMA ReleaseKeeps ==
  ASSUME NEW r, NEW idx, NEW d, r \in Scheds, idx \in Live(r)
  PROVE  ReleaseDownstream(r, idx, d) \in Scheds /\ Live(ReleaseDownstream(r, idx, d)) = Live(r)
<1> DEFINE t == ReleaseDownstream(r, idx, d)
<1>1. CASE r.threw # "no" \/ d \notin Live(r)
  <2>1. t = Throw(r, "removeTask")
    BY <1>1 DEF ReleaseDownstream
  <2>2. "removeTask" \in Throws
    BY DEF Throws
  <2> QED
    BY <2>1, <2>2, ThrowIs
<1>2. CASE r.threw = "no" /\ d \in Live(r)
  <2> DEFINE u == RemoveUpstream(r, d, idx)
             v == QueueIfFreed(u, d)
             cs == r.mTasks[idx].mClosures
  <2>1. t = HandAll(v, d, cs)
    BY <1>2 DEF ReleaseDownstream, HandAll, QueueIfFreed
  <2>2. cs \in Seq(Nat)
    BY SchedFacts DEF Closs
  <2>3. v \in Scheds /\ Live(v) = Live(r)
    <3>1. CASE idx \in Up(r, d)
      <4>1. Between(r, v, idx, d)
        BY <1>2, <3>1, BetweenIs
      <4> QED
        BY <4>1 DEF Between
    <3>2. CASE idx \notin Up(r, d)
      <4>1. u = Throw(r, "removeUpstream")
        BY <3>2 DEF RemoveUpstream, Up
      <4>2. "removeUpstream" \in Throws /\ "removeUpstream" # "no"
        BY DEF Throws
      <4>3. u \in Scheds /\ Live(u) = Live(r) /\ u.threw # "no"
        BY <1>2, <4>1, <4>2, ThrowIs
      <4>4. v = u
        BY <4>3 DEF QueueIfFreed, Freed
      <4> QED
        BY <4>3, <4>4
    <3> QED
      BY <3>1, <3>2
  <2>4. \E T : HandTrace(T, v, d, cs)
    BY <1>2, <2>2, <2>3, HandTraced
  <2> QED
    BY <2>1, <2>3, <2>4 DEF HandTrace
<1> QED
  BY <1>1, <1>2

ReleaseAll(s, idx, ds) == FoldLeft(LAMBDA r, d : ReleaseDownstream(r, idx, d), s, ds)

ReleaseTrace(T, s, idx, ds) ==
  /\ T[0] = s
  /\ \A k \in 1 .. Len(ds) : T[k] = ReleaseDownstream(T[k - 1], idx, ds[k])
  /\ ReleaseAll(s, idx, ds) = T[Len(ds)]

(* The first loop, seen round by round.                                    *)
LEMMA ReleaseTraced ==
  ASSUME NEW s, NEW idx, NEW ds, s \in Scheds, idx \in Live(s), ds \in Seq(Nat)
  PROVE  \E T : ReleaseTrace(T, s, idx, ds)
<1> DEFINE n == Len(ds)
           D == {r \in Scheds : Live(r) = Live(s)}
           St == [x \in D \X (1 .. n) |-> ReleaseDownstream(x[1], idx, ds[x[2]])]
<1>1. n \in Nat /\ DOMAIN ds = 1 .. n /\ \A k \in 1 .. n : ds[k] \in Nat
  BY LenProperties
<1> HIDE DEF n
<1>2. \A r \in D : \A k \in 1 .. n : ReleaseDownstream(r, idx, ds[k]) \in D
  BY <1>1, ReleaseKeeps
<1>4. s \in D
  OBVIOUS
<1> HIDE DEF D
<1>3. St \in [D \X (1 .. n) -> D]
  BY <1>2
<1>5. PICK F \in [SUBSET (1 .. n) -> D] : Folds(F, n, s, St)
  <2> HIDE DEF St
  <2> QED
    BY <1>1, <1>3, <1>4, FoldExists
<1> DEFINE Is(G1) == G1 = [k \in SUBSET (1 .. n) |-> IF k = {} THEN s ELSE ReleaseDownstream(G1[k \ {Max(k)}], idx, ds[Max(k)])]
           iter == CHOOSE G1 : Is(G1)
<1>6. ASSUME NEW G1, NEW k \in SUBSET (1 .. n), k # {}, G1[k \ {Max(k)}] \in D
      PROVE  St[<<G1[k \ {Max(k)}], Max(k)>>] = ReleaseDownstream(G1[k \ {Max(k)}], idx, ds[Max(k)])
  <2>1. Max(k) \in 1 .. n
    BY <1>1, <1>6, MaxOfSubset
  <2> HIDE DEF Max
  <2> QED
    BY <1>6, <2>1
<1>7. Is(F)
  <2>1. \A k \in SUBSET (1 .. n) : k # {} => F[k \ {Max(k)}] \in D
    BY <1>5
  <2> HIDE DEF St
  <2>2. \A k \in SUBSET (1 .. n) : k # {} => St[<<F[k \ {Max(k)}], Max(k)>>] = ReleaseDownstream(F[k \ {Max(k)}], idx, ds[Max(k)])
    BY <1>6, <2>1
  <2> QED
    BY <1>5, <2>2 DEF Folds
<1>8. Is(iter) /\ ReleaseAll(s, idx, ds) = iter[1 .. n]
  <2>1. Is(iter)
    <3> HIDE DEF Is
    <3> QED
      BY <1>7
  <2>2. ReleaseAll(s, idx, ds) = iter[DOMAIN ds]
    BY <1>1, Zenon DEF ReleaseAll, FoldLeft, MapThenFoldSet
  <2> HIDE DEF iter
  <2> QED
    BY <1>1, <2>1, <2>2
<1> HIDE DEF iter
<1> DEFINE T == OnPrefixes(iter, n)
<1>9. Traces(T, n, D, s, St) /\ T[n] = iter[1 .. n]
  <2>1. iter[{}] = s
    BY <1>8
  <2>2. \A k \in SUBSET (1 .. n) :
          k # {} /\ iter[k \ {Max(k)}] \in D => iter[k] = St[<<iter[k \ {Max(k)}], Max(k)>>]
    <3> HIDE DEF St, Max
    <3> QED
      BY <1>6, <1>8
  <2> HIDE DEF St, Is
  <2>3. Unfolds(iter, n, D, s, St)
    BY <1>1, <1>3, <1>4, <2>1, <2>2 DEF Unfolds
  <2> QED
    BY <2>3, FoldTrace
<1> HIDE DEF T, Is
<1>10. \A k \in 1 .. n : T[k] = ReleaseDownstream(T[k - 1], idx, ds[k])
  <2> SUFFICES ASSUME NEW k \in 1 .. n PROVE T[k] = ReleaseDownstream(T[k - 1], idx, ds[k])
    OBVIOUS
  <2>1. k - 1 \in 0 .. n
    BY <1>1
  <2>2. T[k - 1] \in D
    BY <1>9, <2>1 DEF Traces
  <2>3. T[k] = St[<<T[k - 1], k>>]
    BY <1>9 DEF Traces
  <2> QED
    BY <2>2, <2>3
<1>11. ReleaseTrace(T, s, idx, ds)
  BY <1>8, <1>9, <1>10 DEF ReleaseTrace, Traces, n
<1> QED
  BY <1>11

(* removeTask's first loop.                                                *)
LEMMA ReleaseAllIs ==
  ASSUME NEW s, NEW idx, NEW birth, CanRelease(s, idx, birth)
  PROVE  Released(s, ReleaseAll(s, idx, Downs(s, idx)), idx, Down(s, idx), birth)
<1> DEFINE ds == Downs(s, idx)
           n == Len(ds)
           Got(k) == {d \in Down(s, idx) : \E j \in 1 .. k : d = ds[j]}
<1>1. s \in Scheds /\ s.threw = "no" /\ idx \in Live(s) /\ Increasing(ds)
  BY DEF CanRelease
<1>2. ds \in Seq(Nat)
  BY <1>1, SchedFacts
<1>3. n \in Nat /\ DOMAIN ds = 1 .. n /\ (\A k \in 1 .. n : ds[k] \in Nat /\ ds[k] \in Down(s, idx))
      /\ (\A d \in Down(s, idx) : \E k \in 1 .. n : d = ds[k])
  BY <1>2, LenProperties DEF ToSet, Down
<1>4. PICK T : ReleaseTrace(T, s, idx, ds)
  BY <1>1, <1>2, ReleaseTraced
<1>5. \A j, k \in 1 .. n : j < k => ds[j] < ds[k]
  BY <1>1, <1>3 DEF Increasing
<1> DEFINE P == {k \in Nat : k <= n => Released(s, T[k], idx, Got(k), birth)}
<1>6. 0 \in P
  <2>1. Got(0) = {}
    OBVIOUS
  <2>2. T[0] = s
    BY <1>4 DEF ReleaseTrace
  <2>3. Released(s, s, idx, {}, birth)
    <3>1. Links(s, s, idx, {})
      BY DEF Links
    <3>2. FreedNow(s, idx, {}) = {} /\ FreedNext(s, idx, {}) = {}
      BY DEF FreedNow, FreedNext
    <3>3. Grown(s.mReady, s.mReady, {}, birth) /\ Grown(s.mNextRound, s.mNextRound, {}, birth)
      BY <1>1, SchedFacts DEF Grown
    <3> QED
      BY <1>1, <3>1, <3>2, <3>3 DEF Released
  <2> QED
    BY <2>1, <2>2, <2>3
<1>7. ASSUME NEW k \in Nat, k \in P PROVE k + 1 \in P
  <2> SUFFICES ASSUME k + 1 <= n PROVE Released(s, T[k + 1], idx, Got(k + 1), birth)
    OBVIOUS
  <2> DEFINE d == ds[k + 1]
  <2>1. k + 1 \in 1 .. n /\ k <= n /\ k + 1 - 1 = k
    BY <1>3
  <2>2. Released(s, T[k], idx, Got(k), birth)
    BY <1>7, <2>1
  <2>3. d \in Down(s, idx) /\ d \in Nat
    BY <1>3, <2>1
  <2>4. T[k + 1] = ReleaseDownstream(T[k], idx, d)
    BY <1>4, <2>1 DEF ReleaseTrace
  <2>5. Got(k + 1) = Got(k) \cup {d}
    BY <1>3, <2>1, <2>3
  <2>6. \A e \in Got(k) : e < d
    <3> SUFFICES ASSUME NEW j \in 1 .. k PROVE ds[j] < d
      OBVIOUS
    <3>1. j \in 1 .. n /\ j < k + 1
      BY <2>1
    <3> QED
      BY <1>5, <2>1, <3>1
  <2>7. d \notin Got(k)
    BY <2>3, <2>6
  <2>8. Got(k) \subseteq Down(s, idx)
    OBVIOUS
  <2> HIDE DEF Got, d
  <2>9. Released(s, ReleaseDownstream(T[k], idx, d), idx, Got(k) \cup {d}, birth)
    BY <2>2, <2>3, <2>6, <2>7, <2>8, ReleaseDownstreamIs
  <2> QED
    BY <2>4, <2>5, <2>9
<1>8. Released(s, T[n], idx, Got(n), birth)
  <2>1. \A k \in Nat : k \in P
    <3> HIDE DEF P
    <3> QED
      BY <1>6, <1>7, NatInduct
  <2>2. n \in P
    <3> HIDE DEF P
    <3> QED
      BY <1>3, <2>1
  <2>3. n <= n
    BY <1>3
  <2> QED
    BY <2>2, <2>3
<1>9. Got(n) = Down(s, idx)
  BY <1>3
<1>10. ReleaseAll(s, idx, ds) = T[n]
  BY <1>4 DEF ReleaseTrace
<1> QED
  BY <1>8, <1>9, <1>10

-----------------------------------------------------------------------------
(* A removal: the Scheduler before it, the task that popTask takes, the    *)
(* indices that are closures, and what each index was born behind.         *)
LiveIn(w) == Live(w.before)
WaitsOf(w, x) == Up(w.before, x)
Behind(w, u) == Down(w.before, u)
Told(w, u) == Cls(w.before, u)

(* Every list names live indices, and every edge is listed at both ends.   *)
Within(w) ==
  \A x \in LiveIn(w) : /\ WaitsOf(w, x) \subseteq LiveIn(w) /\ x \notin WaitsOf(w, x)
                       /\ Behind(w, x) \subseteq LiveIn(w) /\ Told(w, x) \subseteq LiveIn(w)

TwoEnds(w) ==
  \A u, x \in LiveIn(w) : /\ x \in Behind(w, u) <=> x \notin w.closures /\ u \in WaitsOf(w, x)
                          /\ x \in Told(w, u) <=> x \in w.closures /\ u \in WaitsOf(w, x)

CanPop(w) ==
  /\ w.before \in Scheds /\ w.before.threw = "no" /\ IsFiniteSet(LiveIn(w))
  /\ w.popped \in LiveIn(w) /\ w.popped \notin w.closures /\ WaitsOf(w, w.popped) = {}
  /\ Within(w) /\ TwoEnds(w)
  /\ \A u \in LiveIn(w) : NoDup(Closs(w.before, u)) /\ Increasing(Downs(w.before, u))
  /\ \A c \in LiveIn(w) \cap w.closures : WaitsOf(w, c) # {}
  /\ \A e \in ToSet(w.before.mReady) \cup ToSet(w.before.mNextRound) :
       e \in LiveIn(w) \ w.closures /\ WaitsOf(w, e) = {}
  /\ \A x, y \in LiveIn(w) \ w.closures : w.birth[x] = w.birth[y] => WaitsOf(w, x) = WaitsOf(w, y)

(* The tasks that the removal of D leaves with nothing to wait for.        *)
FreedBy(w, D) == {d \in LiveIn(w) \ w.closures : WaitsOf(w, d) # {} /\ WaitsOf(w, d) \subseteq D}
ReadyBy(w, D) == {d \in FreedBy(w, D) : Typ(w.before, d) # "Round"}
RoundBy(w, D) == {d \in FreedBy(w, D) : Typ(w.before, d) = "Round"}

(* S contains the closures that the removal of the popped task and S       *)
(* leaves with nothing to wait for.                                        *)
Emptying(w, R, c) == WaitsOf(w, c) \subseteq R /\ \A u \in WaitsOf(w, c) : Behind(w, u) = {}
Shut(w, S) == \A c \in LiveIn(w) \cap w.closures : Emptying(w, {w.popped} \cup S, c) => c \in S

(* What is left of the waits of closure c when D has been entered and the  *)
(* pairs E are still to do.                                                *)
Handed(w, D, c) == UNION {Behind(w, u) : u \in D \cap WaitsOf(w, c)}
ServedTo(D, E, c) == {u \in D : <<u, c>> \notin E}
Gone(D, E) == {u \in D : <<u, u>> \notin E}

Sound(w, s, E, D) ==
  /\ s \in Scheds /\ s.threw = "no" /\ s.mTaskIdx = w.before.mTaskIdx
  /\ D \subseteq LiveIn(w) /\ \A x \in D : x = w.popped \/ x \in w.closures
  /\ \A e \in E : \E u \in D : \E c \in Told(w, u) \cup {u} : e = <<u, c>>
  /\ Live(s) = LiveIn(w) \ Gone(D, E)

Lists(w, s, D) ==
  \A x \in Live(s) :
    /\ Typ(s, x) = Typ(w.before, x) /\ Downs(s, x) = Downs(w.before, x) /\ NoDup(Closs(s, x))
    /\ Cls(s, x) = Told(w, x) \cup UNION {Told(w, u) : u \in {v \in D : x \in Behind(w, v)}}

Waits(w, s, E, D) ==
  /\ \A x \in Live(s) \ w.closures : Up(s, x) = WaitsOf(w, x) \ D
  /\ \A c \in Live(s) \cap w.closures :
       Up(s, c) = (WaitsOf(w, c) \ ServedTo(D, E, c)) \cup Handed(w, D, c)
  /\ \A c \in D : \A u \in WaitsOf(w, c) : u \in D /\ <<u, c>> \notin E /\ Behind(w, u) = {}

(* Every closure that has nothing left to wait for has been entered,       *)
(* except perhaps those in hole.                                           *)
Entered(w, s, D, hole) ==
  /\ \A c \in (Live(s) \cap w.closures) \ (D \cup hole) : Up(s, c) # {}
  /\ \A S : Shut(w, S) => D \subseteq {w.popped} \cup S

Queues(w, s, D) ==
  /\ Grown(w.before.mReady, s.mReady, ReadyBy(w, D), w.birth)
  /\ Grown(w.before.mNextRound, s.mNextRound, RoundBy(w, D), w.birth)

Progress(w, s, E, D, hole) ==
  Sound(w, s, E, D) /\ Lists(w, s, D) /\ Waits(w, s, E, D) /\ Entered(w, s, D, hole) /\ Queues(w, s, D)

(* The erase at the end of removeTask.                                     *)
LEMMA EraseIs ==
  ASSUME NEW s, NEW idx, s \in Scheds
  PROVE  LET t == Erase(s, idx) IN
         /\ t \in Scheds /\ t.threw = s.threw /\ t.mTaskIdx = s.mTaskIdx /\ Live(t) = Live(s) \ {idx}
         /\ t.mReady = s.mReady /\ t.mNextRound = s.mNextRound
         /\ \A x \in Live(t) : /\ Typ(t, x) = Typ(s, x) /\ Downs(t, x) = Downs(s, x)
                               /\ Closs(t, x) = Closs(s, x) /\ Up(t, x) = Up(s, x)
<1> DEFINE t == Erase(s, idx)
           f == [x \in Live(s) \ {idx} |-> s.mTasks[x]]
<1>1. t = [s EXCEPT !.mTasks = f]
  BY DEF Erase
<1>2. s.mTasks \in [Live(s) -> Bases] /\ Live(s) \subseteq Nat
  BY SchedFacts
<1>3. f \in [Live(s) \ {idx} -> Bases] /\ \A y \in Live(s) \ {idx} : f[y] = s.mTasks[y]
  BY <1>2
<1> HIDE DEF f
<1>4. f \in Tables
  BY <1>2, <1>3 DEF Tables
<1>5. /\ t \in Scheds /\ t.mTasks = f /\ t.mTaskIdx = s.mTaskIdx /\ t.threw = s.threw
      /\ t.mReady = s.mReady /\ t.mNextRound = s.mNextRound
  BY <1>1, <1>4 DEF Scheds
<1> HIDE DEF t
<1>6. Live(t) = Live(s) \ {idx}
  BY <1>3, <1>5 DEF Live
<1>7. \A x \in Live(t) : /\ Typ(t, x) = Typ(s, x) /\ Downs(t, x) = Downs(s, x)
                         /\ Closs(t, x) = Closs(s, x) /\ Up(t, x) = Up(s, x)
  BY <1>3, <1>5, <1>6 DEF Typ, Downs, Closs, Up
<1> QED
  BY <1>5, <1>6, <1>7 DEF t

(* The erase behind the second loop of removeTask.                         *)
LEMMA EraseKeeps ==
  ASSUME NEW w, NEW s, NEW E, NEW D, NEW idx, CanPop(w), Progress(w, s, E, D, {}), <<idx, idx>> \in E
  PROVE  Progress(w, Erase(s, idx), E \ {<<idx, idx>>}, D, {})
<1> DEFINE t == Erase(s, idx)
           F == E \ {<<idx, idx>>}
<1>1. Sound(w, s, E, D) /\ Lists(w, s, D) /\ Waits(w, s, E, D) /\ Entered(w, s, D, {}) /\ Queues(w, s, D)
  BY DEF Progress
<1>2. /\ t \in Scheds /\ t.threw = s.threw /\ t.mTaskIdx = s.mTaskIdx /\ Live(t) = Live(s) \ {idx}
      /\ t.mReady = s.mReady /\ t.mNextRound = s.mNextRound
      /\ \A x \in Live(t) : /\ Typ(t, x) = Typ(s, x) /\ Downs(t, x) = Downs(s, x)
                            /\ Closs(t, x) = Closs(s, x) /\ Up(t, x) = Up(s, x)
  BY <1>1, EraseIs DEF Sound
<1> HIDE DEF t
<1>3. idx \in D /\ F \subseteq E
  BY <1>1 DEF Sound
<1>4. Gone(D, F) = Gone(D, E) \cup {idx}
  BY <1>3 DEF Gone
<1>5. Sound(w, t, F, D)
  BY <1>1, <1>2, <1>3, <1>4 DEF Sound
<1>6. Lists(w, t, D)
  BY <1>1, <1>2 DEF Lists, Cls
<1>7. \A c \in Live(t) : ServedTo(D, F, c) = ServedTo(D, E, c)
  BY <1>2 DEF ServedTo
<1>8. Waits(w, t, F, D)
  <2>1. \A x \in Live(t) \ w.closures : Up(t, x) = WaitsOf(w, x) \ D
    BY <1>1, <1>2 DEF Waits
  <2>2. \A c \in Live(t) \cap w.closures : Up(t, c) = (WaitsOf(w, c) \ ServedTo(D, F, c)) \cup Handed(w, D, c)
    BY <1>1, <1>2, <1>7 DEF Waits
  <2>3. \A c \in D : \A u \in WaitsOf(w, c) : u \in D /\ <<u, c>> \notin F /\ Behind(w, u) = {}
    BY <1>1, <1>3 DEF Waits
  <2> QED
    BY <2>1, <2>2, <2>3 DEF Waits
<1>9. Entered(w, t, D, {})
  BY <1>1, <1>2 DEF Entered
<1>10. Queues(w, t, D)
  BY <1>1, <1>2 DEF Queues
<1> QED
  BY <1>5, <1>6, <1>8, <1>9, <1>10 DEF Progress, t

(* A round of the second loop, up to the test whether the closure has      *)
(* become free.                                                            *)
Unlinked(w, s, E, D, idx, c) ==
  LET t == RemoveUpstream(s, c, idx)  F == E \ {<<idx, c>>} IN
  /\ Progress(w, t, F, D, {c}) /\ c \in Live(t) /\ c \notin D /\ c \in LiveIn(w) /\ c \in w.closures
  /\ Up(t, c) # {} => Progress(w, t, F, D, {})
  /\ Up(t, c) = {} => /\ \A u \in WaitsOf(w, c) : u \in D /\ <<u, c>> \notin F /\ Behind(w, u) = {}
                      /\ \A S : Shut(w, S) => c \in S

(* A round of the second loop that leaves its closure waiting.             *)
LEMMA UnlinkKeeps ==
  ASSUME NEW w, NEW s, NEW E, NEW D, NEW idx, NEW c, CanPop(w), Progress(w, s, E, D, {}), <<idx, c>> \in E, c # idx
  PROVE  Unlinked(w, s, E, D, idx, c)
<1> DEFINE t == RemoveUpstream(s, c, idx)
           F == E \ {<<idx, c>>}
<1>1. Sound(w, s, E, D) /\ Lists(w, s, D) /\ Waits(w, s, E, D) /\ Entered(w, s, D, {}) /\ Queues(w, s, D)
  BY DEF Progress
<1>2. idx \in D /\ idx \in LiveIn(w) /\ c \in Told(w, idx)
  BY <1>1 DEF Sound
<1>3. c \in LiveIn(w) /\ c \in w.closures /\ idx \in WaitsOf(w, c)
  BY <1>2 DEF CanPop, Within, TwoEnds
<1>4. c \notin D
  BY <1>1, <1>3 DEF Waits
<1>5. c \in Live(s) /\ s \in Scheds
  BY <1>1, <1>3, <1>4 DEF Sound, Gone
<1>6. Up(s, c) = (WaitsOf(w, c) \ ServedTo(D, E, c)) \cup Handed(w, D, c)
  BY <1>1, <1>3, <1>5 DEF Waits
<1>7. idx \in Up(s, c)
  BY <1>3, <1>6 DEF ServedTo
<1>8. UpSet(s, t, c, Up(s, c) \ {idx})
  BY <1>5, <1>7, RemoveUpstreamIs
<1> HIDE DEF t
<1>9. /\ t \in Scheds /\ t.threw = s.threw /\ t.mTaskIdx = s.mTaskIdx /\ Live(t) = Live(s)
      /\ t.mReady = s.mReady /\ t.mNextRound = s.mNextRound
      /\ \A y \in Live(s) : /\ Typ(t, y) = Typ(s, y) /\ Downs(t, y) = Downs(s, y) /\ Closs(t, y) = Closs(s, y)
                            /\ Up(t, y) = (IF y = c THEN Up(s, c) \ {idx} ELSE Up(s, y))
  BY <1>8 DEF UpSet
<1>10. Gone(D, F) = Gone(D, E) /\ F \subseteq E
  BY DEF Gone
<1>11. Sound(w, t, F, D)
  BY <1>1, <1>9, <1>10 DEF Sound
<1>12. Lists(w, t, D)
  BY <1>1, <1>9 DEF Lists, Cls
<1>13. idx \notin Handed(w, D, c)
  <2> SUFFICES ASSUME NEW v \in D, idx \in Behind(w, v) PROVE FALSE
    BY DEF Handed
  <2>1. v \in LiveIn(w)
    BY <1>1 DEF Sound
  <2>2. idx \notin w.closures /\ v \in WaitsOf(w, idx)
    BY <1>2, <2>1 DEF CanPop, Within, TwoEnds
  <2>3. idx = w.popped
    BY <1>1, <1>2, <2>2 DEF Sound
  <2> QED
    BY <2>2, <2>3 DEF CanPop
<1>14. ServedTo(D, F, c) = ServedTo(D, E, c) \cup {idx} /\ \A y : y # c => ServedTo(D, F, y) = ServedTo(D, E, y)
  BY <1>2 DEF ServedTo
<1>15. Up(t, c) = (WaitsOf(w, c) \ ServedTo(D, F, c)) \cup Handed(w, D, c)
  BY <1>5, <1>6, <1>9, <1>13, <1>14
<1>16. Waits(w, t, F, D)
  <2>1. \A x \in Live(t) \ w.closures : Up(t, x) = WaitsOf(w, x) \ D
    BY <1>1, <1>3, <1>9 DEF Waits
  <2>2. \A y \in Live(t) \cap w.closures : Up(t, y) = (WaitsOf(w, y) \ ServedTo(D, F, y)) \cup Handed(w, D, y)
    BY <1>1, <1>9, <1>14, <1>15 DEF Waits
  <2>3. \A y \in D : \A u \in WaitsOf(w, y) : u \in D /\ <<u, y>> \notin F /\ Behind(w, u) = {}
    BY <1>1, <1>10 DEF Waits
  <2> QED
    BY <2>1, <2>2, <2>3 DEF Waits
<1>17. Entered(w, t, D, {c}) /\ (Up(t, c) # {} => Entered(w, t, D, {}))
  BY <1>1, <1>9 DEF Entered
<1>18. Queues(w, t, D)
  BY <1>1, <1>9 DEF Queues
<1>19. ASSUME Up(t, c) = {}
       PROVE  /\ \A u \in WaitsOf(w, c) : u \in D /\ <<u, c>> \notin F /\ Behind(w, u) = {}
              /\ \A S : Shut(w, S) => c \in S
  <2>1. \A u \in WaitsOf(w, c) : u \in D /\ <<u, c>> \notin F
    BY <1>15, <1>19 DEF ServedTo
  <2>2. \A u \in WaitsOf(w, c) : Behind(w, u) = {}
    BY <1>15, <1>19, <2>1 DEF Handed
  <2>3. ASSUME NEW S, Shut(w, S) PROVE c \in S
    <3>1. D \subseteq {w.popped} \cup S
      BY <1>1, <2>3 DEF Entered
    <3>2. Emptying(w, {w.popped} \cup S, c)
      BY <2>1, <2>2, <3>1 DEF Emptying
    <3> QED
      BY <1>3, <2>3, <3>2 DEF Shut
  <2> QED
    BY <2>1, <2>2, <2>3
<1>20. Progress(w, t, F, D, {c}) /\ (Up(t, c) # {} => Progress(w, t, F, D, {}))
  BY <1>11, <1>12, <1>16, <1>17, <1>18 DEF Progress
<1>21. c \in Live(t)
  BY <1>5, <1>9
<1> HIDE DEF F
<1> QED
  BY <1>3, <1>4, <1>19, <1>20, <1>21 DEF Unlinked, t, F

(* A queue that has grown twice.                                           *)
LEMMA GrownTwice ==
  ASSUME NEW p, NEW q, NEW r, NEW X, NEW Y, NEW birth, Grown(p, q, X, birth), Grown(q, r, Y, birth)
  PROVE  Grown(p, r, X \cup Y, birth)
  BY DEF Grown

(* The pairs that removeTask(idx) has to go through.                       *)
Rounds(w, idx) == {<<idx, c>> : c \in Told(w, idx) \cup {idx}}

(* What makes removeTask(idx) be called.                                   *)
MayEnter(w, E, D, idx) ==
  /\ idx \in LiveIn(w) /\ idx \notin D
  /\ idx = w.popped \/ idx \in w.closures
  /\ \A u \in WaitsOf(w, idx) : u \in D /\ <<u, idx>> \notin E /\ Behind(w, u) = {}
  /\ \A S : Shut(w, S) => idx \in {w.popped} \cup S

(* A task or closure that may be entered has sound lists.                  *)
LEMMA EnterCan ==
  ASSUME NEW w, NEW s, NEW E, NEW D, NEW idx, CanPop(w), Progress(w, s, E, D, {idx}), MayEnter(w, E, D, idx)
  PROVE  /\ CanRelease(s, idx, w.birth) /\ idx \in Live(s)
         /\ Down(s, idx) = Behind(w, idx) /\ Cls(s, idx) = Told(w, idx) /\ NoDup(Closs(s, idx))
         /\ \A d \in Behind(w, idx) : /\ d \in LiveIn(w) /\ d \notin w.closures /\ d \in Live(s) /\ idx \in WaitsOf(w, d)
                                      /\ Up(s, d) = WaitsOf(w, d) \ D /\ Typ(s, d) = Typ(w.before, d)
<1>1. Sound(w, s, E, D) /\ Lists(w, s, D) /\ Waits(w, s, E, D) /\ Entered(w, s, D, {idx}) /\ Queues(w, s, D)
  BY DEF Progress
<1>2. /\ s \in Scheds /\ s.threw = "no" /\ D \subseteq LiveIn(w)
      /\ \A x \in LiveIn(w) : x \notin D => x \in Live(s)
  BY <1>1 DEF Sound, Gone
<1>3. idx \in LiveIn(w) /\ idx \notin D /\ idx \in Live(s)
  BY <1>2 DEF MayEnter
<1>4. \A u \in LiveIn(w) : idx \notin Behind(w, u)
  BY <1>3 DEF MayEnter, CanPop, Within, TwoEnds
<1>5. Cls(s, idx) = Told(w, idx) /\ Downs(s, idx) = Downs(w.before, idx) /\ NoDup(Closs(s, idx))
  <2>1. {v \in D : idx \in Behind(w, v)} = {}
    BY <1>2, <1>4
  <2> QED
    BY <1>1, <1>3, <2>1 DEF Lists
<1>6. Down(s, idx) = Behind(w, idx) /\ Increasing(Downs(s, idx))
  BY <1>3, <1>5 DEF Down, Behind, CanPop
<1>7. ASSUME NEW d \in Behind(w, idx)
      PROVE  /\ d \in LiveIn(w) /\ d \notin w.closures /\ idx \in WaitsOf(w, d) /\ d \notin D /\ d \in Live(s)
             /\ Up(s, d) = WaitsOf(w, d) \ D /\ Typ(s, d) = Typ(w.before, d)
  <2>1. d \in LiveIn(w) /\ d \notin w.closures /\ idx \in WaitsOf(w, d)
    BY <1>3 DEF CanPop, Within, TwoEnds
  <2>2. d \notin D
    BY <1>1, <2>1 DEF Sound, CanPop
  <2>3. d \in Live(s)
    BY <1>2, <2>1, <2>2
  <2>4. Up(s, d) = WaitsOf(w, d) \ D /\ Typ(s, d) = Typ(w.before, d)
    BY <1>1, <2>1, <2>3 DEF Waits, Lists
  <2> QED
    BY <2>1, <2>2, <2>3, <2>4
<1>8. \A e \in ToSet(s.mReady) \cup ToSet(s.mNextRound) :
        e \in LiveIn(w) \ w.closures /\ (WaitsOf(w, e) = {} \/ WaitsOf(w, e) \subseteq D)
  BY <1>1 DEF Queues, Grown, ReadyBy, RoundBy, FreedBy, CanPop
<1>9. \A d \in Behind(w, idx) : d \notin ToSet(s.mReady) /\ d \notin ToSet(s.mNextRound)
  BY <1>3, <1>7, <1>8
<1>10. ASSUME NEW d \in Behind(w, idx), NEW e \in ToSet(s.mReady) \cup ToSet(s.mNextRound)
       PROVE  w.birth[e] # w.birth[d]
  <2>1. w.birth[e] = w.birth[d] => WaitsOf(w, e) = WaitsOf(w, d)
    BY <1>7, <1>8 DEF CanPop
  <2> QED
    BY <1>3, <1>7, <1>8, <2>1
<1>11. Told(w, idx) \subseteq Live(s)
  <2> SUFFICES ASSUME NEW c \in Told(w, idx) PROVE c \in Live(s)
    OBVIOUS
  <2>1. c \in LiveIn(w) /\ idx \in WaitsOf(w, c)
    BY <1>3 DEF CanPop, Within, TwoEnds
  <2>2. c \notin D
    BY <1>1, <1>3, <2>1 DEF Waits
  <2> QED
    BY <1>2, <2>1, <2>2
<1>12. \A d \in Behind(w, idx) : d \notin Told(w, idx)
  BY <1>3, <1>7 DEF CanPop, Within, TwoEnds
<1>13. \A d \in Behind(w, idx) : idx \in Up(s, d)
  BY <1>3, <1>7
<1>14. CanRelease(s, idx, w.birth)
  BY <1>2, <1>3, <1>4, <1>5, <1>6, <1>7, <1>9, <1>10, <1>11, <1>12, <1>13 DEF CanRelease
<1> QED
  BY <1>3, <1>5, <1>6, <1>7, <1>14

(* The first loop of removeTask(idx).                                      *)
LEMMA EnterKeeps ==
  ASSUME NEW w, NEW s, NEW E, NEW D, NEW idx, CanPop(w), Progress(w, s, E, D, {idx}), MayEnter(w, E, D, idx)
  PROVE  Progress(w, ReleaseAll(s, idx, Downs(s, idx)), E \cup Rounds(w, idx), D \cup {idx}, {})
<1> DEFINE t == ReleaseAll(s, idx, Downs(s, idx))
           F == E \cup Rounds(w, idx)
           B == D \cup {idx}
           K == Behind(w, idx)
<1>1. Sound(w, s, E, D) /\ Lists(w, s, D) /\ Waits(w, s, E, D) /\ Entered(w, s, D, {idx}) /\ Queues(w, s, D)
  BY DEF Progress
<1>2. /\ CanRelease(s, idx, w.birth) /\ idx \in Live(s)
      /\ Down(s, idx) = K /\ Cls(s, idx) = Told(w, idx) /\ NoDup(Closs(s, idx))
      /\ \A d \in K : /\ d \in LiveIn(w) /\ d \notin w.closures /\ d \in Live(s) /\ idx \in WaitsOf(w, d)
                      /\ Up(s, d) = WaitsOf(w, d) \ D /\ Typ(s, d) = Typ(w.before, d)
  BY EnterCan
<1>3. Released(s, t, idx, K, w.birth)
  BY <1>2, ReleaseAllIs
<1> HIDE DEF t
<1>4. /\ t \in Scheds /\ t.threw = "no" /\ t.mTaskIdx = s.mTaskIdx /\ Live(t) = Live(s)
      /\ Links(s, t, idx, K)
      /\ Grown(s.mReady, t.mReady, FreedNow(s, idx, K), w.birth)
      /\ Grown(s.mNextRound, t.mNextRound, FreedNext(s, idx, K), w.birth)
  BY <1>3 DEF Released
<1>5. \A y \in Live(s) :
        /\ Typ(t, y) = Typ(s, y) /\ Downs(t, y) = Downs(s, y)
        /\ y \notin K => Closs(t, y) = Closs(s, y)
        /\ y \in K => Cls(t, y) = Cls(s, y) \cup Told(w, idx)
        /\ NoDup(Closs(s, y)) => NoDup(Closs(t, y))
        /\ y \in K => Up(t, y) = Up(s, y) \ {idx}
        /\ y \notin K /\ y \notin Told(w, idx) => Up(t, y) = Up(s, y)
        /\ y \in Told(w, idx) => Up(t, y) = Up(s, y) \cup K
  BY <1>2, <1>4 DEF Links
<1>6. idx \in LiveIn(w) /\ idx \notin D /\ (idx = w.popped \/ idx \in w.closures)
      /\ \A u \in WaitsOf(w, idx) : u \in D /\ <<u, idx>> \notin E /\ Behind(w, u) = {}
  BY DEF MayEnter
<1>7. \A u, c : u # idx => (<<u, c>> \in F <=> <<u, c>> \in E)
  BY DEF Rounds
<1>8. <<idx, idx>> \in F /\ \A c \in Told(w, idx) : <<idx, c>> \in F
  BY DEF Rounds
<1>9. D \subseteq LiveIn(w) /\ Live(s) \subseteq LiveIn(w) /\ Live(s) = LiveIn(w) \ Gone(D, E)
  BY <1>1 DEF Sound
<1>10. Gone(B, F) = Gone(D, E)
  BY <1>6, <1>7, <1>8 DEF Gone
<1>11. \A e \in F : \E u \in B : \E c \in Told(w, u) \cup {u} : e = <<u, c>>
  <2>1. \A e \in E : \E u \in B : \E c \in Told(w, u) \cup {u} : e = <<u, c>>
    BY <1>1 DEF Sound
  <2>2. \A e \in Rounds(w, idx) : \E c \in Told(w, idx) \cup {idx} : e = <<idx, c>>
    BY DEF Rounds
  <2> QED
    BY <2>1, <2>2
<1> HIDE DEF F
<1>12. Sound(w, t, F, B)
  <2>1. B \subseteq LiveIn(w) /\ \A x \in B : x = w.popped \/ x \in w.closures
    BY <1>1, <1>6 DEF Sound
  <2>2. s.mTaskIdx = w.before.mTaskIdx
    BY <1>1 DEF Sound
  <2> HIDE DEF B
  <2> QED
    BY <1>4, <1>9, <1>10, <1>11, <2>1, <2>2 DEF Sound
<1>13. Lists(w, t, B)
  <2> SUFFICES ASSUME NEW x \in Live(s)
      PROVE  /\ Typ(t, x) = Typ(w.before, x) /\ Downs(t, x) = Downs(w.before, x) /\ NoDup(Closs(t, x))
             /\ Cls(t, x) = Told(w, x) \cup UNION {Told(w, u) : u \in {v \in B : x \in Behind(w, v)}}
    BY <1>4 DEF Lists
  <2>1. /\ Typ(s, x) = Typ(w.before, x) /\ Downs(s, x) = Downs(w.before, x) /\ NoDup(Closs(s, x))
        /\ Cls(s, x) = Told(w, x) \cup UNION {Told(w, u) : u \in {v \in D : x \in Behind(w, v)}}
    BY <1>1 DEF Lists
  <2>2. CASE x \in K
    <3>1. {v \in B : x \in Behind(w, v)} = {v \in D : x \in Behind(w, v)} \cup {idx}
      BY <2>2
    <3> QED
      BY <1>5, <2>1, <2>2, <3>1
  <2>3. CASE x \notin K
    <3>1. {v \in B : x \in Behind(w, v)} = {v \in D : x \in Behind(w, v)}
      BY <2>3
    <3>2. Cls(t, x) = Cls(s, x)
      BY <1>5, <2>3 DEF Cls
    <3> QED
      BY <1>5, <2>1, <3>1, <3>2
  <2> QED
    BY <2>2, <2>3
<1>14. Waits(w, t, F, B)
  <2>1. ASSUME NEW x \in Live(t) \ w.closures PROVE Up(t, x) = WaitsOf(w, x) \ B
    <3>1. x \in Live(s) /\ x \in LiveIn(w) /\ Up(s, x) = WaitsOf(w, x) \ D
      BY <1>1, <1>4, <1>9 DEF Waits
    <3>2. x \notin Told(w, idx) /\ (x \in K <=> idx \in WaitsOf(w, x))
      BY <1>6, <2>1, <3>1 DEF CanPop, Within, TwoEnds
    <3>3. CASE x \in K
      BY <1>5, <3>1, <3>3
    <3>4. CASE x \notin K
      BY <1>5, <3>1, <3>2, <3>4
    <3> QED
      BY <3>3, <3>4
  <2>2. ASSUME NEW c \in Live(t) \cap w.closures
        PROVE  Up(t, c) = (WaitsOf(w, c) \ ServedTo(B, F, c)) \cup Handed(w, B, c)
    <3>1. c \in Live(s) /\ c \in LiveIn(w) /\ Up(s, c) = (WaitsOf(w, c) \ ServedTo(D, E, c)) \cup Handed(w, D, c)
      BY <1>1, <1>4, <1>9 DEF Waits
    <3>2. c \notin K /\ (c \in Told(w, idx) <=> idx \in WaitsOf(w, c))
      BY <1>6, <2>2, <3>1 DEF CanPop, Within, TwoEnds
    <3>3. CASE c \in Told(w, idx)
      <4>1. ServedTo(B, F, c) = ServedTo(D, E, c)
        BY <1>6, <1>7, <1>8, <3>3 DEF ServedTo
      <4>2. Handed(w, B, c) = Handed(w, D, c) \cup K
        BY <3>2, <3>3 DEF Handed
      <4> HIDE DEF B, K
      <4> QED
        BY <1>5, <3>1, <3>3, <4>1, <4>2
    <3>4. CASE c \notin Told(w, idx)
      <4>1. WaitsOf(w, c) \ ServedTo(B, F, c) = WaitsOf(w, c) \ ServedTo(D, E, c)
        BY <1>6, <1>7, <3>2, <3>4 DEF ServedTo
      <4>2. Handed(w, B, c) = Handed(w, D, c)
        BY <3>2, <3>4 DEF Handed
      <4> HIDE DEF B, K
      <4> QED
        BY <1>5, <3>1, <3>2, <3>4, <4>1, <4>2
    <3> QED
      BY <3>3, <3>4
  <2>3. ASSUME NEW c \in B, NEW u \in WaitsOf(w, c) PROVE u \in B /\ <<u, c>> \notin F /\ Behind(w, u) = {}
    <3>1. u \in D /\ <<u, c>> \notin E /\ Behind(w, u) = {}
      BY <1>1, <1>6, <2>3 DEF Waits
    <3>2. u # idx
      BY <1>6, <3>1
    <3> QED
      BY <1>7, <3>1, <3>2
  <2> HIDE DEF B
  <2> QED
    BY <2>1, <2>2, <2>3 DEF Waits
<1>15. Entered(w, t, B, {})
  <2>1. ASSUME NEW c \in (Live(t) \cap w.closures) \ (B \cup {}) PROVE Up(t, c) # {}
    <3>1. c \in (Live(s) \cap w.closures) \ (D \cup {idx})
      BY <1>4, <2>1
    <3>2. Up(s, c) # {}
      BY <1>1, <3>1 DEF Entered
    <3>3. c \notin K
      BY <1>2, <3>1
    <3>4. Up(s, c) \subseteq Up(t, c)
      BY <1>5, <3>1, <3>3
    <3> QED
      BY <3>2, <3>4
  <2>2. ASSUME NEW S, Shut(w, S) PROVE B \subseteq {w.popped} \cup S
    <3>1. D \subseteq {w.popped} \cup S
      BY <1>1, <2>2 DEF Entered
    <3>2. idx \in {w.popped} \cup S
      BY <2>2 DEF MayEnter
    <3> QED
      BY <3>1, <3>2
  <2> HIDE DEF B
  <2> QED
    BY <2>1, <2>2 DEF Entered
<1>16. FreedBy(w, B) = FreedBy(w, D) \cup {d \in K : Up(s, d) = {idx}}
  <2>1. ASSUME NEW d \in FreedBy(w, B), d \notin FreedBy(w, D) PROVE d \in K /\ Up(s, d) = {idx}
    <3>1. d \in LiveIn(w) /\ d \notin w.closures /\ idx \in WaitsOf(w, d) /\ WaitsOf(w, d) \subseteq B
      BY <2>1 DEF FreedBy
    <3>2. d \in K
      BY <1>6, <3>1 DEF CanPop, Within, TwoEnds
    <3>3. Up(s, d) = WaitsOf(w, d) \ D
      BY <1>2, <3>2
    <3> QED
      BY <1>6, <3>1, <3>2, <3>3
  <2>2. ASSUME NEW d \in K, Up(s, d) = {idx} PROVE d \in FreedBy(w, B)
    <3>1. d \in LiveIn(w) /\ d \notin w.closures /\ idx \in WaitsOf(w, d) /\ Up(s, d) = WaitsOf(w, d) \ D
      BY <1>2, <2>2
    <3> QED
      BY <2>2, <3>1 DEF FreedBy
  <2>3. FreedBy(w, D) \subseteq FreedBy(w, B)
    BY DEF FreedBy
  <2> QED
    BY <2>1, <2>2, <2>3
<1>17. ReadyBy(w, B) = ReadyBy(w, D) \cup FreedNow(s, idx, K) /\ RoundBy(w, B) = RoundBy(w, D) \cup FreedNext(s, idx, K)
  <2>1. \A d \in K : Typ(s, d) = Typ(w.before, d)
    BY <1>2
  <2> HIDE DEF B, K
  <2> QED
    BY <1>16, <2>1 DEF ReadyBy, RoundBy, FreedNow, FreedNext
<1>18. Queues(w, t, B)
  <2>1. Grown(w.before.mReady, t.mReady, ReadyBy(w, D) \cup FreedNow(s, idx, K), w.birth)
    BY <1>1, <1>4, GrownTwice DEF Queues
  <2>2. Grown(w.before.mNextRound, t.mNextRound, RoundBy(w, D) \cup FreedNext(s, idx, K), w.birth)
    BY <1>1, <1>4, GrownTwice DEF Queues
  <2> HIDE DEF B, K
  <2> QED
    BY <1>17, <2>1, <2>2 DEF Queues
<1> HIDE DEF B
<1> QED
  BY <1>12, <1>13, <1>14, <1>15, <1>18 DEF Progress, t, F, B

-----------------------------------------------------------------------------
(* Lists: what is in a concatenation and in a tail.                        *)
LEMMA ConcatFacts ==
  ASSUME NEW A, NEW p, NEW q, p \in Seq(A), q \in Seq(A)
  PROVE  /\ p \o q \in Seq(A) /\ ToSet(p \o q) = ToSet(p) \cup ToSet(q)
         /\ NoDup(p) /\ NoDup(q) /\ ToSet(p) \cap ToSet(q) = {} => NoDup(p \o q)
         /\ p # <<>> => p \o q # <<>>
<1> DEFINE r == p \o q
           m == Len(p)
           n == Len(q)
<1>1. /\ m \in Nat /\ n \in Nat /\ DOMAIN p = 1 .. m /\ DOMAIN q = 1 .. n
      /\ r \in Seq(A) /\ Len(r) = m + n /\ DOMAIN r = 1 .. (m + n)
      /\ \A i \in 1 .. (m + n) : r[i] = IF i <= m THEN p[i] ELSE q[i - m]
  BY ConcatProperties, LenProperties
<1> HIDE DEF m, n, r
<1>2. \A i \in DOMAIN p : i \in DOMAIN r /\ r[i] = p[i]
  BY <1>1
<1>3. \A i \in DOMAIN q : i + m \in DOMAIN r /\ r[i + m] = q[i]
  <2> SUFFICES ASSUME NEW i \in 1 .. n PROVE i + m \in 1 .. (m + n) /\ r[i + m] = q[i]
    BY <1>1
  <2>1. i + m \in 1 .. (m + n) /\ ~ (i + m <= m) /\ i + m - m = i
    BY <1>1
  <2> QED
    BY <1>1, <2>1
<1>4. ASSUME NEW k \in DOMAIN r
      PROVE  \/ k \in DOMAIN p /\ r[k] = p[k]
             \/ k - m \in DOMAIN q /\ r[k] = q[k - m] /\ k \in Int
  <2>1. k \in 1 .. (m + n)
    BY <1>1
  <2>2. CASE k <= m
    BY <1>1, <2>1, <2>2
  <2>3. CASE ~ k <= m
    <3>1. k - m \in 1 .. n
      BY <1>1, <2>1, <2>3
    <3> QED
      BY <1>1, <2>1, <2>3, <3>1
  <2> QED
    BY <2>2, <2>3
<1>5. ToSet(r) = ToSet(p) \cup ToSet(q)
  <2>1. ToSet(p) \cup ToSet(q) \subseteq ToSet(r)
    BY <1>2, <1>3 DEF ToSet
  <2>2. ToSet(r) \subseteq ToSet(p) \cup ToSet(q)
    BY <1>4 DEF ToSet
  <2> QED
    BY <2>1, <2>2
<1>6. ASSUME NoDup(p), NoDup(q), ToSet(p) \cap ToSet(q) = {} PROVE NoDup(r)
  <2> SUFFICES ASSUME NEW i \in DOMAIN r, NEW j \in DOMAIN r, r[i] = r[j] PROVE i = j
    BY DEF NoDup
  <2>1. \A k \in DOMAIN p : p[k] \in ToSet(p)
    BY DEF ToSet
  <2>2. \A k \in DOMAIN q : q[k] \in ToSet(q)
    BY DEF ToSet
  <2>3. CASE i \in DOMAIN p /\ r[i] = p[i] /\ j \in DOMAIN p /\ r[j] = p[j]
    BY <1>6, <2>3 DEF NoDup
  <2>4. CASE i - m \in DOMAIN q /\ r[i] = q[i - m] /\ i \in Int /\ j - m \in DOMAIN q /\ r[j] = q[j - m] /\ j \in Int
    <3>1. i - m = j - m
      BY <1>6, <2>4 DEF NoDup
    <3> QED
      BY <1>1, <2>4, <3>1
  <2>5. CASE i \in DOMAIN p /\ r[i] = p[i] /\ j - m \in DOMAIN q /\ r[j] = q[j - m]
    BY <1>6, <2>1, <2>2, <2>5
  <2>6. CASE j \in DOMAIN p /\ r[j] = p[j] /\ i - m \in DOMAIN q /\ r[i] = q[i - m]
    BY <1>6, <2>1, <2>2, <2>6
  <2> QED
    BY <1>4, <2>3, <2>4, <2>5, <2>6
<1>7. p # <<>> => r # <<>>
  <2> SUFFICES ASSUME p # <<>> PROVE r # <<>>
    OBVIOUS
  <2>1. m > 0
    BY <1>1, EmptySeq DEF m
  <2>2. Len(<<>>) = 0
    OBVIOUS
  <2> QED
    BY <1>1, <2>1, <2>2
<1> QED
  BY <1>1, <1>5, <1>6, <1>7 DEF r

(* A list without its head.                                                *)
LEMMA TailFacts ==
  ASSUME NEW A, NEW q, q \in Seq(A), q # <<>>
  PROVE  /\ Tail(q) \in Seq(A) /\ Head(q) \in A /\ Head(q) \in ToSet(q)
         /\ ToSet(q) = ToSet(Tail(q)) \cup {Head(q)}
         /\ NoDup(q) => NoDup(Tail(q)) /\ ToSet(Tail(q)) = ToSet(q) \ {Head(q)}
<1> DEFINE t == Tail(q)
           n == Len(t)
<1>1. /\ t \in Seq(A) /\ Head(q) \in A /\ n \in Nat /\ Len(q) = n + 1 /\ Head(q) = q[1]
      /\ DOMAIN t = 1 .. n /\ DOMAIN q = 1 .. (n + 1)
      /\ \A i \in 1 .. n : t[i] = q[i + 1]
  BY HeadTailProperties, LenProperties
<1> HIDE DEF n, t
<1>2. \A i \in DOMAIN t : i + 1 \in DOMAIN q /\ i + 1 # 1 /\ t[i] = q[i + 1]
  BY <1>1
<1>3. 1 \in DOMAIN q /\ \A i \in DOMAIN q : i = 1 \/ (i - 1 \in DOMAIN t /\ t[i - 1] = q[i])
  BY <1>1
<1>4. ToSet(q) = ToSet(t) \cup {Head(q)}
  BY <1>1, <1>2, <1>3 DEF ToSet
<1>5. ASSUME NoDup(q) PROVE NoDup(t) /\ Head(q) \notin ToSet(t)
  <2>1. \A i, j \in DOMAIN t : t[i] = t[j] => i + 1 = j + 1
    BY <1>2, <1>5 DEF NoDup
  <2>2. NoDup(t)
    BY <1>1, <2>1 DEF NoDup
  <2>3. \A i \in DOMAIN t : t[i] # q[1]
    BY <1>2, <1>3, <1>5 DEF NoDup
  <2> QED
    BY <1>1, <2>2, <2>3 DEF ToSet
<1> QED
  BY <1>1, <1>4, <1>5 DEF t

(* There are finitely many pairs of live indices.                          *)
LEMMA PairsFinite ==
  ASSUME NEW A, IsFiniteSet(A)
  PROVE  IsFiniteSet(A \X A)
<1> DEFINE S == {n \in Nat : \A B : IsFiniteSet(B) /\ Cardinality(B) = n => IsFiniteSet(B \X A)}
<1>1. 0 \in S
  <2> SUFFICES ASSUME NEW B, IsFiniteSet(B), Cardinality(B) = 0 PROVE IsFiniteSet(B \X A)
    OBVIOUS
  <2>1. B = {}
    BY FS_EmptySet
  <2>2. B \X A = {}
    BY <2>1
  <2> QED
    BY <2>2, FS_EmptySet
<1>2. ASSUME NEW n \in Nat, n \in S PROVE n + 1 \in S
  <2> SUFFICES ASSUME NEW B, IsFiniteSet(B), Cardinality(B) = n + 1 PROVE IsFiniteSet(B \X A)
    OBVIOUS
  <2>1. B # {}
    BY FS_EmptySet
  <2>2. PICK x \in B : TRUE
    BY <2>1
  <2> DEFINE R == B \ {x}
             Row == {x} \X A
  <2>3. IsFiniteSet(R) /\ Cardinality(R) = n
    <3>1. IsFiniteSet(B \ {x}) /\ Cardinality(B \ {x}) = IF x \in B THEN Cardinality(B) - 1 ELSE Cardinality(B)
      BY FS_RemoveElement
    <3>2. n + 1 - 1 = n
      OBVIOUS
    <3> QED
      BY <2>2, <3>1, <3>2
  <2>4. IsFiniteSet(R \X A)
    BY <1>2, <2>3
  <2>5. IsFiniteSet(Row)
    <3> DEFINE f == [a \in A |-> <<x, a>>]
    <3>1. f \in Surjection(A, Row)
      BY DEF Surjection
    <3> HIDE DEF f, Row
    <3> QED
      BY <3>1, FS_Surjection
  <2>6. B \X A = (R \X A) \cup Row
    BY <2>2
  <2> HIDE DEF R, Row
  <2>7. IsFiniteSet((R \X A) \cup Row)
    BY <2>4, <2>5, FS_Union
  <2> QED
    BY <2>6, <2>7
<1>3. \A n \in Nat : n \in S
  <2> HIDE DEF S
  <2> QED
    BY <1>1, <1>2, NatInduct
<1>4. Cardinality(A) \in Nat
  BY FS_CardinalityType
<1> QED
  BY <1>3, <1>4

-----------------------------------------------------------------------------
(* A removal that has entered D, with what is left to do in a list.        *)
Removals == [sched : Scheds, todo : Seq(Nat \X Nat)]

Underway(w, r, D) ==
  /\ r \in Removals /\ NoDup(r.todo) /\ w.popped \in D
  /\ Progress(w, r.sched, ToSet(r.todo), D, {})

AllRounds(w, D) == UNION {Rounds(w, u) : u \in D}
Done(w, r, D) == AllRounds(w, D) \ ToSet(r.todo)

TodoOf(idx, cs) == [n \in DOMAIN cs |-> <<idx, cs[n]>>]

(* What removeTask has to do behind its first loop: nothing twice.         *)
LEMMA TodoOfFacts ==
  ASSUME NEW idx, NEW cs, idx \in Nat, cs \in Seq(Nat), NoDup(cs), idx \notin ToSet(cs)
  PROVE  LET q == TodoOf(idx, cs) \o << <<idx, idx>> >> IN
         /\ q \in Seq(Nat \X Nat) /\ NoDup(q) /\ q # <<>>
         /\ ToSet(q) = {<<idx, c>> : c \in ToSet(cs) \cup {idx}}
<1> DEFINE p == TodoOf(idx, cs)
           e == << <<idx, idx>> >>
<1>1. Len(cs) \in Nat /\ DOMAIN cs = 1 .. Len(cs) /\ \A n \in DOMAIN cs : cs[n] \in Nat
  BY LenProperties
<1>2. p \in Seq(Nat \X Nat) /\ DOMAIN p = DOMAIN cs /\ \A n \in DOMAIN cs : p[n] = <<idx, cs[n]>>
  BY <1>1, IsASeq DEF TodoOf
<1>3. e \in Seq(Nat \X Nat) /\ DOMAIN e = {1} /\ e[1] = <<idx, idx>> /\ e # <<>>
  OBVIOUS
<1> HIDE DEF p, e
<1>4. NoDup(p) /\ ToSet(p) = {<<idx, c>> : c \in ToSet(cs)}
  <2>1. \A m, n \in DOMAIN p : p[m] = p[n] => cs[m] = cs[n]
    BY <1>2
  <2>2. NoDup(p)
    BY <1>2, <2>1 DEF NoDup
  <2>3. ToSet(p) = {<<idx, cs[n]>> : n \in DOMAIN cs}
    BY <1>2 DEF ToSet
  <2>4. {<<idx, cs[n]>> : n \in DOMAIN cs} = {<<idx, c>> : c \in ToSet(cs)}
    BY DEF ToSet
  <2> QED
    BY <2>2, <2>3, <2>4
<1>5. NoDup(e) /\ ToSet(e) = {<<idx, idx>>}
  BY <1>3 DEF NoDup, ToSet
<1>6. ToSet(p) \cap ToSet(e) = {}
  BY <1>4, <1>5
<1>7. p \o e \in Seq(Nat \X Nat) /\ NoDup(p \o e) /\ ToSet(p \o e) = ToSet(p) \cup ToSet(e)
  BY <1>2, <1>3, <1>4, <1>5, <1>6, ConcatFacts
<1>8. ToSet(p) \cup ToSet(e) = {<<idx, c>> : c \in ToSet(cs) \cup {idx}}
  BY <1>4, <1>5
<1>9. p \o e # <<>>
  <2>1. <<idx, idx>> \in ToSet(p \o e)
    BY <1>5, <1>7
  <2>2. ToSet(<<>>) = {}
    BY DEF ToSet
  <2> QED
    BY <2>1, <2>2
<1> QED
  BY <1>7, <1>8, <1>9 DEF p, e

Entering(w, s, idx, todo, D) ==
  /\ CanPop(w) /\ Progress(w, s, ToSet(todo), D, {idx}) /\ MayEnter(w, ToSet(todo), D, idx)
  /\ Up(s, idx) = {} /\ todo \in Seq(Nat \X Nat) /\ NoDup(todo) /\ w.popped \in D \cup {idx}
Begun(w, s, idx, todo, D) ==
  /\ Underway(w, BeginRemove(s, idx, todo), D \cup {idx})
  /\ ToSet(BeginRemove(s, idx, todo).todo) = Rounds(w, idx) \cup ToSet(todo)

(* removeTask up to its second loop.                                       *)
LEMMA BeginIs ==
  ASSUME NEW w, NEW s, NEW idx, NEW todo, NEW D, Entering(w, s, idx, todo, D)
  PROVE  Begun(w, s, idx, todo, D)
<1> SUFFICES ASSUME CanPop(w), Progress(w, s, ToSet(todo), D, {idx}), MayEnter(w, ToSet(todo), D, idx),
                    Up(s, idx) = {}, todo \in Seq(Nat \X Nat), NoDup(todo), w.popped \in D \cup {idx}
             PROVE  /\ Underway(w, BeginRemove(s, idx, todo), D \cup {idx})
                    /\ ToSet(BeginRemove(s, idx, todo).todo) = Rounds(w, idx) \cup ToSet(todo)
  BY DEF Entering, Begun
<1> DEFINE r == BeginRemove(s, idx, todo)
           cs == Closs(s, idx)
           q == TodoOf(idx, cs) \o << <<idx, idx>> >>
<1>1. /\ CanRelease(s, idx, w.birth) /\ idx \in Live(s) /\ Cls(s, idx) = Told(w, idx) /\ NoDup(cs)
  BY EnterCan
<1>2. s \in Scheds
  BY <1>1 DEF CanRelease
<1>3. r = [sched |-> ReleaseAll(s, idx, Downs(s, idx)), todo |-> q \o todo]
  BY <1>1 DEF BeginRemove, ReleaseAll, TodoOf, Closs, Downs, Up
<1>4. cs \in Seq(Nat) /\ idx \in Nat /\ ToSet(cs) = Told(w, idx)
  BY <1>1, <1>2, SchedFacts DEF Cls
<1>5. idx \notin D /\ idx \in LiveIn(w)
  BY DEF MayEnter
<1>6. idx \notin Told(w, idx)
  BY <1>5 DEF CanPop, Within, TwoEnds
<1>7. q \in Seq(Nat \X Nat) /\ NoDup(q) /\ ToSet(q) = Rounds(w, idx)
  <2>1. cs \in Seq(Nat) /\ NoDup(cs) /\ idx \notin ToSet(cs)
    BY <1>1, <1>4, <1>6
  <2> HIDE DEF cs
  <2>2. q \in Seq(Nat \X Nat) /\ NoDup(q) /\ ToSet(q) = {<<idx, c>> : c \in ToSet(cs) \cup {idx}}
    BY <1>4, <2>1, TodoOfFacts
  <2> QED
    BY <1>4, <2>2 DEF Rounds
<1> HIDE DEF q, cs
<1>8. Rounds(w, idx) \cap ToSet(todo) = {}
  <2>1. \A e \in ToSet(todo) : \E u \in D : \E c \in Told(w, u) \cup {u} : e = <<u, c>>
    BY DEF Progress, Sound
  <2> QED
    BY <1>5, <2>1 DEF Rounds
<1>9. q \o todo \in Seq(Nat \X Nat) /\ NoDup(q \o todo) /\ ToSet(q \o todo) = Rounds(w, idx) \cup ToSet(todo)
  BY <1>7, <1>8, ConcatFacts
<1>10. Progress(w, ReleaseAll(s, idx, Downs(s, idx)), ToSet(todo) \cup Rounds(w, idx), D \cup {idx}, {})
  BY EnterKeeps
<1>11. ToSet(todo) \cup Rounds(w, idx) = Rounds(w, idx) \cup ToSet(todo)
  OBVIOUS
<1>12. r.sched \in Scheds /\ r.sched = ReleaseAll(s, idx, Downs(s, idx)) /\ r.todo = q \o todo
  BY <1>3, <1>10 DEF Progress, Sound
<1>13. r \in Removals
  BY <1>3, <1>9, <1>12 DEF Removals
<1> HIDE DEF r
<1> QED
  BY <1>9, <1>10, <1>11, <1>12, <1>13 DEF Underway, r

(* removeTask starts.                                                      *)
LEMMA RemovalStarts ==
  ASSUME NEW w, CanPop(w)
  PROVE  /\ Underway(w, BeginRemove(w.before, w.popped, <<>>), {w.popped})
         /\ Done(w, BeginRemove(w.before, w.popped, <<>>), {w.popped}) = {}
<1> DEFINE s == w.before
           idx == w.popped
<1>1. s \in Scheds /\ s.threw = "no" /\ idx \in LiveIn(w) /\ idx \notin w.closures /\ WaitsOf(w, idx) = {}
  BY DEF CanPop
<1>2. ToSet(<<>>) = {} /\ <<>> \in Seq(Nat \X Nat) /\ NoDup(<<>>)
  BY DEF ToSet, NoDup
<1>3. Progress(w, s, {}, {}, {idx})
  <2>1. Sound(w, s, {}, {})
    BY <1>1 DEF Sound, Gone, LiveIn
  <2>2. Lists(w, s, {})
    BY <1>1 DEF Lists, Told, LiveIn, CanPop
  <2>3. Waits(w, s, {}, {})
    BY <1>1 DEF Waits, WaitsOf, ServedTo, Handed
  <2>4. Entered(w, s, {}, {idx})
    BY DEF Entered, CanPop, LiveIn, WaitsOf
  <2>5. ReadyBy(w, {}) = {} /\ RoundBy(w, {}) = {}
    BY DEF ReadyBy, RoundBy, FreedBy
  <2>6. Queues(w, s, {})
    BY <1>1, <2>5, SchedFacts DEF Queues, Grown
  <2> QED
    BY <2>1, <2>2, <2>3, <2>4, <2>6 DEF Progress
<1>4. MayEnter(w, {}, {}, idx)
  BY <1>1 DEF MayEnter
<1>5. Up(s, idx) = {}
  BY <1>1 DEF WaitsOf
<1>6. {} \cup {idx} = {idx} /\ idx \in {} \cup {idx}
  OBVIOUS
<1> HIDE DEF s, idx
<1>7. Underway(w, BeginRemove(s, idx, <<>>), {} \cup {idx})
      /\ ToSet(BeginRemove(s, idx, <<>>).todo) = Rounds(w, idx) \cup ToSet(<<>>)
  <2>1. ToSet(<<>>) = {}
    BY <1>2
  <2>2. Entering(w, s, idx, <<>>, {})
    BY <1>2, <1>3, <1>4, <1>5, <1>6, <2>1 DEF Entering, idx
  <2>3. Begun(w, s, idx, <<>>, {})
    BY <2>2, BeginIs
  <2> QED
    BY <2>3 DEF Begun
<1>8. Done(w, BeginRemove(s, idx, <<>>), {idx}) = {}
  BY <1>2, <1>7 DEF Done, AllRounds
<1> QED
  BY <1>6, <1>7, <1>8 DEF s, idx

Advances(w, r, D, B) ==
  /\ Underway(w, ContinueRemove(r), B)
  /\ r.todo = <<>> => ContinueRemove(r) = r /\ B = D
  /\ r.todo # <<>> => /\ Done(w, ContinueRemove(r), B) = Done(w, r, D) \cup {Head(r.todo)}
                      /\ Head(r.todo) \notin Done(w, r, D) /\ Head(r.todo) \in LiveIn(w) \X LiveIn(w)

(* Each step of a removal does one of the rounds there are to do.          *)
LEMMA RemovalAdvances ==
  ASSUME NEW w, NEW r, NEW D, CanPop(w), Underway(w, r, D)
  PROVE  \E B : Advances(w, r, D, B)
<1> DEFINE s == r.sched
           E == ToSet(r.todo)
           T == Tail(r.todo)
           h == Head(r.todo)
<1>1. /\ r \in Removals /\ NoDup(r.todo) /\ w.popped \in D /\ Progress(w, s, E, D, {})
  BY DEF Underway
<1>2. r.sched \in Scheds /\ r.todo \in Seq(Nat \X Nat) /\ s.threw = "no" /\ D \subseteq LiveIn(w)
  BY <1>1 DEF Removals, Progress, Sound
<1>3. CASE r.todo = <<>>
  <2>1. ContinueRemove(r) = r
    BY <1>3 DEF ContinueRemove
  <2>2. Advances(w, r, D, D)
    BY <1>3, <2>1 DEF Advances
  <2> QED
    BY <2>2
<1>4. CASE r.todo # <<>>
  <2>1. /\ T \in Seq(Nat \X Nat) /\ h \in Nat \X Nat /\ h \in E /\ NoDup(T) /\ ToSet(T) = E \ {h}
    BY <1>1, <1>2, <1>4, TailFacts
  <2>a. PICK u \in D : \E c \in Told(w, u) \cup {u} : h = <<u, c>>
    BY <1>1, <2>1 DEF Progress, Sound
  <2>2. PICK c \in Told(w, u) \cup {u} : h = <<u, c>>
    BY <2>a
  <2> HIDE DEF E, T, h
  <2>3. h[1] = u /\ h[2] = c
    BY <2>2
  <2>4. h \in AllRounds(w, D) /\ h \in E /\ h \notin Done(w, r, D)
    BY <2>1, <2>2 DEF AllRounds, Rounds, Done, E
  <2>5. h \in LiveIn(w) \X LiveIn(w)
    BY <1>2, <2>2 DEF CanPop, Within, TwoEnds
  <2> DEFINE t == RemoveUpstream(s, c, u)
  <2>6. ContinueRemove(r) = IF c = u THEN [sched |-> Erase(s, u), todo |-> T]
                            ELSE IF Freed(t, c) THEN BeginRemove(t, c, T)
                            ELSE [sched |-> t, todo |-> T]
    BY <1>2, <1>4, <2>3 DEF ContinueRemove, h, T
  <2>7. ASSUME NEW x, Progress(w, x, E \ {h}, D, {}), ContinueRemove(r) = [sched |-> x, todo |-> T]
        PROVE  Advances(w, r, D, D)
    <3>1. Underway(w, [sched |-> x, todo |-> T], D)
      <4>1. x \in Scheds
        BY <2>7 DEF Progress, Sound
      <4> QED
        BY <1>1, <2>1, <2>7, <4>1 DEF Underway, Removals
    <3>2. Done(w, [sched |-> x, todo |-> T], D) = Done(w, r, D) \cup {h}
      BY <2>1, <2>4 DEF Done, E
    <3> QED
      BY <1>4, <2>4, <2>5, <2>7, <3>1, <3>2 DEF Advances, h
  <2>8. CASE c = u
    <3>1. Progress(w, Erase(s, u), E \ {<<u, u>>}, D, {})
      BY <1>1, <2>1, <2>2, <2>8, EraseKeeps
    <3> QED
      BY <2>2, <2>6, <2>7, <2>8, <3>1
  <2>9. CASE c # u
    <3>1. <<u, c>> \in E
      BY <2>1, <2>2
    <3>2. /\ Progress(w, t, E \ {<<u, c>>}, D, {c}) /\ c \in Live(t) /\ c \notin D /\ c \in LiveIn(w) /\ c \in w.closures
          /\ (Up(t, c) # {} => Progress(w, t, E \ {<<u, c>>}, D, {}))
          /\ (Up(t, c) = {} => /\ \A v \in WaitsOf(w, c) : v \in D /\ <<v, c>> \notin E \ {<<u, c>>} /\ Behind(w, v) = {}
                               /\ \A S : Shut(w, S) => c \in S)
      <4>1. Unlinked(w, s, E, D, u, c)
        BY <1>1, <2>9, <3>1, UnlinkKeeps
      <4> QED
        BY <4>1 DEF Unlinked
    <3> HIDE DEF t
    <3>3. t.threw = "no"
      BY <3>2 DEF Progress, Sound
    <3>4. Freed(t, c) <=> Up(t, c) = {}
      BY <3>3 DEF Freed, Up
    <3>5. CASE Up(t, c) # {}
      <4>1. ContinueRemove(r) = [sched |-> t, todo |-> T]
        BY <2>6, <2>9, <3>4, <3>5
      <4> QED
        BY <2>2, <2>7, <3>2, <3>5, <4>1
    <3>6. CASE Up(t, c) = {}
      <4>1. ContinueRemove(r) = BeginRemove(t, c, T)
        BY <2>6, <2>9, <3>4, <3>6
      <4>2. MayEnter(w, ToSet(T), D, c)
        BY <2>1, <2>2, <3>2, <3>6 DEF MayEnter
      <4>3. Entering(w, t, c, T, D)
        BY <1>1, <2>1, <2>2, <3>2, <3>6, <4>2 DEF Entering
      <4>4. Begun(w, t, c, T, D)
        BY <4>3, BeginIs
      <4>5. Underway(w, ContinueRemove(r), D \cup {c}) /\ ToSet(ContinueRemove(r).todo) = Rounds(w, c) \cup (E \ {h})
        BY <2>1, <4>1, <4>4 DEF Begun
      <4>6. AllRounds(w, D \cup {c}) = AllRounds(w, D) \cup Rounds(w, c)
        BY DEF AllRounds
      <4>7. Rounds(w, c) \cap AllRounds(w, D) = {}
        BY <3>2 DEF AllRounds, Rounds
      <4>8. Done(w, ContinueRemove(r), D \cup {c}) = Done(w, r, D) \cup {h}
        BY <2>4, <4>5, <4>6, <4>7 DEF Done, E
      <4>9. Advances(w, r, D, D \cup {c})
        BY <1>4, <2>4, <2>5, <4>5, <4>8 DEF Advances, h
      <4> QED
        BY <4>9
    <3> QED
      BY <3>5, <3>6
  <2> QED
    BY <2>8, <2>9
<1> QED
  BY <1>3, <1>4

-----------------------------------------------------------------------------
(* The steps of removeTask, one after the other.                           *)
Steps(w, F) ==
  /\ F[0] = BeginRemove(w.before, w.popped, <<>>)
  /\ \A n \in Nat : F[n + 1] = ContinueRemove(F[n])
  /\ RemoveTask(w.before, w.popped) = F[Cardinality(LiveIn(w) \X LiveIn(w))].sched

(* So after as many steps as there are pairs nothing is left to do.        *)
LEMMA RemovalSteps ==
  ASSUME NEW w, CanPop(w)
  PROVE  \E F : Steps(w, F)
<1> DEFINE s == w.before
           idx == w.popped
           D == {r \in Removals : \E B : Underway(w, r, B)}
           base == BeginRemove(s, idx, <<>>)
           St == [x \in D \X Nat |-> ContinueRemove(x[1])]
           N == Cardinality(LiveIn(w) \X LiveIn(w))
<1>1. base \in D
  BY RemovalStarts DEF Underway
<1>2. \A r \in D : ContinueRemove(r) \in D
  BY RemovalAdvances DEF Advances, Underway
<1>3. N \in Nat
  BY PairsFinite, FS_CardinalityType DEF CanPop
<1> HIDE DEF D, base
<1>4. St \in [D \X Nat -> D]
  BY <1>2
<1>5. PICK F \in [Nat -> D] : Recurs(F, base, St)
  <2> HIDE DEF St
  <2> QED
    BY <1>1, <1>4, RecursionExists
<1>6. F[0] = base /\ \A n \in Nat : F[n + 1] = ContinueRemove(F[n])
  <2>1. F[0] = base
    BY <1>5 DEF Recurs
  <2>2. ASSUME NEW n \in Nat PROVE F[n + 1] = ContinueRemove(F[n])
    <3>1. n + 1 \in Nat /\ n + 1 # 0 /\ n + 1 - 1 = n
      OBVIOUS
    <3>2. F[n + 1] = St[<<F[n], n + 1>>]
      <4> HIDE DEF St
      <4> QED
        BY <1>5, <3>1 DEF Recurs
    <3>3. F[n] \in D
      BY <1>5
    <3> QED
      BY <3>1, <3>2, <3>3
  <2> QED
    BY <2>1, <2>2
<1> HIDE DEF St
<1> DEFINE Is(H) == H = [n \in Nat |-> IF n = 0 THEN {base} ELSE {ContinueRemove(r) : r \in H[n - 1]}]
           H0 == [n \in Nat |-> {F[n]}]
           removal == CHOOSE H : Is(H)
<1>7. Is(H0)
  <2>1. ASSUME NEW n \in Nat PROVE H0[n] = IF n = 0 THEN {base} ELSE {ContinueRemove(r) : r \in H0[n - 1]}
    <3>1. CASE n = 0
      BY <1>6, <3>1
    <3>2. CASE n # 0
      <4>1. n - 1 \in Nat /\ n - 1 + 1 = n
        BY <3>2
      <4>2. H0[n - 1] = {F[n - 1]}
        BY <4>1
      <4>3. F[n] = ContinueRemove(F[n - 1])
        BY <1>6, <4>1
      <4> QED
        BY <3>2, <4>2, <4>3
    <3> QED
      BY <3>1, <3>2
  <2> QED
    BY <2>1
<1>8. Is(removal)
  <2> HIDE DEF Is
  <2> QED
    BY <1>7
<1>9. RemoveTask(s, idx) = (CHOOSE r \in removal[N] : TRUE).sched
  BY DEF RemoveTask, LiveIn, base
<1> HIDE DEF removal, N
<1>10. \A n \in Nat : removal[n] = {F[n]}
  <2> DEFINE P == {n \in Nat : removal[n] = {F[n]}}
  <2>1. 0 \in P
    BY <1>6, <1>8
  <2>2. ASSUME NEW n \in Nat, n \in P PROVE n + 1 \in P
    <3>1. n + 1 \in Nat /\ n + 1 # 0 /\ n + 1 - 1 = n
      OBVIOUS
    <3>2. removal[n + 1] = {ContinueRemove(r) : r \in removal[n]}
      BY <1>8, <3>1
    <3> QED
      BY <1>6, <2>2, <3>1, <3>2
  <2> HIDE DEF P
  <2>3. \A n \in Nat : n \in P
    BY <2>1, <2>2, NatInduct
  <2> QED
    BY <2>3 DEF P
<1>11. (CHOOSE r \in removal[N] : TRUE) = F[N]
  BY <1>3, <1>10
<1>12. Steps(w, F)
  BY <1>6, <1>9, <1>11 DEF Steps, base, N
<1> QED
  BY <1>12

(* removeTask comes to its end.                                            *)
LEMMA RemovalEnds ==
  ASSUME NEW w, CanPop(w)
  PROVE  \E D : w.popped \in D /\ Progress(w, RemoveTask(w.before, w.popped), {}, D, {})
<1> DEFINE N == Cardinality(LiveIn(w) \X LiveIn(w))
<1>1. PICK F : Steps(w, F)
  BY RemovalSteps
<1>2. IsFiniteSet(LiveIn(w) \X LiveIn(w)) /\ N \in Nat
  BY PairsFinite, FS_CardinalityType DEF CanPop
<1> HIDE DEF N
<1> DEFINE At(n, D) == /\ Underway(w, F[n], D)
                       /\ \/ F[n].todo = <<>>
                          \/ IsFiniteSet(Done(w, F[n], D)) /\ Cardinality(Done(w, F[n], D)) = n
           P == {n \in Nat : \E D : At(n, D)}
<1>3. 0 \in P
  <2>1. F[0] = BeginRemove(w.before, w.popped, <<>>)
    BY <1>1 DEF Steps
  <2>2. Underway(w, F[0], {w.popped}) /\ Done(w, F[0], {w.popped}) = {}
    BY <2>1, RemovalStarts
  <2>3. At(0, {w.popped})
    BY <2>2, FS_EmptySet
  <2> QED
    BY <2>3
<1>4. ASSUME NEW n \in Nat, n \in P PROVE n + 1 \in P
  <2>1. PICK D : At(n, D)
    BY <1>4
  <2>2. F[n + 1] = ContinueRemove(F[n])
    BY <1>1 DEF Steps
  <2>3. PICK B : Advances(w, F[n], D, B)
    BY <2>1, RemovalAdvances
  <2>4. Underway(w, F[n + 1], B)
    BY <2>2, <2>3 DEF Advances
  <2>5. CASE F[n].todo = <<>>
    <3>1. F[n + 1].todo = <<>>
      BY <2>2, <2>3, <2>5 DEF Advances
    <3>2. At(n + 1, B)
      BY <2>4, <3>1
    <3> QED
      BY <3>2
  <2>6. CASE F[n].todo # <<>>
    <3> DEFINE old == Done(w, F[n], D)
               h == Head(F[n].todo)
    <3>1. Done(w, F[n + 1], B) = old \cup {h} /\ h \notin old
      BY <2>2, <2>3, <2>6 DEF Advances
    <3>2. IsFiniteSet(old) /\ Cardinality(old) = n
      BY <2>1, <2>6
    <3> HIDE DEF old, h
    <3>3. IsFiniteSet(old \cup {h}) /\ Cardinality(old \cup {h}) = n + 1
      <4>1. IsFiniteSet(old \cup {h}) /\ Cardinality(old \cup {h}) = IF h \in old THEN Cardinality(old) ELSE Cardinality(old) + 1
        BY <3>2, FS_AddElement
      <4> QED
        BY <3>1, <3>2, <4>1
    <3>4. At(n + 1, B)
      BY <2>4, <3>1, <3>3
    <3> QED
      BY <3>4
  <2> QED
    BY <2>5, <2>6
<1>5. N \in P
  <2> HIDE DEF P
  <2>1. \A n \in Nat : n \in P
    BY <1>3, <1>4, NatInduct
  <2> QED
    BY <1>2, <2>1
<1>6. PICK D : At(N, D)
  BY <1>5
<1>7. F[N].todo = <<>>
  <2> SUFFICES ASSUME F[N].todo # <<>> PROVE FALSE
    OBVIOUS
  <2>1. PICK B : Advances(w, F[N], D, B)
    BY <1>6, RemovalAdvances
  <2> DEFINE old == Done(w, F[N], D)
             h == Head(F[N].todo)
  <2>2. IsFiniteSet(old) /\ Cardinality(old) = N
    BY <1>6
  <2>3. h \notin old /\ h \in LiveIn(w) \X LiveIn(w)
    BY <2>1 DEF Advances
  <2>4. old \subseteq LiveIn(w) \X LiveIn(w)
    <3>1. D \subseteq LiveIn(w)
      BY <1>6 DEF Underway, Progress, Sound
    <3>2. \A u \in D : Rounds(w, u) \subseteq LiveIn(w) \X LiveIn(w)
      BY <3>1 DEF Rounds, CanPop, Within, TwoEnds
    <3> QED
      BY <3>2 DEF Done, AllRounds
  <2> HIDE DEF old, h
  <2>5. IsFiniteSet(old \cup {h}) /\ Cardinality(old \cup {h}) = N + 1
    <3>1. IsFiniteSet(old \cup {h}) /\ Cardinality(old \cup {h}) = IF h \in old THEN Cardinality(old) ELSE Cardinality(old) + 1
      BY <2>2, FS_AddElement
    <3> QED
      BY <2>2, <2>3, <3>1
  <2>6. Cardinality(old \cup {h}) <= N
    <3>1. old \cup {h} \in SUBSET (LiveIn(w) \X LiveIn(w))
      BY <2>3, <2>4
    <3> QED
      BY <1>2, <3>1, FS_Subset DEF N
  <2> QED
    BY <1>2, <2>5, <2>6
<1>8. RemoveTask(w.before, w.popped) = F[N].sched
  BY <1>1 DEF Steps, N
<1>9. ToSet(<<>>) = {}
  BY DEF ToSet
<1>10. w.popped \in D /\ Progress(w, F[N].sched, {}, D, {})
  BY <1>6, <1>7, <1>9 DEF Underway
<1> QED
  BY <1>8, <1>10

-----------------------------------------------------------------------------
(* What popTask does, all at once.                                         *)
Popped(w, t, D) ==
  /\ t \in Scheds /\ t.threw = "no" /\ t.mTaskIdx = w.before.mTaskIdx
  /\ w.popped \in D /\ D \subseteq LiveIn(w) /\ \A x \in D : x = w.popped \/ x \in w.closures
  /\ Live(t) = LiveIn(w) \ D
  /\ Shut(w, D \ {w.popped}) /\ \A S : Shut(w, S) => D \subseteq {w.popped} \cup S
  /\ \A x \in Live(t) :
       /\ Typ(t, x) = Typ(w.before, x) /\ Downs(t, x) = Downs(w.before, x) /\ NoDup(Closs(t, x))
       /\ Cls(t, x) = Told(w, x) \cup UNION {Told(w, u) : u \in {v \in D : x \in Behind(w, v)}}
       /\ x \notin w.closures => Up(t, x) = WaitsOf(w, x) \ D
       /\ x \in w.closures => Up(t, x) = (WaitsOf(w, x) \ D) \cup Handed(w, D, x)

(* removeTask has removed what it entered, and no more.                    *)
LEMMA RemoveTaskIs ==
  ASSUME NEW w, CanPop(w)
  PROVE  \E D : Popped(w, RemoveTask(w.before, w.popped), D) /\ Queues(w, RemoveTask(w.before, w.popped), D)
<1> DEFINE t == RemoveTask(w.before, w.popped)
<1>1. PICK D : w.popped \in D /\ Progress(w, t, {}, D, {})
  BY RemovalEnds
<1> HIDE DEF t
<1>2. Sound(w, t, {}, D) /\ Lists(w, t, D) /\ Waits(w, t, {}, D) /\ Entered(w, t, D, {}) /\ Queues(w, t, D)
  BY <1>1 DEF Progress
<1>3. Gone(D, {}) = D /\ \A c : ServedTo(D, {}, c) = D
  BY DEF Gone, ServedTo
<1>4. /\ t \in Scheds /\ t.threw = "no" /\ t.mTaskIdx = w.before.mTaskIdx
      /\ D \subseteq LiveIn(w) /\ (\A x \in D : x = w.popped \/ x \in w.closures) /\ Live(t) = LiveIn(w) \ D
  BY <1>2, <1>3 DEF Sound
<1>5. Shut(w, D \ {w.popped})
  <2> SUFFICES ASSUME NEW c \in LiveIn(w) \cap w.closures, Emptying(w, D, c), c \notin D PROVE FALSE
    <3>1. {w.popped} \cup (D \ {w.popped}) = D /\ \A c \in LiveIn(w) \cap w.closures : c # w.popped
      BY <1>1 DEF CanPop
    <3> QED
      BY <3>1 DEF Shut
  <2>1. c \in Live(t) \cap w.closures
    BY <1>4
  <2>2. Up(t, c) = (WaitsOf(w, c) \ D) \cup Handed(w, D, c)
    BY <1>2, <1>3, <2>1 DEF Waits
  <2>3. WaitsOf(w, c) \ D = {} /\ Handed(w, D, c) = {}
    BY DEF Emptying, Handed
  <2> QED
    BY <1>2, <2>1, <2>2, <2>3 DEF Entered
<1>6. \A S : Shut(w, S) => D \subseteq {w.popped} \cup S
  BY <1>2 DEF Entered
<1>7. ASSUME NEW x \in Live(t)
      PROVE  /\ Typ(t, x) = Typ(w.before, x) /\ Downs(t, x) = Downs(w.before, x) /\ NoDup(Closs(t, x))
             /\ Cls(t, x) = Told(w, x) \cup UNION {Told(w, u) : u \in {v \in D : x \in Behind(w, v)}}
             /\ x \notin w.closures => Up(t, x) = WaitsOf(w, x) \ D
             /\ x \in w.closures => Up(t, x) = (WaitsOf(w, x) \ D) \cup Handed(w, D, x)
  BY <1>2, <1>3 DEF Lists, Waits
<1>8. Popped(w, t, D)
  BY <1>1, <1>4, <1>5, <1>6, <1>7 DEF Popped
<1> QED
  BY <1>2, <1>8 DEF t

(* The queue without its head.                                             *)
LEMMA InOrderTail ==
  ASSUME NEW q, NEW birth, q \in Seq(Nat), q # <<>>, InOrder(q, birth)
  PROVE  InOrder(Tail(q), birth)
<1> DEFINE t == Tail(q)
           n == Len(t)
<1>1. /\ t \in Seq(Nat) /\ n \in Nat /\ Len(q) = n + 1
      /\ DOMAIN t = 1 .. n /\ DOMAIN q = 1 .. (n + 1)
      /\ \A i \in 1 .. n : t[i] = q[i + 1]
  BY HeadTailProperties, LenProperties
<1> HIDE DEF n, t
<1>2. \A i \in DOMAIN t : i + 1 \in DOMAIN q /\ t[i] = q[i + 1]
  BY <1>1
<1>3. ASSUME NEW i \in DOMAIN t, NEW j \in DOMAIN t, i < j, birth[t[i]] = birth[t[j]] PROVE t[i] < t[j]
  <2>1. i + 1 < j + 1
    BY <1>1, <1>3
  <2> QED
    BY <1>2, <1>3, <2>1 DEF InOrder
<1> QED
  BY <1>3 DEF InOrder, t

(* The head of a queue is the oldest of its siblings.                      *)
LEMMA HeadComesFirst ==
  ASSUME NEW q, NEW birth, NEW x, q \in Seq(Nat), q # <<>>, InOrder(q, birth),
         x \in ToSet(q), birth[x] = birth[Head(q)]
  PROVE  x = Head(q) \/ Head(q) < x
<1>1. Len(q) \in Nat /\ Len(q) >= 1 /\ DOMAIN q = 1 .. Len(q) /\ Head(q) = q[1]
  BY EmptySeq, LenProperties
<1>2. PICK k \in DOMAIN q : x = q[k]
  BY DEF ToSet
<1>3. 1 \in DOMAIN q /\ (k = 1 \/ 1 < k)
  BY <1>1
<1> QED
  BY <1>1, <1>2, <1>3 DEF InOrder

PoppedQueues(w, t, D) ==
  /\ t.mReady \in Seq(Nat) /\ t.mNextRound \in Seq(Nat)
  /\ ToSet(t.mReady) = (ToSet(w.before.mReady) \ {w.popped}) \cup ReadyBy(w, D)
  /\ ToSet(t.mNextRound) = ToSet(w.before.mNextRound) \cup RoundBy(w, D)
  /\ NoDup(t.mReady) /\ NoDup(t.mNextRound)
  /\ InOrder(t.mReady, w.birth) /\ InOrder(t.mNextRound, w.birth)

(* popTask: a removal, and the head of the queue is dropped.               *)
LEMMA PopTaskIs ==
  ASSUME NEW w, CanPop(w), w.before.mReady # <<>>, w.popped = Head(w.before.mReady),
         NoDup(w.before.mReady), NoDup(w.before.mNextRound),
         InOrder(w.before.mReady, w.birth), InOrder(w.before.mNextRound, w.birth)
  PROVE  \E D : Popped(w, PopTask(w.before), D) /\ PoppedQueues(w, PopTask(w.before), D)
<1> DEFINE r == RemoveTask(w.before, w.popped)
           t == PopTask(w.before)
<1>1. PICK D : Popped(w, r, D) /\ Queues(w, r, D)
  BY RemoveTaskIs
<1>2. t = IF r.threw = "no" THEN [r EXCEPT !.mReady = Tail(@)] ELSE r
  BY DEF PopTask
<1> HIDE DEF r, t
<1>3. r \in Scheds /\ r.threw = "no"
  BY <1>1 DEF Popped
<1>4. /\ r.mReady \in Seq(Nat) /\ ToSet(r.mReady) = ToSet(w.before.mReady) \cup ReadyBy(w, D)
      /\ NoDup(r.mReady) /\ InOrder(r.mReady, w.birth) /\ r.mReady # <<>> /\ Head(r.mReady) = w.popped
  BY <1>1 DEF Queues, Grown
<1>5. /\ r.mNextRound \in Seq(Nat) /\ ToSet(r.mNextRound) = ToSet(w.before.mNextRound) \cup RoundBy(w, D)
      /\ NoDup(r.mNextRound) /\ InOrder(r.mNextRound, w.birth)
  BY <1>1 DEF Queues, Grown
<1>6. Tail(r.mReady) \in Seq(Nat) /\ NoDup(Tail(r.mReady)) /\ ToSet(Tail(r.mReady)) = ToSet(r.mReady) \ {w.popped}
  BY <1>4, TailFacts
<1>7. t = [r EXCEPT !.mReady = Tail(r.mReady)]
  BY <1>2, <1>3
<1>8. /\ t \in Scheds /\ t.threw = r.threw /\ t.mTaskIdx = r.mTaskIdx /\ t.mTasks = r.mTasks
      /\ t.mReady = Tail(r.mReady) /\ t.mNextRound = r.mNextRound
  BY <1>3, <1>6, <1>7 DEF Scheds
<1>9. Live(t) = Live(r) /\ \A x : Typ(t, x) = Typ(r, x) /\ Downs(t, x) = Downs(r, x) /\ Closs(t, x) = Closs(r, x)
                                  /\ Cls(t, x) = Cls(r, x) /\ Up(t, x) = Up(r, x)
  BY <1>8 DEF Live, Typ, Downs, Closs, Cls, Up
<1>10. Popped(w, t, D)
  BY <1>1, <1>8, <1>9 DEF Popped
<1>11. w.popped \notin ReadyBy(w, D)
  BY DEF ReadyBy, FreedBy, CanPop
<1>12. InOrder(Tail(r.mReady), w.birth)
  BY <1>4, InOrderTail
<1>13. PoppedQueues(w, t, D)
  BY <1>4, <1>5, <1>6, <1>8, <1>11, <1>12 DEF PoppedQueues
<1> QED
  BY <1>10, <1>13 DEF t

-----------------------------------------------------------------------------
(* What addTask and addClosure do.                                         *)
LEMMA SetTaskIs ==
  ASSUME NEW s, NEW idx, NEW base, s \in Scheds, idx \in Nat, base \in Bases
  PROVE  LET u == SetTask(s, idx, base) IN
         /\ u \in Scheds /\ u.threw = s.threw /\ u.mTaskIdx = s.mTaskIdx /\ Live(u) = Live(s) \cup {idx}
         /\ u.mReady = s.mReady /\ u.mNextRound = s.mNextRound
         /\ u.mTasks[idx] = base /\ \A x \in Live(s) : x # idx => u.mTasks[x] = s.mTasks[x]
<1> DEFINE u == SetTask(s, idx, base)
           f == [x \in Live(s) \cup {idx} |-> IF x = idx THEN base ELSE s.mTasks[x]]
<1>1. u = [s EXCEPT !.mTasks = f]
  BY DEF SetTask
<1>2. s.mTasks \in [Live(s) -> Bases] /\ Live(s) \subseteq Nat
  BY SchedFacts
<1>3. /\ f \in [Live(s) \cup {idx} -> Bases] /\ f[idx] = base
      /\ \A y \in Live(s) : y # idx => f[y] = s.mTasks[y]
  BY <1>2
<1> HIDE DEF f
<1>4. f \in Tables
  BY <1>2, <1>3 DEF Tables
<1>5. /\ u \in Scheds /\ u.mTasks = f /\ u.mTaskIdx = s.mTaskIdx /\ u.threw = s.threw
      /\ u.mReady = s.mReady /\ u.mNextRound = s.mNextRound
  BY <1>1, <1>4 DEF Scheds
<1> HIDE DEF u
<1>6. Live(u) = Live(s) \cup {idx}
  BY <1>3, <1>5 DEF Live
<1> QED
  BY <1>3, <1>5, <1>6 DEF u

(* The dependencies that are still there have been told of the new index.  *)
TellTask(s, up) ==
  [s EXCEPT !.mTaskIdx = s.mTaskIdx + 1,
            !.mTasks = [x \in Live(s) |-> IF x \in up
              THEN [s.mTasks[x] EXCEPT !.mDownstream = AddOnce(@, s.mTaskIdx)] ELSE s.mTasks[x]]]
TellClosure(s, up) ==
  [s EXCEPT !.mTaskIdx = s.mTaskIdx + 1,
            !.mTasks = [x \in Live(s) |-> IF x \in up
              THEN [s.mTasks[x] EXCEPT !.mClosures = AddOnce(@, s.mTaskIdx)] ELSE s.mTasks[x]]]

(* What addTask does to the dependencies.                                  *)
LEMMA TellTaskIs ==
  ASSUME NEW s, NEW up, s \in Scheds
  PROVE  LET u == TellTask(s, up) IN
         /\ u \in Scheds /\ u.threw = s.threw /\ u.mTaskIdx = s.mTaskIdx + 1 /\ Live(u) = Live(s)
         /\ u.mReady = s.mReady /\ u.mNextRound = s.mNextRound
         /\ \A x \in Live(s) :
              /\ Typ(u, x) = Typ(s, x) /\ Up(u, x) = Up(s, x) /\ Closs(u, x) = Closs(s, x)
              /\ Downs(u, x) = IF x \in up THEN AddOnce(Downs(s, x), s.mTaskIdx) ELSE Downs(s, x)
<1> DEFINE u == TellTask(s, up)
           new(x) == [s.mTasks[x] EXCEPT !.mDownstream = AddOnce(@, s.mTaskIdx)]
           f == [x \in Live(s) |-> IF x \in up THEN new(x) ELSE s.mTasks[x]]
<1>1. u = [s EXCEPT !.mTaskIdx = s.mTaskIdx + 1, !.mTasks = f]
  BY DEF TellTask
<1>2. s.mTasks \in [Live(s) -> Bases] /\ Live(s) \subseteq Nat /\ s.mTaskIdx \in Nat /\ s.mTaskIdx + 1 \in Nat
  BY SchedFacts
<1>3. ASSUME NEW x \in Live(s)
      PROVE  /\ new(x) \in Bases /\ new(x).mType = Typ(s, x) /\ new(x).mUpstream = Up(s, x)
             /\ new(x).mClosures = Closs(s, x) /\ new(x).mDownstream = AddOnce(Downs(s, x), s.mTaskIdx)
  <2>1. s.mTasks[x] \in Bases /\ Downs(s, x) \in Seq(Nat)
    BY SchedFacts
  <2>2. AddOnce(Downs(s, x), s.mTaskIdx) \in Seq(Nat)
    BY <1>2, <2>1, AddOnceFacts
  <2> QED
    BY <2>1, <2>2 DEF Bases, Typ, Up, Downs, Closs
<1> HIDE DEF new
<1>4. f \in [Live(s) -> Bases] /\ \A x \in Live(s) : f[x] = IF x \in up THEN new(x) ELSE s.mTasks[x]
  BY <1>2, <1>3
<1> HIDE DEF f
<1>5. f \in Tables
  BY <1>2, <1>4 DEF Tables
<1>6. /\ u \in Scheds /\ u.mTasks = f /\ u.mTaskIdx = s.mTaskIdx + 1 /\ u.threw = s.threw
      /\ u.mReady = s.mReady /\ u.mNextRound = s.mNextRound
  BY <1>1, <1>2, <1>5 DEF Scheds
<1> HIDE DEF u
<1>7. Live(u) = Live(s)
  BY <1>4, <1>6 DEF Live
<1>8. ASSUME NEW x \in Live(s)
      PROVE  /\ Typ(u, x) = Typ(s, x) /\ Up(u, x) = Up(s, x) /\ Closs(u, x) = Closs(s, x)
             /\ Downs(u, x) = IF x \in up THEN AddOnce(Downs(s, x), s.mTaskIdx) ELSE Downs(s, x)
  BY <1>3, <1>4, <1>6 DEF Typ, Up, Downs, Closs
<1> QED
  BY <1>6, <1>7, <1>8 DEF u

(* What addClosure does to the dependencies.                               *)
LEMMA TellClosureIs ==
  ASSUME NEW s, NEW up, s \in Scheds
  PROVE  LET u == TellClosure(s, up) IN
         /\ u \in Scheds /\ u.threw = s.threw /\ u.mTaskIdx = s.mTaskIdx + 1 /\ Live(u) = Live(s)
         /\ u.mReady = s.mReady /\ u.mNextRound = s.mNextRound
         /\ \A x \in Live(s) :
              /\ Typ(u, x) = Typ(s, x) /\ Up(u, x) = Up(s, x) /\ Downs(u, x) = Downs(s, x)
              /\ Closs(u, x) = IF x \in up THEN AddOnce(Closs(s, x), s.mTaskIdx) ELSE Closs(s, x)
<1> DEFINE u == TellClosure(s, up)
           new(x) == [s.mTasks[x] EXCEPT !.mClosures = AddOnce(@, s.mTaskIdx)]
           f == [x \in Live(s) |-> IF x \in up THEN new(x) ELSE s.mTasks[x]]
<1>1. u = [s EXCEPT !.mTaskIdx = s.mTaskIdx + 1, !.mTasks = f]
  BY DEF TellClosure
<1>2. s.mTasks \in [Live(s) -> Bases] /\ Live(s) \subseteq Nat /\ s.mTaskIdx \in Nat /\ s.mTaskIdx + 1 \in Nat
  BY SchedFacts
<1>3. ASSUME NEW x \in Live(s)
      PROVE  /\ new(x) \in Bases /\ new(x).mType = Typ(s, x) /\ new(x).mUpstream = Up(s, x)
             /\ new(x).mDownstream = Downs(s, x) /\ new(x).mClosures = AddOnce(Closs(s, x), s.mTaskIdx)
  <2>1. s.mTasks[x] \in Bases /\ Closs(s, x) \in Seq(Nat)
    BY SchedFacts
  <2>2. AddOnce(Closs(s, x), s.mTaskIdx) \in Seq(Nat)
    BY <1>2, <2>1, AddOnceFacts
  <2> QED
    BY <2>1, <2>2 DEF Bases, Typ, Up, Downs, Closs
<1> HIDE DEF new
<1>4. f \in [Live(s) -> Bases] /\ \A x \in Live(s) : f[x] = IF x \in up THEN new(x) ELSE s.mTasks[x]
  BY <1>2, <1>3
<1> HIDE DEF f
<1>5. f \in Tables
  BY <1>2, <1>4 DEF Tables
<1>6. /\ u \in Scheds /\ u.mTasks = f /\ u.mTaskIdx = s.mTaskIdx + 1 /\ u.threw = s.threw
      /\ u.mReady = s.mReady /\ u.mNextRound = s.mNextRound
  BY <1>1, <1>2, <1>5 DEF Scheds
<1> HIDE DEF u
<1>7. Live(u) = Live(s)
  BY <1>4, <1>6 DEF Live
<1>8. ASSUME NEW x \in Live(s)
      PROVE  /\ Typ(u, x) = Typ(s, x) /\ Up(u, x) = Up(s, x) /\ Downs(u, x) = Downs(s, x)
             /\ Closs(u, x) = IF x \in up THEN AddOnce(Closs(s, x), s.mTaskIdx) ELSE Closs(s, x)
  BY <1>3, <1>4, <1>6 DEF Typ, Up, Downs, Closs
<1> QED
  BY <1>6, <1>7, <1>8 DEF u

IsType(t) == t \in {"Round", "Continuation"}

IsNew(u, idx, t, up) ==
  Typ(u, idx) = t /\ Up(u, idx) = up /\ Downs(u, idx) = <<>> /\ Closs(u, idx) = <<>>

AddedTask(s, u, t, up) ==
  LET idx == s.mTaskIdx IN
  /\ u \in Scheds /\ u.threw = "no" /\ u.mTaskIdx = idx + 1 /\ Live(u) = Live(s) \cup {idx}
  /\ IsNew(u, idx, t, up)
  /\ \A x \in Live(s) :
       /\ Typ(u, x) = Typ(s, x) /\ Up(u, x) = Up(s, x) /\ Closs(u, x) = Closs(s, x)
       /\ Downs(u, x) = IF x \in up THEN AddOnce(Downs(s, x), idx) ELSE Downs(s, x)
  /\ u.mReady = (IF up = {} THEN Append(s.mReady, idx) ELSE s.mReady)
  /\ u.mNextRound = s.mNextRound

(* A new TaskBase.                                                         *)
LEMMA TaskBaseIs ==
  ASSUME NEW t, NEW up, IsType(t), up \subseteq Nat
  PROVE  /\ TaskBase(t, up) \in Bases
         /\ TaskBase(t, up).mType = t /\ TaskBase(t, up).mUpstream = up
         /\ TaskBase(t, up).mDownstream = <<>> /\ TaskBase(t, up).mClosures = <<>>
<1>1. <<>> \in Seq(Nat)
  OBVIOUS
<1> QED
  BY <1>1 DEF TaskBase, Bases, IsType

(* addTask never throws.                                                   *)
LEMMA AddTaskIs ==
  ASSUME NEW s, NEW t, NEW deps, s \in Scheds, s.threw = "no", s.mTaskIdx \notin Live(s), IsType(t)
  PROVE  AddedTask(s, AddTask(s, t, deps), t, deps \cap Live(s))
<1> DEFINE idx == s.mTaskIdx
           up == deps \cap Live(s)
           r == TellTask(s, up)
           a == SetTask(r, idx, TaskBase(t, up))
           u == AddTask(s, t, deps)
<1>1. u = IF up = {} THEN Enqueue(a, "mReady", idx) ELSE a
  BY DEF AddTask, TellTask
<1>2. /\ r \in Scheds /\ r.threw = "no" /\ r.mTaskIdx = idx + 1 /\ Live(r) = Live(s)
      /\ r.mReady = s.mReady /\ r.mNextRound = s.mNextRound
      /\ \A x \in Live(s) :
           /\ Typ(r, x) = Typ(s, x) /\ Up(r, x) = Up(s, x) /\ Closs(r, x) = Closs(s, x)
           /\ Downs(r, x) = IF x \in up THEN AddOnce(Downs(s, x), idx) ELSE Downs(s, x)
  BY TellTaskIs
<1>3. up \subseteq Nat /\ idx \in Nat /\ s.mReady \in Seq(Nat)
  BY SchedFacts
<1> HIDE DEF r, up, u
<1>4. /\ TaskBase(t, up) \in Bases
      /\ TaskBase(t, up).mType = t /\ TaskBase(t, up).mUpstream = up
      /\ TaskBase(t, up).mDownstream = <<>> /\ TaskBase(t, up).mClosures = <<>>
  BY <1>3, TaskBaseIs
<1>5. /\ a \in Scheds /\ a.threw = "no" /\ a.mTaskIdx = idx + 1 /\ Live(a) = Live(s) \cup {idx}
      /\ a.mReady = s.mReady /\ a.mNextRound = s.mNextRound
      /\ a.mTasks[idx] = TaskBase(t, up) /\ \A x \in Live(s) : x # idx => a.mTasks[x] = r.mTasks[x]
  BY <1>2, <1>3, <1>4, SetTaskIs
<1> HIDE DEF a
<1>6. IsNew(a, idx, t, up)
  BY <1>4, <1>5 DEF IsNew, Typ, Up, Downs, Closs
<1>7. \A x \in Live(s) :
           /\ Typ(a, x) = Typ(s, x) /\ Up(a, x) = Up(s, x) /\ Closs(a, x) = Closs(s, x)
           /\ Downs(a, x) = IF x \in up THEN AddOnce(Downs(s, x), idx) ELSE Downs(s, x)
  <2> SUFFICES ASSUME NEW x \in Live(s)
               PROVE  Typ(a, x) = Typ(r, x) /\ Up(a, x) = Up(r, x) /\ Closs(a, x) = Closs(r, x) /\ Downs(a, x) = Downs(r, x)
    BY <1>2
  <2> QED
    BY <1>5 DEF Typ, Up, Downs, Closs
<1>8. CASE up # {}
  <2>1. u = a
    BY <1>1, <1>8
  <2> QED
    BY <1>5, <1>6, <1>7, <1>8, <2>1 DEF AddedTask, u, up
<1>9. CASE up = {}
  <2>1. u = [a EXCEPT !["mReady"] = Append(@, idx)]
    BY <1>1, <1>5, <1>6, <1>9 DEF Enqueue, IsNew, Up
  <2>2. Append(s.mReady, idx) \in Seq(Nat)
    BY <1>3, AppendFacts
  <2>3. /\ u \in Scheds /\ u.threw = a.threw /\ u.mTaskIdx = a.mTaskIdx /\ u.mTasks = a.mTasks
        /\ u.mNextRound = a.mNextRound /\ u.mReady = Append(s.mReady, idx)
    BY <1>5, <2>1, <2>2 DEF Scheds
  <2>4. Live(u) = Live(a) /\ \A x : Typ(u, x) = Typ(a, x) /\ Downs(u, x) = Downs(a, x)
                                    /\ Closs(u, x) = Closs(a, x) /\ Up(u, x) = Up(a, x)
    BY <2>3 DEF Live, Typ, Downs, Closs, Up
  <2>5. IsNew(u, idx, t, up)
    BY <1>6, <2>4 DEF IsNew
  <2> QED
    BY <1>5, <1>7, <1>9, <2>3, <2>4, <2>5 DEF AddedTask, u, up
<1> QED
  BY <1>8, <1>9

AddedClosure(s, u, up) ==
  LET idx == s.mTaskIdx IN
  /\ u \in Scheds /\ u.threw = "no" /\ u.mTaskIdx = idx + 1
  /\ Live(u) = (IF up = {} THEN Live(s) ELSE Live(s) \cup {idx})
  /\ up # {} => IsNew(u, idx, "Continuation", up)
  /\ \A x \in Live(s) :
       /\ Typ(u, x) = Typ(s, x) /\ Up(u, x) = Up(s, x) /\ Downs(u, x) = Downs(s, x)
       /\ Closs(u, x) = IF x \in up THEN AddOnce(Closs(s, x), idx) ELSE Closs(s, x)
  /\ u.mReady = s.mReady /\ u.mNextRound = s.mNextRound

(* addClosure never throws.                                                *)
LEMMA AddClosureIs ==
  ASSUME NEW s, NEW deps, s \in Scheds, s.threw = "no", s.mTaskIdx \notin Live(s)
  PROVE  AddedClosure(s, AddClosure(s, deps), deps \cap Live(s))
<1> DEFINE idx == s.mTaskIdx
           up == deps \cap Live(s)
           r == TellClosure(s, up)
           a == SetTask(r, idx, TaskBase("Continuation", up))
           u == AddClosure(s, deps)
<1>1. u = IF up = {} THEN r ELSE a
  BY DEF AddClosure, TellClosure
<1>2. /\ r \in Scheds /\ r.threw = "no" /\ r.mTaskIdx = idx + 1 /\ Live(r) = Live(s)
      /\ r.mReady = s.mReady /\ r.mNextRound = s.mNextRound
      /\ \A x \in Live(s) :
           /\ Typ(r, x) = Typ(s, x) /\ Up(r, x) = Up(s, x) /\ Downs(r, x) = Downs(s, x)
           /\ Closs(r, x) = IF x \in up THEN AddOnce(Closs(s, x), idx) ELSE Closs(s, x)
  BY TellClosureIs
<1>3. up \subseteq Nat /\ idx \in Nat /\ IsType("Continuation")
  BY SchedFacts DEF IsType
<1> HIDE DEF r, up, u
<1>4. /\ TaskBase("Continuation", up) \in Bases
      /\ TaskBase("Continuation", up).mType = "Continuation" /\ TaskBase("Continuation", up).mUpstream = up
      /\ TaskBase("Continuation", up).mDownstream = <<>> /\ TaskBase("Continuation", up).mClosures = <<>>
  BY <1>3, TaskBaseIs
<1>5. /\ a \in Scheds /\ a.threw = "no" /\ a.mTaskIdx = idx + 1 /\ Live(a) = Live(s) \cup {idx}
      /\ a.mReady = s.mReady /\ a.mNextRound = s.mNextRound
      /\ a.mTasks[idx] = TaskBase("Continuation", up) /\ \A x \in Live(s) : x # idx => a.mTasks[x] = r.mTasks[x]
  BY <1>2, <1>3, <1>4, SetTaskIs
<1> HIDE DEF a
<1>6. IsNew(a, idx, "Continuation", up)
  BY <1>4, <1>5 DEF IsNew, Typ, Up, Downs, Closs
<1>7. \A x \in Live(s) :
           /\ Typ(a, x) = Typ(s, x) /\ Up(a, x) = Up(s, x) /\ Downs(a, x) = Downs(s, x)
           /\ Closs(a, x) = IF x \in up THEN AddOnce(Closs(s, x), idx) ELSE Closs(s, x)
  <2> SUFFICES ASSUME NEW x \in Live(s)
               PROVE  Typ(a, x) = Typ(r, x) /\ Up(a, x) = Up(r, x) /\ Closs(a, x) = Closs(r, x) /\ Downs(a, x) = Downs(r, x)
    BY <1>2
  <2> QED
    BY <1>5 DEF Typ, Up, Downs, Closs
<1>8. CASE up # {}
  <2>1. u = a
    BY <1>1, <1>8
  <2> QED
    BY <1>5, <1>6, <1>7, <1>8, <2>1 DEF AddedClosure, u, up
<1>9. CASE up = {}
  <2>1. u = r
    BY <1>1, <1>9
  <2> QED
    BY <1>2, <1>9, <2>1 DEF AddedClosure, u, up
<1> QED
  BY <1>8, <1>9

(* currentTask, when the round is exhausted: the queues change places, and *)
(* it throws when there is no next round either.                           *)
Exchanged(s, u) ==
  /\ u \in Scheds /\ u.mTaskIdx = s.mTaskIdx /\ u.mTasks = s.mTasks
  /\ u.mReady = s.mNextRound /\ u.mNextRound = s.mReady
  /\ u.threw = IF s.mNextRound = <<>> THEN "currentTask" ELSE "no"

(* It throws only in that case.                                            *)
LEMMA CurrentTaskIs ==
  ASSUME NEW s, s \in Scheds, s.threw = "no", s.mReady = <<>>
  PROVE  Exchanged(s, CurrentTask(s))
<1> DEFINE t == [s EXCEPT !.mReady = s.mNextRound, !.mNextRound = s.mReady]
           u == CurrentTask(s)
<1>1. u = IF t.mReady = <<>> THEN Throw(t, "currentTask") ELSE t
  BY DEF CurrentTask
<1>2. s.mReady \in Seq(Nat) /\ s.mNextRound \in Seq(Nat)
  BY SchedFacts
<1>3. /\ t \in Scheds /\ t.mTaskIdx = s.mTaskIdx /\ t.mTasks = s.mTasks /\ t.threw = "no"
      /\ t.mReady = s.mNextRound /\ t.mNextRound = s.mReady
  BY <1>2 DEF Scheds
<1> HIDE DEF t, u
<1>4. CASE s.mNextRound = <<>>
  <2>1. u = [t EXCEPT !.threw = "currentTask"]
    BY <1>1, <1>3, <1>4 DEF Throw
  <2>2. "currentTask" \in Throws
    BY DEF Throws
  <2>3. /\ u \in Scheds /\ u.threw = "currentTask" /\ u.mTaskIdx = t.mTaskIdx /\ u.mTasks = t.mTasks
        /\ u.mReady = t.mReady /\ u.mNextRound = t.mNextRound
    BY <1>3, <2>1, <2>2 DEF Scheds
  <2> QED
    BY <1>3, <1>4, <2>3 DEF Exchanged, u
<1>5. CASE s.mNextRound # <<>>
  BY <1>1, <1>3, <1>5 DEF Exchanged, u
<1> QED
  BY <1>4, <1>5

-----------------------------------------------------------------------------
(* The graph of the refinement mapping, with the theorems about it.        *)
GP == INSTANCE TaskGraphProofs WITH
        mTaskIdx <- sched.mTaskIdx,
        live <- Live(sched),
        mType <- bornType,
        mUpstream <- Upstream,
        mDownstream <- Listed("mDownstream"),
        mClosures <- Listed("mClosures"),
        mReady <- ToSet(sched.mReady),
        mNextRound <- ToSet(sched.mNextRound)

(* The graph that is proved about is the graph that is implemented.        *)
LEMMA GraphNext == [G!Next]_(G!vars) => [GP!Next]_(GP!vars)
<1>1. G!Next => GP!Next
  BY Zenon DEF G!Next, GP!Next, G!AddTask, GP!AddTask,  G!AddClosure, GP!AddClosure, G!CurrentTask, GP!CurrentTask,
     G!PopTask, GP!PopTask, G!Types, GP!Types, G!Issued, GP!Issued, G!Idx, GP!Idx, G!NextIdx, GP!NextIdx,
     G!Acyclic, GP!Acyclic, G!Reach, GP!Reach, G!ReachClosed, GP!ReachClosed, G!WaitsFor, GP!WaitsFor,
     G!Tasks, GP!Tasks, G!Removed, GP!Removed, G!Cascade, GP!Cascade, G!CascadeClosed, GP!CascadeClosed,
     G!Emptied, GP!Emptied, G!Released, GP!Released, G!TakenOver, GP!TakenOver
<1>2. UNCHANGED G!vars => UNCHANGED GP!vars
  BY DEF G!vars, GP!vars
<1> QED
  BY <1>1, <1>2

(* So its invariant is kept by the steps of that one,                      *)
LEMMA GraphStays == GP!GraphInv /\ [G!Next]_(G!vars) => GP!GraphInv'
  BY MaxTaskAssumption, GraphNext, GP!GraphStep

(* and holds initially.                                                    *)
LEMMA GraphStarts == G!Init => GP!GraphInv
<1>1. G!Init => GP!Init
  BY Zenon DEF G!Init, GP!Init, G!Nothing, GP!Nothing, G!Idx, GP!Idx
<1> QED
  BY <1>1, MaxTaskAssumption, GP!GraphInit

(* What the mapping reads off the scheduler.                               *)
Reads(s, x, up, down, cls) ==
  /\ up = IF x \in Live(s) THEN Up(s, x) ELSE {}
  /\ down = IF x \in Live(s) THEN Down(s, x) ELSE {}
  /\ cls = IF x \in Live(s) THEN Cls(s, x) ELSE {}

(* The mapping in a state, and in the next one.                            *)
LEMMA MapIs ==
  ASSUME NEW x \in Idx
  PROVE  Reads(sched, x, Upstream[x], Listed("mDownstream")[x], Listed("mClosures")[x])
  BY DEF Reads, Upstream, Listed, Up, Down, Cls, Downs, Closs

(* The same of the next state.                                             *)
LEMMA MapIsNext ==
  ASSUME NEW x \in Idx
  PROVE  Reads(sched', x, Upstream'[x], Listed("mDownstream")'[x], Listed("mClosures")'[x])
  BY DEF Reads, Upstream, Listed, Up, Down, Cls, Downs, Closs

(* The mapped lists have a value for every index.                          *)
LEMMA MapDomains ==
  /\ Upstream = [x \in Idx |-> Upstream[x]] /\ Upstream' = [x \in Idx |-> Upstream'[x]]
  /\ Listed("mDownstream") = [x \in Idx |-> Listed("mDownstream")[x]]
  /\ Listed("mDownstream")' = [x \in Idx |-> Listed("mDownstream")'[x]]
  /\ Listed("mClosures") = [x \in Idx |-> Listed("mClosures")[x]]
  /\ Listed("mClosures")' = [x \in Idx |-> Listed("mClosures")'[x]]
  BY DEF Upstream, Listed

(* What the invariant of the graph says of the scheduler.                  *)
GraphOf(s, cs, type, birth) ==
  LET issued == 0 .. (s.mTaskIdx - 1)
      tasks == Live(s) \ cs
  IN /\ s.mTaskIdx \in 0 .. MaxTask /\ Live(s) \subseteq issued /\ cs \subseteq issued /\ issued \subseteq Idx
     /\ type \in [Idx -> {"Round", "Continuation"}] /\ birth \in [Idx -> SUBSET Idx]
     /\ \A x \in Live(s) : Up(s, x) \subseteq Live(s) /\ Down(s, x) \subseteq Live(s) /\ Cls(s, x) \subseteq Live(s)
     /\ \A u, x \in Live(s) : /\ x \in Down(s, u) <=> x \notin cs /\ u \in Up(s, x)
                              /\ x \in Cls(s, u) <=> x \in cs /\ u \in Up(s, x)
     /\ \A x \in tasks : Up(s, x) = birth[x] \cap Live(s)
     /\ \A x \in Idx : birth[x] \subseteq issued
     /\ ToSet(s.mReady) \cap ToSet(s.mNextRound) = {}
     /\ ToSet(s.mReady) \cup ToSet(s.mNextRound) = {x \in tasks : Up(s, x) = {}}
     /\ \A c \in Live(s) \cap cs : Up(s, c) # {}

(* The invariant, read through the mapping.                                *)
LEMMA GraphSays == GP!GraphInv => GraphOf(sched, closures, bornType, upAtBirth)
<1> SUFFICES ASSUME GP!GraphInv PROVE GraphOf(sched, closures, bornType, upAtBirth)
  OBVIOUS
<1> DEFINE up == Upstream
           down == Listed("mDownstream")
           cls == Listed("mClosures")
<1>1. /\ sched.mTaskIdx \in 0 .. MaxTask /\ Live(sched) \subseteq Issued /\ closures \subseteq Issued
      /\ bornType \in [Idx -> {"Round", "Continuation"}] /\ upAtBirth \in [Idx -> SUBSET Idx]
      /\ up \in [Idx -> SUBSET Idx] /\ down \in [Idx -> SUBSET Idx] /\ cls \in [Idx -> SUBSET Idx]
  BY DEF GP!GraphInv, GP!TypeOK, GP!Idx, GP!Issued, GP!Types, Idx, Issued
<1>2. /\ \A u, x \in Idx : /\ x \in down[u] <=> x \notin closures /\ u \in up[x]
                           /\ x \in cls[u] <=> x \in closures /\ u \in up[x]
                           /\ u \in up[x] => u \in Live(sched) /\ x \in Live(sched)
      /\ \A x \in Live(sched) \ closures : up[x] = upAtBirth[x] \cap Live(sched)
  BY DEF GP!GraphInv, GP!EdgesAgree, GP!Idx, Idx
<1>3. /\ ToSet(sched.mReady) \cap ToSet(sched.mNextRound) = {}
      /\ ToSet(sched.mReady) \cup ToSet(sched.mNextRound) = {x \in Live(sched) \ closures : up[x] = {}}
      /\ \A c \in Live(sched) \cap closures : up[c] # {}
  BY DEF GP!GraphInv, GP!NothingLost
<1>4. \A x \in Idx : upAtBirth[x] \subseteq Issued
  BY DEF GP!GraphInv, GP!HistoryKept, GP!Idx, Idx, GP!Issued, Issued
<1>5. Issued \subseteq Idx
  BY <1>1, MaxTaskAssumption DEF Issued, Idx
<1>6. \A x \in Live(sched) : x \in Idx /\ up[x] = Up(sched, x) /\ down[x] = Down(sched, x) /\ cls[x] = Cls(sched, x)
  BY <1>1, <1>5, MapIs DEF Reads
<1> HIDE DEF up, down, cls
<1>7. ASSUME NEW x \in Live(sched)
      PROVE  Up(sched, x) \subseteq Live(sched) /\ Down(sched, x) \subseteq Live(sched) /\ Cls(sched, x) \subseteq Live(sched)
  BY <1>1, <1>2, <1>6
<1>8. \A u, x \in Live(sched) : /\ x \in Down(sched, u) <=> x \notin closures /\ u \in Up(sched, x)
                                /\ x \in Cls(sched, u) <=> x \in closures /\ u \in Up(sched, x)
  BY <1>2, <1>6
<1>9. \A x \in Live(sched) \ closures : Up(sched, x) = upAtBirth[x] \cap Live(sched)
  BY <1>2, <1>6
<1>10. /\ ToSet(sched.mReady) \cup ToSet(sched.mNextRound) = {x \in Live(sched) \ closures : Up(sched, x) = {}}
       /\ \A c \in Live(sched) \cap closures : Up(sched, c) # {}
  BY <1>3, <1>6
<1> QED
  BY <1>1, <1>3, <1>4, <1>5, <1>7, <1>8, <1>9, <1>10 DEF GraphOf, Issued

-----------------------------------------------------------------------------
(* What holds of the order of the lists and of the queues.                 *)
ListsOk(s, type) ==
  \A x \in Live(s) : /\ Increasing(Downs(s, x)) /\ NoDup(Closs(s, x))
                     /\ x \notin Up(s, x) /\ Typ(s, x) = type[x]

QueuesOk(s, birth) ==
  /\ NoDup(s.mReady) /\ NoDup(s.mNextRound)
  /\ InOrder(s.mReady, birth) /\ InOrder(s.mNextRound, birth)

Siblings(s, cs, type, birth, x, y) ==
  /\ x \in (0 .. (s.mTaskIdx - 1)) \ cs /\ y \in (0 .. (s.mTaskIdx - 1)) \ cs
  /\ x < y /\ type[x] = type[y] /\ birth[x] = birth[y]

(* Of two siblings the older one is never behind.                          *)
OlderFirst(s, x, y) ==
  /\ y \notin Live(s) => x \notin Live(s)
  /\ y \in ToSet(s.mReady) => x \in ToSet(s.mReady) \/ x \notin Live(s)
  /\ y \in ToSet(s.mNextRound) => x \in ToSet(s.mNextRound) \/ x \notin Live(s)

SiblingsOk(s, cs, type, birth) ==
  /\ \A x \in ToSet(s.mNextRound) : birth[x] # {}
  /\ \A x, y : Siblings(s, cs, type, birth, x, y) => OlderFirst(s, x, y)

Orderly(s, cs, type, birth) ==
  /\ s \in Scheds /\ s.threw \in {"no", "currentTask"}
  /\ ListsOk(s, type) /\ QueuesOk(s, birth) /\ SiblingsOk(s, cs, type, birth)

(* The order of a queue depends on its own tasks only.                     *)
LEMMA InOrderSame ==
  ASSUME NEW q, NEW b, NEW d, InOrder(q, b), \A y \in ToSet(q) : d[y] = b[y]
  PROVE  InOrder(q, d)
<1>1. \A n \in DOMAIN q : d[q[n]] = b[q[n]]
  BY DEF ToSet
<1> QED
  BY <1>1 DEF InOrder

(* A new index goes to the end of an increasing list.                      *)
LEMMA IncreasingOnce ==
  ASSUME NEW q, NEW x, q \in Seq(Nat), x \in Nat, Increasing(q), \A y \in ToSet(q) : y < x
  PROVE  Increasing(AddOnce(q, x))
<1>1. x \notin ToSet(q)
  OBVIOUS
<1>2. AddOnce(q, x) = Append(q, x)
  BY <1>1 DEF AddOnce, Contains, ToSet
<1> QED
  BY <1>2, AppendFacts

(* The index that is issued next is behind all others.                     *)
LEMMA NextIsNew ==
  ASSUME NEW s, NEW cs, NEW type, NEW birth, GraphOf(s, cs, type, birth), s.mTaskIdx < MaxTask
  PROVE  LET n == s.mTaskIdx IN
         /\ n \in Nat /\ n \in Idx /\ n \notin Live(s) /\ n \notin cs /\ \A x \in Live(s) : x \in Idx /\ x < n
         /\ \A x \in ToSet(s.mReady) \cup ToSet(s.mNextRound) : x \in Live(s) /\ x \in Nat /\ x < n
         /\ \A x \in Live(s) : \A y \in Up(s, x) \cup Down(s, x) \cup Cls(s, x) : y \in Nat /\ y < n
<1>1. /\ s.mTaskIdx \in 0 .. MaxTask /\ Live(s) \subseteq 0 .. (s.mTaskIdx - 1) /\ cs \subseteq 0 .. (s.mTaskIdx - 1)
      /\ \A x \in Live(s) : Up(s, x) \subseteq Live(s) /\ Down(s, x) \subseteq Live(s) /\ Cls(s, x) \subseteq Live(s)
      /\ ToSet(s.mReady) \cup ToSet(s.mNextRound) \subseteq Live(s)
  BY DEF GraphOf
<1>2. \A x \in 0 .. (s.mTaskIdx - 1) : x \in Nat /\ x < s.mTaskIdx /\ x \in Idx
  BY <1>1, MaxTaskAssumption DEF Idx
<1>3. s.mTaskIdx \in Nat /\ s.mTaskIdx \in Idx /\ s.mTaskIdx \notin 0 .. (s.mTaskIdx - 1)
  BY <1>1, MaxTaskAssumption DEF Idx
<1> QED
  BY <1>1, <1>2, <1>3

(* addTask.                                                                *)
LEMMA AddKeepsOrder ==
  ASSUME NEW s, NEW cs, NEW type, NEW birth, NEW u, NEW t, NEW up,
         GraphOf(s, cs, type, birth), Orderly(s, cs, type, birth), s.mTaskIdx < MaxTask,
         AddedTask(s, u, t, up), up \subseteq Live(s), IsType(t)
  PROVE  Orderly(u, cs, [type EXCEPT ![s.mTaskIdx] = t], [birth EXCEPT ![s.mTaskIdx] = up])
<1> DEFINE n == s.mTaskIdx
           type2 == [type EXCEPT ![n] = t]
           birth2 == [birth EXCEPT ![n] = up]
<1>1. /\ n \in Nat /\ n \in Idx /\ n \notin Live(s) /\ n \notin cs /\ \A x \in Live(s) : x \in Idx /\ x < n
      /\ \A x \in ToSet(s.mReady) \cup ToSet(s.mNextRound) : x \in Live(s) /\ x \in Nat /\ x < n
      /\ \A x \in Live(s) : \A y \in Up(s, x) \cup Down(s, x) \cup Cls(s, x) : y \in Nat /\ y < n
  BY NextIsNew
<1>2. type \in [Idx -> {"Round", "Continuation"}] /\ birth \in [Idx -> SUBSET Idx] /\ 0 .. (n - 1) \subseteq Idx
  BY DEF GraphOf
<1>3. /\ type2[n] = t /\ birth2[n] = up
      /\ \A x \in Idx : x # n => type2[x] = type[x] /\ birth2[x] = birth[x]
  BY <1>1, <1>2
<1> HIDE DEF type2, birth2
<1>4. /\ u \in Scheds /\ u.threw = "no" /\ u.mTaskIdx = n + 1 /\ Live(u) = Live(s) \cup {n}
      /\ IsNew(u, n, t, up)
      /\ \A x \in Live(s) :
           /\ Typ(u, x) = Typ(s, x) /\ Up(u, x) = Up(s, x) /\ Closs(u, x) = Closs(s, x)
           /\ Downs(u, x) = IF x \in up THEN AddOnce(Downs(s, x), n) ELSE Downs(s, x)
      /\ u.mReady = (IF up = {} THEN Append(s.mReady, n) ELSE s.mReady)
      /\ u.mNextRound = s.mNextRound
  BY DEF AddedTask
<1>5. /\ s \in Scheds /\ ListsOk(s, type) /\ QueuesOk(s, birth) /\ SiblingsOk(s, cs, type, birth)
      /\ s.mReady \in Seq(Nat) /\ \A x \in Live(s) : Downs(s, x) \in Seq(Nat)
  BY SchedFacts DEF Orderly
<1> HIDE DEF n
<1>6. ASSUME NEW x \in Live(u)
      PROVE  Increasing(Downs(u, x)) /\ NoDup(Closs(u, x)) /\ x \notin Up(u, x) /\ Typ(u, x) = type2[x]
  <2>1. CASE x = n
    <3>1. Increasing(<<>>) /\ NoDup(<<>>)
      BY DEF Increasing, NoDup
    <3> QED
      BY <1>1, <1>3, <1>4, <2>1, <3>1 DEF IsNew
  <2>2. CASE x \in Live(s)
    <3>1. /\ Increasing(Downs(s, x)) /\ NoDup(Closs(s, x)) /\ x \notin Up(s, x) /\ Typ(s, x) = type[x]
      BY <1>5, <2>2 DEF ListsOk
    <3>2. Increasing(AddOnce(Downs(s, x), n))
      <4>1. \A y \in ToSet(Downs(s, x)) : y < n
        BY <1>1, <2>2 DEF Down
      <4> QED
        BY <1>1, <1>5, <2>2, <3>1, <4>1, IncreasingOnce
    <3>3. type2[x] = type[x]
      BY <1>1, <1>3, <2>2
    <3> QED
      BY <1>4, <2>2, <3>1, <3>2, <3>3
  <2> QED
    BY <1>4, <2>1, <2>2
<1>7. QueuesOk(u, birth2)
  <2>1. NoDup(s.mReady) /\ NoDup(s.mNextRound) /\ InOrder(s.mReady, birth2) /\ InOrder(s.mNextRound, birth2)
    <3>1. \A x \in ToSet(s.mReady) \cup ToSet(s.mNextRound) : birth2[x] = birth[x]
      BY <1>1, <1>3
    <3> QED
      BY <1>5, <3>1, InOrderSame DEF QueuesOk
  <2>2. NoDup(Append(s.mReady, n))
    <3>1. n \notin ToSet(s.mReady)
      BY <1>1
    <3> QED
      BY <1>1, <1>5, <2>1, <3>1, AppendFacts
  <2>3. InOrder(Append(s.mReady, n), birth2)
    BY <1>1, <1>5, <2>1, InOrderAppend
  <2> QED
    BY <1>4, <2>1, <2>2, <2>3 DEF QueuesOk
<1>8. /\ ToSet(u.mNextRound) = ToSet(s.mNextRound)
      /\ ToSet(u.mReady) = IF up = {} THEN ToSet(s.mReady) \cup {n} ELSE ToSet(s.mReady)
  BY <1>1, <1>4, <1>5, AppendFacts
<1>9. \A x \in ToSet(u.mNextRound) : birth2[x] # {}
  BY <1>1, <1>3, <1>5, <1>8 DEF SiblingsOk
<1>10. ASSUME NEW x, NEW y, Siblings(u, cs, type2, birth2, x, y)
       PROVE  OlderFirst(u, x, y)
  <2>1. /\ x \in 0 .. n /\ y \in 0 .. n /\ x \notin cs /\ y \notin cs
        /\ x < y /\ type2[x] = type2[y] /\ birth2[x] = birth2[y]
    BY <1>1, <1>4, <1>10 DEF Siblings
  <2>2. x \in 0 .. (n - 1) /\ x # n /\ x \in Idx
    BY <1>1, <1>2, <2>1
  <2>3. CASE y = n
    <3>1. birth[x] = up /\ type[x] = t
      BY <1>3, <2>1, <2>2, <2>3
    <3>2. CASE x \in Live(s) /\ up = {}
      <4>1. Up(s, x) = {}
        BY <2>1, <3>1, <3>2 DEF GraphOf
      <4>2. x \in ToSet(s.mReady) \cup ToSet(s.mNextRound)
        BY <2>1, <3>2, <4>1 DEF GraphOf
      <4>3. x \notin ToSet(s.mNextRound)
        BY <1>5, <3>1, <3>2 DEF SiblingsOk
      <4> QED
        BY <1>1, <1>4, <1>8, <2>2, <2>3, <3>2, <4>2, <4>3 DEF OlderFirst
    <3>3. CASE x \notin Live(s)
      BY <1>4, <2>2, <3>3 DEF OlderFirst
    <3>4. CASE up # {}
      BY <1>1, <1>4, <1>8, <2>3, <3>4 DEF OlderFirst
    <3> QED
      BY <3>2, <3>3, <3>4
  <2>4. CASE y # n
    <3>1. y \in 0 .. (n - 1) /\ y \in Idx
      BY <1>1, <1>2, <2>1, <2>4
    <3>2. Siblings(s, cs, type, birth, x, y)
      BY <1>3, <2>1, <2>2, <2>4, <3>1 DEF Siblings, n
    <3>3. OlderFirst(s, x, y)
      BY <1>5, <3>2 DEF SiblingsOk
    <3> QED
      BY <1>4, <1>8, <2>2, <2>4, <3>3 DEF OlderFirst
  <2> QED
    BY <2>3, <2>4
<1> QED
  BY <1>4, <1>6, <1>7, <1>9, <1>10 DEF Orderly, ListsOk, SiblingsOk, n, type2, birth2

(* addClosure.                                                             *)
LEMMA CloseKeepsOrder ==
  ASSUME NEW s, NEW cs, NEW type, NEW birth, NEW u, NEW up,
         GraphOf(s, cs, type, birth), Orderly(s, cs, type, birth), s.mTaskIdx < MaxTask,
         AddedClosure(s, u, up), up \subseteq Live(s)
  PROVE  Orderly(u, cs \cup {s.mTaskIdx}, [type EXCEPT ![s.mTaskIdx] = "Continuation"],
                 [birth EXCEPT ![s.mTaskIdx] = up])
<1> DEFINE n == s.mTaskIdx
           type2 == [type EXCEPT ![n] = "Continuation"]
           birth2 == [birth EXCEPT ![n] = up]
           cs2 == cs \cup {n}
<1>1. /\ n \in Nat /\ n \in Idx /\ n \notin Live(s) /\ n \notin cs /\ \A x \in Live(s) : x \in Idx /\ x < n
      /\ \A x \in ToSet(s.mReady) \cup ToSet(s.mNextRound) : x \in Live(s) /\ x \in Nat /\ x < n
      /\ \A x \in Live(s) : \A y \in Up(s, x) \cup Down(s, x) \cup Cls(s, x) : y \in Nat /\ y < n
  BY NextIsNew
<1>2. type \in [Idx -> {"Round", "Continuation"}] /\ birth \in [Idx -> SUBSET Idx] /\ 0 .. (n - 1) \subseteq Idx
  BY DEF GraphOf
<1>3. /\ type2[n] = "Continuation" /\ birth2[n] = up
      /\ \A x \in Idx : x # n => type2[x] = type[x] /\ birth2[x] = birth[x]
  BY <1>1, <1>2
<1> HIDE DEF type2, birth2
<1>4. /\ u \in Scheds /\ u.threw = "no" /\ u.mTaskIdx = n + 1
      /\ Live(u) \subseteq Live(s) \cup {n} /\ Live(s) \subseteq Live(u)
      /\ n \in Live(u) => IsNew(u, n, "Continuation", up)
      /\ \A x \in Live(s) :
           /\ Typ(u, x) = Typ(s, x) /\ Up(u, x) = Up(s, x) /\ Downs(u, x) = Downs(s, x)
           /\ Closs(u, x) = IF x \in up THEN AddOnce(Closs(s, x), n) ELSE Closs(s, x)
      /\ u.mReady = s.mReady /\ u.mNextRound = s.mNextRound
  BY <1>1 DEF AddedClosure
<1>5. /\ s \in Scheds /\ ListsOk(s, type) /\ QueuesOk(s, birth) /\ SiblingsOk(s, cs, type, birth)
      /\ \A x \in Live(s) : Closs(s, x) \in Seq(Nat)
  BY SchedFacts DEF Orderly
<1> HIDE DEF n
<1>6. ASSUME NEW x \in Live(u)
      PROVE  Increasing(Downs(u, x)) /\ NoDup(Closs(u, x)) /\ x \notin Up(u, x) /\ Typ(u, x) = type2[x]
  <2>1. CASE x = n
    <3>1. Increasing(<<>>) /\ NoDup(<<>>)
      BY DEF Increasing, NoDup
    <3>2. n \notin up
      BY <1>1
    <3> QED
      BY <1>3, <1>4, <2>1, <3>1, <3>2 DEF IsNew
  <2>2. CASE x \in Live(s)
    <3>1. /\ Increasing(Downs(s, x)) /\ NoDup(Closs(s, x)) /\ x \notin Up(s, x) /\ Typ(s, x) = type[x]
      BY <1>5, <2>2 DEF ListsOk
    <3>2. NoDup(AddOnce(Closs(s, x), n))
      BY <1>1, <1>5, <2>2, <3>1, AddOnceFacts
    <3>3. type2[x] = type[x]
      BY <1>1, <1>3, <2>2
    <3> QED
      BY <1>4, <2>2, <3>1, <3>2, <3>3
  <2> QED
    BY <1>4, <2>1, <2>2
<1>7. QueuesOk(u, birth2)
  <2>1. \A x \in ToSet(s.mReady) \cup ToSet(s.mNextRound) : birth2[x] = birth[x]
    BY <1>1, <1>3
  <2>2. InOrder(s.mReady, birth2) /\ InOrder(s.mNextRound, birth2)
    BY <1>5, <2>1, InOrderSame DEF QueuesOk
  <2> QED
    BY <1>4, <1>5, <2>2 DEF QueuesOk
<1>8. \A x \in ToSet(u.mNextRound) : birth2[x] # {}
  BY <1>1, <1>3, <1>4, <1>5 DEF SiblingsOk
<1>9. ASSUME NEW x, NEW y, Siblings(u, cs2, type2, birth2, x, y)
      PROVE  OlderFirst(u, x, y)
  <2>1. /\ x \in 0 .. n /\ y \in 0 .. n /\ x \notin cs /\ y \notin cs /\ x # n /\ y # n
        /\ x < y /\ type2[x] = type2[y] /\ birth2[x] = birth2[y]
    BY <1>1, <1>4, <1>9 DEF Siblings
  <2>2. x \in 0 .. (n - 1) /\ x \in Idx /\ y \in 0 .. (n - 1) /\ y \in Idx
    BY <1>1, <1>2, <2>1
  <2>3. Siblings(s, cs, type, birth, x, y)
    BY <1>3, <2>1, <2>2 DEF Siblings, n
  <2>4. OlderFirst(s, x, y)
    BY <1>5, <2>3 DEF SiblingsOk
  <2> QED
    BY <1>4, <2>1, <2>4 DEF OlderFirst
<1> QED
  BY <1>4, <1>6, <1>7, <1>8, <1>9 DEF Orderly, ListsOk, SiblingsOk, n, type2, birth2

(* An exchange of the queues keeps the order.                              *)
LEMMA CurrentKeepsOrder ==
  ASSUME NEW s, NEW cs, NEW type, NEW birth, NEW u,
         Orderly(s, cs, type, birth), s.mReady = <<>>, Exchanged(s, u)
  PROVE  Orderly(u, cs, type, birth)
<1>1. /\ s \in Scheds /\ ListsOk(s, type) /\ QueuesOk(s, birth) /\ SiblingsOk(s, cs, type, birth)
  BY DEF Orderly
<1>2. /\ u \in Scheds /\ u.threw \in {"no", "currentTask"} /\ u.mTaskIdx = s.mTaskIdx /\ u.mTasks = s.mTasks
      /\ u.mReady = s.mNextRound /\ u.mNextRound = <<>> /\ Live(u) = Live(s)
  BY DEF Exchanged, Live
<1>3. ListsOk(u, type)
  BY <1>1, <1>2 DEF ListsOk, Downs, Closs, Up, Typ
<1>4. QueuesOk(u, birth)
  BY <1>1, <1>2 DEF QueuesOk
<1>5. ToSet(<<>>) = {}
  BY DEF ToSet
<1>6. ASSUME NEW x, NEW y, Siblings(u, cs, type, birth, x, y) PROVE OlderFirst(u, x, y)
  <2>1. OlderFirst(s, x, y)
    BY <1>1, <1>2, <1>6 DEF SiblingsOk, Siblings
  <2> QED
    BY <1>2, <1>5, <2>1 DEF OlderFirst
<1>7. \A x \in ToSet(u.mNextRound) : birth[x] # {}
  BY <1>2, <1>5
<1> QED
  BY <1>2, <1>3, <1>4, <1>6, <1>7 DEF Orderly, SiblingsOk

(* popTask of the front of mReady.                                         *)
FrontOf(s, cs, birth) ==
  [before |-> s, popped |-> Head(s.mReady), closures |-> cs, birth |-> birth]

(* The parts of that removal.                                              *)
LEMMA FrontOfIs ==
  ASSUME NEW s, NEW cs, NEW birth
  PROVE  LET w == FrontOf(s, cs, birth) IN
         /\ w.before = s /\ w.popped = Head(s.mReady) /\ w.closures = cs /\ w.birth = birth
         /\ LiveIn(w) = Live(s) /\ \A x : WaitsOf(w, x) = Up(s, x) /\ Behind(w, x) = Down(s, x) /\ Told(w, x) = Cls(s, x)
  BY DEF FrontOf, LiveIn, WaitsOf, Behind, Told

(* In every reachable state popTask finds sound lists.                     *)
LEMMA FrontCanPop ==
  ASSUME NEW s, NEW cs, NEW type, NEW birth,
         GraphOf(s, cs, type, birth), Orderly(s, cs, type, birth), s.threw = "no", s.mReady # <<>>
  PROVE  CanPop(FrontOf(s, cs, birth)) /\ Head(s.mReady) \in ToSet(s.mReady)
<1>1. PICK w : w = FrontOf(s, cs, birth)
  OBVIOUS
<1>2. /\ w.before = s /\ w.popped = Head(s.mReady) /\ w.closures = cs /\ w.birth = birth
      /\ LiveIn(w) = Live(s) /\ \A x : WaitsOf(w, x) = Up(s, x) /\ Behind(w, x) = Down(s, x) /\ Told(w, x) = Cls(s, x)
  BY <1>1, FrontOfIs
<1>3. /\ s \in Scheds /\ ListsOk(s, type) /\ s.mReady \in Seq(Nat)
  BY SchedFacts DEF Orderly
<1>4. Head(s.mReady) \in ToSet(s.mReady)
  <2>1. Len(s.mReady) \in Nat /\ DOMAIN s.mReady = 1 .. Len(s.mReady) /\ Len(s.mReady) # 0
        /\ Head(s.mReady) = s.mReady[1]
    BY <1>3, LenProperties, EmptySeq
  <2>2. 1 \in DOMAIN s.mReady
    BY <2>1
  <2> QED
    BY <2>1, <2>2 DEF ToSet
<1>5. /\ Live(s) \subseteq 0 .. (s.mTaskIdx - 1) /\ s.mTaskIdx \in 0 .. MaxTask
      /\ \A x \in Live(s) : Up(s, x) \subseteq Live(s) /\ Down(s, x) \subseteq Live(s) /\ Cls(s, x) \subseteq Live(s)
      /\ \A v, x \in Live(s) : /\ x \in Down(s, v) <=> x \notin cs /\ v \in Up(s, x)
                               /\ x \in Cls(s, v) <=> x \in cs /\ v \in Up(s, x)
      /\ \A x \in Live(s) \ cs : Up(s, x) = birth[x] \cap Live(s)
      /\ ToSet(s.mReady) \cup ToSet(s.mNextRound) = {x \in Live(s) \ cs : Up(s, x) = {}}
      /\ \A c \in Live(s) \cap cs : Up(s, c) # {}
  BY DEF GraphOf
<1>6. IsFiniteSet(Live(s))
  <2>1. IsFiniteSet(0 .. (s.mTaskIdx - 1))
    <3>1. 0 \in Int /\ s.mTaskIdx - 1 \in Int
      BY <1>5, MaxTaskAssumption
    <3> QED
      BY <3>1, FS_Interval
  <2> QED
    BY <1>5, <2>1, FS_Subset
<1>7. \A x \in ToSet(s.mReady) \cup ToSet(s.mNextRound) : x \in Live(s) \ cs /\ Up(s, x) = {}
  BY <1>5
<1>8. \A x \in Live(s) : x \notin Up(s, x) /\ NoDup(Closs(s, x)) /\ Increasing(Downs(s, x))
  BY <1>3 DEF ListsOk
<1>9. \A x, y \in Live(s) \ cs : birth[x] = birth[y] => Up(s, x) = Up(s, y)
  BY <1>5
<1>10. Head(s.mReady) \in Live(s) \ cs /\ Up(s, Head(s.mReady)) = {}
  BY <1>4, <1>7
<1>11. CanPop(w)
  BY <1>2, <1>3, <1>5, <1>6, <1>7, <1>8, <1>9, <1>10 DEF CanPop, Within, TwoEnds
<1> QED
  BY <1>1, <1>4, <1>11

(* Of two siblings the older one is popped first and queued first.         *)
LEMMA PopKeepsOrder ==
  ASSUME NEW s, NEW cs, NEW type, NEW birth, NEW u, NEW D,
         GraphOf(s, cs, type, birth), Orderly(s, cs, type, birth), s.threw = "no", s.mReady # <<>>,
         Popped(FrontOf(s, cs, birth), u, D), PoppedQueues(FrontOf(s, cs, birth), u, D)
  PROVE  Orderly(u, cs, type, birth)
<1>1. PICK w : w = FrontOf(s, cs, birth)
  OBVIOUS
<1>2. /\ w.before = s /\ w.popped = Head(s.mReady) /\ w.closures = cs /\ w.birth = birth
      /\ LiveIn(w) = Live(s) /\ \A x : WaitsOf(w, x) = Up(s, x) /\ Behind(w, x) = Down(s, x) /\ Told(w, x) = Cls(s, x)
  BY <1>1, FrontOfIs
<1>3. /\ s \in Scheds /\ ListsOk(s, type) /\ QueuesOk(s, birth) /\ SiblingsOk(s, cs, type, birth)
      /\ s.mReady \in Seq(Nat) /\ Live(s) \subseteq Nat
  BY SchedFacts DEF Orderly
<1>4. /\ CanPop(w) /\ Popped(w, u, D) /\ PoppedQueues(w, u, D) /\ Head(s.mReady) \in ToSet(s.mReady)
  BY <1>1, FrontCanPop
<1>5. /\ u \in Scheds /\ u.threw = "no" /\ u.mTaskIdx = s.mTaskIdx
      /\ w.popped \in D /\ D \subseteq LiveIn(w) /\ (\A x \in D : x = w.popped \/ x \in w.closures)
      /\ Live(u) = LiveIn(w) \ D
  BY <1>2, <1>4 DEF Popped
<1>6. ASSUME NEW x \in Live(u)
      PROVE  /\ Typ(u, x) = Typ(w.before, x) /\ Downs(u, x) = Downs(w.before, x) /\ NoDup(Closs(u, x))
             /\ x \notin w.closures => Up(u, x) = WaitsOf(w, x) \ D
             /\ x \in w.closures => Up(u, x) = (WaitsOf(w, x) \ D) \cup Handed(w, D, x)
  BY <1>4 DEF Popped
<1>7. ListsOk(u, type)
  <2> SUFFICES ASSUME NEW x \in Live(u)
               PROVE  /\ Increasing(Downs(u, x)) /\ NoDup(Closs(u, x)) /\ x \notin Up(u, x) /\ Typ(u, x) = type[x]
    BY DEF ListsOk
  <2>1. /\ x \in Live(s) /\ Increasing(Downs(s, x)) /\ x \notin Up(s, x) /\ Typ(s, x) = type[x]
    BY <1>2, <1>3, <1>5 DEF ListsOk
  <2>2. x \in cs => x \notin Handed(w, D, x)
    <3>1. \A v \in LiveIn(w) : x \in Behind(w, v) => x \notin w.closures
      BY <1>2, <1>4, <2>1 DEF CanPop, Within, TwoEnds
    <3> QED
      BY <1>2, <1>5, <3>1 DEF Handed
  <2> QED
    BY <1>2, <1>6, <2>1, <2>2
<1>8. QueuesOk(u, birth)
  BY <1>2, <1>4 DEF PoppedQueues, QueuesOk
<1>9. /\ ToSet(u.mReady) = (ToSet(s.mReady) \ {w.popped}) \cup ReadyBy(w, D)
      /\ ToSet(u.mNextRound) = ToSet(s.mNextRound) \cup RoundBy(w, D)
  BY <1>2, <1>4 DEF PoppedQueues
<1>10. \A x \in ToSet(u.mNextRound) : birth[x] # {}
  <2> SUFFICES ASSUME NEW x \in RoundBy(w, D) PROVE birth[x] # {}
    BY <1>3, <1>9 DEF SiblingsOk
  <2>1. x \in Live(s) \ cs /\ Up(s, x) # {}
    BY <1>2 DEF RoundBy, FreedBy
  <2>2. Up(s, x) = birth[x] \cap Live(s)
    BY <2>1 DEF GraphOf
  <2> QED
    BY <2>1, <2>2
<1>11. ASSUME NEW x, NEW y, Siblings(s, cs, type, birth, x, y)
       PROVE  OlderFirst(u, x, y)
  <2>1. OlderFirst(s, x, y)
    BY <1>3, <1>11 DEF SiblingsOk
  <2>2. x < y /\ x \notin cs /\ y \notin cs /\ type[x] = type[y] /\ birth[x] = birth[y] /\ x \in Nat /\ y \in Nat
    BY <1>3, <1>11, SchedFacts DEF Siblings
  <2>3. ASSUME y \notin Live(u) PROVE x \notin Live(u)
    <3>1. CASE y \notin Live(s)
      BY <1>2, <1>5, <2>1, <3>1 DEF OlderFirst
    <3>2. CASE y \in D
      <4>1. y = Head(s.mReady)
        BY <1>2, <1>5, <2>2, <3>2
      <4>2. CASE x \in ToSet(s.mReady)
        <5>1. x = Head(s.mReady) \/ Head(s.mReady) < x
          BY <1>3, <2>2, <4>1, <4>2, HeadComesFirst DEF QueuesOk
        <5> QED
          BY <2>2, <4>1, <5>1
      <4>3. CASE x \notin ToSet(s.mReady)
        BY <1>2, <1>4, <1>5, <2>1, <4>1, <4>3 DEF OlderFirst
      <4> QED
        BY <4>2, <4>3
    <3> QED
      BY <1>2, <1>5, <2>3, <3>1, <3>2
  <2>4. ASSUME y \in FreedBy(w, D), x \in Live(s)
        PROVE  x \in FreedBy(w, D) /\ Typ(w.before, x) = Typ(w.before, y)
    <3>1. y \in LiveIn(w) \ w.closures /\ x \in LiveIn(w) \ w.closures /\ w.birth[x] = w.birth[y]
      BY <1>2, <2>2, <2>4 DEF FreedBy
    <3>2. WaitsOf(w, x) = WaitsOf(w, y)
      BY <1>4, <3>1 DEF CanPop
    <3>3. Typ(s, x) = type[x] /\ Typ(s, y) = type[y]
      BY <1>2, <1>3, <3>1 DEF ListsOk
    <3> QED
      BY <1>2, <2>2, <2>4, <3>1, <3>2, <3>3 DEF FreedBy
  <2>5. ASSUME y \in ToSet(u.mReady) PROVE x \in ToSet(u.mReady) \/ x \notin Live(u)
    <3>1. CASE y \in ToSet(s.mReady)
      BY <1>2, <1>5, <1>9, <2>1, <3>1 DEF OlderFirst
    <3>2. CASE y \in ReadyBy(w, D)
      BY <1>2, <1>5, <1>9, <2>4, <3>2 DEF ReadyBy
    <3> QED
      BY <1>9, <2>5, <3>1, <3>2
  <2>6. ASSUME y \in ToSet(u.mNextRound) PROVE x \in ToSet(u.mNextRound) \/ x \notin Live(u)
    <3>1. CASE y \in ToSet(s.mNextRound)
      BY <1>2, <1>5, <1>9, <2>1, <3>1 DEF OlderFirst
    <3>2. CASE y \in RoundBy(w, D)
      BY <1>2, <1>5, <1>9, <2>4, <3>2 DEF RoundBy
    <3> QED
      BY <1>9, <2>6, <3>1, <3>2
  <2> QED
    BY <2>3, <2>5, <2>6 DEF OlderFirst
<1>12. SiblingsOk(u, cs, type, birth)
  BY <1>5, <1>10, <1>11 DEF SiblingsOk, Siblings
<1> QED
  BY <1>5, <1>7, <1>8, <1>12 DEF Orderly

-----------------------------------------------------------------------------
(* Each action is a step of the graph, and keeps the order.                *)
Order == Orderly(sched, closures, bornType, upAtBirth)
SchedInv == GP!GraphInv /\ Order

(* Add is AddTask of the graph.                                            *)
LEMMA AddRefines ==
  ASSUME SchedInv, NEW t \in TaskTypes, NEW deps \in SUBSET Issued, Add(t, deps)
  PROVE  G!AddTask(t, deps) /\ Order'
<1> DEFINE n == sched.mTaskIdx
           up == deps \cap Live(sched)
<1>1. /\ GraphOf(sched, closures, bornType, upAtBirth) /\ Orderly(sched, closures, bornType, upAtBirth)
      /\ sched.threw = "no" /\ n < MaxTask /\ sched \in Scheds
  BY GraphSays DEF SchedInv, Order, Orderly, Add
<1>2. /\ n \in Nat /\ n \in Idx /\ n \notin Live(sched) /\ n \notin closures
      /\ \A x \in ToSet(sched.mReady) \cup ToSet(sched.mNextRound) : x \in Live(sched) /\ x \in Nat /\ x < n
  BY <1>1, NextIsNew
<1>3. IsType(t) /\ up \subseteq Live(sched)
  BY TaskTypesAssumption DEF IsType
<1>4. AddedTask(sched, sched', t, up)
  BY <1>1, <1>2, <1>3, AddTaskIs DEF Add
<1>5. /\ bornType' = [bornType EXCEPT ![n] = t] /\ upAtBirth' = [upAtBirth EXCEPT ![n] = up]
      /\ closures' = closures /\ acyclic' = (acyclic /\ G!Acyclic(deps))
  BY DEF Add, Born
<1> HIDE DEF up
<1>6. Orderly(sched', closures', bornType', upAtBirth')
  BY <1>1, <1>3, <1>4, <1>5, AddKeepsOrder
<1>7. /\ sched'.mTaskIdx = n + 1 /\ Live(sched') = Live(sched) \cup {n} /\ IsNew(sched', n, t, up)
      /\ \A x \in Live(sched) :
           /\ Up(sched', x) = Up(sched, x) /\ Closs(sched', x) = Closs(sched, x)
           /\ Downs(sched', x) = IF x \in up THEN AddOnce(Downs(sched, x), n) ELSE Downs(sched, x)
      /\ sched'.mReady = (IF up = {} THEN Append(sched.mReady, n) ELSE sched.mReady)
      /\ sched'.mNextRound = sched.mNextRound
  BY <1>4 DEF AddedTask
<1>8. \A x \in Live(sched) : Down(sched', x) = IF x \in up THEN Down(sched, x) \cup {n} ELSE Down(sched, x)
  <2>1. \A x \in Live(sched) : Downs(sched, x) \in Seq(Nat)
    BY <1>1, SchedFacts
  <2> QED
    BY <1>2, <1>7, <2>1, AddOnceFacts DEF Down
<1>9. Up(sched', n) = up /\ Down(sched', n) = {} /\ Cls(sched', n) = {}
  BY <1>7 DEF IsNew, Down, Cls, ToSet
<1>10. ASSUME NEW x \in Idx
       PROVE  /\ Upstream'[x] = (IF x = n THEN up ELSE Upstream[x])
              /\ Listed("mDownstream")'[x] =
                   (IF x \in up THEN Listed("mDownstream")[x] \cup {n} ELSE Listed("mDownstream")[x])
              /\ Listed("mClosures")'[x] = Listed("mClosures")[x]
  <2>1. /\ Reads(sched, x, Upstream[x], Listed("mDownstream")[x], Listed("mClosures")[x])
        /\ Reads(sched', x, Upstream'[x], Listed("mDownstream")'[x], Listed("mClosures")'[x])
    BY MapIs, MapIsNext
  <2>2. CASE x = n
    BY <1>2, <1>3, <1>7, <1>9, <2>1, <2>2 DEF Reads
  <2>3. CASE x \in Live(sched)
    BY <1>2, <1>7, <1>8, <2>1, <2>3 DEF Reads, Cls
  <2>4. CASE x # n /\ x \notin Live(sched)
    BY <1>3, <1>7, <2>1, <2>4 DEF Reads
  <2> QED
    BY <2>2, <2>3, <2>4
<1>11. /\ Upstream' = [Upstream EXCEPT ![n] = up]
       /\ Listed("mDownstream")' = [d \in Idx |-> IF d \in up THEN Listed("mDownstream")[d] \cup {n}
                                                              ELSE Listed("mDownstream")[d]]
       /\ Listed("mClosures")' = Listed("mClosures")
  <2> DEFINE a == Upstream
             b == Upstream'
             c == Listed("mDownstream")
             d == Listed("mDownstream")'
             e == Listed("mClosures")
             f == Listed("mClosures")'
  <2>1. /\ a = [x \in Idx |-> a[x]] /\ b = [x \in Idx |-> b[x]] /\ c = [x \in Idx |-> c[x]]
        /\ d = [x \in Idx |-> d[x]] /\ e = [x \in Idx |-> e[x]] /\ f = [x \in Idx |-> f[x]]
    BY MapDomains
  <2>2. \A x \in Idx : /\ b[x] = (IF x = n THEN up ELSE a[x])
                       /\ d[x] = (IF x \in up THEN c[x] \cup {n} ELSE c[x])
                       /\ f[x] = e[x]
    BY <1>10
  <2> HIDE DEF a, b, c, d, e, f
  <2>3. b = [a EXCEPT ![n] = up] /\ d = [x \in Idx |-> IF x \in up THEN c[x] \cup {n} ELSE c[x]] /\ f = e
    BY <2>1, <2>2
  <2> QED
    BY <2>3 DEF a, b, c, d, e, f
<1>12. /\ ToSet(sched'.mReady) = (IF up = {} THEN ToSet(sched.mReady) \cup {n} ELSE ToSet(sched.mReady))
       /\ ToSet(sched'.mNextRound) = ToSet(sched.mNextRound)
  BY <1>1, <1>2, <1>7, SchedFacts, AppendFacts
<1>13. G!AddTask(t, deps)
  BY <1>1, <1>5, <1>7, <1>11, <1>12 DEF G!AddTask, G!NextIdx, G!Idx, Idx, up
<1> QED
  BY <1>6, <1>13 DEF Order

(* Close is AddClosure of the graph.                                       *)
LEMMA CloseRefines ==
  ASSUME SchedInv, NEW deps \in SUBSET Issued, Close(deps)
  PROVE  G!AddClosure(deps) /\ Order'
<1> DEFINE n == sched.mTaskIdx
           up == deps \cap Live(sched)
<1>1. /\ GraphOf(sched, closures, bornType, upAtBirth) /\ Orderly(sched, closures, bornType, upAtBirth)
      /\ sched.threw = "no" /\ n < MaxTask /\ sched \in Scheds
  BY GraphSays DEF SchedInv, Order, Orderly, Close
<1>2. /\ n \in Nat /\ n \in Idx /\ n \notin Live(sched) /\ n \notin closures
  BY <1>1, NextIsNew
<1>3. up \subseteq Live(sched)
  OBVIOUS
<1>4. AddedClosure(sched, sched', up)
  BY <1>1, <1>2, AddClosureIs DEF Close
<1>5. /\ bornType' = [bornType EXCEPT ![n] = "Continuation"] /\ upAtBirth' = [upAtBirth EXCEPT ![n] = up]
      /\ closures' = closures \cup {n} /\ acyclic' = acyclic
  BY DEF Close, Born
<1> HIDE DEF up
<1>6. Orderly(sched', closures', bornType', upAtBirth')
  BY <1>1, <1>3, <1>4, <1>5, CloseKeepsOrder
<1>7. /\ sched'.mTaskIdx = n + 1 /\ Live(sched') = (IF up = {} THEN Live(sched) ELSE Live(sched) \cup {n})
      /\ up # {} => IsNew(sched', n, "Continuation", up)
      /\ \A x \in Live(sched) :
           /\ Up(sched', x) = Up(sched, x) /\ Downs(sched', x) = Downs(sched, x)
           /\ Closs(sched', x) = IF x \in up THEN AddOnce(Closs(sched, x), n) ELSE Closs(sched, x)
      /\ sched'.mReady = sched.mReady /\ sched'.mNextRound = sched.mNextRound
  BY <1>4 DEF AddedClosure
<1>8. \A x \in Live(sched) : Cls(sched', x) = IF x \in up THEN Cls(sched, x) \cup {n} ELSE Cls(sched, x)
  <2>1. \A x \in Live(sched) : Closs(sched, x) \in Seq(Nat)
    BY <1>1, SchedFacts
  <2> QED
    BY <1>2, <1>7, <2>1, AddOnceFacts DEF Cls
<1>9. up # {} => Up(sched', n) = up /\ Down(sched', n) = {} /\ Cls(sched', n) = {}
  BY <1>7 DEF IsNew, Down, Cls, ToSet
<1>10. ASSUME NEW x \in Idx
       PROVE  /\ Upstream'[x] = (IF x = n THEN up ELSE Upstream[x])
              /\ Listed("mDownstream")'[x] = Listed("mDownstream")[x]
              /\ Listed("mClosures")'[x] =
                   (IF x \in up THEN Listed("mClosures")[x] \cup {n} ELSE Listed("mClosures")[x])
  <2>1. /\ Reads(sched, x, Upstream[x], Listed("mDownstream")[x], Listed("mClosures")[x])
        /\ Reads(sched', x, Upstream'[x], Listed("mDownstream")'[x], Listed("mClosures")'[x])
    BY MapIs, MapIsNext
  <2>2. CASE x = n
    BY <1>2, <1>3, <1>7, <1>9, <2>1, <2>2 DEF Reads
  <2>3. CASE x \in Live(sched)
    BY <1>2, <1>7, <1>8, <2>1, <2>3 DEF Reads, Down
  <2>4. CASE x # n /\ x \notin Live(sched)
    BY <1>3, <1>7, <2>1, <2>4 DEF Reads
  <2> QED
    BY <2>2, <2>3, <2>4
<1>11. /\ Upstream' = [Upstream EXCEPT ![n] = up]
       /\ Listed("mDownstream")' = Listed("mDownstream")
       /\ Listed("mClosures")' = [d \in Idx |-> IF d \in up THEN Listed("mClosures")[d] \cup {n}
                                                            ELSE Listed("mClosures")[d]]
  <2> DEFINE a == Upstream
             b == Upstream'
             c == Listed("mDownstream")
             d == Listed("mDownstream")'
             e == Listed("mClosures")
             f == Listed("mClosures")'
  <2>1. /\ a = [x \in Idx |-> a[x]] /\ b = [x \in Idx |-> b[x]] /\ c = [x \in Idx |-> c[x]]
        /\ d = [x \in Idx |-> d[x]] /\ e = [x \in Idx |-> e[x]] /\ f = [x \in Idx |-> f[x]]
    BY MapDomains
  <2>2. \A x \in Idx : /\ b[x] = (IF x = n THEN up ELSE a[x])
                       /\ f[x] = (IF x \in up THEN e[x] \cup {n} ELSE e[x])
                       /\ d[x] = c[x]
    BY <1>10
  <2> HIDE DEF a, b, c, d, e, f
  <2>3. b = [a EXCEPT ![n] = up] /\ f = [x \in Idx |-> IF x \in up THEN e[x] \cup {n} ELSE e[x]] /\ d = c
    BY <2>1, <2>2
  <2> QED
    BY <2>3 DEF a, b, c, d, e, f
<1>12. G!AddClosure(deps)
  BY <1>1, <1>5, <1>7, <1>11 DEF G!AddClosure, G!NextIdx, G!Idx, Idx, up
<1> QED
  BY <1>6, <1>12 DEF Order

(* Current is CurrentTask of the graph, or changes nothing there but threw.*)
LEMMA CurrentRefines ==
  ASSUME SchedInv, Current
  PROVE  (G!CurrentTask \/ UNCHANGED G!vars) /\ Order'
<1>1. /\ sched.threw = "no" /\ sched.mReady = <<>> /\ sched \in Scheds
      /\ UNCHANGED <<bornType, upAtBirth, closures, acyclic>> /\ sched' = CurrentTask(sched)
  BY DEF SchedInv, Order, Orderly, Current
<1>2. Exchanged(sched, sched')
  BY <1>1, CurrentTaskIs
<1>3. Order'
  BY <1>1, <1>2, CurrentKeepsOrder DEF SchedInv, Order
<1>4. /\ sched'.mTaskIdx = sched.mTaskIdx /\ Live(sched') = Live(sched)
      /\ sched'.mReady = sched.mNextRound /\ sched'.mNextRound = <<>>
      /\ Upstream' = Upstream /\ Listed("mDownstream")' = Listed("mDownstream")
      /\ Listed("mClosures")' = Listed("mClosures")
  BY <1>1, <1>2 DEF Exchanged, Live, Upstream, Listed
<1>5. ToSet(<<>>) = {}
  BY DEF ToSet
<1>6. CASE ToSet(sched.mNextRound) # {}
  BY <1>1, <1>3, <1>4, <1>5, <1>6 DEF G!CurrentTask
<1>7. CASE ToSet(sched.mNextRound) = {}
  BY <1>1, <1>3, <1>4, <1>5, <1>7 DEF G!vars
<1> QED
  BY <1>6, <1>7

(* The set that the recursion removes is the least one that the graph      *)
(* calls Removed.                                                          *)
LEMMA RemovedIs ==
  ASSUME SchedInv, NEW w, NEW u, NEW D, w = FrontOf(sched, closures, upAtBirth), CanPop(w), Popped(w, u, D)
  PROVE  D = G!Removed(w.popped)
<1> DEFINE down == Listed("mDownstream")
<1>1. /\ w.before = sched /\ w.closures = closures
      /\ LiveIn(w) = Live(sched) /\ \A x : WaitsOf(w, x) = Up(sched, x) /\ Behind(w, x) = Down(sched, x)
  BY FrontOfIs
<1>2. /\ Live(sched) \subseteq Idx /\ \A x \in Live(sched) : Up(sched, x) \subseteq Live(sched)
  BY GraphSays DEF SchedInv, GraphOf
<1>3. \A x \in Live(sched) : Upstream[x] = Up(sched, x) /\ down[x] = Down(sched, x)
  BY <1>2, MapIs DEF Reads
<1>4. /\ w.popped \in D /\ D \subseteq LiveIn(w) /\ (\A x \in D : x = w.popped \/ x \in w.closures)
      /\ Shut(w, D \ {w.popped}) /\ \A S : Shut(w, S) => D \subseteq {w.popped} \cup S
      /\ w.popped \notin w.closures
  BY DEF Popped, CanPop
<1> HIDE DEF down
<1>5. ASSUME NEW c \in Live(sched) \cap closures, NEW R
      PROVE  G!Emptied(c, R) <=> Emptying(w, R, c)
  <2>1. Upstream[c] = WaitsOf(w, c) /\ \A v \in WaitsOf(w, c) : down[v] = Behind(w, v)
    BY <1>1, <1>2, <1>3
  <2> QED
    BY <2>1 DEF G!Emptied, Emptying, down
<1>6. ASSUME NEW S
      PROVE  G!CascadeClosed(w.popped, S) <=> Shut(w, S)
  BY <1>1, <1>5, Zenon DEF G!CascadeClosed, Shut
<1>7. G!Cascade(w.popped) = {c \in Live(sched) \cap closures :
                               \A S \in SUBSET (Live(sched) \cap closures) : Shut(w, S) => c \in S}
  BY <1>6 DEF G!Cascade
<1>8. D \ {w.popped} \in SUBSET (Live(sched) \cap closures)
  BY <1>1, <1>4
<1>9. G!Cascade(w.popped) = D \ {w.popped}
  <2>1. G!Cascade(w.popped) \subseteq D \ {w.popped}
    BY <1>4, <1>7, <1>8
  <2>2. ASSUME NEW c \in D \ {w.popped} PROVE c \in G!Cascade(w.popped)
    BY <1>4, <1>7, <1>8, <2>2
  <2> QED
    BY <2>1, <2>2
<1> QED
  BY <1>4, <1>9 DEF G!Removed

(* What is left of the edges, read through the mapping.                    *)
MappedAfterPop(D, x) ==
  /\ Upstream'[x] = (IF x \in D THEN {} ELSE (Upstream[x] \ D) \cup G!TakenOver(x, D))
  /\ Listed("mDownstream")'[x] = (IF x \in D THEN {} ELSE Listed("mDownstream")[x])
  /\ Listed("mClosures")'[x] = (IF x \in D THEN {} ELSE Listed("mClosures")[x] \cup
       UNION {Listed("mClosures")[v] : v \in {r \in D : x \in Listed("mDownstream")[r]}})

(* The edges after popTask, as PopTask of the graph has them.              *)
LEMMA MapAfterPop ==
  ASSUME SchedInv, NEW w, NEW D, NEW x \in Idx, w = FrontOf(sched, closures, upAtBirth),
         CanPop(w), Popped(w, sched', D)
  PROVE  MappedAfterPop(D, x)
<1> DEFINE down == Listed("mDownstream")
           cls == Listed("mClosures")
           next == sched'
<1>1. /\ w.before = sched /\ w.closures = closures
      /\ LiveIn(w) = Live(sched)
      /\ \A v : WaitsOf(w, v) = Up(sched, v) /\ Behind(w, v) = Down(sched, v) /\ Told(w, v) = Cls(sched, v)
  BY FrontOfIs
<1>2. /\ Live(sched) \subseteq Idx
      /\ \A v \in Live(sched) : Up(sched, v) \subseteq Live(sched) /\ Down(sched, v) \subseteq Live(sched)
  BY GraphSays DEF SchedInv, GraphOf
<1>3. \A v \in Live(sched) : Upstream[v] = Up(sched, v) /\ down[v] = Down(sched, v) /\ cls[v] = Cls(sched, v)
  BY <1>2, MapIs DEF Reads
<1>4. x \notin Live(sched) => Upstream[x] = {} /\ down[x] = {} /\ cls[x] = {}
  BY MapIs DEF Reads
<1>5. /\ Upstream'[x] = IF x \in Live(next) THEN Up(next, x) ELSE {}
      /\ Listed("mDownstream")'[x] = IF x \in Live(next) THEN Down(next, x) ELSE {}
      /\ Listed("mClosures")'[x] = IF x \in Live(next) THEN Cls(next, x) ELSE {}
  BY MapIsNext DEF Reads
<1>6. /\ D \subseteq Live(sched) /\ Live(next) = Live(sched) \ D
      /\ x \in Live(next) =>
           /\ Down(next, x) = Behind(w, x)
           /\ Cls(next, x) = Told(w, x) \cup UNION {Told(w, u) : u \in {v \in D : x \in Behind(w, v)}}
           /\ x \notin closures => Up(next, x) = WaitsOf(w, x) \ D
           /\ x \in closures => Up(next, x) = (WaitsOf(w, x) \ D) \cup Handed(w, D, x)
  BY <1>1 DEF Popped, Down
<1> HIDE DEF next, down, cls
<1>7. G!TakenOver(x, D) = IF x \in closures THEN UNION {down[v] : v \in D \cap Upstream[x]} ELSE {}
  BY DEF G!TakenOver, down
<1>8. CASE x \in D
  BY <1>5, <1>6, <1>8 DEF MappedAfterPop, down, cls
<1>9. CASE x \in Live(next)
  <2>1. x \in Live(sched) /\ x \notin D
    BY <1>6, <1>9
  <2>2. x \in closures => G!TakenOver(x, D) = Handed(w, D, x)
    <3>1. \A v \in D \cap Upstream[x] : down[v] = Behind(w, v)
      BY <1>1, <1>3, <1>6
    <3>2. D \cap Upstream[x] = D \cap WaitsOf(w, x)
      BY <1>1, <1>3, <2>1
    <3>3. UNION {down[v] : v \in D \cap Upstream[x]} = UNION {Behind(w, v) : v \in D \cap WaitsOf(w, x)}
      BY <3>1, <3>2
    <3> QED
      BY <1>7, <3>3 DEF Handed
  <2>3. Upstream'[x] = (Upstream[x] \ D) \cup G!TakenOver(x, D)
    BY <1>1, <1>3, <1>5, <1>6, <1>7, <1>9, <2>1, <2>2
  <2>4. UNION {cls[v] : v \in {r \in D : x \in down[r]}} = UNION {Told(w, u) : u \in {v \in D : x \in Behind(w, v)}}
    <3>1. \A v \in D : down[v] = Behind(w, v) /\ cls[v] = Told(w, v)
      BY <1>1, <1>3, <1>6
    <3>2. {r \in D : x \in down[r]} = {v \in D : x \in Behind(w, v)}
      BY <3>1
    <3>3. \A v \in {r \in D : x \in down[r]} : cls[v] = Told(w, v)
      BY <3>1
    <3> QED
      BY <3>2, <3>3
  <2> QED
    BY <1>1, <1>3, <1>5, <1>6, <1>9, <2>1, <2>3, <2>4 DEF MappedAfterPop, down, cls
<1>10. CASE x \notin Live(sched)
  <2>1. x \notin D /\ x \notin Live(next) /\ Upstream[x] = {} /\ down[x] = {} /\ cls[x] = {}
    BY <1>4, <1>6, <1>10
  <2>2. G!TakenOver(x, D) = {}
    BY <1>7, <2>1
  <2>3. {r \in D : x \in down[r]} = {}
    BY <1>2, <1>3, <1>6, <1>10
  <2>4. UNION {cls[v] : v \in {r \in D : x \in down[r]}} = {}
    BY <2>3
  <2> QED
    BY <1>5, <2>1, <2>2, <2>4 DEF MappedAfterPop, down, cls
<1> QED
  BY <1>6, <1>8, <1>9, <1>10

(* Pop is PopTask of the graph, of the front of mReady.                    *)
LEMMA PopRefines ==
  ASSUME SchedInv, Pop
  PROVE  (\E i \in ToSet(sched.mReady) : G!PopTask(i)) /\ Order'
<1>1. /\ GraphOf(sched, closures, bornType, upAtBirth) /\ Orderly(sched, closures, bornType, upAtBirth)
      /\ sched.threw = "no" /\ sched.mReady # <<>> /\ sched' = PopTask(sched)
      /\ UNCHANGED <<bornType, upAtBirth, closures, acyclic>>
  BY GraphSays DEF SchedInv, Order, Pop
<1>2. PICK w : w = FrontOf(sched, closures, upAtBirth)
  OBVIOUS
<1>3. /\ w.before = sched /\ w.popped = Head(sched.mReady) /\ w.closures = closures /\ w.birth = upAtBirth
      /\ LiveIn(w) = Live(sched) /\ \A x : WaitsOf(w, x) = Up(sched, x)
  BY <1>2, FrontOfIs
<1>4. CanPop(w) /\ w.popped \in ToSet(sched.mReady)
  BY <1>1, <1>2, <1>3, FrontCanPop
<1>5. PICK D : Popped(w, sched', D) /\ PoppedQueues(w, sched', D)
  <2>1. QueuesOk(sched, upAtBirth)
    BY <1>1 DEF Orderly
  <2> QED
    BY <1>1, <1>3, <1>4, <2>1, PopTaskIs DEF QueuesOk
<1>6. Orderly(sched', closures', bornType', upAtBirth')
  BY <1>1, <1>2, <1>5, PopKeepsOrder
<1>7. D = G!Removed(w.popped)
  BY <1>2, <1>4, <1>5, RemovedIs
<1>8. /\ sched'.mTaskIdx = sched.mTaskIdx /\ Live(sched') = Live(sched) \ D
  BY <1>3, <1>5 DEF Popped
<1>9. /\ Upstream' = [x \in Idx |-> IF x \in D THEN {} ELSE (Upstream[x] \ D) \cup G!TakenOver(x, D)]
      /\ Listed("mDownstream")' = [x \in Idx |-> IF x \in D THEN {} ELSE Listed("mDownstream")[x]]
      /\ Listed("mClosures")' = [x \in Idx |-> IF x \in D THEN {} ELSE Listed("mClosures")[x] \cup
              UNION {Listed("mClosures")[v] : v \in {r \in D : x \in Listed("mDownstream")[r]}}]
  <2> DEFINE a(x) == IF x \in D THEN {} ELSE (Upstream[x] \ D) \cup G!TakenOver(x, D)
             b(x) == IF x \in D THEN {} ELSE Listed("mDownstream")[x]
             c(x) == IF x \in D THEN {} ELSE Listed("mClosures")[x] \cup
                       UNION {Listed("mClosures")[v] : v \in {r \in D : x \in Listed("mDownstream")[r]}}
             d == Upstream'
             e == Listed("mDownstream")'
             f == Listed("mClosures")'
  <2>1. ASSUME NEW x \in Idx PROVE d[x] = a(x) /\ e[x] = b(x) /\ f[x] = c(x)
    <3>1. MappedAfterPop(D, x)
      BY <1>2, <1>4, <1>5, MapAfterPop
    <3> QED
      BY <3>1 DEF MappedAfterPop
  <2>2. d = [x \in Idx |-> d[x]] /\ e = [x \in Idx |-> e[x]] /\ f = [x \in Idx |-> f[x]]
    BY MapDomains
  <2> HIDE DEF a, b, c, d, e, f
  <2>3. d = [x \in Idx |-> a(x)] /\ e = [x \in Idx |-> b(x)] /\ f = [x \in Idx |-> c(x)]
    BY <2>1, <2>2
  <2> QED
    BY <2>3 DEF a, b, c, d, e, f
<1>10. G!Released(D) = FreedBy(w, D)
  <2>1. \A x \in Live(sched) : Upstream[x] = WaitsOf(w, x)
    BY <1>1, <1>3, MapIs DEF Reads, GraphOf
  <2> QED
    BY <1>3, <2>1 DEF G!Released, FreedBy
<1>11. \A d \in FreedBy(w, D) : Typ(sched, d) = bornType[d] /\ bornType[d] \in {"Round", "Continuation"}
  BY <1>1, <1>3 DEF FreedBy, Orderly, ListsOk, GraphOf
<1>12. /\ {d \in FreedBy(w, D) : bornType[d] = "Continuation"} = ReadyBy(w, D)
       /\ {d \in FreedBy(w, D) : bornType[d] = "Round"} = RoundBy(w, D)
  BY <1>3, <1>11 DEF ReadyBy, RoundBy
<1>13. /\ ToSet(sched'.mReady) = (ToSet(sched.mReady) \ {w.popped}) \cup ReadyBy(w, D)
       /\ ToSet(sched'.mNextRound) = ToSet(sched.mNextRound) \cup RoundBy(w, D)
  BY <1>3, <1>5 DEF PoppedQueues
<1>14. G!PopTask(w.popped)
  BY <1>1, <1>4, <1>7, <1>8, <1>9, <1>10, <1>12, <1>13 DEF G!PopTask, G!Idx, Idx
<1> QED
  BY <1>4, <1>6, <1>14 DEF Order

(* Every step keeps the invariant and is a step, or none, of the graph.    *)
LEMMA SchedStep == SchedInv /\ [Next]_vars => [G!Next]_(G!vars) /\ SchedInv'
<1> SUFFICES ASSUME SchedInv, [Next]_vars PROVE [G!Next]_(G!vars) /\ Order'
  BY GraphStays DEF SchedInv
<1>1. ASSUME NEW t \in TaskTypes, NEW deps \in SUBSET Issued, Add(t, deps) PROVE G!Next /\ Order'
  <2>1. t \in G!Types /\ deps \in SUBSET G!Issued
    BY TaskTypesAssumption DEF G!Types, G!Issued, Issued
  <2> QED
    BY <1>1, <2>1, AddRefines DEF G!Next
<1>2. ASSUME NEW deps \in SUBSET Issued, Close(deps) PROVE G!Next /\ Order'
  <2>1. deps \in SUBSET G!Issued
    BY DEF G!Issued, Issued
  <2> QED
    BY <1>2, <2>1, CloseRefines DEF G!Next
<1>3. CASE Current
  BY <1>3, CurrentRefines DEF G!Next
<1>4. CASE Pop
  BY <1>4, PopRefines DEF G!Next
<1>5. CASE UNCHANGED vars
  BY <1>5 DEF vars, G!vars, Order, SchedInv, Upstream, Listed
<1> QED
  BY <1>1, <1>2, <1>3, <1>4, <1>5 DEF Next

(* The new Scheduler is the empty graph.                                   *)
LEMMA SchedStart == Init => G!Init /\ SchedInv
<1> SUFFICES ASSUME Init PROVE G!Init /\ Order
  BY GraphStarts DEF SchedInv
<1>1. /\ sched = NewScheduler /\ Live(sched) = {} /\ sched.mReady = <<>> /\ sched.mNextRound = <<>>
      /\ sched.mTaskIdx = 0 /\ sched.threw = "no"
  BY DEF Init, NewScheduler, Live
<1>2. sched \in Scheds
  <2>1. << >> \in Tables
    <3>1. DOMAIN << >> = {} /\ << >> \in [{} -> Bases]
      OBVIOUS
    <3> QED
      BY <3>1 DEF Tables
  <2>2. "no" \in Throws /\ 0 \in Nat /\ <<>> \in Seq(Nat)
    BY DEF Throws
  <2> QED
    BY <1>1, <2>1, <2>2 DEF NewScheduler, Scheds
<1>3. ToSet(<<>>) = {}
  BY DEF ToSet
<1>4. G!Init
  BY <1>1, <1>3 DEF Init, G!Init, G!Nothing, G!Idx, Idx, Upstream, Listed
<1>5. NoDup(<<>>) /\ InOrder(<<>>, upAtBirth)
  BY DEF NoDup, InOrder
<1>6. SiblingsOk(sched, closures, bornType, upAtBirth)
  BY <1>1, <1>3 DEF SiblingsOk, Siblings
<1> QED
  BY <1>1, <1>2, <1>4, <1>5, <1>6 DEF Order, Orderly, ListsOk, QueuesOk

(* The inductive invariant: the graph's, and the order of the lists.       *)
THEOREM SchedInvariant == Spec => []SchedInv
  BY SchedStart, SchedStep, PTL DEF Spec

(* Task.h implements the graph of sets: with its lists, its two loops and  *)
(* its recursion it removes, in one popTask, exactly the least set that    *)
(* the graph calls Removed, and queues exactly what that leaves free.      *)
THEOREM ImplementsTaskGraphHolds == Spec => ImplementsTaskGraph
<1>1. G!Init /\ [][G!Next]_(G!vars) => G!Spec
  BY DEF G!Spec
<1> QED
  BY <1>1, SchedStart, SchedStep, PTL DEF Spec, ImplementsTaskGraph

(* The lists and queues only ever hold issued indices, the queues live     *)
(* ones.                                                                   *)
THEOREM TypeOKHolds == Spec => []TypeOK
<1>1. SchedInv => TypeOK
  <2> SUFFICES ASSUME SchedInv PROVE TypeOK
    OBVIOUS
  <2>1. GraphOf(sched, closures, bornType, upAtBirth) /\ sched \in Scheds
    BY GraphSays DEF SchedInv, Order, Orderly
  <2>2. /\ sched.mTaskIdx \in 0 .. MaxTask /\ Live(sched) \subseteq Issued /\ closures \subseteq Issued
        /\ Live(sched) \subseteq Idx
        /\ ToSet(sched.mReady) \subseteq Live(sched) /\ ToSet(sched.mNextRound) \subseteq Live(sched)
        /\ \A x \in Live(sched) : Up(sched, x) \subseteq Idx /\ Down(sched, x) \subseteq Idx /\ Cls(sched, x) \subseteq Idx
    BY <2>1 DEF GraphOf, Issued
  <2>3. ASSUME NEW q, NEW S, q \in Seq(Nat), ToSet(q) \subseteq S PROVE q \in Seq(S)
    <3>1. q = [n \in 1 .. Len(q) |-> q[n]] /\ Len(q) \in Nat /\ DOMAIN q = 1 .. Len(q)
      BY <2>3, LenProperties
    <3>2. \A n \in 1 .. Len(q) : q[n] \in S
      BY <2>3, <3>1 DEF ToSet
    <3> QED
      BY <3>1, <3>2, IsASeq
  <2>4. ASSUME NEW x \in Live(sched)
        PROVE  sched.mTasks[x] \in [mType : {"Round", "Continuation"}, mUpstream : SUBSET Idx,
                                    mDownstream : Seq(Idx), mClosures : Seq(Idx)]
    <3>1. Downs(sched, x) \in Seq(Nat) /\ Closs(sched, x) \in Seq(Nat) /\ sched.mTasks[x] \in Bases
      BY <2>1, SchedFacts
    <3>2. Downs(sched, x) \in Seq(Idx) /\ Closs(sched, x) \in Seq(Idx) /\ Up(sched, x) \subseteq Idx
      BY <2>2, <2>3, <3>1 DEF Down, Cls
    <3> QED
      BY <3>1, <3>2 DEF Bases, Downs, Closs, Up
  <2>5. sched.mReady \in Seq(Live(sched)) /\ sched.mNextRound \in Seq(Live(sched))
    BY <2>1, <2>2, <2>3, SchedFacts
  <2> QED
    BY <2>2, <2>4, <2>5 DEF TypeOK
<1> QED
  BY <1>1, SchedInvariant, PTL

(* No check inside removeTask, removeUpstream, addReady or addNextRound    *)
(* ever fires: of the throws of Task.h only that of currentTask can.       *)
THEOREM OnlyCurrentTaskThrowsHolds == Spec => []OnlyCurrentTaskThrows
<1>1. SchedInv => OnlyCurrentTaskThrows
  BY DEF SchedInv, Order, Orderly, OnlyCurrentTaskThrows
<1> QED
  BY <1>1, SchedInvariant, PTL

(* Tasks of one type that were added behind the same unfinished tasks are  *)
(* run in the order they were added.                                       *)
THEOREM SiblingOrderHolds == Spec => []SiblingOrder
<1>1. SchedInv => SiblingOrder
  <2> SUFFICES ASSUME SchedInv, NEW x \in Issued \ closures, NEW y \in Issued \ closures,
                      x < y, bornType[x] = bornType[y], upAtBirth[x] = upAtBirth[y], y \in Completed
               PROVE  x \in Completed
    BY DEF SiblingOrder
  <2>1. OlderFirst(sched, x, y)
    BY DEF SchedInv, Order, Orderly, SiblingsOk, Siblings, Issued
  <2> QED
    BY <2>1 DEF OlderFirst, Completed
<1> QED
  BY <1>1, SchedInvariant, PTL

-----------------------------------------------------------------------------
(* What a caller of the scheduler may rely on, in terms of the state of    *)
(* the Scheduler object.                                                   *)
LEMMA InvSays ==
  ASSUME SchedInv
  PROVE  /\ sched.mTaskIdx \in 0 .. MaxTask /\ Live(sched) \subseteq Issued /\ closures \subseteq Issued
         /\ Issued \subseteq Idx /\ bornType \in [Idx -> {"Round", "Continuation"}]
         /\ upAtBirth \in [Idx -> SUBSET Idx] /\ \A x \in Idx : upAtBirth[x] \subseteq Issued
         /\ sched.mReady \in Seq(Nat) /\ sched.mNextRound \in Seq(Nat)
         /\ \A x \in ToSet(sched.mReady) \cup ToSet(sched.mNextRound) :
              x \in Live(sched) \ closures /\ upAtBirth[x] \cap Live(sched) = {}
         /\ \A x \in Issued \ Live(sched) : upAtBirth[x] \cap Live(sched) = {}
<1>1. GraphOf(sched, closures, bornType, upAtBirth) /\ sched \in Scheds
  BY GraphSays DEF SchedInv, Order, Orderly
<1>2. sched.mReady \in Seq(Nat) /\ sched.mNextRound \in Seq(Nat)
  BY <1>1, SchedFacts
<1>3. /\ sched.mTaskIdx \in 0 .. MaxTask /\ Live(sched) \subseteq Issued /\ closures \subseteq Issued
      /\ bornType \in [Idx -> {"Round", "Continuation"}] /\ upAtBirth \in [Idx -> SUBSET Idx]
      /\ \A x \in Idx : upAtBirth[x] \subseteq Issued
  BY <1>1 DEF GraphOf, Issued
<1>4. Issued \subseteq Idx
  BY <1>3, MaxTaskAssumption DEF Issued, Idx
<1>5. ASSUME NEW x \in ToSet(sched.mReady) \cup ToSet(sched.mNextRound)
      PROVE  x \in Live(sched) \ closures /\ upAtBirth[x] \cap Live(sched) = {}
  BY <1>1 DEF GraphOf
<1>6. ASSUME NEW x \in Issued \ Live(sched) PROVE upAtBirth[x] \cap Live(sched) = {}
  BY <1>4 DEF SchedInv, GP!GraphInv, GP!HistoryKept, GP!Completed, GP!Issued, Issued
<1> QED
  BY <1>2, <1>3, <1>4, <1>5, <1>6

(* addTask and addClosure never throw, and append to one queue at most.    *)
LEMMA AddSays ==
  ASSUME SchedInv, NEW t \in TaskTypes, NEW deps \in SUBSET Issued, Add(t, deps)
  PROVE  /\ sched'.threw = "no" /\ sched'.mTaskIdx = sched.mTaskIdx + 1
         /\ Live(sched') = Live(sched) \cup {sched.mTaskIdx} /\ sched'.mNextRound = sched.mNextRound
         /\ sched'.mReady = IF deps \cap Live(sched) = {} THEN Append(sched.mReady, sched.mTaskIdx) ELSE sched.mReady
<1>1. /\ GraphOf(sched, closures, bornType, upAtBirth) /\ Orderly(sched, closures, bornType, upAtBirth)
      /\ sched \in Scheds
  BY GraphSays DEF SchedInv, Order, Orderly
<1>2. sched.threw = "no" /\ sched.mTaskIdx < MaxTask /\ sched' = AddTask(sched, t, deps) /\ IsType(t)
  BY TaskTypesAssumption DEF Add, IsType
<1>3. sched.mTaskIdx \notin Live(sched)
  BY <1>1, <1>2, NextIsNew
<1>4. AddedTask(sched, sched', t, deps \cap Live(sched))
  BY <1>1, <1>2, <1>3, AddTaskIs
<1> QED
  BY <1>4 DEF AddedTask

LEMMA CloseSays ==
  ASSUME SchedInv, NEW deps \in SUBSET Issued, Close(deps)
  PROVE  /\ sched'.threw = "no" /\ sched'.mTaskIdx = sched.mTaskIdx + 1
         /\ Live(sched') = IF deps \cap Live(sched) = {} THEN Live(sched) ELSE Live(sched) \cup {sched.mTaskIdx}
         /\ sched'.mReady = sched.mReady /\ sched'.mNextRound = sched.mNextRound
<1>1. /\ GraphOf(sched, closures, bornType, upAtBirth) /\ Orderly(sched, closures, bornType, upAtBirth)
      /\ sched \in Scheds
  BY GraphSays DEF SchedInv, Order, Orderly
<1>2. sched.threw = "no" /\ sched.mTaskIdx < MaxTask /\ sched' = AddClosure(sched, deps)
  BY DEF Close
<1>3. sched.mTaskIdx \notin Live(sched)
  BY <1>1, <1>2, NextIsNew
<1>4. AddedClosure(sched, sched', deps \cap Live(sched))
  BY <1>1, <1>2, <1>3, AddClosureIs
<1> QED
  BY <1>4 DEF AddedClosure

(* currentTask takes the next round for the exhausted one.                 *)
LEMMA CurrentSays ==
  ASSUME SchedInv, sched.threw = "no", sched.mReady = <<>>
  PROVE  LET s == CurrentTask(sched) IN
         /\ s.threw = (IF sched.mNextRound = <<>> THEN "currentTask" ELSE "no") /\ s.mTaskIdx = sched.mTaskIdx
         /\ Live(s) = Live(sched) /\ s.mReady = sched.mNextRound /\ s.mNextRound = <<>>
<1>1. sched \in Scheds
  BY DEF SchedInv, Order, Orderly
<1>2. Exchanged(sched, CurrentTask(sched))
  BY <1>1, CurrentTaskIs
<1> QED
  BY <1>2 DEF Exchanged, Live

(* popTask does not throw, and removes its task and closures.              *)
LEMMA PopSays ==
  ASSUME SchedInv, Pop
  PROVE  /\ Head(sched.mReady) \in ToSet(sched.mReady)
         /\ sched'.threw = "no" /\ sched'.mTaskIdx = sched.mTaskIdx /\ Live(sched') \subseteq Live(sched)
         /\ Head(sched.mReady) \notin Live(sched')
         /\ \A x \in Live(sched) \ Live(sched') : x = Head(sched.mReady) \/ x \in closures
         /\ \A x \in ToSet(sched'.mReady) : x \in ToSet(sched.mReady) \/ bornType[x] # "Round"
<1>1. /\ GraphOf(sched, closures, bornType, upAtBirth) /\ Orderly(sched, closures, bornType, upAtBirth)
      /\ sched \in Scheds
  BY GraphSays DEF SchedInv, Order, Orderly
<1>2. /\ sched.threw = "no" /\ sched.mReady # <<>> /\ sched' = PopTask(sched)
  BY DEF Pop
<1>3. PICK w : w = FrontOf(sched, closures, upAtBirth)
  OBVIOUS
<1>4. /\ w.before = sched /\ w.popped = Head(sched.mReady) /\ w.closures = closures /\ w.birth = upAtBirth
      /\ LiveIn(w) = Live(sched) /\ CanPop(w) /\ Head(sched.mReady) \in ToSet(sched.mReady)
  BY <1>1, <1>2, <1>3, FrontOfIs, FrontCanPop
<1>5. PICK D : Popped(w, sched', D) /\ PoppedQueues(w, sched', D)
  BY <1>1, <1>2, <1>4, PopTaskIs DEF Orderly, QueuesOk
<1>6. /\ sched'.threw = "no" /\ sched'.mTaskIdx = sched.mTaskIdx /\ Live(sched') = Live(sched) \ D
      /\ Head(sched.mReady) \in D /\ \A x \in D : x = Head(sched.mReady) \/ x \in closures
  BY <1>4, <1>5 DEF Popped
<1>7. ASSUME NEW x \in ToSet(sched'.mReady) PROVE x \in ToSet(sched.mReady) \/ bornType[x] # "Round"
  <2>1. x \in ToSet(sched.mReady) \/ x \in ReadyBy(w, D)
    BY <1>4, <1>5 DEF PoppedQueues
  <2>2. ASSUME x \in ReadyBy(w, D) PROVE bornType[x] # "Round"
    <3>1. x \in Live(sched) /\ Typ(sched, x) # "Round"
      BY <1>4, <2>2 DEF ReadyBy, FreedBy
    <3>2. Typ(sched, x) = bornType[x]
      BY <1>1, <3>1 DEF Orderly, ListsOk
    <3> QED
      BY <3>1, <3>2
  <2> QED
    BY <2>1, <2>2
<1> QED
  BY <1>4, <1>6, <1>7

(* What the graph promises, of the scheduler.                              *)
Promises == GP!ClosureCovers /\ GP!NeverStuck /\ GP!TaskRemains

LEMMA PromisesKept == Spec => []Promises
<1>1. GP!Init /\ [][GP!Next]_(GP!vars) => []GP!NeverStuck
  BY MaxTaskAssumption, GP!NeverStuckHolds DEF GP!Spec
<1>2. GP!Init /\ [][GP!Next]_(GP!vars) => []GP!ClosureCovers
  BY MaxTaskAssumption, GP!ClosureCoversHolds DEF GP!Spec
<1>3. GP!Init /\ [][GP!Next]_(GP!vars) => []GP!TaskRemains
  BY MaxTaskAssumption, GP!TaskRemainsHolds DEF GP!Spec
<1>4. G!Init => GP!Init
  BY Zenon DEF G!Init, GP!Init, G!Nothing, GP!Nothing, G!Idx, GP!Idx
<1> QED
  BY <1>1, <1>2, <1>3, <1>4, SchedStart, SchedStep, GraphNext, PTL DEF Spec, Promises

(* And that one does not either, unless the program has added a task       *)
(* behind a closure that has to wait for that very task.                   *)
THEOREM AcyclicNeverThrows == Spec => [](acyclic => sched.threw = "no")
<1> DEFINE Calm == acyclic => sched.threw = "no"
<1>1. Init => Calm
  BY DEF Init, NewScheduler
<1>2. SchedInv /\ Promises /\ Calm /\ [Next]_vars => Calm'
  <2> SUFFICES ASSUME SchedInv, Promises, Calm, [Next]_vars, acyclic' PROVE sched'.threw = "no"
    OBVIOUS
  <2>1. ASSUME NEW t \in TaskTypes, NEW deps \in SUBSET Issued, Add(t, deps) PROVE sched'.threw = "no"
    BY <2>1, AddSays
  <2>2. ASSUME NEW deps \in SUBSET Issued, Close(deps) PROVE sched'.threw = "no"
    BY <2>2, CloseSays
  <2>3. CASE Current
    <3>1. /\ sched.threw = "no" /\ sched.mReady = <<>> /\ Live(sched) # {} /\ acyclic
          /\ sched' = CurrentTask(sched)
      BY <2>3 DEF Current
    <3>2. ToSet(sched.mReady) \cup ToSet(sched.mNextRound) # {}
      BY <3>1 DEF Promises, GP!NeverStuck
    <3>3. sched.mNextRound # <<>>
      <4>1. ToSet(<<>>) = {}
        BY DEF ToSet
      <4> QED
        BY <3>1, <3>2, <4>1
    <3> QED
      BY <3>1, <3>3, CurrentSays
  <2>4. CASE Pop
    BY <2>4, PopSays
  <2>5. CASE UNCHANGED vars
    BY <2>5 DEF vars
  <2> QED
    BY <2>1, <2>2, <2>3, <2>4, <2>5 DEF Next
<1> QED
  BY <1>1, <1>2, SchedInvariant, PromisesKept, PTL DEF Spec
=============================================================================
