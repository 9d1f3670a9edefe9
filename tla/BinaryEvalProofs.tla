-------------------------- MODULE BinaryEvalProofs --------------------------
(***************************************************************************)
(* What BinaryEval does, for every workload and every random streams.      *)
(*                                                                         *)
(* The shares that the parties would hold if they went through a circuit   *)
(* together, level by level, are a function of what never changes: Run.    *)
(* LevelTogether says that the gates of one level, done by each party on   *)
(* its two shares, do on the opened bits what the level says, and RunOpens *)
(* that the circuit does.  The parties are not together: the invariant     *)
(* EvalInv says, of each of them, that wherever it is it holds the shares  *)
(* of Run there (but for the second shares still to be received), and of   *)
(* each message that was sent and not taken, that it is the next one for   *)
(* its receiver and holds the shares of Run of its level.  EvalInv(FALSE)  *)
(* says this of the lengths and the order alone and always holds;          *)
(* EvalInv(TRUE), with the values, needs the buffers of the sends to live  *)
(* until they are sent, and TimeInv says when they do.                     *)
(***************************************************************************)
EXTENDS BinaryEval, FoldFacts, SequenceTheorems

LEMMA BitFacts ==
  ASSUME NEW a, NEW b, a \in Bit, b \in Bit
  PROVE  /\ X(a, b) \in Bit /\ N(a) \in Bit /\ a * b \in Bit
         /\ X(a, b) = IF a = b THEN 0 ELSE 1
         /\ N(a) = IF a = 0 THEN 1 ELSE 0
         /\ a * b = IF a = 0 THEN 0 ELSE b
<1>1. \A x \in {0, 1} : \A y \in {0, 1} : X(x, y) = IF x = y THEN 0 ELSE 1
  BY DEF X
<1>2. N(a) = IF a = 0 THEN 1 ELSE 0
  BY DEF N, Bit
<1>3. a * b = IF a = 0 THEN 0 ELSE b
  BY DEF Bit
<1> QED
  BY <1>1, <1>2, <1>3 DEF Bit

LEMMA SharesAreBits ==
  ASSUME NEW aes, NEW i
  PROVE  RandBit(aes, i) \in Bit /\ GetShares(aes, i) \in Bit
<1>1. \A s : RandBit(s, i) \in Bit
  BY DEF RandBit, Bit
<1> QED
  BY <1>1, BitFacts DEF GetShares

LEMMA LinearBits ==
  ASSUME NEW type, NEW a, NEW b, type \in Linear, a \in Bit, type # "a" => b \in Bit
  PROVE  LinearShare(type, a, b) \in Bit
<1>1. CASE type = "Xor"
  BY <1>1, BitFacts DEF LinearShare
<1>2. CASE type = "Nxor"
  <2>1. X(a, b) \in Bit
    BY <1>2, BitFacts
  <2> QED
    BY <1>2, <2>1, BitFacts DEF LinearShare
<1>3. CASE type = "a"
  BY <1>3 DEF LinearShare
<1> QED
  BY <1>1, <1>2, <1>3 DEF Linear

LEMMA NonlinearBits ==
  ASSUME NEW type, NEW a, NEW b, NEW c, NEW d,
         type \in Nonlinear, a \in Bit, b \in Bit, c \in Bit, d \in Bit
  PROVE  NonlinearShare(type, a, b, c, d) \in Bit
<1>1. \A x, y \in Bit : X(x, y) \in Bit /\ N(x) \in Bit /\ x * y \in Bit
  BY BitFacts
<1>2. AndShare(a, b, c, d) \in Bit
  BY <1>1 DEF AndShare
<1>3. NorShare(a, b, c, d) \in Bit
  <2>1. N(a) \in Bit /\ N(b) \in Bit /\ N(c) \in Bit /\ N(d) \in Bit
    BY <1>1
  <2> QED
    BY <1>1, <2>1 DEF NorShare
<1>4. OrShare(a, b, c, d) \in Bit
  BY <1>1, <1>2 DEF OrShare
<1>5. NaAndShare(a, b, c, d) \in Bit
  <2>1. N(a) \in Bit /\ N(b) \in Bit
    BY <1>1
  <2> QED
    BY <1>1, <2>1 DEF NaAndShare
<1> QED
  BY <1>2, <1>3, <1>4, <1>5 DEF NonlinearShare, Nonlinear

(* What a level's gates pass through, and each gate's effect.              *)
LevelStates(cir) == [m : [{0, 1} -> [Wires(cir) -> Bit]], idx : Nat, locs : Seq(Wires(cir)), buff : Seq(Bit)]
OwnShare(aes, r, g) ==
  X(NonlinearShare(g.type, r.m[0][g.in0], r.m[1][g.in0], r.m[0][g.in1], r.m[1][g.in1]), GetShares(aes, r.idx))

LEMMA GateFields ==
  ASSUME NEW cir, NEW g, g \in Gates(cir)
  PROVE  /\ g.type \in Linear \cup Nonlinear /\ g.in0 \in Wires(cir) /\ g.out \in Wires(cir)
         /\ g.type # "a" => g.in1 \in Wires(cir)
         /\ g.type \in Nonlinear => g.type \notin Linear /\ g.in1 \in Wires(cir)
  BY DEF Gates, Linear, Nonlinear

LEMMA LinearGate ==
  ASSUME NEW aes, NEW cir, NEW r, NEW g, r \in LevelStates(cir), g \in Gates(cir), g.type \in Linear
  PROVE  /\ Gate(aes, r, g) \in LevelStates(cir)
         /\ Gate(aes, r, g).idx = r.idx /\ Gate(aes, r, g).locs = r.locs /\ Gate(aes, r, g).buff = r.buff
         /\ \A s \in {0, 1} : \A w \in Wires(cir) : Gate(aes, r, g).m[s][w] =
              IF w = g.out THEN LinearShare(g.type, r.m[s][g.in0], r.m[s][g.in1]) ELSE r.m[s][w]
<1> DEFINE v(s) == LinearShare(g.type, r.m[s][g.in0], r.m[s][g.in1])
           W == Wires(cir)
<1>1. g.in0 \in W /\ g.out \in W /\ (g.type # "a" => g.in1 \in W)
  BY GateFields
<1>2. r.m \in [{0, 1} -> [W -> Bit]] /\ r.idx \in Nat /\ r.locs \in Seq(W) /\ r.buff \in Seq(Bit)
  BY DEF LevelStates
<1>3. v(0) \in Bit /\ v(1) \in Bit
  <2> HIDE DEF W
  <2> QED
    BY <1>1, <1>2, LinearBits
<1>4. Gate(aes, r, g) = [r EXCEPT !.m[0][g.out] = v(0), !.m[1][g.out] = v(1)]
  BY DEF Gate
<1> HIDE DEF v, W
<1> DEFINE G == [r EXCEPT !.m[0][g.out] = v(0), !.m[1][g.out] = v(1)]
<1>5. G \in LevelStates(cir)
  BY <1>1, <1>2, <1>3 DEF LevelStates, W
<1>6. G.idx = r.idx /\ G.locs = r.locs /\ G.buff = r.buff
  BY DEF LevelStates
<1>7. \A s \in {0, 1} : \A w \in W : G.m[s][w] = IF w = g.out THEN v(s) ELSE r.m[s][w]
  BY <1>1, <1>2 DEF LevelStates
<1> HIDE DEF G
<1> QED
  BY <1>4, <1>5, <1>6, <1>7 DEF G, v, W

LEMMA NonlinearGate ==
  ASSUME NEW aes, NEW cir, NEW r, NEW g, r \in LevelStates(cir), g \in Gates(cir), g.type \in Nonlinear
  PROVE  /\ Gate(aes, r, g) \in LevelStates(cir) /\ OwnShare(aes, r, g) \in Bit
         /\ Gate(aes, r, g).idx = r.idx + 1
         /\ Gate(aes, r, g).locs = Append(r.locs, g.out)
         /\ Gate(aes, r, g).buff = Append(r.buff, OwnShare(aes, r, g))
         /\ \A w \in Wires(cir) : Gate(aes, r, g).m[0][w] = IF w = g.out THEN OwnShare(aes, r, g) ELSE r.m[0][w]
         /\ Gate(aes, r, g).m[1] = r.m[1]
<1> DEFINE v == OwnShare(aes, r, g)
           W == Wires(cir)
<1>1. g.in0 \in W /\ g.out \in W /\ g.in1 \in W /\ g.type \notin Linear
  BY GateFields
<1>2. r.m \in [{0, 1} -> [W -> Bit]] /\ r.idx \in Nat /\ r.locs \in Seq(W) /\ r.buff \in Seq(Bit)
  BY DEF LevelStates
<1>3. v \in Bit
  <2>1. NonlinearShare(g.type, r.m[0][g.in0], r.m[1][g.in0], r.m[0][g.in1], r.m[1][g.in1]) \in Bit
    <3> HIDE DEF W
    <3> QED
      BY <1>1, <1>2, NonlinearBits
  <2>2. GetShares(aes, r.idx) \in Bit
    BY SharesAreBits
  <2> QED
    BY <2>1, <2>2, BitFacts DEF OwnShare
<1>4. Gate(aes, r, g) = [r EXCEPT !.m[0][g.out] = v, !.idx = @ + 1,
                                  !.locs = Append(@, g.out), !.buff = Append(@, v)]
  BY <1>1 DEF Gate, OwnShare
<1> HIDE DEF v, W
<1> DEFINE G == [r EXCEPT !.m[0][g.out] = v, !.idx = @ + 1, !.locs = Append(@, g.out), !.buff = Append(@, v)]
<1>5. G \in LevelStates(cir)
  <2> DEFINE m2 == [r.m EXCEPT ![0][g.out] = v]
             l2 == Append(r.locs, g.out)
             b2 == Append(r.buff, v)
  <2>1. m2 \in [{0, 1} -> [W -> Bit]]
    BY <1>1, <1>2, <1>3
  <2>2. l2 \in Seq(W) /\ b2 \in Seq(Bit) /\ r.idx + 1 \in Nat
    BY <1>1, <1>2, <1>3
  <2>3. G = [m |-> m2, idx |-> r.idx + 1, locs |-> l2, buff |-> b2]
    <3> DEFINE r1 == [r EXCEPT !.m[0][g.out] = v]
               r2 == [r1 EXCEPT !.idx = r.idx + 1]
               r3 == [r2 EXCEPT !.locs = l2]
               r4 == [r3 EXCEPT !.buff = b2]
    <3>0. r = [m |-> r.m, idx |-> r.idx, locs |-> r.locs, buff |-> r.buff]
      BY DEF LevelStates
    <3>1. r1 = [m |-> m2, idx |-> r.idx, locs |-> r.locs, buff |-> r.buff]
      <4>1. r1 = [r EXCEPT !.m = m2]
        BY <3>0
      <4>2. [r EXCEPT !.m = m2] = [m |-> m2, idx |-> r.idx, locs |-> r.locs, buff |-> r.buff]
        <5> HIDE DEF m2
        <5> QED
          BY <3>0
      <4> QED
        BY <4>1, <4>2
    <3>2. r2 = [m |-> m2, idx |-> r.idx + 1, locs |-> r.locs, buff |-> r.buff]
      <4> HIDE DEF r1, m2, l2, b2
      <4> QED
        BY <3>1
    <3>3. r3 = [m |-> m2, idx |-> r.idx + 1, locs |-> l2, buff |-> r.buff]
      <4> HIDE DEF r2, m2, l2, b2
      <4> QED
        BY <3>2
    <3>4. r4 = [m |-> m2, idx |-> r.idx + 1, locs |-> l2, buff |-> b2]
      <4> HIDE DEF r3, m2, l2, b2
      <4> QED
        BY <3>3
    <3>5. G = r4
      OBVIOUS
    <3> HIDE DEF r4, G
    <3> QED
      BY <3>4, <3>5
  <2> HIDE DEF m2, l2, b2, G
  <2> QED
    BY <2>1, <2>2, <2>3 DEF LevelStates, W
<1>6. G.idx = r.idx + 1 /\ G.locs = Append(r.locs, g.out) /\ G.buff = Append(r.buff, v)
  BY DEF LevelStates
<1>7. \A w \in W : G.m[0][w] = IF w = g.out THEN v ELSE r.m[0][w]
  BY <1>1, <1>2 DEF LevelStates
<1>8. G.m[1] = r.m[1]
  BY <1>1, <1>2 DEF LevelStates
<1> HIDE DEF G
<1> QED
  BY <1>3, <1>4, <1>5, <1>6, <1>7, <1>8 DEF G, v, W

-----------------------------------------------------------------------------
(* One level of gates of one party.                                        *)
(* What a level passes through, gate after gate.                           *)
GateTrace(T, aes, cir, base, level) ==
  /\ T \in [0 .. Len(level) -> LevelStates(cir)] /\ T[0] = base
  /\ \A k \in 1 .. Len(level) : T[k] = Gate(aes, T[k - 1], level[k])
  /\ EvalLevel(aes, base, level) = T[Len(level)]

LEMMA GateKeeps ==
  ASSUME NEW aes, NEW cir, NEW r, NEW g, r \in LevelStates(cir), g \in Gates(cir)
  PROVE  Gate(aes, r, g) \in LevelStates(cir)
<1>1. g.type \in Linear \cup Nonlinear
  BY GateFields
<1> QED
  BY <1>1, LinearGate, NonlinearGate

LEMMA LevelTrace ==
  ASSUME NEW aes, NEW cir, NEW base, NEW level, base \in LevelStates(cir), level \in Seq(Gates(cir))
  PROVE  \E T : GateTrace(T, aes, cir, base, level)
<1> DEFINE n == Len(level)
           D == LevelStates(cir)
           St == [x \in D \X (1 .. n) |-> Gate(aes, x[1], level[x[2]])]
<1>1. n \in Nat /\ DOMAIN level = 1 .. n /\ \A k \in 1 .. n : level[k] \in Gates(cir)
  BY LenProperties
<1> HIDE DEF n, D
<1>2. \A r \in D : \A k \in 1 .. n : Gate(aes, r, level[k]) \in D
  BY <1>1, GateKeeps DEF D
<1>3. St \in [D \X (1 .. n) -> D]
  BY <1>2
<1>4. base \in D
  BY DEF D
<1>5. PICK F \in [SUBSET (1 .. n) -> D] : Folds(F, n, base, St)
  <2> HIDE DEF St
  <2> QED
    BY <1>1, <1>3, <1>4, FoldExists
<1> DEFINE Is(G) == G = [s \in SUBSET (1 .. n) |-> IF s = {} THEN base ELSE Gate(aes, G[s \ {Max(s)}], level[Max(s)])]
           iter == CHOOSE G : Is(G)
<1>6. ASSUME NEW G, NEW s \in SUBSET (1 .. n), s # {}, G[s \ {Max(s)}] \in D
      PROVE  St[<<G[s \ {Max(s)}], Max(s)>>] = Gate(aes, G[s \ {Max(s)}], level[Max(s)])
  <2>1. Max(s) \in 1 .. n
    BY <1>1, <1>6, MaxOfSubset
  <2> HIDE DEF Max
  <2> QED
    BY <1>6, <2>1
<1>7. Is(F)
  <2>1. \A s \in SUBSET (1 .. n) : s # {} => F[s \ {Max(s)}] \in D
    BY <1>5
  <2> HIDE DEF St
  <2>2. \A s \in SUBSET (1 .. n) : s # {} => St[<<F[s \ {Max(s)}], Max(s)>>] = Gate(aes, F[s \ {Max(s)}], level[Max(s)])
    BY <1>6, <2>1
  <2> QED
    BY <1>5, <2>2 DEF Folds
<1>8. Is(iter) /\ EvalLevel(aes, base, level) = iter[1 .. n]
  <2>1. Is(iter)
    <3> HIDE DEF Is
    <3> QED
      BY <1>7
  <2>2. EvalLevel(aes, base, level) = iter[DOMAIN level]
    BY <1>1, Zenon DEF EvalLevel, FoldLeft, MapThenFoldSet
  <2> HIDE DEF iter
  <2> QED
    BY <1>1, <2>1, <2>2
<1> HIDE DEF iter
<1> DEFINE T == OnPrefixes(iter, n)
<1>9. Traces(T, n, D, base, St) /\ T[n] = iter[1 .. n]
  <2>1. iter[{}] = base
    BY <1>8
  <2>2. \A s \in SUBSET (1 .. n) :
          s # {} /\ iter[s \ {Max(s)}] \in D => iter[s] = St[<<iter[s \ {Max(s)}], Max(s)>>]
    <3> HIDE DEF St, Max
    <3> QED
      BY <1>6, <1>8
  <2> HIDE DEF St, Is
  <2>3. Unfolds(iter, n, D, base, St)
    BY <1>1, <1>3, <1>4, <2>1, <2>2 DEF Unfolds
  <2> QED
    BY <2>3, FoldTrace
<1> HIDE DEF T, Is
<1>10. \A k \in 1 .. n : T[k] = Gate(aes, T[k - 1], level[k])
  <2> SUFFICES ASSUME NEW k \in 1 .. n PROVE T[k] = Gate(aes, T[k - 1], level[k])
    OBVIOUS
  <2>1. k - 1 \in 0 .. n
    BY <1>1
  <2>2. T[k - 1] \in D
    BY <1>9, <2>1 DEF Traces
  <2>3. T[k] = St[<<T[k - 1], k>>]
    BY <1>9 DEF Traces
  <2> QED
    BY <2>2, <2>3
<1>11. GateTrace(T, aes, cir, base, level)
  BY <1>8, <1>9, <1>10 DEF GateTrace, Traces, n, D
<1> QED
  BY <1>11

(* The wires whose second shares a level leaves to be received.            *)
AddLoc(s, g) == IF g.type \in Nonlinear THEN Append(s, g.out) ELSE s
LocsOf(level) == FoldLeft(AddLoc, <<>>, level)
LocsTrace(T, cir, level) ==
  /\ T \in [0 .. Len(level) -> Seq(Wires(cir))] /\ T[0] = <<>>
  /\ \A k \in 1 .. Len(level) : T[k] = AddLoc(T[k - 1], level[k])
  /\ LocsOf(level) = T[Len(level)]

LEMMA LocsTraced ==
  ASSUME NEW cir, NEW level, level \in Seq(Gates(cir))
  PROVE  \E T : LocsTrace(T, cir, level)
<1> DEFINE n == Len(level)
           base == <<>>
           D == Seq(Wires(cir))
           St == [x \in D \X (1 .. n) |-> AddLoc(x[1], level[x[2]])]
<1>1. n \in Nat /\ DOMAIN level = 1 .. n /\ \A k \in 1 .. n : level[k] \in Gates(cir)
  BY LenProperties
<1> HIDE DEF n, D, base
<1>2. \A r \in D : \A k \in 1 .. n : AddLoc(r, level[k]) \in D
  BY <1>1, GateFields DEF D, AddLoc
<1>3. St \in [D \X (1 .. n) -> D]
  BY <1>2
<1>4. base \in D
  BY DEF D, base
<1>5. PICK F \in [SUBSET (1 .. n) -> D] : Folds(F, n, base, St)
  <2> HIDE DEF St
  <2> QED
    BY <1>1, <1>3, <1>4, FoldExists
<1> DEFINE Is(G) == G = [s \in SUBSET (1 .. n) |-> IF s = {} THEN base ELSE AddLoc(G[s \ {Max(s)}], level[Max(s)])]
           iter == CHOOSE G : Is(G)
<1>6. ASSUME NEW G, NEW s \in SUBSET (1 .. n), s # {}, G[s \ {Max(s)}] \in D
      PROVE  St[<<G[s \ {Max(s)}], Max(s)>>] = AddLoc(G[s \ {Max(s)}], level[Max(s)])
  <2>1. Max(s) \in 1 .. n
    BY <1>1, <1>6, MaxOfSubset
  <2> HIDE DEF Max
  <2> QED
    BY <1>6, <2>1
<1>7. Is(F)
  <2>1. \A s \in SUBSET (1 .. n) : s # {} => F[s \ {Max(s)}] \in D
    BY <1>5
  <2> HIDE DEF St
  <2>2. \A s \in SUBSET (1 .. n) : s # {} => St[<<F[s \ {Max(s)}], Max(s)>>] = AddLoc(F[s \ {Max(s)}], level[Max(s)])
    BY <1>6, <2>1
  <2> QED
    BY <1>5, <2>2 DEF Folds
<1>8. Is(iter) /\ LocsOf(level) = iter[1 .. n]
  <2>1. Is(iter)
    <3> HIDE DEF Is
    <3> QED
      BY <1>7
  <2>2. LocsOf(level) = iter[DOMAIN level]
    BY <1>1, Zenon DEF base, LocsOf, FoldLeft, MapThenFoldSet
  <2> HIDE DEF iter
  <2> QED
    BY <1>1, <2>1, <2>2
<1> HIDE DEF iter
<1> DEFINE T == OnPrefixes(iter, n)
<1>9. Traces(T, n, D, base, St) /\ T[n] = iter[1 .. n]
  <2>1. iter[{}] = base
    BY <1>8
  <2>2. \A s \in SUBSET (1 .. n) :
          s # {} /\ iter[s \ {Max(s)}] \in D => iter[s] = St[<<iter[s \ {Max(s)}], Max(s)>>]
    <3> HIDE DEF St, Max
    <3> QED
      BY <1>6, <1>8
  <2> HIDE DEF St, Is
  <2>3. Unfolds(iter, n, D, base, St)
    BY <1>1, <1>3, <1>4, <2>1, <2>2 DEF Unfolds
  <2> QED
    BY <2>3, FoldTrace
<1> HIDE DEF T, Is
<1>10. \A k \in 1 .. n : T[k] = AddLoc(T[k - 1], level[k])
  <2> SUFFICES ASSUME NEW k \in 1 .. n PROVE T[k] = AddLoc(T[k - 1], level[k])
    OBVIOUS
  <2>1. k - 1 \in 0 .. n
    BY <1>1
  <2>2. T[k - 1] \in D
    BY <1>9, <2>1 DEF Traces
  <2>3. T[k] = St[<<T[k - 1], k>>]
    BY <1>9 DEF Traces
  <2> QED
    BY <2>2, <2>3
<1>11. LocsTrace(T, cir, level)
  BY <1>8, <1>9, <1>10 DEF LocsTrace, Traces, n, D, base
<1> QED
  BY <1>11

(* The plain values that a level and a circuit pass through.               *)
PlainTrace(T, cir, base, level) ==
  /\ T \in [0 .. Len(level) -> [Wires(cir) -> Bit]] /\ T[0] = base
  /\ \A k \in 1 .. Len(level) : T[k] = PlainGate(T[k - 1], level[k])
  /\ PlainLevel(base, level) = T[Len(level)]

LEMMA PlainGateKeeps ==
  ASSUME NEW cir, NEW v, NEW g, v \in [Wires(cir) -> Bit], g \in Gates(cir)
  PROVE  PlainGate(v, g) \in [Wires(cir) -> Bit]
<1>1. g.out \in Wires(cir) /\ g.in0 \in Wires(cir) /\ (g.type # "a" => g.in1 \in Wires(cir))
  BY GateFields
<1> DEFINE a == v[g.in0]
           b == v[g.in1]
<1>2. a \in Bit /\ (g.type # "a" => b \in Bit)
  BY <1>1
<1>3. g.type \in Linear \cup Nonlinear
  BY GateFields
<1>4. \A x, y \in Bit : X(x, y) \in Bit /\ N(x) \in Bit /\ x * y \in Bit
  BY BitFacts
<1>5. \A e \in Bit : [v EXCEPT ![g.out] = e] \in [Wires(cir) -> Bit]
  BY <1>1
<1> HIDE DEF a, b
<1>6. CASE g.type = "a"
  BY <1>2, <1>5, <1>6 DEF PlainGate, a
<1>7. CASE g.type # "a"
  <2>1. X(a, b) \in Bit /\ N(X(a, b)) \in Bit /\ a * b \in Bit /\ N(N(a) * N(b)) \in Bit
        /\ N(a) * N(b) \in Bit /\ N(a) * b \in Bit
    <3>1. b \in Bit /\ N(a) \in Bit /\ X(a, b) \in Bit
      BY <1>2, <1>4, <1>7
    <3>2. N(b) \in Bit
      BY <1>4, <3>1
    <3> QED
      BY <1>2, <1>4, <3>1, <3>2
  <2> QED
    BY <1>3, <1>5, <1>7, <2>1 DEF PlainGate, Linear, Nonlinear, a, b
<1> QED
  BY <1>6, <1>7

LEMMA PlainTraced ==
  ASSUME NEW cir, NEW base, NEW level, base \in [Wires(cir) -> Bit], level \in Seq(Gates(cir))
  PROVE  \E T : PlainTrace(T, cir, base, level)
<1> DEFINE n == Len(level)
           D == [Wires(cir) -> Bit]
           St == [x \in D \X (1 .. n) |-> PlainGate(x[1], level[x[2]])]
<1>1. n \in Nat /\ DOMAIN level = 1 .. n /\ \A k \in 1 .. n : level[k] \in Gates(cir)
  BY LenProperties
<1> HIDE DEF n, D
<1>2. \A r \in D : \A k \in 1 .. n : PlainGate(r, level[k]) \in D
  BY <1>1, PlainGateKeeps DEF D
<1>3. St \in [D \X (1 .. n) -> D]
  BY <1>2
<1>4. base \in D
  BY DEF D
<1>5. PICK F \in [SUBSET (1 .. n) -> D] : Folds(F, n, base, St)
  <2> HIDE DEF St
  <2> QED
    BY <1>1, <1>3, <1>4, FoldExists
<1> DEFINE Is(G) == G = [s \in SUBSET (1 .. n) |-> IF s = {} THEN base ELSE PlainGate(G[s \ {Max(s)}], level[Max(s)])]
           iter == CHOOSE G : Is(G)
<1>6. ASSUME NEW G, NEW s \in SUBSET (1 .. n), s # {}, G[s \ {Max(s)}] \in D
      PROVE  St[<<G[s \ {Max(s)}], Max(s)>>] = PlainGate(G[s \ {Max(s)}], level[Max(s)])
  <2>1. Max(s) \in 1 .. n
    BY <1>1, <1>6, MaxOfSubset
  <2> HIDE DEF Max
  <2> QED
    BY <1>6, <2>1
<1>7. Is(F)
  <2>1. \A s \in SUBSET (1 .. n) : s # {} => F[s \ {Max(s)}] \in D
    BY <1>5
  <2> HIDE DEF St
  <2>2. \A s \in SUBSET (1 .. n) : s # {} => St[<<F[s \ {Max(s)}], Max(s)>>] = PlainGate(F[s \ {Max(s)}], level[Max(s)])
    BY <1>6, <2>1
  <2> QED
    BY <1>5, <2>2 DEF Folds
<1>8. Is(iter) /\ PlainLevel(base, level) = iter[1 .. n]
  <2>1. Is(iter)
    <3> HIDE DEF Is
    <3> QED
      BY <1>7
  <2>2. PlainLevel(base, level) = iter[DOMAIN level]
    BY <1>1, Zenon DEF PlainLevel, FoldLeft, MapThenFoldSet
  <2> HIDE DEF iter
  <2> QED
    BY <1>1, <2>1, <2>2
<1> HIDE DEF iter
<1> DEFINE T == OnPrefixes(iter, n)
<1>9. Traces(T, n, D, base, St) /\ T[n] = iter[1 .. n]
  <2>1. iter[{}] = base
    BY <1>8
  <2>2. \A s \in SUBSET (1 .. n) :
          s # {} /\ iter[s \ {Max(s)}] \in D => iter[s] = St[<<iter[s \ {Max(s)}], Max(s)>>]
    <3> HIDE DEF St, Max
    <3> QED
      BY <1>6, <1>8
  <2> HIDE DEF St, Is
  <2>3. Unfolds(iter, n, D, base, St)
    BY <1>1, <1>3, <1>4, <2>1, <2>2 DEF Unfolds
  <2> QED
    BY <2>3, FoldTrace
<1> HIDE DEF T, Is
<1>10. \A k \in 1 .. n : T[k] = PlainGate(T[k - 1], level[k])
  <2> SUFFICES ASSUME NEW k \in 1 .. n PROVE T[k] = PlainGate(T[k - 1], level[k])
    OBVIOUS
  <2>1. k - 1 \in 0 .. n
    BY <1>1
  <2>2. T[k - 1] \in D
    BY <1>9, <2>1 DEF Traces
  <2>3. T[k] = St[<<T[k - 1], k>>]
    BY <1>9 DEF Traces
  <2> QED
    BY <2>2, <2>3
<1>11. PlainTrace(T, cir, base, level)
  BY <1>8, <1>9, <1>10 DEF PlainTrace, Traces, n, D
<1> QED
  BY <1>11

LevelsTrace(T, cir, base) ==
  /\ T \in [0 .. Len(cir.levels) -> [Wires(cir) -> Bit]] /\ T[0] = base
  /\ \A k \in 1 .. Len(cir.levels) : T[k] = PlainLevel(T[k - 1], cir.levels[k])
  /\ FoldLeft(PlainLevel, base, cir.levels) = T[Len(cir.levels)]

LEMMA PlainLevelKeeps ==
  ASSUME NEW cir, NEW v, NEW level, v \in [Wires(cir) -> Bit], level \in Seq(Gates(cir))
  PROVE  PlainLevel(v, level) \in [Wires(cir) -> Bit]
<1>1. PICK T : PlainTrace(T, cir, v, level)
  BY PlainTraced
<1>2. Len(level) \in 0 .. Len(level)
  BY LenProperties
<1> QED
  BY <1>1, <1>2 DEF PlainTrace

LEMMA LevelsTraced ==
  ASSUME NEW cir, NEW base, base \in [Wires(cir) -> Bit], cir.levels \in Seq(Seq(Gates(cir)))
  PROVE  \E T : LevelsTrace(T, cir, base)
<1> DEFINE level == cir.levels
           n == Len(level)
           D == [Wires(cir) -> Bit]
           St == [x \in D \X (1 .. n) |-> PlainLevel(x[1], level[x[2]])]
<1>1. n \in Nat /\ DOMAIN level = 1 .. n /\ \A k \in 1 .. n : level[k] \in Seq(Gates(cir))
  BY LenProperties
<1> HIDE DEF n, D, level
<1>2. \A r \in D : \A k \in 1 .. n : PlainLevel(r, level[k]) \in D
  BY <1>1, PlainLevelKeeps DEF D
<1>3. St \in [D \X (1 .. n) -> D]
  BY <1>2
<1>4. base \in D
  BY DEF D
<1>5. PICK F \in [SUBSET (1 .. n) -> D] : Folds(F, n, base, St)
  <2> HIDE DEF St
  <2> QED
    BY <1>1, <1>3, <1>4, FoldExists
<1> DEFINE Is(G) == G = [s \in SUBSET (1 .. n) |-> IF s = {} THEN base ELSE PlainLevel(G[s \ {Max(s)}], level[Max(s)])]
           iter == CHOOSE G : Is(G)
<1>6. ASSUME NEW G, NEW s \in SUBSET (1 .. n), s # {}, G[s \ {Max(s)}] \in D
      PROVE  St[<<G[s \ {Max(s)}], Max(s)>>] = PlainLevel(G[s \ {Max(s)}], level[Max(s)])
  <2>1. Max(s) \in 1 .. n
    BY <1>1, <1>6, MaxOfSubset
  <2> HIDE DEF Max
  <2> QED
    BY <1>6, <2>1
<1>7. Is(F)
  <2>1. \A s \in SUBSET (1 .. n) : s # {} => F[s \ {Max(s)}] \in D
    BY <1>5
  <2> HIDE DEF St
  <2>2. \A s \in SUBSET (1 .. n) : s # {} => St[<<F[s \ {Max(s)}], Max(s)>>] = PlainLevel(F[s \ {Max(s)}], level[Max(s)])
    BY <1>6, <2>1
  <2> QED
    BY <1>5, <2>2 DEF Folds
<1>8. Is(iter) /\ FoldLeft(PlainLevel, base, level) = iter[1 .. n]
  <2>1. Is(iter)
    <3> HIDE DEF Is
    <3> QED
      BY <1>7
  <2>2. FoldLeft(PlainLevel, base, level) = iter[DOMAIN level]
    BY <1>1, Zenon DEF FoldLeft, MapThenFoldSet
  <2> HIDE DEF iter
  <2> QED
    BY <1>1, <2>1, <2>2
<1> HIDE DEF iter
<1> DEFINE T == OnPrefixes(iter, n)
<1>9. Traces(T, n, D, base, St) /\ T[n] = iter[1 .. n]
  <2>1. iter[{}] = base
    BY <1>8
  <2>2. \A s \in SUBSET (1 .. n) :
          s # {} /\ iter[s \ {Max(s)}] \in D => iter[s] = St[<<iter[s \ {Max(s)}], Max(s)>>]
    <3> HIDE DEF St, Max
    <3> QED
      BY <1>6, <1>8
  <2> HIDE DEF St, Is
  <2>3. Unfolds(iter, n, D, base, St)
    BY <1>1, <1>3, <1>4, <2>1, <2>2 DEF Unfolds
  <2> QED
    BY <2>3, FoldTrace
<1> HIDE DEF T, Is
<1>10. \A k \in 1 .. n : T[k] = PlainLevel(T[k - 1], level[k])
  <2> SUFFICES ASSUME NEW k \in 1 .. n PROVE T[k] = PlainLevel(T[k - 1], level[k])
    OBVIOUS
  <2>1. k - 1 \in 0 .. n
    BY <1>1
  <2>2. T[k - 1] \in D
    BY <1>9, <2>1 DEF Traces
  <2>3. T[k] = St[<<T[k - 1], k>>]
    BY <1>9 DEF Traces
  <2> QED
    BY <2>2, <2>3
<1>11. LevelsTrace(T, cir, base)
  BY <1>8, <1>9, <1>10 DEF LevelsTrace, Traces, n, D, level
<1> QED
  BY <1>11

-----------------------------------------------------------------------------
(* The three parties together: a level computes what it says in the open.  *)
(* The sum of three shares; the gates on shares, opened.                   *)
Opened(a, b, c) == X(X(a, b), c)

LEMMA BitsAreTruths ==
  /\ \A x, y \in Bit : /\ X(x, y) \in Bit /\ (X(x, y) = 1 <=> ~ (x = 1 <=> y = 1))
                       /\ x * y \in Bit /\ (x * y = 1 <=> x = 1 /\ y = 1)
                       /\ (x = y <=> (x = 1 <=> y = 1))
  /\ \A x \in Bit : N(x) \in Bit /\ (N(x) = 1 <=> ~ x = 1)
<1>1. \A x, y \in Bit : /\ X(x, y) \in Bit /\ X(x, y) = (IF x = y THEN 0 ELSE 1)
                        /\ x * y \in Bit /\ x * y = (IF x = 0 THEN 0 ELSE y)
  BY BitFacts
<1>2. \A x \in Bit : N(x) \in Bit /\ N(x) = (IF x = 0 THEN 1 ELSE 0)
  BY BitFacts
<1> QED
  BY <1>1, <1>2 DEF Bit

LEMMA AndOpens ==
  ASSUME NEW a0, NEW a1, NEW a2, NEW b0, NEW b1, NEW b2,
         a0 \in Bit, a1 \in Bit, a2 \in Bit, b0 \in Bit, b1 \in Bit, b2 \in Bit
  PROVE  Opened(AndShare(a0, a2, b0, b2), AndShare(a1, a0, b1, b0), AndShare(a2, a1, b2, b1))
           = Opened(a0, a1, a2) * Opened(b0, b1, b2)
  BY BitsAreTruths DEF AndShare, Opened

LEMMA OrOpens ==
  ASSUME NEW a0, NEW a1, NEW a2, NEW b0, NEW b1, NEW b2,
         a0 \in Bit, a1 \in Bit, a2 \in Bit, b0 \in Bit, b1 \in Bit, b2 \in Bit
  PROVE  Opened(OrShare(a0, a2, b0, b2), OrShare(a1, a0, b1, b0), OrShare(a2, a1, b2, b1))
           = N(N(Opened(a0, a1, a2)) * N(Opened(b0, b1, b2)))
  BY BitsAreTruths DEF AndShare, OrShare, Opened

LEMMA NorOpens ==
  ASSUME NEW a0, NEW a1, NEW a2, NEW b0, NEW b1, NEW b2,
         a0 \in Bit, a1 \in Bit, a2 \in Bit, b0 \in Bit, b1 \in Bit, b2 \in Bit
  PROVE  Opened(NorShare(a0, a2, b0, b2), NorShare(a1, a0, b1, b0), NorShare(a2, a1, b2, b1))
           = N(Opened(a0, a1, a2)) * N(Opened(b0, b1, b2))
  BY BitsAreTruths DEF NorShare, Opened

LEMMA NaAndOpens ==
  ASSUME NEW a0, NEW a1, NEW a2, NEW b0, NEW b1, NEW b2,
         a0 \in Bit, a1 \in Bit, a2 \in Bit, b0 \in Bit, b1 \in Bit, b2 \in Bit
  PROVE  Opened(NaAndShare(a0, a2, b0, b2), NaAndShare(a1, a0, b1, b0), NaAndShare(a2, a1, b2, b1))
           = N(Opened(a0, a1, a2)) * Opened(b0, b1, b2)
  BY BitsAreTruths DEF NaAndShare, Opened

(* The random shares of the three parties cancel.                          *)
LEMMA RandomCancels ==
  ASSUME NEW a, NEW b, NEW c, NEW u, NEW v, NEW w,
         a \in Bit, b \in Bit, c \in Bit, u \in Bit, v \in Bit, w \in Bit
  PROVE  Opened(X(a, X(w, u)), X(b, X(u, v)), X(c, X(v, w))) = Opened(a, b, c)
  BY BitsAreTruths DEF Opened

(* The keys of party p, of any streams (mShareAES(p) is of those in rand). *)
AesOf(rnd, p) == [s \in {0, 1} |-> IF s = 0 THEN rnd[prevOf(p)] ELSE rnd[p]]

LEMMA Parties ==
  /\ Party = {0, 1, 2}
  /\ prevOf(0) = 2 /\ prevOf(1) = 0 /\ prevOf(2) = 1
  /\ nextOf(0) = 1 /\ nextOf(1) = 2 /\ nextOf(2) = 0
  /\ \A p \in Party : prevOf(p) \in Party /\ nextOf(p) \in Party /\ prevOf(nextOf(p)) = p /\ nextOf(prevOf(p)) = p
                      /\ prevOf(p) # p /\ nextOf(p) # p
<1>1. Party = {0, 1, 2}
  BY DEF Party
<1>2. /\ prevOf(0) = 2 /\ prevOf(1) = 0 /\ prevOf(2) = 1
      /\ nextOf(0) = 1 /\ nextOf(1) = 2 /\ nextOf(2) = 0
  BY DEF prevOf, nextOf
<1> QED
  BY <1>1, <1>2

(* The second share of wire w is the first share of the party before.      *)
Consistent(r, w) == \A p \in Party : r[p].m[1][w] = r[prevOf(p)].m[0][w]
OpenedAt(r, w) == Opened(r[0].m[0][w], r[1].m[0][w], r[2].m[0][w])

LEMMA SharesOf ==
  ASSUME NEW cir, NEW r, NEW w, r \in [Party -> LevelStates(cir)], w \in Wires(cir)
  PROVE  /\ \A p \in Party, s \in {0, 1} : r[p].m[s][w] \in Bit
         /\ Consistent(r, w) => /\ r[0].m[1][w] = r[2].m[0][w] /\ r[1].m[1][w] = r[0].m[0][w]
                                /\ r[2].m[1][w] = r[1].m[0][w]
<1>1. \A p \in Party : r[p].m \in [{0, 1} -> [Wires(cir) -> Bit]]
  BY DEF LevelStates
<1> QED
  BY <1>1, Parties DEF Consistent

LEMMA NonlinearTogether ==
  ASSUME NEW rnd, NEW cir, NEW r, NEW g, NEW v,
         r \in [Party -> LevelStates(cir)], g \in Gates(cir), g.type \in Nonlinear,
         r[1].idx = r[0].idx, r[2].idx = r[0].idx, Consistent(r, g.in0), Consistent(r, g.in1),
         v \in [Wires(cir) -> Bit], v[g.in0] = OpenedAt(r, g.in0), v[g.in1] = OpenedAt(r, g.in1)
  PROVE  Opened(OwnShare(AesOf(rnd, 0), r[0], g), OwnShare(AesOf(rnd, 1), r[1], g), OwnShare(AesOf(rnd, 2), r[2], g))
           = PlainGate(v, g)[g.out]
<1> DEFINE a(p) == r[p].m[0][g.in0]
           b(p) == r[p].m[0][g.in1]
           z(k) == RandBit(rnd[k], r[0].idx)
           n(p, q) == NonlinearShare(g.type, a(p), a(q), b(p), b(q))
           A == Opened(a(0), a(1), a(2))
           B == Opened(b(0), b(1), b(2))
<1>1. g.in0 \in Wires(cir) /\ g.in1 \in Wires(cir) /\ g.out \in Wires(cir) /\ g.type # "a"
  BY GateFields DEF Nonlinear
<1>2. a(0) \in Bit /\ a(1) \in Bit /\ a(2) \in Bit /\ b(0) \in Bit /\ b(1) \in Bit /\ b(2) \in Bit
  BY <1>1, SharesOf, Parties
<1>3. z(0) \in Bit /\ z(1) \in Bit /\ z(2) \in Bit
  BY SharesAreBits
<1>4. n(0, 2) \in Bit /\ n(1, 0) \in Bit /\ n(2, 1) \in Bit
  <2> HIDE DEF a, b
  <2> QED
    BY <1>2, NonlinearBits
<1>5. /\ OwnShare(AesOf(rnd, 0), r[0], g) = X(n(0, 2), X(z(2), z(0)))
      /\ OwnShare(AesOf(rnd, 1), r[1], g) = X(n(1, 0), X(z(0), z(1)))
      /\ OwnShare(AesOf(rnd, 2), r[2], g) = X(n(2, 1), X(z(1), z(2)))
  <2>1. /\ GetShares(AesOf(rnd, 0), r[0].idx) = X(z(2), z(0))
        /\ GetShares(AesOf(rnd, 1), r[1].idx) = X(z(0), z(1))
        /\ GetShares(AesOf(rnd, 2), r[2].idx) = X(z(1), z(2))
    BY Parties DEF AesOf, GetShares
  <2>2. /\ r[0].m[1][g.in0] = a(2) /\ r[1].m[1][g.in0] = a(0) /\ r[2].m[1][g.in0] = a(1)
        /\ r[0].m[1][g.in1] = b(2) /\ r[1].m[1][g.in1] = b(0) /\ r[2].m[1][g.in1] = b(1)
    BY <1>1, SharesOf
  <2> QED
    BY <2>1, <2>2 DEF OwnShare
<1> HIDE DEF z, n
<1>6. Opened(X(n(0, 2), X(z(2), z(0))), X(n(1, 0), X(z(0), z(1))), X(n(2, 1), X(z(1), z(2))))
        = Opened(n(0, 2), n(1, 0), n(2, 1))
  BY <1>3, <1>4, RandomCancels
<1>7. v[g.in0] = A /\ v[g.in1] = B
  BY DEF OpenedAt
<1> HIDE DEF a, b
<1>8. Opened(n(0, 2), n(1, 0), n(2, 1)) = PlainGate(v, g)[g.out]
  <2>1. CASE g.type = "And"
    <3>1. Opened(n(0, 2), n(1, 0), n(2, 1)) = A * B
      BY <1>2, <2>1, AndOpens DEF n, NonlinearShare
    <3> HIDE DEF A, B
    <3> QED
      BY <1>1, <1>7, <2>1, <3>1 DEF PlainGate
  <2>2. CASE g.type = "Or"
    <3>1. Opened(n(0, 2), n(1, 0), n(2, 1)) = N(N(A) * N(B))
      BY <1>2, <2>2, OrOpens DEF n, NonlinearShare
    <3> HIDE DEF A, B
    <3> QED
      BY <1>1, <1>7, <2>2, <3>1 DEF PlainGate
  <2>3. CASE g.type = "Nor"
    <3>1. Opened(n(0, 2), n(1, 0), n(2, 1)) = N(A) * N(B)
      BY <1>2, <2>3, NorOpens DEF n, NonlinearShare
    <3> HIDE DEF A, B
    <3> QED
      BY <1>1, <1>7, <2>3, <3>1 DEF PlainGate
  <2>4. CASE g.type = "na_And"
    <3>1. Opened(n(0, 2), n(1, 0), n(2, 1)) = N(A) * B
      BY <1>2, <2>4, NaAndOpens DEF n, NonlinearShare
    <3> HIDE DEF A, B
    <3> QED
      BY <1>1, <1>7, <2>4, <3>1 DEF PlainGate
  <2> QED
    BY <2>1, <2>2, <2>3, <2>4 DEF Nonlinear
<1> QED
  BY <1>5, <1>6, <1>8

LEMMA LinearTogether ==
  ASSUME NEW type, NEW a0, NEW a1, NEW a2, NEW b0, NEW b1, NEW b2, type \in Linear,
         a0 \in Bit, a1 \in Bit, a2 \in Bit, type # "a" => b0 \in Bit /\ b1 \in Bit /\ b2 \in Bit
  PROVE  Opened(LinearShare(type, a0, b0), LinearShare(type, a1, b1), LinearShare(type, a2, b2))
           = LinearShare(type, Opened(a0, a1, a2), Opened(b0, b1, b2))
<1>1. CASE type = "Xor"
  BY <1>1, BitsAreTruths DEF LinearShare, Opened
<1>2. CASE type = "Nxor"
  BY <1>2, BitsAreTruths DEF LinearShare, Opened
<1>3. CASE type = "a"
  BY <1>3 DEF LinearShare, Opened
<1> QED
  BY <1>1, <1>2, <1>3 DEF Linear

(* A gate, done by the three parties on shares that fit together.          *)
GateOfAll(rnd, r, g) == [p \in Party |-> Gate(AesOf(rnd, p), r[p], g)]

Ready(cir, r, g, v) ==
  /\ r \in [Party -> LevelStates(cir)] /\ g \in Gates(cir)
  /\ r[1].idx = r[0].idx /\ r[2].idx = r[0].idx /\ \A w \in Reads(g) : Consistent(r, w)
  /\ v \in [Wires(cir) -> Bit] /\ \A w \in Wires(cir) : v[w] = OpenedAt(r, w)

LEMMA GateTogether ==
  ASSUME NEW rnd, NEW cir, NEW r, NEW t, NEW g, NEW v, Ready(cir, r, g, v), t = GateOfAll(rnd, r, g)
  PROVE  /\ t \in [Party -> LevelStates(cir)]
         /\ \A w \in Wires(cir) : PlainGate(v, g)[w] = OpenedAt(t, w)
         /\ \A w \in Wires(cir) : Consistent(r, w) /\ (w = g.out => g.type \in Linear) => Consistent(t, w)
         /\ g.type \in Linear => Consistent(t, g.out)
<1> USE DEF Ready
<1>1. g.in0 \in Wires(cir) /\ g.out \in Wires(cir) /\ (g.type # "a" => g.in1 \in Wires(cir))
      /\ (g.type \in Linear \/ g.type \in Nonlinear)
      /\ (g.type \in Nonlinear => g.type \notin Linear /\ g.type # "a" /\ g.in1 \in Wires(cir))
  BY GateFields DEF Nonlinear
<1>0. t = [p \in Party |-> Gate(AesOf(rnd, p), r[p], g)]
  BY DEF GateOfAll
<1>2. t \in [Party -> LevelStates(cir)]
  BY <1>0, GateKeeps
<1>3. Consistent(r, g.in0) /\ (g.type # "a" => Consistent(r, g.in1))
  BY DEF Reads
<1>4. ASSUME NEW w \in Wires(cir), w # g.out PROVE PlainGate(v, g)[w] = v[w]
  BY <1>1, <1>4 DEF PlainGate
<1>5. CASE g.type \in Linear
  <2> DEFINE L(p, s) == LinearShare(g.type, r[p].m[s][g.in0], r[p].m[s][g.in1])
  <2>1. \A p \in Party, s \in {0, 1}, w \in Wires(cir) : t[p].m[s][w] = IF w = g.out THEN L(p, s) ELSE r[p].m[s][w]
    BY <1>0, <1>5, LinearGate
  <2>2. \A p \in Party : L(p, 1) = L(prevOf(p), 0)
    <3>1. CASE g.type = "a"
      BY <1>3, <3>1 DEF LinearShare, Consistent
    <3>2. CASE g.type # "a"
      BY <1>3, <3>2 DEF Consistent
    <3> QED
      BY <3>1, <3>2
  <2>3. Opened(L(0, 0), L(1, 0), L(2, 0)) = PlainGate(v, g)[g.out]
    <3> DEFINE a(p) == r[p].m[0][g.in0]
               b(p) == r[p].m[0][g.in1]
    <3>1. a(0) \in Bit /\ a(1) \in Bit /\ a(2) \in Bit
          /\ (g.type # "a" => b(0) \in Bit /\ b(1) \in Bit /\ b(2) \in Bit)
      BY <1>1, SharesOf, Parties
    <3>2. v[g.in0] = Opened(a(0), a(1), a(2)) /\ (g.type # "a" => v[g.in1] = Opened(b(0), b(1), b(2)))
      BY <1>1 DEF OpenedAt
    <3>3. Opened(L(0, 0), L(1, 0), L(2, 0))
            = LinearShare(g.type, Opened(a(0), a(1), a(2)), Opened(b(0), b(1), b(2)))
      <4> HIDE DEF a, b
      <4>1. Opened(LinearShare(g.type, a(0), b(0)), LinearShare(g.type, a(1), b(1)), LinearShare(g.type, a(2), b(2)))
              = LinearShare(g.type, Opened(a(0), a(1), a(2)), Opened(b(0), b(1), b(2)))
        BY <1>5, <3>1, LinearTogether
      <4> QED
        BY <4>1 DEF a, b
    <3> HIDE DEF a, b, L
    <3>4. CASE g.type = "Xor"
      BY <1>1, <3>2, <3>3, <3>4 DEF PlainGate, LinearShare
    <3>5. CASE g.type = "Nxor"
      BY <1>1, <3>2, <3>3, <3>5 DEF PlainGate, LinearShare
    <3>6. CASE g.type = "a"
      BY <1>1, <3>2, <3>3, <3>6 DEF PlainGate, LinearShare
    <3> QED
      BY <1>5, <3>4, <3>5, <3>6 DEF Linear
  <2> HIDE DEF L
  <2>4. \A w \in Wires(cir) : PlainGate(v, g)[w] = OpenedAt(t, w)
    <3> SUFFICES ASSUME NEW w \in Wires(cir) PROVE PlainGate(v, g)[w] = OpenedAt(t, w)
      OBVIOUS
    <3>1. CASE w = g.out
      BY <2>1, <2>3, <3>1, Parties DEF OpenedAt
    <3>2. CASE w # g.out
      BY <1>4, <2>1, <3>2, Parties DEF OpenedAt
    <3> QED
      BY <3>1, <3>2
  <2>5. \A w \in Wires(cir) : Consistent(r, w) \/ w = g.out => Consistent(t, w)
    BY <2>1, <2>2, Parties DEF Consistent
  <2> QED
    BY <1>1, <1>2, <2>4, <2>5
<1>6. CASE g.type \in Nonlinear
  <2> DEFINE o(p) == OwnShare(AesOf(rnd, p), r[p], g)
  <2>1. \A p \in Party : /\ t[p].m[1] = r[p].m[1]
                         /\ \A w \in Wires(cir) : t[p].m[0][w] = IF w = g.out THEN o(p) ELSE r[p].m[0][w]
    BY <1>0, <1>6, NonlinearGate
  <2>2. Opened(o(0), o(1), o(2)) = PlainGate(v, g)[g.out]
    <3>1. g.in1 \in Wires(cir) /\ Consistent(r, g.in1)
      BY <1>1, <1>3, <1>6
    <3> QED
      BY <1>1, <1>3, <1>6, <3>1, NonlinearTogether
  <2> HIDE DEF o
  <2>3. \A w \in Wires(cir) : PlainGate(v, g)[w] = OpenedAt(t, w)
    <3> SUFFICES ASSUME NEW w \in Wires(cir) PROVE PlainGate(v, g)[w] = OpenedAt(t, w)
      OBVIOUS
    <3>1. CASE w = g.out
      BY <2>1, <2>2, <3>1, Parties DEF OpenedAt
    <3>2. CASE w # g.out
      BY <1>4, <2>1, <3>2, Parties DEF OpenedAt
    <3> QED
      BY <3>1, <3>2
  <2>4. \A w \in Wires(cir) : Consistent(r, w) /\ w # g.out => Consistent(t, w)
    BY <2>1, Parties DEF Consistent
  <2> QED
    BY <1>1, <1>2, <1>6, <2>3, <2>4
<1> QED
  BY <1>1, <1>5, <1>6

(* After k gates: which wires are to be received is the level's own.       *)
LEMMA TraceShape ==
  ASSUME NEW aes, NEW cir, NEW base, NEW level, NEW T, NEW L,
         level \in Seq(Gates(cir)), base \in LevelStates(cir), base.locs = <<>>, base.buff = <<>>,
         GateTrace(T, aes, cir, base, level), LocsTrace(L, cir, level)
  PROVE  \A k \in 0 .. Len(level) :
           /\ T[k] \in LevelStates(cir) /\ L[k] \in Seq(Wires(cir))
           /\ T[k].locs = L[k] /\ T[k].idx = base.idx + Len(L[k]) /\ Len(T[k].buff) = Len(L[k])
<1> DEFINE n == Len(level)
           S == {k \in Nat : k <= n => T[k].locs = L[k] /\ T[k].idx = base.idx + Len(L[k])
                                       /\ Len(T[k].buff) = Len(L[k])}
<1>1. n \in Nat /\ \A k \in 1 .. n : level[k] \in Gates(cir)
  BY LenProperties
<1>2. /\ T[0] = base /\ L[0] = <<>>
      /\ \A k \in 0 .. n : T[k] \in LevelStates(cir) /\ L[k] \in Seq(Wires(cir))
      /\ \A k \in 1 .. n : T[k] = Gate(aes, T[k - 1], level[k]) /\ L[k] = AddLoc(L[k - 1], level[k])
  BY DEF GateTrace, LocsTrace
<1>3. \A r \in LevelStates(cir) : r.idx \in Nat /\ r.buff \in Seq(Bit)
  BY DEF LevelStates
<1> HIDE DEF n
<1>4. 0 \in S
  BY <1>2, <1>3
<1>5. ASSUME NEW k \in Nat, k \in S PROVE k + 1 \in S
  <2> SUFFICES ASSUME k + 1 <= n
               PROVE  T[k + 1].locs = L[k + 1] /\ T[k + 1].idx = base.idx + Len(L[k + 1])
                      /\ Len(T[k + 1].buff) = Len(L[k + 1])
    OBVIOUS
  <2> DEFINE g == level[k + 1]
  <2>1. k + 1 \in 1 .. n /\ k + 1 - 1 = k /\ k \in 0 .. n
    BY <1>1
  <2>2. T[k + 1] = Gate(aes, T[k], g) /\ L[k + 1] = AddLoc(L[k], g) /\ g \in Gates(cir)
        /\ T[k] \in LevelStates(cir) /\ L[k] \in Seq(Wires(cir))
    BY <1>1, <1>2, <2>1
  <2>3. T[k].locs = L[k] /\ T[k].idx = base.idx + Len(L[k]) /\ Len(T[k].buff) = Len(L[k])
    BY <1>5, <2>1
  <2> HIDE DEF g
  <2>4. CASE g.type \in Linear
    <3>1. AddLoc(L[k], g) = L[k]
      BY <2>4 DEF AddLoc, Linear, Nonlinear
    <3> QED
      BY <2>2, <2>3, <2>4, <3>1, LinearGate
  <2>5. CASE g.type \in Nonlinear
    <3>1. AddLoc(L[k], g) = Append(L[k], g.out) /\ g.out \in Wires(cir)
      BY <2>2, <2>5, GateFields DEF AddLoc
    <3>2. /\ OwnShare(aes, T[k], g) \in Bit /\ T[k + 1].idx = T[k].idx + 1
          /\ T[k + 1].locs = Append(T[k].locs, g.out)
          /\ T[k + 1].buff = Append(T[k].buff, OwnShare(aes, T[k], g))
      BY <2>2, <2>5, NonlinearGate
    <3>3. Len(Append(L[k], g.out)) = Len(L[k]) + 1 /\ Len(L[k]) \in Nat
      BY <2>2, <3>1
    <3>4. Len(T[k + 1].buff) = Len(T[k].buff) + 1
      <4> DEFINE b == T[k].buff
                 v == OwnShare(aes, T[k], g)
      <4>1. b \in Seq(Bit) /\ v \in Bit /\ T[k + 1].buff = Append(b, v)
        BY <1>3, <2>2, <3>2
      <4> HIDE DEF b, v
      <4>2. Len(Append(b, v)) = Len(b) + 1
        BY <4>1
      <4> QED
        BY <4>1, <4>2 DEF b
    <3> QED
      BY <1>3, <2>2, <2>3, <3>1, <3>2, <3>3, <3>4
  <2> QED
    BY <2>2, <2>4, <2>5, GateFields
<1>6. \A k \in Nat : k \in S
  <2> HIDE DEF S
  <2> QED
    BY <1>4, <1>5, NatInduct
<1> QED
  BY <1>1, <1>2, <1>6 DEF n

LEMMA LevelShape ==
  ASSUME NEW aes, NEW cir, NEW base, NEW level,
         level \in Seq(Gates(cir)), base \in LevelStates(cir), base.locs = <<>>, base.buff = <<>>
  PROVE  /\ EvalLevel(aes, base, level) \in LevelStates(cir)
         /\ LocsOf(level) \in Seq(Wires(cir))
         /\ EvalLevel(aes, base, level).locs = LocsOf(level)
         /\ EvalLevel(aes, base, level).idx = base.idx + Len(LocsOf(level))
         /\ Len(EvalLevel(aes, base, level).buff) = Len(LocsOf(level))
<1>1. PICK T : GateTrace(T, aes, cir, base, level)
  BY LevelTrace
<1>2. PICK L : LocsTrace(L, cir, level)
  BY LocsTraced
<1>3. Len(level) \in 0 .. Len(level)
  BY LenProperties
<1>4. EvalLevel(aes, base, level) = T[Len(level)] /\ LocsOf(level) = L[Len(level)]
  BY <1>1, <1>2 DEF GateTrace, LocsTrace
<1> QED
  BY <1>1, <1>2, <1>3, <1>4, TraceShape

(* A level starts from shares that fit together; of party p:               *)
StartOf(sh, idx, p) ==
  [m |-> [s \in {0, 1} |-> IF s = 0 THEN sh[p] ELSE sh[prevOf(p)]], idx |-> idx, locs |-> <<>>, buff |-> <<>>]
LevelOf(rnd, sh, idx, level, p) == EvalLevel(AesOf(rnd, p), StartOf(sh, idx, p), level)

Among(w, s) == \E i \in 1 .. Len(s) : s[i] = w

Sharings(cir) == [Party -> [Wires(cir) -> Bit]]

LEMMA StartIs ==
  ASSUME NEW cir, NEW sh, NEW idx, NEW p, sh \in Sharings(cir), idx \in Nat, p \in Party
  PROVE  /\ StartOf(sh, idx, p) \in LevelStates(cir)
         /\ StartOf(sh, idx, p).m[0] = sh[p] /\ StartOf(sh, idx, p).m[1] = sh[prevOf(p)]
         /\ StartOf(sh, idx, p).idx = idx /\ StartOf(sh, idx, p).locs = <<>> /\ StartOf(sh, idx, p).buff = <<>>
<1>1. prevOf(p) \in Party
  BY Parties
<1>2. sh[p] \in [Wires(cir) -> Bit] /\ sh[prevOf(p)] \in [Wires(cir) -> Bit]
  BY <1>1 DEF Sharings
<1>3. <<>> \in Seq(Wires(cir)) /\ <<>> \in Seq(Bit)
  OBVIOUS
<1> QED
  BY <1>2, <1>3 DEF StartOf, LevelStates

LEMMA AppendIs ==
  ASSUME NEW A, NEW s, NEW x, s \in Seq(A), x \in A
  PROVE  /\ Append(s, x) \in Seq(A) /\ Len(s) \in Nat /\ Len(Append(s, x)) = Len(s) + 1
         /\ \A i \in 1 .. (Len(s) + 1) : Append(s, x)[i] = IF i = Len(s) + 1 THEN x ELSE s[i]
         /\ \A w : Among(w, Append(s, x)) <=> Among(w, s) \/ w = x
<1>1. /\ Append(s, x) \in Seq(A) /\ Len(s) \in Nat /\ Len(Append(s, x)) = Len(s) + 1
      /\ \A i \in 1 .. (Len(s) + 1) : Append(s, x)[i] = IF i = Len(s) + 1 THEN x ELSE s[i]
  OBVIOUS
<1>2. ASSUME NEW w PROVE Among(w, Append(s, x)) <=> Among(w, s) \/ w = x
  <2>1. ASSUME Among(w, Append(s, x)) PROVE Among(w, s) \/ w = x
    BY <1>1, <2>1 DEF Among
  <2>2. ASSUME Among(w, s) PROVE Among(w, Append(s, x))
    <3>1. PICK i \in 1 .. Len(s) : s[i] = w
      BY <2>2 DEF Among
    <3>2. i \in 1 .. (Len(s) + 1) /\ i # Len(s) + 1
      BY <1>1
    <3> QED
      BY <1>1, <3>1, <3>2 DEF Among
  <2>3. ASSUME w = x PROVE Among(w, Append(s, x))
    <3>1. Len(s) + 1 \in 1 .. (Len(s) + 1)
      BY <1>1
    <3> QED
      BY <1>1, <2>3, <3>1 DEF Among
  <2> QED
    BY <2>1, <2>2, <2>3
<1> QED
  BY <1>1, <1>2

(* What the three parties have after k gates, and what fits together.      *)
Fits(cir, level, k, r, locs, v) ==
  /\ \A i \in 1 .. Len(locs) : \E j \in 1 .. k : level[j].type \in Nonlinear /\ locs[i] = level[j].out
  /\ \A w \in Wires(cir) : ~ Among(w, locs) => Consistent(r, w)
  /\ \A p \in Party : \A i \in 1 .. Len(locs) : r[p].buff[i] = r[p].m[0][locs[i]]
  /\ \A w \in Wires(cir) : v[w] = OpenedAt(r, w)

LEMMA FitsStep ==
  ASSUME NEW rnd, NEW cir, NEW level, NEW k, NEW r, NEW t, NEW locs, NEW v, NEW g,
         level \in Seq(Gates(cir)), Levelled(level), k \in Nat, k + 1 <= Len(level), g = level[k + 1],
         r \in [Party -> LevelStates(cir)], t = GateOfAll(rnd, r, g),
         \A p \in Party : r[p].idx = r[0].idx /\ r[p].locs = locs /\ Len(r[p].buff) = Len(locs),
         v \in [Wires(cir) -> Bit], Fits(cir, level, k, r, locs, v)
  PROVE  Fits(cir, level, k + 1, t, AddLoc(locs, g), PlainGate(v, g))
<1>1. k + 1 \in 1 .. Len(level) /\ DOMAIN level = 1 .. Len(level) /\ g \in Gates(cir) /\ Len(level) \in Nat
  BY LenProperties
<1>2. g.out \in Wires(cir) /\ Reads(g) \subseteq Wires(cir)
      /\ (g.type \in Linear \/ g.type \in Nonlinear) /\ (g.type \in Nonlinear => g.type \notin Linear)
  <2>1. g.in0 \in Wires(cir) /\ (g.type # "a" => g.in1 \in Wires(cir))
    BY <1>1, GateFields
  <2> QED
    BY <1>1, <2>1, GateFields DEF Reads
<1>3. locs \in Seq(Wires(cir)) /\ \A p \in Party : r[p].buff \in Seq(Bit)
  BY Parties DEF LevelStates
<1>4. ASSUME NEW w \in Reads(g) \cup {g.out} PROVE ~ Among(w, locs)
  <2> SUFFICES ASSUME Among(w, locs) PROVE FALSE
    OBVIOUS
  <2>1. PICK i \in 1 .. Len(locs) : locs[i] = w
    BY DEF Among
  <2>2. PICK j \in 1 .. k : level[j].type \in Nonlinear /\ locs[i] = level[j].out
    BY DEF Fits
  <2>3. j \in DOMAIN level /\ k + 1 \in DOMAIN level /\ j < k + 1
    BY <1>1
  <2>4. w \notin Reads(g) \cup {g.out}
    BY <2>1, <2>2, <2>3 DEF Levelled
  <2> QED
    BY <2>4
<1>9. ASSUME NEW i \in 1 .. Len(locs) PROVE locs[i] \in Wires(cir) /\ locs[i] # g.out
  <2>1. locs[i] \in Wires(cir)
    BY <1>3
  <2>2. Among(locs[i], locs)
    BY DEF Among
  <2> QED
    BY <1>4, <2>1, <2>2
<1>10. t = [p \in Party |-> Gate(AesOf(rnd, p), r[p], g)]
  BY DEF GateOfAll
<1>5. \A w \in Reads(g) : Consistent(r, w)
  BY <1>2, <1>4 DEF Fits
<1>6. /\ \A w \in Wires(cir) : PlainGate(v, g)[w] = OpenedAt(t, w)
      /\ \A w \in Wires(cir) : Consistent(r, w) /\ (w = g.out => g.type \in Linear) => Consistent(t, w)
      /\ g.type \in Linear => Consistent(t, g.out)
  <2>1. r[1].idx = r[0].idx /\ r[2].idx = r[0].idx
    BY Parties
  <2>2. \A w \in Wires(cir) : v[w] = OpenedAt(r, w)
    BY DEF Fits
  <2>3. Ready(cir, r, g, v)
    BY <1>1, <1>5, <2>1, <2>2 DEF Ready
  <2> QED
    BY <2>3, GateTogether
<1>7. CASE g.type \in Linear
  <2>1. AddLoc(locs, g) = locs
    BY <1>2, <1>7 DEF AddLoc
  <2>2. \A p \in Party : t[p].buff = r[p].buff /\ \A w \in Wires(cir) : w # g.out => t[p].m[0][w] = r[p].m[0][w]
    BY <1>1, <1>7, <1>10, LinearGate
  <2>3. \A i \in 1 .. Len(locs) : locs[i] \in Wires(cir) /\ locs[i] # g.out
    BY <1>9
  <2>4. \A p \in Party : \A i \in 1 .. Len(locs) : t[p].buff[i] = t[p].m[0][locs[i]]
    <3>1. \A p \in Party : \A i \in 1 .. Len(locs) : r[p].buff[i] = r[p].m[0][locs[i]]
      BY DEF Fits
    <3> QED
      BY <2>2, <2>3, <3>1
  <2>5. \A w \in Wires(cir) : ~ Among(w, locs) => Consistent(t, w)
    BY <1>6, <1>7 DEF Fits
  <2>6. \A i \in 1 .. Len(locs) : \E j \in 1 .. (k + 1) : level[j].type \in Nonlinear /\ locs[i] = level[j].out
    BY DEF Fits
  <2> QED
    BY <1>6, <2>1, <2>4, <2>5, <2>6 DEF Fits
<1>8. CASE g.type \in Nonlinear
  <2> DEFINE more == Append(locs, g.out)
  <2>1. AddLoc(locs, g) = more
    BY <1>8 DEF AddLoc
  <2>2. \A p \in Party : /\ t[p].buff = Append(r[p].buff, OwnShare(AesOf(rnd, p), r[p], g))
                         /\ OwnShare(AesOf(rnd, p), r[p], g) \in Bit
                         /\ \A w \in Wires(cir) : t[p].m[0][w] =
                              IF w = g.out THEN OwnShare(AesOf(rnd, p), r[p], g) ELSE r[p].m[0][w]
    BY <1>1, <1>8, <1>10, NonlinearGate
  <2>3. /\ Len(locs) \in Nat /\ Len(more) = Len(locs) + 1
        /\ \A i \in 1 .. (Len(locs) + 1) : more[i] = IF i = Len(locs) + 1 THEN g.out ELSE locs[i]
        /\ \A w : Among(w, more) <=> Among(w, locs) \/ w = g.out
    BY <1>2, <1>3, AppendIs
  <2> HIDE DEF more
  <2>4. \A i \in 1 .. Len(locs) : locs[i] \in Wires(cir) /\ locs[i] # g.out
    BY <1>9
  <2>5. ASSUME NEW p \in Party, NEW i \in 1 .. Len(more)
        PROVE  t[p].buff[i] = t[p].m[0][more[i]]
    <3> DEFINE own == OwnShare(AesOf(rnd, p), r[p], g)
    <3>1. t[p].buff = Append(r[p].buff, own) /\ own \in Bit
      BY <2>2
    <3> HIDE DEF own
    <3>2. \A x \in 1 .. (Len(locs) + 1) : t[p].buff[x] = IF x = Len(locs) + 1 THEN own ELSE r[p].buff[x]
      <4>1. Len(r[p].buff) = Len(locs) /\ r[p].buff \in Seq(Bit)
        BY <1>3
      <4>2. \A x \in 1 .. (Len(r[p].buff) + 1) :
              Append(r[p].buff, own)[x] = IF x = Len(r[p].buff) + 1 THEN own ELSE r[p].buff[x]
        BY <3>1, <4>1, AppendIs
      <4> QED
        BY <3>1, <4>1, <4>2
    <3>3. CASE i = Len(locs) + 1
      <4>1. more[i] = g.out /\ t[p].buff[i] = own
        BY <2>3, <3>2, <3>3
      <4> QED
        BY <1>2, <2>2, <4>1 DEF own
    <3>4. CASE i # Len(locs) + 1
      <4>1. i \in 1 .. Len(locs) /\ i \in 1 .. (Len(locs) + 1)
        BY <2>3, <3>4
      <4>2. more[i] = locs[i] /\ t[p].buff[i] = r[p].buff[i]
        BY <2>3, <3>2, <3>4, <4>1
      <4>3. r[p].buff[i] = r[p].m[0][locs[i]]
        BY <4>1 DEF Fits
      <4>4. locs[i] \in Wires(cir) /\ locs[i] # g.out
        BY <2>4, <4>1
      <4>5. t[p].m[0][locs[i]] = r[p].m[0][locs[i]]
        BY <2>2, <4>4
      <4> QED
        BY <4>2, <4>3, <4>5
    <3> QED
      BY <3>3, <3>4
  <2>6. \A w \in Wires(cir) : ~ Among(w, more) => Consistent(t, w)
    BY <1>6, <2>3 DEF Fits
  <2>7. ASSUME NEW i \in 1 .. Len(more)
        PROVE  \E j \in 1 .. (k + 1) : level[j].type \in Nonlinear /\ more[i] = level[j].out
    <3>1. CASE i = Len(locs) + 1
      <4>1. k + 1 \in 1 .. (k + 1) /\ more[i] = g.out
        BY <2>3, <3>1
      <4> QED
        BY <1>8, <4>1
    <3>2. CASE i # Len(locs) + 1
      <4>1. i \in 1 .. Len(locs) /\ more[i] = locs[i]
        BY <2>3, <3>2
      <4>2. PICK j \in 1 .. k : level[j].type \in Nonlinear /\ locs[i] = level[j].out
        BY <4>1 DEF Fits
      <4>3. j \in 1 .. (k + 1)
        OBVIOUS
      <4> QED
        BY <4>1, <4>2, <4>3
    <3> QED
      BY <3>1, <3>2
  <2> QED
    BY <1>6, <2>1, <2>5, <2>6, <2>7 DEF Fits
<1> QED
  BY <1>2, <1>7, <1>8

OpenedOf(cir, sh) == [w \in Wires(cir) |-> Opened(sh[0][w], sh[1][w], sh[2][w])]
SharesAfter(rnd, sh, idx, level) == [p \in Party |-> LevelOf(rnd, sh, idx, level, p).m[0]]

LEMMA OpenedBits ==
  ASSUME NEW cir, NEW sh, sh \in Sharings(cir)
  PROVE  OpenedOf(cir, sh) \in [Wires(cir) -> Bit]
<1>1. \A w \in Wires(cir) : sh[0][w] \in Bit /\ sh[1][w] \in Bit /\ sh[2][w] \in Bit
  BY Parties DEF Sharings
<1>2. \A w \in Wires(cir) : Opened(sh[0][w], sh[1][w], sh[2][w]) \in Bit
  <2> SUFFICES ASSUME NEW w \in Wires(cir) PROVE Opened(sh[0][w], sh[1][w], sh[2][w]) \in Bit
    OBVIOUS
  <2>1. X(sh[0][w], sh[1][w]) \in Bit
    BY <1>1, BitFacts
  <2> QED
    BY <1>1, <2>1, BitFacts DEF Opened
<1> QED
  BY <1>2 DEF OpenedOf

(* After a level, the second shares that are not to be received are the    *)
(* first ones of the party before, and the send buffers hold the shares of *)
(* the wires to be received.                                               *)
SecondsFit(rnd, cir, sh, idx, level) ==
  \A p \in Party : \A w \in Wires(cir) : ~ Among(w, LocsOf(level)) =>
    LevelOf(rnd, sh, idx, level, p).m[1][w] = LevelOf(rnd, sh, idx, level, prevOf(p)).m[0][w]
BuffersFit(rnd, sh, idx, level) ==
  \A p \in Party : \A i \in 1 .. Len(LocsOf(level)) :
    LevelOf(rnd, sh, idx, level, p).buff[i] = LevelOf(rnd, sh, idx, level, p).m[0][LocsOf(level)[i]]

(* A level of the three parties: what its gates compute in the open.       *)
LEMMA LevelTogether ==
  ASSUME NEW rnd, NEW cir, NEW sh, NEW idx, NEW level,
         sh \in Sharings(cir), idx \in Nat, level \in Seq(Gates(cir)), Levelled(level)
  PROVE  /\ SecondsFit(rnd, cir, sh, idx, level)
         /\ BuffersFit(rnd, sh, idx, level)
         /\ SharesAfter(rnd, sh, idx, level) \in Sharings(cir)
         /\ OpenedOf(cir, SharesAfter(rnd, sh, idx, level)) = PlainLevel(OpenedOf(cir, sh), level)
<1> DEFINE n == Len(level)
           base(p) == StartOf(sh, idx, p)
           v0 == OpenedOf(cir, sh)
           Tr(p) == CHOOSE T : GateTrace(T, AesOf(rnd, p), cir, base(p), level)
           R(k) == [p \in Party |-> Tr(p)[k]]
<1>1. n \in Nat /\ \A k \in 1 .. n : level[k] \in Gates(cir)
  BY LenProperties
<1>2. \A p \in Party : /\ base(p) \in LevelStates(cir)
                       /\ base(p).m[0] = sh[p] /\ base(p).m[1] = sh[prevOf(p)]
                       /\ base(p).idx = idx /\ base(p).locs = <<>> /\ base(p).buff = <<>>
  <2> SUFFICES ASSUME NEW p \in Party
               PROVE  /\ base(p) \in LevelStates(cir)
                      /\ base(p).m[0] = sh[p] /\ base(p).m[1] = sh[prevOf(p)]
                      /\ base(p).idx = idx /\ base(p).locs = <<>> /\ base(p).buff = <<>>
    OBVIOUS
  <2>1. base(p) = StartOf(sh, idx, p)
    OBVIOUS
  <2> HIDE DEF base
  <2> QED
    BY <2>1, StartIs
<1> HIDE DEF base
<1>3. \A p \in Party : GateTrace(Tr(p), AesOf(rnd, p), cir, base(p), level)
  <2> SUFFICES ASSUME NEW p \in Party PROVE GateTrace(Tr(p), AesOf(rnd, p), cir, base(p), level)
    OBVIOUS
  <2>1. \E T : GateTrace(T, AesOf(rnd, p), cir, base(p), level)
    BY <1>2, LevelTrace
  <2> QED
    BY <2>1
<1> HIDE DEF Tr
<1>4. PICK L : LocsTrace(L, cir, level)
  BY LocsTraced
<1>5. v0 \in [Wires(cir) -> Bit]
  BY OpenedBits
<1>6. PICK V : PlainTrace(V, cir, v0, level)
  <2> HIDE DEF v0
  <2> QED
    BY <1>5, PlainTraced
<1>7. \A p \in Party : \A k \in 0 .. n :
        /\ Tr(p)[k] \in LevelStates(cir) /\ L[k] \in Seq(Wires(cir))
        /\ Tr(p)[k].locs = L[k] /\ Tr(p)[k].idx = idx + Len(L[k]) /\ Len(Tr(p)[k].buff) = Len(L[k])
  <2> SUFFICES ASSUME NEW p \in Party
               PROVE  \A k \in 0 .. n :
                        /\ Tr(p)[k] \in LevelStates(cir) /\ L[k] \in Seq(Wires(cir))
                        /\ Tr(p)[k].locs = L[k] /\ Tr(p)[k].idx = base(p).idx + Len(L[k]) /\ Len(Tr(p)[k].buff) = Len(L[k])
    BY <1>2
  <2> QED
    BY <1>2, <1>3, <1>4, TraceShape
<1>8. \A k \in 0 .. n : V[k] \in [Wires(cir) -> Bit]
  BY <1>6 DEF PlainTrace
<1> DEFINE S == {k \in Nat : k <= n => Fits(cir, level, k, R(k), L[k], V[k])}
<1>9. 0 \in S
  <2>1. L[0] = <<>> /\ V[0] = v0 /\ \A p \in Party : Tr(p)[0] = base(p)
    BY <1>3, <1>4, <1>6 DEF LocsTrace, PlainTrace, GateTrace
  <2>2. \A w \in Wires(cir) : Consistent(R(0), w)
    BY <1>2, <2>1, Parties DEF Consistent
  <2>3. ASSUME NEW w \in Wires(cir) PROVE v0[w] = OpenedAt(R(0), w)
    <3>1. R(0)[0] = base(0) /\ R(0)[1] = base(1) /\ R(0)[2] = base(2)
      BY <2>1, Parties
    <3>2. base(0).m[0] = sh[0] /\ base(1).m[0] = sh[1] /\ base(2).m[0] = sh[2]
      BY <1>2, Parties
    <3> QED
      BY <3>1, <3>2 DEF OpenedAt, OpenedOf
  <2>4. Len(L[0]) = 0
    BY <2>1
  <2> HIDE DEF R, v0
  <2>5. Fits(cir, level, 0, R(0), L[0], V[0])
    BY <2>1, <2>2, <2>3, <2>4 DEF Fits
  <2> QED
    BY <2>5
<1>10. ASSUME NEW k \in Nat, k + 1 <= n, Fits(cir, level, k, R(k), L[k], V[k])
       PROVE  Fits(cir, level, k + 1, R(k + 1), L[k + 1], V[k + 1])
  <2> DEFINE g == level[k + 1]
             r == R(k)
             t == R(k + 1)
  <2>1. k + 1 \in 1 .. n /\ k + 1 - 1 = k /\ k \in 0 .. n
    BY <1>1, <1>10
  <2>2. L[k + 1] = AddLoc(L[k], g) /\ V[k + 1] = PlainGate(V[k], g)
        /\ \A p \in Party : Tr(p)[k + 1] = Gate(AesOf(rnd, p), Tr(p)[k], g)
    BY <1>3, <1>4, <1>6, <2>1 DEF LocsTrace, PlainTrace, GateTrace
  <2>3. r \in [Party -> LevelStates(cir)]
    BY <1>7, <2>1
  <2>4. t = GateOfAll(rnd, r, g)
    BY <2>2 DEF GateOfAll
  <2>5. \A p \in Party : r[p].idx = r[0].idx /\ r[p].locs = L[k] /\ Len(r[p].buff) = Len(L[k])
    <3>1. \A p \in Party : r[p] = Tr(p)[k]
      OBVIOUS
    <3>2. \A p \in Party : r[p].idx = idx + Len(L[k])
      BY <1>7, <2>1, <3>1
    <3>3. 0 \in Party
      BY Parties
    <3> HIDE DEF r
    <3> QED
      BY <1>7, <2>1, <3>1, <3>2, <3>3
  <2>6. V[k] \in [Wires(cir) -> Bit]
    BY <1>8, <2>1
  <2> HIDE DEF R, r, t, g
  <2>7. Fits(cir, level, k + 1, t, AddLoc(L[k], g), PlainGate(V[k], g))
    <3>1. g = level[k + 1] /\ k + 1 <= Len(level)
      BY <1>10 DEF g
    <3>2. Fits(cir, level, k, r, L[k], V[k])
      BY <1>10 DEF r
    <3> QED
      BY <2>3, <2>4, <2>5, <2>6, <3>1, <3>2, FitsStep
  <2> QED
    BY <2>2, <2>7 DEF t
<1>11. \A k \in Nat : k \in S
  <2>1. \A k \in Nat : k \in S => k + 1 \in S
    <3> SUFFICES ASSUME NEW k \in Nat, k \in S, k + 1 <= n
                 PROVE  Fits(cir, level, k + 1, R(k + 1), L[k + 1], V[k + 1])
      OBVIOUS
    <3>1. Fits(cir, level, k, R(k), L[k], V[k])
      BY <1>1
    <3> HIDE DEF S, R
    <3> QED
      BY <1>10, <3>1
  <2> HIDE DEF S
  <2> QED
    BY <1>9, <2>1, NatInduct
<1> DEFINE E(p) == LevelOf(rnd, sh, idx, level, p)
<1>12. /\ n \in 0 .. n /\ L[n] = LocsOf(level) /\ V[n] = PlainLevel(v0, level)
       /\ \A p \in Party : E(p) = Tr(p)[n]
  BY <1>1, <1>3, <1>4, <1>6 DEF LocsTrace, PlainTrace, GateTrace, LevelOf, base
<1>13. Fits(cir, level, n, R(n), LocsOf(level), PlainLevel(v0, level))
  <2>1. n <= n /\ n \in S
    BY <1>1, <1>11
  <2> HIDE DEF R, v0
  <2> QED
    BY <1>12, <2>1
<1>14. \A p \in Party : R(n)[p] = E(p) /\ E(p) \in LevelStates(cir)
  BY <1>7, <1>12
<1> HIDE DEF R, E, n, v0
<1>15. \A p \in Party : E(p).m \in [{0, 1} -> [Wires(cir) -> Bit]]
  BY <1>14 DEF LevelStates
<1> DEFINE A == SharesAfter(rnd, sh, idx, level)
<1>16. A \in Sharings(cir) /\ \A p \in Party : A[p] = E(p).m[0]
  BY <1>15 DEF SharesAfter, E, Sharings
<1>17. OpenedOf(cir, A) = PlainLevel(v0, level)
  <2>1. \A w \in Wires(cir) : PlainLevel(v0, level)[w] = Opened(A[0][w], A[1][w], A[2][w])
    <3>1. \A w \in Wires(cir) : PlainLevel(v0, level)[w] = OpenedAt(R(n), w)
      BY <1>13 DEF Fits
    <3>2. A[0] = R(n)[0].m[0] /\ A[1] = R(n)[1].m[0] /\ A[2] = R(n)[2].m[0]
      BY <1>14, <1>16, Parties
    <3> QED
      BY <3>1, <3>2 DEF OpenedAt
  <2>2. PlainLevel(v0, level) \in [Wires(cir) -> Bit]
    BY <1>5, PlainLevelKeeps DEF v0
  <2> HIDE DEF A
  <2>3. OpenedOf(cir, A) = [w \in Wires(cir) |-> PlainLevel(v0, level)[w]]
    BY <2>1 DEF OpenedOf
  <2> QED
    BY <2>2, <2>3
<1>18. \A p \in Party : \A w \in Wires(cir) : ~ Among(w, LocsOf(level)) => E(p).m[1][w] = E(prevOf(p)).m[0][w]
  BY <1>13, <1>14, Parties DEF Fits, Consistent
<1>19. \A p \in Party : \A i \in 1 .. Len(LocsOf(level)) : E(p).buff[i] = E(p).m[0][LocsOf(level)[i]]
  BY <1>13, <1>14 DEF Fits
<1> HIDE DEF A
<1> QED
  BY <1>16, <1>17, <1>18, <1>19 DEF A, E, v0, SecondsFit, BuffersFit

-----------------------------------------------------------------------------
(* The lockstep run: what the parties hold if they go level by level.      *)
(* The values that stay the same, as one: f.input, f.rand, f.program.      *)
FixedOK(f) ==
  /\ Len(f.program) \in Nat /\ DOMAIN f.program = 1 .. Len(f.program)
  /\ \A j \in 1 .. Len(f.program) :
       /\ CircuitOK(f.program[j])
       /\ \A p \in Party, x \in 0 .. (f.program[j].inputs - 1) : f.input[p][x] \in Bit

Levels(f, j) == Len(f.program[j].levels)
LevelAt(f, j, l) == f.program[j].levels[l]
LocsAt(f, j, l) == LocsOf(LevelAt(f, j, l))

LEMMA CircuitFacts ==
  ASSUME NEW f, NEW j, FixedOK(f), j \in 1 .. Len(f.program)
  PROVE  /\ Levels(f, j) \in Nat /\ f.program[j].inputs \in Nat /\ f.program[j].wires \in Nat
         /\ \A l \in 1 .. Levels(f, j) :
              LevelAt(f, j, l) \in Seq(Gates(f.program[j])) /\ Levelled(LevelAt(f, j, l))
              /\ LocsAt(f, j, l) \in Seq(Wires(f.program[j]))
         /\ f.program[j].outputs \in Seq([wire : Wires(f.program[j]), invert : BOOLEAN])
<1> DEFINE cir == f.program[j]
<1>1. CircuitOK(cir)
  BY DEF FixedOK
<1> HIDE DEF cir
<1>2. /\ cir.wires \in Nat /\ cir.inputs \in Nat
      /\ cir.levels \in Seq(Seq(Gates(cir))) /\ \A l \in DOMAIN cir.levels : Levelled(cir.levels[l])
      /\ cir.outputs \in Seq([wire : Wires(cir), invert : BOOLEAN])
  BY <1>1 DEF CircuitOK
<1>3. /\ Len(cir.levels) \in Nat /\ DOMAIN cir.levels = 1 .. Len(cir.levels)
      /\ \A l \in 1 .. Len(cir.levels) : cir.levels[l] \in Seq(Gates(cir))
  BY <1>2, LenProperties
<1>4. \A level \in Seq(Gates(cir)) : LocsOf(level) \in Seq(Wires(cir))
  <2> SUFFICES ASSUME NEW level \in Seq(Gates(cir)) PROVE LocsOf(level) \in Seq(Wires(cir))
    OBVIOUS
  <2>1. PICK L : LocsTrace(L, cir, level)
    BY LocsTraced
  <2>2. Len(level) \in 0 .. Len(level)
    BY LenProperties
  <2> QED
    BY <2>1, <2>2 DEF LocsTrace
<1> QED
  BY <1>2, <1>3, <1>4 DEF Levels, LevelAt, LocsAt, cir

(* The three parties in lockstep: the shares (sh[p] is the first of p) and *)
(* the stream index after l levels of circuit j.                           *)
StartShares(f, j) ==
  [p \in Party |-> [w \in Wires(f.program[j]) |-> IF w < f.program[j].inputs THEN f.input[p][w] ELSE 0]]
After(rnd, S, level) == [sh |-> SharesAfter(rnd, S.sh, S.idx, level), idx |-> S.idx + Len(LocsOf(level))]
Run(f, j) ==
  LET R[l \in Nat] == IF l = 0 THEN [sh |-> StartShares(f, j), idx |-> 0]
                      ELSE IF l <= Levels(f, j) THEN After(f.rand, R[l - 1], LevelAt(f, j, l)) ELSE R[l - 1]
  IN R
RunStates(cir) == [sh : Sharings(cir), idx : Nat]

LEMMA AfterKeeps ==
  ASSUME NEW rnd, NEW cir, NEW S, NEW level,
         S \in RunStates(cir), level \in Seq(Gates(cir)), Levelled(level)
  PROVE  After(rnd, S, level) \in RunStates(cir)
<1>1. S.sh \in Sharings(cir) /\ S.idx \in Nat
  BY DEF RunStates
<1>2. SharesAfter(rnd, S.sh, S.idx, level) \in Sharings(cir)
  BY <1>1, LevelTogether
<1>3. Len(LocsOf(level)) \in Nat
  <2>1. PICK L : LocsTrace(L, cir, level)
    BY LocsTraced
  <2>2. Len(level) \in 0 .. Len(level)
    BY LenProperties
  <2>3. LocsOf(level) \in Seq(Wires(cir))
    BY <2>1, <2>2 DEF LocsTrace
  <2> QED
    BY <2>3
<1>4. S.idx + Len(LocsOf(level)) \in Nat
  BY <1>1, <1>3
<1> QED
  BY <1>2, <1>4 DEF After, RunStates

LEMMA StartSharesAre ==
  ASSUME NEW f, NEW j, FixedOK(f), j \in 1 .. Len(f.program)
  PROVE  StartShares(f, j) \in Sharings(f.program[j])
<1>1. f.program[j].inputs \in Nat /\ f.program[j].wires \in Nat
  BY CircuitFacts
<1>2. \A p \in Party : \A x \in 0 .. (f.program[j].inputs - 1) : f.input[p][x] \in Bit
  BY DEF FixedOK
<1>3. ASSUME NEW p \in Party, NEW w \in Wires(f.program[j])
      PROVE  (IF w < f.program[j].inputs THEN f.input[p][w] ELSE 0) \in Bit
  <2>1. CASE w < f.program[j].inputs
    <3>1. w \in 0 .. (f.program[j].inputs - 1)
      BY <1>1, <2>1 DEF Wires
    <3> QED
      BY <1>2, <2>1, <3>1
  <2>2. CASE ~ w < f.program[j].inputs
    BY <2>2 DEF Bit
  <2> QED
    BY <2>1, <2>2
<1> QED
  BY <1>3 DEF StartShares, Sharings

LEMMA RunIs ==
  ASSUME NEW f, NEW j, FixedOK(f), j \in 1 .. Len(f.program)
  PROVE  /\ Run(f, j)[0].sh = StartShares(f, j) /\ Run(f, j)[0].idx = 0
         /\ \A l \in Nat : l + 1 <= Levels(f, j) => Run(f, j)[l + 1] = After(f.rand, Run(f, j)[l], LevelAt(f, j, l + 1))
         /\ \A l \in Nat : Run(f, j)[l].sh \in Sharings(f.program[j]) /\ Run(f, j)[l].idx \in Nat
<1> DEFINE cir == f.program[j]
           n == Levels(f, j)
           base == [sh |-> StartShares(f, j), idx |-> 0]
           D == RunStates(cir)
           Op(S, l) == IF l <= n THEN After(f.rand, S, LevelAt(f, j, l)) ELSE S
           St == [x \in D \X Nat |-> IF x[2] = 0 THEN x[1] ELSE Op(x[1], x[2])]
           R == Run(f, j)
<1>1. n \in Nat /\ \A l \in 1 .. n : LevelAt(f, j, l) \in Seq(Gates(cir)) /\ Levelled(LevelAt(f, j, l))
  BY CircuitFacts
<1>2. base \in D
  BY StartSharesAre DEF RunStates
<1> HIDE DEF cir, n, D
<1>3. \A S \in D : \A l \in Nat : l # 0 => Op(S, l) \in D
  <2> SUFFICES ASSUME NEW S \in D, NEW l \in Nat, l # 0, l <= n
               PROVE  After(f.rand, S, LevelAt(f, j, l)) \in D
    OBVIOUS
  <2>1. l \in 1 .. n
    BY <1>1
  <2> QED
    BY <1>1, <2>1, AfterKeeps DEF D
<1> HIDE DEF Op, base
<1>4. St \in [D \X Nat -> D]
  BY <1>3
<1>5. PICK F \in [Nat -> D] : Recurs(F, base, St)
  <2> HIDE DEF St
  <2> QED
    BY <1>2, <1>4, RecursionExists
<1>6. F = [l \in Nat |-> IF l = 0 THEN base ELSE Op(F[l - 1], l)]
  <2>1. \A l \in Nat : F[l] = IF l = 0 THEN base ELSE St[<<F[l - 1], l>>]
    BY <1>5 DEF Recurs
  <2>2. ASSUME NEW l \in Nat, l # 0 PROVE St[<<F[l - 1], l>>] = Op(F[l - 1], l)
    <3>1. F[l - 1] \in D
      BY <2>2
    <3> QED
      BY <2>2, <3>1
  <2> HIDE DEF St
  <2> QED
    BY <2>1, <2>2
<1> DEFINE Is(G) == G = [l \in Nat |-> IF l = 0 THEN base ELSE Op(G[l - 1], l)]
<1>7. R = CHOOSE G : Is(G)
  BY Zenon DEF Run, Op, base, n
<1> HIDE DEF R
<1>8. R = [l \in Nat |-> IF l = 0 THEN base ELSE Op(R[l - 1], l)]
  <2>1. Is(F)
    BY <1>6
  <2>2. Is(R)
    <3> HIDE DEF Is
    <3> QED
      BY <1>7, <2>1
  <2> QED
    BY <2>2
<1>9. R[0] = base /\ \A l \in Nat : R[l + 1] = Op(R[l], l + 1)
  <2>1. \A l \in Nat : l + 1 \in Nat /\ l + 1 # 0 /\ l + 1 - 1 = l
    OBVIOUS
  <2> QED
    BY <1>8, <2>1
<1> DEFINE I == {l \in Nat : R[l] \in D}
<1>10. \A l \in Nat : l \in I
  <2>1. 0 \in I
    BY <1>2, <1>9
  <2>2. ASSUME NEW l \in Nat, l \in I PROVE l + 1 \in I
    <3>1. R[l] \in D /\ l + 1 \in Nat /\ l + 1 # 0
      BY <2>2
    <3>2. Op(R[l], l + 1) \in D
      BY <1>3, <3>1
    <3> QED
      BY <1>9, <3>1, <3>2
  <2> HIDE DEF I
  <2> QED
    BY <2>1, <2>2, NatInduct
<1>11. \A l \in Nat : R[l].sh \in Sharings(cir) /\ R[l].idx \in Nat
  BY <1>10 DEF D, RunStates
<1>12. R[0].sh = StartShares(f, j) /\ R[0].idx = 0
  BY <1>9 DEF base
<1>13. \A l \in Nat : l + 1 <= n => R[l + 1] = After(f.rand, R[l], LevelAt(f, j, l + 1))
  BY <1>9 DEF Op
<1> QED
  BY <1>11, <1>12, <1>13 DEF R, cir, n

(* The circuit in the open: f's Plain.                                     *)
LEMMA RunOpens ==
  ASSUME NEW f, NEW j, FixedOK(f), j \in 1 .. Len(f.program)
  PROVE  OpenedOf(f.program[j], Run(f, j)[Levels(f, j)].sh)
           = FoldLeft(PlainLevel, OpenedOf(f.program[j], StartShares(f, j)), f.program[j].levels)
<1> DEFINE cir == f.program[j]
           n == Levels(f, j)
           R == Run(f, j)
           base == OpenedOf(cir, StartShares(f, j))
<1>1. n \in Nat /\ \A l \in 1 .. n : LevelAt(f, j, l) \in Seq(Gates(cir)) /\ Levelled(LevelAt(f, j, l))
  BY CircuitFacts
<1>2. base \in [Wires(cir) -> Bit]
  <2> HIDE DEF cir
  <2> QED
    BY StartSharesAre, OpenedBits DEF cir
<1>3. cir.levels \in Seq(Seq(Gates(cir)))
  BY DEF FixedOK, CircuitOK
<1>4. PICK V : LevelsTrace(V, cir, base)
  <2> HIDE DEF cir, base
  <2> QED
    BY <1>2, <1>3, LevelsTraced
<1>5. /\ V[0] = base /\ \A k \in 1 .. n : V[k] = PlainLevel(V[k - 1], LevelAt(f, j, k))
      /\ FoldLeft(PlainLevel, base, cir.levels) = V[n]
  BY <1>4 DEF LevelsTrace, Levels, LevelAt
<1>6. /\ R[0].sh = StartShares(f, j) /\ R[0].idx = 0
      /\ \A l \in Nat : l + 1 <= n => R[l + 1] = After(f.rand, R[l], LevelAt(f, j, l + 1))
      /\ \A l \in Nat : R[l].sh \in Sharings(cir) /\ R[l].idx \in Nat
  BY RunIs
<1> HIDE DEF R, n
<1> DEFINE S == {l \in Nat : l <= n => V[l] = OpenedOf(cir, R[l].sh)}
<1>7. 0 \in S
  BY <1>5, <1>6
<1> HIDE DEF base, cir
<1>8. ASSUME NEW l \in Nat, l \in S PROVE l + 1 \in S
  <2> SUFFICES ASSUME l + 1 <= n PROVE V[l + 1] = OpenedOf(cir, R[l + 1].sh)
    OBVIOUS
  <2>1. l + 1 \in 1 .. n /\ l + 1 - 1 = l /\ l <= n
    BY <1>1
  <2> DEFINE level == LevelAt(f, j, l + 1)
  <2>2. V[l + 1] = PlainLevel(V[l], level) /\ V[l] = OpenedOf(cir, R[l].sh)
    BY <1>5, <1>8, <2>1
  <2>3. R[l + 1].sh = SharesAfter(f.rand, R[l].sh, R[l].idx, level)
    <3>1. R[l + 1] = After(f.rand, R[l], level)
      BY <1>6, <2>1
    <3> HIDE DEF level
    <3> QED
      BY <3>1 DEF After
  <2>4. level \in Seq(Gates(cir)) /\ Levelled(level)
    BY <1>1, <2>1
  <2> HIDE DEF level
  <2> QED
    BY <1>6, <2>2, <2>3, <2>4, LevelTogether
<1>9. n \in S
  <2> HIDE DEF S
  <2> QED
    BY <1>1, <1>7, <1>8, NatInduct
<1>10. V[n] = OpenedOf(cir, R[n].sh)
  BY <1>1, <1>9
<1> QED
  BY <1>5, <1>10 DEF R, n, base, cir

-----------------------------------------------------------------------------
(* The messages, in the order in which a party sends and takes them.       *)
(* Numbers of messages: a party sends one for each level that leaves wires *)
(* to be received.  SendsBefore(f, j)[l] counts those of the first l       *)
(* levels of circuit j, MsgNo(f, j, x) those before its level x (from 0).  *)
SendsBefore(f, j) == Totals([l \in Nat |-> IF l \in 1 .. Levels(f, j) /\ LocsAt(f, j, l) # <<>> THEN 1 ELSE 0])
JobsBefore(f) == Totals([j \in Nat |-> IF j \in 1 .. Len(f.program) THEN SendsBefore(f, j)[Levels(f, j)] ELSE 0])
MsgNo(f, j, x) == JobsBefore(f)[j - 1] + SendsBefore(f, j)[x]

LEMMA SendsAre ==
  ASSUME NEW f, NEW j, NEW s, s = SendsBefore(f, j)
  PROVE  /\ s[0] = 0 /\ \A x \in Nat : s[x] \in Nat
         /\ \A x \in Nat : s[x + 1] = s[x] + (IF x + 1 \in 1 .. Levels(f, j) /\ LocsAt(f, j, x + 1) # <<>> THEN 1 ELSE 0)
         /\ \A x, y \in Nat : x <= y => s[x] <= s[y]
<1> DEFINE w == [l \in Nat |-> IF l \in 1 .. Levels(f, j) /\ LocsAt(f, j, l) # <<>> THEN 1 ELSE 0]
<1>1. w \in [Nat -> Nat] /\ s = Totals(w)
  BY DEF SendsBefore
<1>2. \A x \in Nat : w[x + 1] = IF x + 1 \in 1 .. Levels(f, j) /\ LocsAt(f, j, x + 1) # <<>> THEN 1 ELSE 0
  OBVIOUS
<1> HIDE DEF w
<1>3. /\ s \in [Nat -> Nat] /\ s[0] = 0
      /\ \A n \in Nat : s[n + 1] = s[n] + w[n + 1]
      /\ \A m, n \in Nat : m <= n => s[m] <= s[n]
  BY <1>1, TotalsAre
<1> QED
  BY <1>2, <1>3

LEMMA JobsAre ==
  ASSUME NEW f, NEW b, FixedOK(f), b = JobsBefore(f)
  PROVE  /\ b[0] = 0 /\ \A j \in Nat : b[j] \in Nat
         /\ \A j \in 1 .. Len(f.program) : b[j] = b[j - 1] + SendsBefore(f, j)[Levels(f, j)]
         /\ \A j, k \in Nat : j <= k => b[j] <= b[k]
<1> DEFINE w == [j \in Nat |-> IF j \in 1 .. Len(f.program) THEN SendsBefore(f, j)[Levels(f, j)] ELSE 0]
<1>1. \A j \in 1 .. Len(f.program) : SendsBefore(f, j)[Levels(f, j)] \in Nat
  BY CircuitFacts, SendsAre
<1>2. w \in [Nat -> Nat] /\ b = Totals(w)
  BY <1>1 DEF JobsBefore
<1>3. \A j \in 1 .. Len(f.program) : w[j] = SendsBefore(f, j)[Levels(f, j)] /\ j - 1 \in Nat /\ j - 1 + 1 = j
  BY DEF FixedOK
<1> HIDE DEF w
<1>4. /\ b \in [Nat -> Nat] /\ b[0] = 0
      /\ \A n \in Nat : b[n + 1] = b[n] + w[n + 1]
      /\ \A m, n \in Nat : m <= n => b[m] <= b[n]
  BY <1>2, TotalsAre
<1>5. ASSUME NEW j \in 1 .. Len(f.program) PROVE b[j] = b[j - 1] + SendsBefore(f, j)[Levels(f, j)]
  <2>1. b[j - 1 + 1] = b[j - 1] + w[j - 1 + 1]
    BY <1>3, <1>4
  <2> QED
    BY <1>3, <2>1
<1> QED
  BY <1>4, <1>5

LEMMA NumbersAre ==
  ASSUME NEW f, NEW j, FixedOK(f), j \in 1 .. Len(f.program)
  PROVE  /\ Levels(f, j) \in Nat /\ \A x \in Nat : MsgNo(f, j, x) \in Nat
         /\ j = 1 => MsgNo(f, j, 0) = 0
         /\ \A x \in 0 .. (Levels(f, j) - 1) :
              MsgNo(f, j, x + 1) = IF LocsAt(f, j, x + 1) = <<>> THEN MsgNo(f, j, x) ELSE MsgNo(f, j, x) + 1
         /\ MsgNo(f, j, Levels(f, j) + 1) = MsgNo(f, j, Levels(f, j))
         /\ j + 1 \in 1 .. Len(f.program) => MsgNo(f, j + 1, 0) = MsgNo(f, j, Levels(f, j))
         /\ \A x, y \in Nat : x <= y => MsgNo(f, j, x) <= MsgNo(f, j, y)
<1> DEFINE s == SendsBefore(f, j)
           b == JobsBefore(f)
           n == Levels(f, j)
<1>1. n \in Nat /\ j \in Nat /\ j - 1 \in Nat
  <2>1. n \in Nat
    BY CircuitFacts
  <2>2. Len(f.program) \in Nat
    BY DEF FixedOK
  <2> QED
    BY <2>1, <2>2
<1>2. /\ s[0] = 0 /\ \A x \in Nat : s[x] \in Nat
      /\ \A x \in Nat : s[x + 1] = s[x] + (IF x + 1 \in 1 .. n /\ LocsAt(f, j, x + 1) # <<>> THEN 1 ELSE 0)
      /\ \A x, y \in Nat : x <= y => s[x] <= s[y]
  BY SendsAre
<1>3. /\ b[0] = 0 /\ \A k \in Nat : b[k] \in Nat
      /\ b[j] = b[j - 1] + s[n]
  BY JobsAre
<1>4. \A x : MsgNo(f, j, x) = b[j - 1] + s[x]
  BY DEF MsgNo
<1>5. j + 1 \in 1 .. Len(f.program) => MsgNo(f, j + 1, 0) = b[j]
  <2> SUFFICES ASSUME j + 1 \in 1 .. Len(f.program) PROVE MsgNo(f, j + 1, 0) = b[j]
    OBVIOUS
  <2>1. SendsBefore(f, j + 1)[0] = 0
    BY SendsAre
  <2>2. j + 1 - 1 = j /\ b[j] \in Nat
    BY <1>1, <1>3
  <2> HIDE DEF b
  <2> QED
    BY <2>1, <2>2 DEF MsgNo, b
<1> HIDE DEF s, b, n
<1>6. \A x \in Nat : b[j - 1] \in Nat /\ s[x] \in Nat /\ MsgNo(f, j, x) \in Nat
  <2> SUFFICES ASSUME NEW x \in Nat PROVE b[j - 1] \in Nat /\ s[x] \in Nat /\ MsgNo(f, j, x) \in Nat
    OBVIOUS
  <2>1. b[j - 1] \in Nat /\ s[x] \in Nat
    BY <1>1, <1>2, <1>3
  <2> QED
    BY <1>4, <2>1
<1>7. j = 1 => MsgNo(f, j, 0) = 0
  <2> SUFFICES ASSUME j = 1 PROVE MsgNo(f, j, 0) = 0
    OBVIOUS
  <2>1. j - 1 = 0
    OBVIOUS
  <2>2. MsgNo(f, j, 0) = b[0] + s[0]
    BY <1>4, <2>1
  <2> QED
    BY <1>2, <1>3, <2>2
<1>8. \A x \in 0 .. (n - 1) :
        MsgNo(f, j, x + 1) = IF LocsAt(f, j, x + 1) = <<>> THEN MsgNo(f, j, x) ELSE MsgNo(f, j, x) + 1
  <2> SUFFICES ASSUME NEW x \in 0 .. (n - 1)
               PROVE  MsgNo(f, j, x + 1) = IF LocsAt(f, j, x + 1) = <<>> THEN MsgNo(f, j, x) ELSE MsgNo(f, j, x) + 1
    OBVIOUS
  <2>1. x \in Nat /\ x + 1 \in 1 .. n /\ b[j - 1] \in Nat /\ s[x] \in Nat
    BY <1>1, <1>2, <1>3
  <2>2. s[x + 1] = s[x] + (IF LocsAt(f, j, x + 1) # <<>> THEN 1 ELSE 0)
    BY <1>2, <2>1
  <2> QED
    BY <1>4, <2>1, <2>2
<1>9. MsgNo(f, j, n + 1) = MsgNo(f, j, n)
  <2>1. s[n + 1] = s[n] /\ s[n] \in Nat
    <3>1. n + 1 \notin 1 .. n
      BY <1>1
    <3>2. s[n + 1] = s[n] + 0
      BY <1>1, <1>2, <3>1
    <3> QED
      BY <1>1, <1>2, <3>2
  <2> QED
    BY <1>4, <2>1
<1>10. \A x, y \in Nat : x <= y => MsgNo(f, j, x) <= MsgNo(f, j, y)
  <2> SUFFICES ASSUME NEW x \in Nat, NEW y \in Nat, x <= y PROVE MsgNo(f, j, x) <= MsgNo(f, j, y)
    OBVIOUS
  <2>1. s[x] <= s[y] /\ s[x] \in Nat /\ s[y] \in Nat /\ b[j - 1] \in Nat
    BY <1>2, <1>6
  <2> QED
    BY <1>4, <2>1
<1>11. j + 1 \in 1 .. Len(f.program) => MsgNo(f, j + 1, 0) = MsgNo(f, j, n)
  BY <1>3, <1>4, <1>5
<1> QED
  BY <1>1, <1>6, <1>7, <1>8, <1>9, <1>10, <1>11 DEF n

(* Level x of circuit j, and a message of it.                              *)
SendsAt(f, j, x) == /\ j \in 1 .. Len(f.program) /\ x \in 0 .. (Levels(f, j) - 1)
                    /\ LocsAt(f, j, x + 1) # <<>>

LEMMA NumbersOrdered ==
  ASSUME NEW f, NEW j, NEW x, NEW k, NEW y, FixedOK(f), SendsAt(f, j, x),
         k \in 1 .. Len(f.program), y \in 0 .. Levels(f, k), MsgNo(f, j, x) < MsgNo(f, k, y)
  PROVE  j < k \/ (j = k /\ x < y)
<1>0. j \in 1 .. Len(f.program) /\ x \in 0 .. (Levels(f, j) - 1) /\ x \in Nat /\ y \in Nat /\ j \in Nat /\ k \in Nat
      /\ Levels(f, j) \in Nat /\ Levels(f, k) \in Nat
  <2>1. j \in 1 .. Len(f.program) /\ x \in 0 .. (Levels(f, j) - 1) /\ Len(f.program) \in Nat
    BY DEF SendsAt, FixedOK
  <2>2. Levels(f, j) \in Nat /\ Levels(f, k) \in Nat
    BY <2>1, CircuitFacts
  <2> QED
    BY <2>1, <2>2
<1>1. ASSUME k < j PROVE FALSE
  <2>1. /\ \A i \in Nat : JobsBefore(f)[i] \in Nat
        /\ JobsBefore(f)[k] = JobsBefore(f)[k - 1] + SendsBefore(f, k)[Levels(f, k)]
        /\ JobsBefore(f)[k] <= JobsBefore(f)[j - 1]
    <3>1. k <= j - 1 /\ j - 1 \in Nat
      BY <1>0, <1>1
    <3> QED
      BY <1>0, <3>1, JobsAre
  <2>2. SendsBefore(f, k)[y] <= SendsBefore(f, k)[Levels(f, k)] /\ SendsBefore(f, k)[y] \in Nat
        /\ SendsBefore(f, k)[Levels(f, k)] \in Nat
    <3> DEFINE s == SendsBefore(f, k)
    <3>1. (\A u \in Nat : s[u] \in Nat) /\ (\A u, v \in Nat : u <= v => s[u] <= s[v])
      BY SendsAre
    <3> HIDE DEF s
    <3>2. s[y] <= s[Levels(f, k)] /\ s[y] \in Nat /\ s[Levels(f, k)] \in Nat
      BY <1>0, <3>1
    <3> QED
      BY <3>2 DEF s
  <2>3. SendsBefore(f, j)[x] \in Nat
    BY <1>0, SendsAre
  <2>4. k - 1 \in Nat /\ j - 1 \in Nat
    BY <1>0
  <2> DEFINE before == JobsBefore(f)
             sj == SendsBefore(f, j)[x]
             sk == SendsBefore(f, k)
  <2>5. before[j - 1] + sj < before[k - 1] + sk[y]
    BY DEF MsgNo
  <2>6. before[k - 1] \in Nat /\ before[j - 1] \in Nat /\ before[k] \in Nat
    BY <2>1, <2>4, <1>0
  <2>7. /\ before[k] = before[k - 1] + sk[Levels(f, k)] /\ before[k] <= before[j - 1]
        /\ sk[y] <= sk[Levels(f, k)] /\ sk[y] \in Nat /\ sk[Levels(f, k)] \in Nat /\ sj \in Nat
    BY <2>1, <2>2, <2>3
  <2> HIDE DEF before, sj, sk
  <2> QED
    BY <2>5, <2>6, <2>7, SMTT(60)
<1>2. ASSUME j = k, y <= x PROVE FALSE
  <2>1. MsgNo(f, j, y) <= MsgNo(f, j, x) /\ MsgNo(f, j, y) \in Nat /\ MsgNo(f, j, x) \in Nat
    BY <1>0, <1>2, NumbersAre
  <2> QED
    BY <1>2, <2>1
<1> QED
  BY <1>0, <1>1, <1>2

LEMMA NumbersDiffer ==
  ASSUME NEW f, NEW j, NEW x, NEW k, NEW y, FixedOK(f), SendsAt(f, j, x), SendsAt(f, k, y),
         MsgNo(f, j, x) = MsgNo(f, k, y)
  PROVE  j = k /\ x = y
<1>1. /\ j \in 1 .. Len(f.program) /\ x \in 0 .. (Levels(f, j) - 1) /\ x \in Nat /\ j \in Nat
      /\ k \in 1 .. Len(f.program) /\ y \in 0 .. (Levels(f, k) - 1) /\ y \in Nat /\ k \in Nat
      /\ Levels(f, j) \in Nat /\ Levels(f, k) \in Nat
  <2>1. /\ j \in 1 .. Len(f.program) /\ x \in 0 .. (Levels(f, j) - 1) /\ Len(f.program) \in Nat
        /\ k \in 1 .. Len(f.program) /\ y \in 0 .. (Levels(f, k) - 1)
    BY DEF SendsAt, FixedOK
  <2>2. Levels(f, j) \in Nat /\ Levels(f, k) \in Nat
    BY <2>1, CircuitFacts
  <2> QED
    BY <2>1, <2>2
<1>2. MsgNo(f, j, x + 1) = MsgNo(f, j, x) + 1 /\ MsgNo(f, j, x) \in Nat
  BY <1>1, NumbersAre DEF SendsAt
<1>3. MsgNo(f, k, y + 1) = MsgNo(f, k, y) + 1 /\ MsgNo(f, k, y) \in Nat
  BY <1>1, NumbersAre DEF SendsAt
<1>4. MsgNo(f, j, x) < MsgNo(f, k, y + 1) /\ MsgNo(f, k, y) < MsgNo(f, j, x + 1)
  BY <1>2, <1>3
<1>5. y + 1 \in 0 .. Levels(f, k) /\ x + 1 \in 0 .. Levels(f, j)
  BY <1>1
<1>6. j < k \/ (j = k /\ x < y + 1)
  BY <1>1, <1>4, <1>5, NumbersOrdered
<1>7. k < j \/ (k = j /\ y < x + 1)
  BY <1>1, <1>4, <1>5, NumbersOrdered
<1> QED
  BY <1>1, <1>6, <1>7

(* The shares that p sends after a level: of = <<circuit, level>>.         *)
DataOf(f, p, of) ==
  LevelOf(f.rand, Run(f, of[1])[of[2]].sh, Run(f, of[1])[of[2]].idx, LevelAt(f, of[1], of[2] + 1), p).buff

(* m is the n-th message (from 0) that p sends; if right, with the shares  *)
(* of the lockstep run.                                                    *)
Messages == [data : Seq(Bit), of : Nat \X Nat]
Sendings == [moved : BOOLEAN, buff : {0, 1}, data : Seq(Bit), of : Nat \X Nat]
Meant(f, p, right, m, n) ==
  /\ SendsAt(f, m.of[1], m.of[2]) /\ MsgNo(f, m.of[1], m.of[2]) = n
  /\ Len(m.data) = Len(LocsAt(f, m.of[1], m.of[2] + 1))
  /\ right => m.data = DataOf(f, p, m.of)

(* The messages from p that have been sent and not been taken.             *)
Channel(f, p, right, taken, sent, arr, snd) ==
  /\ taken \in Nat /\ arr \in Seq(Messages) /\ snd \in Seq(Sendings)
  /\ taken + Len(arr) + Len(snd) = sent
  /\ \A i \in 1 .. Len(arr) : Meant(f, p, right, arr[i], taken + i - 1)
  /\ \A i \in 1 .. Len(snd) : Meant(f, p, right, snd[i], taken + Len(arr) + i - 1)

LEMMA TailIs ==
  ASSUME NEW A, NEW s, s \in Seq(A), s # <<>>
  PROVE  /\ Tail(s) \in Seq(A) /\ Len(s) \in Nat /\ Len(s) >= 1 /\ Len(Tail(s)) = Len(s) - 1
         /\ Head(s) = s[1] /\ Head(s) \in A
         /\ \A i \in 1 .. (Len(s) - 1) : Tail(s)[i] = s[i + 1]
  OBVIOUS

LEMMA ChannelTake ==
  ASSUME NEW f, NEW p, NEW right, NEW taken, NEW sent, NEW arr, NEW snd,
         Channel(f, p, right, taken, sent, arr, snd), arr # <<>>
  PROVE  /\ Channel(f, p, right, taken + 1, sent, Tail(arr), snd)
         /\ Head(arr) \in Messages /\ Meant(f, p, right, Head(arr), taken)
<1>1. /\ taken \in Nat /\ arr \in Seq(Messages) /\ snd \in Seq(Sendings) /\ Len(snd) \in Nat
      /\ taken + Len(arr) + Len(snd) = sent
      /\ \A i \in 1 .. Len(arr) : Meant(f, p, right, arr[i], taken + i - 1)
      /\ \A i \in 1 .. Len(snd) : Meant(f, p, right, snd[i], taken + Len(arr) + i - 1)
  BY DEF Channel
<1>2. /\ Tail(arr) \in Seq(Messages) /\ Len(arr) \in Nat /\ Len(arr) >= 1 /\ Len(Tail(arr)) = Len(arr) - 1
      /\ Head(arr) = arr[1] /\ Head(arr) \in Messages
      /\ \A i \in 1 .. (Len(arr) - 1) : Tail(arr)[i] = arr[i + 1]
  BY <1>1, TailIs
<1>3. ASSUME NEW i \in 1 .. Len(Tail(arr)) PROVE Meant(f, p, right, Tail(arr)[i], taken + 1 + i - 1)
  <2>1. i + 1 \in 1 .. Len(arr) /\ taken + (i + 1) - 1 = taken + 1 + i - 1 /\ Tail(arr)[i] = arr[i + 1]
    BY <1>1, <1>2
  <2>2. Meant(f, p, right, arr[i + 1], taken + (i + 1) - 1)
    BY <1>1, <2>1
  <2> QED
    BY <2>1, <2>2
<1>4. ASSUME NEW i \in 1 .. Len(snd) PROVE Meant(f, p, right, snd[i], taken + 1 + Len(Tail(arr)) + i - 1)
  <2>1. taken + 1 + Len(Tail(arr)) + i - 1 = taken + Len(arr) + i - 1
    BY <1>1, <1>2
  <2> QED
    BY <1>1, <2>1
<1>5. Meant(f, p, right, arr[1], taken)
  <2>1. 1 \in 1 .. Len(arr) /\ taken + 1 - 1 = taken
    BY <1>1, <1>2
  <2>2. Meant(f, p, right, arr[1], taken + 1 - 1)
    BY <1>1, <2>1
  <2> QED
    BY <2>1, <2>2
<1>6. taken + 1 \in Nat /\ taken + 1 + Len(Tail(arr)) + Len(snd) = sent
  BY <1>1, <1>2
<1> QED
  BY <1>1, <1>2, <1>3, <1>4, <1>5, <1>6 DEF Channel

LEMMA ChannelPut ==
  ASSUME NEW f, NEW p, NEW right, NEW taken, NEW sent, NEW arr, NEW snd, NEW m,
         Channel(f, p, right, taken, sent, arr, snd), snd = <<>>, m \in Messages, Meant(f, p, right, m, sent)
  PROVE  Channel(f, p, right, taken, sent + 1, Append(arr, m), snd)
<1>1. /\ taken \in Nat /\ arr \in Seq(Messages) /\ snd \in Seq(Sendings) /\ Len(snd) = 0
      /\ taken + Len(arr) + Len(snd) = sent
      /\ \A i \in 1 .. Len(arr) : Meant(f, p, right, arr[i], taken + i - 1)
  BY DEF Channel
<1> DEFINE new == Append(arr, m)
<1>2. /\ new \in Seq(Messages) /\ Len(arr) \in Nat /\ Len(new) = Len(arr) + 1
      /\ \A i \in 1 .. (Len(arr) + 1) : new[i] = IF i = Len(arr) + 1 THEN m ELSE arr[i]
  BY <1>1, AppendIs
<1> HIDE DEF new
<1>3. ASSUME NEW i \in 1 .. Len(new) PROVE Meant(f, p, right, new[i], taken + i - 1)
  <2>1. CASE i = Len(arr) + 1
    <3>1. new[i] = m /\ taken + i - 1 = sent
      BY <1>1, <1>2, <2>1
    <3> QED
      BY <3>1
  <2>2. CASE i # Len(arr) + 1
    <3>1. i \in 1 .. Len(arr) /\ new[i] = arr[i]
      BY <1>2, <2>2
    <3> QED
      BY <1>1, <3>1
  <2> QED
    BY <2>1, <2>2
<1>4. taken + Len(new) + Len(snd) = sent + 1
  BY <1>1, <1>2
<1>5. \A i \in 1 .. Len(snd) : Meant(f, p, right, snd[i], taken + Len(new) + i - 1)
  BY <1>1
<1> QED
  BY <1>1, <1>2, <1>3, <1>4, <1>5 DEF Channel, new

LEMMA ChannelQueue ==
  ASSUME NEW f, NEW p, NEW right, NEW taken, NEW sent, NEW arr, NEW snd, NEW m,
         Channel(f, p, right, taken, sent, arr, snd), m \in Sendings, Meant(f, p, right, m, sent)
  PROVE  Channel(f, p, right, taken, sent + 1, arr, Append(snd, m))
<1>1. /\ taken \in Nat /\ arr \in Seq(Messages) /\ snd \in Seq(Sendings) /\ Len(arr) \in Nat
      /\ taken + Len(arr) + Len(snd) = sent
      /\ \A i \in 1 .. Len(arr) : Meant(f, p, right, arr[i], taken + i - 1)
      /\ \A i \in 1 .. Len(snd) : Meant(f, p, right, snd[i], taken + Len(arr) + i - 1)
  BY DEF Channel
<1> DEFINE new == Append(snd, m)
<1>2. /\ new \in Seq(Sendings) /\ Len(snd) \in Nat /\ Len(new) = Len(snd) + 1
      /\ \A i \in 1 .. (Len(snd) + 1) : new[i] = IF i = Len(snd) + 1 THEN m ELSE snd[i]
  <2>1. snd \in Seq(Sendings) /\ m \in Sendings
    BY <1>1
  <2> QED
    BY <2>1, AppendIs
<1> HIDE DEF new
<1>3. ASSUME NEW i \in 1 .. Len(new) PROVE Meant(f, p, right, new[i], taken + Len(arr) + i - 1)
  <2>1. CASE i = Len(snd) + 1
    <3>1. new[i] = m /\ taken + Len(arr) + i - 1 = sent
      BY <1>1, <1>2, <2>1
    <3> QED
      BY <3>1
  <2>2. CASE i # Len(snd) + 1
    <3>1. i \in 1 .. Len(snd) /\ new[i] = snd[i]
      BY <1>2, <2>2
    <3> QED
      BY <1>1, <3>1
  <2> QED
    BY <2>1, <2>2
<1>4. taken + Len(arr) + Len(new) = sent + 1
  BY <1>1, <1>2
<1> QED
  BY <1>1, <1>2, <1>3, <1>4 DEF Channel, new

LEMMA ChannelTransmit ==
  ASSUME NEW f, NEW p, NEW right, NEW taken, NEW sent, NEW arr, NEW snd, NEW m,
         Channel(f, p, right, taken, sent, arr, snd), snd # <<>>, m \in Messages,
         m.of = Head(snd).of, Len(m.data) = Len(Head(snd).data), right => m.data = Head(snd).data
  PROVE  Channel(f, p, right, taken, sent, Append(arr, m), Tail(snd))
<1>1. /\ taken \in Nat /\ arr \in Seq(Messages) /\ snd \in Seq(Sendings)
      /\ taken + Len(arr) + Len(snd) = sent
      /\ \A i \in 1 .. Len(arr) : Meant(f, p, right, arr[i], taken + i - 1)
      /\ \A i \in 1 .. Len(snd) : Meant(f, p, right, snd[i], taken + Len(arr) + i - 1)
  BY DEF Channel
<1> DEFINE new == Append(arr, m)
           rest == Tail(snd)
<1>2. /\ new \in Seq(Messages) /\ Len(arr) \in Nat /\ Len(new) = Len(arr) + 1
      /\ \A i \in 1 .. (Len(arr) + 1) : new[i] = IF i = Len(arr) + 1 THEN m ELSE arr[i]
  BY <1>1, AppendIs
<1>3. /\ rest \in Seq(Sendings) /\ Len(snd) \in Nat /\ Len(snd) >= 1 /\ Len(rest) = Len(snd) - 1
      /\ Head(snd) = snd[1] /\ \A i \in 1 .. (Len(snd) - 1) : rest[i] = snd[i + 1]
  BY <1>1, TailIs
<1> HIDE DEF new, rest
<1>4. Meant(f, p, right, m, taken + Len(arr))
  <2>1. 1 \in 1 .. Len(snd) /\ taken + Len(arr) + 1 - 1 = taken + Len(arr)
    BY <1>1, <1>2, <1>3
  <2>2. Meant(f, p, right, snd[1], taken + Len(arr) + 1 - 1)
    BY <1>1, <2>1
  <2>3. Meant(f, p, right, Head(snd), taken + Len(arr))
    BY <1>3, <2>1, <2>2
  <2> QED
    BY <2>3 DEF Meant
<1>5. ASSUME NEW i \in 1 .. Len(new) PROVE Meant(f, p, right, new[i], taken + i - 1)
  <2>1. CASE i = Len(arr) + 1
    <3>1. new[i] = m /\ taken + i - 1 = taken + Len(arr)
      BY <1>1, <1>2, <2>1
    <3> QED
      BY <1>4, <3>1
  <2>2. CASE i # Len(arr) + 1
    <3>1. i \in 1 .. Len(arr) /\ new[i] = arr[i]
      BY <1>2, <2>2
    <3> QED
      BY <1>1, <3>1
  <2> QED
    BY <2>1, <2>2
<1>6. ASSUME NEW i \in 1 .. Len(rest) PROVE Meant(f, p, right, rest[i], taken + Len(new) + i - 1)
  <2>1. i + 1 \in 1 .. Len(snd) /\ rest[i] = snd[i + 1] /\ taken + Len(new) + i - 1 = taken + Len(arr) + (i + 1) - 1
    BY <1>1, <1>2, <1>3
  <2>2. Meant(f, p, right, snd[i + 1], taken + Len(arr) + (i + 1) - 1)
    BY <1>1, <2>1
  <2> QED
    BY <2>1, <2>2
<1>7. taken + Len(new) + Len(rest) = sent
  BY <1>1, <1>2, <1>3
<1> QED
  BY <1>1, <1>2, <1>3, <1>5, <1>6, <1>7 DEF Channel, new, rest

-----------------------------------------------------------------------------
(* The invariant, and the steps that keep it.                              *)
(* The state.                                                              *)
Fixed == [input |-> input, rand |-> rand, program |-> program]

(* How many messages p has sent and taken, by where it is.                 *)
PosNo(f, j, l) == IF j = 0 THEN 0 ELSE MsgNo(f, j, l)
SentNo(p) == PosNo(Fixed, job[p], mLevel[p])
TakenNo(p) == PosNo(Fixed, job[p], IF mLevel[p] = 0 THEN 0 ELSE mLevel[p] - 1)

(* The outputs of p in the lockstep run.                                   *)
OutOf(f, p, j) ==
  [i \in DOMAIN f.program[j].outputs |-> [s \in {0, 1} |->
     LET o == f.program[j].outputs[i]
         b == Run(f, j)[Levels(f, j)].sh[IF s = 0 THEN p ELSE prevOf(p)][o.wire]
     IN IF o.invert THEN N(b) ELSE b]]

(* Where p is in its circuit, and what it then holds.                      *)
AtLevel(f, j, l, locs, m) ==
  /\ l \in 0 .. (Levels(f, j) + 1) /\ m \in [{0, 1} -> [Wires(f.program[j]) -> Bit]]
  /\ l \in 1 .. Levels(f, j) => locs = LocsAt(f, j, l)

HoldsShares(f, p, j, l, idx, locs, m) ==
  LET S == Run(f, j)[IF l <= Levels(f, j) THEN l ELSE Levels(f, j)]
  IN /\ m[0] = S.sh[p] /\ (l <= Levels(f, j) => idx = S.idx)
     /\ \A w \in Wires(f.program[j]) : (l \in 1 .. Levels(f, j) /\ Among(w, locs)) \/ m[1][w] = S.sh[prevOf(p)][w]

Outputs == Seq([{0, 1} -> Bit])
Buffers == [{0, 1} -> Seq(Bit)]

PartyOK(p, right) ==
  /\ job[p] \in 0 .. Len(Fixed.program) /\ mShareIdx[p] \in Nat /\ mRecvLocs[p] \in Seq(Nat)
  /\ mSendBuffs[p] \in Buffers
  /\ out[p] \in Seq(Outputs) /\ (Len(out[p]) = job[p] \/ Len(out[p]) = job[p] - 1)
  /\ IF job[p] = 0 THEN mLevel[p] = 0 /\ mem[p] = [s \in {0, 1} |-> <<>>]
     ELSE /\ AtLevel(Fixed, job[p], mLevel[p], mRecvLocs[p], mem[p])
          /\ Len(out[p]) = job[p] => mLevel[p] = Levels(Fixed, job[p]) + 1
          /\ right => HoldsShares(Fixed, p, job[p], mLevel[p], mShareIdx[p], mRecvLocs[p], mem[p])
  /\ right => \A j \in 1 .. Len(out[p]) : out[p][j] = OutOf(Fixed, p, j)

ChannelOK(p, right) ==
  /\ Channel(Fixed, p, right, TakenNo(nextOf(p)), SentNo(p), arrived[nextOf(p)], sending[p])
  /\ promptSends => sending[p] = <<>>

OnParties(x) == x = [p \in Party |-> x[p]]

EvalInv(right) ==
  /\ FixedOK(Fixed) /\ promptSends \in BOOLEAN
  /\ OnParties(job) /\ OnParties(mLevel) /\ OnParties(mem) /\ OnParties(mShareIdx) /\ OnParties(mRecvLocs)
  /\ OnParties(mSendBuffs) /\ OnParties(sending) /\ OnParties(arrived) /\ OnParties(out)
  /\ \A p \in Party : PartyOK(p, right) /\ ChannelOK(p, right)

Updated(x, p, v) == [x EXCEPT ![p] = v]

LEMMA UpdateIs ==
  ASSUME NEW x, NEW p, NEW v, OnParties(x), p \in Party
  PROVE  OnParties(Updated(x, p, v)) /\ \A q \in Party : Updated(x, p, v)[q] = IF q = p THEN v ELSE x[q]
  BY DEF OnParties, Updated

LEMMA FixedKept ==
  ASSUME UNCHANGED fixed
  PROVE  Fixed' = Fixed /\ promptSends' = promptSends
  BY DEF fixed, Fixed

LEMMA PartyKept ==
  ASSUME NEW p, NEW right, PartyOK(p, right), Fixed' = Fixed,
         job'[p] = job[p], mLevel'[p] = mLevel[p], mem'[p] = mem[p], mShareIdx'[p] = mShareIdx[p],
         mRecvLocs'[p] = mRecvLocs[p], mSendBuffs'[p] = mSendBuffs[p], out'[p] = out[p]
  PROVE  PartyOK(p, right)'
  BY DEF PartyOK

LEMMA NumbersKept ==
  ASSUME NEW p, Fixed' = Fixed, job'[p] = job[p], mLevel'[p] = mLevel[p]
  PROVE  SentNo(p)' = SentNo(p) /\ TakenNo(p)' = TakenNo(p)
  BY DEF SentNo, TakenNo

LEMMA ChannelKept ==
  ASSUME NEW p, NEW right, ChannelOK(p, right), Fixed' = Fixed, promptSends' = promptSends,
         SentNo(p)' = SentNo(p), TakenNo(nextOf(p))' = TakenNo(nextOf(p)),
         arrived'[nextOf(p)] = arrived[nextOf(p)], sending'[p] = sending[p]
  PROVE  ChannelOK(p, right)'
  BY DEF ChannelOK

(* The beginning.                                                          *)
LEMMA InitFixed ==
  ASSUME Init
  PROVE  FixedOK(Fixed) /\ promptSends \in BOOLEAN
<1>1. PICK w \in Workloads : program = w.circuits /\ promptSends = w.prompt /\ input \in w.inputs
  BY DEF Init
<1>2. /\ w.prompt \in BOOLEAN /\ w.circuits \in Seq(Range(w.circuits))
      /\ \A cir \in Range(w.circuits) :
           CircuitOK(cir) /\ \A f \in w.inputs : \A p \in Party, x \in 0 .. (cir.inputs - 1) : f[p][x] \in Bit
  BY WorkloadsAssumption
<1>3. Len(program) \in Nat /\ DOMAIN program = 1 .. Len(program)
      /\ \A j \in 1 .. Len(program) : program[j] \in Range(w.circuits)
  <2> DEFINE R == Range(w.circuits)
  <2>1. program \in Seq(R)
    BY <1>1, <1>2
  <2> HIDE DEF R
  <2> QED
    BY <2>1, LenProperties DEF R
<1>4. \A j \in 1 .. Len(program) :
        /\ CircuitOK(program[j])
        /\ \A p \in Party, x \in 0 .. (program[j].inputs - 1) : input[p][x] \in Bit
  BY <1>1, <1>2, <1>3
<1> QED
  BY <1>1, <1>2, <1>3, <1>4 DEF FixedOK, Fixed

LEMMA InitInv ==
  ASSUME NEW right, Init
  PROVE  EvalInv(right)
<1>1. FixedOK(Fixed) /\ promptSends \in BOOLEAN
  BY InitFixed
<1>2. /\ job = [p \in Party |-> 0] /\ mLevel = [p \in Party |-> 0]
      /\ mem = [p \in Party |-> [s \in {0, 1} |-> << >>]]
      /\ mShareIdx = [p \in Party |-> 0] /\ mRecvLocs = [p \in Party |-> <<>>]
      /\ mSendBuffs = [p \in Party |-> [b \in {0, 1} |-> <<>>]]
      /\ sending = [p \in Party |-> <<>>] /\ arrived = [p \in Party |-> <<>>]
      /\ out = [p \in Party |-> <<>>]
  BY DEF Init
<1>3. /\ OnParties(job) /\ OnParties(mLevel) /\ OnParties(mem) /\ OnParties(mShareIdx) /\ OnParties(mRecvLocs)
      /\ OnParties(mSendBuffs) /\ OnParties(sending) /\ OnParties(arrived) /\ OnParties(out)
  BY <1>2 DEF OnParties
<1>4. ASSUME NEW p \in Party PROVE PartyOK(p, right)
  <2>1. job[p] = 0 /\ mLevel[p] = 0 /\ mShareIdx[p] = 0 /\ mRecvLocs[p] = <<>> /\ out[p] = <<>>
        /\ mSendBuffs[p] = [b \in {0, 1} |-> <<>>] /\ mem[p] = [s \in {0, 1} |-> <<>>]
    BY <1>2
  <2>2. mSendBuffs[p] \in Buffers /\ <<>> \in Seq(Outputs) /\ <<>> \in Seq(Nat) /\ Len(<<>>) = 0
    BY <2>1 DEF Buffers
  <2>3. Len(Fixed.program) \in Nat
    BY <1>1 DEF FixedOK
  <2>4. job[p] \in 0 .. Len(Fixed.program)
    BY <2>1, <2>3
  <2> QED
    BY <2>1, <2>2, <2>4 DEF PartyOK
<1>5. ASSUME NEW p \in Party PROVE ChannelOK(p, right)
  <2>1. nextOf(p) \in Party
    BY Parties
  <2>2. arrived[nextOf(p)] = <<>> /\ sending[p] = <<>> /\ TakenNo(nextOf(p)) = 0 /\ SentNo(p) = 0
    BY <1>2, <2>1 DEF TakenNo, SentNo, PosNo
  <2>3. <<>> \in Seq(Messages) /\ <<>> \in Seq(Sendings) /\ Len(<<>>) = 0
    OBVIOUS
  <2> QED
    BY <2>2, <2>3 DEF ChannelOK, Channel
<1> QED
  BY <1>1, <1>3, <1>4, <1>5 DEF EvalInv

(* The I/O thread moves the head of the queue; of its length, and if what  *)
(* the buffers hold is what was to be sent, with its contents.             *)
LEMMA ContentsAre ==
  ASSUME NEW p, NEW send, mSendBuffs[p] \in Buffers, send \in Sendings
  PROVE  Contents(p, send) \in Seq(Bit) /\ Len(Contents(p, send)) = Len(send.data)
<1>1. send.data \in Seq(Bit) /\ send.buff \in {0, 1} /\ send.moved \in BOOLEAN
  BY DEF Sendings
<1>2. CASE send.moved
  BY <1>1, <1>2 DEF Contents
<1>3. CASE ~ send.moved
  <2> DEFINE held == mSendBuffs[p][send.buff]
             n == Len(send.data)
  <2>1. held \in Seq(Bit)
    BY <1>1 DEF Buffers
  <2>2. n \in Nat /\ DOMAIN send.data = 1 .. n
    BY <1>1, LenProperties
  <2> HIDE DEF held, n
  <2>3. Contents(p, send) = [i \in 1 .. n |-> IF i \in DOMAIN held THEN held[i] ELSE 0]
    BY <1>3, <2>2 DEF Contents, held
  <2>4. \A i \in DOMAIN held : held[i] \in Bit
    BY <2>1
  <2>5. \A i \in 1 .. n : (IF i \in DOMAIN held THEN held[i] ELSE 0) \in Bit
    BY <2>4 DEF Bit
  <2>6. [i \in 1 .. n |-> IF i \in DOMAIN held THEN held[i] ELSE 0] \in Seq(Bit)
        /\ Len([i \in 1 .. n |-> IF i \in DOMAIN held THEN held[i] ELSE 0]) = n
    BY <2>2, <2>5
  <2> QED
    BY <2>3, <2>6 DEF n
<1> QED
  BY <1>1, <1>2, <1>3

LEMMA TransmitKeeps ==
  ASSUME NEW right, NEW p, EvalInv(right), right => BuffersOutliveSends, p \in Party, Transmit(p)
  PROVE  EvalInv(right)'
<1> DEFINE send == Head(sending[p])
           m == [data |-> Contents(p, send), of |-> send.of]
           q == nextOf(p)
<1>1. /\ sending[p] # <<>> /\ arrived' = [arrived EXCEPT ![q] = Append(arrived[q], m)]
      /\ sending' = [sending EXCEPT ![p] = Tail(sending[p])]
      /\ UNCHANGED fixed /\ UNCHANGED local
  BY DEF Transmit
<1>2. Fixed' = Fixed /\ promptSends' = promptSends
  BY <1>1, FixedKept
<1>3. job' = job /\ mLevel' = mLevel /\ mem' = mem /\ mShareIdx' = mShareIdx /\ mRecvLocs' = mRecvLocs
      /\ mSendBuffs' = mSendBuffs /\ out' = out
  BY <1>1 DEF local
<1>4. /\ FixedOK(Fixed) /\ promptSends \in BOOLEAN
      /\ OnParties(job) /\ OnParties(mLevel) /\ OnParties(mem) /\ OnParties(mShareIdx) /\ OnParties(mRecvLocs)
      /\ OnParties(mSendBuffs) /\ OnParties(sending) /\ OnParties(arrived) /\ OnParties(out)
      /\ \A o \in Party : PartyOK(o, right) /\ ChannelOK(o, right)
  BY DEF EvalInv
<1>5. q \in Party
  BY Parties
<1> HIDE DEF q
<1>6. /\ OnParties(arrived') /\ \A o \in Party : arrived'[o] = IF o = q THEN Append(arrived[q], m) ELSE arrived[o]
      /\ OnParties(sending') /\ \A o \in Party : sending'[o] = IF o = p THEN Tail(sending[p]) ELSE sending[o]
  <2> DEFINE a == Append(arrived[q], m)
             t == Tail(sending[p])
  <2>2. arrived' = Updated(arrived, q, a) /\ sending' = Updated(sending, p, t)
    BY <1>1 DEF Updated
  <2> HIDE DEF a, t
  <2>3. OnParties(arrived') /\ \A r \in Party : arrived'[r] = IF r = q THEN a ELSE arrived[r]
    BY <1>4, <1>5, <2>2, UpdateIs
  <2>4. OnParties(sending') /\ \A r \in Party : sending'[r] = IF r = p THEN t ELSE sending[r]
    BY <1>4, <2>2, UpdateIs
  <2> QED
    BY <2>3, <2>4 DEF a, t
<1>7. \A o \in Party : PartyOK(o, right)'
  BY <1>2, <1>3, <1>4, PartyKept
<1>8. \A o \in Party : SentNo(o)' = SentNo(o) /\ TakenNo(o)' = TakenNo(o)
  BY <1>2, <1>3, NumbersKept
<1>9. ASSUME NEW o \in Party PROVE ChannelOK(o, right)'
  <2>1. CASE o = p
    <3>1. Channel(Fixed, p, right, TakenNo(q), SentNo(p), arrived[q], sending[p])
          /\ (promptSends => sending[p] = <<>>)
      BY <1>4 DEF ChannelOK, q
    <3>2. sending[p] \in Seq(Sendings) /\ send \in Sendings
      <4>1. sending[p] \in Seq(Sendings)
        BY <3>1 DEF Channel
      <4> QED
        BY <1>1, <4>1
    <3>3. mSendBuffs[p] \in Buffers
      BY <1>4 DEF PartyOK
    <3>4. /\ Contents(p, send) \in Seq(Bit) /\ Len(Contents(p, send)) = Len(send.data)
          /\ send.of \in Nat \X Nat
      <4> HIDE DEF send
      <4>1. send.of \in Nat \X Nat
        BY <3>2 DEF Sendings
      <4> QED
        BY <3>2, <3>3, <4>1, ContentsAre
    <3>5. right => Contents(p, send) = send.data
      <4> SUFFICES ASSUME right PROVE Contents(p, send) = send.data
        OBVIOUS
      <4>1. 1 \in DOMAIN sending[p] /\ send = sending[p][1]
        BY <1>1, <3>2
      <4>2. Contents(p, sending[p][1]) = sending[p][1].data
        BY <4>1 DEF BuffersOutliveSends
      <4> QED
        BY <4>1, <4>2
    <3>6. m \in Messages /\ m.of = send.of /\ m.data = Contents(p, send)
      <4> HIDE DEF send
      <4> QED
        BY <3>4 DEF Messages
    <3> HIDE DEF m
    <3>7. Channel(Fixed, p, right, TakenNo(q), SentNo(p), Append(arrived[q], m), Tail(sending[p]))
      BY <1>1, <3>1, <3>4, <3>5, <3>6, ChannelTransmit
    <3>8. ~ promptSends
      BY <1>1, <3>1
    <3>9. arrived'[q] = Append(arrived[q], m) /\ sending'[p] = Tail(sending[p])
      BY <1>5, <1>6
    <3> HIDE DEF send
    <3> QED
      BY <1>2, <1>5, <1>8, <2>1, <3>7, <3>8, <3>9 DEF ChannelOK, q
  <2>2. CASE o # p
    <3>1. nextOf(o) # q /\ nextOf(o) \in Party
      BY <2>2, Parties DEF q
    <3>2. arrived'[nextOf(o)] = arrived[nextOf(o)] /\ sending'[o] = sending[o]
      BY <1>6, <2>2, <3>1
    <3> QED
      BY <1>2, <1>4, <1>8, <3>1, <3>2, ChannelKept
  <2> QED
    BY <2>1, <2>2
<1> HIDE DEF m, send
<1>10. FixedOK(Fixed)' /\ promptSends' \in BOOLEAN
  BY <1>2, <1>4
<1>11. /\ OnParties(job)' /\ OnParties(mLevel)' /\ OnParties(mem)' /\ OnParties(mShareIdx)' /\ OnParties(mRecvLocs)'
       /\ OnParties(mSendBuffs)' /\ OnParties(out)'
  BY <1>3, <1>4
<1> QED
  BY <1>6, <1>7, <1>9, <1>10, <1>11 DEF EvalInv

(* A step of party p changes none of what the others have of their own.    *)
OthersAlone(p) ==
  \A q \in Party : q # p =>
    /\ job'[q] = job[q] /\ mLevel'[q] = mLevel[q] /\ mem'[q] = mem[q] /\ mShareIdx'[q] = mShareIdx[q]
    /\ mRecvLocs'[q] = mRecvLocs[q] /\ mSendBuffs'[q] = mSendBuffs[q] /\ out'[q] = out[q]
StillOnParties ==
  /\ OnParties(job') /\ OnParties(mLevel') /\ OnParties(mem') /\ OnParties(mShareIdx') /\ OnParties(mRecvLocs')
  /\ OnParties(mSendBuffs') /\ OnParties(sending') /\ OnParties(arrived') /\ OnParties(out')

LEMMA FromParts ==
  ASSUME NEW right, NEW p, EvalInv(right), UNCHANGED fixed, OthersAlone(p), StillOnParties,
         PartyOK(p, right)', \A o \in Party : ChannelOK(o, right)'
  PROVE  EvalInv(right)'
<1>1. Fixed' = Fixed /\ promptSends' = promptSends
  BY FixedKept
<1>2. FixedOK(Fixed) /\ promptSends \in BOOLEAN /\ \A q \in Party : PartyOK(q, right)
  BY DEF EvalInv
<1>3. FixedOK(Fixed)' /\ promptSends' \in BOOLEAN
  BY <1>1, <1>2
<1>4. ASSUME NEW q \in Party, q # p PROVE PartyOK(q, right)'
  <2>1. /\ job'[q] = job[q] /\ mLevel'[q] = mLevel[q] /\ mem'[q] = mem[q] /\ mShareIdx'[q] = mShareIdx[q]
        /\ mRecvLocs'[q] = mRecvLocs[q] /\ mSendBuffs'[q] = mSendBuffs[q] /\ out'[q] = out[q]
    BY <1>4 DEF OthersAlone
  <2> QED
    BY <1>1, <1>2, <2>1, PartyKept
<1>5. \A q \in Party : PartyOK(q, right)'
  BY <1>4
<1>6. /\ OnParties(job)' /\ OnParties(mLevel)' /\ OnParties(mem)' /\ OnParties(mShareIdx)' /\ OnParties(mRecvLocs)'
      /\ OnParties(mSendBuffs)' /\ OnParties(sending)' /\ OnParties(arrived)' /\ OnParties(out)'
  BY DEF StillOnParties
<1> QED
  BY <1>3, <1>5, <1>6 DEF EvalInv

(* Steps that send and take nothing.                                       *)
LEMMA ChannelsStill ==
  ASSUME NEW right, NEW p, EvalInv(right), UNCHANGED <<fixed, arrived, sending>>, OthersAlone(p),
         SentNo(p)' = SentNo(p), TakenNo(p)' = TakenNo(p)
  PROVE  \A o \in Party : ChannelOK(o, right)'
<1>1. Fixed' = Fixed /\ promptSends' = promptSends /\ arrived' = arrived /\ sending' = sending
  BY FixedKept
<1>2. \A q \in Party : SentNo(q)' = SentNo(q) /\ TakenNo(q)' = TakenNo(q)
  <2> SUFFICES ASSUME NEW q \in Party PROVE SentNo(q)' = SentNo(q) /\ TakenNo(q)' = TakenNo(q)
    OBVIOUS
  <2>1. CASE q = p
    BY <2>1
  <2>2. CASE q # p
    <3>1. job'[q] = job[q] /\ mLevel'[q] = mLevel[q]
      BY <2>2 DEF OthersAlone
    <3> QED
      BY <1>1, <3>1, NumbersKept
  <2> QED
    BY <2>1, <2>2
<1> SUFFICES ASSUME NEW o \in Party PROVE ChannelOK(o, right)'
  OBVIOUS
<1>3. ChannelOK(o, right) /\ nextOf(o) \in Party
  BY Parties DEF EvalInv
<1> QED
  BY <1>1, <1>2, <1>3, ChannelKept

(* A new circuit: the shares of its inputs, and no message yet.            *)
SetUpShares(p, j) ==
  [s \in {0, 1} |-> [w \in Wires(program[j]) |->
     IF w < program[j].inputs THEN input[IF s = 0 THEN p ELSE prevOf(p)][w] ELSE 0]]

LEMMA SetUpSharesAre ==
  ASSUME NEW p, NEW j, NEW m, FixedOK(Fixed), p \in Party, j \in 1 .. Len(Fixed.program), m = SetUpShares(p, j)
  PROVE  /\ m \in [{0, 1} -> [Wires(Fixed.program[j]) -> Bit]]
         /\ m[0] = StartShares(Fixed, j)[p] /\ m[1] = StartShares(Fixed, j)[prevOf(p)]
<1>1. prevOf(p) \in Party /\ Fixed.program = program /\ Fixed.input = input
  BY Parties DEF Fixed
<1>2. m[0] = StartShares(Fixed, j)[p] /\ m[1] = StartShares(Fixed, j)[prevOf(p)]
      /\ DOMAIN m = {0, 1} /\ m = [s \in {0, 1} |-> m[s]]
  BY <1>1 DEF StartShares, SetUpShares
<1>3. StartShares(Fixed, j) \in Sharings(Fixed.program[j])
  BY StartSharesAre
<1>4. StartShares(Fixed, j)[p] \in [Wires(Fixed.program[j]) -> Bit]
      /\ StartShares(Fixed, j)[prevOf(p)] \in [Wires(Fixed.program[j]) -> Bit]
  BY <1>1, <1>3 DEF Sharings
<1> QED
  BY <1>2, <1>4

LEMMA SetUpKeeps ==
  ASSUME NEW right, NEW p, EvalInv(right), p \in Party, SetUp(p)
  PROVE  EvalInv(right)'
<1> DEFINE j == job[p] + 1
           m == SetUpShares(p, j)
<1>1. /\ FixedOK(Fixed) /\ promptSends \in BOOLEAN
      /\ OnParties(job) /\ OnParties(mLevel) /\ OnParties(mem) /\ OnParties(mShareIdx) /\ OnParties(mRecvLocs)
      /\ OnParties(mSendBuffs) /\ OnParties(sending) /\ OnParties(arrived) /\ OnParties(out)
      /\ \A o \in Party : PartyOK(o, right) /\ ChannelOK(o, right)
  BY DEF EvalInv
<1>2. /\ ~ Evaluating(p) /\ job[p] < Len(program)
      /\ job' = Updated(job, p, j) /\ mem' = Updated(mem, p, m)
      /\ mShareIdx' = Updated(mShareIdx, p, 0) /\ mLevel' = Updated(mLevel, p, 0)
      /\ UNCHANGED <<fixed, mRecvLocs, mSendBuffs, sending, arrived, out>>
  <2>1. m = [s \in {0, 1} |-> [w \in Wires(program[job[p] + 1]) |->
              IF w < program[job[p] + 1].inputs
                THEN input[[z \in {0, 1} |-> IF z = 0 THEN p ELSE prevOf(p)][s]][w] ELSE 0]]
    BY DEF SetUpShares
  <2>2. mem' = [mem EXCEPT ![p] = m]
    BY <2>1 DEF SetUp
  <2> HIDE DEF m
  <2> QED
    BY <2>2 DEF SetUp, Updated
<1>3. /\ OnParties(job') /\ OnParties(mem') /\ OnParties(mShareIdx') /\ OnParties(mLevel')
      /\ \A q \in Party : job'[q] = IF q = p THEN j ELSE job[q]
      /\ \A q \in Party : mem'[q] = IF q = p THEN m ELSE mem[q]
      /\ \A q \in Party : mShareIdx'[q] = IF q = p THEN 0 ELSE mShareIdx[q]
      /\ \A q \in Party : mLevel'[q] = IF q = p THEN 0 ELSE mLevel[q]
  <2> HIDE DEF j, m
  <2>1. OnParties(job') /\ \A q \in Party : job'[q] = IF q = p THEN j ELSE job[q]
    BY <1>1, <1>2, UpdateIs
  <2>2. OnParties(mem') /\ \A q \in Party : mem'[q] = IF q = p THEN m ELSE mem[q]
    BY <1>1, <1>2, UpdateIs
  <2>3. OnParties(mShareIdx') /\ \A q \in Party : mShareIdx'[q] = IF q = p THEN 0 ELSE mShareIdx[q]
    BY <1>1, <1>2, UpdateIs
  <2>4. OnParties(mLevel') /\ \A q \in Party : mLevel'[q] = IF q = p THEN 0 ELSE mLevel[q]
    BY <1>1, <1>2, UpdateIs
  <2> QED
    BY <2>1, <2>2, <2>3, <2>4
<1>4. StillOnParties
  BY <1>1, <1>2, <1>3 DEF StillOnParties
<1>5. OthersAlone(p)
  BY <1>2, <1>3 DEF OthersAlone
<1>6. /\ job[p] \in Nat /\ Len(Fixed.program) \in Nat /\ j \in 1 .. Len(Fixed.program)
      /\ Len(out[p]) = job[p] /\ Fixed' = Fixed
  <2>1. job[p] \in 0 .. Len(Fixed.program) /\ (Len(out[p]) = job[p] \/ Len(out[p]) = job[p] - 1)
    BY <1>1 DEF PartyOK
  <2>2. Len(Fixed.program) \in Nat /\ Fixed.program = program
    BY <1>1 DEF FixedOK, Fixed
  <2>3. ~ (job[p] > Len(out[p]))
    BY <1>2 DEF Evaluating
  <2>4. Fixed' = Fixed
    BY <1>2, FixedKept
  <2> QED
    BY <1>2, <2>1, <2>2, <2>3, <2>4
<1>7. SentNo(p)' = SentNo(p) /\ TakenNo(p)' = TakenNo(p)
  <2>1. j # 0 /\ job'[p] = j /\ mLevel'[p] = 0
    BY <1>3, <1>6
  <2>2. SentNo(p)' = MsgNo(Fixed, j, 0) /\ TakenNo(p)' = MsgNo(Fixed, j, 0)
    <3> HIDE DEF j
    <3> QED
      BY <1>6, <2>1 DEF SentNo, TakenNo, PosNo
  <2>3. CASE job[p] = 0
    <3>1. SentNo(p) = 0 /\ TakenNo(p) = 0
      BY <2>3 DEF SentNo, TakenNo, PosNo
    <3>2. MsgNo(Fixed, j, 0) = 0
      BY <1>1, <1>6, <2>3, NumbersAre
    <3> QED
      BY <2>2, <3>1, <3>2
  <2>4. CASE job[p] # 0
    <3> DEFINE k == job[p]
               n == Levels(Fixed, k)
    <3>1. k \in 1 .. Len(Fixed.program) /\ k + 1 \in 1 .. Len(Fixed.program)
      BY <1>6, <2>4
    <3>2. mLevel[p] = n + 1 /\ n \in Nat
      <4>1. mLevel[p] = n + 1
        BY <1>1, <1>6, <2>4 DEF PartyOK
      <4> QED
        BY <1>1, <3>1, <4>1, CircuitFacts
    <3>3. MsgNo(Fixed, k, n + 1) = MsgNo(Fixed, k, n) /\ MsgNo(Fixed, k + 1, 0) = MsgNo(Fixed, k, n)
      BY <1>1, <3>1, NumbersAre
    <3>4. mLevel[p] # 0 /\ mLevel[p] - 1 = n
      BY <3>2
    <3>5. SentNo(p) = MsgNo(Fixed, k, n + 1) /\ TakenNo(p) = MsgNo(Fixed, k, n)
      <4> HIDE DEF n
      <4> QED
        BY <2>4, <3>2, <3>4 DEF SentNo, TakenNo, PosNo
    <3> QED
      BY <2>2, <3>3, <3>5
  <2> QED
    BY <2>3, <2>4
<1>8. \A o \in Party : ChannelOK(o, right)'
  BY <1>2, <1>5, <1>7, ChannelsStill
<1>9. PartyOK(p, right)'
  <2> DEFINE n == Levels(Fixed, j)
  <2>1. job'[p] = j /\ mLevel'[p] = 0 /\ mem'[p] = m /\ mShareIdx'[p] = 0 /\ mRecvLocs'[p] = mRecvLocs[p]
        /\ mSendBuffs'[p] = mSendBuffs[p] /\ out'[p] = out[p]
    BY <1>2, <1>3
  <2>2. /\ m \in [{0, 1} -> [Wires(Fixed.program[j]) -> Bit]]
        /\ m[0] = StartShares(Fixed, j)[p] /\ m[1] = StartShares(Fixed, j)[prevOf(p)]
    BY <1>1, <1>6, SetUpSharesAre
  <2>3. Run(Fixed, j)[0].sh = StartShares(Fixed, j) /\ Run(Fixed, j)[0].idx = 0 /\ n \in Nat
    BY <1>1, <1>6, RunIs, CircuitFacts
  <2> HIDE DEF m, n
  <2>4. AtLevel(Fixed, j, 0, mRecvLocs[p], m)
    <3>1. 0 \in 0 .. (n + 1) /\ 0 \notin 1 .. n
      BY <2>3
    <3> QED
      BY <2>2, <3>1 DEF AtLevel, n
  <2>5. HoldsShares(Fixed, p, j, 0, 0, mRecvLocs[p], m)
    <3>1. 0 <= n
      BY <2>3
    <3> QED
      BY <2>2, <2>3, <3>1 DEF HoldsShares, n
  <2>6. /\ mShareIdx[p] \in Nat /\ mRecvLocs[p] \in Seq(Nat) /\ mSendBuffs[p] \in Buffers /\ out[p] \in Seq(Outputs)
        /\ right => \A i \in 1 .. Len(out[p]) : out[p][i] = OutOf(Fixed, p, i)
    BY <1>1 DEF PartyOK
  <2>7. j \in 0 .. Len(Fixed.program) /\ j # 0 /\ Len(out[p]) = j - 1 /\ Len(out[p]) # j
    BY <1>6
  <2> HIDE DEF j
  <2>8. /\ job'[p] \in 0 .. Len(Fixed'.program) /\ mShareIdx'[p] \in Nat /\ mRecvLocs'[p] \in Seq(Nat)
        /\ mSendBuffs'[p] \in Buffers /\ out'[p] \in Seq(Outputs)
        /\ (Len(out'[p]) = job'[p] \/ Len(out'[p]) = job'[p] - 1)
    BY <1>6, <2>1, <2>6, <2>7
  <2>9. /\ job'[p] # 0 /\ AtLevel(Fixed', job'[p], mLevel'[p], mRecvLocs'[p], mem'[p])
        /\ Len(out'[p]) # job'[p]
        /\ HoldsShares(Fixed', p, job'[p], mLevel'[p], mShareIdx'[p], mRecvLocs'[p], mem'[p])
    BY <1>6, <2>1, <2>4, <2>5, <2>7
  <2>10. right => \A i \in 1 .. Len(out'[p]) : out'[p][i] = OutOf(Fixed', p, i)
    BY <1>6, <2>1, <2>6
  <2> QED
    BY <2>8, <2>9, <2>10 DEF PartyOK
<1> QED
  BY <1>2, <1>4, <1>5, <1>8, <1>9, FromParts

(* What GetOutput reads from memory.                                       *)
OutputShare(m, o, s) == IF o.invert THEN N(m[s][o.wire]) ELSE m[s][o.wire]
OutputsOf(m, outputs) == [i \in DOMAIN outputs |-> [s \in {0, 1} |-> OutputShare(m, outputs[i], s)]]

Memories(cir) == [{0, 1} -> [Wires(cir) -> Bit]]

LEMMA OutputsAre ==
  ASSUME NEW p, NEW j, NEW m, NEW f, FixedOK(f), j \in 1 .. Len(f.program), p \in Party,
         m \in Memories(f.program[j])
  PROVE  /\ OutputsOf(m, f.program[j].outputs) \in Outputs
         /\ (/\ m[0] = Run(f, j)[Levels(f, j)].sh[p]
             /\ \A w \in Wires(f.program[j]) : m[1][w] = Run(f, j)[Levels(f, j)].sh[prevOf(p)][w])
            => OutputsOf(m, f.program[j].outputs) = OutOf(f, p, j)
<1> DEFINE outputs == f.program[j].outputs
           W == Wires(f.program[j])
           sh == Run(f, j)[Levels(f, j)].sh
<1>1. outputs \in Seq([wire : W, invert : BOOLEAN])
  BY CircuitFacts
<1>2. Len(outputs) \in Nat /\ DOMAIN outputs = 1 .. Len(outputs)
      /\ \A i \in DOMAIN outputs : outputs[i].wire \in W
  <2>1. \A x \in [wire : W, invert : BOOLEAN] : x.wire \in W
    OBVIOUS
  <2> DEFINE R == [wire : W, invert : BOOLEAN]
  <2>2. outputs \in Seq(R)
    BY <1>1
  <2> HIDE DEF R, outputs
  <2>3. Len(outputs) \in Nat /\ DOMAIN outputs = 1 .. Len(outputs) /\ \A i \in DOMAIN outputs : outputs[i] \in R
    BY <2>2, LenProperties
  <2> QED
    BY <2>1, <2>3 DEF R
<1>3. OutOf(f, p, j) = [i \in DOMAIN outputs |-> [s \in {0, 1} |->
         IF outputs[i].invert THEN N(sh[IF s = 0 THEN p ELSE prevOf(p)][outputs[i].wire])
                              ELSE sh[IF s = 0 THEN p ELSE prevOf(p)][outputs[i].wire]]]
  BY DEF OutOf
<1> HIDE DEF outputs, W, sh
<1>4. m \in [{0, 1} -> [W -> Bit]]
  BY DEF W, Memories
<1>5. ASSUME NEW i \in DOMAIN outputs
      PROVE  [s \in {0, 1} |-> OutputShare(m, outputs[i], s)] \in [{0, 1} -> Bit]
  <2>1. \A s \in {0, 1} : OutputShare(m, outputs[i], s) \in Bit
    <3> SUFFICES ASSUME NEW s \in {0, 1} PROVE OutputShare(m, outputs[i], s) \in Bit
      OBVIOUS
    <3>1. outputs[i].wire \in W
      BY <1>2
    <3>2. m[s][outputs[i].wire] \in Bit
      BY <1>4, <3>1
    <3> QED
      BY <3>2, BitFacts DEF OutputShare
  <2> QED
    BY <2>1
<1>6. OutputsOf(m, outputs) \in Outputs
  BY <1>2, <1>5 DEF OutputsOf, Outputs
<1>7. ASSUME m[0] = sh[p], \A w \in W : m[1][w] = sh[prevOf(p)][w]
      PROVE  OutputsOf(m, outputs) = OutOf(f, p, j)
  <2>1. ASSUME NEW i \in DOMAIN outputs, NEW s \in {0, 1}
        PROVE  m[s][outputs[i].wire] = sh[IF s = 0 THEN p ELSE prevOf(p)][outputs[i].wire]
    <3>1. outputs[i].wire \in W
      BY <1>2
    <3>2. CASE s = 0
      BY <1>7, <3>2
    <3>3. CASE s = 1
      BY <1>7, <3>1, <3>3
    <3> QED
      BY <3>2, <3>3
  <2>2. \A i \in DOMAIN outputs : \A s \in {0, 1} : OutputShare(m, outputs[i], s) =
         (IF outputs[i].invert THEN N(sh[IF s = 0 THEN p ELSE prevOf(p)][outputs[i].wire])
                              ELSE sh[IF s = 0 THEN p ELSE prevOf(p)][outputs[i].wire])
    BY <2>1 DEF OutputShare
  <2> QED
    BY <1>3, <2>2 DEF OutputsOf
<1> QED
  BY <1>6, <1>7 DEF outputs, W, sh

LEMMA GetOutputKeeps ==
  ASSUME NEW right, NEW p, EvalInv(right), p \in Party, GetOutput(p)
  PROVE  EvalInv(right)'
<1> DEFINE j == job[p]
           n == Levels(Fixed, j)
           v == OutputsOf(mem[p], Fixed.program[j].outputs)
           o == Append(out[p], v)
<1>1. /\ FixedOK(Fixed) /\ promptSends \in BOOLEAN
      /\ OnParties(job) /\ OnParties(mLevel) /\ OnParties(mem) /\ OnParties(mShareIdx) /\ OnParties(mRecvLocs)
      /\ OnParties(mSendBuffs) /\ OnParties(sending) /\ OnParties(arrived) /\ OnParties(out)
      /\ \A q \in Party : PartyOK(q, right) /\ ChannelOK(q, right)
  BY DEF EvalInv
<1>2. /\ job[p] > Len(out[p]) /\ ~ (mLevel[p] <= n)
      /\ out' = Updated(out, p, o)
      /\ UNCHANGED <<fixed, job, mLevel, mem, mShareIdx, mRecvLocs, mSendBuffs, sending, arrived>>
  <2>1. v = [i \in DOMAIN program[j].outputs |-> [s \in {0, 1} |->
               IF program[j].outputs[i].invert THEN N(mem[p][s][program[j].outputs[i].wire])
                                               ELSE mem[p][s][program[j].outputs[i].wire]]]
    BY DEF OutputsOf, OutputShare, Fixed
  <2>2. n = Len(program[j].levels)
    BY DEF Levels, Fixed
  <2>3. out' = [out EXCEPT ![p] = Append(out[p], v)]
    BY <2>1 DEF GetOutput, Circuit
  <2> HIDE DEF n, v
  <2> QED
    BY <2>2, <2>3 DEF GetOutput, Circuit, Evaluating, HasMoreRounds, Updated
<1>3. Fixed' = Fixed
  BY <1>2, FixedKept
<1>4. OnParties(out') /\ \A q \in Party : out'[q] = IF q = p THEN o ELSE out[q]
  <2> HIDE DEF o
  <2> QED
    BY <1>1, <1>2, UpdateIs
<1>5. StillOnParties
  BY <1>1, <1>2, <1>4 DEF StillOnParties
<1>6. OthersAlone(p)
  BY <1>2, <1>4 DEF OthersAlone
<1>7. SentNo(p)' = SentNo(p) /\ TakenNo(p)' = TakenNo(p)
  BY <1>2, <1>3, NumbersKept
<1>8. \A q \in Party : ChannelOK(q, right)'
  BY <1>2, <1>6, <1>7, ChannelsStill
<1>9. /\ j \in 1 .. Len(Fixed.program) /\ Len(out[p]) = j - 1 /\ Len(out[p]) \in Nat /\ out[p] \in Seq(Outputs)
      /\ n \in Nat /\ mLevel[p] = n + 1 /\ AtLevel(Fixed, j, mLevel[p], mRecvLocs[p], mem[p])
      /\ right => HoldsShares(Fixed, p, j, mLevel[p], mShareIdx[p], mRecvLocs[p], mem[p])
      /\ right => \A i \in 1 .. Len(out[p]) : out[p][i] = OutOf(Fixed, p, i)
  <2> HIDE DEF n
  <2>1. job[p] \in 0 .. Len(Fixed.program) /\ (Len(out[p]) = job[p] \/ Len(out[p]) = job[p] - 1)
        /\ out[p] \in Seq(Outputs) /\ Len(Fixed.program) \in Nat
    BY <1>1 DEF PartyOK, FixedOK
  <2>2. j \in 1 .. Len(Fixed.program) /\ Len(out[p]) = j - 1 /\ Len(out[p]) \in Nat /\ j # 0
    BY <1>2, <2>1
  <2>3. /\ AtLevel(Fixed, j, mLevel[p], mRecvLocs[p], mem[p])
        /\ right => HoldsShares(Fixed, p, j, mLevel[p], mShareIdx[p], mRecvLocs[p], mem[p])
        /\ right => \A i \in 1 .. Len(out[p]) : out[p][i] = OutOf(Fixed, p, i)
    BY <1>1, <2>2 DEF PartyOK
  <2>4. n \in Nat
    BY <1>1, <2>2, CircuitFacts DEF n
  <2>5. mLevel[p] \in 0 .. (n + 1)
    BY <2>3 DEF AtLevel, n
  <2> QED
    BY <1>2, <2>1, <2>2, <2>3, <2>4, <2>5
<1>10. v \in Outputs /\ (right => v = OutOf(Fixed, p, j))
  <2>1. mem[p] \in Memories(Fixed.program[j])
    BY <1>9 DEF AtLevel, Memories
  <2>2. ASSUME right
        PROVE  /\ mem[p][0] = Run(Fixed, j)[n].sh[p]
               /\ \A w \in Wires(Fixed.program[j]) : mem[p][1][w] = Run(Fixed, j)[n].sh[prevOf(p)][w]
    <3>1. ~ (mLevel[p] <= n) /\ mLevel[p] \notin 1 .. n
      BY <1>9
    <3>2. HoldsShares(Fixed, p, j, mLevel[p], mShareIdx[p], mRecvLocs[p], mem[p])
      BY <1>9, <2>2
    <3> HIDE DEF j
    <3> QED
      BY <3>1, <3>2 DEF HoldsShares, n
  <2> HIDE DEF j
  <2>3. /\ OutputsOf(mem[p], Fixed.program[j].outputs) \in Outputs
        /\ (/\ mem[p][0] = Run(Fixed, j)[Levels(Fixed, j)].sh[p]
            /\ \A w \in Wires(Fixed.program[j]) : mem[p][1][w] = Run(Fixed, j)[Levels(Fixed, j)].sh[prevOf(p)][w])
           => OutputsOf(mem[p], Fixed.program[j].outputs) = OutOf(Fixed, p, j)
    BY <1>1, <1>9, <2>1, OutputsAre, ZenonT(60)
  <2> QED
    BY <2>2, <2>3
<1>11. PartyOK(p, right)'
  <2> HIDE DEF v, n
  <2>1. /\ o \in Seq(Outputs) /\ Len(o) = j
        /\ \A i \in 1 .. (Len(out[p]) + 1) : o[i] = IF i = Len(out[p]) + 1 THEN v ELSE out[p][i]
    <3>1. Len(o) = Len(out[p]) + 1 /\ o \in Seq(Outputs)
          /\ \A i \in 1 .. (Len(out[p]) + 1) : o[i] = IF i = Len(out[p]) + 1 THEN v ELSE out[p][i]
      BY <1>9, <1>10, AppendIs
    <3>2. Len(out[p]) + 1 = j
      <4>1. j \in Int
        BY <1>9
      <4> QED
        BY <1>9, <4>1
    <3> QED
      BY <3>1, <3>2
  <2>2. ASSUME right, NEW i \in 1 .. Len(o) PROVE o[i] = OutOf(Fixed, p, i)
    <3>1. j \in Nat /\ Len(out[p]) + 1 = j
      BY <1>9
    <3>2. CASE i = j
      BY <1>10, <2>1, <2>2, <3>1, <3>2
    <3>3. CASE i # j
      <4>1. i \in 1 .. Len(out[p]) /\ i \in 1 .. (Len(out[p]) + 1) /\ i # Len(out[p]) + 1
        BY <2>1, <3>1, <3>3
      <4> QED
        BY <1>9, <2>1, <2>2, <4>1
    <3> QED
      BY <3>2, <3>3
  <2> HIDE DEF o
  <2>3. /\ job'[p] = j /\ mLevel'[p] = n + 1 /\ mem'[p] = mem[p] /\ mShareIdx'[p] = mShareIdx[p]
        /\ mRecvLocs'[p] = mRecvLocs[p] /\ mSendBuffs'[p] = mSendBuffs[p] /\ out'[p] = o
    BY <1>2, <1>4, <1>9
  <2>4. /\ mShareIdx[p] \in Nat /\ mRecvLocs[p] \in Seq(Nat) /\ mSendBuffs[p] \in Buffers
        /\ j \in 0 .. Len(Fixed.program) /\ j # 0
    BY <1>1, <1>9 DEF PartyOK
  <2>5. n = Levels(Fixed, j) /\ mLevel[p] = n + 1
    BY <1>9 DEF n
  <2> HIDE DEF j
  <2> QED
    BY <1>3, <1>9, <2>1, <2>2, <2>3, <2>4, <2>5 DEF PartyOK
<1> QED
  BY <1>2, <1>5, <1>6, <1>8, <1>11, FromParts

(* Where a party is that evaluates a circuit.                              *)
LEMMA InRound ==
  ASSUME NEW right, NEW p, EvalInv(right), p \in Party, Evaluating(p), HasMoreRounds(p)
  PROVE  /\ job[p] \in 1 .. Len(Fixed.program) /\ job[p] # 0 /\ Len(out[p]) # job[p]
         /\ Levels(Fixed, job[p]) \in Nat /\ mLevel[p] \in 0 .. Levels(Fixed, job[p])
         /\ Levels(Fixed, job[p]) = Len(Circuit(p).levels)
         /\ AtLevel(Fixed, job[p], mLevel[p], mRecvLocs[p], mem[p])
         /\ right => HoldsShares(Fixed, p, job[p], mLevel[p], mShareIdx[p], mRecvLocs[p], mem[p])
<1>1. FixedOK(Fixed) /\ PartyOK(p, right)
  BY DEF EvalInv
<1>2. job[p] > Len(out[p]) /\ mLevel[p] <= Levels(Fixed, job[p]) /\ Levels(Fixed, job[p]) = Len(Circuit(p).levels)
  BY DEF Evaluating, HasMoreRounds, Circuit, Levels, Fixed
<1>3. /\ job[p] \in 0 .. Len(Fixed.program) /\ out[p] \in Seq(Outputs)
      /\ (Len(out[p]) = job[p] \/ Len(out[p]) = job[p] - 1)
      /\ Len(Fixed.program) \in Nat
  BY <1>1 DEF PartyOK, FixedOK
<1>4. job[p] \in 1 .. Len(Fixed.program) /\ job[p] # 0 /\ Len(out[p]) # job[p]
  <2>1. Len(out[p]) \in Nat
    BY <1>3
  <2> QED
    BY <1>2, <1>3, <2>1
<1>5. /\ AtLevel(Fixed, job[p], mLevel[p], mRecvLocs[p], mem[p])
      /\ right => HoldsShares(Fixed, p, job[p], mLevel[p], mShareIdx[p], mRecvLocs[p], mem[p])
  BY <1>1, <1>4 DEF PartyOK
<1>6. Levels(Fixed, job[p]) \in Nat
  BY <1>1, <1>4, CircuitFacts
<1>7. mLevel[p] \in 0 .. (Levels(Fixed, job[p]) + 1)
  BY <1>5 DEF AtLevel
<1> QED
  BY <1>2, <1>4, <1>5, <1>6, <1>7

(* What a party waits for: the message of the level before.                *)
LEMMA AwaitsAt ==
  ASSUME NEW right, NEW p, EvalInv(right), p \in Party, Evaluating(p), HasMoreRounds(p), Awaits(p)
  PROVE  /\ mLevel[p] \in 1 .. Levels(Fixed, job[p]) /\ mRecvLocs[p] = LocsAt(Fixed, job[p], mLevel[p])
         /\ SendsAt(Fixed, job[p], mLevel[p] - 1) /\ TakenNo(p) = MsgNo(Fixed, job[p], mLevel[p] - 1)
         /\ mLevel[p] - 1 + 1 = mLevel[p]
<1> DEFINE j == job[p]
           l == mLevel[p]
           n == Levels(Fixed, j)
<1>1. j \in 1 .. Len(Fixed.program) /\ j # 0 /\ n \in Nat /\ l \in 0 .. n
      /\ AtLevel(Fixed, j, l, mRecvLocs[p], mem[p])
  BY InRound
<1>2. l > 0 /\ mRecvLocs[p] # <<>>
  BY DEF Awaits
<1> HIDE DEF n
<1>3. l \in 1 .. n /\ l # 0 /\ l - 1 \in 0 .. (n - 1) /\ l - 1 + 1 = l
  BY <1>1, <1>2
<1>4. mRecvLocs[p] = LocsAt(Fixed, j, l)
  BY <1>1, <1>3 DEF AtLevel, n
<1>5. TakenNo(p) = MsgNo(Fixed, j, l - 1)
  BY <1>1, <1>3 DEF TakenNo, PosNo
<1>6. SendsAt(Fixed, j, l - 1)
  BY <1>1, <1>2, <1>3, <1>4 DEF SendsAt, n
<1> QED
  BY <1>3, <1>4, <1>5, <1>6 DEF n

LEMMA HeadMeant ==
  ASSUME NEW right, NEW p, EvalInv(right), p \in Party, Evaluating(p), HasMoreRounds(p), Awaits(p), arrived[p] # <<>>
  PROVE  /\ Head(arrived[p]).of = <<job[p], mLevel[p] - 1>>
         /\ Head(arrived[p]).data \in Seq(Bit) /\ Len(Head(arrived[p]).data) = Len(mRecvLocs[p])
         /\ right => Head(arrived[p]).data = DataOf(Fixed, prevOf(p), <<job[p], mLevel[p] - 1>>)
         /\ Channel(Fixed, prevOf(p), right, TakenNo(p) + 1, SentNo(prevOf(p)), Tail(arrived[p]), sending[prevOf(p)])
<1> DEFINE h == Head(arrived[p])
           q == prevOf(p)
           j == job[p]
           x == mLevel[p] - 1
<1>1. q \in Party /\ nextOf(q) = p
  BY Parties
<1>2. ChannelOK(q, right) /\ FixedOK(Fixed)
  BY <1>1 DEF EvalInv
<1> HIDE DEF q
<1>3. Channel(Fixed, q, right, TakenNo(p), SentNo(q), arrived[p], sending[q])
  BY <1>1, <1>2 DEF ChannelOK
<1>4. /\ Channel(Fixed, q, right, TakenNo(p) + 1, SentNo(q), Tail(arrived[p]), sending[q])
      /\ h \in Messages /\ Meant(Fixed, q, right, h, TakenNo(p))
  BY <1>3, ChannelTake
<1> HIDE DEF h
<1>5. SendsAt(Fixed, j, x) /\ TakenNo(p) = MsgNo(Fixed, j, x) /\ x + 1 = mLevel[p]
      /\ mRecvLocs[p] = LocsAt(Fixed, j, mLevel[p])
  BY AwaitsAt
<1>6. SendsAt(Fixed, h.of[1], h.of[2]) /\ MsgNo(Fixed, h.of[1], h.of[2]) = TakenNo(p)
      /\ Len(h.data) = Len(LocsAt(Fixed, h.of[1], h.of[2] + 1)) /\ (right => h.data = DataOf(Fixed, q, h.of))
  BY <1>4 DEF Meant
<1> HIDE DEF j, x
<1>7. h.of[1] = j /\ h.of[2] = x
  BY <1>2, <1>5, <1>6, NumbersDiffer
<1>8. h.of \in Nat \X Nat /\ h.data \in Seq(Bit)
  BY <1>4 DEF Messages
<1>9. h.of = <<j, x>>
  BY <1>7, <1>8
<1>10. Len(h.data) = Len(mRecvLocs[p])
  BY <1>5, <1>6, <1>7
<1>11. right => h.data = DataOf(Fixed, q, <<j, x>>)
  BY <1>6, <1>9
<1> QED
  BY <1>4, <1>8, <1>9, <1>10, <1>11 DEF h, q, j, x

(* A message is taken by the level it is meant for.                        *)
LEMMA LevelsMatchHere ==
  ASSUME NEW right, EvalInv(right)
  PROVE  LevelsMatch
<1> SUFFICES ASSUME NEW p \in Party, Evaluating(p), HasMoreRounds(p), Awaits(p), arrived[p] # <<>>
             PROVE  /\ Head(arrived[p]).of = <<job[p], mLevel[p] - 1>>
                    /\ Len(Head(arrived[p]).data) = Len(mRecvLocs[p])
  BY DEF LevelsMatch
<1> QED
  BY HeadMeant

(* The shares received, of the wires that the level before has left.       *)
LEMMA ReceivedIs ==
  ASSUME NEW right, NEW p, EvalInv(right), p \in Party, Evaluating(p), HasMoreRounds(p), Awaits(p) => arrived[p] # <<>>
  PROVE  /\ Received(p) \in [{0, 1} -> [Wires(Fixed.program[job[p]]) -> Bit]]
         /\ right => /\ Received(p)[0] = Run(Fixed, job[p])[mLevel[p]].sh[p]
                     /\ Received(p)[1] = Run(Fixed, job[p])[mLevel[p]].sh[prevOf(p)]
<1> DEFINE j == job[p]
           l == mLevel[p]
           n == Levels(Fixed, j)
           cir == Fixed.program[j]
           W == Wires(cir)
           S == Run(Fixed, j)[l]
           locs == mRecvLocs[p]
<1>1. /\ j \in 1 .. Len(Fixed.program) /\ n \in Nat /\ l \in 0 .. n
      /\ AtLevel(Fixed, j, l, locs, mem[p])
      /\ right => HoldsShares(Fixed, p, j, l, mShareIdx[p], locs, mem[p])
  BY InRound
<1>2. FixedOK(Fixed) /\ mRecvLocs[p] \in Seq(Nat) /\ prevOf(p) \in Party
  BY Parties DEF EvalInv, PartyOK
<1> HIDE DEF n
<1>3. mem[p] \in [{0, 1} -> [W -> Bit]]
  BY <1>1 DEF AtLevel
<1>4. S.sh \in Sharings(cir)
  <2>1. l \in Nat
    BY <1>1
  <2> QED
    BY <1>1, <1>2, <2>1, RunIs
<1>5. S.sh[p] \in [W -> Bit] /\ S.sh[prevOf(p)] \in [W -> Bit]
  BY <1>2, <1>4 DEF Sharings
<1>6. right => mem[p][0] = S.sh[p]
               /\ \A w \in W : (l \in 1 .. n /\ Among(w, locs)) \/ mem[p][1][w] = S.sh[prevOf(p)][w]
  <2>1. l <= n
    BY <1>1
  <2> HIDE DEF l, j, locs
  <2> QED
    BY <1>1, <2>1 DEF HoldsShares, n
<1>7. CASE ~ Awaits(p)
  <2>1. Received(p) = mem[p]
    BY <1>7 DEF Received
  <2>2. ASSUME right PROVE mem[p][1] = S.sh[prevOf(p)]
    <3>1. \A w \in W : ~ (l \in 1 .. n /\ Among(w, locs))
      <4>1. l > 0 => locs = <<>>
        BY <1>7 DEF Awaits
      <4>2. l \in 1 .. n => l > 0
        BY <1>1
      <4> QED
        BY <4>1, <4>2 DEF Among
    <3>2. \A w \in W : mem[p][1][w] = S.sh[prevOf(p)][w]
      BY <1>6, <2>2, <3>1
    <3>3. mem[p][1] \in [W -> Bit]
      BY <1>3
    <3> QED
      BY <1>5, <3>2, <3>3
  <2> QED
    BY <1>3, <1>6, <2>1, <2>2
<1>8. CASE Awaits(p)
  <2> DEFINE data == Head(arrived[p]).data
             At(w) == data[CHOOSE i \in DOMAIN data : locs[i] = w]
             second == [w \in W |-> IF Among(w, locs) THEN At(w) ELSE mem[p][1][w]]
  <2>1. /\ data \in Seq(Bit) /\ Len(data) = Len(locs)
        /\ right => data = DataOf(Fixed, prevOf(p), <<j, l - 1>>)
    BY <1>8, HeadMeant
  <2>2. l \in 1 .. n /\ locs = LocsAt(Fixed, j, l) /\ l - 1 + 1 = l
    BY <1>8, AwaitsAt DEF n
  <2>3. DOMAIN data = 1 .. Len(locs) /\ \A i \in DOMAIN data : data[i] \in Bit
    <3> HIDE DEF data
    <3> QED
      BY <2>1
  <2>4. \A w : Contains(locs, w) <=> Among(w, locs)
    <3>1. locs \in Seq(Nat)
      BY <1>2
    <3>2. DOMAIN locs = 1 .. Len(locs)
      BY <3>1
    <3> QED
      BY <3>2 DEF Contains, Among
  <2>5. Received(p)[0] = mem[p][0] /\ Received(p)[1] = second
        /\ DOMAIN Received(p) = {0, 1} /\ Received(p) = [s \in {0, 1} |-> Received(p)[s]]
    <3>1. DOMAIN mem[p] = {0, 1} /\ DOMAIN mem[p][1] = W
      BY <1>3
    <3>2. Received(p) = [mem[p] EXCEPT ![1] = [w \in DOMAIN mem[p][1] |->
                           IF Contains(locs, w) THEN At(w) ELSE mem[p][1][w]]]
      BY <1>8 DEF Received
    <3> HIDE DEF At
    <3>3. [w \in DOMAIN mem[p][1] |-> IF Contains(locs, w) THEN At(w) ELSE mem[p][1][w]] = second
      BY <2>4, <3>1
    <3> HIDE DEF second
    <3> QED
      BY <3>1, <3>2, <3>3
  <2> HIDE DEF data
  <2>6. ASSUME NEW w \in W, Among(w, locs)
        PROVE  \E i \in DOMAIN data : locs[i] = w /\ At(w) = data[i]
    <3>1. \E i \in DOMAIN data : locs[i] = w
      BY <2>3, <2>6 DEF Among
    <3> QED
      BY <3>1
  <2> HIDE DEF At
  <2>7. second \in [W -> Bit]
    <3>1. mem[p][1] \in [W -> Bit]
      BY <1>3
    <3>2. \A w \in W : (IF Among(w, locs) THEN At(w) ELSE mem[p][1][w]) \in Bit
      BY <2>3, <2>6, <3>1
    <3> QED
      BY <3>2
  <2>8. Received(p) \in [{0, 1} -> [W -> Bit]]
    <3>1. mem[p][0] \in [W -> Bit]
      BY <1>3
    <3> HIDE DEF second
    <3> QED
      BY <2>5, <2>7, <3>1
  <2>9. ASSUME right, NEW w \in W, Among(w, locs) PROVE At(w) = S.sh[prevOf(p)][w]
    <3> DEFINE Z == Run(Fixed, j)[l - 1]
               level == LevelAt(Fixed, j, l)
               R == LevelOf(rand, Z.sh, Z.idx, level, prevOf(p))
    <3>1. l - 1 \in Nat /\ l - 1 + 1 <= Levels(Fixed, j) /\ l - 1 + 1 = l
      BY <1>1, <2>2 DEF n
    <3>2. Run(Fixed, j)[l - 1 + 1] = After(Fixed.rand, Z, LevelAt(Fixed, j, l - 1 + 1))
          /\ Z.sh \in Sharings(cir) /\ Z.idx \in Nat
      BY <1>1, <1>2, <3>1, RunIs
    <3>3. level \in Seq(Gates(cir)) /\ Levelled(level)
      BY <1>1, <1>2, <2>2, CircuitFacts DEF n
    <3>4. S.sh[prevOf(p)] = R.m[0]
      <4>1. S = After(Fixed.rand, Z, level) /\ Fixed.rand = rand
        BY <2>2, <3>2 DEF Fixed
      <4>2. S.sh = SharesAfter(rand, Z.sh, Z.idx, level)
        BY <4>1 DEF After
      <4> QED
        BY <1>2, <4>2 DEF SharesAfter
    <3>5. data = R.buff
      <4>1. data = DataOf(Fixed, prevOf(p), <<j, l - 1>>) /\ Fixed.rand = rand
        BY <2>1, <2>9 DEF Fixed
      <4> HIDE DEF j, l, data
      <4>2. <<j, l - 1>>[1] = j /\ <<j, l - 1>>[2] = l - 1
        OBVIOUS
      <4> QED
        BY <2>2, <4>1, <4>2 DEF DataOf
    <3> HIDE DEF R, Z, level
    <3>6. \A i \in 1 .. Len(LocsOf(level)) : R.buff[i] = R.m[0][LocsOf(level)[i]]
      <4>1. BuffersFit(rand, Z.sh, Z.idx, level)
        BY <3>2, <3>3, LevelTogether
      <4> SUFFICES ASSUME NEW i \in 1 .. Len(LocsOf(level)) PROVE R.buff[i] = R.m[0][LocsOf(level)[i]]
        OBVIOUS
      <4> QED
        BY <1>2, <4>1 DEF R, BuffersFit
    <3>7. locs = LocsOf(level)
      BY <2>2 DEF LocsAt, level
    <3>8. PICK i \in DOMAIN data : locs[i] = w /\ At(w) = data[i]
      BY <2>6, <2>9
    <3> QED
      BY <2>3, <3>4, <3>5, <3>6, <3>7, <3>8
  <2>10. ASSUME right PROVE second = S.sh[prevOf(p)]
    <3>1. \A w \in W : second[w] = S.sh[prevOf(p)][w]
      BY <1>6, <2>9, <2>10
    <3> QED
      BY <1>5, <2>7, <3>1
  <2> QED
    BY <1>6, <2>5, <2>8, <2>10
<1> QED
  BY <1>7, <1>8

(* RoundCallback, taken apart.                                             *)
Inbox(p) == [arrived EXCEPT ![p] = IF Awaits(p) THEN Tail(arrived[p]) ELSE arrived[p]]
Item(p, data) ==
  [moved |-> mLevel[p] = Len(Circuit(p).levels) - 1, buff |-> BufferOf(mLevel[p]), data |-> data,
   of |-> <<job[p], mLevel[p]>>]
Rest(p, data) ==
  SubSeq(mSendBuffs[p][BufferOf(mLevel[p])], Len(data) + 1, Len(mSendBuffs[p][BufferOf(mLevel[p])]))
Filled(p, data) ==
  [mSendBuffs[p] EXCEPT ![BufferOf(mLevel[p])] =
     IF mLevel[p] = Len(Circuit(p).levels) - 1 /\ data # <<>> THEN <<>> ELSE data \o Rest(p, data)]

SendsNothing(p) == arrived' = Inbox(p) /\ sending' = sending
SendsNow(p, data) ==
  /\ promptSends /\ sending' = sending
  /\ arrived' = Updated(Inbox(p), nextOf(p), Append(Inbox(p)[nextOf(p)], [data |-> data, of |-> <<job[p], mLevel[p]>>]))
SendsLater(p, data) ==
  ~ promptSends /\ arrived' = Inbox(p) /\ sending' = Updated(sending, p, Append(sending[p], Item(p, data)))

LEMMA SendParts ==
  ASSUME NEW p, NEW data, SendLevel(p, data, Inbox(p))
  PROVE  /\ mSendBuffs' = Updated(mSendBuffs, p, Filled(p, data))
         /\ \/ data = <<>> /\ SendsNothing(p)
            \/ data # <<>> /\ (SendsNow(p, data) \/ SendsLater(p, data))
<1>1. mSendBuffs' = Updated(mSendBuffs, p, Filled(p, data))
  BY DEF SendLevel, Updated, Filled, Rest
<1>2. CASE data = <<>>
  BY <1>1, <1>2 DEF SendLevel, SendsNothing
<1>3. CASE data # <<>> /\ promptSends
  <2> HIDE DEF Inbox
  <2>1. arrived' = [Inbox(p) EXCEPT ![nextOf(p)] =
                      Append(Inbox(p)[nextOf(p)], [data |-> data, of |-> <<job[p], mLevel[p]>>])]
        /\ sending' = sending
    BY <1>3 DEF SendLevel
  <2> QED
    BY <1>1, <1>3, <2>1 DEF SendsNow, Updated
<1>4. CASE data # <<>> /\ ~ promptSends
  <2>1. arrived' = Inbox(p) /\ sending' = [sending EXCEPT ![p] = Append(sending[p], Item(p, data))]
    BY <1>4 DEF SendLevel, Item
  <2> QED
    BY <1>1, <1>4, <2>1 DEF SendsLater, Updated
<1> QED
  BY <1>1, <1>2, <1>3, <1>4

LEMMA RoundParts ==
  ASSUME NEW p, NEW r, RoundCallback(p), r = AfterLevel(p)
  PROVE  /\ Evaluating(p) /\ HasMoreRounds(p) /\ (Awaits(p) => arrived[p] # <<>>)
         /\ UNCHANGED <<fixed, job, out>>
         /\ mem' = Updated(mem, p, r.m) /\ mShareIdx' = Updated(mShareIdx, p, r.idx)
         /\ mRecvLocs' = Updated(mRecvLocs, p, r.locs) /\ mLevel' = Updated(mLevel, p, mLevel[p] + 1)
         /\ \/ ~ (mLevel[p] < Len(Circuit(p).levels)) /\ mSendBuffs' = mSendBuffs /\ SendsNothing(p)
            \/ /\ mLevel[p] < Len(Circuit(p).levels) /\ mSendBuffs' = Updated(mSendBuffs, p, Filled(p, r.buff))
               /\ \/ r.buff = <<>> /\ SendsNothing(p)
                  \/ r.buff # <<>> /\ (SendsNow(p, r.buff) \/ SendsLater(p, r.buff))
<1>1. /\ Evaluating(p) /\ HasMoreRounds(p) /\ (Awaits(p) => arrived[p] # <<>>)
      /\ mLevel' = [mLevel EXCEPT ![p] = mLevel[p] + 1] /\ UNCHANGED <<fixed, job, out>>
  BY DEF RoundCallback
<1>2. /\ mem' = [mem EXCEPT ![p] = r.m] /\ mShareIdx' = [mShareIdx EXCEPT ![p] = r.idx]
      /\ mRecvLocs' = [mRecvLocs EXCEPT ![p] = r.locs]
      /\ IF mLevel[p] < Len(Circuit(p).levels) THEN SendLevel(p, r.buff, Inbox(p))
         ELSE arrived' = Inbox(p) /\ UNCHANGED <<mSendBuffs, sending>>
  BY DEF RoundCallback, Inbox
<1>3. CASE ~ (mLevel[p] < Len(Circuit(p).levels))
  <2>1. mSendBuffs' = mSendBuffs /\ SendsNothing(p)
    BY <1>2, <1>3 DEF SendsNothing
  <2> QED
    BY <1>1, <1>2, <1>3, <2>1 DEF Updated
<1>4. CASE mLevel[p] < Len(Circuit(p).levels)
  <2>1. SendLevel(p, r.buff, Inbox(p))
    BY <1>2, <1>4
  <2>2. /\ mSendBuffs' = Updated(mSendBuffs, p, Filled(p, r.buff))
        /\ \/ r.buff = <<>> /\ SendsNothing(p)
           \/ r.buff # <<>> /\ (SendsNow(p, r.buff) \/ SendsLater(p, r.buff))
    BY <2>1, SendParts
  <2> QED
    BY <1>1, <1>2, <1>4, <2>2 DEF Updated
<1> QED
  BY <1>3, <1>4

(* What a level leaves, of party p, in circuit j before its level l + 1.   *)
LeftBy(f, p, right, j, l, r) ==
  /\ r.m \in Memories(f.program[j]) /\ r.idx \in Nat /\ r.buff \in Seq(Bit) /\ r.locs \in Seq(Nat)
  /\ l < Levels(f, j) => r.locs = LocsAt(f, j, l + 1) /\ Len(r.buff) = Len(r.locs)
  /\ right /\ l < Levels(f, j) => r.buff = DataOf(f, p, <<j, l>>)
  /\ right => HoldsShares(f, p, j, l + 1, r.idx, r.locs, r.m)

LEMMA LastLevelLeaves ==
  ASSUME NEW right, NEW p, NEW r, EvalInv(right), p \in Party, Evaluating(p), HasMoreRounds(p),
         Awaits(p) => arrived[p] # <<>>, r = AfterLevel(p), mLevel[p] = Levels(Fixed, job[p])
  PROVE  LeftBy(Fixed, p, right, job[p], mLevel[p], r)
<1> DEFINE j == job[p]
           n == Levels(Fixed, j)
<1>1. /\ j \in 1 .. Len(Fixed.program) /\ n \in Nat /\ n = Len(Circuit(p).levels)
  BY InRound
<1>2. Received(p) \in Memories(Fixed.program[j])
      /\ (right => Received(p)[0] = Run(Fixed, j)[n].sh[p] /\ Received(p)[1] = Run(Fixed, j)[n].sh[prevOf(p)])
  BY ReceivedIs DEF Memories
<1>3. r.m = Received(p) /\ r.idx = mShareIdx[p] /\ r.locs = mRecvLocs[p] /\ r.buff = <<>>
  BY <1>1 DEF AfterLevel
<1>4. mShareIdx[p] \in Nat /\ mRecvLocs[p] \in Seq(Nat)
  BY DEF EvalInv, PartyOK
<1> HIDE DEF n
<1>5. ~ (n + 1 <= n) /\ n + 1 \notin 1 .. n /\ ~ (n < n)
  BY <1>1
<1>6. right => HoldsShares(Fixed, p, j, n + 1, r.idx, r.locs, r.m)
  <2> HIDE DEF j
  <2> QED
    BY <1>2, <1>3, <1>5 DEF HoldsShares, n
<1>7. <<>> \in Seq(Bit)
  OBVIOUS
<1> QED
  BY <1>2, <1>3, <1>4, <1>5, <1>6, <1>7 DEF LeftBy, n

LEMMA LevelLeaves ==
  ASSUME NEW right, NEW p, NEW r, EvalInv(right), p \in Party, Evaluating(p), HasMoreRounds(p),
         Awaits(p) => arrived[p] # <<>>, r = AfterLevel(p), mLevel[p] # Levels(Fixed, job[p])
  PROVE  LeftBy(Fixed, p, right, job[p], mLevel[p], r)
<1> DEFINE j == job[p]
           l == mLevel[p]
           n == Levels(Fixed, j)
           cir == Fixed.program[j]
           level == LevelAt(Fixed, j, l + 1)
           S == Run(Fixed, j)[l]
           start == StartOf(S.sh, S.idx, p)
           before == [m |-> Received(p), idx |-> mShareIdx[p], locs |-> <<>>, buff |-> <<>>]
<1>1. /\ FixedOK(Fixed) /\ j \in 1 .. Len(Fixed.program) /\ n \in Nat /\ n = Len(Circuit(p).levels) /\ l \in 0 .. n
      /\ right => HoldsShares(Fixed, p, j, l, mShareIdx[p], mRecvLocs[p], mem[p])
  BY InRound DEF EvalInv
<1>2. mShareIdx[p] \in Nat /\ prevOf(p) \in Party
  BY Parties DEF EvalInv, PartyOK
<1>3. r = EvalLevel(mShareAES(p), before, level)
  <2>1. level = Circuit(p).levels[l + 1]
    BY DEF LevelAt, Circuit, Fixed
  <2> HIDE DEF level
  <2> QED
    BY <1>1, <2>1 DEF AfterLevel
<1> HIDE DEF n
<1>4. l \in Nat /\ l < n /\ l + 1 \in 1 .. n /\ l + 1 <= n /\ l <= n
  BY <1>1 DEF n
<1>5. level \in Seq(Gates(cir)) /\ Levelled(level)
  BY <1>1, <1>4, CircuitFacts DEF n
<1>6. Received(p) \in [{0, 1} -> [Wires(cir) -> Bit]]
      /\ (right => Received(p)[0] = S.sh[p] /\ Received(p)[1] = S.sh[prevOf(p)])
  BY ReceivedIs
<1>7. before \in LevelStates(cir) /\ before.locs = <<>> /\ before.buff = <<>>
  <2>1. <<>> \in Seq(Wires(cir)) /\ <<>> \in Seq(Bit)
    OBVIOUS
  <2> QED
    BY <1>2, <1>6, <2>1 DEF LevelStates
<1> HIDE DEF before, level, S
<1>8. /\ r \in LevelStates(cir) /\ LocsOf(level) \in Seq(Wires(cir)) /\ r.locs = LocsOf(level)
      /\ Len(r.buff) = Len(LocsOf(level))
  BY <1>3, <1>5, <1>7, LevelShape
<1>9. /\ r.m \in Memories(cir) /\ r.idx \in Nat /\ r.buff \in Seq(Bit)
  <2> HIDE DEF cir
  <2> QED
    BY <1>8 DEF LevelStates, Memories
<1>10. r.locs \in Seq(Nat)
  <2>1. Wires(cir) \subseteq Nat
    BY DEF Wires
  <2>2. Seq(Wires(cir)) \subseteq Seq(Nat)
    BY <2>1
  <2> QED
    BY <1>8, <2>2
<1>11. ASSUME right
       PROVE  r.buff = DataOf(Fixed, p, <<j, l>>) /\ HoldsShares(Fixed, p, j, l + 1, r.idx, r.locs, r.m)
  <2>1. before = start
    <3>1. mShareIdx[p] = S.idx
      <4> HIDE DEF j, l
      <4> QED
        BY <1>1, <1>4, <1>11 DEF HoldsShares, n, S
    <3>2. Received(p) = [s \in {0, 1} |-> IF s = 0 THEN S.sh[p] ELSE S.sh[prevOf(p)]]
      <4>1. Received(p) = [s \in {0, 1} |-> Received(p)[s]]
        BY <1>6
      <4> QED
        BY <1>6, <1>11, <4>1
    <3> QED
      BY <3>1, <3>2 DEF StartOf, before
  <2>2. r = LevelOf(Fixed.rand, S.sh, S.idx, level, p)
    <3>1. mShareAES(p) = AesOf(Fixed.rand, p)
      BY DEF mShareAES, AesOf, Fixed
    <3> HIDE DEF start
    <3> QED
      BY <1>3, <2>1, <3>1 DEF LevelOf, start
  <2>3. S.sh \in Sharings(cir) /\ S.idx \in Nat
    BY <1>1, <1>4, RunIs DEF S
  <2>4. Run(Fixed, j)[l + 1] = After(Fixed.rand, S, level)
    <3>1. Run(Fixed, j)[l + 1] = After(Fixed.rand, Run(Fixed, j)[l], LevelAt(Fixed, j, l + 1))
      BY <1>1, <1>4, RunIs DEF n
    <3> QED
      BY <3>1 DEF S, level
  <2>5. SecondsFit(Fixed.rand, cir, S.sh, S.idx, level)
    BY <1>5, <2>3, LevelTogether
  <2>6. r.buff = DataOf(Fixed, p, <<j, l>>)
    <3> HIDE DEF j, l
    <3> QED
      BY <2>2 DEF DataOf, S, level
  <2>7. r.idx = S.idx + Len(LocsOf(level))
    <3>1. start.idx = S.idx
      BY DEF StartOf
    <3> HIDE DEF start
    <3>2. before.idx = S.idx
      BY <2>1, <3>1
    <3>3. r.idx = before.idx + Len(LocsOf(level))
      BY <1>3, <1>5, <1>7, LevelShape
    <3> QED
      BY <3>2, <3>3
  <2> DEFINE Z == Run(Fixed, j)[l + 1]
  <2>8. Z.sh = SharesAfter(Fixed.rand, S.sh, S.idx, level) /\ Z.idx = S.idx + Len(LocsOf(level))
    BY <2>4 DEF After
  <2>9. r.m[0] = Z.sh[p] /\ Z.sh[prevOf(p)] = LevelOf(Fixed.rand, S.sh, S.idx, level, prevOf(p)).m[0]
    BY <1>2, <2>2, <2>8 DEF SharesAfter
  <2>10. \A w \in Wires(cir) : ~ Among(w, LocsOf(level)) => r.m[1][w] = Z.sh[prevOf(p)][w]
    BY <2>2, <2>5, <2>9 DEF SecondsFit
  <2> HIDE DEF Z
  <2>11. /\ r.m[0] = Z.sh[p] /\ r.idx = Z.idx
         /\ \A w \in Wires(cir) : Among(w, r.locs) \/ r.m[1][w] = Z.sh[prevOf(p)][w]
    BY <1>8, <2>7, <2>8, <2>9, <2>10
  <2> HIDE DEF l
  <2> QED
    BY <1>4, <2>6, <2>11 DEF HoldsShares, n, Z
<1>12. r.locs = LocsAt(Fixed, j, l + 1) /\ Len(r.buff) = Len(r.locs)
  BY <1>8 DEF LocsAt, level
<1> HIDE DEF j, l, cir
<1>13. LeftBy(Fixed, p, right, j, l, r)
  BY <1>9, <1>10, <1>11, <1>12 DEF LeftBy, cir
<1> QED
  BY <1>13 DEF j, l

(* The numbers of the messages of party p after a round.                   *)
LEMMA RoundNumbers ==
  ASSUME NEW right, NEW p, EvalInv(right), p \in Party, Evaluating(p), HasMoreRounds(p),
         Fixed' = Fixed, job'[p] = job[p], mLevel'[p] = mLevel[p] + 1
  PROVE  /\ SentNo(p) = MsgNo(Fixed, job[p], mLevel[p])
         /\ SentNo(p)' = IF SendsAt(Fixed, job[p], mLevel[p]) THEN SentNo(p) + 1 ELSE SentNo(p)
         /\ TakenNo(p)' = IF Awaits(p) THEN TakenNo(p) + 1 ELSE TakenNo(p)
<1> DEFINE j == job[p]
           l == mLevel[p]
           n == Levels(Fixed, j)
           M(x) == MsgNo(Fixed, j, x)
<1>1. /\ FixedOK(Fixed) /\ j \in 1 .. Len(Fixed.program) /\ j # 0 /\ n \in Nat /\ l \in 0 .. n
      /\ AtLevel(Fixed, j, l, mRecvLocs[p], mem[p])
  BY InRound DEF EvalInv
<1>2. /\ \A x \in 0 .. (n - 1) : M(x + 1) = IF LocsAt(Fixed, j, x + 1) = <<>> THEN M(x) ELSE M(x) + 1
      /\ M(n + 1) = M(n)
  BY <1>1, NumbersAre
<1>3. SentNo(p) = M(l) /\ SentNo(p)' = M(l + 1)
  <2> HIDE DEF l
  <2>1. job'[p] # 0 /\ Fixed' = Fixed /\ job'[p] = j /\ mLevel'[p] = l + 1
    BY <1>1 DEF l
  <2> HIDE DEF j
  <2> QED
    BY <1>1, <2>1 DEF SentNo, PosNo, l, j
<1>4. TakenNo(p) = M(IF l = 0 THEN 0 ELSE l - 1) /\ TakenNo(p)' = M(l)
  <2>1. job'[p] # 0 /\ mLevel'[p] # 0 /\ mLevel'[p] - 1 = l
    BY <1>1
  <2> QED
    BY <1>1, <2>1 DEF TakenNo, PosNo
<1> HIDE DEF M, n
<1>5. SentNo(p)' = IF SendsAt(Fixed, j, l) THEN SentNo(p) + 1 ELSE SentNo(p)
  <2>1. CASE l = n
    <3>1. ~ SendsAt(Fixed, j, l)
      BY <1>1, <2>1 DEF SendsAt, n
    <3> QED
      BY <1>2, <1>3, <2>1, <3>1
  <2>2. CASE l # n
    <3>1. l \in 0 .. (n - 1)
      BY <1>1, <2>2
    <3>2. SendsAt(Fixed, j, l) <=> LocsAt(Fixed, j, l + 1) # <<>>
      BY <1>1, <3>1 DEF SendsAt, n
    <3> QED
      BY <1>2, <1>3, <3>1, <3>2
  <2> QED
    BY <2>1, <2>2
<1>6. TakenNo(p)' = IF Awaits(p) THEN TakenNo(p) + 1 ELSE TakenNo(p)
  <2>1. CASE l = 0
    <3>1. ~ Awaits(p)
      BY <2>1 DEF Awaits
    <3> QED
      BY <1>4, <2>1, <3>1
  <2>2. CASE l # 0
    <3>1. l - 1 \in 0 .. (n - 1) /\ l - 1 + 1 = l /\ l > 0 /\ l \in 1 .. n
      BY <1>1, <2>2
    <3>2. Awaits(p) <=> LocsAt(Fixed, j, l) # <<>>
      BY <1>1, <3>1 DEF Awaits, AtLevel, n
    <3>3. TakenNo(p) = M(l - 1)
      BY <1>4, <2>2
    <3>4. M(l - 1 + 1) = IF LocsAt(Fixed, j, l - 1 + 1) = <<>> THEN M(l - 1) ELSE M(l - 1) + 1
      BY <1>2, <3>1
    <3> QED
      BY <1>4, <3>1, <3>2, <3>3, <3>4
  <2> QED
    BY <2>1, <2>2
<1> QED
  BY <1>3, <1>5, <1>6 DEF M

(* The item that a level sends.                                            *)
LEMMA ItemMeant ==
  ASSUME NEW right, NEW p, NEW r, EvalInv(right), p \in Party, Evaluating(p), HasMoreRounds(p),
         mLevel[p] < Levels(Fixed, job[p]), LeftBy(Fixed, p, right, job[p], mLevel[p], r)
  PROVE  /\ SendsAt(Fixed, job[p], mLevel[p]) <=> r.buff # <<>>
         /\ r.buff # <<>> =>
              \A m : m.data = r.buff /\ m.of = <<job[p], mLevel[p]>> => Meant(Fixed, p, right, m, SentNo(p))
         /\ [data |-> r.buff, of |-> <<job[p], mLevel[p]>>] \in Messages
         /\ Item(p, r.buff) \in Sendings
<1> DEFINE j == job[p]
           l == mLevel[p]
           n == Levels(Fixed, j)
<1>1. /\ FixedOK(Fixed) /\ j \in 1 .. Len(Fixed.program) /\ j # 0 /\ n \in Nat /\ l \in 0 .. n
  BY InRound DEF EvalInv
<1>2. /\ r.locs = LocsAt(Fixed, j, l + 1) /\ Len(r.buff) = Len(r.locs) /\ r.buff \in Seq(Bit) /\ r.locs \in Seq(Nat)
      /\ right => r.buff = DataOf(Fixed, p, <<j, l>>)
  BY DEF LeftBy
<1>3. l \in 0 .. (n - 1) /\ l \in Nat /\ j \in Nat
  <2>1. Len(Fixed.program) \in Nat
    BY <1>1 DEF FixedOK
  <2> QED
    BY <1>1, <2>1
<1>4. r.buff # <<>> <=> r.locs # <<>>
  <2>1. r.buff = <<>> <=> Len(r.buff) = 0
    BY <1>2
  <2>2. r.locs = <<>> <=> Len(r.locs) = 0
    BY <1>2
  <2> QED
    BY <1>2, <2>1, <2>2
<1>5. SendsAt(Fixed, j, l) <=> r.buff # <<>>
  BY <1>1, <1>2, <1>3, <1>4 DEF SendsAt
<1>6. SentNo(p) = MsgNo(Fixed, j, l)
  BY <1>1 DEF SentNo, PosNo
<1> HIDE DEF n, j, l
<1>7. ASSUME r.buff # <<>>, NEW m, m.data = r.buff, m.of = <<j, l>>
      PROVE  Meant(Fixed, p, right, m, SentNo(p))
  <2>1. m.of[1] = j /\ m.of[2] = l
    BY <1>7
  <2> QED
    BY <1>2, <1>5, <1>6, <1>7, <2>1 DEF Meant
<1>8. l % 2 \in {0, 1}
  BY <1>3
<1>9. [data |-> r.buff, of |-> <<j, l>>] \in Messages
  BY <1>2, <1>3 DEF Messages
<1>10. Item(p, r.buff) \in Sendings
  BY <1>2, <1>3, <1>8 DEF Item, Sendings, BufferOf, j, l
<1> QED
  BY <1>5, <1>7, <1>9, <1>10 DEF j, l

(* The send buffer after a level.                                          *)
LEMMA RestIs ==
  ASSUME NEW held, NEW k, NEW n, held \in Seq(Bit), k \in Nat, k >= 1, n = Len(held)
  PROVE  SubSeq(held, k, n) \in Seq(Bit)
<1>1. n \in Nat
  OBVIOUS
<1>2. CASE k <= n
  <2>1. \A i \in 1 .. (n - k + 1) : i + k - 1 \in 1 .. n
    BY <1>1, <1>2
  <2>2. \A i \in 1 .. (n - k + 1) : held[i + k - 1] \in Bit
    BY <2>1
  <2> QED
    BY <1>1, <1>2, <2>2
<1>3. CASE ~ (k <= n)
  BY <1>1, <1>3
<1> QED
  BY <1>2, <1>3

LEMMA FilledIs ==
  ASSUME NEW p, NEW data, mSendBuffs[p] \in Buffers, mLevel[p] \in Nat, data \in Seq(Bit)
  PROVE  Filled(p, data) \in Buffers
<1> DEFINE b == BufferOf(mLevel[p])
           held == mSendBuffs[p][b]
           k == Len(data) + 1
           n == Len(held)
<1>1. b \in {0, 1}
  BY DEF BufferOf
<1>2. held \in Seq(Bit)
  BY <1>1 DEF Buffers
<1>3. k \in Nat /\ k >= 1 /\ n \in Nat
  BY <1>2
<1>4. SubSeq(held, k, n) \in Seq(Bit)
  <2> HIDE DEF held, k
  <2> QED
    BY <1>2, <1>3, RestIs
<1>5. Rest(p, data) = SubSeq(held, k, n)
  BY DEF Rest
<1> HIDE DEF b, held, k, n
<1>6. data \o Rest(p, data) \in Seq(Bit) /\ <<>> \in Seq(Bit)
  BY <1>4, <1>5
<1> DEFINE v == IF mLevel[p] = Len(Circuit(p).levels) - 1 /\ data # <<>> THEN <<>> ELSE data \o Rest(p, data)
<1>7. v \in Seq(Bit)
  BY <1>6
<1>8. Filled(p, data) = [mSendBuffs[p] EXCEPT ![b] = v]
  BY DEF Filled, b
<1> HIDE DEF v
<1> QED
  BY <1>1, <1>7, <1>8 DEF Buffers

(* What a round sends.                                                     *)
SendsOf(p, r) ==
  \/ ~ (mLevel[p] < Len(Circuit(p).levels)) /\ SendsNothing(p)
  \/ /\ mLevel[p] < Len(Circuit(p).levels)
     /\ \/ r.buff = <<>> /\ SendsNothing(p)
        \/ r.buff # <<>> /\ (SendsNow(p, r.buff) \/ SendsLater(p, r.buff))

LEMMA InboxIs ==
  ASSUME NEW right, NEW p, EvalInv(right), p \in Party
  PROVE  /\ OnParties(Inbox(p))
         /\ \A q \in Party : Inbox(p)[q] = IF q = p /\ Awaits(p) THEN Tail(arrived[p]) ELSE arrived[q]
<1> DEFINE v == IF Awaits(p) THEN Tail(arrived[p]) ELSE arrived[p]
<1>1. Inbox(p) = Updated(arrived, p, v)
  BY DEF Inbox, Updated
<1>2. OnParties(arrived)
  BY DEF EvalInv
<1> HIDE DEF v
<1>3. OnParties(Inbox(p)) /\ \A q \in Party : Inbox(p)[q] = IF q = p THEN v ELSE arrived[q]
  BY <1>1, <1>2, UpdateIs
<1> QED
  BY <1>3 DEF v

(* The queues after a round.                                               *)
LEMMA QueuesAfter ==
  ASSUME NEW right, NEW p, NEW r, EvalInv(right), p \in Party, SendsOf(p, r)
  PROVE  /\ OnParties(arrived') /\ OnParties(sending')
         /\ \A q \in Party : q # nextOf(p) => arrived'[q] = Inbox(p)[q]
         /\ \A q \in Party : q # p => sending'[q] = sending[q]
<1>1. OnParties(Inbox(p)) /\ OnParties(sending)
  BY InboxIs DEF EvalInv
<1>2. nextOf(p) \in Party
  BY Parties
<1> DEFINE a == Append(Inbox(p)[nextOf(p)], [data |-> r.buff, of |-> <<job[p], mLevel[p]>>])
           s == Append(sending[p], Item(p, r.buff))
<1>3. \/ arrived' = Inbox(p) /\ sending' = sending
      \/ arrived' = Updated(Inbox(p), nextOf(p), a) /\ sending' = sending
      \/ arrived' = Inbox(p) /\ sending' = Updated(sending, p, s)
  BY DEF SendsOf, SendsNothing, SendsNow, SendsLater
<1> HIDE DEF a, s
<1>4. CASE arrived' = Inbox(p) /\ sending' = sending
  BY <1>1, <1>4
<1>5. CASE arrived' = Updated(Inbox(p), nextOf(p), a) /\ sending' = sending
  <2>1. OnParties(arrived') /\ \A q \in Party : arrived'[q] = IF q = nextOf(p) THEN a ELSE Inbox(p)[q]
    BY <1>1, <1>2, <1>5, UpdateIs
  <2> QED
    BY <1>1, <1>5, <2>1
<1>6. CASE arrived' = Inbox(p) /\ sending' = Updated(sending, p, s)
  <2>1. OnParties(sending') /\ \A q \in Party : sending'[q] = IF q = p THEN s ELSE sending[q]
    BY <1>1, <1>6, UpdateIs
  <2> QED
    BY <1>1, <1>6, <2>1
<1> QED
  BY <1>3, <1>4, <1>5, <1>6

(* The party's own channel.                                                *)
LEMMA OwnChannelKept ==
  ASSUME NEW right, NEW p, NEW r, EvalInv(right), p \in Party, Evaluating(p), HasMoreRounds(p), SendsOf(p, r),
         LeftBy(Fixed, p, right, job[p], mLevel[p], r), Fixed' = Fixed, promptSends' = promptSends,
         SentNo(p)' = IF SendsAt(Fixed, job[p], mLevel[p]) THEN SentNo(p) + 1 ELSE SentNo(p),
         TakenNo(nextOf(p))' = TakenNo(nextOf(p))
  PROVE  ChannelOK(p, right)'
<1> DEFINE q == nextOf(p)
           n == Levels(Fixed, job[p])
           m == [data |-> r.buff, of |-> <<job[p], mLevel[p]>>]
           t == TakenNo(q)
           s == SentNo(p)
<1>1. q \in Party /\ q # p
  BY Parties
<1>2. OnParties(Inbox(p)) /\ Inbox(p)[q] = arrived[q]
  BY <1>1, InboxIs
<1>3. Channel(Fixed, p, right, t, s, arrived[q], sending[p]) /\ (promptSends => sending[p] = <<>>)
  BY DEF EvalInv, ChannelOK
<1>4. n \in Nat /\ n = Len(Circuit(p).levels) /\ mLevel[p] \in 0 .. n
  BY InRound
<1> HIDE DEF q, n
<1>5. CASE mLevel[p] < n /\ r.buff # <<>>
  <2>1. /\ SendsAt(Fixed, job[p], mLevel[p])
        /\ \A x : x.data = r.buff /\ x.of = <<job[p], mLevel[p]>> => Meant(Fixed, p, right, x, s)
        /\ m \in Messages /\ Item(p, r.buff) \in Sendings
    BY <1>5, ItemMeant DEF n
  <2>2. m.data = r.buff /\ m.of = <<job[p], mLevel[p]>>
        /\ Item(p, r.buff).data = r.buff /\ Item(p, r.buff).of = <<job[p], mLevel[p]>>
    BY DEF Item
  <2> HIDE DEF m, t, s
  <2>3. Meant(Fixed, p, right, m, s) /\ Meant(Fixed, p, right, Item(p, r.buff), s)
    BY <2>1, <2>2
  <2>4. SentNo(p)' = s + 1
    BY <2>1 DEF s
  <2>5. SendsNow(p, r.buff) \/ SendsLater(p, r.buff)
    BY <1>4, <1>5 DEF SendsOf
  <2>6. CASE SendsNow(p, r.buff)
    <3>1. promptSends /\ sending' = sending /\ arrived' = Updated(Inbox(p), q, Append(arrived[q], m))
      BY <1>2, <2>6 DEF SendsNow, q, m
    <3>2. Channel(Fixed, p, right, t, s + 1, Append(arrived[q], m), sending[p])
      BY <1>3, <2>1, <2>3, <3>1, ChannelPut
    <3> DEFINE a == Append(arrived[q], m)
    <3>3. arrived'[q] = a
      <4> HIDE DEF a
      <4>1. arrived' = Updated(Inbox(p), q, a)
        BY <3>1 DEF a
      <4> QED
        BY <1>1, <1>2, <4>1, UpdateIs
    <3>4. Channel(Fixed', p, right, TakenNo(q)', SentNo(p)', arrived'[q], sending'[p])
      BY <2>4, <3>1, <3>2, <3>3 DEF q, t
    <3> QED
      BY <1>3, <3>1, <3>4 DEF ChannelOK, q
  <2>7. CASE SendsLater(p, r.buff)
    <3>1. ~ promptSends /\ arrived' = Inbox(p) /\ sending' = Updated(sending, p, Append(sending[p], Item(p, r.buff)))
      BY <2>7 DEF SendsLater
    <3>2. Channel(Fixed, p, right, t, s + 1, arrived[q], Append(sending[p], Item(p, r.buff)))
      BY <1>3, <2>1, <2>3, ChannelQueue
    <3> DEFINE a == Append(sending[p], Item(p, r.buff))
    <3>3. sending'[p] = a
      <4> HIDE DEF a
      <4>1. sending' = Updated(sending, p, a) /\ OnParties(sending)
        BY <3>1 DEF a, EvalInv
      <4> QED
        BY <4>1, UpdateIs
    <3>4. Channel(Fixed', p, right, TakenNo(q)', SentNo(p)', arrived'[q], sending'[p])
      BY <1>2, <2>4, <3>1, <3>2, <3>3 DEF q, t
    <3> QED
      BY <3>1, <3>4 DEF ChannelOK, q
  <2> QED
    BY <2>5, <2>6, <2>7
<1>6. CASE ~ (mLevel[p] < n /\ r.buff # <<>>)
  <2>1. arrived' = Inbox(p) /\ sending' = sending
    BY <1>4, <1>6 DEF SendsOf, SendsNothing
  <2>2. ~ SendsAt(Fixed, job[p], mLevel[p])
    <3>1. CASE mLevel[p] < n
      BY <1>6, <3>1, ItemMeant DEF n
    <3>2. CASE ~ (mLevel[p] < n)
      BY <1>4, <3>2 DEF SendsAt, n
    <3> QED
      BY <3>1, <3>2
  <2>3. SentNo(p)' = s
    BY <2>2
  <2>4. Channel(Fixed', p, right, TakenNo(q)', SentNo(p)', arrived'[q], sending'[p])
    BY <1>2, <1>3, <2>1, <2>3 DEF q
  <2> QED
    BY <1>3, <2>1, <2>4 DEF ChannelOK, q
<1> QED
  BY <1>5, <1>6

(* The channel from the previous party, whose message the round takes.     *)
LEMMA InboxKept ==
  ASSUME NEW right, NEW p, NEW o, EvalInv(right), p \in Party, Evaluating(p), HasMoreRounds(p),
         Awaits(p) => arrived[p] # <<>>, o = prevOf(p),
         Fixed' = Fixed, promptSends' = promptSends, arrived'[p] = Inbox(p)[p], sending'[o] = sending[o],
         SentNo(o)' = SentNo(o), TakenNo(p)' = IF Awaits(p) THEN TakenNo(p) + 1 ELSE TakenNo(p)
  PROVE  ChannelOK(o, right)'
<1>1. o \in Party /\ nextOf(o) = p
  BY Parties
<1>2. ChannelOK(o, right)
  BY <1>1 DEF EvalInv
<1>3. Inbox(p)[p] = IF Awaits(p) THEN Tail(arrived[p]) ELSE arrived[p]
  BY InboxIs
<1>4. CASE Awaits(p)
  <2>1. Channel(Fixed, o, right, TakenNo(p) + 1, SentNo(o), Tail(arrived[p]), sending[o])
    BY <1>4, HeadMeant
  <2>2. Channel(Fixed', o, right, TakenNo(p)', SentNo(o)', arrived'[p], sending'[o])
    BY <1>3, <1>4, <2>1
  <2> QED
    BY <1>1, <1>2, <2>2 DEF ChannelOK
<1>5. CASE ~ Awaits(p)
  BY <1>1, <1>2, <1>3, <1>5, ChannelKept
<1> QED
  BY <1>4, <1>5

LEMMA RoundParty ==
  ASSUME NEW right, NEW p, NEW r, EvalInv(right), p \in Party, Evaluating(p), HasMoreRounds(p),
         LeftBy(Fixed, p, right, job[p], mLevel[p], r), Fixed' = Fixed,
         job'[p] = job[p], mLevel'[p] = mLevel[p] + 1, mem'[p] = r.m, mShareIdx'[p] = r.idx, mRecvLocs'[p] = r.locs,
         mSendBuffs'[p] \in Buffers, out'[p] = out[p]
  PROVE  PartyOK(p, right)'
<1> DEFINE j == job[p]
           l == mLevel[p]
           n == Levels(Fixed, j)
<1>1. /\ j \in 1 .. Len(Fixed.program) /\ j # 0 /\ Len(out[p]) # j /\ n \in Nat /\ l \in 0 .. n
  BY InRound
<1>2. PartyOK(p, right)
  BY DEF EvalInv
<1>3. /\ job'[p] \in 0 .. Len(Fixed'.program) /\ out'[p] \in Seq(Outputs)
      /\ (Len(out'[p]) = job'[p] \/ Len(out'[p]) = job'[p] - 1)
      /\ right => \A i \in 1 .. Len(out'[p]) : out'[p][i] = OutOf(Fixed', p, i)
  BY <1>2 DEF PartyOK
<1>4. /\ r.m \in Memories(Fixed.program[j]) /\ r.idx \in Nat /\ r.locs \in Seq(Nat)
      /\ l < n => r.locs = LocsAt(Fixed, j, l + 1)
      /\ right => HoldsShares(Fixed, p, j, l + 1, r.idx, r.locs, r.m)
  BY DEF LeftBy
<1> HIDE DEF n
<1>5. l + 1 \in 0 .. (n + 1) /\ (l + 1 \in 1 .. n => l < n)
  BY <1>1
<1>6. AtLevel(Fixed, j, l + 1, r.locs, r.m)
  <2> HIDE DEF j, l
  <2> QED
    BY <1>4, <1>5 DEF AtLevel, Memories, n
<1>7. /\ job'[p] # 0 /\ Len(out'[p]) # job'[p]
      /\ AtLevel(Fixed', job'[p], mLevel'[p], mRecvLocs'[p], mem'[p])
      /\ right => HoldsShares(Fixed', p, job'[p], mLevel'[p], mShareIdx'[p], mRecvLocs'[p], mem'[p])
  BY <1>1, <1>4, <1>6
<1>8. mShareIdx'[p] \in Nat /\ mRecvLocs'[p] \in Seq(Nat) /\ mSendBuffs'[p] \in Buffers
  BY <1>4
<1> QED
  BY <1>3, <1>7, <1>8 DEF PartyOK

LEMMA RoundCallbackKeeps ==
  ASSUME NEW right, NEW p, EvalInv(right), p \in Party, RoundCallback(p)
  PROVE  EvalInv(right)'
<1> DEFINE r == AfterLevel(p)
           b == Filled(p, r.buff)
<1>1. /\ FixedOK(Fixed) /\ promptSends \in BOOLEAN
      /\ OnParties(job) /\ OnParties(mLevel) /\ OnParties(mem) /\ OnParties(mShareIdx) /\ OnParties(mRecvLocs)
      /\ OnParties(mSendBuffs) /\ OnParties(sending) /\ OnParties(arrived) /\ OnParties(out)
      /\ \A q \in Party : PartyOK(q, right) /\ ChannelOK(q, right)
  BY DEF EvalInv
<1> HIDE DEF r
<1>2. /\ Evaluating(p) /\ HasMoreRounds(p) /\ (Awaits(p) => arrived[p] # <<>>)
      /\ UNCHANGED <<fixed, job, out>>
      /\ mem' = Updated(mem, p, r.m) /\ mShareIdx' = Updated(mShareIdx, p, r.idx)
      /\ mRecvLocs' = Updated(mRecvLocs, p, r.locs) /\ mLevel' = Updated(mLevel, p, mLevel[p] + 1)
      /\ \/ ~ (mLevel[p] < Len(Circuit(p).levels)) /\ mSendBuffs' = mSendBuffs /\ SendsNothing(p)
         \/ /\ mLevel[p] < Len(Circuit(p).levels) /\ mSendBuffs' = Updated(mSendBuffs, p, b)
            /\ \/ r.buff = <<>> /\ SendsNothing(p)
               \/ r.buff # <<>> /\ (SendsNow(p, r.buff) \/ SendsLater(p, r.buff))
  BY RoundParts DEF r
<1>3. Fixed' = Fixed /\ promptSends' = promptSends
  BY <1>2, FixedKept
<1>4. LeftBy(Fixed, p, right, job[p], mLevel[p], r)
  BY <1>2, LastLevelLeaves, LevelLeaves DEF r
<1>5. SendsOf(p, r)
  BY <1>2 DEF SendsOf
<1>6. mSendBuffs[p] \in Buffers /\ b \in Buffers
  <2>1. mLevel[p] \in 0 .. Levels(Fixed, job[p])
    BY <1>2, InRound
  <2>2. mLevel[p] \in Nat
    BY <2>1
  <2>3. mSendBuffs[p] \in Buffers
    BY <1>1 DEF PartyOK
  <2>4. r.buff \in Seq(Bit)
    BY <1>4 DEF LeftBy
  <2> QED
    BY <2>2, <2>3, <2>4, FilledIs
<1> HIDE DEF b
<1>7. /\ OnParties(mem') /\ \A q \in Party : mem'[q] = IF q = p THEN r.m ELSE mem[q]
  BY <1>1, <1>2, UpdateIs
<1>8. /\ OnParties(mShareIdx') /\ \A q \in Party : mShareIdx'[q] = IF q = p THEN r.idx ELSE mShareIdx[q]
  BY <1>1, <1>2, UpdateIs
<1>9. /\ OnParties(mRecvLocs') /\ \A q \in Party : mRecvLocs'[q] = IF q = p THEN r.locs ELSE mRecvLocs[q]
  BY <1>1, <1>2, UpdateIs
<1>10. /\ OnParties(mLevel') /\ \A q \in Party : mLevel'[q] = IF q = p THEN mLevel[p] + 1 ELSE mLevel[q]
  BY <1>1, <1>2, UpdateIs
<1>11. /\ OnParties(mSendBuffs') /\ mSendBuffs'[p] \in Buffers /\ \A q \in Party : q # p => mSendBuffs'[q] = mSendBuffs[q]
  <2>1. CASE mSendBuffs' = mSendBuffs
    BY <1>1, <1>6, <2>1
  <2>2. CASE mSendBuffs' = Updated(mSendBuffs, p, b)
    <3>1. OnParties(mSendBuffs') /\ \A q \in Party : mSendBuffs'[q] = IF q = p THEN b ELSE mSendBuffs[q]
      BY <1>1, <2>2, UpdateIs
    <3> QED
      BY <1>6, <3>1
  <2> QED
    BY <1>2, <2>1, <2>2
<1>12. /\ OnParties(arrived') /\ OnParties(sending')
       /\ \A q \in Party : q # nextOf(p) => arrived'[q] = Inbox(p)[q]
       /\ \A q \in Party : q # p => sending'[q] = sending[q]
  BY <1>5, QueuesAfter
<1>13. OthersAlone(p)
  BY <1>2, <1>7, <1>8, <1>9, <1>10, <1>11 DEF OthersAlone
<1>14. StillOnParties
  BY <1>1, <1>2, <1>7, <1>8, <1>9, <1>10, <1>11, <1>12 DEF StillOnParties
<1>15. PartyOK(p, right)'
  BY <1>2, <1>3, <1>4, <1>7, <1>8, <1>9, <1>10, <1>11, RoundParty
<1>16. /\ SentNo(p)' = IF SendsAt(Fixed, job[p], mLevel[p]) THEN SentNo(p) + 1 ELSE SentNo(p)
       /\ TakenNo(p)' = IF Awaits(p) THEN TakenNo(p) + 1 ELSE TakenNo(p)
  BY <1>2, <1>3, <1>10, RoundNumbers
<1>17. \A q \in Party : q # p => SentNo(q)' = SentNo(q) /\ TakenNo(q)' = TakenNo(q)
  BY <1>3, <1>13, NumbersKept DEF OthersAlone
<1>18. ASSUME NEW o \in Party PROVE ChannelOK(o, right)'
  <2>1. nextOf(p) \in Party /\ nextOf(p) # p /\ prevOf(p) \in Party /\ prevOf(p) # p
    BY Parties
  <2>2. CASE o = p
    BY <1>2, <1>3, <1>4, <1>5, <1>16, <1>17, <2>1, <2>2, OwnChannelKept
  <2>3. CASE o = prevOf(p)
    BY <1>2, <1>3, <1>12, <1>16, <1>17, <2>1, <2>3, InboxKept
  <2>4. CASE o # p /\ o # prevOf(p)
    <3>1. nextOf(o) \in Party /\ nextOf(o) # p /\ nextOf(o) # nextOf(p)
      BY <2>4, Parties
    <3>2. arrived'[nextOf(o)] = arrived[nextOf(o)] /\ sending'[o] = sending[o]
      BY <1>12, <2>4, <3>1, InboxIs
    <3> QED
      BY <1>1, <1>3, <1>17, <2>4, <3>1, <3>2, ChannelKept
  <2> QED
    BY <2>2, <2>3, <2>4
<1> QED
  BY <1>2, <1>13, <1>14, <1>15, <1>18, FromParts

LEMMA NextKeeps ==
  ASSUME NEW right, EvalInv(right), right => BuffersOutliveSends, [Next]_vars
  PROVE  EvalInv(right)'
<1>1. ASSUME NEW p \in Party, SetUp(p) PROVE EvalInv(right)'
  BY <1>1, SetUpKeeps
<1>2. ASSUME NEW p \in Party, RoundCallback(p) PROVE EvalInv(right)'
  BY <1>2, RoundCallbackKeeps
<1>3. ASSUME NEW p \in Party, Transmit(p) PROVE EvalInv(right)'
  BY <1>3, TransmitKeeps
<1>4. ASSUME NEW p \in Party, GetOutput(p) PROVE EvalInv(right)'
  BY <1>4, GetOutputKeeps
<1>5. CASE UNCHANGED vars
  <2>1. Fixed' = Fixed /\ promptSends' = promptSends
    BY <1>5, FixedKept DEF vars
  <2>2. job' = job /\ mLevel' = mLevel /\ mem' = mem /\ mShareIdx' = mShareIdx /\ mRecvLocs' = mRecvLocs
        /\ mSendBuffs' = mSendBuffs /\ out' = out /\ arrived' = arrived /\ sending' = sending
    BY <1>5 DEF vars, local
  <2>3. /\ FixedOK(Fixed) /\ promptSends \in BOOLEAN
        /\ OnParties(job) /\ OnParties(mLevel) /\ OnParties(mem) /\ OnParties(mShareIdx) /\ OnParties(mRecvLocs)
        /\ OnParties(mSendBuffs) /\ OnParties(sending) /\ OnParties(arrived) /\ OnParties(out)
        /\ \A q \in Party : PartyOK(q, right) /\ ChannelOK(q, right)
    BY DEF EvalInv
  <2>4. \A q \in Party : SentNo(q)' = SentNo(q) /\ TakenNo(q)' = TakenNo(q)
    BY <2>1, <2>2, NumbersKept
  <2>5. \A q \in Party : PartyOK(q, right)'
    BY <2>1, <2>2, <2>3, PartyKept
  <2>6. \A q \in Party : ChannelOK(q, right)'
    BY <2>1, <2>2, <2>3, <2>4, Parties, ChannelKept
  <2>7. FixedOK(Fixed)' /\ promptSends' \in BOOLEAN
    BY <2>1, <2>3
  <2>8. /\ OnParties(job)' /\ OnParties(mLevel)' /\ OnParties(mem)' /\ OnParties(mShareIdx)' /\ OnParties(mRecvLocs)'
        /\ OnParties(mSendBuffs)' /\ OnParties(sending)' /\ OnParties(arrived)' /\ OnParties(out)'
    BY <2>2, <2>3
  <2> QED
    BY <2>5, <2>6, <2>7, <2>8 DEF EvalInv
<1> QED
  BY <1>1, <1>2, <1>3, <1>4, <1>5 DEF Next

LEMMA TypeHere ==
  ASSUME NEW right, EvalInv(right)
  PROVE  TypeOK
<1>1. /\ Len(Fixed.program) \in Nat /\ Fixed.program = program /\ OnParties(job)
      /\ \A p \in Party : PartyOK(p, right)
  BY DEF EvalInv, FixedOK, Fixed
<1>2. job \in [Party -> 0 .. Len(program)]
  <2>1. \A p \in Party : job[p] \in 0 .. Len(program)
    BY <1>1 DEF PartyOK
  <2> QED
    BY <1>1, <2>1 DEF OnParties
<1>3. ASSUME NEW p \in Party
      PROVE  /\ \A s \in {0, 1} : \A w \in DOMAIN mem[p][s] : mem[p][s][w] \in Bit
             /\ job[p] > 0 => mLevel[p] \in 0 .. Len(Circuit(p).levels) + 1
  <2>1. CASE job[p] = 0
    <3>1. mem[p] = [s \in {0, 1} |-> <<>>]
      BY <1>1, <2>1 DEF PartyOK
    <3>2. \A s \in {0, 1} : DOMAIN mem[p][s] = {}
      BY <3>1
    <3> QED
      BY <2>1, <3>2
  <2>2. CASE job[p] # 0
    <3>1. AtLevel(Fixed, job[p], mLevel[p], mRecvLocs[p], mem[p])
      BY <1>1, <2>2 DEF PartyOK
    <3>2. mLevel[p] \in 0 .. (Levels(Fixed, job[p]) + 1) /\ mem[p] \in [{0, 1} -> [Wires(Fixed.program[job[p]]) -> Bit]]
      BY <3>1 DEF AtLevel
    <3>3. Levels(Fixed, job[p]) = Len(Circuit(p).levels)
      BY <1>1 DEF Levels, Circuit
    <3> QED
      BY <3>2, <3>3
  <2> QED
    BY <2>1, <2>2
<1>4. ASSUME NEW p \in Party PROVE job[p] - Len(out[p]) \in {0, 1}
  <2>1. job[p] \in Int /\ Len(out[p]) \in Int /\ (Len(out[p]) = job[p] \/ Len(out[p]) = job[p] - 1)
    <3>1. out[p] \in Seq(Outputs) /\ (Len(out[p]) = job[p] \/ Len(out[p]) = job[p] - 1)
          /\ job[p] \in 0 .. Len(program)
      BY <1>1 DEF PartyOK
    <3> QED
      BY <1>1, <3>1
  <2> QED
    BY <2>1
<1> QED
  BY <1>2, <1>3, <1>4 DEF TypeOK

LEMMA PlainInputIs ==
  ASSUME NEW j
  PROVE  OpenedOf(program[j], StartShares(Fixed, j)) = PlainInput(program[j])
<1> DEFINE cir == program[j]
<1>1. Fixed.program = program /\ Fixed.input = input
  BY DEF Fixed
<1>2. \A w \in Wires(cir) : \A p \in Party :
        StartShares(Fixed, j)[p][w] = IF w < cir.inputs THEN input[p][w] ELSE 0
  BY <1>1 DEF StartShares
<1>3. X(X(0, 0), 0) = 0
  BY DEF X
<1>4. \A w \in Wires(cir) :
        Opened(StartShares(Fixed, j)[0][w], StartShares(Fixed, j)[1][w], StartShares(Fixed, j)[2][w])
          = IF w < cir.inputs THEN X(X(input[0][w], input[1][w]), input[2][w]) ELSE 0
  BY <1>2, <1>3, Parties DEF Opened
<1> QED
  BY <1>4 DEF OpenedOf, PlainInput

LEMMA OutputsHere ==
  ASSUME EvalInv(TRUE)
  PROVE  OutputsCorrect
<1> SUFFICES ASSUME NEW j \in DOMAIN program, \A p \in Party : Len(out[p]) >= j,
                    NEW i \in DOMAIN program[j].outputs
             PROVE  LET o == program[j].outputs[i]
                        v == Plain(program[j])[o.wire]
                    IN /\ \A p \in Party : out[p][j][i][1] = out[prevOf(p)][j][i][0]
                       /\ X(X(out[0][j][i][0], out[1][j][i][0]), out[2][j][i][0]) = IF o.invert THEN N(v) ELSE v
  BY DEF OutputsCorrect
<1> DEFINE cir == program[j]
           o == cir.outputs[i]
           w == o.wire
           v == Plain(cir)[w]
           sh == Run(Fixed, j)[Levels(Fixed, j)].sh
           Inv(b) == IF o.invert THEN N(b) ELSE b
<1>1. /\ FixedOK(Fixed) /\ Fixed.program = program /\ j \in 1 .. Len(Fixed.program) /\ Len(program) \in Nat
      /\ \A p \in Party : PartyOK(p, TRUE)
  BY DEF EvalInv, FixedOK, Fixed
<1>2. ASSUME NEW p \in Party PROVE out[p][j] = OutOf(Fixed, p, j)
  <2>1. out[p] \in Seq(Outputs) /\ \A k \in 1 .. Len(out[p]) : out[p][k] = OutOf(Fixed, p, k)
    BY <1>1 DEF PartyOK
  <2>2. j \in 1 .. Len(out[p])
    <3>1. Len(out[p]) \in Nat /\ Len(out[p]) >= j /\ j \in Nat /\ j >= 1
      BY <1>1, <2>1
    <3> QED
      BY <3>1
  <2> QED
    BY <2>1, <2>2
<1>3. ASSUME NEW p \in Party
      PROVE  out[p][j][i][0] = Inv(sh[p][w]) /\ out[p][j][i][1] = Inv(sh[prevOf(p)][w])
  <2>1. OutOf(Fixed, p, j)[i] = [s \in {0, 1} |-> Inv(sh[IF s = 0 THEN p ELSE prevOf(p)][w])]
    BY <1>1 DEF OutOf
  <2> HIDE DEF Inv, sh, w
  <2>2. out[p][j][i] = [s \in {0, 1} |-> Inv(sh[IF s = 0 THEN p ELSE prevOf(p)][w])]
    BY <1>2, <2>1
  <2> HIDE DEF cir, o
  <2> QED
    BY <2>2
<1>4. sh \in Sharings(cir) /\ w \in Wires(cir)
  <2>1. Levels(Fixed, j) \in Nat /\ cir.outputs \in Seq([wire : Wires(cir), invert : BOOLEAN])
    BY <1>1, CircuitFacts
  <2>2. o \in [wire : Wires(cir), invert : BOOLEAN]
    <3> DEFINE R == [wire : Wires(cir), invert : BOOLEAN]
    <3>1. cir.outputs \in Seq(R)
      BY <2>1
    <3> HIDE DEF R
    <3> QED
      BY <3>1, LenProperties DEF R
  <2>3. \A x \in [wire : Wires(cir), invert : BOOLEAN] : x.wire \in Wires(cir)
    OBVIOUS
  <2> HIDE DEF o
  <2>4. w \in Wires(cir)
    BY <2>2, <2>3
  <2> QED
    BY <1>1, <2>1, <2>4, RunIs
<1>5. v = Opened(sh[0][w], sh[1][w], sh[2][w])
  <2>1. OpenedOf(cir, sh) = FoldLeft(PlainLevel, OpenedOf(cir, StartShares(Fixed, j)), cir.levels)
    BY <1>1, RunOpens
  <2>2. OpenedOf(cir, sh) = Plain(cir)
    BY <2>1, PlainInputIs DEF Plain
  <2>3. OpenedOf(cir, sh)[w] = Opened(sh[0][w], sh[1][w], sh[2][w])
    <3> HIDE DEF sh, w, cir
    <3> QED
      BY <1>4 DEF OpenedOf
  <2> QED
    BY <2>2, <2>3
<1>6. sh[0][w] \in Bit /\ sh[1][w] \in Bit /\ sh[2][w] \in Bit
  <2> HIDE DEF sh, w, cir
  <2>1. \A p \in Party : sh[p][w] \in Bit
    BY <1>4 DEF Sharings
  <2> QED
    BY <2>1, Parties
<1>7. \A a \in Bit : \A b \in Bit : \A c \in Bit : X(X(N(a), N(b)), N(c)) = N(X(X(a, b), c))
  BY DEF X, N, Bit
<1>8. \A p \in Party : out[p][j][i][1] = out[prevOf(p)][j][i][0]
  BY <1>3, Parties, ZenonT(60)
<1>9. X(X(out[0][j][i][0], out[1][j][i][0]), out[2][j][i][0]) = IF o.invert THEN N(v) ELSE v
  <2>1. /\ out[0][j][i][0] = Inv(sh[0][w]) /\ out[1][j][i][0] = Inv(sh[1][w])
        /\ out[2][j][i][0] = Inv(sh[2][w])
    BY <1>3, Parties
  <2> HIDE DEF v, w, sh
  <2> QED
    BY <1>5, <1>6, <1>7, <2>1 DEF Opened
<1> QED
  BY <1>8, <1>9

(* The invariant, without the values: of every party, how far it is and    *)
(* the shape of what it holds; of every message, the level it is meant     *)
(* for.                                                                    *)
THEOREM EvalInvariant == Spec => []EvalInv(FALSE)
<1>1. Init => EvalInv(FALSE)
  BY InitInv
<1>2. EvalInv(FALSE) /\ [Next]_vars => EvalInv(FALSE)'
  BY NextKeeps
<1> QED
  BY <1>1, <1>2, PTL DEF Spec

(* Type correctness, for every workload.                                   *)
THEOREM TypeOKHolds == Spec => []TypeOK
<1>1. EvalInv(FALSE) => TypeOK
  BY TypeHere
<1> QED
  BY <1>1, EvalInvariant, PTL

(* The n-th message that a party takes is the n-th one that its            *)
(* predecessor has sent, for the same level of the same circuit and of the *)
(* length that is waited for, however far apart the parties are and        *)
(* however late the I/O thread sends.                                      *)
THEOREM LevelsMatchHolds == Spec => []LevelsMatch
<1>1. EvalInv(FALSE) => LevelsMatch
  BY LevelsMatchHere
<1> QED
  BY <1>1, EvalInvariant, PTL

(* If every buffer given to asyncSend lives until it is sent, the outputs  *)
(* of the three parties are a sharing of what the circuit computes on the  *)
(* plain inputs: for every circuit, every sharing of the inputs, every     *)
(* streams and every interleaving.                                         *)
THEOREM OutputsIfBuffersOutlive == Spec /\ []BuffersOutliveSends => []OutputsCorrect
<1>1. Init => EvalInv(TRUE)
  BY InitInv
<1>2. EvalInv(TRUE) /\ BuffersOutliveSends /\ [Next]_vars => EvalInv(TRUE)'
  BY NextKeeps
<1>3. EvalInv(TRUE) => OutputsCorrect
  BY OutputsHere
<1> QED
  BY <1>1, <1>2, <1>3, PTL DEF Spec

-----------------------------------------------------------------------------
(* When the two send buffers are enough.                                   *)
(* Two buffers are enough for circuits of which no level sends from a      *)
(* buffer that a level before has sent from by reference (the last level   *)
(* of a circuit moves its buffer away), or for parties that send promptly. *)
Spaced(f) ==
  \A j, k \in 1 .. Len(f.program), x, y \in Nat :
    SendsAt(f, j, x) /\ SendsAt(f, k, y) /\ (j < k \/ (j = k /\ x < y)) /\ x % 2 = y % 2 => x = Levels(f, j) - 1
InTime(w) == w.prompt \/ Spaced([program |-> w.circuits])

HeldIn(memory, data) == Len(data) <= Len(memory) /\ \A i \in 1 .. Len(data) : memory[i] = data[i]
Lasting(f, buffers, s) ==
  s.moved \/ (s.buff = s.of[2] % 2 /\ s.of[2] # Levels(f, s.of[1]) - 1 /\ HeldIn(buffers[s.buff], s.data))
TimeInv ==
  /\ promptSends \/ Spaced(Fixed)
  /\ \A p \in Party : \A i \in 1 .. Len(sending[p]) : Lasting(Fixed, mSendBuffs[p], sending[p][i])

LEMMA TimeOutlives ==
  ASSUME NEW right, EvalInv(right), TimeInv
  PROVE  BuffersOutliveSends
<1> SUFFICES ASSUME NEW p \in Party, NEW i \in DOMAIN sending[p]
             PROVE  Contents(p, sending[p][i]) = sending[p][i].data
  BY DEF BuffersOutliveSends
<1> DEFINE s == sending[p][i]
           memory == mSendBuffs[p][s.buff]
           data == s.data
<1>1. sending[p] \in Seq(Sendings) /\ mSendBuffs[p] \in Buffers
  BY DEF EvalInv, ChannelOK, Channel, PartyOK
<1>2. i \in 1 .. Len(sending[p]) /\ s \in Sendings
  BY <1>1, LenProperties
<1>3. Lasting(Fixed, mSendBuffs[p], s)
  BY <1>2 DEF TimeInv
<1> HIDE DEF s
<1>4. data \in Seq(Bit) /\ s.buff \in {0, 1}
  BY <1>2 DEF Sendings
<1>5. CASE s.moved
  BY <1>5 DEF Contents, s
<1>6. CASE ~ s.moved
  <2>1. HeldIn(memory, data) /\ memory \in Seq(Bit)
    BY <1>1, <1>3, <1>4, <1>6 DEF Lasting, Buffers
  <2>2. Contents(p, s) = [k \in DOMAIN data |-> IF k \in DOMAIN memory THEN memory[k] ELSE 0]
    BY <1>6 DEF Contents
  <2> HIDE DEF memory, data
  <2>3. DOMAIN data = 1 .. Len(data) /\ Len(data) \in Nat /\ DOMAIN memory = 1 .. Len(memory) /\ Len(memory) \in Nat
    BY <1>4, <2>1, LenProperties
  <2>4. \A k \in DOMAIN data : k \in DOMAIN memory /\ memory[k] = data[k]
    <3>1. Len(data) <= Len(memory) /\ \A k \in 1 .. Len(data) : memory[k] = data[k]
      BY <2>1 DEF HeldIn
    <3> QED
      BY <2>3, <3>1
  <2>5. Contents(p, s) = [k \in DOMAIN data |-> data[k]]
    BY <2>2, <2>4
  <2>6. data = [k \in DOMAIN data |-> data[k]]
    BY <1>4
  <2> QED
    BY <2>5, <2>6 DEF data, s
<1> QED
  BY <1>5, <1>6

LEMMA SpacedIs ==
  ASSUME NEW f, NEW g, f.program = g.program, Spaced(f)
  PROVE  Spaced(g)
<1>1. \A j : Levels(g, j) = Levels(f, j)
  BY DEF Levels
<1>2. \A j, x : SendsAt(g, j, x) <=> SendsAt(f, j, x)
  BY DEF SendsAt, Levels, LocsAt, LevelAt
<1> QED
  BY <1>1, <1>2 DEF Spaced

LEMMA InitTime ==
  ASSUME Init, \A w \in Workloads : InTime(w)
  PROVE  TimeInv
<1>1. PICK w \in Workloads : program = w.circuits /\ promptSends = w.prompt
  BY DEF Init
<1>2. promptSends \/ Spaced(Fixed)
  <2> SUFFICES ASSUME ~ promptSends PROVE Spaced(Fixed)
    OBVIOUS
  <2> DEFINE f == [program |-> w.circuits]
  <2>1. Spaced(f)
    BY <1>1 DEF InTime
  <2>2. f.program = Fixed.program
    BY <1>1 DEF Fixed
  <2> HIDE DEF f
  <2> QED
    BY <2>1, <2>2, SpacedIs
<1>3. \A p \in Party : sending[p] = <<>>
  BY DEF Init
<1>4. \A p \in Party : Len(sending[p]) = 0
  BY <1>3
<1> QED
  BY <1>2, <1>4 DEF TimeInv

(* Steps that write no buffer and put nothing in a queue.                  *)
LEMMA TimeStill ==
  ASSUME NEW right, EvalInv(right), TimeInv, Fixed' = Fixed, promptSends' = promptSends, mSendBuffs' = mSendBuffs,
         \A p \in Party : sending'[p] = sending[p] \/ (sending[p] # <<>> /\ sending'[p] = Tail(sending[p]))
  PROVE  TimeInv'
<1>1. promptSends' \/ Spaced(Fixed')
  BY DEF TimeInv
<1> SUFFICES ASSUME NEW p \in Party, NEW i \in 1 .. Len(sending'[p])
             PROVE  Lasting(Fixed, mSendBuffs[p], sending'[p][i])
  BY <1>1 DEF TimeInv
<1>2. sending[p] \in Seq(Sendings) /\ \A k \in 1 .. Len(sending[p]) : Lasting(Fixed, mSendBuffs[p], sending[p][k])
  BY DEF EvalInv, ChannelOK, Channel, TimeInv
<1>3. CASE sending'[p] = sending[p]
  BY <1>2, <1>3
<1>4. CASE sending[p] # <<>> /\ sending'[p] = Tail(sending[p])
  <2>1. /\ Len(sending[p]) \in Nat /\ Len(sending'[p]) = Len(sending[p]) - 1
        /\ \A k \in 1 .. (Len(sending[p]) - 1) : sending'[p][k] = sending[p][k + 1]
    BY <1>2, <1>4, TailIs
  <2>2. i + 1 \in 1 .. Len(sending[p]) /\ sending'[p][i] = sending[p][i + 1]
    BY <2>1
  <2> QED
    BY <1>2, <2>2
<1> QED
  BY <1>3, <1>4

LEMMA AppendedIs ==
  ASSUME NEW A, NEW s, NEW t, s \in Seq(A), t \in Seq(A)
  PROVE  /\ Len(s \o t) = Len(s) + Len(t) /\ Len(s) \in Nat /\ Len(t) \in Nat
         /\ \A i \in 1 .. Len(s) : (s \o t)[i] = s[i]
  OBVIOUS

LEMMA FilledKeeps ==
  ASSUME NEW p, NEW data, mSendBuffs[p] \in Buffers, mLevel[p] \in Nat, data \in Seq(Bit)
  PROVE  /\ \A b \in {0, 1} : b # mLevel[p] % 2 => Filled(p, data)[b] = mSendBuffs[p][b]
         /\ data = <<>> => Filled(p, data) = mSendBuffs[p]
         /\ mLevel[p] # Len(Circuit(p).levels) - 1 => HeldIn(Filled(p, data)[mLevel[p] % 2], data)
<1> DEFINE b == BufferOf(mLevel[p])
           held == mSendBuffs[p][b]
           last == mLevel[p] = Len(Circuit(p).levels) - 1
           v == IF last /\ data # <<>> THEN <<>> ELSE data \o Rest(p, data)
<1>1. b \in {0, 1} /\ b = mLevel[p] % 2
  BY DEF BufferOf
<1>2. held \in Seq(Bit) /\ mSendBuffs[p] \in [{0, 1} -> Seq(Bit)]
  BY <1>1 DEF Buffers
<1>3. Filled(p, data) = [mSendBuffs[p] EXCEPT ![b] = v]
  BY DEF Filled
<1>4. Rest(p, data) = SubSeq(held, Len(data) + 1, Len(held))
  BY DEF Rest
<1> HIDE DEF b, held, last
<1>5. SubSeq(held, Len(data) + 1, Len(held)) \in Seq(Bit)
  <2> DEFINE k == Len(data) + 1
             n == Len(held)
  <2>1. k \in Nat /\ k >= 1 /\ n = Len(held)
    OBVIOUS
  <2> HIDE DEF k, n
  <2>2. SubSeq(held, k, n) \in Seq(Bit)
    BY <1>2, <2>1, RestIs
  <2> QED
    BY <2>2 DEF k, n
<1>6. Rest(p, data) \in Seq(Bit)
  BY <1>4, <1>5
<1>7. ASSUME data = <<>> PROVE v = held
  <2>1. Len(data) + 1 = 1
    BY <1>7
  <2>2. SubSeq(held, 1, Len(held)) = held
    BY <1>2
  <2>3. Rest(p, data) = held
    BY <1>4, <2>1, <2>2
  <2> QED
    BY <1>2, <1>7, <2>3
<1>8. ASSUME ~ last PROVE HeldIn(v, data)
  <2>1. v = data \o Rest(p, data)
    BY <1>8
  <2>2. Len(v) = Len(data) + Len(Rest(p, data)) /\ Len(data) \in Nat /\ Len(Rest(p, data)) \in Nat
        /\ \A i \in 1 .. Len(data) : v[i] = data[i]
    <3> DEFINE t == Rest(p, data)
    <3>1. data \in Seq(Bit) /\ t \in Seq(Bit) /\ v = data \o t
      BY <1>6, <2>1
    <3> HIDE DEF t, v
    <3>2. /\ Len(data \o t) = Len(data) + Len(t) /\ Len(data) \in Nat /\ Len(t) \in Nat
          /\ \A i \in 1 .. Len(data) : (data \o t)[i] = data[i]
      BY <3>1, AppendedIs
    <3> QED
      BY <3>1, <3>2 DEF t
  <2> HIDE DEF v
  <2> QED
    BY <2>2 DEF HeldIn
<1> HIDE DEF v
<1>9. \A c \in {0, 1} : Filled(p, data)[c] = IF c = b THEN v ELSE mSendBuffs[p][c]
  BY <1>1, <1>2, <1>3
<1>10. data = <<>> => Filled(p, data) = mSendBuffs[p]
  BY <1>1, <1>2, <1>3, <1>7 DEF held
<1> QED
  BY <1>1, <1>8, <1>9, <1>10 DEF last

LEMMA RoundTime ==
  ASSUME NEW right, NEW p, EvalInv(right), TimeInv, p \in Party, RoundCallback(p)
  PROVE  TimeInv'
<1> DEFINE r == AfterLevel(p)
           j == job[p]
           l == mLevel[p]
           n == Levels(Fixed, j)
<1> HIDE DEF r
<1>1. /\ Evaluating(p) /\ HasMoreRounds(p) /\ (Awaits(p) => arrived[p] # <<>>)
      /\ UNCHANGED fixed
      /\ \/ ~ (l < Len(Circuit(p).levels)) /\ mSendBuffs' = mSendBuffs /\ SendsNothing(p)
         \/ /\ l < Len(Circuit(p).levels) /\ mSendBuffs' = Updated(mSendBuffs, p, Filled(p, r.buff))
            /\ \/ r.buff = <<>> /\ SendsNothing(p)
               \/ r.buff # <<>> /\ (SendsNow(p, r.buff) \/ SendsLater(p, r.buff))
  BY RoundParts DEF r
<1>2. Fixed' = Fixed /\ promptSends' = promptSends
  BY <1>1, FixedKept
<1>3. LeftBy(Fixed, p, right, j, l, r)
  BY <1>1, LastLevelLeaves, LevelLeaves DEF r
<1>4. /\ FixedOK(Fixed) /\ OnParties(mSendBuffs) /\ OnParties(sending)
      /\ \A q \in Party : /\ Channel(Fixed, q, right, TakenNo(nextOf(q)), SentNo(q), arrived[nextOf(q)], sending[q])
                          /\ promptSends => sending[q] = <<>>
                          /\ mSendBuffs[q] \in Buffers
  BY DEF EvalInv, ChannelOK, PartyOK
<1>5. /\ promptSends \/ Spaced(Fixed)
      /\ \A q \in Party : \A i \in 1 .. Len(sending[q]) : Lasting(Fixed, mSendBuffs[q], sending[q][i])
  BY DEF TimeInv
<1>6. /\ j \in 1 .. Len(Fixed.program) /\ j # 0 /\ n \in Nat /\ n = Len(Circuit(p).levels) /\ l \in 0 .. n /\ l \in Nat
  <2>1. /\ j \in 1 .. Len(Fixed.program) /\ j # 0 /\ n \in Nat /\ n = Len(Circuit(p).levels) /\ l \in 0 .. n
    BY <1>1, InRound
  <2> QED
    BY <2>1
<1>7. r.buff \in Seq(Bit)
  BY <1>3 DEF LeftBy
<1> DEFINE b == Filled(p, r.buff)
<1>8. /\ \A c \in {0, 1} : c # l % 2 => b[c] = mSendBuffs[p][c]
      /\ r.buff = <<>> => b = mSendBuffs[p]
      /\ l # n - 1 => HeldIn(b[l % 2], r.buff)
  BY <1>4, <1>6, <1>7, FilledKeeps
<1> HIDE DEF b, n
<1>9. CASE mSendBuffs' = mSendBuffs /\ sending' = sending
  BY <1>2, <1>4, <1>9, TimeStill
<1>10. CASE mSendBuffs' = Updated(mSendBuffs, p, b) /\ r.buff = <<>> /\ sending' = sending
  <2>1. OnParties(mSendBuffs') /\ \A q \in Party : mSendBuffs'[q] = IF q = p THEN b ELSE mSendBuffs[q]
    BY <1>4, <1>10, UpdateIs
  <2>2. \A q \in Party : mSendBuffs'[q] = mSendBuffs[q]
    BY <1>8, <1>10, <2>1
  <2> QED
    BY <1>2, <1>5, <1>10, <2>2 DEF TimeInv
<1>11. CASE promptSends /\ sending' = sending
  <2>1. \A q \in Party : Len(sending'[q]) = 0
    BY <1>4, <1>11
  <2> QED
    BY <1>2, <1>5, <2>1 DEF TimeInv
<1>12. CASE /\ l < n /\ mSendBuffs' = Updated(mSendBuffs, p, b) /\ r.buff # <<>> /\ SendsLater(p, r.buff)
  <2> DEFINE item == Item(p, r.buff)
             new == Append(sending[p], item)
  <2>1. OnParties(mSendBuffs') /\ \A q \in Party : mSendBuffs'[q] = IF q = p THEN b ELSE mSendBuffs[q]
    BY <1>4, <1>12, UpdateIs
  <2>2. ~ promptSends /\ sending' = Updated(sending, p, new)
    BY <1>12 DEF SendsLater
  <2> HIDE DEF item, new
  <2>3. \A q \in Party : sending'[q] = IF q = p THEN new ELSE sending[q]
    BY <1>4, <2>2, UpdateIs
  <2>4. Spaced(Fixed)
    BY <1>5, <2>2
  <2>5. SendsAt(Fixed, j, l) /\ item \in Sendings
    BY <1>1, <1>3, <1>12, ItemMeant DEF item, n
  <2>6. /\ sending[p] \in Seq(Sendings) /\ Len(new) = Len(sending[p]) + 1 /\ Len(sending[p]) \in Nat
        /\ \A i \in 1 .. (Len(sending[p]) + 1) : new[i] = IF i = Len(sending[p]) + 1 THEN item ELSE sending[p][i]
    <3>1. sending[p] \in Seq(Sendings)
      BY <1>4 DEF Channel
    <3> QED
      BY <2>5, <3>1, AppendIs DEF new
  <2>7. Lasting(Fixed, b, item)
    <3>1. /\ item.moved <=> l = n - 1
          /\ item.buff = l % 2 /\ item.data = r.buff /\ item.of = <<j, l>>
      BY <1>6 DEF item, Item, BufferOf
    <3>2. item.of[2] = l /\ item.of[1] = j
      BY <3>1
    <3> HIDE DEF item, j, l
    <3> QED
      BY <1>8, <3>1, <3>2 DEF Lasting, n
  <2>8. ASSUME NEW i \in 1 .. Len(sending[p]) PROVE Lasting(Fixed, b, sending[p][i])
    <3> DEFINE s == sending[p][i]
               k == s.of[1]
               x == s.of[2]
               at == TakenNo(nextOf(p)) + Len(arrived[nextOf(p)]) + i - 1
    <3>1. Meant(Fixed, p, right, s, at) /\ s \in Sendings /\ at < SentNo(p)
      <4>1. /\ TakenNo(nextOf(p)) \in Nat /\ arrived[nextOf(p)] \in Seq(Messages) /\ sending[p] \in Seq(Sendings)
            /\ TakenNo(nextOf(p)) + Len(arrived[nextOf(p)]) + Len(sending[p]) = SentNo(p)
            /\ \A h \in 1 .. Len(sending[p]) :
                 Meant(Fixed, p, right, sending[p][h], TakenNo(nextOf(p)) + Len(arrived[nextOf(p)]) + h - 1)
        BY <1>4 DEF Channel
      <4>2. Len(arrived[nextOf(p)]) \in Nat /\ Len(sending[p]) \in Nat
        BY <4>1
      <4>3. at < SentNo(p)
        BY <4>1, <4>2
      <4> QED
        BY <4>1, <4>3
    <3>2. Lasting(Fixed, mSendBuffs[p], s)
      BY <1>5
    <3> HIDE DEF s
    <3>3. SendsAt(Fixed, k, x) /\ MsgNo(Fixed, k, x) < MsgNo(Fixed, j, l) /\ s.buff \in {0, 1}
          /\ k \in 1 .. Len(Fixed.program)
      <4>1. SentNo(p) = MsgNo(Fixed, j, l)
        BY <1>6 DEF SentNo, PosNo
      <4> HIDE DEF at
      <4> QED
        BY <3>1, <4>1 DEF Meant, Sendings, SendsAt
    <3>4. x \in Nat /\ k \in Nat
      <4>1. s.of \in Nat \X Nat
        BY <3>1 DEF Sendings
      <4> QED
        BY <4>1
    <3> HIDE DEF k, x
    <3>5. k < j \/ (k = j /\ x < l)
      <4>1. l \in 0 .. Levels(Fixed, j)
        BY <1>6 DEF n
      <4> QED
        BY <1>4, <1>6, <3>3, <4>1, NumbersOrdered
    <3>6. CASE s.moved
      BY <3>6 DEF Lasting, s
    <3>7. CASE ~ s.moved
      <4>1. s.buff = x % 2 /\ x # Levels(Fixed, k) - 1 /\ HeldIn(mSendBuffs[p][s.buff], s.data)
        BY <3>2, <3>7 DEF Lasting, k, x
      <4>2. x % 2 # l % 2
        BY <1>6, <2>4, <2>5, <3>3, <3>4, <3>5, <4>1 DEF Spaced
      <4>3. b[s.buff] = mSendBuffs[p][s.buff]
        BY <1>8, <3>3, <4>1, <4>2
      <4> QED
        BY <4>1, <4>3 DEF Lasting, k, x, s
    <3> QED
      BY <3>6, <3>7 DEF s
  <2>9. ASSUME NEW q \in Party, NEW i \in 1 .. Len(sending'[q])
        PROVE  Lasting(Fixed', mSendBuffs'[q], sending'[q][i])
    <3>1. CASE q # p
      BY <1>2, <1>5, <2>1, <2>3, <3>1
    <3>2. CASE q = p
      <4>1. i \in 1 .. (Len(sending[p]) + 1) /\ sending'[q][i] = new[i] /\ mSendBuffs'[q] = b
        BY <2>1, <2>3, <2>6, <3>2
      <4>2. CASE i = Len(sending[p]) + 1
        BY <1>2, <2>6, <2>7, <4>1, <4>2
      <4>3. CASE i # Len(sending[p]) + 1
        <5>1. i \in 1 .. Len(sending[p])
          BY <2>6, <4>1, <4>3
        <5> QED
          BY <1>2, <2>6, <2>8, <4>1, <4>3, <5>1
      <4> QED
        BY <4>2, <4>3
    <3> QED
      BY <3>1, <3>2
  <2> QED
    BY <1>2, <1>5, <2>9 DEF TimeInv
<1> QED
  BY <1>1, <1>6, <1>9, <1>10, <1>11, <1>12 DEF b, SendsNothing, SendsNow

LEMMA TimeKept ==
  ASSUME NEW right, EvalInv(right), TimeInv, [Next]_vars
  PROVE  TimeInv'
<1>1. ASSUME NEW p \in Party, RoundCallback(p) PROVE TimeInv'
  BY <1>1, RoundTime
<1>2. ASSUME NEW p \in Party, SetUp(p) \/ GetOutput(p) \/ UNCHANGED vars PROVE TimeInv'
  <2>1. UNCHANGED fixed /\ mSendBuffs' = mSendBuffs /\ sending' = sending
    BY <1>2 DEF SetUp, GetOutput, vars, local
  <2> QED
    BY <2>1, FixedKept, TimeStill
<1>3. ASSUME NEW p \in Party, Transmit(p) PROVE TimeInv'
  <2>1. UNCHANGED fixed /\ mSendBuffs' = mSendBuffs /\ sending[p] # <<>>
        /\ sending' = Updated(sending, p, Tail(sending[p]))
    BY <1>3 DEF Transmit, local, Updated
  <2>2. \A q \in Party : sending'[q] = IF q = p THEN Tail(sending[p]) ELSE sending[q]
    <3> DEFINE t == Tail(sending[p])
    <3>1. sending' = Updated(sending, p, t) /\ OnParties(sending)
      BY <2>1 DEF EvalInv
    <3> HIDE DEF t
    <3>2. \A q \in Party : sending'[q] = IF q = p THEN t ELSE sending[q]
      BY <3>1, UpdateIs
    <3> QED
      BY <3>2 DEF t
  <2>3. \A q \in Party : sending'[q] = sending[q] \/ (sending[q] # <<>> /\ sending'[q] = Tail(sending[q]))
    BY <2>1, <2>2
  <2> QED
    BY <2>1, <2>3, FixedKept, TimeStill
<1>4. 0 \in Party
  BY Parties
<1> QED
  BY <1>1, <1>2, <1>3, <1>4 DEF Next

(* Two send buffers in turn outlive their sends when no level sends from a *)
(* buffer that an earlier level has sent from by reference.  (Run          *)
(* binary_send_buffer has a circuit of three levels that is not so.)       *)
THEOREM BuffersSuffice == (\A w \in Workloads : InTime(w)) => (Spec => []BuffersOutliveSends)
<1> DEFINE I == EvalInv(TRUE) /\ TimeInv
<1>1. (\A w \in Workloads : InTime(w)) /\ Init => I
  BY InitInv, InitTime
<1>2. I => BuffersOutliveSends
  BY TimeOutlives
<1>3. I /\ [Next]_vars => I'
  <2> SUFFICES ASSUME I, [Next]_vars PROVE I'
    OBVIOUS
  <2>1. EvalInv(TRUE)'
    BY <1>2, NextKeeps
  <2>2. TimeInv'
    BY TimeKept
  <2> QED
    BY <2>1, <2>2
<1> HIDE DEF I
<1> QED
  BY <1>1, <1>2, <1>3, PTL DEF Spec

(* So the outputs of these circuits are correct, without an assumption on  *)
(* when the I/O thread sends.                                              *)
THEOREM OutputsCorrectHolds == (\A w \in Workloads : InTime(w)) => (Spec => []OutputsCorrect)
  BY BuffersSuffice, OutputsIfBuffersOutlive, PTL
=============================================================================
