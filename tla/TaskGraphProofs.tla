-------------------------- MODULE TaskGraphProofs --------------------------
(* Theorems about TaskGraph, for every number of tasks.                    *)
EXTENDS TaskGraph, TLAPS, WellFoundedInduction

(* Every step keeps the types.                                             *)
LEMMA TypeStep == TypeOK /\ [Next]_vars => TypeOK'
<1> USE MaxTaskAssumption
<1> SUFFICES ASSUME TypeOK, [Next]_vars PROVE TypeOK'
  OBVIOUS
<1> USE DEF TypeOK, Idx, Issued
<1>1. ASSUME NEW t \in Types, NEW deps \in SUBSET Issued, AddTask(t, deps) PROVE TypeOK'
  <2>1. mTaskIdx \in Idx /\ deps \subseteq Idx /\ mTaskIdx' = mTaskIdx + 1 /\ mTaskIdx' \in 0 .. MaxTask
    BY <1>1 DEF AddTask, NextIdx
  <2>2. Issued \subseteq Issued' /\ mTaskIdx \in Issued'
    BY <2>1
  <2> QED BY <1>1, <2>1, <2>2 DEF AddTask, NextIdx
<1>2. ASSUME NEW deps \in SUBSET Issued, AddClosure(deps) PROVE TypeOK'
  <2>1. mTaskIdx \in Idx /\ deps \subseteq Idx /\ mTaskIdx' = mTaskIdx + 1 /\ mTaskIdx' \in 0 .. MaxTask
    BY <1>2 DEF AddClosure, NextIdx
  <2>2. Issued \subseteq Issued' /\ mTaskIdx \in Issued'
    BY <2>1
  <2> QED BY <1>2, <2>1, <2>2 DEF AddClosure, NextIdx, Types
<1>3. CASE CurrentTask
  BY <1>3 DEF CurrentTask
<1>4. ASSUME NEW i \in mReady, PopTask(i) PROVE TypeOK'
  <2> DEFINE R == Removed(i)
  <2>1. /\ mTaskIdx' = mTaskIdx /\ closures' = closures /\ mType' = mType
        /\ upAtBirth' = upAtBirth /\ live' = live \ R
    BY <1>4 DEF PopTask, Released, TakenOver
  <2>2. mUpstream' \in [Idx -> SUBSET Idx]
    <3> SUFFICES ASSUME NEW x \in Idx
                 PROVE  (mUpstream[x] \ R) \cup
                         (IF x \in closures THEN UNION {mDownstream[u] : u \in R \cap mUpstream[x]}
                                            ELSE {}) \subseteq Idx
      BY <1>4 DEF PopTask, Released, TakenOver
    <3>1. \A u \in mUpstream[x] : mDownstream[u] \subseteq Idx
      OBVIOUS
    <3> QED BY <3>1
  <2>3. mDownstream' \in [Idx -> SUBSET Idx]
    BY <1>4 DEF PopTask, Released, TakenOver
  <2>4. mClosures' \in [Idx -> SUBSET Idx]
    <3> SUFFICES ASSUME NEW x \in Idx
                 PROVE  mClosures[x] \cup UNION {mClosures[u] : u \in {r \in R : x \in mDownstream[r]}}
                          \subseteq Idx
      BY <1>4 DEF PopTask, Released, TakenOver
    <3>1. R \subseteq Idx
      <4>1. live \subseteq Idx /\ i \in Idx
        BY DEF Types
      <4> QED BY <4>1 DEF Removed, Cascade
    <3>2. \A u \in R : mClosures[u] \subseteq Idx
      BY <3>1
    <3> QED BY <3>2
  <2>5. mReady' \subseteq Issued /\ mNextRound' \subseteq Issued
    BY <1>4 DEF PopTask, Released, TakenOver
  <2>6. acyclic' \in BOOLEAN
    BY <1>4, Zenon DEF PopTask
  <2> QED BY <2>1, <2>2, <2>3, <2>4, <2>5, <2>6, Zenon
<1>5. CASE UNCHANGED vars
  BY <1>5 DEF vars
<1> QED BY <1>1, <1>2, <1>3, <1>4, <1>5 DEF Next

(* Indices, edges and queues only ever hold issued tasks.   *)
THEOREM TypeCorrect == Spec => []TypeOK
<1>1. Init => TypeOK
  BY MaxTaskAssumption DEF Init, TypeOK, Idx, Issued, Types, Nothing
<1> QED BY <1>1, TypeStep, PTL DEF Spec

-----------------------------------------------------------------------------
(* Reach(c) is the least set that ReachClosed describes.                   *)
LEMMA ReachIsClosed ==
  ASSUME TypeOK, NEW c \in Idx
  PROVE  ReachClosed(c, Reach(c))
<1> USE MaxTaskAssumption DEF TypeOK, Idx, Issued
<1>1. upAtBirth[c] \subseteq Reach(c)
  BY DEF Reach, ReachClosed
<1>2. ASSUME NEW y \in Tasks, upAtBirth[y] \cap Reach(c) # {} PROVE y \in Reach(c)
  BY <1>2 DEF Reach, ReachClosed, Tasks
<1> QED BY <1>1, <1>2 DEF ReachClosed

(* No smaller set is closed.                                               *)
LEMMA ReachIsLeast ==
  ASSUME NEW c \in Idx, NEW S \in SUBSET Idx, ReachClosed(c, S)
  PROVE  Reach(c) \subseteq S
BY DEF Reach

(* Cascade(i) is closed, and every closure in it has been emptied: it is a *)
(* fixpoint of the recursion in removeTask.                                *)
LEMMA CascadeIsClosed == \A i : CascadeClosed(i, Cascade(i))
<1> SUFFICES ASSUME NEW i, NEW c \in live \cap closures, Emptied(c, Removed(i)),
                    NEW S \in SUBSET (live \cap closures), CascadeClosed(i, S)
             PROVE  c \in S
  BY DEF CascadeClosed, Cascade, Removed
<1>1. Cascade(i) \subseteq S
  BY DEF Cascade
<1>2. Emptied(c, {i} \cup S)
  BY <1>1 DEF Emptied, Removed
<1> QED BY <1>2 DEF CascadeClosed

(* And nothing is in it that has something left to wait for.               *)
LEMMA CascadeIsEmptied ==
  \A i : \A c \in Cascade(i) : Emptied(c, Removed(i))
<1> SUFFICES ASSUME NEW i PROVE \A c \in Cascade(i) : Emptied(c, Removed(i))
  OBVIOUS
<1> DEFINE S == {c \in live \cap closures : Emptied(c, Removed(i))}
<1>1. S \subseteq Cascade(i)
  BY CascadeIsClosed DEF CascadeClosed, Removed
<1>2. CascadeClosed(i, S)
  BY <1>1 DEF CascadeClosed, Emptied, Removed
<1>3. Cascade(i) \subseteq S
  BY <1>2 DEF Cascade
<1> QED BY <1>3

-----------------------------------------------------------------------------
(* The part of the invariant that needs no knowledge of closures' reach.   *)
GraphInv == TypeOK /\ EdgesAgree /\ NothingLost /\ HistoryKept

(* The index that is issued next appears nowhere yet.                      *)
LEMMA NextIndexIsFresh ==
  ASSUME GraphInv, mTaskIdx < MaxTask
  PROVE  /\ mTaskIdx \in Idx /\ mTaskIdx \notin Issued
         /\ mTaskIdx' = mTaskIdx + 1 => Issued' = Issued \cup {mTaskIdx}
         /\ Issued \subseteq Idx /\ live \subseteq Idx
         /\ mTaskIdx \notin live /\ mTaskIdx \notin closures
         /\ mUpstream[mTaskIdx] = {} /\ upAtBirth[mTaskIdx] = {}
         /\ \A u \in Idx : mTaskIdx \notin mDownstream[u] /\ mTaskIdx \notin mClosures[u]
         /\ \A x \in Idx : mTaskIdx \notin mUpstream[x] /\ mTaskIdx \notin upAtBirth[x]
<1> USE MaxTaskAssumption DEF GraphInv
<1>1. /\ mTaskIdx \in Idx /\ mTaskIdx \notin Issued
      /\ mTaskIdx' = mTaskIdx + 1 => Issued' = Issued \cup {mTaskIdx}
      /\ Issued \subseteq Idx
  BY DEF TypeOK, Idx, Issued
<1>2. live \subseteq Issued /\ closures \subseteq Issued
  BY DEF TypeOK
<1>3. mUpstream[mTaskIdx] = {}
  <2>1. mUpstream[mTaskIdx] \subseteq Idx
    BY <1>1 DEF TypeOK
  <2> QED BY <1>1, <1>2, <2>1 DEF EdgesAgree
<1>4. upAtBirth[mTaskIdx] = {}
  BY <1>1 DEF HistoryKept
<1>5. ASSUME NEW u \in Idx PROVE mTaskIdx \notin mDownstream[u] /\ mTaskIdx \notin mClosures[u]
  BY <1>1, <1>3 DEF EdgesAgree
<1>6. ASSUME NEW x \in Idx PROVE mTaskIdx \notin mUpstream[x] /\ mTaskIdx \notin upAtBirth[x]
  BY <1>1, <1>2 DEF EdgesAgree, HistoryKept
<1> QED BY <1>1, <1>2, <1>3, <1>4, <1>5, <1>6

(* addTask keeps the graph whole.                                          *)
LEMMA AddTaskKeepsGraph ==
  ASSUME GraphInv, TypeOK', NEW t \in Types, NEW deps \in SUBSET Issued, AddTask(t, deps)
  PROVE  GraphInv'
<1> DEFINE n == mTaskIdx
           up == deps \cap live
<1>1. /\ n \in Idx /\ n \notin Issued /\ Issued' = Issued \cup {n}
      /\ Issued \subseteq Idx /\ live \subseteq Idx /\ n \notin live /\ n \notin closures
      /\ mUpstream[n] = {} /\ upAtBirth[n] = {}
      /\ \A u \in Idx : n \notin mDownstream[u] /\ n \notin mClosures[u]
      /\ \A x \in Idx : n \notin mUpstream[x] /\ n \notin upAtBirth[x]
  BY NextIndexIsFresh DEF AddTask, NextIdx
<1>2. /\ live' = live \cup {n} /\ closures' = closures /\ mClosures' = mClosures
      /\ mUpstream' = [mUpstream EXCEPT ![n] = up]
      /\ \A d \in Idx : mDownstream'[d] = IF d \in up THEN mDownstream[d] \cup {n} ELSE mDownstream[d]
      /\ mReady' = IF up = {} THEN mReady \cup {n} ELSE mReady
      /\ mNextRound' = mNextRound
      /\ upAtBirth' = [upAtBirth EXCEPT ![n] = up]
  BY DEF AddTask, NextIdx
<1>3. /\ mUpstream'[n] = up /\ upAtBirth'[n] = up
      /\ \A x \in Idx \ {n} : mUpstream'[x] = mUpstream[x] /\ upAtBirth'[x] = upAtBirth[x]
  BY <1>1, <1>2 DEF GraphInv, TypeOK
<1>4. EdgesAgree'
  <2>1. ASSUME NEW u \in Idx, NEW x \in Idx
        PROVE  /\ x \in mDownstream'[u] <=> x \notin closures /\ u \in mUpstream'[x]
               /\ x \in mClosures'[u] <=> x \in closures /\ u \in mUpstream'[x]
               /\ u \in mUpstream'[x] => u \in live' /\ x \in live'
    <3>1. CASE x = n
      BY <3>1, <1>1, <1>2, <1>3
    <3>2. CASE x # n
      <4>1. /\ x \in mDownstream[u] <=> x \notin closures /\ u \in mUpstream[x]
            /\ x \in mClosures[u] <=> x \in closures /\ u \in mUpstream[x]
            /\ u \in mUpstream[x] => u \in live /\ x \in live
        BY DEF GraphInv, EdgesAgree
      <4>2. mUpstream'[x] = mUpstream[x]
        BY <3>2, <1>3
      <4>3. x \in mDownstream'[u] <=> x \in mDownstream[u]
        BY <3>2, <1>2
      <4>4. x \in mClosures'[u] <=> x \in mClosures[u]
        BY <3>2, <1>2
      <4>5. (x \in closures' <=> x \in closures) /\ live \subseteq live'
        BY <3>2, <1>2
      <4> QED BY <4>1, <4>2, <4>3, <4>4, <4>5
    <3> QED BY <3>1, <3>2
  <2>2. ASSUME NEW x \in live' \ closures PROVE mUpstream'[x] = upAtBirth'[x] \cap live'
    BY <1>1, <1>2, <1>3 DEF GraphInv, EdgesAgree
  <2> QED BY <2>1, <2>2, <1>2 DEF EdgesAgree
<1>5. NothingLost'
  <2>1. n \notin mReady /\ n \notin mNextRound
    BY <1>1 DEF GraphInv, NothingLost
  <2> QED BY <2>1, <1>1, <1>2, <1>3 DEF GraphInv, NothingLost
<1>6. HistoryKept'
  <2>1. \A x \in Idx : upAtBirth'[x] \subseteq (0 .. (x - 1)) \cap Issued'
    <3>1. up \subseteq 0 .. (n - 1)
      BY DEF Issued
    <3> QED BY <3>1, <1>1, <1>3 DEF GraphInv, HistoryKept
  <2>2. \A x \in live' : upAtBirth'[x] \cap live' \subseteq mUpstream'[x]
    BY <1>1, <1>2, <1>3 DEF GraphInv, HistoryKept
  <2>3. \A x \in Issued' \ live' : upAtBirth'[x] \cap live' = {}
    BY <1>1, <1>2, <1>3 DEF GraphInv, HistoryKept, Completed
  <2>4. \A x \in Idx \ Issued' : upAtBirth'[x] = {}
    BY <1>1, <1>3 DEF GraphInv, HistoryKept
  <2> QED BY <2>1, <2>2, <2>3, <2>4 DEF HistoryKept, Completed
<1> QED BY <1>4, <1>5, <1>6 DEF GraphInv

(* addClosure keeps the graph whole.                                       *)
LEMMA AddClosureKeepsGraph ==
  ASSUME GraphInv, TypeOK', NEW deps \in SUBSET Issued, AddClosure(deps)
  PROVE  GraphInv'
<1> DEFINE n == mTaskIdx
           up == deps \cap live
<1>1. /\ n \in Idx /\ n \notin Issued /\ Issued' = Issued \cup {n}
      /\ Issued \subseteq Idx /\ live \subseteq Idx /\ n \notin live /\ n \notin closures
      /\ mUpstream[n] = {} /\ upAtBirth[n] = {}
      /\ \A u \in Idx : n \notin mDownstream[u] /\ n \notin mClosures[u]
      /\ \A x \in Idx : n \notin mUpstream[x] /\ n \notin upAtBirth[x]
  BY NextIndexIsFresh DEF AddClosure, NextIdx
<1>2. /\ live' = IF up = {} THEN live ELSE live \cup {n}
      /\ closures' = closures \cup {n} /\ mDownstream' = mDownstream
      /\ mUpstream' = [mUpstream EXCEPT ![n] = up]
      /\ \A d \in Idx : mClosures'[d] = IF d \in up THEN mClosures[d] \cup {n} ELSE mClosures[d]
      /\ mReady' = mReady /\ mNextRound' = mNextRound
      /\ upAtBirth' = [upAtBirth EXCEPT ![n] = up]
  BY DEF AddClosure, NextIdx
<1>3. /\ mUpstream'[n] = up /\ upAtBirth'[n] = up
      /\ \A x \in Idx \ {n} : mUpstream'[x] = mUpstream[x] /\ upAtBirth'[x] = upAtBirth[x]
  BY <1>1, <1>2 DEF GraphInv, TypeOK
<1>4. EdgesAgree'
  <2>1. ASSUME NEW u \in Idx, NEW x \in Idx
        PROVE  /\ x \in mDownstream'[u] <=> x \notin closures' /\ u \in mUpstream'[x]
               /\ x \in mClosures'[u] <=> x \in closures' /\ u \in mUpstream'[x]
               /\ u \in mUpstream'[x] => u \in live' /\ x \in live'
    <3>1. CASE x = n
      BY <3>1, <1>1, <1>2, <1>3
    <3>2. CASE x # n
      <4>1. /\ x \in mDownstream[u] <=> x \notin closures /\ u \in mUpstream[x]
            /\ x \in mClosures[u] <=> x \in closures /\ u \in mUpstream[x]
            /\ u \in mUpstream[x] => u \in live /\ x \in live
        BY DEF GraphInv, EdgesAgree
      <4>2. mUpstream'[x] = mUpstream[x]
        BY <3>2, <1>3
      <4>3. x \in mDownstream'[u] <=> x \in mDownstream[u]
        BY <3>2, <1>2
      <4>4. x \in mClosures'[u] <=> x \in mClosures[u]
        BY <3>2, <1>2
      <4>5. (x \in closures' <=> x \in closures) /\ live \subseteq live'
        BY <3>2, <1>2
      <4> QED BY <4>1, <4>2, <4>3, <4>4, <4>5
    <3> QED BY <3>1, <3>2
  <2>2. ASSUME NEW x \in live' \ closures' PROVE mUpstream'[x] = upAtBirth'[x] \cap live'
    BY <1>1, <1>2, <1>3 DEF GraphInv, EdgesAgree, HistoryKept
  <2> QED BY <2>1, <2>2 DEF EdgesAgree
<1>5. NothingLost'
  BY <1>1, <1>2, <1>3 DEF GraphInv, NothingLost
<1>6. HistoryKept'
  <2>1. \A x \in Idx : upAtBirth'[x] \subseteq (0 .. (x - 1)) \cap Issued'
    <3>1. up \subseteq 0 .. (n - 1)
      BY DEF Issued
    <3> QED BY <3>1, <1>1, <1>3 DEF GraphInv, HistoryKept
  <2>2. \A x \in live' : upAtBirth'[x] \cap live' \subseteq mUpstream'[x]
    BY <1>1, <1>2, <1>3 DEF GraphInv, HistoryKept
  <2>3. \A x \in Issued' \ live' : upAtBirth'[x] \cap live' = {}
    BY <1>1, <1>2, <1>3 DEF GraphInv, HistoryKept, Completed
  <2>4. \A x \in Idx \ Issued' : upAtBirth'[x] = {}
    BY <1>1, <1>3 DEF GraphInv, HistoryKept
  <2> QED BY <2>1, <2>2, <2>3, <2>4 DEF HistoryKept, Completed
<1> QED BY <1>4, <1>5, <1>6 DEF GraphInv

(* What popTask removes: the front task, and closures that have nothing    *)
(* left to wait for and nothing to wait for instead.                       *)
LEMMA RemovedFacts ==
  ASSUME GraphInv, NEW i \in mReady
  PROVE  /\ i \in Idx /\ i \in live /\ i \notin closures /\ mUpstream[i] = {}
         /\ i \in Removed(i) /\ Removed(i) \subseteq live
         /\ \A r \in Removed(i) : r # i => r \in closures
         /\ \A c \in Removed(i) \cap closures : Emptied(c, Removed(i))
         /\ \A c \in (live \cap closures) \ Removed(i) : ~ Emptied(c, Removed(i))
         /\ \A u \in Idx : mDownstream[u] \cap Removed(i) = {}
         /\ \A c \in Removed(i) : \A u \in mUpstream[c] : u \in Removed(i) /\ mDownstream[u] = {}
<1> USE MaxTaskAssumption
<1>1. i \in Idx /\ i \in live /\ i \notin closures /\ mUpstream[i] = {}
  BY DEF GraphInv, NothingLost, TypeOK, Issued, Idx
<1>2. i \in Removed(i) /\ Removed(i) \subseteq live
      /\ \A r \in Removed(i) : r # i => r \in closures
  BY <1>1 DEF Removed, Cascade
<1>3. \A c \in Removed(i) \cap closures : Emptied(c, Removed(i))
  BY <1>1, CascadeIsEmptied DEF Removed
<1>4. \A c \in (live \cap closures) \ Removed(i) : ~ Emptied(c, Removed(i))
  BY CascadeIsClosed DEF CascadeClosed, Removed
<1>5. ASSUME NEW u \in Idx, NEW d \in mDownstream[u], d \in Removed(i) PROVE FALSE
  <2>1. d \in Idx
    BY DEF GraphInv, TypeOK
  <2>2. d \notin closures /\ u \in mUpstream[d]
    BY <2>1 DEF GraphInv, EdgesAgree
  <2> QED BY <1>1, <1>2, <1>5, <2>2
<1>6. \A c \in Removed(i) : \A u \in mUpstream[c] : u \in Removed(i) /\ mDownstream[u] = {}
  BY <1>1, <1>2, <1>3 DEF Emptied
<1> QED BY <1>1, <1>2, <1>3, <1>4, <1>5, <1>6

(* What popTask writes, task by task.                                      *)
LEMMA PopTaskWrites ==
  ASSUME GraphInv, NEW i \in mReady, PopTask(i)
  PROVE  /\ closures' = closures /\ mTaskIdx' = mTaskIdx /\ upAtBirth' = upAtBirth
         /\ mType' = mType /\ live' = live \ Removed(i)
         /\ \A x \in Removed(i) : x \in Idx => mUpstream'[x] = {} /\ mDownstream'[x] = {} /\ mClosures'[x] = {}
         /\ \A x \in Idx \ Removed(i) : x \notin closures => mUpstream'[x] = mUpstream[x] \ Removed(i)
         /\ \A x \in Idx \ Removed(i), u \in Idx :
              x \in closures => (u \in mUpstream'[x] <=>
                 \/ u \in mUpstream[x] /\ u \notin Removed(i)
                 \/ \E r \in Removed(i) : r \in mUpstream[x] /\ u \in mDownstream[r])
         /\ \A x \in Idx \ Removed(i) : mDownstream'[x] = mDownstream[x]
         /\ \A x \in Idx \ Removed(i), c \in Idx :
              c \in mClosures'[x] <=>
                 \/ c \in mClosures[x]
                 \/ \E r \in Removed(i) : x \in mDownstream[r] /\ c \in mClosures[r]
BY DEF PopTask, Released, TakenOver

(* popTask keeps the graph whole.                                          *)
LEMMA PopTaskKeepsGraph ==
  ASSUME GraphInv, TypeOK', NEW i \in mReady, PopTask(i)
  PROVE  GraphInv'
<1> DEFINE R == Removed(i)
<1> HIDE DEF R
<1>1. /\ i \in Idx /\ i \in live /\ i \notin closures /\ mUpstream[i] = {}
      /\ i \in R /\ R \subseteq live
      /\ \A r \in R : r # i => r \in closures
      /\ \A c \in R \cap closures : Emptied(c, R)
      /\ \A c \in (live \cap closures) \ R : ~ Emptied(c, R)
      /\ \A u \in Idx : mDownstream[u] \cap R = {}
      /\ \A c \in R : \A u \in mUpstream[c] : u \in R /\ mDownstream[u] = {}
  BY RemovedFacts DEF R
<1>2. /\ closures' = closures /\ mTaskIdx' = mTaskIdx /\ upAtBirth' = upAtBirth
      /\ mType' = mType /\ live' = live \ R
      /\ \A x \in R : x \in Idx => mUpstream'[x] = {} /\ mDownstream'[x] = {} /\ mClosures'[x] = {}
      /\ \A x \in Idx \ R : x \notin closures => mUpstream'[x] = mUpstream[x] \ R
      /\ \A x \in Idx \ R, u \in Idx :
           x \in closures => (u \in mUpstream'[x] <=>
              \/ u \in mUpstream[x] /\ u \notin R
              \/ \E r \in R : r \in mUpstream[x] /\ u \in mDownstream[r])
      /\ \A x \in Idx \ R : mDownstream'[x] = mDownstream[x]
      /\ \A x \in Idx \ R, c \in Idx :
           c \in mClosures'[x] <=>
              \/ c \in mClosures[x]
              \/ \E r \in R : x \in mDownstream[r] /\ c \in mClosures[r]
  BY PopTaskWrites DEF R
<1>3. live \subseteq Idx
  BY MaxTaskAssumption DEF GraphInv, TypeOK, Issued, Idx
<1>4. \A u, x \in Idx :
        /\ x \in mDownstream[u] <=> x \notin closures /\ u \in mUpstream[x]
        /\ x \in mClosures[u] <=> x \in closures /\ u \in mUpstream[x]
        /\ u \in mUpstream[x] => u \in live /\ x \in live
  BY DEF GraphInv, EdgesAgree
<1>5. EdgesAgree'
  <2>1. ASSUME NEW u \in Idx, NEW x \in Idx
        PROVE  /\ x \in mDownstream'[u] <=> x \notin closures /\ u \in mUpstream'[x]
               /\ x \in mClosures'[u] <=> x \in closures /\ u \in mUpstream'[x]
               /\ u \in mUpstream'[x] => u \in live' /\ x \in live'
    <3>1. CASE x \in R
      <4>1. mUpstream'[x] = {}
        BY <3>1, <1>2
      <4>2. x \notin mDownstream'[u]
        BY <3>1, <1>1, <1>2
      <4>3. x \notin mClosures'[u]
        <5>1. CASE u \in R
          BY <5>1, <1>2
        <5>2. CASE u \notin R
          <6>1. x \notin mClosures[u]
            BY <5>2, <3>1, <1>1, <1>4
          <6>2. \A r \in R : x \in mClosures[r] => mDownstream[r] = {}
            BY <3>1, <1>1, <1>3, <1>4
          <6> QED BY <6>1, <6>2, <5>2, <1>2
        <5> QED BY <5>1, <5>2
      <4> QED BY <4>1, <4>2, <4>3
    <3>2. CASE x \notin R /\ u \in R
      <4>1. mDownstream'[u] = {} /\ mClosures'[u] = {}
        BY <3>2, <1>2
      <4>2. u \notin mUpstream'[x]
        BY <3>2, <1>1, <1>2, <1>3
      <4> QED BY <4>1, <4>2
    <3>3. CASE x \notin R /\ u \notin R /\ x \notin closures
      <4>1. x \in mDownstream'[u] <=> u \in mUpstream'[x]
        BY <3>3, <1>2, <1>4
      <4>2. x \notin mClosures'[u]
        <5>1. x \notin mClosures[u]
          BY <3>3, <1>4
        <5>2. ASSUME NEW r \in R PROVE x \notin mClosures[r]
          BY <3>3, <1>1, <1>3, <1>4
        <5>3. x \in mClosures'[u] <=>
                \/ x \in mClosures[u]
                \/ \E r \in R : u \in mDownstream[r] /\ x \in mClosures[r]
          BY <1>2, <3>3
        <5> QED BY <5>1, <5>2, <5>3
      <4>3. u \in mUpstream'[x] => u \in live' /\ x \in live'
        BY <3>3, <1>2, <1>4
      <4> QED BY <4>1, <4>2, <4>3, <3>3
    <3>4. CASE x \notin R /\ u \notin R /\ x \in closures
      <4>1. x \notin mDownstream'[u]
        BY <3>4, <1>2, <1>4
      <4>2. x \in mClosures'[u] <=> u \in mUpstream'[x]
        <5>1. x \in mClosures[u] <=> u \in mUpstream[x]
          BY <1>4, <3>4
        <5>2. ASSUME NEW r \in R
              PROVE  /\ x \in mClosures[r] <=> r \in mUpstream[x]
                     /\ mDownstream[r] \subseteq Idx
          BY <1>1, <1>3, <1>4, <3>4 DEF GraphInv, TypeOK
        <5>3. u \in mUpstream'[x] <=>
                \/ u \in mUpstream[x]
                \/ \E r \in R : r \in mUpstream[x] /\ u \in mDownstream[r]
          BY <1>2, <3>4
        <5>4. x \in mClosures'[u] <=>
                \/ x \in mClosures[u]
                \/ \E r \in R : u \in mDownstream[r] /\ x \in mClosures[r]
          BY <1>2, <3>4
        <5> QED BY <5>1, <5>2, <5>3, <5>4
      <4>3. u \in mUpstream'[x] => u \in live' /\ x \in live'
        <5>1. \A r \in R : u \in mDownstream[r] => u \in live
          BY <1>1, <1>3, <1>4
        <5>2. \A r \in R : r \in mUpstream[x] => x \in live
          BY <1>1, <1>3, <1>4
        <5> QED BY <5>1, <5>2, <3>4, <1>2, <1>4
      <4> QED BY <4>1, <4>2, <4>3, <3>4
    <3> QED BY <3>1, <3>2, <3>3, <3>4
  <2>2. ASSUME NEW x \in live' \ closures PROVE mUpstream'[x] = upAtBirth'[x] \cap live'
    <3>1. mUpstream'[x] = mUpstream[x] \ R
      BY <1>2, <1>3
    <3>2. mUpstream[x] = upAtBirth[x] \cap live
      BY <1>2 DEF GraphInv, EdgesAgree
    <3> QED BY <3>1, <3>2, <1>2
  <2> QED BY <2>1, <2>2, <1>2 DEF EdgesAgree
<1>6. NothingLost'
  <2> DEFINE released == {d \in live \ closures : mUpstream[d] # {} /\ mUpstream[d] \subseteq R}
  <2>1. /\ mReady' = (mReady \ {i}) \cup {d \in released : mType[d] = "Continuation"}
        /\ mNextRound' = mNextRound \cup {d \in released : mType[d] = "Round"}
    BY DEF PopTask, Released, TakenOver, R
  <2>2. /\ mReady \cap mNextRound = {}
        /\ mReady \cup mNextRound = {x \in live \ closures : mUpstream[x] = {}}
    BY DEF GraphInv, NothingLost
  <2>3. \A d \in released : mType[d] = "Continuation" \/ mType[d] = "Round"
    BY <1>3 DEF GraphInv, TypeOK, Types
  <2>4. mReady' \cap mNextRound' = {}
    BY <2>1, <2>2
  <2>5. ASSUME NEW x \in live' \ closures
        PROVE  mUpstream'[x] = {} <=> x \in mReady' \cup mNextRound'
    <3>1. x \in live /\ x \notin R /\ x # i /\ mUpstream'[x] = mUpstream[x] \ R
      BY <1>1, <1>2, <1>3
    <3> QED BY <3>1, <2>1, <2>2, <2>3
  <2>6. \A x \in mReady' \cup mNextRound' : x \in live' \ closures
    BY <1>1, <1>2, <2>1, <2>2
  <2>7. ASSUME NEW c \in live' \cap closures PROVE mUpstream'[c] # {}
    <3>1. c \in Idx \ R /\ c \in closures /\ ~ Emptied(c, R)
      BY <1>1, <1>2, <1>3
    <3>2. CASE \E u \in mUpstream[c] : u \notin R
      <4>1. PICK u \in mUpstream[c] : u \notin R
        BY <3>2
      <4>2. u \in Idx
        BY <3>1 DEF GraphInv, TypeOK
      <4> QED BY <4>1, <4>2, <3>1, <1>2
    <3>3. CASE mUpstream[c] \subseteq R
      <4>1. PICK r \in mUpstream[c] : mDownstream[r] # {}
        BY <3>1, <3>3 DEF Emptied
      <4>2. r \in Idx /\ r \in R
        BY <4>1, <3>1, <3>3 DEF GraphInv, TypeOK
      <4>3. PICK d \in mDownstream[r] : d \in Idx
        BY <4>1, <4>2 DEF GraphInv, TypeOK
      <4> QED BY <4>2, <4>3, <3>1, <1>2
    <3> QED BY <3>2, <3>3
  <2>8. mReady' \cup mNextRound' = {x \in live' \ closures : mUpstream'[x] = {}}
    BY <2>5, <2>6
  <2> QED BY <2>4, <2>7, <2>8, <1>2 DEF NothingLost
<1>7. HistoryKept'
  <2>1. Issued' = Issued
    BY <1>2 DEF Issued
  <2>2. ASSUME NEW x \in live' PROVE upAtBirth[x] \cap live' \subseteq mUpstream'[x]
    <3>1. x \in Idx \ R /\ upAtBirth[x] \cap live' \subseteq mUpstream[x] \ R
      BY <1>2, <1>3 DEF GraphInv, HistoryKept
    <3> QED BY <3>1, <1>2, <1>3
  <2>3. ASSUME NEW x \in Issued \ live' PROVE upAtBirth[x] \cap live' = {}
    <3>1. CASE x \in R
      <4>1. upAtBirth[x] \cap live \subseteq mUpstream[x]
        BY <3>1, <1>1 DEF GraphInv, HistoryKept
      <4> QED BY <4>1, <3>1, <1>1, <1>2
    <3>2. CASE x \notin R
      BY <3>2, <1>2 DEF GraphInv, HistoryKept, Completed
    <3> QED BY <3>1, <3>2
  <2> QED BY <2>1, <2>2, <2>3, <1>2 DEF GraphInv, HistoryKept, Completed
<1> QED BY <1>5, <1>6, <1>7 DEF GraphInv

(* Every step keeps the graph whole.                                       *)
LEMMA GraphStep == GraphInv /\ [Next]_vars => GraphInv'
<1> SUFFICES ASSUME GraphInv, [Next]_vars PROVE GraphInv'
  OBVIOUS
<1>0. TypeOK'
  BY TypeStep DEF GraphInv
<1>1. CASE CurrentTask
  BY <1>0, <1>1 DEF CurrentTask, GraphInv, EdgesAgree, NothingLost, HistoryKept, Completed, Issued
<1>2. CASE UNCHANGED vars
  BY <1>0, <1>2 DEF vars, GraphInv, EdgesAgree, NothingLost, HistoryKept, Completed, Issued
<1> QED BY <1>0, <1>1, <1>2, AddTaskKeepsGraph, AddClosureKeepsGraph, PopTaskKeepsGraph DEF Next

(* The empty graph is whole.                                               *)
LEMMA GraphInit == Init => GraphInv
<1> SUFFICES ASSUME Init PROVE GraphInv
  OBVIOUS
<1>1. TypeOK
  BY MaxTaskAssumption DEF Init, TypeOK, Idx, Issued, Types, Nothing
<1>2. EdgesAgree /\ NothingLost /\ HistoryKept
  BY MaxTaskAssumption DEF Init, Nothing, EdgesAgree, NothingLost, HistoryKept, Completed, Issued
<1> QED BY <1>1, <1>2 DEF GraphInv

(* Every edge has two ends, no task is lost or queued twice, and waits     *)
(* point backwards: the throws of removeTask, addReady and addNextRound    *)
(* never fire.                                                             *)
THEOREM GraphInvariant == Spec => []GraphInv
BY GraphInit, GraphStep, PTL DEF Spec

(* Exactly the unfinished tasks with nothing to wait for are queued, each  *)
(* once, in the queue of their type.                                       *)
THEOREM NothingLostHolds == Spec => []NothingLost
BY GraphInvariant, PTL DEF GraphInv

(* A task is queued, and completes, only after everything it was added     *)
(* behind has completed.                                                   *)
THEOREM DependencyOrderHolds == Spec => []DependencyOrder
<1>1. GraphInv => DependencyOrder
  <2> SUFFICES ASSUME GraphInv, NEW x \in mReady \cup mNextRound \cup Completed
               PROVE  upAtBirth[x] \subseteq Issued /\ upAtBirth[x] \cap live = {}
    BY DEF DependencyOrder, Completed
  <2>1. live \subseteq Issued /\ Issued \subseteq Idx
    BY MaxTaskAssumption DEF GraphInv, TypeOK, Issued, Idx
  <2>2. x \in Idx
    BY <2>1 DEF GraphInv, NothingLost, Completed
  <2>3. upAtBirth[x] \subseteq Issued
    BY <2>2 DEF GraphInv, HistoryKept
  <2>4. CASE x \in Completed
    BY <2>3, <2>4 DEF GraphInv, HistoryKept
  <2>5. CASE x \in mReady \cup mNextRound
    <3>1. x \in live /\ mUpstream[x] = {}
      BY <2>5 DEF GraphInv, NothingLost
    <3> QED BY <2>3, <3>1 DEF GraphInv, HistoryKept
  <2> QED BY <2>4, <2>5
<1> QED BY <1>1, GraphInvariant, PTL

-----------------------------------------------------------------------------
(* How Reach moves: only addTask extends it, by the new task, and only for *)
(* closures whose Reach the new task waits for.                            *)
LEMMA ReachUnchanged ==
  ASSUME NEW c \in Idx, Tasks' = Tasks, upAtBirth'[c] = upAtBirth[c],
         \A y \in Tasks : upAtBirth'[y] = upAtBirth[y]
  PROVE  Reach(c)' = Reach(c)
BY DEF Reach, ReachClosed, Idx

(* The bound on indices, in the next state.                                *)
LEMMA IssuedNextInIdx == TypeOK' => Issued' \subseteq Idx
<1>1. \A n \in 0 .. MaxTask : 0 .. (n - 1) \subseteq Idx
  BY MaxTaskAssumption DEF Idx
<1> QED BY <1>1 DEF TypeOK, Issued

(* ReachIsClosed, of the next state.                                       *)
LEMMA ReachIsClosedNext ==
  ASSUME TypeOK', NEW c \in Idx
  PROVE  ReachClosed(c, Reach(c))'
<1>1. (upAtBirth[c] \subseteq Reach(c))'
  <2>1. upAtBirth'[c] \subseteq Idx
    BY DEF TypeOK
  <2> QED BY <2>1 DEF Reach, ReachClosed
<1>2. ASSUME NEW y \in Tasks', (upAtBirth[y] \cap Reach(c))' # {} PROVE y \in Reach(c)'
  <2>1. y \in Idx
    BY IssuedNextInIdx DEF Tasks
  <2>2. ASSUME NEW S \in SUBSET Idx, ReachClosed(c, S)' PROVE y \in S
    <3>1. Reach(c)' \subseteq S
      BY <2>2 DEF Reach
    <3> QED BY <1>2, <2>2, <3>1 DEF ReachClosed
  <2> QED BY <2>1, <2>2 DEF Reach
<1> QED BY <1>1, <1>2 DEF ReachClosed

(* ReachIsLeast, of the next state.                                        *)
LEMMA ReachIsLeastNext ==
  \A c \in Idx, S \in SUBSET Idx :
    /\ upAtBirth'[c] \subseteq S
    /\ \A y \in Tasks' : upAtBirth'[y] \cap S # {} => y \in S
    => Reach(c)' \subseteq S
BY DEF Reach, ReachClosed, Idx

(* A new task joins the reach of the closures it was added behind.         *)
LEMMA ReachAfterAddTask ==
  ASSUME GraphInv, TypeOK', NEW t \in Types, NEW deps \in SUBSET Issued, AddTask(t, deps),
         NEW c \in Issued
  PROVE  /\ Reach(c) \subseteq Reach(c)'
         /\ Reach(c)' \subseteq Reach(c) \cup {mTaskIdx}
         /\ mTaskIdx \in Reach(c)' => deps \cap live \cap Reach(c) # {}
<1> DEFINE n == mTaskIdx
           up == deps \cap live
<1>1. /\ n \in Idx /\ n \notin Issued /\ Issued' = Issued \cup {n}
      /\ Issued \subseteq Idx /\ n \notin closures /\ closures' = closures
      /\ \A x \in Idx : n \notin upAtBirth[x]
      /\ n # c /\ c \in Idx /\ TypeOK
  BY NextIndexIsFresh DEF AddTask, NextIdx, GraphInv
<1>2. /\ upAtBirth'[n] = up
      /\ \A x \in Idx \ {n} : upAtBirth'[x] = upAtBirth[x]
  BY <1>1 DEF AddTask, NextIdx, TypeOK
<1>3. Tasks' = Tasks \cup {n} /\ Tasks \subseteq Idx \ {n}
  BY <1>1 DEF Tasks
<1>4. ReachClosed(c, Reach(c)) /\ ReachClosed(c, Reach(c))'
  BY <1>1, ReachIsClosed, ReachIsClosedNext
<1>5. Reach(c) \subseteq Reach(c)'
  <2>1. ReachClosed(c, Reach(c)')
    BY <1>1, <1>2, <1>3, <1>4 DEF ReachClosed
  <2>2. Reach(c)' \subseteq Idx
    BY DEF Reach, Idx
  <2> QED BY <1>1, <2>1, <2>2, ReachIsLeast
<1>6. Reach(c)' \subseteq Reach(c) \cup (IF up \cap Reach(c) = {} THEN {} ELSE {n})
  <2> DEFINE T == Reach(c) \cup (IF up \cap Reach(c) = {} THEN {} ELSE {n})
  <2>1. upAtBirth'[c] \subseteq T
    BY <1>1, <1>2, <1>4 DEF ReachClosed
  <2>2. ASSUME NEW y \in Tasks', upAtBirth'[y] \cap T # {} PROVE y \in T
    <3>1. CASE y = n
      <4>1. n \notin up
        BY <1>1
      <4> QED BY <2>2, <3>1, <4>1, <1>2
    <3>2. CASE y # n
      <4>1. y \in Tasks /\ upAtBirth'[y] = upAtBirth[y] /\ n \notin upAtBirth[y]
        BY <3>2, <1>1, <1>2, <1>3
      <4> QED BY <4>1, <2>2, <1>4 DEF ReachClosed
    <3> QED BY <3>1, <3>2
  <2>3. T \in SUBSET Idx
    BY <1>1 DEF Reach
  <2> HIDE DEF T
  <2>4. Reach(c)' \subseteq T
    BY <1>1, <2>1, <2>2, <2>3, ReachIsLeastNext
  <2> QED BY <2>4 DEF T
<1>7. n \notin Reach(c)
  <2> DEFINE T == Reach(c) \ {n}
  <2>1. upAtBirth[c] \subseteq T
    BY <1>1, <1>4 DEF ReachClosed
  <2>2. \A y \in Tasks : upAtBirth[y] \cap T # {} => y \in T
    BY <1>3, <1>4 DEF ReachClosed
  <2>3. T \in SUBSET Idx
    BY DEF Reach
  <2> HIDE DEF T
  <2>4. Reach(c) \subseteq T
    BY <1>1, <2>1, <2>2, <2>3, ReachIsLeast DEF ReachClosed
  <2> QED BY <2>4 DEF T
<1> QED BY <1>5, <1>6, <1>7

(* The inductive form of the closures' promise.                            *)
ReachInv == CoverInv /\ ClosureCovers

(* addTask keeps closures covering their reach.                            *)
LEMMA AddTaskKeepsReach ==
  ASSUME GraphInv, ReachInv, TypeOK', NEW t \in Types, NEW deps \in SUBSET Issued, AddTask(t, deps)
  PROVE  ReachInv'
<1> DEFINE n == mTaskIdx
           up == deps \cap live
<1>1. /\ n \in Idx /\ n \notin Issued /\ Issued' = Issued \cup {n} /\ Issued \subseteq Idx
      /\ n \notin closures /\ closures' = closures /\ live' = live \cup {n}
      /\ closures \subseteq Issued /\ live \subseteq Issued
  BY NextIndexIsFresh DEF AddTask, NextIdx, GraphInv, TypeOK
<1>2. /\ mUpstream'[n] = up
      /\ \A x \in Idx \ {n} : mUpstream'[x] = mUpstream[x]
  BY <1>1 DEF AddTask, NextIdx, GraphInv, TypeOK
<1>3. ASSUME NEW c \in Issued
      PROVE  /\ Reach(c) \subseteq Reach(c)'
             /\ Reach(c)' \subseteq Reach(c) \cup {n}
             /\ n \in Reach(c)' => up \cap Reach(c) # {}
  BY ReachAfterAddTask
<1>4. CoverInv'
  <2> SUFFICES ASSUME NEW c \in live' \cap closures', NEW x \in Reach(c)' \cap live'
               PROVE  \/ x \in mUpstream'[c]
                      \/ x \notin closures' /\ mUpstream'[x] \cap Reach(c)' # {}
    BY DEF CoverInv
  <2>1. c \in live \cap closures /\ c \in Issued /\ c # n
    BY <1>1
  <2>2. CASE x = n
    BY <2>1, <2>2, <1>1, <1>2, <1>3
  <2>3. CASE x # n
    <3>1. x \in Reach(c) \cap live
      BY <2>1, <2>3, <1>1, <1>3
    <3>2. x \in mUpstream[c] \/ (x \notin closures /\ mUpstream[x] \cap Reach(c) # {})
      BY <2>1, <3>1 DEF ReachInv, CoverInv
    <3>3. x \in Idx /\ mUpstream'[x] = mUpstream[x] /\ mUpstream'[c] = mUpstream[c]
      BY <2>1, <2>3, <3>1, <1>1, <1>2
    <3> QED BY <2>1, <3>2, <3>3, <1>1, <1>3
  <2> QED BY <2>2, <2>3
<1>5. ClosureCovers'
  <2> SUFFICES ASSUME NEW c \in closures' \cap Completed' PROVE Reach(c)' \subseteq Completed'
    BY DEF ClosureCovers
  <2>1. c \in closures \cap Completed /\ c \in Issued
    BY <1>1 DEF Completed
  <2>2. Reach(c) \subseteq Completed
    BY <2>1 DEF ReachInv, ClosureCovers
  <2>3. up \cap Reach(c) = {}
    BY <2>2 DEF Completed
  <2> QED BY <2>1, <2>2, <2>3, <1>1, <1>3 DEF Completed
<1> QED BY <1>4, <1>5 DEF ReachInv

(* addClosure keeps closures covering their reach.                         *)
LEMMA AddClosureKeepsReach ==
  ASSUME GraphInv, ReachInv, TypeOK', NEW deps \in SUBSET Issued, AddClosure(deps)
  PROVE  ReachInv'
<1>0. PICK n : n = mTaskIdx
  OBVIOUS
<1> DEFINE up == deps \cap live
<1>1. /\ n \in Idx /\ n \notin Issued /\ Issued' = Issued \cup {n} /\ Issued \subseteq Idx
      /\ closures' = closures \cup {n} /\ live' = IF up = {} THEN live ELSE live \cup {n}
      /\ closures \subseteq Issued /\ live \subseteq Issued
      /\ \A x \in Idx : n \notin upAtBirth[x] /\ n \notin mUpstream[x]
  BY <1>0, NextIndexIsFresh DEF AddClosure, NextIdx, GraphInv, TypeOK
<1>2. /\ mUpstream'[n] = up /\ upAtBirth'[n] = up
      /\ \A x \in Idx \ {n} : mUpstream'[x] = mUpstream[x] /\ upAtBirth'[x] = upAtBirth[x]
  BY <1>0, <1>1 DEF AddClosure, NextIdx, GraphInv, TypeOK
<1>3. Tasks' = Tasks /\ Tasks \subseteq Idx \ {n}
  BY <1>1 DEF Tasks
<1>4. \A c \in Issued : Reach(c)' = Reach(c)
  BY <1>1, <1>2, <1>3, ReachUnchanged
<1>5. \A x \in Reach(n)' : x \in live /\ (x \in up \/ (x \notin closures' /\ mUpstream'[x] \cap Reach(n)' # {}))
  <2> DEFINE S == {x \in Reach(n)' : x \in live /\ (x \in up \/ (x \notin closures' /\ mUpstream'[x] \cap Reach(n)' # {}))}
  <2>1. (ReachClosed(n, Reach(n)))'
    BY <1>1, ReachIsClosedNext
  <2>2. upAtBirth'[n] \subseteq S
    BY <2>1, <1>2 DEF ReachClosed
  <2>3. ASSUME NEW y \in Tasks', upAtBirth'[y] \cap S # {} PROVE y \in S
    <3>1. PICK z \in upAtBirth'[y] : z \in S
      BY <2>3
    <3>2. y \in Tasks /\ y \in Idx /\ y # n /\ y \in Issued /\ y \notin closures'
      BY <1>1, <1>3 DEF Tasks
    <3>3. z \in upAtBirth[y] /\ z \in live /\ z \in Reach(n)'
      BY <3>1, <3>2, <1>2
    <3>4. y \in live /\ z \in mUpstream[y]
      BY <3>2, <3>3 DEF GraphInv, HistoryKept, Completed
    <3>5. y \in Reach(n)'
      BY <2>1, <3>1, <3>3 DEF ReachClosed
    <3> QED BY <3>2, <3>3, <3>4, <3>5, <1>2
  <2>4. S \in SUBSET Idx
    BY DEF Reach, Idx
  <2> HIDE DEF S
  <2>5. Reach(n)' \subseteq S
    BY <1>1, <2>2, <2>3, <2>4, ReachIsLeastNext
  <2> QED BY <2>5 DEF S
<1>6. up = {} => Reach(n)' = {}
  BY <1>1, <1>2, ReachIsLeastNext
<1>7. CoverInv'
  <2> SUFFICES ASSUME NEW c \in live' \cap closures', NEW x \in Reach(c)' \cap live'
               PROVE  \/ x \in mUpstream'[c]
                      \/ x \notin closures' /\ mUpstream'[x] \cap Reach(c)' # {}
    BY DEF CoverInv
  <2>1. CASE c = n
    BY <2>1, <1>2, <1>5
  <2>2. CASE c # n
    <3>1. c \in live \cap closures /\ c \in Issued /\ c \in Idx
      BY <2>2, <1>1
    <3>2. x \in Reach(c) /\ Reach(c)' = Reach(c)
      BY <3>1, <1>4
    <3>3. x # n
      <4>1. ReachClosed(c, Reach(c))
        BY <3>1, ReachIsClosed DEF GraphInv
      <4>2. ReachClosed(c, Reach(c) \ {n})
        BY <4>1, <3>1, <1>1, <1>3 DEF ReachClosed
      <4>3. Reach(c) \ {n} \in SUBSET Idx
        BY DEF Reach
      <4> QED BY <4>2, <4>3, <3>1, <3>2, ReachIsLeast
    <3>4. x \in live /\ x \in Idx
      BY <3>3, <1>1
    <3>5. x \in mUpstream[c] \/ (x \notin closures /\ mUpstream[x] \cap Reach(c) # {})
      BY <3>1, <3>2, <3>4 DEF ReachInv, CoverInv
    <3> QED BY <2>2, <3>1, <3>2, <3>3, <3>4, <3>5, <1>1, <1>2
  <2> QED BY <2>1, <2>2
<1>8. ClosureCovers'
  <2> SUFFICES ASSUME NEW c \in closures' \cap Completed' PROVE Reach(c)' \subseteq Completed'
    BY DEF ClosureCovers
  <2>1. CASE c = n
    BY <2>1, <1>1, <1>6 DEF Completed
  <2>2. CASE c # n
    <3>1. c \in closures \cap Completed /\ c \in Issued
      BY <2>2, <1>1 DEF Completed
    <3> QED BY <3>1, <1>1, <1>4 DEF ReachInv, ClosureCovers, Completed
  <2> QED BY <2>1, <2>2
<1> QED BY <1>7, <1>8 DEF ReachInv

(* popTask completes no closure before its reach.                          *)
LEMMA PopTaskKeepsReach ==
  ASSUME GraphInv, ReachInv, NEW i \in mReady, PopTask(i)
  PROVE  ReachInv'
<1> DEFINE R == Removed(i)
<1> HIDE DEF R
<1>1. /\ i \in Idx /\ i \in live /\ i \notin closures /\ mUpstream[i] = {}
      /\ i \in R /\ R \subseteq live
      /\ \A r \in R : r # i => r \in closures
      /\ \A c \in R \cap closures : Emptied(c, R)
  BY RemovedFacts DEF R
<1>2. /\ closures' = closures /\ mTaskIdx' = mTaskIdx /\ upAtBirth' = upAtBirth /\ live' = live \ R
      /\ \A x \in Idx \ R : x \notin closures => mUpstream'[x] = mUpstream[x] \ R
      /\ \A x \in Idx \ R, u \in Idx :
           x \in closures => (u \in mUpstream'[x] <=>
              \/ u \in mUpstream[x] /\ u \notin R
              \/ \E r \in R : r \in mUpstream[x] /\ u \in mDownstream[r])
  BY PopTaskWrites DEF R
<1>3. live \subseteq Idx /\ live \subseteq Issued
  BY MaxTaskAssumption DEF GraphInv, TypeOK, Issued, Idx
<1>4. \A c \in Idx : Reach(c)' = Reach(c) /\ Reach(c) \subseteq Idx
  BY <1>2, ReachUnchanged DEF Tasks, Issued, Reach
<1>5. \A u, x \in Idx : x \in mDownstream[u] <=> x \notin closures /\ u \in mUpstream[x]
  BY DEF GraphInv, EdgesAgree
(* A removed task that has a live task of c's Reach behind it was waited   *)
(* for by c itself.                                                        *)
<1>6. ASSUME NEW c \in live \cap closures, NEW y \in Reach(c) \cap R
      PROVE  y \in mUpstream[c]
  <2>1. y \in live /\ (y \in mUpstream[c] \/ (y \notin closures /\ mUpstream[y] # {}))
    BY <1>1 DEF ReachInv, CoverInv
  <2> QED BY <2>1, <1>1
<1>7. CoverInv'
  <2> SUFFICES ASSUME NEW c \in live' \cap closures, NEW x \in Reach(c) \cap live'
               PROVE  \/ x \in mUpstream'[c]
                      \/ x \notin closures /\ mUpstream'[x] \cap Reach(c) # {}
    BY <1>2, <1>3, <1>4 DEF CoverInv
  <2>1. c \in live \cap closures /\ c \in Idx \ R /\ x \in Reach(c) \cap live /\ x \in Idx \ R
    BY <1>2, <1>3
  <2>2. CASE x \in mUpstream[c]
    BY <2>1, <2>2, <1>2
  <2>3. CASE x \notin closures /\ mUpstream[x] \cap Reach(c) # {}
    <3>1. PICK y \in mUpstream[x] : y \in Reach(c)
      BY <2>3
    <3>2. CASE y \in R
      <4>1. y \in mUpstream[c] /\ y \in Idx
        BY <3>1, <3>2, <2>1, <1>3, <1>1, <1>6
      <4>2. x \in mDownstream[y]
        BY <4>1, <3>1, <2>1, <2>3, <1>5
      <4> QED BY <4>1, <4>2, <3>2, <2>1, <1>2
    <3>3. CASE y \notin R
      BY <3>1, <3>3, <2>1, <2>3, <1>2
    <3> QED BY <3>2, <3>3
  <2> QED BY <2>1, <2>2, <2>3 DEF ReachInv, CoverInv
<1>8. ASSUME NEW c \in R \cap closures PROVE Reach(c) \cap live' = {}
  <2> DEFINE T == Reach(c) \cap live'
  <2> SUFFICES ASSUME T # {} PROVE FALSE
    OBVIOUS
  <2>1. T \subseteq Nat
    <3>1. Idx \subseteq Nat
      BY MaxTaskAssumption DEF Idx
    <3> QED BY <3>1, <1>2, <1>3
  <2>2. PICK x \in T : \A y \in T : ~ (<<y, x>> \in OpToRel(<, Nat))
    BY <2>1, WFMin, NatLessThanWellFounded
  <2>3. c \in live \cap closures /\ c \in Idx /\ Emptied(c, R) /\ x \in Reach(c) \cap live /\ x \in Idx \ R
    BY <1>1, <1>2, <1>3
  <2>4. x \notin mUpstream[c]
    BY <2>3 DEF Emptied
  <2>5. x \notin closures /\ mUpstream[x] \cap Reach(c) # {}
    BY <2>3, <2>4 DEF ReachInv, CoverInv
  <2>6. PICK y \in mUpstream[x] : y \in Reach(c)
    BY <2>5
  <2>7. y \in live /\ y \in Idx /\ y < x
    <3>1. mUpstream[x] = upAtBirth[x] \cap live /\ upAtBirth[x] \subseteq 0 .. (x - 1)
      BY <2>3, <2>5 DEF GraphInv, EdgesAgree, HistoryKept
    <3>2. y \in 0 .. (x - 1)
      BY <2>6, <3>1
    <3>3. x \in Int
      BY <2>3 DEF Idx
    <3> QED BY <2>6, <3>1, <3>2, <3>3, <1>3
  <2>8. CASE y \in R
    <3>1. y \in mUpstream[c]
      BY <2>3, <2>6, <2>8, <1>6
    <3>2. x \in mDownstream[y]
      BY <2>3, <2>5, <2>6, <2>7, <1>5
    <3> QED BY <2>3, <3>1, <3>2 DEF Emptied
  <2>9. CASE y \notin R
    <3>1. y \in T
      BY <2>6, <2>7, <2>9, <1>2
    <3>2. x \in Nat /\ y \in Nat
      BY <3>1, <2>1
    <3>3. <<y, x>> \in OpToRel(<, Nat)
      BY <3>2, <2>7 DEF OpToRel
    <3> QED BY <2>2, <3>1, <3>3
  <2> QED BY <2>8, <2>9
<1>9. ClosureCovers'
  <2> SUFFICES ASSUME NEW c \in closures \cap Completed' PROVE Reach(c) \subseteq Completed'
    <3>1. closures \subseteq Idx
      BY MaxTaskAssumption DEF GraphInv, TypeOK, Issued, Idx
    <3> QED BY <3>1, <1>2, <1>4 DEF ClosureCovers
  <2>1. Issued' = Issued
    BY <1>2 DEF Issued
  <2>2. c \in Idx /\ Reach(c) \subseteq Issued
    <3>1. c \in Idx /\ TypeOK /\ Issued \subseteq Idx
      BY <2>1, MaxTaskAssumption DEF GraphInv, TypeOK, Issued, Idx, Completed
    <3>2. ReachClosed(c, Reach(c))
      BY <3>1, ReachIsClosed
    <3>3. ReachClosed(c, Reach(c) \cap Issued)
      BY <3>1, <3>2 DEF ReachClosed, Tasks, GraphInv, HistoryKept
    <3>4. Reach(c) \cap Issued \in SUBSET Idx
      BY DEF Reach
    <3> QED BY <3>1, <3>3, <3>4, ReachIsLeast
  <2>3. CASE c \in R
    BY <2>1, <2>2, <2>3, <1>8 DEF Completed
  <2>4. CASE c \notin R
    BY <2>1, <2>2, <2>4, <1>2 DEF Completed, ReachInv, ClosureCovers
  <2> QED BY <2>3, <2>4
<1> QED BY <1>7, <1>9 DEF ReachInv

(* A closure completes only when all the tasks it stands for, those added  *)
(* behind them while it was pending included, have completed: what         *)
(* Sh3Task::get on a protocol's returned closure relies on.                *)
THEOREM ClosureCoversHolds == Spec => []ClosureCovers
<1>1. Init => ReachInv
  BY DEF Init, ReachInv, CoverInv, ClosureCovers
<1>2. GraphInv /\ TypeOK' /\ ReachInv /\ [Next]_vars => ReachInv'
  <2> SUFFICES ASSUME GraphInv, TypeOK', ReachInv, [Next]_vars PROVE ReachInv'
    OBVIOUS
  <2>1. CASE CurrentTask
    <3>1. /\ Tasks' = Tasks /\ Completed' = Completed /\ closures' = closures /\ live' = live
          /\ mUpstream' = mUpstream /\ upAtBirth' = upAtBirth
      BY <2>1 DEF CurrentTask, Tasks, Completed, Issued
    <3> QED BY <3>1 DEF ReachInv, CoverInv, ClosureCovers, Reach, ReachClosed, Idx
  <2>2. CASE UNCHANGED vars
    <3>1. /\ Tasks' = Tasks /\ Completed' = Completed /\ closures' = closures /\ live' = live
          /\ mUpstream' = mUpstream /\ upAtBirth' = upAtBirth
      BY <2>2 DEF vars, Tasks, Completed, Issued
    <3> QED BY <3>1 DEF ReachInv, CoverInv, ClosureCovers, Reach, ReachClosed, Idx
  <2> QED BY <2>1, <2>2, AddTaskKeepsReach, AddClosureKeepsReach, PopTaskKeepsReach DEF Next
<1>3. ReachInv => ClosureCovers
  BY DEF ReachInv
<1> QED BY <1>1, <1>2, <1>3, TypeCorrect, GraphInvariant, PTL DEF Spec

-----------------------------------------------------------------------------
(* Why the scheduler never has only waiting tasks.  Everything a task or a *)
(* closure waits for, now or later:                                        *)
Waits(x) == mUpstream[x] \cup (IF x \in closures THEN Reach(x) ELSE {})

(* As long as the program keeps waits acyclic, every set of unfinished     *)
(* tasks and closures has a member that waits for none of the set.         *)
NoCircle == acyclic => \A S \in SUBSET live : S # {} => \E x \in S : Waits(x) \cap S = {}
UpInReach == \A c \in live \cap closures : mUpstream[c] \subseteq Reach(c)
WaitInv == UpInReach /\ NoCircle

(* WaitsFor(D) holds D and whatever its unfinished members wait for.       *)
LEMMA WaitsForIsClosed ==
  ASSUME TypeOK, NEW D \in SUBSET Idx
  PROVE  /\ D \subseteq WaitsFor(D)
         /\ \A x \in live \cap WaitsFor(D) : Waits(x) \subseteq WaitsFor(D)
<1> DEFINE waits == UNION {{x} \X (mUpstream[x] \cup (IF x \in closures THEN Reach(x) ELSE {})) : x \in live}
           closed == {W \in SUBSET Idx : D \subseteq W /\ \A e \in waits : e[1] \in W => e[2] \in W}
<1>1. WaitsFor(D) = {x \in Idx : \A W \in closed : x \in W}
  BY DEF WaitsFor
<1>2. ASSUME NEW x \in live, NEW y \in Waits(x) PROVE <<x, y>> \in waits
  BY <1>2 DEF Waits
<1>3. ASSUME NEW x \in live, NEW y \in Waits(x) PROVE y \in Idx
  <2>1. x \in Idx
    BY MaxTaskAssumption DEF TypeOK, Issued, Idx
  <2> QED BY <1>3, <2>1 DEF Waits, TypeOK, Reach
<1> HIDE DEF waits
<1>4. ASSUME NEW x \in live \cap WaitsFor(D), NEW y \in Waits(x), NEW W \in closed PROVE y \in W
  <2>1. x \in W
    BY <1>1
  <2>2. <<x, y>> \in waits
    BY <1>2
  <2>3. \A e \in waits : e[1] \in W => e[2] \in W
    OBVIOUS
  <2> QED BY <2>1, <2>2, <2>3
<1> QED BY <1>1, <1>3, <1>4

(* An acyclic addTask closes no circle of waits.                           *)
LEMMA AddTaskKeepsWaits ==
  ASSUME GraphInv, WaitInv, TypeOK', NEW t \in Types, NEW deps \in SUBSET Issued, AddTask(t, deps)
  PROVE  WaitInv'
<1>0. PICK n : n = mTaskIdx
  OBVIOUS
<1> DEFINE up == deps \cap live
<1>1. /\ n \in Idx /\ n \notin Issued /\ Issued \subseteq Idx
      /\ n \notin closures /\ closures' = closures /\ live' = live \cup {n} /\ n \notin live
      /\ closures \subseteq Issued /\ live \subseteq Issued /\ TypeOK
      /\ acyclic' = (acyclic /\ Acyclic(deps))
  BY <1>0, NextIndexIsFresh DEF AddTask, NextIdx, GraphInv, TypeOK
<1>2. /\ mUpstream'[n] = up
      /\ \A x \in Idx \ {n} : mUpstream'[x] = mUpstream[x]
  BY <1>0, <1>1 DEF AddTask, NextIdx, TypeOK
<1>3. ASSUME NEW c \in Issued
      PROVE  /\ Reach(c) \subseteq Reach(c)'
             /\ Reach(c)' \subseteq Reach(c) \cup {n}
             /\ n \in Reach(c)' => up \cap Reach(c) # {}
  BY <1>0, ReachAfterAddTask
<1>4. UpInReach'
  BY <1>1, <1>2, <1>3 DEF WaitInv, UpInReach
<1>5. Waits(n)' = up
  BY <1>1, <1>2 DEF Waits
<1>6. ASSUME NEW x \in live
      PROVE  Waits(x)' \subseteq Waits(x) \cup {n}
  BY <1>1, <1>2, <1>3 DEF Waits
<1>7. ASSUME NEW x \in live, n \in Waits(x)'
      PROVE  x \in closures /\ up \cap Reach(x) # {}
  <2>1. x \in Idx /\ x # n /\ mUpstream'[x] = mUpstream[x] /\ n \notin mUpstream[x]
    BY <1>0, <1>1, <1>2, NextIndexIsFresh DEF AddTask
  <2> QED BY <1>7, <2>1, <1>1, <1>3 DEF Waits
<1>8. NoCircle'
  <2> SUFFICES ASSUME acyclic', NEW S \in SUBSET live', S # {}
               PROVE  \E x \in S : Waits(x)' \cap S = {}
    BY DEF NoCircle
  <2>1. acyclic /\ Acyclic(deps)
    BY <1>1
  <2>2. CASE n \notin S
    <3>1. PICK x \in S : Waits(x) \cap S = {}
      BY <2>1, <2>2, <1>1 DEF WaitInv, NoCircle
    <3> QED BY <3>1, <2>2, <1>1, <1>6
  <2>3. CASE n \in S /\ up \cap S = {}
    BY <2>3, <1>5
  <2>4. CASE n \in S /\ up \cap S # {}
    <3> DEFINE U == WaitsFor(up) \cap (S \ {n})
    <3>1. /\ up \subseteq WaitsFor(up)
          /\ \A x \in live \cap WaitsFor(up) : Waits(x) \subseteq WaitsFor(up)
      <4>1. up \in SUBSET Idx
        BY <1>1
      <4> HIDE DEF up
      <4> QED BY <1>1, <4>1, WaitsForIsClosed
    <3>2. U \in SUBSET live /\ U # {}
      BY <1>1, <2>4, <3>1
    <3>3. PICK x \in U : Waits(x) \cap U = {}
      BY <2>1, <3>2 DEF WaitInv, NoCircle
    <3>4. Waits(x) \cap (S \ {n}) = {}
      BY <3>1, <3>2, <3>3
    <3>5. n \notin Waits(x)'
      <4> SUFFICES ASSUME n \in Waits(x)' PROVE FALSE
        OBVIOUS
      <4>1. x \in closures \cap live /\ up \cap Reach(x) # {} /\ x \in WaitsFor(up)
        BY <1>7, <3>2
      <4> QED BY <2>1, <4>1 DEF Acyclic
    <3> QED BY <1>6, <3>2, <3>4, <3>5
  <2> QED BY <2>2, <2>3, <2>4
<1> QED BY <1>4, <1>8 DEF WaitInv

(* Nothing waits for a new closure.                                        *)
LEMMA AddClosureKeepsWaits ==
  ASSUME GraphInv, WaitInv, TypeOK', NEW deps \in SUBSET Issued, AddClosure(deps)
  PROVE  WaitInv'
<1>0. PICK n : n = mTaskIdx
  OBVIOUS
<1> DEFINE up == deps \cap live
<1>1. /\ n \in Idx /\ n \notin Issued /\ Issued' = Issued \cup {n} /\ Issued \subseteq Idx
      /\ closures' = closures \cup {n} /\ live' = IF up = {} THEN live ELSE live \cup {n}
      /\ n \notin live /\ acyclic' = acyclic
      /\ closures \subseteq Issued /\ live \subseteq Issued
      /\ \A x \in Idx : n \notin upAtBirth[x] /\ n \notin mUpstream[x]
  BY <1>0, NextIndexIsFresh DEF AddClosure, NextIdx, GraphInv, TypeOK
<1>2. /\ mUpstream'[n] = up /\ upAtBirth'[n] = up
      /\ \A x \in Idx \ {n} : mUpstream'[x] = mUpstream[x] /\ upAtBirth'[x] = upAtBirth[x]
  BY <1>0, <1>1 DEF AddClosure, NextIdx, GraphInv, TypeOK
<1>3. Tasks' = Tasks /\ Tasks \subseteq Idx \ {n}
  BY <1>1 DEF Tasks
<1>4. \A c \in Issued : Reach(c)' = Reach(c)
  BY <1>1, <1>2, <1>3, ReachUnchanged
(* Nothing waits for a new closure.                                        *)
<1>5. ASSUME NEW c \in Issued \cup {n} PROVE n \notin Reach(c)'
  <2> DEFINE T == Reach(c)' \ {n}
  <2>1. c \in Idx /\ (ReachClosed(c, Reach(c)))'
    BY <1>1, ReachIsClosedNext
  <2>2. upAtBirth'[c] \subseteq T
    <3>1. n \notin upAtBirth'[c]
      BY <1>1, <1>2
    <3> QED BY <2>1, <3>1 DEF ReachClosed
  <2>3. \A y \in Tasks' : upAtBirth'[y] \cap T # {} => y \in T
    BY <1>3, <2>1 DEF ReachClosed
  <2>4. T \in SUBSET Idx
    BY DEF Reach, Idx
  <2> HIDE DEF T
  <2>5. Reach(c)' \subseteq T
    BY <2>1, <2>2, <2>3, <2>4, ReachIsLeastNext
  <2> QED BY <2>5 DEF T
<1>6. ASSUME NEW x \in live PROVE Waits(x)' = Waits(x) /\ n \notin Waits(x)'
  <2>1. x \in Issued /\ x \in Idx /\ x # n /\ (x \in closures' <=> x \in closures)
    BY <1>1
  <2> QED BY <2>1, <1>1, <1>2, <1>4, <1>5 DEF Waits
<1>7. n \notin Waits(n)'
  BY <1>1, <1>2, <1>5 DEF Waits
<1>8. UpInReach'
  <2>1. up \subseteq Reach(n)'
    BY <1>1, <1>2, ReachIsClosedNext DEF ReachClosed
  <2> QED BY <2>1, <1>1, <1>2, <1>4 DEF WaitInv, UpInReach
<1>9. NoCircle'
  <2> SUFFICES ASSUME acyclic', NEW S \in SUBSET live', S # {}
               PROVE  \E x \in S : Waits(x)' \cap S = {}
    BY DEF NoCircle
  <2>1. CASE S = {n}
    BY <2>1, <1>7
  <2>2. CASE S # {n}
    <3> DEFINE U == S \ {n}
    <3>1. U \in SUBSET live /\ U # {}
      BY <2>2, <1>1
    <3>2. PICK x \in U : Waits(x) \cap U = {}
      BY <3>1, <1>1 DEF WaitInv, NoCircle
    <3> QED BY <3>1, <3>2, <1>6
  <2> QED BY <2>1, <2>2
<1> QED BY <1>8, <1>9 DEF WaitInv

(* A pop leaves what remains waiting for no more than before: what a       *)
(* closure takes over was in its reach.                                    *)
LEMMA PopTaskKeepsWaits ==
  ASSUME GraphInv, WaitInv, NEW i \in mReady, PopTask(i)
  PROVE  WaitInv'
<1> DEFINE R == Removed(i)
<1> HIDE DEF R
<1>1. /\ closures' = closures /\ mTaskIdx' = mTaskIdx /\ upAtBirth' = upAtBirth /\ live' = live \ R
      /\ \A x \in Idx \ R : x \notin closures => mUpstream'[x] = mUpstream[x] \ R
      /\ \A x \in Idx \ R, u \in Idx :
           x \in closures => (u \in mUpstream'[x] <=>
              \/ u \in mUpstream[x] /\ u \notin R
              \/ \E r \in R : r \in mUpstream[x] /\ u \in mDownstream[r])
  BY PopTaskWrites DEF R
<1>2. R \subseteq live /\ acyclic' = acyclic
  BY RemovedFacts DEF R, PopTask
<1>3. live \subseteq Idx /\ live \subseteq Issued /\ TypeOK
  BY MaxTaskAssumption DEF GraphInv, TypeOK, Issued, Idx
<1>4. \A c \in Idx : Reach(c)' = Reach(c)
  BY <1>1, ReachUnchanged DEF Tasks, Issued
<1>5. ASSUME NEW x \in Idx \ R, NEW u \in mUpstream'[x], x \in closures PROVE u \in Idx
  <2>1. mUpstream'[x] = (mUpstream[x] \ R) \cup TakenOver(x, R)
    BY <1>5 DEF PopTask, R
  <2>2. TakenOver(x, R) \subseteq Idx
    BY <1>2, <1>3 DEF TakenOver, TypeOK
  <2> QED BY <1>3, <1>5, <2>1, <2>2 DEF TypeOK
<1>6. UpInReach'
  <2> SUFFICES ASSUME NEW c \in live' \cap closures, NEW u \in mUpstream'[c] PROVE u \in Reach(c)
    BY <1>1, <1>3, <1>4 DEF UpInReach
  <2>1. c \in live \cap closures /\ c \in Idx \ R /\ u \in Idx
    BY <1>1, <1>3, <1>5
  <2>2. mUpstream[c] \subseteq Reach(c)
    BY <2>1 DEF WaitInv, UpInReach
  <2>3. CASE u \in mUpstream[c]
    BY <2>2, <2>3
  <2>4. CASE \E r \in R : r \in mUpstream[c] /\ u \in mDownstream[r]
    <3>1. PICK r \in R : r \in mUpstream[c] /\ u \in mDownstream[r]
      BY <2>4
    <3>2. u \notin closures /\ r \in mUpstream[u] /\ u \in live /\ r \in Idx
      BY <2>1, <3>1, <1>2, <1>3 DEF GraphInv, EdgesAgree
    <3>3. r \in upAtBirth[u]
      BY <3>2 DEF GraphInv, EdgesAgree
    <3>4. u \in Tasks
      BY <3>2, <1>3 DEF Tasks
    <3> QED BY <3>1, <3>3, <3>4, <2>1, <2>2, <1>3, ReachIsClosed DEF ReachClosed
  <2> QED BY <2>1, <2>3, <2>4, <1>1
<1>7. ASSUME NEW x \in live' PROVE Waits(x)' \subseteq Waits(x)
  <2>1. x \in Idx \ R /\ x \in live
    BY <1>1, <1>3
  <2>2. CASE x \in closures
    <3>1. mUpstream'[x] \subseteq Reach(x)
      BY <2>1, <2>2, <1>1, <1>4, <1>6 DEF UpInReach
    <3> QED BY <2>1, <2>2, <3>1, <1>1, <1>4 DEF Waits
  <2>3. CASE x \notin closures
    BY <2>1, <2>3, <1>1 DEF Waits
  <2> QED BY <2>2, <2>3
<1>8. NoCircle'
  <2> SUFFICES ASSUME acyclic', NEW S \in SUBSET live', S # {}
               PROVE  \E x \in S : Waits(x)' \cap S = {}
    BY DEF NoCircle
  <2>1. PICK x \in S : Waits(x) \cap S = {}
    BY <1>1, <1>2 DEF WaitInv, NoCircle
  <2> QED BY <2>1, <1>7
<1> QED BY <1>6, <1>8 DEF WaitInv

(* The invariant of these waits.                                           *)
LEMMA WaitsHold == Spec => []WaitInv
<1>1. Init => WaitInv
  BY DEF Init, WaitInv, UpInReach, NoCircle
<1>2. GraphInv /\ TypeOK' /\ WaitInv /\ [Next]_vars => WaitInv'
  <2> SUFFICES ASSUME GraphInv, TypeOK', WaitInv, [Next]_vars PROVE WaitInv'
    OBVIOUS
  <2>1. CASE CurrentTask \/ UNCHANGED vars
    <3>1. /\ Tasks' = Tasks /\ closures' = closures /\ live' = live /\ acyclic' = acyclic
          /\ mUpstream' = mUpstream /\ upAtBirth' = upAtBirth
      BY <2>1 DEF CurrentTask, vars, Tasks, Issued
    <3>2. live \subseteq Idx
      BY MaxTaskAssumption DEF GraphInv, TypeOK, Issued, Idx
    <3>3. \A x \in live : Reach(x)' = Reach(x)
      BY <3>1, <3>2, ReachUnchanged
    <3>4. \A x \in live : Waits(x)' = Waits(x)
      BY <3>1, <3>3 DEF Waits
    <3>5. UpInReach'
      BY <3>1, <3>3 DEF WaitInv, UpInReach
    <3>6. NoCircle'
      <4> SUFFICES ASSUME acyclic', NEW S \in SUBSET live', S # {}
                   PROVE  \E x \in S : Waits(x)' \cap S = {}
        BY DEF NoCircle
      <4>1. PICK x \in S : Waits(x) \cap S = {}
        BY <3>1 DEF WaitInv, NoCircle
      <4> QED BY <4>1, <3>1, <3>4
    <3> QED BY <3>5, <3>6 DEF WaitInv
  <2> QED BY <2>1, AddTaskKeepsWaits, AddClosureKeepsWaits, PopTaskKeepsWaits DEF Next
<1> QED BY <1>1, <1>2, TypeCorrect, GraphInvariant, PTL DEF Spec

(* While anything is unfinished there is a task that can run, unless the   *)
(* program has put a task behind a closure that has to wait for that task: *)
(* currentTask (Task.h:208) never throws.                                  *)
THEOREM NeverStuckHolds == Spec => []NeverStuck
<1>1. GraphInv /\ WaitInv => NeverStuck
  <2> SUFFICES ASSUME GraphInv, WaitInv, acyclic, live # {} PROVE mReady \cup mNextRound # {}
    BY DEF NeverStuck
  <2>1. PICK x \in live : Waits(x) \cap live = {}
    BY DEF WaitInv, NoCircle
  <2>2. x \in Idx
    BY MaxTaskAssumption DEF GraphInv, TypeOK, Issued, Idx
  <2>3. mUpstream[x] = {}
    <3>1. \A u \in mUpstream[x] : u \in Idx /\ u \in live
      BY <2>2 DEF GraphInv, TypeOK, EdgesAgree
    <3> QED BY <2>1, <3>1 DEF Waits
  <2> QED BY <2>1, <2>3 DEF GraphInv, NothingLost
<1> QED BY <1>1, WaitsHold, GraphInvariant, PTL

(* Closures never wait for each other alone: what is unfinished includes a *)
(* task, so runAll (Sh3Runtime.cpp:214), which looks at tasks only, leaves *)
(* nothing behind.                                                         *)
TaskRemains == live # {} => live \ closures # {}

THEOREM TaskRemainsHolds == Spec => []TaskRemains
<1>1. GraphInv /\ WaitInv => TaskRemains
  <2> SUFFICES ASSUME GraphInv, WaitInv, live # {}, live \subseteq closures PROVE FALSE
    BY DEF TaskRemains
  <2>1. /\ live \subseteq Idx /\ live \subseteq Nat /\ TypeOK
        /\ \A x \in Idx : upAtBirth[x] \subseteq Idx /\ \A u \in upAtBirth[x] : u < x
    BY MaxTaskAssumption DEF GraphInv, TypeOK, HistoryKept, Issued, Idx
  <2>2. PICK c \in live : \A y \in live : ~ (<<y, c>> \in OpToRel(<, Nat))
    BY <2>1, NatLessThanWellFounded, WFMin
  <2>3. \A y \in live : ~ (y < c)
    BY <2>1, <2>2 DEF OpToRel
  <2>4. c \in Idx /\ c \in closures /\ mUpstream[c] # {} /\ mUpstream[c] \subseteq Reach(c)
    BY <2>1, <2>2 DEF GraphInv, NothingLost, WaitInv, UpInReach
  <2>5. mUpstream[c] \subseteq live
    BY <2>1, <2>4 DEF GraphInv, EdgesAgree, TypeOK
  <2>6. PICK u \in mUpstream[c] : u \in live /\ u \in Reach(c) /\ u \notin Tasks
    BY <2>4, <2>5 DEF Tasks
  <2>7. Reach(c) \subseteq upAtBirth[c] \cup (Tasks \cap Idx)
    <3> DEFINE S == upAtBirth[c] \cup (Tasks \cap Idx)
    <3>1. S \in SUBSET Idx
      BY <2>1, <2>4
    <3>2. Tasks \subseteq Idx
      BY <2>1, MaxTaskAssumption DEF Tasks, Issued, Idx, TypeOK
    <3>3. ReachClosed(c, S)
      BY <3>2 DEF ReachClosed
    <3> QED BY <2>4, <3>1, <3>3, ReachIsLeast
  <2>8. u \in upAtBirth[c]
    BY <2>6, <2>7
  <2> QED BY <2>1, <2>3, <2>4, <2>6, <2>8
<1> QED BY <1>1, WaitsHold, GraphInvariant, PTL
=============================================================================
