------------------------------ MODULE TaskGraph ------------------------------
(***************************************************************************)
(* The task scheduler of aby3/Common/Task.h, seen as a graph of sets.      *)
(*                                                                         *)
(* A task is an index, issued in increasing order.  Indices are of two     *)
(* sorts: tasks (made by Scheduler::addTask, run by popTask) and closures  *)
(* (made by Scheduler::addClosure, never run, "removed" when everything    *)
(* they wait for is gone).  The state is what Scheduler::mTasks, mReady    *)
(* and mNextRound hold, without the order inside each of them; module      *)
(* Scheduler has the order and the recursion of removeTask, and implements *)
(* this module.                                                            *)
(***************************************************************************)
EXTENDS Integers, FiniteSets

CONSTANT MaxTask    \* bound on the number of indices ever issued
ASSUME MaxTaskAssumption == MaxTask \in Nat

Idx == 0 .. (MaxTask - 1)
Types == {"Round", "Continuation"}

VARIABLES
  mTaskIdx,     \* next index to issue
  live,         \* the keys of mTasks
  closures,     \* indices issued by addClosure (live or not)
  mType,        \* TaskBase::mType
  mUpstream, mDownstream, mClosures,  \* TaskBase's three lists, as sets
  mReady, mNextRound,                 \* the two run queues, as sets
  upAtBirth,    \* history: mUpstream as addTask / addClosure left it
  acyclic       \* history: has every task been added without closing a circle?

vars == <<mTaskIdx, live, closures, mType, mUpstream, mDownstream, mClosures,
          mReady, mNextRound, upAtBirth, acyclic>>

Issued == 0 .. (mTaskIdx - 1)
Completed == Issued \ live          \* Sh3Task::isCompleted: not a key of mTasks
Tasks == Issued \ closures

TypeOK ==
  /\ mTaskIdx \in 0 .. MaxTask
  /\ live \subseteq Issued
  /\ closures \subseteq Issued
  /\ mType \in [Idx -> Types]
  /\ mUpstream \in [Idx -> SUBSET Idx]
  /\ mDownstream \in [Idx -> SUBSET Idx]
  /\ mClosures \in [Idx -> SUBSET Idx]
  /\ mReady \subseteq Issued
  /\ mNextRound \subseteq Issued
  /\ upAtBirth \in [Idx -> SUBSET Idx]
  /\ acyclic \in BOOLEAN

Nothing == [i \in Idx |-> {}]

Init ==
  /\ mTaskIdx = 0
  /\ live = {}
  /\ closures = {}
  /\ mType = [i \in Idx |-> "Round"]
  /\ mUpstream = Nothing /\ mDownstream = Nothing /\ mClosures = Nothing
  /\ mReady = {} /\ mNextRound = {}
  /\ upAtBirth = Nothing
  /\ acyclic = TRUE

-----------------------------------------------------------------------------
(* What a closure promises to wait for: the dependencies it was made with, *)
(* the tasks added behind one of those while it was live, the tasks added  *)
(* behind these, and so on (the least set closed under that).              *)
ReachClosed(c, S) ==
  /\ upAtBirth[c] \subseteq S
  /\ \A y \in Tasks : upAtBirth[y] \cap S # {} => y \in S

Reach(c) ==
  LET closed == {S \in SUBSET Idx : ReachClosed(c, S)}
  IN {x \in Idx : \A S \in closed : x \in S}

(* Everything that D waits for, now or later: its upstream, and behind a   *)
(* closure all of that closure's Reach.                                    *)
WaitsFor(D) ==
  LET waits == UNION {{x} \X (mUpstream[x] \cup (IF x \in closures THEN Reach(x) ELSE {})) : x \in live}
      closed == {W \in SUBSET Idx : D \subseteq W /\ \A e \in waits : e[1] \in W => e[2] \in W}
  IN {x \in Idx : \A W \in closed : x \in W}

(* A new task behind D must not extend the Reach of a closure that D waits *)
(* for: the closure would then wait for the task and the task for it.      *)
Acyclic(D) ==
  \A c \in closures \cap live : D \cap live \cap Reach(c) # {} => c \notin WaitsFor(D \cap live)

(* mTaskIdx++, in addTask and addClosure.                                  *)
BugNextIdx == mTaskIdx
NextIdx == mTaskIdx + 1

(* Scheduler::addTask.  A dependency that is not in mTasks has completed   *)
(* (or is the null task) and is skipped; a task left with no upstream is   *)
(* ready at once, in the current round.                                    *)
AddTask(t, deps) ==
  LET idx == mTaskIdx
      up  == deps \cap live
  IN /\ mTaskIdx < MaxTask
     /\ mTaskIdx' = NextIdx
     /\ live' = live \cup {idx}
     /\ mType' = [mType EXCEPT ![idx] = t]
     /\ mUpstream' = [mUpstream EXCEPT ![idx] = up]
     /\ mDownstream' = [d \in Idx |-> IF d \in up THEN mDownstream[d] \cup {idx}
                                                  ELSE mDownstream[d]]
     /\ mReady' = IF up = {} THEN mReady \cup {idx} ELSE mReady
     /\ upAtBirth' = [upAtBirth EXCEPT ![idx] = up]
     /\ acyclic' = (acyclic /\ Acyclic(deps))
     /\ UNCHANGED <<closures, mClosures, mNextRound>>

(* Scheduler::addClosure.  The closure registers with its dependencies; if *)
(* all of them have completed it never enters mTasks: it is complete.      *)
AddClosure(deps) ==
  LET idx == mTaskIdx
      up  == deps \cap live
  IN /\ mTaskIdx < MaxTask
     /\ mTaskIdx' = NextIdx
     /\ closures' = closures \cup {idx}
     /\ live' = IF up = {} THEN live ELSE live \cup {idx}
     /\ mType' = [mType EXCEPT ![idx] = "Continuation"]
     /\ mUpstream' = [mUpstream EXCEPT ![idx] = up]
     /\ mClosures' = [d \in Idx |-> IF d \in up THEN mClosures[d] \cup {idx}
                                                ELSE mClosures[d]]
     /\ upAtBirth' = [upAtBirth EXCEPT ![idx] = up]
     /\ UNCHANGED <<mDownstream, mReady, mNextRound, acyclic>>

(* Scheduler::currentTask: an exhausted round is replaced by the next one. *)
CurrentTask ==
  /\ mReady = {} /\ mNextRound # {}
  /\ mReady' = mNextRound
  /\ mNextRound' = mReady
  /\ UNCHANGED <<mTaskIdx, live, closures, mType, mUpstream, mDownstream,
                 mClosures, upAtBirth, acyclic>>

-----------------------------------------------------------------------------
(* Scheduler::removeTask recurses through the closures that the removal    *)
(* empties.  A closure is emptied when everything it waits for is removed  *)
(* and had no downstream task to hand the closure on to.  Cascade(i) is    *)
(* the least set of closures with that property, starting from task i.     *)
(* (Operators named Bug... are slips of the operator they precede; the     *)
(* mutants of PROJECT.json put them in its place.)                         *)
BugEmptiedEarly(c, removed) == mUpstream[c] \subseteq removed
BugEmptiedNever(c, removed) == FALSE
Emptied(c, removed) ==
  /\ mUpstream[c] \subseteq removed
  /\ \A u \in mUpstream[c] : mDownstream[u] = {}

CascadeClosed(i, S) ==
  \A c \in live \cap closures : Emptied(c, {i} \cup S) => c \in S

Cascade(i) ==
  {c \in live \cap closures :
     \A S \in SUBSET (live \cap closures) : CascadeClosed(i, S) => c \in S}

Removed(i) == {i} \cup Cascade(i)

(* The tasks that the removal leaves with nothing to wait for.             *)
BugReleasedByOne(R) == {d \in live \ closures : mUpstream[d] \cap R # {}}
BugReleasedNotRound(R) ==
  {d \in live \ closures : mUpstream[d] # {} /\ mUpstream[d] \subseteq R /\ mType[d] # "Round"}
Released(R) == {d \in live \ closures : mUpstream[d] # {} /\ mUpstream[d] \subseteq R}

(* What closure x waits for instead of the removed tasks.                  *)
TakenOver(x, R) ==
  IF x \in closures THEN UNION {mDownstream[u] : u \in R \cap mUpstream[x]} ELSE {}

(* popTask = removeTask of the front of mReady, then pop_front.  Each      *)
(* removed task leaves the upstream of its downstream tasks and hands them *)
(* its closures, which then wait for them instead.                         *)
PopTask(i) ==
  LET R == Removed(i)
      released == Released(R)
  IN /\ i \in mReady
     /\ live' = live \ R
     /\ mUpstream' = [x \in Idx |->
          IF x \in R THEN {}
          ELSE (mUpstream[x] \ R) \cup TakenOver(x, R)]
     /\ mDownstream' = [x \in Idx |-> IF x \in R THEN {} ELSE mDownstream[x]]
     /\ mClosures' = [x \in Idx |->
          IF x \in R THEN {}
          ELSE mClosures[x] \cup UNION {mClosures[u] : u \in {r \in R : x \in mDownstream[r]}}]
     /\ mReady' = (mReady \ {i}) \cup {d \in released : mType[d] = "Continuation"}
     /\ mNextRound' = mNextRound \cup {d \in released : mType[d] = "Round"}
     /\ UNCHANGED <<mTaskIdx, closures, mType, upAtBirth, acyclic>>

Next ==
  \/ \E t \in Types, deps \in SUBSET Issued : AddTask(t, deps)
  \/ \E deps \in SUBSET Issued : AddClosure(deps)
  \/ CurrentTask
  \/ \E i \in mReady : PopTask(i)

Spec == Init /\ [][Next]_vars

-----------------------------------------------------------------------------
(* A task is never made runnable, and never completes, before everything   *)
(* it was added behind has completed (Sh3Task::then's promise).            *)
DependencyOrder ==
  \A x \in mReady \cup mNextRound \cup Completed : upAtBirth[x] \subseteq Completed

(* The two ends of every edge agree, and no entry outlives its task: the   *)
(* throw RTE_LOC tests of removeTask and removeUpstream cannot fire.       *)
EdgesAgree ==
  /\ \A u, x \in Idx :
       /\ x \in mDownstream[u] <=> x \notin closures /\ u \in mUpstream[x]
       /\ x \in mClosures[u] <=> x \in closures /\ u \in mUpstream[x]
       /\ u \in mUpstream[x] => u \in live /\ x \in live
  /\ \A x \in live \ closures : mUpstream[x] = upAtBirth[x] \cap live

(* Waits point backwards and a wait that was not served is still there.    *)
HistoryKept ==
  /\ \A x \in Idx : upAtBirth[x] \subseteq (0 .. (x - 1)) \cap Issued
  /\ \A x \in live : upAtBirth[x] \cap live \subseteq mUpstream[x]
  /\ \A x \in Completed : upAtBirth[x] \cap live = {}
  /\ \A x \in Idx \ Issued : upAtBirth[x] = {}

(* No task is lost and none is queued twice: a live task with nothing left *)
(* to wait for is in exactly one of the queues, and the queues hold        *)
(* nothing else; a live closure always waits for something.                *)
NothingLost ==
  /\ mReady \cap mNextRound = {}
  /\ mReady \cup mNextRound = {x \in live \ closures : mUpstream[x] = {}}
  /\ \A c \in live \cap closures : mUpstream[c] # {}

(* A closure is complete only when everything in its Reach is: the promise *)
(* of Sh3Task::getClosure, as far as the code keeps it.  (What was added   *)
(* behind another closure of the same tasks is not in the Reach: a closure *)
(* is handed to downstream tasks only.)                                    *)
ClosureCovers ==
  \A c \in closures \cap Completed : Reach(c) \subseteq Completed

(* Why it holds: a closure waits directly for every unfinished task of its *)
(* Reach, but for those that wait for another task of its Reach.           *)
CoverInv ==
  \A c \in live \cap closures : \A x \in Reach(c) \cap live :
    \/ x \in mUpstream[c]
    \/ x \notin closures /\ mUpstream[x] \cap Reach(c) # {}

-----------------------------------------------------------------------------
(* While anything is unfinished there is a task to run, so currentTask     *)
(* (Task.h:208-209) does not throw: unless the program has added a task    *)
(* behind a closure that has to wait for that very task.                   *)
NeverStuck == acyclic /\ live # {} => mReady \cup mNextRound # {}

=============================================================================
