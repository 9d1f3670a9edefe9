------------------------------ MODULE Scheduler ------------------------------
(***************************************************************************)
(* One Scheduler object (SchedulerOps) driven through every sequence of    *)
(* the calls that Sh3Runtime makes: addTask and addClosure at any time,    *)
(* currentTask before each popTask.  It implements TaskGraph.              *)
(***************************************************************************)
EXTENDS SchedulerOps, FiniteSets

CONSTANTS
  MaxTask,      \* bound on the number of indices ever issued
  TaskTypes     \* the types given to addTask; Sh3Runtime only uses "Round"
ASSUME MaxTaskAssumption == MaxTask \in Nat
ASSUME TaskTypesAssumption == TaskTypes \subseteq {"Round", "Continuation"}

Idx == 0 .. (MaxTask - 1)

VARIABLES
  sched,        \* the Scheduler object
  bornType, upAtBirth,  \* history: type and upstream of each index when it was issued
  closures,             \* history: the indices issued by addClosure
  acyclic               \* history: module TaskGraph's acyclic

vars == <<sched, bornType, upAtBirth, closures, acyclic>>

Issued == 0 .. (sched.mTaskIdx - 1)
Completed == Issued \ Live(sched)

Init ==
  /\ sched = NewScheduler
  /\ bornType = [x \in Idx |-> "Round"]
  /\ upAtBirth = [x \in Idx |-> {}]
  /\ closures = {}
  /\ acyclic = TRUE

-----------------------------------------------------------------------------
(* The refinement mapping forgets the order of the lists.                  *)
Listed(field) ==
  [x \in Idx |-> IF x \in Live(sched) THEN ToSet(sched.mTasks[x][field]) ELSE {}]

Upstream == [x \in Idx |-> IF x \in Live(sched) THEN sched.mTasks[x].mUpstream ELSE {}]

G == INSTANCE TaskGraph WITH
       mTaskIdx <- sched.mTaskIdx,
       live <- Live(sched),
       mType <- bornType,
       mUpstream <- Upstream,
       mDownstream <- Listed("mDownstream"),
       mClosures <- Listed("mClosures"),
       mReady <- ToSet(sched.mReady),
       mNextRound <- ToSet(sched.mNextRound)

-----------------------------------------------------------------------------
Born(t, deps) ==
  /\ bornType' = [bornType EXCEPT ![sched.mTaskIdx] = t]
  /\ upAtBirth' = [upAtBirth EXCEPT ![sched.mTaskIdx] = deps \cap Live(sched)]

Add(t, deps) ==
  /\ sched.mTaskIdx < MaxTask /\ sched.threw = "no"
  /\ sched' = AddTask(sched, t, deps)
  /\ Born(t, deps)
  /\ acyclic' = (acyclic /\ G!Acyclic(deps))
  /\ UNCHANGED closures

Close(deps) ==
  /\ sched.mTaskIdx < MaxTask /\ sched.threw = "no"
  /\ sched' = AddClosure(sched, deps)
  /\ Born("Continuation", deps)
  /\ closures' = closures \cup {sched.mTaskIdx}
  /\ UNCHANGED acyclic

(* runNext asks for the current task only while there are tasks.           *)
Current ==
  /\ Live(sched) # {} /\ sched.mReady = <<>> /\ sched.threw = "no"
  /\ sched' = CurrentTask(sched)
  /\ UNCHANGED <<bornType, upAtBirth, closures, acyclic>>

Pop ==
  /\ sched.mReady # <<>> /\ sched.threw = "no"
  /\ sched' = PopTask(sched)
  /\ UNCHANGED <<bornType, upAtBirth, closures, acyclic>>

Next ==
  \/ \E t \in TaskTypes, deps \in SUBSET Issued : Add(t, deps)
  \/ \E deps \in SUBSET Issued : Close(deps)
  \/ Current
  \/ Pop

Spec == Init /\ [][Next]_vars

-----------------------------------------------------------------------------
(* Task.h implements the graph of sets: the lists, the two loops and the   *)
(* recursion of removeTask remove exactly the least set that TaskGraph     *)
(* calls Removed(i), in one popTask.                                       *)
ImplementsTaskGraph == G!Spec

TypeOK ==
  /\ sched.mTaskIdx \in 0 .. MaxTask
  /\ Live(sched) \subseteq Issued
  /\ \A x \in Live(sched) : sched.mTasks[x] \in
       [mType : {"Round", "Continuation"}, mUpstream : SUBSET Idx,
        mDownstream : Seq(Idx), mClosures : Seq(Idx)]
  /\ sched.mReady \in Seq(Live(sched)) /\ sched.mNextRound \in Seq(Live(sched))
  /\ closures \subseteq Issued

(* None of the internal checks of Task.h fires (removeTask, removeUpstream,*)
(* addReady, addNextRound): only currentTask may throw, when every task    *)
(* waits for another one.                                                  *)
OnlyCurrentTaskThrows == sched.threw \in {"no", "currentTask"}

(* Tasks are taken in the order they were added, among those of one type   *)
(* that were added behind the same unfinished tasks: three parties that    *)
(* add the same two siblings run them in the same order.                   *)
SiblingOrder ==
  \A x, y \in Issued \ closures :
    x < y /\ bornType[x] = bornType[y] /\ upAtBirth[x] = upAtBirth[y] /\ y \in Completed
      => x \in Completed
=============================================================================
