------------------------------ MODULE Sh3Runtime ------------------------------
(***************************************************************************)
(* One party's Sh3Runtime (aby3/sh3/Sh3Runtime.cpp): a Scheduler, the map  *)
(* from index to task function, and the thread that adds tasks and drives  *)
(* them with get, runAll, runOneRound and runNext.  A task function may    *)
(* itself add tasks, drive the runtime (which runNext forbids) or throw.   *)
(* Handles of other runtimes are not modelled: addTask overwrites mSched,  *)
(* so a handle is its index.  Operators named Bug... are slips of the      *)
(* operator they precede; mutants put them in its place.                   *)
(***************************************************************************)
EXTENDS SchedulerOps, FiniteSets

CONSTANTS
  MaxTask,        \* bound on the number of tasks and closures ever added
  MaxDeps,        \* bound on the dependencies given to one addTask
  MaxDepth,       \* bound on nested get / runAll calls
  MaxNested,      \* functions drive the runtime or throw only while at most
                  \* this many tasks and closures have been added (a bound)
  Kinds,          \* the functions added: "RoundFunc", "ContinuationFunc", "And"
  BodiesThrow     \* may a task function throw?

ASSUME BoundsAssumption == MaxTask \in Nat /\ MaxDeps \in Nat /\ MaxDepth \in Nat /\ MaxNested \in Nat
ASSUME KindsAssumption == Kinds \subseteq {"RoundFunc", "ContinuationFunc", "And"}
ASSUME ThrowAssumption == BodiesThrow \in BOOLEAN

Idx == 0 .. (MaxTask - 1)
NoTask == -1

VARIABLES
  sched,          \* mSched
  mTasks,         \* mTasks: index -> kind of mFunc
  mIsActive,      \* mIsActive
  calls,          \* the thread's stack of get / runAll / ... calls, outermost first
  thrown,         \* is an exception on its way to the innermost caller?
  round,          \* history: how often currentTask has started a new round
  ranIn,          \* history: the round in which each task's function was called
  bornType, upAtBirth, closures, acyclic  \* history, as in module Scheduler

history == <<round, ranIn, bornType, upAtBirth, closures, acyclic>>
vars == <<sched, mTasks, mIsActive, calls, thrown, history>>

Issued == 0 .. (sched.mTaskIdx - 1)
BugIsCompleted(x) == x \notin DOMAIN mTasks
IsCompleted(x) == x \notin Live(sched)         \* Sh3Task::isCompleted
Completed == {x \in Issued : IsCompleted(x)}

Init ==
  /\ sched = NewScheduler
  /\ mTasks = << >>
  /\ mIsActive = FALSE
  /\ calls = <<>>
  /\ thrown = FALSE
  /\ round = 1
  /\ ranIn = [x \in Idx |-> 0]
  /\ bornType = [x \in Idx |-> "Round"]
  /\ upAtBirth = [x \in Idx |-> {}]
  /\ closures = {}
  /\ acyclic = TRUE

(* The graph this runtime builds.                                          *)
S == INSTANCE Scheduler WITH TaskTypes <- {"Round"}

-----------------------------------------------------------------------------
(* Where the thread is.  A frame whose running is NoTask is in the loop of *)
(* its call, otherwise in the function of that task.                       *)
Top == Last(calls)
InProgram == calls = <<>> /\ ~ thrown
InBody == calls # <<>> /\ ~ thrown /\ Top.running # NoTask
InLoop == calls # <<>> /\ ~ thrown /\ Top.running = NoTask

(* And has no function to run user code in.                                *)
UserCode == InProgram \/ (InBody /\ mTasks[Top.running] # "And")

Born(t, deps) ==
  /\ bornType' = [bornType EXCEPT ![sched.mTaskIdx] = t]
  /\ upAtBirth' = [upAtBirth EXCEPT ![sched.mTaskIdx] = deps \cap Live(sched)]

BugTypeOf(kind) == IF kind = "And" THEN "Continuation" ELSE "Round"
TypeOf(kind) == "Round"

(* addTask (both overloads) and addAnd: a Round task of the scheduler,     *)
(* whatever the function; its entry in mTasks follows.                     *)
AddTaskFunc(kind, deps) ==
  /\ UserCode /\ sched.mTaskIdx < MaxTask
  /\ sched' = AddTask(sched, TypeOf(kind), deps)
  /\ mTasks' = [x \in DOMAIN mTasks \cup {sched.mTaskIdx} |->
                  IF x = sched.mTaskIdx THEN kind ELSE mTasks[x]]
  /\ Born(TypeOf(kind), deps)
  /\ acyclic' = (acyclic /\ S!G!Acyclic(deps))
  /\ UNCHANGED <<mIsActive, calls, thrown, round, ranIn, closures>>

(* addClosure, of one task.                                                *)
GetClosure(dep) ==
  /\ UserCode /\ sched.mTaskIdx < MaxTask
  /\ sched' = AddClosure(sched, {dep})
  /\ Born("Continuation", {dep})
  /\ closures' = closures \cup {sched.mTaskIdx}
  /\ UNCHANGED <<mTasks, mIsActive, calls, thrown, round, ranIn, acyclic>>

Push(op, target) ==
  calls' = Append(calls, [op |-> op, target |-> target, running |-> NoTask])

Pop == calls' = Front(calls)
Swapped(s) == sched.mReady = <<>> /\ s.mReady # <<>>

(* runUntilTaskCompletes, runAll and runNext have nothing before the loop; *)
(* runOneRound returns if nothing is unfinished, else looks for the        *)
(* current task, which starts the round.                                   *)
Drive(op, target) ==
  /\ UserCode /\ Len(calls) < MaxDepth
  /\ InBody => sched.mTaskIdx <= MaxNested
  /\ \/ /\ op # "runOneRound"
        /\ Push(op, target)
        /\ UNCHANGED <<sched, round, thrown>>
     \/ /\ op = "runOneRound" /\ Live(sched) # {}
        /\ LET s == CurrentTask(sched)
           IN IF s.threw = "no"
                THEN /\ Push(op, target)
                     /\ sched' = s
                     /\ round' = IF Swapped(s) THEN round + 1 ELSE round
                     /\ UNCHANGED thrown
                ELSE thrown' = TRUE /\ UNCHANGED <<calls, sched, round>>
  /\ UNCHANGED <<mTasks, mIsActive, ranIn, bornType, upAtBirth, closures, acyclic>>

-----------------------------------------------------------------------------
(* The loop conditions; runNext's "loop" runs once.                        *)
Continues(f) ==
  \/ f.op = "get" /\ ~ IsCompleted(f.target)
  \/ f.op = "runAll" /\ DOMAIN mTasks # {}
  \/ f.op = "runOneRound" /\ sched.mReady # <<>>
  \/ f.op = "runNext" /\ f.target = NoTask

Return ==
  /\ InLoop /\ ~ Continues(Top)
  /\ Pop
  /\ UNCHANGED <<sched, mTasks, mIsActive, thrown, history>>

(* runNext up to the call of the task's function: it refuses while another *)
(* function runs, and currentTask throws when nothing can run.             *)
MayEnter == ~ mIsActive

BugRunNextThrows ==
  /\ InLoop /\ Continues(Top)
  /\ ~ MayEnter \/ CurrentTask(sched).threw # "no"
  /\ UNCHANGED vars

RunNextThrows ==
  /\ InLoop /\ Continues(Top)
  /\ ~ MayEnter \/ CurrentTask(sched).threw # "no"
  /\ thrown' = TRUE /\ Pop
  /\ UNCHANGED <<sched, mTasks, mIsActive, history>>

RunNextEnters ==
  LET s == CurrentTask(sched)
      idx == Head(s.mReady)
  IN /\ InLoop /\ Continues(Top) /\ MayEnter
     /\ s.threw = "no"
     /\ sched' = s
     /\ mIsActive' = TRUE
     /\ calls' = [calls EXCEPT ![Len(calls)].running = idx]
     /\ round' = IF Swapped(s) THEN round + 1 ELSE round
     /\ ranIn' = [ranIn EXCEPT ![idx] = round']
     /\ UNCHANGED <<mTasks, thrown, bornType, upAtBirth, closures, acyclic>>

(* mTasks.erase.                                                           *)
BugErased(x) == mTasks
Erased(x) == [y \in DOMAIN mTasks \ {x} |-> mTasks[y]]

(* runNext after the function has returned.                                *)
RunNextLeaves ==
  /\ InBody
  /\ mIsActive' = FALSE
  /\ mTasks' = Erased(Top.running)
  /\ sched' = PopTask(sched)
  /\ calls' = [calls EXCEPT ![Len(calls)].running = NoTask,
                            ![Len(calls)].target = IF Top.op = "runNext" THEN 0 ELSE @]
  /\ UNCHANGED <<thrown, history>>

(* An exception leaves the function, runNext and the call that drives it;  *)
(* nothing on the way resets mIsActive or removes the task.                *)
BugAfterThrow == FALSE
AfterThrow == mIsActive

BodyThrows ==
  /\ InBody /\ BodiesThrow /\ mTasks[Top.running] # "And"
  /\ sched.mTaskIdx <= MaxNested
  /\ thrown' = TRUE
  /\ Pop
  /\ mIsActive' = AfterThrow
  /\ UNCHANGED <<sched, mTasks, history>>

(* The function that called get catches what get threw, or does not.       *)
Caught ==
  /\ thrown
  /\ thrown' = FALSE
  /\ UNCHANGED <<sched, mTasks, mIsActive, calls, history>>

Unwind ==
  /\ thrown /\ calls # <<>>
  /\ Pop
  /\ mIsActive' = AfterThrow
  /\ UNCHANGED <<sched, mTasks, thrown, history>>

-----------------------------------------------------------------------------
Deps == {D \in SUBSET Issued : Cardinality(D) <= MaxDeps}

Program ==
  \/ \E kind \in Kinds, deps \in Deps : AddTaskFunc(kind, deps)
  \/ \E dep \in Issued : GetClosure(dep)
  \/ \E target \in Issued : Drive("get", target)
  \/ \E op \in {"runAll", "runOneRound", "runNext"} : Drive(op, NoTask)
  \/ BodyThrows

Runtime == Return \/ RunNextThrows \/ RunNextEnters \/ RunNextLeaves \/ Caught \/ Unwind

Next == Program \/ Runtime

Spec == Init /\ [][Next]_vars

(* The thread does not stop inside the runtime, and no task function goes  *)
(* on for ever: one that has called get again and again returns some time. *)
(* The program need not do anything.                                       *)
FairSpec == Spec /\ WF_vars(Runtime) /\ SF_vars(RunNextLeaves)

-----------------------------------------------------------------------------
TypeOK ==
  /\ S!TypeOK
  /\ DOMAIN mTasks \subseteq Issued /\ \A x \in DOMAIN mTasks : mTasks[x] \in Kinds
  /\ mIsActive \in BOOLEAN /\ thrown \in BOOLEAN
  /\ Len(calls) <= MaxDepth
  /\ \A i \in DOMAIN calls : calls[i].running \in Idx \cup {NoTask}

(* The runtime's map holds exactly the unfinished tasks, not the closures: *)
(* runNext always finds the function of the current task, runAll stops     *)
(* when the last task does, and a closure has no name (basePtr is null).   *)
MirrorsScheduler == DOMAIN mTasks = Live(sched) \ closures

Running(x) == \E i \in DOMAIN calls : calls[i].running = x

(* A task's function is called at most once, also after an exception: a    *)
(* task whose function threw is never retried.                             *)
RunsOnce == [][\A x \in Idx : ~ Running(x) /\ Running(x)' => ranIn[x] = 0]_vars

(* A task runs in a later round than each task it was added behind, and    *)
(* than each task covered by a closure it was added behind, if these were  *)
(* unfinished when it was added.                                           *)
RoundSeparation ==
  \A x \in Idx : \A u \in upAtBirth[x] : ranIn[x] # 0 =>
    \A y \in (IF u \in closures THEN S!G!Reach(u) \ closures ELSE {u}) :
      ranIn[y] # 0 /\ ranIn[y] < ranIn[x]

(* get() of a task returns only when it is complete, get() of a closure    *)
(* only when all that the closure covers is; runAll() only when nothing is *)
(* left, no closure either.                                                *)
Returns(op) == calls # <<>> /\ Top.op = op /\ calls' = Front(calls) /\ ~ thrown'

GetMeansDone ==
  [][Returns("get") =>
       /\ Top.target \in Completed
       /\ Top.target \in closures => S!G!Reach(Top.target) \subseteq Completed]_vars

RunAllMeansDone ==
  [][Returns("runAll") => Live(sched) = {} /\ sched.mReady = <<>> /\ sched.mNextRound = <<>>]_vars

(* The runtime drives its scheduler as module Scheduler describes.         *)
ImplementsScheduler == S!Spec

(* Every call into the runtime ends, by returning or by throwing: by       *)
(* throwing, too, when all tasks wait for each other.                      *)
CallsEnd == calls # <<>> ~> calls = <<>>

(* With acyclic waits, and while no function runs or has ever thrown, no   *)
(* call throws but a runNext() of an empty runtime: there is always a task *)
(* to run until the one asked for is complete.                             *)
OnlyEmptyThrows ==
  [][acyclic /\ ~ mIsActive /\ ~ thrown /\ thrown' => Live(sched) = {}]_vars
=============================================================================
