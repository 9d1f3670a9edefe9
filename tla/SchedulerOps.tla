----------------------------- MODULE SchedulerOps -----------------------------
(***************************************************************************)
(* The task scheduler of aby3/Common/Task.h as the code has it: lists with *)
(* an order, two FIFO queues, and the recursion of removeTask.  Each       *)
(* operator is a member function: it takes the Scheduler object and        *)
(* returns it changed, with "threw" naming the member whose throw RTE_LOC  *)
(* ended the call ("no" when none did).  Operators named Bug... are slips  *)
(* of the operator they precede; mutants put them in its place.            *)
(***************************************************************************)
EXTENDS Integers, Sequences, SequencesExt

(* TaskBase.  mUpstream is only searched, emptied and counted, so its order*)
(* (removeUpstream swaps) is never observed: a set.                        *)
TaskBase(t, up) ==
  [mType |-> t, mUpstream |-> up, mDownstream |-> <<>>, mClosures |-> <<>>]

(* addDownstream / addClosure of TaskBase: append unless present.          *)
BugAddAlways(seq, x) == Append(seq, x)
BugAddInFront(seq, x) == IF Contains(seq, x) THEN seq ELSE <<x>> \o seq
AddOnce(seq, x) == IF Contains(seq, x) THEN seq ELSE Append(seq, x)

NewScheduler ==
  [mTaskIdx |-> 0, mTasks |-> << >>, mReady |-> <<>>, mNextRound |-> <<>>, threw |-> "no"]

Live(s) == DOMAIN s.mTasks
Throw(s, where) == [s EXCEPT !.threw = IF @ = "no" THEN where ELSE @]

SetTask(s, idx, base) ==
  [s EXCEPT !.mTasks = [x \in Live(s) \cup {idx} |-> IF x = idx THEN base ELSE @[x]]]

(* addReady and addNextRound have the same checks; q names the queue.      *)
Enqueue(s, q, idx) ==
  IF idx \notin Live(s) \/ s.mTasks[idx].mUpstream # {}
    THEN Throw(s, q)
    ELSE [s EXCEPT ![q] = Append(@, idx)]

-----------------------------------------------------------------------------
(* Scheduler::addTask: dependencies not in mTasks have completed.          *)
AddTask(s, t, deps) ==
  LET idx == s.mTaskIdx
      up  == deps \cap Live(s)
      linked == [x \in Live(s) |-> IF x \in up
                   THEN [s.mTasks[x] EXCEPT !.mDownstream = AddOnce(@, idx)]
                   ELSE s.mTasks[x]]
      added == SetTask([s EXCEPT !.mTaskIdx = idx + 1, !.mTasks = linked], idx, TaskBase(t, up))
  IN IF up = {} THEN Enqueue(added, "mReady", idx) ELSE added

(* Scheduler::addClosure: registered in the mClosures of its dependencies; *)
(* with none left it is not entered, which makes it complete.              *)
AddClosure(s, deps) ==
  LET idx == s.mTaskIdx
      up  == deps \cap Live(s)
      linked == [x \in Live(s) |-> IF x \in up
                   THEN [s.mTasks[x] EXCEPT !.mClosures = AddOnce(@, idx)]
                   ELSE s.mTasks[x]]
      counted == [s EXCEPT !.mTaskIdx = idx + 1, !.mTasks = linked]
  IN IF up = {} THEN counted ELSE SetTask(counted, idx, TaskBase("Continuation", up))

(* Scheduler::currentTask: start the next round when this one is exhausted.*)
CurrentTask(s) ==
  LET t == IF s.mReady = <<>> THEN [s EXCEPT !.mReady = s.mNextRound, !.mNextRound = s.mReady]
                              ELSE s
  IN IF t.mReady = <<>> THEN Throw(t, "currentTask") ELSE t

-----------------------------------------------------------------------------
(* TaskBase::removeUpstream of task x; it throws when idx is not there.    *)
RemoveUpstream(s, x, idx) ==
  IF x \notin Live(s) \/ idx \notin s.mTasks[x].mUpstream
    THEN Throw(s, "removeUpstream")
    ELSE [s EXCEPT !.mTasks[x].mUpstream = @ \ {idx}]

(* Both loops of removeTask ask whether x has become free to go.           *)
BugFreed(s, x) == FALSE
Freed(s, x) == s.threw = "no" /\ s.mTasks[x].mUpstream = {}

BugQueueSwapped(t) == IF t = "Round" THEN "mReady" ELSE "mNextRound"
BugQueueNow(t) == "mReady"
QueueFor(t) == IF t = "Round" THEN "mNextRound" ELSE "mReady"

(* One round of removeTask's first loop: d no longer waits for idx, is     *)
(* queued if it waits for nothing, and takes over the closures of idx.     *)
HandOver(s, d, c) ==
  IF s.threw # "no" \/ c \notin Live(s) THEN Throw(s, "removeTask")
  ELSE [s EXCEPT !.mTasks[d].mClosures = AddOnce(@, c),
                 !.mTasks[c].mUpstream = @ \cup {d}]

ReleaseDownstream(s, idx, d) ==
  LET unlinked == RemoveUpstream(s, d, idx)
      queued == IF Freed(unlinked, d)
                  THEN Enqueue(unlinked, QueueFor(unlinked.mTasks[d].mType), d)
                  ELSE unlinked
  IN IF s.threw # "no" \/ d \notin Live(s) THEN Throw(s, "removeTask")
     ELSE FoldLeft(LAMBDA r, c : HandOver(r, d, c), queued, s.mTasks[idx].mClosures)

(* Scheduler::removeTask(idx), whose second loop calls removeTask for each *)
(* closure that it leaves with nothing to wait for.  What is left to do of *)
(* these calls is a list, the innermost first: <<idx, c>> is a round of the*)
(* second loop of removeTask(idx), <<idx, idx>> the erase behind the loop. *)
(* BeginRemove is removeTask up to that loop.                              *)
BeginRemove(s, idx, todo) ==
  LET cs == s.mTasks[idx].mClosures
  IN IF idx \notin Live(s) \/ s.mTasks[idx].mUpstream # {}
       THEN [sched |-> Throw(s, "removeTask"), todo |-> <<>>]
       ELSE [sched |-> FoldLeft(LAMBDA r, d : ReleaseDownstream(r, idx, d), s, s.mTasks[idx].mDownstream),
             todo  |-> [n \in DOMAIN cs |-> <<idx, cs[n]>>] \o << <<idx, idx>> >> \o todo]

Erase(s, idx) == [s EXCEPT !.mTasks = [x \in Live(s) \ {idx} |-> @[x]]]

ContinueRemove(r) ==
  LET idx == Head(r.todo)[1]
      c == Head(r.todo)[2]
      u == RemoveUpstream(r.sched, c, idx)
  IN IF r.sched.threw # "no" \/ r.todo = <<>> THEN r
     ELSE IF c = idx THEN [sched |-> Erase(r.sched, idx), todo |-> Tail(r.todo)]
     ELSE IF Freed(u, c) THEN BeginRemove(u, c, Tail(r.todo))
     ELSE [sched |-> u, todo |-> Tail(r.todo)]

(* Each pair of tasks comes up at most once.  (removal[n] is a set of one, *)
(* the state after n steps, so that TLC evaluates each step once.)         *)
RemoveTask(s, idx) ==
  LET removal[n \in Nat] ==
        IF n = 0 THEN {BeginRemove(s, idx, <<>>)} ELSE {ContinueRemove(r) : r \in removal[n - 1]}
      pairs == Cardinality(Live(s) \X Live(s))
  IN (CHOOSE r \in removal[pairs] : TRUE).sched

(* Scheduler::popTask.                                                     *)
BugPopTask(s) == IF s.mReady = <<>> THEN s ELSE RemoveTask(s, Head(s.mReady))
PopTask(s) ==
  IF s.mReady = <<>> THEN Throw(s, "popTask")
  ELSE LET r == RemoveTask(s, Head(s.mReady))
       IN IF r.threw = "no" THEN [r EXCEPT !.mReady = Tail(@)] ELSE r

=============================================================================
