--------------------------- MODULE Sh3RuntimeProofs ---------------------------
(***************************************************************************)
(* Theorems about Sh3Runtime, for any number of tasks and dependencies and *)
(* any depth of nested calls, whether or not task functions throw: it      *)
(* drives its scheduler as module Scheduler describes, so what is proved   *)
(* there (SchedulerProofs) and of the graph (TaskGraphProofs) holds of it; *)
(* its map mirrors the scheduler; a function is called once, in a later    *)
(* round than all it waited for; get and runAll return when they may.      *)
(***************************************************************************)
EXTENDS Sh3Runtime, SequenceTheorems, TLAPS

-----------------------------------------------------------------------------
(* The scheduler that is driven, with the theorems about it.               *)
SP == INSTANCE SchedulerProofs WITH TaskTypes <- {"Round"}

(* Its member functions are those that the runtime calls.                  *)
LEMMA SameCalls ==
  /\ \A s, t, deps : AddTask(s, t, deps) = SP!AddTask(s, t, deps)
  /\ \A s, deps : AddClosure(s, deps) = SP!AddClosure(s, deps)
  /\ \A s : CurrentTask(s) = SP!CurrentTask(s)
  /\ \A s : PopTask(s) = SP!PopTask(s)
  /\ \A s : Live(s) = SP!Live(s)
  /\ \A q : ToSet(q) = SP!ToSet(q)
  /\ NewScheduler = SP!NewScheduler
<1>1. ASSUME NEW s, NEW t, NEW deps PROVE AddTask(s, t, deps) = SP!AddTask(s, t, deps)
  BY Zenon DEF AddTask, SP!AddTask, Live, SP!Live, AddOnce, SP!AddOnce, Contains, SP!Contains,
     SetTask, SP!SetTask, TaskBase, SP!TaskBase, Enqueue, SP!Enqueue, Throw, SP!Throw
<1>2. ASSUME NEW s, NEW deps PROVE AddClosure(s, deps) = SP!AddClosure(s, deps)
  BY Zenon DEF AddClosure, SP!AddClosure, Live, SP!Live, AddOnce, SP!AddOnce, Contains, SP!Contains,
     SetTask, SP!SetTask, TaskBase, SP!TaskBase
<1>3. ASSUME NEW s PROVE CurrentTask(s) = SP!CurrentTask(s)
  BY Zenon DEF CurrentTask, SP!CurrentTask, Throw, SP!Throw
<1>4. ASSUME NEW s PROVE PopTask(s) = SP!PopTask(s)
  BY Zenon DEF PopTask, SP!PopTask, Throw, SP!Throw, RemoveTask, SP!RemoveTask, BeginRemove, SP!BeginRemove,
     ContinueRemove, SP!ContinueRemove, Erase, SP!Erase, Live, SP!Live, RemoveUpstream, SP!RemoveUpstream,
     Freed, SP!Freed, ReleaseDownstream, SP!ReleaseDownstream, HandOver, SP!HandOver, AddOnce, SP!AddOnce,
     Contains, SP!Contains, Enqueue, SP!Enqueue, QueueFor, SP!QueueFor, FoldLeft, SP!FoldLeft,
     MapThenFoldSet, SP!MapThenFoldSet, Max, SP!Max, Cardinality, SP!Cardinality
<1>5. ASSUME NEW s PROVE Live(s) = SP!Live(s) /\ ToSet(s) = SP!ToSet(s) /\ NewScheduler = SP!NewScheduler
  BY Zenon DEF Live, SP!Live, ToSet, SP!ToSet, NewScheduler, SP!NewScheduler
<1> QED
  BY <1>1, <1>2, <1>3, <1>4, <1>5

(* What is proved about is what ImplementsScheduler says.                  *)
LEMMA SameAdds ==
  ASSUME NEW t, NEW deps
  PROVE  (SP!Add(t, deps) <=> S!Add(t, deps)) /\ (SP!Close(deps) <=> S!Close(deps))
<1>1. SP!Add(t, deps) <=> S!Add(t, deps)
  BY Zenon DEF SP!Add, S!Add, SP!AddTask, S!AddTask, SP!Live, S!Live, SP!AddOnce, S!AddOnce, SP!Contains, S!Contains,
     SP!SetTask, S!SetTask, SP!TaskBase, S!TaskBase, SP!Enqueue, S!Enqueue, SP!Throw, S!Throw, SP!Born, S!Born,
     SP!Idx, S!Idx, SP!Issued, S!Issued, SP!Upstream, S!Upstream, SP!Listed, S!Listed, SP!ToSet, S!ToSet,
     SP!G!Acyclic, S!G!Acyclic, SP!G!Reach, S!G!Reach, SP!G!ReachClosed, S!G!ReachClosed, SP!G!WaitsFor, S!G!WaitsFor,
     SP!G!Tasks, S!G!Tasks, SP!G!Issued, S!G!Issued, SP!G!Idx, S!G!Idx
<1>2. SP!Close(deps) <=> S!Close(deps)
  BY Zenon DEF SP!Close, S!Close, SP!AddClosure, S!AddClosure, SP!Live, S!Live, SP!AddOnce, S!AddOnce, SP!Contains, S!Contains,
     SP!SetTask, S!SetTask, SP!TaskBase, S!TaskBase, SP!Born, S!Born
<1> QED
  BY <1>1, <1>2

(* currentTask and popTask are the same there.                             *)
LEMMA SameRuns == (SP!Current <=> S!Current) /\ (SP!Pop <=> S!Pop)
<1>1. SP!Current <=> S!Current
  BY Zenon DEF SP!Current, S!Current, SP!Live, S!Live, SP!CurrentTask, S!CurrentTask, SP!Throw, S!Throw
<1>2. SP!Pop <=> S!Pop
  BY Zenon DEF SP!Pop, S!Pop, SP!PopTask, S!PopTask, SP!Throw, S!Throw, SP!RemoveTask, S!RemoveTask, SP!BeginRemove, S!BeginRemove,
     SP!ContinueRemove, S!ContinueRemove, SP!Erase, S!Erase, SP!Live, S!Live, SP!RemoveUpstream, S!RemoveUpstream,
     SP!Freed, S!Freed, SP!ReleaseDownstream, S!ReleaseDownstream, SP!HandOver, S!HandOver, SP!AddOnce, S!AddOnce,
     SP!Contains, S!Contains, SP!Enqueue, S!Enqueue, SP!QueueFor, S!QueueFor, SP!FoldLeft, S!FoldLeft,
     SP!MapThenFoldSet, S!MapThenFoldSet, SP!Max, S!Max, SP!Cardinality, S!Cardinality
<1> QED
  BY <1>1, <1>2

(* So a step of the one is a step of the other,                            *)
LEMMA SameNext == [SP!Next]_(SP!vars) => [S!Next]_(S!vars)
<1>1. SP!Issued = S!Issued
  BY DEF SP!Issued, S!Issued
<1>2. SP!Next => S!Next
  BY <1>1, SameAdds, SameRuns DEF SP!Next, S!Next
<1> QED
  BY <1>2 DEF SP!vars, S!vars

(* and they start alike.                                                   *)
LEMMA SameInit == SP!Init => S!Init
  BY Zenon DEF SP!Init, S!Init, SP!NewScheduler, S!NewScheduler, SP!Idx, S!Idx

-----------------------------------------------------------------------------
(* What a closure covers, as a value: n indices have been issued, cs are   *)
(* closures, and birth[x] is what x was added behind.                      *)
Shut(n, cs, birth, c, W) ==
  /\ birth[c] \subseteq W
  /\ \A y \in (0 .. (n - 1)) \ cs : birth[y] \cap W # {} => y \in W

ReachIn(n, cs, birth, c) ==
  {x \in Idx : \A W \in {V \in SUBSET Idx : Shut(n, cs, birth, c, V)} : x \in W}

(* It is what module TaskGraph calls Reach, in this state and in the next. *)
LEMMA ReachIs ==
  ASSUME NEW c
  PROVE  /\ S!G!Reach(c) = ReachIn(sched.mTaskIdx, closures, upAtBirth, c)
         /\ S!G!Reach(c)' = ReachIn(sched'.mTaskIdx, closures', upAtBirth', c)
         /\ SP!GP!Reach(c) = ReachIn(sched.mTaskIdx, closures, upAtBirth, c)
<1>1. S!G!Reach(c) = ReachIn(sched.mTaskIdx, closures, upAtBirth, c)
  BY Zenon DEF S!G!Reach, S!G!ReachClosed, S!G!Tasks, S!G!Issued, S!G!Idx, ReachIn, Shut, Idx
<1>2. S!G!Reach(c)' = ReachIn(sched'.mTaskIdx, closures', upAtBirth', c)
  BY Zenon DEF S!G!Reach, S!G!ReachClosed, S!G!Tasks, S!G!Issued, S!G!Idx, ReachIn, Shut, Idx
<1>3. SP!GP!Reach(c) = ReachIn(sched.mTaskIdx, closures, upAtBirth, c)
  BY Zenon DEF SP!GP!Reach, SP!GP!ReachClosed, SP!GP!Tasks, SP!GP!Issued, SP!GP!Idx, ReachIn, Shut, Idx
<1> QED
  BY <1>1, <1>2, <1>3

(* It is shut.                                                             *)
LEMMA ReachShut ==
  ASSUME NEW n, NEW cs, NEW birth, NEW c,
         n \in 0 .. MaxTask, birth[c] \subseteq Idx
  PROVE  Shut(n, cs, birth, c, ReachIn(n, cs, birth, c))
<1> DEFINE R == ReachIn(n, cs, birth, c)
           Vs == {V \in SUBSET Idx : Shut(n, cs, birth, c, V)}
<1>1. R = {x \in Idx : \A W \in Vs : x \in W}
  BY DEF ReachIn
<1>2. birth[c] \subseteq R
  BY <1>1 DEF Shut
<1>3. ASSUME NEW y \in (0 .. (n - 1)) \ cs, birth[y] \cap R # {} PROVE y \in R
  <2>1. y \in Idx
    BY BoundsAssumption DEF Idx
  <2>2. ASSUME NEW W \in Vs PROVE y \in W
    <3>1. R \subseteq W
      BY <1>1
    <3>2. birth[y] \cap W # {}
      BY <1>3, <3>1
    <3> QED
      BY <3>2 DEF Shut
  <2> HIDE DEF Vs
  <2> QED
    BY <1>1, <2>1, <2>2
<1> QED
  BY <1>2, <1>3 DEF Shut

Apart(A, B) == A \cap B = {}

(* A new task extends it only if it is added behind a part of it,          *)
LEMMA ReachFrozen ==
  ASSUME NEW n, NEW cs, NEW birth, NEW later, NEW c,
         n \in 0 .. MaxTask, birth[c] \subseteq Idx, later[c] = birth[c],
         \A y \in 0 .. (n - 1) : later[y] = birth[y],
         Apart(later[n], ReachIn(n, cs, birth, c))
  PROVE  ReachIn(n + 1, cs, later, c) = ReachIn(n, cs, birth, c)
<1> DEFINE R == ReachIn(n, cs, birth, c)
<1>0. n \in Nat /\ \A y \in 0 .. (n + 1 - 1) : y \in 0 .. (n - 1) \/ y = n
  BY BoundsAssumption
<1>1. \A W : Shut(n + 1, cs, later, c, W) => Shut(n, cs, birth, c, W)
  <2>1. \A y \in 0 .. (n - 1) : y \in 0 .. (n + 1 - 1)
    BY <1>0
  <2> QED
    BY <2>1 DEF Shut
<1>2. Shut(n, cs, birth, c, R)
  BY ReachShut
<1>3. Shut(n + 1, cs, later, c, R)
  BY <1>0, <1>2 DEF Shut, Apart
<1>4. R \in SUBSET Idx
  BY DEF ReachIn
<1>5. ReachIn(n + 1, cs, later, c) \subseteq R
  <2> HIDE DEF R
  <2> QED
    BY <1>3, <1>4 DEF ReachIn
<1>6. R \subseteq ReachIn(n + 1, cs, later, c)
  BY <1>1 DEF ReachIn
<1> QED
  BY <1>5, <1>6

(* and a new closure does not.                                             *)
LEMMA ReachSame ==
  ASSUME NEW n, NEW cs, NEW birth, NEW later, NEW c,
         n \in 0 .. MaxTask, later[c] = birth[c],
         \A y \in 0 .. (n - 1) : later[y] = birth[y]
  PROVE  ReachIn(n + 1, cs \cup {n}, later, c) = ReachIn(n, cs, birth, c)
<1>1. (0 .. (n + 1 - 1)) \ (cs \cup {n}) = (0 .. (n - 1)) \ cs
  BY BoundsAssumption
<1>2. \A W : Shut(n + 1, cs \cup {n}, later, c, W) <=> Shut(n, cs, birth, c, W)
  BY <1>1 DEF Shut
<1> QED
  BY <1>2 DEF ReachIn

-----------------------------------------------------------------------------
(* The stack of calls.  Only the outermost call can be in a function, as   *)
(* runNext refuses while one is running; a call made by that function is   *)
(* in its loop, and its next runNext throws.                               *)
Frame == [op : {"get", "runAll", "runOneRound", "runNext"}, target : Int, running : Int]

FramesOk(fs, active, ready, n, ran) ==
  /\ fs \in Seq(Frame) /\ Len(fs) <= MaxDepth
  /\ \A i \in DOMAIN fs : fs[i].op = "get" => fs[i].target \in 0 .. (n - 1)
  /\ \A i \in DOMAIN fs : fs[i].running # NoTask =>
       i = 1 /\ active = TRUE /\ ready # <<>> /\ fs[i].running = Head(ready) /\ ran[Head(ready)] # 0
  /\ Len(fs) > 1 => fs[1].running # NoTask

(* The queue may grow behind its head while calls are in progress.         *)
LEMMA FramesStay ==
  ASSUME NEW fs, NEW active, NEW ready, NEW longer, NEW n, NEW m, NEW ran,
         FramesOk(fs, active, ready, n, ran), n \in Nat, m \in Nat, n <= m,
         ready # <<>> => longer # <<>> /\ Head(longer) = Head(ready)
  PROVE  FramesOk(fs, active, longer, m, ran)
<1>1. \A x \in 0 .. (n - 1) : x \in 0 .. (m - 1)
  OBVIOUS
<1> QED
  BY <1>1 DEF FramesOk

(* What the modules of sequences say of a stack of frames.                 *)
LEMMA SeqFacts ==
  ASSUME NEW fs, fs \in Seq(Frame)
  PROVE  /\ Len(fs) \in Nat /\ DOMAIN fs = 1 .. Len(fs) /\ (fs = <<>> <=> Len(fs) = 0)
         /\ \A i \in DOMAIN fs : fs[i] \in Frame
         /\ fs # <<>> => /\ Last(fs) = fs[Len(fs)] /\ Len(fs) \in DOMAIN fs
                         /\ Front(fs) \in Seq(Frame) /\ Len(Front(fs)) = Len(fs) - 1
                         /\ \A i \in DOMAIN Front(fs) : i \in DOMAIN fs /\ Front(fs)[i] = fs[i]
<1>1. Len(fs) \in Nat /\ DOMAIN fs = 1 .. Len(fs) /\ (fs = <<>> <=> Len(fs) = 0)
  BY LenProperties, EmptySeq
<1>2. ASSUME fs # <<>>
      PROVE  /\ Front(fs) \in Seq(Frame) /\ Len(Front(fs)) = Len(fs) - 1
             /\ \A i \in DOMAIN Front(fs) : i \in DOMAIN fs /\ Front(fs)[i] = fs[i]
  <2>1. Front(fs) = SubSeq(fs, 1, Len(fs) - 1)
    BY DEF Front
  <2>2. Len(fs) - 1 \in Nat /\ \A i \in 1 .. (Len(fs) - 1) : fs[i] \in Frame
    BY <1>1, <1>2
  <2>3. SubSeq(fs, 1, Len(fs) - 1) = [i \in 1 .. (Len(fs) - 1) |-> fs[i]]
    <3>1. SubSeq(fs, 1, Len(fs) - 1) = [i \in 1 .. (Len(fs) - 1 - 1 + 1) |-> fs[i + 1 - 1]]
      BY <1>1, <2>2
    <3> QED
      BY <1>1, <2>2, <3>1
  <2>4. SubSeq(fs, 1, Len(fs) - 1) \in Seq(Frame)
    BY <2>2, <2>3
  <2> QED
    BY <1>1, <2>1, <2>2, <2>3, <2>4
<1>3. \A i \in DOMAIN fs : fs[i] \in Frame
  BY <1>1
<1>4. fs # <<>> => Last(fs) = fs[Len(fs)] /\ Len(fs) \in DOMAIN fs
  BY <1>1 DEF Last
<1> HIDE DEF Frame
<1> QED
  BY <1>1, <1>2, <1>3, <1>4

(* A call is made by the program, or by the function that is running.      *)
LEMMA FramesPush ==
  ASSUME NEW fs, NEW f, NEW active, NEW ready, NEW n, NEW ran,
         FramesOk(fs, active, ready, n, ran), Len(fs) < MaxDepth,
         fs = <<>> \/ Last(fs).running # NoTask,
         f \in Frame, f.running = NoTask, f.op = "get" => f.target \in 0 .. (n - 1)
  PROVE  FramesOk(Append(fs, f), active, ready, n, ran)
<1>1. fs \in Seq(Frame)
  BY DEF FramesOk
<1>2. /\ Len(fs) \in Nat /\ DOMAIN fs = 1 .. Len(fs) /\ (fs = <<>> <=> Len(fs) = 0)
      /\ fs # <<>> => Last(fs) = fs[Len(fs)] /\ Len(fs) \in DOMAIN fs
  BY <1>1, SeqFacts
<1>3. /\ Append(fs, f) \in Seq(Frame) /\ Len(Append(fs, f)) = Len(fs) + 1
      /\ DOMAIN Append(fs, f) = 1 .. (Len(fs) + 1)
      /\ \A i \in 1 .. Len(fs) : Append(fs, f)[i] = fs[i]
      /\ Append(fs, f)[Len(fs) + 1] = f
  BY <1>1, <1>2, AppendProperties
<1>4. fs # <<>> => Len(fs) = 1 /\ fs[1].running # NoTask
  BY <1>2 DEF FramesOk
<1>5. ASSUME NEW i \in DOMAIN Append(fs, f)
      PROVE  (i \in DOMAIN fs /\ Append(fs, f)[i] = fs[i]) \/ Append(fs, f)[i] = f
  BY <1>2, <1>3
<1>6. Len(Append(fs, f)) > 1 => Append(fs, f)[1].running # NoTask
  BY <1>2, <1>3, <1>4
<1>7. Len(Append(fs, f)) <= MaxDepth
  BY <1>2, <1>3, BoundsAssumption
<1> QED
  BY <1>3, <1>5, <1>6, <1>7 DEF FramesOk

(* A call ends, by returning or by throwing.                               *)
LEMMA FramesPop ==
  ASSUME NEW fs, NEW active, NEW ready, NEW n, NEW ran,
         FramesOk(fs, active, ready, n, ran), fs # <<>>
  PROVE  FramesOk(Front(fs), active, ready, n, ran)
<1>1. fs \in Seq(Frame)
  BY DEF FramesOk
<1>2. /\ Len(fs) \in Nat /\ Front(fs) \in Seq(Frame) /\ Len(Front(fs)) = Len(fs) - 1 /\ DOMAIN Front(fs) = 1 .. (Len(fs) - 1)
      /\ \A i \in DOMAIN Front(fs) : i \in DOMAIN fs /\ Front(fs)[i] = fs[i]
  BY <1>1, SeqFacts
<1>3. Len(Front(fs)) > 1 => Front(fs)[1].running # NoTask
  BY <1>2 DEF FramesOk
<1>4. Len(Front(fs)) <= MaxDepth
  BY <1>2, BoundsAssumption DEF FramesOk
<1> QED
  BY <1>2, <1>3, <1>4 DEF FramesOk

(* runNext enters a function, in the one call there is.                    *)
LEMMA FramesEnter ==
  ASSUME NEW fs, NEW ready, NEW longer, NEW n, NEW ran, NEW later,
         FramesOk(fs, FALSE, ready, n, ran), fs # <<>>, longer # <<>>,
         Head(longer) \in Int, later[Head(longer)] # 0
  PROVE  FramesOk([fs EXCEPT ![Len(fs)].running = Head(longer)], TRUE, longer, n, later)
<1>1. fs \in Seq(Frame) /\ Len(fs) <= MaxDepth
  BY DEF FramesOk
<1>2. Len(fs) = 1 /\ DOMAIN fs = {1} /\ fs[1] \in Frame /\ fs \in [1 .. 1 -> Frame]
  <2>1. Len(fs) \in Nat /\ DOMAIN fs = 1 .. Len(fs) /\ Len(fs) # 0 /\ \A i \in DOMAIN fs : fs[i] \in Frame
    BY <1>1, SeqFacts
  <2>2. ~ (Len(fs) > 1)
    <3>1. ASSUME Len(fs) > 1 PROVE FALSE
      <4>1. 1 \in DOMAIN fs /\ fs[1].running # NoTask
        BY <2>1, <3>1 DEF FramesOk
      <4> QED
        BY <4>1 DEF FramesOk
    <3> QED
      BY <3>1
  <2>3. Len(fs) = 1
    BY <2>1, <2>2
  <2> QED
    BY <1>1, <2>1, <2>3
<1>3. PICK g : g = [fs EXCEPT ![Len(fs)].running = Head(longer)]
  OBVIOUS
<1>4. /\ DOMAIN g = {1} /\ g[1] = [fs[1] EXCEPT !.running = Head(longer)]
  BY <1>2, <1>3
<1>5. g[1] \in Frame /\ g[1].running = Head(longer) /\ g[1].op = fs[1].op /\ g[1].target = fs[1].target
  BY <1>2, <1>4 DEF Frame
<1>6. g \in Seq(Frame) /\ Len(g) = 1
  <2>1. g \in [1 .. 1 -> Frame]
    BY <1>2, <1>3, <1>4, <1>5
  <2> HIDE DEF Frame
  <2>2. g \in Seq(Frame)
    BY <2>1, SeqDef
  <2>3. Len(g) \in Nat /\ DOMAIN g = 1 .. Len(g) /\ DOMAIN g = 1 .. 1
    BY <2>1, <2>2, LenProperties
  <2>4. 1 \in 1 .. Len(g)
    BY <2>3
  <2>5. Len(g) \in 1 .. Len(g)
    BY <2>3, <2>4
  <2>6. Len(g) \in 1 .. 1
    BY <2>3, <2>5, Zenon
  <2>7. Len(g) = 1
    BY <2>6
  <2> QED
    BY <2>2, <2>7
<1>7. \A i \in DOMAIN g : i = 1
  BY <1>4
<1>8. g[1].op = "get" => g[1].target \in 0 .. (n - 1)
  BY <1>2, <1>5 DEF FramesOk
<1> QED
  BY <1>1, <1>2, <1>3, <1>5, <1>6, <1>7, <1>8 DEF FramesOk

(* The function of the outermost call returns: its runNext is done.        *)
Finished(fs, t) == [fs EXCEPT ![Len(fs)].running = NoTask, ![Len(fs)].target = t]

InFunction(fs) == fs # <<>> /\ Last(fs).running # NoTask
Aims(fs, t) == t \in Int /\ (Last(fs).op = "get" => t = Last(fs).target)

(* runNext comes back to its loop, and only the head of the queue was run. *)
LEMMA FramesLeave ==
  ASSUME NEW fs, NEW t, NEW active, NEW ready, NEW longer, NEW n, NEW ran,
         FramesOk(fs, active, ready, n, ran), InFunction(fs), Aims(fs, t)
  PROVE  /\ FramesOk(Finished(fs, t), FALSE, longer, n, ran)
         /\ ready # <<>> /\ Last(fs).running = Head(ready) /\ ran[Head(ready)] # 0 /\ Len(fs) = 1
<1>1. /\ fs \in Seq(Frame) /\ Len(fs) <= MaxDepth /\ fs # <<>> /\ Last(fs).running # NoTask
      /\ t \in Int /\ (Last(fs).op = "get" => t = Last(fs).target)
  BY DEF FramesOk, InFunction, Aims
<1>2. /\ Len(fs) \in Nat /\ DOMAIN fs = 1 .. Len(fs) /\ Last(fs) = fs[Len(fs)] /\ Len(fs) \in DOMAIN fs
      /\ \A i \in DOMAIN fs : fs[i] \in Frame
  BY <1>1, SeqFacts
<1>3. /\ ready # <<>> /\ Last(fs).running = Head(ready) /\ ran[Head(ready)] # 0 /\ Len(fs) = 1
  BY <1>1, <1>2 DEF FramesOk
<1>4. PICK g : g = Finished(fs, t)
  OBVIOUS
<1>5. DOMAIN g = {1} /\ g[1] = [fs[1] EXCEPT !.running = NoTask, !.target = t]
  BY <1>2, <1>3, <1>4 DEF Finished
<1>6. g[1] \in Frame /\ g[1].running = NoTask /\ g[1].op = fs[1].op /\ g[1].target = t
  <2>1. PICK h \in Frame : h = fs[1]
    BY <1>2, <1>3
  <2>2. g[1] = [h EXCEPT !.running = NoTask, !.target = t] /\ NoTask \in Int
    BY <1>1, <1>5, <2>1 DEF NoTask
  <2>3. [h EXCEPT !.running = NoTask, !.target = t] \in Frame
    BY <1>1, <2>2 DEF Frame
  <2>4. g[1].running = NoTask /\ g[1].op = h.op /\ g[1].target = t
    BY <1>1, <2>2 DEF Frame
  <2> QED
    BY <2>1, <2>2, <2>3, <2>4
<1>7. g \in Seq(Frame) /\ Len(g) = 1
  <2>1. g \in [1 .. 1 -> Frame]
    BY <1>2, <1>3, <1>4, <1>5, <1>6 DEF Finished
  <2> HIDE DEF Frame
  <2>2. g \in Seq(Frame)
    BY <2>1, SeqDef
  <2>3. Len(g) \in Nat /\ DOMAIN g = 1 .. Len(g) /\ DOMAIN g = 1 .. 1
    BY <2>1, <2>2, LenProperties
  <2>4. 1 \in 1 .. Len(g)
    BY <2>3
  <2>5. Len(g) \in 1 .. Len(g)
    BY <2>3, <2>4
  <2>6. Len(g) \in 1 .. 1
    BY <2>3, <2>5, Zenon
  <2>7. Len(g) = 1
    BY <2>6
  <2> QED
    BY <2>2, <2>7
<1>8. g[1].op = "get" => g[1].target \in 0 .. (n - 1)
  BY <1>1, <1>2, <1>3, <1>6 DEF FramesOk
<1>9. \A i \in DOMAIN g : i = 1
  BY <1>5
<1>10. FramesOk(g, FALSE, longer, n, ran)
  BY <1>1, <1>3, <1>6, <1>7, <1>8, <1>9 DEF FramesOk
<1> QED
  BY <1>3, <1>4, <1>10

-----------------------------------------------------------------------------
(* The invariant.  The stack is as FramesOk says; the map mirrors the      *)
(* scheduler; a function has been called if its task is complete, and has  *)
(* not if it is not, but for the task at the head of the queue: mIsActive  *)
(* says that it is running, or has thrown.                                 *)
CallsOk ==
  /\ FramesOk(calls, mIsActive, sched.mReady, sched.mTaskIdx, ranIn)
  /\ mIsActive \in BOOLEAN /\ thrown \in BOOLEAN

MapOk == MirrorsScheduler /\ \A x \in DOMAIN mTasks : mTasks[x] \in Kinds

RanOk ==
  /\ round \in Nat \ {0} /\ ranIn \in [Idx -> Nat]
  /\ \A x \in Idx : ranIn[x] <= round /\ (ranIn[x] # 0 => x \in Issued)
  /\ \A x \in Live(sched) : ranIn[x] # 0 => mIsActive = TRUE /\ sched.mReady # <<>> /\ x = Head(sched.mReady)
  /\ \A x \in Issued \ (Live(sched) \cup closures) : ranIn[x] # 0
  /\ \A x \in Issued \ closures : bornType[x] = "Round"

RunOk == sched.threw = "no" /\ CallsOk /\ MapOk /\ RanOk
RunInv == SP!SchedInv /\ RunOk

(* What the invariant of the scheduler says, of the runtime's.             *)
LEMMA SchedSays ==
  ASSUME SP!SchedInv
  PROVE  /\ sched.mTaskIdx \in 0 .. MaxTask /\ Live(sched) \subseteq Issued /\ closures \subseteq Issued
         /\ Issued \subseteq Idx /\ bornType \in [Idx -> {"Round", "Continuation"}]
         /\ upAtBirth \in [Idx -> SUBSET Idx] /\ \A x \in Idx : upAtBirth[x] \subseteq Issued
         /\ sched.mReady \in Seq(Nat) /\ sched.mNextRound \in Seq(Nat)
         /\ \A x \in ToSet(sched.mReady) \cup ToSet(sched.mNextRound) :
              x \in Live(sched) \ closures /\ upAtBirth[x] \cap Live(sched) = {}
         /\ \A x \in Issued \ Live(sched) : upAtBirth[x] \cap Live(sched) = {}
<1>1. Live(sched) = SP!Live(sched) /\ \A q : ToSet(q) = SP!ToSet(q)
  BY SameCalls
<1>2. SP!Issued = Issued /\ SP!Idx = Idx
  BY DEF SP!Issued, SP!Idx, Issued, Idx
<1> QED
  BY <1>1, <1>2, BoundsAssumption, SP!InvSays

(* The head of a queue is in the queue.                                    *)
LEMMA HeadFacts ==
  ASSUME NEW q, q \in Seq(Nat), q # <<>>
  PROVE  Head(q) \in ToSet(q) /\ Head(q) \in Nat
<1>1. Len(q) \in Nat /\ DOMAIN q = 1 .. Len(q) /\ Len(q) # 0 /\ Head(q) = q[1]
  BY LenProperties, EmptySeq
<1>2. 1 \in DOMAIN q
  BY <1>1
<1>3. q[1] \in Nat
  BY <1>2
<1> QED
  BY <1>1, <1>2, <1>3 DEF ToSet

(* Whether a new task closes a circle is the same for both.                *)
LEMMA SameAcyclic ==
  ASSUME NEW D
  PROVE  S!G!Acyclic(D) = SP!G!Acyclic(D)
  BY Zenon DEF SP!Live, S!Live, SP!Idx, S!Idx, SP!Upstream, S!Upstream, SP!Listed, S!Listed, SP!ToSet, S!ToSet,
     SP!G!Acyclic, S!G!Acyclic, SP!G!Reach, S!G!Reach, SP!G!ReachClosed, S!G!ReachClosed, SP!G!WaitsFor, S!G!WaitsFor,
     SP!G!Tasks, S!G!Tasks, SP!G!Issued, S!G!Issued, SP!G!Idx, S!G!Idx

(* addTask is the scheduler's, and leaves what is running as it is.        *)
LEMMA AddTaskKeeps ==
  ASSUME RunInv, NEW kind \in Kinds, NEW deps \in SUBSET Issued, AddTaskFunc(kind, deps)
  PROVE  SP!Add("Round", deps) /\ RunOk'
<1> DEFINE n == sched.mTaskIdx
<1>1. SP!SchedInv /\ sched.threw = "no" /\ CallsOk /\ MapOk /\ RanOk
  BY DEF RunInv, RunOk
<1>2. /\ n \in 0 .. MaxTask /\ n \in Nat /\ n < MaxTask /\ n \in Idx /\ n \notin Issued /\ Live(sched) \subseteq Issued
      /\ closures \subseteq Issued /\ sched.mReady \in Seq(Nat) /\ bornType \in [Idx -> {"Round", "Continuation"}]
      /\ Issued \subseteq Idx
  BY <1>1, SchedSays, BoundsAssumption DEF AddTaskFunc, Issued, Idx
<1>3. SP!Add("Round", deps)
  BY <1>1, SameCalls, SameAcyclic DEF AddTaskFunc, Born, TypeOf, SP!Add, SP!Born
<1>4. deps \in SUBSET SP!Issued
  BY DEF SP!Issued, Issued
<1>5. /\ sched'.threw = "no" /\ sched'.mTaskIdx = n + 1 /\ Live(sched') = Live(sched) \cup {n}
      /\ sched'.mReady = (IF deps \cap Live(sched) = {} THEN Append(sched.mReady, n) ELSE sched.mReady)
  BY <1>1, <1>3, <1>4, SameCalls, BoundsAssumption, SP!AddSays
<1>6. sched.mReady # <<>> => sched'.mReady # <<>> /\ Head(sched'.mReady) = Head(sched.mReady)
  BY <1>2, <1>5
<1>7. /\ UNCHANGED <<mIsActive, calls, thrown, round, ranIn, closures>>
      /\ DOMAIN mTasks' = DOMAIN mTasks \cup {n} /\ mTasks'[n] = kind
      /\ \A x \in DOMAIN mTasks : x # n => mTasks'[x] = mTasks[x]
      /\ bornType' = [bornType EXCEPT ![n] = "Round"]
  BY DEF AddTaskFunc, Born, TypeOf
<1>8. Issued' = Issued \cup {n}
  BY <1>2, <1>5 DEF Issued
<1>9. CallsOk'
  <2>1. FramesOk(calls, mIsActive, sched'.mReady, sched'.mTaskIdx, ranIn)
    <3>1. FramesOk(calls, mIsActive, sched.mReady, sched.mTaskIdx, ranIn)
      BY <1>1 DEF CallsOk
    <3>2. sched.mTaskIdx \in Nat /\ sched'.mTaskIdx \in Nat /\ sched.mTaskIdx <= sched'.mTaskIdx
      BY <1>2, <1>5
    <3> QED
      BY <1>6, <3>1, <3>2, FramesStay
  <2> QED
    BY <1>1, <1>7, <2>1 DEF CallsOk
<1>10. MapOk'
  <2>1. DOMAIN mTasks = Live(sched) \ closures
    BY <1>1 DEF MapOk, MirrorsScheduler
  <2>2. DOMAIN mTasks' = Live(sched') \ closures'
    BY <1>2, <1>5, <1>7, <2>1
  <2>3. \A x \in DOMAIN mTasks' : mTasks'[x] \in Kinds
    BY <1>1, <1>7 DEF MapOk
  <2> QED
    BY <2>2, <2>3 DEF MapOk, MirrorsScheduler
<1>11. RanOk'
  <2>1. round' \in Nat \ {0} /\ ranIn' \in [Idx -> Nat] /\ \A x \in Idx : ranIn'[x] <= round'
    BY <1>1, <1>7 DEF RanOk
  <2>2. \A x \in Idx : ranIn'[x] # 0 => x \in Issued'
    BY <1>1, <1>7, <1>8 DEF RanOk
  <2>3. ASSUME NEW x \in Live(sched'), ranIn'[x] # 0
        PROVE  mIsActive' = TRUE /\ sched'.mReady # <<>> /\ x = Head(sched'.mReady)
    <3>1. x \in Live(sched)
      BY <1>1, <1>2, <1>5, <1>7, <2>3 DEF RanOk
    <3> QED
      BY <1>1, <1>6, <1>7, <2>3, <3>1 DEF RanOk
  <2>4. \A x \in Issued' \ (Live(sched') \cup closures') : ranIn'[x] # 0
    BY <1>1, <1>5, <1>7, <1>8 DEF RanOk
  <2>5. \A x \in Issued' \ closures' : bornType'[x] = "Round"
    BY <1>1, <1>2, <1>7, <1>8 DEF RanOk
  <2> QED
    BY <2>1, <2>2, <2>3, <2>4, <2>5 DEF RanOk
<1> QED
  BY <1>3, <1>5, <1>9, <1>10, <1>11 DEF RunOk

(* So is getClosure.                                                       *)
LEMMA GetClosureKeeps ==
  ASSUME RunInv, NEW dep \in Issued, GetClosure(dep)
  PROVE  SP!Close({dep}) /\ RunOk'
<1> DEFINE n == sched.mTaskIdx
<1>1. SP!SchedInv /\ sched.threw = "no" /\ CallsOk /\ MapOk /\ RanOk
  BY DEF RunInv, RunOk
<1>2. /\ n \in 0 .. MaxTask /\ n \in Nat /\ n < MaxTask /\ n \in Idx /\ n \notin Issued /\ Live(sched) \subseteq Issued
      /\ closures \subseteq Issued /\ bornType \in [Idx -> {"Round", "Continuation"}] /\ Issued \subseteq Idx
  BY <1>1, SchedSays, BoundsAssumption DEF GetClosure, Issued, Idx
<1>3. SP!Close({dep})
  BY <1>1, SameCalls DEF GetClosure, Born, SP!Close, SP!Born
<1>4. {dep} \in SUBSET SP!Issued
  BY DEF SP!Issued, Issued
<1>5. /\ sched'.threw = "no" /\ sched'.mTaskIdx = n + 1 /\ sched'.mReady = sched.mReady
      /\ Live(sched') = Live(sched) \/ Live(sched') = Live(sched) \cup {n}
  BY <1>1, <1>3, <1>4, SameCalls, BoundsAssumption, SP!CloseSays
<1>6. /\ UNCHANGED <<mTasks, mIsActive, calls, thrown, round, ranIn>> /\ closures' = closures \cup {n}
      /\ bornType' = [bornType EXCEPT ![n] = "Continuation"]
  BY DEF GetClosure, Born
<1>7. Issued' = Issued \cup {n}
  BY <1>2, <1>5 DEF Issued
<1>8. CallsOk'
  <2>1. FramesOk(calls, mIsActive, sched'.mReady, sched'.mTaskIdx, ranIn)
    BY <1>1, <1>2, <1>5, FramesStay DEF CallsOk
  <2> QED
    BY <1>1, <1>6, <2>1 DEF CallsOk
<1>9. MapOk'
  <2>1. Live(sched') \ closures' = Live(sched) \ closures
    BY <1>2, <1>5, <1>6
  <2> QED
    BY <1>1, <1>6, <2>1 DEF MapOk, MirrorsScheduler
<1>10. RanOk'
  <2>1. round' \in Nat \ {0} /\ ranIn' \in [Idx -> Nat] /\ \A x \in Idx : ranIn'[x] <= round'
    BY <1>1, <1>6 DEF RanOk
  <2>2. \A x \in Idx : ranIn'[x] # 0 => x \in Issued'
    BY <1>1, <1>6, <1>7 DEF RanOk
  <2>3. ASSUME NEW x \in Live(sched'), ranIn'[x] # 0
        PROVE  mIsActive' = TRUE /\ sched'.mReady # <<>> /\ x = Head(sched'.mReady)
    <3>1. x \in Live(sched)
      BY <1>1, <1>2, <1>5, <1>6, <2>3 DEF RanOk
    <3> QED
      BY <1>1, <1>5, <1>6, <2>3, <3>1 DEF RanOk
  <2>4. \A x \in Issued' \ (Live(sched') \cup closures') : ranIn'[x] # 0
    BY <1>1, <1>5, <1>6, <1>7 DEF RanOk
  <2>5. \A x \in Issued' \ closures' : bornType'[x] = "Round"
    BY <1>1, <1>2, <1>6, <1>7 DEF RanOk
  <2> QED
    BY <2>1, <2>2, <2>3, <2>4, <2>5 DEF RanOk
<1> QED
  BY <1>3, <1>5, <1>8, <1>9, <1>10 DEF RunOk

(* The steps that leave the scheduler alone.                               *)
LEMMA QuietKeeps ==
  ASSUME RunInv, CallsOk', UNCHANGED <<sched, mTasks, mIsActive, history>>
  PROVE  UNCHANGED SP!vars /\ RunOk'
<1>1. UNCHANGED <<sched, mTasks, mIsActive, round, ranIn, bornType, upAtBirth, closures, acyclic>>
  BY DEF history
<1>2. MapOk' /\ RanOk'
  BY <1>1 DEF RunInv, RunOk, MapOk, MirrorsScheduler, RanOk, Issued
<1> QED
  BY <1>1, <1>2 DEF RunInv, RunOk, SP!vars

(* A call that ends leaves mIsActive as it is.                             *)
LEMMA EndKeeps ==
  ASSUME RunInv, calls # <<>>, Pop, thrown' \in BOOLEAN, UNCHANGED <<sched, mTasks, mIsActive, history>>
  PROVE  UNCHANGED SP!vars /\ RunOk'
<1>1. FramesOk(calls, mIsActive, sched.mReady, sched.mTaskIdx, ranIn) /\ mIsActive \in BOOLEAN
  BY DEF RunInv, RunOk, CallsOk
<1>2. calls' = Front(calls)
  BY DEF Pop
<1>3. FramesOk(calls', mIsActive, sched.mReady, sched.mTaskIdx, ranIn)
  BY <1>1, <1>2, FramesPop
<1>4. CallsOk'
  BY <1>1, <1>3 DEF CallsOk, history
<1> QED
  BY <1>4, QuietKeeps

(* currentTask, when it does not throw: there is a task to run, and a new  *)
(* round has begun if the queue was empty.                                 *)
LEMMA CurrentTaskSays ==
  ASSUME RunInv, CurrentTask(sched).threw = "no"
  PROVE  LET s == CurrentTask(sched) IN
         /\ s.mTaskIdx = sched.mTaskIdx /\ Live(s) = Live(sched) /\ s.mReady # <<>>
         /\ Head(s.mReady) \in Live(sched) \ closures /\ Head(s.mReady) \in Idx
         /\ (Swapped(s) <=> sched.mReady = <<>>)
         /\ sched.mReady # <<>> => s = sched
         /\ sched.mReady = <<>> => s.mReady = sched.mNextRound /\ s.mNextRound = <<>> /\ Live(sched) # {}
<1> DEFINE s == CurrentTask(sched)
<1>1. SP!SchedInv /\ sched.threw = "no"
  BY DEF RunInv, RunOk
<1>2. CASE sched.mReady # <<>>
  <2>1. s = sched
    BY <1>2 DEF CurrentTask
  <2>2. ~ Swapped(s)
    BY <1>2 DEF Swapped
  <2>3. Head(sched.mReady) \in ToSet(sched.mReady)
    BY <1>1, <1>2, SchedSays, HeadFacts
  <2>4. Head(sched.mReady) \in Live(sched) \ closures /\ Head(sched.mReady) \in Idx
    BY <1>1, <2>3, SchedSays
  <2> QED
    BY <1>2, <2>1, <2>2, <2>4
<1>3. CASE sched.mReady = <<>>
  <2>1. /\ s.threw = (IF sched.mNextRound = <<>> THEN "currentTask" ELSE "no") /\ s.mTaskIdx = sched.mTaskIdx
        /\ Live(s) = Live(sched) /\ s.mReady = sched.mNextRound /\ s.mNextRound = <<>>
    BY <1>1, <1>3, SameCalls, BoundsAssumption, SP!CurrentSays
  <2>2. sched.mNextRound # <<>>
    BY <2>1
  <2>3. Head(sched.mNextRound) \in ToSet(sched.mNextRound)
    BY <1>1, <2>2, SchedSays, HeadFacts
  <2>4. Head(sched.mNextRound) \in Live(sched) \ closures /\ Head(sched.mNextRound) \in Idx
    BY <1>1, <2>3, SchedSays
  <2>5. Swapped(s)
    BY <1>3, <2>1, <2>2 DEF Swapped
  <2> QED
    BY <1>3, <2>1, <2>2, <2>4, <2>5
<1> QED
  BY <1>2, <1>3

(* It is the scheduler's step, or none.                                    *)
LEMMA CurrentTaskSteps ==
  ASSUME RunInv, CurrentTask(sched).threw = "no", sched' = CurrentTask(sched),
         UNCHANGED <<bornType, upAtBirth, closures, acyclic>>
  PROVE  SP!Current \/ UNCHANGED SP!vars
<1>1. CASE sched.mReady # <<>>
  BY <1>1, CurrentTaskSays DEF SP!vars
<1>2. CASE sched.mReady = <<>>
  BY <1>2, CurrentTaskSays, SameCalls DEF SP!Current, RunInv, RunOk
<1> QED
  BY <1>1, <1>2

(* A call into the runtime; runOneRound looks for the current task first.  *)
LEMMA DriveKeeps ==
  ASSUME RunInv, NEW op \in {"get", "runAll", "runOneRound", "runNext"}, NEW target \in Int,
         op = "get" => target \in Issued, Drive(op, target)
  PROVE  (SP!Current \/ UNCHANGED SP!vars) /\ RunOk'
<1> DEFINE s == CurrentTask(sched)
           f == [op |-> op, target |-> target, running |-> NoTask]
<1>1. SP!SchedInv /\ sched.threw = "no" /\ CallsOk /\ MapOk /\ RanOk
  BY DEF RunInv, RunOk
<1>2. UNCHANGED <<mTasks, mIsActive, ranIn, bornType, upAtBirth, closures, acyclic>> /\ Len(calls) < MaxDepth /\ UserCode
  BY DEF Drive
<1>3. calls = <<>> \/ Last(calls).running # NoTask
  BY <1>2 DEF UserCode, InProgram, InBody, Top
<1>4. FramesOk(Append(calls, f), mIsActive, sched.mReady, sched.mTaskIdx, ranIn)
  <2>1. f \in Frame /\ f.running = NoTask /\ (f.op = "get" => f.target \in 0 .. (sched.mTaskIdx - 1))
    BY DEF Frame, NoTask, Issued
  <2>2. FramesOk(calls, mIsActive, sched.mReady, sched.mTaskIdx, ranIn)
    BY <1>1 DEF CallsOk
  <2> HIDE DEF f
  <2> QED
    BY <1>2, <1>3, <2>1, <2>2, FramesPush
<1>5. CASE op # "runOneRound" /\ Push(op, target) /\ UNCHANGED <<sched, round, thrown>>
  <2>1. CallsOk'
    BY <1>1, <1>2, <1>4, <1>5 DEF CallsOk, Push
  <2> QED
    BY <1>2, <1>5, <2>1, QuietKeeps DEF history
<1>6. CASE s.threw # "no" /\ thrown' = TRUE /\ UNCHANGED <<calls, sched, round>>
  <2>1. CallsOk'
    BY <1>1, <1>2, <1>6 DEF CallsOk
  <2> QED
    BY <1>2, <1>6, <2>1, QuietKeeps DEF history
<1>7. CASE /\ s.threw = "no" /\ Push(op, target) /\ sched' = s /\ UNCHANGED thrown
           /\ round' = IF Swapped(s) THEN round + 1 ELSE round
  <2>1. /\ s.mTaskIdx = sched.mTaskIdx /\ Live(s) = Live(sched) /\ (sched.mReady # <<>> => s = sched)
        /\ (Swapped(s) <=> sched.mReady = <<>>)
    BY <1>7, CurrentTaskSays
  <2>2. SP!Current \/ UNCHANGED SP!vars
    BY <1>2, <1>7, CurrentTaskSteps
  <2>3. CallsOk'
    <3>1. FramesOk(Append(calls, f), mIsActive, s.mReady, sched.mTaskIdx, ranIn)
      <4>1. sched.mTaskIdx \in Nat
        BY <1>1, SchedSays, BoundsAssumption
      <4> HIDE DEF f, s
      <4> QED
        BY <1>4, <2>1, <4>1, FramesStay
    <3> QED
      BY <1>1, <1>2, <1>7, <2>1, <3>1 DEF CallsOk, Push
  <2>4. MapOk'
    BY <1>1, <1>2, <1>7, <2>1 DEF MapOk, MirrorsScheduler
  <2>5. RanOk'
    <3>1. round' \in Nat \ {0} /\ round <= round'
      BY <1>1, <1>7 DEF RanOk
    <3>2. Issued' = Issued /\ Live(sched') = Live(sched)
      BY <1>7, <2>1 DEF Issued
    <3>3. \A x \in Idx : ranIn[x] <= round'
      BY <1>1, <3>1 DEF RanOk
    <3>4. \A x \in Live(sched') : ranIn[x] # 0 => mIsActive = TRUE /\ sched'.mReady # <<>> /\ x = Head(sched'.mReady)
      BY <1>1, <1>7, <2>1, <3>2 DEF RanOk
    <3> HIDE DEF s
    <3> QED
      BY <1>1, <1>2, <3>1, <3>2, <3>3, <3>4 DEF RanOk
  <2> QED
    BY <1>1, <1>7, <2>2, <2>3, <2>4, <2>5 DEF RunOk
<1> QED
  BY <1>5, <1>6, <1>7 DEF Drive

(* The head of the queue is called for the first time, in this round.      *)
LEMMA EnterKeeps ==
  ASSUME RunInv, RunNextEnters
  PROVE  (SP!Current \/ UNCHANGED SP!vars) /\ RunOk'
<1> DEFINE s == CurrentTask(sched)
           idx == Head(s.mReady)
<1>1. SP!SchedInv /\ sched.threw = "no" /\ CallsOk /\ MapOk /\ RanOk
  BY DEF RunInv, RunOk
<1>2. /\ calls # <<>> /\ mIsActive = FALSE /\ s.threw = "no" /\ sched' = s /\ mIsActive' = TRUE
      /\ calls' = [calls EXCEPT ![Len(calls)].running = idx]
      /\ round' = (IF Swapped(s) THEN round + 1 ELSE round) /\ ranIn' = [ranIn EXCEPT ![idx] = round']
      /\ UNCHANGED <<mTasks, thrown, bornType, upAtBirth, closures, acyclic>>
  BY <1>1 DEF RunNextEnters, InLoop, MayEnter, CallsOk
<1>3. /\ s.mTaskIdx = sched.mTaskIdx /\ Live(s) = Live(sched) /\ s.mReady # <<>>
      /\ idx \in Live(sched) \ closures /\ idx \in Idx
  BY <1>2, CurrentTaskSays
<1>4. SP!Current \/ UNCHANGED SP!vars
  BY <1>2, CurrentTaskSteps
<1> HIDE DEF s
<1>5. Issued' = Issued /\ Live(sched') = Live(sched) /\ Live(sched) \subseteq Issued
  BY <1>1, <1>2, <1>3, SchedSays DEF Issued
<1>6. round' \in Nat \ {0} /\ round <= round' /\ ranIn \in [Idx -> Nat] /\ round \in Nat
  BY <1>1, <1>2 DEF RanOk
<1>7. ranIn' \in [Idx -> Nat] /\ ranIn'[idx] = round' /\ \A x \in Idx \ {idx} : ranIn'[x] = ranIn[x]
  BY <1>2, <1>3, <1>6
<1>8. CallsOk'
  <2>1. FramesOk(calls, FALSE, sched.mReady, sched.mTaskIdx, ranIn)
    BY <1>1, <1>2 DEF CallsOk
  <2>2. idx \in Int /\ ranIn'[idx] # 0
    BY <1>3, <1>6, <1>7 DEF Idx
  <2>3. FramesOk([calls EXCEPT ![Len(calls)].running = idx], TRUE, s.mReady, sched.mTaskIdx, ranIn')
    BY <1>2, <1>3, <2>1, <2>2, FramesEnter
  <2> QED
    BY <1>1, <1>2, <1>3, <2>3 DEF CallsOk
<1>9. MapOk'
  BY <1>1, <1>2, <1>5 DEF MapOk, MirrorsScheduler
<1>10. RanOk'
  <2>1. \A x \in Idx : ranIn'[x] <= round' /\ (ranIn'[x] # 0 => x \in Issued')
    BY <1>1, <1>3, <1>5, <1>6, <1>7 DEF RanOk
  <2>2. ASSUME NEW x \in Live(sched'), ranIn'[x] # 0
        PROVE  mIsActive' = TRUE /\ sched'.mReady # <<>> /\ x = Head(sched'.mReady)
    <3>1. x \in Idx
      BY <1>1, <1>5, <2>2, SchedSays
    <3>2. x # idx => FALSE
      BY <1>1, <1>2, <1>5, <1>7, <2>2, <3>1 DEF RanOk
    <3> QED
      BY <1>2, <1>3, <3>2
  <2>3. \A x \in Issued' \ (Live(sched') \cup closures') : ranIn'[x] # 0
    BY <1>1, <1>2, <1>3, <1>5, <1>7, SchedSays DEF RanOk
  <2>4. \A x \in Issued' \ closures' : bornType'[x] = "Round"
    BY <1>1, <1>2, <1>5 DEF RanOk
  <2> QED
    BY <1>6, <1>7, <2>1, <2>2, <2>3, <2>4 DEF RanOk
<1> QED
  BY <1>1, <1>2, <1>4, <1>8, <1>9, <1>10 DEF RunOk

(* When the function returns, popTask removes its task, which is still the *)
(* head of the queue, and closures that wait for nothing else.             *)
LEMMA LeaveKeeps ==
  ASSUME RunInv, RunNextLeaves
  PROVE  SP!Pop /\ RunOk'
<1> DEFINE idx == Head(sched.mReady)
           t == IF Top.op = "runNext" THEN 0 ELSE Top.target
<1>1. SP!SchedInv /\ sched.threw = "no" /\ CallsOk /\ MapOk /\ RanOk
  BY DEF RunInv, RunOk
<1>2. /\ calls # <<>> /\ Last(calls).running # NoTask /\ mIsActive' = FALSE
      /\ mTasks' = Erased(Last(calls).running) /\ sched' = PopTask(sched)
      /\ calls' = Finished(calls, t)
      /\ UNCHANGED <<thrown, round, ranIn, bornType, upAtBirth, closures, acyclic>>
  <2>1. /\ calls # <<>> /\ Last(calls).running # NoTask /\ mIsActive' = FALSE
        /\ mTasks' = Erased(Last(calls).running) /\ sched' = PopTask(sched)
        /\ UNCHANGED <<thrown, round, ranIn, bornType, upAtBirth, closures, acyclic>>
    BY DEF RunNextLeaves, InBody, Top, history
  <2>2. calls \in Seq(Frame)
    BY <1>1 DEF CallsOk, FramesOk
  <2>3. Len(calls) \in DOMAIN calls /\ Last(calls) = calls[Len(calls)] /\ calls[Len(calls)] \in Frame
    BY <2>1, <2>2, SeqFacts
  <2>4. calls' = Finished(calls, t)
    BY <2>3 DEF RunNextLeaves, Top, Frame, Finished
  <2> QED
    BY <2>1, <2>4
<1>3. /\ FramesOk(calls', FALSE, sched'.mReady, sched.mTaskIdx, ranIn)
      /\ sched.mReady # <<>> /\ Last(calls).running = idx /\ ranIn[idx] # 0
  <2>1. FramesOk(calls, mIsActive, sched.mReady, sched.mTaskIdx, ranIn)
    BY <1>1 DEF CallsOk
  <2>2. Last(calls) \in Frame
    BY <1>2, <2>1, SeqFacts DEF FramesOk
  <2>3. t \in Int /\ (Last(calls).op = "get" => t = Last(calls).target)
    BY <2>2 DEF Frame, Top
  <2> HIDE DEF t
  <2>4. InFunction(calls) /\ Aims(calls, t)
    BY <1>2, <2>3 DEF InFunction, Aims
  <2>5. PICK longer : longer = sched'.mReady
    OBVIOUS
  <2>6. /\ FramesOk(Finished(calls, t), FALSE, longer, sched.mTaskIdx, ranIn)
        /\ sched.mReady # <<>> /\ Last(calls).running = Head(sched.mReady)
        /\ ranIn[Head(sched.mReady)] # 0 /\ Len(calls) = 1
    BY <2>1, <2>4, FramesLeave
  <2> QED
    BY <1>2, <2>5, <2>6
<1> HIDE DEF t
<1>4. SP!Pop
  BY <1>1, <1>2, <1>3, SameCalls DEF SP!Pop
<1>5. /\ idx \in ToSet(sched.mReady) /\ sched'.threw = "no" /\ sched'.mTaskIdx = sched.mTaskIdx
      /\ Live(sched') \subseteq Live(sched) /\ idx \notin Live(sched')
      /\ \A x \in Live(sched) \ Live(sched') : x = idx \/ x \in closures
  BY <1>1, <1>4, SameCalls, BoundsAssumption, SP!PopSays
<1>6. idx \in Live(sched) \ closures /\ Live(sched) \subseteq Issued /\ Issued' = Issued
  BY <1>1, <1>5, SchedSays DEF Issued
<1>7. CallsOk'
  BY <1>1, <1>2, <1>3, <1>5 DEF CallsOk
<1>8. MapOk'
  <2>1. DOMAIN mTasks' = DOMAIN mTasks \ {idx} /\ \A x \in DOMAIN mTasks \ {idx} : mTasks'[x] = mTasks[x]
    BY <1>2, <1>3 DEF Erased
  <2>2. DOMAIN mTasks = Live(sched) \ closures
    BY <1>1 DEF MapOk, MirrorsScheduler
  <2>3. Live(sched') \ closures = (Live(sched) \ closures) \ {idx}
    BY <1>5, <1>6
  <2> QED
    BY <1>1, <1>2, <2>1, <2>2, <2>3 DEF MapOk, MirrorsScheduler
<1>9. RanOk'
  <2>1. ASSUME NEW x \in Live(sched') PROVE ranIn[x] = 0
    BY <1>1, <1>5, <2>1 DEF RanOk
  <2>2. \A x \in Issued \ (Live(sched') \cup closures) : ranIn[x] # 0
    BY <1>1, <1>3, <1>5 DEF RanOk
  <2> HIDE DEF idx
  <2> QED
    BY <1>1, <1>2, <1>6, <2>1, <2>2 DEF RanOk
<1> QED
  BY <1>4, <1>5, <1>7, <1>8, <1>9 DEF RunOk

-----------------------------------------------------------------------------
(* Every step is a step of the scheduler, or none, and keeps the invariant.*)
LEMMA RunStep == RunInv /\ [Next]_vars => [SP!Next]_(SP!vars) /\ RunInv'
<1> SUFFICES ASSUME RunInv, [Next]_vars PROVE [SP!Next]_(SP!vars) /\ RunOk'
  <2>1. SP!SchedInv /\ [SP!Next]_(SP!vars) => SP!SchedInv'
    BY BoundsAssumption, SP!SchedStep
  <2> QED
    BY <2>1 DEF RunInv
<1>0. thrown \in BOOLEAN /\ SP!Issued = Issued
  BY DEF RunInv, RunOk, CallsOk, SP!Issued, Issued
<1>1. ASSUME NEW kind \in Kinds, NEW deps \in Deps, AddTaskFunc(kind, deps) PROVE SP!Next /\ RunOk'
  <2>1. deps \in SUBSET Issued
    BY DEF Deps
  <2>2. SP!Add("Round", deps) /\ RunOk'
    BY <1>1, <2>1, AddTaskKeeps
  <2> QED
    BY <1>0, <2>1, <2>2 DEF SP!Next
<1>2. ASSUME NEW dep \in Issued, GetClosure(dep) PROVE SP!Next /\ RunOk'
  BY <1>0, <1>2, GetClosureKeeps DEF SP!Next
<1>3. ASSUME NEW target \in Issued, Drive("get", target) PROVE [SP!Next]_(SP!vars) /\ RunOk'
  <2>1. target \in Int
    BY DEF Issued
  <2> QED
    BY <1>3, <2>1, DriveKeeps DEF SP!Next
<1>4. ASSUME NEW op \in {"runAll", "runOneRound", "runNext"}, Drive(op, NoTask) PROVE [SP!Next]_(SP!vars) /\ RunOk'
  <2>1. NoTask \in Int
    BY DEF NoTask
  <2> QED
    BY <1>4, <2>1, DriveKeeps DEF SP!Next
<1>5. CASE BodyThrows
  BY <1>5, EndKeeps DEF BodyThrows, InBody, AfterThrow
<1>6. CASE Return
  BY <1>0, <1>6, EndKeeps DEF Return, InLoop
<1>7. CASE RunNextThrows
  BY <1>7, EndKeeps DEF RunNextThrows, InLoop
<1>8. CASE RunNextEnters
  BY <1>8, EnterKeeps DEF SP!Next
<1>9. CASE RunNextLeaves
  BY <1>9, LeaveKeeps DEF SP!Next
<1>10. CASE Caught
  <2>1. CallsOk' /\ UNCHANGED <<sched, mTasks, mIsActive, history>>
    BY <1>10 DEF Caught, RunInv, RunOk, CallsOk, history
  <2> QED
    BY <2>1, QuietKeeps
<1>11. CASE Unwind
  BY <1>0, <1>11, EndKeeps DEF Unwind, AfterThrow
<1>12. CASE UNCHANGED vars
  <2>1. CallsOk' /\ UNCHANGED <<sched, mTasks, mIsActive, history>>
    BY <1>12 DEF vars, RunInv, RunOk, CallsOk, history
  <2> QED
    BY <2>1, QuietKeeps
<1> QED
  BY <1>1, <1>2, <1>3, <1>4, <1>5, <1>6, <1>7, <1>8, <1>9, <1>10, <1>11, <1>12 DEF Next, Program, Runtime

(* A new runtime has an empty scheduler.                                   *)
LEMMA RunStart == Init => SP!Init /\ RunInv
<1> SUFFICES ASSUME Init PROVE SP!Init /\ RunInv
  OBVIOUS
<1>1. SP!Init
  BY SameCalls DEF Init, SP!Init, SP!Idx, Idx
<1>2. SP!SchedInv
  BY <1>1, BoundsAssumption, SP!SchedStart
<1>3. /\ sched.mTaskIdx = 0 /\ Live(sched) = {} /\ sched.mReady = <<>> /\ sched.threw = "no" /\ Issued = {}
  BY DEF Init, NewScheduler, Live, Issued
<1>4. CallsOk
  <2>1. <<>> \in Seq(Frame) /\ Len(<<>>) = 0 /\ DOMAIN <<>> = {}
    OBVIOUS
  <2>2. \A ready, n, ran : FramesOk(<<>>, FALSE, ready, n, ran)
    BY <2>1, BoundsAssumption DEF FramesOk
  <2> QED
    BY <2>2 DEF Init, CallsOk
<1>5. MapOk
  BY <1>3 DEF Init, MapOk, MirrorsScheduler
<1>6. RanOk
  BY <1>3 DEF Init, RanOk
<1> QED
  BY <1>1, <1>2, <1>3, <1>4, <1>5, <1>6 DEF RunInv, RunOk

(* The inductive invariant.                                                *)
THEOREM RuntimeInvariant == Spec => []RunInv
  BY RunStart, RunStep, PTL DEF Spec

(* The runtime drives its scheduler as module Scheduler describes.         *)
THEOREM ImplementsSchedulerHolds == Spec => ImplementsScheduler
<1>1. S!Init /\ [][S!Next]_(S!vars) => S!Spec
  BY DEF S!Spec
<1> QED
  BY <1>1, RunStart, RunStep, SameInit, SameNext, PTL DEF Spec, ImplementsScheduler

-----------------------------------------------------------------------------
(* What the graph promises (a closure is complete only when all it covers  *)
(* is; while something is unfinished a task is, and if the waits are       *)
(* acyclic one can run) holds of the graph this runtime builds.            *)
LEMMA RuntimePromises == Spec => []SP!Promises
<1>1. SP!Init /\ [][SP!Next]_(SP!vars) => []SP!Promises
  BY BoundsAssumption, SP!PromisesKept DEF SP!Spec
<1> QED
  BY <1>1, RunStart, RunStep, PTL DEF Spec

(* The same, in the runtime's terms.                                       *)
LEMMA PromisesSay ==
  ASSUME RunInv, SP!Promises
  PROVE  /\ \A c \in closures \ Live(sched) :
              ReachIn(sched.mTaskIdx, closures, upAtBirth, c) \subseteq Issued \ Live(sched)
         /\ acyclic /\ Live(sched) # {} => sched.mReady # <<>> \/ sched.mNextRound # <<>>
         /\ Live(sched) \subseteq closures => Live(sched) = {}
<1>1. SP!Live(sched) = Live(sched) /\ SP!GP!Issued = Issued /\ closures \subseteq Issued
  BY SameCalls, SchedSays DEF SP!GP!Issued, Issued, RunInv
<1>2. SP!ToSet(sched.mReady) = ToSet(sched.mReady) /\ SP!ToSet(sched.mNextRound) = ToSet(sched.mNextRound)
  BY SameCalls
<1>3. SP!GP!ClosureCovers /\ SP!GP!NeverStuck /\ SP!GP!TaskRemains
  BY DEF SP!Promises
<1>4. ASSUME NEW c \in closures \ Live(sched)
      PROVE  ReachIn(sched.mTaskIdx, closures, upAtBirth, c) \subseteq Issued \ Live(sched)
  <2>1. SP!GP!Completed = Issued \ Live(sched)
    BY <1>1 DEF SP!GP!Completed
  <2>2. c \in closures \cap SP!GP!Completed
    BY <1>1, <2>1
  <2>3. SP!GP!Reach(c) \subseteq SP!GP!Completed
    BY <1>3, <2>2 DEF SP!GP!ClosureCovers
  <2> QED
    BY <2>1, <2>3, ReachIs
<1>5. acyclic /\ Live(sched) # {} => sched.mReady # <<>> \/ sched.mNextRound # <<>>
  <2>1. ToSet(<<>>) = {}
    BY DEF ToSet
  <2>2. acyclic /\ Live(sched) # {} => ToSet(sched.mReady) \cup ToSet(sched.mNextRound) # {}
    BY <1>1, <1>2, <1>3 DEF SP!GP!NeverStuck
  <2> QED
    BY <2>1, <2>2
<1>6. Live(sched) \subseteq closures => Live(sched) = {}
  BY <1>1, <1>3 DEF SP!GP!TaskRemains
<1> QED
  BY <1>4, <1>5, <1>6

-----------------------------------------------------------------------------
(* The runtime's map holds exactly the unfinished tasks.                   *)
THEOREM MirrorsSchedulerHolds == Spec => []MirrorsScheduler
<1>1. RunInv => MirrorsScheduler
  BY DEF RunInv, RunOk, MapOk
<1> QED
  BY <1>1, RuntimeInvariant, PTL

(* The map names issued tasks, and no call is in a function that is not a  *)
(* task's.                                                                 *)
THEOREM TypeOKHolds == Spec => []TypeOK
<1>1. SP!Init /\ [][SP!Next]_(SP!vars) => []SP!TypeOK
  BY BoundsAssumption, SP!TypeOKHolds DEF SP!Spec
<1>2. SP!TypeOK => S!TypeOK
  BY Zenon DEF SP!TypeOK, S!TypeOK, SP!Live, S!Live, SP!Issued, S!Issued, SP!Idx, S!Idx
<1>3. RunInv /\ S!TypeOK => TypeOK
  <2> SUFFICES ASSUME RunInv, S!TypeOK PROVE TypeOK
    OBVIOUS
  <2>1. SP!SchedInv /\ CallsOk /\ MapOk
    BY DEF RunInv, RunOk
  <2>2. DOMAIN mTasks \subseteq Issued /\ \A x \in DOMAIN mTasks : mTasks[x] \in Kinds
    BY <2>1, SchedSays DEF MapOk, MirrorsScheduler
  <2>3. ASSUME NEW i \in DOMAIN calls, calls[i].running # NoTask PROVE calls[i].running \in Idx
    <3>1. sched.mReady # <<>> /\ calls[i].running = Head(sched.mReady)
      BY <2>1, <2>3 DEF CallsOk, FramesOk
    <3>2. Head(sched.mReady) \in ToSet(sched.mReady)
      BY <2>1, <3>1, SchedSays, HeadFacts
    <3> QED
      BY <2>1, <3>1, <3>2, SchedSays
  <2>4. Len(calls) <= MaxDepth
    BY <2>1 DEF CallsOk, FramesOk
  <2> QED
    BY <2>1, <2>2, <2>3, <2>4 DEF TypeOK, CallsOk
<1> QED
  BY <1>1, <1>2, <1>3, RunStart, RunStep, PTL DEF Spec

-----------------------------------------------------------------------------
(* A call that ends removes its frame, and no other step makes the stack   *)
(* shorter: a call that returns without an exception has left its loop.    *)
LEMMA ReturnsIs ==
  ASSUME RunInv, [Next]_vars, NEW op, Returns(op)
  PROVE  calls # <<>> /\ Top.op = op /\ ~ Continues(Top)
<1>1. calls # <<>> /\ Top.op = op /\ calls' = Front(calls) /\ ~ thrown'
  BY DEF Returns
<1>2. calls \in Seq(Frame)
  BY DEF RunInv, RunOk, CallsOk, FramesOk
<1>3. Len(Front(calls)) = Len(calls) - 1 /\ Len(calls) \in Nat
  BY <1>1, <1>2, SeqFacts
<1>4. calls' # calls
  BY <1>1, <1>3
<1>5. \A f : calls' # Append(calls, f)
  <2>1. ASSUME NEW f PROVE Len(Append(calls, f)) = Len(calls) + 1
    BY <1>2
  <2> QED
    BY <1>1, <1>3, <2>1
<1>6. \A i, f : calls' # [calls EXCEPT ![i] = f]
  <2>1. ASSUME NEW i, NEW f PROVE Len([calls EXCEPT ![i] = f]) = Len(calls)
    BY <1>2
  <2> QED
    BY <1>1, <1>3, <2>1
<1>7. CASE Return
  BY <1>1, <1>7 DEF Return
<1>8. ASSUME NEW kind \in Kinds, NEW deps \in Deps, AddTaskFunc(kind, deps) PROVE FALSE
  BY <1>4, <1>8 DEF AddTaskFunc
<1>9. ASSUME NEW dep \in Issued, GetClosure(dep) PROVE FALSE
  BY <1>4, <1>9 DEF GetClosure
<1>10. ASSUME NEW o, NEW target, Drive(o, target) PROVE FALSE
  BY <1>4, <1>5, <1>10 DEF Drive, Push
<1>11. ~ BodyThrows /\ ~ RunNextThrows /\ ~ Unwind /\ ~ Caught
  BY <1>1, <1>4 DEF BodyThrows, RunNextThrows, Unwind, Caught
<1>12. ~ RunNextEnters
  BY <1>6 DEF RunNextEnters
<1>13. ~ RunNextLeaves
  BY <1>6 DEF RunNextLeaves
<1>14. ~ UNCHANGED vars
  BY <1>4 DEF vars
<1> QED
  BY <1>7, <1>8, <1>9, <1>10, <1>11, <1>12, <1>13, <1>14 DEF Next, Program, Runtime

(* runAll's loop (Sh3Runtime.cpp:214) looks at the tasks only; when it     *)
(* ends no closure is left, and nothing is queued.                         *)
THEOREM RunAllMeansDoneHolds == Spec => RunAllMeansDone
<1> DEFINE Nothing == Live(sched) = {} /\ sched.mReady = <<>> /\ sched.mNextRound = <<>>
<1>1. ASSUME RunInv, SP!Promises, [Next]_vars, Returns("runAll") PROVE Nothing
  <2>1. DOMAIN mTasks = {}
    BY <1>1, ReturnsIs DEF Continues
  <2>2. Live(sched) \subseteq closures
    BY <1>1, <2>1 DEF RunInv, RunOk, MapOk, MirrorsScheduler
  <2>3. Live(sched) = {}
    BY <1>1, <2>2, PromisesSay
  <2>4. ASSUME NEW q \in {sched.mReady, sched.mNextRound}, q # <<>> PROVE FALSE
    <3>1. q \in Seq(Nat) /\ ToSet(q) \subseteq Live(sched)
      BY <1>1, SchedSays DEF RunInv
    <3> QED
      BY <2>3, <2>4, <3>1, HeadFacts
  <2> QED
    BY <2>3, <2>4
<1>2. RunInv /\ SP!Promises /\ [Next]_vars => [Returns("runAll") => Nothing]_vars
  BY <1>1
<1> QED
  BY <1>2, RuntimeInvariant, RuntimePromises, PTL DEF Spec, RunAllMeansDone

(* get returns when its task is complete, and if that is a closure when    *)
(* all that the closure covers is.                                         *)
THEOREM GetMeansDoneHolds == Spec => GetMeansDone
<1> DEFINE Done == /\ Top.target \in Completed
                   /\ Top.target \in closures => S!G!Reach(Top.target) \subseteq Completed
<1>1. ASSUME RunInv, SP!Promises, [Next]_vars, Returns("get") PROVE Done
  <2>1. calls # <<>> /\ Top.op = "get" /\ Top.target \notin Live(sched)
    BY <1>1, ReturnsIs DEF Continues, IsCompleted
  <2>2. Completed = Issued \ Live(sched)
    BY DEF Completed, IsCompleted
  <2>3. Top.target \in Issued
    <3>1. calls \in Seq(Frame) /\ \A i \in DOMAIN calls : calls[i].op = "get" => calls[i].target \in Issued
      BY <1>1 DEF RunInv, RunOk, CallsOk, FramesOk, Issued
    <3>2. Last(calls) = calls[Len(calls)] /\ Len(calls) \in DOMAIN calls
      BY <2>1, <3>1, SeqFacts
    <3> QED
      BY <2>1, <3>1, <3>2 DEF Top
  <2>4. ASSUME Top.target \in closures PROVE S!G!Reach(Top.target) \subseteq Completed
    <3>1. Top.target \in closures \ Live(sched)
      BY <2>1, <2>4
    <3>2. ReachIn(sched.mTaskIdx, closures, upAtBirth, Top.target) \subseteq Issued \ Live(sched)
      BY <1>1, <3>1, PromisesSay
    <3> QED
      BY <2>2, <3>2, ReachIs
  <2> QED
    BY <2>1, <2>2, <2>3, <2>4
<1>2. RunInv /\ SP!Promises /\ [Next]_vars => [Returns("get") => Done]_vars
  BY <1>1
<1> QED
  BY <1>2, RuntimeInvariant, RuntimePromises, PTL DEF Spec, GetMeansDone

-----------------------------------------------------------------------------
(* Only runNext calls a function: any other step leaves the calls that are *)
(* in one, or ends some.                                                   *)
LEMMA RunningIs ==
  ASSUME RunInv, [Next]_vars, NEW x \in Idx, Running(x)', ~ RunNextEnters
  PROVE  Running(x)
<1>1. calls \in Seq(Frame) /\ Len(calls) \in Nat /\ DOMAIN calls = 1 .. Len(calls) /\ x # NoTask
  BY SeqFacts, BoundsAssumption DEF RunInv, RunOk, CallsOk, FramesOk, Idx, NoTask
<1>2. PICK i \in DOMAIN calls' : calls'[i].running = x
  BY DEF Running
<1>3. CASE calls' = calls
  BY <1>2, <1>3 DEF Running
<1>4. CASE calls # <<>> /\ Pop
  <2>1. i \in DOMAIN calls /\ calls'[i] = calls[i]
    BY <1>1, <1>2, <1>4, SeqFacts DEF Pop
  <2> QED
    BY <1>2, <2>1 DEF Running
<1>5. ASSUME NEW op, NEW target, Push(op, target) PROVE Running(x)
  <2>1. PICK f : f = [op |-> op, target |-> target, running |-> NoTask]
    OBVIOUS
  <2>2. calls' = Append(calls, f) /\ f.running = NoTask
    BY <1>5, <2>1 DEF Push
  <2>3. i \in DOMAIN calls /\ calls'[i] = calls[i]
    BY <1>1, <1>2, <2>2
  <2> QED
    BY <1>2, <2>3 DEF Running
<1>6. CASE RunNextLeaves
  <2>1. calls # <<>>
    BY <1>6 DEF RunNextLeaves, InBody
  <2>2. PICK n \in DOMAIN calls : n = Len(calls) /\ calls[n] \in Frame
    BY <1>1, <2>1, SeqFacts
  <2>3. calls'[n].running = NoTask /\ DOMAIN calls' = DOMAIN calls /\ \A j \in DOMAIN calls \ {n} : calls'[j] = calls[j]
    BY <1>1, <1>6, <2>2 DEF RunNextLeaves, Frame
  <2> QED
    BY <1>1, <1>2, <2>3 DEF Running
<1>7. ASSUME NEW kind \in Kinds, NEW deps \in Deps, AddTaskFunc(kind, deps) PROVE Running(x)
  BY <1>3, <1>7 DEF AddTaskFunc
<1>8. ASSUME NEW dep \in Issued, GetClosure(dep) PROVE Running(x)
  BY <1>3, <1>8 DEF GetClosure
<1>9. ASSUME NEW op, NEW target, Drive(op, target) PROVE Running(x)
  BY <1>3, <1>5, <1>9 DEF Drive
<1>10. CASE BodyThrows \/ Return \/ RunNextThrows \/ Unwind
  BY <1>4, <1>10 DEF BodyThrows, Return, RunNextThrows, Unwind, InBody, InLoop
<1>11. CASE Caught \/ UNCHANGED vars
  BY <1>3, <1>11 DEF Caught, vars
<1> QED
  BY <1>6, <1>7, <1>8, <1>9, <1>10, <1>11 DEF Next, Program, Runtime

(* A function is called at most once: runNext takes the head of the queue, *)
(* and if that has been called before, mIsActive is still set.             *)
LEMMA EntersFirst ==
  ASSUME RunInv, RunNextEnters
  PROVE  LET s == CurrentTask(sched) IN
         /\ ranIn[Head(s.mReady)] = 0 /\ \A x \in Idx : Running(x)' => Running(x) \/ x = Head(s.mReady)
<1> DEFINE s == CurrentTask(sched)
           idx == Head(s.mReady)
<1>1. /\ calls # <<>> /\ ~ mIsActive /\ s.threw = "no" /\ calls' = [calls EXCEPT ![Len(calls)].running = idx]
  BY DEF RunNextEnters, InLoop, MayEnter
<1>2. idx \in Live(sched) /\ idx \in Idx
  BY <1>1, CurrentTaskSays
<1>3. ranIn[idx] = 0
  BY <1>1, <1>2 DEF RunInv, RunOk, RanOk
<1> HIDE DEF idx
<1>4. calls \in Seq(Frame)
  BY DEF RunInv, RunOk, CallsOk, FramesOk
<1>5. PICK n \in DOMAIN calls : n = Len(calls) /\ calls[n] \in Frame
  BY <1>1, <1>4, SeqFacts
<1>6. calls'[n].running = idx /\ DOMAIN calls' = DOMAIN calls /\ \A j \in DOMAIN calls \ {n} : calls'[j] = calls[j]
  BY <1>1, <1>4, <1>5 DEF Frame
<1>7. ASSUME NEW x \in Idx, Running(x)' PROVE Running(x) \/ x = idx
  BY <1>6, <1>7 DEF Running
<1> QED
  BY <1>3, <1>7 DEF idx

(* So no function is called a second time, after an exception either.      *)
THEOREM RunsOnceHolds == Spec => RunsOnce
<1> DEFINE Once == \A x \in Idx : ~ Running(x) /\ Running(x)' => ranIn[x] = 0
<1>1. ASSUME RunInv, [Next]_vars PROVE Once
  BY <1>1, RunningIs, EntersFirst
<1>2. RunInv /\ [Next]_vars => [Once]_vars
  BY <1>1
<1> QED
  BY <1>2, RuntimeInvariant, PTL DEF Spec, RunsOnce

-----------------------------------------------------------------------------
(* Rounds.  Once what a task was added behind is complete (it is settled), *)
(* all that this covers has run, and no later task is covered by it.       *)
CoveredIn(n, cs, birth, u) == IF u \in cs THEN ReachIn(n, cs, birth, u) \ cs ELSE {u}

BeforeIn(n, cs, birth, ran, x, r) ==
  \A u \in birth[x] : \A y \in CoveredIn(n, cs, birth, u) : ran[y] # 0 /\ ran[y] < r

Before(x, r) == BeforeIn(sched.mTaskIdx, closures, upAtBirth, ranIn, x, r)

Settled(x) == x \in Issued /\ upAtBirth[x] \cap Live(sched) = {}

(* What is settled waited for tasks that ran in this round or earlier.     *)
LEMMA SettledRan ==
  ASSUME RunInv, SP!Promises, NEW x, Settled(x), NEW u \in upAtBirth[x],
         NEW y \in CoveredIn(sched.mTaskIdx, closures, upAtBirth, u)
  PROVE  u \in Issued \ Live(sched) /\ y \in Idx /\ ranIn[y] \in Nat \ {0} /\ ranIn[y] <= round
<1>1. SP!SchedInv /\ RanOk /\ Issued \subseteq Idx
  BY SchedSays DEF RunInv, RunOk
<1>2. x \in Idx /\ u \in Issued \ Live(sched)
  BY <1>1, SchedSays DEF Settled
<1>3. y \in Issued \ (Live(sched) \cup closures)
  <2>1. CASE u \in closures
    <3>1. y \in ReachIn(sched.mTaskIdx, closures, upAtBirth, u) \ closures
      BY <2>1 DEF CoveredIn
    <3>2. ReachIn(sched.mTaskIdx, closures, upAtBirth, u) \subseteq Issued \ Live(sched)
      BY <1>2, <2>1, PromisesSay
    <3> QED
      BY <3>1, <3>2
  <2>2. CASE u \notin closures
    BY <1>2, <2>2 DEF CoveredIn
  <2> QED
    BY <2>1, <2>2
<1> QED
  BY <1>1, <1>2, <1>3 DEF RanOk

(* The history only grows by what addTask and addClosure append.           *)
LEMMA HistoryIs ==
  ASSUME RunInv, [Next]_vars
  PROVE  \/ \E kind \in Kinds, deps \in Deps : AddTaskFunc(kind, deps)
         \/ \E dep \in Issued : GetClosure(dep)
         \/ sched'.mTaskIdx = sched.mTaskIdx /\ UNCHANGED <<upAtBirth, closures>>
<1> DEFINE Same == sched'.mTaskIdx = sched.mTaskIdx /\ UNCHANGED <<upAtBirth, closures>>
<1>1. ASSUME NEW op, NEW target, Drive(op, target) PROVE Same
  BY <1>1, CurrentTaskSays DEF Drive
<1>2. CASE RunNextEnters
  BY <1>2, CurrentTaskSays DEF RunNextEnters
<1>3. CASE RunNextLeaves
  <2>1. SP!SchedInv /\ SP!Pop
    BY <1>3, LeaveKeeps DEF RunInv
  <2>2. sched'.mTaskIdx = sched.mTaskIdx
    BY <2>1, BoundsAssumption, SP!PopSays
  <2> QED
    BY <1>3, <2>2 DEF RunNextLeaves, history
<1>4. CASE BodyThrows \/ Return \/ RunNextThrows \/ Unwind \/ Caught \/ UNCHANGED vars
  BY <1>4 DEF BodyThrows, Return, RunNextThrows, Unwind, Caught, vars, history
<1> QED
  BY <1>1, <1>2, <1>3, <1>4 DEF Next, Program, Runtime

(* What a settled task waited for stays as it is.                          *)
LEMMA CoversStay ==
  ASSUME RunInv, SP!Promises, [Next]_vars, NEW x, Settled(x)
  PROVE  /\ upAtBirth'[x] = upAtBirth[x]
         /\ \A u \in upAtBirth[x] : CoveredIn(sched'.mTaskIdx, closures', upAtBirth', u)
                                      = CoveredIn(sched.mTaskIdx, closures, upAtBirth, u)
<1> DEFINE n == sched.mTaskIdx
<1>1. /\ SP!SchedInv /\ n \in 0 .. MaxTask /\ n \in Nat /\ n \notin Issued /\ Issued = 0 .. (n - 1)
      /\ closures \subseteq Issued /\ upAtBirth \in [Idx -> SUBSET Idx] /\ Issued \subseteq Idx
  BY SchedSays, BoundsAssumption DEF RunInv, Issued
<1>2. x \in Idx /\ x \in Issued /\ \A u \in upAtBirth[x] : u \in Issued /\ u \notin Live(sched) /\ u \in Idx
  BY <1>1, SchedSays DEF Settled
<1>3. ASSUME NEW u \in upAtBirth[x], u \in closures
      PROVE  ReachIn(n, closures, upAtBirth, u) \subseteq Issued \ Live(sched)
  BY <1>2, <1>3, PromisesSay
<1> HIDE DEF n
<1>4. ASSUME NEW kind \in Kinds, NEW deps \in Deps, AddTaskFunc(kind, deps)
      PROVE  /\ upAtBirth'[x] = upAtBirth[x]
             /\ \A u \in upAtBirth[x] : CoveredIn(sched'.mTaskIdx, closures', upAtBirth', u)
                                          = CoveredIn(sched.mTaskIdx, closures, upAtBirth, u)
  <2>1. sched'.mTaskIdx = n + 1 /\ SP!Add("Round", deps)
    <3>1. deps \in SUBSET Issued /\ deps \in SUBSET SP!Issued
      BY DEF Deps, SP!Issued, Issued
    <3>2. SP!Add("Round", deps)
      BY <1>4, <3>1, AddTaskKeeps
    <3> QED
      BY <1>1, <3>1, <3>2, BoundsAssumption, SP!AddSays DEF n
  <2>2. /\ n \in Idx /\ closures' = closures
        /\ upAtBirth' = [upAtBirth EXCEPT ![n] = deps \cap Live(sched)]
    BY <1>1, <1>4, BoundsAssumption DEF AddTaskFunc, Born, n, Idx
  <2>3. upAtBirth'[n] \subseteq Live(sched) /\ \A y \in Idx \ {n} : upAtBirth'[y] = upAtBirth[y]
    BY <1>1, <2>2
  <2>4. \A y \in Issued : y \in Idx \ {n}
    BY <1>1
  <2>5. ASSUME NEW u \in upAtBirth[x], u \in closures
        PROVE  ReachIn(n + 1, closures, upAtBirth', u) = ReachIn(n, closures, upAtBirth, u)
    <3>1. upAtBirth'[n] \cap ReachIn(n, closures, upAtBirth, u) = {}
      BY <1>3, <2>3, <2>5
    <3>2. upAtBirth[u] \subseteq Idx /\ upAtBirth'[u] = upAtBirth[u]
      BY <1>1, <1>2, <2>3, <2>4
    <3>3. \A y \in 0 .. (n - 1) : upAtBirth'[y] = upAtBirth[y]
      BY <1>1, <2>3, <2>4
    <3>4. PICK later : later = upAtBirth'
      OBVIOUS
    <3>5. /\ n \in 0 .. MaxTask /\ upAtBirth[u] \subseteq Idx /\ later[u] = upAtBirth[u]
          /\ \A y \in 0 .. (n - 1) : later[y] = upAtBirth[y]
          /\ Apart(later[n], ReachIn(n, closures, upAtBirth, u))
      BY <1>1, <3>1, <3>2, <3>3, <3>4 DEF n, Apart
    <3>6. ReachIn(n + 1, closures, later, u) = ReachIn(n, closures, upAtBirth, u)
      BY <3>5, ReachFrozen
    <3> QED
      BY <3>4, <3>6
  <2> QED
    BY <1>2, <2>1, <2>2, <2>3, <2>4, <2>5 DEF CoveredIn, n
<1>5. ASSUME NEW dep \in Issued, GetClosure(dep)
      PROVE  /\ upAtBirth'[x] = upAtBirth[x]
             /\ \A u \in upAtBirth[x] : CoveredIn(sched'.mTaskIdx, closures', upAtBirth', u)
                                          = CoveredIn(sched.mTaskIdx, closures, upAtBirth, u)
  <2>1. sched'.mTaskIdx = n + 1
    <3>1. {dep} \in SUBSET SP!Issued
      BY DEF SP!Issued, Issued
    <3>2. SP!Close({dep})
      BY <1>5, GetClosureKeeps
    <3> QED
      BY <1>1, <3>1, <3>2, BoundsAssumption, SP!CloseSays DEF n
  <2>2. /\ n \in Idx /\ closures' = closures \cup {n}
        /\ upAtBirth' = [upAtBirth EXCEPT ![n] = {dep} \cap Live(sched)]
    BY <1>1, <1>5, BoundsAssumption DEF GetClosure, Born, n, Idx
  <2>3. \A y \in Issued : y \in Idx /\ y # n /\ upAtBirth'[y] = upAtBirth[y]
    BY <1>1, <2>2
  <2>4. ASSUME NEW u \in upAtBirth[x], u \in closures
        PROVE  ReachIn(n + 1, closures', upAtBirth', u) = ReachIn(n, closures, upAtBirth, u)
    <3>1. upAtBirth'[u] = upAtBirth[u] /\ \A y \in 0 .. (n - 1) : upAtBirth'[y] = upAtBirth[y]
      BY <1>1, <1>2, <2>3
    <3>2. PICK later : later = upAtBirth'
      OBVIOUS
    <3>3. /\ n \in 0 .. MaxTask /\ later[u] = upAtBirth[u]
          /\ \A y \in 0 .. (n - 1) : later[y] = upAtBirth[y]
      BY <1>1, <3>1, <3>2 DEF n
    <3>4. ReachIn(n + 1, closures \cup {n}, later, u) = ReachIn(n, closures, upAtBirth, u)
      BY <3>3, ReachSame
    <3> QED
      BY <2>2, <3>2, <3>4
  <2>5. ASSUME NEW u \in upAtBirth[x], u \in closures
        PROVE  ReachIn(n + 1, closures', upAtBirth', u) \ closures' = ReachIn(n, closures, upAtBirth, u) \ closures
    BY <1>1, <1>3, <2>2, <2>4, <2>5
  <2>6. \A u \in upAtBirth[x] : u \in closures' <=> u \in closures
    BY <1>1, <1>2, <2>2, <2>3
  <2> QED
    BY <1>2, <2>1, <2>3, <2>5, <2>6 DEF CoveredIn, n
<1>6. CASE sched'.mTaskIdx = sched.mTaskIdx /\ UNCHANGED <<upAtBirth, closures>>
  BY <1>6
<1> QED
  BY <1>4, <1>5, <1>6, HistoryIs

(* Rounds and the rounds in which functions were called only go on.        *)
LEMMA RanStays ==
  ASSUME RunInv, [Next]_vars
  PROVE  /\ round \in Nat /\ round' \in Nat /\ round <= round'
         /\ \A y \in Idx : ranIn[y] # 0 => ranIn'[y] = ranIn[y]
         /\ ranIn' = ranIn \/ RunNextEnters
<1>1. round \in Nat /\ ranIn \in [Idx -> Nat]
  BY DEF RunInv, RunOk, RanOk
<1>2. CASE UNCHANGED <<round, ranIn>>
  BY <1>1, <1>2
<1>3. ASSUME NEW op, NEW target, Drive(op, target)
      PROVE  /\ round' \in Nat /\ round <= round' /\ ranIn' = ranIn
  BY <1>1, <1>3 DEF Drive
<1>4. CASE RunNextEnters
  <2>1. PICK idx : idx = Head(CurrentTask(sched).mReady)
    OBVIOUS
  <2>2. ranIn[idx] = 0
    BY <1>4, <2>1, EntersFirst
  <2>3. ranIn' = [ranIn EXCEPT ![idx] = round']
    BY <1>4, <2>1 DEF RunNextEnters
  <2>4. round' \in Nat /\ round <= round'
    BY <1>1, <1>4 DEF RunNextEnters
  <2> QED
    BY <1>1, <1>4, <2>2, <2>3, <2>4
<1>5. ASSUME NEW kind \in Kinds, NEW deps \in Deps, AddTaskFunc(kind, deps) PROVE UNCHANGED <<round, ranIn>>
  BY <1>5 DEF AddTaskFunc
<1>6. ASSUME NEW dep \in Issued, GetClosure(dep) PROVE UNCHANGED <<round, ranIn>>
  BY <1>6 DEF GetClosure
<1>7. CASE BodyThrows \/ Return \/ RunNextThrows \/ RunNextLeaves \/ Unwind \/ Caught \/ UNCHANGED vars
  BY <1>2, <1>7 DEF BodyThrows, Return, RunNextThrows, RunNextLeaves, Unwind, Caught, vars, history
<1> QED
  BY <1>1, <1>2, <1>3, <1>4, <1>5, <1>6, <1>7 DEF Next, Program, Runtime

Queued ==
  /\ sched.mReady \in Seq(Nat)
  /\ \A x \in ToSet(sched.mReady) : x \in Issued \ closures /\ bornType[x] = "Round"

(* The queue holds Round tasks only, after a step too.                     *)
LEMMA QueuedNext == RunInv' => Queued'
<1>1. RunInv => Queued
  BY SchedSays DEF RunInv, RunOk, RanOk, Queued
<1> QED
  BY <1>1, PTL

(* Into the queue comes what waits for nothing, and the next round when a  *)
(* new one begins: no Round task is taken up in the round of its release.  *)
LEMMA ReadyIs ==
  ASSUME RunInv, RunInv', [Next]_vars, NEW x \in ToSet(sched'.mReady)
  PROVE  \/ x \in ToSet(sched.mReady)
         \/ upAtBirth'[x] = {}
         \/ x \in ToSet(sched.mNextRound) /\ round' = round + 1
<1>1. SP!SchedInv /\ sched.mReady \in Seq(Nat) /\ sched.mTaskIdx \in Nat
  BY SchedSays, BoundsAssumption DEF RunInv
<1>2. CASE sched'.mReady = sched.mReady
  BY <1>2
<1>3. ASSUME sched' = CurrentTask(sched), CurrentTask(sched).threw = "no",
             round' = IF Swapped(CurrentTask(sched)) THEN round + 1 ELSE round
      PROVE  x \in ToSet(sched.mReady) \/ (x \in ToSet(sched.mNextRound) /\ round' = round + 1)
  BY <1>3, CurrentTaskSays
<1>4. ASSUME NEW kind \in Kinds, NEW deps \in Deps, AddTaskFunc(kind, deps)
      PROVE  x \in ToSet(sched.mReady) \/ upAtBirth'[x] = {}
  <2>1. deps \in SUBSET Issued /\ deps \in SUBSET SP!Issued
    BY DEF Deps, SP!Issued, Issued
  <2>2. SP!Add("Round", deps)
    BY <1>4, <2>1, AddTaskKeeps
  <2>3. sched'.mReady = IF deps \cap Live(sched) = {} THEN Append(sched.mReady, sched.mTaskIdx) ELSE sched.mReady
    BY <1>1, <2>1, <2>2, SameCalls, BoundsAssumption, SP!AddSays
  <2>4. CASE deps \cap Live(sched) = {} /\ x \notin ToSet(sched.mReady)
    <3>1. x = sched.mTaskIdx
      BY <1>1, <2>3, <2>4 DEF ToSet
    <3>2. upAtBirth \in [Idx -> SUBSET Idx] /\ x \in Idx
      BY <1>1, <1>4, <3>1, SchedSays, BoundsAssumption DEF AddTaskFunc, Idx
    <3> QED
      BY <1>4, <2>4, <3>1, <3>2 DEF AddTaskFunc, Born
  <2> QED
    BY <2>3, <2>4
<1>5. ASSUME NEW dep \in Issued, GetClosure(dep) PROVE sched'.mReady = sched.mReady
  <2>1. {dep} \in SUBSET SP!Issued
    BY DEF SP!Issued, Issued
  <2>2. SP!Close({dep})
    BY <1>5, GetClosureKeeps
  <2> QED
    BY <1>1, <2>1, <2>2, BoundsAssumption, SP!CloseSays
<1>6. CASE RunNextLeaves
  <2>1. SP!Pop /\ bornType' = bornType
    BY <1>6, LeaveKeeps DEF RunNextLeaves, history
  <2>2. x \in ToSet(sched.mReady) \/ bornType[x] # "Round"
    BY <1>1, <2>1, SameCalls, BoundsAssumption, SP!PopSays
  <2>3. bornType'[x] = "Round"
    BY QueuedNext DEF Queued
  <2> QED
    BY <2>1, <2>2, <2>3
<1>7. ASSUME NEW op, NEW target, Drive(op, target) 
      PROVE  x \in ToSet(sched.mReady) \/ (x \in ToSet(sched.mNextRound) /\ round' = round + 1)
  BY <1>2, <1>3, <1>7 DEF Drive
<1>8. CASE RunNextEnters
  BY <1>3, <1>8 DEF RunNextEnters
<1>9. CASE BodyThrows \/ Return \/ RunNextThrows \/ Unwind \/ Caught \/ UNCHANGED vars
  BY <1>2, <1>9 DEF BodyThrows, Return, RunNextThrows, Unwind, Caught, vars
<1> QED
  BY <1>2, <1>4, <1>5, <1>6, <1>7, <1>8, <1>9 DEF Next, Program, Runtime

(* What may run now waited for earlier rounds, and so did what has run.    *)
OrderInv ==
  /\ \A x \in ToSet(sched.mReady) : Before(x, round)
  /\ \A x \in Idx : ranIn[x] # 0 => Before(x, ranIn[x])

(* What a settled task waited for has run earlier, and has after a step.   *)
LEMMA BeforeStays ==
  ASSUME RunInv, SP!Promises, [Next]_vars, NEW x, Settled(x), NEW r \in Nat, NEW q \in Nat, r <= q, Before(x, r)
  PROVE  BeforeIn(sched'.mTaskIdx, closures', upAtBirth', ranIn', x, q)
<1> SUFFICES ASSUME NEW u \in upAtBirth'[x], NEW y \in CoveredIn(sched'.mTaskIdx, closures', upAtBirth', u)
             PROVE  ranIn'[y] # 0 /\ ranIn'[y] < q
  BY DEF BeforeIn
<1>1. u \in upAtBirth[x] /\ y \in CoveredIn(sched.mTaskIdx, closures, upAtBirth, u)
  BY CoversStay
<1>2. y \in Idx /\ ranIn[y] \in Nat /\ ranIn[y] # 0 /\ ranIn[y] < r
  BY <1>1, SettledRan DEF Before, BeforeIn
<1>3. ranIn'[y] = ranIn[y]
  BY <1>2, RanStays
<1> QED
  BY <1>2, <1>3

(* Every step keeps that.                                                  *)
LEMMA OrderStep == RunInv /\ SP!Promises /\ OrderInv /\ RunInv' /\ [Next]_vars => OrderInv'
<1> SUFFICES ASSUME RunInv, SP!Promises, OrderInv, RunInv', [Next]_vars PROVE OrderInv'
  OBVIOUS
<1>1. round \in Nat /\ round' \in Nat /\ round <= round'
  BY RanStays
<1>2. SP!SchedInv /\ RanOk /\ Issued \subseteq Idx
  BY SchedSays DEF RunInv, RunOk
<1>3. ASSUME NEW x \in ToSet(sched.mReady) \cup ToSet(sched.mNextRound) PROVE Settled(x)
  BY <1>2, SchedSays DEF Settled
<1>4. ASSUME NEW x \in ToSet(sched'.mReady)
      PROVE  BeforeIn(sched'.mTaskIdx, closures', upAtBirth', ranIn', x, round')
  <2>1. CASE x \in ToSet(sched.mReady)
    BY <1>1, <1>3, <2>1, BeforeStays DEF OrderInv
  <2>2. CASE upAtBirth'[x] = {}
    BY <2>2 DEF BeforeIn
  <2>3. CASE x \in ToSet(sched.mNextRound) /\ round' = round + 1
    <3>1. Settled(x)
      BY <1>3, <2>3
    <3>2. Before(x, round')
      <4> SUFFICES ASSUME NEW u \in upAtBirth[x], NEW y \in CoveredIn(sched.mTaskIdx, closures, upAtBirth, u)
                   PROVE  ranIn[y] # 0 /\ ranIn[y] < round'
        BY DEF Before, BeforeIn
      <4>1. ranIn[y] \in Nat \ {0} /\ ranIn[y] <= round
        BY <3>1, SettledRan
      <4> QED
        BY <1>1, <2>3, <4>1
    <3> QED
      BY <1>1, <3>1, <3>2, BeforeStays
  <2> QED
    BY <2>1, <2>2, <2>3, ReadyIs
<1>5. ASSUME NEW x \in Idx, ranIn'[x] # 0
      PROVE  BeforeIn(sched'.mTaskIdx, closures', upAtBirth', ranIn', x, ranIn'[x])
  <2>1. CASE ranIn[x] # 0
    <3>1. ranIn[x] \in Nat /\ x \in Issued /\ ranIn'[x] = ranIn[x]
      BY <1>2, <2>1, RanStays DEF RanOk
    <3>2. Settled(x)
      <4>1. CASE x \in Live(sched)
        <5>1. sched.mReady # <<>> /\ x = Head(sched.mReady) /\ sched.mReady \in Seq(Nat)
          BY <1>2, <2>1, <4>1, SchedSays DEF RanOk
        <5> QED
          BY <1>3, <5>1, HeadFacts
      <4>2. CASE x \notin Live(sched)
        BY <1>2, <3>1, <4>2, SchedSays DEF Settled
      <4> QED
        BY <4>1, <4>2
    <3>3. Before(x, ranIn[x])
      BY <2>1 DEF OrderInv
    <3> QED
      BY <3>1, <3>2, <3>3, BeforeStays
  <2>2. CASE ranIn[x] = 0
    <3>1. RunNextEnters
      BY <1>5, <2>2, RanStays
    <3>2. x = Head(sched'.mReady) /\ ranIn'[x] = round' /\ sched'.mReady # <<>>
      BY <1>2, <1>5, <2>2, <3>1, CurrentTaskSays DEF RunNextEnters, RanOk
    <3>3. x \in ToSet(sched'.mReady)
      BY <3>2, HeadFacts, QueuedNext DEF Queued
    <3> QED
      BY <1>4, <3>2, <3>3
  <2> QED
    BY <2>1, <2>2
<1> QED
  BY <1>4, <1>5 DEF OrderInv, Before

(* A task runs in a later round than each task it was added behind, and    *)
(* than each task covered by a closure it was added behind.                *)
THEOREM RoundSeparationHolds == Spec => []RoundSeparation
<1>1. Init => OrderInv
  BY DEF Init, NewScheduler, ToSet, OrderInv
<1>2. OrderInv => RoundSeparation
  BY ReachIs DEF OrderInv, RoundSeparation, Before, BeforeIn, CoveredIn
<1> QED
  BY <1>1, <1>2, OrderStep, RuntimeInvariant, RuntimePromises, PTL DEF Spec

-----------------------------------------------------------------------------
(* currentTask throws only when nothing is queued.                         *)
LEMMA ThrewSays ==
  ASSUME RunInv, CurrentTask(sched).threw # "no"
  PROVE  sched.mReady = <<>> /\ sched.mNextRound = <<>>
<1>1. SP!SchedInv /\ sched.threw = "no"
  BY DEF RunInv, RunOk
<1>2. sched.mReady = <<>>
  BY <1>1 DEF CurrentTask
<1>3. CurrentTask(sched).threw = IF sched.mNextRound = <<>> THEN "currentTask" ELSE "no"
  BY <1>1, <1>2, SameCalls, BoundsAssumption, SP!CurrentSays
<1> QED
  BY <1>2, <1>3

(* While a function runs mIsActive is set.                                 *)
LEMMA BodyIsActive == ASSUME RunInv, InBody PROVE mIsActive
<1>1. FramesOk(calls, mIsActive, sched.mReady, sched.mTaskIdx, ranIn)
  BY DEF RunInv, RunOk, CallsOk
<1>2. calls \in Seq(Frame) /\ calls # <<>> /\ Last(calls).running # NoTask
  BY <1>1 DEF FramesOk, InBody, Top
<1>3. Len(calls) \in DOMAIN calls /\ calls[Len(calls)].running # NoTask
  BY <1>2, SeqFacts
<1> QED
  BY <1>1, <1>3 DEF FramesOk

(* With acyclic waits, and while no function runs or has ever thrown, no   *)
(* call throws but a runNext of an empty runtime; whatever the bounds.     *)
THEOREM OnlyEmptyThrowsHolds == Spec => OnlyEmptyThrows
<1> DEFINE Quiet == acyclic /\ ~ mIsActive /\ ~ thrown /\ thrown' => Live(sched) = {}
<1>1. ASSUME RunInv, SP!Promises, [Next]_vars PROVE Quiet
  <2> SUFFICES ASSUME acyclic, ~ mIsActive, ~ thrown, thrown', Live(sched) # {} PROVE FALSE
    OBVIOUS
  <2>1. CurrentTask(sched).threw = "no"
    BY <1>1, ThrewSays, PromisesSay
  <2>2. ASSUME NEW op, NEW target, Drive(op, target) PROVE FALSE
    BY <2>1, <2>2 DEF Drive
  <2>3. ~ RunNextThrows
    BY <2>1 DEF RunNextThrows, MayEnter
  <2>4. ASSUME NEW kind \in Kinds, NEW deps \in Deps, AddTaskFunc(kind, deps) PROVE FALSE
    BY <2>4 DEF AddTaskFunc
  <2>5. ASSUME NEW dep \in Issued, GetClosure(dep) PROVE FALSE
    BY <2>5 DEF GetClosure
  <2>6. ~ BodyThrows
    BY <1>1, BodyIsActive DEF BodyThrows
  <2>7. ~ Return /\ ~ RunNextEnters /\ ~ RunNextLeaves /\ ~ Caught /\ ~ Unwind /\ ~ UNCHANGED vars
    BY DEF Return, RunNextEnters, RunNextLeaves, Caught, Unwind, vars
  <2> QED
    BY <1>1, <2>2, <2>3, <2>4, <2>5, <2>6, <2>7 DEF Next, Program, Runtime
<1>2. RunInv /\ SP!Promises /\ [Next]_vars => [Quiet]_vars
  BY <1>1
<1> QED
  BY <1>2, RuntimeInvariant, RuntimePromises, PTL DEF Spec, OnlyEmptyThrows
=============================================================================
