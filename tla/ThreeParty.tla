------------------------------ MODULE ThreeParty ------------------------------
(***************************************************************************)
(* The protocols of Sh3Evaluator, Sh3Encryptor and Sh3Converter as each of *)
(* three parties runs them: what each task of each party sends, receives,  *)
(* draws and waits for.  Nothing the parties share has a name: the n-th    *)
(* receive on a channel takes the n-th send, the n-th draw from a common   *)
(* stream must meet the neighbour's n-th draw, and the n-th key a          *)
(* SharedOT sender uses its helper's n-th.  So each of these is a log here,*)
(* one at either end, of what the entry was meant for; the parties         *)
(* understand each other as long as the two logs of a pair agree.          *)
(*                                                                         *)
(* A message is one matrix (its elements follow each other in every log),  *)
(* a task function is one step, and a party's scheduler is that of module  *)
(* SchedulerOps, driven by runNext.                                        *)
(***************************************************************************)
EXTENDS SchedulerOps, FiniteSets

CONSTANT Programs   \* the programs: sequences of [op, dep], the same in every party
ASSUME ProgramsAssumption == \A P \in Programs : \A i \in DOMAIN P : P[i].dep < i

Party == 0 .. 2
nextOf(p) == (p + 1) % 3
prevOf(p) == (p + 2) % 3

-----------------------------------------------------------------------------
(* A stage is one task function: does it block until all that its call has *)
(* asked to receive is there, and what it appends to its party's logs.     *)
Does(logs) == [waits |-> FALSE, logs |-> logs]
Waits(logs) == [waits |-> TRUE, logs |-> logs]
Fut == Waits(<<>>)

(* Multiplication (asyncMul of si64 and of si64Matrix), and the inputs of  *)
(* Sh3Encryptor: add a share of zero, pass it on, receive the other one.   *)
(* (Operators named Bug... are slips of the operator they precede; the     *)
(* mutants of PROJECT.json put them in its place.)                         *)
BugReshare(zero) ==
  << Does(<< <<zero, "zero">>, <<"toNext", "c">> >>), Waits(<< <<"fromPrev", "c">> >>) >>
Reshare(zero) ==
  << Does(<< <<zero, "zero">>, <<"toNext", "c">>, <<"fromPrev", "c">> >>), Fut >>

(* Multiplication with truncation: x*y-r goes to parties 0 and 1; party 2  *)
(* has no second task.                                                     *)
BugRevealedTo(q) == TRUE
RevealedTo(q) == q < 2

Truncate(p) ==
  LET r == << <<"evalNext", "r">>, <<"evalPrev", "r">> >>
      sends == (IF RevealedTo(nextOf(p)) THEN << <<"toNext", "xy">> >> ELSE <<>>)
                 \o (IF RevealedTo(prevOf(p)) THEN << <<"toPrev", "xy">> >> ELSE <<>>)
  IN IF p = 2 THEN << Does(r \o sends) >>
     ELSE << Does(r \o sends \o << <<"fromNext", "xy">>, <<"fromPrev", "xy">> >>), Fut >>

(* A shared integer times a shared bit: two transfers to party 1, with     *)
(* parties 0 and 2 as sender and helper and then the other way round;      *)
(* party 1 passes its new share on to party 2.                             *)
MulBit(p) ==
  CASE p = 0 -> << Does(<< <<"evalPrev", "z">>, <<"evalNext", "c">>, <<"evalPrev", "c">>,
                           <<"otNext", "0">>, <<"toNext", "m0">>, <<"otNext", "1">>, <<"toNext", "w1">> >>) >>
    [] p = 1 -> << Does(<< <<"evalPrev", "c">>, <<"fromPrev", "m0">>, <<"fromNext", "w0">>,
                           <<"fromNext", "m1">>, <<"fromPrev", "w1">> >>),
                   Waits(<< <<"toNext", "c">> >>) >>
    [] p = 2 -> << Does(<< <<"evalNext", "z">>, <<"evalNext", "c">>,
                           <<"otPrev", "0">>, <<"toPrev", "w0">>, <<"otPrev", "1">>, <<"toPrev", "m1">> >>),
                   Does(<< <<"fromPrev", "c">> >>), Fut >>

(* A public integer times a shared bit: party 0 sends, parties 1 and 2     *)
(* help each other.                                                        *)
ConstBit(p) ==
  << CASE p = 0 -> Does(<< <<"evalZero", "zero">>, <<"otNext", "m">>, <<"toNext", "m">>,
                           <<"otPrev", "m">>, <<"toPrev", "m">>, <<"fromNext", "c">>, <<"fromPrev", "c">> >>)
       [] p = 1 -> Does(<< <<"evalZero", "zero">>, <<"otNext", "m">>, <<"toNext", "w">>,
                           <<"toPrev", "c">>, <<"fromPrev", "m">>, <<"fromNext", "w">> >>)
       [] p = 2 -> Does(<< <<"evalZero", "zero">>, <<"otPrev", "m">>, <<"toPrev", "w">>,
                           <<"toNext", "c">>, <<"fromNext", "m">>, <<"fromPrev", "w">> >>),
     Fut >>

(* revealAll: two sibling tasks, one sends, the other blocks in recv.      *)
BugRevealAll == << Waits(<< <<"fromNext", "x">> >>), Does(<< <<"toPrev", "x">> >>) >>
RevealAll == << Does(<< <<"toPrev", "x">> >>), Waits(<< <<"fromNext", "x">> >>) >>

(* Sh3Converter::bitInjection, in one round or in two.                     *)
BitInjection(p, twoRounds) ==
  LET Only(one, logs) == IF one THEN logs ELSE <<>>
  IN CASE p = 0 -> << Does(<< <<"fromPrev", "m">>, <<"fromNext", "w">> >>
                             \o Only(~ twoRounds, << <<"ot02", "m">>, <<"toNext", "v">> >>)
                             \o << <<"convPrev", "d">> >>),
                      Waits(Only(twoRounds, << <<"toNext", "d">> >>)) >>
       [] p = 1 -> << Does(<< <<"ot12", "m">>, <<"toPrev", "w">>, <<"convNext", "d">> >>
                             \o IF twoRounds THEN << <<"fromPrev", "d">> >>
                                ELSE << <<"fromNext", "n">>, <<"fromPrev", "v">> >>),
                      Fut >>
       [] p = 2 -> << Does(<< <<"convNext", "d">>, <<"convPrev", "d">>, <<"ot12", "m">>, <<"toNext", "m">> >>
                             \o Only(~ twoRounds, << <<"ot02", "m">>, <<"toPrev", "n">> >>)) >>

(* Sh3Converter::toBinaryMatrix, with one level of nonlinear gates.  Stage *)
(* 1 is its own function, 2 party 1's wait for x0, 3 and 4 are the two     *)
(* roundCallbacks of asyncEvaluate, 5 writes the outputs, 6 keeps x0 and x1*)
(* alive until then.                                                       *)
ToBinary(p) ==
  << CASE p = 0 -> Does(<< <<"convPrev", "x0">>, <<"toNext", "x0">> >>)
       [] p = 1 -> Does(<< <<"fromPrev", "x0">> >>)
       [] p = 2 -> Does(<< <<"convNext", "x0">> >>),
     Fut,
     Does(<< <<"convPrev", "key">>, <<"convNext", "key">>, <<"toNext", "level">>, <<"fromPrev", "level">> >>),
     Fut, Does(<<>>), Does(<<>>) >>

Stages(op, p) ==
  CASE op = "mul"       -> Reshare("evalZero")
    [] op = "localInt"  -> Reshare("encZero")
    [] op = "mulShift"  -> Truncate(p)
    [] op = "mulBit"    -> MulBit(p)
    [] op = "constBit"  -> ConstBit(p)
    [] op = "revealAll" -> RevealAll
    [] op = "inject"    -> BitInjection(p, FALSE)
    [] op = "inject2"   -> BitInjection(p, TRUE)
    [] op = "toBinary"  -> ToBinary(p)

(* What a function adds to the runtime: tasks and closures, each behind    *)
(* the running task (0) or behind the k-th of these.  A chain unless the   *)
(* code says otherwise.                                                    *)
Task(behind, stage) == [closure |-> FALSE, behind |-> behind, stage |-> stage]
Closure(behind) == [closure |-> TRUE, behind |-> behind, stage |-> 0]

ToBinaryAdds(p) ==
  IF p = 1 THEN << Task(0, 2), Task(0, 3), Closure(2), Task(3, 5), Task(4, 6) >>
           ELSE << Task(0, 3), Closure(1), Task(2, 5), Task(3, 6) >>

Adds(op, p, stage) ==
  IF op = "toBinary"
    THEN CASE stage = 1 -> ToBinaryAdds(p) [] stage = 3 -> << Task(0, 4) >> [] OTHER -> <<>>
  ELSE IF op = "revealAll" \/ stage = Len(Stages(op, p)) THEN <<>>
  ELSE << Task(0, stage + 1) >>

(* What a call adds behind its dependency; the last one is its handle.     *)
BugCallAdds(op) ==
  IF op = "revealAll" THEN << Task(0, 1), Task(0, 2) >> ELSE << Task(0, 1) >>
CallAdds(op) ==
  IF op = "revealAll" THEN << Task(0, 1), Task(0, 2) >> ELSE << Task(0, 1), Closure(1) >>

-----------------------------------------------------------------------------
VARIABLES
  program,    \* what the parties run
  pc,         \* how many steps of it each party has completed
  handles,    \* party -> the Sh3Task that each step returned (get: -1)
  sched,      \* party -> its Scheduler
  mTasks,     \* party -> task -> [call, stage], its function
  logs        \* party -> log -> what each entry was meant for: [call, what]

vars == <<program, pc, handles, sched, mTasks, logs>>

Logs == {"toNext", "toPrev", "fromNext", "fromPrev", "encZero", "evalZero", "evalNext", "evalPrev",
         "convNext", "convPrev", "otNext", "otPrev", "ot12", "ot02"}

Init ==
  /\ program \in Programs
  /\ pc = [p \in Party |-> 0]
  /\ handles = [p \in Party |-> <<>>]
  /\ sched = [p \in Party |-> NewScheduler]
  /\ mTasks = [p \in Party |-> << >>]
  /\ logs = [p \in Party |-> [l \in Logs |-> <<>>]]

(* The runtime r = [sched, mTasks] after the additions "adds" of "call",   *)
(* made behind task "base".                                                *)
AddAll(r0, call, base, adds) ==
  LET AddOne(r, add) ==
        LET behind == IF add.behind = 0 THEN base ELSE r.made[add.behind]
            idx == r.sched.mTaskIdx
        IN [r EXCEPT !.sched = IF add.closure THEN AddClosure(@, {behind}) ELSE AddTask(@, "Round", {behind}),
                     !.mTasks = IF add.closure THEN @
                                ELSE [x \in DOMAIN @ \cup {idx} |->
                                        IF x = idx THEN [call |-> call, stage |-> add.stage] ELSE @[x]],
                     !.made = Append(@, idx)]
  IN FoldLeft(AddOne, [sched |-> r0.sched, mTasks |-> r0.mTasks, made |-> <<>>], adds)

(* The next step of the program is a call that schedules a protocol behind *)
(* the handle of an earlier one, or behind the null task (dep = 0).        *)
AtCall(p) == pc[p] < Len(program) /\ program[pc[p] + 1].op # "get"
AtGet(p) == pc[p] < Len(program) /\ program[pc[p] + 1].op = "get"
Awaited(p) == handles[p][program[pc[p] + 1].dep]

Call(p) ==
  LET step == program[pc[p] + 1]
      base == IF step.dep = 0 THEN -1 ELSE handles[p][step.dep]
      r == AddAll([sched |-> sched[p], mTasks |-> mTasks[p]], pc[p] + 1, base, CallAdds(step.op))
  IN /\ AtCall(p)
     /\ sched' = [sched EXCEPT ![p] = r.sched]
     /\ mTasks' = [mTasks EXCEPT ![p] = r.mTasks]
     /\ handles' = [handles EXCEPT ![p] = Append(@, Last(r.made))]
     /\ pc' = [pc EXCEPT ![p] = @ + 1]
     /\ UNCHANGED <<program, logs>>

(* get returns.                                                            *)
Got(p) ==
  /\ AtGet(p) /\ Awaited(p) \notin Live(sched[p])
  /\ pc' = [pc EXCEPT ![p] = @ + 1]
  /\ handles' = [handles EXCEPT ![p] = Append(@, -1)]
  /\ UNCHANGED <<program, sched, mTasks, logs>>

(* The thread is in get, or in runAll after the last step.                 *)
Driving(p) ==
  \/ AtGet(p) /\ Awaited(p) \in Live(sched[p])
  \/ pc[p] = Len(program) /\ Live(sched[p]) # {}

Appended(p, call, entries) ==
  FoldLeft(LAMBDA l, e : [l EXCEPT ![e[1]] = Append(@, [call |-> call, what |-> e[2]])], logs[p], entries)

(* The receives of a call are all served when its neighbours have sent as  *)
(* many messages as the party had asked for with the last of them.         *)
Served(p, call, l) ==
  /\ \A n \in DOMAIN l["fromNext"] : l["fromNext"][n].call = call => n <= Len(logs[nextOf(p)]["toPrev"])
  /\ \A n \in DOMAIN l["fromPrev"] : l["fromPrev"][n].call = call => n <= Len(logs[prevOf(p)]["toNext"])

(* mTasks.erase.                                                           *)
BugErased(m, x) == m
Erased(m, x) == [y \in DOMAIN m \ {x} |-> m[y]]

(* runNext: the whole function of the current task, then popTask.          *)
Current(p) == Head(CurrentTask(sched[p]).mReady)
CurrentFunc(p) == mTasks[p][Current(p)]
CurrentStage(p) == Stages(program[CurrentFunc(p).call].op, p)[CurrentFunc(p).stage]
LogsAfter(p) == Appended(p, CurrentFunc(p).call, CurrentStage(p).logs)

MayRun(p) == Driving(p) /\ (CurrentStage(p).waits => Served(p, CurrentFunc(p).call, LogsAfter(p)))

RunNext(p) ==
  /\ MayRun(p)
  /\ logs' = [logs EXCEPT ![p] = LogsAfter(p)]
  /\ LET f == CurrentFunc(p)
         r == AddAll([sched |-> CurrentTask(sched[p]), mTasks |-> mTasks[p]], f.call, Current(p),
                     Adds(program[f.call].op, p, f.stage))
     IN /\ mTasks' = [mTasks EXCEPT ![p] = Erased(r.mTasks, Current(p))]
        /\ sched' = [sched EXCEPT ![p] = PopTask(r.sched)]
  /\ UNCHANGED <<program, pc, handles>>

Next == \E p \in Party : Call(p) \/ Got(p) \/ RunNext(p)

Spec == Init /\ [][Next]_vars

-----------------------------------------------------------------------------
(* Handles are issued indices, every task has a function, and none of the  *)
(* schedulers' checks has fired in any party.                              *)
TypeOK ==
  /\ \A p \in Party : pc[p] \in 0 .. Len(program) /\ Len(handles[p]) = pc[p]
  /\ \A p \in Party : \A i \in DOMAIN handles[p] : handles[p][i] < sched[p].mTaskIdx
  /\ \A p \in Party : DOMAIN mTasks[p] \subseteq Live(sched[p]) /\ sched[p].threw = "no"

(* The two ends of everything that has two ends.                           *)
Pairs ==
  UNION {{ << <<p, "toNext">>, <<nextOf(p), "fromPrev">> >>, << <<p, "toPrev">>, <<prevOf(p), "fromNext">> >>,
           << <<p, "encZero">>, <<nextOf(p), "encZero">> >>, << <<p, "evalZero">>, <<nextOf(p), "evalZero">> >>,
           << <<p, "evalNext">>, <<nextOf(p), "evalPrev">> >>, << <<p, "convNext">>, <<nextOf(p), "convPrev">> >>,
           << <<p, "otPrev">>, <<nextOf(p), "otNext">> >> } : p \in Party}
  \cup { << <<1, "ot12">>, <<2, "ot12">> >>, << <<0, "ot02">>, <<2, "ot02">> >> }

Log(end) == logs[end[1]][end[2]]

(* The parties understand each other: every receive takes the message that *)
(* was meant for it, every common random number and every transfer key is  *)
(* used for the same thing at both of its ends.                            *)
InStep ==
  \A pair \in Pairs : LET a == Log(pair[1])  b == Log(pair[2]) IN IsPrefix(a, b) \/ IsPrefix(b, a)

(* And nothing is left over when all have finished.                        *)
AllDone == \A p \in Party : pc[p] = Len(program) /\ Live(sched[p]) = {}
NothingLeft == AllDone => \A pair \in Pairs : Log(pair[1]) = Log(pair[2])

(* When a party uses the result of a call (it gets it, or starts a call    *)
(* that depends on it), every function of that call has run but the one that *)
(* only keeps things alive: its receives have been waited for and its      *)
(* outputs written.                                                        *)
Unfinished(p, call) == \E x \in DOMAIN mTasks[p] : mTasks[p][x].call = call /\ mTasks[p][x].stage < 6

ResultsReady ==
  [][\A p \in Party :
       /\ AtGet(p) /\ pc'[p] # pc[p] => ~ Unfinished(p, program[pc[p] + 1].dep)
       /\ Driving(p) /\ sched'[p] # sched[p] /\ CurrentFunc(p).stage = 1
            => ~ Unfinished(p, program[CurrentFunc(p).call].dep)]_vars

(* The parties never all wait for each other: each step uses up a part of  *)
(* the program, so every run ends with all of them done.                   *)
NoDeadlock == AllDone \/ \E p \in Party : AtCall(p) \/ (AtGet(p) /\ ~ Driving(p)) \/ MayRun(p)
=============================================================================
