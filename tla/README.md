# A TLA+ model of aby3

aby3 is a C++ framework for three-party computation on secret-shared data. Each of three
parties runs the same program; the program adds *tasks* to a runtime, the runtime runs them on
one thread, and tasks exchange messages over ordered channels. Nothing names a message: the
n-th receive of a party on a channel takes the n-th send of the other party, and the same holds
for draws from the streams of common randomness and for the keys of the oblivious transfers. So
a large part of what makes the program right is *order*: the order in which a party's scheduler
runs tasks, and that it is the same in all three parties. The project models the scheduler and
the runtime first, then what the protocols exchange, then what they compute, then the randomness and
the transfers they are built on, and the table join of aby3-DB as a program of three servers.

Contents: [inventory](#inventory), [modules](#modules), [runs](#runs),
[fairness](#fairness), [proofs](#proofs), [findings](#findings),
[what is not covered](#what-is-not-covered), [plan](#plan), [how to run](#how-to-run).

## Inventory

Paths are relative to `src/`. `PROJECT.json` lists the hazards of each part at their lines.

| component | state | operations | hard because | correct when |
|---|---|---|---|---|
| `Scheduler`, `aby3/Common/Task.h` | `mTasks` (graph of tasks and closures), `mReady`, `mNextRound`, `mTaskIdx` | `addTask`, `addClosure`, `currentTask`, `popTask`, `removeTask` | the graph grows while it runs; a closure is handed from a finished task to what was added behind it; `removeTask` recurses while the lists change | no task before its dependencies; closures complete after what they cover; nothing is lost, nothing waits for itself |
| `Sh3Runtime`, `Sh3Task`, `aby3/sh3/Sh3Runtime.*` | a `Scheduler`, the functions of its tasks (`mTasks`), `mIsActive`, the C++ stack | `then`, `getClosure`, `operator&&`, `get`, `runAll`, `runOneRound`, `runNext` | task functions add tasks, call the runtime again, throw | functions do not nest and run once; rounds separate dependent tasks; `get` means done; every call ends |
| `Sh3ShareGen` | a stream in common with each neighbour, two buffers of zero shares made by AES in counter mode, counter and index | `init`, `getShare`, `getBinaryShare`, `getRandIntShare`, common draws, `refillBuffer` | parties may refill at different draws; a wrong counter is silent | the n-th draws of neighbours fit; nothing is drawn twice |
| `Sh3Evaluator` | a share generator, two `SharedOT` per neighbour | `asyncMul` of integers, matrices, bits and constants; truncation | asymmetric roles, two rounds in some parties only | result is a sharing of the product; messages pair |
| `Sh3Encryptor` | a share generator | `localInt`, `remoteInt`, `reveal`, `revealAll` | blocking receives inside tasks | shares add up; nobody waits for ever |
| `Sh3Converter` | a `Sh3BinaryEvaluator`, three `SharedOT` | `toBinaryMatrix`, `bitInjection` | a task function calls another asynchronous protocol | result ready when the handle says so |
| `Sh3BinaryEvaluator` | circuit, packed memory of two shares per wire, level, double send buffer, pair of AES streams | `setCir`, `setInput`, `asyncEvaluate`, `roundCallback`, `getOutput` | parties up to two levels apart; sends by reference; a receive left open from one level to the next | outputs are a sharing of what the circuit computes; each level gets its own message; it ends |
| `SharedOT` | a key and an index into its stream | `setKey`, `send`, `help`, `asyncRecv`, `get` | sender and helper must use the same keys, the helper in steps of 128; two callbacks on I/O threads | receiver gets the messages of its choice; no mask serves twice |
| `Sh3Piecewise` | thresholds, coefficients, temporaries | `eval` | composes all of the above; signs at and near the thresholds; products in place of their operands | value of the piece the input is in |
| `Sh3Types`, `Sh3FixedPoint` | shares | linear arithmetic, layout | | |
| circuit library | a cache of circuits | adders, comparisons | depth and wiring | circuit computes its function |
| aby3-DB | a query; tables of shares; cuckoo table, permutations, switching programs | `joinImpl`, `rightUnion`, `OblvPermutation`, `OblvSwitchNet`, `SelectQuery` | three different scripts of chunked messages; rows are sent by reference while they are shuffled; hashes that coincide; sorting and compaction in place | the output is the join; shares add up after every stage |
| aby3-ML | matrices | training loops | | |
| channels (cryptoTools, external) | queues | `asyncSend`, `asyncSendCopy`, `asyncRecv` | data sent by reference is read later | ordered and reliable |

How they interact: a protocol (`asyncMul`, `bitInjection`, ...) is a call that adds a task behind
a given `Sh3Task` and returns the closure of that task. The task function computes, appends
sends to channels, starts receives and adds a second task that waits for them
(`self.then([fu]{ fu.get(); })`); that is always the *next* round of the party's runtime. The
three parties share only the channels and the streams. There are no retries, timeouts, restarts
or lost messages in this code: channels are reliable and ordered, a party that fails stops. What
can vary is the interleaving of the parties, of the I/O threads, and the graph the program builds.

## Modules

| module | models | state |
|---|---|---|
| `TaskGraph` | `Scheduler` as a graph of *sets*: the abstract specification | `live`, `mUpstream`, `mDownstream`, `mClosures`, `mReady`, `mNextRound` |
| `SchedulerOps` | the methods of `Scheduler` as functions on a record: lists in order, both loops of `removeTask` and the list of its pending rounds, each `throw RTE_LOC` | (none) |
| `Scheduler` | one `Scheduler` object under every sequence of calls; implements `TaskGraph` | `sched` |
| `Sh3Runtime` | one party's thread: program, calls into the runtime, task functions, exceptions; implements `Scheduler` | `sched`, `mTasks`, `mIsActive`, `calls`, `thrown` |
| `ThreeParty` | three runtimes running the protocols: sends, receives, draws, transfer keys | `sched`, `mTasks`, `logs` per party |
| `BinaryEval` | `Sh3BinaryEvaluator` in three parties with channels and I/O threads | `mLevel`, `mem`, `mRecvLocs`, `mSendBuffs`, `sending`, `arrived` |
| `ShareArith` | what the protocols compute, in wrap-around integers | operands, draws, result |
| `Sh3ShareGen`, `SharedOT` | the two classes as functions on records | (none) |
| `Randomness` | seeds, share generators and transfers of three parties with their I/O threads | `gen`, `ot`, `sent`, `posted`, `transfers`, `draws`, `tuples` |
| `SelectQuery` | the query of a join and the circuit made of it | (none) |
| `OblvSwitchNet` | shuffle, switching program and duplication as functions | (none) |
| `DBServer` | three database servers that join or unite two tables | `pc`, `done`, `work`, `mem`, `chan`, `result` |
| `TaskGraphProofs`, `SchedulerProofs`, `Sh3RuntimeProofs`, `ShareArithProofs`, `RandomnessProofs`, `BinaryEvalProofs`, `DBServerProofs` | theorems | |
| `FoldFacts` | lemmas about folds, traces of recursive functions and prefix sums, for the proofs | |

`TaskGraph` <- `Scheduler` <- `Sh3Runtime` is a chain of refinements (`ImplementsTaskGraph`,
`ImplementsScheduler`). `ThreeParty` uses `SchedulerOps`, so it runs the same scheduler.
`MC*.tla` hold the instances. Operators whose names begin with `Bug` are slips of the operator
they precede; the `mutants` of `PROJECT.json` put them in its place to show that each property
can fail.

**TaskGraph / SchedulerOps / Scheduler.** `AddTask`, `AddClosure`, `CurrentTask`, `PopTask` are
the four methods. In `TaskGraph` the recursion of `removeTask` is a least fixpoint (`Cascade`),
in `SchedulerOps` it is the recursion, written as the list of what its nested calls have left to do
(`ContinueRemove` does one round, `RemoveTask` as many as there can be). History variables (`upAtBirth`, `closures`, `acyclic`) say what
each index was added behind; `Reach(c)` is what closure `c` promises to wait for. A removal that
throws leaves its name in `sched.threw`. Abstracted: names, printing, `mTasks` as a hash map
(iterator validity), handles of another scheduler.

**Sh3Runtime.** `AddTaskFunc` and `GetClosure` are enabled wherever user code runs: in the
program or in a task function, at any nesting. A call is a frame of `calls`; `Drive` pushes it,
`Return` pops it when the loop condition is false, `RunNextEnters`/`RunNextLeaves` are
`runNext` before and after the function. `BodyThrows`, `RunNextThrows`, `Unwind`, `Caught` follow
an exception up the stack; as in the code nothing on the way resets `mIsActive`. `MaxTask`, `MaxDeps`, `MaxDepth` and
`MaxNested` bound the indices, the dependencies of a call, the nesting of calls and the number of indices up to which functions
drive the runtime or throw; the theorems hold for every value of them.

**ThreeParty.** A call of a protocol is a list of *stages*, one per task function, with what it
appends to its party's logs: a log is one end of a channel direction, stream or key sequence.
The n-th entries of the two ends must be meant for the same thing (`InStep`). A function that blocks
in `fu.get()` runs when the receives of its call have been served. A matrix is one entry.
`ToBinary` has one level of nonlinear gates; `BinaryEval` has the levels.

**BinaryEval.** One bit per wire (the code works on packed words, bit by bit alike). A party's step is one
`roundCallback`: wait, store the received shares, evaluate the level, send. A send by reference
stays in `sending` until the I/O thread performs it (`Transmit`) and then carries what the buffer holds
*then*. A random stream is the set of the indices at which it has a one. With `promptSends` the transmission precedes the next use of the buffer (see findings).

**ShareArith.** One state per choice of operands, shares and draws, one step to the result.
`Half` is 2^63 in the code. Arithmetic right shift is division rounding down. That the draws which
cancel are the same draws is what `ThreeParty` (by order) and `Randomness` (by value) show; here they
are one variable. `Piecewise` is `Sh3Piecewise::eval` with two thresholds and polynomials of degree up to one, as
aby3-ML uses it: each region's bit is the circuit's, any sharing of it is allowed. The comparison is
`x - t < 0` in wrap-around integers, so it is right only where that difference does not wrap (`Comparable`). `eval`
hands `asyncMul` one matrix as operand and result (`Sh3Piecewise.cpp:300-304`): `MulBitInPlace` is that call, in which party 0
reads its draws instead of its shares (`Overwritten`), so the product with a linear polynomial is wrong (see findings). `ResultsCorrect`
therefore speaks of inputs whose polynomial is a constant or zero (the others' regions may be linear: their bit is
zero, and zero they add), and `PiecewiseIsPlain`, which the code violates, of all.

**Randomness.** The random values themselves are never computed with: a word of a stream is
`<<seed, position>>` and of a counter mode `<<key, position>>`, so two words are equal exactly if they are the
same draw. Each party has a buffer length of its own (`BuffSize`). `SendSeed`/`RecvSeed` are `init`; `Draw`,
`Tuple`, `Gives` (`send` and `help`), `Takes` (`asyncRecv`) and `Get` are a thread's operations; `Arrive`, `CountDown` and
`Complete` are the I/O threads: message copied, callback's decrement, the last callback's work. What a
receiver makes of two messages is noise unless they are masked by the same word.

**DBServer.** A value is a set of atoms, XOR their symmetric difference, so a share is what is left
when the other share is taken off. Each server has a script of calls: server 0 shuffles the right table
into the cuckoo table (`cuckooHashSend`, with 2 and 1), server 1 selects three of its entries for each left row
(`selectCuckooPos`, with 0 and 2) by shuffle, duplication and shuffle, the circuit compares and the
query's gates run, the flags are revealed and the rows compacted. A call that moves a matrix takes one
step per chunk of `Step` rows (`SendChunk`, `ProgramChunk`, `RecvChunk`). The hash is any function, the
placement any that the hash allows. `AddOp` is both forms of `addOp`, with one operand (`Inverse`) or two; all columns have
one width, so the throw for operands of two widths (`Table.cpp:63-64`) cannot occur. `SelectQuery` keeps the code's indices (memory, inputs, positions of
outputs), because the circuit and the tables are matched by them. Keys come from the hash, the circuit's
value is the sum of shares: `computeKeys` and `BinaryEval` are taken for what they promise.

## Runs

`tlc -workers 2 -config <cfg> <module>`; 12 runs, each within five minutes.

| run | question | bounds |
|---|---|---|
| `graph_safety` | is the graph sound, under every sequence of adds and pops? | 4 indices: enough for a task, two closures and a task behind a closure, or a diamond. Each further index only lengthens chains; the invariants are also proved for every number |
| `scheduler_refines` | do lists and recursion implement the sets? do siblings keep their order? | 4 indices, both task types |
| `runtime` | rounds, `get`, `runAll`, nesting, exceptions, termination | 4 indices, 2 dependencies per call, calls nested twice (a task function inside `get` calling `get` needs no more); functions drive the runtime or throw while at most 3 indices are in use (`MaxNested`), which is a task, what it waits for and what waits for it |
| `binary_evaluate` | are circuits evaluated right, in every interleaving? | 2 inputs, 1-4 levels, every gate type, all 64 sharings of the inputs (single circuits) |
| `binary_send_buffer` (violation) | does data live until it is sent? | three nonlinear levels |
| `three_party_programs` | do the parties stay in step? | 9 protocols in all pairs behind each other and with `get`, 6 in parallel pairs, and triples of two in parallel with a third behind one. The interference needs two protocols beside each other and at most one that moves a round |
| `three_party_parallel` (violation) | ... in every program? | three multiplications |
| `three_party_get` (violation) | is the result of `toBinaryMatrix` there after `get`? | two calls |
| `share_arith` | is the arithmetic right? | 5-bit integers at both ends of the range and about zero; thresholds apart and equal, inputs at each threshold and one to either side; every width is proved |
| `piecewise_linear` (violation) | is a piecewise function's output its value? | the piecewise cases of `share_arith`, all polynomials |
| `randomness` | do three generators and the transfers stay in step? | buffers of 1, 2 and 3 blocks, so that parties refill at different draws, 5 draws and 2 common words; transfers of 1 to 3 messages with `HelpStep` 2: a whole step, a rest, and a transfer after both; sender and helper in either place |
| `db_join` | is the output the join? | 1-2 right rows, 3 left rows in 5 bins (narrow) and 6 in 5 (wide), `Step` 3: several chunks and a partial one; keys that match, repeat and miss, four keys under three hash functions with bins that coincide, every placement, two generators, three queries, one with gates of one and two operands, all three operations |

What the passing runs show:

- *Graph* (`graph_safety`, `scheduler_refines`): `DependencyOrder`, `NothingLost`,
  `ClosureCovers` and `NeverStuck`: as long as the program does
  not put a task behind a closure that has to wait for that very task (`acyclic`), there is a task to run.
  `OnlyCurrentTaskThrows`: no internal check of `Task.h` fires. `SiblingOrder` is what
  three parties rely on when they match messages by order.
- *Runtime*: `RoundSeparation` (a task runs in a later round than each it waited for),
  `GetMeansDone`, `RunAllMeansDone`, `MirrorsScheduler`, `OnlyEmptyThrows`;
  `RunsOnce`, `CallsEnd` also under exceptions and when functions call `get`. An exception leaves `mIsActive` set
  (`Sh3Runtime.cpp:291`): afterwards every `runNext` throws. `CallsEnd` and `RunsOnce` hold
  *because* of that: a failed party stops, it does not retry.
- *Three parties*: `InStep`, `NothingLeft`, `NoDeadlock`, `ResultsReady`.
- *Binary evaluation*: `OutputsCorrect`, `LevelsMatch`, `AllFinish`.
- *Arithmetic*: `ResultsCorrect` (of a piecewise function, for inputs whose polynomial is a constant or zero), `TruncationError`: a truncated product is the product shifted
  or up to three less, provided the product leaves the two top bits free.
- *Randomness*: `SharesAgree` (n-th draws of neighbours are the same word), `NothingReused`,
  `TransfersRight`, `AllFinish`. `InStep` of `ThreeParty` counts draws; these show that equal counts
  give equal words.
- *Join*: `SharesAddUp` after the cuckoo table and each selection, `InStep` (message, sender and size are
  what the receiver is about to take, nothing is left over), `NoDeadlock`, `SentRowsStay`, `JoinCorrect`.

`CHECK_DEADLOCK FALSE`: these systems stop when the program has ended or the bound on indices is
reached. That they do not stop earlier is stated as `NeverStuck`, `CallsEnd`, `NoDeadlock`, `AllFinish`.

## Fairness

- `Sh3Runtime.FairSpec` has weak fairness of the runtime's own steps (a thread in a loop goes
  on) and strong fairness of `RunNextLeaves` (a function returns in the end, though it may call
  `get` any number of times before). Nothing obliges the program to do anything.
- `BinaryEval.FairSpec`: weak fairness of each party's thread (it drives its runtime until its
  task completes) and of its I/O thread (a queued send is performed in the end).
- `Randomness.FairSpec`: weak fairness of each party's thread and of its I/O threads: connections
  stay up, a posted receive is served once its message was sent, and a thread is not stopped.
- `DBServer` and `ThreeParty` have none: `NoDeadlock` is a state predicate, and as each
  step uses up a part of a program or script, every run ends.

## Proofs

`tlapm <module>`; the theorems hold for every value of the constants.

**TaskGraphProofs**, for any number of tasks (`MaxTask \in Nat`).
`TypeCorrect` first. `DependencyOrder` is not inductive: that a task leaves the
queue only after its dependencies rests on both ends of edges agreeing when `PopTask` removes
a node from one end. The strengthening is `GraphInv == TypeOK /\ EdgesAgree /\ NothingLost /\ HistoryKept`.
One lemma per action (`AddTaskKeepsGraph`, `AddClosureKeepsGraph`, `PopTaskKeepsGraph`;
`CurrentTask` is direct) gives `GraphInvariant`; `DependencyOrderHolds` and `NothingLostHolds` follow.
`ClosureCovers` needs `ReachInv == CoverInv /\ ClosureCovers` on top: a live closure waits directly for each
unfinished task of its reach unless that task waits for another one of the reach. The reach is a
least fixpoint, used through `ReachIsClosed` and `ReachIsLeast`; the cascade of `removeTask`
is used through `CascadeIsClosed` and `CascadeIsEmptied`. For a pop: take a closure removed by the
cascade and the least unfinished member of its reach; it has no wait inside the reach, so the
closure waited for it, and would have been handed on.
`NeverStuck` rests on `WaitInv == UpInReach /\ NoCircle`: a closure waits only for members of its
reach, and while the program keeps waits acyclic every set of unfinished members has one that
waits, directly or through its reach, for none of the set. A new task keeps `NoCircle` because what
its dependencies wait for (`WaitsForIsClosed`) holds no closure it could reach into; a new
closure because nothing waits for it; a pop because what a closure takes over was in its reach.
Applied to the set of everything unfinished, `NoCircle` names a member with nothing left to wait
for, and `NothingLost` says it is queued. `TaskRemains` is simpler: were
everything unfinished a closure, the oldest one would wait for something older, or for a task.

**SchedulerProofs**, for any number of tasks. `SchedInv` has two parts. One is the graph's own
invariant, read through the refinement mapping: `TaskGraphProofs` is instantiated with the lists of `Task.h`
taken as sets, so that nothing about the graph is proved twice. The other, `Order`, is what sets do not have:
lists and queues hold nothing twice and are in the order in which things were added (`ListsOk`, `QueuesOk`), nothing has
thrown but `currentTask`, and of two tasks of one type that were added behind the same tasks the younger one is never queued
or complete while the older one still waits (`SiblingsOk`).
The graph's part makes every internal check of `Task.h` succeed; that they succeed is what makes the
step a step of the graph. The first half of the module says what one call does. `addTask`, `addClosure` and `currentTask` are direct. For
`popTask` the first loop is a fold over `mDownstream`, with a fold over `mClosures` in it. The second, with its recursion, is the sequence
of `ContinueRemove` steps: by `NatInduct` each keeps
that the pending rounds are distinct, that every task whose removal has begun is one the least set `Removed` must hold, and
that a link is gone exactly when its round has been done (`Underway`).
Each round takes a pair of tasks that does not come back, so the sequence ends
within `Cardinality(Live \X Live)` rounds. At its end the erased set is closed under the cascade, so it *is* the least set:
this is `ImplementsTaskGraphHolds`, with one lemma per action (`AddRefines`, `CloseRefines`, `CurrentRefines`,
`PopRefines`). `SiblingOrderHolds` and `OnlyCurrentTaskThrowsHolds` follow from `Order`; `AcyclicNeverThrows` adds `NeverStuck` of the
graph, carried over by the refinement, so that `currentTask` does not throw either.

**Sh3RuntimeProofs**, for any number of tasks and any depth of nested calls, whether or not functions throw. It instantiates
`SchedulerProofs` with the runtime's scheduler; `RunStep` shows that every step of the runtime is a step of `Scheduler` or
none, so what is proved of the scheduler and the graph need not be proved again. `RunOk` is what the runtime adds:
- `CallsOk`: only the outermost call is ever in a function, and that function belongs to the head of `mReady`
  (`FramesOk`). A function may add tasks and call the runtime again, but the queue only grows behind its head, and a nested call gets no further
  than its first `runNext`. So the `popTask` after a function removes the task whose function it was.
- `MapOk`: the map mirrors the scheduler (`MirrorsScheduler`).
- `RanOk`: every complete task has been called, and no other task but the head of the queue while `mIsActive` is set. As nothing
  resets `mIsActive` after an exception, `RunsOnceHolds` covers a task whose function threw.

`GetMeansDoneHolds` and `RunAllMeansDoneHolds` add `ClosureCovers` and `TaskRemains` of the graph to it, and `OnlyEmptyThrowsHolds`
adds `NeverStuck`: in a state in which no function runs and none has thrown, a call that throws must have found both
queues empty, so nothing is left (`BodyIsActive`: a function can run, and throw, only with `mIsActive` set). `RoundSeparationHolds` needs `OrderInv`: what is queued
for this round waited for earlier rounds only. It is inductive because what a closure covers stops growing when the closure is complete
(`ReachFrozen`: a later task extends a reach only if it is added behind a live member of it), and because `popTask`
moves `Round` tasks to `mNextRound`, of which `currentTask` makes a new round.

**ShareArithProofs**, for every integer width (`Half` any positive multiple of four), every
sharing, every draw and every positive divisor. Division has its defining facts (`DivMod`,
`QuotientUnique`), congruence modulo 2^w its rules (`Congruent*`, `WrapBy`, `WrapFinds`).
`MulCorrect`, `MulBitCorrect`, `ConstBitCorrect` and `InjectCorrect` show that masks cancel and cross terms
add up. `TruncationCorrect` has three parts: three random quarters and a product
that leaves two bits free do not wrap (`OpenedIs`), shifting twice is shifting once
(`ShiftedTwice`), dividing four addends apart loses 0 to 3 (`SplitDivision`).
`LocalIntCorrect` is the cancelling of a zero share. `PiecewiseIs` says what the piecewise evaluation of the code computes: the comparison is that of the values if
the difference does not wrap (`BelowIs`), exactly one of the three region bits is set, each piece is a
sharing of bit times what its region contributes (`PieceIs`, by the lemmas of multiplication by a bit), and the sum keeps the
one of the input's region. A constant contributes itself; a linear function contributes its second share and two draws
(`Contribution`, `OverwrittenIs`), not its value. `PiecewiseCorrect` is the case of a constant or zero, with linear functions elsewhere. The invariant `IInv` carries them to `ResultsCorrectHolds` and `TruncationErrorHolds`.

**RandomnessProofs**, for programs and buffers of any length. `SharesAgree` compares what parties have
drawn; to be inductive it needs what each party *will* draw. `RandomInv` says of each party by itself that its
generator is determined by the number of its draws (`GenInv`: the buffers hold the words from `2 * base` on and
`mShareIdx` is the rest), that draw n is word n of both its counter streams and common word n the word behind
the seed's first blocks (`LogsInv`), and that the first message to the next party is the seed
(`ChannelInv`). No clause relates two parties: the key of a stream is a function of the seed, and the
seed is what the neighbour received, so `SharesAgreeHolds` follows by putting two parties' logs side by side, and
`DrawsOnceHolds` because word n is not word m. `NewGen` and `OneDraw` are the two facts about the buffers (a fresh
generator, a draw with or without refill), `DrawKeeps`, `TupleKeeps`, `RecvSeedKeeps` the three actions that matter.

The second half is about transfers of any sizes, with any `HelpStep`. `TransfersRight` relates what
three parties have done at different times: `OtInv` ties each piece of state to the operations its party has
done. The index of a key is the sum of what the operations before it took (`Totals` of `FoldFacts`: a prefix sum,
not a recursion), a channel holds what the sender's operations put there less what the receiver's receives have
taken, and a transfer is posted, arrived, counted down and complete in that order. Sender and helper
then mask with the same words because both sums run over the same operations, in `TransfersRightHolds`; a word masks
one message only because the ranges of two operations do not overlap, in `NothingReusedHolds`. `Help` is a fold
over the steps of a transfer; `FoldFacts` turns such a fold into a function on `Nat` with a step equation
(`FoldTrace`), about which `NatInduct` proves what a loop of the code keeps.

**BinaryEvalProofs**, for every workload: any circuits, any sharing of the inputs, any streams. Its
first half is about what a level does. `NonlinearTogether` and `LinearTogether`: a gate, done by
three parties on shares that fit together, is the gate on the opened bits, and random shares cancel
(`RandomCancels`). `LevelTogether` carries this through a level, whose nonlinear outputs have no second share yet
(`Fits`; this is why `CircuitOK` asks that no later gate of the level reads them, as `ccCheck` does), and `RunOpens` through a
circuit. The second half is about parties that are *not* together. `Run` is what they would hold in lockstep,
a function of values that never change. `EvalInv(right)` says of each party by itself that it holds the shares of
`Run` where it is, and of each message, queued or arrived, that its number among all of its sender's
messages (`MsgNo`) is the one its receiver will look for (`Channel`): so `LevelsMatchHolds` needs no bound on how far apart
the parties are. With `right = FALSE` it speaks of levels and lengths and always holds. With `right = TRUE` it
speaks of values too, and only the step of the I/O thread needs `BuffersOutliveSends`
(`OutputsIfBuffersOutlive`). `TimeInv` then gives the circuits whose sends outlive two buffers
(`InTime`: sends are prompt, or no level sends from a buffer that an earlier one has
sent from by reference): `BuffersSuffice` and `OutputsCorrectHolds`. The workloads of `binary_evaluate` are
`InTime`, that of `binary_send_buffer` is not.

**DBServerProofs**, for tables of every size, every hash, placement and draw and every `Step`. Nothing names a message here
either, so `InStep` is about *which* message comes next. The proof counts. `ScriptIs` reads the scripts call by call
(`CallAt`). What a server has sent to and taken from another one is a function of the call and the chunk it is at (`Sent`, `Got`), and
the n-th message of a channel has a kind and a size of its own (`Message`). `CountsAll` is about these constants alone: each step of a call
moves the counters of what it sends and takes by one, and the message with that number is the one the call sends or
waits for. `JoinInv` then says of each server by itself that it is in one of its calls (`CallsIn`) and that the matrix it shuffles
(`WorkIn`) and its other matrices (`MemIn`) have the sizes that call needs, and of each channel (`ChanIn`) that it holds as many messages as its
ends have counted differently, each with the kind and size of its number. `CountsMove` and `ChanKeeps` carry the channels
through a step, one lemma per action (`...Keeps`) the matrices, for which the first part of the module shows what sizes
shuffle, sort, selection and duplication keep. `InStepHolds` follows without any bound on how far apart
the servers are. `NoDeadlockHolds` needs an order: `TimeAt` gives the calls of all three scripts a time such that a server
that waits in vain waits for one at an earlier time (`SentInTime`, `WaitsForEarlier`); so the earliest of those that have
not finished can move. `SentRowsStayHolds` is about the shuffle: the chunks behind a chunk swap rows behind it only
(`Unmoved`). The hypothesis `SameChunks` is a real limit of the code, not of the proof: see the findings.

`SharesAddUpHolds` is about the values: whatever the draws, what servers 0 and 1 hold adds up to the cuckoo table
after the first call and, after each round, to the entries the hash selects. It has three steps. First, what the operators
compute: `Order` is where a shuffle leaves the rows, whose swaps within a chunk are all that a chunk sent by reference may depend on
(`ShuffleTrace`, `SendingChunk`, `ArrangedChunk`); a shuffled permutation applied to shuffled rows is the permutation
applied to the rows (`Unshuffled`), and the masks cancel (`PermutedAdd`, `PermutedOver`); selection,
duplication and final permutation turn two shares of the table into two shares of the selected entries, one fold at a time (`SelectIs`,
`DuplicateIs`), for which the sorted switches must be valid (`ValidIs`) and no bin be the place of two rows
(`CuckooIs`, `RightIs`). `TableAdds` and `OutAdds` sum it up, still without any state. Second, `Content` is what the n-th message of a channel
says, and `Holds` what a server holds at each place of its script, chunk by chunk: `ValueInv` says that all messages and
matrices are those. Third, each action keeps it, one lemma per call of each server (`Program0` ... `Dup2`). A
receiver needs nothing of the sender's state, only `Content` of the number that `CountsAll` gives it, so again no bound on how far
apart the servers are is needed. Server 2's fresh shares and the choice bits drop out of the sum;
that a choice is a bit (`DatabasesAssumption`; the code draws a `BitVector`) is needed for that.

Only model-checked: that the output of the join is the joined table (`JoinCorrect`), the three parties (`ThreeParty`), and liveness
(`CallsEnd`, `AllFinish`). Liveness is out of the prover's reach. `JoinCorrect` needs, beyond `SharesAddUp`, what the
compaction of the output and the search for a partner among three candidates return.
`InStep` of `ThreeParty` does not hold of every program (see the findings),
only of those the run names; why it holds of a program is the order in which three schedulers run it, step by
step.

## Findings

| run | source | what |
|---|---|---|
| `binary_send_buffer` | `aby3/sh3/Sh3BinaryEvaluator.cpp:1167` | a send buffer is refilled two levels later while it may still be queued; `Channel.h:79-81` asks that it live until sent |
| `three_party_parallel` | `aby3/sh3/Sh3Evaluator.cpp:699` | truncation takes one round less in party 2; beside a multiplication by a bit, messages pair wrongly |
| `three_party_get` | `aby3/sh3/Sh3Converter.cpp:111` | `get` of `toBinaryMatrix`'s handle returns before the outputs are written |
| `piecewise_linear` | `aby3/sh3/Sh3Piecewise.cpp:300` | operand and result of a product are one matrix: party 0 overwrites its shares with draws (`Sh3Evaluator.cpp:151-152`) before it reads them (line 158), so linear pieces come out as noise. `aby3_tests/Sh3PiecewiseTests.cpp:301` throws "Known problem, file an issue on github if needed.", and line 129 skips the test: "known issues." A result matrix of its own mends it |

Also seen while modelling. Kept out of the passing programs by name, or outside what is modelled:

- *Scheduler.* A closure does not cover tasks added behind another closure of the same task (`Task.h:250`); the
  tutorial (`frontend/aby3Tutorial.cpp:361-362`) and `Sh3Runtime.h:43-44` say it does. A `ContinuationFunc` is
  scheduled in the next round (`Sh3Runtime.cpp:118`); `Sh3Runtime.h:34` says the same round. A task behind
  both a task and a closure of it waits for itself (`acyclic` in `TaskGraph`); `currentTask` then throws.
- *Protocols.* `bitInjection` in two rounds next to almost any other protocol: party 1 asks for its share a round
  before party 0 sends it (`Sh3Converter.cpp:308`). `AsyncRecv::get` throws when called twice.
  `shareSimRemote` reads what it receives before it is there; nothing calls it (`Sh3Encryptor.cpp:91`).
- *Piecewise.* Party 0 hands the sum of its shares to a channel by reference (`Sh3Piecewise.cpp:452`) and subtracts the
  threshold from the same memory at line 484 having waited for its own receive only. `getInputRegions` is no task: it
  reads its inputs when `eval` is called, whether `dep` is complete or not. In
  `CircuitLibrary.cpp:97` the loop that adds temporaries for the signs stops one short: the last sign goes to wire 0,
  an input bit that the comparisons have read by then.
- *Queries and joins* (`WellFormed` in `SelectQuery` excludes them): a left input that only passes through, before
  one that does not, shifts the circuit's inputs (`Table.cpp`, `apply` indexes `mInputs` by position); a right
  input that nothing reads misaligns the columns behind it; a computed value output twice throws; a right column is
  looked up in the output by the name it has in the right table. `addOp` takes the type of its first wire in both branches
  (`Table.cpp:73-75`). A left key whose hash is zero matches empty bins (`DBServer.cpp:1539` compares
  with what an empty bin holds); an empty left table underflows `rows - 1`. `DBServer.h:81-85` describes another union than
  `rightUnion` computes.
- *Chunks.* In `OblvSwitchNet` server 2 takes as many chunks as the cuckoo table has (`help` is given its rows,
  `DBServer.cpp:619`, and `OblvPermutation.cpp:109` counts them). The two others send as many as the larger of
  the table and the left rows has: `sendRecv` resizes its matrix to `dest.rows()` when there are more of these
  (`OblvSwitchNet.cpp:20-21`), and the permutation of `programSelect` gets the larger size too (line 166). A chunk is 2^14 rows, so with,
  say, 20000 left and 32 right rows the numbers differ, and server 2 takes a chunk that was left over for the
  bits of the transfers. The widest table of a test is `DB_Intersect_test(1 << 12, 1 << 5)`
  (`aby3-DB_tests/DBServerTests.cpp:561`), a single chunk. `SameChunks` excludes this from `DBServerProofs`; in the tables
  of `db_join` both numbers are 2, so the passing run and the theorems say nothing of tables where they differ. With `Step` 5
  instead of 3 the run finds it.

## What is not covered

- Packing, layout and vectorisation of binary shares; constant wires; the debug modes.
- `Sh3Encryptor`'s blocking variants (`localInt(CommPkg&)`, ...), resharing and packed binary values.
- `Sh3Piecewise`: its messages as a composition; degrees above one; the fixed-point factor of products. That linear pieces are computed right cannot be shown: they are not (see findings).
- `Sh3BinaryEvaluator`: evaluations with packed inputs only (`setInput` of a packed matrix does not reset `mLevel`; no caller does so).
- aby3-DB: `computeKeys` and LowMC, packing of bits into rows, wiring of the equality circuit, the debug checks.
- The wiring of adders; garbling; `Sh3Types` (containers). aby3-ML and the frontends are clients.
- Connections that break: the code does not recover from it, a party's receive throws and the program ends.
- Privacy: no property here is about what a party learns.

## Plan

1. Scheduler and runtime: modelled and proved, but for liveness.
2. Protocols: `SharedOT`, `Sh3ShareGen` done. Left: the inputs of `Sh3BinaryEvaluator` across evaluations (`mLevel`), the rest of `Sh3Encryptor`.
3. Compositions: joins done. Left: `Sh3Piecewise` over the evaluators as messages; `toBinaryMatrix`
   with several levels.
4. Pure algorithms: permutation, switching network and region gates done. Left: the adders and comparisons of
   the circuit library against integer arithmetic.
5. Theorems: scheduler, runtime, pairing of draws, transfers, binary evaluation, the channels and the shares of the join done. Left: the
   invariant of the logs of `ThreeParty`; the join's output (`JoinCorrect`).

## How to run

    cd tla
    tlc -workers 2 -config TaskGraph_Safety.cfg MCTaskGraph.tla
    tlapm TaskGraphProofs.tla
    tlapm SchedulerProofs.tla
    tlapm Sh3RuntimeProofs.tla
    tlapm ShareArithProofs.tla
    tlapm RandomnessProofs.tla
    tlapm BinaryEvalProofs.tla
    tlapm DBServerProofs.tla
    tlapm FoldFacts.tla
