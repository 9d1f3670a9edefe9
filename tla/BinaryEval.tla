----------------------------- MODULE BinaryEval -----------------------------
(***************************************************************************)
(* Sh3BinaryEvaluator: three parties evaluate a circuit on XOR-shared bits,*)
(* one level of the circuit per task.  Party p holds share p and share p-1 *)
(* of every wire.  A gate that is not linear gives each party only its own *)
(* share of the output; the parties send these to the next party and use   *)
(* them one level later.  One SIMD lane stands for all: lanes are computed *)
(* independently.                                                          *)
(*                                                                         *)
(* asyncSend(pointer, size) does not copy: the I/O thread reads the buffer *)
(* some time after the call (Channel.h:78-84).  A send is queued here as a *)
(* reference to one of the two members of mSendBuffs, and Transmit reads   *)
(* what the buffer holds then.                                             *)
(*                                                                         *)
(* The tasks of one evaluation form a chain (each roundCallback adds the   *)
(* next one behind itself) and module Sh3Runtime shows that a chain runs   *)
(* in order, so a party is where its mLevel says.                          *)
(***************************************************************************)
EXTENDS Integers, Sequences, SequencesExt

CONSTANTS
  Workloads,    \* [circuits: evaluated one after the other by one evaluator,
                \*  inputs: sharings of the inputs, from 0..2 and input wire to a bit,
                \*  prompt: is every buffer sent before it is used again?]
  Rands         \* streams of the pairwise keys: functions from 0..2 to the set of
                \* the indices at which the stream has a one

Party == 0 .. 2
nextOf(p) == (p + 1) % 3
prevOf(p) == (p + 2) % 3
Bit == {0, 1}

(* Circuits: number of inputs (the first wires), number of wires, gates    *)
(* [type, in0, in1, out] by level, outputs [wire, invert].  (The second    *)
(* input of a gate "a" is no wire.)  No gate has to do, within a level,    *)
(* with a wire that a nonlinear gate before it has written: in debug       *)
(* builds the code marks the second shares of these and throws on reading  *)
(* a mark.                                                                 *)
Linear == {"Xor", "Nxor", "a"}
Nonlinear == {"And", "Nor", "Or", "na_And"}
Wires(cir) == 0 .. (cir.wires - 1)
Gates(cir) == {g \in [type : Linear \cup Nonlinear, in0 : Wires(cir), in1 : Nat, out : Wires(cir)] :
                 g.type # "a" => g.in1 \in Wires(cir)}
Reads(g) == IF g.type = "a" THEN {g.in0} ELSE {g.in0, g.in1}
Levelled(level) ==
  \A i, j \in DOMAIN level :
    i < j /\ level[i].type \in Nonlinear => level[i].out \notin Reads(level[j]) \cup {level[j].out}

CircuitOK(cir) ==
  /\ cir.wires \in Nat /\ cir.inputs \in Nat
  /\ cir.levels \in Seq(Seq(Gates(cir))) /\ \A l \in DOMAIN cir.levels : Levelled(cir.levels[l])
  /\ cir.outputs \in Seq([wire : Wires(cir), invert : BOOLEAN])

ASSUME WorkloadsAssumption ==
  \A w \in Workloads :
    /\ w.prompt \in BOOLEAN
    /\ w.circuits \in Seq(Range(w.circuits))
    /\ \A cir \in Range(w.circuits) :
         CircuitOK(cir) /\ \A f \in w.inputs : \A p \in Party, x \in 0 .. (cir.inputs - 1) : f[p][x] \in Bit

VARIABLES
  program, promptSends,   \* the circuits and promptness of a workload
  input, rand,            \* the sharing of the inputs, the streams
  job,        \* how many circuits of the program each party has started
  mLevel,     \* mLevel: the level that the next roundCallback evaluates
  mem,        \* mMem.mShares: party -> share (0 own, 1 previous) -> wire -> bit
  mShareIdx,  \* counter of the keyed streams
  mRecvLocs,  \* wires whose second share is still to be received
  mSendBuffs, \* what the memory of the two send buffers holds
  sending,    \* queue of sends not yet transmitted, to the next party
  arrived,    \* queue of messages from the previous party, not yet taken
  out         \* history: the outputs of each finished circuit, both shares

local == <<job, mLevel, mem, mShareIdx, mRecvLocs, mSendBuffs, out>>
fixed == <<program, promptSends, input, rand>>
vars == <<fixed, local, sending, arrived>>

X(a, b) == (a + b) % 2

(* XOR with AllOneBlock.  (Operators named Bug... are slips of the operator*)
(* they precede; the mutants of PROJECT.json put them in its place.)       *)
BugN(a) == -1 - a
N(a) == 1 - a

-----------------------------------------------------------------------------
(* getShares: p's key with its predecessor and its key with its successor, *)
(* at the same index; rand[k] is the stream shared by k and the one after. *)
mShareAES(p) == [s \in {0, 1} |-> IF s = 0 THEN rand[prevOf(p)] ELSE rand[p]]
RandBit(stream, i) == IF i \in stream THEN 1 ELSE 0
GetShares(aes, i) == X(RandBit(aes[0], i), RandBit(aes[1], i))

(* Own share of the output, from both shares of both inputs (s0 own, s1    *)
(* previous) before the random share is added.                             *)
BugAndShare(s0a, s1a, s0b, s1b) == X(s0a * s0b, s0a * s1b)
AndShare(s0a, s1a, s0b, s1b) == X(X(s0a * s0b, s0a * s1b), s1a * s0b)
NorShare(s0a, s1a, s0b, s1b) ==
  X(X(N(s1b) * N(s0a), N(s1a) * N(s0b)), N(s0a) * N(s0b))
OrShare(s0a, s1a, s0b, s1b) == X(X(AndShare(s0a, s1a, s0b, s1b), s0a), s0b)
NaAndShare(s0a, s1a, s0b, s1b) == X(X(N(s0a) * s0b, N(s0a) * s1b), N(s1a) * s0b)

NonlinearShare(type, s0a, s1a, s0b, s1b) ==
  CASE type = "And"    -> AndShare(s0a, s1a, s0b, s1b)
    [] type = "Nor"    -> NorShare(s0a, s1a, s0b, s1b)
    [] type = "Or"     -> OrShare(s0a, s1a, s0b, s1b)
    [] type = "na_And" -> NaAndShare(s0a, s1a, s0b, s1b)

LinearShare(type, a, b) ==
  CASE type = "Xor"  -> X(a, b)
    [] type = "Nxor" -> N(X(a, b))
    [] type = "a"    -> a

(* One gate, and the gates of a level.  r is what a level changes: memory, *)
(* stream index, mRecvLocs and the send buffer.  The second share of a     *)
(* nonlinear output keeps its old value until it is received.              *)
Gate(aes, r, g) ==
  LET s0 == r.m[0]  s1 == r.m[1]
  IN IF g.type \in Linear
       THEN [r EXCEPT !.m[0][g.out] = LinearShare(g.type, s0[g.in0], s0[g.in1]),
                      !.m[1][g.out] = LinearShare(g.type, s1[g.in0], s1[g.in1])]
       ELSE LET own == X(NonlinearShare(g.type, s0[g.in0], s1[g.in0], s0[g.in1], s1[g.in1]),
                         GetShares(aes, r.idx))
            IN [r EXCEPT !.m[0][g.out] = own, !.idx = @ + 1,
                         !.locs = Append(@, g.out), !.buff = Append(@, own)]

EvalLevel(aes, before, level) == FoldLeft(LAMBDA r, g : Gate(aes, r, g), before, level)

-----------------------------------------------------------------------------
Circuit(p) == program[job[p]]
Evaluating(p) == job[p] > Len(out[p])
BugHasMoreRounds(p) == mLevel[p] < Len(Circuit(p).levels)
HasMoreRounds(p) == mLevel[p] <= Len(Circuit(p).levels)

Init ==
  /\ \E w \in Workloads : program = w.circuits /\ promptSends = w.prompt /\ input \in w.inputs
  /\ rand \in Rands
  /\ job = [p \in Party |-> 0]
  /\ mLevel = [p \in Party |-> 0]
  /\ mem = [p \in Party |-> [s \in {0, 1} |-> << >>]]
  /\ mShareIdx = [p \in Party |-> 0]
  /\ mRecvLocs = [p \in Party |-> <<>>]
  /\ mSendBuffs = [p \in Party |-> [b \in {0, 1} |-> <<>>]]
  /\ sending = [p \in Party |-> <<>>] /\ arrived = [p \in Party |-> <<>>]
  /\ out = [p \in Party |-> <<>>]

(* setCir and setInput: new memory, the two shares of the inputs, a fresh  *)
(* pair of stream keys.  One of the inputs is a matrix, as in every use: a *)
(* packed one alone would leave mLevel as it was.                          *)
SetUp(p) ==
  LET cir == program[job[p] + 1]
      share == [s \in {0, 1} |-> IF s = 0 THEN p ELSE prevOf(p)]
  IN /\ ~ Evaluating(p) /\ job[p] < Len(program)
     /\ job' = [job EXCEPT ![p] = @ + 1]
     /\ mem' = [mem EXCEPT ![p] = [s \in {0, 1} |-> [w \in Wires(cir) |->
                   IF w < cir.inputs THEN input[share[s]][w] ELSE 0]]]
     /\ mShareIdx' = [mShareIdx EXCEPT ![p] = 0]
     /\ mLevel' = [mLevel EXCEPT ![p] = 0]
     /\ UNCHANGED <<fixed, mRecvLocs, mSendBuffs, sending, arrived, out>>

(* The start of roundCallback waits for the last level's messages and      *)
(* stores them as second shares.                                           *)
BugAwaits(p) == mLevel[p] > 0
Awaits(p) == mLevel[p] > 0 /\ mRecvLocs[p] # <<>>

Received(p) ==
  IF ~ Awaits(p) THEN mem[p]
  ELSE LET data == Head(arrived[p]).data
           At(w) == data[CHOOSE i \in DOMAIN data : mRecvLocs[p][i] = w]
       IN [mem[p] EXCEPT ![1] = [w \in DOMAIN @ |-> IF Contains(mRecvLocs[p], w) THEN At(w) ELSE @[w]]]

(* The levels' gates; after the last level there is nothing but the wait.  *)
AfterLevel(p) ==
  LET before == [m |-> Received(p), idx |-> mShareIdx[p], locs |-> <<>>, buff |-> <<>>]
  IN IF mLevel[p] = Len(Circuit(p).levels) THEN [before EXCEPT !.locs = mRecvLocs[p]]
     ELSE EvalLevel(mShareAES(p), before, Circuit(p).levels[mLevel[p] + 1])

(* asyncSend to the next party, of one of the two buffers by reference, or *)
(* of its contents (moved) on the last level.  inbox is arrived after what *)
(* this roundCallback has taken, "of" says what the message is meant for.  *)
(* resize leaves the memory behind the buffer's new end as it was.         *)
BufferOf(level) == level % 2

SendLevel(p, data, inbox) ==
  LET last == mLevel[p] = Len(Circuit(p).levels) - 1
      of == <<job[p], mLevel[p]>>
      written == data \o SubSeq(mSendBuffs[p][BufferOf(mLevel[p])], Len(data) + 1,
                                Len(mSendBuffs[p][BufferOf(mLevel[p])]))
  IN /\ mSendBuffs' = [mSendBuffs EXCEPT ![p][BufferOf(mLevel[p])] =
                         IF last /\ data # <<>> THEN <<>> ELSE written]
     /\ IF data = <<>>
          THEN arrived' = inbox /\ UNCHANGED sending
        ELSE IF promptSends
          THEN /\ arrived' = [inbox EXCEPT ![nextOf(p)] = Append(@, [data |-> data, of |-> of])]
               /\ UNCHANGED sending
        ELSE /\ arrived' = inbox
             /\ sending' = [sending EXCEPT ![p] =
                  Append(@, [moved |-> last, buff |-> BufferOf(mLevel[p]), data |-> data, of |-> of])]

RoundCallback(p) ==
  /\ Evaluating(p) /\ HasMoreRounds(p)
  /\ Awaits(p) => arrived[p] # <<>>
  /\ \E r \in {AfterLevel(p)}, inbox \in {[arrived EXCEPT ![p] = IF Awaits(p) THEN Tail(@) ELSE @]} :
       /\ mem' = [mem EXCEPT ![p] = r.m]
       /\ mShareIdx' = [mShareIdx EXCEPT ![p] = r.idx]
       /\ mRecvLocs' = [mRecvLocs EXCEPT ![p] = r.locs]
       /\ IF mLevel[p] < Len(Circuit(p).levels) THEN SendLevel(p, r.buff, inbox)
          ELSE arrived' = inbox /\ UNCHANGED <<mSendBuffs, sending>>
  /\ mLevel' = [mLevel EXCEPT ![p] = @ + 1]
  /\ UNCHANGED <<fixed, job, out>>

(* The I/O thread sends what the buffer holds when it comes to it; if the  *)
(* buffer was moved away since then, nothing is known of its memory.       *)
Contents(p, send) ==
  IF send.moved THEN send.data
  ELSE LET held == mSendBuffs[p][send.buff]
       IN [i \in DOMAIN send.data |-> IF i \in DOMAIN held THEN held[i] ELSE 0]

Transmit(p) ==
  /\ sending[p] # <<>>
  /\ LET send == Head(sending[p])
     IN arrived' = [arrived EXCEPT ![nextOf(p)] = Append(@, [data |-> Contents(p, send), of |-> send.of])]
  /\ sending' = [sending EXCEPT ![p] = Tail(@)]
  /\ UNCHANGED <<fixed, local>>

(* getOutput of each output wire, after the closure of the rounds.  An     *)
(* inverted wire is inverted in every share.  Outputs are wires that an    *)
(* input or a gate sets: constant wires are not modelled.                  *)
GetOutput(p) ==
  LET Share(o, s) == IF o.invert THEN N(mem[p][s][o.wire]) ELSE mem[p][s][o.wire]
      outputs == Circuit(p).outputs
  IN /\ Evaluating(p) /\ ~ HasMoreRounds(p)
     /\ out' = [out EXCEPT ![p] =
                  Append(@, [i \in DOMAIN outputs |-> [s \in {0, 1} |-> Share(outputs[i], s)]])]
     /\ UNCHANGED <<fixed, job, mLevel, mem, mShareIdx, mRecvLocs, mSendBuffs, sending, arrived>>

Next == \E p \in Party : SetUp(p) \/ RoundCallback(p) \/ Transmit(p) \/ GetOutput(p)

Spec == Init /\ [][Next]_vars

(* Each party's thread runs the tasks it has, and the I/O threads send.    *)
FairSpec == Spec /\ \A p \in Party :
  WF_vars(SetUp(p) \/ RoundCallback(p) \/ GetOutput(p)) /\ WF_vars(Transmit(p))

-----------------------------------------------------------------------------
TypeOK ==
  /\ job \in [Party -> 0 .. Len(program)]
  /\ \A p \in Party : \A s \in {0, 1} : \A w \in DOMAIN mem[p][s] : mem[p][s][w] \in Bit
  /\ \A p \in Party : job[p] - Len(out[p]) \in {0, 1}
  /\ \A p \in Party : job[p] > 0 => mLevel[p] \in 0 .. Len(Circuit(p).levels) + 1

(* The circuit on plain bits.                                              *)
PlainGate(v, g) ==
  LET a == v[g.in0]  b == v[g.in1]
  IN [v EXCEPT ![g.out] =
       CASE g.type = "Xor"    -> X(a, b)
         [] g.type = "Nxor"   -> N(X(a, b))
         [] g.type = "a"      -> a
         [] g.type = "And"    -> a * b
         [] g.type = "Or"     -> N(N(a) * N(b))
         [] g.type = "Nor"    -> N(a) * N(b)
         [] g.type = "na_And" -> N(a) * b]

PlainLevel(v, level) == FoldLeft(PlainGate, v, level)

PlainInput(cir) ==
  [w \in Wires(cir) |-> IF w < cir.inputs THEN X(X(input[0][w], input[1][w]), input[2][w]) ELSE 0]
Plain(cir) == FoldLeft(PlainLevel, PlainInput(cir), cir.levels)

(* When the three parties have finished a circuit, their outputs are a     *)
(* sharing (each party's second share is its predecessor's first) of what  *)
(* the circuit computes on the plain inputs, for every sharing of these    *)
(* and every random stream.                                                *)
OutputsCorrect ==
  \A j \in DOMAIN program : (\A p \in Party : Len(out[p]) >= j) =>
    \A i \in DOMAIN program[j].outputs :
      LET o == program[j].outputs[i]
          v == Plain(program[j])[o.wire]
      IN /\ \A p \in Party : out[p][j][i][1] = out[prevOf(p)][j][i][0]
         /\ X(X(out[0][j][i][0], out[1][j][i][0]), out[2][j][i][0]) = IF o.invert THEN N(v) ELSE v

(* A party takes from the channel the message meant for the level it waits *)
(* for, of the circuit it evaluates, with as many shares as it has wires   *)
(* to store.                                                               *)
LevelsMatch ==
  \A p \in Party : Evaluating(p) /\ HasMoreRounds(p) /\ Awaits(p) /\ arrived[p] # <<>> =>
    /\ Head(arrived[p]).of = <<job[p], mLevel[p] - 1>>
    /\ Len(Head(arrived[p]).data) = Len(mRecvLocs[p])

(* The chain of rounds ends in every party.                                *)
AllFinish == <>(\A p \in Party : Len(out[p]) = Len(program))

(* Channel.h:78-81: the data given to asyncSend(pointer, length) must live *)
(* until it has been sent: what is transmitted is what was to be sent.     *)
(* With two buffers the third level of And gates overwrites the first one  *)
(* while it may still be queued (run binary_send_buffer).                  *)
BuffersOutliveSends ==
  \A p \in Party : \A i \in DOMAIN sending[p] : Contents(p, sending[p][i]) = sending[p][i].data
=============================================================================
