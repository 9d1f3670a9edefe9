------------------------------ MODULE Randomness ------------------------------
(***************************************************************************)
(* The randomness that three parties share, from the exchange of the seeds *)
(* on, and what is drawn from it: the shares of zero and the random shares *)
(* of Sh3ShareGen, the common words of getTruncationTuple and of the       *)
(* protocols, and the transfers of SharedOT.  A party knows nothing of the *)
(* others' positions in the streams; here nothing is assumed of them.      *)
(*                                                                         *)
(* A party's thread runs the same program as the others'.  Two receives of *)
(* an oblivious transfer complete on I/O threads, each of which then calls *)
(* back; the later one finishes the transfer.                              *)
(***************************************************************************)
EXTENDS Sh3ShareGen, SharedOT

CONSTANTS
  Programs,   \* sequences of [op |-> "draw"], "tuple", "transfer" and "get": see Step
  BuffSize    \* the length of a party's share buffers, in blocks (256 unless given)

Party == 0 .. 2
nextOf(p) == (p + 1) % 3
prevOf(p) == (p + 2) % 3

Transfers == [op : {"transfer"}, sender : Party, helper : Party, choices : Seq({0, 1})]
Operations == [op : {"draw", "tuple"}] \cup {t \in Transfers : t.sender # t.helper} \cup [op : {"get"}, of : Nat]

ASSUME ProgramsAssumption == Programs \subseteq Seq(Operations)
ASSUME BuffSizeAssumption == BuffSize \in [Party -> Nat \ {0}]

VARIABLES
  program,    \* what the parties run
  pc,         \* party -> 0: before init, 1: waits for the seed, n+2: has done n operations
  gen,        \* party -> its Sh3ShareGen
  ot,         \* party -> its evaluator's two SharedOTs
  sent,       \* party -> party -> what it has sent, in order
  posted,     \* party -> party -> how many receives it has posted on the channel from there
  transfers,  \* party -> number of an operation -> the state of its asyncRecv
  draws,      \* party -> what it has drawn from the share buffers
  tuples      \* party -> the common words it has drawn

vars == <<program, pc, gen, ot, sent, posted, transfers, draws, tuples>>

Init ==
  /\ program \in Programs
  /\ pc = [p \in Party |-> 0]
  /\ gen = [p \in Party |-> <<>>]
  /\ ot = [p \in Party |-> <<>>]
  /\ sent = [p \in Party |-> [q \in Party |-> <<>>]]
  /\ posted = [p \in Party |-> [q \in Party |-> 0]]
  /\ transfers = [p \in Party |-> << >>]
  /\ draws = [p \in Party |-> <<>>]
  /\ tuples = [p \in Party |-> <<>>]

SendTo(p, q, payload) == sent' = [sent EXCEPT ![p][q] = Append(@, payload)]
Advance(p) == pc' = [pc EXCEPT ![p] = @ + 1]

-----------------------------------------------------------------------------
(* Sh3Evaluator::init(partyIdx, comm, seed): send the own seed, wait for   *)
(* the other one, then key the generator and the two transfer objects.     *)
SendSeed(p) ==
  /\ pc[p] = 0
  /\ SendTo(p, nextOf(p), p)
  /\ Advance(p)
  /\ UNCHANGED <<program, gen, ot, posted, transfers, draws, tuples>>

OtKeys(g) == [mOtPrevRecver |-> SetKey(Word(g.mNextCommon)), mOtNextRecver |-> SetKey(Word(g.mPrevCommon))]

RecvSeed(p) ==
  /\ pc[p] = 1
  /\ sent[prevOf(p)][p] # <<>>
  /\ LET g == NewShareGen(sent[prevOf(p)][p][1], p, BuffSize[p])
     IN /\ ot' = [ot EXCEPT ![p] = OtKeys(g)]
        /\ gen' = [gen EXCEPT ![p] = [g EXCEPT !.mNextCommon = AfterBlock(@), !.mPrevCommon = AfterBlock(@)]]
  /\ posted' = [posted EXCEPT ![p][prevOf(p)] = 1]
  /\ Advance(p)
  /\ UNCHANGED <<program, sent, transfers, draws, tuples>>

-----------------------------------------------------------------------------
(* The operation a party is at, if it is of this kind.                     *)
OpNo(p) == pc[p] - 1
At(p, op) == pc[p] >= 2 /\ OpNo(p) <= Len(program) /\ program[OpNo(p)].op = op
Step(p) == program[OpNo(p)]

(* getShare, getBinaryShare or getRandIntShare.                            *)
Draw(p) ==
  /\ At(p, "draw")
  /\ draws' = [draws EXCEPT ![p] = Append(@, Drawn(gen[p]))]
  /\ gen' = [gen EXCEPT ![p] = AfterDraw(@)]
  /\ Advance(p)
  /\ UNCHANGED <<program, ot, sent, posted, transfers, tuples>>

(* A pair of words common to this party and the next, and to it and the    *)
(* previous one.                                                           *)
Tuple(p) ==
  /\ At(p, "tuple")
  /\ tuples' = [tuples EXCEPT ![p] = Append(@, [next |-> Word(gen[p].mNextCommon), prev |-> Word(gen[p].mPrevCommon)])]
  /\ gen' = [gen EXCEPT ![p].mNextCommon = AfterWord(@), ![p].mPrevCommon = AfterWord(@)]
  /\ Advance(p)
  /\ UNCHANGED <<program, ot, sent, posted, transfers, draws>>

(* A transfer from Step(p).sender with the help of Step(p).helper: these   *)
(* use the object named for where the receiver is.  Message "bit" of       *)
(* transfer i of the operation n is <<n, i, bit>>.                         *)
Receiver(step) == 3 - step.sender - step.helper
Object(p, step) == IF Receiver(step) = nextOf(p) THEN "mOtNextRecver" ELSE "mOtPrevRecver"
Messages(n, k) == [i \in 1 .. k |-> [bit \in 0 .. 1 |-> <<n, i, bit>>]]

Gives(p) ==
  LET step == Step(p)
      o == Object(p, step)
      r == IF p = step.sender THEN Send(ot[p][o], Messages(OpNo(p), Len(step.choices)))
                              ELSE Help(ot[p][o], step.choices)
  IN /\ At(p, "transfer") /\ p # Receiver(step)
     /\ ot' = [ot EXCEPT ![p][o] = r.ot]
     /\ SendTo(p, Receiver(step), r.payload)
     /\ Advance(p)
     /\ UNCHANGED <<program, gen, posted, transfers, draws, tuples>>

(* asyncRecv: its receives take the next message on either channel.        *)
Sides == {"sender", "helper"}

Takes(p) ==
  LET step == Step(p)
  IN /\ At(p, "transfer") /\ p = Receiver(step)
     /\ posted' = [posted EXCEPT ![p][step.sender] = @ + 1, ![p][step.helper] = @ + 1]
     /\ transfers' = [transfers EXCEPT ![p] = [n \in DOMAIN @ \cup {OpNo(p)} |->
           IF n # OpNo(p) THEN @[n] ELSE
           [slot     |-> [s \in Sides |-> posted'[p][step[s]]],
            data     |-> [s \in Sides |-> <<>>],
            called   |-> {},
            mAtomic  |-> 2,
            last     |-> FALSE,
            recvMsgs |-> [i \in DOMAIN step.choices |-> 0],
            ready    |-> FALSE]]]
     /\ Advance(p)
     /\ UNCHANGED <<program, gen, ot, sent, draws, tuples>>

(* get of an earlier transfer returns: at once unless one has received it. *)
Get(p) ==
  /\ At(p, "get")
  /\ Step(p).of \in DOMAIN transfers[p] => transfers[p][Step(p).of].ready
  /\ Advance(p)
  /\ UNCHANGED <<program, gen, ot, sent, posted, transfers, draws, tuples>>

Thread(p) == SendSeed(p) \/ RecvSeed(p) \/ Draw(p) \/ Tuple(p) \/ Gives(p) \/ Takes(p) \/ Get(p)

-----------------------------------------------------------------------------
(* The I/O threads of a party: the message a receive was posted for is     *)
(* copied to its place, and the callback counts the two down; the one that *)
(* comes to zero writes the results and sets the promise.                  *)
Becomes(p, n, t) ==
  /\ transfers' = [transfers EXCEPT ![p][n] = t]
  /\ UNCHANGED <<program, pc, gen, ot, sent, posted, draws, tuples>>

Arrive(p, n, side) ==
  LET t == transfers[p][n]
      from == sent[program[n][side]][p]
  IN /\ t.data[side] = <<>> /\ t.slot[side] <= Len(from)
     /\ Becomes(p, n, [t EXCEPT !.data[side] = from[t.slot[side]]])

IsLast(count) == count = 0

CountDown(p, n, side) ==
  LET t == transfers[p][n]
  IN /\ t.data[side] # <<>> /\ side \notin t.called
     /\ Becomes(p, n, [t EXCEPT !.called = @ \cup {side}, !.mAtomic = @ - 1, !.last = IsLast(t.mAtomic - 1)])

BugComplete(p, n) ==
  LET t == transfers[p][n]
  IN /\ t.last
     /\ Becomes(p, n, [t EXCEPT !.last = FALSE,
                                !.recvMsgs = Unmasked(t.data["sender"], t.data["helper"], program[n].choices)])
Complete(p, n) ==
  LET t == transfers[p][n]
  IN /\ t.last
     /\ Becomes(p, n, [t EXCEPT !.last = FALSE, !.ready = TRUE,
                                !.recvMsgs = Unmasked(t.data["sender"], t.data["helper"], program[n].choices)])

InputOutput(p) ==
  \E n \in DOMAIN transfers[p] :
    \/ \E side \in Sides : Arrive(p, n, side) \/ CountDown(p, n, side)
    \/ Complete(p, n)

Next == \E p \in Party : Thread(p) \/ InputOutput(p)

Spec == Init /\ [][Next]_vars

(* No thread stops, the connections stay up.                               *)
FairSpec == Spec /\ \A p \in Party : WF_vars(Thread(p)) /\ WF_vars(InputOutput(p))

-----------------------------------------------------------------------------
(* The buffers are those of the code, and what a party has drawn was in    *)
(* them: Sh3ShareGen never reads past the end of a buffer.                 *)
TypeOK ==
  /\ \A p \in Party : pc[p] \in 0 .. Len(program) + 2
  /\ \A p \in Party : pc[p] >= 2 =>
       /\ gen[p].mShareIdx \in 0 .. 2 * BuffSize[p]
       /\ \A i \in 0 .. 1 : Len(gen[p].mShareBuff[i]) = 2 * BuffSize[p]
  /\ \A p \in Party : \A n \in DOMAIN transfers[p] : transfers[p][n].mAtomic \in 0 .. 2

(* The n-th draws of the three parties fit: the word that a party shares   *)
(* with the next one is the word that one shares with it.  So n-th shares  *)
(* sum up to zero (cancel), and n-th random shares are shares of one value,*)
(* whatever the lengths of the buffers and whoever is ahead.               *)
Fit(log) ==
  \A p \in Party : \A n \in DOMAIN log[p] \cap DOMAIN log[nextOf(p)] : log[p][n].next = log[nextOf(p)][n].prev
SharesAgree == Fit(draws) /\ Fit(tuples)

(* No word serves twice: no two draws take the same one, and no two of the *)
(* transfers to a party are masked with the same block.                    *)
Once(log) == \A m, n \in DOMAIN log : m # n => log[m].next # log[n].next /\ log[m].prev # log[n].prev
Block(word) == <<word[1], word[2] \div 2>>
Masks(p) == UNION {{<<n, i>> : i \in DOMAIN transfers[p][n].data["helper"]} : n \in DOMAIN transfers[p]}
Mask(p, x) == Block(transfers[p][x[1]].data["helper"][x[2]])

DrawsOnce == \A p \in Party : Once(draws[p]) /\ Once(tuples[p])
MasksOnce == \A p \in Party : \A x, y \in Masks(p) : x # y => Mask(p, x) # Mask(p, y)
NothingReused == DrawsOnce /\ MasksOnce

(* When the promise of a transfer is set, the result is there: of each pair*)
(* the message of the receiver's choice, in the transfer that it is for.   *)
TransfersRight ==
  \A p \in Party : \A n \in DOMAIN transfers[p] :
    transfers[p][n].ready =>
      transfers[p][n].recvMsgs = [i \in DOMAIN program[n].choices |-> <<n, i, program[n].choices[i]>>]

(* Every party finishes: no get waits for ever, no message is missing.     *)
AllFinish == <>(\A p \in Party : pc[p] = Len(program) + 2)
=============================================================================
