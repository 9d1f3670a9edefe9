------------------------------ MODULE DBServer ------------------------------
(***************************************************************************)
(* joinImpl and rightUnion of aby3-DB as its three servers run them.       *)
(* Server 0 knows the hashed keys of the right table and, with 2 and 1,    *)
(* permutes that table into a shared cuckoo table; server 1 knows those of *)
(* the left table and, with 0 and 2, selects the three entries each left   *)
(* row might match; a circuit compares them and the flags are revealed.    *)
(*                                                                         *)
(* Each server is a sequence of calls; a call that sends or receives       *)
(* matrices in chunks takes a step per chunk.  Channels are queues.  The   *)
(* hash is any function from keys to bins, cuckoo hashing any placement in *)
(* it.  Keys are computed and the circuit evaluated by the protocols of    *)
(* BinaryEval, taken here for what they promise.                           *)
(***************************************************************************)
EXTENDS OblvSwitchNet

CONSTANT Databases
(* Tables and choices: [op, query, right, left, hash, bins, place, draws,  *)
(* choice]: op "join", "noReveal" (the flags stay shared) or "union";      *)
(* right, left: their rows' keys; hash: key -> three bins of 1 .. bins;    *)
(* place: the bin of each right row; draws and choice: the words of the    *)
(* shuffle's generator and the bits of the transfers'.                     *)
ASSUME DatabasesAssumption ==
  \A d \in Databases :
    /\ d.bins \in Nat /\ d.bins >= 3 /\ d.left \in Seq(Nat) \ {<<>>} /\ d.right \in Seq(Nat) \ {<<>>}
    /\ \A k \in ToSet(d.left) \cup ToSet(d.right) : d.hash[k] \in [1 .. 3 -> 1 .. d.bins]
    /\ d.place \in [DOMAIN d.right -> 1 .. d.bins]
    /\ \A i, j \in DOMAIN d.right : d.place[i] = d.place[j] => i = j
    /\ \A i \in DOMAIN d.right : d.place[i] \in ToSet(d.hash[d.right[i]])
    /\ \A i \in (1 .. d.bins) \cup DOMAIN d.left : d.draws[i] \in Nat
    /\ \A i \in DOMAIN d.left : d.choice[i] \in 0 .. 1

(* In help, server 2 takes the chunks of the bins, while sendRecv and      *)
(* program send those of the left rows when these are more: the join is    *)
(* only in step where that is the same number.                             *)
SameChunks == \A d \in Databases : Len(d.left) > d.bins => Chunks(Len(d.left)) = Chunks(d.bins)

Party == 0 .. 2

VARIABLES
  db,       \* what is joined
  pc,       \* how many of its calls each server has made
  done,     \* and how many chunks of the present one
  work,     \* the matrix or permutation it is shuffling
  mem,      \* its matrices: "table", "temp" and one per hash function
  chan,     \* <<from, to>> -> messages on their way
  result    \* server -> its output table's rows, as what they are shares of

vars == <<db, pc, done, work, mem, chan, result>>

-----------------------------------------------------------------------------
(* The rows.  The key 0 is the value zero; what else a row holds is not.   *)
KeyValue(k) == IF k = 0 THEN {} ELSE {<<"key", k>>}
Left(i) == [key |-> KeyValue(db.left[i]), info |-> {<<"info", i>>}, more |-> {<<"more", i>>}]
Right(r) == [key |-> KeyValue(db.right[r]), data |-> {<<"data", r>>}, extra |-> {<<"extra", r>>}]

(* The columns of the right table that travel; rightUnion's is the key.    *)
Travels == IF db.op = "union" THEN <<"key">>
           ELSE LET cols == RightCircuitInput(db.query) IN [c \in DOMAIN cols |-> cols[c].mCol.name]
RightRow(r) == UNION {{<<"col", c, a>> : a \in Right(r)[Travels[c]]} : c \in DOMAIN Travels}
Share0(r) == {<<"x0", r>>}

(* selectCuckooPos: the three bins of a key, moved apart if two are equal. *)
BugApart(hx, bins) == hx
Apart(hx, bins) ==
  LET Inc(b) == (b % bins) + 1
      h1 == hx[1]
      h2 == IF hx[1] = hx[2] THEN Inc(hx[2]) ELSE hx[2]
      Move(b) == IF b \in {h1, h2} THEN Inc(b) ELSE b
  IN <<h1, h2, Move(Move(hx[3]))>>
Positions(i) == Apart(db.hash[db.left[i]], db.bins)

(* Its switching program for hash function h, as addSwitch leaves it.      *)
Switches(h) == [i \in DOMAIN db.left |-> [mSrc |-> Positions(i)[h], mDest |-> i]]
Counts(h) == [b \in 1 .. db.bins |-> Cardinality({i \in DOMAIN db.left : Positions(i)[h] = b})]
Sorted(h) == Finalize(Switches(h), Counts(h))
FinalPerm(h) == [i \in DOMAIN db.left |-> Sorted(h)[i].mDest]

(* cuckooHash: the row of bin b, and the permutation of the right rows     *)
(* followed by the empty bins' rows.                                       *)
InBin(b) == {r \in DOMAIN db.right : db.place[r] = b}
EmptyBins == {b \in 1 .. db.bins : InBin(b) = {}}
NthEmpty(n) == CHOOSE b \in EmptyBins : Cardinality({c \in EmptyBins : c <= b}) = n
CuckooPerm == [n \in 1 .. db.bins |-> IF n \in DOMAIN db.right THEN db.place[n] ELSE NthEmpty(n - Len(db.right))]

-----------------------------------------------------------------------------
(* What each server calls.  Out(h) names the matrix of hash function h.    *)
Call(op, h) == [op |-> op, h |-> h]
PermSend(to, src, rows) == [op |-> "permSend", to |-> to, name |-> src, rows |-> rows]
PermProgram(to, dest, h) == [op |-> "permProgram", to |-> to, name |-> dest, h |-> h]
PermRecv(data, perm, dest, rows) == [op |-> "permRecv", data |-> data, perm |-> perm, name |-> dest, rows |-> rows]
Hello(to, what) == [op |-> "hello", to |-> to, what |-> what]
Greeted(from, what) == [op |-> "greeted", from |-> from, what |-> what]

Out(h) == <<"out1", "out2", "out3">>[h]
Rows == Len(db.left)
SrcRows == IF db.bins < Rows THEN Rows ELSE db.bins
SendHello == <<"send", db.bins, Rows>>
HelpHello == <<"help", Rows>>

SendRecv(h) ==
  << Hello(1, SendHello), Greeted(1, SendHello), PermSend(2, "table", SrcRows),
     Call("helpDuplicate", h), PermRecv(2, 1, Out(h), Rows) >>
BugProgram(h) ==
  << Hello(0, SendHello), Greeted(0, SendHello), Hello(2, HelpHello), Greeted(2, HelpHello),
     PermProgram(2, "temp", h), Call("programDuplicate", h), Call("sendBits", h), PermProgram(0, Out(h), h) >>
Program(h) ==
  << Hello(0, SendHello), Greeted(0, SendHello), Hello(2, HelpHello), Greeted(2, HelpHello),
     PermProgram(2, "temp", h), Call("sendBits", h), Call("programDuplicate", h), PermProgram(0, Out(h), h) >>
BugHelp(h) ==
  << Hello(1, HelpHello), Greeted(1, HelpHello), PermRecv(0, 1, "temp", Rows),
     Call("sendDuplicate", h), PermSend(0, "temp", Rows) >>
Help(h) ==
  << Hello(1, HelpHello), Greeted(1, HelpHello), PermRecv(0, 1, "temp", db.bins),
     Call("sendDuplicate", h), PermSend(0, "temp", Rows) >>

Script(p) ==
  (CASE p = 0 -> << PermProgram(1, "table", 0) >> \o SendRecv(1) \o SendRecv(2) \o SendRecv(3)
     [] p = 1 -> << PermRecv(2, 0, "table", db.bins), Call("ownShare", 0) >> \o Program(1) \o Program(2) \o Program(3)
     [] p = 2 -> << PermSend(1, "table", db.bins) >> \o Help(1) \o Help(2) \o Help(3))
  \o << Call("finish", 0) >>

Finished(p) == pc[p] = Len(Script(p))
Now(p) == Script(p)[pc[p] + 1]
At(p, op) == ~ Finished(p) /\ Now(p).op = op

(* At first server 0 has its shares of the right rows in their bins, and   *)
(* server 2 the sum of its two shares of each, rows of zero below them.    *)
FirstTable(p) ==
  CASE p = 0 -> [b \in 1 .. db.bins |-> UNION {Share0(r) : r \in InBin(b)}]
    [] p = 1 -> Filled(db.bins, {})
    [] p = 2 -> [b \in 1 .. db.bins |-> IF b \in DOMAIN db.right THEN Xor(RightRow(b), Share0(b)) ELSE {}]

Init ==
  /\ db \in Databases
  /\ pc = [p \in Party |-> 0]
  /\ done = [p \in Party |-> 0]
  /\ work = [p \in Party |-> <<>>]
  /\ mem = [p \in Party |-> [n \in {"table", "temp"} \cup {Out(h) : h \in 1 .. 3} |->
                               IF n = "table" THEN FirstTable(p) ELSE Filled(Rows, Junk)]]
  /\ chan = [c \in Party \X Party |-> <<>>]
  /\ result = [p \in Party |-> <<>>]

-----------------------------------------------------------------------------
(* Steps.  What the present call receives, and from whom: it blocks until *)
(* that is there.  A server that receives anything else throws; here it    *)
(* has no step then.                                                       *)
Awaits(p) ==
  LET c == Now(p)
  IN CASE c.op = "greeted"          -> {<<c.from, "hello">>}
       [] c.op = "permRecv"         -> {<<c.data, "rows">>, <<c.perm, "perm">>}
       [] c.op = "sendDuplicate"    -> {<<1, "bits">>}
       [] c.op = "programDuplicate" -> {<<0, "share0">>, <<2, "share1">>}
       [] OTHER                     -> {}

First(from, p) == Head(chan[<<from, p>>])
Received(from, p) == First(from, p).data
Here(p) == \A a \in Awaits(p) : chan[<<a[1], p>>] # <<>>
Fits(p) ==
  /\ \A a \in Awaits(p) : First(a[1], p).kind = a[2]
  /\ Now(p).op = "greeted" => Received(Now(p).from, p) = Now(p).what
  /\ Now(p).op = "permRecv" => Len(Received(Now(p).data, p)) = Len(Received(Now(p).perm, p))

AllThere == \A p \in Party : Finished(p) \/ At(p, "finish")
Ready(p) == ~ Finished(p) /\ Here(p) /\ Fits(p) /\ (Now(p).op = "finish" => AllThere)

(* The channels after a step that takes what it awaits and sends messages. *)
Queues(p, sent) ==
  [c \in DOMAIN chan |->
     (IF c[2] = p /\ \E a \in Awaits(p) : a[1] = c[1] THEN Tail(chan[c]) ELSE chan[c])
       \o (IF c \in DOMAIN sent THEN << sent[c] >> ELSE <<>>)]
Receives(p) == chan' = Queues(p, <<>>)
Sends(p, to, kind, data) == chan' = Queues(p, [c \in {<<p, to>>} |-> [kind |-> kind, data |-> data]])
Return(p) == pc' = [pc EXCEPT ![p] = @ + 1] /\ done' = [done EXCEPT ![p] = 0]
Write(p, name, matrix) == mem' = [mem EXCEPT ![p][name] = matrix]

(* The handshakes: what the ends think of the sizes.                       *)
SayHello(p) ==
  /\ At(p, "hello") /\ Ready(p)
  /\ Sends(p, Now(p).to, "hello", Now(p).what)
  /\ Return(p)
  /\ UNCHANGED <<db, work, mem, result>>

HearHello(p) ==
  /\ At(p, "greeted") /\ Ready(p)
  /\ Receives(p)
  /\ Return(p)
  /\ UNCHANGED <<db, work, mem, result>>

(* After a chunk: the next one, or the call is over.                       *)
ChunkDone(p, rows) ==
  IF done[p] + 1 < Chunks(rows) THEN done' = [done EXCEPT ![p] = @ + 1] /\ UNCHANGED pc ELSE Return(p)

(* OblvPermutation::send: shuffle, mask and send the next chunk, in place. *)
SendChunk(p) ==
  LET s == IF done[p] = 0 THEN Resized(mem[p][Now(p).name], Now(p).rows) ELSE work[p]
      t == Masked(ShuffleChunk(s, db.draws, done[p] + 1), done[p] + 1)
  IN /\ At(p, "permSend") /\ Ready(p)
     /\ work' = [work EXCEPT ![p] = t]
     /\ Sends(p, Now(p).to, "rows", ChunkOf(t, done[p] + 1))
     /\ ChunkDone(p, Len(s))
     /\ UNCHANGED <<db, mem, result>>

(* OblvPermutation::program: shuffle and send the next chunk of the        *)
(* permutation; behind the last, unmask the destination.                   *)
Permutation(call) ==
  CASE call.name = "table" -> CuckooPerm
    [] call.name = "temp"  -> SelectPerm(Sorted(call.h), db.bins)
    [] OTHER               -> FinalPerm(call.h)

(* ("temp" is a new matrix in each call that fills it.)                    *)
BugNewTemp == Filled(db.bins, {})
NewTemp == Filled(Rows, {})

ProgramChunk(p) ==
  LET s == IF done[p] = 0 THEN Permutation(Now(p)) ELSE work[p]
      t == ShuffleChunk(s, db.draws, done[p] + 1)
  IN /\ At(p, "permProgram") /\ Ready(p)
     /\ done[p] = 0 /\ Now(p).name = "temp" => Validate(Sorted(Now(p).h))
     /\ work' = [work EXCEPT ![p] = t]
     /\ Sends(p, Now(p).to, "perm", ChunkOf(t, done[p] + 1))
     /\ IF done[p] + 1 < Chunks(Len(s)) THEN UNCHANGED mem
        ELSE Write(p, Now(p).name, Unmasked(IF Now(p).name = "temp" THEN NewTemp ELSE mem[p][Now(p).name],
                                            t, Now(p).name # "temp"))
     /\ ChunkDone(p, Len(s))
     /\ UNCHANGED <<db, result>>

(* OblvPermutation::recv: a chunk of rows and one of the permutation.      *)
RecvChunk(p) ==
  LET c == Now(p)
      dest == IF c.name = "temp" /\ done[p] = 0 THEN NewTemp ELSE mem[p][c.name]
  IN /\ At(p, "permRecv") /\ Ready(p)
     /\ Write(p, c.name, Placed(dest, Received(c.perm, p), Received(c.data, p)))
     /\ Receives(p)
     /\ ChunkDone(p, c.rows)
     /\ UNCHANGED <<db, work, result>>

(* selectCuckooPos: server 1 first takes its own share of each entry.      *)
OwnShare(p) ==
  /\ At(p, "ownShare") /\ Ready(p)
  /\ LET Own(h) == [i \in 1 .. Rows |-> mem[p]["table"][Positions(i)[h]]]
     IN mem' = [mem EXCEPT ![p][Out(1)] = Own(1), ![p][Out(2)] = Own(2), ![p][Out(3)] = Own(3)]
  /\ Return(p)
  /\ UNCHANGED <<db, work, chan, result>>

(* The duplication: server 0 helps with the transfers' strings, server 1   *)
(* sends its bits, server 2 answers with its sums.                         *)
HelpDup(p) ==
  /\ At(p, "helpDuplicate") /\ Ready(p)
  /\ Sends(p, 1, "share0", HelpDuplicate(Rows, db.choice))
  /\ Return(p)
  /\ UNCHANGED <<db, work, mem, result>>

SendBits(p) ==
  /\ At(p, "sendBits") /\ Ready(p)
  /\ Sends(p, 2, "bits", DupBits(Sorted(Now(p).h), db.choice))
  /\ Return(p)
  /\ UNCHANGED <<db, work, mem, result>>

SendDup(p) ==
  LET r == SendDuplicate(mem[p]["temp"], Received(1, p), Now(p).h)
  IN /\ At(p, "sendDuplicate") /\ Ready(p)
     /\ Write(p, "temp", r.share)
     /\ Sends(p, 1, "share1", r.sums)
     /\ Return(p)
     /\ UNCHANGED <<db, work, result>>

(* Server 1 then has its share of the selected rows, sorted by source, and *)
(* adds it where each belongs.                                             *)
ProgramDup(p) ==
  LET h == Now(p).h
      temp == ProgramDuplicate(mem[p]["temp"], Sorted(h), db.choice, Received(0, p), Received(2, p))
  IN /\ At(p, "programDuplicate") /\ Ready(p)
     /\ mem' = [mem EXCEPT ![p]["temp"] = temp, ![p][Out(h)] = Added(@, FinalPerm(h), temp)]
     /\ Receives(p)
     /\ Return(p)
     /\ UNCHANGED <<db, work, result>>

-----------------------------------------------------------------------------
(* The circuit runs when all have got so far, on the sum of the shares of  *)
(* servers 0 and 1.                                                        *)
Candidates(i) == [h \in 1 .. 3 |-> Xor(mem[0][Out(h)][i], mem[1][Out(h)][i])]
FlagOf(i) == Flag(Left(i).key, Candidates(i))
CircuitRow(i) == CircuitOutputs(db.query, Left(i).key, Left(i), Candidates(i))

(* The columns of the output: those that pass through come from the left   *)
(* table, the right key's place is taken by the left one, and the circuit's*)
(* are found again by their names (a column of the right table by the name *)
(* it has there).                                                          *)
IsRightKey(o) ==
  IsInput(db.query, o.mMemIdx) /\ db.query.mInputs[db.query.mMem[o.mMemIdx].mInputIdx].mCol = db.query.mInputs[2].mCol
InputColumn(o) == db.query.mInputs[db.query.mMem[o.mMemIdx].mInputIdx].mCol.name
CName(o) == IF IsInput(db.query, o.mMemIdx) THEN InputColumn(o) ELSE o.mName
SrcColumn(o) == SelectSeq(db.query.mOutputs, LAMBDA n : n.mName = CName(o))[1]
SrcValue(i, o) ==
  IF IsLeftPassthrough(db.query, o) THEN Left(i)[InputColumn(o)]
  ELSE IF IsRightKey(o) THEN Left(i)[db.query.mInputs[1].mCol.name]
  ELSE IF SrcColumn(o).mPosition = 0 THEN {} ELSE CircuitRow(i)[SrcColumn(o).mPosition]

(* The compaction moves the flagged rows up, in the same memory: row i to  *)
(* the next free row, which is at most i.                                  *)
Compact(rows, flags) ==
  LET Move(st, i) == IF flags[i] THEN [rows |-> [st.rows EXCEPT ![st.size + 1] = st.rows[i]], size |-> st.size + 1]
                     ELSE st
      st == FoldLeft(Move, [rows |-> rows, size |-> 0], [i \in DOMAIN rows |-> i])
  IN [n \in 1 .. st.size |-> st.rows[n]]

Output ==
  LET flags == [i \in 1 .. Rows |-> FlagOf(i)]
      outs == db.query.mOutputs
      rows == [i \in 1 .. Rows |-> [o \in DOMAIN outs |-> SrcValue(i, outs[o])]]
  IN CASE db.op = "join"     -> Compact(rows, flags)
       [] db.op = "noReveal" -> [i \in 1 .. Rows |-> Append(rows[i], flags[i])]
       [] db.op = "union"    -> [r \in DOMAIN db.right |-> <<"right", r>>]
                                  \o SelectSeq([i \in 1 .. Rows |-> <<"left", i>>], LAMBDA x : ~ flags[x[2]])

Finish(p) ==
  /\ At(p, "finish") /\ Ready(p)
  /\ result' = [result EXCEPT ![p] = Output]
  /\ Return(p)
  /\ UNCHANGED <<db, work, mem, chan>>

Act(p) ==
  \/ SayHello(p) \/ HearHello(p) \/ SendChunk(p) \/ ProgramChunk(p) \/ RecvChunk(p)
  \/ OwnShare(p) \/ HelpDup(p) \/ SendBits(p) \/ SendDup(p) \/ ProgramDup(p) \/ Finish(p)

Next == \E p \in Party : Act(p)

(* Each server is one thread that makes its calls.                         *)
Spec == Init /\ [][Next]_vars

-----------------------------------------------------------------------------
AllDone == \A p \in Party : Finished(p)

TypeOK ==
  /\ pc \in [Party -> Nat] /\ done \in [Party -> Nat]
  /\ \A p \in Party : pc[p] <= Len(Script(p)) /\ Len(mem[p]["table"]) = db.bins
  /\ \A p \in Party, n \in {"temp"} \cup {Out(h) : h \in 1 .. 3} : Len(mem[p][n]) = Rows

(* What servers 0 and 1 hold adds up: the cuckoo table has every right row *)
(* in its bin and zero elsewhere, and hash function h selects for each     *)
(* left row the entry at its h-th bin.                                     *)
TableRow(b) == UNION {RightRow(r) : r \in InBin(b)}
Past(p, n) == pc[p] >= n
SharesAddUp ==
  /\ Past(0, 1) /\ Past(1, 1) => \A b \in 1 .. db.bins : Xor(mem[0]["table"][b], mem[1]["table"][b]) = TableRow(b)
  /\ \A h \in 1 .. 3 : Past(0, 1 + 5 * h) /\ Past(1, 2 + 8 * h) =>
       \A i \in 1 .. Rows : Candidates(i)[h] = TableRow(Positions(i)[h])

(* Rows that have been handed to a channel, which keeps only a reference,  *)
(* are not touched by what the call does afterwards.                       *)
SentRowsStay ==
  [][\A p \in Party : done[p] > 0 /\ work'[p] # work[p] =>
       \A i \in 1 .. done[p] * Step : work'[p][i] = work[p][i]]_vars

(* The channels are in step: what a server takes from a channel is what it *)
(* was waiting for, of the size it expects, and at the end nothing is left *)
(* in them.                                                                *)
InStep ==
  /\ \A p \in Party : ~ Finished(p) /\ Here(p) => Fits(p)
  /\ AllDone => \A c \in DOMAIN chan : chan[c] = <<>>

(* The servers never all wait for each other: each step uses up a part of  *)
(* a script, so every run ends with all of them done.                      *)
NoDeadlock == AllDone \/ \E p \in Party : Ready(p)

(* The result is the join: for each left row, in order, whose key is one   *)
(* of the right table's, what the query asks for of the two rows.  With    *)
(* the flags unrevealed every left row is there, and zero stands for what  *)
(* the right table does not have; the union is the right table and the     *)
(* left rows whose key it lacks.                                           *)
Partner(i) == {r \in DOMAIN db.right : db.right[r] = db.left[i]}
NoRow == [n \in {"key", "data", "extra"} |-> {}]
JoinedRow(i) == Asked(db.query, Left(i), IF Partner(i) = {} THEN NoRow ELSE Right(CHOOSE r \in Partner(i) : TRUE))
Joined ==
  LET matched == SelectSeq([i \in 1 .. Rows |-> i], LAMBDA i : Partner(i) # {})
  IN CASE db.op = "join"     -> [n \in DOMAIN matched |-> JoinedRow(matched[n])]
       [] db.op = "noReveal" -> [i \in 1 .. Rows |-> Append(JoinedRow(i), Partner(i) # {})]
       [] db.op = "union"    -> [r \in DOMAIN db.right |-> <<"right", r>>]
                                  \o SelectSeq([i \in 1 .. Rows |-> <<"left", i>>], LAMBDA x : Partner(x[2]) = {})
JoinCorrect == \A p \in Party : Finished(p) => result[p] = Joined
=============================================================================
