---------------------------- MODULE SelectQuery ----------------------------
(***************************************************************************)
(* The query of a join (aby3-DB/Table.cpp) and the circuit that DBServer   *)
(* evaluates on every row of the left table.  A query is built by calls;   *)
(* each value in it has a memory index.  The circuit gets the left row and *)
(* three rows of the right table that it might match, compares keys, adds  *)
(* up what matches and applies the query's gates.                          *)
(*                                                                         *)
(* A value is a set of atoms and XOR the symmetric difference; a value of  *)
(* zero is the empty set.  The result of a gate is one atom, named after   *)
(* its operands.  A row is a set of <<"col", column, atom>>, its columns   *)
(* numbered in their order and of one width, and of atoms that stand for   *)
(* random bits over all of them.                                           *)
(***************************************************************************)
EXTENDS Integers, Sequences, FiniteSets, SequencesExt

Xor(a, b) == (a \ b) \cup (b \ a)
Column(row, c) ==
  {x[3] : x \in {y \in row : y[1] = "col" /\ y[2] = c}} \cup {y \in row : y[1] # "col"}

-----------------------------------------------------------------------------
(* The calls.  A column is [table, name]; 0 stands for -1.                 *)
NewQuery == [mMem |-> <<>>, mInputs |-> <<>>, mOutputs |-> <<>>, mGates |-> <<>>]

AddInput(q, col) ==
  [q EXCEPT !.mMem = Append(@, [mInputIdx |-> Len(q.mInputs) + 1, mOutputIdx |-> 0, mUsed |-> FALSE]),
            !.mInputs = Append(@, [mMemIdx |-> Len(q.mMem) + 1, mCol |-> col])]

JoinOn(q, left, right) ==
  AddInput([AddInput(q, left) EXCEPT !.mMem[1].mUsed = TRUE], right)

(* The two forms of addOp: an operation of one operand has wire2 = wire1,  *)
(* which apply then does not read.  (Or and and of operands of different   *)
(* widths throw; the columns here are of one width.)                       *)
AddOp(q, wire1, wire2) ==
  [q EXCEPT !.mMem = Append([@ EXCEPT ![wire1].mUsed = TRUE, ![wire2].mUsed = TRUE],
                            [mInputIdx |-> 0, mOutputIdx |-> 0, mUsed |-> FALSE]),
            !.mGates = Append(@, [mIn1 |-> wire1, mIn2 |-> wire2, mOut |-> Len(q.mMem) + 1])]

IsInput(q, mem) == q.mMem[mem].mInputIdx # 0
TableOf(q, mem) == q.mInputs[q.mMem[mem].mInputIdx].mCol.table
IsLeftPassthrough(q, out) == IsInput(q, out.mMemIdx) /\ TableOf(q, out.mMemIdx) = "left"

(* An output that the circuit computes has a position among these.         *)
AddOutput(q, name, mem) ==
  LET r == [q EXCEPT !.mOutputs = Append(@, [mMemIdx |-> mem, mName |-> name, mPosition |-> 0]),
                     !.mMem[mem].mOutputIdx = Len(q.mOutputs) + 1]
  IN IF IsLeftPassthrough(r, Last(r.mOutputs)) THEN r
     ELSE [r EXCEPT !.mOutputs[Len(r.mOutputs)].mPosition =
             1 + Max({0} \cup {o.mPosition : o \in {p \in ToSet(q.mOutputs) : ~ IsLeftPassthrough(r, p)}})]

(* joinOn and then the calls, [call, col], [call, wires] with one wire or  *)
(* two, or [call, name, mem].                                              *)
Build(left, right, calls) ==
  FoldLeft(LAMBDA q, c : CASE c.call = "addInput"  -> AddInput(q, c.col)
                           [] c.call = "addOp"     -> AddOp(q, c.wires[1], Last(c.wires))
                           [] c.call = "addOutput" -> AddOutput(q, c.name, c.mem),
           JoinOn(NewQuery, left, right), calls)

-----------------------------------------------------------------------------
(* The circuit's inputs, in the order in which they were added: all that   *)
(* come from the right table (which travel together), and the left table's *)
(* that some gate or the comparison uses.                                  *)
IsCircuitInput(q, input) == input.mCol.table = "right" \/ q.mMem[input.mMemIdx].mUsed
CircuitInputs(q) == SelectSeq(q.mInputs, LAMBDA input : IsCircuitInput(q, input))
RightCircuitInput(q) == SelectSeq(q.mInputs, LAMBDA input : input.mCol.table = "right")

(* The three comparisons, of the left key with column 1 of each candidate; *)
(* their parity is the flag, and what does not match is masked to zero.    *)
Matches(key, candidates) == {h \in DOMAIN candidates : Column(candidates[h], 1) = key}
Flag(key, candidates) == Cardinality(Matches(key, candidates)) % 2 = 1

Selected(key, candidates, c) ==
  FoldSet(LAMBDA h, v : Xor(Column(candidates[h], c), v), {}, Matches(key, candidates))

(* The wires of a right input, if something reads them, are filled from    *)
(* the column behind those of the right inputs before it that have wires.  *)
HasWires(q, input) == q.mMem[input.mMemIdx].mOutputIdx # 0 \/ q.mMem[input.mMemIdx].mUsed
SelectStart(q, j) ==
  2 + Cardinality({i \in 1 .. j - 1 : CircuitInputs(q)[i].mCol.table = "right" /\ HasWires(q, CircuitInputs(q)[i])})

MidBundle(q, j, key, leftRow, candidates) ==
  LET input == CircuitInputs(q)[j]
  IN IF input.mCol.table = "left" THEN leftRow[input.mCol.name]
     ELSE IF HasWires(q, input) THEN Selected(key, candidates, SelectStart(q, j)) ELSE {}

(* apply: the bundles become the first inputs' memory, and the gates run.  *)
Combined(a, b) == {<<"gate", a, b>>}
ApplyGates(q, mem) == FoldLeft(LAMBDA m, g : [m EXCEPT ![g.mOut] = Combined(m[g.mIn1], m[g.mIn2])], mem, q.mGates)

Apply(q, mids) ==
  ApplyGates(q, FoldLeft(LAMBDA m, i : [m EXCEPT ![q.mInputs[i].mMemIdx] = mids[i]],
                         [i \in DOMAIN q.mMem |-> {}], [i \in DOMAIN mids |-> i]))

(* What the circuit writes to its outputs, by position: the wires of a     *)
(* right input are those of the output.                                    *)
CircuitOutputs(q, key, leftRow, candidates) ==
  LET mids == [j \in DOMAIN CircuitInputs(q) |-> MidBundle(q, j, key, leftRow, candidates)]
      mem == Apply(q, mids)
      written == SelectSeq(q.mOutputs, LAMBDA o : ~ IsLeftPassthrough(q, o))
  IN [p \in DOMAIN written |->
        LET m == written[p].mMemIdx
        IN IF IsInput(q, m) THEN mids[CHOOSE j \in DOMAIN mids : CircuitInputs(q)[j].mMemIdx = m] ELSE mem[m]]

-----------------------------------------------------------------------------
(* What the query asks for, of a left row and the right row it matches.    *)
Asked(q, leftRow, rightRow) ==
  LET mem == ApplyGates(q, [m \in DOMAIN q.mMem |->
               IF ~ IsInput(q, m) THEN {}
               ELSE LET name == q.mInputs[q.mMem[m].mInputIdx].mCol.name
                    IN IF TableOf(q, m) = "left" THEN leftRow[name] ELSE rightRow[name]])
  IN [o \in DOMAIN q.mOutputs |-> mem[q.mOutputs[o].mMemIdx]]

(* Queries whose circuit can be built and means what was asked for: no     *)
(* computed value is an output twice, every right input but the key is     *)
(* read, no left input that only passes through precedes one that does not,*)
(* and outputs have names of their own, a right column its own name.       *)
WellFormed(q) ==
  /\ \A o, p \in DOMAIN q.mOutputs : q.mOutputs[o].mName = q.mOutputs[p].mName => o = p
  /\ \A o \in DOMAIN q.mOutputs :
       LET m == q.mOutputs[o].mMemIdx
       IN IsInput(q, m) /\ TableOf(q, m) = "right" => q.mOutputs[o].mName = q.mInputs[q.mMem[m].mInputIdx].mCol.name
  /\ \A o \in DOMAIN q.mOutputs : IsLeftPassthrough(q, q.mOutputs[o]) \/ q.mMem[q.mOutputs[o].mMemIdx].mOutputIdx = o
  /\ \A i \in 3 .. Len(q.mInputs) :
       /\ q.mInputs[i].mCol.table = "right" => HasWires(q, q.mInputs[i])
       /\ ~ IsCircuitInput(q, q.mInputs[i]) => \A k \in i .. Len(q.mInputs) : ~ IsCircuitInput(q, q.mInputs[k])
=============================================================================
