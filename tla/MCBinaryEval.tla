---------------------------- MODULE MCBinaryEval ----------------------------
(* Model-checking instances of BinaryEval: circuits of one to four levels   *)
(* with every type of gate, every sharing of two input bits, and two choices *)
(* of the pairwise streams.                                                 *)
EXTENDS BinaryEval

G(type, in0, in1, o) == [type |-> type, in0 |-> in0, in1 |-> in1, out |-> o]
Out(wire, invert) == [wire |-> wire, invert |-> invert]

AndThenXor == [inputs |-> 2, wires |-> 5, outputs |-> <<Out(3, FALSE), Out(4, TRUE)>>,
  levels |-> << <<G("And", 0, 1, 2)>>, <<G("Xor", 2, 0, 3), G("a", 2, 0, 4)>> >>]
AllGates == [inputs |-> 2, wires |-> 8, outputs |-> <<Out(7, TRUE), Out(4, FALSE), Out(5, FALSE)>>,
  levels |-> << <<G("Or", 0, 1, 2), G("And", 0, 1, 3)>>,
                <<G("Nor", 2, 3, 4), G("na_And", 3, 0, 5)>>,
                <<G("Xor", 4, 5, 6), G("Nxor", 6, 0, 7)>> >>]
LastLevelAnd == [inputs |-> 2, wires |-> 3, outputs |-> <<Out(2, FALSE)>>,
  levels |-> << <<G("Or", 0, 1, 2)>> >>]
LinearOnly == [inputs |-> 2, wires |-> 3, outputs |-> <<Out(2, FALSE)>>,
  levels |-> << <<G("Xor", 0, 1, 2)>> >>]
ThreeAnds == [inputs |-> 2, wires |-> 6, outputs |-> <<Out(5, FALSE)>>,
  levels |-> << <<G("And", 0, 1, 2)>>, <<G("Or", 2, 0, 3)>>, <<G("na_And", 3, 1, 4)>>, <<G("Xor", 4, 3, 5)>> >>]

AllInputs == [Party -> [{0, 1} -> Bit]]
SomeInputs == {f \in AllInputs : f[1] = [w \in {0, 1} |-> 0] /\ f[2][1] = 0}

(* One circuit with sends delayed at will, as long as it has at most two    *)
(* levels of nonlinear gates; several circuits after each other, some with  *)
(* three such levels, and prompt sends.                                     *)
OneByOne(c) == [circuits |-> <<c>>, inputs |-> AllInputs, prompt |-> FALSE]
Chained(cs) == [circuits |-> cs, inputs |-> SomeInputs, prompt |-> TRUE]
Both == {OneByOne(AllGates), OneByOne(LastLevelAnd), OneByOne(AndThenXor),
         Chained(<<AndThenXor, LinearOnly, ThreeAnds>>), Chained(<<LastLevelAnd, AndThenXor>>)}
Deep == {[circuits |-> <<ThreeAnds>>, inputs |-> SomeInputs, prompt |-> FALSE]}

RandOf(c) == [k \in Party |-> {i \in 0 .. 5 : c[k + 1] = IF k = i % 3 THEN 0 ELSE 1}]
FewRands == {RandOf(<<0, 0, 0>>), RandOf(<<0, 1, 1>>)}
=============================================================================
