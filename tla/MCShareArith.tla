---------------------------- MODULE MCShareArith ----------------------------
(* Integers of five bits: shares and draws at and next to the ends of the   *)
(* range and around zero.                                                   *)
EXTENDS ShareArith

Triples(S) == {[p \in Party |-> <<x, y, w>>[p + 1]] : x \in S, y \in S, w \in S}
None == {[p \in Party |-> 0]}
Draws == {[p \in Party |-> <<x, y, w>>[p + 1]] : x \in {-16, 7}, y \in {-1, 15}, w \in {-3, 14}}

Pieces(ts, coefs, bitss) ==
  {[t |-> t, coef |-> f, bits |-> <<y, y, y>>, k |-> <<n, n, n>>, z |-> <<5, 5, 5>>] :
     t \in ts, f \in coefs, y \in bitss, n \in {[p \in Party |-> <<-16, 7, 3>>[p + 1]]}}
NoPieces == Pieces({<<0, 0>>}, {<< <<>>, <<>>, <<>> >>}, None)

Case(ops, as, bs, bitss, ks, zs, ds) ==
  [ops |-> {ops}, a |-> as, b |-> bs, bits |-> bitss, k |-> ks, z |-> zs, divisor |-> ds, pieces |-> NoPieces]

(* The logistic function's pieces, a maximum with zero, and a step.         *)
Functions == {<< <<>>, <<4, 1>>, <<8>> >>, << <<>>, <<>>, <<0, 1>> >>, << <<-3>>, <<2, -5>>, <<7, 3>> >>}
Thresholds == {<<-4, 4>>, <<0, 0>>, <<-16, 15>>, <<3, 9>>}

PiecewiseSamples ==
  [Case("piecewise", Triples({-16, -5, 1, 4, 15}), None, None, None, {0}, {1}) EXCEPT
     !.pieces = Pieces(Thresholds, Functions, Triples({0, 1}))]

Samples ==
  { Case("mul", Triples({-16, -1, 3, 15}), Triples({-13, 2, 15}), None, Draws, {0}, {1}),
    Case("mulBit", Triples({-16, -1, 3, 15}), None, Triples({0, 1}), Draws, {-16, 5}, {1}),
    Case("constBit", None, None, Triples({0, 1}), Draws, Ring, {1}),
    Case("inject", None, None, Triples({0, 1}), Triples({-16, -1, 7, 15}), {0}, {1}),
    Case("mulShift", Triples({-15, 1, 15}), Triples({-15, 1, 14}), None, Triples({-16, -13, -1, 5, 15}), {0}, {2, 4}),
    Case("share", Triples({-16, 0, 9}), None, None, Draws, {0}, {1}),
    PiecewiseSamples }

OnlyPiecewise == {PiecewiseSamples}
=============================================================================
