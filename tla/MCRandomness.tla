---------------------------- MODULE MCRandomness ----------------------------
(* Programs for Randomness.                                                 *)
EXTENDS Randomness

Do(op) == [op |-> op]
OT(sender, helper, choices) == [op |-> "transfer", sender |-> sender, helper |-> helper, choices |-> choices]
GetOf(n) == [op |-> "get", of |-> n]

(* Draws past the end of every buffer, with common words between.           *)
Drawing == <<Do("draw"), Do("tuple"), Do("draw"), Do("draw"), Do("tuple"), Do("draw"), Do("draw")>>

(* An integer times a bit: sender and helper change places for the same     *)
(* receiver.  Three transfers in one HelpStep and one left, then a single.  *)
MulBit == <<OT(0, 2, <<0, 1, 1>>), OT(2, 0, <<1>>), Do("draw"), GetOf(1), GetOf(2), OT(0, 2, <<1, 0>>), GetOf(6)>>

(* A public integer times a bit: one sender, two receivers helping each     *)
(* other; and what party 0 receives.                                        *)
ConstBit == <<OT(0, 1, <<1, 0>>), OT(0, 2, <<0>>), GetOf(1), GetOf(2), OT(1, 2, <<0, 1>>), GetOf(5)>>

SomePrograms == {Drawing, MulBit, ConstBit}
Buffers == [p \in Party |-> p + 1]
=============================================================================
