---------------------------- MODULE MCThreeParty ----------------------------
(* Programs for ThreeParty.                                                 *)
EXTENDS ThreeParty

C(op, dep) == [op |-> op, dep |-> dep]
Ops == {"mul", "localInt", "mulShift", "mulBit", "constBit", "revealAll", "inject", "inject2", "toBinary"}
ParallelOps == {"mul", "mulShift", "mulBit", "constBit", "revealAll", "inject"}

(* One protocol behind the other; each result waited for (toBinaryMatrix    *)
(* has none that can be: run three_party_get); and in parallel.             *)
Chains == {<<C(a, 0), C(b, 1), C("mul", 2)>> : a \in Ops, b \in Ops}
Gets == {<<C(a, 0), C("get", 1), C(b, 0), C("get", 3), C("mulBit", 3)>> :
           a \in Ops \ {"toBinary"}, b \in Ops \ {"toBinary"}}
Pairwise == {<<C(a, 0), C(b, 0)>> : a \in ParallelOps, b \in ParallelOps}

(* Two in parallel and a third behind one of them.  Left out is what goes   *)
(* wrong (run three_party_parallel): the third behind a protocol in which a *)
(* party has nothing to wait for, with a multiplication by a bit beside it. *)
Forks == {<<C(a, 0), C(b, 0), C(c, d)>> : a \in ParallelOps, b \in ParallelOps, c \in {"mul", "constBit", "inject"}, d \in 1 .. 2}
ShortInAParty == {"mulShift", "inject"}
SafeForks == {P \in Forks : ~ (P[1].op \in ShortInAParty /\ P[2].op = "mulBit" /\ P[3].dep = 1)}

Working == Chains \cup Gets \cup Pairwise \cup SafeForks
UnsafeFork == {<<C("mulShift", 0), C("mulBit", 0), C("mul", 1)>>}
Convert == {<<C("toBinary", 0), C("get", 1), C("mul", 0)>>}
=============================================================================
