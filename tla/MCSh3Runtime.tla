---------------------------- MODULE MCSh3Runtime ----------------------------
(* Model-checking instances of Sh3Runtime.                                  *)
EXTENDS Sh3Runtime
AllKinds == {"RoundFunc", "And"}
=============================================================================
