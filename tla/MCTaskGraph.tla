---------------------------- MODULE MCTaskGraph ----------------------------
(* Model-checking instance of TaskGraph: every graph that MaxTask calls of  *)
(* addTask and addClosure can build, interleaved with every order of pops.  *)
EXTENDS TaskGraph
=============================================================================
