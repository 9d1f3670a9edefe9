---------------------------- MODULE MCScheduler ----------------------------
(* Model-checking instance of Scheduler.                                    *)
EXTENDS Scheduler
AllTypes == {"Round", "Continuation"}
=============================================================================
