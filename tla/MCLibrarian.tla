---------------------------- MODULE MCLibrarian ----------------------------
(***************************************************************************)
(* A root with two answers: two branches that share it.  The poller is a   *)
(* coroutine that the loop keeps resuming; nothing else is promised to run.*)
(***************************************************************************)
EXTENDS Librarian

Spec == LibSpec /\ WF_libVars(Poll)

MCBranch == <<<<1>>, <<1, 2>>, <<1, 3>>>>
=============================================================================
