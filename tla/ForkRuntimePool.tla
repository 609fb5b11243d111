-------------------------- MODULE ForkRuntimePool --------------------------
(***************************************************************************)
(* ForkRuntime implements WorkerPool: a run is a job, its task's phase is  *)
(* the job's stage and its final status the outcome.                       *)
(***************************************************************************)
EXTENDS ForkRuntime

StageOf(r) == CASE pc[r] = "unused" -> "new"
                [] pc[r] = "queued" -> "waiting"
                [] pc[r] \in Executing -> "executing"
                [] OTHER -> "ended"

OutcomeOf(r) == IF status[r] \in {"none", "running"} THEN "none" ELSE status[r]

Pool == INSTANCE WorkerPool WITH
  Jobs    <- Runs,
  stage   <- [r \in Runs |-> StageOf(r)],
  outcome <- [r \in Runs |-> OutcomeOf(r)]

(* The runtime never executes more than max_workers runs, drops none it    *)
(* accepted, never runs one twice, and gives each exactly one outcome      *)
(* (runtime.py:499-513, 652-699).                                          *)
ImplementsPool == Pool!Spec

(* With the scheduling of the event loop it also carries them all out.     *)
ImplementsFairPool == Pool!FairSpec
=============================================================================
