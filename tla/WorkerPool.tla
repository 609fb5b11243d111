----------------------------- MODULE WorkerPool -----------------------------
(***************************************************************************)
(* What Runtime promises about accepted work (runtime.py:499-508): a job   *)
(* that is accepted waits for one of MaxWorkers slots, executes, and ends  *)
(* with one outcome.  Over-capacity jobs wait; they are never dropped, and *)
(* the cap never refuses work.                                             *)
(***************************************************************************)
EXTENDS Integers, FiniteSets

CONSTANTS Jobs, MaxWorkers

VARIABLES
  stage,    \* job -> "new", "waiting", "executing" or "ended"
  outcome   \* job -> "none", or how it ended

vars == <<stage, outcome>>

Results == {"done", "failed", "aborted"}
Busy == {j \in Jobs : stage[j] = "executing"}

Init ==
  /\ stage = [j \in Jobs |-> "new"]
  /\ outcome = [j \in Jobs |-> "none"]

(* Work is accepted whatever the load. *)
Submit(j) ==
  /\ stage[j] = "new"
  /\ stage' = [stage EXCEPT ![j] = "waiting"]
  /\ UNCHANGED outcome

Start(j) ==
  /\ stage[j] = "waiting"
  /\ Cardinality(Busy) < MaxWorkers
  /\ stage' = [stage EXCEPT ![j] = "executing"]
  /\ UNCHANGED outcome

End(j) ==
  /\ stage[j] = "executing"
  /\ stage' = [stage EXCEPT ![j] = "ended"]
  /\ \E o \in Results : outcome' = [outcome EXCEPT ![j] = o]

Next == \E j \in Jobs : Submit(j) \/ Start(j) \/ End(j)

Spec == Init /\ [][Next]_vars

(* Accepted work is carried out. *)
Completion == \A j \in Jobs : stage[j] = "waiting" ~> stage[j] = "ended"

FairSpec == Spec /\ \A j \in Jobs : WF_vars(Start(j)) /\ WF_vars(End(j))
=============================================================================
