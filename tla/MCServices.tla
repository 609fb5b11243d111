----------------------------- MODULE MCServices -----------------------------
(***************************************************************************)
(* Services that do not touch each other's state, checked in one run: a    *)
(* behaviour is one of the databank index, of the model queue, or of the   *)
(* state of a conversation, or is a question to the pure parts.            *)
(***************************************************************************)
EXTENDS MCDecisions, RagIndex, ModelQueue, SessionState

VARIABLE live
askVars == <<question, input>>
vars == <<ragVars, queueVars, stateVars, askVars, live>>

Init ==
  /\ RagInit /\ QueueInit /\ StateInit
  /\ \/ live = "rag" /\ Pose("nothing", {{}})
     \/ live \in {"queue", "state"} /\ model = "" /\ Pose("nothing", {{}})
     \/ live = "question" /\ model = "" /\ Questions

Next ==
  /\ UNCHANGED <<live, askVars>>
  /\ \/ live = "rag" /\ RagNext /\ UNCHANGED <<queueVars, stateVars>>
     \/ live = "queue" /\ QueueNext /\ UNCHANGED <<ragVars, stateVars>>
     \/ live = "state" /\ StateNext /\ UNCHANGED <<ragVars, queueVars>>

Spec == Init /\ [][Next]_vars

MCAsk == [e1 |-> <<"a", "b">>, e2 |-> <<"b", "c">>, e3 |-> <<"a", "c">>]
=============================================================================
