---------------------------- MODULE SessionState ----------------------------
(***************************************************************************)
(* The state of a conversation (TinyCTX/db.py): every node carries a delta *)
(* and the state at a node is that of its branch.  Its writers are a push  *)
(* (runtime.py), the choice of a model (modules/sysops), and the skills    *)
(* (modules/skills), which keep there what is expanded and which of the    *)
(* loaded skills have fallen out of the prompt, to remind the model once.  *)
(* One turn runs at a time; ForkRuntime models turns that overlap.         *)
(***************************************************************************)
EXTENDS Integers, Sequences

CONSTANTS
  Authors,   \* users who write to the session
  Skills,    \* skills the model may load
  Chat,      \* the chat models of the configuration
  MaxNodes,  \* bound: nodes of the tree
  MaxAsides  \* bound: passive messages, returns to another node and /model commands

VARIABLES
  nodes,      \* the rows in the order they were added (see Row)
  cursor,     \* where the next message attaches: the bridge's cursor, and
              \* Runtime._settled, which follows it here
  turn,       \* [stage, tail] of the running turn
  asides      \* how many asides there were

stateVars == <<nodes, cursor, turn, asides>>

-----------------------------------------------------------------------------
(* db.py.  A row's branch is itself and its ancestors, as get_ancestors()  *)
(* follows the parents.  Its prompts, [told, kept], are those assembled at *)
(* it, and before holds those assembled above it; the code stores neither. *)

Row(branch, delta, skill, before) ==
  [branch |-> branch, delta |-> delta, skill |-> skill, before |-> before, prompts |-> <<>>]

StateInit ==
  /\ nodes = <<Row({1}, << >>, "", <<>>), Row({1, 2}, << >>, "", <<>>)>>
  /\ cursor = 2
  /\ turn = [stage |-> "idle", tail |-> 2]
  /\ asides = 0

(* The prompts assembled along a branch, in order.                         *)
PromptsOn(n) == nodes[n].before \o nodes[n].prompts

Added(parent, delta, skill) ==
  Append(nodes, Row(nodes[parent].branch \union {Len(nodes) + 1}, delta, skill, PromptsOn(parent)))

(* load_session_state(): of the rows of a branch that set a key, the one   *)
(* nearest to the node wins, and a checkpoint holds everything before it.  *)
Setters(rows, n, key) ==
  {k \in rows[n].branch :
     /\ key \in DOMAIN rows[k].delta
     /\ \A c \in rows[n].branch : "checkpoint" \in DOMAIN rows[c].delta => c <= k}
Nearest(setters) == CHOOSE k \in setters : \A j \in setters : j <= k

LoadSessionState(rows, n, key, default) ==
  LET setters == Setters(rows, n, key)
  IN IF setters = {} THEN default ELSE rows[Nearest(setters)].delta[key]

GetState(n, key, default) == LoadSessionState(nodes, n, key, default)

(* Mutant: the row's whole delta.                                          *)
SetStateBlind(rows, n, key, value) == [rows EXCEPT ![n].delta = [k \in {key} |-> value]]

(* set_state(): one key of the row's own delta.                            *)
SetState(rows, n, key, value) ==
  [rows EXCEPT ![n].delta = [k \in DOMAIN @ \union {key} |-> IF k = key THEN value ELSE @[k]]]

-----------------------------------------------------------------------------
(* runtime.py.                                                             *)

(* _compute_state_delta(): what differs from the state at the message's    *)
(* tail.                                                                   *)
ComputeStateDelta(author, tail) == IF GetState(tail, "author", "") = author THEN << >> ELSE [author |-> author]

PushNode(author) == Added(cursor, ComputeStateDelta(author, cursor), "")

Push(author) ==
  /\ Len(nodes) < MaxNodes /\ turn.stage = "idle"
  /\ nodes' = PushNode(author)
  /\ turn' = [stage |-> "assemble", tail |-> Len(nodes')]
  /\ UNCHANGED <<cursor, asides>>

Aside == asides < MaxAsides /\ asides' = asides + 1

(* A message that asks for no answer, also while a turn runs.              *)
PushPassive(author) ==
  /\ Len(nodes) < MaxNodes
  /\ nodes' = PushNode(author)
  /\ cursor' = Len(nodes')
  /\ Aside /\ UNCHANGED turn

(* The bridge goes on from another node.                                   *)
Return(n) ==
  /\ turn.stage = "idle" /\ n # cursor
  /\ cursor' = n
  /\ Aside /\ UNCHANGED <<nodes, turn>>

-----------------------------------------------------------------------------
(* modules/skills: what an assembled prompt does to the state.             *)

SkillsOn(n) == {nodes[k].skill : k \in nodes[n].branch} \ {""}
Dropped(n) == GetState(n, "skills_dropped", {})
Resident(n) == GetState(n, "skills_resident", {})

(* Mutant: whatever is out of the prompt, whether or not it was there.     *)
NewlyDroppedAlways(resident, invalidated) == invalidated
NewlyDropped(resident, invalidated) == resident \intersect invalidated
StillResident(resident, gone, surviving) == (resident \ gone) \union surviving

(* The footer tells what was dropped and clears it; the hook after the     *)
(* assembly notes what survived (kept) and what of the resident did not.   *)
Noted(n, kept) ==
  LET told == Dropped(n)
      gone == NewlyDropped(Resident(n), SkillsOn(n) \ kept)
      cleared == IF told = {} THEN nodes ELSE SetState(nodes, n, "skills_dropped", {})
      resident == SetState(cleared, n, "skills_resident", StillResident(Resident(n), gone, kept))
      noted == IF gone = {} THEN resident ELSE SetState(resident, n, "skills_dropped", gone)
  IN [noted EXCEPT ![n].prompts = Append(@, [told |-> told, kept |-> kept])]

(* Context.assemble(): kept is what the hooks and the budget leave of the  *)
(* results of use_skill.                                                   *)
Assemble(kept) ==
  /\ turn.stage = "assemble"
  /\ kept \subseteq SkillsOn(turn.tail)
  /\ nodes' = Noted(turn.tail, kept)
  /\ turn' = [turn EXCEPT !.stage = "infer"]
  /\ UNCHANGED <<cursor, asides>>

(* An empty completion: the prompt is assembled again.                     *)
Resend ==
  /\ turn.stage = "infer" /\ Len(nodes[turn.tail].prompts) < 2
  /\ turn' = [turn EXCEPT !.stage = "assemble"]
  /\ UNCHANGED <<nodes, cursor, asides>>

(* The model calls use_skill(): the call and its result, as one row.       *)
UseSkill(s) ==
  /\ Len(nodes) < MaxNodes /\ turn.stage = "infer"
  /\ nodes' = Added(turn.tail, << >>, s)
  /\ turn' = [stage |-> "assemble", tail |-> Len(nodes')]
  /\ UNCHANGED <<cursor, asides>>

(* set_active_model(): the row of the call holds the choice, "" clears it. *)
SetActiveModel(name) ==
  /\ Len(nodes) < MaxNodes /\ turn.stage = "infer"
  /\ nodes' = Added(turn.tail, [model |-> name], "")
  /\ turn' = [stage |-> "assemble", tail |-> Len(nodes')]
  /\ UNCHANGED <<cursor, asides>>

(* The turn ends: with an answer, or with an error and nothing written.    *)
Finish ==
  /\ Len(nodes) < MaxNodes /\ turn.stage = "infer"
  /\ nodes' = Added(turn.tail, << >>, "")
  /\ cursor' = Len(nodes')
  /\ turn' = [stage |-> "idle", tail |-> Len(nodes')]
  /\ UNCHANGED asides

GiveUp ==
  /\ turn.stage = "infer"
  /\ cursor' = turn.tail
  /\ turn' = [turn EXCEPT !.stage = "idle"]
  /\ UNCHANGED <<nodes, asides>>

(* The /model command; "" clears the choice.                               *)
ModelCommand(name) ==
  /\ turn.stage = "idle" /\ GetState(cursor, "model", "") # name
  /\ nodes' = SetState(nodes, cursor, "model", name)
  /\ Aside /\ UNCHANGED <<cursor, turn>>

StateNext ==
  \/ \E a \in Authors : Push(a) \/ PushPassive(a)
  \/ \E n \in 2..Len(nodes) : Return(n)
  \/ \E kept \in SUBSET Skills : Assemble(kept)
  \/ Resend
  \/ \E s \in Skills : UseSkill(s)
  \/ \E m \in Chat \union {""} : SetActiveModel(m)
  \/ Finish
  \/ GiveUp
  \/ \E m \in Chat \union {""} : ModelCommand(m)

StateSpec == StateInit /\ [][StateNext]_stateVars

-----------------------------------------------------------------------------
(* A skill that was in one prompt and is not in the next one is named in   *)
(* the prompt after that, once: on every branch, whatever its turns were.  *)
LossesAreToldOnce ==
  \A n \in DOMAIN nodes :
    LET ps == PromptsOn(n)
        Kept(i) == IF i < 1 THEN {} ELSE ps[i].kept
    IN \A i \in DOMAIN ps : ps[i].told = Kept(i - 2) \ Kept(i - 1)

(* The code does not keep this.  What a reminder names was told to a       *)
(* completion that came to something: not if the prompt is sent again.     *)
RemindersReachTheModel ==
  \A n \in DOMAIN nodes : \A i \in DOMAIN nodes[n].prompts :
    nodes[n].prompts[i].told # {} => i = Len(nodes[n].prompts)
=============================================================================
