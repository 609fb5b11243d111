----------------------------- MODULE ForkRuntime -----------------------------
(***************************************************************************)
(* The concurrent-fork runtime: TinyCTX/runtime.py (Runtime, Run), the     *)
(* generation loop of TinyCTX/agent.py (AgentCycle.run) and the fork tools *)
(* of TinyCTX/modules/concurrency.                                         *)
(*                                                                         *)
(* Everything runs on one asyncio event loop, so one action is the code    *)
(* between two awaits that can really suspend.  The session locks guard    *)
(* sections without an await and the reply queues are unbounded, so        *)
(* push(), start_run(), finish_run(), _abandon_run() and nudge() are       *)
(* single steps.  The schedule points of a run are: waiting for the        *)
(* semaphore ("queued"), the setup and async hooks before an inference     *)
(* ("top"), the model's stream ("infer"), a tool call ("tools") and the    *)
(* post-turn hooks ("post").                                               *)
(*                                                                         *)
(* A node of the conversation tree is represented by its path: the set of  *)
(* the entries between the session's starting node and the node itself.    *)
(* Adding a child is adding an entry, and "a is an ancestor of b" is set   *)
(* inclusion, because every entry is written on one branch only.           *)
(***************************************************************************)
EXTENDS Integers, FiniteSets, Sequences

CONSTANTS
  Sessions,            \* session keys (one per channel or chat)
  Runs,                \* identities of Run objects, each used once
  Passives,            \* identities of the non-triggering messages
  ManageCtx,           \* runs whose caller holds MANAGE_CTX (the fork tools)
  Resettable,          \* sessions somebody may /reset
  Abortable,           \* runs somebody may abort
  MaxWorkers,          \* config.max_workers
  MaxCycles,           \* config.max_tool_cycles
  MaxEmptyRetries,     \* config.max_empty_retries
  ErrorIntrospection,  \* config.error_introspection
  NoSession            \* the session of a run that does not exist yet

ASSUME ConstantsAssumption ==
  /\ IsFiniteSet(Runs)
  /\ Runs \intersect Passives = {}
  /\ ManageCtx \subseteq Runs
  /\ Resettable \subseteq Sessions
  /\ Abortable \subseteq Runs
  /\ MaxWorkers \in Nat \ {0}
  /\ MaxCycles \in Nat \ {0}
  /\ MaxEmptyRetries \in Nat
  /\ ErrorIntrospection \in BOOLEAN
  /\ NoSession \notin Sessions

VARIABLES
  settled,    \* _settled: session -> path of the node new messages attach to
  registry,   \* the keys of _runs
  permits,    \* free slots of _semaphore
  abortEv,    \* _abort_events, by run: "absent", "clear" or "set"
  session,    \* Run.session_key
  status,     \* Run.status
  inbox,      \* Run.inbox: the entries a drain would write
  head,       \* path of the node at the run's context tail
  pc,         \* where the run's task is suspended
  cycle,      \* cycle_num of AgentCycle.run
  retries,    \* empty_retries of AgentCycle.run
  listening,  \* runs whose caller passed a reply queue
  replies,    \* terminal events put into the reply queue
  posted,     \* passive message -> the session it was posted to
  blind,      \* history: digests in the spawner's inbox when a fork started
  cleared     \* history: runs that existed when their session was reset

conversation == <<settled, posted, cleared>>
task == <<pc, cycle, retries, permits>>
handle == <<registry, session, status, abortEv, blind>>
vars == <<settled, registry, permits, abortEv, session, status, inbox, head,
          pc, cycle, retries, listening, replies, posted, blind, cleared>>

-----------------------------------------------------------------------------
(* Entries of the conversation tree.                                       *)

Kinds == {"user", "assistant", "tool", "error", "digest", "nudge", "passive"}
Entry == Kinds \X (Runs \union Passives) \X (0..MaxCycles)
User(r)         == <<"user", r, 0>>         \* the message that triggered r
Assistant(r, n) == <<"assistant", r, n>>    \* r's completion of cycle n
Tool(r, n)      == <<"tool", r, n>>         \* tool results of r's cycle n
Error(r)        == <<"error", r, 0>>        \* _record_error_introspection
Digest(r)       == <<"digest", r, 0>>       \* _render_digest of r
Nudge(r)        == <<"nudge", r, 0>>        \* a nudge sent by r
Passive(m)      == <<"passive", m, 0>>      \* a non-triggering message

Events == {"final", "error", "end"}   \* what ends a reply queue's stream

Phases == {"unused", "queued", "top", "infer", "tools", "post", "over"}
Executing == {"top", "infer", "tools", "post"}
Live == Executing \union {"queued"}

(* A path tells of f's outcome when it passes through the node f ended on  *)
(* or carries f's digest.                                                  *)
Knows(path, f) == Digest(f) \in path \/ head[f] \subseteq path

Init ==
  /\ settled   = [s \in Sessions |-> {}]
  /\ registry  = {}
  /\ permits   = MaxWorkers
  /\ abortEv   = [r \in Runs |-> "absent"]
  /\ session   = [r \in Runs |-> NoSession]
  /\ status    = [r \in Runs |-> "none"]
  /\ inbox     = [r \in Runs |-> {}]
  /\ head      = [r \in Runs |-> {}]
  /\ pc        = [r \in Runs |-> "unused"]
  /\ cycle     = [r \in Runs |-> 0]
  /\ retries   = [r \in Runs |-> 0]
  /\ listening = {}
  /\ replies   = [r \in Runs |-> <<>>]
  /\ posted    = [m \in Passives |-> NoSession]
  /\ blind     = [r \in Runs |-> {}]
  /\ cleared   = {}

-----------------------------------------------------------------------------
(* Starting runs and recording messages.                                   *)

(* A Run is put into _runs and its task is created: it waits for a slot.   *)
Register(r, s, root) ==
  /\ pc[r] = "unused"
  /\ registry' = registry \union {r}
  /\ session' = [session EXCEPT ![r] = s]
  /\ status' = [status EXCEPT ![r] = "running"]
  /\ abortEv' = [abortEv EXCEPT ![r] = "clear"]
  /\ pc' = [pc EXCEPT ![r] = "queued"]
  /\ UNCHANGED <<permits, cycle, retries, replies, conversation>>

(* push() of a triggering message: its node is a child of the settled      *)
(* tail, which stays where it is.                                          *)
PushTrigger(s, r) ==
  /\ Register(r, s, settled[s])
  /\ head' = [head EXCEPT ![r] = settled[s] \union {User(r)}]
  /\ listening' = listening \union {r}
  /\ UNCHANGED <<inbox, blind>>

(* push() of a message with trigger=False: plain linear continuation.      *)
PushPassive(s, m) ==
  /\ posted[m] = NoSession
  /\ posted' = [posted EXCEPT ![m] = s]
  /\ settled' = [settled EXCEPT ![s] = @ \union {Passive(m)}]
  /\ UNCHANGED <<task, handle, inbox, head, listening, replies, cleared>>

(* seed_session() from /reset: the tail becomes a fresh, empty branch.     *)
Reset(s) ==
  /\ s \in Resettable
  /\ settled' = [settled EXCEPT ![s] = {}]
  /\ cleared' = cleared \union {r \in Runs : session[r] = s}
  /\ UNCHANGED <<task, handle, inbox, head, listening, replies, posted>>

(* abort(): sets the event of a run that still has one.                    *)
Abort(r) ==
  /\ r \in Abortable
  /\ abortEv[r] = "clear"
  /\ abortEv' = [abortEv EXCEPT ![r] = "set"]
  /\ UNCHANGED <<task, registry, session, status, blind, inbox, head,
                 listening, replies, conversation>>

-----------------------------------------------------------------------------
(* The task of a run: _process() around AgentCycle.run().                  *)

(* Mutant: a run starts without waiting for a slot.                        *)
AcquireOverCapacity(r) ==
  /\ pc[r] = "queued"
  /\ permits' = permits - 1
  /\ pc' = [pc EXCEPT ![r] = "top"]
  /\ UNCHANGED <<cycle, retries, handle, inbox, head, listening, replies,
                 conversation>>

(* A slot of the semaphore is taken.                                       *)
Acquire(r) ==
  /\ pc[r] = "queued"
  /\ permits > 0
  /\ permits' = permits - 1
  /\ pc' = [pc EXCEPT ![r] = "top"]
  /\ UNCHANGED <<cycle, retries, handle, inbox, head, listening, replies,
                 conversation>>

Say(r, events) ==
  replies' = [replies EXCEPT ![r] = IF r \in listening THEN @ \o events ELSE @]

(* Mutant: the registry entry is left to finish_run() alone.               *)
LeaveRegistered(r) ==
  /\ pc' = [pc EXCEPT ![r] = "over"]
  /\ permits' = permits + 1
  /\ registry' = IF pc[r] = "post" THEN registry \ {r} ELSE registry
  /\ abortEv' = [abortEv EXCEPT ![r] = "absent"]
  /\ UNCHANGED <<cycle, retries, session, blind, listening, posted, cleared>>

(* The finally block of _process(): the slot is released, the run and its  *)
(* abort event leave their tables.                                         *)
Leave(r) ==
  /\ pc' = [pc EXCEPT ![r] = "over"]
  /\ permits' = permits + 1
  /\ registry' = registry \ {r}
  /\ abortEv' = [abortEv EXCEPT ![r] = "absent"]
  /\ UNCHANGED <<cycle, retries, session, blind, listening, posted, cleared>>

(* Mutant: the settled tail stays at the dead run's parent.                *)
AbandonStranding(r, st, tail) ==
  /\ Leave(r)
  /\ status' = [status EXCEPT ![r] = st]
  /\ head' = [head EXCEPT ![r] = tail]
  /\ Say(r, <<"error", "end">>)
  /\ UNCHANGED <<inbox, settled>>

(* A run that ends without a digest: the settled tail still moves past it  *)
(* (_abandon_run), and the caller is told.                                 *)
Abandon(r, st, tail) ==
  /\ Leave(r)
  /\ status' = [status EXCEPT ![r] = st]
  /\ head' = [head EXCEPT ![r] = tail]
  /\ settled' = [settled EXCEPT ![session[r]] = tail]
  /\ Say(r, <<"error", "end">>)
  /\ UNCHANGED inbox

(* An error AgentCycle.run() reports itself, recorded on the branch when   *)
(* error introspection is on.                                              *)
Fail(r) ==
  Abandon(r, IF abortEv[r] = "set" THEN "aborted" ELSE "failed",
          IF ErrorIntrospection THEN head[r] \union {Error(r)} ELSE head[r])

(* Mutant: the exception is logged but not told to the caller.             *)
CrashSilently(r) ==
  /\ pc[r] \in {"top", "infer", "tools"}
  /\ Leave(r)
  /\ status' = [status EXCEPT ![r] = "failed"]
  /\ settled' = [settled EXCEPT ![session[r]] = head[r]]
  /\ Say(r, <<"end">>)
  /\ UNCHANGED <<head, inbox>>

(* An exception out of AgentCycle.run(), caught by _process().             *)
Crash(r) ==
  /\ pc[r] \in {"top", "infer", "tools"}
  /\ Abandon(r, "failed", head[r])

(* Mutant: the abort event is only looked at while the model streams.      *)
LoopTopUnchecked(r) ==
  /\ pc[r] = "top"
  /\ head' = [head EXCEPT ![r] = @ \union inbox[r]]
  /\ inbox' = [inbox EXCEPT ![r] = {}]
  /\ pc' = [pc EXCEPT ![r] = "infer"]
  /\ UNCHANGED <<cycle, retries, permits, handle, listening, replies,
                 conversation>>

(* Top of the loop: the abort check, then drain point 1.                   *)
LoopTop(r) ==
  /\ pc[r] = "top"
  /\ \/ abortEv[r] = "set" /\ Fail(r)
     \/ /\ abortEv[r] = "clear"
        /\ head' = [head EXCEPT ![r] = @ \union inbox[r]]
        /\ inbox' = [inbox EXCEPT ![r] = {}]
        /\ pc' = [pc EXCEPT ![r] = "infer"]
        /\ UNCHANGED <<cycle, retries, permits, handle, listening, replies,
                       conversation>>

(* cycle_num += 1 and the loop's test; leaving the loop emits the final    *)
(* event and starts the post-turn hooks.                                   *)
NextCycle(r) ==
  /\ cycle' = [cycle EXCEPT ![r] = @ + 1]
  /\ IF cycle[r] + 1 < MaxCycles
     THEN pc' = [pc EXCEPT ![r] = "top"] /\ UNCHANGED replies
     ELSE pc' = [pc EXCEPT ![r] = "post"] /\ Say(r, <<"final">>)

(* The whole model chain failed, or the stream saw the abort event.        *)
InferError(r) ==
  /\ pc[r] = "infer"
  /\ Fail(r)

(* Mutant: one resend too many.                                            *)
InferEmptyOffByOne(r) ==
  /\ pc[r] = "infer"
  /\ \/ /\ retries[r] <= MaxEmptyRetries
        /\ retries' = [retries EXCEPT ![r] = @ + 1]
        /\ pc' = [pc EXCEPT ![r] = "top"]
        /\ UNCHANGED <<permits, cycle, handle, inbox, head, listening,
                       replies, conversation>>
     \/ retries[r] > MaxEmptyRetries /\ Fail(r)

(* Mutant: empty completions are not counted.                              *)
InferEmptyUncounted(r) ==
  /\ pc[r] = "infer"
  /\ pc' = [pc EXCEPT ![r] = "top"]
  /\ UNCHANGED <<retries, permits, cycle, handle, inbox, head, listening,
                 replies, conversation>>

(* Neither text nor a tool call: resend, or give up.                       *)
InferEmpty(r) ==
  /\ pc[r] = "infer"
  /\ \/ /\ retries[r] < MaxEmptyRetries
        /\ retries' = [retries EXCEPT ![r] = @ + 1]
        /\ pc' = [pc EXCEPT ![r] = "top"]
        /\ UNCHANGED <<permits, cycle, handle, inbox, head, listening,
                       replies, conversation>>
     \/ retries[r] = MaxEmptyRetries /\ Fail(r)

(* A completion with tool calls.                                           *)
InferTools(r) ==
  /\ pc[r] = "infer"
  /\ head' = [head EXCEPT ![r] = @ \union {Assistant(r, cycle[r])}]
  /\ retries' = [retries EXCEPT ![r] = 0]
  /\ pc' = [pc EXCEPT ![r] = "tools"]
  /\ UNCHANGED <<permits, cycle, handle, inbox, listening, replies,
                 conversation>>

(* A completion that is only text: drain point 2 decides whether the loop  *)
(* ends here or goes round once more.                                      *)
InferText(r) ==
  /\ pc[r] = "infer"
  /\ retries' = [retries EXCEPT ![r] = 0]
  /\ head' = [head EXCEPT ![r] = @ \union {Assistant(r, cycle[r])} \union inbox[r]]
  /\ inbox' = [inbox EXCEPT ![r] = {}]
  /\ IF inbox[r] = {}
     THEN /\ pc' = [pc EXCEPT ![r] = "post"]
          /\ Say(r, <<"final">>)
          /\ UNCHANGED cycle
     ELSE NextCycle(r)
  /\ UNCHANGED <<permits, handle, listening, conversation>>

(* A tool that touches no other run.                                       *)
PlainTool(r) ==
  /\ pc[r] = "tools"
  /\ head' = [head EXCEPT ![r] = @ \union {Tool(r, cycle[r])}]
  /\ UNCHANGED <<task, handle, inbox, listening, replies, conversation>>

(* spawn_fork -> start_run(): a fork c off the spawner's head, not off the *)
(* settled tail, without a reply queue.                                    *)
SpawnFork(r, c) ==
  /\ pc[r] = "tools"
  /\ {r, c} \subseteq ManageCtx          \* the fork runs as the same caller
  /\ Register(c, session[r], head[r])
  /\ head' = [head EXCEPT ![c] = head[r] \union {User(c)},
                          ![r] = @ \union {Tool(r, cycle[r])}]
  /\ blind' = [blind EXCEPT ![c] = {f \in Runs : Digest(f) \in inbox[r]}]
  /\ UNCHANGED <<inbox, listening>>

(* Mutant: any running run can be nudged.                                  *)
NudgeAnywhere(r, q) ==
  /\ pc[r] = "tools"
  /\ r \in ManageCtx
  /\ head' = [head EXCEPT ![r] = @ \union {Tool(r, cycle[r])}]
  /\ inbox' = IF q \in registry /\ status[q] = "running"
              THEN [inbox EXCEPT ![q] = @ \union {Nudge(r)}]
              ELSE inbox
  /\ UNCHANGED <<task, handle, listening, replies, conversation>>

(* nudge_fork -> nudge(): lands in the inbox of a running run of the same  *)
(* session, and is refused otherwise.                                      *)
NudgeFork(r, q) ==
  /\ pc[r] = "tools"
  /\ r \in ManageCtx
  /\ head' = [head EXCEPT ![r] = @ \union {Tool(r, cycle[r])}]
  /\ inbox' = IF q \in registry /\ status[q] = "running" /\ session[q] = session[r]
              THEN [inbox EXCEPT ![q] = @ \union {Nudge(r)}]
              ELSE inbox
  /\ UNCHANGED <<task, handle, listening, replies, conversation>>

(* The results of all of the completion's calls are written.               *)
EndTools(r) ==
  /\ pc[r] = "tools"
  /\ Tool(r, cycle[r]) \in head[r]
  /\ NextCycle(r)
  /\ UNCHANGED <<permits, retries, handle, inbox, head, listening, conversation>>

(* Mutant: only runs that already execute are told.                        *)
PeersExecuting(r) ==
  {q \in registry \ {r} : session[q] = session[r] /\ pc[q] \in Executing}

(* Mutant: every run the session ever had is told.                         *)
PeersEver(r) == {q \in Runs \ {r} : session[q] = session[r]}

(* Whom finish_run() sends r's digest.                                     *)
Peers(r) == {q \in registry \ {r} : session[q] = session[r] /\ status[q] = "running"}

(* The post-turn hooks are through: finish_run(), then _process() ends.    *)
FinishRun(r) ==
  /\ pc[r] = "post"
  /\ Leave(r)
  /\ status' = [status EXCEPT ![r] = "done"]
  /\ settled' = [settled EXCEPT ![session[r]] = head[r]]
  /\ inbox' = [q \in Runs |-> IF q \in Peers(r)
                              THEN inbox[q] \union {Digest(r)} ELSE inbox[q]]
  /\ Say(r, <<"end">>)
  /\ UNCHANGED head

RunStep(r) ==
  \/ Acquire(r) \/ LoopTop(r) \/ Crash(r)
  \/ InferError(r) \/ InferEmpty(r) \/ InferTools(r) \/ InferText(r)
  \/ PlainTool(r) \/ EndTools(r) \/ FinishRun(r)
  \/ \E c \in Runs : SpawnFork(r, c)
  \/ \E q \in Runs : NudgeFork(r, q)

Arrival ==
  \/ \E s \in Sessions, r \in Runs : PushTrigger(s, r)
  \/ \E s \in Sessions, m \in Passives : PushPassive(s, m)
  \/ \E s \in Sessions : Reset(s)
  \/ \E r \in Runs : Abort(r)

Next == Arrival \/ \E r \in Runs : RunStep(r)

(* Every await of a run ends: the model's stream and the tools have        *)
(* timeouts, the hooks return.  Nobody has to send, abort or reset.        *)
Fairness == \A r \in Runs : WF_vars(RunStep(r))

Spec == Init /\ [][Next]_vars
FairSpec == Spec /\ Fairness

-----------------------------------------------------------------------------
(* Properties.                                                             *)

(* Every variable keeps its type (runtime.py:37-49, 53-100).               *)
TypeOK ==
  /\ settled \in [Sessions -> SUBSET Entry]
  /\ registry \subseteq Runs
  /\ permits \in Nat
  /\ abortEv \in [Runs -> {"absent", "clear", "set"}]
  /\ session \in [Runs -> Sessions \union {NoSession}]
  /\ status \in [Runs -> {"none", "running", "done", "failed", "aborted"}]
  /\ inbox \in [Runs -> SUBSET Entry]
  /\ head \in [Runs -> SUBSET Entry]
  /\ pc \in [Runs -> Phases]
  /\ cycle \in [Runs -> 0..MaxCycles]
  /\ retries \in [Runs -> 0..MaxEmptyRetries]
  /\ listening \subseteq Runs
  /\ replies \in [Runs -> Seq(Events)]
  /\ posted \in [Passives -> Sessions \union {NoSession}]
  /\ blind \in [Runs -> SUBSET Runs]
  /\ cleared \subseteq Runs

(* However a run ends (finished, failed, aborted, crashed), its slot comes *)
(* back and its entries leave _runs and _abort_events: slots and registry  *)
(* always agree with the tasks that exist (_process(), runtime.py:677-699).*)
NothingLeaks ==
  /\ permits + Cardinality({r \in Runs : pc[r] \in Executing}) = MaxWorkers
  /\ registry = {r \in Runs : pc[r] \in Live}
  /\ \A r \in Runs : abortEv[r] = "absent" <=> r \notin registry

(* Which phases go with which values of the run's other fields.  Not a     *)
(* property of its own: the strengthening the proofs carry along.          *)
PhasesAgree ==
  \A r \in Runs :
    /\ pc[r] = "unused" <=> session[r] = NoSession
    /\ pc[r] = "unused" <=> status[r] = "none"
    /\ pc[r] \in Live   <=> status[r] = "running"
    /\ pc[r] = "unused" => blind[r] = {}
    /\ pc[r] \notin {"post", "over"} => cycle[r] < MaxCycles

(* What the forks of a session rest on (R1-R3): a completed run's outcome  *)
(* is on the settled tail, and every live run of the session either has it *)
(* on its branch or will drain it.  Only two things take an outcome away:  *)
(* a run that ends with the digest undrained in its inbox, and a fork      *)
(* started while its spawner had the digest undrained.                     *)
Outcomes == {f \in Runs \ cleared : status[f] = "done"}
DiedUnread == {f \in Runs : \E r \in Runs : pc[r] = "over" /\ Digest(f) \in inbox[r]}
Forgotten == DiedUnread \union UNION {blind[r] : r \in Runs}
TrunkKnows ==
  \A f \in Outcomes \ Forgotten : Knows(settled[session[f]], f)
LiveRunsKnow ==
  \A f \in Outcomes \ Forgotten : \A r \in registry :
    session[r] = session[f] => Knows(head[r], f) \/ Digest(f) \in inbox[r]
CompletedWorkAccountedFor == TrunkKnows /\ LiveRunsKnow

(* No entry written for one session ever reaches a branch, an inbox or the *)
(* settled tail of another: the fan-out and the nudges are scoped by       *)
(* session_key and a fork inherits its spawner's (runtime.py:536, 592,     *)
(* 624, 562).                                                              *)
Origin(e) == IF e[2] \in Runs THEN session[e[2]] ELSE posted[e[2]]
SessionsIsolated ==
  /\ \A s \in Sessions : \A e \in settled[s] : Origin(e) = s
  /\ \A r \in Runs : \A e \in head[r] \union inbox[r] : Origin(e) = session[r]

(* A session whose runs have all ended continues from one of them, however *)
(* they ended: no later message forks off the parent of a dead run         *)
(* (_abandon_run(), runtime.py:602-613).                                   *)
NeverStranded ==
  \A r \in Runs \ cleared :
    /\ pc[r] = "over"
    /\ \A q \in registry : session[q] # session[r]
    => \E q \in Runs : /\ pc[q] = "over" /\ session[q] = session[r]
                       /\ head[q] \subseteq settled[session[r]]

(* The consumer of a reply queue sees exactly one outcome, then the end    *)
(* marker and nothing after it, on every path through _process(), and a    *)
(* fork without a queue says nothing.                                      *)
RepliesWellFormed ==
  \A r \in Runs :
    replies[r] \in IF r \notin listening THEN {<<>>}
                  ELSE IF status[r] = "done" THEN {<<"final", "end">>}
                  ELSE IF pc[r] = "over" THEN {<<"error", "end">>}
                  ELSE IF pc[r] = "post" THEN {<<"final">>} ELSE {<<>>}

(* Every way a run can end is complete, for its session and for whoever    *)
(* waits for its reply.                                                    *)
EndingsAreComplete == NeverStranded /\ RepliesWellFormed

(* A run that has left the registry is deaf: nothing is put into its inbox *)
(* and its branch is closed                                                *)
(* (test_earlier_finisher_gets_nothing_after_it_left).                     *)
EndedRunsAreClosed ==
  [][\A r \in Runs : pc[r] = "over" =>
       inbox'[r] = inbox[r] /\ head'[r] = head[r] /\ pc'[r] = "over"]_vars

(* Every accepted run leaves the registry, and whoever waits on its reply  *)
(* queue sees the end marker: over capacity a run waits for a slot, it is  *)
(* not dropped (_spawn_task(), runtime.py:503-507).                        *)
EveryRunEnds ==
  \A r \in Runs : r \in registry ~>
    r \notin registry /\ (r \in listening => replies[r] # <<>> /\ replies[r][Len(replies[r])] = "end")

(* An abort that comes before an inference starts is never answered by a   *)
(* final message: the run ends without completing (agent.py:230-234).      *)
AbortBeforeInferenceWins ==
  \A r \in Runs : (abortEv[r] = "set" /\ pc[r] \in {"queued", "top"})
                   ~> status[r] \in {"aborted", "failed"}

(* tests/test_concurrency.py:252: the run that finishes last "must hold"   *)
(* the digests of the peers that finished before it, so a run never        *)
(* completes with a digest left in its inbox.                              *)
LastFinisherHasEverything ==
  \A r \in Runs : status[r] = "done" => \A f \in Runs : Digest(f) \notin inbox[r]

(* finish_run(), runtime.py:584-588: a peer starting concurrently "either  *)
(* observes the advanced tail or is visible to this fan-out - never        *)
(* neither"; start_run() claims the same of forks (runtime.py:555-557).    *)
NeverNeither ==
  \A f \in Outcomes \ DiedUnread : \A r \in registry :
    session[r] = session[f] => Knows(head[r], f) \/ Digest(f) \in inbox[r]

(* Discord's /reset reseeds the tail "or the next push() would still       *)
(* attach past the old branch" (bridges/discord/commands.py:230-233): what *)
(* was said before the reset does not come back.                           *)
ResetSticks ==
  \A s \in Sessions : \A r \in cleared : User(r) \notin settled[s]

(* A passive message is "linear continuation" (runtime.py:397-398),        *)
(* recorded "in the conversation history" (bridges/discord/bridge.py:315): *)
(* with nothing reset, it stays on the settled tail.                       *)
PassivesStay ==
  \A m \in Passives : posted[m] # NoSession => Passive(m) \in settled[posted[m]]

=============================================================================
