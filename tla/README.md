# TinyCTX in TLA+

TinyCTX is an asyncio agent framework. Bridges (Discord, Telegram, an HTTP
gateway with its CLI client, the cron scheduler) push messages into one
`Runtime`, which records them in a tree of conversation nodes in SQLite and
starts a *run* for each message that asks for an answer. A run is an
`AgentCycle`: it assembles a prompt from its branch, streams a model's answer,
executes tool calls and repeats. Several runs of one session execute at the same
time ("concurrent forks") and tell each other what they did. Around this core
stand a user store with permissions, a scheduler, and a long-term memory graph
that background agents edit.

This directory models that core and the services around it, checks them with TLC
and proves part of what they promise with TLAPS. Paths below are relative to the repository root, those without a
directory to `TinyCTX/`.

    tlc -workers 2 -config fork_faults.cfg MCForkRuntime.tla     a run
    tlapm ForkProofs.tla                                         the proofs of a component

Contents: 1 inventory, 2 modules and code, 3 runs, 4 bounds and fairness,
5 theorems, 6 disagreements between code and docs, 7 what is not modelled,
8 plan.

## 1. Inventory

Everything but tools runs on one event loop, so code between two awaits that can
really suspend is atomic; synchronous tool functions and some database calls run
in worker threads, in parallel with the loop. Most hard behaviour comes from
these two facts.

| Component | State | Operations | Talks to | Hard behaviour | Correct when |
|---|---|---|---|---|---|
| Runtime (`runtime.py`) | `_runs`, `_settled`, `_abort_events`, the semaphore, session locks | push, start_run, nudge, finish_run, abort, seed_session | bridges call it; it starts AgentCycles and writes the tree | interleaving runs, endings by error, abort or crash, /reset in the middle | slots and registry match the tasks; outcomes reach peers and trunk; one outcome per caller; sessions isolated |
| AgentCycle (`agent.py`) | the run's context tail, cycle and retry counters, its inbox | drain, assemble, infer, tools, post-turn hooks | model client, tools, runtime | digests that arrive around an await, empty completions, abort against stream | the loop ends; nothing is said twice |
| Fork tools (`modules/concurrency`) | none of its own | spawn_fork, nudge_fork | Runtime | a fork branches off a head that is behind | forks stay in their session |
| Context (`context.py`, `modules/ctx_tools`) | the branch, hooks, token limit | assemble: load, filter, transform, merge, trim | AgentCycle | calls and results are separate entries that four passes treat one by one | fits the window, drops oldest first, calls keep their results |
| Cron (`modules/cron`) | `cron_jobs` table, the runner's copy, wake event, turns in flight | add_cron, remove_cron, poll, run, write back | Runtime.push, tools in threads | stale copies, crash between turn and write, two clock readings | no occurrence twice, none forgotten, removed stays removed |
| Users (`users/store.py`) | two tables, two caches of shared mutable objects | resolve, create, update, rename, merge, migrate | every bridge and permission gate | caches against rows, threads in one transaction, crash between statements | caches never lie, identities belong to one user |
| Permissions (`permissions.py`) | template, sparse overrides, implication table | expand, effective, missing, migrate | tools, commands | denial against implied grant, old databases | denials win, migration keeps rights |
| Memory graph (`modules/memory/{tools,deduper,graph}.py`) | Entity and Relation tables, write lock, vector index, record of distinct pairs | eight editing tools, embedding pass, deduplication | librarians' agents, embedder, model | reads before awaits, many statements per edit, crash in between | one edge each, merges lose nothing, index mirrors the store |
| Librarian (`modules/memory/{__main__,extractor,reviewer}.py`) | visited marks, the reviewer's queue file, the deduplicator's sentinel | poll, extract, review, deduplicate | conversation tree, memory graph | marking before working, overlapping cycles, shutdown | every turn is read, every issue handled, once |
| Conversation tree and session state (`db.py`) | nodes, state deltas, checkpoints, flags | add, load a state, flag a branch, set a state | everything | a delta computed on one node and attached to another | the state along a branch is what was set last |
| Model client and embedder (`ai.py`) | priority queue, workers, embedding cache | enqueue, stream, retry, embed | AgentCycle, librarians | a consumer that leaves, retries of a stream | no worker lost, priority kept |
| Tool handling (`tool_handling`) | registry, enabled sets, vector store of descriptions | register, search, enable, execute | AgentCycle, modules | enabled tools across turns, gates | only permitted tools run |
| Command registry (`utils/commands.py`) | the command tree | register, dispatch | bridges | longest path, gates | only permitted commands run |
| Discord bridge | cursors and their file, reset epochs, active channels | turn, reset, threads, passive messages | Runtime | concurrent turns of a channel | the cursor follows the conversation |
| Telegram bridge, gateway, CLI | cursors, lanes, generations | turns, abort, server-sent events | Runtime | disconnects, reconnects | one stream per turn |
| RAG, shell, skills, filesystem, web, MCP, ComfyUI, present, equipment manifest, system prompt, output parser | indexes and registries of their own | tools and prompt providers | AgentCycle | files that change while indexed; policy of unparsed commands; chunk boundaries | see sections 2 and 7 |
| main, config, onboarding, operator commands, scripts | none at run time | start, stop, configure | the operating system | - | - |

`PROJECT.json` lists all of them with their source files and state, and under
`hazards` the places where this code is hard to test.

## 2. Modules and code

| Module | Models | Extends or instantiates |
|---|---|---|
| `ForkRuntime` | `Runtime`, `AgentCycle.run`, the fork tools | |
| `WorkerPool` | abstract: accepted jobs wait for a slot, execute, end once | |
| `ForkRuntimePool` | refinement mapping: a run is a job | `ForkRuntime`; `WorkerPool` |
| `ContextAssembly` | `Context.assemble` with dedup, tokenade, cot_strip, trim | |
| `CronScheduler` | the store, the runner, its tools, and what push attaches a turn to | |
| `Permissions` | overrides, expansion, gate, migrations | |
| `UserStore` | tables, transaction, caches, everything that calls the store | `Permissions` |
| `MemoryGraph` | editing tools, embedding pass, deduplication, index | |
| `Librarian` | the librarians' polling loop, flags, tasks and issue queue | |
| `GatewayLanes` | the HTTP gateway's lanes and the CLI client with its cursor file | |
| `DiscordBridge` | channels, threads, turns, resets, the cursor store | |
| `SessionState` | deltas along a branch, and the three who write them | |
| `ModelQueue` | request queue, workers, streams, embedder and cache | |
| `RagIndex` | a databank scanned, embedded, stored and searched while it changes | |
| `ShellPolicy` | how a command is resolved, classified and checked | |
| `RagText` | modes of lore entries, chunking, budget, conversion | |
| `ToolCalls` | tool registry, search, guard, calls; slash commands | `Permissions`, `RankFusion` |
| `MemoryView` | scopes, reads, search, memories in the prompt, flaggers | `RankFusion` |
| `RankFusion` | reciprocal rank fusion | |
| `ModelText` | requests, streamed answers, calls written as text | |
| `ChatText` | replies, mentions, rules and rendering of the bridges | |
| `SkillIndex` | what is found, listed and loaded of skills | |
| `MCDecisions` | questions to the pure modules, over bounded inputs | the seven above it names |
| `MCServices` | three independent services and the questions, side by side | `MCDecisions`, `RagIndex`, `ModelQueue`, `SessionState` |
| other `MC*` | sets, functions and symmetries for TLC | the module named |
| `*Proofs` | theorems (section 5) | the module named |

**ForkRuntime.** A node of the tree is represented by its path, a set of entries,
so "ancestor of" is inclusion. `pc` is the await at which a run's task is
suspended. `Push`, `SpawnFork`, `NudgeFork`, `FinishRun`, `Abandon` are single
steps because the session lock guards no suspending await and reply queues are
unbounded. `LoopTop` drains the inbox and may see the abort; `InferText`,
`InferTools`, `InferEmpty`, `InferError` are the ends of a stream. `blind` and
`cleared` are history variables. One inference is one step: the fallback chain,
deltas of a stream and stream hooks are left out.

**ContextAssembly.** The variables are a branch while the agent loop writes it;
`Prompt` is a pure function of it, in the order of the code: load, filter,
transform, merge adjacent entries, put prompts in place, trim. A text is its
size and whether it opens with reasoning.

**CronScheduler.** A row is a record, the runner's list a copy of the rows; tools
change the rows between any two steps, because they run in threads. `losses` in
a turn counts crashes and failed writes before it, so that a property can say
what only they may cause. `due` holds the places in the runner's list whose jobs are still to be
run; it takes them in order (`First`). The dates of relative jobs come from two
readings of the clock.

**UserStore.** `db` is what the one shared connection sees, `kept` what is
committed; a tool's call is a chain of statements, a call on the loop one step.
User objects live in a heap: the caches hold references and every holder sees
every mutation, as in the code. `ToolsOverlap`, `RequestsOverlap` and
`SelfMerge` switch on three kinds of interleaving the code does not guard; each
breaks a promise on its own (section 6), and the passing run shows what holds
without them. `Crash` rolls the open transaction back.

**MemoryGraph.** The holder of the write lock is a list of statements,
`job.todo`; each step runs one, and each is durable at once, as no edit opens a
transaction. Entities are resolved under the lock by the tools, before it by the
deduplication cycle (`dedup.read`). A vector and a hash are named by the text
they were made of, so stale and current can be told apart. One scope is
modelled, in which every entity is visible, so nothing is said of
`memory_set_entity_scope`, which moves an entity without looking for its name
there; pins, mentions, types and time
stamps are left out but for `born` (0 before the run, 1 in it), which carries an
edge's age. Who gets the lock next is left open. The model names only entities
of the group it was shown.

**Librarian.** A node's flags, the issue queue and the times of the last runs
survive `Restart`; the poller's program counter, its message queue and its tasks
do not. `Poll` takes one step of the loop: drain a message, walk on to the next
tail, start an extractor, a reviewer or the deduper if there is room. A subagent
is a task that ends at some time; what it does to the graph is `MemoryGraph`, so
here a problem of the graph is there or not, and the flaggers see those there.

**GatewayLanes.** A request and its response are one step, except the stream of
a message, whose events wait in the reply queue until the client takes them and
whose connection may be cut between any two. The client is another process: its
cursor, its file and what it was shown are its own, and its reads race the run.
A stream's record names its run and the tail it told last. The runtime is reduced
to what a lane can see of it, where a message attaches and a run that answers,
fails or is aborted.

**DiscordBridge.** A message is sent, taken and answered in separate steps;
`handle_turn()` up to its first read of the queue is one step, because the
session lock is released without suspending. The turn's reader, the run that
fills its queue, `/reset`, a thread's creation with its awaited starter message
and restarts interleave. `store` and `msgNodes` are the file that survives a
restart, `settled` the runtime's own tails that the file mirrors. A turn that
times out posts what it has read, a part of the reply or all of it, while its run
is still at work or in its post-turn hooks; nobody reads its queue from then on,
so only the end of the run, `finish_run()`, can put the reply on the branch. What
comes in between runs beside it: `crowded` has the runs that another one
overlapped, `crossed` those whose reading anything else of the session came into,
or that were left unread, and these are what ShownIsRemembered exempts. That an overlapping
run is told by a digest is `ForkRuntime`'s CompletedWorkAccountedFor.

**SessionState.** A row has a branch (itself and its ancestors) and a delta;
`LoadSessionState` takes the setting of a key that is nearest on the branch. A push, /model, `set_active_model` and
the skills of a turn write keys of the same deltas. A row's prompts, which the
code does not store, are history: what was told at an assembly, and the prompts above it.

**ModelQueue.** `Enqueue`, the worker's three suspensions, the stream's consumer
that may leave, and embedding calls that miss, fill and evict the shared cache
around their awaits. An action is what one task does between two suspensions.

**RagIndex.** A search scans the folder, embeds what changed and awaits the
embedder in the middle; files, the folder and other searches move meanwhile. A
file is what it says, its stamp may be coarse (`CoarseTime`), and a folder may be
moved away and put back between a scan and its end (`QuickMoves`).

**Pure modules.** `ShellPolicy`, `RagText`, `ToolCalls`, `MemoryView`,
`ModelText`, `ChatText`, `SkillIndex` are functions translated from the code.
`MCDecisions` puts questions of bounded shape to them: a state is one question,
and a property relates the answers to the question or to the answer to another
one (a command and the same command with one thing more; what is offered to the
model and what the guard then does).

`MCServices` checks the last three stateful modules and the questions in one
run: they share no variable in the code either, and `live` says which of them a
behaviour moves.

`PROJECT.json` maps every definition to the lines it stands for.

## 3. Runs

Each property below has a mutant in `PROJECT.json`: a plausible bug of the code
that TLC finds to violate it.

| Run | Checks | Shows |
|---|---|---|
| `fork_faults` | TypeOK, NothingLeaks, EndingsAreComplete, CompletedWorkAccountedFor | three runs over two slots, aborted, crashed, with errors or empty completions: every ending returns slot, registry entry and abort event, moves the session on and tells the caller exactly once; a completed run's outcome is on the trunk, and on the branch or in the inbox of every live run, but for the two losses the property names |
| `fork_liveness` | SessionsIsolated, AbortBeforeInferenceWins, ImplementsFairPool | two sessions with forks, nudges, passive messages and a reset never mix; an abort before an inference wins; the runtime refines `WorkerPool` with its fairness, hence every accepted run ends |
| `prompt` | WithinBudget, UnansweredOnlyIfBlank, DedupKeepsNewest | every branch of six writes with all hooks on: the trimmed prompt fits, dedup hides a result only behind a newer one that stays, a call is left unanswered only in a completion without text |
| `cron` | RunsAreNotRepeated (OncePerOccurrence, OneShotsFireOnce), ChatSeesNoIsolatedTurn, RemovedStaysRemoved, DueJobsRun | no occurrence twice and no burst of missed ones but after a crash or two failed writes; isolated turns stay off the chat's branch; a removed job is not brought back; no due job is forgotten |
| `users_calls` | StoreAgrees (CachesAgree, RowsAreIndexed), OverridesSurvive | any sequence of calls of bridges, commands, tools and gateway on a database of any era, with crashes between statements: the caches never lie, the tables agree on who is who, overrides change only on purpose |
| `memory_tools` | OneEdgeEach, MergeKeepsRelations | two tool calls and a crash between any two statements: one edge per relation, and merges that lose no relation and no strength |
| `memory_dedup` | IndexMirrorsStore, SettledPairsRest | two deduplication cycles with failing embedder and model while a tool edits: index and store agree, settled pairs are not merged |
| `gateway` | ConversationsAreKept (NothingSeenIsLost, LanesAreSeparate), NobodyWaitsInVain | two terminals with cut connections, relaunches and restarts: what a terminal was told of stays on its branch, lanes do not mix, no terminal waits for a stream that nobody will write |
| `discord` | ContextIsTheSessions, ResetForgets, ShownIsRemembered | posts, a thread, resets, commands and restarts in every order: contexts stay within their session, a /reset with nothing in flight forgets for good, a reply of which anything was posted is on the branch the next message continues when its run is over, also when the turn timed out before that; and after a restart, if the turn read to the final event undisturbed |
| `librarian` | WorkIsSharedOut (ExtractedOnce, TasksAreBounded), EveryNodeIsVisited | messages and walks ask for branches with a common root: no node is read as new by two extractors, the bound on tasks holds whoever starts them, and walks that keep starting with room visit every node |
| `services` | AnswersAreFresh | a search answers, for every file, with a text it had at some moment since the scan of that search began, whatever overlaps it; a scan that the embedder cut short is exempt, and so are texts that become blank (section 7) |
| | WorkIsNeverAsleep, VectorsMatchTexts | while a request is queued some worker is awake or busy; an embedding call returns for each of its texts that text's vector or none |
| | LossesAreToldOnce | a skill that fell out of the prompt is told once, on every branch |
| | MoreNeverNeedsLess, UntouchedRulesStay | adding to a command never lowers what it requires; a policy that extends another keeps the rules it does not touch |
| | ModesAreKept, ChunksCoverTheText | a lore entry's mode survives its head, merge and conversion; chunks leave out no part of a text |
| | WhatIsHiddenIsDenied | a tool that is not offered to the model would be refused to it |
| | MemoriesAreShown (PinsAreNotDisplaced, EdgesAreShownOnce) | search results never push a pin out of the block of memories, and each relation of an entity to another one in scope is told once |
| | CallsComeThroughOnce | a call arrives whole and once, streamed in interleaved fragments or written as text in nested wrappings, and a model that goes on writing calls as text is not sent back for ever |
| | RepliesArriveWhole, WhatIsShownLoads | a reply reaches each chat whole whatever its quotes and its streaming; a skill that is shown loads |
| `librarian_manual` | ManualIsReviewed (violated) | section 6 |

`CHECK_DEADLOCK FALSE` stands where the bounds let a run of the model stop (all
messages sent, all calls made, a question answered); `users_calls` never stops
and checks it.

## 4. Bounds and fairness

| Run | Bounds | Why they are enough |
|---|---|---|
| `fork_faults` | 1 session, 3 runs, 2 with the fork tools, 2 abortable, 2 slots, 1 cycle, 1 empty retry, symmetry | one run waits while two execute; a finisher, a spawner and a fork are the parts of every loss found; both limits are met and exceeded |
| `fork_liveness` | 2 sessions, 2 runs, 1 slot, 1 passive message, 1 spawner, 1 abortable, 1 resettable session, 2 cycles, 1 empty retry | a leak needs one run and one entry on each side; one run waits for the other; a completion is empty once too often |
| `prompt` | 6 entries, 1 call each, limit 11, dedup and truncate after 1, trim after 3, output 2, tokenade 3 | each threshold lies inside the branch, and a few entries pass the limit |
| `cron` | 2 jobs (a recurring one and an isolated one-shot that its turn adds), period, minute and poll 2 ticks, 1 message, 1 change, 1 event (a second fault in a row is free), horizon 4 | two occurrences with readings on both sides of a boundary; two faults in a row are a write and its second attempt |
| `users_calls` | 3 names, 2 identities, 3 handles, 1 permission | a rename onto, a merge into, and a bystander; `Copies` is more than are ever alive at once (`TightIsRoomy`) |
| `memory_tools` | 3 entities, 2 calls, 1 crash, 2 edges, weights 1..2 | a merge re-points over a third entity; an unfinished merge is followed by another |
| `memory_dedup` | 3 entities, 2 texts, 2 cycles, 1 call, 1 merge, groups of up to 3 | a settled pair meets a third entity in the next cycle |
| `gateway` | 2 terminals, 5 nodes, 1 worker, 2 faults (cut, relaunch or restart), /resume typed with node 2 | each terminal writes and is answered, and one of them may be cut and come back to the other's branch |
| `discord` | 3 posts, one of a session at a time waiting to be taken, 5 nodes, 1 thread, 2 events (reset, command, restart) | a message, its reply, and a message between them; two messages taken in the other order are the same two under each other's names, but for a thread opened on the one that waits (with `MaxWaiting = 3` the three properties hold too, over 4.9 million states); two events in a row are a reset and the restart that reads what it wrote |
| `librarian` | a root with two branches, batches of 2 with 1 node of overlap, 2 tasks, 1 problem, 1 event (restart, call_librarian, a new problem, an interval of the reviewer or the deduper) | two requests share an ancestor and the slots run out |
| `services` | 2 files, 2 texts, 2 searches, 2 edits, 2 moves of the folder; 1 stream and 3 embedding calls over 2 workers and a cache of 2; 6 nodes, 2 side branches, 1 skill | an edit and its undoing during a search; three texts for two places in the cache; a branch that forks before and after a loss |

`MaxEvents`, `MaxFaults`, `MaxCrashes`, `MaxNodes` and the like are guards of
the actions they bound and appear nowhere else.

Fairness: `ForkRuntime!Fairness` is weak fairness of each run's steps. The loop
runs every ready task, a semaphore hands slots out in order, and model calls and
tools return because both carry time limits. `WorkerPool` asks for weak fairness
of starting and ending. `CronScheduler!FairSpec` has weak fairness of the runner
and of the clock; `DueJobsRun` is about dates within the horizon. Messages,
aborts and crashes need not happen. `MCLibrarian!Spec` has weak fairness of the
poller alone: the poller resumes after every sleep, but nothing says that the
tree stops growing or that a task ends, so `EveryNodeIsVisited` states as its own
condition that walks start again and again with room. The other modules state no
liveness: `NobodyWaitsInVain` and `WorkIsNeverAsleep` are invariants that say
that somebody is left to act.

## 5. Theorems

Every theorem holds for all values of the constants that satisfy the assumptions
its module names, which TLC evaluates in the runs.

| Theorem | States | Module |
|---|---|---|
| `TypeCorrect` | Spec => []TypeOK | `ForkProofs` |
| `NothingLeaksEver` | Spec => []NothingLeaks | `ForkProofs` |
| `CompletedWorkSafe` | Spec => []CompletedWorkAccountedFor | `ForkProofs` |
| `EndingsAreAlwaysComplete` | Spec => []EndingsAreComplete | `ForkProofs` |
| `SessionsStayIsolated` | Spec => []SessionsIsolated | `ForkProofs` |
| `RunsAreJobs` | Spec => the pool's initial state and steps | `ForkProofs` |
| `RemovedForGood` | Spec => RemovedStaysRemoved | `CronSchedulerProofs` |
| `WhatRanIsDone` | Spec => []RunsAreNotRepeated | `CronSchedulerProofs` |
| `IsolatedTurnsStayOut` | Spec => []ChatSeesNoIsolatedTurn | `CronSchedulerProofs` |
| `MemoryInvariant` | Spec => []MemoryInv | `MemoryGraphProofs` |
| `GraphKeepsItsShape` | Spec => []TypeOK | `MemoryGraphProofs` |
| `EveryRelationHasOneEdge` | Spec => []OneEdgeEach | `MemoryGraphProofs` |
| `MergesLoseNoRelation` | Spec => []MergeKeepsRelations | `MemoryGraphProofs` |
| `IndexSaysWhatTheStoreSays` | Spec => []IndexMirrorsStore | `MemoryGraphProofs` |
| `SettledPairsAreLeft` | Spec => SettledPairsRest | `MemoryGraphProofs` |
| `ConversationsStayKept` | Spec => []ConversationsAreKept | `GatewayLanesProofs` |
| `SomebodyAnswers` | Spec => []NobodyWaitsInVain | `GatewayLanesProofs` |
| `SessionsShareOnlyTheirChannel` | Spec => []OwnContext | `DiscordBridgeProofs` |
| `ContextStaysTheSessions` | Kept => (Spec => []ContextIsTheSessions) | `DiscordBridgeProofs` |
| `ResetsForget` | Spec => []ResetForgets | `DiscordBridgeProofs` |
| `ShownStaysRemembered` | Spec => []ShownIsRemembered | `DiscordBridgeProofs` |
| `TheWorkIsSharedOut` | LibSpec => []WorkIsSharedOut | `ConversationProofs` |
| `NewestStays` | Spec => []DedupKeepsNewest | `ConversationProofs` |
| `PromptsFit` | Spec => []WithinBudget | `ConversationProofs` |
| `CallsStayAnswered` | Spec => []UnansweredOnlyIfBlank | `ConversationProofs` |
| `NoLostWakeUp` | QueueSpec => []WorkIsNeverAsleep | `ServicesProofs` |
| `VectorsStayRight` | QueueSpec => []VectorsMatchTexts | `ServicesProofs` |
| `AnswersStayFresh` | Usual => (RagSpec => []AnswersAreFresh) | `ServicesProofs` |
| `LossesStayTold` | StateSpec => []LossesAreToldOnce | `ServicesProofs` |
| `HiddenToolsAreDenied`, `HiddenIsAlwaysDenied` | HiddenIsDenied of any registry, caller and call; hence WhatIsHiddenIsDenied | `ServicesProofs` |
| `UntouchedRulesStayInForce`, `ExtensionsLeaveRulesAlone` | UntouchedRulesHold of any policies and line; hence UntouchedRulesStay | `ServicesProofs` |
| `MoreNeedsNoLess`, `MoreNeverLowersTheNeed` | adding to a line never lowers Required, by any table; hence MoreNeverNeedsLess | `ServicesProofs` |
| `TheModesAreKept`, `LoreKeepsItsModes` | ModeIsKept of any entries and results; hence ModesAreKept | `ServicesProofs` |
| `NoWordIsLost`, `NoLineIsLost`, `NothingOfTheTextIsLost` | WordsAreCovered and LinesAreCovered at any length; hence ChunksCoverTheText | `ServicesProofs` |
| `WhatIsListedLoads`, `ListedSkillsLoad` | ShownSkillsLoad of any directories and names; hence WhatIsShownLoads | `ServicesProofs` |
| `StoreStaysInStep` | Alone => (Spec => []StoreAgrees) | `UserStoreProofs` |
| `OverridesStay` | Alone => (Spec => OverridesSurvive) | `UserStoreProofs` |
| `StoreIsTyped` | Alone => (Spec => []TypeOK) | `UserStoreProofs` |
| `MigrationKeepsPermissions` | old databases keep everybody's permissions | `UserStoreProofs` |
| `DenialsAreAuthoritative` | a denial wins over every grant | `UserStoreProofs` |

**ForkRuntime, accounts.** The invariant is

    ForkInv == TypeInv /\ RegistryAgrees /\ CompletedWorkAccountedFor
    TypeInv == TypeOK /\ PhasesAgree

TypeOK is not inductive: the drain point may count a cycle only because a run in
the loop is below the limit, which `PhasesAgree` says. CompletedWorkAccountedFor
is not either: that a finisher's digest reaches exactly the live runs needs the
registry to be the set of live tasks (`RegistryAgrees`, the part of NothingLeaks
without arithmetic). The argument splits the steps in three. In a *growing* step
(`Growing`) branches, inboxes and tails only grow, no run ends and `Forgotten`
does not shrink, so what was known stays known. In an *ending* step
(`EndingAccounted`) the new outcome is put on the trunk and into every live
inbox, and whatever the trunk held is either on the finisher's branch or in its
inbox, hence in `Forgotten`. In a *starting* step (`StartingAccounted`) a run
begins on the trunk, or as a fork on its spawner's branch with what the spawner
has not read recorded in `blind`. NothingLeaks is separate because slots need
the cardinality of the executing set (`SlotsStep`).

**ForkRuntime, endings.** `EndingInv == TypeInv /\ Anchored /\ RepliesWellFormed`.
NeverStranded speaks of sessions without a live run, which a step may enter or
leave. `Anchored` drops that condition: behind the tail of every session that
had a run which ended and was not cleared stands some run of it that is over.
RepliesWellFormed is kept because only an ending step adds the closing event.

**ForkRuntime, isolation.** `IsolationInv == TypeInv /\ SessionsIsolated /\
Untouched`. A run that does not exist yet has no session, so an entry in its
inbox would belong to whichever session it is pushed to; `Untouched` says there
is none. An entry names its writer, so each step settles its origin (`Origins`).

**ForkRuntime, refinement.** `RunsAreJobs` proves the safety part of
`ImplementsFairPool`: the initial states map to the pool's, and under
TypeInv /\ NothingLeaks every step is a `Submit`, `Start` or `End` of the pool,
or leaves it alone. `Start` needs the count of executing runs, `End` that a run
ends once.

**ContextAssembly.** The invariant over the steps of the agent loop is `BranchSpec`:
calls stand only on completions, no two completions share an id, and a result comes
after the completion that made its call. The rest is about `Prompt`, which is
computed from one branch by five passes, each a loop of the code written as a
recursive function:

- the deduplicator scans backwards; `Scanned(acc, i)` says of what it holds after
  the results from i on that the result it saw last of each call stays, and that
  whatever it drops has such a one more than `DedupAfter` entries later. At i = 1
  that is DedupKeepsNewest.
- `Sound(ms)` says of a list of messages that every result has its call before it,
  and that only an entry with blank text may be left with unanswered calls. What is
  loaded is sound; each later pass keeps it because its list maps back to the one it
  came from without changing the order and without losing a result: `ShowsBy` for
  what is shown of the branch, `JoinsBy` for merging, `Inserted` for placing a
  prompt. Trimming pops a call together with its results (`CutOutIsSound`).
- the budget loop ends, because a pass takes the oldest entry or, once, its calls
  (`Measure` falls, `DropOldestLess`); so what comes out fits the budget or has no
  dialogue left, which is WithinBudget.

That a recursive function exists is `Recursion`, that a bounded loop gets anywhere
is `Climb`; both are proved from the well-foundedness of the naturals by the least
number at which they would fail.

**CronScheduler.** The runner writes from old copies with an UPDATE, which
brings no row back. `add_cron` writes in two halves; `AskedIsNew` says that a
call whose first half ran is about a job that never had a row. For what is run
again, `RunsOk` relates each copy of a row (the stored one, and the runner's, by
the list of the jobs that were due) to the turns the job has had since the last
crash or failed write: a copy is for a later occurrence, or it is the runner's own,
which it is about to correct. `ChatOk` says that no turn of an isolated job is
behind the bridge's cursor, the chat's settled tail, a turn of the chat or the node
a call in progress was made from. `ChatIsNoNode` assumes that the chat's session
key (`platform:chat`) is no node's id, under which an isolated job keys its session.

**MemoryGraph.** A call that holds the lock is a list of statements and may die
between any two, so the properties have to hold after every prefix of every list.

    MemoryInv == GraphInv /\ JobInv /\ CycleInv /\ Kept /\ IndexMirrorsStore
                          /\ Unborn /\ Turn

`JobInv` says what may still be on the list, in five shapes: statements that make
no name and no relation (`Quiet`), an entity being added, a name being changed,
one relation being linked after those it excludes are removed, and a merge. The
second to fourth carry what the call found when it took the lock (the name is
free, the relation has no edge), which nobody else can have changed since. A merge
says of each edge between the duplicate and a third entity that the canonical has
the like of it, at least as strong, or that a statement which gives it one is still
on the list (`Covered`), so that at the deletion it has. `CycleInv` says that an
operation of the deduplication cycle is about a pair of its group, and that no pair
of a group was settled when the cycle began; `Unborn` that an entity that never was
has no vector, `Turn` that a cycle which holds the lock is merging. The assumptions
on constants: the file of relations has finitely many lines, conflicts are
symmetric and never of a relation with itself, and the two marks for "no row" are
no rows.

**GatewayLanes.** A branch is of one database: either all its nodes are there or
none is (`Tree`), so a terminal that falls back to the root leaves nothing behind
that is still known. Where a message attaches is below the node it was sent with
(`SettledOk`), a run's head below its key (`RunsOk`), and the tail a stream tells
next below the one it told last (`TailsOk`); hence what a terminal was shown stays
on its branch. `EndsOk` says that a stream carries its end when its run is gone and
not before, which is why nobody waits in vain.

**DiscordBridge.** A session stands at nodes kept in several places: the cursor
store, the settled tails, the heads of its runs and the events of replies still
being read. `Holds(k, p)` says that p is one of them, `StepHolds` where a step
can take a new one from, and each property is proved over all of them at once.
`OwnContext` needs nothing more. ContextIsTheSessions, which also says that a
thread has of its channel only what came before its starter, holds under

    Kept == MaxPosts <= MaxMsgNodes /\ ~MayLoseDb

because a starter whose entry the cursor store has dropped sends the thread to
the channel's tail (`ForkPoint`), and a database that was replaced forgets which
nodes there were: without either half TLC finds the counterexample, and
`discord.cfg` has both. For resets, `ResetInv` says that wherever the session stands, and
on every node of it written since, nothing of its own lies before the cut. For
ShownIsRemembered, `ShownInv` says two things of each reply that was posted or is
still being read: once its run is gone, what the session continues from hangs
below it (`KeptOk`), unless another run overlapped that one; and as soon as its turn has read the final
event undisturbed, it is on the branch of the stored cursor and of every
final event that may still move that (`StoredOk`), which is what a restart leaves. Neither is
inductive without knowing which run, turn, queue and reply belong together
(`Links`) and that runs and readings that meet have seen each other
(`ReadingsOk`); `AliveOk` says that the database loses all or nothing. The
exemption of `crossed` is needed: RestartKeepsReplies without it fails (section 6).

**Librarian.** A flagged node's ancestors are flagged, so the walk upwards may
stop at the first flag and everything below it is new. The tree is the constant
`Branch`, each node's path from the root; `BranchesAreATree` says that the path of
a node on it is the part of it up to there, as following `parent_id` gives.

**ModelQueue.** `QueueInv == QueueTypes /\ HasFirsts(heap) /\ WorkIsNeverAsleep`.
A worker that leaves the condition takes the heap's first entry, so the heap
must have one. That is a fact of finite sets, which would need induction;
`HasFirsts` (every non-empty part has a first entry) says it in a form that each
step preserves, adding or removing one entry.
For the cache, `VectorInv` says that what is queued or with a worker was asked for
(`Held`), and of each call that it has for each of its texts the text's vector or
none (`Right`), and that what its future gives belongs to what it missed (`Fits`). The
loops over a call's texts are recursive functions; that they exist and keep the cache
in order is shown by the least index at which they would not (`FirstFailure`), because
induction itself takes an operator.

**RagIndex.** The hypothesis is

    Usual == Blank \notin Texts /\ ~CoarseTime /\ ~QuickMoves

as in the run; with any one of the three TLC finds a stale answer (sections 6 and 7).
An answer is taken from rows that other calls write, long after the scan of the
call itself, so AnswersAreFresh says too little to be kept by a step. `RagInv` adds
that what the cache holds under a file's modification time is that file
(`CachesAgree`), hence that a scan reads what the files say; that the calls in
progress are all about the newest registration, so that its lock lets one of them
embed (`OneAtWork`); that a caller has seen what the files say now (`Seen`); that a
scan has the rows of the files it is done with, and that what it has read is no
news to any caller who asks meanwhile (`ScanIsFresh`); and that such a caller would
be answered with what he has seen, by rows of the present model (`AskersAreFresh`).
The order in which files are embedded plays no part: `FirstOf` is any choice.

**SessionState.** `LossesAreToldOnce` speaks of prompts that are past; a step knows of
them what the state at the tail tells it. The invariant

    SessionInv == RowsInv(nodes) /\ cursor \in DOMAIN nodes /\ (type of turn) /\ Running

says for every row (`Noticed`) that the resident skills of its state are those of the
last prompt on its branch, the dropped ones those of the prompt before which the last
has not, and that the former were loaded on the branch. A row that is added sets no
key of the skills, so it has the state of its parent (`RowKeeps`, `StateDependsOn`); a
prompt is noted at the tail, where what is set is what is read (`StateIsTheRows`), and
no other branch has that row (`Running`): a passive message that comes meanwhile
attaches to the cursor, which is not the tail. Of the rows that set a key one is nearest
(`NearestIsOne`), by the least distance.

**UserStore.** The hypothesis is

    Alone == ~SelfMerge /\ ~ToolsOverlap /\ ~RequestsOverlap

because StoreAgrees fails in each of the three cases by itself (section 6): it is
what the passing run shows, for every set of users, identities and permissions.
`Agree(d, m, X)` says that what the caches m hold is what the tables d say, but for
the users named in X. A call that changes a user puts his name into X and takes it
out again when it has forgotten or reloaded him; one lemma for each helper of the
store follows it in that (`LoadIs`, `InvalidateIs`, `PopulateIs`, `RewriteIs`,
`RenamedIs`, `MergedIs`). The invariant

    StoreInv == TablesOk(kept) /\ MemOk(mem) /\ Tight(mem, job.obj, request) /\ Stage

joins to that, stage by stage of a tool (`Stage`), which users are in X, and how far
the tables of the open transaction are ahead of the committed ones (`Begun`: by the
index, no more). `TablesOk` says that the index names a user exactly for the
identities in his row. `Tight` says that every object alive is referred to, which by
counting leaves room for one more of any name (`TightIsRoomy`): hence the bound on
`Copies` in the assumptions. Of an action, `Survives` asks whose overrides it may
change. `NoneIsNoValue` says that "no object, no row" is neither.

**Permissions.** Direct, with the lemma `SparseIsFaithful`.

**Decisions.** `MCDecisions` has no steps, so its properties are proved of the state:
for every question of a kind, under hypotheses that say only what kind of value is
asked about (a sequence, an integer, a line with a number of characters). Each rests
on a theorem about the functions themselves, whatever their arguments. Where the code
loops, the model has a recursive function; `LoopExists` gives the function that the
definition chooses, from well-foundedness of the naturals, and `Climb` carries an
invariant of the loop from each round to the next. What has to be found is that
invariant: for a policy, that more rules let through whatever was let through where the
default is to deny, and refuse whatever was refused where it is to allow
(`MoreRulesDecideAsMuch`); for a command, that parsing it with
one more argument yields at least the same flags and operands (`CommandsGrow`), and
that every entry of a table is monotone in them (`EntriesAddUp`); for lore, that what
has been injected after k entries is what these entries' modes allow
(`KeyLoopInjects`, `FindLoopInjects`); for chunks, that those made and the rest put
together are the pieces read so far (`JoinedSoFar`); for skills, that a name that is
shown stands for the skill it is shown of (`NamesStand`). That what is found below a
directory is well defined takes as many rounds as the tree is deep (`BelowExists`).
`MoreNeedsNoLess` asks that the
subcommand is settled (`SubcommandIsSettled`), as the property does: a first operand
may choose a cheaper entry than the default.

Only model-checked: fairness and liveness, hence the rest of the refinement,
`DueJobsRun` and `EveryNodeIsVisited`, which with ENABLED are outside the prover's
reach. Of the questions of `MCDecisions`: `MemoriesAreShown`, `CallsComeThroughOnce` and
`RepliesArriveWhole`, whose functions (`RankFusion` among them) use folds, filters and
sorted sequences, of which the provers know nothing.
For `UserStore` with overlapping calls, and for `RagIndex` without `Usual`, the runs
of section 6 show what fails.

## 6. Disagreements between code and docs

TLC finds each by a violated property that states what a comment, doc or test
says. `librarian_manual` is a run of `PROJECT.json`: call_librarian's issue is
stored with flagger "manual", and the reviewer pops the queue, finds no module
of that name and drops the issue (`modules/memory/reviewer.py:106`).

To see one of the others, copy the configuration of the named run, apply the
changes in the third column, and replace its invariants and properties by the
one named, as `PROPERTY` where it is marked (P) and as `INVARIANT` otherwise. The
module is the run's; a dash means no change.

| Property | Run | Changes | Where | The code, and what is said of it |
|---|---|---|---|---|
| LastFinisherHasEverything | fork_faults | - | `agent.py:372` | The inbox is drained only at the top of the loop and once before finalizing (agent.py:238, 372), so a digest that arrives while the post-turn hooks run (agent.py:424-430), or during the last tool cycle, is never read: the last finisher completes without it and the trunk loses it. tests/test_concurrency.py:252-253 says of the last finisher "C must hold A's and B's digests"; modules/concurrency/__main__.py:105-107 says "Its completion digest reaches you automatically (via your inbox, or via the trunk if you finish first)". |
| NeverNeither | fork_faults | - | `runtime.py:566` | start_run() branches off the spawner's head, not the settled tail, and starts with an empty inbox: a peer's digest that sits undrained in the spawner's inbox at that moment is neither on the fork's branch nor delivered to it. runtime.py:585-587 says "a peer starting concurrently either observes the advanced tail or is visible to this fan-out — never neither", and runtime.py:555-557 says every start transition is serialised against the fan-out "exactly as push()'s is". |
| ResetSticks | fork_liveness | `SPECIFICATION Spec`, `MaxWorkers = 2` | `runtime.py:592` | /reset reseeds the settled tail but not the live runs: finish_run() and _abandon_run() of a run that was in flight set the settled tail back to a node of the old branch, so the next message continues the conversation that was reset. bridges/discord/commands.py:230-233 says the reseed is there because otherwise "the next push() would still attach past the old branch". |
| PassivesStay | fork_liveness | `SPECIFICATION Spec`, `MaxWorkers = 2` | `runtime.py:592` | finish_run() and _abandon_run() overwrite the settled tail with the run's own head, which branched off before a passive message was recorded: the message is no longer an ancestor of anything later. runtime.py:397-398 calls a passive message "plain linear continuation" and bridges/discord/bridge.py:315 says it is recorded in the conversation history. |
| CallsAnswered | prompt | `TrimAfter = 99`, `TruncateAfter = 99`, `Tokenade = 99`, `TokenLimit = 100` | `modules/ctx_tools/__main__.py:77` | The dedup filter drops the older result of a repeated call, but its transform returns the completion unchanged when no other call survives and its text is blank (the usual case), so the prompt holds a tool call without a result. CODEBASE.md:319 says dedup "suppresses repeated identical tool call+result"; tests/test_context.py:356 says of a pair that ages out "both must go together". |
| ResultsHaveCalls | prompt | `DedupAfter = 99`, `TrimAfter = 99`, `TokenLimit = 6`, `FooterSize = 0` | `context.py:855` | When the oldest entry is a completion with text and calls, the budget loop clears its calls and starts looking for their results at the completion itself (i = drop_idx, which was not popped), so it removes none of them: if the prompt now fits, tool results without a call are sent. tests/test_context.py:356: "When an assistant+tool_call pair ages out, both must go together." |
| ResultsHaveCalls | prompt | `DedupAfter = 99`, `TokenLimit = 100` | `modules/ctx_tools/__main__.py:163` | Past trim_after the hook removes the call from a completion that has text but keeps the tool entry as a stub, which then answers no call. CODEBASE.md:321 says the hook "replaces/truncates old tool-result turns"; tests/test_context.py:356 says an assistant+tool_call pair goes together. |
| ThinkingKept | prompt | `TokenLimit = 100` | `modules/ctx_tools/__main__.py:107` | The current cycle is recognised by the most recent user entry, but a drained digest or nudge (agent.py:454) and a queued follow-up (agent.py:358) are user entries written in the middle of a cycle: the cycle's own earlier reasoning is stripped. modules/ctx_tools/__main__.py:98-103 says every assistant entry at or before that user entry "is from a prior, finished cycle", and __init__.py says "keep <think> blocks belonging to the agentcycle that's still in progress". |
| NewestTurnSurvives | prompt | `TokenLimit = 5`, `FooterSize = 0` | `context.py:842` | Adjacent user entries (a channel's passive messages and the message that triggers the run) are merged into one entry before the budget loop, which then pops it whole: the model gets the system prompt and nothing else although the newest message alone would fit. README.md:107 says TinyCTX "trims the oldest non-system turns". |
| RemovedNeverRuns (P) | cron | `SPECIFICATION Spec` | `modules/cron/__main__.py:477` | The due jobs are run one after the other from the rows loaded at the start of the iteration, each turn taking up to minutes; a job that remove_cron deletes meanwhile (in a worker thread, answering "ok") is still run. modules/cron/__main__.py:946 says remove_cron will "Cancel a scheduled job — use when someone asks you to cancel a reminder". |
| RelativeNotRolledForward | cron | `SPECIFICATION Spec`, `Kind <- AllRelative` | `modules/cron/__main__.py:897` | add_cron computes the date from one reading of the clock (line 879) and the first run from a later one (line 897): for in_minutes=1, when the minute changes in between, the date is not after the second reading and croniter returns the same minute of next year. modules/cron/__main__.py:877 says the call "cannot land a minute in the past and get silently rolled forward". |
| OneShotsFireFirst | cron | `SPECIFICATION Spec`, `Kind <- AllOneShot`, `Isolated <- Neither`, `SelfScheduled <- Neither`, `Jobs <- OnlyB`, `MaxChanges = 2`, `MaxEvents = 2`, `Horizon = 5` | `modules/cron/__main__.py:547` | A one-shot job that is due while its creator lacks CRON_CREATE (or is missing) is rescheduled like a recurring one, and runs at a later occurrence once the permission is back; a relative reminder would come a year late. modules/cron/__main__.py:836 says a one_shot job "fires only the next occurrence then stops". |
| IsolatedStaysPrivate | cron | `SPECIFICATION Spec`, `Isolated <- Both`, `Kind <- AllRecurring`, `SelfScheduled <- Neither` | `modules/cron/__main__.py:645` | An isolated job is pushed without a session key, so its key is the node it starts from; all first turns start from the root, share that key, and the second one attaches to the settled tail the first one left. modules/cron/__main__.py:568 says the job "keeps its own private branch", runtime.py:406-407 that such a push is "its own one-off 'session'". |
| ResetStartsAfresh | cron | `SPECIFICATION Spec`, `Isolated <- OnlyA`, `Resetting <- OnlyA`, `SelfScheduled <- Neither`, `Jobs <- OnlyA`, `Horizon = 5` | `modules/cron/__main__.py:572` | reset_after_run names the root as the starting node, but push() attaches to the settled tail of the session keyed by the root, which is the job's previous turn. modules/cron/__main__.py:838 says it "wipes that private scratch conversation after each run". |
| JobsAnswerTheirChat | cron | `SPECIFICATION Spec`, `Isolated <- Neither`, `SelfScheduled <- Neither` | `runtime.py:706` | The state delta of a message is computed against the node the bridge names (its cursor, where the platform is already recorded) while the message is attached to the settled tail, a scheduled turn that recorded platform "cron": add_cron reads "cron" from the branch, and the new job's output has no renderer and is dropped. modules/cron/__main__.py:10 says output is "delivered back to the job's origin channel". |
| JobsAnswerTheirChat | cron | `SPECIFICATION Spec`, `Isolated <- Neither` | `modules/cron/__main__.py:752` | A turn of a "main" job is pushed with the chat's key, so add_cron called from it finds the key and the platform "cron" in the branch and stores a job nobody can be told the output of. modules/cron/__main__.py:753 says such a call "correctly fails closed". |
| ChatTurnsSeeTheChat (P) | cron | `SPECIFICATION Spec`, `Isolated <- Neither`, `MaxEvents = 2` | `modules/cron/__main__.py:583` | After a restart the runtime has no settled tail for the chat; if a job fires before anybody writes, push() seeds it with the root, and the chat goes on from there without its history (the bridge's cursor is ignored from then on). modules/cron/__main__.py:820 says "it'll see everything that's happened here since", bridges/discord/cursors.py:22 that a restart "doesn't lose conversation continuity". |
| EveryoneResolves | users_calls | `SelfMerge = TRUE` | `users/store.py:519` | merge_users(x, x) passes both checks, moves x's index entries to x and deletes x: the index names a user who is gone. users/store.py:398 says of such an entry "Index points to a deleted user — treat as new", but _create_user inserts an index entry that is still there, so the transaction is rolled back and resolve_user raises for every later message of that identity. |
| EveryoneResolves | users_calls | `ToolsOverlap = TRUE` | `users/store.py:533` | Tools run in worker threads on the connection the event loop uses: a commit there (any update_user or create) commits the first statement of the rename's transaction, and a crash before the second leaves the index naming nobody. modules/sysops/__main__.py:311 says user_rename "Updates both the users table and the platform index atomically". |
| ElevationReachesItsUser (P) | users_calls | `RequestsOverlap = TRUE` | `gateway/__main__.py:660` | The User object is looked up before the request body is awaited and written back after it: if the user was renamed meanwhile the UPDATE finds no row (or the row of a newer user with the old name) and the reply is still 200. gateway/__main__.py:636 says the endpoint will "Grant (or revoke) full admin access for a user". |
| MergedIntoSomething (P) | memory_dedup | - | `modules/memory/deduper.py:270` | The deduper reads both entities before it awaits the write lock and does not look again: if a tool deletes the canonical meanwhile, the statements on it match no row and the duplicate is deleted all the same. memory/PLAN.md:7 says maintenance "never silently destroys data". |
| CleanIsCurrent | memory_dedup | - | `modules/memory/deduper.py:61` | refresh_embeddings writes the hash of the text it read before the embedder's await over a row that was edited since, so the edit is never embedded. graph.py:154 says the hash is "used to detect staleness"; nothing compares it with the content. |
| CleanIsCurrent | memory_dedup | `MaxCrashes = 1`, `MaxCycles = 0` | `modules/memory/tools.py:422` | description and embed_content are changed statements before embed_hash is cleared; after a crash in between the row counts as embedded. memory/PLAN.md:122-123: "Changing any hashed field zeroes embed_hash, marking the row for re-embed". |
| NoGhosts | memory_dedup | - | `modules/memory/deduper.py:64` | The index is filled for an entity that was deleted while its text was embedded. memory/PLAN.md:313 says of deletion "Removes uuid from vector cache". |
| DistinctWasConfirmed (P) | memory_dedup | - | `modules/memory/deduper.py:265` | An LLMError only ends the stream; the group's pairs are then cached as distinct for good. deduper.py:14 says "Confirmed-distinct pairs are cached". |
| WarmIsClean (P) | memory_dedup | `MaxCrashes = 1`, `MaxCycles = 0` | `modules/memory/graph.py:375` | warm_index selects the rows with an embedding, stale ones included. memory/PLAN.md:137-138 says the cache "is rebuilt from rows whose embed_hash is non-empty". |
| ConflictsExclude | memory_tools | `Relations = {likes, dislikes}`, `Conflicts <- Opposites`, `MaxOps = 0` | `modules/memory/tools.py:653` | The merge re-points edges without the conflict groups. prompts/default_relations.txt:3 says of their members that they "are mutually exclusive within an ordered pair". |
| MergeKeepsAge (P) | memory_tools | `MaxOps = 0` | `modules/memory/graph.py:593` | _edges_from and _edges_to return no created_at, so _edge_merge_onto never sees the duplicate's. tools.py:186-187 says "keep the stronger weight and the earlier created_at". |
| NeverAskedAgain (P) | memory_dedup | `Entities = {e1, e2, e3, e4}`, `Names = {ann, bob, eve, dan}`, `Texts = {old, new, odd}`, `Alike <- AllButTwo`, `BatchCount = 3`, `MaxCalls = 0`, `MaxOps = 0`, `MaxCycles = 1` | `modules/memory/deduper.py:249` | A pair of one group put on record as distinct is asked about again in a later group of the same cycle that overlaps the first in it. deduper.py:14-15 says they are cached "so we never re-spend on them". |
| AbortStopsTheTurn | gateway | - | `gateway/__main__.py:383` | Abort events are kept by the run's root node, which push() creates and the client learns of only from the last frames of the stream; an abort with the node_id the message was posted to finds no event and still returns 204. gateway/__main__.py:14 says "DELETE /v1/lane/abort      Abort in-flight generation for a node_id." |
| StaleLanesAreSeparate | gateway | `DefaultToResume = FALSE`, `MayLoseDb = TRUE`, `MaxNodes = 6`, `MaxFaults = 1` | `gateway/__main__.py:178` | An unknown node_id becomes the root's id, hence the session key of every other caller with an unknown node_id: the second one's message attaches to the tail of the first one's conversation. gateway/__main__.py:170 says it will "fall back to root like /v1/lane/open does", and handle_lane_open creates a fresh branch for each caller. |
| RestartKeepsReplies (P) | discord | `TurnTimeout = FALSE` | `bridges/discord/turn.py:262` | The mirror is written by every push and every final event in the order the bridge sees them, the settled tail by finish_run() later; a passive message that comes between the final event and finish_run() attaches beside the reply and takes the mirror there. (With a turn timeout, a turn that gave up before the final event leaves the mirror before the reply, too.) bridges/discord/cursors.py:22 says it "keeps writing the latest known tail back here after each turn, so a bot restart doesn't lose conversation continuity." |
| SeedKeepsMessages (P) | discord | - | `bridges/discord/bridge.py:599` | _on_thread_create() looks for a cursor before it awaits the starter message and sets the cursor and the settled tail after it without looking again; a message of the thread handled meanwhile is left on a dead branch. bridges/discord/bridge.py:602 says seeding "avoids any window where the two disagree". |
| CommandsAreFollowed (P) | discord | - | `bridges/discord/commands.py:187` | Only the stored cursor moves past a command's nodes; push() attaches to Runtime._settled, which stays. bridges/discord/commands.py:184 says "so the next message attaches after them instead of orphaning them off the branch." |
| AnswersAreFresh | services | `CoarseTime = TRUE` | `modules/rag/databanks.py:118` | An entry is parsed again only when the file's mtime differs; a second change within the same tick of the clock is never seen, and the search answers with the older text. modules/rag/indexer.py:4 says the index is kept in sync with the files. |
| DiscoveryIsIdempotent | services | - | `modules/rag/__main__.py:209` | A lorebook without entries is converted into a folder that holds nothing; the first scan does not register it, the second finds the folder and does. modules/rag/__main__.py:209 says the scan is "Idempotent." |
| CommandsAreRecordedAsTyped | services | - | `utils/commands.py:175` | dispatch() keeps an unknown second word both as the subcommand and as the first argument of the bare command, and _record_command_introspection() writes both: /model big is recorded as "/model big big". utils/commands.py:231 says it will "write this command invocation + its reply as two real DB nodes". |
| IssuesCanBeReviewed | services | - | `modules/memory/flaggers/fuzzy_names.py:59` | A pair of two scopes is filed under "global", and the reviewer is given {issue.scope, global} (reviewer.py:178), so the entity of the other scope is invisible to every one of its tools. fuzzy_names.py:6 says "Cross-scope pairs are allowed; the Reviewer decides how to reconcile scope". |
| ExactNamesAreFound | services | - | `modules/memory/graph.py:472` | find_by_name() takes the first 25 entities whose names contain the text and only then filters by scope; _resolve() looks for the exact name among what is left and may not find it. Its docstring (tools.py:218) says "exact case-insensitive name in visible". |
| GuildMemoriesAreSeen | services | - | `modules/memory/__main__.py:474` | _cycle_env() looks for server_name at the top of context.state, where the session's state is under "session": no turn resolves a guild scope, though the extractor writes in it. scopes.py:76 says "Adds guild:<server> when the conversation is in a named server/space". |
| ArgumentsAreNoCall | services | - | `modules/output_parser/parser.py:69` | Each name is scanned in order and its innermost object is taken; the enclosing object then overlaps it and is skipped. parser.py:66 says "Find balanced {...} spans that contain a \"name\" key"; the model is told of a call it did not write. |
| AnswersStayTogether | services | - | `ai.py:298` | An answer with an image becomes an answer and a user message, in place: where several calls were made at once, the user message stands before the remaining answers. ai.py:284 says "Split it into a plain text tool result + a synthetic user turn with the image_url block". |
| LongRepliesArriveWhole | services | - | `bridges/discord/quote_reply.py:160` | The text before the last 8000 characters is dropped as soon as the rest holds a quote block. quote_reply.py:12 says "Text before the first quote block (if any) is sent as a single plain (non-reply) message". |
| RemindersReachTheModel | services | - | `modules/skills/__main__.py:730` | The footer clears skills_dropped while the prompt is assembled. If that completion is empty and the prompt is assembled again, or it fails, the model never answers a prompt with the reminder. modules/skills/__main__.py:365-366 says "a footer prompt surfaces the reminder once on the NEXT turn, then clears it". |
| EverythingShownLoads | services | - | `modules/skills/__main__.py:549` | use_skill() looks for a category first, so a skill whose name is a category's path is listed and cannot be loaded. modules/skills/__main__.py:544 says of the argument "Skill name or category path as shown in <available_skills>". |
| EverySkillIsFound | services | - | `modules/skills/__main__.py:181` | A category path that is already known is skipped with all that is below it, so skills of names of their own in a later directory's category are never found. modules/skills/__main__.py:13 says "first-found wins for duplicate names". |

Three more definitions state things one could hope for but which no text of the
repository promises; TLC refutes them in the same way: `NothingIsSkipped` (a
branch is flagged whole although an extractor reads only a batch of it) under
`librarian.cfg` with `BatchSize = 1`, `IssuesAreNotShared` (two reviewers whose
cycles overlap hold the same issue) under `librarian.cfg` with `MaxEvents = 2` and
`SlotsServeSomebody` (a stream whose reader left keeps its worker) under
`services.cfg` with `Parallel = 1`.

## 7. What is not modelled

Of modelled components:

- `Runtime.shutdown`: runs that wait for a slot are cancelled before their `try`
  block and get no sentinel, but the process that would read it is ending too;
  attachments; the fallback chain of models; label prefixes, sanitizing and tags
  of entries; editing and deleting of entries, which nothing in a turn calls.
- `list_cron` and the question who may remove whose job; `meta` and creation
  times of users; errors of the user database.
- In `MemoryGraph` one scope, in which every entity is visible: moving an entity
  to a scope without looking for its name there is not covered; pins, mentions,
  types and the rebuild after a lost write-ahead log are left out. Scopes and
  pins are in `MemoryView`.
- Of `ai.py`: the wire format; connection timeouts; the retry decorator, which
  never retries, because an async generator raises after the decorated call
  returned.
- Of RAG: scores and decay, migrations of its tables; a file that becomes blank,
  whose old rows stay in the index and go on being found (the model has the case:
  with `Blank` among `Texts`, AnswersAreFresh is violated); two databanks whose folders
  have one name; two embedding models of different widths in one table.
- Of the shell: the grammar and the shipped tables and policies (data), and what
  runs a command.
- `write_checkpoint_if_needed()`, which has no caller.

Whole components: Telegram's poll offset (advanced before an update is handled)
and its cursors, a smaller form of what `DiscordBridge` models; start-up and
shutdown, configuration, module loading (wiring, and parsing into values that
are the CONSTANTS here); filesystem, web, MCP, ComfyUI and present tools (each an
effect on a file, a browser or a server that is not in the repository);
attachments, onboarding, operator commands and maintenance scripts. Numbers
(cosine, token estimates beyond sizes) and layout are left out everywhere.
`PROJECT.json` gives the reason for each under `components`.

## 8. Plan

1. The questions of `MCDecisions` that are only model-checked, with recursive
   functions in place of their folds, as `ShellPolicy` and `SkillIndex` have them now, so
   that they can be proved too.
2. Telegram's offset and cursors beside `DiscordBridge`; shutdown of the runtime
   together with the bridges' readers; the tools that keep state of their own
   between calls (web sessions, read marks of files).
