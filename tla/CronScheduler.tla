---------------------------- MODULE CronScheduler ----------------------------
(***************************************************************************)
(* Scheduled turns: TinyCTX/modules/cron (CronStore, _CronRunner, the      *)
(* add_cron and remove_cron tools) with the part of Runtime.push() that    *)
(* decides what a job's turn attaches to.                                  *)
(*                                                                         *)
(* The runner is one task: it polls the store, runs the due jobs one after *)
(* the other and sleeps.  It is suspended in four places: asleep ("wait"), *)
(* before each due job ("next": the tools run in threads, in parallel with *)
(* the loop), while the job's turn runs ("turn"), and while a thread       *)
(* writes the job back ("save", or "resave" after an exception).           *)
(*                                                                         *)
(* All jobs belong to one chat and one creator.  A node is its path: the   *)
(* sequence of the entries from the root, one entry per message or turn,   *)
(* each with the platform its state_delta records, or Same.                *)
(***************************************************************************)
EXTENDS Integers, Sequences, FiniteSets, SequencesExt

CONSTANTS
  Jobs,             \* identities of jobs, each created at most once
  Kind,             \* job -> "relative" (in_minutes), "oneshot" or "recurring"
  Isolated,         \* jobs with run_in = "isolated"
  Resetting,        \* jobs with reset_after_run
  SelfScheduled,    \* jobs added by a turn of another job
  Period,           \* ticks between two occurrences of a calendar schedule
  Minute,           \* ticks of a minute; a relative job asks for one minute
  Poll,             \* _poll_seconds, in ticks
  Chat,             \* the session key of the chat, which is no node
  MaxMessages,      \* bound: messages of the chat that create no job
  MaxChanges,       \* bound: changes of the creator's account
  MaxCrashes,       \* bound: crashes of the process
  MaxFaults,        \* bound: database calls that raise
  MaxEvents,        \* bound: all of these together, but a second fault in a row
  Horizon           \* bound: the last tick of the clock

ASSUME ConstantsAssumption ==
  /\ Kind \in [Jobs -> {"relative", "oneshot", "recurring"}]
  /\ Isolated \union SelfScheduled \subseteq Jobs
  /\ Resetting \subseteq Isolated
  /\ {Period, Minute, Poll} \subseteq Nat \ {0}
  /\ {MaxMessages, MaxChanges, MaxCrashes, MaxFaults, MaxEvents, Horizon} \subseteq Nat

VARIABLES
  clock,      \* the server's clock
  store,      \* the rows of cron_jobs, by job
  created,    \* jobs ever stored, in the order of created_at_ms
  asking,     \* the add_cron call in progress, or None
  jobs,       \* _jobs: the rows as last loaded
  due,        \* the due jobs of this iteration still to run, by position in created
  pc,         \* where the runner is suspended
  deadline,   \* when its sleep ends
  wake,       \* _wake
  turns,      \* the turns of jobs, in the order they were pushed
  settled,    \* Runtime._settled: session key -> node
  cursor,     \* the bridge's persisted cursor of the chat
  creator,    \* the creator's account: "permitted", "revoked" or "missing"
  messages, changes, crashes, faults    \* counters of the bounds

runner == <<jobs, due, pc, deadline>>
chat == <<settled, cursor, messages>>
limits == <<creator, changes, crashes, faults>>
Room == messages + changes + crashes + faults < MaxEvents
vars == <<clock, store, created, asking, runner, wake, turns, chat, limits>>

None == [job |-> "none"]
NextYear == Horizon + 1       \* the date of a relative job comes round again

-----------------------------------------------------------------------------
(* Schedules.                                                              *)

(* _compute_next_run(): the first occurrence after t.  A relative job's    *)
(* expression names one minute of one day.                                 *)
NextRun(j, at, t) ==
  IF Kind[j] = "relative" THEN IF at > t THEN at ELSE NextYear
                          ELSE (t \div Period + 1) * Period

OneShot(j) == Kind[j] # "recurring"

(* Mutant: no ceiling on the sleep.                                        *)
SleepUntilNext(rows, now) ==
  LET times == {rows[j].next : j \in {i \in DOMAIN rows : rows[i].enabled}}
  IN  IF times = {} THEN now + Poll
      ELSE CHOOSE t \in times : \A u \in times : t <= u

(* _next_wake_ms() and the poll ceiling.                                   *)
SleepUntil(rows, now) ==
  LET times == {rows[j].next : j \in {i \in DOMAIN rows : rows[i].enabled}}
      soon == {t \in times : t <= now + Poll}
  IN  IF \E t \in soon : t <= now THEN now
      ELSE IF soon = {} THEN now + Poll
      ELSE CHOOSE t \in soon : \A u \in soon : t <= u

Due(rows, now) ==
  {n \in DOMAIN created : /\ created[n] \in DOMAIN rows /\ rows[created[n]].enabled
                          /\ now >= rows[created[n]].next}

(* The job the loop is at: rows are loaded ORDER BY created_at_ms.         *)
First == CHOOSE n \in due : \A m \in due : n <= m
Current == created[First]

(* Mutant: a failed one-shot job stays enabled.                            *)
HousekeptEnabled(j, now) ==
  [jobs EXCEPT ![j].next = IF OneShot(j) THEN @ ELSE NextRun(j, jobs[j].at, now)]

(* Mutant: the next occurrence is counted from the one that just ran.      *)
HousekeptFromOccurrence(j, now) ==
  [jobs EXCEPT ![j].enabled = @ /\ ~OneShot(j),
               ![j].next = IF OneShot(j) THEN @ ELSE NextRun(j, jobs[j].at, @)]

(* What happens to a job that ran, or raised.                              *)
Housekept(j, now) ==
  [jobs EXCEPT ![j].enabled = @ /\ ~OneShot(j),
               ![j].next = IF OneShot(j) THEN @ ELSE NextRun(j, jobs[j].at, now)]

-----------------------------------------------------------------------------
(* The conversation tree.                                                  *)

Same == "same"
Entry == [from : {"message", "request", "job"}, id : Jobs \union Nat,
          platform : {Same, "discord", "cron"}]
Root == <<>>

ASSUME ChatIsNoNode == Chat \notin Seq(Entry)

PlatformOf(node) ==
  LET told == SelectSeq(node, LAMBDA e : e.platform # Same)
  IN  IF told = <<>> THEN "none" ELSE Last(told).platform

(* _compute_state_delta(): relative to the node the caller named, which    *)
(* need not be the one the message is attached to.                         *)
Delta(seed, platform) == IF PlatformOf(seed) = platform THEN Same ELSE platform

Attach(key, seed) == IF key \in DOMAIN settled THEN settled[key] ELSE seed
Settle(key, node) == [k \in DOMAIN settled \union {key} |->
                        IF k = key THEN node ELSE settled[k]]

(* A message of the chat that triggers no turn (_push_passive).            *)
Message ==
  /\ pc # "off"
  /\ messages < MaxMessages /\ Room
  /\ messages' = messages + 1
  /\ cursor' = Append(Attach(Chat, cursor),
                      [from |-> "message", id |-> messages,
                       platform |-> Delta(cursor, "discord")])
  /\ settled' = Settle(Chat, cursor')
  /\ UNCHANGED <<clock, store, created, asking, runner, wake, turns, limits>>

-----------------------------------------------------------------------------
(* The tools, which run in threads.                                        *)

NotAdded(j) == j \notin Range(created)
InAMinute == ((clock + Minute) \div Minute) * Minute

(* A turn of the chat calls add_cron, which finds the platform of the chat *)
(* in the state of the turn's node (_current_channel; without one the call *)
(* fails and the turn is a message like any other), and reads the clock to *)
(* turn "in one minute" into a date ...                                    *)
Ask(j) ==
  LET node == Append(Attach(Chat, cursor),
                     [from |-> "request", id |-> j,
                      platform |-> Delta(cursor, "discord")])
  IN /\ pc # "off" /\ asking = None
     /\ NotAdded(j) /\ j \notin SelfScheduled
     /\ PlatformOf(node) # "none"
     /\ asking' = [job |-> j, node |-> node, at |-> InAMinute, live |-> TRUE]
     /\ settled' = Settle(Chat, Attach(Chat, cursor))
     /\ cursor' = node
     /\ UNCHANGED <<clock, store, created, runner, wake, turns, messages, limits>>

(* ... or a turn of a job does, if its branch knows the chat's key.        *)
AskAgain(n, j) ==
  /\ asking = None
  /\ NotAdded(j) /\ j \in SelfScheduled
  /\ n \in DOMAIN turns /\ turns[n].state = "running" /\ turns[n].key = Chat
  /\ asking' = [job |-> j, node |-> turns[n].node, at |-> InAMinute, live |-> FALSE]
  /\ UNCHANGED <<clock, store, created, runner, wake, turns, chat, limits>>

(* ... then reads it again for the first run, stores the job and wakes the *)
(* runner.  The turn of a message ends here.                               *)
Add ==
  /\ asking # None
  /\ LET j == asking.job
         next == NextRun(j, asking.at, clock)
     IN /\ store' = [i \in DOMAIN store \union {j} |->
             IF i = j THEN [enabled |-> TRUE, next |-> next, first |-> next,
                            at |-> asking.at, node |-> Root,
                            platform |-> PlatformOf(asking.node)]
             ELSE store[i]]
        /\ created' = Append(created, j)
  /\ settled' = IF asking.live THEN Settle(Chat, asking.node) ELSE settled
  /\ asking' = None
  /\ wake' = TRUE
  /\ UNCHANGED <<clock, runner, turns, cursor, messages, limits>>

Without(j) == [i \in DOMAIN store \ {j} |-> store[i]]

(* remove_cron by the creator, or a holder of CRON_ADMIN.                  *)
Cancel(j) ==
  /\ pc # "off" /\ j \in DOMAIN store
  /\ store' = Without(j)
  /\ wake' = TRUE
  /\ UNCHANGED <<clock, created, asking, runner, turns, chat, limits>>

-----------------------------------------------------------------------------
(* The runner.                                                             *)

(* start(): the first iteration follows at once.  Every job has its first  *)
(* run since it was created, so _recompute_next_runs() finds nothing.      *)
Start ==
  /\ pc = "off"
  /\ pc' = "wait"
  /\ deadline' = clock
  /\ wake' = FALSE
  /\ jobs' = store
  /\ UNCHANGED <<clock, store, created, asking, due, turns, chat, limits>>

(* Mutant: only a wakeup ends the sleep.                                   *)
IterateWhenWoken ==
  /\ pc = "wait"
  /\ wake
  /\ wake' = FALSE
  /\ jobs' = store
  /\ due' = Due(store, clock)
  /\ pc' = "next"
  /\ UNCHANGED <<clock, store, created, asking, deadline, turns, chat, limits>>

(* The sleep ends; the next iteration loads the rows and sees what is due. *)
Iterate ==
  /\ pc = "wait"
  /\ wake \/ clock >= deadline
  /\ wake' = FALSE
  /\ jobs' = store
  /\ due' = Due(store, clock)
  /\ pc' = "next"
  /\ UNCHANGED <<clock, store, created, asking, deadline, turns, chat, limits>>

(* No due job is left: sleep.                                              *)
Sleep ==
  /\ pc = "next" /\ due = {}
  /\ deadline' = SleepUntil(jobs, clock)
  /\ pc' = "wait"
  /\ UNCHANGED <<clock, store, created, asking, jobs, due, wake, turns, chat, limits>>

(* The creator is gone or lost CRON_CREATE: the occurrence is skipped,     *)
(* and a one-shot job moves to its next one.                               *)
Skip ==
  /\ pc = "next" /\ due # {}
  /\ creator # "permitted"
  /\ LET j == Current IN
     jobs' = [jobs EXCEPT ![j].next = NextRun(j, jobs[j].at, clock)]
  /\ pc' = "save"
  /\ UNCHANGED <<clock, store, created, asking, due, deadline, wake, turns, chat, limits>>

(* Mutant: every job is pushed with the key of its chat.                   *)
KeyOfChat(j) == Chat

(* The session a job's turn belongs to: the chat, or the node it starts    *)
(* from, which is a new session as far as the runtime can tell.            *)
Seed(j) == IF j \in Isolated \ Resetting THEN jobs[j].node ELSE Root
Key(j) == IF j \in Isolated THEN Seed(j) ELSE Chat

(* push() of a job's turn.  The settled tail stays until the turn ends.    *)
Fire ==
  /\ pc = "next" /\ due # {}
  /\ creator = "permitted"
  /\ LET j == Current
         at == Attach(Key(j), Seed(j))
     IN /\ settled' = Settle(Key(j), at)
        /\ turns' = Append(turns,
             [job |-> j, key |-> Key(j), due |-> jobs[j].next,
              first |-> jobs[j].first, began |-> clock, losses |-> crashes + faults,
              node |-> Append(at, [from |-> "job", id |-> Len(turns) + 1,
                                   platform |-> Delta(Seed(j), "cron")]),
              state |-> "running"])
  /\ pc' = "turn"
  /\ UNCHANGED <<clock, store, created, asking, jobs, due, deadline, wake,
                 cursor, messages, limits>>

(* The turn ends, with an answer or with an error: finish_run() or         *)
(* _abandon_run() moves its session to it (see ForkRuntime).               *)
TurnEnds(n, outcome) ==
  /\ turns[n].state = "running"
  /\ turns' = [turns EXCEPT ![n].state = outcome]
  /\ settled' = Settle(turns[n].key, turns[n].node)
  /\ UNCHANGED <<clock, store, created, asking, runner, wake, cursor,
                 messages, limits>>

(* The turn's sentinel is in the reply queue, or 300 s pass without an     *)
(* event: that wait is not counted in ticks and may end at any time.       *)
Drain ==
  LET turn == Last(turns)
      j == turn.job
      kept == Housekept(j, clock)
  IN /\ pc = "turn"
     /\ jobs' = IF turn.state = "done" /\ j \in Isolated
                THEN [kept EXCEPT ![j].node = turn.node]
                ELSE kept
     /\ pc' = "save"
     /\ UNCHANGED <<clock, store, created, asking, due, deadline, wake, turns,
                    chat, limits>>

(* Mutant: the row is written whether or not it is still there.            *)
UpsertRow(j) ==
  IF OneShot(j) /\ ~jobs[j].enabled
  THEN store' = Without(j)
  ELSE store' = [i \in DOMAIN store \union {j} |-> IF i = j THEN jobs[j] ELSE store[i]]

(* save_state() is an UPDATE; delete_after_run is set on one-shot jobs.    *)
WriteRow(j) ==
  IF OneShot(j) /\ ~jobs[j].enabled
  THEN store' = Without(j)
  ELSE store' = IF j \in DOMAIN store THEN [store EXCEPT ![j] = jobs[j]] ELSE store

Save ==
  /\ pc = "save"
  /\ WriteRow(Current)
  /\ due' = due \ {First}
  /\ pc' = "next"
  /\ UNCHANGED <<clock, created, asking, jobs, deadline, wake, turns, chat, limits>>

Fault ==
  /\ faults < MaxFaults /\ (Room \/ pc = "resave")
  /\ faults' = faults + 1
  /\ UNCHANGED <<clock, store, created, asking, wake, turns, chat, creator,
                 changes, crashes>>

(* The lookups before the turn, or the write after it, raise: the loop     *)
(* tidies up the job itself.                                               *)
JobRaises ==
  /\ pc \in {"next", "save"} /\ due # {}
  /\ Fault
  /\ jobs' = Housekept(Current, clock)
  /\ pc' = "resave"
  /\ UNCHANGED <<due, deadline>>

(* It disables a one-shot job without deleting it.                         *)
Resave ==
  /\ pc = "resave"
  /\ LET j == Current IN
     store' = IF j \in DOMAIN store THEN [store EXCEPT ![j] = jobs[j]] ELSE store
  /\ due' = due \ {First}
  /\ pc' = "next"
  /\ UNCHANGED <<clock, created, asking, jobs, deadline, wake, turns, chat, limits>>

(* That write raises too: the iteration is over.                           *)
IterationFails ==
  /\ pc = "resave"
  /\ Fault
  /\ due' = {}
  /\ deadline' = clock + Poll
  /\ pc' = "wait"
  /\ UNCHANGED jobs

-----------------------------------------------------------------------------
(* The environment.                                                        *)

Tick ==
  /\ clock < Horizon
  /\ clock' = clock + 1
  /\ UNCHANGED <<store, created, asking, runner, wake, turns, chat, limits>>

(* An administrator changes the creator's groups, or deletes the account.  *)
ChangeCreator(standing) ==
  /\ changes < MaxChanges /\ Room
  /\ creator # standing
  /\ creator' = standing
  /\ changes' = changes + 1
  /\ UNCHANGED <<clock, store, created, asking, runner, wake, turns, chat,
                 crashes, faults>>

(* The process dies: memory is lost, the store and the cursor are kept.    *)
Crash ==
  /\ pc # "off"
  /\ crashes < MaxCrashes /\ Room
  /\ crashes' = crashes + 1
  /\ pc' = "off"
  /\ jobs' = <<>> /\ due' = {} /\ deadline' = 0
  /\ wake' = FALSE /\ asking' = None
  /\ settled' = <<>>
  /\ turns' = [n \in DOMAIN turns |->
                 [turns[n] EXCEPT !.state = IF @ = "running" THEN "lost" ELSE @]]
  /\ UNCHANGED <<clock, store, created, cursor, messages, creator, changes, faults>>

Init ==
  /\ clock = 0
  /\ store = <<>> /\ created = <<>> /\ asking = None
  /\ jobs = <<>> /\ due = {} /\ pc = "off" /\ deadline = 0 /\ wake = FALSE
  /\ turns = <<>>
  /\ settled = <<>> /\ cursor = Root
  /\ creator = "permitted"
  /\ messages = 0 /\ changes = 0 /\ crashes = 0 /\ faults = 0

Runner == Start \/ Iterate \/ Sleep \/ Skip \/ Fire \/ Drain \/ Save
          \/ JobRaises \/ Resave \/ IterationFails

Next ==
  \/ Message
  \/ \E j \in Jobs : Ask(j)
  \/ \E j \in Jobs, n \in DOMAIN turns : AskAgain(n, j)
  \/ Add
  \/ \E j \in Jobs : Cancel(j)
  \/ Runner
  \/ \E n \in DOMAIN turns, outcome \in {"done", "failed"} : TurnEnds(n, outcome)
  \/ Tick
  \/ \E standing \in {"permitted", "revoked", "missing"} : ChangeCreator(standing)
  \/ Crash

Spec == Init /\ [][Next]_vars

(* The runner's task keeps being scheduled, a turn's wait is bounded by    *)
(* its timeout, and time passes.                                           *)
FairSpec == Spec /\ WF_vars(Runner) /\ WF_vars(Tick)

-----------------------------------------------------------------------------
(* Correctness.                                                            *)

Rows == [enabled : BOOLEAN, next : 0..(Horizon + Period + Minute),
         first : 0..(Horizon + Period + Minute), at : 0..(Horizon + Minute),
         node : Seq(Entry), platform : {"discord", "cron"}]
Turn == [job : Jobs, key : {Chat} \union Seq(Entry),
         due : 0..Horizon, first : 0..(Horizon + Period + Minute),
         began : 0..Horizon, losses : 0..(MaxCrashes + MaxFaults),
         node : Seq(Entry), state : {"running", "done", "failed", "lost"}]

(* The types; the runner's rows cover the jobs it is about to run, it      *)
(* waits only for the turn it pushed last, and no sleep outlasts the poll. *)
TypeOK ==
  /\ clock \in 0..Horizon
  /\ DOMAIN store \subseteq Jobs /\ \A j \in DOMAIN store : store[j] \in Rows
  /\ DOMAIN jobs \subseteq Jobs /\ \A j \in DOMAIN jobs : jobs[j] \in Rows
  /\ Range(created) \subseteq Jobs /\ IsInjective(created)
  /\ due \subseteq DOMAIN created /\ {created[n] : n \in due} \subseteq DOMAIN jobs
  /\ pc \in {"off", "wait", "next", "turn", "save", "resave"}
  /\ pc \in {"turn", "save", "resave"} => due # {}
  /\ pc = "turn" => turns # <<>> /\ Last(turns).job = Current
  /\ deadline \in 0..(clock + Poll)
  /\ wake \in BOOLEAN
  /\ \A n \in DOMAIN turns : turns[n] \in Turn
  /\ \A key \in DOMAIN settled : settled[key] \in Seq(Entry)
  /\ cursor \in Seq(Entry)
  /\ creator \in {"permitted", "revoked", "missing"}

(* An occurrence runs at most once, and occurrences missed while the       *)
(* runner was busy or down are not made up for one by one: unless a crash  *)
(* or a failed write came between, a job's next turn is for an occurrence  *)
(* after the start of its last one (housekeeping in _run_job).             *)
OncePerOccurrence ==
  \A m, n \in DOMAIN turns :
    (m < n /\ turns[m].job = turns[n].job /\ turns[m].losses = turns[n].losses)
      => turns[n].due > turns[m].began

(* A one-shot job is run again only when a crash or a failed write came    *)
(* between its turn and its removal, whatever way the turn ended.          *)
OneShotsFireOnce ==
  \A m, n \in DOMAIN turns :
    (m < n /\ turns[m].job = turns[n].job /\ OneShot(turns[m].job))
      => turns[m].losses < turns[n].losses

(* What has run is not run again, of a calendar or of a single date.       *)
RunsAreNotRepeated == OncePerOccurrence /\ OneShotsFireOnce

(* A job that was removed stays removed, whatever the runner, which holds  *)
(* an old copy of its row, still writes (save_state is an UPDATE).         *)
RemovedStaysRemoved ==
  [][\A j \in Range(created) : j \notin DOMAIN store => j \notin DOMAIN store']_vars

(* "isolated" jobs never touch the channel's live history: none of their   *)
(* turns is on the branch the chat's messages attach to, or its cursor's.  *)
ChatSeesNoIsolatedTurn ==
  LET channel == cursor \o Attach(Chat, Root)
  IN  \A i \in DOMAIN channel :
        channel[i].from = "job" => turns[channel[i].id].job \notin Isolated

(* Polling makes a job late, never vanish: an enabled job whose time has   *)
(* come is run, skipped, put off by an error or removed (within Horizon:   *)
(* the runner may sleep past it).                                          *)
Overdue(j) == j \in DOMAIN store /\ store[j].enabled /\ clock >= store[j].next
DueJobsRun == \A j \in Jobs : Overdue(j) ~> (~Overdue(j) \/ (pc = "wait" /\ deadline > Horizon))

-----------------------------------------------------------------------------
(* What docs and comments say of the scheduler.                            *)

(* "Cancel a scheduled job" (remove_cron): a job that was removed, also    *)
(* while the runner was busy with another one, is not run any more.        *)
RemovedNeverRuns ==
  [][Len(turns') > Len(turns) => Last(turns').job \in DOMAIN store]_vars

(* "So it cannot land a minute in the past" (add_cron): a relative job is  *)
(* stored with the minute that was asked for.                              *)
RelativeNotRolledForward ==
  \A j \in DOMAIN store : Kind[j] = "relative" => store[j].first = store[j].at

(* "Fires only its next occurrence and then stops" (add_cron): a one-shot  *)
(* job only ever runs for the occurrence it was created for.               *)
OneShotsFireFirst ==
  \A n \in DOMAIN turns : OneShot(turns[n].job) => turns[n].due = turns[n].first

(* "A private scratch conversation" (add_cron): the branch an isolated job *)
(* runs on holds turns of that job only.                                   *)
IsolatedStaysPrivate ==
  \A n \in DOMAIN turns : turns[n].job \in Isolated =>
    \A i \in DOMAIN turns[n].node :
      /\ turns[n].node[i].from = "job"
      /\ turns[turns[n].node[i].id].job = turns[n].job

(* "Wipes that private scratch conversation after each run" (add_cron): a  *)
(* job with reset_after_run starts from the root every time.               *)
ResetStartsAfresh ==
  \A n \in DOMAIN turns : turns[n].job \in Resetting => Len(turns[n].node) = 1

(* "Delivered back to the job's origin channel": a job is stored with the  *)
(* platform of the chat it was added in.                                   *)
JobsAnswerTheirChat == \A j \in DOMAIN store : store[j].platform = "discord"

(* "It'll see everything that's happened here since" (add_cron): a turn in *)
(* the chat's own conversation starts from everything the bridge's cursor  *)
(* has, also after a restart.                                              *)
ChatTurnsSeeTheChat ==
  [][(Len(turns') > Len(turns) /\ Last(turns').key = Chat)
       => Range(cursor) \subseteq Range(Last(turns').node)]_vars
=============================================================================
