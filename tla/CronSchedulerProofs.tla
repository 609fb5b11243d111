------------------------ MODULE CronSchedulerProofs ------------------------
(***************************************************************************)
(* What the scheduler keeps, for any set of jobs, schedules, lengths of a  *)
(* sleep and faults: a removed job is not brought back, what has run is    *)
(* not run again, and the chat does not see the turns of isolated jobs.    *)
(*                                                                         *)
(* The runner acts on copies: the rows as it loaded them, the list of the  *)
(* jobs that were due then.  RunsOk relates each copy of a job's row to    *)
(* the turns the job has had since the last crash or failed write: it is   *)
(* for a later occurrence, or it is the runner's own, which it is about to *)
(* correct.                                                                *)
(***************************************************************************)
EXTENDS CronScheduler, WellFoundedInduction, SequenceTheorems, TLAPS

-----------------------------------------------------------------------------
(* Rows are not brought back.                                              *)

(* A call in progress is about a job that is not stored yet.               *)
AskedIsNew == asking # None => asking.job \notin Range(created)

LEMMA InitAsked == Init => AskedIsNew
BY DEF Init, AskedIsNew

(* Only add_cron stores a job or ends such a call, and only its first half *)
(* begins one.                                                             *)
LEMMA StepAsked == AskedIsNew /\ [Next]_vars => AskedIsNew'
<1> SUFFICES ASSUME AskedIsNew, [Next]_vars PROVE AskedIsNew'
  OBVIOUS
<1> USE DEF AskedIsNew
<1>1. ASSUME NEW j \in Jobs, Ask(j) PROVE AskedIsNew'
  BY <1>1 DEF Ask, NotAdded
<1>2. ASSUME NEW j \in Jobs, NEW n, AskAgain(n, j) PROVE AskedIsNew'
  BY <1>2 DEF AskAgain, NotAdded
<1>3. CASE Add
  BY <1>3 DEF Add
<1>4. CASE Crash
  BY <1>4 DEF Crash
<1>5. CASE UNCHANGED <<asking, created>>
  BY <1>5
<1>6. CASE Runner
  BY <1>5, <1>6 DEF Runner, Start, Iterate, Sleep, Skip, Fire, Drain, Save, JobRaises,
                    Resave, IterationFails, Fault
<1>7. CASE Message \/ Tick \/ \E j \in Jobs : Cancel(j)
  BY <1>5, <1>7 DEF Message, Tick, Cancel
<1>8. ASSUME NEW n, NEW outcome, TurnEnds(n, outcome) PROVE AskedIsNew'
  BY <1>5, <1>8 DEF TurnEnds
<1>9. ASSUME NEW standing, ChangeCreator(standing) PROVE AskedIsNew'
  BY <1>5, <1>9 DEF ChangeCreator
<1>10. CASE UNCHANGED vars
  BY <1>5, <1>10 DEF vars
<1> QED
  BY <1>1, <1>2, <1>3, <1>4, <1>6, <1>7, <1>8, <1>9, <1>10 DEF Next

(* No step but add_cron's second half gives a row to a job without one.    *)
LEMMA StepKeepsRemoved ==
  ASSUME AskedIsNew, [Next]_vars
  PROVE  \A j \in Range(created) : j \notin DOMAIN store => j \notin DOMAIN store'
<1> DEFINE Kept == \A j \in Range(created) : j \notin DOMAIN store => j \notin DOMAIN store'
<1>1. CASE DOMAIN store' \subseteq DOMAIN store
  BY <1>1
<1>2. CASE Add
  <2>1. DOMAIN store' = DOMAIN store \union {asking.job}
    BY <1>2 DEF Add
  <2>2. asking.job \notin Range(created)
    BY <1>2 DEF Add, AskedIsNew
  <2> QED
    BY <2>1, <2>2
<1>3. CASE Save
  <2>1. WriteRow(Current)
    BY <1>3 DEF Save
  <2> QED
    BY <1>1, <2>1 DEF WriteRow, Without
<1>4. CASE Resave
  BY <1>1, <1>4 DEF Resave
<1>5. CASE \E j \in Jobs : Cancel(j)
  BY <1>1, <1>5 DEF Cancel, Without
<1>6. CASE store' = store
  BY <1>6
<1>7. CASE Start \/ Iterate \/ Sleep \/ Skip \/ Fire \/ Drain \/ JobRaises \/ IterationFails
  BY <1>6, <1>7 DEF Start, Iterate, Sleep, Skip, Fire, Drain, JobRaises, IterationFails, Fault
<1>8. CASE Message \/ Tick \/ Crash \/ \E j \in Jobs : Ask(j)
  BY <1>6, <1>8 DEF Message, Tick, Crash, Ask
<1>9. ASSUME NEW j \in Jobs, NEW n, AskAgain(n, j) PROVE Kept
  BY <1>6, <1>9 DEF AskAgain
<1>10. ASSUME NEW n, NEW outcome, TurnEnds(n, outcome) PROVE Kept
  BY <1>6, <1>10 DEF TurnEnds
<1>11. ASSUME NEW standing, ChangeCreator(standing) PROVE Kept
  BY <1>6, <1>11 DEF ChangeCreator
<1>12. CASE UNCHANGED vars
  BY <1>6, <1>12 DEF vars
<1> QED
  BY <1>2, <1>3, <1>4, <1>5, <1>7, <1>8, <1>9, <1>10, <1>11, <1>12 DEF Next, Runner

(* A job that had a row and lost it never has one again.                   *)
THEOREM RemovedForGood == Spec => RemovedStaysRemoved
<1>1. Spec => []AskedIsNew
  BY InitAsked, StepAsked, PTL DEF Spec
<1> QED
  BY <1>1, StepKeepsRemoved, PTL DEF Spec, RemovedStaysRemoved

-----------------------------------------------------------------------------
(* The numbers.                                                            *)

LEMMA LeastOf ==
  ASSUME NEW S \in SUBSET Nat, S # {}
  PROVE  \E x \in S : \A y \in S : x <= y
<1>1. PICK R : R = OpToRel(<, Nat)
  OBVIOUS
<1>2. IsWellFoundedOn(R, Nat)
  BY <1>1, NatLessThanWellFounded
<1>3. \A x, y \in Nat : y < x => <<y, x>> \in R
  BY <1>1 DEF OpToRel
<1>4. PICK x \in S : \A y \in S : ~(<<y, x>> \in R)
  BY <1>2, WFMin
<1>5. ASSUME NEW y \in S PROVE x <= y
  <2>1. <<y, x>> \notin R /\ x \in Nat /\ y \in Nat
    BY <1>4
  <2>2. ~(y < x)
    BY <1>3, <2>1
  <2> QED
    BY <2>1, <2>2
<1> QED
  BY <1>5

(* An occurrence of a calendar is after the time it is asked for.          *)
LEMMA NextMultiple ==
  ASSUME NEW t \in Nat, NEW p \in Nat \ {0}
  PROVE  (t \div p + 1) * p \in Nat /\ (t \div p + 1) * p > t
OBVIOUS

LEMMA NextRunLater ==
  ASSUME NEW j \in Jobs, NEW at \in Nat, NEW t \in Nat
  PROVE  NextRun(j, at, t) \in Nat /\ (~OneShot(j) => NextRun(j, at, t) > t)
<1>1. Period \in Nat \ {0} /\ Horizon \in Nat /\ Kind[j] \in {"relative", "oneshot", "recurring"}
  BY ConstantsAssumption
<1>2. (t \div Period + 1) * Period \in Nat /\ (t \div Period + 1) * Period > t
  BY <1>1, NextMultiple
<1> QED
  BY <1>1, <1>2 DEF NextRun, OneShot, NextYear

-----------------------------------------------------------------------------
(* The types.                                                              *)

Nodes == Seq(Entry)
Platforms == {PlatformOf(n) : n \in Nodes}
AnyRow == [enabled : BOOLEAN, next : Nat, first : Nat, at : Nat, node : Nodes, platform : Platforms]
AnyTurn == [job : Jobs, key : {Chat} \union Nodes, due : Nat, first : Nat, began : Nat, losses : Nat,
         node : Nodes, state : {"running", "done", "failed", "lost"}]
Calls == [job : Jobs, node : Nodes, at : Nat, live : BOOLEAN]

CountersOk == {clock, crashes, faults, messages} \subseteq Nat
RowsIn(rows) == \A j \in DOMAIN rows : j \in Jobs /\ rows[j] \in AnyRow
CallOk == created \in Seq(Jobs) /\ (asking # None => asking \in Calls)
TreeOk ==
  /\ turns \in Seq(AnyTurn) /\ cursor \in Nodes
  /\ \A k \in DOMAIN settled : settled[k] \in Nodes

(* The jobs still to run have a row in memory, and the runner that is busy *)
(* is so with the first of them.                                           *)
DueOk ==
  /\ due \subseteq DOMAIN created /\ \A i \in due : created[i] \in DOMAIN jobs
  /\ pc \in {"off", "wait"} => due = {}
  /\ pc \in {"turn", "save", "resave"} => due # {}

Types == CountersOk /\ RowsIn(store) /\ RowsIn(jobs) /\ CallOk /\ TreeOk /\ DueOk

LEMMA FirstIsDue ==
  ASSUME CallOk, DueOk, due # {}
  PROVE  First \in due /\ First \in DOMAIN created /\ Current \in Jobs /\ Current \in DOMAIN jobs
<1>1. due \subseteq Nat /\ created \in Seq(Jobs)
  BY DEF CallOk, DueOk
<1>2. \E n \in due : \A m \in due : n <= m
  BY <1>1, LeastOf
<1>3. First \in due
  BY <1>2 DEF First
<1> QED
  BY <1>1, <1>3 DEF DueOk, Current

LEMMA AttachIsNode ==
  ASSUME TreeOk, NEW key, NEW seed \in Nodes PROVE Attach(key, seed) \in Nodes
BY DEF TreeOk, Attach

LEMMA NewEntry ==
  ASSUME NEW node \in Nodes, NEW seed, NEW from \in {"message", "request", "job"}, NEW id \in Jobs \union Nat,
         NEW p \in {"discord", "cron"}, NEW e, e = [from |-> from, id |-> id, platform |-> Delta(seed, p)]
  PROVE  e \in Entry /\ e.from = from /\ e.id = id /\ Append(node, e) \in Nodes
<1>1. Delta(seed, p) \in {Same, "discord", "cron"}
  BY DEF Delta
<1>2. e \in Entry /\ e.from = from /\ e.id = id
  BY <1>1 DEF Entry
<1> QED
  BY <1>2 DEF Nodes

LEMMA SettleKeeps ==
  ASSUME NEW key, NEW node \in Nodes, \A k \in DOMAIN settled : settled[k] \in Nodes
  PROVE  /\ DOMAIN Settle(key, node) = DOMAIN settled \union {key}
         /\ \A k \in DOMAIN Settle(key, node) : Settle(key, node)[k] \in Nodes
         /\ Settle(key, node)[key] = node /\ \A k \in DOMAIN settled : k # key => Settle(key, node)[k] = settled[k]
BY DEF Settle

(* What housekeeping makes of a row.                                       *)
LEMMA HousekeptRow ==
  ASSUME RowsIn(jobs), NEW j \in DOMAIN jobs, clock \in Nat, NEW r, r = Housekept(j, clock)
  PROVE  /\ RowsIn(r) /\ DOMAIN r = DOMAIN jobs
         /\ \A i \in DOMAIN jobs : i # j => r[i] = jobs[i]
         /\ OneShot(j) => ~r[j].enabled
         /\ ~OneShot(j) => r[j].next > clock
<1>1. PICK e, n : /\ e = (jobs[j].enabled /\ ~OneShot(j))
                  /\ n = IF OneShot(j) THEN jobs[j].next ELSE NextRun(j, jobs[j].at, clock)
  OBVIOUS
<1>2. j \in Jobs /\ jobs[j] \in AnyRow
  BY DEF RowsIn
<1>3. e \in BOOLEAN /\ n \in Nat /\ (OneShot(j) => ~e) /\ (~OneShot(j) => n > clock)
  <2>1. jobs[j].enabled \in BOOLEAN /\ jobs[j].next \in Nat /\ jobs[j].at \in Nat
    BY <1>2 DEF AnyRow
  <2>2. NextRun(j, jobs[j].at, clock) \in Nat /\ (~OneShot(j) => NextRun(j, jobs[j].at, clock) > clock)
    BY <1>2, <2>1, NextRunLater
  <2>3. e \in BOOLEAN /\ (OneShot(j) => ~e)
    BY <1>1, <2>1
  <2> QED
    BY <1>1, <2>1, <2>2, <2>3
<1>4. PICK q : q = [jobs[j] EXCEPT !.enabled = e, !.next = n]
  OBVIOUS
<1>5. q \in AnyRow /\ q.enabled = e /\ q.next = n
  BY <1>2, <1>3, <1>4 DEF AnyRow
<1>6. r = [jobs EXCEPT ![j] = q]
  <2>1. r = [jobs EXCEPT ![j].enabled = (jobs[j].enabled /\ ~OneShot(j)),
                         ![j].next = IF OneShot(j) THEN jobs[j].next ELSE NextRun(j, jobs[j].at, clock)]
    BY DEF Housekept
  <2>2. r = [jobs EXCEPT ![j].enabled = e, ![j].next = n]
    BY <1>1, <2>1
  <2> QED
    BY <1>4, <2>2
<1>7. DOMAIN r = DOMAIN jobs /\ r[j] = q /\ \A i \in DOMAIN jobs : i # j => r[i] = jobs[i]
  BY <1>6
<1>8. RowsIn(r)
  BY <1>2, <1>5, <1>7 DEF RowsIn
<1> QED
  BY <1>3, <1>5, <1>7, <1>8

(* Every action keeps the types; the tools' and the chat's first.          *)
LEMMA MessageTypes == ASSUME Types, Message PROVE Types'
<1> USE DEF Types
<1>1. PICK at, e : at = Attach(Chat, cursor)
                   /\ e = [from |-> "message", id |-> messages, platform |-> Delta(cursor, "discord")]
  OBVIOUS
<1>2. at \in Nodes /\ messages \in Nat
  BY <1>1, AttachIsNode DEF TreeOk, CountersOk
<1>3. e \in Entry /\ Append(at, e) \in Nodes
  BY <1>1, <1>2, NewEntry
<1>4. /\ cursor' = Append(at, e) /\ settled' = Settle(Chat, cursor') /\ messages' = messages + 1
      /\ UNCHANGED <<clock, store, created, asking, runner, wake, turns, limits>>
  BY <1>1 DEF Message
<1>5. TreeOk'
  BY <1>3, <1>4, SettleKeeps DEF TreeOk, limits, runner
<1>6. CountersOk'
  BY <1>2, <1>4 DEF CountersOk, limits
<1>7. RowsIn(store)' /\ RowsIn(jobs)' /\ CallOk' /\ DueOk'
  BY <1>4 DEF RowsIn, CallOk, DueOk, runner
<1> QED
  BY <1>5, <1>6, <1>7

LEMMA AskTypes == ASSUME Types, NEW j \in Jobs, Ask(j) PROVE Types'
<1> USE DEF Types
<1>1. PICK at, e, node : /\ at = Attach(Chat, cursor)
                         /\ e = [from |-> "request", id |-> j, platform |-> Delta(cursor, "discord")]
                         /\ node = Append(at, e)
  OBVIOUS
<1>2. at \in Nodes
  BY <1>1, AttachIsNode DEF TreeOk
<1>3. e \in Entry /\ node \in Nodes
  BY <1>1, <1>2, NewEntry
<1>4. /\ cursor' = node /\ settled' = Settle(Chat, at)
      /\ asking' = [job |-> j, node |-> node, at |-> InAMinute, live |-> TRUE]
      /\ UNCHANGED <<clock, store, created, runner, wake, turns, messages, limits>>
  BY <1>1 DEF Ask
<1>5. TreeOk'
  BY <1>2, <1>3, <1>4, SettleKeeps DEF TreeOk, limits, runner
<1>6. CountersOk'
  BY <1>4 DEF CountersOk, limits
<1>7. RowsIn(store)' /\ RowsIn(jobs)' /\ DueOk'
  BY <1>4 DEF RowsIn, DueOk, runner
<1>8. CallOk'
  <2>1. InAMinute \in Nat
    BY ConstantsAssumption, NextMultiple DEF InAMinute, CountersOk
  <2> QED
    BY <1>3, <1>4, <2>1 DEF CallOk, Calls
<1> QED
  BY <1>5, <1>6, <1>7, <1>8

LEMMA AskAgainTypes == ASSUME Types, NEW j \in Jobs, NEW n \in DOMAIN turns, AskAgain(n, j) PROVE Types'
<1> USE DEF Types
<1>1. /\ asking' = [job |-> j, node |-> turns[n].node, at |-> InAMinute, live |-> FALSE]
      /\ UNCHANGED <<clock, store, created, runner, wake, turns, chat, limits>>
  BY DEF AskAgain
<1>2. turns[n].node \in Nodes
  <2>1. turns[n] \in AnyTurn
    BY DEF TreeOk
  <2> QED
    BY <2>1 DEF AnyTurn
<1>3. CallOk'
  <2>1. InAMinute \in Nat
    BY ConstantsAssumption, NextMultiple DEF InAMinute, CountersOk
  <2> QED
    BY <1>1, <1>2, <2>1 DEF CallOk, Calls
<1>4. TreeOk' /\ CountersOk' /\ RowsIn(store)' /\ RowsIn(jobs)' /\ DueOk'
  BY <1>1 DEF TreeOk, CountersOk, RowsIn, DueOk, runner, limits, chat
<1> QED
  BY <1>3, <1>4

LEMMA AddTypes == ASSUME Types, Add PROVE Types'
<1> USE DEF Types
<1>1. asking \in Calls /\ asking' = None /\ created' = Append(created, asking.job) /\ created \in Seq(Jobs)
      /\ UNCHANGED <<clock, runner, turns, cursor, messages, limits>>
  BY DEF Add, CallOk
<1>2. PICK j, n, r : /\ j = asking.job /\ n = NextRun(j, asking.at, clock)
                     /\ r = [enabled |-> TRUE, next |-> n, first |-> n, at |-> asking.at, node |-> Root,
                             platform |-> PlatformOf(asking.node)]
  OBVIOUS
<1>3. j \in Jobs /\ asking.at \in Nat /\ asking.node \in Nodes /\ clock \in Nat
  BY <1>1, <1>2 DEF Calls, CountersOk
<1>4. n \in Nat /\ PlatformOf(asking.node) \in Platforms /\ Root \in Nodes
  BY <1>2, <1>3, NextRunLater DEF Platforms, Root, Nodes
<1>5. r \in AnyRow
  BY <1>2, <1>3, <1>4 DEF AnyRow
<1>6. RowsIn(store)'
  <2>1. store' = [i \in DOMAIN store \union {j} |-> IF i = j THEN r ELSE store[i]]
    BY <1>2 DEF Add
  <2> QED
    BY <1>3, <1>5, <2>1 DEF RowsIn
<1>7. TreeOk'
  <2>1. settled' = settled \/ settled' = Settle(Chat, asking.node)
    BY DEF Add
  <2>2. \A k \in DOMAIN settled' : settled'[k] \in Nodes
    BY <1>3, <2>1, SettleKeeps DEF TreeOk
  <2> QED
    BY <1>1, <2>2 DEF TreeOk
<1>8. RowsIn(jobs)' /\ CountersOk'
  BY <1>1 DEF RowsIn, CountersOk, runner, limits
<1>9. CallOk'
  BY <1>1, <1>2, <1>3 DEF CallOk
<1>10. DueOk'
  <2>1. \A i \in DOMAIN created : i \in DOMAIN created' /\ created'[i] = created[i]
    BY <1>1, <1>2, <1>3
  <2> QED
    BY <1>1, <2>1 DEF DueOk, runner
<1> QED
  BY <1>6, <1>7, <1>8, <1>9, <1>10

LEMMA CancelTypes == ASSUME Types, NEW j \in Jobs, Cancel(j) PROVE Types'
<1> USE DEF Types
<1>1. store' = Without(j) /\ UNCHANGED <<clock, created, asking, runner, turns, chat, limits>>
  BY DEF Cancel
<1>2. RowsIn(store)'
  BY <1>1 DEF RowsIn, Without
<1> QED
  BY <1>1, <1>2 DEF TreeOk, CountersOk, RowsIn, DueOk, CallOk, runner, limits, chat

LEMMA TurnEndsTypes ==
  ASSUME Types, NEW n \in DOMAIN turns, NEW outcome \in {"done", "failed"}, TurnEnds(n, outcome)
  PROVE  Types' /\ Len(turns') = Len(turns)
         /\ \A m \in DOMAIN turns : \E o : turns'[m] = [turns[m] EXCEPT !.state = o]
<1> USE DEF Types
<1>1. turns \in Seq(AnyTurn) /\ turns[n] \in AnyTurn
  BY DEF TreeOk
<1>2. PICK t : t = [turns[n] EXCEPT !.state = outcome]
  OBVIOUS
<1>3. t \in AnyTurn
  BY <1>1, <1>2 DEF AnyTurn
<1>4. turns' = [turns EXCEPT ![n] = t]
  BY <1>2 DEF TurnEnds
<1>5. turns' \in Seq(AnyTurn) /\ Len(turns') = Len(turns)
  BY <1>1, <1>3, <1>4
<1>6. ASSUME NEW m \in DOMAIN turns PROVE \E o : turns'[m] = [turns[m] EXCEPT !.state = o]
  <2>1. CASE m = n
    BY <1>1, <1>2, <1>4, <2>1
  <2>2. CASE m # n
    <3>1. turns'[m] = turns[m] /\ turns[m] \in AnyTurn
      BY <1>1, <1>4, <2>2
    <3>2. turns[m] = [turns[m] EXCEPT !.state = turns[m].state]
      BY <3>1 DEF AnyTurn
    <3> QED
      BY <3>1, <3>2
  <2> QED
    BY <2>1, <2>2
<1>7. settled' = Settle(turns[n].key, turns[n].node) /\ turns[n].node \in Nodes
      /\ UNCHANGED <<clock, store, created, asking, runner, wake, cursor, messages, limits>>
  BY <1>1 DEF TurnEnds, AnyTurn
<1>8. TreeOk'
  BY <1>5, <1>7, SettleKeeps DEF TreeOk
<1>9. CountersOk' /\ RowsIn(store)' /\ RowsIn(jobs)' /\ DueOk' /\ CallOk'
  BY <1>7 DEF CountersOk, RowsIn, DueOk, CallOk, runner, limits
<1> QED
  BY <1>5, <1>6, <1>8, <1>9

LEMMA CrashTypes ==
  ASSUME Types, Crash
  PROVE  Types' /\ Len(turns') = Len(turns)
         /\ \A m \in DOMAIN turns : \E o : turns'[m] = [turns[m] EXCEPT !.state = o]
<1> USE DEF Types
<1>1. turns \in Seq(AnyTurn)
  BY DEF TreeOk
<1>2. ASSUME NEW m \in DOMAIN turns
      PROVE  \E o \in {"running", "done", "failed", "lost"} : turns'[m] = [turns[m] EXCEPT !.state = o]
  <2>1. turns'[m] = [turns[m] EXCEPT !.state = IF turns[m].state = "running" THEN "lost" ELSE turns[m].state]
    BY DEF Crash
  <2>2. turns[m].state \in {"running", "done", "failed", "lost"}
    <3>1. turns[m] \in AnyTurn
      BY <1>1
    <3> QED
      BY <3>1 DEF AnyTurn
  <2>3. PICK o : o = IF turns[m].state = "running" THEN "lost" ELSE turns[m].state
    OBVIOUS
  <2> QED
    BY <2>1, <2>2, <2>3
<1>3. ASSUME NEW m \in DOMAIN turns PROVE turns'[m] \in AnyTurn
  <2>1. turns[m] \in AnyTurn
    BY <1>1
  <2>2. PICK o \in {"running", "done", "failed", "lost"} : turns'[m] = [turns[m] EXCEPT !.state = o]
    BY <1>2
  <2> QED
    BY <2>1, <2>2 DEF AnyTurn
<1>4. turns' \in Seq(AnyTurn) /\ Len(turns') = Len(turns)
  <2>1. turns' = [m \in DOMAIN turns |-> turns'[m]]
    BY DEF Crash
  <2>2. DOMAIN turns = 1..Len(turns) /\ Len(turns) \in Nat
    BY <1>1
  <2> QED
    BY <1>3, <2>1, <2>2
<1>5. /\ clock' = clock /\ store' = store /\ created' = created /\ cursor' = cursor /\ messages' = messages
      /\ crashes' = crashes + 1 /\ faults' = faults /\ jobs' = <<>> /\ due' = {} /\ pc' = "off"
      /\ asking' = None /\ settled' = <<>>
  BY DEF Crash
<1>6. CountersOk' /\ RowsIn(store)' /\ RowsIn(jobs)' /\ DueOk' /\ CallOk' /\ TreeOk'
  BY <1>4, <1>5 DEF CountersOk, RowsIn, DueOk, CallOk, TreeOk
<1> QED
  BY <1>2, <1>4, <1>6

(* The runner's.                                                           *)
LEMMA LoadTypes == ASSUME Types, Start \/ Iterate PROVE Types'
<1> USE DEF Types
<1>1. UNCHANGED <<clock, store, created, asking, turns, chat, limits>> /\ jobs' = store
  BY DEF Start, Iterate
<1>2. CountersOk' /\ RowsIn(store)' /\ RowsIn(jobs)' /\ CallOk' /\ TreeOk'
  BY <1>1 DEF CountersOk, RowsIn, CallOk, TreeOk, limits, chat
<1>3. DueOk'
  <2>1. CASE Start
    BY <2>1 DEF Start, DueOk
  <2>2. CASE Iterate
    BY <2>2 DEF Iterate, DueOk, Due
  <2> QED
    BY <2>1, <2>2
<1> QED
  BY <1>2, <1>3

LEMMA SleepTypes == ASSUME Types, Sleep PROVE Types'
BY DEF Types, Sleep, CountersOk, RowsIn, CallOk, TreeOk, DueOk, limits, chat

LEMMA SkipTypes ==
  ASSUME Types, Skip
  PROVE  /\ Types' /\ DOMAIN jobs' = DOMAIN jobs /\ \A i \in DOMAIN jobs : i # Current => jobs'[i] = jobs[i]
         /\ ~OneShot(Current) => jobs'[Current].next > clock
<1> USE DEF Types
<1>1. PICK j, n, q : /\ j = Current /\ n = NextRun(j, jobs[j].at, clock) /\ q = [jobs[j] EXCEPT !.next = n]
  OBVIOUS
<1>2. j \in Jobs /\ j \in DOMAIN jobs /\ jobs[j] \in AnyRow
  BY <1>1, FirstIsDue DEF Skip, RowsIn
<1>3. n \in Nat /\ (~OneShot(j) => n > clock)
  <2>1. jobs[j].at \in Nat /\ clock \in Nat
    BY <1>2 DEF AnyRow, CountersOk
  <2> QED
    BY <1>1, <1>2, <2>1, NextRunLater
<1>4. q \in AnyRow /\ q.next = n
  BY <1>1, <1>2, <1>3 DEF AnyRow
<1>5. jobs' = [jobs EXCEPT ![j] = q]
  BY <1>1 DEF Skip
<1>6. DOMAIN jobs' = DOMAIN jobs /\ jobs'[j] = q /\ \A i \in DOMAIN jobs : i # j => jobs'[i] = jobs[i]
  BY <1>2, <1>5
<1>7. RowsIn(jobs)'
  BY <1>2, <1>4, <1>6 DEF RowsIn
<1>8. DueOk'
  BY <1>6 DEF Skip, DueOk
<1>9. CountersOk' /\ RowsIn(store)' /\ CallOk' /\ TreeOk'
  BY DEF Skip, CountersOk, RowsIn, CallOk, TreeOk, limits, chat
<1> QED
  BY <1>1, <1>3, <1>4, <1>6, <1>7, <1>8, <1>9

(* The turn a job gets, and the entry it adds to the node it attaches to.  *)
Pushed(t, e, j) ==
  /\ t \in AnyTurn /\ e \in Entry /\ e.from = "job" /\ e.id = Len(turns) + 1
  /\ t.job = j /\ t.key = Key(j) /\ t.due = jobs[j].next /\ t.began = clock /\ t.losses = crashes + faults
  /\ Attach(Key(j), Seed(j)) \in Nodes /\ Seed(j) \in Nodes /\ t.node = Append(Attach(Key(j), Seed(j)), e)
  /\ turns' = Append(turns, t)

LEMMA FireTypes ==
  ASSUME Types, Fire
  PROVE  Types' /\ \E t, e : Pushed(t, e, Current)
<1> USE DEF Types
<1>1. PICK j, at, e : /\ j = Current /\ at = Attach(Key(j), Seed(j))
                      /\ e = [from |-> "job", id |-> Len(turns) + 1, platform |-> Delta(Seed(j), "cron")]
  OBVIOUS
<1>2. PICK t : t = [job |-> j, key |-> Key(j), due |-> jobs[j].next, first |-> jobs[j].first, began |-> clock,
                    losses |-> crashes + faults, node |-> Append(at, e), state |-> "running"]
  OBVIOUS
<1>3. j \in Jobs /\ j \in DOMAIN jobs /\ jobs[j] \in AnyRow
  BY <1>1, FirstIsDue DEF Fire, RowsIn
<1>4. jobs[j].next \in Nat /\ jobs[j].first \in Nat /\ jobs[j].node \in Nodes
  BY <1>3 DEF AnyRow
<1>5. Root \in Nodes
  BY DEF Root, Nodes
<1>6. Seed(j) \in Nodes /\ Key(j) \in {Chat} \union Nodes
  BY <1>4, <1>5 DEF Seed, Key
<1>7. at \in Nodes
  BY <1>1, <1>6, AttachIsNode
<1>8. Len(turns) + 1 \in Nat /\ turns \in Seq(AnyTurn)
  BY DEF TreeOk
<1>9. e \in Entry /\ e.from = "job" /\ e.id = Len(turns) + 1 /\ Append(at, e) \in Nodes
  BY <1>1, <1>7, <1>8, NewEntry
<1>10. clock \in Nat /\ crashes + faults \in Nat
  BY DEF CountersOk
<1>11. t \in AnyTurn
  BY <1>2, <1>3, <1>4, <1>6, <1>9, <1>10 DEF AnyTurn
<1>12. /\ t.job = j /\ t.key = Key(j) /\ t.due = jobs[j].next /\ t.began = clock /\ t.losses = crashes + faults
       /\ t.node = Append(at, e)
  BY <1>2
<1>13. /\ turns' = Append(turns, t) /\ settled' = Settle(Key(j), at) /\ pc' = "turn" /\ due # {}
       /\ UNCHANGED <<clock, store, created, asking, jobs, due, deadline, wake, cursor, messages, limits>>
  BY <1>1, <1>2 DEF Fire
<1>14. TreeOk'
  <2>1. turns' \in Seq(AnyTurn)
    BY <1>8, <1>11, <1>13
  <2>2. \A k \in DOMAIN settled : settled[k] \in Nodes
    BY DEF TreeOk
  <2>3. \A k \in DOMAIN settled' : settled'[k] \in Nodes
    BY <1>7, <1>13, <2>2, SettleKeeps
  <2> QED
    BY <1>13, <2>1, <2>3 DEF TreeOk
<1>15. CountersOk' /\ RowsIn(store)' /\ RowsIn(jobs)' /\ CallOk' /\ DueOk'
  BY <1>13 DEF CountersOk, RowsIn, CallOk, DueOk, limits
<1>16. Pushed(t, e, j)
  BY <1>1, <1>6, <1>7, <1>9, <1>11, <1>12, <1>13 DEF Pushed
<1> QED
  BY <1>1, <1>14, <1>15, <1>16

(* The row housekeeping leaves, and what it says of the one that ran.      *)
Tidied(j) ==
  /\ DOMAIN jobs' = DOMAIN jobs /\ \A i \in DOMAIN jobs : i # j => jobs'[i] = jobs[i]
  /\ OneShot(j) => ~jobs'[j].enabled
  /\ ~OneShot(j) => jobs'[j].next > clock

LEMMA DrainTypes ==
  ASSUME Types, turns # <<>> /\ Last(turns).job = Current, Drain
  PROVE  Types' /\ Tidied(Current)
<1> USE DEF Types
<1>1. PICK t, j, r : t = Last(turns) /\ j = Current /\ r = Housekept(j, clock)
  OBVIOUS
<1>2. j \in Jobs /\ j \in DOMAIN jobs /\ clock \in Nat
  BY <1>1, FirstIsDue DEF Drain, DueOk, CountersOk
<1>3. t \in AnyTurn /\ t.node \in Nodes
  <2>1. turns \in Seq(AnyTurn) /\ turns # <<>>
    BY DEF TreeOk
  <2>2. t \in AnyTurn
    BY <1>1, <2>1 DEF Last
  <2> QED
    BY <2>2 DEF AnyTurn
<1>4. /\ RowsIn(r) /\ DOMAIN r = DOMAIN jobs
      /\ \A i \in DOMAIN jobs : i # j => r[i] = jobs[i]
      /\ (OneShot(j) => ~r[j].enabled) /\ (~OneShot(j) => r[j].next > clock)
  BY <1>1, <1>2, HousekeptRow
<1>5. /\ jobs' = (IF t.state = "done" /\ j \in Isolated THEN [r EXCEPT ![j].node = t.node] ELSE r)
      /\ pc = "turn" /\ pc' = "save"
      /\ UNCHANGED <<clock, store, created, asking, due, deadline, wake, turns, chat, limits>>
  BY <1>1 DEF Drain
<1>6. RowsIn(jobs)' /\ Tidied(j)
  <2>1. CASE t.state = "done" /\ j \in Isolated
    <3>1. PICK q : q = [r[j] EXCEPT !.node = t.node]
      OBVIOUS
    <3>2. r[j] \in AnyRow
      BY <1>2, <1>4 DEF RowsIn
    <3>3. q \in AnyRow /\ q.enabled = r[j].enabled /\ q.next = r[j].next
      BY <1>3, <3>1, <3>2 DEF AnyRow
    <3>4. jobs' = [r EXCEPT ![j] = q]
      BY <1>5, <2>1, <3>1
    <3>5. DOMAIN jobs' = DOMAIN r /\ jobs'[j] = q /\ \A i \in DOMAIN r : i # j => jobs'[i] = r[i]
      BY <1>2, <1>4, <3>4
    <3> QED
      BY <1>2, <1>4, <3>3, <3>5 DEF RowsIn, Tidied
  <2>2. CASE ~(t.state = "done" /\ j \in Isolated)
    BY <1>4, <1>5, <2>2 DEF RowsIn, Tidied
  <2> QED
    BY <2>1, <2>2
<1>7. DueOk'
  BY <1>5, <1>6 DEF DueOk, Tidied
<1>8. CountersOk' /\ RowsIn(store)' /\ CallOk' /\ TreeOk'
  BY <1>5 DEF CountersOk, RowsIn, CallOk, TreeOk, limits, chat
<1> QED
  BY <1>1, <1>6, <1>7, <1>8

(* The list of due jobs loses its first.                                   *)
LEMMA NextDue ==
  ASSUME DueOk, UNCHANGED <<created, jobs>>, due' = due \ {First}, pc' = "next" PROVE DueOk'
BY DEF DueOk

LEMMA SaveTypes == ASSUME Types, Save PROVE Types'
<1> USE DEF Types
<1>1. /\ WriteRow(Current) /\ due' = due \ {First} /\ pc' = "next" /\ pc = "save"
      /\ UNCHANGED <<clock, created, asking, jobs, deadline, wake, turns, chat, limits>>
  BY DEF Save
<1>2. PICK j : j = Current
  OBVIOUS
<1>3. j \in DOMAIN jobs /\ jobs[j] \in AnyRow
  BY <1>1, <1>2, FirstIsDue DEF DueOk, RowsIn
<1>4. RowsIn(store)'
  BY <1>1, <1>2, <1>3 DEF WriteRow, Without, RowsIn
<1>5. DueOk'
  BY <1>1, NextDue
<1> QED
  BY <1>1, <1>4, <1>5 DEF CountersOk, RowsIn, CallOk, TreeOk, limits, chat

LEMMA ResaveTypes == ASSUME Types, Resave PROVE Types'
<1> USE DEF Types
<1>1. PICK j : j = Current
  OBVIOUS
<1>2. /\ due' = due \ {First} /\ pc' = "next" /\ pc = "resave"
      /\ store' = IF j \in DOMAIN store THEN [store EXCEPT ![j] = jobs[j]] ELSE store
      /\ UNCHANGED <<clock, created, asking, jobs, deadline, wake, turns, chat, limits>>
  BY <1>1 DEF Resave
<1>3. j \in DOMAIN jobs /\ jobs[j] \in AnyRow
  BY <1>1, <1>2, FirstIsDue DEF DueOk, RowsIn
<1>4. RowsIn(store)'
  BY <1>2, <1>3 DEF RowsIn
<1>5. DueOk'
  BY <1>2, NextDue
<1> QED
  BY <1>2, <1>4, <1>5 DEF CountersOk, RowsIn, CallOk, TreeOk, limits, chat

LEMMA JobRaisesTypes == ASSUME Types, JobRaises PROVE Types'
<1> USE DEF Types
<1>1. /\ due # {} /\ jobs' = Housekept(Current, clock) /\ pc' = "resave" /\ due' = due /\ faults' = faults + 1
      /\ UNCHANGED <<clock, store, created, asking, wake, turns, chat, creator, changes, crashes>>
  BY DEF JobRaises, Fault
<1>2. Current \in DOMAIN jobs /\ clock \in Nat
  BY <1>1, FirstIsDue DEF CountersOk
<1>3. PICK r : r = Housekept(Current, clock)
  OBVIOUS
<1>4. RowsIn(r) /\ DOMAIN r = DOMAIN jobs
  BY <1>2, <1>3, HousekeptRow
<1>5. RowsIn(jobs)' /\ DueOk'
  BY <1>1, <1>3, <1>4 DEF DueOk, RowsIn
<1> QED
  BY <1>1, <1>5 DEF CountersOk, RowsIn, CallOk, TreeOk, chat

LEMMA IterationFailsTypes == ASSUME Types, IterationFails PROVE Types'
BY DEF Types, IterationFails, Fault, CountersOk, RowsIn, CallOk, TreeOk, DueOk, chat

LEMMA TickTypes == ASSUME Types, Tick PROVE Types'
BY DEF Types, Tick, CountersOk, RowsIn, CallOk, TreeOk, DueOk, chat, limits, runner

LEMMA ChangeCreatorTypes == ASSUME Types, NEW standing, ChangeCreator(standing) PROVE Types'
BY DEF Types, ChangeCreator, CountersOk, RowsIn, CallOk, TreeOk, DueOk, chat, runner

LEMMA StutterTypes == ASSUME Types, UNCHANGED vars PROVE Types'
BY DEF Types, vars, CountersOk, RowsIn, CallOk, TreeOk, DueOk, chat, runner, limits

LEMMA InitTypes == ASSUME Init PROVE Types
BY DEF Types, Init, CountersOk, RowsIn, CallOk, TreeOk, DueOk, Root, Nodes

-----------------------------------------------------------------------------
(* What has run.                                                           *)

Losses == crashes + faults

(* A row that is for an occurrence after a turn began.                     *)
Past(n, r) == ~OneShot(turns[n].job) /\ r.next > turns[n].began

Running == pc \in {"turn", "save"}
StoredOk(n) ==
  turns[n].job \in DOMAIN store =>
    Past(n, store[turns[n].job]) \/ (Running /\ turns[n].job = Current)
LoadedOk(n) ==
  \A i \in due : created[i] = turns[n].job =>
    \/ Past(n, jobs[created[i]])
    \/ i = First /\ (pc = "turn" \/ (pc = "save" /\ OneShot(created[i]) /\ ~jobs[created[i]].enabled))

(* Of the turns since the last loss, every copy of the job's row knows.    *)
RunsOk ==
  \A n \in DOMAIN turns :
    turns[n].losses = Losses => pc # "resave" /\ StoredOk(n) /\ LoadedOk(n)

JobsOk == IsInjective(created) /\ DOMAIN store \subseteq Range(created)
PushedOk ==
  \A n \in DOMAIN turns :
    turns[n].job \in Range(created) /\ turns[n].losses <= Losses /\ turns[n].began <= clock
WaitOk == pc = "turn" => turns # <<>> /\ Last(turns).job = Current

Core == JobsOk /\ PushedOk /\ RunsOk /\ WaitOk /\ RunsAreNotRepeated

LEMMA TurnFields ==
  ASSUME TreeOk, NEW n \in DOMAIN turns
  PROVE  /\ turns[n] \in AnyTurn /\ turns[n].job \in Jobs
         /\ turns[n].due \in Nat /\ turns[n].began \in Nat /\ turns[n].losses \in Nat
<1>1. turns[n] \in AnyTurn
  BY DEF TreeOk
<1> QED
  BY <1>1 DEF AnyTurn

(* Turns change nothing but their state once they are pushed.              *)
SameTurns ==
  /\ Len(turns') = Len(turns) /\ DOMAIN turns' = DOMAIN turns
  /\ \A n \in DOMAIN turns :
       /\ turns'[n].job = turns[n].job /\ turns'[n].due = turns[n].due /\ turns'[n].began = turns[n].began
       /\ turns'[n].losses = turns[n].losses /\ turns'[n].node = turns[n].node /\ turns'[n].key = turns[n].key

LEMMA StatesOnly ==
  ASSUME Types, Types', Len(turns') = Len(turns),
         \A m \in DOMAIN turns : \E o : turns'[m] = [turns[m] EXCEPT !.state = o]
  PROVE  SameTurns
<1>1. turns \in Seq(AnyTurn) /\ turns' \in Seq(AnyTurn)
  BY DEF Types, TreeOk
<1>2. ASSUME NEW n \in DOMAIN turns
      PROVE  /\ turns'[n].job = turns[n].job /\ turns'[n].due = turns[n].due /\ turns'[n].began = turns[n].began
             /\ turns'[n].losses = turns[n].losses /\ turns'[n].node = turns[n].node /\ turns'[n].key = turns[n].key
  <2>1. PICK o : turns'[n] = [turns[n] EXCEPT !.state = o]
    OBVIOUS
  <2>2. turns[n] \in AnyTurn
    BY <1>1
  <2> QED
    BY <2>1, <2>2 DEF AnyTurn
<1>3. DOMAIN turns' = DOMAIN turns
  BY <1>1
<1> QED
  BY <1>2, <1>3 DEF SameTurns

LEMMA NotRepeatedKept == ASSUME RunsAreNotRepeated, SameTurns PROVE RunsAreNotRepeated'
BY DEF RunsAreNotRepeated, OncePerOccurrence, OneShotsFireOnce, OneShot, SameTurns

(* A step that leaves the rows and the runner alone.                       *)
LEMMA ElsewhereCore ==
  ASSUME Types, Core, SameTurns, UNCHANGED <<store, jobs, due, pc, created, crashes, faults>>,
         clock' = clock \/ clock' = clock + 1, turns' \in Seq(AnyTurn)
  PROVE  Core'
<1>1. RunsAreNotRepeated'
  BY NotRepeatedKept DEF Core
<1>2. First' = First /\ Current' = Current /\ Losses' = Losses
  BY DEF First, Current, Losses
<1>3. JobsOk'
  BY DEF Core, JobsOk
<1>4. PushedOk'
  <2>1. ASSUME NEW n \in DOMAIN turns
        PROVE turns[n].job \in Range(created) /\ turns[n].losses <= Losses /\ turns[n].began <= clock'
    <3>1. turns[n].began \in Nat /\ clock \in Nat
      BY TurnFields DEF Types, CountersOk
    <3> QED
      BY <3>1 DEF Core, PushedOk
  <2> QED
    BY <1>2, <2>1 DEF PushedOk, SameTurns
<1>5. RunsOk'
  BY <1>2 DEF Core, RunsOk, StoredOk, LoadedOk, Past, Running, OneShot, SameTurns
<1>6. WaitOk'
  <2>1. ASSUME pc = "turn" PROVE turns' # <<>> /\ Last(turns').job = Current
    <3>1. turns # <<>> /\ Last(turns).job = Current /\ turns \in Seq(AnyTurn)
      BY <2>1 DEF Core, WaitOk, Types, TreeOk
    <3>2. Len(turns) \in DOMAIN turns /\ Last(turns) = turns[Len(turns)]
      BY <3>1 DEF Last
    <3> QED
      BY <3>1, <3>2 DEF SameTurns, Last
  <2> QED
    BY <1>2, <2>1 DEF WaitOk
<1> QED
  BY <1>1, <1>3, <1>4, <1>5, <1>6 DEF Core

(* A loss: of the turns before it nothing is promised.                     *)
LEMMA LossCore ==
  ASSUME Types, Core, SameTurns, store' = store, created' = created, clock' = clock, pc' # "turn",
         Losses' = Losses + 1
  PROVE  Core'
<1>1. RunsAreNotRepeated'
  BY NotRepeatedKept DEF Core
<1>2. \A n \in DOMAIN turns : turns[n].losses \in Nat /\ turns[n].losses <= Losses /\ turns[n].losses # Losses + 1
  <2>1. Losses \in Nat
    BY DEF Types, CountersOk, Losses
  <2> QED
    BY <2>1, TurnFields DEF Types, Core, PushedOk
<1>3. PushedOk'
  <2>1. Losses \in Nat
    BY DEF Types, CountersOk, Losses
  <2>2. \A n \in DOMAIN turns : turns[n].losses <= Losses + 1
    BY <1>2, <2>1
  <2> QED
    BY <2>2 DEF Core, PushedOk, SameTurns
<1>4. RunsOk'
  BY <1>2 DEF RunsOk, SameTurns
<1> QED
  BY <1>1, <1>3, <1>4 DEF Core, JobsOk, WaitOk

(* A step that pushes no turn and loses nothing.                           *)
LEMMA RowsCore ==
  ASSUME Types, Core, UNCHANGED <<turns, created, clock, crashes, faults>>, DOMAIN store' \subseteq DOMAIN store,
         RunsOk', WaitOk'
  PROVE  Core'
BY DEF Core, JobsOk, PushedOk, RunsAreNotRepeated, OncePerOccurrence, OneShotsFireOnce, OneShot, Losses

LEMMA CancelCore == ASSUME Types, Core, NEW j \in Jobs, Cancel(j) PROVE Core'
<1>1. store' = Without(j) /\ UNCHANGED <<clock, created, asking, runner, turns, chat, limits>>
  BY DEF Cancel
<1>2. DOMAIN store' \subseteq DOMAIN store /\ \A i \in DOMAIN store' : store'[i] = store[i]
  BY <1>1 DEF Without
<1>3. UNCHANGED <<turns, created, clock, crashes, faults, jobs, due, pc>>
  BY <1>1 DEF runner, limits
<1>4. First' = First /\ Current' = Current /\ Losses' = Losses
  BY <1>3 DEF First, Current, Losses
<1>5. RunsOk'
  BY <1>2, <1>3, <1>4 DEF Core, RunsOk, StoredOk, LoadedOk, Past, Running, OneShot
<1>6. WaitOk'
  BY <1>3, <1>4 DEF Core, WaitOk
<1> QED
  BY <1>2, <1>3, <1>5, <1>6, RowsCore

LEMMA AddCore == ASSUME Types, Core, AskedIsNew, Add, Types' PROVE Core'
<1>1. PICK j : j = asking.job
  OBVIOUS
<1>2. j \in Jobs /\ j \notin Range(created) /\ created' = Append(created, j) /\ created \in Seq(Jobs)
      /\ UNCHANGED <<clock, runner, turns, cursor, messages, limits>>
  BY <1>1 DEF Add, AskedIsNew, Types, CallOk, Calls
<1>3. DOMAIN store' = DOMAIN store \union {j} /\ \A i \in DOMAIN store : i # j => store'[i] = store[i]
  BY <1>1 DEF Add
<1>4. UNCHANGED <<turns, clock, crashes, faults, jobs, due, pc>>
  BY <1>2 DEF runner, limits
<1>5. /\ Len(created') = Len(created) + 1 /\ Len(created) \in Nat /\ created'[Len(created) + 1] = j
      /\ \A i \in DOMAIN created : i \in DOMAIN created' /\ created'[i] = created[i]
      /\ \A i \in DOMAIN created' : i \in DOMAIN created \/ i = Len(created) + 1
      /\ Len(created) + 1 \in DOMAIN created'
  BY <1>2
<1>6. Range(created') = Range(created) \union {j}
  BY <1>5 DEF Range
<1>7. JobsOk'
  <2>1. \A a, b \in DOMAIN created' : created'[a] = created'[b] => a = b
    <3>1. \A a \in DOMAIN created : created[a] # j
      BY <1>2 DEF Range
    <3>2. \A a, b \in DOMAIN created : created[a] = created[b] => a = b
      BY DEF Core, JobsOk, IsInjective
    <3> QED
      BY <1>5, <3>1, <3>2
  <2>2. IsInjective(created')
    BY <2>1 DEF IsInjective
  <2> QED
    BY <1>3, <1>6, <2>2 DEF Core, JobsOk
<1>8. PushedOk'
  BY <1>4, <1>6 DEF Core, PushedOk, Losses
<1>9. RunsAreNotRepeated'
  BY <1>4 DEF Core, RunsAreNotRepeated, OncePerOccurrence, OneShotsFireOnce, OneShot
<1>10. Losses' = Losses /\ First' = First /\ (due # {} => Current' = Current)
  <2>1. due # {} => First \in DOMAIN created
    BY FirstIsDue DEF Types
  <2> QED
    BY <1>4, <1>5, <2>1 DEF Losses, First, Current
<1>11. (Running => due # {}) /\ due \subseteq DOMAIN created
  BY DEF Types, DueOk, Running
<1>12. RunsOk'
  <2>1. ASSUME NEW n \in DOMAIN turns, turns[n].losses = Losses
        PROVE  (pc # "resave" /\ StoredOk(n) /\ LoadedOk(n))'
    <3>1. turns[n].job # j /\ pc # "resave" /\ StoredOk(n) /\ LoadedOk(n)
      BY <1>2, <2>1 DEF Core, PushedOk, RunsOk
    <3>2. StoredOk(n)'
      BY <1>3, <1>4, <1>10, <1>11, <3>1 DEF StoredOk, Past, Running, OneShot
    <3>3. LoadedOk(n)'
      BY <1>4, <1>5, <1>10, <1>11, <3>1 DEF LoadedOk, Past, OneShot
    <3> QED
      BY <1>4, <3>1, <3>2, <3>3
  <2> QED
    BY <1>4, <1>10, <2>1 DEF RunsOk
<1>13. WaitOk'
  BY <1>4, <1>10, <1>11 DEF Core, WaitOk, Running
<1> QED
  BY <1>7, <1>8, <1>9, <1>12, <1>13 DEF Core

LEMMA LoadCore == ASSUME Types, Core, Start \/ Iterate PROVE Core'
<1>1. /\ UNCHANGED <<clock, store, created, turns, crashes, faults>> /\ jobs' = store /\ Losses' = Losses
      /\ pc \in {"off", "wait"} /\ pc' \in {"wait", "next"} /\ ~Running
  BY DEF Start, Iterate, chat, limits, Losses, Running
<1>2. \A i \in due' : created[i] \in DOMAIN store
  BY DEF Start, Iterate, Due, Types, DueOk
<1>3. RunsOk'
  <2>1. ASSUME NEW n \in DOMAIN turns, turns[n].losses = Losses PROVE (pc # "resave" /\ StoredOk(n) /\ LoadedOk(n))'
    <3>1. turns[n].job \in DOMAIN store => Past(n, store[turns[n].job])
      BY <1>1, <2>1 DEF Core, RunsOk, StoredOk
    <3>2. StoredOk(n)'
      BY <1>1, <3>1 DEF StoredOk, Past, OneShot
    <3>3. LoadedOk(n)'
      BY <1>1, <1>2, <3>1 DEF LoadedOk, Past, OneShot
    <3> QED
      BY <1>1, <3>2, <3>3
  <2> QED
    BY <1>1, <2>1 DEF RunsOk
<1>4. WaitOk'
  BY <1>1 DEF WaitOk
<1> QED
  BY <1>1, <1>3, <1>4, RowsCore

LEMMA SleepCore == ASSUME Types, Core, Sleep PROVE Core'
<1>1. /\ UNCHANGED <<clock, store, created, turns, crashes, faults, jobs, due>> /\ Losses' = Losses
      /\ pc = "next" /\ pc' = "wait" /\ due = {} /\ ~Running
  BY DEF Sleep, chat, limits, Losses, Running
<1>2. RunsOk'
  BY <1>1 DEF Core, RunsOk, StoredOk, LoadedOk, Past, OneShot
<1>3. WaitOk'
  BY <1>1 DEF WaitOk
<1> QED
  BY <1>1, <1>2, <1>3, RowsCore

(* The runner is done with the first of the due jobs, whose row is its own *)
(* and corrected.                                                          *)
LEMMA SavingCore ==
  ASSUME Types, RowsIn(jobs)', Core, UNCHANGED <<clock, store, created, turns, crashes, faults, due>>, due # {},
         pc \in {"next", "turn"}, pc' = "save", DOMAIN jobs' = DOMAIN jobs,
         \A i \in DOMAIN jobs : i # Current => jobs'[i] = jobs[i],
         ~OneShot(Current) => jobs'[Current].next > clock,
         pc = "turn" /\ OneShot(Current) => ~jobs'[Current].enabled
  PROVE  Core'
<1>1. Losses' = Losses /\ First' = First /\ Current' = Current
  BY DEF Losses, First, Current
<1>2. First \in due /\ First \in DOMAIN created /\ created[First] = Current /\ Current \in Jobs
      /\ Current \in DOMAIN jobs
  BY FirstIsDue DEF Types, Current
<1>3. ASSUME NEW n \in DOMAIN turns, turns[n].losses = Losses PROVE (StoredOk(n) /\ LoadedOk(n))'
  <2>1. StoredOk(n) /\ LoadedOk(n) /\ turns[n].began <= clock /\ turns[n].began \in Nat /\ clock \in Nat
    BY <1>3, TurnFields DEF Core, RunsOk, PushedOk, Types, CountersOk
  <2>2. StoredOk(n)'
    BY <1>1, <2>1 DEF StoredOk, Past, Running, OneShot
  <2>3. ASSUME NEW i \in due, created[i] = turns[n].job
        PROVE  \/ Past(n, jobs'[created[i]])
               \/ i = First /\ OneShot(created[i]) /\ ~jobs'[created[i]].enabled
    <3>1. i \in DOMAIN created /\ created[i] \in DOMAIN jobs
      BY DEF Types, DueOk
    <3>2. CASE created[i] = Current
      <4>1. i = First
        BY <1>2, <3>1, <3>2 DEF Core, JobsOk, IsInjective
      <4>2. CASE OneShot(Current)
        <5>1. pc = "turn"
          BY <2>1, <2>3, <3>2, <4>2 DEF LoadedOk, Past
        <5> QED
          BY <3>2, <4>1, <4>2, <5>1
      <4>3. CASE ~OneShot(Current)
        <5>1. PICK x, b : x = jobs'[Current].next /\ b = turns[n].began
          OBVIOUS
        <5>2. x > clock /\ clock >= b /\ clock \in Nat /\ b \in Nat
          BY <2>1, <4>3, <5>1
        <5>3. x > b
          <6>1. x \in Nat
            <7>1. jobs'[Current] \in AnyRow
              BY <1>2 DEF RowsIn
            <7> QED
              BY <5>1, <7>1 DEF AnyRow
          <6> QED
            BY <5>2, <6>1
        <5> QED
          BY <2>3, <3>2, <4>3, <5>1, <5>3 DEF Past
      <4> QED
        BY <4>2, <4>3
    <3>3. CASE created[i] # Current
      <4>1. i # First
        BY <1>2, <3>3
      <4>2. Past(n, jobs[created[i]])
        BY <2>1, <2>3, <4>1 DEF LoadedOk
      <4> QED
        BY <3>1, <3>3, <4>2
    <3> QED
      BY <3>2, <3>3
  <2>4. LoadedOk(n)'
    BY <1>1, <2>3 DEF LoadedOk, Past, OneShot
  <2> QED
    BY <2>2, <2>4
<1>4. RunsOk'
  BY <1>1, <1>3 DEF RunsOk
<1>5. WaitOk'
  BY DEF WaitOk
<1> QED
  BY <1>4, <1>5, RowsCore

LEMMA SkipCore == ASSUME Types, Core, Skip PROVE Core'
<1>1. /\ Types' /\ DOMAIN jobs' = DOMAIN jobs /\ \A i \in DOMAIN jobs : i # Current => jobs'[i] = jobs[i]
      /\ ~OneShot(Current) => jobs'[Current].next > clock
  BY SkipTypes
<1>2. /\ UNCHANGED <<clock, store, created, turns, crashes, faults, due>> /\ due # {} /\ pc = "next" /\ pc' = "save"
  BY DEF Skip, limits
<1>3. RowsIn(jobs)'
  BY <1>1 DEF Types
<1> QED
  BY <1>1, <1>2, <1>3, SavingCore

LEMMA DrainCore == ASSUME Types, Core, Drain PROVE Core'
<1>1. pc = "turn" /\ turns # <<>> /\ Last(turns).job = Current /\ due # {}
  BY DEF Drain, Core, WaitOk, Types, DueOk
<1>2. Types' /\ Tidied(Current)
  BY <1>1, DrainTypes
<1>3. UNCHANGED <<clock, store, created, turns, crashes, faults, due>> /\ pc' = "save"
  BY DEF Drain, limits
<1>4. /\ DOMAIN jobs' = DOMAIN jobs /\ \A i \in DOMAIN jobs : i # Current => jobs'[i] = jobs[i]
      /\ ~OneShot(Current) => jobs'[Current].next > clock
      /\ OneShot(Current) => ~jobs'[Current].enabled
      /\ RowsIn(jobs)'
  BY <1>2 DEF Types, Tidied
<1> QED
  BY <1>1, <1>3, <1>4, SavingCore

LEMMA SaveCore == ASSUME Types, Core, Save PROVE Core'
<1>1. PICK j, f : j = Current /\ f = First
  OBVIOUS
<1>2. /\ WriteRow(j) /\ due' = due \ {f} /\ pc' = "next" /\ pc = "save" /\ due # {}
      /\ UNCHANGED <<clock, created, jobs, turns, crashes, faults>> /\ Losses' = Losses
  BY <1>1 DEF Save, limits, Losses, Types, DueOk
<1>3. f \in due /\ f \in DOMAIN created /\ created[f] = j
  BY <1>1, <1>2, FirstIsDue DEF Types, Current
<1>4. /\ DOMAIN store' \subseteq DOMAIN store
      /\ \A i \in DOMAIN store' : i # j => store'[i] = store[i]
      /\ j \in DOMAIN store' => store'[j] = jobs[j] /\ ~(OneShot(j) /\ ~jobs[j].enabled)
  BY <1>2 DEF WriteRow, Without
<1>5. ASSUME NEW n \in DOMAIN turns, turns[n].losses = Losses PROVE (StoredOk(n) /\ LoadedOk(n))'
  <2>1. StoredOk(n) /\ LoadedOk(n)
    BY <1>5 DEF Core, RunsOk
  <2>2. ASSUME turns[n].job \in DOMAIN store' PROVE Past(n, store'[turns[n].job])
    <3>1. CASE turns[n].job = j
      <4>1. Past(n, jobs[j])
        BY <1>1, <1>2, <1>3, <1>4, <2>1, <2>2, <3>1 DEF LoadedOk
      <4> QED
        BY <1>4, <2>2, <3>1, <4>1
    <3>2. CASE turns[n].job # j
      BY <1>1, <1>4, <2>1, <2>2, <3>2 DEF StoredOk
    <3> QED
      BY <3>1, <3>2
  <2>3. StoredOk(n)'
    BY <1>2, <2>2 DEF StoredOk, Past, OneShot
  <2>4. LoadedOk(n)'
    BY <1>1, <1>2, <2>1 DEF LoadedOk, Past, OneShot
  <2> QED
    BY <2>3, <2>4
<1>6. RunsOk'
  BY <1>2, <1>5 DEF RunsOk
<1>7. WaitOk'
  BY <1>2 DEF WaitOk
<1> QED
  BY <1>2, <1>4, <1>6, <1>7, RowsCore

LEMMA ResaveCore == ASSUME Types, Core, Resave PROVE Core'
<1>1. /\ pc' = "next" /\ pc = "resave" /\ DOMAIN store' \subseteq DOMAIN store
      /\ UNCHANGED <<clock, created, jobs, turns, crashes, faults>> /\ Losses' = Losses
  BY DEF Resave, limits, Losses
<1>2. \A n \in DOMAIN turns : turns[n].losses # Losses
  BY <1>1 DEF Core, RunsOk
<1>3. RunsOk'
  BY <1>1, <1>2 DEF RunsOk
<1>4. WaitOk'
  BY <1>1 DEF WaitOk
<1> QED
  BY <1>1, <1>3, <1>4, RowsCore

LEMMA FireCore == ASSUME Types, Core, Fire, Types' PROVE Core'
<1>1. PICK j, f : j = Current /\ f = First
  OBVIOUS
<1>2. PICK t, e : Pushed(t, e, j)
  BY <1>1, FireTypes
<1>3. /\ UNCHANGED <<clock, store, created, jobs, due, crashes, faults>> /\ pc = "next" /\ pc' = "turn" /\ due # {}
      /\ Losses' = Losses /\ First' = First /\ Current' = Current
  BY DEF Fire, limits, Losses, First, Current
<1>4. f \in due /\ f \in DOMAIN created /\ created[f] = j /\ j \in DOMAIN jobs
  BY <1>1, <1>3, FirstIsDue DEF Types, Current
<1>5. PICK k : k = Len(turns) + 1
  OBVIOUS
<1>6. turns \in Seq(AnyTurn) /\ turns' = Append(turns, t)
  BY <1>2 DEF Types, TreeOk, Pushed
<1>7. /\ k \in Nat /\ Len(turns') = k /\ turns'[k] = t /\ k \in DOMAIN turns' /\ k \notin DOMAIN turns
      /\ \A n \in DOMAIN turns : n \in DOMAIN turns' /\ turns'[n] = turns[n] /\ n \in Nat /\ n < k
      /\ \A n \in DOMAIN turns' : n = k \/ n \in DOMAIN turns
  BY <1>2, <1>5, <1>6 DEF Pushed
<1>8. t.job = j /\ t.due = jobs[j].next /\ t.began = clock /\ t.losses = Losses
  BY <1>2 DEF Pushed, Losses
<1>9. ASSUME NEW n \in DOMAIN turns, turns[n].job = j
      PROVE  /\ turns[n].losses = Losses => jobs[j].next > turns[n].began /\ ~OneShot(j)
             /\ turns[n].losses \in Nat /\ turns[n].losses <= Losses
  <2>1. turns[n].losses \in Nat /\ turns[n].losses <= Losses
    BY TurnFields DEF Types, Core, PushedOk
  <2>2. ASSUME turns[n].losses = Losses PROVE Past(n, jobs[j])
    <3>1. LoadedOk(n)
      BY <2>2 DEF Core, RunsOk
    <3> QED
      BY <1>3, <1>4, <1>9, <3>1 DEF LoadedOk
  <2> QED
    BY <1>9, <2>1, <2>2 DEF Past
<1>10. RunsAreNotRepeated'
  <2>1. Losses \in Nat
    BY DEF Losses, Types, CountersOk
  <2>2. ASSUME NEW m \in DOMAIN turns', NEW n \in DOMAIN turns', m < n, turns'[m].job = turns'[n].job
        PROVE  /\ turns'[m].losses = turns'[n].losses => turns'[n].due > turns'[m].began
               /\ OneShot(turns'[m].job) => turns'[m].losses < turns'[n].losses
    <3>1. m \in DOMAIN turns
      BY <1>7, <2>2
    <3>2. CASE n = k
      <4>1. turns[m].job = j /\ turns'[m] = turns[m] /\ turns'[n] = t
        BY <1>7, <1>8, <2>2, <3>1, <3>2
      <4> QED
        BY <1>8, <1>9, <2>1, <3>1, <4>1
    <3>3. CASE n \in DOMAIN turns
      BY <1>7, <2>2, <3>1, <3>3 DEF Core, RunsAreNotRepeated, OncePerOccurrence, OneShotsFireOnce
    <3> QED
      BY <1>7, <3>2, <3>3
  <2> QED
    BY <2>2 DEF RunsAreNotRepeated, OncePerOccurrence, OneShotsFireOnce, OneShot
<1>11. PushedOk'
  <2>1. j \in Range(created) /\ Losses \in Nat /\ clock \in Nat
    BY <1>4 DEF Range, Losses, Types, CountersOk
  <2> QED
    BY <1>3, <1>7, <1>8, <2>1 DEF Core, PushedOk
<1>12. JobsOk'
  BY <1>3 DEF Core, JobsOk
<1>13. WaitOk'
  BY <1>1, <1>3, <1>7, <1>8 DEF WaitOk, Last
<1>14. RunsOk'
  <2>1. ASSUME NEW n \in DOMAIN turns', turns'[n].losses = Losses PROVE (StoredOk(n) /\ LoadedOk(n))'
    <3>1. CASE n = k
      <4>1. StoredOk(n)'
        BY <1>1, <1>3, <1>7, <1>8, <3>1 DEF StoredOk, Running
      <4>2. LoadedOk(n)'
        <5>1. \A i \in due : created[i] = j => i = f
          BY <1>4 DEF Core, JobsOk, IsInjective, Types, DueOk
        <5> QED
          BY <1>1, <1>3, <1>7, <1>8, <3>1, <5>1 DEF LoadedOk
      <4> QED
        BY <4>1, <4>2
    <3>2. CASE n \in DOMAIN turns
      <4>1. turns'[n] = turns[n] /\ StoredOk(n) /\ LoadedOk(n)
        BY <1>7, <2>1, <3>2 DEF Core, RunsOk
      <4>2. StoredOk(n)'
        BY <1>3, <4>1 DEF StoredOk, Past, OneShot, Running
      <4>3. LoadedOk(n)'
        BY <1>3, <4>1 DEF LoadedOk, Past, OneShot
      <4> QED
        BY <4>2, <4>3
    <3> QED
      BY <1>7, <3>1, <3>2
  <2> QED
    BY <1>3, <2>1 DEF RunsOk
<1> QED
  BY <1>10, <1>11, <1>12, <1>13, <1>14 DEF Core

LEMMA LosesCore == ASSUME Types, Core, JobRaises \/ IterationFails PROVE Core'
<1>1. /\ UNCHANGED <<store, created, turns, clock>> /\ Losses' = Losses + 1 /\ pc' # "turn"
  <2>1. UNCHANGED <<store, created, turns, clock, crashes>> /\ faults' = faults + 1 /\ pc' # "turn"
    BY DEF JobRaises, IterationFails, Fault
  <2>2. crashes \in Nat /\ faults \in Nat
    BY DEF Types, CountersOk
  <2> QED
    BY <2>1, <2>2 DEF Losses
<1>2. SameTurns
  BY <1>1 DEF SameTurns
<1> QED
  BY <1>1, <1>2, LossCore

LEMMA CrashCore == ASSUME Types, Core, Crash PROVE Core'
<1>1. /\ UNCHANGED <<store, created, clock>> /\ Losses' = Losses + 1 /\ pc' # "turn"
  <2>1. UNCHANGED <<store, created, clock, faults>> /\ crashes' = crashes + 1 /\ pc' # "turn"
    BY DEF Crash
  <2>2. crashes \in Nat /\ faults \in Nat
    BY DEF Types, CountersOk
  <2> QED
    BY <2>1, <2>2 DEF Losses
<1>2. SameTurns
  BY CrashTypes, StatesOnly
<1> QED
  BY <1>1, <1>2, LossCore

LEMMA InitCore == ASSUME Init PROVE Core
<1>1. created = <<>> /\ store = <<>> /\ turns = <<>> /\ pc = "off"
  BY DEF Init
<1>2. DOMAIN created = {} /\ DOMAIN store = {} /\ DOMAIN turns = {}
  BY <1>1
<1> QED
  BY <1>1, <1>2 DEF Core, JobsOk, IsInjective, PushedOk, RunsOk, WaitOk, RunsAreNotRepeated, OncePerOccurrence,
                    OneShotsFireOnce

Inv == AskedIsNew /\ Types /\ Core

LEMMA TypesKept == ASSUME Inv, [Next]_vars PROVE Types'
<1>1. Types
  BY DEF Inv
<1>2. ASSUME NEW j \in Jobs, Ask(j) PROVE Types'
  BY <1>1, <1>2, AskTypes
<1>3. ASSUME NEW j \in Jobs, NEW n \in DOMAIN turns, AskAgain(n, j) PROVE Types'
  BY <1>1, <1>3, AskAgainTypes
<1>4. ASSUME NEW j \in Jobs, Cancel(j) PROVE Types'
  BY <1>1, <1>4, CancelTypes
<1>5. ASSUME NEW n \in DOMAIN turns, NEW outcome \in {"done", "failed"}, TurnEnds(n, outcome) PROVE Types'
  BY <1>1, <1>5, TurnEndsTypes
<1>6. ASSUME NEW standing, ChangeCreator(standing) PROVE Types'
  BY <1>1, <1>6, ChangeCreatorTypes
<1>7. CASE Drain
  <2>1. turns # <<>> /\ Last(turns).job = Current
    BY <1>7 DEF Inv, Core, WaitOk, Drain
  <2> QED
    BY <1>1, <1>7, <2>1, DrainTypes
<1>8. CASE Start \/ Iterate \/ Sleep \/ Skip \/ Fire
  BY <1>1, <1>8, LoadTypes, SleepTypes, SkipTypes, FireTypes
<1>9. CASE Save \/ JobRaises \/ Resave \/ IterationFails
  BY <1>1, <1>9, SaveTypes, JobRaisesTypes, ResaveTypes, IterationFailsTypes
<1>10. CASE Message \/ Add \/ Tick \/ Crash \/ UNCHANGED vars
  BY <1>1, <1>10, MessageTypes, AddTypes, TickTypes, CrashTypes, StutterTypes
<1> QED
  BY <1>2, <1>3, <1>4, <1>5, <1>6, <1>7, <1>8, <1>9, <1>10 DEF Next, Runner

LEMMA CoreKept == ASSUME Inv, [Next]_vars, Types' PROVE Core'
<1>1. Types /\ Core /\ AskedIsNew
  BY DEF Inv
<1>2. turns' = turns => SameTurns
  BY DEF SameTurns
<1>3. turns' \in Seq(AnyTurn)
  BY DEF Types, TreeOk
<1>4. ASSUME NEW j \in Jobs, Ask(j) PROVE Core'
  BY <1>1, <1>2, <1>3, <1>4, ElsewhereCore DEF Ask, runner, limits
<1>5. ASSUME NEW j \in Jobs, NEW n \in DOMAIN turns, AskAgain(n, j) PROVE Core'
  BY <1>1, <1>2, <1>3, <1>5, ElsewhereCore DEF AskAgain, runner, limits
<1>6. ASSUME NEW n \in DOMAIN turns, NEW outcome \in {"done", "failed"}, TurnEnds(n, outcome) PROVE Core'
  <2>1. SameTurns
    BY <1>1, <1>6, TurnEndsTypes, StatesOnly
  <2> QED
    BY <1>1, <1>3, <1>6, <2>1, ElsewhereCore DEF TurnEnds, runner, limits
<1>7. ASSUME NEW standing, ChangeCreator(standing) PROVE Core'
  BY <1>1, <1>2, <1>3, <1>7, ElsewhereCore DEF ChangeCreator, runner
<1>8. CASE Message \/ Tick \/ UNCHANGED vars
  BY <1>1, <1>2, <1>3, <1>8, ElsewhereCore DEF Message, Tick, vars, runner, limits
<1>9. ASSUME NEW j \in Jobs, Cancel(j) PROVE Core'
  BY <1>1, <1>9, CancelCore
<1>10. CASE Add \/ Crash
  BY <1>1, <1>10, AddCore, CrashCore
<1>11. CASE Start \/ Iterate \/ Sleep \/ Skip \/ Fire \/ Drain
  BY <1>1, <1>11, LoadCore, SleepCore, SkipCore, FireCore, DrainCore
<1>12. CASE Save \/ JobRaises \/ Resave \/ IterationFails
  BY <1>1, <1>12, SaveCore, LosesCore, ResaveCore
<1> QED
  BY <1>4, <1>5, <1>6, <1>7, <1>8, <1>9, <1>10, <1>11, <1>12 DEF Next, Runner

LEMMA InvAlways == Spec => []Inv
<1>1. Init => Inv
  BY InitAsked, InitTypes, InitCore DEF Inv
<1>2. Inv /\ [Next]_vars => Inv'
  BY StepAsked, TypesKept, CoreKept DEF Inv
<1> QED
  BY <1>1, <1>2, PTL DEF Spec

(* What has run is not run again.                                          *)
THEOREM WhatRanIsDone == Spec => []RunsAreNotRepeated
<1>1. Inv => RunsAreNotRepeated
  BY DEF Inv, Core
<1> QED
  BY <1>1, InvAlways, PTL

-----------------------------------------------------------------------------
(* What the chat sees.                                                     *)

(* No turn of an isolated job is on a node.                                *)
Clean(ts, node) ==
  \A i \in DOMAIN node : node[i].from = "job" =>
    node[i].id \in DOMAIN ts /\ ts[node[i].id].job \notin Isolated

ChatOk ==
  /\ Clean(turns, cursor)
  /\ Chat \in DOMAIN settled => Clean(turns, settled[Chat])
  /\ asking # None => Clean(turns, asking.node)
  /\ \A n \in DOMAIN turns : turns[n].key = Chat => Clean(turns, turns[n].node)

LEMMA RootIsClean == \A ts : Clean(ts, Root)
<1>1. DOMAIN Root = {}
  BY DEF Root
<1> QED
  BY <1>1 DEF Clean

LEMMA CleanAttach == ASSUME ChatOk, NEW seed, Clean(turns, seed) PROVE Clean(turns, Attach(Chat, seed))
BY DEF ChatOk, Attach

LEMMA CleanAppend ==
  ASSUME NEW node \in Nodes, NEW e \in Entry, NEW ts, Clean(ts, node),
         e.from = "job" => e.id \in DOMAIN ts /\ ts[e.id].job \notin Isolated
  PROVE  Clean(ts, Append(node, e))
<1>1. node \in Seq(Entry)
  BY DEF Nodes
<1>2. PICK new : new = Append(node, e)
  OBVIOUS
<1>3. \A i \in DOMAIN new : new[i] = e \/ (i \in DOMAIN node /\ new[i] = node[i])
  BY <1>1, <1>2
<1> QED
  BY <1>2, <1>3 DEF Clean

(* Turns that were pushed stay.                                            *)
LEMMA CleanStays ==
  ASSUME Types, SameTurns \/ \E t : turns' = Append(turns, t), NEW node, Clean(turns, node)
  PROVE  Clean(turns', node)
<1>1. turns \in Seq(AnyTurn)
  BY DEF Types, TreeOk
<1>2. \A n \in DOMAIN turns : n \in DOMAIN turns' /\ turns'[n].job = turns[n].job
  BY <1>1 DEF SameTurns
<1> QED
  BY <1>2 DEF Clean

(* A step that settles the chat, if at all, on a clean node.               *)
LEMMA SettlesClean ==
  ASSUME Types, ChatOk, SameTurns, Clean(turns, cursor'), asking' # None => Clean(turns, asking'.node),
         NEW key, NEW node \in Nodes, key = Chat => Clean(turns, node),
         settled' = settled \/ settled' = Settle(key, node)
  PROVE  ChatOk'
<1>1. Chat \in DOMAIN settled' => Clean(turns, settled'[Chat])
  BY DEF ChatOk, Settle
<1>2. \A n \in DOMAIN turns' : turns'[n].key = Chat => Clean(turns, turns'[n].node)
  BY DEF ChatOk, SameTurns
<1>3. \A n : Clean(turns, n) => Clean(turns', n)
  BY CleanStays
<1> QED
  BY <1>1, <1>2, <1>3 DEF ChatOk

LEMMA KeyIsChat == ASSUME RowsIn(jobs), NEW j \in DOMAIN jobs PROVE Key(j) = Chat <=> j \notin Isolated
<1>1. jobs[j].node \in Seq(Entry)
  <2>1. jobs[j] \in AnyRow
    BY DEF RowsIn
  <2> QED
    BY <2>1 DEF AnyRow, Nodes
<1>2. Root \in Seq(Entry)
  BY DEF Root
<1> QED
  BY <1>1, <1>2, ChatIsNoNode DEF Key, Seed

LEMMA MessageChat == ASSUME Types, ChatOk, Message PROVE ChatOk'
<1>1. PICK at, e : at = Attach(Chat, cursor)
                   /\ e = [from |-> "message", id |-> messages, platform |-> Delta(cursor, "discord")]
  OBVIOUS
<1>2. at \in Nodes /\ messages \in Nat /\ Clean(turns, at)
  BY <1>1, AttachIsNode, CleanAttach DEF Types, TreeOk, CountersOk, ChatOk
<1>3. e \in Entry /\ e.from = "message" /\ Append(at, e) \in Nodes
  BY <1>1, <1>2, NewEntry
<1>4. Clean(turns, Append(at, e))
  BY <1>2, <1>3, CleanAppend
<1>5. cursor' = Append(at, e) /\ settled' = Settle(Chat, cursor') /\ turns' = turns /\ asking' = asking
  BY <1>1 DEF Message
<1>6. SameTurns
  BY <1>5 DEF SameTurns
<1>7. asking' # None => Clean(turns, asking'.node)
  BY <1>5 DEF ChatOk
<1> QED
  BY <1>3, <1>4, <1>5, <1>6, <1>7, SettlesClean

LEMMA AskChat == ASSUME Types, ChatOk, NEW j \in Jobs, Ask(j) PROVE ChatOk'
<1>1. PICK at, e, node : /\ at = Attach(Chat, cursor)
                         /\ e = [from |-> "request", id |-> j, platform |-> Delta(cursor, "discord")]
                         /\ node = Append(at, e)
  OBVIOUS
<1>2. at \in Nodes /\ Clean(turns, at)
  BY <1>1, AttachIsNode, CleanAttach DEF Types, TreeOk, ChatOk
<1>3. e \in Entry /\ e.from = "request"
  BY <1>1, <1>2, NewEntry
<1>4. Clean(turns, node)
  BY <1>1, <1>2, <1>3, CleanAppend
<1>5. cursor' = node /\ settled' = Settle(Chat, at) /\ turns' = turns /\ asking'.node = node
  BY <1>1 DEF Ask
<1>6. SameTurns
  BY <1>5 DEF SameTurns
<1> QED
  BY <1>2, <1>4, <1>5, <1>6, SettlesClean

LEMMA AskAgainChat ==
  ASSUME Types, ChatOk, NEW j \in Jobs, NEW n \in DOMAIN turns, AskAgain(n, j) PROVE ChatOk'
<1>1. /\ asking'.node = turns[n].node /\ turns[n].key = Chat
      /\ cursor' = cursor /\ settled' = settled /\ turns' = turns
  BY DEF AskAgain, chat
<1>2. Clean(turns, asking'.node) /\ Clean(turns, cursor')
  BY <1>1 DEF ChatOk
<1>3. SameTurns
  BY <1>1 DEF SameTurns
<1>4. cursor \in Nodes /\ (Chat = Chat => Clean(turns, cursor))
  BY DEF Types, TreeOk, ChatOk
<1> QED
  BY <1>1, <1>2, <1>3, <1>4, SettlesClean

LEMMA AddChat == ASSUME Types, ChatOk, Add PROVE ChatOk'
<1>1. /\ asking # None /\ asking' = None /\ cursor' = cursor /\ turns' = turns
      /\ settled' = settled \/ settled' = Settle(Chat, asking.node)
  BY DEF Add
<1>2. asking.node \in Nodes /\ Clean(turns, asking.node) /\ Clean(turns, cursor')
  BY <1>1 DEF Types, CallOk, Calls, ChatOk
<1>3. SameTurns
  BY <1>1 DEF SameTurns
<1> QED
  BY <1>1, <1>2, <1>3, SettlesClean

LEMMA TurnEndsChat ==
  ASSUME Types, Types', ChatOk, NEW n \in DOMAIN turns, NEW outcome \in {"done", "failed"}, TurnEnds(n, outcome)
  PROVE  ChatOk'
<1>1. SameTurns
  BY TurnEndsTypes, StatesOnly
<1>2. settled' = Settle(turns[n].key, turns[n].node) /\ cursor' = cursor /\ asking' = asking
  BY DEF TurnEnds
<1>3. turns[n].node \in Nodes /\ (turns[n].key = Chat => Clean(turns, turns[n].node))
  BY TurnFields DEF Types, AnyTurn, ChatOk
<1>4. Clean(turns, cursor') /\ (asking' # None => Clean(turns, asking'.node))
  BY <1>2 DEF ChatOk
<1> QED
  BY <1>1, <1>2, <1>3, <1>4, SettlesClean

LEMMA CrashChat == ASSUME Types, Types', ChatOk, Crash PROVE ChatOk'
<1>1. SameTurns
  BY CrashTypes, StatesOnly
<1>2. settled' = <<>> /\ cursor' = cursor /\ asking' = None
  BY DEF Crash
<1>3. \A node : Clean(turns, node) => Clean(turns', node)
  BY <1>1, CleanStays
<1>4. Chat \notin DOMAIN settled'
  BY <1>2
<1>5. \A n \in DOMAIN turns' : turns'[n].key = Chat => Clean(turns, turns'[n].node)
  BY <1>1 DEF ChatOk, SameTurns
<1> QED
  BY <1>2, <1>3, <1>4, <1>5 DEF ChatOk

LEMMA FireChat == ASSUME Types, ChatOk, Fire PROVE ChatOk'
<1>1. PICK j : j = Current
  OBVIOUS
<1>2. PICK t, e : Pushed(t, e, j)
  BY <1>1, FireTypes
<1>3. j \in DOMAIN jobs /\ RowsIn(jobs)
  BY <1>1, FirstIsDue DEF Types, Fire
<1>4. PICK at : at = Attach(Key(j), Seed(j))
  OBVIOUS
<1>5. /\ settled' = Settle(Key(j), at) /\ cursor' = cursor /\ asking' = asking
      /\ turns' = Append(turns, t) /\ turns \in Seq(AnyTurn) /\ at \in Nodes
      /\ t.job = j /\ t.key = Key(j) /\ t.node = Append(at, e)
      /\ e \in Entry /\ e.id = Len(turns) + 1
  BY <1>1, <1>2, <1>4 DEF Fire, Pushed, Types, TreeOk
<1>6. \A node : Clean(turns, node) => Clean(turns', node)
  BY <1>5, CleanStays
<1>7. Key(j) = Chat => j \notin Isolated /\ Clean(turns, at)
  <2>1. ASSUME Key(j) = Chat PROVE j \notin Isolated /\ at = Attach(Chat, Root)
    <3>1. j \notin Isolated
      BY <1>3, <2>1, KeyIsChat
    <3> QED
      BY <1>4, <2>1, <3>1 DEF Seed
  <2> QED
    BY <2>1, RootIsClean, CleanAttach
<1>8. Chat \in DOMAIN settled' => Clean(turns', settled'[Chat])
  <2>1. CASE Key(j) = Chat
    <3>1. settled'[Chat] = at
      BY <1>5, <2>1 DEF Settle
    <3> QED
      BY <1>6, <1>7, <2>1, <3>1
  <2>2. CASE Key(j) # Chat
    BY <1>5, <1>6, <2>2 DEF ChatOk, Settle
  <2> QED
    BY <2>1, <2>2
<1>9. ASSUME NEW n \in DOMAIN turns', turns'[n].key = Chat PROVE Clean(turns', turns'[n].node)
  <2>1. \/ n \in DOMAIN turns /\ turns'[n] = turns[n]
        \/ n = Len(turns) + 1 /\ turns'[n] = t
    BY <1>5
  <2>2. CASE n \in DOMAIN turns /\ turns'[n] = turns[n]
    BY <1>6, <1>9, <2>2 DEF ChatOk
  <2>3. CASE n = Len(turns) + 1 /\ turns'[n] = t
    <3>1. Clean(turns', at) /\ j \notin Isolated
      BY <1>5, <1>6, <1>7, <1>9, <2>3
    <3>2. e.id \in DOMAIN turns' /\ turns'[e.id].job \notin Isolated
      BY <1>5, <2>3, <3>1
    <3> QED
      BY <1>5, <2>3, <3>1, <3>2, CleanAppend
  <2> QED
    BY <2>1, <2>2, <2>3
<1>10. Clean(turns', cursor') /\ (asking' # None => Clean(turns', asking'.node))
  BY <1>5, <1>6 DEF ChatOk
<1> QED
  BY <1>8, <1>9, <1>10 DEF ChatOk

LEMMA ChatKept == ASSUME Inv, ChatOk, [Next]_vars, Types' PROVE ChatOk'
<1>1. Types
  BY DEF Inv
<1>2. CASE UNCHANGED <<turns, settled, cursor, asking>>
  BY <1>2 DEF ChatOk
<1>3. ASSUME NEW j \in Jobs, Ask(j) PROVE ChatOk'
  BY <1>1, <1>3, AskChat
<1>4. ASSUME NEW j \in Jobs, NEW n \in DOMAIN turns, AskAgain(n, j) PROVE ChatOk'
  BY <1>1, <1>4, AskAgainChat
<1>5. ASSUME NEW n \in DOMAIN turns, NEW outcome \in {"done", "failed"}, TurnEnds(n, outcome) PROVE ChatOk'
  BY <1>1, <1>5, TurnEndsChat
<1>6. CASE Message \/ Add \/ Crash \/ Fire
  BY <1>1, <1>6, MessageChat, AddChat, CrashChat, FireChat
<1>7. ASSUME NEW j \in Jobs, Cancel(j) PROVE ChatOk'
  BY <1>2, <1>7 DEF Cancel, chat
<1>8. ASSUME NEW standing, ChangeCreator(standing) PROVE ChatOk'
  BY <1>2, <1>8 DEF ChangeCreator, chat
<1>9. CASE Start \/ Iterate \/ Sleep \/ Skip \/ Drain \/ Save \/ JobRaises \/ Resave \/ IterationFails
  BY <1>2, <1>9 DEF Start, Iterate, Sleep, Skip, Drain, Save, JobRaises, Resave, IterationFails, Fault, chat
<1>10. CASE Tick \/ UNCHANGED vars
  BY <1>2, <1>10 DEF Tick, vars, chat
<1> QED
  BY <1>3, <1>4, <1>5, <1>6, <1>7, <1>8, <1>9, <1>10 DEF Next, Runner

LEMMA InitChat == Init => ChatOk
<1> SUFFICES ASSUME Init PROVE ChatOk
  OBVIOUS
<1>1. turns = <<>> /\ settled = <<>> /\ cursor = Root /\ asking = None
  BY DEF Init
<1>2. DOMAIN turns = {} /\ DOMAIN settled = {}
  BY <1>1
<1> QED
  BY <1>1, <1>2, RootIsClean DEF ChatOk

(* "isolated" jobs never touch the channel's live history.                 *)
THEOREM IsolatedTurnsStayOut == Spec => []ChatSeesNoIsolatedTurn
<1>1. Inv /\ ChatOk /\ [Next]_vars => Inv' /\ ChatOk'
  BY TypesKept, CoreKept, StepAsked, ChatKept DEF Inv
<1>2. ASSUME Inv, ChatOk PROVE ChatSeesNoIsolatedTurn
  <2>1. PICK at, channel : at = Attach(Chat, Root) /\ channel = cursor \o at
    OBVIOUS
  <2>2. cursor \in Seq(Entry) /\ at \in Seq(Entry)
    <3>1. Types /\ Root \in Nodes
      BY <1>2 DEF Inv, Root, Nodes
    <3> QED
      BY <2>1, <3>1, AttachIsNode DEF Types, TreeOk, Nodes
  <2>3. Clean(turns, cursor) /\ Clean(turns, at)
    BY <1>2, <2>1, RootIsClean, CleanAttach DEF ChatOk
  <2>4. \A i \in DOMAIN channel : \/ i \in DOMAIN cursor /\ channel[i] = cursor[i]
                                  \/ i - Len(cursor) \in DOMAIN at /\ channel[i] = at[i - Len(cursor)]
    BY <2>1, <2>2, ConcatProperties
  <2>5. Clean(turns, channel)
    BY <2>3, <2>4 DEF Clean
  <2> QED
    BY <2>1, <2>5 DEF Clean, ChatSeesNoIsolatedTurn
<1>3. Init => Inv /\ ChatOk
  BY InitAsked, InitTypes, InitCore, InitChat DEF Inv
<1> QED
  BY <1>1, <1>2, <1>3, PTL DEF Spec
=============================================================================
