------------------------------ MODULE Librarian ------------------------------
(***************************************************************************)
(* The background librarian (TinyCTX/modules/memory): LibrarianRunner      *)
(* polls once a minute, takes messages from its queue, walks the           *)
(* conversation tree for nodes no extractor has seen, and starts           *)
(* extractors, reviewers and the deduper as tasks; reviewers drain a queue *)
(* of issues that is kept in a file.  Flags of nodes, the issue queue and  *)
(* the times of the last runs survive a restart, the rest does not.        *)
(*                                                                         *)
(* What an extractor and the deduper do to the graph is MemoryGraph; here  *)
(* a problem of the graph is there or not, and flaggers see those there.   *)
(***************************************************************************)
EXTENDS Integers, Sequences, FiniteSets, SequencesExt

CONSTANTS
  Nodes,             \* nodes of the conversation tree, in the order of their ids
  Branch,            \* node -> the nodes from its root to it
  Silent,            \* nodes that render to nothing (tool results, blanks)
  BatchSize, OverlapNodes, MaxConcurrent,   \* librarian.* in the configuration
  Problems,          \* issues that flaggers may find, by their keys
  MaxEvents          \* bound: together, the new problems, calls of call_librarian, restarts,
                     \* and intervals of the reviewer and the deduper after the first

ASSUME LibrarianConstants ==
  /\ Nodes \subseteq Nat \ {0} /\ Silent \subseteq Nodes
  /\ {BatchSize, MaxConcurrent} \subseteq Nat \ {0} /\ {OverlapNodes, MaxEvents} \subseteq Nat

(* A branch ends with its node, and begins with the branches of the others.*)
ASSUME BranchesAreATree ==
  /\ Branch \in [Nodes -> Seq(Nodes)]
  /\ \A n \in Nodes : Branch[n] # <<>> /\ Last(Branch[n]) = n
  /\ \A n \in Nodes : \A i \in DOMAIN Branch[n] : Branch[Branch[n][i]] = SubSeq(Branch[n], 1, i)

VARIABLES
  exist,       \* nodes written so far
  visited,     \* nodes with the flag librarian_visited
  given,       \* node -> extractors it was given to as new text (history)
  turn,        \* the node a user's cycle is writing, or 0
  inbox,       \* LibrarianRunner.queue
  due,         \* background processes whose interval has passed
  poller,      \* _poll_cycle(): [pc, todo]
  task,        \* slot -> a task of _active_tasks; one slot too many, to see it stay free
  backlog,     \* ReviewerQueue._issues, as keys
  wrong,       \* problems of the graph that flaggers would report now
  events

libVars == <<exist, visited, given, turn, inbox, due, poller, task, backlog, wrong, events>>

Slots == 1..(MaxConcurrent + 1)
Free == [kind |-> "free", pc |-> "none", issue |-> "none"]
Asleep == [pc |-> "asleep", todo |-> {}]
Timers == {"walk", "review", "dedup"}

LibInit ==
  /\ exist = {} /\ visited = {} /\ given = [n \in Nodes |-> 0] /\ turn = 0
  /\ inbox = <<>> /\ due = Timers /\ poller = Asleep
  /\ task = [s \in Slots |-> Free] /\ backlog = <<>> /\ wrong = {}
  /\ events = 0

-----------------------------------------------------------------------------
(* The conversation, the graph and the clock.                              *)

(* The node before a node, or 0.                                           *)
Parent(n) == IF Len(Branch[n]) = 1 THEN 0 ELSE Branch[n][Len(Branch[n]) - 1]

StartTurn(n) ==
  /\ turn = 0 /\ n \notin exist /\ Parent(n) \in exist \union {0}
  /\ exist' = exist \union {n} /\ turn' = n
  /\ UNCHANGED <<visited, given, inbox, due, poller, task, backlog, wrong, events>>

(* The post-turn hook: enough text since the last time asks for the branch.*)
EndTurn(pressure) ==
  /\ turn # 0 /\ turn' = 0
  /\ inbox' = IF pressure THEN Append(inbox, <<"branch", turn>>) ELSE inbox
  /\ UNCHANGED <<exist, visited, given, due, poller, task, backlog, wrong, events>>

Running(s) == task[s].kind # "free" /\ task[s].pc # "done"

Elapse(timer) ==
  /\ timer \notin due /\ due' = due \union {timer}
  /\ \/ timer = "walk" /\ UNCHANGED events
     \/ timer # "walk" /\ events < MaxEvents /\ events' = events + 1
  /\ UNCHANGED <<exist, visited, given, turn, inbox, poller, task, backlog, wrong>>

Spoil(p) ==
  /\ events < MaxEvents /\ events' = events + 1
  /\ p \notin wrong /\ wrong' = wrong \union {p}
  /\ UNCHANGED <<exist, visited, given, turn, inbox, due, poller, task, backlog>>

Tails == {n \in exist : \A m \in exist : Parent(m) # n}
Least(S) == CHOOSE n \in S : \A m \in S : n <= m

(* call_librarian(): with a prompt an issue for the front of the queue,    *)
(* without one the branch of the first tail.                               *)
CallLibrarian(prompt) ==
  /\ events < MaxEvents /\ events' = events + 1
  /\ inbox' = IF prompt THEN Append(inbox, <<"front", "manual">>)
              ELSE IF Tails = {} THEN inbox ELSE Append(inbox, <<"branch", Least(Tails)>>)
  /\ UNCHANGED <<exist, visited, given, turn, due, poller, task, backlog, wrong>>

-----------------------------------------------------------------------------
(* _dispatch_branch()                                                      *)

(* Mutant: only the tip is flagged and read, not the branch.               *)
FlaggedTip(n, flags) == IF n \in flags THEN <<>> ELSE <<n>>

(* db.flag_branch(): upwards to the first node that has the flag.          *)
Flagged(n, flags) ==
  LET up == Branch[n]
      known(i) == \E j \in i..Len(up) : up[j] \in flags
      first == CHOOSE i \in 1..(Len(up) + 1) : ~known(i) /\ (i = 1 \/ known(i - 1))
  IN SubSeq(up, first, Len(up))

Used(tasks) == {s \in Slots : tasks[s].kind # "free"}
Full(tasks) == Cardinality(Used(tasks)) >= MaxConcurrent

NewTask(kind) == [kind |-> kind, pc |-> "start", issue |-> "none"]
Started(tasks, kind) == [tasks EXCEPT ![Least(Slots \ Used(tasks))] = NewTask(kind)]

(* nodes_to_text(): tool results and blank messages render to nothing.     *)
Rendered(ids) == ids \ Silent

(* nodes_to_text(): the first BatchSize of them, after some older context; *)
(* an extractor is started unless all of that renders to nothing.          *)
DispatchBranch(n) ==
  LET new == Flagged(n, visited)
      batch == {new[i] : i \in 1..(IF Len(new) < BatchSize THEN Len(new) ELSE BatchSize)}
      older == Front(Branch[Head(new)])
      context == {older[i] : i \in {j \in DOMAIN older : j > Len(older) - OverlapNodes}}
      text == Rendered(batch)
  IN IF Full(task) \/ new = <<>> THEN UNCHANGED <<visited, given, task>>
     ELSE /\ visited' = visited \union Range(new)
          /\ IF text \union Rendered(context) = {} THEN UNCHANGED <<given, task>>
             ELSE /\ given' = [m \in Nodes |-> IF m \in text THEN given[m] + 1 ELSE given[m]]
                  /\ task' = Started(task, "extract")

-----------------------------------------------------------------------------
(* _poll_cycle(): between two steps it awaits a lock.                      *)

PollStart ==
  /\ poller.pc = "asleep"
  /\ poller' = [poller EXCEPT !.pc = "queue"]
  /\ task' = [s \in Slots |-> IF task[s].pc = "done" THEN Free ELSE task[s]]
  /\ UNCHANGED <<exist, visited, given, turn, inbox, due, backlog, wrong, events>>

(* ReviewerQueue.append_deduped() and push_front().                        *)
Queued(q, p) == \E i \in DOMAIN q : q[i] = p

PollMessage ==
  LET msg == Head(inbox)
  IN /\ poller.pc = "queue" /\ inbox # <<>>
     /\ inbox' = Tail(inbox)
     /\ IF msg[1] = "branch" THEN DispatchBranch(msg[2]) /\ UNCHANGED backlog
        ELSE /\ backlog' = IF Queued(backlog, msg[2]) THEN backlog ELSE <<msg[2]>> \o backlog
             /\ UNCHANGED <<visited, given, task>>
     /\ UNCHANGED <<exist, turn, due, poller, wrong, events>>

(* The scheduled walk begins, and is due again an interval later, whatever *)
(* comes of it.                                                            *)
PollWalk ==
  LET now == turn = 0 /\ "walk" \in due
  IN /\ poller.pc = "queue" /\ inbox = <<>>
     /\ due' = IF now THEN due \ {"walk"} ELSE due
     /\ poller' = [poller EXCEPT !.pc = IF now THEN "lock" ELSE "tasks"]
     /\ UNCHANGED <<exist, visited, given, turn, inbox, task, backlog, wrong, events>>

PollTails ==
  /\ poller.pc = "lock"
  /\ poller' = [pc |-> "walk", todo |-> Tails]
  /\ UNCHANGED <<exist, visited, given, turn, inbox, due, task, backlog, wrong, events>>

(* Mutant: a tail that brings nothing new ends the walk.                   *)
NextTailsUntilKnown(todo) == IF Least(todo) \in visited THEN {} ELSE todo \ {Least(todo)}

NextTails(todo) == todo \ {Least(todo)}

PollTail ==
  /\ poller.pc = "walk"
  /\ IF poller.todo = {} \/ Full(task)
     THEN poller' = [pc |-> "tasks", todo |-> {}] /\ UNCHANGED <<visited, given, task>>
     ELSE poller' = [poller EXCEPT !.todo = NextTails(@)] /\ DispatchBranch(Least(poller.todo))
  /\ UNCHANGED <<exist, turn, inbox, due, backlog, wrong, events>>

(* Mutant: another deduper may run.                                        *)
MayDedupAgain(tasks) == turn = 0 /\ "dedup" \in due

MayDedup(tasks) ==
  /\ turn = 0 /\ "dedup" \in due
  /\ \A s \in Slots : tasks[s].kind = "dedup" => tasks[s].pc = "done"

(* The reviewer, then the deduper, if there is room; the latter only one   *)
(* at a time.                                                              *)
PollTasks ==
  LET review == turn = 0 /\ "review" \in due /\ ~Full(task)
      first == IF review THEN Started(task, "review") ELSE task
      dedup == MayDedup(first) /\ ~Full(first)
  IN /\ poller.pc = "tasks" /\ poller' = Asleep
     /\ task' = IF dedup THEN Started(first, "dedup") ELSE first
     /\ due' = due \ ((IF review THEN {"review"} ELSE {}) \union (IF dedup THEN {"dedup"} ELSE {}))
     /\ UNCHANGED <<exist, visited, given, turn, inbox, backlog, wrong, events>>

Poll == PollStart \/ PollMessage \/ PollWalk \/ PollTails \/ PollTail \/ PollTasks

-----------------------------------------------------------------------------
(* Tasks.                                                                  *)

(* An extractor or the deduper ends, whatever came of it.                  *)
EndTask(s) ==
  /\ task[s].kind \in {"extract", "dedup"} /\ Running(s)
  /\ task' = [task EXCEPT ![s].pc = "done"]
  /\ UNCHANGED <<exist, visited, given, turn, inbox, due, poller, backlog, wrong, events>>

(* run_reviewer_cycle(): the flaggers are run once, and their issues are   *)
(* queued but for those queued already.                                    *)
Scan(s) ==
  /\ task[s].kind = "review" /\ task[s].pc = "start"
  /\ task' = [task EXCEPT ![s].pc = "next"]
  /\ backlog' = backlog \o SelectSeq(SetToSeq(wrong), LAMBDA p : ~Queued(backlog, p))
  /\ UNCHANGED <<exist, visited, given, turn, inbox, due, poller, wrong, events>>

(* ReviewerQueue.pop(): the file forgets the issue before it is worked on. *)
(* There is no flagger named "manual": such an issue is passed over.       *)
PopIssue(s) ==
  /\ task[s].kind = "review" /\ task[s].pc = "next"
  /\ backlog' = IF backlog = <<>> THEN backlog ELSE Tail(backlog)
  /\ task' = IF backlog = <<>> THEN [task EXCEPT ![s].pc = "done"]
             ELSE IF Head(backlog) \notin Problems THEN task
             ELSE [task EXCEPT ![s].pc = "work", ![s].issue = Head(backlog)]
  /\ UNCHANGED <<exist, visited, given, turn, inbox, due, poller, wrong, events>>

(* The subagent solves the issue or not; the next one waits a while.       *)
WorkIssue(s, solved) ==
  /\ task[s].pc = "work"
  /\ wrong' = IF solved THEN wrong \ {task[s].issue} ELSE wrong
  /\ task' = [task EXCEPT ![s].pc = "next", ![s].issue = "none"]
  /\ UNCHANGED <<exist, visited, given, turn, inbox, due, poller, backlog, events>>

TaskStep(s) == EndTask(s) \/ Scan(s) \/ PopIssue(s) \/ \E ok \in BOOLEAN : WorkIssue(s, ok)

StartAgain ==
  /\ events < MaxEvents /\ events' = events + 1
  /\ turn' = 0 /\ inbox' = <<>> /\ poller' = Asleep /\ task' = [s \in Slots |-> Free]
  /\ UNCHANGED <<exist, visited, given, due, backlog, wrong>>

LibNext ==
  \/ \E n \in Nodes : StartTurn(n)
  \/ \E b \in BOOLEAN : EndTurn(b) \/ CallLibrarian(b)
  \/ \E t \in Timers : Elapse(t)
  \/ \E p \in Problems : Spoil(p)
  \/ Poll
  \/ \E s \in Slots : TaskStep(s)
  \/ StartAgain

LibSpec == LibInit /\ [][LibNext]_libVars

-----------------------------------------------------------------------------
(* Whatever branches share, however messages, walks, growth and restarts   *)
(* interleave, no node is read as new by two extractors, and what an       *)
(* extractor is told it has seen before had been flagged: a flagged node's *)
(* ancestors are flagged.                                                  *)
ExtractedOnce ==
  \A n \in Nodes :
    /\ given[n] <= 1
    /\ n \in visited => Parent(n) \in visited \union {0}

(* max_concurrent holds over all ways to start a task, and one deduper     *)
(* runs at a time.                                                         *)
TasksAreBounded ==
  /\ Cardinality(Used(task)) <= MaxConcurrent
  /\ \A s, t \in Slots : task[s].kind = "dedup" /\ task[t].kind = "dedup" /\ Running(s) /\ Running(t) => s = t

(* The tasks share the work out: no turn to two of them, not too many at a *)
(* time.                                                                   *)
WorkIsSharedOut == ExtractedOnce /\ TasksAreBounded

(* No branch is starved by the order of the tails: if walks start again    *)
(* and again with room for a task, every node is flagged in the end.  (A   *)
(* walk that starts without room is lost until the next interval.)         *)
EveryNodeIsVisited ==
  []<>(poller.pc = "lock" /\ ~Full(task)) => \A n \in Nodes : n \in exist ~> n \in visited

(* The code does not keep these.  What is flagged was given to an          *)
(* extractor: not so for the nodes of a branch beyond the first BatchSize. *)
NothingIsSkipped == \A n \in visited \ Silent : given[n] > 0

(* An issue is with one reviewer at a time: not so if a reviewer outlasts  *)
(* the interval.                                                           *)
IssuesAreNotShared ==
  \A s, t \in Slots : task[s].issue = task[t].issue /\ task[s].issue # "none" => s = t

(* An issue pushed by call_librarian leaves the queue into a reviewer's    *)
(* hands: never so.                                                        *)
ManualIsReviewed ==
  [][Queued(backlog, "manual") /\ ~Queued(backlog', "manual")
       => \E s \in Slots : task'[s].issue = "manual"]_libVars
=============================================================================
