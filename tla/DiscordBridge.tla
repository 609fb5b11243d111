---------------------------- MODULE DiscordBridge ----------------------------
(***************************************************************************)
(* The Discord bridge (TinyCTX/bridges/discord): messages of a direct      *)
(* channel, a server channel and the threads opened on its messages become *)
(* turns; a cursor store on disk mirrors where each session stands, and    *)
(* remembers the node of each message so that a thread can fork there.     *)
(*                                                                         *)
(* push() takes its session lock and releases it without a suspension in   *)
(* between, so handle_turn() up to its first queue read is one step.  The  *)
(* awaits before it (attachments, mentions, the proxy-bot delay) are what  *)
(* lies between a message being sent and being taken.  The runtime is      *)
(* reduced to settled tails and runs; ForkRuntime models the rest.         *)
(*                                                                         *)
(* Node 0 is the root; path[i] holds the nodes from below the root to i.   *)
(***************************************************************************)
EXTENDS Integers, FiniteSets, Sequences

CONSTANTS
  MaxPosts,     \* bound: messages users send
  MaxWaiting,   \* bound: messages of a session sent and not yet taken
  MaxNodes,     \* bound: nodes ever written
  MaxThreads,   \* bound: threads opened
  MaxEvents,    \* bound: commands given and restarts of the process
  MaxMsgNodes,  \* CursorStore.MAX_MSG_NODES
  TurnTimeout,  \* options.turn_timeout_s is set
  MayLoseDb,    \* agent.db may be replaced while the process is down
  WithDms,      \* direct messages are enabled
  NoNode        \* None

ASSUME DiscordAssumption ==
  /\ {MaxPosts, MaxWaiting, MaxNodes, MaxThreads, MaxEvents, MaxMsgNodes} \subseteq Nat
  /\ MaxMsgNodes > 0
  /\ {TurnTimeout, MayLoseDb, WithDms} \subseteq BOOLEAN
  /\ NoNode \notin Nat

VARIABLES
  path, home,  \* node -> its ancestors and itself; the session it was written for
  alive,       \* nodes agent.db holds
  settled,     \* Runtime._settled
  runs,        \* Runtime._runs, by root node
  store,       \* CursorStore._cursors, and its file
  msgNodes,    \* CursorStore._msg_nodes, and its file: message -> its node
  epoch,       \* DiscordBridge._reset_epoch
  posts,       \* the messages sent, and how far the bridge is with each
  threads,     \* message -> state of the thread opened on it
  events,      \* how many so far
  reply,       \* history: run -> the node of its reply
  shown,       \* history: the runs of which something was posted
  crowded,     \* history: the runs another run of the session overlapped
  crossed,     \* history: the runs whose reading something else came into
  cut          \* history: session -> last node at its last quiet reset

tree == <<path, home, alive>>
memory == <<settled, runs, epoch>>
readings == <<crowded, crossed>>
history == <<reply, shown, readings, cut>>
vars == <<tree, memory, store, msgNodes, posts, threads, events, history>>

Dm == [kind |-> "dm", of |-> 0]
Group == [kind |-> "group", of |-> 0]
Thread(m) == [kind |-> "thread", of |-> m]       \* thread.id is its starter's id
Sessions == {Group} \union (IF WithDms THEN {Dm} ELSE {}) \union {Thread(m) : m \in DOMAIN threads}

Path(n) == IF n = 0 THEN {} ELSE path[n]
Fresh == Len(path) + 1
Unanswered == {u \in DOMAIN runs : runs[u].pc = "running"}
Room(k) == Len(path) + Cardinality(Unanswered) + k <= MaxNodes
With(f, k, v) == [j \in DOMAIN f \union {k} |-> IF j = k THEN v ELSE f[j]]
Get(f, k) == IF k \in DOMAIN f THEN f[k] ELSE NoNode

Init ==
  /\ path = <<>> /\ home = <<>> /\ alive = {}
  /\ settled = <<>> /\ runs = <<>> /\ epoch = <<>>
  /\ store = <<>> /\ msgNodes = <<>>
  /\ posts = <<>> /\ threads = <<>>
  /\ events = 0
  /\ reply = <<>> /\ shown = {} /\ crowded = {} /\ crossed = {} /\ cut = <<>>

-----------------------------------------------------------------------------
(* The cursor store.                                                       *)

(* set_msg_node(): beyond the cap the oldest entry goes.  A message gets    *)
(* its entry when its node is written, so the oldest has the least node.   *)
Remember(m, n) ==
  LET all == With(msgNodes, m, n)
      trimmed == {j \in DOMAIN all : Cardinality(DOMAIN all) > MaxMsgNodes
                                      /\ \A i \in DOMAIN all : all[j] <= all[i]}
  IN msgNodes' = [j \in DOMAIN all \ trimmed |-> all[j]]

MsgNode(m) == Get(msgNodes, m)

(* Mutant: a thread always starts where its channel stands.                *)
ForkPointAtTail(m) == Get(store, Group)

(* The node of the message the thread hangs on, else the channel's tail.   *)
ForkPoint(m) == IF MsgNode(m) # NoNode THEN MsgNode(m) ELSE Get(store, Group)

(* add_node() for session k below p.                                       *)
Grow(p, k) ==
  /\ path' = Append(path, Path(p) \union {Fresh})
  /\ home' = Append(home, k)
  /\ alive' = alive \union {Fresh}

(* Two nodes for session k, the second below the first.                    *)
GrowTwice(p, k) ==
  /\ path' = Append(Append(path, Path(p) \union {Fresh}), Path(p) \union {Fresh, Fresh + 1})
  /\ home' = Append(Append(home, k), k)
  /\ alive' = alive \union {Fresh, Fresh + 1}

Cursor(k) == Get(store, k)
AttachTo(k) == IF k \in DOMAIN settled THEN settled[k] ELSE Cursor(k)

(* _get_or_create_cursor() and push(): a session without a cursor has no   *)
(* settled tail either, and gets a session node first.                     *)
Pushed(k) == IF Cursor(k) = NoNode THEN Fresh + 1 ELSE Fresh
Attached(k) == IF Cursor(k) = NoNode THEN Fresh ELSE AttachTo(k)
Push(k) == IF Cursor(k) = NoNode THEN GrowTwice(0, k) ELSE Grow(AttachTo(k), k)

-----------------------------------------------------------------------------
Waiting(k) == {m \in DOMAIN posts : posts[m].at = "sent" /\ posts[m].key = k}

(* Users.  A direct message and a message in a thread always trigger; in a *)
(* channel the text, the keyword window or chance decide.  A message held  *)
(* for a proxy bot and deleted meanwhile, an empty one, or one from        *)
(* somebody without leave is never taken.                                  *)
Say(k, trigger) ==
  /\ Len(posts) < MaxPosts /\ Cardinality(Waiting(k)) < MaxWaiting
  /\ trigger \/ k = Group
  /\ posts' = Append(posts, [key |-> k, trigger |-> trigger, at |-> "sent", epoch |-> 0, tail |-> 0, queue |-> <<>>])
  /\ UNCHANGED <<tree, memory, store, msgNodes, threads, events, history>>

Gone(post) == [key |-> post.key, trigger |-> FALSE, at |-> "gone", epoch |-> 0, tail |-> 0, queue |-> <<>>]

(* The runs of a session, and what its turns are still reading.            *)
Peers(k) == {u \in DOMAIN runs : runs[u].key = k}
Readers(k) == {m \in DOMAIN posts : posts[m].at = "draining" /\ posts[m].key = k}
Busy(k) == Peers(k) \union {posts[m].tail : m \in Readers(k)}

(* _push_passive().                                                        *)
TakePassive(m) ==
  LET k == posts[m].key
  IN /\ posts[m].at = "sent" /\ ~posts[m].trigger
     /\ Room(Pushed(k) - Len(path))
     /\ Push(k)
     /\ settled' = With(settled, k, Pushed(k))
     /\ store' = With(store, k, Pushed(k))
     /\ Remember(m, Pushed(k))
     /\ posts' = [posts EXCEPT ![m] = Gone(@)]
     /\ crossed' = crossed \union Busy(k)
     /\ UNCHANGED <<runs, epoch, threads, events, reply, shown, crowded, cut>>

(* _handle_thread_message(): the thread has a cursor from here on.         *)
TakeThread(m) ==
  LET k == posts[m].key
      fork == ForkPoint(k.of)
  IN /\ posts[m].at = "sent" /\ k.kind = "thread"
     /\ posts' = [posts EXCEPT ![m].at = "dispatched"]
     /\ \/ /\ Cursor(k) # NoNode
           /\ UNCHANGED <<tree, store>>
        \/ /\ Cursor(k) = NoNode /\ fork # NoNode
           /\ store' = With(store, k, fork)
           /\ UNCHANGED tree
        \/ /\ Cursor(k) = NoNode /\ fork = NoNode /\ Room(1)
           /\ Grow(0, k)
           /\ store' = With(store, k, Fresh)
     /\ UNCHANGED <<memory, msgNodes, threads, events, history>>

(* A trigger that _on_message() has seen to.                               *)
Dispatched(m) ==
  posts[m].trigger /\ posts[m].at = IF posts[m].key.kind = "thread" THEN "dispatched" ELSE "sent"

(* _on_message() of a trigger, _dispatch_turn(), and handle_turn() up to   *)
(* its first read of the reply queue.                                      *)
Start(m) ==
  LET k == posts[m].key
      AndThis(others) == IF others = {} THEN {} ELSE others \union {Pushed(k)}
  IN /\ Dispatched(m)
     /\ Room(Pushed(k) - Len(path) + 1)
     /\ Push(k)
     /\ settled' = With(settled, k, Attached(k))
     /\ store' = With(store, k, Pushed(k))
     /\ Remember(m, Pushed(k))
     /\ posts' = [posts EXCEPT ![m].at = "draining",
                               ![m].epoch = IF k \in DOMAIN epoch THEN epoch[k] ELSE 0,
                               ![m].tail = Pushed(k)]
     /\ runs' = With(runs, Pushed(k), [key |-> k, post |-> m, head |-> Pushed(k), pc |-> "running"])
     /\ crowded' = crowded \union AndThis(Peers(k))
     /\ crossed' = crossed \union AndThis(Busy(k))
     /\ UNCHANGED <<epoch, threads, events, reply, shown, cut>>

-----------------------------------------------------------------------------
(* The runtime: a run answers and finishes, or fails.                      *)
Tell(u, told) ==
  posts' = [posts EXCEPT ![runs[u].post].queue = IF posts[runs[u].post].at = "draining" THEN @ \o told ELSE @]

Answer(u) ==
  /\ runs[u].pc = "running"
  /\ Grow(runs[u].head, runs[u].key)
  /\ runs' = [runs EXCEPT ![u].pc = "post", ![u].head = Fresh]
  /\ Tell(u, <<[type |-> "final", tail |-> Fresh]>>)
  /\ reply' = With(reply, u, Fresh)
  /\ UNCHANGED <<settled, epoch, store, msgNodes, threads, events, shown, readings, cut>>

Leave(u) ==
  /\ runs' = [v \in DOMAIN runs \ {u} |-> runs[v]]
  /\ settled' = With(settled, runs[u].key, runs[u].head)

(* Mutant: finish_run() leaves the settled tail where it was.              *)
FinishUnsettled(u) ==
  /\ runs[u].pc = "post"
  /\ runs' = [v \in DOMAIN runs \ {u} |-> runs[v]]
  /\ Tell(u, <<[type |-> "done", tail |-> runs[u].head]>>)
  /\ UNCHANGED <<tree, settled, epoch, store, msgNodes, threads, events, history>>

Finish(u) ==
  /\ runs[u].pc = "post"
  /\ Leave(u)
  /\ Tell(u, <<[type |-> "done", tail |-> runs[u].head]>>)
  /\ UNCHANGED <<tree, epoch, store, msgNodes, threads, events, history>>

Fail(u) ==
  /\ runs[u].pc = "running"
  /\ Leave(u)
  /\ Tell(u, <<[type |-> "error", tail |-> NoNode]>>)
  /\ UNCHANGED <<tree, epoch, store, msgNodes, threads, events, history>>

(* Mutant: the reset epoch is not compared.                                *)
CurrentAlways(m) == TRUE

(* No /reset since the turn started.                                       *)
Current(m) ==
  LET k == posts[m].key
  IN posts[m].epoch = IF k \in DOMAIN epoch THEN epoch[k] ELSE 0

(* ChannelRenderer.flush(): what was read of a reply is posted.  What is   *)
(* posted after a /reset is of no session that goes on.                    *)
Post(m) ==
  shown' = IF Current(m) THEN shown \union {posts[m].tail} ELSE shown

(* Mutant: the mirror does not follow the final event.                     *)
MirrorStays(m, e) == store

Mirrored(m, e) == IF Current(m) THEN With(store, posts[m].key, e.tail) ELSE store

(* handle_turn()'s loop: the final event moves the mirror; the end of the  *)
(* stream posts the reply, and an error ends the turn without it.          *)
Drain(m) ==
  LET e == Head(posts[m].queue)
  IN /\ posts[m].at = "draining" /\ posts[m].queue # <<>>
     /\ \/ /\ e.type = "final"
           /\ posts' = [posts EXCEPT ![m].queue = Tail(@)]
           /\ store' = Mirrored(m, e)
           /\ UNCHANGED shown
        \/ /\ e.type = "done"
           /\ posts' = [posts EXCEPT ![m] = Gone(@)]
           /\ Post(m)
           /\ UNCHANGED store
        \/ /\ e.type = "error"
           /\ posts' = [posts EXCEPT ![m] = Gone(@)]
           /\ UNCHANGED <<store, shown>>
     /\ UNCHANGED <<tree, memory, msgNodes, threads, events, reply, readings, cut>>

(* The final event has been read.                                          *)
ReadUp(m) == posts[m].tail \in DOMAIN reply /\ \A i \in DOMAIN posts[m].queue : posts[m].queue[i].type # "final"

(* "Response timed out.": what was read so far, a part of the reply or all *)
(* of it, is posted.  Nobody reads the queue any more, the run goes on.    *)
TimeOut(m) ==
  /\ TurnTimeout
  /\ posts[m].at = "draining"
  /\ posts' = [posts EXCEPT ![m] = Gone(@)]
  /\ Post(m)
  /\ crossed' = IF ReadUp(m) THEN crossed ELSE crossed \union {posts[m].tail}
  /\ UNCHANGED <<tree, memory, store, msgNodes, threads, events, reply, crowded, cut>>

-----------------------------------------------------------------------------
(* Threads.                                                                *)

(* _on_thread_create(), up to the await that fetches an uncached starter.  *)
OpenThread(m) ==
  /\ m \notin DOMAIN threads /\ Cardinality(DOMAIN threads) < MaxThreads
  /\ posts[m].key = Group
  /\ threads' = With(threads, m, [at |-> "fetching", starter |-> MsgNode(m)])
  /\ UNCHANGED <<tree, memory, store, msgNodes, posts, events, history>>

(* The rest of it: it does not look again whether the thread has a cursor. *)
PinThread(m) ==
  LET k == Thread(m)
      node == IF ForkPoint(m) = NoNode THEN Fresh ELSE ForkPoint(m)
  IN /\ threads[m].at = "fetching"
     /\ threads' = [threads EXCEPT ![m].at = "open"]
     /\ IF ForkPoint(m) # NoNode THEN UNCHANGED tree ELSE Room(1) /\ Grow(0, k)
     /\ store' = With(store, k, node)
     /\ settled' = With(settled, k, node)
     /\ UNCHANGED <<runs, epoch, msgNodes, posts, events, history>>

-----------------------------------------------------------------------------
(* Commands, and the process.                                              *)

Quiet(k) == ~\E u \in DOMAIN runs : runs[u].key = k

Event == events < MaxEvents /\ events' = events + 1

(* /reset.                                                                 *)
Reset(k) ==
  /\ Event /\ Room(1)
  /\ epoch' = With(epoch, k, IF k \in DOMAIN epoch THEN epoch[k] + 1 ELSE 1)
  /\ Grow(0, k)
  /\ store' = With(store, k, Fresh)
  /\ settled' = With(settled, k, Fresh)
  /\ shown' = {u \in shown : home[u] # k}
  /\ cut' = IF Quiet(k) THEN With(cut, k, Len(path)) ELSE cut
  /\ UNCHANGED <<runs, msgNodes, posts, threads, reply, readings>>

(* command_introspection: one node below the session's cursor for what was *)
(* asked, one below that for the output.                                   *)
Introspect(k) == GrowTwice(Cursor(k), k)

(* Any other command: the stored cursor moves past the nodes written for   *)
(* it, the settled tail does not.                                          *)
Command(k) ==
  /\ Cursor(k) # NoNode /\ Event /\ Room(2)
  /\ Introspect(k)
  /\ store' = With(store, k, Fresh + 1)
  /\ UNCHANGED <<memory, msgNodes, posts, threads, history>>

(* The process ends and starts again: CursorStore.reconcile() drops what   *)
(* points at nodes that are gone.  Of the replies, those are to be kept    *)
(* which a turn read to the final event before anything else came in.      *)
Restart ==
  /\ Event
  /\ settled' = <<>> /\ runs' = <<>> /\ epoch' = <<>>
  /\ posts' = [m \in DOMAIN posts |-> Gone(posts[m])]
  /\ threads' = [m \in DOMAIN threads |-> [threads[m] EXCEPT !.at = "open"]]
  /\ alive' \in {alive} \union (IF MayLoseDb THEN {{}} ELSE {})
  /\ store' = [k \in {j \in DOMAIN store : store[j] \in alive'} |-> store[k]]
  /\ msgNodes' = [m \in {j \in DOMAIN msgNodes : msgNodes[j] \in alive'} |-> msgNodes[m]]
  /\ shown' = {u \in shown \ crossed : u \in DOMAIN reply /\ reply[u] \in alive'}
  /\ crowded' = {} /\ crossed' = {}
  /\ UNCHANGED <<path, home, reply, cut>>

Turn(m) ==
  \/ TakePassive(m) \/ TakeThread(m) \/ Start(m) \/ Drain(m) \/ TimeOut(m)
Run(u) == Answer(u) \/ Finish(u) \/ Fail(u)

Next ==
  \/ \E k \in Sessions, trigger \in BOOLEAN : Say(k, trigger)
  \/ \E m \in DOMAIN posts : Turn(m) \/ OpenThread(m)
  \/ \E u \in DOMAIN runs : Run(u)
  \/ \E m \in DOMAIN threads : PinThread(m)
  \/ \E k \in Sessions : Reset(k) \/ Command(k)
  \/ Restart

Spec == Init /\ [][Next]_vars

-----------------------------------------------------------------------------
TypeOK ==
  /\ path \in Seq(SUBSET (1..MaxNodes)) /\ Len(home) = Len(path)
  /\ alive \subseteq 1..Len(path)
  /\ DOMAIN runs \subseteq alive
  /\ \A k \in DOMAIN store : store[k] \in alive
  /\ Cardinality(DOMAIN msgNodes) <= MaxMsgNodes
  /\ \A m \in DOMAIN posts : posts[m].at \in {"sent", "dispatched", "draining", "gone"}

(* "The agent sees channel context up to that point -- no more, no less"   *)
(* (_on_thread_create): a session is made of its own nodes, and for a      *)
(* thread of its channel's up to the message it was opened on, if that one *)
(* was in the history when the thread was opened.  Whatever the order of   *)
(* messages, forks, resets, commands and restarts.                         *)
ContextIsTheSessions ==
  \A n \in alive : \A a \in path[n] :
    \/ home[a] = home[n]
    \/ /\ home[n].kind = "thread" /\ home[a] = Group
       /\ LET s == threads[home[n].of].starter IN s # NoNode => a \in path[s]

(* After a /reset given while no run of the session was registered,        *)
(* nothing the session held before reaches what is written after, through  *)
(* late readers of reply queues and through restarts.                      *)
ResetForgets ==
  \A n \in alive : home[n] \in DOMAIN cut /\ n > cut[home[n]] =>
    \A a \in path[n] : home[a] = home[n] => a > cut[home[n]]

Continued(u) == reply[u] \in Path(AttachTo(home[u]))
Written(u) == home[u] \in {Dm, Group} /\ u \in DOMAIN reply

(* A reply of which something was posted is, when its run has finished, on *)
(* the branch the session's next message continues: unless another run of  *)
(* the session overlapped it (that one forks, and is told by a digest).    *)
(* That includes the turn that timed out while its run was at work, or in  *)
(* its post-turn hooks, and posted what it had read.  And it stays so when *)
(* the process ends and starts again, if the turn read to the final event  *)
(* and nothing else of the session came in before it was through.  Direct  *)
(* messages and channels: PinThread() can move a thread.                   *)
ShownIsRemembered ==
  \A u \in shown : Written(u) /\ u \notin DOMAIN runs \union crowded => Continued(u)

(* "Keeps writing the latest known tail back here after each turn, so a    *)
(* bot restart doesn't lose conversation continuity" (cursors.py).         *)
RestartKeepsReplies ==
  [][Restart => \A u \in shown \ crowded : Written(u) /\ reply[u] \in alive' => Continued(u)']_vars

(* The message a thread was opened with stays in the thread: seeding the   *)
(* thread does not move it off its own messages ("avoids any window where  *)
(* the two disagree").                                                     *)
SeedKeepsMessages ==
  [][\A m \in DOMAIN threads : PinThread(m) =>
       ~\E n \in alive : home[n] = Thread(m) /\ n \notin path'[store'[Thread(m)]]]_vars

(* "Advance our stored cursor past them [...] so the next message attaches *)
(* after them instead of orphaning them off the branch" (commands.py).     *)
CommandsAreFollowed ==
  [][\A k \in Sessions : Command(k) => store'[k] \in Path(AttachTo(k)')]_vars
=============================================================================
