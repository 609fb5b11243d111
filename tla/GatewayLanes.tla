---------------------------- MODULE GatewayLanes ----------------------------
(***************************************************************************)
(* The HTTP gateway (TinyCTX/gateway) and its interactive client, the CLI  *)
(* bridge (TinyCTX/bridges/cli), which runs in another process, keeps a    *)
(* cursor into the conversation tree, and saves it in one file for the     *)
(* whole instance.  The runtime between them is reduced to what a lane     *)
(* sees of it: where a message attaches, and a run that answers or fails.  *)
(* ForkRuntime models the rest.                                            *)
(*                                                                         *)
(* A request and its response are one step, except the streaming one: the  *)
(* events of a turn wait in the reply queue until the client takes them,   *)
(* and its connection may be cut at any time.  Node 0 is the root of the   *)
(* tree, node i > 0 the i-th one ever added, path[i] its way from the root.*)
(***************************************************************************)
EXTENDS Integers, FiniteSets, Sequences

CONSTANTS
  Clients,         \* terminals attached to the daemon
  MaxNodes,        \* bound: nodes ever written
  MaxWorkers,      \* config.max_workers
  MaxFaults,       \* bound: cut connections, closed terminals and restarts
  DefaultToResume, \* bridges.cli.options.default_to_resume
  Introspection,   \* config.command_introspection
  Typed,           \* node ids a user types after /resume
  MayLoseDb,       \* agent.db may be deleted while the daemon is down
  NoNode           \* None

ASSUME LanesAssumption ==
  /\ IsFiniteSet(Clients)
  /\ {MaxNodes, MaxWorkers, MaxFaults} \subseteq Nat
  /\ MaxWorkers > 0
  /\ {DefaultToResume, Introspection, MayLoseDb} \subseteq BOOLEAN
  /\ Typed \subseteq 1..MaxNodes
  /\ NoNode \notin Nat

VARIABLES
  path,     \* node -> the nodes from below the root down to it
  alive,    \* nodes the current agent.db holds
  settled,  \* Runtime._settled
  runs,     \* Runtime._runs, by root node
  faults,   \* how many so far
  pc,       \* what a client does: "off", "opening", "prompt" or "waiting"
  asked,    \* the node_id of the client's pending /v1/lane/open
  cursor,   \* CLIBridge._cursor
  resume,   \* CLIBridge._resume_cursor
  file,     \* data/cursors/cli
  stream,   \* the client's open request: its reply queue, its new_tail, its run
  lane,     \* history: the node the client last opened
  seen      \* history: nodes the client was told of since

daemon == <<path, alive, settled, runs, faults>>
client == <<pc, asked, cursor, resume, file, stream, lane, seen>>
vars == <<daemon, client>>

Nodes == 0..Len(path)
Path(n) == IF n = 0 THEN {} ELSE path[n]
Known(n) == n = 0 \/ n \in alive          \* db.get_node(node_id) is not None
NoStream == [queue |-> <<>>, tail |-> NoNode, run |-> NoNode]
NoRequest == [node |-> NoNode, strict |-> FALSE]
Fresh == Len(path) + 1

Init ==
  /\ path = <<>> /\ alive = {}
  /\ settled = <<>> /\ runs = <<>> /\ faults = 0
  /\ pc = [c \in Clients |-> "off"]
  /\ asked = [c \in Clients |-> NoRequest]
  /\ cursor = [c \in Clients |-> NoNode]
  /\ resume = [c \in Clients |-> NoNode]
  /\ file = NoNode
  /\ stream = [c \in Clients |-> NoStream]
  /\ lane = [c \in Clients |-> NoNode]
  /\ seen = [c \in Clients |-> {}]

(* db.add_node: a child of p, and possibly one of that.                    *)
Child(p) == Path(p) \union {Fresh}
Grow(p) == path' = Append(path, Child(p)) /\ alive' = alive \union {Fresh}

(* Every run still to answer has a node reserved for its answer.           *)
Unanswered == {u \in DOMAIN runs : runs[u].pc # "post"}
Room(k) == Len(path) + Cardinality(Unanswered) + k <= MaxNodes

Fault == faults < MaxFaults /\ faults' = faults + 1

-----------------------------------------------------------------------------
(* Opening a lane.                                                         *)

(* /v1/lane/branch off the root, then /v1/lane/open of the new branch.     *)
AskFresh(c) ==
  /\ Room(1)
  /\ Grow(0)
  /\ asked' = [asked EXCEPT ![c] = [node |-> Fresh, strict |-> FALSE]]

AskKnown(c, n, strict) ==
  /\ asked' = [asked EXCEPT ![c] = [node |-> n, strict |-> strict]]
  /\ UNCHANGED <<path, alive>>

(* run_detached(): the saved cursor is kept for /resume.                   *)
Launch(c) ==
  /\ pc[c] = "off"
  /\ resume' = [resume EXCEPT ![c] = file]
  /\ IF DefaultToResume /\ file # NoNode THEN AskKnown(c, file, FALSE) ELSE AskFresh(c)
  /\ pc' = [pc EXCEPT ![c] = "opening"]
  /\ UNCHANGED <<settled, runs, faults, cursor, file, stream, lane, seen>>

(* /reset.                                                                 *)
Reset(c) ==
  /\ pc[c] = "prompt"
  /\ AskFresh(c)
  /\ pc' = [pc EXCEPT ![c] = "opening"]
  /\ UNCHANGED <<settled, runs, faults, cursor, resume, file, stream, lane, seen>>

(* /resume, with the id of a node or without.                              *)
Resume(c) ==
  /\ pc[c] = "prompt"
  /\ \/ resume[c] # NoNode /\ AskKnown(c, resume[c], FALSE)
     \/ \E n \in Typed \intersect Nodes : AskKnown(c, n, TRUE)
  /\ pc' = [pc EXCEPT ![c] = "opening"]
  /\ UNCHANGED <<settled, runs, faults, cursor, resume, file, stream, lane, seen>>

Enter(c, n) ==
  /\ cursor' = [cursor EXCEPT ![c] = n]
  /\ file' = n
  /\ lane' = [lane EXCEPT ![c] = n]
  /\ seen' = [seen EXCEPT ![c] = {}]

(* /v1/lane/open: an unknown node opens a fresh branch, which the client   *)
(* refuses when the user had named the node.                               *)
Open(c) ==
  /\ pc[c] = "opening"
  /\ \/ /\ Known(asked[c].node)
        /\ Enter(c, asked[c].node)
        /\ UNCHANGED <<path, alive>>
     \/ /\ ~Known(asked[c].node)
        /\ Room(1)
        /\ Grow(0)
        /\ IF asked[c].strict THEN UNCHANGED <<cursor, file, lane, seen>> ELSE Enter(c, Fresh)
  /\ pc' = [pc EXCEPT ![c] = "prompt"]
  /\ asked' = [asked EXCEPT ![c] = NoRequest]
  /\ UNCHANGED <<settled, runs, faults, resume, stream>>

-----------------------------------------------------------------------------
(* A turn.                                                                 *)

(* Mutant: all callers of the gateway share one session.                   *)
OneKey(n) == 0

(* push() without a session_key: the node itself is the key.               *)
Key(n) == n

(* _settled.setdefault(key, tail).                                         *)
AttachTo(k, n) == IF k \in DOMAIN settled THEN settled[k] ELSE n

Settle(k, n) == settled' = [j \in DOMAIN settled \union {k} |-> IF j = k THEN n ELSE settled[j]]

(* An unknown node falls back to the root.                                 *)
Base(c) == IF Known(cursor[c]) THEN cursor[c] ELSE 0

(* /v1/lane/message: push() writes the message and starts its run.         *)
Send(c) ==
  /\ pc[c] = "prompt"
  /\ Room(2)
  /\ LET n == Base(c)
         at == AttachTo(Key(n), n)
     IN /\ Grow(at)
        /\ Settle(Key(n), at)
        /\ runs' = [u \in DOMAIN runs \union {Fresh} |->
                      IF u \in DOMAIN runs THEN runs[u]
                      ELSE [key |-> Key(n), pc |-> "queued", head |-> Fresh,
                            aborted |-> FALSE, unwanted |-> FALSE]]
  /\ stream' = [stream EXCEPT ![c] = [queue |-> <<>>, tail |-> Fresh, run |-> Fresh]]
  /\ pc' = [pc EXCEPT ![c] = "waiting"]
  /\ UNCHANGED <<faults, asked, cursor, resume, file, lane, seen>>

(* Events go to the queue of the request that started the run, as long as  *)
(* its client reads it.                                                    *)
Reads(c, u) == stream[c].run = u
Say(u, events) ==
  stream' = [c \in Clients |-> IF Reads(c, u)
                               THEN [stream[c] EXCEPT !.queue = @ \o events] ELSE stream[c]]

Executing == {u \in DOMAIN runs : runs[u].pc # "queued"}

Acquire(u) ==
  /\ runs[u].pc = "queued"
  /\ Cardinality(Executing) < MaxWorkers
  /\ runs' = [runs EXCEPT ![u].pc = "running"]
  /\ UNCHANGED <<path, alive, settled, faults, client>>

(* The cycle writes the reply and yields its final event.                  *)
Answer(u) ==
  /\ runs[u].pc = "running" /\ ~runs[u].aborted
  /\ Grow(runs[u].head)
  /\ runs' = [runs EXCEPT ![u].pc = "post", ![u].head = Fresh]
  /\ Say(u, <<[type |-> "text_final", tail |-> Fresh]>>)
  /\ UNCHANGED <<settled, faults, pc, asked, cursor, resume, file, lane, seen>>

Leave(u) == runs' = [v \in DOMAIN runs \ {u} |-> runs[v]]

(* Mutant: only a run that completes ends the stream.                      *)
FailSilently(u) ==
  /\ runs[u].pc = "running"
  /\ Leave(u)
  /\ Settle(runs[u].key, runs[u].head)
  /\ Say(u, <<[type |-> "error", tail |-> runs[u].head]>>)
  /\ UNCHANGED <<path, alive, faults, pc, asked, cursor, resume, file, lane, seen>>

(* finish_run(), and the None that ends the stream.                        *)
Finish(u) ==
  /\ runs[u].pc = "post"
  /\ Leave(u)
  /\ Settle(runs[u].key, runs[u].head)
  /\ Say(u, <<[type |-> "done"]>>)
  /\ UNCHANGED <<path, alive, faults, pc, asked, cursor, resume, file, lane, seen>>

(* The model failed, the cycle raised, or the abort event was set.         *)
Fail(u) ==
  /\ runs[u].pc = "running"
  /\ Leave(u)
  /\ Settle(runs[u].key, runs[u].head)
  /\ Say(u, <<[type |-> "error", tail |-> runs[u].head], [type |-> "done"]>>)
  /\ UNCHANGED <<path, alive, faults, pc, asked, cursor, resume, file, lane, seen>>

(* Mutant: the done frame carries what push() returned.                    *)
DeliverRoot(c) ==
  /\ pc[c] = "waiting" /\ stream[c].queue # <<>>
  /\ LET e == Head(stream[c].queue)
     IN \/ /\ e.type # "done"
           /\ stream' = [stream EXCEPT ![c].queue = Tail(@)]
           /\ seen' = [seen EXCEPT ![c] = @ \union {e.tail}]
           /\ UNCHANGED <<pc, cursor, file>>
        \/ /\ e.type = "done"
           /\ cursor' = [cursor EXCEPT ![c] = stream[c].tail]
           /\ file' = stream[c].tail
           /\ stream' = [stream EXCEPT ![c] = NoStream]
           /\ pc' = [pc EXCEPT ![c] = "prompt"]
           /\ UNCHANGED seen
  /\ UNCHANGED <<daemon, asked, resume, lane>>

(* handle_lane_message() writes the event, CLIBridge._send() reads it.     *)
(* Only the done frame moves the client's cursor.                          *)
Deliver(c) ==
  /\ pc[c] = "waiting" /\ stream[c].queue # <<>>
  /\ LET e == Head(stream[c].queue)
     IN \/ /\ e.type # "done"                 \* text_final or error
           /\ stream' = [stream EXCEPT ![c].queue = Tail(@), ![c].tail = e.tail]
           /\ seen' = [seen EXCEPT ![c] = @ \union {e.tail}]
           /\ UNCHANGED <<pc, cursor, file>>
        \/ /\ e.type = "done"
           /\ cursor' = [cursor EXCEPT ![c] = stream[c].tail]
           /\ file' = stream[c].tail
           /\ stream' = [stream EXCEPT ![c] = NoStream]
           /\ pc' = [pc EXCEPT ![c] = "prompt"]
           /\ UNCHANGED seen
  /\ UNCHANGED <<daemon, asked, resume, lane>>

(* The connection is cut: the client is back at its prompt, where it was;  *)
(* the handler stops at its next write, and the run goes on.               *)
Cut(c) ==
  /\ pc[c] = "waiting" /\ Fault
  /\ pc' = [pc EXCEPT ![c] = "prompt"]
  /\ stream' = [stream EXCEPT ![c] = NoStream]
  /\ seen' = [seen EXCEPT ![c] = @ \intersect Path(cursor[c])]
  /\ UNCHANGED <<path, alive, settled, runs, asked, cursor, resume, file, lane>>

(* /v1/lane/abort of the lane a turn was posted to.                        *)
Abort(c) ==
  /\ pc[c] = "waiting"
  /\ runs' = [u \in DOMAIN runs |->
               [runs[u] EXCEPT !.aborted = @ \/ u = cursor[c],
                               !.unwanted = @ \/ (Reads(c, u) /\ runs[u].pc = "queued")]]
  /\ UNCHANGED <<path, alive, settled, faults, client>>

(* /v1/lane/command: the command and its output become two nodes below the *)
(* cursor, which moves past them.                                          *)
Command(c) ==
  /\ pc[c] = "prompt" /\ Introspection
  /\ Room(2)
  /\ LET reply == Fresh + 1
     IN /\ path' = Append(Append(path, Child(Base(c))), Child(Base(c)) \union {reply})
        /\ alive' = alive \union {Fresh, reply}
        /\ cursor' = [cursor EXCEPT ![c] = reply]
        /\ seen' = [seen EXCEPT ![c] = @ \union {Fresh, reply}]
  /\ UNCHANGED <<settled, runs, faults, pc, asked, resume, file, stream, lane>>

-----------------------------------------------------------------------------
Exit(c) ==
  /\ pc[c] # "off" /\ Fault
  /\ pc' = [pc EXCEPT ![c] = "off"]
  /\ asked' = [asked EXCEPT ![c] = NoRequest]
  /\ cursor' = [cursor EXCEPT ![c] = NoNode]
  /\ resume' = [resume EXCEPT ![c] = NoNode]
  /\ stream' = [stream EXCEPT ![c] = NoStream]
  /\ lane' = [lane EXCEPT ![c] = NoNode]
  /\ seen' = [seen EXCEPT ![c] = {}]
  /\ UNCHANGED <<path, alive, settled, runs, file>>

(* The daemon stops and comes back: runs and settled tails were in memory, *)
(* open streams break.                                                     *)
Restart ==
  /\ Fault
  /\ runs' = <<>> /\ settled' = <<>>
  /\ \/ UNCHANGED alive
     \/ MayLoseDb /\ alive' = {}
  /\ pc' = [c \in Clients |-> IF pc[c] = "waiting" THEN "prompt" ELSE pc[c]]
  /\ stream' = [c \in Clients |-> NoStream]
  /\ seen' = [c \in Clients |-> IF pc[c] = "waiting" THEN seen[c] \intersect Path(cursor[c]) ELSE seen[c]]
  /\ UNCHANGED <<path, asked, cursor, resume, file, lane>>

Terminal(c) ==
  \/ Launch(c) \/ Reset(c) \/ Resume(c) \/ Open(c) \/ Send(c) \/ Deliver(c)
  \/ Cut(c) \/ Abort(c) \/ Command(c) \/ Exit(c)
Run(u) == Acquire(u) \/ Answer(u) \/ Finish(u) \/ Fail(u)

Next ==
  \/ \E c \in Clients : Terminal(c)
  \/ \E u \in DOMAIN runs : Run(u)
  \/ Restart

Spec == Init /\ [][Next]_vars

-----------------------------------------------------------------------------
TypeOK ==
  /\ path \in Seq(SUBSET (1..MaxNodes)) /\ Len(path) <= MaxNodes
  /\ alive \subseteq 1..Len(path)
  /\ DOMAIN settled \subseteq Nodes /\ \A k \in DOMAIN settled : settled[k] \in Nodes
  /\ DOMAIN runs \subseteq alive
  /\ pc \in [Clients -> {"off", "opening", "prompt", "waiting"}]

(* What a client was told of since it opened its lane -- the turns whose   *)
(* final event it read, the commands it gave -- is on the branch its next  *)
(* message continues, whatever other clients, cuts and restarts did.       *)
NothingSeenIsLost ==
  \A c \in Clients : pc[c] = "prompt" => seen[c] \intersect alive \subseteq Path(cursor[c])

Nested(c, d) == lane[c] # 0 /\ lane[c] \in Path(lane[d])
Separate(c, d) ==
  Path(cursor[c]) \intersect Path(cursor[d]) \subseteq Path(lane[c]) \intersect Path(lane[d])

(* Terminals that opened different lanes read and write different          *)
(* conversations, as long as the lanes they opened exist.                  *)
LanesAreSeparate ==
  \A c, d \in {e \in Clients : Known(lane[e])} :
    c = d \/ Nested(c, d) \/ Nested(d, c) \/ Separate(c, d)

(* What a terminal was shown of its conversation stays in it, and in it    *)
(* alone.                                                                  *)
ConversationsAreKept == NothingSeenIsLost /\ LanesAreSeparate

(* "Rather than let add_node's parent_id FK blow up mid-stream, fall back  *)
(* to root like /v1/lane/open does", where /v1/lane/open gives every       *)
(* caller a branch of its own: two terminals that opened different lanes   *)
(* stay apart when agent.db is replaced under them, too.                   *)
StaleLanesAreSeparate ==
  \A c, d \in {e \in Clients : lane[e] # NoNode /\ ~Known(lane[e])} :
    c = d \/ Nested(c, d) \/ Nested(d, c) \/ Separate(c, d)

(* "Abort in-flight generation for a node_id": a turn whose lane was       *)
(* aborted while it waited for a slot is not answered.                     *)
AbortStopsTheTurn == \A u \in DOMAIN runs : runs[u].unwanted => runs[u].pc # "post"

(* A terminal that waits for a reply waits for something: its run is still *)
(* registered, or the frame that ends the stream is written.               *)
NobodyWaitsInVain ==
  \A c \in Clients : pc[c] = "waiting" =>
    \/ \E u \in DOMAIN runs : Reads(c, u)
    \/ \E i \in DOMAIN stream[c].queue : stream[c].queue[i].type = "done"
=============================================================================
