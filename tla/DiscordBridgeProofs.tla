------------------------ MODULE DiscordBridgeProofs ------------------------
(***************************************************************************)
(* What a Discord session holds, for any number of messages, threads,      *)
(* commands, runs and restarts.                                            *)
(*                                                                         *)
(* A session is named by a key and stands at nodes kept in several places: *)
(* the cursor store, the settled tails, the heads of its runs and the      *)
(* events of replies still being read.  That a session keeps to its own    *)
(* nodes, and that a /reset forgets, is proved over all of these at once:  *)
(* Holds(k, p) says that p is one of them, and StepHolds where a step can  *)
(* take a new one from.  That it keeps what was shown takes more: which    *)
(* run, turn and reply belong together (Links), who has seen whom          *)
(* (ReadingsOk), and what has a reply on its branch (KeptOk, StoredOk).    *)
(***************************************************************************)
EXTENDS DiscordBridge, FiniteSetTheorems, TLAPS

Nodes == 1..Len(path)
NewNodes == Fresh..Len(path')
Keys == {Dm, Group} \union {Thread(m) : m \in Nat}
Opened(k) == k.kind = "thread" => k.of \in DOMAIN threads

Signals == [type : {"final", "done", "error"}, tail : Nat \union {NoNode}]
Queues == Seq(Signals)
Posts == [key : Keys, trigger : BOOLEAN, at : {"sent", "dispatched", "draining", "gone"},
          epoch : Nat, tail : Nat, queue : Queues]
Epoch(k) == IF k \in DOMAIN epoch THEN epoch[k] ELSE 0

-----------------------------------------------------------------------------
(* The types, and what the registries say of one another.                  *)

TreeOk ==
  /\ path \in Seq(SUBSET Nat) /\ home \in Seq(Keys) /\ Len(home) = Len(path)
  /\ alive \subseteq Nodes
  /\ \A n \in Nodes : n \in path[n] /\ path[n] \subseteq 1..n /\ Opened(home[n])

PostOk(post) ==
  /\ Opened(post.key)
  /\ post.at # "draining" => post.queue = <<>>
  /\ post.at = "draining" => post.epoch <= Epoch(post.key)
PostsOk == posts \in Seq(Posts) /\ \A m \in DOMAIN posts : PostOk(posts[m])

RunOk(u) ==
  /\ runs[u] \in [key : Keys, post : DOMAIN posts, head : Nat, pc : {"running", "post"}]
  /\ posts[runs[u].post].key = runs[u].key
RunsOk == DOMAIN runs \subseteq Nodes /\ \A u \in DOMAIN runs : RunOk(u)

ThreadsOk ==
  \A m \in DOMAIN threads :
    /\ m \in DOMAIN posts /\ posts[m].key = Group
    /\ threads[m] \in [at : {"fetching", "open"}, starter : Nat \union {NoNode}]

EpochsOk == \A k \in DOMAIN epoch : epoch[k] \in Nat

MsgNodesOk ==
  \A m \in DOMAIN msgNodes :
    m \in DOMAIN posts /\ posts[m].at \in {"draining", "gone"} /\ msgNodes[m] \in Nodes

MirrorsOk ==
  /\ DOMAIN settled \subseteq DOMAIN store
  /\ \A k \in DOMAIN store : k \in Keys /\ Opened(k)
  /\ \A u \in DOMAIN runs : runs[u].key \in DOMAIN store

(* An event of a reply that is still read, with no /reset since.           *)
Pending(m, e) ==
  m \in DOMAIN posts /\ Current(m) /\ \E i \in DOMAIN posts[m].queue : posts[m].queue[i] = e

(* Session k stands at p: by its cursor, its settled tail, a run of it, or *)
(* a reply that will still move the cursor.                                *)
Holds(k, p) ==
  \/ k \in DOMAIN store /\ p = store[k]
  \/ k \in DOMAIN settled /\ p = settled[k]
  \/ \E u \in DOMAIN runs : k = runs[u].key /\ p = runs[u].head
  \/ \E m, e : Pending(m, e) /\ posts[m].key = k /\ e.type = "final" /\ e.tail = p
HoldsOk == \A k, p : Holds(k, p) => p \in Nodes

Shape == TreeOk /\ PostsOk /\ RunsOk /\ ThreadsOk /\ EpochsOk /\ MsgNodesOk /\ MirrorsOk /\ HoldsOk

-----------------------------------------------------------------------------
(* The tree grows.                                                         *)

(* The new nodes belong to session k and hang, one below the other, on p.  *)
Extended(p, k) ==
  /\ Len(path) <= Len(path')
  /\ \A n \in Nodes : path'[n] = path[n] /\ home'[n] = home[n]
  /\ \A n \in NewNodes : /\ home'[n] = k /\ n \in path'[n]
                         /\ Path(p) \subseteq path'[n] /\ path'[n] \subseteq Path(p) \union NewNodes

(* What the tree needs of threads is that they stay open.                  *)
ThreadsStay == DOMAIN threads \subseteq DOMAIN threads'

LEMMA Growing ==
  ASSUME TreeOk, ThreadsStay, NEW p \in 0..Len(path), NEW k \in Keys, Opened(k), Grow(p, k)
  PROVE  TreeOk' /\ Extended(p, k) /\ Len(path') = Fresh
<1>1. path \in Seq(SUBSET Nat) /\ home \in Seq(Keys) /\ Len(home) = Len(path) /\ Len(path) \in Nat
  BY DEF TreeOk
<1>2. Path(p) \subseteq 1..Len(path)
  BY <1>1 DEF TreeOk, Path, Nodes
<1>3. /\ path' \in Seq(SUBSET Nat) /\ Len(path') = Len(path) + 1
      /\ \A n \in Nodes : path'[n] = path[n]
      /\ path'[Fresh] = Path(p) \union {Fresh}
  BY <1>1, <1>2 DEF Grow, Fresh, Nodes
<1>4. /\ home' \in Seq(Keys) /\ Len(home') = Len(home) + 1
      /\ \A n \in Nodes : home'[n] = home[n]
      /\ home'[Fresh] = k
  BY <1>1 DEF Grow, Fresh, Nodes
<1>5. NewNodes = {Fresh}
  BY <1>1, <1>3 DEF NewNodes, Fresh
<1>6. Extended(p, k)
  BY <1>1, <1>3, <1>4, <1>5 DEF Extended
<1>7. alive' \subseteq 1..Len(path')
  <2>1. \A n \in alive' : n \in Nodes \/ n = Fresh
    BY DEF Grow, TreeOk
  <2> QED
    BY <1>1, <1>3, <2>1 DEF Nodes, Fresh
<1>8. ASSUME NEW n \in 1..Len(path') PROVE n \in path'[n] /\ path'[n] \subseteq 1..n /\ Opened(home[n])'
  <2>1. CASE n \in Nodes
    BY <1>1, <1>3, <1>4, <2>1 DEF TreeOk, Opened, ThreadsStay
  <2>2. CASE n = Fresh
    BY <1>1, <1>2, <1>3, <1>4, <2>2 DEF Fresh, Opened, ThreadsStay
  <2> QED
    BY <1>1, <1>3, <2>1, <2>2 DEF Nodes, Fresh
<1> QED
  BY <1>1, <1>3, <1>4, <1>6, <1>7, <1>8 DEF TreeOk, Nodes, Fresh

LEMMA TwoMore ==
  ASSUME NEW S, NEW s \in Seq(S), NEW x \in S, NEW y \in S
  PROVE  LET t == Append(Append(s, x), y)
         IN /\ t \in Seq(S) /\ Len(t) = Len(s) + 2
            /\ \A n \in 1..Len(s) : t[n] = s[n]
            /\ t[Len(s) + 1] = x /\ t[Len(s) + 2] = y
<1> DEFINE u == Append(s, x)
<1>1. /\ u \in Seq(S) /\ Len(u) = Len(s) + 1 /\ Len(s) \in Nat
      /\ \A n \in 1..Len(s) : u[n] = s[n]
      /\ u[Len(s) + 1] = x
  OBVIOUS
<1> HIDE DEF u
<1>2. /\ Append(u, y) \in Seq(S) /\ Len(Append(u, y)) = Len(u) + 1
      /\ \A n \in 1..Len(u) : Append(u, y)[n] = u[n]
      /\ Append(u, y)[Len(u) + 1] = y
  BY <1>1
<1>3. /\ Append(u, y) \in Seq(S) /\ Len(Append(u, y)) = Len(s) + 2
      /\ \A n \in 1..Len(s) : Append(u, y)[n] = s[n]
      /\ Append(u, y)[Len(s) + 1] = x /\ Append(u, y)[Len(s) + 2] = y
  BY <1>1, <1>2
<1> QED
  BY <1>3 DEF u

LEMMA GrowingTwice ==
  ASSUME TreeOk, ThreadsStay, NEW p \in 0..Len(path), NEW k \in Keys, Opened(k), GrowTwice(p, k)
  PROVE  TreeOk' /\ Extended(p, k) /\ Len(path') = Fresh + 1
<1>1. path \in Seq(SUBSET Nat) /\ home \in Seq(Keys) /\ Len(home) = Len(path) /\ Len(path) \in Nat
  BY DEF TreeOk
<1>2. Path(p) \subseteq 1..Len(path)
  BY <1>1 DEF TreeOk, Path, Nodes
<1>3. /\ path' \in Seq(SUBSET Nat) /\ Len(path') = Len(path) + 2
      /\ \A n \in Nodes : path'[n] = path[n]
      /\ path'[Fresh] = Path(p) \union {Fresh} /\ path'[Fresh + 1] = Path(p) \union {Fresh, Fresh + 1}
  <2>1. path' = Append(Append(path, Path(p) \union {Fresh}), Path(p) \union {Fresh, Fresh + 1})
    BY DEF GrowTwice
  <2>2. Path(p) \union {Fresh} \in SUBSET Nat /\ Path(p) \union {Fresh, Fresh + 1} \in SUBSET Nat
    BY <1>1, <1>2 DEF Fresh
  <2> QED
    BY <1>1, <2>1, <2>2, TwoMore DEF Nodes, Fresh
<1>4. /\ home' \in Seq(Keys) /\ Len(home') = Len(home) + 2
      /\ \A n \in Nodes : home'[n] = home[n]
      /\ home'[Fresh] = k /\ home'[Fresh + 1] = k
  <2>1. home' = Append(Append(home, k), k)
    BY DEF GrowTwice
  <2>2. /\ home' \in Seq(Keys) /\ Len(home') = Len(home) + 2
        /\ \A n \in 1..Len(home) : home'[n] = home[n]
        /\ home'[Len(home) + 1] = k /\ home'[Len(home) + 2] = k
    BY <1>1, <2>1, TwoMore
  <2>3. Nodes = 1..Len(home) /\ Fresh = Len(home) + 1 /\ Fresh + 1 = Len(home) + 2
    BY <1>1 DEF Fresh, Nodes
  <2> QED
    BY <2>2, <2>3
<1>5. \A n : n \in NewNodes <=> n = Fresh \/ n = Fresh + 1
  BY <1>1, <1>3 DEF NewNodes, Fresh
<1>6. Extended(p, k)
  BY <1>1, <1>3, <1>4, <1>5 DEF Extended
<1>7. alive' \subseteq 1..Len(path')
  <2>1. \A n \in alive' : n \in Nodes \/ n = Fresh \/ n = Fresh + 1
    BY DEF TreeOk, GrowTwice
  <2> QED
    BY <1>1, <1>3, <2>1 DEF Nodes, Fresh
<1>8. ASSUME NEW n \in 1..Len(path') PROVE n \in path'[n] /\ path'[n] \subseteq 1..n /\ Opened(home[n])'
  <2>1. CASE n \in Nodes
    BY <1>1, <1>3, <1>4, <2>1 DEF TreeOk, Opened, ThreadsStay
  <2>2. CASE n = Fresh
    BY <1>1, <1>2, <1>3, <1>4, <2>2 DEF Fresh, Opened, ThreadsStay
  <2>3. CASE n = Fresh + 1
    BY <1>1, <1>2, <1>3, <1>4, <2>3 DEF Fresh, Opened, ThreadsStay
  <2> QED
    BY <1>1, <1>3, <2>1, <2>2, <2>3 DEF Nodes, Fresh
<1> QED
  BY <1>1, <1>3, <1>4, <1>6, <1>7, <1>8 DEF TreeOk, Nodes, Fresh

-----------------------------------------------------------------------------
(* Messages.                                                               *)

Taken == {"draining", "gone"}

(* A message keeps its session, and once taken stays taken.                *)
PostsMove ==
  \A m \in DOMAIN posts :
    /\ m \in DOMAIN posts' /\ posts'[m].key = posts[m].key
    /\ posts[m].at \in Taken => posts'[m].at \in Taken

LEMMA Keyed ==
  ASSUME ThreadsOk, PostsOk, NEW k \in Sessions
  PROVE  k \in Keys /\ Opened(k)
<1>1. \A m \in DOMAIN threads : m \in Nat
  BY DEF ThreadsOk, PostsOk
<1> QED
  BY <1>1 DEF Sessions, Keys, Opened, Dm, Group, Thread

EpochsMove == \A k : Epoch(k) \in Nat /\ Epoch(k)' \in Nat /\ Epoch(k) <= Epoch(k)'

LEMMA SameEpochs == EpochsOk /\ UNCHANGED epoch => EpochsMove /\ EpochsOk'
BY DEF EpochsOk, EpochsMove, Epoch

LEMMA StandingPost ==
  ASSUME ThreadsStay, EpochsMove, NEW v \in Posts, PostOk(v)
  PROVE  PostOk(v)'
<1>1. v.epoch \in Nat /\ Epoch(v.key) <= Epoch(v.key)' /\ Epoch(v.key) \in Nat /\ Epoch(v.key)' \in Nat
  BY DEF EpochsMove, Posts
<1> QED
  BY <1>1 DEF PostOk, Opened, ThreadsStay

LEMMA SamePosts ==
  ASSUME PostsOk, ThreadsStay, EpochsMove, UNCHANGED posts
  PROVE  PostsOk' /\ PostsMove
<1>1. \A m \in DOMAIN posts : PostOk(posts[m])'
  BY StandingPost DEF PostsOk
<1> QED
  BY <1>1 DEF PostsOk, PostsMove, Posts, Queues

LEMMA OnePost ==
  ASSUME PostsOk, ThreadsStay, EpochsMove, NEW m \in DOMAIN posts, NEW v \in Posts,
         PostOk(v)', v.key = posts[m].key, posts[m].at \in Taken => v.at \in Taken,
         posts' = [posts EXCEPT ![m] = v]
  PROVE  PostsOk' /\ PostsMove
<1>1. /\ posts' \in Seq(Posts) /\ DOMAIN posts' = DOMAIN posts
      /\ posts'[m] = v /\ \A i \in DOMAIN posts : i # m => posts'[i] = posts[i]
  BY DEF PostsOk
<1>2. \A i \in DOMAIN posts : PostOk(posts[i])'
  BY <1>1, StandingPost DEF PostsOk
<1> QED
  BY <1>1, <1>2 DEF PostsOk, PostsMove, Posts, Queues

(* A new message, and the end of a turn.                                   *)
LEMMA NewPost ==
  ASSUME PostsOk, ThreadsStay, EpochsMove, NEW k \in Keys, Opened(k), NEW trigger \in BOOLEAN,
         posts' = Append(posts, [key |-> k, trigger |-> trigger, at |-> "sent", epoch |-> 0, tail |-> 0, queue |-> <<>>])
  PROVE  PostsOk' /\ PostsMove
<1> DEFINE v == [key |-> k, trigger |-> trigger, at |-> "sent", epoch |-> 0, tail |-> 0, queue |-> <<>>]
<1>1. v \in Posts
  BY DEF Posts, Queues
<1>2. PostOk(v)'
  BY DEF PostOk, Opened, ThreadsStay
<1>3. v.key = k /\ v.at = "sent"
  OBVIOUS
<1>4. posts' = Append(posts, v)
  OBVIOUS
<1> HIDE DEF v
<1>5. /\ posts' \in Seq(Posts) /\ Len(posts') = Len(posts) + 1 /\ Len(posts) \in Nat
      /\ posts'[Len(posts) + 1] = v /\ \A i \in DOMAIN posts : posts'[i] = posts[i]
      /\ DOMAIN posts = 1..Len(posts) /\ DOMAIN posts' = 1..(Len(posts) + 1)
  BY <1>1, <1>4 DEF PostsOk
<1>6. \A i \in DOMAIN posts : PostOk(posts[i])'
  BY <1>5, StandingPost DEF PostsOk
<1>7. \A i \in DOMAIN posts' : i \in DOMAIN posts \/ i = Len(posts) + 1
  BY <1>5
<1>8. \A i \in DOMAIN posts' : PostOk(posts[i])'
  BY <1>2, <1>5, <1>6, <1>7
<1> QED
  BY <1>5, <1>8 DEF PostsOk, PostsMove

LEMMA GonePost ==
  ASSUME NEW v \in Posts, Opened(v.key), ThreadsStay, EpochsMove
  PROVE  /\ Gone(v) \in Posts /\ PostOk(Gone(v))' /\ Gone(v).key = v.key
         /\ Gone(v).at = "gone" /\ Gone(v).queue = <<>>
<1>1. Gone(v) = [key |-> v.key, trigger |-> FALSE, at |-> "gone", epoch |-> 0, tail |-> 0, queue |-> <<>>]
  BY DEF Gone
<1>2. Gone(v) \in Posts
  BY <1>1 DEF Posts, Queues
<1> QED
  BY <1>1, <1>2 DEF PostOk, Opened, ThreadsStay

-----------------------------------------------------------------------------
(* Threads and epochs, step by step.                                       *)

ThreadsMove ==
  /\ ThreadsStay
  /\ \A m \in DOMAIN threads : threads'[m].starter = threads[m].starter

LEMMA StepThreads == Shape /\ [Next]_vars => ThreadsMove
<1> SUFFICES ASSUME Shape, [Next]_vars PROVE ThreadsMove
  OBVIOUS
<1> USE DEF ThreadsMove, ThreadsStay
<1>1. CASE UNCHANGED threads
  BY <1>1
<1>2. ASSUME NEW m \in DOMAIN posts, OpenThread(m) PROVE ThreadsMove
  BY <1>2 DEF OpenThread, With
<1>3. ASSUME NEW m \in DOMAIN threads, PinThread(m) PROVE ThreadsMove
  <2>1. \A i \in DOMAIN threads : threads[i] \in [at : {"fetching", "open"}, starter : Nat \union {NoNode}]
    BY DEF Shape, ThreadsOk
  <2> QED
    BY <1>3, <2>1 DEF PinThread
<1>4. CASE Restart
  <2>1. \A i \in DOMAIN threads : threads[i] \in [at : {"fetching", "open"}, starter : Nat \union {NoNode}]
    BY DEF Shape, ThreadsOk
  <2> QED
    BY <1>4, <2>1 DEF Restart
<1>5. ASSUME NEW k, NEW trigger, Say(k, trigger) PROVE UNCHANGED threads
  BY <1>5 DEF Say
<1>6. ASSUME NEW m, Turn(m) PROVE UNCHANGED threads
  BY <1>6 DEF Turn, TakePassive, TakeThread, Start, Drain, TimeOut
<1>7. ASSUME NEW u, Run(u) PROVE UNCHANGED threads
  BY <1>7 DEF Run, Answer, Finish, Fail
<1>8. ASSUME NEW k, Reset(k) \/ Command(k) PROVE UNCHANGED threads
  BY <1>8 DEF Reset, Command
<1>9. CASE UNCHANGED vars
  BY <1>1, <1>9 DEF vars
<1> QED
  BY <1>1, <1>2, <1>3, <1>4, <1>5, <1>6, <1>7, <1>8, <1>9 DEF Next

LEMMA StepEpochs == Shape /\ [Next]_vars => EpochsOk' /\ (EpochsMove \/ Restart)
<1> SUFFICES ASSUME Shape, [Next]_vars PROVE EpochsOk' /\ (EpochsMove \/ Restart)
  OBVIOUS
<1> USE DEF Shape
<1>1. CASE UNCHANGED epoch
  BY <1>1, SameEpochs
<1>2. ASSUME NEW k, Reset(k) PROVE EpochsOk' /\ EpochsMove
  BY <1>2 DEF Reset, With, EpochsOk, EpochsMove, Epoch
<1>3. CASE Restart
  BY <1>3 DEF Restart, EpochsOk
<1>4. ASSUME NEW k, NEW trigger, Say(k, trigger) PROVE UNCHANGED epoch
  BY <1>4 DEF Say, memory
<1>5. ASSUME NEW m, Turn(m) \/ OpenThread(m) PROVE UNCHANGED epoch
  BY <1>5 DEF Turn, TakePassive, TakeThread, Start, Drain, TimeOut, OpenThread, memory
<1>6. ASSUME NEW u, Run(u) PROVE UNCHANGED epoch
  BY <1>6 DEF Run, Answer, Finish, Fail
<1>7. ASSUME NEW m, PinThread(m) PROVE UNCHANGED epoch
  BY <1>7 DEF PinThread
<1>8. ASSUME NEW k, Command(k) PROVE UNCHANGED epoch
  BY <1>8 DEF Command, memory
<1>9. CASE UNCHANGED vars
  BY <1>1, <1>9 DEF vars, memory
<1> QED
  BY <1>1, <1>2, <1>3, <1>4, <1>5, <1>6, <1>7, <1>8, <1>9 DEF Next

-----------------------------------------------------------------------------
(* Messages and runs, step by step.                                        *)

LEMMA Telling ==
  ASSUME Shape, ThreadsStay, EpochsMove, NEW u \in DOMAIN runs, NEW e \in Signals, Tell(u, <<e>>)
  PROVE  PostsOk' /\ PostsMove
<1>1. PICK m \in DOMAIN posts : m = runs[u].post
  BY DEF Shape, RunsOk, RunOk
<1>2. posts[m] \in Posts /\ PostOk(posts[m])
  BY DEF Shape, PostsOk
<1>3. PICK q : q = IF posts[m].at = "draining" THEN posts[m].queue \o <<e>> ELSE posts[m].queue
  OBVIOUS
<1>4. q \in Queues
  <2>1. posts[m].queue \in Seq(Signals) /\ <<e>> \in Seq(Signals)
    BY <1>2 DEF Posts, Queues
  <2> QED
    BY <1>3, <2>1 DEF Queues
<1>5. PICK v : v = [posts[m] EXCEPT !.queue = q]
  OBVIOUS
<1>6. posts' = [posts EXCEPT ![m] = v]
  BY <1>1, <1>3, <1>5 DEF Tell
<1>7. v \in Posts /\ v.key = posts[m].key /\ v.at = posts[m].at /\ v.epoch = posts[m].epoch /\ v.queue = q
  BY <1>2, <1>4, <1>5 DEF Posts
<1>8. PostOk(v)
  BY <1>2, <1>3, <1>7 DEF PostOk
<1>9. PostOk(v)'
  BY <1>7, <1>8, StandingPost
<1> QED
  BY <1>6, <1>7, <1>9, OnePost DEF Shape

LEMMA StepPosts == Shape /\ [Next]_vars => PostsOk' /\ PostsMove
<1> SUFFICES ASSUME Shape, [Next]_vars PROVE PostsOk' /\ PostsMove
  OBVIOUS
<1> DEFINE Goal == PostsOk' /\ PostsMove
<1>0. ThreadsStay /\ PostsOk /\ ThreadsOk /\ posts \in Seq(Posts)
      /\ \A m \in DOMAIN posts : posts[m] \in Posts /\ PostOk(posts[m]) /\ Opened(posts[m].key)
  BY StepThreads DEF ThreadsMove, Shape, PostsOk, PostOk
<1>1. CASE Restart
  <2>1. DOMAIN posts' = DOMAIN posts /\ DOMAIN posts = 1..Len(posts) /\ Len(posts) \in Nat
    BY <1>0, <1>1 DEF Restart
  <2>2. ASSUME NEW m \in DOMAIN posts
        PROVE  posts'[m] \in Posts /\ PostOk(posts[m])' /\ posts'[m].key = posts[m].key /\ posts'[m].at = "gone"
    <3>1. posts'[m] = [key |-> posts[m].key, trigger |-> FALSE, at |-> "gone", epoch |-> 0, tail |-> 0, queue |-> <<>>]
      BY <1>1 DEF Restart, Gone
    <3>2. posts'[m] \in Posts
      BY <1>0, <3>1 DEF Posts, Queues
    <3> QED
      BY <1>0, <3>1, <3>2 DEF PostOk, Opened, ThreadsStay
  <2>3. posts' \in Seq(Posts)
    <3>1. posts' = [m \in 1..Len(posts) |-> posts'[m]] /\ \A m \in 1..Len(posts) : posts'[m] \in Posts
      BY <1>1, <2>1, <2>2 DEF Restart
    <3> QED
      BY <2>1, <3>1
  <2> QED
    BY <2>1, <2>2, <2>3 DEF PostsOk, PostsMove, Taken
<1> SUFFICES ASSUME EpochsMove PROVE Goal
  BY <1>1, StepEpochs
<1>2. CASE UNCHANGED posts
  BY <1>0, <1>2, SamePosts
<1>3. ASSUME NEW k \in Sessions, NEW trigger \in BOOLEAN, Say(k, trigger) PROVE Goal
  BY <1>0, <1>3, Keyed, NewPost DEF Say
<1>4. ASSUME NEW m \in DOMAIN posts, posts' = [posts EXCEPT ![m] = Gone(@)] PROVE Goal
  <2> PICK v : v = Gone(posts[m])
    OBVIOUS
  <2>1. v \in Posts /\ PostOk(v)' /\ v.key = posts[m].key /\ v.at = "gone"
    BY <1>0, GonePost
  <2>2. posts' = [posts EXCEPT ![m] = v]
    BY <1>4
  <2> QED
    BY <1>0, <2>1, <2>2, OnePost DEF Taken
<1>5. ASSUME NEW m \in DOMAIN posts, TakePassive(m) \/ TimeOut(m) PROVE Goal
  BY <1>4, <1>5 DEF TakePassive, TimeOut
<1>6. ASSUME NEW m \in DOMAIN posts, TakeThread(m) PROVE Goal
  <2> DEFINE v == [posts[m] EXCEPT !.at = "dispatched"]
  <2>1. posts[m].at = "sent" /\ posts' = [posts EXCEPT ![m] = v]
    BY <1>6 DEF TakeThread
  <2>2. v \in Posts /\ v.key = posts[m].key /\ v.at = "dispatched" /\ v.queue = posts[m].queue
    BY <1>0 DEF Posts
  <2>3. PostOk(v)
    BY <1>0, <2>1, <2>2 DEF PostOk
  <2> HIDE DEF v
  <2> QED
    BY <1>0, <2>1, <2>2, <2>3, StandingPost, OnePost DEF Taken
<1>7. ASSUME NEW m \in DOMAIN posts, Start(m) PROVE Goal
  <2>0. PICK n \in Nat : n = Pushed(posts[m].key)
    BY DEF Shape, TreeOk, Pushed, Fresh
  <2> DEFINE v == [posts[m] EXCEPT !.at = "draining", !.epoch = Epoch(posts[m].key), !.tail = n]
  <2>1. Epoch(posts[m].key) \in Nat /\ EpochsOk
    BY DEF EpochsMove, Shape
  <2>2. posts' = [posts EXCEPT ![m] = v]
    BY <1>0, <1>7, <2>0 DEF Start, Epoch
  <2>3. v \in Posts /\ v.key = posts[m].key /\ v.at = "draining" /\ v.epoch = Epoch(posts[m].key)
    BY <1>0, <2>1 DEF Posts
  <2>4. PostOk(v)
    BY <1>0, <2>1, <2>3 DEF PostOk
  <2> HIDE DEF v
  <2> QED
    BY <1>0, <2>2, <2>3, <2>4, StandingPost, OnePost DEF Taken
<1>8. ASSUME NEW m \in DOMAIN posts, Drain(m) PROVE Goal
  <2>1. CASE posts' = [posts EXCEPT ![m] = Gone(@)]
    BY <1>4, <2>1
  <2>2. CASE posts' = [posts EXCEPT ![m].queue = Tail(@)]
    <3> DEFINE v == [posts[m] EXCEPT !.queue = Tail(posts[m].queue)]
    <3>1. posts[m].at = "draining" /\ posts[m].queue # <<>> /\ posts' = [posts EXCEPT ![m] = v]
      BY <1>8, <2>2 DEF Drain
    <3>2. posts[m].queue \in Queues /\ Tail(posts[m].queue) \in Queues
      BY <1>0, <3>1 DEF Posts, Queues
    <3>3. v \in Posts /\ v.key = posts[m].key /\ v.at = posts[m].at /\ v.epoch = posts[m].epoch
      BY <1>0, <3>2 DEF Posts
    <3>4. PostOk(v)
      BY <1>0, <3>1, <3>3 DEF PostOk
    <3> HIDE DEF v
    <3> QED
      BY <1>0, <3>1, <3>3, <3>4, StandingPost, OnePost DEF Taken
  <2> QED
    BY <1>8, <2>1, <2>2 DEF Drain
<1>9. ASSUME NEW u \in DOMAIN runs, Run(u) PROVE Goal
  <2>1. runs[u].head \in Nat /\ Fresh \in Nat
    BY DEF Shape, RunsOk, RunOk, TreeOk, Fresh
  <2>2. \E e \in Signals : Tell(u, <<e>>)
    BY <1>9, <2>1 DEF Run, Answer, Finish, Fail, Signals
  <2> QED
    BY <1>0, <2>2, Telling
<1>10. ASSUME NEW m, OpenThread(m) \/ PinThread(m) PROVE UNCHANGED posts
  BY <1>10 DEF OpenThread, PinThread
<1>11. ASSUME NEW k, Reset(k) \/ Command(k) PROVE UNCHANGED posts
  BY <1>11 DEF Reset, Command
<1>12. CASE UNCHANGED vars
  BY <1>2, <1>12 DEF vars
<1> QED
  BY <1>1, <1>2, <1>3, <1>5, <1>6, <1>7, <1>8, <1>9, <1>10, <1>11, <1>12 DEF Next, Turn

-----------------------------------------------------------------------------
(* The tree, step by step: what a step writes for a session hangs below a  *)
(* node the session stands at, or starts a branch.                         *)

Grown == \E k \in Keys : \E p \in 0..Len(path) : (p = 0 \/ Holds(k, p)) /\ Extended(p, k)

LEMMA SameTree ==
  ASSUME TreeOk, ThreadsStay, path' = path, home' = home, alive' \subseteq alive
  PROVE  TreeOk' /\ Grown
<1>1. Len(path) \in Nat /\ Group \in Keys /\ 0 \in 0..Len(path)
  BY DEF TreeOk, Keys
<1>2. \A n : n \notin NewNodes
  BY <1>1 DEF NewNodes, Fresh
<1>3. Extended(0, Group)
  BY <1>1, <1>2 DEF Extended
<1>4. TreeOk'
  BY DEF TreeOk, Nodes, Opened, ThreadsStay
<1> QED
  BY <1>1, <1>3, <1>4 DEF Grown

LEMMA Standing ==
  ASSUME Shape, NEW k
  PROVE  /\ Cursor(k) # NoNode <=> k \in DOMAIN store
         /\ Cursor(k) # NoNode => /\ Cursor(k) \in Nodes /\ Holds(k, Cursor(k))
                                 /\ AttachTo(k) \in Nodes /\ Holds(k, AttachTo(k))
<1>1. NoNode \notin Nodes
  BY DiscordAssumption DEF Nodes, Shape, TreeOk
<1>2. k \in DOMAIN store => Cursor(k) = store[k] /\ Holds(k, store[k]) /\ store[k] \in Nodes
  BY DEF Cursor, Get, Holds, Shape, HoldsOk
<1>3. k \in DOMAIN settled => Holds(k, settled[k]) /\ settled[k] \in Nodes
  BY DEF Holds, Shape, HoldsOk
<1>4. k \notin DOMAIN store => Cursor(k) = NoNode
  BY DEF Cursor, Get
<1> QED
  BY <1>1, <1>2, <1>3, <1>4 DEF AttachTo

LEMMA Pushing ==
  ASSUME Shape, ThreadsStay, NEW k \in Keys, Opened(k), Push(k)
  PROVE  /\ TreeOk' /\ Grown /\ Pushed(k) \in NewNodes /\ home'[Pushed(k)] = k /\ Pushed(k) = Len(path')
         /\ (Attached(k) \in NewNodes /\ home'[Attached(k)] = k) \/ Holds(k, Attached(k))
         /\ k \in DOMAIN store => /\ Attached(k) = AttachTo(k)
                                  /\ path[AttachTo(k)] \subseteq path'[Pushed(k)]
<1>1. Len(path) \in Nat /\ TreeOk
  BY DEF Shape, TreeOk
<1>2. CASE Cursor(k) = NoNode
  <2>1. GrowTwice(0, k) /\ Pushed(k) = Fresh + 1 /\ Attached(k) = Fresh /\ 0 \in 0..Len(path) /\ k \notin DOMAIN store
    BY <1>1, <1>2, Standing DEF Push, Pushed, Attached
  <2>2. TreeOk' /\ Extended(0, k) /\ Len(path') = Fresh + 1
    BY <1>1, <2>1, GrowingTwice
  <2>3. Fresh \in NewNodes /\ Fresh + 1 \in NewNodes
    BY <1>1, <2>2 DEF NewNodes, Fresh
  <2> QED
    BY <2>1, <2>2, <2>3 DEF Grown, Extended
<1>3. CASE Cursor(k) # NoNode
  <2>1. /\ Grow(AttachTo(k), k) /\ Pushed(k) = Fresh /\ Attached(k) = AttachTo(k)
        /\ Holds(k, AttachTo(k)) /\ AttachTo(k) \in Nodes
    BY <1>3, Standing DEF Push, Pushed, Attached
  <2>2. AttachTo(k) \in 0..Len(path) /\ AttachTo(k) # 0
    BY <1>1, <2>1 DEF Nodes
  <2>3. TreeOk' /\ Extended(AttachTo(k), k) /\ Len(path') = Fresh
    BY <1>1, <2>1, <2>2, Growing
  <2>4. Fresh \in NewNodes
    BY <1>1, <2>3 DEF NewNodes, Fresh
  <2> QED
    BY <2>1, <2>2, <2>3, <2>4 DEF Grown, Extended, Path
<1> QED
  BY <1>2, <1>3

LEMMA StepTree == Shape /\ [Next]_vars => TreeOk' /\ Grown
<1> SUFFICES ASSUME Shape, [Next]_vars PROVE TreeOk' /\ Grown
  OBVIOUS
<1> DEFINE Goal == TreeOk' /\ Grown
<1>0. TreeOk /\ ThreadsStay /\ PostsOk /\ ThreadsOk /\ Len(path) \in Nat
      /\ (\A m \in DOMAIN posts : posts[m].key \in Keys /\ Opened(posts[m].key))
  <2>1. ThreadsStay
    BY StepThreads DEF ThreadsMove
  <2>2. TreeOk /\ PostsOk /\ ThreadsOk /\ Len(path) \in Nat
    BY DEF Shape, TreeOk
  <2>3. \A m \in DOMAIN posts : posts[m] \in Posts /\ PostOk(posts[m])
    BY <2>2 DEF PostsOk
  <2> QED
    BY <2>1, <2>2, <2>3 DEF Posts, PostOk
<1>1. CASE UNCHANGED tree
  BY <1>0, <1>1, SameTree DEF tree
<1>2. ASSUME NEW k \in Keys, Opened(k), Grow(0, k) PROVE Goal
  BY <1>0, <1>2, Growing DEF Grown
<1>3. ASSUME NEW m \in DOMAIN posts, TakePassive(m) \/ Start(m) PROVE Goal
  BY <1>0, <1>3, Pushing DEF TakePassive, Start
<1>4. ASSUME NEW m \in DOMAIN posts, TakeThread(m) PROVE Goal
  BY <1>0, <1>1, <1>2, <1>4 DEF TakeThread
<1>5. ASSUME NEW m \in DOMAIN threads, PinThread(m) PROVE Goal
  <2>1. m \in Nat /\ Thread(m) \in Keys /\ Opened(Thread(m))
    BY <1>0 DEF ThreadsOk, PostsOk, Keys, Opened, Thread
  <2> QED
    BY <1>1, <1>2, <1>5, <2>1 DEF PinThread
<1>6. ASSUME NEW k \in Sessions, Reset(k) PROVE Goal
  BY <1>0, <1>2, <1>6, Keyed DEF Reset
<1>7. ASSUME NEW k \in Sessions, Command(k) PROVE Goal
  <2>1. k \in Keys /\ Opened(k) /\ GrowTwice(Cursor(k), k) /\ Holds(k, Cursor(k)) /\ Cursor(k) \in 0..Len(path)
    BY <1>0, <1>7, Keyed, Standing DEF Command, Introspect, Nodes
  <2> QED
    BY <1>0, <2>1, GrowingTwice DEF Grown
<1>8. ASSUME NEW u \in DOMAIN runs, Answer(u) PROVE Goal
  <2>1. runs[u].key \in Keys /\ Holds(runs[u].key, runs[u].head) /\ Opened(runs[u].key)
    BY <1>0 DEF Shape, RunsOk, RunOk, Holds
  <2>2. runs[u].head \in 0..Len(path)
    BY <1>0, <2>1 DEF Shape, HoldsOk, Nodes
  <2> QED
    BY <1>0, <1>8, <2>1, <2>2, Growing DEF Answer, Grown
<1>9. CASE Restart
  <2>1. alive' \subseteq alive
    BY <1>9 DEF Restart
  <2> QED
    BY <1>0, <1>9, <2>1, SameTree DEF Restart
<1>10. ASSUME NEW k, NEW trigger, Say(k, trigger) PROVE UNCHANGED tree
  BY <1>10 DEF Say
<1>11. ASSUME NEW m, Drain(m) \/ TimeOut(m) \/ OpenThread(m) PROVE UNCHANGED tree
  BY <1>11 DEF Drain, TimeOut, OpenThread
<1>12. ASSUME NEW u, Finish(u) \/ Fail(u) PROVE UNCHANGED tree
  BY <1>12 DEF Finish, Fail
<1>13. CASE UNCHANGED vars
  BY <1>1, <1>13 DEF vars
<1> QED
  BY <1>1, <1>3, <1>4, <1>5, <1>6, <1>7, <1>8, <1>9, <1>10, <1>11, <1>12, <1>13 DEF Next, Turn, Run

NodesStay == Nodes \subseteq 1..Len(path')

LEMMA GrownStays == ASSUME TreeOk, TreeOk', Grown PROVE NodesStay
BY DEF TreeOk, Grown, Extended, NodesStay, Nodes

LEMMA FewerRuns ==
  ASSUME RunsOk, PostsMove, NodesStay, DOMAIN runs' \subseteq DOMAIN runs,
         \A u \in DOMAIN runs' : runs'[u] = runs[u]
  PROVE  RunsOk'
BY DEF RunsOk, RunOk, PostsMove, NodesStay, Nodes

LEMMA StepRuns == Shape /\ [Next]_vars => RunsOk'
<1> SUFFICES ASSUME Shape, [Next]_vars PROVE RunsOk'
  OBVIOUS
<1>0. /\ PostsMove /\ NodesStay /\ TreeOk /\ TreeOk' /\ RunsOk /\ PostsOk /\ ThreadsStay
      /\ Len(path) \in Nat /\ Fresh \in Nat
  BY StepPosts, StepTree, GrownStays, StepThreads DEF Shape, TreeOk, Fresh, ThreadsMove
<1>1. CASE UNCHANGED runs
  BY <1>0, <1>1, FewerRuns
<1>2. ASSUME NEW m \in DOMAIN posts, Start(m) PROVE RunsOk'
  <2>1. PICK k \in Keys : k = posts[m].key /\ Opened(k)
    <3>1. posts[m] \in Posts /\ PostOk(posts[m])
      BY <1>0 DEF PostsOk
    <3> QED
      BY <3>1 DEF Posts, PostOk
  <2>2. PICK n : n = Pushed(k) /\ n \in NewNodes /\ n = Len(path')
    BY <1>0, <1>2, <2>1, Pushing DEF Start
  <2>3. n \notin DOMAIN runs /\ n \in 1..Len(path') /\ n \in Nat
    BY <1>0, <2>2 DEF RunsOk, Nodes, NewNodes, Fresh, TreeOk
  <2>4. runs' = With(runs, n, [key |-> k, post |-> m, head |-> n, pc |-> "running"])
    BY <1>2, <2>1, <2>2 DEF Start
  <2>5. /\ DOMAIN runs' = DOMAIN runs \union {n}
        /\ runs'[n] = [key |-> k, post |-> m, head |-> n, pc |-> "running"]
        /\ \A u \in DOMAIN runs : runs'[u] = runs[u]
    BY <2>3, <2>4 DEF With
  <2>6. \A u \in DOMAIN runs : RunOk(u)'
    BY <1>0, <2>5 DEF RunsOk, RunOk, PostsMove
  <2>7. RunOk(n)'
    <3>1. m \in DOMAIN posts' /\ posts'[m].key = k
      BY <1>0, <2>1 DEF PostsMove
    <3> QED
      BY <2>3, <2>5, <3>1 DEF RunOk
  <2> QED
    BY <1>0, <2>3, <2>5, <2>6, <2>7 DEF RunsOk, NodesStay, Nodes
<1>3. ASSUME NEW u \in DOMAIN runs, Answer(u) PROVE RunsOk'
  <2>1. runs' = [runs EXCEPT ![u].pc = "post", ![u].head = Fresh]
    BY <1>3 DEF Answer
  <2>2. DOMAIN runs' = DOMAIN runs
    BY <2>1
  <2>3. ASSUME NEW v \in DOMAIN runs
        PROVE  /\ runs'[v] \in [key : Keys, post : DOMAIN posts', head : Nat, pc : {"running", "post"}]
               /\ runs'[v].key = runs[v].key /\ runs'[v].post = runs[v].post
    BY <1>0, <2>1 DEF RunsOk, RunOk, PostsMove
  <2> QED
    BY <1>0, <2>2, <2>3 DEF RunsOk, RunOk, PostsMove, NodesStay, Nodes
<1>4. ASSUME NEW u \in DOMAIN runs, Leave(u) PROVE RunsOk'
  BY <1>0, <1>4, FewerRuns DEF Leave
<1>5. CASE Restart
  BY <1>0, <1>5, FewerRuns DEF Restart
<1>6. ASSUME NEW k, NEW trigger, Say(k, trigger) PROVE UNCHANGED runs
  BY <1>6 DEF Say, memory
<1>7. ASSUME NEW m, TakePassive(m) \/ TakeThread(m) \/ Drain(m) \/ TimeOut(m) \/ OpenThread(m) \/ PinThread(m)
      PROVE  UNCHANGED runs
  BY <1>7 DEF TakePassive, TakeThread, Drain, TimeOut, OpenThread, PinThread, memory
<1>8. ASSUME NEW k, Reset(k) \/ Command(k) PROVE UNCHANGED runs
  BY <1>8 DEF Reset, Command, memory
<1>9. CASE UNCHANGED vars
  BY <1>1, <1>9 DEF vars, memory
<1> QED
  BY <1>1, <1>2, <1>3, <1>4, <1>5, <1>6, <1>7, <1>8, <1>9 DEF Next, Turn, Run, Finish, Fail

-----------------------------------------------------------------------------
(* The message map and the mirrors, step by step.                          *)

(* An entry is kept as it is, or new: the node just written for a message. *)
MsgNodesMove ==
  \A m \in DOMAIN msgNodes' :
    \/ m \in DOMAIN msgNodes /\ msgNodes'[m] = msgNodes[m]
    \/ /\ m \in DOMAIN posts /\ posts[m].at \notin Taken /\ posts'[m].at \in Taken
       /\ msgNodes'[m] \in NewNodes /\ home'[msgNodes'[m]] = posts[m].key

LEMMA Remembering ==
  ASSUME NEW m, NEW n, Remember(m, n)
  PROVE  \A i \in DOMAIN msgNodes' : \/ i = m /\ msgNodes'[i] = n
                                     \/ i \in DOMAIN msgNodes /\ msgNodes'[i] = msgNodes[i]
<1> DEFINE all == With(msgNodes, m, n)
<1>1. PICK kept : kept \subseteq DOMAIN all /\ msgNodes' = [j \in kept |-> all[j]]
  <2>1. PICK trimmed : msgNodes' = [j \in DOMAIN all \ trimmed |-> all[j]]
    BY DEF Remember
  <2> QED
    BY <2>1
<1>2. DOMAIN all = DOMAIN msgNodes \union {m} /\ all[m] = n /\ \A i \in DOMAIN msgNodes : i # m => all[i] = msgNodes[i]
  BY DEF With
<1> HIDE DEF all
<1> QED
  BY <1>1, <1>2

LEMMA StepMsgNodes == Shape /\ [Next]_vars => MsgNodesMove /\ MsgNodesOk'
<1> SUFFICES ASSUME Shape, [Next]_vars PROVE MsgNodesMove /\ MsgNodesOk'
  OBVIOUS
<1>0. PostsMove /\ NodesStay /\ TreeOk /\ TreeOk' /\ PostsOk /\ ThreadsStay /\ MsgNodesOk
  <2>1. TreeOk /\ PostsOk /\ MsgNodesOk /\ ThreadsStay
    BY StepThreads DEF Shape, ThreadsMove
  <2> QED
    BY <2>1, StepPosts, StepTree, GrownStays
<1>1. ASSUME UNCHANGED msgNodes PROVE MsgNodesMove
  BY <1>1 DEF MsgNodesMove
<1>2. ASSUME NEW m \in DOMAIN posts, TakePassive(m) \/ Start(m) PROVE MsgNodesMove
  <2>1. posts[m] \in Posts /\ PostOk(posts[m])
    BY <1>0 DEF PostsOk
  <2>2. PICK k \in Keys : k = posts[m].key /\ Opened(k)
    BY <2>1 DEF Posts, PostOk
  <2>3. Pushed(k) \in NewNodes /\ home'[Pushed(k)] = k
    BY <1>0, <1>2, <2>2, Pushing DEF TakePassive, Start
  <2>4. PICK n : n = Pushed(k)
    OBVIOUS
  <2>5. Remember(m, n)
    BY <1>2, <2>2, <2>4 DEF TakePassive, Start
  <2>6. posts[m].at \in {"sent", "dispatched"}
    BY <1>2 DEF TakePassive, Start, Dispatched
  <2>7. posts'[m].at \in Taken
    BY <1>2, <2>1 DEF TakePassive, Start, Gone, Taken, Posts
  <2> QED
    <3>1. \A i \in DOMAIN msgNodes' : \/ i = m /\ msgNodes'[i] = n
                                      \/ i \in DOMAIN msgNodes /\ msgNodes'[i] = msgNodes[i]
      BY <2>5, Remembering
    <3>2. posts[m].at \notin Taken
      BY <2>6 DEF Taken
    <3> QED
      BY <2>2, <2>3, <2>4, <2>7, <3>1, <3>2 DEF MsgNodesMove
<1>3. ASSUME Restart PROVE MsgNodesMove
  BY <1>3 DEF Restart, MsgNodesMove
<1>4. ASSUME NEW k, NEW trigger, Say(k, trigger) PROVE UNCHANGED msgNodes
  BY <1>4 DEF Say
<1>5. ASSUME NEW m, TakeThread(m) \/ Drain(m) \/ TimeOut(m) \/ OpenThread(m) \/ PinThread(m)
      PROVE  UNCHANGED msgNodes
  BY <1>5 DEF TakeThread, Drain, TimeOut, OpenThread, PinThread
<1>6. ASSUME NEW u, Run(u) PROVE UNCHANGED msgNodes
  BY <1>6 DEF Run, Answer, Finish, Fail
<1>7. ASSUME NEW k, Reset(k) \/ Command(k) PROVE UNCHANGED msgNodes
  BY <1>7 DEF Reset, Command
<1>8. ASSUME UNCHANGED vars PROVE MsgNodesMove
  BY <1>1, <1>8 DEF vars
<1>9. MsgNodesMove
  BY <1>1, <1>2, <1>3, <1>4, <1>5, <1>6, <1>7, <1>8 DEF Next, Turn
<1>10. NewNodes \subseteq 1..Len(path')
  BY <1>0 DEF NewNodes, TreeOk, Fresh
<1> QED
  BY <1>0, <1>9, <1>10 DEF MsgNodesMove, MsgNodesOk, PostsMove, NodesStay, Nodes, Taken

LEMMA StepThreadsOk == Shape /\ [Next]_vars => ThreadsOk'
<1> SUFFICES ASSUME Shape, [Next]_vars PROVE ThreadsOk'
  OBVIOUS
<1>0. PostsMove /\ ThreadsOk /\ PostsOk /\ MsgNodesOk
  BY StepPosts DEF Shape
<1>1. CASE UNCHANGED threads
  BY <1>0, <1>1 DEF ThreadsOk, PostsMove
<1>2. ASSUME NEW m \in DOMAIN posts, OpenThread(m) PROVE ThreadsOk'
  <2>1. MsgNode(m) \in Nat \union {NoNode}
    BY <1>0 DEF MsgNode, Get, MsgNodesOk, Nodes
  <2>2. PICK n \in Nat \union {NoNode} : n = MsgNode(m)
    BY <2>1
  <2>3. threads' = With(threads, m, [at |-> "fetching", starter |-> n]) /\ posts[m].key = Group
    BY <1>2, <2>2 DEF OpenThread
  <2>4. DOMAIN threads' = DOMAIN threads \union {m}
        /\ threads'[m] = [at |-> "fetching", starter |-> n]
        /\ \A i \in DOMAIN threads : i # m => threads'[i] = threads[i]
    BY <2>3 DEF With
  <2> QED
    BY <1>0, <2>3, <2>4 DEF ThreadsOk, PostsMove
<1>3. ASSUME NEW m \in DOMAIN threads, PinThread(m) PROVE ThreadsOk'
  <2>1. threads' = [threads EXCEPT ![m].at = "open"]
    BY <1>3 DEF PinThread
  <2> QED
    BY <1>0, <2>1 DEF ThreadsOk, PostsMove
<1>4. CASE Restart
  BY <1>0, <1>4 DEF Restart, ThreadsOk, PostsMove
<1>5. ASSUME NEW k, NEW trigger, Say(k, trigger) PROVE UNCHANGED threads
  BY <1>5 DEF Say
<1>6. ASSUME NEW m, Turn(m) PROVE UNCHANGED threads
  BY <1>6 DEF Turn, TakePassive, TakeThread, Start, Drain, TimeOut
<1>7. ASSUME NEW u, Run(u) PROVE UNCHANGED threads
  BY <1>7 DEF Run, Answer, Finish, Fail
<1>8. ASSUME NEW k, Reset(k) \/ Command(k) PROVE UNCHANGED threads
  BY <1>8 DEF Reset, Command
<1>9. CASE UNCHANGED vars
  BY <1>1, <1>9 DEF vars
<1> QED
  BY <1>1, <1>2, <1>3, <1>4, <1>5, <1>6, <1>7, <1>8, <1>9 DEF Next

LEMMA StepMirrors == Shape /\ [Next]_vars => MirrorsOk'
<1> SUFFICES ASSUME Shape, [Next]_vars PROVE MirrorsOk'
  OBVIOUS
<1>0. /\ ThreadsStay /\ ThreadsOk /\ PostsOk /\ MirrorsOk
      /\ \A m \in DOMAIN posts : posts[m].key \in Keys /\ Opened(posts[m].key)
  <2>1. ThreadsStay /\ ThreadsOk /\ PostsOk /\ MirrorsOk
    BY StepThreads DEF ThreadsMove, Shape
  <2>2. \A m \in DOMAIN posts : posts[m] \in Posts /\ PostOk(posts[m])
    BY <2>1 DEF PostsOk
  <2> QED
    BY <2>1, <2>2 DEF Posts, PostOk
<1> DEFINE Moved(k) ==
      /\ DOMAIN store' \subseteq DOMAIN store \union {k} /\ DOMAIN store \subseteq DOMAIN store'
      /\ DOMAIN settled' \subseteq DOMAIN settled \union ({k} \intersect DOMAIN store')
      /\ \A u \in DOMAIN runs' : runs'[u].key \in DOMAIN store'
<1>1. ASSUME NEW k \in Keys, Opened(k), Moved(k) PROVE MirrorsOk'
  BY <1>0, <1>1 DEF MirrorsOk, Opened, ThreadsStay
<1>2. \A u \in DOMAIN runs : runs[u].key \in DOMAIN store
  BY <1>0 DEF MirrorsOk
<1>3. Group \in Keys /\ Opened(Group)
  BY DEF Keys, Opened, Group
<1>4. CASE UNCHANGED <<store, settled, runs>>
  BY <1>1, <1>2, <1>3, <1>4
<1>5. ASSUME NEW m \in DOMAIN posts, TakePassive(m) PROVE Moved(posts[m].key)
  BY <1>2, <1>5 DEF TakePassive, With
<1>6. ASSUME NEW m \in DOMAIN posts, TakeThread(m) PROVE Moved(posts[m].key)
  BY <1>2, <1>6 DEF TakeThread, With, memory
<1>7. ASSUME NEW m \in DOMAIN posts, Start(m) PROVE Moved(posts[m].key)
  BY <1>2, <1>7 DEF Start, With
<1>8. ASSUME NEW m \in DOMAIN posts, Drain(m) PROVE Moved(posts[m].key)
  BY <1>2, <1>8 DEF Drain, Mirrored, With, memory
<1>9. ASSUME NEW m \in DOMAIN threads, PinThread(m) PROVE MirrorsOk'
  <2>1. m \in Nat
    BY <1>0, <1>9 DEF ThreadsOk, PostsOk
  <2>2. Thread(m) \in Keys /\ Opened(Thread(m))
    BY <1>9, <2>1 DEF Keys, Opened, Thread
  <2>3. Moved(Thread(m))
    BY <1>2, <1>9 DEF PinThread, With
  <2> QED
    BY <1>1, <2>2, <2>3
<1>10. ASSUME NEW k \in Sessions, Reset(k) \/ Command(k) PROVE MirrorsOk'
  <2>1. Moved(k)
    BY <1>2, <1>10 DEF Reset, Command, With, memory
  <2> QED
    BY <1>0, <1>1, <2>1, Keyed
<1>11. ASSUME NEW u \in DOMAIN runs, Run(u) PROVE MirrorsOk'
  <2>1. DOMAIN runs' \subseteq DOMAIN runs /\ \A v \in DOMAIN runs' : runs'[v].key = runs[v].key
    <3>1. RunsOk
      BY DEF Shape
    <3>2. CASE Answer(u)
      BY <3>1, <3>2 DEF Answer, RunsOk, RunOk
    <3>3. CASE Leave(u)
      BY <3>3 DEF Leave
    <3> QED
      BY <1>11, <3>2, <3>3 DEF Run, Finish, Fail
  <2>2. UNCHANGED store /\ DOMAIN settled' \subseteq DOMAIN settled \union {runs[u].key}
    BY <1>11 DEF Run, Answer, Finish, Fail, Leave, With
  <2> QED
    BY <1>0, <1>2, <2>1, <2>2 DEF MirrorsOk, Opened, ThreadsStay
<1>12. CASE Restart
  BY <1>0, <1>12 DEF Restart, MirrorsOk, Opened, ThreadsStay
<1>13. ASSUME NEW k, NEW trigger, Say(k, trigger) PROVE UNCHANGED <<store, settled, runs>>
  BY <1>13 DEF Say, memory
<1>14. ASSUME NEW m, TimeOut(m) \/ OpenThread(m) PROVE UNCHANGED <<store, settled, runs>>
  BY <1>14 DEF TimeOut, OpenThread, memory
<1>15. CASE UNCHANGED vars
  BY <1>4, <1>15 DEF vars, memory
<1>16. ASSUME NEW m \in DOMAIN posts, Moved(posts[m].key) PROVE MirrorsOk'
  BY <1>0, <1>1, <1>16
<1> HIDE DEF Moved
<1> QED
  BY <1>4, <1>5, <1>6, <1>7, <1>8, <1>9, <1>10, <1>11, <1>12, <1>13, <1>14, <1>15, <1>16 DEF Next, Turn

-----------------------------------------------------------------------------
(* Where a session may stand after a step.                                 *)

Sends(u, e) ==
  \/ Answer(u) /\ e = [type |-> "final", tail |-> Fresh]
  \/ Finish(u) /\ e = [type |-> "done", tail |-> runs[u].head]
  \/ Fail(u) /\ e = [type |-> "error", tail |-> NoNode]

(* An event that is pending was so before, or a run has just sent it.      *)
LEMMA StepPending ==
  ASSUME Shape, [Next]_vars, NEW m, NEW e, Pending(m, e)'
  PROVE  /\ m \in DOMAIN posts /\ posts'[m].key = posts[m].key
         /\ Pending(m, e) \/ \E u \in DOMAIN runs : runs[u].post = m /\ Sends(u, e)
<1>0. PostsOk /\ EpochsOk /\ posts \in Seq(Posts) /\ \A i \in DOMAIN posts : posts[i] \in Posts /\ PostOk(posts[i])
  BY DEF Shape, PostsOk
<1>1. /\ m \in DOMAIN posts' /\ Current(m)'
      /\ \E i \in DOMAIN posts'[m].queue : posts'[m].queue[i] = e
  BY DEF Pending
<1>2. posts'[m].queue # <<>>
  BY <1>1
<1>3. ~Restart
  BY <1>1, <1>2 DEF Restart, Gone
<1>4. EpochsMove
  BY <1>3, StepEpochs
<1> DEFINE Same == /\ m \in DOMAIN posts /\ posts'[m].key = posts[m].key /\ posts'[m].epoch = posts[m].epoch
                   /\ posts[m].at = "draining"
           Goal == /\ m \in DOMAIN posts /\ posts'[m].key = posts[m].key
                   /\ Pending(m, e) \/ \E u \in DOMAIN runs : runs[u].post = m /\ Sends(u, e)
<1>5. Same => Current(m)
  <2> SUFFICES ASSUME Same PROVE Current(m)
    OBVIOUS
  <2>1. PICK k : k = posts[m].key
    OBVIOUS
  <2>2. posts[m].epoch <= Epoch(k) /\ posts[m].epoch \in Nat
    BY <1>0, <2>1 DEF PostOk, Posts
  <2>3. posts[m].epoch = Epoch(k)'
    BY <1>1, <2>1 DEF Current, Epoch
  <2>4. posts[m].epoch = Epoch(k)
    BY <1>4, <2>2, <2>3 DEF EpochsMove
  <2> QED
    BY <2>1, <2>4 DEF Current, Epoch
<1>6. ASSUME Same, \E i \in DOMAIN posts[m].queue : posts[m].queue[i] = e PROVE Goal
  BY <1>5, <1>6 DEF Pending
<1>7. ASSUME m \in DOMAIN posts, posts'[m] = posts[m] PROVE Goal
  BY <1>0, <1>1, <1>2, <1>6, <1>7 DEF PostOk
<1>8. ASSUME UNCHANGED posts PROVE Goal
  BY <1>1, <1>7, <1>8
<1>9. ASSUME NEW k, NEW trigger, Say(k, trigger) PROVE Goal
  <2> DEFINE v == [key |-> k, trigger |-> trigger, at |-> "sent", epoch |-> 0, tail |-> 0, queue |-> <<>>]
  <2>1. posts' = Append(posts, v) /\ v.queue = <<>>
    BY <1>9 DEF Say
  <2> HIDE DEF v
  <2>2. (m \in DOMAIN posts /\ posts'[m] = posts[m]) \/ posts'[m] = v
    BY <1>0, <1>1, <2>1
  <2> QED
    BY <1>2, <1>7, <2>1, <2>2
<1>10. ASSUME NEW n \in DOMAIN posts, posts' = [posts EXCEPT ![n] = Gone(@)] PROVE Goal
  BY <1>1, <1>2, <1>7, <1>10 DEF Gone
<1>11. ASSUME NEW n \in DOMAIN posts, TakePassive(n) \/ TimeOut(n) PROVE Goal
  BY <1>10, <1>11 DEF TakePassive, TimeOut
<1>12. ASSUME NEW n \in DOMAIN posts, TakeThread(n) \/ Start(n) PROVE Goal
  <2>1. DOMAIN posts' = DOMAIN posts /\ \A i \in DOMAIN posts : i # n => posts'[i] = posts[i]
    BY <1>12 DEF TakeThread, Start
  <2>2. posts[n].at # "draining"
    BY <1>12 DEF TakeThread, Start, Dispatched
  <2>3. posts'[n].queue = posts[n].queue
    BY <1>0, <1>12 DEF TakeThread, Start, Posts
  <2> QED
    BY <1>0, <1>1, <1>2, <1>7, <2>1, <2>2, <2>3 DEF PostOk
<1>13. ASSUME NEW n \in DOMAIN posts, Drain(n) PROVE Goal
  <2>1. CASE posts' = [posts EXCEPT ![n] = Gone(@)]
    BY <1>10, <2>1
  <2>2. CASE posts' = [posts EXCEPT ![n].queue = Tail(@)]
    <3>1. DOMAIN posts' = DOMAIN posts /\ \A i \in DOMAIN posts : i # n => posts'[i] = posts[i]
      BY <2>2
    <3>2. /\ posts'[n].key = posts[n].key /\ posts'[n].epoch = posts[n].epoch
          /\ posts'[n].queue = Tail(posts[n].queue) /\ posts[n].at = "draining"
          /\ posts[n].queue # <<>> /\ posts[n].queue \in Seq(Signals)
      <4>1. posts[n] \in Posts /\ posts[n].at = "draining" /\ posts[n].queue # <<>>
        BY <1>0, <1>13 DEF Drain
      <4>2. posts'[n] = [posts[n] EXCEPT !.queue = Tail(@)]
        BY <2>2
      <4> QED
        BY <4>1, <4>2 DEF Posts, Queues
    <3>3. \A i \in DOMAIN Tail(posts[n].queue) :
            i + 1 \in DOMAIN posts[n].queue /\ Tail(posts[n].queue)[i] = posts[n].queue[i + 1]
      BY <3>2
    <3>4. CASE m = n
      BY <1>1, <1>6, <3>2, <3>3, <3>4
    <3>5. CASE m # n
      BY <1>1, <1>7, <3>1, <3>5
    <3> QED
      BY <3>4, <3>5
  <2> QED
    BY <1>13, <2>1, <2>2 DEF Drain
<1>14. ASSUME NEW u \in DOMAIN runs, Run(u) PROVE Goal
  <2>1. PICK n \in DOMAIN posts : n = runs[u].post
    BY DEF Shape, RunsOk, RunOk
  <2>2. PICK d : Sends(u, d) /\ Tell(u, <<d>>)
    BY <1>14 DEF Run, Answer, Finish, Fail, Sends
  <2>3. DOMAIN posts' = DOMAIN posts /\ \A i \in DOMAIN posts : i # n => posts'[i] = posts[i]
    BY <2>1, <2>2 DEF Tell
  <2>4. /\ posts'[n].key = posts[n].key /\ posts'[n].epoch = posts[n].epoch
        /\ posts'[n].queue = IF posts[n].at = "draining" THEN posts[n].queue \o <<d>> ELSE posts[n].queue
        /\ posts[n].queue \in Seq(Signals)
    BY <1>0, <2>1, <2>2 DEF Tell, Posts, Queues
  <2>5. CASE m # n
    BY <1>1, <1>7, <2>3, <2>5
  <2>6. CASE m = n /\ posts[n].at # "draining"
    BY <1>0, <1>2, <2>4, <2>6 DEF PostOk
  <2>7. CASE m = n /\ posts[n].at = "draining"
    <3>1. \A i \in DOMAIN (posts[n].queue \o <<d>>) :
            \/ i \in DOMAIN posts[n].queue /\ (posts[n].queue \o <<d>>)[i] = posts[n].queue[i]
            \/ (posts[n].queue \o <<d>>)[i] = d
      BY <2>4
    <3>2. \/ \E i \in DOMAIN posts[n].queue : posts[n].queue[i] = e
          \/ d = e
      BY <1>1, <2>4, <2>7, <3>1
    <3> QED
      BY <1>6, <2>1, <2>2, <2>4, <2>7, <3>2
  <2> QED
    BY <2>5, <2>6, <2>7
<1>15. ASSUME NEW i, OpenThread(i) \/ PinThread(i) PROVE UNCHANGED posts
  BY <1>15 DEF OpenThread, PinThread
<1>16. ASSUME NEW k, Reset(k) \/ Command(k) PROVE UNCHANGED posts
  BY <1>16 DEF Reset, Command
<1>17. ASSUME UNCHANGED vars PROVE Goal
  BY <1>8, <1>17 DEF vars
<1> HIDE DEF Goal
<1>18. Goal
  BY <1>3, <1>8, <1>9, <1>11, <1>12, <1>13, <1>14, <1>15, <1>16, <1>17 DEF Next, Turn
<1> QED
  BY <1>18 DEF Goal

(* A thread that has no cursor yet starts from its channel.                *)
Forks(k, p) == \E m \in DOMAIN threads : k = Thread(m) /\ p = ForkPoint(m) /\ p # NoNode

(* A node a session may stand at next: one of its own, one just written    *)
(* for it, or the one its thread forks from.                               *)
Reached(k, p) ==
  Holds(k, p) \/ (p \in NewNodes /\ home'[p] = k) \/ Forks(k, p)

StoreReached == \A k \in DOMAIN store' : Reached(k, store'[k])
SettledReached == \A k \in DOMAIN settled' : Reached(k, settled'[k])
HeadsReached == \A u \in DOMAIN runs' : Reached(runs'[u].key, runs'[u].head)
AllReached == StoreReached /\ SettledReached /\ HeadsReached

LEMMA StandsAlready ==
  /\ \A k \in DOMAIN store : Reached(k, store[k])
  /\ \A k \in DOMAIN settled : Reached(k, settled[k])
  /\ \A u \in DOMAIN runs : Reached(runs[u].key, runs[u].head)
BY DEF Reached, Holds

LEMMA MovesOne ==
  ASSUME NEW f, \A k \in DOMAIN f : Reached(k, f[k]), NEW j, NEW v, Reached(j, v), NEW g, g = With(f, j, v)
  PROVE  \A k \in DOMAIN g : Reached(k, g[k])
BY DEF With

LEMMA NewRoot ==
  ASSUME Shape, ThreadsStay, NEW k \in Keys, Opened(k), Grow(0, k)
  PROVE  Reached(k, Fresh)
<1>1. TreeOk /\ Len(path) \in Nat /\ 0 \in 0..Len(path)
  BY DEF Shape, TreeOk
<1>2. Extended(0, k) /\ Len(path') = Fresh
  BY <1>1, Growing
<1> QED
  BY <1>1, <1>2 DEF Extended, Reached, NewNodes, Fresh

LEMMA PushReaches ==
  ASSUME Shape, [Next]_vars, NEW m \in DOMAIN posts, NEW k, k = posts[m].key, Push(k)
  PROVE  Reached(k, Pushed(k)) /\ Reached(k, Attached(k))
<1>1. posts[m] \in Posts /\ PostOk(posts[m]) /\ ThreadsStay
  BY StepThreads DEF Shape, PostsOk, ThreadsMove
<1>2. k \in Keys /\ Opened(k)
  BY <1>1 DEF Posts, PostOk
<1> QED
  BY <1>1, <1>2, Pushing DEF Reached

LEMMA StepReached == Shape /\ [Next]_vars => AllReached
<1> SUFFICES ASSUME Shape, [Next]_vars PROVE AllReached
  OBVIOUS
<1>0. /\ ThreadsStay /\ ThreadsOk /\ PostsOk /\ RunsOk
      /\ \A m \in DOMAIN posts : posts[m] \in Posts /\ posts[m].key \in Keys /\ Opened(posts[m].key)
  <2>1. ThreadsStay /\ ThreadsOk /\ PostsOk /\ RunsOk
    BY StepThreads DEF ThreadsMove, Shape
  <2>2. \A m \in DOMAIN posts : posts[m] \in Posts /\ PostOk(posts[m])
    BY <2>1 DEF PostsOk
  <2> QED
    BY <2>1, <2>2 DEF Posts, PostOk
<1> USE DEF AllReached
<1>1. UNCHANGED store => StoreReached
  BY StandsAlready DEF StoreReached
<1>2. UNCHANGED settled => SettledReached
  BY StandsAlready DEF SettledReached
<1>3. UNCHANGED runs => HeadsReached
  BY StandsAlready DEF HeadsReached
<1>4. ASSUME NEW k, NEW p, Reached(k, p), store' = With(store, k, p) PROVE StoreReached
  BY <1>4, StandsAlready, MovesOne DEF StoreReached
<1>5. ASSUME NEW k, NEW p, Reached(k, p), settled' = With(settled, k, p) PROVE SettledReached
  BY <1>5, StandsAlready, MovesOne DEF SettledReached
<1>6. ASSUME NEW m \in DOMAIN posts, TakePassive(m) PROVE AllReached
  <2>1. PICK k : k = posts[m].key
    OBVIOUS
  <2>2. PICK p : p = Pushed(k)
    OBVIOUS
  <2>3. Reached(k, p)
    BY <1>6, <2>1, <2>2, PushReaches DEF TakePassive
  <2>4. store' = With(store, k, p) /\ settled' = With(settled, k, p) /\ UNCHANGED runs
    BY <1>6, <2>1, <2>2 DEF TakePassive
  <2> QED
    BY <1>3, <1>4, <1>5, <2>3, <2>4
<1>7. ASSUME NEW m \in DOMAIN posts, TakeThread(m) PROVE AllReached
  <2>1. PICK k \in Keys : k = posts[m].key /\ Opened(k) /\ k.kind = "thread"
    BY <1>0, <1>7 DEF TakeThread
  <2>2. k.of \in DOMAIN threads /\ k = Thread(k.of)
    BY <2>1 DEF Keys, Opened, Dm, Group, Thread
  <2>3. ForkPoint(k.of) # NoNode => Reached(k, ForkPoint(k.of))
    BY <2>2 DEF Reached, Forks
  <2>4. Grow(0, k) => Reached(k, Fresh)
    BY <1>0, <2>1, NewRoot
  <2>5. \/ UNCHANGED store
        \/ store' = With(store, k, ForkPoint(k.of)) /\ ForkPoint(k.of) # NoNode
        \/ store' = With(store, k, Fresh) /\ Grow(0, k)
    BY <1>7, <2>1 DEF TakeThread
  <2>6. UNCHANGED settled /\ UNCHANGED runs
    BY <1>7 DEF TakeThread, memory
  <2> QED
    BY <1>1, <1>2, <1>3, <1>4, <2>3, <2>4, <2>5, <2>6
<1>8. ASSUME NEW m \in DOMAIN posts, Start(m) PROVE AllReached
  <2>1. PICK k : k = posts[m].key
    OBVIOUS
  <2>2. PICK p : p = Pushed(k)
    OBVIOUS
  <2>3. Reached(k, p) /\ Reached(k, Attached(k))
    BY <1>8, <2>1, <2>2, PushReaches DEF Start
  <2>4. store' = With(store, k, p) /\ settled' = With(settled, k, Attached(k))
    BY <1>8, <2>1, <2>2 DEF Start
  <2>5. runs' = With(runs, p, [key |-> k, post |-> m, head |-> p, pc |-> "running"])
    BY <1>8, <2>1, <2>2 DEF Start
  <2>6. ASSUME NEW u \in DOMAIN runs' PROVE Reached(runs'[u].key, runs'[u].head)
    <3>1. CASE u = p
      BY <2>3, <2>5, <3>1 DEF With
    <3>2. CASE u # p
      BY <2>5, <3>2, StandsAlready DEF With
    <3> QED
      BY <3>1, <3>2
  <2>7. HeadsReached
    BY <2>6 DEF HeadsReached
  <2> QED
    BY <1>4, <1>5, <2>3, <2>4, <2>7
<1>9. ASSUME NEW m \in DOMAIN posts, Drain(m) PROVE AllReached
  <2>1. PICK k : k = posts[m].key
    OBVIOUS
  <2>2. PICK e : e = Head(posts[m].queue)
    OBVIOUS
  <2>3. posts[m].queue # <<>> /\ posts[m].queue \in Seq(Signals)
    BY <1>0, <1>9 DEF Drain, Posts, Queues
  <2>4. 1 \in DOMAIN posts[m].queue /\ posts[m].queue[1] = e
    BY <2>2, <2>3
  <2>5. e.type = "final" /\ Current(m) => Reached(k, e.tail)
    BY <2>1, <2>4 DEF Reached, Holds, Pending
  <2>6. \/ UNCHANGED store
        \/ e.type = "final" /\ Current(m) /\ store' = With(store, k, e.tail)
    BY <1>9, <2>1, <2>2 DEF Drain, Mirrored
  <2>7. UNCHANGED settled /\ UNCHANGED runs
    BY <1>9 DEF Drain, memory
  <2> QED
    BY <1>1, <1>2, <1>3, <1>4, <2>5, <2>6, <2>7
<1>10. ASSUME NEW u \in DOMAIN runs, Answer(u) PROVE AllReached
  <2>1. PICK k \in Keys : k = runs[u].key /\ Opened(k)
    BY <1>0 DEF RunsOk, RunOk
  <2>2. Grow(runs[u].head, k) /\ runs' = [runs EXCEPT ![u].pc = "post", ![u].head = Fresh]
    BY <1>10, <2>1 DEF Answer
  <2>3. runs[u].head \in 0..Len(path) /\ TreeOk
    <3>1. Holds(k, runs[u].head)
      BY <2>1 DEF Holds
    <3> QED
      BY <3>1 DEF Shape, HoldsOk, Nodes
  <2>4. Extended(runs[u].head, k) /\ Len(path') = Fresh
    BY <1>0, <2>1, <2>2, <2>3, Growing
  <2>5. Reached(k, Fresh)
    BY <2>3, <2>4 DEF Extended, Reached, NewNodes, Fresh, TreeOk
  <2>6. ASSUME NEW v \in DOMAIN runs' PROVE Reached(runs'[v].key, runs'[v].head)
    <3>1. DOMAIN runs' = DOMAIN runs
      BY <2>2
    <3>2. runs'[v].key = runs[v].key /\ runs'[v].head = IF v = u THEN Fresh ELSE runs[v].head
      BY <1>0, <2>2, <3>1 DEF RunsOk, RunOk
    <3> QED
      BY <2>1, <2>5, <3>1, <3>2, StandsAlready
  <2>7. UNCHANGED store /\ UNCHANGED settled
    BY <1>10 DEF Answer
  <2> QED
    BY <1>1, <1>2, <2>6, <2>7 DEF HeadsReached
<1>11. ASSUME NEW u \in DOMAIN runs, Finish(u) \/ Fail(u) PROVE AllReached
  <2>1. UNCHANGED store /\ Leave(u)
    BY <1>11 DEF Finish, Fail
  <2>2. Reached(runs[u].key, runs[u].head)
    BY StandsAlready
  <2>3. HeadsReached
    BY <2>1, StandsAlready DEF Leave, HeadsReached
  <2> QED
    BY <1>1, <1>5, <2>1, <2>2, <2>3 DEF Leave
<1>12. ASSUME NEW m \in DOMAIN threads, PinThread(m) PROVE AllReached
  <2>1. m \in Nat /\ Thread(m) \in Keys /\ Opened(Thread(m))
    BY <1>0 DEF ThreadsOk, PostsOk, Keys, Opened, Thread
  <2>2. PICK k \in Keys : k = Thread(m) /\ Opened(k)
    BY <2>1
  <2>3. PICK p : p = IF ForkPoint(m) = NoNode THEN Fresh ELSE ForkPoint(m)
    OBVIOUS
  <2>4. Reached(k, p)
    <3>1. ForkPoint(m) # NoNode => Reached(k, ForkPoint(m))
      BY <2>2 DEF Reached, Forks
    <3>2. Grow(0, k) => Reached(k, Fresh)
      BY <1>0, <2>2, NewRoot
    <3>3. ForkPoint(m) = NoNode => Grow(0, k)
      BY <1>12, <2>2 DEF PinThread
    <3> QED
      BY <2>3, <3>1, <3>2, <3>3
  <2>5. store' = With(store, k, p) /\ settled' = With(settled, k, p) /\ UNCHANGED runs
    BY <1>12, <2>2, <2>3 DEF PinThread
  <2> QED
    BY <1>3, <1>4, <1>5, <2>4, <2>5
<1>13. ASSUME NEW k \in Sessions, Reset(k) PROVE AllReached
  <2>1. Reached(k, Fresh)
    BY <1>0, <1>13, Keyed, NewRoot DEF Reset
  <2>2. store' = With(store, k, Fresh) /\ settled' = With(settled, k, Fresh) /\ UNCHANGED runs
    BY <1>13 DEF Reset
  <2> QED
    BY <1>3, <1>4, <1>5, <2>1, <2>2
<1>14. ASSUME NEW k \in Sessions, Command(k) PROVE AllReached
  <2>1. k \in Keys /\ Opened(k) /\ Cursor(k) \in 0..Len(path) /\ GrowTwice(Cursor(k), k) /\ TreeOk
    BY <1>0, <1>14, Keyed, Standing DEF Command, Introspect, Nodes, Shape
  <2>2. Extended(Cursor(k), k) /\ Len(path') = Fresh + 1
    BY <1>0, <2>1, GrowingTwice
  <2>3. Reached(k, Fresh + 1)
    BY <2>1, <2>2 DEF Extended, Reached, NewNodes, Fresh, TreeOk
  <2>4. store' = With(store, k, Fresh + 1) /\ UNCHANGED settled /\ UNCHANGED runs
    BY <1>14 DEF Command, memory
  <2> QED
    BY <1>2, <1>3, <1>4, <2>3, <2>4
<1>15. ASSUME Restart PROVE AllReached
  BY <1>15, StandsAlready DEF Restart, StoreReached, SettledReached, HeadsReached
<1>16. ASSUME UNCHANGED <<store, settled, runs>> PROVE AllReached
  BY <1>1, <1>2, <1>3, <1>16
<1>17. ASSUME NEW k, NEW trigger, Say(k, trigger) PROVE AllReached
  BY <1>16, <1>17 DEF Say, memory
<1>18. ASSUME NEW m, TimeOut(m) \/ OpenThread(m) PROVE AllReached
  BY <1>16, <1>18 DEF TimeOut, OpenThread, memory
<1>19. ASSUME UNCHANGED vars PROVE AllReached
  BY <1>16, <1>19 DEF vars, memory
<1> HIDE DEF AllReached
<1> QED
  BY <1>6, <1>7, <1>8, <1>9, <1>10, <1>11, <1>12, <1>13, <1>14, <1>15, <1>17, <1>18, <1>19 DEF Next, Turn, Run

(* The same for the events that are pending.                               *)
LEMMA StepHolds ==
  ASSUME Shape, [Next]_vars, NEW k, NEW p, Holds(k, p)'
  PROVE  Reached(k, p)
<1>1. CASE k \in DOMAIN store' /\ p = store'[k]
  BY <1>1, StepReached DEF AllReached, StoreReached
<1>2. CASE k \in DOMAIN settled' /\ p = settled'[k]
  BY <1>2, StepReached DEF AllReached, SettledReached
<1>3. CASE \E u \in DOMAIN runs' : k = runs'[u].key /\ p = runs'[u].head
  BY <1>3, StepReached DEF AllReached, HeadsReached
<1>4. ASSUME NEW m, NEW e, Pending(m, e)', posts'[m].key = k, e.type = "final", e.tail = p PROVE Reached(k, p)
  <2>1. /\ m \in DOMAIN posts /\ posts[m].key = k
        /\ Pending(m, e) \/ \E u \in DOMAIN runs : runs[u].post = m /\ Sends(u, e)
    BY <1>4, StepPending
  <2>2. CASE Pending(m, e)
    BY <1>4, <2>1, <2>2 DEF Reached, Holds
  <2>3. ASSUME NEW u \in DOMAIN runs, runs[u].post = m, Sends(u, e) PROVE Reached(k, p)
    <3>1. Answer(u) /\ p = Fresh /\ runs'[u].head = Fresh /\ u \in DOMAIN runs'
      <4>1. Answer(u) /\ p = Fresh
        BY <1>4, <2>3 DEF Sends
      <4>2. runs' = [runs EXCEPT ![u].pc = "post", ![u].head = Fresh]
        BY <4>1 DEF Answer
      <4>3. runs[u] \in [key : Keys, post : DOMAIN posts, head : Nat, pc : {"running", "post"}]
        BY DEF Shape, RunsOk, RunOk
      <4> QED
        BY <4>1, <4>2, <4>3
    <3>2. RunOk(u) /\ RunOk(u)' /\ Fresh \in NewNodes /\ Reached(runs'[u].key, Fresh)
      <4>1. RunOk(u) /\ RunOk(u)' /\ TreeOk'
        BY <3>1, StepRuns, StepTree DEF Shape, RunsOk
      <4>2. Reached(runs'[u].key, Fresh)
        BY <3>1, StepReached DEF AllReached, HeadsReached
      <4>3. Len(path') \in Nat /\ Len(path) \in Nat /\ Len(path') = Len(path) + 1
        BY <3>1 DEF Shape, TreeOk, Answer, Grow
      <4> QED
        BY <4>1, <4>2, <4>3 DEF NewNodes, Fresh
    <3>3. runs'[u].key = runs[u].key
      BY <3>1 DEF Answer, Shape, RunsOk, RunOk
    <3> QED
      BY <2>1, <2>3, <3>1, <3>2, <3>3 DEF RunOk
  <2> QED
    BY <2>1, <2>2, <2>3
<1> QED
  BY <1>1, <1>2, <1>3, <1>4 DEF Holds

LEMMA StepShape == Shape /\ [Next]_vars => Shape'
<1> SUFFICES ASSUME Shape, [Next]_vars PROVE Shape'
  OBVIOUS
<1>1. TreeOk' /\ NodesStay /\ TreeOk
  BY StepTree, GrownStays DEF Shape
<1>2. HoldsOk'
  <2> SUFFICES ASSUME NEW k, NEW p, Holds(k, p)' PROVE p \in 1..Len(path')
    BY DEF HoldsOk, Nodes
  <2>1. CASE Holds(k, p)
    BY <1>1, <2>1 DEF Shape, HoldsOk, NodesStay
  <2>2. CASE p \in NewNodes
    BY <1>1, <2>2 DEF NewNodes, Fresh, TreeOk
  <2>3. ASSUME NEW m \in DOMAIN threads, p = ForkPoint(m), p # NoNode PROVE p \in 1..Len(path')
    <3>1. p \in Nodes
      <4>1. CASE MsgNode(m) # NoNode
        BY <2>3, <4>1 DEF ForkPoint, MsgNode, Get, Shape, MsgNodesOk
      <4>2. CASE MsgNode(m) = NoNode
        <5>1. p = store[Group] /\ Group \in DOMAIN store
          BY <2>3, <4>2 DEF ForkPoint, Get
        <5> QED
          BY <5>1 DEF Shape, HoldsOk, Holds
      <4> QED
        BY <4>1, <4>2
    <3> QED
      BY <1>1, <3>1 DEF NodesStay
  <2> QED
    BY <2>1, <2>2, <2>3, StepHolds DEF Reached, Forks
<1> QED
  BY <1>1, <1>2, StepPosts, StepRuns, StepThreadsOk, StepEpochs, StepMsgNodes, StepMirrors DEF Shape

LEMMA InitShape == Init => Shape
<1> SUFFICES ASSUME Init PROVE Shape
  OBVIOUS
<1>1. \A k, p : ~Holds(k, p)
  BY DEF Init, Holds, Pending
<1> QED
  BY <1>1 DEF Init, Shape, TreeOk, PostsOk, RunsOk, ThreadsOk, EpochsOk, MsgNodesOk, MirrorsOk, HoldsOk, Nodes

LEMMA ShapeHolds == Spec => []Shape
BY InitShape, StepShape, PTL DEF Spec

-----------------------------------------------------------------------------
(* The context of a session.                                               *)

(* The database is not replaced, and messages are not forgotten.           *)
Kept == MaxPosts <= MaxMsgNodes /\ ~MayLoseDb

UpTo(m, a) ==
  LET s == threads[m].starter IN Kept /\ s # NoNode => s \in Nodes /\ a \in path[s]

(* Node a may be on a branch of session k.                                 *)
Fits(k, a) == home[a] = k \/ (k.kind = "thread" /\ home[a] = Group /\ UpTo(k.of, a))
BranchFits(k, p) == \A a \in path[p] : Fits(k, a)

(* A thread's starter stays the node of its message.                       *)
StartersKept ==
  /\ Len(posts) <= MaxPosts /\ Nodes \subseteq alive
  /\ \A m \in DOMAIN threads : threads[m].starter # NoNode =>
       m \in DOMAIN msgNodes /\ msgNodes[m] = threads[m].starter

ContextInv ==
  /\ \A n \in Nodes : BranchFits(home[n], n)
  /\ \A k, p : Holds(k, p) => BranchFits(k, p)
  /\ \A m \in DOMAIN msgNodes : home[msgNodes[m]] = posts[m].key
  /\ Kept => StartersKept

LEMMA StepAlive == Shape /\ [Next]_vars /\ ~Restart => alive' = alive \union NewNodes
<1> SUFFICES ASSUME Shape, [Next]_vars, ~Restart PROVE alive' = alive \union NewNodes
  OBVIOUS
<1> DEFINE Goal == alive' = alive \union NewNodes
<1>1. path \in Seq(SUBSET Nat) /\ Len(path) \in Nat
  BY DEF Shape, TreeOk
<1>2. ASSUME NEW p, NEW k, Grow(p, k) PROVE Goal
  <2>1. alive' = alive \union {Fresh} /\ Len(path') = Fresh
    BY <1>1, <1>2 DEF Grow, Fresh
  <2> QED
    BY <1>1, <2>1 DEF NewNodes, Fresh
<1>3. ASSUME NEW p, NEW k, GrowTwice(p, k) PROVE Goal
  <2>1. alive' = alive \union {Fresh, Fresh + 1} /\ Len(path') = Fresh + 1
    BY <1>1, <1>3 DEF GrowTwice, Fresh
  <2> QED
    BY <1>1, <2>1 DEF NewNodes, Fresh
<1>4. ASSUME UNCHANGED tree PROVE Goal
  BY <1>1, <1>4 DEF tree, NewNodes, Fresh
<1>5. ASSUME NEW k, Push(k) PROVE Goal
  BY <1>2, <1>3, <1>5 DEF Push
<1> HIDE DEF Goal
<1>6. ASSUME NEW m, Turn(m) PROVE Goal
  BY <1>2, <1>4, <1>5, <1>6 DEF Turn, TakePassive, TakeThread, Start, Drain, TimeOut
<1>7. ASSUME NEW u, Run(u) PROVE Goal
  BY <1>2, <1>4, <1>7 DEF Run, Answer, Finish, Fail
<1>8. ASSUME NEW m, OpenThread(m) \/ PinThread(m) PROVE Goal
  BY <1>2, <1>4, <1>8 DEF OpenThread, PinThread
<1>9. ASSUME NEW k, Reset(k) \/ Command(k) PROVE Goal
  BY <1>2, <1>3, <1>9 DEF Reset, Command, Introspect
<1>10. ASSUME NEW k, NEW trigger, Say(k, trigger) PROVE Goal
  BY <1>4, <1>10 DEF Say
<1>11. ASSUME UNCHANGED vars PROVE Goal
  BY <1>4, <1>11 DEF vars
<1> QED
  BY <1>6, <1>7, <1>8, <1>9, <1>10, <1>11 DEF Next, Goal

(* Nothing is forgotten while there is room for every message.             *)
LEMMA StepEntriesKept ==
  ASSUME Shape, [Next]_vars, Kept, StartersKept
  PROVE  DOMAIN msgNodes \subseteq DOMAIN msgNodes'
<1> DEFINE Goal == DOMAIN msgNodes \subseteq DOMAIN msgNodes'
<1>1. ASSUME NEW m \in DOMAIN posts, NEW n, Remember(m, n) PROVE Goal
  <2>1. PICK all : all = With(msgNodes, m, n)
    OBVIOUS
  <2>2. DOMAIN all = DOMAIN msgNodes \union {m}
    BY <2>1 DEF With
  <2>3. DOMAIN all \subseteq 1..Len(posts) /\ Len(posts) \in Nat
    BY <2>2 DEF Shape, PostsOk, MsgNodesOk
  <2>4. IsFiniteSet(1..Len(posts)) /\ Cardinality(1..Len(posts)) = Len(posts)
    <3>1. ASSUME NEW len \in Nat PROVE IsFiniteSet(1..len) /\ Cardinality(1..len) = len
      <4>1. 1 \in Int /\ len \in Int
        OBVIOUS
      <4>2. IsFiniteSet(1..len) /\ Cardinality(1..len) = IF 1 > len THEN 0 ELSE len - 1 + 1
        BY <4>1, FS_Interval, Zenon
      <4> QED
        BY <4>2
    <3> QED
      BY <2>3, <3>1
  <2>5. IsFiniteSet(DOMAIN all) /\ Cardinality(DOMAIN all) <= Len(posts)
    BY <2>3, <2>4, FS_Subset
  <2>6. Cardinality(DOMAIN all) \in Nat
    BY <2>5, FS_CardinalityType
  <2>7. ~(Cardinality(DOMAIN all) > MaxMsgNodes)
    BY <2>3, <2>5, <2>6, DiscordAssumption DEF StartersKept, Kept
  <2>8. msgNodes' = [j \in DOMAIN all \ {} |-> all[j]]
    BY <1>1, <2>1, <2>7 DEF Remember
  <2> QED
    BY <2>2, <2>8
<1>2. ASSUME UNCHANGED msgNodes PROVE Goal
  BY <1>2
<1>3. ASSUME NEW m \in DOMAIN posts, TakePassive(m) \/ Start(m) PROVE Goal
  BY <1>1, <1>3 DEF TakePassive, Start
<1>4. ASSUME Restart PROVE Goal
  <2>1. alive' = alive
    BY <1>4 DEF Restart, Kept
  <2>2. \A m \in DOMAIN msgNodes : msgNodes[m] \in alive
    BY DEF Shape, MsgNodesOk, StartersKept
  <2> QED
    BY <1>4, <2>1, <2>2 DEF Restart
<1>5. ASSUME NEW k, NEW trigger, Say(k, trigger) PROVE Goal
  BY <1>2, <1>5 DEF Say
<1>6. ASSUME NEW m, TakeThread(m) \/ Drain(m) \/ TimeOut(m) \/ OpenThread(m) \/ PinThread(m) PROVE Goal
  BY <1>2, <1>6 DEF TakeThread, Drain, TimeOut, OpenThread, PinThread
<1>7. ASSUME NEW u, Run(u) PROVE Goal
  BY <1>2, <1>7 DEF Run, Answer, Finish, Fail
<1>8. ASSUME NEW k, Reset(k) \/ Command(k) PROVE Goal
  BY <1>2, <1>8 DEF Reset, Command
<1>9. ASSUME UNCHANGED vars PROVE Goal
  BY <1>2, <1>9 DEF vars
<1> HIDE DEF Goal
<1> QED
  BY <1>3, <1>4, <1>5, <1>6, <1>7, <1>8, <1>9 DEF Next, Turn, Goal

LEMMA StepStarters ==
  ASSUME Shape, [Next]_vars, Kept, StartersKept
  PROVE  StartersKept'
<1>1. /\ DOMAIN msgNodes \subseteq DOMAIN msgNodes' /\ MsgNodesMove /\ ThreadsMove /\ MsgNodesOk /\ ThreadsOk
      /\ posts \in Seq(Posts)
  BY StepEntriesKept, StepMsgNodes, StepThreads DEF Shape, PostsOk
<1>2. \A m \in DOMAIN msgNodes : msgNodes'[m] = msgNodes[m]
  BY <1>1 DEF MsgNodesMove, MsgNodesOk, Taken
<1>3. ASSUME NEW m \in DOMAIN threads', threads'[m].starter # NoNode
      PROVE  m \in DOMAIN msgNodes' /\ msgNodes'[m] = threads'[m].starter
  <2>1. CASE m \in DOMAIN threads
    BY <1>1, <1>2, <1>3, <2>1 DEF ThreadsMove, StartersKept
  <2>2. ASSUME m \notin DOMAIN threads, NEW i \in DOMAIN posts, OpenThread(i) PROVE threads'[m].starter = MsgNode(m)
    <3>1. threads' = With(threads, i, [at |-> "fetching", starter |-> MsgNode(i)])
      BY <2>2 DEF OpenThread
    <3> QED
      BY <1>3, <2>2, <3>1 DEF With
  <2>3. CASE m \notin DOMAIN threads
    <3>1. \E i \in DOMAIN posts : OpenThread(i)
      <4>1. UNCHANGED DOMAIN threads \/ \E i \in DOMAIN posts : OpenThread(i)
        <5>1. ASSUME NEW i, PinThread(i) PROVE DOMAIN threads' = DOMAIN threads
          BY <5>1 DEF PinThread
        <5>2. ASSUME Restart PROVE DOMAIN threads' = DOMAIN threads
          BY <5>2 DEF Restart
        <5>3. ASSUME NEW k, NEW trigger, Say(k, trigger) PROVE UNCHANGED threads
          BY <5>3 DEF Say
        <5>4. ASSUME NEW i, Turn(i) PROVE UNCHANGED threads
          BY <5>4 DEF Turn, TakePassive, TakeThread, Start, Drain, TimeOut
        <5>5. ASSUME NEW u, Run(u) PROVE UNCHANGED threads
          BY <5>5 DEF Run, Answer, Finish, Fail
        <5>6. ASSUME NEW k, Reset(k) \/ Command(k) PROVE UNCHANGED threads
          BY <5>6 DEF Reset, Command
        <5>7. ASSUME UNCHANGED vars PROVE UNCHANGED threads
          BY <5>7 DEF vars
        <5> QED
          BY <5>1, <5>2, <5>3, <5>4, <5>5, <5>6, <5>7 DEF Next
      <4> QED
        BY <1>3, <2>3, <4>1
    <3>2. threads'[m].starter = MsgNode(m)
      BY <2>2, <2>3, <3>1
    <3>3. m \in DOMAIN msgNodes /\ msgNodes[m] = threads'[m].starter
      BY <1>3, <3>2 DEF MsgNode, Get
    <3> QED
      BY <1>1, <1>2, <3>3
  <2> QED
    BY <2>1, <2>3
<1>4. 1..Len(path') \subseteq alive'
  <2>1. CASE Restart
    BY <2>1 DEF Restart, Kept, StartersKept, Nodes
  <2>2. CASE ~Restart
    <3>1. alive \union NewNodes \subseteq alive'
      BY <2>2, StepAlive
    <3>2. Len(path) \in Nat /\ Len(path') \in Nat
      BY StepTree DEF Shape, TreeOk
    <3> QED
      BY <3>1, <3>2 DEF StartersKept, Nodes, NewNodes, Fresh
  <2> QED
    BY <2>1, <2>2
<1>5. Len(posts') <= MaxPosts
  <2> DEFINE Goal == Len(posts') <= MaxPosts
  <2>1. ASSUME Len(posts') = Len(posts) PROVE Goal
    BY <2>1 DEF StartersKept
  <2>2. ASSUME NEW k, NEW trigger, Say(k, trigger) PROVE Goal
    <3>1. Len(posts) \in Nat /\ MaxPosts \in Nat /\ Len(posts) < MaxPosts
      BY <1>1, <2>2, DiscordAssumption DEF Say
    <3>2. \E v : posts' = Append(posts, v)
      BY <2>2 DEF Say
    <3>3. Len(posts') = Len(posts) + 1
      BY <1>1, <3>2
    <3> QED
      BY <3>1, <3>3
  <2>3. ASSUME NEW m \in DOMAIN posts, Turn(m) PROVE Goal
    BY <1>1, <2>1, <2>3 DEF Turn, TakePassive, TakeThread, Start, Drain, TimeOut
  <2>4. ASSUME NEW u, Run(u) PROVE Goal
    <3>1. PICK told : Tell(u, told)
      BY <2>4 DEF Run, Answer, Finish, Fail
    <3>2. DOMAIN posts' = DOMAIN posts
      BY <3>1 DEF Tell
    <3> QED
      BY <1>1, <2>1, <3>2, StepPosts DEF PostsOk
  <2>5. ASSUME NEW m, OpenThread(m) \/ PinThread(m) PROVE Goal
    BY <2>1, <2>5 DEF OpenThread, PinThread
  <2>6. ASSUME NEW k, Reset(k) \/ Command(k) PROVE Goal
    BY <2>1, <2>6 DEF Reset, Command
  <2>7. ASSUME Restart PROVE Goal
    <3>1. DOMAIN posts' = DOMAIN posts /\ posts' \in Seq(Posts)
      BY <2>7, StepPosts DEF Restart, PostsOk
    <3> QED
      BY <1>1, <2>1, <3>1
  <2>8. ASSUME UNCHANGED vars PROVE Goal
    BY <2>1, <2>8 DEF vars
  <2> QED
    BY <2>2, <2>3, <2>4, <2>5, <2>6, <2>7, <2>8 DEF Next
<1> QED
  BY <1>3, <1>4, <1>5 DEF StartersKept, Nodes

(* What is on a branch of a session stays there.                           *)
LEMMA FitsStay ==
  ASSUME Shape, [Next]_vars, NEW k, Opened(k), NEW p \in Nodes, BranchFits(k, p)
  PROVE  BranchFits(k, p)'
<1>1. TreeOk /\ TreeOk' /\ NodesStay /\ ThreadsMove
  BY StepTree, GrownStays, StepThreads DEF Shape
<1>2. \A n \in Nodes : path'[n] = path[n] /\ home'[n] = home[n]
  BY StepTree DEF Grown, Extended
<1>3. path'[p] = path[p] /\ path[p] \subseteq Nodes
  BY <1>1, <1>2 DEF TreeOk, Nodes
<1>4. ASSUME NEW a \in path[p] PROVE Fits(k, a)'
  <2>1. Fits(k, a) /\ a \in Nodes /\ home'[a] = home[a]
    BY <1>2, <1>3 DEF BranchFits
  <2>2. ASSUME k.kind = "thread", UpTo(k.of, a) PROVE UpTo(k.of, a)'
    <3>1. threads'[k.of].starter = threads[k.of].starter
      BY <1>1, <2>2 DEF Opened, ThreadsMove
    <3> QED
      BY <1>1, <1>2, <2>2, <3>1 DEF UpTo, NodesStay, Nodes
  <2> QED
    BY <2>1, <2>2 DEF Fits
<1> QED
  BY <1>3, <1>4 DEF BranchFits

LEMMA Stands == ASSUME Shape, NEW k, NEW p, Holds(k, p) PROVE k \in Keys /\ Opened(k) /\ p \in Nodes
<1>1. k \in DOMAIN store => k \in Keys /\ Opened(k)
  BY DEF Shape, MirrorsOk
<1>2. k \in DOMAIN settled => k \in DOMAIN store
  BY DEF Shape, MirrorsOk
<1>3. \A u \in DOMAIN runs : runs[u].key \in DOMAIN store
  BY DEF Shape, MirrorsOk
<1>4. ASSUME NEW m \in DOMAIN posts PROVE posts[m].key \in Keys /\ Opened(posts[m].key)
  <2>1. posts[m] \in Posts /\ PostOk(posts[m])
    BY DEF Shape, PostsOk
  <2> QED
    BY <2>1 DEF PostOk, Posts
<1>5. p \in Nodes
  BY DEF Shape, HoldsOk
<1> QED
  BY <1>1, <1>2, <1>3, <1>4, <1>5 DEF Holds, Pending

LEMMA StepContext == Shape /\ ContextInv /\ [Next]_vars => ContextInv'
<1> SUFFICES ASSUME Shape, ContextInv, [Next]_vars PROVE ContextInv'
  OBVIOUS
<1>1. TreeOk /\ TreeOk' /\ NodesStay /\ MsgNodesMove /\ MsgNodesOk /\ PostsMove /\ ThreadsOk
  BY StepTree, GrownStays, StepMsgNodes, StepPosts DEF Shape
<1>2. PICK k0 \in Keys : \E p \in 0..Len(path) : (p = 0 \/ Holds(k0, p)) /\ Extended(p, k0)
  BY StepTree DEF Grown
<1>3. PICK p0 \in 0..Len(path) : (p0 = 0 \/ Holds(k0, p0)) /\ Extended(p0, k0)
  BY <1>2
<1>4. ASSUME NEW n \in Nodes PROVE BranchFits(home[n], n)'
  <2>1. PICK k : k = home[n] /\ Opened(k) /\ BranchFits(k, n)
    BY <1>1 DEF TreeOk, ContextInv
  <2>2. home'[n] = k
    BY <1>3, <2>1 DEF Extended
  <2>3. BranchFits(k, n)'
    BY <2>1, FitsStay
  <2> QED
    BY <2>2, <2>3 DEF BranchFits
<1>5. ASSUME NEW n \in NewNodes PROVE home'[n] = k0 /\ BranchFits(k0, n)'
  <2>1. home'[n] = k0 /\ path'[n] \subseteq Path(p0) \union NewNodes
    BY <1>3 DEF Extended
  <2>2. ASSUME NEW a \in path'[n], a \in NewNodes PROVE Fits(k0, a)'
    BY <1>3, <2>2 DEF Extended, Fits
  <2>3. ASSUME NEW a \in path'[n], a \notin NewNodes PROVE Fits(k0, a)'
    <3>1. p0 # 0 /\ a \in path[p0]
      BY <2>1, <2>3 DEF Path
    <3>2. Holds(k0, p0) /\ Opened(k0) /\ p0 \in Nodes /\ BranchFits(k0, p0)
      BY <1>3, <3>1, Stands DEF ContextInv
    <3>3. BranchFits(k0, p0)' /\ path'[p0] = path[p0]
      BY <1>3, <3>2, FitsStay DEF Extended
    <3> QED
      BY <3>1, <3>3 DEF BranchFits
  <2> QED
    BY <2>1, <2>2, <2>3 DEF BranchFits
<1>6. ASSUME NEW n \in 1..Len(path') PROVE BranchFits(home[n], n)'
  <2>1. n \in Nodes \/ n \in NewNodes
    BY <1>1 DEF Nodes, NewNodes, Fresh, TreeOk
  <2>2. CASE n \in NewNodes
    BY <1>5, <2>2 DEF BranchFits
  <2> QED
    BY <1>4, <2>1, <2>2
<1>7. ASSUME NEW k, NEW p, Holds(k, p)' PROVE BranchFits(k, p)'
  <2>1. CASE Holds(k, p)
    BY <2>1, Stands, FitsStay DEF ContextInv
  <2>2. CASE p \in NewNodes /\ home'[p] = k
    BY <1>5, <2>2
  <2>3. ASSUME NEW m \in DOMAIN threads, k = Thread(m), p = ForkPoint(m), p # NoNode PROVE BranchFits(k, p)'
    <3>1. m \in DOMAIN posts /\ posts[m].key = Group /\ Opened(k)
      BY <1>1, <2>3 DEF ThreadsOk, Opened, Thread
    <3>2. CASE MsgNode(m) # NoNode
      <4>1. m \in DOMAIN msgNodes /\ p = msgNodes[m]
        BY <2>3, <3>2 DEF ForkPoint, MsgNode, Get
      <4>2. p \in Nodes /\ home[p] = Group /\ BranchFits(Group, p)
        BY <1>1, <3>1, <4>1 DEF ContextInv, MsgNodesOk
      <4>3. ASSUME NEW a \in path[p] PROVE Fits(k, a)
        <5>1. home[a] = Group
          BY <4>2 DEF BranchFits, Fits, Group
        <5>2. UpTo(m, a)
          BY <2>3, <4>1, <4>2 DEF UpTo, ContextInv, StartersKept
        <5> QED
          BY <2>3, <5>1, <5>2 DEF Fits, Thread
      <4> QED
        BY <3>1, <4>2, <4>3, FitsStay DEF BranchFits
    <3>3. CASE MsgNode(m) = NoNode
      <4>1. p = store[Group] /\ Holds(Group, p)
        BY <2>3, <3>3 DEF ForkPoint, Get, Holds
      <4>2. p \in Nodes /\ BranchFits(Group, p)
        BY <4>1, Stands DEF ContextInv
      <4>3. Kept => threads[m].starter = NoNode
        <5>1. m \in DOMAIN msgNodes => msgNodes[m] = NoNode
          BY <3>3 DEF MsgNode, Get
        <5>2. NoNode \notin Nodes
          BY <1>1, DiscordAssumption DEF Nodes, TreeOk
        <5> QED
          BY <1>1, <2>3, <5>1, <5>2 DEF MsgNodesOk, ContextInv, StartersKept
      <4>4. ASSUME NEW a \in path[p] PROVE Fits(k, a)
        <5>1. home[a] = Group
          BY <4>2 DEF BranchFits, Fits, Group
        <5> QED
          BY <2>3, <4>3, <5>1 DEF Fits, Thread, UpTo
      <4> QED
        BY <3>1, <4>2, <4>4, FitsStay DEF BranchFits
    <3> QED
      BY <3>2, <3>3
  <2> QED
    BY <1>7, <2>1, <2>2, <2>3, StepHolds DEF Reached, Forks
<1>8. ASSUME NEW m \in DOMAIN msgNodes' PROVE home'[msgNodes'[m]] = posts'[m].key
  <2>1. CASE m \in DOMAIN msgNodes /\ msgNodes'[m] = msgNodes[m]
    <3>1. m \in DOMAIN posts /\ msgNodes[m] \in Nodes /\ home[msgNodes[m]] = posts[m].key
      BY <1>1, <2>1 DEF MsgNodesOk, ContextInv
    <3> QED
      BY <1>1, <1>3, <2>1, <3>1 DEF Extended, PostsMove
  <2>2. CASE m \in DOMAIN posts /\ home'[msgNodes'[m]] = posts[m].key
    BY <1>1, <2>2 DEF PostsMove
  <2> QED
    BY <1>1, <2>1, <2>2 DEF MsgNodesMove
<1>9. Kept => StartersKept'
  BY StepStarters DEF ContextInv
<1> QED
  BY <1>6, <1>7, <1>8, <1>9 DEF ContextInv, Nodes, Kept

LEMMA InitContext == Init => ContextInv
<1> SUFFICES ASSUME Init PROVE ContextInv
  OBVIOUS
<1>1. \A k, p : ~Holds(k, p)
  BY DEF Init, Holds, Pending
<1> QED
  BY <1>1, DiscordAssumption DEF Init, ContextInv, Nodes, StartersKept

(* A session is made of its own nodes and, for a thread, of its channel's, *)
(* whatever is forgotten or lost (_on_thread_create, add_node).            *)
OwnContext ==
  \A n \in alive : \A a \in path[n] :
    home[a] = home[n] \/ (home[n].kind = "thread" /\ home[a] = Group)

THEOREM SessionsShareOnlyTheirChannel == Spec => []OwnContext
<1>1. Shape /\ ContextInv => OwnContext
  BY DEF Shape, TreeOk, ContextInv, BranchFits, Fits, OwnContext
<1> QED
  BY <1>1, ShapeHolds, InitContext, StepContext, PTL DEF Spec

(* A thread has of its channel what led to the message it was opened on,   *)
(* no more, as long as the cursor store remembers every message and the    *)
(* database is not replaced: an entry that was dropped before the thread   *)
(* forks sends it to the channel's tail instead (ForkPoint).               *)
THEOREM ContextStaysTheSessions == Kept => (Spec => []ContextIsTheSessions)
<1> SUFFICES ASSUME Kept PROVE Spec => []ContextIsTheSessions
  OBVIOUS
<1>1. Shape /\ ContextInv => ContextIsTheSessions
  BY DEF Shape, TreeOk, ContextInv, BranchFits, Fits, UpTo, ContextIsTheSessions
<1> QED
  BY <1>1, ShapeHolds, InitContext, StepContext, PTL DEF Spec

-----------------------------------------------------------------------------
(* What /reset puts behind.                                                *)

Cleared(k, p) == \A a \in path[p] : home[a] = k => a > cut[k]
StandsClear(k) == \A p : Holds(k, p) => Cleared(k, p)
WrittenClear(k) == \A n \in Nodes : home[n] = k /\ n > cut[k] => Cleared(k, n)

ResetInv == \A k \in DOMAIN cut : cut[k] \in 0..Len(path) /\ StandsClear(k) /\ WrittenClear(k)

LEMMA StepCut ==
  ASSUME [Next]_vars
  PROVE  \/ UNCHANGED cut
         \/ \E k \in Sessions : Reset(k) /\ Quiet(k) /\ cut' = With(cut, k, Len(path))
<1> DEFINE Goal == \/ UNCHANGED cut
                   \/ \E k \in Sessions : Reset(k) /\ Quiet(k) /\ cut' = With(cut, k, Len(path))
<1>1. ASSUME NEW m, Turn(m) \/ OpenThread(m) \/ PinThread(m) PROVE UNCHANGED cut
  BY <1>1 DEF Turn, TakePassive, TakeThread, Start, Drain, TimeOut, OpenThread, PinThread, history
<1>2. ASSUME NEW u, Run(u) PROVE UNCHANGED cut
  BY <1>2 DEF Run, Answer, Finish, Fail, history
<1>3. ASSUME NEW k, NEW trigger, Say(k, trigger) PROVE UNCHANGED cut
  BY <1>3 DEF Say, history
<1>4. ASSUME NEW k \in Sessions, Reset(k) \/ Command(k) PROVE Goal
  BY <1>4 DEF Reset, Command, history
<1>5. ASSUME Restart \/ UNCHANGED vars PROVE UNCHANGED cut
  BY <1>5 DEF Restart, vars, history
<1> QED
  BY <1>1, <1>2, <1>3, <1>4, <1>5 DEF Next

(* As long as no other /reset moves the cut, what is behind it stays there.*)
LEMMA StaysClear ==
  ASSUME Shape, ContextInv, ResetInv, [Next]_vars, NEW k \in DOMAIN cut, k \in DOMAIN cut', cut'[k] = cut[k]
  PROVE  cut'[k] \in 0..Len(path') /\ StandsClear(k)' /\ WrittenClear(k)'
<1>1. PICK k0 \in Keys : \E p \in 0..Len(path) : (p = 0 \/ Holds(k0, p)) /\ Extended(p, k0)
  BY StepTree DEF Grown
<1>2. PICK p0 \in 0..Len(path) : (p0 = 0 \/ Holds(k0, p0)) /\ Extended(p0, k0)
  BY <1>1
<1>3. Len(path) \in Nat /\ Len(path') \in Nat /\ Len(path) <= Len(path') /\ cut[k] \in 0..Len(path)
  BY <1>2, StepTree DEF Shape, TreeOk, Extended, ResetInv
<1>4. ASSUME NEW p \in Nodes, Cleared(k, p) PROVE Cleared(k, p)'
  <2>1. path'[p] = path[p] /\ path[p] \subseteq Nodes
    BY <1>2, <1>3 DEF Extended, Shape, TreeOk, Nodes
  <2>2. \A a \in path[p] : home'[a] = home[a]
    BY <1>2, <2>1 DEF Extended
  <2> QED
    BY <1>4, <2>1, <2>2 DEF Cleared
<1>5. ASSUME NEW n \in NewNodes, home'[n] = k PROVE Cleared(k, n)'
  <2>1. k0 = k /\ path'[n] \subseteq Path(p0) \union NewNodes
    BY <1>2, <1>5 DEF Extended
  <2>2. ASSUME NEW a \in path'[n], a \in NewNodes PROVE a > cut'[k]
    BY <1>3, <2>2 DEF NewNodes, Fresh
  <2>3. ASSUME NEW a \in path'[n], a \notin NewNodes, home'[a] = k PROVE a > cut'[k]
    <3>1. p0 # 0 /\ a \in path[p0]
      BY <2>1, <2>3 DEF Path
    <3>2. p0 \in Nodes /\ Cleared(k, p0)
      BY <1>2, <2>1, <3>1, Stands DEF ResetInv, StandsClear
    <3>3. Cleared(k, p0)' /\ path'[p0] = path[p0]
      BY <1>2, <1>4, <3>2 DEF Extended
    <3> QED
      BY <2>3, <3>1, <3>3 DEF Cleared
  <2> QED
    BY <2>2, <2>3 DEF Cleared
<1>6. ASSUME NEW n \in 1..Len(path'), home'[n] = k, n > cut'[k] PROVE Cleared(k, n)'
  <2>1. CASE n \in NewNodes
    BY <1>5, <1>6, <2>1
  <2>2. CASE n \in Nodes
    <3>1. home[n] = k /\ n > cut[k]
      BY <1>2, <1>6, <2>2 DEF Extended
    <3> QED
      BY <1>4, <2>2, <3>1 DEF ResetInv, WrittenClear
  <2> QED
    BY <1>3, <2>1, <2>2 DEF Nodes, NewNodes, Fresh
<1>7. ASSUME NEW p, Holds(k, p)' PROVE Cleared(k, p)'
  <2>1. CASE Holds(k, p)
    BY <1>4, <2>1, Stands DEF ResetInv, StandsClear
  <2>2. CASE p \in NewNodes /\ home'[p] = k
    BY <1>5, <2>2
  <2>3. ASSUME NEW m \in DOMAIN threads, k = Thread(m), p = ForkPoint(m), p # NoNode PROVE Cleared(k, p)'
    <3>1. p \in Nodes /\ BranchFits(Group, p)
      <4>1. CASE MsgNode(m) # NoNode
        <5>1. m \in DOMAIN msgNodes /\ p = msgNodes[m] /\ posts[m].key = Group
          BY <2>3, <4>1 DEF ForkPoint, MsgNode, Get, Shape, ThreadsOk
        <5>2. p \in Nodes /\ home[p] = Group
          BY <5>1 DEF Shape, MsgNodesOk, ContextInv
        <5> QED
          BY <5>2 DEF ContextInv
      <4>2. CASE MsgNode(m) = NoNode
        <5>1. Holds(Group, p)
          BY <2>3, <4>2 DEF ForkPoint, Get, Holds
        <5> QED
          BY <5>1, Stands DEF ContextInv
      <4> QED
        BY <4>1, <4>2
    <3>2. \A a \in path[p] : home[a] # k
      BY <2>3, <3>1 DEF BranchFits, Fits, Group, Thread
    <3>3. Cleared(k, p)
      BY <3>2 DEF Cleared
    <3> QED
      BY <1>4, <3>1, <3>3
  <2> QED
    BY <1>7, <2>1, <2>2, <2>3, StepHolds DEF Reached, Forks
<1> QED
  BY <1>3, <1>6, <1>7 DEF StandsClear, WrittenClear, Nodes

(* The replies still being read at a /reset are of an earlier epoch.       *)
LEMMA ResetSilences ==
  ASSUME Shape, NEW k, Reset(k), NEW m, NEW e, Pending(m, e)'
  PROVE  posts'[m].key # k
<1> SUFFICES ASSUME posts'[m].key = k PROVE FALSE
  OBVIOUS
<1>1. UNCHANGED posts /\ m \in DOMAIN posts /\ posts[m].queue # <<>>
  BY DEF Reset, Pending
<1>2. posts[m] \in Posts /\ PostOk(posts[m]) /\ EpochsOk
  BY <1>1 DEF Shape, PostsOk
<1>3. posts[m].epoch <= Epoch(k) /\ posts[m].epoch \in Nat
  BY <1>1, <1>2 DEF PostOk, Posts
<1>4. k \in DOMAIN epoch' /\ epoch'[k] = Epoch(k) + 1 /\ Epoch(k) \in Nat
  BY <1>2 DEF Reset, Epoch, EpochsOk, With
<1>5. posts[m].epoch = epoch'[k]
  BY <1>1, <1>4 DEF Pending, Current
<1> QED
  BY <1>3, <1>4, <1>5

(* A /reset with no run about: the session stands at its new node alone.   *)
LEMMA ResetClears ==
  ASSUME Shape, [Next]_vars, NEW k \in Sessions, Reset(k), Quiet(k), cut' = With(cut, k, Len(path))
  PROVE  k \in DOMAIN cut' /\ cut'[k] \in 0..Len(path') /\ StandsClear(k)' /\ WrittenClear(k)'
<1>1. TreeOk /\ ThreadsStay /\ k \in Keys /\ Opened(k) /\ PostsOk /\ EpochsOk /\ Len(path) \in Nat
  BY StepThreads, Keyed DEF Shape, TreeOk, ThreadsMove
<1>2. Grow(0, k) /\ 0 \in 0..Len(path)
  BY <1>1 DEF Reset
<1>3. Extended(0, k) /\ Len(path') = Fresh /\ Fresh = Len(path) + 1
  BY <1>1, <1>2, Growing DEF Fresh
<1>4. k \in DOMAIN cut' /\ cut'[k] = Len(path)
  BY DEF With
<1>5. NewNodes = {Fresh} /\ path'[Fresh] \subseteq {Fresh}
  <2>1. NewNodes = {Fresh}
    BY <1>1, <1>3 DEF NewNodes
  <2> QED
    BY <1>3, <2>1 DEF Extended, Path
<1>6. ASSUME NEW p, p = Fresh PROVE Cleared(k, p)'
  BY <1>1, <1>3, <1>4, <1>5, <1>6 DEF Cleared
<1>7. ASSUME NEW n \in 1..Len(path'), n > cut'[k] PROVE n = Fresh
  BY <1>1, <1>3, <1>4, <1>7
<1>8. ASSUME NEW m, NEW e, Pending(m, e)', posts'[m].key = k PROVE FALSE
  BY <1>8, ResetSilences
<1>9. ASSUME NEW p, Holds(k, p)' PROVE p = Fresh
  <2>1. store'[k] = Fresh /\ settled'[k] = Fresh /\ UNCHANGED runs
    BY DEF Reset, With
  <2> QED
    BY <1>8, <1>9, <2>1 DEF Holds, Quiet
<1>10. StandsClear(k)'
  BY <1>6, <1>9 DEF StandsClear
<1>11. WrittenClear(k)'
  BY <1>6, <1>7 DEF WrittenClear, Nodes
<1>12. cut'[k] \in 0..Len(path')
  BY <1>1, <1>3, <1>4
<1> QED
  BY <1>4, <1>10, <1>11, <1>12

LEMMA StepReset == Shape /\ ContextInv /\ ResetInv /\ [Next]_vars => ResetInv'
<1> SUFFICES ASSUME Shape, ContextInv, ResetInv, [Next]_vars, NEW k \in DOMAIN cut'
             PROVE  (cut[k] \in 0..Len(path) /\ StandsClear(k) /\ WrittenClear(k))'
  BY DEF ResetInv
<1>1. CASE k \in DOMAIN cut /\ cut'[k] = cut[k]
  BY <1>1, StaysClear
<1>2. CASE ~(k \in DOMAIN cut /\ cut'[k] = cut[k])
  <2>1. PICK j \in Sessions : Reset(j) /\ Quiet(j) /\ cut' = With(cut, j, Len(path))
    BY <1>2, StepCut
  <2>2. j = k
    BY <1>2, <2>1 DEF With
  <2> QED
    BY <2>1, <2>2, ResetClears
<1> QED
  BY <1>1, <1>2

(* After a /reset no late reader of a reply queue, thread, command or      *)
(* restart brings back what the session held before (command_reset,        *)
(* _reset_epoch).                                                          *)
THEOREM ResetsForget == Spec => []ResetForgets
<1>1. Init => ResetInv
  BY DEF Init, ResetInv
<1>2. Shape /\ ResetInv => ResetForgets
  BY DEF Shape, TreeOk, ResetInv, WrittenClear, Cleared, ResetForgets
<1> QED
  BY <1>1, <1>2, ShapeHolds, InitContext, StepContext, StepReset, PTL DEF Spec

-----------------------------------------------------------------------------
(* What was shown.                                                         *)
(*                                                                         *)
(* A run that no other run of its session overlapped leaves the session    *)
(* settled at its reply, and what the session continues from then on hangs *)
(* below it: KeptOk.  A turn that had read to the final event before       *)
(* anything else of the session came in has the reply on the branch of the *)
(* stored cursor, and so has every final event that may still move it:     *)
(* StoredOk, which is what a restart leaves.  Both need to know which run, *)
(* turn and reply belong together, and who has seen whom.                  *)

Reading(m) == m \in DOMAIN posts /\ posts[m].at = "draining"

RunLinked(u) ==
  /\ home[u] = runs[u].key /\ runs[u].key \in DOMAIN settled
  /\ runs[u].pc = "running" <=> u \notin DOMAIN reply
  /\ u \in DOMAIN reply => runs[u].head = reply[u]
  /\ posts[runs[u].post].at \in Taken
  /\ Reading(runs[u].post) => posts[runs[u].post].tail = u
RunsLinked == \A u \in DOMAIN runs : RunLinked(u)

TurnLinked(m) ==
  /\ posts[m].tail \in Nodes /\ home[posts[m].tail] = posts[m].key /\ posts[m].key \in DOMAIN settled
  /\ posts[m].tail \in DOMAIN runs => runs[posts[m].tail].post = m
  /\ \A n : Reading(n) /\ posts[n].tail = posts[m].tail => n = m
TurnsLinked == \A m : Reading(m) => TurnLinked(m)

(* The queue of run u's turn: the final event comes first, once the reply  *)
(* is written, and done after it.                                          *)
QueueOk(u, q) ==
  /\ u \in DOMAIN runs /\ u \notin DOMAIN reply => q = <<>>
  /\ \A i \in DOMAIN q :
       /\ q[i].type = "final" => i = 1 /\ u \in DOMAIN reply /\ q[i].tail = reply[u]
       /\ q[i].type = "done" => u \in DOMAIN reply
QueuesOk == \A m : Reading(m) => QueueOk(posts[m].tail, posts[m].queue)

HistoryOk ==
  /\ DOMAIN reply \subseteq Nodes /\ \A u \in DOMAIN reply : reply[u] \in Nodes
  /\ shown \subseteq Nodes /\ crowded \subseteq crossed /\ crossed \subseteq Nodes

Links == RunsLinked /\ TurnsLinked /\ QueuesOk /\ HistoryOk

(* Two runs of a session know of each other, and so do two that are still  *)
(* at work or being read.                                                  *)
ReadingsOk ==
  /\ \A u, v \in DOMAIN runs : runs[u].key = runs[v].key /\ u # v => u \in crowded
  /\ \A k : \A u, v \in Busy(k) : u # v => u \in crossed

-----------------------------------------------------------------------------
(* What a step does to turns, runs and replies.                            *)

SameTurn(i) == posts'[i].at = posts[i].at /\ posts'[i].tail = posts[i].tail
              /\ posts'[i].key = posts[i].key /\ posts'[i].epoch = posts[i].epoch

(* No turn is begun or has its queue touched, no run answers or ends.      *)
Aside ==
  /\ UNCHANGED <<runs, reply>>
  /\ \A i : Reading(i)' => Reading(i) /\ posts'[i] = posts[i]

(* A final event is read.                                                  *)
Pops(m) ==
  /\ Reading(m) /\ posts[m].queue # <<>> /\ Head(posts[m].queue).type = "final"
  /\ store' = Mirrored(m, Head(posts[m].queue))
  /\ DOMAIN posts' = DOMAIN posts /\ \A i \in DOMAIN posts : SameTurn(i)
  /\ \A i \in DOMAIN posts : i # m => posts'[i] = posts[i]
  /\ posts'[m].queue = Tail(posts[m].queue) /\ posts[m].queue \in Seq(Signals)
  /\ UNCHANGED <<tree, memory, reply, shown, readings>>

LEMMA StepSorts ==
  ASSUME Shape, [Next]_vars
  PROVE  \/ Restart \/ Aside
         \/ \E m \in DOMAIN posts : Start(m) \/ Pops(m)
         \/ \E u \in DOMAIN runs : Run(u)
<1>0. posts \in Seq(Posts) /\ \A i \in DOMAIN posts : posts[i] \in Posts
  BY DEF Shape, PostsOk
<1> DEFINE Goal == \/ Restart \/ Aside
                   \/ \E m \in DOMAIN posts : Start(m) \/ Pops(m)
                   \/ \E u \in DOMAIN runs : Run(u)
<1>1. ASSUME UNCHANGED <<runs, reply, posts>> PROVE Aside
  BY <1>1 DEF Aside, Reading
<1>2. ASSUME NEW m \in DOMAIN posts, posts' = [posts EXCEPT ![m] = Gone(@)], UNCHANGED <<runs, reply>>
      PROVE  Aside
  BY <1>2 DEF Aside, Reading, Gone
<1>3. ASSUME NEW k, NEW trigger, Say(k, trigger) PROVE Aside
  <2> DEFINE v == [key |-> k, trigger |-> trigger, at |-> "sent", epoch |-> 0, tail |-> 0, queue |-> <<>>]
  <2>1. posts' = Append(posts, v) /\ v.at = "sent" /\ UNCHANGED <<runs, reply>>
    BY <1>3 DEF Say, memory, history
  <2> HIDE DEF v
  <2>2. \A i \in DOMAIN posts' : (i \in DOMAIN posts /\ posts'[i] = posts[i]) \/ posts'[i] = v
    BY <1>0, <2>1
  <2> QED
    BY <2>1, <2>2 DEF Aside, Reading
<1>4. ASSUME NEW m \in DOMAIN posts, TakePassive(m) \/ TimeOut(m) PROVE Aside
  BY <1>2, <1>4 DEF TakePassive, TimeOut, memory
<1>5. ASSUME NEW m \in DOMAIN posts, TakeThread(m) PROVE Aside
  <2>1. posts' = [posts EXCEPT ![m].at = "dispatched"] /\ UNCHANGED <<runs, reply>>
    BY <1>5 DEF TakeThread, memory, history
  <2>2. posts'[m].at = "dispatched" /\ \A i \in DOMAIN posts : i # m => posts'[i] = posts[i]
    BY <1>0, <2>1 DEF Posts
  <2> QED
    BY <2>1, <2>2 DEF Aside, Reading
<1>6. ASSUME NEW m \in DOMAIN posts, Drain(m) PROVE Aside \/ Pops(m)
  <2>1. UNCHANGED <<runs, reply, tree, memory, readings>>
    BY <1>6 DEF Drain, memory
  <2>2. CASE posts' = [posts EXCEPT ![m] = Gone(@)]
    BY <1>2, <2>1, <2>2
  <2>3. CASE Head(posts[m].queue).type = "final"
    <3>1. posts' = [posts EXCEPT ![m].queue = Tail(@)] /\ store' = Mirrored(m, Head(posts[m].queue)) /\ UNCHANGED shown
      BY <1>6, <2>3 DEF Drain
    <3>2. posts'[m].queue = Tail(posts[m].queue) /\ \A i \in DOMAIN posts : SameTurn(i)
      BY <1>0, <3>1 DEF SameTurn, Posts
    <3> QED
      BY <1>0, <1>6, <2>1, <2>3, <3>1, <3>2 DEF Pops, Drain, Reading, Posts, Queues
  <2> QED
    BY <1>6, <2>2, <2>3 DEF Drain
<1>7. ASSUME NEW m, OpenThread(m) \/ PinThread(m) PROVE Aside
  BY <1>1, <1>7 DEF OpenThread, PinThread, memory, history
<1>8. ASSUME NEW k, Reset(k) \/ Command(k) PROVE Aside
  BY <1>1, <1>8 DEF Reset, Command, memory, history
<1>9. ASSUME UNCHANGED vars PROVE Aside
  BY <1>1, <1>9 DEF vars, memory, history
<1> HIDE DEF Goal
<1>10. Goal
  BY <1>3, <1>4, <1>5, <1>6, <1>7, <1>8, <1>9 DEF Next, Turn, Goal
<1> QED
  BY <1>10 DEF Goal

LEMMA StepSettled == Shape /\ [Next]_vars /\ ~Restart => DOMAIN settled \subseteq DOMAIN settled'
<1> SUFFICES ASSUME Shape, [Next]_vars, ~Restart PROVE DOMAIN settled \subseteq DOMAIN settled'
  OBVIOUS
<1>1. ASSUME NEW k, NEW n, settled' = With(settled, k, n) PROVE DOMAIN settled \subseteq DOMAIN settled'
  BY <1>1 DEF With
<1>2. ASSUME NEW m, TakePassive(m) \/ Start(m) \/ PinThread(m) PROVE DOMAIN settled \subseteq DOMAIN settled'
  BY <1>1, <1>2 DEF TakePassive, Start, PinThread
<1>3. ASSUME NEW u, Run(u) PROVE DOMAIN settled \subseteq DOMAIN settled'
  BY <1>1, <1>3 DEF Run, Answer, Finish, Fail, Leave
<1>4. ASSUME NEW m, TakeThread(m) \/ Drain(m) \/ TimeOut(m) \/ OpenThread(m) PROVE UNCHANGED settled
  BY <1>4 DEF TakeThread, Drain, TimeOut, OpenThread, memory
<1>5. ASSUME NEW k, Reset(k) \/ Command(k) PROVE DOMAIN settled \subseteq DOMAIN settled'
  BY <1>1, <1>5 DEF Reset, Command, memory
<1>6. ASSUME NEW k, NEW trigger, Say(k, trigger) PROVE UNCHANGED settled
  BY <1>6 DEF Say, memory
<1>7. ASSUME UNCHANGED vars PROVE UNCHANGED settled
  BY <1>7 DEF vars, memory
<1> QED
  BY <1>2, <1>3, <1>4, <1>5, <1>6, <1>7 DEF Next, Turn

(* A turn begins with a node of its own.                                   *)
LEMMA Starting ==
  ASSUME Shape, [Next]_vars, NEW m \in DOMAIN posts, Start(m)
  PROVE  \E k \in Keys, n \in NewNodes :
           /\ k = posts[m].key /\ n = Pushed(k) /\ n \notin Nodes /\ home'[n] = k
           /\ n \in path'[n]
           /\ runs' = With(runs, n, [key |-> k, post |-> m, head |-> n, pc |-> "running"])
           /\ DOMAIN posts' = DOMAIN posts /\ \A i \in DOMAIN posts : i # m => posts'[i] = posts[i]
           /\ posts'[m].at = "draining" /\ posts'[m].key = k /\ posts'[m].tail = n /\ posts'[m].queue = <<>>
           /\ posts[m].at \notin Taken /\ k \in DOMAIN settled'
           /\ UNCHANGED <<reply, shown>>
<1>1. posts[m] \in Posts /\ PostOk(posts[m]) /\ ThreadsStay
  BY StepThreads DEF Shape, PostsOk, ThreadsMove
<1>2. PICK k \in Keys : k = posts[m].key /\ Opened(k)
  BY <1>1 DEF Posts, PostOk
<1>3. PICK n : n = Pushed(k)
  OBVIOUS
<1>4. n \in NewNodes /\ home'[n] = k /\ TreeOk' /\ TreeOk
  BY <1>1, <1>2, <1>3, Pushing DEF Start, Shape
<1>5. n \notin Nodes /\ n \in path'[n]
  BY <1>4 DEF NewNodes, Nodes, Fresh, TreeOk
<1>6. posts[m].at \in {"sent", "dispatched"} /\ posts[m].queue = <<>>
  BY <1>1 DEF Start, Dispatched, PostOk
<1>7. /\ posts'[m].at = "draining" /\ posts'[m].key = k /\ posts'[m].tail = n /\ posts'[m].queue = posts[m].queue
      /\ DOMAIN posts' = DOMAIN posts /\ \A i \in DOMAIN posts : i # m => posts'[i] = posts[i]
  BY <1>1, <1>2, <1>3 DEF Start, Posts
<1>8. k \in DOMAIN settled'
  BY <1>2 DEF Start, With
<1> QED
  BY <1>2, <1>3, <1>4, <1>5, <1>6, <1>7, <1>8 DEF Start, Taken

(* What a run tells goes to the end of the queue of its turn.              *)
LEMMA Ending ==
  ASSUME Shape, NEW u \in DOMAIN runs, Run(u)
  PROVE  /\ DOMAIN posts' = DOMAIN posts /\ \A i \in DOMAIN posts : SameTurn(i)
         /\ \A i \in DOMAIN posts : i # runs[u].post => posts'[i] = posts[i]
         /\ \E e : /\ Sends(u, e)
                   /\ posts[runs[u].post].queue \in Seq(Signals)
                   /\ posts'[runs[u].post].queue =
                        IF Reading(runs[u].post) THEN posts[runs[u].post].queue \o <<e>>
                        ELSE posts[runs[u].post].queue
<1>1. PICK n \in DOMAIN posts : n = runs[u].post
  BY DEF Shape, RunsOk, RunOk
<1>2. posts[n] \in Posts
  BY DEF Shape, PostsOk
<1>3. PICK e : Sends(u, e) /\ Tell(u, <<e>>)
  BY DEF Run, Answer, Finish, Fail, Sends
<1>4. DOMAIN posts' = DOMAIN posts /\ \A i \in DOMAIN posts : i # n => posts'[i] = posts[i]
  BY <1>1, <1>3 DEF Tell
<1>5. /\ SameTurn(n)
      /\ posts'[n].queue = IF posts[n].at = "draining" THEN posts[n].queue \o <<e>> ELSE posts[n].queue
  BY <1>1, <1>2, <1>3 DEF Tell, Posts, SameTurn
<1>6. posts[n].queue \in Seq(Signals)
  BY <1>2 DEF Posts, Queues
<1>7. \A i \in DOMAIN posts : SameTurn(i)
  BY <1>4, <1>5 DEF SameTurn
<1> QED
  BY <1>1, <1>3, <1>4, <1>5, <1>6, <1>7 DEF Reading

LEMMA RunMoves ==
  ASSUME Shape, NEW u \in DOMAIN runs, Run(u)
  PROVE  \/ /\ Answer(u) /\ DOMAIN runs' = DOMAIN runs /\ runs[u].pc = "running"
            /\ runs'[u].key = runs[u].key /\ runs'[u].post = runs[u].post
            /\ runs'[u].pc = "post" /\ runs'[u].head = Fresh
            /\ \A v \in DOMAIN runs : v # u => runs'[v] = runs[v]
            /\ DOMAIN reply' = DOMAIN reply \union {u} /\ reply'[u] = Fresh
            /\ \A v \in DOMAIN reply : v # u => reply'[v] = reply[v]
         \/ /\ Finish(u) \/ Fail(u)
            /\ Finish(u) => runs[u].pc = "post"
            /\ Fail(u) => runs[u].pc = "running"
            /\ DOMAIN runs' = DOMAIN runs \ {u} /\ \A v \in DOMAIN runs' : runs'[v] = runs[v]
            /\ UNCHANGED reply
<1>1. CASE Answer(u)
  <2>1. runs[u] \in [key : Keys, post : DOMAIN posts, head : Nat, pc : {"running", "post"}]
    BY DEF Shape, RunsOk, RunOk
  <2>2. runs' = [runs EXCEPT ![u].pc = "post", ![u].head = Fresh] /\ reply' = With(reply, u, Fresh)
    BY <1>1 DEF Answer
  <2>3. /\ DOMAIN runs' = DOMAIN runs /\ \A v \in DOMAIN runs : v # u => runs'[v] = runs[v]
        /\ runs'[u] = [runs[u] EXCEPT !.pc = "post", !.head = Fresh]
    BY <2>2
  <2>4. /\ runs'[u].key = runs[u].key /\ runs'[u].post = runs[u].post
        /\ runs'[u].pc = "post" /\ runs'[u].head = Fresh
    BY <2>1, <2>3
  <2>5. /\ DOMAIN reply' = DOMAIN reply \union {u} /\ reply'[u] = Fresh
        /\ \A v \in DOMAIN reply : v # u => reply'[v] = reply[v]
    BY <2>2 DEF With
  <2> QED
    BY <1>1, <2>3, <2>4, <2>5 DEF Answer
<1>2. CASE Finish(u) \/ Fail(u)
  BY <1>2 DEF Finish, Fail, Leave, history
<1> QED
  BY <1>1, <1>2 DEF Run

LEMMA Framed ==
  ASSUME Shape, [Next]_vars
  PROVE  NodesStay /\ \A n \in Nodes : n \in 1..Len(path') /\ path'[n] = path[n] /\ home'[n] = home[n]
<1>1. NodesStay
  BY StepTree, GrownStays DEF Shape
<1> QED
  BY <1>1, StepTree DEF Grown, Extended, NodesStay

LEMMA RestartEmpties ==
  ASSUME Shape, Restart
  PROVE  DOMAIN runs' = {} /\ \A m : ~Reading(m)'
BY DEF Restart, Reading, Gone

LEMMA StepRunsLinked == Shape /\ Links /\ [Next]_vars => RunsLinked'
<1> SUFFICES ASSUME Shape, Links, [Next]_vars, ~Restart, NEW u \in DOMAIN runs' PROVE RunLinked(u)'
  BY RestartEmpties DEF RunsLinked
<1>0. /\ DOMAIN settled \subseteq DOMAIN settled' /\ PostsMove /\ RunsOk
      /\ \A n \in Nodes : home'[n] = home[n]
      /\ DOMAIN reply \subseteq Nodes
  BY StepSettled, StepPosts, Framed DEF Shape, Links, HistoryOk
<1>1. u \in DOMAIN runs =>
        /\ RunLinked(u) /\ u \in Nodes /\ runs[u].post \in DOMAIN posts
        /\ posts'[runs[u].post].at \in Taken /\ home'[u] = runs[u].key /\ runs[u].key \in DOMAIN settled'
  BY <1>0 DEF Links, RunsLinked, RunLinked, RunsOk, RunOk, PostsMove
<1>2. CASE Aside
  <2>1. u \in DOMAIN runs /\ runs'[u] = runs[u] /\ reply' = reply
    BY <1>2 DEF Aside
  <2>2. Reading(runs[u].post)' => posts'[runs[u].post].tail = u
    BY <1>1, <1>2, <2>1 DEF Aside, RunLinked
  <2> QED
    BY <1>1, <2>1, <2>2 DEF RunLinked
<1>3. ASSUME NEW m \in DOMAIN posts, Pops(m) PROVE RunLinked(u)'
  <2>1. u \in DOMAIN runs /\ runs'[u] = runs[u] /\ reply' = reply
    BY <1>3 DEF Pops, memory
  <2>2. Reading(runs[u].post)' => posts'[runs[u].post].tail = u
    BY <1>1, <1>3, <2>1 DEF Pops, SameTurn, Reading, RunLinked
  <2> QED
    BY <1>1, <2>1, <2>2 DEF RunLinked
<1>4. ASSUME NEW m \in DOMAIN posts, Start(m) PROVE RunLinked(u)'
  <2>1. PICK k \in Keys, n \in NewNodes :
           /\ n \notin Nodes /\ home'[n] = k
           /\ runs' = With(runs, n, [key |-> k, post |-> m, head |-> n, pc |-> "running"])
           /\ DOMAIN posts' = DOMAIN posts /\ \A i \in DOMAIN posts : i # m => posts'[i] = posts[i]
           /\ posts'[m].at = "draining" /\ posts'[m].tail = n
           /\ posts[m].at \notin Taken /\ k \in DOMAIN settled'
           /\ reply' = reply
    BY <1>4, Starting
  <2>2. /\ DOMAIN runs' = DOMAIN runs \union {n} /\ runs'[n] = [key |-> k, post |-> m, head |-> n, pc |-> "running"]
        /\ \A v \in DOMAIN runs : v # n => runs'[v] = runs[v]
    BY <2>1 DEF With
  <2>3. CASE u = n
    BY <1>0, <2>1, <2>2, <2>3 DEF RunLinked, Taken
  <2>4. CASE u # n
    <3>1. u \in DOMAIN runs /\ runs'[u] = runs[u] /\ runs[u].post # m
      BY <1>1, <2>1, <2>2, <2>4 DEF RunLinked
    <3>2. posts'[runs[u].post] = posts[runs[u].post]
      BY <1>1, <2>1, <3>1
    <3> QED
      BY <1>1, <2>1, <3>1, <3>2 DEF RunLinked, Reading
  <2> QED
    BY <2>3, <2>4
<1>5. ASSUME NEW v \in DOMAIN runs, Run(v) PROVE RunLinked(u)'
  <2>1. DOMAIN posts' = DOMAIN posts /\ \A i \in DOMAIN posts : SameTurn(i)
    BY <1>5, Ending
  <2>2. u \in DOMAIN runs => posts'[runs[u].post].at = posts[runs[u].post].at
                             /\ posts'[runs[u].post].tail = posts[runs[u].post].tail
    BY <1>1, <2>1 DEF SameTurn
  <2>3. CASE Answer(v) /\ DOMAIN runs' = DOMAIN runs
             /\ runs'[v].key = runs[v].key /\ runs'[v].post = runs[v].post
             /\ runs'[v].pc = "post" /\ runs'[v].head = Fresh
             /\ (\A i \in DOMAIN runs : i # v => runs'[i] = runs[i])
             /\ DOMAIN reply' = DOMAIN reply \union {v} /\ reply'[v] = Fresh
             /\ (\A i \in DOMAIN reply : i # v => reply'[i] = reply[i])
    <3>1. CASE u = v
      BY <1>1, <2>1, <2>2, <2>3, <3>1 DEF RunLinked, Reading
    <3>2. CASE u # v
      BY <1>1, <2>1, <2>2, <2>3, <3>2 DEF RunLinked, Reading
    <3> QED
      BY <3>1, <3>2
  <2>4. CASE DOMAIN runs' = DOMAIN runs \ {v} /\ (\A i \in DOMAIN runs' : runs'[i] = runs[i]) /\ reply' = reply
    BY <1>1, <2>1, <2>2, <2>4 DEF RunLinked, Reading
  <2> QED
    BY <1>5, <2>3, <2>4, RunMoves
<1> QED
  BY <1>2, <1>3, <1>4, <1>5, StepSorts

LEMMA StepTurnsLinked == Shape /\ Links /\ [Next]_vars => TurnsLinked'
<1> SUFFICES ASSUME Shape, Links, [Next]_vars, ~Restart, NEW m, Reading(m)' PROVE TurnLinked(m)'
  BY RestartEmpties DEF TurnsLinked
<1>0. /\ DOMAIN settled \subseteq DOMAIN settled' /\ RunsOk
      /\ \A n \in Nodes : n \in 1..Len(path') /\ home'[n] = home[n]
      /\ \A i : Reading(i) => TurnLinked(i)
  BY StepSettled, Framed DEF Shape, Links, TurnsLinked
<1>1. Reading(m) => /\ posts[m].tail \in 1..Len(path') /\ home'[posts[m].tail] = posts[m].key
                    /\ posts[m].key \in DOMAIN settled'
  BY <1>0 DEF TurnLinked
<1>2. CASE Aside
  <2>1. runs' = runs /\ \A i : Reading(i)' => Reading(i) /\ posts'[i] = posts[i]
    BY <1>2 DEF Aside
  <2> QED
    BY <1>0, <1>1, <2>1 DEF TurnLinked, Nodes
<1>3. ASSUME DOMAIN posts' = DOMAIN posts, \A i \in DOMAIN posts : SameTurn(i), DOMAIN runs' \subseteq DOMAIN runs,
             \A v \in DOMAIN runs' : runs'[v].post = runs[v].post
      PROVE  TurnLinked(m)'
  <2>1. \A i : Reading(i)' => Reading(i) /\ SameTurn(i)
    BY <1>3 DEF Reading, SameTurn
  <2> QED
    BY <1>0, <1>1, <1>3, <2>1 DEF TurnLinked, Nodes, SameTurn
<1>4. ASSUME NEW i \in DOMAIN posts, Pops(i) PROVE TurnLinked(m)'
  BY <1>3, <1>4 DEF Pops, memory
<1>5. ASSUME NEW v \in DOMAIN runs, Run(v) PROVE TurnLinked(m)'
  <2>1. DOMAIN runs' \subseteq DOMAIN runs /\ \A i \in DOMAIN runs' : runs'[i].post = runs[i].post
    BY <1>5, RunMoves
  <2> QED
    BY <1>3, <1>5, <2>1, Ending
<1>6. ASSUME NEW j \in DOMAIN posts, Start(j) PROVE TurnLinked(m)'
  <2>1. PICK k \in Keys, n \in NewNodes :
           /\ n \notin Nodes /\ home'[n] = k
           /\ runs' = With(runs, n, [key |-> k, post |-> j, head |-> n, pc |-> "running"])
           /\ DOMAIN posts' = DOMAIN posts /\ \A i \in DOMAIN posts : i # j => posts'[i] = posts[i]
           /\ posts'[j].at = "draining" /\ posts'[j].key = k /\ posts'[j].tail = n
           /\ k \in DOMAIN settled'
    BY <1>6, Starting
  <2>2. /\ DOMAIN runs' = DOMAIN runs \union {n} /\ runs'[n] = [key |-> k, post |-> j, head |-> n, pc |-> "running"]
        /\ \A v \in DOMAIN runs : v # n => runs'[v] = runs[v]
    BY <2>1 DEF With
  <2>3. \A i : Reading(i)' => i = j \/ (Reading(i) /\ posts'[i] = posts[i])
    BY <2>1 DEF Reading
  <2>4. n \in 1..Len(path')
    BY StepTree DEF NewNodes, Fresh, Shape, TreeOk
  <2>5. CASE m = j
    <3>1. ASSUME NEW i, Reading(i)', posts'[i].tail = posts'[m].tail PROVE i = m
      BY <1>0, <2>1, <2>3, <2>5, <3>1 DEF TurnLinked
    <3> QED
      BY <2>1, <2>2, <2>4, <2>5, <3>1 DEF TurnLinked, Nodes
  <2>6. CASE m # j
    <3>1. Reading(m) /\ posts'[m] = posts[m] /\ TurnLinked(m) /\ posts[m].tail # n
      BY <1>0, <2>1, <2>3, <2>6 DEF TurnLinked
    <3>2. ASSUME NEW i, Reading(i)', posts'[i].tail = posts'[m].tail PROVE i = m
      BY <2>1, <2>3, <3>1, <3>2 DEF TurnLinked
    <3>3. posts[m].tail \in DOMAIN runs' => runs'[posts[m].tail].post = m
      BY <2>2, <3>1 DEF TurnLinked
    <3> QED
      BY <1>1, <3>1, <3>2, <3>3 DEF TurnLinked, Nodes
  <2> QED
    BY <2>5, <2>6
<1> QED
  BY <1>2, <1>4, <1>5, <1>6, StepSorts

LEMMA StepQueues == Shape /\ Links /\ [Next]_vars => QueuesOk'
<1> SUFFICES ASSUME Shape, Links, [Next]_vars, ~Restart, NEW m, Reading(m)'
             PROVE  QueueOk(posts[m].tail, posts[m].queue)'
  BY RestartEmpties DEF QueuesOk
<1> DEFINE Goal == QueueOk(posts[m].tail, posts[m].queue)'
<1>0. /\ RunsOk /\ DOMAIN reply \subseteq Nodes
      /\ \A i : Reading(i) => TurnLinked(i) /\ QueueOk(posts[i].tail, posts[i].queue)
      /\ \A u \in DOMAIN runs : RunLinked(u)
  BY DEF Shape, Links, TurnsLinked, RunsLinked, QueuesOk, HistoryOk
<1>1. ASSUME Reading(m), posts'[m].tail = posts[m].tail, posts'[m].queue = posts[m].queue,
             posts[m].tail \in DOMAIN reply => posts[m].tail \in DOMAIN reply' /\ reply'[posts[m].tail] = reply[posts[m].tail],
             posts[m].tail \in DOMAIN runs' => posts[m].tail \in DOMAIN runs
      PROVE  Goal
  BY <1>0, <1>1 DEF QueueOk
<1>2. ASSUME Aside PROVE Goal
  BY <1>1, <1>2 DEF Aside
<1>3. ASSUME NEW i \in DOMAIN posts, Pops(i) PROVE Goal
  <2>1. UNCHANGED <<runs, reply>> /\ Reading(m) /\ posts'[m].tail = posts[m].tail
    BY <1>3 DEF Pops, memory, Reading, SameTurn
  <2>2. CASE m # i
    BY <1>1, <1>3, <2>1, <2>2 DEF Pops, Reading
  <2>3. CASE m = i
    <3>1. /\ posts[m].queue \in Seq(Signals) /\ posts[m].queue # <<>> /\ posts'[m].queue = Tail(posts[m].queue)
      BY <1>3, <2>3 DEF Pops
    <3>2. \A j \in DOMAIN Tail(posts[m].queue) :
            j + 1 \in DOMAIN posts[m].queue /\ Tail(posts[m].queue)[j] = posts[m].queue[j + 1] /\ j + 1 # 1
      BY <3>1
    <3>3. QueueOk(posts[m].tail, posts[m].queue)
      BY <1>0, <2>1
    <3> QED
      BY <2>1, <3>1, <3>2, <3>3 DEF QueueOk
  <2> QED
    BY <2>2, <2>3
<1>4. ASSUME NEW j \in DOMAIN posts, Start(j) PROVE Goal
  <2>1. PICK k \in Keys, n \in NewNodes :
           /\ n \notin Nodes
           /\ runs' = With(runs, n, [key |-> k, post |-> j, head |-> n, pc |-> "running"])
           /\ DOMAIN posts' = DOMAIN posts /\ \A i \in DOMAIN posts : i # j => posts'[i] = posts[i]
           /\ posts'[j].queue = <<>> /\ reply' = reply
    BY <1>4, Starting
  <2>2. DOMAIN runs' = DOMAIN runs \union {n}
    BY <2>1 DEF With
  <2>3. CASE m = j
    BY <2>1, <2>3 DEF QueueOk
  <2>4. CASE m # j
    <3>1. Reading(m) /\ posts'[m] = posts[m]
      BY <2>1, <2>4 DEF Reading
    <3>2. posts[m].tail # n
      BY <1>0, <2>1, <3>1 DEF TurnLinked
    <3> QED
      BY <1>1, <2>1, <2>2, <3>1, <3>2
  <2> QED
    BY <2>3, <2>4
<1>5. ASSUME NEW v \in DOMAIN runs, Run(v) PROVE Goal
  <2>1. /\ DOMAIN posts' = DOMAIN posts /\ \A i \in DOMAIN posts : SameTurn(i)
        /\ \A i \in DOMAIN posts : i # runs[v].post => posts'[i] = posts[i]
    BY <1>5, Ending
  <2>2. Reading(m) /\ posts'[m].tail = posts[m].tail
    BY <2>1 DEF Reading, SameTurn
  <2>3. TurnLinked(m) /\ QueueOk(posts[m].tail, posts[m].queue)
    BY <1>0, <2>2
  <2>4. CASE m # runs[v].post
    <3>1. posts[m].tail # v /\ posts'[m] = posts[m]
      BY <2>1, <2>2, <2>3, <2>4 DEF TurnLinked, Reading
    <3>2. posts[m].tail \in DOMAIN reply => posts[m].tail \in DOMAIN reply' /\ reply'[posts[m].tail] = reply[posts[m].tail]
      BY <1>5, <3>1, RunMoves
    <3>3. posts[m].tail \in DOMAIN runs' => posts[m].tail \in DOMAIN runs
      BY <1>5, RunMoves
    <3> QED
      BY <1>1, <2>2, <3>1, <3>2, <3>3
  <2>5. CASE m = runs[v].post
    <3>1. RunLinked(v) /\ posts[m].tail = v
      BY <1>0, <2>2, <2>5 DEF RunLinked
    <3>2. PICK e : Sends(v, e) /\ posts[m].queue \in Seq(Signals) /\ posts'[m].queue = posts[m].queue \o <<e>>
      BY <1>5, <2>2, <2>5, Ending
    <3>3. CASE Answer(v)
      <4>1. /\ runs[v].pc = "running" /\ v \in DOMAIN reply' /\ reply'[v] = Fresh
        BY <3>3 DEF Answer, With
      <4>2. posts[m].queue = <<>> /\ e = [type |-> "final", tail |-> Fresh]
        BY <2>3, <3>1, <3>2, <3>3, <4>1 DEF QueueOk, RunLinked, Sends, Answer, Finish, Fail, Leave
      <4>3. posts'[m].queue = <<e>>
        BY <3>2, <4>2
      <4> QED
        BY <2>2, <3>1, <4>1, <4>2, <4>3 DEF QueueOk
    <3>4. CASE Finish(v) \/ Fail(v)
      <4>1. reply' = reply /\ v \notin DOMAIN runs'
        BY <3>4 DEF Finish, Fail, Leave, history
      <4>2. e.type # "final" /\ (e.type = "done" => v \in DOMAIN reply)
        <5>1. ~Answer(v)
          BY <4>1 DEF Answer
        <5> QED
          BY <3>1, <3>2, <5>1 DEF Sends, Finish, RunLinked
      <4>3. \A i \in DOMAIN posts'[m].queue :
              \/ i \in DOMAIN posts[m].queue /\ posts'[m].queue[i] = posts[m].queue[i]
              \/ posts'[m].queue[i] = e
        BY <3>2
      <4> QED
        BY <2>2, <2>3, <3>1, <4>1, <4>2, <4>3 DEF QueueOk
    <3> QED
      BY <1>5, <3>3, <3>4 DEF Run
  <2> QED
    BY <2>4, <2>5
<1> HIDE DEF Goal
<1>6. Goal
  BY <1>2, <1>3, <1>4, <1>5, StepSorts
<1> QED
  BY <1>6 DEF Goal

-----------------------------------------------------------------------------
(* Who has seen whom, step by step.                                        *)

At(k, u) ==
  \/ u \in DOMAIN runs /\ runs[u].key = k
  \/ \E m : Reading(m) /\ posts[m].key = k /\ posts[m].tail = u

LEMMA BusyIs == \A k, u : u \in Busy(k) <=> At(k, u)
BY DEF Busy, Peers, Readers, At, Reading

LEMMA BusyNodes == ASSUME Shape, Links, NEW k, NEW u, At(k, u) PROVE u \in Nodes /\ home[u] = k
<1>1. \A v \in DOMAIN runs : v \in Nodes /\ home[v] = runs[v].key
  BY DEF Shape, RunsOk, Links, RunsLinked, RunLinked
<1>2. \A m : Reading(m) => posts[m].tail \in Nodes /\ home[posts[m].tail] = posts[m].key
  BY DEF Links, TurnsLinked, TurnLinked
<1> QED
  BY <1>1, <1>2 DEF At

LEMMA StepAt ==
  ASSUME Shape, [Next]_vars, ~Restart, NEW k, NEW u, At(k, u)'
  PROVE  At(k, u) \/ \E m \in DOMAIN posts : Start(m) /\ k = posts[m].key /\ u = Pushed(k)
<1> DEFINE Goal == At(k, u) \/ \E m \in DOMAIN posts : Start(m) /\ k = posts[m].key /\ u = Pushed(k)
<1>1. ASSUME Aside PROVE Goal
  BY <1>1 DEF Aside, At
<1>2. ASSUME DOMAIN posts' = DOMAIN posts, \A i \in DOMAIN posts : SameTurn(i), DOMAIN runs' \subseteq DOMAIN runs,
             \A v \in DOMAIN runs' : runs'[v].key = runs[v].key
      PROVE  Goal
  <2>1. \A i : Reading(i)' => Reading(i) /\ posts'[i].key = posts[i].key /\ posts'[i].tail = posts[i].tail
    BY <1>2 DEF Reading, SameTurn
  <2> QED
    BY <1>2, <2>1 DEF At
<1>3. ASSUME NEW i \in DOMAIN posts, Pops(i) PROVE Goal
  BY <1>2, <1>3 DEF Pops, memory
<1>4. ASSUME NEW v \in DOMAIN runs, Run(v) PROVE Goal
  <2>1. DOMAIN runs' \subseteq DOMAIN runs /\ \A i \in DOMAIN runs' : runs'[i].key = runs[i].key
    BY <1>4, RunMoves
  <2> QED
    BY <1>2, <1>4, <2>1, Ending
<1>5. ASSUME NEW j \in DOMAIN posts, Start(j) PROVE Goal
  <2>1. PICK h \in Keys, n \in NewNodes :
           /\ h = posts[j].key /\ n = Pushed(h)
           /\ runs' = With(runs, n, [key |-> h, post |-> j, head |-> n, pc |-> "running"])
           /\ DOMAIN posts' = DOMAIN posts /\ \A i \in DOMAIN posts : i # j => posts'[i] = posts[i]
           /\ posts'[j].key = h /\ posts'[j].tail = n
    BY <1>5, Starting
  <2>2. /\ DOMAIN runs' = DOMAIN runs \union {n} /\ runs'[n].key = h
        /\ \A v \in DOMAIN runs : v # n => runs'[v] = runs[v]
    BY <2>1 DEF With
  <2>3. \A i : Reading(i)' => i = j \/ (Reading(i) /\ posts'[i] = posts[i])
    BY <2>1 DEF Reading
  <2>4. At(k, u) \/ (k = h /\ u = n)
    BY <2>1, <2>2, <2>3 DEF At
  <2> QED
    BY <1>5, <2>1, <2>4
<1> HIDE DEF Goal
<1>6. Goal
  BY <1>1, <1>3, <1>4, <1>5, StepSorts
<1> QED
  BY <1>6 DEF Goal

LEMMA Seeing ==
  ASSUME NEW m \in DOMAIN posts, Start(m), NEW k, k = posts[m].key, NEW n, n = Pushed(k)
  PROVE  /\ crowded \subseteq crowded' /\ crossed \subseteq crossed'
         /\ Peers(k) # {} => crowded' = crowded \union Peers(k) \union {n}
         /\ Peers(k) = {} => crowded' = crowded
         /\ Busy(k) # {} => crossed' = crossed \union Busy(k) \union {n}
         /\ Busy(k) = {} => crossed' = crossed
BY DEF Start

(* A message that is not a trigger has been seen by all that are busy, and *)
(* a turn that times out by its own run.                                   *)
LEMMA StepSeen ==
  ASSUME Shape, [Next]_vars, ~Restart
  PROVE  \/ UNCHANGED readings
         \/ \E m \in DOMAIN posts : Start(m)
         \/ /\ UNCHANGED crowded
            /\ \E k : \E S \in SUBSET Busy(k) : crossed' = crossed \union S
<1> DEFINE More == UNCHANGED crowded /\ \E k : \E S \in SUBSET Busy(k) : crossed' = crossed \union S
<1>1. ASSUME NEW m \in DOMAIN posts, TakePassive(m) PROVE More
  BY <1>1 DEF TakePassive
<1>2. ASSUME NEW m \in DOMAIN posts, TimeOut(m) PROVE UNCHANGED readings \/ More
  <2>1. posts[m].tail \in Busy(posts[m].key)
    BY <1>2 DEF TimeOut, Busy, Readers
  <2>2. UNCHANGED crowded /\ (crossed' = crossed \/ crossed' = crossed \union {posts[m].tail})
    BY <1>2 DEF TimeOut
  <2> QED
    BY <2>1, <2>2 DEF readings
<1>3. ASSUME NEW m, TakeThread(m) \/ Drain(m) \/ OpenThread(m) \/ PinThread(m) PROVE UNCHANGED readings
  BY <1>3 DEF TakeThread, Drain, OpenThread, PinThread, history
<1>4. ASSUME NEW u, Run(u) PROVE UNCHANGED readings
  BY <1>4 DEF Run, Answer, Finish, Fail, history
<1>5. ASSUME NEW k, Reset(k) \/ Command(k) PROVE UNCHANGED readings
  BY <1>5 DEF Reset, Command, history
<1>6. ASSUME NEW k, NEW trigger, Say(k, trigger) PROVE UNCHANGED readings
  BY <1>6 DEF Say, history
<1>7. ASSUME UNCHANGED vars PROVE UNCHANGED readings
  BY <1>7 DEF vars, history
<1> HIDE DEF More
<1>8. UNCHANGED readings \/ (\E m \in DOMAIN posts : Start(m)) \/ More
  BY <1>1, <1>2, <1>3, <1>4, <1>5, <1>6, <1>7 DEF Next, Turn
<1> QED
  BY <1>8 DEF More

LEMMA SeenStays ==
  ASSUME Shape, [Next]_vars, ~Restart
  PROVE  crowded \subseteq crowded' /\ crossed \subseteq crossed'
<1>1. ASSUME NEW m \in DOMAIN posts, Start(m) PROVE crowded \subseteq crowded' /\ crossed \subseteq crossed'
  BY <1>1, Seeing
<1> QED
  BY <1>1, StepSeen DEF readings

LEMMA StepReadings == Shape /\ Links /\ ReadingsOk /\ [Next]_vars => ReadingsOk'
<1> SUFFICES ASSUME Shape, Links, ReadingsOk, [Next]_vars, ~Restart PROVE ReadingsOk'
  BY RestartEmpties, BusyIs DEF ReadingsOk, At, Reading, Busy, Peers, Readers
<1>0. crowded \subseteq crowded' /\ crossed \subseteq crossed'
  BY SeenStays
<1>1. ASSUME NEW m \in DOMAIN posts, Start(m) PROVE ReadingsOk'
  <2>1. PICK k \in Keys, n \in NewNodes :
           /\ k = posts[m].key /\ n = Pushed(k) /\ n \notin Nodes
           /\ runs' = With(runs, n, [key |-> k, post |-> m, head |-> n, pc |-> "running"])
    BY <1>1, Starting
  <2>2. /\ DOMAIN runs' = DOMAIN runs \union {n} /\ runs'[n].key = k
        /\ \A v \in DOMAIN runs : v # n => runs'[v] = runs[v]
    BY <2>1 DEF With
  <2>3. ASSUME NEW u \in DOMAIN runs', NEW v \in DOMAIN runs', runs'[u].key = runs'[v].key, u # v PROVE u \in crowded'
    <3>1. CASE u # n /\ v # n
      BY <1>0, <2>2, <2>3, <3>1 DEF ReadingsOk
    <3>2. CASE u = n \/ v = n
      <4>1. Peers(k) # {} /\ u \in Peers(k) \union {n}
        BY <2>2, <2>3, <3>2 DEF Peers
      <4> QED
        BY <1>1, <2>1, <4>1, Seeing
    <3> QED
      BY <3>1, <3>2
  <2>4. ASSUME NEW j, NEW u, NEW v, At(j, u)', At(j, v)', u # v PROVE u \in crossed'
    <3>1. (At(j, u) \/ (j = k /\ u = n)) /\ (At(j, v) \/ (j = k /\ v = n))
      <4>1. \A h, w : At(h, w)' => At(h, w) \/ \E i \in DOMAIN posts : Start(i) /\ h = posts[i].key /\ w = Pushed(h)
        BY StepAt
      <4>2. ASSUME NEW i \in DOMAIN posts, Start(i) PROVE i = m
        <5>1. PICK h \in Keys, w \in NewNodes : w = Pushed(h) /\ DOMAIN posts' = DOMAIN posts
                 /\ (\A l \in DOMAIN posts : l # i => posts'[l] = posts[l]) /\ posts[i].at \notin Taken
          BY <4>2, Starting
        <5>2. posts'[m].at = "draining" /\ posts[m].at \notin Taken
          BY <1>1, Starting
        <5> QED
          BY <5>1, <5>2 DEF Taken
      <4> QED
        BY <2>1, <2>4, <4>1, <4>2
    <3>2. CASE At(j, u) /\ At(j, v)
      BY <1>0, <2>4, <3>2, BusyIs DEF ReadingsOk
    <3>3. CASE ~(At(j, u) /\ At(j, v))
      <4>1. j = k /\ Busy(k) # {} /\ u \in Busy(k) \union {n}
        BY <2>4, <3>1, <3>3, BusyIs
      <4> QED
        BY <1>1, <2>1, <4>1, Seeing
    <3> QED
      BY <3>2, <3>3
  <2>5. \A j, u : u \in Busy(j)' <=> At(j, u)'
    BY DEF Busy, Peers, Readers, At, Reading
  <2> QED
    BY <2>3, <2>4, <2>5 DEF ReadingsOk
<1>2. ASSUME \A m \in DOMAIN posts : ~Start(m) PROVE ReadingsOk'
  <2>1. \A k, u : At(k, u)' => At(k, u)
    BY <1>2, StepAt
  <2>2. DOMAIN runs' \subseteq DOMAIN runs /\ \A u \in DOMAIN runs' : runs'[u].key = runs[u].key
    <3>1. ASSUME NEW v \in DOMAIN runs, Run(v)
          PROVE  DOMAIN runs' \subseteq DOMAIN runs /\ \A u \in DOMAIN runs' : runs'[u].key = runs[u].key
      BY <3>1, RunMoves
    <3> QED
      BY <1>2, <3>1, StepSorts DEF Aside, Pops, memory
  <2>3. \A j, u : u \in Busy(j)' <=> At(j, u)'
    BY DEF Busy, Peers, Readers, At, Reading
  <2> QED
    BY <1>0, <2>1, <2>2, <2>3, BusyIs DEF ReadingsOk
<1> QED
  BY <1>1, <1>2

(* What is shown was being read, by a turn of the session's current epoch. *)
Shows(m) ==
  /\ Reading(m) /\ Current(m) /\ shown' = shown \union {posts[m].tail}
  /\ \/ posts[m].queue # <<>> /\ Head(posts[m].queue).type = "done"
     \/ ReadUp(m)
     \/ posts[m].tail \in crossed'

LEMMA StepShown ==
  ASSUME Shape, [Next]_vars, ~Restart
  PROVE  \/ UNCHANGED shown
         \/ \E k : Reset(k) /\ shown' = {u \in shown : home[u] # k}
         \/ \E m : Shows(m)
<1> DEFINE Drops(k) == Reset(k) /\ shown' = {u \in shown : home[u] # k}
<1>1. ASSUME NEW m \in DOMAIN posts, Drain(m) PROVE UNCHANGED shown \/ Shows(m)
  <2>1. UNCHANGED shown \/ (Post(m) /\ Head(posts[m].queue).type = "done" /\ posts[m].queue # <<>>)
    BY <1>1 DEF Drain
  <2> QED
    BY <1>1, <2>1 DEF Post, Shows, Reading, Drain
<1>2. ASSUME NEW m \in DOMAIN posts, TimeOut(m) PROVE UNCHANGED shown \/ Shows(m)
  BY <1>2 DEF TimeOut, Post, Shows, Reading
<1>3. ASSUME NEW m, TakePassive(m) \/ TakeThread(m) \/ Start(m) \/ OpenThread(m) \/ PinThread(m)
      PROVE  UNCHANGED shown
  BY <1>3 DEF TakePassive, TakeThread, Start, OpenThread, PinThread, history
<1>4. ASSUME NEW u, Run(u) PROVE UNCHANGED shown
  BY <1>4 DEF Run, Answer, Finish, Fail, history
<1>5. ASSUME NEW k, Reset(k) PROVE Drops(k)
  BY <1>5 DEF Reset
<1>6. ASSUME NEW k, Command(k) PROVE UNCHANGED shown
  BY <1>6 DEF Command, history
<1>7. ASSUME NEW k, NEW trigger, Say(k, trigger) PROVE UNCHANGED shown
  BY <1>7 DEF Say, history
<1>8. ASSUME UNCHANGED vars PROVE UNCHANGED shown
  BY <1>8 DEF vars, history
<1> HIDE DEF Drops
<1>9. UNCHANGED shown \/ (\E k : Drops(k)) \/ \E m : Shows(m)
  BY <1>1, <1>2, <1>3, <1>4, <1>5, <1>6, <1>7, <1>8 DEF Next, Turn
<1> QED
  BY <1>9 DEF Drops

LEMMA StepReply ==
  ASSUME Shape, [Next]_vars
  PROVE  \/ UNCHANGED reply
         \/ \E u \in DOMAIN runs : /\ Answer(u) /\ u \in DOMAIN runs'
                                   /\ DOMAIN reply' = DOMAIN reply \union {u} /\ reply'[u] = Fresh
                                   /\ \A v \in DOMAIN reply : v # u => reply'[v] = reply[v]
<1>1. Restart => UNCHANGED reply
  BY DEF Restart
<1>2. ASSUME NEW m \in DOMAIN posts, Start(m) \/ Pops(m) PROVE UNCHANGED reply
  BY <1>2 DEF Start, Pops
<1>3. Aside => UNCHANGED reply
  BY DEF Aside
<1>4. ASSUME NEW u \in DOMAIN runs, Run(u)
      PROVE  \/ UNCHANGED reply
             \/ /\ Answer(u) /\ u \in DOMAIN runs'
                /\ DOMAIN reply' = DOMAIN reply \union {u} /\ reply'[u] = Fresh
                /\ \A v \in DOMAIN reply : v # u => reply'[v] = reply[v]
  BY <1>4, RunMoves
<1> QED
  BY <1>1, <1>2, <1>3, <1>4, StepSorts

LEMMA StepHistory == Shape /\ Links /\ [Next]_vars => HistoryOk'
<1> SUFFICES ASSUME Shape, Links, [Next]_vars PROVE HistoryOk'
  OBVIOUS
<1>0. HistoryOk /\ Nodes \subseteq 1..Len(path')
  BY Framed DEF Links, NodesStay
<1>1. DOMAIN reply' \subseteq 1..Len(path') /\ \A u \in DOMAIN reply' : reply'[u] \in 1..Len(path')
  <2>1. CASE UNCHANGED reply
    BY <1>0, <2>1 DEF HistoryOk
  <2>2. ASSUME NEW u \in DOMAIN runs, Answer(u), DOMAIN reply' = DOMAIN reply \union {u}, reply'[u] = Fresh,
               \A v \in DOMAIN reply : v # u => reply'[v] = reply[v]
        PROVE  DOMAIN reply' \subseteq 1..Len(path') /\ \A v \in DOMAIN reply' : reply'[v] \in 1..Len(path')
    <3>1. u \in Nodes
      BY DEF Shape, RunsOk
    <3>2. Fresh \in 1..Len(path')
      BY <2>2 DEF Answer, Grow, Fresh, Shape, TreeOk
    <3> QED
      BY <1>0, <2>2, <3>1, <3>2 DEF HistoryOk
  <2> QED
    BY <2>1, <2>2, StepReply
<1>2. CASE Restart
  BY <1>0, <1>1, <1>2 DEF Restart, HistoryOk, Nodes
<1>3. CASE ~Restart
  <2>1. shown' \subseteq 1..Len(path')
    <3>1. ASSUME NEW m, Shows(m) PROVE shown' \subseteq Nodes
      BY <1>0, <3>1 DEF Shows, Links, TurnsLinked, TurnLinked, HistoryOk
    <3>2. ASSUME UNCHANGED shown \/ \E k : Reset(k) /\ shown' = {u \in shown : home[u] # k}
          PROVE  shown' \subseteq Nodes
      BY <1>0, <3>2 DEF HistoryOk
    <3> QED
      BY <1>0, <1>3, <3>1, <3>2, StepShown
  <2>2. \A k : Busy(k) \subseteq Nodes
    BY BusyIs, BusyNodes
  <2>3. ASSUME NEW m \in DOMAIN posts, Start(m) PROVE crowded' \subseteq crossed' /\ crossed' \subseteq 1..Len(path')
    <3>1. PICK k \in Keys, n \in NewNodes : k = posts[m].key /\ n = Pushed(k)
      BY <2>3, Starting
    <3>2. n \in 1..Len(path')
      BY StepTree DEF NewNodes, Fresh, Shape, TreeOk
    <3>3. Peers(k) \subseteq Busy(k) /\ Busy(k) \subseteq 1..Len(path')
      BY <1>0, <2>2 DEF Busy
    <3>4. crowded \subseteq crossed /\ crossed \subseteq 1..Len(path')
      BY <1>0 DEF HistoryOk
    <3>5. CASE Peers(k) # {}
      <4>1. crowded' = crowded \union Peers(k) \union {n} /\ crossed' = crossed \union Busy(k) \union {n}
        BY <2>3, <3>1, <3>3, <3>5, Seeing
      <4> QED
        BY <3>2, <3>3, <3>4, <4>1
    <3>6. CASE Peers(k) = {}
      <4>1. crowded' = crowded /\ (crossed' = crossed \/ crossed' = crossed \union Busy(k) \union {n})
        BY <2>3, <3>1, <3>6, Seeing
      <4> QED
        BY <3>2, <3>3, <3>4, <4>1
    <3> QED
      BY <3>5, <3>6
  <2>4. crowded' \subseteq crossed' /\ crossed' \subseteq 1..Len(path')
    BY <1>0, <1>3, <2>2, <2>3, StepSeen DEF HistoryOk, readings
  <2> QED
    BY <1>1, <2>1, <2>4 DEF HistoryOk, Nodes
<1> QED
  BY <1>2, <1>3

LEMMA StepLinks == Shape /\ Links /\ [Next]_vars => Links'
BY StepRunsLinked, StepTurnsLinked, StepQueues, StepHistory DEF Links

-----------------------------------------------------------------------------
(* What a session continues from is only extended.                         *)

(* Whatever session k continues from has x on its branch, and so has       *)
(* whatever its runs will settle.                                          *)
Remembered(k, x) ==
  /\ k \in DOMAIN store /\ x \in path[AttachTo(k)]
  /\ \A u \in DOMAIN runs : runs[u].key = k => x \in path[runs[u].head]

LEMMA Commanding ==
  ASSUME Shape, [Next]_vars, NEW k \in Sessions, Command(k)
  PROVE  /\ k \in DOMAIN store /\ store' = With(store, k, Fresh + 1) /\ path[store[k]] \subseteq path'[Fresh + 1]
         /\ UNCHANGED <<settled, runs, posts, reply, shown, epoch>>
<1>1. k \in Keys /\ Opened(k) /\ ThreadsStay /\ TreeOk
  BY StepThreads, Keyed DEF Shape, ThreadsMove
<1>2. k \in DOMAIN store /\ Cursor(k) = store[k] /\ store[k] \in Nodes
  BY Standing DEF Command, Cursor, Get
<1>3. GrowTwice(store[k], k) /\ store[k] \in 0..Len(path) /\ store[k] # 0
  BY <1>1, <1>2 DEF Command, Introspect, Nodes, TreeOk
<1>4. Extended(store[k], k) /\ Len(path') = Fresh + 1
  BY <1>1, <1>3, GrowingTwice
<1>5. path[store[k]] \subseteq path'[Fresh + 1]
  BY <1>1, <1>3, <1>4 DEF Extended, NewNodes, Fresh, Path, TreeOk
<1> QED
  BY <1>2, <1>5 DEF Command, memory, history

LEMMA Answering ==
  ASSUME Shape, [Next]_vars, NEW u \in DOMAIN runs, Answer(u)
  PROVE  path[runs[u].head] \subseteq path'[Fresh] /\ Fresh \in path'[Fresh]
<1>1. PICK k \in Keys : k = runs[u].key /\ Opened(k)
  BY DEF Shape, RunsOk, RunOk, MirrorsOk
<1>2. PICK h \in Nodes : h = runs[u].head
  BY DEF Shape, HoldsOk, Holds
<1>3. TreeOk /\ ThreadsStay /\ h \in 0..Len(path) /\ h # 0 /\ Grow(h, k)
  BY <1>1, <1>2, StepThreads DEF Shape, ThreadsMove, Nodes, TreeOk, Answer
<1>4. Extended(h, k) /\ Len(path') = Fresh
  BY <1>1, <1>3, Growing
<1> QED
  BY <1>2, <1>3, <1>4 DEF Extended, NewNodes, Fresh, Path, TreeOk

LEMMA PushExtends ==
  ASSUME Shape, [Next]_vars, NEW m \in DOMAIN posts, NEW k, k = posts[m].key, Push(k), k \in DOMAIN store
  PROVE  Attached(k) = AttachTo(k) /\ path[AttachTo(k)] \subseteq path'[Pushed(k)]
<1>1. posts[m] \in Posts /\ PostOk(posts[m]) /\ ThreadsStay
  BY StepThreads DEF Shape, PostsOk, ThreadsMove
<1>2. k \in Keys /\ Opened(k)
  BY <1>1 DEF Posts, PostOk
<1> QED
  BY <1>1, <1>2, Pushing

LEMMA StepRemembered ==
  ASSUME Shape, Links, [Next]_vars, NEW k \in {Dm, Group}, NEW x, Remembered(k, x), ~Reset(k), ~Restart
  PROVE  Remembered(k, x)'
<1>0. /\ TreeOk /\ PostsOk /\ RunsOk /\ Len(path) \in Nat /\ k.kind # "thread" /\ \A m : Thread(m) # k
      /\ \A m \in DOMAIN posts : posts[m] \in Posts
      /\ \A m : Reading(m) => posts[m].key \in DOMAIN settled
  BY DEF Shape, TreeOk, PostsOk, Dm, Group, Thread, Links, TurnsLinked, TurnLinked
<1>1. \A n \in Nodes : path'[n] = path[n]
  BY Framed
<1>2. /\ k \in DOMAIN store /\ store[k] \in Nodes /\ x \in path'[AttachTo(k)]
      /\ AttachTo(k) = IF k \in DOMAIN settled THEN settled[k] ELSE store[k]
      /\ \A u \in DOMAIN runs : runs[u].key = k => x \in path'[runs[u].head]
      /\ \A u \in DOMAIN runs : runs[u].head \in Nodes
  <2>1. \A u \in DOMAIN runs : runs[u].head \in Nodes
    BY DEF Shape, HoldsOk, Holds
  <2>2. k \in DOMAIN store /\ store[k] \in Nodes /\ AttachTo(k) \in Nodes
        /\ AttachTo(k) = IF k \in DOMAIN settled THEN settled[k] ELSE store[k]
    <3>1. k \in DOMAIN store /\ Cursor(k) = store[k]
      BY DEF Remembered, Cursor, Get
    <3> QED
      BY <3>1, Standing DEF AttachTo
  <2> QED
    BY <1>1, <2>1, <2>2 DEF Remembered
<1> DEFINE AttachHas == k \in DOMAIN store' /\ x \in path'[AttachTo(k)']
           HeadsHave == \A u \in DOMAIN runs' : runs'[u].key = k => x \in path'[runs'[u].head]
           Same == k \in DOMAIN store' /\ store'[k] = store[k]
           Goal == AttachHas /\ HeadsHave
<1>3. k \in DOMAIN store' => AttachTo(k)' = IF k \in DOMAIN settled' THEN settled'[k] ELSE store'[k]
  BY DEF AttachTo, Cursor, Get
<1>4. ASSUME UNCHANGED settled, k \in DOMAIN store', k \in DOMAIN settled \/ x \in path'[store'[k]] PROVE AttachHas
  BY <1>2, <1>3, <1>4
<1>5. ASSUME UNCHANGED settled, Same PROVE AttachHas
  BY <1>2, <1>3, <1>5
<1>6. ASSUME NEW j, NEW n, settled' = With(settled, j, n), j = k => x \in path'[n],
             k \in DOMAIN store', j # k => store'[k] = store[k]
      PROVE  AttachHas
  BY <1>2, <1>3, <1>6 DEF With
<1>7. UNCHANGED runs => HeadsHave
  BY <1>2
<1>8. ASSUME NEW j, NEW n, store' = With(store, j, n) PROVE k \in DOMAIN store' /\ (j # k => Same)
  BY <1>2, <1>8 DEF With
<1>9. UNCHANGED store => Same
  BY <1>2
<1>10. ASSUME NEW m \in DOMAIN posts, Push(posts[m].key), posts[m].key = k
       PROVE  x \in path'[Attached(k)] /\ x \in path'[Pushed(k)]
  <2>1. Attached(k) = AttachTo(k) /\ path[AttachTo(k)] \subseteq path'[Pushed(k)]
    BY <1>2, <1>10, PushExtends
  <2> QED
    BY <1>2, <2>1 DEF Remembered
<1> HIDE DEF AttachHas, HeadsHave
<1>11. ASSUME NEW m \in DOMAIN posts, TakePassive(m) PROVE Goal
  <2>1. PICK j, n : j = posts[m].key /\ n = Pushed(j)
    OBVIOUS
  <2>2. Push(j) /\ settled' = With(settled, j, n) /\ store' = With(store, j, n) /\ UNCHANGED runs
    BY <1>11, <2>1 DEF TakePassive
  <2>3. j = k => x \in path'[n]
    BY <1>10, <2>1, <2>2
  <2> QED
    BY <1>6, <1>7, <1>8, <2>2, <2>3
<1>12. ASSUME NEW m \in DOMAIN posts, Start(m) PROVE Goal
  <2>1. PICK j, n, a : j = posts[m].key /\ n = Pushed(j) /\ a = Attached(j)
    OBVIOUS
  <2>2. /\ Push(j) /\ settled' = With(settled, j, a) /\ store' = With(store, j, n)
        /\ runs' = With(runs, n, [key |-> j, post |-> m, head |-> n, pc |-> "running"])
    BY <1>12, <2>1 DEF Start
  <2>3. j = k => x \in path'[a] /\ x \in path'[n]
    BY <1>10, <2>1, <2>2
  <2>4. HeadsHave
    BY <1>2, <2>2, <2>3 DEF With, HeadsHave
  <2> QED
    BY <1>6, <1>8, <2>2, <2>3, <2>4
<1>13. ASSUME NEW u \in DOMAIN runs, Answer(u) PROVE Goal
  <2>1. path[runs[u].head] \subseteq path'[Fresh]
    BY <1>13, Answering
  <2>2. /\ DOMAIN runs' = DOMAIN runs /\ runs'[u].key = runs[u].key /\ runs'[u].head = Fresh
        /\ \A v \in DOMAIN runs : v # u => runs'[v] = runs[v]
    <3>1. Run(u) /\ ~Finish(u) /\ ~Fail(u)
      BY <1>13 DEF Run, Answer, Finish, Fail, Leave
    <3> QED
      BY <3>1, RunMoves
  <2>3. HeadsHave
    BY <1>2, <2>1, <2>2 DEF HeadsHave, Remembered
  <2> QED
    BY <1>5, <1>9, <1>13, <2>3 DEF Answer
<1>14. ASSUME NEW u \in DOMAIN runs, Finish(u) \/ Fail(u) PROVE Goal
  <2>1. Leave(u) /\ UNCHANGED store
    BY <1>14 DEF Finish, Fail
  <2>2. HeadsHave
    BY <1>2, <2>1 DEF Leave, HeadsHave
  <2> QED
    BY <1>2, <1>6, <1>9, <2>1, <2>2 DEF Leave
<1>15. ASSUME NEW m \in DOMAIN posts, TakeThread(m) PROVE Goal
  <2>1. PICK j : j = posts[m].key /\ j # k
    BY <1>0, <1>15 DEF TakeThread
  <2>2. UNCHANGED <<settled, runs>> /\ (UNCHANGED store \/ \E n : store' = With(store, j, n))
    BY <1>15, <2>1 DEF TakeThread, memory
  <2> QED
    BY <1>5, <1>7, <1>8, <1>9, <2>1, <2>2
<1>16. ASSUME NEW m \in DOMAIN posts, Drain(m) PROVE Goal
  <2>1. PICK j : j = posts[m].key /\ j \in DOMAIN settled
    BY <1>0, <1>16 DEF Drain, Reading
  <2>2. UNCHANGED <<settled, runs>> /\ (UNCHANGED store \/ \E n : store' = With(store, j, n))
    BY <1>16, <2>1 DEF Drain, Mirrored, memory
  <2> QED
    BY <1>4, <1>5, <1>7, <1>8, <1>9, <2>1, <2>2
<1>17. ASSUME NEW m, TimeOut(m) \/ OpenThread(m) PROVE Goal
  BY <1>5, <1>7, <1>9, <1>17 DEF TimeOut, OpenThread, memory
<1>18. ASSUME NEW m, PinThread(m) PROVE Goal
  <2>1. PICK j, n : j = Thread(m) /\ settled' = With(settled, j, n) /\ store' = With(store, j, n)
    BY <1>18 DEF PinThread
  <2>2. j # k /\ UNCHANGED runs
    BY <1>0, <1>18, <2>1 DEF PinThread
  <2> QED
    BY <1>6, <1>7, <1>8, <2>1, <2>2
<1>19. ASSUME NEW j \in Sessions, Reset(j) PROVE Goal
  <2>1. j # k /\ settled' = With(settled, j, Fresh) /\ store' = With(store, j, Fresh) /\ UNCHANGED runs
    BY <1>19 DEF Reset
  <2> QED
    BY <1>6, <1>7, <1>8, <2>1
<1>20. ASSUME NEW j \in Sessions, Command(j) PROVE Goal
  <2>1. /\ UNCHANGED <<settled, runs>> /\ store' = With(store, j, Fresh + 1)
        /\ path[store[j]] \subseteq path'[Fresh + 1]
    BY <1>20, Commanding
  <2>2. CASE j # k
    BY <1>5, <1>7, <1>8, <2>1, <2>2
  <2>3. CASE j = k
    <3>1. k \notin DOMAIN settled => x \in path'[store'[k]]
      BY <1>2, <2>1, <2>3 DEF With, Remembered
    <3> QED
      BY <1>4, <1>7, <1>8, <2>1, <3>1
  <2> QED
    BY <2>2, <2>3
<1>21. ASSUME NEW j, NEW trigger, Say(j, trigger) PROVE Goal
  BY <1>5, <1>7, <1>9, <1>21 DEF Say, memory
<1>22. ASSUME UNCHANGED vars PROVE Goal
  BY <1>5, <1>7, <1>9, <1>22 DEF vars, memory
<1> HIDE DEF Goal
<1>23. Goal
  BY <1>11, <1>12, <1>13, <1>14, <1>15, <1>16, <1>17, <1>18, <1>19, <1>20, <1>21, <1>22 DEF Next, Turn, Run
<1> QED
  BY <1>23 DEF Goal, AttachHas, HeadsHave, Remembered

-----------------------------------------------------------------------------
(* The promise.                                                            *)

(* A reply counts once something of it was posted, and while it is read:   *)
(* by a turn of the session's current epoch.                               *)
Counts(u) == u \in shown \/ \E m : Reading(m) /\ Current(m) /\ posts[m].tail = u
Seen(u) == u \in shown \/ \E m : Reading(m) /\ Current(m) /\ posts[m].tail = u /\ ReadUp(m)
Main(u) == home[u] \in {Dm, Group}

KeptOk ==
  \A u \in DOMAIN reply \ (DOMAIN runs \union crowded) :
    Main(u) /\ Counts(u) => Remembered(home[u], reply[u])

(* The stored cursor has x on its branch, and so has every final event     *)
(* that may still move it.                                                 *)
Stored(k, x) ==
  /\ k \in DOMAIN store /\ x \in path[store[k]]
  /\ \A m, e : Pending(m, e) /\ posts[m].key = k /\ e.type = "final" => x \in path[e.tail]
StoredOk ==
  \A u : Main(u) /\ Seen(u) /\ u \notin crossed => u \in DOMAIN reply /\ Stored(home[u], reply[u])

(* The database loses everything or nothing.                               *)
AliveOk == \A n \in Nodes : \A a \in path[n] : a \in alive => n \in alive

ShownInv == Links /\ ReadingsOk /\ KeptOk /\ StoredOk /\ AliveOk

LEMMA CountsNodes == ASSUME Links, NEW u, Counts(u) PROVE u \in Nodes
BY DEF Links, HistoryOk, TurnsLinked, TurnLinked, Counts

LEMMA StepTurn ==
  ASSUME Shape, [Next]_vars, ~Restart, NEW m, Reading(m)'
  PROVE  (Reading(m) /\ SameTurn(m)) \/ (m \in DOMAIN posts /\ Start(m))
<1> DEFINE Goal == (Reading(m) /\ SameTurn(m)) \/ (m \in DOMAIN posts /\ Start(m))
<1>1. ASSUME Aside PROVE Goal
  BY <1>1 DEF Aside, SameTurn
<1>2. ASSUME NEW i \in DOMAIN posts, Pops(i) PROVE Goal
  BY <1>2 DEF Pops, Reading, SameTurn
<1>3. ASSUME NEW u \in DOMAIN runs, Run(u) PROVE Goal
  <2>1. DOMAIN posts' = DOMAIN posts /\ \A i \in DOMAIN posts : SameTurn(i)
    BY <1>3, Ending
  <2> QED
    BY <2>1 DEF Reading, SameTurn
<1>4. ASSUME NEW i \in DOMAIN posts, Start(i) PROVE Goal
  <2>1. DOMAIN posts' = DOMAIN posts /\ \A j \in DOMAIN posts : j # i => posts'[j] = posts[j]
    BY <1>4, Starting
  <2> QED
    BY <1>4, <2>1 DEF Reading, SameTurn
<1> HIDE DEF Goal
<1>5. Goal
  BY <1>1, <1>2, <1>3, <1>4, StepSorts
<1> QED
  BY <1>5 DEF Goal

LEMMA StepCurrent ==
  ASSUME Shape, [Next]_vars, ~Restart, NEW m, Reading(m), SameTurn(m), Current(m)'
  PROVE  Current(m) /\ ~Reset(posts[m].key)
<1>1. PICK k : k = posts[m].key
  OBVIOUS
<1>2. posts[m] \in Posts /\ PostOk(posts[m]) /\ EpochsMove
  BY StepEpochs DEF Reading, Shape, PostsOk
<1>3. posts[m].epoch \in Nat /\ posts[m].epoch <= Epoch(k) /\ Epoch(k) \in Nat /\ Epoch(k)' \in Nat
      /\ Epoch(k) <= Epoch(k)'
  BY <1>1, <1>2 DEF PostOk, Posts, Reading, EpochsMove
<1>4. posts[m].epoch = Epoch(k)'
  BY <1>1 DEF Current, SameTurn, Epoch
<1>5. Current(m)
  BY <1>1, <1>3, <1>4 DEF Current, Epoch
<1>6. Reset(k) => Epoch(k)' = Epoch(k) + 1
  BY DEF Reset, Epoch, With
<1> QED
  BY <1>1, <1>3, <1>4, <1>5, <1>6

LEMMA StepCounts ==
  ASSUME Shape, Links, [Next]_vars, ~Restart, NEW u, Counts(u)'
  PROVE  \/ Counts(u) /\ ~Reset(home[u])
         \/ u \in DOMAIN runs' /\ u \notin DOMAIN reply'
<1>1. ASSUME NEW m, Reading(m)', Current(m)', posts'[m].tail = u
      PROVE  \/ Counts(u) /\ ~Reset(home[u])
             \/ u \in DOMAIN runs' /\ u \notin DOMAIN reply'
  <2>1. CASE Reading(m) /\ SameTurn(m)
    <3>1. Current(m) /\ ~Reset(posts[m].key) /\ posts[m].tail = u
      BY <1>1, <2>1, StepCurrent DEF SameTurn
    <3>2. home[u] = posts[m].key
      BY <2>1, <3>1 DEF Links, TurnsLinked, TurnLinked
    <3> QED
      BY <2>1, <3>1, <3>2 DEF Counts
  <2>2. CASE m \in DOMAIN posts /\ Start(m)
    <3>1. PICK k \in Keys, n \in NewNodes :
             /\ n \notin Nodes /\ posts'[m].tail = n /\ reply' = reply
             /\ runs' = With(runs, n, [key |-> k, post |-> m, head |-> n, pc |-> "running"])
      BY <2>2, Starting
    <3>2. n \in DOMAIN runs'
      BY <3>1 DEF With
    <3> QED
      BY <1>1, <3>1, <3>2 DEF Links, HistoryOk
  <2> QED
    BY <1>1, <2>1, <2>2, StepTurn
<1>2. ASSUME u \in shown' PROVE Counts(u) /\ ~Reset(home[u])
  <2>1. ASSUME NEW m, Shows(m) PROVE Counts(u)
    BY <1>2, <2>1 DEF Shows, Counts
  <2>2. Counts(u)
    BY <1>2, <2>1, StepShown DEF Counts
  <2>3. ~Reset(home[u])
    BY <1>2 DEF Reset
  <2> QED
    BY <2>2, <2>3
<1> QED
  BY <1>1, <1>2 DEF Counts

(* A reply is seen to its end when the turn reads the final event.         *)
LEMMA StepReadUp ==
  ASSUME Shape, Links, [Next]_vars, ~Restart, NEW m, Reading(m), SameTurn(m), ReadUp(m)'
  PROVE  ReadUp(m) \/ Pops(m)
<1> DEFINE Goal == ReadUp(m) \/ Pops(m)
<1>0. m \in DOMAIN posts /\ TurnLinked(m)
  BY DEF Reading, Links, TurnsLinked
<1>1. /\ posts[m].tail \in DOMAIN reply' /\ posts'[m].tail = posts[m].tail
      /\ \A i \in DOMAIN posts'[m].queue : posts'[m].queue[i].type # "final"
  BY DEF ReadUp, SameTurn
<1>2. ASSUME posts'[m].queue = posts[m].queue, posts[m].tail \in DOMAIN reply PROVE ReadUp(m)
  BY <1>1, <1>2 DEF ReadUp
<1>3. ASSUME Aside, Reading(m)' PROVE Goal
  BY <1>1, <1>2, <1>3 DEF Aside
<1>4. ASSUME NEW i \in DOMAIN posts, Pops(i) PROVE Goal
  BY <1>0, <1>1, <1>2, <1>4 DEF Pops
<1>5. ASSUME NEW i \in DOMAIN posts, Start(i) PROVE Goal
  <2>1. /\ reply' = reply /\ posts[i].at \notin Taken
        /\ \A j \in DOMAIN posts : j # i => posts'[j] = posts[j]
    BY <1>5, Starting
  <2>2. i # m
    BY <2>1 DEF Reading, Taken
  <2> QED
    BY <1>0, <1>1, <1>2, <2>1, <2>2
<1>6. ASSUME NEW v \in DOMAIN runs, Run(v) PROVE Goal
  <2>1. CASE m # runs[v].post
    <3>1. posts[m].tail # v /\ posts'[m] = posts[m]
      BY <1>0, <1>6, <2>1, Ending DEF TurnLinked
    <3>2. posts[m].tail \in DOMAIN reply
      BY <1>1, <1>6, <3>1, RunMoves
    <3> QED
      BY <1>2, <3>1, <3>2
  <2>2. CASE m = runs[v].post
    <3>1. PICK e : Sends(v, e) /\ posts[m].queue \in Seq(Signals) /\ posts'[m].queue = posts[m].queue \o <<e>>
      BY <1>6, <2>2, Ending
    <3>2. /\ Len(posts[m].queue) + 1 \in DOMAIN posts'[m].queue /\ posts'[m].queue[Len(posts[m].queue) + 1] = e
          /\ \A i \in DOMAIN posts[m].queue : i \in DOMAIN posts'[m].queue /\ posts'[m].queue[i] = posts[m].queue[i]
      BY <3>1
    <3>3. e.type # "final"
      BY <1>1, <3>2
    <3>4. ~Answer(v)
      <4>1. Answer(v) => ~Finish(v) /\ ~Fail(v)
        BY DEF Answer, Finish, Fail, Leave
      <4> QED
        BY <3>1, <3>3, <4>1 DEF Sends
    <3>5. reply' = reply
      BY <1>6, <3>4, RunMoves
    <3> QED
      BY <1>1, <3>2, <3>5 DEF ReadUp
  <2> QED
    BY <2>1, <2>2
<1> HIDE DEF Goal
<1>7. Reading(m)'
  <2>1. m \in DOMAIN posts'
    BY <1>0, StepPosts DEF PostsMove
  <2> QED
    BY <2>1 DEF Reading, SameTurn
<1>8. Goal
  BY <1>3, <1>4, <1>5, <1>6, <1>7, StepSorts
<1> QED
  BY <1>8 DEF Goal

LEMMA StepSeenUp ==
  ASSUME Shape, Links, [Next]_vars, ~Restart, NEW u, Seen(u)', u \notin crossed'
  PROVE  /\ Seen(u) \/ \E m : Pops(m) /\ Current(m) /\ posts[m].tail = u
         /\ ~Reset(home[u])
<1>1. ASSUME NEW m, Reading(m)', Current(m)', posts'[m].tail = u, ReadUp(m)'
      PROVE  (Seen(u) \/ (Pops(m) /\ Current(m) /\ posts[m].tail = u)) /\ ~Reset(home[u])
  <2>1. CASE Reading(m) /\ SameTurn(m)
    <3>1. Current(m) /\ ~Reset(posts[m].key) /\ posts[m].tail = u
      BY <1>1, <2>1, StepCurrent DEF SameTurn
    <3>2. home[u] = posts[m].key
      BY <2>1, <3>1 DEF Links, TurnsLinked, TurnLinked
    <3>3. ReadUp(m) \/ Pops(m)
      BY <1>1, <2>1, StepReadUp
    <3> QED
      BY <2>1, <3>1, <3>2, <3>3 DEF Seen
  <2>2. CASE m \in DOMAIN posts /\ Start(m)
    <3>1. PICK n \in NewNodes : n \notin Nodes /\ posts'[m].tail = n /\ reply' = reply
      BY <2>2, Starting
    <3>2. n \in DOMAIN reply
      BY <1>1, <3>1 DEF ReadUp
    <3> QED
      BY <3>1, <3>2 DEF Links, HistoryOk
  <2> QED
    BY <1>1, <2>1, <2>2, StepTurn
<1>2. ASSUME u \in shown' PROVE Seen(u) /\ ~Reset(home[u])
  <2>1. ASSUME NEW m, Shows(m), u \notin shown PROVE Seen(u)
    <3>1. Reading(m) /\ Current(m) /\ u = posts[m].tail
      BY <1>2, <2>1 DEF Shows
    <3>2. ASSUME posts[m].queue # <<>>, Head(posts[m].queue).type = "done" PROVE ReadUp(m)
      <4>0. m \in DOMAIN posts /\ posts[m] \in Posts
        BY <3>1 DEF Reading, Shape, PostsOk
      <4>a. posts[m].queue \in Seq(Signals)
        BY <4>0 DEF Posts, Queues
      <4>b. QueueOk(posts[m].tail, posts[m].queue)
        BY <3>1, <4>0 DEF Links, QueuesOk
      <4>1. posts[m].queue \in Seq(Signals) /\ QueueOk(posts[m].tail, posts[m].queue)
        BY <4>a, <4>b
      <4>2. 1 \in DOMAIN posts[m].queue /\ posts[m].queue[1].type = "done"
        BY <3>2, <4>1
      <4> QED
        BY <4>1, <4>2 DEF QueueOk, ReadUp
    <3>3. ReadUp(m)
      BY <2>1, <3>1, <3>2 DEF Shows
    <3> QED
      BY <3>1, <3>3 DEF Seen
  <2>2. Seen(u)
    BY <1>2, <2>1, StepShown DEF Seen
  <2>3. ~Reset(home[u])
    BY <1>2 DEF Reset
  <2> QED
    BY <2>2, <2>3
<1> QED
  BY <1>1, <1>2 DEF Seen

(* A run that ends leaves its session settled at its head.                 *)
LEMMA StepEnds ==
  ASSUME Shape, [Next]_vars, ~Restart, NEW u \in DOMAIN runs, u \notin DOMAIN runs'
  PROVE  Finish(u) \/ Fail(u)
<1>1. Aside => runs' = runs
  BY DEF Aside
<1>2. ASSUME NEW m \in DOMAIN posts, Start(m) \/ Pops(m) PROVE DOMAIN runs \subseteq DOMAIN runs'
  BY <1>2 DEF Start, Pops, With, memory
<1>3. ASSUME NEW v \in DOMAIN runs, Run(v) PROVE Finish(u) \/ Fail(u)
  <2>1. \/ DOMAIN runs' = DOMAIN runs
        \/ (Finish(v) \/ Fail(v)) /\ DOMAIN runs' = DOMAIN runs \ {v}
    BY <1>3, RunMoves
  <2> QED
    BY <2>1
<1> QED
  BY <1>1, <1>2, <1>3, StepSorts

LEMMA StepKept ==
  ASSUME Shape, ShownInv, [Next]_vars, ~Restart
  PROVE  KeptOk'
<1> SUFFICES ASSUME NEW u, u \in DOMAIN reply', u \notin DOMAIN runs', u \notin crowded', Main(u)', Counts(u)'
             PROVE  Remembered(home[u], reply[u])'
  BY DEF KeptOk
<1>1. Links /\ ReadingsOk /\ KeptOk
  BY DEF ShownInv
<1>2. Counts(u) /\ ~Reset(home[u])
  BY <1>1, StepCounts
<1>3. u \in Nodes /\ home'[u] = home[u] /\ Main(u)
  BY <1>1, <1>2, CountsNodes, Framed DEF Main
<1>4. u \notin crowded
  BY SeenStays
<1>5. u \in DOMAIN reply /\ reply'[u] = reply[u]
  BY StepReply
<1>6. PICK k, x : k = home[u] /\ x = reply[u] /\ k \in {Dm, Group}
  BY <1>3 DEF Main
<1> DEFINE Goal == Remembered(k, x)'
<1>7. ASSUME u \notin DOMAIN runs PROVE Goal
  <2>1. Remembered(k, x)
    BY <1>1, <1>2, <1>3, <1>4, <1>5, <1>6, <1>7 DEF KeptOk
  <2> QED
    BY <1>1, <1>2, <1>6, <2>1, StepRemembered
<1>8. ASSUME u \in DOMAIN runs PROVE Goal
  <2>1. RunLinked(u) /\ HistoryOk /\ runs[u].key \in DOMAIN store
    BY <1>1, <1>8 DEF Links, RunsLinked, Shape, MirrorsOk
  <2>2. Finish(u)
    <3>1. ~Fail(u)
      BY <1>5, <2>1 DEF Fail, RunLinked
    <3> QED
      BY <1>8, <3>1, StepEnds
  <2>3. /\ settled' = With(settled, k, x) /\ runs' = [v \in DOMAIN runs \ {u} |-> runs[v]]
        /\ path' = path /\ store' = store /\ k \in DOMAIN store
    BY <1>5, <1>6, <2>1, <2>2 DEF Finish, Leave, RunLinked, tree
  <2>4. x \in path[x]
    BY <1>5, <1>6, <2>1 DEF HistoryOk, Shape, TreeOk
  <2>5. \A v \in DOMAIN runs' : runs'[v].key # k
    BY <1>1, <1>4, <1>6, <1>8, <2>1, <2>3 DEF ReadingsOk, RunLinked
  <2>6. AttachTo(k)' = x
    BY <2>3 DEF AttachTo, With
  <2> QED
    BY <2>3, <2>4, <2>5, <2>6 DEF Remembered
<1> HIDE DEF Goal
<1>9. Goal
  BY <1>7, <1>8
<1> QED
  BY <1>3, <1>5, <1>6, <1>9 DEF Goal, Remembered

(* A turn that has read its reply and not been crossed: when anything else *)
(* of the session comes in its run is over, and what comes in hangs below  *)
(* the reply.                                                              *)
LEMMA OthersFollow ==
  ASSUME Shape, ShownInv, [Next]_vars, NEW u, Main(u), Seen(u), u \notin crossed, u \notin DOMAIN runs
  PROVE  Remembered(home[u], reply[u])
<1>1. u \in DOMAIN reply /\ u \notin crowded
  BY DEF ShownInv, StoredOk, Links, HistoryOk
<1>2. Counts(u)
  BY DEF Seen, Counts
<1> QED
  BY <1>1, <1>2 DEF ShownInv, KeptOk

LEMMA RunsAreBusy ==
  ASSUME Links, NEW u \in DOMAIN runs
  PROVE  u \in Busy(home[u])
<1>1. runs[u].key = home[u]
  BY DEF Links, RunsLinked, RunLinked
<1> QED
  BY <1>1 DEF Busy, Peers

LEMMA StepStoredCursor ==
  ASSUME Shape, ShownInv, [Next]_vars, ~Restart,
         NEW u, Main(u), Seen(u), u \notin crossed', NEW k, k = home[u], NEW x, x = reply[u], ~Reset(k)
  PROVE  k \in DOMAIN store' /\ x \in path'[store'[k]]
<1>0. /\ Links /\ k \in {Dm, Group} /\ u \notin crossed /\ Stored(k, x) /\ k.kind # "thread" /\ \A m : Thread(m) # k
  BY SeenStays DEF ShownInv, StoredOk, Main, Dm, Group, Thread
<1>1. \A n \in Nodes : path'[n] = path[n]
  BY Framed
<1>2. k \in DOMAIN store /\ store[k] \in Nodes /\ x \in path'[store[k]]
  BY <1>0, <1>1 DEF Stored, Shape, HoldsOk, Holds
<1> DEFINE Goal == k \in DOMAIN store' /\ x \in path'[store'[k]]
<1>3. ASSUME UNCHANGED store PROVE Goal
  BY <1>2, <1>3
<1>4. ASSUME NEW j, NEW n, store' = With(store, j, n), j = k => x \in path'[n] PROVE Goal
  BY <1>2, <1>4 DEF With
<1>5. ASSUME NEW m \in DOMAIN posts, Push(posts[m].key), posts[m].key = k, u \notin DOMAIN runs
      PROVE  x \in path'[Pushed(k)]
  <2>1. Remembered(k, x)
    BY <1>0, <1>5, OthersFollow
  <2>2. path[AttachTo(k)] \subseteq path'[Pushed(k)]
    BY <1>2, <1>5, PushExtends
  <2> QED
    BY <2>1, <2>2 DEF Remembered
<1> HIDE DEF Goal
<1>6. ASSUME NEW m \in DOMAIN posts, TakePassive(m) \/ Start(m) PROVE Goal
  <2>1. PICK j, n : j = posts[m].key /\ n = Pushed(j)
    OBVIOUS
  <2>2. Push(j) /\ store' = With(store, j, n)
    BY <1>6, <2>1 DEF TakePassive, Start
  <2>3. Busy(j) \subseteq crossed'
    BY <1>6, <2>1, Seeing DEF TakePassive
  <2>4. j = k => u \notin DOMAIN runs
    BY <1>0, <2>3, RunsAreBusy
  <2>5. j = k => x \in path'[n]
    BY <1>5, <2>1, <2>2, <2>4
  <2> QED
    BY <1>4, <2>2, <2>5
<1>7. ASSUME NEW m \in DOMAIN posts, TakeThread(m) PROVE Goal
  <2>1. PICK j : j = posts[m].key /\ j # k
    BY <1>0, <1>7 DEF TakeThread
  <2> QED
    BY <1>3, <1>4, <1>7, <2>1 DEF TakeThread
<1>8. ASSUME NEW m \in DOMAIN posts, Drain(m) PROVE Goal
  <2>1. PICK e, j : e = Head(posts[m].queue) /\ j = posts[m].key
    OBVIOUS
  <2>2. UNCHANGED store \/ (e.type = "final" /\ Current(m) /\ store' = With(store, j, e.tail))
    BY <1>8, <2>1 DEF Drain, Mirrored
  <2>3. posts[m].queue # <<>> /\ posts[m].queue \in Seq(Signals)
    <3>1. posts[m] \in Posts
      BY DEF Shape, PostsOk
    <3> QED
      BY <1>8, <3>1 DEF Drain, Posts, Queues
  <2>4. Current(m) => Pending(m, e)
    BY <2>1, <2>3 DEF Pending
  <2>5. e.type = "final" /\ Current(m) /\ j = k => x \in path[e.tail] /\ e.tail \in Nodes
    BY <1>0, <2>1, <2>4 DEF Stored, Shape, HoldsOk, Holds
  <2> QED
    BY <1>1, <1>3, <1>4, <2>2, <2>5
<1>9. ASSUME NEW m, TimeOut(m) \/ OpenThread(m) PROVE Goal
  BY <1>3, <1>9 DEF TimeOut, OpenThread
<1>10. ASSUME NEW m, PinThread(m) PROVE Goal
  <2>1. PICK j, n : j = Thread(m) /\ store' = With(store, j, n)
    BY <1>10 DEF PinThread
  <2> QED
    BY <1>0, <1>4, <2>1
<1>11. ASSUME NEW j \in Sessions, Reset(j) PROVE Goal
  <2>1. j # k /\ store' = With(store, j, Fresh)
    BY <1>11 DEF Reset
  <2> QED
    BY <1>4, <2>1
<1>12. ASSUME NEW j \in Sessions, Command(j) PROVE Goal
  <2>1. store' = With(store, j, Fresh + 1) /\ path[store[j]] \subseteq path'[Fresh + 1]
    BY <1>12, Commanding
  <2> QED
    BY <1>0, <1>4, <2>1 DEF Stored
<1>13. ASSUME NEW v, Run(v) PROVE Goal
  BY <1>3, <1>13 DEF Run, Answer, Finish, Fail
<1>14. ASSUME NEW j, NEW trigger, Say(j, trigger) PROVE Goal
  BY <1>3, <1>14 DEF Say
<1>15. ASSUME UNCHANGED vars PROVE Goal
  BY <1>3, <1>15 DEF vars
<1>16. Goal
  BY <1>6, <1>7, <1>8, <1>9, <1>10, <1>11, <1>12, <1>13, <1>14, <1>15 DEF Next, Turn
<1> QED
  BY <1>16 DEF Goal

LEMMA StepStoredPending ==
  ASSUME Shape, ShownInv, [Next]_vars, ~Restart,
         NEW u, Main(u), Seen(u), u \notin crossed', NEW k, k = home[u], NEW x, x = reply[u],
         NEW m, NEW e, Pending(m, e)', posts'[m].key = k, e.type = "final"
  PROVE  x \in path'[e.tail]
<1>1. Links /\ u \notin crossed /\ u \in DOMAIN reply /\ Stored(k, x)
  BY SeenStays DEF ShownInv, StoredOk
<1>2. m \in DOMAIN posts /\ posts[m].key = k
  BY StepPending
<1>3. CASE Pending(m, e)
  <2>1. x \in path[e.tail] /\ e.tail \in Nodes
    BY <1>1, <1>2, <1>3 DEF Stored, Shape, HoldsOk, Holds
  <2> QED
    BY <2>1, Framed
<1>4. ASSUME NEW v \in DOMAIN runs, runs[v].post = m, Sends(v, e) PROVE x \in path'[e.tail]
  <2>1. Answer(v) /\ e.tail = Fresh
    BY <1>4 DEF Sends
  <2>2. runs[v].key = k /\ runs[v].pc = "running" /\ RunLinked(v)
    BY <1>1, <1>2, <1>4, <2>1 DEF Shape, RunsOk, RunOk, Answer, Links, RunsLinked
  <2>3. u \notin DOMAIN runs
    <3>1. u # v
      BY <1>1, <2>2 DEF RunLinked
    <3>2. u \notin crowded
      BY <1>1 DEF Links, HistoryOk
    <3>3. u \in DOMAIN runs => runs[u].key = k
      BY <1>1 DEF Links, RunsLinked, RunLinked
    <3> QED
      BY <2>2, <3>1, <3>2, <3>3 DEF ShownInv, ReadingsOk
  <2>4. Remembered(k, x)
    BY <1>1, <2>3, OthersFollow
  <2>5. x \in path[runs[v].head] /\ path[runs[v].head] \subseteq path'[Fresh]
    BY <2>1, <2>2, <2>4, Answering DEF Remembered
  <2> QED
    BY <2>1, <2>5
<1> QED
  BY <1>3, <1>4, StepPending

(* The final event is read.                                                *)
LEMMA StepStoredNow ==
  ASSUME Shape, ShownInv, [Next]_vars, NEW m, Pops(m), Current(m),
         NEW u, u = posts[m].tail, u \notin crossed', NEW k, k = home[u], NEW x, x = reply[u]
  PROVE  u \in DOMAIN reply /\ Stored(k, x)'
<1>1. /\ Links /\ Reading(m) /\ TurnLinked(m) /\ posts[m].key = k /\ QueueOk(u, posts[m].queue)
      /\ m \in DOMAIN posts
  BY DEF ShownInv, Links, TurnsLinked, TurnLinked, QueuesOk, Pops, Reading
<1>2. PICK q \in Seq(Signals) : q = posts[m].queue /\ q # <<>> /\ q[1].type = "final" /\ Head(q) = q[1]
  BY DEF Pops
<1>3. u \in DOMAIN reply /\ q[1].tail = x
  <2>1. 1 \in DOMAIN q
    BY <1>2
  <2> QED
    BY <1>1, <1>2, <2>1 DEF QueueOk
<1>4. store' = With(store, k, x) /\ path' = path
  BY <1>1, <1>2, <1>3 DEF Pops, Mirrored, tree
<1>5. x \in path[x]
  BY <1>1, <1>3 DEF Links, HistoryOk, Shape, TreeOk
<1>6. ASSUME NEW i, NEW e, Pending(i, e)', posts'[i].key = k, e.type = "final" PROVE FALSE
  <2>1. i \in DOMAIN posts /\ posts'[i].key = posts[i].key
        /\ \E j \in DOMAIN posts'[i].queue : posts'[i].queue[j].type = "final"
    BY <1>6 DEF Pops, SameTurn, Pending
  <2>2. ASSUME i # m PROVE FALSE
    <3>1. posts'[i] = posts[i]
      BY <2>1, <2>2 DEF Pops
    <3>2. Reading(i)
      BY <2>1, <3>1 DEF Reading, Shape, PostsOk, PostOk
    <3>3. At(k, u) /\ At(k, posts[i].tail)
      BY <1>1, <1>6, <2>1, <3>2 DEF At
    <3>4. posts[i].tail # u
      BY <1>1, <2>2, <3>2 DEF TurnLinked
    <3>5. u \in Busy(k) /\ posts[i].tail \in Busy(k)
      BY <3>3, BusyIs
    <3>6. u \in crossed
      BY <3>4, <3>5 DEF ShownInv, ReadingsOk
    <3> QED
      BY <3>6 DEF Pops, readings
  <2>3. i = m
    BY <2>2
  <2>4. PICK j \in DOMAIN Tail(q) : Tail(q)[j].type = "final"
    BY <1>2, <2>1, <2>3 DEF Pops
  <2>5. j + 1 \in DOMAIN q /\ q[j + 1] = Tail(q)[j] /\ j + 1 # 1
    BY <1>2, <2>4
  <2> QED
    BY <1>1, <1>2, <2>4, <2>5 DEF QueueOk
<1> QED
  BY <1>3, <1>4, <1>5, <1>6 DEF Stored, With

(* What a restart leaves.                                                  *)
LEMMA RestartStored ==
  ASSUME Shape, ShownInv, Restart, NEW u, u \in shown', Main(u)'
  PROVE  /\ u \in DOMAIN reply' /\ Stored(home[u], reply[u])'
         /\ AttachTo(home[u])' = store'[home'[u]]
<1>1. /\ u \in shown /\ u \notin crossed /\ u \in DOMAIN reply /\ reply[u] \in alive'
      /\ UNCHANGED <<path, home, reply>>
      /\ store' = [k \in {j \in DOMAIN store : store[j] \in alive'} |-> store[k]]
      /\ settled' = <<>> /\ alive' \in {alive, {}}
  BY DEF Restart
<1>2. PICK k, x : k = home[u] /\ x = reply[u]
  OBVIOUS
<1>3. Stored(k, x)
  BY <1>1, <1>2 DEF ShownInv, StoredOk, Seen, Main
<1>4. k \in DOMAIN store /\ store[k] \in Nodes /\ x \in path[store[k]] /\ x \in alive /\ alive' = alive
  BY <1>1, <1>2, <1>3 DEF Stored, Shape, HoldsOk, Holds
<1>5. store[k] \in alive'
  BY <1>4 DEF ShownInv, AliveOk
<1>6. k \in DOMAIN store' /\ store'[k] = store[k]
  BY <1>1, <1>4, <1>5
<1>7. \A m, e : ~Pending(m, e)'
  BY DEF Restart, Gone, Pending
<1>8. Stored(k, x)'
  BY <1>1, <1>4, <1>6, <1>7 DEF Stored
<1>9. AttachTo(k)' = store'[k]
  BY <1>1, <1>6 DEF AttachTo, Cursor, Get
<1> QED
  BY <1>1, <1>2, <1>8, <1>9 DEF Stored, AttachTo, Cursor, Get

LEMMA StepStored == Shape /\ ShownInv /\ [Next]_vars => StoredOk'
<1> SUFFICES ASSUME Shape, ShownInv, [Next]_vars, NEW u, Main(u)', Seen(u)', u \notin crossed'
             PROVE  u \in DOMAIN reply' /\ Stored(home[u], reply[u])'
  BY DEF StoredOk
<1>1. CASE Restart
  <2>1. u \in shown'
    BY <1>1, RestartEmpties DEF Seen
  <2> QED
    BY <1>1, <2>1, RestartStored
<1>2. CASE ~Restart
  <2>0. Links
    BY DEF ShownInv
  <2>1. /\ Seen(u) \/ \E m : Pops(m) /\ Current(m) /\ posts[m].tail = u
        /\ ~Reset(home[u])
    BY <1>2, <2>0, StepSeenUp
  <2>2. u \in Nodes
    <3>1. Seen(u) => Counts(u)
      BY DEF Seen, Counts
    <3>2. \A m : Pops(m) => Reading(m)
      BY DEF Pops
    <3> QED
      BY <2>0, <2>1, <3>1, <3>2, CountsNodes DEF Links, TurnsLinked, TurnLinked
  <2>3. home'[u] = home[u] /\ Main(u) /\ u \notin crossed
    BY <1>2, <2>2, Framed, SeenStays DEF Main
  <2>4. PICK k, x : k = home[u] /\ x = reply[u]
    OBVIOUS
  <2>5. u \in DOMAIN reply
    BY <2>1, <2>3, <2>4, StepStoredNow DEF ShownInv, StoredOk
  <2>6. u \in DOMAIN reply' /\ reply'[u] = reply[u]
    <3>1. ASSUME NEW v \in DOMAIN runs, Answer(v) PROVE v # u
      BY <2>0, <2>5, <3>1 DEF Answer, Links, RunsLinked, RunLinked
    <3> QED
      BY <2>5, <3>1, StepReply
  <2>7. Stored(k, x)'
    <3>1. ASSUME Seen(u) PROVE Stored(k, x)'
      <4>1. k \in DOMAIN store' /\ x \in path'[store'[k]]
        BY <1>2, <2>1, <2>3, <2>4, <3>1, StepStoredCursor
      <4>2. ASSUME NEW m, NEW e, Pending(m, e)', posts'[m].key = k, e.type = "final" PROVE x \in path'[e.tail]
        BY <1>2, <2>3, <2>4, <3>1, <4>2, StepStoredPending
      <4> QED
        BY <4>1, <4>2 DEF Stored
    <3>2. ASSUME NEW m, Pops(m), Current(m), posts[m].tail = u PROVE Stored(k, x)'
      BY <2>4, <3>2, StepStoredNow
    <3> QED
      BY <2>1, <3>1, <3>2
  <2> QED
    BY <2>3, <2>4, <2>6, <2>7 DEF Stored
<1> QED
  BY <1>1, <1>2

LEMMA StepAliveOk == Shape /\ AliveOk /\ [Next]_vars => AliveOk'
<1> SUFFICES ASSUME Shape, AliveOk, [Next]_vars, NEW n \in 1..Len(path'), NEW a \in path'[n], a \in alive'
             PROVE  n \in alive'
  BY DEF AliveOk, Nodes
<1>1. CASE Restart
  BY <1>1 DEF Restart, AliveOk, Nodes
<1>2. CASE ~Restart
  <2>1. alive' = alive \union NewNodes /\ Len(path) \in Nat /\ TreeOk
    BY <1>2, StepAlive DEF Shape, TreeOk
  <2>2. CASE n \in Nodes
    <3>1. path'[n] = path[n] /\ a \in 1..n
      BY <2>1, <2>2, Framed DEF TreeOk
    <3>2. a \in alive
      BY <2>1, <2>2, <3>1 DEF NewNodes, Nodes, Fresh
    <3> QED
      BY <2>1, <2>2, <3>1, <3>2 DEF AliveOk
  <2>3. CASE n \notin Nodes
    <3>1. Len(path') \in Nat
      BY StepTree DEF Shape, TreeOk
    <3> QED
      BY <2>1, <2>3, <3>1 DEF NewNodes, Nodes, Fresh
  <2> QED
    BY <2>2, <2>3
<1> QED
  BY <1>1, <1>2

LEMMA StepShownInv == Shape /\ ShownInv /\ [Next]_vars => ShownInv'
<1> SUFFICES ASSUME Shape, ShownInv, [Next]_vars PROVE ShownInv'
  OBVIOUS
<1>1. Links' /\ ReadingsOk' /\ StoredOk' /\ AliveOk'
  BY StepLinks, StepReadings, StepStored, StepAliveOk DEF ShownInv
<1>2. CASE Restart
  <2>1. ASSUME NEW u, u \in DOMAIN reply', Main(u)', Counts(u)' PROVE Remembered(home[u], reply[u])'
    <3>1. u \in shown'
      BY <1>2, <2>1, RestartEmpties DEF Counts
    <3>2. Stored(home[u], reply[u])' /\ AttachTo(home[u])' = store'[home'[u]]
      BY <1>2, <2>1, <3>1, RestartStored
    <3> QED
      BY <1>2, <3>2, RestartEmpties DEF Stored, Remembered
  <2> QED
    BY <1>1, <2>1 DEF KeptOk, ShownInv
<1>3. CASE ~Restart
  BY <1>1, <1>3, StepKept DEF ShownInv
<1> QED
  BY <1>2, <1>3

(* A reply of which the channel was shown something is on the branch that  *)
(* the session's next message continues, once its run is over and unless   *)
(* another run of the session overlapped it: also when the turn timed out  *)
(* and posted what it had, while its run was at work or in its post-turn   *)
(* hooks, and after restarts if the turn read to the final event before    *)
(* anything else of the session came in (handle_turn, finish_run,          *)
(* CursorStore.reconcile).                                                 *)
THEOREM ShownStaysRemembered == Spec => []ShownIsRemembered
<1>1. Init => ShownInv
  <2> SUFFICES ASSUME Init PROVE ShownInv
    OBVIOUS
  <2>1. \A m : ~Reading(m)
    BY DEF Init, Reading
  <2>2. Links
    BY <2>1 DEF Init, Links, RunsLinked, TurnsLinked, QueuesOk, HistoryOk
  <2>3. \A k : Busy(k) = {}
    BY <2>1 DEF Init, Busy, Peers, Readers, Reading
  <2>4. ReadingsOk /\ KeptOk /\ AliveOk
    BY <2>3 DEF Init, ReadingsOk, KeptOk, AliveOk
  <2>5. StoredOk
    BY <2>1 DEF Init, StoredOk, Seen
  <2> QED
    BY <2>2, <2>4, <2>5 DEF ShownInv
<1>2. Shape /\ ShownInv => ShownIsRemembered
  <2> SUFFICES ASSUME Shape, ShownInv, NEW u \in shown, Written(u), u \notin DOMAIN runs \union crowded
               PROVE  Continued(u)
    BY DEF ShownIsRemembered
  <2>1. Remembered(home[u], reply[u])
    BY DEF ShownInv, KeptOk, Written, Main, Counts
  <2>2. AttachTo(home[u]) \in Nodes
    BY <2>1, Standing DEF Remembered
  <2> QED
    BY <2>1, <2>2 DEF Remembered, Continued, Path, Nodes
<1> QED
  BY <1>1, <1>2, ShapeHolds, StepShownInv, PTL DEF Spec
=============================================================================
