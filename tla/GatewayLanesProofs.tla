------------------------- MODULE GatewayLanesProofs -------------------------
(***************************************************************************)
(* A terminal's conversation is kept, and the terminal is answered, for    *)
(* any number of terminals, workers, nodes and faults.                     *)
(*                                                                         *)
(* Two facts carry the proof.  A branch is of one database: either all its *)
(* nodes are there or none is, so a terminal that falls back to the root   *)
(* leaves behind nothing that is still known.  And where a message         *)
(* attaches is below the node it was sent with (SettledOk), so the tail a  *)
(* terminal is told next is below what it has seen (StreamOk).             *)
(***************************************************************************)
EXTENDS GatewayLanes, SequenceTheorems, TLAPS

-----------------------------------------------------------------------------
(* Paths.                                                                  *)

PathIn(p, n) == IF n = 0 THEN {} ELSE p[n]

TreeOf(p) ==
  /\ p \in Seq(SUBSET Nat)
  /\ \A n \in 1..Len(p) : n \in p[n] /\ p[n] \subseteq 1..n
  /\ \A n \in 1..Len(p) : \A x \in p[n] : p[x] \subseteq p[n]
  /\ \A n \in 1..Len(p) : \A x, y \in p[n] : x \in p[y] \/ y \in p[x]

(* A branch is of one database.                                            *)
Tree(p, a) ==
  /\ TreeOf(p)
  /\ a \subseteq 1..Len(p)
  /\ \A n \in 1..Len(p) : \A x \in p[n] : x \in a <=> n \in a

Longer(p, q) == Len(p) <= Len(q) /\ \A n \in 1..Len(p) : q[n] = p[n]

(* A tree with one more leaf is a tree that holds the other as it was.     *)
LEMMA OneMoreNode ==
  ASSUME NEW p, TreeOf(p), NEW n \in 0..Len(p), NEW q,
         q = Append(p, PathIn(p, n) \union {Len(p) + 1})
  PROVE  /\ TreeOf(q) /\ Longer(p, q) /\ Len(q) = Len(p) + 1
         /\ q[Len(q)] = PathIn(p, n) \union {Len(q)}
<1> DEFINE new == Len(p) + 1
<1>1. p \in Seq(SUBSET Nat) /\ Len(p) \in Nat
  BY DEF TreeOf
<1>2. PathIn(p, n) \subseteq 1..Len(p) /\ PathIn(p, n) \subseteq Nat
  BY <1>1 DEF TreeOf, PathIn
<1>3. /\ q \in Seq(SUBSET Nat) /\ Len(q) = new /\ q[new] = PathIn(p, n) \union {new}
      /\ \A m \in 1..Len(p) : q[m] = p[m]
  BY <1>1, <1>2
<1>4. \A m \in 1..Len(q) : m \in 1..Len(p) \/ m = new
  BY <1>1, <1>3
<1>5. \A m \in 1..Len(q) : m \in q[m] /\ q[m] \subseteq 1..m
  BY <1>1, <1>2, <1>3, <1>4 DEF TreeOf
<1>6. \A x \in PathIn(p, n) : x \in 1..Len(p) /\ q[x] = p[x] /\ p[x] \subseteq PathIn(p, n)
  BY <1>1, <1>2, <1>3 DEF TreeOf, PathIn
<1>7. \A m \in 1..Len(q) : \A x \in q[m] : q[x] \subseteq q[m]
  <2> SUFFICES ASSUME NEW m \in 1..Len(q), NEW x \in q[m] PROVE q[x] \subseteq q[m]
    OBVIOUS
  <2>1. CASE m \in 1..Len(p)
    <3>1. x \in 1..Len(p)
      BY <1>1, <1>3, <2>1 DEF TreeOf
    <3> QED
      BY <1>3, <2>1, <3>1 DEF TreeOf
  <2>2. CASE m = new
    BY <1>3, <1>6, <2>2
  <2> QED
    BY <1>4, <2>1, <2>2
<1>8. \A m \in 1..Len(q) : \A x, y \in q[m] : x \in q[y] \/ y \in q[x]
  <2> SUFFICES ASSUME NEW m \in 1..Len(q), NEW x \in q[m], NEW y \in q[m]
               PROVE  x \in q[y] \/ y \in q[x]
    OBVIOUS
  <2>1. CASE m \in 1..Len(p)
    <3>1. x \in 1..Len(p) /\ y \in 1..Len(p)
      BY <1>1, <1>3, <2>1 DEF TreeOf
    <3> QED
      BY <1>3, <2>1, <3>1 DEF TreeOf
  <2>2. CASE m = new
    <3>1. CASE x = new \/ y = new
      BY <1>3, <2>2, <3>1
    <3>2. CASE x # new /\ y # new
      <4>1. x \in PathIn(p, n) /\ y \in PathIn(p, n)
        BY <1>3, <2>2, <3>2
      <4>2. n # 0 /\ x \in p[n] /\ y \in p[n] /\ n \in 1..Len(p)
        BY <4>1 DEF PathIn
      <4> QED
        BY <1>6, <4>1, <4>2 DEF TreeOf
    <3> QED
      BY <3>1, <3>2
  <2> QED
    BY <1>4, <2>1, <2>2
<1>9. TreeOf(q)
  BY <1>3, <1>5, <1>7, <1>8 DEF TreeOf
<1> QED
  BY <1>1, <1>3, <1>9 DEF Longer

(* The same, of the nodes that are known.                                  *)
LEMMA OneMoreLeaf ==
  ASSUME NEW p, NEW a, Tree(p, a), NEW n, n = 0 \/ n \in a, NEW q, NEW b,
         q = Append(p, PathIn(p, n) \union {Len(p) + 1}), b = a \union {Len(p) + 1}
  PROVE  /\ Tree(q, b) /\ Longer(p, q) /\ Len(q) = Len(p) + 1 /\ Len(p) \in Nat
         /\ q[Len(p) + 1] = PathIn(p, n) \union {Len(p) + 1}
<1>1. TreeOf(p) /\ a \subseteq 1..Len(p) /\ Len(p) \in Nat /\ n \in 0..Len(p)
  <2>1. TreeOf(p) /\ a \subseteq 1..Len(p) /\ Len(p) \in Nat
    BY DEF Tree, TreeOf
  <2>2. n = 0 \/ n \in 1..Len(p)
    BY <2>1
  <2> QED
    BY <2>1, <2>2
<1>2. TreeOf(q) /\ Longer(p, q) /\ Len(q) = Len(p) + 1 /\ q[Len(q)] = PathIn(p, n) \union {Len(q)}
  BY <1>1, OneMoreNode
<1>3. \A m \in 1..Len(q) : m \in 1..Len(p) \/ m = Len(p) + 1
  BY <1>1, <1>2
<1>4. b \subseteq 1..Len(q)
  <2>1. \A m \in b : m \in 1..Len(p) \/ m = Len(p) + 1
    BY <1>1
  <2>2. \A m \in 1..Len(p) : m \in 1..Len(p) + 1
    BY <1>1
  <2>3. Len(p) + 1 \in 1..Len(p) + 1
    BY <1>1
  <2>4. b \subseteq 1..Len(p) + 1
    BY <2>1, <2>2, <2>3
  <2> QED
    BY <1>2, <2>4
<1>5. ASSUME NEW m \in 1..Len(q), NEW x \in q[m] PROVE x \in b <=> m \in b
  <2>1. CASE m \in 1..Len(p)
    <3>1. q[m] = p[m] /\ p[m] \subseteq 1..Len(p)
      BY <1>1, <1>2, <2>1 DEF Longer, TreeOf
    <3>2. x \in a <=> m \in a
      BY <2>1, <3>1 DEF Tree
    <3>3. x # Len(p) + 1 /\ m # Len(p) + 1
      BY <1>1, <2>1, <3>1
    <3> QED
      BY <3>2, <3>3
  <2>2. CASE m = Len(p) + 1
    <3>1. x \in PathIn(p, n) \/ x = Len(p) + 1
      BY <1>2, <2>2
    <3>2. x \in PathIn(p, n) => x \in a
      BY <1>1 DEF PathIn, Tree
    <3> QED
      BY <2>2, <3>1, <3>2
  <2> QED
    BY <1>3, <2>1, <2>2
<1>6. Tree(q, b)
  BY <1>2, <1>4, <1>5 DEF Tree
<1> QED
  BY <1>1, <1>2, <1>6

Written == 1..Len(path)
TreeOk == Tree(path, alive)

(* Nodes are added, and none comes back.                                   *)
Writes ==
  /\ TreeOk /\ TreeOk' /\ Longer(path, path')
  /\ alive \subseteq alive' /\ \A n \in Written : n \in alive' => n \in alive

LEMMA SameNodes == ASSUME TreeOk, UNCHANGED <<path, alive>> PROVE Writes
BY DEF TreeOk, Tree, TreeOf, Longer, Writes

LEMMA Growing ==
  ASSUME TreeOk, NEW n, Known(n), Grow(n)
  PROVE  /\ Writes /\ Len(path') = Fresh /\ Fresh \in alive' /\ Fresh \notin Written /\ Fresh # 0
         /\ path'[Fresh] = Path(n) \union {Fresh}
<1>1. n = 0 \/ n \in alive
  BY DEF Known
<1>2. /\ path' = Append(path, PathIn(path, n) \union {Len(path) + 1})
      /\ alive' = alive \union {Len(path) + 1}
  BY DEF Grow, Child, Path, PathIn, Fresh
<1>3. /\ TreeOk' /\ Longer(path, path') /\ Len(path') = Len(path) + 1 /\ Len(path) \in Nat
      /\ path'[Len(path) + 1] = PathIn(path, n) \union {Len(path) + 1}
  BY <1>1, <1>2, OneMoreLeaf DEF TreeOk
<1>4. Len(path) + 1 \notin Written /\ Fresh = Len(path) + 1
  BY <1>3 DEF Written, Fresh
<1>5. Writes
  BY <1>2, <1>3, <1>4 DEF Writes
<1> QED
  BY <1>2, <1>3, <1>4, <1>5 DEF Path, PathIn

(* Two nodes, one below the other.                                         *)
LEMMA GrowingTwice ==
  ASSUME TreeOk, NEW n, Known(n),
         path' = Append(Append(path, Child(n)), Child(n) \union {Fresh + 1}), alive' = alive \union {Fresh, Fresh + 1}
  PROVE  /\ Writes /\ Len(path') = Fresh + 1 /\ Fresh + 1 \in alive' /\ {Fresh, Fresh + 1} \intersect Written = {}
         /\ path'[Fresh + 1] = Path(n) \union {Fresh, Fresh + 1}
<1>1. n = 0 \/ n \in alive
  BY DEF Known
<1>2. PICK q, b : /\ q = Append(path, PathIn(path, n) \union {Len(path) + 1})
                  /\ b = alive \union {Len(path) + 1}
  OBVIOUS
<1>3. /\ Tree(q, b) /\ Longer(path, q) /\ Len(q) = Len(path) + 1 /\ Len(path) \in Nat
      /\ q[Len(path) + 1] = PathIn(path, n) \union {Len(path) + 1}
  BY <1>1, <1>2, OneMoreLeaf DEF TreeOk
<1>4. Fresh = Len(path) + 1 /\ Fresh # 0 /\ PathIn(q, Fresh) = Child(n) /\ Child(n) = Path(n) \union {Fresh} /\ Fresh \in b
  BY <1>2, <1>3 DEF PathIn, Child, Path, Fresh
<1>5. path' = Append(q, PathIn(q, Fresh) \union {Len(q) + 1}) /\ alive' = b \union {Len(q) + 1}
  BY <1>2, <1>3, <1>4 DEF PathIn, Child, Path
<1>6. /\ Tree(path', alive') /\ Longer(q, path') /\ Len(path') = Len(q) + 1
      /\ path'[Len(q) + 1] = PathIn(q, Fresh) \union {Len(q) + 1}
  <2>1. PICK f, r, d : f = Fresh /\ r = path' /\ d = alive'
    OBVIOUS
  <2>2. f \in b /\ r = Append(q, PathIn(q, f) \union {Len(q) + 1}) /\ d = b \union {Len(q) + 1}
    BY <1>4, <1>5, <2>1
  <2>3. (f = 0 \/ f \in b) /\ Tree(q, b)
    BY <1>3, <2>2
  <2>4. /\ Tree(r, d) /\ Longer(q, r) /\ Len(r) = Len(q) + 1
        /\ r[Len(q) + 1] = PathIn(q, f) \union {Len(q) + 1}
    BY <2>2, <2>3, OneMoreLeaf
  <2> QED
    BY <2>1, <2>4
<1>7. Longer(path, path')
  BY <1>3, <1>6 DEF Longer
<1>8. Fresh \notin Written /\ Fresh + 1 \notin Written /\ Len(q) + 1 = Fresh + 1
  BY <1>3, <1>4 DEF Written
<1>9. Writes
  BY <1>6, <1>7, <1>8 DEF Writes, TreeOk
<1> QED
  BY <1>4, <1>6, <1>8, <1>9

-----------------------------------------------------------------------------
(* The invariant.                                                          *)

Place == Nat \union {NoNode}
Frames == [type : {"text_final", "error"}, tail : Nat] \union [type : {"done"}]
Streams == [queue : Seq(Frames), tail : Place, run : Place]
Requests == [node : Place, strict : BOOLEAN]
Turns == [key : Nat, pc : {"queued", "running", "post"}, head : Nat,
          aborted : BOOLEAN, unwanted : BOOLEAN]

TypesOk ==
  /\ pc \in [Clients -> {"off", "opening", "prompt", "waiting"}]
  /\ asked \in [Clients -> Requests]
  /\ cursor \in [Clients -> Place] /\ resume \in [Clients -> Place] /\ lane \in [Clients -> Place]
  /\ file \in Place
  /\ seen \in [Clients -> SUBSET Nat]
  /\ stream \in [Clients -> Streams]
  /\ \A k \in DOMAIN settled : k \in Nat /\ settled[k] \in Nat
  /\ \A u \in DOMAIN runs : u \in Nat /\ runs[u] \in Turns

Under(n, m) == Path(n) \subseteq Path(m)

(* Where a key's next message attaches is below the key.                   *)
SettledOk ==
  \A k \in DOMAIN settled : Known(k) /\ Known(settled[k]) /\ Under(k, settled[k])

RunsOk ==
  \A u \in DOMAIN runs :
    u \in alive /\ runs[u].head \in alive /\ Known(runs[u].key) /\ Under(runs[u].key, runs[u].head)

(* The nodes a terminal holds were written, in this database or another.   *)
Places == {NoNode} \union Written
PlacesOk(c) ==
  /\ {asked[c].node, resume[c], cursor[c], lane[c]} \subseteq Places
  /\ seen[c] \subseteq Written
  /\ pc[c] = "opening" => asked[c].node \in Written
  /\ pc[c] \in {"prompt", "waiting"} \/ asked[c].strict => cursor[c] \in Written

(* Where a terminal stands is below its lane and what it has seen.         *)
Branch(n) == IF n \in Written THEN path[n] ELSE {}
LaneIn(c, n) == lane[c] \in alive => lane[c] \in Branch(n)
SeenIn(c, n) == seen[c] \intersect alive \subseteq Branch(n)
StandsOk(c) ==
  /\ LaneIn(c, cursor[c])
  /\ pc[c] # "waiting" => SeenIn(c, cursor[c])
  /\ pc[c] = "waiting" => LaneIn(c, stream[c].tail) /\ SeenIn(c, stream[c].tail)

(* The tails a stream still carries are below the one it gave last.        *)
TailsOk(s) ==
  /\ s.tail \in alive /\ s.run \in Written
  /\ \A i \in DOMAIN s.queue : s.queue[i].type # "done" =>
       i = 1 /\ s.queue[i].tail \in alive /\ Under(s.tail, s.queue[i].tail)

(* It ends when its run has, and has nothing to tell before it answers.    *)
EndsOk(s) ==
  /\ s.run \in DOMAIN runs =>
       /\ \A i \in DOMAIN s.queue : s.queue[i].type # "done"
       /\ runs[s.run].pc # "post" => s.queue = <<>> /\ Under(s.tail, runs[s.run].head)
  /\ s.run \notin DOMAIN runs => \E i \in DOMAIN s.queue : s.queue[i].type = "done"

StreamOk(c) ==
  /\ pc[c] # "waiting" => stream[c] = NoStream
  /\ pc[c] = "waiting" => TailsOk(stream[c]) /\ EndsOk(stream[c])

Inv ==
  /\ TreeOk /\ TypesOk /\ SettledOk /\ RunsOk /\ file \in Places
  /\ \A c \in Clients : PlacesOk(c) /\ StandsOk(c) /\ StreamOk(c)

-----------------------------------------------------------------------------
(* What writing leaves as it was.                                          *)

LEMMA Numbers ==
  ASSUME TreeOk
  PROVE  /\ Len(path) \in Nat /\ Fresh \in Nat /\ Fresh + 1 \in Nat /\ alive \subseteq Written /\ Written \subseteq Nat
         /\ 0 \notin Written /\ NoNode \notin Nat /\ NoNode \notin Written
         /\ \A n \in Written : n \in path[n]
BY LanesAssumption DEF TreeOk, Tree, TreeOf, Written, Fresh

LEMMA WritesKeep ==
  ASSUME Writes
  PROVE  /\ \A n \in Written : n \in Written' /\ path'[n] = path[n]
         /\ \A n \in Written : n \in alive <=> n \in alive'
         /\ \A n \in Places : n \in Places' /\ Branch(n)' = Branch(n)
         /\ \A n : Known(n) => Known(n)' /\ Path(n)' = Path(n)
         /\ NoNode \notin alive'
<1>1. TreeOk /\ TreeOk' /\ Longer(path, path') /\ alive \subseteq alive'
      /\ \A n \in Written : n \in alive' => n \in alive
  BY DEF Writes
<1>2. /\ alive \subseteq Written /\ 0 \notin Written /\ NoNode \notin Written
      /\ Len(path) \in Nat
  BY <1>1, Numbers
<1>3. Len(path') \in Nat /\ NoNode \notin Written' /\ NoNode \notin alive'
  <2>1. PICK p, a : p = path' /\ a = alive'
    OBVIOUS
  <2>2. TreeOf(p) /\ a \subseteq 1..Len(p)
    BY <1>1, <2>1 DEF TreeOk, Tree
  <2>3. Len(p) \in Nat
    BY <2>2 DEF TreeOf
  <2>4. NoNode \notin 1..Len(p)
    BY <2>3, LanesAssumption
  <2> QED
    BY <2>1, <2>2, <2>3, <2>4 DEF Written
<1>4. \A n \in Written : n \in Written' /\ path'[n] = path[n]
  BY <1>1, <1>2, <1>3 DEF Longer, Written
<1>5. \A n \in Places : n \in Places' /\ Branch(n)' = Branch(n)
  BY <1>2, <1>3, <1>4 DEF Places, Branch
<1>6. \A n : Known(n) => Known(n)' /\ Path(n)' = Path(n)
  BY <1>1, <1>2, <1>4 DEF Known, Path
<1> QED
  BY <1>1, <1>3, <1>4, <1>5, <1>6

LEMMA SettledKept ==
  ASSUME Writes, SettledOk, UNCHANGED settled PROVE SettledOk'
BY WritesKeep DEF SettledOk, Under

LEMMA RunsKept ==
  ASSUME Writes, RunsOk, UNCHANGED runs PROVE RunsOk'
<1>1. \A n : Known(n) => Known(n)' /\ Path(n)' = Path(n)
  BY WritesKeep
<1>2. \A n \in alive : n \in alive' /\ Known(n)
  BY DEF Writes, Known
<1> QED
  BY <1>1, <1>2 DEF RunsOk, Under

(* A terminal that did nothing stands where it stood.                      *)
Idle(c) ==
  /\ pc'[c] = pc[c] /\ asked'[c] = asked[c] /\ cursor'[c] = cursor[c]
  /\ resume'[c] = resume[c] /\ lane'[c] = lane[c] /\ seen'[c] = seen[c]

LEMMA PlacesKept ==
  ASSUME Writes, NEW c, PlacesOk(c), Idle(c) PROVE PlacesOk(c)'
BY WritesKeep DEF PlacesOk, Idle

LEMMA StandsKept ==
  ASSUME Writes, NEW c, PlacesOk(c), StandsOk(c), Idle(c),
         pc[c] = "waiting" => stream'[c].tail = stream[c].tail /\ stream[c].tail \in alive
  PROVE  StandsOk(c)'
<1>1. TreeOk
  BY DEF Writes
<1>2. /\ alive \subseteq Written /\ NoNode \notin Written
  BY <1>1, Numbers
<1>3. lane[c] \in Places /\ cursor[c] \in Places /\ seen[c] \subseteq Written
  BY DEF PlacesOk
<1>4. lane[c] \in alive' => lane[c] \in alive
  BY <1>3, WritesKeep DEF Places
<1>5. seen[c] \intersect alive' \subseteq seen[c] \intersect alive
  BY <1>3, WritesKeep
<1>6. \A n \in Places : (LaneIn(c, n) => LaneIn(c, n)') /\ (SeenIn(c, n) => SeenIn(c, n)')
  BY <1>4, <1>5, WritesKeep DEF LaneIn, SeenIn, Idle
<1>7. PICK n, t : n = cursor[c] /\ t = stream[c].tail
  OBVIOUS
<1>8. n \in Places /\ cursor'[c] = n /\ (pc[c] = "waiting" => t \in Places /\ stream'[c].tail = t)
  BY <1>2, <1>3, <1>7 DEF Idle, Places
<1>9. LaneIn(c, n)' /\ (pc[c] # "waiting" => SeenIn(c, n)')
      /\ (pc[c] = "waiting" => LaneIn(c, t)' /\ SeenIn(c, t)')
  BY <1>6, <1>7, <1>8 DEF StandsOk
<1> QED
  BY <1>8, <1>9 DEF StandsOk, Idle

(* A stream nothing is said to, with its run where it was.                 *)
LEMMA TailsKept ==
  ASSUME Writes, NEW s, TailsOk(s) PROVE TailsOk(s)'
<1>1. \A n \in alive : n \in alive' /\ Known(n)
  BY DEF Writes, Known
<1> QED
  BY <1>1, WritesKeep DEF TailsOk, Under

SameRun(u) ==
  /\ u \in DOMAIN runs <=> u \in DOMAIN runs'
  /\ u \in DOMAIN runs => /\ runs[u].pc = "post" <=> runs'[u].pc = "post"
                          /\ runs'[u].head = runs[u].head /\ runs[u].head \in alive

LEMMA StreamKept ==
  ASSUME Writes, NEW c, StreamOk(c), pc'[c] = pc[c], stream'[c] = stream[c],
         pc[c] = "waiting" => SameRun(stream[c].run)
  PROVE  StreamOk(c)'
<1>1. PICK s, p : s = stream[c] /\ p = pc[c]
  OBVIOUS
<1>2. stream'[c] = s /\ pc'[c] = p
  BY <1>1
<1>3. ASSUME p = "waiting" PROVE TailsOk(s)' /\ EndsOk(s)'
  <2>1. TailsOk(s) /\ EndsOk(s) /\ SameRun(s.run)
    BY <1>1, <1>3 DEF StreamOk
  <2>2. TailsOk(s)'
    BY <2>1, TailsKept
  <2>3. ASSUME s.run \in DOMAIN runs, runs[s.run].pc # "post"
        PROVE  Under(s.tail, runs[s.run].head)'
    <3>1. PICK h : h = runs[s.run].head
      OBVIOUS
    <3>2. runs'[s.run].head = h /\ Known(h) /\ Known(s.tail) /\ Under(s.tail, h)
      BY <2>1, <2>3, <3>1 DEF SameRun, EndsOk, TailsOk, Known
    <3> QED
      BY <3>2, WritesKeep DEF Under
  <2>4. EndsOk(s)'
    BY <2>1, <2>3 DEF EndsOk, SameRun
  <2> QED
    BY <2>2, <2>4
<1> QED
  BY <1>1, <1>2, <1>3 DEF StreamOk, NoStream

-----------------------------------------------------------------------------
(* How a step that only writes nodes is checked.                           *)

(* A step of one terminal.                                                 *)
LEMMA ClientStep ==
  ASSUME Inv, Writes, TypesOk', SettledOk', RunsOk', file' \in Places', NEW c \in Clients,
         \A d \in Clients : d # c => Idle(d) /\ stream'[d] = stream[d],
         \A u \in Written : SameRun(u),
         PlacesOk(c)', StandsOk(c)', StreamOk(c)'
  PROVE  Inv'
<1>1. ASSUME NEW d \in Clients, d # c PROVE PlacesOk(d)' /\ StandsOk(d)' /\ StreamOk(d)'
  <2>1. PlacesOk(d) /\ StandsOk(d) /\ StreamOk(d) /\ Idle(d) /\ stream'[d] = stream[d]
    BY <1>1 DEF Inv
  <2>2. pc[d] = "waiting" => stream[d].tail \in alive /\ stream[d].run \in Written
    BY <2>1 DEF StreamOk, TailsOk
  <2>3. pc'[d] = pc[d]
    BY <2>1 DEF Idle
  <2>4. StreamOk(d)'
    BY <2>1, <2>2, <2>3, StreamKept
  <2>5. StandsOk(d)'
    BY <2>1, <2>2, StandsKept
  <2> QED
    BY <2>1, <2>4, <2>5, PlacesKept
<1>2. TreeOk'
  BY DEF Writes
<1>3. \A d \in Clients : PlacesOk(d)' /\ StandsOk(d)' /\ StreamOk(d)'
  BY <1>1
<1> QED
  BY <1>2, <1>3 DEF Inv

(* A step of a run.                                                        *)
LEMMA RunStep ==
  ASSUME Inv, Writes, TypesOk', SettledOk', RunsOk',
         UNCHANGED <<pc, asked, cursor, resume, file, lane, seen>>,
         \A d \in Clients : stream'[d].tail = stream[d].tail /\ StreamOk(d)'
  PROVE  Inv'
<1>1. ASSUME NEW d \in Clients PROVE PlacesOk(d)' /\ StandsOk(d)'
  <2>1. PlacesOk(d) /\ StandsOk(d) /\ StreamOk(d) /\ Idle(d)
    BY DEF Inv, Idle
  <2>2. pc[d] = "waiting" => stream[d].tail \in alive
    BY <2>1 DEF StreamOk, TailsOk
  <2>3. StandsOk(d)'
    BY <2>1, <2>2, StandsKept
  <2> QED
    BY <2>1, <2>3, PlacesKept
<1>2. TreeOk' /\ file' \in Places'
  BY WritesKeep DEF Writes, Inv
<1> QED
  BY <1>1, <1>2 DEF Inv

LEMMA RunsTheSame ==
  ASSUME Inv, UNCHANGED runs PROVE \A u : SameRun(u)
BY DEF Inv, RunsOk, SameRun

(* Where a terminal's next nodes go, what it stands on goes with them.     *)
LEMMA Fallback ==
  ASSUME TreeOk, NEW c, PlacesOk(c), NEW S, S \subseteq alive, S \subseteq Branch(cursor[c])
  PROVE  Known(Base(c)) /\ S \subseteq Path(Base(c))
<1>1. alive \subseteq Written /\ 0 \notin Written /\ NoNode \notin Nat
  BY Numbers
<1>2. cursor[c] \in Places
  BY DEF PlacesOk
<1>3. CASE cursor[c] \in alive
  BY <1>1, <1>3 DEF Base, Known, Path, Branch
<1>4. CASE cursor[c] \notin alive
  <2>1. S = {}
    <3>1. CASE cursor[c] \in Written
      <4>1. \A x \in path[cursor[c]] : x \notin alive
        BY <1>4, <3>1 DEF TreeOk, Tree, Written
      <4> QED
        BY <3>1, <4>1 DEF Branch
    <3>2. CASE cursor[c] \notin Written
      BY <3>2 DEF Branch
    <3> QED
      BY <3>1, <3>2
  <2>2. cursor[c] # 0
    BY <1>1, <1>2 DEF Places
  <2>3. Base(c) = 0
    BY <1>4, <2>2 DEF Base, Known
  <2> QED
    BY <2>1, <2>3 DEF Known
<1> QED
  BY <1>3, <1>4

-----------------------------------------------------------------------------
(* Opening a lane.                                                         *)

(* The one node a step adds, off the root or elsewhere.                    *)
LEMMA FreshNode ==
  ASSUME TreeOk, NEW n, Known(n), Grow(n), NEW f, f = Fresh
  PROVE  /\ Writes /\ f \in Nat /\ f \in Written' /\ f \in alive' /\ f \in Places'
         /\ f \notin Written /\ f \notin alive
         /\ Branch(f)' = Path(n) \union {f} /\ Path(f)' = Path(n) \union {f}
<1>1. /\ Writes /\ Len(path') = Fresh /\ Fresh \in alive' /\ Fresh \notin Written /\ Fresh # 0
      /\ path'[Fresh] = Path(n) \union {Fresh}
  BY Growing
<1>2. Fresh \in Nat /\ alive \subseteq Written
  BY Numbers
<1>3. f \in 1..Len(path')
  BY <1>1, <1>2
<1>4. f \in Written' /\ f \in Places' /\ Branch(f)' = path'[f] /\ Path(f)' = path'[f]
  BY <1>1, <1>3 DEF Written, Places, Branch, Path
<1> QED
  BY <1>1, <1>2, <1>4

(* Asking to open a lane moves nothing the terminal stands on.             *)
Asks(c) ==
  /\ pc[c] \in {"off", "prompt"} /\ pc' = [pc EXCEPT ![c] = "opening"]
  /\ asked' = [asked EXCEPT ![c] = asked'[c]] /\ asked'[c] \in Requests
  /\ UNCHANGED <<settled, runs, faults, cursor, file, stream, lane, seen>>

LEMMA Asking ==
  ASSUME Inv, NEW c \in Clients, Writes, Asks(c),
         resume' = [resume EXCEPT ![c] = resume'[c]], resume'[c] \in Places,
         asked'[c].node \in Written', asked'[c].strict => cursor[c] \in Written
  PROVE  Inv'
<1>1. TypesOk /\ SettledOk /\ RunsOk /\ file \in Places /\ PlacesOk(c) /\ StandsOk(c) /\ StreamOk(c)
  BY DEF Inv
<1>2. resume'[c] \in Place /\ pc'[c] = "opening" /\ stream'[c] = stream[c]
  BY <1>1, Numbers DEF Places, Place, Inv, Asks, TypesOk
<1>3. TypesOk'
  BY <1>1, <1>2 DEF TypesOk, Asks
<1>4. SettledOk' /\ RunsOk' /\ file' \in Places'
  BY <1>1, SettledKept, RunsKept, WritesKeep DEF Asks
<1>5. \A d \in Clients : d # c => Idle(d) /\ stream'[d] = stream[d]
  BY <1>1 DEF Asks, Idle, TypesOk
<1>6. \A u \in Written : SameRun(u)
  BY RunsTheSame DEF Asks
<1>7. PlacesOk(c)'
  <2>1. /\ {resume'[c], cursor'[c], lane'[c]} \subseteq Places' /\ seen'[c] \subseteq Written'
        /\ (cursor[c] \in Written => cursor'[c] \in Written')
    BY <1>1, WritesKeep DEF PlacesOk, Asks
  <2>2. asked'[c].node \in Places'
    BY DEF Places
  <2> QED
    BY <1>2, <2>1, <2>2 DEF PlacesOk
<1>8. StandsOk(c)'
  <2>1. cursor[c] \in Places /\ lane[c] \in Places /\ seen[c] \subseteq Written
        /\ LaneIn(c, cursor[c]) /\ SeenIn(c, cursor[c])
    BY <1>1 DEF PlacesOk, StandsOk, Asks
  <2>2. PICK n : n = cursor[c]
    OBVIOUS
  <2>3. Branch(n)' = Branch(n) /\ (lane[c] \in alive' => lane[c] \in alive)
        /\ seen[c] \intersect alive' \subseteq seen[c] \intersect alive
    BY <2>1, <2>2, WritesKeep DEF Places
  <2>4. LaneIn(c, n)' /\ SeenIn(c, n)'
    BY <2>1, <2>2, <2>3 DEF LaneIn, SeenIn, Asks
  <2> QED
    BY <1>2, <2>2, <2>4 DEF StandsOk, Asks
<1>9. StreamOk(c)'
  BY <1>1, <1>2 DEF StreamOk, Asks, NoStream
<1> QED
  BY <1>3, <1>4, <1>5, <1>6, <1>7, <1>8, <1>9, ClientStep

LEMMA AskingFresh ==
  ASSUME Inv, NEW c \in Clients, AskFresh(c)
  PROVE  /\ Writes /\ asked' = [asked EXCEPT ![c] = asked'[c]] /\ asked'[c] \in Requests
         /\ asked'[c].node \in Written' /\ asked'[c].strict = FALSE
<1>1. PICK f : f = Fresh
  OBVIOUS
<1>2. TreeOk /\ Known(0) /\ Grow(0) /\ TypesOk
  BY DEF AskFresh, Known, Inv
<1>3. Writes /\ f \in Nat /\ f \in Written'
  BY <1>1, <1>2, FreshNode
<1>4. PICK r : r = [node |-> f, strict |-> FALSE]
  OBVIOUS
<1>5. r \in Requests /\ r.node = f /\ r.strict = FALSE
  BY <1>3, <1>4 DEF Requests, Place
<1>6. asked' = [asked EXCEPT ![c] = r]
  BY <1>1, <1>4 DEF AskFresh
<1>7. asked'[c] = r
  BY <1>2, <1>6 DEF TypesOk
<1> QED
  BY <1>3, <1>5, <1>6, <1>7

LEMMA AskingKnown ==
  ASSUME Inv, NEW c \in Clients, NEW n \in Written, NEW strict \in BOOLEAN, AskKnown(c, n, strict)
  PROVE  /\ Writes /\ asked' = [asked EXCEPT ![c] = asked'[c]] /\ asked'[c] \in Requests
         /\ asked'[c].node \in Written' /\ asked'[c].strict = strict
<1>1. TreeOk /\ TypesOk
  BY DEF Inv
<1>2. Writes /\ n \in Nat
  BY <1>1, SameNodes, Numbers DEF AskKnown
<1>3. n \in Written'
  BY <1>2, WritesKeep
<1>4. PICK r : r = [node |-> n, strict |-> strict]
  OBVIOUS
<1>5. r \in Requests /\ r.node = n /\ r.strict = strict
  BY <1>2, <1>4 DEF Requests, Place
<1>6. asked' = [asked EXCEPT ![c] = r]
  BY <1>4 DEF AskKnown
<1>7. asked'[c] = r
  BY <1>1, <1>6 DEF TypesOk
<1> QED
  BY <1>2, <1>3, <1>5, <1>6, <1>7

LEMMA LaunchKeeps == ASSUME Inv, NEW c \in Clients, Launch(c) PROVE Inv'
<1>1. TypesOk /\ file \in Places
  BY DEF Inv
<1>2. resume' = [resume EXCEPT ![c] = resume'[c]] /\ resume'[c] = file
  BY <1>1 DEF Launch, TypesOk
<1>3. /\ Writes /\ asked' = [asked EXCEPT ![c] = asked'[c]] /\ asked'[c] \in Requests
      /\ asked'[c].node \in Written' /\ asked'[c].strict = FALSE
  <2>1. CASE DefaultToResume /\ file # NoNode
    <3>1. file \in Written /\ AskKnown(c, file, FALSE)
      BY <1>1, <2>1 DEF Launch, Places
    <3> QED
      BY <3>1, AskingKnown
  <2>2. CASE ~(DefaultToResume /\ file # NoNode)
    BY <2>2, AskingFresh DEF Launch
  <2> QED
    BY <2>1, <2>2
<1>4. Asks(c)
  BY <1>3 DEF Asks, Launch
<1> QED
  BY <1>1, <1>2, <1>3, <1>4, Asking

LEMMA ResetKeeps == ASSUME Inv, NEW c \in Clients, Reset(c) PROVE Inv'
<1>1. TypesOk /\ PlacesOk(c)
  BY DEF Inv
<1>2. resume' = [resume EXCEPT ![c] = resume'[c]] /\ resume'[c] \in Places
  BY <1>1 DEF Reset, TypesOk, PlacesOk
<1>3. /\ Writes /\ asked' = [asked EXCEPT ![c] = asked'[c]] /\ asked'[c] \in Requests
      /\ asked'[c].node \in Written' /\ asked'[c].strict = FALSE
  BY AskingFresh DEF Reset
<1>4. Asks(c)
  BY <1>3 DEF Asks, Reset
<1> QED
  BY <1>2, <1>3, <1>4, Asking

LEMMA ResumeKeeps == ASSUME Inv, NEW c \in Clients, Resume(c) PROVE Inv'
<1>1. TypesOk /\ PlacesOk(c) /\ TreeOk /\ pc[c] = "prompt"
  BY DEF Inv, Resume
<1>2. resume' = [resume EXCEPT ![c] = resume'[c]] /\ resume'[c] \in Places /\ cursor[c] \in Written
  BY <1>1 DEF Resume, TypesOk, PlacesOk
<1>3. PICK n \in Written : AskKnown(c, n, FALSE) \/ AskKnown(c, n, TRUE)
  <2>1. resume[c] # NoNode => resume[c] \in Written
    BY <1>1 DEF PlacesOk, Places
  <2>2. Typed \intersect Nodes \subseteq Written
    <3>1. \A n \in Typed : n \in Nat /\ n > 0
      BY LanesAssumption
    <3> QED
      BY <1>1, <3>1, Numbers DEF Nodes, Written
  <2> QED
    BY <2>1, <2>2 DEF Resume
<1>4. /\ Writes /\ asked' = [asked EXCEPT ![c] = asked'[c]] /\ asked'[c] \in Requests
      /\ asked'[c].node \in Written'
  <2>1. CASE AskKnown(c, n, FALSE)
    BY <2>1, AskingKnown
  <2>2. CASE AskKnown(c, n, TRUE)
    BY <2>2, AskingKnown
  <2> QED
    BY <1>3, <2>1, <2>2
<1>5. Asks(c)
  BY <1>4 DEF Asks, Resume
<1> QED
  BY <1>2, <1>4, <1>5, Asking

LEMMA NoRequestIsOne == NoRequest \in Requests /\ NoRequest.node = NoNode /\ ~NoRequest.strict
BY DEF NoRequest, Requests, Place

(* The lane is open, or refused; either way the prompt is back.            *)
Opened(c) ==
  /\ pc[c] = "opening" /\ pc' = [pc EXCEPT ![c] = "prompt"]
  /\ asked' = [asked EXCEPT ![c] = NoRequest]
  /\ UNCHANGED <<settled, runs, faults, resume, stream>>

LEMMA Entering ==
  ASSUME Inv, NEW c \in Clients, Writes, Opened(c), NEW n, n \in Nat, n \in Written', n \in Branch(n)', Enter(c, n)
  PROVE  Inv'
<1>1. TypesOk /\ SettledOk /\ RunsOk /\ PlacesOk(c) /\ StreamOk(c)
  BY DEF Inv
<1>2. /\ pc[c] = "opening" /\ pc'[c] = "prompt" /\ asked'[c] = NoRequest /\ cursor'[c] = n /\ lane'[c] = n
      /\ seen'[c] = {} /\ resume'[c] = resume[c] /\ stream'[c] = stream[c] /\ file' = n
  BY <1>1 DEF Opened, Enter, TypesOk
<1>3. TypesOk'
  <2>1. n \in Place
    BY DEF Place
  <2> QED
    BY <1>1, <2>1, NoRequestIsOne DEF TypesOk, Opened, Enter
<1>4. SettledOk' /\ RunsOk'
  BY <1>1, SettledKept, RunsKept DEF Opened
<1>5. \A d \in Clients : d # c => Idle(d) /\ stream'[d] = stream[d]
  BY <1>1 DEF Opened, Enter, Idle, TypesOk
<1>6. \A u \in Written : SameRun(u)
  BY RunsTheSame DEF Opened
<1>7. n \in Places' /\ NoNode \in Places' /\ resume'[c] \in Places'
  BY <1>1, <1>2, WritesKeep DEF PlacesOk, Places
<1>8. PlacesOk(c)'
  BY <1>2, <1>7, NoRequestIsOne DEF PlacesOk
<1>9. StandsOk(c)'
  BY <1>2 DEF StandsOk, LaneIn, SeenIn
<1>10. StreamOk(c)'
  BY <1>1, <1>2 DEF StreamOk, NoStream
<1> QED
  BY <1>2, <1>3, <1>4, <1>5, <1>6, <1>7, <1>8, <1>9, <1>10, ClientStep

LEMMA Refusing ==
  ASSUME Inv, NEW c \in Clients, Writes, Opened(c), asked[c].strict, UNCHANGED <<cursor, file, lane, seen>>
  PROVE  Inv'
<1>1. TypesOk /\ SettledOk /\ RunsOk /\ PlacesOk(c) /\ StandsOk(c) /\ StreamOk(c) /\ file \in Places
  BY DEF Inv
<1>2. /\ pc[c] = "opening" /\ pc'[c] = "prompt" /\ asked'[c] = NoRequest
      /\ resume'[c] = resume[c] /\ stream'[c] = stream[c]
  BY <1>1 DEF Opened, TypesOk
<1>3. TypesOk'
  BY <1>1, NoRequestIsOne DEF TypesOk, Opened
<1>4. SettledOk' /\ RunsOk' /\ file' \in Places'
  BY <1>1, SettledKept, RunsKept, WritesKeep DEF Opened
<1>5. \A d \in Clients : d # c => Idle(d) /\ stream'[d] = stream[d]
  BY <1>1 DEF Opened, Idle, TypesOk
<1>6. \A u \in Written : SameRun(u)
  BY RunsTheSame DEF Opened
<1>7. PlacesOk(c)'
  <2>1. /\ {resume[c], cursor[c], lane[c]} \subseteq Places /\ seen[c] \subseteq Written /\ cursor[c] \in Written
    BY <1>1 DEF PlacesOk
  <2>2. /\ {resume'[c], cursor'[c], lane'[c]} \subseteq Places' /\ seen'[c] \subseteq Written'
        /\ cursor'[c] \in Written' /\ NoNode \in Places'
    BY <1>2, <2>1, WritesKeep DEF Places
  <2> QED
    BY <1>2, <2>2, NoRequestIsOne DEF PlacesOk
<1>8. StandsOk(c)'
  <2>1. cursor[c] \in Places /\ lane[c] \in Places /\ seen[c] \subseteq Written
        /\ LaneIn(c, cursor[c]) /\ SeenIn(c, cursor[c])
    BY <1>1, <1>2 DEF PlacesOk, StandsOk
  <2>2. PICK n : n = cursor[c]
    OBVIOUS
  <2>3. Branch(n)' = Branch(n) /\ (lane[c] \in alive' => lane[c] \in alive)
        /\ seen[c] \intersect alive' \subseteq seen[c] \intersect alive
    BY <2>1, <2>2, WritesKeep DEF Places
  <2>4. LaneIn(c, n)' /\ SeenIn(c, n)'
    BY <2>1, <2>2, <2>3 DEF LaneIn, SeenIn
  <2> QED
    BY <1>2, <2>2, <2>4 DEF StandsOk
<1>9. StreamOk(c)'
  BY <1>1, <1>2 DEF StreamOk, NoStream
<1> QED
  BY <1>3, <1>4, <1>5, <1>6, <1>7, <1>8, <1>9, ClientStep

LEMMA OpenKeeps == ASSUME Inv, NEW c \in Clients, Open(c) PROVE Inv'
<1>1. Opened(c) /\ TreeOk /\ PlacesOk(c)
  BY DEF Open, Opened, Inv
<1>2. CASE Known(asked[c].node) /\ Enter(c, asked[c].node) /\ UNCHANGED <<path, alive>>
  <2>1. PICK n : n = asked[c].node
    OBVIOUS
  <2>2. Writes
    BY <1>1, <1>2, SameNodes
  <2>3. n \in Written /\ n \in Nat /\ n \in path[n]
    BY <1>1, <2>1, Numbers DEF PlacesOk, Opened
  <2>4. n \in Written' /\ n \in Branch(n)'
    BY <2>2, <2>3, WritesKeep DEF Branch
  <2> QED
    BY <1>1, <1>2, <2>1, <2>2, <2>3, <2>4, Entering
<1>3. CASE /\ Grow(0)
           /\ IF asked[c].strict THEN UNCHANGED <<cursor, file, lane, seen>> ELSE Enter(c, Fresh)
  <2>1. PICK f : f = Fresh
    OBVIOUS
  <2>2. Writes /\ f \in Nat /\ f \in Written' /\ f \in Branch(f)'
    <3>1. Known(0)
      BY DEF Known
    <3> QED
      BY <1>1, <1>3, <2>1, <3>1, FreshNode
  <2>3. CASE asked[c].strict
    BY <1>1, <1>3, <2>2, <2>3, Refusing
  <2>4. CASE ~asked[c].strict
    <3>1. Enter(c, f)
      BY <1>3, <2>1, <2>4
    <3> QED
      BY <1>1, <2>2, <3>1, Entering
  <2> QED
    BY <2>3, <2>4
<1> QED
  BY <1>2, <1>3 DEF Open

-----------------------------------------------------------------------------
(* A terminal at its prompt.                                               *)

(* A terminal moves where what it stands on goes along.                    *)
LEMMA MovesOn ==
  ASSUME Writes, NEW c, PlacesOk(c), NEW n,
         lane'[c] = lane[c], lane[c] \in alive => lane[c] \in Branch(n)',
         NEW more, seen'[c] = seen[c] \union more, seen[c] \intersect alive \subseteq Branch(n)',
         more \subseteq Branch(n)'
  PROVE  LaneIn(c, n)' /\ SeenIn(c, n)'
<1>1. lane[c] \in Places /\ seen[c] \subseteq Written
  BY DEF PlacesOk
<1>2. (lane[c] \in alive' => lane[c] \in alive) /\ seen[c] \intersect alive' \subseteq seen[c] \intersect alive
  BY <1>1, WritesKeep DEF Places
<1> QED
  BY <1>2 DEF LaneIn, SeenIn

LEMMA CommandKeeps == ASSUME Inv, NEW c \in Clients, Command(c) PROVE Inv'
<1>1. TreeOk /\ TypesOk /\ SettledOk /\ RunsOk /\ PlacesOk(c) /\ StandsOk(c) /\ StreamOk(c) /\ file \in Places
  BY DEF Inv
<1>2. PICK f, n : f = Fresh /\ n = Fresh + 1
  OBVIOUS
<1>3. /\ path' = Append(Append(path, Child(Base(c))), Child(Base(c)) \union {Fresh + 1})
      /\ alive' = alive \union {Fresh, Fresh + 1}
      /\ cursor' = [cursor EXCEPT ![c] = n]
      /\ seen' = [seen EXCEPT ![c] = @ \union {f, n}]
      /\ UNCHANGED <<settled, runs, faults, pc, asked, resume, file, stream, lane>>
      /\ pc[c] = "prompt"
  BY <1>2 DEF Command
<1>4. /\ cursor'[c] = n /\ seen'[c] = seen[c] \union {f, n}
  BY <1>1, <1>3 DEF TypesOk
<1>5. PICK S : S = (seen[c] \union {lane[c]}) \intersect alive
  OBVIOUS
<1>6. Known(Base(c)) /\ S \subseteq Path(Base(c))
  <2>1. S \subseteq alive /\ S \subseteq Branch(cursor[c])
    BY <1>1, <1>3, <1>5 DEF StandsOk, LaneIn, SeenIn
  <2> QED
    BY <1>1, <2>1, Fallback
<1>7. /\ Writes /\ Len(path') = n /\ n \in alive'
      /\ path'[n] = Path(Base(c)) \union {f, n}
  BY <1>1, <1>2, <1>3, <1>6, GrowingTwice
<1>8. f \in Nat /\ n \in Nat /\ f \in 1..n /\ n \in 1..n
  BY <1>1, <1>2, Numbers DEF Fresh
<1>9. n \in Written' /\ f \in Written' /\ Branch(n)' = path'[n] /\ n \in Places'
  BY <1>7, <1>8 DEF Written, Branch, Places
<1>10. TypesOk'
  BY <1>1, <1>3, <1>8 DEF TypesOk, Place
<1>11. SettledOk' /\ RunsOk' /\ file' \in Places'
  BY <1>1, <1>3, <1>7, SettledKept, RunsKept, WritesKeep
<1>12. \A d \in Clients : d # c => Idle(d) /\ stream'[d] = stream[d]
  BY <1>1, <1>3 DEF Idle, TypesOk
<1>13. \A u \in Written : SameRun(u)
  BY <1>3, RunsTheSame
<1>14. PlacesOk(c)'
  <2>1. /\ {asked'[c].node, resume'[c], lane'[c]} \subseteq Places' /\ seen[c] \subseteq Written'
    BY <1>1, <1>3, <1>7, WritesKeep DEF PlacesOk
  <2>2. seen'[c] \subseteq Written'
    BY <1>4, <1>9, <2>1
  <2> QED
    BY <1>3, <1>4, <1>9, <2>1, <2>2 DEF PlacesOk
<1>15. StandsOk(c)'
  <2>1. /\ lane'[c] = lane[c] /\ (lane[c] \in alive => lane[c] \in Branch(n)')
        /\ seen[c] \intersect alive \subseteq Branch(n)' /\ {f, n} \subseteq Branch(n)'
    BY <1>3, <1>5, <1>6, <1>7, <1>9
  <2>2. LaneIn(c, n)' /\ SeenIn(c, n)'
    BY <1>1, <1>4, <1>7, <2>1, MovesOn
  <2> QED
    BY <1>3, <1>4, <2>2 DEF StandsOk
<1>16. StreamOk(c)'
  BY <1>1, <1>3 DEF StreamOk, NoStream
<1> QED
  BY <1>7, <1>10, <1>11, <1>12, <1>13, <1>14, <1>15, <1>16, ClientStep

LEMMA AttachingBelow ==
  ASSUME SettledOk, NEW n, Known(n)
  PROVE  Known(AttachTo(Key(n), n)) /\ Under(n, AttachTo(Key(n), n))
BY DEF SettledOk, AttachTo, Key, Under

LEMMA SettlingBelow ==
  ASSUME Writes, SettledOk, NEW k, NEW n, Known(k), Known(n), Under(k, n), Settle(k, n)
  PROVE  SettledOk'
<1>1. \A m : Known(m) => Known(m)' /\ Path(m)' = Path(m)
  BY WritesKeep
<1>2. \A j \in DOMAIN settled' : \/ j = k /\ settled'[j] = n
                                 \/ j \in DOMAIN settled /\ settled'[j] = settled[j]
  BY DEF Settle
<1>3. ASSUME NEW j \in DOMAIN settled' PROVE (Known(j) /\ Known(settled[j]) /\ Under(j, settled[j]))'
  <2>1. PICK m : m = settled'[j]
    OBVIOUS
  <2>2. Known(j) /\ Known(m) /\ Under(j, m)
    BY <1>2, <2>1 DEF SettledOk
  <2>3. Known(j)' /\ Known(m)' /\ Under(j, m)'
    BY <1>1, <2>2 DEF Under
  <2> QED
    BY <2>1, <2>3 DEF Known, Under, Path
<1> QED
  BY <1>3 DEF SettledOk

LEMMA SendKeeps == ASSUME Inv, NEW c \in Clients, Send(c) PROVE Inv'
<1>1. TreeOk /\ TypesOk /\ SettledOk /\ RunsOk /\ PlacesOk(c) /\ StandsOk(c) /\ file \in Places
  BY DEF Inv
<1>2. PICK f, n, at : f = Fresh /\ n = Base(c) /\ at = AttachTo(Key(n), n)
  OBVIOUS
<1>3. PICK r : r = [key |-> n, pc |-> "queued", head |-> f, aborted |-> FALSE, unwanted |-> FALSE]
  OBVIOUS
<1>4. PICK z : z = [queue |-> <<>>, tail |-> f, run |-> f]
  OBVIOUS
<1>5. /\ Grow(at) /\ Settle(n, at) /\ pc[c] = "prompt"
      /\ runs' = [u \in DOMAIN runs \union {f} |-> IF u \in DOMAIN runs THEN runs[u] ELSE r]
      /\ stream' = [stream EXCEPT ![c] = z] /\ pc' = [pc EXCEPT ![c] = "waiting"]
      /\ UNCHANGED <<faults, asked, cursor, resume, file, lane, seen>>
  BY <1>2, <1>3, <1>4 DEF Send, Key
<1>6. PICK S : S = (seen[c] \union {lane[c]}) \intersect alive
  OBVIOUS
<1>7. Known(n) /\ S \subseteq Path(n)
  <2>1. S \subseteq alive /\ S \subseteq Branch(cursor[c])
    BY <1>1, <1>5, <1>6 DEF StandsOk, LaneIn, SeenIn
  <2> QED
    BY <1>1, <1>2, <2>1, Fallback
<1>8. Known(at) /\ Under(n, at)
  BY <1>1, <1>2, <1>7, AttachingBelow
<1>9. /\ Writes /\ f \in Nat /\ f \in Written' /\ f \in alive' /\ f \notin Written /\ f \notin alive
      /\ Branch(f)' = Path(at) \union {f} /\ Path(f)' = Path(at) \union {f}
  BY <1>1, <1>2, <1>5, <1>8, FreshNode
<1>10. n \in Nat /\ at \in Nat
  <2>1. \A m : Known(m) => m \in Nat
    BY <1>1, Numbers DEF Known
  <2> QED
    BY <1>7, <1>8, <2>1
<1>11. r \in Turns /\ r.key = n /\ r.head = f /\ r.pc = "queued"
  BY <1>3, <1>9, <1>10 DEF Turns
<1>12. z \in Streams /\ z.queue = <<>> /\ z.tail = f /\ z.run = f
  BY <1>4, <1>9 DEF Streams, Place
<1>13. /\ f \notin DOMAIN runs /\ f \in DOMAIN runs' /\ runs'[f] = r
       /\ \A u \in DOMAIN runs : u \in DOMAIN runs' /\ runs'[u] = runs[u]
       /\ \A u \in DOMAIN runs' : u = f \/ u \in DOMAIN runs
  BY <1>1, <1>5, <1>9 DEF RunsOk
<1>14. pc'[c] = "waiting" /\ stream'[c] = z
  BY <1>1, <1>5 DEF TypesOk
<1>15. TypesOk'
  <2>1. \A k \in DOMAIN settled' : k \in Nat /\ settled'[k] \in Nat
    BY <1>1, <1>5, <1>10 DEF Settle, TypesOk
  <2>2. \A u \in DOMAIN runs' : u \in Nat /\ runs'[u] \in Turns
    BY <1>1, <1>9, <1>11, <1>13 DEF TypesOk
  <2> QED
    BY <1>1, <1>5, <1>12, <2>1, <2>2 DEF TypesOk
<1>16. SettledOk'
  BY <1>1, <1>5, <1>7, <1>8, <1>9, SettlingBelow
<1>17. RunsOk'
  <2>1. ASSUME NEW u \in DOMAIN runs'
        PROVE  u \in alive' /\ runs'[u].head \in alive' /\ Known(runs[u].key)' /\ Under(runs[u].key, runs[u].head)'
    <3>1. PICK k, h : k = runs'[u].key /\ h = runs'[u].head
      OBVIOUS
    <3>2. u \in alive' /\ h \in alive' /\ Known(k)' /\ Under(k, h)'
      <4>1. CASE u = f
        <5>1. k = n /\ h = f
          BY <1>11, <1>13, <3>1, <4>1
        <5>2. Known(n)' /\ Under(n, f)'
          BY <1>7, <1>8, <1>9, WritesKeep DEF Under
        <5> QED
          BY <1>9, <4>1, <5>1, <5>2
      <4>2. CASE u \in DOMAIN runs
        <5>1. u \in alive /\ h \in alive /\ Known(h) /\ Known(k) /\ Under(k, h)
          BY <1>1, <1>13, <3>1, <4>2 DEF RunsOk, Known
        <5> QED
          BY <1>9, <5>1, WritesKeep DEF Under, Writes
      <4> QED
        BY <1>13, <4>1, <4>2
    <3> QED
      BY <3>1, <3>2 DEF Known, Under, Path
  <2> QED
    BY <2>1 DEF RunsOk
<1>18. file' \in Places'
  BY <1>1, <1>5, <1>9, WritesKeep
<1>19. \A d \in Clients : d # c => Idle(d) /\ stream'[d] = stream[d]
  BY <1>1, <1>5 DEF Idle, TypesOk
<1>20. \A u \in Written : SameRun(u)
  BY <1>1, <1>9, <1>13 DEF SameRun, RunsOk
<1>21. PlacesOk(c)'
  <2>1. /\ {asked[c].node, resume[c], cursor[c], lane[c]} \subseteq Places'
        /\ seen[c] \subseteq Written' /\ cursor[c] \in Written'
    BY <1>1, <1>5, <1>9, WritesKeep DEF PlacesOk
  <2> QED
    BY <1>5, <1>14, <2>1 DEF PlacesOk
<1>22. StandsOk(c)'
  <2>1. PICK x : x = cursor[c]
    OBVIOUS
  <2>2. LaneIn(c, x)'
    <3>1. LaneIn(c, x) /\ x \in Places /\ lane[c] \in Places
      BY <1>1, <2>1 DEF StandsOk, PlacesOk
    <3> QED
      BY <1>5, <1>9, <3>1, WritesKeep DEF LaneIn, Places
  <2>3. LaneIn(c, f)' /\ SeenIn(c, f)'
    <3>1. /\ lane'[c] = lane[c] /\ (lane[c] \in alive => lane[c] \in Branch(f)')
          /\ seen'[c] = seen[c] \union {} /\ seen[c] \intersect alive \subseteq Branch(f)'
      BY <1>5, <1>6, <1>7, <1>8, <1>9 DEF Under
    <3> QED
      BY <1>1, <1>9, <3>1, MovesOn
  <2> QED
    BY <1>5, <1>12, <1>14, <2>1, <2>2, <2>3 DEF StandsOk
<1>23. StreamOk(c)'
  <2>1. TailsOk(z)'
    BY <1>9, <1>12 DEF TailsOk
  <2>2. EndsOk(z)'
    <3>1. Under(f, runs[f].head)'
      BY <1>11, <1>13 DEF Under
    <3> QED
      BY <1>12, <1>13, <3>1 DEF EndsOk
  <2> QED
    BY <1>14, <2>1, <2>2 DEF StreamOk
<1> QED
  BY <1>9, <1>15, <1>16, <1>17, <1>18, <1>19, <1>20, <1>21, <1>22, <1>23, ClientStep

-----------------------------------------------------------------------------
(* A terminal that waits.                                                  *)

LEMMA NoStreamIsOne == NoStream \in Streams
<1>1. <<>> \in Seq(Frames)
  OBVIOUS
<1> QED
  BY <1>1 DEF NoStream, Streams, Place

(* A terminal stops reading, and is at its prompt at a node it knows.      *)
LEMMA StopsReading ==
  ASSUME Inv, NEW c \in Clients, UNCHANGED <<path, alive, settled, runs, asked, resume, lane>>,
         pc[c] = "waiting", pc' = [pc EXCEPT ![c] = "prompt"], stream' = [stream EXCEPT ![c] = NoStream],
         NEW n \in Written, cursor' = [cursor EXCEPT ![c] = n], LaneIn(c, n), file' \in Places,
         NEW S, seen' = [seen EXCEPT ![c] = S], S \subseteq Written, S \intersect alive \subseteq Branch(n)
  PROVE  Inv'
<1>1. TreeOk /\ TypesOk /\ SettledOk /\ RunsOk /\ PlacesOk(c)
  BY DEF Inv
<1>2. Writes
  BY <1>1, SameNodes
<1>3. pc'[c] = "prompt" /\ cursor'[c] = n /\ seen'[c] = S /\ stream'[c] = NoStream
  BY <1>1 DEF TypesOk
<1>4. TypesOk'
  <2>1. S \subseteq Nat /\ file' \in Place /\ n \in Place
    BY <1>1, Numbers DEF Places, Place
  <2> QED
    BY <1>1, <2>1, NoStreamIsOne DEF TypesOk
<1>5. SettledOk' /\ RunsOk' /\ file' \in Places'
  BY <1>1, <1>2, SettledKept, RunsKept DEF Places, Written
<1>6. \A d \in Clients : d # c => Idle(d) /\ stream'[d] = stream[d]
  BY <1>1 DEF Idle, TypesOk
<1>7. \A u \in Written : SameRun(u)
  BY RunsTheSame
<1>8. PlacesOk(c)'
  BY <1>1, <1>3 DEF PlacesOk, Places, Written
<1>9. StandsOk(c)'
  <2>1. LaneIn(c, n)' /\ SeenIn(c, n)'
    BY <1>3 DEF LaneIn, SeenIn, Branch, Written
  <2> QED
    BY <1>3, <2>1 DEF StandsOk
<1>10. StreamOk(c)'
  BY <1>3 DEF StreamOk, NoStream
<1> QED
  BY <1>2, <1>4, <1>5, <1>6, <1>7, <1>8, <1>9, <1>10, ClientStep

(* A terminal reads on, from where it stood.                               *)
LEMMA ReadsOn ==
  ASSUME Inv, NEW c \in Clients,
         UNCHANGED <<path, alive, settled, runs, pc, asked, cursor, resume, file, lane>>,
         pc[c] = "waiting", NEW z \in Streams, stream' = [stream EXCEPT ![c] = z], TailsOk(z), EndsOk(z),
         NEW S, seen' = [seen EXCEPT ![c] = S], S \subseteq Written,
         LaneIn(c, z.tail), S \intersect alive \subseteq Branch(z.tail)
  PROVE  Inv'
<1>1. TreeOk /\ TypesOk /\ SettledOk /\ RunsOk /\ PlacesOk(c) /\ StandsOk(c) /\ file \in Places
  BY DEF Inv
<1>2. Writes
  BY <1>1, SameNodes
<1>3. pc'[c] = "waiting" /\ seen'[c] = S /\ stream'[c] = z
  BY <1>1 DEF TypesOk
<1>4. TypesOk'
  <2>1. S \subseteq Nat
    BY <1>1, Numbers
  <2> QED
    BY <1>1, <2>1 DEF TypesOk
<1>5. SettledOk' /\ RunsOk' /\ file' \in Places'
  BY <1>1, <1>2, SettledKept, RunsKept, WritesKeep
<1>6. \A d \in Clients : d # c => Idle(d) /\ stream'[d] = stream[d]
  BY <1>1 DEF Idle, TypesOk
<1>7. \A u \in Written : SameRun(u)
  BY RunsTheSame
<1>8. PlacesOk(c)'
  BY <1>1, <1>3 DEF PlacesOk, Places, Written
<1>9. StandsOk(c)'
  <2>1. PICK n, t : n = cursor[c] /\ t = z.tail
    OBVIOUS
  <2>2. LaneIn(c, n)' /\ LaneIn(c, t)' /\ SeenIn(c, t)'
    BY <1>1, <1>3, <2>1 DEF LaneIn, SeenIn, Branch, Written, StandsOk
  <2> QED
    BY <1>3, <2>1, <2>2 DEF StandsOk
<1>10. StreamOk(c)'
  <2>1. TailsOk(z)'
    BY <1>2, TailsKept
  <2>2. EndsOk(z)'
    BY DEF EndsOk, Under, Path
  <2> QED
    BY <1>3, <2>1, <2>2 DEF StreamOk
<1> QED
  BY <1>2, <1>4, <1>5, <1>6, <1>7, <1>8, <1>9, <1>10, ClientStep

LEMMA CutKeeps == ASSUME Inv, NEW c \in Clients, Cut(c) PROVE Inv'
<1>1. TreeOk /\ TypesOk /\ PlacesOk(c) /\ StandsOk(c) /\ file \in Places /\ pc[c] = "waiting"
  BY DEF Inv, Cut
<1>2. PICK n, S : n = cursor[c] /\ S = seen[c] \intersect Path(cursor[c])
  OBVIOUS
<1>3. n \in Written /\ n \in Places /\ n \in Place /\ 0 \notin Written
  BY <1>1, <1>2, Numbers DEF PlacesOk, TypesOk, Places
<1>4. S \subseteq Written /\ S \subseteq Branch(n)
  BY <1>1, <1>2, <1>3 DEF PlacesOk, Branch, Path
<1>5. cursor' = [cursor EXCEPT ![c] = n] /\ LaneIn(c, n)
  BY <1>1, <1>2 DEF Cut, StandsOk, TypesOk
<1>6. /\ pc' = [pc EXCEPT ![c] = "prompt"] /\ stream' = [stream EXCEPT ![c] = NoStream]
      /\ seen' = [seen EXCEPT ![c] = S] /\ UNCHANGED <<path, alive, settled, runs, asked, resume, file, lane>>
  BY <1>2 DEF Cut
<1> QED
  BY <1>1, <1>3, <1>4, <1>5, <1>6, StopsReading

LEMMA DeliverKeeps == ASSUME Inv, NEW c \in Clients, Deliver(c) PROVE Inv'
<1>1. /\ TreeOk /\ TypesOk /\ PlacesOk(c) /\ StandsOk(c) /\ StreamOk(c) /\ file \in Places
      /\ pc[c] = "waiting" /\ stream[c].queue # <<>>
  BY DEF Inv, Deliver
<1>2. PICK s, q, e, t : s = stream[c] /\ q = s.queue /\ e = Head(q) /\ t = s.tail
  OBVIOUS
<1>3. /\ s \in Streams /\ q \in Seq(Frames) /\ q # <<>> /\ TailsOk(s) /\ EndsOk(s)
      /\ LaneIn(c, t) /\ SeenIn(c, t)
  BY <1>1, <1>2 DEF TypesOk, Streams, StreamOk, StandsOk
<1>4. 1 \in DOMAIN q /\ e = q[1] /\ e \in Frames
  BY <1>2, <1>3
<1>5. t \in alive /\ t \in Written /\ t \in Nat /\ alive \subseteq Written /\ 0 \notin Written
      /\ \A n \in Written : n \in path[n]
  BY <1>1, <1>2, <1>3, Numbers DEF TailsOk
<1>6. CASE /\ e.type # "done"
           /\ stream' = [stream EXCEPT ![c].queue = Tail(@), ![c].tail = e.tail]
           /\ seen' = [seen EXCEPT ![c] = @ \union {e.tail}]
           /\ UNCHANGED <<pc, cursor, file>>
  <2>1. PICK x, z, S : /\ x = e.tail /\ z = [s EXCEPT !.queue = Tail(q), !.tail = x]
                       /\ S = seen[c] \union {x}
    OBVIOUS
  <2>2. x \in alive /\ Under(t, x)
    BY <1>2, <1>3, <1>4, <1>6, <2>1 DEF TailsOk
  <2>3. x \in Written /\ x \in Nat /\ Branch(x) = Path(x) /\ Branch(t) = Path(t) /\ x \in Path(x)
    BY <1>1, <1>5, <2>2, Numbers DEF Branch, Path
  <2>4. Tail(q) \in Seq(Frames) /\ Len(Tail(q)) = Len(q) - 1 /\ \A i \in DOMAIN Tail(q) : i + 1 \in DOMAIN q /\ Tail(q)[i] = q[i + 1]
    BY <1>3
  <2>5. z.queue = Tail(q) /\ z.tail = x /\ z.run = s.run /\ z \in Streams
    BY <1>3, <2>1, <2>3, <2>4 DEF Streams, Place
  <2>6. stream' = [stream EXCEPT ![c] = z]
    BY <1>1, <1>2, <1>6, <2>1 DEF TypesOk
  <2>7. ASSUME NEW i \in DOMAIN z.queue PROVE z.queue[i].type = "done" /\ z.queue[i] = q[i + 1] /\ i + 1 \in DOMAIN q
    <3>1. i \in DOMAIN Tail(q) /\ i \in Nat /\ i + 1 # 1 /\ z.queue[i] = q[i + 1] /\ i + 1 \in DOMAIN q
      BY <1>3, <2>4, <2>5
    <3>2. q[i + 1].type = "done"
      BY <1>2, <1>3, <3>1 DEF TailsOk
    <3> QED
      BY <3>1, <3>2
  <2>8. TailsOk(z)
    BY <1>2, <1>3, <2>2, <2>5, <2>7 DEF TailsOk
  <2>9. EndsOk(z)
    <3>1. s.run \in DOMAIN runs => runs[s.run].pc = "post" /\ \A i \in DOMAIN q : q[i].type # "done"
      BY <1>2, <1>3 DEF EndsOk
    <3>2. ASSUME s.run \notin DOMAIN runs PROVE \E i \in DOMAIN z.queue : z.queue[i].type = "done"
      <4>1. PICK i \in DOMAIN q : q[i].type = "done"
        BY <1>2, <1>3, <3>2 DEF EndsOk
      <4>2. i \in 1..Len(q) /\ i # 1
        BY <1>3, <1>4, <1>6, <4>1
      <4>3. i - 1 \in DOMAIN Tail(q) /\ (i - 1) + 1 = i
        BY <1>3, <2>4, <4>2
      <4> QED
        BY <2>4, <2>5, <4>1, <4>3
    <3> QED
      BY <2>5, <2>7, <3>1, <3>2 DEF EndsOk
  <2>10. LaneIn(c, x) /\ S \intersect alive \subseteq Branch(x) /\ S \subseteq Written
    BY <1>1, <1>3, <2>1, <2>2, <2>3 DEF LaneIn, SeenIn, Under, PlacesOk
  <2>11. seen' = [seen EXCEPT ![c] = S]
    BY <1>1, <1>6, <2>1 DEF TypesOk
  <2>12. UNCHANGED <<path, alive, settled, runs, pc, asked, cursor, resume, file, lane>>
    BY <1>6 DEF Deliver, daemon
  <2>13. LaneIn(c, z.tail) /\ S \intersect alive \subseteq Branch(z.tail)
    BY <2>5, <2>10
  <2> QED
    BY <1>1, <2>5, <2>6, <2>8, <2>9, <2>10, <2>11, <2>12, <2>13, ReadsOn
<1>7. CASE /\ e.type = "done"
           /\ cursor' = [cursor EXCEPT ![c] = stream[c].tail]
           /\ file' = stream[c].tail
           /\ stream' = [stream EXCEPT ![c] = NoStream]
           /\ pc' = [pc EXCEPT ![c] = "prompt"]
           /\ UNCHANGED seen
  <2>1. PICK S : S = seen[c]
    OBVIOUS
  <2>2. seen' = [seen EXCEPT ![c] = S] /\ S \subseteq Written /\ S \intersect alive \subseteq Branch(t)
    BY <1>1, <1>3, <1>7, <2>1 DEF TypesOk, PlacesOk, SeenIn
  <2>3. t \in Places
    BY <1>5 DEF Places
  <2>4. UNCHANGED <<path, alive, settled, runs, asked, resume, lane>> /\ file' = t /\ cursor' = [cursor EXCEPT ![c] = t]
    BY <1>2, <1>7 DEF Deliver, daemon
  <2> QED
    BY <1>1, <1>3, <1>5, <1>7, <2>2, <2>3, <2>4, StopsReading
<1> QED
  BY <1>2, <1>6, <1>7 DEF Deliver

LEMMA ExitKeeps == ASSUME Inv, NEW c \in Clients, Exit(c) PROVE Inv'
<1>1. TreeOk /\ TypesOk /\ SettledOk /\ RunsOk /\ PlacesOk(c) /\ file \in Places
  BY DEF Inv
<1>2. Writes /\ NoNode \notin alive
  BY <1>1, SameNodes, Numbers DEF Exit
<1>3. /\ pc'[c] = "off" /\ asked'[c] = NoRequest /\ cursor'[c] = NoNode /\ resume'[c] = NoNode
      /\ stream'[c] = NoStream /\ lane'[c] = NoNode /\ seen'[c] = {}
  BY <1>1 DEF TypesOk, Exit
<1>4. TypesOk'
  <2>1. NoNode \in Place /\ {} \in SUBSET Nat
    BY DEF Place
  <2> QED
    BY <1>1, <2>1, NoRequestIsOne, NoStreamIsOne DEF TypesOk, Exit
<1>5. SettledOk' /\ RunsOk' /\ file' \in Places'
  BY <1>1, <1>2, SettledKept, RunsKept, WritesKeep DEF Exit
<1>6. \A d \in Clients : d # c => Idle(d) /\ stream'[d] = stream[d]
  BY <1>1 DEF Idle, TypesOk, Exit
<1>7. \A u \in Written : SameRun(u)
  BY RunsTheSame DEF Exit
<1>8. PlacesOk(c)'
  BY <1>3, NoRequestIsOne DEF PlacesOk, Places
<1>9. StandsOk(c)'
  BY <1>2, <1>3 DEF StandsOk, LaneIn, SeenIn, Exit
<1>10. StreamOk(c)'
  BY <1>3 DEF StreamOk, NoStream
<1> QED
  BY <1>2, <1>4, <1>5, <1>6, <1>7, <1>8, <1>9, <1>10, ClientStep

-----------------------------------------------------------------------------
(* Runs.                                                                   *)

(* A run that moves on without ending.                                     *)
LEMMA RunsMoved ==
  ASSUME Writes, RunsOk, DOMAIN runs' \subseteq DOMAIN runs,
         \A u \in DOMAIN runs' : runs'[u].key = runs[u].key /\ runs'[u].head = runs[u].head
  PROVE  RunsOk'
<1>1. ASSUME NEW u \in DOMAIN runs'
      PROVE  u \in alive' /\ runs'[u].head \in alive' /\ Known(runs[u].key)' /\ Under(runs[u].key, runs[u].head)'
  <2>1. PICK k, h : k = runs[u].key /\ h = runs[u].head
    OBVIOUS
  <2>2. u \in alive /\ h \in alive /\ Known(h) /\ Known(k) /\ Under(k, h) /\ runs'[u].key = k /\ runs'[u].head = h
    BY <2>1 DEF RunsOk, Known
  <2>3. u \in alive' /\ h \in alive' /\ Known(k)' /\ Under(k, h)'
    BY <2>2, WritesKeep DEF Under, Writes
  <2> QED
    BY <2>2, <2>3 DEF Known, Under, Path
<1> QED
  BY <1>1 DEF RunsOk

LEMMA StreamsKept ==
  ASSUME Inv, Writes, UNCHANGED <<pc, stream>>, \A u \in Written : SameRun(u), NEW d \in Clients
  PROVE  StreamOk(d)'
<1>1. StreamOk(d) /\ pc'[d] = pc[d] /\ stream'[d] = stream[d]
  BY DEF Inv
<1>2. pc[d] = "waiting" => SameRun(stream[d].run)
  BY <1>1 DEF StreamOk, TailsOk
<1> QED
  BY <1>1, <1>2, StreamKept

LEMMA AcquireKeeps == ASSUME Inv, NEW v \in DOMAIN runs, Acquire(v) PROVE Inv'
<1>1. TreeOk /\ TypesOk /\ SettledOk /\ RunsOk /\ runs[v] \in Turns
  BY DEF Inv, TypesOk
<1>2. runs[v].pc = "queued" /\ UNCHANGED <<path, alive, settled, faults, client>>
  BY DEF Acquire
<1>3. Writes
  BY <1>1, <1>2, SameNodes
<1>4. PICK r : r = [runs[v] EXCEPT !.pc = "running"]
  OBVIOUS
<1>5. r \in Turns /\ r.pc = "running" /\ r.key = runs[v].key /\ r.head = runs[v].head
  BY <1>1, <1>4 DEF Turns
<1>6. /\ DOMAIN runs' = DOMAIN runs
      /\ runs'[v] = r /\ \A u \in DOMAIN runs : u # v => runs'[u] = runs[u]
  BY <1>4 DEF Acquire
<1>7. TypesOk'
  <2>1. \A u \in DOMAIN runs' : u \in Nat /\ runs'[u] \in Turns
    BY <1>1, <1>5, <1>6 DEF TypesOk
  <2> QED
    BY <1>1, <1>2, <2>1 DEF TypesOk, client
<1>8. SettledOk'
  BY <1>1, <1>2, <1>3, SettledKept
<1>9. RunsOk'
  BY <1>1, <1>3, <1>5, <1>6, RunsMoved
<1>10. \A u \in Written : SameRun(u)
  BY <1>1, <1>2, <1>5, <1>6 DEF SameRun, RunsOk
<1>11. UNCHANGED <<pc, asked, cursor, resume, file, lane, seen, stream>>
  BY <1>2 DEF client
<1>12. \A d \in Clients : stream'[d].tail = stream[d].tail /\ StreamOk(d)'
  BY <1>3, <1>10, <1>11, StreamsKept
<1> QED
  BY <1>3, <1>7, <1>8, <1>9, <1>11, <1>12, RunStep

LEMMA AbortKeeps == ASSUME Inv, NEW c \in Clients, Abort(c) PROVE Inv'
<1>1. TreeOk /\ TypesOk /\ SettledOk /\ RunsOk
  BY DEF Inv
<1>2. UNCHANGED <<path, alive, settled, faults, client>>
  BY DEF Abort
<1>3. Writes
  BY <1>1, <1>2, SameNodes
<1>4. DOMAIN runs' = DOMAIN runs
  BY DEF Abort
<1>5. ASSUME NEW u \in DOMAIN runs
      PROVE  /\ runs'[u] \in Turns /\ runs'[u].key = runs[u].key /\ runs'[u].head = runs[u].head
             /\ runs'[u].pc = runs[u].pc
  <2>1. PICK a, w : /\ a = (runs[u].aborted \/ u = cursor[c])
                    /\ w = (runs[u].unwanted \/ (Reads(c, u) /\ runs[u].pc = "queued"))
    OBVIOUS
  <2>2. runs[u] \in Turns
    BY <1>1 DEF TypesOk
  <2>3. runs'[u] = [runs[u] EXCEPT !.aborted = (runs[u].aborted \/ u = cursor[c]),
                                   !.unwanted = (runs[u].unwanted \/ (Reads(c, u) /\ runs[u].pc = "queued"))]
    BY <2>2 DEF Abort, Turns
  <2>4. runs'[u] = [runs[u] EXCEPT !.aborted = a, !.unwanted = w]
    BY <2>1, <2>3
  <2>5. a \in BOOLEAN /\ w \in BOOLEAN
    BY <2>1, <2>2 DEF Turns
  <2> QED
    BY <2>2, <2>4, <2>5 DEF Turns
<1>6. TypesOk'
  <2>1. \A u \in DOMAIN runs' : u \in Nat /\ runs'[u] \in Turns
    BY <1>1, <1>4, <1>5 DEF TypesOk
  <2> QED
    BY <1>1, <1>2, <2>1 DEF TypesOk, client
<1>7. SettledOk'
  BY <1>1, <1>2, <1>3, SettledKept
<1>8. RunsOk'
  BY <1>1, <1>3, <1>4, <1>5, RunsMoved
<1>9. \A u \in Written : SameRun(u)
  BY <1>1, <1>4, <1>5 DEF SameRun, RunsOk
<1>10. UNCHANGED <<pc, asked, cursor, resume, file, lane, seen, stream>>
  BY <1>2 DEF client
<1>11. \A d \in Clients : stream'[d].tail = stream[d].tail /\ StreamOk(d)'
  BY <1>3, <1>9, <1>10, StreamsKept
<1> QED
  BY <1>3, <1>6, <1>7, <1>8, <1>10, <1>11, RunStep

(* What is said of a run reaches those that read it.                       *)
LEMMA Saying ==
  ASSUME TypesOk, NEW v, NEW e \in Seq(Frames), Say(v, e)
  PROVE  /\ stream' \in [Clients -> Streams]
         /\ \A d \in Clients :
              /\ stream'[d].tail = stream[d].tail /\ stream'[d].run = stream[d].run
              /\ ~Reads(d, v) => stream'[d] = stream[d]
              /\ Reads(d, v) => stream'[d].queue = stream[d].queue \o e
<1>1. ASSUME NEW d \in Clients
      PROVE  /\ stream'[d] \in Streams
             /\ stream'[d].tail = stream[d].tail /\ stream'[d].run = stream[d].run
             /\ ~Reads(d, v) => stream'[d] = stream[d]
             /\ Reads(d, v) => stream'[d].queue = stream[d].queue \o e
  <2>1. stream[d] \in Streams
    BY DEF TypesOk
  <2>2. stream[d].queue \o e \in Seq(Frames)
    BY <2>1, ConcatProperties DEF Streams
  <2>3. stream'[d] = IF Reads(d, v) THEN [stream[d] EXCEPT !.queue = stream[d].queue \o e] ELSE stream[d]
    BY DEF Say
  <2>4. CASE Reads(d, v)
    BY <2>1, <2>2, <2>3, <2>4 DEF Streams
  <2>5. CASE ~Reads(d, v)
    BY <2>1, <2>3, <2>5
  <2> QED
    BY <2>4, <2>5
<1>2. stream' \in [Clients -> Streams]
  <2>1. stream' = [d \in Clients |-> stream'[d]]
    BY DEF Say
  <2> QED
    BY <1>1, <2>1
<1> QED
  BY <1>1, <1>2

(* Who reads a run that is still registered waits for it.                  *)
LEMMA Reader ==
  ASSUME Inv, NEW v \in DOMAIN runs, NEW d \in Clients, Reads(d, v)
  PROVE  /\ pc[d] = "waiting" /\ stream[d].run = v /\ stream[d].queue \in Seq(Frames)
         /\ TailsOk(stream[d]) /\ EndsOk(stream[d])
<1>1. v \in alive /\ StreamOk(d) /\ stream[d] \in Streams /\ alive \subseteq Written /\ NoNode \notin Written
  BY Numbers DEF Inv, RunsOk, TypesOk
<1>2. stream[d] # NoStream
  BY <1>1 DEF Reads, NoStream
<1> QED
  BY <1>1, <1>2 DEF StreamOk, Streams, Reads

(* The others' streams are as they were.                                   *)
LEMMA OthersKept ==
  ASSUME Inv, Writes, NEW v, NEW d \in Clients, ~Reads(d, v), pc' = pc, stream'[d] = stream[d],
         \A u \in Written : u # v => SameRun(u)
  PROVE  StreamOk(d)'
<1>1. StreamOk(d) /\ pc'[d] = pc[d]
  BY DEF Inv
<1>2. pc[d] = "waiting" => SameRun(stream[d].run)
  BY <1>1 DEF StreamOk, TailsOk, Reads
<1> QED
  BY <1>1, <1>2, StreamKept

LEMMA AnswerKeeps == ASSUME Inv, NEW v \in DOMAIN runs, Answer(v) PROVE Inv'
<1>1. TreeOk /\ TypesOk /\ SettledOk /\ RunsOk /\ runs[v] \in Turns
  BY DEF Inv, TypesOk
<1>2. PICK f, h : f = Fresh /\ h = runs[v].head
  OBVIOUS
<1>3. PICK x, e : x = [type |-> "text_final", tail |-> f] /\ e = <<x>>
  OBVIOUS
<1>4. PICK r : r = [runs[v] EXCEPT !.pc = "post", !.head = f]
  OBVIOUS
<1>5. /\ runs[v].pc = "running" /\ Grow(h) /\ runs' = [runs EXCEPT ![v] = r] /\ Say(v, e)
      /\ UNCHANGED <<settled, faults, pc, asked, cursor, resume, file, lane, seen>>
  BY <1>2, <1>3, <1>4 DEF Answer
<1>6. h \in alive /\ Known(h)
  BY <1>1, <1>2 DEF RunsOk, Known
<1>7. /\ Writes /\ f \in Nat /\ f \in alive' /\ f \notin Written /\ Path(f)' = Path(h) \union {f}
  BY <1>1, <1>2, <1>5, <1>6, FreshNode
<1>8. r \in Turns /\ r.pc = "post" /\ r.head = f /\ r.key = runs[v].key
  BY <1>1, <1>4, <1>7 DEF Turns
<1>9. DOMAIN runs' = DOMAIN runs /\ runs'[v] = r /\ \A u \in DOMAIN runs : u # v => runs'[u] = runs[u]
  BY <1>5
<1>10. x \in Frames /\ x.type = "text_final" /\ x.tail = f /\ e \in Seq(Frames)
  BY <1>3, <1>7 DEF Frames
<1>11. /\ stream' \in [Clients -> Streams]
       /\ \A d \in Clients :
            /\ stream'[d].tail = stream[d].tail /\ stream'[d].run = stream[d].run
            /\ ~Reads(d, v) => stream'[d] = stream[d]
            /\ Reads(d, v) => stream'[d].queue = stream[d].queue \o e
  BY <1>1, <1>5, <1>10, Saying
<1>12. TypesOk'
  <2>1. \A u \in DOMAIN runs' : u \in Nat /\ runs'[u] \in Turns
    BY <1>1, <1>8, <1>9 DEF TypesOk
  <2> QED
    BY <1>1, <1>5, <1>11, <2>1 DEF TypesOk
<1>13. SettledOk'
  BY <1>1, <1>5, <1>7, SettledKept
<1>14. RunsOk'
  <2>1. ASSUME NEW u \in DOMAIN runs'
        PROVE  u \in alive' /\ runs'[u].head \in alive' /\ Known(runs[u].key)' /\ Under(runs[u].key, runs[u].head)'
    <3>1. PICK k, g : k = runs[u].key /\ g = runs'[u].head
      OBVIOUS
    <3>2. u \in alive /\ Known(k) /\ runs'[u].key = k
      BY <1>1, <1>8, <1>9, <3>1 DEF RunsOk
    <3>3. g \in alive' /\ Under(k, g)'
      <4>1. CASE u = v
        <5>1. g = f /\ Under(k, h) /\ Path(k)' = Path(k)
          BY <1>1, <1>2, <1>7, <1>8, <1>9, <3>1, <3>2, <4>1, WritesKeep DEF RunsOk
        <5> QED
          BY <1>7, <5>1 DEF Under
      <4>2. CASE u # v
        <5>1. g \in alive /\ Known(g) /\ Under(k, g)
          BY <1>1, <1>9, <3>1, <4>2 DEF RunsOk, Known
        <5> QED
          BY <1>7, <3>2, <5>1, WritesKeep DEF Under, Writes
      <4> QED
        BY <4>1, <4>2
    <3>4. u \in alive' /\ Known(k)'
      BY <1>7, <3>2, WritesKeep DEF Writes
    <3> QED
      BY <3>1, <3>2, <3>3, <3>4 DEF Known, Under, Path
  <2> QED
    BY <2>1 DEF RunsOk
<1>15. \A u \in Written : u # v => SameRun(u)
  BY <1>1, <1>9 DEF SameRun, RunsOk
<1>16. ASSUME NEW d \in Clients PROVE StreamOk(d)'
  <2>1. CASE ~Reads(d, v)
    BY <1>5, <1>7, <1>11, <1>15, <2>1, OthersKept
  <2>2. CASE Reads(d, v)
    <3>1. PICK s, z : s = stream[d] /\ z = stream'[d]
      OBVIOUS
    <3>2. pc[d] = "waiting" /\ s.run = v /\ s.queue \in Seq(Frames) /\ TailsOk(s) /\ EndsOk(s)
      BY <2>2, <3>1, Reader
    <3>3. s.queue = <<>> /\ Under(s.tail, h)
      BY <1>2, <1>5, <3>2 DEF EndsOk
    <3>4. z.tail = s.tail /\ z.run = v /\ z.queue = <<x>>
      <4>1. <<>> \o e = e
        BY <1>10, ConcatEmptySeq
      <4> QED
        BY <1>3, <1>11, <2>2, <3>1, <3>2, <3>3, <4>1
    <3>5. s.tail \in alive /\ v \in Written
      BY <3>2 DEF TailsOk
    <3>6. Under(s.tail, f)' /\ s.tail \in alive' /\ v \in Written'
      <4>1. Path(s.tail)' = Path(s.tail)
        BY <1>7, <3>5, WritesKeep DEF Known
      <4> QED
        BY <1>7, <3>3, <3>5, <4>1, WritesKeep DEF Under, Writes
    <3>7. \A i \in DOMAIN z.queue : i = 1 /\ z.queue[i] = x
      BY <3>4
    <3>8. TailsOk(z)'
      BY <1>7, <1>10, <3>4, <3>6, <3>7 DEF TailsOk
    <3>9. EndsOk(z)'
      BY <1>8, <1>9, <1>10, <3>4, <3>7 DEF EndsOk
    <3>10. pc'[d] = "waiting" /\ stream'[d] = z
      BY <1>5, <3>1, <3>2
    <3> QED
      BY <3>8, <3>9, <3>10 DEF StreamOk
  <2> QED
    BY <2>1, <2>2
<1> QED
  BY <1>5, <1>7, <1>11, <1>12, <1>13, <1>14, <1>16, RunStep

(* A run ends: its key settles at its head, and its stream is told.        *)
LEMMA Ending ==
  ASSUME Inv, NEW v \in DOMAIN runs, Leave(v), Settle(runs[v].key, runs[v].head),
         UNCHANGED <<path, alive, faults, pc, asked, cursor, resume, file, lane, seen>>,
         NEW e \in Seq(Frames), Say(v, e),
         \A d \in Clients : Reads(d, v) =>
           TailsOk(stream'[d]) /\ \E i \in DOMAIN stream'[d].queue : stream'[d].queue[i].type = "done"
  PROVE  Inv'
<1>1. TreeOk /\ TypesOk /\ SettledOk /\ RunsOk /\ runs[v] \in Turns
  BY DEF Inv, TypesOk
<1>2. Writes
  BY <1>1, SameNodes
<1>3. DOMAIN runs' = DOMAIN runs \ {v} /\ \A u \in DOMAIN runs' : runs'[u] = runs[u]
  BY DEF Leave
<1>4. /\ stream' \in [Clients -> Streams]
      /\ \A d \in Clients :
           /\ stream'[d].tail = stream[d].tail /\ stream'[d].run = stream[d].run
           /\ ~Reads(d, v) => stream'[d] = stream[d]
           /\ Reads(d, v) => stream'[d].queue = stream[d].queue \o e
  BY <1>1, Saying
<1>5. PICK k, h : k = runs[v].key /\ h = runs[v].head
  OBVIOUS
<1>6. Known(k) /\ Known(h) /\ Under(k, h) /\ Settle(k, h) /\ k \in Nat /\ h \in Nat
  BY <1>1, <1>5 DEF RunsOk, Known, Turns
<1>7. SettledOk'
  BY <1>1, <1>2, <1>6, SettlingBelow
<1>8. RunsOk'
  BY <1>1, <1>2, <1>3, RunsMoved
<1>9. TypesOk'
  <2>1. \A u \in DOMAIN runs' : u \in Nat /\ runs'[u] \in Turns
    BY <1>1, <1>3 DEF TypesOk
  <2>2. \A j \in DOMAIN settled' : j \in Nat /\ settled'[j] \in Nat
    BY <1>1, <1>6 DEF Settle, TypesOk
  <2> QED
    BY <1>1, <1>4, <2>1, <2>2 DEF TypesOk
<1>10. \A u \in Written : u # v => SameRun(u)
  BY <1>1, <1>3 DEF SameRun, RunsOk
<1>11. ASSUME NEW d \in Clients PROVE StreamOk(d)'
  <2>1. CASE ~Reads(d, v)
    BY <1>2, <1>4, <1>10, <2>1, OthersKept
  <2>2. CASE Reads(d, v)
    <3>1. PICK z : z = stream'[d]
      OBVIOUS
    <3>2. pc[d] = "waiting" /\ stream[d].run = v
      BY <2>2, Reader
    <3>3. z.run \notin DOMAIN runs' /\ pc'[d] = "waiting" /\ stream'[d] = z
      BY <1>3, <1>4, <3>1, <3>2
    <3>4. TailsOk(z)'
      BY <1>2, <2>2, <3>1, TailsKept
    <3>5. EndsOk(z)'
      BY <2>2, <3>1, <3>3 DEF EndsOk
    <3> QED
      BY <3>3, <3>4, <3>5 DEF StreamOk
  <2> QED
    BY <2>1, <2>2
<1> QED
  BY <1>2, <1>4, <1>7, <1>8, <1>9, <1>11, RunStep

LEMMA FinishKeeps == ASSUME Inv, NEW v \in DOMAIN runs, Finish(v) PROVE Inv'
<1>1. PICK x, e : x = [type |-> "done"] /\ e = <<x>>
  OBVIOUS
<1>2. x \in Frames /\ x.type = "done" /\ e \in Seq(Frames) /\ Len(e) = 1 /\ e[1] = x
  BY <1>1 DEF Frames
<1>3. /\ Leave(v) /\ Settle(runs[v].key, runs[v].head) /\ Say(v, e)
      /\ UNCHANGED <<path, alive, faults, pc, asked, cursor, resume, file, lane, seen>>
  BY <1>1 DEF Finish
<1>4. ASSUME NEW d \in Clients, Reads(d, v)
      PROVE  TailsOk(stream'[d]) /\ \E i \in DOMAIN stream'[d].queue : stream'[d].queue[i].type = "done"
  <2>1. PICK s, z, q, r : s = stream[d] /\ z = stream'[d] /\ q = s.queue /\ r = q \o e
    OBVIOUS
  <2>2. q \in Seq(Frames) /\ TailsOk(s)
    BY <1>4, <2>1, Reader
  <2>3. z.tail = s.tail /\ z.run = s.run /\ z.queue = r
    BY <1>2, <1>3, <1>4, <2>1, Saying DEF Inv
  <2>4. /\ r \in Seq(Frames) /\ Len(r) = Len(q) + 1
        /\ \A i \in 1..Len(q) + 1 : r[i] = IF i <= Len(q) THEN q[i] ELSE e[i - Len(q)]
    <3>1. /\ q \o e \in Seq(Frames) /\ Len(q \o e) = Len(q) + Len(e)
          /\ \A i \in 1..Len(q) + Len(e) : (q \o e)[i] = IF i <= Len(q) THEN q[i] ELSE e[i - Len(q)]
      BY <1>2, <2>2, ConcatProperties
    <3> QED
      BY <1>2, <2>1, <3>1
  <2>5. Len(q) + 1 \in DOMAIN r /\ r[Len(q) + 1] = x
    BY <1>2, <2>2, <2>4
  <2>6. ASSUME NEW i \in DOMAIN r, r[i].type # "done" PROVE i \in DOMAIN q /\ r[i] = q[i]
    <3>1. i \in 1..Len(q) + 1 /\ i # Len(q) + 1
      BY <1>2, <2>2, <2>4, <2>5, <2>6
    <3>2. i \in 1..Len(q) /\ i <= Len(q)
      BY <2>2, <3>1
    <3> QED
      BY <2>2, <2>4, <3>1, <3>2
  <2>7. TailsOk(z)
    BY <2>1, <2>2, <2>3, <2>6 DEF TailsOk
  <2> QED
    BY <1>2, <2>1, <2>3, <2>5, <2>7
<1> QED
  BY <1>2, <1>3, <1>4, Ending

LEMMA FailKeeps == ASSUME Inv, NEW v \in DOMAIN runs, Fail(v) PROVE Inv'
<1>1. PICK x, y, e : x = [type |-> "error", tail |-> runs[v].head] /\ y = [type |-> "done"] /\ e = <<x, y>>
  OBVIOUS
<1>2. runs[v].head \in Nat /\ runs[v].head \in alive
  BY DEF Inv, TypesOk, Turns, RunsOk
<1>3. /\ x \in Frames /\ y \in Frames /\ x.tail = runs[v].head /\ y.type = "done"
      /\ e \in Seq(Frames) /\ DOMAIN e = {1, 2} /\ e[1] = x /\ e[2] = y
  BY <1>1, <1>2 DEF Frames
<1>4. /\ Leave(v) /\ Settle(runs[v].key, runs[v].head) /\ Say(v, e) /\ runs[v].pc = "running"
      /\ UNCHANGED <<path, alive, faults, pc, asked, cursor, resume, file, lane, seen>>
  BY <1>1 DEF Fail
<1>5. ASSUME NEW d \in Clients, Reads(d, v)
      PROVE  TailsOk(stream'[d]) /\ \E i \in DOMAIN stream'[d].queue : stream'[d].queue[i].type = "done"
  <2>1. PICK s, z : s = stream[d] /\ z = stream'[d]
    OBVIOUS
  <2>2. s.run = v /\ TailsOk(s) /\ s.queue = <<>> /\ Under(s.tail, runs[v].head)
    BY <1>4, <1>5, <2>1, Reader DEF EndsOk
  <2>3. z.tail = s.tail /\ z.run = s.run /\ z.queue = e
    <3>1. <<>> \o e = e
      BY <1>3, ConcatEmptySeq
    <3> QED
      BY <1>3, <1>4, <1>5, <2>1, <2>2, <3>1, Saying DEF Inv
  <2>4. TailsOk(z)
    BY <1>2, <1>3, <2>2, <2>3 DEF TailsOk
  <2> QED
    BY <1>3, <2>1, <2>3, <2>4
<1> QED
  BY <1>3, <1>4, <1>5, Ending

-----------------------------------------------------------------------------
(* The daemon's restart: what it held in memory is gone, and maybe the     *)
(* database.                                                               *)
LEMMA RestartKeeps == ASSUME Inv, Restart PROVE Inv'
<1>1. TreeOk /\ TypesOk /\ file \in Places
  BY DEF Inv
<1>2. /\ runs' = <<>> /\ settled' = <<>> /\ UNCHANGED <<path, asked, cursor, resume, file, lane>>
      /\ (alive' = alive \/ alive' = {})
      /\ stream' = [c \in Clients |-> NoStream]
  BY DEF Restart
<1>3. ASSUME NEW c \in Clients
      PROVE  /\ stream'[c] = NoStream /\ pc'[c] = (IF pc[c] = "waiting" THEN "prompt" ELSE pc[c])
             /\ seen'[c] = IF pc[c] = "waiting" THEN seen[c] \intersect Path(cursor[c]) ELSE seen[c]
  BY DEF Restart
<1>4. TreeOk'
  <2>1. CASE alive' = alive
    BY <1>1, <1>2, <2>1 DEF TreeOk
  <2>2. CASE alive' = {}
    BY <1>1, <1>2, <2>2 DEF TreeOk, Tree
  <2> QED
    BY <1>2, <2>1, <2>2
<1>5. TypesOk'
  <2>1. pc' \in [Clients -> {"off", "opening", "prompt", "waiting"}]
    BY <1>1 DEF Restart, TypesOk
  <2>2. seen' \in [Clients -> SUBSET Nat]
    BY <1>1 DEF Restart, TypesOk
  <2>3. stream' \in [Clients -> Streams]
    BY <1>2, NoStreamIsOne
  <2> QED
    BY <1>1, <1>2, <2>1, <2>2, <2>3 DEF TypesOk
<1>6. SettledOk' /\ RunsOk'
  BY <1>2 DEF SettledOk, RunsOk
<1>7. file' \in Places'
  BY <1>1, <1>2 DEF Places, Written
<1>8. ASSUME NEW c \in Clients PROVE PlacesOk(c)' /\ StandsOk(c)' /\ StreamOk(c)'
  <2>1. PlacesOk(c) /\ StandsOk(c) /\ pc[c] \in {"off", "opening", "prompt", "waiting"}
    BY <1>1 DEF Inv, TypesOk
  <2>2. pc'[c] # "waiting" /\ (pc'[c] = "opening" => pc[c] = "opening")
        /\ (pc'[c] = "prompt" => pc[c] \in {"prompt", "waiting"}) /\ seen'[c] \subseteq seen[c]
    BY <1>3, <2>1
  <2>3. StreamOk(c)'
    BY <1>3, <2>2 DEF StreamOk, NoStream
  <2>4. PlacesOk(c)'
    BY <1>2, <2>1, <2>2 DEF PlacesOk, Places, Written
  <2>5. PICK n : n = cursor[c]
    OBVIOUS
  <2>6. LaneIn(c, n)'
    BY <1>2, <2>1, <2>5 DEF StandsOk, LaneIn, Branch, Written
  <2>7. SeenIn(c, n)'
    <3>1. CASE pc[c] = "waiting"
      <4>1. n \in Written /\ n # 0
        BY <1>1, <2>1, <2>5, <3>1, Numbers DEF PlacesOk
      <4>2. seen'[c] \subseteq path[n]
        BY <1>3, <2>5, <3>1, <4>1 DEF Path
      <4> QED
        BY <1>2, <4>1, <4>2 DEF SeenIn, Branch, Written
    <3>2. CASE pc[c] # "waiting"
      <4>1. seen[c] \intersect alive \subseteq Branch(n) /\ seen'[c] = seen[c]
        BY <1>3, <2>1, <2>5, <3>2 DEF StandsOk, SeenIn
      <4> QED
        BY <1>2, <4>1 DEF SeenIn, Branch, Written
    <3> QED
      BY <3>1, <3>2
  <2>8. StandsOk(c)'
    BY <1>2, <2>2, <2>5, <2>6, <2>7 DEF StandsOk
  <2> QED
    BY <2>3, <2>4, <2>8
<1> QED
  BY <1>4, <1>5, <1>6, <1>7, <1>8 DEF Inv

-----------------------------------------------------------------------------
(* The invariant holds.                                                    *)

LEMMA StartsWell == ASSUME Init PROVE Inv
<1>1. TreeOk
  BY DEF Init, TreeOk, Tree, TreeOf
<1>2. TypesOk
  BY NoRequestIsOne, NoStreamIsOne DEF Init, TypesOk, Place
<1>3. SettledOk /\ RunsOk /\ file \in Places
  BY DEF Init, SettledOk, RunsOk, Places
<1>4. ASSUME NEW c \in Clients PROVE PlacesOk(c) /\ StandsOk(c) /\ StreamOk(c)
  <2>1. /\ pc[c] = "off" /\ asked[c] = NoRequest /\ cursor[c] = NoNode /\ resume[c] = NoNode /\ lane[c] = NoNode
        /\ seen[c] = {} /\ stream[c] = NoStream /\ alive = {}
    BY DEF Init
  <2> QED
    BY <2>1, NoRequestIsOne DEF PlacesOk, Places, StandsOk, LaneIn, SeenIn, StreamOk
<1> QED
  BY <1>1, <1>2, <1>3, <1>4 DEF Inv

LEMMA StutterKeeps == ASSUME Inv, UNCHANGED vars PROVE Inv'
<1>1. /\ UNCHANGED <<path, alive, settled, runs, faults>>
      /\ UNCHANGED <<pc, asked, cursor, resume, file, stream, lane, seen>>
  BY DEF vars, daemon, client
<1>2. TreeOk /\ TypesOk /\ SettledOk /\ RunsOk /\ file \in Places
  BY DEF Inv
<1>3. Writes
  BY <1>1, <1>2, SameNodes
<1>4. TypesOk'
  BY <1>1, <1>2 DEF TypesOk
<1>5. SettledOk' /\ RunsOk'
  BY <1>1, <1>2, <1>3, SettledKept, RunsKept
<1>6. \A d \in Clients : stream'[d].tail = stream[d].tail /\ StreamOk(d)'
  BY <1>1, <1>3, StreamsKept, RunsTheSame
<1> QED
  BY <1>1, <1>3, <1>4, <1>5, <1>6, RunStep

LEMMA InvHolds == Spec => []Inv
<1>1. Init => Inv
  BY StartsWell
<1>2. Inv /\ [Next]_vars => Inv'
  <2> SUFFICES ASSUME Inv, [Next]_vars PROVE Inv'
    OBVIOUS
  <2>1. ASSUME NEW c \in Clients, Terminal(c) PROVE Inv'
    BY <2>1, LaunchKeeps, ResetKeeps, ResumeKeeps, OpenKeeps, SendKeeps, DeliverKeeps, CutKeeps,
       AbortKeeps, CommandKeeps, ExitKeeps DEF Terminal
  <2>2. ASSUME NEW v \in DOMAIN runs, Run(v) PROVE Inv'
    BY <2>2, AcquireKeeps, AnswerKeeps, FinishKeeps, FailKeeps DEF Run
  <2> QED
    BY <2>1, <2>2, RestartKeeps, StutterKeeps DEF Next
<1> QED
  BY <1>1, <1>2, PTL DEF Spec

-----------------------------------------------------------------------------
(* What a terminal was shown of its conversation stays in it, and in it    *)
(* alone: the next message it sends continues the branch of every turn it  *)
(* read, and two terminals that opened different lanes share no node that  *)
(* their lanes did not share when they were opened.                        *)
THEOREM ConversationsStayKept == Spec => []ConversationsAreKept
<1>1. Inv => NothingSeenIsLost
  <2> SUFFICES ASSUME Inv, NEW c \in Clients, pc[c] = "prompt"
               PROVE  seen[c] \intersect alive \subseteq Path(cursor[c])
    BY DEF NothingSeenIsLost
  <2>1. cursor[c] \in Written /\ SeenIn(c, cursor[c]) /\ 0 \notin Written
    BY Numbers DEF Inv, PlacesOk, StandsOk
  <2> QED
    BY <2>1 DEF SeenIn, Branch, Path
<1>2. Inv => LanesAreSeparate
  <2> SUFFICES ASSUME Inv, NEW c \in Clients, NEW d \in Clients, Known(lane[c]), Known(lane[d]),
                      ~Nested(c, d), ~Nested(d, c)
               PROVE  Separate(c, d)
    BY DEF LanesAreSeparate
  <2>1. TreeOk /\ alive \subseteq Written /\ 0 \notin Written /\ NoNode \notin Nat /\ NoNode \notin alive
    BY Numbers DEF Inv
  <2>2. ASSUME NEW e \in Clients, Known(lane[e])
        PROVE  /\ lane[e] \in alive /\ lane[e] \in Written /\ cursor[e] \in Written
               /\ lane[e] \in path[cursor[e]] /\ Path(lane[e]) = path[lane[e]] /\ Path(cursor[e]) = path[cursor[e]]
    <3>1. lane[e] \in Places /\ LaneIn(e, cursor[e])
      BY DEF Inv, PlacesOk, StandsOk
    <3>2. lane[e] \in alive
      BY <2>1, <2>2, <3>1 DEF Known, Places
    <3> QED
      BY <2>1, <3>1, <3>2 DEF LaneIn, Branch, Path
  <2>3. PICK lc, ld, cc, cd : lc = lane[c] /\ ld = lane[d] /\ cc = cursor[c] /\ cd = cursor[d]
    OBVIOUS
  <2>4. /\ {lc, ld, cc, cd} \subseteq Written /\ lc \in path[cc] /\ ld \in path[cd]
        /\ lc \notin path[ld] /\ ld \notin path[lc]
    BY <2>1, <2>2, <2>3 DEF Nested
  <2>5. TreeOf(path)
    BY <2>1 DEF TreeOk, Tree
  <2>6. ASSUME NEW a \in path[cc], a \in path[cd] PROVE a \in path[lc] /\ a \in path[ld]
    <3>1. path[a] \subseteq path[cc] /\ path[a] \subseteq path[cd]
      BY <2>4, <2>5, <2>6 DEF TreeOf, Written
    <3>2. a \in path[lc] \/ lc \in path[a]
      BY <2>4, <2>5 DEF TreeOf, Written
    <3>3. a \in path[ld] \/ ld \in path[a]
      BY <2>4, <2>5, <2>6 DEF TreeOf, Written
    <3>4. lc \notin path[cd] /\ ld \notin path[cc]
      BY <2>4, <2>5 DEF TreeOf, Written
    <3> QED
      BY <3>1, <3>2, <3>3, <3>4
  <2> QED
    BY <2>2, <2>3, <2>6 DEF Separate
<1> QED
  BY <1>1, <1>2, InvHolds, PTL DEF ConversationsAreKept

(* A terminal that waits for a reply always has a run that will end its    *)
(* stream, or the frame that ends it: no interleaving of cuts, aborts,     *)
(* failures and restarts leaves it waiting for a stream nobody serves.     *)
THEOREM SomebodyAnswers == Spec => []NobodyWaitsInVain
<1>1. Inv => NobodyWaitsInVain
  <2> SUFFICES ASSUME Inv, NEW c \in Clients, pc[c] = "waiting"
               PROVE  \/ \E u \in DOMAIN runs : Reads(c, u)
                      \/ \E i \in DOMAIN stream[c].queue : stream[c].queue[i].type = "done"
    BY DEF NobodyWaitsInVain
  <2>1. EndsOk(stream[c])
    BY DEF Inv, StreamOk
  <2> QED
    BY <2>1 DEF EndsOk, Reads
<1> QED
  BY <1>1, InvHolds, PTL
=============================================================================
