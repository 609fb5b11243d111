-------------------------- MODULE MemoryGraphProofs -------------------------
(***************************************************************************)
(* What the memory graph keeps through any sequence of tool calls, merges, *)
(* embedding passes and crashes, for any numbers of entities, relations,   *)
(* calls and cycles: one edge for a relation, every relation of a merged   *)
(* duplicate, an index that says what the store says, and pairs that are   *)
(* settled left alone.                                                     *)
(***************************************************************************)
EXTENDS MemoryGraph, TLAPS, FiniteSetTheorems, SequenceTheorems

(* What the holder of the lock may have to run.                            *)
Writes ==
  [do: {"set"}, on: Entities, field: {"desc", "content"}, val: Descs, stale: SUBSET Entities]
    \cup [do: {"set"}, on: Entities, field: {"hash"}, val: {None}, stale: SUBSET Entities]
Namings == [do: {"set"}, on: Entities, field: {"name"}, val: Names, stale: SUBSET Entities]
Creates == [do: {"create"}, on: Entities, stale: SUBSET Entities]
Deletes == [do: {"delete"}, on: Entities, into: Entities \cup {None}, stale: SUBSET Entities]
Links   == [do: {"link", "reweigh"}, edge: Edges, stale: SUBSET Entities]
Repoints == [do: {"repoint"}, edge: Edges, stale: SUBSET Entities]
Unlinks == [do: {"unlink"}, from: Entities, to: Entities,
            rels: SUBSET (Relations \cup {"ALIASED_TO"}), stale: SUBSET Entities]
Statements == Writes \cup Namings \cup Creates \cup Deletes \cup Links \cup Repoints \cup Unlinks

-----------------------------------------------------------------------------
(* Sequences of statements.                                                *)

(* What is left of a list when its head has run.                           *)
LEMMA TailOf ==
  ASSUME NEW S, NEW s \in Seq(S), s # <<>>
  PROVE  /\ Len(s) \in Nat \ {0} /\ DOMAIN s = 1..Len(s)
         /\ Tail(s) \in Seq(S) /\ Len(Tail(s)) = Len(s) - 1
         /\ DOMAIN Tail(s) = 1..(Len(s) - 1)
         /\ \A k \in 1..(Len(s) - 1) : k + 1 \in DOMAIN s /\ Tail(s)[k] = s[k + 1]
         /\ \A k \in DOMAIN s : k = 1 \/ (k - 1 \in 1..(Len(s) - 1) /\ Tail(s)[k - 1] = s[k])
         /\ Head(s) = s[1] /\ s[1] \in S
OBVIOUS

(* Two lists run one after the other.                                      *)
LEMMA Joint ==
  ASSUME NEW S, NEW s \in Seq(S), NEW t \in Seq(S)
  PROVE  /\ s \o t \in Seq(S) /\ Len(s \o t) = Len(s) + Len(t)
         /\ DOMAIN (s \o t) = 1..(Len(s) + Len(t))
         /\ \A k \in DOMAIN s : k \in DOMAIN (s \o t) /\ (s \o t)[k] = s[k]
         /\ \A k \in DOMAIN t : Len(s) + k \in DOMAIN (s \o t) /\ (s \o t)[Len(s) + k] = t[k]
<1>1. /\ s \o t \in Seq(S) /\ Len(s \o t) = Len(s) + Len(t)
      /\ \A i \in 1..(Len(s) + Len(t)) :
           (s \o t)[i] = IF i <= Len(s) THEN s[i] ELSE t[i - Len(s)]
  BY ConcatProperties
<1>2. Len(s) \in Nat /\ Len(t) \in Nat /\ DOMAIN s = 1..Len(s) /\ DOMAIN t = 1..Len(t)
  OBVIOUS
<1>3. DOMAIN (s \o t) = 1..Len(s \o t)
  BY <1>1
<1>4. ASSUME NEW k \in DOMAIN s PROVE k \in 1..(Len(s) + Len(t)) /\ (s \o t)[k] = s[k]
  BY <1>1, <1>2
<1>5. ASSUME NEW k \in DOMAIN t
      PROVE  Len(s) + k \in 1..(Len(s) + Len(t)) /\ (s \o t)[Len(s) + k] = t[k]
  BY <1>1, <1>2
<1> QED
  BY <1>1, <1>3, <1>4, <1>5

(* A finite set in some order: a list of its elements that misses none.    *)
LEMMA Ordered ==
  ASSUME NEW S, IsFiniteSet(S), NEW s \in SetToSeqs(S)
  PROVE  /\ s \in Seq(S)
         /\ \A x \in S : \E k \in DOMAIN s : s[k] = x
<1> DEFINE n == Cardinality(S)
           D == 1..n
<1>1. n \in Nat
  BY FS_CardinalityType
<1>2. s \in [D -> S] /\ \A i, j \in D : i # j => s[i] # s[j]
  BY DEF SetToSeqs
<1>3. s \in Injection(D, S)
  BY <1>2 DEF Injection, IsInjective
<1>4. Cardinality(D) = n
  BY <1>1, FS_Interval
<1>5. s \in Surjection(D, S)
  BY <1>3, <1>4, FS_Injection
<1>6. s \in Seq(S)
  BY <1>1, <1>2
<1> QED
  BY <1>2, <1>5, <1>6 DEF Surjection

(* The image of a finite set is finite.                                    *)
LEMMA FiniteImage ==
  ASSUME NEW S, IsFiniteSet(S), NEW f
  PROVE  IsFiniteSet({f[x] : x \in S})
<1> DEFINE T == {f[x] : x \in S}
           g == [x \in S |-> f[x]]
<1>1. g \in Surjection(S, T)
  BY DEF Surjection
<1> HIDE DEF T, g
<1>2. IsFiniteSet(T)
  BY <1>1, FS_Surjection
<1> QED
  BY <1>2 DEF T
-----------------------------------------------------------------------------
(* Types.                                                                  *)

Operations == [c: Entities, d: Entities, text: Texts \cup {Blank}, verdict: Verdicts]
Readings == {<<>>} \cup (Operations \X Descs \X Descs)
Phases == {"off", "embedding", "writing", "ask", "asked", "ops", "locking", "merging"}
Cycles ==
  [at: Phases, dirty: UNION {[D -> Descs] : D \in SUBSET Entities}, settled: SUBSET (SUBSET Entities),
   pairs: SUBSET Pairs, uncovered: SUBSET Pairs, group: SUBSET Entities, answered: BOOLEAN,
   ops: Seq(Operations), confirmed: SUBSET (SUBSET Entities), read: Readings]

GraphOk == node \in [Entities -> Nodes \cup {Absent, Gone}] /\ edges \subseteq Edges /\ IsFiniteSet(edges)
CycleOk == dedup \in Cycles /\ (dedup.at = "locking" => dedup.read # <<>>)

LEMMA NodeTypes ==
  /\ Unwritten \in Descs /\ \A t \in Texts \cup {Blank} : Says(t) \in Descs
  /\ \A u \in Entities : node \in [Entities -> Nodes \cup {Absent, Gone}] /\ Exists(u) => node[u] \in Nodes
  /\ \A x \in Nodes : x \notin {Absent, Gone}
BY NoRowIsNoNode DEF Unwritten, Says, Descs, Exists

(* An entity that is there stays there when one of its fields is set.      *)
LEMMA SetNode ==
  ASSUME NEW x \in Nodes, NEW s \in Writes \cup Namings
  PROVE  /\ [x EXCEPT ![s.field] = s.val] \in Nodes
         /\ [x EXCEPT ![s.field] = s.val].vec = x.vec
         /\ s \in Writes => [x EXCEPT ![s.field] = s.val].name = x.name
         /\ s \in Namings => [x EXCEPT ![s.field] = s.val].name = s.val
<1>1. CASE s \in Namings
  <2>1. s.field = "name" /\ s.val \in Names
    BY <1>1 DEF Namings
  <2> QED
    BY <1>1, <2>1 DEF Nodes, Namings, Writes
<1>2. CASE s \in Writes /\ s.field = "desc"
  <2>1. s.val \in Descs
    BY <1>2 DEF Writes
  <2> QED
    BY <1>2, <2>1 DEF Nodes, Namings
<1>3. CASE s \in Writes /\ s.field = "content"
  <2>1. s.val \in Descs
    BY <1>3 DEF Writes
  <2> QED
    BY <1>3, <2>1 DEF Nodes, Namings
<1>4. CASE s \in Writes /\ s.field = "hash"
  <2>1. s.val = None
    BY <1>4 DEF Writes
  <2> QED
    BY <1>4, <2>1 DEF Nodes, Namings
<1>5. s \in Writes => s.field \in {"desc", "content", "hash"}
  BY DEF Writes
<1> QED
  BY <1>1, <1>2, <1>3, <1>4, <1>5

-----------------------------------------------------------------------------
(* The graph itself: names are unique, an edge joins two entities that are *)
(* there, and there is one for a relation.                                 *)

Unique == \A u, v \in Entities :
            Exists(u) /\ Exists(v) /\ node[u].name = node[v].name /\ u # v => node[u].name = None
Attached == \A e \in edges : Exists(e.from) /\ Exists(e.to)
GraphInv == GraphOk /\ Unique /\ Attached /\ OneEdgeEach

(* No row comes, goes or changes its vector.                               *)
SameRows ==
  \A u \in Entities : /\ node'[u] = Absent <=> node[u] = Absent
                      /\ Exists(u)' <=> Exists(u)
                      /\ Exists(u) => node'[u].vec = node[u].vec

(* A field is set; a name only if nobody bears it.                         *)
LEMMA SetKeeps ==
  ASSUME GraphInv, RunSet, Head(job.todo) \in Writes \cup Namings,
         Head(job.todo) \in Namings => ~NameTaken(Head(job.todo).val)
  PROVE  GraphInv' /\ SameRows /\ edges' = edges
<1> DEFINE s == Head(job.todo)
           x == [node[s.on] EXCEPT ![s.field] = s.val]
<1>1. edges' = edges /\ s.on \in Entities
  BY DEF RunSet, Writes, Namings
<1>2. CASE ~Exists(s.on)
  <2>1. node' = node
    BY <1>2 DEF RunSet
  <2> QED
    BY <1>1, <2>1 DEF GraphInv, GraphOk, Unique, Attached, OneEdgeEach, SameRows, Exists
<1>3. CASE Exists(s.on)
  <2>1. node[s.on] \in Nodes
    BY <1>1, <1>3, NodeTypes DEF GraphInv, GraphOk
  <2>2. node' = [node EXCEPT ![s.on] = x]
    BY <1>3 DEF RunSet
  <2>3. /\ x \in Nodes /\ x.vec = node[s.on].vec
        /\ s \in Writes => x.name = node[s.on].name
        /\ s \in Namings => x.name = s.val
    BY <2>1, SetNode
  <2>4. x \notin {Absent, Gone}
    BY <2>3, NodeTypes
  <2> HIDE DEF x, s
  <2>5. /\ node' \in [Entities -> Nodes \cup {Absent, Gone}]
        /\ node'[s.on] = x /\ \A u \in Entities : u # s.on => node'[u] = node[u]
    BY <1>1, <2>2, <2>3 DEF GraphInv, GraphOk
  <2>6. SameRows
    BY <1>1, <1>3, <2>3, <2>4, <2>5 DEF SameRows, Exists
  <2>7. \A u \in Entities : Exists(u)' <=> Exists(u)
    BY <2>6 DEF SameRows
  <2>8. Attached'
    <3>1. \A e \in edges : e.from \in Entities /\ e.to \in Entities
      BY DEF GraphInv, GraphOk, Edges
    <3>2. \A e \in edges : Exists(e.from)' /\ Exists(e.to)'
      BY <2>7, <3>1 DEF GraphInv, Attached
    <3> QED
      BY <1>1, <3>2 DEF Attached
  <2>9. Unique'
    <3>1. CASE s \in Writes
      <4>1. \A u \in Entities : node'[u].name = node[u].name
        BY <2>3, <2>5, <3>1
      <4> QED
        BY <2>7, <4>1 DEF GraphInv, Unique
    <3>2. CASE s \in Namings
      <4>1. \A u \in Entities : Exists(u) => node[u].name # s.val
        BY <3>2 DEF NameTaken, s
      <4>2. SUFFICES ASSUME NEW u \in Entities, NEW v \in Entities, Exists(u)', Exists(v)',
                            node'[u].name = node'[v].name, u # v
                     PROVE  node'[u].name = None
        BY DEF Unique
      <4>3. Exists(u) /\ Exists(v)
        BY <2>7, <4>2
      <4> QED
        BY <2>3, <2>5, <3>2, <4>1, <4>2, <4>3 DEF GraphInv, Unique
    <3> QED
      BY <3>1, <3>2 DEF s
  <2> QED
    BY <1>1, <2>5, <2>6, <2>8, <2>9 DEF GraphInv, GraphOk, OneEdgeEach
<1> QED
  BY <1>2, <1>3

(* Edges are dropped.                                                      *)
LEMMA UnlinkKeeps == GraphInv /\ UNCHANGED node /\ edges' \subseteq edges => GraphInv'
<1> SUFFICES ASSUME GraphInv, UNCHANGED node, edges' \subseteq edges PROVE GraphInv'
  OBVIOUS
<1>1. IsFiniteSet(edges')
  BY FS_Subset DEF GraphInv, GraphOk
<1> QED
  BY <1>1 DEF GraphInv, GraphOk, Unique, Attached, OneEdgeEach, Exists

(* An edge is made where there is none.                                    *)
LEMMA LinkKeeps ==
  ASSUME GraphInv, UNCHANGED node, NEW e \in Edges, edges' = Linked(edges, e),
         e.rel = "ALIASED_TO" \/ Same(e) = {}
  PROVE  GraphInv'
<1>1. IsFiniteSet(edges') /\ edges' \subseteq Edges
  BY FS_AddElement DEF GraphInv, GraphOk, Linked
<1>2. Attached'
  BY DEF GraphInv, Attached, Linked, Exists
<1>3. OneEdgeEach'
  <2> SUFFICES ASSUME NEW f \in edges', NEW g \in edges', Key(f) = Key(g), f.rel # "ALIASED_TO"
               PROVE  f = g
    BY DEF OneEdgeEach, Key
  <2>1. f.rel = g.rel
    BY DEF Key
  <2>2. CASE f \in edges /\ g \in edges
    BY <2>2 DEF GraphInv, OneEdgeEach
  <2>3. CASE f = e /\ g \in edges
    BY <2>3, <2>1 DEF Same
  <2>4. CASE g = e /\ f \in edges
    BY <2>4, <2>1 DEF Same
  <2> QED
    BY <2>2, <2>3, <2>4 DEF Linked
<1> QED
  BY <1>1, <1>2, <1>3 DEF GraphInv, GraphOk, Unique, Exists

(* The edges there are for a relation are given another weight.            *)
LEMMA ReweighKeeps ==
  ASSUME GraphInv, UNCHANGED node, NEW e \in Edges, NEW w \in [Same(e) -> 1..Strength],
         edges' = (edges \ Same(e)) \cup {[f EXCEPT !.weight = w[f]] : f \in Same(e)}
  PROVE  GraphInv'
<1> DEFINE g == [f \in Same(e) |-> [f EXCEPT !.weight = w[f]]]
           new == {g[f] : f \in Same(e)}
<1>1. edges' = (edges \ Same(e)) \cup new
  OBVIOUS
<1>2. Same(e) \subseteq edges /\ edges \subseteq Edges /\ IsFiniteSet(edges)
  BY DEF Same, GraphInv, GraphOk
<1>3. \A f \in Same(e) : /\ g[f] \in Edges /\ Key(g[f]) = Key(f)
                         /\ g[f].from = f.from /\ g[f].to = f.to /\ g[f].rel = f.rel
  BY <1>2 DEF Edges, Key
<1>4. \A f \in Same(e) : Key(f) = Key(e)
  BY DEF Same
<1> HIDE DEF g
<1>5. IsFiniteSet(Same(e))
  BY <1>2, FS_Subset
<1>6. IsFiniteSet(new)
  BY <1>5, FiniteImage
<1>7. IsFiniteSet(edges \ Same(e))
  BY <1>2, FS_Difference
<1>8. IsFiniteSet(edges')
  <2> DEFINE rest == edges \ Same(e)
  <2>1. edges' = rest \cup new /\ IsFiniteSet(rest)
    BY <1>1, <1>7
  <2> HIDE DEF new, rest
  <2>2. IsFiniteSet(rest \cup new)
    BY <1>6, <2>1, FS_Union
  <2> QED
    BY <2>1, <2>2
<1>9. \A f \in edges' : \E h \in edges : /\ f \in Edges /\ f.from = h.from /\ f.to = h.to /\ f.rel = h.rel
                                         /\ f = h \/ (h \in Same(e) /\ f = g[h])
  BY <1>1, <1>2, <1>3
<1>10. Attached'
  BY <1>9 DEF GraphInv, Attached, Exists
<1>11. OneEdgeEach'
  <2> SUFFICES ASSUME NEW f \in edges', NEW h \in edges', Key(f) = Key(h), f.rel # "ALIASED_TO"
               PROVE  f = h
    BY DEF OneEdgeEach, Key
  <2>1. PICK a \in edges : a.rel = f.rel /\ Key(a) = Key(f) /\ (f = a \/ (a \in Same(e) /\ f = g[a]))
    BY <1>9 DEF Key
  <2>2. PICK b \in edges : b.rel = h.rel /\ Key(b) = Key(h) /\ (h = b \/ (b \in Same(e) /\ h = g[b]))
    BY <1>9 DEF Key
  <2>3. a = b
    BY <2>1, <2>2 DEF GraphInv, OneEdgeEach
  <2>4. Key(a) = Key(e) => a \in Same(e)
    BY DEF Same
  <2>5. CASE a \in Same(e)
    <3>1. f \in new /\ h \in new
      BY <1>1, <1>4, <2>1, <2>2, <2>3, <2>5 DEF Same
    <3>2. PICK a1 \in Same(e) : f = g[a1]
      BY <3>1
    <3>3. PICK b1 \in Same(e) : h = g[b1]
      BY <3>1
    <3>4. a1 = a /\ b1 = a
      <4>1. a1 \in edges /\ b1 \in edges /\ Key(a1) = Key(a) /\ Key(b1) = Key(a)
        BY <1>2, <1>4, <2>5
      <4>2. a.rel # "ALIASED_TO"
        BY <2>1
      <4> QED
        BY <4>1, <4>2 DEF GraphInv, OneEdgeEach
    <3> QED
      BY <3>2, <3>3, <3>4
  <2>6. CASE a \notin Same(e)
    BY <2>1, <2>2, <2>3, <2>6
  <2> QED
    BY <2>5, <2>6
<1>12. edges' \subseteq Edges
  BY <1>9
<1> QED
  BY <1>8, <1>10, <1>11, <1>12 DEF GraphInv, GraphOk, Unique, Exists

(* A new row, and no edge yet.                                             *)
LEMMA CreateKeeps ==
  ASSUME GraphInv, RunCreate, Head(job.todo) \in Creates, node[Head(job.todo).on] = Absent
  PROVE  /\ GraphInv' /\ edges' = edges
         /\ \A u \in Entities : /\ node'[u] = Absent => node[u] = Absent
                                /\ u # Head(job.todo).on => node'[u] = node[u]
         /\ node'[Head(job.todo).on].name = None
<1> DEFINE u0 == Head(job.todo).on
           x == [name |-> None, desc |-> Unwritten, content |-> Unwritten, hash |-> None, vec |-> None]
<1>1. u0 \in Entities /\ edges' = edges /\ node' = [node EXCEPT ![u0] = x]
  BY DEF RunCreate, Creates
<1>2. x \in Nodes /\ x.name = None
  BY NodeTypes DEF Nodes
<1>3. x \notin {Absent, Gone}
  BY <1>2, NodeTypes
<1> HIDE DEF x
<1>4. /\ node' \in [Entities -> Nodes \cup {Absent, Gone}]
      /\ node'[u0] = x /\ \A u \in Entities : u # u0 => node'[u] = node[u]
  BY <1>1, <1>2 DEF GraphInv, GraphOk
<1>5. \A u \in Entities : Exists(u) => u # u0 /\ Exists(u)'
  BY <1>4 DEF Exists
<1>6. Attached'
  BY <1>1, <1>5 DEF GraphInv, GraphOk, Attached, Edges
<1>7. Unique'
  <2> SUFFICES ASSUME NEW u \in Entities, NEW v \in Entities, Exists(u)', Exists(v)',
                      node'[u].name = node'[v].name, u # v
               PROVE  node'[u].name = None
    BY DEF Unique
  <2>1. CASE u = u0 \/ v = u0
    BY <1>2, <1>4, <2>1
  <2>2. CASE u # u0 /\ v # u0
    BY <1>4, <2>2 DEF GraphInv, Unique, Exists
  <2> QED
    BY <2>1, <2>2
<1> QED
  BY <1>1, <1>2, <1>3, <1>4, <1>6, <1>7 DEF GraphInv, GraphOk, OneEdgeEach

(* A row goes with its edges.                                              *)
LEMMA DeleteKeeps ==
  ASSUME GraphInv, RunDelete, Head(job.todo) \in Deletes
  PROVE  /\ GraphInv' /\ edges' \subseteq edges
         /\ \A u \in Entities : /\ node'[u] = Absent => node[u] = Absent
                                /\ Exists(u)' => node'[u] = node[u]
<1> DEFINE d == Head(job.todo).on
<1>1. d \in Entities /\ edges' = {e \in edges : d \notin {e.from, e.to}}
  BY DEF RunDelete, Deletes
<1>2. node' = node \/ node' = [node EXCEPT ![d] = Gone]
  BY DEF RunDelete
<1>3. edges' \subseteq edges /\ IsFiniteSet(edges')
  BY <1>1, FS_Subset DEF GraphInv, GraphOk
<1>4. node' \in [Entities -> Nodes \cup {Absent, Gone}]
  BY <1>1, <1>2 DEF GraphInv, GraphOk
<1>5. \A u \in Entities : /\ u # d => node'[u] = node[u]
                          /\ node'[u] = Absent => node[u] = Absent
                          /\ Exists(u)' => node'[u] = node[u]
  BY <1>1, <1>2, NoRowIsNoNode DEF GraphInv, GraphOk, Exists
<1>6. Attached'
  BY <1>1, <1>5 DEF GraphInv, GraphOk, Attached, Edges, Exists
<1>7. Unique'
  BY <1>5 DEF GraphInv, Unique, Exists
<1> QED
  BY <1>3, <1>4, <1>5, <1>6, <1>7 DEF GraphInv, GraphOk, OneEdgeEach

(* A relation is moved onto the canonical: it is there now, at least as    *)
(* strong, and so is every relation that was there.                        *)
LEMMA RepointKeeps ==
  ASSUME GraphInv, UNCHANGED node, NEW e \in Edges, edges' = MergedOnto(e)
  PROVE  /\ GraphInv'
         /\ \A f \in edges : \E g \in edges' : Key(g) = Key(f) /\ g.weight >= f.weight
         /\ Exists(e.from) /\ Exists(e.to) => \E g \in edges' : Key(g) = Key(e) /\ g.weight >= e.weight
         /\ \A g \in edges' : g \in edges \/ Key(g) = Key(e)
         /\ \A f \in edges : f \in edges' \/ Key(f) = Key(e)
<1>1. CASE Same(e) = {}
  <2>1. edges' = Linked(edges, e)
    BY <1>1 DEF MergedOnto
  <2>2. GraphInv'
    BY <1>1, <2>1, LinkKeeps
  <2>3. \A f \in edges \cup {e} : f.weight >= f.weight
    BY GraphAssumption DEF GraphInv, GraphOk, Edges
  <2> QED
    BY <2>1, <2>2, <2>3 DEF Linked
<1>2. CASE Same(e) # {}
  <2> DEFINE w == [f \in Same(e) |-> Stronger(f.weight, e.weight)]
  <2>1. Same(e) \subseteq edges /\ edges \subseteq Edges
    BY DEF Same, GraphInv, GraphOk
  <2>2. /\ w \in [Same(e) -> 1..Strength]
        /\ \A f \in Same(e) : w[f] >= f.weight /\ w[f] >= e.weight
    BY <2>1, GraphAssumption DEF Edges, Stronger
  <2>3. edges' = (edges \ Same(e)) \cup {[f EXCEPT !.weight = w[f]] : f \in Same(e)}
    BY <1>2 DEF MergedOnto
  <2> HIDE DEF w
  <2>4. GraphInv'
    BY <2>2, <2>3, ReweighKeeps
  <2>5. \A f \in Same(e) : /\ [f EXCEPT !.weight = w[f]] \in edges'
                           /\ Key([f EXCEPT !.weight = w[f]]) = Key(e)
                           /\ [f EXCEPT !.weight = w[f]].weight >= f.weight
                           /\ [f EXCEPT !.weight = w[f]].weight >= e.weight
                           /\ Key(f) = Key(e)
    BY <2>1, <2>2, <2>3 DEF Edges, Key, Same
  <2>6. \A f \in edges : f.weight >= f.weight /\ (f \notin Same(e) => f \in edges')
    BY <2>1, <2>3 DEF Edges
  <2>7. \A f \in edges : \E g \in edges' : Key(g) = Key(f) /\ g.weight >= f.weight
    BY <2>5, <2>6
  <2>8. \E g \in edges' : Key(g) = Key(e) /\ g.weight >= e.weight
    BY <1>2, <2>5
  <2>9. \A g \in edges' : g \in edges \/ Key(g) = Key(e)
    BY <2>3, <2>5
  <2>10. \A f \in edges : f \in edges' \/ Key(f) = Key(e)
    BY <2>5, <2>6
  <2> QED
    BY <2>4, <2>7, <2>8, <2>9, <2>10
<1> QED
  BY <1>1, <1>2

-----------------------------------------------------------------------------
(* What the holder of the lock has still to run is one of five lists.  A   *)
(* statement that makes a name or an edge relies on what the call found    *)
(* when it took the lock, and a merge has still to move whatever relation  *)
(* of the duplicate the canonical does not have.                           *)

Quiets == Writes \cup Unlinks \cup {s \in Links : s.do = "reweigh" \/ s.edge.rel = "ALIASED_TO"}
            \cup {s \in Deletes : s.into = None}
NewLinks == {s \in Links : s.do = "link" /\ s.edge.rel \in Relations}

Quiet(todo) == todo \in Seq(Quiets) /\ todo # <<>>

Adding(todo) ==
  /\ todo \in Seq(Statements) /\ Len(todo) > 1
  /\ todo[1] \in Creates /\ node[todo[1].on] = Absent
  /\ todo[2] \in Namings /\ ~NameTaken(todo[2].val)
  /\ \A k \in DOMAIN todo : k \in {1, 2} \/ todo[k] \in Writes

Naming(todo) ==
  /\ todo \in Seq(Statements) /\ todo # <<>>
  /\ todo[1] \in Namings /\ ~NameTaken(todo[1].val)
  /\ \A k \in DOMAIN todo : k = 1 \/ todo[k] \in Writes

Linking(todo) ==
  /\ todo \in Seq(Statements) /\ todo # <<>>
  /\ todo[Len(todo)] \in NewLinks /\ Same(todo[Len(todo)].edge) = {}
  /\ \A k \in DOMAIN todo : k = Len(todo) \/ todo[k] \in Unlinks

\* e joins the duplicate d with a third entity.
Third(e, c, d) == d \in {e.from, e.to} /\ ~({e.from, e.to} \subseteq {c, d})

\* f says of the canonical c what e says of the duplicate.
Carries(f, e, c, d) ==
  /\ f.rel = e.rel /\ f.weight >= e.weight
  /\ f.from = IF e.from = d THEN c ELSE e.from
  /\ f.to = IF e.to = d THEN c ELSE e.to

Covered(todo, e, c, d) ==
  \/ \E f \in edges : Carries(f, e, c, d)
  \/ \E k \in DOMAIN todo : todo[k] \in Repoints /\ Carries(todo[k].edge, e, c, d)

Moving(todo, c, d) ==
  /\ todo \in Seq(Statements) /\ todo # <<>>
  /\ todo[Len(todo)] \in Deletes /\ todo[Len(todo)].on = d /\ todo[Len(todo)].into = c
  /\ \A k \in DOMAIN todo :
       \/ k = Len(todo) \/ todo[k] \in Writes
       \/ todo[k] \in Repoints /\ c \in {todo[k].edge.from, todo[k].edge.to}
  /\ Exists(c) => \A e \in edges : Third(e, c, d) => Covered(todo, e, c, d)

Merging(todo) == \E c, d \in Entities : c # d /\ Moving(todo, c, d)

Listed(todo) == Quiet(todo) \/ Adding(todo) \/ Naming(todo) \/ Linking(todo) \/ Merging(todo)
JobInv == job # Free => job \in [by: {"tool", "dedup"}, todo: Seq(Statements)] /\ Listed(job.todo)

LEMMA Kinds ==
  /\ Quiets \subseteq Statements /\ NewLinks \subseteq Statements /\ Writes \subseteq Quiets
  /\ \A u \in Entities, d \in Descs : Rewrite(u, d) \in Seq(Writes) /\ Rewrite(u, d) # <<>>
  /\ \A e \in Edges : Repoint(e) \in Repoints /\ Repoint(e).edge \in Edges
<1>1. \A u \in Entities, d \in Descs :
        /\ Set(u, "desc", d) \in Writes /\ Set(u, "content", d) \in Writes
        /\ [Set(u, "hash", None) EXCEPT !.stale = {u}] \in Writes
  BY DEF Set, Writes
<1>2. \A e \in Edges : [e EXCEPT !.born = 1] \in Edges
  BY DEF Edges
<1> QED
  BY <1>1, <1>2 DEF Quiets, NewLinks, Statements, Rewrite, Repoint, Repoints

(* A list is as it was as long as the graph is.                            *)
LEMMA Opened ==
  ASSUME UNCHANGED <<node, edges>>, NEW b \in {"tool", "dedup"}, NEW s, Listed(s),
         job' = [by |-> b, todo |-> s]
  PROVE  JobInv'
<1>7. s \in Seq(Statements)
  BY Kinds DEF Listed, Quiet, Adding, Naming, Linking, Merging, Moving
<1>1. job'.todo = s /\ job' \in [by: {"tool", "dedup"}, todo: Seq(Statements)]
  BY <1>7
<1>2. CASE Quiet(s)
  BY <1>1, <1>2 DEF JobInv, Listed, Quiet
<1>3. CASE Adding(s)
  <2>1. Adding(job.todo)'
    BY <1>1, <1>3 DEF Adding, NameTaken, Exists
  <2> QED
    BY <1>1, <2>1 DEF JobInv, Listed
<1>4. CASE Naming(s)
  <2>1. Naming(job.todo)'
    BY <1>1, <1>4 DEF Naming, NameTaken, Exists
  <2> QED
    BY <1>1, <2>1 DEF JobInv, Listed
<1>5. CASE Linking(s)
  <2>1. Linking(job.todo)'
    BY <1>1, <1>5 DEF Linking, Same, Key
  <2> QED
    BY <1>1, <2>1 DEF JobInv, Listed
<1>6. CASE Merging(s)
  <2>1. PICK c \in Entities, d \in Entities : c # d /\ Moving(s, c, d)
    BY <1>6 DEF Merging
  <2>2. Moving(job.todo, c, d)'
    BY <1>1, <2>1 DEF Moving, Third, Covered, Carries, Exists
  <2> QED
    BY <1>1, <2>1, <2>2 DEF JobInv, Listed, Merging
<1> QED
  BY <1>2, <1>3, <1>4, <1>5, <1>6 DEF Listed

(* What a merge leaves to be run.                                          *)
LEMMA MergeLists ==
  ASSUME GraphInv, NEW c \in Entities, NEW d \in Entities, c # d, NEW dd \in Descs, NEW text \in Descs,
         NEW verdict \in Verdicts, NEW s \in Merge(c, d, dd, text, verdict)
  PROVE  Listed(s)
<1>1. edges \subseteq Edges /\ IsFiniteSet(edges)
  BY DEF GraphInv, GraphOk
<1>2. CASE verdict = "alias"
  <2>1. s = Alias(c, d, dd, text)
    BY <1>2 DEF Merge
  <2> DEFINE note == IF c \in dd.notes THEN <<>> ELSE Rewrite(d, [dd EXCEPT !.notes = @ \cup {c}])
             link == [do |-> "link", edge |-> [from |-> d, rel |-> "ALIASED_TO", to |-> c,
                                               weight |-> Strength, born |-> 1], stale |-> {}]
  <2>2. [dd EXCEPT !.notes = @ \cup {c}] \in Descs
    BY DEF Descs
  <2>3. note \in Seq(Quiets)
    BY <2>2, Kinds
  <2>4. Rewrite(c, text) \in Seq(Quiets)
    BY Kinds
  <2>5. <<link>> \in Seq(Quiets) /\ <<link>> # <<>>
    BY GraphAssumption DEF Quiets, Links, Edges
  <2>6. s = Rewrite(c, text) \o note \o <<link>>
    BY <2>1 DEF Alias
  <2> HIDE DEF note, link
  <2>7. Rewrite(c, text) \o note \in Seq(Quiets)
    BY <2>3, <2>4, Joint
  <2>8. s \in Seq(Quiets) /\ Len(s) = Len(Rewrite(c, text) \o note) + Len(<<link>>)
    BY <2>5, <2>6, <2>7, Joint
  <2>9. s # <<>>
    BY <2>7, <2>8
  <2> QED
    BY <2>8, <2>9 DEF Listed, Quiet
<1>3. CASE verdict # "alias"
  <2> DEFINE last == [do |-> "delete", on |-> d, into |-> c, stale |-> {d}]
             mv == {x \in Repoints : c \in {x.edge.from, x.edge.to}}
             any == Writes \cup mv
  <2>1. PICK out \in SetToSeqs(Outgoing(c, d)), in \in SetToSeqs(Incoming(c, d)) :
          s = (out \o in) \o Rewrite(c, text) \o <<last>>
    <3>1. PICK m \in Repointed(c, d) : s = m \o Rewrite(c, text) \o Discard(d, c)
      BY <1>3 DEF Merge
    <3>2. PICK out \in SetToSeqs(Outgoing(c, d)), in \in SetToSeqs(Incoming(c, d)) : m = out \o in
      BY <3>1 DEF Repointed
    <3> QED
      BY <3>1, <3>2 DEF Discard
  <2>2. Outgoing(c, d) \subseteq mv /\ IsFiniteSet(Outgoing(c, d))
    <3> DEFINE S == {f \in edges : f.from = d /\ f.to # c}
               g == [e \in S |-> Repoint([e EXCEPT !.from = c])]
    <3>1. IsFiniteSet(S)
      BY <1>1, FS_Subset
    <3>2. \A e \in S : [e EXCEPT !.from = c] \in Edges /\ [e EXCEPT !.from = c].from = c
      BY <1>1 DEF Edges
    <3>3. \A e \in S : g[e] \in mv
      BY <3>2, Kinds DEF Repoint, Edges
    <3>4. Outgoing(c, d) = {g[e] : e \in S}
      BY DEF Outgoing
    <3> HIDE DEF S, g, mv
    <3> QED
      BY <3>1, <3>3, <3>4, FiniteImage
  <2>3. Incoming(c, d) \subseteq mv /\ IsFiniteSet(Incoming(c, d))
    <3> DEFINE S == {f \in edges : f.to = d /\ f.from # c}
               g == [e \in S |-> Repoint([e EXCEPT !.to = c])]
    <3>1. IsFiniteSet(S)
      BY <1>1, FS_Subset
    <3>2. \A e \in S : [e EXCEPT !.to = c] \in Edges /\ [e EXCEPT !.to = c].to = c
      BY <1>1 DEF Edges
    <3>3. \A e \in S : g[e] \in mv
      BY <3>2, Kinds DEF Repoint, Edges
    <3>4. Incoming(c, d) = {g[e] : e \in S}
      BY DEF Incoming
    <3> HIDE DEF S, g, mv
    <3> QED
      BY <3>1, <3>3, <3>4, FiniteImage
  <2>4. last \in Deletes
    BY DEF Deletes
  <2>5. last.on = d /\ last.into = c
    OBVIOUS
  <2>6. any \subseteq Statements /\ last \in Statements /\ mv \subseteq Repoints
    BY <2>4 DEF Statements
  <2>7. Rewrite(c, text) \in Seq(any)
    BY Kinds
  <2> DEFINE moves == out \o in
             body == moves \o Rewrite(c, text)
  <2>8. s = body \o <<last>>
    BY <2>1
  <2>9. out \in Seq(any) /\ in \in Seq(any)
    <3> HIDE DEF any, mv
    <3>1. out \in Seq(Outgoing(c, d)) /\ in \in Seq(Incoming(c, d))
      BY <2>2, <2>3, Ordered
    <3>2. Outgoing(c, d) \subseteq any /\ Incoming(c, d) \subseteq any
      BY <2>2, <2>3 DEF any
    <3> QED
      BY <3>1, <3>2
  <2> HIDE DEF last, any, moves, body
  <2>10. moves \in Seq(any) /\ body \in Seq(any)
    <3>1. moves \in Seq(any)
      BY <2>9, Joint DEF moves
    <3> QED
      BY <2>7, <3>1, Joint DEF body
  <2>11. body \in Seq(Statements) /\ <<last>> \in Seq(Statements)
    BY <2>6, <2>10
  <2>12. PICK n \in Nat : n = Len(body)
    BY <2>10
  <2>13. /\ s \in Seq(Statements) /\ Len(s) = n + 1 /\ DOMAIN s = 1..(n + 1) /\ DOMAIN body = 1..n
         /\ \A k \in 1..n : s[k] = body[k]
         /\ s[n + 1] = last
    <3>1. Len(<<last>>) = 1 /\ DOMAIN <<last>> = 1..1 /\ <<last>>[1] = last
      OBVIOUS
    <3>2. DOMAIN body = 1..n
      BY <2>11, <2>12
    <3> QED
      BY <2>8, <2>11, <2>12, <3>1, <3>2, Joint
  <2>14. \A k \in 1..n : body[k] \in any
    BY <2>10, <2>12
  <2>15. ASSUME NEW x \in Outgoing(c, d) \cup Incoming(c, d) PROVE \E k \in 1..n : s[k] = x
    <3>1. DOMAIN body = 1..n
      BY <2>13
    <3>2. \A k \in DOMAIN moves : k \in DOMAIN body /\ body[k] = moves[k]
      BY <2>7, <2>10, Joint DEF body
    <3>3. CASE x \in Outgoing(c, d)
      <4>1. PICK k \in DOMAIN out : out[k] = x
        BY <2>2, <3>3, Ordered
      <4>2. k \in DOMAIN moves /\ moves[k] = x
        BY <2>9, <4>1, Joint DEF moves
      <4> QED
        BY <2>13, <3>1, <3>2, <4>2
    <3>4. CASE x \in Incoming(c, d)
      <4>1. PICK k \in DOMAIN in : in[k] = x
        BY <2>3, <3>4, Ordered
      <4>2. Len(out) + k \in DOMAIN moves /\ moves[Len(out) + k] = x
        BY <2>9, <4>1, Joint DEF moves
      <4> QED
        BY <2>13, <3>1, <3>2, <4>2
    <3> QED
      BY <3>3, <3>4
  <2>16. ASSUME NEW e \in edges, Third(e, c, d)
         PROVE  \E k \in DOMAIN s : s[k] \in Repoints /\ Carries(s[k].edge, e, c, d)
    <3>1. e \in Edges /\ e.weight \in Nat /\ e.weight >= e.weight
      BY <1>1, GraphAssumption DEF Edges
    <3>2. CASE e.from = d
      <4>1. e.to # c /\ e.to # d
        BY <2>16, <3>2 DEF Third
      <4>2. PICK x : x = Repoint([e EXCEPT !.from = c])
        OBVIOUS
      <4>3. x \in Outgoing(c, d)
        BY <3>2, <4>1, <4>2 DEF Outgoing
      <4>4. Carries(x.edge, e, c, d)
        BY <3>1, <3>2, <4>1, <4>2 DEF Carries, Repoint, Edges
      <4>5. PICK k \in 1..n : s[k] = x
        BY <2>15, <4>3
      <4> QED
        BY <2>2, <2>6, <2>13, <4>3, <4>4, <4>5
    <3>3. CASE e.from # d
      <4>1. e.to = d /\ e.from # c
        BY <2>16, <3>3 DEF Third
      <4>2. PICK x : x = Repoint([e EXCEPT !.to = c])
        OBVIOUS
      <4>3. x \in Incoming(c, d)
        BY <4>1, <4>2 DEF Incoming
      <4>4. Carries(x.edge, e, c, d)
        BY <3>1, <3>3, <4>1, <4>2 DEF Carries, Repoint, Edges
      <4>5. PICK k \in 1..n : s[k] = x
        BY <2>15, <4>3
      <4> QED
        BY <2>3, <2>6, <2>13, <4>3, <4>4, <4>5
    <3> QED
      BY <3>2, <3>3
  <2>17. \A k \in DOMAIN s : \/ k = Len(s) \/ s[k] \in Writes
                             \/ s[k] \in Repoints /\ c \in {s[k].edge.from, s[k].edge.to}
    BY <2>13, <2>14 DEF any
  <2>18. Moving(s, c, d)
    BY <2>4, <2>5, <2>13, <2>16, <2>17 DEF Moving, Covered
  <2> QED
    BY <2>18 DEF Listed, Merging
<1> QED
  BY <1>2, <1>3

(* A librarian's tool takes the lock with one of these lists.              *)
Opens(by) == \E s : Listed(s) /\ job' = [by |-> by, todo |-> s]

LEMMA ToolOpens ==
  ASSUME GraphInv, Tool
  PROVE  Opens("tool") /\ UNCHANGED <<node, edges, index, cache, dedup>>
<1>1. ASSUME NEW s, Listed(s), Call(s)
      PROVE  Opens("tool") /\ UNCHANGED <<node, edges, index, cache, dedup>>
  BY <1>1 DEF Call, Opens
<1>9. \A x \in Quiets : Listed(<<x>>)
  BY DEF Listed, Quiet
<1>2. ASSUME NEW n \in Names, NEW t \in Texts, memory_add_entity(n, t)
      PROVE  \E s : Listed(s) /\ Call(s)
  <2>1. PICK u \in Entities :
          /\ node[u] = Absent /\ ~NameTaken(n)
          /\ Call(<<[do |-> "create", on |-> u, stale |-> {}], Set(u, "name", n), Set(u, "desc", Says(t)),
                    Set(u, "content", Says(t)), Set(u, "hash", None)>>)
    BY <1>2 DEF memory_add_entity
  <2>2. PICK a, b, c, e, f : /\ a = [do |-> "create", on |-> u, stale |-> {}] /\ b = Set(u, "name", n)
                             /\ c = Set(u, "desc", Says(t)) /\ e = Set(u, "content", Says(t))
                             /\ f = Set(u, "hash", None)
    OBVIOUS
  <2>3. a \in Creates /\ a.on = u /\ b \in Namings /\ b.val = n
    BY <2>2 DEF Creates, Namings, Set
  <2>4. c \in Writes /\ e \in Writes /\ f \in Writes
    BY <2>2, NodeTypes DEF Writes, Set
  <2>5. {a, b, c, e, f} \subseteq Statements
    BY <2>3, <2>4 DEF Statements
  <2>6. Adding(<<a, b, c, e, f>>)
    BY <2>1, <2>3, <2>4, <2>5 DEF Adding
  <2> QED
    BY <2>1, <2>2, <2>6 DEF Listed
<1>3. ASSUME NEW u \in Entities, NEW t \in Texts, memory_update_entity_description(u, t)
      PROVE  \E s : Listed(s) /\ Call(s)
  <2>1. Exists(u) /\ Call(Rewrite(u, [node[u].desc EXCEPT !.said = t]))
    BY <1>3 DEF memory_update_entity_description
  <2>2. node[u].desc \in Descs
    BY <2>1, NodeTypes DEF GraphInv, GraphOk, Nodes
  <2>3. [node[u].desc EXCEPT !.said = t] \in Descs
    BY <2>2 DEF Descs
  <2> QED
    BY <2>1, <2>3, Kinds DEF Listed, Quiet
<1>4. ASSUME NEW u \in Entities, memory_delete_entity(u)
      PROVE  \E s : Listed(s) /\ Call(s)
  <2>1. PICK a : a = [do |-> "delete", on |-> u, into |-> None, stale |-> {u}]
    OBVIOUS
  <2>2. a \in Quiets
    BY <2>1 DEF Quiets, Deletes
  <2>3. Call(<<a>>)
    BY <1>4, <2>1 DEF memory_delete_entity
  <2> QED
    BY <1>9, <2>2, <2>3
<1>5. ASSUME NEW u \in Entities, NEW v \in Entities, NEW r \in Relations, NEW w \in 1..Strength,
             memory_set_relationship(u, r, v, w)
      PROVE  \E s : Listed(s) /\ Call(s)
  <2> DEFINE e == [from |-> u, rel |-> r, to |-> v, weight |-> w, born |-> 1]
             x == [do |-> IF Same(e) # {} THEN "reweigh" ELSE "link", edge |-> e, stale |-> {}]
             U == {Unlink(u, v, {q}) : q \in Conflicts[r]}
  <2>1. PICK first \in SetToSeqs(U) : Call(first \o <<x>>)
    BY <1>5 DEF memory_set_relationship
  <2>2. U \subseteq Unlinks /\ IsFiniteSet(U)
    <3> DEFINE g == [q \in Conflicts[r] |-> Unlink(u, v, {q})]
    <3>1. IsFiniteSet(Conflicts[r])
      BY GraphAssumption, FS_Subset
    <3>2. \A q \in Conflicts[r] : Unlink(u, v, {q}) \in Unlinks
      BY GraphAssumption DEF Unlink, Unlinks
    <3>3. U = {g[q] : q \in Conflicts[r]}
      OBVIOUS
    <3> HIDE DEF g
    <3>4. IsFiniteSet({g[q] : q \in Conflicts[r]})
      BY <3>1, FiniteImage
    <3> QED
      BY <3>2, <3>3, <3>4
  <2> HIDE DEF U
  <2>3. first \in Seq(Unlinks)
    BY <2>1, <2>2, Ordered
  <2>4. e \in Edges /\ e.rel \in Relations
    BY DEF Edges
  <2>5. /\ x \in Links /\ x.edge = e
        /\ x.do = "link" \/ x.do = "reweigh"
        /\ x.do = "link" => Same(e) = {}
    BY <2>4 DEF Links
  <2> HIDE DEF x, e
  <2>6. x \in Statements /\ (x.do = "reweigh" => x \in Quiets) /\ (x.do = "link" => x \in NewLinks)
    BY <2>4, <2>5 DEF Statements, Quiets, NewLinks
  <2>7. first \in Seq(Statements) /\ <<x>> \in Seq(Statements)
    BY <2>3, <2>6 DEF Statements
  <2>8. PICK n \in Nat : n = Len(first)
    BY <2>3
  <2>9. /\ first \o <<x>> \in Seq(Statements) /\ Len(first \o <<x>>) = n + 1
        /\ DOMAIN (first \o <<x>>) = 1..(n + 1) /\ (first \o <<x>>)[n + 1] = x
        /\ \A k \in 1..n : (first \o <<x>>)[k] = first[k]
    <3>1. Len(<<x>>) = 1 /\ DOMAIN <<x>> = 1..1 /\ <<x>>[1] = x
      OBVIOUS
    <3>2. DOMAIN first = 1..n
      BY <2>7, <2>8
    <3> QED
      BY <2>7, <2>8, <3>1, <3>2, Joint
  <2>10. PICK s : s = first \o <<x>>
    OBVIOUS
  <2>11. \A k \in 1..n : s[k] \in Unlinks
    BY <2>3, <2>8, <2>9, <2>10
  <2>12. CASE x.do = "link"
    <3>1. Linking(s)
      BY <2>5, <2>6, <2>9, <2>10, <2>11, <2>12 DEF Linking
    <3> QED
      BY <2>1, <2>10, <3>1 DEF Listed
  <2>13. CASE x.do = "reweigh"
    <3>1. Unlinks \subseteq Quiets /\ x \in Quiets
      BY <2>6, <2>13 DEF Quiets
    <3>2. first \in Seq(Quiets) /\ <<x>> \in Seq(Quiets)
      BY <2>3, <3>1
    <3>3. s \in Seq(Quiets)
      BY <2>10, <3>2, Joint
    <3>4. s # <<>>
      BY <2>9, <2>10
    <3> QED
      BY <2>1, <2>10, <3>3, <3>4 DEF Listed, Quiet
  <2> QED
    BY <2>5, <2>12, <2>13
<1>6. ASSUME NEW u \in Entities, NEW v \in Entities, NEW rels \in SUBSET (Relations \cup {"ALIASED_TO"}),
             memory_delete_relationship(u, v, rels)
      PROVE  \E s : Listed(s) /\ Call(s)
  <2>1. Unlink(u, v, rels) \in Quiets
    BY DEF Unlink, Unlinks, Quiets
  <2>2. Call(<<Unlink(u, v, rels)>>)
    BY <1>6 DEF memory_delete_relationship
  <2> QED
    BY <1>9, <2>1, <2>2
<1>7. ASSUME NEW c \in Entities, NEW d \in Entities, NEW t \in Texts, NEW verdict \in Verdicts,
             memory_merge_into(c, d, t, verdict)
      PROVE  \E s : Listed(s) /\ Call(s)
  <2>1. Exists(d) /\ c # d /\ \E s \in Merge(c, d, node[d].desc, Says(t), verdict) : Call(s)
    BY <1>7 DEF memory_merge_into
  <2>2. node[d].desc \in Descs /\ Says(t) \in Descs
    BY <2>1, NodeTypes DEF GraphInv, GraphOk, Nodes
  <2> QED
    BY <2>1, <2>2, MergeLists
<1>8. \E s : Listed(s) /\ Call(s)
  BY <1>2, <1>3, <1>4, <1>5, <1>6, <1>7 DEF Tool
<1> QED
  BY <1>1, <1>8

-----------------------------------------------------------------------------
(* The deduplication cycle.  Its pairs are not settled ones, and a group   *)
(* is made of its pairs.                                                   *)

InGroup(op) == op.c # op.d /\ {op.c, op.d} \subseteq dedup.group

Grouped == dedup.at \in {"asked", "ops", "locking", "merging"} =>
             /\ \A u, v \in dedup.group : u # v => {u, v} \in dedup.pairs
             /\ \A k \in DOMAIN dedup.ops : InGroup(dedup.ops[k])
             /\ dedup.at = "locking" => InGroup(dedup.read[1])
Unanswered == dedup.at \in {"ask", "asked"} => dedup.ops = <<>>

CycleInv == CycleOk /\ Grouped /\ Unanswered /\ dedup.pairs \cap dedup.settled = {}

\* Only the rows that are there are read to be embedded.
DirtyKept == \A u \in DOMAIN dedup'.dirty : u \in DOMAIN dedup.dirty \/ Exists(u)

LEMMA CycleStarts ==
  /\ NoCycle \in Cycles /\ NoCycle.at = "off" /\ DOMAIN NoCycle.dirty = {}
  /\ NoCycle.pairs = {} /\ NoCycle.settled = {} /\ NoCycle.ops = <<>>
<1>1. <<>> \in [{} -> Descs]
  OBVIOUS
<1>2. <<>> \in UNION {[D -> Descs] : D \in SUBSET Entities}
  BY <1>1
<1>3. <<>> \in Seq(Operations) /\ <<>> \in Readings
  BY DEF Readings
<1> QED
  BY <1>2, <1>3 DEF NoCycle, Cycles, Phases

LEMMA ScanFinds ==
  ASSUME cache \subseteq Pairs, edges \subseteq Edges, NEW ix, dedup' = Scanned(ix)
  PROVE  /\ dedup' \in Cycles /\ dedup'.at \in {"off", "ask"} /\ DOMAIN dedup'.dirty = {}
         /\ dedup'.pairs \cap dedup'.settled = {} /\ dedup'.ops = <<>>
<1> DEFINE ps == Candidates(ix)
           st == cache \cup Aliased
<1>1. ps \subseteq Pairs /\ ps \cap st = {}
  BY DEF Candidates, Settled
<1>2. CASE ps = {}
  BY <1>2, CycleStarts DEF Scanned
<1>3. CASE ps # {}
  <2> HIDE DEF ps
  <2>1. dedup' = [NoCycle EXCEPT !.at = "ask", !.settled = st, !.pairs = ps, !.uncovered = ps]
    BY <1>3 DEF Scanned, ps
  <2>2. st \subseteq SUBSET Entities
    <3>1. \A e \in edges : e.from \in Entities /\ e.to \in Entities
      BY DEF Edges
    <3>2. Aliased \subseteq SUBSET Entities
      BY <3>1 DEF Aliased
    <3>3. Pairs \subseteq SUBSET Entities
      BY DEF Pairs
    <3> QED
      BY <3>2, <3>3
  <2> HIDE DEF st
  <2>3. PICK n \in Cycles : n = NoCycle /\ DOMAIN n.dirty = {} /\ n.ops = <<>>
    BY CycleStarts
  <2>4. PICK n1 : n1 = [n EXCEPT !.at = "ask"]
    OBVIOUS
  <2>5. n1 \in Cycles /\ n1.at = "ask" /\ n1.dirty = n.dirty /\ n1.ops = n.ops
    BY <2>4 DEF Cycles, Phases
  <2>6. PICK n2 : n2 = [n1 EXCEPT !.settled = st]
    OBVIOUS
  <2>7. n2 \in Cycles /\ n2.at = "ask" /\ n2.dirty = n.dirty /\ n2.settled = st /\ n2.ops = n.ops
    BY <2>2, <2>5, <2>6 DEF Cycles
  <2>8. PICK n3 : n3 = [n2 EXCEPT !.pairs = ps]
    OBVIOUS
  <2>9. /\ n3 \in Cycles /\ n3.at = "ask" /\ n3.dirty = n.dirty /\ n3.settled = st /\ n3.pairs = ps
        /\ n3.ops = n.ops
    BY <1>1, <2>7, <2>8 DEF Cycles
  <2>10. dedup' = [n3 EXCEPT !.uncovered = ps]
    BY <2>1, <2>3, <2>4, <2>6, <2>8
  <2> QED
    BY <1>1, <2>3, <2>9, <2>10 DEF Cycles
<1> QED
  BY <1>2, <1>3

(* Outside a group there is nothing to agree on.                           *)
LEMMA Ungrouped ==
  ASSUME dedup' \in Cycles, dedup'.at \in {"off", "embedding", "writing", "ask"},
         dedup'.pairs \cap dedup'.settled = {}, dedup'.at = "ask" => dedup'.ops = <<>>
  PROVE  CycleInv'
BY DEF CycleInv, CycleOk, Grouped, Unanswered

LEMMA Resting == ASSUME dedup' = NoCycle PROVE CycleInv' /\ DirtyKept
<1>1. CycleInv'
  BY CycleStarts, Ungrouped
<1> QED
  BY <1>1, CycleStarts DEF DirtyKept

LEMMA Asking ==
  ASSUME CycleInv, NEW rest \in SUBSET Pairs, dedup' = NextGroup(rest)
  PROVE  CycleInv' /\ DirtyKept
<1>1. CASE rest = {}
  BY <1>1, Resting DEF NextGroup
<1>2. CASE rest # {}
  <2>1. dedup \in Cycles
    BY DEF CycleInv, CycleOk
  <2>2. PICK a : a = [dedup EXCEPT !.at = "ask"]
    OBVIOUS
  <2>3. a \in Cycles /\ a.at = "ask" /\ a.pairs = dedup.pairs /\ a.settled = dedup.settled /\ a.dirty = dedup.dirty
    BY <2>1, <2>2 DEF Cycles, Phases
  <2>4. PICK b : b = [a EXCEPT !.uncovered = rest]
    OBVIOUS
  <2>5. b \in Cycles /\ b.at = "ask" /\ b.pairs = dedup.pairs /\ b.settled = dedup.settled /\ b.dirty = dedup.dirty
    BY <2>3, <2>4 DEF Cycles
  <2>6. PICK c : c = [b EXCEPT !.group = {}, !.ops = <<>>]
    OBVIOUS
  <2>7. /\ c \in Cycles /\ c.at = "ask" /\ c.pairs = dedup.pairs /\ c.settled = dedup.settled
        /\ c.dirty = dedup.dirty /\ c.ops = <<>>
    <3>1. PICK g : g = [b EXCEPT !.group = {}]
      OBVIOUS
    <3>2. g \in Cycles /\ g.at = "ask" /\ g.pairs = dedup.pairs /\ g.settled = dedup.settled /\ g.dirty = dedup.dirty
      BY <2>5, <3>1 DEF Cycles
    <3>5. <<>> \in Seq(Operations)
      OBVIOUS
    <3>3. PICK none \in Seq(Operations) : none = <<>>
      BY <3>5
    <3>4. c = [g EXCEPT !.ops = none]
      BY <2>6, <3>1, <3>3
    <3> QED
      BY <3>2, <3>3, <3>4 DEF Cycles
  <2>8. dedup' = [c EXCEPT !.confirmed = {}, !.answered = FALSE]
    BY <1>2, <2>2, <2>4, <2>6 DEF NextGroup
  <2>9. /\ dedup' \in Cycles /\ dedup'.at = "ask" /\ dedup'.pairs = dedup.pairs
        /\ dedup'.settled = dedup.settled /\ dedup'.dirty = dedup.dirty /\ dedup'.ops = <<>>
    BY <2>7, <2>8 DEF Cycles
  <2>10. CycleInv'
    BY <2>9, Ungrouped DEF CycleInv
  <2> QED
    BY <2>9, <2>10 DEF DirtyKept
<1> QED
  BY <1>1, <1>2

(* The embedding pass.                                                     *)
LEMMA StartCycleKeeps ==
  ASSUME GraphInv, CycleInv, cache \subseteq Pairs, StartCycle PROVE CycleInv' /\ DirtyKept
<1> DEFINE dirty == {u \in Entities : Exists(u) /\ node[u].hash = None}
           read == [u \in dirty |-> node[u].content]
<1>1. CASE dirty = {}
  <2>1. dedup' = Scanned(index)
    BY <1>1 DEF StartCycle
  <2> QED
    BY <2>1, ScanFinds, Ungrouped DEF DirtyKept, GraphInv, GraphOk
<1>2. CASE dirty # {}
  <2>1. dedup' = [NoCycle EXCEPT !.at = "embedding", !.dirty = read]
    BY <1>2 DEF StartCycle
  <2>2. \A u \in dirty : node[u].content \in Descs
    BY NodeTypes DEF GraphInv, GraphOk, Nodes
  <2>3. read \in UNION {[D -> Descs] : D \in SUBSET Entities} /\ DOMAIN read = dirty
    <3>1. read \in [dirty -> Descs]
      BY <2>2
    <3>2. dirty \in SUBSET Entities
      OBVIOUS
    <3> HIDE DEF dirty, read
    <3> QED
      BY <3>1, <3>2
  <2> HIDE DEF read
  <2>4. /\ dedup' \in Cycles /\ dedup'.at = "embedding" /\ dedup'.pairs = {} /\ dedup'.dirty = read
    BY <2>1, <2>3, CycleStarts DEF Cycles, Phases
  <2> QED
    BY <2>3, <2>4, Ungrouped DEF DirtyKept
<1> QED
  BY <1>1, <1>2

LEMMA EmbeddedKeeps ==
  ASSUME GraphInv, CycleInv, cache \subseteq Pairs, Embedded PROVE CycleInv' /\ DirtyKept
<1>1. PICK done \in SUBSET DOMAIN dedup.dirty :
        dedup' = IF done = {} THEN Scanned(index)
                 ELSE [dedup EXCEPT !.at = "writing", !.dirty = [u \in done |-> dedup.dirty[u]]]
  BY DEF Embedded
<1>2. CASE done = {}
  BY <1>1, <1>2, ScanFinds, Ungrouped DEF DirtyKept, GraphInv, GraphOk
<1>3. CASE done # {}
  <2>1. dedup \in Cycles
    BY DEF CycleInv, CycleOk
  <2>2. PICK D \in SUBSET Entities : dedup.dirty \in [D -> Descs]
    BY <2>1 DEF Cycles
  <2> DEFINE read == [u \in done |-> dedup.dirty[u]]
  <2>3. read \in [done -> Descs] /\ done \in SUBSET Entities
    BY <2>2
  <2> HIDE DEF read
  <2>4. read \in UNION {[E -> Descs] : E \in SUBSET Entities} /\ DOMAIN read = done
    BY <2>3
  <2>5. dedup' = [dedup EXCEPT !.at = "writing", !.dirty = read]
    BY <1>1, <1>3 DEF read
  <2>6. /\ dedup' \in Cycles /\ dedup'.at = "writing" /\ dedup'.pairs = dedup.pairs
        /\ dedup'.settled = dedup.settled /\ dedup'.dirty = read
    BY <2>1, <2>4, <2>5 DEF Cycles, Phases
  <2> QED
    BY <2>4, <2>6, Ungrouped DEF DirtyKept, CycleInv
<1> QED
  BY <1>2, <1>3

LEMMA WriteVectorKeeps ==
  ASSUME GraphInv, CycleInv, cache \subseteq Pairs, NEW u \in Entities, WriteVector(u)
  PROVE  CycleInv' /\ DirtyKept /\ dedup.dirty[u] \in Descs
<1> DEFINE rest == [v \in DOMAIN dedup.dirty \ {u} |-> dedup.dirty[v]]
<1>1. dedup \in Cycles /\ dedup.at = "writing" /\ u \in DOMAIN dedup.dirty
  BY DEF CycleInv, CycleOk, WriteVector
<1>2. PICK D \in SUBSET Entities : dedup.dirty \in [D -> Descs]
  BY <1>1 DEF Cycles
<1>3. dedup' = IF rest = <<>> THEN Scanned(index') ELSE [dedup EXCEPT !.dirty = rest]
  BY DEF WriteVector
<1>4. rest \in [D \ {u} -> Descs] /\ D \ {u} \in SUBSET Entities
  BY <1>2
<1> HIDE DEF rest
<1>5. rest \in UNION {[E -> Descs] : E \in SUBSET Entities} /\ DOMAIN rest \subseteq DOMAIN dedup.dirty
  BY <1>2, <1>4
<1>6. dedup.dirty[u] \in Descs
  BY <1>1, <1>2
<1>7. CASE dedup' = Scanned(index')
  <2>1. cache \subseteq Pairs /\ edges \subseteq Edges
    BY DEF GraphInv, GraphOk
  <2>2. PICK ix : ix = index'
    OBVIOUS
  <2>3. dedup' = Scanned(ix)
    BY <1>7, <2>2
  <2>4. /\ dedup' \in Cycles /\ dedup'.at \in {"off", "ask"} /\ DOMAIN dedup'.dirty = {}
        /\ dedup'.pairs \cap dedup'.settled = {} /\ dedup'.ops = <<>>
    BY <2>1, <2>3, ScanFinds
  <2> QED
    BY <1>6, <2>4, Ungrouped DEF DirtyKept
<1>8. CASE dedup' = [dedup EXCEPT !.dirty = rest]
  <2>1. /\ dedup' \in Cycles /\ dedup'.at = "writing" /\ dedup'.pairs = dedup.pairs
        /\ dedup'.settled = dedup.settled /\ dedup'.dirty = rest
    BY <1>1, <1>5, <1>8 DEF Cycles
  <2> QED
    BY <1>5, <1>6, <2>1, Ungrouped DEF DirtyKept, CycleInv
<1> QED
  BY <1>3, <1>7, <1>8

(* The groups and what is done to them.                                    *)
LEMMA AskKeeps == ASSUME CycleInv, Ask PROVE CycleInv' /\ DirtyKept
<1>1. dedup.at = "ask" /\ dedup \in Cycles /\ dedup.ops = <<>> /\ dedup.pairs \cap dedup.settled = {}
  BY DEF Ask, CycleInv, CycleOk, Unanswered
<1>2. PICK g \in UNION {Cliques(p) : p \in dedup.uncovered} :
        dedup' = IF Cardinality({u \in g : Exists(u)}) < 2 THEN NextGroup(dedup.uncovered \ PairsOf(g))
                 ELSE [dedup EXCEPT !.at = "asked", !.group = g, !.uncovered = dedup.uncovered \ PairsOf(g)]
  BY DEF Ask
<1>3. PICK rest \in SUBSET Pairs : rest = dedup.uncovered \ PairsOf(g)
  BY <1>1 DEF Cycles
<1>4. CASE dedup' = NextGroup(rest)
  BY <1>4, Asking
<1>5. CASE dedup' = [dedup EXCEPT !.at = "asked", !.group = g, !.uncovered = rest]
  <2>1. g \in SUBSET Entities /\ \A u, v \in g : u # v => {u, v} \in dedup.pairs
    BY <1>2 DEF Cliques
  <2>2. PICK a : a = [dedup EXCEPT !.at = "asked", !.group = g]
    OBVIOUS
  <2>3. /\ a \in Cycles /\ a.at = "asked" /\ a.group = g /\ a.pairs = dedup.pairs /\ a.settled = dedup.settled
        /\ a.dirty = dedup.dirty /\ a.ops = dedup.ops
    BY <1>1, <2>1, <2>2 DEF Cycles, Phases
  <2>4. dedup' = [a EXCEPT !.uncovered = rest]
    BY <1>5, <2>2
  <2>5. /\ dedup' \in Cycles /\ dedup'.at = "asked" /\ dedup'.group = g /\ dedup'.pairs = dedup.pairs
        /\ dedup'.settled = dedup.settled /\ dedup'.dirty = dedup.dirty /\ dedup'.ops = dedup.ops
    BY <2>3, <2>4 DEF Cycles
  <2> QED
    BY <1>1, <2>1, <2>5 DEF CycleInv, CycleOk, Grouped, Unanswered, DirtyKept
<1> QED
  BY <1>2, <1>3, <1>4, <1>5

(* The model's operations are on the group it was asked about.             *)
LEMMA AnswerKeeps == ASSUME CycleInv, Answer PROVE CycleInv' /\ DirtyKept
<1>1. dedup.at = "asked" /\ dedup \in Cycles
  BY DEF Answer, CycleInv, CycleOk
<1>2. PICK ops \in Ops(dedup.group) :
        dedup' = [dedup EXCEPT !.at = "ops", !.ops = ops, !.answered = TRUE,
                               !.confirmed = {{ops[k].c, ops[k].d} : k \in DOMAIN ops}]
  BY DEF Answer
<1>3. PICK n : ops \in [1..n -> {op \in [c: dedup.group, d: dedup.group, text: Texts \cup {Blank}, verdict: Verdicts] :
                                   op.c # op.d}] /\ n \in 0..(MaxOps - spent.ops)
  BY <1>2 DEF Ops
<1>4. \A k \in DOMAIN ops : ops[k] \in Operations /\ InGroup(ops[k])
  BY <1>1, <1>3 DEF Operations, Cycles, InGroup
<1>5. ops \in Seq(Operations)
  <2>1. n \in Nat /\ DOMAIN ops = 1..n
    BY <1>3
  <2>2. ops \in [1..n -> Operations]
    BY <1>3, <1>4, <2>1
  <2> QED
    BY <2>1, <2>2
<1>6. PICK said \in SUBSET (SUBSET Entities) : said = {{ops[k].c, ops[k].d} : k \in DOMAIN ops}
  <2>1. \A k \in DOMAIN ops : {ops[k].c, ops[k].d} \in SUBSET Entities
    BY <1>4 DEF Operations
  <2>2. {{ops[k].c, ops[k].d} : k \in DOMAIN ops} \in SUBSET (SUBSET Entities)
    BY <2>1
  <2> QED
    BY <2>2
<1>7. PICK a : a = [dedup EXCEPT !.at = "ops", !.ops = ops]
  OBVIOUS
<1>8. /\ a \in Cycles /\ a.at = "ops" /\ a.ops = ops /\ a.group = dedup.group /\ a.pairs = dedup.pairs
      /\ a.settled = dedup.settled /\ a.dirty = dedup.dirty
  BY <1>1, <1>5, <1>7 DEF Cycles, Phases
<1>9. dedup' = [a EXCEPT !.answered = TRUE, !.confirmed = said]
  BY <1>2, <1>6, <1>7
<1>10. /\ dedup' \in Cycles /\ dedup'.at = "ops" /\ dedup'.ops = ops /\ dedup'.group = dedup.group
       /\ dedup'.pairs = dedup.pairs /\ dedup'.settled = dedup.settled /\ dedup'.dirty = dedup.dirty
  BY <1>8, <1>9 DEF Cycles
<1> QED
  BY <1>1, <1>4, <1>10 DEF CycleInv, CycleOk, Grouped, Unanswered, DirtyKept, InGroup

LEMMA ModelFailsKeeps == ASSUME CycleInv, ModelFails PROVE CycleInv' /\ DirtyKept
<1>1. dedup.at = "asked" /\ dedup \in Cycles /\ dedup.ops = <<>> /\ dedup' = [dedup EXCEPT !.at = "ops"]
  BY DEF ModelFails, CycleInv, CycleOk, Unanswered
<1>2. /\ dedup' \in Cycles /\ dedup'.at = "ops" /\ dedup'.ops = dedup.ops /\ dedup'.group = dedup.group
      /\ dedup'.pairs = dedup.pairs /\ dedup'.settled = dedup.settled /\ dedup'.dirty = dedup.dirty
  BY <1>1 DEF Cycles, Phases
<1> QED
  BY <1>1, <1>2 DEF CycleInv, CycleOk, Grouped, Unanswered, DirtyKept, InGroup

LEMMA EndGroupKeeps == ASSUME CycleInv, EndGroup PROVE CycleInv' /\ DirtyKept
<1>1. dedup.uncovered \in SUBSET Pairs /\ dedup' = NextGroup(dedup.uncovered)
  BY DEF EndGroup, CycleInv, CycleOk, Cycles
<1> QED
  BY <1>1, Asking

(* The statement that ends a merge gives the cycle its turn.               *)
LEMMA RanKeeps ==
  ASSUME CycleInv, Ran, job # Free, job.by = "dedup" => dedup.at = "merging"
  PROVE  CycleInv' /\ DOMAIN dedup'.dirty = DOMAIN dedup.dirty
<1>1. CASE dedup' = dedup
  BY <1>1 DEF CycleInv, CycleOk, Grouped, Unanswered, InGroup
<1>2. CASE job.by = "dedup" /\ dedup' = [dedup EXCEPT !.at = "ops"]
  <2>1. dedup \in Cycles /\ dedup.at = "merging"
    BY <1>2 DEF CycleInv, CycleOk
  <2>2. /\ dedup' \in Cycles /\ dedup'.at = "ops" /\ dedup'.ops = dedup.ops /\ dedup'.group = dedup.group
        /\ dedup'.pairs = dedup.pairs /\ dedup'.settled = dedup.settled /\ dedup'.dirty = dedup.dirty
    BY <1>2, <2>1 DEF Cycles, Phases
  <2> QED
    BY <2>1, <2>2 DEF CycleInv, CycleOk, Grouped, Unanswered, InGroup
<1> QED
  BY <1>1, <1>2 DEF Ran

(* A merge that is begun takes the lock with a list of its own.            *)
LEMMA MergesOpen ==
  ASSUME GraphInv, NEW op \in Operations, op.c # op.d, NEW cd \in Descs, NEW dd \in Descs,
         job' \in Merges(op, cd, dd)
  PROVE  Opens("dedup")
<1>1. PICK text : text = IF op.text = Blank THEN cd ELSE Says(op.text)
  OBVIOUS
<1>2. text \in Descs
  BY <1>1, NodeTypes DEF Operations
<1>3. PICK s \in Merge(op.c, op.d, dd, text, op.verdict) : job' = [by |-> "dedup", todo |-> s]
  BY <1>1 DEF Merges
<1>4. Listed(s)
  BY <1>2, <1>3, MergeLists DEF Operations
<1> QED
  BY <1>3, <1>4 DEF Opens

LEMMA ApplyKeeps ==
  ASSUME GraphInv, CycleInv, Apply
  PROVE  /\ CycleInv' /\ DirtyKept
         /\ job' = job \/ (Opens("dedup") /\ dedup'.at = "merging" /\ job = Free)
<1> DEFINE op == Head(dedup.ops)
           cd == node[op.c].desc
           dd == node[op.d].desc
           next == [dedup EXCEPT !.ops = Tail(@)]
<1>1. dedup \in Cycles /\ dedup.at = "ops" /\ dedup.ops \in Seq(Operations) /\ dedup.ops # <<>>
  BY DEF Apply, CycleInv, CycleOk, Cycles
<1>2. /\ Tail(dedup.ops) \in Seq(Operations) /\ op = dedup.ops[1] /\ op \in Operations /\ 1 \in DOMAIN dedup.ops
      /\ \A k \in DOMAIN Tail(dedup.ops) : k + 1 \in DOMAIN dedup.ops /\ Tail(dedup.ops)[k] = dedup.ops[k + 1]
  BY <1>1, TailOf
<1>3. op.c # op.d /\ InGroup(op)
  BY <1>1, <1>2 DEF CycleInv, Grouped, InGroup
<1>4. /\ next \in Cycles /\ next.at = "ops" /\ next.ops = Tail(dedup.ops) /\ next.group = dedup.group
      /\ next.pairs = dedup.pairs /\ next.settled = dedup.settled /\ next.dirty = dedup.dirty
  BY <1>1, <1>2 DEF Cycles
<1>5. op.c \in Entities /\ op.d \in Entities
  BY <1>2 DEF Operations
<1> HIDE DEF next, op
<1>6. ASSUME Exists(op.c), Exists(op.d) PROVE cd \in Descs /\ dd \in Descs
  BY <1>5, <1>6, NodeTypes DEF GraphInv, GraphOk, Nodes
<1>7. ASSUME dedup' \in Cycles, dedup'.at \in {"ops", "merging"}, dedup'.ops = next.ops,
             dedup'.group = dedup.group, dedup'.pairs = dedup.pairs, dedup'.settled = dedup.settled,
             dedup'.dirty = dedup.dirty
      PROVE  CycleInv' /\ DirtyKept
  <2>1. \A k \in DOMAIN dedup'.ops : InGroup(dedup'.ops[k])
    BY <1>1, <1>2, <1>4, <1>7 DEF CycleInv, Grouped
  <2>2. \A k \in DOMAIN dedup'.ops : InGroup(dedup.ops[k])'
    BY <1>7, <2>1 DEF InGroup
  <2> QED
    BY <1>1, <1>7, <2>2 DEF CycleInv, CycleOk, Grouped, Unanswered, DirtyKept
<1>8. CASE dedup' = next /\ UNCHANGED job
  BY <1>4, <1>7, <1>8
<1>9. CASE /\ Exists(op.c) /\ Exists(op.d) /\ job = Free
           /\ job' \in Merges(op, cd, dd) /\ dedup' = [next EXCEPT !.at = "merging"]
  <2>1. Opens("dedup")
    BY <1>2, <1>3, <1>6, <1>9, MergesOpen
  <2>2. /\ dedup' \in Cycles /\ dedup'.at = "merging" /\ dedup'.ops = next.ops /\ dedup'.group = next.group
        /\ dedup'.pairs = next.pairs /\ dedup'.settled = next.settled /\ dedup'.dirty = next.dirty
    BY <1>4, <1>9 DEF Cycles, Phases
  <2> QED
    BY <1>4, <1>7, <1>9, <2>1, <2>2
<1>10. CASE /\ Exists(op.c) /\ Exists(op.d) /\ UNCHANGED job
            /\ dedup' = [next EXCEPT !.at = "locking", !.read = <<op, cd, dd>>]
  <2>1. PICK rd : rd = <<op, cd, dd>>
    OBVIOUS
  <2>2. rd \in Readings /\ rd # <<>> /\ rd[1] = op
    BY <1>2, <1>6, <1>10, <2>1 DEF Readings
  <2>3. dedup' = [next EXCEPT !.at = "locking", !.read = rd]
    BY <1>10, <2>1
  <2>4. /\ dedup' \in Cycles /\ dedup'.at = "locking" /\ dedup'.ops = next.ops /\ dedup'.group = next.group
        /\ dedup'.pairs = next.pairs /\ dedup'.settled = next.settled /\ dedup'.dirty = next.dirty
        /\ dedup'.read = rd
    BY <1>4, <2>2, <2>3 DEF Cycles, Phases
  <2>5. \A k \in DOMAIN dedup'.ops : InGroup(dedup'.ops[k])
    BY <1>1, <1>2, <1>4, <2>4 DEF CycleInv, Grouped
  <2>6. (\A k \in DOMAIN dedup'.ops : InGroup(dedup.ops[k])') /\ InGroup(dedup.read[1])'
    BY <1>3, <1>4, <2>2, <2>4, <2>5 DEF InGroup
  <2> QED
    BY <1>1, <1>4, <1>10, <2>2, <2>4, <2>6 DEF CycleInv, CycleOk, Grouped, Unanswered, DirtyKept
<1> QED
  <2>1. \/ dedup' = next /\ UNCHANGED job
        \/ /\ Exists(op.c) /\ Exists(op.d) /\ job = Free
           /\ job' \in Merges(op, cd, dd) /\ dedup' = [next EXCEPT !.at = "merging"]
        \/ /\ Exists(op.c) /\ Exists(op.d) /\ UNCHANGED job
           /\ dedup' = [next EXCEPT !.at = "locking", !.read = <<op, cd, dd>>]
    BY DEF Apply, op, next
  <2> QED
    BY <1>8, <1>9, <1>10, <2>1

LEMMA LockedKeeps ==
  ASSUME GraphInv, CycleInv, Locked
  PROVE  CycleInv' /\ DirtyKept /\ Opens("dedup") /\ dedup'.at = "merging"
<1>1. /\ dedup \in Cycles /\ dedup.at = "locking" /\ dedup.read \in Readings /\ dedup.read # <<>>
      /\ InGroup(dedup.read[1])
  BY DEF Locked, CycleInv, CycleOk, Cycles, Grouped
<1>2. PICK op \in Operations, cd \in Descs, dd \in Descs : dedup.read = <<op, cd, dd>>
  BY <1>1 DEF Readings
<1>3. dedup.read[1] = op /\ dedup.read[2] = cd /\ dedup.read[3] = dd
  BY <1>2
<1>4. job' \in Merges(op, cd, dd) /\ dedup' = [dedup EXCEPT !.at = "merging", !.read = <<>>]
  BY <1>3 DEF Locked
<1>5. Opens("dedup")
  BY <1>1, <1>3, <1>4, MergesOpen DEF InGroup
<1>6. PICK none \in Readings : none = <<>>
  BY DEF Readings
<1>7. dedup' = [dedup EXCEPT !.at = "merging", !.read = none]
  BY <1>4, <1>6
<1>8. /\ dedup' \in Cycles /\ dedup'.at = "merging" /\ dedup'.ops = dedup.ops /\ dedup'.group = dedup.group
      /\ dedup'.pairs = dedup.pairs /\ dedup'.settled = dedup.settled /\ dedup'.dirty = dedup.dirty
  BY <1>1, <1>7 DEF Cycles, Phases
<1> QED
  BY <1>1, <1>5, <1>8 DEF CycleInv, CycleOk, Grouped, Unanswered, DirtyKept, InGroup

-----------------------------------------------------------------------------
(* A statement of the holder of the lock.                                  *)

\* No row comes but one that is made, and none has another vector.
RowsKept ==
  \A u \in Entities : /\ node'[u] = Absent => node[u] = Absent
                      /\ Exists(u)' /\ node[u] # Absent => Exists(u) /\ node'[u].vec = node[u].vec

LEMMA HeadKinds ==
  \A s \in Statements :
    /\ s.do = "set" => s \in Writes \cup Namings
    /\ s.do = "create" => s \in Creates
    /\ s.do = "delete" => s \in Deletes
    /\ s.do \in {"link", "reweigh"} => s \in Links
    /\ s.do = "repoint" => s \in Repoints
    /\ s.do = "unlink" => s \in Unlinks
    /\ s \in Writes \cup Namings => s.do = "set"
    /\ s \in Creates => s.do = "create"
    /\ s \in Deletes => s.do = "delete"
    /\ s \in Links => s.do \in {"link", "reweigh"} /\ s.edge \in Edges
    /\ s \in Repoints => s.do = "repoint" /\ s.edge \in Edges
    /\ s \in Unlinks => s.do = "unlink"
BY DEF Statements, Writes, Namings, Creates, Deletes, Links, Repoints, Unlinks

LEMMA SameRowsKept == GraphInv /\ SameRows => RowsKept
BY NoRowIsNoNode DEF GraphInv, GraphOk, SameRows, RowsKept, Exists

LEMMA SameNodes == GraphInv /\ UNCHANGED node => SameRows /\ RowsKept
BY DEF SameRows, RowsKept, Exists

(* The list goes on, or the lock is free.                                  *)
LEMMA Onward ==
  ASSUME JobInv, job # Free, Ran
  PROVE  /\ job.todo \in Seq(Statements) /\ job.todo # <<>> /\ Len(job.todo) \in Nat \ {0}
         /\ Head(job.todo) = job.todo[1] /\ job.todo[1] \in Statements
         /\ \/ Len(job.todo) = 1 /\ job' = Free
            \/ /\ Len(job.todo) # 1 /\ Len(job.todo) > 1
               /\ job' \in [by: {"tool", "dedup"}, todo: Seq(Statements)] /\ job'.todo = Tail(job.todo)
<1>1. job \in [by: {"tool", "dedup"}, todo: Seq(Statements)] /\ job.todo \in Seq(Statements)
  BY DEF JobInv
<1>2. job.todo # <<>>
  BY DEF JobInv, Listed, Quiet, Adding, Naming, Linking, Merging, Moving
<1>3. /\ Len(job.todo) \in Nat \ {0} /\ Tail(job.todo) \in Seq(Statements)
      /\ Head(job.todo) = job.todo[1] /\ job.todo[1] \in Statements
  BY <1>1, <1>2, TailOf
<1>4. job' = IF Len(job.todo) = 1 THEN Free ELSE [job EXCEPT !.todo = Tail(@)]
  BY DEF Ran
<1>5. CASE Len(job.todo) = 1
  BY <1>1, <1>2, <1>3, <1>4, <1>5
<1>6. CASE Len(job.todo) # 1
  <2>1. PICK n \in Nat : n = Len(job.todo) /\ n # 0 /\ n # 1
    BY <1>3, <1>6
  <2>2. PICK t \in Seq(Statements) : t = Tail(job.todo)
    BY <1>3
  <2>3. job' = [job EXCEPT !.todo = t]
    BY <1>4, <1>6, <2>2
  <2>4. job' \in [by: {"tool", "dedup"}, todo: Seq(Statements)] /\ job'.todo = t
    BY <1>1, <2>3
  <2>5. n > 1
    <3>1. n # 0 /\ n # 1
      BY <2>1
    <3> QED
      BY <3>1
  <2> QED
    BY <1>1, <1>2, <1>3, <1>6, <2>1, <2>2, <2>4, <2>5
<1> QED
  BY <1>5, <1>6

LEMMA RunRan == Run => job # Free /\ Ran
BY DEF Run, RunSet, RunCreate, RunDelete, RunLink, RunUnlink, RunReweigh, RunRepoint, Statement

LEMMA QuietRuns ==
  ASSUME GraphInv, JobInv, Run, Quiet(job.todo)
  PROVE  GraphInv' /\ JobInv' /\ RowsKept
<1> DEFINE s == Head(job.todo)
<1>1. job # Free /\ Ran
  BY RunRan
<1>2. s \in Quiets /\ s \in Statements
  <2>1. s = job.todo[1] /\ s \in Statements
    BY <1>1, Onward
  <2>2. job.todo \in Seq(Quiets) /\ job.todo # <<>>
    BY DEF Quiet
  <2>3. job.todo[1] \in Quiets
    BY <2>2
  <2> QED
    BY <2>1, <2>3
<1>3. JobInv'
  <2>1. CASE job' = Free
    BY <2>1 DEF JobInv
  <2>2. CASE /\ job'.todo = Tail(job.todo) /\ Len(job.todo) > 1
             /\ job' \in [by: {"tool", "dedup"}, todo: Seq(Statements)]
    <3>2. job.todo \in Seq(Quiets) /\ job.todo # <<>>
      BY DEF Quiet
    <3>3. PICK n \in Nat : n = Len(job.todo) /\ n > 1
      BY <2>2, <3>2
    <3>4. Tail(job.todo) \in Seq(Quiets) /\ Len(Tail(job.todo)) = n - 1
      BY <3>2, <3>3, TailOf
    <3>5. n > 1
      BY <3>3
    <3>6. n - 1 # 0
      BY <3>5
    <3>7. Len(Tail(job.todo)) # 0
      BY <3>4, <3>6
    <3>1. Tail(job.todo) \in Seq(Quiets) /\ Tail(job.todo) # <<>>
      <4>1. PICK t \in Seq(Quiets) : t = Tail(job.todo) /\ Len(t) # 0
        BY <3>4, <3>7
      <4>2. t # <<>>
        BY <4>1
      <4> QED
        BY <4>1, <4>2
    <3> QED
      BY <2>2, <3>1 DEF JobInv, Listed, Quiet
  <2> QED
    BY <1>1, <2>1, <2>2, Onward
<1> HIDE DEF s
<1>4. CASE RunSet
  <2>1. s.do = "set"
    BY <1>4 DEF RunSet, Statement, s
  <2>2. s \in Writes
    BY <1>2, <2>1, HeadKinds DEF Quiets
  <2>3. s \notin Namings
    BY <2>2 DEF Writes, Namings
  <2> QED
    BY <1>3, <1>4, <2>2, <2>3, SetKeeps, SameRowsKept DEF s
<1>5. CASE RunDelete
  <2>1. s.do = "delete"
    BY <1>5 DEF RunDelete, Statement, s
  <2>2. s \in Deletes
    BY <1>2, <2>1, HeadKinds
  <2> QED
    BY <1>3, <1>5, <2>2, DeleteKeeps DEF s, RowsKept, Exists
<1>6. CASE RunUnlink
  <2>1. edges' \subseteq edges /\ UNCHANGED node
    BY <1>6 DEF RunUnlink
  <2> QED
    BY <1>3, <2>1, UnlinkKeeps, SameNodes
<1>7. CASE RunLink
  <2>1. s.do = "link" /\ UNCHANGED node /\ edges' = Linked(edges, s.edge)
    BY <1>7 DEF RunLink, Statement, s
  <2>2. s.edge \in Edges /\ s.edge.rel = "ALIASED_TO"
    BY <1>2, <2>1, HeadKinds DEF Quiets
  <2> QED
    BY <1>3, <2>1, <2>2, LinkKeeps, SameNodes
<1>8. CASE RunReweigh
  <2>1. s.do = "reweigh" /\ UNCHANGED node
    BY <1>8 DEF RunReweigh, Statement, s
  <2>2. s.edge \in Edges
    BY <1>2, <2>1, HeadKinds
  <2> DEFINE w == [f \in Same(s.edge) |-> s.edge.weight]
  <2>3. w \in [Same(s.edge) -> 1..Strength]
    BY <2>2 DEF Edges
  <2>4. edges' = (edges \ Same(s.edge)) \cup {[f EXCEPT !.weight = w[f]] : f \in Same(s.edge)}
    BY <1>8 DEF RunReweigh, s
  <2> HIDE DEF w
  <2> QED
    BY <1>3, <2>1, <2>2, <2>3, <2>4, ReweighKeeps, SameNodes
<1>9. ~RunCreate
  BY <1>2, HeadKinds DEF RunCreate, Statement, s, Quiets, Writes, Unlinks, Links, Deletes
<1>10. ~RunRepoint
  BY <1>2, HeadKinds DEF RunRepoint, Statement, s, Quiets, Writes, Unlinks, Links, Deletes
<1> QED
  BY <1>4, <1>5, <1>6, <1>7, <1>8, <1>9, <1>10 DEF Run

(* An entity that is added is there before it is named, and its name is    *)
(* still free.                                                             *)
LEMMA AddingRuns ==
  ASSUME GraphInv, JobInv, Run, Adding(job.todo)
  PROVE  GraphInv' /\ JobInv' /\ RowsKept
<1> DEFINE s == Head(job.todo)
<1>1. job # Free /\ Ran
  BY RunRan
<1>2. /\ job.todo \in Seq(Statements) /\ Len(job.todo) > 1 /\ job.todo # <<>>
      /\ s = job.todo[1] /\ s \in Creates /\ s \in Statements /\ node[s.on] = Absent
      /\ job.todo[2] \in Namings /\ ~NameTaken(job.todo[2].val)
      /\ \A k \in DOMAIN job.todo : k \in {1, 2} \/ job.todo[k] \in Writes
  BY <1>1, Onward DEF Adding
<1>3. RunCreate
  <2>1. s.do = "create"
    BY <1>2, HeadKinds
  <2> HIDE DEF s
  <2> QED
    BY <2>1 DEF Run, RunSet, RunDelete, RunLink, RunUnlink, RunReweigh, RunRepoint, Statement, s
<1>4. /\ GraphInv' /\ node'[s.on].name = None
      /\ \A u \in Entities : (node'[u] = Absent => node[u] = Absent) /\ (u # s.on => node'[u] = node[u])
  BY <1>2, <1>3, CreateKeeps
<1>5. RowsKept
  BY <1>2, <1>4 DEF RowsKept, Exists
<1>6. job' \in [by: {"tool", "dedup"}, todo: Seq(Statements)] /\ job'.todo = Tail(job.todo)
  BY <1>1, <1>2, Onward
<1>7. PICK t : t = Tail(job.todo)
  OBVIOUS
<1>8. /\ t \in Seq(Statements) /\ t # <<>> /\ t[1] = job.todo[2]
      /\ \A k \in DOMAIN t : k = 1 \/ t[k] \in Writes
  <2>1. PICK n \in Nat : n = Len(job.todo) /\ n > 1
    BY <1>2
  <2>2. /\ t \in Seq(Statements) /\ DOMAIN t = 1..(n - 1) /\ Len(t) = n - 1
        /\ \A k \in 1..(n - 1) : k + 1 \in DOMAIN job.todo /\ t[k] = job.todo[k + 1]
    BY <1>2, <1>7, <2>1, TailOf
  <2>3. t # <<>>
    BY <2>1, <2>2
  <2>4. t[1] = job.todo[1 + 1]
    BY <2>1, <2>2
  <2>5. ASSUME NEW k \in DOMAIN t, k # 1 PROVE t[k] \in Writes
    <3>1. k + 1 \in DOMAIN job.todo /\ t[k] = job.todo[k + 1] /\ k + 1 \notin {1, 2}
      BY <2>1, <2>2, <2>5
    <3> QED
      BY <1>2, <3>1
  <2> QED
    BY <2>2, <2>3, <2>4, <2>5
<1>9. ~NameTaken(t[1].val)'
  <2>1. t[1].val \in Names /\ t[1].val # None
    BY <1>2, <1>8, GraphAssumption DEF Namings
  <2>2. \A u \in Entities : Exists(u)' /\ node'[u].name = t[1].val => Exists(u) /\ node[u].name = t[1].val
    BY <1>4, <2>1 DEF Exists
  <2> QED
    BY <1>2, <1>8, <2>2 DEF NameTaken
<1>10. Naming(job.todo)'
  BY <1>2, <1>6, <1>7, <1>8, <1>9 DEF Naming, NameTaken, Exists
<1> QED
  BY <1>4, <1>5, <1>6, <1>10 DEF JobInv, Listed

LEMMA NamingRuns ==
  ASSUME GraphInv, JobInv, Run, Naming(job.todo)
  PROVE  GraphInv' /\ JobInv' /\ RowsKept
<1> DEFINE s == Head(job.todo)
<1>1. job # Free /\ Ran
  BY RunRan
<1>2. /\ job.todo \in Seq(Statements) /\ job.todo # <<>>
      /\ s = job.todo[1] /\ s \in Namings /\ s \in Statements /\ ~NameTaken(s.val)
      /\ \A k \in DOMAIN job.todo : k = 1 \/ job.todo[k] \in Writes
  BY <1>1, Onward DEF Naming
<1>3. RunSet
  <2>1. s.do = "set"
    BY <1>2, HeadKinds
  <2> HIDE DEF s
  <2> QED
    BY <2>1 DEF Run, RunCreate, RunDelete, RunLink, RunUnlink, RunReweigh, RunRepoint, Statement, s
<1>4. GraphInv' /\ RowsKept
  BY <1>2, <1>3, SetKeeps, SameRowsKept
<1>5. JobInv'
  <2>1. CASE job' = Free
    BY <2>1 DEF JobInv
  <2>2. CASE /\ job'.todo = Tail(job.todo) /\ Len(job.todo) > 1
             /\ job' \in [by: {"tool", "dedup"}, todo: Seq(Statements)]
    <3>1. PICK n \in Nat : n = Len(job.todo) /\ n > 1
      BY <1>2, <2>2
    <3>2. PICK t : t = Tail(job.todo)
      OBVIOUS
    <3>3. /\ t \in Seq(Statements) /\ DOMAIN t = 1..(n - 1) /\ Len(t) = n - 1
          /\ \A k \in 1..(n - 1) : k + 1 \in DOMAIN job.todo /\ t[k] = job.todo[k + 1]
      BY <1>2, <3>1, <3>2, TailOf
    <3>4. \A k \in 1..(n - 1) : k + 1 # 1
      BY <3>1
    <3>5. \A k \in 1..(n - 1) : t[k] \in Writes
      BY <1>2, <3>3, <3>4
    <3>6. t \in Seq(Writes) /\ t # <<>>
      BY <3>1, <3>3, <3>5
    <3>7. t \in Seq(Quiets)
      BY <3>6, Kinds
    <3> QED
      BY <2>2, <3>2, <3>6, <3>7 DEF JobInv, Listed, Quiet
  <2> QED
    BY <1>1, <2>1, <2>2, Onward
<1> QED
  BY <1>4, <1>5

(* A relation that is made has still no edge when its statement runs.      *)
LEMMA LinkingRuns ==
  ASSUME GraphInv, JobInv, Run, Linking(job.todo)
  PROVE  GraphInv' /\ JobInv' /\ RowsKept
<1> DEFINE s == Head(job.todo)
<1>1. job # Free /\ Ran
  BY RunRan
<1>2. PICK n \in Nat : n = Len(job.todo) /\ n # 0
  BY <1>1, Onward
<1>3. /\ job.todo \in Seq(Statements) /\ job.todo # <<>> /\ DOMAIN job.todo = 1..n
      /\ s = job.todo[1] /\ s \in Statements
      /\ job.todo[n] \in NewLinks /\ Same(job.todo[n].edge) = {}
      /\ \A k \in 1..n : k = n \/ job.todo[k] \in Unlinks
  BY <1>1, <1>2, Onward DEF Linking
<1>6. n # 0
  BY <1>2
<1>7. n # 1 => n > 1 /\ 1 \in 1..n /\ n - 1 \in 1..(n - 1) /\ (n - 1) + 1 = n /\ n - 1 # 0
  BY <1>6
<1>4. CASE n = 1
  <2>1. job' = Free
    BY <1>1, <1>2, <1>4, Onward
  <2>2. s \in NewLinks /\ Same(s.edge) = {}
    BY <1>3, <1>4
  <2>3. s.do = "link" /\ s.edge \in Edges
    BY <1>3, <2>2, HeadKinds DEF NewLinks
  <2> HIDE DEF s
  <2>4. RunLink
    BY <2>3 DEF Run, RunSet, RunCreate, RunDelete, RunUnlink, RunReweigh, RunRepoint, Statement, s
  <2>5. UNCHANGED node /\ edges' = Linked(edges, s.edge)
    BY <2>4 DEF RunLink, s
  <2> QED
    BY <2>1, <2>2, <2>3, <2>5, LinkKeeps, SameNodes DEF JobInv
<1>5. CASE n # 1
  <2>1. job'.todo = Tail(job.todo) /\ job' \in [by: {"tool", "dedup"}, todo: Seq(Statements)]
    BY <1>1, <1>2, <1>5, Onward
  <2>2. s \in Unlinks
    BY <1>3, <1>5, <1>7
  <2>3. s.do = "unlink"
    BY <1>3, <2>2, HeadKinds
  <2> HIDE DEF s
  <2>4. RunUnlink
    BY <2>3 DEF Run, RunSet, RunCreate, RunDelete, RunLink, RunReweigh, RunRepoint, Statement, s
  <2>5. UNCHANGED node /\ edges' \subseteq edges
    BY <2>4 DEF RunUnlink
  <2>6. GraphInv' /\ RowsKept
    BY <2>5, UnlinkKeeps, SameNodes
  <2>7. PICK t : t = Tail(job.todo)
    OBVIOUS
  <2>8. /\ t \in Seq(Statements) /\ DOMAIN t = 1..(n - 1) /\ Len(t) = n - 1
        /\ \A k \in 1..(n - 1) : t[k] = job.todo[k + 1]
    BY <1>2, <1>3, <2>7, TailOf
  <2>9. t # <<>> /\ t[n - 1] = job.todo[n]
    <3>1. n - 1 \in 1..(n - 1) /\ (n - 1) + 1 = n /\ n - 1 # 0
      BY <1>5, <1>7
    <3>2. t[n - 1] = job.todo[(n - 1) + 1]
      BY <2>8, <3>1
    <3> QED
      BY <2>8, <3>1, <3>2
  <2>10. \A k \in DOMAIN t : k = n - 1 \/ t[k] \in Unlinks
    <3> SUFFICES ASSUME NEW k \in 1..(n - 1), k # n - 1 PROVE t[k] \in Unlinks
      BY <2>8
    <3>1. k + 1 \in 1..n /\ k + 1 # n
      BY <1>2
    <3> QED
      BY <1>3, <2>8, <3>1
  <2>11. {f \in edges' : Key(f) = Key(t[n - 1].edge)} = {}
    <3>1. PICK x : x = job.todo[n].edge
      OBVIOUS
    <3>2. {f \in edges' : Key(f) = Key(x)} = {}
      BY <1>3, <2>5, <3>1 DEF Same
    <3>3. x = t[n - 1].edge
      BY <2>9, <3>1
    <3> QED
      BY <3>2, <3>3
  <2>12. Linking(job.todo)'
    <3>1. job'.todo = t /\ Len(t) = n - 1
      BY <2>1, <2>7, <2>8
    <3>2. t[n - 1] \in NewLinks
      BY <1>3, <2>9
    <3>3. Same(job.todo[Len(job.todo)].edge)' = {}
      BY <2>11, <3>1 DEF Same, Key
    <3> QED
      BY <2>8, <2>9, <2>10, <3>1, <3>2, <3>3 DEF Linking
  <2> QED
    BY <2>1, <2>6, <2>12 DEF JobInv, Listed
<1> QED
  BY <1>4, <1>5

(* A merge: no statement of it but the last touches a relation the         *)
(* duplicate has with a third entity.                                      *)
LEMMA MergingRuns ==
  ASSUME GraphInv, JobInv, Run, Merging(job.todo)
  PROVE  GraphInv' /\ JobInv' /\ RowsKept
<1> DEFINE s == Head(job.todo)
<1>1. job # Free /\ Ran
  BY RunRan
<1>2. PICK c \in Entities, d \in Entities : c # d /\ Moving(job.todo, c, d)
  BY DEF Merging
<1>3. PICK n \in Nat : n = Len(job.todo) /\ n # 0
  BY <1>1, Onward
<1>4. /\ job.todo \in Seq(Statements) /\ job.todo # <<>> /\ DOMAIN job.todo = 1..n
      /\ s = job.todo[1] /\ s \in Statements
      /\ job.todo[n] \in Deletes /\ job.todo[n].on = d /\ job.todo[n].into = c
      /\ \A k \in 1..n : \/ k = n \/ job.todo[k] \in Writes
                         \/ job.todo[k] \in Repoints /\ c \in {job.todo[k].edge.from, job.todo[k].edge.to}
      /\ Exists(c) => \A e \in edges : Third(e, c, d) => Covered(job.todo, e, c, d)
  BY <1>1, <1>2, <1>3, Onward DEF Moving
<1>7. n # 0
  BY <1>3
<1>8. n # 1 => n > 1 /\ 1 \in 1..n /\ n - 1 \in 1..(n - 1) /\ (n - 1) + 1 = n /\ n - 1 # 0
  BY <1>7
<1> HIDE DEF s
<1>5. CASE n = 1
  <2>1. job' = Free
    BY <1>1, <1>3, <1>5, Onward
  <2>2. s \in Deletes /\ s.do = "delete"
    BY <1>4, <1>5, HeadKinds
  <2>3. RunDelete
    BY <2>2 DEF Run, RunSet, RunCreate, RunLink, RunUnlink, RunReweigh, RunRepoint, Statement, s
  <2> QED
    BY <2>1, <2>2, <2>3, DeleteKeeps DEF s, JobInv, RowsKept, Exists
<1>6. CASE n # 1
  <2>1. job'.todo = Tail(job.todo) /\ job' \in [by: {"tool", "dedup"}, todo: Seq(Statements)]
    BY <1>1, <1>3, <1>6, Onward
  <2>2. s \in Writes \/ (s \in Repoints /\ c \in {s.edge.from, s.edge.to})
    BY <1>4, <1>6, <1>8
  <2>3. PICK t : t = Tail(job.todo)
    OBVIOUS
  <2>4. /\ t \in Seq(Statements) /\ DOMAIN t = 1..(n - 1) /\ Len(t) = n - 1
        /\ \A k \in 1..(n - 1) : t[k] = job.todo[k + 1]
        /\ \A k \in 1..n : k = 1 \/ (k - 1 \in 1..(n - 1) /\ t[k - 1] = job.todo[k])
    BY <1>3, <1>4, <2>3, TailOf
  <2>5. t # <<>> /\ t[n - 1] = job.todo[n]
    <3>1. n - 1 \in 1..(n - 1) /\ (n - 1) + 1 = n /\ n - 1 # 0
      BY <1>6, <1>8
    <3>2. t[n - 1] = job.todo[(n - 1) + 1]
      BY <2>4, <3>1
    <3> QED
      BY <2>4, <3>1, <3>2
  <2>6. \A k \in DOMAIN t : \/ k = n - 1 \/ t[k] \in Writes
                            \/ t[k] \in Repoints /\ c \in {t[k].edge.from, t[k].edge.to}
    <3> SUFFICES ASSUME NEW k \in 1..(n - 1), k # n - 1
                 PROVE  t[k] \in Writes \/ (t[k] \in Repoints /\ c \in {t[k].edge.from, t[k].edge.to})
      BY <2>4
    <3>1. k + 1 \in 1..n /\ k + 1 # n
      BY <1>3
    <3> QED
      BY <1>4, <2>4, <3>1
  <2>7. /\ GraphInv' /\ SameRows
        /\ \A e \in edges' : Third(e, c, d) => e \in edges
        /\ \A f \in edges : \E g \in edges' : Key(g) = Key(f) /\ g.weight >= f.weight
        /\ s \in Repoints /\ Exists(s.edge.from) /\ Exists(s.edge.to) =>
              \E g \in edges' : Key(g) = Key(s.edge) /\ g.weight >= s.edge.weight
    <3>1. CASE s \in Writes
      <4>1. s.do = "set" /\ s \notin Namings /\ s \notin Repoints
        BY <3>1 DEF Writes, Namings, Repoints
      <4>2. RunSet
        BY <4>1 DEF Run, RunCreate, RunDelete, RunLink, RunUnlink, RunReweigh, RunRepoint, Statement, s
      <4>3. GraphInv' /\ SameRows /\ edges' = edges
        BY <3>1, <4>1, <4>2, SetKeeps DEF s
      <4>4. \A f \in edges : f.weight >= f.weight
        BY GraphAssumption DEF GraphInv, GraphOk, Edges
      <4> QED
        BY <4>1, <4>3, <4>4
    <3>2. CASE s \in Repoints /\ c \in {s.edge.from, s.edge.to}
      <4>1. s.do = "repoint" /\ s.edge \in Edges
        BY <1>4, <3>2, HeadKinds
      <4>2. RunRepoint
        BY <4>1 DEF Run, RunSet, RunCreate, RunDelete, RunLink, RunUnlink, RunReweigh, Statement, s
      <4>3. UNCHANGED node /\ edges' = MergedOnto(s.edge)
        BY <4>2 DEF RunRepoint, s
      <4>4. PICK x \in Edges : x = s.edge
        BY <4>1
      <4>5. /\ GraphInv'
            /\ \A f \in edges : \E g \in edges' : Key(g) = Key(f) /\ g.weight >= f.weight
            /\ Exists(x.from) /\ Exists(x.to) => \E g \in edges' : Key(g) = Key(x) /\ g.weight >= x.weight
            /\ \A g \in edges' : g \in edges \/ Key(g) = Key(x)
        BY <4>3, <4>4, RepointKeeps
      <4>6. \A e \in edges' : Third(e, c, d) => Key(e) # Key(x)
        BY <1>2, <3>2, <4>4 DEF Third, Key
      <4> QED
        BY <4>3, <4>4, <4>5, <4>6, SameNodes
    <3> QED
      BY <2>2, <3>1, <3>2
  <2>8. ASSUME Exists(c)', NEW e \in edges', Third(e, c, d)
        PROVE  Covered(t, e, c, d)'
    <3>1. e \in edges /\ Exists(c) /\ edges \subseteq Edges /\ edges' \subseteq Edges
      BY <2>7, <2>8 DEF SameRows, GraphInv, GraphOk
    <3>2. Covered(job.todo, e, c, d)
      BY <1>4, <2>8, <3>1
    <3>3. ASSUME NEW f \in Edges, Carries(f, e, c, d), NEW g \in edges', Key(g) = Key(f), g.weight >= f.weight
          PROVE  Carries(g, e, c, d)
      <4>1. f.weight \in Int /\ g.weight \in Int /\ e.weight \in Int
        BY <3>1, GraphAssumption DEF Edges
      <4>2. f.from = g.from /\ f.to = g.to /\ f.rel = g.rel
        BY <3>3 DEF Key
      <4>3. g.weight >= e.weight
        BY <3>3, <4>1 DEF Carries
      <4> QED
        BY <3>3, <4>2, <4>3 DEF Carries
    <3>4. CASE \E f \in edges : Carries(f, e, c, d)
      <4>1. PICK f \in edges : Carries(f, e, c, d)
        BY <3>4
      <4>2. PICK g \in edges' : Key(g) = Key(f) /\ g.weight >= f.weight
        BY <2>7
      <4>3. Carries(g, e, c, d)
        BY <3>1, <3>3, <4>1, <4>2
      <4> QED
        BY <4>3 DEF Covered, Carries
    <3>5. CASE \E k \in DOMAIN job.todo : job.todo[k] \in Repoints /\ Carries(job.todo[k].edge, e, c, d)
      <4>1. PICK k \in 1..n : job.todo[k] \in Repoints /\ Carries(job.todo[k].edge, e, c, d)
        BY <1>4, <3>5
      <4>2. CASE k = 1
        <5>1. s \in Repoints /\ Carries(s.edge, e, c, d) /\ s.edge \in Edges
          BY <1>4, <4>1, <4>2, HeadKinds
        <5>2. Exists(e.from) /\ Exists(e.to)
          BY <3>1 DEF GraphInv, Attached
        <5>3. Exists(s.edge.from) /\ Exists(s.edge.to)
          BY <3>1, <5>1, <5>2 DEF Carries
        <5>4. PICK g \in edges' : Key(g) = Key(s.edge) /\ g.weight >= s.edge.weight
          BY <2>7, <5>1, <5>3
        <5>5. Carries(g, e, c, d)
          BY <3>3, <5>1, <5>4
        <5> QED
          BY <5>5 DEF Covered, Carries
      <4>3. CASE k # 1
        <5>1. k - 1 \in DOMAIN t /\ t[k - 1] = job.todo[k]
          BY <2>4, <4>3
        <5>2. \E j \in DOMAIN t : t[j] \in Repoints /\ Carries(t[j].edge, e, c, d)
          BY <4>1, <5>1
        <5> QED
          BY <5>2 DEF Covered, Carries
      <4> QED
        BY <4>2, <4>3
    <3> QED
      BY <3>2, <3>4, <3>5 DEF Covered
  <2>9. Moving(job.todo, c, d)'
    <3>1. job'.todo = t
      BY <2>1, <2>3
    <3>2. \A e \in edges' : Third(e, c, d)' <=> Third(e, c, d)
      BY DEF Third
    <3>3. Exists(c)' => \A e \in edges' : Third(e, c, d)' => Covered(job.todo, e, c, d)'
      <4> SUFFICES ASSUME Exists(c)', NEW e \in edges', Third(e, c, d)' PROVE Covered(job.todo, e, c, d)'
        OBVIOUS
      <4>1. Covered(t, e, c, d)'
        BY <2>8, <3>2
      <4> QED
        BY <3>1, <4>1 DEF Covered, Carries
    <3> QED
      BY <1>4, <2>4, <2>5, <2>6, <3>1, <3>3 DEF Moving
  <2>10. RowsKept
    BY <2>7, SameRowsKept
  <2> QED
    BY <1>2, <2>1, <2>7, <2>9, <2>10 DEF JobInv, Listed, Merging
<1> QED
  BY <1>5, <1>6

LEMMA RunKeeps == ASSUME GraphInv, JobInv, Run PROVE GraphInv' /\ JobInv' /\ RowsKept
<1>1. job # Free
  BY RunRan
<1> QED
  BY <1>1, QuietRuns, AddingRuns, NamingRuns, LinkingRuns, MergingRuns DEF JobInv, Listed

-----------------------------------------------------------------------------
(* The inductive invariant.  The index never holds a vector for a uuid     *)
(* that has no row yet, nor is one on its way: a row that is made later    *)
(* under that uuid would be searched by it.                                *)

Unborn == \A u \in Entities : node[u] = Absent => index[u] = None /\ u \notin DOMAIN dedup.dirty
Turn == job # Free /\ job.by = "dedup" => dedup.at = "merging"
Kept == index \in [Entities -> Descs \cup {None}] /\ cache \subseteq Pairs
MemoryInv == GraphInv /\ JobInv /\ CycleInv /\ Kept /\ IndexMirrorsStore /\ Unborn /\ Turn

LEMMA InitInv == Init => MemoryInv
<1> SUFFICES ASSUME Init PROVE MemoryInv
  OBVIOUS
<1>1. PICK name \in [Entities -> Names \cup {None}], text \in [Entities -> Texts], clean \in SUBSET Entities :
        /\ \A u, v \in Entities : name[u] = name[v] /\ name[u] # None => u = v
        /\ \A u \in Entities : name[u] = None => u \notin clean /\ text[u] = CHOOSE t \in Texts : TRUE
        /\ node = [u \in Entities |->
             LET d == Says(text[u])
                 v == IF u \in clean THEN d ELSE None
             IN  IF name[u] = None THEN Absent ELSE [name |-> name[u], desc |-> d, content |-> d, hash |-> v, vec |-> v]]
  BY DEF Init
<1>2. ASSUME NEW u \in Entities
      PROVE  \/ node[u] = Absent
             \/ node[u] \in Nodes /\ node[u].name = name[u] /\ name[u] # None
  <2>1. PICK d \in Descs : d = Says(text[u])
    BY NodeTypes
  <2>2. PICK v \in Descs \cup {None} : v = IF u \in clean THEN d ELSE None
    OBVIOUS
  <2>3. node[u] = IF name[u] = None THEN Absent
                  ELSE [name |-> name[u], desc |-> d, content |-> d, hash |-> v, vec |-> v]
    BY <1>1, <2>1, <2>2
  <2>4. [name |-> name[u], desc |-> d, content |-> d, hash |-> v, vec |-> v] \in Nodes
    BY <1>1, <2>1, <2>2 DEF Nodes
  <2> QED
    BY <2>3, <2>4
<1>3. node \in [Entities -> Nodes \cup {Absent, Gone}]
  <2>1. DOMAIN node = Entities /\ node = [u \in Entities |-> node[u]]
    BY <1>1
  <2> QED
    BY <1>2, <2>1
<1>4. Unique
  BY <1>1, <1>2 DEF Unique, Exists
<1> DEFINE old == {e \in Edges : e.rel # "ALIASED_TO" /\ e.born = 0
                                /\ Exists(e.from) /\ Exists(e.to) /\ e.from # e.to}
<1>12. PICK es \in UNION {[1..k -> old] : k \in 0..MaxEdges} :
         /\ edges = {es[i] : i \in DOMAIN es}
         /\ \A e, f \in edges : e.from = f.from /\ e.to = f.to /\ e # f => f.rel \notin {e.rel} \cup Conflicts[e.rel]
  BY DEF Init
<1>5. PICK k \in 0..MaxEdges : es \in [1..k -> old]
  BY <1>12
<1>6. edges \subseteq Edges /\ Attached
  BY <1>5, <1>12 DEF Attached
<1>7. IsFiniteSet(edges)
  <2>1. k \in Nat
    BY GraphAssumption
  <2>3. 1 \in Int /\ k \in Int
    BY <2>1
  <2>4. IsFiniteSet(1..k)
    BY <2>3, FS_Interval, Zenon
  <2>2. IsFiniteSet(1..k) /\ DOMAIN es = 1..k
    BY <1>5, <2>4
  <2>5. edges = {es[i] : i \in 1..k}
    BY <1>5, <1>12, <2>2
  <2> QED
    BY <2>2, <2>5, FiniteImage
<1>8. OneEdgeEach
  BY <1>12 DEF OneEdgeEach, Key
<1>9. index = Warm(node) /\ cache = {} /\ job = Free /\ dedup = NoCycle
  BY DEF Init
<1>10. CycleInv
  BY <1>9, CycleStarts DEF CycleInv, CycleOk, Grouped, Unanswered
<1>11. Kept /\ IndexMirrorsStore /\ Unborn
  <2>1. \A u \in Entities : node[u] \notin {Absent, Gone} => node[u].vec \in Descs \cup {None}
    BY <1>3 DEF Nodes
  <2> QED
    BY <1>9, <2>1, CycleStarts DEF Warm, Kept, IndexMirrorsStore, Unborn, Exists
<1> QED
  BY <1>3, <1>4, <1>6, <1>7, <1>8, <1>9, <1>10, <1>11 DEF MemoryInv, GraphInv, GraphOk, JobInv, Turn

LEMMA StepInv == MemoryInv /\ [Next]_vars => MemoryInv'
<1> SUFFICES ASSUME MemoryInv, [Next]_vars PROVE MemoryInv'
  OBVIOUS
<1> USE DEF MemoryInv
\* A step that leaves the rows, the edges and the index alone.
<1>1. ASSUME UNCHANGED <<node, edges, index>>, CycleInv', DirtyKept, JobInv', Turn', cache' \subseteq Pairs
      PROVE  MemoryInv'
  <2>1. GraphInv'
    BY <1>1 DEF GraphInv, GraphOk, Unique, Attached, OneEdgeEach, Exists
  <2>2. Kept' /\ IndexMirrorsStore'
    BY <1>1 DEF Kept, IndexMirrorsStore, Exists
  <2>3. Unborn'
    BY <1>1 DEF Unborn, DirtyKept, Exists
  <2> QED
    BY <1>1, <2>1, <2>2, <2>3
<1>2. ASSUME UNCHANGED <<node, edges, job>> PROVE JobInv'
  BY <1>2 DEF JobInv, Listed, Quiet, Adding, Naming, Linking, Merging, Moving, Covered, Third, Carries,
              Exists, NameTaken, Same, Key
<1>3. ASSUME UNCHANGED <<node, edges>>, NEW b \in {"tool", "dedup"}, Opens(b)
      PROVE  JobInv' /\ job'.by = b
  BY <1>3, Opened DEF Opens
<1>4. cache \subseteq Pairs
  BY DEF Kept
<1>5. CASE Tool
  <2>1. Opens("tool") /\ UNCHANGED <<node, edges, index, cache, dedup>>
    BY <1>5, ToolOpens
  <2>2. JobInv' /\ Turn'
    BY <1>3, <2>1 DEF Turn
  <2>3. CycleInv' /\ DirtyKept
    BY <2>1 DEF CycleInv, CycleOk, Grouped, Unanswered, InGroup, DirtyKept
  <2> QED
    BY <1>1, <1>4, <2>1, <2>2, <2>3
<1>6. CASE Run
  <2>1. job # Free /\ Ran
    BY <1>6, RunRan
  <2>2. GraphInv' /\ JobInv' /\ RowsKept
    BY <1>6, RunKeeps
  <2>3. CycleInv' /\ DOMAIN dedup'.dirty = DOMAIN dedup.dirty
    BY <2>1, RanKeeps DEF Turn
  <2>4. \A u \in Entities : index'[u] \in {None, index[u]}
    BY <2>1 DEF Ran
  <2>5. Kept'
    <3>1. DOMAIN index' = Entities /\ index' = [u \in Entities |-> index'[u]] /\ cache' = cache
      BY <2>1 DEF Ran
    <3> QED
      BY <2>4, <3>1 DEF Kept
  <2>6. IndexMirrorsStore'
    <3> SUFFICES ASSUME NEW u \in Entities, Exists(u)', index'[u] # None PROVE index'[u] = node'[u].vec
      BY DEF IndexMirrorsStore
    <3>1. index'[u] = index[u] /\ index[u] # None
      BY <2>4
    <3>2. node[u] # Absent
      BY <3>1 DEF Unborn
    <3>3. Exists(u) /\ node'[u].vec = node[u].vec
      BY <2>2, <3>2 DEF RowsKept
    <3> QED
      BY <3>1, <3>3 DEF IndexMirrorsStore
  <2>7. Unborn'
    BY <2>2, <2>3, <2>4 DEF Unborn, RowsKept
  <2>8. Turn'
    <3>1. CASE Len(job.todo) = 1
      <4>1. job' = Free
        BY <2>1, <3>1 DEF Ran
      <4> QED
        BY <4>1 DEF Turn
    <3>2. CASE Len(job.todo) # 1
      <4>1. job' = [job EXCEPT !.todo = Tail(@)] /\ dedup' = dedup
        BY <2>1, <3>2 DEF Ran
      <4>2. job \in [by: {"tool", "dedup"}, todo: Seq(Statements)]
        BY <2>1 DEF JobInv
      <4>3. job'.by = job.by
        BY <4>1, <4>2
      <4> QED
        BY <2>1, <4>1, <4>3 DEF Turn
    <3> QED
      BY <3>1, <3>2
  <2> QED
    BY <2>2, <2>3, <2>5, <2>6, <2>7, <2>8
<1>7. CASE StartCycle \/ Embedded \/ Ask \/ Answer \/ ModelFails \/ EndGroup
  <2>1. UNCHANGED <<node, edges, index, job>>
    BY <1>7 DEF StartCycle, Embedded, Ask, Answer, ModelFails, EndGroup
  <2>2. CycleInv' /\ DirtyKept
    BY <1>4, <1>7, StartCycleKeeps, EmbeddedKeeps, AskKeeps, AnswerKeeps, ModelFailsKeeps, EndGroupKeeps
  <2>3. JobInv'
    BY <1>2, <2>1
  <2>4. Turn'
    <3>1. dedup.at # "merging"
      BY <1>7 DEF StartCycle, Embedded, Ask, Answer, ModelFails, EndGroup
    <3> QED
      BY <2>1, <3>1 DEF Turn
  <2>5. cache' \subseteq Pairs
    BY <1>4, <1>7 DEF StartCycle, Embedded, Ask, Answer, ModelFails, EndGroup, PairsOf
  <2> QED
    BY <1>1, <2>1, <2>2, <2>3, <2>4, <2>5
<1>8. CASE Apply
  <2>1. /\ CycleInv' /\ DirtyKept
        /\ job' = job \/ (Opens("dedup") /\ dedup'.at = "merging" /\ job = Free)
    BY <1>8, ApplyKeeps
  <2>2. UNCHANGED <<node, edges, index, cache>> /\ dedup.at = "ops"
    BY <1>8 DEF Apply
  <2>3. JobInv'
    BY <1>2, <1>3, <2>1, <2>2
  <2>4. Turn'
    BY <2>1, <2>2 DEF Turn
  <2> QED
    BY <1>1, <1>4, <2>1, <2>2, <2>3, <2>4
<1>9. CASE Locked
  <2>1. CycleInv' /\ DirtyKept /\ Opens("dedup") /\ dedup'.at = "merging"
    BY <1>9, LockedKeeps
  <2>2. UNCHANGED <<node, edges, index, cache>>
    BY <1>9 DEF Locked
  <2>3. JobInv'
    BY <1>3, <2>1, <2>2
  <2> QED
    BY <1>1, <1>4, <2>1, <2>2, <2>3 DEF Turn
<1>10. ASSUME NEW u \in Entities, WriteVector(u) PROVE MemoryInv'
  <2>1. CycleInv' /\ DirtyKept /\ dedup.dirty[u] \in Descs
    BY <1>4, <1>10, WriteVectorKeeps
  <2>2. PICK v \in Descs : v = dedup.dirty[u]
    BY <2>1
  <2>3. /\ job = Free /\ job' = job /\ edges' = edges /\ cache' = cache /\ u \in DOMAIN dedup.dirty
        /\ index' = [index EXCEPT ![u] = v]
        /\ node' = IF Exists(u) THEN [node EXCEPT ![u].vec = v, ![u].hash = v] ELSE node
    BY <1>10, <2>2 DEF WriteVector
  <2>4. PICK x : x = [node[u] EXCEPT !.vec = v, !.hash = v]
    OBVIOUS
  <2>5. Exists(u) => /\ x \in Nodes /\ x.name = node[u].name /\ x.vec = v
                     /\ node' = [node EXCEPT ![u] = x]
    <3> SUFFICES ASSUME Exists(u) PROVE /\ x \in Nodes /\ x.name = node[u].name /\ x.vec = v
                                        /\ node' = [node EXCEPT ![u] = x]
      OBVIOUS
    <3>1. PICK y \in Nodes : y = node[u]
      BY NodeTypes DEF GraphInv, GraphOk
    <3>2. x \in Nodes /\ x.name = y.name /\ x.vec = v
      BY <2>4, <3>1 DEF Nodes
    <3>3. node' = [node EXCEPT ![u].vec = v, ![u].hash = v]
      BY <2>3
    <3>4. node' = [node EXCEPT ![u] = x]
      BY <2>4, <3>3 DEF GraphInv, GraphOk
    <3> QED
      BY <3>1, <3>2, <3>4
  <2>6. /\ node' \in [Entities -> Nodes \cup {Absent, Gone}]
        /\ \A w \in Entities : w # u => node'[w] = node[w]
        /\ IF Exists(u) THEN node'[u] = x ELSE node'[u] = node[u]
    BY <2>3, <2>5 DEF GraphInv, GraphOk
  <2>7. \A w \in Entities : /\ Exists(w)' <=> Exists(w)
                            /\ node'[w] = Absent <=> node[w] = Absent
                            /\ Exists(w) => node'[w].name = node[w].name
    BY <2>5, <2>6, NodeTypes DEF Exists
  <2>8. GraphInv'
    <3>1. Attached'
      BY <2>3, <2>7 DEF GraphInv, GraphOk, Attached, Edges
    <3>2. Unique'
      BY <2>7 DEF GraphInv, Unique
    <3> QED
      BY <2>3, <2>6, <3>1, <3>2 DEF GraphInv, GraphOk, OneEdgeEach
  <2>9. Kept'
    BY <2>3 DEF Kept
  <2>10. IndexMirrorsStore'
    <3> SUFFICES ASSUME NEW w \in Entities, Exists(w)', index'[w] # None PROVE index'[w] = node'[w].vec
      BY DEF IndexMirrorsStore
    <3>1. Exists(w)
      BY <2>7
    <3>2. CASE w = u
      BY <2>3, <2>5, <2>6, <3>1, <3>2 DEF Kept
    <3>3. CASE w # u
      BY <2>3, <2>6, <3>1, <3>3 DEF Kept, IndexMirrorsStore
    <3> QED
      BY <3>2, <3>3
  <2>11. Unborn'
    <3> SUFFICES ASSUME NEW w \in Entities, node'[w] = Absent
                 PROVE  index'[w] = None /\ w \notin DOMAIN dedup'.dirty
      BY DEF Unborn
    <3>1. node[w] = Absent /\ ~Exists(w)
      BY <2>7 DEF Exists
    <3>2. w # u
      BY <2>3, <3>1 DEF Unborn
    <3> QED
      BY <2>1, <2>3, <3>1, <3>2 DEF Unborn, Kept, DirtyKept
  <2> QED
    BY <2>1, <2>3, <2>8, <2>9, <2>10, <2>11 DEF JobInv, Turn
<1>11. CASE Crash
  <2>1. UNCHANGED <<node, edges, cache>> /\ job' = Free /\ dedup' = NoCycle /\ index' = Warm(node)
    BY <1>11 DEF Crash
  <2>2. CycleInv'
    BY <2>1, Resting
  <2>3. GraphInv' /\ JobInv' /\ Turn'
    BY <2>1 DEF GraphInv, GraphOk, Unique, Attached, OneEdgeEach, Exists, JobInv, Turn
  <2>4. \A u \in Entities : node[u] \notin {Absent, Gone} => node[u].vec \in Descs \cup {None}
    BY NodeTypes DEF GraphInv, GraphOk, Nodes
  <2>5. Kept' /\ IndexMirrorsStore' /\ Unborn'
    BY <1>4, <2>1, <2>4, CycleStarts DEF Warm, Kept, IndexMirrorsStore, Unborn, Exists
  <2> QED
    BY <2>2, <2>3, <2>5
<1>12. CASE UNCHANGED vars
  <2>1. UNCHANGED <<node, edges, index, cache, job, dedup>>
    BY <1>12 DEF vars
  <2>2. JobInv'
    BY <1>2, <2>1
  <2>3. CycleInv' /\ DirtyKept
    BY <2>1 DEF CycleInv, CycleOk, Grouped, Unanswered, InGroup, DirtyKept
  <2> QED
    BY <1>1, <1>4, <2>1, <2>2, <2>3 DEF Turn
<1> QED
  BY <1>5, <1>6, <1>7, <1>8, <1>9, <1>10, <1>11, <1>12 DEF Next, Cycle

(* Every reachable state is one of these.                                  *)
THEOREM MemoryInvariant == Spec => []MemoryInv
<1>1. MemoryInv /\ [Next]_vars => MemoryInv'
  BY StepInv
<1> QED
  BY <1>1, InitInv, PTL DEF Spec

-----------------------------------------------------------------------------
(* What follows.                                                           *)

\* "update weight if same relation exists, else create": a relation between two entities has
\* one edge, through any calls, merges and crashes.
THEOREM EveryRelationHasOneEdge == Spec => []OneEdgeEach
<1>1. MemoryInv => OneEdgeEach
  BY DEF MemoryInv, GraphInv
<1> QED
  BY <1>1, MemoryInvariant, PTL

\* Every value has its shape, and a name stands for one entity (tools.py:361-364).
THEOREM GraphKeepsItsShape == Spec => []TypeOK
<1>1. MemoryInv => TypeOK
  BY DEF MemoryInv, GraphInv, GraphOk, Kept, Unique, TypeOK
<1> QED
  BY <1>1, MemoryInvariant, PTL

\* A merge deletes the duplicate (tools.py:695-696) when the canonical has whatever relation
\* the duplicate had with a third entity, at least as strong.
THEOREM MergesLoseNoRelation == Spec => []MergeKeepsRelations
<1>1. MemoryInv => MergeKeepsRelations
  <2> DEFINE d == Head(job.todo).on
             c == Head(job.todo).into
  <2> SUFFICES ASSUME MemoryInv, Deleting, c # None, Exists(c), NEW e \in edges,
                      d \in {e.from, e.to}, ~({e.from, e.to} \subseteq {c, d})
               PROVE  \E f \in edges : /\ f.rel = e.rel /\ f.weight >= e.weight
                                       /\ f.from = IF e.from = d THEN c ELSE e.from
                                       /\ f.to = IF e.to = d THEN c ELSE e.to
    BY DEF MergeKeepsRelations
  <2>1. /\ job # Free /\ Head(job.todo).do = "delete"
        /\ job.todo \in Seq(Statements) /\ Listed(job.todo)
    BY DEF Deleting, MemoryInv, JobInv
  <2>2. job.todo # <<>>
    BY <2>1 DEF Listed, Quiet, Adding, Naming, Linking, Merging, Moving
  <2>3. Head(job.todo) = job.todo[1] /\ job.todo[1] \in Statements /\ 1 \in DOMAIN job.todo
    BY <2>1, <2>2, TailOf
  <2>4. /\ job.todo[1] \in Deletes /\ job.todo[1] \notin Writes \cup Namings \cup Creates
        /\ job.todo[1] \notin Links \cup Repoints \cup Unlinks
    BY <2>1, <2>3, HeadKinds
  <2>5. ~Quiet(job.todo)
    <3> SUFFICES ASSUME Quiet(job.todo) PROVE FALSE
      OBVIOUS
    <3>1. job.todo \in Seq(Quiets) /\ job.todo # <<>>
      BY DEF Quiet
    <3>2. job.todo[1] \in Quiets
      BY <3>1
    <3> QED
      BY <2>3, <2>4, <3>2 DEF Quiets
  <2>6. ~Adding(job.todo) /\ ~Naming(job.todo)
    BY <2>4 DEF Adding, Naming
  <2>7. ~Linking(job.todo)
    <3> SUFFICES ASSUME Linking(job.todo) PROVE FALSE
      OBVIOUS
    <3>1. job.todo[1] \in NewLinks \cup Unlinks
      BY <2>3 DEF Linking
    <3> QED
      BY <2>4, <3>1 DEF NewLinks
  <2>8. PICK c1 \in Entities, d1 \in Entities : c1 # d1 /\ Moving(job.todo, c1, d1)
    BY <2>1, <2>5, <2>6, <2>7 DEF Listed, Merging
  <2>9. 1 = Len(job.todo)
    BY <2>3, <2>4, <2>8 DEF Moving
  <2>10. c = c1 /\ d = d1
    BY <2>3, <2>8, <2>9 DEF Moving
  <2>11. Covered(job.todo, e, c1, d1)
    BY <2>8, <2>10 DEF Moving, Third
  <2>12. \A k \in DOMAIN job.todo : k = 1
    BY <2>1, <2>9
  <2>13. \E f \in edges : Carries(f, e, c1, d1)
    BY <2>4, <2>11, <2>12 DEF Covered
  <2> QED
    BY <2>10, <2>13 DEF Carries
<1> QED
  BY <1>1, MemoryInvariant, PTL

\* A search scores an entity by the vector its row holds (graph.py:370-385): no edit, merge,
\* embedding pass or restart leaves another one in the index.
THEOREM IndexSaysWhatTheStoreSays == Spec => []IndexMirrorsStore
<1>1. MemoryInv => IndexMirrorsStore
  BY DEF MemoryInv
<1> QED
  BY <1>1, MemoryInvariant, PTL

\* A pair that is on record as distinct, or aliased, when the cycle begins is not merged in it
\* (deduper.py:236-242), whatever group its entities share with a third.
THEOREM SettledPairsAreLeft == Spec => SettledPairsRest
<1>1. ASSUME MemoryInv, [Next]_vars, dedup.at \in {"ops", "locking"}, dedup'.at = "merging"
      PROVE  {Begun.c, Begun.d} \notin dedup.settled
  <2>1. /\ dedup \in Cycles /\ dedup.ops \in Seq(Operations) /\ Grouped /\ dedup.pairs \cap dedup.settled = {}
    BY <1>1 DEF MemoryInv, CycleInv, CycleOk, Cycles
  <2>2. dedup.at = "ops" => dedup.ops # <<>>
    <3> SUFFICES ASSUME dedup.at = "ops", dedup.ops = <<>> PROVE FALSE
      OBVIOUS
    <3>1. CASE Tool
      BY <1>1, <3>1, ToolOpens DEF MemoryInv
    <3>2. CASE Run
      <4>1. dedup' = dedup \/ dedup' = [dedup EXCEPT !.at = "ops"]
        BY <3>2, RunRan DEF Ran
      <4> QED
        BY <1>1, <2>1, <4>1 DEF Cycles
    <3>3. CASE EndGroup
      <4>1. dedup' = NextGroup(dedup.uncovered)
        BY <3>3 DEF EndGroup
      <4>2. CASE dedup.uncovered = {}
        BY <1>1, <4>1, <4>2, CycleStarts DEF NextGroup
      <4>3. CASE dedup.uncovered # {}
        <5>1. dedup' = [dedup EXCEPT !.at = "ask", !.uncovered = dedup.uncovered, !.group = {},
                                     !.ops = <<>>, !.confirmed = {}, !.answered = FALSE]
          BY <4>1, <4>3 DEF NextGroup
        <5>2. dedup'.at = "ask"
          BY <2>1, <5>1 DEF Cycles
        <5> QED
          BY <1>1, <5>2
      <4> QED
        BY <4>2, <4>3
    <3>4. CASE Crash
      BY <1>1, <3>4, CycleStarts DEF Crash
    <3>5. ~(StartCycle \/ Embedded \/ Ask \/ Answer \/ ModelFails \/ Apply \/ Locked \/ \E u \in Entities : WriteVector(u))
      BY DEF StartCycle, Embedded, Ask, Answer, ModelFails, Apply, Locked, WriteVector
    <3> QED
      BY <1>1, <3>1, <3>2, <3>3, <3>4, <3>5 DEF Next, Cycle, vars
  <2>3. InGroup(Begun)
    <3>1. CASE dedup.at = "ops"
      <4>1. Head(dedup.ops) = dedup.ops[1] /\ 1 \in DOMAIN dedup.ops
        BY <2>1, <2>2, <3>1, TailOf
      <4> QED
        BY <2>1, <3>1, <4>1 DEF Grouped, Begun
    <3>2. CASE dedup.at = "locking"
      BY <2>1, <3>2 DEF Grouped, Begun
    <3> QED
      BY <1>1, <3>1, <3>2
  <2>4. {Begun.c, Begun.d} \in dedup.pairs
    BY <1>1, <2>1, <2>3 DEF Grouped, InGroup
  <2> QED
    BY <2>1, <2>4
<1>2. MemoryInv /\ [Next]_vars =>
        [dedup.at \in {"ops", "locking"} /\ dedup'.at = "merging" => {Begun.c, Begun.d} \notin dedup.settled]_dedup
  BY <1>1
<1> QED
  BY <1>2, MemoryInvariant, PTL DEF Spec, SettledPairsRest
=============================================================================
