------------------------------ MODULE MemoryGraph ------------------------------
(* The long-term memory graph: the librarians' editing tools, which hold one   *)
(* write lock from the first to the last of their statements; the embedding    *)
(* pass and the deduplication cycle, which await the embedder, the model and   *)
(* the lock; and the vector index kept in memory beside the store. Each        *)
(* statement is durable when it has run, so a crash keeps a part of a call.    *)
EXTENDS Naturals, Sequences, SequencesExt, FiniteSets, TLC

CONSTANTS
    Entities,     \* uuids; one that was deleted is never given again
    Names,
    Texts,        \* what a description can say
    Blank,        \* a description that was never written, or is empty
    Relations,
    Conflicts,    \* [Relations -> SUBSET Relations]: the mutually exclusive ones
    Strength,     \* weights are 1..Strength; an alias has the last
    Alike(_, _),  \* whether two vectors are as close as the threshold asks
    BatchCount,   \* dedup.batch_count
    MaxCalls, MaxOps, MaxCycles, MaxCrashes, MaxEdges,  \* bounds: tool calls, merges the model asks
                  \* for, deduplication cycles and crashes in a run; edges at its start
    Absent, Gone, None, Free

ASSUME GraphAssumption ==
    /\ Blank \notin Texts
    /\ Conflicts \in [Relations -> SUBSET Relations] /\ "ALIASED_TO" \notin Relations
    /\ \A r, q \in Relations : r \in Conflicts[q] <=> q \in Conflicts[r]
    /\ \A r \in Relations : r \notin Conflicts[r]
    /\ IsFiniteSet(Relations) /\ None \notin Names
    /\ {Strength, BatchCount, MaxOps, MaxCalls, MaxCycles, MaxCrashes, MaxEdges} \subseteq Nat
    /\ Strength > 0 /\ BatchCount > 1

VARIABLES
    node,    \* the Entity table
    edges,   \* the Relation table
    index,   \* VectorIndex._vecs
    cache,   \* DedupCache: the pairs on record as distinct
    job,     \* what the holder of the write lock has still to run
    dedup,   \* the deduplication cycle
    spent    \* calls, operations, cycles and crashes so far (bounds)

vars == <<node, edges, index, cache, job, dedup, spent>>

\* A description: what it says, and the entities whose alias note it carries.
Descs == [said: Texts \cup {Blank}, notes: SUBSET Entities]
Unwritten == [said |-> Blank, notes |-> {}]
Says(t) == [said |-> t, notes |-> {}]

\* A vector and a hash are named by the text they were made of; None is "" or NULL.
Nodes == [name: Names \cup {None}, desc: Descs, content: Descs, hash: Descs \cup {None}, vec: Descs \cup {None}]

\* A uuid without a row.
ASSUME NoRowIsNoNode == Absent # Gone /\ {Absent, Gone} \cap Nodes = {}

\* born: 0 before this run, 1 during it.
Edges == [from: Entities, rel: Relations \cup {"ALIASED_TO"}, to: Entities, weight: 1..Strength, born: {0, 1}]
Pairs == {{u, v} : u, v \in Entities} \ {{u} : u \in Entities}

Exists(u) == node[u] \notin {Absent, Gone}
Key(e)  == <<e.from, e.rel, e.to>>
Same(e) == {f \in edges : Key(f) = Key(e)}
PairsOf(group) == {p \in Pairs : p \subseteq group}

\* warm_index: every row that has a vector.
Warm(ns) == [u \in Entities |-> IF ns[u] \in {Absent, Gone} THEN None ELSE ns[u].vec]

NoCycle == [at |-> "off", dirty |-> <<>>, settled |-> {}, pairs |-> {}, uncovered |-> {}, group |-> {},
            answered |-> FALSE, ops |-> <<>>, confirmed |-> {}, read |-> <<>>]

\* The graph an earlier run has left: some entities embedded, some not yet, names unique.
Init ==
    /\ \E name \in [Entities -> Names \cup {None}], text \in [Entities -> Texts], clean \in SUBSET Entities :
           /\ \A u, v \in Entities : name[u] = name[v] /\ name[u] # None => u = v
           /\ \A u \in Entities : name[u] = None => u \notin clean /\ text[u] = CHOOSE t \in Texts : TRUE
           /\ node = [u \in Entities |->
                  LET d == Says(text[u])
                      v == IF u \in clean THEN d ELSE None
                  IN  IF name[u] = None THEN Absent ELSE [name |-> name[u], desc |-> d, content |-> d, hash |-> v, vec |-> v]]
    /\ \E es \in UNION {[1..k -> {e \in Edges : e.rel # "ALIASED_TO" /\ e.born = 0
                                                /\ Exists(e.from) /\ Exists(e.to) /\ e.from # e.to}]
                           : k \in 0..MaxEdges} :
           /\ edges = {es[k] : k \in DOMAIN es}
           /\ \A e, f \in edges : e.from = f.from /\ e.to = f.to /\ e # f => f.rel \notin {e.rel} \cup Conflicts[e.rel]
    /\ index = Warm(node)
    /\ cache = {} /\ job = Free /\ dedup = NoCycle
    /\ spent = [calls |-> 0, ops |-> 0, cycles |-> 0, crashes |-> 0]

--------------------------------------------------------------------------------
(* The lock holder: a list of statements. After each, some entities are dropped *)
(* from the index (_mark_embed_stale).                                          *)

Set(u, field, val) == [do |-> "set", on |-> u, field |-> field, val |-> val, stale |-> {}]
Rewrite(u, d) == <<Set(u, "desc", d), Set(u, "content", d), [Set(u, "hash", None) EXCEPT !.stale = {u}]>>

\* The statement at the head has run: the next one, or the lock is free.
Ran ==
    /\ job' = IF Len(job.todo) = 1 THEN Free ELSE [job EXCEPT !.todo = Tail(@)]
    /\ dedup' = IF job.by = "dedup" /\ Len(job.todo) = 1 THEN [dedup EXCEPT !.at = "ops"] ELSE dedup
    /\ index' = [u \in Entities |-> IF u \in Head(job.todo).stale THEN None ELSE index[u]]
    /\ UNCHANGED <<cache, spent>>

Statement(kind) == job # Free /\ Head(job.todo).do = kind /\ Ran

\* MATCH (e {uuid}) SET e.field: no such row, no effect.
RunSet ==
    /\ Statement("set")
    /\ LET s == Head(job.todo)
       IN  node' = IF Exists(s.on) THEN [node EXCEPT ![s.on] = [@ EXCEPT ![s.field] = s.val]] ELSE node
    /\ UNCHANGED edges

RunCreate ==
    /\ Statement("create")
    /\ node' = [node EXCEPT ![Head(job.todo).on] =
                   [name |-> None, desc |-> Unwritten, content |-> Unwritten, hash |-> None, vec |-> None]]
    /\ UNCHANGED edges

\* DETACH DELETE
RunDelete ==
    /\ Statement("delete")
    /\ LET d == Head(job.todo).on
       IN  /\ node' = IF Exists(d) THEN [node EXCEPT ![d] = Gone] ELSE node
           /\ edges' = {e \in edges : d \notin {e.from, e.to}}

Linked(es, e) == IF Exists(e.from) /\ Exists(e.to) THEN es \cup {e} ELSE es

RunLink ==
    /\ Statement("link")
    /\ edges' = Linked(edges, Head(job.todo).edge)
    /\ UNCHANGED node

RunUnlink ==
    /\ Statement("unlink")
    /\ LET s == Head(job.todo) IN edges' = {e \in edges : ~(e.from = s.from /\ e.to = s.to /\ e.rel \in s.rels)}
    /\ UNCHANGED node

\* SET r.weight on every such relation.
RunReweigh ==
    /\ Statement("reweigh")
    /\ LET e == Head(job.todo).edge IN edges' = (edges \ Same(e)) \cup {[f EXCEPT !.weight = e.weight] : f \in Same(e)}
    /\ UNCHANGED node

\* _edge_get and _edge_merge_onto: the stronger weight is kept. The age of the edge that is
\* re-pointed is not among what _edges_from and _edges_to return, so the one found keeps its own.
Stronger(a, b) == IF a > b THEN a ELSE b

\* For a mutant: an edge the canonical already has is left as it is.
Collapsed(e) == IF Same(e) = {} THEN Linked(edges, e) ELSE edges

\* For a mutant: an edge is made whether or not there is one.
Doubled(e) == Linked(edges, e)

MergedOnto(e) ==
    IF Same(e) = {} THEN Linked(edges, e)
    ELSE (edges \ Same(e)) \cup {[f EXCEPT !.weight = Stronger(@, e.weight)] : f \in Same(e)}

RunRepoint ==
    /\ Statement("repoint")
    /\ edges' = MergedOnto(Head(job.todo).edge)
    /\ UNCHANGED node

--------------------------------------------------------------------------------
(* The librarians' tools: each resolves its entities under the lock. *)

Call(todo) ==
    /\ job = Free /\ spent.calls < MaxCalls
    /\ job' = [by |-> "tool", todo |-> todo]
    /\ spent' = [spent EXCEPT !.calls = @ + 1]
    /\ UNCHANGED <<node, edges, index, cache, dedup>>

\* name_exists_in_scope: the name is compared under the lock. For a mutant, it is not.
NameUnchecked(n) == FALSE
NameTaken(n) == \E u \in Entities : Exists(u) /\ node[u].name = n

memory_add_entity(n, t) ==
    \E u \in Entities :
        /\ node[u] = Absent /\ ~NameTaken(n)
        /\ Call(<<[do |-> "create", on |-> u, stale |-> {}], Set(u, "name", n), Set(u, "desc", Says(t)),
                  Set(u, "content", Says(t)), Set(u, "hash", None)>>)

\* The diff applies to what is there now, and leaves the alias notes.
memory_update_entity_description(u, t) ==
    Exists(u) /\ Call(Rewrite(u, [node[u].desc EXCEPT !.said = t]))

memory_delete_entity(u) ==
    Exists(u) /\ Call(<<[do |-> "delete", on |-> u, into |-> None, stale |-> {u}]>>)

\* The conflicting relations of the ordered pair go first.
Unlink(u, v, rels) == [do |-> "unlink", from |-> u, to |-> v, rels |-> rels, stale |-> {}]

memory_set_relationship(u, r, v, w) ==
    LET e == [from |-> u, rel |-> r, to |-> v, weight |-> w, born |-> 1]
    IN  /\ Exists(u) /\ Exists(v)
        /\ \E first \in SetToSeqs({Unlink(u, v, {q}) : q \in Conflicts[r]}) :
               Call(first \o <<[do |-> IF Same(e) # {} THEN "reweigh" ELSE "link", edge |-> e, stale |-> {}]>>)

memory_delete_relationship(u, v, rels) ==
    Exists(u) /\ Exists(v) /\ Call(<<Unlink(u, v, rels)>>)

\* _merge_internal: the statements it may run, in any order of the edges; dd is the
\* description of the duplicate as it was read.
Alias(c, d, dd, text) ==
    Rewrite(c, text)
    \o (IF c \in dd.notes THEN <<>> ELSE Rewrite(d, [dd EXCEPT !.notes = @ \cup {c}]))
    \o <<[do |-> "link", edge |-> [from |-> d, rel |-> "ALIASED_TO", to |-> c, weight |-> Strength, born |-> 1],
          stale |-> {}]>>

Repoint(e) == [do |-> "repoint", edge |-> [e EXCEPT !.born = 1], stale |-> {}]
Outgoing(c, d) == {Repoint([e EXCEPT !.from = c]) : e \in {f \in edges : f.from = d /\ f.to # c}}
Incoming(c, d) == {Repoint([e EXCEPT !.to = c]) : e \in {f \in edges : f.to = d /\ f.from # c}}
Repointed(c, d) == {out \o in : out \in SetToSeqs(Outgoing(c, d)), in \in SetToSeqs(Incoming(c, d))}
Discard(d, c) == <<[do |-> "delete", on |-> d, into |-> c, stale |-> {d}]>>

\* For a mutant: the duplicate is deleted before its relations are moved.
DeletedFirst(c, d, dd, text, verdict) ==
    IF verdict = "alias" THEN {Alias(c, d, dd, text)}
    ELSE {Discard(d, c) \o s \o Rewrite(c, text) : s \in Repointed(c, d)}

Merge(c, d, dd, text, verdict) ==
    IF verdict = "alias" THEN {Alias(c, d, dd, text)}
    ELSE {s \o Rewrite(c, text) \o Discard(d, c) : s \in Repointed(c, d)}

Verdicts == {"duplicate", "alias"}

memory_merge_into(c, d, t, verdict) ==
    /\ Exists(c) /\ Exists(d) /\ c # d
    /\ \E todo \in Merge(c, d, node[d].desc, Says(t), verdict) : Call(todo)

Tool ==
    \/ \E n \in Names, t \in Texts : memory_add_entity(n, t)
    \/ \E u \in Entities, t \in Texts : memory_update_entity_description(u, t)
    \/ \E u \in Entities : memory_delete_entity(u)
    \/ \E u, v \in Entities, r \in Relations, w \in 1..Strength : memory_set_relationship(u, r, v, w)
    \/ \E u, v \in Entities, r \in Relations :
           \/ memory_delete_relationship(u, v, {r})
           \/ memory_delete_relationship(u, v, Relations \cup {"ALIASED_TO"})
    \/ \E c, d \in Entities, t \in Texts, verdict \in Verdicts : memory_merge_into(c, d, t, verdict)

--------------------------------------------------------------------------------
(* The deduplication cycle, which begins with the embedding pass. *)

Aliased == {{e.from, e.to} : e \in {f \in edges : f.rel = "ALIASED_TO"}}

\* The pairs that are settled: on record as distinct, or aliased. For a mutant, only the latter.
UnrecordedSettled == Aliased
Settled == cache \cup Aliased

\* The candidate pairs of the index as it now is.
Candidates(ix) ==
    {p \in Pairs : (\A u \in p : ix[u] # None) /\ (\A u, v \in p : u # v => Alike(ix[u], ix[v]))} \ Settled

Scanned(ix) ==
    LET ps == Candidates(ix)
    IN  IF ps = {} THEN NoCycle
        ELSE [NoCycle EXCEPT !.at = "ask", !.settled = cache \cup Aliased, !.pairs = ps, !.uncovered = ps]

\* The rows without a hash are read, then the embedder is awaited.
StartCycle ==
    /\ dedup.at = "off" /\ spent.cycles < MaxCycles
    /\ spent' = [spent EXCEPT !.cycles = @ + 1]
    /\ LET dirty == {u \in Entities : Exists(u) /\ node[u].hash = None}
       IN  dedup' = IF dirty = {} THEN Scanned(index)
                    ELSE [NoCycle EXCEPT !.at = "embedding", !.dirty = [u \in dirty |-> node[u].content]]
    /\ UNCHANGED <<node, edges, index, cache, job>>

\* It may fail for some of them.
Embedded ==
    /\ dedup.at = "embedding"
    /\ \E done \in SUBSET DOMAIN dedup.dirty :
           dedup' = IF done = {} THEN Scanned(index)
                    ELSE [dedup EXCEPT !.at = "writing", !.dirty = [u \in done |-> dedup.dirty[u]]]
    /\ UNCHANGED <<node, edges, index, cache, job, spent>>

\* For a mutant: the index is filled, the row is not written.
IndexOnly(u) ==
    /\ dedup.at = "writing" /\ u \in DOMAIN dedup.dirty /\ job = Free
    /\ index' = [index EXCEPT ![u] = dedup.dirty[u]] /\ dedup' = NoCycle
    /\ UNCHANGED <<node, edges, cache, job, spent>>

\* One by one, each under the lock: vector and hash of the text that was read, whatever the
\* row says by now, and then the index, whether or not the row is still there.
WriteVector(u) ==
    /\ dedup.at = "writing" /\ u \in DOMAIN dedup.dirty /\ job = Free
    /\ LET content == dedup.dirty[u]
           rest == [v \in DOMAIN dedup.dirty \ {u} |-> dedup.dirty[v]]
       IN  /\ node' = IF Exists(u) THEN [node EXCEPT ![u].vec = content, ![u].hash = content] ELSE node
           /\ index' = [index EXCEPT ![u] = content]
           /\ dedup' = IF rest = <<>> THEN Scanned(index') ELSE [dedup EXCEPT !.dirty = rest]
    /\ UNCHANGED <<edges, cache, job, spent>>

\* clique_edge_cover: a pair not yet covered, grown to a clique while there is room.
Cliques(p) ==
    LET adjacent(c, group) == \A u \in group : {c, u} \in dedup.pairs
    IN  {g \in SUBSET Entities :
            /\ p \subseteq g /\ Cardinality(g) <= BatchCount
            /\ \A u, v \in g : u # v => {u, v} \in dedup.pairs
            /\ Cardinality(g) = BatchCount \/ \A c \in Entities \ g : ~adjacent(c, g)}

\* The next group is shown to the model, unless fewer than two of it are left.
NextGroup(rest) == IF rest = {} THEN NoCycle ELSE [dedup EXCEPT !.at = "ask", !.uncovered = rest, !.group = {},
                                                                !.ops = <<>>, !.confirmed = {}, !.answered = FALSE]

Ask ==
    /\ dedup.at = "ask"
    /\ \E p \in dedup.uncovered : \E g \in Cliques(p) :
           LET rest == dedup.uncovered \ PairsOf(g)
           IN  dedup' = IF Cardinality({u \in g : Exists(u)}) < 2 THEN NextGroup(rest)
                        ELSE [dedup EXCEPT !.at = "asked", !.group = g, !.uncovered = rest]
    /\ UNCHANGED <<node, edges, index, cache, job, spent>>

\* The model's operations on the group; Blank: no merged description is given.
Ops(g) == UNION {[1..k -> {op \in [c: g, d: g, text: Texts \cup {Blank}, verdict: Verdicts] : op.c # op.d}]
                   : k \in 0..(MaxOps - spent.ops)}

Answer ==
    /\ dedup.at = "asked"
    /\ \E ops \in Ops(dedup.group) :
           /\ dedup' = [dedup EXCEPT !.at = "ops", !.ops = ops, !.answered = TRUE,
                                     !.confirmed = {{ops[k].c, ops[k].d} : k \in DOMAIN ops}]
           /\ spent' = [spent EXCEPT !.ops = @ + Len(ops)]
    /\ UNCHANGED <<node, edges, index, cache, job>>

\* An error of the model ends the stream: no operations.
ModelFails ==
    /\ dedup.at = "asked"
    /\ dedup' = [dedup EXCEPT !.at = "ops"]
    /\ UNCHANGED <<node, edges, index, cache, job, spent>>

\* Both entities are read before the lock is asked for. If it is held, the cycle waits
\* with what it has read.
Merges(op, cd, dd) ==
    {[by |-> "dedup", todo |-> todo] :
        todo \in Merge(op.c, op.d, dd, IF op.text = Blank THEN cd ELSE Says(op.text), op.verdict)}

Apply ==
    /\ dedup.at = "ops" /\ dedup.ops # <<>>
    /\ LET op == Head(dedup.ops)
           next == [dedup EXCEPT !.ops = Tail(@)]
       IN  \/ /\ ~Exists(op.c) \/ ~Exists(op.d)
              /\ dedup' = next /\ UNCHANGED job
           \/ /\ Exists(op.c) /\ Exists(op.d) /\ job = Free
              /\ job' \in Merges(op, node[op.c].desc, node[op.d].desc)
              /\ dedup' = [next EXCEPT !.at = "merging"]
           \/ /\ Exists(op.c) /\ Exists(op.d) /\ job # Free
              /\ dedup' = [next EXCEPT !.at = "locking", !.read = <<op, node[op.c].desc, node[op.d].desc>>]
              /\ UNCHANGED job
    /\ UNCHANGED <<node, edges, index, cache, spent>>

Locked ==
    /\ dedup.at = "locking" /\ job = Free
    /\ job' \in Merges(dedup.read[1], dedup.read[2], dedup.read[3])
    /\ dedup' = [dedup EXCEPT !.at = "merging", !.read = <<>>]
    /\ UNCHANGED <<node, edges, index, cache, spent>>

\* The pairs of the group that no operation names go on record as distinct.
EndGroup ==
    /\ dedup.at = "ops" /\ dedup.ops = <<>>
    /\ cache' = cache \cup (PairsOf(dedup.group) \ dedup.confirmed)
    /\ dedup' = NextGroup(dedup.uncovered)
    /\ UNCHANGED <<node, edges, index, job, spent>>

Cycle ==
    \/ StartCycle \/ Embedded \/ Ask \/ Answer \/ ModelFails \/ Apply \/ Locked \/ EndGroup
    \/ \E u \in Entities : WriteVector(u)

--------------------------------------------------------------------------------
\* The process dies; at the next start the index is filled from the store.
Crash ==
    /\ spent.crashes < MaxCrashes
    /\ spent' = [spent EXCEPT !.crashes = @ + 1]
    /\ job' = Free /\ dedup' = NoCycle /\ index' = Warm(node)
    /\ UNCHANGED <<node, edges, cache>>

Run == RunSet \/ RunCreate \/ RunDelete \/ RunLink \/ RunUnlink \/ RunReweigh \/ RunRepoint

Next == Tool \/ Run \/ Cycle \/ Crash
Spec == Init /\ [][Next]_vars
--------------------------------------------------------------------------------
\* Every value has its shape, and a name stands for one entity of the scope: two librarians that add it
\* at once are serialised by the lock (tools.py:361-364), also when a crash cut one of them.
TypeOK ==
    /\ node \in [Entities -> Nodes \cup {Absent, Gone}] /\ edges \subseteq Edges
    /\ index \in [Entities -> Descs \cup {None}] /\ cache \subseteq Pairs
    /\ \A u, v \in Entities : Exists(u) /\ Exists(v) /\ node[u].name = node[v].name /\ u # v => node[u].name = None

\* "update weight if same relation exists, else create": one edge for a relation between two
\* entities, through any sequence of edits and merges, and through a crash inside one of them.
OneEdgeEach == \A e, f \in edges : Key(e) = Key(f) /\ e.rel # "ALIASED_TO" => e = f

Deleting == job # Free /\ Head(job.todo).do = "delete"

\* When a merge comes to delete the duplicate, the canonical has every relation the duplicate
\* has with a third entity, at least as strong ("so a collapsed merge doesn't quietly lose
\* the duplicate's edge strength", tools.py:187-188), whatever crashed merges came before.
MergeKeepsRelations ==
    LET d == Head(job.todo).on
        c == Head(job.todo).into
    IN  Deleting /\ c # None /\ Exists(c) =>
            \A e \in edges : d \in {e.from, e.to} /\ ~({e.from, e.to} \subseteq {c, d}) =>
                \E f \in edges : /\ f.rel = e.rel /\ f.weight >= e.weight
                                 /\ f.from = IF e.from = d THEN c ELSE e.from
                                 /\ f.to = IF e.to = d THEN c ELSE e.to

\* What the vector index holds for an entity is the vector its row holds: a search never
\* scores an entity by a vector the store has replaced, and a restart loses none.
IndexMirrorsStore == \A u \in Entities : Exists(u) /\ index[u] # None => index[u] = node[u].vec

\* A pair the model found distinct or aliased in an earlier cycle is not merged in this one,
\* though its entities may be in candidate pairs with a third: no clique holds both.
Begun == IF dedup.at = "ops" THEN Head(dedup.ops) ELSE dedup.read[1]

SettledPairsRest ==
    [][dedup.at \in {"ops", "locking"} /\ dedup'.at = "merging" => {Begun.c, Begun.d} \notin dedup.settled]_dedup

\* "so we never re-spend on them" (deduper.py:15): no group has a pair that is on record.
NeverAskedAgain == [][dedup'.at = "asked" /\ dedup.at = "ask" => PairsOf(dedup'.group) \cap cache = {}]_dedup

\* "maintenance that never silently destroys data" (memory/PLAN.md:6-7): an entity that is
\* merged away is merged into one that is there.
MergedIntoSomething ==
    [][\A d \in Entities : Exists(d) /\ node'[d] = Gone =>
          Head(job.todo).into = None \/ Exists(Head(job.todo).into)]_node

\* "SHA-256 of the embed content used to detect staleness" (graph.py:154), "marking the row
\* for re-embed" (PLAN.md:122-123): a row that counts as embedded was embedded as it now reads.
CleanIsCurrent == job = Free => \A u \in Entities : Exists(u) /\ node[u].hash # None => node[u].hash = node[u].content

\* memory_delete_entity "removes uuid from vector cache" (PLAN.md:313), and a merge the
\* duplicate's: no vector is left of an entity that is gone.
NoGhosts == job = Free => \A u \in Entities : index[u] # None => Exists(u)

\* "Confirmed-distinct pairs are cached" (deduper.py:14): the model has answered about them.
DistinctWasConfirmed == [][cache' # cache => dedup.answered]_cache

\* "on cold start it is rebuilt from rows whose embed_hash is non-empty" (PLAN.md:137-138).
WarmIsClean == [][Crash => \A u \in Entities : index'[u] # None => node[u].hash # None]_vars

\* "Members joined by '/' are mutually exclusive within an ordered pair"
\* (prompts/default_relations.txt:3), also when two entities become one.
ConflictsExclude ==
    job = Free => \A e, f \in edges :
                      e.from = f.from /\ e.to = f.to /\ e.rel \in Relations => f.rel \notin Conflicts[e.rel]

\* "keep the stronger weight and the earlier created_at" (tools.py:186-187).
MergeKeepsAge ==
    [][LET e == Head(job.todo).edge
           d == Last(job.todo).on
       IN  job # Free /\ Head(job.todo).do = "repoint" /\ Same(e) # {} =>
               \A g \in edges, f \in edges' :
                   /\ g.rel = e.rel /\ Key(f) = Key(e)
                   /\ (g.from = d /\ g.to = e.to) \/ (g.to = d /\ g.from = e.from)
                   => f.born <= g.born]_edges
================================================================================
