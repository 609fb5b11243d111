----------------------------- MODULE MemoryView -----------------------------
(***************************************************************************)
(* What is read of the memory graph (TinyCTX/modules/memory): which scopes *)
(* a turn sees, search, the block of memories in the prompt, how an entity *)
(* is shown, and the issues flaggers find for the reviewer.                *)
(*                                                                         *)
(* A graph is [entity, edges]: entity maps uuids (numbers) to              *)
(* [name, scope, pinned, size, updated, mention, vector], edges is a set   *)
(* of <<from, relation, to>>.  A scope is <<"global">>, <<"user", x>> or   *)
(* <<"guild", x>>; pinned is a scope or <<>>.  A name is a sequence of     *)
(* letters, in one case.                                                   *)
(***************************************************************************)
EXTENDS RankFusion, Integers, Sequences, FiniteSets, SequencesExt

CONSTANT TargetOf  \* what normalize_target() makes of a name in a scope

Topmost(seq, n) == SubSeq(seq, 1, IF n < Len(seq) THEN n ELSE Len(seq))
Lesser(a, b) == IF a < b THEN a ELSE b

-----------------------------------------------------------------------------
(* Scopes.                                                                 *)

GlobalScope == <<"global">>

ResolveScopes(server, users) ==
  {GlobalScope} \union (IF server = "" THEN {} ELSE {<<"guild", TargetOf[server]>>})
                \union {<<"user", TargetOf[u]>> : u \in users \ {""}}

(* Of two scopes the narrower; of two specific ones the first.             *)
Narrower(a, b, broad) == IF a = broad THEN b ELSE a

(* _active_users(): the authors of the last user messages, one at least.   *)
ActiveUsers(dialogue, scan) ==
  LET said == SelectSeq(dialogue, LAMBDA e : e.role = "user" /\ e.author # "")
      first == Len(said) - (IF scan < 1 THEN 1 ELSE scan) + 1
  IN {said[i].author : i \in {j \in DOMAIN said : j >= first}}

LastUserText(dialogue) ==
  LET said == SelectSeq(dialogue, LAMBDA e : e.role = "user") IN IF said = <<>> THEN "" ELSE Last(said).text

(* _cycle_env() looks at the top of the context's state.  The session's    *)
(* own state, where the bridges put the server's name, is under "session". *)
CycleServer(state) == IF "server_name" \in DOMAIN state THEN state["server_name"] ELSE ""

CycleScopes(state, dialogue, scan) == ResolveScopes(CycleServer(state), ActiveUsers(dialogue, scan))

-----------------------------------------------------------------------------
(* Reads: what is out of scope is not there, at either end of an edge.     *)

ScopedUuids(g, visible) == {u \in DOMAIN g.entity : g.entity[u].scope \in visible}

(* _edges_from() and _edges_to()                                           *)
EdgesOf(g, uid, visible) ==
  [out |-> {e \in g.edges : e[1] = uid /\ g.entity[e[3]].scope \in visible},
   in |-> {e \in g.edges : e[3] = uid /\ g.entity[e[1]].scope \in visible}]

(* find_by_name(): the first 25 names that contain this one, in no order   *)
(* in particular; those out of scope are taken out afterwards.             *)
Containing(g, name) ==
  {u \in DOMAIN g.entity : \E i, j \in 1..Len(g.entity[u].name) : SubSeq(g.entity[u].name, i, j) = name}
FoundByName(g, name, visible, limit) ==
  LET like == Containing(g, name)
  IN {S \intersect ScopedUuids(g, visible) :
        S \in {T \in SUBSET like : Cardinality(T) = Lesser(limit, Cardinality(like))}}

(* _resolve(): the entities a uuid (0 for none) or a name may resolve to.  *)
Resolve(g, uid, name, visible, limit) ==
  IF uid \in ScopedUuids(g, visible) THEN {uid}
  ELSE UNION {LET exact == {u \in S : g.entity[u].name = name} IN IF exact = {} THEN {0} ELSE exact :
                S \in FoundByName(g, name, visible, limit)}

(* VectorIndex.search(): what is too far is left out before the cut.       *)
VectorHits(score, allowed, minP, k) ==
  Topmost(SetToSortSeq({u \in DOMAIN score : u \in allowed /\ score[u] >= minP},
                      LAMBDA u, v : score[u] > score[v] \/ (score[u] = score[v] /\ u < v)), k)

(* BM25 over the visible texts, and the vectors of the visible, fused.     *)
SearchHits(g, visible, words, score, minP, weight, k, topK) ==
  LET allowed == ScopedUuids(g, visible)
      near == VectorHits(score, allowed, minP, IF allowed = {} THEN topK ELSE Cardinality(allowed))
  IN Topmost(FusedOrder(SelectSeq(words, LAMBDA u : u \in allowed), near, weight, k), topK)

(* search_memory(): an exact match is all that is shown; mentions of what  *)
(* was found go up by one.                                                 *)
SearchMemory(g, exact, hits) ==
  [shown |-> IF exact # 0 THEN <<exact>> ELSE hits,
   graph |-> [g EXCEPT !.entity = [u \in DOMAIN @ |->
                IF u = exact \/ (exact = 0 /\ u \in ToSet(hits)) THEN [@[u] EXCEPT !.mention = @ + 1] ELSE @[u]]]]

(* pinned_entities(): both the pin and the entity have to be in scope.     *)
Pinned(g, visible) ==
  SetToSortSeq({u \in ScopedUuids(g, visible) : g.entity[u].pinned \in visible},
               LAMBDA u, v : \/ g.entity[u].updated > g.entity[v].updated
                             \/ g.entity[u].updated = g.entity[v].updated /\ u < v)

-----------------------------------------------------------------------------
(* The block of memories in the prompt.                                    *)

(* Mutant: what was searched comes before what is pinned.                  *)
OrderedHitsFirst(pinned, hits) == SelectSeq(hits, LAMBDA u : u \notin ToSet(pinned)) \o pinned

Ordered(pinned, hits) == pinned \o SelectSeq(hits, LAMBDA u : u \notin ToSet(pinned))

(* _build_memory_block(): what does not fit is passed over, and something  *)
(* smaller may still follow.                                               *)
Block(g, visible, hits, cost, frame, budget) ==
  LET pinned == Pinned(g, visible)
      Take(b, u) == IF b.used + cost[u] > budget
                    THEN [b EXCEPT !.omitted = @ + (IF u \in ToSet(pinned) THEN 1 ELSE 0)]
                    ELSE [b EXCEPT !.used = @ + cost[u], !.shown = Append(@, u),
                                   !.bumped = IF u \in ToSet(pinned) THEN @ ELSE @ \union {u}]
  IN FoldLeft(Take, [used |-> frame, shown |-> <<>>, omitted |-> 0, bumped |-> {}],
              Ordered(pinned, SelectSeq(hits, LAMBDA u : u \in ScopedUuids(g, visible))))

(* Mutant: an edge back from a neighbour is taken for the same fact.       *)
MutualAny(edges) == {e \in edges.in : \E f \in edges.out : f[3] = e[1]}

(* _split_mutual(): the same relation both ways is one fact.               *)
Mutual(edges) == {e \in edges.in : \E f \in edges.out : f[3] = e[1] /\ f[2] = e[2]}

(* format_entity(): a line per outgoing relation, then one per edge in.    *)
FormatEntity(g, uid, visible, detail, noisy) ==
  LET all == EdgesOf(g, uid, visible)
      Kept(S) == IF detail = "low" THEN {e \in S : e[2] \notin noisy} ELSE S
      edges == [out |-> Kept(all.out), in |-> Kept(all.in)]
      both == {<<e[2], e[1]>> : e \in Mutual(edges)}
  IN [out |-> {[relation |-> e[2], target |-> e[3], mutual |-> <<e[2], e[3]>> \in both] : e \in edges.out},
      in |-> {[relation |-> e[2], source |-> e[1]] : e \in edges.in \ Mutual(edges)}]

(* get_stats(): entities in scope, and edges with both ends in scope.      *)
Stats(g, visible, noisy) ==
  LET seen == ScopedUuids(g, visible)
      edges == {e \in g.edges : {e[1], e[3]} \subseteq seen}
      aliases == {e \in edges : e[2] = "ALIASED_TO"}
      chatter == {e \in edges \ aliases : e[2] \in noisy}
  IN [entities |-> Cardinality(seen), embedded |-> Cardinality({u \in seen : g.entity[u].vector # 0}),
      edges |-> Cardinality(edges), aliases |-> Cardinality(aliases), noisy |-> Cardinality(chatter),
      regular |-> Cardinality(edges) - Cardinality(aliases) - Cardinality(chatter),
      pinned |-> [s \in {g.entity[u].pinned : u \in seen} \ {<<>>} |->
                    Cardinality({u \in seen : g.entity[u].pinned = s})]]

-----------------------------------------------------------------------------
(* Flaggers.  limits are the thresholds of the configuration; ages are in  *)
(* half-lives of a mention.                                                *)

Issue(type, uids, scope) == [type |-> type, uids |-> uids, scope |-> scope]
Degree(g, u) == Cardinality({e \in g.edges : e[1] = u}) + Cardinality({e \in g.edges : e[3] = u})
SharedScope(g, a, b) == IF g.entity[a].scope = g.entity[b].scope THEN g.entity[a].scope ELSE GlobalScope
About(g, type, S) == {Issue(type, {u}, g.entity[u].scope) : u \in S}

Orphaned(g, limits) ==
  About(g, "orphaned", {u \in DOMAIN g.entity : Degree(g, u) = 0 /\ g.entity[u].pinned = <<>>})

DescriptionLength(g, limits) ==
  About(g, "description_length",
        {u \in DOMAIN g.entity : g.entity[u].size > limits.longest \/ g.entity[u].size < limits.shortest})

EdgeBloat(g, limits) ==
  About(g, "edge_bloat", {u \in DOMAIN g.entity : /\ Degree(g, u) > limits.bloat
                                                  /\ Degree(g, u) * limits.charsPerEdge > g.entity[u].size})

TooManyEdges(g, limits) ==
  {Issue("too_many_edges", {p[1], p[2]}, SharedScope(g, p[1], p[2])) :
     p \in {q \in (DOMAIN g.entity) \X (DOMAIN g.entity) :
              Cardinality({e \in g.edges : {e[1], e[3]} = {q[1], q[2]}}) > limits.between}}

OverPinned(g, limits) ==
  LET At(s) == {u \in DOMAIN g.entity : g.entity[u].pinned = s}
  IN {Issue("over_pinned", At(s), s) :
        s \in {t \in {g.entity[u].pinned : u \in DOMAIN g.entity} \ {<<>>} : Cardinality(At(t)) > limits.pins}}

(* An entity without a time of update is as young as can be.               *)
DecayCandidate(g, now, limits) ==
  LET Age(u) == IF g.entity[u].updated = 0 THEN 0 ELSE now - g.entity[u].updated
  IN About(g, "decay_candidate",
           {u \in DOMAIN g.entity : /\ g.entity[u].pinned = <<>> /\ Degree(g, u) <= limits.quiet
                                    /\ g.entity[u].mention < limits.mention * 2^Age(u)
                                    /\ Age(u) >= limits.stale})

(* limits.alike tells which vectors are close; 0 is no vector yet.         *)
FalseAlias(g, limits) ==
  {Issue("false_alias", {e[1], e[3]}, SharedScope(g, e[1], e[3])) :
     e \in {f \in g.edges : /\ f[2] = "ALIASED_TO" /\ 0 \notin {g.entity[f[1]].vector, g.entity[f[3]].vector}
                            /\ {g.entity[f[1]].vector, g.entity[f[3]].vector} \notin limits.alike}}

FuzzyNames(g, limits) ==
  {Issue("fuzzy_names", {p[1], p[2]}, SharedScope(g, p[1], p[2])) :
     p \in {q \in (DOMAIN g.entity) \X (DOMAIN g.entity) :
              /\ q[1] < q[2] /\ {g.entity[q[1]].name, g.entity[q[2]].name} \in limits.fuzzy
              /\ {<<q[1], "IS_NOT", q[2]>>, <<q[2], "IS_NOT", q[1]>>} \intersect g.edges = {}}}

Issues(g, now, limits) ==
  Orphaned(g, limits) \union DescriptionLength(g, limits) \union EdgeBloat(g, limits)
    \union TooManyEdges(g, limits) \union OverPinned(g, limits) \union DecayCandidate(g, now, limits)
    \union FalseAlias(g, limits) \union FuzzyNames(g, limits)

(* What the reviewer of an issue sees and may write.                       *)
ReviewScopes(issue) == {issue.scope, GlobalScope}

(* throttle_delay(), between two issues: a long queue is drained faster.   *)
ThrottleDelay(waiting, base, least, target) ==
  IF waiting <= 0 THEN base
  ELSE LET d == (base * target) \div waiting IN IF Lesser(base, d) > least THEN Lesser(base, d) ELSE least
=============================================================================
