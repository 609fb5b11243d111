------------------------- MODULE ConversationProofs -------------------------
(***************************************************************************)
(* The two readers of a conversation's branch: the librarian, which shares *)
(* it out among its tasks, and the assembler, which makes a prompt of it.  *)
(*                                                                         *)
(* The librarian's tasks share the work out, for any conversation tree,    *)
(* any sizes of a batch and any number of slots.  What makes the flags     *)
(* work is that a flagged node's ancestors are flagged: the walk upwards   *)
(* may stop at the first flag, and everything below it is new.             *)
(*                                                                         *)
(* The prompt fits, and its calls keep their results, for any branch that  *)
(* the loop can write, any limits and any thresholds of the hooks.         *)
(* BranchSpec says what its writers make of a branch: a result comes after *)
(* the one completion with its call.  Every pass is then shown to keep     *)
(* what Sound says of its messages, by the order-preserving map from those *)
(* that leave it to those that came in; and the budget loop to stop,       *)
(* because a pass takes an entry or, once only, its calls (Measure).       *)
(***************************************************************************)
EXTENDS Librarian, ContextAssembly, FiniteSetTheorems, WellFoundedInduction, SequenceTheorems, TLAPS

LEMMA LeastIs ==
  ASSUME NEW S \in SUBSET Nat, S # {}
  PROVE  Least(S) \in S /\ \A y \in S : Least(S) <= y
<1>1. PICK R : R = OpToRel(<, Nat)
  OBVIOUS
<1>2. IsWellFoundedOn(R, Nat)
  BY <1>1, NatLessThanWellFounded
<1>3. \A x, y \in Nat : y < x => <<y, x>> \in R
  BY <1>1 DEF OpToRel
<1>4. PICK x \in S : \A y \in S : ~(<<y, x>> \in R)
  BY <1>2, WFMin
<1>5. ASSUME NEW y \in S PROVE x <= y
  <2>1. <<y, x>> \notin R /\ x \in Nat /\ y \in Nat
    BY <1>4
  <2>2. ~(y < x)
    BY <1>3, <2>1
  <2> QED
    BY <2>1, <2>2
<1> QED
  BY <1>5 DEF Least

-----------------------------------------------------------------------------
(* The tree.                                                               *)

LEMMA BranchOf ==
  ASSUME NEW n \in Nodes
  PROVE  /\ Branch[n] \in Seq(Nodes) /\ Len(Branch[n]) \in Nat \ {0}
         /\ DOMAIN Branch[n] = 1..Len(Branch[n])
         /\ Branch[n][Len(Branch[n])] = n
         /\ \A i \in 1..Len(Branch[n]) : Branch[n][i] \in Nodes /\ Branch[Branch[n][i]] = SubSeq(Branch[n], 1, i)
<1>1. Branch[n] \in Seq(Nodes) /\ Branch[n] # <<>> /\ Branch[n][Len(Branch[n])] = n
  BY BranchesAreATree DEF Last
<1>2. Len(Branch[n]) \in Nat \ {0} /\ DOMAIN Branch[n] = 1..Len(Branch[n])
  BY <1>1
<1>3. \A i \in 1..Len(Branch[n]) : Branch[Branch[n][i]] = SubSeq(Branch[n], 1, i)
  BY <1>2, BranchesAreATree
<1>4. \A i \in 1..Len(Branch[n]) : Branch[n][i] \in Nodes
  BY <1>1
<1> QED
  BY <1>1, <1>2, <1>3, <1>4

(* The flags are upwards closed.                                           *)
Closed(flags) == \A n \in flags : \A i \in 1..Len(Branch[n]) : Branch[n][i] \in flags

(* What a walk from n flags is all of its branch that was not flagged.     *)
LEMMA WhatIsFlagged ==
  ASSUME NEW n \in Nodes, NEW flags \in SUBSET Nodes, Closed(flags), NEW new, new = Flagged(n, flags)
  PROVE  /\ new \in Seq(Nodes) /\ Range(new) \intersect flags = {}
         /\ Closed(flags \union Range(new))
<1>1. PICK up : up = Branch[n]
  OBVIOUS
<1>2. PICK l : l = Len(up)
  OBVIOUS
<1>3. /\ up \in Seq(Nodes) /\ l \in Nat \ {0} /\ up[l] = n /\ Len(up) = l
      /\ \A i \in 1..l : up[i] \in Nodes /\ Branch[up[i]] = SubSeq(up, 1, i)
  BY <1>1, <1>2, BranchOf
<1> DEFINE known(i) == \E j \in i..l : up[j] \in flags
           Unknown == {i \in 1..(l + 1) : ~known(i)}
<1>4. PICK first : first = CHOOSE i \in 1..(l + 1) : ~known(i) /\ (i = 1 \/ known(i - 1))
  OBVIOUS
<1>5. new = SubSeq(up, first, l)
  BY <1>1, <1>2, <1>4, <1>3 DEF Flagged
<1>6. first \in 1..(l + 1) /\ ~known(first) /\ (first = 1 \/ known(first - 1))
  <2>1. l + 1 \in 1..(l + 1) /\ (l + 1)..l = {}
    BY <1>3
  <2>2. Unknown \in SUBSET Nat /\ Unknown # {}
    <3>1. l + 1 \in Unknown
      BY <2>1
    <3>2. Unknown \subseteq 1..(l + 1) /\ 1..(l + 1) \subseteq Nat
      BY <1>3
    <3> QED
      BY <3>1, <3>2
  <2>3. PICK i : i \in Unknown /\ \A k \in Unknown : i <= k
    <3> HIDE DEF Unknown
    <3>1. Least(Unknown) \in Unknown /\ \A k \in Unknown : Least(Unknown) <= k
      BY <2>2, LeastIs
    <3> QED
      BY <3>1
  <2>4. i = 1 \/ known(i - 1)
    <3>1. ASSUME i # 1, ~known(i - 1) PROVE FALSE
      <4>1. i \in 1..(l + 1) /\ i - 1 \in 1..(l + 1)
        BY <1>3, <2>3, <3>1
      <4>2. i - 1 \in Unknown
        BY <3>1, <4>1
      <4>3. i <= i - 1
        BY <2>3, <4>2
      <4> QED
        BY <4>1, <4>3
    <3> QED
      BY <3>1
  <2> QED
    BY <1>4, <2>3, <2>4
<1> HIDE DEF Unknown
<1>7. /\ new \in Seq(Nodes)
      /\ \A x \in Range(new) : \E k \in first..l : x = up[k]
      /\ \A k \in first..l : up[k] \in Range(new)
  <2>1. new \in Seq(Nodes) /\ Len(new) = (IF first <= l THEN l - first + 1 ELSE 0)
        /\ \A i \in 1..Len(new) : new[i] = up[first + i - 1]
    BY <1>3, <1>5, <1>6
  <2>2. \A k \in first..l : k - first + 1 \in 1..Len(new) /\ new[k - first + 1] = up[k]
    BY <1>3, <1>6, <2>1
  <2>3. DOMAIN new = 1..Len(new)
    BY <2>1
  <2>4. \A i \in 1..Len(new) : first + i - 1 \in first..l
    BY <1>3, <1>6, <2>1
  <2>5. Range(new) = {new[i] : i \in 1..Len(new)}
    BY <2>3 DEF Range
  <2>6. \A x \in Range(new) : \E k \in first..l : x = up[k]
    BY <2>1, <2>4, <2>5
  <2>7. \A k \in first..l : up[k] \in Range(new)
    BY <2>2, <2>5
  <2> QED
    BY <2>1, <2>6, <2>7
<1>8. Range(new) \intersect flags = {}
  BY <1>6, <1>7
<1>9. \A i \in 1..l : up[i] \in flags \union Range(new)
  <2> SUFFICES ASSUME NEW i \in 1..l PROVE up[i] \in flags \union Range(new)
    OBVIOUS
  <2>1. CASE i >= first
    BY <1>3, <1>6, <1>7, <2>1
  <2>2. CASE i < first
    <3>1. first # 1 /\ known(first - 1)
      BY <1>3, <1>6, <2>2
    <3>2. PICK j \in (first - 1)..l : up[j] \in flags
      BY <3>1
    <3>3. i \in 1..j /\ j \in 1..l
      BY <1>3, <1>6, <2>2, <3>2
    <3>4. Branch[up[j]] = SubSeq(up, 1, j) /\ Len(Branch[up[j]]) = j /\ Branch[up[j]][i] = up[i]
      BY <1>3, <3>3
    <3> QED
      BY <3>2, <3>3, <3>4 DEF Closed
  <2> QED
    BY <1>3, <1>6, <2>1, <2>2
<1>10. ASSUME NEW m \in flags \union Range(new), NEW i \in 1..Len(Branch[m])
       PROVE  Branch[m][i] \in flags \union Range(new)
  <2>1. CASE m \in flags
    BY <1>10, <2>1 DEF Closed
  <2>2. CASE m \in Range(new)
    <3>1. PICK k \in first..l : m = up[k]
      BY <1>7, <2>2
    <3>2. k \in 1..l
      BY <1>3, <1>6
    <3>3. Branch[m] = SubSeq(up, 1, k) /\ Len(Branch[m]) = k
      BY <1>3, <3>1, <3>2
    <3>4. i \in 1..l /\ Branch[m][i] = up[i]
      BY <1>3, <3>2, <3>3
    <3> QED
      BY <1>9, <3>4
  <2> QED
    BY <2>1, <2>2
<1> QED
  BY <1>7, <1>8, <1>10 DEF Closed

-----------------------------------------------------------------------------
(* The slots.                                                              *)

Tasks == [kind : {"free", "extract", "review", "dedup"}, pc : {"none", "start", "next", "work", "done"},
          issue : Problems \union {"none"}]

Deduping(t) == t.kind = "dedup" /\ t.pc # "done"
SlotsOk(tasks) ==
  /\ tasks \in [Slots -> Tasks]
  /\ Cardinality(Used(tasks)) <= MaxConcurrent
  /\ \A r, s \in Slots : Deduping(tasks[r]) /\ Deduping(tasks[s]) => r = s

LEMMA SlotsAreFinite ==
  /\ MaxConcurrent \in Nat \ {0} /\ Slots \in SUBSET Nat
  /\ IsFiniteSet(Slots) /\ Cardinality(Slots) = MaxConcurrent + 1
<1>1. MaxConcurrent \in Nat \ {0}
  BY LibrarianConstants
<1> QED
  BY <1>1, FS_Interval DEF Slots

LEMMA UsedIsFinite ==
  ASSUME NEW tasks PROVE IsFiniteSet(Used(tasks)) /\ Cardinality(Used(tasks)) \in Nat /\ Used(tasks) \in SUBSET Slots
<1>1. Used(tasks) \in SUBSET Slots
  BY DEF Used
<1> QED
  BY <1>1, SlotsAreFinite, FS_Subset, FS_CardinalityType

(* There is one slot more than may be used.                                *)
LEMMA RoomForOne ==
  ASSUME NEW tasks, ~Full(tasks) PROVE Least(Slots \ Used(tasks)) \in Slots \ Used(tasks)
<1>1. Used(tasks) # Slots
  BY SlotsAreFinite, UsedIsFinite DEF Full
<1>2. Slots \ Used(tasks) # {} /\ Slots \ Used(tasks) \in SUBSET Nat
  BY <1>1, UsedIsFinite, SlotsAreFinite
<1> QED
  BY <1>2, LeastIs

LEMMA StartedOk ==
  ASSUME NEW tasks, SlotsOk(tasks), ~Full(tasks), NEW kind \in {"extract", "review", "dedup"},
         kind = "dedup" => \A s \in Slots : ~Deduping(tasks[s])
  PROVE  SlotsOk(Started(tasks, kind))
<1>1. PICK s, t, u : s = Least(Slots \ Used(tasks)) /\ t = NewTask(kind) /\ u = Started(tasks, kind)
  OBVIOUS
<1>2. s \in Slots /\ s \notin Used(tasks)
  BY <1>1, RoomForOne
<1>3. t \in Tasks /\ t.kind = kind /\ u = [tasks EXCEPT ![s] = t]
  BY <1>1 DEF NewTask, Tasks, Started
<1>4. u \in [Slots -> Tasks] /\ u[s] = t /\ \A r \in Slots : r # s => u[r] = tasks[r]
  BY <1>2, <1>3 DEF SlotsOk
<1>5. Used(u) = Used(tasks) \union {s}
  BY <1>2, <1>3, <1>4 DEF Used
<1>6. Cardinality(Used(u)) <= MaxConcurrent
  <2>1. Cardinality(Used(u)) = Cardinality(Used(tasks)) + 1
    BY <1>2, <1>5, UsedIsFinite, FS_AddElement
  <2> QED
    BY <2>1, UsedIsFinite, SlotsAreFinite DEF Full
<1>7. \A q, r \in Slots : Deduping(u[q]) /\ Deduping(u[r]) => q = r
  BY <1>3, <1>4 DEF SlotsOk, Deduping
<1> QED
  BY <1>1, <1>4, <1>6, <1>7 DEF SlotsOk

(* Tasks that go on, or end, or are swept.                                 *)
LEMMA SlotsStayOk ==
  ASSUME NEW tasks, SlotsOk(tasks), NEW u \in [Slots -> Tasks],
         \A s \in Slots : /\ u[s].kind # "free" => tasks[s].kind # "free"
                          /\ Deduping(u[s]) => Deduping(tasks[s])
  PROVE  SlotsOk(u)
<1>1. Used(u) \in SUBSET Used(tasks)
  BY DEF Used
<1>2. Cardinality(Used(u)) <= Cardinality(Used(tasks)) /\ Cardinality(Used(u)) \in Nat
      /\ Cardinality(Used(tasks)) \in Nat
  BY <1>1, UsedIsFinite, FS_Subset
<1> QED
  BY <1>2, SlotsAreFinite DEF SlotsOk

-----------------------------------------------------------------------------
(* The invariant.                                                          *)

Messages == ({"branch"} \X Nodes) \union {<<"front", "manual">>}
TypesOk ==
  /\ exist \subseteq Nodes /\ turn \in Nodes \union {0} /\ inbox \in Seq(Messages)
  /\ poller \in [pc : {"asleep", "queue", "lock", "walk", "tasks"}, todo : SUBSET Nodes]

(* A node was read as new at most once, and then it is flagged.            *)
FlagsOk ==
  /\ visited \subseteq Nodes /\ Closed(visited) /\ given \in [Nodes -> Nat]
  /\ \A n \in Nodes : given[n] <= 1 /\ (given[n] # 0 => n \in visited)

LibInv == TypesOk /\ FlagsOk /\ SlotsOk(task)

LEMMA InitLib == LibInit => LibInv
<1> SUFFICES ASSUME LibInit PROVE LibInv
  OBVIOUS
<1>1. TypesOk /\ FlagsOk
  BY DEF LibInit, TypesOk, FlagsOk, Asleep, Closed
<1>2. task \in [Slots -> Tasks] /\ \A s \in Slots : task[s] = Free
  BY DEF LibInit, Free, Tasks
<1>3. Used(task) = {} /\ \A s \in Slots : ~Deduping(task[s])
  BY <1>2 DEF Used, Free, Deduping
<1>4. SlotsOk(task)
  BY <1>2, <1>3, FS_EmptySet, SlotsAreFinite DEF SlotsOk
<1> QED
  BY <1>1, <1>4 DEF LibInv

(* Whatever asks for a branch, what it gives to an extractor is new.       *)
LEMMA DispatchKeeps ==
  ASSUME FlagsOk, SlotsOk(task), NEW n \in Nodes, DispatchBranch(n)
  PROVE  FlagsOk' /\ SlotsOk(task')
<1>1. CASE UNCHANGED <<visited, given, task>>
  BY <1>1 DEF FlagsOk
<1>2. CASE ~(UNCHANGED <<visited, given, task>>)
  <2>1. PICK new, batch : /\ new = Flagged(n, visited)
                          /\ batch = {new[i] : i \in 1..(IF Len(new) < BatchSize THEN Len(new) ELSE BatchSize)}
    OBVIOUS
  <2>2. /\ visited' = visited \union Range(new)
        /\ \/ UNCHANGED <<given, task>>
           \/ /\ given' = [m \in Nodes |-> IF m \in Rendered(batch) THEN given[m] + 1 ELSE given[m]]
              /\ task' = Started(task, "extract") /\ ~Full(task)
    BY <1>2, <2>1 DEF DispatchBranch
  <2>3. new \in Seq(Nodes) /\ Range(new) \intersect visited = {} /\ Closed(visited \union Range(new))
    BY <2>1, WhatIsFlagged DEF FlagsOk
  <2>4. Range(new) \subseteq Nodes /\ batch \subseteq Range(new)
    <3>1. BatchSize \in Nat
      BY LibrarianConstants
    <3>2. DOMAIN new = 1..Len(new) /\ Len(new) \in Nat
      BY <2>3
    <3> QED
      BY <2>1, <2>3, <3>1, <3>2 DEF Range
  <2>5. FlagsOk'
    BY <2>2, <2>3, <2>4 DEF FlagsOk, Rendered
  <2>6. SlotsOk(task')
    BY <2>2, StartedOk
  <2> QED
    BY <2>5, <2>6
<1> QED
  BY <1>1, <1>2

LEMMA LeastOfNodes == ASSUME NEW S \in SUBSET Nodes, S # {} PROVE Least(S) \in S /\ Least(S) \in Nodes
<1>1. S \in SUBSET Nat
  BY LibrarianConstants
<1> QED
  BY <1>1, LeastIs

LEMMA ChatStep ==
  ASSUME LibInv, \/ \E n \in Nodes : StartTurn(n)
                 \/ \E b \in BOOLEAN : EndTurn(b) \/ CallLibrarian(b)
  PROVE  LibInv'
<1>1. UNCHANGED <<visited, given, poller, task>>
  BY DEF StartTurn, EndTurn, CallLibrarian
<1>2. exist' \subseteq Nodes /\ turn' \in Nodes \union {0}
  BY DEF LibInv, TypesOk, StartTurn, EndTurn, CallLibrarian
<1>3. inbox' \in Seq(Messages)
  <2>1. inbox \in Seq(Messages) /\ turn \in Nodes \union {0}
    BY DEF LibInv, TypesOk
  <2>2. ASSUME NEW n \in Nodes PROVE <<"branch", n>> \in Messages
    BY DEF Messages
  <2>3. CASE \E n \in Nodes : StartTurn(n)
    BY <2>1, <2>3 DEF StartTurn
  <2>4. ASSUME NEW b \in BOOLEAN, EndTurn(b) PROVE inbox' \in Seq(Messages)
    BY <2>1, <2>2, <2>4 DEF EndTurn
  <2>5. ASSUME NEW b \in BOOLEAN, CallLibrarian(b) PROVE inbox' \in Seq(Messages)
    <3>1. Tails # {} => Least(Tails) \in Nodes
      <4>1. Tails \in SUBSET Nodes
        BY DEF LibInv, TypesOk, Tails
      <4> QED
        BY <4>1, LeastOfNodes
    <3>2. <<"front", "manual">> \in Messages
      BY DEF Messages
    <3> QED
      BY <2>1, <2>2, <2>5, <3>1, <3>2 DEF CallLibrarian
  <2> QED
    BY <2>3, <2>4, <2>5
<1>4. FlagsOk' /\ SlotsOk(task')
  BY <1>1 DEF LibInv, FlagsOk
<1> QED
  BY <1>1, <1>2, <1>3, <1>4 DEF LibInv, TypesOk

LEMMA PollStep == ASSUME LibInv, Poll PROVE LibInv'
<1>1. TypesOk /\ FlagsOk /\ SlotsOk(task)
  BY DEF LibInv
<1>2. CASE PollStart
  <2>1. FlagsOk' /\ TypesOk'
    BY <1>1, <1>2 DEF PollStart, TypesOk, FlagsOk
  <2>2. task' \in [Slots -> Tasks] /\ \A s \in Slots : task'[s] = task[s] \/ task'[s] = Free
    BY <1>1, <1>2 DEF PollStart, SlotsOk, Free, Tasks
  <2>3. SlotsOk(task')
    BY <1>1, <2>2, SlotsStayOk DEF Free, Deduping
  <2> QED
    BY <2>1, <2>3 DEF LibInv
<1>3. CASE PollMessage
  <2>1. /\ inbox # <<>> /\ inbox' = Tail(inbox) /\ UNCHANGED <<exist, turn, poller>>
        /\ IF Head(inbox)[1] = "branch" THEN DispatchBranch(Head(inbox)[2]) ELSE UNCHANGED <<visited, given, task>>
    BY <1>3 DEF PollMessage
  <2>2. Head(inbox) \in Messages /\ inbox' \in Seq(Messages)
    BY <1>1, <2>1 DEF TypesOk
  <2>3. TypesOk'
    BY <1>1, <2>1, <2>2 DEF TypesOk
  <2>4. CASE Head(inbox)[1] = "branch"
    <3>1. Head(inbox)[2] \in Nodes
      BY <2>2, <2>4 DEF Messages
    <3> QED
      BY <1>1, <2>1, <2>3, <2>4, <3>1, DispatchKeeps DEF LibInv
  <2>5. CASE Head(inbox)[1] # "branch"
    BY <1>1, <2>1, <2>3, <2>5 DEF LibInv, FlagsOk
  <2> QED
    BY <2>4, <2>5
<1>4. CASE PollWalk \/ PollTails
  <2>1. UNCHANGED <<exist, visited, given, turn, inbox, task>>
    BY <1>4 DEF PollWalk, PollTails
  <2>2. poller' \in [pc : {"asleep", "queue", "lock", "walk", "tasks"}, todo : SUBSET Nodes]
    BY <1>1, <1>4 DEF PollWalk, PollTails, Tails, TypesOk
  <2> QED
    BY <1>1, <2>1, <2>2 DEF LibInv, TypesOk, FlagsOk
<1>5. CASE PollTail
  <2>1. UNCHANGED <<exist, turn, inbox>>
    BY <1>5 DEF PollTail
  <2>2. poller.todo \in SUBSET Nodes
    BY <1>1 DEF TypesOk
  <2>3. poller' \in [pc : {"asleep", "queue", "lock", "walk", "tasks"}, todo : SUBSET Nodes]
    BY <1>1, <1>5 DEF PollTail, TypesOk, NextTails
  <2>4. FlagsOk' /\ SlotsOk(task')
    <3>1. CASE poller.todo = {} \/ Full(task)
      BY <1>1, <1>5, <3>1 DEF PollTail, FlagsOk
    <3>2. CASE ~(poller.todo = {} \/ Full(task))
      <4>1. Least(poller.todo) \in Nodes /\ DispatchBranch(Least(poller.todo))
        BY <1>5, <2>2, <3>2, LeastOfNodes DEF PollTail
      <4> QED
        BY <1>1, <4>1, DispatchKeeps
    <3> QED
      BY <3>1, <3>2
  <2> QED
    BY <1>1, <2>1, <2>3, <2>4 DEF LibInv, TypesOk
<1>6. CASE PollTasks
  <2>1. PICK first : first = IF turn = 0 /\ "review" \in due /\ ~Full(task) THEN Started(task, "review") ELSE task
    OBVIOUS
  <2>2. SlotsOk(first)
    BY <1>1, <2>1, StartedOk
  <2>3. /\ task' = IF MayDedup(first) /\ ~Full(first) THEN Started(first, "dedup") ELSE first
        /\ poller' = Asleep /\ UNCHANGED <<exist, visited, given, turn, inbox>>
    BY <1>6, <2>1 DEF PollTasks
  <2>4. MayDedup(first) => \A s \in Slots : ~Deduping(first[s])
    BY DEF MayDedup, Deduping
  <2>5. SlotsOk(task')
    BY <2>2, <2>3, <2>4, StartedOk
  <2>6. TypesOk' /\ FlagsOk'
    BY <1>1, <2>3 DEF TypesOk, FlagsOk, Asleep
  <2> QED
    BY <2>5, <2>6 DEF LibInv
<1> QED
  BY <1>2, <1>3, <1>4, <1>5, <1>6 DEF Poll

(* A task that is there goes on as what it is.                             *)
LEMMA TasksStep == ASSUME LibInv, NEW s \in Slots, TaskStep(s) PROVE LibInv'
<1>1. TypesOk /\ FlagsOk /\ SlotsOk(task)
  BY DEF LibInv
<1>2. task[s] \in Tasks /\ task \in [Slots -> Tasks]
  BY <1>1 DEF SlotsOk
<1>3. UNCHANGED <<exist, visited, given, turn, inbox, poller>>
  BY DEF TaskStep, EndTask, Scan, PopIssue, WorkIssue
<1>4. PICK t : /\ t \in Tasks /\ task' = [task EXCEPT ![s] = t]
               /\ t.kind # "free" => task[s].kind # "free"
               /\ Deduping(t) => Deduping(task[s])
  <2>1. CASE EndTask(s)
    <3>1. PICK t : t = [task[s] EXCEPT !.pc = "done"]
      OBVIOUS
    <3>2. t \in Tasks /\ t.kind = task[s].kind /\ ~Deduping(t) /\ task' = [task EXCEPT ![s] = t]
      BY <1>2, <2>1, <3>1 DEF EndTask, Tasks, Deduping
    <3> QED
      BY <3>2
  <2>2. CASE Scan(s)
    <3>1. PICK t : t = [task[s] EXCEPT !.pc = "next"]
      OBVIOUS
    <3>2. t \in Tasks /\ t.kind = task[s].kind /\ t.kind = "review" /\ task' = [task EXCEPT ![s] = t]
      BY <1>2, <2>2, <3>1 DEF Scan, Tasks
    <3> QED
      BY <3>2 DEF Deduping
  <2>3. CASE PopIssue(s)
    <3>1. CASE task' = task
      BY <1>2, <3>1
    <3>2. CASE task' = [task EXCEPT ![s].pc = "done"]
      <4>1. PICK t : t = [task[s] EXCEPT !.pc = "done"]
        OBVIOUS
      <4>2. t \in Tasks /\ t.kind = task[s].kind /\ ~Deduping(t) /\ task' = [task EXCEPT ![s] = t]
        BY <1>2, <3>2, <4>1 DEF Tasks, Deduping
      <4> QED
        BY <4>2
    <3>3. CASE /\ task' = [task EXCEPT ![s].pc = "work", ![s].issue = Head(backlog)]
               /\ Head(backlog) \in Problems
      <4>1. PICK t : t = [task[s] EXCEPT !.pc = "work", !.issue = Head(backlog)]
        OBVIOUS
      <4>2. t \in Tasks /\ t.kind = task[s].kind /\ task' = [task EXCEPT ![s] = t]
        BY <1>2, <3>3, <4>1 DEF Tasks
      <4>3. t.kind = "review"
        BY <2>3, <4>2 DEF PopIssue
      <4> QED
        BY <4>2, <4>3 DEF Deduping
    <3> QED
      BY <2>3, <3>1, <3>2, <3>3 DEF PopIssue
  <2>4. ASSUME NEW ok \in BOOLEAN, WorkIssue(s, ok)
        PROVE \E t : /\ t \in Tasks /\ task' = [task EXCEPT ![s] = t]
                     /\ t.kind # "free" => task[s].kind # "free"
                     /\ Deduping(t) => Deduping(task[s])
    <3>1. PICK t : t = [task[s] EXCEPT !.pc = "next", !.issue = "none"]
      OBVIOUS
    <3>2. t \in Tasks /\ t.kind = task[s].kind /\ task' = [task EXCEPT ![s] = t]
      BY <1>2, <2>4, <3>1 DEF Tasks, WorkIssue
    <3>3. Deduping(t) => Deduping(task[s])
      BY <2>4, <3>2 DEF WorkIssue, Deduping
    <3> QED
      BY <3>2, <3>3
  <2> QED
    BY <2>1, <2>2, <2>3, <2>4 DEF TaskStep
<1>5. SlotsOk(task')
  <2>1. task' \in [Slots -> Tasks] /\ task'[s] = t /\ \A r \in Slots : r # s => task'[r] = task[r]
    BY <1>2, <1>4
  <2> QED
    BY <1>1, <1>4, <2>1, SlotsStayOk
<1> QED
  BY <1>1, <1>3, <1>5 DEF LibInv, TypesOk, FlagsOk

LEMMA StepLib == LibInv /\ [LibNext]_libVars => LibInv'
<1> SUFFICES ASSUME LibInv, [LibNext]_libVars PROVE LibInv'
  OBVIOUS
<1>1. CASE \/ \E t \in Timers : Elapse(t)
           \/ \E p \in Problems : Spoil(p)
           \/ UNCHANGED libVars
  BY <1>1 DEF LibInv, TypesOk, FlagsOk, Elapse, Spoil, libVars
<1>2. CASE StartAgain
  <2>1. TypesOk' /\ FlagsOk'
    BY <1>2 DEF StartAgain, LibInv, TypesOk, FlagsOk, Asleep
  <2>2. task' \in [Slots -> Tasks] /\ \A s \in Slots : task'[s] = Free
    BY <1>2 DEF StartAgain, Free, Tasks
  <2>3. SlotsOk(task')
    BY <2>2, SlotsStayOk DEF LibInv, Free, Deduping
  <2> QED
    BY <2>1, <2>3 DEF LibInv
<1> QED
  BY <1>1, <1>2, ChatStep, PollStep, TasksStep DEF LibNext

(* No node is read as new by two extractors or behind an extractor's back, *)
(* and the slots hold: _dispatch_branch, flag_branch, _poll_cycle.         *)
THEOREM TheWorkIsSharedOut == LibSpec => []WorkIsSharedOut
<1>1. LibInv => WorkIsSharedOut
  <2> SUFFICES ASSUME LibInv PROVE WorkIsSharedOut
    OBVIOUS
  <2>1. TasksAreBounded
    BY DEF LibInv, SlotsOk, TasksAreBounded, Running, Deduping
  <2>2. ASSUME NEW n \in visited PROVE Parent(n) \in visited \union {0}
    <3>1. PICK l : l = Len(Branch[n])
      OBVIOUS
    <3>2. l \in Nat \ {0}
      BY <3>1, BranchOf DEF LibInv, FlagsOk
    <3>3. l # 1 => l - 1 \in 1..l
      BY <3>2
    <3> QED
      BY <3>1, <3>3 DEF LibInv, FlagsOk, Closed, Parent
  <2> QED
    BY <2>1, <2>2 DEF WorkIsSharedOut, ExtractedOnce, LibInv, FlagsOk
<1> QED
  BY <1>1, InitLib, StepLib, PTL DEF LibSpec

-----------------------------------------------------------------------------
(* Functions that are defined along a branch.                              *)

(* Induction up to n, over a set of numbers.                               *)
LEMMA Climb ==
  ASSUME NEW n \in Nat, NEW G, 0 \in G, \A k \in 1..n : k - 1 \in G => k \in G
  PROVE  0..n \subseteq G
<1> DEFINE B == (0..n) \ G
<1>1. SUFFICES ASSUME B # {} PROVE FALSE
  OBVIOUS
<1>2. PICK R : R = OpToRel(<, Nat)
  OBVIOUS
<1>3. IsWellFoundedOn(R, Nat)
  BY <1>2, NatLessThanWellFounded
<1>4. \A x, y \in Nat : y < x => <<y, x>> \in R
  BY <1>2 DEF OpToRel
<1>5. PICK m \in B : \A y \in B : ~(<<y, m>> \in R)
  <2>1. B \subseteq Nat
    OBVIOUS
  <2> QED
    BY <1>1, <1>3, <2>1, WFMin
<1>6. m \in 1..n /\ m - 1 \in 0..n /\ m \in Nat /\ m - 1 \in Nat /\ m - 1 < m /\ m \notin G
  BY <1>5
<1>7. m - 1 \notin B
  BY <1>4, <1>5, <1>6
<1> QED
  BY <1>6, <1>7

(* A function may be defined by what it is at 0 and by how it goes on.     *)
Follows(f, n, first, g) == f[0] = first /\ \A k \in 1..n : f[k] = g[<<k, f[k - 1]>>]

LEMMA Recursion ==
  ASSUME NEW n \in Nat, NEW X, NEW first \in X, NEW g \in [(1..n) \X X -> X]
  PROVE  \E f \in [0..n -> X] : Follows(f, n, first, g)
<1> DEFINE G == {m \in 0..n : \E f \in [0..m -> X] : Follows(f, m, first, g)}
<1>1. 0 \in G
  <2>1. [k \in 0..0 |-> first] \in [0..0 -> X] /\ Follows([k \in 0..0 |-> first], 0, first, g)
    BY DEF Follows
  <2> QED
    BY <2>1
<1>2. ASSUME NEW m \in 1..n, m - 1 \in G PROVE m \in G
  <2>1. PICK f \in [0..(m - 1) -> X] : Follows(f, m - 1, first, g)
    BY <1>2
  <2> DEFINE h == [k \in 0..m |-> IF k = m THEN g[<<m, f[m - 1]>>] ELSE f[k]]
  <2>2. f[m - 1] \in X /\ g[<<m, f[m - 1]>>] \in X
    BY <2>1
  <2>3. h \in [0..m -> X]
    BY <2>1, <2>2
  <2>4. h[0] = first
    BY <2>1 DEF Follows
  <2>5. ASSUME NEW k \in 1..m PROVE h[k] = g[<<k, h[k - 1]>>]
    <3>1. k - 1 \in 0..m /\ k - 1 # m /\ h[k - 1] = f[k - 1]
      OBVIOUS
    <3>2. CASE k = m
      BY <3>1, <3>2
    <3>3. CASE k # m
      <4>1. k \in 1..(m - 1) /\ h[k] = f[k]
        BY <3>3
      <4> QED
        BY <2>1, <3>1, <4>1 DEF Follows
    <3> QED
      BY <3>2, <3>3
  <2>6. Follows(h, m, first, g)
    <3> HIDE DEF h
    <3> QED
      BY <2>4, <2>5 DEF Follows
  <2> QED
    BY <2>3, <2>6
<1>3. 0..n \subseteq G
  <2>1. \A k \in 1..n : k - 1 \in G => k \in G
    BY <1>2
  <2> HIDE DEF G
  <2> QED
    BY <1>1, <2>1, Climb
<1>4. n \in G
  BY <1>3
<1> QED
  BY <1>4

-----------------------------------------------------------------------------
(* The branch.                                                             *)

Calls == [id : Nat \ {0}, sig : Sigs]
Entries == {e \in [role : Roles, size : Nat, think : BOOLEAN, calls : SUBSET Calls, answers : Nat,
                   cycle : Nat, kept : SUBSET Nat] : IsFiniteSet(e.calls)}

OnBranch(id, entries) == \E j \in DOMAIN entries : id \in CallIds(entries[j])

(* A branch is what its writers make of it: only completions have calls,   *)
(* only results answer, a result comes after its call.                     *)
Proper(e) ==
  /\ e.calls # {} => e.role = "assistant"
  /\ IF e.role = "tool" THEN e.answers # 0 ELSE e.answers = 0
Orderly(entries, n) ==
  /\ \A i \in DOMAIN entries : Proper(entries[i])
  /\ \A i \in DOMAIN entries : \A id \in CallIds(entries[i]) : id <= n
  /\ \A i \in DOMAIN entries : entries[i].answers # 0 => OnBranch(entries[i].answers, entries)
  /\ \A i, j \in DOMAIN entries : entries[j].answers \in CallIds(entries[i]) => i < j

BranchSpec ==
  /\ branch \in Seq(Entries) /\ open \in Seq(Calls)
  /\ phase \in {"idle", "top", "tools"} /\ cycle \in Nat /\ ncalls \in Nat
  /\ phase = "tools" => open # <<>>
  /\ \A k \in DOMAIN open : open[k].id <= ncalls /\ OnBranch(open[k].id, branch)
  /\ Orderly(branch, ncalls)

(* What may be written next.                                               *)
Fits(e, entries, n, m) ==
  /\ Proper(e)
  /\ \A id \in CallIds(e) : n < id /\ id <= m
  /\ e.answers # 0 => OnBranch(e.answers, entries)

LEMMA AppendedIs ==
  ASSUME NEW s \in Seq(Entries), NEW e \in Entries
  PROVE  /\ Append(s, e) \in Seq(Entries)
         /\ DOMAIN Append(s, e) = 1..(Len(s) + 1) /\ Len(Append(s, e)) = Len(s) + 1 /\ Len(s) \in Nat
         /\ \A i \in DOMAIN s : i \in 1..Len(s) /\ Append(s, e)[i] = s[i] /\ s[i] \in Entries
         /\ Append(s, e)[Len(s) + 1] = e
OBVIOUS

LEMMA StaysOnBranch ==
  ASSUME NEW s \in Seq(Entries), NEW e \in Entries, NEW id, OnBranch(id, s)
  PROVE  OnBranch(id, Append(s, e))
<1>1. PICK j \in DOMAIN s : id \in CallIds(s[j])
  BY DEF OnBranch
<1>2. j \in DOMAIN Append(s, e) /\ Append(s, e)[j] = s[j]
  BY AppendedIs
<1> QED
  BY <1>1, <1>2 DEF OnBranch

LEMMA StaysOrderly ==
  ASSUME NEW s \in Seq(Entries), NEW e \in Entries, NEW n \in Nat, NEW m \in Nat, n <= m,
         Orderly(s, n), Fits(e, s, n, m)
  PROVE  Orderly(Append(s, e), m)
<1> DEFINE t == Append(s, e)
           l == Len(s) + 1
<1>1. /\ l \in Nat /\ t \in Seq(Entries) /\ DOMAIN t = 1..l /\ t[l] = e
      /\ \A i \in DOMAIN t : i # l => i \in DOMAIN s /\ i < l /\ t[i] = s[i] /\ s[i] \in Entries
      /\ \A i \in DOMAIN s : i \in DOMAIN t /\ i < l
  BY AppendedIs
<1>2. \A id : OnBranch(id, s) => OnBranch(id, t)
  BY StaysOnBranch
<1> HIDE DEF t, l
<1>3. \A i \in DOMAIN t : Proper(t[i])
  BY <1>1 DEF Orderly, Fits
<1>4. \A i \in DOMAIN t : \A id \in CallIds(t[i]) : id <= m
  <2>1. \A i \in DOMAIN s : \A id \in CallIds(s[i]) : id \in Nat
    BY DEF Entries, Calls, CallIds
  <2>2. \A i \in DOMAIN s : \A id \in CallIds(s[i]) : id <= n
    BY DEF Orderly
  <2>3. \A id \in CallIds(e) : id <= m
    BY DEF Fits
  <2> QED
    BY <1>1, <2>1, <2>2, <2>3
<1>5. \A i \in DOMAIN t : t[i].answers # 0 => OnBranch(t[i].answers, t)
  BY <1>1, <1>2 DEF Orderly, Fits
<1>6. \A i, j \in DOMAIN t : t[j].answers \in CallIds(t[i]) => i < j
  <2> TAKE i, j \in DOMAIN t
  <2> HAVE t[j].answers \in CallIds(t[i])
  <2>0. \A id : OnBranch(id, s) => id <= n
    BY DEF OnBranch, Orderly
  <2>1. CASE i # l /\ j # l
    BY <1>1, <2>1 DEF Orderly
  <2>2. CASE i # l /\ j = l
    BY <1>1, <2>2
  <2>3. CASE i = l
    <3>1. n < t[j].answers /\ t[j].answers \in Nat \ {0} /\ t[j] \in Entries
      BY <1>1, <2>3 DEF Fits, CallIds, Entries, Calls
    <3>2. CASE j = l
      BY <1>1, <2>0, <3>1, <3>2 DEF Fits
    <3>3. CASE j # l
      <4>1. OnBranch(s[j].answers, s)
        BY <1>1, <3>1, <3>3 DEF Orderly
      <4>2. s[j].answers <= n
        BY <2>0, <4>1
      <4> QED
        BY <1>1, <3>1, <3>3, <4>2
    <3> QED
      BY <3>2, <3>3
  <2> QED
    BY <2>1, <2>2, <2>3
<1> QED
  BY <1>3, <1>4, <1>5, <1>6 DEF Orderly, t

IsUserEntry(e) == e \in Entries /\ e.role = "user" /\ e.calls = {} /\ e.answers = 0

LEMMA UserEntries ==
  ASSUME cycle \in Nat, NEW size \in Nat
  PROVE  IsUserEntry(Msg("user", size)) /\ IsUserEntry([Msg("user", size) EXCEPT !.cycle = cycle + 1])
<1>1. IsUserEntry(Msg("user", size))
  BY FS_EmptySet DEF Msg, Entries, Roles, IsUserEntry
<1>2. cycle + 1 \in Nat
  OBVIOUS
<1>3. IsUserEntry([Msg("user", size) EXCEPT !.cycle = cycle + 1])
  BY <1>2, FS_EmptySet DEF Msg, Entries, Roles, IsUserEntry
<1> QED
  BY <1>1, <1>3

LEMMA UserFits ==
  ASSUME NEW e, IsUserEntry(e), NEW entries, NEW n, NEW m
  PROVE  Fits(e, entries, n, m)
BY DEF Fits, Proper, CallIds, IsUserEntry

(* A user's message is written, and perhaps nothing is waited for any more. *)
LEMMA UserWrites ==
  ASSUME BranchSpec, NEW e, IsUserEntry(e), Write(e), cycle' \in Nat, phase' \in {"idle", "top"}, ncalls' = ncalls,
         open' = open \/ open' = <<>>
  PROVE  BranchSpec'
<1>1. e \in Entries /\ Fits(e, branch, ncalls, ncalls)
  BY UserFits DEF IsUserEntry
<1>2. branch \in Seq(Entries) /\ ncalls \in Nat /\ branch' = Append(branch, e) /\ Orderly(branch, ncalls)
  BY DEF BranchSpec, Write
<1>3. Orderly(Append(branch, e), ncalls)
  BY <1>1, <1>2, StaysOrderly
<1>4. \A id : OnBranch(id, branch) => OnBranch(id, Append(branch, e))
  BY <1>1, <1>2, StaysOnBranch
<1>5. branch' \in Seq(Entries)
  BY <1>1, <1>2, AppendedIs
<1>6. open' \in Seq(Calls) /\ \A k \in DOMAIN open' : open'[k].id <= ncalls /\ OnBranch(open'[k].id, branch')
  <2>1. CASE open' = open
    BY <1>2, <1>4, <2>1 DEF BranchSpec
  <2>2. CASE open' = <<>>
    BY <2>2
  <2> QED
    BY <2>1, <2>2
<1> QED
  BY <1>2, <1>3, <1>5, <1>6 DEF BranchSpec, Orderly, OnBranch, Proper, CallIds

AreNew(calls, made, n) ==
  /\ calls \in Seq(Calls) /\ Len(calls) = n /\ DOMAIN calls = 1..n
  /\ \A i \in 1..n : calls[i].id = ncalls + i
  /\ made = {calls[i] : i \in 1..n} /\ made \in SUBSET Calls /\ IsFiniteSet(made)
  /\ \A c \in made : ncalls < c.id /\ c.id <= ncalls + n

(* The calls of a completion are numbered on from the last one.            *)
LEMMA CallsAreNew ==
  ASSUME BranchSpec, NEW n \in Nat, NEW sigs \in [1..n -> Sigs],
         NEW calls, calls = NewCalls(sigs), NEW made, made = {calls[i] : i \in DOMAIN calls}
  PROVE  AreNew(calls, made, n)
<1>1. ncalls \in Nat /\ DOMAIN sigs = 1..n
  BY DEF BranchSpec
<1>2. calls = [i \in 1..n |-> [id |-> ncalls + i, sig |-> sigs[i]]]
  BY <1>1 DEF NewCalls
<1>3. \A i \in 1..n : calls[i] \in Calls /\ calls[i].id = ncalls + i
  BY <1>1, <1>2 DEF Calls
<1>4. calls \in [1..n -> Calls] /\ calls \in Seq(Calls) /\ Len(calls) = n
  BY <1>2, <1>3
<1>6. made = {calls[i] : i \in 1..n}
  BY <1>2
<1>7. calls \in Surjection(1..n, made)
  BY <1>2, <1>6 DEF Surjection
<1>8. IsFiniteSet(made)
  BY <1>7, FS_Surjection, FS_Interval
<1> QED
  BY <1>1, <1>2, <1>3, <1>4, <1>6, <1>8 DEF AreNew

LEMMA CompleteWrites ==
  ASSUME BranchSpec, NEW size \in Nat, NEW think \in BOOLEAN, NEW n \in Nat, NEW sigs \in [1..n -> Sigs],
         NEW followup \in BOOLEAN, Complete(size, think, sigs, followup)
  PROVE  BranchSpec'
<1> DEFINE calls == NewCalls(sigs)
           set == {calls[i] : i \in DOMAIN calls}
           e == [Msg("assistant", size) EXCEPT !.think = think, !.calls = set]
           s == Append(branch, e)
           m == ncalls + n
<1>0. ncalls \in Nat
  BY DEF BranchSpec
<1>1. /\ calls \in Seq(Calls) /\ Len(calls) = n /\ Len(sigs) = n /\ DOMAIN calls = 1..n
      /\ \A i \in 1..n : calls[i].id = ncalls + i
      /\ set \in SUBSET Calls /\ IsFiniteSet(set)
      /\ \A c \in set : ncalls < c.id /\ c.id <= m
  <2>1. PICK new : new = NewCalls(sigs)
    OBVIOUS
  <2>2. PICK made : made = {new[i] : i \in DOMAIN new}
    OBVIOUS
  <2>3. AreNew(new, made, n)
    BY <2>1, <2>2, CallsAreNew
  <2>4. calls = new /\ set = made
    BY <2>1, <2>2
  <2>5. Len(sigs) = n
    OBVIOUS
  <2> HIDE DEF calls, set
  <2> QED
    BY <2>3, <2>4, <2>5 DEF AreNew
<1>2. /\ branch' = s \o (IF followup THEN <<Msg("user", 1)>> ELSE <<>>)
      /\ open' = calls /\ ncalls' = m /\ cycle' = cycle
      /\ phase' = IF sigs = <<>> THEN "idle" ELSE "tools"
  BY <1>1 DEF Complete
<1>3. branch \in Seq(Entries) /\ ncalls \in Nat /\ cycle \in Nat /\ m \in Nat /\ ncalls <= m /\ Orderly(branch, ncalls)
  BY DEF BranchSpec
<1>4. e \in Entries /\ e.role = "assistant" /\ e.answers = 0 /\ e.calls = set
  <2> HIDE DEF set, calls
  <2> QED
    BY <1>1, <1>3 DEF Msg, Entries, Roles
<1>5. Fits(e, branch, ncalls, m)
  <2> HIDE DEF e, set, m
  <2> QED
    BY <1>1, <1>4 DEF Fits, Proper, CallIds
<1>6. s \in Seq(Entries) /\ Orderly(s, m)
  <2> HIDE DEF e, m
  <2> QED
    BY <1>3, <1>4, <1>5, AppendedIs, StaysOrderly
<1>7. branch' \in Seq(Entries) /\ Orderly(branch', m) /\ \A id : OnBranch(id, s) => OnBranch(id, branch')
  <2> HIDE DEF s, m
  <2>1. CASE ~followup
    BY <1>2, <1>6, <2>1
  <2>2. CASE followup
    <3> DEFINE u == Msg("user", 1)
    <3>1. IsUserEntry(u) /\ u \in Entries
      BY <1>3, UserEntries DEF IsUserEntry
    <3>2. Fits(u, s, m, m)
      <4> HIDE DEF u
      <4> QED
        BY <3>1, UserFits
    <3>3. branch' = Append(s, u)
      <4> HIDE DEF u
      <4>1. branch' = s \o <<u>>
        BY <1>2, <2>2 DEF u
      <4> QED
        BY <1>6, <3>1, <4>1
    <3>4. Orderly(Append(s, u), m) /\ Append(s, u) \in Seq(Entries) /\ \A id : OnBranch(id, s) => OnBranch(id, Append(s, u))
      <4> HIDE DEF u
      <4> QED
        BY <1>3, <1>6, <3>1, <3>2, AppendedIs, StaysOrderly, StaysOnBranch
    <3> QED
      BY <3>3, <3>4
  <2> QED
    BY <2>1, <2>2
<1>8. \A k \in DOMAIN calls : calls[k].id <= m /\ OnBranch(calls[k].id, s)
  <2> TAKE k \in DOMAIN calls
  <2>1. calls[k] \in set /\ calls[k].id = ncalls + k /\ k \in 1..n
    BY <1>1
  <2>2. calls[k].id \in CallIds(e)
    BY <1>4, <2>1 DEF CallIds
  <2>3. Len(branch) + 1 \in DOMAIN s /\ s[Len(branch) + 1] = e
    <3> HIDE DEF e
    <3> QED
      BY <1>3, <1>4, AppendedIs
  <2>4. OnBranch(calls[k].id, s)
    <3> HIDE DEF e, s
    <3> QED
      BY <2>2, <2>3 DEF OnBranch
  <2> QED
    BY <1>3, <2>1, <2>4
<1>9. sigs # <<>> => calls # <<>>
  BY <1>1
<1>10. \A k \in DOMAIN open' : open'[k].id <= ncalls' /\ OnBranch(open'[k].id, branch')
  <2> HIDE DEF calls, s, m
  <2> QED
    BY <1>2, <1>7, <1>8
<1>11. phase' = "tools" => open' # <<>>
  <2> HIDE DEF calls
  <2> QED
    BY <1>2, <1>9
<1>12. open' \in Seq(Calls) /\ ncalls' \in Nat /\ cycle' \in Nat /\ phase' \in {"idle", "top", "tools"}
  <2> HIDE DEF calls, m
  <2> QED
    BY <1>1, <1>2, <1>3
<1>13. Orderly(branch', ncalls')
  BY <1>2, <1>7
<1> HIDE DEF calls, set, e, s, m
<1> QED
  BY <1>7, <1>10, <1>11, <1>12, <1>13 DEF BranchSpec, Orderly, OnBranch, Proper, CallIds

LEMMA ResultWrites ==
  ASSUME BranchSpec, NEW size \in Nat, Result(size)
  PROVE  BranchSpec'
<1> DEFINE e == [Msg("tool", size) EXCEPT !.answers = Head(open).id]
<1>1. /\ open \in Seq(Calls) /\ open # <<>> /\ branch \in Seq(Entries) /\ ncalls \in Nat /\ cycle \in Nat
      /\ Orderly(branch, ncalls)
      /\ \A k \in DOMAIN open : open[k].id <= ncalls /\ OnBranch(open[k].id, branch)
  BY DEF Result, BranchSpec
<1>2. Len(open) \in Nat /\ Len(open) >= 1 /\ Head(open) = open[1] /\ open[1] \in Calls /\ 1 \in DOMAIN open
  BY <1>1
<1>3. open[1].id \in Nat \ {0} /\ OnBranch(open[1].id, branch)
  BY <1>1, <1>2 DEF Calls
<1>4. e \in Entries /\ e.role = "tool" /\ e.answers = open[1].id /\ e.calls = {}
  BY <1>1, <1>2, <1>3, FS_EmptySet DEF Msg, Entries, Roles
<1>5. branch' = Append(branch, e) /\ open' = Tail(open) /\ cycle' = cycle /\ ncalls' = ncalls
      /\ phase' = IF Len(open) = 1 THEN "top" ELSE "tools"
  BY DEF Result, Write
<1> HIDE DEF e
<1>6. Fits(e, branch, ncalls, ncalls)
  BY <1>3, <1>4 DEF Fits, Proper, CallIds
<1>7. branch' \in Seq(Entries) /\ Orderly(branch', ncalls) /\ \A id : OnBranch(id, branch) => OnBranch(id, branch')
  BY <1>1, <1>4, <1>5, <1>6, AppendedIs, StaysOrderly, StaysOnBranch
<1>8. Tail(open) \in Seq(Calls) /\ Len(Tail(open)) = Len(open) - 1 /\ \A k \in DOMAIN Tail(open) : k + 1 \in DOMAIN open /\ Tail(open)[k] = open[k + 1]
  BY <1>1, <1>2
<1>9. \A k \in DOMAIN open' : open'[k].id <= ncalls /\ OnBranch(open'[k].id, branch')
  BY <1>1, <1>5, <1>7, <1>8
<1>10. phase' = "tools" => open' # <<>>
  BY <1>2, <1>5, <1>8
<1> QED
  BY <1>1, <1>5, <1>7, <1>8, <1>9, <1>10 DEF BranchSpec, Orderly, OnBranch, Proper, CallIds

LEMMA BranchIsWritten == Spec => []BranchSpec
<1>1. Init => BranchSpec
  BY DEF Init, BranchSpec, Orderly
<1>2. BranchSpec /\ [Next]_vars => BranchSpec'
  <2> SUFFICES ASSUME BranchSpec, [Next]_vars PROVE BranchSpec'
    OBVIOUS
  <2>0. cycle \in Nat /\ cycle + 1 \in Nat
    BY DEF BranchSpec
  <2>1. CASE UNCHANGED vars
    BY <2>1 DEF vars, BranchSpec, Orderly, OnBranch, Proper, CallIds
  <2>2. CASE \E size \in Sizes : Drain(size) \/ Result(size) \/ Fork(size) \/ \E trigger \in BOOLEAN : Push(size, trigger)
    <3>1. PICK size \in Sizes : Drain(size) \/ Result(size) \/ Fork(size) \/ \E trigger \in BOOLEAN : Push(size, trigger)
      BY <2>2
    <3>2. size \in Nat
      BY BudgetAssumption
    <3>3. CASE Drain(size)
      <4>2. Write(Msg("user", size)) /\ cycle' \in Nat /\ phase' \in {"idle", "top"} /\ ncalls' = ncalls /\ open' = open
        BY <2>0, <3>3 DEF Drain
      <4> QED
        BY <2>0, <3>2, <4>2, UserEntries, UserWrites
    <3>4. CASE Result(size)
      BY <3>2, <3>4, ResultWrites
    <3>5. CASE Fork(size)
      <4>2. /\ Write([Msg("user", size) EXCEPT !.cycle = cycle + 1])
            /\ cycle' \in Nat /\ phase' \in {"idle", "top"} /\ ncalls' = ncalls /\ open' = <<>>
        BY <2>0, <3>5 DEF Fork
      <4> QED
        BY <2>0, <3>2, <4>2, UserEntries, UserWrites
    <3>6. CASE \E trigger \in BOOLEAN : Push(size, trigger)
      <4>2. /\ Write([Msg("user", size) EXCEPT !.cycle = cycle + 1])
            /\ cycle' \in Nat /\ phase' \in {"idle", "top"} /\ ncalls' = ncalls /\ open' = open
        BY <2>0, <3>6 DEF Push
      <4> QED
        BY <2>0, <3>2, <4>2, UserEntries, UserWrites
    <3> QED
      BY <3>1, <3>3, <3>4, <3>5, <3>6
  <2>3. CASE \E size \in Sizes \union {0}, think \in Thinking, n \in 0..MaxCalls :
               \E sigs \in [1..n -> Sigs], followup \in Followups : Complete(size, think, sigs, followup)
    <3>1. PICK size \in Sizes \union {0}, think \in Thinking, n \in 0..MaxCalls :
               \E sigs \in [1..n -> Sigs], followup \in Followups : Complete(size, think, sigs, followup)
      BY <2>3
    <3>2. PICK sigs \in [1..n -> Sigs], followup \in Followups : Complete(size, think, sigs, followup)
      BY <3>1
    <3>3. size \in Nat /\ think \in BOOLEAN /\ n \in Nat /\ followup \in BOOLEAN
      BY BudgetAssumption
    <3> QED
      BY <3>2, <3>3, CompleteWrites
  <2> QED
    BY <2>1, <2>2, <2>3 DEF Next
<1> QED
  BY <1>1, <1>2, PTL DEF Spec

-----------------------------------------------------------------------------
(* Dedup.                                                                  *)

Scans == [seen : [Sigs -> Nat], dropped : SUBSET Nat]

LEMMA CallOfIs ==
  ASSUME BranchSpec, NEW i \in DOMAIN branch, IsResult(i)
  PROVE  CallOf(i).sig \in Sigs
<1>1. branch \in Seq(Entries) /\ branch[i].answers # 0
  BY DEF BranchSpec, Orderly, Proper, IsResult
<1>2. OnBranch(branch[i].answers, branch)
  BY <1>1 DEF BranchSpec, Orderly
<1> DEFINE asst == CHOOSE j \in DOMAIN branch : branch[i].answers \in CallIds(branch[j])
<1>3. asst \in DOMAIN branch /\ branch[i].answers \in CallIds(branch[asst])
  BY <1>2 DEF OnBranch
<1> HIDE DEF asst
<1>4. \E c \in branch[asst].calls : c.id = branch[i].answers
  BY <1>3 DEF CallIds
<1> DEFINE call == CHOOSE c \in branch[asst].calls : c.id = branch[i].answers
<1>5. call \in branch[asst].calls
  BY <1>4
<1>6. branch[asst] \in Entries
  BY <1>1, <1>3
<1>7. call \in Calls
  BY <1>5, <1>6 DEF Entries
<1>8. CallOf(i) = call
  BY DEF CallOf, asst
<1> HIDE DEF call
<1> QED
  BY <1>7, <1>8 DEF Calls

(* After the results from i on are scanned.                                *)
Scanned(acc, i) ==
  LET done == i..Len(branch)
  IN /\ acc \in Scans /\ acc.dropped \subseteq done
     /\ \A s \in Sigs : acc.seen[s] # 0 =>
          /\ acc.seen[s] \in done \ acc.dropped /\ IsResult(acc.seen[s])
          /\ CallOf(acc.seen[s]).sig = s
     /\ \A d \in acc.dropped : \E j \in done \ acc.dropped :
          j > d + DedupAfter /\ IsResult(j) /\ CallOf(j).sig = CallOf(d).sig

LEMMA OneScanned ==
  ASSUME BranchSpec, NEW i \in DOMAIN branch, NEW acc, Scanned(acc, i + 1)
  PROVE  Scanned(DedupStep(acc, i), i)
<1>0. /\ DedupAfter \in Nat /\ i \in Nat /\ i # 0 /\ Len(branch) \in Nat /\ i <= Len(branch)
      /\ i..Len(branch) = ((i + 1)..Len(branch)) \union {i} /\ i \notin (i + 1)..Len(branch)
  <2>1. branch \in Seq(Entries) /\ Len(branch) \in Nat /\ DOMAIN branch = 1..Len(branch)
    BY DEF BranchSpec
  <2>2. i \in 1..Len(branch)
    BY <2>1
  <2> QED
    BY <2>1, <2>2, BudgetAssumption
<1> DEFINE todo == i..Len(branch)
           done == (i + 1)..Len(branch)
<1>1. /\ acc \in Scans /\ acc.dropped \subseteq done
      /\ \A s \in Sigs : acc.seen[s] # 0 =>
           /\ acc.seen[s] \in done \ acc.dropped /\ IsResult(acc.seen[s])
           /\ CallOf(acc.seen[s]).sig = s
      /\ \A d \in acc.dropped : \E j \in done \ acc.dropped :
           j > d + DedupAfter /\ IsResult(j) /\ CallOf(j).sig = CallOf(d).sig
  BY DEF Scanned
<1>2. CASE ~IsResult(i)
  <2>1. DedupStep(acc, i) = acc
    BY <1>2 DEF DedupStep
  <2>2. done \subseteq todo
    BY <1>0
  <2> HIDE DEF done
  <2>3. Scanned(acc, i)
    BY <1>1, <2>2 DEF Scanned
  <2> QED
    BY <2>1, <2>3
<1>3. CASE IsResult(i)
  <2> DEFINE sig == CallOf(i).sig
  <2>1. sig \in Sigs
    BY <1>3, CallOfIs
  <2>2. todo = done \union {i} /\ i \notin done
    BY <1>0
  <2>3. acc.seen \in [Sigs -> Nat] /\ acc.seen[sig] \in Nat /\ acc.dropped \in SUBSET Nat
    BY <1>1, <2>1 DEF Scans
  <2>4. CASE acc.seen[sig] > 0 /\ acc.seen[sig] - i > DedupAfter
    <3> DEFINE next == [acc EXCEPT !.dropped = @ \union {i}]
    <3>1. DedupStep(acc, i) = next
      BY <1>3, <2>4 DEF DedupStep
    <3>2. next \in Scans /\ next.seen = acc.seen /\ next.dropped = acc.dropped \union {i}
      BY <1>0, <1>1, <2>3 DEF Scans
    <3>3. /\ acc.seen[sig] \in done \ acc.dropped /\ IsResult(acc.seen[sig])
          /\ CallOf(acc.seen[sig]).sig = sig /\ acc.seen[sig] > i + DedupAfter
      BY <1>0, <1>1, <2>1, <2>3, <2>4
    <3>4. todo \ next.dropped = done \ acc.dropped
      BY <2>2, <3>2
    <3>5. next.dropped \subseteq todo
      BY <1>1, <2>2, <3>2
    <3>6. \A s \in Sigs : next.seen[s] # 0 =>
             /\ next.seen[s] \in todo \ next.dropped /\ IsResult(next.seen[s])
             /\ CallOf(next.seen[s]).sig = s
      BY <1>1, <3>2, <3>4
    <3>7. ASSUME NEW d \in next.dropped
          PROVE  \E j \in todo \ next.dropped : j > d + DedupAfter /\ IsResult(j) /\ CallOf(j).sig = CallOf(d).sig
      <4>1. CASE d = i
        BY <3>3, <3>4, <4>1
      <4>2. CASE d # i
        <5>1. d \in acc.dropped
          BY <3>2, <3>7, <4>2
        <5> QED
          BY <1>1, <3>4, <5>1
      <4> QED
        BY <4>1, <4>2
    <3> HIDE DEF next
    <3> QED
      BY <3>1, <3>2, <3>5, <3>6, <3>7 DEF Scanned
  <2>5. CASE ~(acc.seen[sig] > 0 /\ acc.seen[sig] - i > DedupAfter)
    <3> DEFINE next == [acc EXCEPT !.seen[sig] = i]
    <3>1. DedupStep(acc, i) = next
      BY <1>3, <2>5 DEF DedupStep
    <3>2. /\ next \in Scans /\ next.dropped = acc.dropped
          /\ \A s \in Sigs : next.seen[s] = IF s = sig THEN i ELSE acc.seen[s]
      BY <1>0, <1>1, <2>1, <2>3 DEF Scans
    <3>3. todo \ next.dropped = (done \ acc.dropped) \union {i} /\ next.dropped \subseteq todo
      BY <1>1, <2>2, <3>2
    <3>4. \A s \in Sigs : next.seen[s] # 0 =>
             /\ next.seen[s] \in todo \ next.dropped /\ IsResult(next.seen[s])
             /\ CallOf(next.seen[s]).sig = s
      <4> HIDE DEF next, todo, done
      <4> QED
        BY <1>1, <1>3, <3>2, <3>3
    <3>5. \A d \in next.dropped : \E j \in todo \ next.dropped :
             j > d + DedupAfter /\ IsResult(j) /\ CallOf(j).sig = CallOf(d).sig
      <4> HIDE DEF next, todo, done
      <4> QED
        BY <1>1, <3>2, <3>3
    <3> HIDE DEF next
    <3> QED
      BY <3>1, <3>2, <3>3, <3>4, <3>5 DEF Scanned
  <2> QED
    BY <2>4, <2>5
<1> QED
  BY <1>2, <1>3

LEMMA WhatIsSuppressed ==
  ASSUME BranchSpec
  PROVE  \E acc : Scanned(acc, 1) /\ acc.dropped = Suppressed
<1> DEFINE l == Len(branch)
           scan[k \in 0..l] == IF k = 0 THEN Unseen ELSE DedupStep(scan[k - 1], l + 1 - k)
<1>0. l \in Nat /\ DOMAIN branch = 1..l
  BY DEF BranchSpec
<1>1. Suppressed = scan[l].dropped
  BY DEF Suppressed
<1>2. Unseen \in Scans
  BY DEF Unseen, Scans
<1>3. ASSUME NEW acc \in Scans, NEW k \in 1..l PROVE DedupStep(acc, l + 1 - k) \in Scans
  <2>1. l + 1 - k \in DOMAIN branch /\ l + 1 - k \in Nat
    BY <1>0
  <2> DEFINE i == l + 1 - k
  <2> HIDE DEF i
  <2>2. i \in DOMAIN branch /\ i \in Nat
    BY <2>1 DEF i
  <2>3. IsResult(i) => CallOf(i).sig \in Sigs
    BY <2>2, CallOfIs
  <2>4. DedupStep(acc, i) \in Scans
    BY <2>2, <2>3 DEF DedupStep, Scans
  <2> QED
    BY <2>4 DEF i
<1> DEFINE g == [p \in (1..l) \X Scans |-> DedupStep(p[2], l + 1 - p[1])]
<1>4. g \in [(1..l) \X Scans -> Scans] /\ \A k \in 1..l, acc \in Scans : g[<<k, acc>>] = DedupStep(acc, l + 1 - k)
  BY <1>3
<1>5. PICK f \in [0..l -> Scans] : Follows(f, l, Unseen, g)
  <2> HIDE DEF g, l
  <2> QED
    BY <1>0, <1>2, <1>4, Recursion
<1>6. f = [k \in 0..l |-> IF k = 0 THEN Unseen ELSE DedupStep(f[k - 1], l + 1 - k)]
  <2>1. \A k \in 0..l : f[k] = IF k = 0 THEN Unseen ELSE DedupStep(f[k - 1], l + 1 - k)
    <3> TAKE k \in 0..l
    <3>1. CASE k = 0
      BY <1>5, <3>1 DEF Follows
    <3>2. CASE k # 0
      <4>1. k \in 1..l /\ k - 1 \in 0..l /\ f[k - 1] \in Scans
        <5> HIDE DEF l, g
        <5>1. k \in 1..l /\ k - 1 \in 0..l
          BY <1>0, <3>2
        <5> QED
          BY <1>5, <5>1
      <4> HIDE DEF l, g
      <4>2. f[k] = g[<<k, f[k - 1]>>]
        BY <1>5, <4>1 DEF Follows
      <4> QED
        BY <1>4, <3>2, <4>1, <4>2
    <3> QED
      BY <3>1, <3>2
  <2> QED
    BY <1>5, <2>1
<1>7. scan = [k \in 0..l |-> IF k = 0 THEN Unseen ELSE DedupStep(scan[k - 1], l + 1 - k)]
  <2>1. \E h : h = [k \in 0..l |-> IF k = 0 THEN Unseen ELSE DedupStep(h[k - 1], l + 1 - k)]
    BY <1>6
  <2> QED
    BY <2>1, Zenon
<1> HIDE DEF scan
<1> DEFINE G == {k \in 0..l : Scanned(scan[k], l + 1 - k)}
<1>8. 0 \in G
  <2>1. scan[0] = Unseen
    BY <1>0, <1>7
  <2>2. Scanned(Unseen, l + 1)
    BY <1>0, <1>2 DEF Scanned, Unseen
  <2> QED
    BY <1>0, <2>1, <2>2
<1>9. ASSUME NEW k \in 1..l, k - 1 \in G PROVE k \in G
  <2>1. l + 1 - k \in DOMAIN branch /\ (l + 1 - k) + 1 = l + 1 - (k - 1)
    BY <1>0
  <2>2. Scanned(scan[k - 1], (l + 1 - k) + 1)
    BY <1>9, <2>1
  <2>3. Scanned(DedupStep(scan[k - 1], l + 1 - k), l + 1 - k)
    BY <2>1, <2>2, OneScanned
  <2>4. scan[k] = DedupStep(scan[k - 1], l + 1 - k)
    BY <1>0, <1>7
  <2> QED
    BY <2>3, <2>4
<1>10. l \in G
  <2>1. \A k \in 1..l : k - 1 \in G => k \in G
    BY <1>9
  <2> HIDE DEF G, l
  <2>2. 0..l \subseteq G
    BY <1>0, <1>8, <2>1, Climb
  <2> QED
    BY <1>0, <2>2
<1>11. Scanned(scan[l], 1)
  <2>1. l + 1 - l = 1
    BY <1>0
  <2> QED
    BY <1>10, <2>1
<1> QED
  BY <1>1, <1>11

(* dedup hides a result only behind a newer result of the same call that   *)
(* stays, for any branch, any calls and any same_call_dedup_after.         *)
THEOREM NewestStays == Spec => []DedupKeepsNewest
<1>1. BranchSpec => DedupKeepsNewest
  <2> SUFFICES ASSUME BranchSpec PROVE DedupKeepsNewest
    OBVIOUS
  <2>1. DOMAIN branch = 1..Len(branch)
    BY DEF BranchSpec
  <2>2. PICK acc : Scanned(acc, 1) /\ acc.dropped = Suppressed
    BY WhatIsSuppressed
  <2> QED
    BY <2>1, <2>2 DEF Scanned, DedupKeepsNewest
<1> QED
  BY <1>1, BranchIsWritten, PTL

-----------------------------------------------------------------------------
(* What the hooks make of an entry.                                        *)

Items == {e \in [role : Roles \union {"system"}, size : Nat, think : BOOLEAN, calls : SUBSET Calls,
                 answers : Nat, cycle : Nat, kept : SUBSET Nat] : IsFiniteSet(e.calls) /\ Proper(e)}

(* An entry only loses calls, and its text changes only with the last one. *)
Faded(e, f) ==
  /\ f \in Items /\ f.role = e.role /\ f.answers = e.answers /\ f.calls \subseteq e.calls
  /\ f.calls # {} => f.size = e.size

(* The one completion whose call dedup leaves without its result.          *)
Bare(e) == \A id \in CallIds(e) : id \in SuppressedCalls => e.size = 0

LEMMA FadesOn ==
  ASSUME NEW e, NEW f, NEW g, Faded(e, f), Faded(f, g)
  PROVE  Faded(e, g)
BY DEF Faded

LEMMA FadesBare ==
  ASSUME NEW e, NEW f, Faded(e, f), Bare(e)
  PROVE  Bare(f)
BY DEF Faded, Bare, CallIds

LEMMA FewerCalls ==
  ASSUME NEW e \in Items, NEW gone
  PROVE  Faded(e, WithoutCalls(e, gone))
<1> DEFINE left == {c \in e.calls : c.id \notin gone}
<1>1. left \in SUBSET Calls /\ left \subseteq e.calls /\ IsFiniteSet(left)
  <2>1. IsFiniteSet(e.calls) /\ e.calls \in SUBSET Calls /\ left \subseteq e.calls
    BY DEF Items
  <2> HIDE DEF left
  <2> QED
    BY <2>1, FS_Subset
<1>2. Faded(e, e)
  BY DEF Faded
<1>3. Faded(e, [e EXCEPT !.calls = left])
  <2> HIDE DEF left
  <2> DEFINE f == [e EXCEPT !.calls = left]
  <2>1. f.role = e.role /\ f.size = e.size /\ f.answers = e.answers /\ f.calls = left
    BY DEF Items
  <2>2. Proper(f)
    BY <1>1, <2>1 DEF Items, Proper
  <2>3. f \in Items
    BY <1>1, <2>2, <2>1 DEF Items
  <2> QED
    BY <1>1, <2>1, <2>3 DEF Faded
<1>4. WithoutCalls(e, gone) = IF left = {} /\ Blank(e) THEN e ELSE [e EXCEPT !.calls = left]
  BY DEF WithoutCalls
<1> HIDE DEF left
<1> QED
  BY <1>2, <1>3, <1>4

LEMMA LeftBare ==
  ASSUME NEW e \in Items
  PROVE  Bare(WithoutCalls(e, SuppressedCalls))
<1> DEFINE left == {c \in e.calls : c.id \notin SuppressedCalls}
<1>1. CASE left = {} /\ Blank(e)
  <2>1. WithoutCalls(e, SuppressedCalls) = e
    BY <1>1 DEF WithoutCalls
  <2>2. e.size = 0
    BY <1>1 DEF Blank, TextSize, Items
  <2> QED
    BY <2>1, <2>2 DEF Bare
<1>2. CASE ~(left = {} /\ Blank(e))
  <2>1. WithoutCalls(e, SuppressedCalls) = [e EXCEPT !.calls = left]
    BY <1>2 DEF WithoutCalls
  <2>2. [e EXCEPT !.calls = left].calls = left
    BY DEF Items
  <2>3. \A id \in {c.id : c \in left} : id \notin SuppressedCalls
    OBVIOUS
  <2> QED
    BY <2>1, <2>2, <2>3 DEF Bare, CallIds
<1> QED
  BY <1>1, <1>2

LEMMA Emptied ==
  ASSUME NEW e \in Items, NEW size \in Nat, NEW think \in BOOLEAN,
         NEW f, f = [e EXCEPT !.size = size, !.think = think, !.calls = {}]
  PROVE  Faded(e, f)
<1>1. f.role = e.role /\ f.answers = e.answers /\ f.calls = {}
  BY DEF Items
<1>2. Proper(f)
  BY <1>1 DEF Items, Proper
<1>3. f \in Items
  BY <1>1, <1>2, FS_EmptySet DEF Items
<1> QED
  BY <1>1, <1>3 DEF Faded

LEMMA Blocked ==
  ASSUME NEW e \in Items
  PROVE  Faded(e, BlockTokenade(e))
<1>1. CASE TextSize(e) < Tokenade
  BY <1>1 DEF BlockTokenade, Faded
<1>2. CASE ~(TextSize(e) < Tokenade)
  <2>1. BlockTokenade(e) = [e EXCEPT !.size = StubSize, !.think = FALSE, !.calls = {}]
    BY <1>2 DEF BlockTokenade
  <2>2. StubSize \in Nat
    BY DEF StubSize
  <2> QED
    BY <2>1, <2>2, Emptied
<1> QED
  BY <1>1, <1>2

LEMMA Stripped ==
  ASSUME NEW e \in Items, NEW i
  PROVE  Faded(e, StripThinking(e, i))
<1> DEFINE f == [e EXCEPT !.think = FALSE]
<1>1. f.role = e.role /\ f.answers = e.answers /\ f.calls = e.calls /\ f.size = e.size
  BY DEF Items
<1>2. Proper(f)
  BY <1>1 DEF Items, Proper
<1>3. f \in Items
  BY <1>1, <1>2 DEF Items
<1>4. Faded(e, f) /\ Faded(e, e)
  BY <1>1, <1>3 DEF Faded
<1>5. StripThinking(e, i) = e \/ StripThinking(e, i) = f
  BY DEF StripThinking
<1> QED
  BY <1>4, <1>5

LEMMA Shortened ==
  ASSUME NEW e \in Items, e.role = "tool", NEW size \in Nat
  PROVE  Faded(e, [e EXCEPT !.size = size])
<1> DEFINE f == [e EXCEPT !.size = size]
<1>0. e.calls = {}
  BY DEF Items, Proper
<1>1. f.role = e.role /\ f.answers = e.answers /\ f.calls = {}
  BY <1>0 DEF Items
<1>2. Proper(f)
  BY <1>1 DEF Items, Proper
<1>3. f \in Items
  BY <1>1, <1>2, FS_EmptySet DEF Items
<1> QED
  BY <1>1, <1>3 DEF Faded

LEMMA Trimmed ==
  ASSUME NEW e \in Items, NEW i
  PROVE  Faded(e, TrimOutput(e, i))
<1>0. MaxOutput \in Nat /\ StubSize \in Nat
  BY BudgetAssumption DEF StubSize
<1>1. CASE e.role = "assistant"
  BY <1>1, FewerCalls DEF TrimOutput
<1>2. CASE e.role = "tool"
  <2>1. TrimOutput(e, i) \in {[e EXCEPT !.size = StubSize], [e EXCEPT !.size = MaxOutput], e}
    BY <1>2 DEF TrimOutput
  <2>2. Faded(e, e)
    BY DEF Faded
  <2> QED
    BY <1>0, <1>2, <2>1, <2>2, Shortened
<1>3. CASE e.role # "assistant" /\ e.role # "tool"
  BY <1>3 DEF TrimOutput, Faded
<1> QED
  BY <1>1, <1>2, <1>3

LEMMA TransformedIs ==
  ASSUME BranchSpec, NEW i \in DOMAIN branch
  PROVE  Faded(branch[i], Transformed(i)) /\ Bare(Transformed(i))
<1> DEFINE e == [branch[i] EXCEPT !.kept = {i}]
           a == WithoutCalls(e, SuppressedCalls)
           b == BlockTokenade(a)
           c == StripThinking(b, i)
           d == TrimOutput(c, i)
<1>1. branch[i] \in Entries /\ Proper(branch[i]) /\ i \in Nat
  BY DEF BranchSpec, Orderly
<1>2. e.role = branch[i].role /\ e.answers = branch[i].answers /\ e.calls = branch[i].calls /\ e.size = branch[i].size
  BY <1>1 DEF Entries
<1>3. Proper(e)
  BY <1>1, <1>2 DEF Proper
<1>4. e \in Items
  BY <1>1, <1>2, <1>3 DEF Items, Entries
<1>5. Faded(branch[i], e)
  BY <1>2, <1>4 DEF Faded
<1>6. Transformed(i) = d
  BY DEF Transformed
<1> HIDE DEF e
<1>7. Faded(e, a) /\ Bare(a) /\ a \in Items
  BY <1>4, FewerCalls, LeftBare DEF Faded
<1> HIDE DEF a
<1>8. Faded(a, b) /\ b \in Items
  BY <1>7, Blocked DEF Faded
<1> HIDE DEF b
<1>9. Faded(b, c) /\ c \in Items
  BY <1>8, Stripped DEF Faded
<1> HIDE DEF c
<1>10. Faded(c, d)
  BY <1>9, Trimmed
<1> HIDE DEF d
<1>11. Faded(a, d)
  BY <1>8, <1>9, <1>10, FadesOn
<1>12. Faded(branch[i], d) /\ Bare(d)
  BY <1>5, <1>7, <1>11, FadesOn, FadesBare
<1> QED
  BY <1>6, <1>12

-----------------------------------------------------------------------------
(* Loading the branch.                                                     *)

(* s shows the entries of the branch up to k that are not suppressed, in   *)
(* order; m says which.                                                    *)
ShowsBy(s, k, m) ==
  /\ m \in [1..Len(s) -> (1..k) \ Suppressed]
  /\ \A p \in 1..Len(s) : s[p] = Transformed(m[p])
  /\ \A p, q \in 1..Len(s) : p < q => m[p] < m[q]
  /\ \A i \in (1..k) \ Suppressed : \E p \in 1..Len(s) : m[p] = i
Shows(s, k) == s \in Seq(Items) /\ \E m : ShowsBy(s, k, m)

ShowStep(s, k) == s \o (IF k \in Suppressed THEN <<>> ELSE <<Transformed(k)>>)

LEMMA AddedIs ==
  ASSUME NEW X, NEW s \in Seq(X), NEW e \in X
  PROVE  /\ Append(s, e) \in Seq(X) /\ s \o <<e>> = Append(s, e) /\ s \o <<>> = s
         /\ Len(Append(s, e)) = Len(s) + 1 /\ Len(s) \in Nat
         /\ \A i \in 1..Len(s) : Append(s, e)[i] = s[i] /\ s[i] \in X
         /\ Append(s, e)[Len(s) + 1] = e
OBVIOUS

LEMMA ShowStepIs ==
  ASSUME BranchSpec, NEW s \in Seq(Items), NEW k \in DOMAIN branch
  PROVE  /\ ShowStep(s, k) \in Seq(Items)
         /\ k \in Suppressed => ShowStep(s, k) = s
         /\ k \notin Suppressed => ShowStep(s, k) = Append(s, Transformed(k))
<1>1. Transformed(k) \in Items
  BY TransformedIs DEF Faded
<1> DEFINE e == Transformed(k)
<1>2. CASE k \in Suppressed
  <2>1. ShowStep(s, k) = s \o <<>>
    BY <1>2 DEF ShowStep
  <2> QED
    BY <1>1, <1>2, <2>1, AddedIs
<1>3. CASE k \notin Suppressed
  <2>1. ShowStep(s, k) = s \o <<e>>
    BY <1>3 DEF ShowStep
  <2> HIDE DEF e
  <2>2. e \in Items
    BY <1>1 DEF e
  <2>3. s \o <<e>> = Append(s, e) /\ Append(s, e) \in Seq(Items)
    BY <2>2, AddedIs
  <2> QED
    BY <1>3, <2>1, <2>3 DEF e
<1> QED
  BY <1>2, <1>3

LEMMA ShowsMore ==
  ASSUME BranchSpec, NEW k \in DOMAIN branch, NEW s, Shows(s, k - 1)
  PROVE  Shows(ShowStep(s, k), k)
<1>1. k \in Nat /\ k # 0 /\ 1..k = (1..(k - 1)) \union {k} /\ k \notin 1..(k - 1)
  <2>1. branch \in Seq(Entries)
    BY DEF BranchSpec
  <2>2. k \in 1..Len(branch) /\ Len(branch) \in Nat
    BY <2>1
  <2> QED
    BY <2>2
<1>2. PICK m : ShowsBy(s, k - 1, m)
  BY DEF Shows
<1>3. s \in Seq(Items)
  BY DEF Shows
<1>4. CASE k \in Suppressed
  <2>1. ShowStep(s, k) = s
    BY <1>3, <1>4, ShowStepIs
  <2>2. (1..k) \ Suppressed = (1..(k - 1)) \ Suppressed
    BY <1>1, <1>4
  <2>3. ShowsBy(s, k, m)
    BY <1>2, <2>2 DEF ShowsBy
  <2> QED
    BY <1>3, <2>1, <2>3 DEF Shows
<1>5. CASE k \notin Suppressed
  <2> DEFINE e == Transformed(k)
             t == Append(s, e)
             n == Len(s) + 1
             h == [p \in 1..n |-> IF p = n THEN k ELSE m[p]]
  <2>1. ShowStep(s, k) = t /\ t \in Seq(Items)
    BY <1>3, <1>5, ShowStepIs
  <2>2. e \in Items
    BY TransformedIs DEF Faded
  <2>3. Len(s) \in Nat /\ Len(t) = n /\ t[n] = e /\ \A p \in 1..Len(s) : t[p] = s[p]
    <3> HIDE DEF e
    <3> QED
      BY <1>3, <2>2, AddedIs
  <2>4. (1..k) \ Suppressed = ((1..(k - 1)) \ Suppressed) \union {k}
    BY <1>1, <1>5
  <2>5. /\ m \in [1..Len(s) -> (1..(k - 1)) \ Suppressed]
        /\ \A p \in 1..Len(s) : s[p] = Transformed(m[p])
        /\ \A p, q \in 1..Len(s) : p < q => m[p] < m[q]
        /\ \A i \in (1..(k - 1)) \ Suppressed : \E p \in 1..Len(s) : m[p] = i
    BY <1>2 DEF ShowsBy
  <2>6. n \in Nat /\ 1..n = (1..Len(s)) \union {n} /\ n \notin 1..Len(s) /\ n \in 1..n
        /\ \A p \in 1..Len(s) : p < n /\ ~(n < p)
    BY <2>3
  <2>7. h[n] = k /\ \A p \in 1..Len(s) : h[p] = m[p]
    BY <2>6
  <2>8. h \in [1..n -> (1..k) \ Suppressed]
    BY <2>4, <2>5, <2>6
  <2>9. \A p \in 1..n : t[p] = Transformed(h[p])
    <3> HIDE DEF h, t, n
    <3> QED
      BY <2>3, <2>5, <2>6, <2>7 DEF e
  <2>10. \A p, q \in 1..n : p < q => h[p] < h[q]
    <3> TAKE p, q \in 1..n
    <3> HAVE p < q
    <3>1. p \in 1..Len(s)
      BY <2>3
    <3>2. CASE q = n
      <4>1. h[p] \in 1..(k - 1) /\ h[q] = k
        BY <2>5, <2>7, <3>1, <3>2
      <4> HIDE DEF h
      <4> QED
        BY <1>1, <4>1
    <3>3. CASE q # n
      <4>1. q \in 1..Len(s)
        BY <2>6, <3>3
      <4> QED
        BY <2>5, <2>7, <3>1, <4>1
    <3> QED
      BY <3>2, <3>3
  <2>11. \A i \in (1..k) \ Suppressed : \E p \in 1..n : h[p] = i
    <3> HIDE DEF h, n
    <3> QED
      BY <2>4, <2>5, <2>6, <2>7
  <2> HIDE DEF h, n, t
  <2>12. ShowsBy(t, k, h)
    BY <2>3, <2>8, <2>9, <2>10, <2>11 DEF ShowsBy
  <2> QED
    BY <2>1, <2>12 DEF Shows
<1> QED
  BY <1>4, <1>5

LEMMA DialogueShows ==
  ASSUME BranchSpec
  PROVE  Shows(Dialogue, Len(branch))
<1> DEFINE l == Len(branch)
           shown[k \in 0..l] == IF k = 0 THEN <<>> ELSE shown[k - 1] \o (IF k \in Suppressed THEN <<>> ELSE <<Transformed(k)>>)
<1>0. l \in Nat /\ DOMAIN branch = 1..l
  BY DEF BranchSpec
<1>1. Dialogue = shown[l]
  BY DEF Dialogue
<1>2. <<>> \in Seq(Items)
  OBVIOUS
<1>3. \A k \in 1..l, s \in Seq(Items) : ShowStep(s, k) \in Seq(Items)
  BY <1>0, ShowStepIs
<1> DEFINE g == [p \in (1..l) \X Seq(Items) |-> ShowStep(p[2], p[1])]
<1>4. g \in [(1..l) \X Seq(Items) -> Seq(Items)] /\ \A k \in 1..l, s \in Seq(Items) : g[<<k, s>>] = ShowStep(s, k)
  BY <1>3
<1>5. PICK f \in [0..l -> Seq(Items)] : Follows(f, l, <<>>, g)
  <2> HIDE DEF g, l
  <2> QED
    BY <1>0, <1>2, <1>4, Recursion
<1>6. f = [k \in 0..l |-> IF k = 0 THEN <<>> ELSE ShowStep(f[k - 1], k)]
  <2>1. \A k \in 0..l : f[k] = IF k = 0 THEN <<>> ELSE ShowStep(f[k - 1], k)
    <3> TAKE k \in 0..l
    <3>1. CASE k = 0
      BY <1>5, <3>1 DEF Follows
    <3>2. CASE k # 0
      <4>1. k \in 1..l /\ k - 1 \in 0..l /\ f[k - 1] \in Seq(Items)
        <5> HIDE DEF l, g
        <5>1. k \in 1..l /\ k - 1 \in 0..l
          BY <1>0, <3>2
        <5> QED
          BY <1>5, <5>1
      <4> HIDE DEF l, g
      <4>2. f[k] = g[<<k, f[k - 1]>>]
        BY <1>5, <4>1 DEF Follows
      <4> QED
        BY <1>4, <3>2, <4>1, <4>2
    <3> QED
      BY <3>1, <3>2
  <2> QED
    BY <1>5, <2>1
<1>7. shown = [k \in 0..l |-> IF k = 0 THEN <<>> ELSE ShowStep(shown[k - 1], k)]
  <2>1. \E h : h = [k \in 0..l |-> IF k = 0 THEN <<>> ELSE h[k - 1] \o (IF k \in Suppressed THEN <<>> ELSE <<Transformed(k)>>)]
    BY <1>6 DEF ShowStep
  <2>2. shown = [k \in 0..l |-> IF k = 0 THEN <<>> ELSE shown[k - 1] \o (IF k \in Suppressed THEN <<>> ELSE <<Transformed(k)>>)]
    BY <2>1, Zenon
  <2> HIDE DEF shown
  <2> QED
    BY <2>2 DEF ShowStep
<1> HIDE DEF shown
<1> DEFINE G == {k \in 0..l : Shows(shown[k], k)}
<1>8. 0 \in G
  <2>1. shown[0] = <<>>
    BY <1>0, <1>7
  <2>2. ShowsBy(<<>>, 0, <<>>)
    BY DEF ShowsBy
  <2>3. Shows(<<>>, 0)
    BY <1>2, <2>2 DEF Shows
  <2>4. 0 \in 0..l
    BY <1>0
  <2> HIDE DEF l
  <2> QED
    BY <2>1, <2>3, <2>4
<1>9. \A k \in 1..l : k - 1 \in G => k \in G
  <2> TAKE k \in 1..l
  <2> HAVE k - 1 \in G
  <2>1. shown[k] = ShowStep(shown[k - 1], k)
    BY <1>0, <1>7
  <2> QED
    BY <1>0, <2>1, ShowsMore
<1>10. l \in G
  <2> HIDE DEF G, l
  <2>2. 0..l \subseteq G
    BY <1>0, <1>8, <1>9, Climb
  <2> QED
    BY <1>0, <2>2
<1> QED
  BY <1>1, <1>10

-----------------------------------------------------------------------------
(* Calls and their results.                                                *)

(* Every call that was answered and whose result is not suppressed is      *)
(* answered further on.                                                    *)
Paired(ms) ==
  \A i \in DOMAIN ms : \A id \in CallIds(ms[i]) :
    Answers(branch, 0, id) /\ id \notin SuppressedCalls => Answers(ms, i, id)
Sound(ms) == ms \in Seq(Items) /\ Paired(ms) /\ \A i \in DOMAIN ms : Bare(ms[i])

LEMMA DialogueIsSound ==
  ASSUME BranchSpec
  PROVE  Sound(Dialogue)
<1> DEFINE l == Len(branch)
<1>0. branch \in Seq(Entries) /\ l \in Nat /\ DOMAIN branch = 1..l /\ Orderly(branch, ncalls)
  BY DEF BranchSpec
<1>1. Dialogue \in Seq(Items)
  BY DialogueShows DEF Shows
<1>2. PICK m : ShowsBy(Dialogue, l, m)
  BY DialogueShows DEF Shows
<1> DEFINE d == Dialogue
           n == Len(d)
<1> HIDE DEF d, l
<1>3. n \in Nat /\ DOMAIN d = 1..n
  BY <1>1 DEF d
<1>4. \A p \in 1..n : m[p] \in DOMAIN branch /\ m[p] \in Nat /\ Faded(branch[m[p]], d[p]) /\ Bare(d[p])
  <2> TAKE p \in 1..n
  <2>1. m[p] \in 1..l /\ d[p] = Transformed(m[p])
    BY <1>2 DEF ShowsBy, d
  <2> QED
    BY <1>0, <2>1, TransformedIs
<1>5. ASSUME NEW p \in 1..n, NEW id \in CallIds(d[p]), Answers(branch, 0, id), id \notin SuppressedCalls
      PROVE  Answers(d, p, id)
  <2>1. PICK r \in (0 + 1)..l : branch[r].answers = id
    BY <1>5 DEF Answers, l
  <2>2. r \in DOMAIN branch /\ r \in Nat
    BY <1>0, <2>1
  <2>3. r \notin Suppressed
    BY <1>5, <2>1 DEF SuppressedCalls
  <2>4. PICK q \in 1..n : m[q] = r
    BY <1>0, <1>2, <2>2, <2>3 DEF ShowsBy, d
  <2>5. id \in CallIds(branch[m[p]])
    BY <1>4 DEF Faded, CallIds
  <2>6. m[p] < r
    BY <1>0, <1>4, <2>1, <2>2, <2>5 DEF Orderly
  <2>7. p < q
    <3>1. \A x, y \in 1..n : x < y => m[x] < m[y]
      BY <1>2 DEF ShowsBy, d
    <3>2. p \in Nat /\ q \in Nat /\ (p < q \/ p = q \/ q < p)
      BY <1>3
    <3> QED
      BY <1>4, <2>2, <2>4, <2>6, <3>1, <3>2
  <2>8. d[q].answers = id
    BY <1>4, <2>1, <2>4 DEF Faded
  <2>9. q \in (p + 1)..Len(d)
    BY <1>3, <2>7
  <2> QED
    BY <2>8, <2>9 DEF Answers
<1>6. Paired(d)
  BY <1>3, <1>5 DEF Paired
<1>7. Sound(d)
  BY <1>1, <1>3, <1>4, <1>6 DEF Sound, d
<1> QED
  BY <1>7 DEF d

LEMMA CutIs ==
  ASSUME NEW X, NEW s \in Seq(X), NEW k \in 0..Len(s)
  PROVE  /\ SubSeq(s, 1, k) \in Seq(X) /\ Len(SubSeq(s, 1, k)) = k
         /\ \A i \in 1..k : SubSeq(s, 1, k)[i] = s[i]
         /\ SubSeq(s, k + 1, Len(s)) \in Seq(X) /\ Len(SubSeq(s, k + 1, Len(s))) = Len(s) - k
         /\ \A i \in 1..(Len(s) - k) : SubSeq(s, k + 1, Len(s))[i] = s[k + i]
<1> DEFINE a == SubSeq(s, 1, k)
           b == SubSeq(s, k + 1, Len(s))
<1>0. Len(s) \in Nat /\ k \in Nat /\ k <= Len(s)
  OBVIOUS
<1>1. a \in Seq(X)
  <2>1. \A i \in 1..k : s[i] \in X
    BY <1>0
  <2> QED
    BY <1>0, <2>1
<1>2. Len(a) = k /\ \A i \in 1..k : a[i] = s[i]
  BY <1>0
<1>3. b \in Seq(X)
  <2>1. \A i \in (k + 1)..Len(s) : s[i] \in X
    BY <1>0
  <2> QED
    BY <1>0, <2>1
<1>4. Len(b) = Len(s) - k
  BY <1>0
<1>5. \A i \in 1..(Len(s) - k) : b[i] = s[k + i]
  BY <1>0
<1> QED
  BY <1>1, <1>2, <1>3, <1>4, <1>5

(* A message without calls may be put anywhere.                            *)
Inserted(ms, k, e) == SubSeq(ms, 1, k) \o <<e>> \o SubSeq(ms, k + 1, Len(ms))

LEMMA InsertedIs ==
  ASSUME NEW X, NEW ms \in Seq(X), NEW k \in 0..Len(ms), NEW e \in X
  PROVE  /\ Inserted(ms, k, e) \in Seq(X) /\ Len(Inserted(ms, k, e)) = Len(ms) + 1 /\ Len(ms) \in Nat
         /\ \A i \in 1..(Len(ms) + 1) : Inserted(ms, k, e)[i] = IF i <= k THEN ms[i] ELSE IF i = k + 1 THEN e ELSE ms[i - 1]
<1> DEFINE a == SubSeq(ms, 1, k)
           b == SubSeq(ms, k + 1, Len(ms))
           c == a \o <<e>>
           n == Len(ms)
<1>0. n \in Nat /\ k \in Nat /\ k <= n
  OBVIOUS
<1>1. /\ a \in Seq(X) /\ Len(a) = k /\ \A i \in 1..k : a[i] = ms[i]
      /\ b \in Seq(X) /\ Len(b) = n - k /\ \A i \in 1..(n - k) : b[i] = ms[k + i]
  BY CutIs
<1> HIDE DEF a, b
<1>3. c \in Seq(X) /\ Len(c) = k + 1 /\ \A i \in 1..(k + 1) : c[i] = IF i <= k THEN ms[i] ELSE e
  BY <1>0, <1>1
<1> HIDE DEF c
<1>4. c \o b \in Seq(X) /\ Len(c \o b) = n + 1
  <2>1. Len(c) + Len(b) = n + 1
    BY <1>0, <1>1, <1>3
  <2>2. c \o b \in Seq(X) /\ Len(c \o b) = Len(c) + Len(b)
    BY <1>1, <1>3, ConcatProperties
  <2> QED
    BY <2>1, <2>2
<1>5. \A i \in 1..(n + 1) : (c \o b)[i] = IF i <= k + 1 THEN c[i] ELSE b[i - (k + 1)]
  <2>1. Len(c) + Len(b) = n + 1
    BY <1>0, <1>1, <1>3
  <2>2. \A i \in 1..(Len(c) + Len(b)) : (c \o b)[i] = IF i <= Len(c) THEN c[i] ELSE b[i - Len(c)]
    <3>1. c \in Seq(X) /\ b \in Seq(X)
      BY <1>1, <1>3
    <3> QED
      BY <3>1, ConcatProperties
  <2> QED
    BY <1>3, <2>1, <2>2
<1>6. \A i \in 1..(n + 1) : (c \o b)[i] = IF i <= k THEN ms[i] ELSE IF i = k + 1 THEN e ELSE ms[i - 1]
  <2> TAKE i \in 1..(n + 1)
  <2>1. CASE i <= k + 1
    <3>1. i \in 1..(k + 1) /\ (~(i <= k) => i = k + 1)
      BY <1>0, <2>1
    <3> QED
      BY <1>3, <1>5, <2>1, <3>1
  <2>2. CASE ~(i <= k + 1)
    <3>1. i - (k + 1) \in 1..(n - k) /\ k + (i - (k + 1)) = i - 1 /\ ~(i <= k) /\ i # k + 1
      BY <1>0, <2>2
    <3> QED
      BY <1>1, <1>5, <2>2, <3>1
  <2> QED
    BY <2>1, <2>2
<1> QED
  BY <1>0, <1>4, <1>6 DEF Inserted, a, b, c

LEMMA InsertedIsSound ==
  ASSUME NEW ms, Sound(ms), NEW k \in 0..Len(ms), NEW e \in Items, e.calls = {}
  PROVE  Sound(Inserted(ms, k, e))
<1> DEFINE t == Inserted(ms, k, e)
           n == Len(ms)
<1>0. ms \in Seq(Items) /\ Paired(ms) /\ \A i \in DOMAIN ms : Bare(ms[i])
  BY DEF Sound
<1>1. /\ t \in Seq(Items) /\ Len(t) = n + 1 /\ n \in Nat
      /\ \A i \in 1..(n + 1) : t[i] = IF i <= k THEN ms[i] ELSE IF i = k + 1 THEN e ELSE ms[i - 1]
  <2> HIDE DEF n
  <2>1. k \in 0..Len(ms)
    OBVIOUS
  <2> QED
    BY <1>0, <2>1, InsertedIs DEF n
<1> HIDE DEF t
<1>2. DOMAIN t = 1..(n + 1) /\ DOMAIN ms = 1..n /\ k \in Nat /\ k <= n
  BY <1>0, <1>1
<1> HIDE DEF n
<1>3. CallIds(e) = {}
  BY DEF CallIds
<1>4. \A i \in 1..(n + 1) : i # k + 1 => \E j \in 1..n : t[i] = ms[j] /\ i = IF j <= k THEN j ELSE j + 1
  <2> TAKE i \in 1..(n + 1)
  <2>1. CASE i <= k
    BY <1>1, <1>2, <2>1
  <2>2. CASE i > k + 1
    <3>1. i - 1 \in 1..n /\ t[i] = ms[i - 1] /\ ~(i - 1 <= k)
      BY <1>1, <1>2, <2>2
    <3> QED
      BY <1>2, <3>1
  <2> QED
    BY <1>2, <2>1, <2>2
<1>5. \A j \in 1..n : \E i \in 1..(n + 1) : t[i] = ms[j] /\ i = IF j <= k THEN j ELSE j + 1
  <2> TAKE j \in 1..n
  <2>1. CASE j <= k
    BY <1>1, <1>2, <2>1
  <2>2. CASE ~(j <= k)
    <3>1. j + 1 \in 1..(n + 1) /\ ~(j + 1 <= k) /\ j + 1 # k + 1 /\ (j + 1) - 1 = j
      BY <1>1, <1>2, <2>2
    <3> QED
      BY <1>1, <2>2, <3>1
  <2> QED
    BY <2>1, <2>2
<1>6. \A i \in DOMAIN t : Bare(t[i])
  <2>1. Bare(e)
    BY <1>3 DEF Bare
  <2>2. t[k + 1] = e
    BY <1>1, <1>2
  <2> QED
    BY <1>0, <1>2, <1>4, <2>1, <2>2
<1>7. ASSUME NEW i \in DOMAIN t, NEW id \in CallIds(t[i]), Answers(branch, 0, id), id \notin SuppressedCalls
      PROVE  Answers(t, i, id)
  <2>1. i # k + 1
    BY <1>1, <1>2, <1>3, <1>7
  <2>2. PICK j \in 1..n : t[i] = ms[j] /\ i = IF j <= k THEN j ELSE j + 1
    BY <1>2, <1>4, <2>1
  <2>3. Answers(ms, j, id)
    BY <1>0, <1>2, <1>7, <2>2 DEF Paired
  <2>4. PICK q \in (j + 1)..n : ms[q].answers = id
    BY <2>3 DEF Answers, n
  <2>5. q \in 1..n /\ j < q
    BY <1>1, <2>2, <2>4
  <2>6. PICK r \in 1..(n + 1) : t[r] = ms[q] /\ r = IF q <= k THEN q ELSE q + 1
    BY <1>5, <2>5
  <2>7. r \in (i + 1)..(n + 1)
    BY <1>1, <1>2, <2>2, <2>5, <2>6
  <2> QED
    BY <1>1, <2>4, <2>6, <2>7 DEF Answers
<1>8. Paired(t)
  BY <1>7 DEF Paired
<1> QED
  BY <1>1, <1>6, <1>8 DEF Sound, t

LEMMA PromptItems ==
  ASSUME BranchSpec, NEW role \in {"user", "system"}, NEW size \in Nat
  PROVE  Msg(role, size) \in Items /\ Msg(role, size).calls = {}
<1> DEFINE e == Msg(role, size)
<1>1. e = [role |-> role, size |-> size, think |-> FALSE, calls |-> {}, answers |-> 0, cycle |-> cycle, kept |-> {}]
  BY DEF Msg
<1>2. cycle \in Nat
  BY DEF BranchSpec
<1> HIDE DEF e
<1>3. e.role = role /\ e.calls = {} /\ e.answers = 0
  BY <1>1
<1>4. Proper(e)
  BY <1>3 DEF Proper
<1>5. e \in Items
  BY <1>1, <1>2, <1>3, <1>4, FS_EmptySet DEF Items, Roles
<1> QED
  BY <1>3, <1>5 DEF e

LEMMA LatestIs ==
  ASSUME NEW n \in Nat, NEW S \in SUBSET (1..n)
  PROVE  Latest(S) \in 0..n
<1> DEFINE G == {k \in 0..n : S \intersect (1..k) = {} \/ \E i \in S \intersect (1..k) : \A j \in S \intersect (1..k) : j <= i}
<1>1. 0 \in G
  OBVIOUS
<1>2. ASSUME NEW k \in 1..n, k - 1 \in G PROVE k \in G
  <2>1. 1..k = (1..(k - 1)) \union {k} /\ k \in Nat /\ \A j \in 1..(k - 1) : j <= k
    OBVIOUS
  <2>2. CASE k \in S
    <3>1. k \in S \intersect (1..k) /\ \A j \in S \intersect (1..k) : j <= k
      BY <2>1, <2>2
    <3> QED
      BY <3>1
  <2>3. CASE k \notin S
    <3>1. S \intersect (1..k) = S \intersect (1..(k - 1))
      BY <2>1, <2>3
    <3> QED
      BY <1>2, <3>1
  <2> QED
    BY <2>2, <2>3
<1>3. n \in G
  <2>1. \A k \in 1..n : k - 1 \in G => k \in G
    BY <1>2
  <2> HIDE DEF G
  <2>2. 0..n \subseteq G
    BY <1>1, <2>1, Climb
  <2> QED
    BY <2>2
<1>4. S \intersect (1..n) = S
  OBVIOUS
<1>5. S = {} \/ \E i \in S : \A j \in S : j <= i
  BY <1>3, <1>4
<1>6. CASE S = {}
  BY <1>6 DEF Latest
<1>7. CASE S # {}
  <2>1. Latest(S) = CHOOSE i \in S : \A j \in S : j <= i
    BY <1>7 DEF Latest
  <2>2. Latest(S) \in S
    BY <1>5, <1>7, <2>1
  <2>3. \A i \in S : i \in 0..n
    OBVIOUS
  <2> QED
    BY <2>2, <2>3
<1> QED
  BY <1>6, <1>7

LEMMA WithPromptsIsSound ==
  ASSUME BranchSpec, NEW ms, Sound(ms)
  PROVE  Sound(WithPrompts(ms))
<1> DEFINE n == Len(ms)
           body == Latest({i \in DOMAIN ms : ms[i].role # "user"})
           footer == IF FooterSize > 0 THEN <<Msg("user", FooterSize)>> ELSE <<>>
           system == IF SystemSize > 0 THEN <<Msg("system", SystemSize)>> ELSE <<>>
           a == SubSeq(ms, 1, body)
           b == SubSeq(ms, body + 1, n)
           t == a \o footer \o b
<1>0. ms \in Seq(Items) /\ n \in Nat /\ DOMAIN ms = 1..n /\ SystemSize \in Nat /\ FooterSize \in Nat
  BY BudgetAssumption DEF Sound
<1>1. body \in 0..n
  <2>1. {i \in DOMAIN ms : ms[i].role # "user"} \in SUBSET (1..n)
    BY <1>0
  <2> HIDE DEF n
  <2> QED
    BY <1>0, <2>1, LatestIs
<1> HIDE DEF body
<1>2. a \in Seq(Items) /\ b \in Seq(Items) /\ a \o b = ms
  <2>1. a \in Seq(Items) /\ b \in Seq(Items)
    BY <1>0, <1>1, CutIs
  <2>2. 1 \in 1..(n + 1) /\ body \in (1 - 1)..n /\ n \in body..n
    BY <1>0, <1>1
  <2>3. a \o b = SubSeq(ms, 1, n)
    BY <1>0, <2>2, ConcatAdjacentSubSeq
  <2>4. SubSeq(ms, 1, n) = ms
    BY <1>0
  <2> QED
    BY <2>1, <2>3, <2>4
<1>3. Sound(t)
  <2>1. CASE FooterSize > 0
    <3> DEFINE e == Msg("user", FooterSize)
    <3>1. e \in Items /\ e.calls = {}
      BY <1>0, PromptItems
    <3>2. t = Inserted(ms, body, e)
      BY <2>1 DEF Inserted
    <3> HIDE DEF e, t
    <3> QED
      BY <1>1, <3>1, <3>2, InsertedIsSound
  <2>2. CASE ~(FooterSize > 0)
    <3>1. t = a \o <<>> \o b
      BY <2>2
    <3>2. a \o <<>> = a
      <4> HIDE DEF a
      <4> QED
        BY <1>2
    <3> QED
      BY <1>2, <3>1, <3>2
  <2> QED
    BY <2>1, <2>2
<1>4. WithPrompts(ms) = system \o t
  <2>1. WithPrompts(ms) = system \o a \o footer \o b
    BY DEF WithPrompts, body
  <2>2. footer \in Seq(Items) /\ system \in Seq(Items)
    <3>1. (FooterSize > 0 => Msg("user", FooterSize) \in Items) /\ (SystemSize > 0 => Msg("system", SystemSize) \in Items)
      BY <1>0, PromptItems
    <3> QED
      BY <3>1
  <2> HIDE DEF footer, system, a, b
  <2>3. system \o a \o footer \o b = system \o (a \o footer \o b)
    <3>1. PICK x : x = a \o footer
      OBVIOUS
    <3>2. (system \o a) \o footer = system \o (a \o footer)
      BY <1>2, <2>2, ConcatAssociative
    <3>3. a \o footer \in Seq(Items)
      BY <1>2, <2>2, ConcatProperties
    <3>4. system \in Seq(Items) /\ x \in Seq(Items) /\ b \in Seq(Items)
      BY <1>2, <2>2, <3>1, <3>3
    <3>5. (system \o x) \o b = system \o (x \o b)
      BY <3>4, ConcatAssociative
    <3> QED
      BY <3>1, <3>2, <3>5
  <2> QED
    BY <2>1, <2>3
<1> HIDE DEF t
<1>5. CASE SystemSize > 0
  <2> DEFINE e == Msg("system", SystemSize)
  <2>1. e \in Items /\ e.calls = {}
    BY <1>0, PromptItems
  <2>2. t \in Seq(Items) /\ Len(t) \in Nat
    BY <1>3 DEF Sound
  <2> HIDE DEF e
  <2>3. SubSeq(t, 1, 0) = <<>> /\ SubSeq(t, 0 + 1, Len(t)) = t
    BY <2>2
  <2>4. Inserted(t, 0, e) = <<>> \o <<e>> \o t
    BY <2>3 DEF Inserted
  <2>5. <<>> \o <<e>> = <<e>>
    BY <2>1
  <2>6. Sound(Inserted(t, 0, e))
    BY <1>3, <2>1, <2>2, InsertedIsSound
  <2> QED
    BY <1>4, <1>5, <2>4, <2>5, <2>6 DEF e
<1>6. CASE ~(SystemSize > 0)
  <2>1. WithPrompts(ms) = <<>> \o t
    BY <1>4, <1>6
  <2>2. t \in Seq(Items)
    BY <1>3 DEF Sound
  <2>3. <<>> \o t = t
    BY <2>2
  <2> QED
    BY <1>3, <2>1, <2>3
<1> QED
  BY <1>5, <1>6

(* s is what the first k messages become; f says which one each began as.  *)
JoinsBy(ms, s, k, f) ==
  /\ f \in [1..Len(s) -> 1..k]
  /\ \A p \in 1..Len(s) :
       /\ s[p].calls = ms[f[p]].calls /\ s[p].answers = ms[f[p]].answers
       /\ s[p].calls # {} => s[p].size = ms[f[p]].size
  /\ \A p, q \in 1..Len(s) : p < q => f[p] < f[q]
  /\ \A i \in 1..k : ms[i].answers # 0 => \E p \in 1..Len(s) : f[p] = i
Joins(ms, s, k) == s \in Seq(Items) /\ \E f : JoinsBy(ms, s, k, f)

JoinedOf(prev, e) == [prev EXCEPT !.size = @ + TextSize(e), !.kept = @ \union e.kept]

LEMMA JoinedItem ==
  ASSUME NEW prev \in Items, NEW e \in Items, CanMerge(prev, e)
  PROVE  /\ JoinedOf(prev, e) \in Items /\ JoinedOf(prev, e).calls = prev.calls /\ JoinedOf(prev, e).calls = {}
         /\ JoinedOf(prev, e).answers = prev.answers /\ e.answers = 0
<1> DEFINE f == JoinedOf(prev, e)
<1>1. TextSize(e) \in Nat /\ e.kept \in SUBSET Nat
  <2>1. e.size \in Nat /\ e.kept \in SUBSET Nat /\ (IF e.think THEN 1 ELSE 0) \in Nat
    BY DEF Items
  <2> QED
    BY <2>1 DEF TextSize
<1>2. prev.size + TextSize(e) \in Nat /\ prev.kept \union e.kept \in SUBSET Nat
  <2>1. prev.size \in Nat /\ prev.kept \in SUBSET Nat
    BY DEF Items
  <2> QED
    BY <1>1, <2>1
<1>3. f.role = prev.role /\ f.calls = prev.calls /\ f.answers = prev.answers
  BY DEF Items, JoinedOf
<1>4. Proper(f)
  BY <1>3 DEF Items, Proper
<1>5. f \in Items
  BY <1>2, <1>3, <1>4 DEF Items, JoinedOf
<1>6. prev.calls = {} /\ e.answers = 0
  BY DEF CanMerge, Items, Proper
<1> QED
  BY <1>3, <1>5, <1>6

LEMMA MergeStepIs ==
  ASSUME NEW s \in Seq(Items), NEW e \in Items
  PROVE  /\ MergeStep(s, e) \in Seq(Items)
         /\ \/ MergeStep(s, e) = Append(s, e)
            \/ /\ s # <<>> /\ Len(MergeStep(s, e)) = Len(s) /\ e.answers = 0
               /\ \A p \in 1..Len(s) : MergeStep(s, e)[p].calls = s[p].calls /\ MergeStep(s, e)[p].answers = s[p].answers
                                       /\ (s[p].calls # {} => MergeStep(s, e)[p].size = s[p].size)
<1>1. CASE s # <<>> /\ CanMerge(s[Len(s)], e)
  <2> DEFINE n == Len(s)
             j == JoinedOf(s[n], e)
             t == [s EXCEPT ![n] = j]
  <2>1. n \in Nat /\ n \in 1..n /\ s[n] \in Items
    BY <1>1
  <2>2. MergeStep(s, e) = [s EXCEPT ![n].size = @ + TextSize(e), ![n].kept = @ \union e.kept]
    BY <1>1 DEF MergeStep
  <2>3. MergeStep(s, e) = t
    BY <2>1, <2>2 DEF JoinedOf
  <2>4. j \in Items /\ j.calls = s[n].calls /\ j.calls = {} /\ j.answers = s[n].answers /\ e.answers = 0
    BY <1>1, <2>1, JoinedItem
  <2> HIDE DEF j, n
  <2>5. t \in Seq(Items) /\ Len(t) = Len(s) /\ \A p \in 1..Len(s) : t[p] = IF p = n THEN j ELSE s[p]
    BY <2>1, <2>4, ExceptSeq DEF n
  <2> HIDE DEF t
  <2>6. \A p \in 1..Len(s) : t[p].calls = s[p].calls /\ t[p].answers = s[p].answers /\ (s[p].calls # {} => t[p].size = s[p].size)
    BY <2>4, <2>5
  <2> QED
    BY <1>1, <2>3, <2>4, <2>5, <2>6
<1>2. CASE ~(s # <<>> /\ CanMerge(s[Len(s)], e))
  <2>1. MergeStep(s, e) = Append(s, e)
    BY <1>2 DEF MergeStep
  <2> QED
    BY <2>1
<1> QED
  BY <1>1, <1>2

LEMMA JoinsMore ==
  ASSUME NEW ms \in Seq(Items), NEW k \in 1..Len(ms), NEW s, Joins(ms, s, k - 1)
  PROVE  Joins(ms, MergeStep(s, ms[k]), k)
<1>1. k \in Nat /\ k # 0 /\ 1..k = (1..(k - 1)) \union {k} /\ k \notin 1..(k - 1) /\ ms[k] \in Items
  OBVIOUS
<1>2. PICK f : JoinsBy(ms, s, k - 1, f)
  BY DEF Joins
<1>3. s \in Seq(Items) /\ Len(s) \in Nat
  BY DEF Joins
<1> DEFINE e == ms[k]
           t == MergeStep(s, e)
<1>4. /\ t \in Seq(Items)
      /\ \/ t = Append(s, e)
         \/ /\ s # <<>> /\ Len(t) = Len(s) /\ e.answers = 0
            /\ \A p \in 1..Len(s) : t[p].calls = s[p].calls /\ t[p].answers = s[p].answers /\ (s[p].calls # {} => t[p].size = s[p].size)
  BY <1>1, <1>3, MergeStepIs
<1> HIDE DEF t
<1>5. /\ f \in [1..Len(s) -> 1..(k - 1)]
      /\ \A p \in 1..Len(s) : /\ s[p].calls = ms[f[p]].calls /\ s[p].answers = ms[f[p]].answers
                              /\ s[p].calls # {} => s[p].size = ms[f[p]].size
      /\ \A p, q \in 1..Len(s) : p < q => f[p] < f[q]
      /\ \A i \in 1..(k - 1) : ms[i].answers # 0 => \E p \in 1..Len(s) : f[p] = i
  BY <1>2 DEF JoinsBy
<1>6. CASE t = Append(s, e)
  <2> DEFINE n == Len(s) + 1
             h == [p \in 1..n |-> IF p = n THEN k ELSE f[p]]
  <2>1. Len(t) = n /\ t[n] = e /\ \A p \in 1..Len(s) : t[p] = s[p]
    BY <1>1, <1>3, <1>6, AddedIs
  <2>2. n \in Nat /\ 1..n = (1..Len(s)) \union {n} /\ n \notin 1..Len(s) /\ n \in 1..n
        /\ \A p \in 1..Len(s) : p < n /\ ~(n < p)
    BY <1>3
  <2>3. h[n] = k /\ \A p \in 1..Len(s) : h[p] = f[p]
    BY <2>2
  <2>4. h \in [1..n -> 1..k]
    BY <1>1, <1>5, <2>2
  <2>5. \A p \in 1..n : /\ t[p].calls = ms[h[p]].calls /\ t[p].answers = ms[h[p]].answers
                        /\ t[p].calls # {} => t[p].size = ms[h[p]].size
    <3> HIDE DEF h, n
    <3> QED
      BY <1>5, <2>1, <2>2, <2>3
  <2>6. \A p, q \in 1..n : p < q => h[p] < h[q]
    <3> TAKE p, q \in 1..n
    <3> HAVE p < q
    <3>1. p \in 1..Len(s)
      BY <1>3
    <3>2. CASE q = n
      <4>1. h[p] \in 1..(k - 1) /\ h[q] = k
        BY <1>5, <2>3, <3>1, <3>2
      <4> HIDE DEF h
      <4> QED
        BY <1>1, <4>1
    <3>3. CASE q # n
      <4>1. q \in 1..Len(s)
        BY <2>2, <3>3
      <4> QED
        BY <1>5, <2>3, <3>1, <4>1
    <3> QED
      BY <3>2, <3>3
  <2>7. \A i \in 1..k : ms[i].answers # 0 => \E p \in 1..n : h[p] = i
    <3> HIDE DEF h, n
    <3> QED
      BY <1>1, <1>5, <2>2, <2>3
  <2> HIDE DEF h, n
  <2>8. JoinsBy(ms, t, k, h)
    BY <2>1, <2>4, <2>5, <2>6, <2>7 DEF JoinsBy
  <2> QED
    BY <1>4, <2>8 DEF Joins, t
<1>7. CASE /\ s # <<>> /\ Len(t) = Len(s) /\ e.answers = 0
           /\ \A p \in 1..Len(s) : t[p].calls = s[p].calls /\ t[p].answers = s[p].answers /\ (s[p].calls # {} => t[p].size = s[p].size)
  <2>1. f \in [1..Len(t) -> 1..k]
    BY <1>1, <1>5, <1>7
  <2>2. \A i \in 1..k : ms[i].answers # 0 => \E p \in 1..Len(t) : f[p] = i
    BY <1>1, <1>5, <1>7
  <2>3. \A p \in 1..Len(t) : /\ t[p].calls = ms[f[p]].calls /\ t[p].answers = ms[f[p]].answers
                             /\ t[p].calls # {} => t[p].size = ms[f[p]].size
    <3> HIDE DEF e
    <3> QED
      BY <1>5, <1>7
  <2>4. \A p, q \in 1..Len(t) : p < q => f[p] < f[q]
    BY <1>5, <1>7
  <2>5. JoinsBy(ms, t, k, f)
    BY <2>1, <2>2, <2>3, <2>4 DEF JoinsBy
  <2> QED
    BY <1>4, <2>5 DEF Joins, t
<1> QED
  BY <1>4, <1>6, <1>7

LEMMA MergeJoins ==
  ASSUME NEW ms \in Seq(Items)
  PROVE  Joins(ms, Merge(ms), Len(ms))
<1> DEFINE l == Len(ms)
           merged[k \in 0..l] == IF k = 0 THEN <<>> ELSE MergeStep(merged[k - 1], ms[k])
<1>0. l \in Nat
  OBVIOUS
<1>1. Merge(ms) = merged[l]
  BY DEF Merge
<1>2. <<>> \in Seq(Items)
  OBVIOUS
<1>3. \A k \in 1..l, s \in Seq(Items) : MergeStep(s, ms[k]) \in Seq(Items)
  <2>1. \A k \in 1..l : ms[k] \in Items
    OBVIOUS
  <2> QED
    BY <2>1, MergeStepIs
<1> DEFINE g == [p \in (1..l) \X Seq(Items) |-> MergeStep(p[2], ms[p[1]])]
<1>4. g \in [(1..l) \X Seq(Items) -> Seq(Items)] /\ \A k \in 1..l, s \in Seq(Items) : g[<<k, s>>] = MergeStep(s, ms[k])
  BY <1>3
<1>5. PICK f \in [0..l -> Seq(Items)] : Follows(f, l, <<>>, g)
  <2> HIDE DEF g, l
  <2> QED
    BY <1>0, <1>2, <1>4, Recursion
<1>6. f = [k \in 0..l |-> IF k = 0 THEN <<>> ELSE MergeStep(f[k - 1], ms[k])]
  <2>1. \A k \in 0..l : f[k] = IF k = 0 THEN <<>> ELSE MergeStep(f[k - 1], ms[k])
    <3> TAKE k \in 0..l
    <3>1. CASE k = 0
      BY <1>5, <3>1 DEF Follows
    <3>2. CASE k # 0
      <4>1. k \in 1..l /\ k - 1 \in 0..l /\ f[k - 1] \in Seq(Items)
        <5> HIDE DEF l, g
        <5>1. k \in 1..l /\ k - 1 \in 0..l
          BY <1>0, <3>2
        <5> QED
          BY <1>5, <5>1
      <4> HIDE DEF l, g
      <4>2. f[k] = g[<<k, f[k - 1]>>]
        BY <1>5, <4>1 DEF Follows
      <4> QED
        BY <1>4, <3>2, <4>1, <4>2
    <3> QED
      BY <3>1, <3>2
  <2> QED
    BY <1>5, <2>1
<1>7. merged = [k \in 0..l |-> IF k = 0 THEN <<>> ELSE MergeStep(merged[k - 1], ms[k])]
  <2>1. \E h : h = [k \in 0..l |-> IF k = 0 THEN <<>> ELSE MergeStep(h[k - 1], ms[k])]
    BY <1>6
  <2> QED
    BY <2>1, Zenon
<1> HIDE DEF merged
<1> DEFINE G == {k \in 0..l : Joins(ms, merged[k], k)}
<1>8. 0 \in G
  <2>1. merged[0] = <<>>
    BY <1>0, <1>7
  <2>2. JoinsBy(ms, <<>>, 0, <<>>)
    BY DEF JoinsBy
  <2>3. Joins(ms, <<>>, 0)
    BY <1>2, <2>2 DEF Joins
  <2>4. 0 \in 0..l
    BY <1>0
  <2> HIDE DEF l
  <2> QED
    BY <2>1, <2>3, <2>4
<1>9. \A k \in 1..l : k - 1 \in G => k \in G
  <2> TAKE k \in 1..l
  <2> HAVE k - 1 \in G
  <2>1. merged[k] = MergeStep(merged[k - 1], ms[k])
    BY <1>0, <1>7
  <2> QED
    BY <1>0, <2>1, JoinsMore
<1>10. l \in G
  <2> HIDE DEF G, l
  <2>2. 0..l \subseteq G
    BY <1>0, <1>8, <1>9, Climb
  <2> QED
    BY <1>0, <2>2
<1> QED
  BY <1>1, <1>10

LEMMA MergeIsSound ==
  ASSUME NEW ms, Sound(ms)
  PROVE  Sound(Merge(ms))
<1> DEFINE d == Merge(ms)
           n == Len(d)
           l == Len(ms)
<1>0. ms \in Seq(Items) /\ l \in Nat /\ DOMAIN ms = 1..l /\ Paired(ms) /\ \A i \in DOMAIN ms : Bare(ms[i])
  BY DEF Sound
<1>1. d \in Seq(Items)
  BY <1>0, MergeJoins DEF Joins
<1>2. PICK m : JoinsBy(ms, d, l, m)
  BY <1>0, MergeJoins DEF Joins
<1> HIDE DEF d
<1>3. n \in Nat /\ DOMAIN d = 1..n
  BY <1>1
<1>4. /\ m \in [1..n -> 1..l]
      /\ \A p \in 1..n : /\ d[p].calls = ms[m[p]].calls /\ d[p].answers = ms[m[p]].answers
                         /\ d[p].calls # {} => d[p].size = ms[m[p]].size
      /\ \A p, q \in 1..n : p < q => m[p] < m[q]
      /\ \A i \in 1..l : ms[i].answers # 0 => \E p \in 1..n : m[p] = i
  BY <1>2 DEF JoinsBy
<1> HIDE DEF n, l
<1>5. ASSUME NEW p \in 1..n, NEW id \in CallIds(d[p]), Answers(branch, 0, id), id \notin SuppressedCalls
      PROVE  Answers(d, p, id)
  <2>1. m[p] \in DOMAIN ms /\ id \in CallIds(ms[m[p]])
    BY <1>0, <1>4 DEF CallIds
  <2>2. Answers(ms, m[p], id)
    BY <1>0, <1>5, <2>1 DEF Paired
  <2>3. PICK r \in (m[p] + 1)..l : ms[r].answers = id
    BY <2>2 DEF Answers, l
  <2>4. m[p] \in 1..l /\ r \in 1..l /\ m[p] < r
    BY <1>0, <1>4, <2>3
  <2>5. id # 0
    <3>1. d[p] \in Items
      BY <1>1, <1>3
    <3> QED
      BY <3>1 DEF Items, CallIds, Calls
  <2>6. PICK q \in 1..n : m[q] = r
    BY <1>4, <2>3, <2>4, <2>5
  <2>7. p < q
    <3>1. \A x, y \in 1..n : x < y => m[x] < m[y]
      BY <1>4
    <3>2. p \in Nat /\ q \in Nat /\ (p < q \/ p = q \/ q < p) /\ m[p] \in Nat /\ r \in Nat
      BY <1>0, <1>3, <2>4
    <3> QED
      BY <2>4, <2>6, <3>1, <3>2
  <2>8. d[q].answers = id /\ q \in (p + 1)..n
    BY <1>3, <1>4, <2>3, <2>6, <2>7
  <2> QED
    BY <2>8 DEF Answers, n
<1>6. Paired(d)
  BY <1>3, <1>5 DEF Paired
<1>7. \A p \in DOMAIN d : Bare(d[p])
  <2> TAKE p \in DOMAIN d
  <2>1. m[p] \in DOMAIN ms /\ CallIds(d[p]) = CallIds(ms[m[p]]) /\ (d[p].calls # {} => d[p].size = ms[m[p]].size)
    BY <1>0, <1>3, <1>4 DEF CallIds
  <2>2. Bare(ms[m[p]])
    BY <1>0, <2>1
  <2>3. CallIds(d[p]) # {} => d[p].calls # {}
    BY DEF CallIds
  <2> QED
    BY <2>1, <2>2, <2>3 DEF Bare
<1> QED
  BY <1>1, <1>6, <1>7 DEF Sound, d

LEMMA MergedIsSound ==
  ASSUME BranchSpec
  PROVE  Sound(Merged)
BY DialogueIsSound, WithPromptsIsSound, MergeIsSound DEF Merged

-----------------------------------------------------------------------------
(* The budget.                                                             *)

LEMMA SomeLeast ==
  ASSUME NEW n \in Nat, NEW S \in SUBSET (0..n), S # {}
  PROVE  \E x \in S : \A y \in S : x <= y
<1> DEFINE G == {k \in 0..n : S \intersect (0..k) = {} \/ \E x \in S : \A y \in S : x <= y}
<1>1. 0 \in G
  <2>1. CASE 0 \in S
    <3>1. \A y \in S : 0 <= y
      OBVIOUS
    <3> QED
      BY <2>1, <3>1
  <2>2. CASE 0 \notin S
    <3>1. S \intersect (0..0) = {}
      BY <2>2
    <3> QED
      BY <3>1
  <2> QED
    BY <2>1, <2>2
<1>2. ASSUME NEW k \in 1..n, k - 1 \in G PROVE k \in G
  <2>1. CASE S \intersect (0..(k - 1)) = {} /\ k \in S
    <3>1. \A y \in S : k <= y
      BY <2>1
    <3> QED
      BY <2>1, <3>1
  <2>2. CASE S \intersect (0..(k - 1)) = {} /\ k \notin S
    <3>1. S \intersect (0..k) = {}
      BY <2>2
    <3> QED
      BY <3>1
  <2> QED
    BY <1>2, <2>1, <2>2
<1>3. n \in G
  <2>1. \A k \in 1..n : k - 1 \in G => k \in G
    BY <1>2
  <2> HIDE DEF G
  <2>2. 0..n \subseteq G
    BY <1>1, <2>1, Climb
  <2> QED
    BY <2>2
<1>4. S \intersect (0..n) = S
  OBVIOUS
<1> QED
  BY <1>3, <1>4

IsOldest(ms, k) == k \in DOMAIN ms /\ ms[k].role # "system" /\ \A j \in 1..(k - 1) : ms[j].role = "system"

LEMMA OldestIs ==
  ASSUME NEW ms \in Seq(Items), HasDialogue(ms)
  PROVE  IsOldest(ms, Oldest(ms))
<1> DEFINE S == {k \in 1..Len(ms) : ms[k].role # "system"}
<1>0. Len(ms) \in Nat /\ DOMAIN ms = 1..Len(ms)
  OBVIOUS
<1>1. S # {} /\ S \in SUBSET (0..Len(ms))
  BY <1>0 DEF HasDialogue
<1>2. PICK k \in S : \A y \in S : k <= y
  <2> HIDE DEF S
  <2> QED
    BY <1>0, <1>1, SomeLeast
<1>3. \A j \in 1..(k - 1) : ms[j].role = "system"
  <2> TAKE j \in 1..(k - 1)
  <2>1. j \in 1..Len(ms) /\ ~(k <= j)
    BY <1>0, <1>2
  <2>2. j \notin S
    BY <1>2, <2>1
  <2> QED
    BY <2>1, <2>2
<1>4. \E i \in DOMAIN ms : ms[i].role # "system" /\ \A j \in 1..(i - 1) : ms[j].role = "system"
  BY <1>0, <1>2, <1>3
<1> QED
  BY <1>4 DEF IsOldest, Oldest

LEMMA OneOldest ==
  ASSUME NEW ms \in Seq(Items), NEW k, IsOldest(ms, k)
  PROVE  HasDialogue(ms) /\ Oldest(ms) = k
<1>1. HasDialogue(ms)
  BY DEF IsOldest, HasDialogue
<1>2. IsOldest(ms, Oldest(ms))
  BY <1>1, OldestIs
<1> DEFINE i == Oldest(ms)
<1> HIDE DEF i
<1>3. k \in 1..Len(ms) /\ i \in 1..Len(ms) /\ Len(ms) \in Nat
  BY <1>2 DEF IsOldest, i
<1>4. ~(i < k)
  BY <1>2, <1>3 DEF IsOldest, i
<1>5. ~(k < i)
  BY <1>2, <1>3 DEF IsOldest, i
<1> QED
  BY <1>1, <1>3, <1>4, <1>5 DEF i

(* The two ways of a pass.                                                 *)
Uncalled(ms, k) == [ms EXCEPT ![k].calls = {}]
CutOut(ms, k, n) == SubSeq(ms, 1, k - 1) \o SubSeq(ms, k + n + 1, Len(ms))

LEMMA DropOldestIs ==
  ASSUME NEW ms \in Seq(Items), HasDialogue(ms), NEW k, k = Oldest(ms)
  PROVE  \/ ms[k].calls # {} /\ DropOldest(ms) = Uncalled(ms, k)
         \/ \E n \in 0..(Len(ms) - k) : DropOldest(ms) = CutOut(ms, k, n)
<1> DEFINE ids == CallIds(ms[k])
           IsOne(j) == ms[k + j].role = "tool" /\ ms[k + j].answers \in ids
           l == Len(ms) - k
           Runs == {n \in 0..l : /\ \A j \in 1..n : ms[k + j].role = "tool" /\ ms[k + j].answers \in ids
                                 /\ k + n < Len(ms) => ~(ms[k + n + 1].role = "tool" /\ ms[k + n + 1].answers \in ids)}
           run == CHOOSE n \in 0..l :
                    /\ \A j \in 1..n : ms[k + j].role = "tool" /\ ms[k + j].answers \in ids
                    /\ k + n < Len(ms) => ~(ms[k + n + 1].role = "tool" /\ ms[k + n + 1].answers \in ids)
<1>1. k \in 1..Len(ms) /\ Len(ms) \in Nat /\ k \in Nat /\ l \in Nat
  <2>1. k \in DOMAIN ms
    BY OldestIs DEF IsOldest
  <2> QED
    BY <2>1
<1>2. Runs # {}
  <2> DEFINE S == {n \in 0..l : n = l \/ ~IsOne(n + 1)}
  <2>1. S # {} /\ S \in SUBSET (0..l)
    BY <1>1
  <2>2. PICK n \in S : \A y \in S : n <= y
    <3> HIDE DEF S, l
    <3> QED
      BY <1>1, <2>1, SomeLeast
  <2>3. n \in 0..l /\ n \in Nat
    BY <1>1, <2>2
  <2>4. ASSUME NEW j \in 1..n PROVE IsOne(j)
    <3>1. j - 1 \in 0..l /\ ~(n <= j - 1) /\ (j - 1) + 1 = j
      BY <1>1, <2>3
    <3>2. j - 1 \notin S
      BY <2>2, <3>1
    <3>3. IsOne((j - 1) + 1)
      BY <3>1, <3>2
    <3> HIDE DEF IsOne
    <3> QED
      BY <3>1, <3>3
  <2>5. k + n < Len(ms) => ~IsOne(n + 1)
    <3>1. k + n < Len(ms) => n # l
      BY <1>1, <2>3
    <3> QED
      BY <2>2, <3>1
  <2>6. k + (n + 1) = k + n + 1
    BY <1>1, <2>3
  <2>7. n \in Runs
    BY <2>3, <2>4, <2>5, <2>6
  <2> QED
    BY <2>7
<1>3. run \in 0..l
  <2>1. \E n \in 0..l :
          /\ \A j \in 1..n : ms[k + j].role = "tool" /\ ms[k + j].answers \in ids
          /\ k + n < Len(ms) => ~(ms[k + n + 1].role = "tool" /\ ms[k + n + 1].answers \in ids)
    BY <1>2
  <2> HIDE DEF ids, l
  <2> QED
    BY <2>1
<1>4. DropOldest(ms) = IF ms[k].calls # {} /\ ~Blank(ms[k]) THEN Uncalled(ms, k) ELSE CutOut(ms, k, run)
  BY DEF DropOldest, Uncalled, CutOut
<1> HIDE DEF run
<1> QED
  BY <1>3, <1>4

LEMMA UncalledIs ==
  ASSUME NEW ms \in Seq(Items), NEW k \in 1..Len(ms)
  PROVE  /\ Uncalled(ms, k) \in Seq(Items) /\ Len(Uncalled(ms, k)) = Len(ms)
         /\ \A i \in 1..Len(ms) :
              /\ Uncalled(ms, k)[i].role = ms[i].role /\ Uncalled(ms, k)[i].answers = ms[i].answers
              /\ Uncalled(ms, k)[i].size = ms[i].size
              /\ Uncalled(ms, k)[i].calls = IF i = k THEN {} ELSE ms[i].calls
<1> DEFINE e == [ms[k] EXCEPT !.calls = {}]
           t == [ms EXCEPT ![k] = e]
<1>1. ms[k] \in Items
  OBVIOUS
<1>2. e.role = ms[k].role /\ e.answers = ms[k].answers /\ e.size = ms[k].size /\ e.calls = {}
  BY <1>1 DEF Items
<1>3. Proper(e)
  BY <1>1, <1>2 DEF Items, Proper
<1>4. e \in Items
  BY <1>1, <1>2, <1>3, FS_EmptySet DEF Items
<1>5. Uncalled(ms, k) = t
  BY DEF Uncalled
<1> HIDE DEF e
<1>6. t \in Seq(Items) /\ Len(t) = Len(ms) /\ \A i \in 1..Len(ms) : t[i] = IF i = k THEN e ELSE ms[i]
  BY <1>4, ExceptSeq
<1> HIDE DEF t
<1> QED
  BY <1>2, <1>5, <1>6

LEMMA CutOutIs ==
  ASSUME NEW X, NEW ms \in Seq(X), NEW k \in 1..Len(ms), NEW n \in 0..(Len(ms) - k)
  PROVE  /\ CutOut(ms, k, n) \in Seq(X) /\ Len(CutOut(ms, k, n)) = Len(ms) - (n + 1)
         /\ Len(ms) - (n + 1) \in Nat
         /\ \A i \in 1..(Len(ms) - (n + 1)) : CutOut(ms, k, n)[i] = IF i <= k - 1 THEN ms[i] ELSE ms[i + (n + 1)]
<1> DEFINE a == SubSeq(ms, 1, k - 1)
           b == SubSeq(ms, k + n + 1, Len(ms))
           l == Len(ms)
<1>0. l \in Nat /\ k \in Nat /\ n \in Nat /\ k - 1 \in 0..l /\ k + n \in 0..l /\ l - (n + 1) \in Nat /\ k - 1 \in Nat
  OBVIOUS
<1>1. a \in Seq(X) /\ Len(a) = k - 1 /\ \A i \in 1..(k - 1) : a[i] = ms[i]
  BY <1>0, CutIs
<1>2. b \in Seq(X) /\ Len(b) = l - (k + n) /\ \A i \in 1..(l - (k + n)) : b[i] = ms[(k + n) + i]
  BY <1>0, CutIs
<1> HIDE DEF a, b
<1>3. Len(a) + Len(b) = l - (n + 1)
  BY <1>0, <1>1, <1>2
<1>4. a \o b \in Seq(X) /\ Len(a \o b) = l - (n + 1)
  <2>1. a \o b \in Seq(X) /\ Len(a \o b) = Len(a) + Len(b)
    BY <1>1, <1>2, ConcatProperties
  <2> QED
    BY <1>3, <2>1
<1>5. \A i \in 1..(l - (n + 1)) : (a \o b)[i] = IF i <= k - 1 THEN a[i] ELSE b[i - (k - 1)]
  BY <1>1, <1>2, <1>3, ConcatProperties
<1>6. \A i \in 1..(l - (n + 1)) : (a \o b)[i] = IF i <= k - 1 THEN ms[i] ELSE ms[i + (n + 1)]
  <2> TAKE i \in 1..(l - (n + 1))
  <2>1. CASE i <= k - 1
    <3>1. i \in 1..(k - 1)
      BY <1>0, <2>1
    <3> QED
      BY <1>1, <1>5, <2>1, <3>1
  <2>2. CASE ~(i <= k - 1)
    <3>1. i - (k - 1) \in 1..(l - (k + n)) /\ (k + n) + (i - (k - 1)) = i + (n + 1)
      BY <1>0, <2>2
    <3> QED
      BY <1>2, <1>5, <2>2, <3>1
  <2> QED
    BY <2>1, <2>2
<1> QED
  BY <1>0, <1>4, <1>6 DEF CutOut, a, b

LEMMA UncalledIsSound ==
  ASSUME NEW ms, Sound(ms), NEW k \in 1..Len(ms)
  PROVE  Sound(Uncalled(ms, k))
<1> DEFINE t == Uncalled(ms, k)
<1>0. ms \in Seq(Items) /\ DOMAIN ms = 1..Len(ms) /\ Paired(ms) /\ \A i \in DOMAIN ms : Bare(ms[i])
  BY DEF Sound
<1>1. /\ t \in Seq(Items) /\ Len(t) = Len(ms)
      /\ \A i \in 1..Len(ms) : /\ t[i].answers = ms[i].answers /\ t[i].size = ms[i].size
                               /\ t[i].calls = IF i = k THEN {} ELSE ms[i].calls
  BY <1>0, UncalledIs
<1> HIDE DEF t
<1>2. DOMAIN t = 1..Len(ms)
  BY <1>1
<1>3. \A i \in 1..Len(ms) : CallIds(t[i]) \subseteq CallIds(ms[i])
  BY <1>1 DEF CallIds
<1>4. \A i \in DOMAIN t : Bare(t[i])
  BY <1>0, <1>1, <1>2, <1>3 DEF Bare
<1>5. ASSUME NEW i \in DOMAIN t, NEW id \in CallIds(t[i]), Answers(branch, 0, id), id \notin SuppressedCalls
      PROVE  Answers(t, i, id)
  <2>1. Answers(ms, i, id)
    BY <1>0, <1>2, <1>3, <1>5 DEF Paired
  <2>2. PICK j \in (i + 1)..Len(ms) : ms[j].answers = id
    BY <2>1 DEF Answers
  <2>3. j \in 1..Len(ms)
    BY <1>2, <2>2
  <2> QED
    BY <1>1, <2>2, <2>3 DEF Answers
<1>6. Paired(t)
  BY <1>5 DEF Paired
<1> QED
  BY <1>1, <1>4, <1>6 DEF Sound, t

LEMMA CutOutIsSound ==
  ASSUME NEW ms, Sound(ms), NEW k, IsOldest(ms, k), NEW n \in 0..(Len(ms) - k)
  PROVE  Sound(CutOut(ms, k, n))
<1> DEFINE t == CutOut(ms, k, n)
           l == Len(ms)
           m == l - (n + 1)
<1>0. ms \in Seq(Items) /\ l \in Nat /\ DOMAIN ms = 1..l /\ Paired(ms) /\ \A i \in DOMAIN ms : Bare(ms[i])
  BY DEF Sound
<1>1. k \in 1..l /\ \A j \in 1..(k - 1) : ms[j].role = "system"
  BY <1>0 DEF IsOldest
<1>2. /\ t \in Seq(Items) /\ Len(t) = m /\ m \in Nat
      /\ \A i \in 1..m : t[i] = IF i <= k - 1 THEN ms[i] ELSE ms[i + (n + 1)]
  BY <1>0, <1>1, CutOutIs
<1> HIDE DEF t
<1>3. DOMAIN t = 1..m
  BY <1>2
<1>4. \A i \in 1..m : IF i <= k - 1 THEN i \in 1..l /\ t[i] = ms[i] ELSE i + (n + 1) \in 1..l /\ t[i] = ms[i + (n + 1)]
  <2> TAKE i \in 1..m
  <2>1. k \in Nat /\ k <= l /\ n \in Nat /\ i \in Nat
    BY <1>0, <1>1
  <2>2. i + (n + 1) \in 1..l /\ i \in 1..l
    BY <1>0, <1>2, <2>1
  <2> QED
    BY <1>2, <2>2
<1>5. \A i \in DOMAIN t : Bare(t[i])
  BY <1>0, <1>3, <1>4
<1>6. ASSUME NEW i \in DOMAIN t, NEW id \in CallIds(t[i]), Answers(branch, 0, id), id \notin SuppressedCalls
      PROVE  Answers(t, i, id)
  <2>1. ~(i <= k - 1)
    <3>1. SUFFICES ASSUME i <= k - 1 PROVE FALSE
      OBVIOUS
    <3>2. t[i] = ms[i] /\ i \in 1..(k - 1)
      BY <1>0, <1>1, <1>3, <1>4, <3>1
    <3>3. t[i].role = "system" /\ t[i] \in Items
      BY <1>1, <1>2, <3>2
    <3>4. t[i].calls = {}
      BY <3>3 DEF Items, Proper
    <3> QED
      BY <1>6, <3>4 DEF CallIds
  <2>2. i \in 1..m /\ i + (n + 1) \in 1..l /\ t[i] = ms[i + (n + 1)]
    BY <1>3, <1>4, <2>1
  <2>3. Answers(ms, i + (n + 1), id)
    <3>1. PICK x : x = i + (n + 1)
      OBVIOUS
    <3>2. x \in DOMAIN ms /\ id \in CallIds(ms[x])
      BY <1>0, <1>6, <2>2, <3>1
    <3>3. Answers(ms, x, id)
      BY <1>0, <1>6, <3>2 DEF Paired
    <3> QED
      BY <3>1, <3>3
  <2>4. PICK j \in (i + (n + 1) + 1)..l : ms[j].answers = id
    BY <2>3 DEF Answers
  <2>5. j - (n + 1) \in (i + 1)..m /\ j - (n + 1) \in 1..m /\ ~(j - (n + 1) <= k - 1) /\ (j - (n + 1)) + (n + 1) = j
    <3>1. k \in Nat /\ n \in Nat /\ i \in Nat /\ j \in Nat /\ l \in Nat /\ i >= 1 /\ i > k - 1
      BY <1>0, <1>1, <1>2, <2>1, <2>2
    <3>2. j >= i + (n + 1) + 1 /\ j <= l
      BY <1>0, <2>2
    <3> HIDE DEF l
    <3> QED
      BY <3>1, <3>2
  <2>6. t[j - (n + 1)] = ms[j]
    <3>1. PICK y : y = j - (n + 1)
      OBVIOUS
    <3>2. y \in 1..m /\ ~(y <= k - 1) /\ y + (n + 1) = j
      BY <2>5, <3>1
    <3> QED
      BY <1>2, <3>1, <3>2
  <2> QED
    BY <1>2, <2>4, <2>5, <2>6 DEF Answers
<1>7. Paired(t)
  BY <1>6 DEF Paired
<1> QED
  BY <1>2, <1>5, <1>7 DEF Sound, t

(* A pass takes the calls of the oldest entry, once, or the entry.         *)
Lighter(ms) == IF HasDialogue(ms) /\ ms[Oldest(ms)].calls = {} THEN 1 ELSE 0
Measure(ms) == 2 * Len(ms) - Lighter(ms)
Fitting(ms) == ~(Tokens(ms) > TokenLimit /\ HasDialogue(ms))

LEMMA DropOldestLess ==
  ASSUME NEW ms \in Seq(Items), HasDialogue(ms)
  PROVE  /\ DropOldest(ms) \in Seq(Items) /\ Measure(DropOldest(ms)) < Measure(ms)
         /\ Sound(ms) => Sound(DropOldest(ms))
<1>1. PICK k : k = Oldest(ms)
  OBVIOUS
<1>2. IsOldest(ms, k) /\ k \in 1..Len(ms) /\ Len(ms) \in Nat
  BY <1>1, OldestIs DEF IsOldest
<1>3. \A s \in Seq(Items) : Lighter(s) \in {0, 1} /\ Len(s) \in Nat
  BY DEF Lighter
<1>4. CASE ms[k].calls # {} /\ DropOldest(ms) = Uncalled(ms, k)
  <2> DEFINE t == Uncalled(ms, k)
  <2>1. /\ t \in Seq(Items) /\ Len(t) = Len(ms)
        /\ \A i \in 1..Len(ms) : t[i].role = ms[i].role /\ t[i].calls = IF i = k THEN {} ELSE ms[i].calls
    BY <1>2, UncalledIs
  <2> HIDE DEF t
  <2>2. \A j \in 1..(k - 1) : j \in 1..Len(ms)
    BY <1>2
  <2>3. IsOldest(t, k)
    BY <1>2, <2>1, <2>2 DEF IsOldest
  <2>4. HasDialogue(t) /\ Oldest(t) = k
    BY <2>1, <2>3, OneOldest
  <2>5. Lighter(t) = 1 /\ Lighter(ms) = 0
    BY <1>1, <1>2, <1>4, <2>1, <2>4 DEF Lighter
  <2>6. Measure(t) < Measure(ms)
    BY <1>2, <2>1, <2>5 DEF Measure
  <2>7. Sound(ms) => Sound(t)
    BY <1>2, UncalledIsSound DEF t
  <2> QED
    BY <1>4, <2>1, <2>6, <2>7 DEF t
<1>5. CASE \E n \in 0..(Len(ms) - k) : DropOldest(ms) = CutOut(ms, k, n)
  <2>1. PICK n \in 0..(Len(ms) - k) : DropOldest(ms) = CutOut(ms, k, n)
    BY <1>5
  <2> DEFINE t == CutOut(ms, k, n)
  <2>2. t \in Seq(Items) /\ Len(t) = Len(ms) - (n + 1)
    BY <1>2, CutOutIs
  <2>3. Sound(ms) => Sound(t)
    BY <1>2, CutOutIsSound
  <2> HIDE DEF t
  <2>4. Lighter(t) \in {0, 1} /\ Lighter(ms) \in {0, 1} /\ n \in Nat
    BY <1>2, <1>3, <2>2
  <2>5. Measure(t) < Measure(ms)
    BY <1>2, <2>2, <2>4 DEF Measure
  <2> QED
    BY <2>1, <2>2, <2>3, <2>5 DEF t
<1> QED
  BY <1>1, <1>4, <1>5, DropOldestIs

LEMMA TrimStepIs ==
  ASSUME NEW ms \in Seq(Items)
  PROVE  /\ TrimStep(ms) \in Seq(Items)
         /\ Fitting(TrimStep(ms)) \/ (~Fitting(ms) /\ Measure(TrimStep(ms)) < Measure(ms))
         /\ Sound(ms) => Sound(TrimStep(ms))
<1>1. CASE Fitting(ms)
  <2>1. TrimStep(ms) = ms
    BY <1>1 DEF TrimStep, Fitting
  <2> QED
    BY <1>1, <2>1
<1>2. CASE ~Fitting(ms)
  <2>1. TrimStep(ms) = DropOldest(ms) /\ HasDialogue(ms)
    BY <1>2 DEF TrimStep, Fitting
  <2> QED
    BY <1>2, <2>1, DropOldestLess
<1> QED
  BY <1>1, <1>2

(* What is left after k passes either fits or is that much smaller.        *)
Shrunk(s, ms, k) ==
  /\ s \in Seq(Items) /\ (Sound(ms) => Sound(s))
  /\ Fitting(s) \/ Measure(s) <= 2 * Len(ms) - k

LEMMA MeasureIs ==
  ASSUME NEW s \in Seq(Items)
  PROVE  Measure(s) \in Int /\ Measure(s) <= 2 * Len(s) /\ Len(s) \in Nat /\ (Measure(s) <= 0 => Fitting(s))
<1>1. Lighter(s) \in {0, 1} /\ Len(s) \in Nat
  BY DEF Lighter
<1>2. Measure(s) \in Int /\ Measure(s) <= 2 * Len(s) /\ Measure(s) >= 2 * Len(s) - 1
  BY <1>1 DEF Measure
<1>3. Measure(s) <= 0 => Len(s) = 0
  BY <1>1, <1>2
<1>4. Len(s) = 0 => Fitting(s)
  BY DEF Fitting, HasDialogue
<1> QED
  BY <1>1, <1>2, <1>3, <1>4

LEMMA ShrinksMore ==
  ASSUME NEW ms \in Seq(Items), NEW k \in Nat \ {0}, NEW s, Shrunk(s, ms, k - 1)
  PROVE  Shrunk(TrimStep(s), ms, k)
<1>1. s \in Seq(Items) /\ (Sound(ms) => Sound(s)) /\ (Fitting(s) \/ Measure(s) <= 2 * Len(ms) - (k - 1))
  BY DEF Shrunk
<1> DEFINE t == TrimStep(s)
<1>2. t \in Seq(Items) /\ (Sound(s) => Sound(t)) /\ (Fitting(t) \/ (~Fitting(s) /\ Measure(t) < Measure(s)))
  BY <1>1, TrimStepIs
<1> HIDE DEF t
<1>3. Measure(t) \in Int /\ Measure(s) \in Int /\ Len(ms) \in Nat
  BY <1>1, <1>2, MeasureIs
<1>4. Fitting(t) \/ Measure(t) <= 2 * Len(ms) - k
  BY <1>1, <1>2, <1>3
<1>5. Shrunk(t, ms, k)
  BY <1>1, <1>2, <1>4 DEF Shrunk
<1> QED
  BY <1>5 DEF t

LEMMA TrimIs ==
  ASSUME NEW ms \in Seq(Items)
  PROVE  Trim(ms) \in Seq(Items) /\ Fitting(Trim(ms)) /\ (Sound(ms) => Sound(Trim(ms)))
<1> DEFINE l == 2 * Len(ms)
           left[k \in 0..l] == IF k = 0 THEN ms ELSE TrimStep(left[k - 1])
<1>0. l \in Nat
  OBVIOUS
<1>1. Trim(ms) = left[l]
  BY DEF Trim
<1> DEFINE g == [p \in (1..l) \X Seq(Items) |-> TrimStep(p[2])]
<1>4. g \in [(1..l) \X Seq(Items) -> Seq(Items)] /\ \A k \in 1..l, s \in Seq(Items) : g[<<k, s>>] = TrimStep(s)
  BY TrimStepIs
<1>5. PICK f \in [0..l -> Seq(Items)] : Follows(f, l, ms, g)
  <2> HIDE DEF g, l
  <2> QED
    BY <1>0, <1>4, Recursion
<1>6. f = [k \in 0..l |-> IF k = 0 THEN ms ELSE TrimStep(f[k - 1])]
  <2>1. \A k \in 0..l : f[k] = IF k = 0 THEN ms ELSE TrimStep(f[k - 1])
    <3> TAKE k \in 0..l
    <3>1. CASE k = 0
      BY <1>5, <3>1 DEF Follows
    <3>2. CASE k # 0
      <4> HIDE DEF l, g
      <4>1. k \in 1..l /\ k - 1 \in 0..l
        BY <1>0, <3>2
      <4>2. f[k - 1] \in Seq(Items)
        BY <1>5, <4>1
      <4>3. f[k] = g[<<k, f[k - 1]>>]
        BY <1>5, <4>1 DEF Follows
      <4> QED
        BY <1>4, <3>2, <4>1, <4>2, <4>3
    <3> QED
      BY <3>1, <3>2
  <2> QED
    BY <1>5, <2>1
<1>7. left = [k \in 0..l |-> IF k = 0 THEN ms ELSE TrimStep(left[k - 1])]
  <2>1. \E h : h = [k \in 0..l |-> IF k = 0 THEN ms ELSE TrimStep(h[k - 1])]
    BY <1>6
  <2> QED
    BY <2>1, Zenon
<1> HIDE DEF left
<1> DEFINE G == {k \in 0..l : Shrunk(left[k], ms, k)}
<1>8. 0 \in G
  <2>1. left[0] = ms
    BY <1>0, <1>7
  <2>2. Measure(ms) <= 2 * Len(ms) - 0
    BY MeasureIs
  <2>3. Shrunk(ms, ms, 0)
    BY <2>2 DEF Shrunk
  <2>4. 0 \in 0..l
    BY <1>0
  <2> HIDE DEF l
  <2> QED
    BY <2>1, <2>3, <2>4
<1>9. \A k \in 1..l : k - 1 \in G => k \in G
  <2> TAKE k \in 1..l
  <2> HAVE k - 1 \in G
  <2>0. k \in 0..l /\ k \in Nat \ {0}
    BY <1>0
  <2>1. left[k] = TrimStep(left[k - 1])
    <3> HIDE DEF l
    <3> QED
      BY <1>7, <2>0
  <2>2. Shrunk(left[k - 1], ms, k - 1)
    OBVIOUS
  <2>3. Shrunk(TrimStep(left[k - 1]), ms, k)
    BY <2>0, <2>2, ShrinksMore
  <2> HIDE DEF l
  <2> QED
    BY <2>0, <2>1, <2>3
<1>10. l \in G
  <2> HIDE DEF G, l
  <2>2. 0..l \subseteq G
    BY <1>0, <1>8, <1>9, Climb
  <2> QED
    BY <1>0, <2>2
<1>11. Shrunk(left[l], ms, l)
  BY <1>10
<1>12. left[l] \in Seq(Items) /\ (Sound(ms) => Sound(left[l])) /\ (Fitting(left[l]) \/ Measure(left[l]) <= 0)
  <2>1. 2 * Len(ms) - l = 0
    BY <1>0
  <2> QED
    BY <1>11, <2>1 DEF Shrunk
<1>13. Fitting(left[l])
  BY <1>12, MeasureIs
<1> QED
  BY <1>1, <1>12, <1>13

LEMMA CostIs ==
  ASSUME NEW e \in Items
  PROVE  Cost(e) \in Nat
<1>1. e.size \in Nat /\ IsFiniteSet(e.calls) /\ (IF e.think THEN 1 ELSE 0) \in Nat
  BY DEF Items
<1>2. Cardinality(e.calls) \in Nat
  BY <1>1, FS_CardinalityType
<1>3. TextSize(e) \in Nat
  BY <1>1 DEF TextSize
<1> QED
  BY <1>2, <1>3 DEF Cost

LEMMA TokensAre ==
  ASSUME NEW ms \in Seq(Items)
  PROVE  Tokens(ms) \in Nat
<1> DEFINE l == Len(ms)
           sum[k \in 0..l] == IF k = 0 THEN 0 ELSE sum[k - 1] + Cost(ms[k])
<1>0. l \in Nat
  OBVIOUS
<1>1. Tokens(ms) = sum[l]
  BY DEF Tokens
<1>2. \A k \in 1..l : Cost(ms[k]) \in Nat
  BY CostIs
<1> DEFINE g == [p \in (1..l) \X Nat |-> p[2] + Cost(ms[p[1]])]
<1>4. g \in [(1..l) \X Nat -> Nat] /\ \A k \in 1..l, s \in Nat : g[<<k, s>>] = s + Cost(ms[k])
  BY <1>2
<1>5. PICK f \in [0..l -> Nat] : Follows(f, l, 0, g)
  <2> HIDE DEF g, l
  <2> QED
    BY <1>0, <1>4, Recursion
<1>6. f = [k \in 0..l |-> IF k = 0 THEN 0 ELSE f[k - 1] + Cost(ms[k])]
  <2>1. \A k \in 0..l : f[k] = IF k = 0 THEN 0 ELSE f[k - 1] + Cost(ms[k])
    <3> TAKE k \in 0..l
    <3>1. CASE k = 0
      BY <1>5, <3>1 DEF Follows
    <3>2. CASE k # 0
      <4> HIDE DEF l, g
      <4>1. k \in 1..l /\ k - 1 \in 0..l
        BY <1>0, <3>2
      <4>2. f[k - 1] \in Nat
        BY <1>5, <4>1
      <4>3. f[k] = g[<<k, f[k - 1]>>]
        BY <1>5, <4>1 DEF Follows
      <4> QED
        BY <1>4, <3>2, <4>1, <4>2, <4>3
    <3> QED
      BY <3>1, <3>2
  <2> QED
    BY <1>5, <2>1
<1>7. sum = [k \in 0..l |-> IF k = 0 THEN 0 ELSE sum[k - 1] + Cost(ms[k])]
  <2>1. \E h : h = [k \in 0..l |-> IF k = 0 THEN 0 ELSE h[k - 1] + Cost(ms[k])]
    BY <1>6
  <2> QED
    BY <2>1, Zenon
<1> HIDE DEF sum
<1> DEFINE G == {k \in 0..l : sum[k] \in Nat}
<1>8. 0 \in G
  BY <1>0, <1>7
<1>9. \A k \in 1..l : k - 1 \in G => k \in G
  <2> TAKE k \in 1..l
  <2> HAVE k - 1 \in G
  <2>1. k \in 0..l /\ k # 0
    BY <1>0
  <2>2. sum[k] = sum[k - 1] + Cost(ms[k])
    <3> HIDE DEF l
    <3> QED
      BY <1>7, <2>1
  <2>3. sum[k - 1] \in Nat
    OBVIOUS
  <2>4. Cost(ms[k]) \in Nat
    BY <1>2
  <2> HIDE DEF l
  <2> QED
    BY <2>1, <2>2, <2>3, <2>4
<1>10. l \in G
  <2> HIDE DEF G, l
  <2>2. 0..l \subseteq G
    BY <1>0, <1>8, <1>9, Climb
  <2> QED
    BY <1>0, <2>2
<1> QED
  BY <1>1, <1>10

LEMMA PromptIs ==
  ASSUME BranchSpec
  PROVE  Sound(Prompt) /\ Fitting(Prompt)
<1>1. Sound(Merged) /\ Merged \in Seq(Items)
  BY MergedIsSound DEF Sound
<1>2. Prompt = Trim(Merged)
  BY DEF Prompt
<1> DEFINE ms == Merged
<1> HIDE DEF ms
<1>3. ms \in Seq(Items) /\ Sound(ms)
  BY <1>1 DEF ms
<1>4. Fitting(Trim(ms)) /\ Sound(Trim(ms))
  BY <1>3, TrimIs
<1> QED
  BY <1>2, <1>4 DEF ms

(* The request fits the context window unless only the system prompt is    *)
(* left, for any branch the loop writes and any limits.                    *)
THEOREM PromptsFit == Spec => []WithinBudget
<1>1. BranchSpec => WithinBudget
  <2> SUFFICES ASSUME BranchSpec, HasDialogue(Prompt)
               PROVE  LET Weight(e) == 1 + (e.size + (IF e.think THEN 1 ELSE 0)) + Cardinality(e.calls)
                          sum[k \in 0..Len(Prompt)] == IF k = 0 THEN 0 ELSE sum[k - 1] + Weight(Prompt[k])
                      IN sum[Len(Prompt)] <= TokenLimit
    BY DEF WithinBudget
  <2> DEFINE ms == Prompt
             Weight(e) == 1 + (e.size + (IF e.think THEN 1 ELSE 0)) + Cardinality(e.calls)
             sum[k \in 0..Len(ms)] == IF k = 0 THEN 0 ELSE sum[k - 1] + Weight(ms[k])
  <2>1. Sound(ms) /\ Fitting(ms)
    BY PromptIs
  <2>2. HasDialogue(ms)
    OBVIOUS
  <2>3. SUFFICES sum[Len(ms)] <= TokenLimit
    OBVIOUS
  <2> HIDE DEF ms
  <2>4. Tokens(ms) = sum[Len(ms)]
    BY DEF Tokens, Cost, TextSize
  <2>5. Tokens(ms) \in Nat
    BY <2>1, TokensAre DEF Sound
  <2>6. ~(Tokens(ms) > TokenLimit)
    BY <2>1, <2>2 DEF Fitting
  <2>7. TokenLimit \in Nat
    BY BudgetAssumption
  <2>8. Tokens(ms) <= TokenLimit
    BY <2>5, <2>6, <2>7
  <2> HIDE DEF sum
  <2> QED
    BY <2>4, <2>8
<1> QED
  BY <1>1, BranchIsWritten, PTL

(* The only answered calls that lose their result are those that dedup     *)
(* leaves on completions without text, for any branch and any limits.      *)
THEOREM CallsStayAnswered == Spec => []UnansweredOnlyIfBlank
<1>1. BranchSpec => UnansweredOnlyIfBlank
  <2> SUFFICES ASSUME BranchSpec, NEW i \in DOMAIN Prompt, NEW id \in CallIds(Prompt[i]),
                      Answers(branch, 0, id), ~Answers(Prompt, i, id)
               PROVE  id \in SuppressedCalls /\ Prompt[i].size = 0
    BY DEF UnansweredOnlyIfBlank
  <2>1. Paired(Prompt) /\ Bare(Prompt[i])
    BY PromptIs DEF Sound
  <2>2. id \in SuppressedCalls
    BY <2>1 DEF Paired
  <2> QED
    BY <2>1, <2>2 DEF Bare
<1> QED
  BY <1>1, BranchIsWritten, PTL
=============================================================================
