----------------------------- MODULE ForkProofs -----------------------------
(***************************************************************************)
(* Proofs about the fork runtime, for any sets of runs (finite), sessions  *)
(* and messages, any number of slots and any values of the limits: types,  *)
(* the accounts of slots and sessions, the fate of completed work; that    *)
(* sessions never mix, that every step is a step of the abstract worker    *)
(* pool or none, and that however a run ends, its session goes on from a   *)
(* run that has ended and its caller is told once.                         *)
(***************************************************************************)
EXTENDS ForkRuntimePool, TLAPS, FiniteSetTheorems, SequenceTheorems

USE DEF Live, Executing

(* The entries a run or a message writes are entries.                      *)
LEMMA EntryTypes ==
  /\ \A r \in Runs : /\ User(r) \in Entry /\ Error(r) \in Entry
                     /\ Digest(r) \in Entry /\ Nudge(r) \in Entry
                     /\ \A n \in 0..MaxCycles : Assistant(r, n) \in Entry /\ Tool(r, n) \in Entry
  /\ \A m \in Passives : Passive(m) \in Entry
BY ConstantsAssumption
   DEF Entry, Kinds, User, Error, Digest, Nudge, Assistant, Tool, Passive

(* What a run may be told is a sequence of terminal events.                *)
LEMMA SayType ==
  ASSUME replies \in [Runs -> Seq(Events)], NEW r \in Runs,
         Say(r, <<"final">>) \/ Say(r, <<"end">>) \/ Say(r, <<"error", "end">>)
  PROVE  replies' \in [Runs -> Seq(Events)]
<1>1. /\ <<"final">> \in Seq(Events)
      /\ <<"end">> \in Seq(Events)
      /\ <<"error", "end">> \in Seq(Events)
  BY DEF Events
<1>2. \A s, t \in Seq(Events) : s \o t \in Seq(Events)
  OBVIOUS
<1>3. \A q \in Runs : replies[q] \in Seq(Events)
  OBVIOUS
<1>4. PICK e \in Seq(Events) :
        replies' = [replies EXCEPT ![r] = IF r \in listening THEN @ \o e ELSE @]
  BY <1>1 DEF Say
<1>5. (IF r \in listening THEN replies[r] \o e ELSE replies[r]) \in Seq(Events)
  BY <1>2, <1>3
<1> QED
  BY <1>4, <1>5

-----------------------------------------------------------------------------
(* The type invariant, with the agreement of the phases it needs.          *)

TypeInv == TypeOK /\ PhasesAgree

LEMMA InitType == Init => TypeInv
<1> SUFFICES ASSUME Init PROVE TypeInv
  OBVIOUS
<1>1. TypeOK
  BY ConstantsAssumption DEF Init, TypeOK, Phases
<1>2. PhasesAgree
  BY ConstantsAssumption DEF Init, PhasesAgree
<1> QED
  BY <1>1, <1>2 DEF TypeInv

LEMMA ArrivalType == TypeInv /\ Arrival => TypeInv'
<1> SUFFICES ASSUME TypeInv, Arrival PROVE TypeInv'
  OBVIOUS
<1> USE EntryTypes, ConstantsAssumption DEF TypeInv, TypeOK, PhasesAgree, Phases,
        conversation, task, handle
<1>1. CASE \E s \in Sessions, r \in Runs : PushTrigger(s, r)
  <2> PICK s \in Sessions, r \in Runs : PushTrigger(s, r)
    BY <1>1
  <2>1. TypeOK'
    BY DEF PushTrigger, Register
  <2>2. PhasesAgree'
    BY DEF PushTrigger, Register
  <2> QED
    BY <2>1, <2>2
<1>2. CASE \E s \in Sessions, m \in Passives : PushPassive(s, m)
  BY <1>2 DEF PushPassive
<1>3. CASE \E s \in Sessions : Reset(s)
  BY <1>3 DEF Reset
<1>4. CASE \E r \in Runs : Abort(r)
  BY <1>4 DEF Abort
<1> QED
  BY <1>1, <1>2, <1>3, <1>4 DEF Arrival

(* Abandon is how every failing step ends.                                 *)
LEMMA AbandonType ==
  ASSUME TypeInv, NEW r \in Runs, pc[r] \in {"top", "infer", "tools"},
         NEW st \in {"failed", "aborted"}, NEW tail \in SUBSET Entry,
         Abandon(r, st, tail)
  PROVE  TypeInv'
<1>1. replies' \in [Runs -> Seq(Events)]
  BY SayType DEF Abandon, TypeInv, TypeOK
<1>2. settled' \in [Sessions -> SUBSET Entry]
  BY DEF Abandon, TypeInv, TypeOK
<1>3. TypeOK'
  <2>1. /\ registry' \subseteq Runs /\ permits' \in Nat
        /\ abortEv' \in [Runs -> {"absent", "clear", "set"}]
        /\ pc' \in [Runs -> Phases]
    BY DEF TypeInv, TypeOK, Phases, Abandon, Leave
  <2>2. /\ status' \in [Runs -> {"none", "running", "done", "failed", "aborted"}]
        /\ head' \in [Runs -> SUBSET Entry]
    BY DEF TypeInv, TypeOK, Abandon
  <2>3. UNCHANGED <<cycle, retries, session, blind, listening, posted, cleared, inbox>>
    BY DEF Abandon, Leave
  <2> QED
    BY <1>1, <1>2, <2>1, <2>2, <2>3 DEF TypeInv, TypeOK
<1>4. PhasesAgree'
  BY DEF TypeInv, TypeOK, PhasesAgree, Phases, Abandon, Leave
<1> QED
  BY <1>3, <1>4 DEF TypeInv

LEMMA FailType ==
  ASSUME TypeInv, NEW r \in Runs, pc[r] \in {"top", "infer", "tools"}, Fail(r)
  PROVE  TypeInv'
<1> DEFINE st == IF abortEv[r] = "set" THEN "aborted" ELSE "failed"
           tail == IF ErrorIntrospection THEN head[r] \union {Error(r)} ELSE head[r]
<1>1. st \in {"failed", "aborted"} /\ tail \in SUBSET Entry
  BY EntryTypes DEF TypeInv, TypeOK
<1>2. Abandon(r, st, tail)
  BY DEF Fail
<1> HIDE DEF st, tail
<1> QED
  BY <1>1, <1>2, AbandonType

LEMMA NextCycleType ==
  ASSUME TypeInv, NEW r \in Runs, pc[r] \in {"infer", "tools"}, NextCycle(r)
  PROVE  /\ cycle' \in [Runs -> 0..MaxCycles]
         /\ \E p \in {"top", "post"} : /\ pc' = [pc EXCEPT ![r] = p]
                                       /\ p = "top" => cycle'[r] < MaxCycles
         /\ \A q \in Runs \ {r} : cycle'[q] = cycle[q]
         /\ replies' \in [Runs -> Seq(Events)]
<1>1. cycle[r] < MaxCycles /\ cycle[r] \in 0..MaxCycles
  BY DEF TypeInv, TypeOK, PhasesAgree
<1>2. replies' \in [Runs -> Seq(Events)]
  BY SayType DEF NextCycle, TypeInv, TypeOK
<1>3. cycle' = [cycle EXCEPT ![r] = cycle[r] + 1] /\ cycle \in [Runs -> 0..MaxCycles]
  BY DEF NextCycle, TypeInv, TypeOK
<1>4. cycle' \in [Runs -> 0..MaxCycles] /\ \A q \in Runs \ {r} : cycle'[q] = cycle[q]
  BY <1>1, <1>3, ConstantsAssumption
<1>5. \/ pc' = [pc EXCEPT ![r] = "post"]
      \/ pc' = [pc EXCEPT ![r] = "top"] /\ cycle'[r] < MaxCycles
  BY <1>1, <1>3 DEF NextCycle
<1> QED
  BY <1>2, <1>4, <1>5

LEMMA RunStepType ==
  ASSUME TypeInv, NEW r \in Runs, RunStep(r)
  PROVE  TypeInv'
<1> USE EntryTypes, ConstantsAssumption
<1>1. CASE Acquire(r)
  BY <1>1 DEF Acquire, TypeInv, TypeOK, PhasesAgree, Phases, handle, conversation
<1>2. CASE LoopTop(r)
  <2>1. CASE Fail(r)
    BY <1>2, <2>1, FailType DEF LoopTop
  <2>2. CASE ~Fail(r)
    <3>1. /\ head' = [head EXCEPT ![r] = @ \union inbox[r]]
          /\ inbox' = [inbox EXCEPT ![r] = {}]
          /\ pc' = [pc EXCEPT ![r] = "infer"]
          /\ pc[r] = "top"
          /\ UNCHANGED <<cycle, retries, permits, handle, listening, replies,
                         conversation>>
      BY <1>2, <2>2 DEF LoopTop
    <3>2. head' \in [Runs -> SUBSET Entry] /\ inbox' \in [Runs -> SUBSET Entry]
      BY <3>1 DEF TypeInv, TypeOK
    <3> QED
      BY <3>1, <3>2 DEF TypeInv, TypeOK, PhasesAgree, Phases, handle, conversation
  <2> QED
    BY <2>1, <2>2
<1>3. CASE Crash(r)
  BY <1>3, AbandonType DEF Crash, TypeInv, TypeOK
<1>4. CASE InferError(r)
  BY <1>4, FailType DEF InferError
<1>5. CASE InferEmpty(r)
  <2>1. CASE Fail(r)
    BY <1>5, <2>1, FailType DEF InferEmpty
  <2>2. CASE ~Fail(r)
    <3>1. retries[r] + 1 \in 0..MaxEmptyRetries
      BY <1>5, <2>2 DEF InferEmpty, TypeInv, TypeOK
    <3>2. /\ retries' = [retries EXCEPT ![r] = @ + 1]
          /\ pc' = [pc EXCEPT ![r] = "top"]
          /\ pc[r] = "infer"
          /\ UNCHANGED <<permits, cycle, handle, inbox, head, listening,
                         replies, conversation>>
      BY <1>5, <2>2 DEF InferEmpty
    <3>3. retries' \in [Runs -> 0..MaxEmptyRetries]
      BY <3>1, <3>2 DEF TypeInv, TypeOK
    <3> QED
      BY <3>2, <3>3 DEF TypeInv, TypeOK, PhasesAgree, Phases, handle, conversation
  <2> QED
    BY <2>1, <2>2
<1>6. CASE InferTools(r)
  BY <1>6 DEF InferTools, TypeInv, TypeOK, PhasesAgree, Phases, handle, conversation
<1>7. CASE InferText(r)
  <2>1. /\ UNCHANGED <<permits, handle, listening, conversation>>
        /\ retries' \in [Runs -> 0..MaxEmptyRetries]
        /\ head' \in [Runs -> SUBSET Entry]
        /\ inbox' \in [Runs -> SUBSET Entry]
    BY <1>7 DEF InferText, TypeInv, TypeOK
  <2>2. CASE inbox[r] = {}
    <3>1. replies' \in [Runs -> Seq(Events)]
      BY <1>7, <2>2, SayType DEF InferText, TypeInv, TypeOK
    <3>2. pc' = [pc EXCEPT ![r] = "post"] /\ cycle' = cycle /\ pc[r] = "infer"
      BY <1>7, <2>2 DEF InferText
    <3> QED
      BY <2>1, <3>1, <3>2
      DEF TypeInv, TypeOK, PhasesAgree, Phases, handle, conversation
  <2>3. CASE inbox[r] # {}
    <3>1. NextCycle(r) /\ pc[r] = "infer"
      BY <1>7, <2>3 DEF InferText
    <3>2. PICK p \in {"top", "post"} : /\ pc' = [pc EXCEPT ![r] = p]
                                       /\ p = "top" => cycle'[r] < MaxCycles
      BY <3>1, NextCycleType
    <3>3. /\ cycle' \in [Runs -> 0..MaxCycles]
          /\ \A q \in Runs \ {r} : cycle'[q] = cycle[q]
          /\ replies' \in [Runs -> Seq(Events)]
      BY <3>1, NextCycleType
    <3>4. TypeOK'
      BY <2>1, <3>2, <3>3 DEF TypeInv, TypeOK, Phases, handle, conversation
    <3>5. PhasesAgree'
      BY <2>1, <3>1, <3>2, <3>3 DEF TypeInv, TypeOK, PhasesAgree, Phases, handle
    <3> QED
      BY <3>4, <3>5 DEF TypeInv
  <2> QED
    BY <2>2, <2>3
<1>8. CASE PlainTool(r)
  BY <1>8 DEF PlainTool, TypeInv, TypeOK, PhasesAgree, Phases, task, handle, conversation
<1>9. CASE EndTools(r)
  <2>1. NextCycle(r) /\ pc[r] = "tools"
    BY <1>9 DEF EndTools
  <2>2. PICK p \in {"top", "post"} : /\ pc' = [pc EXCEPT ![r] = p]
                                     /\ p = "top" => cycle'[r] < MaxCycles
    BY <2>1, NextCycleType
  <2>3. /\ cycle' \in [Runs -> 0..MaxCycles]
        /\ \A q \in Runs \ {r} : cycle'[q] = cycle[q]
        /\ replies' \in [Runs -> Seq(Events)]
    BY <2>1, NextCycleType
  <2>4. UNCHANGED <<permits, retries, handle, inbox, head, listening, conversation>>
    BY <1>9 DEF EndTools
  <2>5. TypeOK'
    BY <2>2, <2>3, <2>4 DEF TypeInv, TypeOK, Phases, handle, conversation
  <2>6. PhasesAgree'
    BY <2>1, <2>2, <2>3, <2>4 DEF TypeInv, TypeOK, PhasesAgree, Phases, handle
  <2> QED
    BY <2>5, <2>6 DEF TypeInv
<1>10. CASE FinishRun(r)
  <2>1. replies' \in [Runs -> Seq(Events)]
    BY <1>10, SayType DEF FinishRun, TypeInv, TypeOK
  <2>2. settled' \in [Sessions -> SUBSET Entry]
    BY <1>10 DEF FinishRun, TypeInv, TypeOK
  <2>3. inbox' \in [Runs -> SUBSET Entry]
    BY <1>10 DEF FinishRun, TypeInv, TypeOK
  <2>4. /\ registry' \subseteq Runs /\ permits' \in Nat
        /\ abortEv' \in [Runs -> {"absent", "clear", "set"}]
        /\ pc' \in [Runs -> Phases]
        /\ status' \in [Runs -> {"none", "running", "done", "failed", "aborted"}]
    BY <1>10 DEF TypeInv, TypeOK, Phases, FinishRun, Leave
  <2>5. UNCHANGED <<cycle, retries, session, blind, listening, posted, cleared, head>>
    BY <1>10 DEF FinishRun, Leave
  <2>6. PhasesAgree'
    BY <1>10 DEF TypeInv, TypeOK, PhasesAgree, Phases, FinishRun, Leave
  <2> QED
    BY <2>1, <2>2, <2>3, <2>4, <2>5, <2>6 DEF TypeInv, TypeOK
<1>11. CASE \E c \in Runs : SpawnFork(r, c)
  <2> PICK c \in Runs : SpawnFork(r, c)
    BY <1>11
  <2>1. c # r /\ session[r] \in Sessions
    BY DEF SpawnFork, Register, TypeInv, TypeOK, PhasesAgree
  <2>2. head' \in [Runs -> SUBSET Entry]
    <3>1. head \in [Runs -> SUBSET Entry] /\ cycle[r] \in 0..MaxCycles
      BY DEF TypeInv, TypeOK
    <3>2. User(c) \in Entry /\ Tool(r, cycle[r]) \in Entry
      BY <3>1
    <3>3. /\ head[r] \union {User(c)} \in SUBSET Entry
          /\ head[r] \union {Tool(r, cycle[r])} \in SUBSET Entry
      BY <3>1, <3>2
    <3>4. head' = [head EXCEPT ![c] = head[r] \union {User(c)}, ![r] = head[r] \union {Tool(r, cycle[r])}]
      BY <2>1 DEF SpawnFork
    <3> QED
      BY <3>1, <3>3, <3>4
  <2>3. TypeOK'
    BY <2>1, <2>2 DEF SpawnFork, Register, TypeInv, TypeOK, Phases, conversation
  <2>4. PhasesAgree'
    BY <2>1 DEF SpawnFork, Register, TypeInv, TypeOK, PhasesAgree, Phases
  <2> QED
    BY <2>3, <2>4 DEF TypeInv
<1>12. CASE \E q \in Runs : NudgeFork(r, q)
  <2> PICK q \in Runs : NudgeFork(r, q)
    BY <1>12
  <2>1. inbox' \in [Runs -> SUBSET Entry]
    BY DEF NudgeFork, TypeInv, TypeOK
  <2> QED
    BY <2>1 DEF NudgeFork, TypeInv, TypeOK, PhasesAgree, task, handle, conversation
<1> QED
  BY <1>1, <1>2, <1>3, <1>4, <1>5, <1>6, <1>7, <1>8, <1>9, <1>10, <1>11, <1>12
  DEF RunStep

LEMMA StepType == TypeInv /\ [Next]_vars => TypeInv'
<1> SUFFICES ASSUME TypeInv, [Next]_vars PROVE TypeInv'
  OBVIOUS
<1>1. CASE Arrival
  BY <1>1, ArrivalType
<1>2. CASE \E r \in Runs : RunStep(r)
  BY <1>2, RunStepType
<1>3. CASE UNCHANGED vars
  BY <1>3 DEF vars, TypeInv, TypeOK, PhasesAgree
<1> QED
  BY <1>1, <1>2, <1>3 DEF Next

(* Every variable always has its type.                                     *)
THEOREM TypeCorrect == Spec => []TypeOK
<1>1. Spec => []TypeInv
  BY InitType, StepType, PTL DEF Spec
<1> QED
  BY <1>1, PTL DEF TypeInv

-----------------------------------------------------------------------------
(* Slots and registry agree with the tasks.                                *)

ExecutingRuns == {r \in Runs : pc[r] \in {"top", "infer", "tools", "post"}}

LEMMA ExecutingFinite == TypeInv => /\ IsFiniteSet(ExecutingRuns)
                                    /\ Cardinality(ExecutingRuns) \in Nat
BY ConstantsAssumption, FS_Subset, FS_CardinalityType DEF ExecutingRuns

(* One slot is taken per run that starts executing, and one given back per *)
(* run that ends; every other step leaves both sides alone.                *)
SlotKept(r) ==
  \/ /\ pc[r] \notin Executing
     /\ ExecutingRuns' = ExecutingRuns \union {r}
     /\ permits > 0 /\ permits' = permits - 1
  \/ /\ pc[r] \in Executing
     /\ ExecutingRuns' = ExecutingRuns \ {r}
     /\ permits' = permits + 1
  \/ ExecutingRuns' = ExecutingRuns /\ permits' = permits

LEMMA SlotsStep ==
  ASSUME TypeInv, NothingLeaks, NEW r \in Runs, SlotKept(r)
  PROVE  permits' + Cardinality(ExecutingRuns') = MaxWorkers
<1>1. permits \in Nat /\ permits + Cardinality(ExecutingRuns) = MaxWorkers
  BY DEF TypeInv, TypeOK, NothingLeaks, ExecutingRuns
<1>2. IsFiniteSet(ExecutingRuns) /\ Cardinality(ExecutingRuns) \in Nat
  BY ExecutingFinite
<1>3. CASE pc[r] \notin Executing /\ ExecutingRuns' = ExecutingRuns \union {r}
           /\ permits' = permits - 1
  <2>1. r \notin ExecutingRuns
    BY <1>3 DEF ExecutingRuns
  <2>2. Cardinality(ExecutingRuns \union {r}) = Cardinality(ExecutingRuns) + 1
    BY <1>2, <2>1, FS_AddElement
  <2> QED
    BY <1>1, <1>2, <1>3, <2>2, ConstantsAssumption
<1>4. CASE pc[r] \in Executing /\ ExecutingRuns' = ExecutingRuns \ {r}
           /\ permits' = permits + 1
  <2>1. r \in ExecutingRuns
    BY <1>4 DEF ExecutingRuns
  <2>2. Cardinality(ExecutingRuns \ {r}) = Cardinality(ExecutingRuns) - 1
    BY <1>2, <2>1, FS_RemoveElement
  <2> QED
    BY <1>1, <1>2, <1>4, <2>2, ConstantsAssumption
<1> QED
  BY <1>1, <1>3, <1>4 DEF SlotKept

RegistryAgrees ==
  /\ registry = {r \in Runs : pc[r] \in Live}
  /\ \A r \in Runs : abortEv[r] = "absent" <=> r \notin registry

LEMMA LeaveKeepsAccounts ==
  ASSUME TypeInv, RegistryAgrees, NEW r \in Runs, pc[r] \in Executing, Leave(r)
  PROVE  SlotKept(r) /\ RegistryAgrees'
<1>1. RegistryAgrees'
  BY DEF RegistryAgrees, Leave, TypeInv, TypeOK, Phases
<1>2. SlotKept(r)
  BY DEF SlotKept, ExecutingRuns, Leave, TypeInv, TypeOK
<1> QED
  BY <1>1, <1>2

(* A task that moves on without ending keeps its slot and its entries.     *)
LEMMA MovingKeepsAccounts ==
  ASSUME TypeInv, RegistryAgrees, NEW r \in Runs, pc[r] \in Executing,
         NEW p \in Executing, pc' = [pc EXCEPT ![r] = p],
         UNCHANGED <<permits, registry, abortEv>>
  PROVE  SlotKept(r) /\ RegistryAgrees'
<1>1. RegistryAgrees'
  BY DEF RegistryAgrees, TypeInv, TypeOK
<1>2. SlotKept(r)
  BY DEF SlotKept, ExecutingRuns, TypeInv, TypeOK
<1> QED
  BY <1>1, <1>2

SlotsKept == \/ permits' = permits /\ ExecutingRuns' = ExecutingRuns
             \/ \E r \in Runs : SlotKept(r)

LEMMA StepKeepsAccounts ==
  ASSUME TypeInv, RegistryAgrees, [Next]_vars
  PROVE  RegistryAgrees' /\ SlotsKept
<1>1. CASE \E s \in Sessions, r \in Runs : PushTrigger(s, r)
  BY <1>1 DEF PushTrigger, Register, RegistryAgrees, SlotsKept, ExecutingRuns, TypeInv, TypeOK
<1>2. CASE \E s \in Sessions, m \in Passives : PushPassive(s, m)
  BY <1>2 DEF PushPassive, task, handle, RegistryAgrees, SlotsKept, ExecutingRuns
<1>3. CASE \E s \in Sessions : Reset(s)
  BY <1>3 DEF Reset, task, handle, RegistryAgrees, SlotsKept, ExecutingRuns
<1>4. CASE \E r \in Runs : Abort(r)
  BY <1>4 DEF Abort, task, RegistryAgrees, SlotsKept, ExecutingRuns, TypeInv, TypeOK
<1>5. CASE \E r \in Runs : RunStep(r)
  <2> PICK r \in Runs : RunStep(r)
    BY <1>5
  <2>1. CASE Acquire(r)
    <3>1. RegistryAgrees'
      BY <2>1 DEF Acquire, handle, RegistryAgrees, TypeInv, TypeOK
    <3>2. ExecutingRuns' = ExecutingRuns \union {r}
      BY <2>1 DEF Acquire, ExecutingRuns, TypeInv, TypeOK
    <3> QED
      BY <2>1, <3>1, <3>2 DEF Acquire, SlotKept, SlotsKept
  <2>2. CASE pc[r] \in Executing /\ Leave(r)
    BY <2>2, LeaveKeepsAccounts DEF SlotsKept
  <2>3. CASE /\ pc[r] \in Executing
             /\ \E p \in Executing : pc' = [pc EXCEPT ![r] = p]
             /\ UNCHANGED <<permits, registry, abortEv>>
    BY <2>3, MovingKeepsAccounts DEF SlotsKept
  <2>4. CASE \E c \in Runs : SpawnFork(r, c)
    BY <2>4 DEF SpawnFork, Register, RegistryAgrees, SlotsKept, ExecutingRuns, TypeInv, TypeOK
  <2>5. CASE UNCHANGED <<permits, registry, abortEv, pc>>
    BY <2>5 DEF RegistryAgrees, SlotsKept, ExecutingRuns
  <2>6. ASSUME Fail(r) PROVE Leave(r)
    BY <2>6 DEF Fail, Abandon
  <2>7. CASE LoopTop(r) \/ Crash(r) \/ InferError(r) \/ InferEmpty(r)
    BY <2>2, <2>3, <2>6, <2>7
    DEF LoopTop, Crash, Abandon, InferError, InferEmpty, handle
  <2>8. CASE InferTools(r) \/ InferText(r) \/ EndTools(r)
    BY <2>3, <2>8 DEF InferTools, InferText, EndTools, NextCycle, handle
  <2>9. CASE PlainTool(r) \/ \E q \in Runs : NudgeFork(r, q)
    BY <2>5, <2>9 DEF PlainTool, NudgeFork, task, handle
  <2>10. CASE FinishRun(r)
    BY <2>2, <2>10 DEF FinishRun
  <2> QED
    BY <2>1, <2>4, <2>7, <2>8, <2>9, <2>10 DEF RunStep
<1>6. CASE UNCHANGED vars
  BY <1>6 DEF vars, RegistryAgrees, SlotsKept, ExecutingRuns
<1> QED
  BY <1>1, <1>2, <1>3, <1>4, <1>5, <1>6 DEF Next, Arrival

LEMMA InitAccounts == Init => NothingLeaks
<1> SUFFICES ASSUME Init PROVE NothingLeaks
  OBVIOUS
<1>1. {r \in Runs : pc[r] \in Executing} = {} /\ {r \in Runs : pc[r] \in Live} = {}
  BY DEF Init
<1>2. Cardinality({r \in Runs : pc[r] \in Executing}) = 0
  BY <1>1, FS_EmptySet
<1> QED
  BY <1>1, <1>2, ConstantsAssumption DEF Init, NothingLeaks

LEMMA StepAccounts == TypeInv /\ NothingLeaks /\ [Next]_vars => NothingLeaks'
<1> SUFFICES ASSUME TypeInv, NothingLeaks, [Next]_vars PROVE NothingLeaks'
  OBVIOUS
<1>1. RegistryAgrees
  BY DEF NothingLeaks, RegistryAgrees
<1>2. RegistryAgrees' /\ SlotsKept
  BY <1>1, StepKeepsAccounts
<1>3. permits' + Cardinality(ExecutingRuns') = MaxWorkers
  <2>1. CASE permits' = permits /\ ExecutingRuns' = ExecutingRuns
    <3>1. permits + Cardinality(ExecutingRuns) = MaxWorkers
      BY DEF NothingLeaks, ExecutingRuns
    <3> QED
      BY <2>1, <3>1
  <2>2. CASE \E r \in Runs : SlotKept(r)
    BY <2>2, SlotsStep
  <2> QED
    BY <1>2, <2>1, <2>2 DEF SlotsKept
<1> QED
  BY <1>2, <1>3 DEF NothingLeaks, RegistryAgrees, ExecutingRuns

(* However runs end, slots, registry and abort events always agree with    *)
(* the tasks that exist; in particular at most MaxWorkers execute.         *)
THEOREM NothingLeaksEver == Spec => []NothingLeaks
<1>1. Spec => [](TypeInv /\ NothingLeaks)
  BY InitType, StepType, InitAccounts, StepAccounts, PTL DEF Spec
<1> QED
  BY <1>1, PTL

-----------------------------------------------------------------------------
(* No completed work is lost but by the two known ways.                    *)

ForkInv == TypeInv /\ RegistryAgrees /\ CompletedWorkAccountedFor

(* What is once forgotten stays so: ended runs and their inboxes are fixed *)
(* and a fork's history is written once.                                   *)
LEMMA ForgottenGrows ==
  ASSUME \A r \in Runs : pc[r] = "over" => pc'[r] = "over" /\ inbox[r] \subseteq inbox'[r],
         \A r \in Runs : blind[r] \subseteq blind'[r]
  PROVE  Forgotten \subseteq Forgotten'
BY DEF Forgotten, DiedUnread

(* Steps that complete no run, start none and end none, and on which       *)
(* branches, inboxes and tails only grow: an entry may move from the inbox *)
(* to the branch.                                                          *)
Growing ==
  /\ UNCHANGED <<session, status, cleared, blind, registry>>
  /\ \A s \in Sessions : settled[s] \subseteq settled'[s]
  /\ \A r \in Runs : IF pc[r] \in Live
                    THEN /\ pc'[r] \in Live
                         /\ head[r] \subseteq head'[r]
                         /\ inbox[r] \subseteq inbox'[r] \union head'[r]
                    ELSE /\ pc'[r] = pc[r] /\ head'[r] = head[r]
                         /\ inbox[r] \subseteq inbox'[r]

LEMMA GrowingAccounted == ForkInv /\ Growing => CompletedWorkAccountedFor'
<1> SUFFICES ASSUME ForkInv, Growing PROVE CompletedWorkAccountedFor'
  OBVIOUS
<1>1. Forgotten \subseteq Forgotten'
  BY ForgottenGrows DEF Growing
<1>2. Outcomes' = Outcomes /\ \A f \in Outcomes : head'[f] = head[f] /\ session[f] \in Sessions
  BY DEF Growing, Outcomes, ForkInv, TypeInv, TypeOK, PhasesAgree
<1>3. TrunkKnows'
  BY <1>1, <1>2 DEF TrunkKnows, Knows, Growing, ForkInv, CompletedWorkAccountedFor
<1>4. LiveRunsKnow'
  BY <1>1, <1>2
  DEF LiveRunsKnow, Knows, Growing, ForkInv, CompletedWorkAccountedFor, RegistryAgrees
<1> QED
  BY <1>3, <1>4 DEF CompletedWorkAccountedFor

(* A run that ends puts the session on its own branch.  Whatever it knew,  *)
(* the tail knows; whatever it had not drained is forgotten.               *)
Ending(r, tail) ==
  /\ pc[r] \in Executing /\ pc' = [pc EXCEPT ![r] = "over"]
  /\ head[r] \subseteq tail
  /\ head' = [head EXCEPT ![r] = tail]
  /\ settled' = [settled EXCEPT ![session[r]] = tail]
  /\ registry' = registry \ {r}
  /\ UNCHANGED <<session, blind, cleared>>

LEMMA EndingAccounted ==
  ASSUME ForkInv, NEW r \in Runs, NEW tail, Ending(r, tail),
         NEW st \in {"done", "failed", "aborted"}, status' = [status EXCEPT ![r] = st],
         \A q \in Runs : inbox[q] \subseteq inbox'[q],
         st = "done" => \A q \in registry \ {r} :
                          session[q] = session[r] => Digest(r) \in inbox'[q]
  PROVE  CompletedWorkAccountedFor'
<1>1. Forgotten \subseteq Forgotten'
  BY ForgottenGrows DEF Ending, ForkInv, TypeInv, TypeOK
<1>2. /\ r \in registry /\ status[r] = "running" /\ session[r] \in Sessions
      /\ pc'[r] = "over" /\ head'[r] = tail /\ settled'[session[r]] = tail
  BY DEF Ending, ForkInv, TypeInv, TypeOK, PhasesAgree, RegistryAgrees
<1>3. \A f \in Outcomes' : f = r \/ (f # r /\ f \in Outcomes /\ head'[f] = head[f])
  BY DEF Outcomes, Ending, ForkInv, TypeInv, TypeOK
<1>4. ASSUME NEW f \in (Outcomes \ Forgotten)'
      PROVE  (Knows(settled[session[f]], f))'
  <2>1. CASE f = r
    BY <1>2, <2>1 DEF Knows, Ending
  <2>2. CASE f # r /\ session[f] = session[r]
    <3>1. f \in Outcomes \ Forgotten /\ head'[f] = head[f]
      BY <1>1, <1>3, <1>4, <2>2
    <3>2. Digest(f) \in inbox[r] => f \in Forgotten'
      BY <1>2, <3>1 DEF Forgotten, DiedUnread, Outcomes
    <3>3. Knows(head[r], f)
      BY <1>2, <2>2, <3>1, <3>2, <1>4
      DEF ForkInv, CompletedWorkAccountedFor, LiveRunsKnow
    <3> QED
      BY <1>2, <2>2, <3>1, <3>3 DEF Knows, Ending
  <2>3. CASE f # r /\ session[f] # session[r]
    <3>1. f \in Outcomes \ Forgotten /\ head'[f] = head[f]
      BY <1>1, <1>3, <1>4, <2>3
    <3>2. Knows(settled[session[f]], f) /\ session[f] \in Sessions
      BY <3>1 DEF ForkInv, CompletedWorkAccountedFor, TrunkKnows, Outcomes,
                  TypeInv, TypeOK, PhasesAgree
    <3> QED
      BY <2>3, <3>1, <3>2 DEF Knows, Ending, ForkInv, TypeInv, TypeOK
  <2> QED
    BY <2>1, <2>2, <2>3
<1>5. ASSUME NEW f \in (Outcomes \ Forgotten)', NEW q \in registry',
             session'[q] = session'[f]
      PROVE  (Knows(head[q], f))' \/ Digest(f) \in inbox'[q]
  <2>1. q \in registry \ {r} /\ q \in Runs /\ head'[q] = head[q] /\ session[q] = session[f]
    BY <1>5 DEF Ending, ForkInv, TypeInv, TypeOK
  <2>2. CASE f = r
    <3>1. st = "done"
      BY <1>5, <2>2 DEF Outcomes, ForkInv, TypeInv, TypeOK
    <3> QED
      BY <2>1, <2>2, <3>1
  <2>3. CASE f # r
    <3>1. f \in Outcomes \ Forgotten /\ head'[f] = head[f]
      BY <1>1, <1>3, <1>5, <2>3
    <3>2. Knows(head[q], f) \/ Digest(f) \in inbox[q]
      BY <2>1, <3>1 DEF ForkInv, CompletedWorkAccountedFor, LiveRunsKnow
    <3> QED
      BY <2>1, <3>1, <3>2 DEF Knows
  <2> QED
    BY <2>2, <2>3
<1>6. TrunkKnows'
  BY <1>4 DEF TrunkKnows
<1>7. LiveRunsKnow'
  BY <1>5 DEF LiveRunsKnow
<1> QED
  BY <1>6, <1>7 DEF CompletedWorkAccountedFor

(* A new run knows what the node it is rooted on knows.                    *)
Starting(r, s) ==
  /\ pc[r] = "unused" /\ pc' = [pc EXCEPT ![r] = "queued"]
  /\ session' = [session EXCEPT ![r] = s]
  /\ status' = [status EXCEPT ![r] = "running"]
  /\ registry' = registry \union {r}
  /\ UNCHANGED <<settled, inbox, cleared>>
  /\ \A q \in Runs : blind[q] \subseteq blind'[q]
  /\ \A q \in Runs \ {r} : head[q] \subseteq head'[q]
  /\ \A q \in Runs \ {r} : pc[q] = "over" => head'[q] = head[q]
  /\ \A f \in Outcomes \ Forgotten : session[f] = s =>
       Digest(f) \in head'[r] \/ head[f] \subseteq head'[r] \/ f \in blind'[r]

LEMMA StartingAccounted ==
  ASSUME ForkInv, NEW r \in Runs, NEW s \in Sessions, Starting(r, s)
  PROVE  CompletedWorkAccountedFor'
<1> USE DEF Starting
<1>1. Forgotten \subseteq Forgotten'
  BY ForgottenGrows DEF ForkInv, TypeInv, TypeOK
<1>2. Outcomes' = Outcomes /\ r \notin Outcomes
  BY DEF Outcomes, ForkInv, TypeInv, TypeOK, PhasesAgree
<1>3. \A f \in Outcomes : f # r /\ head'[f] = head[f] /\ session'[f] = session[f]
  BY <1>2 DEF Outcomes, ForkInv, TypeInv, TypeOK, PhasesAgree, Phases
<1>4. TrunkKnows'
  BY <1>1, <1>2, <1>3 DEF TrunkKnows, Knows, ForkInv, CompletedWorkAccountedFor
<1>5. LiveRunsKnow'
  <2> SUFFICES ASSUME NEW f \in (Outcomes \ Forgotten)', NEW q \in registry',
                      session'[q] = session'[f]
               PROVE  (Knows(head[q], f))' \/ Digest(f) \in inbox'[q]
    BY DEF LiveRunsKnow
  <2>1. f \in Outcomes \ Forgotten /\ head'[f] = head[f] /\ session'[f] = session[f]
    BY <1>1, <1>2, <1>3
  <2>2. CASE q = r
    <3>1. f \notin blind'[r]
      BY <2>1 DEF Forgotten, Outcomes
    <3>2. session'[r] = s
      BY DEF ForkInv, TypeInv, TypeOK
    <3> QED
      BY <2>1, <2>2, <3>1, <3>2 DEF Knows
  <2>3. CASE q # r
    <3>1. q \in registry /\ q \in Runs /\ session'[q] = session[q] /\ head[q] \subseteq head'[q]
      BY <2>3 DEF ForkInv, TypeInv, TypeOK
    <3> QED
      BY <2>1, <3>1 DEF Knows, ForkInv, CompletedWorkAccountedFor, LiveRunsKnow
  <2> QED
    BY <2>2, <2>3
<1> QED
  BY <1>4, <1>5 DEF CompletedWorkAccountedFor

LEMMA ArrivalAccounted == ForkInv /\ Arrival => CompletedWorkAccountedFor'
<1> SUFFICES ASSUME ForkInv, Arrival PROVE CompletedWorkAccountedFor'
  OBVIOUS
<1>1. CASE \E s \in Sessions, r \in Runs : PushTrigger(s, r)
  <2> PICK s \in Sessions, r \in Runs : PushTrigger(s, r)
    BY <1>1
  <2>1. head' = [head EXCEPT ![r] = settled[s] \union {User(r)}] /\ UNCHANGED <<inbox, blind>>
    BY DEF PushTrigger
  <2>2. /\ pc[r] = "unused" /\ pc' = [pc EXCEPT ![r] = "queued"]
        /\ session' = [session EXCEPT ![r] = s]
        /\ status' = [status EXCEPT ![r] = "running"]
        /\ registry' = registry \union {r}
        /\ UNCHANGED <<settled, inbox, cleared>>
    BY DEF PushTrigger, Register, conversation
  <2>3. head'[r] = settled[s] \union {User(r)} /\ \A q \in Runs \ {r} : head'[q] = head[q]
    BY <2>1 DEF ForkInv, TypeInv, TypeOK
  <2>4. \A f \in Outcomes \ Forgotten : session[f] = s =>
          Digest(f) \in head'[r] \/ head[f] \subseteq head'[r] \/ f \in blind'[r]
    BY <2>3 DEF ForkInv, CompletedWorkAccountedFor, TrunkKnows, Knows
  <2>5. /\ \A q \in Runs : blind[q] \subseteq blind'[q]
        /\ \A q \in Runs \ {r} : head[q] \subseteq head'[q]
        /\ \A q \in Runs \ {r} : pc[q] = "over" => head'[q] = head[q]
    BY <2>1, <2>3
  <2>6. Starting(r, s)
    BY <2>1, <2>2, <2>4, <2>5 DEF Starting
  <2> QED
    BY <2>6, StartingAccounted
<1>2. CASE \E s \in Sessions, m \in Passives : PushPassive(s, m)
  <2>1. Growing
    BY <1>2 DEF PushPassive, Growing, task, handle, ForkInv, TypeInv, TypeOK
  <2> QED
    BY <2>1, GrowingAccounted
<1>3. CASE \E s \in Sessions : Reset(s)
  <2> PICK s \in Sessions : Reset(s)
    BY <1>3
  <2>1. /\ settled' = [settled EXCEPT ![s] = {}]
        /\ cleared' = cleared \union {r \in Runs : session[r] = s}
        /\ UNCHANGED <<registry, session, status, blind, inbox, head, pc>>
    BY DEF Reset, task, handle
  <2>2. Outcomes' \subseteq {f \in Outcomes : session[f] # s} /\ Forgotten' = Forgotten
    BY <2>1 DEF Outcomes, Forgotten, DiedUnread, ForkInv, TypeInv, TypeOK
  <2>3. \A f \in Outcomes' : settled'[session[f]] = settled[session[f]]
    BY <2>1, <2>2 DEF Outcomes, ForkInv, TypeInv, TypeOK, PhasesAgree
  <2>4. TrunkKnows'
    BY <2>1, <2>2, <2>3 DEF TrunkKnows, Knows, ForkInv, CompletedWorkAccountedFor
  <2>5. LiveRunsKnow'
    BY <2>1, <2>2 DEF LiveRunsKnow, Knows, ForkInv, CompletedWorkAccountedFor
  <2> QED
    BY <2>4, <2>5 DEF CompletedWorkAccountedFor
<1>4. CASE \E r \in Runs : Abort(r)
  <2>1. Growing
    BY <1>4 DEF Abort, Growing, task, conversation, ForkInv, TypeInv, TypeOK
  <2> QED
    BY <2>1, GrowingAccounted
<1> QED
  BY <1>1, <1>2, <1>3, <1>4 DEF Arrival

LEMMA FailAccounted ==
  ASSUME ForkInv, NEW r \in Runs, pc[r] \in Executing, Fail(r) \/ Crash(r)
  PROVE  CompletedWorkAccountedFor'
<1>1. PICK st \in {"failed", "aborted"}, tail \in {head[r], head[r] \union {Error(r)}} :
        Abandon(r, st, tail)
  BY DEF Fail, Crash
<1>2. /\ Ending(r, tail)
      /\ status' = [status EXCEPT ![r] = st]
      /\ inbox' = inbox
  BY <1>1 DEF Abandon, Leave, Ending
<1> QED
  BY <1>2, EndingAccounted

LEMMA FinishAccounted ==
  ASSUME ForkInv, NEW r \in Runs, FinishRun(r)
  PROVE  CompletedWorkAccountedFor'
<1>1. Ending(r, head[r]) /\ status' = [status EXCEPT ![r] = "done"]
  BY DEF FinishRun, Leave, Ending, ForkInv, TypeInv, TypeOK
<1>2. \A q \in Runs : inbox[q] \subseteq inbox'[q]
  BY DEF FinishRun
<1>3. \A q \in registry \ {r} : session[q] = session[r] => Digest(r) \in inbox'[q]
  <2>1. \A q \in registry \ {r} : q \in Runs /\ status[q] = "running"
    BY DEF ForkInv, RegistryAgrees, TypeInv, PhasesAgree
  <2>2. \A q \in registry \ {r} : session[q] = session[r] => q \in Peers(r)
    BY <2>1 DEF Peers
  <2> QED
    BY <2>1, <2>2 DEF FinishRun
<1> QED
  BY <1>1, <1>2, <1>3, EndingAccounted

LEMMA RunStepAccounted ==
  ASSUME ForkInv, NEW r \in Runs, RunStep(r)
  PROVE  CompletedWorkAccountedFor'
<1> USE DEF ForkInv, TypeInv, TypeOK
<1>1. CASE Acquire(r)
  <2>1. Growing
    BY <1>1 DEF Acquire, Growing, handle, conversation
  <2> QED
    BY <2>1, GrowingAccounted
<1>2. CASE LoopTop(r) /\ ~Fail(r)
  <2>1. Growing
    BY <1>2 DEF LoopTop, Growing, handle, conversation
  <2> QED
    BY <2>1, GrowingAccounted
<1>3. CASE Crash(r) \/ (Fail(r) /\ pc[r] \in Executing)
  BY <1>3, FailAccounted DEF Crash
<1>4. CASE InferError(r) \/ (LoopTop(r) /\ Fail(r)) \/ (InferEmpty(r) /\ Fail(r))
  BY <1>3, <1>4 DEF InferError, LoopTop, InferEmpty
<1>5. CASE InferEmpty(r) /\ ~Fail(r)
  <2>1. Growing
    BY <1>5 DEF InferEmpty, Growing, handle, conversation
  <2> QED
    BY <2>1, GrowingAccounted
<1>6. CASE InferTools(r)
  <2>1. Growing
    BY <1>6 DEF InferTools, Growing, handle, conversation
  <2> QED
    BY <2>1, GrowingAccounted
<1>7. CASE InferText(r)
  <2>1. pc[r] = "infer" /\ \E p \in {"top", "post"} : pc' = [pc EXCEPT ![r] = p]
    BY <1>7 DEF InferText, NextCycle
  <2>2. Growing
    BY <1>7, <2>1 DEF InferText, Growing, handle, conversation
  <2> QED
    BY <2>2, GrowingAccounted
<1>8. CASE PlainTool(r)
  <2>1. Growing
    BY <1>8 DEF PlainTool, Growing, task, handle, conversation
  <2> QED
    BY <2>1, GrowingAccounted
<1>9. CASE EndTools(r)
  <2>1. pc[r] = "tools" /\ \E p \in {"top", "post"} : pc' = [pc EXCEPT ![r] = p]
    BY <1>9 DEF EndTools, NextCycle
  <2>2. Growing
    BY <1>9, <2>1 DEF EndTools, Growing, handle, conversation
  <2> QED
    BY <2>2, GrowingAccounted
<1>10. CASE FinishRun(r)
  BY <1>10, FinishAccounted
<1>11. CASE \E c \in Runs : SpawnFork(r, c)
  <2> PICK c \in Runs : SpawnFork(r, c)
    BY <1>11
  <2>1. /\ pc[c] = "unused" /\ pc[r] = "tools" /\ c # r
        /\ session[r] \in Sessions /\ r \in registry
    BY DEF SpawnFork, Register, PhasesAgree, RegistryAgrees
  <2>2. /\ pc' = [pc EXCEPT ![c] = "queued"]
        /\ session' = [session EXCEPT ![c] = session[r]]
        /\ status' = [status EXCEPT ![c] = "running"]
        /\ registry' = registry \union {c}
        /\ UNCHANGED <<settled, inbox, cleared>>
    BY DEF SpawnFork, Register, conversation
  <2>3. /\ head'[c] = head[r] \union {User(c)}
        /\ \A q \in Runs \ {c} : head[q] \subseteq head'[q]
        /\ \A q \in Runs \ {c} : pc[q] = "over" => head'[q] = head[q]
    BY <2>1 DEF SpawnFork
  <2>4. /\ \A q \in Runs : blind[q] \subseteq blind'[q]
        /\ blind'[c] = {f \in Runs : Digest(f) \in inbox[r]}
    BY <2>1 DEF SpawnFork, PhasesAgree
  <2>5. \A f \in Outcomes \ Forgotten : session[f] = session[r] =>
          Digest(f) \in head'[c] \/ head[f] \subseteq head'[c] \/ f \in blind'[c]
    BY <2>1, <2>3, <2>4
    DEF CompletedWorkAccountedFor, LiveRunsKnow, Knows, Outcomes
  <2> HIDE DEF ForkInv, TypeInv, TypeOK
  <2>6. Starting(c, session[r])
    BY <2>1, <2>2, <2>3, <2>4, <2>5 DEF Starting
  <2> QED
    BY <2>1, <2>6, StartingAccounted
<1>12. CASE \E q \in Runs : NudgeFork(r, q)
  <2>1. Growing
    BY <1>12 DEF NudgeFork, Growing, task, handle, conversation
  <2> QED
    BY <2>1, GrowingAccounted
<1> QED
  BY <1>1, <1>2, <1>3, <1>4, <1>5, <1>6, <1>7, <1>8, <1>9, <1>10, <1>11, <1>12
  DEF RunStep

(* The start/finish race and the drains lose no completed work, whatever   *)
(* the interleaving: every completed outcome is on the settled tail and on *)
(* the branch or in the inbox of every live run of its session, unless a   *)
(* run ended, or started a fork, with the digest undrained.                *)
THEOREM CompletedWorkSafe == Spec => []CompletedWorkAccountedFor
<1>1. Init => ForkInv
  <2> SUFFICES ASSUME Init PROVE ForkInv
    OBVIOUS
  <2>1. TypeInv /\ RegistryAgrees
    BY InitType, InitAccounts DEF NothingLeaks, RegistryAgrees
  <2>2. Outcomes = {}
    BY DEF Init, Outcomes
  <2> QED
    BY <2>1, <2>2 DEF ForkInv, CompletedWorkAccountedFor, TrunkKnows, LiveRunsKnow
<1>2. ForkInv /\ [Next]_vars => ForkInv'
  <2> SUFFICES ASSUME ForkInv, [Next]_vars PROVE ForkInv'
    OBVIOUS
  <2>1. TypeInv' /\ RegistryAgrees'
    BY StepType, StepKeepsAccounts DEF ForkInv
  <2>2. CompletedWorkAccountedFor'
    <3>1. CASE Arrival
      BY <3>1, ArrivalAccounted
    <3>2. CASE \E r \in Runs : RunStep(r)
      BY <3>2, RunStepAccounted
    <3>3. CASE UNCHANGED vars
      <4>1. Growing
        BY <3>3 DEF vars, Growing
      <4> QED
        BY <4>1, GrowingAccounted
    <3> QED
      BY <3>1, <3>2, <3>3 DEF Next
  <2> QED
    BY <2>1, <2>2 DEF ForkInv
<1>3. ForkInv => CompletedWorkAccountedFor
  BY DEF ForkInv
<1> QED
  BY <1>1, <1>2, <1>3, PTL DEF Spec

HIDE DEF Live, Executing

-----------------------------------------------------------------------------
(* Isolation.  SessionsIsolated alone is not inductive: a run that does    *)
(* not exist yet has no session, so an entry in its inbox would belong to  *)
(* whichever session it is pushed to.  Untouched says there is none.       *)

Untouched == \A r \in Runs : pc[r] = "unused" => head[r] = {} /\ inbox[r] = {}
IsolationInv == TypeInv /\ SessionsIsolated /\ Untouched

(* Who writes an entry is in the entry, so a step settles its Origin'.     *)
OriginNext(e) == IF e[2] \in Runs THEN session'[e[2]] ELSE posted'[e[2]]

LEMMA Origins ==
  /\ \A r \in Runs : \A n :
       /\ OriginNext(User(r)) = session'[r] /\ OriginNext(Error(r)) = session'[r]
       /\ OriginNext(Digest(r)) = session'[r] /\ OriginNext(Nudge(r)) = session'[r]
       /\ OriginNext(Assistant(r, n)) = session'[r] /\ OriginNext(Tool(r, n)) = session'[r]
  /\ \A m \in Passives : OriginNext(Passive(m)) = posted'[m]
BY ConstantsAssumption
   DEF OriginNext, User, Error, Digest, Nudge, Assistant, Tool, Passive

(* A run keeps the session it was given, a message the one it was posted to. *)
Settles ==
  /\ \A r \in Runs : session[r] # NoSession => session'[r] = session[r]
  /\ \A m \in Passives : posted[m] # NoSession => posted'[m] = posted[m]

LEMMA StepSettles == TypeInv /\ [Next]_vars => Settles
<1> SUFFICES ASSUME TypeInv, [Next]_vars PROVE Settles
  OBVIOUS
<1> USE DEF Settles, TypeInv, TypeOK, PhasesAgree
<1>1. CASE \E s \in Sessions, r \in Runs : PushTrigger(s, r)
  BY <1>1 DEF PushTrigger, Register, conversation
<1>2. CASE \E s \in Sessions, m \in Passives : PushPassive(s, m)
  BY <1>2 DEF PushPassive, handle
<1>3. CASE (\E s \in Sessions : Reset(s)) \/ \E r \in Runs : Abort(r)
  BY <1>3 DEF Reset, Abort, handle, conversation
<1>4. ASSUME NEW r \in Runs, \E c \in Runs : SpawnFork(r, c) PROVE Settles
  BY <1>4 DEF SpawnFork, Register, conversation
<1>5. ASSUME NEW r \in Runs, Leave(r) PROVE Settles
  BY <1>5 DEF Leave
<1>6. ASSUME NEW r \in Runs, RunStep(r) PROVE Settles
  BY <1>4, <1>5, <1>6
  DEF RunStep, Acquire, LoopTop, Crash, InferError, InferEmpty, InferTools, InferText,
      PlainTool, EndTools, FinishRun, NudgeFork, Fail, Abandon, handle, conversation
<1>7. CASE UNCHANGED vars
  BY <1>7 DEF vars
<1> QED
  BY <1>1, <1>2, <1>3, <1>6, <1>7 DEF Next, Arrival

(* What a step may write where: entries of the same session, taken from    *)
(* where they were or written by one of its runs or messages.              *)
Scoped ==
  /\ \A s \in Sessions : \A e \in settled'[s] :
       \/ e \in settled[s] \/ OriginNext(e) = s
       \/ \E r \in Runs : session[r] = s /\ e \in head[r]
  /\ \A r \in Runs : \A e \in head'[r] \union inbox'[r] :
       \/ e \in head[r] \union inbox[r] \/ OriginNext(e) = session'[r]
       \/ session'[r] \in Sessions /\ e \in settled[session'[r]]
       \/ \E q \in Runs : /\ session[q] = session'[r] /\ session[q] \in Sessions
                          /\ e \in head[q]

LEMMA ScopedIsolated ==
  ASSUME IsolationInv, Settles, Scoped
  PROVE  SessionsIsolated'
<1>1. \A e : Origin(e) \in Sessions /\ e[2] \in Runs \union Passives => OriginNext(e) = Origin(e)
  BY ConstantsAssumption DEF Settles, Origin, OriginNext
<1>2. \A s \in Sessions : \A e \in settled[s] : OriginNext(e) = s
  <2> TAKE s \in Sessions
  <2> TAKE e \in settled[s]
  <2>1. e[2] \in Runs \union Passives /\ Origin(e) = s
    BY DEF IsolationInv, SessionsIsolated, TypeInv, TypeOK, Entry
  <2> QED
    BY <1>1, <2>1
<1>3. \A r \in Runs : \A e \in head[r] \union inbox[r] :
        session[r] \in Sessions /\ OriginNext(e) = session[r] /\ session'[r] = session[r]
  <2> TAKE r \in Runs
  <2> TAKE e \in head[r] \union inbox[r]
  <2>1. e[2] \in Runs \union Passives /\ Origin(e) = session[r]
    BY DEF IsolationInv, SessionsIsolated, TypeInv, TypeOK, Entry
  <2>2. session[r] \in Sessions
    BY DEF IsolationInv, Untouched, TypeInv, TypeOK, PhasesAgree
  <2> QED
    BY <1>1, <2>1, <2>2, ConstantsAssumption DEF Settles
<1>4. \A s \in Sessions : \A e \in settled'[s] : OriginNext(e) = s
  BY <1>2, <1>3 DEF Scoped
<1>5. \A r \in Runs : \A e \in head'[r] \union inbox'[r] : OriginNext(e) = session'[r]
  BY <1>2, <1>3 DEF Scoped
<1>6. (\A s \in Sessions : \A e \in settled[s] : Origin(e) = s)'
  BY <1>4 DEF Origin, OriginNext
<1>7. (\A r \in Runs : \A e \in head[r] \union inbox[r] : Origin(e) = session[r])'
  BY <1>5 DEF Origin, OriginNext
<1> QED
  BY <1>6, <1>7 DEF SessionsIsolated

(* Most steps write entries of one run, or move its inbox to its branch.   *)
LEMMA OwnEntries ==
  ASSUME NEW r \in Runs, UNCHANGED <<session, settled>>,
         \A q \in Runs : \A e \in head'[q] \union inbox'[q] :
           e \in head[q] \union inbox[q] \/ OriginNext(e) = session[q]
  PROVE  Scoped
BY DEF Scoped

(* A run that ends hands its own branch to its session.                    *)
LEMMA AbandonScoped ==
  ASSUME IsolationInv, NEW r \in Runs, session[r] \in Sessions, NEW st, NEW tail,
         \A e \in tail : e \in head[r] \/ e = Error(r), Abandon(r, st, tail)
  PROVE  Scoped
<1>1. session' = session /\ inbox' = inbox
  BY DEF Abandon, Leave
<1>2. OriginNext(Error(r)) = session[r]
  BY <1>1, Origins
<1>3. \A s \in Sessions : \A e \in settled'[s] :
        \/ e \in settled[s] \/ OriginNext(e) = s
        \/ session[r] = s /\ e \in head[r]
  BY <1>2 DEF Abandon, IsolationInv, TypeInv, TypeOK
<1>4. \A q \in Runs : \A e \in head'[q] \union inbox'[q] :
        e \in head[q] \union inbox[q] \/ OriginNext(e) = session'[q]
  BY <1>1, <1>2 DEF Abandon, IsolationInv, TypeInv, TypeOK
<1> QED
  BY <1>3, <1>4 DEF Scoped

LEMMA FailScoped ==
  ASSUME IsolationInv, NEW r \in Runs, session[r] \in Sessions, Fail(r)
  PROVE  Scoped
<1> DEFINE st == IF abortEv[r] = "set" THEN "aborted" ELSE "failed"
           tail == IF ErrorIntrospection THEN head[r] \union {Error(r)} ELSE head[r]
<1>1. Abandon(r, st, tail)
  BY DEF Fail
<1>2. \A e \in tail : e \in head[r] \/ e = Error(r)
  OBVIOUS
<1> HIDE DEF st, tail
<1> QED
  BY <1>1, <1>2, AbandonScoped

LEMMA ArrivalScoped == IsolationInv /\ Arrival => Scoped
<1> SUFFICES ASSUME IsolationInv, Arrival PROVE Scoped
  OBVIOUS
<1>1. CASE \E s \in Sessions, r \in Runs : PushTrigger(s, r)
  <2> PICK s \in Sessions, r \in Runs : PushTrigger(s, r)
    BY <1>1
  <2>1. /\ session'[r] = s /\ OriginNext(User(r)) = s /\ settled' = settled /\ inbox' = inbox
        /\ head' = [head EXCEPT ![r] = settled[s] \union {User(r)}]
    BY Origins DEF PushTrigger, Register, conversation, IsolationInv, TypeInv, TypeOK
  <2> QED
    BY <2>1 DEF Scoped, IsolationInv, TypeInv, TypeOK
<1>2. CASE \E s \in Sessions, m \in Passives : PushPassive(s, m)
  <2> PICK s \in Sessions, m \in Passives : PushPassive(s, m)
    BY <1>2
  <2>1. /\ OriginNext(Passive(m)) = s /\ UNCHANGED <<session, head, inbox>>
        /\ settled' = [settled EXCEPT ![s] = @ \union {Passive(m)}]
    BY Origins DEF PushPassive, handle, IsolationInv, TypeInv, TypeOK
  <2> QED
    BY <2>1 DEF Scoped, IsolationInv, TypeInv, TypeOK
<1>3. CASE \E s \in Sessions : Reset(s)
  BY <1>3 DEF Reset, handle, Scoped, IsolationInv, TypeInv, TypeOK
<1>4. CASE \E r \in Runs : Abort(r)
  BY <1>4 DEF Abort, conversation, Scoped
<1> QED
  BY <1>1, <1>2, <1>3, <1>4 DEF Arrival

LEMMA RunStepScoped ==
  ASSUME IsolationInv, NEW r \in Runs, RunStep(r)
  PROVE  Scoped
<1> USE DEF IsolationInv, TypeInv, TypeOK
<1>1. session[r] \in Sessions
  BY DEF PhasesAgree, RunStep, Acquire, LoopTop, Crash, InferError, InferEmpty, InferTools,
         InferText, PlainTool, EndTools, FinishRun, SpawnFork, NudgeFork
<1>2. ASSUME Fail(r) PROVE Scoped
  BY <1>1, <1>2, FailScoped
<1>3. CASE Acquire(r) \/ EndTools(r)
  BY <1>3 DEF Acquire, EndTools, handle, conversation, Scoped
<1>4. CASE LoopTop(r)
  <2>1. CASE ~Fail(r)
    <3>1. UNCHANGED <<session, settled>>
      BY <1>4, <2>1 DEF LoopTop, handle, conversation
    <3>2. \A q \in Runs : head'[q] \union inbox'[q] \subseteq head[q] \union inbox[q]
      BY <1>4, <2>1 DEF LoopTop
    <3> QED
      BY <3>1, <3>2, OwnEntries
  <2> QED
    BY <1>2, <2>1
<1>5. CASE Crash(r)
  BY <1>1, <1>5, AbandonScoped DEF Crash
<1>6. CASE InferError(r) \/ InferEmpty(r)
  BY <1>2, <1>6 DEF InferError, InferEmpty, handle, conversation, Scoped
<1>7. CASE InferTools(r) \/ InferText(r)
  <2>1. UNCHANGED <<session, settled>>
    BY <1>7 DEF InferTools, InferText, handle, conversation
  <2>2. OriginNext(Assistant(r, cycle[r])) = session[r]
    BY <2>1, Origins
  <2>3. \A q \in Runs : \A e \in head'[q] \union inbox'[q] :
          e \in head[q] \union inbox[q] \/ (q = r /\ e = Assistant(r, cycle[r]))
    BY <1>7 DEF InferTools, InferText
  <2> QED
    BY <2>1, <2>2, <2>3 DEF Scoped
<1>8. CASE PlainTool(r)
  <2>1. UNCHANGED <<session, settled, inbox>> /\ OriginNext(Tool(r, cycle[r])) = session[r]
    BY <1>8, Origins DEF PlainTool, handle, conversation
  <2> QED
    BY <1>8, <2>1 DEF PlainTool, Scoped
<1>9. CASE FinishRun(r)
  <2>1. session' = session /\ head' = head /\ OriginNext(Digest(r)) = session[r]
    BY <1>9, Origins DEF FinishRun, Leave
  <2>2. \A s \in Sessions : \A e \in settled'[s] :
          e \in settled[s] \/ (session[r] = s /\ e \in head[r])
    BY <1>9 DEF FinishRun
  <2>3. \A q \in Runs : \A e \in inbox'[q] :
          e \in inbox[q] \/ (session[q] = session[r] /\ e = Digest(r))
    <3>1. Peers(r) \subseteq {q \in Runs : session[q] = session[r]}
      BY DEF Peers
    <3>2. \A q \in Runs : inbox'[q] = IF q \in Peers(r) THEN inbox[q] \union {Digest(r)}
                                                        ELSE inbox[q]
      BY <1>9 DEF FinishRun
    <3> QED
      BY <3>1, <3>2
  <2> QED
    BY <2>1, <2>2, <2>3 DEF Scoped
<1>10. CASE \E c \in Runs : SpawnFork(r, c)
  <2> PICK c \in Runs : SpawnFork(r, c)
    BY <1>10
  <2>1. c # r /\ pc[c] = "unused"
    BY DEF SpawnFork, Register
  <2>2. /\ session' = [session EXCEPT ![c] = session[r]] /\ UNCHANGED <<settled, inbox>>
    BY DEF SpawnFork, Register, conversation
  <2>3. OriginNext(User(c)) = session[r] /\ OriginNext(Tool(r, cycle[r])) = session[r]
    BY <2>1, <2>2, Origins
  <2>4. \A q \in Runs : \A e \in head'[q] :
          \/ e \in head[q] /\ q # c
          \/ q = r /\ e = Tool(r, cycle[r])
          \/ q = c /\ (e = User(c) \/ e \in head[r])
    BY <2>1 DEF SpawnFork
  <2> QED
    BY <1>1, <2>1, <2>2, <2>3, <2>4 DEF Scoped
<1>11. CASE \E q \in Runs : NudgeFork(r, q)
  <2> PICK q \in Runs : NudgeFork(r, q)
    BY <1>11
  <2>1. /\ UNCHANGED <<session, settled>>
        /\ OriginNext(Nudge(r)) = session[r] /\ OriginNext(Tool(r, cycle[r])) = session[r]
    BY Origins DEF NudgeFork, handle, conversation
  <2>2. \A p \in Runs : \A e \in head'[p] \union inbox'[p] :
          \/ e \in head[p] \union inbox[p]
          \/ p = r /\ e = Tool(r, cycle[r])
          \/ p = q /\ session[p] = session[r] /\ e = Nudge(r)
    BY DEF NudgeFork
  <2> QED
    BY <2>1, <2>2 DEF Scoped
<1> QED
  BY <1>3, <1>4, <1>5, <1>6, <1>7, <1>8, <1>9, <1>10, <1>11 DEF RunStep

LEMMA StepUntouched == TypeInv /\ Untouched /\ [Next]_vars => Untouched'
<1> SUFFICES ASSUME TypeInv, Untouched, [Next]_vars,
                    NEW q \in Runs, pc'[q] = "unused"
             PROVE  head'[q] = {} /\ inbox'[q] = {}
  BY DEF Untouched
<1> USE DEF TypeInv, TypeOK, PhasesAgree
<1>1. CASE UNCHANGED vars
  BY <1>1 DEF vars, Untouched
<1>2. CASE Arrival
  BY <1>2 DEF Arrival, PushTrigger, Register, PushPassive, Reset, Abort, task, Untouched
<1>3. ASSUME NEW r \in Runs, RunStep(r) PROVE head'[q] = {} /\ inbox'[q] = {}
  <2>1. ASSUME Fail(r), q # r PROVE head'[q] = {} /\ inbox'[q] = {}
    BY <2>1 DEF Fail, Abandon, Leave, Untouched
  <2>2. q # r /\ pc[q] = "unused"
    BY <1>3 DEF RunStep, Acquire, LoopTop, Crash, InferError, InferEmpty, InferTools, InferText,
       PlainTool, EndTools, NextCycle, FinishRun, SpawnFork, Register, NudgeFork, Fail, Abandon, Leave,
       task
  <2>3. CASE Acquire(r) \/ LoopTop(r) \/ Crash(r) \/ InferError(r) \/ InferEmpty(r)
    BY <2>1, <2>2, <2>3
    DEF Acquire, LoopTop, Crash, InferError, InferEmpty, Abandon, Leave, Untouched
  <2>4. CASE InferTools(r) \/ InferText(r) \/ PlainTool(r) \/ EndTools(r) \/ FinishRun(r)
    BY <2>2, <2>4 DEF InferTools, InferText, PlainTool, EndTools, FinishRun, Peers, Untouched
  <2>5. CASE \E c \in Runs : SpawnFork(r, c)
    BY <1>3, <2>2, <2>5 DEF SpawnFork, Register, Untouched
  <2>6. CASE \E p \in Runs : NudgeFork(r, p)
    BY <2>2, <2>6 DEF NudgeFork, Untouched
  <2> QED
    BY <1>3, <2>3, <2>4, <2>5, <2>6 DEF RunStep
<1> QED
  BY <1>1, <1>2, <1>3 DEF Next

LEMMA InitIsolation == Init => IsolationInv
<1> SUFFICES ASSUME Init PROVE IsolationInv
  OBVIOUS
<1> QED
  BY InitType DEF Init, IsolationInv, SessionsIsolated, Untouched

LEMMA StepIsolation == IsolationInv /\ [Next]_vars => IsolationInv'
<1> SUFFICES ASSUME IsolationInv, [Next]_vars PROVE IsolationInv'
  OBVIOUS
<1>1. TypeInv' /\ Untouched' /\ Settles
  BY StepType, StepUntouched, StepSettles DEF IsolationInv
<1>2. CASE UNCHANGED vars
  BY <1>1, <1>2 DEF vars, IsolationInv, SessionsIsolated, Origin
<1>3. CASE Next
  <2>1. Scoped
    BY <1>3, ArrivalScoped, RunStepScoped DEF Next
  <2> QED
    BY <1>1, <2>1, ScopedIsolated DEF IsolationInv
<1> QED
  BY <1>2, <1>3

(* No entry written for one session ever reaches another, whatever runs    *)
(* interleave and however they end.                                        *)
THEOREM SessionsStayIsolated == Spec => []SessionsIsolated
<1>1. Spec => []IsolationInv
  BY InitIsolation, StepIsolation, PTL DEF Spec
<1> QED
  BY <1>1, PTL DEF IsolationInv

-----------------------------------------------------------------------------
(* The worker pool, its initial state and its steps.                       *)

USE DEF Live, Executing

stages == [r \in Runs |-> StageOf(r)]
outcomes == [r \in Runs |-> OutcomeOf(r)]

LEMMA PoolInit == Init => Pool!Init
BY DEF Init, Pool!Init, StageOf, OutcomeOf

(* A new task is accepted work.                                            *)
LEMMA RegisterSubmits ==
  ASSUME TypeInv, NEW r \in Runs, pc[r] = "unused",
         pc' = [pc EXCEPT ![r] = "queued"], status' = [status EXCEPT ![r] = "running"]
  PROVE  Pool!Submit(r)
<1>1. stages[r] = "new" /\ stages' = [stages EXCEPT ![r] = "waiting"]
  BY DEF stages, StageOf, TypeInv, TypeOK
<1>2. outcomes' = outcomes
  BY DEF outcomes, OutcomeOf, TypeInv, TypeOK, PhasesAgree
<1> QED
  BY <1>1, <1>2 DEF Pool!Submit, stages, outcomes

(* A slot of the semaphore is a free place of the pool.                    *)
LEMMA AcquireStarts ==
  ASSUME TypeInv, NothingLeaks, NEW r \in Runs, Acquire(r)
  PROVE  Pool!Start(r)
<1>1. Pool!Busy = ExecutingRuns
  BY DEF Pool!Busy, ExecutingRuns, StageOf, TypeInv, TypeOK, Phases
<1>2. Cardinality(ExecutingRuns) < MaxWorkers
  <2>1. permits \in Nat /\ permits > 0 /\ permits + Cardinality(ExecutingRuns) = MaxWorkers
    BY DEF Acquire, NothingLeaks, ExecutingRuns, TypeInv, TypeOK
  <2>2. Cardinality(ExecutingRuns) \in Nat
    BY ExecutingFinite
  <2> QED
    BY <2>1, <2>2, ConstantsAssumption
<1>3. stages[r] = "waiting" /\ stages' = [stages EXCEPT ![r] = "executing"]
  BY DEF stages, StageOf, Acquire, TypeInv, TypeOK
<1>4. outcomes' = outcomes
  BY DEF outcomes, OutcomeOf, Acquire, handle
<1>5. Pool!Cardinality(Pool!Busy) = Cardinality(Pool!Busy)
  BY DEF Pool!Cardinality, Cardinality
<1>6. Pool!Cardinality(Pool!Busy) < MaxWorkers
  BY <1>1, <1>2, <1>5
<1> QED
  BY <1>3, <1>4, <1>6 DEF Pool!Start, stages, outcomes

(* Whatever way a task ends, its job ends, with one outcome.               *)
LEMMA LeaveEnds ==
  ASSUME TypeInv, NEW r \in Runs, pc[r] \in Executing, Leave(r),
         NEW st \in {"done", "failed", "aborted"}, status' = [status EXCEPT ![r] = st]
  PROVE  Pool!End(r)
<1>1. stages[r] = "executing" /\ stages' = [stages EXCEPT ![r] = "ended"]
  BY DEF stages, StageOf, Leave, TypeInv, TypeOK
<1>2. outcomes' = [outcomes EXCEPT ![r] = st]
  BY DEF outcomes, OutcomeOf, TypeInv, TypeOK
<1> QED
  BY <1>1, <1>2 DEF Pool!End, Pool!Results, stages, outcomes

LEMMA FailEnds ==
  ASSUME TypeInv, NEW r \in Runs, pc[r] \in Executing, Fail(r)
  PROVE  Pool!End(r)
<1>1. /\ Leave(r)
      /\ \E st \in {"failed", "aborted"} : status' = [status EXCEPT ![r] = st]
  BY DEF Fail, Abandon
<1> QED
  BY <1>1, LeaveEnds

(* A task that goes on without ending changes nothing the pool can see.    *)
Hidden == UNCHANGED <<stages, outcomes>>

LEMMA MovingIsHidden ==
  ASSUME TypeInv, NEW r \in Runs, pc[r] \in Executing,
         NEW p \in Executing, pc' = [pc EXCEPT ![r] = p], status' = status
  PROVE  Hidden
<1>1. stages' = stages
  BY DEF stages, StageOf, TypeInv, TypeOK
<1>2. outcomes' = outcomes
  BY DEF outcomes, OutcomeOf
<1> QED
  BY <1>1, <1>2 DEF Hidden

LEMMA StandingIsHidden == UNCHANGED <<pc, status>> => Hidden
BY DEF Hidden, stages, outcomes, StageOf, OutcomeOf

LEMMA PoolStep == TypeInv /\ NothingLeaks /\ [Next]_vars => [Pool!Next]_(Pool!vars)
<1> SUFFICES ASSUME TypeInv, NothingLeaks, [Next]_vars
             PROVE  Hidden \/ \E r \in Runs : Pool!Submit(r) \/ Pool!Start(r) \/ Pool!End(r)
  BY DEF Pool!Next, Pool!vars, Hidden, stages, outcomes
<1>1. CASE \E s \in Sessions, r \in Runs : PushTrigger(s, r)
  BY <1>1, RegisterSubmits DEF PushTrigger, Register
<1>2. CASE (\E s \in Sessions, m \in Passives : PushPassive(s, m)) \/ \E s \in Sessions : Reset(s)
  BY <1>2, StandingIsHidden DEF PushPassive, Reset, task, handle
<1>3. CASE \E r \in Runs : Abort(r)
  BY <1>3, StandingIsHidden DEF Abort, task
<1>4. CASE UNCHANGED vars
  BY <1>4, StandingIsHidden DEF vars
<1>5. ASSUME NEW r \in Runs, RunStep(r)
      PROVE  Hidden \/ \E q \in Runs : Pool!Submit(q) \/ Pool!Start(q) \/ Pool!End(q)
  <2>1. CASE Acquire(r)
    BY <2>1, AcquireStarts
  <2>2. CASE \E c \in Runs : SpawnFork(r, c)
    BY <2>2, RegisterSubmits DEF SpawnFork, Register
  <2>3. CASE Crash(r)
    BY <2>3, LeaveEnds DEF Crash, Abandon
  <2>4. CASE FinishRun(r)
    BY <2>4, LeaveEnds DEF FinishRun
  <2>5. CASE pc[r] \in Executing /\ Fail(r)
    BY <2>5, FailEnds
  <2>6. CASE /\ pc[r] \in Executing /\ status' = status
             /\ \E p \in Executing : pc' = [pc EXCEPT ![r] = p]
    BY <2>6, MovingIsHidden
  <2>7. CASE LoopTop(r) \/ InferError(r) \/ InferEmpty(r)
    BY <2>5, <2>6, <2>7 DEF LoopTop, InferError, InferEmpty, handle
  <2>8. CASE InferTools(r) \/ InferText(r) \/ EndTools(r)
    BY <2>6, <2>8 DEF InferTools, InferText, EndTools, NextCycle, handle
  <2>9. CASE PlainTool(r) \/ \E q \in Runs : NudgeFork(r, q)
    BY <2>9, StandingIsHidden DEF PlainTool, NudgeFork, task, handle
  <2> QED
    BY <1>5, <2>1, <2>2, <2>3, <2>4, <2>7, <2>8, <2>9 DEF RunStep
<1> QED
  BY <1>1, <1>2, <1>3, <1>4, <1>5 DEF Next, Arrival

(* Runtime implements the pool it promises: accepted work is never refused *)
(* nor dropped, at most max_workers runs execute, none runs twice, and     *)
(* each ends with exactly one outcome.                                     *)
THEOREM RunsAreJobs == Spec => ImplementsPool
<1>1. Spec => [](TypeInv /\ NothingLeaks)
  BY InitType, StepType, InitAccounts, StepAccounts, PTL DEF Spec
<1> QED
  BY <1>1, PoolInit, PoolStep, PTL DEF Spec, ImplementsPool, Pool!Spec

-----------------------------------------------------------------------------
(* Endings.  NeverStranded speaks of sessions without a live run, which a  *)
(* step may enter or leave; Anchored drops that condition and is inductive.*)

Anchor(q, r) == pc[q] = "over" /\ session[q] = session[r] /\ head[q] \subseteq settled[session[r]]
Anchored == \A r \in Runs \ cleared : pc[r] = "over" => \E q \in Runs : Anchor(q, r)

EndingInv == TypeInv /\ Anchored /\ RepliesWellFormed

-----------------------------------------------------------------------------
(* Replies.                                                                *)

(* What a caller has been told at a phase of its run.                      *)
LEMMA Told ==
  ASSUME TypeInv, RepliesWellFormed, NEW r \in Runs, r \in listening
  PROVE  /\ pc[r] \in {"unused", "queued", "top", "infer", "tools"} => replies[r] = <<>>
         /\ pc[r] = "post" => replies[r] = <<"final">>
BY DEF TypeInv, TypeOK, PhasesAgree, RepliesWellFormed

LEMMA Joined ==
  /\ <<>> \o <<"final">> = <<"final">>
  /\ <<>> \o <<"error", "end">> = <<"error", "end">>
  /\ <<"final">> \o <<"end">> = <<"final", "end">>
<1>1. /\ <<"final">> \in Seq(Events) /\ <<"end">> \in Seq(Events)
      /\ <<"error", "end">> \in Seq(Events) /\ <<"final", "end">> \in Seq(Events)
  BY DEF Events
<1>2. \A s \in Seq(Events) : <<>> \o s = s
  BY ConcatEmptySeq
<1> DEFINE both == <<"final">> \o <<"end">>
<1>3. both \in Seq(Events) /\ Len(both) = 2
  BY <1>1
<1>4. both[1] = "final" /\ both[2] = "end"
  BY <1>1
<1> HIDE DEF both
<1>5. both = <<"final", "end">>
  BY <1>1, <1>3, <1>4, SeqEqual
<1> QED
  BY <1>1, <1>2, <1>5 DEF both

(* A run's replies are judged by its own phase, status and queue alone.    *)
ToldRight(r) ==
  replies[r] \in IF r \notin listening THEN {<<>>}
                 ELSE IF status[r] = "done" THEN {<<"final", "end">>}
                 ELSE IF pc[r] = "over" THEN {<<"error", "end">>}
                 ELSE IF pc[r] = "post" THEN {<<"final">>} ELSE {<<>>}

LEMMA OneRunReplies ==
  ASSUME RepliesWellFormed, NEW r \in Runs, (ToldRight(r))',
         \A q \in Runs \ {r} : /\ replies'[q] = replies[q] /\ pc'[q] = pc[q]
                               /\ status'[q] = status[q] /\ (q \in listening' <=> q \in listening)
  PROVE  RepliesWellFormed'
BY DEF RepliesWellFormed, ToldRight

LEMMA NoReplies ==
  ASSUME RepliesWellFormed, UNCHANGED <<replies, pc, status, listening>>
  PROVE  RepliesWellFormed'
BY DEF RepliesWellFormed

(* A new run is told nothing yet, whether somebody listens or not.         *)
LEMMA RegisterReplies ==
  ASSUME TypeInv, RepliesWellFormed, NEW r \in Runs, NEW s, NEW root, Register(r, s, root),
         listening' \in {listening, listening \union {r}}
  PROVE  RepliesWellFormed'
<1>1. replies[r] = <<>> /\ replies' = replies
  BY DEF Register, RepliesWellFormed, TypeInv, TypeOK, PhasesAgree
<1>2. (ToldRight(r))'
  BY <1>1 DEF ToldRight, Register, TypeInv, TypeOK
<1> QED
  BY <1>1, <1>2, OneRunReplies DEF Register, TypeInv, TypeOK

LEMMA AbandonReplies ==
  ASSUME TypeInv, RepliesWellFormed, NEW r \in Runs, pc[r] \in {"top", "infer", "tools"},
         NEW st \in {"failed", "aborted"}, NEW tail, Abandon(r, st, tail)
  PROVE  RepliesWellFormed'
<1>1. /\ pc' = [pc EXCEPT ![r] = "over"] /\ status' = [status EXCEPT ![r] = st]
      /\ listening' = listening
      /\ replies' = [replies EXCEPT ![r] = IF r \in listening THEN @ \o <<"error", "end">> ELSE @]
  BY DEF Abandon, Leave, Say
<1>2. replies[r] = <<>>
  BY Told DEF RepliesWellFormed
<1>3. (ToldRight(r))'
  BY <1>1, <1>2, Joined DEF ToldRight, TypeInv, TypeOK
<1> QED
  BY <1>1, <1>3, OneRunReplies DEF TypeInv, TypeOK

LEMMA FailReplies ==
  ASSUME TypeInv, RepliesWellFormed, NEW r \in Runs, pc[r] \in {"top", "infer", "tools"}, Fail(r)
  PROVE  RepliesWellFormed'
<1> DEFINE st == IF abortEv[r] = "set" THEN "aborted" ELSE "failed"
           tail == IF ErrorIntrospection THEN head[r] \union {Error(r)} ELSE head[r]
<1>1. st \in {"failed", "aborted"} /\ Abandon(r, st, tail)
  BY DEF Fail
<1> HIDE DEF st, tail
<1> QED
  BY <1>1, AbandonReplies

(* The loop goes on in silence, or is left with the final event.           *)
LEMMA MovingReplies ==
  ASSUME TypeInv, RepliesWellFormed, NEW r \in Runs,
         pc[r] \in {"queued", "top", "infer", "tools"}, UNCHANGED <<status, listening>>,
         \/ \E p \in {"top", "infer", "tools"} : pc' = [pc EXCEPT ![r] = p] /\ UNCHANGED replies
         \/ pc' = [pc EXCEPT ![r] = "post"] /\ Say(r, <<"final">>)
  PROVE  RepliesWellFormed'
<1>1. replies[r] = <<>> /\ status[r] = "running"
  BY Told DEF RepliesWellFormed, TypeInv, TypeOK, PhasesAgree
<1>2. CASE \E p \in {"top", "infer", "tools"} : pc' = [pc EXCEPT ![r] = p] /\ UNCHANGED replies
  <2>1. (ToldRight(r))'
    BY <1>1, <1>2 DEF ToldRight, TypeInv, TypeOK
  <2> QED
    BY <1>2, <2>1, OneRunReplies DEF TypeInv, TypeOK
<1>3. CASE pc' = [pc EXCEPT ![r] = "post"] /\ Say(r, <<"final">>)
  <2>1. replies' = [replies EXCEPT ![r] = IF r \in listening THEN @ \o <<"final">> ELSE @]
    BY <1>3 DEF Say
  <2>2. (ToldRight(r))'
    BY <1>1, <1>3, <2>1, Joined DEF ToldRight, TypeInv, TypeOK
  <2> QED
    BY <1>3, <2>1, <2>2, OneRunReplies DEF TypeInv, TypeOK
<1> QED
  BY <1>2, <1>3

LEMMA FinishReplies ==
  ASSUME TypeInv, RepliesWellFormed, NEW r \in Runs, FinishRun(r)
  PROVE  RepliesWellFormed'
<1>1. /\ pc' = [pc EXCEPT ![r] = "over"] /\ status' = [status EXCEPT ![r] = "done"]
      /\ listening' = listening /\ pc[r] = "post"
      /\ replies' = [replies EXCEPT ![r] = IF r \in listening THEN @ \o <<"end">> ELSE @]
  BY DEF FinishRun, Leave, Say
<1>2. IF r \in listening THEN replies[r] = <<"final">> ELSE replies[r] = <<>>
  BY <1>1, Told DEF RepliesWellFormed
<1>3. (ToldRight(r))'
  BY <1>1, <1>2, Joined DEF ToldRight, TypeInv, TypeOK
<1> QED
  BY <1>1, <1>3, OneRunReplies DEF TypeInv, TypeOK

LEMMA StepReplies == TypeInv /\ RepliesWellFormed /\ [Next]_vars => RepliesWellFormed'
<1> SUFFICES ASSUME TypeInv, RepliesWellFormed, [Next]_vars PROVE RepliesWellFormed'
  OBVIOUS
<1>1. ASSUME NEW s \in Sessions, NEW r \in Runs, PushTrigger(s, r) PROVE RepliesWellFormed'
  BY <1>1, RegisterReplies DEF PushTrigger
<1>2. CASE \/ \E s \in Sessions, m \in Passives : PushPassive(s, m)
           \/ \E s \in Sessions : Reset(s)
           \/ \E r \in Runs : Abort(r)
           \/ UNCHANGED vars
  BY <1>2, NoReplies DEF PushPassive, Reset, Abort, vars, task, handle
<1>3. ASSUME NEW r \in Runs, RunStep(r) PROVE RepliesWellFormed'
  <2>1. CASE Acquire(r)
    BY <2>1, MovingReplies DEF Acquire, handle
  <2>2. CASE Fail(r) /\ pc[r] \in {"top", "infer", "tools"}
    BY <2>2, FailReplies
  <2>3. CASE LoopTop(r) \/ InferError(r) \/ InferEmpty(r)
    BY <2>2, <2>3, MovingReplies DEF LoopTop, InferError, InferEmpty, handle
  <2>4. CASE Crash(r)
    BY <2>4, AbandonReplies DEF Crash
  <2>5. CASE InferTools(r) \/ InferText(r) \/ EndTools(r)
    BY <2>5, MovingReplies DEF InferTools, InferText, EndTools, NextCycle, handle
  <2>6. CASE PlainTool(r) \/ \E q \in Runs : NudgeFork(r, q)
    BY <2>6, NoReplies DEF PlainTool, NudgeFork, task, handle
  <2>7. CASE \E c \in Runs : SpawnFork(r, c)
    BY <2>7, RegisterReplies DEF SpawnFork
  <2>8. CASE FinishRun(r)
    BY <2>8, FinishReplies
  <2> QED
    BY <1>3, <2>1, <2>3, <2>4, <2>5, <2>6, <2>7, <2>8 DEF RunStep
<1> QED
  BY <1>1, <1>2, <1>3 DEF Next, Arrival

-----------------------------------------------------------------------------
(* Tails.                                                                  *)

(* While no run ends and no tail is reset, what anchors a run stays.       *)
LEMMA StandingAnchored ==
  ASSUME TypeInv, Anchored,
         \A r \in Runs : /\ pc'[r] = "over" <=> pc[r] = "over"
                         /\ pc[r] = "over" => head'[r] = head[r] /\ session'[r] = session[r],
         \A s \in Sessions : settled[s] \subseteq settled'[s],
         cleared' = cleared
  PROVE  Anchored'
<1> SUFFICES ASSUME NEW r \in Runs \ cleared, pc[r] = "over"
             PROVE  \E q \in Runs : Anchor(q, r)'
  BY DEF Anchored
<1>1. PICK q \in Runs : Anchor(q, r)
  BY DEF Anchored
<1>2. session[r] \in Sessions
  BY DEF TypeInv, TypeOK, PhasesAgree
<1> QED
  BY <1>1, <1>2 DEF Anchor

(* A run that ends anchors its session, whoever ended there before.        *)
LEMMA EndingAnchored ==
  ASSUME TypeInv, Anchored, NEW r \in Runs, NEW tail, Ending(r, tail)
  PROVE  Anchored'
<1>1. session[r] \in Sessions /\ session' = session /\ cleared' = cleared
  BY DEF Ending, TypeInv, TypeOK, PhasesAgree
<1>2. pc'[r] = "over" /\ head'[r] = tail /\ settled'[session[r]] = tail
  BY <1>1 DEF Ending, TypeInv, TypeOK
<1> SUFFICES ASSUME NEW f \in Runs \ cleared, pc'[f] = "over"
             PROVE  \E q \in Runs : Anchor(q, f)'
  BY <1>1 DEF Anchored
<1>3. CASE session[f] = session[r]
  BY <1>1, <1>2, <1>3 DEF Anchor
<1>4. CASE session[f] # session[r]
  <2>1. pc[f] = "over" /\ session[f] \in Sessions
    BY <1>4 DEF Ending, TypeInv, TypeOK, PhasesAgree
  <2>2. PICK q \in Runs : Anchor(q, f)
    BY <2>1 DEF Anchored
  <2>3. q # r
    BY <1>4, <2>2 DEF Anchor
  <2> QED
    BY <1>1, <1>4, <2>1, <2>2, <2>3 DEF Anchor, Ending, TypeInv, TypeOK
<1> QED
  BY <1>3, <1>4

LEMMA AbandonEnds ==
  ASSUME NEW r \in Runs, pc[r] \in Executing, NEW st, NEW tail, head[r] \subseteq tail,
         Abandon(r, st, tail)
  PROVE  Ending(r, tail)
BY DEF Abandon, Leave, Ending

LEMMA FailAnchored ==
  ASSUME TypeInv, Anchored, NEW r \in Runs, pc[r] \in Executing, Fail(r)
  PROVE  Anchored'
<1> DEFINE st == IF abortEv[r] = "set" THEN "aborted" ELSE "failed"
           tail == IF ErrorIntrospection THEN head[r] \union {Error(r)} ELSE head[r]
<1>1. head[r] \subseteq tail /\ Abandon(r, st, tail)
  BY DEF Fail
<1> HIDE DEF st, tail
<1> QED
  BY <1>1, AbandonEnds, EndingAnchored

(* A reset takes the tail back, and excuses the runs it takes it from.     *)
LEMMA ResetAnchored ==
  ASSUME TypeInv, Anchored, NEW s \in Sessions, Reset(s)
  PROVE  Anchored'
<1> SUFFICES ASSUME NEW r \in Runs \ cleared', pc'[r] = "over"
             PROVE  \E q \in Runs : Anchor(q, r)'
  BY DEF Anchored
<1>1. UNCHANGED <<pc, session, head>> /\ cleared' = cleared \union {q \in Runs : session[q] = s}
  BY DEF Reset, task, handle
<1>2. session[r] # s /\ session[r] \in Sessions /\ pc[r] = "over" /\ r \notin cleared
  BY <1>1 DEF TypeInv, TypeOK, PhasesAgree
<1>3. PICK q \in Runs : Anchor(q, r)
  BY <1>2 DEF Anchored
<1>4. settled'[session[r]] = settled[session[r]]
  BY <1>2 DEF Reset, TypeInv, TypeOK
<1> QED
  BY <1>1, <1>2, <1>3, <1>4 DEF Anchor

LEMMA StepAnchored == TypeInv /\ Anchored /\ [Next]_vars => Anchored'
<1> SUFFICES ASSUME TypeInv, Anchored, [Next]_vars PROVE Anchored'
  OBVIOUS
<1> USE DEF TypeInv, TypeOK
<1>1. CASE \E s \in Sessions, r \in Runs : PushTrigger(s, r)
  BY <1>1, StandingAnchored DEF PushTrigger, Register, conversation
<1>2. CASE \E s \in Sessions, m \in Passives : PushPassive(s, m)
  BY <1>2, StandingAnchored DEF PushPassive, task, handle
<1>3. CASE \E s \in Sessions : Reset(s)
  BY <1>3, ResetAnchored
<1>4. CASE (\E r \in Runs : Abort(r)) \/ UNCHANGED vars
  BY <1>4, StandingAnchored DEF Abort, task, conversation, vars
<1>5. ASSUME NEW r \in Runs, RunStep(r) PROVE Anchored'
  <2>1. CASE Fail(r) /\ pc[r] \in Executing
    BY <2>1, FailAnchored
  <2>2. CASE Acquire(r) \/ EndTools(r)
    BY <2>2, StandingAnchored DEF Acquire, EndTools, NextCycle, handle, conversation
  <2>3. CASE LoopTop(r)
    BY <2>1, <2>3, StandingAnchored DEF LoopTop, handle, conversation
  <2>4. CASE InferError(r) \/ InferEmpty(r)
    BY <2>1, <2>4, StandingAnchored DEF InferError, InferEmpty, handle, conversation
  <2>5. CASE InferTools(r)
    BY <2>5, StandingAnchored DEF InferTools, handle, conversation
  <2>6. CASE InferText(r)
    BY <2>6, StandingAnchored DEF InferText, NextCycle, handle, conversation
  <2>7. CASE PlainTool(r) \/ \E q \in Runs : NudgeFork(r, q)
    BY <2>7, StandingAnchored DEF PlainTool, NudgeFork, task, handle, conversation
  <2>8. CASE \E c \in Runs : SpawnFork(r, c)
    BY <2>8, StandingAnchored DEF SpawnFork, Register, conversation
  <2>9. CASE Crash(r)
    BY <2>9, AbandonEnds, EndingAnchored DEF Crash
  <2>10. CASE FinishRun(r)
    <3>1. Ending(r, head[r])
      BY <2>10 DEF FinishRun, Leave, Ending
    <3> QED
      BY <3>1, EndingAnchored
  <2> QED
    BY <1>5, <2>2, <2>3, <2>4, <2>5, <2>6, <2>7, <2>8, <2>9, <2>10 DEF RunStep
<1> QED
  BY <1>1, <1>2, <1>3, <1>4, <1>5 DEF Next, Arrival

(* However runs end, the session goes on from one that ended, and the      *)
(* caller of each is told exactly one outcome and then the end.            *)
THEOREM EndingsAreAlwaysComplete == Spec => []EndingsAreComplete
<1>1. Init => EndingInv
  <2> SUFFICES ASSUME Init PROVE EndingInv
    OBVIOUS
  <2> QED
    BY InitType DEF Init, EndingInv, Anchored, RepliesWellFormed
<1>2. EndingInv /\ [Next]_vars => EndingInv'
  BY StepType, StepAnchored, StepReplies DEF EndingInv
<1>3. EndingInv => EndingsAreComplete
  BY DEF EndingInv, Anchored, Anchor, EndingsAreComplete, NeverStranded
<1> QED
  BY <1>1, <1>2, <1>3, PTL DEF Spec
=============================================================================
