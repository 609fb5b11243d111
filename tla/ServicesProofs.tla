--------------------------- MODULE ServicesProofs ---------------------------
(***************************************************************************)
(* Three services, for any number of tasks that use them, and for          *)
(* conversations of any shape; and the decisions of shell, tools,          *)
(* retrieval and skills, for any input.                                    *)
(*                                                                         *)
(* No wake-up is lost in the queue of requests.  WorkIsNeverAsleep is      *)
(* inductive once it is known that a worker that leaves the condition      *)
(* really takes a request, for which the heap must have a first entry.     *)
(* HasFirsts says so in a form that steps preserve: an entry more or less  *)
(* leaves every part with one.                                             *)
(*                                                                         *)
(* The cache of vectors is read before an await and written after it.      *)
(* VectorInv says of each call what it has of its texts and what is on its *)
(* way to it; a loop over texts is a function, and what it keeps is shown  *)
(* by the least index at which it would fail.                              *)
(*                                                                         *)
(* Searches of a databank answer with what its files said.  A scan may be  *)
(* overtaken at every call of the embedder, so the invariant says of each  *)
(* call in progress what it has seen of the files, and relates the rows to *)
(* it: while one call embeds, what it has read is no news to the others.   *)
(*                                                                         *)
(* A skill that falls out of a conversation's prompt is told once.  What   *)
(* was told is history, and SessionInv says what the state of every branch *)
(* knows of it: the skills of the last prompt, and those which the last    *)
(* but one had and the last has not.  A row that is added sees the state   *)
(* of its parent; a prompt is noted at the tail, which no other branch has.*)
(*                                                                         *)
(* Last come the pure decisions that MCDecisions asks about over small     *)
(* inputs: here for inputs of any size.  A loop of the code is a recursive *)
(* function; LoopExists says that there is one, and Climb carries what it  *)
(* keeps from each round to the next.                                      *)
(***************************************************************************)
EXTENDS MCDecisions, ModelQueue, RagIndex, SessionState,
        WellFoundedInduction, SequenceTheorems, FiniteSetTheorems, TLAPS

Entries == {5, 20} \X Nat \X Requests
QueueTypes ==
  /\ heap \subseteq Entries /\ seq \in Nat
  /\ worker \in Seq({"ready", "waiting"} \union Requests)
Before(x, y) == x[1] < y[1] \/ (x[1] = y[1] /\ x[2] <= y[2])
First(h) == CHOOSE x \in h : \A y \in h : Before(x, y)
HasFirsts(h) == \A S \in SUBSET h : S # {} => \E x \in S : \A y \in S : Before(x, y)

QueueInv == QueueTypes /\ HasFirsts(heap) /\ WorkIsNeverAsleep

(* A new entry is before the first of the others or after it.              *)
LEMMA OneMoreEntry ==
  ASSUME NEW h \in SUBSET Entries, HasFirsts(h), NEW e \in Entries
  PROVE  HasFirsts(h \union {e})
<1> SUFFICES ASSUME NEW S \in SUBSET (h \union {e}), S # {}
             PROVE  \E x \in S : \A y \in S : Before(x, y)
  BY DEF HasFirsts
<1>1. \A x \in Entries : x[1] \in Int /\ x[2] \in Int
  BY DEF Entries
<1>2. Before(e, e)
  BY <1>1 DEF Before
<1>3. CASE S \subseteq h
  BY <1>3 DEF HasFirsts
<1>4. CASE S = {e}
  BY <1>2, <1>4
<1>5. CASE e \in S /\ S # {e}
  <2>1. S \ {e} \in SUBSET h /\ S \ {e} # {}
    BY <1>5
  <2>2. PICK m \in S \ {e} : \A y \in S \ {e} : Before(m, y)
    BY <2>1 DEF HasFirsts
  <2>3. m \in Entries /\ \A y \in S : y \in Entries
    BY <2>1, <2>2
  <2>4. CASE Before(m, e)
    BY <2>2, <2>4
  <2>5. CASE ~ Before(m, e)
    <3>1. \A y \in S \ {e} : Before(e, y)
      BY <1>1, <2>2, <2>3, <2>5 DEF Before
    <3> QED
      BY <1>2, <1>5, <3>1
  <2> QED
    BY <2>4, <2>5
<1> QED
  BY <1>3, <1>4, <1>5

LEMMA FirstEntry ==
  ASSUME NEW h, HasFirsts(h), h # {}
  PROVE  First(h) \in h
<1>1. \E x \in h : \A y \in h : Before(x, y)
  BY DEF HasFirsts
<1> QED
  BY <1>1 DEF First

LEMMA InitQueue == QueueInit => QueueInv
BY DEF QueueInit, QueueInv, QueueTypes, HasFirsts, WorkIsNeverAsleep

(* A new request finds a worker awake: one that just started, one that was *)
(* woken, or one that was not waiting.                                     *)
LEMMA EnqueueKeeps ==
  ASSUME QueueInv, NEW r \in Requests, Enqueue(r)
  PROVE  QueueInv'
<1> DEFINE waiting == {w \in DOMAIN worker : worker[w] = "waiting"}
           fresh == [n \in 1..(Parallel - Len(worker)) |-> "ready"]
           started == worker \o fresh
           Ranks == {"ready", "waiting"} \union Requests
<1>1. Parallel \in Nat /\ Parallel > 0
  BY ModelQueueConstants
<1>2. worker \in Seq(Ranks) /\ Len(worker) \in Nat /\ DOMAIN worker = 1..Len(worker)
  BY DEF QueueInv, QueueTypes
<1>3. fresh \in Seq(Ranks) /\ (Len(worker) = 0 => Len(fresh) > 0 /\ fresh[1] = "ready")
  <2>1. CASE Parallel >= Len(worker)
    <3>1. Parallel - Len(worker) \in Nat
      BY <1>1, <1>2, <2>1
    <3>2. fresh \in Seq(Ranks) /\ Len(fresh) = Parallel - Len(worker)
      BY <3>1
    <3> QED
      BY <1>1, <3>1, <3>2
  <2>2. CASE Parallel < Len(worker)
    <3>1. fresh = << >>
      BY <1>1, <1>2, <2>2
    <3> QED
      BY <1>1, <1>2, <2>2, <3>1
  <2> QED
    BY <1>1, <1>2, <2>1, <2>2
<1>4. /\ started \in Seq(Ranks) /\ Len(started) = Len(worker) + Len(fresh)
      /\ \A w \in 1..Len(worker) : w \in DOMAIN started /\ started[w] = worker[w]
      /\ Len(worker) = 0 => 1 \in DOMAIN started /\ started[1] = "ready"
  <2> HIDE DEF fresh
  <2> QED
    BY <1>2, <1>3
<1>5. \/ waiting = {} /\ worker' = started
      \/ \E w \in waiting : worker' = [started EXCEPT ![w] = "ready"]
  BY DEF Enqueue
<1>6. QueueTypes'
  <2>1. heap' \subseteq Entries /\ seq' \in Nat
    BY DEF Enqueue, QueueInv, QueueTypes, Entries, Priority
  <2>2. worker' \in Seq(Ranks)
    <3> HIDE DEF started
    <3> QED
      BY <1>4, <1>5
  <2> QED
    BY <2>1, <2>2 DEF QueueTypes
<1>7. \E w \in DOMAIN worker' : worker'[w] # "waiting"
  <2>1. CASE waiting = {}
    <3>1. worker' = started
      BY <1>5, <2>1
    <3>2. CASE Len(worker) = 0
      BY <1>4, <3>1, <3>2
    <3>3. CASE Len(worker) > 0
      <4>1. 1 \in DOMAIN worker /\ worker[1] # "waiting"
        BY <1>2, <2>1, <3>3
      <4> QED
        BY <1>2, <1>4, <3>1, <4>1
    <3> QED
      BY <1>2, <3>2, <3>3
  <2>2. CASE waiting # {}
    <3>1. PICK w \in waiting : worker' = [started EXCEPT ![w] = "ready"]
      BY <1>5, <2>2
    <3>2. w \in DOMAIN started
      <4> HIDE DEF started
      <4> QED
        BY <1>2, <1>4
    <3> HIDE DEF started
    <3> QED
      BY <3>1, <3>2
  <2> QED
    BY <2>1, <2>2
<1>8. HasFirsts(heap')
  <2>1. heap \in SUBSET Entries /\ <<Priority(r), seq, r>> \in Entries
    BY DEF QueueInv, QueueTypes, Entries, Priority
  <2> QED
    BY <2>1, OneMoreEntry DEF Enqueue, QueueInv
<1> QED
  BY <1>6, <1>7, <1>8 DEF QueueInv, WorkIsNeverAsleep

(* A worker takes the first entry, or waits because there is none.         *)
LEMMA NextOfKeeps ==
  ASSUME QueueInv, NEW w \in DOMAIN worker, NextOf(w), seq' = seq
  PROVE  QueueInv'
<1>1. CASE heap = {}
  <2>1. heap' = {} /\ worker' \in Seq({"ready", "waiting"} \union Requests)
    BY <1>1 DEF NextOf, QueueInv, QueueTypes
  <2> QED
    BY <2>1 DEF QueueInv, QueueTypes, HasFirsts, WorkIsNeverAsleep
<1>2. CASE heap # {}
  <2>1. /\ worker' = [worker EXCEPT ![w] = First(heap)[3]]
        /\ heap' = heap \ {First(heap)}
    BY <1>2 DEF NextOf, First, Before
  <2>2. First(heap) \in heap
    BY <1>2, FirstEntry DEF QueueInv
  <2>3. First(heap)[3] \in Requests /\ First(heap)[3] # "waiting"
    BY <2>2, ModelQueueConstants DEF QueueInv, QueueTypes, Entries
  <2>4. QueueTypes'
    BY <2>1, <2>3 DEF QueueInv, QueueTypes
  <2>5. w \in DOMAIN worker' /\ worker'[w] # "waiting"
    BY <2>1, <2>3
  <2>6. HasFirsts(heap')
    BY <2>1 DEF QueueInv, HasFirsts
  <2> QED
    BY <2>4, <2>5, <2>6 DEF QueueInv, WorkIsNeverAsleep
<1> QED
  BY <1>1, <1>2

LEMMA StepQueue == QueueInv /\ [QueueNext]_queueVars => QueueInv'
<1> SUFFICES ASSUME QueueInv, [QueueNext]_queueVars PROVE QueueInv'
  OBVIOUS
<1>1. ASSUME UNCHANGED <<heap, seq, worker>> PROVE QueueInv'
  BY <1>1 DEF QueueInv, QueueTypes, WorkIsNeverAsleep
<1>2. ASSUME NEW r \in Requests, Complete(r) PROVE QueueInv'
  BY <1>2, EnqueueKeeps DEF Complete
<1>3. ASSUME NEW r \in Requests, Embed(r) PROVE QueueInv'
  BY <1>1, <1>3, EnqueueKeeps DEF Embed
<1>4. ASSUME NEW r \in Requests, Receive(r) \/ Resume(r) \/ Leave(r) PROVE QueueInv'
  BY <1>1, <1>4 DEF Receive, Resume, Leave
<1>5. ASSUME NEW w \in DOMAIN worker, Wake(w) PROVE QueueInv'
  BY <1>5, NextOfKeeps DEF Wake
<1>6. ASSUME NEW w \in DOMAIN worker, Produce(w) PROVE QueueInv'
  BY <1>1, <1>6 DEF Produce
<1>7. ASSUME NEW w \in DOMAIN worker, NEW how, EndStream(w, how) PROVE QueueInv'
  BY <1>7, NextOfKeeps DEF EndStream
<1>8. ASSUME NEW w \in DOMAIN worker, NEW failed, EndEmbed(w, failed) PROVE QueueInv'
  BY <1>8, NextOfKeeps DEF EndEmbed
<1> QED
  BY <1>1, <1>2, <1>3, <1>4, <1>5, <1>6, <1>7, <1>8 DEF QueueNext, queueVars

(* While a request waits, a worker is awake or at work, however many       *)
(* workers there are and whoever leaves, fails or is served first.         *)
THEOREM NoLostWakeUp == QueueSpec => []WorkIsNeverAsleep
<1>1. QueueInv => WorkIsNeverAsleep
  BY DEF QueueInv
<1> QED
  BY <1>1, InitQueue, StepQueue, PTL DEF QueueSpec

-----------------------------------------------------------------------------
(* The cache.  It may hold any text some request asks for.                 *)
Asked == UNION {{Ask[r][i] : i \in DOMAIN Ask[r]} : r \in Embeds}
Pairs == {<<t, Vector(t)>> : t \in Asked}
Caches == {c \in Seq(Pairs) : Len(c) <= CacheSize}

LEMMA AskedIsTyped ==
  ASSUME NEW r \in Embeds
  PROVE  /\ Len(Ask[r]) \in Nat /\ DOMAIN Ask[r] = 1..Len(Ask[r])
         /\ \A i \in DOMAIN Ask[r] : Ask[r][i] \in Asked
<1>1. Ask[r] \in Seq({Ask[r][i] : i \in DOMAIN Ask[r]})
  BY ModelQueueConstants DEF Embeds
<1>2. \A i \in DOMAIN Ask[r] : Ask[r][i] \in Asked
  BY DEF Asked
<1> QED
  BY <1>1, <1>2

LEMMA WithoutIsShorter ==
  ASSUME NEW c \in Caches, NEW t
  PROVE  /\ Without(c, t) \in Seq(Pairs)
         /\ Cached(c, t) => Len(Without(c, t)) = Len(c) - 1
         /\ Cached(c, t) => Lookup(c, t) \in DOMAIN c /\ c[Lookup(c, t)][1] = t
         /\ ~Cached(c, t) => Without(c, t) = c
<1>1. c \in Seq(Pairs) /\ Len(c) \in Nat /\ DOMAIN c = 1..Len(c)
  BY DEF Caches
<1>2. CASE ~Cached(c, t)
  BY <1>1, <1>2 DEF Without
<1>3. CASE Cached(c, t)
  <2>1. Lookup(c, t) \in 1..Len(c) /\ c[Lookup(c, t)][1] = t
    BY <1>1, <1>3 DEF Cached, Lookup
  <2> DEFINE n == Lookup(c, t)
             a == SubSeq(c, 1, n - 1)
             b == SubSeq(c, n + 1, Len(c))
  <2>2. n \in 1..Len(c)
    BY <2>1
  <2>3. Without(c, t) = a \o b
    BY <1>3 DEF Without
  <2> HIDE DEF n
  <2>4. a \in Seq(Pairs) /\ Len(a) = n - 1
    BY <1>1, <2>2, SubSeqProperties
  <2>5. b \in Seq(Pairs) /\ Len(b) = Len(c) - n
    <3>1. n + 1 \in Int /\ Len(c) \in Int /\ \A i \in (n + 1)..Len(c) : c[i] \in Pairs
      BY <1>1, <2>2
    <3>2. b \in Seq(Pairs) /\ Len(b) = IF n + 1 <= Len(c) THEN Len(c) - (n + 1) + 1 ELSE 0
      BY <3>1, SubSeqProperties
    <3>3. PICK l \in Nat : l = Len(c)
      BY <1>1
    <3>4. n \in 1..l
      BY <2>2, <3>3
    <3>5. Len(b) = IF n + 1 <= l THEN l - (n + 1) + 1 ELSE 0
      BY <3>2, <3>3
    <3> HIDE DEF b
    <3>6. Len(b) = l - n
      BY <3>4, <3>5
    <3> QED
      BY <3>2, <3>3, <3>6
  <2> HIDE DEF a, b
  <2>6. a \o b \in Seq(Pairs) /\ Len(a \o b) = Len(c) - 1
    <3>1. a \o b \in Seq(Pairs) /\ Len(a \o b) = Len(a) + Len(b)
      BY <2>4, <2>5, ConcatProperties
    <3> QED
      BY <1>1, <2>2, <2>4, <2>5, <3>1
  <2> QED
    BY <1>1, <1>3, <2>1, <2>3, <2>6
<1> QED
  BY <1>2, <1>3

LEMMA TouchedStays ==
  ASSUME NEW c \in Caches, NEW t
  PROVE  Touched(c, t) \in Caches
<1>1. CASE ~Cached(c, t)
  BY <1>1 DEF Touched
<1>2. CASE Cached(c, t)
  <2> DEFINE w == Without(c, t)
             e == c[Lookup(c, t)]
  <2>1. Touched(c, t) = Append(w, e)
    BY <1>2 DEF Touched
  <2>2. w \in Seq(Pairs) /\ Len(w) = Len(c) - 1 /\ c \in Seq(Pairs) /\ Len(c) <= CacheSize
    BY <1>2, WithoutIsShorter DEF Caches
  <2>3. e \in Pairs
    BY <1>2, <2>2, WithoutIsShorter
  <2> HIDE DEF w, e
  <2>4. Append(w, e) \in Seq(Pairs) /\ Len(Append(w, e)) = Len(c)
    BY <2>2, <2>3
  <2> QED
    BY <2>1, <2>2, <2>4 DEF Caches
<1> QED
  BY <1>1, <1>2

LEMMA StoredStays ==
  ASSUME NEW c \in Caches, NEW t \in Asked
  PROVE  Stored(c, t, Vector(t)) \in Caches
<1> DEFINE w == Without(c, t)
           e == <<t, Vector(t)>>
           grown == Append(w, e)
<1>1. Stored(c, t, Vector(t)) = IF Len(grown) > CacheSize THEN Tail(grown) ELSE grown
  BY DEF Stored
<1>2. e \in Pairs
  BY DEF Pairs
<1>3. w \in Seq(Pairs) /\ Len(w) <= CacheSize /\ CacheSize \in Nat \ {0}
  BY WithoutIsShorter, ModelQueueConstants DEF Caches
<1> HIDE DEF w, e
<1>4. grown \in Seq(Pairs) /\ Len(grown) = Len(w) + 1 /\ grown # << >>
  BY <1>2, <1>3
<1> HIDE DEF grown
<1>5. CASE Len(grown) > CacheSize
  <2>1. Tail(grown) \in Seq(Pairs) /\ Len(Tail(grown)) = Len(grown) - 1
    BY <1>4
  <2> QED
    BY <1>1, <1>3, <1>4, <1>5, <2>1 DEF Caches
<1>6. CASE ~(Len(grown) > CacheSize)
  BY <1>1, <1>3, <1>4, <1>6 DEF Caches
<1> QED
  BY <1>5, <1>6

LEMMA KnownIsRight ==
  ASSUME NEW c \in Caches, NEW t
  PROVE  Known(c, t) \in {Vector(t), NoVector}
<1>1. CASE ~Cached(c, t)
  BY <1>1 DEF Known
<1>2. CASE Cached(c, t)
  <2> DEFINE e == c[Lookup(c, t)]
  <2>1. e \in Pairs /\ e[1] = t
    BY <1>2, WithoutIsShorter DEF Caches
  <2>2. Known(c, t) = e[2]
    BY <1>2 DEF Known
  <2> HIDE DEF e
  <2>3. e[2] = Vector(e[1])
    BY <2>1 DEF Pairs
  <2> QED
    BY <2>1, <2>2, <2>3
<1> QED
  BY <1>1, <1>2

LEMMA FirstFailure ==
  ASSUME NEW T \in SUBSET Nat, T # {}
  PROVE  \E n \in T : \A m \in 0..(n - 1) : m \notin T
<1>1. PICK R : R = OpToRel(<, Nat)
  OBVIOUS
<1>2. IsWellFoundedOn(R, Nat)
  BY <1>1, NatLessThanWellFounded
<1>3. \A x, y \in Nat : y < x => <<y, x>> \in R
  BY <1>1 DEF OpToRel
<1>4. PICK n \in T : \A m \in T : ~(<<m, n>> \in R)
  BY <1>2, WFMin
<1>5. ASSUME NEW m \in 0..(n - 1) PROVE m \notin T
  <2>1. n \in Nat /\ m \in Nat /\ m < n
    BY <1>5
  <2>2. <<m, n>> \in R
    BY <1>3, <2>1
  <2> QED
    BY <1>4, <2>2
<1> QED
  BY <1>5

(* What a loop over texts does to the cache: f holds what it is after each. *)
Looks(f, n, c, texts) ==
  f = [k \in 0..n |-> IF k = 0 THEN c ELSE Touched(f[k - 1], texts[k])]
Stores(f, n, c, texts, known, result) ==
  f = [k \in 0..n |->
         IF k = 0 THEN c
         ELSE IF known[k] # NoVector \/ result[k] = NoVector THEN f[k - 1]
         ELSE Stored(f[k - 1], texts[k], result[k])]

LEMMA LooksExist ==
  ASSUME NEW c, NEW texts, NEW n \in Nat
  PROVE  \E f : Looks(f, n, c, texts)
<1> DEFINE T == {m \in Nat : ~ \E f : Looks(f, m, c, texts)}
<1> SUFFICES ASSUME T # {} PROVE FALSE
  OBVIOUS
<1>1. PICK m \in T : \A k \in 0..(m - 1) : k \notin T
  BY FirstFailure
<1>2. CASE m = 0
  <2>1. Looks([k \in 0..0 |-> c], 0, c, texts)
    BY DEF Looks
  <2> QED
    BY <1>1, <1>2, <2>1
<1>3. CASE m # 0
  <2>1. m \in Nat /\ m - 1 \in Nat /\ m - 1 \in 0..(m - 1)
    BY <1>3
  <2>2. PICK g : Looks(g, m - 1, c, texts)
    BY <1>1, <2>1
  <2> DEFINE f == [k \in 0..m |-> IF k < m THEN g[k] ELSE Touched(g[m - 1], texts[m])]
  <2>3. \A k \in 0..(m - 1) : g[k] = IF k = 0 THEN c ELSE Touched(g[k - 1], texts[k])
    BY <2>2 DEF Looks
  <2>4. ASSUME NEW k \in 0..m
        PROVE  f[k] = IF k = 0 THEN c ELSE Touched(f[k - 1], texts[k])
    <3>1. CASE k = m
      <4>1. f[k] = Touched(g[m - 1], texts[m]) /\ f[k - 1] = g[m - 1]
        BY <2>1, <3>1
      <4> QED
        BY <1>3, <3>1, <4>1
    <3>2. CASE k # m
      <4>1. k \in 0..(m - 1) /\ f[k] = g[k] /\ (k # 0 => f[k - 1] = g[k - 1])
        BY <2>1, <3>2
      <4> QED
        BY <2>3, <4>1
    <3> QED
      BY <3>1, <3>2
  <2>5. f = [k \in 0..m |-> f[k]]
    OBVIOUS
  <2> HIDE DEF f
  <2>6. Looks(f, m, c, texts)
    BY <2>4, <2>5 DEF Looks
  <2> QED
    BY <1>1, <2>6
<1> QED
  BY <1>2, <1>3

LEMMA LooksStay ==
  ASSUME NEW c \in Caches, NEW texts, NEW n \in Nat, NEW f, Looks(f, n, c, texts)
  PROVE  f[n] \in Caches
<1> DEFINE T == {m \in 0..n : f[m] \notin Caches}
<1> SUFFICES ASSUME T # {} PROVE FALSE
  <2>1. n \in 0..n
    OBVIOUS
  <2> QED
    BY <2>1
<1>0. T \in SUBSET Nat
  OBVIOUS
<1>1. PICK m \in T : \A k \in 0..(m - 1) : k \notin T
  <2> HIDE DEF T
  <2> QED
    BY <1>0, FirstFailure
<1>2. m \in 0..n /\ f[m] \notin Caches
  BY <1>1
<1>3. f[m] = IF m = 0 THEN c ELSE Touched(f[m - 1], texts[m])
  BY <1>2 DEF Looks
<1>4. m # 0 /\ m - 1 \in 0..(m - 1) /\ m - 1 \in 0..n
  BY <1>2, <1>3
<1>5. f[m - 1] \in Caches
  BY <1>1, <1>4
<1> QED
  BY <1>2, <1>3, <1>4, <1>5, TouchedStays

LEMMA AllTouchedStays ==
  ASSUME NEW c \in Caches, NEW texts, Len(texts) \in Nat
  PROVE  AllTouched(c, texts) \in Caches
<1> DEFINE n == Len(texts)
           from == CHOOSE f : Looks(f, n, c, texts)
<1>1. AllTouched(c, texts) = from[n]
  BY DEF AllTouched, Looks
<1>2. Looks(from, n, c, texts)
  BY LooksExist
<1> HIDE DEF from
<1> QED
  BY <1>1, <1>2, LooksStay

LEMMA StoresExist ==
  ASSUME NEW c, NEW texts, NEW known, NEW result, NEW n \in Nat
  PROVE  \E f : Stores(f, n, c, texts, known, result)
<1> DEFINE T == {m \in Nat : ~ \E f : Stores(f, m, c, texts, known, result)}
           Skips(k) == known[k] # NoVector \/ result[k] = NoVector
           Next(d, k) == IF Skips(k) THEN d ELSE Stored(d, texts[k], result[k])
<1>0. \A f, m : Stores(f, m, c, texts, known, result) <=>
        f = [k \in 0..m |-> IF k = 0 THEN c ELSE Next(f[k - 1], k)]
  BY DEF Stores
<1> HIDE DEF Next
<1> SUFFICES ASSUME T # {} PROVE FALSE
  OBVIOUS
<1>1. PICK m \in T : \A k \in 0..(m - 1) : k \notin T
  BY FirstFailure
<1>2. CASE m = 0
  <2> DEFINE f == [k \in 0..0 |-> c]
  <2>1. f = [k \in 0..0 |-> IF k = 0 THEN c ELSE Next(f[k - 1], k)]
    OBVIOUS
  <2> HIDE DEF f
  <2> QED
    BY <1>0, <1>1, <1>2, <2>1
<1>3. CASE m # 0
  <2>1. m \in Nat /\ m - 1 \in Nat /\ m - 1 \in 0..(m - 1)
    BY <1>3
  <2>2. PICK g : Stores(g, m - 1, c, texts, known, result)
    BY <1>1, <2>1
  <2> DEFINE f == [k \in 0..m |-> IF k < m THEN g[k] ELSE Next(g[m - 1], m)]
  <2>3. \A k \in 0..(m - 1) : g[k] = IF k = 0 THEN c ELSE Next(g[k - 1], k)
    <3>1. g = [k \in 0..(m - 1) |-> IF k = 0 THEN c ELSE Next(g[k - 1], k)]
      BY <1>0, <2>2
    <3> QED
      BY <3>1
  <2>4. ASSUME NEW k \in 0..m
        PROVE  f[k] = IF k = 0 THEN c ELSE Next(f[k - 1], k)
    <3>1. CASE k = m
      <4>1. f[k] = Next(g[m - 1], m) /\ f[k - 1] = g[m - 1]
        BY <2>1, <3>1
      <4> QED
        BY <1>3, <3>1, <4>1
    <3>2. CASE k # m
      <4>1. k \in 0..(m - 1) /\ f[k] = g[k] /\ (k # 0 => f[k - 1] = g[k - 1])
        BY <2>1, <3>2
      <4> QED
        BY <2>3, <4>1
    <3> QED
      BY <3>1, <3>2
  <2>5. f = [k \in 0..m |-> f[k]]
    OBVIOUS
  <2> HIDE DEF f
  <2>6. f = [k \in 0..m |-> IF k = 0 THEN c ELSE Next(f[k - 1], k)]
    BY <2>4, <2>5
  <2> QED
    BY <1>0, <1>1, <2>6
<1> QED
  BY <1>2, <1>3

LEMMA AllStoredStays ==
  ASSUME NEW c \in Caches, NEW texts, NEW known, NEW result, Len(texts) \in Nat,
         \A k \in 1..Len(texts) : texts[k] \in Asked /\ result[k] \in {Vector(texts[k]), NoVector}
  PROVE  AllStored(c, texts, known, result) \in Caches
<1> DEFINE n == Len(texts)
           from == CHOOSE f : Stores(f, n, c, texts, known, result)
           T == {m \in 0..n : from[m] \notin Caches}
<1>1. AllStored(c, texts, known, result) = from[n]
  BY DEF AllStored, Stores
<1>2. Stores(from, n, c, texts, known, result)
  BY StoresExist
<1> HIDE DEF from
<1> SUFFICES ASSUME T # {} PROVE FALSE
  <2>1. n \in 0..n
    OBVIOUS
  <2>2. from[n] \in Caches
    BY <2>1
  <2> QED
    BY <1>1, <2>2
<1>0. T \in SUBSET Nat
  OBVIOUS
<1>3. PICK m \in T : \A k \in 0..(m - 1) : k \notin T
  <2> HIDE DEF T
  <2> QED
    BY <1>0, FirstFailure
<1>4. m \in 0..n /\ from[m] \notin Caches
  BY <1>3
<1>5. from[m] = IF m = 0 THEN c
                ELSE IF known[m] # NoVector \/ result[m] = NoVector THEN from[m - 1]
                ELSE Stored(from[m - 1], texts[m], result[m])
  BY <1>2, <1>4 DEF Stores
<1>6. m \in 1..n /\ m - 1 \in 0..(m - 1) /\ m - 1 \in 0..n
  BY <1>4, <1>5
<1>7. from[m - 1] \in Caches
  BY <1>3, <1>6
<1>8. texts[m] \in Asked /\ result[m] \in {Vector(texts[m]), NoVector}
  BY <1>6
<1>9. Stored(from[m - 1], texts[m], Vector(texts[m])) \in Caches
  BY <1>7, <1>8, StoredStays
<1> QED
  BY <1>4, <1>5, <1>6, <1>7, <1>8, <1>9


(* What is on the queue or with a worker has been asked for.               *)
Held ==
  /\ \A e \in heap : state[e[3]] # "new"
  /\ \A w \in DOMAIN worker : worker[w] \in Requests => state[worker[w]] # "new"

LEMMA HeldStays ==
  ASSUME QueueInv, Held,
         \A r \in Requests : state[r] # "new" => state'[r] # "new",
         \/ UNCHANGED <<heap, worker>>
         \/ \E w \in DOMAIN worker : NextOf(w)
         \/ \E r \in Requests : Enqueue(r) /\ state'[r] # "new"
  PROVE  Held'
<1> DEFINE Asleep == {"ready", "waiting"}
<1>1. heap \subseteq Entries /\ worker \in Seq(Asleep \union Requests) /\ DOMAIN worker = 1..Len(worker)
      /\ Len(worker) \in Nat /\ Asleep \intersect Requests = {}
  BY ModelQueueConstants DEF QueueInv, QueueTypes
<1>2. \A e \in heap : e[3] \in Requests /\ state'[e[3]] # "new"
  BY <1>1 DEF Held, Entries
<1>3. \A w \in DOMAIN worker : worker[w] \in Requests => state'[worker[w]] # "new"
  BY DEF Held
<1>4. CASE UNCHANGED <<heap, worker>>
  BY <1>2, <1>3, <1>4 DEF Held
<1>5. ASSUME NEW w \in DOMAIN worker, NextOf(w) PROVE Held'
  <2>1. CASE heap = {}
    <3>1. heap' = {} /\ worker' = [worker EXCEPT ![w] = "waiting"]
      BY <1>5, <2>1 DEF NextOf
    <3> QED
      BY <1>1, <1>3, <3>1 DEF Held
  <2>2. CASE heap # {}
    <3>1. worker' = [worker EXCEPT ![w] = First(heap)[3]] /\ heap' = heap \ {First(heap)}
      BY <1>5, <2>2 DEF NextOf, First, Before
    <3>2. First(heap) \in heap
      BY <2>2, FirstEntry DEF QueueInv
    <3> QED
      BY <1>2, <1>3, <3>1, <3>2 DEF Held
  <2> QED
    BY <2>1, <2>2
<1>6. ASSUME NEW r \in Requests, Enqueue(r), state'[r] # "new" PROVE Held'
  <2> DEFINE fresh == [n \in 1..(Parallel - Len(worker)) |-> "ready"]
             started == worker \o fresh
  <2>1. fresh \in Seq(Asleep) /\ \A n \in DOMAIN fresh : fresh[n] = "ready"
    <3>1. CASE Parallel >= Len(worker)
      <4>1. Parallel - Len(worker) \in Nat
        BY <1>1, <3>1, ModelQueueConstants
      <4> QED
        BY <4>1
    <3>2. CASE Parallel < Len(worker)
      <4>1. fresh = << >>
        BY <1>1, <3>2, ModelQueueConstants
      <4> HIDE DEF fresh
      <4> QED
        BY <4>1
    <3> QED
      BY <1>1, <3>1, <3>2, ModelQueueConstants
  <2>2. \A w \in DOMAIN started : started[w] = "ready" \/ (w \in DOMAIN worker /\ started[w] = worker[w])
    <3> HIDE DEF fresh
    <3> QED
      BY <1>1, <2>1
  <2>3. \/ worker' = started
        \/ \E w \in DOMAIN worker : worker' = [started EXCEPT ![w] = "ready"]
    BY <1>6 DEF Enqueue
  <2> HIDE DEF started
  <2>4. \A w \in DOMAIN worker' : worker'[w] = "ready" \/ (w \in DOMAIN worker /\ worker'[w] = worker[w])
    BY <2>2, <2>3
  <2>5. \A e \in heap' : state'[e[3]] # "new"
    BY <1>2, <1>6 DEF Enqueue
  <2> QED
    BY <1>1, <1>3, <2>4, <2>5 DEF Held
<1> QED
  BY <1>4, <1>5, <1>6

(* What a call has of its texts, and what its future will give it of those *)
(* it missed.                                                              *)
Right(r, s) ==
  DOMAIN s = DOMAIN Ask[r] /\ \A i \in DOMAIN s : s[i] \in {Vector(Ask[r][i]), NoVector}
Fits(r, s, values) ==
  /\ DOMAIN values = DOMAIN Misses(s)
  /\ \A k \in DOMAIN values : values[k] \in {Vector(Ask[r][Misses(s)[k]]), NoVector}
CallOk(r, st, s, values) ==
  IF st = "new" THEN values = << >>
  ELSE Right(r, s) /\ (st = "open" => values = << >> \/ Fits(r, s, values))
VectorInv ==
  /\ embedCache \in Caches /\ Held
  /\ DOMAIN state = Requests /\ DOMAIN slots = Embeds /\ DOMAIN computed = Embeds
  /\ \A r \in Embeds : CallOk(r, state[r], slots[r], computed[r])

LEMMA InitVectors == QueueInit => VectorInv
<1> SUFFICES ASSUME QueueInit PROVE VectorInv
  OBVIOUS
<1>1. embedCache \in Caches
  BY ModelQueueConstants DEF QueueInit, Caches
<1>2. Held
  BY DEF QueueInit, Held
<1>3. DOMAIN state = Requests /\ DOMAIN slots = Embeds /\ DOMAIN computed = Embeds
  BY DEF QueueInit
<1>4. \A r \in Embeds : state[r] = "new" /\ computed[r] = << >>
  BY DEF QueueInit, Embeds
<1> QED
  BY <1>1, <1>2, <1>3, <1>4 DEF VectorInv, CallOk

LEMMA PlacedIsRight ==
  ASSUME NEW r, NEW s, NEW values, Right(r, s), Fits(r, s, values)
  PROVE  Right(r, Placed(s, Misses(s), values))
<1> DEFINE missing == Misses(s)
           p == Placed(s, missing, values)
<1>1. DOMAIN p = DOMAIN s
  BY DEF Placed
<1>2. ASSUME NEW i \in DOMAIN s PROVE p[i] \in {Vector(Ask[r][i]), NoVector}
  <2>1. CASE \E k \in DOMAIN missing : missing[k] = i
    <3>1. PICK k \in DOMAIN missing : missing[k] = i /\ p[i] = values[k]
      <4> HIDE DEF missing
      <4> QED
        BY <2>1 DEF Placed
    <3> QED
      BY <3>1 DEF Fits
  <2>2. CASE ~ \E k \in DOMAIN missing : missing[k] = i
    <3>1. p[i] = s[i]
      <4> HIDE DEF missing
      <4> QED
        BY <2>2 DEF Placed
    <3> QED
      BY <3>1 DEF Right
  <2> QED
    BY <2>1, <2>2
<1> QED
  BY <1>1, <1>2 DEF Right

(* A step that touches neither the cache nor what calls have of it.        *)
LEMMA OthersKeepVectors ==
  ASSUME QueueInv, VectorInv, UNCHANGED <<computed, slots, embedCache>>,
         DOMAIN state' = Requests,
         \A r \in Requests : state[r] # "new" => state'[r] # "new",
         \A r \in Embeds : state'[r] = state[r] \/ (state[r] # "new" /\ state'[r] # "open"),
         Held'
  PROVE  VectorInv'
<1>1. ASSUME NEW r \in Embeds PROVE CallOk(r, state'[r], slots[r], computed[r])
  <2>1. CallOk(r, state[r], slots[r], computed[r])
    BY DEF VectorInv
  <2>2. r \in Requests
    BY DEF Embeds
  <2> QED
    BY <2>1, <2>2 DEF CallOk
<1> QED
  BY <1>1 DEF VectorInv

LEMMA EmbedKeeps ==
  ASSUME QueueInv, VectorInv, NEW r \in Requests, Embed(r)
  PROVE  VectorInv'
<1> DEFINE result == [i \in DOMAIN Ask[r] |-> Known(embedCache, Ask[r][i])]
<1>1. r \in Embeds /\ state[r] = "new" /\ embedCache \in Caches /\ Held /\ computed[r] = << >>
      /\ DOMAIN state = Requests /\ DOMAIN slots = Embeds /\ DOMAIN computed = Embeds
  BY DEF Embed, VectorInv, CallOk
<1>2. /\ slots' = [slots EXCEPT ![r] = result] /\ computed' = computed
      /\ embedCache' = AllTouched(embedCache, Ask[r])
      /\ \/ state' = [state EXCEPT ![r] = "closed"] /\ UNCHANGED <<heap, worker>>
         \/ state' = [state EXCEPT ![r] = "open"] /\ Enqueue(r)
  BY DEF Embed
<1>3. Right(r, result)
  BY <1>1, KnownIsRight DEF Right
<1> HIDE DEF result
<1>4. embedCache' \in Caches
  BY <1>1, <1>2, AskedIsTyped, AllTouchedStays
<1>5. /\ state'[r] # "new" /\ DOMAIN state' = Requests
      /\ \A q \in Requests \ {r} : state'[q] = state[q]
  BY <1>1, <1>2
<1>6. Held'
  BY <1>1, <1>2, <1>5, HeldStays
<1>7. ASSUME NEW q \in Embeds PROVE CallOk(q, state'[q], slots'[q], computed'[q])
  <2>1. CASE q = r
    BY <1>1, <1>2, <1>3, <1>5, <2>1 DEF CallOk
  <2>2. CASE q # r
    <3>1. state'[q] = state[q] /\ slots'[q] = slots[q] /\ computed'[q] = computed[q]
      BY <1>1, <1>2, <1>5, <2>2 DEF Embeds
    <3> QED
      BY <3>1 DEF VectorInv
  <2> QED
    BY <2>1, <2>2
<1>8. DOMAIN slots' = Embeds /\ DOMAIN computed' = Embeds
  BY <1>1, <1>2
<1> QED
  BY <1>4, <1>5, <1>6, <1>7, <1>8 DEF VectorInv

LEMMA ResumeKeeps ==
  ASSUME QueueInv, VectorInv, NEW r \in Requests, Resume(r)
  PROVE  VectorInv'
<1> DEFINE result == Placed(slots[r], Misses(slots[r]), computed[r])
<1>1. /\ r \in Embeds /\ state[r] = "open" /\ computed[r] # << >>
      /\ slots' = [slots EXCEPT ![r] = result]
      /\ embedCache' = AllStored(embedCache, Ask[r], slots[r], result)
      /\ state' = [state EXCEPT ![r] = "closed"] /\ UNCHANGED <<heap, worker, computed>>
  BY DEF Resume
<1>2. /\ embedCache \in Caches /\ Held /\ CallOk(r, state[r], slots[r], computed[r])
      /\ DOMAIN state = Requests /\ DOMAIN slots = Embeds /\ DOMAIN computed = Embeds
  BY <1>1 DEF VectorInv
<1>3. Right(r, result)
  BY <1>1, <1>2, PlacedIsRight DEF CallOk
<1> HIDE DEF result
<1>4. embedCache' \in Caches
  <2>1. Len(Ask[r]) \in Nat
        /\ \A k \in 1..Len(Ask[r]) : Ask[r][k] \in Asked /\ result[k] \in {Vector(Ask[r][k]), NoVector}
    BY <1>1, <1>3, AskedIsTyped DEF Right
  <2> QED
    BY <1>1, <1>2, <2>1, AllStoredStays
<1>5. /\ state'[r] = "closed" /\ DOMAIN state' = Requests
      /\ \A q \in Requests \ {r} : state'[q] = state[q]
  BY <1>1, <1>2
<1>6. Held'
  BY <1>1, <1>2, <1>5, HeldStays
<1>7. ASSUME NEW q \in Embeds PROVE CallOk(q, state'[q], slots'[q], computed'[q])
  <2>1. CASE q = r
    BY <1>1, <1>2, <1>3, <1>5, <2>1 DEF CallOk
  <2>2. CASE q # r
    <3>1. state'[q] = state[q] /\ slots'[q] = slots[q] /\ computed'[q] = computed[q]
      BY <1>1, <1>2, <1>5, <2>2 DEF Embeds
    <3> QED
      BY <3>1 DEF VectorInv
  <2> QED
    BY <2>1, <2>2
<1>8. DOMAIN slots' = Embeds /\ DOMAIN computed' = Embeds
  BY <1>1, <1>2
<1> QED
  BY <1>4, <1>5, <1>6, <1>7, <1>8 DEF VectorInv

LEMMA EndEmbedKeeps ==
  ASSUME QueueInv, VectorInv, NEW w \in DOMAIN worker, NEW failed, EndEmbed(w, failed)
  PROVE  VectorInv'
<1> DEFINE r == worker[w]
           missing == Misses(slots[r])
           values == [k \in DOMAIN missing |->
                        IF missing[k] \in failed THEN NoVector ELSE Vector(Ask[r][missing[k]])]
<1>1. /\ r \in Embeds /\ NextOf(w) /\ UNCHANGED <<state, slots, embedCache>>
      /\ computed' = [computed EXCEPT ![r] = IF state[r] = "left" THEN << >> ELSE values]
  BY DEF EndEmbed
<1>2. Fits(r, slots[r], values)
  BY DEF Fits
<1> HIDE DEF missing, values
<1>3. /\ embedCache \in Caches /\ Held /\ \A q \in Embeds : CallOk(q, state[q], slots[q], computed[q])
      /\ DOMAIN state = Requests /\ DOMAIN slots = Embeds /\ DOMAIN computed = Embeds
  BY DEF VectorInv
<1>4. state[r] # "new"
  BY <1>1, <1>3 DEF Held, Embeds
<1>5. Held'
  BY <1>1, <1>3, HeldStays
<1>6. ASSUME NEW q \in Embeds PROVE CallOk(q, state[q], slots[q], computed'[q])
  <2>1. CASE q = r
    <3>1. computed'[r] = IF state[r] = "left" THEN << >> ELSE values
      BY <1>1, <1>3
    <3>2. CallOk(r, state[r], slots[r], computed[r])
      BY <1>1, <1>3
    <3> HIDE DEF r
    <3> QED
      BY <1>2, <1>4, <2>1, <3>1, <3>2 DEF CallOk
  <2>2. CASE q # r
    <3>1. computed'[q] = computed[q]
      BY <1>1, <1>3, <2>2
    <3> QED
      BY <1>3, <3>1
  <2> QED
    BY <2>1, <2>2
<1>7. DOMAIN computed' = Embeds
  BY <1>1, <1>3
<1> QED
  BY <1>1, <1>3, <1>5, <1>6, <1>7 DEF VectorInv

LEMMA StepVectors == QueueInv /\ VectorInv /\ [QueueNext]_queueVars => VectorInv'
<1> SUFFICES ASSUME QueueInv, VectorInv, [QueueNext]_queueVars PROVE VectorInv'
  OBVIOUS
<1>0. Held /\ DOMAIN state = Requests
  BY DEF VectorInv
<1>1. ASSUME UNCHANGED <<heap, worker, state, computed, slots, embedCache>> PROVE VectorInv'
  BY <1>0, <1>1, HeldStays, OthersKeepVectors
<1>2. ASSUME NEW r \in Requests, Complete(r) PROVE VectorInv'
  <2>1. /\ r \notin Embeds /\ Enqueue(r) /\ UNCHANGED <<computed, slots, embedCache>>
        /\ state' = [state EXCEPT ![r] = "open"]
    BY <1>2 DEF Complete, Embeds
  <2>2. state'[r] # "new" /\ DOMAIN state' = Requests /\ \A q \in Requests \ {r} : state'[q] = state[q]
    BY <1>0, <2>1
  <2>3. \A q \in Embeds : state'[q] = state[q]
    BY <2>1, <2>2 DEF Embeds
  <2>4. Held'
    BY <1>0, <2>1, <2>2, HeldStays
  <2> QED
    BY <2>1, <2>2, <2>3, <2>4, OthersKeepVectors
<1>3. ASSUME NEW r \in Requests, Embed(r) PROVE VectorInv'
  BY <1>3, EmbedKeeps
<1>4. ASSUME NEW r \in Requests, Receive(r) \/ Leave(r) PROVE VectorInv'
  <2>1. /\ UNCHANGED <<heap, worker, computed, slots, embedCache>> /\ state[r] = "open"
        /\ \/ state' = state
           \/ state' = [state EXCEPT ![r] = "closed"]
           \/ state' = [state EXCEPT ![r] = "left"]
    BY <1>4 DEF Receive, Leave
  <2>2. /\ DOMAIN state' = Requests
        /\ \A q \in Requests : state'[q] = state[q] \/ (state[q] # "new" /\ state'[q] \in {"closed", "left"})
    BY <1>0, <2>1
  <2>3. \A q \in Requests : state[q] # "new" => state'[q] # "new"
    BY <2>2
  <2>4. \A q \in Embeds : state'[q] = state[q] \/ (state[q] # "new" /\ state'[q] # "open")
    BY <2>2 DEF Embeds
  <2>5. Held'
    BY <1>0, <2>1, <2>3, HeldStays
  <2> QED
    BY <2>1, <2>2, <2>3, <2>4, <2>5, OthersKeepVectors
<1>5. ASSUME NEW r \in Requests, Resume(r) PROVE VectorInv'
  BY <1>5, ResumeKeeps
<1>6. ASSUME NEW w \in DOMAIN worker, NextOf(w), UNCHANGED <<state, computed, slots, embedCache>>
      PROVE  VectorInv'
  BY <1>0, <1>6, HeldStays, OthersKeepVectors
<1>7. ASSUME NEW w \in DOMAIN worker, Wake(w) PROVE VectorInv'
  BY <1>6, <1>7 DEF Wake
<1>8. ASSUME NEW w \in DOMAIN worker, Produce(w) PROVE VectorInv'
  BY <1>1, <1>8 DEF Produce
<1>9. ASSUME NEW w \in DOMAIN worker, NEW how, EndStream(w, how) PROVE VectorInv'
  BY <1>6, <1>9 DEF EndStream
<1>10. ASSUME NEW w \in DOMAIN worker, NEW failed, EndEmbed(w, failed) PROVE VectorInv'
  BY <1>10, EndEmbedKeeps
<1>11. CASE UNCHANGED queueVars
  BY <1>1, <1>11 DEF queueVars
<1> QED
  BY <1>2, <1>3, <1>4, <1>5, <1>7, <1>8, <1>9, <1>10, <1>11 DEF QueueNext

(* An embedding call returns each text's own vector or none, and the cache *)
(* keeps within its size and has no other vector for a text, for any       *)
(* number of calls that miss, fill and evict around each other's awaits    *)
(* (ai.py:516-602).                                                        *)
THEOREM VectorsStayRight == QueueSpec => []VectorsMatchTexts
<1>1. VectorInv => VectorsMatchTexts
  <2> SUFFICES ASSUME VectorInv PROVE VectorsMatchTexts
    OBVIOUS
  <2>1. \A r \in Embeds : state[r] = "closed" =>
          \A i \in DOMAIN Ask[r] : slots[r][i] \in {Vector(Ask[r][i]), NoVector}
    BY DEF VectorInv, CallOk, Right
  <2>2. embedCache \in Seq(Pairs) /\ Len(embedCache) <= CacheSize
    BY DEF VectorInv, Caches
  <2>3. \A i \in DOMAIN embedCache : embedCache[i] \in Pairs
    BY <2>2
  <2>4. \A p \in Pairs : p[2] = Vector(p[1])
    BY DEF Pairs
  <2> QED
    BY <2>1, <2>2, <2>3, <2>4 DEF VectorsMatchTexts
<1> QED
  BY <1>1, InitQueue, StepQueue, InitVectors, StepVectors, PTL DEF QueueSpec

-----------------------------------------------------------------------------
(* The index of a databank.  Usual: no file is emptied, two changes of a   *)
(* file are told apart by their times, and a folder that was away is not   *)
(* back before the calls in progress are over; without each of them TLC    *)
(* finds a stale answer.                                                   *)
Usual == Blank \notin Texts /\ ~CoarseTime /\ ~QuickMoves

Said == Texts \union {Absent}
Calls ==
  [pc: {"idle", "waiting", "embedding", "query", "done"}, bank: 0..MaxBanks,
   todo: SUBSET Files, read: [Files -> Said], cut: BOOLEAN,
   since: SUBSET (Files \X Said), answer: [Files -> Answers \union {Absent}]]
Folders == [Files -> Versions \union {Absent}]
Tables ==
  {r \in [Files -> Rows \union {Absent}] :
     \A f \in Files : r[f] # Absent => r[f].vecs = (r[f].model # "")}

RagTypes ==
  /\ disk \in Folders /\ folder \in BOOLEAN /\ edits \in 0..MaxEdits /\ model \in Models
  /\ banks \in 0..MaxBanks /\ bank \in {0, banks}
  /\ cache \in [Banks -> Folders] /\ holder \in [Banks -> Searchers \union {NoTask}]
  /\ rows \in Tables
  /\ search \in [Searchers -> Calls]

(* What is cached under the modification time of a file is that file.      *)
Dated(d) == \A f \in Files : d[f] # Absent => d[f].mtime <= edits
SameTime(c, d) ==
  \A f \in Files : c[f] # Absent /\ d[f] # Absent /\ c[f].mtime = d[f].mtime => c[f] = d[f]
CachesAgree ==
  /\ Dated(disk)
  /\ \A b \in Banks : Dated(cache[b]) /\ SameTime(cache[b], disk)

(* Calls in progress are about the newest registration; one embeds.        *)
OneAtWork ==
  \A i \in Searchers :
    /\ ~Resting(i) => search[i].bank = banks /\ banks # 0 /\ (folder => bank = banks)
    /\ search[i].pc = "embedding" =>
         holder[banks] = i /\ search[i].todo # {} /\ model # "" /\ ~search[i].cut

(* A caller has seen what the files say now.                               *)
Sees(s, said) == \A f \in Files : <<f, said[f]>> \in s.since
Reads(s) == s.pc \in {"embedding", "query"}
Asks(s) == s.pc = "query" /\ ~s.cut
Seen == \A i \in Searchers : Reads(search[i]) => Sees(search[i], TextsOf(disk))

(* The rows a scan is done with are those of the texts it read, and those  *)
(* texts are no news to whoever asks meanwhile.                            *)
Match(row, text) ==
  IF text = Absent THEN row = Absent ELSE row # Absent /\ row.text = text /\ row.model = model
ScanIsFresh ==
  \A i \in Searchers : search[i].pc = "embedding" =>
    /\ \A f \in Files :
         IF f \in search[i].todo THEN search[i].read[f] # Absent
         ELSE Match(rows[f], search[i].read[f])
    /\ Sees(search[i], search[i].read)
    /\ \A k \in Searchers : Asks(search[k]) => Sees(search[k], search[i].read)

(* A caller who asks would be answered with what he has seen.              *)
Current(r) == \A f \in Files : r[f] # Absent => r[f].model = model
AskersAreFresh ==
  \A i \in Searchers : Asks(search[i]) =>
    model # "" /\ Sees(search[i], TextsOf(rows)) /\ Current(rows)

RagInv ==
  /\ RagTypes /\ CachesAgree /\ OneAtWork
  /\ Seen /\ ScanIsFresh /\ AskersAreFresh /\ AnswersAreFresh

LEMMA EmptyIsTyped == Empty \in Folders /\ Empty \in Tables /\ Idle \in Calls
<1>1. Empty \in Folders /\ Empty \in Tables
  BY DEF Empty, Folders, Tables
<1>2. Idle \in Calls
  BY RagConstants DEF Empty, Idle, Calls, Said
<1> QED
  BY <1>1, <1>2

LEMMA InitRag == RagInit => RagInv
<1> SUFFICES ASSUME RagInit PROVE RagInv
  OBVIOUS
<1>1. \A i \in Searchers : search[i].pc = "idle"
  BY DEF RagInit, Idle
<1>2. RagTypes
  BY EmptyIsTyped, RagConstants DEF RagInit, RagTypes
<1>3. CachesAgree
  BY DEF RagInit, CachesAgree, Dated, SameTime, Empty
<1>4. OneAtWork /\ Seen /\ ScanIsFresh /\ AskersAreFresh /\ AnswersAreFresh
  BY <1>1 DEF OneAtWork, Resting, Seen, Reads, ScanIsFresh, AskersAreFresh, Asks, AnswersAreFresh
<1> QED
  BY <1>2, <1>3, <1>4 DEF RagInv

LEMMA SaysIsText ==
  ASSUME Usual, NEW d \in Folders, NEW f \in Files
  PROVE  Says(d, f) = TextOf(d, f) /\ TextOf(d, f) \in Said /\ (TextOf(d, f) = Absent <=> d[f] = Absent)
<1>1. d[f] = Absent \/ (d[f] # Absent /\ d[f].text \in Texts /\ d[f].text # Absent)
  BY RagConstants DEF Folders, Versions
<1> QED
  BY <1>1 DEF Says, TextOf, Usual, Said

(* Files change: every caller who reads sees it.                           *)
Watched(s, c, d) ==
  /\ c \in Calls /\ c.pc = s.pc /\ c.bank = s.bank /\ c.todo = s.todo /\ c.read = s.read
  /\ c.cut = s.cut /\ c.answer = s.answer
  /\ s.since \subseteq c.since
  /\ Reads(s) => Sees(c, TextsOf(d))

LEMMA WitnessedWatches ==
  ASSUME Usual, RagTypes, NEW d \in Folders, NEW i \in Searchers
  PROVE  Watched(search[i], Witnessed(d)[i], d)
<1> DEFINE s == search[i]
           news == {<<f, Says(d, f)>> : f \in Files}
<1>1. s \in Calls
  BY DEF RagTypes
<1>2. news \in SUBSET (Files \X Said)
  BY SaysIsText
<1>3. \A f \in Files : <<f, TextsOf(d)[f]>> \in news
  BY SaysIsText DEF TextsOf
<1>4. Witnessed(d)[i] = IF Reads(s) THEN [s EXCEPT !.since = @ \union news] ELSE s
  BY DEF Witnessed, Reads
<1> HIDE DEF s, news
<1>5. CASE ~Reads(s)
  BY <1>1, <1>4, <1>5 DEF Watched, s
<1>6. CASE Reads(s)
  <2> DEFINE c == [s EXCEPT !.since = @ \union news]
  <2>1. /\ c \in Calls /\ c.pc = s.pc /\ c.bank = s.bank /\ c.todo = s.todo /\ c.read = s.read
        /\ c.cut = s.cut /\ c.answer = s.answer /\ c.since = s.since \union news
    BY <1>1, <1>2 DEF Calls
  <2> HIDE DEF c
  <2>2. Sees(c, TextsOf(d))
    BY <2>1, <1>3 DEF Sees
  <2>3. Watched(s, c, d)
    BY <2>1, <2>2 DEF Watched
  <2> QED
    BY <2>3, <1>4, <1>6 DEF s, c
<1> QED
  BY <1>5, <1>6

LEMMA ChangeKeeps ==
  ASSUME Usual, RagInv, NEW d \in Folders, Change(d),
         \A f \in Files : d[f] # Absent => d[f] = disk[f] \/ d[f].mtime = edits + 1,
         folder' \in BOOLEAN,
         folder' /\ ~folder => \A i \in Searchers : Resting(i)
  PROVE  RagInv'
<1>0. UNCHANGED <<model, bank, banks, cache, holder, rows, targets>> /\ disk' = d /\ edits' = edits + 1 /\ edits < MaxEdits
  BY DEF Change
<1>1. \A i \in Searchers : Watched(search[i], search'[i], d)
  BY WitnessedWatches DEF Change, RagInv
<1>2. search' \in [Searchers -> Calls]
  <2>1. search' = [i \in Searchers |-> search'[i]]
    BY DEF Change, Witnessed
  <2> QED
    BY <2>1, <1>1 DEF Watched
<1>3. RagTypes'
  BY <1>0, <1>2, RagConstants DEF RagInv, RagTypes
<1>4. CachesAgree'
  <2>1. edits \in Nat /\ cache \in [Banks -> Folders] /\ disk \in Folders
    BY RagConstants DEF RagInv, RagTypes
  <2>2. \A c \in Folders, f \in Files : c[f] # Absent => c[f].mtime \in Nat
    BY RagConstants DEF Folders, Versions
  <2>3. ASSUME NEW c \in Folders, Dated(c), SameTime(c, disk)
        PROVE  Dated(c)' /\ SameTime(c, d)
    <3>1. \A f \in Files : c[f] # Absent => c[f].mtime <= edits
      BY <2>3 DEF Dated
    <3>2. Dated(c)'
      BY <1>0, <2>1, <2>2, <3>1 DEF Dated
    <3>3. SameTime(c, d)
      BY <1>0, <2>1, <2>2, <2>3, <3>1 DEF SameTime
    <3> QED
      BY <3>2, <3>3
  <2>4. Dated(d)'
    BY <1>0, <2>1, <2>2 DEF RagInv, CachesAgree, Dated
  <2> QED
    BY <1>0, <2>1, <2>3, <2>4 DEF RagInv, CachesAgree
<1>5. OneAtWork'
  BY <1>0, <1>1 DEF RagInv, OneAtWork, Resting, Watched
<1>6. Seen'
  BY <1>0, <1>1 DEF Seen, Watched, Reads
<1>7. \A i \in Searchers : \A said : Sees(search[i], said) => Sees(search'[i], said)
  BY <1>1 DEF Watched, Sees
<1>8. \A i \in Searchers : Asks(search'[i]) <=> Asks(search[i])
  BY <1>1 DEF Watched, Asks
<1>9. ScanIsFresh'
  <2>1. \A i \in Searchers : /\ search'[i].pc = search[i].pc /\ search'[i].todo = search[i].todo
                             /\ search'[i].read = search[i].read
    BY <1>1 DEF Watched
  <2> QED
    BY <1>0, <1>7, <1>8, <2>1 DEF RagInv, ScanIsFresh, Match
<1>10. AskersAreFresh'
  <2>1. \A i \in Searchers : Asks(search[i]) => model # "" /\ Sees(search[i], TextsOf(rows)) /\ Current(rows)
    BY DEF RagInv, AskersAreFresh
  <2>2. rows' = rows /\ model' = model
    BY <1>0
  <2> QED
    BY <1>7, <1>8, <2>1, <2>2 DEF AskersAreFresh, Current
<1>11. AnswersAreFresh'
  <2>1. \A i \in Searchers : /\ search'[i].pc = search[i].pc /\ search'[i].cut = search[i].cut
                             /\ search'[i].answer = search[i].answer /\ search[i].since \subseteq search'[i].since
    BY <1>1 DEF Watched
  <2> QED
    BY <2>1 DEF RagInv, AnswersAreFresh
<1> QED
  BY <1>3, <1>4, <1>5, <1>6, <1>9, <1>10, <1>11 DEF RagInv

LEMMA FilesKeep ==
  ASSUME Usual, RagInv,
         (\E f \in Files : Delete(f) \/ \E t \in Texts : Write(f, t)) \/ MoveFolder
  PROVE  RagInv'
<1>1. disk \in Folders /\ folder \in BOOLEAN /\ edits \in 0..MaxEdits
  BY DEF RagInv, RagTypes
<1>2. ASSUME NEW f \in Files, Delete(f) PROVE RagInv'
  <2> DEFINE d == [disk EXCEPT ![f] = Absent]
  <2>1. Change(d) /\ folder' = folder
    BY <1>2 DEF Delete
  <2>2. d \in Folders /\ \A g \in Files : d[g] # Absent => d[g] = disk[g] \/ d[g].mtime = edits + 1
    BY <1>1 DEF Folders
  <2> HIDE DEF d
  <2> QED
    BY <1>1, <2>1, <2>2, ChangeKeeps
<1>3. ASSUME NEW f \in Files, NEW t \in Texts, Write(f, t) PROVE RagInv'
  <2> DEFINE v == [text |-> t, mtime |-> edits + 1]
             d == [disk EXCEPT ![f] = v]
  <2>1. Change(d) /\ folder' = folder /\ edits < MaxEdits
    BY <1>3 DEF Write, Usual, Change
  <2>2. v \in Versions /\ v.mtime = edits + 1
    BY <1>1, <2>1, RagConstants DEF Versions
  <2> HIDE DEF v
  <2>3. d \in Folders /\ \A g \in Files : d[g] # Absent => d[g] = disk[g] \/ d[g].mtime = edits + 1
    BY <1>1, <2>2 DEF Folders
  <2> HIDE DEF d
  <2> QED
    BY <1>1, <2>1, <2>3, ChangeKeeps
<1>4. ASSUME MoveFolder PROVE RagInv'
  <2>1. Change(Empty) /\ folder' \in BOOLEAN /\ (folder' /\ ~folder => \A i \in Searchers : Resting(i))
    BY <1>4 DEF MoveFolder, Usual, Resting
  <2>2. \A f \in Files : Empty[f] = Absent
    BY DEF Empty
  <2> QED
    BY <2>1, <2>2, EmptyIsTyped, ChangeKeeps
<1> QED
  BY <1>2, <1>3, <1>4

(* A registration is settled while calls are in progress.                  *)
Settled ==
  /\ banks' \in 0..MaxBanks /\ bank' \in {0, banks'}
  /\ \A k \in Searchers : ~Resting(k) => banks' = banks /\ (folder => bank' = banks')

LEMMA StaysSettled ==
  ASSUME RagInv, UNCHANGED <<bank, banks>>
  PROVE  Settled
BY DEF RagInv, RagTypes, OneAtWork, Settled

LEMMA DiscoverSettles ==
  ASSUME RagInv, Discover
  PROVE  /\ Settled
         /\ Discovered # 0 => Discovered = banks' /\ banks' \in Banks /\ bank' = banks'
<1>1. banks \in 0..MaxBanks /\ bank \in {0, banks} /\ folder \in BOOLEAN /\ MaxBanks \in Nat
  BY RagConstants DEF RagInv, RagTypes
<1>2. \A k \in Searchers : ~Resting(k) => banks # 0 /\ (folder => bank = banks)
  BY DEF RagInv, OneAtWork
<1> QED
  BY <1>1, <1>2 DEF Discover, Discovered, Settled, Banks

(* A call that neither reads nor asks disturbs no other.                   *)
LEMMA CallWaits ==
  ASSUME RagInv, Settled, NEW i \in Searchers, Resting(i), NEW c \in Calls,
         search' = [search EXCEPT ![i] = c],
         c.pc = "idle" \/ (c.pc = "waiting" /\ c.bank = banks' /\ banks' # 0 /\ bank' = banks'),
         UNCHANGED <<disk, folder, edits, model, cache, holder, rows>>
  PROVE  RagInv'
<1>1. search \in [Searchers -> Calls] /\ search'[i] = c /\ \A k \in Searchers \ {i} : search'[k] = search[k]
  BY DEF RagInv, RagTypes
<1>2. RagTypes'
  BY DEF RagInv, RagTypes, Settled
<1>3. CachesAgree'
  BY DEF RagInv, CachesAgree, Dated
<1>4. OneAtWork'
  BY <1>1 DEF RagInv, OneAtWork, Settled, Resting
<1>5. Seen' /\ ScanIsFresh' /\ AskersAreFresh' /\ AnswersAreFresh'
  <2>1. \A k \in Searchers : search'[k].pc \in {"embedding", "query", "done"} => search'[k] = search[k]
    BY <1>1
  <2>2. Seen'
    BY <2>1 DEF RagInv, Seen, Reads
  <2>3. ScanIsFresh'
    BY <2>1 DEF RagInv, ScanIsFresh, Asks, Match
  <2>4. AskersAreFresh'
    BY <2>1 DEF RagInv, AskersAreFresh, Asks, Current
  <2>5. AnswersAreFresh'
    BY <2>1 DEF RagInv, AnswersAreFresh
  <2> QED
    BY <2>2, <2>3, <2>4, <2>5
<1> QED
  BY <1>2, <1>3, <1>4, <1>5 DEF RagInv

(* A call that has rested, waited or scanned goes on to ask, or is done.   *)
AnsweredWith(c, r) ==
  c.pc = "done" /\ ~c.cut =>
    /\ Sees(c, TextsOf(r))
    /\ \A f \in Files : c.answer[f] # Absent => c.answer[f].ranked
    /\ \A f \in Files : TextOf(c.answer, f) = TextOf(r, f)

LEMMA CallGoesOn ==
  ASSUME RagTypes', CachesAgree', Settled, AskersAreFresh, AnswersAreFresh, OneAtWork, Seen,
         UNCHANGED <<disk, folder, model>>,
         NEW i \in Searchers, NEW c \in Calls, search' = [search EXCEPT ![i] = c],
         search \in [Searchers -> Calls],
         \A k \in Searchers \ {i} : search[k].pc # "embedding",
         c.pc \in {"query", "done"},
         c.pc = "query" => c.bank = banks' /\ banks' # 0 /\ (folder => bank' = banks')
                           /\ Sees(c, TextsOf(disk)),
         Asks(c) => model # "" /\ Sees(c, TextsOf(rows')) /\ Current(rows'),
         AnsweredWith(c, rows'),
         \A k \in Searchers \ {i} : Asks(search[k]) => Sees(search[k], TextsOf(rows')) /\ Current(rows')
  PROVE  RagInv'
<1>1. search'[i] = c /\ \A k \in Searchers \ {i} : search'[k] = search[k]
  OBVIOUS
<1>2. OneAtWork'
  BY <1>1 DEF OneAtWork, Settled, Resting
<1>3. Seen'
  BY <1>1 DEF Seen, Reads
<1>4. ScanIsFresh'
  BY <1>1 DEF ScanIsFresh
<1>5. AskersAreFresh'
  BY <1>1 DEF AskersAreFresh, Asks, Current
<1>6. AnswersAreFresh'
  <2>1. CASE c.pc # "done" \/ c.cut
    BY <1>1, <2>1 DEF AnswersAreFresh
  <2>2. CASE c.pc = "done" /\ ~c.cut
    <3>1. \A f \in Files : /\ <<f, TextOf(c.answer, f)>> \in c.since
                           /\ c.answer[f] # Absent => c.answer[f].ranked
      BY <2>2 DEF AnsweredWith, Sees, TextsOf
    <3> QED
      BY <1>1, <3>1 DEF AnswersAreFresh
  <2> QED
    BY <2>1, <2>2
<1> QED
  BY <1>2, <1>3, <1>4, <1>5, <1>6 DEF RagInv

(* What a table says is what an answer from it says.                       *)
LEMMA AnswerIsTyped ==
  ASSUME NEW r \in Tables, NEW embedded \in BOOLEAN
  PROVE  Answer(r, embedded) \in [Files -> Answers \union {Absent}]
<1>1. \A f \in Files : r[f] # Absent =>
        [text |-> r[f].text, ranked |-> ~embedded \/ r[f].vecs] \in Answers
  <2> SUFFICES ASSUME NEW f \in Files, r[f] # Absent
               PROVE  [text |-> r[f].text, ranked |-> ~embedded \/ r[f].vecs] \in Answers
    OBVIOUS
  <2>1. r[f].text \in Texts
    BY DEF Tables, Rows
  <2> DEFINE ranked == ~embedded \/ r[f].vecs
  <2>2. ranked \in BOOLEAN
    OBVIOUS
  <2> HIDE DEF ranked
  <2>3. [text |-> r[f].text, ranked |-> ranked] \in Answers
    BY <2>1, <2>2 DEF Answers
  <2> QED
    BY <2>3 DEF ranked
<1> QED
  BY <1>1 DEF Answer

LEMMA AnswerIsFaithful ==
  ASSUME NEW r \in Tables, NEW embedded \in BOOLEAN,
         embedded => Current(r) /\ model # ""
  PROVE  \A f \in Files :
              /\ TextOf(Answer(r, embedded), f) = TextOf(r, f)
              /\ Answer(r, embedded)[f] # Absent => Answer(r, embedded)[f].ranked
<1> DEFINE a == Answer(r, embedded)
           told(f) == [text |-> r[f].text, ranked |-> ~embedded \/ r[f].vecs]
<1>1. \A f \in Files : r[f] # Absent => /\ r[f].text \in Texts /\ r[f].vecs \in BOOLEAN
                                        /\ r[f].vecs = (r[f].model # "")
  BY DEF Tables, Rows
<1>2. a = [f \in Files |-> IF r[f] = Absent THEN Absent ELSE told(f)]
  BY DEF Answer, Current
<1>3. \A f \in Files : r[f] # Absent =>
        told(f) \in Answers /\ told(f) # Absent /\ told(f).text = r[f].text /\ told(f).ranked
  <2> SUFFICES ASSUME NEW f \in Files, r[f] # Absent
               PROVE  told(f) \in Answers /\ told(f) # Absent /\ told(f).text = r[f].text /\ told(f).ranked
    OBVIOUS
  <2>1. ~embedded \/ r[f].vecs
    BY <1>1 DEF Current
  <2>2. (~embedded \/ r[f].vecs) = TRUE
    BY <2>1
  <2>3. told(f) = [text |-> r[f].text, ranked |-> TRUE]
    BY <2>2
  <2>4. told(f) \in Answers
    BY <1>1, <2>3 DEF Answers
  <2> QED
    BY <2>3, <2>4, RagConstants
<1> HIDE DEF a, told
<1>5. \A f \in Files : TextOf(a, f) = TextOf(r, f) /\ (a[f] # Absent => a[f].ranked)
  BY <1>2, <1>3 DEF TextOf
<1> QED
  BY <1>5 DEF a

LEMMA SyncedCall ==
  ASSUME NEW i \in Searchers, NEW s \in Calls, NEW r \in Tables, Synced(i, s, r)
  PROVE  \E c \in Calls :
           /\ search' = [search EXCEPT ![i] = c]
           /\ c.bank = s.bank /\ c.since = s.since /\ c.cut = s.cut
           /\ c.pc = IF model = "" THEN "done" ELSE "query"
           /\ model = "" => c.answer = Answer(r, FALSE)
<1> DEFINE left == [s EXCEPT !.pc = "query", !.todo = {}, !.read = Empty]
           over == [left EXCEPT !.pc = "done", !.answer = Answer(r, FALSE)]
<1>1. Empty \in [Files -> Said] /\ Answer(r, FALSE) \in [Files -> Answers \union {Absent}]
  BY AnswerIsTyped DEF Empty, Said
<1>2. left \in Calls /\ left.bank = s.bank /\ left.since = s.since /\ left.cut = s.cut /\ left.pc = "query"
  BY <1>1 DEF Calls
<1>3. over \in Calls /\ over.bank = s.bank /\ over.since = s.since /\ over.cut = s.cut /\ over.pc = "done"
      /\ over.answer = Answer(r, FALSE)
  BY <1>1 DEF Calls
<1>4. search' = [search EXCEPT ![i] = IF model = "" THEN over ELSE left]
  BY DEF Synced
<1> HIDE DEF left, over
<1>5. CASE model = ""
  <2>1. search' = [search EXCEPT ![i] = over]
    BY <1>4, <1>5
  <2> QED
    BY <1>3, <1>5, <2>1
<1>6. CASE model # ""
  <2>1. search' = [search EXCEPT ![i] = left]
    BY <1>4, <1>6
  <2> QED
    BY <1>2, <1>6, <2>1
<1> QED
  BY <1>5, <1>6

LEMMA EntriesAreTheFiles ==
  ASSUME RagInv, NEW b \in Banks
  PROVE  [f \in Files |-> Entry(b, f)] = disk
<1>1. disk \in Folders /\ cache[b] \in Folders
  BY DEF RagInv, RagTypes
<1>2. SameTime(cache[b], disk)
  BY DEF RagInv, CachesAgree
<1>3. \A f \in Files : Entry(b, f) = disk[f]
  BY <1>2 DEF Entry, SameTime
<1>4. disk = [f \in Files |-> disk[f]]
  BY <1>1 DEF Folders
<1> QED
  BY <1>3, <1>4

(* Of the files that are left after a scan, those not to be embedded have  *)
(* the rows of their texts.                                                *)
LEMMA KeptAreFresh ==
  ASSUME Usual, RagInv
  PROVE  /\ Kept(disk) \in Tables /\ ToEmbed(disk) \subseteq Files
         /\ TextsOf(disk) \in [Files -> Said]
         /\ \A f \in Files : TextsOf(disk)[f] = Absent <=> disk[f] = Absent
         /\ \A f \in Files : IF f \in ToEmbed(disk) THEN TextsOf(disk)[f] # Absent
                             ELSE Match(Kept(disk)[f], TextsOf(disk)[f])
         /\ \A s : Sees(s, TextsOf(disk)) /\ Sees(s, TextsOf(rows)) => Sees(s, TextsOf(Kept(disk)))
         /\ Current(rows) => Current(Kept(disk))
<1>1. disk \in Folders /\ rows \in Tables
  BY DEF RagInv, RagTypes
<1>2. \A f \in Files : /\ TextsOf(disk)[f] = TextOf(disk, f)
                       /\ TextOf(disk, f) \in Said
                       /\ TextOf(disk, f) = Absent <=> disk[f] = Absent
  BY <1>1, SaysIsText DEF TextsOf
<1>3. Kept(disk) \in Tables
  BY <1>1 DEF Kept, Tables
<1>4. TextsOf(disk) \in [Files -> Said]
  BY <1>2 DEF TextsOf
<1>5. \A f \in Files : IF f \in ToEmbed(disk) THEN TextsOf(disk)[f] # Absent ELSE Match(Kept(disk)[f], TextsOf(disk)[f])
  <2> SUFFICES ASSUME NEW f \in Files
               PROVE  IF f \in ToEmbed(disk) THEN TextsOf(disk)[f] # Absent ELSE Match(Kept(disk)[f], TextsOf(disk)[f])
    OBVIOUS
  <2> DEFINE text == TextsOf(disk)[f]
  <2>1. text \in Said /\ (text # Blank \/ text = Absent)
    BY <1>2 DEF Said, Usual
  <2>2. f \in ToEmbed(disk) <=> text \notin {Absent, Blank} /\ Dirty(Kept(disk), f, text)
    BY <1>2 DEF ToEmbed, TextOf
  <2>3. Kept(disk)[f] = IF disk[f] = Absent THEN Absent ELSE rows[f]
    BY DEF Kept
  <2>4. disk[f] = Absent <=> text = Absent
    BY <1>2
  <2> HIDE DEF text
  <2>5. CASE text = Absent
    BY <2>2, <2>3, <2>4, <2>5 DEF Match, text
  <2>6. CASE text # Absent
    BY <2>1, <2>2, <2>3, <2>4, <2>6 DEF Match, Dirty, text
  <2> QED
    BY <2>5, <2>6
<1>6. ASSUME NEW s, Sees(s, TextsOf(disk)), Sees(s, TextsOf(rows)) PROVE Sees(s, TextsOf(Kept(disk)))
  <2>1. \A f \in Files : TextsOf(Kept(disk))[f] = TextsOf(disk)[f] \/ TextsOf(Kept(disk))[f] = TextsOf(rows)[f]
    BY DEF TextsOf, TextOf, Kept
  <2> QED
    BY <1>6, <2>1 DEF Sees
<1>7. Current(rows) => Current(Kept(disk))
  BY DEF Current, Kept
<1> QED
  BY <1>2, <1>3, <1>4, <1>5, <1>6, <1>7 DEF ToEmbed

(* With no model the rows are those of the texts at once.                  *)
LEMMA IndexedIsTyped ==
  ASSUME NEW r \in Tables, NEW f \in Files, NEW text \in Texts, NEW ok \in BOOLEAN, model \in Models
  PROVE  /\ Indexed(r, f, text, ok) \in Tables
         /\ \A g \in Files \ {f} : Indexed(r, f, text, ok)[g] = r[g]
         /\ IF model # "" /\ ~ok THEN Indexed(r, f, text, ok) = r
            ELSE Match(Indexed(r, f, text, ok)[f], text)
<1> DEFINE embedded == model # ""
           row == [text |-> text, model |-> model, vecs |-> embedded]
<1>0. embedded \in BOOLEAN
  OBVIOUS
<1> HIDE DEF embedded
<1>1. row \in Rows /\ row # Absent /\ row.vecs = embedded /\ row.text = text /\ row.model = model
  BY <1>0, RagConstants DEF Rows
<1>2. Indexed(r, f, text, ok) = IF model # "" /\ ~ok THEN r ELSE [r EXCEPT ![f] = row]
  BY DEF Indexed, embedded
<1>3. text # Absent
  BY RagConstants
<1> HIDE DEF row
<1> QED
  BY <1>1, <1>2, <1>3 DEF Tables, Match, embedded

LEMMA ScanKeeps ==
  ASSUME Usual, RagInv, Settled, NEW i \in Searchers, NEW b \in Banks,
         b = banks', folder => bank' = banks',
         \A k \in Searchers : search[k].pc # "embedding",
         Scan(i, b), UNCHANGED <<disk, folder, edits, model>>
  PROVE  RagInv'
<1> DEFINE text == TextsOf(disk)
           since == {<<f, Says(disk, f)>> : f \in Files}
           s == [pc |-> "embedding", bank |-> b, todo |-> ToEmbed(disk), read |-> text, cut |-> FALSE,
                 since |-> since, answer |-> Empty]
           all == AllIndexed(disk)
           free == [holder EXCEPT ![b] = NoTask]
           held == [holder EXCEPT ![b] = i]
<1>1. /\ cache' = [cache EXCEPT ![b] = disk]
      /\ IF ToEmbed(disk) = {} \/ model = ""
         THEN rows' = all /\ Synced(i, s, all) /\ holder' = free
         ELSE rows' = Kept(disk) /\ holder' = held /\ search' = [search EXCEPT ![i] = s]
  BY EntriesAreTheFiles DEF Scan
<1>2. /\ disk \in Folders /\ model \in Models /\ rows \in Tables /\ search \in [Searchers -> Calls]
      /\ cache \in [Banks -> Folders] /\ holder \in [Banks -> Searchers \union {NoTask}]
  BY DEF RagInv, RagTypes
<1>3. since \in SUBSET (Files \X Said)
  BY <1>2, SaysIsText
<1>4. Empty \in [Files -> Answers \union {Absent}] /\ b \in 0..MaxBanks /\ b # 0 /\ banks' # 0
  BY RagConstants DEF Empty, Banks
<1>5. s \in Calls
  BY <1>3, <1>4, KeptAreFresh DEF Calls
<1>6. \A f \in Files : <<f, text[f]>> \in since
  BY <1>2, SaysIsText DEF TextsOf
<1>7. /\ s.pc = "embedding" /\ s.bank = b /\ s.todo = ToEmbed(disk) /\ s.read = text /\ s.cut = FALSE
      /\ s.since = since
  OBVIOUS
<1>8. Sees(s, text)
  BY <1>6 DEF Sees
<1>9. CachesAgree'
  <2>1. \A c \in Banks : cache'[c] = cache[c] \/ cache'[c] = disk
    BY <1>1, <1>2
  <2>2. Dated(disk) /\ SameTime(disk, disk) /\ \A c \in Banks : Dated(cache[c]) /\ SameTime(cache[c], disk)
    BY DEF RagInv, CachesAgree, SameTime
  <2>3. \A d : Dated(d) => Dated(d)'
    BY DEF Dated
  <2> QED
    BY <2>1, <2>2, <2>3 DEF CachesAgree
<1>10. cache' \in [Banks -> Folders] /\ free \in [Banks -> Searchers \union {NoTask}]
       /\ held \in [Banks -> Searchers \union {NoTask}] /\ held[b] = i
  BY <1>1, <1>2
<1>11. \A k \in Searchers : Asks(search[k]) =>
         model # "" /\ Sees(search[k], text) /\ Sees(search[k], TextsOf(Kept(disk))) /\ Current(Kept(disk))
  BY KeptAreFresh DEF RagInv, AskersAreFresh, Seen, Reads, Asks
<1>12. ASSUME rows' \in Tables, holder' \in [Banks -> Searchers \union {NoTask}],
              search' \in [Searchers -> Calls]
       PROVE  RagTypes'
  BY <1>10, <1>12 DEF RagInv, RagTypes, Settled
<1> HIDE DEF text, since, s, all, free, held
<1>13. CASE ToEmbed(disk) = {} \/ model = ""
  <2>1. rows' = all /\ Synced(i, s, all) /\ holder' = free
    BY <1>1, <1>13
  <2>2. /\ \A f \in Files : Match(all[f], text[f])
        /\ all \in Tables
    <3>1. ASSUME NEW f \in Files
          PROVE  all[f] = (IF f \in ToEmbed(disk) THEN Indexed(Kept(disk), f, text[f], TRUE)[f] ELSE Kept(disk)[f])
      <4>1. f \in ToEmbed(disk) => disk[f].text = text[f]
        BY DEF ToEmbed, TextsOf, TextOf, text
      <4> QED
        BY <4>1 DEF all, AllIndexed
    <3>2. ASSUME NEW f \in Files
          PROVE  /\ Match(all[f], text[f])
                 /\ all[f] \in Rows \union {Absent} /\ (all[f] # Absent => all[f].vecs = (all[f].model # ""))
      <4>1. CASE f \in ToEmbed(disk)
        <5>1. text[f] \in Texts
          BY <4>1, KeptAreFresh DEF Said, text
        <5>2. Indexed(Kept(disk), f, text[f], TRUE) \in Tables /\ Match(Indexed(Kept(disk), f, text[f], TRUE)[f], text[f])
          BY <1>2, <5>1, KeptAreFresh, IndexedIsTyped
        <5> QED
          BY <3>1, <4>1, <5>2 DEF Tables
      <4>2. CASE f \notin ToEmbed(disk)
        <5>1. Kept(disk) \in Tables /\ Match(Kept(disk)[f], text[f])
          BY <4>2, KeptAreFresh DEF text
        <5> QED
          BY <3>1, <4>2, <5>1 DEF Tables
      <4> QED
        BY <4>1, <4>2
    <3>3. all = [f \in Files |-> all[f]]
      BY DEF all, AllIndexed
    <3> QED
      BY <3>2, <3>3 DEF Tables
  <2>3. \A f \in Files : TextOf(all, f) = text[f]
    BY <2>2 DEF Match, TextOf
  <2>4. Sees(s, TextsOf(all)) /\ Current(all)
    BY <1>8, <2>2, <2>3 DEF Sees, TextsOf, Current, Match
  <2>5. PICK c \in Calls :
           /\ search' = [search EXCEPT ![i] = c]
           /\ c.bank = s.bank /\ c.since = s.since /\ c.cut = s.cut
           /\ c.pc = IF model = "" THEN "done" ELSE "query"
           /\ model = "" => c.answer = Answer(all, FALSE)
    BY <1>5, <2>1, <2>2, SyncedCall
  <2>6. Sees(c, TextsOf(all)) /\ Sees(c, text)
    BY <1>8, <2>4, <2>5 DEF Sees
  <2>7. AnsweredWith(c, rows')
    <3>1. CASE model # ""
      BY <2>5, <3>1 DEF AnsweredWith
    <3>2. CASE model = ""
      BY <2>1, <2>2, <2>5, <2>6, <3>2, AnswerIsFaithful DEF AnsweredWith
    <3> QED
      BY <3>1, <3>2
  <2>8. \A k \in Searchers \ {i} : Asks(search[k]) => Sees(search[k], TextsOf(rows')) /\ Current(rows')
    BY <1>11, <2>1, <2>3, <2>4 DEF Sees, TextsOf
  <2>9. RagTypes'
    BY <1>2, <1>10, <1>12, <2>1, <2>2, <2>5
  <2>10. Asks(c) => model # "" /\ Sees(c, TextsOf(rows')) /\ Current(rows')
    BY <2>1, <2>4, <2>5, <2>6 DEF Asks
  <2>11. c.pc = "query" => c.bank = banks' /\ banks' # 0 /\ (folder => bank' = banks') /\ Sees(c, TextsOf(disk))
    BY <1>4, <1>7, <2>5, <2>6 DEF text
  <2>12. c.pc \in {"query", "done"}
    BY <2>5
  <2> QED
    BY <1>2, <1>9, <2>5, <2>7, <2>8, <2>9, <2>10, <2>11, <2>12, CallGoesOn DEF RagInv
<1>14. CASE ~(ToEmbed(disk) = {} \/ model = "")
  <2>1. rows' = Kept(disk) /\ holder' = held /\ search' = [search EXCEPT ![i] = s]
    BY <1>1, <1>14
  <2>2. search'[i] = s /\ \A k \in Searchers \ {i} : search'[k] = search[k]
    BY <1>2, <2>1
  <2>3. RagTypes'
    BY <1>2, <1>5, <1>10, <1>12, <2>1, KeptAreFresh
  <2>4. OneAtWork'
    <3>1. \A k \in Searchers \ {i} : ~Resting(k) => search[k].bank = banks' /\ banks' # 0 /\ (folder => bank' = banks')
      BY DEF RagInv, OneAtWork, Settled
    <3>2. search'[i].bank = banks' /\ holder'[banks'] = i /\ search'[i].todo # {} /\ model' # "" /\ ~search'[i].cut
      BY <1>7, <1>10, <1>14, <2>1, <2>2
    <3>3. \A k \in Searchers \ {i} : Resting(k)' = Resting(k) /\ search'[k].pc # "embedding"
      BY <2>2 DEF Resting
    <3> QED
      BY <1>4, <2>2, <3>1, <3>2, <3>3 DEF OneAtWork
  <2>5. Seen'
    BY <1>8, <2>2 DEF RagInv, Seen, Reads, text
  <2>6. ScanIsFresh'
    <3>1. ASSUME NEW k \in Searchers, search'[k].pc = "embedding" PROVE k = i
      BY <2>2, <3>1
    <3>2. \A f \in Files : IF f \in s.todo THEN s.read[f] # Absent ELSE Match(rows'[f], s.read[f])
      BY <1>7, <2>1, KeptAreFresh DEF text
    <3>3. \A k \in Searchers : Asks(search'[k]) => Sees(search'[k], s.read)
      BY <1>7, <1>11, <2>2 DEF Asks
    <3>4. Sees(s, s.read)
      BY <1>7, <1>8
    <3> QED
      BY <2>2, <3>1, <3>2, <3>3, <3>4 DEF ScanIsFresh, Match
  <2>7. AskersAreFresh'
    BY <1>7, <1>11, <2>1, <2>2 DEF AskersAreFresh, Asks, Current
  <2>8. AnswersAreFresh'
    BY <1>7, <2>2 DEF RagInv, AnswersAreFresh
  <2> QED
    BY <1>9, <2>3, <2>4, <2>5, <2>6, <2>7, <2>8 DEF RagInv
<1> QED
  BY <1>13, <1>14

LEMMA SyncKeeps ==
  ASSUME Usual, RagInv, Discover, Discovered # 0, NEW i \in Searchers, Resting(i),
         Sync(i, Discovered), UNCHANGED <<disk, folder, edits, model>>
  PROVE  RagInv'
<1>1. Settled /\ Discovered = banks' /\ banks' \in Banks /\ bank' = banks' /\ banks' # 0
  BY DiscoverSettles DEF Banks
<1> DEFINE b == banks'
<1>2. Sync(i, b) /\ b \in Banks /\ b = banks' /\ bank' = b /\ b # 0
  BY <1>1
<1>3. CASE MayScan(b)
  <2>1. Scan(i, b)
    BY <1>2, <1>3 DEF Sync
  <2>2. ASSUME NEW k \in Searchers, search[k].pc = "embedding" PROVE FALSE
    <3>1. ~Resting(k) /\ k # NoTask
      BY <2>2, RagConstants DEF Resting
    <3>2. banks' = banks /\ holder[banks] = k
      BY <1>1, <2>2, <3>1 DEF Settled, RagInv, OneAtWork
    <3> QED
      BY <1>3, <3>1, <3>2 DEF MayScan
  <2> HIDE DEF b
  <2> QED
    BY <1>1, <1>2, <2>1, <2>2, ScanKeeps
<1>4. CASE ~MayScan(b)
  <2> DEFINE c == [Idle EXCEPT !.pc = "waiting", !.bank = b]
  <2>1. search' = [search EXCEPT ![i] = c] /\ UNCHANGED <<cache, holder, rows>>
    BY <1>2, <1>4 DEF Sync
  <2>2. b \in 0..MaxBanks
    BY <1>2, RagConstants DEF Banks
  <2>3. c \in Calls /\ c.pc = "waiting" /\ c.bank = b
    <3> HIDE DEF b
    <3> QED
      BY <2>2, EmptyIsTyped DEF Calls
  <2> HIDE DEF c
  <2> QED
    BY <1>1, <2>1, <2>3, CallWaits
<1> QED
  BY <1>3, <1>4

LEMMA CallsKeep ==
  ASSUME Usual, RagInv, NEW i \in Searchers, Search(i) \/ Turn(i)
  PROVE  RagInv'
<1>1. Resting(i) /\ UNCHANGED <<disk, folder, edits, model>>
  BY DEF Search, Turn
<1>2. \/ Settled /\ search' = [search EXCEPT ![i] = Idle] /\ UNCHANGED <<cache, holder, rows>>
      \/ Discover /\ Discovered # 0 /\ Sync(i, Discovered)
  <2>1. CASE Search(i)
    BY <2>1, DiscoverSettles DEF Search
  <2>2. CASE Turn(i)
    BY <2>2, DiscoverSettles, StaysSettled DEF Turn
  <2> QED
    BY <2>1, <2>2
<1>3. CASE Settled /\ search' = [search EXCEPT ![i] = Idle] /\ UNCHANGED <<cache, holder, rows>>
  <2>1. Idle \in Calls /\ Idle.pc = "idle"
    BY EmptyIsTyped DEF Idle
  <2> QED
    BY <1>1, <1>3, <2>1, CallWaits
<1>4. CASE Discover /\ Discovered # 0 /\ Sync(i, Discovered)
  BY <1>1, <1>4, SyncKeeps
<1> QED
  BY <1>2, <1>3, <1>4

LEMMA AcquireKeeps ==
  ASSUME Usual, RagInv, NEW i \in Searchers, Acquire(i)
  PROVE  RagInv'
<1>1. search[i].pc = "waiting" /\ ~Resting(i) /\ holder[search[i].bank] = NoTask
  BY DEF Acquire, Resting
<1>2. search[i].bank = banks /\ banks # 0 /\ (folder => bank = banks)
  BY <1>1 DEF RagInv, OneAtWork
<1>3. Scan(i, banks) /\ UNCHANGED <<disk, folder, edits, model, bank, banks>>
  BY <1>2 DEF Acquire
<1>4. Settled /\ banks \in Banks
  BY <1>2, <1>3, StaysSettled, RagConstants DEF RagInv, RagTypes, Banks
<1>5. ASSUME NEW k \in Searchers, search[k].pc = "embedding" PROVE FALSE
  BY <1>1, <1>2, <1>5, RagConstants DEF RagInv, OneAtWork
<1> QED
  BY <1>2, <1>3, <1>4, <1>5, ScanKeeps

(* The embedder answers: one more file has the rows of the text read.      *)
LEMMA EmbeddedKeeps ==
  ASSUME Usual, RagInv, NEW i \in Searchers, NEW ok \in BOOLEAN, Embedded(i, ok)
  PROVE  RagInv'
<1> DEFINE s == search[i]
           f == FirstOf(s.todo)
           r == Indexed(rows, f, s.read[f], ok)
           over == ~ok \/ s.todo = {f}
           ended == [s EXCEPT !.cut = ~ok]
           ongoing == [s EXCEPT !.todo = @ \ {f}]
           free == [holder EXCEPT ![s.bank] = NoTask]
<1>1. /\ rows' = r
      /\ IF over THEN Synced(i, ended, r) /\ holder' = free
         ELSE search' = [search EXCEPT ![i] = ongoing] /\ holder' = holder
      /\ UNCHANGED <<disk, folder, edits, model, bank, banks, cache>>
  <2>1. search[i].pc = "embedding"
    BY DEF Embedded
  <2> QED
    BY DEF Embedded
<1>2. /\ disk \in Folders /\ model \in Models /\ rows \in Tables /\ search \in [Searchers -> Calls]
      /\ holder \in [Banks -> Searchers \union {NoTask}]
  BY DEF RagInv, RagTypes
<1>3. s \in Calls /\ s.pc = "embedding" /\ ~Resting(i)
  BY <1>2 DEF Embedded, Resting
<1>4. /\ s.bank = banks /\ banks # 0 /\ (folder => bank = banks)
      /\ s.todo # {} /\ model # "" /\ ~s.cut
      /\ \A k \in Searchers \ {i} : search[k].pc # "embedding"
  BY <1>3 DEF RagInv, OneAtWork
<1>5. /\ \A g \in Files : IF g \in s.todo THEN s.read[g] # Absent ELSE Match(rows[g], s.read[g])
      /\ Sees(s, s.read) /\ Sees(s, TextsOf(disk))
      /\ \A k \in Searchers : Asks(search[k]) => Sees(search[k], s.read)
  BY <1>3 DEF RagInv, ScanIsFresh, Seen, Reads
<1>6. f \in s.todo /\ f \in Files /\ s.read[f] \in Texts
  <2>1. f \in s.todo
    BY <1>4 DEF FirstOf
  <2>2. s.todo \in SUBSET Files /\ s.read \in [Files -> Said]
    BY <1>3 DEF Calls
  <2> HIDE DEF f, s
  <2> QED
    BY <1>5, <2>1, <2>2 DEF Said
<1>7. /\ r \in Tables /\ \A g \in Files \ {f} : r[g] = rows[g]
      /\ IF ~ok THEN r = rows ELSE Match(r[f], s.read[f])
  <2> DEFINE text == s.read[f]
  <2> HIDE DEF f, s, text
  <2>1. rows \in Tables /\ model \in Models /\ model # "" /\ f \in Files /\ text \in Texts
    BY <1>2, <1>4, <1>6 DEF text
  <2>2. /\ Indexed(rows, f, text, ok) \in Tables
        /\ \A g \in Files \ {f} : Indexed(rows, f, text, ok)[g] = rows[g]
        /\ IF model # "" /\ ~ok THEN Indexed(rows, f, text, ok) = rows
           ELSE Match(Indexed(rows, f, text, ok)[f], text)
    BY <2>1, IndexedIsTyped
  <2> QED
    BY <2>1, <2>2 DEF text
<1>8. /\ ended \in Calls /\ ended.bank = s.bank /\ ended.since = s.since /\ ended.cut = ~ok
  BY <1>3 DEF Calls
<1>9. /\ ongoing \in Calls /\ ongoing.pc = "embedding" /\ ongoing.bank = s.bank
      /\ ongoing.todo = s.todo \ {f} /\ ongoing.read = s.read
      /\ ongoing.since = s.since /\ ongoing.cut = s.cut
  BY <1>3 DEF Calls
<1>10. free \in [Banks -> Searchers \union {NoTask}]
  BY <1>2
<1> HIDE DEF s, f, r, over, ended, ongoing, free
(* Whoever asks meanwhile would be answered with the text read.            *)
<1>11. \A k \in Searchers : Asks(search[k]) =>
         model # "" /\ Sees(search[k], TextsOf(r)) /\ Current(r)
  <2> SUFFICES ASSUME NEW k \in Searchers, Asks(search[k])
               PROVE  model # "" /\ Sees(search[k], TextsOf(r)) /\ Current(r)
    OBVIOUS
  <2>1. model # "" /\ Sees(search[k], TextsOf(rows)) /\ Current(rows) /\ Sees(search[k], s.read)
    BY <1>5 DEF RagInv, AskersAreFresh
  <2>2. \A g \in Files : TextsOf(r)[g] = TextsOf(rows)[g] \/ TextsOf(r)[g] = s.read[g]
    BY <1>6, <1>7, RagConstants DEF TextsOf, TextOf, Match
  <2>3. Current(r)
    BY <1>6, <1>7, <2>1, RagConstants DEF Current, Match
  <2>4. Sees(search[k], TextsOf(r))
    BY <2>1, <2>2 DEF Sees
  <2> QED
    BY <2>1, <2>3, <2>4
<1>12. CachesAgree' /\ Settled
  BY <1>1, StaysSettled DEF RagInv, CachesAgree, Dated
<1>13. ASSUME holder' \in [Banks -> Searchers \union {NoTask}], search' \in [Searchers -> Calls]
       PROVE  RagTypes'
  BY <1>1, <1>7, <1>13 DEF RagInv, RagTypes
<1>14. CASE over
  <2>1. Synced(i, ended, r) /\ holder' = free
    BY <1>1, <1>14
  <2>0. ended \in Calls /\ r \in Tables
    BY <1>7, <1>8
  <2>2. PICK c \in Calls :
           /\ search' = [search EXCEPT ![i] = c]
           /\ c.bank = ended.bank /\ c.since = ended.since /\ c.cut = ended.cut
           /\ c.pc = IF model = "" THEN "done" ELSE "query"
           /\ model = "" => c.answer = Answer(r, FALSE)
    BY <2>0, <2>1, SyncedCall
  <2>3. c.pc = "query" /\ c.bank = banks /\ c.since = s.since /\ c.cut = ~ok
    BY <1>4, <1>8, <2>2
  <2>4. Sees(c, TextsOf(disk)) /\ Sees(c, s.read)
    BY <1>5, <2>3 DEF Sees
  <2>5. ASSUME ok PROVE Sees(c, TextsOf(r)) /\ Current(r)
    <3>1. \A g \in Files : Match(r[g], s.read[g])
      BY <1>5, <1>7, <1>14, <2>5 DEF over
    <3>2. \A g \in Files : TextsOf(r)[g] = s.read[g]
      BY <3>1 DEF TextsOf, TextOf, Match
    <3>3. Current(r)
      BY <3>1 DEF Current, Match
    <3> QED
      BY <2>4, <3>2, <3>3 DEF Sees
  <2>6. Asks(c) => model # "" /\ Sees(c, TextsOf(rows')) /\ Current(rows')
    BY <1>1, <1>4, <2>3, <2>5 DEF Asks
  <2>7. RagTypes'
    BY <1>2, <1>10, <1>13, <2>1, <2>2
  <2>8. AnsweredWith(c, rows')
    BY <2>3 DEF AnsweredWith
  <2>9. c.pc = "query" => c.bank = banks' /\ banks' # 0 /\ (folder => bank' = banks') /\ Sees(c, TextsOf(disk))
    BY <1>1, <1>4, <2>3, <2>4
  <2>10. \A k \in Searchers \ {i} : Asks(search[k]) => Sees(search[k], TextsOf(rows')) /\ Current(rows')
    BY <1>1, <1>11
  <2>11. UNCHANGED <<disk, folder, model>> /\ c.pc \in {"query", "done"}
    BY <1>1, <2>3
  <2> QED
    BY <1>2, <1>4, <1>12, <2>2, <2>6, <2>7, <2>8, <2>9, <2>10, <2>11, CallGoesOn DEF RagInv
<1>15. CASE ~over
  <2>1. search' = [search EXCEPT ![i] = ongoing] /\ holder' = holder /\ ok /\ s.todo # {f}
    BY <1>1, <1>15 DEF over
  <2>2. search'[i] = ongoing /\ \A k \in Searchers \ {i} : search'[k] = search[k]
    BY <1>2, <2>1
  <2>3. RagTypes'
    BY <1>2, <1>9, <1>13, <2>1
  <2>4. \A k \in Searchers : /\ search'[k].pc = search[k].pc /\ search'[k].bank = search[k].bank
                             /\ search'[k].cut = search[k].cut /\ search'[k].since = search[k].since
    BY <1>3, <1>9, <2>2 DEF s
  <2>5. search'[i].todo # {}
    BY <1>6, <1>9, <2>1, <2>2
  <2>6. OneAtWork'
    <3>1. \A k \in Searchers \ {i} : search'[k].pc # "embedding"
      BY <1>4, <2>2
    <3>2. \A k \in Searchers : Resting(k)' = Resting(k)
      BY <2>4 DEF Resting
    <3>3. holder[banks] = i
      BY <1>3 DEF RagInv, OneAtWork, s
    <3>4. \A k \in Searchers : ~Resting(k) => search'[k].bank = banks /\ banks # 0 /\ (folder => bank = banks)
      BY <2>4 DEF RagInv, OneAtWork
    <3>5. ~search'[i].cut
      BY <1>4, <1>9, <2>2
    <3> QED
      BY <1>1, <1>4, <2>1, <2>5, <3>1, <3>2, <3>3, <3>4, <3>5 DEF OneAtWork
  <2>7. \A k \in Searchers : \A said : Sees(search[k], said) => Sees(search'[k], said)
    BY <2>4 DEF Sees
  <2>8. Seen'
    BY <1>1, <2>4, <2>7 DEF RagInv, Seen, Reads
  <2>9. ScanIsFresh'
    <3>1. \A k \in Searchers \ {i} : search'[k].pc # "embedding"
      BY <1>4, <2>2
    <3>2. \A g \in Files : IF g \in ongoing.todo THEN s.read[g] # Absent ELSE Match(r[g], s.read[g])
      BY <1>5, <1>7, <1>9, <2>1
    <3>3. Sees(search'[i], s.read)
      BY <1>5, <2>7 DEF s
    <3>4. \A k \in Searchers : Asks(search'[k]) => Sees(search'[k], s.read)
      BY <1>5, <2>4, <2>7 DEF Asks
    <3> QED
      BY <1>1, <1>9, <2>2, <3>1, <3>2, <3>3, <3>4 DEF ScanIsFresh, Match
  <2>10. AskersAreFresh'
    BY <1>1, <1>11, <2>4, <2>7 DEF AskersAreFresh, Asks, Current
  <2>11. AnswersAreFresh'
    BY <1>9, <2>2 DEF RagInv, AnswersAreFresh
  <2> QED
    BY <1>12, <2>3, <2>6, <2>8, <2>9, <2>10, <2>11 DEF RagInv
<1> QED
  BY <1>14, <1>15

LEMMA QueriedKeeps ==
  ASSUME Usual, RagInv, NEW i \in Searchers, NEW ok \in BOOLEAN, Queried(i, ok)
  PROVE  RagInv'
<1> DEFINE s == search[i]
           a == Answer(rows, ok)
           c == [s EXCEPT !.pc = "done", !.answer = a]
<1>1. s.pc = "query" /\ UNCHANGED <<disk, folder, edits, model, bank, banks, cache, holder, rows>>
  BY DEF Queried
<1>2. search' = [search EXCEPT ![i] = c]
  <2>1. search \in [Searchers -> Calls]
    BY DEF RagInv, RagTypes
  <2> QED
    BY <2>1 DEF Queried, Answered, Calls
<1>3. search \in [Searchers -> Calls] /\ s \in Calls /\ rows \in Tables
  BY DEF RagInv, RagTypes
<1>4. Asks(s) => model # "" /\ Sees(s, TextsOf(rows)) /\ Current(rows)
  BY DEF RagInv, AskersAreFresh
<1>5. \A k \in Searchers : Asks(search[k]) => Sees(search[k], TextsOf(rows)) /\ Current(rows)
  BY DEF RagInv, AskersAreFresh
<1> HIDE DEF s, a
<1>6. a \in [Files -> Answers \union {Absent}]
  BY <1>3, AnswerIsTyped DEF a
<1>7. /\ c \in Calls /\ c.pc = "done" /\ c.answer = a /\ c.cut = s.cut /\ c.since = s.since
  BY <1>3, <1>6 DEF Calls
<1> HIDE DEF c
<1>8. AnsweredWith(c, rows')
  <2> SUFFICES ASSUME ~s.cut PROVE AnsweredWith(c, rows')
    BY <1>7 DEF AnsweredWith
  <2>1. model # "" /\ Sees(s, TextsOf(rows)) /\ Current(rows)
    BY <1>1, <1>4 DEF Asks
  <2>2. \A f \in Files : TextOf(a, f) = TextOf(rows, f) /\ (a[f] # Absent => a[f].ranked)
    BY <1>3, <2>1, AnswerIsFaithful DEF a
  <2>3. Sees(c, TextsOf(rows))
    BY <1>7, <2>1 DEF Sees
  <2> QED
    BY <1>1, <1>7, <2>2, <2>3 DEF AnsweredWith
<1>9. RagTypes'
  BY <1>1, <1>2, <1>3, <1>7 DEF RagInv, RagTypes
<1>10. CachesAgree' /\ Settled
  BY <1>1, StaysSettled DEF RagInv, CachesAgree, Dated
<1>11. RagInv'
  <2>1. search'[i] = c /\ \A k \in Searchers \ {i} : search'[k] = search[k]
    BY <1>2, <1>3
  <2>2. \A k \in Searchers : search'[k].pc \in {"waiting", "embedding", "query"} => search'[k] = search[k]
    BY <1>7, <2>1
  <2>3. OneAtWork'
    <3>1. \A k \in Searchers : ~Resting(k)' => search'[k] = search[k] /\ ~Resting(k)
      <4>1. \A k \in Searchers : search'[k].pc \in {"idle", "waiting", "embedding", "query", "done"}
        <5>1. search' \in [Searchers -> Calls]
          BY <1>9 DEF RagTypes
        <5> QED
          BY <5>1 DEF Calls
      <4>2. \A k \in Searchers : ~Resting(k)' => search'[k].pc \in {"waiting", "embedding", "query"}
        BY <4>1 DEF Resting
      <4> QED
        BY <2>2, <4>2 DEF Resting
    <3>2. \A k \in Searchers : ~Resting(k)' => search'[k].bank = banks /\ banks # 0 /\ (folder => bank = banks)
      <4> SUFFICES ASSUME NEW k \in Searchers, ~Resting(k)'
                   PROVE  search'[k].bank = banks /\ banks # 0 /\ (folder => bank = banks)
        OBVIOUS
      <4>1. search'[k] = search[k] /\ ~Resting(k)
        BY <3>1
      <4>2. search[k].bank = banks /\ banks # 0 /\ (folder => bank = banks)
        BY <4>1 DEF RagInv, OneAtWork
      <4> QED
        BY <4>1, <4>2
    <3>3. \A k \in Searchers : search'[k].pc = "embedding" =>
            holder[banks] = k /\ search'[k].todo # {} /\ model # "" /\ ~search'[k].cut
      BY <2>2 DEF RagInv, OneAtWork
    <3> QED
      BY <1>1, <3>2, <3>3 DEF OneAtWork
  <2>4. Seen'
    BY <1>1, <2>2 DEF RagInv, Seen, Reads
  <2>5. ScanIsFresh'
    BY <1>1, <2>2 DEF RagInv, ScanIsFresh, Asks, Match
  <2>6. AskersAreFresh'
    BY <1>1, <2>2 DEF RagInv, AskersAreFresh, Asks, Current
  <2>7. AnswersAreFresh'
    <3>1. \A k \in Searchers \ {i} : search'[k] = search[k]
      BY <2>1
    <3>2. ~c.cut => \A f \in Files : /\ <<f, TextOf(c.answer, f)>> \in c.since
                                     /\ c.answer[f] # Absent => c.answer[f].ranked
      BY <1>7, <1>8 DEF AnsweredWith, Sees, TextsOf
    <3> QED
      BY <2>1, <3>1, <3>2 DEF RagInv, AnswersAreFresh
  <2> QED
    BY <1>9, <1>10, <2>3, <2>4, <2>5, <2>6, <2>7 DEF RagInv
<1> QED
  BY <1>11

LEMMA RestartKeeps ==
  ASSUME RagInv, NEW m \in Models, Restart(m)
  PROVE  RagInv'
<1>1. /\ search' = [i \in Searchers |-> Idle] /\ cache' = [b \in Banks |-> Empty]
      /\ holder' = [b \in Banks |-> NoTask] /\ model' = m /\ bank' = 0
      /\ UNCHANGED <<disk, folder, edits, banks, rows>>
  BY DEF Restart
<1>2. RagTypes'
  BY <1>1, EmptyIsTyped DEF RagInv, RagTypes
<1>3. CachesAgree'
  BY <1>1 DEF RagInv, CachesAgree, Dated, SameTime, Empty
<1>4. \A i \in Searchers : search'[i].pc = "idle"
  BY <1>1 DEF Idle
<1>5. OneAtWork' /\ Seen' /\ ScanIsFresh' /\ AskersAreFresh' /\ AnswersAreFresh'
  BY <1>4 DEF OneAtWork, Resting, Seen, Reads, ScanIsFresh, AskersAreFresh, Asks, AnswersAreFresh
<1> QED
  BY <1>2, <1>3, <1>5 DEF RagInv

LEMMA StepRag == Usual /\ RagInv /\ [RagNext]_ragVars => RagInv'
<1> SUFFICES ASSUME Usual, RagInv, [RagNext]_ragVars PROVE RagInv'
  OBVIOUS
<1>1. ASSUME UNCHANGED <<disk, folder, edits, model, bank, banks, cache, holder, rows, search>>
      PROVE  RagInv'
  <2>1. RagTypes' /\ CachesAgree' /\ Seen'
    BY <1>1 DEF RagInv, RagTypes, CachesAgree, Dated, Seen
  <2>2. OneAtWork' /\ ScanIsFresh'
    BY <1>1 DEF RagInv, OneAtWork, Resting, ScanIsFresh, Match
  <2>3. AskersAreFresh' /\ AnswersAreFresh'
    BY <1>1 DEF RagInv, AskersAreFresh, Current, AnswersAreFresh
  <2> QED
    BY <2>1, <2>2, <2>3 DEF RagInv
<1>2. CASE (\E f \in Files : Delete(f) \/ \E t \in Texts : Write(f, t)) \/ MoveFolder
  BY <1>2, FilesKeep
<1>3. ASSUME NEW t, SetAuto(t) PROVE RagInv'
  BY <1>1, <1>3 DEF SetAuto
<1>4. ASSUME NEW i \in Searchers, Search(i) \/ Turn(i) PROVE RagInv'
  BY <1>4, CallsKeep
<1>5. ASSUME NEW i \in Searchers, Acquire(i) PROVE RagInv'
  BY <1>5, AcquireKeeps
<1>6. ASSUME NEW i \in Searchers, NEW ok \in BOOLEAN, Embedded(i, ok) PROVE RagInv'
  BY <1>6, EmbeddedKeeps
<1>7. ASSUME NEW i \in Searchers, NEW ok \in BOOLEAN, Queried(i, ok) PROVE RagInv'
  BY <1>7, QueriedKeeps
<1>8. ASSUME NEW m \in Models, Restart(m) PROVE RagInv'
  BY <1>8, RestartKeeps
<1>9. CASE UNCHANGED ragVars
  BY <1>1, <1>9 DEF ragVars
<1> QED
  BY <1>2, <1>3, <1>4, <1>5, <1>6, <1>7, <1>8, <1>9 DEF RagNext

(* A search answers with what the files said since its scan began, however *)
(* many tasks search, index, edit, move the folder or restart meanwhile    *)
(* (rag/__main__.py:124-146, rag/indexer.py:74-156).                       *)
THEOREM AnswersStayFresh == Usual => (RagSpec => []AnswersAreFresh)
<1>1. RagInv => AnswersAreFresh
  BY DEF RagInv
<1> SUFFICES ASSUME Usual PROVE RagSpec => []AnswersAreFresh
  OBVIOUS
<1>2. RagInv /\ [RagNext]_ragVars => RagInv'
  BY StepRag
<1> QED
  BY <1>1, <1>2, InitRag, PTL DEF RagSpec

-----------------------------------------------------------------------------
(* The state of a conversation.                                            *)
Keys == {"author", "model", "skills_resident", "skills_dropped"}
Settings == Authors \union Chat \union {""} \union SUBSET Skills
Deltas == UNION {[D -> Settings] : D \in SUBSET Keys}
Prompts == Seq([told : SUBSET Skills, kept : SUBSET Skills])
SkillOrNone == Skills \union {""}
NodeRows == [branch : SUBSET Nat, delta : Deltas, skill : SkillOrNone,
         before : Prompts, prompts : Prompts]

(* A branch ends at its row, and goes back.                                *)
Tree(tree) == \A n \in DOMAIN tree : n \in tree[n].branch /\ tree[n].branch \subseteq 1..n

(* Of finitely many rows one is nearest; a row that is among them is it.   *)
LEMMA NearestIsOne ==
  ASSUME NEW n \in Nat, NEW S \in SUBSET (1..n), S # {}
  PROVE  Nearest(S) \in S
<1> DEFINE T == {n - j : j \in S}
<1>1. \A j \in S : n - j \in Nat
  OBVIOUS
<1>2. T \in SUBSET Nat /\ T # {}
  BY <1>1
<1> HIDE DEF T
<1>3. PICK t \in T : \A m \in 0..(t - 1) : m \notin T
  BY <1>2, FirstFailure
<1>4. PICK k \in S : t = n - k
  BY DEF T
<1>5. ASSUME NEW j \in S, k < j PROVE FALSE
  <2>1. n - j \in T
    BY DEF T
  <2>2. n - j \in 0..(t - 1)
    BY <1>4, <1>5
  <2> QED
    BY <1>3, <2>1, <2>2
<1>6. \A j \in S : j <= k
  BY <1>5
<1> QED
  BY <1>6 DEF Nearest

LEMMA NearestIsLast ==
  ASSUME NEW n \in Nat, NEW S \in SUBSET (1..n), n \in S
  PROVE  Nearest(S) = n
<1>1. \A j \in S : j <= n
  OBVIOUS
<1>2. \E k \in S : \A j \in S : j <= k
  BY <1>1
<1>3. Nearest(S) \in S /\ \A j \in S : j <= Nearest(S)
  BY <1>2 DEF Nearest
<1>4. \A k \in S : k \in Int /\ n \in Int
  OBVIOUS
<1>5. n <= Nearest(S)
  BY <1>3
<1>6. Nearest(S) <= n
  BY <1>1, <1>3
<1> DEFINE m == Nearest(S)
<1>7. m \in Int /\ n \in Int /\ n <= m /\ m <= n
  BY <1>3, <1>4, <1>5, <1>6
<1> HIDE DEF m
<1>8. m = n
  BY <1>7
<1> QED
  BY <1>8 DEF m

(* A row's delta with one key set, as SetState does.                       *)
With(d, key, value) == [k \in DOMAIN d \union {key} |-> IF k = key THEN value ELSE d[k]]

LEMMA DeltasOverride ==
  ASSUME NEW d \in Deltas, NEW key \in Keys, NEW value \in Settings
  PROVE  /\ With(d, key, value) \in Deltas
         /\ DOMAIN With(d, key, value) = {key} \union DOMAIN d
         /\ With(d, key, value)[key] = value
         /\ \A k \in DOMAIN d \ {key} : With(d, key, value)[k] = d[k]
<1>1. PICK D \in SUBSET Keys : d \in [D -> Settings]
  BY DEF Deltas
<1>2. With(d, key, value) \in [D \union {key} -> Settings]
  BY <1>1 DEF With
<1>3. D \union {key} \in SUBSET Keys
  OBVIOUS
<1>4. With(d, key, value) \in Deltas
  BY <1>2, <1>3 DEF Deltas
<1> QED
  BY <1>1, <1>4 DEF With

LEMMA NewDeltas ==
  ASSUME NEW v \in Settings
  PROVE  << >> \in Deltas /\ [author |-> v] \in Deltas /\ [model |-> v] \in Deltas
<1>1. << >> \in [{} -> Settings]
  OBVIOUS
<1>2. [author |-> v] \in [{"author"} -> Settings]
  OBVIOUS
<1>3. [model |-> v] \in [{"model"} -> Settings]
  OBVIOUS
<1>4. {} \in SUBSET Keys /\ {"author"} \in SUBSET Keys /\ {"model"} \in SUBSET Keys
  BY DEF Keys
<1> QED
  BY <1>1, <1>2, <1>3, <1>4 DEF Deltas

Sets(tree, n, key) == {k \in tree[n].branch : key \in DOMAIN tree[k].delta}

LEMMA SettersAreThose ==
  ASSUME NEW tree \in Seq(NodeRows), Tree(tree), NEW n \in DOMAIN tree, NEW key
  PROVE  /\ n \in Nat
         /\ tree[n].branch \subseteq DOMAIN tree
         /\ Setters(tree, n, key) = Sets(tree, n, key)
         /\ Sets(tree, n, key) \in SUBSET (1..n)
<1>1. n \in Nat /\ DOMAIN tree = 1..Len(tree) /\ Len(tree) \in Nat
  OBVIOUS
<1>2. tree[n].branch \subseteq 1..n /\ tree[n].branch \subseteq DOMAIN tree
  BY <1>1 DEF Tree
<1>3. \A d \in Deltas : "checkpoint" \notin DOMAIN d
  BY DEF Deltas, Keys
<1>4. ASSUME NEW k \in DOMAIN tree PROVE tree[k].delta \in Deltas
  <2>1. tree[k] \in NodeRows
    OBVIOUS
  <2> QED
    BY <2>1 DEF NodeRows
<1>5. \A c \in tree[n].branch : "checkpoint" \notin DOMAIN tree[c].delta
  BY <1>2, <1>3, <1>4
<1>6. Setters(tree, n, key) = Sets(tree, n, key)
  BY <1>5 DEF Setters, Sets
<1> QED
  BY <1>1, <1>2, <1>6 DEF Sets

(* The state at a row that sets the key is what the row says.              *)
LEMMA StateIsTheRows ==
  ASSUME NEW tree \in Seq(NodeRows), Tree(tree), NEW n \in DOMAIN tree,
         NEW key \in DOMAIN tree[n].delta, NEW default
  PROVE  LoadSessionState(tree, n, key, default) = tree[n].delta[key]
<1>1. n \in Nat /\ Setters(tree, n, key) = Sets(tree, n, key) /\ Sets(tree, n, key) \in SUBSET (1..n)
  BY SettersAreThose
<1>2. n \in Sets(tree, n, key)
  BY DEF Tree, Sets
<1>3. Nearest(Sets(tree, n, key)) = n
  BY <1>1, <1>2, NearestIsLast
<1> QED
  BY <1>1, <1>2, <1>3 DEF LoadSessionState

(* The state at a row depends on the tree of its branch that set the key.  *)
SetAlike(tree, n, more, m, key) ==
  /\ Sets(more, m, key) = Sets(tree, n, key)
  /\ \A k \in Sets(tree, n, key) : more[k].delta[key] = tree[k].delta[key]

LEMMA StateDependsOn ==
  ASSUME NEW tree \in Seq(NodeRows), Tree(tree), NEW n \in DOMAIN tree,
         NEW more \in Seq(NodeRows), Tree(more), NEW m \in DOMAIN more, NEW key, NEW default,
         SetAlike(tree, n, more, m, key)
  PROVE  LoadSessionState(more, m, key, default) = LoadSessionState(tree, n, key, default)
<1> DEFINE S == Sets(tree, n, key)
<1>1. n \in Nat /\ Setters(tree, n, key) = S /\ S \in SUBSET (1..n)
  BY SettersAreThose
<1>2. Setters(more, m, key) = S
  BY SettersAreThose DEF SetAlike
<1>3. \A k \in S : more[k].delta[key] = tree[k].delta[key]
  BY DEF SetAlike
<1> HIDE DEF S
<1>4. CASE S = {}
  BY <1>1, <1>2, <1>4 DEF LoadSessionState
<1>5. CASE S # {}
  <2>1. Nearest(S) \in S
    BY <1>1, <1>5, NearestIsOne
  <2> QED
    BY <1>1, <1>2, <1>3, <1>5, <2>1 DEF LoadSessionState
<1> QED
  BY <1>4, <1>5

Alike(row, new) ==
  /\ new.branch = row.branch /\ new.skill = row.skill
  /\ new.before = row.before /\ new.prompts = row.prompts

(* What setting a key at row n does to the rows.                           *)
Wrote(tree, more, n, key, value) ==
  /\ more \in Seq(NodeRows) /\ DOMAIN more = DOMAIN tree
  /\ \A m \in DOMAIN tree : Alike(tree[m], more[m])
  /\ \A m \in DOMAIN tree \ {n} : more[m].delta = tree[m].delta
  /\ DOMAIN more[n].delta = {key} \union DOMAIN tree[n].delta
  /\ more[n].delta[key] = value
  /\ \A k \in DOMAIN tree[n].delta \ {key} : more[n].delta[k] = tree[n].delta[k]

LEMMA SetStateWrites ==
  ASSUME NEW tree \in Seq(NodeRows), NEW n \in DOMAIN tree, NEW key \in Keys, NEW value \in Settings
  PROVE  Wrote(tree, SetState(tree, n, key, value), n, key, value)
<1> DEFINE more == SetState(tree, n, key, value)
           old == tree[n].delta
           new == With(old, key, value)
           row == [tree[n] EXCEPT !.delta = new]
<1>1. more = [tree EXCEPT ![n] = row]
  BY DEF SetState, With
<1>2. tree[n] \in NodeRows
  OBVIOUS
<1>3. old \in Deltas
  BY <1>2 DEF NodeRows
<1> HIDE DEF more, old
<1>4. /\ new \in Deltas /\ DOMAIN new = {key} \union DOMAIN old /\ new[key] = value
      /\ \A k \in DOMAIN old \ {key} : new[k] = old[k]
  BY <1>3, DeltasOverride
<1> HIDE DEF new
<1>5. row \in NodeRows /\ Alike(tree[n], row) /\ row.delta = new
  BY <1>2, <1>4 DEF NodeRows, Alike
<1> HIDE DEF row
<1>6. more \in Seq(NodeRows) /\ DOMAIN more = DOMAIN tree
  BY <1>1, <1>5
<1>7. more[n] = row /\ \A m \in DOMAIN tree \ {n} : more[m] = tree[m]
  BY <1>1
<1>8. \A m \in DOMAIN tree : Alike(tree[m], more[m])
  BY <1>5, <1>7 DEF Alike
<1>9. Wrote(tree, more, n, key, value)
  BY <1>4, <1>5, <1>6, <1>7, <1>8 DEF Wrote, old
<1> QED
  BY <1>9 DEF more

LEMMA WrittenRows ==
  ASSUME NEW tree \in Seq(NodeRows), Tree(tree), NEW n, NEW key, NEW value,
         NEW more, Wrote(tree, more, n, key, value)
  PROVE  /\ more \in Seq(NodeRows) /\ DOMAIN more = DOMAIN tree /\ Tree(more)
         /\ \A m \in DOMAIN tree : more[m].branch = tree[m].branch
BY DEF Wrote, Alike, Tree

LEMMA WrittenState ==
  ASSUME NEW tree \in Seq(NodeRows), Tree(tree), NEW n \in DOMAIN tree, NEW key \in Keys, NEW value,
         NEW more, Wrote(tree, more, n, key, value), NEW default
  PROVE  LoadSessionState(more, n, key, default) = value
<1>1. more \in Seq(NodeRows) /\ DOMAIN more = DOMAIN tree /\ Tree(more)
  BY WrittenRows
<1>2. key \in DOMAIN more[n].delta /\ more[n].delta[key] = value
  BY DEF Wrote
<1> QED
  BY <1>1, <1>2, StateIsTheRows

(* Another key, or a branch without the row, keeps its state.              *)
LEMMA UnwrittenState ==
  ASSUME NEW tree \in Seq(NodeRows), Tree(tree), NEW n \in DOMAIN tree, NEW key \in Keys, NEW value,
         NEW more, Wrote(tree, more, n, key, value), NEW default,
         NEW m \in DOMAIN tree, NEW k \in Keys, k # key \/ n \notin tree[m].branch
  PROVE  LoadSessionState(more, m, k, default) = LoadSessionState(tree, m, k, default)
<1>1. /\ more \in Seq(NodeRows) /\ DOMAIN more = DOMAIN tree /\ Tree(more)
      /\ more[m].branch = tree[m].branch
  BY WrittenRows
<1> DEFINE branch == tree[m].branch
<1>2. branch \subseteq DOMAIN tree
  BY SettersAreThose
<1>3. \A j \in branch :
        /\ k \in DOMAIN more[j].delta <=> k \in DOMAIN tree[j].delta
        /\ k \in DOMAIN tree[j].delta => more[j].delta[k] = tree[j].delta[k]
  BY <1>2 DEF Wrote
<1> HIDE DEF branch
<1>4. {j \in branch : k \in DOMAIN more[j].delta} = {j \in branch : k \in DOMAIN tree[j].delta}
  BY <1>3
<1>5. Sets(more, m, k) = Sets(tree, m, k)
  BY <1>1, <1>4 DEF Sets, branch
<1>6. ASSUME NEW j \in Sets(tree, m, k) PROVE more[j].delta[k] = tree[j].delta[k]
  <2>1. j \in branch /\ k \in DOMAIN tree[j].delta
    BY DEF Sets, branch
  <2> QED
    BY <1>3, <2>1
<1>7. SetAlike(tree, m, more, m, k)
  BY <1>5, <1>6 DEF SetAlike
<1> QED
  BY <1>1, <1>7, StateDependsOn

-----------------------------------------------------------------------------
AllPrompts(tree, n) == tree[n].before \o tree[n].prompts
SkillsAt(tree, n) == {tree[k].skill : k \in tree[n].branch} \ {""}
KeptAt(ps, i) == IF i < 1 THEN {} ELSE ps[i].kept
ToldOnce(ps) == \A i \in DOMAIN ps : ps[i].told = KeptAt(ps, i - 2) \ KeptAt(ps, i - 1)

(* What the state at a row knows of the prompts of its branch.             *)
Knows(ps, resident, dropped, skills) ==
  /\ ps \in Prompts /\ ToldOnce(ps)
  /\ resident = KeptAt(ps, Len(ps))
  /\ dropped = KeptAt(ps, Len(ps) - 1) \ KeptAt(ps, Len(ps))
  /\ KeptAt(ps, Len(ps)) \subseteq skills
Noticed(tree, n) ==
  Knows(AllPrompts(tree, n), LoadSessionState(tree, n, "skills_resident", {}),
        LoadSessionState(tree, n, "skills_dropped", {}), SkillsAt(tree, n))
RowsInv(tree) == tree \in Seq(NodeRows) /\ Tree(tree) /\ \A n \in DOMAIN tree : Noticed(tree, n)

(* On a longer branch.                                                     *)
LEMMA MoreSkills ==
  ASSUME NEW ps, NEW resident, NEW dropped, NEW skills, Knows(ps, resident, dropped, skills),
         NEW more, skills \subseteq more
  PROVE  Knows(ps, resident, dropped, more)
BY DEF Knows

(* One more prompt.                                                        *)
LEMMA KnowsOneMore ==
  ASSUME NEW ps, NEW resident, NEW dropped, NEW skills, Knows(ps, resident, dropped, skills),
         NEW kept \in SUBSET Skills, kept \subseteq skills, dropped \in SUBSET Skills
  PROVE  Knows(Append(ps, [told |-> dropped, kept |-> kept]), kept, resident \ kept, skills)
<1> DEFINE new == [told |-> dropped, kept |-> kept]
           more == Append(ps, new)
           l == Len(ps)
<1>1. ps \in Prompts /\ l \in Nat /\ DOMAIN ps = 1..l
  BY DEF Knows, Prompts
<1>2. new \in [told : SUBSET Skills, kept : SUBSET Skills]
  OBVIOUS
<1> HIDE DEF new
<1>3. /\ more \in Prompts /\ Len(more) = l + 1 /\ DOMAIN more = 1..(l + 1)
      /\ more[l + 1] = new /\ \A i \in 1..l : more[i] = ps[i]
  BY <1>1, <1>2 DEF Prompts
<1> HIDE DEF more, l
<1>4. \A i \in Int : i <= l => KeptAt(more, i) = KeptAt(ps, i)
  BY <1>1, <1>3 DEF KeptAt
<1>5. KeptAt(more, l + 1) = kept
  BY <1>1, <1>3 DEF KeptAt, new
<1>6. /\ ToldOnce(ps) /\ resident = KeptAt(ps, l) /\ dropped = KeptAt(ps, l - 1) \ KeptAt(ps, l)
  BY DEF Knows, l
<1>7. ToldOnce(more)
  <2> SUFFICES ASSUME NEW i \in 1..(l + 1)
               PROVE  more[i].told = KeptAt(more, i - 2) \ KeptAt(more, i - 1)
    BY <1>3 DEF ToldOnce
  <2>1. KeptAt(more, i - 2) = KeptAt(ps, i - 2) /\ KeptAt(more, i - 1) = KeptAt(ps, i - 1)
    BY <1>1, <1>4
  <2>2. CASE i = l + 1
    <3>1. more[i].told = dropped
      BY <1>3, <2>2 DEF new
    <3>2. i - 2 = l - 1 /\ i - 1 = l
      BY <1>1, <2>2
    <3> QED
      BY <1>6, <2>1, <3>1, <3>2
  <2>3. CASE i # l + 1
    <3>1. i \in 1..l
      BY <1>1, <2>3
    <3>2. ps[i].told = KeptAt(ps, i - 2) \ KeptAt(ps, i - 1)
      BY <1>1, <1>6, <3>1 DEF ToldOnce
    <3> QED
      BY <1>3, <2>1, <3>1, <3>2
  <2> QED
    BY <2>2, <2>3
<1>8. KeptAt(more, l) = resident /\ (l + 1) - 1 = l
  BY <1>1, <1>4, <1>6
<1>9. Knows(more, kept, resident \ kept, skills)
  BY <1>3, <1>5, <1>7, <1>8 DEF Knows
<1> QED
  BY <1>9 DEF more, new

(* A delta without the keys of the skills.                                 *)
SaysNothing(delta) == \A key \in {"skills_resident", "skills_dropped"} : key \notin DOMAIN delta

OneMoreRow(tree, more, parent, delta, skill) ==
  more = Append(tree, Row(tree[parent].branch \union {Len(tree) + 1}, delta, skill, AllPrompts(tree, parent)))

Grown(tree, more, parent) ==
  /\ RowsInv(more) /\ DOMAIN more = 1..(Len(tree) + 1) /\ Len(more) = Len(tree) + 1
  /\ \A m \in DOMAIN tree : more[m].branch = tree[m].branch
  /\ more[Len(tree) + 1].branch = tree[parent].branch \union {Len(tree) + 1}

(* A row that is added has what its parent knows, and the others stay.     *)
LEMMA RowKeeps ==
  ASSUME NEW tree \in Seq(NodeRows), RowsInv(tree), NEW parent \in DOMAIN tree, NEW delta \in Deltas,
         SaysNothing(delta), NEW skill \in SkillOrNone, NEW more,
         OneMoreRow(tree, more, parent, delta, skill)
  PROVE  Grown(tree, more, parent)
<1> DEFINE new == Len(tree) + 1
           above == tree[parent].branch
           row == Row(above \union {new}, delta, skill, AllPrompts(tree, parent))
<1>2. Tree(tree)
  BY DEF RowsInv
<1>3. \A n \in DOMAIN tree : Noticed(tree, n)
  BY DEF RowsInv
<1>4. /\ Len(tree) \in Nat /\ new \in Nat /\ DOMAIN tree = 1..Len(tree)
      /\ new \notin DOMAIN tree /\ 1..new = DOMAIN tree \union {new}
  OBVIOUS
<1>5. parent \in Nat /\ parent < new
  BY <1>4
<1>6. tree[parent] \in NodeRows
  OBVIOUS
<1>7. AllPrompts(tree, parent) \in Prompts
  BY <1>6 DEF AllPrompts, NodeRows, Prompts
<1>9. above \in SUBSET Nat
  BY <1>6 DEF NodeRows
<1>10. above \subseteq 1..parent
  BY <1>2 DEF Tree
<1>11. << >> \in Prompts
  BY EmptySeq DEF Prompts
<1> HIDE DEF above
<1>12. row \in NodeRows
  BY <1>4, <1>7, <1>9, <1>11 DEF Row, NodeRows
<1>13. /\ row.branch = above \union {new} /\ row.delta = delta /\ row.skill = skill
       /\ row.before = AllPrompts(tree, parent) /\ row.prompts = << >>
  BY DEF Row
<1>14. more = Append(tree, row)
  BY DEF above, OneMoreRow
<1> HIDE DEF row
<1>15. more \in Seq(NodeRows) /\ Len(more) = new /\ DOMAIN more = 1..new /\ more[new] = row
  BY <1>12, <1>14
<1>16. \A m \in DOMAIN tree : more[m] = tree[m] /\ m \in DOMAIN more
  BY <1>12, <1>14
<1> HIDE DEF new
<1>17. Tree(more)
  <2>1. ASSUME NEW n \in DOMAIN tree PROVE n \in more[n].branch /\ more[n].branch \subseteq 1..n
    BY <1>2, <1>16 DEF Tree
  <2>2. new \in more[new].branch /\ more[new].branch \subseteq 1..new
    <3>1. more[new].branch = above \union {new}
      BY <1>13, <1>15
    <3>2. 1..parent \subseteq 1..new /\ new \in 1..new
      BY <1>4, <1>5
    <3> QED
      BY <1>10, <3>1, <3>2
  <2> QED
    BY <1>4, <1>15, <2>1, <2>2 DEF Tree
<1>18. ASSUME NEW n \in DOMAIN tree PROVE Noticed(more, n)
  <2>1. tree[n].branch \subseteq DOMAIN tree
    BY <1>2, SettersAreThose
  <2>2. n \in DOMAIN more /\ more[n] = tree[n]
    BY <1>16
  <2>3. ASSUME NEW key PROVE LoadSessionState(more, n, key, {}) = LoadSessionState(tree, n, key, {})
    <3>1. Sets(more, n, key) = Sets(tree, n, key)
      BY <1>16, <2>1, <2>2 DEF Sets
    <3>2. \A k \in Sets(tree, n, key) : more[k].delta[key] = tree[k].delta[key]
      BY <1>16, <2>1 DEF Sets
    <3>3. SetAlike(tree, n, more, n, key)
      BY <3>1, <3>2 DEF SetAlike
    <3>4. more \in Seq(NodeRows)
      BY <1>15
    <3> QED
      BY <1>2, <1>17, <2>2, <3>3, <3>4, StateDependsOn
  <2>4. AllPrompts(more, n) = AllPrompts(tree, n)
    BY <2>2 DEF AllPrompts
  <2>5. SkillsAt(more, n) = SkillsAt(tree, n)
    BY <1>16, <2>1, <2>2 DEF SkillsAt
  <2>6. Noticed(tree, n)
    BY <1>3
  <2> QED
    BY <2>3, <2>4, <2>5, <2>6 DEF Noticed
<1>19. Noticed(more, new)
  <2>1. above \subseteq DOMAIN tree
    BY <1>2, SettersAreThose DEF above
  <2>2. new \in DOMAIN more /\ more[new].branch = above \union {new}
    BY <1>4, <1>13, <1>15
  <2>3. \A k \in above : more[k] = tree[k]
    BY <1>16, <2>1
  <2>4. ASSUME NEW key \in {"skills_resident", "skills_dropped"}
        PROVE  LoadSessionState(more, new, key, {}) = LoadSessionState(tree, parent, key, {})
    <3>1. key \notin DOMAIN more[new].delta
      BY <1>13, <1>15 DEF SaysNothing
    <3>2. Sets(more, new, key) = Sets(tree, parent, key)
      BY <2>2, <2>3, <3>1 DEF Sets, above
    <3>3. \A k \in Sets(tree, parent, key) : more[k].delta[key] = tree[k].delta[key]
      BY <2>3 DEF Sets, above
    <3>4. SetAlike(tree, parent, more, new, key)
      BY <3>2, <3>3 DEF SetAlike
    <3>5. more \in Seq(NodeRows)
      BY <1>15
    <3> QED
      BY <1>2, <1>17, <2>2, <3>4, <3>5, StateDependsOn
  <2>5. AllPrompts(more, new) = AllPrompts(tree, parent)
    <3>1. AllPrompts(more, new) = AllPrompts(tree, parent) \o << >>
      BY <1>13, <1>15 DEF AllPrompts
    <3> QED
      BY <1>7, <3>1 DEF Prompts
  <2>6. SkillsAt(tree, parent) \subseteq SkillsAt(more, new)
    BY <2>2, <2>3 DEF SkillsAt, above
  <2>7. Noticed(tree, parent)
    BY <1>3
  <2> QED
    BY <2>4, <2>5, <2>6, <2>7, MoreSkills DEF Noticed
<1>20. \A n \in DOMAIN more : Noticed(more, n)
  BY <1>4, <1>15, <1>18, <1>19
<1>21. RowsInv(more)
  BY <1>15, <1>17, <1>20 DEF RowsInv
<1> QED
  BY <1>13, <1>15, <1>16, <1>21 DEF new, above, Grown

LEMMA AppendLast ==
  ASSUME NEW S, NEW s \in Seq(S), NEW t \in Seq(S), NEW e \in S
  PROVE  s \o Append(t, e) = Append(s \o t, e)
<1> DEFINE u == Append(t, e)
           a == s \o u
           b == Append(s \o t, e)
<1>1. /\ u \in Seq(S) /\ Len(u) = Len(t) + 1 /\ u[Len(t) + 1] = e
      /\ \A i \in 1..Len(t) : u[i] = t[i]
  OBVIOUS
<1> HIDE DEF u
<1>2. /\ a \in Seq(S) /\ Len(a) = Len(s) + Len(u)
      /\ \A i \in 1..Len(s) + Len(u) : a[i] = IF i <= Len(s) THEN s[i] ELSE u[i - Len(s)]
  BY <1>1, ConcatProperties
<1>3. /\ s \o t \in Seq(S) /\ Len(s \o t) = Len(s) + Len(t)
      /\ \A i \in 1..Len(s) + Len(t) : (s \o t)[i] = IF i <= Len(s) THEN s[i] ELSE t[i - Len(s)]
  BY ConcatProperties
<1>4. b \in Seq(S) /\ Len(b) = Len(s) + Len(t) + 1
  BY <1>3
<1>5. ASSUME NEW i \in 1..Len(a) PROVE a[i] = b[i]
  <2>1. CASE i <= Len(s) + Len(t)
    <3>1. b[i] = (s \o t)[i]
      BY <1>2, <1>3, <2>1
    <3>2. i - Len(s) \in 1..Len(t) => u[i - Len(s)] = t[i - Len(s)]
      BY <1>1
    <3> QED
      BY <1>1, <1>2, <1>3, <2>1, <3>1, <3>2
  <2>2. CASE ~(i <= Len(s) + Len(t))
    <3>1. i = Len(s) + Len(t) + 1 /\ i - Len(s) = Len(t) + 1
      BY <1>1, <1>2, <2>2
    <3>2. b[i] = e /\ u[i - Len(s)] = e
      BY <1>1, <1>3, <3>1
    <3> QED
      BY <1>1, <1>2, <2>2, <3>1, <3>2
  <2> QED
    BY <2>1, <2>2
<1> HIDE DEF a, b
<1>6. a = b
  BY <1>1, <1>2, <1>4, <1>5, SeqEqual
<1> QED
  BY <1>6 DEF a, b, u

IsLeaf(tree, n) == \A m \in DOMAIN tree \ {n} : n \notin tree[m].branch

(* What is written at row n while a prompt is assembled leads from tree to *)
(* noted, and the state there is now this.                                 *)
Prompted(tree, noted, n, resident, dropped) ==
  /\ noted \in Seq(NodeRows) /\ Tree(noted) /\ DOMAIN noted = DOMAIN tree
  /\ \A m \in DOMAIN tree : Alike(tree[m], noted[m])
  /\ LoadSessionState(noted, n, "skills_resident", {}) = resident
  /\ LoadSessionState(noted, n, "skills_dropped", {}) = dropped
  /\ \A m \in DOMAIN tree \ {n} : \A key \in {"skills_resident", "skills_dropped"} :
       LoadSessionState(noted, m, key, {}) = LoadSessionState(tree, m, key, {})

OneMorePrompt(tree, more, n, told, kept) ==
  more = [tree EXCEPT ![n].prompts = Append(@, [told |-> told, kept |-> kept])]

(* The prompt told what the state had, and what is noted is right for it.  *)
IsNoted(tree, noted, n, told, kept) ==
  /\ kept \in SUBSET Skills /\ kept \subseteq SkillsAt(tree, n)
  /\ told \in SUBSET Skills /\ told = LoadSessionState(tree, n, "skills_dropped", {})
  /\ Prompted(tree, noted, n, kept, LoadSessionState(tree, n, "skills_resident", {}) \ kept)

(* One more prompt at a row leaves every branch with what it must know.    *)
LEMMA PromptKeeps ==
  ASSUME NEW tree \in Seq(NodeRows), RowsInv(tree), NEW n \in DOMAIN tree, NEW noted, NEW told, NEW kept,
         IsNoted(tree, noted, n, told, kept), NEW more, OneMorePrompt(noted, more, n, told, kept)
  PROVE  /\ RowsInv(more) /\ DOMAIN more = DOMAIN tree
         /\ \A m \in DOMAIN tree : more[m].branch = tree[m].branch
<1>0. /\ kept \in SUBSET Skills /\ kept \subseteq SkillsAt(tree, n)
      /\ told \in SUBSET Skills /\ told = LoadSessionState(tree, n, "skills_dropped", {})
      /\ Prompted(tree, noted, n, kept, LoadSessionState(tree, n, "skills_resident", {}) \ kept)
      /\ noted \in Seq(NodeRows)
  BY DEF IsNoted, Prompted
<1> DEFINE prompt == [told |-> told, kept |-> kept]
           row == [noted[n] EXCEPT !.prompts = Append(@, prompt)]
<1>1. prompt \in [told : SUBSET Skills, kept : SUBSET Skills]
  BY <1>0
<1>2. n \in DOMAIN noted /\ DOMAIN noted = DOMAIN tree /\ Tree(noted)
  BY <1>0, <1>0 DEF Prompted
<1>3. noted[n] \in NodeRows
  BY <1>0, <1>2
<1>4. more = [noted EXCEPT ![n] = row]
  BY DEF OneMorePrompt
<1> HIDE DEF prompt
<1>5. Append(noted[n].prompts, prompt) \in Prompts
  BY <1>1, <1>3 DEF NodeRows, Prompts
<1>6. /\ row \in NodeRows /\ row.branch = noted[n].branch /\ row.delta = noted[n].delta /\ row.skill = noted[n].skill
      /\ row.before = noted[n].before /\ row.prompts = Append(noted[n].prompts, prompt)
  BY <1>3, <1>5 DEF NodeRows
<1> HIDE DEF row
<1>7. more \in Seq(NodeRows) /\ DOMAIN more = DOMAIN noted
  <2>1. n \in 1..Len(noted)
    BY <1>0, <1>2
  <2>2. more \in Seq(NodeRows)
    BY <1>0, <1>4, <1>6, <2>1, ExceptSeq
  <2> QED
    BY <1>4, <2>2
<1>8. more[n] = row /\ \A m \in DOMAIN tree \ {n} : more[m] = noted[m]
  BY <1>0, <1>2, <1>4
<1>9. \A m \in DOMAIN tree : /\ more[m].branch = noted[m].branch /\ more[m].delta = noted[m].delta
                             /\ more[m].skill = noted[m].skill
  BY <1>6, <1>8
<1>10. Tree(more)
  BY <1>2, <1>7, <1>9 DEF Tree
<1>11. ASSUME NEW m \in DOMAIN tree
       PROVE  /\ SkillsAt(more, m) = SkillsAt(tree, m)
              /\ \A key : LoadSessionState(more, m, key, {}) = LoadSessionState(noted, m, key, {})
  <2>1. noted[m].branch \subseteq DOMAIN tree /\ noted[m].branch = tree[m].branch /\ m \in DOMAIN more
    BY <1>0, <1>2, <1>7, SettersAreThose DEF Prompted, Alike
  <2>2. \A k \in DOMAIN tree : more[k].skill = tree[k].skill
    BY <1>0, <1>9 DEF Prompted, Alike
  <2>3. SkillsAt(more, m) = SkillsAt(tree, m)
    <3> DEFINE branch == tree[m].branch
    <3>1. more[m].branch = branch /\ \A k \in branch : more[k].skill = tree[k].skill
      BY <1>9, <2>1, <2>2
    <3> HIDE DEF branch
    <3>2. {more[k].skill : k \in branch} = {tree[k].skill : k \in branch}
      BY <3>1
    <3> QED
      BY <3>1, <3>2 DEF SkillsAt, branch
  <2>4. ASSUME NEW key PROVE LoadSessionState(more, m, key, {}) = LoadSessionState(noted, m, key, {})
    <3>1. Sets(more, m, key) = Sets(noted, m, key)
      BY <1>9, <2>1 DEF Sets
    <3>2. \A k \in Sets(noted, m, key) : more[k].delta[key] = noted[k].delta[key]
      BY <1>9, <2>1 DEF Sets
    <3>3. SetAlike(noted, m, more, m, key)
      BY <3>1, <3>2 DEF SetAlike
    <3> QED
      BY <1>0, <1>2, <1>7, <1>10, <2>1, <3>3, StateDependsOn
  <2> QED
    BY <2>3, <2>4
<1>12. \A m \in DOMAIN tree : Noticed(tree, m)
  BY DEF RowsInv
<1>13. ASSUME NEW m \in DOMAIN tree, m # n PROVE Noticed(more, m)
  <2>1. AllPrompts(more, m) = AllPrompts(tree, m)
    BY <1>0, <1>8, <1>13 DEF AllPrompts, Prompted, Alike
  <2>2. \A key \in {"skills_resident", "skills_dropped"} :
          LoadSessionState(more, m, key, {}) = LoadSessionState(tree, m, key, {})
    BY <1>0, <1>11, <1>13 DEF Prompted
  <2>3. SkillsAt(more, m) = SkillsAt(tree, m) /\ Noticed(tree, m)
    BY <1>11, <1>12
  <2> QED
    BY <2>1, <2>2, <2>3 DEF Noticed
<1>14. Noticed(more, n)
  <2> DEFINE ps == AllPrompts(tree, n)
             resident == LoadSessionState(tree, n, "skills_resident", {})
             skills == SkillsAt(tree, n)
  <2>1. Knows(ps, resident, told, skills)
    BY <1>0, <1>12 DEF Noticed
  <2>2. tree[n] \in NodeRows
    OBVIOUS
  <2>3. tree[n].before \in Prompts /\ tree[n].prompts \in Prompts
    BY <2>2 DEF NodeRows
  <2>4. AllPrompts(more, n) = tree[n].before \o Append(tree[n].prompts, prompt)
    BY <1>0, <1>6, <1>8 DEF AllPrompts, Prompted, Alike
  <2>5. AllPrompts(more, n) = Append(ps, prompt)
    <3> DEFINE before == tree[n].before
               here == tree[n].prompts
               P == [told : SUBSET Skills, kept : SUBSET Skills]
    <3>1. before \in Seq(P) /\ here \in Seq(P) /\ prompt \in P
      BY <1>1, <2>3 DEF Prompts
    <3> HIDE DEF before, here, P
    <3>2. before \o Append(here, prompt) = Append(before \o here, prompt)
      BY <3>1, AppendLast
    <3> QED
      BY <2>4, <3>2 DEF before, here, AllPrompts
  <2>6. /\ LoadSessionState(more, n, "skills_resident", {}) = kept
        /\ LoadSessionState(more, n, "skills_dropped", {}) = resident \ kept
        /\ SkillsAt(more, n) = skills
    BY <1>0, <1>11 DEF Prompted
  <2> HIDE DEF ps, resident, skills
  <2>7. kept \subseteq skills
    BY <1>0 DEF skills
  <2>8. Knows(Append(ps, prompt), kept, resident \ kept, skills)
    BY <1>0, <2>1, <2>7, KnowsOneMore DEF prompt
  <2> QED
    BY <2>5, <2>6, <2>8 DEF Noticed
<1>15. \A m \in DOMAIN more : Noticed(more, m)
  BY <1>2, <1>7, <1>13, <1>14
<1>16. RowsInv(more)
  BY <1>7, <1>10, <1>15 DEF RowsInv
<1>17. DOMAIN more = DOMAIN tree /\ \A m \in DOMAIN tree : more[m].branch = tree[m].branch
  BY <1>0, <1>2, <1>7, <1>9 DEF Prompted, Alike
<1> QED
  BY <1>16, <1>17

LEMMA PromptWrites ==
  ASSUME NEW tree \in Seq(NodeRows), RowsInv(tree), NEW n \in DOMAIN tree, IsLeaf(tree, n),
         NEW mid \in Seq(NodeRows), NEW r, NEW d, Prompted(tree, mid, n, r, d), NEW v \in SUBSET Skills
  PROVE  /\ Prompted(tree, SetState(mid, n, "skills_resident", v), n, v, d)
         /\ Prompted(tree, SetState(mid, n, "skills_dropped", v), n, r, v)
<1>1. /\ n \in DOMAIN mid /\ DOMAIN mid = DOMAIN tree /\ Tree(mid)
      /\ \A m \in DOMAIN tree : Alike(tree[m], mid[m])
  BY DEF Prompted
<1>2. v \in Settings /\ "skills_resident" \in Keys /\ "skills_dropped" \in Keys
  BY DEF Settings, Keys
<1>3. \A m \in DOMAIN tree \ {n} : n \notin mid[m].branch
  BY <1>1 DEF IsLeaf, Alike
<1>4. ASSUME NEW key \in {"skills_resident", "skills_dropped"}
      PROVE  LET more == SetState(mid, n, key, v)
             IN  /\ more \in Seq(NodeRows) /\ Tree(more) /\ DOMAIN more = DOMAIN tree
                 /\ \A m \in DOMAIN tree : Alike(tree[m], more[m])
                 /\ LoadSessionState(more, n, key, {}) = v
                 /\ \A m \in DOMAIN tree : \A k \in {"skills_resident", "skills_dropped"} :
                      m # n \/ k # key => LoadSessionState(more, m, k, {}) = LoadSessionState(mid, m, k, {})
  <2> DEFINE more == SetState(mid, n, key, v)
  <2>1. key \in Keys /\ \A k \in {"skills_resident", "skills_dropped"} : k \in Keys
    BY <1>2
  <2>2. Wrote(mid, more, n, key, v)
    BY <1>1, <1>2, <2>1, SetStateWrites
  <2> HIDE DEF more
  <2>0. more \in Seq(NodeRows) /\ Tree(more) /\ LoadSessionState(more, n, key, {}) = v
    BY <1>1, <2>1, <2>2, WrittenRows, WrittenState
  <2>3. ASSUME NEW m \in DOMAIN mid, NEW k \in Keys, k # key \/ n \notin mid[m].branch
        PROVE  LoadSessionState(more, m, k, {}) = LoadSessionState(mid, m, k, {})
    BY <1>1, <2>1, <2>2, <2>3, UnwrittenState
  <2>4. DOMAIN more = DOMAIN tree /\ \A m \in DOMAIN tree : Alike(mid[m], more[m])
    BY <1>1, <2>2 DEF Wrote
  <2>5. \A m \in DOMAIN tree : Alike(tree[m], more[m])
    BY <1>1, <2>4 DEF Alike
  <2>6. \A m \in DOMAIN tree : \A k \in {"skills_resident", "skills_dropped"} :
          m # n \/ k # key => LoadSessionState(more, m, k, {}) = LoadSessionState(mid, m, k, {})
    BY <1>1, <1>3, <2>1, <2>3
  <2> QED
    BY <2>0, <2>4, <2>5, <2>6 DEF more
<1>5. Prompted(tree, SetState(mid, n, "skills_resident", v), n, v, d)
  <2> DEFINE more == SetState(mid, n, "skills_resident", v)
  <2>1. /\ more \in Seq(NodeRows) /\ Tree(more) /\ DOMAIN more = DOMAIN tree
        /\ \A m \in DOMAIN tree : Alike(tree[m], more[m])
        /\ LoadSessionState(more, n, "skills_resident", {}) = v
        /\ \A m \in DOMAIN tree : \A k \in {"skills_resident", "skills_dropped"} :
             m # n \/ k # "skills_resident" => LoadSessionState(more, m, k, {}) = LoadSessionState(mid, m, k, {})
    BY <1>4
  <2> HIDE DEF more
  <2>2. Prompted(tree, more, n, v, d)
    BY <2>1 DEF Prompted
  <2> QED
    BY <2>2 DEF more
<1>6. Prompted(tree, SetState(mid, n, "skills_dropped", v), n, r, v)
  <2> DEFINE more == SetState(mid, n, "skills_dropped", v)
  <2>1. /\ more \in Seq(NodeRows) /\ Tree(more) /\ DOMAIN more = DOMAIN tree
        /\ \A m \in DOMAIN tree : Alike(tree[m], more[m])
        /\ LoadSessionState(more, n, "skills_dropped", {}) = v
        /\ \A m \in DOMAIN tree : \A k \in {"skills_resident", "skills_dropped"} :
             m # n \/ k # "skills_dropped" => LoadSessionState(more, m, k, {}) = LoadSessionState(mid, m, k, {})
    BY <1>4
  <2> HIDE DEF more
  <2>2. Prompted(tree, more, n, r, v)
    BY <2>1 DEF Prompted
  <2> QED
    BY <2>2 DEF more
<1> QED
  BY <1>5, <1>6

(* Noted() clears, then notes the resident and what they lost: all of it   *)
(* is written at one row, and no other branch has that row.                *)
LEMMA NotedKeeps ==
  ASSUME RowsInv(nodes), NEW n \in DOMAIN nodes, IsLeaf(nodes, n),
         NEW kept \in SUBSET Skills, kept \subseteq SkillsOn(n)
  PROVE  /\ RowsInv(Noted(n, kept)) /\ DOMAIN Noted(n, kept) = DOMAIN nodes
         /\ \A m \in DOMAIN nodes : Noted(n, kept)[m].branch = nodes[m].branch
<1> DEFINE told == Dropped(n)
           res == Resident(n)
           gone == NewlyDropped(res, SkillsOn(n) \ kept)
           cleared == IF told = {} THEN nodes ELSE SetState(nodes, n, "skills_dropped", {})
           resident == SetState(cleared, n, "skills_resident", StillResident(res, gone, kept))
           noted == IF gone = {} THEN resident ELSE SetState(resident, n, "skills_dropped", gone)
           more == [noted EXCEPT ![n].prompts = Append(@, [told |-> told, kept |-> kept])]
<1>1. Noted(n, kept) = more
  BY DEF Noted
<1>2. nodes \in Seq(NodeRows) /\ Tree(nodes) /\ Noticed(nodes, n)
  BY DEF RowsInv
<1>3. /\ SkillsOn(n) = SkillsAt(nodes, n) /\ res = LoadSessionState(nodes, n, "skills_resident", {})
      /\ told = LoadSessionState(nodes, n, "skills_dropped", {})
  BY DEF SkillsOn, SkillsAt, Resident, Dropped, GetState
<1>4. res \in SUBSET Skills /\ told \in SUBSET Skills /\ res \subseteq SkillsOn(n)
  <2> DEFINE ps == AllPrompts(nodes, n)
  <2>1. Knows(ps, res, told, SkillsOn(n))
    BY <1>2, <1>3 DEF Noticed
  <2> HIDE DEF ps, res, told
  <2>2. ps \in Prompts
    BY <2>1 DEF Knows
  <2>3. ASSUME NEW i \in DOMAIN ps PROVE ps[i].kept \in SUBSET Skills
    <3> DEFINE P == [told : SUBSET Skills, kept : SUBSET Skills]
    <3>1. ps \in Seq(P)
      BY <2>2 DEF Prompts
    <3> HIDE DEF P
    <3>2. i \in 1..Len(ps)
      BY <3>1
    <3>3. ps[i] \in P
      BY <3>1, <3>2, ElementOfSeq
    <3> QED
      BY <3>3 DEF P
  <2>4. Len(ps) \in Nat /\ DOMAIN ps = 1..Len(ps)
    BY <2>2 DEF Prompts
  <2>5. KeptAt(ps, Len(ps)) \in SUBSET Skills /\ KeptAt(ps, Len(ps) - 1) \in SUBSET Skills
    BY <2>3, <2>4 DEF KeptAt
  <2> QED
    BY <2>1, <2>5 DEF Knows
<1> HIDE DEF told, res
<1>5. gone = res \ kept
  BY <1>4 DEF NewlyDropped
<1>6. gone \in SUBSET Skills /\ StillResident(res, gone, kept) = kept
  BY <1>4, <1>5 DEF StillResident
<1> HIDE DEF gone
<1>7. Prompted(nodes, nodes, n, res, told)
  BY <1>2, <1>3 DEF Prompted, Alike
<1>8. cleared \in Seq(NodeRows) /\ Prompted(nodes, cleared, n, res, {})
  <2>1. CASE told = {}
    BY <1>2, <1>7, <2>1
  <2>2. CASE told # {}
    <3>1. {} \in SUBSET Skills
      OBVIOUS
    <3>2. Prompted(nodes, SetState(nodes, n, "skills_dropped", {}), n, res, {})
      BY <1>2, <1>7, <3>1, PromptWrites
    <3> QED
      BY <2>2, <3>2 DEF Prompted
  <2> QED
    BY <2>1, <2>2
<1> HIDE DEF cleared
<1>9. Prompted(nodes, resident, n, kept, {})
  BY <1>2, <1>6, <1>8, PromptWrites
<1>10. resident \in Seq(NodeRows)
  BY <1>9 DEF Prompted
<1> HIDE DEF resident
<1>11. Prompted(nodes, noted, n, kept, gone)
  <2>1. CASE gone = {}
    BY <1>9, <2>1
  <2>2. CASE gone # {}
    <3>1. Prompted(nodes, SetState(resident, n, "skills_dropped", gone), n, kept, gone)
      BY <1>2, <1>6, <1>9, <1>10, PromptWrites
    <3> QED
      BY <2>2, <3>1
  <2> QED
    BY <2>1, <2>2
<1>12. noted \in Seq(NodeRows)
  BY <1>11 DEF Prompted
<1> HIDE DEF noted
<1>13. Prompted(nodes, noted, n, kept, LoadSessionState(nodes, n, "skills_resident", {}) \ kept)
  BY <1>3, <1>5, <1>11
<1>14. kept \subseteq SkillsAt(nodes, n)
  BY <1>3
<1>15. /\ RowsInv(more) /\ DOMAIN more = DOMAIN nodes
       /\ \A m \in DOMAIN nodes : more[m].branch = nodes[m].branch
  <2>1. OneMorePrompt(noted, more, n, told, kept)
    BY DEF OneMorePrompt
  <2> HIDE DEF more
  <2> QED
    <3>1. IsNoted(nodes, noted, n, told, kept)
      BY <1>3, <1>4, <1>13, <1>14 DEF IsNoted
    <3> QED
      BY <1>2, <2>1, <3>1, PromptKeeps
<1> HIDE DEF more
<1> QED
  BY <1>1, <1>15

(* The choice of a model leaves what the skills note.                      *)
LEMMA ModelKeeps ==
  ASSUME NEW tree \in Seq(NodeRows), RowsInv(tree), NEW n \in DOMAIN tree, NEW value,
         NEW more, Wrote(tree, more, n, "model", value)
  PROVE  /\ RowsInv(more) /\ DOMAIN more = DOMAIN tree
         /\ \A m \in DOMAIN tree : more[m].branch = tree[m].branch
<1>1. Tree(tree) /\ \A m \in DOMAIN tree : Noticed(tree, m)
  BY DEF RowsInv
<1>2. "model" \in Keys /\ "skills_resident" \in Keys /\ "skills_dropped" \in Keys
  BY DEF Keys
<1>3. /\ more \in Seq(NodeRows) /\ DOMAIN more = DOMAIN tree /\ Tree(more)
      /\ \A m \in DOMAIN tree : more[m].branch = tree[m].branch
  BY <1>1, WrittenRows
<1>4. ASSUME NEW m \in DOMAIN tree PROVE Noticed(more, m)
  <2>1. LoadSessionState(more, m, "skills_resident", {}) = LoadSessionState(tree, m, "skills_resident", {})
    BY <1>1, <1>2, UnwrittenState
  <2>2. LoadSessionState(more, m, "skills_dropped", {}) = LoadSessionState(tree, m, "skills_dropped", {})
    BY <1>1, <1>2, UnwrittenState
  <2>3. AllPrompts(more, m) = AllPrompts(tree, m)
    BY DEF Wrote, Alike, AllPrompts
  <2> DEFINE branch == tree[m].branch
  <2>4. branch \subseteq DOMAIN tree /\ more[m].branch = branch
    BY <1>1, <1>3, SettersAreThose
  <2>5. \A k \in branch : more[k].skill = tree[k].skill
    BY <2>4 DEF Wrote, Alike
  <2> HIDE DEF branch
  <2>6. {more[k].skill : k \in branch} = {tree[k].skill : k \in branch}
    BY <2>5
  <2>7. SkillsAt(more, m) = SkillsAt(tree, m)
    BY <2>4, <2>6 DEF SkillsAt, branch
  <2>8. Noticed(tree, m)
    BY <1>1
  <2> QED
    BY <2>1, <2>2, <2>3, <2>7, <2>8 DEF Noticed
<1> QED
  BY <1>3, <1>4 DEF RowsInv

-----------------------------------------------------------------------------
(* The tail of a running turn is on no other branch, and no passive        *)
(* message attaches to it.                                                 *)
Running ==
  turn.stage # "idle" => turn.tail \in DOMAIN nodes /\ cursor # turn.tail /\ IsLeaf(nodes, turn.tail)
SessionInv ==
  /\ RowsInv(nodes) /\ cursor \in DOMAIN nodes
  /\ turn \in [stage : {"idle", "assemble", "infer"}, tail : Nat]
  /\ Running

LEMMA InitSession == StateInit => SessionInv
<1> SUFFICES ASSUME StateInit PROVE SessionInv
  OBVIOUS
<1>1. << >> \in Prompts /\ << >> \o << >> = << >> /\ Len(<< >>) = 0 /\ DOMAIN << >> = {}
  BY EmptySeq, ConcatEmptySeq DEF Prompts
<1>2. "" \in Settings
  BY DEF Settings
<1>3. << >> \in Deltas
  BY <1>2, NewDeltas
<1>4. {1} \in SUBSET Nat /\ {1, 2} \in SUBSET Nat
  OBVIOUS
<1>5. "" \in SkillOrNone
  BY DEF SkillOrNone
<1>6. Row({1}, << >>, "", << >>) \in NodeRows /\ Row({1, 2}, << >>, "", << >>) \in NodeRows
  BY <1>1, <1>3, <1>4, <1>5 DEF Row, NodeRows
<1>7. /\ nodes \in Seq(NodeRows) /\ DOMAIN nodes = {1, 2}
      /\ nodes[1] = Row({1}, << >>, "", << >>) /\ nodes[2] = Row({1, 2}, << >>, "", << >>)
  <2> DEFINE a == Row({1}, << >>, "", << >>)
             b == Row({1, 2}, << >>, "", << >>)
  <2>1. nodes = << a, b >> /\ a \in NodeRows /\ b \in NodeRows
    BY <1>6 DEF StateInit
  <2> HIDE DEF a, b
  <2>2. << a, b >> \in Seq(NodeRows) /\ Len(<< a, b >>) = 2 /\ << a, b >>[1] = a /\ << a, b >>[2] = b
    BY <2>1
  <2>3. DOMAIN nodes = 1..2 /\ 1..2 = {1, 2}
    BY <2>1, <2>2
  <2> QED
    BY <2>1, <2>2, <2>3 DEF a, b
<1>8. /\ nodes[1].branch = {1} /\ nodes[2].branch = {1, 2}
      /\ \A n \in {1, 2} : nodes[n].delta = << >> /\ nodes[n].before = << >> /\ nodes[n].prompts = << >>
  <2> DEFINE a == Row({1}, << >>, "", << >>)
             b == Row({1, 2}, << >>, "", << >>)
  <2>1. a.branch = {1} /\ a.delta = << >> /\ a.before = << >> /\ a.prompts = << >>
    BY DEF Row
  <2>2. b.branch = {1, 2} /\ b.delta = << >> /\ b.before = << >> /\ b.prompts = << >>
    BY DEF Row
  <2>3. nodes[1] = a /\ nodes[2] = b
    BY <1>7
  <2> HIDE DEF a, b
  <2> QED
    BY <2>1, <2>2, <2>3
<1>9. Tree(nodes)
  <2>1. {1} \subseteq 1..1 /\ {1, 2} \subseteq 1..2
    OBVIOUS
  <2> QED
    BY <1>7, <1>8, <2>1 DEF Tree
<1>10. ASSUME NEW n \in {1, 2} PROVE Noticed(nodes, n)
  <2>1. nodes[n].branch \subseteq {1, 2}
    BY <1>8
  <2>2. ASSUME NEW key PROVE LoadSessionState(nodes, n, key, {}) = {}
    <3>1. \A k \in nodes[n].branch : key \notin DOMAIN nodes[k].delta
      BY <1>1, <1>8, <2>1
    <3>2. Setters(nodes, n, key) = {}
      BY <3>1 DEF Setters
    <3> QED
      BY <3>2 DEF LoadSessionState
  <2>3. AllPrompts(nodes, n) = << >>
    BY <1>1, <1>8 DEF AllPrompts
  <2>4. KeptAt(<< >>, 0) = {} /\ KeptAt(<< >>, 0 - 1) = {}
    BY DEF KeptAt
  <2>5. ToldOnce(<< >>)
    BY <1>1 DEF ToldOnce
  <2>6. Knows(<< >>, {}, {}, SkillsAt(nodes, n))
    BY <1>1, <2>4, <2>5 DEF Knows
  <2> QED
    BY <2>2, <2>3, <2>6 DEF Noticed
<1>11. RowsInv(nodes)
  BY <1>7, <1>9, <1>10 DEF RowsInv
<1> QED
  BY <1>7, <1>11 DEF StateInit, SessionInv, Running

LEMMA AddedKeeps ==
  ASSUME SessionInv, NEW parent \in DOMAIN nodes, NEW delta \in Deltas, SaysNothing(delta),
         NEW skill \in SkillOrNone, nodes' = Added(parent, delta, skill)
  PROVE  /\ RowsInv(nodes') /\ DOMAIN nodes \subseteq DOMAIN nodes'
         /\ Len(nodes') \in DOMAIN nodes' /\ Len(nodes') \notin DOMAIN nodes /\ Len(nodes') \in Nat
         /\ IsLeaf(nodes', Len(nodes'))
         /\ \A n \in DOMAIN nodes : n # parent /\ IsLeaf(nodes, n) => IsLeaf(nodes', n)
<1>1. nodes \in Seq(NodeRows) /\ RowsInv(nodes) /\ Tree(nodes)
  BY DEF SessionInv, RowsInv
<1>2. OneMoreRow(nodes, nodes', parent, delta, skill)
  BY DEF Added, OneMoreRow, PromptsOn, AllPrompts
<1> DEFINE new == Len(nodes) + 1
<1>3. /\ RowsInv(nodes') /\ DOMAIN nodes' = 1..new /\ Len(nodes') = new
      /\ \A m \in DOMAIN nodes : nodes'[m].branch = nodes[m].branch
      /\ nodes'[new].branch = nodes[parent].branch \union {new}
  <2>1. Grown(nodes, nodes', parent)
    BY <1>1, <1>2, RowKeeps
  <2> QED
    BY <2>1 DEF Grown
<1>4. new \in Nat /\ new \notin DOMAIN nodes /\ 1..new = DOMAIN nodes \union {new}
  BY <1>1
<1> HIDE DEF new
<1>5. \A m \in DOMAIN nodes : nodes[m].branch \subseteq DOMAIN nodes
  BY <1>1, SettersAreThose
<1>6. IsLeaf(nodes', new)
  BY <1>3, <1>4, <1>5 DEF IsLeaf
<1>7. ASSUME NEW n \in DOMAIN nodes, n # parent, IsLeaf(nodes, n) PROVE IsLeaf(nodes', n)
  <2>1. n \notin nodes'[new].branch
    BY <1>3, <1>4, <1>7 DEF IsLeaf
  <2> QED
    BY <1>3, <1>4, <1>7, <2>1 DEF IsLeaf
<1> QED
  BY <1>3, <1>4, <1>6, <1>7

LEMMA PushedKeeps ==
  ASSUME SessionInv, NEW a \in Authors, nodes' = PushNode(a)
  PROVE  /\ RowsInv(nodes') /\ DOMAIN nodes \subseteq DOMAIN nodes'
         /\ Len(nodes') \in DOMAIN nodes' /\ Len(nodes') \notin DOMAIN nodes /\ Len(nodes') \in Nat
         /\ IsLeaf(nodes', Len(nodes'))
         /\ \A n \in DOMAIN nodes : n # cursor /\ IsLeaf(nodes, n) => IsLeaf(nodes', n)
<1> DEFINE delta == ComputeStateDelta(a, cursor)
<1>1. cursor \in DOMAIN nodes
  BY DEF SessionInv
<1>2. "" \in SkillOrNone /\ a \in Settings
  BY DEF SkillOrNone, Settings
<1>3. delta = << >> \/ delta = [author |-> a]
  BY DEF ComputeStateDelta
<1>4. delta \in Deltas
  BY <1>2, <1>3, NewDeltas
<1>5. SaysNothing(delta)
  <2>1. "skills_resident" # "author" /\ "skills_dropped" # "author"
    OBVIOUS
  <2>2. DOMAIN << >> = {} /\ DOMAIN [author |-> a] = {"author"}
    BY EmptySeq
  <2> QED
    BY <1>3, <2>1, <2>2 DEF SaysNothing
<1>6. nodes' = Added(cursor, delta, "")
  BY DEF PushNode
<1> HIDE DEF delta
<1> QED
  BY <1>1, <1>2, <1>4, <1>5, <1>6, AddedKeeps

LEMMA PushKeeps ==
  ASSUME SessionInv, NEW a \in Authors, Push(a) \/ PushPassive(a)
  PROVE  SessionInv'
<1>1. CASE Push(a)
  <2>1. nodes' = PushNode(a) /\ turn' = [stage |-> "assemble", tail |-> Len(nodes')] /\ cursor' = cursor
    BY <1>1 DEF Push
  <2>2. /\ RowsInv(nodes') /\ DOMAIN nodes \subseteq DOMAIN nodes'
        /\ Len(nodes') \in DOMAIN nodes' /\ Len(nodes') \notin DOMAIN nodes /\ Len(nodes') \in Nat
        /\ IsLeaf(nodes', Len(nodes'))
    BY <2>1, PushedKeeps
  <2>3. cursor \in DOMAIN nodes
    BY DEF SessionInv
  <2> QED
    BY <2>1, <2>2, <2>3 DEF SessionInv, Running
<1>2. CASE PushPassive(a)
  <2>1. nodes' = PushNode(a) /\ cursor' = Len(nodes') /\ turn' = turn
    BY <1>2 DEF PushPassive
  <2>2. /\ RowsInv(nodes') /\ DOMAIN nodes \subseteq DOMAIN nodes'
        /\ Len(nodes') \in DOMAIN nodes' /\ Len(nodes') \notin DOMAIN nodes
        /\ \A n \in DOMAIN nodes : n # cursor /\ IsLeaf(nodes, n) => IsLeaf(nodes', n)
    BY <2>1, PushedKeeps
  <2>3. Running /\ turn \in [stage : {"idle", "assemble", "infer"}, tail : Nat]
    BY DEF SessionInv
  <2>4. Running'
    BY <2>1, <2>2, <2>3 DEF Running
  <2> QED
    BY <2>1, <2>2, <2>3, <2>4 DEF SessionInv
<1> QED
  BY <1>1, <1>2

(* A row that the turn adds below its tail.                                *)
LEMMA TailKeeps ==
  ASSUME SessionInv, turn.stage # "idle", NEW delta \in Deltas, SaysNothing(delta), NEW skill \in SkillOrNone,
         nodes' = Added(turn.tail, delta, skill),
         \/ turn' = [stage |-> "assemble", tail |-> Len(nodes')] /\ cursor' = cursor
         \/ turn' = [stage |-> "idle", tail |-> Len(nodes')] /\ cursor' = Len(nodes')
  PROVE  SessionInv'
<1>1. turn.tail \in DOMAIN nodes /\ cursor \in DOMAIN nodes
  BY DEF SessionInv, Running
<1>2. /\ RowsInv(nodes') /\ DOMAIN nodes \subseteq DOMAIN nodes'
      /\ Len(nodes') \in DOMAIN nodes' /\ Len(nodes') \notin DOMAIN nodes /\ Len(nodes') \in Nat
      /\ IsLeaf(nodes', Len(nodes'))
  BY <1>1, AddedKeeps
<1>3. CASE turn' = [stage |-> "assemble", tail |-> Len(nodes')] /\ cursor' = cursor
  BY <1>1, <1>2, <1>3 DEF SessionInv, Running
<1>4. CASE turn' = [stage |-> "idle", tail |-> Len(nodes')] /\ cursor' = Len(nodes')
  BY <1>2, <1>4 DEF SessionInv, Running
<1> QED
  BY <1>3, <1>4

LEMMA AssembleKeeps ==
  ASSUME SessionInv, NEW kept \in SUBSET Skills, Assemble(kept)
  PROVE  SessionInv'
<1>1. /\ turn.stage = "assemble" /\ kept \subseteq SkillsOn(turn.tail) /\ nodes' = Noted(turn.tail, kept)
      /\ turn' = [turn EXCEPT !.stage = "infer"] /\ cursor' = cursor
  BY DEF Assemble
<1>2. /\ RowsInv(nodes) /\ turn.tail \in DOMAIN nodes /\ cursor # turn.tail /\ IsLeaf(nodes, turn.tail)
      /\ cursor \in DOMAIN nodes /\ turn \in [stage : {"idle", "assemble", "infer"}, tail : Nat]
  BY <1>1 DEF SessionInv, Running
<1>3. /\ RowsInv(nodes') /\ DOMAIN nodes' = DOMAIN nodes
      /\ \A m \in DOMAIN nodes : nodes'[m].branch = nodes[m].branch
  <2> DEFINE n == turn.tail
  <2>1. n \in DOMAIN nodes /\ IsLeaf(nodes, n) /\ kept \subseteq SkillsOn(n) /\ nodes' = Noted(n, kept)
    BY <1>1, <1>2
  <2> HIDE DEF n
  <2> QED
    BY <1>2, <2>1, NotedKeeps
<1>4. turn' \in [stage : {"idle", "assemble", "infer"}, tail : Nat] /\ turn'.tail = turn.tail
  BY <1>1, <1>2
<1>5. IsLeaf(nodes', turn.tail)
  BY <1>2, <1>3 DEF IsLeaf
<1> QED
  BY <1>1, <1>2, <1>3, <1>4, <1>5 DEF SessionInv, Running

LEMMA CommandKeeps ==
  ASSUME SessionInv, NEW name \in Chat \union {""}, ModelCommand(name)
  PROVE  SessionInv'
<1>1. turn.stage = "idle" /\ nodes' = SetState(nodes, cursor, "model", name) /\ turn' = turn /\ cursor' = cursor
  BY DEF ModelCommand
<1>2. RowsInv(nodes) /\ nodes \in Seq(NodeRows) /\ cursor \in DOMAIN nodes
  BY DEF SessionInv, RowsInv
<1>3. name \in Settings /\ "model" \in Keys
  BY DEF Settings, Keys
<1>4. Wrote(nodes, nodes', cursor, "model", name)
  BY <1>1, <1>2, <1>3, SetStateWrites
<1>5. RowsInv(nodes') /\ DOMAIN nodes' = DOMAIN nodes
  BY <1>2, <1>4, ModelKeeps
<1> QED
  BY <1>1, <1>5 DEF SessionInv, Running

LEMMA StepSession == SessionInv /\ [StateNext]_stateVars => SessionInv'
<1> SUFFICES ASSUME SessionInv, [StateNext]_stateVars PROVE SessionInv'
  OBVIOUS
<1>1. ASSUME NEW a \in Authors, Push(a) \/ PushPassive(a) PROVE SessionInv'
  BY <1>1, PushKeeps
<1>2. ASSUME NEW n \in 2..Len(nodes), Return(n) PROVE SessionInv'
  <2>1. turn.stage = "idle" /\ cursor' = n /\ nodes' = nodes /\ turn' = turn
    BY <1>2 DEF Return
  <2>2. nodes \in Seq(NodeRows)
    BY DEF SessionInv, RowsInv
  <2>3. n \in DOMAIN nodes
    BY <2>2
  <2> QED
    BY <2>1, <2>3 DEF SessionInv, Running
<1>3. ASSUME NEW kept \in SUBSET Skills, Assemble(kept) PROVE SessionInv'
  BY <1>3, AssembleKeeps
<1>4. CASE Resend
  <2>1. turn.stage = "infer" /\ turn' = [turn EXCEPT !.stage = "assemble"] /\ nodes' = nodes /\ cursor' = cursor
    BY <1>4 DEF Resend
  <2> QED
    BY <2>1 DEF SessionInv, Running
<1>5. ASSUME NEW s \in Skills, UseSkill(s) PROVE SessionInv'
  <2>1. /\ turn.stage = "infer" /\ nodes' = Added(turn.tail, << >>, s)
        /\ turn' = [stage |-> "assemble", tail |-> Len(nodes')] /\ cursor' = cursor
    BY <1>5 DEF UseSkill
  <2>2. s \in SkillOrNone /\ "" \in Settings
    BY DEF SkillOrNone, Settings
  <2>3. << >> \in Deltas
    BY <2>2, NewDeltas
  <2>4. SaysNothing(<< >>)
    BY EmptySeq DEF SaysNothing
  <2> QED
    BY <2>1, <2>2, <2>3, <2>4, TailKeeps
<1>6. ASSUME NEW m \in Chat \union {""}, SetActiveModel(m) PROVE SessionInv'
  <2>1. /\ turn.stage = "infer" /\ nodes' = Added(turn.tail, [model |-> m], "")
        /\ turn' = [stage |-> "assemble", tail |-> Len(nodes')] /\ cursor' = cursor
    BY <1>6 DEF SetActiveModel
  <2>2. m \in Settings /\ "" \in SkillOrNone
    BY DEF SkillOrNone, Settings
  <2>3. [model |-> m] \in Deltas
    BY <2>2, NewDeltas
  <2>4. SaysNothing([model |-> m])
    BY DEF SaysNothing
  <2> QED
    BY <2>1, <2>2, <2>3, <2>4, TailKeeps
<1>7. CASE Finish
  <2>1. /\ turn.stage = "infer" /\ nodes' = Added(turn.tail, << >>, "")
        /\ turn' = [stage |-> "idle", tail |-> Len(nodes')] /\ cursor' = Len(nodes')
    BY <1>7 DEF Finish
  <2>2. "" \in SkillOrNone /\ "" \in Settings
    BY DEF SkillOrNone, Settings
  <2>3. << >> \in Deltas
    BY <2>2, NewDeltas
  <2>4. SaysNothing(<< >>)
    BY EmptySeq DEF SaysNothing
  <2> QED
    BY <2>1, <2>2, <2>3, <2>4, TailKeeps
<1>8. CASE GiveUp
  <2>1. turn.stage = "infer" /\ cursor' = turn.tail /\ turn' = [turn EXCEPT !.stage = "idle"] /\ nodes' = nodes
    BY <1>8 DEF GiveUp
  <2> QED
    BY <2>1 DEF SessionInv, Running
<1>9. ASSUME NEW m \in Chat \union {""}, ModelCommand(m) PROVE SessionInv'
  BY <1>9, CommandKeeps
<1>10. CASE UNCHANGED stateVars
  BY <1>10 DEF SessionInv, Running, stateVars
<1> QED
  BY <1>1, <1>2, <1>3, <1>4, <1>5, <1>6, <1>7, <1>8, <1>9, <1>10 DEF StateNext

LEMMA InvTellsOnce == SessionInv => LossesAreToldOnce
<1> SUFFICES ASSUME SessionInv, NEW n \in DOMAIN nodes, NEW i \in DOMAIN PromptsOn(n)
             PROVE  PromptsOn(n)[i].told = KeptAt(PromptsOn(n), i - 2) \ KeptAt(PromptsOn(n), i - 1)
  BY DEF LossesAreToldOnce, KeptAt
<1>1. Noticed(nodes, n)
  BY DEF SessionInv, RowsInv
<1>2. ToldOnce(PromptsOn(n))
  BY <1>1 DEF Noticed, Knows, AllPrompts, PromptsOn
<1> QED
  BY <1>2 DEF ToldOnce

(* On every branch a skill that was in one prompt and not in the next is   *)
(* named in the prompt after that, once.                                   *)
THEOREM LossesStayTold == StateSpec => []LossesAreToldOnce
<1> QED
  BY InitSession, StepSession, InvTellsOnce, PTL DEF StateSpec

-----------------------------------------------------------------------------
(* Loops over a sequence, as functions of how far they are.                *)

(* Induction up to n, over a set of numbers.                               *)
LEMMA Climb ==
  ASSUME NEW n \in Nat, NEW G, 0 \in G, \A k \in 1..n : k - 1 \in G => k \in G
  PROVE  0..n \subseteq G
<1> DEFINE B == (0..n) \ G
<1>1. SUFFICES ASSUME B # {} PROVE FALSE
  OBVIOUS
<1>2. PICK m \in B : \A k \in 0..(m - 1) : k \notin B
  <2>1. B \subseteq Nat
    OBVIOUS
  <2> HIDE DEF B
  <2> QED
    BY <1>1, <2>1, FirstFailure
<1>3. m \in 1..n /\ m - 1 \in 0..n /\ m - 1 \in 0..(m - 1) /\ m \notin G
  BY <1>2
<1> QED
  BY <1>2, <1>3

(* A loop may be defined by what it is at 0 and by how it goes on.         *)
Follows(f, n, first, g) == f[0] = first /\ \A k \in 1..n : f[k] = g[<<k, f[k - 1]>>]

LEMMA Recursion ==
  ASSUME NEW n \in Nat, NEW X, NEW first \in X, NEW g \in [(1..n) \X X -> X]
  PROVE  \E f \in [0..n -> X] : Follows(f, n, first, g)
<1> DEFINE G == {m \in 0..n : \E f \in [0..m -> X] : Follows(f, m, first, g)}
<1>1. 0 \in G
  <2>1. [k \in 0..0 |-> first] \in [0..0 -> X] /\ Follows([k \in 0..0 |-> first], 0, first, g)
    BY DEF Follows
  <2> QED
    BY <2>1
<1>2. ASSUME NEW m \in 1..n, m - 1 \in G PROVE m \in G
  <2>1. PICK f \in [0..(m - 1) -> X] : Follows(f, m - 1, first, g)
    BY <1>2
  <2> DEFINE h == [k \in 0..m |-> IF k = m THEN g[<<m, f[m - 1]>>] ELSE f[k]]
  <2>2. f[m - 1] \in X /\ g[<<m, f[m - 1]>>] \in X
    BY <2>1
  <2>3. h \in [0..m -> X]
    BY <2>1, <2>2
  <2>4. h[0] = first
    BY <2>1 DEF Follows
  <2>5. ASSUME NEW k \in 1..m PROVE h[k] = g[<<k, h[k - 1]>>]
    <3>1. k - 1 \in 0..m /\ k - 1 # m /\ h[k - 1] = f[k - 1]
      OBVIOUS
    <3>2. CASE k = m
      BY <3>1, <3>2
    <3>3. CASE k # m
      <4>1. k \in 1..(m - 1) /\ h[k] = f[k]
        BY <3>3
      <4> QED
        BY <2>1, <3>1, <4>1 DEF Follows
    <3> QED
      BY <3>2, <3>3
  <2>6. Follows(h, m, first, g)
    <3> HIDE DEF h
    <3> QED
      BY <2>4, <2>5 DEF Follows
  <2> QED
    BY <2>3, <2>6
<1>3. 0..n \subseteq G
  <2>1. \A k \in 1..n : k - 1 \in G => k \in G
    BY <1>2
  <2> HIDE DEF G
  <2> QED
    BY <1>1, <2>1, Climb
<1>4. n \in G
  BY <1>3
<1> QED
  BY <1>4

(* The same written with a conditional, as the loops of the models are.    *)
(* step[<<k, x>>] is what becomes of x in the k-th round.                  *)
Loops(f, n, first, step) == f = [k \in 0..n |-> IF k = 0 THEN first ELSE step[<<k, f[k - 1]>>]]

LEMMA LoopExists ==
  ASSUME NEW n \in Nat, NEW X, NEW first \in X, NEW step \in [(1..n) \X X -> X]
  PROVE  \E f \in [0..n -> X] : Loops(f, n, first, step)
<1>1. PICK f \in [0..n -> X] : Follows(f, n, first, step)
  BY Recursion
<1>2. \A k \in 0..n : f[k] = IF k = 0 THEN first ELSE step[<<k, f[k - 1]>>]
  <2> TAKE k \in 0..n
  <2>1. CASE k = 0
    BY <1>1, <2>1 DEF Follows
  <2>2. CASE k # 0
    <3>1. k \in 1..n
      BY <2>2
    <3> QED
      BY <1>1, <2>2, <3>1 DEF Follows
  <2> QED
    BY <2>1, <2>2
<1>3. f = [k \in 0..n |-> f[k]]
  OBVIOUS
<1> QED
  BY <1>2, <1>3 DEF Loops

-----------------------------------------------------------------------------
(* Tools.                                                                  *)

(* With minimal_tokens a tool that is kept from the model's list is one    *)
(* whose call would be denied (handler.py: get_tool_definitions() and      *)
(* execute_tool_call()): whatever the registry, its gates, the caller's    *)
(* permissions and the arguments.                                          *)
THEOREM HiddenToolsAreDenied ==
  ASSUME NEW reg, NEW caller, NEW call,
         reg.tools[call.name].gate \in {"open", "static", "perCall"}, caller.known
  PROVE  HiddenIsDenied(reg, caller, call)
<1> DEFINE tool == reg.tools[call.name]
           args == Coerced(call.annotation, call.value)
<1> SUFFICES ASSUME call.name \in Offered(reg), call.name \notin Definitions(reg, caller, TRUE),
                    tool.gate = "perCall" /\ tool.listing # Always =>
                      \A a \in DOMAIN tool.classify : tool.listing \subseteq Expand(tool.classify[a])
             PROVE  Execute(reg, call, caller) \notin {"result", "error"}
  BY DEF HiddenIsDenied
<1>1. ~Visible(tool, caller.effective)
  BY DEF Definitions
<1>2. ASSUME NEW needs, Expand(needs) \subseteq caller.effective PROVE needs \subseteq caller.effective
  BY <1>2 DEF Expand
<1>3. tool.gate # "open"
  BY <1>1 DEF Visible
<1>4. tool.gate = "static" => Denied(tool, args, caller.effective)
  BY <1>1, <1>2 DEF Visible, Denied, Needs
<1>5. ASSUME tool.gate = "perCall", args \in DOMAIN tool.classify
      PROVE  Denied(tool, args, caller.effective)
  <2>1. tool.listing # Always /\ ~(tool.listing \subseteq caller.effective)
    BY <1>1, <1>5 DEF Visible
  <2>2. tool.listing \subseteq Expand(tool.classify[args])
    BY <1>5, <2>1
  <2> QED
    BY <1>5, <2>1, <2>2 DEF Denied, Needs
<1>6. \/ Execute(reg, call, caller) = "invalid arguments"
      \/ Execute(reg, call, caller) = "cannot classify"
      \/ Execute(reg, call, caller) = "denied"
  <2> DEFINE guarded == IF tool.gate = "perCall" /\ args \notin DOMAIN tool.classify THEN "cannot classify"
                        ELSE IF Denied(tool, args, caller.effective) THEN "denied"
                        ELSE IF call.raises THEN "error" ELSE "result"
  <2>1. guarded \in {"cannot classify", "denied"}
    BY <1>3, <1>4, <1>5
  <2>2. call.parses => Execute(reg, call, caller) = guarded
    BY DEF Execute
  <2>3. ~call.parses => Execute(reg, call, caller) = "invalid arguments"
    BY DEF Execute
  <2> HIDE DEF guarded
  <2> QED
    BY <2>1, <2>2, <2>3
<1> QED
  BY <1>6

(* The same of the questions put to the registry, for any tool, caller and *)
(* call, and any permissions.                                              *)
THEOREM HiddenIsAlwaysDenied ==
  ASSUME question = "tools" => /\ input.call.name = "t" /\ input.caller.known
                               /\ input.tool.gate \in {"open", "static", "perCall"}
  PROVE  WhatIsHiddenIsDenied
<1> SUFFICES ASSUME question = "tools", input.call.name = "t", input.caller.known,
                    input.tool.gate \in {"open", "static", "perCall"},
                    NEW ranked
             PROVE  HiddenIsDenied(PassiveSearch(RegisterTool(NoTools, "t", input.tool, input.alwaysOn), ranked, TRUE, 2),
                                   input.caller, input.call)
  BY DEF WhatIsHiddenIsDenied
<1> DEFINE reg == PassiveSearch(RegisterTool(NoTools, "t", input.tool, input.alwaysOn), ranked, TRUE, 2)
<1>1. reg.tools[input.call.name] = input.tool
  BY DEF PassiveSearch, RegisterTool, NoTools
<1> HIDE DEF reg
<1>2. HiddenIsDenied(reg, input.caller, input.call)
  BY <1>1, HiddenToolsAreDenied
<1> QED
  BY <1>2 DEF reg

-----------------------------------------------------------------------------
(* Shell.                                                                  *)

LEMMA MembersOfAppend ==
  ASSUME NEW X, NEW s \in Seq(X), NEW x \in X
  PROVE  Members(Append(s, x)) = Members(s) \union {x}
<1>1. /\ Len(s) \in Nat /\ DOMAIN s = 1..Len(s) /\ DOMAIN Append(s, x) = 1..(Len(s) + 1)
      /\ \A i \in 1..Len(s) : Append(s, x)[i] = s[i]
      /\ Append(s, x)[Len(s) + 1] = x
  OBVIOUS
<1>2. Members(s) = {s[i] : i \in 1..Len(s)}
  BY <1>1 DEF Members
<1>3. Members(Append(s, x)) = {Append(s, x)[i] : i \in 1..(Len(s) + 1)}
  BY <1>1 DEF Members
<1> QED
  BY <1>1, <1>2, <1>3

(* A sequence of which each member is kept or not: f[k] is what is kept of *)
(* the first k.                                                            *)
Sieves(f, n, X, e, keep) ==
  f = [k \in 0..n |-> IF k = 0 THEN <<>> ELSE f[k - 1] \o (IF k \in keep THEN <<e[k]>> ELSE <<>>)]

LEMMA SieveExists ==
  ASSUME NEW n \in Nat, NEW X, NEW e \in [1..n -> X], NEW keep
  PROVE  \E f \in [0..n -> Seq(X)] : Sieves(f, n, X, e, keep)
<1> DEFINE step == [p \in (1..n) \X Seq(X) |-> p[2] \o (IF p[1] \in keep THEN <<e[p[1]]>> ELSE <<>>)]
<1>1. \A k \in 1..n, s \in Seq(X) :
        /\ step[<<k, s>>] = s \o (IF k \in keep THEN <<e[k]>> ELSE <<>>)
        /\ step[<<k, s>>] \in Seq(X)
  <2> TAKE k \in 1..n, s \in Seq(X)
  <2>1. step[<<k, s>>] = s \o (IF k \in keep THEN <<e[k]>> ELSE <<>>)
    OBVIOUS
  <2>2. (IF k \in keep THEN <<e[k]>> ELSE <<>>) \in Seq(X)
    <3>1. e[k] \in X
      OBVIOUS
    <3> QED
      BY <3>1
  <2> HIDE DEF step
  <2> QED
    BY <2>1, <2>2, ConcatProperties
<1>2. step \in [(1..n) \X Seq(X) -> Seq(X)]
  OBVIOUS
<1> HIDE DEF step
<1>3. <<>> \in Seq(X)
  OBVIOUS
<1>4. PICK f \in [0..n -> Seq(X)] : Loops(f, n, <<>>, step)
  BY <1>2, <1>3, LoopExists
<1>5. \A k \in 0..n : f[k] = IF k = 0 THEN <<>> ELSE f[k - 1] \o (IF k \in keep THEN <<e[k]>> ELSE <<>>)
  <2> TAKE k \in 0..n
  <2>1. f[k] = IF k = 0 THEN <<>> ELSE step[<<k, f[k - 1]>>]
    BY <1>4 DEF Loops
  <2>2. CASE k = 0
    BY <2>1, <2>2
  <2>3. CASE k # 0
    <3>1. k \in 1..n /\ f[k - 1] \in Seq(X)
      BY <2>3
    <3> QED
      BY <1>1, <2>1, <2>3, <3>1
  <2> QED
    BY <2>2, <2>3
<1>6. f = [k \in 0..n |-> f[k]]
  OBVIOUS
<1> QED
  BY <1>5, <1>6 DEF Sieves

IsKept(e, k, keep) == {e[i] : i \in (1..k) \cap keep}

(* What is kept is what was to be kept, and nothing else.                  *)
LEMMA SieveKeeps ==
  ASSUME NEW n \in Nat, NEW X, NEW e \in [1..n -> X], NEW keep, NEW f, Sieves(f, n, X, e, keep)
  PROVE  \A k \in 0..n : f[k] \in Seq(X) /\ Members(f[k]) = IsKept(e, k, keep)
<1> DEFINE G == {k \in 0..n : f[k] \in Seq(X) /\ Members(f[k]) = IsKept(e, k, keep)}
<1>0. \A k \in 0..n : f[k] = IF k = 0 THEN <<>> ELSE f[k - 1] \o (IF k \in keep THEN <<e[k]>> ELSE <<>>)
  <2> DEFINE g == [k \in 0..n |-> IF k = 0 THEN <<>> ELSE f[k - 1] \o (IF k \in keep THEN <<e[k]>> ELSE <<>>)]
  <2>1. f = g
    BY DEF Sieves
  <2>2. \A k \in 0..n : g[k] = IF k = 0 THEN <<>> ELSE f[k - 1] \o (IF k \in keep THEN <<e[k]>> ELSE <<>>)
    OBVIOUS
  <2> HIDE DEF g
  <2> QED
    BY <2>1, <2>2
<1>1. 0 \in G
  <2>1. f[0] = <<>>
    <3>1. 0 \in 0..n
      OBVIOUS
    <3> QED
      BY <1>0, <3>1
  <2>2. Members(<<>>) = {} /\ IsKept(e, 0, keep) = {} /\ <<>> \in Seq(X)
    BY DEF Members, IsKept
  <2>3. 0 \in 0..n
    OBVIOUS
  <2> QED
    BY <2>1, <2>2, <2>3
<1>2. ASSUME NEW k \in 1..n, k - 1 \in G PROVE k \in G
  <2>1. /\ k - 1 \in 0..n /\ k \in 0..n /\ e[k] \in X
        /\ 1..k = (1..(k - 1)) \union {k} /\ k \in Nat /\ k # 0
    OBVIOUS
  <2>2. f[k] = f[k - 1] \o (IF k \in keep THEN <<e[k]>> ELSE <<>>)
    BY <1>0, <2>1
  <2>3. f[k - 1] \in Seq(X) /\ Members(f[k - 1]) = IsKept(e, k - 1, keep)
    BY <1>2
  <2>4. CASE k \in keep
    <3>1. f[k] = Append(f[k - 1], e[k])
      BY <2>1, <2>2, <2>3, <2>4
    <3>2. Members(f[k]) = Members(f[k - 1]) \union {e[k]}
      BY <2>1, <2>3, <3>1, MembersOfAppend
    <3>3. IsKept(e, k, keep) = IsKept(e, k - 1, keep) \union {e[k]}
      BY <2>1, <2>4 DEF IsKept
    <3>4. f[k] \in Seq(X)
      BY <2>1, <2>3, <3>1
    <3> QED
      BY <2>1, <2>3, <3>2, <3>3, <3>4
  <2>5. CASE k \notin keep
    <3>1. f[k] = f[k - 1]
      BY <2>2, <2>3, <2>5
    <3>2. IsKept(e, k, keep) = IsKept(e, k - 1, keep)
      BY <2>1, <2>5 DEF IsKept
    <3> QED
      BY <2>1, <2>3, <3>1, <3>2
  <2> QED
    BY <2>4, <2>5
<1>3. 0..n \subseteq G
  <2>1. \A k \in 1..n : k - 1 \in G => k \in G
    BY <1>2
  <2> HIDE DEF G
  <2> QED
    BY <1>1, <2>1, Climb
<1> QED
  BY <1>3

LEMMA RulesLeftAre ==
  ASSUME NEW R, NEW rules \in Seq(R), NEW gone
  PROVE  /\ RulesLeft(rules, gone) \in Seq(R)
         /\ Members(RulesLeft(rules, gone)) = {r \in Members(rules) : r.id \notin gone}
<1> DEFINE n == Len(rules)
           keep == {i \in 1..n : rules[i].id \notin gone}
           upTo == CHOOSE f : f = [i \in 0..n |-> IF i = 0 THEN <<>>
                              ELSE f[i - 1] \o (IF rules[i].id \in gone THEN <<>> ELSE <<rules[i]>>)]
<1>0. n \in Nat /\ rules \in [1..n -> R] /\ DOMAIN rules = 1..n
  OBVIOUS
<1>1. RulesLeft(rules, gone) = upTo[n]
  BY DEF RulesLeft
<1>2. Members(rules) = {rules[i] : i \in 1..n}
  BY <1>0 DEF Members
<1>3. IsKept(rules, n, keep) = {r \in {rules[i] : i \in 1..n} : r.id \notin gone}
  BY DEF IsKept
<1>4. Sieves(upTo, n, R, rules, keep)
  <2> DEFINE Q(f) == f = [i \in 0..n |-> IF i = 0 THEN <<>>
                              ELSE f[i - 1] \o (IF rules[i].id \in gone THEN <<>> ELSE <<rules[i]>>)]
  <2>1. ASSUME NEW f PROVE Q(f) <=> Sieves(f, n, R, rules, keep)
    <3> DEFINE a(i) == IF i = 0 THEN <<>> ELSE f[i - 1] \o (IF rules[i].id \in gone THEN <<>> ELSE <<rules[i]>>)
               b(i) == IF i = 0 THEN <<>> ELSE f[i - 1] \o (IF i \in keep THEN <<rules[i]>> ELSE <<>>)
    <3>1. ASSUME NEW i \in 0..n PROVE a(i) = b(i)
      <4>1. i # 0 => (i \in keep <=> ~(rules[i].id \in gone))
        BY <1>0
      <4> HIDE DEF keep
      <4> QED
        BY <4>1
    <3>2. [i \in 0..n |-> a(i)] = [i \in 0..n |-> b(i)]
      <4> HIDE DEF a, b
      <4> QED
        BY <3>1
    <3> QED
      BY <3>2, Zenon DEF Sieves
  <2>2. PICK f : Sieves(f, n, R, rules, keep)
    <3> HIDE DEF n, keep
    <3> QED
      BY <1>0, SieveExists
  <2>3. \E h : Q(h)
    <3> HIDE DEF Q, n, keep
    <3> QED
      BY <2>1, <2>2
  <2>4. upTo = CHOOSE h : Q(h)
    OBVIOUS
  <2>5. Q(upTo)
    <3> HIDE DEF Q, upTo
    <3> QED
      BY <2>3, <2>4, Zenon
  <2> HIDE DEF Q, upTo, n, keep
  <2> QED
    BY <2>1, <2>5
<1> HIDE DEF n, keep, upTo
<1>5. upTo[n] \in Seq(R) /\ Members(upTo[n]) = IsKept(rules, n, keep)
  <2>1. n \in 0..n
    BY <1>0
  <2>2. \A k \in 0..n : upTo[k] \in Seq(R) /\ Members(upTo[k]) = IsKept(rules, k, keep)
    BY <1>0, <1>4, SieveKeeps
  <2> QED
    BY <2>1, <2>2
<1> QED
  BY <1>1, <1>2, <1>3, <1>5

(* The rules of one policy, and others after them.                         *)
HasMoreRules(more, policy) ==
  /\ policy.default = more.default /\ policy.maxBytes = more.maxBytes
  /\ policy.constructs = more.constructs
  /\ \A i \in DOMAIN policy.rules : i \in DOMAIN more.rules /\ more.rules[i] = policy.rules[i]

(* A rule that decides a line decides it however many rules come after it. *)
LEMMA MoreRulesDecideAsMuch ==
  ASSUME NEW policy, NEW more, NEW line, NEW pathOf,
         HasMoreRules(more, policy)
  PROVE  /\ policy.default = "deny" /\ Verdict(line, policy, pathOf) = "accepted" => Verdict(line, more, pathOf) = "accepted"
         /\ policy.default # "deny" /\ Verdict(line, policy, pathOf) = "refused" => Verdict(line, more, pathOf) = "refused"
<1> DEFINE Hit(p, c) == \E i \in DOMAIN p.rules : p.rules[i].action = "deny" /\ DenyFires(p.rules[i], c, pathOf)
           Covered(p, c) == \E i \in DOMAIN p.rules : AllowPermits(p.rules[i], c)
           always == \/ line.bytes = 0 \/ line.bytes > policy.maxBytes \/ ~line.parsed
                     \/ DeniedConstructs(line.types, policy.constructs) # {}
                     \/ line.commands = <<>> /\ policy.default = "deny"
                     \/ \E i \in DOMAIN line.commands : line.commands[i].name = NoName
           Refused(p) == \/ always
                         \/ policy.default = "deny" /\ \E i \in DOMAIN line.commands : ~Covered(p, line.commands[i])
                         \/ policy.default = "allow" /\ \E i \in DOMAIN line.commands : Hit(p, line.commands[i])
<1>1. Verdict(line, policy, pathOf) = IF Refused(policy) THEN "refused" ELSE "accepted"
  BY Zenon DEF Verdict
<1>0. /\ policy.default = more.default /\ policy.maxBytes = more.maxBytes
      /\ policy.constructs = more.constructs
      /\ \A i \in DOMAIN policy.rules : i \in DOMAIN more.rules /\ more.rules[i] = policy.rules[i]
  BY DEF HasMoreRules
<1>2. Verdict(line, more, pathOf) = IF Refused(more) THEN "refused" ELSE "accepted"
  BY <1>0, Zenon DEF Verdict
<1>3. ASSUME NEW c, Hit(policy, c) PROVE Hit(more, c)
  BY <1>0, <1>3
<1>4. ASSUME NEW c, Covered(policy, c) PROVE Covered(more, c)
  BY <1>0, <1>4
<1>5. policy.default = "deny" /\ ~Refused(policy) => ~Refused(more)
  <2> HIDE DEF Covered, Hit, always
  <2> QED
    BY <1>4
<1>6. policy.default # "deny" /\ Refused(policy) => Refused(more)
  <2> HIDE DEF Covered, Hit, always
  <2> QED
    BY <1>3
<1> HIDE DEF Refused
<1> QED
  BY <1>1, <1>2, <1>5, <1>6

(* What an extension neither disables nor replaces stays in force          *)
(* (policy.py: _merge_rules(), _compile()): whatever the base, the file,   *)
(* the line and the paths.                                                 *)
THEOREM UntouchedRulesStayInForce ==
  ASSUME NEW base, NEW file, NEW line, NEW pathOf, NEW R,
         base.rules \in Seq(R), file.rules \in Seq(R)
  PROVE  /\ UntouchedRulesHold(base, file, line, pathOf)
         /\ {r \in Members(base.rules) : r.id \notin file.disable \union Ids(file.rules)}
              \subseteq Members(Compile(base, file).rules)
<1> DEFINE left == RulesLeft(base.rules, file.disable \union Ids(file.rules))
           compiled == Compile(base, file)
           untouched == [compiled EXCEPT !.rules = left]
<1>1. left \in Seq(R) /\ Members(left) = {r \in Members(base.rules) : r.id \notin file.disable \union Ids(file.rules)}
  BY RulesLeftAre
<1>2. /\ compiled.rules = left \o file.rules /\ compiled.default = base.default
      /\ untouched.default = compiled.default /\ untouched.maxBytes = compiled.maxBytes
      /\ untouched.constructs = compiled.constructs /\ untouched.rules = left
  BY DEF Compile, Merge
<1> HIDE DEF left
<1>3. \A i \in DOMAIN left : i \in DOMAIN (left \o file.rules) /\ (left \o file.rules)[i] = left[i]
  BY <1>1, ConcatProperties
<1>4. Members(left) \subseteq Members(left \o file.rules)
  BY <1>3 DEF Members
<1>5. UntouchedRulesHold(base, file, line, pathOf)
  <2>1. UntouchedRulesHold(base, file, line, pathOf) =
          (Compiles(base, file) /\ Verdict(line, untouched, pathOf) = (IF base.default = "deny" THEN "accepted" ELSE "refused")
             => Verdict(line, compiled, pathOf) = IF base.default = "deny" THEN "accepted" ELSE "refused")
    BY Zenon DEF UntouchedRulesHold, left
  <2> HIDE DEF compiled, untouched
  <2>2. \A i \in DOMAIN untouched.rules : i \in DOMAIN compiled.rules /\ compiled.rules[i] = untouched.rules[i]
    BY <1>2, <1>3
  <2>3. /\ untouched.default = "deny" /\ Verdict(line, untouched, pathOf) = "accepted" => Verdict(line, compiled, pathOf) = "accepted"
        /\ untouched.default # "deny" /\ Verdict(line, untouched, pathOf) = "refused" => Verdict(line, compiled, pathOf) = "refused"
    <3>1. HasMoreRules(compiled, untouched)
      BY <1>2, <2>2 DEF HasMoreRules
    <3> HIDE DEF compiled, untouched
    <3> QED
      BY <3>1, MoreRulesDecideAsMuch
  <2> QED
    BY <1>2, <2>1, <2>3
<1> HIDE DEF compiled
<1> QED
  BY <1>1, <1>2, <1>4, <1>5 DEF compiled

(* The same of the policies put to the compiler.                           *)
THEOREM ExtensionsLeaveRulesAlone ==
  ASSUME question = "policy" => input.base \in Seq(STRING) /\ input.own \in Seq(STRING)
  PROVE  UntouchedRulesStay
<1> SUFFICES ASSUME question = "policy", NEW line
             PROVE  UntouchedRulesHold(BasePolicy(input), FileOf(input), line, << >>)
  BY DEF UntouchedRulesStay
<1> DEFINE R == {BasePolicy(input).rules[i] : i \in DOMAIN input.base} \union {FileOf(input).rules[i] : i \in DOMAIN input.own}
<1>1. BasePolicy(input).rules \in [1..Len(input.base) -> R] /\ FileOf(input).rules \in [1..Len(input.own) -> R]
  <2>1. DOMAIN input.base = 1..Len(input.base) /\ DOMAIN input.own = 1..Len(input.own)
    OBVIOUS
  <2>2. /\ BasePolicy(input).rules = [i \in DOMAIN input.base |-> BasePolicy(input).rules[i]]
        /\ FileOf(input).rules = [i \in DOMAIN input.own |-> FileOf(input).rules[i]]
    BY DEF BasePolicy, FileOf
  <2> QED
    BY <2>1, <2>2
<1>2. Len(input.base) \in Nat /\ Len(input.own) \in Nat
  OBVIOUS
<1> HIDE DEF R
<1>3. ASSUME NEW n \in Nat, NEW f \in [1..n -> R] PROVE f \in Seq(R)
  BY <1>3, SeqDef
<1>4. BasePolicy(input).rules \in Seq(R) /\ FileOf(input).rules \in Seq(R)
  BY <1>1, <1>2, <1>3
<1> QED
  BY <1>4, UntouchedRulesStayInForce

(* A longer sequence of which as much is kept.                             *)
GoesOn(n, X, e, keep, f, m, d, kept, g) ==
  /\ m = n + 1 /\ e \in [1..n -> X] /\ d \in [1..m -> X]
  /\ Sieves(f, n, X, e, keep) /\ Sieves(g, m, X, d, kept)
  /\ \A k \in 1..n : d[k] = e[k] /\ (k \in kept <=> k \in keep)

(* What is kept of it goes on from what was kept.                          *)
LEMMA SieveGoesOn ==
  ASSUME NEW n \in Nat, NEW X, NEW e, NEW keep, NEW f, NEW m, NEW d, NEW kept, NEW g,
         GoesOn(n, X, e, keep, f, m, d, kept, g)
  PROVE  \E s \in Seq(X) : g[m] = f[n] \o s
<1>0. /\ e \in [1..n -> X] /\ d \in [1..(n + 1) -> X] /\ m = n + 1
      /\ Sieves(f, n, X, e, keep) /\ Sieves(g, n + 1, X, d, kept)
      /\ \A k \in 1..n : d[k] = e[k] /\ (k \in kept <=> k \in keep)
  BY DEF GoesOn
<1> DEFINE G == {k \in 0..n : g[k] = f[k]}
           a(k) == IF k = 0 THEN <<>> ELSE f[k - 1] \o (IF k \in keep THEN <<e[k]>> ELSE <<>>)
           b(k) == IF k = 0 THEN <<>> ELSE g[k - 1] \o (IF k \in kept THEN <<d[k]>> ELSE <<>>)
<1>1. \A k \in 0..n : f[k] = a(k)
  <2>1. f = [k \in 0..n |-> a(k)]
    BY <1>0 DEF Sieves
  <2> HIDE DEF a
  <2> QED
    BY <2>1
<1>2. \A k \in 0..(n + 1) : g[k] = b(k)
  <2>1. g = [k \in 0..(n + 1) |-> b(k)]
    BY <1>0 DEF Sieves
  <2> HIDE DEF b
  <2> QED
    BY <2>1
<1>3. 0 \in G
  <2>1. 0 \in 0..n /\ 0 \in 0..(n + 1) /\ a(0) = b(0)
    OBVIOUS
  <2> HIDE DEF a, b
  <2> QED
    BY <1>1, <1>2, <2>1
<1>4. ASSUME NEW k \in 1..n, k - 1 \in G PROVE k \in G
  <2>1. k \in 0..n /\ k \in 0..(n + 1)
    OBVIOUS
  <2>2. a(k) = b(k)
    BY <1>0, <1>4
  <2> HIDE DEF a, b
  <2> QED
    BY <1>1, <1>2, <2>1, <2>2
<1>5. n \in G
  <2>1. \A k \in 1..n : k - 1 \in G => k \in G
    BY <1>4
  <2> HIDE DEF G
  <2>2. 0..n \subseteq G
    BY <1>3, <2>1, Climb
  <2> QED
    BY <2>2
<1>6. g[n + 1] = b(n + 1) /\ g[n] = f[n]
  <2>1. n + 1 \in 0..(n + 1)
    OBVIOUS
  <2> HIDE DEF b
  <2> QED
    BY <1>2, <1>5, <2>1
<1>7. b(n + 1) = g[n] \o (IF n + 1 \in kept THEN <<d[n + 1]>> ELSE <<>>)
  <2>1. ASSUME NEW k, k # 0 PROVE b(k) = g[k - 1] \o (IF k \in kept THEN <<d[k]>> ELSE <<>>)
    BY <2>1
  <2>2. n + 1 # 0 /\ (n + 1) - 1 = n
    OBVIOUS
  <2>3. b(n + 1) = g[(n + 1) - 1] \o (IF n + 1 \in kept THEN <<d[n + 1]>> ELSE <<>>)
    BY <2>1, <2>2, Zenon
  <2> HIDE DEF b
  <2> QED
    BY <2>2, <2>3, Zenon
<1>8. (IF n + 1 \in kept THEN <<d[n + 1]>> ELSE <<>>) \in Seq(X)
  <2>1. d[n + 1] \in X
    BY <1>0
  <2> QED
    BY <2>1
<1> HIDE DEF b
<1> QED
  BY <1>0, <1>6, <1>7, <1>8

OperandTexts(args, n) == [i \in 1..n |-> args[i].text]
OperandPlaces(args, n) == {i \in 1..n : Operand(args, i)}

OperandLoop(args, n, T, f) ==
  Sieves(f, n, T, OperandTexts(args, n), OperandPlaces(args, n)) /\ Operands(args) = f[n]

(* The operands of a command, as a loop over its arguments.                *)
LEMMA OperandsAre ==
  ASSUME NEW W, NEW args \in Seq(W), NEW n, n = Len(args), NEW T, \A w \in W : w.text \in T
  PROVE  /\ n \in Nat /\ OperandTexts(args, n) \in [1..n -> T]
         /\ \E f : OperandLoop(args, n, T, f)
<1> DEFINE e == OperandTexts(args, n)
           keep == OperandPlaces(args, n)
           Q(f) == f = [i \in 0..n |-> IF i = 0 THEN <<>>
                          ELSE f[i - 1] \o (IF Operand(args, i) THEN <<args[i].text>> ELSE <<>>)]
           upTo == CHOOSE f : Q(f)
<1>1. n \in Nat /\ \A i \in 1..n : args[i] \in W
  OBVIOUS
<1>2. e \in [1..n -> T] /\ \A i \in 1..n : e[i] = args[i].text
  BY <1>1 DEF OperandTexts
<1>3. Operands(args) = upTo[n]
  BY Zenon DEF Operands
<1>4. ASSUME NEW f PROVE Q(f) <=> Sieves(f, n, T, e, keep)
  <2> DEFINE a(i) == IF i = 0 THEN <<>> ELSE f[i - 1] \o (IF Operand(args, i) THEN <<args[i].text>> ELSE <<>>)
             b(i) == IF i = 0 THEN <<>> ELSE f[i - 1] \o (IF i \in keep THEN <<e[i]>> ELSE <<>>)
  <2>1. ASSUME NEW i \in 0..n PROVE a(i) = b(i)
    <3>1. CASE i = 0
      BY <3>1
    <3>2. CASE i # 0
      <4>1. i \in 1..n /\ (i \in keep <=> Operand(args, i)) /\ e[i] = args[i].text
        BY <1>1, <1>2, <3>2 DEF OperandPlaces
      <4> HIDE DEF e, keep
      <4> QED
        BY <3>2, <4>1
    <3> QED
      BY <3>1, <3>2
  <2>2. [i \in 0..n |-> a(i)] = [i \in 0..n |-> b(i)]
    <3> HIDE DEF a, b
    <3> QED
      BY <2>1
  <2> QED
    BY <2>2, Zenon DEF Sieves
<1> HIDE DEF Q, e, keep
<1>5. PICK f \in [0..n -> Seq(T)] : Sieves(f, n, T, e, keep)
  BY <1>1, <1>2, SieveExists
<1>6. Q(upTo)
  <2>1. \E h : Q(h)
    BY <1>4, <1>5
  <2> QED
    BY <2>1, Zenon
<1> HIDE DEF upTo
<1> QED
  BY <1>1, <1>2, <1>3, <1>4, <1>6 DEF e, keep, OperandLoop

(* What one more argument and more redirections make of a command.         *)
Grows(before, after) ==
  /\ after.name = before.name /\ before.flags \subseteq after.flags
  /\ Members(before.operands) \subseteq Members(after.operands)
  /\ before.operands # <<>> => Subcommand(after) = Subcommand(before) /\ after.operands # <<>>
  /\ before.redirects \subseteq after.redirects
  /\ before.dynamic => after.dynamic

LEMMA CommandsGrow ==
  ASSUME NEW W, NEW args \in Seq(W), NEW more \in W, NEW name, NEW redirects
  PROVE  Grows(Build(name, args, {}), Build(name, Append(args, more), redirects))
<1> DEFINE longer == Append(args, more)
           n == Len(args)
           T == {w.text : w \in W}
           before == Build(name, args, {})
           after == Build(name, longer, redirects)
<1>1. /\ n \in Nat /\ longer \in Seq(W) /\ Len(longer) = n + 1
      /\ DOMAIN args = 1..n /\ DOMAIN longer = 1..(n + 1)
      /\ \A i \in 1..n : longer[i] = args[i]
  OBVIOUS
<1> HIDE DEF longer, n
<1>2. ASSUME NEW i \in 1..n
      PROVE  (IsFlag(longer, i) <=> IsFlag(args, i)) /\ (Operand(longer, i) <=> Operand(args, i))
  <2>1. \A j \in 1..(i - 1) : longer[j] = args[j]
    BY <1>1
  <2>2. Ended(longer, i) <=> Ended(args, i)
    BY <2>1 DEF Ended
  <2> QED
    BY <1>1, <2>2 DEF IsFlag, Operand
<1>3. Operands(args) \in Seq(T) /\ Operands(longer) \in Seq(T)
      /\ \E s \in Seq(T) : Operands(longer) = Operands(args) \o s
  <2>0. PICK m : m = n + 1
    OBVIOUS
  <2> DEFINE e == OperandTexts(args, n)
             d == OperandTexts(longer, m)
             keep == OperandPlaces(args, n)
             kept == OperandPlaces(longer, m)
  <2>1. \A w \in W : w.text \in T
    OBVIOUS
  <2> HIDE DEF T
  <2>2. PICK f : OperandLoop(args, n, T, f)
    <3>1. n = Len(args)
      BY DEF n
    <3> QED
      BY <2>1, <3>1, OperandsAre
  <2>3. PICK g : OperandLoop(longer, m, T, g)
    <3>1. m = Len(longer)
      BY <1>1, <2>0
    <3> QED
      BY <1>1, <2>1, <3>1, OperandsAre
  <2>4. e \in [1..n -> T] /\ d \in [1..m -> T]
    <3>1. /\ \A i \in 1..n : args[i] \in W
          /\ \A i \in 1..m : longer[i] \in W
      BY <1>1, <2>0
    <3> QED
      BY <2>1, <3>1 DEF OperandTexts
  <2>5. \A k \in 1..n : d[k] = e[k] /\ (k \in kept <=> k \in keep)
    <3> TAKE k \in 1..n
    <3>1. k \in 1..m
      BY <1>1, <2>0
    <3>2. d[k] = longer[k].text /\ e[k] = args[k].text
      BY <3>1 DEF OperandTexts
    <3>3. k \in kept <=> k \in keep
      BY <1>2, <3>1 DEF OperandPlaces
    <3> QED
      BY <1>1, <3>2, <3>3
  <2>6. n \in 0..n /\ m \in 1..m /\ m \in Nat
    BY <1>1, <2>0
  <2> HIDE DEF e, d, keep, kept
  <2>7. GoesOn(n, T, e, keep, f, m, d, kept, g)
    BY <2>0, <2>2, <2>3, <2>4, <2>5 DEF GoesOn, OperandLoop, e, d, keep, kept
  <2>8. PICK s \in Seq(T) : g[m] = f[n] \o s
    <3>1. n \in Nat
      BY <1>1
    <3> QED
      BY <2>7, <3>1, SieveGoesOn
  <2>9. Sieves(f, n, T, e, keep) /\ Operands(args) = f[n] /\ Operands(longer) = g[m]
    BY <2>2, <2>3 DEF OperandLoop, e, keep
  <2>10. f[n] \in Seq(T)
    BY <1>1, <2>4, <2>6, <2>9, SieveKeeps
  <2>11. g[m] \in Seq(T)
    BY <2>8, <2>10, ConcatProperties
  <2> QED
    BY <2>8, <2>9, <2>10, <2>11
<1>4. PICK s \in Seq(T) : Operands(longer) = Operands(args) \o s
  BY <1>3
<1>5. /\ Members(Operands(args)) \subseteq Members(Operands(longer))
      /\ Operands(args) # <<>> => Operands(longer)[1] = Operands(args)[1] /\ Operands(longer) # <<>>
  <2> HIDE DEF T
  <2>1. \A i \in DOMAIN Operands(args) : i \in DOMAIN Operands(longer) /\ Operands(longer)[i] = Operands(args)[i]
    BY <1>3, <1>4, ConcatProperties
  <2>2. Operands(args) # <<>> => 1 \in DOMAIN Operands(args)
    BY <1>3
  <2> QED
    BY <2>1, <2>2 DEF Members
<1>6. {args[i].text : i \in {j \in DOMAIN args : IsFlag(args, j)}}
        \subseteq {longer[i].text : i \in {j \in DOMAIN longer : IsFlag(longer, j)}}
  BY <1>1, <1>2
<1>7. before.flags \subseteq after.flags
  BY <1>6 DEF Build
<1>8. before.dynamic => after.dynamic
  BY <1>1 DEF Build
<1>9. /\ after.name = before.name /\ before.redirects \subseteq after.redirects
      /\ before.operands = Operands(args) /\ after.operands = Operands(longer)
  BY DEF Build
<1> HIDE DEF before, after
<1> QED
  BY <1>5, <1>7, <1>8, <1>9 DEF Grows, Subcommand, before, after, longer

(* The entry of a command in the table chooses by a subcommand only if     *)
(* there is one already.                                                   *)
SubcommandIsSettled(table, cmd) ==
  cmd.operands = <<>> /\ cmd.name \in DOMAIN table => DOMAIN table[cmd.name].sub = {}

(* perms.py: classify() takes the union of what is required, so a command  *)
(* that only grows requires no less, by whatever table.                    *)
LEMMA EntriesAddUp ==
  ASSUME NEW spec, NEW before, NEW after, Grows(before, after),
         before.operands = <<>> => DOMAIN spec.sub = {}
  PROVE  EvalSpec(spec, before) \subseteq EvalSpec(spec, after)
<1> DEFINE BySub(cmd) == IF DOMAIN spec.sub = {} THEN {}
                          ELSE IF Subcommand(cmd) \in DOMAIN spec.sub THEN spec.sub[Subcommand(cmd)] ELSE spec.default
           ByOperands(cmd) == IF cmd.operands # <<>> THEN spec.ifOperands ELSE {}
           ByRules(cmd) == UNION {r.add : r \in {q \in spec.rules : RuleFires(q, cmd)}}
           IfOdd(cmd) == IF Unaccounted(spec, cmd) # {} THEN {"UNTRUSTED_EXEC"} ELSE {}
<1>1. BySub(before) = BySub(after)
  BY DEF Grows
<1>2. ByOperands(before) \subseteq ByOperands(after)
  BY DEF Grows
<1>3. ByRules(before) \subseteq ByRules(after)
  <2>1. ASSUME NEW q, RuleFires(q, before) PROVE RuleFires(q, after)
    BY <2>1 DEF RuleFires, Grows
  <2> QED
    BY <2>1
<1>4. IfOdd(before) \subseteq IfOdd(after)
  BY DEF Grows, Unaccounted
<1>5. ASSUME NEW cmd
      PROVE  EvalSpec(spec, cmd) = UNION {spec.perms, BySub(cmd), ByOperands(cmd), ByRules(cmd), IfOdd(cmd)}
  BY Zenon DEF EvalSpec
<1> HIDE DEF BySub, ByOperands, ByRules, IfOdd
<1> QED
  BY <1>1, <1>2, <1>3, <1>4, <1>5

LEMMA CommandsAddUp ==
  ASSUME NEW table, NEW worst, NEW before, NEW after, Grows(before, after),
         SubcommandIsSettled(table, before)
  PROVE  Classify(table, worst, before) \subseteq Classify(table, worst, after)
<1> DEFINE ByTable(cmd) == IF cmd.name \in DOMAIN table THEN EvalSpec(table[cmd.name], cmd) ELSE {"UNTRUSTED_EXEC"}
           IfWritten(cmd) == IF cmd.redirects # {} THEN {"FILE_WRITE"} ELSE {}
           IfDynamic(cmd) == IF cmd.dynamic THEN {"UNTRUSTED_EXEC"} ELSE {}
           IfWorst(cmd) == IF cmd.dynamic /\ cmd.name \in DOMAIN worst THEN worst[cmd.name] ELSE {}
<1>1. ByTable(before) \subseteq ByTable(after)
  <2>1. after.name = before.name
    BY DEF Grows
  <2>2. CASE before.name \in DOMAIN table
    <3>1. EvalSpec(table[before.name], before) \subseteq EvalSpec(table[before.name], after)
      BY <2>2, EntriesAddUp DEF SubcommandIsSettled
    <3> QED
      BY <2>1, <2>2, <3>1
  <2>3. CASE before.name \notin DOMAIN table
    BY <2>1, <2>3
  <2> QED
    BY <2>2, <2>3
<1>2. IfWritten(before) \subseteq IfWritten(after)
  BY DEF Grows
<1>3. IfDynamic(before) \subseteq IfDynamic(after) /\ IfWorst(before) \subseteq IfWorst(after)
  BY DEF Grows
<1>4. ASSUME NEW cmd
      PROVE  Classify(table, worst, cmd) = IF cmd.name = NoName THEN {"UNTRUSTED_EXEC"}
                                           ELSE UNION {ByTable(cmd), IfWritten(cmd), IfDynamic(cmd), IfWorst(cmd)}
  BY Zenon DEF Classify
<1>5. after.name = before.name
  BY DEF Grows
<1> HIDE DEF ByTable, IfWritten, IfDynamic, IfWorst
<1> QED
  BY <1>1, <1>2, <1>3, <1>4, <1>5

(* What each command of a line requires, a line requires.                  *)
LEMMA LinesAddUp ==
  ASSUME NEW loaded, NEW table, NEW worst, NEW constructs, NEW backend, NEW line, NEW more,
         line.parsed = more.parsed, line.types \subseteq more.types,
         \A i \in DOMAIN line.commands : \E j \in DOMAIN more.commands :
           Classify(table, worst, line.commands[i]) \subseteq Classify(table, worst, more.commands[j])
  PROVE  Required(loaded, table, worst, constructs, line, backend)
           \subseteq Required(loaded, table, worst, constructs, more, backend)
<1> DEFINE OfCommands(l) == UNION {Classify(table, worst, l.commands[i]) : i \in DOMAIN l.commands}
           OfConstructs(l) == IF DeniedConstructs(l.types, constructs) # {} THEN {"UNTRUSTED_EXEC"} ELSE {}
           host == IF backend THEN {"BACKEND_EXEC"} ELSE {}
<1>1. OfCommands(line) \subseteq OfCommands(more)
  <2>1. ASSUME NEW p \in OfCommands(line) PROVE p \in OfCommands(more)
    <3>1. PICK i \in DOMAIN line.commands : p \in Classify(table, worst, line.commands[i])
      BY <2>1
    <3>2. PICK j \in DOMAIN more.commands :
            Classify(table, worst, line.commands[i]) \subseteq Classify(table, worst, more.commands[j])
      BY <3>1
    <3> QED
      BY <3>1, <3>2
  <2> QED
    BY <2>1
<1>2. OfConstructs(line) \subseteq OfConstructs(more)
  BY DEF DeniedConstructs
<1>3. ASSUME NEW l
      PROVE  Required(loaded, table, worst, constructs, l, backend) =
               IF ~loaded THEN {"ROOT"} ELSE IF ~l.parsed THEN {"UNTRUSTED_EXEC"}
               ELSE UNION {OfCommands(l), OfConstructs(l), host}
  BY Zenon DEF Required
<1> HIDE DEF OfCommands, OfConstructs, host
<1> QED
  BY <1>1, <1>2, <1>3

(* One more argument to a command of a line, more redirections of it, and  *)
(* one more command before or after it never lower what the line requires  *)
(* (permissions.py: required_permissions_for_shell()), by whatever table   *)
(* and whatever the construct map.                                         *)
THEOREM MoreNeedsNoLess ==
  ASSUME NEW W, NEW args \in Seq(W), NEW more \in W, NEW name, NEW redirects, NEW other,
         NEW loaded, NEW table, NEW worst, NEW constructs, NEW backend, NEW types, NEW bytes
  PROVE  LET before == Build(name, args, {})
             after == Build(name, Append(args, more), redirects)
             Line(cmds) == [parsed |-> TRUE, types |-> types, commands |-> cmds, bytes |-> bytes]
             Need(cmds) == Required(loaded, table, worst, constructs, Line(cmds), backend)
         IN /\ SubcommandIsSettled(table, before) => Need(<<before>>) \subseteq Need(<<after>>)
            /\ Need(<<before>>) \subseteq Need(<<before, other>>)
            /\ Need(<<before>>) \subseteq Need(<<other, before>>)
<1> DEFINE before == Build(name, args, {})
           after == Build(name, Append(args, more), redirects)
           Line(cmds) == [parsed |-> TRUE, types |-> types, commands |-> cmds, bytes |-> bytes]
           Need(cmds) == Required(loaded, table, worst, constructs, Line(cmds), backend)
           Class(cmd) == Classify(table, worst, cmd)
<1>1. Grows(before, after)
  BY CommandsGrow
<1> HIDE DEF before, after
<1>2. SubcommandIsSettled(table, before) => Class(before) \subseteq Class(after)
  BY <1>1, CommandsAddUp
<1>3. ASSUME NEW c, NEW d, \A i \in DOMAIN c : \E j \in DOMAIN d : Class(c[i]) \subseteq Class(d[j])
      PROVE  Need(c) \subseteq Need(d)
  <2> DEFINE l == Line(c)
             m == Line(d)
  <2>1. l.parsed = m.parsed /\ l.types \subseteq m.types /\ l.commands = c /\ m.commands = d
    OBVIOUS
  <2> HIDE DEF l, m
  <2>2. Required(loaded, table, worst, constructs, l, backend) \subseteq Required(loaded, table, worst, constructs, m, backend)
    BY <1>3, <2>1, LinesAddUp
  <2> QED
    BY <2>2 DEF l, m
<1>4. ASSUME NEW c
      PROVE  /\ DOMAIN <<c>> = {1} /\ <<c>>[1] = c
             /\ \A d : DOMAIN <<c, d>> = {1, 2} /\ <<c, d>>[1] = c /\ <<c, d>>[2] = d
  OBVIOUS
<1> HIDE DEF Class, Need
<1>5. SubcommandIsSettled(table, before) => Need(<<before>>) \subseteq Need(<<after>>)
  BY <1>2, <1>3, <1>4
<1>6. Need(<<before>>) \subseteq Need(<<before, other>>) /\ Need(<<before>>) \subseteq Need(<<other, before>>)
  BY <1>3, <1>4
<1> QED
  BY <1>5, <1>6 DEF before, after, Need

(* The same of the commands put to the table.                              *)
THEOREM MoreNeverLowersTheNeed ==
  ASSUME NEW W, question = "shell" => input.args \in Seq(W) /\ input.more \in W
  PROVE  MoreNeverNeedsLess
<1> SUFFICES ASSUME question = "shell" PROVE MoreNeverNeedsLess
  BY DEF MoreNeverNeedsLess
<1> DEFINE before == Build(input.name, input.args, {})
           after == Build(input.name, Append(input.args, input.more), input.redirects)
           other == Build("plain", <<input.more>>, {})
           Line(cmds) == [parsed |-> TRUE, types |-> {}, commands |-> cmds, bytes |-> 1]
           Need(cmds) == Required(TRUE, Table, Worst, << >>, Line(cmds), FALSE)
<1>1. /\ SubcommandIsSettled(Table, before) => Need(<<before>>) \subseteq Need(<<after>>)
      /\ Need(<<before>>) \subseteq Need(<<before, other>>)
      /\ Need(<<before>>) \subseteq Need(<<other, before>>)
  BY MoreNeedsNoLess
<1>2. before.operands # <<>> \/ input.name \notin {"sub"} => SubcommandIsSettled(Table, before)
  <2>1. before.name = input.name
    BY DEF Build
  <2>2. \A s \in {"plain", "ops", "rule"} : DOMAIN Table[s].sub = {}
    BY DEF Table, Spec0
  <2>3. DOMAIN Table = {"plain", "ops", "sub", "rule"}
    BY DEF Table
  <2> HIDE DEF before
  <2> QED
    BY <2>1, <2>2, <2>3 DEF SubcommandIsSettled
<1> HIDE DEF before, after, other, Need
<1> QED
  BY <1>1, <1>2 DEF MoreNeverNeedsLess, before, after, other, Need

-----------------------------------------------------------------------------
(* Retrieval.                                                              *)

Hit(q, by) == [path |-> q, by |-> by]
Hits(P) == [path : P, by : {"key", "search"}]
Injections(P) == [results : Seq(Hits(P)), seen : SUBSET P, excluded : SUBSET P]
NoTwice(rs) == \A i, j \in DOMAIN rs : rs[i].path = rs[j].path => i = j
KeysFirst(rs) == \A i, j \in DOMAIN rs : rs[i].by = "key" /\ rs[j].by = "search" => i < j

(* What has been injected: the entries that fired, then others that were   *)
(* found, each once.                                                       *)
Injected(acc, P, excluded, fired, others) ==
  /\ acc \in Injections(P)
  /\ acc.excluded = excluded /\ acc.seen = fired \union others /\ fired \intersect others = {}
  /\ Members(acc.results) = {Hit(q, "key") : q \in fired} \union {Hit(q, "search") : q \in others}
  /\ NoTwice(acc.results) /\ KeysFirst(acc.results)

WithOneMore(rs, s, h, P) ==
  /\ rs \in Seq(Hits(P)) /\ NoTwice(rs) /\ KeysFirst(rs)
  /\ Members(rs) = Members(s) \union {h}

LEMMA InjectOne ==
  ASSUME NEW P, NEW excluded, NEW fired, NEW others, NEW acc, Injected(acc, P, excluded, fired, others),
         NEW q \in P, q \notin acc.seen, NEW by \in {"key", "search"}, by = "key" => others = {}
  PROVE  WithOneMore(Append(acc.results, Hit(q, by)), acc.results, Hit(q, by), P)
<1> DEFINE s == acc.results
           h == Hit(q, by)
           rs == Append(s, h)
<1>1. s \in Seq(Hits(P)) /\ h \in Hits(P) /\ h.path = q /\ h.by = by
  BY DEF Injected, Injections, Hits, Hit
<1>2. /\ Len(s) \in Nat /\ DOMAIN s = 1..Len(s) /\ DOMAIN rs = 1..(Len(s) + 1)
      /\ \A i \in 1..Len(s) : rs[i] = s[i]
      /\ rs[Len(s) + 1] = h /\ rs \in Seq(Hits(P))
  <2> HIDE DEF s, h
  <2> QED
    BY <1>1
<1>3. Members(rs) = Members(s) \union {h}
  <2> HIDE DEF s, h
  <2> QED
    BY <1>1, MembersOfAppend
<1>4. ASSUME NEW i \in DOMAIN s
      PROVE  s[i].path # q /\ (by = "key" => s[i].by = "key")
  <2>1. s[i] \in Members(s)
    BY DEF Members
  <2>2. \/ \E p \in fired : s[i] = Hit(p, "key")
        \/ \E p \in others : s[i] = Hit(p, "search")
    BY <2>1 DEF Injected
  <2>3. q \notin fired /\ q \notin others
    BY DEF Injected
  <2> HIDE DEF s
  <2>4. ASSUME NEW p \in fired, s[i] = Hit(p, "key") PROVE s[i].path # q /\ s[i].by = "key"
    BY <2>3, <2>4 DEF Hit
  <2>5. ASSUME NEW p \in others, s[i] = Hit(p, "search") PROVE s[i].path # q /\ by # "key"
    BY <2>3, <2>5 DEF Hit
  <2> QED
    BY <2>2, <2>4, <2>5
<1> HIDE DEF h, rs
<1>5. NoTwice(rs)
  <2>1. NoTwice(s)
    BY DEF Injected
  <2> HIDE DEF s
  <2>2. ASSUME NEW i \in DOMAIN rs, NEW j \in DOMAIN rs, rs[i].path = rs[j].path PROVE i = j
    <3>1. CASE i \in DOMAIN s /\ j \in DOMAIN s
      BY <1>2, <2>1, <2>2, <3>1 DEF NoTwice
    <3>2. CASE i \in DOMAIN s /\ j = Len(s) + 1
      BY <1>1, <1>2, <1>4, <2>2, <3>2
    <3>3. CASE i = Len(s) + 1 /\ j \in DOMAIN s
      BY <1>1, <1>2, <1>4, <2>2, <3>3
    <3> QED
      BY <1>2, <3>1, <3>2, <3>3
  <2> QED
    BY <2>2 DEF NoTwice
<1>6. KeysFirst(rs)
  <2>1. KeysFirst(s)
    BY DEF Injected
  <2> HIDE DEF s
  <2>2. ASSUME NEW i \in DOMAIN rs, NEW j \in DOMAIN rs, rs[i].by = "key", rs[j].by = "search" PROVE i < j
    <3>1. CASE i \in DOMAIN s /\ j \in DOMAIN s
      BY <1>2, <2>1, <2>2, <3>1 DEF KeysFirst
    <3>2. CASE i \in DOMAIN s /\ j = Len(s) + 1
      BY <1>2, <3>2
    <3>3. CASE i = Len(s) + 1
      <4>1. by = "key"
        BY <1>1, <1>2, <2>2, <3>3
      <4>2. \A k \in DOMAIN rs : rs[k].by = "key"
        BY <1>1, <1>2, <1>4, <4>1
      <4> QED
        BY <2>2, <4>2
    <3> QED
      BY <1>2, <3>1, <3>2, <3>3
  <2> QED
    BY <2>2 DEF KeysFirst
<1> QED
  BY <1>2, <1>3, <1>5, <1>6 DEF rs, h, s, WithOneMore

FiresHere(e, text) ==
  ~e.disabled /\ e.mode # "vector" /\ (e.keys # {} \/ e.constant) /\ Fires(e, text) /\ ~e.empty
OnlyKeyed(e) == ~e.disabled /\ e.mode \in {"keyword", "regex"}
Fired(entries, k, text) == {p \in 1..k : FiresHere(entries[p], text)}
Excluded(entries, k) == {p \in 1..k : OnlyKeyed(entries[p])}

(* One entry of a folder.                                                  *)
LEMMA KeyOne ==
  ASSUME NEW P, NEW entries, NEW text, NEW k \in Nat, k # 0, NEW acc, 1..k \subseteq P,
         Injected(acc, P, Excluded(entries, k - 1), Fired(entries, k - 1, text), {})
  PROVE  Injected(Keyed(acc, entries[k], k, text), P, Excluded(entries, k), Fired(entries, k, text), {})
<1> DEFINE e == entries[k]
           new == Keyed(acc, e, k, text)
<1>1. /\ 1..k = (1..(k - 1)) \union {k} /\ k \notin 1..(k - 1) /\ k \in 1..k
  OBVIOUS
<1>2. /\ Excluded(entries, k) = Excluded(entries, k - 1) \union (IF OnlyKeyed(e) THEN {k} ELSE {})
      /\ Fired(entries, k, text) = Fired(entries, k - 1, text) \union (IF FiresHere(e, text) THEN {k} ELSE {})
  BY <1>1 DEF Excluded, Fired
<1>3. k \notin acc.seen
  BY <1>1 DEF Injected, Fired
<1>4. /\ acc = [results |-> acc.results, seen |-> acc.seen, excluded |-> acc.excluded]
      /\ acc.results \in Seq(Hits(P)) /\ acc.seen \subseteq P /\ acc.excluded \subseteq P
  BY DEF Injected, Injections
<1>5. /\ new.results = IF FiresHere(e, text) THEN Append(acc.results, Hit(k, "key")) ELSE acc.results
      /\ new.seen = acc.seen \union (IF FiresHere(e, text) THEN {k} ELSE {})
      /\ new.excluded = acc.excluded \union (IF OnlyKeyed(e) THEN {k} ELSE {})
      /\ new = [results |-> new.results, seen |-> new.seen, excluded |-> new.excluded]
  BY <1>4 DEF Keyed, FiresHere, OnlyKeyed, Hit
<1>6. WithOneMore(Append(acc.results, Hit(k, "key")), acc.results, Hit(k, "key"), P)
  <2>1. k \in P /\ "key" \in {"key", "search"}
    BY <1>1
  <2> HIDE DEF new, e
  <2> QED
    BY <1>3, <2>1, InjectOne
<1> HIDE DEF new, e
<1>7. ASSUME FiresHere(e, text) PROVE Injected(new, P, Excluded(entries, k), Fired(entries, k, text), {})
  <2>1. new.results = Append(acc.results, Hit(k, "key")) /\ new.seen = acc.seen \union {k}
    BY <1>5, <1>7
  <2>2. Fired(entries, k, text) = Fired(entries, k - 1, text) \union {k}
    BY <1>2, <1>7
  <2>3. /\ new.results \in Seq(Hits(P)) /\ NoTwice(new.results) /\ KeysFirst(new.results)
        /\ Members(new.results) = Members(acc.results) \union {Hit(k, "key")}
    BY <1>6, <2>1 DEF WithOneMore
  <2>4. Members(new.results) = {Hit(q, "key") : q \in Fired(entries, k, text)}
    BY <2>2, <2>3 DEF Injected
  <2>5. new.excluded = Excluded(entries, k) /\ new.seen = Fired(entries, k, text)
    BY <1>2, <1>5, <2>1, <2>2 DEF Injected
  <2>6. new \in Injections(P)
    <3>1. new.seen \subseteq P /\ new.excluded \subseteq P
      BY <1>1, <1>4, <1>5, <2>1
    <3> QED
      BY <1>5, <2>3, <3>1 DEF Injections
  <2> QED
    BY <2>3, <2>4, <2>5, <2>6 DEF Injected
<1>8. ASSUME ~FiresHere(e, text) PROVE Injected(new, P, Excluded(entries, k), Fired(entries, k, text), {})
  <2>1. new.results = acc.results /\ new.seen = acc.seen
    BY <1>5, <1>8
  <2>2. Fired(entries, k, text) = Fired(entries, k - 1, text)
    BY <1>2, <1>8
  <2>3. new.excluded = Excluded(entries, k)
    BY <1>2, <1>5 DEF Injected
  <2>4. new \in Injections(P)
    <3>1. new.seen \subseteq P /\ new.excluded \subseteq P
      BY <1>1, <1>4, <1>5, <2>1
    <3> QED
      BY <1>4, <1>5, <2>1, <3>1 DEF Injections
  <2> QED
    BY <2>1, <2>2, <2>3, <2>4 DEF Injected
<1> QED
  BY <1>7, <1>8 DEF new, e

(* One chunk of those the search found: it is injected unless its entry    *)
(* fired, is of a mode that is only keyed, or was injected before.         *)
LEMMA FindOne ==
  ASSUME NEW P, NEW excluded, NEW fired, NEW others, NEW acc, Injected(acc, P, excluded, fired, others),
         NEW q \in P
  PROVE  Injected(Found(acc, q), P, excluded, fired, others \union ({q} \ (excluded \union fired)))
<1> DEFINE new == Found(acc, q)
<1>1. /\ acc = [results |-> acc.results, seen |-> acc.seen, excluded |-> acc.excluded]
      /\ acc.results \in Seq(Hits(P)) /\ acc.seen \subseteq P /\ acc.excluded \subseteq P
      /\ acc.excluded = excluded /\ acc.seen = fired \union others
  BY DEF Injected, Injections
<1>2. CASE q \in excluded \union acc.seen
  <2>1. new = acc
    BY <1>1, <1>2 DEF Found
  <2>2. others \union ({q} \ (excluded \union fired)) = others
    BY <1>1, <1>2
  <2> QED
    BY <2>1, <2>2
<1>3. CASE q \notin excluded \union acc.seen
  <2>1. /\ new.results = Append(acc.results, Hit(q, "search")) /\ new.seen = acc.seen \union {q}
        /\ new.excluded = acc.excluded
        /\ new = [results |-> new.results, seen |-> new.seen, excluded |-> new.excluded]
    BY <1>1, <1>3 DEF Found, Hit
  <2>2. others \union ({q} \ (excluded \union fired)) = others \union {q}
    BY <1>1, <1>3
  <2>3. WithOneMore(Append(acc.results, Hit(q, "search")), acc.results, Hit(q, "search"), P)
    BY <1>3, InjectOne
  <2> HIDE DEF new
  <2>4. /\ new.results \in Seq(Hits(P)) /\ NoTwice(new.results) /\ KeysFirst(new.results)
        /\ Members(new.results) = Members(acc.results) \union {Hit(q, "search")}
    BY <2>1, <2>3 DEF WithOneMore
  <2>5. Members(new.results) = {Hit(p, "key") : p \in fired} \union {Hit(p, "search") : p \in others \union {q}}
    BY <2>4 DEF Injected
  <2>6. new \in Injections(P)
    <3>1. new.seen \subseteq P /\ new.excluded \subseteq P
      BY <1>1, <2>1
    <3> QED
      BY <2>1, <2>4, <3>1 DEF Injections
  <2>7. /\ new.excluded = excluded /\ new.seen = fired \union (others \union {q})
        /\ fired \intersect (others \union {q}) = {}
    BY <1>1, <1>3, <2>1 DEF Injected
  <2>8. Injected(new, P, excluded, fired, others \union {q})
    BY <2>4, <2>5, <2>6, <2>7 DEF Injected
  <2> QED
    BY <2>2, <2>8 DEF new
<1> QED
  BY <1>2, <1>3

NothingYet == [results |-> <<>>, seen |-> {}, excluded |-> {}]
KeyLoop(f, n, entries, text) ==
  f = [p \in 0..n |-> IF p = 0 THEN NothingYet ELSE Keyed(f[p - 1], entries[p], p, text)]
FindLoop(f, m, first, found) ==
  f = [i \in 0..m |-> IF i = 0 THEN first ELSE Found(f[i - 1], found[i])]

LEMMA InjectionsStaySo ==
  ASSUME NEW P, NEW acc \in Injections(P), NEW q \in P, NEW e, NEW text
  PROVE  Keyed(acc, e, q, text) \in Injections(P) /\ Found(acc, q) \in Injections(P)
<1>1. /\ acc = [results |-> acc.results, seen |-> acc.seen, excluded |-> acc.excluded]
      /\ acc.results \in Seq(Hits(P)) /\ acc.seen \subseteq P /\ acc.excluded \subseteq P
  BY DEF Injections
<1>2. \A by \in {"key", "search"} : Append(acc.results, [path |-> q, by |-> by]) \in Seq(Hits(P))
  BY <1>1 DEF Hits
<1>3. Keyed(acc, e, q, text) \in Injections(P)
  <2> DEFINE new == Keyed(acc, e, q, text)
  <2>1. \/ new = acc
        \/ /\ new = [results |-> new.results, seen |-> new.seen, excluded |-> new.excluded]
           /\ new.results \in {acc.results, Append(acc.results, [path |-> q, by |-> "key"])}
           /\ new.seen \in {acc.seen, acc.seen \union {q}} /\ new.excluded \in {acc.excluded, acc.excluded \union {q}}
    BY <1>1 DEF Keyed
  <2> HIDE DEF new
  <2>2. new = acc \/ /\ new = [results |-> new.results, seen |-> new.seen, excluded |-> new.excluded]
                     /\ new.results \in Seq(Hits(P)) /\ new.seen \subseteq P /\ new.excluded \subseteq P
    BY <1>1, <1>2, <2>1
  <2> QED
    BY <2>2 DEF new, Injections
<1>4. Found(acc, q) \in Injections(P)
  <2> DEFINE new == Found(acc, q)
  <2>1. \/ new = acc
        \/ /\ new = [results |-> new.results, seen |-> new.seen, excluded |-> new.excluded]
           /\ new.results = Append(acc.results, [path |-> q, by |-> "search"])
           /\ new.seen = acc.seen \union {q} /\ new.excluded = acc.excluded
    BY <1>1 DEF Found
  <2> HIDE DEF new
  <2>2. new = acc \/ /\ new = [results |-> new.results, seen |-> new.seen, excluded |-> new.excluded]
                     /\ new.results \in Seq(Hits(P)) /\ new.seen \subseteq P /\ new.excluded \subseteq P
    BY <1>1, <1>2, <2>1
  <2> QED
    BY <2>2 DEF new, Injections
<1> QED
  BY <1>3, <1>4

(* The two loops of auto_inject() can be written as functions of how far   *)
(* they are.                                                               *)
LEMMA KeyLoopExists ==
  ASSUME NEW n \in Nat, NEW P, 1..n \subseteq P, NEW entries, NEW text
  PROVE  \E f : KeyLoop(f, n, entries, text)
<1> DEFINE X == Injections(P)
           step == [q \in (1..n) \X X |-> Keyed(q[2], entries[q[1]], q[1], text)]
<1>1. \A k \in 1..n, acc \in X : step[<<k, acc>>] = Keyed(acc, entries[k], k, text)
  OBVIOUS
<1>2. step \in [(1..n) \X X -> X]
  BY InjectionsStaySo
<1>3. NothingYet \in X
  BY DEF NothingYet, Injections
<1> HIDE DEF step, X
<1>4. PICK f \in [0..n -> X] : Loops(f, n, NothingYet, step)
  BY <1>2, <1>3, LoopExists
<1>5. ASSUME NEW k \in 0..n
      PROVE  f[k] = IF k = 0 THEN NothingYet ELSE Keyed(f[k - 1], entries[k], k, text)
  <2>1. f[k] = IF k = 0 THEN NothingYet ELSE step[<<k, f[k - 1]>>]
    BY <1>4 DEF Loops
  <2>2. CASE k # 0
    <3>1. k \in 1..n /\ f[k - 1] \in X
      BY <2>2
    <3> QED
      BY <1>1, <2>1, <2>2, <3>1
  <2> QED
    BY <2>1, <2>2
<1>6. f = [k \in 0..n |-> f[k]]
  OBVIOUS
<1>7. KeyLoop(f, n, entries, text)
  BY <1>5, <1>6 DEF KeyLoop
<1> QED
  BY <1>7

LEMMA FindLoopExists ==
  ASSUME NEW m \in Nat, NEW P, NEW found \in [1..m -> P], NEW first \in Injections(P)
  PROVE  \E f : FindLoop(f, m, first, found)
<1> DEFINE X == Injections(P)
           step == [q \in (1..m) \X X |-> Found(q[2], found[q[1]])]
<1>1. \A k \in 1..m, acc \in X : step[<<k, acc>>] = Found(acc, found[k])
  OBVIOUS
<1>2. step \in [(1..m) \X X -> X]
  <2>1. \A k \in 1..m : found[k] \in P
    OBVIOUS
  <2> QED
    BY <2>1, InjectionsStaySo
<1> HIDE DEF step
<1>4. PICK f \in [0..m -> X] : Loops(f, m, first, step)
  <2> HIDE DEF X
  <2>1. first \in X
    BY DEF X
  <2> QED
    BY <1>2, <2>1, LoopExists
<1> HIDE DEF X
<1>5. ASSUME NEW k \in 0..m PROVE f[k] = IF k = 0 THEN first ELSE Found(f[k - 1], found[k])
  <2>1. f[k] = IF k = 0 THEN first ELSE step[<<k, f[k - 1]>>]
    BY <1>4 DEF Loops
  <2>2. CASE k # 0
    <3>1. k \in 1..m /\ f[k - 1] \in X
      BY <2>2
    <3> QED
      BY <1>1, <2>1, <2>2, <3>1
  <2> QED
    BY <2>1, <2>2
<1>6. f = [k \in 0..m |-> f[k]]
  OBVIOUS
<1>7. FindLoop(f, m, first, found)
  BY <1>5, <1>6 DEF FindLoop
<1> QED
  BY <1>7

(* After k entries those of the first k that fire have been injected.      *)
LEMMA KeyLoopInjects ==
  ASSUME NEW n \in Nat, NEW P, 1..n \subseteq P, NEW entries, NEW text, NEW f, KeyLoop(f, n, entries, text)
  PROVE  Injected(f[n], P, Excluded(entries, n), Fired(entries, n, text), {})
<1> DEFINE G == {k \in 0..n : Injected(f[k], P, Excluded(entries, k), Fired(entries, k, text), {})}
           a(k) == IF k = 0 THEN NothingYet ELSE Keyed(f[k - 1], entries[k], k, text)
<1>1. \A k \in 0..n : f[k] = a(k)
  <2>1. f = [k \in 0..n |-> a(k)]
    BY Zenon DEF KeyLoop
  <2> HIDE DEF a
  <2> QED
    BY <2>1
<1>2. 0 \in G
  <2>1. 0 \in 0..n /\ a(0) = NothingYet
    OBVIOUS
  <2> HIDE DEF a
  <2>2. f[0] = NothingYet
    BY <1>1, <2>1
  <2>3. Injected(NothingYet, P, {}, {}, {})
    BY DEF Injected, Injections, NothingYet, Members, NoTwice, KeysFirst
  <2>4. Excluded(entries, 0) = {} /\ Fired(entries, 0, text) = {}
    BY DEF Excluded, Fired
  <2> QED
    BY <2>1, <2>2, <2>3, <2>4
<1>3. ASSUME NEW k \in 1..n, k - 1 \in G PROVE k \in G
  <2>1. k \in 0..n /\ k \in Nat /\ k # 0 /\ 1..k \subseteq P
    OBVIOUS
  <2>2. a(k) = Keyed(f[k - 1], entries[k], k, text)
    BY <2>1
  <2> HIDE DEF a
  <2>3. Injected(f[k - 1], P, Excluded(entries, k - 1), Fired(entries, k - 1, text), {})
    BY <1>3
  <2>4. Injected(Keyed(f[k - 1], entries[k], k, text), P, Excluded(entries, k), Fired(entries, k, text), {})
    BY <2>1, <2>3, KeyOne
  <2> QED
    BY <1>1, <2>1, <2>2, <2>4
<1>4. 0..n \subseteq G
  <2>1. \A k \in 1..n : k - 1 \in G => k \in G
    BY <1>3
  <2> HIDE DEF G
  <2> QED
    BY <1>2, <2>1, Climb
<1>5. n \in G
  BY <1>4
<1> QED
  BY <1>5

FoundUpTo(found, k) == {found[i] : i \in 1..k}

(* After k of what was found, what of it neither fired nor is only keyed   *)
(* has been injected as well.                                              *)
LEMMA FindLoopInjects ==
  ASSUME NEW m \in Nat, NEW P, NEW found \in [1..m -> P], NEW first, NEW excluded, NEW fired,
         Injected(first, P, excluded, fired, {}), NEW f, FindLoop(f, m, first, found)
  PROVE  Injected(f[m], P, excluded, fired, FoundUpTo(found, m) \ (excluded \union fired))
<1> DEFINE Others(k) == FoundUpTo(found, k) \ (excluded \union fired)
           G == {k \in 0..m : Injected(f[k], P, excluded, fired, Others(k))}
           a(k) == IF k = 0 THEN first ELSE Found(f[k - 1], found[k])
<1>1. \A k \in 0..m : f[k] = a(k)
  <2>1. f = [k \in 0..m |-> a(k)]
    BY Zenon DEF FindLoop
  <2> HIDE DEF a
  <2> QED
    BY <2>1
<1>2. 0 \in G
  <2>1. 0 \in 0..m /\ a(0) = first /\ Others(0) = {}
    BY DEF FoundUpTo
  <2> HIDE DEF a, Others
  <2>2. f[0] = first
    BY <1>1, <2>1
  <2> QED
    BY <2>1, <2>2
<1>3. ASSUME NEW k \in 1..m, k - 1 \in G PROVE k \in G
  <2>1. k \in 0..m /\ k # 0 /\ found[k] \in P /\ 1..k = (1..(k - 1)) \union {k}
    OBVIOUS
  <2>2. a(k) = Found(f[k - 1], found[k])
    BY <2>1
  <2>3. Others(k) = Others(k - 1) \union ({found[k]} \ (excluded \union fired))
    BY <2>1 DEF FoundUpTo
  <2>4. Injected(f[k - 1], P, excluded, fired, Others(k - 1))
    BY <1>3
  <2> HIDE DEF a, Others
  <2>5. Injected(Found(f[k - 1], found[k]), P, excluded, fired, Others(k - 1) \union ({found[k]} \ (excluded \union fired)))
    BY <2>1, <2>4, FindOne
  <2> QED
    BY <1>1, <2>1, <2>2, <2>3, <2>5
<1>4. 0..m \subseteq G
  <2>1. \A k \in 1..m : k - 1 \in G => k \in G
    BY <1>3
  <2> HIDE DEF G
  <2> QED
    BY <1>2, <2>1, Climb
<1>5. m \in G
  <2>1. m \in 0..m
    OBVIOUS
  <2> HIDE DEF G
  <2> QED
    BY <1>4, <2>1
<1> QED
  BY <1>5

LEMMA AutoInjectGives ==
  ASSUME NEW E, NEW entries \in Seq(E), NEW F, NEW found \in Seq(F), NEW text,
         NEW P, P = (1..Len(entries)) \union F
  PROVE  LET excluded == Excluded(entries, Len(entries))
             fired == Fired(entries, Len(entries), text)
         IN \E acc : /\ AutoInject(entries, text, found) = acc.results
                     /\ Injected(acc, P, excluded, fired, Members(found) \ (excluded \union fired))
<1> DEFINE m == Len(found)
           n == Len(entries)
           Q(f) == KeyLoop(f, n, entries, text)
           keyed == CHOOSE f : f = [p \in 0..n |-> IF p = 0 THEN [results |-> <<>>, seen |-> {}, excluded |-> {}]
                                                   ELSE Keyed(f[p - 1], entries[p], p, text)]
           merged == CHOOSE f : f = [i \in 0..m |-> IF i = 0 THEN keyed[n] ELSE Found(f[i - 1], found[i])]
<1>1. /\ n \in Nat /\ m \in Nat /\ found \in [1..m -> P] /\ 1..n \subseteq P
      /\ Members(found) = FoundUpTo(found, m)
  BY DEF Members, FoundUpTo
<1>2. AutoInject(entries, text, found) = merged[m].results
  BY Zenon DEF AutoInject
<1>3. KeyLoop(keyed, n, entries, text)
  <2>1. keyed = CHOOSE f : Q(f)
    BY Zenon DEF KeyLoop, NothingYet
  <2>2. \E f : Q(f)
    BY <1>1, KeyLoopExists
  <2> HIDE DEF Q, keyed
  <2>3. Q(keyed)
    BY <2>1, <2>2, Zenon
  <2> QED
    BY <2>3 DEF Q
<1> HIDE DEF keyed, m, n
<1>4. Injected(keyed[n], P, Excluded(entries, n), Fired(entries, n, text), {})
  BY <1>1, <1>3, KeyLoopInjects
<1>5. FindLoop(merged, m, keyed[n], found)
  <2> DEFINE R(f) == FindLoop(f, m, keyed[n], found)
  <2>1. merged = CHOOSE f : R(f)
    BY Zenon DEF FindLoop
  <2>2. \E f : R(f)
    <3>1. keyed[n] \in Injections(P)
      BY <1>4 DEF Injected
    <3> QED
      BY <1>1, <3>1, FindLoopExists
  <2> HIDE DEF R, merged
  <2>3. R(merged)
    BY <2>1, <2>2, Zenon
  <2> QED
    BY <2>3 DEF R
<1> HIDE DEF merged
<1>6. Injected(merged[m], P, Excluded(entries, n), Fired(entries, n, text),
               FoundUpTo(found, m) \ (Excluded(entries, n) \union Fired(entries, n, text)))
  BY <1>1, <1>4, <1>5, FindLoopInjects
<1> QED
  BY <1>1, <1>2, <1>6 DEF n

(* The modes of the entries of a databank are kept by what is injected     *)
(* into a turn (databanks.py: auto_inject()), whatever the entries, the    *)
(* text they are looked for in, and the results of the search.             *)
THEOREM TheModesAreKept ==
  ASSUME NEW E, NEW entries \in Seq(E), NEW F, NEW found \in Seq(F), NEW text
  PROVE  ModeIsKept(entries, text, found)
<1> DEFINE n == Len(entries)
           excluded == Excluded(entries, n)
           fired == Fired(entries, n, text)
           others == Members(found) \ (excluded \union fired)
           rs == AutoInject(entries, text, found)
           By(p) == {rs[i].by : i \in {j \in DOMAIN rs : rs[j].path = p}}
           isFound(p) == \E i \in DOMAIN found : found[i] = p
           due(e) == ~e.disabled /\ ~e.empty /\ (e.constant \/ (e.keys # {} /\ Fires(e, text)))
           promised(p) == LET e == entries[p]
                              shown == isFound(p)
                              dueNow == due(e)
                          IN CASE e.disabled -> IF shown THEN {"search"} ELSE {}
                               [] ~e.disabled /\ e.mode = "vector" -> IF shown THEN {"search"} ELSE {}
                               [] ~e.disabled /\ e.mode \in {"keyword", "regex"} -> IF dueNow THEN {"key"} ELSE {}
                               [] OTHER -> IF dueNow THEN {"key"} ELSE IF shown THEN {"search"} ELSE {}
<1>1. PICK acc : /\ rs = acc.results
                 /\ Injected(acc, (1..n) \union F, excluded, fired, others)
  BY AutoInjectGives
<1>2. DOMAIN entries = 1..n
  OBVIOUS
<1> HIDE DEF n, rs
<1>3. /\ NoTwice(rs) /\ KeysFirst(rs)
      /\ Members(rs) = {Hit(q, "key") : q \in fired} \union {Hit(q, "search") : q \in others}
  BY <1>1 DEF Injected
<1>4. ASSUME NEW p
      PROVE  By(p) = (IF p \in fired THEN {"key"} ELSE {}) \union (IF p \in others THEN {"search"} ELSE {})
  <2> HIDE DEF fired, others
  <2>1. By(p) = {h.by : h \in {x \in Members(rs) : x.path = p}}
    BY DEF Members
  <2>2. \A h \in Members(rs) : \/ \E q \in fired : h.path = q /\ h.by = "key"
                               \/ \E q \in others : h.path = q /\ h.by = "search"
    BY <1>3 DEF Hit
  <2>3. \A q \in fired : Hit(q, "key") \in Members(rs) /\ Hit(q, "key").path = q /\ Hit(q, "key").by = "key"
    BY <1>3 DEF Hit
  <2>4. \A q \in others : Hit(q, "search") \in Members(rs) /\ Hit(q, "search").path = q /\ Hit(q, "search").by = "search"
    BY <1>3 DEF Hit
  <2> DEFINE S == {h.by : h \in {x \in Members(rs) : x.path = p}}
  <2>5. p \in fired <=> "key" \in S
    BY <2>2, <2>3
  <2>6. p \in others <=> "search" \in S
    BY <2>2, <2>4
  <2>7. S \subseteq {"key", "search"}
    BY <2>2
  <2> HIDE DEF S
  <2>8. S = (IF p \in fired THEN {"key"} ELSE {}) \union (IF p \in others THEN {"search"} ELSE {})
    BY <2>5, <2>6, <2>7
  <2> QED
    BY <2>1, <2>8 DEF S
<1> HIDE DEF By
<1>5. ASSUME NEW p \in DOMAIN entries PROVE By(p) = promised(p)
  <2> DEFINE e == entries[p]
  <2>1. e.constant => Fires(e, text)
    BY Zenon DEF Fires
  <2>2. p \in fired <=> e.mode # "vector" /\ due(e)
    BY <1>2, <2>1 DEF Fired, FiresHere
  <2>3. p \in others <=> isFound(p) /\ ~(~e.disabled /\ e.mode \in {"keyword", "regex"}) /\ p \notin fired
    BY <1>2 DEF Members, Excluded, OnlyKeyed
  <2>4. CASE e.disabled
    <3>1. ~due(e)
      BY <2>4
    <3>2. By(p) = IF isFound(p) THEN {"search"} ELSE {}
      BY <1>4, <2>2, <2>3, <2>4, <3>1
    <3> HIDE DEF due, isFound
    <3> QED
      BY <2>4, <3>2, Zenon
  <2>5. CASE ~e.disabled /\ e.mode = "vector"
    <3>1. By(p) = IF isFound(p) THEN {"search"} ELSE {}
      BY <1>4, <2>2, <2>3, <2>5
    <3>2. e.mode \notin {"keyword", "regex"}
      BY <2>5
    <3> HIDE DEF due, isFound
    <3> QED
      BY <2>5, <3>1, <3>2, Zenon
  <2>6. CASE ~e.disabled /\ e.mode \in {"keyword", "regex"}
    <3>1. By(p) = IF due(e) THEN {"key"} ELSE {}
      BY <1>4, <2>2, <2>3, <2>6
    <3>2. e.mode # "vector"
      BY <2>6
    <3> HIDE DEF due, isFound
    <3> QED
      BY <2>6, <3>1, <3>2, Zenon
  <2>7. CASE ~e.disabled /\ e.mode \notin {"vector", "keyword", "regex"}
    <3>1. By(p) = IF due(e) THEN {"key"} ELSE IF isFound(p) THEN {"search"} ELSE {}
      BY <1>4, <2>2, <2>3, <2>7
    <3>2. e.mode # "vector" /\ e.mode \notin {"keyword", "regex"}
      BY <2>7
    <3> HIDE DEF due, isFound
    <3> QED
      BY <2>7, <3>1, <3>2, Zenon
  <2> QED
    BY <2>4, <2>5, <2>6, <2>7
<1>6. /\ \A i, j \in DOMAIN rs : rs[i].path = rs[j].path => i = j
      /\ \A i, j \in DOMAIN rs : rs[i].by = "key" /\ rs[j].by = "search" => i < j
      /\ \A p \in DOMAIN entries : By(p) = promised(p)
  <2> HIDE DEF promised
  <2> QED
    BY <1>3, <1>5 DEF NoTwice, KeysFirst
<1> QED
  BY <1>6, Zenon DEF ModeIsKept, rs, By

(* The same of the lore files asked about.                                 *)
THEOREM LoreKeepsItsModes ==
  ASSUME NEW F, question = "lore" => input.found \in Seq(F)
  PROVE  ModesAreKept
<1> SUFFICES ASSUME question = "lore"
             PROVE  ModeIsKept([i \in 1..2 |-> ParseLore(input.docs[i])], input.text, input.found)
  BY DEF ModesAreKept
<1> DEFINE entries == [i \in 1..2 |-> ParseLore(input.docs[i])]
           E == {entries[1], entries[2]}
<1>1. entries \in Seq(E)
  <2>1. entries \in [1..2 -> E]
    <3>1. \A i \in 1..2 : entries[i] \in E
      <4>1. \A i \in 1..2 : i = 1 \/ i = 2
        OBVIOUS
      <4> QED
        BY <4>1
    <3>2. entries = [i \in 1..2 |-> entries[i]]
      OBVIOUS
    <3> HIDE DEF entries, E
    <3> QED
      BY <3>1, <3>2
  <2> HIDE DEF entries, E
  <2>2. 2 \in Nat
    OBVIOUS
  <2> QED
    BY <2>1, <2>2, SeqDef
<1> HIDE DEF entries, E
<1>2. ModeIsKept(entries, input.text, input.found)
  BY <1>1, TheModesAreKept
<1> QED
  BY <1>2 DEF entries

-----------------------------------------------------------------------------
(* Windows over a text.                                                    *)

LEMMA Multiples ==
  ASSUME NEW step \in Nat, step >= 1
  PROVE  /\ 0 * step = 0
         /\ \A k \in Nat : k * step \in Nat /\ (k + 1) * step = k * step + step /\ k <= k * step
         /\ \A j, k \in Nat : j <= k => j * step <= k * step
<1>1. 0 * step = 0
  OBVIOUS
<1>2. \A k \in Nat : k * step \in Nat /\ (k + 1) * step = k * step + step
  OBVIOUS
<1>3. \A k \in Nat : k <= k * step
  OBVIOUS
<1>4. ASSUME NEW j \in Nat, NEW k \in Nat, j <= k PROVE j * step <= k * step
  <2>1. PICK d \in Nat : k = j + d
    <3>1. k - j \in Nat /\ k = j + (k - j)
      BY <1>4
    <3> QED
      BY <3>1
  <2>2. k * step = j * step + d * step
    BY <2>1
  <2> QED
    BY <1>2, <2>1, <2>2
<1> QED
  BY <1>1, <1>2, <1>3, <1>4

LEMMA WidthAndStep ==
  ASSUME NEW size \in Int, NEW overlap \in Int
  PROVE  LET width == AtLeast(1, size)
             step == width - Overlap(size, overlap)
         IN width \in Nat /\ step \in Nat /\ 1 <= step /\ step <= width
BY DEF AtLeast, AtMost, Overlap

WindowsUpTo(K, ws, n, width, step) ==
  /\ n <= K * step + width /\ \A k \in Nat : k < K => k * step + width < n
  /\ ws = [i \in 1..(K + 1) |-> (((i - 1) * step) + 1)..AtMost(((i - 1) * step) + width, n)]

(* The windows a text is cut into: the last one is the first that reaches  *)
(* its end.                                                                *)
LEMMA WindowsAre ==
  ASSUME NEW n \in Nat, n > 0, NEW size \in Int, NEW overlap \in Int,
         NEW width, width = AtLeast(1, size), NEW step, step = width - Overlap(size, overlap)
  PROVE  \E K \in Nat :
           WindowsUpTo(K, Windows(n, size, overlap), n, width, step)
<1>1. width \in Nat /\ step \in Nat /\ 1 <= step /\ step <= width
  BY WidthAndStep
<1> DEFINE T == {k \in Nat : n <= k * step + width}
<1>2. PICK K \in T : \A k \in 0..(K - 1) : k \notin T
  <2>1. n <= n * step
    BY <1>1, Multiples
  <2>2. n * step \in Nat
    BY <1>1, Multiples
  <2>3. n \in T
    BY <1>1, <2>1, <2>2
  <2>4. T \subseteq Nat
    OBVIOUS
  <2> HIDE DEF T
  <2> QED
    BY <2>3, <2>4, FirstFailure
<1>3. K \in Nat /\ n <= K * step + width
  BY <1>2
<1>4. ASSUME NEW k \in Nat, k < K PROVE k * step + width < n
  <2>1. k \in 0..(K - 1)
    BY <1>3, <1>4
  <2>2. ~(n <= k * step + width)
    BY <1>2, <2>1
  <2>3. k * step \in Nat
    BY <1>1, Multiples
  <2> QED
    BY <1>1, <2>2, <2>3
<1> HIDE DEF T
<1> DEFINE starts == {k \in 0..n : n > 0 /\ (k = 0 \/ (k - 1) * step + width < n)}
<1>5. K <= n
  <2>1. CASE K = 0
    BY <2>1
  <2>2. CASE K # 0
    <3>1. K - 1 \in Nat /\ K - 1 < K
      BY <1>3, <2>2
    <3>2. (K - 1) * step + width < n /\ K - 1 <= (K - 1) * step /\ (K - 1) * step \in Nat
      BY <1>1, <1>4, <3>1, Multiples
    <3> QED
      BY <1>1, <1>3, <3>1, <3>2
  <2> QED
    BY <2>1, <2>2
<1>6. starts = 0..K
  <2>1. ASSUME NEW k \in starts PROVE k \in 0..K
    <3>1. CASE k = 0
      BY <1>3, <3>1
    <3>2. CASE k # 0
      <4>1. k - 1 \in Nat /\ (k - 1) * step + width < n
        BY <3>2
      <4>2. ~(K <= k - 1)
        <5>1. K <= k - 1 => K * step <= (k - 1) * step
          BY <1>1, <1>3, <4>1, Multiples
        <5>2. K * step \in Nat /\ (k - 1) * step \in Nat
          BY <1>1, <1>3, <4>1, Multiples
        <5> QED
          BY <1>1, <1>3, <4>1, <5>1, <5>2
      <4> QED
        BY <1>3, <4>1, <4>2
    <3> QED
      BY <3>1, <3>2
  <2>2. ASSUME NEW k \in 0..K PROVE k \in starts
    <3>1. k \in 0..n
      BY <1>3, <1>5
    <3>2. k # 0 => k - 1 \in Nat /\ k - 1 < K
      BY <1>3
    <3> QED
      BY <1>4, <3>1, <3>2
  <2> HIDE DEF starts
  <2> QED
    BY <2>1, <2>2
<1>7. Cardinality(starts) = K + 1
  <2>1. Cardinality(0..K) = K + 1
    BY <1>3, FS_Interval
  <2> QED
    BY <1>6, <2>1
<1>8. Windows(n, size, overlap) =
        [i \in 1..Cardinality(starts) |-> (((i - 1) * step) + 1)..AtMost(((i - 1) * step) + width, n)]
  BY Zenon DEF Windows
<1> QED
  BY <1>3, <1>4, <1>7, <1>8 DEF WindowsUpTo

(* Every word is in some window, no window is empty, longer than the size  *)
(* or within the one before it (chunkers.py): whatever length, size and    *)
(* overlap.                                                                *)
THEOREM NoWordIsLost ==
  ASSUME NEW n \in Nat, NEW size \in Int, NEW overlap \in Int
  PROVE  WordsAreCovered(n, size, overlap)
<1> DEFINE ws == Windows(n, size, overlap)
<1> SUFFICES /\ UNION {ws[i] : i \in DOMAIN ws} = 1..n
             /\ \A i \in DOMAIN ws : ws[i] # {} /\ Cardinality(ws[i]) <= AtLeast(1, size)
             /\ \A i \in DOMAIN ws : i > 1 => ~(ws[i] \subseteq ws[i - 1])
  BY Zenon DEF WordsAreCovered
<1>1. CASE n = 0
  <2> DEFINE step == AtLeast(1, size) - Overlap(size, overlap)
             starts == {k \in 0..n : n > 0 /\ (k = 0 \/ (k - 1) * step + AtLeast(1, size) < n)}
  <2>1. starts = {}
    BY <1>1
  <2>2. Cardinality(starts) = 0
    BY <2>1, FS_EmptySet
  <2>3. ws = [i \in 1..Cardinality(starts) |->
                (((i - 1) * step) + 1)..AtMost(((i - 1) * step) + AtLeast(1, size), n)]
    BY Zenon DEF Windows
  <2> HIDE DEF ws, step, starts
  <2>4. DOMAIN ws = {}
    BY <2>2, <2>3
  <2> QED
    BY <1>1, <2>4
<1>2. CASE n > 0
  <2>1. PICK width : width = AtLeast(1, size)
    OBVIOUS
  <2>2. PICK step : step = width - Overlap(size, overlap)
    OBVIOUS
  <2>3. width \in Nat /\ step \in Nat /\ 1 <= step /\ step <= width
    BY <2>1, <2>2, WidthAndStep
  <2>0. PICK K \in Nat : WindowsUpTo(K, ws, n, width, step)
    BY <1>2, <2>1, <2>2, WindowsAre
  <2> HIDE DEF ws
  <2>4. /\ n <= K * step + width /\ \A k \in Nat : k < K => k * step + width < n
        /\ ws = [i \in 1..(K + 1) |-> (((i - 1) * step) + 1)..AtMost(((i - 1) * step) + width, n)]
    BY <2>0 DEF WindowsUpTo
  <2> DEFINE end(k) == AtMost(k * step + width, n)
  <2>5. /\ DOMAIN ws = 1..(K + 1)
        /\ \A k \in 0..K : k + 1 \in 1..(K + 1) /\ ws[k + 1] = ((k * step) + 1)..end(k)
    <3>1. DOMAIN ws = 1..(K + 1)
      BY <2>4
    <3>2. ASSUME NEW k \in 0..K PROVE k + 1 \in 1..(K + 1) /\ ws[k + 1] = ((k * step) + 1)..end(k)
      <4>1. k + 1 \in 1..(K + 1) /\ (k + 1) - 1 = k
        OBVIOUS
      <4>2. ws[k + 1] = ((((k + 1) - 1) * step) + 1)..AtMost((((k + 1) - 1) * step) + width, n)
        BY <2>4, <4>1
      <4> QED
        BY <4>1, <4>2
    <3> QED
      BY <3>1, <3>2
  <2>6. \A i \in DOMAIN ws : i - 1 \in 0..K /\ (i - 1) + 1 = i
    BY <2>5
  (* The k-th window is neither empty nor longer than the size. *)
  <2>7. ASSUME NEW k \in 0..K
        PROVE  /\ k * step \in Nat /\ k * step + 1 <= end(k) /\ end(k) <= n /\ end(k) <= k * step + width
               /\ end(k) \in Nat
               /\ k # 0 => (k - 1) * step + width < end(k) /\ (k - 1) * step \in Nat
    <3>1. k * step \in Nat
      BY <2>3, Multiples
    <3>2. CASE k = 0
      <4>1. k * step = 0
        BY <2>3, <3>2, Multiples
      <4> QED
        BY <1>2, <2>3, <3>2, <4>1 DEF AtMost
    <3>3. CASE k # 0
      <4>1. k - 1 \in Nat /\ k - 1 < K /\ (k - 1) + 1 = k
        BY <3>3
      <4>2. (k - 1) * step \in Nat /\ k * step = (k - 1) * step + step
        BY <2>3, <4>1, Multiples
      <4>3. (k - 1) * step + width < n
        BY <2>4, <4>1
      <4> QED
        BY <2>3, <3>1, <4>2, <4>3 DEF AtMost
    <3> QED
      BY <3>2, <3>3
  <2> HIDE DEF end
  <2>8. UNION {ws[i] : i \in DOMAIN ws} = 1..n
    <3>1. ASSUME NEW i \in DOMAIN ws, NEW w \in ws[i] PROVE w \in 1..n
      <4>1. i - 1 \in 0..K /\ ws[i] = (((i - 1) * step) + 1)..end(i - 1)
        BY <2>5, <2>6
      <4> QED
        BY <2>7, <4>1
    <3>2. ASSUME NEW w \in 1..n PROVE \E i \in DOMAIN ws : w \in ws[i]
      <4> DEFINE T == {k \in 0..K : w <= k * step + width}
      <4>1. K \in T
        <5>1. K * step \in Nat
          BY <2>3, Multiples
        <5> QED
          BY <2>3, <2>4, <5>1
      <4>2. PICK k \in T : \A m \in 0..(k - 1) : m \notin T
        <5>1. T \subseteq Nat
          OBVIOUS
        <5> HIDE DEF T
        <5> QED
          BY <4>1, <5>1, FirstFailure
      <4>3. k \in 0..K /\ w <= k * step + width
        BY <4>2
      <4>4. k * step + 1 <= w
        <5>1. CASE k = 0
          <6>1. k * step = 0
            BY <2>3, <5>1, Multiples
          <6> QED
            BY <6>1
        <5>2. CASE k # 0
          <6>1. k - 1 \in 0..(k - 1) /\ k - 1 \in 0..K /\ k - 1 \in Nat /\ (k - 1) + 1 = k
            BY <4>3, <5>2
          <6>2. ~(w <= (k - 1) * step + width)
            BY <4>2, <6>1
          <6>3. (k - 1) * step \in Nat /\ k * step = (k - 1) * step + step
            BY <2>3, <6>1, Multiples
          <6> QED
            BY <2>3, <6>2, <6>3
        <5> QED
          BY <5>1, <5>2
      <4>5. w \in ((k * step) + 1)..end(k)
        BY <2>3, <2>7, <4>3, <4>4 DEF end, AtMost
      <4> QED
        BY <2>5, <4>3, <4>5
    <3> QED
      BY <3>1, <3>2
  <2>9. ASSUME NEW i \in DOMAIN ws PROVE ws[i] # {} /\ Cardinality(ws[i]) <= AtLeast(1, size)
    <3>1. PICK k \in 0..K : ws[i] = ((k * step) + 1)..end(k)
      BY <2>5, <2>6
    <3>2. k * step \in Nat /\ k * step + 1 <= end(k) /\ end(k) <= k * step + width /\ end(k) \in Nat
      BY <2>7
    <3>3. k * step + 1 \in ws[i]
      BY <3>1, <3>2
    <3>4. Cardinality(((k * step) + 1)..end(k)) = end(k) - ((k * step) + 1) + 1
      BY <3>2, FS_Interval
    <3>5. Cardinality(ws[i]) <= width
      BY <2>3, <3>1, <3>2, <3>4
    <3> QED
      BY <2>1, <3>3, <3>5
  <2>10. ASSUME NEW i \in DOMAIN ws, i > 1 PROVE ~(ws[i] \subseteq ws[i - 1])
    <3>1. PICK k \in 0..K : k = i - 1 /\ k # 0 /\ k - 1 \in 0..K
      BY <2>5, <2>10
    <3>2. /\ ws[i] = ((k * step) + 1)..end(k)
          /\ ws[i - 1] = (((k - 1) * step) + 1)..end(k - 1)
      BY <2>5, <3>1
    <3>3. /\ k * step + 1 <= end(k) /\ end(k) \in Nat /\ k * step \in Nat
          /\ (k - 1) * step + width < end(k) /\ (k - 1) * step \in Nat
          /\ end(k - 1) <= (k - 1) * step + width /\ end(k - 1) \in Nat
      BY <2>7, <3>1
    <3>4. end(k) \in ws[i] /\ end(k) \notin ws[i - 1]
      BY <2>3, <3>2, <3>3
    <3> QED
      BY <3>4
  <2> QED
    BY <2>8, <2>9, <2>10
<1> QED
  BY <1>1, <1>2

-----------------------------------------------------------------------------
(* Lines joined into chunks.                                               *)

AllLoop(f, chunks, n) == f = [i \in 0..n |-> IF i = 0 THEN <<>> ELSE f[i - 1] \o chunks[i]]
AllSteps(f, chunks, n, X) ==
  f[0] = <<>> /\ \A i \in 1..n : f[i] = f[i - 1] \o chunks[i] /\ f[i - 1] \in Seq(X) /\ f[i] \in Seq(X)

LEMMA AllLoopExists ==
  ASSUME NEW X, NEW n \in Nat, NEW chunks \in [1..n -> Seq(X)]
  PROVE  \E f : AllLoop(f, chunks, n)
<1> DEFINE Y == Seq(X)
           step == [q \in (1..n) \X Y |-> q[2] \o chunks[q[1]]]
<1>1. \A k \in 1..n, s \in Y : step[<<k, s>>] = s \o chunks[k]
  OBVIOUS
<1>2. step \in [(1..n) \X Y -> Y]
  <2>1. \A k \in 1..n, s \in Y : s \o chunks[k] \in Y
    BY ConcatProperties
  <2> QED
    BY <2>1
<1>3. <<>> \in Y
  BY EmptySeq
<1> HIDE DEF step, Y
<1>4. PICK f \in [0..n -> Y] : Loops(f, n, <<>>, step)
  BY <1>2, <1>3, LoopExists
<1>5. ASSUME NEW k \in 0..n PROVE f[k] = IF k = 0 THEN <<>> ELSE f[k - 1] \o chunks[k]
  <2>1. f[k] = IF k = 0 THEN <<>> ELSE step[<<k, f[k - 1]>>]
    BY <1>4 DEF Loops
  <2>2. CASE k # 0
    <3>1. k \in 1..n /\ f[k - 1] \in Y
      BY <2>2
    <3> QED
      BY <1>1, <2>1, <2>2, <3>1
  <2> QED
    BY <2>1, <2>2
<1>6. f = [k \in 0..n |-> f[k]]
  OBVIOUS
<1>7. AllLoop(f, chunks, n)
  BY <1>5, <1>6 DEF AllLoop
<1> QED
  BY <1>7

LEMMA AllStepsAre ==
  ASSUME NEW X, NEW n \in Nat, NEW chunks \in [1..n -> Seq(X)], NEW f, AllLoop(f, chunks, n)
  PROVE  AllSteps(f, chunks, n, X) /\ f[n] \in Seq(X)
<1> DEFINE a(i) == IF i = 0 THEN <<>> ELSE f[i - 1] \o chunks[i]
<1>4. \A i \in 0..n : f[i] = a(i)
  <2>1. f = [i \in 0..n |-> a(i)]
    BY Zenon DEF AllLoop
  <2> HIDE DEF a
  <2> QED
    BY <2>1
<1>5. f[0] = <<>>
  <2>1. 0 \in 0..n
    OBVIOUS
  <2> QED
    BY <1>4, <2>1
<1>6. \A i \in 1..n : f[i] = f[i - 1] \o chunks[i]
  <2> TAKE i \in 1..n
  <2>1. i \in 0..n /\ i # 0
    OBVIOUS
  <2> QED
    BY <1>4, <2>1
<1> HIDE DEF a
<1> DEFINE Y == Seq(X)
<1>7. /\ <<>> \in Y /\ \A s, t \in Y : s \o t \in Y
      /\ \A k \in 1..n : chunks[k] \in Y
  BY EmptySeq, ConcatProperties
<1> HIDE DEF Y
<1>8. \A k \in 0..n : f[k] \in Y
  <2> DEFINE G == {k \in 0..n : f[k] \in Y}
  <2>1. 0 \in G
    BY <1>5, <1>7
  <2>2. ASSUME NEW k \in 1..n, k - 1 \in G PROVE k \in G
    <3>1. k \in 0..n /\ f[k - 1] \in Y
      BY <2>2
    <3>2. f[k] = f[k - 1] \o chunks[k] /\ chunks[k] \in Y
      BY <1>6, <1>7
    <3>3. f[k] \in Y
      BY <1>7, <3>1, <3>2
    <3> QED
      BY <3>1, <3>3
  <2>3. \A k \in 1..n : k - 1 \in G => k \in G
    BY <2>2
  <2>4. \A k \in G : f[k] \in Y
    OBVIOUS
  <2> HIDE DEF G
  <2>5. 0..n \subseteq G
    BY <2>1, <2>3, Climb
  <2> QED
    BY <2>4, <2>5
<1> USE DEF Y
<1>9. AllSteps(f, chunks, n, X)
  <2>1. \A i \in 1..n : i \in 0..n /\ i - 1 \in 0..n
    OBVIOUS
  <2> QED
    BY <1>5, <1>6, <1>8, <2>1 DEF AllSteps
<1> QED
  BY <1>8, <1>9

FlatLoop(f, chunks, n) == f = [i \in 1..n |-> IF i = 1 THEN chunks[i] ELSE f[i - 1] \o chunks[i]]

LEMMA FlatLoopExists ==
  ASSUME NEW X, NEW n \in Nat, NEW chunks \in [1..n -> Seq(X)]
  PROVE  \E f : FlatLoop(f, chunks, n)
<1>1. PICK f : AllLoop(f, chunks, n)
  BY AllLoopExists
<1>2. AllSteps(f, chunks, n, X)
  BY <1>1, AllStepsAre
<1>3. f[0] = <<>> /\ \A i \in 1..n : f[i] = f[i - 1] \o chunks[i]
  BY <1>2 DEF AllSteps
<1> DEFINE g == [i \in 1..n |-> f[i]]
<1>4. ASSUME NEW i \in 1..n PROVE f[i] = IF i = 1 THEN chunks[i] ELSE g[i - 1] \o chunks[i]
  <2>1. CASE i = 1
    <3>1. PICK c \in Seq(X) : c = chunks[i]
      OBVIOUS
    <3>2. <<>> \o c = c
      BY <3>1, ConcatEmptySeq
    <3>3. f[i] = f[0] \o c
      <4>1. f[i] = f[i - 1] \o chunks[i] /\ i - 1 = 0
        BY <1>3, <2>1
      <4> HIDE DEF g
      <4> QED
        BY <3>1, <4>1
    <3> QED
      BY <1>3, <2>1, <3>1, <3>2, <3>3
  <2>2. CASE i # 1
    <3>1. g[i - 1] = f[i - 1]
      BY <2>2
    <3> QED
      BY <1>3, <2>2, <3>1
  <2> QED
    BY <2>1, <2>2
<1>5. FlatLoop(g, chunks, n)
  <2> DEFINE b(i) == IF i = 1 THEN chunks[i] ELSE g[i - 1] \o chunks[i]
  <2>1. \A i \in 1..n : f[i] = b(i)
    BY <1>4
  <2> HIDE DEF b
  <2>2. g = [i \in 1..n |-> b(i)]
    BY <2>1
  <2> QED
    BY <2>2, Zenon DEF FlatLoop, b
<1> QED
  BY <1>5

LEMMA FlattenIs ==
  ASSUME NEW X, NEW chunks \in Seq(Seq(X)), NEW n, n = Len(chunks)
  PROVE  \E f : AllSteps(f, chunks, n, X) /\ FlattenSeq(chunks) = f[n] /\ f[n] \in Seq(X)
<1>1. n \in Nat /\ chunks \in [1..n -> Seq(X)]
  OBVIOUS
<1>2. CASE n = 0
  <2>1. chunks = <<>>
    BY <1>2, EmptySeq
  <2>2. FlattenSeq(chunks) = <<>>
    BY <1>2, <2>1 DEF FlattenSeq
  <2>3. PICK f : f = [k \in {0} |-> <<>>]
    OBVIOUS
  <2>4. f[0] = <<>> /\ <<>> \in Seq(X)
    BY <2>3, EmptySeq
  <2>5. AllSteps(f, chunks, n, X)
    BY <1>2, <2>4 DEF AllSteps
  <2> QED
    BY <1>2, <2>2, <2>4, <2>5
<1>3. CASE n # 0
  <2> DEFINE Q(f) == FlatLoop(f, chunks, Len(chunks))
             g == CHOOSE flatten : Q(flatten)
  <2>1. FlattenSeq(chunks) = g[n]
    BY <1>3, Zenon DEF FlattenSeq, FlatLoop
  <2>2. FlatLoop(g, chunks, n)
    <3>1. \E h : Q(h)
      BY <1>1, FlatLoopExists
    <3> HIDE DEF Q
    <3>2. Q(g)
      BY <3>1, Zenon
    <3> QED
      BY <3>2 DEF Q
  <2> HIDE DEF g, Q
  <2> DEFINE b(i) == IF i = 1 THEN chunks[i] ELSE g[i - 1] \o chunks[i]
  <2>3. \A i \in 1..n : g[i] = b(i)
    <3>1. g = [i \in 1..n |-> b(i)]
      BY <2>2, Zenon DEF FlatLoop
    <3> HIDE DEF b
    <3> QED
      BY <3>1
  <2> DEFINE f == [i \in 0..n |-> IF i = 0 THEN <<>> ELSE g[i]]
             a(i) == IF i = 0 THEN <<>> ELSE f[i - 1] \o chunks[i]
  <2>4. ASSUME NEW i \in 0..n PROVE f[i] = a(i)
    <3>1. CASE i = 0
      BY <3>1
    <3>2. CASE i = 1
      <4>1. PICK c \in Seq(X) : c = chunks[1]
        BY <1>1, <1>3
      <4>2. <<>> \o c = c
        BY <4>1, ConcatEmptySeq
      <4>3. f[1] = g[1] /\ f[0] = <<>>
        BY <1>1, <1>3
      <4>4. g[1] = c
        BY <1>1, <1>3, <2>3, <4>1
      <4>5. a(i) = f[0] \o chunks[1]
        BY <3>2
      <4> HIDE DEF f, a, b
      <4> QED
        BY <3>2, <4>1, <4>2, <4>3, <4>4, <4>5
    <3>3. CASE i # 0 /\ i # 1
      <4>1. i \in 1..n /\ i - 1 \in 0..n /\ i - 1 # 0
        BY <1>1, <3>3
      <4>2. f[i] = g[i] /\ f[i - 1] = g[i - 1]
        BY <3>3, <4>1
      <4>3. g[i] = g[i - 1] \o chunks[i]
        BY <2>3, <3>3, <4>1
      <4> HIDE DEF f, b
      <4> QED
        BY <3>3, <4>2, <4>3
    <3> QED
      BY <3>1, <3>2, <3>3
  <2>5. f[n] = g[n]
    BY <1>1, <1>3
  <2>6. AllLoop(f, chunks, n)
    <3>1. f = [i \in 0..n |-> f[i]]
      OBVIOUS
    <3> HIDE DEF f, a
    <3>2. f = [i \in 0..n |-> a(i)]
      BY <2>4, <3>1
    <3> QED
      BY <3>2, Zenon DEF AllLoop, a
  <2> HIDE DEF f
  <2> QED
    BY <1>1, <2>1, <2>5, <2>6, AllStepsAre
<1> QED
  BY <1>2, <1>3

LEMMA FlattenType ==
  ASSUME NEW X, NEW chunks \in Seq(Seq(X))
  PROVE  FlattenSeq(chunks) \in Seq(X)
BY FlattenIs

LEMMA FlattenNone ==
  FlattenSeq(<<>>) = <<>>
<1>1. <<>> \in Seq(Seq({})) /\ Len(<<>>) = 0
  OBVIOUS
<1>2. PICK f : AllSteps(f, <<>>, 0, {}) /\ FlattenSeq(<<>>) = f[0]
  BY <1>1, FlattenIs
<1> QED
  BY <1>2 DEF AllSteps

LEMMA FlattenAppend ==
  ASSUME NEW X, NEW chunks \in Seq(Seq(X)), NEW x \in Seq(X)
  PROVE  FlattenSeq(Append(chunks, x)) = FlattenSeq(chunks) \o x
<1> DEFINE longer == Append(chunks, x)
<1>1. PICK n : n = Len(chunks)
  OBVIOUS
<1>2. /\ n \in Nat /\ longer \in Seq(Seq(X)) /\ Len(longer) = n + 1
      /\ longer[n + 1] = x /\ \A i \in 1..n : longer[i] = chunks[i]
  BY <1>1, AppendProperties
<1> HIDE DEF longer
<1>3. PICK f : AllSteps(f, chunks, n, X) /\ FlattenSeq(chunks) = f[n]
  BY <1>1, FlattenIs
<1>4. PICK m : m = n + 1
  OBVIOUS
<1>5. PICK g : AllSteps(g, longer, m, X) /\ FlattenSeq(longer) = g[m]
  BY <1>2, <1>4, FlattenIs
<1> DEFINE G == {k \in 0..n : g[k] = f[k]}
<1>6. 0..n \subseteq G
  <2>1. 0 \in G
    BY <1>2, <1>3, <1>5 DEF AllSteps
  <2>2. ASSUME NEW k \in 1..n, k - 1 \in G PROVE k \in G
    <3>1. k \in 0..n /\ k \in 1..m /\ g[k - 1] = f[k - 1] /\ longer[k] = chunks[k]
      BY <1>2, <1>4, <2>2
    <3>2. g[k] = g[k - 1] \o longer[k] /\ f[k] = f[k - 1] \o chunks[k]
      BY <1>3, <1>5, <3>1 DEF AllSteps
    <3> QED
      BY <3>1, <3>2
  <2>3. \A k \in 1..n : k - 1 \in G => k \in G
    BY <2>2
  <2> HIDE DEF G
  <2> QED
    BY <1>2, <2>1, <2>3, Climb
<1>7. g[n] = f[n]
  <2>1. n \in 0..n
    BY <1>2
  <2> QED
    BY <1>6, <2>1
<1>8. g[m] = g[n] \o longer[m]
  <2>1. m \in 1..m /\ m - 1 = n
    BY <1>2, <1>4
  <2>2. g[m] = g[m - 1] \o longer[m]
    BY <1>5, <2>1 DEF AllSteps
  <2> QED
    BY <2>1, <2>2
<1> QED
  BY <1>2, <1>3, <1>4, <1>5, <1>7, <1>8 DEF longer

WithLast(c, l) == [c EXCEPT ![Len(c)] = l]

LEMMA LastReplaced ==
  ASSUME NEW Y, NEW front \in Seq(Y), NEW last \in Y, NEW l \in Y
  PROVE  WithLast(Append(front, last), l) = Append(front, l)
<1> DEFINE c == Append(front, last)
           d == [c EXCEPT ![Len(c)] = l]
<1>1. /\ c \in Seq(Y) /\ Len(c) = Len(front) + 1 /\ Len(front) \in Nat
      /\ \A i \in 1..Len(front) : c[i] = front[i]
  BY AppendProperties
<1>2. /\ Append(front, l) \in Seq(Y) /\ Len(Append(front, l)) = Len(front) + 1
      /\ \A i \in 1..Len(front) : Append(front, l)[i] = front[i]
      /\ Append(front, l)[Len(front) + 1] = l
  BY AppendProperties
<1> HIDE DEF c
<1>3. /\ d \in Seq(Y) /\ Len(d) = Len(c)
      /\ \A i \in 1..Len(c) : d[i] = IF i = Len(c) THEN l ELSE c[i]
  BY <1>1, ExceptSeq
<1> HIDE DEF d
<1>4. \A i \in 1..Len(d) : d[i] = Append(front, l)[i]
  BY <1>1, <1>2, <1>3
<1>5. d = Append(front, l)
  BY <1>1, <1>2, <1>3, <1>4, SeqEqual
<1> QED
  BY <1>5 DEF c, d, WithLast

(* A line goes to the end of the last piece, or starts the next one.       *)
LEMMA LineIsLast ==
  ASSUME NEW L, NEW pieces \in Seq(Seq(L)), NEW line \in L
  PROVE  /\ AddLine(pieces, line) \in Seq(Seq(L))
         /\ FlattenSeq(AddLine(pieces, line)) = Append(FlattenSeq(pieces), line)
<1>1. <<line>> \in Seq(L) /\ FlattenSeq(pieces) \in Seq(L)
  BY FlattenType
<1>2. FlattenSeq(pieces) \o <<line>> = Append(FlattenSeq(pieces), line)
  BY <1>1, AppendIsConcat
<1>3. CASE pieces = <<>> \/ line.starts
  <2>1. AddLine(pieces, line) = Append(pieces, <<line>>)
    BY <1>3 DEF AddLine
  <2>2. FlattenSeq(Append(pieces, <<line>>)) = FlattenSeq(pieces) \o <<line>>
    BY <1>1, FlattenAppend
  <2>3. Append(pieces, <<line>>) \in Seq(Seq(L))
    BY <1>1, AppendProperties
  <2> QED
    BY <1>2, <2>1, <2>2, <2>3
<1>4. CASE ~(pieces = <<>> \/ line.starts)
  <2>1. PICK front \in Seq(Seq(L)), last \in Seq(L) : pieces = Append(front, last)
    BY <1>4, SequenceEmptyOrAppend
  <2>2. pieces[Len(pieces)] = last
    BY <2>1, AppendProperties
  <2>3. PICK l \in Seq(L) : l = Append(last, line)
    BY AppendProperties
  <2>4. l = last \o <<line>>
    BY <2>3, AppendIsConcat
  <2>5. WithLast(pieces, l) = Append(front, l)
    BY <2>1, LastReplaced
  <2>6. AddLine(pieces, line) = Append(front, l)
    BY <1>4, <2>2, <2>3, <2>5 DEF AddLine, WithLast
  <2>7. Append(front, l) \in Seq(Seq(L))
    BY AppendProperties
  <2>8. PICK x \in Seq(L) : x = <<line>>
    BY <1>1
  <2>9. FlattenSeq(Append(front, l)) = FlattenSeq(Append(front, last)) \o x
    <3>1. l = last \o x
      BY <2>4, <2>8
    <3>2. FlattenSeq(Append(front, l)) = FlattenSeq(front) \o l
      BY FlattenAppend
    <3>3. FlattenSeq(Append(front, last)) = FlattenSeq(front) \o last
      BY FlattenAppend
    <3>4. PICK a \in Seq(L) : a = FlattenSeq(front)
      BY FlattenType
    <3>5. (a \o last) \o x = a \o (last \o x)
      BY <2>8, ConcatAssociative
    <3> QED
      BY <3>1, <3>2, <3>3, <3>4, <3>5
  <2> QED
    BY <1>2, <2>1, <2>4, <2>6, <2>7, <2>8, <2>9
<1> QED
  BY <1>3, <1>4

Start(lines, k) == [i \in 1..k |-> lines[i]]

LEMMA Starts ==
  ASSUME NEW L, NEW lines \in Seq(L)
  PROVE  /\ Start(lines, 0) = <<>>
         /\ \A k \in 1..Len(lines) : Append(Start(lines, k - 1), lines[k]) = Start(lines, k)
         /\ Start(lines, Len(lines)) = lines
<1>1. Start(lines, 0) = <<>>
  BY DEF Start
<1>2. ASSUME NEW k \in 1..Len(lines) PROVE Append(Start(lines, k - 1), lines[k]) = Start(lines, k)
  <2> DEFINE s == Start(lines, k - 1)
             t == Start(lines, k)
  <2>1. s \in Seq(L) /\ Len(s) = k - 1 /\ \A i \in 1..(k - 1) : s[i] = lines[i]
    BY DEF Start
  <2>2. t \in Seq(L) /\ Len(t) = k /\ \A i \in 1..k : t[i] = lines[i]
    BY DEF Start
  <2> HIDE DEF s, t
  <2>3. lines[k] \in L
    OBVIOUS
  <2>4. /\ Append(s, lines[k]) \in Seq(L) /\ Len(Append(s, lines[k])) = k
        /\ \A i \in 1..(k - 1) : Append(s, lines[k])[i] = s[i]
        /\ Append(s, lines[k])[k] = lines[k]
    BY <2>1, <2>3, AppendProperties
  <2>5. \A i \in 1..k : Append(s, lines[k])[i] = t[i]
    BY <2>1, <2>2, <2>4
  <2>6. Append(s, lines[k]) = t
    BY <2>2, <2>4, <2>5, SeqEqual
  <2> QED
    BY <2>6 DEF s, t
<1>3. Start(lines, Len(lines)) = lines
  BY DEF Start
<1> QED
  BY <1>1, <1>2, <1>3

PiecesLoop(f, lines, n) == f = [i \in 0..n |-> IF i = 0 THEN <<>> ELSE AddLine(f[i - 1], lines[i])]

LEMMA PiecesLoopExists ==
  ASSUME NEW L, NEW n \in Nat, NEW lines \in [1..n -> L]
  PROVE  \E f : PiecesLoop(f, lines, n)
<1> DEFINE Y == Seq(Seq(L))
           step == [q \in (1..n) \X Y |-> AddLine(q[2], lines[q[1]])]
<1>1. \A k \in 1..n, s \in Y : step[<<k, s>>] = AddLine(s, lines[k])
  OBVIOUS
<1>2. step \in [(1..n) \X Y -> Y]
  <2>1. \A k \in 1..n, s \in Y : AddLine(s, lines[k]) \in Y
    BY LineIsLast
  <2> QED
    BY <2>1
<1>3. <<>> \in Y
  BY EmptySeq
<1> HIDE DEF step, Y
<1>4. PICK f \in [0..n -> Y] : Loops(f, n, <<>>, step)
  BY <1>2, <1>3, LoopExists
<1>5. ASSUME NEW k \in 0..n PROVE f[k] = IF k = 0 THEN <<>> ELSE AddLine(f[k - 1], lines[k])
  <2>1. f[k] = IF k = 0 THEN <<>> ELSE step[<<k, f[k - 1]>>]
    BY <1>4 DEF Loops
  <2>2. CASE k # 0
    <3>1. k \in 1..n /\ f[k - 1] \in Y
      BY <2>2
    <3> QED
      BY <1>1, <2>1, <2>2, <3>1
  <2> QED
    BY <2>1, <2>2
<1>6. f = [k \in 0..n |-> f[k]]
  OBVIOUS
<1>7. PiecesLoop(f, lines, n)
  BY <1>5, <1>6 DEF PiecesLoop
<1> QED
  BY <1>7

(* The pieces hold every line, in order.                                   *)
LEMMA PiecesAre ==
  ASSUME NEW L, NEW lines \in Seq(L)
  PROVE  Pieces(lines) \in Seq(Seq(L)) /\ FlattenSeq(Pieces(lines)) = lines
<1> DEFINE n == Len(lines)
           Q(f) == PiecesLoop(f, lines, n)
           f == CHOOSE upTo : Q(upTo)
<1>1. n \in Nat /\ lines \in [1..n -> L]
  OBVIOUS
<1>2. Pieces(lines) = f[n]
  BY Zenon DEF Pieces, PiecesLoop
<1>3. PiecesLoop(f, lines, n)
  <2>1. \E h : Q(h)
    BY <1>1, PiecesLoopExists
  <2> HIDE DEF Q
  <2>2. Q(f)
    BY <2>1, Zenon
  <2> QED
    BY <2>2 DEF Q
<1> HIDE DEF f, Q
<1> DEFINE a(i) == IF i = 0 THEN <<>> ELSE AddLine(f[i - 1], lines[i])
<1>4. \A i \in 0..n : f[i] = a(i)
  <2>1. f = [i \in 0..n |-> a(i)]
    BY <1>3, Zenon DEF PiecesLoop
  <2> HIDE DEF a, n
  <2> QED
    BY <2>1
<1>5. f[0] = <<>>
  <2>1. 0 \in 0..n
    BY <1>1
  <2> QED
    BY <1>4, <2>1
<1>6. \A i \in 1..n : f[i] = AddLine(f[i - 1], lines[i])
  <2> TAKE i \in 1..n
  <2>1. i \in 0..n /\ i # 0
    BY <1>1
  <2> QED
    BY <1>4, <2>1
<1> HIDE DEF a
<1> DEFINE P(k) == f[k] \in Seq(Seq(L)) /\ FlattenSeq(f[k]) = Start(lines, k)
           G == {k \in 0..n : P(k)}
<1>7. P(0)
  BY <1>5, FlattenNone, EmptySeq, Starts
<1>8. ASSUME NEW k \in 1..n, P(k - 1) PROVE P(k)
  <2>1. lines[k] \in L
    BY <1>1
  <2>2. AddLine(f[k - 1], lines[k]) \in Seq(Seq(L))
    BY <1>8, <2>1, LineIsLast
  <2>3. FlattenSeq(AddLine(f[k - 1], lines[k])) = Append(Start(lines, k - 1), lines[k])
    BY <1>8, <2>1, LineIsLast
  <2> QED
    BY <1>6, <2>2, <2>3, Starts
<1> HIDE DEF P
<1>9. 0..n \subseteq G
  <2>1. 0 \in G
    BY <1>1, <1>7
  <2>2. \A k \in 1..n : k - 1 \in G => k \in G
    BY <1>1, <1>8
  <2> HIDE DEF G
  <2> QED
    BY <1>1, <2>1, <2>2, Climb
<1>10. P(n)
  BY <1>1, <1>9
<1>11. Start(lines, n) = lines
  BY Starts
<1> QED
  BY <1>2, <1>10, <1>11 DEF P

-----------------------------------------------------------------------------
(* How long a piece is.                                                    *)

HasLengths(L) == \A l \in L : l.chars \in Nat

CharsLoop(f, piece, n) == f = [i \in 0..n |-> IF i = 0 THEN 0 ELSE f[i - 1] + piece[i].chars]
CharsSteps(f, piece, n) ==
  f[0] = 0 /\ \A i \in 1..n : f[i] = f[i - 1] + piece[i].chars /\ f[i - 1] \in Nat /\ f[i] \in Nat

LEMMA CharsLoopExists ==
  ASSUME NEW L, HasLengths(L), NEW n \in Nat, NEW piece \in [1..n -> L]
  PROVE  \E f : CharsLoop(f, piece, n)
<1> DEFINE step == [q \in (1..n) \X Nat |-> q[2] + piece[q[1]].chars]
<1>1. \A k \in 1..n, s \in Nat : step[<<k, s>>] = s + piece[k].chars
  OBVIOUS
<1>2. step \in [(1..n) \X Nat -> Nat]
  <2>1. \A k \in 1..n : piece[k].chars \in Nat
    BY DEF HasLengths
  <2>2. \A k \in 1..n, s \in Nat : s + piece[k].chars \in Nat
    BY <2>1
  <2> QED
    BY <2>2
<1> HIDE DEF step
<1>4. PICK f \in [0..n -> Nat] : Loops(f, n, 0, step)
  BY <1>2, LoopExists
<1>5. ASSUME NEW k \in 0..n PROVE f[k] = IF k = 0 THEN 0 ELSE f[k - 1] + piece[k].chars
  <2>1. f[k] = IF k = 0 THEN 0 ELSE step[<<k, f[k - 1]>>]
    BY <1>4 DEF Loops
  <2>2. CASE k # 0
    <3>1. k \in 1..n /\ f[k - 1] \in Nat
      BY <2>2
    <3> QED
      BY <1>1, <2>1, <2>2, <3>1
  <2> QED
    BY <2>1, <2>2
<1>6. f = [k \in 0..n |-> f[k]]
  OBVIOUS
<1>7. CharsLoop(f, piece, n)
  BY <1>5, <1>6 DEF CharsLoop
<1> QED
  BY <1>7

LEMMA CharsAre ==
  ASSUME NEW L, HasLengths(L), NEW piece \in Seq(L), NEW n, n = Len(piece)
  PROVE  \E f : CharsSteps(f, piece, n) /\ Chars(piece) = f[n] /\ f[n] \in Nat
<1> DEFINE Q(f) == CharsLoop(f, piece, Len(piece))
           f == CHOOSE upTo : Q(upTo)
<1>1. n \in Nat /\ piece \in [1..n -> L]
  OBVIOUS
<1>2. Chars(piece) = f[Len(piece)]
  BY Zenon DEF Chars, CharsLoop
<1>3. CharsLoop(f, piece, n)
  <2>1. \E h : Q(h)
    BY <1>1, CharsLoopExists
  <2> HIDE DEF Q
  <2>2. Q(f)
    BY <2>1, Zenon
  <2> QED
    BY <2>2 DEF Q
<1> HIDE DEF f, Q
<1> DEFINE a(i) == IF i = 0 THEN 0 ELSE f[i - 1] + piece[i].chars
<1>4. \A i \in 0..n : f[i] = a(i)
  <2>1. f = [i \in 0..n |-> a(i)]
    BY <1>3, Zenon DEF CharsLoop
  <2> HIDE DEF a
  <2> QED
    BY <2>1
<1>5. f[0] = 0
  <2>1. 0 \in 0..n
    BY <1>1
  <2> QED
    BY <1>4, <2>1
<1>6. \A i \in 1..n : f[i] = f[i - 1] + piece[i].chars
  <2> TAKE i \in 1..n
  <2>1. i \in 0..n /\ i # 0
    BY <1>1
  <2> QED
    BY <1>4, <2>1
<1> HIDE DEF a
<1>7. \A i \in 1..n : piece[i].chars \in Nat
  BY <1>1 DEF HasLengths
<1>8. \A k \in 0..n : f[k] \in Nat
  <2> DEFINE G == {k \in 0..n : f[k] \in Nat}
  <2>1. 0 \in G
    BY <1>1, <1>5
  <2>2. \A k \in 1..n : k - 1 \in G => k \in G
    BY <1>1, <1>6, <1>7
  <2>3. \A k \in G : f[k] \in Nat
    OBVIOUS
  <2> HIDE DEF G
  <2>4. 0..n \subseteq G
    BY <1>1, <2>1, <2>2, Climb
  <2> QED
    BY <2>3, <2>4
<1>9. CharsSteps(f, piece, n)
  <2>1. \A i \in 1..n : i \in 0..n /\ i - 1 \in 0..n
    BY <1>1
  <2> QED
    BY <1>5, <1>6, <1>8, <2>1 DEF CharsSteps
<1>10. n \in 0..n
  BY <1>1
<1> QED
  BY <1>2, <1>8, <1>9, <1>10

(* Nothing gets shorter by what is joined to it.                           *)
LEMMA JoinedIsLonger ==
  ASSUME NEW L, HasLengths(L), NEW p \in Seq(L), NEW q \in Seq(L)
  PROVE  Chars(p) \in Nat /\ Chars(p \o q) \in Nat /\ Chars(p) <= Chars(p \o q)
<1>1. PICK n \in Nat : n = Len(p)
  OBVIOUS
<1>2. PICK m \in Nat : m = Len(p) + Len(q)
  OBVIOUS
<1>3. PICK w \in Seq(L) : w = p \o q
  BY ConcatProperties
<1>4. Len(w) = m /\ n <= m /\ \A i \in 1..n : w[i] = p[i]
  BY <1>1, <1>2, <1>3, ConcatProperties
<1>5. PICK f : CharsSteps(f, p, n) /\ Chars(p) = f[n] /\ f[n] \in Nat
  BY <1>1, CharsAre
<1>6. PICK g : CharsSteps(g, w, m) /\ Chars(w) = g[m] /\ g[m] \in Nat
  BY <1>4, CharsAre
<1>7. /\ \A i \in 1..m : w[i].chars \in Nat
      /\ \A i \in 1..m : g[i] = g[i - 1] + w[i].chars /\ g[i - 1] \in Nat /\ g[i] \in Nat
      /\ g[0] = 0
  BY <1>4, <1>6 DEF CharsSteps, HasLengths
<1>8. f[0] = 0 /\ \A i \in 1..n : f[i] = f[i - 1] + p[i].chars
  BY <1>5 DEF CharsSteps
<1> DEFINE P(k) == IF k <= n THEN g[k] = f[k] ELSE g[k] >= f[n]
           G == {k \in 0..m : P(k)}
<1>9. P(0)
  BY <1>7, <1>8
<1>10. ASSUME NEW k \in 1..m, P(k - 1) PROVE P(k)
  <2>1. CASE k <= n
    <3>1. k \in 1..n /\ g[k - 1] = f[k - 1] /\ w[k] = p[k]
      BY <1>4, <1>10, <2>1
    <3>2. g[k] = g[k - 1] + w[k].chars /\ f[k] = f[k - 1] + p[k].chars
      BY <1>7, <1>8, <3>1
    <3> QED
      BY <2>1, <3>1, <3>2
  <2>2. CASE ~(k <= n)
    <3>1. g[k - 1] >= f[n]
      <4>1. CASE k - 1 = n
        <5>1. g[k - 1] = f[k - 1]
          BY <1>10, <4>1
        <5> QED
          BY <1>5, <4>1, <5>1
      <4>2. CASE k - 1 # n
        BY <1>10, <2>2, <4>2
      <4> QED
        BY <4>1, <4>2
    <3>2. g[k] = g[k - 1] + w[k].chars /\ g[k - 1] \in Nat /\ w[k].chars \in Nat
      BY <1>7
    <3>3. g[k] >= f[n]
      BY <1>5, <3>1, <3>2
    <3> QED
      BY <2>2, <3>3
  <2> QED
    BY <2>1, <2>2
<1> HIDE DEF P
<1>11. 0..m \subseteq G
  <2>1. 0 \in G
    BY <1>9
  <2>2. \A k \in 1..m : k - 1 \in G => k \in G
    BY <1>10
  <2> HIDE DEF G
  <2> QED
    BY <2>1, <2>2, Climb
<1>12. P(m)
  BY <1>11
<1>13. g[m] >= f[n]
  BY <1>4, <1>5, <1>6, <1>12 DEF P
<1> QED
  BY <1>3, <1>5, <1>6, <1>13

-----------------------------------------------------------------------------
(* Pieces joined until they are long enough.                               *)

Joining(L) == [done : Seq(Seq(L)), buf : Seq(L)]
HeldBy(acc) == FlattenSeq(acc.done) \o acc.buf
LongEnough(done, least) == \A i \in DOMAIN done : Chars(done[i]) >= least

LEMMA PieceIsLast ==
  ASSUME NEW L, NEW acc \in Joining(L), NEW piece \in Seq(L), NEW least
  PROVE  /\ AddPiece(acc, piece, least) \in Joining(L)
         /\ HeldBy(AddPiece(acc, piece, least)) = HeldBy(acc) \o piece
         /\ LongEnough(acc.done, least) => LongEnough(AddPiece(acc, piece, least).done, least)
<1>1. PICK done \in Seq(Seq(L)), buf \in Seq(L) : acc = [done |-> done, buf |-> buf]
  BY DEF Joining
<1>2. acc.done = done /\ acc.buf = buf
  BY <1>1
<1>3. PICK both \in Seq(L) : both = buf \o piece
  BY ConcatProperties
<1>4. PICK a \in Seq(L) : a = FlattenSeq(done)
  BY FlattenType
<1>5. (a \o buf) \o piece = a \o (buf \o piece)
  BY ConcatAssociative
<1>6. CASE Chars(both) >= least
  <2>1. PICK more \in Seq(Seq(L)) : more = Append(done, both)
    BY AppendProperties
  <2>2. AddPiece(acc, piece, least) = [done |-> more, buf |-> <<>>]
    BY <1>2, <1>3, <1>6, <2>1 DEF AddPiece
  <2>3. FlattenSeq(more) = a \o both
    BY <1>4, <2>1, FlattenAppend
  <2>4. FlattenSeq(more) \in Seq(L)
    BY FlattenType
  <2>5. FlattenSeq(more) \o <<>> = FlattenSeq(more)
    BY <2>4, ConcatEmptySeq
  <2>6. ASSUME LongEnough(done, least) PROVE LongEnough(more, least)
    <3>1. Len(more) = Len(done) + 1 /\ Len(done) \in Nat /\ more[Len(done) + 1] = both
          /\ \A i \in 1..Len(done) : more[i] = done[i]
      BY <2>1, AppendProperties
    <3>2. DOMAIN more = 1..Len(more) /\ DOMAIN done = 1..Len(done)
      OBVIOUS
    <3>3. \A i \in 1..Len(more) : i = Len(done) + 1 \/ i \in 1..Len(done)
      BY <3>1
    <3> QED
      BY <1>6, <2>6, <3>1, <3>2, <3>3 DEF LongEnough
  <2>7. <<>> \in Seq(L)
    BY EmptySeq
  <2> QED
    BY <1>2, <1>3, <1>4, <1>5, <2>2, <2>3, <2>5, <2>6, <2>7 DEF Joining, HeldBy
<1>7. CASE ~(Chars(both) >= least)
  <2>1. AddPiece(acc, piece, least) = [done |-> done, buf |-> both]
    BY <1>1, <1>2, <1>3, <1>7 DEF AddPiece
  <2> QED
    BY <1>2, <1>3, <1>4, <1>5, <2>1 DEF Joining, HeldBy
<1> QED
  BY <1>6, <1>7

JoinLoop(f, pieces, least, n) ==
  f = [i \in 0..n |-> IF i = 0 THEN [done |-> <<>>, buf |-> <<>>]
                      ELSE AddPiece(f[i - 1], pieces[i], least)]

LEMMA JoinLoopExists ==
  ASSUME NEW L, NEW n \in Nat, NEW pieces \in [1..n -> Seq(L)], NEW least
  PROVE  \E f : JoinLoop(f, pieces, least, n)
<1> DEFINE Y == Joining(L)
           none == [done |-> <<>>, buf |-> <<>>]
           step == [q \in (1..n) \X Y |-> AddPiece(q[2], pieces[q[1]], least)]
<1>1. \A k \in 1..n, s \in Y : step[<<k, s>>] = AddPiece(s, pieces[k], least)
  OBVIOUS
<1>2. step \in [(1..n) \X Y -> Y]
  <2>1. \A k \in 1..n, s \in Y : AddPiece(s, pieces[k], least) \in Y
    BY PieceIsLast
  <2> QED
    BY <2>1
<1>3. none \in Y
  BY EmptySeq DEF Joining
<1> HIDE DEF step, Y, none
<1>4. PICK f \in [0..n -> Y] : Loops(f, n, none, step)
  BY <1>2, <1>3, LoopExists
<1>5. ASSUME NEW k \in 0..n PROVE f[k] = IF k = 0 THEN none ELSE AddPiece(f[k - 1], pieces[k], least)
  <2>1. f[k] = IF k = 0 THEN none ELSE step[<<k, f[k - 1]>>]
    BY <1>4 DEF Loops
  <2>2. CASE k # 0
    <3>1. k \in 1..n /\ f[k - 1] \in Y
      BY <2>2
    <3> QED
      BY <1>1, <2>1, <2>2, <3>1
  <2> QED
    BY <2>1, <2>2
<1>6. f = [k \in 0..n |-> f[k]]
  OBVIOUS
<1>7. JoinLoop(f, pieces, least, n)
  BY <1>5, <1>6 DEF JoinLoop, none
<1> QED
  BY <1>7

(* The chunks made and what is left over hold every piece, in order.       *)
LEMMA JoinedSoFar ==
  ASSUME NEW L, NEW pieces \in Seq(Seq(L)), NEW least
  PROVE  /\ AddPieces(pieces, least) \in Joining(L)
         /\ FlattenSeq(AddPieces(pieces, least).done) \o AddPieces(pieces, least).buf = FlattenSeq(pieces)
         /\ LongEnough(AddPieces(pieces, least).done, least)
<1> DEFINE n == Len(pieces)
           Q(f) == JoinLoop(f, pieces, least, n)
           f == CHOOSE upTo : Q(upTo)
<1>1. n \in Nat /\ pieces \in [1..n -> Seq(L)]
  OBVIOUS
<1>2. AddPieces(pieces, least) = f[n]
  BY Zenon DEF AddPieces, JoinLoop
<1>3. JoinLoop(f, pieces, least, n)
  <2>1. \E h : Q(h)
    BY <1>1, JoinLoopExists
  <2> HIDE DEF Q
  <2>2. Q(f)
    BY <2>1, Zenon
  <2> QED
    BY <2>2 DEF Q
<1> HIDE DEF f, Q
<1> DEFINE a(i) == IF i = 0 THEN [done |-> <<>>, buf |-> <<>>] ELSE AddPiece(f[i - 1], pieces[i], least)
<1>4. \A i \in 0..n : f[i] = a(i)
  <2>1. f = [i \in 0..n |-> a(i)]
    BY <1>3, Zenon DEF JoinLoop
  <2> HIDE DEF a, n
  <2> QED
    BY <2>1
<1>5. f[0] = [done |-> <<>>, buf |-> <<>>]
  <2>1. 0 \in 0..n
    BY <1>1
  <2> QED
    BY <1>4, <2>1
<1>6. \A i \in 1..n : f[i] = AddPiece(f[i - 1], pieces[i], least)
  <2> TAKE i \in 1..n
  <2>1. i \in 0..n /\ i # 0
    BY <1>1
  <2> QED
    BY <1>4, <2>1
<1> HIDE DEF a
<1>7. PICK g : AllSteps(g, pieces, n, L) /\ FlattenSeq(pieces) = g[n]
  BY FlattenIs
<1>8. g[0] = <<>> /\ \A i \in 1..n : g[i] = g[i - 1] \o pieces[i]
  BY <1>7 DEF AllSteps
<1> DEFINE P(k) == /\ f[k] \in Joining(L)
                   /\ HeldBy(f[k]) = g[k]
                   /\ LongEnough(f[k].done, least)
           G == {k \in 0..n : P(k)}
<1>9. P(0)
  <2>1. <<>> \o <<>> = <<>>
    BY EmptySeq, ConcatEmptySeq
  <2>2. f[0].done = <<>> /\ f[0].buf = <<>>
    BY <1>5
  <2>3. f[0] \in Joining(L)
    BY <1>5, EmptySeq DEF Joining
  <2>4. LongEnough(<<>>, least)
    BY DEF LongEnough
  <2> QED
    BY <1>8, <2>1, <2>2, <2>3, <2>4, FlattenNone DEF HeldBy
<1>10. ASSUME NEW k \in 1..n, P(k - 1) PROVE P(k)
  <2>1. PICK acc \in Joining(L) : acc = f[k - 1]
    BY <1>10
  <2>2. PICK piece \in Seq(L) : piece = pieces[k]
    BY <1>1
  <2>3. PICK r : r = AddPiece(acc, piece, least)
    OBVIOUS
  <2>4. r \in Joining(L) /\ HeldBy(r) = HeldBy(acc) \o piece
        /\ (LongEnough(acc.done, least) => LongEnough(r.done, least))
    BY <2>1, <2>2, <2>3, PieceIsLast
  <2>5. f[k] = r
    BY <1>6, <2>1, <2>2, <2>3
  <2>6. HeldBy(acc) = g[k - 1] /\ LongEnough(acc.done, least)
    BY <1>10, <2>1
  <2>7. g[k] = g[k - 1] \o piece
    BY <1>8, <2>2
  <2> QED
    BY <2>4, <2>5, <2>6, <2>7
<1> HIDE DEF P
<1>11. 0..n \subseteq G
  <2>1. 0 \in G
    BY <1>1, <1>9
  <2>2. \A k \in 1..n : k - 1 \in G => k \in G
    BY <1>1, <1>10
  <2> HIDE DEF G
  <2> QED
    BY <1>1, <2>1, <2>2, Climb
<1>12. P(n)
  BY <1>1, <1>11
<1> QED
  BY <1>2, <1>7, <1>12 DEF P, HeldBy

(* What is left over goes to the end of the last chunk.                    *)
JoinsLast(front, last, buf, l, done) ==
  /\ WithLast(done, l) = Append(front, l)
  /\ FlattenSeq(Append(front, l)) = FlattenSeq(done) \o buf

LEMMA RestJoinsLast ==
  ASSUME NEW L, NEW front \in Seq(Seq(L)), NEW last \in Seq(L), NEW buf \in Seq(L)
  PROVE  JoinsLast(front, last, buf, last \o buf, Append(front, last))
<1>1. PICK b \in Seq(L) : b = FlattenSeq(front)
  BY FlattenType
<1>2. (b \o last) \o buf = b \o (last \o buf)
  BY <1>1, ConcatAssociative
<1>3. PICK l \in Seq(L) : l = last \o buf
  BY ConcatProperties
<1>4. PICK done : done = Append(front, last)
  OBVIOUS
<1>5. WithLast(done, l) = Append(front, l)
  BY <1>3, <1>4, LastReplaced
<1>6. FlattenSeq(Append(front, l)) = FlattenSeq(front) \o l
  BY <1>3, FlattenAppend
<1>7. FlattenSeq(done) = FlattenSeq(front) \o last
  BY <1>4, FlattenAppend
<1> QED
  BY <1>1, <1>2, <1>3, <1>4, <1>5, <1>6, <1>7 DEF JoinsLast

(* Whatever lines a document has and however long a chunk is to be, the    *)
(* chunks hold every line, in order, and of several none is short          *)
(* (rag/chunkers.py).                                                      *)
THEOREM NoLineIsLost ==
  ASSUME NEW L, HasLengths(L), NEW lines \in Seq(L), NEW least \in Int
  PROVE  LinesAreCovered(lines, least)
<1> DEFINE pieces == Pieces(lines)
           r == AddPieces(pieces, least)
           chunks == MergePieces(pieces, least)
<1>1. pieces \in Seq(Seq(L)) /\ FlattenSeq(pieces) = lines
  BY PiecesAre
<1> HIDE DEF pieces
<1>2. r \in Joining(L) /\ FlattenSeq(r.done) \o r.buf = lines /\ LongEnough(r.done, least)
  BY <1>1, JoinedSoFar
<1>3. chunks = IF r.buf = <<>> THEN r.done
               ELSE IF r.done = <<>> THEN <<r.buf>>
               ELSE [r.done EXCEPT ![Len(r.done)] = @ \o r.buf]
  BY DEF MergePieces
<1> HIDE DEF r, chunks
<1>4. PICK done \in Seq(Seq(L)), buf \in Seq(L) : r = [done |-> done, buf |-> buf]
  BY <1>2 DEF Joining
<1>5. /\ FlattenSeq(done) \o buf = lines /\ LongEnough(done, least)
      /\ chunks = IF buf = <<>> THEN done
                  ELSE IF done = <<>> THEN <<buf>>
                  ELSE [done EXCEPT ![Len(done)] = @ \o buf]
  BY <1>2, <1>3, <1>4
<1>6. PICK a \in Seq(L) : a = FlattenSeq(done)
  BY <1>4, FlattenType
<1>7. CASE buf = <<>>
  <2>1. a \o <<>> = a
    BY <1>6, ConcatEmptySeq
  <2>2. chunks = done /\ FlattenSeq(done) = lines
    BY <1>5, <1>6, <1>7, <2>1
  <2>3. \A i \in DOMAIN chunks : Chars(chunks[i]) >= least
    BY <1>5, <2>2 DEF LongEnough
  <2> QED
    BY <2>2, <2>3 DEF LinesAreCovered, chunks, pieces
<1>8. CASE buf # <<>> /\ done = <<>>
  <2>1. chunks = <<buf>> /\ Len(chunks) = 1
    BY <1>5, <1>8
  <2>2. <<>> \in Seq(Seq(L)) /\ Append(<<>>, buf) = <<buf>>
    BY EmptySeq
  <2>3. FlattenSeq(Append(<<>>, buf)) = FlattenSeq(<<>>) \o buf
    BY <1>4, <2>2, FlattenAppend
  <2>4. FlattenSeq(chunks) = lines
    BY <1>5, <1>8, <2>1, <2>2, <2>3
  <2>5. ~(Len(chunks) > 1)
    BY <2>1
  <2> QED
    BY <2>4, <2>5 DEF LinesAreCovered, chunks, pieces
<1>9. CASE buf # <<>> /\ done # <<>>
  <2>1. PICK front \in Seq(Seq(L)), last \in Seq(L) : done = Append(front, last)
    BY <1>4, <1>9, SequenceEmptyOrAppend
  <2>2. PICK l \in Seq(L) : l = last \o buf
    BY <1>4, <2>1, ConcatProperties
  <2>3. done[Len(done)] = last
    BY <2>1, AppendProperties
  <2>4. chunks = [done EXCEPT ![Len(done)] = l]
    BY <1>5, <1>9, <2>2, <2>3
  <2>5. JoinsLast(front, last, buf, l, done)
    BY <1>4, <2>1, <2>2, RestJoinsLast
  <2>6. chunks = Append(front, l) /\ FlattenSeq(chunks) = lines
    BY <1>5, <2>4, <2>5 DEF JoinsLast, WithLast
  <2>7. /\ Len(done) = Len(front) + 1 /\ Len(front) \in Nat /\ Len(chunks) = Len(front) + 1
        /\ \A i \in 1..Len(front) : chunks[i] = front[i] /\ done[i] = front[i]
        /\ chunks[Len(front) + 1] = l /\ done[Len(front) + 1] = last
    BY <2>1, <2>2, <2>6, AppendProperties
  <2>8. /\ DOMAIN done = 1..(Len(front) + 1) /\ DOMAIN chunks = 1..(Len(front) + 1)
    <3>1. Append(front, l) \in Seq(Seq(L))
      BY <2>1, <2>2, AppendProperties
    <3> QED
      BY <1>4, <2>6, <2>7, <3>1
  <2>9. Chars(l) >= least
    <3>1. Chars(last) \in Nat /\ Chars(last \o buf) \in Nat /\ Chars(last) <= Chars(last \o buf)
      BY <1>4, <2>1, JoinedIsLonger
    <3>2. Chars(last) >= least
      <4>1. Len(front) + 1 \in DOMAIN done
        BY <2>7, <2>8
      <4>2. \A i \in DOMAIN done : Chars(done[i]) >= least
        BY <1>5 DEF LongEnough
      <4>3. done[Len(front) + 1] = last
        BY <2>7
      <4> QED
        BY <4>1, <4>2, <4>3
    <3>3. Chars(l) = Chars(last \o buf)
      BY <2>2
    <3> HIDE DEF HasLengths
    <3> QED
      BY <3>1, <3>2, <3>3
  <2>10. \A i \in 1..Len(front) : Chars(chunks[i]) >= least
    <3>1. \A i \in 1..Len(front) : i \in DOMAIN done /\ chunks[i] = done[i]
      BY <2>7, <2>8
    <3> QED
      BY <1>5, <3>1 DEF LongEnough
  <2>11. \A i \in DOMAIN chunks : Chars(chunks[i]) >= least
    <3>1. \A i \in DOMAIN chunks : i \in 1..Len(front) \/ i = Len(front) + 1
      BY <2>7, <2>8
    <3> QED
      BY <2>7, <2>9, <2>10, <3>1
  <2> QED
    BY <2>6, <2>11 DEF LinesAreCovered, chunks, pieces
<1> QED
  BY <1>7, <1>8, <1>9

(* The same of the texts asked about, of any length, cut at any size.      *)
THEOREM NothingOfTheTextIsLost ==
  ASSUME NEW L, HasLengths(L),
         question = "windows" => input.n \in Nat /\ input.size \in Int /\ input.overlap \in Int,
         question = "lines" => input.lines \in Seq(L) /\ input.least \in Int
  PROVE  ChunksCoverTheText
<1>1. ASSUME question = "windows" PROVE WordsAreCovered(input.n, input.size, input.overlap)
  BY <1>1, NoWordIsLost
<1>2. ASSUME question = "lines" PROVE LinesAreCovered(input.lines, input.least)
  BY <1>2, NoLineIsLost
<1> QED
  BY <1>1, <1>2 DEF ChunksCoverTheText

-----------------------------------------------------------------------------
(* Skills.                                                                 *)

IsTree(tree, N, depth) == DOMAIN tree \subseteq Seq(N) /\ \A p \in DOMAIN tree : Len(p) <= depth
BelowAll(b, tree, order, known) ==
  b = [path \in DOMAIN tree \union {<<>>} |-> Children(tree, order, known, b, path)]

(* What is found below a directory depends on what is found below those in *)
(* it.                                                                     *)
LEMMA ChildrenAre ==
  ASSUME NEW tree, NEW N, NEW order \in Seq(N), NEW known, NEW b, NEW path,
         \A i \in DOMAIN order : Append(path, order[i]) \in DOMAIN tree
                                   => b[Append(path, order[i])] \in Seq(DOMAIN tree)
  PROVE  Children(tree, order, known, b, path) \in Seq(DOMAIN tree)
<1> DEFINE T == DOMAIN tree
           v == [i \in DOMAIN order |-> Visited(tree, known, b, Append(path, order[i]))]
<1>1. ASSUME NEW i \in DOMAIN order PROVE v[i] \in Seq(T)
  <2> DEFINE q == Append(path, order[i])
  <2>1. v[i] = Visited(tree, known, b, q)
    OBVIOUS
  <2>2. q \in T => b[q] \in Seq(T)
    OBVIOUS
  <2> HIDE DEF q, v
  <2>3. CASE q \notin T
    <3>1. Visited(tree, known, b, q) = <<>>
      BY <2>3 DEF Visited
    <3> QED
      BY <2>1, <3>1, EmptySeq
  <2>4. CASE q \in T
    <3>0. <<q>> \in Seq(T)
      BY <2>4
    <3>1. PICK s \in Seq(T), one \in Seq(T) : s = b[q] /\ one = <<q>>
      BY <2>2, <2>4, <3>0
    <3>2. one \o s \in Seq(T)
      BY <3>1, ConcatProperties
    <3>3. Visited(tree, known, b, q) \in {<<>>, one, one \o s}
      BY <2>4, <3>1 DEF Visited
    <3> QED
      BY <2>1, <3>1, <3>2, <3>3, EmptySeq
  <2> QED
    BY <2>3, <2>4
<1>2. DOMAIN order = 1..Len(order) /\ Len(order) \in Nat
  OBVIOUS
<1>3. Children(tree, order, known, b, path) = FlattenSeq(v)
  BY DEF Children
<1>4. v \in Seq(Seq(T))
  <2>1. v \in [1..Len(order) -> Seq(T)]
    <3>1. v = [i \in 1..Len(order) |-> v[i]]
      BY <1>2
    <3> HIDE DEF v
    <3> QED
      BY <1>1, <1>2, <3>1
  <2> HIDE DEF v
  <2> QED
    BY <1>2, <2>1
<1> HIDE DEF v
<1> QED
  BY <1>3, <1>4, FlattenType

LEMMA SameChildren ==
  ASSUME NEW tree, NEW N, NEW order \in Seq(N), NEW known, NEW b, NEW c, NEW path,
         \A i \in DOMAIN order : Append(path, order[i]) \in DOMAIN tree
                                   => b[Append(path, order[i])] = c[Append(path, order[i])]
  PROVE  Children(tree, order, known, b, path) = Children(tree, order, known, c, path)
<1> DEFINE v == [i \in DOMAIN order |-> Visited(tree, known, b, Append(path, order[i]))]
           w == [i \in DOMAIN order |-> Visited(tree, known, c, Append(path, order[i]))]
<1>1. \A i \in DOMAIN order : Visited(tree, known, b, Append(path, order[i]))
                                = Visited(tree, known, c, Append(path, order[i]))
  BY DEF Visited
<1>2. v = w
  BY <1>1
<1> QED
  BY <1>2 DEF Children

(* As deep as the tree is, so often its levels are found.                  *)
LEMMA BelowExists ==
  ASSUME NEW N, NEW depth \in Nat, NEW tree, IsTree(tree, N, depth), NEW order \in Seq(N), NEW known
  PROVE  \E b : BelowAll(b, tree, order, known)
<1> DEFINE T == DOMAIN tree
           P == T \union {<<>>}
           Y == [P -> Seq(T)]
           Next1(b) == [path \in P |-> Children(tree, order, known, b, path)]
           none == [path \in P |-> <<>>]
           m == depth + 2
           step == [q \in (1..m) \X Y |-> Next1(q[2])]
<1>1. \A b \in Y : Next1(b) \in Y
  <2> SUFFICES ASSUME NEW b \in Y, NEW path \in P PROVE Children(tree, order, known, b, path) \in Seq(T)
    OBVIOUS
  <2>1. \A i \in DOMAIN order : Append(path, order[i]) \in T => b[Append(path, order[i])] \in Seq(T)
    OBVIOUS
  <2> HIDE DEF Y, P
  <2> QED
    BY <2>1, ChildrenAre
<1>2. none \in Y
  BY EmptySeq
<1>3. step \in [(1..m) \X Y -> Y] /\ \A k \in 1..m, b \in Y : step[<<k, b>>] = Next1(b)
  <2> HIDE DEF Y, Next1
  <2> QED
    BY <1>1
<1>4. m \in Nat
  OBVIOUS
<1>5. \A b \in Y, path \in P : Next1(b)[path] = Children(tree, order, known, b, path)
  OBVIOUS
<1>6. \A p \in P : p \in Seq(N) /\ Len(p) \in Nat /\ Len(p) <= depth
  <2>1. <<>> \in Seq(N) /\ Len(<<>>) = 0
    BY EmptySeq
  <2>2. \A p \in T : p \in Seq(N) /\ Len(p) <= depth
    BY DEF IsTree
  <2>3. \A p \in Seq(N) : Len(p) \in Nat
    BY LenProperties
  <2> TAKE p \in P
  <2>4. CASE p \in T
    BY <2>2, <2>3, <2>4
  <2>5. CASE p = <<>>
    BY <2>1, <2>5
  <2> HIDE DEF T
  <2> QED
    BY <2>4, <2>5
<1> HIDE DEF Y, Next1, none, step
<1>7. PICK f \in [0..m -> Y] : Loops(f, m, none, step)
  <2> HIDE DEF m
  <2> QED
    BY <1>2, <1>3, <1>4, LoopExists
<1>8. \A k \in 1..m : f[k] = Next1(f[k - 1]) /\ f[k - 1] \in Y /\ f[k] \in Y
  <2> TAKE k \in 1..m
  <2>1. k \in 0..m /\ k - 1 \in 0..m /\ k # 0
    OBVIOUS
  <2>2. f[k] = IF k = 0 THEN none ELSE step[<<k, f[k - 1]>>]
    BY <1>7, <2>1 DEF Loops
  <2> HIDE DEF m
  <2> QED
    BY <1>3, <1>7, <2>1, <2>2
<1> DEFINE Done(k) == \A p \in P : Len(p) + k > depth + 1 => Children(tree, order, known, f[k], p) = f[k][p]
           G == {k \in 0..m : Done(k)}
<1>9. Done(0)
  BY <1>6
<1>10. ASSUME NEW k \in 1..m, Done(k - 1) PROVE Done(k)
  <2> SUFFICES ASSUME NEW p \in P, Len(p) + k > depth + 1
               PROVE  Children(tree, order, known, f[k], p) = f[k][p]
    OBVIOUS
  <2>1. f[k][p] = Children(tree, order, known, f[k - 1], p)
    BY <1>5, <1>8
  <2>2. ASSUME NEW i \in DOMAIN order, Append(p, order[i]) \in T
        PROVE  f[k][Append(p, order[i])] = f[k - 1][Append(p, order[i])]
    <3>1. PICK q \in P : q = Append(p, order[i])
      BY <2>2
    <3>2. p \in Seq(N) /\ order[i] \in N
      BY <1>6
    <3>3. Len(q) = Len(p) + 1 /\ Len(p) \in Nat
      BY <1>6, <3>1, <3>2, AppendProperties
    <3>4. Len(q) + (k - 1) > depth + 1
      BY <3>3
    <3>5. Children(tree, order, known, f[k - 1], q) = f[k - 1][q]
      BY <1>10, <3>1, <3>4
    <3>6. f[k][q] = Children(tree, order, known, f[k - 1], q)
      BY <1>5, <1>8, <3>1
    <3> QED
      BY <3>1, <3>5, <3>6
  <2>3. Children(tree, order, known, f[k], p) = Children(tree, order, known, f[k - 1], p)
    BY <2>2, SameChildren
  <2> QED
    BY <2>1, <2>3
<1>11. Done(m)
  <2> HIDE DEF Done, m
  <2>1. 0 \in G
    BY <1>4, <1>9
  <2>2. \A k \in 1..m : k - 1 \in G => k \in G
    BY <1>4, <1>10
  <2>3. 0..m \subseteq G
    <3> HIDE DEF G
    <3> QED
      BY <1>4, <2>1, <2>2, Climb
  <2> QED
    BY <1>4, <2>3
<1>12. \A p \in P : f[m][p] = Children(tree, order, known, f[m], p)
  BY <1>6, <1>11
<1>13. f[m] \in Y
  BY <1>7
<1>14. f[m] = [p \in P |-> Children(tree, order, known, f[m], p)]
  <2> HIDE DEF m
  <2>1. f[m] = [p \in P |-> f[m][p]]
    BY <1>13 DEF Y
  <2> QED
    BY <1>12, <2>1
<1> QED
  BY <1>14 DEF BelowAll

LEMMA WalkIs ==
  ASSUME NEW N, NEW depth \in Nat, NEW tree, IsTree(tree, N, depth), NEW order \in Seq(N), NEW known
  PROVE  Walk(tree, order, known) \in Seq(DOMAIN tree)
<1> DEFINE T == DOMAIN tree
           P == T \union {<<>>}
           Q(b) == BelowAll(b, tree, order, known)
           b == CHOOSE below : Q(below)
           m == depth + 2
<1>1. Walk(tree, order, known) = b[<<>>]
  BY Zenon DEF Walk, BelowAll
<1>2. BelowAll(b, tree, order, known)
  <2>1. \E c : Q(c)
    BY BelowExists
  <2> HIDE DEF Q
  <2>2. Q(b)
    BY <2>1, Zenon
  <2> QED
    BY <2>2 DEF Q
<1> HIDE DEF b, Q
<1>3. \A p \in P : b[p] = Children(tree, order, known, b, p)
  <2> DEFINE c(p) == Children(tree, order, known, b, p)
  <2>1. b = [p \in P |-> c(p)]
    BY <1>2, Zenon DEF BelowAll
  <2> HIDE DEF c, P
  <2>2. \A p \in P : b[p] = c(p)
    BY <2>1
  <2> QED
    BY <2>2 DEF c
<1>4. \A p \in P : p \in Seq(N) /\ Len(p) \in Nat /\ Len(p) <= depth
  <2>1. <<>> \in Seq(N) /\ Len(<<>>) = 0
    BY EmptySeq
  <2>2. \A p \in T : p \in Seq(N) /\ Len(p) <= depth
    BY DEF IsTree
  <2>3. \A p \in Seq(N) : Len(p) \in Nat
    BY LenProperties
  <2> TAKE p \in P
  <2>4. CASE p \in T
    BY <2>2, <2>3, <2>4
  <2>5. CASE p = <<>>
    BY <2>1, <2>5
  <2> HIDE DEF T
  <2> QED
    BY <2>4, <2>5
<1> DEFINE Typed(k) == \A p \in P : Len(p) + k > depth + 1 => b[p] \in Seq(T)
           G == {k \in 0..m : Typed(k)}
<1>5. Typed(0)
  BY <1>4
<1>6. ASSUME NEW k \in 1..m, Typed(k - 1) PROVE Typed(k)
  <2> SUFFICES ASSUME NEW p \in P, Len(p) + k > depth + 1 PROVE b[p] \in Seq(T)
    OBVIOUS
  <2>1. ASSUME NEW i \in DOMAIN order, Append(p, order[i]) \in T
        PROVE  b[Append(p, order[i])] \in Seq(T)
    <3>1. PICK q \in P : q = Append(p, order[i])
      BY <2>1
    <3>2. p \in Seq(N) /\ order[i] \in N
      BY <1>4
    <3>3. Len(q) = Len(p) + 1 /\ Len(p) \in Nat
      BY <1>4, <3>1, <3>2, AppendProperties
    <3>4. Len(q) + (k - 1) > depth + 1
      BY <3>3
    <3> QED
      BY <1>6, <3>1, <3>4
  <2>2. Children(tree, order, known, b, p) \in Seq(T)
    BY <2>1, ChildrenAre
  <2> QED
    BY <1>3, <2>2
<1>7. m \in Nat
  OBVIOUS
<1>8. Typed(m)
  <2> HIDE DEF Typed, m
  <2>1. 0 \in G
    BY <1>5, <1>7
  <2>2. \A k \in 1..m : k - 1 \in G => k \in G
    BY <1>6, <1>7
  <2>3. 0..m \subseteq G
    <3> HIDE DEF G
    <3> QED
      BY <1>7, <2>1, <2>2, Climb
  <2> QED
    BY <1>7, <2>3
<1>9. <<>> \in P /\ Len(<<>>) + m > depth + 1
  BY <1>4
<1>10. b[<<>>] \in Seq(T)
  BY <1>8, <1>9
<1> QED
  BY <1>1, <1>10

PartialMaps(D, V) == UNION {[S -> V] : S \in SUBSET D}
Accounts(E, D, V, Q) == [skills : PartialMaps(D, V), lists : PartialMaps(Q, Seq(E)), names : Seq(E)]
SkillAt(root, tree, path) == [at |-> <<root, path>>, tools |-> tree[path].tools]
TreeFits(root, tree, E, D, V, Q) ==
  \A p \in DOMAIN tree : /\ FoundAt(root, tree, p) \in E /\ tree[p].name \in D
                         /\ SkillAt(root, tree, p) \in V /\ p \in Q

(* What is shown of a name is what the name stands for.                    *)
NamesStand(acc) ==
  \A i \in DOMAIN acc.names :
    acc.names[i].kind = "skill" => /\ acc.names[i].name \in DOMAIN acc.skills
                                   /\ acc.skills[acc.names[i].name].at = acc.names[i].at

LEMMA OneMoreKey ==
  ASSUME NEW D, NEW V, NEW f \in PartialMaps(D, V), NEW d \in D, NEW v \in V
  PROVE  Put(f, d, v) \in PartialMaps(D, V)
<1>1. PICK S \in SUBSET D : f \in [S -> V]
  BY DEF PartialMaps
<1>2. Put(f, d, v) \in [S \union {d} -> V]
  BY <1>1 DEF Put
<1>3. S \union {d} \in SUBSET D
  BY <1>1
<1> QED
  BY <1>2, <1>3 DEF PartialMaps

LEMMA OneMoreListed ==
  ASSUME NEW Q, NEW E, NEW f \in PartialMaps(Q, Seq(E)), NEW q, NEW e \in E
  PROVE  [f EXCEPT ![q] = Append(@, e)] \in PartialMaps(Q, Seq(E))
<1>1. PICK S \in SUBSET Q : f \in [S -> Seq(E)]
  BY DEF PartialMaps
<1>2. \A x \in S : Append(f[x], e) \in Seq(E)
  <2> TAKE x \in S
  <2>1. f[x] \in Seq(E)
    BY <1>1
  <2> QED
    BY <2>1, AppendProperties
<1>3. [f EXCEPT ![q] = Append(@, e)] \in [S -> Seq(E)]
  BY <1>1, <1>2
<1> QED
  BY <1>1, <1>3 DEF PartialMaps

(* The first skill of a name takes it, and no other is shown by it.        *)
LEMMA NamesStillStand ==
  ASSUME NEW E, NEW D, NEW V, NEW Q, NEW root, NEW tree, TreeFits(root, tree, E, D, V, Q),
         NEW acc \in Accounts(E, D, V, Q), NEW path \in DOMAIN tree
  PROVE  /\ AddFound(acc, root, tree, path) \in Accounts(E, D, V, Q)
         /\ NamesStand(acc) => NamesStand(AddFound(acc, root, tree, path))
<1>1. PICK skills \in PartialMaps(D, V), lists \in PartialMaps(Q, Seq(E)), names \in Seq(E) :
        acc = [skills |-> skills, lists |-> lists, names |-> names]
  BY DEF Accounts
<1>2. acc.skills = skills /\ acc.lists = lists /\ acc.names = names
  BY <1>1
<1>3. PICK entry \in E : entry = FoundAt(root, tree, path)
  BY DEF TreeFits
<1>4. PICK name \in D : name = tree[path].name
  BY DEF TreeFits
<1>5. PICK skill \in V : skill = SkillAt(root, tree, path)
  BY DEF TreeFits
<1>6. path \in Q
  BY DEF TreeFits
<1>7. PICK listed \in PartialMaps(Q, Seq(E)) : listed = [lists EXCEPT ![Front(path)] = Append(@, entry)]
  BY <1>1, <1>3, OneMoreListed
<1>8. PICK longer \in Seq(E) : longer = Append(names, entry)
  BY <1>1, <1>3, AppendProperties
<1>9. /\ DOMAIN names = 1..Len(names) /\ DOMAIN longer = 1..(Len(names) + 1) /\ Len(names) \in Nat
      /\ longer[Len(names) + 1] = entry /\ \A i \in 1..Len(names) : longer[i] = names[i]
  BY <1>1, <1>3, <1>8, AppendProperties, LenProperties
<1>10. entry.kind = "skill" => entry.name = name /\ entry.at = <<root, path>>
  BY <1>3, <1>4 DEF FoundAt
<1>11. CASE entry.kind = "category"
  <2>1. PICK more : more = Put(listed, path, <<>>)
    OBVIOUS
  <2>0. more \in PartialMaps(Q, Seq(E))
    <3>1. <<>> \in Seq(E)
      BY EmptySeq
    <3> QED
      BY <1>6, <1>7, <2>1, <3>1, OneMoreKey
  <2>2. AddFound(acc, root, tree, path) = [skills |-> skills, lists |-> more, names |-> longer]
    BY <1>1, <1>2, <1>3, <1>7, <1>8, <1>11, <2>1 DEF AddFound
  <2>3. [skills |-> skills, lists |-> more, names |-> longer] \in Accounts(E, D, V, Q)
    BY <1>1, <1>8, <2>0 DEF Accounts
  <2>4. \A i \in 1..(Len(names) + 1) : longer[i].kind = "skill" => i \in 1..Len(names)
    BY <1>9, <1>11
  <2> QED
    BY <1>2, <1>9, <2>2, <2>3, <2>4 DEF NamesStand
<1>12. CASE entry.kind # "category" /\ name \in DOMAIN skills
  <2>1. AddFound(acc, root, tree, path) = acc
    BY <1>2, <1>3, <1>4, <1>12 DEF AddFound, Wins
  <2> QED
    BY <2>1
<1>13. CASE entry.kind # "category" /\ name \notin DOMAIN skills
  <2>1. PICK more : more = Put(skills, name, skill)
    OBVIOUS
  <2>0. more \in PartialMaps(D, V)
    BY <1>1, <1>4, <1>5, <2>1, OneMoreKey
  <2>2. AddFound(acc, root, tree, path) = [skills |-> more, lists |-> listed, names |-> longer]
    BY <1>2, <1>3, <1>4, <1>5, <1>7, <1>8, <1>13, <2>1 DEF AddFound, Wins, SkillAt
  <2>3. [skills |-> more, lists |-> listed, names |-> longer] \in Accounts(E, D, V, Q)
    BY <1>7, <1>8, <2>0 DEF Accounts
  <2>4. /\ DOMAIN more = DOMAIN skills \union {name} /\ more[name] = skill
        /\ \A x \in DOMAIN skills \ {name} : more[x] = skills[x]
    <3>1. more = [k \in DOMAIN skills \union {name} |-> IF k = name THEN skill ELSE skills[k]]
      BY <2>1 DEF Put
    <3> QED
      BY <3>1
  <2>5. skill.at = <<root, path>>
    BY <1>5 DEF SkillAt
  <2>6. ASSUME NamesStand(acc), NEW i \in 1..(Len(names) + 1), longer[i].kind = "skill"
        PROVE  longer[i].name \in DOMAIN more /\ more[longer[i].name].at = longer[i].at
    <3>1. CASE i = Len(names) + 1
      BY <1>9, <1>10, <2>4, <2>5, <2>6, <3>1
    <3>2. CASE i \in 1..Len(names)
      <4>1. longer[i] = names[i] /\ names[i].kind = "skill"
        BY <1>9, <2>6, <3>2
      <4>2. names[i].name \in DOMAIN skills /\ skills[names[i].name].at = names[i].at
        BY <1>2, <1>9, <2>6, <3>2, <4>1 DEF NamesStand
      <4>3. names[i].name \in DOMAIN skills \ {name}
        BY <1>13, <4>2
      <4> QED
        BY <2>4, <4>1, <4>2, <4>3
    <3> QED
      BY <1>9, <3>1, <3>2
  <2>7. NamesStand(acc) => NamesStand([skills |-> more, lists |-> listed, names |-> longer])
    BY <1>9, <2>6 DEF NamesStand
  <2> QED
    BY <2>2, <2>3, <2>7
<1> QED
  BY <1>11, <1>12, <1>13

Sound(E, D, V, Q) == {acc \in Accounts(E, D, V, Q) : NamesStand(acc)}
RootLoop(f, acc, root, tree, walk, n) ==
  f = [i \in 0..n |-> IF i = 0 THEN acc ELSE AddFound(f[i - 1], root, tree, walk[i])]

LEMMA RootLoopExists ==
  ASSUME NEW E, NEW D, NEW V, NEW Q, NEW root, NEW tree, TreeFits(root, tree, E, D, V, Q),
         NEW acc \in Sound(E, D, V, Q), NEW n \in Nat, NEW walk \in [1..n -> DOMAIN tree]
  PROVE  \E f : RootLoop(f, acc, root, tree, walk, n)
<1> DEFINE Y == Sound(E, D, V, Q)
           step == [q \in (1..n) \X Y |-> AddFound(q[2], root, tree, walk[q[1]])]
<1>1. \A k \in 1..n, s \in Y : step[<<k, s>>] = AddFound(s, root, tree, walk[k])
  OBVIOUS
<1>2. step \in [(1..n) \X Y -> Y]
  <2>1. \A k \in 1..n, s \in Y : AddFound(s, root, tree, walk[k]) \in Y
    BY NamesStillStand DEF Sound
  <2> HIDE DEF Y
  <2> QED
    BY <2>1
<1> HIDE DEF step, Y
<1>3. PICK f \in [0..n -> Y] : Loops(f, n, acc, step)
  BY <1>2, LoopExists DEF Y
<1>4. ASSUME NEW k \in 0..n PROVE f[k] = IF k = 0 THEN acc ELSE AddFound(f[k - 1], root, tree, walk[k])
  <2>1. f[k] = IF k = 0 THEN acc ELSE step[<<k, f[k - 1]>>]
    BY <1>3 DEF Loops
  <2>2. CASE k # 0
    <3>1. k \in 1..n /\ f[k - 1] \in Y
      BY <2>2
    <3> QED
      BY <1>1, <2>1, <2>2, <3>1
  <2> QED
    BY <2>1, <2>2
<1>5. f = [k \in 0..n |-> f[k]]
  OBVIOUS
<1>6. RootLoop(f, acc, root, tree, walk, n)
  BY <1>4, <1>5 DEF RootLoop
<1> QED
  BY <1>6

(* A directory keeps that.                                                 *)
LEMMA RootIsAdded ==
  ASSUME NEW N, NEW depth \in Nat, NEW tree, IsTree(tree, N, depth), NEW order \in Seq(N),
         NEW E, NEW D, NEW V, NEW Q, NEW root, TreeFits(root, tree, E, D, V, Q), NEW acc \in Sound(E, D, V, Q)
  PROVE  AddRoot(acc, root, tree, order) \in Sound(E, D, V, Q)
<1>1. PICK walk \in Seq(DOMAIN tree) : walk = Walk(tree, order, DOMAIN acc.lists)
  BY WalkIs
<1>2. PICK n \in Nat : n = Len(walk) /\ walk \in [1..n -> DOMAIN tree]
  OBVIOUS
<1> DEFINE P(f) == RootLoop(f, acc, root, tree, walk, n)
           g == CHOOSE upTo : P(upTo)
<1>3. AddRoot(acc, root, tree, order) = g[n]
  BY <1>1, <1>2, Zenon DEF AddRoot, RootLoop
<1>4. RootLoop(g, acc, root, tree, walk, n)
  <2>1. \E h : P(h)
    BY <1>2, RootLoopExists
  <2> HIDE DEF P
  <2>2. P(g)
    BY <2>1, Zenon
  <2> QED
    BY <2>2 DEF P
<1> HIDE DEF g, P
<1> DEFINE a(i) == IF i = 0 THEN acc ELSE AddFound(g[i - 1], root, tree, walk[i])
           Y == Sound(E, D, V, Q)
           G == {k \in 0..n : g[k] \in Y}
<1>5. \A i \in 0..n : g[i] = a(i)
  <2>1. g = [i \in 0..n |-> a(i)]
    BY <1>4, Zenon DEF RootLoop
  <2> HIDE DEF a
  <2> QED
    BY <2>1
<1>6. 0 \in G
  <2>1. 0 \in 0..n /\ g[0] = acc
    BY <1>5
  <2> QED
    BY <2>1
<1>7. ASSUME NEW k \in 1..n, k - 1 \in G PROVE k \in G
  <2>1. k \in 0..n /\ k # 0 /\ walk[k] \in DOMAIN tree
    BY <1>2
  <2>2. g[k] = AddFound(g[k - 1], root, tree, walk[k])
    BY <1>5, <2>1
  <2>3. g[k - 1] \in Y
    BY <1>7
  <2>4. g[k] \in Y
    BY <2>1, <2>2, <2>3, NamesStillStand DEF Sound
  <2> QED
    BY <2>1, <2>4
<1>8. 0..n \subseteq G
  <2>1. \A k \in 1..n : k - 1 \in G => k \in G
    BY <1>7
  <2> HIDE DEF G
  <2> QED
    BY <1>6, <2>1, Climb
<1> QED
  BY <1>3, <1>8

NothingFound == [skills |-> << >>, lists |-> [p \in {<<>>} |-> <<>>], names |-> <<>>]
EntriesOf(roots) == UNION {{FoundAt(r, roots[r], p) : p \in DOMAIN roots[r]} : r \in DOMAIN roots}
NamesOf(roots) == UNION {{roots[r][p].name : p \in DOMAIN roots[r]} : r \in DOMAIN roots}
SkillsOf(roots) == UNION {{SkillAt(r, roots[r], p) : p \in DOMAIN roots[r]} : r \in DOMAIN roots}
PathsOf(roots) == {<<>>} \union UNION {DOMAIN roots[r] : r \in DOMAIN roots}
SoundOf(roots) == Sound(EntriesOf(roots), NamesOf(roots), SkillsOf(roots), PathsOf(roots))

LEMMA RootsFit ==
  ASSUME NEW roots, NEW r \in DOMAIN roots
  PROVE  TreeFits(r, roots[r], EntriesOf(roots), NamesOf(roots), SkillsOf(roots), PathsOf(roots))
<1> SUFFICES ASSUME NEW p \in DOMAIN roots[r]
             PROVE  /\ FoundAt(r, roots[r], p) \in EntriesOf(roots) /\ roots[r][p].name \in NamesOf(roots)
                    /\ SkillAt(r, roots[r], p) \in SkillsOf(roots) /\ p \in PathsOf(roots)
  BY DEF TreeFits
<1>1. FoundAt(r, roots[r], p) \in EntriesOf(roots)
  BY DEF EntriesOf
<1>2. roots[r][p].name \in NamesOf(roots)
  BY DEF NamesOf
<1>3. SkillAt(r, roots[r], p) \in SkillsOf(roots)
  BY DEF SkillsOf
<1>4. p \in PathsOf(roots)
  BY DEF PathsOf
<1> QED
  BY <1>1, <1>2, <1>3, <1>4

LEMMA NothingIsSound ==
  ASSUME NEW roots
  PROVE  NothingFound \in SoundOf(roots)
<1> DEFINE E == EntriesOf(roots)
           D == NamesOf(roots)
           V == SkillsOf(roots)
           Q == PathsOf(roots)
<1>1. << >> \in PartialMaps(D, V)
  <2> HIDE DEF D, V
  <2>1. << >> \in [{} -> V] /\ {} \in SUBSET D
    OBVIOUS
  <2> QED
    BY <2>1 DEF PartialMaps
<1>2. [p \in {<<>>} |-> <<>>] \in PartialMaps(Q, Seq(E))
  <2>1. {<<>>} \in SUBSET Q
    BY DEF PathsOf
  <2> HIDE DEF E, Q
  <2>2. <<>> \in Seq(E)
    BY EmptySeq
  <2>3. [p \in {<<>>} |-> <<>>] \in [{<<>>} -> Seq(E)]
    BY <2>2
  <2> QED
    BY <2>1, <2>3 DEF PartialMaps
<1> HIDE DEF E, D, V, Q
<1>3. NothingFound \in Accounts(E, D, V, Q)
  <2>1. <<>> \in Seq(E)
    BY EmptySeq
  <2> QED
    BY <1>1, <1>2, <2>1 DEF NothingFound, Accounts
<1>4. NamesStand(NothingFound)
  BY DEF NothingFound, NamesStand
<1> QED
  BY <1>3, <1>4 DEF SoundOf, Sound, E, D, V, Q

RootsLoop(f, roots, order, n) ==
  f = [r \in 0..n |-> IF r = 0 THEN NothingFound ELSE AddRoot(f[r - 1], r, roots[r], order)]

LEMMA RootIsSound ==
  ASSUME NEW N, NEW depth \in Nat, NEW order \in Seq(N), NEW roots,
         \A r \in DOMAIN roots : IsTree(roots[r], N, depth),
         NEW r \in DOMAIN roots, NEW acc \in SoundOf(roots)
  PROVE  AddRoot(acc, r, roots[r], order) \in SoundOf(roots)
<1> DEFINE E == EntriesOf(roots)
           D == NamesOf(roots)
           V == SkillsOf(roots)
           Q == PathsOf(roots)
<1>1. TreeFits(r, roots[r], E, D, V, Q)
  BY RootsFit
<1>2. acc \in Sound(E, D, V, Q)
  BY DEF SoundOf
<1> HIDE DEF E, D, V, Q
<1>3. PICK tree : tree = roots[r]
  OBVIOUS
<1>4. IsTree(tree, N, depth)
  BY <1>3
<1>5. AddRoot(acc, r, tree, order) \in Sound(E, D, V, Q)
  BY <1>1, <1>2, <1>3, <1>4, RootIsAdded
<1> QED
  BY <1>3, <1>5 DEF SoundOf, E, D, V, Q

LEMMA RootsLoopExists ==
  ASSUME NEW N, NEW depth \in Nat, NEW order \in Seq(N), NEW roots, NEW n \in Nat, DOMAIN roots = 1..n,
         \A r \in DOMAIN roots : IsTree(roots[r], N, depth)
  PROVE  \E f : RootsLoop(f, roots, order, n)
<1> DEFINE Y == SoundOf(roots)
           step == [q \in (1..n) \X Y |-> AddRoot(q[2], q[1], roots[q[1]], order)]
<1>1. \A k \in 1..n, s \in Y : step[<<k, s>>] = AddRoot(s, k, roots[k], order)
  OBVIOUS
<1>2. step \in [(1..n) \X Y -> Y]
  <2>1. \A k \in 1..n, s \in Y : AddRoot(s, k, roots[k], order) \in Y
    BY RootIsSound
  <2> HIDE DEF Y
  <2> QED
    BY <2>1
<1>3. NothingFound \in Y
  BY NothingIsSound
<1> HIDE DEF step, Y
<1>4. PICK f \in [0..n -> Y] : Loops(f, n, NothingFound, step)
  BY <1>2, <1>3, LoopExists
<1>5. ASSUME NEW k \in 0..n PROVE f[k] = IF k = 0 THEN NothingFound ELSE AddRoot(f[k - 1], k, roots[k], order)
  <2>1. f[k] = IF k = 0 THEN NothingFound ELSE step[<<k, f[k - 1]>>]
    BY <1>4 DEF Loops
  <2>2. CASE k # 0
    <3>1. k \in 1..n /\ f[k - 1] \in Y
      BY <2>2
    <3> QED
      BY <1>1, <2>1, <2>2, <3>1
  <2> QED
    BY <2>1, <2>2
<1>6. f = [k \in 0..n |-> f[k]]
  OBVIOUS
<1>7. RootsLoop(f, roots, order, n)
  BY <1>5, <1>6 DEF RootsLoop
<1> QED
  BY <1>7

LEMMA DiscoveryIsSound ==
  ASSUME NEW N, NEW depth \in Nat, NEW order \in Seq(N), NEW T, \A t \in T : IsTree(t, N, depth), NEW roots \in Seq(T)
  PROVE  NamesStand(DiscoverSkills(roots, order))
<1>1. PICK n \in Nat : n = Len(roots) /\ DOMAIN roots = 1..n
  OBVIOUS
<1>2. \A r \in DOMAIN roots : IsTree(roots[r], N, depth)
  OBVIOUS
<1> DEFINE P(f) == RootsLoop(f, roots, order, n)
           g == CHOOSE upTo : P(upTo)
<1>3. DiscoverSkills(roots, order) = g[n]
  BY <1>1, Zenon DEF DiscoverSkills, RootsLoop, NothingFound
<1>4. RootsLoop(g, roots, order, n)
  <2>1. \E h : P(h)
    BY <1>1, <1>2, RootsLoopExists
  <2> HIDE DEF P
  <2>2. P(g)
    BY <2>1, Zenon
  <2> QED
    BY <2>2 DEF P
<1> HIDE DEF g, P
<1> DEFINE a(r) == IF r = 0 THEN NothingFound ELSE AddRoot(g[r - 1], r, roots[r], order)
           Y == SoundOf(roots)
           G == {k \in 0..n : g[k] \in Y}
<1>5. \A r \in 0..n : g[r] = a(r)
  <2>1. g = [r \in 0..n |-> a(r)]
    BY <1>4, Zenon DEF RootsLoop
  <2> HIDE DEF a
  <2> QED
    BY <2>1
<1>6. 0 \in G
  <2>1. 0 \in 0..n /\ g[0] = NothingFound
    BY <1>5
  <2> QED
    BY <2>1, NothingIsSound
<1>7. ASSUME NEW k \in 1..n, k - 1 \in G PROVE k \in G
  <2>1. k \in 0..n /\ k # 0 /\ k \in DOMAIN roots
    BY <1>1
  <2>2. g[k] = AddRoot(g[k - 1], k, roots[k], order)
    BY <1>5, <2>1
  <2>3. g[k - 1] \in Y
    BY <1>7
  <2>4. g[k] \in Y
    BY <1>2, <2>1, <2>2, <2>3, RootIsSound
  <2> QED
    BY <2>1, <2>4
<1>8. 0..n \subseteq G
  <2>1. \A k \in 1..n : k - 1 \in G => k \in G
    BY <1>7
  <2> HIDE DEF G
  <2> QED
    BY <1>6, <2>1, Climb
<1>9. g[n] \in Y
  BY <1>8
<1> QED
  BY <1>3, <1>9 DEF SoundOf, Sound

(* Whatever the directories hold, however deep, and however upper and      *)
(* lower case are told apart: use_skill() of a skill that the prompt lists *)
(* loads that skill, unless a category has its name (_discover(),          *)
(* _resolve_skill_name(), use_skill()).                                    *)
THEOREM WhatIsListedLoads ==
  ASSUME NEW N, NEW depth \in Nat, NEW order \in Seq(N), NEW T, \A t \in T : IsTree(t, N, depth),
         NEW roots \in Seq(T), NEW lower
  PROVE  ShownSkillsLoad(DiscoverSkills(roots, order), lower)
<1>1. PICK found : found = DiscoverSkills(roots, order)
  OBVIOUS
<1>2. NamesStand(found)
  BY <1>1, DiscoveryIsSound
<1>3. ASSUME NEW e \in ToSet(found.names), e.kind = "skill", e.name \notin Categories(found)
      PROVE  /\ UseSkillNamed(found, e.name, {}, TRUE, {}, lower).kind = "skill"
             /\ UseSkillNamed(found, e.name, {}, TRUE, {}, lower).at = e.at
  <2>1. PICK i \in DOMAIN found.names : e = found.names[i]
    BY DEF ToSet
  <2>2. e.name \in DOMAIN found.skills /\ found.skills[e.name].at = e.at
    BY <1>2, <1>3, <2>1 DEF NamesStand
  <2> DEFINE same == SelectSeq(found.names, LAMBDA f : lower[f.name] = lower[e.name])
             cats == SelectSeq(same, LAMBDA f : f.kind = "category")
             name == IF e.name \in Categories(found) \union DOMAIN found.skills \/ same = <<>> THEN e.name
                     ELSE IF cats # <<>> THEN cats[1].name ELSE same[1].name
             loaded == [kind |-> "skill", at |-> found.skills[name].at,
                        enables |-> found.skills[name].tools \intersect {}, expanded |-> {}]
             used == IF name \in Categories(found)
                     THEN [kind |-> "category", shows |-> ToSet(found.lists[name]), enables |-> {},
                           expanded |-> IF TRUE THEN {} ELSE {} \union {name}]
                     ELSE IF name \in DOMAIN found.skills THEN loaded
                     ELSE [kind |-> "unknown", enables |-> {}, expanded |-> {}]
  <2>3. UseSkillNamed(found, e.name, {}, TRUE, {}, lower) = used
    BY Zenon DEF UseSkillNamed
  <2>4. name = e.name
    <3> HIDE DEF same, cats
    <3> QED
      BY <2>2
  <2> HIDE DEF name, same, cats
  <2>5. used = loaded
    BY <1>3, <2>2, <2>4
  <2>6. loaded.kind = "skill" /\ loaded.at = found.skills[name].at
    OBVIOUS
  <2> HIDE DEF used, loaded
  <2> QED
    BY <2>2, <2>3, <2>4, <2>5, <2>6
<1>4. ShownSkillsLoad(found, lower)
  BY <1>3, Zenon DEF ShownSkillsLoad
<1> QED
  BY <1>1, <1>4

(* The same of the directories asked about, however many and deep, of any  *)
(* names.                                                                  *)
THEOREM ListedSkillsLoad ==
  ASSUME NEW N, {"a", "b"} \subseteq N, NEW depth \in Nat, NEW T, \A t \in T : IsTree(t, N, depth),
         question = "skills" => input \in Seq(T)
  PROVE  WhatIsShownLoads
<1>1. SUFFICES ASSUME question = "skills" PROVE ShownSkillsLoad(FoundIn(input), Lower)
  BY DEF WhatIsShownLoads
<1>2. <<"a", "b">> \in Seq(N)
  OBVIOUS
<1> QED
  BY <1>1, <1>2, WhatIsListedLoads DEF FoundIn
=============================================================================
