----------------------------- MODULE ModelQueue -----------------------------
(***************************************************************************)
(* Requests to models (TinyCTX/ai.py): one priority queue and a few worker *)
(* tasks admit every completion and every embedding of the process.  A     *)
(* completion is streamed to its caller as it arrives; an embedding call   *)
(* returns a vector per text, from a cache shared by all callers or from   *)
(* the model.  A step is what a task does between two suspensions.         *)
(***************************************************************************)
EXTENDS Integers, Sequences, FiniteSets

CONSTANTS
  Requests,          \* callers' requests, in no particular order
  Streams,           \* those that are completions; the rest embed
  Ask,               \* the texts each embedding request asks for, in order
  Urgent,            \* requests of the better priority
  Parallel,          \* config parallel: (>= 1)
  CacheSize,         \* config embed_cache_size: (>= 1)
  MaxEvents,         \* bound: events of a completion
  NoVector

ASSUME ModelQueueConstants ==
  /\ Streams \subseteq Requests /\ Urgent \subseteq Requests
  /\ {"ready", "waiting"} \intersect Requests = {}
  /\ {Parallel, CacheSize} \subseteq Nat \ {0} /\ MaxEvents \in Nat
  /\ \A r \in Requests \ Streams : Ask[r] \in Seq({Ask[r][i] : i \in DOMAIN Ask[r]})

VARIABLES
  heap,        \* _queue_heap: <<priority, seq, request>> entries
  seq,         \* _queue_seq
  worker,      \* the workers started so far: "ready", "waiting" on the condition, or a request
  state,       \* request -> "new", "open" (its caller waits), "left" (cancelled), "closed"
  produced,    \* completion -> events the model has sent
  outbox,      \* completion -> out_queue
  given,       \* completion -> what its caller was given
  computed,    \* embedding -> the result of its future, or <<>>
  slots,       \* embedding -> results, as far as known
  embedCache   \* _embed_cache: <<text, vector>> pairs, least recently used first

queueVars == <<heap, seq, worker, state, produced, outbox, given, computed, slots, embedCache>>

Embeds == Requests \ Streams
Vector(text) == <<"vector of", text>>
Priority(r) == IF r \in Urgent THEN 5 ELSE 20

QueueInit ==
  /\ heap = {} /\ seq = 0 /\ worker = <<>>
  /\ state = [r \in Requests |-> "new"]
  /\ produced = [r \in Streams |-> 0]
  /\ outbox = [r \in Streams |-> <<>>] /\ given = [r \in Streams |-> <<>>]
  /\ computed = [r \in Embeds |-> <<>>] /\ slots = [r \in Embeds |-> <<>>]
  /\ embedCache = <<>>

-----------------------------------------------------------------------------
(* The cache.                                                              *)

Cached(c, text) == \E i \in DOMAIN c : c[i][1] = text
Lookup(c, text) == CHOOSE i \in DOMAIN c : c[i][1] = text
Without(c, text) ==
  IF Cached(c, text)
  THEN SubSeq(c, 1, Lookup(c, text) - 1) \o SubSeq(c, Lookup(c, text) + 1, Len(c)) ELSE c

Touched(c, text) == IF Cached(c, text) THEN Append(Without(c, text), c[Lookup(c, text)]) ELSE c
AllTouched(c, texts) ==
  LET from[k \in 0..Len(texts)] == IF k = 0 THEN c ELSE Touched(from[k - 1], texts[k])
  IN from[Len(texts)]
Known(c, text) == IF Cached(c, text) THEN c[Lookup(c, text)][2] ELSE NoVector

Stored(c, text, v) ==
  LET grown == Append(Without(c, text), <<text, v>>)
  IN IF Len(grown) > CacheSize THEN Tail(grown) ELSE grown

(* What was not known and has come back is stored, in the order asked for. *)
AllStored(c, texts, known, result) ==
  LET from[k \in 0..Len(texts)] ==
        IF k = 0 THEN c
        ELSE IF known[k] # NoVector \/ result[k] = NoVector THEN from[k - 1]
        ELSE Stored(from[k - 1], texts[k], result[k])
  IN from[Len(texts)]

Misses(result) == SelectSeq([i \in DOMAIN result |-> i], LAMBDA i : result[i] = NoVector)

-----------------------------------------------------------------------------
(* _ensure_workers(), then push and notify(): one waiting worker is woken, *)
(* if any waits (which one makes no difference: workers are alike).        *)

Enqueue(r) ==
  LET waiting == {w \in DOMAIN worker : worker[w] = "waiting"}
      started == worker \o [n \in 1..(Parallel - Len(worker)) |-> "ready"]
  IN /\ heap' = heap \union {<<Priority(r), seq, r>>}
     /\ seq' = seq + 1
     /\ \/ waiting = {} /\ worker' = started
        \/ \E w \in waiting : worker' = [started EXCEPT ![w] = "ready"]

(* LLM.stream()                                                            *)
Complete(r) ==
  /\ r \in Streams /\ state[r] = "new"
  /\ state' = [state EXCEPT ![r] = "open"]
  /\ Enqueue(r)
  /\ UNCHANGED <<produced, outbox, given, computed, slots, embedCache>>

(* Embedder.embed() up to the queue: what the cache has is looked up, and  *)
(* a call that misses nothing returns at once.                             *)
Embed(r) ==
  LET result == [i \in DOMAIN Ask[r] |-> Known(embedCache, Ask[r][i])]
  IN /\ r \in Embeds /\ state[r] = "new"
     /\ slots' = [slots EXCEPT ![r] = result]
     /\ embedCache' = AllTouched(embedCache, Ask[r])
     /\ IF Misses(result) = <<>>
        THEN state' = [state EXCEPT ![r] = "closed"] /\ UNCHANGED <<heap, seq, worker>>
        ELSE state' = [state EXCEPT ![r] = "open"] /\ Enqueue(r)
     /\ UNCHANGED <<produced, outbox, given, computed>>

(* Mutant: a worker that finished waits before it looks at the heap.       *)
NextOfSleepy(w) ==
  IF worker[w] \in Requests THEN worker' = [worker EXCEPT ![w] = "waiting"] /\ heap' = heap
  ELSE IF heap = {} THEN worker' = [worker EXCEPT ![w] = "waiting"] /\ heap' = heap
  ELSE LET item == CHOOSE x \in heap : \A y \in heap : x[1] < y[1] \/ (x[1] = y[1] /\ x[2] <= y[2])
       IN worker' = [worker EXCEPT ![w] = item[3]] /\ heap' = heap \ {item}

(* _queue_worker() after waking up, or after an item: wait while the heap  *)
(* is empty, else take the most urgent, oldest item.                       *)
NextOf(w) ==
  IF heap = {} THEN worker' = [worker EXCEPT ![w] = "waiting"] /\ heap' = heap
  ELSE LET item == CHOOSE x \in heap : \A y \in heap : x[1] < y[1] \/ (x[1] = y[1] /\ x[2] <= y[2])
       IN worker' = [worker EXCEPT ![w] = item[3]] /\ heap' = heap \ {item}

Wake(w) ==
  /\ worker[w] = "ready"
  /\ NextOf(w)
  /\ UNCHANGED <<seq, state, produced, outbox, given, computed, slots, embedCache>>

(* The model sends an event of the completion a worker drains: forwarded   *)
(* whether or not the caller still listens.                                *)
Produce(w) ==
  LET r == worker[w]
  IN /\ r \in Streams /\ produced[r] < MaxEvents
     /\ produced' = [produced EXCEPT ![r] = @ + 1]
     /\ outbox' = [outbox EXCEPT ![r] = Append(@, "event")]
     /\ UNCHANGED <<heap, seq, worker, state, given, computed, slots, embedCache>>

(* The completion ends: with the sentinel, or with an exception, which the *)
(* worker forwards too (tenacity's retry does not apply to a generator:    *)
(* the first failed connection is the last).                               *)
EndStream(w, how) ==
  LET r == worker[w]
  IN /\ r \in Streams
     /\ outbox' = [outbox EXCEPT ![r] = Append(@, how)]
     /\ NextOf(w)
     /\ UNCHANGED <<seq, state, produced, given, computed, slots, embedCache>>

(* The embedding returns: a vector per text that was missing, or None for  *)
(* one that failed alone after its batch failed.                           *)
EndEmbed(w, failed) ==
  LET r == worker[w]
      missing == Misses(slots[r])
  IN /\ r \in Embeds
     /\ computed' = [computed EXCEPT ![r] =
                       IF state[r] = "left" THEN <<>>
                       ELSE [k \in DOMAIN missing |->
                               IF missing[k] \in failed THEN NoVector ELSE Vector(Ask[r][missing[k]])]]
     /\ NextOf(w)
     /\ UNCHANGED <<seq, state, produced, outbox, given, slots, embedCache>>

(* The caller of a completion takes an event; the exception of a broken    *)
(* connection becomes an LLMError event, the last one.                     *)
Receive(r) ==
  LET event == Head(outbox[r])
  IN /\ r \in Streams /\ state[r] = "open" /\ outbox[r] # <<>>
     /\ outbox' = [outbox EXCEPT ![r] = Tail(@)]
     /\ given' = [given EXCEPT ![r] = IF event = "done" THEN @ ELSE Append(@, event)]
     /\ state' = IF event \in {"done", "error"} THEN [state EXCEPT ![r] = "closed"] ELSE state
     /\ UNCHANGED <<heap, seq, worker, produced, computed, slots, embedCache>>

(* Mutant: the results fill the slots from the first one on.               *)
PlacedInOrder(result, missing, values) ==
  [i \in DOMAIN result |-> IF i \in DOMAIN values THEN values[i] ELSE result[i]]

Placed(result, missing, values) ==
  [i \in DOMAIN result |->
     IF \E k \in DOMAIN missing : missing[k] = i
     THEN values[CHOOSE k \in DOMAIN missing : missing[k] = i] ELSE result[i]]

(* Embedder.embed() after the queue: the results fill the slots that were  *)
(* missed and enter the cache, failures excepted.                          *)
Resume(r) ==
  LET missing == Misses(slots[r])
      result == Placed(slots[r], missing, computed[r])
  IN /\ r \in Embeds /\ state[r] = "open" /\ computed[r] # <<>>
     /\ slots' = [slots EXCEPT ![r] = result]
     /\ embedCache' = AllStored(embedCache, Ask[r], slots[r], result)
     /\ state' = [state EXCEPT ![r] = "closed"]
     /\ UNCHANGED <<heap, seq, worker, produced, outbox, given, computed>>

(* The calling task is cancelled; its request stays where it is.           *)
Leave(r) ==
  /\ state[r] = "open"
  /\ state' = [state EXCEPT ![r] = "left"]
  /\ UNCHANGED <<heap, seq, worker, produced, outbox, given, computed, slots, embedCache>>

QueueNext ==
  \/ \E r \in Requests : Complete(r) \/ Embed(r) \/ Receive(r) \/ Resume(r) \/ Leave(r)
  \/ \E w \in DOMAIN worker :
       \/ Wake(w) \/ Produce(w)
       \/ \E how \in {"done", "error"} : EndStream(w, how)
       \/ \E failed \in SUBSET {1, 2} : EndEmbed(w, failed)

QueueSpec == QueueInit /\ [][QueueNext]_queueVars

-----------------------------------------------------------------------------
(* No wake-up is lost: while a request waits, some worker is awake or at   *)
(* work, and will look at the heap again.                                  *)
WorkIsNeverAsleep == heap # {} => \E w \in DOMAIN worker : worker[w] # "waiting"

(* Whatever was cached, evicted, failed or asked for by others meanwhile,  *)
(* a call returns for each of its texts that text's vector or None, and    *)
(* the cache, within its size, has no other vector for a text than its own.*)
VectorsMatchTexts ==
  /\ \A r \in Embeds : state[r] = "closed" =>
       \A i \in DOMAIN Ask[r] : slots[r][i] \in {Vector(Ask[r][i]), NoVector}
  /\ \A i \in DOMAIN embedCache : embedCache[i][2] = Vector(embedCache[i][1])
  /\ Len(embedCache) <= CacheSize

(* The code does not keep this: a slot is given up only when what holds it *)
(* has somebody listening (Parallel 1: the caller left, its stream is      *)
(* drained all the same while others wait).                                *)
SlotsServeSomebody ==
  \A w \in DOMAIN worker : worker[w] \in Requests /\ heap # {} => state[worker[w]] # "left"
=============================================================================
