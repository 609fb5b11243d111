------------------------------ MODULE RagIndex ------------------------------
(***************************************************************************)
(* The index of a databank (TinyCTX/modules/rag): a folder of files is     *)
(* scanned before every search, what changed is embedded and stored in the *)
(* databank's database, and the search reads the database.  Every call to  *)
(* the embedder suspends the caller, and files, the folder and other       *)
(* callers move meanwhile.  One databank; a database outlives the process, *)
(* everything else is made anew by a restart.                              *)
(*                                                                         *)
(* A file is what it says: Blank has no chunk, any other text has some,    *)
(* and every chunk matches the query.  A disabled entry is an absent file. *)
(***************************************************************************)
EXTENDS Integers

CONSTANTS
  Files, Texts,      \* Blank may be one of Texts
  Blank, Absent,
  Searchers,         \* tasks that call rag_search or run the pre-assemble hook
  Models,            \* embedding models a start may configure; "" for none
  MaxEdits,          \* bound: changes of files and of the folder
  MaxBanks,          \* bound: registrations of the databank, restarts included
  CoarseTime,        \* two changes of a file may share a modification time
  QuickMoves         \* a folder may be back while the old databank is scanned

NoTask == "nobody"
Banks == 1..MaxBanks

Versions == [text: Texts, mtime: 0..MaxEdits]
Rows     == [text: Texts, model: Models, vecs: BOOLEAN]
Answers  == [text: Texts, ranked: BOOLEAN]

ASSUME RagConstants ==
  /\ {MaxEdits, MaxBanks} \subseteq Nat /\ {CoarseTime, QuickMoves} \subseteq BOOLEAN
  /\ Absent \notin Texts \union Versions \union Rows \union Answers
  /\ NoTask \notin Searchers

VARIABLES
  disk,      \* file -> [text, mtime], or Absent
  folder,    \* the databank's folder exists
  edits,     \* changes so far, the newest modification time
  model,     \* _RagState.model_name, with an embedder unless it is ""
  bank,      \* the registered FilesDataBank, store and indexer; 0 for none
  banks,     \* registrations so far
  cache,     \* bank -> file -> FilesDataBank._entry_cache
  holder,    \* bank -> the task that holds DataBankIndexer._sync_lock
  rows,      \* file -> [text, model, vecs]: its rows in files and chunks
  targets,   \* session state rag_auto_targets: "unset", "on" or "off"
  search     \* task -> the call in progress, or the last one

ragVars == <<disk, folder, edits, model, bank, banks, cache, holder, rows, targets, search>>

Empty == [f \in Files |-> Absent]

Idle == [pc |-> "idle", bank |-> 0, todo |-> {}, read |-> Empty, cut |-> FALSE,
         since |-> {}, answer |-> Empty]

RagInit ==
  /\ disk = Empty /\ folder = TRUE /\ edits = 0
  /\ model \in Models
  /\ bank = 0 /\ banks = 0
  /\ cache = [b \in Banks |-> Empty] /\ holder = [b \in Banks |-> NoTask]
  /\ rows = Empty
  /\ targets = "unset"
  /\ search = [i \in Searchers |-> Idle]

-----------------------------------------------------------------------------
(* Files and folders change at any time.                                   *)

TextOf(d, f) == IF d[f] = Absent THEN Absent ELSE d[f].text
TextsOf(d) == [f \in Files |-> TextOf(d, f)]
Says(d, f) == IF TextOf(d, f) = Blank THEN Absent ELSE TextOf(d, f)

(* What each file has said since a caller's scan began (history).          *)
Witnessed(d) ==
  [i \in Searchers |->
     IF search[i].pc \in {"embedding", "query"}
     THEN [search[i] EXCEPT !.since = @ \union {<<f, Says(d, f)>> : f \in Files}]
     ELSE search[i]]

Change(d) ==
  /\ edits < MaxEdits
  /\ edits' = edits + 1
  /\ disk' = d
  /\ search' = Witnessed(d)
  /\ UNCHANGED <<model, bank, banks, cache, holder, rows, targets>>

Write(f, t) ==
  \E m \in {edits + 1} \union (IF CoarseTime /\ disk[f] # Absent THEN {disk[f].mtime} ELSE {}) :
    /\ folder
    /\ Change([disk EXCEPT ![f] = [text |-> t, mtime |-> m]])
    /\ UNCHANGED folder

Delete(f) == disk[f] # Absent /\ Change([disk EXCEPT ![f] = Absent]) /\ UNCHANGED folder

MoveFolder ==
  /\ folder \/ QuickMoves \/ \A i \in Searchers : search[i].pc \in {"idle", "done"}
  /\ folder' = ~folder
  /\ Change(Empty)

-----------------------------------------------------------------------------
(* FilesDataBank._iter_entries(): a file is read again when its            *)
(* modification time differs from the cached one.                          *)

Entry(b, f) ==
  CASE disk[f] = Absent -> Absent
    [] disk[f] # Absent /\ cache[b][f] # Absent /\ cache[b][f].mtime = disk[f].mtime -> cache[b][f]
    [] OTHER -> disk[f]

(* DataStore.is_dirty(): never indexed, other text, other model.           *)
Dirty(r, f, text) == r[f] = Absent \/ r[f].text # text \/ r[f].model # model

(* Mutant: what could not be embedded is recorded as indexed.              *)
IndexedAnyway(r, f, text, ok) == [r EXCEPT ![f] = [text |-> text, model |-> model, vecs |-> ok]]

(* DataBankIndexer._index_file(), from the embedder's answer on: the old   *)
(* rows are replaced in one transaction, unless a chunk was not embedded.  *)
Indexed(r, f, text, ok) ==
  IF model # "" /\ ~ok THEN r
  ELSE [r EXCEPT ![f] = [text |-> text, model |-> model, vecs |-> model # ""]]

(* DataStore.hybrid_search(): ranks by words and, when the query has a     *)
(* vector and rows have some, by vectors; vectors of two models cannot be  *)
(* compared, and _hybrid_search() answers nothing when that fails.         *)
Answer(r, embedded) ==
  LET vectors == {f \in Files : r[f] # Absent /\ r[f].vecs}
      comparable == \A f \in vectors : r[f].model = model
  IN [f \in Files |->
        IF r[f] = Absent \/ (embedded /\ ~comparable) THEN Absent
        ELSE [text |-> r[f].text, ranked |-> ~embedded \/ r[f].vecs]]

Answered(i, r, embedded) ==
  search' = [search EXCEPT ![i].pc = "done", ![i].answer = Answer(r, embedded)]

(* The lock is left and the query goes to the embedder, if there is one.   *)
Synced(i, s, r) ==
  LET left == [s EXCEPT !.pc = "query", !.todo = {}, !.read = Empty]
  IN search' = [search EXCEPT ![i] =
                  IF model = "" THEN [left EXCEPT !.pc = "done", !.answer = Answer(r, FALSE)] ELSE left]

(* _sync_inner(): rows of files that are gone are removed, and files that  *)
(* are dirty are listed.                                                   *)
Kept(read) == [f \in Files |-> IF read[f] = Absent THEN Absent ELSE rows[f]]

ToEmbed(read) ==
  {f \in Files : read[f] # Absent /\ read[f].text # Blank /\ Dirty(Kept(read), f, read[f].text)}

(* What the rows are when the embedder is not needed.                      *)
AllIndexed(read) ==
  [f \in Files |-> IF f \in ToEmbed(read) THEN Indexed(Kept(read), f, read[f].text, TRUE)[f]
                   ELSE Kept(read)[f]]

(* _sync_inner() up to the first call of the embedder.                     *)
Scan(i, b) ==
  LET read == [f \in Files |-> Entry(b, f)]
      s == [pc |-> "embedding", bank |-> b, todo |-> ToEmbed(read), read |-> TextsOf(read),
            cut |-> FALSE, since |-> {<<f, Says(disk, f)>> : f \in Files}, answer |-> Empty]
  IN /\ cache' = [cache EXCEPT ![b] = read]
     /\ IF ToEmbed(read) = {} \/ model = ""
        THEN /\ rows' = AllIndexed(read) /\ Synced(i, s, AllIndexed(read))
             /\ holder' = [holder EXCEPT ![b] = NoTask]
        ELSE /\ rows' = Kept(read) /\ search' = [search EXCEPT ![i] = s]
             /\ holder' = [holder EXCEPT ![b] = i]

(* Mutant: the scan does not wait for the one in progress.                 *)
MayScanAlways(b) == TRUE

MayScan(b) ==
  holder[b] = NoTask /\ \A j \in Searchers : ~(search[j].pc = "waiting" /\ search[j].bank = b)

Sync(i, b) ==
  IF MayScan(b) THEN Scan(i, b)
  ELSE /\ search' = [search EXCEPT ![i] = [Idle EXCEPT !.pc = "waiting", !.bank = b]]
       /\ UNCHANGED <<cache, holder, rows>>

(* _sync_discovery(): a folder that appeared is registered, with a cache   *)
(* and a lock of its own; one that is gone is forgotten.                   *)
Discovered == IF ~folder THEN 0 ELSE IF bank = 0 THEN banks + 1 ELSE bank

Discover ==
  /\ Discovered <= MaxBanks
  /\ bank' = Discovered
  /\ banks' = IF Discovered > banks THEN Discovered ELSE banks

Resting(i) == search[i].pc \in {"idle", "done"}

(* rag_search(): an unknown databank is an error message.                  *)
Search(i) ==
  /\ Resting(i) /\ Discover
  /\ IF Discovered = 0
     THEN search' = [search EXCEPT ![i] = Idle] /\ UNCHANGED <<cache, holder, rows>>
     ELSE Sync(i, Discovered)
  /\ UNCHANGED <<disk, folder, edits, model, targets>>

(* The pre-assemble hook of a turn that answers a user.  The databank is   *)
(* in default_auto_targets: a branch that never chose takes the default,   *)
(* one whose choice was to turn it off does not.                           *)
Turn(i) ==
  /\ Resting(i)
  /\ IF targets = "off"
     THEN search' = [search EXCEPT ![i] = Idle] /\ UNCHANGED <<bank, banks, cache, holder, rows>>
     ELSE /\ Discover
          /\ IF Discovered = 0
             THEN search' = [search EXCEPT ![i] = Idle] /\ UNCHANGED <<cache, holder, rows>>
             ELSE Sync(i, Discovered)
  /\ UNCHANGED <<disk, folder, edits, model, targets>>

(* set_auto_rag_databanks()                                                *)
SetAuto(t) ==
  /\ t = "on" => bank # 0
  /\ targets' = t /\ t # targets
  /\ UNCHANGED <<disk, folder, edits, model, bank, banks, cache, holder, rows, search>>

Acquire(i) ==
  /\ search[i].pc = "waiting" /\ holder[search[i].bank] = NoTask
  /\ Scan(i, search[i].bank)
  /\ UNCHANGED <<disk, folder, edits, model, bank, banks, targets>>

(* What is dirty is indexed in the order of the paths, whatever that is.    *)
FirstOf(todo) == CHOOSE f \in todo : TRUE

(* The embedder answers for the first file that is left.  After a failure  *)
(* the others are left for the next scan.                                  *)
Embedded(i, ok) ==
  LET s == search[i]
      f == FirstOf(s.todo)
      r == Indexed(rows, f, s.read[f], ok)
      over == ~ok \/ s.todo = {f}
  IN /\ s.pc = "embedding"
     /\ rows' = r
     /\ IF over
        THEN Synced(i, [s EXCEPT !.cut = ~ok], r) /\ holder' = [holder EXCEPT ![s.bank] = NoTask]
        ELSE search' = [search EXCEPT ![i].todo = @ \ {f}] /\ UNCHANGED holder
     /\ UNCHANGED <<disk, folder, edits, model, bank, banks, cache, targets>>

(* ... and for the query: without a vector the search is by words alone.   *)
Queried(i, ok) ==
  /\ search[i].pc = "query"
  /\ Answered(i, rows, ok)
  /\ UNCHANGED <<disk, folder, edits, model, bank, banks, cache, holder, rows, targets>>

(* The process starts again, perhaps with another model.                   *)
Restart(m) ==
  /\ banks < MaxBanks /\ bank # 0
  /\ model' = m
  /\ bank' = 0
  /\ search' = [i \in Searchers |-> Idle]
  /\ cache' = [b \in Banks |-> Empty]
  /\ holder' = [b \in Banks |-> NoTask]
  /\ UNCHANGED <<disk, folder, edits, banks, rows, targets>>

RagNext ==
  \/ \E f \in Files : Delete(f) \/ \E t \in Texts : Write(f, t)
  \/ MoveFolder
  \/ \E t \in {"on", "off"} : SetAuto(t)
  \/ \E i \in Searchers :
       \/ Search(i) \/ Turn(i) \/ Acquire(i)
       \/ \E ok \in BOOLEAN : Embedded(i, ok) \/ Queried(i, ok)
  \/ \E m \in Models : Restart(m)

RagSpec == RagInit /\ [][RagNext]_ragVars

-----------------------------------------------------------------------------
(* A search answers with what the files say: for every file, a text it had *)
(* at some moment since the scan of that search began (or nothing, if it   *)
(* was away), whoever else scanned, indexed or edited meanwhile; and when  *)
(* the query was embedded, so was every chunk.  A scan the embedder cut    *)
(* short is exempt: what it did not reach is left as it was.  Not so when  *)
(* a file becomes Blank (its rows stay), with CoarseTime (the cache keeps  *)
(* the older text) or QuickMoves (the new databank has a lock of its own). *)
AnswersAreFresh ==
  \A i \in Searchers : search[i].pc = "done" /\ ~search[i].cut =>
    \A f \in Files :
      /\ <<f, TextOf(search[i].answer, f)>> \in search[i].since
      /\ search[i].answer[f] # Absent => search[i].answer[f].ranked

(* The code does not keep this: a search answers nothing although files    *)
(* are indexed, when the vectors of two models have met in the database    *)
(* (Models has two, and the embedder fails after the first file).          *)
NeverBlind ==
  [][\A i \in Searchers :
       /\ search'[i].pc = "done" /\ search[i].pc # "done"
       /\ \E f \in Files : rows'[f] # Absent
       => \E f \in Files : search'[i].answer[f] # Absent]_ragVars
=============================================================================
