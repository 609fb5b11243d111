------------------------------- MODULE RagText -------------------------------
(***************************************************************************)
(* The pure parts of retrieval (TinyCTX/modules/rag): when a lore entry    *)
(* fires, how fired and found entries are merged, how text is cut into     *)
(* chunks, how results are fitted into a budget, and what a scan of the    *)
(* databank directory finds and converts.                                  *)
(***************************************************************************)
EXTENDS Integers, Sequences, FiniteSets, SequencesExt

-----------------------------------------------------------------------------
(* lorefile.py: reading a document.  The head of a file is "none",         *)
(* "broken" or "given", with a record of its keys and a body that may be   *)
(* empty.                                                                  *)

Plain == [name |-> "", mode |-> "hybrid", keys |-> {}, secondary |-> {}, constant |-> FALSE,
          selective |-> FALSE, logic |-> 0, cased |-> FALSE, whole |-> FALSE, disabled |-> FALSE, empty |-> FALSE]

Given(meta, key, default) == IF key \in DOMAIN meta THEN meta[key] ELSE default

(* normalize_mode() and normalize_selective_logic(): what is not known is  *)
(* the default.                                                            *)
Mode(value) == IF value \in {"hybrid", "vector", "keyword", "regex"} THEN value ELSE "hybrid"
Logic(value) == IF value \in 0..3 THEN value ELSE 0

ParseLore(file) ==
  IF file.head \in {"none", "broken"} THEN Plain
  ELSE LET meta == file.meta
       IN [name |-> Given(meta, "name", file.stem),
           mode |-> Mode(Given(meta, "mode", "hybrid")),
           keys |-> Given(meta, "keys", {}), secondary |-> Given(meta, "secondary", {}),
           constant |-> Given(meta, "constant", FALSE),
           selective |-> Given(meta, "selective", FALSE),
           logic |-> Logic(Given(meta, "logic", 0)),
           cased |-> Given(meta, "cased", FALSE), whole |-> Given(meta, "whole", FALSE),
           disabled |-> Given(meta, "disabled", FALSE), empty |-> file.empty]

(* databanks.py: what a text says of a key is {} where it does not occur,  *)
(* and otherwise "somewhere" with those of "same case" and "whole word"    *)
(* that hold of some occurrence.                                           *)
Occurs(text, key, entry) ==
  /\ text[key] # {}
  /\ entry.mode # "regex" => /\ entry.cased => "same case" \in text[key]
                             /\ entry.whole => "whole word" \in text[key]

AnyKey(text, keys, e) == \E k \in keys : Occurs(text, k, e)
AllKeys(text, keys, e) == keys # {} /\ \A k \in keys : Occurs(text, k, e)

Fires(e, text) ==
  LET primary == AnyKey(text, e.keys, e)
  IN \/ e.constant
     \/ primary /\ ~e.selective
     \/ e.selective /\ CASE e.logic = 0 -> primary \/ AnyKey(text, e.secondary, e)
                         [] e.logic = 1 -> primary /\ ~AllKeys(text, e.secondary, e)
                         [] e.logic = 2 -> primary /\ ~AnyKey(text, e.secondary, e)
                         [] e.logic = 3 -> primary /\ AllKeys(text, e.secondary, e)

(* auto_inject(): the entries of a folder in order, then the chunks found  *)
(* by the search, each the path of its file.                               *)
Keyed(acc, e, path, text) ==
  LET excluded == IF e.mode \in {"keyword", "regex"} THEN acc.excluded \union {path} ELSE acc.excluded
      fired == e.mode # "vector" /\ (e.keys # {} \/ e.constant) /\ Fires(e, text) /\ ~e.empty
  IN IF e.disabled THEN acc
     ELSE [results |-> IF fired THEN Append(acc.results, [path |-> path, by |-> "key"]) ELSE acc.results,
           seen |-> IF fired THEN acc.seen \union {path} ELSE acc.seen,
           excluded |-> excluded]

(* Mutant: only what fired is kept out of the semantic half.               *)
FoundUnlessFired(acc, path) ==
  IF path \in acc.seen THEN acc
  ELSE [acc EXCEPT !.results = Append(@, [path |-> path, by |-> "search"]), !.seen = @ \union {path}]

Found(acc, path) ==
  IF path \in acc.excluded \union acc.seen THEN acc
  ELSE [acc EXCEPT !.results = Append(@, [path |-> path, by |-> "search"]), !.seen = @ \union {path}]

AutoInject(entries, text, found) ==
  LET none == [results |-> <<>>, seen |-> {}, excluded |-> {}]
      keyed[p \in 0..Len(entries)] == IF p = 0 THEN none ELSE Keyed(keyed[p - 1], entries[p], p, text)
      merged[i \in 0..Len(found)] == IF i = 0 THEN keyed[Len(entries)] ELSE Found(merged[i - 1], found[i])
  IN merged[Len(found)].results

(* What the frontmatter's mode promises of every entry: a vector entry is  *)
(* never fired by its keys, a keyword or regex entry never comes from the  *)
(* search, an entry that fires and has a body is there whatever was found, *)
(* no file is injected twice, and what fired comes first.                  *)
ModeIsKept(entries, text, found) ==
  LET rs == AutoInject(entries, text, found)
      By(p) == {rs[i].by : i \in {j \in DOMAIN rs : rs[j].path = p}}
  IN /\ \A i, j \in DOMAIN rs : rs[i].path = rs[j].path => i = j
     /\ \A i, j \in DOMAIN rs : rs[i].by = "key" /\ rs[j].by = "search" => i < j
     /\ \A p \in DOMAIN entries :
          LET e == entries[p]
              shown == \E i \in DOMAIN found : found[i] = p
              due == ~e.disabled /\ ~e.empty /\ (e.constant \/ (e.keys # {} /\ Fires(e, text)))
          IN By(p) = CASE e.disabled -> IF shown THEN {"search"} ELSE {}
                       [] ~e.disabled /\ e.mode = "vector" -> IF shown THEN {"search"} ELSE {}
                       [] ~e.disabled /\ e.mode \in {"keyword", "regex"} -> IF due THEN {"key"} ELSE {}
                       [] OTHER -> IF due THEN {"key"} ELSE IF shown THEN {"search"} ELSE {}

-----------------------------------------------------------------------------
(* chunkers.py.  A text is its words (or characters) 1..n; a chunk is an   *)
(* interval.                                                               *)

AtLeast(a, b) == IF a > b THEN a ELSE b
AtMost(a, b) == IF a < b THEN a ELSE b

(* Mutant: the overlap is held below the size only after the size was      *)
(* raised, and may then be as large as it.                                 *)
OverlapUnclamped(size, overlap) == AtLeast(0, overlap)

Overlap(size, overlap) == AtLeast(0, AtMost(overlap, size - 1))

Windows(n, size, overlap) ==
  LET width == AtLeast(1, size)
      step == width - Overlap(size, overlap)
      starts == {k \in 0..n : n > 0 /\ (k = 0 \/ (k - 1) * step + width < n)}
  IN [i \in 1..Cardinality(starts) |->
        (((i - 1) * step) + 1)..AtMost(((i - 1) * step) + width, n)]

(* MarkdownChunker: a line that starts a block starts a piece, and pieces  *)
(* are joined until they are long enough.  A line is [starts, chars].      *)
AddLine(pieces, line) ==
  IF pieces = <<>> \/ line.starts THEN Append(pieces, <<line>>)
  ELSE [pieces EXCEPT ![Len(pieces)] = Append(@, line)]

Pieces(lines) ==
  LET upTo[i \in 0..Len(lines)] == IF i = 0 THEN <<>> ELSE AddLine(upTo[i - 1], lines[i])
  IN upTo[Len(lines)]

Chars(piece) ==
  LET upTo[i \in 0..Len(piece)] == IF i = 0 THEN 0 ELSE upTo[i - 1] + piece[i].chars
  IN upTo[Len(piece)]

AddPiece(acc, piece, least) ==
  IF Chars(acc.buf \o piece) >= least THEN [done |-> Append(acc.done, acc.buf \o piece), buf |-> <<>>]
  ELSE [acc EXCEPT !.buf = @ \o piece]

AddPieces(pieces, least) ==
  LET upTo[i \in 0..Len(pieces)] ==
        IF i = 0 THEN [done |-> <<>>, buf |-> <<>>] ELSE AddPiece(upTo[i - 1], pieces[i], least)
  IN upTo[Len(pieces)]

(* Mutant: what is left over at the end is dropped.                        *)
MergeDropsRest(pieces, least) == AddPieces(pieces, least).done

MergePieces(pieces, least) ==
  LET r == AddPieces(pieces, least)
  IN IF r.buf = <<>> THEN r.done
     ELSE IF r.done = <<>> THEN <<r.buf>>
     ELSE [r.done EXCEPT ![Len(r.done)] = @ \o r.buf]

(* No word is lost to search, whatever size and overlap are configured,    *)
(* and no chunk is longer than the size (windows); every line is in one    *)
(* chunk, in order, and none but an only chunk is short (markdown).        *)
WordsAreCovered(n, size, overlap) ==
  LET ws == Windows(n, size, overlap)
  IN /\ UNION {ws[i] : i \in DOMAIN ws} = 1..n
     /\ \A i \in DOMAIN ws : ws[i] # {} /\ Cardinality(ws[i]) <= AtLeast(1, size)
     /\ \A i \in DOMAIN ws : i > 1 => ~(ws[i] \subseteq ws[i - 1])

LinesAreCovered(lines, least) ==
  LET chunks == MergePieces(Pieces(lines), least)
  IN /\ FlattenSeq(chunks) = lines
     /\ Len(chunks) > 1 => \A i \in DOMAIN chunks : Chars(chunks[i]) >= least

-----------------------------------------------------------------------------
(* __main__.py, _format_results(): which results fit the budget.           *)

FormatResults(costs, overhead, budget) ==
  LET Add(acc, i) ==
        IF i > 1 /\ budget > 0 /\ acc.used + costs[i] > budget THEN acc
        ELSE [kept |-> acc.kept \union {i}, used |-> acc.used + costs[i]]
  IN FoldLeftDomain(Add, [kept |-> {}, used |-> overhead], costs)

-----------------------------------------------------------------------------
(* Discovery.  A directory is a function from names to what is there: a    *)
(* file is [kind |-> "json", entries |-> a sequence of entry names, valid] *)
(* or [kind |-> "other"], a folder [kind |-> "dir", docs |-> its slugs].   *)

(* convert_lorebook_json(): a name taken in this conversion gets a number. *)
Slug(used, base) ==
  LET n == CHOOSE k \in 1..(Cardinality(used) + 1) :
             /\ <<base, k>> \notin used
             /\ \A j \in 1..(k - 1) : <<base, j>> \in used
  IN <<base, n>>

Slugs(names) == FoldLeft(LAMBDA used, base : used \union {Slug(used, base)}, {}, names)

(* One entry of the listing.  Where conversion writes nothing the folder   *)
(* has been made all the same, and the JSON stays.                         *)
Visit(acc, name) ==
  LET item == acc.dir[name]
      docs == Slugs(item.entries)
      old == IF <<name[1], "">> \in DOMAIN acc.dir THEN acc.dir[<<name[1], "">>].docs ELSE {}
      made == [n \in DOMAIN acc.dir \union {<<name[1], "">>} |->
                 IF n = <<name[1], "">> THEN [kind |-> "dir", docs |-> old \union docs] ELSE acc.dir[n]]
      moved == [n \in (DOMAIN made \ {name}) \union {<<name[1], ".json.bak">>} |->
                  IF n = <<name[1], ".json.bak">> THEN [kind |-> "other"] ELSE made[n]]
  IN CASE item.kind = "dir" -> [acc EXCEPT !.banks = @ \union {name[1]}]
       [] item.kind = "json" /\ item.valid /\ docs # {} ->
            [dir |-> moved, banks |-> acc.banks \union {name[1]}]
       [] item.kind = "json" /\ item.valid /\ docs = {} -> [acc EXCEPT !.dir = made]
       [] OTHER -> acc

(* discover_databanks(): the listing is taken before anything is changed.  *)
Discovery(dir, listing) == FoldLeft(Visit, [dir |-> dir, banks |-> {}], listing)

(* "Re-scan the rag directory and register any new databanks. Idempotent." *)
(* (__main__.py:209): a second scan finds what the first one found.  Not   *)
(* so for a lorebook without entries: its empty folder is a databank then. *)
SameTwice(dir, listing) ==
  LET once == Discovery(dir, listing)
      again == Discovery(once.dir, SelectSeq(listing, LAMBDA n : n \in DOMAIN once.dir)
                                     \o SetToSeq(DOMAIN once.dir \ DOMAIN dir))
  IN again.banks = once.banks
=============================================================================
