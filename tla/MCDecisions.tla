---------------------------- MODULE MCDecisions ----------------------------
(***************************************************************************)
(* The pure parts of several components, over bounded inputs: a state is   *)
(* one question put to one of them, and there are no steps.  Each property *)
(* speaks of the questions of its kind.                                    *)
(***************************************************************************)
EXTENDS ShellPolicy, RagText, ToolCalls, MemoryView, ModelText, ChatText, SkillIndex

VARIABLES question, input

Pose(q, inputs) == question = q /\ input \in inputs
UpTo(S, n) == UNION {[1..k -> S] : k \in 0..n}

-----------------------------------------------------------------------------
(* Shell: a command, and the same command with one thing more.             *)

SubWord == <<0, {"sub"}, FALSE>>
XFlag == <<1, {"x"}, FALSE>>
Rule(f, o, a) == [flags |-> f, operands |-> o, add |-> a]
Spec0 == [perms |-> {"FILE_READ"}, sub |-> << >>, default |-> {}, ifOperands |-> {}, known |-> {XFlag}, rules |-> {}]
WithSub(d) == [Spec0 EXCEPT !.sub = [s \in {SubWord} |-> {}], !.default = d]
Table == [plain |-> Spec0,
          ops   |-> [Spec0 EXCEPT !.ifOperands = {"FILE_WRITE"}],
          sub   |-> WithSub({"UNTRUSTED_EXEC"}),
          rule  |-> [Spec0 EXCEPT !.rules = {Rule({XFlag}, {}, {"NETWORK"}), Rule({}, {SubWord}, {"FILE_WRITE"})}]]
Worst == [sub |-> {"ROOT"}]
Args == {Word("sub"), Word("w"), Flag(1, {"x"}, FALSE), Flag(1, {"x", "y"}, FALSE),
         Flag(2, {"help"}, FALSE), Expansion("e"), Glob("g"), EndOfFlags}
ShellQuestions == [name : {"plain", "ops", "sub", "rule", "unknown", NoName}, args : UpTo(Args, 2),
                   more : Args, redirects : {{}, {Word("w")}}, tail : BOOLEAN]

(* One more argument, redirection or command never lowers what a line      *)
(* requires: permissions.py takes the union of what is required.  An       *)
(* argument may choose a cheaper subcommand only where there was none, and *)
(* a bare "--" may turn what follows it into operands.                     *)
MoreNeverNeedsLess ==
  question = "shell" =>
    LET before == Build(input.name, input.args, {})
        after == Build(input.name, Append(input.args, input.more), input.redirects)
        other == Build("plain", <<input.more>>, {})
        Line(cmds) == [parsed |-> TRUE, types |-> {}, commands |-> cmds, bytes |-> 1]
        Need(cmds) == Required(TRUE, Table, Worst, << >>, Line(cmds), FALSE)
    IN /\ before.operands # <<>> \/ input.name \notin {"sub"} => Need(<<before>>) \subseteq Need(<<after>>)
       /\ Need(<<before>>) \subseteq Need(IF input.tail THEN <<before, other>> ELSE <<other, before>>)

(* Policies: a base, and a file that extends it.                           *)
FlagRule(id, action, command) == [Rule0 EXCEPT !.id = id, !.action = action, !.command = command, !.maxArgs = 1]
RulesOf(action) == {FlagRule(i, action, {c}) : i \in {"r1", "r2"}, c \in {"plain", "ops"}}
PolicyQuestions ==
  {q \in [default : {"allow", "deny"}, base : UpTo({"r1", "r2"}, 2), commands : [{"r1", "r2"} -> {"plain", "ops"}],
          own : UpTo({"r2", "r3"}, 1), disable : SUBSET {"r1"}, name : {"plain", "ops"}] :
     /\ \A i, j \in DOMAIN q.base : q.base[i] = q.base[j] => i = j
     /\ q.disable \subseteq Members(q.base)}

BasePolicy(q) ==
  LET action == IF q.default = "deny" THEN "allow" ELSE "deny"
  IN [default |-> q.default, constructs |-> [t \in {"command"} |-> "allow"], maxBytes |-> 10,
      rules |-> [i \in DOMAIN q.base |-> FlagRule(q.base[i], action, {q.commands[q.base[i]]})]]
FileOf(q) ==
  LET action == IF q.default = "deny" THEN "allow" ELSE "warn"
  IN [default |-> q.default, constructs |-> << >>, disable |-> q.disable,
      maxBytes |-> IF q.disable = {} THEN Inherited ELSE 5,
      rules |-> [i \in DOMAIN q.own |-> FlagRule(q.own[i], action, {"other"})]]

(* What of its base an extension does not touch stays in force.            *)
UntouchedRulesStay ==
  question = "policy" =>
    LET cmd == Build(input.name, <<Word("w")>>, {})
        line == [bytes |-> 1, parsed |-> TRUE, types |-> {"command"}, commands |-> <<cmd>>]
    IN UntouchedRulesHold(BasePolicy(input), FileOf(input), line, << >>)

-----------------------------------------------------------------------------
(* Retrieval.                                                              *)

Keyings == [mode : {"keyword", "vector", "other"}, keys : SUBSET {"k"}, secondary : SUBSET {"s"},
            selective : BOOLEAN, logic : 0..3, cased : BOOLEAN]
Switches == [constant : BOOLEAN, disabled : BOOLEAN, mode : {"regex", "hybrid"}, keys : SUBSET {"k"}]
Doc(meta, empty) == [head |-> "given", stem |-> "n", meta |-> meta, empty |-> empty]
Docs == {Doc(m, FALSE) : m \in Keyings} \union {Doc(m, b) : m \in Switches, b \in BOOLEAN} \union {[head |-> "none"]}
SomeDocs == {[head |-> "none"], Doc([mode |-> "regex", keys |-> {"s"}], FALSE)}
LoreQuestions == [docs : {<<d, e>> : d \in Docs, e \in SomeDocs}, text : [{"k", "s"} -> {{}, {"somewhere"}, {"somewhere", "same case"}}], found : UpTo(1..2, 2)]

ModesAreKept ==
  question = "lore" =>
    ModeIsKept([i \in 1..2 |-> ParseLore(input.docs[i])], input.text, input.found)

WindowQuestions == [n : 0..7, size : -1..4, overlap : -1..5]
LineQuestions == [lines : UpTo([starts : BOOLEAN, chars : 1..2], 5), least : 0..4]

ChunksCoverTheText ==
  /\ question = "windows" => WordsAreCovered(input.n, input.size, input.overlap)
  /\ question = "lines" => LinesAreCovered(input.lines, input.least)

-----------------------------------------------------------------------------
Items == [dir : {[kind |-> "none"], [kind |-> "dir", docs |-> {}]},
          json : {[kind |-> "none"], [kind |-> "json", valid |-> FALSE, entries |-> <<>>]}
                 \union {[kind |-> "json", valid |-> TRUE, entries |-> es] : es \in UpTo({"x", "y"}, 2)}]
DirOf(q) ==
  LET names == {n \in {<<b, s>> : b \in {"a", "b"}, s \in {"", ".json"}} :
                  (IF n[2] = "" THEN q[n[1]].dir ELSE q[n[1]].json).kind # "none"}
  IN [n \in names |-> IF n[2] = "" THEN q[n[1]].dir ELSE q[n[1]].json]
ListingOf(q) == SelectSeq(<<<<"a", "">>, <<"a", ".json">>, <<"b", "">>, <<"b", ".json">>>>,
                          LAMBDA n : n \in DOMAIN DirOf(q))

DiscoveryIsIdempotent == question = "discovery" => SameTwice(DirOf(input), ListingOf(input))

-----------------------------------------------------------------------------
(* Tools and commands.                                                     *)

Callers == {[known |-> TRUE, effective |-> e] : e \in SUBSET Perms}
Values == [type : {"str", "bool"}, value : {"0", "1"}]
SeenValues == {Coerced(a, v) : a \in {"str", "bool"}, v \in Values}
AnyTool == {[gate |-> "open"]}
           \union {[gate |-> "static", needs |-> n] : n \in SUBSET Perms}
           \union {[gate |-> "perCall", classify |-> [v \in SeenValues |-> IF v.value = "0" THEN n ELSE m], listing |-> l] :
                     n \in SUBSET Perms, m \in SUBSET Perms, l \in {Always} \union SUBSET Perms}
CallQuestions == [name : {"t"}, parses : BOOLEAN, annotation : {"str", "bool"}, value : Values, raises : {FALSE}]
ToolQuestions == [tool : AnyTool, caller : Callers, call : CallQuestions, alwaysOn : BOOLEAN, words : {<<>>, <<"t">>}, hits : {<<>>, <<"gone", "t">>}]

WhatIsHiddenIsDenied ==
  question = "tools" =>
    LET reg == PassiveSearch(RegisterTool(NoTools, "t", input.tool, input.alwaysOn),
                             RankTools({"t"}, input.words, input.hits, 4, 60, 0, 5), TRUE, 2)
    IN HiddenIsDenied(reg, input.caller, input.call)

Commands == {[ns |-> "model", sub |-> "", needs |-> {}, gated |-> FALSE],
             [ns |-> "user", sub |-> "info", needs |-> Perms, gated |-> TRUE]}
CommandQuestions == {q \in [entries : UpTo(Commands, 2), words : UpTo({"model", "user", "info"}, 3), caller : Callers] : q.words # <<>>}

CommandsAreRecordedAsTyped == question = "commands" => RecordedAsTyped(input.entries, input.words, input.caller)

-----------------------------------------------------------------------------
(* Memory.                                                                 *)

Mine == <<"user", "ann">>
Entity(name, scope, pinned, updated) ==
  [name |-> name, scope |-> scope, pinned |-> pinned, size |-> 20, updated |-> updated, mention |-> 0, vector |-> 1]
MemoryOf(marks, edges) ==
  [entity |-> [u \in 1..3 |-> Entity(IF u = 1 THEN <<"a">> ELSE <<"a", "b">>, marks[u][1], marks[u][2], u)],
   edges |-> edges]
Marks == {GlobalScope, Mine} \X {<<>>, GlobalScope, Mine}
Seers == {{}, {"Ann"}}
NoRepeats(seqs) == {s \in seqs : \A i, j \in DOMAIN s : s[i] = s[j] => i = j}
BlockQuestions == [marks : [1..3 -> Marks], words : NoRepeats(UpTo(1..3, 2)), users : Seers,
                   cost : {<<1, 2, 3>>, <<3, 1, 2>>}, budget : 2..6]

(* The block of memories stays within its budget and its scopes, and what  *)
(* is pinned is there whether or not a search found something as well.     *)
PinsAreNotDisplaced ==
  question = "block" =>
    LET g == MemoryOf(input.marks, {})
        visible == ResolveScopes("", input.users)
        near == [u \in 1..2 |-> u]
        With(words) == Block(g, visible, IF words = <<>> THEN <<>> ELSE SearchHits(g, visible, words, near, 2, 4, 60, 3),
                             input.cost, 1, input.budget)
        isPinned(u) == g.entity[u].pinned # <<>>
    IN /\ With(input.words).used <= input.budget
       /\ \A u \in Members(With(input.words).shown) : g.entity[u].scope \in visible
       /\ SelectSeq(With(input.words).shown, LAMBDA u : isPinned(u) /\ g.entity[u].pinned \in visible)
            = With(<<>>).shown

EdgeQuestions == [scope : [1..3 -> {GlobalScope, Mine}], users : Seers, detail : {"low", "high"},
                  edges : SUBSET ({<<1, r, 2>> : r \in {"IS_NOT", "SAID"}} \union {<<2, r, 1>> : r \in {"IS_NOT", "SAID"}}
                                  \union {<<1, "IS_NOT", 3>>, <<3, "SAID", 1>>})]
GraphAsked == MemoryOf([u \in 1..3 |-> <<input.scope[u], <<>>>>], input.edges)

(* Each relation of an entity to another one in scope is told once: the    *)
(* two directions of the same relation as one, different relations as two. *)
EdgesAreShownOnce ==
  question = "edges" =>
    LET g == GraphAsked
        visible == ResolveScopes("", input.users)
        noisy == IF input.detail = "low" THEN {"SAID"} ELSE {}
        told == FormatEntity(g, 1, visible, input.detail, {"SAID"})
        Is(e) == e \in g.edges /\ e[2] \notin noisy
    IN \A v \in 2..3, r \in {"IS_NOT", "SAID"} :
         LET to == Is(<<1, r, v>>) /\ g.entity[v].scope \in visible
             from == Is(<<v, r, 1>>) /\ g.entity[v].scope \in visible
         IN /\ {o \in told.out : o.relation = r /\ o.target = v}
                 = IF to THEN {[relation |-> r, target |-> v, mutual |-> from]} ELSE {}
            /\ [relation |-> r, source |-> v] \in told.in <=> (from /\ ~to)

(* What the model is shown of its memories: pins come first and stay, and  *)
(* each relation is told once.                                             *)
MemoriesAreShown == PinsAreNotDisplaced /\ EdgesAreShownOnce

(* The code does not keep these.  The reviewer of an issue sees the        *)
(* entities the issue is about: not those of two scopes.                   *)
Limits == [longest |-> 30, shortest |-> 10, bloat |-> 1, charsPerEdge |-> 20, between |-> 1, pins |-> 1, quiet |-> 1,
           mention |-> 1, stale |-> 2, alike |-> {}, fuzzy |-> {{<<"a", "b">>}}]
IssuesCanBeReviewed ==
  question = "edges" => \A i \in Issues(GraphAsked, 5, Limits) : \A u \in i.uids :
                          GraphAsked.entity[u].scope \in ReviewScopes(i)

(* An exact name in scope is found: not if enough names contain it.        *)
ExactNamesAreFound ==
  question = "edges" =>
    LET visible == ResolveScopes("", input.users)
    IN GraphAsked.entity[1].scope \in visible => Resolve(GraphAsked, 0, <<"a">>, visible, 2) = {1}

(* A session in a named server sees the server's memories: never.          *)
GuildMemoriesAreSeen ==
  question = "edges" => <<"guild", "yard">> \in CycleScopes([session |-> [server_name |-> "yard"]], <<>>, 3)

-----------------------------------------------------------------------------
(* What a model answers.                                                   *)

Fragments == [index : {0, 1}, id : {"", "a"}, name : {""}, part : {"p", "q"}]
Line0 == [kind |-> "delta", thought |-> FALSE, text |-> FALSE, fragments |-> <<>>]
StreamLines == {[Line0 EXCEPT !.kind = k] : k \in {"noise", "done"}} \union {[Line0 EXCEPT !.text = TRUE]}
               \union {[Line0 EXCEPT !.fragments = <<f>>] : f \in Fragments}
               \union {[Line0 EXCEPT !.fragments = <<[f EXCEPT !.index = 1 - @], f>>] : f \in Fragments}
AnswerQuestions == [lines : UpTo(StreamLines, 4), end : {"refused", "eof", "drop"}]
WrittenQuestions == UpTo({"{", "}", "name", "<t>", "</t>", "fence"}, 6) \union UpTo({"[L", "L]", "call()", "word", "fence"}, 5)
NudgeQuestions == [completions : UpTo([native : BOOLEAN, formats : SUBSET {"liquid", "tag"}], 4), max : 0..2]

(* A call is told once and whole, be it streamed in fragments that come    *)
(* interleaved, or written as text in wrappings that enclose each other;   *)
(* and a model that goes on writing calls as text is not sent back forever *)
CallsComeThroughOnce ==
  /\ question = "answer" => CallsAreWhole(input)
  /\ question = "written" => NoCallTwice(input)
  /\ question = "nudges" => NudgesEnd(input.completions, input.max)

(* The code does not keep these.  A call's arguments are not taken for the *)
(* call, and the answers to calls made together stay together.             *)
ArgumentsAreNoCall == question = "written" => OutermostIsTheCall(input)

ParallelAnswers(blocks) ==
  <<[role |-> "assistant", blocks |-> <<"text">>, marked |-> {}]>>
    \o [i \in DOMAIN blocks |-> [role |-> "tool", blocks |-> blocks[i], marked |-> {}]]
AnswersStayTogether ==
  question = "images" =>
    LET sent == Payload([cache |-> FALSE, thinks |-> FALSE, temperature |-> 0, effort |-> FALSE],
                        ParallelAnswers(input), {}).messages
    IN \A i \in 2..Len(input) + 1 : sent[i].role = "tool"

-----------------------------------------------------------------------------
(* What a chat shows.                                                      *)

ReplyLines == {BlankLine, [quote |-> FALSE, words |-> <<"a">>]} \union {[quote |-> TRUE, words |-> w] : w \in {<<"a">>, <<"a", "b">>, <<"@">>}}
QuoteQuestions == [lines : UpTo(ReplyLines, 4), candidates : UpTo({<<"a">>, <<"b", "a">>, <<"@">>}, 2), least : 1..2]
ChatEvent(k, t) == [kind |-> k, text |-> t]
TerminalQuestions == [a : UpTo({"nl", "fence", "x"}, 3), b : UpTo({"nl", "fence", "x"}, 3),
                      last : {ChatEvent(k, t) : k \in {"call", "files", "hush", "error", "final"}, t \in {<<>>, <<"x">>}}]
TurnEvents == {ChatEvent("chunk", <<"x">>), ChatEvent("final", <<>>), ChatEvent("final", <<"y", "z">>),
               ChatEvent("hush", <<>>), ChatEvent("error", <<>>)}
DeliveryQuestions == UpTo([chat : {"c", "d"}, event : TurnEvents], 4)

(* Telegram: what a turn's end sends depends on that turn of that chat.    *)
TurnsAreRenderedAlone(ds) ==
  ds # <<>> =>
    LET n == Len(ds)
        c == ds[n].chat
        ended == {k \in 1..(n - 1) : ds[k].chat = c /\ ds[k].event.kind # "chunk"}
        from == IF ended = {} THEN 1 ELSE CHOOSE k \in 2..n : k - 1 \in ended /\ \A j \in ended : j < k
        own == SelectSeq(SubSeq(ds, from, n), LAMBDA d : d.chat = c)
        Sent(x) == Delivered(x, {"c", "d"}, 1)[c]
    IN Sent(ds) = Sent(SubSeq(ds, 1, n - 1)) \o Sent(own)

(* The terminal: what is printed does not depend on how it was streamed.   *)
ChunkingIsUnseen(q) ==
  LET text(t) == ChatEvent("chunk", t)
  IN Shown(<<text(q.a), text(q.b), q.last>>) = Shown(<<text(q.a \o q.b), q.last>>)

(* A reply reaches its chat whole: on Discord in segments, on Telegram in  *)
(* chunks at the end of the turn, on the terminal block by block.          *)
RepliesArriveWhole ==
  /\ question = "quotes" => EveryLineIsSentOnce(input.lines, input.candidates, input.least, 4)
  /\ question = "terminal" => ChunkingIsUnseen(input)
  /\ question = "deliveries" => TurnsAreRenderedAlone(input)

(* The code does not keep this: of a reply with a quote that is longer     *)
(* than what is scanned, the head is sent as well.                         *)
LongRepliesArriveWhole == question = "quotes" => EveryLineIsSentOnce(input.lines, input.candidates, input.least, 3)

-----------------------------------------------------------------------------
(* Skills: two directories of up to two levels.                            *)

Dir(files, name) == [files |-> files, broken |-> FALSE, name |-> <<name>>, tools |-> {}]
Dirs == {Dir({"skill"}, "x"), Dir({"skill"}, "a"), Dir({"description"}, "-"), Dir({}, "-"),
         [Dir({"skill", "description"}, "y") EXCEPT !.broken = TRUE]}
Trees == {t \in UNION {[S -> Dirs] : S \in SUBSET {<<"a">>, <<"a", "b">>, <<"b">>}} :
            <<"a", "b">> \in DOMAIN t => <<"a">> \in DOMAIN t}
AllNames == {<<"a">>, <<"b">>, <<"a", "b">>, <<"x">>, <<"y">>}
Lower == [n \in AllNames |-> IF n = <<"y">> THEN <<"x">> ELSE n]
FoundIn(roots) == DiscoverSkills(roots, <<"a", "b">>)

(* What is shown of the skills is what use_skill() loads.                  *)
WhatIsShownLoads == question = "skills" => ShownSkillsLoad(FoundIn(input), Lower)
(* The code does not keep these.                                           *)
EverythingShownLoads == question = "skills" => AllShownSkillsLoad(FoundIn(input), Lower)
EverySkillIsFound == question = "skills" => AllSkillsAreFound(input, FoundIn(input))

-----------------------------------------------------------------------------
Questions ==
  \/ Pose("shell", ShellQuestions)
  \/ Pose("policy", PolicyQuestions)
  \/ Pose("lore", LoreQuestions)
  \/ Pose("windows", WindowQuestions)
  \/ Pose("lines", LineQuestions)
  \/ Pose("discovery", [{"a", "b"} -> Items])
  \/ Pose("tools", ToolQuestions)
  \/ Pose("commands", CommandQuestions)
  \/ Pose("block", BlockQuestions)
  \/ Pose("edges", EdgeQuestions)
  \/ Pose("answer", AnswerQuestions)
  \/ Pose("written", WrittenQuestions)
  \/ Pose("nudges", NudgeQuestions)
  \/ Pose("images", UpTo({<<"text">>, <<"text", "image">>}, 2))
  \/ Pose("quotes", QuoteQuestions)
  \/ Pose("terminal", TerminalQuestions)
  \/ Pose("deliveries", DeliveryQuestions)
  \/ Pose("skills", [1..2 -> Trees])

MCImplies == [p \in {"write", "read"} |-> IF p = "write" THEN {"read"} ELSE {}]
MCLegacy == << >>
MCTarget == [Ann |-> "ann", ann |-> "ann", yard |-> "yard"]
=============================================================================
