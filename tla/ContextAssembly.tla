--------------------------- MODULE ContextAssembly ---------------------------
(***************************************************************************)
(* What the model is shown: Context.assemble() of TinyCTX/context.py with  *)
(* the hooks of TinyCTX/modules/ctx_tools, over every branch that the      *)
(* writers of agent.py and runtime.py can produce.                         *)
(*                                                                         *)
(* The variables are one branch of the conversation tree while the agent   *)
(* loop writes it; Prompt is the pure function that loads the branch,      *)
(* filters, transforms, merges and trims it.  An entry's text is its size  *)
(* in tokens (0 is blank text) plus whether it opens with a <think> block. *)
(***************************************************************************)
EXTENDS Integers, Sequences, FiniteSets

CONSTANTS
  Sizes,          \* sizes of messages, completions and tool outputs
  Thinking,       \* whether completions carry reasoning: a set of BOOLEANs
  Followups,      \* whether a post-completion hook queues a user turn: a set
                  \* of BOOLEANs
  Sigs,           \* distinct (tool name, arguments) pairs
  MaxCalls,       \* native tool calls in one completion, at most
  MaxEntries,     \* length at which the branch stops growing
  SystemSize,     \* size of the rendered system prompt (0: no prompt)
  FooterSize,     \* size of the user-role prompts (0: none)
  TokenLimit,     \* context.token_limit
  DedupAfter,     \* same_call_dedup_after
  TrimAfter,      \* tool_output.trim_after
  TruncateAfter,  \* tool_output.truncate_after
  MaxOutput,      \* tool_output.max_chars, in tokens
  Tokenade        \* tokenade_threshold

ASSUME BudgetAssumption ==
  /\ Sizes \subseteq Nat /\ Sigs # {} /\ Thinking \union Followups \subseteq BOOLEAN
  /\ {MaxCalls, MaxEntries, SystemSize, FooterSize, TokenLimit, DedupAfter,
      TrimAfter, TruncateAfter, MaxOutput, Tokenade} \subseteq Nat

VARIABLES
  branch,    \* the entries from the root to the tail, oldest first
  open,      \* calls of the last completion that have no result yet
  phase,     \* "idle", "top" (about to assemble) or "tools"
  cycle,     \* number of agent cycles that wrote on this branch
  ncalls     \* calls made so far (call ids are their numbers)

vars == <<branch, open, phase, cycle, ncalls>>

StubSize == 1      \* "[trimmed ...]" and "[Suspected Tokenade Blocked ...]"

Msg(role, size) == [role |-> role, size |-> size, think |-> FALSE, calls |-> {},
                    answers |-> 0, cycle |-> cycle, kept |-> {}]
TextSize(e) == e.size + (IF e.think THEN 1 ELSE 0)
Blank(e) == TextSize(e) = 0
CallIds(e) == {c.id : c \in e.calls}

-----------------------------------------------------------------------------
(* assemble(): the branch becomes the prompt.                              *)

Age(i) == Len(branch) - i
IsResult(i) == branch[i].role = "tool"
CallOf(i) ==      \* the call that entry i answers
  LET asst == CHOOSE j \in DOMAIN branch : branch[i].answers \in CallIds(branch[j])
  IN CHOOSE c \in branch[asst].calls : c.id = branch[i].answers

(* ctx_tools dedup, newest result first: a result is suppressed when the   *)
(* last kept result of the same call is far enough ahead.                  *)
DedupStep(acc, i) ==
  IF ~IsResult(i) THEN acc
  ELSE LET sig == CallOf(i).sig
       IN IF acc.seen[sig] > 0 /\ acc.seen[sig] - i > DedupAfter
          THEN [acc EXCEPT !.dropped = @ \union {i}]
          ELSE [acc EXCEPT !.seen[sig] = i]

Unseen == [seen |-> [s \in Sigs |-> 0], dropped |-> {}]

(* Mutant: the oldest result is the one that stays.                        *)
SuppressedOldestFirst ==
  LET Step(acc, i) ==
        IF ~IsResult(i) THEN acc
        ELSE LET sig == CallOf(i).sig
             IN IF acc.seen[sig] > 0 /\ i - acc.seen[sig] > DedupAfter
                THEN [acc EXCEPT !.dropped = @ \union {i}]
                ELSE [acc EXCEPT !.seen[sig] = i]
      scan[k \in 0..Len(branch)] == IF k = 0 THEN Unseen ELSE Step(scan[k - 1], k)
  IN scan[Len(branch)].dropped

Suppressed ==
  LET scan[k \in 0..Len(branch)] == IF k = 0 THEN Unseen ELSE DedupStep(scan[k - 1], Len(branch) + 1 - k)
  IN scan[Len(branch)].dropped
SuppressedCalls == {branch[i].answers : i \in Suppressed}
TrimmedCalls == {branch[i].answers : i \in {j \in DOMAIN branch : IsResult(j) /\ Age(j) > TrimAfter}}

(* Mutant: a completion always keeps its calls when none would be left.    *)
WithoutSomeCalls(e, gone) ==
  LET surviving == {c \in e.calls : c.id \notin gone}
  IN IF surviving = {} THEN e ELSE [e EXCEPT !.calls = surviving]

(* Both dedup and trim take calls off a completion, but leave one that has *)
(* no text of its own as it is.                                            *)
WithoutCalls(e, gone) ==
  LET surviving == {c \in e.calls : c.id \notin gone}
  IN IF surviving = {} /\ Blank(e) THEN e ELSE [e EXCEPT !.calls = surviving]

BlockTokenade(e) ==
  IF TextSize(e) < Tokenade THEN e
  ELSE [e EXCEPT !.size = StubSize, !.think = FALSE, !.calls = {}]

Latest(S) == IF S = {} THEN 0 ELSE CHOOSE i \in S : \A j \in S : j <= i
LastUser == Latest({i \in DOMAIN branch : branch[i].role = "user"})

(* trim_thinking = "auto": reasoning older than the last user entry goes.  *)
StripThinking(e, i) == IF i > LastUser THEN e ELSE [e EXCEPT !.think = FALSE]

TrimOutput(e, i) ==
  CASE e.role = "assistant" -> WithoutCalls(e, TrimmedCalls)
    [] e.role = "tool" /\ Age(i) > TrimAfter -> [e EXCEPT !.size = StubSize]
    [] e.role = "tool" /\ Age(i) > TruncateAfter /\ e.size > MaxOutput ->
         [e EXCEPT !.size = MaxOutput]
    [] OTHER -> e

Transformed(i) ==
  LET e == [branch[i] EXCEPT !.kept = {i}]
  IN TrimOutput(StripThinking(BlockTokenade(WithoutCalls(e, SuppressedCalls)), i), i)

Dialogue ==
  LET shown[k \in 0..Len(branch)] ==
        IF k = 0 THEN <<>>
        ELSE shown[k - 1] \o (IF k \in Suppressed THEN <<>> ELSE <<Transformed(k)>>)
  IN shown[Len(branch)]

(* The system block comes first; the user-role prompts go before the       *)
(* trailing run of user entries.                                           *)
WithPrompts(dialogue) ==
  LET body == Latest({i \in DOMAIN dialogue : dialogue[i].role # "user"})
      footer == IF FooterSize > 0 THEN <<Msg("user", FooterSize)>> ELSE <<>>
      system == IF SystemSize > 0 THEN <<Msg("system", SystemSize)>> ELSE <<>>
  IN system \o SubSeq(dialogue, 1, body) \o footer
            \o SubSeq(dialogue, body + 1, Len(dialogue))

CanMerge(prev, e) ==
  /\ e.role = prev.role
  /\ e.role \in {"user", "assistant"}
  /\ e.calls = {} /\ prev.calls = {}
MergeStep(acc, e) ==
  IF acc # <<>> /\ CanMerge(acc[Len(acc)], e)
  THEN [acc EXCEPT ![Len(acc)].size = @ + TextSize(e), ![Len(acc)].kept = @ \union e.kept]
  ELSE Append(acc, e)
Merge(messages) ==
  LET merged[k \in 0..Len(messages)] == IF k = 0 THEN <<>> ELSE MergeStep(merged[k - 1], messages[k])
  IN merged[Len(messages)]
Merged == Merge(WithPrompts(Dialogue))

(* Mutant: replayed reasoning is not counted.                              *)
CostOfContent(e) == 1 + e.size + Cardinality(e.calls)

(* Every message costs its text, its reasoning, its calls and an overhead. *)
Cost(e) == 1 + TextSize(e) + Cardinality(e.calls)
Tokens(messages) ==
  LET sum[k \in 0..Len(messages)] == IF k = 0 THEN 0 ELSE sum[k - 1] + Cost(messages[k])
  IN sum[Len(messages)]
HasDialogue(messages) == \E i \in DOMAIN messages : messages[i].role # "system"
Oldest(messages) ==
  CHOOSE k \in DOMAIN messages : messages[k].role # "system" /\ \A j \in 1..(k - 1) : messages[j].role = "system"

(* Mutant: the newest entry is dropped.                                    *)
DropNewest(messages) == SubSeq(messages, 1, Len(messages) - 1)

(* Mutant: the calls of a completion with text are kept, its first result  *)
(* goes.                                                                   *)
DropOldestResult(messages) ==
  LET k == Oldest(messages)
      gone == IF messages[k].calls # {} /\ k < Len(messages) THEN k + 1 ELSE k
  IN SubSeq(messages, 1, gone - 1) \o SubSeq(messages, gone + 1, Len(messages))

(* One pass of the budget loop.  A completion with calls and text loses    *)
(* its calls only; one without text goes with the results that follow it.  *)
DropOldest(messages) ==
  LET k == Oldest(messages)
      ids == CallIds(messages[k])
      run == CHOOSE n \in 0..(Len(messages) - k) :
               /\ \A j \in 1..n : messages[k + j].role = "tool" /\ messages[k + j].answers \in ids
               /\ k + n < Len(messages) =>
                    ~(messages[k + n + 1].role = "tool" /\ messages[k + n + 1].answers \in ids)
  IN IF messages[k].calls # {} /\ ~Blank(messages[k])
     THEN [messages EXCEPT ![k].calls = {}]
     ELSE SubSeq(messages, 1, k - 1) \o SubSeq(messages, k + run + 1, Len(messages))

TrimStep(messages) ==
  IF Tokens(messages) > TokenLimit /\ HasDialogue(messages) THEN DropOldest(messages) ELSE messages

(* A message goes in two passes at most: its calls, and then itself.       *)
Trim(messages) ==
  LET left[k \in 0..2 * Len(messages)] == IF k = 0 THEN messages ELSE TrimStep(left[k - 1])
  IN left[2 * Len(messages)]
Prompt == Trim(Merged)

-----------------------------------------------------------------------------
(* The writers of the branch.                                              *)

Init ==
  /\ branch = <<>>
  /\ open = <<>>
  /\ phase = "idle"
  /\ cycle = 0
  /\ ncalls = 0

Room == Len(branch) < MaxEntries
Write(e) == branch' = Append(branch, e)

(* Runtime.push(): a passive message is recorded, or a run starts.         *)
Push(size, trigger) ==
  /\ phase = "idle" /\ Room
  /\ Write([Msg("user", size) EXCEPT !.cycle = cycle + 1])
  /\ cycle' = cycle + 1
  /\ phase' = IF trigger THEN "top" ELSE "idle"
  /\ UNCHANGED <<open, ncalls>>

(* _drain_inbox(): a peer's digest or nudge becomes a user entry.          *)
Drain(size) ==
  /\ phase = "top" /\ Room
  /\ Write(Msg("user", size))
  /\ UNCHANGED <<open, phase, cycle, ncalls>>

NewCalls(sigs) == [i \in DOMAIN sigs |-> [id |-> ncalls + i, sig |-> sigs[i]]]

(* A completion is recorded, with the follow-up that a post-completion     *)
(* hook may queue behind it.                                               *)
Complete(size, think, sigs, followup) ==
  LET calls == NewCalls(sigs)
      e == [Msg("assistant", size) EXCEPT !.think = think, !.calls = {calls[i] : i \in DOMAIN calls}]
  IN /\ phase = "top" /\ Room
     /\ size > 0 \/ sigs # <<>>
     /\ branch' = Append(branch, e) \o (IF followup THEN <<Msg("user", 1)>> ELSE <<>>)
     /\ open' = calls
     /\ ncalls' = ncalls + Len(sigs)
     /\ phase' = IF sigs = <<>> THEN "idle" ELSE "tools"
     /\ UNCHANGED cycle

Result(size) ==
  /\ phase = "tools" /\ Room
  /\ Write([Msg("tool", size) EXCEPT !.answers = Head(open).id])
  /\ open' = Tail(open)
  /\ phase' = IF Len(open) = 1 THEN "top" ELSE "tools"
  /\ UNCHANGED <<cycle, ncalls>>

(* Mutant: the fork waits for calls of its spawner.                        *)
ForkWithOpenCalls(size) ==
  /\ phase = "tools" /\ Room
  /\ Write([Msg("user", size) EXCEPT !.cycle = cycle + 1])
  /\ cycle' = cycle + 1
  /\ phase' = "top"
  /\ UNCHANGED <<ncalls, open>>

(* spawn_fork: another run's branch starts here, while calls are open.     *)
Fork(size) ==
  /\ phase = "tools" /\ Room
  /\ Write([Msg("user", size) EXCEPT !.cycle = cycle + 1])
  /\ cycle' = cycle + 1
  /\ open' = <<>>
  /\ phase' = "top"
  /\ UNCHANGED ncalls

Next ==
  \/ \E size \in Sizes : Drain(size) \/ Result(size) \/ Fork(size)
                         \/ \E trigger \in BOOLEAN : Push(size, trigger)
  \/ \E size \in Sizes \union {0}, think \in Thinking, n \in 0..MaxCalls :
       \E sigs \in [1..n -> Sigs], followup \in Followups :
         Complete(size, think, sigs, followup)

Spec == Init /\ [][Next]_vars

-----------------------------------------------------------------------------
(* Properties of the prompt an inference gets.                             *)

Roles == {"user", "assistant", "tool"}

(* The branch is what the loop writes: calls are numbered as they come and *)
(* the open ones belong to the last completion (agent.py:325-411).         *)
TypeOK ==
  /\ \A i \in DOMAIN branch : branch[i].role \in Roles /\ branch[i].cycle \in 0..cycle
  /\ UNION {CallIds(branch[i]) : i \in DOMAIN branch} = 1..ncalls
  /\ phase = "tools" <=> open # <<>>
  /\ \A i \in DOMAIN open : open[i].id = ncalls - Len(open) + i

Kept(messages) == UNION {messages[i].kept : i \in DOMAIN messages}
Answers(messages, i, id) ==
  \E j \in (i + 1)..Len(messages) : messages[j].answers = id

(* The request fits the context window, reasoning and calls included,      *)
(* unless nothing but the system prompt is left (context.py:840-865).      *)
WithinBudget ==
  phase = "top" =>
    \/ ~HasDialogue(Prompt)
    \/ LET Weight(e) == 1 + (e.size + (IF e.think THEN 1 ELSE 0)) + Cardinality(e.calls)
           sum[k \in 0..Len(Prompt)] == IF k = 0 THEN 0 ELSE sum[k - 1] + Weight(Prompt[k])
       IN sum[Len(Prompt)] <= TokenLimit

(* Trimming to the budget drops the oldest turns: nothing that is dropped  *)
(* is newer than something that stays (context.py:842-863).                *)
OldestGoFirst ==
  phase = "top" =>
    \A i \in Kept(Merged) \ Kept(Prompt), j \in Kept(Prompt) : i < j

(* A call that was answered on the branch is answered in the prompt:       *)
(* "when an assistant+tool_call pair ages out, both must go together"      *)
(* (tests/test_context.py:356).                                            *)
CallsAnswered ==
  phase = "top" =>
    \A i \in DOMAIN Prompt : \A id \in CallIds(Prompt[i]) :
      Answers(branch, 0, id) => Answers(Prompt, i, id)

(* With dedup, the only answered calls that lose their result are those of *)
(* completions without text (ctx_tools, 75-79).                            *)
UnansweredOnlyIfBlank ==
  phase = "top" =>
    \A i \in DOMAIN Prompt : \A id \in CallIds(Prompt[i]) :
      Answers(branch, 0, id) /\ ~Answers(Prompt, i, id)
      => id \in SuppressedCalls /\ Prompt[i].size = 0

(* The other half: a result never reaches the model without its call.      *)
ResultsHaveCalls ==
  phase = "top" =>
    \A i \in DOMAIN Prompt : Prompt[i].role = "tool" =>
      \E j \in 1..(i - 1) : Prompt[i].answers \in CallIds(Prompt[j])

(* dedup hides a result only behind a newer result of the same call that   *)
(* stays, more than same_call_dedup_after entries ahead (ctx_tools, 47-62).*)
DedupKeepsNewest ==
  \A i \in Suppressed : \E j \in DOMAIN branch \ Suppressed :
    j > i + DedupAfter /\ IsResult(j) /\ CallOf(j).sig = CallOf(i).sig

(* "Every assistant entry AFTER" the last user entry "belongs to the       *)
(* agentcycle still in progress", every other one is "from a prior,        *)
(* finished cycle" (ctx_tools, 98-103): the reasoning of the cycle in      *)
(* progress is replayed to it.                                             *)
ThinkingKept ==
  phase = "top" =>
    \A i \in DOMAIN branch :
      branch[i].role = "assistant" /\ branch[i].cycle = cycle => Transformed(i).think = branch[i].think

(* "TinyCTX trims the oldest non-system turns" (README.md:107): the newest *)
(* user turn survives whenever it would fit beside the prompts.            *)
NewestTurnSurvives ==
  phase = "top" /\ LastUser > 0 =>
    \/ LastUser \in Kept(Prompt)
    \/ Tokens(WithPrompts(<<Transformed(LastUser)>>)) > TokenLimit
=============================================================================
