------------------------------ MODULE ModelText ------------------------------
(***************************************************************************)
(* What goes to a model and what comes back: the request                   *)
(* (TinyCTX/ai.py), the calls assembled from the fragments of a streamed   *)
(* answer, the calls a model writes as text (modules/output_parser) and    *)
(* how often it is asked to write them properly.                           *)
(***************************************************************************)
EXTENDS Integers, Sequences, FiniteSets, SequencesExt

-----------------------------------------------------------------------------
(* The request.  A message is [role, blocks, marked]: its blocks are "text"*)
(* or "image", and those marked are the ones a cache may end at.           *)

SplitImages(msg) ==
  IF msg.role # "tool" \/ "image" \notin ToSet(msg.blocks) THEN <<msg>>
  ELSE LET text == SelectSeq(msg.blocks, LAMBDA b : b # "image")
       IN <<[msg EXCEPT !.blocks = IF text = <<>> THEN <<>> ELSE <<text[1]>>],
            [role |-> "user", blocks |-> SelectSeq(msg.blocks, LAMBDA b : b = "image"), marked |-> {}]>>

Expanded(messages) == FlattenSeq([i \in DOMAIN messages |-> SplitImages(messages[i])])

InjectCacheControl(messages) ==
  LET systems == {i \in DOMAIN messages : messages[i].role = "system"}
  IN IF systems = {} THEN messages
     ELSE LET n == Len(messages[Max(systems)].blocks)
          IN [messages EXCEPT ![Max(systems)].marked = IF n = 0 THEN @ ELSE @ \union {n}]

Payload(llm, messages, tools) ==
  [messages |-> IF llm.cache THEN InjectCacheControl(Expanded(messages)) ELSE Expanded(messages),
   temperature |-> IF llm.thinks THEN 1 ELSE llm.temperature,
   options |-> {o \in {"tools", "thinking", "reasoning_effort", "cache_prompt"} :
                  CASE o = "tools" -> tools # {}
                    [] o = "thinking" -> llm.thinks
                    [] o = "reasoning_effort" -> llm.effort
                    [] o = "cache_prompt" -> llm.cache}]

-----------------------------------------------------------------------------
(* The answer.  A line of the stream is [kind, thought, text, fragments]:  *)
(* "noise" is skipped, "done" ends the answer, "delta" may hold a thought, *)
(* text and fragments [index, id, name, part] of calls.                    *)

Event(kind, call) == [kind |-> kind, call |-> call]
NoCall == [index |-> 0, id |-> "", name |-> "", parts |-> <<>>]

(* Mutant: a fragment continues the latest call.                           *)
AddFragmentLatest(buf, f) ==
  IF \A i \in DOMAIN buf : buf[i].index # f.index
  THEN Append(buf, [index |-> f.index, id |-> f.id, name |-> f.name, parts |-> <<f.part>>])
  ELSE [buf EXCEPT ![Len(buf)].parts = Append(@, f.part)]
AddFragment(buf, f) ==
  LET at == {i \in DOMAIN buf : buf[i].index = f.index}
      Kept(new, old) == IF new = "" THEN old ELSE new
      Grown(c) == [c EXCEPT !.id = Kept(f.id, @), !.name = Kept(f.name, @), !.parts = Append(@, f.part)]
  IN IF at = {} THEN Append(buf, Grown([NoCall EXCEPT !.index = f.index]))
     ELSE [buf EXCEPT ![Max(at)] = Grown(@)]

Heard(acc, line) ==
  IF acc.over \/ line.kind = "noise" THEN acc
  ELSE IF line.kind = "done" THEN [acc EXCEPT !.over = TRUE]
  ELSE [acc EXCEPT
         !.out = @ \o (IF line.thought THEN <<Event("thinking", NoCall)>> ELSE <<>>)
                   \o (IF line.text THEN <<Event("text", NoCall)>> ELSE <<>>),
         !.buf = FoldLeft(AddFragment, @, line.fragments)]

(* _stream_with_retry() and the error stream() adds: "refused" is a status *)
(* other than 200, "eof" and "drop" are how the connection ended.          *)
Streamed(answer) ==
  IF answer.end = "refused" THEN <<Event("error", NoCall)>>
  ELSE LET heard == FoldLeft(Heard, [out |-> <<>>, buf |-> <<>>, over |-> FALSE], answer.lines)
       IN IF answer.end = "eof" \/ heard.over
          THEN heard.out \o [i \in DOMAIN heard.buf |-> Event("call", heard.buf[i])]
          ELSE Append(heard.out, Event("error", NoCall))

(* A call is what the fragments of its index say, in order, and is told    *)
(* when the stream has ended well, after everything else, and once.        *)
CallsAreWhole(answer) ==
  LET told == Streamed(answer)
      ends == {i \in DOMAIN answer.lines : answer.lines[i].kind = "done"}
      read == IF ends = {} THEN answer.lines ELSE SubSeq(answer.lines, 1, Min(ends))
      all == FlattenSeq([i \in DOMAIN read |-> IF read[i].kind = "delta" THEN read[i].fragments ELSE <<>>])
      calls == SelectSeq(told, LAMBDA e : e.kind = "call")
      Of(x) == SelectSeq(all, LAMBDA f : f.index = x)
      well == answer.end # "refused" /\ (answer.end = "eof" \/ ends # {})
  IN /\ {c.call.index : c \in ToSet(calls)} = IF well THEN {f.index : f \in ToSet(all)} ELSE {}
     /\ \A i, j \in DOMAIN calls : calls[i].call.index = calls[j].call.index => i = j
     /\ \A c \in ToSet(calls) :
          /\ c.call.parts = [k \in DOMAIN Of(c.call.index) |-> Of(c.call.index)[k].part]
          /\ LET ids == {f.id : f \in ToSet(Of(c.call.index))} \ {""}
             IN IF ids = {} THEN c.call.id = "" ELSE c.call.id \in ids
     /\ IsSuffix(calls, told)
     /\ ~well <=> \E i \in DOMAIN told : told[i].kind = "error"

-----------------------------------------------------------------------------
(* Calls written as text (parser.py).  A text is a sequence of tokens:     *)
(* braces, "name" (a quoted name with its value, a member of the object it *)
(* stands in), the two ends of a <tool_call> tag, "fence" (a line of back  *)
(* quotes), the two ends of a Liquid list, "call()" (one Liquid call) and  *)
(* "word".                                                                 *)

(* finditer() of open, as little as possible, close.                       *)
FindIter(text, open, close) ==
  LET from[i \in 1..(Len(text) + 1)] ==
        LET closes == {j \in (i + 1)..Len(text) : text[j] = close}
        IN IF i > Len(text) THEN <<>>
           ELSE IF text[i] # open \/ closes = {} THEN from[i + 1]
           ELSE <<<<i, Min(closes)>>>> \o from[Min(closes) + 1]
  IN from[1]

Count(text, i, j, token) == Cardinality({k \in i..j : text[k] = token})
Depth(text, i, j) == Count(text, i, j, "{") - Count(text, i, j, "}")

(* _find_bare_json_spans(): outward from each name.                        *)
BareSpans(text) ==
  LET Opens(p) == {i \in 1..(p - 1) : Depth(text, i, p - 1) = 1 /\ text[i] = "{"}
      Closes(i) == {j \in i..Len(text) : Depth(text, i, j) = 0}
      SpanAt(p) ==
        IF text[p] # "name" \/ Opens(p) = {} THEN <<>>
        ELSE LET start == Max(Opens(p))
             IN IF Closes(start) = {} THEN <<>> ELSE <<<<start, Min(Closes(start))>>>>
      spans == FlattenSeq([p \in DOMAIN text |-> SpanAt(p)])
  IN SelectSeq([i \in DOMAIN spans |-> IF \E j \in 1..(i - 1) : spans[j] = spans[i] THEN <<>> ELSE spans[i]],
               LAMBDA s : s # <<>>)

(* _try_json_loads() and _extract_call_from_obj(): one whole object that   *)
(* has a name of its own.                                                  *)
IsCallObject(body) ==
  /\ body # <<>> /\ ToSet(body) \subseteq {"{", "}", "name"}
  /\ Depth(body, 1, Len(body)) = 0
  /\ \A j \in 1..(Len(body) - 1) : Depth(body, 1, j) > 0
  /\ \E p \in DOMAIN body : body[p] = "name" /\ Depth(body, 1, p) = 1

Inner(text, span) == SubSeq(text, span[1] + 1, span[2] - 1)
IsCall(format, text, span) ==
  CASE format = "liquid" -> Inner(text, span) = <<"call()">>
    [] format = "bare" -> IsCallObject(SubSeq(text, span[1], span[2]))
    [] OTHER -> IsCallObject(Inner(text, span))

(* Mutant: the spans already taken are not looked at.                      *)
OverlapsNever(spans, span) == FALSE
Overlaps(spans, span) == \E s \in spans : span[1] <= s[2] /\ s[1] <= span[2]

Pass(acc, format, text, spans) ==
  FoldLeft(LAMBDA a, s :
             IF Overlaps({c.span : c \in ToSet(a)}, s) \/ ~IsCall(format, text, s) THEN a
             ELSE Append(a, [format |-> format, span |-> s]),
           acc, spans)

ParseTextToolCalls(text) ==
  LET liquid == Pass(<<>>, "liquid", text, FindIter(text, "[L", "L]"))
      tag    == Pass(liquid, "tag", text, FindIter(text, "<t>", "</t>"))
      fenced == Pass(tag, "fenced", text, FindIter(text, "fence", "fence"))
  IN Pass(fenced, "bare", text, BareSpans(text))

(* What a model wrote once is reported once, whatever it is wrapped in.    *)
NoCallTwice(text) ==
  LET calls == ParseTextToolCalls(text)
  IN \A i, j \in DOMAIN calls : i # j => calls[i].span[2] < calls[j].span[1] \/ calls[j].span[2] < calls[i].span[1]

(* The call is the whole object, not one of its arguments: not if the      *)
(* arguments were written before the name.                                 *)
OutermostIsTheCall(text) ==
  \A c \in ToSet(ParseTextToolCalls(text)) :
    c.format = "bare" => ~ \E s \in ToSet(BareSpans(text)) :
      s[1] < c.span[1] /\ c.span[2] < s[2] /\ IsCall("bare", text, s)

-----------------------------------------------------------------------------
(* __main__.py: post_completion.  A completion says whether it made native *)
(* calls, and which formats of text calls it holds.                        *)

(* Mutant: one too many.                                                   *)
MayNudgeAgain(count, max) == count <= max

MayNudge(count, max) == count < max

PostCompletion(acc, completion, max) ==
  LET others == completion.formats \ {"liquid"}
      news == ~completion.native /\ "liquid" \in completion.formats /\ ~acc.notified
      nudge == ~completion.native /\ others # {} /\ MayNudge(acc.count, max)
  IN [notified |-> acc.notified \/ news,
      count |-> acc.count + (IF nudge THEN 1 ELSE 0),
      actions |-> IF ~news /\ (completion.native \/ others = {}) THEN acc.actions
                  ELSE Append(acc.actions, [followup |-> nudge, liquid |-> news])]

Nudged(completions, max) ==
  FoldLeft(LAMBDA a, c : PostCompletion(a, c, max), [notified |-> FALSE, count |-> 0, actions |-> <<>>], completions)

(* A cycle whose model keeps writing calls as text is sent back a bounded  *)
(* number of times, is told of Liquid once, and is not sent back for it.   *)
NudgesEnd(completions, max) ==
  LET actions == Nudged(completions, max).actions
      Times(key) == Cardinality({i \in DOMAIN actions : actions[i][key]})
      wrong == {i \in DOMAIN completions : ~completions[i].native /\ completions[i].formats \ {"liquid"} # {}}
  IN /\ Times("followup") = Min({max, Cardinality(wrong)})
     /\ Times("liquid") <= 1
=============================================================================
