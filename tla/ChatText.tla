------------------------------ MODULE ChatText ------------------------------
(***************************************************************************)
(* How the bridges read and write the text of a chat: Discord's reply      *)
(* segments, mentions, compatibility rules and presence (bridges/discord), *)
(* what Telegram takes as addressed to the bot and how it renders a turn   *)
(* (bridges/telegram), and the terminal's stream of blocks (bridges/cli).  *)
(***************************************************************************)
EXTENDS Integers, Sequences, FiniteSets, SequencesExt

(* strip(): without the leading and the trailing members that are blank.   *)
Strip(seq, blank) ==
  LET full == {i \in DOMAIN seq : seq[i] \notin blank}
  IN IF full = {} THEN <<>> ELSE SubSeq(seq, Min(full), Max(full))

-----------------------------------------------------------------------------
(* quote_reply.py.  A reply is a sequence of lines [quote, words], a line  *)
(* without words and quote mark is blank; "@" stands for any mention.      *)

BlankLine == [quote |-> FALSE, words |-> <<>>]
Unmentioned(words) == SelectSeq(words, LAMBDA w : w # "@")
Within(a, b) == \E i \in 0..(Len(b) - Len(a)) : SubSeq(b, i + 1, i + Len(a)) = a

(* resolve_target(): the latest message (candidates: latest first) that    *)
(* holds the quote or is held by it; 0 if there is none.                   *)
ResolveTarget(quote, candidates, minLen) ==
  LET q == Unmentioned(quote)
      fits == {i \in DOMAIN candidates :
                 LET c == Unmentioned(candidates[i]) IN c # <<>> /\ (Within(q, c) \/ Within(c, q))}
  IN IF Len(q) < minLen \/ fits = {} THEN 0 ELSE Min(fits)

(* The spans of the quote blocks.                                          *)
QuoteBlocks(lines) ==
  LET from[i \in 1..(Len(lines) + 1)] ==
        LET ends == {j \in i..Len(lines) : ~lines[j].quote}
            end == IF ends = {} THEN Len(lines) ELSE Min(ends) - 1
        IN IF i > Len(lines) THEN <<>>
           ELSE IF ~lines[i].quote THEN from[i + 1]
           ELSE <<<<i, end>>>> \o from[end + 1]
  IN from[1]

(* Mutant: the last block's text is taken to end where it began.           *)
SegmentEndShort(blocks, i, n) == IF i < Len(blocks) THEN blocks[i + 1][1] - 1 ELSE blocks[i][2]
SegmentEnd(blocks, i, n) == IF i < Len(blocks) THEN blocks[i + 1][1] - 1 ELSE n

SplitIntoReplySegments(text, candidates, minLen, cap) ==
  LET scan == SubSeq(text, IF Len(text) > cap THEN Len(text) - cap + 1 ELSE 1, Len(text))
      blocks == QuoteBlocks(scan)
      Said(from, to) == Strip(SubSeq(scan, from, to), {BlankLine})
      SegmentOf(i) ==
        LET raw == SubSeq(scan, blocks[i][1], blocks[i][2])
            target == ResolveTarget(FlattenSeq([k \in DOMAIN raw |-> raw[k].words]), candidates, minLen)
            following == Said(blocks[i][2] + 1, SegmentEnd(blocks, i, Len(scan)))
        IN [lines |-> IF target # 0 THEN following ELSE raw \o following, target |-> target]
      segments == IF blocks = <<>> THEN <<[lines |-> Strip(text, {BlankLine}), target |-> 0]>>
                  ELSE <<[lines |-> Said(1, blocks[1][1] - 1), target |-> 0]>>
                       \o [i \in DOMAIN blocks |-> SegmentOf(i)]
  IN SelectSeq(segments, LAMBDA s : s.lines # <<>>)

(* Each line the agent wrote is sent once and in order, but the quotes     *)
(* that became a reply's target.                                           *)
EveryLineIsSentOnce(text, candidates, minLen, cap) ==
  LET blocks == QuoteBlocks(text)
      Words(span) == FlattenSeq([k \in 1..(span[2] - span[1] + 1) |-> text[span[1] + k - 1].words])
      resolved == {b \in ToSet(blocks) : ResolveTarget(Words(b), candidates, minLen) # 0}
      kept == {i \in DOMAIN text : text[i] # BlankLine /\ \A b \in resolved : i \notin b[1]..b[2]}
      segments == SplitIntoReplySegments(text, candidates, minLen, cap)
      sent == FlattenSeq([i \in DOMAIN segments |-> segments[i].lines])
  IN SelectSeq(sent, LAMBDA l : l # BlankLine)
       = FlattenSeq([i \in DOMAIN text |-> IF i \in kept THEN <<text[i]>> ELSE <<>>])

-----------------------------------------------------------------------------
(* mentions.py: a mention is <<"id", u>> on Discord's side and             *)
(* <<"at", name>> on the agent's; unknown ids keep their number.           *)

Humanize(text, nameOf) ==
  [i \in DOMAIN text |->
     IF text[i][1] # "id" THEN text[i]
     ELSE IF text[i][2] \in DOMAIN nameOf THEN <<"at", nameOf[text[i][2]]>> ELSE <<"at[]", text[i][2]>>]

Dehumanize(text, idOf) ==
  [i \in DOMAIN text |->
     IF text[i][1] = "at" /\ text[i][2] \in DOMAIN idOf THEN <<"id", idOf[text[i][2]]>> ELSE text[i]]

(* compat.py: the delay of the first rule that matches; a rule gives some  *)
(* of the keys content (the messages it matches), author and webhook.      *)
RuleMatches(rule, message) ==
  /\ "content" \in DOMAIN rule => message.content \in rule.content
  /\ "author" \in DOMAIN rule => message.author = rule.author
  /\ "webhook" \in DOMAIN rule => message.webhook = rule.webhook

Delay(rules, message) ==
  LET hits == {i \in DOMAIN rules : RuleMatches(rules[i].match, message)}
  IN IF hits = {} THEN 0 ELSE rules[Min(hits)].delay

(* cosmetics.py: what change_presence() is called with, "none" for None.   *)
Presence(cfg, statuses, types) ==
  IF cfg.status = "" /\ cfg.type = "" THEN [called |-> FALSE]
  ELSE [called |-> TRUE,
        status |-> IF cfg.status \in statuses THEN cfg.status ELSE "none",
        activity |-> CASE cfg.type = "custom" -> IF cfg.text \/ cfg.emoji THEN "custom" ELSE "none"
                       [] cfg.type \in types \union {"streaming"} -> IF cfg.text THEN cfg.type ELSE "none"
                       [] OTHER -> "none"]

-----------------------------------------------------------------------------
(* Telegram: _accepts().  The text that starts a turn, <<>> if none does.  *)

StripGroupAddress(text, names) == SelectSeq(text, LAMBDA w : w \notin names)

Accepted(message, bot) ==
  LET names == bot.aliases \union bot.username
      named == names \intersect ToSet(message.text) # {}
      mayWrite == ~message.fromBot /\ (bot.allowed = {} \/ message.sender \in bot.allowed)
      text == IF message.private \/ message.repliesToBot THEN message.text
              ELSE IF named THEN StripGroupAddress(message.text, names) ELSE <<>>
  IN IF ~mayWrite \/ text = <<>> THEN <<>>
     ELSE IF message.edited THEN <<"edited">> \o text ELSE text

(* ChatRenderer: text is gathered until the end and sent in chunks until a *)
(* send fails.  An event is [kind, text]; "hush" is a suppressed final.    *)
NewRenderer == [buf |-> <<>>, suppressed |-> FALSE]

Feed(renderer, event) ==
  CASE event.kind = "chunk" -> [renderer EXCEPT !.buf = @ \o event.text]
    [] event.kind = "final" -> IF event.text = <<>> THEN renderer ELSE [renderer EXCEPT !.buf = event.text]
    [] event.kind = "hush"  -> [renderer EXCEPT !.suppressed = TRUE]
    [] OTHER -> renderer

Chunks(text, limit) ==
  [i \in 1..((Len(text) + limit - 1) \div limit) |->
     SubSeq(text, (i - 1) * limit + 1, Min({i * limit, Len(text)}))]

Flushed(renderer, limit) == Chunks(IF renderer.suppressed THEN <<>> ELSE Strip(renderer.buf, {" "}), limit)

(* Mutant: the renderer stays.                                             *)
DeliverStale(acc, delivery, limit) ==
  LET chat == delivery.chat
      fed == Feed(acc.renderer[chat], delivery.event)
      ends == delivery.event.kind \in {"final", "hush", "error"}
  IN [renderer |-> [acc.renderer EXCEPT ![chat] = IF ends THEN [fed EXCEPT !.buf = <<>>] ELSE fed],
      sent |-> IF ends THEN [acc.sent EXCEPT ![chat] = @ \o Flushed(fed, limit)] ELSE acc.sent]
(* make_platform_handler(): one renderer per chat until its turn has ended *)
Deliver(acc, delivery, limit) ==
  LET chat == delivery.chat
      fed == Feed(acc.renderer[chat], delivery.event)
      ends == delivery.event.kind \in {"final", "hush", "error"}
  IN [renderer |-> [acc.renderer EXCEPT ![chat] = IF ends THEN NewRenderer ELSE fed],
      sent |-> IF ends THEN [acc.sent EXCEPT ![chat] = @ \o Flushed(fed, limit)] ELSE acc.sent]

Delivered(deliveries, chats, limit) ==
  FoldLeft(LAMBDA a, d : Deliver(a, d, limit),
           [renderer |-> [c \in chats |-> NewRenderer], sent |-> [c \in chats |-> <<>>]], deliveries).sent

-----------------------------------------------------------------------------
(* The terminal.  A text is a sequence of tokens, "nl" ends a line and     *)
(* "fence" is a line that opens or closes a code block.                    *)

Lines(buf) ==
  LET add(acc, t) == IF t = "nl" THEN Append(acc, <<>>) ELSE [acc EXCEPT ![Len(acc)] = Append(@, t)]
  IN FoldLeft(add, <<<<>>>>, buf)

Joined(lines) ==
  FlattenSeq([i \in DOMAIN lines |-> IF i = 1 THEN lines[i] ELSE <<"nl">> \o lines[i]])

(* Mutant: it is taken as it is.                                           *)
ReceivedAll(lines) == lines
(* lines[:-1]: the last line is still being streamed.                      *)
Received(lines) == SubSeq(lines, 1, Len(lines) - 1)

SplitBlocks(buf) ==
  LET lines == Lines(buf)
      Line(acc, i) ==
        LET line == lines[i]
            close == [acc EXCEPT !.blocks = Append(@, Append(acc.cur, line)), !.cur = <<>>, !.fence = FALSE, !.cut = i]
        IN CASE line # <<>> /\ Head(line) = "fence" ->
                  IF acc.fence THEN close ELSE [acc EXCEPT !.cur = Append(@, line), !.fence = TRUE]
             [] line = <<>> /\ ~acc.fence ->
                  [acc EXCEPT !.blocks = IF acc.cur = <<>> THEN @ ELSE Append(@, acc.cur), !.cur = <<>>, !.cut = i]
             [] OTHER -> [acc EXCEPT !.cur = Append(@, line)]
      end == FoldLeft(Line, [blocks |-> <<>>, cur |-> <<>>, fence |-> FALSE, cut |-> 0],
                      [i \in DOMAIN Received(lines) |-> i])
  IN [blocks |-> [i \in DOMAIN end.blocks |-> Joined(end.blocks[i])],
      rest |-> Joined(SubSeq(lines, end.cut + 1, Len(lines)))]

(* handle_event(), with what it prints in shown and thoughts.              *)
NewReply == [buf |-> <<>>, content |-> <<>>, think |-> <<>>, shown |-> <<>>, thoughts |-> <<>>,
             last |-> <<>>, done |-> FALSE]

FlushStream(cli) ==
  LET rest == Strip(cli.buf, {"nl"})
  IN [cli EXCEPT !.buf = <<>>, !.shown = IF rest = <<>> THEN @ ELSE Append(@, rest)]

HandleEvent(cli, event) ==
  LET whole == SplitBlocks(cli.buf \o event.text)
      thought == Lines(cli.think \o event.text)
      flushed == FlushStream(cli)
      final == Strip(event.text, {"nl"})
      Ended(c) == [c EXCEPT !.content = <<>>, !.buf = <<>>, !.think = <<>>, !.done = TRUE]
  IN CASE event.kind = "chunk" ->
            [cli EXCEPT !.content = @ \o event.text, !.buf = whole.rest, !.shown = @ \o whole.blocks]
       [] event.kind = "thought" ->
            [cli EXCEPT !.thoughts = @ \o SubSeq(thought, 1, Len(thought) - 1), !.think = thought[Len(thought)]]
       [] event.kind = "call" -> [flushed EXCEPT !.content = <<>>]
       [] event.kind = "files" -> flushed
       [] event.kind = "hush" -> Ended(cli)
       [] event.kind = "error" -> [flushed EXCEPT !.content = <<>>, !.done = TRUE]
       [] event.kind = "final" ->
            IF cli.content # <<>> THEN Ended([flushed EXCEPT !.last = Strip(cli.content, {"nl"})])
            ELSE IF final # <<>> THEN Ended([cli EXCEPT !.shown = Append(@, final), !.last = final])
            ELSE Ended(cli)

Shown(events) == FoldLeft(HandleEvent, NewReply, events)
=============================================================================
