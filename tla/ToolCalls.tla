------------------------------ MODULE ToolCalls ------------------------------
(***************************************************************************)
(* The registry a turn's tools live in (TinyCTX/tool_handling/handler.py)  *)
(* and the registry of slash commands (TinyCTX/utils/commands.py): what is *)
(* offered to the model, what a call or a command may do, and what is      *)
(* written down of a command.                                              *)
(*                                                                         *)
(* A tool's gate is "open" (required_permissions None), "static" (a set,   *)
(* needs) or "perCall" (classify, a function from arguments to permissions,*)
(* and listing, the permissions to be told of it, or Always).  A value is  *)
(* its type and its literal; a Boolean's literal is "0" or "1".            *)
(***************************************************************************)
EXTENDS Permissions, RankFusion, Integers, Sequences, FiniteSets

-----------------------------------------------------------------------------
(* Building the registry of a cycle: [tools, enabled, auto].               *)

Always == {"always"}
NoTools == [tools |-> << >>, enabled |-> {}, auto |-> {}]

RegisterTool(reg, name, tool, alwaysOn) ==
  [reg EXCEPT !.tools = [n \in DOMAIN @ \union {name} |-> IF n = name THEN tool ELSE @[n]],
              !.enabled = IF alwaysOn THEN @ \union {name} ELSE @]

(* apply_overrides(): runs last and wins; an unknown tool is skipped.      *)
ApplyOverride(reg, name, alwaysOn) ==
  IF name \notin DOMAIN reg.tools \/ alwaysOn = "unset" THEN reg
  ELSE [reg EXCEPT !.enabled = IF alwaysOn = "on" THEN @ \union {name} ELSE @ \ {name}]

(* rank_tools(): the vectors' store may lag behind the registry, and a     *)
(* name it alone knows keeps its rank from the others.                     *)
RankTools(known, words, hits, weight, k, least, topK) ==
  LET good == SelectSeq(FusedOrder(words, hits, weight, k),
                        LAMBDA n : n \in known /\ Fused(words, hits, n, weight, k) >= least)
  IN SubSeq(good, 1, IF topK < Len(good) THEN topK ELSE Len(good))

(* tools_search(): an exact name is enabled, anything else lists.          *)
ToolsSearch(reg, query, ranked, topK) ==
  IF query \in DOMAIN reg.tools
  THEN [reg |-> [reg EXCEPT !.enabled = @ \union {query}],
        says |-> IF query \in reg.enabled THEN "already" ELSE "enabled"]
  ELSE [reg |-> reg, says |-> IF DOMAIN reg.tools = {} \/ ranked = <<>> \/ topK = 0 THEN "nothing" ELSE "candidates"]

(* passive_search(): replaces what an earlier turn enabled by itself.      *)
PassiveSearch(reg, ranked, on, limit) ==
  [reg EXCEPT !.auto = IF on THEN {ranked[i] : i \in {j \in DOMAIN ranked : j <= limit}} ELSE {}]

-----------------------------------------------------------------------------
(* What the model is told of, and what it may call.                        *)

(* _tool_visible()                                                         *)
Visible(tool, effective) ==
  CASE tool.gate = "open" -> TRUE
    [] tool.gate = "static" -> tool.needs \subseteq effective
    [] tool.gate = "perCall" -> tool.listing = Always \/ tool.listing \subseteq effective

Offered(reg) == (reg.enabled \union reg.auto) \intersect DOMAIN reg.tools

(* get_tool_definitions(); nobody is [known |-> FALSE].                    *)
Definitions(reg, caller, minimal) ==
  IF ~minimal THEN Offered(reg)
  ELSE {n \in Offered(reg) : caller.known /\ Visible(reg.tools[n], caller.effective)}

(* _coerce_args() of one value: from what JSON gave to what the signature  *)
(* says; what cannot be converted is left for the function to refuse.      *)
Coerced(annotation, value) ==
  CASE annotation = value.type \/ annotation = "none" \/ (annotation = "int" /\ value.type = "bool") -> value
    [] annotation = "bool" /\ value.type # "bool" ->
         [type |-> "bool",
          value |-> IF value.value \in (IF value.type = "str" THEN {"false", "0", "no", ""} ELSE {"0"}) THEN "0" ELSE "1"]
    [] annotation = "int" /\ value.type = "str" /\ value.value \in {"0", "1"} -> [value EXCEPT !.type = "int"]
    [] annotation = "str" /\ value.type = "int" -> [value EXCEPT !.type = "str"]
    [] annotation = "str" /\ value.type = "bool" ->
         [type |-> "str", value |-> IF value.value = "0" THEN "False" ELSE "True"]
    [] OTHER -> value

Needs(tool, args) == IF tool.gate = "perCall" THEN tool.classify[args] ELSE tool.needs

(* Mutant: a call is let through when it has something of what it needs.   *)
DeniedIfNothing(tool, args, effective) ==
  tool.gate # "open" /\ Expand(Needs(tool, args)) \intersect effective = {}

(* The guard of execute_tool_call().                                       *)
Denied(tool, args, effective) ==
  tool.gate # "open" /\ ~(Expand(Needs(tool, args)) \subseteq effective)

(* execute_tool_call(): the classifier sees the coerced arguments.         *)
Execute(reg, call, caller) ==
  CASE call.name \notin Offered(reg) -> "not enabled"
    [] call.name \in Offered(reg) /\ ~call.parses -> "invalid arguments"
    [] OTHER ->
         LET tool == reg.tools[call.name]
             args == Coerced(call.annotation, call.value)
         IN IF tool.gate = "perCall" /\ args \notin DOMAIN tool.classify THEN "cannot classify"
            ELSE IF Denied(tool, args, caller.effective) THEN "denied"
            ELSE IF call.raises THEN "error" ELSE "result"

(* With minimal_tokens, a tool kept from the model's list is one the       *)
(* caller could not have called: listing saves tokens and takes nothing    *)
(* away.  For a classifier, as long as its listing permissions are needed  *)
(* by every call it allows, which is what they are declared for.           *)
HiddenIsDenied(reg, caller, call) ==
  LET tool == reg.tools[call.name]
  IN /\ call.name \in Offered(reg) \ Definitions(reg, caller, TRUE)
     /\ tool.gate = "perCall" /\ tool.listing # Always =>
          \A a \in DOMAIN tool.classify : tool.listing \subseteq Expand(tool.classify[a])
     => Execute(reg, call, caller) \notin {"result", "error"}

-----------------------------------------------------------------------------
(* Commands.  The registry is a sequence of [ns, sub, needs, gated];       *)
(* registering a pair again replaces it.                                   *)

RegisterCommand(entries, e) ==
  SelectSeq(entries, LAMBDA x : ~(x.ns = e.ns /\ x.sub = e.sub)) \o <<e>>

FindCommand(entries, ns, sub) == {i \in DOMAIN entries : entries[i].ns = ns /\ entries[i].sub = sub}

(* dispatch(), the part that chooses: words are those after the slash.  An *)
(* unknown second word is an argument of the bare command.                 *)
Chosen(entries, words) ==
  LET ns == words[1]
      sub == IF Len(words) > 1 THEN words[2] ELSE ""
      exact == FindCommand(entries, ns, sub)
      bare == FindCommand(entries, ns, "")
      none == [entry |-> 0, sub |-> sub, args |-> <<>>]
  IN CASE exact # {} -> [entry |-> CHOOSE i \in exact : TRUE, sub |-> sub, args |-> SubSeq(words, 3, Len(words))]
       [] exact = {} /\ sub # "" /\ bare # {} ->
            [entry |-> CHOOSE i \in bare : TRUE, sub |-> sub, args |-> SubSeq(words, 2, Len(words))]
       [] OTHER -> none

(* What is written of it, when the handler did not raise: the words of the *)
(* record_command_introspection() text.                                    *)
Recorded(words, chosen) ==
  <<words[1]>> \o (IF chosen.sub = "" THEN <<>> ELSE <<chosen.sub>>) \o chosen.args

(* What becomes of the text: TRUE is handled, and the bridge does not push *)
(* it as a message.                                                        *)
DispatchCommand(entries, words, caller, raises, introspection) ==
  LET c == Chosen(entries, words)
      denied == entries[c.entry].gated /\ ~(caller.known /\ Expand(entries[c.entry].needs) \subseteq caller.effective)
      nothing == [handled |-> FALSE, ran |-> FALSE, recorded |-> <<>>]
  IN IF words = <<>> \/ c.entry = 0 THEN nothing
     ELSE IF denied THEN [nothing EXCEPT !.handled = TRUE]
     ELSE [handled |-> TRUE, ran |-> TRUE,
           recorded |-> IF introspection /\ ~raises /\ words[1] # "reset" THEN Recorded(words, c) ELSE <<>>]

(* "write this command invocation + its reply as two real DB nodes --      *)
(* [user: /cmd]" (commands.py:231): what is recorded is what was typed.    *)
(* Not so: the first argument of a command without subcommand is recorded  *)
(* twice.                                                                  *)
RecordedAsTyped(entries, words, caller) ==
  LET d == DispatchCommand(entries, words, caller, FALSE, TRUE)
  IN d.recorded # <<>> => d.recorded = words
=============================================================================
