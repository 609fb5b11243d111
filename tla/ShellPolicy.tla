----------------------------- MODULE ShellPolicy -----------------------------
(***************************************************************************)
(* How the shell tool reads a command and decides what it requires         *)
(* (TinyCTX/modules/shell): validate.py resolves a parsed command,         *)
(* perms.py classifies it by a table, policy.py compiles rule files that   *)
(* may extend one another.  Pure functions; the parse tree of tree-sitter  *)
(* is taken as given: a line is the set of its node types and the sequence *)
(* of its commands, a command a name and a sequence of arguments.          *)
(*                                                                         *)
(* The text of an argument is <<dashes, letters, has a value>>: x is       *)
(* <<0, {x}, FALSE>>, -ab is <<1, {a, b}, FALSE>>, --x=1 <<2, {x}, TRUE>>. *)
(***************************************************************************)
EXTENDS Integers, Sequences, FiniteSets, SequencesExt

NoName == "(not a literal word)"
Word(t) == [kind |-> "word", text |-> <<0, {t}, FALSE>>]
Flag(d, letters, v) == [kind |-> "flag", text |-> <<d, letters, v>>]
Expansion(t) == [kind |-> "expansion", text |-> <<0, {t}, FALSE>>]
Glob(t) == [kind |-> "glob", text |-> <<0, {t}, FALSE>>]
EndOfFlags == [kind |-> "end", text |-> <<2, {}, FALSE>>]

-----------------------------------------------------------------------------
(* validate.py: resolving a command.                                       *)

Atoms(f) == IF f[1] = 2 THEN {<<2, f[2], FALSE>>} ELSE {<<1, {c}, FALSE>> : c \in f[2]}

(* What comes before a bare "--"; after it everything is an operand.       *)
Ended(args, i) == \E j \in 1..(i - 1) : args[j].kind = "end"
IsFlag(args, i) == args[i].kind = "flag" /\ ~Ended(args, i)
Operand(args, i) == ~IsFlag(args, i) /\ (args[i].kind = "end" => Ended(args, i))

Operands(args) ==
  LET upTo[i \in 0..Len(args)] ==
        IF i = 0 THEN <<>> ELSE upTo[i - 1] \o (IF Operand(args, i) THEN <<args[i].text>> ELSE <<>>)
  IN upTo[Len(args)]

Build(name, args, redirects) ==
  LET flags == {args[i].text : i \in {j \in DOMAIN args : IsFlag(args, j)}}
      atoms == UNION {Atoms(f) : f \in flags}
  IN [name |-> name,
      atoms |-> atoms,
      flags |-> atoms \union flags,
      operands |-> Operands(args),
      redirects |-> {r.text : r \in redirects},
      dynamic |-> \/ \E i \in DOMAIN args : args[i].kind \in {"expansion", "glob"}
                  \/ \E r \in redirects : r.kind = "glob"]

NoSubcommand == <<0, {}, FALSE>>
Subcommand(cmd) == IF cmd.operands = <<>> THEN NoSubcommand ELSE cmd.operands[1]

Members(s) == {s[i] : i \in DOMAIN s}

(* The first node type the construct map does not allow, if any.           *)
DeniedConstructs(types, constructs) ==
  {t \in types : t \notin DOMAIN constructs \/ constructs[t] # "allow"}

-----------------------------------------------------------------------------
(* perms.py: what a command requires, by its entry in the table.  A prefix *)
(* of operands is a rule about the operands that begin with it.            *)

Help == <<2, {"help"}, FALSE>>

Unaccounted(spec, cmd) ==
  cmd.flags \ (spec.known \union {Help} \union UNION {r.flags : r \in spec.rules})

RuleFires(r, cmd) ==
  /\ r.flags = {} \/ r.flags \intersect cmd.flags # {}
  /\ r.operands = {} \/ r.operands \intersect Members(cmd.operands) # {}

EvalSpec(spec, cmd) ==
  LET sub == Subcommand(cmd)
  IN UNION { spec.perms,
             IF DOMAIN spec.sub = {} THEN {}
             ELSE IF sub \in DOMAIN spec.sub THEN spec.sub[sub] ELSE spec.default,
             IF cmd.operands # <<>> THEN spec.ifOperands ELSE {},
             UNION {r.add : r \in {q \in spec.rules : RuleFires(q, cmd)}},
             IF Unaccounted(spec, cmd) # {} THEN {"UNTRUSTED_EXEC"} ELSE {} }

(* Mutant: an argument that is not known replaces what was known.          *)
ClassifyWorstOnly(table, worst, cmd) ==
  IF cmd.dynamic THEN {"UNTRUSTED_EXEC"} \union (IF cmd.name \in DOMAIN worst THEN worst[cmd.name] ELSE {})
  ELSE UNION { IF cmd.name \in DOMAIN table THEN EvalSpec(table[cmd.name], cmd) ELSE {"UNTRUSTED_EXEC"},
               IF cmd.redirects # {} THEN {"FILE_WRITE"} ELSE {} }

Classify(table, worst, cmd) ==
  IF cmd.name = NoName THEN {"UNTRUSTED_EXEC"}
  ELSE UNION { IF cmd.name \in DOMAIN table THEN EvalSpec(table[cmd.name], cmd) ELSE {"UNTRUSTED_EXEC"},
               IF cmd.redirects # {} THEN {"FILE_WRITE"} ELSE {},
               IF cmd.dynamic THEN {"UNTRUSTED_EXEC"} ELSE {},
               IF cmd.dynamic /\ cmd.name \in DOMAIN worst THEN worst[cmd.name] ELSE {} }

(* required_permissions_for_shell(): a line that cannot be parsed, and a   *)
(* table that cannot be loaded, are worst cases.                           *)
Required(loaded, table, worst, constructs, line, backend) ==
  IF ~loaded THEN {"ROOT"}
  ELSE IF ~line.parsed THEN {"UNTRUSTED_EXEC"}
  ELSE UNION { UNION {Classify(table, worst, line.commands[i]) : i \in DOMAIN line.commands},
               IF DeniedConstructs(line.types, constructs) # {} THEN {"UNTRUSTED_EXEC"} ELSE {},
               IF backend THEN {"BACKEND_EXEC"} ELSE {} }

(* __main__.py: what an exit code is said to be.                           *)
Annotation(name, code) ==
  IF code = 0 THEN "none"
  ELSE IF code = 1 /\ name \in {"grep", "rg", "egrep", "fgrep", "diff", "test", "[", "find"} THEN "note"
  ELSE "exit"

(* __main__.py: where a command that was let through runs.                 *)
Dispatch(line, maxBytes, sandboxed, backend) ==
  IF line.bytes = 0 \/ line.bytes > maxBytes \/ ~line.parsed THEN "blocked"
  ELSE IF backend \/ ~sandboxed THEN "local" ELSE "sandbox"

-----------------------------------------------------------------------------
(* policy.py: rule files; a field may be absent.                           *)

Unset == {<<0, {"(absent)"}, FALSE>>}
AnyName == {"(absent)"}
NoPaths == {<<"(absent)">>}
Rule0 == [id |-> "", action |-> "allow", command |-> AnyName, subcommand |-> Unset,
          anyFlag |-> Unset, allFlags |-> Unset, noOperands |-> FALSE,
          allowedFlags |-> Unset, maxArgs |-> -1, matches |-> Unset,
          pathUnder |-> NoPaths, pathOutside |-> NoPaths, redirectUnder |-> NoPaths]

(* _compile_rule(): an allow-list allows, a deny-list denies or warns, and *)
(* a rule says something about the commands it is for.                     *)
WellFormed(r, default) ==
  /\ IF default = "deny" THEN r.action = "allow" ELSE r.action \in {"deny", "warn"}
  /\ \/ r.noOperands \/ r.maxArgs >= 0 \/ r.allowedFlags # Unset
     \/ r.command \notin {AnyName, {}}
     \/ \E f \in {r.subcommand, r.anyFlag, r.allFlags, r.matches} : f \notin {Unset, {}}
     \/ \E f \in {r.pathUnder, r.pathOutside, r.redirectUnder} : f \notin {NoPaths, {}}

Ids(rules) == {rules[i].id : i \in DOMAIN rules}

(* Mutant: the rules of the extending file stand alone.                    *)
MergeOwn(base, own, disable) == own

(* [r for r in rules if r.id not in gone]                                  *)
RulesLeft(rules, gone) ==
  LET upTo[i \in 0..Len(rules)] ==
        IF i = 0 THEN <<>> ELSE upTo[i - 1] \o (IF rules[i].id \in gone THEN <<>> ELSE <<rules[i]>>)
  IN upTo[Len(rules)]

(* _merge_rules(): base rules that are neither disabled nor replaced, in   *)
(* their order, then the file's own.                                       *)
Merge(base, own, disable) == RulesLeft(base, disable \union Ids(own)) \o own

(* perms.py's table: no command is claimed by two entries.                 *)
TableCompiles(entries) ==
  \A i, j \in DOMAIN entries :
    entries[i].names \intersect entries[j].names # {} => entries[i].id = entries[j].id

ByName(entries) ==
  [n \in UNION {entries[i].names : i \in DOMAIN entries} |->
     (CHOOSE e \in Members(entries) : n \in e.names).spec]

(* _compile() of a file that extends a compiled one, whose limit on the    *)
(* length of a command it may override.                                    *)
Inherited == -1

Compiles(base, file) ==
  /\ file.default = base.default
  /\ file.maxBytes = Inherited \/ file.maxBytes > 0
  /\ file.disable \subseteq Ids(base.rules)
  /\ Cardinality(Ids(file.rules)) = Len(file.rules)
  /\ \A i \in DOMAIN file.rules : WellFormed(file.rules[i], file.default)

Compile(base, file) ==
  [default |-> base.default,
   constructs |-> [t \in DOMAIN base.constructs \union DOMAIN file.constructs |->
                     IF t \in DOMAIN file.constructs THEN file.constructs[t] ELSE base.constructs[t]],
   rules |-> Merge(base.rules, file.rules, file.disable),
   maxBytes |-> IF file.maxBytes = Inherited THEN base.maxBytes ELSE file.maxBytes]

-----------------------------------------------------------------------------
(* validate.py: checking a line against a policy.  A path is a sequence of *)
(* names, absolute or below the workspace.                                 *)

Under(p, prefix) == IsPrefix(prefix, p)
UnderAny(p, prefixes) == \E q \in prefixes : Under(p, q)

(* os.path.normpath() of an absolute path: ".." drops a name, if there is. *)
Normalize(path, workspace) ==
  FoldLeft(LAMBDA acc, name : IF name = ".." THEN (IF acc = <<>> THEN acc ELSE Front(acc))
                              ELSE IF name = "." THEN acc ELSE Append(acc, name),
           <<>>, IF path.abs THEN path.names ELSE workspace \o path.names)

PathHit(cmd, pathOf, prefixes, inside) ==
  \/ cmd.dynamic
  \/ \E t \in Members(cmd.operands) \union cmd.redirects :
       IF inside THEN UnderAny(pathOf[t], prefixes) ELSE ~UnderAny(pathOf[t], prefixes)

Applies(rule, cmd) ==
  /\ rule.command = AnyName \/ (cmd.name # NoName /\ cmd.name \in rule.command)
  /\ rule.subcommand = Unset \/ Subcommand(cmd) \in rule.subcommand

DenyFires(rule, cmd, pathOf) ==
  /\ Applies(rule, cmd)
  /\ rule.anyFlag = Unset \/ cmd.flags \intersect rule.anyFlag # {}
  /\ rule.allFlags = Unset \/ rule.allFlags \subseteq cmd.flags
  /\ rule.noOperands => cmd.operands = <<>>
  /\ rule.redirectUnder = NoPaths \/ \E t \in cmd.redirects : UnderAny(pathOf[t], rule.redirectUnder)
  /\ rule.pathUnder = NoPaths \/ PathHit(cmd, pathOf, rule.pathUnder, TRUE)
  /\ rule.pathOutside = NoPaths \/ PathHit(cmd, pathOf, rule.pathOutside, FALSE)

(* An allow rule accounts for all of a command.                            *)
AllowPermits(rule, cmd) ==
  LET rest == IF rule.subcommand = Unset \/ cmd.operands = <<>> THEN cmd.operands ELSE Tail(cmd.operands)
  IN /\ ~cmd.dynamic /\ cmd.redirects = {}
     /\ Applies(rule, cmd)
     /\ cmd.atoms \subseteq (IF rule.allowedFlags = Unset THEN {} ELSE rule.allowedFlags)
     /\ Len(rest) <= (IF rule.maxArgs < 0 THEN 0 ELSE rule.maxArgs)
     /\ rule.matches # Unset => Members(rest) \subseteq rule.matches

(* check(): "refused" or "accepted".                                       *)
Verdict(line, policy, pathOf) ==
  LET cmds == line.commands
      Fires(c) == \E i \in DOMAIN policy.rules :
                    policy.rules[i].action = "deny" /\ DenyFires(policy.rules[i], c, pathOf)
      Covered(c) == \E i \in DOMAIN policy.rules : AllowPermits(policy.rules[i], c)
  IN IF \/ line.bytes = 0 \/ line.bytes > policy.maxBytes \/ ~line.parsed
        \/ DeniedConstructs(line.types, policy.constructs) # {}
        \/ cmds = <<>> /\ policy.default = "deny"
        \/ \E i \in DOMAIN cmds : cmds[i].name = NoName
        \/ policy.default = "deny" /\ \E i \in DOMAIN cmds : ~Covered(cmds[i])
        \/ policy.default = "allow" /\ \E i \in DOMAIN cmds : Fires(cmds[i])
     THEN "refused" ELSE "accepted"

(* An extension leaves every rule of its base in force that it neither     *)
(* disables nor replaces: a line refused (deny-list) or accepted           *)
(* (allow-list) by those rules alone is so by the compiled policy.         *)
UntouchedRulesHold(base, file, line, pathOf) ==
  LET compiled == Compile(base, file)
      untouched == [compiled EXCEPT !.rules = RulesLeft(base.rules, file.disable \union Ids(file.rules))]
      decided == IF base.default = "deny" THEN "accepted" ELSE "refused"
  IN Compiles(base, file) /\ Verdict(line, untouched, pathOf) = decided
       => Verdict(line, compiled, pathOf) = decided
=============================================================================
