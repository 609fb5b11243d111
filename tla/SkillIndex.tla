----------------------------- MODULE SkillIndex -----------------------------
(***************************************************************************)
(* Skills (TinyCTX/modules/skills): what is found in the directories, what *)
(* the prompt lists of it, and what use_skill() makes of a name.           *)
(***************************************************************************)
EXTENDS Integers, Sequences, FiniteSets, SequencesExt

(* A directory tree is a function from paths (sequences of names) to       *)
(* [files, broken, name, tools]: which of SKILL.md ("skill") and           *)
(* DESCRIPTION.md ("description") it holds, whether the first is readable, *)
(* and what its head says.  A name asked for is a path too: <<"a", "b">>   *)
(* is "a/b".                                                               *)

Kind(dir) ==
  IF "skill" \in dir.files THEN (IF dir.broken THEN "none" ELSE "skill")
  ELSE IF "description" \in dir.files THEN "category" ELSE "none"

(* _scan_tree(), the order: depth first, iterdir() sorted, not into a      *)
(* category already known.  below says what is found below each path.      *)
Visited(tree, known, below, path) ==
  IF path \notin DOMAIN tree THEN <<>>
  ELSE IF Kind(tree[path]) = "skill" THEN <<path>>
  ELSE IF Kind(tree[path]) = "category" /\ path \notin known THEN <<path>> \o below[path]
  ELSE <<>>

Children(tree, order, known, below, path) ==
  FlattenSeq([i \in DOMAIN order |-> Visited(tree, known, below, Append(path, order[i]))])

Walk(tree, order, known) ==
  LET below[path \in DOMAIN tree \union {<<>>}] == Children(tree, order, known, below, path)
  IN below[<<>>]

(* Mutant: the last one found wins.                                        *)
WinsLast(found, name) == TRUE
Wins(found, name) == name \notin DOMAIN found.skills

Put(f, key, value) == [k \in DOMAIN f \union {key} |-> IF k = key THEN value ELSE f[k]]

(* What was found: the skill of a name, the lists of children by category  *)
(* (<<>> is the top level), and the order of all names.                    *)
FoundAt(root, tree, path) ==
  LET kind == Kind(tree[path])
  IN [kind |-> kind, name |-> IF kind = "skill" THEN tree[path].name ELSE path, at |-> <<root, path>>]

AddFound(acc, root, tree, path) ==
  LET dir == tree[path]
      entry == FoundAt(root, tree, path)
      listed == [acc.lists EXCEPT ![Front(path)] = Append(@, entry)]
  IN IF entry.kind = "category"
     THEN [acc EXCEPT !.lists = Put(listed, path, <<>>), !.names = Append(@, entry)]
     ELSE IF ~Wins(acc, dir.name) THEN acc
     ELSE [skills |-> Put(acc.skills, dir.name, [at |-> <<root, path>>, tools |-> dir.tools]),
           lists |-> listed, names |-> Append(acc.names, entry)]

AddRoot(acc, root, tree, order) ==
  LET walk == Walk(tree, order, DOMAIN acc.lists)
      upTo[i \in 0..Len(walk)] == IF i = 0 THEN acc ELSE AddFound(upTo[i - 1], root, tree, walk[i])
  IN upTo[Len(walk)]

(* _discover(): the directories in the order of their configuration.       *)
DiscoverSkills(roots, order) ==
  LET none == [skills |-> << >>, lists |-> [p \in {<<>>} |-> <<>>], names |-> <<>>]
      upTo[r \in 0..Len(roots)] == IF r = 0 THEN none ELSE AddRoot(upTo[r - 1], r, roots[r], order)
  IN upTo[Len(roots)]

Categories(found) == DOMAIN found.lists \ {<<>>}

(* _build_index_prompt(): the top level, and everything below those of its *)
(* categories that are expanded.                                           *)
IndexPrompt(found, expanded) ==
  ToSet(found.lists[<<>>])
    \union UNION {ToSet(found.lists[c]) : c \in {c \in Categories(found) : <<c[1]>> \in expanded}}

(* use_skill(): a category first, then a skill, then the same without case *)
UseSkillNamed(found, asked, tools, ephemeral, expanded, lower) ==
  LET same == SelectSeq(found.names, LAMBDA e : lower[e.name] = lower[asked])
      cats == SelectSeq(same, LAMBDA e : e.kind = "category")
      name == IF asked \in Categories(found) \union DOMAIN found.skills \/ same = <<>> THEN asked
              ELSE IF cats # <<>> THEN cats[1].name ELSE same[1].name
  IN IF name \in Categories(found)
     THEN [kind |-> "category", shows |-> ToSet(found.lists[name]), enables |-> {},
           expanded |-> IF ephemeral THEN expanded ELSE expanded \union {name}]
     ELSE IF name \in DOMAIN found.skills
     THEN [kind |-> "skill", at |-> found.skills[name].at, enables |-> found.skills[name].tools \intersect tools,
           expanded |-> expanded]
     ELSE [kind |-> "unknown", enables |-> {}, expanded |-> expanded]

(* collapse_skill_categories(); {<<"*">>} is all of them.                  *)
Collapse(paths, ephemeral, expanded) ==
  IF ephemeral THEN expanded ELSE IF paths = {<<"*">>} THEN {} ELSE expanded \ paths

-----------------------------------------------------------------------------
(* Every skill that the prompt or the listing of a category shows can be   *)
(* loaded by its name, and is the one shown: but for one that is called    *)
(* like a category.                                                        *)
ShownSkillsLoad(found, lower) ==
  \A e \in ToSet(found.names) :
    e.kind = "skill" /\ e.name \notin Categories(found) =>
      LET got == UseSkillNamed(found, e.name, {}, TRUE, {}, lower)
      IN got.kind = "skill" /\ got.at = e.at

(* The code does not keep these.  Every skill shown can be loaded.         *)
AllShownSkillsLoad(found, lower) ==
  \A e \in ToSet(found.names) :
    e.kind = "skill" => UseSkillNamed(found, e.name, {}, TRUE, {}, lower).kind = "skill"

(* A skill of a name of its own is found, also in a category that an       *)
(* earlier directory has as well.                                          *)
AllSkillsAreFound(roots, found) ==
  \A r \in DOMAIN roots : \A p \in DOMAIN roots[r] :
    Kind(roots[r][p]) = "skill" /\ (\A i \in 1..(Len(p) - 1) : Kind(roots[r][SubSeq(p, 1, i)]) = "category")
      => roots[r][p].name \in DOMAIN found.skills
=============================================================================
