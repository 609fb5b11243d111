------------------------------ MODULE Permissions ------------------------------
(* The capability algebra of permissions.py, users/models.py and the migration *)
(* code of users/store.py: what a user may do, given the one template of the   *)
(* configuration and the user's sparse overrides, what a call needs, and how   *)
(* the two older layouts of users.db are turned into overrides.                *)
CONSTANTS
    Perms,      \* the members of the Permission enum
    Unknown,    \* override keys that name no permission (renamed, removed, garbage)
    Implies,    \* what a permission entails, one level deep: [Perms -> SUBSET Perms]
    Template,   \* permissions.template of config.yaml
    Legacy      \* the frozen named templates, by the level they stood for

ASSUME PermissionsAssumption ==
    /\ Perms \cap Unknown = {}
    /\ Implies \in [Perms -> SUBSET Perms]
    /\ Template \in SUBSET Perms
    /\ Legacy \in [DOMAIN Legacy -> SUBSET Perms]

\* permission_overrides: {key: bool}, as the keys that are true and those that are false.
Overrides == {o \in [granted: SUBSET (Perms \cup Unknown), revoked: SUBSET (Perms \cup Unknown)] :
                 o.granted \cap o.revoked = {}}
NoOverrides == [granted |-> {}, revoked |-> {}]

\* permission_overrides[perm] = value, and (for a mutant) a grant that leaves the denial.
DenialKept(o, p, value) ==
    [granted |-> IF value THEN o.granted \cup {p} ELSE o.granted \ {p},
     revoked |-> IF value THEN o.revoked ELSE o.revoked \cup {p}]

Overridden(o, p, value) ==
    [granted |-> IF value THEN o.granted \cup {p} ELSE o.granted \ {p},
     revoked |-> IF value THEN o.revoked \ {p} ELSE o.revoked \cup {p}]

\* Override wins over the template either way; unknown keys are dropped.
Resolved(base, o) == (base \cup (o.granted \cap Perms)) \ o.revoked
Effective(o)      == Resolved(Template, o)

\* Expansion is of the requirement, never of the grant.
Expand(needed) == needed \cup UNION {Implies[p] : p \in needed}
Missing(needed, o) == Expand(needed) \ Effective(o)

\* What a migrated user is given: the difference to today's template.
SparseOverridesFor(perms) == [granted |-> perms \ Template, revoked |-> Template \ perms]

\* The two layouts before overrides: a level, or a named template with overrides.
MigratedFromLevel(level)       == SparseOverridesFor(Legacy[level])
MigratedFromTemplate(name, o)  == SparseOverridesFor(Resolved(Legacy[name], o))
===============================================================================
