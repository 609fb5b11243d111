------------------------------- MODULE UserStore -------------------------------
(* UserStore: the users table, the (platform, user id) index beside it, and    *)
(* the two write-through caches of shared, mutable User objects, as used by    *)
(* the bridges (resolve_user), the gateway (create, elevate), the slash        *)
(* commands and the sysops tools. Commands and bridges run on the event loop,  *)
(* each call a step; the tools run in worker threads, statement by statement,  *)
(* on the same SQLite connection and therefore in the same transaction.        *)
EXTENDS Permissions, Naturals, FiniteSets, Functions

CONSTANTS
    Names,      \* TinyCTX user names
    Ids,        \* platform identities
    CliId,      \* the identity create_user() gives a name, if the name is asked for there
    Handles,    \* what a platform shows for an identity: its username and display name
    Slug,       \* the user name a handle suggests: [Handles -> Names]
    Copies,     \* User objects alive at a time with one name (a bound)
    None,
    SelfMerge,  \* whether a user may be merged with himself
    ToolsOverlap,     \* whether calls on the loop run between the steps of a tool
    RequestsOverlap   \* whether other calls run while an elevate request's body is awaited

ASSUME StoreAssumption ==
    /\ CliId \in [Names -> Ids \cup {None}]
    /\ Slug \in [Handles -> Names] /\ Range(Slug) = Names
    /\ None \notin Names \cup Ids \cup Handles
    /\ IsFiniteSet(Ids) /\ Copies \in Nat /\ Copies >= Cardinality(Ids) + 4
    /\ SelfMerge \in BOOLEAN /\ ToolsOverlap \in BOOLEAN /\ RequestsOverlap \in BOOLEAN

VARIABLES
    db,       \* the tables as the connection sees them: users rows and the index
    kept,     \* the tables as last committed
    mem,      \* heap of User objects, and the caches by identity and by name
    job,      \* the sysops tool that is running in a worker thread
    request   \* the elevate request whose body is awaited: the object it holds

vars == <<db, kept, mem, job, request>>

\* A User object: the name it was made with, which never changes, and a number.
Objects    == Names \X (1..Copies)
Identities == [Ids -> Handles \cup {None}]
Row   == [over: Overrides, ids: Identities]
User  == [name: Names, over: Overrides, ids: Identities]
Named(n, row) == [name |-> n, over |-> row.over, ids |-> row.ids]
Idle == [at |-> "idle", from |-> None, to |-> None, obj |-> None]

\* A cache entry, an object and a row may each be None instead.
ASSUME NoneIsNoValue == None \notin Objects \cup User \cup Row

IdsOf(u) == {i \in Ids : u.ids[i] # None}

--------------------------------------------------------------------------------
(* The helpers of the store: on the tables d and the memory m. *)

Taken(d, n) == d.row[n] # None

Fresh(m, n) == <<n, CHOOSE k \in 1..Copies : m.heap[<<n, k>>] = None>>

\* Objects nobody refers to any more are gone.
Collected(m, held) ==
    LET used == Range(m.byId) \cup Range(m.byName) \cup held
    IN  [m EXCEPT !.heap = [o \in Objects |-> IF o \in used THEN m.heap[o] ELSE None]]

\* _load_user: always a new object, which replaces the cached one.
Load(d, m, n) ==
    IF ~Taken(d, n) THEN m
    ELSE [m EXCEPT !.heap[Fresh(m, n)] = Named(n, d.row[n]),
                   !.byName[n] = Fresh(m, n)]

GetUser(d, m, n) == IF m.byName[n] # None THEN m ELSE Load(d, m, n)

\* For a mutant: only the name is forgotten.
ObjectForgotten(m, o) == [m EXCEPT !.byName[m.heap[o].name] = None]

\* update_user and merge_users forget the name and every identity of the object.
Invalidate(m, o) ==
    LET u == m.heap[o]
    IN  [m EXCEPT !.byName[u.name] = None,
                  !.byId = [i \in Ids |-> IF i \in IdsOf(u) THEN None ELSE m.byId[i]]]

\* For a mutant: the name is not forgotten.
NameRemembered(m, n) ==
    IF m.byName[n] = None THEN m
    ELSE [m EXCEPT !.byId = [i \in Ids |-> IF i \in IdsOf(m.heap[m.byName[n]]) THEN None ELSE m.byId[i]]]

\* The identities to forget are those of the object cached under the name, if any.
InvalidateByName(m, n) ==
    IF m.byName[n] = None THEN m
    ELSE [m EXCEPT !.byName[n] = None,
                   !.byId = [i \in Ids |-> IF i \in IdsOf(m.heap[m.byName[n]]) THEN None ELSE m.byId[i]]]

Populate(m, o) ==
    LET u == m.heap[o]
    IN  [m EXCEPT !.byName[u.name] = o,
                  !.byId = [i \in Ids |-> IF i \in IdsOf(u) THEN o ELSE m.byId[i]]]

\* The statement of update_user: no row of that name, no effect.
Update(d, u) == IF Taken(d, u.name) THEN [d EXCEPT !.row[u.name] = [over |-> u.over, ids |-> u.ids]] ELSE d

Insert(d, n, i, h) ==
    [row   |-> [d.row EXCEPT ![n] = [over |-> NoOverrides, ids |-> [j \in Ids |-> IF j = i THEN h ELSE None]]],
     index |-> [d.index EXCEPT ![i] = n]]

\* _pick_username: the slug of what the platform shows, or a random free name.
PickUsername(d, h) == IF Taken(d, Slug[h]) THEN {n \in Names : ~Taken(d, n)} ELSE {Slug[h]}

\* The index is moved to the other name; for a mutant, it is forgotten.
NotReindexed(d, from, to) == d
Reindexed(d, from, to) == [d EXCEPT !.index = [i \in Ids |-> IF d.index[i] = from THEN to ELSE d.index[i]]]

Commit(d)  == db' = d /\ kept' = d
Rollback   == db' = kept /\ kept' = kept
\* What neither a cache nor the tool nor the request holds any more is collected.
Remember(m) == mem' = Collected(m, {job'.obj, request'})

\* A call on the event loop comes between two steps of a tool or request only if these overlap.
NoTool    == ToolsOverlap \/ job = Idle
NoRequest == RequestsOverlap \/ request = None
OnLoop == NoTool /\ NoRequest /\ UNCHANGED <<job, request>>

--------------------------------------------------------------------------------
(* A database of either older layout is migrated when the store is opened. *)
MigratedOverrides ==
    {MigratedFromLevel(l) : l \in DOMAIN Legacy}
        \cup {MigratedFromTemplate(l, o) : l \in DOMAIN Legacy, o \in Overrides}

NoCache == [heap |-> [o \in Objects |-> None], byId |-> [i \in Ids |-> None], byName |-> [n \in Names |-> None]]

Init ==
    \E index \in [Ids -> Names \cup {None}], over \in MigratedOverrides, h \in Handles :
        /\ db = [index |-> index,
                 row |-> [n \in Names |->
                     IF n \in Range(index)
                     THEN [over |-> over, ids |-> [i \in Ids |-> IF index[i] = n THEN h ELSE None]]
                     ELSE None]]
        /\ kept = db
        /\ mem = NoCache /\ job = Idle /\ request = None

--------------------------------------------------------------------------------
(* The bridges: resolve_user, on every inbound message. *)

\* _maybe_update_identity: a new handle is stored on the object and in the row,
\* and everything cached of the object is forgotten.
Recognise(m, o, i, h) ==
    IF m.heap[o].ids[i] \in {None, h} THEN [m |-> m, d |-> db, wrote |-> FALSE]
    ELSE LET m1 == [m EXCEPT !.heap[o].ids[i] = h]
         IN  [m |-> Invalidate(m1, o), d |-> Update(db, m1.heap[o]), wrote |-> TRUE]

ResolveCached(i, h) ==
    /\ OnLoop /\ mem.byId[i] # None
    /\ LET r == Recognise(mem, mem.byId[i], i, h)
       IN  /\ Remember(r.m)
           /\ IF r.wrote THEN Commit(r.d) ELSE UNCHANGED <<db, kept>>

\* Found in the index: loaded and cached. If the index names a user who is gone, he is to be
\* treated as new, but the second INSERT meets the old entry: rolled back, resolve_user raises.
ResolveIndexed(i, h) ==
    /\ OnLoop /\ mem.byId[i] = None /\ db.index[i] # None
    /\ LET n == db.index[i]
           m == Load(db, mem, n)
           o == m.byName[n]
           r == Recognise(m, o, i, h)
       IN  IF ~Taken(db, n) THEN Rollback /\ Remember(mem)
           ELSE /\ Remember([r.m EXCEPT !.byId[i] = o, !.byName[n] = o])
                /\ IF r.wrote THEN Commit(r.d) ELSE UNCHANGED <<db, kept>>

\* _create_user: both rows in one transaction, then both caches.
Created(n, i, h) ==
    LET m == [mem EXCEPT !.heap[Fresh(mem, n)] = Named(n, Insert(db, n, i, h).row[n])]
    IN  Commit(Insert(db, n, i, h)) /\ Remember(Populate(m, Fresh(mem, n)))

ResolveNew(i, h) ==
    /\ OnLoop /\ mem.byId[i] = None /\ db.index[i] = None
    /\ \E n \in PickUsername(db, h) : Created(n, i, h)

(* Read-only lookups: get_user (cron, gateway, prompt), get_by_platform (commands). *)
Get(n) == OnLoop /\ Remember(GetUser(db, mem, n)) /\ UNCHANGED <<db, kept>>

GetByPlatform(i) ==
    /\ OnLoop /\ mem.byId[i] = None /\ db.index[i] # None
    /\ Remember(Load(db, mem, db.index[i]))
    /\ UNCHANGED <<db, kept>>

(* create_user: an exact name; the identity it is given may be another user's by now. *)
Create(n) ==
    /\ OnLoop /\ CliId[n] # None /\ ~Taken(db, n)
    /\ IF db.index[CliId[n]] = None
       THEN Created(n, CliId[n], CHOOSE h \in Handles : Slug[h] = n)
       ELSE Rollback /\ Remember(mem)

--------------------------------------------------------------------------------
(* The slash commands and tools that change users; a command is one step. *)

\* permission_overrides[perm] = value, on the object get_user returns, then update_user.
Granted(m, o, p, value) == [m EXCEPT !.heap[o].over = Overridden(@, p, value)]

ModifyCommand(n, p, value) ==
    /\ OnLoop /\ GetUser(db, mem, n).byName[n] # None
    /\ LET m0 == GetUser(db, mem, n)
           o  == m0.byName[n]
           m1 == Granted(m0, o, p, value)
       IN  /\ Commit(Update(db, m1.heap[o]))
           /\ Remember(Invalidate(m1, o))

\* Reload under the name and cache it for every identity; no such row: an assertion fails.
Reload(d, m, n) == IF Taken(d, n) THEN Populate(Load(d, m, n), Load(d, m, n).byName[n]) ELSE m

Renamed(d, n, k) ==
    IF ~Taken(d, n) THEN d ELSE [d EXCEPT !.row = [x \in Names |-> CASE x = k -> d.row[n] [] x = n -> None
                                                                      [] OTHER -> d.row[x]]]

\* The command /user rename does at once what the tool does in four steps.
RenameCommand(n, k) ==
    /\ OnLoop /\ ~Taken(db, k)
    /\ LET d == Renamed(Reindexed(db, n, k), n, k) IN
           /\ Commit(d)
           /\ Remember(Reload(d, InvalidateByName(mem, n), k))

ToolStarts(rec) == job = Idle /\ NoRequest /\ job' = rec /\ UNCHANGED request
ToolSteps(from, to) == job.at = from /\ job' = to /\ UNCHANGED request

\* user_modify_permissions
ModifyGet(n) ==
    /\ GetUser(db, mem, n).byName[n] # None
    /\ LET m == GetUser(db, mem, n) IN
           /\ ToolStarts([Idle EXCEPT !.at = "modify", !.obj = m.byName[n]])
           /\ Remember(m)
    /\ UNCHANGED <<db, kept>>

ModifyWrite(p, value) ==
    /\ ToolSteps("modify", [job EXCEPT !.at = "modified"])
    /\ LET m == Granted(mem, job.obj, p, value)
       IN  Commit(Update(db, m.heap[job.obj])) /\ Remember(m)

ModifyForget ==
    /\ ToolSteps("modified", Idle)
    /\ Remember(Invalidate(mem, job.obj))
    /\ UNCHANGED <<db, kept>>

\* user_rename, and the command of the same effect; they touch users and index in one transaction.
RenameCheck(n, k) ==
    /\ ~Taken(db, k)
    /\ ToolStarts([Idle EXCEPT !.at = "rename", !.from = n, !.to = k])
    /\ Remember(mem) /\ UNCHANGED <<db, kept>>

RenameIndex ==
    /\ ToolSteps("rename", [job EXCEPT !.at = "reindexed"])
    /\ db' = Reindexed(db, job.from, job.to)
    /\ Remember(mem) /\ UNCHANGED kept

RenameRow ==
    /\ ToolSteps("reindexed", IF Taken(db, job.from) /\ Taken(db, job.to) THEN Idle
                              ELSE [job EXCEPT !.at = "renamed"])
    /\ IF Taken(db, job.from) /\ Taken(db, job.to) THEN Rollback ELSE Commit(Renamed(db, job.from, job.to))
    /\ Remember(mem)

RenameCaches ==
    /\ ToolSteps("renamed", Idle)
    /\ Remember(Reload(db, InvalidateByName(mem, job.from), job.to))
    /\ UNCHANGED <<db, kept>>

\* user_merge: both are loaded, the identities joined in memory, then in the tables.
Joined(u, v) == [u EXCEPT !.ids = [i \in Ids |-> IF u.ids[i] # None THEN u.ids[i] ELSE v.ids[i]]]

MergeLoad(n, k) ==
    /\ Taken(db, n) /\ Taken(db, k) /\ (SelfMerge \/ n # k)
    /\ LET m1 == Load(db, mem, n)
           o  == m1.byName[n]
           m2 == Load(db, m1, k)
           u  == Joined(m1.heap[o], m2.heap[m2.byName[k]])
       IN  /\ ToolStarts([at |-> "merge", from |-> k, to |-> n, obj |-> o])
           /\ Remember([m2 EXCEPT !.heap[o] = u])
    /\ UNCHANGED <<db, kept>>

MergeIndex ==
    /\ ToolSteps("merge", [job EXCEPT !.at = "pooled"])
    /\ db' = Reindexed(db, job.from, job.to)
    /\ Remember(mem) /\ UNCHANGED kept

MergeRows ==
    /\ ToolSteps("pooled", [job EXCEPT !.at = "merged"])
    /\ LET d == IF Taken(db, job.to) THEN [db EXCEPT !.row[job.to].ids = mem.heap[job.obj].ids] ELSE db
       IN  Commit([d EXCEPT !.row[job.from] = None])
    /\ Remember(mem)

MergeCaches ==
    /\ ToolSteps("merged", Idle)
    /\ Remember(Reload(db, Invalidate(InvalidateByName(mem, job.from), job.obj), job.to))
    /\ UNCHANGED <<db, kept>>

--------------------------------------------------------------------------------
(* The elevate request: the user is looked up, the body awaited, then all *)
(* overrides are replaced: everything granted, or none for a reset.       *)
ElevateGet(n) ==
    /\ request = None /\ NoTool
    /\ GetUser(db, mem, n).byName[n] # None
    /\ request' = GetUser(db, mem, n).byName[n]
    /\ UNCHANGED <<db, kept, job>>
    /\ Remember(GetUser(db, mem, n))

ElevateWrite(reset) ==
    /\ request # None /\ NoTool
    /\ LET m == [mem EXCEPT !.heap[request].over =
                    IF reset THEN NoOverrides ELSE [granted |-> Perms, revoked |-> {}]]
       IN  /\ Commit(Update(db, m.heap[request]))
           /\ request' = None
           /\ UNCHANGED job
           /\ Remember(Invalidate(m, request))

\* The process dies: what was not committed and everything in memory is lost.
Crash ==
    /\ Rollback
    /\ job' = Idle /\ request' = None /\ Remember(NoCache)

Loop ==
    \/ \E i \in Ids, h \in Handles : ResolveCached(i, h) \/ ResolveIndexed(i, h) \/ ResolveNew(i, h)
    \/ \E i \in Ids : GetByPlatform(i)
    \/ \E n \in Names : Get(n) \/ Create(n)
    \/ \E n \in Names, p \in Perms, value \in BOOLEAN : ModifyCommand(n, p, value)
    \/ \E n, k \in Names : RenameCommand(n, k)

Tool ==
    \/ \E n \in Names : ModifyGet(n)
    \/ \E p \in Perms, value \in BOOLEAN : ModifyWrite(p, value)
    \/ ModifyForget
    \/ \E n, k \in Names : RenameCheck(n, k)
    \/ RenameIndex \/ RenameRow \/ RenameCaches
    \/ \E n, k \in Names : MergeLoad(n, k)
    \/ MergeIndex \/ MergeRows \/ MergeCaches

Gateway ==
    \/ \E n \in Names : ElevateGet(n)
    \/ \E reset \in BOOLEAN : ElevateWrite(reset)

Next == Loop \/ Tool \/ Gateway \/ Crash
Spec == Init /\ [][Next]_vars

--------------------------------------------------------------------------------
Quiet == job = Idle /\ request = None

\* Every value has its shape, and the memory never runs out of objects.
TypeOK ==
    /\ db.row \in [Names -> Row \cup {None}] /\ db.index \in [Ids -> Names \cup {None}]
    /\ kept.row \in [Names -> Row \cup {None}] /\ kept.index \in [Ids -> Names \cup {None}]
    /\ mem.heap \in [Objects -> User \cup {None}]
    /\ mem.byId \in [Ids -> Objects \cup {None}] /\ mem.byName \in [Names -> Objects \cup {None}]
    /\ \A n \in Names : mem.byName[n] # None => mem.heap[mem.byName[n]] # None
    /\ \A i \in Ids : mem.byId[i] # None => mem.heap[mem.byId[i]] # None

\* Between calls, what resolve_user and get_user would answer from their caches is
\* what the tables say, through any sequence of renames, merges, changed handles,
\* grants and crashes: the write-through of users/store.py:648-662 forgets enough.
CachesAgree ==
    Quiet =>
        /\ \A n \in Names : mem.byName[n] # None =>
               /\ Taken(kept, n)
               /\ mem.heap[mem.byName[n]] = Named(n, kept.row[n])
        /\ \A i \in Ids : mem.byId[i] # None =>
               /\ kept.index[i] # None /\ Taken(kept, kept.index[i])
               /\ mem.heap[mem.byId[i]] = Named(kept.index[i], kept.row[kept.index[i]])

\* The committed tables agree on who is who, in every state, and so after any crash:
\* an identity in a user's row is indexed to that user, and to nobody else.
RowsAreIndexed ==
    \A n \in Names : Taken(kept, n) => \A i \in Ids : kept.row[n].ids[i] # None => kept.index[i] = n

\* Tables and caches tell the same of everybody: the tables always, the caches between calls.
StoreAgrees == CachesAgree /\ RowsAreIndexed

\* What a user was granted or denied changes by a grant, a denial, an elevation or a merge
\* of that user and by nothing else: changed handles write the whole row from a cached
\* object (users/store.py:483-494), and must not carry old overrides, or another's, with it.
OverridesChanged(i) ==
    /\ kept.index[i] # None
    /\ \/ kept'.index[i] = None
       \/ kept'.row[kept'.index[i]].over # kept.row[kept.index[i]].over

OverridesSurvive ==
    [][\A i \in Ids : OverridesChanged(i) =>
          \/ \E p \in Perms, value \in BOOLEAN : ModifyCommand(kept.index[i], p, value)
          \/ job.at = "modify" /\ mem.heap[job.obj].name = kept.index[i]
          \/ job.at = "pooled" /\ job.from = kept.index[i]
          \/ request # None /\ mem.heap[request].name = kept.index[i]]_kept

\* "Index points to a deleted user — treat as new" (users/store.py:398), and
\* resolve_user has an answer for every sender: no index entry without its row.
EveryoneResolves == Quiet => \A i \in Ids : kept.index[i] # None => Taken(kept, kept.index[i])

\* /elevate "grant (or revoke) full admin access for a user" (gateway:636): the user
\* who was looked up, by whatever name he goes when the body has arrived.
ElevationReachesItsUser ==
    [][\A reset \in BOOLEAN : ElevateWrite(reset) =>
          \A i \in IdsOf(mem.heap[request]) :
              /\ kept.index[i] # None /\ Taken(kept, kept.index[i])
              /\ kept'.row[kept.index[i]].over
                     = IF reset THEN NoOverrides ELSE [granted |-> Perms, revoked |-> {}]]_vars
================================================================================
