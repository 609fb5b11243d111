---------------------------- MODULE UserStoreProofs ----------------------------
(* What the users of the store can rely on, for every set of names and          *)
(* identities, every template and every old database: migrations that keep      *)
(* permissions, denials that hold, and caches that say what the tables say.     *)
(*                                                                              *)
(* Agree(d, m, X) is the core: what is cached in m is what the tables d say,    *)
(* but for the users named in X.  A call that changes a user puts his name into *)
(* X and takes it out again when it has forgotten or reloaded him; the lemmas   *)
(* follow the helpers of the store in that.                                     *)
EXTENDS UserStore, TLAPS, FiniteSetTheorems

--------------------------------------------------------------------------------
(* Permissions. *)

\* The sparse difference loses nothing: a user given it may do exactly what was resolved.
LEMMA SparseIsFaithful ==
    ASSUME NEW perms \in SUBSET Perms
    PROVE  /\ SparseOverridesFor(perms) \in Overrides
           /\ Effective(SparseOverridesFor(perms)) = perms
BY PermissionsAssumption DEF SparseOverridesFor, Overrides, Effective, Resolved

LEMMA MigratedIsResolved ==
    ASSUME NEW level \in DOMAIN Legacy, NEW o \in Overrides
    PROVE  Legacy[level] \in SUBSET Perms /\ Resolved(Legacy[level], o) \in SUBSET Perms
<1>1. Legacy[level] \in SUBSET Perms
  BY PermissionsAssumption
<1> QED
  BY <1>1 DEF Resolved

\* Opening a users.db of either older layout leaves every user what he could already do
\* (users/store.py:262-363): his level's permissions, or his template's with his overrides.
THEOREM MigrationKeepsPermissions ==
    ASSUME NEW level \in DOMAIN Legacy, NEW o \in Overrides
    PROVE  /\ Effective(MigratedFromLevel(level)) = Legacy[level]
           /\ Effective(MigratedFromTemplate(level, o)) = Resolved(Legacy[level], o)
BY MigratedIsResolved, SparseIsFaithful DEF MigratedFromLevel, MigratedFromTemplate

\* An explicit denial holds against any grant (permissions.py:164-178): a call that needs
\* the permission, or one that entails it, is missing it, whatever else the user was
\* granted, because the requirement is expanded and the grant is not.
THEOREM DenialsAreAuthoritative ==
    ASSUME NEW o \in Overrides, NEW needed \in SUBSET Perms, NEW p \in o.revoked \cap Perms,
           p \in needed \/ \E q \in needed : p \in Implies[q]
    PROVE  p \in Missing(needed, o)
BY DEF Missing, Expand, Effective, Resolved

\* Whatever is granted or denied, no key is both.
LEMMA OverridesStaySparse ==
    /\ NoOverrides \in Overrides
    /\ [granted |-> Perms, revoked |-> {}] \in Overrides
    /\ MigratedOverrides \subseteq Overrides
    /\ \A o \in Overrides, p \in Perms, value \in BOOLEAN : Overridden(o, p, value) \in Overrides
<1>1. NoOverrides \in Overrides /\ [granted |-> Perms, revoked |-> {}] \in Overrides
  BY DEF NoOverrides, Overrides
<1>2. MigratedOverrides \subseteq Overrides
  BY MigratedIsResolved, SparseIsFaithful, PermissionsAssumption
     DEF MigratedOverrides, MigratedFromLevel, MigratedFromTemplate
<1>3. ASSUME NEW o \in Overrides, NEW p \in Perms, NEW value \in BOOLEAN
      PROVE  Overridden(o, p, value) \in Overrides
  BY <1>3 DEF Overridden, Overrides
<1> QED
  BY <1>1, <1>2, <1>3

--------------------------------------------------------------------------------
(* Tables and memory. *)

\* The index names a user exactly for the identities in his row.
Indexed(d) == \A n \in Names, i \in Ids : d.index[i] = n <=> d.row[n] # None /\ d.row[n].ids[i] # None
Tables     == [row: [Names -> Row \cup {None}], index: [Ids -> Names \cup {None}]]
TablesOk(d) == d \in Tables /\ Indexed(d)

Memories == [heap: [Objects -> User \cup {None}], byId: [Ids -> Objects \cup {None}],
             byName: [Names -> Objects \cup {None}]]
MemOk(m) ==
    /\ m \in Memories
    /\ \A o \in Objects : m.heap[o] # None => m.heap[o].name = o[1]
    /\ \A n \in Names : m.byName[n] # None => m.byName[n][1] = n /\ m.heap[m.byName[n]] # None
    /\ \A i \in Ids : m.byId[i] # None => m.heap[m.byId[i]] # None

\* Every object is referred to by a cache, the tool or the request.
Tight(m, tool, held) ==
    \A o \in Objects : m.heap[o] # None => \/ \E i \in Ids : m.byId[i] = o
                                           \/ \E n \in Names : m.byName[n] = o
                                           \/ o \in {tool, held}
Roomy(m, n) == \E k \in 1..Copies : m.heap[<<n, k>>] = None

\* The object tells of user n what his row says.
Mirrors(d, m, o, n) == n \in Names /\ Taken(d, n) /\ o \in Objects /\ m.heap[o] = Named(n, d.row[n])
Agree(d, m, X) ==
    /\ \A n \in Names \ X : m.byName[n] # None => Mirrors(d, m, m.byName[n], n)
    /\ \A i \in Ids : m.byId[i] # None =>
           d.index[i] \in Names /\ (d.index[i] \in X \/ Mirrors(d, m, m.byId[i], d.index[i]))

\* Step from tables d to e: everybody but the users of X has the overrides he had.
SameOvers(d, e, X) ==
    \A i \in Ids : d.index[i] \in Names \ X =>
        e.index[i] \in Names /\ e.row[e.index[i]].over = d.row[d.index[i]].over

LEMMA Values ==
    /\ \A n \in Names, row \in Row : Named(n, row) \in User /\ Named(n, row).name = n
    /\ \A n \in Names, row \in Row : Named(n, row).over = row.over /\ Named(n, row).ids = row.ids
    /\ None \notin Objects /\ None \notin User /\ None \notin Row /\ None \notin Names
    /\ None \notin Ids /\ None \notin Handles
    /\ \A u \in User : u = Named(u.name, [over |-> u.over, ids |-> u.ids])
    /\ \A u \in User : [over |-> u.over, ids |-> u.ids] \in Row
    /\ \A o \in Objects : o[1] \in Names /\ o[2] \in 1..Copies /\ o = <<o[1], o[2]>>
BY StoreAssumption, NoneIsNoValue DEF Named, User, Row, Objects

--------------------------------------------------------------------------------
(* There is always room for one more object of a name: of those alive, one is   *)
(* cached under the name, and others only by an identity, the tool or the       *)
(* request.                                                                     *)

LEMMA ImageIsNoLarger ==
    ASSUME NEW S, IsFiniteSet(S), NEW f, NEW T, T = {f[x] : x \in S}
    PROVE  IsFiniteSet(T) /\ Cardinality(T) <= Cardinality(S)
<1> DEFINE g == [x \in S |-> f[x]]
<1>1. g \in Surjection(S, T)
  BY DEF Surjection
<1> QED
  BY <1>1, FS_Surjection

LEMMA OneMore ==
    ASSUME NEW S, IsFiniteSet(S), NEW x, NEW T, T = S \cup {x}
    PROVE  IsFiniteSet(T) /\ Cardinality(S) \in Nat /\ Cardinality(T) \in Nat
           /\ Cardinality(T) <= Cardinality(S) + 1
<1>1. IsFiniteSet(T) /\ Cardinality(S) \in Nat
  BY FS_AddElement, FS_CardinalityType
<1>2. Cardinality(T) = IF x \in S THEN Cardinality(S) ELSE Cardinality(S) + 1
  BY FS_AddElement
<1> QED
  BY <1>1, <1>2

LEMMA TightIsRoomy ==
    ASSUME NEW m, MemOk(m), NEW tool, NEW held, Tight(m, tool, held), NEW n \in Names
    PROVE  Roomy(m, n)
<1> SUFFICES ASSUME \A k \in 1..Copies : m.heap[<<n, k>>] # None PROVE FALSE
  BY DEF Roomy
<1> DEFINE cached == {m.byId[i] : i \in Ids}
           named == cached \cup {m.byName[n]}
           tools == named \cup {tool}
           used == tools \cup {held}
           number == [o \in used |-> o[2]]
           numbers == {number[o] : o \in used}
<1>1. IsFiniteSet(Ids) /\ Cardinality(Ids) \in Nat /\ Copies \in Nat /\ Copies >= Cardinality(Ids) + 4
  BY StoreAssumption, FS_CardinalityType
<1>2. IsFiniteSet(cached) /\ Cardinality(cached) \in Nat /\ Cardinality(cached) <= Cardinality(Ids)
  BY <1>1, ImageIsNoLarger, FS_CardinalityType
<1>3. IsFiniteSet(used) /\ Cardinality(used) \in Nat /\ Cardinality(used) <= Cardinality(Ids) + 3
  <2>1. IsFiniteSet(named) /\ Cardinality(named) \in Nat /\ Cardinality(named) <= Cardinality(cached) + 1
    <3> HIDE DEF cached
    <3> QED
      BY <1>2, OneMore
  <2>2. IsFiniteSet(tools) /\ Cardinality(tools) \in Nat /\ Cardinality(tools) <= Cardinality(named) + 1
    <3> HIDE DEF named
    <3> QED
      BY <2>1, OneMore
  <2>3. IsFiniteSet(used) /\ Cardinality(used) \in Nat /\ Cardinality(used) <= Cardinality(tools) + 1
    <3> HIDE DEF tools
    <3> QED
      BY <2>2, OneMore
  <2> HIDE DEF cached, named, tools, used
  <2> QED
    BY <1>1, <1>2, <2>1, <2>2, <2>3
<1>4. IsFiniteSet(numbers) /\ Cardinality(numbers) \in Nat /\ Cardinality(numbers) <= Cardinality(used)
  <2> HIDE DEF used, number
  <2> QED
    BY <1>3, ImageIsNoLarger, FS_CardinalityType
<1>5. 1..Copies \subseteq numbers
  <2> SUFFICES ASSUME NEW k \in 1..Copies PROVE k \in numbers
    OBVIOUS
  <2>1. <<n, k>> \in Objects /\ m.heap[<<n, k>>] # None
    BY DEF Objects
  <2>2. <<n, k>> \in used
    <3>1. ASSUME NEW p \in Names, m.byName[p] = <<n, k>> PROVE p = n
      <4>1. m.byName[p] # None
        BY <2>1, <3>1, Values
      <4>2. m.byName[p][1] = p
        BY <4>1 DEF MemOk
      <4> QED
        BY <3>1, <4>2
    <3> QED
      BY <2>1, <3>1 DEF Tight
  <2>3. number[<<n, k>>] = k
    BY <2>2
  <2> HIDE DEF used, number
  <2> QED
    BY <2>2, <2>3
<1>6. Cardinality(1..Copies) = Copies /\ Cardinality(1..Copies) <= Cardinality(numbers)
  <2> HIDE DEF numbers
  <2>1. Cardinality(1..Copies) = Copies
    BY <1>1, FS_Interval
  <2> QED
    BY <1>4, <1>5, <2>1, FS_Subset
<1> QED
  <2> HIDE DEF numbers, used
  <2> QED
    BY <1>1, <1>3, <1>4, <1>6

LEMMA FreshIs ==
    ASSUME NEW m, NEW n \in Names, Roomy(m, n)
    PROVE  Fresh(m, n) \in Objects /\ Fresh(m, n)[1] = n /\ m.heap[Fresh(m, n)] = None
<1> DEFINE k == CHOOSE k \in 1..Copies : m.heap[<<n, k>>] = None
<1>1. k \in 1..Copies /\ m.heap[<<n, k>>] = None
  BY DEF Roomy
<1>2. Fresh(m, n) = <<n, k>>
  BY DEF Fresh
<1> HIDE DEF k
<1> QED
  BY <1>1, <1>2 DEF Objects
--------------------------------------------------------------------------------
(* The helpers of the store. *)

LEMMA MirrorIsUser ==
    ASSUME NEW d, TablesOk(d), NEW m, NEW o, NEW n, Mirrors(d, m, o, n)
    PROVE  /\ d.row[n] \in Row /\ m.heap[o] \in User /\ m.heap[o] # None /\ m.heap[o].name = n
           /\ m.heap[o].over = d.row[n].over /\ m.heap[o].ids = d.row[n].ids
           /\ \A i \in Ids : i \in IdsOf(m.heap[o]) <=> d.index[i] = n
<1>1. d.row[n] \in Row
  BY DEF Mirrors, Taken, TablesOk, Tables
<1>2. /\ m.heap[o] \in User /\ m.heap[o] # None /\ m.heap[o].name = n
      /\ m.heap[o].over = d.row[n].over /\ m.heap[o].ids = d.row[n].ids
  BY <1>1, Values DEF Mirrors
<1>3. \A i \in Ids : i \in IdsOf(m.heap[o]) <=> d.index[i] = n
  BY <1>2 DEF IdsOf, TablesOk, Indexed, Mirrors, Taken
<1> QED
  BY <1>1, <1>2, <1>3

LEMMA OwnObject ==
    ASSUME NEW d, TablesOk(d), NEW m, MemOk(m), NEW o, NEW n, Mirrors(d, m, o, n)
    PROVE  n \in Names /\ Taken(d, n) /\ o \in Objects /\ o # None /\ o[1] = n /\ m.heap[o].name = n
<1>1. n \in Names /\ Taken(d, n) /\ o \in Objects
  BY DEF Mirrors
<1>2. m.heap[o] # None /\ m.heap[o].name = n
  BY MirrorIsUser
<1> QED
  BY <1>1, <1>2, Values DEF MemOk

\* Where the objects of the other users are as they were, so is what agrees.
LEMMA MirrorsStay ==
    ASSUME NEW d, TablesOk(d), NEW m, NEW o, NEW n, Mirrors(d, m, o, n),
           NEW e, e.row[n] = d.row[n], NEW k, k.heap[o] = m.heap[o]
    PROVE  Mirrors(e, k, o, n)
BY DEF Mirrors, Taken

Entered(m, n, o, b) == [m EXCEPT !.byName[n] = o, !.byId = b]
Stored(m, n, o, u)  == [m EXCEPT !.heap[o] = u, !.byName[n] = o]

LEMMA EnteredIs ==
    ASSUME NEW m, MemOk(m), NEW n \in Names, NEW f \in Objects \cup {None},
           NEW b \in [Ids -> Objects \cup {None}], NEW l, l = Entered(m, n, f, b)
    PROVE  l \in Memories /\ l.heap = m.heap /\ l.byName = [m.byName EXCEPT ![n] = f] /\ l.byId = b
<1>1. PICK h \in [Objects -> User \cup {None}], c \in [Ids -> Objects \cup {None}],
           e \in [Names -> Objects \cup {None}] : m = [heap |-> h, byId |-> c, byName |-> e]
  BY DEF MemOk, Memories
<1>2. [e EXCEPT ![n] = f] \in [Names -> Objects \cup {None}]
  OBVIOUS
<1>3. l = [heap |-> h, byId |-> b, byName |-> [e EXCEPT ![n] = f]]
  BY <1>1 DEF Entered
<1>4. m.heap = h /\ m.byName = e
  BY <1>1
<1>5. l \in Memories
  <2> DEFINE g == [e EXCEPT ![n] = f]
  <2>1. l = [heap |-> h, byId |-> b, byName |-> g] /\ g \in [Names -> Objects \cup {None}]
    BY <1>2, <1>3
  <2> HIDE DEF g
  <2> QED
    BY <2>1 DEF Memories
<1>6. l.heap = h /\ l.byId = b /\ l.byName = [e EXCEPT ![n] = f]
  <2> DEFINE g == [e EXCEPT ![n] = f]
  <2>1. l = [heap |-> h, byId |-> b, byName |-> g]
    BY <1>3
  <2> HIDE DEF g
  <2>2. l.heap = h /\ l.byId = b /\ l.byName = g
    BY <2>1
  <2> QED
    BY <2>2 DEF g
<1> QED
  BY <1>4, <1>5, <1>6

LEMMA StoredIs ==
    ASSUME NEW m, MemOk(m), NEW n \in Names, NEW f \in Objects, NEW u \in User,
           NEW l, l = Stored(m, n, f, u)
    PROVE  /\ l \in Memories /\ l.heap = [m.heap EXCEPT ![f] = u]
           /\ l.byName = [m.byName EXCEPT ![n] = f] /\ l.byId = m.byId
<1>1. PICK h \in [Objects -> User \cup {None}], c \in [Ids -> Objects \cup {None}],
           e \in [Names -> Objects \cup {None}] : m = [heap |-> h, byId |-> c, byName |-> e]
  BY DEF MemOk, Memories
<1>2. [e EXCEPT ![n] = f] \in [Names -> Objects \cup {None}] /\ [h EXCEPT ![f] = u] \in [Objects -> User \cup {None}]
  OBVIOUS
<1>3. l = [heap |-> [h EXCEPT ![f] = u], byId |-> c, byName |-> [e EXCEPT ![n] = f]]
  BY <1>1 DEF Stored
<1>4. m.heap = h /\ m.byName = e /\ m.byId = c
  BY <1>1
<1>5. l \in Memories
  <2> DEFINE g == [e EXCEPT ![n] = f]
             k == [h EXCEPT ![f] = u]
  <2>1. /\ l = [heap |-> k, byId |-> c, byName |-> g]
        /\ g \in [Names -> Objects \cup {None}] /\ k \in [Objects -> User \cup {None}]
    BY <1>2, <1>3
  <2> HIDE DEF g, k
  <2> QED
    BY <2>1 DEF Memories
<1>6. l.heap = [h EXCEPT ![f] = u] /\ l.byId = c /\ l.byName = [e EXCEPT ![n] = f]
  <2> DEFINE g == [e EXCEPT ![n] = f]
             k == [h EXCEPT ![f] = u]
  <2>1. l = [heap |-> k, byId |-> c, byName |-> g]
    BY <1>3
  <2> HIDE DEF g, k
  <2>2. l.heap = k /\ l.byId = c /\ l.byName = g
    BY <2>1
  <2> QED
    BY <2>2 DEF g, k
<1> QED
  BY <1>4, <1>5, <1>6

LEMMA LoadIs ==
    ASSUME NEW d, TablesOk(d), NEW m, MemOk(m), NEW n \in Names, Taken(d, n), Roomy(m, n),
           NEW l, l = Load(d, m, n)
    PROVE  /\ MemOk(l) /\ Mirrors(d, l, l.byName[n], n)
           /\ l.byId = m.byId
           /\ \A o \in Objects : m.heap[o] # None \/ o[1] # n => l.heap[o] = m.heap[o]
           /\ \A p \in Names \ {n} : l.byName[p] = m.byName[p]
           /\ \A i \in Ids : m.byId[i] # l.byName[n]
           /\ \A X : Agree(d, m, X) => Agree(d, l, X)
<1> DEFINE f == Fresh(m, n)
           u == Named(n, d.row[n])
<1>1. f \in Objects /\ f[1] = n /\ m.heap[f] = None
  BY FreshIs
<1>2. d.row[n] \in Row /\ u \in User /\ u.name = n /\ u # None
  BY Values DEF Taken, TablesOk, Tables
<1>3. l = Stored(m, n, f, u)
  BY DEF Load, Stored
<1> HIDE DEF f, u
<1>4. /\ l \in Memories /\ l.heap = [m.heap EXCEPT ![f] = u]
      /\ l.byName = [m.byName EXCEPT ![n] = f] /\ l.byId = m.byId
  BY <1>1, <1>2, <1>3, StoredIs
<1>5. /\ \A o \in Objects : l.heap[o] = IF o = f THEN u ELSE m.heap[o]
      /\ \A p \in Names : l.byName[p] = IF p = n THEN f ELSE m.byName[p]
      /\ \A i \in Ids : m.byId[i] \in Objects \cup {None}
      /\ \A p \in Names : m.byName[p] \in Objects \cup {None}
  BY <1>4 DEF MemOk, Memories
<1>6. MemOk(l)
  BY <1>1, <1>2, <1>4, <1>5 DEF MemOk
<1>7. Mirrors(d, l, l.byName[n], n)
  BY <1>1, <1>5 DEF Mirrors, u
<1>8. \A i \in Ids : m.byId[i] # l.byName[n]
  <2>1. \A i \in Ids : m.byId[i] # f
    BY <1>1, Values DEF MemOk
  <2> QED
    BY <1>5, <2>1
<1>9. ASSUME NEW X, Agree(d, m, X) PROVE Agree(d, l, X)
  <2>1. ASSUME NEW o, NEW p, Mirrors(d, m, o, p) PROVE Mirrors(d, l, o, p)
    <3>1. m.heap[o] # None /\ o \in Objects
      BY <2>1, MirrorIsUser DEF Mirrors
    <3> QED
      BY <1>1, <1>5, <2>1, <3>1, MirrorsStay
  <2>2. \A p \in Names \ X : l.byName[p] # None => Mirrors(d, l, l.byName[p], p)
    BY <1>5, <1>7, <1>9, <2>1 DEF Agree
  <2> QED
    BY <1>4, <1>9, <2>1, <2>2 DEF Agree
<1> QED
  BY <1>1, <1>4, <1>5, <1>6, <1>7, <1>8, <1>9

LEMMA GetUserIs ==
    ASSUME NEW d, TablesOk(d), NEW m, MemOk(m), NEW n \in Names, Roomy(m, n), Agree(d, m, {}),
           NEW l, l = GetUser(d, m, n)
    PROVE  MemOk(l) /\ Agree(d, l, {}) /\ (l.byName[n] # None => Mirrors(d, l, l.byName[n], n))
<1>1. CASE m.byName[n] # None \/ ~Taken(d, n)
  BY <1>1 DEF GetUser, Load, Agree
<1>2. CASE m.byName[n] = None /\ Taken(d, n)
  BY <1>2, LoadIs DEF GetUser
<1> QED
  BY <1>1, <1>2

\* Some cache entries of m are gone in l.
Forgets(m, l) ==
    /\ l \in Memories /\ l.heap = m.heap
    /\ \A n \in Names : l.byName[n] \in {None, m.byName[n]}
    /\ \A i \in Ids : l.byId[i] \in {None, m.byId[i]}

LEMMA ForgettingIsSafe ==
    ASSUME NEW m, MemOk(m), NEW l, Forgets(m, l)
    PROVE  MemOk(l) /\ \A d, X : Agree(d, m, X) => Agree(d, l, X)
<1>1. MemOk(l)
  BY DEF Forgets, MemOk
<1>2. ASSUME NEW d, NEW X, Agree(d, m, X) PROVE Agree(d, l, X)
  BY <1>2 DEF Agree, Forgets, Mirrors
<1> QED
  BY <1>1, <1>2

LEMMA InvalidateIs ==
    ASSUME NEW d, TablesOk(d), NEW m, MemOk(m), NEW o, NEW n, Mirrors(d, m, o, n),
           NEW l, l = Invalidate(m, o)
    PROVE  Forgets(m, l) /\ \A X : Agree(d, m, X) => Agree(d, l, X \ {n})
<1> DEFINE u == m.heap[o]
<1>1. n \in Names /\ u.name = n /\ \A i \in Ids : i \in IdsOf(u) <=> d.index[i] = n
  <2>1. n \in Names
    BY DEF Mirrors
  <2> QED
    BY <2>1, MirrorIsUser
<1>2. l = [m EXCEPT !.byName[n] = None, !.byId = [i \in Ids |-> IF i \in IdsOf(u) THEN None ELSE m.byId[i]]]
  BY <1>1 DEF Invalidate
<1> HIDE DEF u
<1>3. /\ l \in Memories /\ l.heap = m.heap /\ l.byName = [m.byName EXCEPT ![n] = None]
      /\ l.byId = [i \in Ids |-> IF i \in IdsOf(u) THEN None ELSE m.byId[i]]
  <2> DEFINE b == [i \in Ids |-> IF i \in IdsOf(u) THEN None ELSE m.byId[i]]
  <2>1. b \in [Ids -> Objects \cup {None}]
    BY DEF MemOk, Memories
  <2>2. l = Entered(m, n, None, b)
    BY <1>2 DEF Entered
  <2> HIDE DEF b
  <2>3. /\ l \in Memories /\ l.heap = m.heap /\ l.byName = [m.byName EXCEPT ![n] = None] /\ l.byId = b
    BY <1>1, <2>1, <2>2, EnteredIs
  <2> QED
    BY <2>3 DEF b
<1>4. /\ \A p \in Names : l.byName[p] = IF p = n THEN None ELSE m.byName[p]
      /\ \A i \in Ids : l.byId[i] = IF d.index[i] = n THEN None ELSE m.byId[i]
  BY <1>1, <1>3 DEF MemOk, Memories
<1>5. Forgets(m, l)
  BY <1>3, <1>4 DEF Forgets
<1>6. ASSUME NEW X, Agree(d, m, X) PROVE Agree(d, l, X \ {n})
  <2>1. Agree(d, l, X)
    BY <1>5, <1>6, ForgettingIsSafe
  <2> QED
    BY <1>4, <2>1 DEF Agree
<1> QED
  BY <1>5, <1>6

LEMMA InvalidateByNameIs ==
    ASSUME NEW m, MemOk(m), NEW n \in Names, NEW l, l = InvalidateByName(m, n)
    PROVE  Forgets(m, l) /\ l.byName[n] = None
<1>1. CASE m.byName[n] = None
  BY <1>1 DEF InvalidateByName, Forgets, MemOk, Memories
<1>2. CASE m.byName[n] # None
  <2> DEFINE ids == [i \in Ids |-> IF i \in IdsOf(m.heap[m.byName[n]]) THEN None ELSE m.byId[i]]
  <2>1. ids \in [Ids -> Objects \cup {None}] /\ \A i \in Ids : ids[i] \in {None, m.byId[i]}
    BY DEF MemOk, Memories
  <2>2. l = Entered(m, n, None, ids)
    BY <1>2 DEF InvalidateByName, Entered
  <2> HIDE DEF ids
  <2>3. l \in Memories /\ l.heap = m.heap /\ l.byName = [m.byName EXCEPT ![n] = None] /\ l.byId = ids
    BY <2>1, <2>2, EnteredIs
  <2> QED
    BY <2>1, <2>3 DEF Forgets, MemOk, Memories
<1> QED
  BY <1>1, <1>2

LEMMA PopulateIs ==
    ASSUME NEW d, TablesOk(d), NEW m, MemOk(m), NEW o, NEW n, Mirrors(d, m, o, n), o[1] = n,
           NEW l, l = Populate(m, o), NEW X, Agree(d, m, X)
    PROVE  MemOk(l) /\ Agree(d, l, X \ {n})
<1> DEFINE u == m.heap[o]
<1>1. n \in Names /\ o \in Objects /\ u # None /\ u.name = n /\ \A i \in Ids : i \in IdsOf(u) <=> d.index[i] = n
  BY MirrorIsUser DEF Mirrors
<1>2. l = [m EXCEPT !.byName[n] = o, !.byId = [i \in Ids |-> IF i \in IdsOf(u) THEN o ELSE m.byId[i]]]
  BY <1>1 DEF Populate
<1>3. u = m.heap[o]
  OBVIOUS
<1> HIDE DEF u
<1>4. /\ l \in Memories /\ l.heap = m.heap /\ l.byName = [m.byName EXCEPT ![n] = o]
      /\ l.byId = [i \in Ids |-> IF i \in IdsOf(u) THEN o ELSE m.byId[i]]
  <2> DEFINE b == [i \in Ids |-> IF i \in IdsOf(u) THEN o ELSE m.byId[i]]
  <2>1. b \in [Ids -> Objects \cup {None}]
    BY <1>1 DEF MemOk, Memories
  <2>2. l = Entered(m, n, o, b)
    BY <1>2 DEF Entered
  <2> HIDE DEF b
  <2>3. /\ l \in Memories /\ l.heap = m.heap /\ l.byName = [m.byName EXCEPT ![n] = o] /\ l.byId = b
    BY <1>1, <2>1, <2>2, EnteredIs
  <2> QED
    BY <2>3 DEF b
<1>5. /\ \A p \in Names : l.byName[p] = IF p = n THEN o ELSE m.byName[p]
      /\ \A i \in Ids : l.byId[i] = IF d.index[i] = n THEN o ELSE m.byId[i]
  BY <1>1, <1>4 DEF MemOk, Memories
<1>6. MemOk(l)
  BY <1>1, <1>3, <1>4, <1>5 DEF MemOk
<1>7. \A v, p : Mirrors(d, m, v, p) => Mirrors(d, l, v, p)
  BY <1>4 DEF Mirrors
<1>8. \A p \in Names \ (X \ {n}) : l.byName[p] # None => Mirrors(d, l, l.byName[p], p)
  BY <1>5, <1>7 DEF Agree
<1>9. ASSUME NEW i \in Ids, l.byId[i] # None
      PROVE  d.index[i] \in Names /\ (d.index[i] \in X \ {n} \/ Mirrors(d, l, l.byId[i], d.index[i]))
  BY <1>1, <1>5, <1>7, <1>9 DEF Agree
<1> QED
  BY <1>6, <1>8, <1>9 DEF Agree

LEMMA EnterIs ==
    ASSUME NEW d, NEW m, MemOk(m), NEW i \in Ids, NEW n, n = d.index[i], NEW o, Mirrors(d, m, o, n),
           m.heap[o] # None, o[1] = n, Agree(d, m, {}),
           NEW l, l = [m EXCEPT !.byId[i] = o, !.byName[n] = o]
    PROVE  MemOk(l) /\ Agree(d, l, {})
<1>1. n \in Names /\ o \in Objects
  BY DEF Mirrors
<1>2. /\ l \in Memories /\ l.heap = m.heap /\ l.byName = [m.byName EXCEPT ![n] = o]
      /\ l.byId = [m.byId EXCEPT ![i] = o]
  BY <1>1 DEF MemOk, Memories
<1>3. /\ \A p \in Names : l.byName[p] = IF p = n THEN o ELSE m.byName[p]
      /\ \A j \in Ids : l.byId[j] = IF j = i THEN o ELSE m.byId[j]
  BY <1>1, <1>2 DEF MemOk, Memories
<1>4. MemOk(l)
  BY <1>1, <1>2, <1>3 DEF MemOk
<1>5. \A v, p : Mirrors(d, m, v, p) => Mirrors(d, l, v, p)
  BY <1>2 DEF Mirrors
<1>6. Agree(d, l, {})
  BY <1>1, <1>3, <1>5 DEF Agree
<1> QED
  BY <1>4, <1>6

LEMMA ReloadIs ==
    ASSUME NEW d, TablesOk(d), NEW m, MemOk(m), NEW n \in Names, Taken(d, n), Roomy(m, n),
           Agree(d, m, {n}), NEW l, l = Reload(d, m, n)
    PROVE  MemOk(l) /\ Agree(d, l, {})
<1> DEFINE k == Load(d, m, n)
           o == k.byName[n]
<1>1. /\ MemOk(k) /\ Mirrors(d, k, o, n) /\ Agree(d, k, {n})
  BY LoadIs
<1>2. o[1] = n
  <2>1. o # None
    BY <1>1, Values DEF Mirrors
  <2> QED
    BY <1>1, <2>1 DEF MemOk
<1>3. l = Populate(k, o)
  BY DEF Reload
<1> HIDE DEF k, o
<1>4. MemOk(l) /\ Agree(d, l, {n} \ {n})
  BY <1>1, <1>2, <1>3, PopulateIs
<1>5. {n} \ {n} = {}
  OBVIOUS
<1> QED
  BY <1>4, <1>5

\* An object is changed and its user's row written from it.
Changed(m, o, u) == [m EXCEPT !.heap[o] = u]
Rewritten(d, e, k, o, n) ==
    /\ TablesOk(e) /\ MemOk(k) /\ Mirrors(e, k, o, n) /\ Agree(e, k, {n})
    /\ e.index = d.index /\ SameOvers(d, e, {n})

LEMMA ChangedIs ==
    ASSUME NEW m, MemOk(m), NEW o \in Objects, NEW u \in User, u.name = o[1], NEW k, k = Changed(m, o, u)
    PROVE  /\ MemOk(k) /\ k.byName = m.byName /\ k.byId = m.byId
           /\ \A v \in Objects : k.heap[v] = IF v = o THEN u ELSE m.heap[v]
<1>1. k \in Memories /\ k.heap = [m.heap EXCEPT ![o] = u] /\ k.byName = m.byName /\ k.byId = m.byId
  BY DEF MemOk, Memories, Changed
<1>2. \A v \in Objects : k.heap[v] = IF v = o THEN u ELSE m.heap[v]
  BY <1>1 DEF MemOk, Memories
<1> QED
  BY <1>1, <1>2, Values DEF MemOk, Memories

LEMMA RewriteIs ==
    ASSUME NEW d, TablesOk(d), NEW m, MemOk(m), NEW o, NEW n, Mirrors(d, m, o, n), Agree(d, m, {}),
           NEW u \in User, u.name = n, IdsOf(u) = IdsOf(m.heap[o]),
           NEW k, k = Changed(m, o, u), NEW e, e = Update(d, u)
    PROVE  Rewritten(d, e, k, o, n) /\ e.row[n].over = u.over
<1>1. o[1] = n
  BY OwnObject
<1>2. /\ n \in Names /\ o \in Objects /\ u # None /\ u = Named(n, [over |-> u.over, ids |-> u.ids])
      /\ [over |-> u.over, ids |-> u.ids] \in Row /\ [over |-> u.over, ids |-> u.ids] # None
  BY Values DEF Mirrors
<1>3. /\ MemOk(k) /\ k.byName = m.byName /\ k.byId = m.byId
      /\ \A v \in Objects : k.heap[v] = IF v = o THEN u ELSE m.heap[v]
  BY <1>1, <1>2, ChangedIs
<1>4. \A v \in Objects : k.heap[v] = IF v = o THEN u ELSE m.heap[v]
  BY <1>3
<1>6. e = [d EXCEPT !.row[n] = [over |-> u.over, ids |-> u.ids]]
  BY DEF Update, Mirrors
<1> DEFINE r == [over |-> u.over, ids |-> u.ids]
<1>7. r \in Row /\ r # None /\ r.ids = u.ids /\ u = Named(n, r)
  BY <1>2
<1>8. e = [d EXCEPT !.row[n] = r]
  BY <1>6
<1> HIDE DEF r
<1>9. e \in Tables /\ e.index = d.index /\ e.row = [d.row EXCEPT ![n] = r]
  BY <1>2, <1>7, <1>8 DEF TablesOk, Tables
<1>10. \A p \in Names : e.row[p] = IF p = n THEN r ELSE d.row[p]
  BY <1>9 DEF TablesOk, Tables
<1>11. Indexed(e)
  <2>1. \A i \in Ids : u.ids[i] # None <=> d.index[i] = n
    BY MirrorIsUser DEF IdsOf
  <2> QED
    BY <1>7, <1>9, <1>10, <2>1 DEF TablesOk, Indexed
<1>12. Mirrors(e, k, o, n)
  BY <1>2, <1>4, <1>7, <1>10 DEF Mirrors, Taken
<1>13. ASSUME NEW v, NEW p, p # n, Mirrors(d, m, v, p) PROVE Mirrors(e, k, v, p)
  <2>1. v \in Objects /\ p \in Names /\ m.heap[v].name = p /\ m.heap[o].name = n
    <3>1. v \in Objects /\ p \in Names
      BY <1>13 DEF Mirrors
    <3> QED
      BY <1>13, <3>1, MirrorIsUser
  <2>2. k.heap[v] = m.heap[v] /\ e.row[p] = d.row[p]
    BY <1>4, <1>10, <1>13, <2>1
  <2> QED
    BY <1>13, <2>2, MirrorsStay
<1>14. Agree(e, k, {n})
  BY <1>3, <1>9, <1>13 DEF Agree
<1>15. e.row[n].over = u.over /\ TablesOk(e)
  BY <1>2, <1>9, <1>10, <1>11 DEF r, TablesOk
<1>16. SameOvers(d, e, {n})
  BY <1>9, <1>10 DEF SameOvers
<1> QED
  BY <1>3, <1>9, <1>12, <1>14, <1>15, <1>16 DEF Rewritten

\* ... and forgotten.
LEMMA RewriteEnds ==
    ASSUME NEW d, TablesOk(d), NEW m, MemOk(m), NEW o, NEW n, Mirrors(d, m, o, n), Agree(d, m, {n}),
           NEW l, l = Invalidate(m, o)
    PROVE  MemOk(l) /\ Agree(d, l, {}) /\ l.heap = m.heap
<1>1. Forgets(m, l) /\ Agree(d, l, {n} \ {n})
  BY InvalidateIs
<1>2. {n} \ {n} = {}
  OBVIOUS
<1> QED
  BY <1>1, <1>2, ForgettingIsSafe DEF Forgets

LEMMA CollectedIs ==
    ASSUME NEW m, MemOk(m), NEW tool, NEW held, NEW l, l = Collected(m, {tool, held})
    PROVE  /\ MemOk(l) /\ Tight(l, tool, held)
           /\ \A d, X : Agree(d, m, X) => Agree(d, l, X)
           /\ \A o \in Objects : o \in {tool, held} => l.heap[o] = m.heap[o]
           /\ l.byId = m.byId /\ l.byName = m.byName
<1> DEFINE used == Range(m.byId) \cup Range(m.byName) \cup {tool, held}
           heap == [o \in Objects |-> IF o \in used THEN m.heap[o] ELSE None]
<1>1. l = [m EXCEPT !.heap = heap]
  BY DEF Collected
<1>2. heap \in [Objects -> User \cup {None}]
  BY DEF MemOk, Memories
<1>3. \A o \in Objects : heap[o] = IF o \in used THEN m.heap[o] ELSE None
  OBVIOUS
<1>4. /\ \A i \in Ids : m.byId[i] \in used /\ m.byId[i] \in Objects \cup {None}
      /\ \A n \in Names : m.byName[n] \in used /\ m.byName[n] \in Objects \cup {None}
      /\ \A o \in used : (\E i \in Ids : m.byId[i] = o) \/ (\E n \in Names : m.byName[n] = o) \/ o \in {tool, held}
  BY DEF MemOk, Memories, Range
<1>5. {tool, held} \subseteq used
  OBVIOUS
<1> HIDE DEF heap, used
<1>6. l \in Memories /\ l.heap = heap /\ l.byId = m.byId /\ l.byName = m.byName
  BY <1>1, <1>2 DEF MemOk, Memories
<1>7. /\ \A i \in Ids : m.byId[i] # None => l.heap[m.byId[i]] = m.heap[m.byId[i]]
      /\ \A n \in Names : m.byName[n] # None => l.heap[m.byName[n]] = m.heap[m.byName[n]]
  BY <1>3, <1>4, <1>6
<1>8. MemOk(l)
  BY <1>3, <1>6, <1>7 DEF MemOk
<1>9. Tight(l, tool, held)
  BY <1>3, <1>4, <1>6 DEF Tight
<1>10. ASSUME NEW d, NEW X, Agree(d, m, X) PROVE Agree(d, l, X)
  BY <1>6, <1>7, <1>10 DEF Agree, Mirrors
<1> QED
  BY <1>3, <1>5, <1>6, <1>8, <1>9, <1>10

\* Both rows of a new user, and both caches.
LEMMA CreatedIs ==
    ASSUME NEW d, TablesOk(d), NEW m, MemOk(m), Agree(d, m, {}), NEW n \in Names, NEW i \in Ids, NEW h \in Handles,
           ~Taken(d, n), d.index[i] = None, Roomy(m, n), NEW e, e = Insert(d, n, i, h),
           NEW k, k = [m EXCEPT !.heap[Fresh(m, n)] = Named(n, e.row[n])],
           NEW l, l = Populate(k, Fresh(m, n))
    PROVE  /\ TablesOk(e) /\ MemOk(l) /\ Agree(e, l, {})
           /\ \A j \in Ids \ {i} : e.index[j] = d.index[j] /\ d.index[j] # n
           /\ \A p \in Names \ {n} : e.row[p] = d.row[p]
<1> DEFINE f == Fresh(m, n)
           r == [over |-> NoOverrides, ids |-> [j \in Ids |-> IF j = i THEN h ELSE None]]
           u == Named(n, r)
<1>1. f \in Objects /\ f[1] = n /\ m.heap[f] = None
  BY FreshIs
<1>2. /\ r \in Row /\ r # None /\ u \in User /\ u.name = n /\ u # None
      /\ \A j \in Ids : r.ids[j] = IF j = i THEN h ELSE None
  <2>1. r \in Row /\ \A j \in Ids : r.ids[j] = IF j = i THEN h ELSE None
    BY OverridesStaySparse DEF Row, Identities
  <2> HIDE DEF r
  <2> QED
    BY <2>1, Values
<1>3. e = [row |-> [d.row EXCEPT ![n] = r], index |-> [d.index EXCEPT ![i] = n]]
  BY DEF Insert
<1> HIDE DEF r
<1>4. e \in Tables /\ e.row = [d.row EXCEPT ![n] = r] /\ e.index = [d.index EXCEPT ![i] = n]
  BY <1>2, <1>3 DEF TablesOk, Tables
<1>5. /\ \A p \in Names : e.row[p] = IF p = n THEN r ELSE d.row[p]
      /\ \A j \in Ids : e.index[j] = IF j = i THEN n ELSE d.index[j]
  BY <1>4 DEF TablesOk, Tables
<1>6. \A j \in Ids : d.index[j] # n
  BY DEF TablesOk, Indexed, Taken
<1>7. TablesOk(e)
  <2>1. Indexed(e)
    BY <1>2, <1>5, <1>6, Values DEF TablesOk, Indexed
  <2> QED
    BY <1>4, <2>1 DEF TablesOk
<1>8. k = [m EXCEPT !.heap[f] = u]
  BY <1>5
<1> HIDE DEF f, u
<1>9. k \in Memories /\ k.heap = [m.heap EXCEPT ![f] = u] /\ k.byName = m.byName /\ k.byId = m.byId
  BY <1>1, <1>2, <1>8 DEF MemOk, Memories
<1>10. \A v \in Objects : k.heap[v] = IF v = f THEN u ELSE m.heap[v]
  BY <1>9 DEF MemOk, Memories
<1>11. MemOk(k)
  BY <1>1, <1>2, <1>9, <1>10 DEF MemOk
<1>12. Mirrors(e, k, f, n)
  BY <1>1, <1>2, <1>5, <1>10 DEF Mirrors, Taken, u
<1>13. ASSUME NEW v, NEW p, Mirrors(d, m, v, p) PROVE Mirrors(e, k, v, p)
  <2>1. v \in Objects /\ p \in Names /\ p # n /\ m.heap[v] # None
    <3>1. v \in Objects /\ p \in Names /\ p # n
      BY <1>13 DEF Mirrors
    <3> QED
      BY <1>13, <3>1, MirrorIsUser
  <2>2. k.heap[v] = m.heap[v] /\ e.row[p] = d.row[p]
    BY <1>1, <1>5, <1>10, <2>1
  <2> QED
    BY <1>13, <2>2, MirrorsStay
<1>14. Agree(e, k, {})
  <2>1. m.byId[i] = None
    BY Values DEF Agree
  <2> QED
    BY <1>5, <1>9, <1>13, <2>1 DEF Agree
<1>15. MemOk(l) /\ Agree(e, l, {} \ {n})
  <2>1. l = Populate(k, f)
    BY DEF f
  <2> QED
    BY <1>1, <1>7, <1>11, <1>12, <1>14, <2>1, PopulateIs
<1>16. {} \ {n} = {}
  OBVIOUS
<1> QED
  BY <1>5, <1>6, <1>7, <1>15, <1>16

--------------------------------------------------------------------------------
(* A rename: the tables, then the caches. *)

\* User n, if there was one, is k; the caches may not know it yet.
Moved(d, n, k)      == Renamed(Reindexed(d, n, k), n, k)
HasMoved(d, m, n, k) ==
    /\ ~Taken(d, n)
    /\ \/ Taken(d, k) /\ Agree(d, m, {n, k})
       \/ ~Taken(d, k) /\ Agree(d, m, {})

LEMMA RenamedIs ==
    ASSUME NEW d, TablesOk(d), NEW m, Agree(d, m, {}), NEW n \in Names, NEW k \in Names, ~Taken(d, k),
           NEW e, e = Moved(d, n, k)
    PROVE  TablesOk(e) /\ HasMoved(e, m, n, k) /\ SameOvers(d, e, {})
<1> DEFINE x == [i \in Ids |-> IF d.index[i] = n THEN k ELSE d.index[i]]
<1>1. x \in [Ids -> Names \cup {None}] /\ \A i \in Ids : x[i] = IF d.index[i] = n THEN k ELSE d.index[i]
  BY DEF TablesOk, Tables
<1>2. Reindexed(d, n, k) = [d EXCEPT !.index = x]
  BY DEF Reindexed
<1>3. /\ Reindexed(d, n, k) \in Tables /\ Reindexed(d, n, k).index = x
      /\ Reindexed(d, n, k).row = d.row
  <2> HIDE DEF x
  <2> QED
    BY <1>1, <1>2 DEF TablesOk, Tables
<1> HIDE DEF x
<1>4. \A i \in Ids : d.index[i] # k
  BY DEF TablesOk, Indexed, Taken
<1>5. CASE ~Taken(d, n)
  <2>1. \A i \in Ids : d.index[i] # n
    BY <1>5 DEF TablesOk, Indexed, Taken
  <2>2. x = d.index
    BY <1>1, <2>1 DEF TablesOk, Tables
  <2>3. e = Reindexed(d, n, k)
    BY <1>3, <1>5 DEF Moved, Renamed, Taken
  <2>4. TablesOk(e) /\ e.index = d.index /\ e.row = d.row
    BY <1>3, <2>2, <2>3 DEF TablesOk, Indexed
  <2> QED
    BY <1>5, <2>4 DEF Taken, Agree, Mirrors, HasMoved, SameOvers
<1>6. CASE Taken(d, n)
  <2> DEFINE y == [p \in Names |-> CASE p = k -> d.row[n] [] p = n -> None [] OTHER -> d.row[p]]
  <2>1. n # k
    BY <1>6
  <2>2. /\ y \in [Names -> Row \cup {None}]
        /\ \A p \in Names : y[p] = IF p = k THEN d.row[n] ELSE IF p = n THEN None ELSE d.row[p]
    BY <2>1 DEF TablesOk, Tables
  <2>3. e = [Reindexed(d, n, k) EXCEPT !.row = y]
    BY <1>3, <1>6 DEF Moved, Renamed, Taken
  <2> HIDE DEF y
  <2>4. e \in Tables /\ e.row = y /\ e.index = x
    BY <1>3, <2>2, <2>3 DEF Tables
  <2>5. TablesOk(e)
    BY <1>1, <1>4, <1>6, <2>1, <2>2, <2>4, Values DEF TablesOk, Indexed, Taken
  <2>6. Taken(e, k) /\ ~Taken(e, n)
    BY <1>6, <2>1, <2>2, <2>4 DEF Taken
  <2>7. \A o, p : p \notin {n, k} /\ Mirrors(d, m, o, p) => Mirrors(e, m, o, p)
    BY <2>2, <2>4 DEF Mirrors, Taken
  <2>8. Agree(e, m, {n, k})
    <3>1. \A p \in Names \ {n, k} : m.byName[p] # None => Mirrors(e, m, m.byName[p], p)
      BY <2>7 DEF Agree
    <3>2. ASSUME NEW i \in Ids, m.byId[i] # None
          PROVE  e.index[i] \in Names /\ (e.index[i] \in {n, k} \/ Mirrors(e, m, m.byId[i], e.index[i]))
      BY <1>1, <2>4, <2>7, <3>2 DEF Agree
    <3> QED
      BY <3>1, <3>2 DEF Agree
  <2>9. \A i \in Ids : d.index[i] \in Names => e.index[i] \in Names /\ e.row[e.index[i]] = d.row[d.index[i]]
    BY <1>1, <1>4, <2>2, <2>4
  <2> QED
    BY <2>5, <2>6, <2>8, <2>9 DEF HasMoved, SameOvers
<1> QED
  BY <1>5, <1>6

\* The old name is forgotten and the user reloaded under the new one.
LEMMA RenameEnds ==
    ASSUME NEW d, TablesOk(d), NEW m, MemOk(m), NEW n \in Names, NEW k \in Names, HasMoved(d, m, n, k), Roomy(m, k),
           NEW l, l = Reload(d, InvalidateByName(m, n), k)
    PROVE  MemOk(l) /\ Agree(d, l, {})
<1> DEFINE f == InvalidateByName(m, n)
<1>1. Forgets(m, f) /\ f.byName[n] = None
  BY InvalidateByNameIs
<1>2. l = Reload(d, f, k)
  OBVIOUS
<1> HIDE DEF f
<1>3. MemOk(f) /\ \A X : Agree(d, m, X) => Agree(d, f, X)
  BY <1>1, ForgettingIsSafe
<1>4. CASE ~Taken(d, k)
  BY <1>2, <1>3, <1>4 DEF HasMoved, Reload
<1>5. CASE Taken(d, k) /\ Agree(d, m, {n, k})
  <2>1. Agree(d, f, {n, k})
    BY <1>3, <1>5
  <2>2. \A i \in Ids : d.index[i] # n
    BY DEF HasMoved, TablesOk, Indexed, Taken
  <2>3. Agree(d, f, {k})
    BY <1>1, <2>1, <2>2 DEF Agree
  <2>4. Roomy(f, k)
    BY <1>1 DEF Forgets, Roomy
  <2> QED
    BY <1>2, <1>3, <1>5, <2>3, <2>4, ReloadIs
<1> QED
  BY <1>4, <1>5 DEF HasMoved

--------------------------------------------------------------------------------
(* A merge: the identities are joined on an object, then in the tables. *)

Pooled(d, from, to) == Joined(Named(to, d.row[to]), Named(from, d.row[from]))

LEMMA PooledIs ==
    ASSUME NEW d, TablesOk(d), NEW n \in Names, NEW k \in Names, Taken(d, n), Taken(d, k)
    PROVE  /\ Pooled(d, k, n) \in User /\ Pooled(d, k, n).name = n
           /\ Pooled(d, k, n).over = d.row[n].over
           /\ \A i \in Ids : Pooled(d, k, n).ids[i] # None <=> d.index[i] \in {n, k}
<1> DEFINE u == Named(n, d.row[n])
           v == Named(k, d.row[k])
           ids == [i \in Ids |-> IF u.ids[i] # None THEN u.ids[i] ELSE v.ids[i]]
<1>1. u \in User /\ v \in User /\ u.name = n /\ u.over = d.row[n].over /\ u.ids = d.row[n].ids /\ v.ids = d.row[k].ids
  BY Values DEF TablesOk, Tables, Taken
<1>2. Pooled(d, k, n) = [u EXCEPT !.ids = ids]
  BY DEF Pooled, Joined
<1>3. ids \in Identities /\ \A i \in Ids : ids[i] # None <=> u.ids[i] # None \/ v.ids[i] # None
  BY <1>1, Values DEF User, Identities
<1>4. \A i \in Ids : u.ids[i] # None \/ v.ids[i] # None <=> d.index[i] \in {n, k}
  BY <1>1 DEF TablesOk, Indexed, Taken
<1> HIDE DEF ids, u, v
<1> QED
  BY <1>1, <1>2, <1>3, <1>4 DEF User

LEMMA MergeLoads ==
    ASSUME NEW d, TablesOk(d), NEW m, MemOk(m), Agree(d, m, {}), NEW n \in Names, NEW k \in Names, n # k,
           Taken(d, n), Taken(d, k), Roomy(m, n), Roomy(m, k),
           NEW x, x = Load(d, m, n), NEW o, o = x.byName[n], NEW y, y = Load(d, x, k),
           NEW l, l = Changed(y, o, Joined(x.heap[o], y.heap[y.byName[k]]))
    PROVE  MemOk(l) /\ Agree(d, l, {n}) /\ o \in Objects /\ l.heap[o] = Pooled(d, k, n)
<1>1. /\ MemOk(x) /\ Mirrors(d, x, o, n) /\ Agree(d, x, {})
      /\ \A v \in Objects : m.heap[v] # None \/ v[1] # n => x.heap[v] = m.heap[v]
  BY LoadIs
<1>2. Roomy(x, k)
  <2>1. PICK j \in 1..Copies : m.heap[<<k, j>>] = None
    BY DEF Roomy
  <2>2. <<k, j>> \in Objects /\ <<k, j>>[1] # n
    BY DEF Objects
  <2> QED
    BY <1>1, <2>1, <2>2 DEF Roomy
<1>3. /\ MemOk(y) /\ Mirrors(d, y, y.byName[k], k) /\ Agree(d, y, {})
      /\ \A v \in Objects : x.heap[v] # None \/ v[1] # k => y.heap[v] = x.heap[v]
  BY <1>1, <1>2, LoadIs
<1>4. /\ o \in Objects /\ x.heap[o] = Named(n, d.row[n]) /\ x.heap[o] # None /\ x.heap[o].name = n
      /\ y.heap[o] = x.heap[o] /\ y.heap[y.byName[k]] = Named(k, d.row[k])
  <2>1. o \in Objects /\ x.heap[o] = Named(n, d.row[n]) /\ y.heap[y.byName[k]] = Named(k, d.row[k])
    BY <1>1, <1>3 DEF Mirrors
  <2>2. x.heap[o] # None /\ x.heap[o].name = n
    BY <1>1, MirrorIsUser
  <2> QED
    BY <1>3, <2>1, <2>2
<1>5. o[1] = n
  BY <1>1, <1>4 DEF MemOk
<1> DEFINE u == Pooled(d, k, n)
<1>6. u \in User /\ u.name = n /\ u # None
  BY PooledIs, Values
<1>7. l = Changed(y, o, u)
  BY <1>4 DEF Pooled
<1> HIDE DEF u
<1>8. /\ MemOk(l) /\ l.byName = y.byName /\ l.byId = y.byId
      /\ \A v \in Objects : l.heap[v] = IF v = o THEN u ELSE y.heap[v]
  BY <1>3, <1>4, <1>5, <1>6, <1>7, ChangedIs
<1>11. ASSUME NEW v, NEW p, p # n, Mirrors(d, y, v, p) PROVE Mirrors(d, l, v, p)
  <2>1. v \in Objects /\ p \in Names
    BY <1>11 DEF Mirrors
  <2>2. y.heap[v].name = p /\ y.heap[o].name = n
    BY <1>4, <1>11, MirrorIsUser
  <2>3. l.heap[v] = y.heap[v]
    BY <1>4, <1>8, <1>11, <2>1, <2>2
  <2> QED
    BY <1>11, <2>3, MirrorsStay
<1>12. Agree(d, l, {n})
  <2>1. Agree(d, y, {}) /\ l.byName = y.byName /\ l.byId = y.byId
    BY <1>3, <1>8
  <2>2. ASSUME NEW p \in Names \ {n}, l.byName[p] # None PROVE Mirrors(d, l, l.byName[p], p)
    BY <1>11, <2>1, <2>2 DEF Agree
  <2>3. ASSUME NEW i \in Ids, l.byId[i] # None
        PROVE  d.index[i] \in Names /\ (d.index[i] \in {n} \/ Mirrors(d, l, l.byId[i], d.index[i]))
    BY <1>11, <2>1, <2>3 DEF Agree
  <2> QED
    BY <2>2, <2>3 DEF Agree
<1> QED
  BY <1>4, <1>8, <1>12 DEF u

\* User k's row is gone, his identities are user n's; object o of n knows them.
MergedTables(b, u, n, k) ==
    LET c == IF Taken(b, n) THEN [b EXCEPT !.row[n].ids = u.ids] ELSE b IN [c EXCEPT !.row[k] = None]
HasMerged(d, m, o, n, k) == Taken(d, n) /\ ~Taken(d, k) /\ Agree(d, m, {n, k}) /\ Mirrors(d, m, o, n)

LEMMA MergedIs ==
    ASSUME NEW d, TablesOk(d), NEW m, MemOk(m), NEW n \in Names, NEW k \in Names, n # k, Agree(d, m, {n}),
           Taken(d, n), Taken(d, k), NEW o \in Objects, m.heap[o] = Pooled(d, k, n),
           NEW b, b = Reindexed(d, k, n), NEW e, e = MergedTables(b, m.heap[o], n, k)
    PROVE  TablesOk(e) /\ HasMerged(e, m, o, n, k) /\ SameOvers(d, e, {k})
<1> DEFINE c == IF Taken(b, n) THEN [b EXCEPT !.row[n].ids = m.heap[o].ids] ELSE b
           x == [i \in Ids |-> IF d.index[i] = k THEN n ELSE d.index[i]]
           u == Pooled(d, k, n)
           r == [over |-> u.over, ids |-> u.ids]
<1>1. x \in [Ids -> Names \cup {None}] /\ \A i \in Ids : x[i] = IF d.index[i] = k THEN n ELSE d.index[i]
  BY DEF TablesOk, Tables
<1>2. b = [d EXCEPT !.index = x]
  BY DEF Reindexed
<1>3. /\ u \in User /\ u.name = n /\ u.over = d.row[n].over
      /\ \A i \in Ids : u.ids[i] # None <=> d.index[i] \in {n, k}
  BY PooledIs
<1>4. r \in Row /\ r # None /\ r.ids = u.ids /\ r.over = u.over /\ u = Named(n, r)
  <2> HIDE DEF u
  <2> QED
    BY <1>3, Values
<1>5. d.row[n] \in Row /\ [d.row[n] EXCEPT !.ids = u.ids] = r
  <2>1. d.row[n] \in Row
    BY DEF TablesOk, Tables, Taken
  <2> HIDE DEF u
  <2> QED
    BY <1>3, <2>1 DEF Row
<1>6. c = IF Taken(b, n) THEN [b EXCEPT !.row[n].ids = m.heap[o].ids] ELSE b
  OBVIOUS
<1>7. e = [c EXCEPT !.row[k] = None]
  BY DEF MergedTables
<1> HIDE DEF x, u, r, c
<1>8. b \in Tables /\ b.index = x /\ b.row = d.row
  BY <1>1, <1>2 DEF TablesOk, Tables
<1>9. c = [b EXCEPT !.row[n] = r]
  <2>1. c = [b EXCEPT !.row[n].ids = u.ids]
    BY <1>6, <1>8 DEF Taken, u
  <2>2. b.row[n] = d.row[n]
    BY <1>8
  <2> QED
    BY <1>5, <2>1, <2>2
<1>10. c \in Tables /\ c.index = x /\ c.row = [d.row EXCEPT ![n] = r]
  BY <1>4, <1>8, <1>9 DEF Tables
<1>11. e \in Tables /\ e.index = x /\ e.row = [c.row EXCEPT ![k] = None]
  BY <1>10, <1>7 DEF Tables
<1>12. \A p \in Names : e.row[p] = IF p = k THEN None ELSE IF p = n THEN r ELSE d.row[p]
  BY <1>10, <1>11 DEF TablesOk, Tables
<1>13. Indexed(e)
  BY <1>1, <1>3, <1>4, <1>11, <1>12, Values DEF TablesOk, Indexed
<1>14. Mirrors(e, m, o, n)
  BY <1>4, <1>12 DEF Mirrors, Taken, u
<1>15. \A v, p : p \notin {n, k} /\ Mirrors(d, m, v, p) => Mirrors(e, m, v, p)
  BY <1>12 DEF Mirrors, Taken
<1>16. Agree(e, m, {n, k})
  <2>1. \A p \in Names \ {n, k} : m.byName[p] # None => Mirrors(e, m, m.byName[p], p)
    BY <1>15 DEF Agree
  <2>2. ASSUME NEW i \in Ids, m.byId[i] # None
        PROVE  e.index[i] \in Names /\ (e.index[i] \in {n, k} \/ Mirrors(e, m, m.byId[i], e.index[i]))
    BY <1>1, <1>11, <1>15, <2>2 DEF Agree
  <2> QED
    BY <2>1, <2>2 DEF Agree
<1>17. \A i \in Ids : d.index[i] \in Names \ {k} =>
         e.index[i] = d.index[i] /\ e.row[e.index[i]].over = d.row[d.index[i]].over
  BY <1>1, <1>3, <1>4, <1>11, <1>12
<1> QED
  BY <1>4, <1>11, <1>12, <1>13, <1>14, <1>16, <1>17 DEF TablesOk, Taken, HasMerged, SameOvers

LEMMA MergeEnds ==
    ASSUME NEW d, TablesOk(d), NEW m, MemOk(m), NEW n \in Names, NEW k \in Names,
           NEW o, HasMerged(d, m, o, n, k), Roomy(m, n),
           NEW l, l = Reload(d, Invalidate(InvalidateByName(m, k), o), n)
    PROVE  MemOk(l) /\ Agree(d, l, {})
<1> DEFINE f == InvalidateByName(m, k)
           g == Invalidate(f, o)
<1>1. Taken(d, n) /\ ~Taken(d, k) /\ Agree(d, m, {n, k}) /\ Mirrors(d, m, o, n)
  BY DEF HasMerged
<1>2. Forgets(m, f) /\ f.byName[k] = None
  BY InvalidateByNameIs
<1>3. l = Reload(d, g, n)
  OBVIOUS
<1>4. g = Invalidate(f, o)
  OBVIOUS
<1> HIDE DEF f, g
<1>5. MemOk(f) /\ Agree(d, f, {n, k}) /\ Mirrors(d, f, o, n)
  BY <1>1, <1>2, ForgettingIsSafe DEF Forgets, Mirrors
<1>6. Forgets(f, g)
  BY <1>4, <1>5, InvalidateIs
<1>7. MemOk(g) /\ Agree(d, g, {n, k})
  BY <1>5, <1>6, ForgettingIsSafe
<1>8. g.byName[k] = None /\ \A i \in Ids : d.index[i] # k
  BY <1>1, <1>2, <1>6 DEF Forgets, TablesOk, Indexed, Taken
<1>9. Agree(d, g, {n})
  BY <1>7, <1>8 DEF Agree
<1>10. Roomy(g, n)
  BY <1>2, <1>6 DEF Forgets, Roomy
<1> QED
  BY <1>1, <1>3, <1>7, <1>9, <1>10, ReloadIs

--------------------------------------------------------------------------------
(* What holds at each stage of a tool or request, when no other call overlaps   *)
(* it and nobody is merged with himself: the tables are what was committed but  *)
(* for the index that a rename or merge has begun to change, and the caches are *)
(* behind the tables only in the users that the tool is about to forget.        *)

Alone == ~SelfMerge /\ ~ToolsOverlap /\ ~RequestsOverlap

Jobs == [at: {"idle", "modify", "modified", "rename", "reindexed", "renamed", "merge", "pooled", "merged"},
         from: Names \cup {None}, to: Names \cup {None}, obj: Objects \cup {None}]

Clean    == db = kept /\ Agree(kept, mem, {})
Begun    == db = Reindexed(kept, job.from, job.to)
Waiting  == job = Idle /\ request = None /\ Clean
Elevating == job = Idle /\ Clean /\ \E n \in Names : Mirrors(kept, mem, request, n)
Modifying == job.at = "modify" /\ Clean /\ \E n \in Names : Mirrors(kept, mem, job.obj, n)
Modified ==
    /\ job.at = "modified" /\ db = kept
    /\ \E n \in Names : Mirrors(kept, mem, job.obj, n) /\ Agree(kept, mem, {n})
Renaming ==
    /\ job.at \in {"rename", "reindexed"} /\ {job.from, job.to} \subseteq Names
    /\ ~Taken(kept, job.to) /\ Agree(kept, mem, {})
    /\ IF job.at = "rename" THEN db = kept ELSE Begun
RenameDone ==
    /\ job.at = "renamed" /\ {job.from, job.to} \subseteq Names /\ db = kept
    /\ HasMoved(kept, mem, job.from, job.to)
Merging ==
    /\ job.at \in {"merge", "pooled"} /\ {job.from, job.to} \subseteq Names /\ job.from # job.to
    /\ Taken(kept, job.from) /\ Taken(kept, job.to) /\ Agree(kept, mem, {job.to})
    /\ job.obj \in Objects /\ mem.heap[job.obj] = Pooled(kept, job.from, job.to)
    /\ IF job.at = "merge" THEN db = kept ELSE Begun
Merged ==
    /\ job.at = "merged" /\ {job.from, job.to} \subseteq Names /\ db = kept
    /\ HasMerged(kept, mem, job.obj, job.to, job.from)

Working == /\ request = None /\ job \in Jobs
           /\ Modifying \/ Modified \/ Renaming \/ RenameDone \/ Merging \/ Merged
Stage   == Waiting \/ Elevating \/ Working

StoreInv == TablesOk(kept) /\ MemOk(mem) /\ Tight(mem, job.obj, request) /\ Stage

\* Whose overrides a step changes is the one whom it is about.
Meant(i) ==
    \/ \E p \in Perms, value \in BOOLEAN : ModifyCommand(kept.index[i], p, value)
    \/ job.at = "modify" /\ mem.heap[job.obj].name = kept.index[i]
    \/ job.at = "pooled" /\ job.from = kept.index[i]
    \/ request # None /\ mem.heap[request].name = kept.index[i]
Survive == \A i \in Ids : OverridesChanged(i) => Meant(i)

LEMMA Survives ==
    ASSUME TablesOk(kept), NEW X, SameOvers(kept, kept', X), \A i \in Ids : kept.index[i] \in X => Meant(i)
    PROVE  Survive
<1> SUFFICES ASSUME NEW i \in Ids, OverridesChanged(i) PROVE Meant(i)
  BY DEF Survive
<1>1. kept.index[i] \in Names
  BY DEF OverridesChanged, TablesOk, Tables
<1>2. CASE kept.index[i] \in X
  BY <1>2
<1>3. CASE kept.index[i] \notin X
  BY <1>1, <1>3, Values DEF SameOvers, OverridesChanged
<1> QED
  BY <1>2, <1>3

LEMMA NothingWritten == kept' = kept => Survive
<1> SUFFICES ASSUME kept' = kept, NEW i \in Ids, OverridesChanged(i) PROVE FALSE
  BY DEF Survive
<1> QED
  BY DEF OverridesChanged

LEMMA IdleIs == Idle \in Jobs /\ Idle.obj = None /\ Idle.at = "idle"
BY DEF Idle, Jobs

LEMMA Remembers ==
    ASSUME NEW m, MemOk(m), Remember(m)
    PROVE  /\ MemOk(mem') /\ Tight(mem', job'.obj, request')
           /\ \A d, X : Agree(d, m, X) => Agree(d, mem', X)
           /\ \A o \in Objects : o \in {job'.obj, request'} => mem'.heap[o] = m.heap[o]
           /\ \A d, o, n : o \in {job'.obj, request'} /\ Mirrors(d, m, o, n) => Mirrors(d, mem', o, n)
<1> DEFINE tool == job'.obj
           held == request'
           l == mem'
<1>1. l = Collected(m, {tool, held})
  BY DEF Remember
<1>2. /\ MemOk(l) /\ Tight(l, tool, held)
      /\ \A d, X : Agree(d, m, X) => Agree(d, l, X)
      /\ \A o \in Objects : o \in {tool, held} => l.heap[o] = m.heap[o]
  <2> HIDE DEF tool, held, l
  <2> QED
    BY <1>1, CollectedIs
<1> QED
  BY <1>2 DEF Mirrors

\* A call ends with tables d and memory m.
LEMMA CallEnds ==
    ASSUME NEW d, TablesOk(d), NEW m, MemOk(m), Agree(d, m, {}),
           db' = d, kept' = d, job' = Idle, request' = None, Remember(m)
    PROVE  StoreInv'
<1>1. MemOk(mem') /\ Tight(mem', job'.obj, request') /\ Agree(d, mem', {})
  BY Remembers
<1>2. Waiting'
  BY <1>1 DEF Waiting, Clean
<1> QED
  BY <1>1, <1>2 DEF StoreInv, Stage

\* No tool and no request: what is in the caches agrees.
LEMMA StoreIsFree ==
    ASSUME StoreInv, job = Idle, request = None
    PROVE  /\ Waiting /\ job.obj = None
           /\ TablesOk(db) /\ db = kept /\ MemOk(mem) /\ Agree(db, mem, {})
           /\ \A n \in Names : Roomy(mem, n)
<1>1. ~Elevating
  BY Values DEF Elevating, Mirrors
<1>2. ~Working
  BY IdleIs DEF Working, Modifying, Modified, Renaming, RenameDone, Merging, Merged
<1>3. Waiting
  BY <1>1, <1>2 DEF StoreInv, Stage
<1> QED
  BY <1>3, IdleIs, TightIsRoomy DEF StoreInv, Waiting, Clean

\* While the loop is free, only it moves.
LEMMA LoopIsFree ==
    ASSUME Alone, StoreInv, OnLoop
    PROVE  /\ Waiting /\ job' = Idle /\ request' = None /\ job.obj = None /\ request = None
           /\ TablesOk(db) /\ db = kept /\ MemOk(mem) /\ Agree(db, mem, {})
           /\ \A n \in Names : Roomy(mem, n)
<1>1. job = Idle /\ request = None /\ job' = Idle /\ request' = None
  BY DEF Alone, OnLoop, NoTool, NoRequest
<1> QED
  BY <1>1, StoreIsFree

\* Of a waiting store a tool may begin.
LEMMA ToolIsFree ==
    ASSUME Alone, StoreInv, NEW rec, ToolStarts(rec)
    PROVE  /\ Waiting /\ job' = rec /\ request' = None /\ job.obj = None /\ request = None
           /\ TablesOk(db) /\ db = kept /\ MemOk(mem) /\ Agree(db, mem, {})
           /\ \A n \in Names : Roomy(mem, n)
<1>1. job = Idle /\ request = None /\ job' = rec /\ request' = None
  BY DEF Alone, ToolStarts, NoRequest
<1> QED
  BY <1>1, StoreIsFree

--------------------------------------------------------------------------------
(* The steps. *)

\* _maybe_update_identity writes a new handle and nothing else.
LEMMA RecogniseIs ==
    ASSUME TablesOk(db), NEW m, MemOk(m), Agree(db, m, {}), NEW i \in Ids, NEW h \in Handles,
           NEW n, n = db.index[i], NEW o, Mirrors(db, m, o, n), NEW r, r = Recognise(m, o, i, h)
    PROVE  /\ MemOk(r.m) /\ TablesOk(r.d) /\ Agree(r.d, r.m, {}) /\ Mirrors(r.d, r.m, o, n)
           /\ r.d.index = db.index /\ SameOvers(db, r.d, {})
           /\ r.wrote \in BOOLEAN /\ (~r.wrote => r.d = db)
<1> DEFINE v == m.heap[o]
           u == [v EXCEPT !.ids[i] = h]
<1>1. /\ n \in Names /\ o \in Objects /\ o[1] = n
      /\ v \in User /\ v.name = n /\ v.over = db.row[n].over
      /\ \A j \in Ids : j \in IdsOf(v) <=> db.index[j] = n
  <2>1. n \in Names /\ o \in Objects /\ o[1] = n
    BY OwnObject
  <2> QED
    BY <2>1, MirrorIsUser
<1>2. CASE v.ids[i] \in {None, h}
  <2>1. r = [m |-> m, d |-> db, wrote |-> FALSE]
    BY <1>2 DEF Recognise
  <2> QED
    BY <2>1 DEF SameOvers
<1>3. CASE v.ids[i] \notin {None, h}
  <2> DEFINE k == [m EXCEPT !.heap[o] = u]
             e == Update(db, u)
  <2>1. /\ u \in User /\ u.name = n /\ u.over = v.over
        /\ \A j \in Ids : u.ids[j] = IF j = i THEN h ELSE v.ids[j]
    <3> HIDE DEF v
    <3> QED
      BY <1>1 DEF User, Identities
  <2>2. IdsOf(u) = IdsOf(v)
    BY <1>3, <2>1, Values DEF IdsOf
  <2>3. k = [m EXCEPT !.heap[o].ids[i] = h]
    OBVIOUS
  <2>4. k.heap[o] = u
    BY <1>1 DEF MemOk, Memories
  <2>5. r = [m |-> Invalidate(k, o), d |-> e, wrote |-> TRUE]
    BY <1>3, <2>3, <2>4 DEF Recognise
  <2>6. /\ k = Changed(m, o, u) /\ e = Update(db, u)
    BY DEF Changed
  <2> HIDE DEF k, e, u
  <2>7. Rewritten(db, e, k, o, n) /\ e.row[n].over = u.over
    <3>1. u \in User /\ u.name = n /\ IdsOf(u) = IdsOf(m.heap[o])
      BY <1>1, <2>1, <2>2
    <3> HIDE DEF v
    <3> QED
      BY <2>6, <3>1, RewriteIs
  <2> DEFINE l == Invalidate(k, o)
  <2>8. l = Invalidate(k, o)
    OBVIOUS
  <2> HIDE DEF l
  <2>9. MemOk(l) /\ Agree(e, l, {}) /\ l.heap = k.heap
    BY <2>7, <2>8, RewriteEnds DEF Rewritten
  <2>10. Mirrors(e, l, o, n)
    BY <2>7, <2>9 DEF Mirrors, Rewritten
  <2>11. SameOvers(db, e, {})
    <3>1. e.row[n].over = db.row[n].over
      BY <1>1, <2>1, <2>7
    <3> QED
      BY <2>7, <3>1 DEF SameOvers, Rewritten
  <2>12. r.m = l /\ r.d = e /\ r.wrote = TRUE
    BY <2>5, <2>8
  <2> QED
    BY <2>7, <2>9, <2>10, <2>11, <2>12 DEF Rewritten
<1> QED
  BY <1>2, <1>3

LEMMA StepResolveCached ==
    ASSUME Alone, StoreInv, NEW i \in Ids, NEW h \in Handles, ResolveCached(i, h)
    PROVE  StoreInv' /\ Survive
<1>1. /\ job' = Idle /\ request' = None /\ TablesOk(db) /\ db = kept /\ MemOk(mem) /\ Agree(db, mem, {})
  BY LoopIsFree DEF ResolveCached
<1> DEFINE n == db.index[i]
           o == mem.byId[i]
           r == Recognise(mem, o, i, h)
<1>2. Mirrors(db, mem, o, n)
  BY <1>1 DEF ResolveCached, Agree
<1>3. n = db.index[i] /\ r = Recognise(mem, o, i, h)
  OBVIOUS
<1>4. /\ Remember(r.m) /\ IF r.wrote THEN Commit(r.d) ELSE UNCHANGED <<db, kept>>
  BY DEF ResolveCached
<1> HIDE DEF n, o, r
<1>5. /\ MemOk(r.m) /\ TablesOk(r.d) /\ Agree(r.d, r.m, {}) /\ SameOvers(db, r.d, {})
      /\ r.wrote \in BOOLEAN /\ (~r.wrote => r.d = db)
  BY <1>1, <1>2, <1>3, RecogniseIs
<1>6. db' = r.d /\ kept' = r.d
  BY <1>1, <1>4, <1>5 DEF Commit
<1>7. StoreInv'
  BY <1>1, <1>4, <1>5, <1>6, CallEnds
<1>8. Survive
  BY <1>1, <1>5, <1>6, Survives
<1> QED
  BY <1>7, <1>8

LEMMA StepResolveIndexed ==
    ASSUME Alone, StoreInv, NEW i \in Ids, NEW h \in Handles, ResolveIndexed(i, h)
    PROVE  StoreInv' /\ Survive
<1> DEFINE n == db.index[i]
           m == Load(db, mem, n)
           o == m.byName[n]
           r == Recognise(m, o, i, h)
           l == [r.m EXCEPT !.byId[i] = o, !.byName[n] = o]
<1>1. /\ job' = Idle /\ request' = None /\ TablesOk(db) /\ db = kept /\ MemOk(mem) /\ Agree(db, mem, {})
      /\ \A p \in Names : Roomy(mem, p)
  BY LoopIsFree DEF ResolveIndexed
<1>2. n \in Names /\ Taken(db, n)
  BY <1>1 DEF ResolveIndexed, TablesOk, Tables, Indexed, Taken
<1>3. Remember(l) /\ IF r.wrote THEN Commit(r.d) ELSE UNCHANGED <<db, kept>>
  BY <1>2 DEF ResolveIndexed
<1>4. n = db.index[i] /\ r = Recognise(m, o, i, h)
  OBVIOUS
<1>5. l = [r.m EXCEPT !.byId[i] = o, !.byName[n] = o]
  OBVIOUS
<1>12. m = Load(db, mem, n) /\ o = m.byName[n]
  OBVIOUS
<1> HIDE DEF n, m, o, r, l
<1>13. MemOk(m) /\ Agree(db, m, {}) /\ Mirrors(db, m, o, n)
  BY <1>1, <1>2, <1>12, LoadIs
<1>6. /\ MemOk(r.m) /\ TablesOk(r.d) /\ Agree(r.d, r.m, {}) /\ Mirrors(r.d, r.m, o, n)
      /\ r.d.index = db.index /\ SameOvers(db, r.d, {}) /\ r.wrote \in BOOLEAN /\ (~r.wrote => r.d = db)
  BY <1>1, <1>4, <1>13, RecogniseIs
<1>7. o[1] = n /\ r.m.heap[o] # None /\ n = r.d.index[i]
  <2>1. o[1] = n
    BY <1>6, OwnObject
  <2>2. r.m.heap[o] # None
    BY <1>6, MirrorIsUser
  <2> QED
    BY <1>4, <1>6, <2>1, <2>2
<1>8. MemOk(l) /\ Agree(r.d, l, {})
  <2> DEFINE k == r.m
             e == r.d
  <2>1. l = [k EXCEPT !.byId[i] = o, !.byName[n] = o]
    BY <1>5
  <2>2. MemOk(k) /\ Agree(e, k, {}) /\ Mirrors(e, k, o, n) /\ o[1] = n /\ k.heap[o] # None /\ n = e.index[i]
    BY <1>6, <1>7
  <2> HIDE DEF k, e
  <2>3. MemOk(l) /\ Agree(e, l, {})
    BY <2>1, <2>2, EnterIs
  <2> QED
    BY <2>3 DEF e
<1>9. db' = r.d /\ kept' = r.d
  BY <1>1, <1>3, <1>6 DEF Commit
<1>10. StoreInv'
  BY <1>1, <1>3, <1>6, <1>8, <1>9, CallEnds
<1>11. Survive
  BY <1>1, <1>6, <1>9, Survives
<1> QED
  BY <1>10, <1>11

LEMMA StepCreated ==
    ASSUME Alone, StoreInv, OnLoop, NEW n \in Names, NEW i \in Ids, NEW h \in Handles,
           ~Taken(db, n), db.index[i] = None, Created(n, i, h)
    PROVE  StoreInv' /\ Survive
<1> DEFINE e == Insert(db, n, i, h)
           k == [mem EXCEPT !.heap[Fresh(mem, n)] = Named(n, e.row[n])]
           l == Populate(k, Fresh(mem, n))
<1>1. /\ job' = Idle /\ request' = None /\ TablesOk(db) /\ db = kept /\ MemOk(mem) /\ Agree(db, mem, {})
      /\ \A p \in Names : Roomy(mem, p)
  BY LoopIsFree
<1>2. Commit(e) /\ Remember(l)
  BY DEF Created
<1>3. e = Insert(db, n, i, h) /\ k = [mem EXCEPT !.heap[Fresh(mem, n)] = Named(n, e.row[n])]
      /\ l = Populate(k, Fresh(mem, n))
  OBVIOUS
<1> HIDE DEF e, k, l
<1>4. /\ TablesOk(e) /\ MemOk(l) /\ Agree(e, l, {})
      /\ \A j \in Ids \ {i} : e.index[j] = db.index[j] /\ db.index[j] # n
      /\ \A p \in Names \ {n} : e.row[p] = db.row[p]
  BY <1>1, <1>3, CreatedIs
<1>5. SameOvers(db, e, {})
  BY <1>4, Values DEF SameOvers
<1>6. db' = e /\ kept' = e
  BY <1>2 DEF Commit
<1>7. StoreInv'
  BY <1>1, <1>2, <1>4, <1>6, CallEnds
<1>8. Survive
  BY <1>1, <1>5, <1>6, Survives
<1> QED
  BY <1>7, <1>8

LEMMA StepResolveNew ==
    ASSUME Alone, StoreInv, NEW i \in Ids, NEW h \in Handles, ResolveNew(i, h)
    PROVE  StoreInv' /\ Survive
<1>1. PICK n \in PickUsername(db, h) : Created(n, i, h)
  BY DEF ResolveNew
<1>2. n \in Names /\ ~Taken(db, n)
  BY StoreAssumption DEF PickUsername
<1> QED
  BY <1>1, <1>2, StepCreated DEF ResolveNew

\* A lookup that may cache an object.
LEMMA StepLooksUp ==
    ASSUME Alone, StoreInv, OnLoop, NEW m, MemOk(m), Agree(db, m, {}), Remember(m), UNCHANGED <<db, kept>>
    PROVE  StoreInv' /\ Survive
<1>1. job' = Idle /\ request' = None /\ TablesOk(db) /\ db = kept
  BY LoopIsFree
<1>2. StoreInv'
  BY <1>1, CallEnds
<1> QED
  BY <1>2, NothingWritten

LEMMA StepGet ==
    ASSUME Alone, StoreInv, NEW n \in Names, Get(n)
    PROVE  StoreInv' /\ Survive
<1>1. OnLoop /\ TablesOk(db) /\ MemOk(mem) /\ Agree(db, mem, {}) /\ Roomy(mem, n)
  BY LoopIsFree DEF Get
<1> DEFINE m == GetUser(db, mem, n)
<1>2. Remember(m) /\ UNCHANGED <<db, kept>>
  BY DEF Get
<1>3. m = GetUser(db, mem, n)
  OBVIOUS
<1> HIDE DEF m
<1>4. MemOk(m) /\ Agree(db, m, {})
  BY <1>1, <1>3, GetUserIs
<1> QED
  BY <1>1, <1>2, <1>4, StepLooksUp

LEMMA StepGetByPlatform ==
    ASSUME Alone, StoreInv, NEW i \in Ids, GetByPlatform(i)
    PROVE  StoreInv' /\ Survive
<1>1. OnLoop /\ TablesOk(db) /\ MemOk(mem) /\ Agree(db, mem, {}) /\ \A p \in Names : Roomy(mem, p)
  BY LoopIsFree DEF GetByPlatform
<1> DEFINE n == db.index[i]
           m == Load(db, mem, n)
<1>2. n \in Names /\ Taken(db, n) /\ Remember(m) /\ UNCHANGED <<db, kept>>
  BY <1>1 DEF GetByPlatform, TablesOk, Tables, Indexed, Taken
<1>3. m = Load(db, mem, n)
  OBVIOUS
<1> HIDE DEF m, n
<1>4. MemOk(m) /\ Agree(db, m, {})
  BY <1>1, <1>2, <1>3, LoadIs
<1> QED
  BY <1>1, <1>2, <1>4, StepLooksUp

LEMMA StepCreate ==
    ASSUME Alone, StoreInv, NEW n \in Names, Create(n)
    PROVE  StoreInv' /\ Survive
<1>1. OnLoop /\ MemOk(mem) /\ Agree(db, mem, {}) /\ CliId[n] \in Ids /\ ~Taken(db, n) /\ db = kept
  BY LoopIsFree, StoreAssumption DEF Create
<1>2. CASE db.index[CliId[n]] = None
  <2> DEFINE h == CHOOSE h \in Handles : Slug[h] = n
  <2>1. h \in Handles
    BY StoreAssumption DEF Range
  <2>2. Created(n, CliId[n], h)
    BY <1>2 DEF Create
  <2> HIDE DEF h
  <2> QED
    BY <1>1, <1>2, <2>1, <2>2, StepCreated
<1>3. CASE db.index[CliId[n]] # None
  <2>1. Remember(mem) /\ UNCHANGED <<db, kept>>
    BY <1>1, <1>3 DEF Create, Rollback
  <2> QED
    BY <1>1, <2>1, StepLooksUp
<1> QED
  BY <1>2, <1>3

\* Overrides are set on the object of user n and written to his row.
WithOverrides(u, over) == [u EXCEPT !.over = over]

LEMMA WithOverridesIs ==
    ASSUME NEW v \in User, NEW over \in Overrides, NEW u, u = WithOverrides(v, over)
    PROVE  u \in User /\ u.name = v.name /\ IdsOf(u) = IdsOf(v)
BY DEF WithOverrides, User, IdsOf

\* The object with other overrides, and what is written of it.
Given(u, p, value) == [u EXCEPT !.over = Overridden(@, p, value)]

LEMMA GrantedIs ==
    ASSUME NEW d, TablesOk(d), NEW m, MemOk(m), NEW o, NEW n, Mirrors(d, m, o, n), NEW p, NEW value,
           NEW u, u = Given(m.heap[o], p, value)
    PROVE  Granted(m, o, p, value) = Changed(m, o, u) /\ Granted(m, o, p, value).heap[o] = u
<1>1. o \in Objects
  BY DEF Mirrors
<1>2. Granted(m, o, p, value) = Changed(m, o, u)
  BY DEF Granted, Given, Changed
<1> QED
  BY <1>1, <1>2 DEF Changed, MemOk, Memories

LEMMA GivenIsWritten ==
    ASSUME NEW d, TablesOk(d), NEW m, MemOk(m), Agree(d, m, {}), NEW o, NEW n, Mirrors(d, m, o, n),
           NEW p \in Perms, NEW value \in BOOLEAN, NEW u, u = Given(m.heap[o], p, value),
           NEW k, k = Changed(m, o, u), NEW e, e = Update(d, u)
    PROVE  Rewritten(d, e, k, o, n)
<1> DEFINE v == m.heap[o]
           over == Overridden(v.over, p, value)
<1>1. v \in User /\ v.name = n
  BY MirrorIsUser
<1>2. over \in Overrides
  <2>1. v.over \in Overrides
    BY <1>1 DEF User
  <2> QED
    BY <2>1, OverridesStaySparse
<1>3. u = WithOverrides(v, over)
  BY DEF Given, WithOverrides
<1>4. v = m.heap[o]
  OBVIOUS
<1> HIDE DEF v, over
<1>5. u \in User /\ u.name = n /\ IdsOf(u) = IdsOf(m.heap[o])
  BY <1>1, <1>2, <1>3, <1>4, WithOverridesIs
<1> QED
  BY <1>5, RewriteIs

LEMMA StepModifyCommand ==
    ASSUME Alone, StoreInv, NEW n \in Names, NEW p \in Perms, NEW value \in BOOLEAN, ModifyCommand(n, p, value)
    PROVE  StoreInv' /\ Survive
<1> DEFINE m == GetUser(db, mem, n)
           o == m.byName[n]
           k == Granted(m, o, p, value)
           e == Update(db, k.heap[o])
           l == Invalidate(k, o)
           u == Given(m.heap[o], p, value)
<1>1. /\ job' = Idle /\ request' = None /\ TablesOk(db) /\ db = kept /\ MemOk(mem) /\ Agree(db, mem, {})
      /\ \A q \in Names : Roomy(mem, q)
  BY LoopIsFree DEF ModifyCommand
<1>2. o # None /\ Commit(e) /\ Remember(l)
  BY DEF ModifyCommand
<1>3. m = GetUser(db, mem, n)
  OBVIOUS
<1>4. o = m.byName[n]
  OBVIOUS
<1>5. k = Granted(m, o, p, value) /\ e = Update(db, k.heap[o]) /\ u = Given(m.heap[o], p, value)
  OBVIOUS
<1>6. l = Invalidate(k, o)
  OBVIOUS
<1> HIDE DEF m, o, k, e, l, u
<1>7. MemOk(m) /\ Agree(db, m, {}) /\ Mirrors(db, m, o, n)
  BY <1>1, <1>2, <1>3, <1>4, GetUserIs
<1>8. Rewritten(db, e, k, o, n)
  <2>1. k = Changed(m, o, u) /\ e = Update(db, u)
    BY <1>1, <1>5, <1>7, GrantedIs
  <2>2. u = Given(m.heap[o], p, value)
    BY <1>5
  <2> QED
    BY <1>1, <1>7, <2>1, <2>2, GivenIsWritten
<1>9. MemOk(l) /\ Agree(e, l, {})
  BY <1>6, <1>8, RewriteEnds DEF Rewritten
<1>10. db' = e /\ kept' = e
  BY <1>2 DEF Commit
<1>11. StoreInv'
  BY <1>1, <1>2, <1>8, <1>9, <1>10, CallEnds DEF Rewritten
<1>12. \A i \in Ids : kept.index[i] \in {n} => Meant(i)
  BY DEF Meant
<1>13. Survive
  <2>1. TablesOk(kept) /\ SameOvers(kept, kept', {n})
    BY <1>1, <1>8, <1>10 DEF Rewritten
  <2> QED
    BY <1>12, <2>1, Survives
<1> QED
  BY <1>11, <1>13

LEMMA StepRenameCommand ==
    ASSUME Alone, StoreInv, NEW n \in Names, NEW k \in Names, RenameCommand(n, k)
    PROVE  StoreInv' /\ Survive
<1> DEFINE e == Renamed(Reindexed(db, n, k), n, k)
           l == Reload(e, InvalidateByName(mem, n), k)
<1>1. /\ job' = Idle /\ request' = None /\ TablesOk(db) /\ db = kept /\ MemOk(mem) /\ Agree(db, mem, {})
      /\ \A q \in Names : Roomy(mem, q)
  BY LoopIsFree DEF RenameCommand
<1>2. ~Taken(db, k) /\ Commit(e) /\ Remember(l)
  BY DEF RenameCommand
<1>3. e = Moved(db, n, k)
  BY DEF Moved
<1>4. l = Reload(e, InvalidateByName(mem, n), k)
  OBVIOUS
<1> HIDE DEF e, l
<1>5. TablesOk(e) /\ HasMoved(e, mem, n, k) /\ SameOvers(db, e, {})
  BY <1>1, <1>2, <1>3, RenamedIs
<1>6. MemOk(l) /\ Agree(e, l, {})
  BY <1>1, <1>4, <1>5, RenameEnds
<1>7. db' = e /\ kept' = e
  BY <1>2 DEF Commit
<1>8. StoreInv'
  BY <1>1, <1>2, <1>5, <1>6, <1>7, CallEnds
<1>9. SameOvers(kept, kept', {}) /\ TablesOk(kept)
  BY <1>1, <1>5, <1>7
<1> QED
  BY <1>8, <1>9, Survives

--------------------------------------------------------------------------------
(* The tools, stage by stage. *)

\* At a stage of a tool the loop and the gateway are not at work.
LEMMA ToolIsAt ==
    ASSUME StoreInv, job.at # "idle"
    PROVE  /\ request = None /\ job \in Jobs
           /\ TablesOk(kept) /\ MemOk(mem) /\ \A n \in Names : Roomy(mem, n)
           /\ job.at = "modify" => Modifying
           /\ job.at = "modified" => Modified
           /\ job.at \in {"rename", "reindexed"} => Renaming
           /\ job.at = "renamed" => RenameDone
           /\ job.at \in {"merge", "pooled"} => Merging
           /\ job.at = "merged" => Merged
<1>1. Working
  BY IdleIs DEF StoreInv, Stage, Waiting, Elevating
<1>2. TablesOk(kept) /\ MemOk(mem) /\ \A n \in Names : Roomy(mem, n)
  BY TightIsRoomy DEF StoreInv
<1> QED
  BY <1>1, <1>2 DEF Working, Modifying, Modified, Renaming, RenameDone, Merging, Merged

LEMMA ToolGoesOn ==
    ASSUME NEW m, MemOk(m), Remember(m), TablesOk(kept'), request' = None, job' \in Jobs,
           Modifying' \/ Modified' \/ Renaming' \/ RenameDone' \/ Merging' \/ Merged'
    PROVE  StoreInv'
<1>1. MemOk(mem') /\ Tight(mem', job'.obj, request')
  BY Remembers
<1>2. Working'
  BY DEF Working
<1> QED
  BY <1>1, <1>2 DEF StoreInv, Stage

LEMMA StepModifyGet ==
    ASSUME Alone, StoreInv, NEW n \in Names, ModifyGet(n)
    PROVE  StoreInv' /\ Survive
<1> DEFINE m == GetUser(db, mem, n)
           o == m.byName[n]
           rec == [Idle EXCEPT !.at = "modify", !.obj = o]
<1>1. ToolStarts(rec) /\ Remember(m) /\ o # None /\ db' = db /\ kept' = kept
  BY DEF ModifyGet
<1>2. m = GetUser(db, mem, n)
  OBVIOUS
<1>3. rec = [Idle EXCEPT !.at = "modify", !.obj = o] /\ o = m.byName[n]
  OBVIOUS
<1> HIDE DEF m, o, rec
<1>4. /\ job' = rec /\ request' = None /\ TablesOk(db) /\ db = kept /\ MemOk(mem) /\ Agree(db, mem, {})
      /\ Roomy(mem, n)
  BY <1>1, ToolIsFree
<1>5. MemOk(m) /\ Agree(db, m, {}) /\ Mirrors(db, m, o, n)
  BY <1>1, <1>2, <1>3, <1>4, GetUserIs
<1>6. o \in Objects
  BY <1>5 DEF Mirrors
<1>7. rec \in Jobs /\ rec.at = "modify" /\ rec.obj = o
  BY <1>3, <1>6 DEF Idle, Jobs
<1>8. Agree(db, mem', {}) /\ Mirrors(db, mem', o, n)
  <2>1. o \in {job'.obj, request'}
    BY <1>4, <1>7
  <2> QED
    BY <1>1, <1>5, <2>1, Remembers
<1>9. Modifying'
  BY <1>1, <1>4, <1>7, <1>8 DEF Modifying, Clean
<1>10. StoreInv'
  BY <1>1, <1>4, <1>5, <1>7, <1>9, ToolGoesOn
<1> QED
  BY <1>1, <1>10, NothingWritten

LEMMA StepModifyWrite ==
    ASSUME Alone, StoreInv, NEW p \in Perms, NEW value \in BOOLEAN, ModifyWrite(p, value)
    PROVE  StoreInv' /\ Survive
<1>1. /\ job.at = "modify" /\ Modifying /\ request = None /\ job \in Jobs
      /\ job' = [job EXCEPT !.at = "modified"] /\ request' = None
      /\ TablesOk(kept) /\ MemOk(mem)
  BY ToolIsAt DEF ModifyWrite, ToolSteps
<1> DEFINE o == job.obj
           k == Granted(mem, o, p, value)
           e == Update(db, k.heap[o])
           u == Given(mem.heap[o], p, value)
<1>2. PICK n \in Names : Mirrors(kept, mem, o, n)
  BY <1>1 DEF Modifying
<1>3. db = kept /\ Agree(kept, mem, {})
  BY <1>1 DEF Modifying, Clean
<1>4. Commit(e) /\ Remember(k)
  BY DEF ModifyWrite
<1>5. k = Granted(mem, o, p, value) /\ e = Update(kept, k.heap[o]) /\ u = Given(mem.heap[o], p, value)
  BY <1>3
<1>6. job' \in Jobs /\ job'.at = "modified" /\ job'.obj = o
  BY <1>1 DEF Jobs
<1>7. \A i \in Ids : kept.index[i] \in {n} => Meant(i)
  BY <1>1, <1>2, OwnObject DEF Meant
<1> HIDE DEF o, k, e, u
<1>8. Rewritten(kept, e, k, o, n)
  <2>1. k = Changed(mem, o, u) /\ e = Update(kept, u)
    BY <1>1, <1>2, <1>5, GrantedIs
  <2>2. u = Given(mem.heap[o], p, value)
    BY <1>5
  <2> QED
    <3>1. TablesOk(kept) /\ MemOk(mem) /\ Agree(kept, mem, {}) /\ Mirrors(kept, mem, o, n)
      BY <1>1, <1>2, <1>3
    <3> QED
      BY <2>1, <2>2, <3>1, GivenIsWritten
<1>9. Agree(e, mem', {n}) /\ Mirrors(e, mem', o, n)
  <2>1. o \in {job'.obj, request'}
    BY <1>6
  <2> QED
    BY <1>4, <1>8, <2>1, Remembers DEF Rewritten
<1>10. db' = e /\ kept' = e
  BY <1>4 DEF Commit
<1>11. Modified'
  BY <1>6, <1>9, <1>10 DEF Modified
<1>12. StoreInv'
  BY <1>1, <1>4, <1>6, <1>8, <1>10, <1>11, ToolGoesOn DEF Rewritten
<1>13. Survive
  BY <1>1, <1>7, <1>8, <1>10, Survives DEF Rewritten
<1> QED
  BY <1>12, <1>13

LEMMA StepModifyForget ==
    ASSUME Alone, StoreInv, ModifyForget
    PROVE  StoreInv' /\ Survive
<1>1. /\ Modified /\ request' = None /\ job' = Idle /\ TablesOk(kept) /\ MemOk(mem)
      /\ db' = db /\ kept' = kept
  BY ToolIsAt DEF ModifyForget, ToolSteps
<1> DEFINE l == Invalidate(mem, job.obj)
<1>2. PICK n \in Names : Mirrors(kept, mem, job.obj, n) /\ Agree(kept, mem, {n})
  BY <1>1 DEF Modified
<1>3. Remember(l) /\ db' = kept
  BY <1>1 DEF ModifyForget, Modified
<1>4. l = Invalidate(mem, job.obj)
  OBVIOUS
<1> HIDE DEF l
<1>5. MemOk(l) /\ Agree(kept, l, {})
  BY <1>1, <1>2, <1>4, RewriteEnds
<1>6. StoreInv'
  BY <1>1, <1>3, <1>5, CallEnds
<1> QED
  BY <1>1, <1>6, NothingWritten

LEMMA StepRenameCheck ==
    ASSUME Alone, StoreInv, NEW n \in Names, NEW k \in Names, RenameCheck(n, k)
    PROVE  StoreInv' /\ Survive
<1> DEFINE rec == [Idle EXCEPT !.at = "rename", !.from = n, !.to = k]
<1>1. ToolStarts(rec) /\ Remember(mem) /\ ~Taken(db, k) /\ db' = db /\ kept' = kept
  BY DEF RenameCheck
<1>2. rec \in Jobs /\ rec.at = "rename" /\ rec.from = n /\ rec.to = k
  BY DEF Idle, Jobs
<1> HIDE DEF rec
<1>3. job' = rec /\ request' = None /\ TablesOk(db) /\ db = kept /\ MemOk(mem) /\ Agree(db, mem, {})
  BY <1>1, ToolIsFree
<1>4. Agree(db, mem', {})
  BY <1>1, <1>3, Remembers
<1>5. Renaming'
  BY <1>1, <1>2, <1>3, <1>4 DEF Renaming
<1>6. StoreInv'
  BY <1>1, <1>2, <1>3, <1>5, ToolGoesOn
<1> QED
  BY <1>1, <1>6, NothingWritten

LEMMA StepRenameIndex ==
    ASSUME Alone, StoreInv, RenameIndex
    PROVE  StoreInv' /\ Survive
<1>1. /\ job.at = "rename" /\ Renaming /\ job \in Jobs /\ request' = None /\ job' = [job EXCEPT !.at = "reindexed"]
      /\ TablesOk(kept) /\ MemOk(mem) /\ kept' = kept /\ Remember(mem)
      /\ db' = Reindexed(db, job.from, job.to)
  BY ToolIsAt DEF RenameIndex, ToolSteps
<1>2. job' \in Jobs /\ job'.at = "reindexed" /\ job'.from = job.from /\ job'.to = job.to
  BY <1>1 DEF Jobs
<1>3. Agree(kept, mem', {})
  BY <1>1, Remembers DEF Renaming
<1>4. Renaming'
  BY <1>1, <1>2, <1>3 DEF Renaming, Begun
<1>5. StoreInv'
  BY <1>1, <1>2, <1>4, ToolGoesOn
<1> QED
  BY <1>1, <1>5, NothingWritten

LEMMA StepRenameRow ==
    ASSUME Alone, StoreInv, RenameRow
    PROVE  StoreInv' /\ Survive
<1> DEFINE n == job.from
           k == job.to
           e == Renamed(Reindexed(kept, n, k), n, k)
<1>1. /\ job.at = "reindexed" /\ Renaming /\ job \in Jobs /\ request' = None
      /\ TablesOk(kept) /\ MemOk(mem) /\ Remember(mem)
  BY ToolIsAt DEF RenameRow, ToolSteps
<1>2. n \in Names /\ k \in Names /\ ~Taken(kept, k) /\ Agree(kept, mem, {}) /\ db = Reindexed(kept, n, k)
  BY <1>1 DEF Renaming, Begun
<1>3. ~Taken(db, k)
  <2> DEFINE x == [i \in Ids |-> IF kept.index[i] = n THEN k ELSE kept.index[i]]
  <2>1. db = [kept EXCEPT !.index = x]
    BY <1>2 DEF Reindexed
  <2> HIDE DEF x
  <2>2. db.row = kept.row
    BY <1>1, <2>1 DEF TablesOk, Tables
  <2> QED
    BY <1>2, <2>2 DEF Taken
<1>4. job' = [job EXCEPT !.at = "renamed"] /\ Commit(e)
  BY <1>2, <1>3 DEF RenameRow, ToolSteps
<1>5. job' \in Jobs /\ job'.at = "renamed" /\ job'.from = n /\ job'.to = k
  BY <1>1, <1>4 DEF Jobs
<1>6. e = Moved(kept, n, k)
  BY DEF Moved
<1> HIDE DEF n, k, e
<1>7. TablesOk(e) /\ HasMoved(e, mem, n, k) /\ SameOvers(kept, e, {})
  BY <1>1, <1>2, <1>6, RenamedIs
<1>8. db' = e /\ kept' = e
  BY <1>4 DEF Commit
<1>9. HasMoved(e, mem', n, k)
  BY <1>1, <1>7, Remembers DEF HasMoved
<1>10. RenameDone'
  BY <1>2, <1>5, <1>7, <1>8, <1>9 DEF RenameDone
<1>11. StoreInv'
  BY <1>1, <1>5, <1>7, <1>8, <1>10, ToolGoesOn
<1>12. SameOvers(kept, kept', {})
  BY <1>7, <1>8
<1> QED
  BY <1>1, <1>11, <1>12, Survives

LEMMA StepRenameCaches ==
    ASSUME Alone, StoreInv, RenameCaches
    PROVE  StoreInv' /\ Survive
<1> DEFINE n == job.from
           k == job.to
           l == Reload(kept, InvalidateByName(mem, n), k)
<1>1. /\ RenameDone /\ request' = None /\ job' = Idle
      /\ TablesOk(kept) /\ MemOk(mem) /\ db' = db /\ kept' = kept /\ \A q \in Names : Roomy(mem, q)
  BY ToolIsAt DEF RenameCaches, ToolSteps
<1>2. n \in Names /\ k \in Names /\ HasMoved(kept, mem, n, k) /\ db = kept
  BY <1>1 DEF RenameDone
<1>3. Remember(l)
  BY <1>2 DEF RenameCaches
<1>4. l = Reload(kept, InvalidateByName(mem, n), k)
  OBVIOUS
<1> HIDE DEF n, k, l
<1>5. MemOk(l) /\ Agree(kept, l, {})
  BY <1>1, <1>2, <1>4, RenameEnds
<1>6. StoreInv'
  BY <1>1, <1>2, <1>3, <1>5, CallEnds
<1> QED
  BY <1>1, <1>6, NothingWritten

LEMMA StepMergeLoad ==
    ASSUME Alone, StoreInv, NEW n \in Names, NEW k \in Names, MergeLoad(n, k)
    PROVE  StoreInv' /\ Survive
<1> DEFINE x == Load(db, mem, n)
           o == x.byName[n]
           y == Load(db, x, k)
           u == Joined(x.heap[o], y.heap[y.byName[k]])
           l == Changed(y, o, u)
           rec == [at |-> "merge", from |-> k, to |-> n, obj |-> o]
<1>1. /\ n # k /\ Taken(db, n) /\ Taken(db, k) /\ ToolStarts(rec) /\ Remember(l) /\ db' = db /\ kept' = kept
  BY DEF MergeLoad, Alone, Changed
<1>2. /\ job' = rec /\ request' = None /\ TablesOk(db) /\ db = kept /\ MemOk(mem) /\ Agree(db, mem, {})
      /\ \A q \in Names : Roomy(mem, q)
  BY <1>1, ToolIsFree
<1>3. x = Load(db, mem, n)
  OBVIOUS
<1>4. o = x.byName[n]
  OBVIOUS
<1>5. y = Load(db, x, k)
  OBVIOUS
<1>6. l = Changed(y, o, Joined(x.heap[o], y.heap[y.byName[k]]))
  OBVIOUS
<1>7. rec = [at |-> "merge", from |-> k, to |-> n, obj |-> o]
  OBVIOUS
<1> HIDE DEF x, o, y, u, l, rec
<1>8. MemOk(l) /\ Agree(db, l, {n}) /\ o \in Objects /\ l.heap[o] = Pooled(db, k, n)
  BY <1>1, <1>2, <1>3, <1>4, <1>5, <1>6, MergeLoads
<1>9. rec \in Jobs /\ rec.at = "merge" /\ rec.from = k /\ rec.to = n /\ rec.obj = o
  BY <1>7, <1>8 DEF Jobs
<1>10. Agree(db, mem', {n}) /\ mem'.heap[o] = Pooled(db, k, n)
  <2>1. o \in {job'.obj, request'}
    BY <1>2, <1>9
  <2> QED
    BY <1>1, <1>8, <2>1, Remembers
<1>11. Merging'
  BY <1>1, <1>2, <1>8, <1>9, <1>10 DEF Merging
<1>12. StoreInv'
  BY <1>1, <1>2, <1>8, <1>9, <1>11, ToolGoesOn
<1> QED
  BY <1>1, <1>12, NothingWritten

LEMMA StepMergeIndex ==
    ASSUME Alone, StoreInv, MergeIndex
    PROVE  StoreInv' /\ Survive
<1>1. /\ job.at = "merge" /\ Merging /\ job \in Jobs /\ request' = None /\ job' = [job EXCEPT !.at = "pooled"]
      /\ TablesOk(kept) /\ MemOk(mem) /\ kept' = kept /\ Remember(mem)
      /\ db' = Reindexed(db, job.from, job.to)
  BY ToolIsAt DEF MergeIndex, ToolSteps
<1>2. /\ job' \in Jobs /\ job'.at = "pooled" /\ job'.from = job.from /\ job'.to = job.to /\ job'.obj = job.obj
  BY <1>1 DEF Jobs
<1>3. Agree(kept, mem', {job.to}) /\ mem'.heap[job.obj] = mem.heap[job.obj]
  <2>1. job.obj \in Objects /\ job.obj \in {job'.obj, request'} /\ Agree(kept, mem, {job.to})
    BY <1>1, <1>2 DEF Merging
  <2> QED
    BY <1>1, <2>1, Remembers
<1>4. Merging'
  BY <1>1, <1>2, <1>3 DEF Merging, Begun
<1>5. StoreInv'
  BY <1>1, <1>2, <1>4, ToolGoesOn
<1> QED
  BY <1>1, <1>5, NothingWritten

LEMMA StepMergeRows ==
    ASSUME Alone, StoreInv, MergeRows
    PROVE  StoreInv' /\ Survive
<1> DEFINE n == job.to
           k == job.from
           o == job.obj
           e == MergedTables(db, mem.heap[o], n, k)
<1>1. /\ job.at = "pooled" /\ Merging /\ job \in Jobs /\ request' = None
      /\ job' = [job EXCEPT !.at = "merged"]
      /\ TablesOk(kept) /\ MemOk(mem) /\ Remember(mem)
  BY ToolIsAt DEF MergeRows, ToolSteps
<1>2. Commit(e)
  BY DEF MergeRows, MergedTables
<1>3. /\ n \in Names /\ k \in Names /\ n # k /\ Taken(kept, n) /\ Taken(kept, k)
      /\ Agree(kept, mem, {n}) /\ o \in Objects /\ mem.heap[o] = Pooled(kept, k, n) /\ db = Reindexed(kept, k, n)
  BY <1>1 DEF Merging, Begun
<1>4. job' \in Jobs /\ job'.at = "merged" /\ job'.from = k /\ job'.to = n /\ job'.obj = o
  BY <1>1 DEF Jobs
<1>5. \A i \in Ids : kept.index[i] \in {k} => Meant(i)
  BY <1>1 DEF Meant
<1>6. e = MergedTables(db, mem.heap[o], n, k)
  OBVIOUS
<1> HIDE DEF n, k, o, e
<1>7. TablesOk(e) /\ HasMerged(e, mem, o, n, k) /\ SameOvers(kept, e, {k})
  BY <1>1, <1>3, <1>6, MergedIs
<1>8. db' = e /\ kept' = e
  BY <1>2 DEF Commit
<1>9. HasMerged(e, mem', o, n, k)
  <2>1. o \in {job'.obj, request'}
    BY <1>4
  <2> QED
    BY <1>1, <1>7, <2>1, Remembers DEF HasMerged
<1>10. Merged'
  BY <1>3, <1>4, <1>8, <1>9 DEF Merged
<1>11. StoreInv'
  BY <1>1, <1>4, <1>7, <1>8, <1>10, ToolGoesOn
<1>12. Survive
  BY <1>1, <1>5, <1>7, <1>8, Survives
<1> QED
  BY <1>11, <1>12

LEMMA StepMergeCaches ==
    ASSUME Alone, StoreInv, MergeCaches
    PROVE  StoreInv' /\ Survive
<1> DEFINE n == job.to
           k == job.from
           o == job.obj
           l == Reload(kept, Invalidate(InvalidateByName(mem, k), o), n)
<1>1. /\ Merged /\ request' = None /\ job' = Idle
      /\ TablesOk(kept) /\ MemOk(mem) /\ db' = db /\ kept' = kept /\ \A q \in Names : Roomy(mem, q)
  BY ToolIsAt DEF MergeCaches, ToolSteps
<1>2. n \in Names /\ k \in Names /\ HasMerged(kept, mem, o, n, k) /\ db = kept
  BY <1>1 DEF Merged
<1>3. Remember(l)
  BY <1>2 DEF MergeCaches
<1>4. l = Reload(kept, Invalidate(InvalidateByName(mem, k), o), n)
  OBVIOUS
<1> HIDE DEF n, k, o, l
<1>5. MemOk(l) /\ Agree(kept, l, {})
  BY <1>1, <1>2, <1>4, MergeEnds
<1>6. StoreInv'
  BY <1>1, <1>2, <1>3, <1>5, CallEnds
<1> QED
  BY <1>1, <1>6, NothingWritten

--------------------------------------------------------------------------------
(* The elevate request, a crash, and the whole. *)

LEMMA StepElevateGet ==
    ASSUME Alone, StoreInv, NEW n \in Names, ElevateGet(n)
    PROVE  StoreInv' /\ Survive
<1> DEFINE m == GetUser(db, mem, n)
           o == m.byName[n]
<1>1. /\ o # None /\ request' = o /\ job' = job /\ db' = db /\ kept' = kept /\ Remember(m)
      /\ job = Idle /\ request = None
  BY DEF ElevateGet, NoTool, Alone
<1>2. m = GetUser(db, mem, n)
  OBVIOUS
<1>3. o = m.byName[n]
  OBVIOUS
<1> HIDE DEF m, o
<1>4. TablesOk(db) /\ db = kept /\ MemOk(mem) /\ Agree(db, mem, {}) /\ Roomy(mem, n)
  BY <1>1, StoreIsFree
<1>5. MemOk(m) /\ Agree(db, m, {}) /\ Mirrors(db, m, o, n)
  BY <1>1, <1>2, <1>3, <1>4, GetUserIs
<1>6. /\ MemOk(mem') /\ Tight(mem', job'.obj, request')
      /\ Agree(db, mem', {}) /\ Mirrors(db, mem', o, n)
  <2>1. o \in {job'.obj, request'}
    BY <1>1
  <2> QED
    BY <1>1, <1>5, <2>1, Remembers
<1>7. Elevating'
  BY <1>1, <1>4, <1>6 DEF Elevating, Clean, Mirrors
<1>8. StoreInv'
  BY <1>1, <1>4, <1>6, <1>7 DEF StoreInv, Stage
<1> QED
  BY <1>1, <1>8, NothingWritten

LEMMA StepElevateWrite ==
    ASSUME Alone, StoreInv, NEW reset \in BOOLEAN, ElevateWrite(reset)
    PROVE  StoreInv' /\ Survive
<1> DEFINE over == IF reset THEN NoOverrides ELSE [granted |-> Perms, revoked |-> {}]
           o == request
           v == mem.heap[o]
           u == WithOverrides(v, over)
           k == [mem EXCEPT !.heap[o].over = over]
           e == Update(db, k.heap[o])
           l == Invalidate(k, o)
<1>1. /\ o # None /\ job = Idle /\ request' = None /\ job' = job /\ Commit(e) /\ Remember(l)
  BY DEF ElevateWrite, NoTool, Alone
<1>2. Elevating
  <2>1. ~Working
    BY <1>1, IdleIs DEF Working, Modifying, Modified, Renaming, RenameDone, Merging, Merged
  <2> QED
    BY <1>1, <2>1 DEF StoreInv, Stage, Waiting
<1>3. PICK n \in Names : Mirrors(kept, mem, o, n)
  BY <1>2 DEF Elevating
<1>4. TablesOk(kept) /\ db = kept /\ MemOk(mem) /\ Agree(kept, mem, {})
  BY <1>2 DEF StoreInv, Elevating, Clean
<1>5. over \in Overrides
  BY OverridesStaySparse
<1>6. o \in Objects /\ v \in User /\ v.name = n
  <2>1. v \in User /\ v.name = n
    BY <1>3, <1>4, MirrorIsUser
  <2> QED
    BY <1>3, <2>1 DEF Mirrors
<1>7. \A i \in Ids : kept.index[i] \in {n} => Meant(i)
  BY <1>1, <1>6 DEF Meant
<1>8. u = WithOverrides(v, over) /\ v = mem.heap[o]
  OBVIOUS
<1>9. k = Changed(mem, o, u) /\ k.heap[o] = u
  <2> HIDE DEF over
  <2>1. k = Changed(mem, o, u)
    BY DEF Changed, WithOverrides
  <2> HIDE DEF u, v, k
  <2> QED
    BY <1>4, <1>6, <2>1 DEF Changed, MemOk, Memories
<1>10. e = Update(kept, u)
  <2> HIDE DEF k, u
  <2> QED
    BY <1>4, <1>9
<1>11. l = Invalidate(k, o)
  OBVIOUS
<1> HIDE DEF over, o, v, u, k, e, l
<1>12. u \in User /\ u.name = n /\ IdsOf(u) = IdsOf(mem.heap[o])
  BY <1>5, <1>6, <1>8, WithOverridesIs
<1>13. Rewritten(kept, e, k, o, n)
  <2>1. k = Changed(mem, o, u)
    BY <1>9
  <2> QED
    BY <1>3, <1>4, <1>10, <1>12, <2>1, RewriteIs
<1>14. MemOk(l) /\ Agree(e, l, {})
  BY <1>11, <1>13, RewriteEnds DEF Rewritten
<1>15. db' = e /\ kept' = e /\ job' = Idle
  BY <1>1 DEF Commit
<1>16. StoreInv'
  BY <1>1, <1>13, <1>14, <1>15, CallEnds DEF Rewritten
<1>17. Survive
  BY <1>4, <1>7, <1>13, <1>15, Survives DEF Rewritten
<1> QED
  BY <1>16, <1>17

LEMMA NothingCached ==
    MemOk(NoCache) /\ Tight(NoCache, None, None) /\ \A d, X : Agree(d, NoCache, X)
<1>1. NoCache \in Memories
  BY DEF NoCache, Memories
<1>2. /\ \A o \in Objects : NoCache.heap[o] = None
      /\ \A i \in Ids : NoCache.byId[i] = None
      /\ \A n \in Names : NoCache.byName[n] = None
  BY DEF NoCache
<1> HIDE DEF NoCache
<1> QED
  BY <1>1, <1>2 DEF MemOk, Tight, Agree

LEMMA StepCrash ==
    ASSUME StoreInv, Crash
    PROVE  StoreInv' /\ Survive
<1>1. /\ db' = kept /\ kept' = kept /\ job' = Idle /\ request' = None /\ Remember(NoCache)
      /\ TablesOk(kept)
  BY DEF Crash, Rollback, StoreInv
<1>2. MemOk(NoCache) /\ Agree(kept, NoCache, {})
  BY NothingCached
<1>3. StoreInv'
  BY <1>1, <1>2, CallEnds
<1> QED
  BY <1>1, <1>3, NothingWritten

LEMMA InitStore == Init => StoreInv
<1> SUFFICES ASSUME Init PROVE StoreInv
  OBVIOUS
<1>1. PICK index \in [Ids -> Names \cup {None}], over \in MigratedOverrides, h \in Handles :
        /\ db = [index |-> index,
                 row |-> [n \in Names |->
                     IF n \in Range(index)
                     THEN [over |-> over, ids |-> [i \in Ids |-> IF index[i] = n THEN h ELSE None]]
                     ELSE None]]
        /\ kept = db
  BY DEF Init
<1> DEFINE ids == [n \in Names |-> [i \in Ids |-> IF index[i] = n THEN h ELSE None]]
           row == [n \in Names |-> IF n \in Range(index) THEN [over |-> over, ids |-> ids[n]] ELSE None]
<1>2. kept = [index |-> index, row |-> row]
  BY <1>1
<1>3. /\ \A n \in Names : ids[n] \in Identities
      /\ \A n \in Names, i \in Ids : ids[n][i] = IF index[i] = n THEN h ELSE None
  BY DEF Identities
<1>4. over \in Overrides
  BY OverridesStaySparse
<1>5. \A n \in Names : row[n] = IF n \in Range(index) THEN [over |-> over, ids |-> ids[n]] ELSE None
  OBVIOUS
<1>6. \A n \in Names : [over |-> over, ids |-> ids[n]] \in Row
  <2> HIDE DEF ids
  <2> QED
    BY <1>3, <1>4 DEF Row
<1>7. row \in [Names -> Row \cup {None}]
  <2> HIDE DEF ids
  <2> QED
    BY <1>6
<1>8. \A n \in Names, i \in Ids : index[i] = n <=> row[n] # None /\ row[n].ids[i] # None
  <2> SUFFICES ASSUME NEW n \in Names, NEW i \in Ids
               PROVE  index[i] = n <=> row[n] # None /\ row[n].ids[i] # None
    OBVIOUS
  <2>1. index[i] = n => n \in Range(index)
    BY DEF Range
  <2> DEFINE r == [over |-> over, ids |-> ids[n]]
  <2>2. /\ r.ids = ids[n] /\ r # None
        /\ row[n] = IF n \in Range(index) THEN r ELSE None
    BY <1>5, <1>6, Values
  <2>3. ids[n][i] = IF index[i] = n THEN h ELSE None
    BY <1>3
  <2> HIDE DEF ids, row, r
  <2> QED
    BY <2>1, <2>2, <2>3, Values
<1> HIDE DEF ids, row
<1>9. TablesOk(kept)
  BY <1>2, <1>7, <1>8 DEF TablesOk, Tables, Indexed
<1>10. db = kept /\ mem = NoCache /\ job = Idle /\ request = None
  BY <1>1 DEF Init
<1>11. MemOk(mem) /\ Tight(mem, job.obj, request) /\ Waiting
  BY <1>10, IdleIs, NothingCached DEF Waiting, Clean
<1> QED
  BY <1>9, <1>11 DEF StoreInv, Stage

LEMMA StepStore ==
    ASSUME Alone, StoreInv, [Next]_vars
    PROVE  StoreInv' /\ [Survive]_kept
<1>1. CASE Loop
  BY <1>1, StepResolveCached, StepResolveIndexed, StepResolveNew, StepGetByPlatform, StepGet, StepCreate,
     StepModifyCommand, StepRenameCommand DEF Loop
<1>2. CASE Tool
  BY <1>2, StepModifyGet, StepModifyWrite, StepModifyForget, StepRenameCheck, StepRenameIndex, StepRenameRow,
     StepRenameCaches, StepMergeLoad, StepMergeIndex, StepMergeRows, StepMergeCaches DEF Tool
<1>3. CASE Gateway
  BY <1>3, StepElevateGet, StepElevateWrite DEF Gateway
<1>4. CASE Crash
  BY <1>4, StepCrash
<1>5. CASE UNCHANGED vars
  BY <1>5 DEF vars, StoreInv, Tight, Stage, Waiting, Elevating, Working, Clean, Begun, Modifying, Modified,
     Renaming, RenameDone, Merging, Merged
<1> QED
  BY <1>1, <1>2, <1>3, <1>4, <1>5 DEF Next

\* Every value has its shape, and no call finds memory full: the objects of a name that are
\* alive are one for each identity and three more (users/store.py:554-562, 648-662).
THEOREM StoreIsTyped == Alone => (Spec => []TypeOK)
<1> SUFFICES ASSUME Alone PROVE Spec => []TypeOK
  OBVIOUS
<1>1. ASSUME StoreInv PROVE db \in Tables
  <2>1. kept \in Tables
    BY <1>1 DEF StoreInv, TablesOk
  <2>2. ASSUME NEW n \in Names, NEW k \in Names PROVE Reindexed(kept, n, k) \in Tables
    BY <2>1, <2>2 DEF Tables, Reindexed
  <2>3. Begun /\ {job.from, job.to} \subseteq Names => db \in Tables
    BY <2>2 DEF Begun
  <2> QED
    BY <1>1, <2>1, <2>3 DEF StoreInv, Stage, Waiting, Elevating, Working, Clean, Modifying, Modified, Renaming,
       RenameDone, Merging, Merged
<1>2. ASSUME StoreInv PROVE TypeOK
  <2>1. kept \in Tables /\ MemOk(mem)
    BY <1>2 DEF StoreInv, TablesOk
  <2>2. \A d \in Tables : d.row \in [Names -> Row \cup {None}] /\ d.index \in [Ids -> Names \cup {None}]
    BY DEF Tables
  <2> QED
    BY <1>1, <1>2, <2>1, <2>2 DEF TypeOK, MemOk, Memories
<1>3. StoreInv => TypeOK
  BY <1>2
<1> QED
  BY <1>3, InitStore, StepStore, PTL DEF Spec

\* Between calls the caches say what the tables say, and the tables always agree on who is
\* who (users/store.py:648-662), where each tool and request has the store to itself and
\* nobody is merged with himself: without one of the three it fails.
THEOREM StoreStaysInStep == Alone => (Spec => []StoreAgrees)
<1> SUFFICES ASSUME Alone PROVE Spec => []StoreAgrees
  OBVIOUS
<1>1. ASSUME StoreInv PROVE RowsAreIndexed
  BY <1>1 DEF StoreInv, TablesOk, Indexed, RowsAreIndexed, Taken
<1>2. ASSUME StoreInv, Quiet PROVE Waiting /\ Agree(kept, mem, {})
  <2>1. Waiting
    BY <1>2, StoreIsFree DEF Quiet
  <2> QED
    BY <2>1 DEF Waiting, Clean
<1>3. ASSUME StoreInv PROVE CachesAgree
  <2> SUFFICES ASSUME Quiet, Agree(kept, mem, {})
               PROVE  /\ \A n \in Names : mem.byName[n] # None =>
                             Taken(kept, n) /\ mem.heap[mem.byName[n]] = Named(n, kept.row[n])
                      /\ \A i \in Ids : mem.byId[i] # None =>
                             /\ kept.index[i] # None /\ Taken(kept, kept.index[i])
                             /\ mem.heap[mem.byId[i]] = Named(kept.index[i], kept.row[kept.index[i]])
    BY <1>2, <1>3 DEF CachesAgree
  <2> QED
    BY Values DEF Agree, Mirrors
<1>4. StoreInv => StoreAgrees
  BY <1>1, <1>3 DEF StoreAgrees
<1> QED
  BY <1>4, InitStore, StepStore, PTL DEF Spec

\* What a user was granted or denied changes by a grant, a denial, an elevation or a merge of
\* that user and by nothing else (users/store.py:483-494, 648-662): no changed handle, rename
\* or crash carries old overrides, or another's, with it.
THEOREM OverridesStay == Alone => (Spec => OverridesSurvive)
<1> SUFFICES ASSUME Alone PROVE Spec => OverridesSurvive
  OBVIOUS
<1>1. StoreInv /\ [Next]_vars => [Survive]_kept
  BY StepStore
<1> QED
  BY <1>1, InitStore, StepStore, PTL DEF Spec, OverridesSurvive, Survive, Meant
================================================================================
