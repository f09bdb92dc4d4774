--------------------------- MODULE V1SnapshotProofs ---------------------------
(***************************************************************************)
(* The import is exact and the dialogue follows it, for any contents of    *)
(* V1, any number of its snapshots and any queries.                        *)
(***************************************************************************)
EXTENDS V1Snapshot, FiniteSetTheorems, WellFoundedInduction, TLAPS

-----------------------------------------------------------------------------
(* Rows and the document made of them.                                     *)

\* What the proofs need to know of the rows of a snapshot.
Proper(c) ==
    /\ c.systems \subseteq [id : Nat, code : Text, name : Text]
    /\ c.profiles \subseteq [id : Nat, code : Text, name : Text]
    /\ c.departments \subseteq Member
    /\ \A d \in c.departments : \E p \in c.profiles : p.id = d.profile
    /\ IsFiniteSet(c.accesses)

\* ORDER BY ... LIMIT 1 finds something.
LEMMA FirstIsARow ==
    ASSUME NEW rows, rows # {}, \A r \in rows : r.rank \in Nat
    PROVE  First(rows) \in rows
<1> DEFINE Less  == {pair \in Nat \X Nat : pair[1] < pair[2]}
           Ranks == {r.rank : r \in rows}
<1>1. IsWellFoundedOn(Less, Nat)
  BY NatLessThanWellFounded DEF OpToRel
<1>2. Ranks \subseteq Nat /\ Ranks # {}
  OBVIOUS
<1> HIDE DEF Less, Ranks
<1>3. PICK n \in Ranks : \A m \in Ranks : ~ (<<m, n>> \in Less)
  BY <1>1, <1>2, WFMin
<1>4. ASSUME NEW m \in Ranks PROVE n <= m
  <2>1. m \in Nat /\ n \in Nat
    BY <1>2
  <2>2. ~ (m < n)
    BY <2>1, <1>3 DEF Less
  <2> QED
    BY <2>1, <2>2
<1>5. \E r \in rows : \A q \in rows : r.rank <= q.rank
  BY <1>4 DEF Ranks
<1> QED
  BY <1>5 DEF First

\* An entry for a department is the first row of its id.
LEMMA EntryIsARow ==
    ASSUME NEW c, Proper(c), NEW d \in c.departments, NEW entry,
           entry = DepartmentEntry(c, DepartmentId(c, d))
    PROVE  \E e \in c.departments : /\ DepartmentId(c, e) = DepartmentId(c, d)
                                    /\ entry.id = DepartmentId(c, e)
                                    /\ entry.name = e.name
                                    /\ entry.city = CityOf(c, e.profile)
<1> DEFINE rows == {e \in c.departments : DepartmentId(c, e) = DepartmentId(c, d)}
<1>1. First(rows) \in rows
  BY FirstIsARow DEF Proper, Member
<1>2. /\ entry.id = DepartmentId(c, d)
      /\ entry.name = First(rows).name
      /\ entry.city = CityOf(c, First(rows).profile)
  BY DEF DepartmentEntry
<1> QED
  BY <1>1, <1>2

\* A valid document loses nothing when it becomes a bundle.
LEMMA BundleIsTheDocument ==
    ASSUME NEW c, Proper(c), Valid(Document(c))
    PROVE  Bundle(Document(c)) = Document(c)
<1>1. \A e \in Document(c).systems : e.row \in Nat
  BY DEF Document, SystemEntry, Proper
<1>2. \A e \in Document(c).profiles : e.row \in Nat
  BY DEF Document, ProfileEntry, Proper
<1>3. UniqueAndNamed(Document(c).systems) /\ UniqueAndNamed(Document(c).profiles)
  BY DEF Valid
<1>4. ById(Document(c).systems) = Document(c).systems
  BY <1>1, <1>3 DEF ById, UniqueAndNamed
<1>5. ById(Document(c).profiles) = Document(c).profiles
  BY <1>2, <1>3 DEF ById, UniqueAndNamed
<1> QED
  BY <1>4, <1>5 DEF Bundle, Document

-----------------------------------------------------------------------------
(* The invariant.                                                          *)

ReadIsView ==
    /\ stage \in {"reading", "published"} => 
          view = [t \in Table |-> view[t]] /\ Proper(view)
    /\ read = [t \in DOMAIN read |-> view[t]]
    /\ stage = "idle" => read = NothingRead

TablesAreProper ==
    /\ active # NoSnapshot => active \in Snapshot /\ tables[active] # Unloaded
    /\ \A n \in Snapshot : tables[n] # Unloaded => Proper(tables[n])
    /\ tables = [n \in Snapshot |-> tables[n]]

BundleIsOfView ==
    stage = "published" =>
       /\ ~ Dangling(view)
       /\ Valid(Document(view))
       /\ bundle = Document(view)

ImportInv == TablesAreProper /\ ReadIsView /\ BundleIsOfView

LEMMA ContentIsProper == \A c \in Content : Proper(c)
  BY V1SnapshotAssumption DEF Proper, Rows

LEMMA TablesHaveNames ==
    {"systems", "profiles", "departments", "accesses"} \subseteq Table
  BY DEF Table, Statement

LEMMA ImportInit == Init => ImportInv
  BY DEF Init, ImportInv, TablesAreProper, ReadIsView, BundleIsOfView, NothingRead

\* V1 moves: what has been fixed for the import stays.
LEMMA V1Keeps ==
    ASSUME ImportInv, NEW n \in Snapshot, Load(n) \/ Purge(n) \/ Withdraw(n)
    PROVE  ImportInv'
<1>1. UNCHANGED import
  BY DEF Load, Purge, Withdraw, V1Moves
<1>2. ReadIsView' /\ BundleIsOfView'
  BY <1>1 DEF import, ImportInv, ReadIsView, BundleIsOfView
<1>3. CASE Load(n)
  <2>1. PICK c \in Content : tables' = [tables EXCEPT ![n] = c]
    BY <1>3 DEF Load
  <2>2. c # Unloaded /\ Proper(c)
    BY ContentIsProper, V1SnapshotAssumption
  <2> QED
    BY <1>2, <1>3, <2>1, <2>2, V1SnapshotAssumption DEF Load, ImportInv, TablesAreProper
<1>4. CASE Purge(n)
  <2>1. Proper(NoRows)
    BY TablesHaveNames, FS_EmptySet DEF Proper, NoRows
  <2> QED
    BY <1>2, <1>4, <2>1 DEF Purge, ImportInv, TablesAreProper
<1>5. CASE Withdraw(n)
  <2>1. PICK a \in tables[n].accesses :
           tables' = [tables EXCEPT ![n].accesses = @ \ {a}]
    BY <1>5 DEF Withdraw
  <2> DEFINE c == tables[n]
             d == [c EXCEPT !.accesses = @ \ {a}]
  <2>2. c \in Rows /\ Proper(c)
    BY <1>5, ContentIsProper, V1SnapshotAssumption DEF Withdraw
  <2>3. d \in Rows /\ d # Unloaded
    BY <2>2, V1SnapshotAssumption DEF Rows
  <2>4. /\ d.systems = c.systems /\ d.profiles = c.profiles
        /\ d.departments = c.departments /\ d.accesses \subseteq c.accesses
    BY <2>2 DEF Rows
  <2>5. Proper(d)
    BY <2>2, <2>4, FS_Subset DEF Proper
  <2>6. tables' = [tables EXCEPT ![n] = d]
    BY <2>1 DEF ImportInv, TablesAreProper
  <2> HIDE DEF d
  <2> QED
    BY <1>2, <1>5, <2>3, <2>5, <2>6 DEF Withdraw, ImportInv, TablesAreProper
<1> QED
  BY <1>3, <1>4, <1>5

LEMMA ImportKeeps ==
    ASSUME ImportInv,
           FindSnapshot \/ NoSource \/ ReadTable \/ Publish \/ Refuse \/ Lose \/ Retry
    PROVE  ImportInv'
<1>1. CASE FindSnapshot
  <2>1. view' = [t \in Table |-> tables[active][t]] /\ Proper(tables[active])
    BY <1>1 DEF FindSnapshot, HasSource, ImportInv, TablesAreProper
  <2>2. Proper(view')
    BY <2>1, TablesHaveNames DEF Proper
  <2>3. view' = [t \in Table |-> view'[t]] /\ read' = [t \in DOMAIN read' |-> view'[t]]
    BY <1>1, <2>1 DEF FindSnapshot, ImportInv, ReadIsView, NothingRead
  <2> QED
    BY <1>1, <2>2, <2>3
    DEF FindSnapshot, ImportInv, TablesAreProper, ReadIsView, BundleIsOfView
<1>2. CASE NoSource \/ Refuse \/ Lose
  BY <1>2 DEF NoSource, Refuse, Lose, Fail, ImportInv, TablesAreProper, ReadIsView, BundleIsOfView
<1>3. CASE ReadTable
  BY <1>3 DEF ReadTable, Select, ImportInv, TablesAreProper, ReadIsView, BundleIsOfView
<1>4. CASE Publish
  <2>1. read = view /\ Proper(view)
    BY <1>4 DEF Publish, AllRead, ImportInv, ReadIsView
  <2>2. ~ Dangling(view) /\ Valid(Document(view)) /\ bundle' = Document(view)
    BY <1>4, <2>1, BundleIsTheDocument DEF Publish, Publishable
  <2> QED
    BY <1>4, <2>2 DEF Publish, ImportInv, TablesAreProper, ReadIsView, BundleIsOfView
<1>5. CASE Retry
  BY <1>5 DEF Retry, NothingRead, ImportInv, TablesAreProper, ReadIsView, BundleIsOfView
<1> QED
  BY <1>1, <1>2, <1>3, <1>4, <1>5

THEOREM ImportInvariant == Spec => []ImportInv
<1>1. ImportInv /\ [Next]_vars => ImportInv'
  <2> SUFFICES ASSUME ImportInv, [Next]_vars PROVE ImportInv'
    OBVIOUS
  <2>1. CASE Converse
    BY <2>1 DEF Converse, import, ImportInv, TablesAreProper, ReadIsView, BundleIsOfView
  <2>2. CASE UNCHANGED vars
    BY <2>2 DEF vars, import, ImportInv, TablesAreProper, ReadIsView, BundleIsOfView
  <2> QED
    BY <2>1, <2>2, V1Keeps, ImportKeeps DEF Next
<1> QED
  BY ImportInit, <1>1, PTL DEF Spec

-----------------------------------------------------------------------------
(* What follows for the catalog and the dialogue.                          *)

\* A profile of the document is one of V1's, with what belongs to it.
LEMMA EntryOfProfile ==
    ASSUME NEW p
    PROVE  /\ ProfileEntry(view, p).id = ProfileId(p)
           /\ ProfileEntry(view, p).city = CityOf(view, p.id)
           /\ ProfileEntry(view, p).departments = DepartmentsOf(p)
           /\ ProfileEntry(view, p).positions = PositionsOf(p)
           /\ ProfileEntry(view, p).access = AccessOf(p)
  BY DEF ProfileEntry, DepartmentsOf, PositionsOf, AccessOf

\* A department of the catalog has the id, the name and the city of a row.
LEMMA DepartmentIsARow ==
    ASSUME ImportInv, stage = "published", NEW d \in bundle.departments
    PROVE  \E e \in view.departments : /\ d.id = DepartmentId(view, e)
                                       /\ d.name = e.name
                                       /\ d.city = CityOf(view, e.profile)
<1>1. bundle = Document(view) /\ Proper(view)
  BY DEF ImportInv, BundleIsOfView, ReadIsView
<1>2. PICK d0 \in view.departments : d = DepartmentEntry(view, DepartmentId(view, d0))
  BY <1>1 DEF Document
<1> QED
  BY <1>1, <1>2, EntryIsARow

\* It is in the city of its profiles unless rows of several cities share the id.
LEMMA DepartmentInTheCity ==
    ASSUME ImportInv, stage = "published",
           NEW p \in bundle.profiles, NEW d \in bundle.departments, d.id \in p.departments,
           OfOneCity(d.id)
    PROVE  Normal[d.city] = Normal[p.city]
<1>1. bundle = Document(view)
  BY DEF ImportInv, BundleIsOfView
<1>2. PICK p0 \in view.profiles : p = ProfileEntry(view, p0)
  BY <1>1 DEF Document
<1>3. PICK own \in view.departments : own.profile = p0.id /\ d.id = DepartmentId(view, own)
  BY <1>2, EntryOfProfile DEF DepartmentsOf
<1>4. PICK first \in view.departments :
         d.id = DepartmentId(view, first) /\ d.city = CityOf(view, first.profile)
  BY DepartmentIsARow
<1>5. City(view, first) = City(view, own)
  BY <1>3, <1>4 DEF OfOneCity
<1>6. Normal[p.city] = City(view, own)
  BY <1>2, <1>3, EntryOfProfile DEF City
<1> QED
  BY <1>4, <1>5, <1>6 DEF City

(***************************************************************************)
(* What is published is one state of one V1 snapshot, whatever V1 holds    *)
(* and does between the statements; a department has the city of its       *)
(* profiles if V1's departments of its id are of one city                  *)
(* (v1_snapshot.py:46-415).                                                *)
(***************************************************************************)
THEOREM EveryImportIsExact == Spec => []ImportIsExact
<1>1. ImportInv => ImportIsExact
  <2> SUFFICES ASSUME ImportInv, stage = "published" PROVE ImportIsExact
    BY DEF ImportIsExact
  <2>1. ~ Dangling(view)
    BY DEF ImportInv, BundleIsOfView
  <2>2. bundle.profiles = {ProfileEntry(view, p) : p \in view.profiles}
    BY DEF ImportInv, BundleIsOfView, Document
  <2>3. UNION {{p.id} \X p.departments \X p.positions : p \in bundle.profiles} =
           UNION {{ProfileId(p)} \X DepartmentsOf(p) \X PositionsOf(p) : p \in view.profiles}
    BY <2>2, EntryOfProfile
  <2>4. UNION {{p.id} \X p.access : p \in bundle.profiles} =
           UNION {{ProfileId(p)} \X AccessOf(p) : p \in view.profiles}
    BY <2>2, EntryOfProfile
  <2> QED
    BY <2>1, <2>3, <2>4, DepartmentIsARow, DepartmentInTheCity DEF ImportIsExact
<1> QED
  BY ImportInvariant, <1>1, PTL

(***************************************************************************)
(* What is offered leads to a profile, for any catalog that an import can  *)
(* make and any query (tools/catalog.py:109-224).                          *)
(***************************************************************************)
THEOREM EveryOfferLeadsOn == Spec => []OffersLeadOn
<1>1. ImportInv => OffersLeadOn
  <2> SUFFICES ASSUME ImportInv, stage = "published", NEW query \in Query,
                      NEW d \in Departments(bundle, query, query.city)
               PROVE  /\ \E p \in bundle.profiles :
                            d.id \in p.departments /\ InCity(p, query.city)
                      /\ \A text \in Query :
                            \A q \in Positions(bundle, text, query.city, {d.id}) :
                               Profiles(bundle, query.city, d.id, q.id) # {}
    BY DEF OffersLeadOn
  <2>1. bundle = Document(view) /\ Proper(view)
    BY DEF ImportInv, BundleIsOfView, ReadIsView
  <2>2. d \in bundle.departments /\ (query.city # Blank => Normal[d.city] = query.city)
    BY DEF Departments
  <2>3. PICK d0 \in view.departments :
           d.id = DepartmentId(view, d0) /\ d.city = CityOf(view, d0.profile)
    BY <2>2, DepartmentIsARow
  <2>4. PICK p0 \in view.profiles : p0.id = d0.profile
    BY <2>1 DEF Proper
  <2>5. ProfileEntry(view, p0) \in bundle.profiles
    BY <2>1 DEF Document
  <2>6. d.id \in ProfileEntry(view, p0).departments
    BY <2>3, <2>4, EntryOfProfile DEF DepartmentsOf
  <2>7. InCity(ProfileEntry(view, p0), query.city)
    BY <2>2, <2>3, <2>4, EntryOfProfile DEF InCity
  <2>8. ASSUME NEW text \in Query, NEW q \in Positions(bundle, text, query.city, {d.id})
        PROVE  Profiles(bundle, query.city, d.id, q.id) # {}
    <3>1. q.id \in PositionsInContext(bundle, query.city, {d.id})
      BY DEF Positions
    <3> QED
      BY <3>1 DEF PositionsInContext, Profiles
  <2> QED
    BY <2>5, <2>6, <2>7, <2>8
<1> QED
  BY ImportInvariant, <1>1, PTL

-----------------------------------------------------------------------------
(* The access that is shown.                                               *)

\* A function has no more values than arguments.
LEMMA ImageIsNoLarger ==
    ASSUME NEW S, IsFiniteSet(S), NEW f, f = [x \in S |-> f[x]],
           NEW T, T = {f[x] : x \in S}
    PROVE  IsFiniteSet(T) /\ Cardinality(T) <= Cardinality(S)
<1>1. f \in Surjection(S, T)
  BY DEF Surjection
<1> QED
  BY <1>1, FS_Surjection

LEMMA AllThatFitsIsReturned ==
    ASSUME NEW candidates, NEW limit, NEW S \in Returned(candidates, limit)
    PROVE  S \subseteq candidates /\ (Cardinality(candidates) <= limit => S = candidates)
  BY DEF Returned

\* The tools find the systems and roles of a profile, all of them if they fit.
LEMMA AccessIsFound ==
    ASSUME ImportInv, stage = "published", NEW p0 \in view.profiles,
           NEW systems \in Returned(Systems(bundle, {ProfileId(p0)}), AccessLimit),
           NEW roles,
           \A s \in systems : roles[s] \in Returned(Roles(bundle, s.id, {ProfileId(p0)}), AccessLimit)
    PROVE  /\ UNION {roles[s] : s \in systems} \subseteq AccessOf(p0)
           /\ Cardinality(AccessOf(p0)) <= AccessLimit =>
                 UNION {roles[s] : s \in systems} = AccessOf(p0)
<1> DEFINE p == ProfileEntry(view, p0)
           access == AccessOf(p0)
           found == Systems(bundle, {ProfileId(p0)})
           of(s) == Roles(bundle, s.id, {ProfileId(p0)})
           systemOf(r) == CHOOSE s \in bundle.systems : s.id = r[1]
<1>1. bundle = Document(view) /\ Valid(bundle) /\ Proper(view)
  BY DEF ImportInv, BundleIsOfView, ReadIsView
<1>2. p \in bundle.profiles /\ p.id = ProfileId(p0) /\ p.access = access
  BY <1>1, EntryOfProfile DEF Document
<1>3. /\ \A q \in bundle.profiles : q.id = p.id => q = p
      /\ \A s, t \in bundle.systems : s.id = t.id => s = t
      /\ \A r \in access : \E s \in bundle.systems : s.id = r[1] /\ r \in s.roles
  BY <1>1, <1>2 DEF Valid, UniqueAndNamed
<1>4. RolesAllowed(bundle, {ProfileId(p0)}) = access
  BY <1>2, <1>3 DEF RolesAllowed
<1>5. IsFiniteSet(access)
  <2>1. IsFiniteSet({b \in view.accesses : b.profile = p0.id})
    BY <1>1, FS_Subset DEF Proper
  <2> DEFINE rows == {b \in view.accesses : b.profile = p0.id}
             f == [a \in rows |-> RoleId(view, a)]
  <2>2. access = {f[a] : a \in rows}
    BY DEF AccessOf
  <2>3. f = [a \in rows |-> f[a]]
    OBVIOUS
  <2> HIDE DEF access, rows, f
  <2> QED
    BY <2>1, <2>2, <2>3, ImageIsNoLarger DEF rows
<1> HIDE DEF p, access
<1>6. found = {systemOf(r) : r \in access}
  BY <1>3, <1>4 DEF Systems
<1>7. /\ Cardinality(found) <= Cardinality(access)
      /\ Cardinality(found) \in Nat /\ Cardinality(access) \in Nat
  <2>1. IsFiniteSet(found) /\ Cardinality(found) <= Cardinality(access)
    <3> DEFINE f == [r \in access |-> systemOf(r)]
    <3>1. found = {f[r] : r \in access}
      BY <1>6
    <3>2. f = [r \in access |-> f[r]]
      OBVIOUS
    <3> HIDE DEF found, f
    <3> QED
      BY <1>5, <3>1, <3>2, ImageIsNoLarger
  <2> QED
    BY <2>1, <1>5, FS_CardinalityType
<1>8. \A s \in found : of(s) \subseteq access
  BY <1>4 DEF Roles
<1>9. \A s \in found : /\ Cardinality(of(s)) \in Nat
                       /\ Cardinality(of(s)) <= Cardinality(access)
  BY <1>5, <1>8, FS_Subset, FS_CardinalityType
<1>10. systems \subseteq found /\ \A s \in systems : roles[s] \subseteq of(s)
  BY AllThatFitsIsReturned
<1>11. UNION {roles[s] : s \in systems} \subseteq access
  BY <1>8, <1>10
<1>12. ASSUME Cardinality(access) <= AccessLimit PROVE UNION {roles[s] : s \in systems} = access
  <2>1. systems = found
    BY <1>7, <1>12, AllThatFitsIsReturned, V1SnapshotAssumption
  <2>2. \A s \in systems : roles[s] = of(s)
    <3> SUFFICES ASSUME NEW s \in systems PROVE roles[s] = of(s)
      OBVIOUS
    <3>1. roles[s] \in Returned(of(s), AccessLimit)
      OBVIOUS
    <3>2. Cardinality(of(s)) <= AccessLimit
      <4> DEFINE n == Cardinality(of(s))
                 a == Cardinality(access)
      <4>1. s \in found
        BY <1>10
      <4>2. n \in Nat /\ n <= a
        BY <1>9, <4>1
      <4>3. a \in Nat /\ a <= AccessLimit
        BY <1>7, <1>12
      <4> HIDE DEF n, a
      <4>4. n <= AccessLimit
        BY <4>2, <4>3, V1SnapshotAssumption
      <4> QED
        BY <4>4 DEF n
    <3> HIDE DEF of
    <3> QED
      BY <3>1, <3>2, AllThatFitsIsReturned
  <2>3. ASSUME NEW r \in access PROVE \E s \in found : r \in of(s)
    <3>1. PICK s \in bundle.systems : s.id = r[1] /\ r \in s.roles
      BY <1>3
    <3>2. s \in found /\ r \in of(s)
      BY <1>4, <3>1 DEF Systems, Roles
    <3> QED
      BY <3>2
  <2> QED
    BY <1>11, <2>1, <2>2, <2>3
<1> QED
  BY <1>11, <1>12 DEF access

WalkIsOne ==
    /\ walk = [slot \in DOMAIN NoWalk |-> walk[slot]]
    /\ stage # "published" => walk.profile = {}
    /\ \A d, e \in walk.department : d = e
    /\ \A q, r \in walk.position : q = r

WalkInv == ImportInv /\ WalkIsOne /\ AnswerFollowsV1

LEMMA RowsStay ==
    ASSUME UNCHANGED view
    PROVE  \A p : /\ DepartmentsOf(p)' = DepartmentsOf(p)
                  /\ PositionsOf(p)' = PositionsOf(p)
                  /\ AccessOf(p)' = AccessOf(p)
  BY DEF DepartmentsOf, PositionsOf, AccessOf

LEMMA WalkInit == Init => WalkInv
  BY ImportInit DEF Init, WalkInv, WalkIsOne, NoWalk, AnswerFollowsV1

\* The import ends before the dialogue begins.
LEMMA WalkWaits ==
    ASSUME WalkInv, ImportInv', UNCHANGED walk, stage = "published" => UNCHANGED <<stage, view>>
    PROVE  WalkInv'
<1>1. CASE stage = "published"
  BY <1>1, RowsStay DEF WalkInv, WalkIsOne, AnswerFollowsV1
<1>2. CASE stage # "published"
  BY <1>2 DEF WalkInv, WalkIsOne, AnswerFollowsV1
<1> QED
  BY <1>1, <1>2

LEMMA FindingKeeps ==
    ASSUME WalkInv, ImportInv', UNCHANGED <<stage, view>>, NEW query,
           FindDepartment(query) \/ FindPosition(query)
    PROVE  WalkInv'
<1>1. CASE FindDepartment(query)
  BY <1>1 DEF FindDepartment, NoWalk, WalkInv, WalkIsOne, AnswerFollowsV1
<1>2. CASE FindPosition(query)
  BY <1>2 DEF FindPosition, NoWalk, WalkInv, WalkIsOne, AnswerFollowsV1
<1> QED
  BY <1>1, <1>2

LEMMA ShowingKeeps ==
    ASSUME WalkInv, ImportInv', stage = "published",
           UNCHANGED <<stage, view, bundle>>, ShowAccess
    PROVE  WalkInv'
<1> DEFINE Shown(p, systems, roles) ==
             /\ \A s \in systems : roles[s] \in Returned(Roles(bundle, s.id, {p.id}), AccessLimit)
             /\ walk' = [walk EXCEPT !.profile = {p.id},
                                     !.systems = {s.id : s \in systems},
                                     !.roles = UNION {roles[s] : s \in systems}]
<1>profile. PICK p \in Resolved :
         \E systems \in Returned(Systems(bundle, {p.id}), AccessLimit) :
            \E roles \in [systems -> SUBSET UNION {s.roles : s \in systems}] :
               Shown(p, systems, roles)
  BY DEF ShowAccess
<1>systems. PICK systems \in Returned(Systems(bundle, {p.id}), AccessLimit) :
         \E roles \in [systems -> SUBSET UNION {s.roles : s \in systems}] :
            Shown(p, systems, roles)
  BY <1>profile
<1>1. PICK roles \in [systems -> SUBSET UNION {s.roles : s \in systems}] :
         Shown(p, systems, roles)
  BY <1>systems
<1>2. /\ walk'.profile = {p.id}
      /\ walk'.roles = UNION {roles[s] : s \in systems}
      /\ walk'.city = walk.city /\ walk'.department = walk.department
      /\ walk'.position = walk.position
      /\ walk' = [slot \in DOMAIN NoWalk |-> walk'[slot]]
  BY <1>1 DEF WalkInv, WalkIsOne, NoWalk
<1>3. PICK p0 \in view.profiles : p = ProfileEntry(view, p0)
  BY DEF Resolved, WalkInv, ImportInv, BundleIsOfView, Document
<1>4. PICK d \in walk.department, q \in walk.position :
         Profiles(bundle, walk.city, d, q) = {p}
  BY DEF Resolved
<1>5. d \in DepartmentsOf(p0) /\ q \in PositionsOf(p0) /\ InCity(p, walk.city)
  BY <1>3, <1>4, EntryOfProfile DEF Profiles
<1>6. walk.department \subseteq DepartmentsOf(p0) /\ walk.position \subseteq PositionsOf(p0)
  BY <1>4, <1>5 DEF WalkInv, WalkIsOne
<1>7. walk.city # Blank => Normal[CityOf(view, p0.id)] = walk.city
  BY <1>3, <1>5, EntryOfProfile DEF InCity
<1>8. /\ walk'.roles \subseteq AccessOf(p0)
      /\ Cardinality(AccessOf(p0)) <= AccessLimit => walk'.roles = AccessOf(p0)
  <2>1. p.id = ProfileId(p0)
    BY <1>3, EntryOfProfile
  <2>2. /\ systems \in Returned(Systems(bundle, {ProfileId(p0)}), AccessLimit)
        /\ \A s \in systems : roles[s] \in Returned(Roles(bundle, s.id, {ProfileId(p0)}), AccessLimit)
    BY <1>1, <2>1
  <2>3. ImportInv
    BY DEF WalkInv
  <2> HIDE DEF Shown
  <2>4. /\ UNION {roles[s] : s \in systems} \subseteq AccessOf(p0)
        /\ Cardinality(AccessOf(p0)) <= AccessLimit =>
              UNION {roles[s] : s \in systems} = AccessOf(p0)
    BY <2>2, <2>3, AccessIsFound
  <2> QED
    BY <1>2, <2>4
<1>9. AnswerFollowsV1'
  <2>1. p.id = ProfileId(p0)
    BY <1>3, EntryOfProfile
  <2> HIDE DEF Shown
  <2> QED
    BY <1>2, <1>6, <1>7, <1>8, <2>1, RowsStay DEF AnswerFollowsV1
<1> QED
  BY <1>2, <1>9 DEF WalkInv, WalkIsOne

(***************************************************************************)
(* The access shown is that of a V1 profile with the department, position  *)
(* and city the user has named, and all of it if it fits, for any catalog  *)
(* an import can make and any dialogue (service.py:676-721).               *)
(***************************************************************************)
THEOREM EveryAnswerFollowsV1 == Spec => []AnswerFollowsV1
<1>1. WalkInv /\ ImportInv' /\ [Next]_vars => WalkInv'
  <2> SUFFICES ASSUME WalkInv, ImportInv', [Next]_vars PROVE WalkInv'
    OBVIOUS
  <2>1. CASE Converse
    BY <2>1, FindingKeeps, ShowingKeeps DEF Converse, import
  <2>2. ASSUME NEW n \in Snapshot, Load(n) \/ Purge(n) \/ Withdraw(n) PROVE WalkInv'
    BY <2>2, WalkWaits DEF Load, Purge, Withdraw, V1Moves, import
  <2>3. CASE FindSnapshot \/ NoSource \/ ReadTable \/ Publish \/ Refuse \/ Lose \/ Retry
    BY <2>3, WalkWaits DEF FindSnapshot, NoSource, ReadTable, Publish, Refuse, Lose, Retry, Fail
  <2>4. CASE UNCHANGED vars
    BY <2>4, WalkWaits DEF vars, import
  <2> QED
    BY <2>1, <2>2, <2>3, <2>4 DEF Next
<1>2. WalkInv => AnswerFollowsV1
  BY DEF WalkInv
<1> QED
  BY WalkInit, <1>1, <1>2, ImportInvariant, PTL DEF Spec
===============================================================================
