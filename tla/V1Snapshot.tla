----------------------------- MODULE V1Snapshot -----------------------------
(***************************************************************************)
(* The import (app/catalog/v1_snapshot.py, publish.py) and the dialogue    *)
(* that uses what it publishes, beside V1's own ETL.                       *)
(*                                                                         *)
(* extract() is one REPEATABLE READ transaction of nine statements.  V1    *)
(* loads and activates, purges and edits snapshots between any two of      *)
(* them.  publish() validates the document; its transaction is the subject *)
(* of CatalogRelease.  The dialogue then searches as the engine does:      *)
(* department, position, profile, access.                                  *)
(***************************************************************************)
EXTENDS SearchTools

CONSTANTS
    Snapshot,   \* ids of V1 snapshots
    NoSnapshot,
    Unloaded,   \* a snapshot the ETL has not loaded yet
    Content,    \* the rows V1 may load
    Query,      \* the texts a user may send
    AccessLimit \* systems, and roles of a system, in one answer: ten

\* Of V1's schema: primary keys, a department's foreign key, finite tables.
ASSUME V1SnapshotAssumption ==
    /\ AccessLimit \in Nat \ {0}
    /\ NoSnapshot \notin Snapshot
    /\ Content \subseteq Rows
    /\ Unloaded \notin Rows
    /\ \A c \in Content : \A s, t \in c.systems : s.id = t.id => s = t
    /\ \A c \in Content : \A p, q \in c.profiles : p.id = q.id => p = q
    /\ \A c \in Content : \A d \in c.departments : \E p \in c.profiles : p.id = d.profile
    /\ \A c \in Content : IsFiniteSet(c.accesses)

VARIABLES
    active,   \* the active snapshot of V1
    tables,   \* the rows of each snapshot
    stage,    \* of the import: idle, reading, published, failed
    source,   \* the snapshot that is being imported
    view,     \* its rows as the transaction sees them
    read,     \* the tables read so far
    bundle,   \* the catalog in memory
    walk      \* what the dialogue has found

import == <<stage, source, view, read, bundle>>
vars   == <<active, tables, import, walk>>

-----------------------------------------------------------------------------
Statement == <<"systems", "aliases", "departmentAliases", "profiles",
               "segments", "departments", "positions", "accesses">>

Table == {Statement[i] : i \in 1..8}

\* What is left of a purged snapshot.
NoRows == [t \in Table \cup {"hash"} |-> IF t = "hash" THEN FALSE ELSE {}]

NothingRead == [t \in {} |-> {}]

NoBundle == [systems |-> {}, departments |-> {}, positions |-> {}, profiles |-> {}]

NoWalk == [city |-> Blank, department |-> {}, position |-> {}, profile |-> {},
           systems |-> {}, roles |-> {}]

Init ==
    /\ active = NoSnapshot
    /\ tables = [n \in Snapshot |-> Unloaded]
    /\ stage = "idle"
    /\ source = NoSnapshot
    /\ view = NothingRead
    /\ read = NothingRead
    /\ bundle = NoBundle
    /\ walk = NoWalk

-----------------------------------------------------------------------------
(* V1.  Bound: it stops when the import is over, which no longer looks.    *)
V1Moves == stage \in {"idle", "reading"} /\ UNCHANGED <<import, walk>>

Load(n) ==
    /\ V1Moves
    /\ tables[n] = Unloaded
    /\ \E c \in Content : tables' = [tables EXCEPT ![n] = c]
    /\ active' = n

Purge(n) ==
    /\ V1Moves
    /\ n # active
    /\ tables[n] # Unloaded
    /\ tables' = [tables EXCEPT ![n] = NoRows]
    /\ UNCHANGED active

\* An access is withdrawn in place.  Bound: once for a snapshot.
Withdraw(n) ==
    /\ V1Moves
    /\ tables[n] \in Content
    /\ \E a \in tables[n].accesses : tables' = [tables EXCEPT ![n].accesses = @ \ {a}]
    /\ UNCHANGED active

-----------------------------------------------------------------------------
(* extract(), publish() and the refresh of the cache.                      *)
Fail ==
    /\ stage' = "failed"
    /\ UNCHANGED <<active, tables, source, view, read, bundle, walk>>

HasSource == active # NoSnapshot /\ tables[active].hash

\* The first statement fixes what the whole transaction sees.
FindSnapshot ==
    /\ stage = "idle"
    /\ HasSource
    /\ stage' = "reading"
    /\ source' = active
    /\ view' = [t \in Table |-> tables[active][t]]
    /\ UNCHANGED <<active, tables, read, bundle, walk>>

NoSource ==
    /\ stage = "idle"
    /\ ~ HasSource
    /\ Fail

\* Mutation: READ COMMITTED, every statement sees V1 as it is.
SelectNow(table) == tables[source][table]

Select(table) == view[table]

AllRead == DOMAIN read = Table

ReadTable ==
    /\ stage = "reading"
    /\ ~ AllRead
    /\ LET table == Statement[Cardinality(DOMAIN read) + 1]
       IN  read' = [t \in DOMAIN read \cup {table} |->
                       IF t = table THEN Select(t) ELSE read[t]]
    /\ UNCHANGED <<active, tables, stage, source, view, bundle, walk>>

Publishable == ~ Dangling(read) /\ Valid(Document(read))

Publish ==
    /\ stage = "reading"
    /\ AllRead
    /\ Publishable
    /\ stage' = "published"
    /\ bundle' = Bundle(Document(read))
    /\ UNCHANGED <<active, tables, source, view, read, walk>>

Refuse ==
    /\ stage = "reading"
    /\ AllRead
    /\ ~ Publishable
    /\ Fail

\* The connection breaks, and the transaction with it.
Lose ==
    /\ stage = "reading"
    /\ Fail

\* The command is run again.
Retry ==
    /\ stage = "failed"
    /\ stage' = "idle"
    /\ source' = NoSnapshot
    /\ view' = NothingRead
    /\ read' = NothingRead
    /\ UNCHANGED <<active, tables, bundle, walk>>

-----------------------------------------------------------------------------
(* The dialogue.  A new department or position voids what was found for    *)
(* the old one; the slots themselves stay.                                 *)
CityFor(query) == IF query.city # Blank THEN query.city ELSE walk.city

\* One candidate is taken, of several the user picks one.
FindDepartment(query) ==
    \E offered \in Returned(Departments(bundle, query, CityFor(query)), Limit) :
       \E d \in offered :
          walk' = [NoWalk EXCEPT !.city = CityFor(query), !.department = {d.id},
                                 !.position = walk.position]

FindPosition(query) ==
    \E offered \in Returned(Positions(bundle, query, CityFor(query), walk.department), Limit) :
       \E q \in offered :
          walk' = [NoWalk EXCEPT !.city = CityFor(query), !.position = {q.id},
                                 !.department = walk.department]

\* The access of a pair is shown when it has one profile.
Resolved == {p \in bundle.profiles : \E d \in walk.department, q \in walk.position :
                Profiles(bundle, walk.city, d, q) = {p}}

ShowAccess ==
    \E p \in Resolved :
       \E systems \in Returned(Systems(bundle, {p.id}), AccessLimit) :
          \E roles \in [systems -> SUBSET UNION {s.roles : s \in systems}] :
             /\ \A s \in systems : roles[s] \in Returned(Roles(bundle, s.id, {p.id}), AccessLimit)
             /\ walk' = [walk EXCEPT !.profile = {p.id},
                                     !.systems = {s.id : s \in systems},
                                     !.roles = UNION {roles[s] : s \in systems}]

Converse ==
    /\ stage = "published"
    /\ \/ \E query \in Query : FindDepartment(query) \/ FindPosition(query)
       \/ ShowAccess
    /\ UNCHANGED <<active, tables, import>>

Next ==
    \/ \E n \in Snapshot : Load(n) \/ Purge(n) \/ Withdraw(n)
    \/ FindSnapshot \/ NoSource \/ ReadTable \/ Publish \/ Refuse \/ Lose \/ Retry
    \/ Converse

Spec == Init /\ [][Next]_vars

-----------------------------------------------------------------------------
(* Properties.                                                             *)

DepartmentsOf(p) == {DepartmentId(view, d) : d \in {e \in view.departments : e.profile = p.id}}
PositionsOf(p)   == {PositionId(view, q) : q \in {r \in view.positions : r.profile = p.id}}
AccessOf(p)      == {RoleId(view, a) : a \in {b \in view.accesses : b.profile = p.id}}

\* No department of another city has run into this one (v1_snapshot.py:279).
OfOneCity(id) ==
    \A d, e \in view.departments :
       DepartmentId(view, d) = id /\ DepartmentId(view, e) = id => City(view, d) = City(view, e)

(* What is published is one state of one V1 snapshot: every profile with   *)
(* its departments, positions and access, and nothing else, whatever V1    *)
(* does between the statements (v1_snapshot.py:50, 220-387).  A department *)
(* is one of V1's with its name and city, so the city is its profiles' own *)
(* unless V1 has departments of several cities for which one id is made.   *)
ImportIsExact ==
    stage = "published" =>
       /\ ~ Dangling(view)
       /\ UNION {{p.id} \X p.departments \X p.positions : p \in bundle.profiles} =
             UNION {{ProfileId(p)} \X DepartmentsOf(p) \X PositionsOf(p) : p \in view.profiles}
       /\ UNION {{p.id} \X p.access : p \in bundle.profiles} =
             UNION {{ProfileId(p)} \X AccessOf(p) : p \in view.profiles}
       /\ \A d \in bundle.departments : \E e \in view.departments :
             /\ d.id = DepartmentId(view, e)
             /\ d.name = e.name
             /\ d.city = CityOf(view, e.profile)
       /\ \A p \in bundle.profiles : \A d \in bundle.departments :
             d.id \in p.departments /\ OfOneCity(d.id) => Normal[d.city] = Normal[p.city]

(* The access shown is that of a V1 profile which has the department and   *)
(* the position the user has named, in the city named, and it is all of    *)
(* it if it fits into an answer (service.py:676-721).                      *)
AnswerFollowsV1 ==
    \A id \in walk.profile : \E p \in view.profiles :
       /\ ProfileId(p) = id
       /\ walk.department \subseteq DepartmentsOf(p)
       /\ walk.position \subseteq PositionsOf(p)
       /\ walk.city # Blank => Normal[CityOf(view, p.id)] = walk.city
       /\ walk.roles \subseteq AccessOf(p)
       /\ Cardinality(AccessOf(p)) <= AccessLimit => walk.roles = AccessOf(p)

(* A position that is offered for a department, and a department that is   *)
(* offered in a city, have a profile there (tools/catalog.py:109-224).     *)
OffersLeadOn ==
    stage = "published" =>
       \A query \in Query :
          \A d \in Departments(bundle, query, query.city) :
             /\ \E p \in bundle.profiles : d.id \in p.departments /\ InCity(p, query.city)
             /\ \A text \in Query : \A q \in Positions(bundle, text, query.city, {d.id}) :
                   Profiles(bundle, query.city, d.id, q.id) # {}
=============================================================================
