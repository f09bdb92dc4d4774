--------------------------- MODULE CatalogDocument ---------------------------
(***************************************************************************)
(* From the rows of one V1 snapshot to a catalog in memory: the document   *)
(* V1SnapshotCatalogAdapter._build_document makes of them, what            *)
(* _validate_catalog refuses, and CatalogBundle.from_mapping.              *)
(*                                                                         *)
(* A table is a set of rows; "rank" is the place of a row in the order of  *)
(* its statement, and rows refer to systems and profiles by their ids in   *)
(* V1.  The city of a segment is what _extract_city finds in it.           *)
(*                                                                         *)
(* A text is the sequence of its words and marks.  Normal is               *)
(* normalize_query: the words in one spelling, without the marks.  The bar *)
(* between the two halves of "code|city" is a mark, so the normal form of  *)
(* the whole is that of the halves, one after the other.  The digest of a  *)
(* text is its normal form.                                                *)
(***************************************************************************)
EXTENDS Naturals, Sequences, FiniteSets

CONSTANTS
    Text,        \* texts, the empty one among them
    Normal,      \* [Text -> Text]
    KnownAliases \* _POSITION_ALIASES, by normal form

Blank == << >>

AliasClass == {"SAFE", "AMBIGUOUS", "UNSAFE"}

Member == [rank : Nat, profile : Nat, name : Text, code : Text]

Rows == [hash : BOOLEAN,
         systems : SUBSET [id : Nat, code : Text, name : Text],
         aliases : SUBSET [system : Nat, text : Text, class : AliasClass],
         departmentAliases : SUBSET [rank : Nat, name : Text, text : Text,
                                     class : AliasClass],
         profiles : SUBSET [id : Nat, code : Text, name : Text],
         segments : SUBSET [rank : Nat, profile : Nat, city : Text],
         departments : SUBSET Member,
         positions : SUBSET Member,
         accesses : SUBSET [profile : Nat, system : Nat, col : Nat, level : Nat]]

ASSUME CatalogDocumentAssumption ==
    /\ Blank \in Text
    /\ Text \subseteq Seq(STRING)
    /\ Normal \in [Text -> Text]
    /\ Normal[Blank] = Blank
    /\ KnownAliases \in [Text -> SUBSET Text]

First(rows) == CHOOSE r \in rows : \A q \in rows : r.rank <= q.rank
Last(rows)  == CHOOSE r \in rows : \A q \in rows : r.rank >= q.rank

-----------------------------------------------------------------------------
(* Ids, of normal forms.  A code without a letter or a digit is no code    *)
(* for the id but still is the key under which departments and positions   *)
(* are merged; so is a code that another row has as its name.              *)
StableId(code, fallback) ==
    IF code # Blank THEN <<"code", code>> ELSE <<"digest", fallback>>

Key(r) == IF r.code # Blank THEN r.code ELSE Normal[r.name]

ProfileId(p) == StableId(Normal[p.code], Normal[p.name])

\* The first segment of the profile that names a city.
CityOf(c, profile) ==
    LET named == {s \in c.segments : s.profile = profile /\ s.city # Blank}
    IN  IF named = {} THEN Blank ELSE First(named).city

City(c, d) == Normal[CityOf(c, d.profile)]

DepartmentId(c, d) ==
    LET first == First({e \in c.departments : /\ Key(e) = Key(d)
                                              /\ City(c, e) = City(c, d)})
        coded == IF first.code # Blank THEN Normal[first.code] \o City(c, d) ELSE Blank
    IN  StableId(coded, Normal[first.name] \o City(c, d))

PositionId(c, q) ==
    LET first == First({r \in c.positions : Key(r) = Key(q)})
    IN  StableId(Normal[first.code], Normal[first.name])

SystemId(c, id) ==
    LET s == CHOOSE t \in c.systems : t.id = id
    IN  StableId(Normal[s.code], Normal[s.name])

RoleId(c, a) == <<SystemId(c, a.system), a.col, a.level>>

-----------------------------------------------------------------------------
Promoted(rows) ==
    {r \in rows : r.class # "UNSAFE" /\ Normal[r.text] # Blank}

\* A safe row wins over the others, in whatever order they come.
SystemAliases(c, id) ==
    LET rows == {r \in Promoted(c.aliases) : r.system = id}
    IN  {[text |-> Normal[r.text],
          safety |-> IF \E s \in rows : Normal[s.text] = Normal[r.text] /\ s.class = "SAFE"
                     THEN "SAFE" ELSE "AMBIGUOUS"] : r \in rows}

\* The last row wins.
DepartmentAliases(c, name) ==
    LET rows == {r \in Promoted(c.departmentAliases) : r.name = name}
    IN  {[text |-> Normal[r.text],
          safety |-> Last({s \in rows : Normal[s.text] = Normal[r.text]}).class] : r \in rows}

\* Of two systems with one id the later row takes the roles of both.
SystemEntry(c, s) ==
    [row |-> s.id, id |-> SystemId(c, s.id), name |-> s.name,
     aliases |-> SystemAliases(c, s.id),
     roles |-> {r \in {RoleId(c, a) : a \in c.accesses} :
                   /\ r[1] = SystemId(c, s.id)
                   /\ \A t \in c.systems : SystemId(c, t.id) = SystemId(c, s.id)
                                              => t.id <= s.id}]

\* Rows of one id are one department, with the name and city of the first.
DepartmentEntry(c, id) ==
    LET first == First({d \in c.departments : DepartmentId(c, d) = id})
    IN  [id |-> id, name |-> first.name, city |-> CityOf(c, first.profile),
         aliases |-> DepartmentAliases(c, first.name)]

PositionEntry(c, id) ==
    LET first == First({q \in c.positions : PositionId(c, q) = id})
    IN  [id |-> id, name |-> first.name,
         aliases |-> {[text |-> t, safety |-> "SAFE"] :
                         t \in KnownAliases[Normal[first.name]]}]

ProfileEntry(c, p) ==
    [row |-> p.id, id |-> ProfileId(p), name |-> p.name, city |-> CityOf(c, p.id),
     departments |-> {DepartmentId(c, d) : d \in {e \in c.departments : e.profile = p.id}},
     positions |-> {PositionId(c, q) : q \in {r \in c.positions : r.profile = p.id}},
     access |-> {RoleId(c, a) : a \in {b \in c.accesses : b.profile = p.id}}]

Document(c) ==
    [systems |-> {SystemEntry(c, s) : s \in c.systems},
     departments |-> {DepartmentEntry(c, DepartmentId(c, d)) : d \in c.departments},
     positions |-> {PositionEntry(c, PositionId(c, q)) : q \in c.positions},
     profiles |-> {ProfileEntry(c, p) : p \in c.profiles}]

\* An entitlement of a system that the snapshot does not have ends the import.
Dangling(c) == \E a \in c.accesses : \A s \in c.systems : s.id # a.system

-----------------------------------------------------------------------------
UniqueAndNamed(entries) ==
    /\ \A e \in entries : e.name # Blank
    /\ \A e, f \in entries : e.id = f.id => e = f

Ids(entries) == {e.id : e \in entries}

Valid(document) ==
    /\ \A kind \in {"systems", "departments", "positions", "profiles"} :
          UniqueAndNamed(document[kind])
    /\ \A p \in document.profiles :
          /\ p.departments \subseteq Ids(document.departments)
          /\ p.positions \subseteq Ids(document.positions)
          /\ \A r \in p.access : \E s \in document.systems : s.id = r[1] /\ r \in s.roles

\* Systems and profiles are mappings: of two entries with one id the later stays.
ById(entries) == {e \in entries : \A f \in entries : f.id = e.id => f.row <= e.row}

Bundle(document) ==
    [document EXCEPT !.systems = ById(@), !.profiles = ById(@)]
=============================================================================
