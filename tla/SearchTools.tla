----------------------------- MODULE SearchTools -----------------------------
(***************************************************************************)
(* CatalogSearchTools (app/tools/catalog.py): what each tool offers of a   *)
(* bundle.                                                                 *)
(*                                                                         *)
(* A query is what the tools see of a text: the department number in it,   *)
(* and the normal forms it resembles, those whose score reaches the        *)
(* threshold of 0.30.  A text without a letter or a digit resembles all.   *)
(***************************************************************************)
EXTENDS CatalogDocument

CONSTANTS
    NoNumber,
    NumberOf, \* parse_department_number
    Limit     \* the most a tool returns unless it is told: five

\* With room for two, an ambiguous search is not mistaken for a clear one.
ASSUME SearchToolsAssumption == Limit \in Nat \ {0, 1}

Resembles(query, entry) ==
    \/ Normal[entry.name] \in query.resembles
    \/ \E a \in entry.aliases : a.text \in query.resembles

\* Mutation: a department asked for by its number is offered in any city.
NumberedAnywhere(bundle, query, city) ==
    {d \in bundle.departments :
        IF query.number = NoNumber
        THEN Resembles(query, d) /\ (city # Blank => Normal[d.city] = city)
        ELSE NumberOf[d.name] = query.number}

\* A number in the query is a hard filter, and then the name is no condition.
Departments(bundle, query, city) ==
    {d \in bundle.departments :
        /\ IF query.number = NoNumber THEN Resembles(query, d)
                                      ELSE NumberOf[d.name] = query.number
        /\ city # Blank => Normal[d.city] = city}

InCity(p, city) == city # Blank => Normal[p.city] = city

\* The positions of the profiles in the context; without one, all of them.
PositionsInContext(bundle, city, department) ==
    IF city = Blank /\ department = {} THEN Ids(bundle.positions)
    ELSE UNION {p.positions : p \in {q \in bundle.profiles :
                   InCity(q, city) /\ department \subseteq q.departments}}

Positions(bundle, query, city, department) ==
    {q \in bundle.positions : /\ q.id \in PositionsInContext(bundle, city, department)
                              /\ Resembles(query, q)}

Profiles(bundle, city, department, position) ==
    {p \in bundle.profiles : /\ department \in p.departments
                             /\ position \in p.positions
                             /\ InCity(p, city)}

\* No profile means no restriction.
RolesAllowed(bundle, profiles) ==
    UNION {p.access : p \in {q \in bundle.profiles : q.id \in profiles}}

Systems(bundle, profiles) ==
    {s \in bundle.systems :
        profiles = {} \/ \E r \in RolesAllowed(bundle, profiles) : r[1] = s.id}

\* Mutation: the profiles do not restrict the roles of a system.
RolesOfSystem(bundle, system, profiles) ==
    UNION {s.roles : s \in {t \in bundle.systems : t.id = system}}

Roles(bundle, system, profiles) ==
    {r \in UNION {s.roles : s \in {t \in bundle.systems : t.id = system}} :
        profiles = {} \/ r \in RolesAllowed(bundle, profiles)}

\* The best few of the candidates; scores are not kept, so any of them.
Returned(candidates, limit) ==
    {S \in SUBSET candidates :
        IF Cardinality(candidates) <= limit THEN S = candidates
                                            ELSE Cardinality(S) = limit}
=============================================================================
