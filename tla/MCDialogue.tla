----------------------------- MODULE MCDialogue -----------------------------
(***************************************************************************)
(* Dialogue for TLC: two releases that share the second system, department *)
(* and position and differ in the rest, and texts for every rule.          *)
(***************************************************************************)
EXTENDS Dialogue, TLC

CONSTANTS s1, s2, d1, d2, p1, p2, f1, f2, f3, old, new

MCSystem     == {s1, s2}
MCDepartment == {d1, d2}
MCPosition   == {p1, p2}
MCProfile    == {f1, f2, f3}
MCVersion    == {old, new}

Related(id, departments, positions, systems) ==
    [id |-> id, departments |-> departments, positions |-> positions, systems |-> systems]

\* In the old release two profiles fit (d1, p1); the new one has lost s1, d1, p1.
MCContent ==
    old :> [systems |-> {s1, s2}, departments |-> {d1, d2}, positions |-> {p1, p2},
            profiles |-> {Related(f1, {d1}, {p1}, {s1}), Related(f2, {d1, d2}, {p1, p2}, {s1, s2}),
                          Related(f3, {d2}, {p2}, {})}]
    @@
    new :> [systems |-> {s2}, departments |-> {d2}, positions |-> {p2},
            profiles |-> {Related(f3, {d2}, {p2}, {s2})}]

Text(markers, names, resembles) ==
    [markers |-> markers, names |-> names, resembles |-> resembles]

MCUtterance ==
    {Text({m}, {}, {}) : m \in {"reset", "more", "number", "roles", "instruction",
                                "obtain", "organization", "long"}}
      \cup {Text(ms, {s}, {}) : s \in MCSystem,
               ms \in {{}, {"roles"}, {"procedure"}, {"change"}, {"long"},
                       {"change", "long"}}}
      \cup {Text({}, {}, {s1, s2}), Text({}, {}, {s1}),
            Text({"long", "organization"}, {}, {}), Text({"long", "reset"}, {s1}, {})}
=============================================================================
