---------------------------- MODULE SchemaLedger ----------------------------
(***************************************************************************)
(* What both migrators promise: a schema's ledger `schema_migration' goes  *)
(* from what it was to the versions of this program in one step, and a     *)
(* ledger that a newer program has written is left alone.  Migrator        *)
(* implements this specification; Activation takes its steps from it.      *)
(***************************************************************************)
EXTENDS Naturals

CONSTANT Latest   \* the latest version of each component's schema

VARIABLE rows     \* the versions recorded in each component's schema

Schema == DOMAIN Latest

\* Mutation: a newer version is not looked for.
NeverUnsupported(schema) == {}

Unsupported(schema) == {version \in rows[schema] : version > Latest[schema]}

\* Every missing version is applied: none of them, or all.
ApplyMissing(schema) == rows' = [rows EXCEPT ![schema] = @ \cup 1..Latest[schema]]

Upgrade(schema) == Unsupported(schema) = {} /\ ApplyMissing(schema)

\* What this program or another one may have left.
Init == rows \in [Schema -> SUBSET Nat]

Next == \E schema \in Schema : Upgrade(schema)

Spec == Init /\ [][Next]_rows
=============================================================================
