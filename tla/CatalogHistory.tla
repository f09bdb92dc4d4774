--------------------------- MODULE CatalogHistory ---------------------------
(***************************************************************************)
(* What the catalog's readers rely on: releases are published one after    *)
(* the other, each names the one it replaced, the pointer names the newest *)
(* one, and what was published stays readable and never changes.           *)
(* CatalogRelease implements this specification; CatalogCache uses it as   *)
(* its environment.                                                        *)
(***************************************************************************)
EXTENDS Naturals, Sequences

CONSTANTS Version, Document, NoVersion

VARIABLE history   \* every publication: its version, document and predecessor

Published == {history[i].version : i \in DOMAIN history}

Pointer == IF history = <<>> THEN NoVersion ELSE history[Len(history)].version

Init == history = <<>>

Publish(v, d) ==
    /\ v \notin Published
    /\ history' = Append(history, [version |-> v, document |-> d, previous |-> Pointer])

Next == \E v \in Version, d \in Document : Publish(v, d)

Spec == Init /\ [][Next]_history
=============================================================================
