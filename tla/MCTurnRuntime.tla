--------------------------- MODULE MCTurnRuntime ---------------------------
(***************************************************************************)
(* TurnRuntime for TLC.  Workers, request ids and answers are used only as *)
(* identities, so their permutations are symmetries of the safety runs;    *)
(* the liveness run does not use them.                                     *)
(***************************************************************************)
EXTENDS TurnRuntime, TLC

Symmetry ==
    Permutations(Worker) \cup Permutations(Request) \cup Permutations(Answer)
=============================================================================
