---------------------------- MODULE MCTaskTokens ----------------------------
(* Small instances of TaskTokens.                                           *)
EXTENDS TaskTokens, TLC

Symmetry == Permutations(Handlers)
=============================================================================
