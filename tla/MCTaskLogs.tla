----------------------------- MODULE MCTaskLogs -----------------------------
(* Small instances of TaskLogs.                                             *)
EXTENDS TaskLogs, TLC

Symmetry == Permutations(Handlers) \cup Permutations(Pods)
=============================================================================
