---------------------------- MODULE MCLogStream ----------------------------
(* Small instances of LogStream.                                            *)
EXTENDS LogStream, TLC

Symmetry == Permutations(Handlers)
=============================================================================
