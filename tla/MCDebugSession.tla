--------------------------- MODULE MCDebugSession ---------------------------
(* Small instances of DebugSession.                                         *)
EXTENDS DebugSession, TLC
=============================================================================
