--------------------------- MODULE MCVclusterBoot ---------------------------
(* Small instances of VclusterBoot.                                         *)
EXTENDS VclusterBoot, TLC
=============================================================================
