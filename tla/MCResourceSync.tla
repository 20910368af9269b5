--------------------------- MODULE MCResourceSync ---------------------------
(* Small instances of ResourceSync: one key, or two with a resource each.   *)
EXTENDS ResourceSync, TLC

CONSTANTS u1, u2, u3, k1, k2

OneKey == [u \in Uuids |-> k1]
TwoKeys == [u \in Uuids |-> IF u = u2 THEN k2 ELSE k1]

Gens1 == {1}
Gens2 == 1 .. 2
Gens3 == 1 .. 3

AllEndpoints == Kinds
Events == {"add", "update"}
EventsAndStatus == {"add", "update", "taskStatus"}

Symmetry == Permutations(Handlers)
=============================================================================
