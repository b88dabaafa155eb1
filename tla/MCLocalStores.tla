--------------------------- MODULE MCLocalStores ---------------------------
(* A small instance of LocalStores for TLC.                                 *)
EXTENDS LocalStores, TLC

CONSTANTS p1, p2

Job(f, change, n) == [file |-> f, change |-> change, name |-> n]
Plan(listed, first, second) ==
  [listed |-> listed, jobs |-> p1 :> first @@ p2 :> second]

\* A group run by itself, and changes that collide on every file.
SomePlans ==
  {[listed |-> Nodes, jobs |-> <<>>],
   Plan({1}, Job("nodes", "add", 0), Job("nodes", "revoke", 1)),
   Plan({1}, Job("groups", "add", 0), Job("nodes", "revoke", 1)),
   Plan({1}, Job("grants", "add", 0), Job("grants", "revoke", 1))}
=============================================================================
