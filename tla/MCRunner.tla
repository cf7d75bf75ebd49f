----------------------------- MODULE MCRunner -----------------------------
(* Small instances of Runner for TLC. *)
EXTENDS Runner

CONSTANTS Horizon, p1, r1

Clock == 0..Horizon
OneRunner == p1 :> r1
OneSchema == [d \in Digests |-> CHOOSE s \in Schemas : TRUE]
DigestsAlike == Permutations(Digests)
============================================================================
