----------------------------- MODULE MCGrants -----------------------------
(* Small instances of Grants for TLC. *)
EXTENDS Grants, TLC

Clock == 0..LastRequest

\* Hosts and keys are interchangeable: nothing orders or names them.
Symmetry == Permutations(Hosts) \cup Permutations(Keys)
============================================================================
