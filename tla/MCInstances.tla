----------------------------- MODULE MCInstances -----------------------------
(* Instances for TLC: callers and ids are interchangeable.                  *)
EXTENDS Instances, TLC

Symmetry == Permutations(Callers) \cup Permutations(Ids)
=============================================================================
