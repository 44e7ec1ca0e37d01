---------------------------- MODULE MCHierarchy ----------------------------
(* Small instances of Hierarchy for TLC. *)
EXTENDS Hierarchy, TLC

\* Identities and workers are interchangeable (used for safety only).
Symmetry == Permutations(Identities) \union Permutations(Workers)
=============================================================================
