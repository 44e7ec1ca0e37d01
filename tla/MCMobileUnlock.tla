--------------------------- MODULE MCMobileUnlock ---------------------------
(* Small instances of MobileUnlock for TLC. *)
EXTENDS MobileUnlock, TLC

\* Identities, key arrays and calls are interchangeable.
Symmetry == Permutations(Names) \union Permutations(Keys) \union Permutations(Jobs)
=============================================================================
