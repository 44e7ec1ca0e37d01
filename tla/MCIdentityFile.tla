--------------------------- MODULE MCIdentityFile ---------------------------
(* Small instances of IdentityFile for TLC. *)
EXTENDS IdentityFile, TLC

\* Identities, paths, requests, key arrays and salts are interchangeable.
Symmetry == Permutations(Identities) \union Permutations(Paths) \union
            Permutations(Workers) \union Permutations(Keys) \union Permutations(Salts)
=============================================================================
