---------------------------- MODULE MCMailStore ----------------------------
(* Small instances of MailStore for TLC. *)
EXTENDS MailStore, TLC

\* Accounts are interchangeable.
Symmetry == Permutations(Manual) \union Permutations(Managed)
=============================================================================
