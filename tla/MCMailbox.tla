----------------------------- MODULE MCMailbox -----------------------------
(* Small instances of Mailbox for TLC. *)
EXTENDS Mailbox, TLC

\* Identities, names, account ids and handlers are interchangeable.
Symmetry == Permutations(Identities) \union Permutations(Names) \union Permutations(Accounts) \union Permutations(Workers)

\* A crossing stays one, and every property but the type invariant is about behaviours
\* without; what follows it is not explored.
NotCrossed == course # "crossed"
=============================================================================
