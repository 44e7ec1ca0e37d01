---------------------------- MODULE MCRegistry ----------------------------
(* Small instances of Registry for TLC: the requests the clients may send. *)
EXTENDS RegistryRefinement, TLC

\* Bounds: the nonces owners sign with, and the paths they use.
CONSTANTS DetailNonces, RevocationNonces, DetailPaths

MCPaths == VerifyEmailPaths

MCRequests ==
    [op : {"PostIdentity"}, fp : Identities]
    \union
    {[op |-> "PostDetail", fp |-> f, path |-> p, detail |-> Published(p, a), nonce |-> n] :
        f \in Identities, p \in DetailPaths, a \in Addresses, n \in DetailNonces}
    \union
    [op : {"PostRevocation"}, fp : Identities, type : {"identity"},
     target : {NoTarget}, nonce : RevocationNonces]
    \union
    [op : {"PostRevocation"}, fp : Identities, type : {"detail"},
     target : DetailPaths, nonce : RevocationNonces]
    \union
    [op : {"RequestVerifyEmail"}, fp : Identities, path : DetailPaths, detail : Addresses]

\* Addresses, tokens and workers are interchangeable.
Symmetry == Permutations(Addresses) \union Permutations(Tokens) \union Permutations(Workers)
=============================================================================
