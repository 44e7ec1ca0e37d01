------------------------- MODULE RegistryRefinement -------------------------
(***************************************************************************)
(* Registry implements Ledger while the requests of one identity come one  *)
(* at a time.  The mapping drops the tokens, the certificates and the      *)
(* requests in progress, and reads the highest nonce ever published off    *)
(* the rows that are in the table: it exists only because a revoked row    *)
(* stays until a higher nonce replaces it.                                 *)
(***************************************************************************)
EXTENDS Registry

Entry(row) == [state |-> row.state, detail |-> row.detail, nonce |-> row.nonce,
               verified |-> row.verified]

HighestNonce(f) ==
    CHOOSE n \in {details[<<f, p>>].nonce : p \in Paths} :
       \A p \in Paths : details[<<f, p>>].nonce <= n

Signed == {[fp |-> q.fp, path |-> q.path, detail |-> q.detail, nonce |-> q.nonce] :
             q \in {r \in Requests : r.op = "PostDetail"}}

Promise == INSTANCE Ledger WITH
    Proofs <- Signed,
    status <- identities,
    entry <- [k \in Keys |-> Entry(details[k])],
    top <- [f \in Identities |-> HighestNonce(f)]

\* While the requests of one identity come one at a time, each handler has the effect
\* of one step of Ledger, at its last query at the latest, or none.
ImplementsLedger == Promise!Spec

=============================================================================
