------------------------------- MODULE Ledger -------------------------------
(***************************************************************************)
(* What the registry promises to its clients, with every request taking    *)
(* effect in one indivisible step: one value per path, replaced only after *)
(* it was revoked, by a proof whose nonce is above every nonce this        *)
(* identity has ever published with; revocation of an identity is final.   *)
(***************************************************************************)
EXTENDS Integers

CONSTANTS
    Identities, Paths,
    Proofs     \* the details [fp, path, detail, nonce] their owners signed

VARIABLES
    status,    \* status[f]: "none", "active" or "revoked"
    entry,     \* entry[<<f, p>>]: the published detail
    top        \* top[f]: the highest nonce f has ever published with

vars == <<status, entry, top>>

Keys == Identities \X Paths
Nothing == [state |-> "none", detail |-> << >>, nonce |-> -1, verified |-> FALSE]

Init ==
    /\ status = [f \in Identities |-> "none"]
    /\ entry = [k \in Keys |-> Nothing]
    /\ top = [f \in Identities |-> -1]

Register(f) ==
    /\ status[f] = "none"
    /\ status' = [status EXCEPT ![f] = "active"]
    /\ UNCHANGED <<entry, top>>

\* A revoked identity may still publish: the server does not look.
Publish(d) ==
    LET k == <<d.fp, d.path>>
    IN  /\ status[d.fp] # "none"
        /\ entry[k].state # "active"
        /\ d.nonce > top[d.fp]
        /\ entry' = [entry EXCEPT ![k] = [state |-> "active", detail |-> d.detail,
                                         nonce |-> d.nonce, verified |-> FALSE]]
        /\ top' = [top EXCEPT ![d.fp] = d.nonce]
        /\ UNCHANGED status

Endorse(f, p) ==
    /\ entry[<<f, p>>].state = "active"
    /\ entry' = [entry EXCEPT ![<<f, p>>].verified = TRUE]
    /\ UNCHANGED <<status, top>>

Withdraw(f, p) ==
    /\ entry[<<f, p>>].state = "active"
    /\ entry' = [entry EXCEPT ![<<f, p>>].state = "revoked",
                              ![<<f, p>>].verified = FALSE]
    /\ UNCHANGED <<status, top>>

Revoke(f) ==
    /\ status[f] = "active"
    /\ status' = [status EXCEPT ![f] = "revoked"]
    /\ UNCHANGED <<entry, top>>

Next ==
    \/ \E f \in Identities : Register(f) \/ Revoke(f)
    \/ \E d \in Proofs : Publish(d)
    \/ \E f \in Identities, p \in Paths : Endorse(f, p) \/ Withdraw(f, p)

Spec == Init /\ [][Next]_vars

=============================================================================
