------------------------------ MODULE Registry ------------------------------
(***************************************************************************)
(* The key server's registry: identities, their signed details and the     *)
(* revocations that apply to them (server/handlers/identity.ts,            *)
(* server/handlers/revocation.ts, server/verify-email.ts, server/db).      *)
(*                                                                         *)
(* A handler is a sequence of `await db.query(...)` calls with no          *)
(* transaction around them.  Every action below is one such query with the *)
(* local code that follows it up to the next query, so that two handlers   *)
(* may interleave between any two queries.  A worker is one request in     *)
(* progress; its pc names the database call it makes next.                 *)
(*                                                                         *)
(* The server is one with mailbox signup off, its default: the mailbox     *)
(* handlers write the same rows (the e-mail detail) by other rules.        *)
(***************************************************************************)
EXTENDS Integers

CONSTANTS
    Identities,          \* fingerprints; each stands for its key pair
    Paths,               \* detail paths: "email", "opaque::email", "name", ...
    Addresses,           \* cleartext values a detail can hold
    Tokens,              \* random e-mail verification tokens (bounds their number)
    NoToken,             \* the NULL of the token columns
    Workers,             \* requests that can be in progress together
    Requests,            \* the requests clients may send, each any number of times
    EmergencyNonceBase   \* EMERGENCY_NONCE_BASE, 2^31 in the code

Keys == Identities \X Paths
VerifyEmailPaths == {"email", "opaque::email"}
NoTarget == "none"
NoDetail == << >>

\* The digest of a cleartext value, as sha256Hex computes it: collision free.
Sha256(a) == <<"sha256", a>>

\* What an owner publishes at path p for the cleartext a.
Published(p, a) == IF p = "opaque::email" THEN Sha256(a) ELSE a

Details == Addresses \union {Sha256(a) : a \in Addresses}

(***************************************************************************)
(* Requests whose signature verifies: the owner of fp signed them.  Any    *)
(* client may send one again, late, or together with another.              *)
(***************************************************************************)
IdentityRequest == [op : {"PostIdentity"}, fp : Identities]
DetailRequest == [op : {"PostDetail"}, fp : Identities, path : Paths,
                  detail : Details, nonce : Nat]
RevocationRequest == [op : {"PostRevocation"}, fp : Identities, type : {"identity"},
                      target : {NoTarget}, nonce : Nat]
                     \union
                     [op : {"PostRevocation"}, fp : Identities, type : {"detail"},
                      target : Paths, nonce : Nat]
VerifyRequest == [op : {"RequestVerifyEmail"}, fp : Identities, path : VerifyEmailPaths,
                  detail : Addresses]
ConfirmRequest == [op : {"VerifyEmailConfirm"}, fp : Identities, path : Paths,
                   token : Tokens]

ClientRequest == IdentityRequest \union DetailRequest
                 \union RevocationRequest \union VerifyRequest

ASSUME RequestsAssumption == Requests \subseteq ClientRequest
ASSUME PathsAssumption == VerifyEmailPaths \subseteq Paths
ASSUME TokensAssumption == NoToken \notin Tokens
ASSUME BaseAssumption == EmergencyNonceBase \in Nat

VARIABLES
    identities,   \* identities[f]: is there a row, and is revoked_at set
    details,      \* details[f, p]: the row of UNIQUE(identity_fingerprint, path)
    revocations,  \* the rows of the revocations table
    worker,       \* the requests in progress
    issued,       \* history: verification links [token, fp, path, address] made
    confirmed,    \* history: the links among them that were presented and accepted
    retired       \* history: [fp, path, detail, nonce] proofs that were revoked

db == <<identities, details, revocations>>
history == <<issued, confirmed, retired>>
vars == <<identities, details, revocations, worker, issued, confirmed, retired>>

Link == [token : Tokens, fp : Identities, path : Paths, address : Details]
Proof == [fp : Identities, path : Paths, detail : Details, nonce : Nat]
Revocation == [fp : Identities, type : {"identity"}, target : {NoTarget}, nonce : Nat]
              \union
              [fp : Identities, type : {"detail"}, target : Paths, nonce : Nat]

Row == [state : {"active", "revoked"}, detail : Details, nonce : Nat,
        verified : BOOLEAN, token : Tokens \union {NoToken}]
NoRow == [state |-> "none", detail |-> NoDetail, nonce |-> -1,
          verified |-> FALSE, token |-> NoToken]

Idle == [pc |-> "idle"]
Doing(pc, q, existing) == [pc |-> pc, req |-> q, existing |-> existing]

Init ==
    /\ identities = [f \in Identities |-> "none"]
    /\ details = [k \in Keys |-> NoRow]
    /\ revocations = {}
    /\ worker = [w \in Workers |-> Idle]
    /\ issued = {}
    /\ confirmed = {}
    /\ retired = {}

----------------------------------------------------------------------------
(* Helpers of the handlers. *)

At(w, pc) == worker[w].pc = pc
Request(w) == worker[w].req
Key(q) == <<q.fp, q.path>>

GoTo(w, pc) == worker' = [worker EXCEPT ![w].pc = pc]
Reply(w) == worker' = [worker EXCEPT ![w] = Idle]

\* Faulty variant: the nonces of revoked rows are forgotten.
IsNewNonceAmongActive(f, n) ==
    \A p \in Paths : details[<<f, p>>].state = "active" => n > details[<<f, p>>].nonce

\* Faulty variant: off by one, a nonce may be used twice.
IsNewNonceOrEqual(f, n) ==
    \A p \in Paths : details[<<f, p>>].state # "none" => n >= details[<<f, p>>].nonce

\* db/index.ts ensureNewNonce: the nonce exceeds that of every proof stored for f.
IsNewNonce(f, n) ==
    \A p \in Paths : details[<<f, p>>].state # "none" => n > details[<<f, p>>].nonce

IsEmergencyNonce(n) == n >= EmergencyNonceBase

\* Faulty variant: a regular nonce need only be unused.
RevocationNonceUnused(q) ==
    \A c \in revocations : c.fp = q.fp => c.nonce # q.nonce

\* The two nonce rules of handlePostRevocation.
RevocationNonceOk(q) ==
    \/ /\ IsEmergencyNonce(q.nonce)
       /\ q.type = "identity"
       /\ \A c \in revocations : c.fp = q.fp => c.nonce # q.nonce
    \/ /\ ~IsEmergencyNonce(q.nonce)
       /\ \A c \in revocations :
             c.fp = q.fp /\ c.nonce < EmergencyNonceBase => q.nonce > c.nonce

Certificate(q) == [fp |-> q.fp, type |-> q.type, target |-> q.target, nonce |-> q.nonce]
ProofOf(k) == [fp |-> k[1], path |-> k[2],
               detail |-> details[k].detail, nonce |-> details[k].nonce]

IssuedTokens == {m.token : m \in issued}

----------------------------------------------------------------------------
(* POST /api/v1/identity *)

\* getIdentity finds no row and the submission is valid.  (A row with the same
\* keys is answered at once and changes nothing.)
ReceiveIdentity(w, q) ==
    /\ At(w, "idle")
    /\ q.op = "PostIdentity"
    /\ identities[q.fp] = "none"
    /\ worker' = [worker EXCEPT ![w] = Doing("insertIdentity", q, "none")]
    /\ UNCHANGED <<db, history>>

\* Faulty variant: INSERT OR REPLACE.
InsertIdentityOrReplace(w) ==
    /\ At(w, "insertIdentity")
    /\ identities' = [identities EXCEPT ![Request(w).fp] = "active"]
    /\ Reply(w)
    /\ UNCHANGED <<details, revocations, history>>

\* The primary key refuses a second row: the query throws and nothing changes.
InsertIdentity(w) ==
    /\ At(w, "insertIdentity")
    /\ identities' = [identities EXCEPT ![Request(w).fp] =
                        IF @ = "none" THEN "active" ELSE @]
    /\ Reply(w)
    /\ UNCHANGED <<details, revocations, history>>

----------------------------------------------------------------------------
(* POST /api/v1/detail *)

\* getIdentity: an unknown identity is answered 400 and changes nothing.
ReceiveDetail(w, q) ==
    /\ At(w, "idle")
    /\ q.op = "PostDetail"
    /\ identities[q.fp] # "none"
    /\ worker' = [worker EXCEPT ![w] = Doing("getDetailRecord", q, "none")]
    /\ UNCHANGED <<db, history>>

\* Faulty variant: any row that is there may be replaced.
GetDetailRecordAnyState(w) ==
    /\ At(w, "getDetailRecord")
    /\ worker' = [worker EXCEPT ![w] = Doing("ensureNewNonce", Request(w),
          IF details[Key(Request(w))].state = "none" THEN "none" ELSE "revoked")]
    /\ UNCHANGED <<db, history>>

\* An unrevoked row is a conflict; otherwise remember whether a revoked row is there.
GetDetailRecord(w) ==
    /\ At(w, "getDetailRecord")
    /\ LET row == details[Key(Request(w))]
       IN  \/ row.state = "active" /\ Reply(w)
           \/ /\ row.state # "active"
              /\ worker' = [worker EXCEPT ![w] =
                              Doing("ensureNewNonce", Request(w), row.state)]
    /\ UNCHANGED <<db, history>>

EnsureNewNonce(w) ==
    /\ At(w, "ensureNewNonce")
    /\ LET ok == IsNewNonce(Request(w).fp, Request(w).nonce)
       IN  \/ ok /\ GoTo(w, "storeDetail")
           \/ ~ok /\ Reply(w)
    /\ UNCHANGED <<db, history>>

NewRow(q) == [state |-> "active", detail |-> q.detail, nonce |-> q.nonce,
              verified |-> FALSE, token |-> NoToken]

\* The row is replaced if a revoked one was read, whatever it is by now;
\* otherwise it is inserted, and UNIQUE refuses it if there is one by now.
StoreDetail(w) ==
    LET q == Request(w)
        stored == worker[w].existing = "revoked" \/ details[Key(q)].state = "none"
    IN  /\ At(w, "storeDetail")
        /\ details' = IF stored THEN [details EXCEPT ![Key(q)] = NewRow(q)] ELSE details
        /\ IF stored /\ q.path = "email" THEN GoTo(w, "setToken") ELSE Reply(w)
        /\ UNCHANGED <<identities, revocations, history>>

\* Faulty variant: the row is marked when the link is sent.
SetTokenVerified(w) ==
    LET q == Request(w)
    IN  /\ At(w, "setToken")
        /\ \E t \in Tokens \ IssuedTokens :
              /\ details' = [details EXCEPT ![Key(q)] =
                    IF @.state = "none" THEN @
                    ELSE [@ EXCEPT !.verified = TRUE, !.token = t]]
              /\ issued' = issued \union {[token |-> t, fp |-> q.fp, path |-> q.path,
                                           address |-> q.detail]}
        /\ Reply(w)
        /\ UNCHANGED <<identities, revocations, confirmed, retired>>

\* Also the second query of RequestVerifyEmail: a fresh token for the row of this
\* key, and a link with it for the address of the request.  Whether and when the
\* mail arrives is the environment's business: a link may be presented from now on.
SetToken(w) ==
    LET q == Request(w)
    IN  /\ At(w, "setToken")
        /\ \E t \in Tokens \ IssuedTokens :
              /\ details' = [details EXCEPT ![Key(q)] =
                    IF @.state = "none" THEN @
                    ELSE [@ EXCEPT !.verified = FALSE, !.token = t]]
              /\ issued' = issued \union {[token |-> t, fp |-> q.fp, path |-> q.path,
                                           address |-> q.detail]}
        /\ Reply(w)
        /\ UNCHANGED <<identities, revocations, confirmed, retired>>

----------------------------------------------------------------------------
(* POST /api/v1/revoke *)

ReceiveRevocation(w, q) ==
    /\ At(w, "idle")
    /\ q.op = "PostRevocation"
    /\ identities[q.fp] # "none"
    /\ worker' = [worker EXCEPT ![w] = Doing("isRevoked", q, "none")]
    /\ UNCHANGED <<db, history>>

AlreadyRevoked(q) ==
    \/ q.type = "identity" /\ identities[q.fp] = "revoked"
    \/ q.type = "detail" /\ details[<<q.fp, q.target>>].state = "revoked"

IsRevoked(w) ==
    /\ At(w, "isRevoked")
    /\ \/ AlreadyRevoked(Request(w)) /\ Reply(w)
       \/ ~AlreadyRevoked(Request(w)) /\ GoTo(w, "checkNonce")
    /\ UNCHANGED <<db, history>>

CheckNonce(w) ==
    /\ At(w, "checkNonce")
    /\ \/ RevocationNonceOk(Request(w)) /\ GoTo(w, "insertRevocation")
       \/ ~RevocationNonceOk(Request(w)) /\ Reply(w)
    /\ UNCHANGED <<db, history>>

\* Faulty variant: INSERT OR IGNORE.
InsertRevocationOrIgnore(w) ==
    LET q == Request(w)
        unique == \A c \in revocations : c.fp = q.fp => c.nonce # q.nonce
    IN  /\ At(w, "insertRevocation")
        /\ revocations' = IF unique THEN revocations \union {Certificate(q)} ELSE revocations
        /\ GoTo(w, "applyRevocation")
        /\ UNCHANGED <<identities, details, history>>

\* UNIQUE(identity_fingerprint, nonce) makes the query throw on a used nonce.
InsertRevocation(w) ==
    LET q == Request(w)
        unique == \A c \in revocations : c.fp = q.fp => c.nonce # q.nonce
    IN  /\ At(w, "insertRevocation")
        /\ IF unique
           THEN /\ revocations' = revocations \union {Certificate(q)}
                /\ GoTo(w, "applyRevocation")
           ELSE /\ UNCHANGED revocations
                /\ Reply(w)
        /\ UNCHANGED <<identities, details, history>>

RevokeIdentity(w) ==
    /\ At(w, "applyRevocation")
    /\ Request(w).type = "identity"
    /\ identities' = [identities EXCEPT ![Request(w).fp] = "revoked"]
    /\ Reply(w)
    /\ UNCHANGED <<details, revocations, history>>

\* Faulty variant: the row is created when it is not there.
RevokeDetailUpsert(w) ==
    LET k == <<Request(w).fp, Request(w).target>>
    IN  /\ At(w, "applyRevocation")
        /\ Request(w).type = "detail"
        /\ details' = [details EXCEPT ![k] =
              [@ EXCEPT !.state = "revoked", !.verified = FALSE, !.token = NoToken]]
        /\ Reply(w)
        /\ UNCHANGED <<identities, revocations, history>>

\* An UPDATE by (fingerprint, path): no row, no effect.
RevokeDetail(w) ==
    LET k == <<Request(w).fp, Request(w).target>>
    IN  /\ At(w, "applyRevocation")
        /\ Request(w).type = "detail"
        /\ IF details[k].state = "none"
           THEN UNCHANGED <<details, retired>>
           ELSE /\ details' = [details EXCEPT ![k] =
                      [@ EXCEPT !.state = "revoked", !.verified = FALSE, !.token = NoToken]]
                /\ retired' = retired \union {ProofOf(k)}
        /\ Reply(w)
        /\ UNCHANGED <<identities, revocations, issued, confirmed>>

----------------------------------------------------------------------------
(* POST /api/v1/verify-email/request and POST /api/v1/verify-email *)

\* Faulty variant: the cleartext is not compared with the stored detail.
ReceiveVerifyUnchecked(w, q) ==
    /\ At(w, "idle")
    /\ q.op = "RequestVerifyEmail"
    /\ details[Key(q)].state = "active"
    /\ ~details[Key(q)].verified
    /\ worker' = [worker EXCEPT ![w] = Doing("setToken", q, "none")]
    /\ UNCHANGED <<db, history>>

\* getDetailRecord: the row is there, unrevoked, unverified, and matches the
\* cleartext the client gave.  (Every other case is answered and changes nothing.)
ReceiveVerify(w, q) ==
    /\ At(w, "idle")
    /\ q.op = "RequestVerifyEmail"
    /\ LET row == details[Key(q)]
       IN  /\ row.state = "active"
           /\ row.detail = Published(q.path, q.detail)
           /\ ~row.verified
    /\ worker' = [worker EXCEPT ![w] = Doing("setToken", q, "none")]
    /\ UNCHANGED <<db, history>>

\* getDetailByVerificationToken finds the row; the link has not expired.  (An
\* unknown, expired or revoked token is answered and changes nothing.)
ReceiveConfirm(w, m) ==
    /\ At(w, "idle")
    /\ \E k \in Keys :
          /\ k[2] \in VerifyEmailPaths
          /\ details[k].token = m.token
          /\ details[k].state = "active"
          /\ ~details[k].verified
          /\ worker' = [worker EXCEPT ![w] =
                Doing("markVerified", [op |-> "VerifyEmailConfirm", fp |-> k[1],
                                       path |-> k[2], token |-> m.token], "none")]
    /\ confirmed' = confirmed \union {m}
    /\ UNCHANGED <<db, issued, retired>>

\* Faulty variant: the token is left in the row.
MarkVerifiedKeepToken(w) ==
    LET k == Key(Request(w))
    IN  /\ At(w, "markVerified")
        /\ details' = [details EXCEPT ![k] =
              IF @.state = "none" THEN @ ELSE [@ EXCEPT !.verified = TRUE]]
        /\ Reply(w)
        /\ UNCHANGED <<identities, revocations, history>>

\* An UPDATE by (fingerprint, path): neither the token nor the value is checked again.
MarkVerified(w) ==
    LET k == Key(Request(w))
    IN  /\ At(w, "markVerified")
        /\ details' = [details EXCEPT ![k] =
              IF @.state = "none" THEN @
              ELSE [@ EXCEPT !.verified = TRUE, !.token = NoToken]]
        /\ Reply(w)
        /\ UNCHANGED <<identities, revocations, history>>

----------------------------------------------------------------------------
(* A query fails, or the process dies and restarts: the handler is gone, what
   it wrote stays. *)
Fail(w) ==
    /\ ~At(w, "idle")
    /\ Reply(w)
    /\ UNCHANGED <<db, history>>

Receive(w, q) ==
    \/ ReceiveIdentity(w, q)
    \/ ReceiveDetail(w, q)
    \/ ReceiveRevocation(w, q)
    \/ ReceiveVerify(w, q)

Step(w) ==
    \/ InsertIdentity(w)
    \/ GetDetailRecord(w)
    \/ EnsureNewNonce(w)
    \/ StoreDetail(w)
    \/ SetToken(w)
    \/ IsRevoked(w)
    \/ CheckNonce(w)
    \/ InsertRevocation(w)
    \/ RevokeIdentity(w)
    \/ RevokeDetail(w)
    \/ MarkVerified(w)

Next ==
    \E w \in Workers :
       \/ \E q \in Requests : Receive(w, q)
       \/ \E m \in issued : ReceiveConfirm(w, m)
       \/ Step(w)
       \/ Fail(w)

Spec == Init /\ [][Next]_vars

(***************************************************************************)
(* The same handlers when the requests of one identity are worked on one   *)
(* at a time; those of different identities interleave freely.  The checks *)
(* of a handler are then still true when it writes, and the properties the *)
(* documentation states hold.                                              *)
(***************************************************************************)
OnePerIdentity ==
    \A v, w \in Workers :
       v = w \/ At(v, "idle") \/ At(w, "idle") \/ Request(v).fp # Request(w).fp
SerialNext == Next /\ OnePerIdentity'
SerialSpec == Init /\ [][SerialNext]_vars

----------------------------------------------------------------------------
(* What holds however the handlers interleave. *)

DatabaseTypeOK ==
    /\ identities \in [Identities -> {"none", "active", "revoked"}]
    /\ details \in [Keys -> Row \union {NoRow}]
    /\ revocations \subseteq Revocation

Working(pcs, reqs) == [pc : pcs, req : reqs, existing : {"none", "revoked"}]
Job == {Idle}
       \union Working({"insertIdentity"}, IdentityRequest)
       \union Working({"getDetailRecord", "ensureNewNonce", "storeDetail"}, DetailRequest)
       \union Working({"setToken"}, {q \in DetailRequest : q.path = "email"} \union VerifyRequest)
       \union Working({"isRevoked", "checkNonce", "insertRevocation", "applyRevocation"},
                      RevocationRequest)
       \union Working({"markVerified"}, ConfirmRequest)

\* Every variable keeps its shape; a worker holds the kind of request its next
\* database call is for.
TypeOK ==
    /\ DatabaseTypeOK
    /\ worker \in [Workers -> Job]
    /\ issued \subseteq Link
    /\ confirmed \subseteq issued
    /\ retired \subseteq Proof

\* Whatever is shown as revoked has its certificate in the revocations table: the
\* handler writes the certificate first and marks the row after, and no
\* interleaving or failure leaves the mark without the certificate
\* (handlers/revocation.ts:98-111).
RevokedIsCertified ==
    /\ \A f \in Identities : identities[f] = "revoked" =>
          \E c \in revocations : c.fp = f /\ c.type = "identity"
    /\ \A k \in Keys : details[k].state = "revoked" =>
          \E c \in revocations : c.fp = k[1] /\ c.type = "detail" /\ c.target = k[2]

\* A revoked identity is never un-revoked, also not by a registration of the same
\* keys that read the table before the identity existed and writes after it was
\* revoked (handlers/identity.ts:150-234).
RevokedIdentityStaysRevoked ==
    [][\A f \in Identities : identities[f] = "revoked" => identities'[f] = "revoked"]_vars

\* No detail is ever verified for a fingerprint and path for which no mailed link
\* was accepted, whatever races with the confirmation (verify-email.ts:278-342).
VerifiedWasConfirmed ==
    \A k \in Keys : details[k].verified =>
       \E m \in confirmed : m.fp = k[1] /\ m.path = k[2]

\* A row that still has a token is not verified, and the token is that of a link
\* made for this very row: getDetailByVerificationToken can neither find another
\* identity's row nor reach the `already_verified` answer (verify-email.ts:291-331).
PendingTokenUnverified ==
    \A k \in Keys : details[k].token # NoToken =>
       /\ ~details[k].verified
       /\ \E m \in issued : m.token = details[k].token /\ m.fp = k[1] /\ m.path = k[2]

----------------------------------------------------------------------------
(* What holds when the requests of one identity are worked on one at a time,
   and is lost when they interleave. *)

\* A verified detail holds the address that received the link that was confirmed
\* (verify-email.ts:221-249 and 291-342).
VerifiedMeansProved ==
    \A k \in Keys : details[k].verified =>
       \E m \in confirmed :
          m.fp = k[1] /\ m.path = k[2] /\ Published(m.path, m.address) = details[k].detail

\* A signed proof that was revoked is never again the proof of an active detail,
\* however often the owner's old request arrives again (ensureNewNonce).
RetiredProofStaysRetired ==
    \A k \in Keys : details[k].state = "active" => ProofOf(k) \notin retired

\* The proofs the server publishes for one identity carry distinct nonces; a details
\* map that repeats one fails the library's check (core/Identity.ts VerifyDetails).
DistinctNonces ==
    \A f \in Identities, p, r \in Paths :
       /\ p # r
       /\ details[<<f, p>>].state # "none"
       /\ details[<<f, r>>].state # "none"
       => details[<<f, p>>].nonce # details[<<f, r>>].nonce

\* An active detail is replaced only after it was revoked: no step turns an active
\* row into an active row with another proof (handlers/identity.ts:326-351).
ReplacedOnlyAfterRevocation ==
    [][\A k \in Keys :
          /\ details[k].state = "active"
          /\ details'[k].state = "active"
          => /\ details'[k].detail = details[k].detail
             /\ details'[k].nonce = details[k].nonce]_vars

\* A regular revocation that is recorded has a nonce above all regular ones
\* recorded before it for its identity (handlers/revocation.ts:90-94).
RevocationNoncesIncrease ==
    [][\A c \in revocations' \ revocations : ~IsEmergencyNonce(c.nonce) =>
          \A d \in revocations :
             d.fp = c.fp /\ ~IsEmergencyNonce(d.nonce) => d.nonce < c.nonce]_vars

=============================================================================
