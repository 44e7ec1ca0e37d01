--------------------------- MODULE RegistryProofs ---------------------------
(***************************************************************************)
(* Theorems about Registry, for all values of its constants.               *)
(***************************************************************************)
EXTENDS Registry, TLAPS

----------------------------------------------------------------------------
(* Shapes. *)

\* A worker at a database call holds a request of the kind that call belongs to.
LEMMA JobKinds ==
    ASSUME worker \in [Workers -> Job], NEW w \in Workers
    PROVE  /\ At(w, "insertIdentity") => Request(w) \in IdentityRequest
           /\ At(w, "getDetailRecord") \/ At(w, "ensureNewNonce") \/ At(w, "storeDetail")
              => Request(w) \in DetailRequest
           /\ At(w, "setToken")
              => \/ Request(w) \in DetailRequest /\ Request(w).path = "email"
                 \/ Request(w) \in VerifyRequest
           /\ At(w, "isRevoked") \/ At(w, "checkNonce") \/ At(w, "insertRevocation")
              \/ At(w, "applyRevocation")
              => Request(w) \in RevocationRequest
           /\ At(w, "markVerified") => Request(w) \in ConfirmRequest
           /\ ~At(w, "idle")
              => /\ worker[w] = [pc |-> worker[w].pc, req |-> worker[w].req,
                                 existing |-> worker[w].existing]
                 /\ worker[w].existing \in {"none", "revoked"}
  BY DEF Job, Working, Idle, At, Request

\* The jobs that a handler step leaves behind.
LEMMA NextJobs ==
    /\ Idle \in Job
    /\ \A q \in IdentityRequest : Doing("insertIdentity", q, "none") \in Job
    /\ \A q \in DetailRequest, e \in {"none", "revoked"} :
          /\ Doing("getDetailRecord", q, e) \in Job
          /\ Doing("ensureNewNonce", q, e) \in Job
          /\ Doing("storeDetail", q, e) \in Job
          /\ q.path = "email" => Doing("setToken", q, e) \in Job
    /\ \A q \in VerifyRequest : Doing("setToken", q, "none") \in Job
    /\ \A q \in RevocationRequest, e \in {"none", "revoked"} :
          /\ Doing("isRevoked", q, e) \in Job
          /\ Doing("checkNonce", q, e) \in Job
          /\ Doing("insertRevocation", q, e) \in Job
          /\ Doing("applyRevocation", q, e) \in Job
    /\ \A q \in ConfirmRequest : Doing("markVerified", q, "none") \in Job
  BY DEF Job, Working, Idle, Doing

LEMMA InitTypeOK == Init => TypeOK
  BY NextJobs, TokensAssumption
     DEF Init, TypeOK, DatabaseTypeOK, Row, NoRow, Keys, Link, Proof

\* A step that only moves a worker to a job keeps all shapes.
LEMMA MoveTypeOK ==
    ASSUME TypeOK, NEW w \in Workers, NEW job \in Job,
           worker' = [worker EXCEPT ![w] = job], UNCHANGED <<db, history>>
    PROVE  TypeOK'
  BY DEF TypeOK, DatabaseTypeOK, db, history

LEMMA ReceiveTypeOK ==
    ASSUME TypeOK, NEW w \in Workers, NEW q \in Requests, Receive(w, q)
    PROVE  TypeOK'
<1>1. q \in ClientRequest
  BY RequestsAssumption
<1>2. CASE ReceiveIdentity(w, q)
  <2>1. q \in IdentityRequest
    BY <1>1, <1>2 DEF ReceiveIdentity, ClientRequest, IdentityRequest, DetailRequest,
                      RevocationRequest, VerifyRequest
  <2> QED  BY <2>1, <1>2, NextJobs, MoveTypeOK DEF ReceiveIdentity
<1>3. CASE ReceiveDetail(w, q)
  <2>1. q \in DetailRequest
    BY <1>1, <1>3 DEF ReceiveDetail, ClientRequest, IdentityRequest, DetailRequest,
                      RevocationRequest, VerifyRequest
  <2> QED  BY <2>1, <1>3, NextJobs, MoveTypeOK DEF ReceiveDetail
<1>4. CASE ReceiveRevocation(w, q)
  <2>1. q \in RevocationRequest
    BY <1>1, <1>4 DEF ReceiveRevocation, ClientRequest, IdentityRequest, DetailRequest,
                      RevocationRequest, VerifyRequest
  <2> QED  BY <2>1, <1>4, NextJobs, MoveTypeOK DEF ReceiveRevocation
<1>5. CASE ReceiveVerify(w, q)
  <2>1. q \in VerifyRequest
    BY <1>1, <1>5 DEF ReceiveVerify, ClientRequest, IdentityRequest, DetailRequest,
                      RevocationRequest, VerifyRequest
  <2> QED  BY <2>1, <1>5, NextJobs, MoveTypeOK DEF ReceiveVerify
<1> QED  BY <1>2, <1>3, <1>4, <1>5 DEF Receive

LEMMA ReceiveConfirmTypeOK ==
    ASSUME TypeOK, NEW w \in Workers, NEW m \in issued, ReceiveConfirm(w, m)
    PROVE  TypeOK'
<1>1. PICK k \in Keys :
         worker' = [worker EXCEPT ![w] =
            Doing("markVerified", [op |-> "VerifyEmailConfirm", fp |-> k[1],
                                   path |-> k[2], token |-> m.token], "none")]
  BY DEF ReceiveConfirm
<1>2. [op |-> "VerifyEmailConfirm", fp |-> k[1], path |-> k[2], token |-> m.token]
      \in ConfirmRequest
  BY DEF TypeOK, Link, Keys, ConfirmRequest
<1>3. worker' \in [Workers -> Job]
  BY <1>1, <1>2, NextJobs DEF TypeOK
<1> QED
  BY <1>3 DEF ReceiveConfirm, TypeOK, DatabaseTypeOK, db

\* Advancing within a handler, and ending it.
LEMMA WorkerMoves ==
    ASSUME worker \in [Workers -> Job], NEW w \in Workers
    PROVE  /\ Reply(w) => worker' \in [Workers -> Job]
           /\ ~At(w, "idle") =>
              \A pc : GoTo(w, pc) =>
                 worker' = [worker EXCEPT ![w] =
                              Doing(pc, Request(w), worker[w].existing)]
<1>1. Reply(w) => worker' \in [Workers -> Job]
  BY NextJobs DEF Reply
<1>2. ASSUME ~At(w, "idle"), NEW pc, GoTo(w, pc)
      PROVE  worker' = [worker EXCEPT ![w] = Doing(pc, Request(w), worker[w].existing)]
  <2>1. worker[w] = [pc |-> worker[w].pc, req |-> worker[w].req,
                     existing |-> worker[w].existing]
    BY <1>2, JobKinds
  <2>2. [worker[w] EXCEPT !.pc = pc] = Doing(pc, Request(w), worker[w].existing)
    BY <2>1 DEF Doing, Request
  <2> QED  BY <1>2, <2>2 DEF GoTo
<1> QED  BY <1>1, <1>2

LEMMA PublishTypeOK ==
    ASSUME TypeOK, NEW w \in Workers,
           InsertIdentity(w) \/ GetDetailRecord(w) \/ EnsureNewNonce(w)
    PROVE  TypeOK'
<1> USE DEF TypeOK
<1>1. CASE InsertIdentity(w)
  <2>1. Request(w) \in IdentityRequest
    BY <1>1, JobKinds DEF InsertIdentity
  <2>2. identities' \in [Identities -> {"none", "active", "revoked"}]
    BY <1>1, <2>1 DEF InsertIdentity, IdentityRequest, DatabaseTypeOK
  <2> QED  BY <1>1, <2>2, WorkerMoves DEF InsertIdentity, DatabaseTypeOK, history
<1>2. CASE GetDetailRecord(w)
  <2>1. Request(w) \in DetailRequest
    BY <1>2, JobKinds DEF GetDetailRecord
  <2>2. details[Key(Request(w))].state \in {"none", "active", "revoked"}
    BY <2>1 DEF DetailRequest, Key, Keys, DatabaseTypeOK, Row, NoRow
  <2>3. worker' \in [Workers -> Job]
    BY <1>2, <2>1, <2>2, NextJobs, WorkerMoves DEF GetDetailRecord
  <2> QED  BY <1>2, <2>3 DEF GetDetailRecord, DatabaseTypeOK, db, history
<1>3. CASE EnsureNewNonce(w)
  <2>1. Request(w) \in DetailRequest /\ worker[w].existing \in {"none", "revoked"}
        /\ ~At(w, "idle")
    BY <1>3, JobKinds DEF EnsureNewNonce, At
  <2>2. worker' \in [Workers -> Job]
    BY <1>3, <2>1, NextJobs, WorkerMoves DEF EnsureNewNonce
  <2> QED  BY <1>3, <2>2 DEF EnsureNewNonce, DatabaseTypeOK, db, history
<1> QED  BY <1>1, <1>2, <1>3

LEMMA StoreDetailTypeOK ==
    ASSUME TypeOK, NEW w \in Workers, StoreDetail(w)
    PROVE  TypeOK'
<1> DEFINE q == Request(w)
<1>1. /\ q \in DetailRequest
      /\ worker[w].existing \in {"none", "revoked"}
      /\ ~At(w, "idle")
  BY JobKinds DEF StoreDetail, TypeOK, At
<1>2. NewRow(q) \in Row
  BY <1>1 DEF NewRow, Row, DetailRequest
<1>3. Key(q) \in Keys
  BY <1>1 DEF Key, Keys, DetailRequest
<1>4. details' \in [Keys -> Row \union {NoRow}]
  BY <1>2, <1>3 DEF StoreDetail, TypeOK, DatabaseTypeOK
<1>5. worker' \in [Workers -> Job]
  <2>1. CASE Reply(w)
    BY <2>1, WorkerMoves DEF TypeOK
  <2>2. CASE GoTo(w, "setToken") /\ q.path = "email"
    BY <2>2, <1>1, NextJobs, WorkerMoves DEF TypeOK
  <2> QED  BY <2>1, <2>2 DEF StoreDetail
<1> QED
  BY <1>4, <1>5 DEF StoreDetail, TypeOK, DatabaseTypeOK, history

LEMMA SetTokenTypeOK ==
    ASSUME TypeOK, NEW w \in Workers, SetToken(w)
    PROVE  TypeOK'
<1> DEFINE q == Request(w)
<1>1. q \in DetailRequest \/ q \in VerifyRequest
  BY JobKinds DEF SetToken, TypeOK
<1>2. q.fp \in Identities /\ q.path \in Paths /\ q.detail \in Details
  BY <1>1, PathsAssumption DEF DetailRequest, VerifyRequest, Details
<1>3. Key(q) \in Keys
  BY <1>2 DEF Key, Keys
<1>4. PICK t \in Tokens :
         /\ details' = [details EXCEPT ![Key(q)] =
               IF @.state = "none" THEN @
               ELSE [@ EXCEPT !.verified = FALSE, !.token = t]]
         /\ issued' = issued \union {[token |-> t, fp |-> q.fp, path |-> q.path,
                                      address |-> q.detail]}
  BY DEF SetToken
<1>5. details' \in [Keys -> Row \union {NoRow}]
  <2>1. CASE details[Key(q)].state = "none"
    BY <1>3, <1>4, <2>1 DEF TypeOK, DatabaseTypeOK
  <2>2. CASE details[Key(q)].state # "none"
    <3>1. details[Key(q)] \in Row
      BY <1>3, <2>2 DEF TypeOK, DatabaseTypeOK, NoRow
    <3>2. [details[Key(q)] EXCEPT !.verified = FALSE, !.token = t] \in Row
      BY <3>1 DEF Row
    <3> QED  BY <1>3, <1>4, <2>2, <3>2 DEF TypeOK, DatabaseTypeOK
  <2> QED  BY <2>1, <2>2
<1>6. issued' \subseteq Link /\ issued \subseteq issued'
  BY <1>2, <1>4 DEF TypeOK, Link
<1>7. worker' \in [Workers -> Job]
  BY WorkerMoves DEF SetToken, TypeOK
<1> QED
  BY <1>5, <1>6, <1>7 DEF SetToken, TypeOK, DatabaseTypeOK

LEMMA RevocationTypeOK ==
    ASSUME TypeOK, NEW w \in Workers, IsRevoked(w) \/ CheckNonce(w)
    PROVE  TypeOK'
<1>1. /\ Request(w) \in RevocationRequest
      /\ worker[w].existing \in {"none", "revoked"}
      /\ ~At(w, "idle")
  BY JobKinds DEF IsRevoked, CheckNonce, TypeOK, At
<1>2. worker' \in [Workers -> Job]
  <2>1. CASE Reply(w)
    BY <2>1, WorkerMoves DEF TypeOK
  <2>2. CASE GoTo(w, "checkNonce") \/ GoTo(w, "insertRevocation")
    BY <2>2, <1>1, NextJobs, WorkerMoves DEF TypeOK
  <2> QED  BY <2>1, <2>2 DEF IsRevoked, CheckNonce
<1> QED
  BY <1>2 DEF IsRevoked, CheckNonce, TypeOK, DatabaseTypeOK, db, history

LEMMA InsertRevocationTypeOK ==
    ASSUME TypeOK, NEW w \in Workers, InsertRevocation(w)
    PROVE  TypeOK'
<1>1. /\ Request(w) \in RevocationRequest
      /\ worker[w].existing \in {"none", "revoked"}
      /\ ~At(w, "idle")
  BY JobKinds DEF InsertRevocation, TypeOK, At
<1>2. Certificate(Request(w)) \in Revocation
  BY <1>1 DEF RevocationRequest, Revocation, Certificate
<1>3. revocations' \subseteq Revocation
  BY <1>2 DEF InsertRevocation, TypeOK, DatabaseTypeOK
<1>4. worker' \in [Workers -> Job]
  <2>1. CASE Reply(w)
    BY <2>1, WorkerMoves DEF TypeOK
  <2>2. CASE GoTo(w, "applyRevocation")
    BY <2>2, <1>1, NextJobs, WorkerMoves DEF TypeOK
  <2> QED  BY <2>1, <2>2 DEF InsertRevocation
<1> QED
  BY <1>3, <1>4 DEF InsertRevocation, TypeOK, DatabaseTypeOK, history

LEMMA RevokeTypeOK ==
    ASSUME TypeOK, NEW w \in Workers, RevokeIdentity(w) \/ RevokeDetail(w)
    PROVE  TypeOK'
<1> DEFINE q == Request(w)
           k == <<q.fp, q.target>>
<1>1. q \in RevocationRequest
  BY JobKinds DEF RevokeIdentity, RevokeDetail, TypeOK
<1>2. worker' \in [Workers -> Job]
  BY WorkerMoves DEF RevokeIdentity, RevokeDetail, TypeOK
<1>3. CASE RevokeIdentity(w)
  <2>1. identities' \in [Identities -> {"none", "active", "revoked"}]
    BY <1>1, <1>3 DEF RevokeIdentity, RevocationRequest, TypeOK, DatabaseTypeOK
  <2> QED
    BY <1>2, <1>3, <2>1 DEF RevokeIdentity, TypeOK, DatabaseTypeOK, history
<1>4. CASE RevokeDetail(w)
  <2>1. k \in Keys
    BY <1>1, <1>4 DEF RevokeDetail, RevocationRequest, Keys
  <2>2. CASE details[k].state = "none"
    BY <1>2, <1>4, <2>2 DEF RevokeDetail, TypeOK, DatabaseTypeOK
  <2>3. CASE details[k].state # "none"
    <3>1. details[k] \in Row
      BY <2>1, <2>3 DEF TypeOK, DatabaseTypeOK, NoRow
    <3>2. [details[k] EXCEPT !.state = "revoked", !.verified = FALSE, !.token = NoToken] \in Row
      BY <3>1 DEF Row
    <3>3. ProofOf(k) \in Proof
      BY <2>1, <3>1 DEF ProofOf, Proof, Row, Keys
    <3>4. /\ details' = [details EXCEPT ![k] =
                [details[k] EXCEPT !.state = "revoked", !.verified = FALSE, !.token = NoToken]]
          /\ retired' = retired \union {ProofOf(k)}
      BY <1>4, <2>3 DEF RevokeDetail
    <3>5. details' \in [Keys -> Row \union {NoRow}]
      BY <2>1, <3>2, <3>4 DEF TypeOK, DatabaseTypeOK
    <3> QED
      BY <1>2, <1>4, <3>3, <3>4, <3>5 DEF RevokeDetail, TypeOK, DatabaseTypeOK
  <2> QED  BY <2>2, <2>3
<1> QED  BY <1>3, <1>4

LEMMA MarkVerifiedTypeOK ==
    ASSUME TypeOK, NEW w \in Workers, MarkVerified(w)
    PROVE  TypeOK'
<1>1. Key(Request(w)) \in Keys
  BY JobKinds DEF MarkVerified, TypeOK, ConfirmRequest, Key, Keys
<1>2. details' \in [Keys -> Row \union {NoRow}]
  <2> DEFINE k == Key(Request(w))
  <2>1. CASE details[k].state = "none"
    BY <1>1, <2>1 DEF MarkVerified, TypeOK, DatabaseTypeOK
  <2>2. CASE details[k].state # "none"
    <3>1. details[k] \in Row
      BY <1>1, <2>2 DEF TypeOK, DatabaseTypeOK, NoRow
    <3>2. [details[k] EXCEPT !.verified = TRUE, !.token = NoToken] \in Row
      BY <3>1 DEF Row
    <3> QED  BY <1>1, <2>2, <3>2 DEF MarkVerified, TypeOK, DatabaseTypeOK
  <2> QED  BY <2>1, <2>2
<1>3. worker' \in [Workers -> Job]
  BY WorkerMoves DEF MarkVerified, TypeOK
<1> QED
  BY <1>2, <1>3 DEF MarkVerified, TypeOK, DatabaseTypeOK, history

LEMMA FailTypeOK ==
    ASSUME TypeOK, NEW w \in Workers, Fail(w)
    PROVE  TypeOK'
  BY NextJobs, MoveTypeOK DEF Fail, Reply

\* Every step keeps all shapes.
LEMMA NextTypeOK == TypeOK /\ [Next]_vars => TypeOK'
<1> SUFFICES ASSUME TypeOK, [Next]_vars PROVE TypeOK'
  OBVIOUS
<1>1. CASE UNCHANGED vars
  BY <1>1 DEF vars, TypeOK, DatabaseTypeOK
<1>2. CASE Next
  <2>1. PICK w \in Workers :
           \/ \E q \in Requests : Receive(w, q)
           \/ \E m \in issued : ReceiveConfirm(w, m)
           \/ Step(w)
           \/ Fail(w)
    BY <1>2 DEF Next
  <2>2. CASE \E q \in Requests : Receive(w, q)
    BY <2>2, ReceiveTypeOK
  <2>3. CASE \E m \in issued : ReceiveConfirm(w, m)
    BY <2>3, ReceiveConfirmTypeOK
  <2>4. CASE Step(w)
    BY <2>4, PublishTypeOK, StoreDetailTypeOK, SetTokenTypeOK, RevocationTypeOK,
       InsertRevocationTypeOK, RevokeTypeOK, MarkVerifiedTypeOK DEF Step
  <2>5. CASE Fail(w)
    BY <2>5, FailTypeOK
  <2> QED  BY <2>1, <2>2, <2>3, <2>4, <2>5
<1> QED  BY <1>1, <1>2

\* In every behaviour, whatever interleaves or fails, every table and every request
\* in progress keeps its shape.
THEOREM TypeCorrect == Spec => []TypeOK
<1>1. Init => TypeOK
  BY InitTypeOK
<1>2. TypeOK /\ [Next]_vars => TypeOK'
  BY NextTypeOK
<1> QED  BY <1>1, <1>2, PTL DEF Spec

----------------------------------------------------------------------------
(* Who writes what. *)

Acts(w) ==
    \/ \E q \in Requests : Receive(w, q)
    \/ \E m \in issued : ReceiveConfirm(w, m)
    \/ Step(w)
    \/ Fail(w)

\* The stored proof is the same before and after the step.
KeepsProof(k) ==
    /\ details[k].state # "none"
    /\ details'[k].detail = details[k].detail
    /\ details'[k].nonce = details[k].nonce

Stored(w, k) ==
    /\ StoreDetail(w)
    /\ k = Key(Request(w))
    /\ worker[w].existing = "revoked" \/ details[k].state = "none"
    /\ details'[k] = NewRow(Request(w))

Linked(w, k) ==
    /\ SetToken(w)
    /\ k = Key(Request(w))
    /\ KeepsProof(k)
    /\ details'[k].state = details[k].state
    /\ details'[k].verified = FALSE
    /\ \E m \in issued' : /\ m.token \notin IssuedTokens
                          /\ m = [token |-> details'[k].token, fp |-> k[1],
                                  path |-> k[2], address |-> Request(w).detail]

Revoked(w, k) ==
    /\ RevokeDetail(w)
    /\ k = <<Request(w).fp, Request(w).target>>
    /\ KeepsProof(k)
    /\ details'[k].state = "revoked"
    /\ details'[k].verified = FALSE
    /\ details'[k].token = NoToken
    /\ retired' = retired \union {ProofOf(k)}

Verified(w, k) ==
    /\ MarkVerified(w)
    /\ k = Key(Request(w))
    /\ KeepsProof(k)
    /\ details'[k].state = details[k].state
    /\ details'[k].verified = TRUE
    /\ details'[k].token = NoToken

LEMMA StoreDetailRow ==
    ASSUME TypeOK, NEW w \in Workers, StoreDetail(w), NEW k \in Keys
    PROVE  details'[k] = details[k] \/ Stored(w, k)
<1>1. Key(Request(w)) \in Keys
  BY JobKinds DEF StoreDetail, TypeOK, DetailRequest, Key, Keys
<1> QED  BY <1>1 DEF StoreDetail, Stored, TypeOK, DatabaseTypeOK

LEMMA SetTokenRow ==
    ASSUME TypeOK, NEW w \in Workers, SetToken(w), NEW k \in Keys
    PROVE  details'[k] = details[k] \/ Linked(w, k)
<1> DEFINE q == Request(w)
<1>1. PICK t \in Tokens \ IssuedTokens :
         /\ details' = [details EXCEPT ![Key(q)] =
               IF @.state = "none" THEN @
               ELSE [@ EXCEPT !.verified = FALSE, !.token = t]]
         /\ issued' = issued \union {[token |-> t, fp |-> q.fp, path |-> q.path,
                                      address |-> q.detail]}
  BY DEF SetToken
<1>2. CASE k = Key(q) /\ details[k].state # "none"
  <2>1. details[k] \in Row
    BY <1>2 DEF TypeOK, DatabaseTypeOK, NoRow
  <2>2. details'[k] = [details[k] EXCEPT !.verified = FALSE, !.token = t]
    BY <1>1, <1>2 DEF TypeOK, DatabaseTypeOK
  <2>3. /\ KeepsProof(k)
        /\ details'[k].state = details[k].state
        /\ details'[k].verified = FALSE
        /\ details'[k].token = t
    BY <1>2, <2>1, <2>2 DEF KeepsProof, Row
  <2>4. k[1] = q.fp /\ k[2] = q.path
    BY <1>2 DEF Key
  <2> QED  BY <1>1, <1>2, <2>3, <2>4 DEF Linked
<1>3. CASE k # Key(q) \/ details[k].state = "none"
  BY <1>1, <1>3 DEF TypeOK, DatabaseTypeOK
<1> QED  BY <1>2, <1>3

LEMMA RevokeDetailRow ==
    ASSUME TypeOK, NEW w \in Workers, RevokeDetail(w), NEW k \in Keys
    PROVE  details'[k] = details[k] \/ Revoked(w, k)
<1> DEFINE j == <<Request(w).fp, Request(w).target>>
<1>1. CASE k = j /\ details[k].state # "none"
  <2>1. details[k] \in Row
    BY <1>1 DEF TypeOK, DatabaseTypeOK, NoRow
  <2>2. /\ details'[k] = [details[k] EXCEPT !.state = "revoked", !.verified = FALSE,
                                            !.token = NoToken]
        /\ retired' = retired \union {ProofOf(k)}
    BY <1>1 DEF RevokeDetail, TypeOK, DatabaseTypeOK
  <2>3. /\ KeepsProof(k)
        /\ details'[k].state = "revoked"
        /\ details'[k].verified = FALSE
        /\ details'[k].token = NoToken
    BY <1>1, <2>1, <2>2 DEF KeepsProof, Row
  <2> QED  BY <1>1, <2>2, <2>3 DEF Revoked
<1>2. CASE k # j \/ details[k].state = "none"
  BY <1>2 DEF RevokeDetail, TypeOK, DatabaseTypeOK
<1> QED  BY <1>1, <1>2

LEMMA MarkVerifiedRow ==
    ASSUME TypeOK, NEW w \in Workers, MarkVerified(w), NEW k \in Keys
    PROVE  details'[k] = details[k] \/ Verified(w, k)
<1>1. CASE k = Key(Request(w)) /\ details[k].state # "none"
  <2>1. details[k] \in Row
    BY <1>1 DEF TypeOK, DatabaseTypeOK, NoRow
  <2>2. details'[k] = [details[k] EXCEPT !.verified = TRUE, !.token = NoToken]
    BY <1>1 DEF MarkVerified, TypeOK, DatabaseTypeOK
  <2>3. /\ KeepsProof(k)
        /\ details'[k].state = details[k].state
        /\ details'[k].verified = TRUE
        /\ details'[k].token = NoToken
    BY <1>1, <2>1, <2>2 DEF KeepsProof, Row
  <2> QED  BY <1>1, <2>3 DEF Verified
<1>2. CASE k # Key(Request(w)) \/ details[k].state = "none"
  BY <1>2 DEF MarkVerified, TypeOK, DatabaseTypeOK
<1> QED  BY <1>1, <1>2

\* A row changes only in one of four ways.
LEMMA RowChanges ==
    ASSUME TypeOK, NEW w \in Workers, Acts(w), NEW k \in Keys
    PROVE  \/ details'[k] = details[k]
           \/ Stored(w, k) \/ Linked(w, k) \/ Revoked(w, k) \/ Verified(w, k)
<1>1. CASE StoreDetail(w) \/ SetToken(w) \/ RevokeDetail(w) \/ MarkVerified(w)
  BY <1>1, StoreDetailRow, SetTokenRow, RevokeDetailRow, MarkVerifiedRow
<1>2. CASE ~(StoreDetail(w) \/ SetToken(w) \/ RevokeDetail(w) \/ MarkVerified(w))
  BY <1>2 DEF Acts, Receive, ReceiveIdentity, ReceiveDetail, ReceiveRevocation,
              ReceiveVerify, ReceiveConfirm, Step, InsertIdentity, GetDetailRecord,
              EnsureNewNonce, IsRevoked, CheckNonce, InsertRevocation, RevokeIdentity,
              Fail, db
<1> QED  BY <1>1, <1>2

\* An identity's row changes only when it is inserted or revoked.
LEMMA IdentityChanges ==
    ASSUME TypeOK, NEW w \in Workers, Acts(w), NEW f \in Identities
    PROVE  \/ identities'[f] = identities[f]
           \/ identities[f] = "none" /\ identities'[f] = "active"
           \/ RevokeIdentity(w) /\ f = Request(w).fp /\ identities'[f] = "revoked"
<1>1. CASE InsertIdentity(w)
  BY <1>1 DEF InsertIdentity, TypeOK, DatabaseTypeOK
<1>2. CASE RevokeIdentity(w)
  BY <1>2 DEF RevokeIdentity, TypeOK, DatabaseTypeOK
<1>3. CASE ~(InsertIdentity(w) \/ RevokeIdentity(w))
  BY <1>3 DEF Acts, Receive, ReceiveIdentity, ReceiveDetail, ReceiveRevocation,
              ReceiveVerify, ReceiveConfirm, Step, StoreDetail, SetToken, GetDetailRecord,
              EnsureNewNonce, IsRevoked, CheckNonce, InsertRevocation, RevokeDetail,
              MarkVerified, Fail, db
<1> QED  BY <1>1, <1>2, <1>3

\* However the handlers interleave, a revoked identity stays revoked
\* (handlers/identity.ts:150-234).
THEOREM RevocationIsFinal == Spec => RevokedIdentityStaysRevoked
<1>1. TypeOK /\ [Next]_vars =>
         [\A f \in Identities : identities[f] = "revoked" => identities'[f] = "revoked"]_vars
  BY IdentityChanges DEF Next, Acts
<1> QED  BY <1>1, TypeCorrect, PTL DEF Spec, RevokedIdentityStaysRevoked

----------------------------------------------------------------------------
(* How a worker moves. *)

LEMMA OthersStay ==
    ASSUME TypeOK, NEW w \in Workers, Acts(w), NEW v \in Workers, v # w
    PROVE  worker'[v] = worker[v]
  BY DEF TypeOK, Acts, Receive, ReceiveIdentity, ReceiveDetail, ReceiveRevocation,
         ReceiveVerify, ReceiveConfirm, Step, InsertIdentity, StoreDetail, SetToken,
         GetDetailRecord, EnsureNewNonce, IsRevoked, CheckNonce, InsertRevocation,
         RevokeIdentity, RevokeDetail, MarkVerified, Fail, Reply, GoTo

\* The same request, one call further.
Advances(w, pc) ==
    /\ worker'[w].pc = pc
    /\ worker'[w].req = worker[w].req
    /\ worker'[w].existing = worker[w].existing

LEMMA WorkerAfter ==
    ASSUME TypeOK, NEW w \in Workers
    PROVE  /\ Reply(w) => worker'[w].pc = "idle"
           /\ ~At(w, "idle") => \A pc : GoTo(w, pc) => Advances(w, pc)
           /\ \A pc, q, e : worker' = [worker EXCEPT ![w] = Doing(pc, q, e)] =>
                 /\ worker'[w].pc = pc
                 /\ worker'[w].req = q
                 /\ worker'[w].existing = e
<1>1. Reply(w) => worker'[w].pc = "idle"
  BY DEF Reply, Idle, TypeOK
<1>2. ASSUME ~At(w, "idle"), NEW pc, GoTo(w, pc)
      PROVE  Advances(w, pc)
  BY <1>2, WorkerMoves DEF Advances, Doing, Request, TypeOK
<1>3. ASSUME NEW pc, NEW q, NEW e, worker' = [worker EXCEPT ![w] = Doing(pc, q, e)]
      PROVE  worker'[w].pc = pc /\ worker'[w].req = q /\ worker'[w].existing = e
  BY <1>3 DEF Doing, TypeOK
<1> QED  BY <1>1, <1>2, <1>3

\* Which step brings a worker to a call that writes, and what that step found.
LEMMA NextCall ==
    ASSUME TypeOK, NEW w \in Workers, Acts(w)
    PROVE  /\ worker'[w].pc = "ensureNewNonce" =>
              /\ GetDetailRecord(w)
              /\ worker'[w].req = Request(w)
              /\ worker'[w].existing = details[Key(Request(w))].state
           /\ worker'[w].pc = "storeDetail" =>
              /\ EnsureNewNonce(w)
              /\ Advances(w, "storeDetail")
              /\ IsNewNonce(Request(w).fp, Request(w).nonce)
           /\ worker'[w].pc = "setToken" =>
              \/ StoreDetail(w) /\ Advances(w, "setToken")
                 /\ (worker[w].existing = "revoked" \/ details[Key(Request(w))].state = "none")
              \/ \E q \in Requests : ReceiveVerify(w, q) /\ worker'[w].req = q
           /\ worker'[w].pc = "insertRevocation" =>
              /\ CheckNonce(w)
              /\ Advances(w, "insertRevocation")
              /\ RevocationNonceOk(Request(w))
           /\ worker'[w].pc = "applyRevocation" =>
              /\ InsertRevocation(w)
              /\ Advances(w, "applyRevocation")
              /\ Certificate(Request(w)) \in revocations'
           /\ worker'[w].pc = "markVerified" =>
              \E m \in issued, k \in Keys :
                 /\ ReceiveConfirm(w, m)
                 /\ details[k].token = m.token
                 /\ details[k].state = "active"
                 /\ worker'[w].req.fp = k[1]
                 /\ worker'[w].req.path = k[2]
<1> USE WorkerAfter
<1>1. CASE \E q \in Requests : Receive(w, q)
  BY <1>1 DEF Receive, ReceiveIdentity, ReceiveDetail, ReceiveRevocation, ReceiveVerify
<1>2. CASE \E m \in issued : ReceiveConfirm(w, m)
  <2>1. PICK m \in issued : ReceiveConfirm(w, m)
    BY <1>2
  <2>2. PICK k \in Keys :
           /\ details[k].token = m.token
           /\ details[k].state = "active"
           /\ worker' = [worker EXCEPT ![w] =
                 Doing("markVerified", [op |-> "VerifyEmailConfirm", fp |-> k[1],
                                        path |-> k[2], token |-> m.token], "none")]
    BY <2>1 DEF ReceiveConfirm
  <2> DEFINE q == [op |-> "VerifyEmailConfirm", fp |-> k[1], path |-> k[2],
                   token |-> m.token]
  <2>3. q.fp = k[1] /\ q.path = k[2]
    OBVIOUS
  <2>4. worker' = [worker EXCEPT ![w] = Doing("markVerified", q, "none")]
    BY <2>2
  <2> HIDE DEF q
  <2>5. worker'[w].pc = "markVerified" /\ worker'[w].req = q
    BY <2>4
  <2> QED  BY <2>1, <2>2, <2>3, <2>5
<1>3. CASE InsertIdentity(w) \/ SetToken(w) \/ RevokeIdentity(w) \/ RevokeDetail(w)
           \/ MarkVerified(w) \/ Fail(w)
  BY <1>3 DEF InsertIdentity, SetToken, RevokeIdentity, RevokeDetail, MarkVerified, Fail
<1>4. CASE GetDetailRecord(w)
  BY <1>4 DEF GetDetailRecord
<1>5. CASE EnsureNewNonce(w)
  BY <1>5 DEF EnsureNewNonce, At, Advances
<1>6. CASE StoreDetail(w)
  BY <1>6 DEF StoreDetail, At, Advances
<1>7. CASE IsRevoked(w)
  BY <1>7 DEF IsRevoked, At, Advances
<1>8. CASE CheckNonce(w)
  BY <1>8 DEF CheckNonce, At, Advances
<1>9. CASE InsertRevocation(w)
  BY <1>9 DEF InsertRevocation, At, Advances
<1> QED
  BY <1>1, <1>2, <1>3, <1>4, <1>5, <1>6, <1>7, <1>8, <1>9 DEF Acts, Step

----------------------------------------------------------------------------
(* Marks and certificates. *)

LEMMA RevocationsStay ==
    ASSUME NEW w \in Workers, Acts(w)
    PROVE  revocations \subseteq revocations'
  BY DEF Acts, Receive, ReceiveIdentity, ReceiveDetail, ReceiveRevocation,
         ReceiveVerify, ReceiveConfirm, Step, InsertIdentity, StoreDetail, SetToken,
         GetDetailRecord, EnsureNewNonce, IsRevoked, CheckNonce, InsertRevocation,
         RevokeIdentity, RevokeDetail, MarkVerified, Fail, db

\* A handler that is about to write the mark has written the certificate.
ApplyIsCertified ==
    \A w \in Workers : At(w, "applyRevocation") => Certificate(Request(w)) \in revocations

CertifiedInv == TypeOK /\ RevokedIsCertified /\ ApplyIsCertified

LEMMA CertifiedStep ==
    ASSUME CertifiedInv, NEW w \in Workers, Acts(w)
    PROVE  RevokedIsCertified' /\ ApplyIsCertified'
<1> USE DEF CertifiedInv
<1>1. ASSUME NEW f \in Identities, identities'[f] = "revoked"
      PROVE  \E c \in revocations' : c.fp = f /\ c.type = "identity"
  <2>1. CASE identities[f] = "revoked"
    BY <2>1, RevocationsStay DEF RevokedIsCertified
  <2>2. CASE RevokeIdentity(w) /\ f = Request(w).fp
    BY <2>2, RevocationsStay DEF RevokeIdentity, ApplyIsCertified, Certificate
  <2> QED  BY <1>1, <2>1, <2>2, IdentityChanges
<1>2. ASSUME NEW k \in Keys, details'[k].state = "revoked"
      PROVE  \E c \in revocations' : c.fp = k[1] /\ c.type = "detail" /\ c.target = k[2]
  <2>1. CASE details[k].state = "revoked"
    BY <2>1, RevocationsStay DEF RevokedIsCertified
  <2>2. CASE Revoked(w, k)
    BY <2>2, RevocationsStay DEF Revoked, RevokeDetail, ApplyIsCertified, Certificate
  <2>3. CASE Stored(w, k)
    BY <1>2, <2>3 DEF Stored, NewRow
  <2> QED  BY <1>2, <2>1, <2>2, <2>3, RowChanges DEF Linked, Verified
<1>3. ASSUME NEW v \in Workers, worker'[v].pc = "applyRevocation"
      PROVE  Certificate(worker'[v].req) \in revocations'
  <2>1. CASE v = w
    BY <1>3, <2>1, NextCall DEF Advances, Request
  <2>2. CASE v # w
    BY <1>3, <2>2, OthersStay, RevocationsStay DEF ApplyIsCertified, At, Request
  <2> QED  BY <2>1, <2>2
<1> QED  BY <1>1, <1>2, <1>3 DEF RevokedIsCertified, ApplyIsCertified, At, Request

\* However the handlers interleave and fail, whatever is shown as revoked has its
\* certificate in the table (handlers/revocation.ts:98-111).
THEOREM RevokedHasCertificate == Spec => []RevokedIsCertified
<1>1. Init => CertifiedInv
  <2>1. Init => TypeOK
    BY InitTypeOK
  <2> QED  BY <2>1 DEF CertifiedInv, Init, RevokedIsCertified, ApplyIsCertified, NoRow,
                       Idle, At
<1>2. CertifiedInv /\ [Next]_vars => CertifiedInv'
  <2> SUFFICES ASSUME CertifiedInv, [Next]_vars PROVE CertifiedInv'
    OBVIOUS
  <2>1. TypeOK'
    BY NextTypeOK DEF CertifiedInv
  <2>2. CASE UNCHANGED vars
    BY <2>1, <2>2 DEF vars, CertifiedInv, RevokedIsCertified, ApplyIsCertified, At, Request
  <2>3. CASE Next
    BY <2>1, <2>3, CertifiedStep DEF CertifiedInv, Next, Acts
  <2> QED  BY <2>2, <2>3
<1>3. CertifiedInv => RevokedIsCertified
  BY DEF CertifiedInv
<1> QED  BY <1>1, <1>2, <1>3, PTL DEF Spec

----------------------------------------------------------------------------
(* Links and verification. *)

OneLinkPerToken == \A m, n \in issued : m.token = n.token => m = n

\* A handler that is about to mark a detail has accepted a link for its key.
MarkIsConfirmed ==
    \A w \in Workers : At(w, "markVerified") =>
       \E m \in confirmed : m.fp = Request(w).fp /\ m.path = Request(w).path

LinkInv == TypeOK /\ OneLinkPerToken /\ PendingTokenUnverified /\ MarkIsConfirmed
           /\ VerifiedWasConfirmed

LEMMA HistoryGrows ==
    ASSUME NEW w \in Workers, Acts(w)
    PROVE  /\ issued \subseteq issued'
           /\ confirmed \subseteq confirmed'
           /\ \/ issued' = issued
              \/ \E m : m.token \notin IssuedTokens /\ issued' = issued \union {m}
<1>1. CASE SetToken(w)
  BY <1>1 DEF SetToken
<1>2. CASE \E m \in issued : ReceiveConfirm(w, m)
  BY <1>2 DEF ReceiveConfirm
<1>3. CASE ~SetToken(w) /\ ~\E m \in issued : ReceiveConfirm(w, m)
  BY <1>3 DEF Acts, Receive, ReceiveIdentity, ReceiveDetail, ReceiveRevocation,
         ReceiveVerify, Step, InsertIdentity, StoreDetail,
         GetDetailRecord, EnsureNewNonce, IsRevoked, CheckNonce, InsertRevocation,
         RevokeIdentity, RevokeDetail, MarkVerified, Fail, history
<1> QED  BY <1>1, <1>2, <1>3

LEMMA LinkStep ==
    ASSUME LinkInv, NEW w \in Workers, Acts(w)
    PROVE  /\ OneLinkPerToken' /\ PendingTokenUnverified'
           /\ MarkIsConfirmed' /\ VerifiedWasConfirmed'
<1> USE DEF LinkInv
<1>1. OneLinkPerToken'
  BY HistoryGrows DEF OneLinkPerToken, IssuedTokens
<1>2. ASSUME NEW k \in Keys, details'[k].token # NoToken
      PROVE  /\ ~details'[k].verified
             /\ \E m \in issued' :
                   m.token = details'[k].token /\ m.fp = k[1] /\ m.path = k[2]
  <2>1. CASE details'[k] = details[k]
    BY <1>2, <2>1, HistoryGrows DEF PendingTokenUnverified
  <2>2. CASE Linked(w, k)
    BY <2>2 DEF Linked
  <2>3. CASE Stored(w, k) \/ Revoked(w, k) \/ Verified(w, k)
    BY <1>2, <2>3 DEF Stored, NewRow, Revoked, Verified
  <2> QED  BY <2>1, <2>2, <2>3, RowChanges
<1>3. ASSUME NEW v \in Workers, worker'[v].pc = "markVerified"
      PROVE  \E m \in confirmed' : m.fp = worker'[v].req.fp /\ m.path = worker'[v].req.path
  <2>1. CASE v = w
    <3>1. PICK m \in issued, k \in Keys :
             /\ ReceiveConfirm(w, m)
             /\ details[k].token = m.token
             /\ worker'[w].req.fp = k[1]
             /\ worker'[w].req.path = k[2]
      BY <1>3, <2>1, NextCall
    <3>2. details[k].token # NoToken
      BY <3>1, TokensAssumption DEF TypeOK, Link
    <3>3. m.fp = k[1] /\ m.path = k[2]
      BY <3>1, <3>2 DEF PendingTokenUnverified, OneLinkPerToken
    <3>4. m \in confirmed'
      BY <3>1 DEF ReceiveConfirm
    <3> QED  BY <2>1, <3>1, <3>3, <3>4
  <2>2. CASE v # w
    BY <1>3, <2>2, OthersStay, HistoryGrows DEF MarkIsConfirmed, At, Request
  <2> QED  BY <2>1, <2>2
<1>4. ASSUME NEW k \in Keys, details'[k].verified
      PROVE  \E m \in confirmed' : m.fp = k[1] /\ m.path = k[2]
  <2>1. CASE details'[k] = details[k]
    BY <1>4, <2>1, HistoryGrows DEF VerifiedWasConfirmed
  <2>2. CASE Verified(w, k)
    <3>1. k[1] = Request(w).fp /\ k[2] = Request(w).path
      BY <2>2 DEF Verified, Key
    <3> QED  BY <2>2, <3>1, HistoryGrows DEF Verified, MarkVerified, MarkIsConfirmed
  <2>3. CASE Stored(w, k) \/ Revoked(w, k) \/ Linked(w, k)
    BY <1>4, <2>3 DEF Stored, NewRow, Revoked, Linked
  <2> QED  BY <2>1, <2>2, <2>3, RowChanges
<1> QED
  BY <1>1, <1>2, <1>3, <1>4
     DEF PendingTokenUnverified, MarkIsConfirmed, VerifiedWasConfirmed, At, Request

LEMMA LinkInvariant == Spec => []LinkInv
<1>1. Init => LinkInv
  <2>1. Init => TypeOK
    BY InitTypeOK
  <2> QED  BY <2>1 DEF LinkInv, Init, OneLinkPerToken, PendingTokenUnverified,
                       MarkIsConfirmed, VerifiedWasConfirmed, NoRow, Idle, At
<1>2. LinkInv /\ [Next]_vars => LinkInv'
  <2> SUFFICES ASSUME LinkInv, [Next]_vars PROVE LinkInv'
    OBVIOUS
  <2>1. TypeOK'
    BY NextTypeOK DEF LinkInv
  <2>2. CASE UNCHANGED vars
    BY <2>1, <2>2 DEF vars, LinkInv, OneLinkPerToken, PendingTokenUnverified,
                      MarkIsConfirmed, VerifiedWasConfirmed, At, Request
  <2>3. CASE Next
    BY <2>1, <2>3, LinkStep DEF LinkInv, Next, Acts
  <2> QED  BY <2>2, <2>3
<1> QED  BY <1>1, <1>2, PTL DEF Spec

\* However confirmations race with publications and revocations, a token in a row is
\* that of a link made for this row, which is not verified (verify-email.ts:291-331).
THEOREM TokensArePending == Spec => []PendingTokenUnverified
<1>1. LinkInv => PendingTokenUnverified
  BY DEF LinkInv
<1> QED  BY <1>1, LinkInvariant, PTL

\* However they race, nothing is verified for a fingerprint and path for which no
\* mailed link was accepted (verify-email.ts:278-342).
THEOREM VerificationNeedsLink == Spec => []VerifiedWasConfirmed
<1>1. LinkInv => VerifiedWasConfirmed
  BY DEF LinkInv
<1> QED  BY <1>1, LinkInvariant, PTL

=============================================================================
