------------------------ MODULE RegistrySerialProofs ------------------------
(***************************************************************************)
(* Theorems about Registry when the requests of one identity are worked on *)
(* one at a time, for all values of its constants, with requests of        *)
(* different identities interleaved and with failures between any two      *)
(* database calls of a handler.                                            *)
(***************************************************************************)
EXTENDS RegistryProofs, RegistryRefinement

----------------------------------------------------------------------------
(* The inductive invariant: what a handler found is still so when it writes. *)

ReadIsCurrent ==
    \A w \in Workers : At(w, "ensureNewNonce") \/ At(w, "storeDetail") =>
       worker[w].existing = details[Key(Request(w))].state

NonceIsNew ==
    \A w \in Workers : At(w, "storeDetail") => IsNewNonce(Request(w).fp, Request(w).nonce)

RevocationIsNew ==
    \A w \in Workers : At(w, "insertRevocation") => RevocationNonceOk(Request(w))

\* A retired proof's row is still there, with its nonce or a higher one.
RetiredBelow ==
    \A r \in retired :
       LET row == details[<<r.fp, r.path>>]
       IN  /\ row.state # "none"
           /\ row.nonce >= r.nonce
           /\ row.state = "active" => row.nonce > r.nonce

\* The link about to be made is for the value of the row.
LinkTargetIsCurrent ==
    \A w \in Workers : At(w, "setToken") =>
       details[Key(Request(w))].detail = Published(Request(w).path, Request(w).detail)

\* The link whose token is in a row was sent to the address of the row.
TokenProvesRow ==
    \A k \in Keys, m \in issued :
       details[k].token # NoToken /\ m.token = details[k].token =>
          Published(m.path, m.address) = details[k].detail

\* The mark about to be written is for the address of an accepted link.
MarkProvesRow ==
    \A w \in Workers : At(w, "markVerified") =>
       \E m \in confirmed :
          /\ m.fp = Request(w).fp
          /\ m.path = Request(w).path
          /\ Published(m.path, m.address) = details[Key(Request(w))].detail

SerialInv ==
    /\ LinkInv
    /\ OnePerIdentity
    /\ ReadIsCurrent
    /\ NonceIsNew
    /\ RevocationIsNew
    /\ DistinctNonces
    /\ RetiredBelow
    /\ LinkTargetIsCurrent
    /\ TokenProvesRow
    /\ MarkProvesRow
    /\ VerifiedMeansProved

LEMMA SerialInvInit == Init => SerialInv
<1> SUFFICES ASSUME Init PROVE SerialInv
  OBVIOUS
<1>1. LinkInv
  <2>1. TypeOK
    BY InitTypeOK
  <2> QED  BY <2>1 DEF LinkInv, Init, OneLinkPerToken, PendingTokenUnverified,
                       MarkIsConfirmed, VerifiedWasConfirmed, NoRow, Idle, At
<1>2. \A w \in Workers : worker[w].pc = "idle"
  BY DEF Init, Idle
<1>3. \A k \in Keys : details[k] = NoRow
  BY DEF Init
<1>4. DistinctNonces
  BY <1>3 DEF DistinctNonces, Keys, NoRow
<1>5. retired = {} /\ issued = {}
  BY DEF Init
<1> QED
  BY <1>1, <1>2, <1>3, <1>4, <1>5
     DEF SerialInv, OnePerIdentity, ReadIsCurrent, NonceIsNew, RevocationIsNew, RetiredBelow,
         LinkTargetIsCurrent, TokenProvesRow, MarkProvesRow, VerifiedMeansProved, At, NoRow

----------------------------------------------------------------------------
(* One step, of worker w. *)

LEMMA RevocationsChange ==
    ASSUME NEW w \in Workers, Acts(w), NEW c \in revocations' \ revocations
    PROVE  InsertRevocation(w) /\ c = Certificate(Request(w))
<1>1. CASE InsertRevocation(w)
  BY <1>1 DEF InsertRevocation
<1>2. CASE ~InsertRevocation(w)
  BY <1>2 DEF Acts, Receive, ReceiveIdentity, ReceiveDetail, ReceiveRevocation,
              ReceiveVerify, ReceiveConfirm, Step, InsertIdentity, StoreDetail, SetToken,
              GetDetailRecord, EnsureNewNonce, IsRevoked, CheckNonce, RevokeIdentity,
              RevokeDetail, MarkVerified, Fail, db
<1> QED  BY <1>1, <1>2

LEMMA RequestOfIdentity ==
    ASSUME TypeOK, NEW w \in Workers, ~At(w, "idle")
    PROVE  Request(w).fp \in Identities
  BY JobKinds DEF TypeOK, Job, Working, Idle, At, Request, IdentityRequest, DetailRequest,
                  VerifyRequest, RevocationRequest, ConfirmRequest

\* A step changes only what belongs to the identity of its request.
LEMMA WritesOwn ==
    ASSUME TypeOK, NEW w \in Workers, Acts(w), NEW f \in Identities,
           ~At(w, "idle") => Request(w).fp # f
    PROVE  /\ \A p \in Paths : details'[<<f, p>>] = details[<<f, p>>]
           /\ identities'[f] = identities[f]
           /\ \A c \in revocations' \ revocations : c.fp # f
<1>1. CASE At(w, "idle")
  BY <1>1 DEF Acts, Receive, ReceiveIdentity, ReceiveDetail, ReceiveRevocation,
              ReceiveVerify, ReceiveConfirm, Step, InsertIdentity, StoreDetail, SetToken,
              GetDetailRecord, EnsureNewNonce, IsRevoked, CheckNonce, InsertRevocation,
              RevokeIdentity, RevokeDetail, MarkVerified, Fail, At, db
<1>2. CASE ~At(w, "idle")
  <2>1. Request(w).fp # f
    BY <1>2
  <2>2. ASSUME NEW p \in Paths
        PROVE  details'[<<f, p>>] = details[<<f, p>>]
    <3> DEFINE k == <<f, p>>
    <3>1. k \in Keys /\ k[1] = f
      BY DEF Keys
    <3>2. k # Key(Request(w)) /\ k # <<Request(w).fp, Request(w).target>>
      BY <2>1 DEF Key
    <3> QED  BY <3>1, <3>2, RowChanges DEF Stored, Linked, Revoked, Verified
  <2>3. identities'[f] = identities[f]
    BY <2>1 DEF TypeOK, DatabaseTypeOK, Acts, Receive, ReceiveIdentity, ReceiveDetail,
                ReceiveRevocation, ReceiveVerify, ReceiveConfirm, Step, InsertIdentity,
                StoreDetail, SetToken, GetDetailRecord, EnsureNewNonce, IsRevoked,
                CheckNonce, InsertRevocation, RevokeIdentity, RevokeDetail, MarkVerified,
                Fail, db
  <2>4. \A c \in revocations' \ revocations : c.fp # f
    BY <2>1, RevocationsChange DEF Certificate
  <2> QED  BY <2>2, <2>3, <2>4
<1> QED  BY <1>1, <1>2

\* What a request in progress has read is not changed by the step of another.
LEMMA OthersKeep ==
    ASSUME TypeOK, OnePerIdentity, OnePerIdentity', NEW w \in Workers, Acts(w),
           NEW v \in Workers, v # w, worker'[v].pc # "idle"
    PROVE  /\ worker'[v] = worker[v]
           /\ Request(v).fp \in Identities
           /\ \A p \in Paths : details'[<<Request(v).fp, p>>] = details[<<Request(v).fp, p>>]
           /\ identities'[Request(v).fp] = identities[Request(v).fp]
           /\ \A c \in revocations' \ revocations : c.fp # Request(v).fp
<1>1. worker'[v] = worker[v]
  BY OthersStay
<1>2. ~At(v, "idle")
  BY <1>1 DEF At
<1>3. Request(v).fp \in Identities
  BY <1>2, RequestOfIdentity
<1>4. ~At(w, "idle") => Request(w).fp # Request(v).fp
  BY <1>2 DEF OnePerIdentity
<1> QED  BY <1>1, <1>3, <1>4, WritesOwn

\* Every step but a publication keeps the proofs that are stored.
LEMMA ProofsKept ==
    ASSUME TypeOK, NEW w \in Workers, Acts(w), ~StoreDetail(w), NEW k \in Keys
    PROVE  /\ details'[k].nonce = details[k].nonce
           /\ details'[k].detail = details[k].detail
           /\ details'[k].state = "none" <=> details[k].state = "none"
           /\ details'[k].state = "active" => details[k].state = "active"
  BY RowChanges DEF Stored, Linked, Revoked, Verified, KeepsProof

LEMMA StepOfWorker ==
    ASSUME SerialInv, OnePerIdentity', NEW w \in Workers, Acts(w)
    PROVE  /\ ReadIsCurrent'
           /\ NonceIsNew'
           /\ RevocationIsNew'
<1> USE DEF SerialInv, LinkInv
<1>1. ASSUME NEW v \in Workers,
             worker'[v].pc = "ensureNewNonce" \/ worker'[v].pc = "storeDetail"
      PROVE  worker'[v].existing = details'[Key(worker'[v].req)].state
  <2>1. CASE v # w
    <3>1. /\ worker'[v] = worker[v]
          /\ \A p \in Paths : details'[<<Request(v).fp, p>>] = details[<<Request(v).fp, p>>]
      BY <1>1, <2>1, OthersKeep
    <3>2. Request(v).path \in Paths
      BY <1>1, <3>1, JobKinds DEF TypeOK, At, DetailRequest
    <3> QED  BY <1>1, <3>1, <3>2 DEF ReadIsCurrent, At, Request, Key
  <2>2. CASE v = w /\ worker'[w].pc = "ensureNewNonce"
    BY <2>2, NextCall DEF GetDetailRecord, db
  <2>3. CASE v = w /\ worker'[w].pc = "storeDetail"
    BY <2>3, NextCall DEF EnsureNewNonce, db, Advances, ReadIsCurrent, At, Request
  <2> QED  BY <1>1, <2>1, <2>2, <2>3
<1>2. ASSUME NEW v \in Workers, worker'[v].pc = "storeDetail", NEW p \in Paths,
             details'[<<worker'[v].req.fp, p>>].state # "none"
      PROVE  worker'[v].req.nonce > details'[<<worker'[v].req.fp, p>>].nonce
  <2>1. CASE v # w
    <3>1. /\ worker'[v] = worker[v]
          /\ details'[<<Request(v).fp, p>>] = details[<<Request(v).fp, p>>]
      BY <1>2, <2>1, OthersKeep
    <3> QED  BY <1>2, <3>1 DEF NonceIsNew, IsNewNonce, At, Request
  <2>2. CASE v = w
    BY <1>2, <2>2, NextCall DEF EnsureNewNonce, db, Advances, Request, IsNewNonce
  <2> QED  BY <2>1, <2>2
<1>3. ASSUME NEW v \in Workers, worker'[v].pc = "insertRevocation"
      PROVE  /\ RevocationNonceOk(worker'[v].req)
             /\ \A c \in revocations' \ revocations : c.fp # worker'[v].req.fp
  <2>1. CASE v # w
    BY <1>3, <2>1, OthersKeep DEF RevocationIsNew, At, Request
  <2>2. CASE v = w
    BY <1>3, <2>2, NextCall DEF CheckNonce, db, Advances, Request
  <2> QED  BY <2>1, <2>2
<1>4. RevocationIsNew'
  <2> SUFFICES ASSUME NEW v \in Workers, worker'[v].pc = "insertRevocation"
               PROVE  RevocationNonceOk(Request(v))'
    BY DEF RevocationIsNew, At
  <2>1. /\ RevocationNonceOk(worker'[v].req)
        /\ \A c \in revocations' \ revocations : c.fp # worker'[v].req.fp
    BY <1>3
  <2> QED  BY <2>1 DEF RevocationNonceOk, Request
<1> QED
  BY <1>1, <1>2, <1>4 DEF ReadIsCurrent, NonceIsNew, IsNewNonce, At, Request

LEMMA NonceTypes ==
    ASSUME TypeOK
    PROVE  /\ \A k \in Keys : details[k].nonce \in Int
           /\ \A w \in Workers : At(w, "storeDetail") =>
                 /\ Request(w).nonce \in Nat
                 /\ Request(w).fp \in Identities
                 /\ Key(Request(w)) \in Keys
           /\ \A r \in retired : r.nonce \in Nat /\ <<r.fp, r.path>> \in Keys
  BY JobKinds DEF TypeOK, DatabaseTypeOK, Row, NoRow, DetailRequest, Key, Keys, Proof

\* A publication stores a nonce above those of all rows of its identity.
LEMMA StoredIsNew ==
    ASSUME SerialInv, NEW w \in Workers, StoreDetail(w)
    PROVE  /\ details' = [details EXCEPT ![Key(Request(w))] = NewRow(Request(w))]
           /\ details[Key(Request(w))].state # "active"
           /\ IsNewNonce(Request(w).fp, Request(w).nonce)
<1>1. worker[w].existing = details[Key(Request(w))].state
  BY DEF SerialInv, StoreDetail, ReadIsCurrent
<1>2. worker[w].existing \in {"none", "revoked"}
  BY JobKinds DEF SerialInv, LinkInv, TypeOK, StoreDetail, At
<1>3. IsNewNonce(Request(w).fp, Request(w).nonce)
  BY DEF SerialInv, StoreDetail, NonceIsNew
<1> QED  BY <1>1, <1>2, <1>3 DEF StoreDetail

LEMMA DistinctStep ==
    ASSUME SerialInv, NEW w \in Workers, Acts(w)
    PROVE  DistinctNonces'
<1> USE DEF SerialInv, LinkInv
<1> SUFFICES ASSUME NEW f \in Identities, NEW p \in Paths, NEW r \in Paths, p # r,
                    details'[<<f, p>>].state # "none", details'[<<f, r>>].state # "none"
             PROVE  details'[<<f, p>>].nonce # details'[<<f, r>>].nonce
  BY DEF DistinctNonces
<1>1. <<f, p>> \in Keys /\ <<f, r>> \in Keys
  BY DEF Keys
<1>2. CASE ~StoreDetail(w)
  BY <1>1, <1>2, ProofsKept DEF DistinctNonces
<1>3. CASE StoreDetail(w)
  <2> DEFINE q == Request(w)
  <2>1. q.nonce \in Nat /\ Key(q) \in Keys
    BY <1>3, NonceTypes DEF StoreDetail
  <2>2. \A s \in Paths : details[<<q.fp, s>>].state # "none" =>
           q.nonce > details[<<q.fp, s>>].nonce
    BY <1>3, StoredIsNew DEF IsNewNonce
  <2>3. \A k \in Keys : details'[k] = IF k = Key(q) THEN NewRow(q) ELSE details[k]
    BY <1>3, StoredIsNew, <2>1 DEF TypeOK, DatabaseTypeOK
  <2>4. NewRow(q).nonce = q.nonce
    BY DEF NewRow
  <2>5. CASE f # q.fp
    BY <1>1, <2>3, <2>5 DEF DistinctNonces, Key
  <2>6. CASE f = q.fp /\ p = q.path
    <3>1. details'[<<f, r>>] = details[<<f, r>>] /\ details'[<<f, p>>] = NewRow(q)
      BY <1>1, <2>3, <2>6 DEF Key
    <3>2. details[<<f, r>>].nonce \in Int /\ q.nonce > details[<<f, r>>].nonce
      BY <1>1, <2>2, <2>6, <3>1, NonceTypes
    <3> QED  BY <2>1, <2>4, <3>1, <3>2
  <2>7. CASE f = q.fp /\ r = q.path
    <3>1. details'[<<f, p>>] = details[<<f, p>>] /\ details'[<<f, r>>] = NewRow(q)
      BY <1>1, <2>3, <2>7 DEF Key
    <3>2. details[<<f, p>>].nonce \in Int /\ q.nonce > details[<<f, p>>].nonce
      BY <1>1, <2>2, <2>7, <3>1, NonceTypes
    <3> QED  BY <2>1, <2>4, <3>1, <3>2
  <2>8. CASE f = q.fp /\ p # q.path /\ r # q.path
    BY <1>1, <2>3, <2>8 DEF DistinctNonces, Key
  <2> QED  BY <2>5, <2>6, <2>7, <2>8
<1> QED  BY <1>2, <1>3

LEMMA RetiredChanges ==
    ASSUME TypeOK, NEW w \in Workers, Acts(w)
    PROVE  \/ retired' = retired
           \/ \E k \in Keys : /\ ~StoreDetail(w)
                              /\ details[k].state # "none"
                              /\ details'[k].state = "revoked"
                              /\ retired' = retired \union {ProofOf(k)}
<1>1. CASE RevokeDetail(w)
  <2> DEFINE k == <<Request(w).fp, Request(w).target>>
  <2>1. k \in Keys
    BY <1>1, JobKinds DEF RevokeDetail, TypeOK, RevocationRequest, Keys
  <2>2. CASE details[k].state = "none"
    BY <1>1, <2>2 DEF RevokeDetail
  <2>3. CASE details[k].state # "none"
    <3>1. details[k] \in Row
      BY <2>1, <2>3 DEF TypeOK, DatabaseTypeOK, NoRow
    <3>2. /\ details'[k] = [details[k] EXCEPT !.state = "revoked", !.verified = FALSE,
                                              !.token = NoToken]
          /\ retired' = retired \union {ProofOf(k)}
      BY <1>1, <2>1, <2>3 DEF RevokeDetail, TypeOK, DatabaseTypeOK
    <3>3. details'[k].state = "revoked"
      BY <3>1, <3>2 DEF Row
    <3>4. ~StoreDetail(w)
      BY <1>1 DEF RevokeDetail, StoreDetail, At
    <3> QED  BY <2>1, <2>3, <3>2, <3>3, <3>4
  <2> QED  BY <2>2, <2>3
<1>2. CASE ~RevokeDetail(w)
  BY <1>2 DEF Acts, Receive, ReceiveIdentity, ReceiveDetail, ReceiveRevocation,
              ReceiveVerify, ReceiveConfirm, Step, InsertIdentity, StoreDetail, SetToken,
              GetDetailRecord, EnsureNewNonce, IsRevoked, CheckNonce, InsertRevocation,
              RevokeIdentity, MarkVerified, Fail, history
<1> QED  BY <1>1, <1>2

LEMMA RetiredStep ==
    ASSUME SerialInv, NEW w \in Workers, Acts(w)
    PROVE  RetiredBelow'
<1> USE DEF SerialInv, LinkInv
<1>1. ASSUME NEW r \in retired
      PROVE  LET row == details'[<<r.fp, r.path>>]
             IN  /\ row.state # "none"
                 /\ row.nonce >= r.nonce
                 /\ row.state = "active" => row.nonce > r.nonce
  <2> DEFINE k == <<r.fp, r.path>>
  <2>1. k \in Keys /\ r.nonce \in Nat
    BY <1>1, NonceTypes
  <2>2. /\ details[k].state # "none" /\ details[k].nonce >= r.nonce
        /\ details[k].state = "active" => details[k].nonce > r.nonce
    BY <1>1 DEF RetiredBelow
  <2>3. CASE ~StoreDetail(w)
    BY <2>1, <2>2, <2>3, ProofsKept
  <2>4. CASE StoreDetail(w)
    <3> DEFINE q == Request(w)
    <3>1. q.nonce \in Nat /\ Key(q) \in Keys /\ details[k].nonce \in Int
      BY <2>1, <2>4, NonceTypes DEF StoreDetail
    <3>2. details'[k] = IF k = Key(q) THEN NewRow(q) ELSE details[k]
      BY <2>1, <2>4, <3>1, StoredIsNew DEF TypeOK, DatabaseTypeOK
    <3>3. CASE k = Key(q)
      <4>1. r.fp = q.fp /\ r.path \in Paths
        BY <2>1, <3>3 DEF Key, Keys
      <4>2. q.nonce > details[k].nonce
        BY <2>2, <2>4, <4>1, StoredIsNew DEF IsNewNonce
      <4>3. details'[k].state = "active" /\ details'[k].nonce = q.nonce
        BY <3>2, <3>3 DEF NewRow
      <4> QED  BY <2>1, <2>2, <3>1, <4>2, <4>3
    <3>4. CASE k # Key(q)
      BY <2>2, <3>2, <3>4
    <3> QED  BY <3>3, <3>4
  <2> QED  BY <2>3, <2>4
<1>2. CASE retired' = retired
  BY <1>1, <1>2 DEF RetiredBelow
<1>3. ASSUME NEW k \in Keys, ~StoreDetail(w), details[k].state # "none",
             details'[k].state = "revoked", retired' = retired \union {ProofOf(k)}
      PROVE  RetiredBelow'
  <2> DEFINE r == ProofOf(k)
  <2>1. <<r.fp, r.path>> = k /\ r.nonce = details[k].nonce
    BY DEF ProofOf, Keys
  <2>2. details'[k].nonce = r.nonce /\ r.nonce \in Int
    BY <1>3, <2>1, ProofsKept, NonceTypes
  <2>3. /\ details'[<<r.fp, r.path>>].state = "revoked"
        /\ details'[<<r.fp, r.path>>].nonce >= r.nonce
    BY <1>3, <2>1, <2>2
  <2> QED  BY <1>1, <1>3, <2>3 DEF RetiredBelow
<1> QED  BY <1>2, <1>3, RetiredChanges

----------------------------------------------------------------------------
(* Links prove the rows they are for. *)

LEMMA LinkTargetStep ==
    ASSUME SerialInv, OnePerIdentity', NEW w \in Workers, Acts(w)
    PROVE  LinkTargetIsCurrent'
<1> USE DEF SerialInv, LinkInv
<1> SUFFICES ASSUME NEW v \in Workers, worker'[v].pc = "setToken"
             PROVE  LET q == worker'[v].req
                    IN  details'[Key(q)].detail = Published(q.path, q.detail)
  BY DEF LinkTargetIsCurrent, At, Request
<1>1. CASE v # w
  <2>1. /\ worker'[v] = worker[v]
        /\ \A p \in Paths : details'[<<Request(v).fp, p>>] = details[<<Request(v).fp, p>>]
    BY <1>1, OthersKeep
  <2>2. Request(v).path \in Paths
    BY <2>1, JobKinds, PathsAssumption DEF TypeOK, At, DetailRequest, VerifyRequest
  <2> QED  BY <2>1, <2>2 DEF LinkTargetIsCurrent, At, Request, Key
<1>2. CASE v = w /\ StoreDetail(w) /\ Advances(w, "setToken")
  <2> DEFINE q == Request(w)
  <2>1. worker'[w].req = q /\ q.path = "email"
    BY <1>2, WorkerAfter DEF StoreDetail, Advances, Request
  <2>2. Key(q) \in Keys
    BY <1>2, NonceTypes DEF StoreDetail
  <2>3. details'[Key(q)] = NewRow(q)
    BY <1>2, <2>2, StoredIsNew DEF TypeOK, DatabaseTypeOK
  <2>4. details'[Key(q)].detail = q.detail
    BY <2>3 DEF NewRow
  <2> QED  BY <1>2, <2>1, <2>4 DEF Published
<1>3. CASE v = w /\ \E q \in Requests : ReceiveVerify(w, q) /\ worker'[w].req = q
  BY <1>3 DEF ReceiveVerify, db
<1> QED  BY <1>1, <1>2, <1>3, NextCall

LEMMA TokenProvesStep ==
    ASSUME SerialInv, NEW w \in Workers, Acts(w)
    PROVE  TokenProvesRow'
<1> USE DEF SerialInv, LinkInv
<1> SUFFICES ASSUME NEW k \in Keys, NEW m \in issued',
                    details'[k].token # NoToken, m.token = details'[k].token
             PROVE  Published(m.path, m.address) = details'[k].detail
  BY DEF TokenProvesRow
<1>1. OneLinkPerToken'
  BY LinkStep
<1>2. CASE details'[k] = details[k]
  <2>1. PICK n \in issued : n.token = details[k].token
    BY <1>2 DEF PendingTokenUnverified
  <2>2. m = n
    BY <1>1, <1>2, <2>1, HistoryGrows DEF OneLinkPerToken
  <2> QED  BY <1>2, <2>1, <2>2 DEF TokenProvesRow
<1>3. CASE Linked(w, k)
  <2> DEFINE q == Request(w)
  <2>1. PICK n \in issued' :
           n = [token |-> details'[k].token, fp |-> k[1], path |-> k[2], address |-> q.detail]
    BY <1>3 DEF Linked
  <2>2. n.token = details'[k].token /\ n.path = k[2] /\ n.address = q.detail
    BY <2>1
  <2>3. m = n
    BY <1>1, <2>2 DEF OneLinkPerToken
  <2>4. k[2] = q.path /\ details'[k].detail = details[k].detail
    BY <1>3 DEF Linked, Key, KeepsProof
  <2>5. details[k].detail = Published(q.path, q.detail)
    BY <1>3 DEF Linked, SetToken, LinkTargetIsCurrent
  <2> QED  BY <2>2, <2>3, <2>4, <2>5
<1>4. CASE Stored(w, k) \/ Revoked(w, k) \/ Verified(w, k)
  BY <1>4 DEF Stored, NewRow, Revoked, Verified
<1> QED  BY <1>2, <1>3, <1>4, RowChanges

LEMMA MarkProvesStep ==
    ASSUME SerialInv, OnePerIdentity', NEW w \in Workers, Acts(w)
    PROVE  MarkProvesRow'
<1> USE DEF SerialInv, LinkInv
<1> SUFFICES ASSUME NEW v \in Workers, worker'[v].pc = "markVerified"
             PROVE  LET q == worker'[v].req
                    IN  \E m \in confirmed' :
                           /\ m.fp = q.fp
                           /\ m.path = q.path
                           /\ Published(m.path, m.address) = details'[Key(q)].detail
  BY DEF MarkProvesRow, At, Request
<1>1. CASE v # w
  <2>1. /\ worker'[v] = worker[v]
        /\ \A p \in Paths : details'[<<Request(v).fp, p>>] = details[<<Request(v).fp, p>>]
    BY <1>1, OthersKeep
  <2>2. Request(v).path \in Paths
    BY <2>1, JobKinds DEF TypeOK, At, ConfirmRequest
  <2>3. details'[Key(Request(v))] = details[Key(Request(v))]
    BY <2>1, <2>2 DEF Key
  <2>4. PICK m \in confirmed :
           /\ m.fp = Request(v).fp
           /\ m.path = Request(v).path
           /\ Published(m.path, m.address) = details[Key(Request(v))].detail
    BY <2>1 DEF MarkProvesRow, At, Request
  <2> QED  BY <2>1, <2>3, <2>4, HistoryGrows DEF Request
<1>2. CASE v = w
  <2>1. PICK m \in issued, k \in Keys :
           /\ ReceiveConfirm(w, m)
           /\ details[k].token = m.token
           /\ worker'[w].req.fp = k[1]
           /\ worker'[w].req.path = k[2]
    BY <1>2, NextCall
  <2>2. details[k].token # NoToken
    BY <2>1, TokensAssumption DEF TypeOK, Link
  <2>3. m.fp = k[1] /\ m.path = k[2]
    BY <2>1, <2>2 DEF PendingTokenUnverified, OneLinkPerToken
  <2>4. Published(m.path, m.address) = details[k].detail
    BY <2>1, <2>2 DEF TokenProvesRow
  <2>5. m \in confirmed' /\ details' = details
    BY <2>1 DEF ReceiveConfirm, db
  <2>6. Key(worker'[w].req) = k
    BY <2>1 DEF Key, Keys
  <2> QED  BY <1>2, <2>1, <2>3, <2>4, <2>5, <2>6
<1> QED  BY <1>1, <1>2

LEMMA VerifiedProvedStep ==
    ASSUME SerialInv, NEW w \in Workers, Acts(w)
    PROVE  VerifiedMeansProved'
<1> USE DEF SerialInv, LinkInv
<1> SUFFICES ASSUME NEW k \in Keys, details'[k].verified
             PROVE  \E m \in confirmed' :
                       /\ m.fp = k[1] /\ m.path = k[2]
                       /\ Published(m.path, m.address) = details'[k].detail
  BY DEF VerifiedMeansProved
<1>1. CASE details'[k] = details[k]
  BY <1>1, HistoryGrows DEF VerifiedMeansProved
<1>2. CASE Verified(w, k)
  <2>1. PICK m \in confirmed :
           /\ m.fp = Request(w).fp
           /\ m.path = Request(w).path
           /\ Published(m.path, m.address) = details[Key(Request(w))].detail
    BY <1>2 DEF Verified, MarkVerified, MarkProvesRow
  <2>2. k = Key(Request(w)) /\ details'[k].detail = details[k].detail
    BY <1>2 DEF Verified, KeepsProof
  <2>3. k[1] = Request(w).fp /\ k[2] = Request(w).path
    BY <2>2 DEF Key
  <2> QED  BY <2>1, <2>2, <2>3, HistoryGrows
<1>3. CASE Stored(w, k) \/ Revoked(w, k) \/ Linked(w, k)
  BY <1>3 DEF Stored, NewRow, Revoked, Linked
<1> QED  BY <1>1, <1>2, <1>3, RowChanges

----------------------------------------------------------------------------
(* The invariant, and what it implies. *)

LEMMA SerialInvNext == SerialInv /\ [SerialNext]_vars => SerialInv'
<1> SUFFICES ASSUME SerialInv, [SerialNext]_vars PROVE SerialInv'
  OBVIOUS
<1>1. TypeOK'
  BY NextTypeOK DEF SerialInv, LinkInv, SerialNext
<1>2. CASE UNCHANGED vars
  BY <1>1, <1>2
     DEF vars, SerialInv, LinkInv, OneLinkPerToken, PendingTokenUnverified,
         MarkIsConfirmed, VerifiedWasConfirmed, OnePerIdentity, ReadIsCurrent, NonceIsNew,
         RevocationIsNew, DistinctNonces, RetiredBelow, LinkTargetIsCurrent,
         TokenProvesRow, MarkProvesRow, VerifiedMeansProved, At, Request, IsNewNonce,
         RevocationNonceOk
<1>3. CASE SerialNext
  <2>1. PICK w \in Workers : Acts(w)
    BY <1>3 DEF SerialNext, Next, Acts
  <2>2. OnePerIdentity'
    BY <1>3 DEF SerialNext
  <2>3. LinkInv'
    BY <1>1, <2>1, LinkStep DEF SerialInv, LinkInv
  <2>4. ReadIsCurrent' /\ NonceIsNew' /\ RevocationIsNew'
    BY <2>1, <2>2, StepOfWorker
  <2>5. DistinctNonces' /\ RetiredBelow'
    BY <2>1, DistinctStep, RetiredStep
  <2>6. LinkTargetIsCurrent' /\ TokenProvesRow' /\ MarkProvesRow' /\ VerifiedMeansProved'
    BY <2>1, <2>2, LinkTargetStep, TokenProvesStep, MarkProvesStep, VerifiedProvedStep
  <2> QED  BY <2>2, <2>3, <2>4, <2>5, <2>6 DEF SerialInv
<1> QED  BY <1>2, <1>3

LEMMA SerialInvariant == SerialSpec => []SerialInv
  BY SerialInvInit, SerialInvNext, PTL DEF SerialSpec

\* While the requests of one identity come one at a time, a verified detail holds the
\* address that received the link that was confirmed (verify-email.ts:221-249 and 291-342).
THEOREM SerialVerification == SerialSpec => []VerifiedMeansProved
<1>1. SerialInv => VerifiedMeansProved
  BY DEF SerialInv
<1> QED  BY <1>1, SerialInvariant, PTL

\* While the requests of one identity come one at a time, its published proofs have
\* distinct nonces (ensureNewNonce).
THEOREM SerialDistinctNonces == SerialSpec => []DistinctNonces
<1>1. SerialInv => DistinctNonces
  BY DEF SerialInv
<1> QED  BY <1>1, SerialInvariant, PTL

\* While the requests of one identity come one at a time, a proof that was revoked is
\* never active again, however often the owner's old request arrives (ensureNewNonce).
THEOREM SerialReplayProtection == SerialSpec => []RetiredProofStaysRetired
<1>1. SerialInv => RetiredProofStaysRetired
  <2> SUFFICES ASSUME SerialInv, NEW k \in Keys, details[k].state = "active",
                      ProofOf(k) \in retired
               PROVE  FALSE
    BY DEF RetiredProofStaysRetired
  <2> DEFINE r == ProofOf(k)
  <2>1. <<r.fp, r.path>> = k /\ r.nonce = details[k].nonce
    BY DEF ProofOf, Keys
  <2>2. details[k].nonce \in Int
    BY NonceTypes DEF SerialInv, LinkInv
  <2>3. details[k].nonce > r.nonce
    BY <2>1 DEF SerialInv, RetiredBelow
  <2> QED  BY <2>1, <2>2, <2>3
<1> QED  BY <1>1, SerialInvariant, PTL

\* While the requests of one identity come one at a time, an active detail is replaced
\* only after it was revoked (handlers/identity.ts:326-351).
THEOREM SerialReplacement == SerialSpec => ReplacedOnlyAfterRevocation
<1>1. SerialInv /\ [SerialNext]_vars =>
         [\A k \in Keys :
             /\ details[k].state = "active"
             /\ details'[k].state = "active"
             => /\ details'[k].detail = details[k].detail
                /\ details'[k].nonce = details[k].nonce]_vars
  <2> SUFFICES ASSUME SerialInv, SerialNext, NEW k \in Keys,
                      details[k].state = "active", details'[k].state = "active"
               PROVE  /\ details'[k].detail = details[k].detail
                      /\ details'[k].nonce = details[k].nonce
    OBVIOUS
  <2>1. PICK w \in Workers : Acts(w)
    BY DEF SerialNext, Next, Acts
  <2>2. CASE Stored(w, k)
    BY <2>2, StoredIsNew DEF Stored
  <2>3. CASE ~Stored(w, k)
    BY <2>1, <2>3, RowChanges DEF SerialInv, LinkInv, Linked, Revoked, Verified, KeepsProof
  <2> QED  BY <2>2, <2>3
<1> QED  BY <1>1, SerialInvariant, PTL DEF SerialSpec, ReplacedOnlyAfterRevocation

\* While the requests of one identity come one at a time, a regular revocation that is
\* recorded has a nonce above all regular ones recorded before it (handlers/revocation.ts:90-94).
THEOREM SerialRevocationOrder == SerialSpec => RevocationNoncesIncrease
<1>1. SerialInv /\ [SerialNext]_vars =>
         [\A c \in revocations' \ revocations : ~IsEmergencyNonce(c.nonce) =>
             \A d \in revocations :
                d.fp = c.fp /\ ~IsEmergencyNonce(d.nonce) => d.nonce < c.nonce]_vars
  <2> SUFFICES ASSUME SerialInv, SerialNext,
                      NEW c \in revocations' \ revocations, ~IsEmergencyNonce(c.nonce),
                      NEW d \in revocations, d.fp = c.fp, ~IsEmergencyNonce(d.nonce)
               PROVE  d.nonce < c.nonce
    BY DEF IsEmergencyNonce
  <2>1. PICK w \in Workers : Acts(w)
    BY DEF SerialNext, Next, Acts
  <2> DEFINE q == Request(w)
  <2>2. InsertRevocation(w) /\ c = Certificate(q)
    BY <2>1, RevocationsChange
  <2>3. c.fp = q.fp /\ c.nonce = q.nonce
    BY <2>2 DEF Certificate
  <2>4. RevocationNonceOk(q)
    BY <2>2 DEF SerialInv, RevocationIsNew, InsertRevocation
  <2>5. q.nonce \in Nat
    BY <2>2, JobKinds DEF InsertRevocation, SerialInv, LinkInv, TypeOK, RevocationRequest
  <2>6. d.nonce \in Nat
    BY DEF SerialInv, LinkInv, TypeOK, DatabaseTypeOK, Revocation
  <2> QED
    BY <2>3, <2>4, <2>5, <2>6, BaseAssumption DEF RevocationNonceOk, IsEmergencyNonce
<1> QED  BY <1>1, SerialInvariant, PTL DEF SerialSpec, RevocationNoncesIncrease

----------------------------------------------------------------------------
(* The refinement of Ledger.  Its invariant: what a handler has found out about the
   identity of its request is still so, and each identity has a highest nonce. *)

Publishing(w) == At(w, "getDetailRecord") \/ At(w, "ensureNewNonce") \/ At(w, "storeDetail")
Revoking(w) == At(w, "checkNonce") \/ At(w, "insertRevocation") \/ At(w, "applyRevocation")

\* What a handler writes next is signed, and meant for what is in the tables.
FindingsHold ==
    \A w \in Workers :
       /\ Publishing(w) => Request(w) \in Requests
       /\ Publishing(w) \/ At(w, "isRevoked") \/ Revoking(w) =>
             identities[Request(w).fp] # "none"
       /\ Revoking(w) => ~AlreadyRevoked(Request(w))
       /\ At(w, "setToken") \/ At(w, "markVerified") =>
             details[Key(Request(w))].state = "active"
       /\ At(w, "setToken") => ~details[Key(Request(w))].verified

HasTop ==
    \A f \in Identities : \E p \in Paths : \A r \in Paths :
       details[<<f, r>>].nonce <= details[<<f, p>>].nonce

LedgerInv == SerialInv /\ FindingsHold /\ HasTop

\* Which step brings a worker to a call that reads, and what that step found.
LEMMA NextRead ==
    ASSUME TypeOK, NEW w \in Workers, Acts(w)
    PROVE  /\ worker'[w].pc = "getDetailRecord" =>
              \E q \in Requests : ReceiveDetail(w, q) /\ worker'[w].req = q
           /\ worker'[w].pc = "isRevoked" =>
              \E q \in Requests : ReceiveRevocation(w, q) /\ worker'[w].req = q
           /\ worker'[w].pc = "checkNonce" =>
              IsRevoked(w) /\ Advances(w, "checkNonce") /\ ~AlreadyRevoked(Request(w))
<1> USE WorkerAfter
<1>1. CASE \E q \in Requests : Receive(w, q)
  BY <1>1 DEF Receive, ReceiveIdentity, ReceiveDetail, ReceiveRevocation, ReceiveVerify
<1>2. CASE \E m \in issued : ReceiveConfirm(w, m)
  <2>1. PICK q : worker' = [worker EXCEPT ![w] = Doing("markVerified", q, "none")]
    BY <1>2 DEF ReceiveConfirm
  <2>2. worker'[w].pc = "markVerified"
    BY <2>1
  <2> QED  BY <2>2
<1>3. CASE InsertIdentity(w) \/ SetToken(w) \/ RevokeIdentity(w) \/ RevokeDetail(w)
           \/ MarkVerified(w) \/ Fail(w)
  BY <1>3 DEF InsertIdentity, SetToken, RevokeIdentity, RevokeDetail, MarkVerified, Fail
<1>4. CASE GetDetailRecord(w)
  BY <1>4 DEF GetDetailRecord
<1>5. CASE EnsureNewNonce(w) \/ StoreDetail(w) \/ CheckNonce(w) \/ InsertRevocation(w)
  BY <1>5 DEF EnsureNewNonce, StoreDetail, CheckNonce, InsertRevocation, At, Advances
<1>6. CASE IsRevoked(w)
  BY <1>6 DEF IsRevoked, At, Advances
<1> QED
  BY <1>1, <1>2, <1>3, <1>4, <1>5, <1>6 DEF Acts, Step

\* The findings of the requests that do not step are kept.
LEMMA FindingsOfOthers ==
    ASSUME TypeOK, OnePerIdentity, OnePerIdentity', FindingsHold, NEW w \in Workers, Acts(w),
           NEW v \in Workers, v # w
    PROVE  /\ Publishing(v)' => Request(v)' \in Requests
           /\ (Publishing(v) \/ At(v, "isRevoked") \/ Revoking(v))' =>
                 (identities[Request(v).fp] # "none")'
           /\ Revoking(v)' => ~AlreadyRevoked(Request(v))'
           /\ (At(v, "setToken") \/ At(v, "markVerified"))' =>
                 (details[Key(Request(v))].state = "active")'
           /\ At(v, "setToken")' => ~(details[Key(Request(v))].verified)'
<1>1. CASE worker'[v].pc = "idle"
  BY <1>1 DEF Publishing, Revoking, At
<1>2. CASE worker'[v].pc # "idle"
  <2>1. /\ worker'[v] = worker[v]
        /\ \A p \in Paths : details'[<<Request(v).fp, p>>] = details[<<Request(v).fp, p>>]
        /\ identities'[Request(v).fp] = identities[Request(v).fp]
    BY <1>2, OthersKeep
  <2>2. At(v, "setToken") \/ At(v, "markVerified") => Request(v).path \in Paths
    BY JobKinds, PathsAssumption DEF TypeOK, DetailRequest, VerifyRequest, ConfirmRequest
  <2>3. Revoking(v) => Request(v).type = "identity" \/ Request(v).target \in Paths
    BY JobKinds DEF Revoking, TypeOK, RevocationRequest
  <2>4. \A pc : At(v, pc)' <=> At(v, pc)
    BY <2>1 DEF At
  <2>5. Request(v)' = Request(v)
    BY <2>1 DEF Request
  <2>6. Revoking(v)' => ~AlreadyRevoked(Request(v))'
    <3> SUFFICES ASSUME Revoking(v)' PROVE ~AlreadyRevoked(Request(v))'
      OBVIOUS
    <3>1. Revoking(v) /\ ~AlreadyRevoked(Request(v))
      BY <2>4 DEF Revoking, FindingsHold
    <3>2. CASE Request(v).type = "identity"
      BY <2>1, <2>5, <3>1, <3>2 DEF AlreadyRevoked
    <3>3. CASE Request(v).type # "identity"
      BY <2>1, <2>3, <2>5, <3>1, <3>3 DEF AlreadyRevoked
    <3> QED  BY <3>2, <3>3
  <2>7. At(v, "setToken") \/ At(v, "markVerified") =>
           details'[Key(Request(v))] = details[Key(Request(v))]
    BY <2>1, <2>2 DEF Key
  <2>8. Publishing(v)' <=> Publishing(v)
    BY <2>4 DEF Publishing
  <2>9. Revoking(v)' <=> Revoking(v)
    BY <2>4 DEF Revoking
  <2> QED  BY <2>1, <2>4, <2>5, <2>6, <2>7, <2>8, <2>9 DEF FindingsHold
<1> QED  BY <1>1, <1>2

\* What the stepping request found, or found before and has not lost.
LEMMA FindingsOfWorker ==
    ASSUME SerialInv, FindingsHold, NEW w \in Workers, Acts(w)
    PROVE  /\ Publishing(w)' => Request(w)' \in Requests
           /\ (Publishing(w) \/ At(w, "isRevoked") \/ Revoking(w))' =>
                 (identities[Request(w).fp] # "none")'
           /\ Revoking(w)' => ~AlreadyRevoked(Request(w))'
           /\ (At(w, "setToken") \/ At(w, "markVerified"))' =>
                 (details[Key(Request(w))].state = "active")'
           /\ At(w, "setToken")' => ~(details[Key(Request(w))].verified)'
<1> USE DEF SerialInv, LinkInv, At, Request
<1>1. CASE worker'[w].pc = "getDetailRecord"
  BY <1>1, NextRead DEF ReceiveDetail, db, Publishing, Revoking
<1>2. CASE worker'[w].pc = "ensureNewNonce"
  BY <1>2, NextCall DEF GetDetailRecord, db, Publishing, Revoking, FindingsHold
<1>3. CASE worker'[w].pc = "storeDetail"
  BY <1>3, NextCall DEF EnsureNewNonce, Advances, db, Publishing, Revoking, FindingsHold
<1>4. CASE worker'[w].pc = "isRevoked"
  BY <1>4, NextRead DEF ReceiveRevocation, db, Publishing, Revoking
<1>5. CASE worker'[w].pc = "checkNonce"
  <2>1. IsRevoked(w) /\ Advances(w, "checkNonce") /\ ~AlreadyRevoked(Request(w))
    BY <1>5, NextRead
  <2>2. /\ identities' = identities /\ details' = details /\ worker'[w].req = worker[w].req
        /\ identities[Request(w).fp] # "none"
    BY <2>1 DEF IsRevoked, Advances, db, FindingsHold
  <2> QED  BY <1>5, <2>1, <2>2 DEF AlreadyRevoked, Publishing, Revoking
<1>6. CASE worker'[w].pc = "insertRevocation"
  <2>1. CheckNonce(w) /\ Advances(w, "insertRevocation")
    BY <1>6, NextCall
  <2>2. /\ identities' = identities /\ details' = details /\ worker'[w].req = worker[w].req
        /\ Revoking(w)
    BY <2>1 DEF CheckNonce, Advances, db, Revoking
  <2> QED  BY <1>6, <2>2 DEF FindingsHold, AlreadyRevoked, Publishing, Revoking
<1>7. CASE worker'[w].pc = "applyRevocation"
  <2>1. InsertRevocation(w) /\ Advances(w, "applyRevocation")
    BY <1>7, NextCall
  <2>2. /\ identities' = identities /\ details' = details /\ worker'[w].req = worker[w].req
        /\ Revoking(w)
    BY <2>1 DEF InsertRevocation, Advances, Revoking
  <2> QED  BY <1>7, <2>2 DEF FindingsHold, AlreadyRevoked, Publishing, Revoking
<1>8. CASE worker'[w].pc = "setToken"
  <2>1. CASE StoreDetail(w) /\ Advances(w, "setToken")
    <3>1. Key(Request(w)) \in Keys
      BY <2>1, NonceTypes DEF StoreDetail
    <3>2. details'[Key(Request(w))] = NewRow(Request(w))
      BY <2>1, <3>1, StoredIsNew DEF TypeOK, DatabaseTypeOK
    <3>3. details'[Key(Request(w))].state = "active" /\ ~details'[Key(Request(w))].verified
      BY <3>2 DEF NewRow
    <3> QED  BY <1>8, <2>1, <3>3 DEF Advances, Publishing, Revoking
  <2>2. CASE \E q \in Requests : ReceiveVerify(w, q) /\ worker'[w].req = q
    BY <1>8, <2>2 DEF ReceiveVerify, db, Publishing, Revoking
  <2> QED  BY <1>8, <2>1, <2>2, NextCall
<1>9. CASE worker'[w].pc = "markVerified"
  <2>1. PICK m \in issued, k \in Keys :
           /\ ReceiveConfirm(w, m)
           /\ details[k].state = "active"
           /\ worker'[w].req.fp = k[1]
           /\ worker'[w].req.path = k[2]
    BY <1>9, NextCall
  <2>2. details' = details /\ Key(worker'[w].req) = k
    BY <2>1 DEF ReceiveConfirm, db, Key, Keys
  <2> QED  BY <1>9, <2>1, <2>2 DEF Publishing, Revoking
<1> QED
  BY <1>1, <1>2, <1>3, <1>4, <1>5, <1>6, <1>7, <1>8, <1>9 DEF Publishing, Revoking

LEMMA PathsNotEmpty == "email" \in Paths
  BY PathsAssumption DEF VerifyEmailPaths

\* No step but a publication changes a nonce; a publication's is above all others.
LEMMA TopStep ==
    ASSUME SerialInv, HasTop, NEW w \in Workers, Acts(w), NEW f \in Identities
    PROVE  \/ /\ ~StoreDetail(w) \/ Request(w).fp # f
              /\ \A p \in Paths : details'[<<f, p>>].nonce = details[<<f, p>>].nonce
           \/ /\ StoreDetail(w) /\ Request(w).fp = f
              /\ Request(w).path \in Paths /\ Request(w).nonce \in Nat
              /\ details'[<<f, Request(w).path>>].nonce = Request(w).nonce
              /\ \A p \in Paths : /\ details[<<f, p>>].nonce < Request(w).nonce
                                  /\ details'[<<f, p>>].nonce <= Request(w).nonce
<1> USE DEF SerialInv, LinkInv
<1> DEFINE q == Request(w)
<1>1. \A p \in Paths : <<f, p>> \in Keys
  BY DEF Keys
<1>2. CASE ~StoreDetail(w)
  BY <1>1, <1>2, ProofsKept
<1>3. CASE StoreDetail(w)
  <2>1. q.nonce \in Nat /\ Key(q) \in Keys /\ q.path \in Paths
    BY <1>3, NonceTypes DEF StoreDetail, Key, Keys
  <2>2. \A k \in Keys : details'[k] = IF k = Key(q) THEN NewRow(q) ELSE details[k]
    BY <1>3, <2>1, StoredIsNew DEF TypeOK, DatabaseTypeOK
  <2>3. NewRow(q).nonce = q.nonce
    BY DEF NewRow
  <2>4. CASE q.fp # f
    BY <1>1, <2>2, <2>4 DEF Key
  <2>5. CASE q.fp = f
    <3>1. details'[<<f, q.path>>].nonce = q.nonce
      BY <1>1, <2>1, <2>2, <2>3, <2>5 DEF Key
    <3>2. ASSUME NEW p \in Paths
          PROVE  details[<<f, p>>].nonce < q.nonce
      <4>1. CASE details[<<f, p>>].state = "none"
        <5>1. details[<<f, p>>] = NoRow
          BY <1>1, <4>1 DEF TypeOK, DatabaseTypeOK, Row
        <5> QED  BY <2>1, <5>1 DEF NoRow
      <4>2. CASE details[<<f, p>>].state # "none"
        <5>1. q.nonce > details[<<f, p>>].nonce
          BY <1>3, <2>5, <4>2, StoredIsNew DEF IsNewNonce
        <5>2. details[<<f, p>>].nonce \in Int
          BY <1>1, NonceTypes
        <5> QED  BY <2>1, <5>1, <5>2
      <4> QED  BY <4>1, <4>2
    <3>3. ASSUME NEW p \in Paths
          PROVE  details'[<<f, p>>].nonce <= q.nonce
      <4>1. details[<<f, p>>].nonce \in Int
        BY <1>1, NonceTypes
      <4>2. details'[<<f, p>>].nonce = q.nonce
            \/ details'[<<f, p>>].nonce = details[<<f, p>>].nonce
        BY <1>1, <2>2, <2>3
      <4> QED  BY <2>1, <3>2, <4>1, <4>2
    <3> QED  BY <1>3, <2>1, <2>5, <3>1, <3>2, <3>3
  <2> QED  BY <2>4, <2>5
<1> QED  BY <1>2, <1>3

LEMMA LedgerInvNext == LedgerInv /\ [SerialNext]_vars => LedgerInv'
<1> SUFFICES ASSUME LedgerInv, [SerialNext]_vars PROVE LedgerInv'
  OBVIOUS
<1>1. SerialInv'
  BY SerialInvNext DEF LedgerInv
<1>2. CASE UNCHANGED vars
  BY <1>1, <1>2 DEF vars, LedgerInv, FindingsHold, HasTop, Publishing, Revoking,
                    AlreadyRevoked, At, Request
<1>3. CASE SerialNext
  <2>1. PICK w \in Workers : Acts(w)
    BY <1>3 DEF SerialNext, Next, Acts
  <2>2. TypeOK /\ OnePerIdentity /\ OnePerIdentity' /\ FindingsHold /\ HasTop /\ SerialInv
    BY <1>3 DEF SerialNext, LedgerInv, SerialInv, LinkInv
  <2>3. FindingsHold'
    <3> SUFFICES ASSUME NEW v \in Workers
                 PROVE  /\ Publishing(v)' => Request(v)' \in Requests
                        /\ (Publishing(v) \/ At(v, "isRevoked") \/ Revoking(v))' =>
                              (identities[Request(v).fp] # "none")'
                        /\ Revoking(v)' => ~AlreadyRevoked(Request(v))'
                        /\ (At(v, "setToken") \/ At(v, "markVerified"))' =>
                              (details[Key(Request(v))].state = "active")'
                        /\ At(v, "setToken")' => ~(details[Key(Request(v))].verified)'
      BY DEF FindingsHold
    <3>1. CASE v = w
      BY <2>1, <2>2, <3>1, FindingsOfWorker
    <3>2. CASE v # w
      BY <2>1, <2>2, <3>2, FindingsOfOthers
    <3> QED  BY <3>1, <3>2
  <2>4. HasTop'
    <3> SUFFICES ASSUME NEW f \in Identities
                 PROVE  \E p \in Paths : \A r \in Paths :
                           details'[<<f, r>>].nonce <= details'[<<f, p>>].nonce
      BY DEF HasTop
    <3> QED  BY <2>1, <2>2, TopStep DEF HasTop
  <2> QED  BY <1>1, <2>3, <2>4 DEF LedgerInv
<1> QED  BY <1>2, <1>3

LEMMA LedgerInvariant == SerialSpec => []LedgerInv
<1>1. Init => LedgerInv
  <2> SUFFICES ASSUME Init PROVE LedgerInv
    OBVIOUS
  <2>1. SerialInv
    BY SerialInvInit
  <2>2. \A w \in Workers : worker[w].pc = "idle"
    BY DEF Init, Idle
  <2>3. FindingsHold
    BY <2>2 DEF FindingsHold, Publishing, Revoking, At
  <2>4. \A f \in Identities, p \in Paths : details[<<f, p>>].nonce = -1
    BY DEF Init, NoRow, Keys
  <2>5. HasTop
    <3>1. \A f \in Identities, p, r \in Paths :
             details[<<f, r>>].nonce <= details[<<f, p>>].nonce
      BY <2>4
    <3> QED  BY <3>1, PathsNotEmpty DEF HasTop
  <2> QED  BY <2>1, <2>3, <2>5 DEF LedgerInv
<1> QED  BY <1>1, LedgerInvNext, PTL DEF SerialSpec

\* A maximum is the one that CHOOSE finds.
LEMMA TheMaximum ==
    ASSUME NEW table, NEW f, NEW p \in Paths,
           \A r \in Paths : table[<<f, r>>].nonce \in Int,
           \A r \in Paths : table[<<f, r>>].nonce <= table[<<f, p>>].nonce
    PROVE  (CHOOSE n \in {table[<<f, r>>].nonce : r \in Paths} :
               \A r \in Paths : table[<<f, r>>].nonce <= n) = table[<<f, p>>].nonce
<1> DEFINE S == {table[<<f, r>>].nonce : r \in Paths}
           IsTop(n) == \A r \in Paths : table[<<f, r>>].nonce <= n
           top == CHOOSE n \in S : IsTop(n)
<1>1. table[<<f, p>>].nonce \in S /\ IsTop(table[<<f, p>>].nonce)
  OBVIOUS
<1>2. top \in S /\ IsTop(top)
  BY <1>1
<1>3. PICK r \in Paths : top = table[<<f, r>>].nonce
  BY <1>2
<1>4. top \in Int /\ table[<<f, p>>].nonce \in Int
  BY <1>3
<1>5. top <= table[<<f, p>>].nonce /\ table[<<f, p>>].nonce <= top
  BY <1>2, <1>3
<1>6. top = table[<<f, p>>].nonce
  BY <1>4, <1>5
<1> QED  BY <1>6

----------------------------------------------------------------------------
(* Every step is one of Ledger's, or leaves it as it is. *)

LEMMA IntNonces ==
    ASSUME TypeOK, NEW f \in Identities, NEW p \in Paths
    PROVE  details[<<f, p>>].nonce \in Int
<1>1. <<f, p>> \in Keys
  BY DEF Keys
<1> QED  BY <1>1, NonceTypes

LEMMA InitLedger == Init => Promise!Init
<1> SUFFICES ASSUME Init PROVE Promise!Init
  OBVIOUS
<1>1. \A k \in Keys : Entry(details[k]) = Promise!Nothing
  BY DEF Init, NoRow, NoDetail, Entry, Promise!Nothing
<1>2. \A f \in Identities, p \in Paths : details[<<f, p>>].nonce = -1
  BY DEF Init, NoRow, Keys
<1>3. ASSUME NEW f \in Identities
      PROVE  HighestNonce(f) = -1
  <2>1. \A r \in Paths : details[<<f, r>>].nonce \in Int
                         /\ details[<<f, r>>].nonce <= details[<<f, "email">>].nonce
    BY <1>2, PathsNotEmpty
  <2>2. HighestNonce(f) = details[<<f, "email">>].nonce
    BY <2>1, PathsNotEmpty, TheMaximum DEF HighestNonce
  <2> QED  BY <1>2, <2>2, PathsNotEmpty
<1>4. [k \in Keys |-> Entry(details[k])] = [k \in Promise!Keys |-> Promise!Nothing]
  BY <1>1 DEF Keys, Promise!Keys
<1>5. [f \in Identities |-> HighestNonce(f)] = [f \in Identities |-> -1]
  BY <1>3
<1> QED  BY <1>4, <1>5 DEF Init, Promise!Init

\* How the highest nonces change.
LEMMA TopChanges ==
    ASSUME LedgerInv, LedgerInv', NEW w \in Workers, Acts(w), NEW f \in Identities
    PROVE  IF StoreDetail(w) /\ Request(w).fp = f
           THEN HighestNonce(f)' = Request(w).nonce /\ HighestNonce(f) < Request(w).nonce
           ELSE HighestNonce(f)' = HighestNonce(f)
<1> USE DEF LedgerInv, SerialInv, LinkInv
<1>1. PICK p \in Paths : \A r \in Paths : details[<<f, r>>].nonce <= details[<<f, p>>].nonce
  BY DEF HasTop
<1>2. \A r \in Paths : details[<<f, r>>].nonce \in Int
  BY IntNonces
<1>3. HighestNonce(f) = details[<<f, p>>].nonce
  BY <1>1, <1>2, TheMaximum DEF HighestNonce
<1>4. CASE ~(StoreDetail(w) /\ Request(w).fp = f)
  <2>1. \A r \in Paths : details'[<<f, r>>].nonce = details[<<f, r>>].nonce
    BY <1>4, TopStep
  <2>2. HighestNonce(f)' = details'[<<f, p>>].nonce
    BY <1>1, <1>2, <2>1, TheMaximum DEF HighestNonce
  <2> QED  BY <1>3, <1>4, <2>1, <2>2
<1>5. CASE StoreDetail(w) /\ Request(w).fp = f
  <2> DEFINE q == Request(w)
  <2>1. /\ q.path \in Paths /\ q.nonce \in Nat
        /\ details'[<<f, q.path>>].nonce = q.nonce
        /\ \A r \in Paths : /\ details[<<f, r>>].nonce < q.nonce
                            /\ details'[<<f, r>>].nonce <= q.nonce
    BY <1>5, TopStep
  <2>2. \A r \in Paths : details'[<<f, r>>].nonce \in Int
    <3> SUFFICES ASSUME NEW r \in Paths PROVE details'[<<f, r>>].nonce \in Int
      OBVIOUS
    <3>1. <<f, r>> \in Keys
      BY DEF Keys
    <3>2. details'[<<f, r>>] \in Row \union {NoRow}
      BY <3>1 DEF TypeOK, DatabaseTypeOK
    <3> QED  BY <3>2 DEF Row, NoRow
  <2>3. HighestNonce(f)' = details'[<<f, q.path>>].nonce
    BY <2>1, <2>2, TheMaximum DEF HighestNonce
  <2> QED  BY <1>3, <1>5, <2>1, <2>3
<1> QED  BY <1>4, <1>5

\* The abstract variables.
Entries == [k \in Keys |-> Entry(details[k])]
Tops == [f \in Identities |-> HighestNonce(f)]

LEMMA TopsKept ==
    ASSUME LedgerInv, LedgerInv', NEW w \in Workers, Acts(w), ~StoreDetail(w)
    PROVE  Tops' = Tops
  BY TopChanges DEF Tops

LEMMA StoreDetailPublishes ==
    ASSUME LedgerInv, LedgerInv', NEW w \in Workers, StoreDetail(w)
    PROVE  Promise!Next
<1> DEFINE q == Request(w)
           d == [fp |-> q.fp, path |-> q.path, detail |-> q.detail, nonce |-> q.nonce]
           k == <<q.fp, q.path>>
<1> USE DEF LedgerInv, SerialInv, LinkInv
<1>1. Acts(w)
  BY DEF Acts, Step
<1>2. q \in DetailRequest /\ q \in Requests /\ identities[q.fp] # "none"
  BY JobKinds DEF TypeOK, StoreDetail, FindingsHold, Publishing
<1>3. q.op = "PostDetail" /\ q.fp \in Identities /\ k \in Keys /\ Key(q) = k
  BY <1>2 DEF DetailRequest, Keys, Key
<1>4. d \in Signed
  BY <1>2, <1>3 DEF Signed
<1>5. /\ details' = [details EXCEPT ![k] = NewRow(q)]
      /\ details[k].state # "active"
  BY <1>3, StoredIsNew
<1>6. Entries' = [Entries EXCEPT ![k] = [state |-> "active", detail |-> d.detail,
                                         nonce |-> d.nonce, verified |-> FALSE]]
  <2>1. Entry(NewRow(q)) = [state |-> "active", detail |-> d.detail,
                            nonce |-> d.nonce, verified |-> FALSE]
    BY DEF Entry, NewRow
  <2>2. \A j \in Keys : details'[j] = IF j = k THEN NewRow(q) ELSE details[j]
    BY <1>3, <1>5 DEF TypeOK, DatabaseTypeOK
  <2> QED  BY <1>3, <2>1, <2>2 DEF Entries
<1>7. Entries[k].state # "active"
  BY <1>3, <1>5 DEF Entries, Entry
<1>8. Tops' = [Tops EXCEPT ![d.fp] = d.nonce] /\ Tops[d.fp] < d.nonce
  BY <1>1, <1>3, TopChanges DEF Tops
<1>9. Tops[d.fp] \in Int /\ d.nonce \in Int
  <2>1. PICK p \in Paths : \A r \in Paths :
           details[<<q.fp, r>>].nonce <= details[<<q.fp, p>>].nonce
    BY <1>3 DEF HasTop
  <2>2. HighestNonce(q.fp) = details[<<q.fp, p>>].nonce
    BY <1>3, <2>1, IntNonces, TheMaximum DEF HighestNonce
  <2> QED  BY <1>2, <1>3, <2>2, IntNonces DEF Tops, DetailRequest
<1>10. identities' = identities
  BY DEF StoreDetail
<1>11. Promise!Publish(d)
  BY <1>2, <1>6, <1>7, <1>8, <1>9, <1>10 DEF Promise!Publish, Entries, Tops
<1> QED  BY <1>4, <1>11 DEF Promise!Next

\* An update of one row that keeps its proof.
LEMMA EntriesAfter ==
    ASSUME TypeOK, NEW k \in Keys, NEW row, details' = [details EXCEPT ![k] = row]
    PROVE  Entries' = [Entries EXCEPT ![k] = Entry(row)]
<1>1. \A j \in Keys : details'[j] = IF j = k THEN row ELSE details[j]
  BY DEF TypeOK, DatabaseTypeOK
<1> QED  BY <1>1 DEF Entries, Entry

LEMMA SetTokenKeeps ==
    ASSUME LedgerInv, NEW w \in Workers, SetToken(w)
    PROVE  Entries' = Entries
<1> USE DEF LedgerInv, SerialInv, LinkInv
<1> DEFINE k == Key(Request(w))
<1>1. details[k].state = "active" /\ ~details[k].verified
  BY DEF FindingsHold, SetToken
<1>2. k \in Keys
  BY JobKinds, PathsAssumption DEF SetToken, TypeOK, DetailRequest, VerifyRequest, Key, Keys
<1>3. details[k] \in Row
  BY <1>1, <1>2 DEF TypeOK, DatabaseTypeOK, NoRow
<1>4. PICK t : details' = [details EXCEPT ![k] =
                             [details[k] EXCEPT !.verified = FALSE, !.token = t]]
  BY <1>1 DEF SetToken
<1>5. Entry([details[k] EXCEPT !.verified = FALSE, !.token = t]) = Entry(details[k])
  BY <1>1, <1>3 DEF Entry, Row
<1> QED  BY <1>2, <1>4, <1>5, EntriesAfter DEF Entries

LEMMA MarkVerifiedEndorses ==
    ASSUME LedgerInv, LedgerInv', NEW w \in Workers, MarkVerified(w)
    PROVE  Promise!Next
<1> USE DEF LedgerInv, SerialInv, LinkInv
<1> DEFINE f == Request(w).fp
           p == Request(w).path
           k == <<f, p>>
<1>1. details[k].state = "active"
  BY DEF FindingsHold, MarkVerified, Key
<1>2. f \in Identities /\ p \in Paths /\ k \in Keys
  BY JobKinds DEF MarkVerified, TypeOK, ConfirmRequest, Keys
<1>3. details[k] \in Row
  BY <1>1, <1>2 DEF TypeOK, DatabaseTypeOK, NoRow
<1>4. details' = [details EXCEPT ![k] =
                    [details[k] EXCEPT !.verified = TRUE, !.token = NoToken]]
  BY <1>1 DEF MarkVerified, Key
<1>5. Entry([details[k] EXCEPT !.verified = TRUE, !.token = NoToken]) =
      [Entry(details[k]) EXCEPT !.verified = TRUE]
  <2> DEFINE row == [details[k] EXCEPT !.verified = TRUE, !.token = NoToken]
  <2>1. /\ row.state = details[k].state /\ row.detail = details[k].detail
        /\ row.nonce = details[k].nonce /\ row.verified = TRUE
    BY <1>3 DEF Row
  <2> HIDE DEF row
  <2>2. Entry(row) = [state |-> details[k].state, detail |-> details[k].detail,
                      nonce |-> details[k].nonce, verified |-> TRUE]
    BY <2>1, Zenon DEF Entry
  <2>3. [Entry(details[k]) EXCEPT !.verified = TRUE] =
           [state |-> details[k].state, detail |-> details[k].detail,
            nonce |-> details[k].nonce, verified |-> TRUE]
    <3> DEFINE new == TRUE
    <3> HIDE DEF new
    <3>1. [Entry(details[k]) EXCEPT !.verified = new] =
             [state |-> details[k].state, detail |-> details[k].detail,
              nonce |-> details[k].nonce, verified |-> new]
      BY DEF Entry
    <3> QED  BY <3>1 DEF new
  <2> QED  BY <2>2, <2>3 DEF row
<1>6. Entries' = [Entries EXCEPT ![k].verified = TRUE] /\ Entries[k].state = "active"
  <2>1. Entries[k] = Entry(details[k]) /\ Entry(details[k]).state = "active"
    BY <1>1, <1>2 DEF Entries, Entry
  <2>2. Entries' = [Entries EXCEPT ![k] = [Entry(details[k]) EXCEPT !.verified = TRUE]]
    BY <1>2, <1>4, <1>5, EntriesAfter
  <2> QED  BY <2>1, <2>2
<1>7. identities' = identities
  BY DEF MarkVerified
<1>8. Tops' = Tops
  BY TopsKept DEF Acts, Step, MarkVerified, StoreDetail, At
<1>9. Promise!Endorse(f, p)
  BY <1>6, <1>7, <1>8 DEF Promise!Endorse, Entries, Tops
<1> QED  BY <1>2, <1>9 DEF Promise!Next

LEMMA RevokeDetailWithdraws ==
    ASSUME LedgerInv, LedgerInv', NEW w \in Workers, RevokeDetail(w)
    PROVE  Promise!Next \/ (details' = details /\ identities' = identities)
<1> USE DEF LedgerInv, SerialInv, LinkInv
<1> DEFINE f == Request(w).fp
           p == Request(w).target
           k == <<f, p>>
<1>1. CASE details[k].state = "none"
  BY <1>1 DEF RevokeDetail
<1>2. CASE details[k].state # "none"
  <2>1. f \in Identities /\ p \in Paths /\ k \in Keys
    BY JobKinds DEF RevokeDetail, TypeOK, RevocationRequest, Keys
  <2>2. details[k].state # "revoked"
    BY DEF RevokeDetail, FindingsHold, Revoking, AlreadyRevoked
  <2>3. details[k] \in Row /\ details[k].state = "active"
    BY <1>2, <2>1, <2>2 DEF TypeOK, DatabaseTypeOK, NoRow, Row
  <2>4. details' = [details EXCEPT ![k] =
           [details[k] EXCEPT !.state = "revoked", !.verified = FALSE, !.token = NoToken]]
    BY <1>2 DEF RevokeDetail
  <2>5. Entry([details[k] EXCEPT !.state = "revoked", !.verified = FALSE,
                                 !.token = NoToken]) =
        [Entry(details[k]) EXCEPT !.state = "revoked", !.verified = FALSE]
    <3> DEFINE row == [details[k] EXCEPT !.state = "revoked", !.verified = FALSE,
                                         !.token = NoToken]
    <3>1. /\ row.state = "revoked" /\ row.detail = details[k].detail
          /\ row.nonce = details[k].nonce /\ row.verified = FALSE
      BY <2>3 DEF Row
    <3> HIDE DEF row
    <3>2. Entry(row) = [state |-> "revoked", detail |-> details[k].detail,
                        nonce |-> details[k].nonce, verified |-> FALSE]
      BY <3>1, Zenon DEF Entry
    <3>3. [Entry(details[k]) EXCEPT !.state = "revoked", !.verified = FALSE] =
             [state |-> "revoked", detail |-> details[k].detail,
              nonce |-> details[k].nonce, verified |-> FALSE]
      <4> DEFINE new == FALSE
                 old == details[k]
                 gone == [state |-> "revoked", detail |-> old.detail,
                          nonce |-> old.nonce, verified |-> old.verified]
      <4> HIDE DEF new, old
      <4>1. [Entry(old) EXCEPT !.state = "revoked"] = gone
        BY DEF Entry
      <4>2. [gone EXCEPT !.verified = new] =
               [state |-> "revoked", detail |-> old.detail, nonce |-> old.nonce,
                verified |-> new]
        OBVIOUS
      <4>3. [Entry(old) EXCEPT !.state = "revoked", !.verified = new] =
               [[Entry(old) EXCEPT !.state = "revoked"] EXCEPT !.verified = new]
        OBVIOUS
      <4> HIDE DEF gone
      <4>4. [Entry(old) EXCEPT !.state = "revoked", !.verified = new] =
               [state |-> "revoked", detail |-> old.detail, nonce |-> old.nonce,
                verified |-> new]
        BY <4>1, <4>2, <4>3
      <4> QED  BY <4>4 DEF new, old
    <3> QED  BY <3>2, <3>3 DEF row
  <2>6. /\ Entries' = [Entries EXCEPT ![k].state = "revoked", ![k].verified = FALSE]
        /\ Entries[k].state = "active"
    <3>1. Entries[k] = Entry(details[k]) /\ Entry(details[k]).state = "active"
      BY <2>1, <2>3 DEF Entries, Entry
    <3>2. Entries' = [Entries EXCEPT ![k] =
                        [Entry(details[k]) EXCEPT !.state = "revoked", !.verified = FALSE]]
      BY <2>1, <2>4, <2>5, EntriesAfter
    <3>3. Entries \in [Keys -> {Entry(details[j]) : j \in Keys}]
      BY DEF Entries
    <3> QED  BY <2>1, <3>1, <3>2, <3>3
  <2>7. identities' = identities
    BY DEF RevokeDetail
  <2>8. Tops' = Tops
    BY TopsKept DEF Acts, Step, RevokeDetail, StoreDetail, At
  <2>9. Promise!Withdraw(f, p)
    BY <2>6, <2>7, <2>8 DEF Promise!Withdraw, Entries, Tops
  <2> QED  BY <2>1, <2>9 DEF Promise!Next
<1> QED  BY <1>1, <1>2

LEMMA IdentityStepsMap ==
    ASSUME LedgerInv, LedgerInv', NEW w \in Workers, InsertIdentity(w) \/ RevokeIdentity(w)
    PROVE  Promise!Next \/ (details' = details /\ identities' = identities)
<1> USE DEF LedgerInv, SerialInv, LinkInv
<1> DEFINE f == Request(w).fp
<1>1. Acts(w) /\ ~StoreDetail(w) /\ details' = details /\ f \in Identities
  BY RequestOfIdentity DEF Acts, Step, InsertIdentity, RevokeIdentity, StoreDetail, At
<1>2. Tops' = Tops /\ Entries' = Entries
  BY <1>1, TopsKept DEF Entries
<1>3. CASE InsertIdentity(w)
  <2>1. CASE identities[f] = "none"
    <3>1. Promise!Register(f)
      BY <1>2, <1>3, <2>1 DEF InsertIdentity, Promise!Register, Entries, Tops
    <3> QED  BY <1>1, <3>1 DEF Promise!Next
  <2>2. CASE identities[f] # "none"
    BY <1>1, <1>3, <2>2 DEF InsertIdentity, TypeOK, DatabaseTypeOK
  <2> QED  BY <2>1, <2>2
<1>4. CASE RevokeIdentity(w)
  <2>1. identities[f] = "active"
    BY <1>1, <1>4 DEF RevokeIdentity, FindingsHold, Revoking, AlreadyRevoked, TypeOK,
                      DatabaseTypeOK
  <2>2. Promise!Revoke(f)
    BY <1>2, <1>4, <2>1 DEF RevokeIdentity, Promise!Revoke, Entries, Tops
  <2> QED  BY <1>1, <2>2 DEF Promise!Next
<1> QED  BY <1>3, <1>4

\* When the requests of one identity come one at a time, the handlers with their
\* queries, failures and restarts do to the registry what Ledger allows in single
\* steps: the highest nonce an identity ever published with can be read off the rows.
THEOREM RegistryImplementsLedger == SerialSpec => ImplementsLedger
<1>1. LedgerInv /\ LedgerInv' /\ [SerialNext]_vars => [Promise!Next]_(Promise!vars)
  <2> SUFFICES ASSUME LedgerInv, LedgerInv', [SerialNext]_vars,
                      ~Promise!Next
               PROVE  UNCHANGED Promise!vars
    OBVIOUS
  <2>1. CASE UNCHANGED vars
    BY <2>1 DEF vars, Promise!vars, HighestNonce
  <2>2. CASE SerialNext
    <3>1. PICK w \in Workers : Acts(w)
      BY <2>2 DEF SerialNext, Next, Acts
    <3>2. ~StoreDetail(w) /\ ~MarkVerified(w)
      BY StoreDetailPublishes, MarkVerifiedEndorses
    <3>3. Entries' = Entries /\ identities' = identities
      <4>1. CASE SetToken(w)
        BY <4>1, SetTokenKeeps DEF SetToken
      <4>2. CASE RevokeDetail(w)
        BY <4>2, RevokeDetailWithdraws DEF Entries
      <4>3. CASE InsertIdentity(w) \/ RevokeIdentity(w)
        BY <4>3, IdentityStepsMap DEF Entries
      <4>4. CASE ~(SetToken(w) \/ RevokeDetail(w) \/ InsertIdentity(w)
                   \/ RevokeIdentity(w))
        BY <3>1, <3>2, <4>4 DEF Acts, Receive, ReceiveIdentity, ReceiveDetail,
              ReceiveRevocation, ReceiveVerify, ReceiveConfirm, Step, GetDetailRecord,
              EnsureNewNonce, IsRevoked, CheckNonce, InsertRevocation, Fail, db, Entries
      <4> QED  BY <4>1, <4>2, <4>3, <4>4
    <3>4. Tops' = Tops
      BY <3>1, <3>2, TopsKept
    <3> QED  BY <3>3, <3>4 DEF Promise!vars, Entries, Tops
  <2> QED  BY <2>1, <2>2
<1> QED
  BY <1>1, InitLedger, LedgerInvariant, PTL DEF SerialSpec, ImplementsLedger, Promise!Spec

=============================================================================
