------------------------- MODULE IdentityFileProofs -------------------------
(* Theorems about IdentityFile, for any identities, paths, requests, keys and salts. *)
EXTENDS IdentityFile, TLAPS

---------------------------------------------------------------------------
(* Types. *)

\* The fields of a job at each of its steps.
LEMMA JobFields ==
    ASSUME worker \in [Workers -> Job], NEW w \in Workers
    PROVE /\ At(w, "read") => worker[w].do \in Changes \union Uses
                              /\ worker[w].key \in Keys /\ worker[w].salt \in Salts
          /\ At(w, "unlock") \/ At(w, "cliRead") => worker[w].do \in Changes \union Uses
          /\ At(w, "unlocked") => worker[w].do \in Changes \union Uses /\ worker[w].body \in Body
          /\ At(w, "encode") => /\ worker[w].do \in Changes \union {Nobody}
                                /\ worker[w].body \in Body
                                /\ worker[w].key # Password =>
                                      worker[w].key \in Keys /\ worker[w].salt \in Salts
          /\ At(w, "truncate") \/ At(w, "finish") =>
                worker[w].do \in Changes \union {Nobody} /\ worker[w].out \in Whole
          /\ At(w, "push") => worker[w].do \in Changes \union Uses /\ worker[w].body \in Body
<1>1. worker[w] \in Job
    OBVIOUS
<1> QED
    BY <1>1, KeysAssumption DEF Job, Idle, Loading, Unlocked, Saving, Creating, Writing, Pushing,
       Deleting, At

LEMMA ChangedTyped ==
    ASSUME NEW do \in Changes \union Uses, NEW b \in Body, Applies(do, b)
    PROVE do \in Changes /\ Changed(do, b) \in Body
<1>1. b.nonce \in 0 .. MaxNonce /\ b.revNonce \in 0 .. MaxNonce
    BY DEF Body
<1>2. ASSUME do.op \in {"detail", "signup"}
      PROVE do \in Changes /\ Changed(do, b) \in Body
    <2>1. do.path \in Paths /\ do \in Changes
        BY <1>2 DEF Changes, Uses
    <2>2. b.nonce + 1 \in 0 .. MaxNonce
        BY <1>1, <1>2, MaxNonceAssumption DEF Applies
    <2>3. AttachDetail(b, do.path) \in Body
        BY <2>1, <2>2 DEF AttachDetail, Body
    <2> QED
        BY <1>2, <2>1, <2>3 DEF Changed
<1>3. ASSUME do.op = "revokeDetail"
      PROVE do \in Changes /\ Changed(do, b) \in Body
    <2>1. do.path \in Paths /\ do \in Changes
        BY <1>3 DEF Changes, Uses
    <2>2. b.revNonce + 1 \in 0 .. MaxNonce
        BY <1>1, <1>3, MaxNonceAssumption DEF Applies
    <2>3. RevokeDetail(b, do.path) \in Body
        BY <2>1, <2>2 DEF RevokeDetail, Body
    <2> QED
        BY <1>3, <2>1, <2>3 DEF Changed
<1>4. ASSUME do.op = "revokeIdentity"
      PROVE do \in Changes /\ Changed(do, b) \in Body
    <2>1. do \in Changes
        BY <1>4 DEF Changes, Uses
    <2>2. b.revNonce + 1 \in 0 .. MaxNonce
        BY <1>1, <1>4, MaxNonceAssumption DEF Applies
    <2>3. RevokeIdentity(b) \in Body
        BY <2>2 DEF RevokeIdentity, Body
    <2> QED
        BY <1>4, <2>1, <2>3 DEF Changed
<1> QED
    BY <1>2, <1>3, <1>4 DEF Applies

\* What a request becomes after its identity is loaded.
LEMMA ProceedTyped ==
    ASSUME TypeOK, NEW w \in Workers, NEW do \in Changes \union Uses, NEW b \in Body,
           NEW key, NEW salt,
           \/ key \in Keys /\ salt \in Salts
           \/ key = Password /\ salt = Nobody
           \/ key = Nobody,
           Proceed(w, do, b, key, salt)
    PROVE worker' \in [Workers -> Job]
<1>1. CASE Applies(do, b) /\ key # Nobody /\
           Become(w, [pc |-> "encode", do |-> do, key |-> key, salt |-> salt,
                      body |-> Changed(do, b)])
    <2>1. [pc |-> "encode", do |-> do, key |-> key, salt |-> salt, body |-> Changed(do, b)] \in Job
        BY <1>1, ChangedTyped DEF Job, Saving
    <2> QED
        BY <1>1, <2>1 DEF Become, TypeOK
<1>2. CASE Become(w, [pc |-> "push", do |-> do, body |-> b])
    <2>1. [pc |-> "push", do |-> do, body |-> b] \in Job
        BY DEF Job, Pushing
    <2> QED
        BY <1>2, <2>1 DEF Become, TypeOK
<1>3. CASE Applies(do, b) /\ Become(w, [pc |-> "push", do |-> do, body |-> Changed(do, b)])
    <2>1. [pc |-> "push", do |-> do, body |-> Changed(do, b)] \in Job
        BY <1>3, ChangedTyped DEF Job, Pushing
    <2> QED
        BY <1>3, <2>1 DEF Become, TypeOK
<1>4. CASE Reply(w)
    BY <1>4 DEF Reply, TypeOK, Job
<1> QED
    BY <1>1, <1>2, <1>3, <1>4 DEF Proceed

LEMMA DropSessionTyped ==
    ASSUME TypeOK, DropSession
    PROVE session' \in Session /\ bytes' \in [Keys -> Salts \union {Zero}]
BY DEF DropSession, TypeOK, Session

LEMMA ReplaceSessionTyped ==
    ASSUME TypeOK, NEW k \in Keys, NEW s \in Salts, ReplaceSession(k, s)
    PROVE session' \in Session /\ bytes' \in [Keys -> Salts \union {Zero}]
BY DEF ReplaceSession, TypeOK, Session

LEMMA ReceiveTyped ==
    ASSUME TypeOK, NEW w \in Workers, Receive(w)
    PROVE TypeOK'
<1>1. PICK j \in Job : Become(w, j)
    <2>1. ASSUME NEW do \in Changes \union Uses, BeginUnlocked(w, do)
          PROVE \E j \in Job : Become(w, j)
        <3>1. session.key \in Keys /\ session.salt \in Salts
            BY <2>1 DEF BeginUnlocked, TypeOK, Session
        <3>2. [pc |-> "read", do |-> do, key |-> session.key, salt |-> session.salt] \in Job
            BY <3>1 DEF Job, Loading
        <3> QED
            BY <2>1, <3>2 DEF BeginUnlocked, Begin
    <2>2. ASSUME NEW do \in Changes \union Uses,
                 BeginWithPassword(w, do) \/ BeginCli(w, do) \/ BeginSignup(w, do)
          PROVE \E j \in Job : Become(w, j)
        <3>1. /\ [pc |-> "unlock", do |-> do] \in Job
              /\ [pc |-> "cliRead", do |-> do] \in Job
            BY DEF Job, Loading
        <3> QED
            BY <2>2, <3>1 DEF BeginWithPassword, BeginCli, BeginSignup, Begin
    <2>3. ASSUME NEW i \in Identities
          PROVE NewBody(i) \in Body
        BY MaxNonceAssumption DEF NewBody, Body
    <2>4. ASSUME NEW i \in Identities, Generate(w, i)
          PROVE \E j \in Job : Become(w, j)
        <3>1. [pc |-> "encode", do |-> Nobody, key |-> Password, salt |-> Nobody,
               body |-> NewBody(i)] \in Job
            BY <2>3 DEF Job, Creating
        <3> QED
            BY <2>4, <3>1 DEF Generate, Begin
    <2>5. ASSUME NEW i \in Identities, ImportFile(w, i)
          PROVE \E j \in Job : Become(w, j)
        <3>1. PICK s \in Salts :
                  Become(w, [pc |-> "truncate", do |-> Nobody,
                             out |-> [state |-> "whole", salt |-> s, enc |-> s,
                                      body |-> NewBody(i)]])
            BY <2>5 DEF ImportFile
        <3>2. [state |-> "whole", salt |-> s, enc |-> s, body |-> NewBody(i)] \in Whole
            BY <2>3 DEF Whole
        <3>3. [pc |-> "truncate", do |-> Nobody,
               out |-> [state |-> "whole", salt |-> s, enc |-> s, body |-> NewBody(i)]] \in Job
            BY <3>2 DEF Job, Writing
        <3> QED
            BY <3>1, <3>3
    <2>6. CASE DeleteIdentity(w)
        BY <2>6 DEF DeleteIdentity, Begin, Job, Deleting
    <2> QED
        BY <2>1, <2>2, <2>4, <2>5, <2>6 DEF Receive
<1>2. /\ file' \in Contents
      /\ UNCHANGED <<session, bytes, server>>
    BY DEF Receive, BeginUnlocked, BeginWithPassword, BeginCli, BeginSignup, Generate,
       ImportFile, DeleteIdentity, TypeOK, Contents
<1>3. smooth' \in BOOLEAN
    BY DEF Receive, BeginUnlocked, BeginWithPassword, BeginCli, BeginSignup, Generate,
       ImportFile, DeleteIdentity, Begin, TypeOK
<1> QED
    BY <1>1, <1>2, <1>3 DEF Become, TypeOK

LEMMA LoadTyped ==
    ASSUME TypeOK, NEW w \in Workers,
           LoadWithKey(w) \/ Unlock(w) \/ AfterUnlock(w) \/ CliLoad(w)
    PROVE TypeOK'
<1>0. /\ \/ session = NoSession /\ session.key = Nobody
         \/ session # NoSession /\ session.key \in Keys /\ session.salt \in Salts
      /\ file.state = "whole" => file.body \in Body /\ file.salt \in Salts
    BY DEF TypeOK, Session, NoSession, Contents, Whole, Absent, Torn
<1>1. CASE LoadWithKey(w)
    <2>1. worker[w].do \in Changes \union Uses
        BY <1>1, JobFields DEF LoadWithKey, TypeOK
    <2>2. worker' \in [Workers -> Job]
        <3>1. CASE file.state = "whole" /\ Proceed(w, worker[w].do, file.body, session.key, session.salt)
            BY <1>0, <2>1, <3>1, ProceedTyped
        <3>2. CASE Reply(w)
            BY <3>2 DEF Reply, TypeOK, Job
        <3> QED
            BY <1>1, <3>1, <3>2 DEF LoadWithKey
    <2>3. session' \in Session /\ bytes' \in [Keys -> Salts \union {Zero}]
        BY <1>1, DropSessionTyped DEF LoadWithKey, TypeOK
    <2> QED
        BY <1>1, <2>2, <2>3 DEF LoadWithKey, TypeOK
<1>2. CASE Unlock(w)
    <2>1. worker[w].do \in Changes \union Uses
        BY <1>2, JobFields DEF Unlock, TypeOK
    <2>2. CASE OpensWithPassword(file)
        <3>1. PICK k \in FreeKeys : ReplaceSession(k, file.salt)
            BY <1>2, <2>2 DEF Unlock
        <3>2. [pc |-> "unlocked", do |-> worker[w].do, body |-> file.body] \in Job
            BY <1>0, <2>1, <2>2 DEF Job, Unlocked, OpensWithPassword
        <3>3. session' \in Session /\ bytes' \in [Keys -> Salts \union {Zero}]
            BY <1>0, <2>2, <3>1, ReplaceSessionTyped DEF FreeKeys, OpensWithPassword
        <3>4. worker' \in [Workers -> Job]
            BY <1>2, <2>2, <3>2 DEF Unlock, Become, TypeOK
        <3> QED
            BY <1>2, <3>3, <3>4 DEF Unlock, TypeOK
    <2>3. CASE ~OpensWithPassword(file)
        BY <1>2, <2>3 DEF Unlock, Reply, TypeOK, Job
    <2> QED
        BY <2>2, <2>3
<1>3. CASE AfterUnlock(w)
    <2>1. worker[w].do \in Changes \union Uses /\ worker[w].body \in Body
        BY <1>3, JobFields DEF AfterUnlock, TypeOK
    <2>2. worker' \in [Workers -> Job]
        BY <1>0, <1>3, <2>1, ProceedTyped DEF AfterUnlock
    <2> QED
        BY <1>3, <2>2 DEF AfterUnlock, TypeOK
<1>4. CASE CliLoad(w)
    <2>1. worker[w].do \in Changes \union Uses
        BY <1>4, JobFields DEF CliLoad, TypeOK
    <2>2. worker' \in [Workers -> Job]
        <3>1. CASE OpensWithPassword(file) /\ Proceed(w, worker[w].do, file.body, Password, Nobody)
            BY <1>0, <2>1, <3>1, ProceedTyped DEF OpensWithPassword
        <3>2. CASE Reply(w)
            BY <3>2 DEF Reply, TypeOK, Job
        <3> QED
            BY <1>4, <3>1, <3>2 DEF CliLoad
    <2> QED
        BY <1>4, <2>2 DEF CliLoad, TypeOK
<1> QED
    BY <1>1, <1>2, <1>3, <1>4

LEMMA SaveTyped ==
    ASSUME TypeOK, NEW w \in Workers, Encode(w) \/ Truncate(w) \/ Finish(w)
    PROVE TypeOK'
<1>1. CASE Encode(w)
    <2>1. PICK s \in Salts, enc \in Salts \union {Zero} :
              Become(w, [pc |-> "truncate", do |-> worker[w].do,
                         out |-> [state |-> "whole", salt |-> s, enc |-> enc,
                                  body |-> worker[w].body]])
        BY <1>1 DEF Encode
    <2>2. worker[w].do \in Changes \union {Nobody} /\ worker[w].body \in Body
        BY <1>1, JobFields DEF Encode, TypeOK
    <2>3. [state |-> "whole", salt |-> s, enc |-> enc, body |-> worker[w].body] \in Whole
        BY <2>2 DEF Whole
    <2>4. [pc |-> "truncate", do |-> worker[w].do,
           out |-> [state |-> "whole", salt |-> s, enc |-> enc, body |-> worker[w].body]] \in Job
        BY <2>2, <2>3 DEF Job, Writing
    <2> QED
        BY <1>1, <2>1, <2>4 DEF Encode, Become, TypeOK
<1>2. CASE Truncate(w)
    <2>1. worker[w] \in Writing
        BY <1>2, KeysAssumption DEF Truncate, At, TypeOK, Job, Idle, Loading, Unlocked, Saving,
           Creating, Pushing, Deleting
    <2>2. [worker[w] EXCEPT !.pc = "finish"] \in Writing
        BY <2>1 DEF Writing
    <2>3. worker' \in [Workers -> Job]
        BY <1>2, <2>2 DEF Truncate, TypeOK, Job
    <2> QED
        BY <1>2, <2>3 DEF Truncate, TypeOK, Contents
<1>3. CASE Finish(w)
    <2>1. worker[w].do \in Changes \union {Nobody} /\ worker[w].out \in Whole
        BY <1>3, JobFields DEF Finish, TypeOK
    <2>2. worker' \in [Workers -> Job]
        <3>1. CASE Reply(w)
            BY <3>1 DEF Reply, TypeOK, Job
        <3>2. CASE /\ worker[w].do \in Changes
                   /\ Become(w, [pc |-> "push", do |-> worker[w].do,
                                 body |-> worker[w].out.body])
            <4>1. [pc |-> "push", do |-> worker[w].do, body |-> worker[w].out.body] \in Job
                BY <2>1, <3>2 DEF Job, Pushing, Whole
            <4> QED
                BY <3>2, <4>1 DEF Become, TypeOK
        <3> QED
            BY <1>3, <3>1, <3>2 DEF Finish
    <2> QED
        BY <1>3, <2>1, <2>2 DEF Finish, TypeOK, Contents
<1> QED
    BY <1>1, <1>2, <1>3

\* The four ways a push changes what the server has of one identity.
LEMMA RecordTyped ==
    ASSUME NEW r \in Record, NEW p, NEW n \in 0 .. MaxNonce
    PROVE /\ [r EXCEPT !.known = TRUE] \in Record
          /\ [r EXCEPT !.rows = [r.rows EXCEPT ![p] = "active"], !.top = n - 1] \in Record
          /\ [r EXCEPT !.rows = [r.rows EXCEPT ![p] = IF r.rows[p] = "none" THEN "none"
                                                      ELSE "revoked"],
                       !.revTop = n - 1] \in Record
          /\ [r EXCEPT !.dead = TRUE, !.revTop = n - 1] \in Record
<1>1. n - 1 \in -1 .. MaxNonce
    BY MaxNonceAssumption
<1>2. /\ [r.rows EXCEPT ![p] = "active"] \in [Paths -> {"none", "active", "revoked"}]
      /\ [r.rows EXCEPT ![p] = IF r.rows[p] = "none" THEN "none" ELSE "revoked"]
            \in [Paths -> {"none", "active", "revoked"}]
    BY DEF Record
<1> QED
    BY <1>1, <1>2 DEF Record

LEMMA PushTyped ==
    ASSUME TypeOK, NEW w \in Workers,
           PublishIdentity(w) \/ PushDetail(w) \/ PushSignup(w) \/ PushRevocation(w)
    PROVE TypeOK'
<1> DEFINE b == worker[w].body
           p == worker[w].do.path
           r == server[b.who]
<1>1. b \in Body /\ worker[w].do \in Changes \union Uses
    BY JobFields DEF PublishIdentity, PushDetail, PushSignup, PushRevocation, TypeOK
<1>2. /\ b.who \in Identities /\ b.nonce \in 0 .. MaxNonce /\ b.revNonce \in 0 .. MaxNonce
      /\ r \in Record
    BY <1>1 DEF Body, TypeOK
<1>3. \/ server' = server
      \/ \E q \in Record : server' = [server EXCEPT ![b.who] = q]
    <2>1. CASE PublishIdentity(w)
        <3>1. server' = [server EXCEPT ![b.who] = [r EXCEPT !.known = TRUE]]
            BY <2>1 DEF PublishIdentity
        <3> QED
            BY <1>2, <3>1, RecordTyped
    <2>2. CASE PushDetail(w) \/ PushSignup(w)
        <3>1. \/ server' = server
              \/ server' = [server EXCEPT ![b.who] =
                     [r EXCEPT !.rows = [r.rows EXCEPT ![p] = "active"], !.top = b.nonce - 1]]
            BY <2>2 DEF PushDetail, PushSignup
        <3> QED
            BY <1>2, <3>1, RecordTyped
    <2>3. CASE PushRevocation(w)
        <3>1. \/ server' = server
              \/ server' = [server EXCEPT ![b.who] =
                     [r EXCEPT !.rows = [r.rows EXCEPT ![p] = IF r.rows[p] = "none" THEN "none"
                                                              ELSE "revoked"],
                               !.revTop = b.revNonce - 1]]
              \/ server' = [server EXCEPT ![b.who] =
                     [r EXCEPT !.dead = TRUE, !.revTop = b.revNonce - 1]]
            BY <2>3 DEF PushRevocation
        <3> QED
            BY <1>2, <3>1, RecordTyped
    <2> QED
        BY <2>1, <2>2, <2>3
<1>4. server' \in [Identities -> Record]
    BY <1>2, <1>3 DEF TypeOK
<1>5. worker' \in [Workers -> Job]
    <2>1. CASE Reply(w)
        BY <2>1 DEF Reply, TypeOK, Job
    <2>2. CASE PushSignup(w) /\ ~Reply(w)
        <3>1. worker[w].do \in Changes
            BY <1>1, <2>2 DEF PushSignup, Uses
        <3>2. [pc |-> "encode", do |-> worker[w].do, key |-> Password, salt |-> Nobody,
               body |-> b] \in Job
            BY <1>1, <3>1 DEF Job, Saving
        <3> QED
            BY <2>2, <3>2 DEF PushSignup, Become, TypeOK
    <2> QED
        BY <2>1, <2>2 DEF PublishIdentity, PushDetail, PushRevocation
<1> QED
    BY <1>4, <1>5 DEF PublishIdentity, PushDetail, PushSignup, PushRevocation, TypeOK

LEMMA InitTypeOK == Init => TypeOK
BY MaxNonceAssumption DEF Init, TypeOK, Contents, Session, Job, Record, NoRecord

LEMMA StepTypeOK == TypeOK /\ [Next]_vars => TypeOK'
<1> SUFFICES ASSUME TypeOK, [Next]_vars PROVE TypeOK'
    OBVIOUS
<1>1. ASSUME NEW w \in Workers, Receive(w) PROVE TypeOK'
    BY <1>1, ReceiveTyped
<1>2. ASSUME NEW w \in Workers, Step(w) PROVE TypeOK'
    <2>1. CASE LoadWithKey(w) \/ Unlock(w) \/ AfterUnlock(w) \/ CliLoad(w)
        BY <2>1, LoadTyped
    <2>2. CASE Encode(w) \/ Truncate(w) \/ Finish(w)
        BY <2>2, SaveTyped
    <2>3. CASE PublishIdentity(w) \/ PushDetail(w) \/ PushSignup(w) \/ PushRevocation(w)
        BY <2>3, PushTyped
    <2>4. CASE DeleteLocks(w)
        BY <2>4, DropSessionTyped DEF DeleteLocks, Reply, TypeOK, Job
    <2>5. CASE Fail(w)
        BY <2>5 DEF Fail, Reply, TypeOK, Job
    <2> QED
        BY <1>2, <2>1, <2>2, <2>3, <2>4, <2>5 DEF Step
<1>3. CASE Lock
    BY <1>3, DropSessionTyped DEF Lock, TypeOK
<1>4. CASE UNCHANGED vars
    BY <1>4 DEF vars, TypeOK
<1> QED
    BY <1>1, <1>2, <1>3, <1>4 DEF Next

\* Every file, session, request and record keeps its type.
THEOREM TypeCorrect == Spec => []TypeOK
BY InitTypeOK, StepTypeOK, PTL DEF Spec

---------------------------------------------------------------------------
(* Keys.  Only the session's array holds a key; an array that a request took from a *)
(* session holds the key of the salt that came with it, or nothing. *)

OnlySessionLives == \A k \in Keys : bytes[k] # Zero => session.key = k

Taken(w) ==
    worker[w].pc \in {"read", "encode"} /\ worker[w].key # Password =>
        bytes[worker[w].key] \in {worker[w].salt, Zero}
Named(w) ==
    worker[w].pc \in {"truncate", "finish"} => worker[w].out.enc \in {worker[w].out.salt, Zero}
JobsNameKeys == \A w \in Workers : Taken(w) /\ Named(w)

KeysInv == TypeOK /\ SessionKeyLives /\ OnlySessionLives /\ JobsNameKeys /\ HeaderNamesKey

\* What a step does to the arrays: nothing; or it drops the session; or a new session
\* takes an array that no request holds.
Arrays ==
    \/ UNCHANGED <<session, bytes>>
    \/ DropSession
    \/ \E k \in FreeKeys, s \in Salts : ReplaceSession(k, s)

LEMMA ArraysStep ==
    ASSUME TypeOK, Next
    PROVE Arrays
<1>1. ASSUME NEW w \in Workers, Unlock(w), OpensWithPassword(file)
      PROVE Arrays
    <2>1. file.salt \in Salts
        BY <1>1 DEF OpensWithPassword, TypeOK, Contents, Whole, Absent, Torn
    <2> QED
        BY <1>1, <2>1 DEF Unlock, Arrays
<1>2. ASSUME NEW w \in Workers, Unlock(w), ~OpensWithPassword(file)
      PROVE Arrays
    BY <1>2 DEF Unlock, Arrays
<1>3. ASSUME NEW w \in Workers, Receive(w)
      PROVE Arrays
    BY <1>3 DEF Receive, BeginUnlocked, BeginWithPassword, BeginCli, BeginSignup, Generate,
       ImportFile, DeleteIdentity, Arrays
<1>4. ASSUME NEW w \in Workers, Step(w), ~Unlock(w)
      PROVE Arrays
    BY <1>4 DEF Step, LoadWithKey, AfterUnlock, CliLoad, Encode, Truncate, Finish, DeleteLocks,
       PublishIdentity, PushDetail, PushSignup, PushRevocation, Fail, Arrays
<1>5. CASE Lock
    BY <1>5 DEF Lock, Arrays
<1> QED
    BY <1>1, <1>2, <1>3, <1>4, <1>5 DEF Next, Step

LEMMA ArraysKeep ==
    ASSUME KeysInv, Arrays
    PROVE /\ SessionKeyLives'
          /\ OnlySessionLives'
          /\ \A w \in Workers : worker[w].pc \in {"read", "encode"} /\ worker[w].key # Password
                => bytes'[worker[w].key] \in {worker[w].salt, Zero}
<1>0. ASSUME NEW w \in Workers, worker[w].pc \in {"read", "encode"}, worker[w].key # Password
      PROVE worker[w].key \in Keys /\ bytes[worker[w].key] \in {worker[w].salt, Zero}
    BY <1>0, JobFields DEF KeysInv, TypeOK, At, JobsNameKeys, Taken
<1>1. CASE UNCHANGED <<session, bytes>>
    BY <1>0, <1>1 DEF KeysInv, SessionKeyLives, OnlySessionLives
<1>2. CASE DropSession
    <2>1. \A k \in Keys : bytes'[k] = Zero
        <3>1. CASE session = NoSession
            BY <1>2, <3>1, KeysAssumption DEF DropSession, KeysInv, OnlySessionLives, NoSession
        <3>2. CASE session # NoSession
            BY <1>2, <3>2 DEF DropSession, KeysInv, OnlySessionLives, TypeOK
        <3> QED
            BY <3>1, <3>2
    <2>2. session' = NoSession
        BY <1>2 DEF DropSession
    <2> QED
        BY <1>0, <2>1, <2>2 DEF SessionKeyLives, OnlySessionLives
<1>3. ASSUME NEW k \in FreeKeys, NEW s \in Salts, ReplaceSession(k, s)
      PROVE /\ SessionKeyLives'
            /\ OnlySessionLives'
            /\ \A w \in Workers : worker[w].pc \in {"read", "encode"} /\ worker[w].key # Password
                => bytes'[worker[w].key] \in {worker[w].salt, Zero}
    <2>1. /\ k \in Keys
          /\ \A w \in Workers : worker[w].pc \in {"read", "encode"} => worker[w].key # k
        BY DEF FreeKeys, HoldsKey
    <2>2. session'.key = k /\ session'.salt = s
        BY <1>3 DEF ReplaceSession
    <2>3. \A j \in Keys : bytes'[j] = IF j = k THEN s
                                      ELSE IF j = session.key THEN Zero ELSE bytes[j]
        BY <1>3 DEF ReplaceSession
    <2>4. SessionKeyLives'
        BY <2>1, <2>2, <2>3 DEF SessionKeyLives
    <2>5. OnlySessionLives'
        BY <2>2, <2>3 DEF KeysInv, OnlySessionLives
    <2>6. \A w \in Workers : worker[w].pc \in {"read", "encode"} /\ worker[w].key # Password
                => bytes'[worker[w].key] \in {worker[w].salt, Zero}
        BY <1>0, <2>1, <2>3
    <2> QED
        BY <2>4, <2>5, <2>6
<1> QED
    BY <1>1, <1>2, <1>3 DEF Arrays

\* What a request may become: it takes a key from the session that is there, or writes a
\* file that names its key.
TakesSession(job) ==
    job.pc \in {"read", "encode"} /\ job.key # Password =>
        /\ session # NoSession
        /\ job.key = session.key /\ job.salt = session.salt
        /\ UNCHANGED bytes
WritesNamed(job) ==
    job.pc \in {"truncate", "finish"} => job.out.enc \in {job.out.salt, Zero}

LEMMA ProceedTakes ==
    ASSUME TypeOK, NEW w \in Workers, NEW do, NEW b, NEW key, NEW salt,
           \/ key = Password
           \/ key = session.key /\ salt = session.salt /\ UNCHANGED bytes,
           Proceed(w, do, b, key, salt)
    PROVE \E job : /\ worker' = [worker EXCEPT ![w] = job]
                   /\ TakesSession(job) /\ WritesNamed(job)
<1>1. CASE key # Nobody /\
           Become(w, [pc |-> "encode", do |-> do, key |-> key, salt |-> salt,
                      body |-> Changed(do, b)])
    <2> DEFINE job == [pc |-> "encode", do |-> do, key |-> key, salt |-> salt,
                       body |-> Changed(do, b)]
    <2>1. TakesSession(job) /\ WritesNamed(job)
        BY <1>1 DEF TakesSession, WritesNamed, NoSession
    <2> QED
        BY <1>1, <2>1 DEF Become
<1>2. ASSUME NEW c, Become(w, [pc |-> "push", do |-> do, body |-> c])
      PROVE \E job : /\ worker' = [worker EXCEPT ![w] = job]
                     /\ TakesSession(job) /\ WritesNamed(job)
    <2> DEFINE job == [pc |-> "push", do |-> do, body |-> c]
    <2>1. TakesSession(job) /\ WritesNamed(job)
        BY DEF TakesSession, WritesNamed
    <2> QED
        BY <1>2, <2>1 DEF Become
<1>3. CASE Reply(w)
    <2>1. TakesSession(Idle) /\ WritesNamed(Idle)
        BY DEF TakesSession, WritesNamed, Idle
    <2> QED
        BY <1>3, <2>1 DEF Reply
<1> QED
    BY <1>1, <1>2, <1>3 DEF Proceed

LEMMA ReplyTakes ==
    ASSUME NEW w \in Workers, Reply(w)
    PROVE \E job : /\ worker' = [worker EXCEPT ![w] = job]
                   /\ TakesSession(job) /\ WritesNamed(job)
<1>1. TakesSession(Idle) /\ WritesNamed(Idle)
    BY DEF TakesSession, WritesNamed, Idle
<1> QED
    BY <1>1 DEF Reply

LEMMA ReceiveTakes ==
    ASSUME KeysInv, NEW w \in Workers, Receive(w)
    PROVE \E job : /\ worker' = [worker EXCEPT ![w] = job]
                   /\ TakesSession(job) /\ WritesNamed(job)
<1>1. ASSUME NEW do \in Changes \union Uses, BeginUnlocked(w, do)
      PROVE \E job : Become(w, job) /\ TakesSession(job) /\ WritesNamed(job)
    <2> DEFINE job == [pc |-> "read", do |-> do, key |-> session.key, salt |-> session.salt]
    <2>1. TakesSession(job) /\ WritesNamed(job)
        BY <1>1 DEF BeginUnlocked, TakesSession, WritesNamed
    <2> QED
        BY <1>1, <2>1 DEF BeginUnlocked, Begin
<1>2. ASSUME NEW do \in Changes \union Uses,
             BeginWithPassword(w, do) \/ BeginCli(w, do) \/ BeginSignup(w, do)
      PROVE \E job : Become(w, job) /\ TakesSession(job) /\ WritesNamed(job)
    <2>1. ASSUME NEW job, job.pc \in {"unlock", "cliRead"}
          PROVE TakesSession(job) /\ WritesNamed(job)
        BY <2>1 DEF TakesSession, WritesNamed
    <2>2. /\ [pc |-> "unlock", do |-> do].pc = "unlock"
          /\ [pc |-> "cliRead", do |-> do].pc = "cliRead"
        OBVIOUS
    <2> QED
        BY <1>2, <2>1, <2>2 DEF BeginWithPassword, BeginCli, BeginSignup, Begin
<1>3. ASSUME NEW i \in Identities, Generate(w, i)
      PROVE \E job : Become(w, job) /\ TakesSession(job) /\ WritesNamed(job)
    <2> DEFINE job == [pc |-> "encode", do |-> Nobody, key |-> Password, salt |-> Nobody,
                       body |-> NewBody(i)]
    <2>1. TakesSession(job) /\ WritesNamed(job)
        BY DEF TakesSession, WritesNamed
    <2> QED
        BY <1>3, <2>1 DEF Generate, Begin
<1>4. ASSUME NEW i \in Identities, ImportFile(w, i)
      PROVE \E job : Become(w, job) /\ TakesSession(job) /\ WritesNamed(job)
    <2>1. PICK s \in Salts :
              Become(w, [pc |-> "truncate", do |-> Nobody,
                         out |-> [state |-> "whole", salt |-> s, enc |-> s,
                                  body |-> NewBody(i)]])
        BY <1>4 DEF ImportFile
    <2> DEFINE job == [pc |-> "truncate", do |-> Nobody,
                       out |-> [state |-> "whole", salt |-> s, enc |-> s, body |-> NewBody(i)]]
    <2>2. TakesSession(job) /\ WritesNamed(job)
        BY DEF TakesSession, WritesNamed
    <2> QED
        BY <2>1, <2>2
<1>5. CASE DeleteIdentity(w)
    <2> DEFINE job == [pc |-> "lock"]
    <2>1. TakesSession(job) /\ WritesNamed(job)
        BY DEF TakesSession, WritesNamed
    <2> QED
        BY <1>5, <2>1 DEF DeleteIdentity, Begin, Become
<1> QED
    BY <1>1, <1>2, <1>3, <1>4, <1>5 DEF Receive, Become

LEMMA StepTakes ==
    ASSUME KeysInv, NEW w \in Workers, Step(w)
    PROVE \E job : /\ worker' = [worker EXCEPT ![w] = job]
                   /\ TakesSession(job) /\ WritesNamed(job)
<1>0. TypeOK
    BY DEF KeysInv
<1>1. CASE LoadWithKey(w)
    BY <1>0, <1>1, ProceedTakes, ReplyTakes DEF LoadWithKey
<1>2. CASE Unlock(w)
    <2>1. CASE Become(w, [pc |-> "unlocked", do |-> worker[w].do, body |-> file.body])
        <3> DEFINE job == [pc |-> "unlocked", do |-> worker[w].do, body |-> file.body]
        <3>1. TakesSession(job) /\ WritesNamed(job)
            BY DEF TakesSession, WritesNamed
        <3> QED
            BY <2>1, <3>1 DEF Become
    <2> QED
        BY <1>2, <2>1, ReplyTakes DEF Unlock
<1>3. CASE AfterUnlock(w)
    <2>1. CASE session # NoSession
        BY <1>0, <1>3, <2>1, ProceedTakes DEF AfterUnlock
    <2>2. CASE session = NoSession
        BY <1>0, <1>3, <2>2, ProceedTakes DEF AfterUnlock
    <2> QED
        BY <2>1, <2>2
<1>4. CASE CliLoad(w)
    BY <1>0, <1>4, ProceedTakes, ReplyTakes DEF CliLoad
<1>5. CASE Encode(w)
    <2>1. PICK s \in Salts, enc \in Salts \union {Zero} :
              /\ IF worker[w].key = Password
                 THEN s \in FreshSalts /\ enc = s
                 ELSE s = worker[w].salt /\ enc = bytes[worker[w].key]
              /\ Become(w, [pc |-> "truncate", do |-> worker[w].do,
                            out |-> [state |-> "whole", salt |-> s, enc |-> enc,
                                     body |-> worker[w].body]])
        BY <1>5 DEF Encode
    <2>2. enc \in {s, Zero}
        BY <1>5, <2>1 DEF Encode, At, KeysInv, JobsNameKeys, Taken
    <2> DEFINE job == [pc |-> "truncate", do |-> worker[w].do,
                       out |-> [state |-> "whole", salt |-> s, enc |-> enc,
                                body |-> worker[w].body]]
    <2>3. TakesSession(job) /\ WritesNamed(job)
        BY <2>2 DEF TakesSession, WritesNamed
    <2> QED
        BY <2>1, <2>3 DEF Become
<1>6. CASE Truncate(w)
    <2> DEFINE job == [worker[w] EXCEPT !.pc = "finish"]
    <2>1. worker[w] \in Writing
        BY <1>0, <1>6, KeysAssumption DEF Truncate, At, TypeOK, Job, Idle, Loading, Unlocked,
           Saving, Creating, Pushing, Deleting
    <2>2. job.pc = "finish" /\ job.out = worker[w].out
        BY <2>1 DEF Writing
    <2>3. worker[w].out.enc \in {worker[w].out.salt, Zero}
        BY <1>6 DEF Truncate, At, KeysInv, JobsNameKeys, Named
    <2>4. worker' = [worker EXCEPT ![w] = job]
        BY <1>6 DEF Truncate
    <2> HIDE DEF job
    <2>5. TakesSession(job) /\ WritesNamed(job)
        BY <2>2, <2>3 DEF TakesSession, WritesNamed
    <2> QED
        BY <2>4, <2>5
<1>7. CASE Finish(w)
    <2>1. CASE Become(w, [pc |-> "push", do |-> worker[w].do, body |-> worker[w].out.body])
        <3> DEFINE job == [pc |-> "push", do |-> worker[w].do, body |-> worker[w].out.body]
        <3>1. TakesSession(job) /\ WritesNamed(job)
            BY DEF TakesSession, WritesNamed
        <3> QED
            BY <2>1, <3>1 DEF Become
    <2> QED
        BY <1>7, <2>1, ReplyTakes DEF Finish
<1>8. CASE DeleteLocks(w) \/ PublishIdentity(w) \/ PushDetail(w) \/ PushRevocation(w) \/ Fail(w)
    BY <1>8, ReplyTakes DEF DeleteLocks, PublishIdentity, PushDetail, PushRevocation, Fail
<1>9. CASE PushSignup(w)
    <2> DEFINE job == [pc |-> "encode", do |-> worker[w].do, key |-> Password, salt |-> Nobody,
                       body |-> worker[w].body]
    <2>1. TakesSession(job) /\ WritesNamed(job)
        BY DEF TakesSession, WritesNamed
    <2> QED
        BY <1>9, <2>1, ReplyTakes DEF PushSignup, Become
<1> QED
    BY <1>1, <1>2, <1>3, <1>4, <1>5, <1>6, <1>7, <1>8, <1>9 DEF Step

LEMMA StepKeys == KeysInv /\ [Next]_vars => KeysInv'
<1> SUFFICES ASSUME KeysInv, [Next]_vars PROVE KeysInv'
    OBVIOUS
<1>1. TypeOK'
    BY StepTypeOK DEF KeysInv
<1>2. CASE UNCHANGED vars
    BY <1>1, <1>2 DEF vars, KeysInv, SessionKeyLives, OnlySessionLives, JobsNameKeys, Taken,
       Named, HeaderNamesKey
<1>3. CASE Next
    <2>1. /\ SessionKeyLives' /\ OnlySessionLives'
          /\ \A w \in Workers : worker[w].pc \in {"read", "encode"} /\ worker[w].key # Password
                => bytes'[worker[w].key] \in {worker[w].salt, Zero}
        BY <1>3, ArraysStep, ArraysKeep DEF KeysInv
    <2>2. \/ worker' = worker
          \/ \E w \in Workers : \E job : /\ worker' = [worker EXCEPT ![w] = job]
                                         /\ TakesSession(job) /\ WritesNamed(job)
        BY <1>3, ReceiveTakes, StepTakes DEF Next, Lock
    <2>3. JobsNameKeys'
        <3>1. ASSUME NEW v \in Workers, worker'[v] = worker[v]
              PROVE Taken(v)' /\ Named(v)'
            BY <2>1, <3>1 DEF KeysInv, JobsNameKeys, Taken, Named
        <3>2. ASSUME NEW w \in Workers, NEW job, worker'[w] = job,
                     TakesSession(job), WritesNamed(job)
              PROVE Taken(w)' /\ Named(w)'
            BY <3>2 DEF KeysInv, SessionKeyLives, TakesSession, WritesNamed, Taken, Named
        <3>3. ASSUME NEW w \in Workers, NEW job, worker' = [worker EXCEPT ![w] = job],
                     TakesSession(job), WritesNamed(job), NEW v \in Workers
              PROVE Taken(v)' /\ Named(v)'
            BY <3>1, <3>2, <3>3 DEF KeysInv, TypeOK
        <3> QED
            BY <2>2, <3>1, <3>3 DEF JobsNameKeys
    <2>4. HeaderNamesKey'
        <3>1. file' \in {file, Absent, Torn} \/
              \E w \in Workers : Finish(w)
            BY <1>3 DEF Next, Receive, Step, BeginUnlocked, BeginWithPassword, BeginCli,
               BeginSignup, Generate, ImportFile, DeleteIdentity, LoadWithKey, Unlock,
               AfterUnlock, CliLoad, Encode, Truncate, DeleteLocks, PublishIdentity, PushDetail,
               PushSignup, PushRevocation, Fail, Lock
        <3>2. CASE file' \in {file, Absent, Torn}
            BY <3>2 DEF KeysInv, HeaderNamesKey, Absent, Torn
        <3>3. CASE \E w \in Workers : Finish(w)
            BY <3>3 DEF Finish, At, KeysInv, JobsNameKeys, Named, HeaderNamesKey
        <3> QED
            BY <3>1, <3>2, <3>3
    <2> QED
        BY <1>1, <2>1, <2>3, <2>4 DEF KeysInv
<1> QED
    BY <1>2, <1>3

LEMMA InitKeys == Init => KeysInv
BY InitTypeOK DEF Init, KeysInv, SessionKeyLives, OnlySessionLives, JobsNameKeys, Taken, Named,
   HeaderNamesKey, Idle, Absent

\* Whatever locks, expires and unlocks in between, the session's array has its key
\* (unlock-session.ts:72-81 and 176-188).
THEOREM SessionKeyStays == Spec => []SessionKeyLives
<1>1. KeysInv => SessionKeyLives
    BY DEF KeysInv
<1> QED
    BY <1>1, InitKeys, StepKeys, PTL DEF Spec

\* A file never names the salt of another key than the one it is under (identity.ts:111-126).
THEOREM HeaderIsTrue == Spec => []HeaderNamesKey
<1>1. KeysInv => HeaderNamesKey
    BY DEF KeysInv
<1> QED
    BY <1>1, InitKeys, StepKeys, PTL DEF Spec

\* The steps of a request that waits for the file with a session's key.
LEMMA ReadSteps ==
    ASSUME TypeOK, Next, NEW w \in Workers, At(w, "read"), worker'[w].pc \in {"encode", "push"}
    PROVE /\ file.state = "whole"
          /\ file.enc = bytes[worker[w].key]
<1>1. PICK v \in Workers : Receive(v) \/ Step(v)
    BY DEF Next, Lock, At
<1>2. v = w
    <2>1. SUFFICES ASSUME v # w PROVE worker'[w] = worker[w]
        BY DEF At
    <2>2. \E job : worker' = [worker EXCEPT ![v] = job]
        BY <1>1 DEF Receive, Step, BeginUnlocked, BeginWithPassword, BeginCli, BeginSignup,
           Generate, ImportFile, DeleteIdentity, Begin, Become, Reply, LoadWithKey, Unlock,
           AfterUnlock, CliLoad, Proceed, Encode, Truncate, Finish, DeleteLocks, PublishIdentity,
           PushDetail, PushSignup, PushRevocation, Fail
    <2> QED
        BY <2>1, <2>2 DEF TypeOK
<1>3. LoadWithKey(w) \/ Reply(w)
    BY <1>1, <1>2 DEF Receive, Step, BeginUnlocked, BeginWithPassword, BeginCli, BeginSignup,
       Generate, ImportFile, DeleteIdentity, Begin, Unlock, AfterUnlock, CliLoad, Encode, Truncate, Finish,
       DeleteLocks, PublishIdentity, PushDetail, PushSignup, PushRevocation, Fail, At
<1>4. ~Reply(w)
    BY DEF Reply, Idle, TypeOK
<1> QED
    BY <1>3, <1>4 DEF LoadWithKey

\* Nothing is decrypted under a key whose session is gone (unlock-session.ts:260-284).
THEOREM LoadsAreLive == Spec => LoadsUnderLiveKey
<1>1. KeysInv /\ [Next]_vars =>
        [\A w \in Workers :
          /\ At(w, "read")
          /\ worker'[w].pc \in {"encode", "push"}
          /\ file.enc # Zero
          => session = [key |-> worker[w].key, salt |-> worker[w].salt]]_vars
    <2>1. SUFFICES ASSUME KeysInv, Next, NEW w \in Workers, At(w, "read"),
                          worker'[w].pc \in {"encode", "push"}, file.enc # Zero
                   PROVE session = [key |-> worker[w].key, salt |-> worker[w].salt]
        OBVIOUS
    <2>2. file.state = "whole" /\ file.enc = bytes[worker[w].key]
        BY <2>1, ReadSteps DEF KeysInv
    <2>3. worker[w].key \in Keys /\ worker[w].key # Password
        BY <2>1, JobFields, KeysAssumption DEF KeysInv, TypeOK
    <2>4. session.key = worker[w].key
        BY <2>1, <2>2, <2>3 DEF KeysInv, OnlySessionLives
    <2>0. session # NoSession
        <3>1. NoSession.key = Nobody
            BY DEF NoSession
        <3> QED
            BY <2>3, <2>4, <3>1, KeysAssumption
    <2>5. session \in [key : Keys, salt : Salts]
        BY <2>0, <2>1 DEF KeysInv, TypeOK, Session
    <2>6. session.salt = bytes[session.key]
        BY <2>0, <2>1 DEF KeysInv, SessionKeyLives
    <2>7. bytes[worker[w].key] = worker[w].salt
        BY <2>1, <2>2, <2>3 DEF KeysInv, JobsNameKeys, Taken, At
    <2> QED
        BY <2>4, <2>5, <2>6, <2>7
<1> QED
    BY <1>1, InitKeys, StepKeys, PTL DEF Spec, LoadsUnderLiveKey

---------------------------------------------------------------------------
(* Nonces.  While requests do not overlap, what is in flight is at most one request, and *)
(* the identity it carries is ahead of the server.  A sign-up is an overlap. *)

Good(b, srv) ==
    /\ srv[b.who].top < b.nonce
    /\ srv[b.who].revTop < b.revNonce
    /\ srv[b.who].dead => b.dead
    /\ \A p \in Paths : srv[b.who].rows[p] = "revoked" => p \in b.revoked

\* What the request signed last is above all the server has seen, and the server does not
\* hold the identity for revoked before its owner says so.
Fresh(do, b, srv) ==
    /\ do.op = "detail" => srv[b.who].top < b.nonce - 1
    /\ do.op \in {"revokeDetail", "revokeIdentity"} => srv[b.who].revTop < b.revNonce - 1
    /\ do.op = "revokeIdentity" => ~srv[b.who].dead

\* The identity has recorded the revocation that the request makes.
Kept(do, b, srv) ==
    /\ do.op = "revokeDetail" => do.path \in b.revoked
    /\ do.op = "revokeIdentity" => b.dead
    /\ Fresh(do, b, srv)

Carries(j, f, srv) ==
    /\ j.pc = "unlocked" => Good(j.body, srv)
    /\ j.pc = "encode" => Good(j.body, srv) /\ (j.do # Nobody => Kept(j.do, j.body, srv))
    /\ j.pc \in {"truncate", "finish"} =>
          Good(j.out.body, srv) /\ (j.do # Nobody => Kept(j.do, j.out.body, srv))
    /\ j.pc = "push" /\ j.do.op # "publish" =>
          Kept(j.do, j.body, srv) /\ (f.state = "whole" => f.body = j.body)
    /\ j.pc \in {"read", "unlock", "unlocked", "cliRead", "push"} => j.do.op # "signup"

Alone(w) == \A v \in Workers : v # w => worker[v].pc = "idle"
UnknownIsBlank == \A i \in Identities : ~server[i].known => server[i] = NoRecord
SmoothInv ==
    /\ TypeOK
    /\ UnknownIsBlank
    /\ smooth => /\ \A w \in Workers : worker[w].pc # "idle" => Alone(w)
                 /\ file.state = "whole" => Good(file.body, server)
                 /\ \A w \in Workers : Carries(worker[w], file, server)

LEMMA ChangedGood ==
    ASSUME TypeOK, NEW do \in Changes \union Uses, NEW b \in Body, Applies(do, b),
           Good(b, server)
    PROVE Good(Changed(do, b), server) /\ Kept(do, Changed(do, b), server)
<1>1. /\ b.nonce \in Nat /\ b.revNonce \in Nat
      /\ server[b.who].top \in Int /\ server[b.who].revTop \in Int
    BY MaxNonceAssumption DEF Body, TypeOK, Record
<1>2. CASE do.op \in {"detail", "signup"}
    <2>1. Changed(do, b) = AttachDetail(b, do.path)
        BY <1>2 DEF Changed
    <2>2. /\ AttachDetail(b, do.path).who = b.who
          /\ AttachDetail(b, do.path).nonce = b.nonce + 1
          /\ AttachDetail(b, do.path).revNonce = b.revNonce
          /\ AttachDetail(b, do.path).revoked = b.revoked
          /\ AttachDetail(b, do.path).dead = b.dead
        BY DEF AttachDetail, Body
    <2> QED
        BY <1>1, <1>2, <2>1, <2>2 DEF Good, Kept, Fresh, Applies
<1>3. CASE do.op = "revokeDetail"
    <2>1. Changed(do, b) = RevokeDetail(b, do.path)
        BY <1>3 DEF Changed
    <2>2. /\ RevokeDetail(b, do.path).who = b.who
          /\ RevokeDetail(b, do.path).nonce = b.nonce
          /\ RevokeDetail(b, do.path).revNonce = b.revNonce + 1
          /\ RevokeDetail(b, do.path).revoked = b.revoked \union {do.path}
          /\ RevokeDetail(b, do.path).dead = b.dead
        BY DEF RevokeDetail, Body
    <2> QED
        BY <1>1, <1>3, <2>1, <2>2 DEF Good, Kept, Fresh, Applies
<1>4. CASE do.op = "revokeIdentity"
    <2>1. Changed(do, b) = RevokeIdentity(b)
        BY <1>4 DEF Changed
    <2>2. /\ RevokeIdentity(b).who = b.who
          /\ RevokeIdentity(b).nonce = b.nonce
          /\ RevokeIdentity(b).revNonce = b.revNonce + 1
          /\ RevokeIdentity(b).revoked = b.revoked
          /\ RevokeIdentity(b).dead = TRUE
        BY DEF RevokeIdentity, Body
    <2> QED
        BY <1>1, <1>4, <2>1, <2>2 DEF Good, Kept, Fresh, Applies
<1> QED
    BY <1>2, <1>3, <1>4 DEF Applies

LEMMA NewBodyGood ==
    ASSUME TypeOK, UnknownIsBlank, NEW i \in Identities, ~server[i].known
    PROVE Good(NewBody(i), server)
<1>1. server[i] = NoRecord
    BY DEF UnknownIsBlank
<1> QED
    BY <1>1 DEF Good, NewBody, NoRecord

\* A request goes on with the job it becomes.
Goes(w, j, f) == worker' = [worker EXCEPT ![w] = j] /\ Carries(j, f, server)

LEMMA ReplyGoes ==
    ASSUME NEW w \in Workers, Reply(w), NEW f
    PROVE \E j : Goes(w, j, f)
<1>1. Carries(Idle, f, server)
    BY DEF Carries, Idle
<1> QED
    BY <1>1 DEF Reply, Goes

LEMMA ProceedGoes ==
    ASSUME TypeOK, NEW w \in Workers, NEW do \in Changes \union Uses, NEW b \in Body,
           do.op # "signup", Good(b, server), NEW key, NEW salt,
           Proceed(w, do, b, key, salt), NEW f
    PROVE \E j : Goes(w, j, f)
<1>1. CASE Applies(do, b) /\
           Become(w, [pc |-> "encode", do |-> do, key |-> key, salt |-> salt,
                      body |-> Changed(do, b)])
    <2> DEFINE j == [pc |-> "encode", do |-> do, key |-> key, salt |-> salt,
                     body |-> Changed(do, b)]
    <2>1. Good(Changed(do, b), server) /\ Kept(do, Changed(do, b), server)
        BY <1>1, ChangedGood
    <2>2. Carries(j, f, server)
        BY <2>1 DEF Carries
    <2> QED
        BY <1>1, <2>2 DEF Become, Goes
<1>2. CASE do.op = "publish" /\ Become(w, [pc |-> "push", do |-> do, body |-> b])
    <2> DEFINE j == [pc |-> "push", do |-> do, body |-> b]
    <2>1. Carries(j, f, server)
        BY <1>2 DEF Carries
    <2> QED
        BY <1>2, <2>1 DEF Become, Goes
<1>3. CASE Reply(w)
    BY <1>3, ReplyGoes
<1> QED
    BY <1>1, <1>2, <1>3 DEF Proceed

LEMMA ReceiveGoes ==
    ASSUME SmoothInv, NEW w \in Workers, Receive(w), smooth'
    PROVE /\ smooth /\ Alone(w)
          /\ UNCHANGED server
          /\ file' \in {file, Absent}
          /\ \E j : Goes(w, j, file')
<1>1. \A do \in Changes \union Uses : \A k, s : do.op # "signup" =>
          /\ Carries([pc |-> "read", do |-> do, key |-> k, salt |-> s], file, server)
          /\ Carries([pc |-> "unlock", do |-> do], file, server)
          /\ Carries([pc |-> "cliRead", do |-> do], file, server)
    BY DEF Carries
<1>2. ASSUME NEW do \in Changes \union Uses,
             BeginUnlocked(w, do) \/ BeginWithPassword(w, do) \/ BeginCli(w, do)
      PROVE file' = file /\ \E j : Become(w, j) /\ Carries(j, file', server)
    <2>1. do.op # "signup"
        BY <1>2 DEF BeginUnlocked, BeginWithPassword, BeginCli
    <2> QED
        BY <1>1, <1>2, <2>1 DEF BeginUnlocked, BeginWithPassword, BeginCli, Begin
<1>3. ASSUME NEW i \in Identities, Generate(w, i)
      PROVE file' = file /\ \E j : Become(w, j) /\ Carries(j, file', server)
    <2> DEFINE j == [pc |-> "encode", do |-> Nobody, key |-> Password, salt |-> Nobody,
                     body |-> NewBody(i)]
    <2>1. Good(NewBody(i), server)
        BY <1>3, NewBodyGood DEF Generate, SmoothInv
    <2>2. Carries(j, file', server)
        BY <2>1 DEF Carries
    <2> QED
        BY <1>3, <2>2 DEF Generate, Begin
<1>4. CASE DeleteIdentity(w)
    <2>1. Carries([pc |-> "lock"], file', server)
        BY DEF Carries
    <2> QED
        BY <1>4, <2>1 DEF DeleteIdentity, Begin, Become, Goes, Alone, At
<1>5. \/ \E do \in Changes \union Uses :
            BeginUnlocked(w, do) \/ BeginWithPassword(w, do) \/ BeginCli(w, do)
      \/ \E i \in Identities : Generate(w, i)
      \/ DeleteIdentity(w)
    <2>1. /\ \A i \in Identities : ~ImportFile(w, i)
          /\ \A do \in Changes \union Uses : ~BeginSignup(w, do)
        BY DEF ImportFile, BeginSignup
    <2> QED
        BY <2>1 DEF Receive
<1>6. smooth /\ Alone(w)
    BY <1>5 DEF BeginUnlocked, BeginWithPassword, BeginCli, Generate, DeleteIdentity,
       Begin, Alone, At
<1>7. UNCHANGED server
    BY DEF Receive, BeginUnlocked, BeginWithPassword, BeginCli, BeginSignup, Generate,
       ImportFile, DeleteIdentity
<1>8. ASSUME NEW j, Become(w, j), Carries(j, file', server)
      PROVE Goes(w, j, file')
    BY <1>8 DEF Become, Goes
<1> QED
    BY <1>2, <1>3, <1>4, <1>5, <1>6, <1>7, <1>8

LEMMA StepGoes ==
    ASSUME SmoothInv, smooth, NEW w \in Workers, Step(w),
           ~PushDetail(w), ~PushSignup(w), ~PushRevocation(w), ~PublishIdentity(w)
    PROVE /\ Alone(w) /\ UNCHANGED <<server, smooth>>
          /\ file' = file \/ file' = Torn \/ Good(file'.body, server)
          /\ \E j : Goes(w, j, file')
<1>0. /\ TypeOK
      /\ Carries(worker[w], file, server)
      /\ file.state = "whole" => Good(file.body, server) /\ file.body \in Body
    BY DEF SmoothInv, TypeOK, Contents, Whole, Absent, Torn
<1>1. Alone(w) /\ UNCHANGED <<server, smooth>>
    BY DEF Step, LoadWithKey, Unlock, AfterUnlock, CliLoad, Encode, Truncate, Finish,
       DeleteLocks, Fail, At, SmoothInv
<1>2. CASE LoadWithKey(w)
    <2>1. worker[w].do \in Changes \union Uses /\ worker[w].do.op # "signup" /\ file' = file
        BY <1>0, <1>2, JobFields DEF LoadWithKey, TypeOK, At, Carries
    <2> QED
        BY <1>0, <1>1, <1>2, <2>1, ProceedGoes, ReplyGoes DEF LoadWithKey
<1>3. CASE Unlock(w)
    <2>0. worker[w].do.op # "signup"
        BY <1>0, <1>3 DEF Unlock, At, Carries
    <2>1. CASE OpensWithPassword(file)
        <3> DEFINE j == [pc |-> "unlocked", do |-> worker[w].do, body |-> file.body]
        <3>1. Carries(j, file', server)
            BY <1>0, <2>0, <2>1 DEF Carries, OpensWithPassword
        <3> QED
            BY <1>1, <1>3, <2>1, <3>1 DEF Unlock, Become, Goes
    <2>2. CASE ~OpensWithPassword(file)
        BY <1>1, <1>3, <2>2, ReplyGoes DEF Unlock
    <2> QED
        BY <2>1, <2>2
<1>4. CASE AfterUnlock(w)
    <2>1. /\ worker[w].do \in Changes \union Uses /\ worker[w].body \in Body
          /\ Good(worker[w].body, server) /\ worker[w].do.op # "signup"
        BY <1>0, <1>4, JobFields DEF AfterUnlock, TypeOK, At, Carries
    <2>2. file' = file
        BY <1>4 DEF AfterUnlock
    <2>3. CASE session # NoSession
        BY <1>0, <1>1, <1>4, <2>1, <2>2, <2>3, ProceedGoes DEF AfterUnlock
    <2>4. CASE session = NoSession
        BY <1>0, <1>1, <1>4, <2>1, <2>2, <2>4, ProceedGoes DEF AfterUnlock
    <2> QED
        BY <2>3, <2>4
<1>5. CASE CliLoad(w)
    <2>1. worker[w].do \in Changes \union Uses /\ worker[w].do.op # "signup" /\ file' = file
        BY <1>0, <1>5, JobFields DEF CliLoad, TypeOK, At, Carries
    <2> QED
        BY <1>0, <1>1, <1>5, <2>1, ProceedGoes, ReplyGoes DEF CliLoad, OpensWithPassword
<1>6. CASE Encode(w)
    <2>1. PICK s \in Salts, enc \in Salts \union {Zero} :
              Become(w, [pc |-> "truncate", do |-> worker[w].do,
                         out |-> [state |-> "whole", salt |-> s, enc |-> enc,
                                  body |-> worker[w].body]])
        BY <1>6 DEF Encode
    <2> DEFINE j == [pc |-> "truncate", do |-> worker[w].do,
                     out |-> [state |-> "whole", salt |-> s, enc |-> enc,
                              body |-> worker[w].body]]
    <2>2. /\ Good(worker[w].body, server)
          /\ worker[w].do # Nobody => Kept(worker[w].do, worker[w].body, server)
        BY <1>0, <1>6 DEF Encode, At, Carries
    <2>3. Carries(j, file', server)
        BY <2>2 DEF Carries
    <2> QED
        BY <1>1, <1>6, <2>1, <2>3 DEF Encode, Become, Goes
<1>7. CASE Truncate(w)
    <2> DEFINE j == [worker[w] EXCEPT !.pc = "finish"]
    <2>1. worker[w] \in Writing
        BY <1>0, <1>7, KeysAssumption DEF Truncate, At, TypeOK, Job, Idle, Loading, Unlocked,
           Saving, Creating, Pushing, Deleting
    <2>2. j.pc = "finish" /\ j.out = worker[w].out /\ j.do = worker[w].do
        BY <2>1 DEF Writing
    <2>3. /\ Good(worker[w].out.body, server)
          /\ worker[w].do # Nobody => Kept(worker[w].do, worker[w].out.body, server)
        BY <1>0, <1>7 DEF Truncate, At, Carries
    <2>4. worker' = [worker EXCEPT ![w] = j]
        BY <1>7 DEF Truncate
    <2> HIDE DEF j
    <2>5. Carries(j, file', server)
        BY <2>2, <2>3 DEF Carries
    <2> QED
        BY <1>1, <1>7, <2>4, <2>5 DEF Truncate, Goes
<1>8. CASE Finish(w)
    <2>1. /\ Good(worker[w].out.body, server)
          /\ worker[w].do # Nobody => Kept(worker[w].do, worker[w].out.body, server)
        BY <1>0, <1>8 DEF Finish, At, Carries
    <2>2. file' = worker[w].out
        BY <1>8 DEF Finish
    <2>3. CASE /\ worker[w].do \in Changes /\ worker[w].do.op # "signup"
               /\ Become(w, [pc |-> "push", do |-> worker[w].do, body |-> worker[w].out.body])
        <3> DEFINE j == [pc |-> "push", do |-> worker[w].do, body |-> worker[w].out.body]
        <3>0. worker[w].do # Nobody
            BY <2>3, NobodyAssumption
        <3>1. Carries(j, file', server)
            BY <2>1, <2>2, <2>3, <3>0 DEF Carries
        <3> QED
            BY <1>1, <2>1, <2>2, <2>3, <3>1 DEF Become, Goes
    <2>4. CASE Reply(w)
        BY <1>1, <2>1, <2>2, <2>4, ReplyGoes
    <2> QED
        BY <1>8, <2>3, <2>4 DEF Finish
<1>9. CASE DeleteLocks(w) \/ Fail(w)
    BY <1>1, <1>9, ReplyGoes DEF DeleteLocks, Fail
<1> QED
    BY <1>2, <1>3, <1>4, <1>5, <1>6, <1>7, <1>8, <1>9 DEF Step

\* A push leaves the server behind the file, which has what was pushed.
LEMMA PushGood ==
    ASSUME SmoothInv, smooth, NEW w \in Workers,
           PublishIdentity(w) \/ PushDetail(w) \/ PushRevocation(w), file.state = "whole"
    PROVE Good(file.body, server')
<1> DEFINE b == worker[w].body
           p == worker[w].do.path
           r == server[b.who]
<1>0. TypeOK /\ Good(file.body, server) /\ file.body \in Body
    BY DEF SmoothInv, TypeOK, Contents, Whole, Absent, Torn
<1>1. b \in Body /\ b.who \in Identities /\ file.body.who \in Identities
    <2>1. b \in Body
        BY <1>0, JobFields DEF PublishIdentity, PushDetail, PushRevocation, TypeOK
    <2> QED
        BY <1>0, <2>1 DEF Body
<1>2. b.nonce \in Nat /\ b.revNonce \in Nat /\ r \in Record
    BY <1>0, <1>1, MaxNonceAssumption DEF Body, TypeOK
<1>3. worker[w].do.op # "publish" => Kept(worker[w].do, b, server) /\ file.body = b
    BY DEF SmoothInv, Carries, PublishIdentity, PushDetail, PushRevocation, At
<1>4. ASSUME NEW q, server' = [server EXCEPT ![b.who] = q],
             file.body.who = b.who =>
                /\ q.top < file.body.nonce
                /\ q.revTop < file.body.revNonce
                /\ q.dead => file.body.dead
                /\ \A x \in Paths : q.rows[x] = "revoked" => x \in file.body.revoked
      PROVE Good(file.body, server')
    <2>1. CASE file.body.who = b.who
        <3>1. server'[file.body.who] = q
            BY <1>0, <1>1, <1>4, <2>1 DEF TypeOK
        <3> QED
            BY <1>4, <2>1, <3>1 DEF Good
    <2>2. CASE file.body.who # b.who
        <3>1. server'[file.body.who] = server[file.body.who]
            BY <1>0, <1>1, <1>4, <2>2 DEF TypeOK
        <3> QED
            BY <1>0, <3>1 DEF Good
    <2> QED
        BY <2>1, <2>2
<1>5. file.body.who = b.who =>
          /\ r.top < file.body.nonce /\ r.revTop < file.body.revNonce
          /\ r.dead => file.body.dead
          /\ \A x \in Paths : r.rows[x] = "revoked" => x \in file.body.revoked
    BY <1>0 DEF Good
<1>6. CASE server' = server
    BY <1>0, <1>6
<1>7. CASE PublishIdentity(w)
    <2> DEFINE q == [r EXCEPT !.known = TRUE]
    <2>1. server' = [server EXCEPT ![b.who] = q]
        BY <1>7 DEF PublishIdentity
    <2>2. q.top = r.top /\ q.revTop = r.revTop /\ q.dead = r.dead /\ q.rows = r.rows
        BY <1>2 DEF Record
    <2> HIDE DEF q
    <2> QED
        BY <1>4, <1>5, <2>1, <2>2
<1>8. CASE PushDetail(w) /\ server' # server
    <2> DEFINE q == [r EXCEPT !.rows = [r.rows EXCEPT ![p] = "active"], !.top = b.nonce - 1]
    <2>1. server' = [server EXCEPT ![b.who] = q]
        BY <1>8 DEF PushDetail
    <2>2. /\ q.top = b.nonce - 1 /\ q.revTop = r.revTop /\ q.dead = r.dead
          /\ q.rows = [r.rows EXCEPT ![p] = "active"]
        BY <1>2 DEF Record
    <2> HIDE DEF q
    <2>3. \A x \in Paths : q.rows[x] = "revoked" => r.rows[x] = "revoked"
        BY <1>2, <2>2 DEF Record
    <2>4. file.body = b
        BY <1>3, <1>8 DEF PushDetail
    <2>5. q.top < file.body.nonce
        BY <1>2, <2>2, <2>4
    <2> QED
        BY <1>4, <1>5, <2>1, <2>2, <2>3, <2>5
<1>9. CASE /\ PushRevocation(w) /\ worker[w].do.op = "revokeDetail"
           /\ server' # server
    <2> DEFINE q == [r EXCEPT !.rows = [r.rows EXCEPT ![p] = IF r.rows[p] = "none" THEN "none"
                                                             ELSE "revoked"],
                              !.revTop = b.revNonce - 1]
    <2>1. server' = [server EXCEPT ![b.who] = q]
        BY <1>9 DEF PushRevocation
    <2>2. /\ q.top = r.top /\ q.revTop = b.revNonce - 1 /\ q.dead = r.dead
          /\ q.rows = [r.rows EXCEPT ![p] = IF r.rows[p] = "none" THEN "none" ELSE "revoked"]
        BY <1>2 DEF Record
    <2> HIDE DEF q
    <2>3. \A x \in Paths : q.rows[x] = "revoked" => r.rows[x] = "revoked" \/ x = p
        BY <1>2, <2>2 DEF Record
    <2>4. file.body = b /\ p \in b.revoked
        BY <1>3, <1>9 DEF Kept
    <2>5. q.revTop < file.body.revNonce
        BY <1>2, <2>2, <2>4
    <2> QED
        BY <1>4, <1>5, <2>1, <2>2, <2>3, <2>4, <2>5
<1>10. CASE /\ PushRevocation(w) /\ worker[w].do.op = "revokeIdentity"
            /\ server' # server
    <2> DEFINE q == [r EXCEPT !.dead = TRUE, !.revTop = b.revNonce - 1]
    <2>1. server' = [server EXCEPT ![b.who] = q]
        BY <1>10 DEF PushRevocation
    <2>2. q.top = r.top /\ q.revTop = b.revNonce - 1 /\ q.dead = TRUE /\ q.rows = r.rows
        BY <1>2 DEF Record
    <2> HIDE DEF q
    <2>3. file.body = b /\ b.dead
        BY <1>3, <1>10 DEF Kept
    <2>4. q.revTop < file.body.revNonce
        BY <1>2, <2>2, <2>3
    <2> QED
        BY <1>4, <1>5, <2>1, <2>2, <2>3, <2>4
<1> QED
    BY <1>6, <1>7, <1>8, <1>9, <1>10 DEF PushRevocation

LEMMA PushBlank ==
    ASSUME TypeOK, UnknownIsBlank, NEW w \in Workers,
           PublishIdentity(w) \/ PushDetail(w) \/ PushSignup(w) \/ PushRevocation(w)
    PROVE UnknownIsBlank'
<1> DEFINE b == worker[w].body
           p == worker[w].do.path
           r == server[b.who]
<1>1. b.who \in Identities /\ r \in Record
    <2>1. b \in Body
        BY JobFields DEF PublishIdentity, PushDetail, PushSignup, PushRevocation, TypeOK
    <2> QED
        BY <2>1 DEF Body, TypeOK
<1>2. ASSUME NEW q, server' = [server EXCEPT ![b.who] = q], q.known = TRUE
      PROVE UnknownIsBlank'
    BY <1>1, <1>2 DEF TypeOK, UnknownIsBlank
<1>3. CASE PublishIdentity(w)
    <2> DEFINE q == [r EXCEPT !.known = TRUE]
    <2>1. server' = [server EXCEPT ![b.who] = q] /\ q.known = TRUE
        BY <1>1, <1>3 DEF PublishIdentity, Record
    <2> QED
        BY <1>2, <2>1
<1>4. CASE (PushDetail(w) \/ PushSignup(w)) /\ server' # server
    <2> DEFINE q == [r EXCEPT !.rows = [r.rows EXCEPT ![p] = "active"], !.top = b.nonce - 1]
    <2>1. server' = [server EXCEPT ![b.who] = q] /\ r.known
        BY <1>4 DEF PushDetail, PushSignup
    <2>2. q.known = TRUE
        BY <1>1, <2>1 DEF Record
    <2> QED
        BY <1>2, <2>1, <2>2
<1>5. CASE /\ PushRevocation(w) /\ worker[w].do.op = "revokeDetail"
           /\ server' # server
    <2> DEFINE q == [r EXCEPT !.rows = [r.rows EXCEPT ![p] = IF r.rows[p] = "none" THEN "none"
                                                             ELSE "revoked"],
                              !.revTop = b.revNonce - 1]
    <2>1. server' = [server EXCEPT ![b.who] = q] /\ r.known
        BY <1>5 DEF PushRevocation
    <2>2. q.known = TRUE
        BY <1>1, <2>1 DEF Record
    <2> QED
        BY <1>2, <2>1, <2>2
<1>6. CASE /\ PushRevocation(w) /\ worker[w].do.op = "revokeIdentity"
           /\ server' # server
    <2> DEFINE q == [r EXCEPT !.dead = TRUE, !.revTop = b.revNonce - 1]
    <2>1. server' = [server EXCEPT ![b.who] = q] /\ r.known
        BY <1>6 DEF PushRevocation
    <2>2. q.known = TRUE
        BY <1>1, <2>1 DEF Record
    <2> QED
        BY <1>2, <2>1, <2>2
<1>7. CASE server' = server
    BY <1>7 DEF UnknownIsBlank
<1> QED
    BY <1>3, <1>4, <1>5, <1>6, <1>7 DEF PushRevocation

\* When one request moves and the others are idle, only the job it gets matters.
LEMMA AloneKeeps ==
    ASSUME TypeOK, NEW w \in Workers, Alone(w), NEW j, worker' = [worker EXCEPT ![w] = j],
           Carries(j, file', server')
    PROVE /\ \A v \in Workers : worker'[v].pc # "idle" => Alone(v)'
          /\ \A v \in Workers : Carries(worker'[v], file', server')
<1>1. worker'[w] = j /\ \A v \in Workers : v # w => worker'[v].pc = "idle"
    BY DEF TypeOK, Alone
<1>2. \A v \in Workers : worker'[v].pc = "idle" => Carries(worker'[v], file', server')
    BY DEF Carries
<1>3. \A v \in Workers : Carries(worker'[v], file', server')
    BY <1>1, <1>2
<1>4. ASSUME NEW v \in Workers, worker'[v].pc # "idle"
      PROVE Alone(v)'
    <2>1. v = w
        BY <1>1, <1>4
    <2> QED
        BY <1>1, <2>1 DEF Alone
<1> QED
    BY <1>3, <1>4

LEMMA StepSmooth == SmoothInv /\ [Next]_vars => SmoothInv'
<1> SUFFICES ASSUME SmoothInv, [Next]_vars PROVE SmoothInv'
    OBVIOUS
<1>0. TypeOK /\ TypeOK'
    BY StepTypeOK DEF SmoothInv
<1>1. CASE UNCHANGED vars
    BY <1>0, <1>1 DEF vars, SmoothInv, UnknownIsBlank, Alone
<1>2. CASE Lock
    BY <1>0, <1>2 DEF Lock, SmoothInv, UnknownIsBlank, Alone
<1>3. ASSUME NEW w \in Workers, Receive(w)
      PROVE SmoothInv'
    <2>1. UNCHANGED server
        BY <1>3 DEF Receive, BeginUnlocked, BeginWithPassword, BeginCli, BeginSignup, Generate,
           ImportFile, DeleteIdentity
    <2>2. UnknownIsBlank'
        BY <2>1 DEF SmoothInv, UnknownIsBlank
    <2>3. ASSUME smooth'
          PROVE /\ \A v \in Workers : worker'[v].pc # "idle" => Alone(v)'
                /\ file'.state = "whole" => Good(file'.body, server')
                /\ \A v \in Workers : Carries(worker'[v], file', server')
        <3>1. smooth /\ Alone(w) /\ file' \in {file, Absent}
            BY <1>3, <2>3, ReceiveGoes
        <3>2. PICK j : Goes(w, j, file')
            BY <1>3, <2>3, ReceiveGoes
        <3>3. file'.state = "whole" => Good(file'.body, server')
            BY <2>1, <3>1 DEF SmoothInv, Absent
        <3> QED
            BY <1>0, <2>1, <3>1, <3>2, <3>3, AloneKeeps DEF Goes
    <2> QED
        BY <1>0, <2>2, <2>3 DEF SmoothInv
<1>4. ASSUME NEW w \in Workers, Step(w),
             ~PushDetail(w), ~PushSignup(w), ~PushRevocation(w), ~PublishIdentity(w)
      PROVE SmoothInv'
    <2>1. UNCHANGED <<server, smooth>>
        BY <1>4 DEF Step, LoadWithKey, Unlock, AfterUnlock, CliLoad, Encode, Truncate, Finish,
           DeleteLocks, Fail
    <2>2. UnknownIsBlank'
        BY <2>1 DEF SmoothInv, UnknownIsBlank
    <2>3. ASSUME smooth'
          PROVE /\ \A v \in Workers : worker'[v].pc # "idle" => Alone(v)'
                /\ file'.state = "whole" => Good(file'.body, server')
                /\ \A v \in Workers : Carries(worker'[v], file', server')
        <3>1. Alone(w) /\ (file' = file \/ file' = Torn \/ Good(file'.body, server))
            BY <1>4, <2>1, <2>3, StepGoes
        <3>2. PICK j : Goes(w, j, file')
            BY <1>4, <2>1, <2>3, StepGoes
        <3>3. file'.state = "whole" => Good(file'.body, server')
            BY <2>1, <2>3, <3>1 DEF SmoothInv, Torn
        <3> QED
            BY <1>0, <2>1, <3>1, <3>2, <3>3, AloneKeeps DEF Goes
    <2> QED
        BY <1>0, <2>2, <2>3 DEF SmoothInv
<1>5. ASSUME NEW w \in Workers, PublishIdentity(w) \/ PushDetail(w) \/ PushRevocation(w)
      PROVE SmoothInv'
    <2>1. Reply(w) /\ UNCHANGED <<file, smooth>> /\ worker[w].pc = "push"
        BY <1>5 DEF PublishIdentity, PushDetail, PushRevocation, At
    <2>2. UnknownIsBlank'
        BY <1>0, <1>5, PushBlank DEF SmoothInv
    <2>3. ASSUME smooth'
          PROVE /\ \A v \in Workers : worker'[v].pc # "idle" => Alone(v)'
                /\ file'.state = "whole" => Good(file'.body, server')
                /\ \A v \in Workers : Carries(worker'[v], file', server')
        <3>1. Alone(w)
            BY <2>1, <2>3 DEF SmoothInv
        <3>2. file'.state = "whole" => Good(file'.body, server')
            BY <1>5, <2>1, <2>3, PushGood
        <3>3. Carries(Idle, file', server')
            BY DEF Carries, Idle
        <3> QED
            BY <1>0, <2>1, <3>1, <3>2, <3>3, AloneKeeps DEF Reply
    <2> QED
        BY <1>0, <2>2, <2>3 DEF SmoothInv
<1>6. ASSUME NEW w \in Workers, PushSignup(w)
      PROVE SmoothInv'
    <2>1. ~smooth'
        BY <1>6 DEF PushSignup, At, SmoothInv, Carries
    <2>2. UnknownIsBlank'
        BY <1>0, <1>6, PushBlank DEF SmoothInv
    <2> QED
        BY <1>0, <2>1, <2>2 DEF SmoothInv
<1> QED
    BY <1>1, <1>2, <1>3, <1>4, <1>5, <1>6 DEF Next, Step

LEMMA InitSmooth == Init => SmoothInv
<1> SUFFICES ASSUME Init PROVE SmoothInv
    OBVIOUS
<1>1. TypeOK
    BY InitTypeOK
<1>2. UnknownIsBlank
    BY DEF Init, UnknownIsBlank
<1>3. \A w \in Workers : worker[w].pc = "idle"
    BY DEF Init, Idle
<1>4. file.state # "whole"
    BY DEF Init, Absent
<1> QED
    BY <1>1, <1>2, <1>3, <1>4 DEF SmoothInv, Carries

\* While requests do not overlap, what the file signs next is above all the server has
\* seen, wherever a request fails (routes.ts:4862-4875, core/Identity.ts:808-825).  A mailbox
\* sign-up pushes before it saves, and is not covered (routes.ts:4594-4612).
THEOREM FileStaysAhead == Spec => []FileAhead
<1>1. SmoothInv => FileAhead
    BY DEF SmoothInv, FileAhead, Good
<1> QED
    BY <1>1, InitSmooth, StepSmooth, PTL DEF Spec

\* And the file has recorded every revocation the server has (routes.ts:5271-5285).
THEOREM RevocationsAreRecorded == Spec => []RevocationsRecorded
<1>1. SmoothInv => RevocationsRecorded
    BY DEF SmoothInv, RevocationsRecorded, Good
<1> QED
    BY <1>1, InitSmooth, StepSmooth, PTL DEF Spec

\* While requests do not overlap, no detail or revocation that is pushed is refused for its
\* nonce, whatever failed before it, and the owner's revocation of the identity never finds
\* it revoked already (handlers/identity.ts:336-343, handlers/revocation.ts:57-94).
THEOREM PushesAreFresh ==
    Spec => [](smooth => \A w \in Workers : At(w, "push") =>
                            Fresh(worker[w].do, worker[w].body, server))
<1>1. SmoothInv => (smooth => \A w \in Workers : At(w, "push") =>
                                 Fresh(worker[w].do, worker[w].body, server))
    BY DEF SmoothInv, Carries, Kept, Fresh, At
<1> QED
    BY <1>1, InitSmooth, StepSmooth, PTL DEF Spec
=============================================================================
