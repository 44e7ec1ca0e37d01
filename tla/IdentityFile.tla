---------------------------- MODULE IdentityFile ----------------------------
(***************************************************************************)
(* The identity file of a user and the requests that use it: the routes of *)
(* the GUI's local backend (gui/local-backend/routes.ts, identity.ts,      *)
(* unlock-session.ts) and the commands of the CLI, a second process on the *)
(* same file (cli/commands/details.ts, cli/utils.ts).                      *)
(*                                                                         *)
(* A request reads the file, decrypts it with the password or with the key *)
(* of the unlock session, changes the identity, writes the file and then   *)
(* pushes the change to the key server.  An action is what runs between    *)
(* two `await`s.  Nothing locks the file, and a key that a request holds   *)
(* is zeroed in place when its session is dropped.                         *)
(*                                                                         *)
(* Sessions expire at any time here (`Lock`), whatever the clock says.     *)
(***************************************************************************)
EXTENDS Integers

CONSTANTS
    Identities,   \* key pairs
    Paths,        \* detail paths
    Workers,      \* requests that can be in progress together
    Keys,         \* Uint8Array objects that hold a storage key
    Salts,        \* random salts (bounds those in use together)
    Password,     \* in place of a key: derive one, with a new salt, when saving
    Zero,         \* the content of a zeroed key
    Nobody,       \* no identity, no key, no salt
    MaxNonce      \* bound on the nonces an identity signs with

ASSUME KeysAssumption == Password \notin Keys /\ Nobody \notin Keys
ASSUME SaltsAssumption == Zero \notin Salts /\ Nobody \notin Salts
ASSUME MaxNonceAssumption == MaxNonce \in Nat

VARIABLES
    file,     \* <name>.identity.json
    session,  \* the unlock session of this identity
    bytes,    \* bytes[k]: whose salt's key the array k holds, or Zero
    worker,   \* the requests in progress
    server,   \* server[i]: what the key server knows of i
    smooth    \* history: no overlap of requests, no imported copy, no sign-up

vars == <<file, session, bytes, worker, server, smooth>>

\* The part of an identity that changes.
Body == [who : Identities, nonce : 0 .. MaxNonce, revNonce : 0 .. MaxNonce,
         details : SUBSET Paths, revoked : SUBSET Paths, dead : BOOLEAN]
NewBody(i) == [who |-> i, nonce |-> 0, revNonce |-> 0,
               details |-> {}, revoked |-> {}, dead |-> FALSE]

\* A file names the salt of its key in clear; `enc` is the key it is encrypted with.
Whole == [state : {"whole"}, salt : Salts, enc : Salts \union {Zero}, body : Body]
Absent == [state |-> "absent"]
Torn == [state |-> "torn"]   \* truncated, and not written yet
Contents == Whole \union {Absent, Torn}

NoSession == [key |-> Nobody, salt |-> Nobody]
Session == [key : Keys, salt : Salts] \union {NoSession}

\* The server, one request at a time (module Ledger).
Record == [known : BOOLEAN, rows : [Paths -> {"none", "active", "revoked"}],
           top : -1 .. MaxNonce, revTop : -1 .. MaxNonce, dead : BOOLEAN]
NoRecord == [known |-> FALSE, rows |-> [p \in Paths |-> "none"],
             top |-> -1, revTop |-> -1, dead |-> FALSE]

Changes == [op : {"detail", "revokeDetail", "signup"}, path : Paths]
           \union [op : {"revokeIdentity"}, path : {Nobody}]
Uses == [op : {"publish", "unlock"}, path : {Nobody}]
ASSUME NobodyAssumption == Nobody \notin Changes

Idle == [pc |-> "idle"]
Loading == [pc : {"read"}, do : Changes \union Uses, key : Keys, salt : Salts]
           \union [pc : {"unlock", "cliRead"}, do : Changes \union Uses]
Unlocked == [pc : {"unlocked"}, do : Changes \union Uses, body : Body]
Saving == [pc : {"encode"}, do : Changes, key : Keys, salt : Salts, body : Body]
          \union [pc : {"encode"}, do : Changes, key : {Password}, salt : {Nobody},
                  body : Body]
Creating == [pc : {"encode"}, do : {Nobody}, key : {Password}, salt : {Nobody}, body : Body]
Writing == [pc : {"truncate", "finish"}, do : Changes \union {Nobody}, out : Whole]
Pushing == [pc : {"push"}, do : Changes \union Uses, body : Body]
Deleting == [pc : {"lock"}]
Job == {Idle} \union Loading \union Unlocked \union Saving \union Creating
       \union Writing \union Pushing \union Deleting

Init ==
    /\ file = Absent
    /\ session = NoSession
    /\ bytes = [k \in Keys |-> Zero]
    /\ worker = [w \in Workers |-> Idle]
    /\ server = [i \in Identities |-> NoRecord]
    /\ smooth = TRUE

----------------------------------------------------------------------------
(* Identity: what a change does to it. *)

\* attachDetail: a detail is replaced, revoked or not.
AttachDetail(b, p) ==
    [b EXCEPT !.details = @ \union {p}, !.nonce = @ + 1]

\* Faulty variant: the detail goes and its certificate is not kept.
RevokeDetailOnly(b, p) ==
    [b EXCEPT !.details = @ \ {p}, !.revNonce = @ + 1]

\* revokeDetail throws when the path has no detail.
RevokeDetail(b, p) ==
    [b EXCEPT !.details = @ \ {p}, !.revoked = @ \union {p}, !.revNonce = @ + 1]

\* createIdentityRevocation throws when there is a certificate.
RevokeIdentity(b) ==
    [b EXCEPT !.dead = TRUE, !.revNonce = @ + 1]

\* The request passes its checks (and the bound MaxNonce is not reached).
Applies(do, b) ==
    \/ do.op \in {"detail", "signup"} /\ b.nonce < MaxNonce
    \/ do.op = "revokeDetail" /\ do.path \in b.details /\ b.revNonce < MaxNonce
    \/ do.op = "revokeIdentity" /\ ~b.dead /\ b.revNonce < MaxNonce

Changed(do, b) ==
    CASE do.op \in {"detail", "signup"} -> AttachDetail(b, do.path)
      [] do.op = "revokeDetail" -> RevokeDetail(b, do.path)
      [] do.op = "revokeIdentity" -> RevokeIdentity(b)

----------------------------------------------------------------------------
(* Sessions and keys. *)

At(w, pc) == worker[w].pc = pc
Reply(w) == worker' = [worker EXCEPT ![w] = Idle]
Become(w, job) == worker' = [worker EXCEPT ![w] = job]

HoldsKey(w, k) == worker[w].pc \in {"read", "encode"} /\ worker[w].key = k

\* Arrays no one refers to any more.
FreeKeys == {k \in Keys : session.key # k /\ \A w \in Workers : ~HoldsKey(w, k)}

\* A random salt is none of those in use.
FreshSalts ==
    Salts \ ({session.salt} \union {bytes[k] : k \in Keys}
             \union {f.salt : f \in {g \in {file} : g.state = "whole"}}
             \union {worker[w].salt : w \in {v \in Workers : At(v, "read") \/ At(v, "encode")}}
             \union {worker[w].out.salt : w \in {v \in Workers : At(v, "truncate") \/ At(v, "finish")}})

\* Faulty variant: the array is not zeroed.
DropSessionOnly ==
    /\ session' = NoSession
    /\ UNCHANGED bytes

\* Faulty variant: the array is zeroed and the session stays.
ZeroSession ==
    /\ bytes' = IF session = NoSession THEN bytes ELSE [bytes EXCEPT ![session.key] = Zero]
    /\ UNCHANGED session

\* dropSession: zero the array in place and forget it.
DropSession ==
    /\ session' = NoSession
    /\ bytes' = IF session = NoSession THEN bytes ELSE [bytes EXCEPT ![session.key] = Zero]

\* sessions.set: a new array takes over, the previous one is zeroed.
ReplaceSession(k, s) ==
    /\ session' = [key |-> k, salt |-> s]
    /\ bytes' = [j \in Keys |-> IF j = k THEN s
                                ELSE IF j = session.key THEN Zero
                                ELSE bytes[j]]

\* The password opens a file when the key of its header is the one it was saved with.
OpensWithPassword(f) == f.state = "whole" /\ f.enc = f.salt

----------------------------------------------------------------------------
(* Beginning of a request. *)

Begin(w, job) ==
    /\ At(w, "idle")
    /\ Become(w, job)
    /\ smooth' = (smooth /\ \A v \in Workers \ {w} : At(v, "idle"))

\* loadIdentityForRequest without a password; no live session is answered 401.
BeginUnlocked(w, do) ==
    /\ do.op \notin {"unlock", "signup"}
    /\ session # NoSession
    /\ Begin(w, [pc |-> "read", do |-> do, key |-> session.key, salt |-> session.salt])
    /\ UNCHANGED <<file, session, bytes, server>>

\* The same with a password, and POST /identity/unlock.
BeginWithPassword(w, do) ==
    /\ do.op # "signup"
    /\ Begin(w, [pc |-> "unlock", do |-> do])
    /\ UNCHANGED <<file, session, bytes, server>>

\* A command of the CLI, another process: no session.
BeginCli(w, do) ==
    /\ do.op \notin {"unlock", "signup"}
    /\ Begin(w, [pc |-> "cliRead", do |-> do])
    /\ UNCHANGED <<file, session, bytes, server>>

\* POST /mail/ebp-signup reads the file with the password, as the CLI does.  It pushes
\* the e-mail detail before it saves it.
BeginSignup(w, do) ==
    /\ do.op = "signup"
    /\ At(w, "idle")
    /\ Become(w, [pc |-> "cliRead", do |-> do])
    /\ smooth' = FALSE
    /\ UNCHANGED <<file, session, bytes, server>>

\* POST /identity/generate: a new key pair, over any file when forced.
Generate(w, i) ==
    /\ ~server[i].known
    /\ file.state = "whole" => file.body.who # i
    /\ \A v \in Workers : /\ worker[v].pc \in {"unlocked", "encode", "push"} => worker[v].body.who # i
                          /\ worker[v].pc \in {"truncate", "finish"} => worker[v].out.body.who # i
    /\ Begin(w, [pc |-> "encode", do |-> Nobody, key |-> Password, salt |-> Nobody,
                 body |-> NewBody(i)])
    /\ UNCHANGED <<file, session, bytes, server>>

\* POST /identity/import-file of a copy that was exported here, or on another device,
\* when its identity was new; over any file when forced.
ImportFile(w, i) ==
    /\ At(w, "idle")
    /\ \E s \in Salts :
          Become(w, [pc |-> "truncate", do |-> Nobody,
                     out |-> [state |-> "whole", salt |-> s, enc |-> s, body |-> NewBody(i)]])
    /\ smooth' = FALSE
    /\ UNCHANGED <<file, session, bytes, server>>

\* POST /identity/delete: the file goes first, the session after it.
DeleteIdentity(w) ==
    /\ file # Absent
    /\ Begin(w, [pc |-> "lock"])
    /\ file' = Absent
    /\ UNCHANGED <<session, bytes, server>>

DeleteLocks(w) ==
    /\ At(w, "lock")
    /\ DropSession
    /\ Reply(w)
    /\ UNCHANGED <<file, server, smooth>>

\* POST /identity/lock, and sweepExpiredSessions.
Lock ==
    /\ session # NoSession
    /\ DropSession
    /\ UNCHANGED <<file, worker, server, smooth>>

----------------------------------------------------------------------------
(* Loading. *)

\* Faulty variant: the server is told before the file is written.
ProceedPushFirst(w, do, b, key, salt) ==
    \/ Applies(do, b) /\ Become(w, [pc |-> "push", do |-> do, body |-> Changed(do, b)])
    \/ do.op = "publish" /\ Become(w, [pc |-> "push", do |-> do, body |-> b])
    \/ ~Applies(do, b) /\ do.op # "publish" /\ Reply(w)

\* Faulty variant: no 401 when the session is gone by the time of the save.
ProceedUnchecked(w, do, b, key, salt) ==
    \/ /\ Applies(do, b) /\ do.op # "signup"
       /\ Become(w, [pc |-> "encode", do |-> do, key |-> key, salt |-> salt,
                     body |-> Changed(do, b)])
    \/ /\ Applies(do, b) /\ do.op = "signup"
       /\ Become(w, [pc |-> "push", do |-> do, body |-> Changed(do, b)])
    \/ do.op = "publish" /\ Become(w, [pc |-> "push", do |-> do, body |-> b])
    \/ ~Applies(do, b) /\ do.op # "publish" /\ Reply(w)

\* The route's own code up to its next await: change the identity and start to save it
\* with `key` (Nobody: saveIdentityForRequest answers 401); or use it as it is.
Proceed(w, do, b, key, salt) ==
    \/ /\ Applies(do, b) /\ key # Nobody /\ do.op # "signup"
       /\ Become(w, [pc |-> "encode", do |-> do, key |-> key, salt |-> salt,
                     body |-> Changed(do, b)])
    \/ /\ Applies(do, b) /\ do.op = "signup"
       /\ Become(w, [pc |-> "push", do |-> do, body |-> Changed(do, b)])
    \/ /\ do.op = "publish"
       /\ Become(w, [pc |-> "push", do |-> do, body |-> b])
    \/ /\ ~(Applies(do, b) /\ key # Nobody) /\ do.op # "publish"
       /\ Reply(w)

\* loadIdentityForRequest once the file is read.  A file that cannot be parsed is
\* answered 400; another salt, or a key that does not decrypt, drops the session
\* that is there now.
LoadWithKey(w) ==
    LET opens == file.state = "whole" /\ file.salt = worker[w].salt
                 /\ file.enc = bytes[worker[w].key]
    IN  /\ At(w, "read")
        /\ \/ /\ opens
              /\ Proceed(w, worker[w].do, file.body, session.key, session.salt)
              /\ UNCHANGED <<session, bytes>>
           \/ file.state = "whole" /\ ~opens /\ DropSession /\ Reply(w)
           \/ file.state # "whole" /\ Reply(w) /\ UNCHANGED <<session, bytes>>
        /\ UNCHANGED <<file, server, smooth>>

\* unlockIdentity once the file is read; it then awaits the mail secrets.
Unlock(w) ==
    /\ At(w, "unlock")
    /\ \/ /\ OpensWithPassword(file)
          /\ \E k \in FreeKeys : ReplaceSession(k, file.salt)
          /\ Become(w, [pc |-> "unlocked", do |-> worker[w].do, body |-> file.body])
       \/ ~OpensWithPassword(file) /\ Reply(w) /\ UNCHANGED <<session, bytes>>
    /\ UNCHANGED <<file, server, smooth>>

\* The request goes on with the identity it unlocked and saves it with the session that
\* is there by now, or with the password.
AfterUnlock(w) ==
    /\ At(w, "unlocked")
    /\ IF session # NoSession
       THEN Proceed(w, worker[w].do, worker[w].body, session.key, session.salt)
       ELSE Proceed(w, worker[w].do, worker[w].body, Password, Nobody)
    /\ UNCHANGED <<file, session, bytes, server, smooth>>

\* loadIdentity of the CLI.
CliLoad(w) ==
    /\ At(w, "cliRead")
    /\ \/ OpensWithPassword(file) /\ Proceed(w, worker[w].do, file.body, Password, Nobody)
       \/ ~OpensWithPassword(file) /\ Reply(w)
    /\ UNCHANGED <<file, session, bytes, server, smooth>>

----------------------------------------------------------------------------
(* Saving: saveIdentityWithKey and saveIdentity. *)

\* Faulty variant: every save draws a new salt, also one under a session's key.
EncodeNewSalt(w) ==
    /\ At(w, "encode")
    /\ \E s \in FreshSalts :
          Become(w, [pc |-> "truncate", do |-> worker[w].do,
                     out |-> [state |-> "whole", salt |-> s,
                              enc |-> IF worker[w].key = Password THEN s
                                      ELSE bytes[worker[w].key],
                              body |-> worker[w].body]])
    /\ UNCHANGED <<file, session, bytes, server, smooth>>

\* ensurePrivateDir was awaited: encrypt with what the array holds now.
Encode(w) ==
    /\ At(w, "encode")
    /\ \E s \in Salts, enc \in Salts \union {Zero} :
          /\ IF worker[w].key = Password
             THEN s \in FreshSalts /\ enc = s
             ELSE s = worker[w].salt /\ enc = bytes[worker[w].key]
          /\ Become(w, [pc |-> "truncate", do |-> worker[w].do,
                        out |-> [state |-> "whole", salt |-> s, enc |-> enc,
                                 body |-> worker[w].body]])
    /\ UNCHANGED <<file, session, bytes, server, smooth>>

\* writeTextFile opens the file, which empties it, and then writes it.
Truncate(w) ==
    /\ At(w, "truncate")
    /\ file' = Torn
    /\ worker' = [worker EXCEPT ![w].pc = "finish"]
    /\ UNCHANGED <<session, bytes, server, smooth>>

\* The file is written; the change is pushed when the client asked for it.
Finish(w) ==
    /\ At(w, "finish")
    /\ file' = worker[w].out
    /\ \/ Reply(w)
       \/ /\ worker[w].do \in Changes /\ worker[w].do.op # "signup"
          /\ Become(w, [pc |-> "push", do |-> worker[w].do, body |-> worker[w].out.body])
    /\ UNCHANGED <<session, bytes, server, smooth>>

----------------------------------------------------------------------------
(* Pushing: the server's handlers as module Ledger has them. *)

PublishIdentity(w) ==
    /\ At(w, "push") /\ worker[w].do.op = "publish"
    /\ server' = [server EXCEPT ![worker[w].body.who].known = TRUE]
    /\ Reply(w)
    /\ UNCHANGED <<file, session, bytes, smooth>>

\* POST /detail: the path has no active detail and the nonce is above all others.
PushDetail(w) ==
    LET b == worker[w].body
        p == worker[w].do.path
        ok == /\ server[b.who].known
              /\ server[b.who].rows[p] # "active"
              /\ b.nonce - 1 > server[b.who].top
    IN  /\ At(w, "push") /\ worker[w].do.op = "detail"
        /\ server' = IF ok THEN [server EXCEPT ![b.who].rows[p] = "active",
                                               ![b.who].top = b.nonce - 1]
                     ELSE server
        /\ Reply(w)
        /\ UNCHANGED <<file, session, bytes, smooth>>

\* POST /mail/signup (module Mailbox has it in detail); its answer may be lost.
PushSignup(w) ==
    LET b == worker[w].body
        p == worker[w].do.path
        ok == /\ server[b.who].known /\ ~server[b.who].dead
              /\ server[b.who].rows[p] # "active"
              /\ b.nonce - 1 > server[b.who].top
    IN  /\ At(w, "push") /\ worker[w].do.op = "signup"
        /\ \/ /\ ok
              /\ server' = [server EXCEPT ![b.who].rows[p] = "active", ![b.who].top = b.nonce - 1]
              /\ \/ Become(w, [pc |-> "encode", do |-> worker[w].do, key |-> Password,
                                salt |-> Nobody, body |-> b])
                 \/ Reply(w)
           \/ ~ok /\ UNCHANGED server /\ Reply(w)
        /\ UNCHANGED <<file, session, bytes, smooth>>

\* POST /revoke: not revoked yet, and the nonce is above all regular ones.
PushRevocation(w) ==
    LET b == worker[w].body
        p == worker[w].do.path
        ok == server[b.who].known /\ b.revNonce - 1 > server[b.who].revTop
    IN  /\ At(w, "push")
        /\ \/ /\ worker[w].do.op = "revokeDetail"
              /\ server' = IF ok /\ server[b.who].rows[p] # "revoked"
                           THEN [server EXCEPT
                                   ![b.who].rows[p] = IF @ = "none" THEN @ ELSE "revoked",
                                   ![b.who].revTop = b.revNonce - 1]
                           ELSE server
           \/ /\ worker[w].do.op = "revokeIdentity"
              /\ server' = IF ok /\ ~server[b.who].dead
                           THEN [server EXCEPT ![b.who].dead = TRUE,
                                               ![b.who].revTop = b.revNonce - 1]
                           ELSE server
        /\ Reply(w)
        /\ UNCHANGED <<file, session, bytes, smooth>>

\* An await throws (a full disk, an unreachable server), or the process dies: what was
\* written stays.  A process that dies also forgets the session, which is `Lock`.
Fail(w) ==
    /\ ~At(w, "idle")
    /\ Reply(w)
    /\ UNCHANGED <<file, session, bytes, server, smooth>>

Receive(w) ==
    \/ \E do \in Changes \union Uses :
          BeginUnlocked(w, do) \/ BeginWithPassword(w, do) \/ BeginCli(w, do) \/ BeginSignup(w, do)
    \/ \E i \in Identities : Generate(w, i) \/ ImportFile(w, i)
    \/ DeleteIdentity(w)

Step(w) ==
    \/ LoadWithKey(w)
    \/ Unlock(w)
    \/ AfterUnlock(w)
    \/ CliLoad(w)
    \/ Encode(w)
    \/ Truncate(w)
    \/ Finish(w)
    \/ DeleteLocks(w)
    \/ PublishIdentity(w)
    \/ PushDetail(w)
    \/ PushSignup(w)
    \/ PushRevocation(w)
    \/ Fail(w)

Next ==
    \/ \E w \in Workers : Receive(w) \/ Step(w)
    \/ Lock

Spec == Init /\ [][Next]_vars

----------------------------------------------------------------------------
TypeOK ==
    /\ file \in Contents
    /\ session \in Session
    /\ bytes \in [Keys -> Salts \union {Zero}]
    /\ worker \in [Workers -> Job]
    /\ server \in [Identities -> Record]
    /\ smooth \in BOOLEAN

\* The session that is there has the key of its salt: whatever locks, expires, unlocks
\* again or fails in between, only keys of sessions that are gone are zeroed
\* (unlock-session.ts:72-81 and 176-188).
SessionKeyLives == session # NoSession => bytes[session.key] = session.salt

\* The salt in the header of the file is never that of another key than the one the
\* file is encrypted with, whichever requests, sessions and processes wrote it
\* (identity.ts:111-126); it may only be a zeroed one.
HeaderNamesKey == file.state = "whole" => file.enc \in {file.salt, Zero}

\* Nothing is decrypted for a request without a password after its session was locked,
\* expired or was replaced, also when that happens while the file is being read
\* (unlock-session.ts:260-284).  A file under a zeroed key is not covered.
LoadsUnderLiveKey ==
    [][\A w \in Workers :
          /\ At(w, "read")
          /\ worker'[w].pc \in {"encode", "push"}
          /\ file.enc # Zero
          => session = [key |-> worker[w].key, salt |-> worker[w].salt]]_vars

\* Requests that do not overlap keep the file ahead of the server, wherever they fail:
\* what the file signs next has a nonce above all the server has seen
\* (routes.ts:4862-4875, core/Identity.ts:808-825).  A mailbox sign-up is the exception: it
\* pushes first (routes.ts:4594-4612).
FileAhead ==
    smooth /\ file.state = "whole" =>
       LET s == server[file.body.who]
       IN  s.top < file.body.nonce /\ s.revTop < file.body.revNonce

\* Requests that do not overlap never leave a revocation at the server that the file
\* has not recorded (routes.ts:5271-5285 and 5334-5346).
RevocationsRecorded ==
    smooth /\ file.state = "whole" =>
       LET s == server[file.body.who]
       IN  /\ s.dead => file.body.dead
           /\ \A p \in Paths : s.rows[p] = "revoked" => p \in file.body.revoked

----------------------------------------------------------------------------
(* A statement of the documentation that the code does not keep. *)

\* wiki/identity-model.md:48: the private keys are encrypted with the user's password.
\* So the password opens every identity file that was written to its end.
FileOpens == file.state = "whole" => OpensWithPassword(file)

=============================================================================
