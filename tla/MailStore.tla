----------------------------- MODULE MailStore -----------------------------
(***************************************************************************)
(* The mail accounts of an identity directory and their passwords, as the  *)
(* GUI's local backend keeps them (gui/local-backend/mail-account.ts,      *)
(* mail-oauth.ts and the mail routes of routes.ts).                        *)
(*                                                                         *)
(* Accounts are in one file; passwords are in another, encrypted under an  *)
(* e-mail PIN, and, while they are unlocked, in a cache with the PIN.      *)
(* There is one request at a time, and between any two steps of it comes   *)
(* `Lock`: the Lock control, or the expiry of the identity's session.  A   *)
(* file that was cut short is read as one that is not there                *)
(* (readJsonFile), so that is what it is here; and so is, for a request,   *)
(* a file whose read fails.                                                *)
(***************************************************************************)
EXTENDS Integers, Sequences

CONSTANTS
    Manual,     \* ids of accounts the user configures
    Managed,    \* ids of accounts for the mailbox at the key server
    Pins,       \* e-mail PINs, the identity's password among them
    Password,   \* the identity's password
    NoPin       \* no PIN

ASSUME PinsAssumption == Password \in Pins /\ NoPin \notin Pins
ASSUME IdsAssumption == Manual \cap Managed = {}

VARIABLES
    accounts,   \* the ids in mail-account.json
    secrets,    \* mail-account.secrets.json: its PIN, the ids that have a password
    cache,      \* mailSecretCache
    pinCache,   \* mailPinCache
    mailbox,    \* the key server has a mailbox for the identity
    req,        \* the request in progress, or the answer to the last one
    typed,      \* history: the PINs that users typed, while Undisturbed
    opened,     \* history: a PIN or the password was given since the last lock, or ~Undisturbed
    stored,     \* history: whose password was written, and neither lost nor to go since
    course      \* history: the worst that happened so far, one of Courses

vars == <<accounts, secrets, cache, pinCache, mailbox, req, typed, opened, stored, course>>

\* "failed": a write of a file failed; "disturbed": a lock came during a request, or the
\* file of the passwords was there and was not read.
Courses == {"calm", "failed", "disturbed"}
Undisturbed == course # "disturbed"

Ids == Manual \union Managed

NoFile == [pin |-> NoPin, ids |-> {}]
Envelope == [pin : Pins, ids : (SUBSET Ids) \ {{}}]
NoCache == [on |-> FALSE, ids |-> {}]
Cached(s) == [on |-> TRUE, ids |-> s]

\* What a request asks: `pin` was typed, `with` is the identity's password, `keep` is
\* persistSecrets.
MaybePin == Pins \union {NoPin}
MaybePassword == {Password, NoPin}
Asked ==
    [op : {"save"}, id : Ids, pin : MaybePin, with : {NoPin}, keep : BOOLEAN]
    \union [op : {"use", "delete"}, id : Ids, pin : {NoPin}, with : {NoPin}, keep : {TRUE}]
    \union [op : {"unlock"}, id : {NoPin}, pin : Pins, with : {NoPin}, keep : {TRUE}]
    \union [op : {"identityUnlock"}, id : {NoPin}, pin : {NoPin}, with : {Password}, keep : {TRUE}]
    \union [op : {"signup"}, id : Managed, pin : MaybePin, with : {Password}, keep : {TRUE}]
    \union [op : {"reset"}, id : Ids, pin : MaybePin, with : MaybePassword, keep : {TRUE}]
    \union [op : {"ebpDelete"}, id : {NoPin}, pin : {NoPin}, with : {NoPin}, keep : {TRUE}]

Asks == Asked \union [op : {"refresh"}, id : Manual, pin : {NoPin}, with : {NoPin}, keep : {TRUE}]

\* `ids` is the set a request removes, holds or writes; `tries` are PINs it tries.
Steps == {"post", "identity", "accounts", "open", "prepare", "status",
          "try", "read", "decrypt", "write", "remove"}
Job == [pc : Steps, ask : Asks, ids : SUBSET Ids, tries : Seq(Pins)]
Answers == {"ok", "partly", "error"}
Idle(answer) == [pc |-> "idle", answer |-> answer]

Init ==
    /\ accounts = {}
    /\ secrets = NoFile
    /\ cache = NoCache
    /\ pinCache = NoPin
    /\ mailbox = FALSE
    /\ req = Idle("ok")
    /\ typed = {}
    /\ opened = FALSE
    /\ stored = {}
    /\ course = "calm"

----------------------------------------------------------------------------
(* Helpers. *)

At(pc) == req.pc = pc
Op(op) == req.ask.op = op
Goto(pc) == req' = [req EXCEPT !.pc = pc]
Reply(answer) == req' = Idle(answer)

\* ebp-reset-password, ebp-delete and unlockIdentity catch what the store throws.
Refuse == Reply(IF req.ask.op \in {"reset", "ebpDelete", "identityUnlock"}
                THEN "partly" ELSE "error")

history == <<typed, opened, stored, course>>

\* What a request sees of the file of the passwords: readJsonFile takes any error for a
\* file that is not there.
Sees(file) ==
    /\ file \in {secrets, NoFile}
    /\ stored' = IF file = NoFile THEN {} ELSE stored
    /\ \/ file = secrets /\ UNCHANGED <<typed, opened, course>>
       \/ file # secrets /\ course' = "disturbed" /\ typed' = {} /\ opened' = TRUE

\* The PINs a request tries, or takes the first of: those that are there.
Given(p) == IF p = NoPin THEN <<>> ELSE <<p>>
Candidates(ask) == Given(ask.pin) \o Given(pinCache) \o Given(ask.with)

\* Faulty variant: nothing is refused without a PIN.
SaveUnchecked(s, p) ==
    /\ cache' = Cached(s)
    /\ \/ s = {} /\ req' = [req EXCEPT !.pc = "remove", !.ids = {}]
       \/ s # {} /\ req' = [req EXCEPT !.pc = "write", !.ids = s, !.tries = <<p>>]

\* saveMailSecretsStore under PIN p, up to its await.
Save(s, p) ==
    /\ cache' = Cached(s)
    /\ \/ s = {} /\ req' = [req EXCEPT !.pc = "remove", !.ids = {}]
       \/ s # {} /\ p = NoPin /\ Refuse
       \/ s # {} /\ p # NoPin /\ req' = [req EXCEPT !.pc = "write", !.ids = s, !.tries = <<p>>]

\* The request goes on with the store that getMailSecretsStore returned.
Got(s, p) ==
    LET ask == req.ask
    IN  \/ /\ ask.op \in {"save", "signup", "reset", "refresh"}
           /\ Save(IF ask.keep THEN s \union {ask.id} ELSE s \ {ask.id}, p)
        \/ /\ ask.op = "ebpDelete"
           /\ Save(s \ req.ids, p)
        \/ /\ ask.op = "use"
           /\ cache' = Cached(s)
           /\ \/ ask.id \in s /\ Reply("ok")
              \/ ask.id \in s \cap Manual
                 /\ req' = [req EXCEPT !.pc = "open", !.ask.op = "refresh"]
              \/ ask.id \notin s /\ Reply("error")

----------------------------------------------------------------------------
(* Requests. *)

\* randomHex: an id that is nowhere.
Fresh(id) == id \notin accounts \union secrets.ids \union cache.ids

\* The passwords a request means to remove.
Drops(ask) ==
    IF ask.op = "ebpDelete" THEN Managed
    ELSE IF ask.op = "delete" \/ ~ask.keep THEN {ask.id}
    ELSE {}

Start(ask, pc, tries) ==
    /\ At("idle")
    /\ req' = [pc |-> pc, ask |-> ask, ids |-> {}, tries |-> tries]
    /\ typed' = IF Undisturbed THEN typed \union ({ask.pin} \ {NoPin}) ELSE {}
    /\ opened' = (opened \/ ask.pin # NoPin \/ ask.with # NoPin)
    /\ stored' = stored \ Drops(ask)
    /\ UNCHANGED course
Begin(ask, pc) == Start(ask, pc, <<>>)

\* POST /mail/account, and /mail/oauth/complete, which keeps what it stores.
SaveAccount(ask) ==
    /\ ask.op = "save"
    /\ ask.id \in accounts \/ (ask.id \in Manual /\ Fresh(ask.id))
    /\ Begin(ask, "accounts")
    /\ UNCHANGED <<accounts, secrets, cache, pinCache, mailbox>>

\* resolveMailAccount, before the mail server is used.
Use(ask) ==
    /\ ask.op = "use" /\ ask.id \in accounts
    /\ Begin(ask, "open")
    /\ UNCHANGED <<accounts, secrets, cache, pinCache, mailbox>>

\* POST /mail/account/delete
DeleteAccount(ask) ==
    /\ ask.op = "delete" /\ ask.id \in accounts
    /\ Begin(ask, "prepare")
    /\ UNCHANGED <<accounts, secrets, cache, pinCache, mailbox>>

\* POST /mail/unlock
MailUnlock(ask) ==
    /\ ask.op = "unlock"
    /\ Start(ask, "try", <<ask.pin>>)
    /\ UNCHANGED <<accounts, secrets, cache, pinCache, mailbox>>

\* tryUnlockMailSecretsWithIdentityPassword, from POST /identity/unlock.
IdentityUnlock(ask) ==
    /\ ask.op = "identityUnlock"
    /\ ~(cache.on /\ pinCache # NoPin)
    /\ Begin(ask, "status")
    /\ UNCHANGED <<accounts, secrets, cache, pinCache, mailbox>>

\* POST /mail/ebp-signup: the PIN first, then the mailbox.
EbpSignup(ask) ==
    /\ ask.op = "signup" /\ Fresh(ask.id)
    /\ Begin(ask, "prepare")
    /\ UNCHANGED <<accounts, secrets, cache, pinCache, mailbox>>

\* POST /mail/ebp-reset-password, for an account that is there, the one of the mailbox or
\* the one the user names, or for a new one: that of the mailbox is not there, or not read.
EbpReset(ask) ==
    /\ ask.op = "reset" /\ mailbox
    /\ ask.id \in accounts \/ (ask.id \in Managed /\ Fresh(ask.id))
    /\ Begin(ask, "post")
    /\ UNCHANGED <<accounts, secrets, cache, pinCache, mailbox>>

\* POST /mail/ebp-delete
EbpDelete(ask) ==
    /\ ask.op = "ebpDelete" /\ mailbox
    /\ Begin(ask, "post")
    /\ UNCHANGED <<accounts, secrets, cache, pinCache, mailbox>>

----------------------------------------------------------------------------
(* Steps. *)

\* The key server answers.  An answer may be lost: `Fail`.
Post ==
    /\ At("post")
    /\ \/ Op("signup") /\ ~mailbox /\ mailbox' = TRUE /\ Goto("identity")
       \/ Op("signup") /\ mailbox /\ Reply("error") /\ UNCHANGED mailbox
       \/ /\ Op("reset")
          /\ Goto(IF req.ask.id \in accounts THEN "prepare" ELSE "accounts")
          /\ UNCHANGED mailbox
       \/ /\ Op("ebpDelete")
          /\ mailbox' = FALSE
          /\ req' = [req EXCEPT !.pc = IF accounts \cap Managed = {} THEN "prepare" ELSE "accounts",
                                !.ids = accounts \cap Managed]
    /\ UNCHANGED <<accounts, secrets, cache, pinCache, history>>

\* saveIdentity of a sign-up.
SavedIdentity ==
    /\ At("identity")
    /\ Goto("accounts")
    /\ UNCHANGED <<accounts, secrets, cache, pinCache, mailbox, history>>

\* saveMailStore, of what getMailStore read, or of the new account alone when it read nothing.
WriteAccounts ==
    /\ At("accounts")
    /\ \/ /\ req.ask.op \in {"save", "signup", "reset"}
          /\ \/ accounts' = accounts \union {req.ask.id}
             \/ req.ask.id \notin accounts /\ accounts' = {req.ask.id}
       \/ Op("delete") /\ accounts' = accounts \ {req.ask.id}
       \/ Op("ebpDelete") /\ accounts' = accounts \ req.ids
    /\ Goto(IF req.ask.op \in {"reset", "ebpDelete"} THEN "prepare" ELSE "open")
    /\ UNCHANGED <<secrets, cache, pinCache, mailbox, history>>

\* After saveMailStore, or after a new access token was fetched: a PIN that was typed
\* replaces the one that is cached, whatever the file is encrypted with; and then
\* getMailSecretsStore, up to its await.  A deletion goes on with the store it holds.
Open ==
    LET p == IF req.ask.pin # NoPin /\ Op("save") THEN req.ask.pin ELSE pinCache
    IN  /\ At("open")
        /\ pinCache' = p
        /\ \/ /\ Op("delete")
              /\ \/ req.ask.id \in req.ids /\ Save(req.ids \ {req.ask.id}, p)
                 \/ req.ask.id \notin req.ids /\ Reply("ok") /\ UNCHANGED cache
           \/ ~Op("delete") /\ cache.on /\ Got(cache.ids, p)
           \/ ~Op("delete") /\ ~cache.on /\ Goto("read") /\ UNCHANGED cache
        /\ UNCHANGED <<accounts, secrets, mailbox, history>>

\* Faulty variant: a sign-up sets the PIN, also when there is one.
PrepareReplaces ==
    /\ At("prepare") /\ cache.on /\ Op("signup")
    /\ pinCache' = IF req.ask.pin # NoPin THEN req.ask.pin ELSE req.ask.with
    /\ Goto("post")
    /\ UNCHANGED <<accounts, secrets, cache, mailbox, history>>

\* Faulty variant: a deletion does not look at the status.
PrepareDeleteBlind ==
    LET c == Candidates(req.ask)
    IN  /\ At("prepare")
        /\ IF Op("delete") THEN req' = [req EXCEPT !.pc = "accounts", !.ids = cache.ids]
           ELSE req' = [req EXCEPT !.pc = "status", !.tries = c]
        /\ UNCHANGED <<accounts, secrets, cache, pinCache, mailbox, history>>

\* getMailSecretsStatus of a deletion, a sign-up and prepareMailSecrets, when the store
\* is cached: the first candidate becomes the PIN when there is none.
Prepare ==
    LET c == Candidates(req.ask)
        p == IF c = <<>> THEN NoPin ELSE IF pinCache # NoPin THEN pinCache ELSE Head(c)
    IN  /\ At("prepare")
        /\ \/ ~cache.on /\ req' = [req EXCEPT !.pc = "status", !.tries = c] /\ UNCHANGED <<cache, pinCache>>
           \/ /\ cache.on /\ Op("delete")
              /\ req' = [req EXCEPT !.pc = "accounts", !.ids = cache.ids]
              /\ UNCHANGED <<cache, pinCache>>
           \/ cache.on /\ Op("signup") /\ pinCache' = p /\ Goto("post") /\ UNCHANGED cache
           \/ /\ cache.on /\ Op("reset")
              /\ pinCache' = p
              /\ IF p = NoPin THEN Refuse /\ UNCHANGED cache ELSE Got(cache.ids, p)
           \/ cache.on /\ Op("ebpDelete") /\ Got(cache.ids, pinCache) /\ UNCHANGED pinCache
        /\ UNCHANGED <<accounts, secrets, mailbox, history>>

\* getMailSecretsStatus once the file is read: it is not there, or is taken for that ...
StatusNone ==
    LET c == IF Op("signup") THEN Candidates(req.ask) ELSE req.tries
        p == IF pinCache # NoPin \/ c = <<>> THEN pinCache ELSE Head(c)
    IN  /\ At("status") /\ Sees(NoFile)
        /\ \/ Op("delete") /\ Goto("accounts") /\ UNCHANGED pinCache
           \/ Op("signup") /\ pinCache' = p /\ Goto("post")
           \/ Op("reset") /\ pinCache' = p /\ (IF p = NoPin THEN Refuse ELSE Goto("read"))
           \/ Op("ebpDelete") /\ Goto("read") /\ UNCHANGED pinCache
           \/ Op("identityUnlock") /\ Reply("ok") /\ UNCHANGED pinCache
        /\ UNCHANGED <<accounts, secrets, cache, mailbox>>

\* Faulty variant: a sign-up keeps the PIN it was given for later.
StatusLockedLater ==
    /\ At("status") /\ secrets # NoFile
    /\ \/ req.ask.op \in {"delete", "ebpDelete"} /\ Refuse
       \/ Op("signup") /\ Goto("post")
       \/ Op("reset") /\ Goto("try")
       \/ Op("identityUnlock") /\ req' = [req EXCEPT !.pc = "try", !.tries = <<Password>>]
    /\ UNCHANGED <<accounts, secrets, cache, pinCache, mailbox, history>>

\* ... or it is encrypted.  A sign-up tries one PIN, a reset all that it was given.
StatusLocked ==
    /\ At("status") /\ secrets # NoFile
    /\ \/ req.ask.op \in {"delete", "ebpDelete"} /\ Refuse
       \/ Op("signup") /\ req' = [req EXCEPT !.pc = "try", !.tries = <<Head(Candidates(req.ask))>>]
       \/ Op("reset") /\ Goto("try")
       \/ Op("identityUnlock") /\ req' = [req EXCEPT !.pc = "try", !.tries = <<Password>>]
    /\ UNCHANGED <<accounts, secrets, cache, pinCache, mailbox, history>>

\* unlockMailSecretsWithPin for each candidate, until one decrypts the file, or the file is
\* not read: any PIN opens the empty store.
TryOne(n, file) ==
    /\ \A m \in 1..(n - 1) : secrets # NoFile /\ req.tries[m] # secrets.pin
    /\ Sees(file)
    /\ file = NoFile \/ req.tries[n] = file.pin
    /\ pinCache' = req.tries[n]
    /\ \/ Op("signup") /\ cache' = Cached(file.ids) /\ Goto("post")
       \/ Op("reset") /\ Got(file.ids, req.tries[n])
       \/ req.ask.op \in {"unlock", "identityUnlock"} /\ cache' = Cached(file.ids) /\ Reply("ok")
    /\ UNCHANGED <<accounts, secrets, mailbox>>

Try ==
    /\ At("try")
    /\ \/ \E n \in DOMAIN req.tries, file \in {secrets, NoFile} : TryOne(n, file)
       \/ /\ secrets # NoFile
          /\ \A n \in DOMAIN req.tries : req.tries[n] # secrets.pin
          /\ Refuse
          /\ UNCHANGED <<accounts, secrets, cache, pinCache, mailbox, history>>

\* getMailSecretsStore once the file is read.
Read ==
    /\ At("read")
    /\ \/ Sees(NoFile) /\ Got({}, pinCache)
       \/ /\ secrets # NoFile /\ pinCache = NoPin
          /\ Refuse
          /\ UNCHANGED <<cache, history>>
       \/ /\ secrets # NoFile /\ pinCache # NoPin
          /\ req' = [req EXCEPT !.pc = "decrypt", !.tries = <<pinCache>>]
          /\ UNCHANGED <<cache, history>>
    /\ UNCHANGED <<accounts, secrets, pinCache, mailbox>>

\* Faulty variant: a PIN that does not decrypt the file opens an empty store.
DecryptEmpty ==
    /\ At("decrypt")
    /\ Got(IF req.tries[1] = secrets.pin THEN secrets.ids ELSE {}, pinCache)
    /\ UNCHANGED <<accounts, secrets, pinCache, mailbox, history>>

\* A store that was decrypted is cached, also when the PIN is gone by now.
Decrypt ==
    /\ At("decrypt")
    /\ \/ req.tries[1] = secrets.pin /\ Got(secrets.ids, pinCache)
       \/ req.tries[1] # secrets.pin /\ Refuse /\ UNCHANGED cache
    /\ UNCHANGED <<accounts, secrets, pinCache, mailbox, history>>

\* The key is derived and the file written.
Write ==
    /\ At("write")
    /\ secrets' = [pin |-> req.tries[1], ids |-> req.ids]
    /\ stored' = stored \union req.ids
    /\ Reply("ok")
    /\ UNCHANGED <<accounts, cache, pinCache, mailbox, typed, opened, course>>

RemoveFile ==
    /\ At("remove")
    /\ secrets' = NoFile
    /\ Reply("ok")
    /\ UNCHANGED <<accounts, cache, pinCache, mailbox, history>>

----------------------------------------------------------------------------
(* Locks and failures. *)

\* Faulty variant: only the PIN is forgotten.
LockPinOnly ==
    /\ pinCache' = NoPin
    /\ course' = IF At("idle") THEN course ELSE "disturbed"
    /\ opened' = FALSE
    /\ stored' = IF secrets = NoFile THEN {} ELSE stored
    /\ UNCHANGED <<accounts, secrets, cache, mailbox, req, typed>>

\* clearMailSecrets.  What is left of a file that was cut short was in the cache.
Lock ==
    /\ cache' = NoCache
    /\ pinCache' = NoPin
    /\ course' = IF At("idle") THEN course ELSE "disturbed"
    /\ typed' = IF course' = "disturbed" THEN {} ELSE typed
    /\ opened' = (course' = "disturbed")
    /\ stored' = IF secrets = NoFile THEN {} ELSE stored
    /\ UNCHANGED <<accounts, secrets, mailbox, req>>

\* What is left of a call, or of a write, that fails: the server may have done what it
\* was asked, a file may have been cut short.
Broken ==
    /\ \/ At("post") /\ Op("signup") /\ mailbox' = TRUE
       \/ At("post") /\ Op("ebpDelete") /\ mailbox' = FALSE
       \/ UNCHANGED mailbox
    /\ \/ At("accounts") /\ accounts' = {}
       \/ UNCHANGED accounts
    /\ \/ At("write") /\ secrets' = NoFile
       \/ UNCHANGED secrets
    /\ course' = IF course = "calm" /\ req.pc \in {"accounts", "write", "remove"} THEN "failed" ELSE course
    /\ stored' = IF secrets' = NoFile /\ ~cache'.on THEN {} ELSE stored

\* An await throws.
Fail ==
    /\ \/ req.pc \in {"post", "identity", "accounts", "write", "remove"}
       \/ At("open") /\ Op("refresh")
    /\ UNCHANGED <<cache, pinCache, typed, opened>>
    /\ Broken
    /\ IF At("write") \/ At("remove") THEN Refuse ELSE Reply("error")

\* The process dies.
Die ==
    /\ ~At("idle")
    /\ cache' = NoCache
    /\ pinCache' = NoPin
    /\ Broken
    /\ Reply("error")
    /\ UNCHANGED <<typed, opened>>

Receive(ask) ==
    \/ SaveAccount(ask) \/ Use(ask) \/ DeleteAccount(ask)
    \/ MailUnlock(ask) \/ IdentityUnlock(ask)
    \/ EbpSignup(ask) \/ EbpReset(ask) \/ EbpDelete(ask)

Next ==
    \/ \E ask \in Asked : Receive(ask)
    \/ Post \/ SavedIdentity \/ WriteAccounts \/ Open \/ Prepare
    \/ StatusNone \/ StatusLocked \/ Try \/ Read \/ Decrypt
    \/ Write \/ RemoveFile
    \/ Lock \/ Fail \/ Die

Spec == Init /\ [][Next]_vars

----------------------------------------------------------------------------
TypeOK ==
    /\ accounts \in SUBSET Ids
    /\ secrets \in Envelope \union {NoFile}
    /\ cache \in [on : BOOLEAN, ids : SUBSET Ids] /\ (cache.ids # {} => cache.on)
    /\ pinCache \in MaybePin
    /\ mailbox \in BOOLEAN
    /\ req \in Job \union {Idle(a) : a \in Answers}
    /\ typed \in SUBSET Pins
    /\ opened \in BOOLEAN
    /\ stored \in SUBSET Ids
    /\ course \in Courses

\* A password that was written is in the file, or, once a write has cut the file short, in
\* the cache, from which the next save writes it again (mail-account.ts:362-376), until a
\* request is to remove it, whatever locks during a request, wrong PINs and failed writes
\* come in between: no request overwrites the file with a store that it, or the cache, did
\* not get from it.  It is lost, and no longer in `stored`, when the file that was cut short
\* is all there is (no cache at that time, or a lock, a restart or an unlock after it), and
\* may be when a read of the file fails: that one is taken for an absent file, and the next
\* save overwrites it (mail-account.ts:87-95, 303-306).
SecretsStay ==
    \/ stored \subseteq secrets.ids
    \/ secrets = NoFile /\ cache.on /\ stored \subseteq cache.ids

\* The file gets another PIN only when a user typed it: a sign-up or a reset never puts
\* the identity's password in its place (routes.ts:4562-4576 and 415-435).  A lock that
\* comes during a request, or a failed read, is the exception.
PinStays ==
    [][Undisturbed /\ secrets # NoFile /\ secrets' # NoFile => secrets'.pin \in typed \union {secrets.pin}]_vars

\* After a lock, none of the stored passwords is in memory until a PIN, or the password
\* of the identity, is given again (mail-account.ts:357-360).  It says nothing of what a
\* request that was awaiting something puts back after the lock.
LockedUntilOpened ==
    Undisturbed /\ ~opened => cache.ids \cap secrets.ids = {}

\* From the creation of the mailbox on, a sign-up has the PIN that opens the store,
\* whatever requests, failed writes and crashes left behind before it (routes.ts:4564-4576).
\* A lock that comes during a request, or a failed read, is the exception.
SignupHasPin ==
    Undisturbed /\ At("open") /\ Op("signup") =>
       /\ pinCache # NoPin
       /\ cache.on \/ secrets = NoFile \/ secrets.pin = pinCache

\* When the deletion of an account is answered ok, its password is gone from the file,
\* unless a failed write, or a lock during a request, had left the cache ahead of it, or a
\* failed read hides it (routes.ts:918-953).
DeletedIsGone ==
    [][~At("idle") /\ req' = Idle("ok") /\ course = "calm" /\ Op("delete")
          => req.ask.id \notin secrets'.ids]_vars

----------------------------------------------------------------------------
(* A statement of the source that the code does not keep. *)

\* routes.ts:4564: the PIN is resolved before provisioning, so that the password of the
\* mailbox can always be stored once the server has created the account.
SignupStoresPassword ==
    At("open") /\ Op("signup") =>
       /\ pinCache # NoPin
       /\ cache.on \/ secrets = NoFile \/ secrets.pin = pinCache

=============================================================================
