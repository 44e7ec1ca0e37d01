------------------------------ MODULE Mailbox ------------------------------
(***************************************************************************)
(* Managed mailboxes of the key server (server/handlers/mail-signup.ts):   *)
(* sign-up, password reset, deletion and the cleanup of test mailboxes.    *)
(*                                                                         *)
(* A handler keeps two systems in step without a transaction: the tables   *)
(* mailboxes, retired_mail_usernames and details, and the accounts of the  *)
(* mail server (Stalwart, reached over HTTP).  An action is one query or   *)
(* one call to the mail server, so handlers interleave between any two.    *)
(* The first action of a handler ends with the query that finds, or does   *)
(* not find, the mailbox; what it reads before cannot refuse it here.      *)
(* Proofs are fresh (module Registry has the nonces) and there is one mail *)
(* domain, so a name stands for an address.                                *)
(***************************************************************************)
EXTENDS Integers, FiniteSets

CONSTANTS
    Identities,   \* published identities
    Names,        \* user names of the mail domain
    Accounts,     \* ids of accounts on the mail server
    Workers,      \* handlers that can be in progress together
    None          \* no row, no account

ASSUME NoneAssumption == None \notin Identities \union Names \union Accounts

VARIABLES
    testNames,   \* the e2e names, given out again after a cleanup; any choice
    mailboxes,   \* mailboxes[n]: the row of name n
    retired,     \* retired_mail_usernames
    email,       \* email[i]: the detail `email` of i
    stalwart,    \* stalwart[a]: the account a of the mail server
    worker,      \* the handlers in progress
    holders,     \* history: holders[n]: who got name n from a sign-up, while Smooth
    course       \* history: the worst that happened so far, one of Courses

vars == <<testNames, mailboxes, retired, email, stalwart, worker, holders, course>>

\* "lost": a handler died, or the mail server or a roll-back failed; "overlap": two
\* requests overlapped; "crossed": two requests of one identity overlapped, or its e-mail
\* detail was published, or verified by a link, during its sign-up, or the roll-back of a
\* sign-up followed a query that was committed.
Courses == {"calm", "lost", "overlap", "crossed"}

Row == [owner : Identities, account : Accounts \union {None}]
NoRow == [owner |-> None, account |-> None]
\* `reader`: whose account on the mail server got the row's current link, kept when the
\* link is confirmed; after a sign-up the identity itself; None when no link arrived.
Detail == [name : Names, state : {"active", "revoked"}, verified : BOOLEAN,
           reader : Identities \union {None}]
NoDetail == [name |-> None, state |-> "none", verified |-> FALSE, reader |-> None]
Account == [name : Names, owner : Identities]
NoAccount == [name |-> None, owner |-> None]

Idle == [pc |-> "idle"]
\* `account` is the id a handler has read or was given; `had`: it found an e-mail detail.
ToCreate == {"name", "retired", "email", "insert", "create", "undoInsert"}
Created == {"setId", "detail", "verify", "undoCreate", "undoRow"}
ToDelete == {"destroy", "readEmail", "revokeEmail", "isRetired", "retire", "deleteRow"}
ToClean == {"cleanDestroy", "cleanDetail", "cleanRow"}
Job == [pc : ToCreate, who : Identities, name : Names, had : BOOLEAN]
       \union [pc : Created, who : Identities, name : Names, had : BOOLEAN,
               account : Accounts]
       \union [pc : {"setPassword"}, who : Identities, account : Accounts]
       \union [pc : ToDelete \union ToClean, who : Identities, name : Names,
               account : Accounts \union {None}]

Init ==
    /\ testNames \in SUBSET Names
    /\ mailboxes = [n \in Names |-> NoRow]
    /\ retired = {}
    /\ email = [i \in Identities |-> NoDetail]
    /\ stalwart = [a \in Accounts |-> NoAccount]
    /\ worker = [w \in Workers |-> Idle]
    /\ holders = [n \in Names |-> {}]
    /\ course = "calm"

----------------------------------------------------------------------------
(* Queries and calls. *)

At(w, pc) == worker[w].pc = pc
Reply(w) == worker' = [worker EXCEPT ![w] = Idle]
Goto(w, pc) == worker' = [worker EXCEPT ![w].pc = pc]

\* getMailboxByFingerprint: the names of an identity, one at most.
NamesOf(i) == {n \in Names : mailboxes[n].owner = i}

\* insertMailbox violates UNIQUE(username, domain) or UNIQUE(identity_fingerprint).
NotUnique(i, n) == mailboxes[n] # NoRow \/ NamesOf(i) # {}

DeleteMailbox(n) == mailboxes' = [mailboxes EXCEPT ![n] = NoRow]

\* Ids of accounts are not given out twice.
FreshAccounts ==
    {a \in Accounts : /\ stalwart[a] = NoAccount
                      /\ \A n \in Names : mailboxes[n].account # a
                      /\ \A w \in Workers : worker[w].pc \notin {"idle"} \union ToCreate
                                          => worker[w].account # a}
NameInUse(n) == \E a \in Accounts : stalwart[a].name = n
DestroyUser(a) == stalwart' = [b \in Accounts |-> IF b = a THEN NoAccount ELSE stalwart[b]]

\* Where a link mailed to name n may arrive: at the account of that name, or nowhere.
Reached(n) ==
    {None} \union {stalwart[a].owner : a \in {b \in Accounts : stalwart[b].name = n}}

\* updateDetail and insertDetail; both clear the verification and set the token of a link
\* that arrives at r.  revokeDetail clears them too.
StoredEmail(n, r) == [name |-> n, state |-> "active", verified |-> FALSE, reader |-> r]
RevokedEmail(d) == [d EXCEPT !.state = "revoked", !.verified = FALSE, !.reader = None]

tables == <<testNames, mailboxes, retired, email>>

Lose == course' = IF course = "calm" THEN "lost" ELSE course
Overlap(crossing) ==
    course' = IF course = "crossed" \/ crossing THEN "crossed"
              ELSE IF \A w \in Workers : At(w, "idle") THEN course
              ELSE "overlap"
Smooth == course \in {"calm", "lost"}

Busy(i) == \E w \in Workers : ~At(w, "idle") /\ worker[w].who = i
SigningUp(i) ==
    \E w \in Workers : worker[w].pc \in ToCreate \union Created /\ worker[w].who = i

Start(w, job) ==
    /\ At(w, "idle")
    /\ worker' = [worker EXCEPT ![w] = job]
    /\ Overlap(Busy(job.who))

----------------------------------------------------------------------------
(* handleMailSignup *)

\* The identity is published, not revoked and has no mailbox.
Signup(w, i, n) ==
    /\ NamesOf(i) = {}
    /\ Start(w, [pc |-> "name", who |-> i, name |-> n, had |-> FALSE])
    /\ UNCHANGED <<tables, stalwart, holders>>

\* isMailboxUsernameTaken: the mailboxes, and then the retired names.
CheckName(w) ==
    /\ At(w, "name")
    /\ IF mailboxes[worker[w].name] = NoRow THEN Goto(w, "retired") ELSE Reply(w)
    /\ UNCHANGED <<tables, stalwart, holders, course>>

CheckRetired(w) ==
    /\ At(w, "retired")
    /\ IF worker[w].name \notin retired THEN Goto(w, "email") ELSE Reply(w)
    /\ UNCHANGED <<tables, stalwart, holders, course>>

\* An active e-mail detail is refused; a revoked one is updated later.
CheckEmail(w) ==
    LET d == email[worker[w].who]
    IN  /\ At(w, "email")
        /\ IF d.state = "active" THEN Reply(w)
           ELSE worker' = [worker EXCEPT ![w].pc = "insert", ![w].had = d # NoDetail]
        /\ UNCHANGED <<tables, stalwart, holders, course>>

InsertMailbox(w) ==
    LET i == worker[w].who
        n == worker[w].name
    IN  /\ At(w, "insert")
        /\ \/ NotUnique(i, n) /\ Reply(w) /\ UNCHANGED mailboxes
           \/ /\ ~NotUnique(i, n)
              /\ mailboxes' = [mailboxes EXCEPT ![n] = [owner |-> i, account |-> None]]
              /\ Goto(w, "create")
        /\ UNCHANGED <<testNames, retired, email, stalwart, holders, course>>

\* createUser: the mail server refuses a name in use.  Its answer, or the call, may be
\* lost, and the time-out does not tell which.
CreateUser(w) ==
    LET i == worker[w].who
        n == worker[w].name
        new == [name |-> n, owner |-> i]
    IN  /\ At(w, "create")
        /\ \/ /\ ~NameInUse(n)
              /\ \E a \in FreshAccounts :
                    /\ stalwart' = [stalwart EXCEPT ![a] = new]
                    /\ \/ /\ worker' = [worker EXCEPT ![w] =
                                          [pc |-> "setId", who |-> i, name |-> n,
                                           had |-> worker[w].had, account |-> a]]
                          /\ UNCHANGED course
                       \/ Goto(w, "undoInsert") /\ Lose
           \/ NameInUse(n) /\ Goto(w, "undoInsert") /\ UNCHANGED <<stalwart, course>>
           \/ Goto(w, "undoInsert") /\ Lose /\ UNCHANGED stalwart
        /\ UNCHANGED <<tables, holders>>

UndoInsert(w) ==
    /\ At(w, "undoInsert")
    /\ \/ DeleteMailbox(worker[w].name) /\ UNCHANGED course
       \/ UNCHANGED mailboxes /\ Lose
    /\ Reply(w)
    /\ UNCHANGED <<testNames, retired, email, stalwart, holders>>

\* A committed query of a sign-up is followed by the next one, or is rolled back.
Answered(w, next) ==
    \/ (IF next = "idle" THEN Reply(w) ELSE Goto(w, next)) /\ UNCHANGED course
    \/ Goto(w, "undoCreate") /\ course' = "crossed"

\* setMailboxStalwartId updates by name, the row of whoever has it by now.  This and the
\* next two queries are rolled back when they fail, which may be only the answer's loss.
SetStalwartId(w) ==
    /\ At(w, "setId")
    /\ \/ /\ mailboxes' = [n \in Names |->
                             IF n = worker[w].name /\ mailboxes[n] # NoRow
                             THEN [mailboxes[n] EXCEPT !.account = worker[w].account]
                             ELSE mailboxes[n]]
          /\ Answered(w, "detail")
       \/ UNCHANGED <<mailboxes, course>> /\ Goto(w, "undoCreate")
    /\ UNCHANGED <<testNames, retired, email, stalwart, holders>>

\* UPDATE when the row was there at CheckEmail, else INSERT, which fails on a new row.
StoreDetail(w) ==
    LET i == worker[w].who
    IN  /\ At(w, "detail")
        /\ \/ /\ worker[w].had \/ email[i] = NoDetail
              /\ email' = IF email[i] = NoDetail /\ worker[w].had THEN email
                          ELSE [email EXCEPT ![i] = StoredEmail(worker[w].name, None)]
              /\ Answered(w, "verify")
           \/ UNCHANGED <<email, course>> /\ Goto(w, "undoCreate")
        /\ UNCHANGED <<testNames, mailboxes, retired, stalwart, holders>>

\* markDetailVerified updates by (fingerprint, path).
MarkDetailVerified(w) ==
    LET i == worker[w].who
    IN  /\ At(w, "verify")
        /\ \/ /\ email' = IF email[i] = NoDetail THEN email
                          ELSE [email EXCEPT ![i].verified = TRUE, ![i].reader = i]
              /\ holders' = IF ~Smooth \/ email[i] = NoDetail THEN holders
                            ELSE [holders EXCEPT ![email[i].name] = @ \union {i}]
              /\ Answered(w, "idle")
           \/ UNCHANGED <<email, holders, course>> /\ Goto(w, "undoCreate")
        /\ UNCHANGED <<testNames, mailboxes, retired, stalwart>>

\* Faulty variant: the roll-back forgets the account.
UndoCreateNot(w) ==
    /\ At(w, "undoCreate")
    /\ Goto(w, "undoRow")
    /\ UNCHANGED <<tables, stalwart, holders, course>>

\* The roll-back ignores an error of destroyUser.
UndoCreate(w) ==
    /\ At(w, "undoCreate")
    /\ \/ DestroyUser(worker[w].account) /\ UNCHANGED course
       \/ UNCHANGED stalwart /\ Lose
    /\ Goto(w, "undoRow")
    /\ UNCHANGED <<tables, holders>>

UndoRow(w) ==
    /\ At(w, "undoRow")
    /\ \/ DeleteMailbox(worker[w].name) /\ UNCHANGED course
       \/ UNCHANGED mailboxes /\ Lose
    /\ Reply(w)
    /\ UNCHANGED <<testNames, retired, email, stalwart, holders>>

----------------------------------------------------------------------------
(* handleMailResetPassword *)

\* Faulty variant: the mailbox is found by the address in the detail.
ResetPasswordByAddress(w, i) ==
    /\ \E n \in Names :
          /\ email[i].name = n /\ mailboxes[n].account # None
          /\ Start(w, [pc |-> "setPassword", who |-> i, account |-> mailboxes[n].account])
    /\ UNCHANGED <<tables, stalwart, holders>>

\* Faulty variant: a mailbox without an account is not refused.
ResetPasswordUnset(w, i) ==
    /\ \E n \in NamesOf(i) :
          Start(w, [pc |-> "setPassword", who |-> i, account |-> mailboxes[n].account])
    /\ UNCHANGED <<tables, stalwart, holders>>

\* A mailbox without an account is answered 404.
ResetPassword(w, i) ==
    /\ \E n \in NamesOf(i) :
          /\ mailboxes[n].account # None
          /\ Start(w, [pc |-> "setPassword", who |-> i, account |-> mailboxes[n].account])
    /\ UNCHANGED <<tables, stalwart, holders>>

\* setPassword: an account that is gone is not updated; the answer does not matter here.
SetPassword(w) ==
    /\ At(w, "setPassword")
    /\ Reply(w)
    /\ UNCHANGED <<tables, stalwart, holders, course>>

----------------------------------------------------------------------------
(* handleMailDelete *)

\* A row without an account skips the mail server.
Delete(w, i) ==
    /\ \E n \in NamesOf(i) :
          Start(w, [pc |-> IF mailboxes[n].account = None THEN "readEmail" ELSE "destroy",
                    who |-> i, name |-> n, account |-> mailboxes[n].account])
    /\ UNCHANGED <<tables, stalwart, holders>>

\* An error is answered 502, whether the account is gone or not; one that is not there
\* any more is no error.
DeleteDestroysUser(w) ==
    /\ At(w, "destroy")
    /\ \/ DestroyUser(worker[w].account) /\ Goto(w, "readEmail") /\ UNCHANGED course
       \/ DestroyUser(worker[w].account) /\ Reply(w) /\ Lose
    /\ UNCHANGED <<tables, holders>>

\* Faulty variant: the detail is left as it is.
DeleteReadsEmailOnly(w) ==
    /\ At(w, "readEmail")
    /\ Goto(w, "isRetired")
    /\ UNCHANGED <<tables, stalwart, holders, course>>

\* The detail is revoked when it is still the address of the mailbox.
DeleteReadsEmail(w) ==
    LET d == email[worker[w].who]
    IN  /\ At(w, "readEmail")
        /\ IF d.state = "active" /\ d.name = worker[w].name
           THEN Goto(w, "revokeEmail") ELSE Goto(w, "isRetired")
        /\ UNCHANGED <<tables, stalwart, holders, course>>

\* revokeDetail, with the deletion's proof in place of a certificate.
DeleteRevokesEmail(w) ==
    LET i == worker[w].who
    IN  /\ At(w, "revokeEmail")
        /\ email' = IF email[i] = NoDetail THEN email
                    ELSE [email EXCEPT ![i] = RevokedEmail(@)]
        /\ Goto(w, "isRetired")
        /\ UNCHANGED <<testNames, mailboxes, retired, stalwart, holders, course>>

\* Faulty variant: the row goes before the name is retired.
DeleteRowFirst(w) ==
    /\ At(w, "isRetired")
    /\ DeleteMailbox(worker[w].name)
    /\ Goto(w, "retire")
    /\ UNCHANGED <<testNames, retired, email, stalwart, holders, course>>

\* retireMailUsername: nothing to do when the name is retired ...
IsRetired(w) ==
    /\ At(w, "isRetired")
    /\ Goto(w, IF worker[w].name \in retired THEN "deleteRow" ELSE "retire")
    /\ UNCHANGED <<tables, stalwart, holders, course>>

\* ... and UNIQUE(username, domain) refuses a second insert, which is answered 500.
Retire(w) ==
    LET n == worker[w].name
    IN  /\ At(w, "retire")
        /\ \/ n \notin retired /\ retired' = retired \union {n} /\ Goto(w, "deleteRow")
           \/ n \in retired /\ UNCHANGED retired /\ Reply(w)
        /\ UNCHANGED <<testNames, mailboxes, email, stalwart, holders, course>>

DeleteRow(w) ==
    /\ At(w, "deleteRow")
    /\ DeleteMailbox(worker[w].name)
    /\ Reply(w)
    /\ UNCHANGED <<testNames, retired, email, stalwart, holders, course>>

----------------------------------------------------------------------------
(* handleMailE2eCleanup, one name; removeE2eMailbox does not retire it. *)

Cleanup(w, n) ==
    /\ n \in testNames /\ mailboxes[n] # NoRow
    /\ Start(w, [pc |-> IF mailboxes[n].account = None THEN "cleanDetail" ELSE "cleanDestroy",
                 who |-> mailboxes[n].owner, name |-> n, account |-> mailboxes[n].account])
    /\ UNCHANGED <<tables, stalwart, holders>>

CleanupDestroysUser(w) ==
    /\ At(w, "cleanDestroy")
    /\ \/ DestroyUser(worker[w].account) /\ Goto(w, "cleanDetail") /\ UNCHANGED course
       \/ DestroyUser(worker[w].account) /\ Reply(w) /\ Lose
    /\ UNCHANGED <<tables, holders>>

CleanupDeletesDetail(w) ==
    /\ At(w, "cleanDetail")
    /\ email' = [email EXCEPT ![worker[w].who] = NoDetail]
    /\ Goto(w, "cleanRow")
    /\ UNCHANGED <<testNames, mailboxes, retired, stalwart, holders, course>>

CleanupDeletesRow(w) ==
    /\ At(w, "cleanRow")
    /\ DeleteMailbox(worker[w].name)
    /\ Reply(w)
    /\ UNCHANGED <<testNames, retired, email, stalwart, holders, course>>

----------------------------------------------------------------------------
(* Other handlers write the same rows.  They are one step each here: an overlap of two  *)
(* of one identity is module Registry's, which has them query by query.                 *)

\* POST /detail of any address, a managed one too, and the link that is mailed to it.
PublishEmail(i, n) ==
    /\ email[i].state # "active"
    /\ \E r \in Reached(n) : email' = [email EXCEPT ![i] = StoredEmail(n, r)]
    /\ Overlap(SigningUp(i))
    /\ UNCHANGED <<testNames, mailboxes, retired, stalwart, worker, holders>>

\* handleRequestVerifyEmail, for whoever asks: a new link, which replaces the last one.
RequestLink(i) ==
    /\ email[i].state = "active" /\ ~email[i].verified
    /\ \E r \in Reached(email[i].name) : email' = [email EXCEPT ![i].reader = r]
    /\ Overlap(SigningUp(i))
    /\ UNCHANGED <<testNames, mailboxes, retired, stalwart, worker, holders>>

\* handleVerifyEmailConfirm, by whoever got the row's link, at any time later.
ConfirmEmail(i) ==
    /\ email[i].state = "active" /\ ~email[i].verified /\ email[i].reader # None
    /\ email' = [email EXCEPT ![i].verified = TRUE]
    /\ Overlap(SigningUp(i))
    /\ UNCHANGED <<testNames, mailboxes, retired, stalwart, worker, holders>>

\* POST /revoke of the e-mail detail.
RevokeEmail(i) ==
    /\ email[i].state = "active"
    /\ email' = [email EXCEPT ![i] = RevokedEmail(@)]
    /\ Overlap(FALSE)
    /\ UNCHANGED <<testNames, mailboxes, retired, stalwart, worker, holders>>

\* A query outside the handlers' `try`s fails and is answered 500.
Fail(w) ==
    /\ worker[w].pc \in {"name", "retired", "email", "insert", "setPassword", "readEmail", "revokeEmail",
                         "isRetired", "retire", "deleteRow", "cleanDetail", "cleanRow"}
    /\ Reply(w)
    /\ UNCHANGED <<tables, stalwart, holders, course>>

\* The process dies between two steps of a handler.
Die(w) ==
    /\ ~At(w, "idle")
    /\ Reply(w)
    /\ Lose
    /\ UNCHANGED <<tables, stalwart, holders>>

Receive(w) ==
    \/ \E i \in Identities, n \in Names : Signup(w, i, n)
    \/ \E i \in Identities : ResetPassword(w, i) \/ Delete(w, i)
    \/ \E n \in Names : Cleanup(w, n)

SignupStep(w) ==
    \/ CheckName(w) \/ CheckRetired(w) \/ CheckEmail(w)
    \/ InsertMailbox(w) \/ CreateUser(w) \/ UndoInsert(w)
    \/ SetStalwartId(w) \/ StoreDetail(w) \/ MarkDetailVerified(w)
    \/ UndoCreate(w) \/ UndoRow(w)

DeleteStep(w) ==
    \/ DeleteDestroysUser(w) \/ DeleteReadsEmail(w)
    \/ DeleteRevokesEmail(w) \/ IsRetired(w) \/ Retire(w) \/ DeleteRow(w)

CleanupStep(w) ==
    \/ CleanupDestroysUser(w) \/ CleanupDeletesDetail(w) \/ CleanupDeletesRow(w)

Next ==
    \/ \E w \in Workers : \/ Receive(w) \/ SignupStep(w) \/ SetPassword(w)
                          \/ DeleteStep(w) \/ CleanupStep(w) \/ Fail(w) \/ Die(w)
    \/ \E i \in Identities, n \in Names : PublishEmail(i, n)
    \/ \E i \in Identities : RequestLink(i) \/ ConfirmEmail(i) \/ RevokeEmail(i)

Spec == Init /\ [][Next]_vars

----------------------------------------------------------------------------
TypeOK ==
    /\ testNames \subseteq Names
    /\ mailboxes \in [Names -> Row \union {NoRow}]
    /\ retired \subseteq Names
    /\ email \in [Identities -> Detail \union {NoDetail}]
    /\ stalwart \in [Accounts -> Account \union {NoAccount}]
    /\ worker \in [Workers -> {Idle} \union Job]
    /\ holders \in [Names -> SUBSET Identities]
    /\ course \in Courses

Shows(i) == email[i].state = "active" /\ email[i].verified /\ email[i].name \notin testNames

\* Identities that show one address as a verified detail have it from one and the same
\* holder of the mailbox, by sign-up or by a link that arrived in it, whatever failed or
\* was given back before (mail-signup.ts:209-274 and 404-424, verify-email.ts:334).  When
\* handlers of different identities interleave, one identity at most shows it by its own
\* sign-up or mailbox.  Names of tests are the exception.
OneHolder ==
    course # "crossed" =>
       \A i, j \in Identities :
          /\ Shows(i) /\ Shows(j) /\ email[i].name = email[j].name
          /\ Smooth \/ (email[i].reader = i /\ email[j].reader = j)
          => email[i].reader = email[j].reader

\* Sign-ups that do not overlap never give a name to a second identity, after a deletion
\* least of all, wherever the deletion stopped (mail-signup.ts:404-424, db/index.ts:906);
\* the names of tests are the exception.
NeverReissued ==
    Smooth => \A n \in Names \ testNames : Cardinality(holders[n]) <= 1

\* Whatever query fails in a sign-up, and whatever was deleted, no account is left on the
\* mail server without the row that lets its owner reset and delete it, as long as the
\* mail server and the roll-back answer (mail-signup.ts:267-274).
AccountsHaveRows ==
    course = "calm" /\ (\A w \in Workers : At(w, "idle")) =>
       \A a \in Accounts : stalwart[a] # NoAccount =>
          mailboxes[stalwart[a].name] = [owner |-> stalwart[a].owner, account |-> a]

\* A password is set only on the account that was created for the same identity, also when
\* rows and accounts of failed requests are around, and whatever other identities sign up
\* for or delete between the look-up and the call (mail-signup.ts:316-342).
ResetsOwnAccount ==
    [][\A w \in Workers : /\ At(w, "setPassword")
                          /\ worker'[w] = Idle
                          /\ course # "crossed"
                          /\ stalwart[worker[w].account] # NoAccount
                          => stalwart[worker[w].account].owner = worker[w].who]_vars

=============================================================================
