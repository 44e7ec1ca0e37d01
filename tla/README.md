# Even Better Privacy: TLA+ models and proofs

Even Better Privacy (EBP) gives people post-quantum identities, a key server
that publishes them with signed details (name, e-mail, ...), revocation, a
hierarchy of identities, and encrypted mail. This directory models the parts of
it that keep state and can go wrong by the order in which things happen.
Paths below are relative to `src/`.

1. [Inventory](#1-inventory)
2. [Modules](#2-modules)
3. [How the models correspond to the code](#3-how-the-models-correspond-to-the-code)
4. [Runs](#4-runs)
5. [Bounds and fairness](#5-bounds-and-fairness)
6. [Proofs](#6-proofs)
7. [Where code and documentation disagree](#7-where-code-and-documentation-disagree)
8. [Not modelled](#8-not-modelled)

## 1. Inventory

A single-process Deno server (`server/main.ts`) dispatches HTTP requests to
handlers. Handlers call a `DbClient` (`server/db/index.ts`) over SQLite
(`server/db/sqlite.ts`) or a PostgreSQL pool (`server/db/postgres.ts`). No
handler opens a transaction: each is a chain of `await db.query(...)`, and other
handlers run at every `await`. On the user's side, the GUI has a local backend (one
Deno process) and the CLI is a process of its own; both work on the same identity
files. The mobile application keeps its own.

| Component | State | Operations | Hard behaviour | Correct when |
|---|---|---|---|---|
| Registry: `server/handlers/identity.ts`, `revocation.ts` | tables `identities`, `details`, `revocations` | POST identity, detail, revoke; GET identity | check and write are separate queries; signed requests can be sent again; two writes per revocation | one active value per path, replaced only after revocation; revoked proofs never return; nonces increase; a mark has its certificate |
| E-mail verification: `server/verify-email.ts` | columns `verified_at`, `verification_token_hash`, `verification_expires_at` of `details` | request a link, confirm a link | a link arrives late, or after the detail changed; two links race | verified is shown only with the value that received the confirmed link |
| Hierarchy: `server/hierarchy.ts`, `handlers/hierarchy.ts`, `core/HierarchyCertificate.ts` | tables `hierarchy_certificates`, `pending_hierarchy_proposals` | post, propose, accept, reject, get | validation reads a list, insertion is a later query; the walk to the root has no bound | a forest; a proposal is answered one way; every GET is answered |
| Mailbox signup: `server/handlers/mail-signup.ts`, `server/stalwart.ts` | tables `mailboxes`, `retired_mail_usernames`, accounts on the mail server, the `email` detail | sign up, reset password, delete, clean up | two systems, no common transaction, timeouts, partial roll-back | an address has one holder and is never reissued; an account has the row that gives its owner control of it |
| Rate limiter: `server/rate-limit.ts` | a window per address and bucket | admit a request | window boundary, growth of the map | at most the limit per window |
| Discovery and search: `server/handlers/discovery.ts` | none of its own | search | joins tables written in separate steps | agrees with GET identity on what is revoked |
| Signature verification, mail OAuth proxy | none | one request each | none | |
| Identity files: `core/Identity.ts`, `gui/local-backend/identity.ts`, `routes.ts`, `cli/` | a file per identity: encrypted keys, details, revocations, nonces | create, load, change, save, push, import, delete | the file is read, changed and written with `await`s between; two processes; the server is told afterwards | the file opens with the password; it is ahead of the server in nonces and revocations |
| GUI unlock sessions: `gui/local-backend/unlock-session.ts` | storage keys in memory, with expiry | unlock, use, save, lock, expire | expiry or lock while a file is read or saved; two unlocks at once | no use of a zeroed key; nothing is decrypted after the session ended |
| Mail accounts of the GUI: `gui/local-backend/mail-account.ts`, mail routes | `mail-account.json`, encrypted passwords, a cache of them and of their PIN | configure, unlock, use, refresh, delete, sign up, reset | lock or expiry between two steps; failed or torn writes; several PINs to try | no password is lost; the PIN is the user's; a lock leaves nothing in memory |
| Mobile unlock sessions: `mobile/src/services/unlockSession*.ts` | storage keys, timers, the auto-lock setting | unlock, load, touch, lock, change the setting, background | timers moved by every touch; unlocks that await the setting while it changes | every key in memory belongs to a session; an idle session is locked on time |
| Mail rules: `core/ComposeRecipients.ts`, `SenderResolution.ts`, `VerifiedEmailMatch.ts`, ... | none | pure functions | priorities and ties | the chosen recipient or sender is the one the rule names |
| Cryptography, key derivation: `core/AES.ts`, `Kyber.ts`, `Dilithium.ts`, `Hd*.ts`, ... | none | pure | none here | taken as ideal |
| GUI pages, mobile screens, CLI output, desktop shell, website | device storage | call the server and the core | see the components above | |

Interactions: clients sign requests with the keys of an identity and send them
over HTTP; the registry is the only writer of `identities` and `revocations`;
e-mail verification and mailbox signup write the same `details` rows as the
registry; the hierarchy refers to identities by fingerprint only and reads
nothing of their revocation. On the client, a lock or an expiry of the unlock
session clears the storage key of the identity and the mail passwords and PIN of
its directory, under whatever request is in progress.

The hazards of these components, each at its line, and the properties about them
are listed in `PROJECT.json`.

## 2. Modules

| Module | What it is |
|---|---|
| `Registry` | the handlers of identities, details, revocations and e-mail verification, one database query per action |
| `Ledger` | what the registry promises: every request in one indivisible step |
| `RegistryRefinement` | the mapping under which `Registry` implements `Ledger` |
| `HierarchyRules` | which pair may be added to a hierarchy, as a definition without a loop |
| `HierarchyWalk` | the loop of `validateHierarchy`, iteration by iteration, against `HierarchyRules` |
| `Hierarchy` | the hierarchy handlers, one database query per action |
| `Mailbox` | the mailbox handlers, one query or one call of the mail server per action |
| `IdentityFile` | requests of the GUI and commands of the CLI on one identity file, with the unlock sessions of the GUI |
| `MailStore` | the mail accounts of the GUI, their stored passwords, PIN and caches |
| `MobileUnlock` | the unlock sessions of the mobile application |
| `MC...` | constants and symmetry for TLC, one per module that needs them |
| `RegistryProofs` | theorems about `Registry` under every interleaving |
| `RegistrySerialProofs` | theorems about `Registry` while the requests of one identity come one at a time, and that it then implements `Ledger` |
| `HierarchyProofs` | theorems about `Hierarchy` and `HierarchyRules` |
| `HierarchyWalkProofs` | that `HierarchyWalk` answers as `HierarchyRules` says |
| `MailboxProofs` | theorems about `Mailbox`, interleaved and while requests do not overlap |
| `IdentityFileProofs`, `MailStoreProofs`, `MobileUnlockProofs` | theorems about the module of that name |

`Hierarchy` and `HierarchyWalk` both build on `HierarchyRules`: the loop is
compared with the rule once (`WalkImplementsRule`), and the handlers then use the rule
as one step, because in the code the loop runs without an `await`. In the same way
`IdentityFile` talks to a key server that handles a request in one step, which is
what `Ledger` says of it and what `RegistryImplementsLedger` proves of the handlers.

## 3. How the models correspond to the code

**One action is what runs between two `await`s.** A worker is a request in
progress; its `pc` is the call it makes next. An action is that call together with
the local code up to the next one; local code that ends in no effect and no reply
of interest has no action. `Fail` is a call that throws and `Die` (where it is
separate) a process that dies and is started again: the handler is gone and what it
wrote stays (`server/main.ts` catches whatever a handler throws and answers 500).

**Orders that the code does not exclude.** Many promises hold when requests do not
overlap and fail when they do. The registry and the hierarchy have two
specifications over the same actions, `Spec` (interleaved at every query) and
`SerialSpec`, still with failures between any two queries. In the registry that is
one request at a time of each identity (`OnePerIdentity`), while those of different
identities interleave; in the hierarchy, where every check reads the whole table, one
request at a time altogether (`OneAtATime`). The other modules have one specification and a history variable that
records the worst that has happened (`course`, `smooth`, `overlapped`); a property
names in its antecedent what it does not survive. No guard reads these variables.

**Registry.** `details[<<f, p>>]` is the row of
`UNIQUE(identity_fingerprint, path)`, with `state` "none" when there is none and
"revoked" when `revoked_at` is set. The path of the code is:
`ReceiveDetail` (getIdentity), `GetDetailRecord`, `EnsureNewNonce`, `StoreDetail`
(`updateDetail` when a revoked row was read, else `insertDetail`, which `UNIQUE`
may refuse), and `SetToken` for the path `email`. A revocation is
`ReceiveRevocation`, `IsRevoked`, `CheckNonce`, `InsertRevocation` (refused by
`UNIQUE(identity_fingerprint, nonce)`), then `RevokeIdentity` or `RevokeDetail`.
Signatures are ideal: `Requests` is the set of requests some owner signed, and any
of them may arrive any number of times, in any order. `Sha256` is an injective
constructor; `Published` applies it where the detail is opaque. `CheckNonce`
covers `hasRevocationWithNonce` for emergency certificates and
`getMaxRevocationNonceBelow` for the others.

**E-mail verification.** `SetToken` stores a fresh token and records the link that
carries it in `issued`, with the address it is mailed to; from then on
`ReceiveConfirm` may present it, now, later or never (a lost or an expired link is
one that is never accepted). `ReceiveConfirm` finds the row by token,
`MarkVerified` updates it by (fingerprint, path), as in the code. `confirmed` and
`retired` are history variables for the properties; no guard reads them.
`RequestVerifyEmail` mails a link again while one is pending, as the code allows.
The e-mail that `POST /detail` triggers is sent in the same handler.

**Hierarchy.** `certificates` and `pending` are sets of pairs, one per row.
`Validate` is `listHierarchyCertificates` with `validateHierarchy` on its result;
`Insert` and `InsertPending` are the inserts, with their `UNIQUE` constraints;
`Accept` and `Reject` begin with the proposal they read. Because
`getHierarchyForIdentity` walks its list without an `await`, a worker at "climb"
keeps the event loop (`EventLoopFree`) until it is done. `HierarchyWalk` starts from
every map of children to masters, loops included, and runs `current` and `seen` as
the source does.

**Mailbox.** `mailboxes[n]` is the row of a name with its owner and the id of the
account, `stalwart` the accounts of the mail server. A sign-up is `Signup`,
`CheckName`, `CheckRetired`, `CheckEmail`, `InsertMailbox` (both `UNIQUE`
constraints), `CreateUser`, `SetStalwartId`, `StoreDetail`, `MarkDetailVerified`;
whatever throws after the account was created goes to `UndoCreate` and `UndoRow`, and
a refused account to `UndoInsert`. `CreateUser` may create the account and lose
the answer. A deletion is `Delete`, `DeleteDestroysUser`, `DeleteReadsEmail`,
`DeleteRevokesEmail`, `IsRetired`, `Retire`, `DeleteRow`. The registry may change the
same `email` row at any time: `PublishEmail` stores the detail and mails a link to it
(`POST /detail` takes a managed address like any other), `RequestLink` mails another,
`ConfirmEmail` is the link being opened at any time later, `RevokeEmail` a revocation.
They are one step each here and query by query in `Registry`, which also has the
replays and the nonces; proofs are fresh here. `reader` is who got the link that the row
holds: mail to a name reaches the owner of the account of that name (`Reached`), and
nobody when there is none or the mail is lost. A mail that is late is a later
`RequestLink`.

**IdentityFile.** `bytes` is the content of the key arrays. A session, a load and a
save hold a *reference* to an array, and `DropSession` and `ReplaceSession` overwrite
it in place, so a request may encrypt with zeros: `Encode` takes `bytes[key]` at the
moment it runs. A request is `Begin...` (by session, by password, by the CLI, as
a sign-up), the load (`LoadWithKey`, `Unlock` with `AfterUnlock`, or `CliLoad`), `Proceed` (the
change, in memory), `Encode`, `Truncate` and `Finish` (the two halves of writing a
file in place), and the push (`PublishIdentity`, `PushDetail`, `PushRevocation`). A
sign-up pushes first and saves afterwards, as the code does. `Lock` is the Lock
control or an expiry, at any time. `Body` is the part of an identity that changes:
nonces, details, revocations.

**MailStore.** One request at a time; between any two of its steps may come `Lock`,
`Fail` or `Die`. `secrets` is the file (its PIN and whose passwords are in it),
`cache` and `pinCache` the two maps in memory. `Got` and `Save` are
`getMailSecretsStore` and `saveMailSecretsStore` around their `await`s: the cache is
set before the file is written, and a store that is decrypted is cached even if a lock
came meanwhile. `readJsonFile` takes every error for a file that is not there: a broken
write leaves `NoFile`, and `Sees` lets any read of the passwords find nothing although
the file is whole, after which the request goes on with an empty store.
`WriteAccounts` may likewise have read `mail-account.json` as empty, and then leaves
the new account alone in it. `stored` records whose password was written and has not
been lost since; what makes the code lose one is listed in
[section 7](#7-where-code-and-documentation-disagree).

**MobileUnlock.** Time is counted: `left` is `expiresAt - now`, `timer` what remains of a
`setTimeout`, and `Tick` lets one unit pass, in the foreground only when no timer is
due. A job is a call at its `await`: deriving a key, reading the setting
(`getAutoLockMinutes`), loading or unlocking mail. `latest` stands for the comparison with
`timeoutGeneration`. In the background timers may be late, and `Foreground` does what
the AppState listener does. `Restart` is a new process.

## 4. Runs

Passing runs:

| Run | Shows |
|---|---|
| `registry_concurrent` | under every interleaving and failure: a mark has its certificate (`RevokedIsCertified`), a revoked identity stays revoked although a registration may be in flight, verification implies an accepted link for the same row, a stored token belongs to an unverified row and to a link made for it |
| `registry_serial` | while the requests of an identity come one at a time, the checks of the handlers are sufficient: verified means the value that was proved, revoked proofs never return, nonces are distinct, an active detail is only replaced after revocation, regular revocations come in increasing order; and the handlers implement the atomic `Ledger`, whose "highest nonce ever used" is computed from the rows that are kept, so that forgetting one would break the mapping |
| `hierarchy_concurrent` | under every interleaving no identity has two masters, and a pending pair and a proposal's id are unique |
| `hierarchy_serial` | one request at a time the hierarchy is a forest; a proposal is accepted or rejected, not both; with fair handlers every request is answered |
| `hierarchy_walk` | the loop ends and answers as the rule does, on every input of four identities |
| `mailbox` | with lost answers, failed roll-backs and deaths of the process: unless requests of one identity cross, identities that show an address as verified have it from one holder of its mailbox, each by its sign-up or by a link that arrived in that mailbox (`OneHolder`; while handlers of different identities overlap, it says that at most one shows it as its own), and a reset reaches the account of its own identity, whatever others sign up for or delete meanwhile (`ResetsOwnAccount`); while requests do not overlap, a name is never given to a second identity by sign-up (`NeverReissued`), wherever a deletion stopped; while nothing is lost, no account is left without its row (`AccountsHaveRows`) |
| `identity_file` | a session keeps its key whatever drops, replaces or locks sessions (`SessionKeyLives`); the salt in the header of the file is that of its key (`HeaderNamesKey`); a file is decrypted only under the key of the session as it is then (`LoadsUnderLiveKey`); while requests do not overlap, the file stays ahead of the server in nonces and revocations, wherever a request fails (`FileAhead`, `RevocationsRecorded`) |
| `mail_store` | a password that was written stays in the file, or in the cache while the file is cut short, until a request is to remove it, through locks, wrong PINs, failed writes and deaths (`SecretsStay`; what the code does lose leaves `stored`, see section 7). Unless a lock came during a request or a read failed: the file keeps its PIN unless a user typed another (`PinStays`); after a lock the passwords are not in memory until a PIN, right or wrong, is given (`LockedUntilOpened`); a sign-up has the PIN from before the mailbox is created (`SignupHasPin`); and, while no write failed either, a deletion answered ok deleted the password (`DeletedIsGone`) |
| `mobile_unlock` | every key in memory is that of a session or of an unlock about to make one (`KeysWiped`); sessions are as long as the setting says (`SessionsFollowSetting`); in the foreground none outlives its deadline, and mail secrets go with it (`IdleLocks`) |

Three runs end in a counterexample: each states something the documentation or a
comment says and the code does not keep. They are described in
[section 7](#7-where-code-and-documentation-disagree).

Every property of a passing run is violated by a faulty variant of some action:
a dropped `UNIQUE`, `>=` for `>`, a token left in the row, a key that is not zeroed,
a name retired after its row is deleted. The longer variants stand beside the action
in its module (comment "Faulty variant"), the others are given in `PROJECT.json`;
none is part of a specification.

## 5. Bounds and fairness

*Registry.* One identity: every handler reads and writes only rows of the
fingerprint in its request, except the confirmation, which finds a row by token,
and tokens are fresh; that identities which interleave do not disturb each other is
part of the theorems of `RegistrySerialProofs` (`WritesOwn`, `OthersKeep`). Two addresses are enough to replace a value by another one.
Two workers: every counterexample needs two handlers, and each query depends on
what one other handler wrote. Two tokens: a link and the one that replaces it;
when no token is left, `SetToken` can only fail. Nonces of details {0, 1} and of
revocations {0, 1, 2} with `EmergencyNonceBase` = 2 in place of 2^31: two regular
nonces in either order and an emergency one at the boundary itself. The interleaved
runs use the path `email`, which has all the behaviour (a link is made on
publication); the serial runs add `opaque::email`, for the nonces that two paths
share and for the hashed comparison.

*Hierarchy.* Three identities: the shortest loop that two posts close has two, and
a third lets a walk go through somebody in between. `MaxProposals` bounds the ids
of proposals ever stored; at the bound an insert ends as one that failed.

*Mailbox.* Three identities and one name: two that compete for it, and a third that
publishes the address and may confirm a link to it. Two accounts (one that a lost
answer left behind and the next one; without a free id `CreateUser` can only fail),
two handlers. States after a crossing are not explored (`NotCrossed`): a crossing
stays one, and there only the type invariant says anything, which is proved
(`TypeCorrect`). 990 thousand states.

*IdentityFile.* One identity with one path, two requests, three key arrays and three
salts (the session's, and one for each request), `MaxNonce` = 1: one change of each
kind. At the bound a change is refused. 660 thousand states.

*MailStore.* Two accounts the user configured and the managed one, the identity's
password and one other PIN: a deletion leaves a password behind, and a candidate can
be the wrong one. One million states.

*MobileUnlock.* Two identities, three key arrays, two calls in progress; auto-lock
times 1 and 3, the default 2: shorter and longer than the default.

Symmetry is used for safety only, between interchangeable constants. The runs with
liveness use none.

*Fairness.* Only `hierarchy_serial` and `hierarchy_walk` check liveness. `Fairness` is
strong fairness of the steps of each worker while the event loop is free: a query
that was sent completes, and the event loop takes ready continuations in turn, so
that finitely many walks of GET requests cannot keep a handler waiting for ever. No
fairness is assumed of clients, and none of failures. The loop of
`validateHierarchy` is weakly fair: synchronous code runs. In `MobileUnlock` the
promptness of timers is part of the transition relation (no time passes in the
foreground while a timer is due), so `IdleLocks` is a safety property.

*Deadlock* is checked everywhere except in `HierarchyWalk`, whose program ends:
a server or a backend can always receive a request.

## 6. Proofs

All theorems are for every value of the constants (any number of identities,
names, requests, workers, keys, PINs, any times and bounds). They assume what the
modules state as assumptions: requests have the shape of a signed request, null
values are not values, bounds are natural numbers, managed and configured accounts
differ. Each theorem follows from an inductive invariant with one lemma or step per
action; the table names it and says what it adds to the property, which is seldom
inductive itself.

Under every interleaving of `Registry` and `Hierarchy`:

| Theorem | Establishes | Argument |
|---|---|---|
| `TypeCorrect` (both) | `TypeOK` | one lemma per action; `JobKinds` gives the kind of request a worker holds at each call |
| `RevocationIsFinal` | `RevokedIdentityStaysRevoked` | `IdentityChanges`: a row of `identities` changes only from none to active, or by a revocation |
| `RevokedHasCertificate` | `RevokedIsCertified` | `CertifiedInv`: `RevokeDetail` writes the mark without looking at the certificates; `ApplyIsCertified` adds that a worker at that call has recorded its own |
| `TokensArePending`, `VerificationNeedsLink` | `PendingTokenUnverified`, `VerifiedWasConfirmed` | `LinkInv` adds that a token is that of one link (`OneLinkPerToken`, from fresh tokens) and that a worker at "markVerified" has accepted a link (`MarkIsConfirmed`) |
| `AtMostOneMaster` | `OneMaster` | the `UNIQUE` constraint in `Insert` |
| `IdsNamePairs` | `ProposalsDistinct` | `IdsInv`: every id in a row or held by a request is below the next one |
| `ProposalsLeaveAnswered` | a proposal leaves the list only when its pair is a certificate or the other party rejected this very proposal (`server/hierarchy.ts:348`) | `StoredInv` = `IdsInv` and `AcceptsAreStored`: an accept that comes to its delete has stored the pair |

The loop of `validateHierarchy`, `HierarchyWalk`:

| Theorem | Establishes | Argument |
|---|---|---|
| `WalkImplementsRule` | `LoopImplementsRule` | `WalkInv`: what the walk has passed (`Passed`) goes from each identity to its master (`FollowsMasters`), lies in every set that is closed upwards from the proposed master (`StaysAbove`), and has no loop until somebody is met twice (`NoLoopYet`). A walk that ends has then passed exactly the set whose existence the rule asks for; one that meets somebody again is on a loop, or below the child, in every such set |
| `WalkMeetsMore` | every iteration answers or adds an identity to `seen`: the safety half of `LoopEnds` | the same invariant |

With failures, while requests come one at a time: in the registry those of one identity
(other identities interleave freely), in the hierarchy all.

| Theorem | Establishes | Argument |
|---|---|---|
| `SerialReplayProtection` | `RetiredProofStaysRetired` | `RetiredBelow`: the row of a retired proof is still there with its nonce or a higher one, and a higher one if it is active. It is inductive because `NonceIsNew` holds when the row is written |
| `SerialDistinctNonces` | `DistinctNonces` | the same `NonceIsNew` |
| `SerialReplacement` | `ReplacedOnlyAfterRevocation` | `ReadIsCurrent`: the state the handler read is still the state of the row |
| `SerialRevocationOrder` | `RevocationNoncesIncrease` | `RevocationIsNew`: the nonce check is still true at the insert |
| `RegistryImplementsLedger` | `ImplementsLedger` | step by step under the mapping of `RegistryRefinement`: `StoreDetail` is `Publish`, `MarkVerified` is `Endorse`, `RevokeDetail` is `Withdraw` (or nothing, if the row is not active), `InsertIdentity` is `Register` and `RevokeIdentity` is `Revoke`; every other query, and every failure, changes nothing the ledger sees. `LedgerInv` adds to the invariant of the rows above and below that an identity's rows have a highest nonce (`HasTop`) and that what a revocation found is still so when it is applied (`FindingsHold`); `TopChanges` says that only a publication changes the highest nonce, and raises it |
| `SerialVerification` | `VerifiedMeansProved` | value by value along the protocol: `LinkTargetIsCurrent` (a link is made for the value of the row), `TokenProvesRow` (the token in a row was sent to its address), `MarkProvesRow` (so was the one just accepted) |
| `SerialAcyclic` | `Acyclic` | `InsertIsValid` (the pair is still valid at the insert) and `ValidatedKeepsAcyclic`: adding a pair that passes `ValidateHierarchy` keeps an acyclic set acyclic |
| `WalksRise` | every iteration of GET's `while (true)` strictly shrinks the set of identities above the current one: the safety half of `Answered` | `ForestInv`: a walk reads an acyclic list of pairs. `AboveShrinks`: on such a list the master has fewer above it than the child |
| `SerialOneAnswer` | `RejectedIsNotAccepted` | `AnswersInv`: an answered proposal is gone and nobody is answering it |

`ReadIsCurrent`, `NonceIsNew`, `RevocationIsNew` and `InsertIsValid` are exactly
what an interleaving breaks (section 7).

`Mailbox`, each within the course its property names:

| Theorem | Establishes | Argument |
|---|---|---|
| `TypeCorrect` | `TypeOK` | one lemma per action |
| `AddressHasOneHolder` | `OneHolder` | `OwnInv`, under every interleaving of different identities: when an identity shows an address as its own, nobody else has an account of that name and it has one or the row (`OwnSound`); what a sign-up on the way there knows is `OwnJob`. `ClaimsInv`, while requests do not overlap: all links and claims of a name are those of one holder (`OneReader`, `ClaimSound`). `ReadInv`: a verified row has a reader |
| `NameStaysRetired` | `NeverReissued` | `NamesInv`: a name that was held has its row or is retired (`HeldOnce`), and a deletion past `Retire` has retired it (`NameSound`) |
| `PasswordsAreOwn` | `ResetsOwnAccount` | `AccountsInv`, under every interleaving of different identities: the account whose id is in a row or in a handler is gone or is the row owner's |
| `NoOrphanAccount` | `AccountsHaveRows` | `RowsInv`: an account has its row (`Kept`), or the handler at work has its id and is going to write it or to remove the account (`Held`) |

`IdentityFile`:

| Theorem | Establishes | Argument |
|---|---|---|
| `TypeCorrect` | `TypeOK` | one lemma per action |
| `SessionKeyStays`, `HeaderIsTrue`, `LoadsAreLive` | `SessionKeyLives`, `HeaderNamesKey`, `LoadsUnderLiveKey` | `KeysInv`, under every interleaving: only the session's array is known to live (`OnlySessionLives`), and every request names an array with its own salt's key or with zeros (`JobsNameKeys`) |
| `FileStaysAhead`, `RevocationsAreRecorded` | `FileAhead`, `RevocationsRecorded` | `SmoothInv`: while requests do not overlap the only one in flight carries a copy that is as far ahead as the file, and its own change (`Carries`), and what the server does not know is blank |
| `PushesAreFresh` | while requests do not overlap, no push is refused for a nonce or a second revocation, whatever failed before it | the same `SmoothInv` (`Kept`) |

`MailStore`:

| Theorem | Establishes | Argument |
|---|---|---|
| `TypeCorrect` | `TypeOK` | `TypeInv` adds what a request holds at each step (`Shapes`) |
| `PasswordsStay` | `SecretsStay` | `StoreInv`, whatever locks and failures came before: the cache (`CacheCovers`), the store about to be written and the one a deletion holds (`RequestCovers`) each cover `stored`, so that a save repairs a file cut short |
| `PinIsTyped` | `PinStays` | `PinInv`: with a file, the cached PIN is the file's or was typed; what is written is written under the cached PIN |
| `LocksUntilOpened` | `LockedUntilOpened` | `OpenInv`: until something is given there is no PIN in memory, and no request has one to try |
| `SignupsHavePin` | `SignupHasPin` | `SignInv`: from the call to the server on, the PIN opens the store or the store is cached |
| `DeletionsRemove` | `DeletedIsGone` | `GoneInv`: while no read or write failed, the cache and what a deletion holds are no less than the file |

`MobileUnlock`:

| Theorem | Establishes | Argument |
|---|---|---|
| `TypeCorrect` | `TypeOK` | one step per action |
| `KeysAreWiped` | `KeysWiped` | `KeysInv`: a live array has one owner, a session or an unlock (`KeysApart`), so that dropping one does not zero another's |
| `SessionsAreLocked` | `IdleLocks` | `TimersInv`: the timer of a session is due when the session is |
| `LengthFollowsSetting` | `SessionsFollowSetting` | `SettingInv`: unless unlocks overlapped, a read in progress brings the current setting, or its result is discarded and the configured time is the setting |

Every safety property of a passing run is the conclusion of a theorem. Only
model-checked is liveness, `Answered` and `LoopEnds`: the provers at hand have no
`ENABLED` and no induction along a variant. Of both the part that is a safety property is
proved (`WalksRise`, `WalkMeetsMore`): the loop cannot repeat itself, and it can only go on
as often as there are identities. The properties of the three runs that end in a
counterexample are false and have no theorem.

## 7. Where code and documentation disagree

| Run | The statement | What the code does |
|---|---|---|
| `registry_endorsed` | verification endorses the value that was confirmed (`wiki/component-server.md:37`) | the token is stored, and the mark written, by (fingerprint, path); a value that was republished meanwhile is endorsed |
| `identity_file_opens` | the private keys are encrypted with the user's password (`wiki/identity-model.md:48`) | a save awaits the creation of the directory and then encrypts with the array it was given (`gui/local-backend/identity.ts:123`); a lock, an expiry or a second unlock in between has zeroed that array in place, and the file is encrypted under zeros. `mobile/src/services/storage.ts:290` has the same order |
| `mail_store_signup` | the PIN is resolved before provisioning "so the mailbox password can always be stored locally" (`gui/local-backend/routes.ts:4564`) | a lock or an expiry while the server provisions clears the PIN; the password of the new mailbox cannot be stored |

Met while modelling, and without a run of their own. Some of them are what a serial run
shows to be absent when requests do not overlap; to see those, change `SPECIFICATION` to
`Spec` (`FairSpec`) in its configuration:

- Two publications that both read the revoked row both update it
  (`server/handlers/identity.ts:345`): the second replaces an active detail, though
  `wiki/component-server.md:41` says the old value must be revoked first. Likewise a
  publication that passed the nonce check early is stored after a newer one was revoked,
  and two revocations read the maximum before either inserts.
- Two hierarchy posts validate against the same list and both insert
  (`server/hierarchy.ts:168`): a loop is stored, and the walk to the root, which has no
  visited set (`server/hierarchy.ts:397`), keeps the event loop.
- An emergency certificate is consumed "once applied" (`wiki/revocation-system.md:71`); a
  failure between its record and the mark (`server/handlers/revocation.ts:98`) consumes
  it without applying it, also with one request at a time.
- "Retired usernames are never reissued" (`server/db/index.ts:906`): a sign-up that has
  checked the retired names while another identity signs up for the name and
  deletes it still gets it. With a sign-up and a deletion of one identity overlapping and
  a third handler, two identities show one address of two holders: this is why
  `OneHolder` and `NeverReissued` name their course. A sign-up whose query commits but
  is answered with an error rolls back while its detail may stay verified; it counts as
  crossed.
- `POST /detail` takes an address of the managed domain from any identity and mails the
  link to it (`server/handlers/identity.ts:353`). If whoever holds the mailbox opens the
  link (`server/verify-email.ts:334`), a second identity shows the address as verified,
  with nothing lost or overlapping; the link of a deleted mailbox still works for the
  identity it was mailed for. `OneHolder` says that it takes the holder's mailbox, not
  that one identity shows the address. Opaque e-mail details, whose hash says nothing of
  the domain, are not in `Mailbox`.
- A lost answer of the mail server leaves an account that no row names and nothing
  removes; `AccountsHaveRows` excludes that course.
- A sign-up in the GUI pushes the e-mail detail before it saves the identity
  (`gui/local-backend/routes.ts:4612`): if the save fails the file falls behind the
  server. Two overlapping requests on one file lose the update of one.
- A read of the passwords that fails is taken for an absent file
  (`gui/local-backend/mail-account.ts:91`): an empty store is cached, and the next save
  overwrites the passwords. A write that is cut short loses them if they are not cached,
  or if a lock, a restart or an unlock (which caches an empty store) comes before the
  next save. A lock during a request, whose read then fills the cache again
  (`mail-account.ts:312`), or leaves a store cached that is saved under another PIN
  (`routes.ts:423`), is what `LockedUntilOpened` and `PinStays` exclude; a deletion after
  a failed write, which had left the cache ahead of the file (`mail-account.ts:363`),
  leaves the password there, and `DeletedIsGone` excludes it.
- `wiki/revocation-system.md:69` advises nonce 0 for an emergency certificate, which in
  the code is a regular nonce (`EMERGENCY_NONCE_BASE` is 2^31, `core/Revocation.ts`).

## 8. Not modelled

Most of the repository's lines are pages, screens, presentation, cryptography, a word
list and plain reads; they keep no state that could be left wrong by an order of events.
A model of them would repeat the code. What is left out, and why:

- Cryptography, encodings, key derivation: signatures, hashes and ciphers are
  ideal; a request that does not verify has no effect and no action.
- GUI pages, mobile screens, CLI output, desktop shell, website: presentation
  and sequential calls to the parts above.
- The read side (GET identity, discovery, search): it reads the tables of `Registry`
  in separate queries. What a reader may be shown together has no statement in the
  repository; after the failure between the two writes of a revocation the views
  disagree (section 7).
- Rate limiting: one synchronous function over a counter. Signature verification and
  the OAuth proxy keep nothing. The mail rules are pure functions of a few lines.
- HTTP routing, CORS, body limits, wording of answers.
- Expiry of verification links by the clock: a link may at any time cease to be
  used, which includes expiry. Whether and when a mail arrives is left open.
- `MAIL_SIGNUP_ENABLED` in `Registry`: it is the server with that setting off, its
  default. The mailbox handlers write the `email` row by other rules (verified
  without a link, revoked without a certificate), so `VerifiedWasConfirmed` and
  `RevokedIsCertified` are statements about details that no mailbox belongs to;
  `Mailbox` has the others.
- In `IdentityFile`: the upgrade of files from older key derivations, which saves the
  file during an unlock (`gui/local-backend/identity.ts:63`, `unlock-session.ts:160`);
  the removal of the e-mail detail after a mailbox was deleted (`routes.ts:4809`);
  contacts, the local copy of the hierarchy and other sections of the file; the length of
  a session, which ends at any time.
- In `MailStore`: two requests at once, which the caches do not exclude; the older
  formats of the two files.
- In `MobileUnlock`: `saveIdentityUnlocked` (section 7), storage that fails, and the
  screens beyond their calls of the session store.
