---------------------------- MODULE MobileUnlock ----------------------------
(***************************************************************************)
(* The unlock sessions of the mobile app (mobile/src/services/             *)
(* unlockSession.ts and unlockSessionLogic.ts), with the calls of          *)
(* storage.ts, useIdentityUnlock.tsx and SettingsScreen.tsx that use them. *)
(*                                                                         *)
(* A session holds an identity's storage key until it has been idle for    *)
(* the auto-lock time.  Time is counted, not read off a clock: `left` of a *)
(* session is expiresAt - now, and a timer has what remains of its delay.  *)
(* JavaScript runs one step at a time; a job's step ends at an `await`.    *)
(* In the foreground a timer fires before more time passes; in the         *)
(* background it may be held back.  Writes of the setting do not fail and  *)
(* are carried out in the order they were made.                            *)
(***************************************************************************)
EXTENDS Integers

CONSTANTS
    Names,      \* identities
    Keys,       \* key arrays
    NoKey,      \* no key
    Jobs,       \* calls that await something
    Settings,   \* auto-lock times that can be chosen
    Default,    \* DEFAULT_AUTO_LOCK_MINUTES
    Longest     \* no auto-lock time is longer: the bound on the time counted in `away`

ASSUME TimesAssumption ==
    Longest \in Nat /\ Default \in 1 .. Longest /\ Settings \subseteq 1 .. Longest
ASSUME NoKeyAssumption == NoKey \notin Keys

VARIABLES
    session,    \* the store's sessions
    timer,      \* what remains of each identity's timer, or Off
    live,       \* key arrays that were filled and not zeroed since
    mail,       \* identities whose mail secrets are in memory
    configured, \* configuredTimeoutMs
    setting,    \* the auto-lock time in AsyncStorage
    watching,   \* watcherInstalled
    reading,    \* the watcher's read of the setting
    active,     \* the app is in the foreground
    away,       \* time since backgroundedAt, or Off
    job,        \* what each call waits for
    overlapped  \* history: two unlocks awaited the setting at once in this process

vars == <<session, timer, live, mail, configured, setting, watching, reading,
          active, away, job, overlapped>>
store == <<session, timer, live, mail>>
clock == <<watching, active, away>>

Times == Settings \union {Default}
Off == -1
Remaining == 0 .. Longest

NoSession == [key |-> NoKey, timeout |-> 0, left |-> 0]
Session == [key : Keys, timeout : Times, left : Remaining]

\* `latest`: the generation taken when the read began is still timeoutGeneration.
NoRead == [value |-> 0, latest |-> FALSE]
Read == [value : Times, latest : BOOLEAN]
Idle == [at |-> "idle"]
Job == [at : {"derive", "mail"}, name : Names]
       \union [at : {"load"}, name : Names, key : Keys]
       \union [at : {"cache"}, name : Names, key : Keys, read : Read]

Init ==
    /\ session = [n \in Names |-> NoSession]
    /\ timer = [n \in Names |-> Off]
    /\ live = {}
    /\ mail = {}
    /\ configured = Default
    /\ setting \in Times
    /\ watching = FALSE
    /\ reading = NoRead
    /\ active = TRUE
    /\ away = Off
    /\ job = [j \in Jobs |-> Idle]
    /\ overlapped = FALSE

Held(n) == session[n] # NoSession
Expired(n) == Held(n) /\ session[n].left = 0
Live(n) == Held(n) /\ session[n].left > 0

---------------------------------------------------------------------------
(* The steps that several handlers share. *)

\* lock of each of `ns`: zero and forget the key, stop the timer, tell the listener that
\* drops the mail secrets.
LockAllOf(ns) ==
    /\ session' = [n \in Names |-> IF n \in ns THEN NoSession ELSE session[n]]
    /\ timer' = [n \in Names |-> IF n \in ns THEN Off ELSE timer[n]]
    /\ live' = live \ {session[n].key : n \in ns}
    /\ mail' = mail \ ns

\* store.lockAll returns the identities that have a session; the others are not notified.
LockHeld == LockAllOf({n \in Names : Held(n)})

\* Faulty variant: the idle time is added to what is left.
TouchAdds(n) ==
    /\ session' = [session EXCEPT ![n].left = @ + session[n].timeout]
    /\ timer' = [timer EXCEPT ![n] = session[n].left + session[n].timeout]
    /\ UNCHANGED <<live, mail>>

\* readLive: slide the deadline and arm the timer again.
Touch(n) ==
    /\ session' = [session EXCEPT ![n].left = session[n].timeout]
    /\ timer' = [timer EXCEPT ![n] = session[n].timeout]
    /\ UNCHANGED <<live, mail>>

\* A bump of timeoutGeneration: no read that began before it is the latest.
Bumped(q) == [j \in Jobs |-> IF q[j].at = "cache" THEN [q[j] EXCEPT !.read.latest = FALSE]
                                                  ELSE q[j]]
ReadBumped == reading' = [value |-> reading.value, latest |-> FALSE]

---------------------------------------------------------------------------
(* Unlocking. *)

\* A screen is shown: useIdentityUnlock installs the watcher, which reads the setting.
InstallWatcher ==
    /\ active /\ ~watching
    /\ watching' = TRUE
    /\ reading' = [value |-> setting, latest |-> TRUE]
    /\ UNCHANGED <<store, configured, setting, active, away, job, overlapped>>

\* The watcher's read of the setting is answered, or fails.
WatcherRead ==
    /\ reading # NoRead
    /\ configured' \in {configured} \union (IF reading.latest THEN {reading.value} ELSE {})
    /\ reading' = NoRead
    /\ UNCHANGED <<store, setting, clock, job, overlapped>>

\* ensureUnlocked without a live session: an expired one is dropped; the user is asked
\* for the password, and the key is derived.
EnsureUnlocked(j, n) ==
    /\ active /\ watching
    /\ job[j] = Idle
    /\ ~Live(n)
    /\ IF Expired(n) THEN LockAllOf({n}) ELSE UNCHANGED store
    /\ job' = [job EXCEPT ![j] = [at |-> "derive", name |-> n]]
    /\ UNCHANGED <<configured, setting, clock, reading, overlapped>>

\* The prompt is cancelled or the password is wrong.
GiveUp(j) ==
    /\ job[j].at = "derive"
    /\ job' = [job EXCEPT ![j] = Idle]
    /\ UNCHANGED <<store, configured, setting, clock, reading, overlapped>>

\* The key opens the file; cacheUnlockedIdentity asks for the setting.
Derived(j) ==
    /\ job[j].at = "derive"
    /\ \E k \in Keys \ live :
        /\ \A i \in Jobs : job[i].at \in {"load", "cache"} => job[i].key # k
        /\ live' = live \union {k}
        /\ job' = [Bumped(job) EXCEPT
                       ![j] = [at |-> "cache", name |-> job[j].name, key |-> k,
                               read |-> [value |-> setting, latest |-> TRUE]]]
    /\ ReadBumped
    /\ overlapped' = (overlapped \/ \E i \in Jobs : job[i].at = "cache")
    /\ UNCHANGED <<session, timer, mail, configured, setting, clock>>

\* Faulty variant: the key that is replaced is not zeroed.
CacheKeepsOld(j) ==
    /\ job[j].at = "cache"
    /\ LET n == job[j].name
           t == IF job[j].read.latest THEN job[j].read.value ELSE configured
       IN /\ configured' = t
          /\ session' = [session EXCEPT ![n] = [key |-> job[j].key, timeout |-> t, left |-> t]]
          /\ timer' = [timer EXCEPT ![n] = t]
          /\ job' = [job EXCEPT ![j] = [at |-> "mail", name |-> n]]
    /\ UNCHANGED <<live, mail, setting, clock, reading, overlapped>>

\* Faulty variant: the generation is not compared.
CacheStaleSetting(j) ==
    /\ job[j].at = "cache"
    /\ LET n == job[j].name
           t == job[j].read.value
       IN /\ configured' = t
          /\ session' = [session EXCEPT ![n] = [key |-> job[j].key, timeout |-> t, left |-> t]]
          /\ timer' = [timer EXCEPT ![n] = t]
          /\ live' = live \ {session[n].key}
          /\ job' = [job EXCEPT ![j] = [at |-> "mail", name |-> n]]
    /\ UNCHANGED <<mail, setting, clock, reading, overlapped>>

\* The setting is there: the key becomes the session's, and the one it replaces is zeroed.
CacheUnlockedIdentity(j) ==
    /\ job[j].at = "cache"
    /\ LET n == job[j].name
           t == IF job[j].read.latest THEN job[j].read.value ELSE configured
       IN /\ configured' = t
          /\ session' = [session EXCEPT ![n] = [key |-> job[j].key, timeout |-> t, left |-> t]]
          /\ timer' = [timer EXCEPT ![n] = t]
          /\ live' = live \ {session[n].key}
          /\ job' = [job EXCEPT ![j] = [at |-> "mail", name |-> n]]
    /\ UNCHANGED <<mail, setting, clock, reading, overlapped>>

\* The setting cannot be read: unlockIdentity zeroes the key and throws.
SettingUnreadable(j) ==
    /\ job[j].at = "cache"
    /\ live' = live \ {job[j].key}
    /\ job' = [job EXCEPT ![j] = Idle]
    /\ UNCHANGED <<session, timer, mail, configured, setting, clock, reading, overlapped>>

\* The password is tried as the mail PIN; ensureUnlocked ignores a failure.
MailUnlocked(j) ==
    /\ job[j].at = "mail"
    /\ mail' \in {mail, mail \union {job[j].name}}
    /\ job' = [job EXCEPT ![j] = Idle]
    /\ UNCHANGED <<session, timer, live, configured, setting, clock, reading, overlapped>>

\* A mail screen asks for the PIN: the identity need not be unlocked.
UnlockMail(n) ==
    /\ active
    /\ mail' = mail \union {n}
    /\ UNCHANGED <<session, timer, live, configured, setting, clock, reading, job, overlapped>>

---------------------------------------------------------------------------
(* Using a session. *)

\* loadIdentityUnlocked takes the key and waits for the file.
BeginLoad(j, n) ==
    /\ job[j] = Idle
    /\ Live(n)
    /\ Touch(n)
    /\ job' = [job EXCEPT ![j] = [at |-> "load", name |-> n, key |-> session[n].key]]
    /\ UNCHANGED <<configured, setting, clock, reading, overlapped>>

\* The file opens: the key array still holds the key.
Loaded(j) ==
    /\ job[j].at = "load" /\ job[j].key \in live
    /\ job' = [job EXCEPT ![j] = Idle]
    /\ UNCHANGED <<store, configured, setting, clock, reading, overlapped>>

\* It does not: the file was replaced or is gone, or the array was zeroed meanwhile.
\* Whatever session the identity has now is locked.
LoadedStale(j) ==
    /\ job[j].at = "load"
    /\ LockAllOf({job[j].name})
    /\ job' = [job EXCEPT ![j] = Idle]
    /\ UNCHANGED <<configured, setting, clock, reading, overlapped>>

\* getUnlockMaterial or isUnlocked finds a session that ran out.
DropIfExpired(n) ==
    /\ Expired(n)
    /\ LockAllOf({n})
    /\ UNCHANGED <<configured, setting, clock, reading, job, overlapped>>

\* deleteIdentity locks whether or not there is a session.
DeleteIdentity(n) ==
    /\ active
    /\ LockAllOf({n})
    /\ UNCHANGED <<configured, setting, clock, reading, job, overlapped>>

---------------------------------------------------------------------------
(* Settings, time and the app's state. *)

\* Faulty variant: the timers keep the old delay.
ApplyWithoutArming(t) ==
    /\ active
    /\ setting' = t
    /\ configured' = t
    /\ session' = [n \in Names |-> IF Live(n)
                                   THEN [session[n] EXCEPT !.timeout = t, !.left = t]
                                   ELSE NoSession]
    /\ timer' = [n \in Names |-> IF Live(n) THEN timer[n] ELSE Off]
    /\ live' = live \ {session[n].key : n \in {m \in Names : Expired(m)}}
    /\ mail' = mail \ {n \in Names : Expired(n)}
    /\ job' = Bumped(job)
    /\ ReadBumped
    /\ UNCHANGED <<clock, overlapped>>

\* The auto-lock control stores the time and applies it to the sessions.
ApplyUnlockTimeout(t) ==
    /\ active
    /\ setting' = t
    /\ configured' = t
    /\ session' = [n \in Names |-> IF Live(n)
                                   THEN [session[n] EXCEPT !.timeout = t, !.left = t]
                                   ELSE NoSession]
    /\ timer' = [n \in Names |-> IF Live(n) THEN t ELSE Off]
    /\ live' = live \ {session[n].key : n \in {m \in Names : Expired(m)}}
    /\ mail' = mail \ {n \in Names : Expired(n)}
    /\ job' = Bumped(job)
    /\ ReadBumped
    /\ UNCHANGED <<clock, overlapped>>

\* The "Lock now" control.
LockNow ==
    /\ active
    /\ LockHeld
    /\ UNCHANGED <<configured, setting, clock, reading, job, overlapped>>

\* A timer fires; it is armed again if the session has time left.
TimerFires(n) ==
    /\ timer[n] = 0
    /\ IF Expired(n)
       THEN LockAllOf({n})
       ELSE /\ timer' = [timer EXCEPT ![n] = IF Live(n) THEN session[n].left ELSE Off]
            /\ UNCHANGED <<session, live, mail>>
    /\ UNCHANGED <<configured, setting, clock, reading, job, overlapped>>

Down(t) == IF t > 0 THEN t - 1 ELSE t

\* A unit of time passes.
Tick ==
    /\ active => \A n \in Names : timer[n] # 0
    /\ session' = [n \in Names |-> [session[n] EXCEPT !.left = Down(session[n].left)]]
    /\ timer' = [n \in Names |-> Down(timer[n])]
    /\ away' = IF away = Off \/ away = Longest THEN away ELSE away + 1
    /\ UNCHANGED <<live, mail, configured, setting, watching, reading, active, job, overlapped>>

Background ==
    /\ active
    /\ active' = FALSE
    /\ away' = IF watching THEN 0 ELSE Off
    /\ UNCHANGED <<store, configured, setting, watching, reading, job, overlapped>>

\* onAppState: lock after a long absence, else drop what ran out.
Foreground ==
    /\ ~active
    /\ active' = TRUE
    /\ away' = Off
    /\ IF away = Off THEN UNCHANGED store
       ELSE IF away >= configured THEN LockHeld
       ELSE LockAllOf({n \in Names : Expired(n)})
    /\ UNCHANGED <<configured, setting, watching, reading, job, overlapped>>

\* The process ends and the app is started again: only the setting is kept.
Restart ==
    /\ session' = [n \in Names |-> NoSession]
    /\ timer' = [n \in Names |-> Off]
    /\ live' = {} /\ mail' = {}
    /\ configured' = Default
    /\ watching' = FALSE /\ reading' = NoRead
    /\ active' = TRUE /\ away' = Off
    /\ job' = [j \in Jobs |-> Idle]
    /\ overlapped' = FALSE
    /\ UNCHANGED setting

---------------------------------------------------------------------------

Next ==
    \/ InstallWatcher \/ WatcherRead
    \/ \E j \in Jobs, n \in Names : EnsureUnlocked(j, n) \/ BeginLoad(j, n)
    \/ \E j \in Jobs : \/ GiveUp(j) \/ Derived(j)
                       \/ CacheUnlockedIdentity(j) \/ SettingUnreadable(j)
                       \/ MailUnlocked(j) \/ Loaded(j) \/ LoadedStale(j)
    \/ \E n \in Names : UnlockMail(n) \/ DropIfExpired(n) \/ DeleteIdentity(n) \/ TimerFires(n)
    \/ \E t \in Settings : ApplyUnlockTimeout(t)
    \/ LockNow \/ Tick \/ Background \/ Foreground \/ Restart

Spec == Init /\ [][Next]_vars

---------------------------------------------------------------------------
(* Properties. *)

\* Every variable has the values the code gives it; time counts down to 0 and stays.
TypeOK ==
    /\ session \in [Names -> Session \union {NoSession}]
    /\ timer \in [Names -> Remaining \union {Off}]
    /\ live \subseteq Keys
    /\ mail \subseteq Names
    /\ configured \in Times
    /\ setting \in Times
    /\ watching \in BOOLEAN
    /\ reading \in Read \union {NoRead}
    /\ active \in BOOLEAN
    /\ away \in Remaining \union {Off}
    /\ job \in [Jobs -> Job \union {Idle}]
    /\ overlapped \in BOOLEAN

\* A key array that is not zeroed is the key of a session or of an unlock that is about to
\* make one, and those are not zeroed: however sessions are replaced, dropped and locked by
\* unlocks, timers, the setting, the background and deletions, no key is left behind in
\* memory, and no session is left with a key that is zero (unlockSessionLogic.ts:86-166,
\* storage.ts:223-237).
KeysWiped ==
    live = {session[n].key : n \in {m \in Names : Held(m)}}
           \union {job[j].key : j \in {i \in Jobs : job[i].at = "cache"}}

\* In the foreground no time passes for a session that ran out: whatever slid its deadline
\* or changed its length, there is a timer to lock it when it is due.  And a session that
\* ends while the app runs takes the identity's mail secrets with it (unlockSession.ts:51-91;
\* wiki/key-management.md:82).
IdleLocks ==
    [][/\ Tick /\ active => \A n \in Names : ~Expired(n)
       /\ watching' => \A n \in Names : Held(n) /\ session'[n] = NoSession => n \notin mail']_vars

\* A session's length is the setting, also when the setting changed while the unlock was
\* under way.  The exception is two unlocks whose reads of the setting overlapped: each
\* bump of the generation discards the read before it, and the first session may get the
\* default (unlockSession.ts:138-155).
SessionsFollowSetting ==
    \A n \in Names : Held(n) => \/ session[n].timeout = setting
                                \/ session[n].timeout = Default /\ overlapped

=============================================================================
