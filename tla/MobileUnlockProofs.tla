------------------------- MODULE MobileUnlockProofs -------------------------
(* Theorems about MobileUnlock, for any identities, keys, calls and times. *)
EXTENDS MobileUnlock, TLAPS

---------------------------------------------------------------------------
(* Types. *)

LEMMA TimesAreRemaining ==
    /\ Times \subseteq Remaining
    /\ 0 \in Remaining
    /\ \A t \in Remaining \union {Off} : Down(t) \in Remaining \union {Off}
    /\ \A t \in Remaining : Down(t) \in Remaining
BY TimesAssumption DEF Times, Remaining, Down, Off

LEMMA LockAllOfTyped ==
    ASSUME TypeOK, NEW ns \in SUBSET Names, LockAllOf(ns)
    PROVE /\ session' \in [Names -> Session \union {NoSession}]
          /\ timer' \in [Names -> Remaining \union {Off}]
          /\ live' \subseteq Keys
          /\ mail' \subseteq Names
BY DEF TypeOK, LockAllOf

LEMMA TouchTyped ==
    ASSUME TypeOK, NEW n \in Names, Held(n), Touch(n)
    PROVE /\ session' \in [Names -> Session \union {NoSession}]
          /\ timer' \in [Names -> Remaining \union {Off}]
          /\ live' \subseteq Keys
          /\ mail' \subseteq Names
<1>1. session[n] \in Session
    BY DEF TypeOK, Held
<1>2. [session[n] EXCEPT !.left = session[n].timeout] \in Session
    BY <1>1, TimesAreRemaining DEF Session
<1> QED
    BY <1>1, <1>2, TimesAreRemaining DEF Touch, TypeOK, Session

LEMMA BumpedTyped ==
    ASSUME NEW q \in [Jobs -> Job \union {Idle}]
    PROVE Bumped(q) \in [Jobs -> Job \union {Idle}]
<1>1. SUFFICES ASSUME NEW j \in Jobs, q[j].at = "cache"
               PROVE [q[j] EXCEPT !.read.latest = FALSE] \in Job
    BY DEF Bumped
<1>2. q[j] \in [at : {"cache"}, name : Names, key : Keys, read : Read]
    BY <1>1 DEF Job, Idle
<1>3. q[j].read \in [value : Times, latest : BOOLEAN]
    BY <1>2 DEF Read
<1>4. [q[j].read EXCEPT !.latest = FALSE] \in Read
    BY <1>3 DEF Read
<1>5. [q[j] EXCEPT !.read = [q[j].read EXCEPT !.latest = FALSE]] \in
          [at : {"cache"}, name : Names, key : Keys, read : Read]
    BY <1>2, <1>4
<1>6. [q[j] EXCEPT !.read.latest = FALSE] = [q[j] EXCEPT !.read = [q[j].read EXCEPT !.latest = FALSE]]
    OBVIOUS
<1> QED
    BY <1>5, <1>6 DEF Job

LEMMA CacheJob ==
    ASSUME TypeOK, NEW j \in Jobs, job[j].at = "cache"
    PROVE job[j] \in [at : {"cache"}, name : Names, key : Keys, read : Read]
BY DEF TypeOK, Job, Idle

LEMMA NamedJob ==
    ASSUME TypeOK, NEW j \in Jobs, job[j] # Idle
    PROVE job[j].name \in Names
BY DEF TypeOK, Job

LEMMA ReadBumpedTyped ==
    ASSUME TypeOK, ReadBumped
    PROVE reading' \in Read \union {NoRead}
<1>1. CASE reading \in Read
    BY <1>1 DEF ReadBumped, Read
<1>2. CASE reading = NoRead
    <2>1. reading.value = 0
        BY <1>2 DEF NoRead
    <2> QED
        BY <2>1 DEF ReadBumped, NoRead
<1> QED
    BY <1>1, <1>2 DEF TypeOK

LEMMA InitTypeOK == Init => TypeOK
BY TimesAreRemaining DEF Init, TypeOK, Times, Read, NoRead

\* A step that ends the wait of a job, and at most locks or adds mail secrets.
LEMMA JobEndTyped ==
    ASSUME TypeOK, NEW j \in Jobs,
           UNCHANGED <<configured, setting, clock, reading>>, overlapped' = overlapped,
           NEW w \in Job \union {Idle}, job' = [job EXCEPT ![j] = w],
           session' \in [Names -> Session \union {NoSession}],
           timer' \in [Names -> Remaining \union {Off}],
           live' \subseteq Keys, mail' \subseteq Names
    PROVE TypeOK'
BY DEF TypeOK, clock

LEMMA EnsureUnlockedTyped ==
    ASSUME TypeOK, NEW j \in Jobs, NEW n \in Names, EnsureUnlocked(j, n)
    PROVE TypeOK'
<1>1. [at |-> "derive", name |-> n] \in Job
    BY DEF Job
<1>2. /\ session' \in [Names -> Session \union {NoSession}]
      /\ timer' \in [Names -> Remaining \union {Off}]
      /\ live' \subseteq Keys
      /\ mail' \subseteq Names
    <2>1. CASE Expired(n)
        BY <2>1, LockAllOfTyped DEF EnsureUnlocked
    <2>2. CASE ~Expired(n)
        BY <2>2 DEF EnsureUnlocked, store, TypeOK
    <2> QED
        BY <2>1, <2>2
<1> QED
    BY <1>1, <1>2, JobEndTyped DEF EnsureUnlocked

LEMMA BeginLoadTyped ==
    ASSUME TypeOK, NEW j \in Jobs, NEW n \in Names, BeginLoad(j, n)
    PROVE TypeOK'
<1>1. Held(n)
    BY DEF BeginLoad, Live
<1>2. session[n].key \in Keys
    BY <1>1 DEF TypeOK, Held, Session
<1>3. [at |-> "load", name |-> n, key |-> session[n].key] \in Job
    BY <1>2 DEF Job
<1> QED
    BY <1>1, <1>3, TouchTyped, JobEndTyped DEF BeginLoad

LEMMA DerivedTyped ==
    ASSUME TypeOK, NEW j \in Jobs, Derived(j)
    PROVE TypeOK'
<1>1. PICK k \in Keys \ live :
          /\ live' = live \union {k}
          /\ job' = [Bumped(job) EXCEPT
                        ![j] = [at |-> "cache", name |-> job[j].name, key |-> k,
                                read |-> [value |-> setting, latest |-> TRUE]]]
    BY DEF Derived
<1>2. job[j].name \in Names
    BY NamedJob DEF Derived, Idle
<1>3. [value |-> setting, latest |-> TRUE] \in Read
    BY DEF TypeOK, Read
<1>4. [at |-> "cache", name |-> job[j].name, key |-> k,
       read |-> [value |-> setting, latest |-> TRUE]] \in Job
    BY <1>2, <1>3 DEF Job
<1>5. job' \in [Jobs -> Job \union {Idle}]
    BY <1>1, <1>4, BumpedTyped DEF TypeOK
<1>6. reading' \in Read \union {NoRead}
    BY ReadBumpedTyped DEF Derived
<1>7. overlapped' \in BOOLEAN
    BY DEF Derived, TypeOK
<1> QED
    BY <1>1, <1>5, <1>6, <1>7 DEF Derived, TypeOK, clock

LEMMA CacheUnlockedIdentityTyped ==
    ASSUME TypeOK, NEW j \in Jobs, CacheUnlockedIdentity(j)
    PROVE TypeOK'
<1> DEFINE n == job[j].name
           t == IF job[j].read.latest THEN job[j].read.value ELSE configured
           s == [key |-> job[j].key, timeout |-> t, left |-> t]
<1>1. n \in Names /\ job[j].key \in Keys /\ t \in Times
    BY CacheJob DEF CacheUnlockedIdentity, TypeOK, Read
<1>2. s \in Session /\ t \in Remaining
    BY <1>1, TimesAreRemaining DEF Session
<1>3. [at |-> "mail", name |-> n] \in Job
    BY <1>1 DEF Job
<1>4. /\ session' = [session EXCEPT ![n] = s]
      /\ timer' = [timer EXCEPT ![n] = t]
      /\ live' = live \ {session[n].key}
      /\ configured' = t
      /\ job' = [job EXCEPT ![j] = [at |-> "mail", name |-> n]]
    BY DEF CacheUnlockedIdentity
<1> HIDE DEF n, t, s
<1> QED
    BY <1>1, <1>2, <1>3, <1>4 DEF CacheUnlockedIdentity, TypeOK, clock

LEMMA ApplyUnlockTimeoutTyped ==
    ASSUME TypeOK, NEW t \in Settings, ApplyUnlockTimeout(t)
    PROVE TypeOK'
<1>1. t \in Times /\ t \in Remaining
    BY TimesAreRemaining DEF Times
<1>2. ASSUME NEW n \in Names, Live(n)
      PROVE [session[n] EXCEPT !.timeout = t, !.left = t] \in Session
    <2>1. session[n] \in Session
        BY <1>2 DEF Live, Held, TypeOK
    <2> QED
        BY <2>1, <1>1 DEF Session
<1>3. session' \in [Names -> Session \union {NoSession}]
    BY <1>2 DEF ApplyUnlockTimeout
<1>4. timer' \in [Names -> Remaining \union {Off}]
    BY <1>1 DEF ApplyUnlockTimeout
<1>5. job' \in [Jobs -> Job \union {Idle}]
    BY BumpedTyped DEF ApplyUnlockTimeout, TypeOK
<1>6. reading' \in Read \union {NoRead}
    BY ReadBumpedTyped DEF ApplyUnlockTimeout
<1> QED
    BY <1>1, <1>3, <1>4, <1>5, <1>6 DEF ApplyUnlockTimeout, TypeOK, clock

LEMMA TimerFiresTyped ==
    ASSUME TypeOK, NEW n \in Names, TimerFires(n)
    PROVE TypeOK'
<1>1. CASE Expired(n)
    BY <1>1, LockAllOfTyped DEF TimerFires, TypeOK, clock
<1>2. CASE ~Expired(n)
    <2>1. (IF Live(n) THEN session[n].left ELSE Off) \in Remaining \union {Off}
        BY DEF Live, Held, TypeOK, Session
    <2> QED
        BY <1>2, <2>1 DEF TimerFires, TypeOK, clock
<1> QED
    BY <1>1, <1>2

LEMMA TickTyped ==
    ASSUME TypeOK, Tick
    PROVE TypeOK'
<1>1. ASSUME NEW n \in Names
      PROVE [session[n] EXCEPT !.left = Down(session[n].left)] \in Session \union {NoSession}
    <2>1. CASE session[n] \in Session
        BY <2>1, TimesAreRemaining DEF Session
    <2>2. CASE session[n] = NoSession
        BY <2>2 DEF NoSession, Down
    <2> QED
        BY <2>1, <2>2 DEF TypeOK
<1>2. away' \in Remaining \union {Off}
    <2>1. CASE away = Off \/ away = Longest
        BY <2>1 DEF Tick, TypeOK
    <2>2. CASE away \in Remaining /\ away # Longest
        <3>1. away \in 0 .. Longest /\ Longest \in Nat
            BY <2>2, TimesAssumption DEF Remaining
        <3>2. away' = away + 1
            BY <2>2, <3>1 DEF Tick, Off
        <3> QED
            BY <2>2, <3>1, <3>2 DEF Remaining
    <2> QED
        BY <2>1, <2>2 DEF TypeOK
<1> QED
    BY <1>1, <1>2, TimesAreRemaining DEF Tick, TypeOK

LEMMA ForegroundTyped ==
    ASSUME TypeOK, Foreground
    PROVE TypeOK'
<1>1. CASE UNCHANGED store
    BY <1>1 DEF Foreground, TypeOK, store
<1>2. ASSUME NEW ns \in SUBSET Names, LockAllOf(ns)
      PROVE TypeOK'
    BY <1>2, LockAllOfTyped DEF Foreground, TypeOK
<1>3. {n \in Names : Held(n)} \in SUBSET Names /\ {n \in Names : Expired(n)} \in SUBSET Names
    OBVIOUS
<1> QED
    BY <1>1, <1>2, <1>3 DEF Foreground, LockHeld

LEMMA StepTypeOK == TypeOK /\ [Next]_vars => TypeOK'
<1> SUFFICES ASSUME TypeOK, [Next]_vars PROVE TypeOK'
    OBVIOUS
<1>1. CASE InstallWatcher
    BY <1>1 DEF InstallWatcher, TypeOK, store, Read
<1>2. CASE WatcherRead
    BY <1>2 DEF WatcherRead, TypeOK, store, clock, Read, NoRead
<1>3. ASSUME NEW j \in Jobs, NEW n \in Names, EnsureUnlocked(j, n) \/ BeginLoad(j, n)
      PROVE TypeOK'
    BY <1>3, EnsureUnlockedTyped, BeginLoadTyped
<1>4. ASSUME NEW j \in Jobs, Derived(j) \/ CacheUnlockedIdentity(j)
      PROVE TypeOK'
    BY <1>4, DerivedTyped, CacheUnlockedIdentityTyped
<1>5. ASSUME NEW j \in Jobs, GiveUp(j) \/ Loaded(j)
      PROVE TypeOK'
    BY <1>5 DEF GiveUp, Loaded, TypeOK, store, clock
<1>6. ASSUME NEW j \in Jobs, SettingUnreadable(j)
      PROVE TypeOK'
    BY <1>6 DEF SettingUnreadable, TypeOK, clock
<1>7. ASSUME NEW j \in Jobs, MailUnlocked(j)
      PROVE TypeOK'
    <2>1. job[j].name \in Names
        BY <1>7, NamedJob DEF MailUnlocked, Idle
    <2> QED
        BY <1>7, <2>1 DEF MailUnlocked, TypeOK, clock
<1>8. ASSUME NEW j \in Jobs, LoadedStale(j)
      PROVE TypeOK'
    <2>1. {job[j].name} \in SUBSET Names
        BY <1>8, NamedJob DEF LoadedStale, Idle
    <2> QED
        BY <1>8, <2>1, LockAllOfTyped, JobEndTyped DEF LoadedStale
<1>9. ASSUME NEW n \in Names, UnlockMail(n)
      PROVE TypeOK'
    BY <1>9 DEF UnlockMail, TypeOK, clock
<1>10. ASSUME NEW n \in Names, DropIfExpired(n) \/ DeleteIdentity(n)
       PROVE TypeOK'
    <2>1. LockAllOf({n}) /\ {n} \in SUBSET Names
        BY <1>10 DEF DropIfExpired, DeleteIdentity
    <2> QED
        BY <1>10, <2>1, LockAllOfTyped DEF DropIfExpired, DeleteIdentity, TypeOK, clock
<1>11. ASSUME NEW n \in Names, TimerFires(n)
       PROVE TypeOK'
    BY <1>11, TimerFiresTyped
<1>12. ASSUME NEW t \in Settings, ApplyUnlockTimeout(t)
       PROVE TypeOK'
    BY <1>12, ApplyUnlockTimeoutTyped
<1>13. CASE LockNow
    <2>1. {n \in Names : Held(n)} \in SUBSET Names
        OBVIOUS
    <2> QED
        BY <1>13, <2>1, LockAllOfTyped DEF LockNow, LockHeld, TypeOK, clock
<1>14. CASE Tick
    BY <1>14, TickTyped
<1>15. CASE Background
    BY <1>15, TimesAreRemaining DEF Background, TypeOK, store
<1>16. CASE Foreground
    BY <1>16, ForegroundTyped
<1>17. CASE Restart
    BY <1>17, TimesAssumption DEF Restart, TypeOK, Times
<1>18. CASE UNCHANGED vars
    BY <1>18 DEF vars, TypeOK
<1> QED
    BY <1>1, <1>2, <1>3, <1>4, <1>5, <1>6, <1>7, <1>8, <1>9, <1>10, <1>11, <1>12,
       <1>13, <1>14, <1>15, <1>16, <1>17, <1>18 DEF Next

\* Whatever unlocks, timers and settings do, every variable keeps its type.
THEOREM TypeCorrect == Spec => []TypeOK
BY InitTypeOK, StepTypeOK, PTL DEF Spec

---------------------------------------------------------------------------
(* Keys.  KeysWiped is kept only because no key array has two owners. *)

KeysApart ==
    /\ \A n, m \in Names : Held(n) /\ Held(m) /\ session[n].key = session[m].key => n = m
    /\ \A i, j \in Jobs : /\ job[i].at = "cache" /\ job[j].at = "cache"
                          /\ job[i].key = job[j].key
                          => i = j
    /\ \A n \in Names, j \in Jobs :
          Held(n) /\ job[j].at = "cache" => session[n].key # job[j].key

KeysInv == TypeOK /\ KeysWiped /\ KeysApart

\* The unlocks that are about to make a session, and their keys, stay the same.
SameCaching ==
    \A j \in Jobs : /\ job'[j].at = "cache" <=> job[j].at = "cache"
                    /\ job[j].at = "cache" => job'[j].key = job[j].key
\* The keys of the sessions of `ns` are zeroed and forgotten; no other key changes.
KeysDropped(ns) ==
    /\ \A n \in Names : session'[n].key = IF n \in ns THEN NoKey ELSE session[n].key
    /\ live' = live \ {session[n].key : n \in ns}

LEMMA HeldHasKey ==
    ASSUME TypeOK, NEW n \in Names
    PROVE /\ Held(n) <=> session[n].key \in Keys
          /\ ~Held(n) <=> session[n].key = NoKey
BY NoKeyAssumption DEF TypeOK, Held, Session, NoSession

LEMMA BumpedSame ==
    ASSUME TypeOK, job' = Bumped(job)
    PROVE SameCaching
<1>1. SUFFICES ASSUME NEW j \in Jobs, job[j].at = "cache"
               PROVE job'[j].at = "cache" /\ job'[j].key = job[j].key
    BY DEF SameCaching, Bumped
<1>2. job'[j] = [job[j] EXCEPT !.read.latest = FALSE]
    BY <1>1 DEF Bumped
<1>3. job[j] \in [at : {"cache"}, name : Names, key : Keys, read : Read]
    BY <1>1, CacheJob
<1> QED
    BY <1>1, <1>2, <1>3

LEMMA LiveMembers ==
    ASSUME KeysWiped, NEW k
    PROVE k \in live <=> \/ \E n \in Names : session[n] # NoSession /\ k = session[n].key
                         \/ \E j \in Jobs : job[j].at = "cache" /\ k = job[j].key
BY DEF KeysWiped, Held

LEMMA KeysDroppedKeeps ==
    ASSUME KeysInv, TypeOK', NEW ns \in SUBSET Names, KeysDropped(ns), SameCaching
    PROVE KeysInv'
<1>1. ASSUME NEW n \in Names
      PROVE /\ session'[n] # NoSession <=> session[n] # NoSession /\ n \notin ns
            /\ n \notin ns => session'[n].key = session[n].key
    BY NoKeyAssumption DEF KeysInv, TypeOK, KeysDropped, Session, NoSession
<1>2. live' = live \ {session[n].key : n \in ns}
    BY DEF KeysDropped
<1>3. \A j \in Jobs : job[j].at = "cache" => job[j].key \in Keys
    BY CacheJob DEF KeysInv
<1>4. \A n \in Names, j \in Jobs : job[j].at = "cache" => session[n].key # job[j].key
    BY <1>3, HeldHasKey, NoKeyAssumption DEF KeysInv, KeysApart
<1>5. \A n, m \in Names : Held(n) /\ session[n].key = session[m].key => n = m
    BY HeldHasKey, NoKeyAssumption DEF KeysInv, KeysApart
<1>6. KeysApart'
    <2>1. ASSUME NEW n \in Names, NEW m \in Names, session'[n] # NoSession,
                 session'[m] # NoSession, session'[n].key = session'[m].key
          PROVE n = m
        BY <2>1, <1>1 DEF KeysInv, KeysApart, Held
    <2>2. ASSUME NEW i \in Jobs, NEW j \in Jobs, job'[i].at = "cache", job'[j].at = "cache",
                 job'[i].key = job'[j].key
          PROVE i = j
        BY <2>2 DEF KeysInv, KeysApart, SameCaching
    <2>3. ASSUME NEW n \in Names, NEW j \in Jobs, session'[n] # NoSession, job'[j].at = "cache"
          PROVE session'[n].key # job'[j].key
        BY <2>3, <1>1 DEF KeysInv, KeysApart, Held, SameCaching
    <2> QED
        BY <2>1, <2>2, <2>3 DEF KeysApart, Held
<1>7. ASSUME NEW k
      PROVE k \in live' <=> \/ \E n \in Names : session'[n] # NoSession /\ k = session'[n].key
                            \/ \E j \in Jobs : job'[j].at = "cache" /\ k = job'[j].key
    <2>1. k \in {session[n].key : n \in ns} <=> \E n \in ns : k = session[n].key
        OBVIOUS
    <2>2. CASE \E n \in Names : session[n] # NoSession /\ k = session[n].key
        <3>1. PICK n \in Names : session[n] # NoSession /\ k = session[n].key
            BY <2>2
        <3>2. n \in ns <=> k \in {session[m].key : m \in ns}
            BY <3>1, <1>5 DEF Held
        <3>3. \A j \in Jobs : job'[j].at = "cache" => k # job'[j].key
            BY <3>1, <1>4 DEF SameCaching
        <3>4. \A m \in Names : session'[m] # NoSession /\ k = session'[m].key => m = n
            BY <3>1, <1>1, <1>5 DEF Held
        <3> QED
            BY <3>1, <3>2, <3>3, <3>4, <1>1, <1>2, LiveMembers DEF KeysInv
    <2>3. CASE \E j \in Jobs : job[j].at = "cache" /\ k = job[j].key
        BY <2>1, <2>3, <1>2, <1>4, LiveMembers DEF KeysInv, SameCaching
    <2>4. CASE k \notin live
        BY <2>4, <1>1, <1>2, LiveMembers DEF KeysInv, SameCaching
    <2> QED
        BY <2>2, <2>3, <2>4, LiveMembers DEF KeysInv
<1>8. KeysWiped'
    BY <1>7 DEF KeysWiped, Held
<1> QED
    BY <1>6, <1>8 DEF KeysInv

LEMMA LockAllOfDrops ==
    ASSUME NEW ns \in SUBSET Names, LockAllOf(ns)
    PROVE KeysDropped(ns)
BY DEF LockAllOf, KeysDropped, NoSession

LEMMA SameDrops ==
    ASSUME \A n \in Names : session'[n].key = session[n].key, live' = live
    PROVE KeysDropped({})
BY DEF KeysDropped

\* A job that was not about to make a session, and is not now.
LEMMA OtherJobSame ==
    ASSUME TypeOK, NEW j \in Jobs, NEW w, w.at # "cache", job[j].at # "cache",
           job' = [job EXCEPT ![j] = w]
    PROVE SameCaching
BY DEF SameCaching, TypeOK

LEMMA DerivedKeeps ==
    ASSUME KeysInv, NEW j \in Jobs, Derived(j)
    PROVE KeysWiped' /\ KeysApart'
<1>1. PICK k \in Keys \ live :
          /\ live' = live \union {k}
          /\ job' = [Bumped(job) EXCEPT
                        ![j] = [at |-> "cache", name |-> job[j].name, key |-> k,
                                read |-> [value |-> setting, latest |-> TRUE]]]
    BY DEF Derived
<1>2. /\ job'[j].at = "cache" /\ job'[j].key = k
      /\ job[j].at # "cache"
    BY <1>1 DEF KeysInv, TypeOK, Bumped, Derived
<1>3. ASSUME NEW i \in Jobs, i # j
      PROVE /\ job'[i].at = "cache" <=> job[i].at = "cache"
            /\ job[i].at = "cache" => job'[i].key = job[i].key
    <2>1. job'[i] = Bumped(job)[i]
        BY <1>1, <1>3 DEF Bumped
    <2>2. CASE job[i].at = "cache"
        <3>1. job'[i] = [job[i] EXCEPT !.read.latest = FALSE]
            BY <2>1, <2>2 DEF Bumped
        <3>2. job[i] \in [at : {"cache"}, name : Names, key : Keys, read : Read]
            BY <2>2, CacheJob DEF KeysInv
        <3> QED
            BY <2>2, <3>1, <3>2
    <2>3. CASE job[i].at # "cache"
        BY <2>1, <2>3 DEF Bumped
    <2> QED
        BY <2>2, <2>3
<1>4. session' = session
    BY DEF Derived
<1>5. /\ \A n \in Names : session[n] # NoSession => session[n].key # k
      /\ \A i \in Jobs : job[i].at = "cache" => job[i].key # k
    BY LiveMembers DEF KeysInv
<1>6. KeysApart'
    <2>1. ASSUME NEW i \in Jobs, NEW h \in Jobs, job'[i].at = "cache", job'[h].at = "cache",
                 job'[i].key = job'[h].key
          PROVE i = h
        BY <2>1, <1>2, <1>3, <1>5 DEF KeysInv, KeysApart
    <2>2. ASSUME NEW n \in Names, NEW i \in Jobs, session'[n] # NoSession, job'[i].at = "cache"
          PROVE session'[n].key # job'[i].key
        BY <2>2, <1>2, <1>3, <1>4, <1>5 DEF KeysInv, KeysApart, Held
    <2> QED
        BY <2>1, <2>2, <1>4 DEF KeysInv, KeysApart, Held
<1>7. ASSUME NEW x
      PROVE x \in live' <=> \/ \E n \in Names : session'[n] # NoSession /\ x = session'[n].key
                            \/ \E i \in Jobs : job'[i].at = "cache" /\ x = job'[i].key
    BY <1>1, <1>2, <1>3, <1>4, LiveMembers DEF KeysInv
<1>8. KeysWiped'
    BY <1>7 DEF KeysWiped, Held
<1> QED
    BY <1>6, <1>8

LEMMA SettingUnreadableKeeps ==
    ASSUME KeysInv, NEW j \in Jobs, SettingUnreadable(j)
    PROVE KeysWiped' /\ KeysApart'
<1>1. /\ live' = live \ {job[j].key} /\ session' = session
      /\ job[j].at = "cache" /\ job'[j].at # "cache"
      /\ \A i \in Jobs : i # j => job'[i] = job[i]
    BY DEF SettingUnreadable, KeysInv, TypeOK, Idle
<1>2. KeysApart'
    BY <1>1 DEF KeysInv, KeysApart, Held
<1>3. ASSUME NEW x
      PROVE x \in live' <=> \/ \E n \in Names : session'[n] # NoSession /\ x = session'[n].key
                            \/ \E i \in Jobs : job'[i].at = "cache" /\ x = job'[i].key
    BY <1>1, LiveMembers DEF KeysInv, KeysApart, Held
<1> QED
    BY <1>2, <1>3 DEF KeysWiped, Held

LEMMA CacheUnlockedIdentityKeeps ==
    ASSUME KeysInv, NEW j \in Jobs, CacheUnlockedIdentity(j)
    PROVE KeysWiped' /\ KeysApart'
<1> DEFINE n == job[j].name
<1>1. n \in Names /\ job[j].key \in Keys /\ job[j].at = "cache"
    BY CacheJob DEF CacheUnlockedIdentity, KeysInv
<1>2. /\ session'[n].key = job[j].key
      /\ \A m \in Names : m # n => session'[m] = session[m]
      /\ live' = live \ {session[n].key}
    BY <1>1 DEF CacheUnlockedIdentity, KeysInv, TypeOK
<1>3. /\ job'[j].at # "cache"
      /\ \A i \in Jobs : i # j => job'[i] = job[i]
    BY DEF CacheUnlockedIdentity, KeysInv, TypeOK
<1>4. session'[n] # NoSession
    BY <1>1, <1>2, NoKeyAssumption DEF NoSession
<1> HIDE DEF n
<1>5. KeysApart'
    BY <1>1, <1>2, <1>3, <1>4 DEF KeysInv, KeysApart, Held
<1>6. session[n].key # job[j].key
    BY <1>1, HeldHasKey, NoKeyAssumption DEF KeysInv, KeysApart
<1>7. \A m \in Names : m # n /\ session[m] # NoSession => session[m].key # session[n].key
    BY <1>1, HeldHasKey, NoKeyAssumption DEF KeysInv, KeysApart, Held
<1>8. \A i \in Jobs : job[i].at = "cache" => job[i].key # session[n].key
    <2>1. \A i \in Jobs : job[i].at = "cache" => job[i].key \in Keys
        BY CacheJob DEF KeysInv
    <2> QED
        BY <2>1, <1>1, HeldHasKey, NoKeyAssumption DEF KeysInv, KeysApart
<1>9. ASSUME NEW x
      PROVE x \in live' <=> \/ \E m \in Names : session'[m] # NoSession /\ x = session'[m].key
                            \/ \E i \in Jobs : job'[i].at = "cache" /\ x = job'[i].key
    BY <1>1, <1>2, <1>3, <1>4, <1>6, <1>7, <1>8, LiveMembers DEF KeysInv
<1> QED
    BY <1>5, <1>9 DEF KeysWiped, Held

LEMMA ApplyUnlockTimeoutKeeps ==
    ASSUME KeysInv, TypeOK', NEW t \in Settings, ApplyUnlockTimeout(t)
    PROVE KeysInv'
<1> DEFINE ns == {n \in Names : Expired(n)}
<1>1. \A n \in Names : session'[n] = IF Live(n)
                                     THEN [session[n] EXCEPT !.timeout = t, !.left = t]
                                     ELSE NoSession
    BY DEF ApplyUnlockTimeout
<1>2. ASSUME NEW n \in Names
      PROVE session'[n].key = IF n \in ns THEN NoKey ELSE session[n].key
    <2>1. CASE Live(n)
        <3>1. session[n] \in Session
            BY <2>1 DEF Live, Held, KeysInv, TypeOK
        <3>2. session'[n].key = session[n].key
            BY <1>1, <2>1, <3>1 DEF Session
        <3> QED
            BY <2>1, <3>1, <3>2 DEF Live, Expired, Session
    <2>2. CASE ~Live(n)
        <3>0. session'[n] = NoSession
            BY <1>1, <2>2
        <3>1. session'[n].key = NoKey
            BY <3>0 DEF NoSession
        <3>2. Held(n) => n \in ns
            BY <2>2, TimesAssumption DEF Live, Expired, Held, KeysInv, TypeOK, Session, Remaining
        <3> QED
            BY <3>1, <3>2, HeldHasKey DEF KeysInv
    <2> QED
        BY <2>1, <2>2
<1>3. KeysDropped(ns)
    BY <1>2 DEF ApplyUnlockTimeout, KeysDropped
<1>4. SameCaching
    BY BumpedSame DEF ApplyUnlockTimeout, KeysInv
<1> HIDE DEF ns
<1>5. ns \in SUBSET Names
    BY DEF ns
<1> QED
    BY <1>3, <1>4, <1>5, KeysDroppedKeeps

LEMMA InitKeys == Init => KeysWiped /\ KeysApart
BY DEF Init, KeysWiped, KeysApart, Held, Idle

LEMMA StepKeys == KeysInv /\ [Next]_vars => KeysInv'
<1> SUFFICES ASSUME KeysInv, [Next]_vars PROVE KeysInv'
    OBVIOUS
<1> USE DEF KeysInv
<1>0. TypeOK'
    BY StepTypeOK
<1>1. ASSUME NEW ns \in SUBSET Names, LockAllOf(ns), SameCaching
      PROVE KeysInv'
    BY <1>0, <1>1, LockAllOfDrops, KeysDroppedKeeps
<1>2. ASSUME \A n \in Names : session'[n].key = session[n].key, live' = live, SameCaching
      PROVE KeysInv'
    BY <1>0, <1>2, SameDrops, KeysDroppedKeeps
<1>3. job' = job => SameCaching
    BY DEF SameCaching
<1>4. CASE InstallWatcher \/ WatcherRead \/ Background \/ UNCHANGED vars
    BY <1>2, <1>3, <1>4 DEF InstallWatcher, WatcherRead, Background, store, vars
<1>5. ASSUME NEW j \in Jobs, NEW n \in Names, EnsureUnlocked(j, n)
      PROVE KeysInv'
    <2>1. SameCaching
        BY <1>5 DEF EnsureUnlocked, Idle, SameCaching, TypeOK
    <2>2. CASE Expired(n)
        BY <1>1, <1>5, <2>1, <2>2 DEF EnsureUnlocked
    <2>3. CASE ~Expired(n)
        BY <1>2, <1>5, <2>1, <2>3 DEF EnsureUnlocked, store
    <2> QED
        BY <2>2, <2>3
<1>6. ASSUME NEW j \in Jobs, NEW n \in Names, BeginLoad(j, n)
      PROVE KeysInv'
    <2>1. SameCaching
        BY <1>6 DEF BeginLoad, Idle, SameCaching, TypeOK
    <2>2. session[n] \in Session
        BY <1>6 DEF BeginLoad, Live, Held, TypeOK
    <2>3. \A m \in Names : session'[m].key = session[m].key
        BY <1>6, <2>2 DEF BeginLoad, Touch, TypeOK, Session
    <2> QED
        BY <1>2, <1>6, <2>1, <2>3 DEF BeginLoad, Touch
<1>7. ASSUME NEW j \in Jobs, GiveUp(j) \/ Loaded(j) \/ MailUnlocked(j)
      PROVE KeysInv'
    <2>1. SameCaching
        BY <1>7, OtherJobSame DEF GiveUp, Loaded, MailUnlocked, Idle
    <2> QED
        BY <1>2, <1>7, <2>1 DEF GiveUp, Loaded, MailUnlocked, store
<1>8. ASSUME NEW j \in Jobs, LoadedStale(j)
      PROVE KeysInv'
    <2>1. SameCaching
        BY <1>8, OtherJobSame DEF LoadedStale, Idle
    <2>2. {job[j].name} \in SUBSET Names
        BY <1>8, NamedJob DEF LoadedStale, Idle
    <2> QED
        BY <1>1, <1>8, <2>1, <2>2 DEF LoadedStale
<1>9. ASSUME NEW j \in Jobs, Derived(j) \/ CacheUnlockedIdentity(j) \/ SettingUnreadable(j)
      PROVE KeysInv'
    BY <1>0, <1>9, DerivedKeeps, CacheUnlockedIdentityKeeps, SettingUnreadableKeeps
<1>10. ASSUME NEW n \in Names, UnlockMail(n)
       PROVE KeysInv'
    BY <1>2, <1>3, <1>10 DEF UnlockMail
<1>11. ASSUME NEW n \in Names, DropIfExpired(n) \/ DeleteIdentity(n)
       PROVE KeysInv'
    <2>1. LockAllOf({n}) /\ job' = job
        BY <1>11 DEF DropIfExpired, DeleteIdentity
    <2> QED
        BY <1>1, <1>3, <2>1
<1>12. ASSUME NEW n \in Names, TimerFires(n)
       PROVE KeysInv'
    BY <1>1, <1>2, <1>3, <1>12 DEF TimerFires
<1>13. ASSUME NEW t \in Settings, ApplyUnlockTimeout(t)
       PROVE KeysInv'
    BY <1>0, <1>13, ApplyUnlockTimeoutKeeps
<1>14. CASE LockNow
    BY <1>1, <1>3, <1>14 DEF LockNow, LockHeld
<1>15. CASE Tick
    <2>1. \A n \in Names : session'[n].key = session[n].key
        <3>1. SUFFICES ASSUME NEW n \in Names
                       PROVE [session[n] EXCEPT !.left = Down(session[n].left)].key
                             = session[n].key
            BY <1>15 DEF Tick
        <3>2. session[n] \in Session \/ session[n] = NoSession
            BY DEF TypeOK
        <3> QED
            BY <3>2 DEF Session, NoSession
    <2> QED
        BY <1>2, <1>3, <1>15, <2>1 DEF Tick
<1>16. CASE Foreground
    BY <1>1, <1>2, <1>3, <1>16 DEF Foreground, LockHeld, store
<1>17. CASE Restart
    BY <1>0, <1>17 DEF Restart, KeysWiped, KeysApart, Held, Idle
<1> QED
    BY <1>4, <1>5, <1>6, <1>7, <1>8, <1>9, <1>10, <1>11, <1>12, <1>13, <1>14, <1>15,
       <1>16, <1>17 DEF Next

\* No key is left in memory when its session ends, and no session has a zeroed key
\* (unlockSessionLogic.ts:86-166): by then the key array may have been replaced, or taken
\* by an unlock that failed.
THEOREM KeysAreWiped == Spec => []KeysWiped
<1>1. Init => KeysInv
    BY InitTypeOK, InitKeys DEF KeysInv
<1>2. KeysInv => KeysWiped
    BY DEF KeysInv
<1> QED
    BY <1>1, <1>2, StepKeys, PTL DEF Spec

---------------------------------------------------------------------------
(* Timers.  Every session has a timer that is due when the session is. *)

TimersArmed == \A n \in Names : timer[n] = IF Held(n) THEN session[n].left ELSE Off
TimersInv == TypeOK /\ TimersArmed

\* What a step may do to sessions, timers and mail secrets, one identity at a time.
Ends(n) == session'[n] = NoSession /\ timer'[n] = Off /\ n \notin mail'
Keeps(n) == session'[n] = session[n] /\ timer'[n] = timer[n]
Begins(n) == session'[n].key \in Keys /\ timer'[n] = session'[n].left

LEMMA OneByOne ==
    ASSUME TimersInv, \A n \in Names : Ends(n) \/ Keeps(n) \/ Begins(n)
    PROVE /\ TimersArmed'
          /\ \A n \in Names : Held(n) /\ session'[n] = NoSession => n \notin mail'
BY NoKeyAssumption DEF TimersInv, TimersArmed, Held, Ends, Keeps, Begins, NoSession

LEMMA LockAllOfEnds ==
    ASSUME NEW ns \in SUBSET Names, LockAllOf(ns), TypeOK
    PROVE \A n \in Names : Ends(n) \/ Keeps(n)
BY DEF LockAllOf, Ends, Keeps, TypeOK

LEMMA TimersStep ==
    ASSUME TimersInv, Next, ~Tick, ~Restart
    PROVE \A n \in Names : Ends(n) \/ Keeps(n) \/ Begins(n)
<1> USE DEF TimersInv
<1>1. CASE UNCHANGED <<session, timer>>
    BY <1>1 DEF Keeps
<1>2. ASSUME NEW ns \in SUBSET Names, LockAllOf(ns)
      PROVE \A n \in Names : Ends(n) \/ Keeps(n)
    BY <1>2, LockAllOfEnds
<1>3. CASE InstallWatcher \/ WatcherRead \/ Background
    BY <1>1, <1>3 DEF InstallWatcher, WatcherRead, Background, store
<1>4. ASSUME NEW j \in Jobs, NEW n \in Names, EnsureUnlocked(j, n)
      PROVE \A m \in Names : Ends(m) \/ Keeps(m)
    BY <1>1, <1>2, <1>4 DEF EnsureUnlocked, store, Keeps
<1>5. ASSUME NEW j \in Jobs, NEW n \in Names, BeginLoad(j, n)
      PROVE \A m \in Names : Keeps(m) \/ Begins(m)
    <2>1. session[n] \in Session
        BY <1>5 DEF BeginLoad, Live, Held, TypeOK
    <2>2. /\ session'[n] = [session[n] EXCEPT !.left = session[n].timeout]
          /\ timer'[n] = session[n].timeout
          /\ \A m \in Names : m # n => Keeps(m)
        BY <1>5 DEF BeginLoad, Touch, TypeOK, Keeps
    <2>3. Begins(n)
        BY <2>1, <2>2 DEF Begins, Session
    <2> QED
        BY <2>2, <2>3
<1>6. ASSUME NEW j \in Jobs,
             GiveUp(j) \/ Derived(j) \/ SettingUnreadable(j) \/ MailUnlocked(j) \/ Loaded(j)
      PROVE UNCHANGED <<session, timer>>
    BY <1>6 DEF GiveUp, Derived, SettingUnreadable, MailUnlocked, Loaded, store
<1>7. ASSUME NEW j \in Jobs, LoadedStale(j)
      PROVE \A n \in Names : Ends(n) \/ Keeps(n)
    <2>1. {job[j].name} \in SUBSET Names
        BY <1>7, NamedJob DEF LoadedStale, Idle
    <2> QED
        BY <1>2, <1>7, <2>1 DEF LoadedStale
<1>8. ASSUME NEW j \in Jobs, CacheUnlockedIdentity(j)
      PROVE \A n \in Names : Keeps(n) \/ Begins(n)
    <2> DEFINE n == job[j].name
               t == IF job[j].read.latest THEN job[j].read.value ELSE configured
    <2>1. n \in Names /\ job[j].key \in Keys
        BY <1>8, CacheJob DEF CacheUnlockedIdentity
    <2>2. /\ session' = [session EXCEPT ![n] = [key |-> job[j].key, timeout |-> t, left |-> t]]
          /\ timer' = [timer EXCEPT ![n] = t]
        BY <1>8 DEF CacheUnlockedIdentity
    <2> HIDE DEF n, t
    <2>3. session'[n].key = job[j].key /\ session'[n].left = t /\ timer'[n] = t
        BY <2>1, <2>2 DEF TypeOK
    <2>4. \A m \in Names : m # n => Keeps(m)
        BY <2>1, <2>2 DEF TypeOK, Keeps
    <2> QED
        BY <2>1, <2>3, <2>4 DEF Begins
<1>9. ASSUME NEW n \in Names, DropIfExpired(n) \/ DeleteIdentity(n)
      PROVE \A m \in Names : Ends(m) \/ Keeps(m)
    <2>1. LockAllOf({n})
        BY <1>9 DEF DropIfExpired, DeleteIdentity
    <2> QED
        BY <1>2, <2>1
<1>10. ASSUME NEW n \in Names, TimerFires(n)
       PROVE \A m \in Names : Ends(m) \/ Keeps(m) \/ Begins(m)
    <2>1. CASE Expired(n)
        BY <1>2, <1>10, <2>1 DEF TimerFires
    <2>2. Expired(n)
        BY <1>10 DEF TimerFires, TimersArmed, Expired, Off
    <2> QED
        BY <2>1, <2>2
<1>11. ASSUME NEW n \in Names, UnlockMail(n)
       PROVE UNCHANGED <<session, timer>>
    BY <1>11 DEF UnlockMail
<1>12. ASSUME NEW t \in Settings, ApplyUnlockTimeout(t)
       PROVE \A n \in Names : Ends(n) \/ Keeps(n) \/ Begins(n)
    <2>1. SUFFICES ASSUME NEW n \in Names
                   PROVE Ends(n) \/ Keeps(n) \/ Begins(n)
        OBVIOUS
    <2>2. CASE Live(n)
        <3>1. session[n] \in Session
            BY <2>2 DEF Live, Held, TypeOK
        <3>2. session'[n] = [session[n] EXCEPT !.timeout = t, !.left = t] /\ timer'[n] = t
            BY <1>12, <2>2 DEF ApplyUnlockTimeout
        <3> QED
            BY <3>1, <3>2 DEF Begins, Session
    <2>3. CASE ~Held(n)
        <3>1. session'[n] = NoSession /\ timer'[n] = Off
            BY <1>12, <2>3 DEF ApplyUnlockTimeout, Live
        <3> QED
            BY <2>3, <3>1 DEF Keeps, TimersArmed, Held
    <2>4. CASE Held(n) /\ ~Live(n)
        <3>1. session'[n] = NoSession /\ timer'[n] = Off
            BY <1>12, <2>4 DEF ApplyUnlockTimeout
        <3>2. session[n].left \in Nat
            BY <2>4, TimesAssumption DEF Held, TypeOK, Session, Remaining
        <3>3. Expired(n)
            BY <2>4, <3>2 DEF Expired, Live
        <3> QED
            BY <1>12, <3>1, <3>3 DEF Ends, ApplyUnlockTimeout
    <2> QED
        BY <2>2, <2>3, <2>4
<1>13. CASE LockNow
    BY <1>2, <1>13 DEF LockNow, LockHeld
<1>14. CASE Foreground
    BY <1>1, <1>2, <1>14 DEF Foreground, LockHeld, store
<1> QED
    BY <1>1, <1>3, <1>4, <1>5, <1>6, <1>7, <1>8, <1>9, <1>10, <1>11, <1>12, <1>13, <1>14
       DEF Next

LEMMA TickTimers ==
    ASSUME TimersInv, Tick
    PROVE TimersArmed' /\ \A n \in Names : Held(n) => session'[n] # NoSession
<1>1. ASSUME NEW n \in Names
      PROVE /\ session'[n] # NoSession <=> Held(n)
            /\ timer'[n] = IF Held(n) THEN session'[n].left ELSE Off
    <2>1. session'[n] = [session[n] EXCEPT !.left = Down(session[n].left)] /\ timer'[n] = Down(timer[n])
        BY DEF Tick
    <2>2. CASE session[n] \in Session
        <3>1. Held(n) /\ session'[n].key \in Keys /\ session'[n].left = Down(session[n].left)
            BY <2>1, <2>2, NoKeyAssumption DEF Session, Held, NoSession
        <3> QED
            BY <2>1, <3>1, NoKeyAssumption DEF TimersInv, TimersArmed, NoSession
    <2>3. CASE session[n] = NoSession
        <3>1. session'[n] = NoSession
            BY <2>1, <2>3 DEF NoSession, Down
        <3> QED
            BY <2>1, <2>3, <3>1, TimesAreRemaining DEF TimersInv, TimersArmed, Held, Down, Off
    <2> QED
        BY <2>2, <2>3 DEF TimersInv, TypeOK
<1> QED
    BY <1>1 DEF TimersArmed, Held

LEMMA StepTimers == TimersInv /\ [Next]_vars => TimersInv'
<1> SUFFICES ASSUME TimersInv, [Next]_vars PROVE TimersArmed'
    BY StepTypeOK DEF TimersInv
<1>1. CASE UNCHANGED vars
    BY <1>1 DEF vars, TimersInv, TimersArmed, Held
<1>2. CASE Tick
    BY <1>2, TickTimers
<1>3. CASE Restart
    BY <1>3 DEF Restart, TimersArmed, Held
<1> QED
    BY <1>1, <1>2, <1>3, TimersStep, OneByOne

\* In the foreground a session is locked as soon as it ran out, and a session that ends
\* takes the mail secrets with it (unlockSession.ts:51-91).
THEOREM SessionsAreLocked == Spec => IdleLocks
<1>1. Init => TimersInv
    BY InitTypeOK DEF Init, TimersInv, TimersArmed, Held
<1>2. TimersInv /\ [Next]_vars =>
        [/\ Tick /\ active => \A n \in Names : ~Expired(n)
         /\ watching' => \A n \in Names : Held(n) /\ session'[n] = NoSession => n \notin mail']_vars
    <2> SUFFICES ASSUME TimersInv, Next
                 PROVE /\ Tick /\ active => \A n \in Names : ~Expired(n)
                       /\ watching' => \A n \in Names :
                              Held(n) /\ session'[n] = NoSession => n \notin mail'
        OBVIOUS
    <2>1. Tick /\ active => \A n \in Names : ~Expired(n)
        BY DEF Tick, Expired, TimersInv, TimersArmed
    <2>2. CASE Tick
        BY <2>1, <2>2, TickTimers
    <2>3. CASE Restart
        BY <2>1, <2>3 DEF Restart
    <2> QED
        BY <2>1, <2>2, <2>3, TimersStep, OneByOne
<1> QED
    BY <1>1, <1>2, StepTimers, PTL DEF Spec, IdleLocks

---------------------------------------------------------------------------
(* The setting.  A read that is the latest has the setting; one that is not found out *)
(* that the time in memory is the setting, unless another unlock's read was under way. *)

ReadsAreCurrent ==
    /\ reading.latest => reading.value = setting
    /\ \A j \in Jobs : job[j].at = "cache" /\ job[j].read.latest => job[j].read.value = setting

OneUnlock ==
    ~overlapped =>
        /\ \A i, j \in Jobs : job[i].at = "cache" /\ job[j].at = "cache" => i = j
        /\ \A j \in Jobs : job[j].at = "cache" /\ ~job[j].read.latest => configured = setting

ConfiguredIsKnown == configured \in {setting, Default}

SettingInv ==
    TypeOK /\ ReadsAreCurrent /\ OneUnlock /\ ConfiguredIsKnown /\ SessionsFollowSetting

SameReads ==
    \A j \in Jobs : job'[j].at = "cache" => job[j].at = "cache" /\ job'[j].read = job[j].read

\* No session begins, and none gets another length.
SameTimeouts ==
    \A n \in Names : \/ session'[n] = NoSession
                     \/ session[n] # NoSession /\ session'[n].timeout = session[n].timeout

LEMMA QuietStep ==
    ASSUME SettingInv, TypeOK', UNCHANGED <<configured, setting, reading, overlapped>>,
           SameReads, SameTimeouts
    PROVE SettingInv'
<1>1. ReadsAreCurrent'
    BY DEF SettingInv, ReadsAreCurrent, SameReads
<1>2. OneUnlock'
    BY DEF SettingInv, OneUnlock, SameReads
<1>3. SessionsFollowSetting'
    BY DEF SettingInv, SessionsFollowSetting, SameTimeouts, Held
<1> QED
    BY <1>1, <1>2, <1>3 DEF SettingInv, ConfiguredIsKnown

LEMMA LockAllOfTimeouts ==
    ASSUME NEW ns \in SUBSET Names, LockAllOf(ns)
    PROVE SameTimeouts
BY DEF LockAllOf, SameTimeouts

LEMMA StoreTimeouts ==
    ASSUME session' = session
    PROVE SameTimeouts
BY DEF SameTimeouts

LEMMA DerivedReads ==
    ASSUME SettingInv, TypeOK', NEW j \in Jobs, Derived(j)
    PROVE SettingInv'
<1>1. PICK k \in Keys \ live :
          job' = [Bumped(job) EXCEPT
                     ![j] = [at |-> "cache", name |-> job[j].name, key |-> k,
                             read |-> [value |-> setting, latest |-> TRUE]]]
    BY DEF Derived
<1>2. job'[j].at = "cache" /\ job'[j].read.value = setting /\ job'[j].read.latest = TRUE
    <2>1. job'[j] = [at |-> "cache", name |-> job[j].name, key |-> k,
                     read |-> [value |-> setting, latest |-> TRUE]]
        BY <1>1 DEF Bumped
    <2> QED
        BY <2>1
<1>3. ASSUME NEW i \in Jobs, i # j, job'[i].at = "cache"
      PROVE job[i].at = "cache" /\ job'[i].read.latest = FALSE
    <2>1. job'[i] = Bumped(job)[i]
        BY <1>1, <1>3 DEF Bumped
    <2>2. job[i].at = "cache"
        BY <2>1, <1>3 DEF Bumped
    <2>3. job'[i] = [job[i] EXCEPT !.read.latest = FALSE]
        BY <2>1, <2>2 DEF Bumped
    <2>4. job[i] \in [at : {"cache"}, name : Names, key : Keys, read : Read]
        BY <2>2, CacheJob DEF SettingInv
    <2>5. job'[i].read.latest = FALSE
        BY <2>3, <2>4 DEF Read
    <2> QED
        BY <2>2, <2>5
<1>4. reading'.latest = FALSE
    BY DEF Derived, ReadBumped
<1>5. UNCHANGED <<session, configured, setting>>
    BY DEF Derived
<1>6. ReadsAreCurrent'
    BY <1>2, <1>3, <1>4, <1>5 DEF ReadsAreCurrent
<1>7. ~overlapped' => \A i \in Jobs : job[i].at # "cache"
    BY DEF Derived
<1>8. OneUnlock'
    BY <1>2, <1>3, <1>7 DEF OneUnlock
<1>9. overlapped => overlapped'
    BY DEF Derived
<1>10. SessionsFollowSetting'
    BY <1>5, <1>9 DEF SettingInv, SessionsFollowSetting, Held
<1> QED
    BY <1>5, <1>6, <1>8, <1>10 DEF SettingInv, ConfiguredIsKnown

LEMMA CacheReads ==
    ASSUME SettingInv, TypeOK', NEW j \in Jobs, CacheUnlockedIdentity(j)
    PROVE SettingInv'
<1> DEFINE n == job[j].name
           t == IF job[j].read.latest THEN job[j].read.value ELSE configured
<1>1. n \in Names
    BY CacheJob DEF CacheUnlockedIdentity, SettingInv
<1>2. t = setting \/ (t = Default /\ overlapped)
    BY DEF SettingInv, ReadsAreCurrent, OneUnlock, ConfiguredIsKnown, CacheUnlockedIdentity
<1>3. /\ session' = [session EXCEPT ![n] = [key |-> job[j].key, timeout |-> t, left |-> t]]
      /\ configured' = t
      /\ UNCHANGED <<setting, reading, overlapped>>
    BY DEF CacheUnlockedIdentity
<1>4. /\ job[j].at = "cache" /\ job'[j].at # "cache"
      /\ \A i \in Jobs : i # j => job'[i] = job[i]
    BY DEF CacheUnlockedIdentity, SettingInv, TypeOK
<1> HIDE DEF n, t
<1>5. session'[n].timeout = t /\ \A m \in Names : m # n => session'[m] = session[m]
    BY <1>1, <1>3 DEF SettingInv, TypeOK
<1>6. ReadsAreCurrent'
    BY <1>3, <1>4 DEF SettingInv, ReadsAreCurrent
<1>7. OneUnlock'
    BY <1>3, <1>4 DEF SettingInv, OneUnlock
<1>8. SessionsFollowSetting'
    BY <1>2, <1>3, <1>5 DEF SettingInv, SessionsFollowSetting, Held
<1> QED
    BY <1>2, <1>3, <1>6, <1>7, <1>8 DEF SettingInv, ConfiguredIsKnown

LEMMA ApplyReads ==
    ASSUME SettingInv, TypeOK', NEW t \in Settings, ApplyUnlockTimeout(t)
    PROVE SettingInv'
<1>1. configured' = t /\ setting' = t /\ job' = Bumped(job) /\ reading'.latest = FALSE
    BY DEF ApplyUnlockTimeout, ReadBumped
<1>2. ASSUME NEW i \in Jobs, job'[i].at = "cache"
      PROVE job[i].at = "cache" /\ job'[i].read.latest = FALSE
    <2>1. job[i].at = "cache"
        BY <1>1, <1>2 DEF Bumped
    <2>2. job'[i] = [job[i] EXCEPT !.read.latest = FALSE]
        BY <1>1, <2>1 DEF Bumped
    <2>3. job[i] \in [at : {"cache"}, name : Names, key : Keys, read : Read]
        BY <2>1, CacheJob DEF SettingInv
    <2>4. job'[i].read.latest = FALSE
        BY <2>2, <2>3 DEF Read
    <2> QED
        BY <2>1, <2>4
<1>3. ASSUME NEW n \in Names, session'[n] # NoSession
      PROVE session'[n].timeout = t
    <2>1. Live(n) /\ session'[n] = [session[n] EXCEPT !.timeout = t, !.left = t]
        BY <1>3 DEF ApplyUnlockTimeout
    <2>2. session[n] \in Session
        BY <2>1 DEF Live, Held, SettingInv, TypeOK
    <2> QED
        BY <2>1, <2>2 DEF Session
<1>4. ReadsAreCurrent'
    BY <1>1, <1>2 DEF ReadsAreCurrent
<1>5. OneUnlock'
    BY <1>1, <1>2 DEF ApplyUnlockTimeout, SettingInv, OneUnlock
<1>6. SessionsFollowSetting'
    BY <1>1, <1>3 DEF SessionsFollowSetting, Held
<1> QED
    BY <1>1, <1>4, <1>5, <1>6 DEF SettingInv, ConfiguredIsKnown

LEMMA StepSetting == SettingInv /\ [Next]_vars => SettingInv'
<1> SUFFICES ASSUME SettingInv, [Next]_vars PROVE SettingInv'
    OBVIOUS
<1>0. TypeOK /\ TypeOK'
    BY StepTypeOK DEF SettingInv
<1>1. SameReads /\ SameTimeouts /\ UNCHANGED <<configured, setting, reading, overlapped>>
      => SettingInv'
    BY <1>0, QuietStep
<1>2. job' = job => SameReads
    BY DEF SameReads
<1>3. CASE InstallWatcher
    <2>1. reading'.value = setting /\ reading'.latest = TRUE
        BY <1>3 DEF InstallWatcher
    <2>2. UNCHANGED <<session, configured, setting, job, overlapped>>
        BY <1>3 DEF InstallWatcher, store
    <2> QED
        BY <1>0, <2>1, <2>2 DEF SettingInv, ReadsAreCurrent, OneUnlock, ConfiguredIsKnown,
           SessionsFollowSetting, Held
<1>4. CASE WatcherRead
    <2>1. /\ reading'.latest = FALSE
          /\ configured' = configured \/ configured' = setting
          /\ UNCHANGED <<session, setting, job, overlapped>>
        BY <1>4 DEF WatcherRead, SettingInv, ReadsAreCurrent, NoRead, store
    <2> QED
        BY <1>0, <2>1 DEF SettingInv, ReadsAreCurrent, OneUnlock, ConfiguredIsKnown,
           SessionsFollowSetting, Held
<1>5. ASSUME NEW j \in Jobs, NEW n \in Names, EnsureUnlocked(j, n)
      PROVE SettingInv'
    <2>1. SameReads
        BY <1>0, <1>5 DEF EnsureUnlocked, SameReads, TypeOK
    <2>2. SameTimeouts
        BY <1>5, LockAllOfTimeouts, StoreTimeouts DEF EnsureUnlocked, store
    <2> QED
        BY <1>1, <1>5, <2>1, <2>2 DEF EnsureUnlocked
<1>6. ASSUME NEW j \in Jobs, NEW n \in Names, BeginLoad(j, n)
      PROVE SettingInv'
    <2>1. SameReads
        BY <1>0, <1>6 DEF BeginLoad, SameReads, TypeOK
    <2>2. session[n] \in Session
        BY <1>0, <1>6 DEF BeginLoad, Live, Held, TypeOK
    <2>3. session[n] # NoSession
        BY <1>6 DEF BeginLoad, Live, Held
    <2>4. SameTimeouts
        BY <1>0, <1>6, <2>2, <2>3 DEF BeginLoad, Touch, SameTimeouts, TypeOK, Session
    <2> QED
        BY <1>1, <1>6, <2>1, <2>4 DEF BeginLoad
<1>7. ASSUME NEW j \in Jobs,
             GiveUp(j) \/ Loaded(j) \/ MailUnlocked(j) \/ SettingUnreadable(j)
      PROVE SettingInv'
    <2>1. SameReads
        BY <1>0, <1>7 DEF GiveUp, Loaded, MailUnlocked, SettingUnreadable, SameReads, TypeOK, Idle
    <2>2. SameTimeouts
        BY <1>7, StoreTimeouts DEF GiveUp, Loaded, MailUnlocked, SettingUnreadable, store
    <2> QED
        BY <1>1, <1>7, <2>1, <2>2 DEF GiveUp, Loaded, MailUnlocked, SettingUnreadable
<1>8. ASSUME NEW j \in Jobs, LoadedStale(j)
      PROVE SettingInv'
    <2>1. SameReads
        BY <1>0, <1>8 DEF LoadedStale, SameReads, TypeOK, Idle
    <2>2. {job[j].name} \in SUBSET Names
        BY <1>0, <1>8, NamedJob DEF LoadedStale, Idle
    <2> QED
        BY <1>1, <1>8, <2>1, <2>2, LockAllOfTimeouts DEF LoadedStale
<1>9. ASSUME NEW j \in Jobs, Derived(j) \/ CacheUnlockedIdentity(j)
      PROVE SettingInv'
    BY <1>0, <1>9, DerivedReads, CacheReads
<1>10. ASSUME NEW n \in Names, UnlockMail(n)
       PROVE SettingInv'
    BY <1>1, <1>2, <1>10, StoreTimeouts DEF UnlockMail
<1>11. ASSUME NEW n \in Names, DropIfExpired(n) \/ DeleteIdentity(n)
       PROVE SettingInv'
    <2>1. LockAllOf({n}) /\ UNCHANGED <<job, configured, setting, reading, overlapped>>
        BY <1>11 DEF DropIfExpired, DeleteIdentity
    <2> QED
        BY <1>1, <1>2, <2>1, LockAllOfTimeouts
<1>12. ASSUME NEW n \in Names, TimerFires(n)
       PROVE SettingInv'
    BY <1>1, <1>2, <1>12, LockAllOfTimeouts, StoreTimeouts DEF TimerFires
<1>13. ASSUME NEW t \in Settings, ApplyUnlockTimeout(t)
       PROVE SettingInv'
    BY <1>0, <1>13, ApplyReads
<1>14. CASE LockNow
    BY <1>1, <1>2, <1>14, LockAllOfTimeouts DEF LockNow, LockHeld
<1>15. CASE Tick
    <2>1. ASSUME NEW n \in Names
          PROVE \/ session'[n] = NoSession
                \/ session[n] # NoSession /\ session'[n].timeout = session[n].timeout
        <3>1. session'[n] = [session[n] EXCEPT !.left = Down(session[n].left)]
            BY <1>15 DEF Tick
        <3>2. CASE session[n] \in Session
            BY <3>1, <3>2, NoKeyAssumption DEF Session, NoSession
        <3>3. CASE session[n] = NoSession
            BY <3>1, <3>3 DEF NoSession, Down
        <3> QED
            BY <1>0, <3>2, <3>3 DEF TypeOK
    <2> QED
        BY <1>1, <1>2, <1>15, <2>1 DEF Tick, SameTimeouts
<1>16. CASE Background \/ UNCHANGED vars
    BY <1>1, <1>2, <1>16, StoreTimeouts DEF Background, store, vars
<1>17. CASE Foreground
    BY <1>1, <1>2, <1>17, LockAllOfTimeouts, StoreTimeouts DEF Foreground, LockHeld, store
<1>18. CASE Restart
    BY <1>0, <1>18 DEF Restart, SettingInv, ReadsAreCurrent, OneUnlock, ConfiguredIsKnown,
       SessionsFollowSetting, Held, NoRead, Idle
<1> QED
    BY <1>3, <1>4, <1>5, <1>6, <1>7, <1>8, <1>9, <1>10, <1>11, <1>12, <1>13, <1>14,
       <1>15, <1>16, <1>17, <1>18 DEF Next

\* A session's length is the setting, unless the reads of two unlocks overlapped
\* (unlockSession.ts:138-165).
THEOREM LengthFollowsSetting == Spec => []SessionsFollowSetting
<1>1. Init => SettingInv
    BY InitTypeOK DEF Init, SettingInv, ReadsAreCurrent, OneUnlock, ConfiguredIsKnown,
       SessionsFollowSetting, Held, NoRead, Idle
<1>2. SettingInv => SessionsFollowSetting
    BY DEF SettingInv
<1> QED
    BY <1>1, <1>2, StepSetting, PTL DEF Spec
=============================================================================
