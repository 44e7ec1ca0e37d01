-------------------------- MODULE MailStoreProofs --------------------------
(***************************************************************************)
(* Theorems about MailStore, for all accounts and PINs.                    *)
(***************************************************************************)
EXTENDS MailStore, TLAPS

----------------------------------------------------------------------------
(* Shapes. *)

InProgress == req.pc # "idle"
Jobs == Job \union {Idle(a) : a \in Answers}

\* A request in progress goes on at pc with these ids and PINs.
Becomes(pc, ids, tries) ==
    /\ req' \in Job /\ req'.pc = pc /\ pc # "idle"
    /\ req'.ask = req.ask /\ req'.ids = ids /\ req'.tries = tries

\* A request ends.
Ends(answers) == \E a \in answers : req' = Idle(a) /\ req' \in Jobs /\ req'.pc = "idle"
Refused == Ends({"partly", "error"})

LEMMA AskTypes ==
    ASSUME NEW ask \in Asks
    PROVE  /\ ask.pin \in MaybePin /\ ask.with \in MaybePassword /\ ask.keep \in BOOLEAN
           /\ ask.op \in {"save", "use", "delete", "unlock", "identityUnlock", "signup",
                          "reset", "ebpDelete", "refresh"}
           /\ ask.op \in {"save", "use", "delete", "signup", "reset", "refresh"} => ask.id \in Ids
           /\ ask.op = "signup" => ask.with = Password
           /\ ask.op = "unlock" => ask.pin \in Pins
           /\ ask.op # "save" => ask.keep
BY DEF Asks, Asked, Ids, MaybePin, MaybePassword

LEMMA JobTypes ==
    ASSUME TypeOK
    PROVE  /\ req \in Jobs
           /\ InProgress => /\ req \in Job /\ req.pc \in Steps /\ req.ask \in Asks
                            /\ req.ids \in SUBSET Ids /\ req.tries \in Seq(Pins)
BY DEF TypeOK, Jobs, InProgress, Job, Idle

LEMMA EndMeans ==
    ASSUME NEW a \in Answers, Reply(a)
    PROVE  Ends({a})
BY DEF Reply, Ends, Jobs, Idle

LEMMA RefuseMeans ==
    ASSUME Refuse
    PROVE  Refused
BY DEF Refuse, Refused, Reply, Ends, Jobs, Idle, Answers

LEMMA GotoMeans ==
    ASSUME TypeOK, InProgress, NEW pc \in Steps, Goto(pc)
    PROVE  Becomes(pc, req.ids, req.tries)
BY JobTypes DEF Goto, Becomes, Job, Steps

LEMMA IdsMeans ==
    ASSUME TypeOK, InProgress, NEW pc \in Steps, NEW s \in SUBSET Ids,
           req' = [req EXCEPT !.pc = pc, !.ids = s]
    PROVE  Becomes(pc, s, req.tries)
BY JobTypes DEF Becomes, Job, Steps

LEMMA TriesMeans ==
    ASSUME TypeOK, InProgress, NEW pc \in Steps, NEW t \in Seq(Pins),
           req' = [req EXCEPT !.pc = pc, !.tries = t]
    PROVE  Becomes(pc, req.ids, t)
BY JobTypes DEF Becomes, Job, Steps

\* What Save leaves: the new store in the cache, and a write that waits, or a refusal.
SaveMeans(s, p) ==
    /\ cache' = Cached(s)
    /\ \/ s = {} /\ Becomes("remove", {}, req.tries)
       \/ s # {} /\ p = NoPin /\ Refused
       \/ s # {} /\ p \in Pins /\ Becomes("write", s, <<p>>)

LEMMA SaveDoes ==
    ASSUME TypeOK, InProgress, NEW s \in SUBSET Ids, NEW p \in MaybePin, Save(s, p)
    PROVE  SaveMeans(s, p)
<1>1. CASE s = {} /\ req' = [req EXCEPT !.pc = "remove", !.ids = {}]
  BY <1>1, IdsMeans DEF Save, SaveMeans, Steps
<1>2. CASE s # {} /\ p = NoPin /\ Refuse
  BY <1>2, RefuseMeans DEF Save, SaveMeans
<1>3. CASE s # {} /\ p # NoPin /\ req' = [req EXCEPT !.pc = "write", !.ids = s, !.tries = <<p>>]
  <2>1. p \in Pins /\ <<p>> \in Seq(Pins)
    BY <1>3 DEF MaybePin
  <2>2. Becomes("write", s, <<p>>)
    BY <1>3, <2>1, JobTypes DEF Becomes, Job, Steps
  <2> QED  BY <1>3, <2>1, <2>2 DEF Save, SaveMeans
<1> QED  BY <1>1, <1>2, <1>3 DEF Save

\* What a request does with the store s it got.
Changed(s) ==
    IF req.ask.op = "ebpDelete" THEN s \ req.ids
    ELSE IF req.ask.keep THEN s \union {req.ask.id}
    ELSE s \ {req.ask.id}
GotMeans(s, p) ==
    \/ /\ req.ask.op \in {"save", "signup", "reset", "refresh", "ebpDelete"}
       /\ SaveMeans(Changed(s), p)
    \/ /\ req.ask.op = "use"
       /\ cache' = Cached(s)
       /\ \/ Ends({"ok", "error"})
          \/ /\ req' \in Job /\ req'.pc = "open" /\ req'.ids = req.ids
             /\ req'.tries = req.tries
             /\ req'.ask = [req.ask EXCEPT !.op = "refresh"]

LEMMA GotDoes ==
    ASSUME TypeOK, InProgress, NEW s \in SUBSET Ids, NEW p \in MaybePin, Got(s, p)
    PROVE  GotMeans(s, p)
<1>1. req \in Job /\ req.ask \in Asks /\ req.ids \in SUBSET Ids
  BY JobTypes
<1>2. CASE /\ req.ask.op \in {"save", "signup", "reset", "refresh"}
           /\ Save(IF req.ask.keep THEN s \union {req.ask.id} ELSE s \ {req.ask.id}, p)
  <2>1. req.ask.id \in Ids
    BY <1>1, <1>2, AskTypes
  <2> QED  BY <1>2, <2>1, SaveDoes DEF GotMeans, Changed
<1>3. CASE req.ask.op = "ebpDelete" /\ Save(s \ req.ids, p)
  BY <1>3, SaveDoes DEF GotMeans, Changed
<1>4. CASE /\ req.ask.op = "use"
           /\ cache' = Cached(s)
           /\ \/ req.ask.id \in s /\ Reply("ok")
              \/ req.ask.id \in s \cap Manual
                 /\ req' = [req EXCEPT !.pc = "open", !.ask.op = "refresh"]
              \/ req.ask.id \notin s /\ Reply("error")
  <2>1. CASE Reply("ok") \/ Reply("error")
    BY <1>4, <2>1 DEF GotMeans, Reply, Ends, Jobs, Idle, Answers
  <2>2. CASE /\ req.ask.id \in Manual
             /\ req' = [req EXCEPT !.pc = "open", !.ask.op = "refresh"]
    <3>1. req' = [req EXCEPT !.pc = "open", !.ask = [req.ask EXCEPT !.op = "refresh"]]
      BY <2>2
    <3>2. req.ask.pin = NoPin /\ req.ask.with = NoPin /\ req.ask.keep
      BY <1>1, <1>4 DEF Asks, Asked
    <3>3. [req.ask EXCEPT !.op = "refresh"] \in Asks
      BY <1>1, <1>4, <2>2, <3>2 DEF Asks, Asked
    <3>4. /\ req' \in Job /\ req'.pc = "open" /\ req'.ids = req.ids
          /\ req'.tries = req.tries /\ req'.ask = [req.ask EXCEPT !.op = "refresh"]
      BY <1>1, <3>1, <3>3 DEF Job, Steps
    <3> QED  BY <1>4, <3>4 DEF GotMeans
  <2> QED  BY <1>4, <2>1, <2>2
<1> QED  BY <1>2, <1>3, <1>4 DEF Got

\* The PINs that are there.
LEMMA CandidatesType ==
    ASSUME NEW ask \in Asks, pinCache \in MaybePin
    PROVE  /\ Candidates(ask) \in Seq(Pins)
           /\ Candidates(ask) # <<>> => Head(Candidates(ask)) \in Pins
           /\ ask.with # NoPin => Candidates(ask) # <<>>
           /\ ask.pin = NoPin /\ pinCache = NoPin /\ ask.with = NoPin => Candidates(ask) = <<>>
<1>1. ask.pin \in MaybePin /\ ask.with \in MaybePin
  BY AskTypes, PinsAssumption DEF MaybePin, MaybePassword
<1>2. ASSUME NEW p \in MaybePin
      PROVE  /\ Given(p) \in Seq(Pins)
             /\ p = NoPin => Given(p) = <<>>
             /\ Len(Given(p)) \in Nat
             /\ p # NoPin => Len(Given(p)) = 1
  BY <1>2 DEF Given, MaybePin
<1>3. Candidates(ask) \in Seq(Pins)
  BY <1>1, <1>2 DEF Candidates
<1>4. ask.with # NoPin => Candidates(ask) # <<>>
  <2>1. Len(Candidates(ask)) = Len(Given(ask.pin)) + Len(Given(pinCache)) + Len(Given(ask.with))
    BY <1>1, <1>2 DEF Candidates
  <2>2. /\ Len(Given(ask.pin)) \in Nat /\ Len(Given(pinCache)) \in Nat
        /\ ask.with # NoPin => Len(Given(ask.with)) = 1
    BY <1>1, <1>2
  <2>3. \A a, b \in Nat : a + b + 1 # 0
    OBVIOUS
  <2>4. ask.with # NoPin => Len(Candidates(ask)) # 0
    BY ONLY <2>1, <2>2, <2>3
  <2> QED  BY <1>3, <2>4
<1>5. ask.pin = NoPin /\ pinCache = NoPin /\ ask.with = NoPin => Candidates(ask) = <<>>
  BY DEF Candidates, Given
<1> QED  BY <1>3, <1>4, <1>5

\* What the position of a request says of it.
Shapes ==
    InProgress =>
       /\ At("identity") => Op("signup")
       /\ At("status") /\ Op("signup") => req.ask.with = Password
       /\ At("try") => req.tries # <<>> \/ secrets # NoFile
       /\ req.pc \in {"decrypt", "write"} => \E p \in Pins : req.tries = <<p>>
       /\ At("write") => req.ids # {}
       /\ Op("ebpDelete") => At("write") \/ req.ids \subseteq Managed

TypeInv == TypeOK /\ Shapes

----------------------------------------------------------------------------
(* What each step does. *)

\* What a read of the file does to the histories: one that failed is a disturbance.
LEMMA SeesDoes ==
    ASSUME TypeOK, NEW file, Sees(file)
    PROVE  /\ file \in {secrets, NoFile}
           /\ typed' \in SUBSET Pins /\ opened' \in BOOLEAN
           /\ stored' \in SUBSET Ids /\ course' \in Courses
           /\ stored' \subseteq stored /\ (file = NoFile => stored' = {})
           /\ Undisturbed' => file = secrets /\ UNCHANGED <<typed, opened, course>>
BY DEF Sees, TypeOK, Courses, Undisturbed

\* The calls to the key server and the writes of the accounts.
LEMMA QuietDoes ==
    ASSUME TypeInv, Post \/ SavedIdentity \/ WriteAccounts
    PROVE  /\ InProgress
           /\ UNCHANGED <<secrets, cache, pinCache, typed, opened, stored, course>>
           /\ mailbox' \in BOOLEAN /\ accounts' \in SUBSET Ids
           /\ \/ Ends({"error"})
              \/ \E pc \in {"identity", "prepare", "accounts", "open"}, s \in SUBSET Ids :
                    /\ Becomes(pc, s, req.tries)
                    /\ s = req.ids \/ (Op("ebpDelete") /\ s \subseteq Managed)
                    /\ pc = "identity" => Op("signup")
                    /\ Op("signup") => req.pc \in {"post", "identity", "accounts"}
                    /\ Op("delete") => pc = "open" /\ req.pc = "accounts"
<1>1. InProgress
  BY DEF Post, SavedIdentity, WriteAccounts, At, InProgress
<1>2. /\ req \in Job /\ req.ask \in Asks /\ req.ids \in SUBSET Ids
      /\ TypeOK /\ Shapes
  BY <1>1, JobTypes DEF TypeInv
<1>3. UNCHANGED <<secrets, cache, pinCache, typed, opened, stored, course>>
  BY DEF Post, SavedIdentity, WriteAccounts, history
<1>4. CASE Post
  <2>1. accounts \cap Managed \in SUBSET Ids
    BY DEF Ids
  <2>2. CASE Op("signup")
    <3>1. \/ mailbox' = TRUE /\ Goto("identity")
          \/ Reply("error") /\ UNCHANGED mailbox
      BY <1>4, <2>2 DEF Post, Op
    <3>2. \/ Becomes("identity", req.ids, req.tries)
          \/ Ends({"error"})
      BY <1>1, <1>2, <3>1, GotoMeans, EndMeans DEF Steps, Answers
    <3>3. mailbox' \in BOOLEAN /\ accounts' \in SUBSET Ids /\ req.pc = "post"
      BY <1>2, <1>4, <3>1 DEF Post, TypeOK, At
    <3>4. ~Op("delete") /\ ~Op("ebpDelete")
      BY <2>2 DEF Op
    <3> QED  BY <1>1, <1>2, <1>3, <2>2, <3>2, <3>3, <3>4
  <2>3. CASE Op("reset")
    <3>1. PICK pc \in {"prepare", "accounts"} : Goto(pc) /\ UNCHANGED mailbox
      BY <1>4, <2>3 DEF Post, Op
    <3>2. Becomes(pc, req.ids, req.tries)
      BY <1>1, <1>2, <3>1, GotoMeans DEF Steps
    <3>3. ~Op("delete") /\ ~Op("signup")
      BY <2>3 DEF Op
    <3>4. mailbox' \in BOOLEAN /\ accounts' \in SUBSET Ids
      BY <1>2, <1>4, <3>1 DEF Post, TypeOK
    <3> QED  BY <1>1, <1>2, <1>3, <3>2, <3>3, <3>4
  <2>4. CASE Op("ebpDelete")
    <3>1. PICK pc \in {"prepare", "accounts"} :
             req' = [req EXCEPT !.pc = pc, !.ids = accounts \cap Managed]
      BY <1>4, <2>4 DEF Post, Op
    <3>2. Becomes(pc, accounts \cap Managed, req.tries)
      BY <1>1, <1>2, <2>1, <3>1, IdsMeans DEF Steps
    <3>3. ~Op("delete") /\ ~Op("signup")
      BY <2>4 DEF Op
    <3>4. mailbox' \in BOOLEAN /\ accounts' \in SUBSET Ids /\ accounts \cap Managed \subseteq Managed
      BY <1>2, <1>4, <2>4 DEF Post, TypeOK, Op
    <3> QED  BY <1>1, <1>3, <2>1, <2>4, <3>2, <3>3, <3>4
  <2> QED  BY <1>4, <2>2, <2>3, <2>4 DEF Post
<1>5. CASE SavedIdentity
  <2>1. Becomes("accounts", req.ids, req.tries) /\ Op("signup") /\ At("identity")
    BY <1>1, <1>2, <1>5, GotoMeans DEF SavedIdentity, Steps, Shapes
  <2> QED  BY <1>1, <1>2, <1>3, <1>5, <2>1 DEF SavedIdentity, TypeOK, Op, At
<1>6. CASE WriteAccounts
  <2>1. accounts' \in SUBSET Ids
    BY <1>2, <1>6, AskTypes DEF WriteAccounts, TypeOK, Op
  <2>2. PICK pc \in {"prepare", "open"} :
           /\ Becomes(pc, req.ids, req.tries)
           /\ Op("delete") => pc = "open"
    BY <1>1, <1>2, <1>6, GotoMeans DEF WriteAccounts, Steps, Op
  <2> QED  BY <1>1, <1>2, <1>3, <1>6, <2>1, <2>2 DEF WriteAccounts, TypeOK, At
<1> QED  BY <1>4, <1>5, <1>6

LEMMA OpenDoes ==
    ASSUME TypeInv, Open
    PROVE  /\ InProgress /\ At("open")
           /\ UNCHANGED <<accounts, secrets, mailbox, typed, opened, stored, course>>
           /\ pinCache' \in MaybePin
           /\ pinCache' = pinCache \/ (pinCache' = req.ask.pin /\ pinCache' \in Pins)
           /\ \/ /\ Op("delete") /\ req.ask.id \in req.ids
                 /\ SaveMeans(req.ids \ {req.ask.id}, pinCache')
              \/ Op("delete") /\ req.ask.id \notin req.ids /\ Ends({"ok"}) /\ UNCHANGED cache
              \/ ~Op("delete") /\ cache.on /\ GotMeans(cache.ids, pinCache')
              \/ ~Op("delete") /\ Becomes("read", req.ids, req.tries) /\ UNCHANGED cache
<1> DEFINE p == IF req.ask.pin # NoPin /\ Op("save") THEN req.ask.pin ELSE pinCache
<1>1. InProgress /\ At("open") /\ pinCache' = p
  BY DEF Open, At, InProgress
<1>2. TypeOK /\ req \in Job /\ req.ask \in Asks /\ req.ids \in SUBSET Ids /\ cache.ids \in SUBSET Ids
  BY <1>1, JobTypes DEF TypeInv, TypeOK
<1>3. p \in MaybePin /\ (p = pinCache \/ (p = req.ask.pin /\ p \in Pins))
  BY <1>2, AskTypes DEF MaybePin, TypeOK
<1> HIDE DEF p
<1>4. CASE Op("delete")
  BY <1>1, <1>2, <1>3, <1>4, SaveDoes, EndMeans DEF Open, p, Answers, history
<1>5. CASE ~Op("delete")
  BY <1>1, <1>2, <1>3, <1>5, GotDoes, GotoMeans DEF Open, p, Steps, history
<1> QED  BY <1>4, <1>5

LEMMA PrepareDoes ==
    ASSUME TypeInv, Prepare
    PROVE  /\ InProgress /\ At("prepare")
           /\ UNCHANGED <<accounts, secrets, mailbox, typed, opened, stored, course>>
           /\ pinCache' \in MaybePin
           /\ pinCache # NoPin => pinCache' = pinCache
           /\ Candidates(req.ask) = <<>> => pinCache' = pinCache
           /\ \/ /\ Becomes("status", req.ids, Candidates(req.ask))
                 /\ UNCHANGED <<cache, pinCache>>
              \/ /\ cache.on /\ Op("delete") /\ Becomes("accounts", cache.ids, req.tries)
                 /\ UNCHANGED <<cache, pinCache>>
              \/ /\ cache.on /\ Op("signup") /\ Becomes("post", req.ids, req.tries)
                 /\ UNCHANGED cache /\ pinCache' \in Pins
              \/ Op("reset") /\ Refused /\ UNCHANGED <<cache, pinCache>>
              \/ Op("reset") /\ cache.on /\ pinCache' \in Pins /\ GotMeans(cache.ids, pinCache')
              \/ Op("ebpDelete") /\ cache.on /\ UNCHANGED pinCache /\ GotMeans(cache.ids, pinCache)
<1> DEFINE c == Candidates(req.ask)
           p == IF c = <<>> THEN NoPin ELSE IF pinCache # NoPin THEN pinCache ELSE Head(c)
<1>1. /\ InProgress /\ At("prepare")
      /\ UNCHANGED <<accounts, secrets, mailbox, typed, opened, stored, course>>
  BY DEF Prepare, At, InProgress, history
<1>2. /\ TypeOK /\ req \in Job /\ req.ask \in Asks /\ req.ids \in SUBSET Ids
      /\ cache.ids \in SUBSET Ids /\ pinCache \in MaybePin
  BY <1>1, JobTypes DEF TypeInv, TypeOK
<1>3. /\ c \in Seq(Pins) /\ p \in MaybePin
      /\ pinCache # NoPin => c # <<>>
      /\ pinCache # NoPin => p = pinCache
      /\ c = <<>> => p = NoPin /\ pinCache = NoPin
      /\ Op("signup") => p \in Pins
  <2>1. c \in Seq(Pins) /\ (c # <<>> => Head(c) \in Pins) /\ (req.ask.with # NoPin => c # <<>>)
    BY <1>2, CandidatesType
  <2>2. pinCache # NoPin => c # <<>>
    <3>1. SUFFICES ASSUME pinCache # NoPin PROVE Len(c) # 0
      OBVIOUS
    <3>2. /\ Given(req.ask.pin) \in Seq(Pins) /\ Given(req.ask.with) \in Seq(Pins)
          /\ Given(pinCache) = <<pinCache>> /\ pinCache \in Pins
      BY <1>2, <3>1, AskTypes, PinsAssumption DEF Given, MaybePin, MaybePassword
    <3>3. Len(c) = Len(Given(req.ask.pin)) + 1 + Len(Given(req.ask.with))
      BY <3>2 DEF Candidates
    <3>4. Len(Given(req.ask.pin)) \in Nat /\ Len(Given(req.ask.with)) \in Nat
      BY <3>2
    <3>5. \A a, b \in Nat : a + 1 + b # 0
      OBVIOUS
    <3> QED  BY ONLY <3>3, <3>4, <3>5
  <2>3. Op("signup") => req.ask.with # NoPin
    BY <1>2, AskTypes, PinsAssumption DEF Op
  <2> QED  BY <1>2, <2>1, <2>2, <2>3 DEF MaybePin
<1> HIDE DEF p, c
<1>4. CASE ~cache.on
  BY <1>1, <1>2, <1>3, <1>4, TriesMeans DEF Prepare, p, c, Steps
<1>5. CASE cache.on /\ Op("delete")
  BY <1>1, <1>2, <1>3, <1>5, IdsMeans DEF Prepare, p, c, Steps, Op
<1>6. CASE cache.on /\ Op("signup")
  <2>1. pinCache' = p /\ Goto("post") /\ UNCHANGED cache
    BY <1>6 DEF Prepare, p, c, Op
  <2>2. Becomes("post", req.ids, req.tries)
    BY <1>1, <1>2, <2>1, GotoMeans DEF Steps
  <2>3. /\ pinCache' \in MaybePin /\ pinCache' \in Pins
        /\ pinCache # NoPin => pinCache' = pinCache
        /\ Candidates(req.ask) = <<>> => pinCache' = pinCache
    BY <1>3, <1>6, <2>1 DEF c
  <2> QED  BY <1>1, <1>6, <2>1, <2>2, <2>3
<1>7. CASE cache.on /\ Op("reset")
  <2>1. pinCache' = p /\ (p = NoPin => Refuse /\ UNCHANGED cache) /\ (p # NoPin => Got(cache.ids, p))
    BY <1>7 DEF Prepare, p, c, Op
  <2>2. CASE p = NoPin
    <3>1. Refused /\ UNCHANGED cache /\ pinCache' = pinCache
      BY <1>3, <2>1, <2>2, RefuseMeans
    <3> QED  BY <1>1, <1>2, <1>7, <3>1
  <2>3. CASE p # NoPin
    <3>1. p \in Pins /\ GotMeans(cache.ids, p)
      BY <1>1, <1>2, <1>3, <2>1, <2>3, GotDoes DEF MaybePin
    <3>2. /\ pinCache' \in MaybePin
          /\ pinCache # NoPin => pinCache' = pinCache
          /\ Candidates(req.ask) = <<>> => pinCache' = pinCache
      BY <1>3, <2>1 DEF c
    <3> QED  BY <1>1, <1>7, <2>1, <3>1, <3>2
  <2> QED  BY <2>2, <2>3
<1>8. CASE cache.on /\ Op("ebpDelete")
  BY <1>1, <1>2, <1>3, <1>8, GotDoes DEF Prepare, p, c, Op
<1> QED  BY <1>4, <1>5, <1>6, <1>7, <1>8 DEF Prepare

LEMMA StatusNoneDoes ==
    ASSUME TypeInv, StatusNone
    PROVE  /\ InProgress /\ At("status") /\ Sees(NoFile)
           /\ UNCHANGED <<accounts, secrets, cache, mailbox>>
           /\ pinCache' \in MaybePin
           /\ \/ Op("delete") /\ Becomes("accounts", req.ids, req.tries) /\ UNCHANGED pinCache
              \/ Op("signup") /\ Becomes("post", req.ids, req.tries) /\ pinCache' \in Pins
              \/ /\ Op("reset") /\ (req.tries = <<>> => pinCache' = pinCache)
                 /\ Refused \/ (pinCache' # NoPin /\ Becomes("read", req.ids, req.tries))
              \/ Op("ebpDelete") /\ Becomes("read", req.ids, req.tries) /\ UNCHANGED pinCache
              \/ Op("identityUnlock") /\ Ends({"ok"}) /\ UNCHANGED pinCache
<1> DEFINE c == IF Op("signup") THEN Candidates(req.ask) ELSE req.tries
           p == IF pinCache # NoPin \/ c = <<>> THEN pinCache ELSE Head(c)
<1>1. /\ InProgress /\ At("status") /\ Sees(NoFile)
      /\ UNCHANGED <<accounts, secrets, cache, mailbox>>
  BY DEF StatusNone, At, InProgress
<1>2. /\ TypeOK /\ req \in Job /\ req.ask \in Asks /\ req.ids \in SUBSET Ids
      /\ req.tries \in Seq(Pins) /\ pinCache \in MaybePin
      /\ Op("signup") => req.ask.with = Password
  BY <1>1, JobTypes DEF TypeInv, TypeOK, Shapes
<1>3. p \in MaybePin /\ (Op("signup") => p \in Pins) /\ (req.tries = <<>> /\ ~Op("signup") => p = pinCache)
  <2>1. c \in Seq(Pins) /\ (Op("signup") => c # <<>>)
    BY <1>2, CandidatesType, PinsAssumption
  <2>2. c # <<>> => Head(c) \in Pins
    BY <2>1
  <2> QED  BY <1>2, <2>1, <2>2 DEF MaybePin
<1> HIDE DEF p, c
<1>4. CASE Op("delete") /\ Goto("accounts") /\ UNCHANGED pinCache
  BY <1>1, <1>2, <1>4, GotoMeans DEF Steps
<1>5. CASE Op("signup") /\ pinCache' = p /\ Goto("post")
  BY <1>1, <1>2, <1>3, <1>5, GotoMeans DEF Steps
<1>6. CASE Op("reset") /\ pinCache' = p /\ (IF p = NoPin THEN Refuse ELSE Goto("read"))
  <2>1. Refused \/ (p # NoPin /\ Becomes("read", req.ids, req.tries))
    BY <1>1, <1>2, <1>6, GotoMeans, RefuseMeans DEF Steps
  <2>2. ~Op("signup")
    BY <1>6 DEF Op
  <2> QED  BY <1>1, <1>2, <1>3, <1>6, <2>1, <2>2
<1>7. CASE Op("ebpDelete") /\ Goto("read") /\ UNCHANGED pinCache
  BY <1>1, <1>2, <1>7, GotoMeans DEF Steps
<1>8. CASE Op("identityUnlock") /\ Reply("ok") /\ UNCHANGED pinCache
  BY <1>1, <1>2, <1>8, EndMeans DEF Answers
<1> QED  BY <1>4, <1>5, <1>6, <1>7, <1>8 DEF StatusNone, p, c

LEMMA StatusLockedDoes ==
    ASSUME TypeInv, StatusLocked
    PROVE  /\ InProgress /\ At("status") /\ secrets # NoFile
           /\ UNCHANGED <<accounts, secrets, cache, pinCache, mailbox, typed, opened,
                          stored, course>>
           /\ \/ Refused
              \/ \E t \in Seq(Pins) :
                    /\ Becomes("try", req.ids, t)
                    /\ req.ask.op \in {"signup", "reset", "identityUnlock"}
                    /\ Op("reset") => t = req.tries
                    /\ Op("identityUnlock") => t = <<Password>>
<1>1. /\ InProgress /\ At("status") /\ secrets # NoFile
      /\ UNCHANGED <<accounts, secrets, cache, pinCache, mailbox, typed, opened, stored, course>>
  BY DEF StatusLocked, At, InProgress, history
<1>2. /\ TypeOK /\ req \in Job /\ req.ask \in Asks /\ req.tries \in Seq(Pins)
      /\ pinCache \in MaybePin /\ (Op("signup") => req.ask.with = Password)
  BY <1>1, JobTypes DEF TypeInv, TypeOK, Shapes
<1>3. CASE Refuse
  BY <1>1, <1>3, RefuseMeans
<1>4. CASE Op("signup") /\ req' = [req EXCEPT !.pc = "try", !.tries = <<Head(Candidates(req.ask))>>]
  <2>1. Head(Candidates(req.ask)) \in Pins
    BY <1>2, <1>4, CandidatesType, PinsAssumption
  <2> DEFINE t == <<Head(Candidates(req.ask))>>
  <2>2. t \in Seq(Pins)
    BY <2>1
  <2> HIDE DEF t
  <2>3. Becomes("try", req.ids, t)
    BY <1>1, <1>2, <1>4, <2>2, TriesMeans DEF Steps, t
  <2> QED  BY <1>1, <1>4, <2>2, <2>3 DEF Op
<1>5. CASE Op("reset") /\ Goto("try")
  <2>1. Becomes("try", req.ids, req.tries)
    BY <1>1, <1>2, <1>5, GotoMeans DEF Steps
  <2> QED  BY <1>1, <1>2, <1>5, <2>1 DEF Op
<1>6. CASE Op("identityUnlock") /\ req' = [req EXCEPT !.pc = "try", !.tries = <<Password>>]
  <2>1. <<Password>> \in Seq(Pins)
    BY PinsAssumption
  <2>2. Becomes("try", req.ids, <<Password>>)
    BY <1>1, <1>2, <1>6, <2>1, TriesMeans DEF Steps
  <2> QED  BY <1>1, <1>6, <2>1, <2>2 DEF Op
<1> QED  BY <1>3, <1>4, <1>5, <1>6 DEF StatusLocked

LEMMA TryDoes ==
    ASSUME TypeInv, Try
    PROVE  /\ InProgress /\ At("try")
           /\ UNCHANGED <<accounts, secrets, mailbox>>
           /\ \/ Refused /\ UNCHANGED <<cache, pinCache, typed, opened, stored, course>>
              \/ \E file \in {secrets, NoFile} :
                    /\ Sees(file) /\ req.tries # <<>>
                    /\ pinCache' \in Pins /\ (file # NoFile => pinCache' = file.pin)
                    /\ \/ Op("signup") /\ cache' = Cached(file.ids) /\ Becomes("post", req.ids, req.tries)
                       \/ Op("reset") /\ GotMeans(file.ids, pinCache')
                       \/ /\ req.ask.op \in {"unlock", "identityUnlock"}
                          /\ cache' = Cached(file.ids) /\ Ends({"ok"})
<1>1. InProgress /\ At("try") /\ UNCHANGED <<accounts, secrets, mailbox>>
  BY DEF Try, TryOne, At, InProgress
<1>2. TypeOK /\ req.tries \in Seq(Pins) /\ req \in Job
  BY <1>1, JobTypes DEF TypeInv
<1>3. ASSUME NEW n \in DOMAIN req.tries, NEW file \in {secrets, NoFile}, TryOne(n, file)
      PROVE  /\ Sees(file) /\ req.tries # <<>>
             /\ pinCache' \in Pins /\ (file # NoFile => pinCache' = file.pin)
             /\ \/ Op("signup") /\ cache' = Cached(file.ids) /\ Becomes("post", req.ids, req.tries)
                \/ Op("reset") /\ GotMeans(file.ids, pinCache')
                \/ /\ req.ask.op \in {"unlock", "identityUnlock"}
                   /\ cache' = Cached(file.ids) /\ Ends({"ok"})
  <2>1. req.tries[n] \in Pins /\ req.tries # <<>>
    BY <1>2, <1>3
  <2>2. /\ Sees(file) /\ pinCache' = req.tries[n]
        /\ file # NoFile => pinCache' = file.pin
    BY <1>3 DEF TryOne
  <2>3. file.ids \in SUBSET Ids
    BY <1>2 DEF TypeOK, Envelope, NoFile
  <2>4. Goto("post") => Becomes("post", req.ids, req.tries)
    BY <1>1, <1>2, GotoMeans DEF Steps
  <2>5. Got(file.ids, req.tries[n]) => GotMeans(file.ids, pinCache')
    BY <1>1, <1>2, <2>1, <2>2, <2>3, GotDoes DEF MaybePin
  <2>6. Reply("ok") => Ends({"ok"})
    BY EndMeans DEF Answers
  <2> QED  BY <1>3, <2>1, <2>2, <2>4, <2>5, <2>6 DEF TryOne
<1>4. CASE Refuse /\ UNCHANGED <<cache, pinCache, history>>
  BY <1>1, <1>4, RefuseMeans DEF history
<1> QED  BY <1>1, <1>3, <1>4 DEF Try

LEMMA ReadDoes ==
    ASSUME TypeInv, Read
    PROVE  /\ InProgress /\ At("read")
           /\ UNCHANGED <<accounts, secrets, pinCache, mailbox>>
           /\ \/ Sees(NoFile) /\ GotMeans({}, pinCache)
              \/ Refused /\ UNCHANGED <<cache, typed, opened, stored, course>>
              \/ /\ pinCache \in Pins /\ UNCHANGED <<cache, typed, opened, stored, course>>
                 /\ Becomes("decrypt", req.ids, <<pinCache>>)
<1>1. InProgress /\ At("read") /\ UNCHANGED <<accounts, secrets, pinCache, mailbox>>
  BY DEF Read, At, InProgress
<1>2. TypeOK /\ req \in Job /\ pinCache \in MaybePin
  BY <1>1, JobTypes DEF TypeInv, TypeOK
<1>3. CASE Sees(NoFile) /\ Got({}, pinCache)
  BY <1>1, <1>2, <1>3, GotDoes
<1>4. CASE Refuse /\ UNCHANGED <<cache, history>>
  BY <1>1, <1>4, RefuseMeans DEF history
<1>5. CASE /\ pinCache # NoPin /\ UNCHANGED <<cache, history>>
           /\ req' = [req EXCEPT !.pc = "decrypt", !.tries = <<pinCache>>]
  <2>1. pinCache \in Pins /\ <<pinCache>> \in Seq(Pins)
    BY <1>2, <1>5 DEF MaybePin
  <2>2. Becomes("decrypt", req.ids, <<pinCache>>)
    BY <1>1, <1>2, <1>5, <2>1, TriesMeans DEF Steps
  <2> QED  BY <1>1, <1>5, <2>1, <2>2 DEF history
<1> QED  BY <1>3, <1>4, <1>5 DEF Read

LEMMA DecryptDoes ==
    ASSUME TypeInv, Decrypt
    PROVE  /\ InProgress /\ At("decrypt")
           /\ UNCHANGED <<accounts, secrets, pinCache, mailbox, typed, opened, stored, course>>
           /\ \/ /\ secrets # NoFile /\ req.tries = <<secrets.pin>>
                 /\ GotMeans(secrets.ids, pinCache)
              \/ Refused /\ UNCHANGED cache
<1>1. /\ InProgress /\ At("decrypt")
      /\ UNCHANGED <<accounts, secrets, pinCache, mailbox, typed, opened, stored, course>>
  BY DEF Decrypt, At, InProgress, history
<1>2. /\ TypeOK /\ pinCache \in MaybePin /\ secrets.ids \in SUBSET Ids
      /\ \E p \in Pins : req.tries = <<p>>
  BY <1>1 DEF TypeInv, TypeOK, Shapes, Envelope, NoFile, At
<1>3. CASE req.tries[1] = secrets.pin /\ Got(secrets.ids, pinCache)
  <2>1. req.tries = <<secrets.pin>> /\ secrets.pin \in Pins
    BY <1>2, <1>3
  <2>2. secrets # NoFile
    BY <2>1, PinsAssumption DEF NoFile
  <2> QED  BY <1>1, <1>2, <1>3, <2>1, <2>2, GotDoes
<1>4. CASE Refuse /\ UNCHANGED cache
  BY <1>1, <1>4, RefuseMeans
<1> QED  BY <1>3, <1>4 DEF Decrypt

\* What a failure or a crash leaves of files and requests.
LEMMA BrokenDoes ==
    ASSUME TypeInv, Fail \/ Die
    PROVE  /\ InProgress /\ Ends(Answers)
           /\ UNCHANGED <<typed, opened>>
           /\ stored' = IF secrets' = NoFile /\ ~cache'.on THEN {} ELSE stored
           /\ secrets' = secrets \/ (At("write") /\ secrets' = NoFile)
           /\ UNCHANGED <<cache, pinCache>> \/ (cache' = NoCache /\ pinCache' = NoPin)
           /\ mailbox' \in BOOLEAN /\ accounts' \in SUBSET Ids
           /\ course' = course \/ (course' = "failed" /\ course = "calm")
           /\ course' = "calm" => req.pc \notin {"write", "remove"}
           /\ ~Ends({"ok"})
<1>1. InProgress /\ Broken
  BY DEF Fail, Die, At, InProgress
<1>2. Ends({"partly", "error"})
  BY RefuseMeans DEF Fail, Die, Refused, Reply, Ends, Jobs, Idle, Answers
<1>3. Ends(Answers) /\ ~Ends({"ok"})
  BY <1>2 DEF Ends, Answers, Idle
<1>4. mailbox' \in BOOLEAN /\ accounts' \in SUBSET Ids
  BY <1>1 DEF Broken, TypeInv, TypeOK
<1>5. /\ course' = course \/ (course' = "failed" /\ course = "calm")
      /\ course' = "calm" => req.pc \notin {"write", "remove"}
  BY <1>1 DEF Broken
<1>6. secrets' = secrets \/ (At("write") /\ secrets' = NoFile)
  BY <1>1 DEF Broken
<1>7. /\ UNCHANGED <<typed, opened>>
      /\ stored' = IF secrets' = NoFile /\ ~cache'.on THEN {} ELSE stored
      /\ UNCHANGED <<cache, pinCache>> \/ (cache' = NoCache /\ pinCache' = NoPin)
  BY <1>1 DEF Fail, Die, Broken
<1> QED  BY <1>1, <1>3, <1>4, <1>5, <1>6, <1>7

LEMMA WriteDoes ==
    ASSUME TypeInv, Write
    PROVE  /\ InProgress /\ At("write") /\ Ends({"ok"})
           /\ UNCHANGED <<accounts, cache, pinCache, mailbox, typed, opened, course>>
           /\ \E p \in Pins : req.tries = <<p>> /\ secrets' = [pin |-> p, ids |-> req.ids]
           /\ stored' = stored \union req.ids /\ req.ids \in SUBSET Ids
           /\ req.ids # {} /\ secrets' \in Envelope /\ secrets' # NoFile
<1>1. InProgress /\ At("write")
  BY DEF Write, At, InProgress
<1>2. PICK p \in Pins : req.tries = <<p>> /\ secrets' = [pin |-> p, ids |-> req.ids]
  BY <1>1 DEF Write, TypeInv, Shapes, At
<1>3. req.ids \in SUBSET Ids /\ req.ids # {}
  BY <1>1, JobTypes DEF TypeInv, Shapes
<1>4. secrets' \in Envelope /\ secrets' # NoFile
  <2>1. [pin |-> p, ids |-> req.ids] \in Envelope
    BY <1>3 DEF Envelope
  <2>2. secrets'.pin = p /\ p # NoPin
    BY <1>2, PinsAssumption
  <2> QED  BY <1>2, <2>1, <2>2 DEF NoFile
<1>5. Ends({"ok"})
  BY EndMeans DEF Write, Answers
<1> QED  BY <1>1, <1>2, <1>3, <1>4, <1>5 DEF Write

LEMMA RemoveDoes ==
    ASSUME RemoveFile
    PROVE  /\ InProgress /\ At("remove") /\ Ends({"ok"}) /\ secrets' = NoFile
           /\ UNCHANGED <<accounts, cache, pinCache, mailbox, typed, opened, stored, course>>
BY EndMeans DEF RemoveFile, At, InProgress, Answers, history

\* A request that begins.
LEMMA ReceiveDoes ==
    ASSUME TypeInv, NEW ask \in Asked, Receive(ask)
    PROVE  /\ At("idle") /\ req' \in Job /\ req'.ask = ask /\ req'.ids = {}
           /\ req'.pc \in {"accounts", "open", "prepare", "try", "status", "post"}
           /\ req'.pc = "accounts" => ask.op = "save"
           /\ req'.pc = "open" => ask.op = "use"
           /\ req'.pc = "status" => ask.op = "identityUnlock"
           /\ req'.pc = "post" => ask.op \in {"reset", "ebpDelete"}
           /\ IF req'.pc = "try" THEN req'.tries = <<ask.pin>> /\ ask.op = "unlock" /\ ask.pin \in Pins
              ELSE req'.tries = <<>>
           /\ UNCHANGED <<accounts, secrets, cache, pinCache, mailbox, course>>
           /\ typed' = IF Undisturbed THEN typed \union ({ask.pin} \ {NoPin}) ELSE {}
           /\ opened' = (opened \/ ask.pin # NoPin \/ ask.with # NoPin)
           /\ stored' = stored \ Drops(ask)
<1>1. ask \in Asks
  BY DEF Asks
<1>2. <<>> \in Seq(Pins) /\ {} \in SUBSET Ids
  OBVIOUS
<1>3. CASE MailUnlock(ask)
  <2>1. Start(ask, "try", <<ask.pin>>) /\ ask.op = "unlock"
    BY <1>3 DEF MailUnlock
  <2>2. ask.pin \in Pins /\ <<ask.pin>> \in Seq(Pins)
    BY <1>1, <2>1, AskTypes
  <2> QED  BY <1>1, <1>2, <1>3, <2>1, <2>2 DEF MailUnlock, Start, Job, Steps
<1>4. CASE ~MailUnlock(ask)
  <2>1. PICK pc \in {"accounts", "open", "prepare", "status", "post"} :
           /\ Begin(ask, pc)
           /\ pc = "accounts" => ask.op = "save"
           /\ pc = "open" => ask.op = "use"
           /\ pc = "status" => ask.op = "identityUnlock"
           /\ pc = "post" => ask.op \in {"reset", "ebpDelete"}
    BY <1>4 DEF Receive, SaveAccount, Use, DeleteAccount, IdentityUnlock, EbpSignup,
                EbpReset, EbpDelete
  <2>2. UNCHANGED <<accounts, secrets, cache, pinCache, mailbox>>
    BY DEF Receive, SaveAccount, Use, DeleteAccount, MailUnlock, IdentityUnlock, EbpSignup,
           EbpReset, EbpDelete
  <2> QED  BY <1>1, <1>2, <2>1, <2>2 DEF Begin, Start, Job, Steps
<1> QED  BY <1>3, <1>4

----------------------------------------------------------------------------
(* Type correctness. *)

LEMMA EndShapes ==
    ASSUME req'.pc = "idle"
    PROVE  Shapes'
BY DEF Shapes, InProgress

LEMMA BecomesShapes ==
    ASSUME NEW pc, NEW ids, NEW tries, Becomes(pc, ids, tries),
           pc = "identity" => Op("signup"),
           pc = "try" => tries # <<>> \/ secrets' # NoFile,
           pc \in {"decrypt", "write"} => \E p \in Pins : tries = <<p>>,
           pc = "write" => ids # {},
           Op("ebpDelete") => pc = "write" \/ ids \subseteq Managed
    PROVE  req' \in Jobs /\ Shapes'
<1>1. req' \in Jobs /\ req'.ask \in Asks
  BY DEF Becomes, Jobs, Job
<1>2. req'.ask.op = "signup" => req'.ask.with = Password
  BY <1>1, AskTypes
<1> QED  BY <1>1, <1>2 DEF Becomes, Shapes, At, Op

LEMMA CacheTypes ==
    \A s \in SUBSET Ids : /\ Cached(s) \in [on : BOOLEAN, ids : SUBSET Ids]
                          /\ Cached(s).on /\ Cached(s).ids = s
BY DEF Cached

\* After Save and Got the types are right again.
StepTypes ==
    /\ cache' \in [on : BOOLEAN, ids : SUBSET Ids] /\ (cache'.ids # {} => cache'.on)
    /\ req' \in Jobs
    /\ Shapes'

LEMMA SaveTypes ==
    ASSUME NEW s \in SUBSET Ids, NEW p, SaveMeans(s, p)
    PROVE  StepTypes
<1>1. cache' \in [on : BOOLEAN, ids : SUBSET Ids] /\ (cache'.ids # {} => cache'.on)
  BY CacheTypes DEF SaveMeans
<1>2. CASE Becomes("remove", {}, req.tries)
  BY <1>1, <1>2, BecomesShapes DEF StepTypes
<1>3. CASE Refused
  BY <1>1, <1>3, EndShapes DEF StepTypes, Refused, Ends
<1>4. CASE s # {} /\ p \in Pins /\ Becomes("write", s, <<p>>)
  BY <1>1, <1>4, BecomesShapes DEF StepTypes
<1> QED  BY <1>2, <1>3, <1>4 DEF SaveMeans

LEMMA GotTypes ==
    ASSUME TypeInv, InProgress, NEW s \in SUBSET Ids, NEW p, GotMeans(s, p)
    PROVE  StepTypes
<1>1. req \in Job /\ req.ask \in Asks
  BY JobTypes DEF TypeInv
<1>2. CASE /\ req.ask.op \in {"save", "signup", "reset", "refresh", "ebpDelete"}
           /\ SaveMeans(Changed(s), p)
  <2>1. Changed(s) \in SUBSET Ids
    BY <1>1, <1>2, AskTypes DEF Changed
  <2> QED  BY <1>2, <2>1, SaveTypes
<1>3. CASE req.ask.op = "use" /\ cache' = Cached(s)
  <2>1. cache' \in [on : BOOLEAN, ids : SUBSET Ids] /\ (cache'.ids # {} => cache'.on)
    BY <1>3, CacheTypes
  <2>2. CASE Ends({"ok", "error"})
    BY <2>1, <2>2, EndShapes DEF StepTypes, Ends
  <2>3. CASE req' \in Job /\ req'.pc = "open" /\ req'.ask = [req.ask EXCEPT !.op = "refresh"]
    <3>1. req'.ask.op = "refresh"
      BY <1>1, <2>3 DEF Asks, Asked
    <3> QED  BY <2>1, <2>3, <3>1 DEF StepTypes, Jobs, Shapes, At, Op
  <2> QED  BY <1>3, <2>2, <2>3 DEF GotMeans
<1> QED  BY <1>2, <1>3 DEF GotMeans

LEMMA TypeInvInit == Init => TypeInv
<1> SUFFICES ASSUME Init PROVE TypeInv
  OBVIOUS
<1>1. req.pc = "idle" /\ req \in {Idle(a) : a \in Answers}
  BY DEF Init, Idle, Answers
<1> QED  BY <1>1 DEF Init, TypeInv, TypeOK, Shapes, InProgress, NoCache, NoFile, MaybePin, Courses

LEMMA TypeInvNext == TypeInv /\ [Next]_vars => TypeInv'
<1> SUFFICES ASSUME TypeInv, [Next]_vars PROVE TypeInv'
  OBVIOUS
<1> DEFINE Rest == UNCHANGED <<accounts, secrets, mailbox, typed, opened, stored, course>>
<1>1. /\ TypeOK /\ Shapes /\ cache.ids \in SUBSET Ids /\ pinCache \in MaybePin
      /\ secrets.ids \in SUBSET Ids /\ (secrets # NoFile => secrets.pin \in Pins)
      /\ InProgress => /\ req \in Job /\ req.ask \in Asks /\ req.ids \in SUBSET Ids
                       /\ req.tries \in Seq(Pins)
  BY JobTypes DEF TypeInv, TypeOK, Envelope, NoFile
<1>2. ASSUME UNCHANGED <<accounts, secrets, mailbox>>, pinCache' \in MaybePin, StepTypes,
             UNCHANGED <<typed, opened, stored, course>> \/ (\E file \in {secrets, NoFile} : Sees(file))
      PROVE  TypeInv'
  <2>1. /\ typed' \in SUBSET Pins /\ opened' \in BOOLEAN
        /\ stored' \in SUBSET Ids /\ course' \in Courses
    <3>1. CASE UNCHANGED <<typed, opened, stored, course>>
      BY <1>1, <3>1 DEF TypeOK
    <3>2. CASE \E file \in {secrets, NoFile} : Sees(file)
      BY <1>1, <3>2, SeesDoes
    <3> QED  BY <1>2, <3>1, <3>2
  <2> QED  BY <1>1, <1>2, <2>1 DEF TypeInv, TypeOK, StepTypes, Jobs
<1>3. ASSUME UNCHANGED cache, req' \in Jobs, Shapes'
      PROVE  StepTypes
  BY <1>1, <1>3 DEF StepTypes, TypeOK
<1>4. ASSUME NEW answers, Ends(answers)
      PROVE  req' \in Jobs /\ Shapes'
  BY <1>4, EndShapes DEF Ends
<1>5. CASE UNCHANGED vars
  BY <1>1, <1>5 DEF vars, TypeInv, TypeOK, Shapes, InProgress, At, Op
<1>6. ASSUME NEW ask \in Asked, Receive(ask)
      PROVE  TypeInv'
  <2>1. ask \in Asks
    BY DEF Asks
  <2>2. /\ typed' \in SUBSET Pins /\ opened' \in BOOLEAN
    BY <1>1, <1>6, <2>1, ReceiveDoes, AskTypes DEF TypeOK, MaybePin
  <2>3. stored' \in SUBSET Ids
    BY <1>1, <1>6, ReceiveDoes DEF TypeOK
  <2>4. /\ UNCHANGED <<accounts, secrets, cache, pinCache, mailbox, course>>
        /\ req' \in Job /\ req'.ask = ask /\ req'.ids = {}
        /\ req'.pc \notin {"identity", "decrypt", "write"}
        /\ req'.pc = "try" => req'.tries = <<ask.pin>>
        /\ req'.pc # "status" \/ ask.op # "signup"
    BY <1>6, ReceiveDoes
  <2>5. Shapes'
    BY <2>4 DEF Shapes, At, Op
  <2> QED  BY <1>1, <2>2, <2>3, <2>4, <2>5 DEF TypeInv, TypeOK
<1>7. CASE Post \/ SavedIdentity \/ WriteAccounts
  <2>1. /\ UNCHANGED <<secrets, cache, pinCache, typed, opened, stored, course>>
        /\ mailbox' \in BOOLEAN /\ accounts' \in SUBSET Ids
    BY <1>7, QuietDoes
  <2>2. CASE Ends({"error"})
    BY <1>1, <1>4, <2>1, <2>2 DEF TypeInv, TypeOK, Jobs
  <2>3. CASE \E pc \in {"identity", "prepare", "accounts", "open"}, s \in SUBSET Ids :
                /\ Becomes(pc, s, req.tries)
                /\ s = req.ids \/ (Op("ebpDelete") /\ s \subseteq Managed)
                /\ pc = "identity" => Op("signup")
    <3>1. PICK pc \in {"identity", "prepare", "accounts", "open"}, s \in SUBSET Ids :
                /\ Becomes(pc, s, req.tries)
                /\ s = req.ids \/ (Op("ebpDelete") /\ s \subseteq Managed)
                /\ pc = "identity" => Op("signup")
      BY <2>3
    <3>2. Op("ebpDelete") => s \subseteq Managed
      BY <1>1, <1>7, <3>1, QuietDoes
      DEF Shapes, Post, SavedIdentity, WriteAccounts, At
    <3>3. req' \in Jobs /\ Shapes'
      BY <3>1, <3>2, BecomesShapes
    <3> QED  BY <1>1, <2>1, <3>3 DEF TypeInv, TypeOK, Jobs
  <2> QED  BY <1>7, <2>2, <2>3, QuietDoes
<1>8. CASE Open
  <2>1. Rest /\ pinCache' \in MaybePin /\ InProgress
    BY <1>8, OpenDoes
  <2>2. StepTypes
    <3>1. CASE UNCHANGED cache /\ Ends({"ok"})
      BY <1>3, <1>4, <3>1
    <3>2. CASE SaveMeans(req.ids \ {req.ask.id}, pinCache')
      BY <1>1, <2>1, <3>2, SaveTypes
    <3>3. CASE GotMeans(cache.ids, pinCache')
      BY <1>1, <2>1, <3>3, GotTypes
    <3>4. CASE UNCHANGED cache /\ Becomes("read", req.ids, req.tries)
      <4>1. Op("ebpDelete") => req.ids \subseteq Managed
        BY <1>1, <1>8, <2>1, OpenDoes DEF Shapes, At
      <4> QED  BY <1>3, <3>4, <4>1, BecomesShapes
    <3> QED  BY <1>8, <3>1, <3>2, <3>3, <3>4, OpenDoes
  <2> QED  BY <1>2, <2>1, <2>2
<1>9. CASE Prepare
  <2>1. Rest /\ pinCache' \in MaybePin /\ InProgress /\ req.pc = "prepare"
    BY <1>9, PrepareDoes DEF At
  <2>2. Op("ebpDelete") => req.ids \subseteq Managed
    BY <1>1, <2>1 DEF Shapes, At
  <2>3. StepTypes
    <3>1. CASE UNCHANGED cache /\ Refused
      BY <1>3, <1>4, <3>1 DEF Refused
    <3>2. CASE GotMeans(cache.ids, pinCache')
      BY <1>1, <2>1, <3>2, GotTypes
    <3>3. CASE /\ UNCHANGED cache
               /\ Becomes("status", req.ids, Candidates(req.ask)) \/ Becomes("post", req.ids, req.tries)
      BY <1>3, <2>2, <3>3, BecomesShapes
    <3>4. CASE UNCHANGED cache /\ Op("delete") /\ Becomes("accounts", cache.ids, req.tries)
      BY <1>3, <3>4, BecomesShapes DEF Op
    <3> QED  BY <1>9, <3>1, <3>2, <3>3, <3>4, PrepareDoes
  <2> QED  BY <1>2, <2>1, <2>3
<1>10. CASE StatusNone
  <2>1. /\ UNCHANGED <<accounts, secrets, mailbox>> /\ Sees(NoFile)
        /\ pinCache' \in MaybePin /\ InProgress /\ req.pc = "status" /\ UNCHANGED cache
    BY <1>10, StatusNoneDoes DEF At
  <2>2. Op("ebpDelete") => req.ids \subseteq Managed
    BY <1>1, <2>1 DEF Shapes, At
  <2>3. StepTypes
    <3>1. CASE Refused \/ Ends({"ok"})
      BY <1>3, <1>4, <2>1, <3>1 DEF Refused
    <3>2. CASE \E pc \in {"accounts", "post", "read"} : Becomes(pc, req.ids, req.tries)
      BY <1>3, <2>1, <2>2, <3>2, BecomesShapes
    <3> QED  BY <1>10, <3>1, <3>2, StatusNoneDoes
  <2> QED  BY <1>2, <2>1, <2>3
<1>11. CASE StatusLocked
  <2>1. /\ Rest /\ pinCache' \in MaybePin /\ InProgress /\ UNCHANGED cache
        /\ secrets # NoFile
    BY <1>1, <1>11, StatusLockedDoes
  <2>2. StepTypes
    <3>1. CASE Refused
      BY <1>3, <1>4, <2>1, <3>1 DEF Refused
    <3>2. ASSUME NEW t \in Seq(Pins), Becomes("try", req.ids, t),
                 req.ask.op \in {"signup", "reset", "identityUnlock"}
          PROVE  StepTypes
      BY <1>3, <2>1, <3>2, BecomesShapes DEF Op
    <3> QED  BY <1>11, <3>1, <3>2, StatusLockedDoes
  <2> QED  BY <1>2, <2>1, <2>2
<1>12. CASE Try
  <2>1. UNCHANGED <<accounts, secrets, mailbox>> /\ pinCache' \in MaybePin /\ InProgress
    BY <1>1, <1>12, TryDoes DEF MaybePin
  <2>2. CASE Refused /\ UNCHANGED <<cache, typed, opened, stored, course>>
    BY <1>2, <1>3, <1>4, <2>1, <2>2 DEF Refused
  <2>3. ASSUME NEW file \in {secrets, NoFile}, Sees(file),
               \/ Op("signup") /\ cache' = Cached(file.ids) /\ Becomes("post", req.ids, req.tries)
               \/ Op("reset") /\ GotMeans(file.ids, pinCache')
               \/ cache' = Cached(file.ids) /\ Ends({"ok"})
        PROVE  TypeInv'
    <3>1. file.ids \in SUBSET Ids
      BY <1>1 DEF NoFile
    <3>2. cache' = Cached(file.ids)
             => cache' \in [on : BOOLEAN, ids : SUBSET Ids] /\ (cache'.ids # {} => cache'.on)
      BY <3>1, CacheTypes
    <3>3. CASE cache' = Cached(file.ids) /\ Ends({"ok"})
      BY <1>2, <1>4, <2>1, <2>3, <3>2, <3>3 DEF StepTypes
    <3>4. CASE Op("signup") /\ cache' = Cached(file.ids) /\ Becomes("post", req.ids, req.tries)
      <4>1. ~Op("ebpDelete")
        BY <3>4 DEF Op
      <4>2. req' \in Jobs /\ Shapes'
        BY <3>4, <4>1, BecomesShapes
      <4> QED  BY <1>2, <2>1, <2>3, <3>2, <3>4, <4>2 DEF StepTypes
    <3>5. CASE GotMeans(file.ids, pinCache')
      <4>1. StepTypes
        BY <1>1, <2>1, <3>1, <3>5, GotTypes
      <4> QED  BY <1>2, <2>1, <2>3, <4>1
    <3> QED  BY <2>3, <3>3, <3>4, <3>5
  <2> QED  BY <1>12, <2>2, <2>3, TryDoes
<1>13. CASE Read
  <2>1. UNCHANGED <<accounts, secrets, mailbox>> /\ pinCache' \in MaybePin /\ InProgress /\ req.pc = "read"
    BY <1>1, <1>13, ReadDoes DEF At
  <2>2. UNCHANGED <<typed, opened, stored, course>> \/ Sees(NoFile)
    BY <1>13, ReadDoes
  <2>3. StepTypes
    <3>1. CASE Refused /\ UNCHANGED cache
      BY <1>3, <1>4, <3>1 DEF Refused
    <3>2. CASE GotMeans({}, pinCache)
      BY <1>1, <2>1, <3>2, GotTypes
    <3>3. CASE pinCache \in Pins /\ UNCHANGED cache /\ Becomes("decrypt", req.ids, <<pinCache>>)
      <4>1. Op("ebpDelete") => req.ids \subseteq Managed
        BY <1>1, <2>1 DEF Shapes, At
      <4> QED  BY <1>3, <3>3, <4>1, BecomesShapes
    <3> QED  BY <1>13, <3>1, <3>2, <3>3, ReadDoes
  <2> QED  BY <1>2, <2>1, <2>2, <2>3
<1>14. CASE Decrypt
  <2>1. Rest /\ pinCache' \in MaybePin /\ InProgress
    BY <1>1, <1>14, DecryptDoes
  <2>2. StepTypes
    <3>1. CASE Refused /\ UNCHANGED cache
      BY <1>3, <1>4, <3>1 DEF Refused
    <3>2. CASE GotMeans(secrets.ids, pinCache)
      BY <1>1, <2>1, <3>2, GotTypes
    <3> QED  BY <1>14, <3>1, <3>2, DecryptDoes
  <2> QED  BY <1>2, <2>1, <2>2
<1>15. CASE Write
  BY <1>1, <1>4, <1>15, WriteDoes DEF TypeInv, TypeOK, Jobs
<1>16. CASE RemoveFile
  BY <1>1, <1>4, <1>16, RemoveDoes DEF TypeInv, TypeOK, Jobs
<1>17. CASE Lock
  <2>1. Shapes'
    BY <1>1, <1>17 DEF Lock, Shapes, InProgress, At, Op
  <2>2. TypeOK'
    BY <1>1, <1>17 DEF Lock, TypeOK, NoCache, MaybePin, Courses
  <2> QED  BY <2>1, <2>2 DEF TypeInv
<1>18. CASE Fail \/ Die
  <2>1. req' \in Jobs /\ Shapes'
    BY <1>4, <1>18, BrokenDoes
  <2>2. /\ mailbox' \in BOOLEAN /\ accounts' \in SUBSET Ids
        /\ secrets' \in Envelope \union {NoFile} /\ course' \in Courses
        /\ UNCHANGED <<typed, opened>> /\ stored' \in SUBSET Ids
    BY <1>1, <1>18, BrokenDoes DEF TypeOK, Courses
  <2>3. /\ cache' \in [on : BOOLEAN, ids : SUBSET Ids] /\ (cache'.ids # {} => cache'.on)
        /\ pinCache' \in MaybePin
    <3>1. CASE UNCHANGED <<cache, pinCache>>
      BY <1>1, <3>1 DEF TypeOK
    <3>2. CASE cache' = NoCache /\ pinCache' = NoPin
      BY <3>2 DEF NoCache, MaybePin
    <3> QED  BY <1>18, <3>1, <3>2, BrokenDoes
  <2> QED  BY <1>1, <2>1, <2>2, <2>3 DEF TypeInv, TypeOK, Jobs
<1> QED  BY <1>5, <1>6, <1>7, <1>8, <1>9, <1>10, <1>11, <1>12, <1>13, <1>14, <1>15, <1>16,
            <1>17, <1>18 DEF Next

\* Whatever is asked, locked, cut short or crashes, the accounts, the passwords, the caches
\* and the request in progress keep their shapes: passwords are encrypted under a PIN.
THEOREM TypeCorrect == Spec => []TypeOK
<1> QED  BY TypeInvInit, TypeInvNext, PTL DEF Spec, TypeInv

----------------------------------------------------------------------------
(* Passwords stay in the file. *)

\* What is in the cache, and what a request is about to write, has all that is to stay.
CacheCovers == cache.on => stored \subseteq cache.ids
RequestCovers ==
    InProgress =>
       /\ Drops(req.ask) \cap stored = {}
       /\ At("write") => /\ stored \subseteq req.ids
                         /\ cache.on => req.ids = cache.ids
       /\ At("remove") => stored = {}
       /\ Op("delete") /\ req.pc \in {"accounts", "open"} => stored \subseteq req.ids

StoreInv == TypeInv /\ SecretsStay /\ CacheCovers /\ RequestCovers

LEMMA EndCovers ==
    ASSUME req'.pc = "idle"
    PROVE  RequestCovers'
BY DEF RequestCovers, InProgress

LEMMA BecomesCovers ==
    ASSUME InProgress, RequestCovers, stored' \subseteq stored,
           NEW pc, NEW ids, NEW tries, Becomes(pc, ids, tries), pc \notin {"write", "remove"},
           Op("delete") /\ pc \in {"accounts", "open"} => stored' \subseteq ids
    PROVE  RequestCovers'
BY DEF RequestCovers, Becomes, InProgress, At, Op, Drops

\* A cache that covers the passwords is as good as the file while that is cut short.
LEMMA StaysCovered ==
    ASSUME SecretsStay, UNCHANGED secrets, stored' \subseteq stored, CacheCovers',
           cache.on => cache'.on
    PROVE  SecretsStay'
BY DEF SecretsStay, CacheCovers

LEMMA SaveCovers ==
    ASSUME InProgress, RequestCovers, SecretsStay, UNCHANGED secrets, stored' \subseteq stored,
           NEW s \in SUBSET Ids, NEW p, SaveMeans(s, p), stored' \subseteq s
    PROVE  SecretsStay' /\ CacheCovers' /\ RequestCovers'
<1>1. cache'.ids = s /\ cache'.on /\ CacheCovers'
  BY CacheTypes DEF SaveMeans, CacheCovers
<1>2. SecretsStay'
  BY <1>1, StaysCovered
<1>3. ASSUME s = {}, Becomes("remove", {}, req.tries)
      PROVE  RequestCovers'
  BY <1>1, <1>3 DEF RequestCovers, Becomes, InProgress, At, Op, Drops
<1>4. Refused => RequestCovers'
  BY EndCovers DEF Refused, Ends
<1>5. ASSUME Becomes("write", s, <<p>>)
      PROVE  RequestCovers'
  BY <1>1, <1>5 DEF RequestCovers, Becomes, InProgress, At, Op, Drops
<1> QED  BY <1>1, <1>2, <1>3, <1>4, <1>5 DEF SaveMeans

LEMMA GotCovers ==
    ASSUME TypeInv, InProgress, ~At("write"), RequestCovers, SecretsStay,
           UNCHANGED secrets, stored' \subseteq stored,
           NEW s \in SUBSET Ids, NEW p, GotMeans(s, p), stored' \subseteq s
    PROVE  SecretsStay' /\ CacheCovers' /\ RequestCovers'
<1>1. req \in Job /\ req.ask \in Asks /\ Drops(req.ask) \cap stored = {}
  BY JobTypes DEF TypeInv, RequestCovers
<1>2. CASE /\ req.ask.op \in {"save", "signup", "reset", "refresh", "ebpDelete"}
           /\ SaveMeans(Changed(s), p)
  <2>1. Changed(s) \in SUBSET Ids
    BY <1>1, <1>2, AskTypes DEF Changed
  <2>2. stored' \subseteq Changed(s)
    <3>1. CASE req.ask.op = "ebpDelete"
      BY <1>1, <3>1 DEF Changed, Drops, TypeInv, Shapes, Op
    <3>2. CASE req.ask.op # "ebpDelete"
      BY <1>1, <3>2 DEF Changed, Drops
    <3> QED  BY <3>1, <3>2
  <2> QED  BY <1>2, <2>1, <2>2, SaveCovers
<1>3. CASE req.ask.op = "use" /\ cache' = Cached(s)
  <2>1. CacheCovers' /\ SecretsStay'
    <3>1. CacheCovers' /\ cache'.on
      BY <1>3, CacheTypes DEF CacheCovers
    <3> QED  BY <3>1, StaysCovered
  <2>2. CASE Ends({"ok", "error"})
    BY <2>1, <2>2, EndCovers DEF Ends
  <2>3. CASE req' \in Job /\ req'.pc = "open" /\ req'.ask = [req.ask EXCEPT !.op = "refresh"]
    <3>1. req'.ask \in Asks
      BY <2>3 DEF Job
    <3>2. req'.ask.op = "refresh" /\ req'.ask.keep
      <4>1. req'.ask.op = "refresh"
        BY <1>1, <2>3 DEF Asks, Asked
      <4> QED  BY <3>1, <4>1, AskTypes
    <3> QED  BY <2>1, <2>3, <3>2 DEF RequestCovers, Drops, At, Op
  <2> QED  BY <1>3, <2>2, <2>3 DEF GotMeans
<1> QED  BY <1>2, <1>3 DEF GotMeans

LEMMA StoreInvNext == StoreInv /\ [Next]_vars => StoreInv'
<1> SUFFICES ASSUME StoreInv, [Next]_vars PROVE SecretsStay' /\ CacheCovers' /\ RequestCovers'
  BY TypeInvNext DEF StoreInv
<1>1. /\ TypeInv /\ TypeOK /\ SecretsStay /\ CacheCovers /\ RequestCovers
      /\ cache.ids \in SUBSET Ids /\ secrets.ids \in SUBSET Ids /\ NoFile.ids = {}
      /\ InProgress => req.ids \in SUBSET Ids /\ req.ask \in Asks
      /\ secrets # NoFile => stored \subseteq secrets.ids
  BY JobTypes DEF StoreInv, TypeInv, TypeOK, Envelope, NoFile, SecretsStay
<1>2. ASSUME UNCHANGED <<secrets, cache>>, stored' \subseteq stored
      PROVE  SecretsStay' /\ CacheCovers'
  BY <1>1, <1>2 DEF CacheCovers, SecretsStay
<1>3. ASSUME NEW answers, Ends(answers)
      PROVE  RequestCovers'
  BY <1>3, EndCovers DEF Ends
<1>4. CASE UNCHANGED vars
  BY <1>1, <1>4 DEF vars, SecretsStay, CacheCovers, RequestCovers, InProgress, At, Op, Drops
<1>5. ASSUME NEW ask \in Asked, Receive(ask)
      PROVE  SecretsStay' /\ CacheCovers' /\ RequestCovers'
  <2>1. /\ UNCHANGED <<secrets, cache>> /\ stored' = stored \ Drops(ask)
        /\ req'.ask = ask /\ req'.ids = {}
        /\ req'.pc \in {"accounts", "open", "prepare", "try", "status", "post"}
        /\ req'.pc = "accounts" => ask.op = "save"
        /\ req'.pc = "open" => ask.op = "use"
    BY <1>1, <1>5, ReceiveDoes
  <2>2. RequestCovers'
    BY <2>1 DEF RequestCovers, Drops, At, Op
  <2> QED  BY <1>2, <2>1, <2>2
<1>6. CASE Post \/ SavedIdentity \/ WriteAccounts
  <2>1. UNCHANGED <<secrets, stored, cache>> /\ InProgress
    BY <1>1, <1>6, QuietDoes
  <2>2. ASSUME NEW pc \in {"identity", "prepare", "accounts", "open"}, NEW s,
               Becomes(pc, s, req.tries), s = req.ids \/ Op("ebpDelete"),
               Op("delete") => pc = "open" /\ req.pc = "accounts"
        PROVE  RequestCovers'
    <3>1. Op("delete") => stored' \subseteq s
      BY <1>1, <2>1, <2>2 DEF RequestCovers, Op
    <3> QED  BY <1>1, <2>1, <2>2, <3>1, BecomesCovers
  <2> QED  BY <1>1, <1>2, <1>3, <1>6, <2>1, <2>2, QuietDoes
<1>7. CASE Open
  <2>1. UNCHANGED <<secrets, stored>> /\ InProgress /\ req.pc = "open"
    BY <1>1, <1>7, OpenDoes DEF At
  <2>2. CASE UNCHANGED cache /\ Ends({"ok"})
    BY <1>2, <1>3, <2>1, <2>2
  <2>3. CASE Op("delete") /\ SaveMeans(req.ids \ {req.ask.id}, pinCache')
    <3>1. stored' \subseteq req.ids \ {req.ask.id}
      BY <1>1, <2>1, <2>3 DEF RequestCovers, Drops, Op
    <3> QED  BY <1>1, <2>1, <2>3, <3>1, SaveCovers
  <2>4. CASE cache.on /\ GotMeans(cache.ids, pinCache')
    BY <1>1, <2>1, <2>4, GotCovers DEF CacheCovers, At
  <2>5. CASE ~Op("delete") /\ UNCHANGED cache /\ Becomes("read", req.ids, req.tries)
    BY <1>1, <1>2, <2>1, <2>5, BecomesCovers
  <2> QED  BY <1>1, <1>7, <2>2, <2>3, <2>4, <2>5, OpenDoes
<1>8. CASE Prepare
  <2>1. UNCHANGED <<secrets, stored>> /\ InProgress /\ req.pc = "prepare"
    BY <1>1, <1>8, PrepareDoes DEF At
  <2>2. CASE UNCHANGED cache /\ Refused
    BY <1>2, <1>3, <2>1, <2>2 DEF Refused
  <2>3. CASE cache.on /\ GotMeans(cache.ids, pinCache')
    BY <1>1, <2>1, <2>3, GotCovers DEF CacheCovers, At
  <2>4. CASE /\ UNCHANGED cache
             /\ Becomes("status", req.ids, Candidates(req.ask)) \/ Becomes("post", req.ids, req.tries)
    BY <1>1, <1>2, <2>1, <2>4, BecomesCovers
  <2>5. CASE UNCHANGED cache /\ cache.on /\ Becomes("accounts", cache.ids, req.tries)
    BY <1>1, <1>2, <2>1, <2>5, BecomesCovers DEF CacheCovers
  <2> QED  BY <1>1, <1>8, <2>2, <2>3, <2>4, <2>5, PrepareDoes
<1>9. CASE StatusNone
  <2>1. UNCHANGED <<secrets, cache>> /\ InProgress /\ stored' = {}
    BY <1>1, <1>9, StatusNoneDoes, SeesDoes
  <2>2. CASE Refused \/ Ends({"ok"})
    BY <1>2, <1>3, <2>1, <2>2 DEF Refused
  <2>3. CASE \E pc \in {"accounts", "post", "read"} : Becomes(pc, req.ids, req.tries)
    BY <1>1, <1>2, <2>1, <2>3, BecomesCovers
  <2> QED  BY <1>1, <1>9, <2>2, <2>3, StatusNoneDoes
<1>10. CASE StatusLocked
  <2>1. UNCHANGED <<secrets, stored, cache>> /\ InProgress
    BY <1>1, <1>10, StatusLockedDoes
  <2>2. CASE Refused
    BY <1>2, <1>3, <2>1, <2>2 DEF Refused
  <2>3. CASE \E t : Becomes("try", req.ids, t)
    BY <1>1, <1>2, <2>1, <2>3, BecomesCovers
  <2> QED  BY <1>1, <1>10, <2>2, <2>3, StatusLockedDoes
<1>11. CASE Try
  <2>1. UNCHANGED secrets /\ InProgress /\ ~At("write")
    BY <1>1, <1>11, TryDoes DEF At
  <2>2. CASE Refused /\ UNCHANGED <<cache, stored>>
    BY <1>2, <1>3, <2>1, <2>2 DEF Refused
  <2>3. ASSUME NEW file \in {secrets, NoFile}, Sees(file),
               \/ cache' = Cached(file.ids) /\ Becomes("post", req.ids, req.tries)
               \/ GotMeans(file.ids, pinCache')
               \/ cache' = Cached(file.ids) /\ Ends({"ok"})
        PROVE  SecretsStay' /\ CacheCovers' /\ RequestCovers'
    <3>1. /\ file.ids \in SUBSET Ids /\ stored' \subseteq stored
          /\ stored' \subseteq file.ids
      BY <1>1, <2>3, SeesDoes
    <3>2. CASE cache' = Cached(file.ids)
      <4>1. cache'.on /\ CacheCovers'
        BY <3>1, <3>2, CacheTypes DEF CacheCovers
      <4>2. SecretsStay'
        BY <1>1, <2>1, <3>1, <4>1, StaysCovered
      <4>3. CASE Ends({"ok"})
        BY <1>3, <4>1, <4>2, <4>3
      <4>4. CASE Becomes("post", req.ids, req.tries)
        BY <1>1, <2>1, <3>1, <4>1, <4>2, <4>4, BecomesCovers
      <4>5. CASE GotMeans(file.ids, pinCache')
        BY <1>1, <2>1, <3>1, <4>5, GotCovers
      <4> QED  BY <2>3, <4>3, <4>4, <4>5
    <3>3. CASE GotMeans(file.ids, pinCache')
      BY <1>1, <2>1, <3>1, <3>3, GotCovers
    <3> QED  BY <2>3, <3>2, <3>3
  <2> QED  BY <1>1, <1>11, <2>2, <2>3, TryDoes
<1>12. CASE Read
  <2>1. UNCHANGED secrets /\ InProgress /\ ~At("write")
    BY <1>1, <1>12, ReadDoes DEF At
  <2>2. CASE Refused /\ UNCHANGED <<cache, stored>>
    BY <1>2, <1>3, <2>1, <2>2 DEF Refused
  <2>3. CASE Sees(NoFile) /\ GotMeans({}, pinCache)
    <3>1. stored' = {}
      BY <1>1, <2>3, SeesDoes
    <3> QED  BY <1>1, <2>1, <2>3, <3>1, GotCovers
  <2>4. CASE UNCHANGED <<cache, stored>> /\ Becomes("decrypt", req.ids, <<pinCache>>)
    BY <1>1, <1>2, <2>1, <2>4, BecomesCovers
  <2> QED  BY <1>1, <1>12, <2>2, <2>3, <2>4, ReadDoes
<1>13. CASE Decrypt
  <2>1. UNCHANGED <<secrets, stored>> /\ InProgress /\ ~At("write")
    BY <1>1, <1>13, DecryptDoes DEF At
  <2>2. CASE Refused /\ UNCHANGED cache
    BY <1>2, <1>3, <2>1, <2>2 DEF Refused
  <2>3. CASE secrets # NoFile /\ GotMeans(secrets.ids, pinCache)
    BY <1>1, <2>1, <2>3, GotCovers
  <2> QED  BY <1>1, <1>13, <2>2, <2>3, DecryptDoes
<1>14. CASE Write
  <2>1. /\ secrets'.ids = req.ids /\ stored' = stored \union req.ids /\ UNCHANGED cache
        /\ Ends({"ok"}) /\ InProgress /\ At("write")
    BY <1>1, <1>14, WriteDoes
  <2>2. stored' = req.ids /\ (cache.on => req.ids = cache.ids)
    BY <1>1, <2>1 DEF RequestCovers
  <2> QED  BY <1>3, <2>1, <2>2 DEF SecretsStay, CacheCovers
<1>15. CASE RemoveFile
  <2>1. UNCHANGED stored /\ Ends({"ok"}) /\ InProgress /\ At("remove")
    BY <1>15, RemoveDoes
  <2>2. stored' = {}
    BY <1>1, <2>1 DEF RequestCovers
  <2> QED  BY <1>3, <2>1, <2>2 DEF SecretsStay, CacheCovers
<1>16. CASE Lock
  <2>1. /\ UNCHANGED <<secrets, req>> /\ ~cache'.on /\ stored' \subseteq stored
        /\ secrets = NoFile => stored' = {}
    BY <1>16 DEF Lock, NoCache
  <2>2. SecretsStay' /\ CacheCovers'
    BY <1>1, <2>1 DEF SecretsStay, CacheCovers
  <2>3. RequestCovers'
    BY <1>1, <2>1 DEF RequestCovers, InProgress, At, Op, Drops
  <2> QED  BY <2>2, <2>3
<1>17. CASE Fail \/ Die
  <2>1. /\ Ends(Answers)
        /\ secrets' = secrets \/ secrets' = NoFile
        /\ stored' = IF secrets' = NoFile /\ ~cache'.on THEN {} ELSE stored
        /\ UNCHANGED cache \/ cache' = NoCache
    BY <1>1, <1>17, BrokenDoes
  <2>2. CacheCovers'
    BY <1>1, <2>1 DEF CacheCovers, NoCache
  <2>3. SecretsStay'
    BY <1>1, <2>1, <2>2 DEF SecretsStay, CacheCovers
  <2> QED  BY <1>3, <2>1, <2>2, <2>3
<1> QED  BY <1>4, <1>5, <1>6, <1>7, <1>8, <1>9, <1>10, <1>11, <1>12, <1>13, <1>14, <1>15,
            <1>16, <1>17 DEF Next

LEMMA StoreInvInit == Init => StoreInv
BY TypeInvInit
DEF Init, StoreInv, SecretsStay, CacheCovers, RequestCovers, InProgress, NoCache, Idle

\* A password that was written stays in the file, or in the cache once a write has cut the
\* file short, until it is to be removed or is lost in one of the ways that SecretsStay
\* names: no other request overwrites it, whatever locks, wrong PINs, failed writes and
\* crashes come in between (mail-account.ts:299-318, 362-376).
THEOREM PasswordsStay == Spec => []SecretsStay
<1>1. StoreInv => SecretsStay
  BY DEF StoreInv
<1> QED  BY <1>1, StoreInvInit, StoreInvNext, PTL DEF Spec

----------------------------------------------------------------------------
(* PINs. *)

\* With a file there is no store in the cache without its PIN, or one that was typed.
PinHeld ==
    secrets # NoFile => /\ pinCache \in typed \union {secrets.pin, NoPin}
                        /\ cache.on => pinCache # NoPin

\* A request uses the PIN that is in the cache.
RequestPins ==
    InProgress =>
       /\ req.ask.pin \in typed \union {NoPin}
       /\ req.pc \in {"write", "decrypt"} => req.tries = <<pinCache>>
       /\ Op("delete") => cache.on \/ req.ids = {}

PinInv == TypeInv /\ (Undisturbed => PinHeld /\ RequestPins)

LEMMA EndPins ==
    ASSUME req'.pc = "idle"
    PROVE  RequestPins'
BY DEF RequestPins, InProgress

LEMMA BecomesPins ==
    ASSUME InProgress, RequestPins, UNCHANGED typed, cache.on => cache'.on,
           NEW pc, NEW ids, NEW tries, Becomes(pc, ids, tries),
           pc \in {"write", "decrypt"} => tries = <<pinCache'>>,
           Op("delete") => cache'.on \/ ids \subseteq req.ids
    PROVE  RequestPins'
<1>1. Op("delete") => cache'.on \/ ids = {}
  BY DEF RequestPins
<1> QED  BY <1>1 DEF RequestPins, Becomes, InProgress, Op

LEMMA SavePins ==
    ASSUME InProgress, RequestPins, UNCHANGED typed, NEW s \in SUBSET Ids, SaveMeans(s, pinCache')
    PROVE  RequestPins'
<1>1. cache'.on
  BY CacheTypes DEF SaveMeans
<1>2. CASE Becomes("remove", {}, req.tries)
  BY <1>1, <1>2, BecomesPins
<1>3. CASE Refused
  BY <1>3, EndPins DEF Refused, Ends
<1>4. CASE Becomes("write", s, <<pinCache'>>)
  BY <1>1, <1>4, BecomesPins
<1> QED  BY <1>2, <1>3, <1>4 DEF SaveMeans

LEMMA GotPins ==
    ASSUME TypeInv, InProgress, RequestPins, UNCHANGED typed, NEW s \in SUBSET Ids,
           GotMeans(s, pinCache')
    PROVE  RequestPins'
<1>1. req \in Job /\ req.ask \in Asks
  BY JobTypes DEF TypeInv
<1>2. CASE /\ req.ask.op \in {"save", "signup", "reset", "refresh", "ebpDelete"}
           /\ SaveMeans(Changed(s), pinCache')
  <2>1. Changed(s) \in SUBSET Ids
    BY <1>1, <1>2, AskTypes DEF Changed
  <2> QED  BY <1>2, <2>1, SavePins
<1>3. CASE Ends({"ok", "error"})
  BY <1>3, EndPins DEF Ends
<1>4. CASE req' \in Job /\ req'.pc = "open" /\ req'.ask = [req.ask EXCEPT !.op = "refresh"]
  <2>1. req'.ask.pin = req.ask.pin /\ req'.ask.op = "refresh"
    BY <1>1, <1>4 DEF Asks, Asked
  <2> QED  BY <1>4, <2>1 DEF RequestPins, InProgress, Op
<1> QED  BY <1>2, <1>3, <1>4 DEF GotMeans

LEMMA PinInvNext == PinInv /\ [Next]_vars => PinInv'
<1> SUFFICES ASSUME PinInv, [Next]_vars, Undisturbed'
             PROVE  PinHeld' /\ RequestPins'
  BY TypeInvNext DEF PinInv
<1>1. /\ TypeInv /\ NoPin \notin Pins /\ (secrets # NoFile => secrets.pin \in Pins)
      /\ cache.ids \in SUBSET Ids /\ secrets.ids \in SUBSET Ids /\ pinCache \in MaybePin
      /\ InProgress => req.ids \in SUBSET Ids /\ req.ask \in Asks
  BY PinsAssumption, JobTypes DEF PinInv, TypeInv, TypeOK, Envelope, NoFile
<1>2. ASSUME UNCHANGED course
      PROVE  PinHeld /\ RequestPins
  BY <1>2 DEF PinInv, Undisturbed
<1>3. ASSUME NEW answers, Ends(answers)
      PROVE  RequestPins'
  BY <1>3, EndPins DEF Ends
<1>4. ASSUME PinHeld, UNCHANGED <<secrets, pinCache, typed, cache>>
      PROVE  PinHeld'
  BY <1>4 DEF PinHeld
<1>5. CASE UNCHANGED vars
  BY <1>2, <1>5 DEF vars, PinHeld, RequestPins, InProgress, Op
<1>6. ASSUME NEW ask \in Asked, Receive(ask)
      PROVE  PinHeld' /\ RequestPins'
  <2>1. /\ UNCHANGED <<secrets, cache, pinCache, course>> /\ req'.ask = ask /\ req'.ids = {}
        /\ typed' = typed \union ({ask.pin} \ {NoPin})
        /\ req'.pc \in {"accounts", "open", "prepare", "try", "status", "post"}
    BY <1>1, <1>6, ReceiveDoes DEF Undisturbed
  <2>2. PinHeld'
    BY <1>2, <2>1 DEF PinHeld
  <2>3. RequestPins'
    BY <2>1 DEF RequestPins
  <2> QED  BY <2>2, <2>3
<1>7. CASE Post \/ SavedIdentity \/ WriteAccounts
  <2>1. UNCHANGED <<secrets, cache, pinCache, typed, course>> /\ InProgress
    BY <1>1, <1>7, QuietDoes
  <2>2. ASSUME NEW pc \in {"identity", "prepare", "accounts", "open"}, NEW s,
               Becomes(pc, s, req.tries), s = req.ids \/ Op("ebpDelete")
        PROVE  RequestPins'
    <3>1. Op("delete") => s \subseteq req.ids
      BY <2>2 DEF Op
    <3> QED  BY <1>2, <2>1, <2>2, <3>1, BecomesPins
  <2> QED  BY <1>1, <1>2, <1>3, <1>4, <1>7, <2>1, <2>2, QuietDoes
<1>8. CASE Open
  <2>1. /\ UNCHANGED <<secrets, typed, course>> /\ InProgress
        /\ pinCache' = pinCache \/ (pinCache' = req.ask.pin /\ pinCache' \in Pins)
    BY <1>1, <1>8, OpenDoes
  <2>2. /\ PinHeld /\ RequestPins
        /\ secrets # NoFile => pinCache' \in typed \union {secrets.pin, NoPin}
        /\ secrets # NoFile /\ cache.on => pinCache' # NoPin
    BY <1>1, <1>2, <2>1 DEF PinHeld, RequestPins
  <2>3. ASSUME cache'.on => cache.on
        PROVE  PinHeld'
    BY <2>1, <2>2, <2>3 DEF PinHeld
  <2>4. CASE UNCHANGED cache /\ (Ends({"ok"}) \/ Becomes("read", req.ids, req.tries))
    BY <1>3, <2>1, <2>2, <2>3, <2>4, BecomesPins
  <2>5. CASE cache.on /\ GotMeans(cache.ids, pinCache')
    BY <1>1, <2>1, <2>2, <2>3, <2>5, GotPins
  <2>6. CASE Op("delete") /\ req.ask.id \in req.ids /\ SaveMeans(req.ids \ {req.ask.id}, pinCache')
    <3>1. cache.on
      BY <2>1, <2>2, <2>6 DEF RequestPins
    <3> QED  BY <1>1, <2>1, <2>2, <2>3, <2>6, <3>1, SavePins
  <2> QED  BY <1>1, <1>8, <2>4, <2>5, <2>6, OpenDoes
<1>9. CASE Prepare
  <2>1. UNCHANGED <<secrets, typed, course>> /\ InProgress /\ (pinCache # NoPin => pinCache' = pinCache)
    BY <1>1, <1>9, PrepareDoes
  <2>2. PinHeld /\ RequestPins
    BY <1>2, <2>1
  <2>3. ASSUME cache.on \/ UNCHANGED <<cache, pinCache>>
        PROVE  PinHeld'
    BY <2>1, <2>2, <2>3 DEF PinHeld
  <2>4. CASE Becomes("status", req.ids, Candidates(req.ask)) /\ UNCHANGED <<cache, pinCache>>
    BY <2>1, <2>2, <2>3, <2>4, BecomesPins
  <2>5. CASE cache.on /\ UNCHANGED cache /\ Becomes("accounts", cache.ids, req.tries)
    BY <2>1, <2>2, <2>3, <2>5, BecomesPins
  <2>6. CASE cache.on /\ UNCHANGED cache /\ Becomes("post", req.ids, req.tries)
    BY <2>1, <2>2, <2>3, <2>6, BecomesPins
  <2>7. CASE Refused /\ UNCHANGED <<cache, pinCache>>
    BY <1>3, <2>1, <2>2, <2>3, <2>7 DEF Refused
  <2>8. CASE cache.on /\ GotMeans(cache.ids, pinCache')
    BY <1>1, <2>1, <2>2, <2>3, <2>8, GotPins
  <2> QED  BY <1>1, <1>9, <2>4, <2>5, <2>6, <2>7, <2>8, PrepareDoes
<1>10. CASE StatusNone
  <2>1. UNCHANGED <<secrets, typed, course, cache>> /\ InProgress /\ secrets = NoFile
    BY <1>1, <1>10, StatusNoneDoes, SeesDoes DEF TypeInv
  <2>2. PinHeld'
    BY <2>1 DEF PinHeld
  <2>3. CASE \E pc \in {"accounts", "post", "read"} : Becomes(pc, req.ids, req.tries)
    BY <1>2, <2>1, <2>2, <2>3, BecomesPins
  <2>4. CASE Refused \/ Ends({"ok"})
    BY <1>3, <2>2, <2>4 DEF Refused
  <2> QED  BY <1>1, <1>10, <2>3, <2>4, StatusNoneDoes
<1>11. CASE StatusLocked
  <2>1. UNCHANGED <<secrets, typed, course, cache, pinCache>> /\ InProgress
    BY <1>1, <1>11, StatusLockedDoes
  <2>2. CASE \E t : Becomes("try", req.ids, t)
    BY <1>2, <1>4, <2>1, <2>2, BecomesPins
  <2> QED  BY <1>1, <1>2, <1>3, <1>4, <1>11, <2>1, <2>2, StatusLockedDoes DEF Refused
<1>12. CASE Try
  <2>1. UNCHANGED secrets /\ InProgress
    BY <1>1, <1>12, TryDoes
  <2>2. CASE Refused /\ UNCHANGED <<cache, pinCache, typed, course>>
    BY <1>2, <1>3, <1>4, <2>1, <2>2 DEF Refused
  <2>3. ASSUME NEW file \in {secrets, NoFile}, Sees(file),
               pinCache' \in Pins, file # NoFile => pinCache' = file.pin,
               \/ Op("signup") /\ cache' = Cached(file.ids) /\ Becomes("post", req.ids, req.tries)
               \/ GotMeans(file.ids, pinCache')
               \/ Ends({"ok"})
        PROVE  PinHeld' /\ RequestPins'
    <3>1. file = secrets /\ UNCHANGED <<typed, course>>
      BY <1>1, <2>3, SeesDoes DEF TypeInv
    <3>2. PinHeld'
      BY <1>1, <2>1, <2>3, <3>1 DEF PinHeld
    <3>3. CASE Op("signup") /\ cache' = Cached(file.ids) /\ Becomes("post", req.ids, req.tries)
      BY <1>1, <1>2, <2>1, <3>1, <3>2, <3>3, CacheTypes, BecomesPins
    <3>4. CASE GotMeans(file.ids, pinCache')
      BY <1>1, <1>2, <2>1, <3>1, <3>2, <3>4, GotPins
    <3> QED  BY <1>3, <2>3, <3>2, <3>3, <3>4
  <2> QED  BY <1>1, <1>12, <2>2, <2>3, TryDoes
<1>13. CASE Read
  <2>1. UNCHANGED <<secrets, pinCache>> /\ InProgress
    BY <1>1, <1>13, ReadDoes
  <2>2. CASE Refused /\ UNCHANGED <<cache, typed, course>>
    BY <1>2, <1>3, <1>4, <2>1, <2>2 DEF Refused
  <2>3. CASE Sees(NoFile) /\ GotMeans({}, pinCache)
    <3>1. secrets = NoFile /\ UNCHANGED <<typed, course>>
      BY <1>1, <2>3, SeesDoes DEF TypeInv
    <3>2. RequestPins'
      BY <1>1, <1>2, <2>1, <2>3, <3>1, GotPins
    <3> QED  BY <2>1, <3>1, <3>2 DEF PinHeld
  <2>4. CASE UNCHANGED <<cache, typed, course>> /\ Becomes("decrypt", req.ids, <<pinCache>>)
    BY <1>2, <1>4, <2>1, <2>4, BecomesPins
  <2> QED  BY <1>1, <1>13, <2>2, <2>3, <2>4, ReadDoes
<1>14. CASE Decrypt
  <2>1. UNCHANGED <<secrets, typed, course, pinCache>> /\ InProgress /\ At("decrypt")
    BY <1>1, <1>14, DecryptDoes
  <2>2. CASE Refused /\ UNCHANGED cache
    BY <1>2, <1>3, <1>4, <2>1, <2>2 DEF Refused
  <2>3. CASE secrets # NoFile /\ req.tries = <<secrets.pin>> /\ GotMeans(secrets.ids, pinCache)
    <3>1. req.tries = <<pinCache>>
      BY <1>2, <2>1 DEF RequestPins, At
    <3>2. pinCache = secrets.pin
      BY <2>3, <3>1
    <3>3. PinHeld'
      BY <1>1, <2>1, <2>3, <3>2 DEF PinHeld
    <3> QED  BY <1>1, <1>2, <2>1, <2>3, <3>3, GotPins
  <2> QED  BY <1>1, <1>14, <2>2, <2>3, DecryptDoes
<1>15. CASE Write
  <2>1. /\ UNCHANGED <<typed, course, cache, pinCache>> /\ InProgress /\ At("write") /\ Ends({"ok"})
        /\ \E p \in Pins : req.tries = <<p>> /\ secrets' = [pin |-> p, ids |-> req.ids]
    BY <1>1, <1>15, WriteDoes
  <2>2. req.tries = <<pinCache>>
    BY <1>2, <2>1 DEF RequestPins, At
  <2>3. secrets'.pin = pinCache /\ pinCache \in Pins
    BY <2>1, <2>2
  <2> QED  BY <1>1, <1>3, <2>1, <2>3 DEF PinHeld
<1>16. CASE RemoveFile
  BY <1>3, <1>16, RemoveDoes DEF PinHeld
<1>17. CASE Lock
  <2>1. At("idle") /\ UNCHANGED req
    BY <1>17 DEF Lock, Undisturbed
  <2> QED  BY <1>17, <2>1 DEF Lock, NoCache, PinHeld, RequestPins, InProgress, At
<1>18. CASE Fail \/ Die
  <2>1. /\ Ends(Answers) /\ UNCHANGED typed
        /\ secrets' = secrets \/ secrets' = NoFile
        /\ UNCHANGED <<cache, pinCache>> \/ (cache' = NoCache /\ pinCache' = NoPin)
        /\ Undisturbed
    BY <1>1, <1>18, BrokenDoes DEF Undisturbed
  <2>2. PinHeld
    BY <2>1 DEF PinInv
  <2>3. PinHeld'
    BY <2>1, <2>2 DEF PinHeld, NoCache
  <2> QED  BY <1>3, <2>1, <2>3
<1> QED  BY <1>5, <1>6, <1>7, <1>8, <1>9, <1>10, <1>11, <1>12, <1>13, <1>14, <1>15, <1>16,
            <1>17, <1>18 DEF Next

LEMMA PinInvInit == Init => PinInv
BY TypeInvInit DEF Init, PinInv, PinHeld, RequestPins, InProgress, Idle

\* What a step does to the file: only Write replaces it.
LEMMA FileDoes ==
    ASSUME TypeInv, [Next]_vars
    PROVE  secrets' = secrets \/ secrets' = NoFile \/ Write
BY BrokenDoes
DEF Next, vars, Receive, SaveAccount, Use, DeleteAccount, MailUnlock, IdentityUnlock,
    EbpSignup, EbpReset, EbpDelete, Post, SavedIdentity, WriteAccounts, Open, Prepare,
    StatusNone, StatusLocked, Try, TryOne, Read, Decrypt, RemoveFile, Lock

\* Unless a lock came during a request, or a read failed, the file gets another PIN only
\* when a user typed it: no sign-up and no reset puts the identity's password in its place
\* (routes.ts:4562-4576 and 415-435).
THEOREM PinIsTyped == Spec => PinStays
<1>1. PinInv /\ [Next]_vars
         => [Undisturbed /\ secrets # NoFile /\ secrets' # NoFile
                => secrets'.pin \in typed \union {secrets.pin}]_vars
  <2> SUFFICES ASSUME PinInv, Next, Undisturbed, secrets # NoFile, secrets' # NoFile
               PROVE  secrets'.pin \in typed \union {secrets.pin}
    OBVIOUS
  <2>1. TypeInv /\ PinHeld /\ RequestPins /\ NoPin \notin Pins
    BY PinsAssumption DEF PinInv
  <2>2. CASE Write
    <3>1. /\ InProgress /\ At("write")
          /\ \E p \in Pins : req.tries = <<p>> /\ secrets' = [pin |-> p, ids |-> req.ids]
      BY <2>1, <2>2, WriteDoes
    <3>2. req.tries = <<pinCache>>
      BY <2>1, <3>1 DEF RequestPins, At
    <3>3. secrets'.pin = pinCache /\ pinCache \in Pins
      BY <3>1, <3>2
    <3> QED  BY <2>1, <3>3 DEF PinHeld
  <2> QED  BY <2>1, <2>2, FileDoes
<1> QED  BY <1>1, PinInvInit, PinInvNext, PTL DEF Spec, PinStays

----------------------------------------------------------------------------
(* Locks. *)

\* No PIN and no password came since the last lock, and none came during a request.
Asleep == Undisturbed /\ ~opened

RequestAsleep ==
    InProgress =>
       /\ req.ask.pin = NoPin /\ req.ask.with = NoPin
       /\ req.pc \in {"status", "try"} => req.tries = <<>>
       /\ At("try") => secrets # NoFile

OpenInv == PinInv /\ (Asleep => pinCache = NoPin /\ RequestAsleep)

LEMMA EndAsleep ==
    ASSUME req'.pc = "idle"
    PROVE  RequestAsleep'
BY DEF RequestAsleep, InProgress

LEMMA BecomesAsleep ==
    ASSUME InProgress, RequestAsleep, NEW pc, NEW ids, NEW tries, Becomes(pc, ids, tries),
           pc \in {"status", "try"} => tries = <<>>,
           pc = "try" => secrets' # NoFile
    PROVE  RequestAsleep'
BY DEF RequestAsleep, Becomes, InProgress, At

LEMMA SaveAsleep ==
    ASSUME InProgress, RequestAsleep, NEW s, NEW p, SaveMeans(s, p)
    PROVE  RequestAsleep'
BY EndAsleep, BecomesAsleep DEF SaveMeans, Refused, Ends

LEMMA GotAsleep ==
    ASSUME TypeInv, InProgress, RequestAsleep, NEW s, NEW p, GotMeans(s, p)
    PROVE  RequestAsleep'
<1>1. req \in Job /\ req.ask \in Asks
  BY JobTypes DEF TypeInv
<1>2. CASE SaveMeans(Changed(s), p)
  BY <1>2, SaveAsleep
<1>3. CASE Ends({"ok", "error"})
  BY <1>3, EndAsleep DEF Ends
<1>4. CASE req' \in Job /\ req'.pc = "open" /\ req'.ask = [req.ask EXCEPT !.op = "refresh"]
  <2>1. req'.ask.pin = req.ask.pin /\ req'.ask.with = req.ask.with
    BY <1>1, <1>4 DEF Asks, Asked
  <2> QED  BY <1>4, <2>1 DEF RequestAsleep, InProgress, At
<1> QED  BY <1>2, <1>3, <1>4 DEF GotMeans

LEMMA OpenInvNext == OpenInv /\ [Next]_vars => OpenInv'
<1> SUFFICES ASSUME OpenInv, [Next]_vars, Asleep'
             PROVE  pinCache' = NoPin /\ RequestAsleep'
  BY PinInvNext DEF OpenInv
<1>1. /\ TypeInv /\ NoPin \notin Pins /\ Password # NoPin /\ pinCache \in MaybePin
      /\ InProgress => req.ask \in Asks
  BY PinsAssumption, JobTypes DEF OpenInv, PinInv, TypeInv, TypeOK
<1>2. ASSUME UNCHANGED <<opened, course>>
      PROVE  pinCache = NoPin /\ RequestAsleep
  BY <1>2 DEF OpenInv, Asleep, Undisturbed
<1>3. ASSUME NEW answers, Ends(answers)
      PROVE  RequestAsleep'
  BY <1>3, EndAsleep DEF Ends
<1>4. CASE UNCHANGED vars
  BY <1>2, <1>4 DEF vars, RequestAsleep, InProgress, At
<1>5. ASSUME NEW ask \in Asked, Receive(ask)
      PROVE  pinCache' = NoPin /\ RequestAsleep'
  <2>1. /\ opened' = (opened \/ ask.pin # NoPin \/ ask.with # NoPin)
        /\ UNCHANGED <<course, pinCache>> /\ req'.ask = ask
    BY <1>1, <1>5, ReceiveDoes
  <2>2. ask.pin = NoPin /\ ask.with = NoPin /\ Asleep
    BY <2>1 DEF Asleep, Undisturbed
  <2>3. req'.pc # "try" /\ req'.tries = <<>>
    BY <1>1, <1>5, <2>2, ReceiveDoes
  <2> QED  BY <2>1, <2>2, <2>3 DEF OpenInv, RequestAsleep, At
<1>6. CASE Post \/ SavedIdentity \/ WriteAccounts
  <2>1. UNCHANGED <<pinCache, opened, course>> /\ InProgress
    BY <1>1, <1>6, QuietDoes
  <2>2. ASSUME NEW pc \in {"identity", "prepare", "accounts", "open"}, NEW s,
               Becomes(pc, s, req.tries)
        PROVE  RequestAsleep'
    BY <1>2, <2>1, <2>2, BecomesAsleep
  <2> QED  BY <1>1, <1>2, <1>3, <1>6, <2>1, <2>2, QuietDoes
<1>7. CASE Open
  <2>1. /\ UNCHANGED <<opened, course>> /\ InProgress
        /\ pinCache' = pinCache \/ (pinCache' = req.ask.pin /\ pinCache' \in Pins)
    BY <1>1, <1>7, OpenDoes
  <2>2. pinCache' = NoPin /\ RequestAsleep
    BY <1>1, <1>2, <2>1 DEF RequestAsleep
  <2>3. CASE Ends({"ok"}) \/ Becomes("read", req.ids, req.tries)
    BY <1>3, <2>1, <2>2, <2>3, BecomesAsleep
  <2>4. CASE GotMeans(cache.ids, pinCache')
    BY <1>1, <2>1, <2>2, <2>4, GotAsleep
  <2>5. CASE SaveMeans(req.ids \ {req.ask.id}, pinCache')
    BY <2>1, <2>2, <2>5, SaveAsleep
  <2> QED  BY <1>1, <1>7, <2>2, <2>3, <2>4, <2>5, OpenDoes
<1>8. CASE Prepare
  <2>1. /\ UNCHANGED <<opened, course>> /\ InProgress
        /\ Candidates(req.ask) = <<>> => pinCache' = pinCache
    BY <1>1, <1>8, PrepareDoes
  <2>2. RequestAsleep /\ pinCache = NoPin
    BY <1>2, <2>1
  <2>3. Candidates(req.ask) = <<>> /\ pinCache' = NoPin
    BY <1>1, <2>1, <2>2, CandidatesType DEF RequestAsleep
  <2>4. CASE Becomes("status", req.ids, Candidates(req.ask))
    BY <2>1, <2>2, <2>3, <2>4, BecomesAsleep
  <2>5. CASE Becomes("accounts", cache.ids, req.tries) \/ Becomes("post", req.ids, req.tries)
    BY <2>1, <2>2, <2>3, <2>5, BecomesAsleep
  <2>6. CASE Refused
    BY <1>3, <2>3, <2>6 DEF Refused
  <2>7. CASE GotMeans(cache.ids, pinCache')
    BY <1>1, <2>1, <2>2, <2>3, <2>7, GotAsleep
  <2> QED  BY <1>1, <1>8, <2>4, <2>5, <2>6, <2>7, PrepareDoes
<1>9. CASE StatusNone
  <2>1. UNCHANGED <<opened, course>> /\ InProgress /\ At("status")
    BY <1>1, <1>9, StatusNoneDoes, SeesDoes DEF TypeInv, Asleep
  <2>2. RequestAsleep /\ pinCache = NoPin /\ req.tries = <<>>
    BY <1>2, <2>1 DEF RequestAsleep, At
  <2>3. ~Op("signup")
    BY <1>1, <2>1, <2>2, AskTypes DEF RequestAsleep, Op
  <2>4. pinCache' = NoPin
    BY <1>1, <1>9, <2>2, <2>3, StatusNoneDoes
  <2>5. CASE \E pc \in {"accounts", "post", "read"} : Becomes(pc, req.ids, req.tries)
    BY <2>1, <2>2, <2>4, <2>5, BecomesAsleep
  <2>6. CASE Refused \/ Ends({"ok"})
    BY <1>3, <2>4, <2>6 DEF Refused
  <2> QED  BY <1>1, <1>9, <2>5, <2>6, StatusNoneDoes
<1>10. CASE StatusLocked
  <2>1. UNCHANGED <<secrets, opened, course, pinCache>> /\ InProgress /\ At("status") /\ secrets # NoFile
    BY <1>1, <1>10, StatusLockedDoes
  <2>2. RequestAsleep /\ pinCache = NoPin /\ req.tries = <<>> /\ req.ask.with = NoPin
    BY <1>2, <2>1 DEF RequestAsleep, At
  <2>3. ~Op("signup") /\ ~Op("identityUnlock")
    BY <1>1, <2>1, <2>2 DEF Op, Asks, Asked
  <2>4. ASSUME NEW t, Becomes("try", req.ids, t), t = req.tries
        PROVE  RequestAsleep'
    BY <2>1, <2>2, <2>4, BecomesAsleep
  <2> QED  BY <1>1, <1>3, <1>10, <2>1, <2>2, <2>3, <2>4, StatusLockedDoes DEF Refused, Op
<1>11. CASE Try
  <2>1. UNCHANGED <<opened, course>> /\ InProgress /\ At("try")
    BY <1>1, <1>11, TryDoes, SeesDoes DEF TypeInv, Asleep
  <2>2. pinCache = NoPin /\ req.tries = <<>>
    BY <1>2, <2>1 DEF RequestAsleep, At
  <2> QED  BY <1>1, <1>3, <1>11, <2>2, TryDoes DEF Refused
<1>12. CASE Read
  <2>1. UNCHANGED <<opened, course, pinCache>> /\ InProgress
    BY <1>1, <1>12, ReadDoes, SeesDoes DEF TypeInv, Asleep
  <2>2. CASE Becomes("decrypt", req.ids, <<pinCache>>)
    BY <1>2, <2>1, <2>2, BecomesAsleep
  <2> QED  BY <1>1, <1>2, <1>3, <1>12, <2>1, <2>2, GotAsleep, ReadDoes DEF Refused
<1>13. CASE Decrypt
  <2>1. UNCHANGED <<opened, course, pinCache>> /\ InProgress
    BY <1>1, <1>13, DecryptDoes
  <2> QED  BY <1>1, <1>2, <1>3, <1>13, <2>1, GotAsleep, DecryptDoes DEF Refused
<1>14. CASE Write
  BY <1>1, <1>2, <1>3, <1>14, WriteDoes
<1>15. CASE RemoveFile
  BY <1>2, <1>3, <1>15, RemoveDoes
<1>16. CASE Lock
  <2>1. req'.pc = "idle" /\ pinCache' = NoPin
    BY <1>16 DEF Lock, Asleep, Undisturbed, At
  <2> QED  BY <2>1, EndAsleep
<1>17. CASE Fail \/ Die
  <2>1. /\ Ends(Answers) /\ Asleep /\ pinCache' \in {pinCache, NoPin}
    BY <1>1, <1>17, BrokenDoes DEF Asleep, Undisturbed
  <2> QED  BY <1>3, <2>1 DEF OpenInv
<1> QED  BY <1>4, <1>5, <1>6, <1>7, <1>8, <1>9, <1>10, <1>11, <1>12, <1>13, <1>14, <1>15,
            <1>16, <1>17 DEF Next

\* Unless it came during a request, or a read failed since, a lock leaves none of the stored passwords in memory
\* until a PIN, or the identity's password, is given (mail-account.ts:357-360).
THEOREM LocksUntilOpened == Spec => []LockedUntilOpened
<1>1. Init => OpenInv
  BY PinInvInit DEF Init, OpenInv, RequestAsleep, InProgress, Idle
<1>2. OpenInv => LockedUntilOpened
  <2> SUFFICES ASSUME OpenInv, Asleep PROVE cache.ids \cap secrets.ids = {}
    BY DEF LockedUntilOpened, Asleep
  <2>1. ~cache.on \/ secrets = NoFile
    BY DEF OpenInv, PinInv, PinHeld, Asleep
  <2>2. ~cache.on => cache.ids = {}
    BY DEF OpenInv, PinInv, TypeInv, TypeOK
  <2> QED  BY <2>1, <2>2 DEF NoFile
<1> QED  BY <1>1, <1>2, OpenInvNext, PTL DEF Spec

----------------------------------------------------------------------------
(* Sign-ups. *)

\* The PIN opens the store, or there is none to open.
Opens == pinCache # NoPin /\ (cache.on \/ secrets = NoFile \/ secrets.pin = pinCache)
Provisions == InProgress /\ Op("signup") /\ req.pc \in {"post", "identity", "accounts", "open"}

SignInv == TypeInv /\ (Undisturbed /\ Provisions => Opens)

LEMMA SignInvNext == SignInv /\ [Next]_vars => SignInv'
<1> SUFFICES ASSUME SignInv, [Next]_vars, Undisturbed', Provisions'
             PROVE  Opens'
  BY TypeInvNext DEF SignInv
<1>1. /\ TypeInv /\ NoPin \notin Pins /\ (secrets # NoFile => secrets.pin \in Pins)
      /\ InProgress => req.ask \in Asks
      /\ cache.ids \in SUBSET Ids /\ secrets.ids \in SUBSET Ids
  BY PinsAssumption, JobTypes DEF SignInv, TypeInv, TypeOK, Envelope, NoFile
<1>2. ASSUME NEW answers, Ends(answers)
      PROVE  FALSE
  BY <1>2 DEF Ends, Provisions, InProgress
<1>3. ASSUME NEW s, NEW p, SaveMeans(s, p)
      PROVE  FALSE
  BY <1>2, <1>3 DEF SaveMeans, Refused, Becomes, Provisions
<1>4. ASSUME NEW s, NEW p, GotMeans(s, p), InProgress
      PROVE  FALSE
  <2>1. [req.ask EXCEPT !.op = "refresh"].op = "refresh"
    BY <1>1, <1>4 DEF Asks, Asked
  <2> QED  BY <1>2, <1>3, <1>4, <2>1 DEF GotMeans, Provisions, Op
<1>5. CASE UNCHANGED vars
  BY <1>5 DEF vars, SignInv, Undisturbed, Provisions, Opens, InProgress, Op
<1>6. ASSUME NEW ask \in Asked, Receive(ask)
      PROVE  FALSE
  BY <1>1, <1>6, ReceiveDoes DEF Provisions, Op
<1>7. CASE Post \/ SavedIdentity \/ WriteAccounts
  <2>1. UNCHANGED <<secrets, cache, pinCache, course>> /\ InProgress
    BY <1>1, <1>7, QuietDoes
  <2>2. ASSUME NEW pc, NEW s, Becomes(pc, s, req.tries),
               Op("signup") => req.pc \in {"post", "identity", "accounts"}
        PROVE  Provisions
    BY <2>1, <2>2 DEF Becomes, Provisions, Op
  <2>3. Provisions
    BY <1>1, <1>2, <1>7, <2>2, QuietDoes
  <2> QED  BY <2>1, <2>3 DEF SignInv, Undisturbed, Opens
<1>8. CASE Open
  BY <1>1, <1>2, <1>3, <1>4, <1>8, OpenDoes DEF Becomes, Provisions
<1>9. CASE Prepare
  <2>1. Op("signup") /\ cache.on /\ pinCache' \in Pins /\ UNCHANGED cache
    BY <1>1, <1>2, <1>4, <1>9, PrepareDoes DEF Becomes, Provisions, Refused, Op
  <2> QED  BY <1>1, <2>1 DEF Opens
<1>10. CASE StatusNone
  <2>1. Op("signup") /\ pinCache' \in Pins /\ secrets' = NoFile
    BY <1>1, <1>2, <1>10, StatusNoneDoes, SeesDoes DEF Becomes, Provisions, Refused, Op, TypeInv
  <2> QED  BY <1>1, <2>1 DEF Opens
<1>11. CASE StatusLocked
  BY <1>1, <1>2, <1>11, StatusLockedDoes DEF Becomes, Provisions, Refused
<1>12. CASE Try
  <2>1. PICK file \in {secrets, NoFile} :
           /\ Sees(file) /\ UNCHANGED secrets /\ pinCache' \in Pins
           /\ file # NoFile => pinCache' = file.pin
           /\ cache' = Cached(file.ids)
    BY <1>1, <1>2, <1>4, <1>12, TryDoes DEF Refused
  <2>2. file.ids \in SUBSET Ids
    BY <1>1 DEF NoFile
  <2> QED  BY <1>1, <2>1, <2>2, CacheTypes DEF Opens
<1>13. CASE Read
  BY <1>1, <1>2, <1>4, <1>13, ReadDoes DEF Becomes, Provisions, Refused
<1>14. CASE Decrypt
  BY <1>1, <1>2, <1>4, <1>14, DecryptDoes DEF Refused
<1>15. CASE Write \/ RemoveFile \/ Fail \/ Die
  BY <1>1, <1>2, <1>15, WriteDoes, RemoveDoes, BrokenDoes
<1>16. CASE Lock
  BY <1>16 DEF Lock, Undisturbed, Provisions, InProgress, At
<1> QED  BY <1>5, <1>6, <1>7, <1>8, <1>9, <1>10, <1>11, <1>12, <1>13, <1>14, <1>15, <1>16
         DEF Next

\* Unless a lock came during a request, or a read failed, a sign-up whose mailbox was created has the PIN
\* that its password is stored under (routes.ts:4564-4576).
THEOREM SignupsHavePin == Spec => []SignupHasPin
<1>1. Init => SignInv
  BY TypeInvInit DEF Init, SignInv, Provisions, InProgress, Idle
<1>2. SignInv => SignupHasPin
  BY DEF SignInv, SignupHasPin, Provisions, Opens, InProgress, At
<1> QED  BY <1>1, <1>2, SignInvNext, PTL DEF Spec

----------------------------------------------------------------------------
(* Deletions. *)

\* What is in the cache covers the file, unless the file is about to be written.
CacheComplete == cache.on /\ req.pc \notin {"write", "remove"} => secrets.ids \subseteq cache.ids

\* So does what a deletion holds, and what it writes lacks its account.
DeletionHolds ==
    InProgress /\ Op("delete") =>
       /\ req.pc \in {"accounts", "open"} => secrets.ids \subseteq req.ids
       /\ At("write") => req.ask.id \notin req.ids

GoneInv == StoreInv /\ PinInv /\ (course = "calm" => CacheComplete /\ DeletionHolds)

LEMMA EndHolds ==
    ASSUME req'.pc = "idle"
    PROVE  DeletionHolds'
BY DEF DeletionHolds, InProgress

LEMMA BecomesHolds ==
    ASSUME NEW pc, NEW ids, NEW tries, Becomes(pc, ids, tries),
           Op("delete") /\ pc \in {"accounts", "open"} => secrets'.ids \subseteq ids,
           Op("delete") /\ pc = "write" => req.ask.id \notin ids
    PROVE  DeletionHolds'
BY DEF DeletionHolds, Becomes, Op, At

\* A store that was not written is not ahead of the file: the refusal was for want of a
\* PIN, so that there is no file.
LEMMA SaveComplete ==
    ASSUME PinHeld', NEW s \in SUBSET Ids, SaveMeans(s, pinCache'),
           Op("delete") => req.ask.id \notin s
    PROVE  CacheComplete' /\ DeletionHolds'
<1>1. cache'.on
  BY CacheTypes DEF SaveMeans
<1>2. CASE Becomes("remove", {}, req.tries)
  BY <1>2, BecomesHolds DEF CacheComplete, Becomes
<1>3. CASE pinCache' = NoPin /\ Refused
  <2>1. secrets'.ids = {}
    BY <1>1, <1>3 DEF PinHeld, NoFile
  <2> QED  BY <1>3, <2>1, EndHolds DEF CacheComplete, Refused, Ends
<1>4. CASE Becomes("write", s, <<pinCache'>>)
  BY <1>4, BecomesHolds DEF CacheComplete, Becomes
<1> QED  BY <1>2, <1>3, <1>4 DEF SaveMeans

LEMMA GotComplete ==
    ASSUME TypeInv, InProgress, PinHeld', NEW s \in SUBSET Ids, GotMeans(s, pinCache'),
           secrets'.ids \subseteq s
    PROVE  CacheComplete' /\ DeletionHolds'
<1>1. req \in Job /\ req.ask \in Asks
  BY JobTypes DEF TypeInv
<1>2. CASE /\ req.ask.op \in {"save", "signup", "reset", "refresh", "ebpDelete"}
           /\ SaveMeans(Changed(s), pinCache')
  <2>1. Changed(s) \in SUBSET Ids
    BY <1>1, <1>2, AskTypes DEF Changed
  <2> QED  BY <1>2, <2>1, SaveComplete DEF Op
<1>3. CASE req.ask.op = "use" /\ cache' = Cached(s)
  <2>1. CacheComplete'
    BY <1>3, CacheTypes DEF CacheComplete
  <2>2. CASE Ends({"ok", "error"})
    BY <2>1, <2>2, EndHolds DEF Ends
  <2>3. CASE req'.ask = [req.ask EXCEPT !.op = "refresh"]
    <3>1. req'.ask.op = "refresh"
      BY <1>1, <2>3 DEF Asks, Asked
    <3> QED  BY <2>1, <3>1 DEF DeletionHolds, Op
  <2> QED  BY <1>3, <2>2, <2>3 DEF GotMeans
<1> QED  BY <1>2, <1>3 DEF GotMeans

LEMMA GoneInvNext == GoneInv /\ [Next]_vars => GoneInv'
<1> SUFFICES ASSUME GoneInv, [Next]_vars, course' = "calm"
             PROVE  CacheComplete' /\ DeletionHolds'
  BY StoreInvNext, PinInvNext DEF GoneInv
<1>1. /\ TypeInv /\ cache.ids \in SUBSET Ids /\ secrets.ids \in SUBSET Ids
      /\ InProgress => req.ids \in SUBSET Ids /\ req.ask \in Asks
      /\ NoFile.ids = {}
  BY JobTypes DEF GoneInv, PinInv, TypeInv, TypeOK, Envelope, NoFile
<1>2. PinHeld'
  BY PinInvNext DEF GoneInv, PinInv, Undisturbed
<1>3. ASSUME UNCHANGED course
      PROVE  CacheComplete /\ DeletionHolds
  BY <1>3 DEF GoneInv
<1>4. ASSUME NEW answers, Ends(answers)
      PROVE  DeletionHolds'
  BY <1>4, EndHolds DEF Ends
<1>5. ASSUME CacheComplete, UNCHANGED <<secrets, cache>>, req.pc \notin {"write", "remove"}
      PROVE  CacheComplete'
  BY <1>5 DEF CacheComplete
<1>6. CASE UNCHANGED vars
  BY <1>3, <1>6 DEF vars, CacheComplete, DeletionHolds, InProgress, At, Op
<1>7. ASSUME NEW ask \in Asked, Receive(ask)
      PROVE  CacheComplete' /\ DeletionHolds'
  <2>1. /\ UNCHANGED <<secrets, cache, course>> /\ At("idle") /\ req'.ask = ask
        /\ req'.pc \in {"accounts", "open", "prepare", "try", "status", "post"}
        /\ req'.pc = "accounts" => ask.op = "save"
        /\ req'.pc = "open" => ask.op = "use"
    BY <1>1, <1>7, ReceiveDoes
  <2> QED  BY <1>3, <1>5, <2>1 DEF DeletionHolds, At, Op
<1>8. CASE Post \/ SavedIdentity \/ WriteAccounts
  <2>1. UNCHANGED <<secrets, cache, course>> /\ InProgress /\ req.pc \notin {"write", "remove"}
    BY <1>1, <1>8, QuietDoes DEF Post, SavedIdentity, WriteAccounts, At
  <2>2. ASSUME NEW pc \in {"identity", "prepare", "accounts", "open"}, NEW s,
               Becomes(pc, s, req.tries), s = req.ids \/ Op("ebpDelete"),
               Op("delete") => pc = "open" /\ req.pc = "accounts"
        PROVE  DeletionHolds'
    <3>1. Op("delete") => secrets'.ids \subseteq s
      BY <1>3, <2>1, <2>2 DEF DeletionHolds, Op
    <3> QED  BY <2>2, <3>1, BecomesHolds
  <2> QED  BY <1>1, <1>3, <1>4, <1>5, <1>8, <2>1, <2>2, QuietDoes
<1>9. CASE Open
  <2>1. UNCHANGED <<secrets, course>> /\ InProgress /\ req.pc = "open"
    BY <1>1, <1>9, OpenDoes DEF At
  <2>2. CASE UNCHANGED cache /\ Ends({"ok"})
    BY <1>3, <1>4, <1>5, <2>1, <2>2
  <2>3. CASE UNCHANGED cache /\ Becomes("read", req.ids, req.tries)
    BY <1>3, <1>5, <2>1, <2>3, BecomesHolds
  <2>4. CASE cache.on /\ GotMeans(cache.ids, pinCache')
    BY <1>1, <1>2, <1>3, <2>1, <2>4, GotComplete DEF CacheComplete
  <2>5. CASE SaveMeans(req.ids \ {req.ask.id}, pinCache')
    BY <1>1, <1>2, <2>1, <2>5, SaveComplete
  <2> QED  BY <1>1, <1>9, <2>2, <2>3, <2>4, <2>5, OpenDoes
<1>10. CASE Prepare
  <2>1. UNCHANGED <<secrets, course>> /\ InProgress /\ req.pc = "prepare"
    BY <1>1, <1>10, PrepareDoes DEF At
  <2>2. CASE UNCHANGED cache /\ Refused
    BY <1>3, <1>4, <1>5, <2>1, <2>2 DEF Refused
  <2>3. CASE /\ UNCHANGED cache
             /\ Becomes("status", req.ids, Candidates(req.ask)) \/ Becomes("post", req.ids, req.tries)
    BY <1>3, <1>5, <2>1, <2>3, BecomesHolds
  <2>4. CASE cache.on /\ UNCHANGED cache /\ Becomes("accounts", cache.ids, req.tries)
    <3>1. secrets'.ids \subseteq cache.ids
      BY <1>3, <2>1, <2>4 DEF CacheComplete
    <3> QED  BY <1>3, <1>5, <2>1, <2>4, <3>1, BecomesHolds
  <2>5. CASE cache.on /\ GotMeans(cache.ids, pinCache')
    BY <1>1, <1>2, <1>3, <2>1, <2>5, GotComplete DEF CacheComplete
  <2> QED  BY <1>1, <1>10, <2>2, <2>3, <2>4, <2>5, PrepareDoes
<1>11. CASE StatusNone
  <2>1. /\ UNCHANGED <<secrets, course, cache>> /\ InProgress /\ req.pc = "status"
        /\ secrets'.ids = {}
    BY <1>1, <1>11, StatusNoneDoes, SeesDoes DEF At, TypeInv, Undisturbed
  <2>2. CASE \E pc \in {"accounts", "post", "read"} : Becomes(pc, req.ids, req.tries)
    BY <1>3, <1>5, <2>1, <2>2, BecomesHolds
  <2> QED  BY <1>1, <1>3, <1>4, <1>5, <1>11, <2>1, <2>2, StatusNoneDoes DEF Refused
<1>12. CASE StatusLocked
  <2>1. UNCHANGED <<secrets, course, cache>> /\ InProgress /\ req.pc = "status"
    BY <1>1, <1>12, StatusLockedDoes DEF At
  <2>2. CASE \E t : Becomes("try", req.ids, t)
    BY <1>3, <1>5, <2>1, <2>2, BecomesHolds
  <2> QED  BY <1>1, <1>3, <1>4, <1>5, <1>12, <2>1, <2>2, StatusLockedDoes DEF Refused
<1>13. CASE Try
  <2>1. UNCHANGED secrets /\ InProgress /\ req.pc = "try"
    BY <1>1, <1>13, TryDoes DEF At
  <2>2. CASE Refused /\ UNCHANGED <<cache, course>>
    BY <1>3, <1>4, <1>5, <2>1, <2>2 DEF Refused
  <2>3. ASSUME NEW file \in {secrets, NoFile}, Sees(file),
               \/ cache' = Cached(file.ids) /\ Becomes("post", req.ids, req.tries)
               \/ GotMeans(file.ids, pinCache')
               \/ cache' = Cached(file.ids) /\ Ends({"ok"})
        PROVE  CacheComplete' /\ DeletionHolds'
    <3>1. file = secrets
      BY <1>1, <2>3, SeesDoes DEF TypeInv, Undisturbed
    <3>2. cache' = Cached(file.ids) => CacheComplete'
      BY <1>1, <2>1, <3>1, CacheTypes DEF CacheComplete
    <3>3. CASE cache' = Cached(file.ids) /\ Ends({"ok"})
      BY <1>4, <3>2, <3>3
    <3>4. CASE cache' = Cached(file.ids) /\ Becomes("post", req.ids, req.tries)
      BY <3>2, <3>4, BecomesHolds
    <3>5. CASE GotMeans(file.ids, pinCache')
      BY <1>1, <1>2, <2>1, <3>1, <3>5, GotComplete
    <3> QED  BY <2>3, <3>3, <3>4, <3>5
  <2> QED  BY <1>1, <1>13, <2>2, <2>3, TryDoes
<1>14. CASE Read
  <2>1. UNCHANGED <<secrets, pinCache>> /\ InProgress /\ req.pc = "read"
    BY <1>1, <1>14, ReadDoes DEF At
  <2>2. CASE Refused /\ UNCHANGED <<cache, course>>
    BY <1>3, <1>4, <1>5, <2>1, <2>2 DEF Refused
  <2>3. CASE Sees(NoFile) /\ GotMeans({}, pinCache)
    <3>1. secrets = NoFile
      BY <1>1, <2>3, SeesDoes DEF TypeInv, Undisturbed
    <3> QED  BY <1>1, <1>2, <2>1, <2>3, <3>1, GotComplete
  <2>4. CASE UNCHANGED <<cache, course>> /\ Becomes("decrypt", req.ids, <<pinCache>>)
    BY <1>3, <1>5, <2>1, <2>4, BecomesHolds
  <2> QED  BY <1>1, <1>14, <2>2, <2>3, <2>4, ReadDoes
<1>15. CASE Decrypt
  <2>1. UNCHANGED <<secrets, course, pinCache>> /\ InProgress /\ req.pc = "decrypt"
    BY <1>1, <1>15, DecryptDoes DEF At
  <2>2. CASE Refused /\ UNCHANGED cache
    BY <1>3, <1>4, <1>5, <2>1, <2>2 DEF Refused
  <2>3. CASE GotMeans(secrets.ids, pinCache)
    BY <1>1, <1>2, <2>1, <2>3, GotComplete
  <2> QED  BY <1>1, <1>15, <2>2, <2>3, DecryptDoes
<1>16. CASE Write
  <2>1. /\ secrets'.ids = req.ids /\ UNCHANGED cache /\ Ends({"ok"}) /\ InProgress /\ At("write")
    BY <1>1, <1>16, WriteDoes
  <2>2. cache.on => req.ids = cache.ids
    BY <2>1 DEF GoneInv, StoreInv, RequestCovers
  <2> QED  BY <1>4, <2>1, <2>2 DEF CacheComplete
<1>17. CASE RemoveFile
  BY <1>1, <1>4, <1>17, RemoveDoes DEF CacheComplete
<1>18. CASE Lock
  <2>1. At("idle") /\ UNCHANGED req
    BY <1>18 DEF Lock
  <2> QED  BY <1>18, <2>1 DEF Lock, NoCache, CacheComplete, DeletionHolds, InProgress, At
<1>19. CASE Fail \/ Die
  <2>1. /\ Ends(Answers) /\ UNCHANGED course /\ req.pc \notin {"write", "remove"}
        /\ secrets' = secrets /\ (UNCHANGED cache \/ cache' = NoCache)
    BY <1>1, <1>19, BrokenDoes DEF At
  <2>2. CacheComplete'
    BY <1>3, <1>5, <2>1 DEF CacheComplete, NoCache
  <2> QED  BY <1>4, <2>1, <2>2
<1> QED  BY <1>6, <1>7, <1>8, <1>9, <1>10, <1>11, <1>12, <1>13, <1>14, <1>15, <1>16, <1>17,
            <1>18, <1>19 DEF Next

\* A deletion that is answered ok leaves no password of the account in the file, as long
\* as no write and no read failed and no lock came during a request (routes.ts:918-953).
THEOREM DeletionsRemove == Spec => DeletedIsGone
<1>1. Init => GoneInv
  BY StoreInvInit, PinInvInit
  DEF Init, GoneInv, CacheComplete, DeletionHolds, InProgress, NoCache, Idle
<1>2. GoneInv /\ [Next]_vars
         => [~At("idle") /\ req' = Idle("ok") /\ course = "calm" /\ Op("delete")
                => req.ask.id \notin secrets'.ids]_vars
  <2> SUFFICES ASSUME GoneInv, Next, InProgress, req' = Idle("ok"), course = "calm", Op("delete")
               PROVE  req.ask.id \notin secrets'.ids
    BY DEF At, InProgress
  <2>1. TypeInv /\ DeletionHolds /\ NoFile.ids = {}
    BY DEF GoneInv, PinInv, NoFile
  <2>2. ASSUME NEW answers, Ends(answers)
        PROVE  "ok" \in answers
    BY <2>2 DEF Ends, Idle
  <2>3. ASSUME NEW pc, NEW ids, NEW tries
        PROVE  ~Becomes(pc, ids, tries)
    BY DEF Becomes, Idle
  <2>4. ASSUME NEW s, NEW p
        PROVE  ~SaveMeans(s, p) /\ ~GotMeans(s, p)
    BY <2>2, <2>3 DEF SaveMeans, GotMeans, Refused, Op
  <2>5. CASE Open
    <3>1. req.ask.id \notin req.ids /\ At("open") /\ UNCHANGED secrets
      BY <2>1, <2>3, <2>4, <2>5, OpenDoes
    <3> QED  BY <2>1, <3>1 DEF DeletionHolds, At
  <2>6. CASE Write
    <3>1. secrets'.ids = req.ids /\ At("write")
      BY <2>1, <2>6, WriteDoes
    <3> QED  BY <2>1, <3>1 DEF DeletionHolds
  <2>7. CASE RemoveFile
    BY <2>1, <2>7, RemoveDoes
  <2>8. CASE Post \/ SavedIdentity \/ WriteAccounts
    BY <2>1, <2>2, <2>3, <2>8, QuietDoes
  <2>9. CASE Prepare \/ StatusNone
    BY <2>1, <2>2, <2>3, <2>4, <2>9, PrepareDoes, StatusNoneDoes DEF Refused, Op
  <2>10. CASE StatusLocked \/ Try
    BY <2>1, <2>2, <2>3, <2>4, <2>10, StatusLockedDoes, TryDoes DEF Refused, Op
  <2>11. CASE Read \/ Decrypt
    BY <2>1, <2>2, <2>3, <2>4, <2>11, ReadDoes, DecryptDoes DEF Refused
  <2>12. CASE Fail \/ Die
    BY <2>1, <2>12, BrokenDoes DEF Ends, Idle, Jobs, Answers
  <2>13. ~Lock /\ ~(\E ask \in Asked : Receive(ask))
    BY <2>1, ReceiveDoes DEF Lock, InProgress, At, Idle
  <2> QED  BY <2>5, <2>6, <2>7, <2>8, <2>9, <2>10, <2>11, <2>12, <2>13 DEF Next
<1> QED  BY <1>1, <1>2, GoneInvNext, PTL DEF Spec, DeletedIsGone

=============================================================================
