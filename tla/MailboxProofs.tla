--------------------------- MODULE MailboxProofs ---------------------------
(***************************************************************************)
(* Theorems about Mailbox, for every number of identities, names, accounts *)
(* and handlers.                                                           *)
(***************************************************************************)
EXTENDS Mailbox, FiniteSetTheorems, TLAPS

----------------------------------------------------------------------------
(* Shapes. *)

Jobs == {Idle} \union Job
SignupJob == [pc : ToCreate, who : Identities, name : Names, had : BOOLEAN]
CreatedJob == [pc : Created, who : Identities, name : Names, had : BOOLEAN,
               account : Accounts]
ResetJob == [pc : {"setPassword"}, who : Identities, account : Accounts]
RemovalJob == [pc : ToDelete \union ToClean, who : Identities, name : Names,
               account : Accounts \union {None}]

\* A worker at a call holds the job that call belongs to.
LEMMA JobKinds ==
    ASSUME NEW job \in Jobs
    PROVE  /\ job.pc \in ToCreate => job \in SignupJob
           /\ job.pc \in Created => job \in CreatedJob
           /\ job.pc = "setPassword" => job \in ResetJob
           /\ job.pc \in ToDelete \union ToClean => job \in RemovalJob
           /\ job.pc = "idle" => job = Idle
           /\ job.pc # "idle" => job.who \in Identities
           /\ job.pc \in {"idle", "setPassword"} \union ToCreate \union Created
                         \union ToDelete \union ToClean
BY DEF Jobs, Job, Idle, SignupJob, CreatedJob, ResetJob, RemovalJob,
       ToCreate, Created, ToDelete, ToClean

\* The calls of each kind of job.
LEMMA GotoKeepsKind ==
    ASSUME NEW job \in Jobs, NEW pc,
           \/ job.pc \in ToCreate /\ pc \in ToCreate
           \/ job.pc \in Created /\ pc \in Created
           \/ job.pc \in ToDelete \union ToClean /\ pc \in ToDelete \union ToClean
    PROVE  /\ [job EXCEPT !.pc = pc] \in Jobs
           /\ [job EXCEPT !.pc = pc].pc = pc
           /\ [job EXCEPT !.pc = pc].who = job.who
           /\ [job EXCEPT !.pc = pc].name = job.name
           /\ [job EXCEPT !.pc = pc].account = job.account
<1>1. CASE job.pc \in ToCreate /\ pc \in ToCreate
  <2>1. job \in SignupJob
    BY <1>1, JobKinds
  <2> QED  BY <1>1, <2>1 DEF SignupJob, Jobs, Job
<1>2. CASE job.pc \in Created /\ pc \in Created
  <2>1. job \in CreatedJob
    BY <1>2, JobKinds
  <2> QED  BY <1>2, <2>1 DEF CreatedJob, Jobs, Job
<1>3. CASE job.pc \in ToDelete \union ToClean /\ pc \in ToDelete \union ToClean
  <2>1. job \in RemovalJob
    BY <1>3, JobKinds
  <2> QED  BY <1>3, <2>1 DEF RemovalJob, Jobs, Job
<1> QED  BY <1>1, <1>2, <1>3

\* What a step of w does to the workers: new is w's job after it.
Moves(w, new) == new \in Jobs /\ worker' = [worker EXCEPT ![w] = new]

LEMMA ReplyMoves ==
    ASSUME NEW w \in Workers, Reply(w)
    PROVE  Moves(w, Idle)
BY DEF Reply, Moves, Jobs

LEMMA GotoMoves ==
    ASSUME TypeOK, NEW w \in Workers, NEW pc, Goto(w, pc),
           \/ worker[w].pc \in ToCreate /\ pc \in ToCreate
           \/ worker[w].pc \in Created /\ pc \in Created
           \/ worker[w].pc \in ToDelete \union ToClean /\ pc \in ToDelete \union ToClean
    PROVE  Moves(w, [worker[w] EXCEPT !.pc = pc])
<1>1. worker[w] \in Jobs
  BY DEF TypeOK, Jobs
<1> QED  BY <1>1, GotoKeepsKind DEF Goto, Moves

LEMMA InitTypeOK == Init => TypeOK
BY DEF Init, TypeOK, Courses

LEMMA MovedTypeOK ==
    ASSUME TypeOK, NEW w \in Workers, NEW new, Moves(w, new)
    PROVE  worker' \in [Workers -> {Idle} \union Job]
BY DEF TypeOK, Moves, Jobs

LEMMA CourseTypeOK ==
    ASSUME course \in Courses
    PROVE  /\ Lose => course' \in Courses
           /\ \A crossing \in BOOLEAN : Overlap(crossing) => course' \in Courses
BY DEF Courses, Lose, Overlap

LEMMA StartMoves ==
    ASSUME NEW w \in Workers, NEW job \in Jobs, Start(w, job)
    PROVE  Moves(w, job) /\ Overlap(Busy(job.who))
BY DEF Start, Moves

\* Where a link arrives.
LEMMA ReachedTypes ==
    ASSUME TypeOK, NEW n \in Names, NEW r \in Reached(n)
    PROVE  /\ r \in Identities \union {None}
           /\ r # None => \E a \in Accounts : stalwart[a] = [name |-> n, owner |-> r]
<1>1. CASE r = None
  BY <1>1
<1>2. CASE r # None
  <2>1. PICK a \in Accounts : stalwart[a].name = n /\ stalwart[a].owner = r
    BY <1>2 DEF Reached
  <2>2. stalwart[a] \in Account
    BY <2>1, NoneAssumption DEF TypeOK, NoAccount
  <2> QED  BY <2>1, <2>2 DEF Account
<1> QED  BY <1>1, <1>2

\* Changes of one detail.
LEMMA DetailTypes ==
    /\ \A n \in Names, r \in Identities \union {None} : StoredEmail(n, r) \in Detail
    /\ \A d \in Detail : /\ [d EXCEPT !.verified = TRUE] \in Detail
                         /\ RevokedEmail(d) \in Detail
                         /\ \A r \in Identities \union {None} :
                               /\ [d EXCEPT !.reader = r] \in Detail
                               /\ [d EXCEPT !.verified = TRUE, !.reader = r] \in Detail
<1>1. \A n \in Names, r \in Identities \union {None} : StoredEmail(n, r) \in Detail
  BY DEF StoredEmail, Detail
<1>2. ASSUME NEW d \in Detail
      PROVE  /\ [d EXCEPT !.verified = TRUE] \in Detail
             /\ RevokedEmail(d) \in Detail
  BY DEF Detail, RevokedEmail
<1>3. ASSUME NEW d \in Detail, NEW r \in Identities \union {None}
      PROVE  /\ [d EXCEPT !.reader = r] \in Detail
             /\ [d EXCEPT !.verified = TRUE, !.reader = r] \in Detail
  BY DEF Detail
<1> QED  BY <1>1, <1>2, <1>3

\* What the handlers of other modules do to the detail of i.
Writes(i) ==
    \/ RevokeEmail(i) \/ RequestLink(i) \/ ConfirmEmail(i)
    \/ \E n \in Names : PublishEmail(i, n)

\* The details after such a step, and after a deletion's or a sign-up's.
LEMMA WrittenTypes ==
    ASSUME TypeOK, NEW i \in Identities, NEW d \in Detail,
           email' = [email EXCEPT ![i] = d]
    PROVE  email' \in [Identities -> Detail \union {NoDetail}]
BY DEF TypeOK

LEMMA RevokedTypes ==
    ASSUME TypeOK, NEW i \in Identities, email[i] # NoDetail,
           email' = [email EXCEPT ![i] = RevokedEmail(@)]
    PROVE  email' \in [Identities -> Detail \union {NoDetail}]
<1>1. RevokedEmail(email[i]) \in Detail
  BY DetailTypes DEF TypeOK
<1>2. email' = [email EXCEPT ![i] = RevokedEmail(email[i])]
  OBVIOUS
<1> QED  BY <1>1, <1>2, WrittenTypes

LEMMA VerifiedTypes ==
    ASSUME TypeOK, NEW i \in Identities, email[i] # NoDetail,
           email' = [email EXCEPT ![i].verified = TRUE, ![i].reader = i]
    PROVE  email' \in [Identities -> Detail \union {NoDetail}]
<1>1. [email[i] EXCEPT !.verified = TRUE, !.reader = i] \in Detail
  BY DetailTypes DEF TypeOK
<1>2. email' = [email EXCEPT ![i] = [email[i] EXCEPT !.verified = TRUE, !.reader = i]]
  OBVIOUS
<1> QED  BY <1>1, <1>2, WrittenTypes

LEMMA AnsweredMoves ==
    ASSUME TypeOK, NEW w \in Workers, worker[w].pc \in Created,
           NEW next \in {"idle"} \union Created, Answered(w, next)
    PROVE  /\ course' \in Courses
           /\ \E new : Moves(w, new)
<1>1. course' \in Courses
  BY DEF Answered, Courses, TypeOK
<1>2. Reply(w) \/ \E pc \in Created : Goto(w, pc)
  BY DEF Answered, Created
<1> QED  BY <1>1, <1>2, ReplyMoves, GotoMoves

LEMMA ReceiveTypeOK ==
    ASSUME TypeOK, NEW w \in Workers, Receive(w)
    PROVE  TypeOK'
<1>1. \E job \in Jobs : Start(w, job)
  <2>1. ASSUME NEW i \in Identities, NEW n \in Names, Signup(w, i, n)
        PROVE  \E job \in Jobs : Start(w, job)
    BY <2>1 DEF Signup, Jobs, Job, ToCreate
  <2>2. ASSUME NEW i \in Identities, ResetPassword(w, i)
        PROVE  \E job \in Jobs : Start(w, job)
    <3>1. PICK n \in Names :
             /\ mailboxes[n].account # None
             /\ Start(w, [pc |-> "setPassword", who |-> i, account |-> mailboxes[n].account])
      BY <2>2 DEF ResetPassword, NamesOf
    <3>2. mailboxes[n].account \in Accounts
      BY <3>1 DEF TypeOK, Row, NoRow
    <3> QED  BY <3>1, <3>2 DEF Jobs, Job
  <2>3. ASSUME NEW i \in Identities, Delete(w, i)
        PROVE  \E job \in Jobs : Start(w, job)
    <3>1. PICK n \in Names :
             Start(w, [pc |-> IF mailboxes[n].account = None THEN "readEmail" ELSE "destroy",
                       who |-> i, name |-> n, account |-> mailboxes[n].account])
      BY <2>3 DEF Delete, NamesOf
    <3>2. mailboxes[n].account \in Accounts \union {None}
      BY DEF TypeOK, Row, NoRow
    <3> QED  BY <3>1, <3>2 DEF Jobs, Job, ToDelete
  <2>4. ASSUME NEW n \in Names, Cleanup(w, n)
        PROVE  \E job \in Jobs : Start(w, job)
    <3>1. mailboxes[n] \in Row
      BY <2>4 DEF Cleanup, TypeOK
    <3> QED  BY <2>4, <3>1 DEF Cleanup, Row, Jobs, Job, ToClean
  <2> QED  BY <2>1, <2>2, <2>3, <2>4 DEF Receive
<1>2. PICK job \in Jobs : Moves(w, job) /\ Overlap(Busy(job.who))
  BY <1>1, StartMoves
<1>3. Busy(job.who) \in BOOLEAN
  BY DEF Busy
<1>4. UNCHANGED <<tables, stalwart, holders>>
  BY DEF Receive, Signup, ResetPassword, Delete, Cleanup
<1> QED  BY <1>2, <1>3, <1>4, MovedTypeOK, CourseTypeOK DEF TypeOK, tables

LEMMA SignupStepTypeOK ==
    ASSUME TypeOK, NEW w \in Workers, SignupStep(w)
    PROVE  TypeOK'
<1> DEFINE job == worker[w]
<1>1. job \in Jobs
  BY DEF TypeOK, Jobs
<1>2. CASE CheckName(w) \/ CheckRetired(w)
  <2>1. \E new : Moves(w, new)
    BY <1>2, ReplyMoves, GotoMoves DEF CheckName, CheckRetired, At, ToCreate
  <2> QED  BY <1>2, <2>1, MovedTypeOK DEF CheckName, CheckRetired, TypeOK, tables
<1>3. CASE CheckEmail(w)
  <2>1. job \in SignupJob
    BY <1>1, <1>3, JobKinds DEF CheckEmail, At, ToCreate
  <2>2. [job EXCEPT !.pc = "insert", !.had = email[job.who] # NoDetail] \in Jobs
    BY <2>1 DEF SignupJob, Jobs, Job, ToCreate
  <2>3. \E new : Moves(w, new)
    <3>1. CASE Reply(w)
      BY <3>1, ReplyMoves
    <3>2. CASE worker' = [worker EXCEPT ![w].pc = "insert",
                                        ![w].had = email[job.who] # NoDetail]
      <4>1. worker' = [worker EXCEPT
                         ![w] = [job EXCEPT !.pc = "insert",
                                            !.had = email[job.who] # NoDetail]]
        BY <3>2
      <4> QED  BY <2>2, <4>1 DEF Moves
    <3> QED  BY <1>3, <3>1, <3>2 DEF CheckEmail
  <2> QED  BY <1>3, <2>3, MovedTypeOK DEF CheckEmail, TypeOK, tables
<1>4. CASE InsertMailbox(w)
  <2>1. job \in SignupJob
    BY <1>1, <1>4, JobKinds DEF InsertMailbox, At, ToCreate
  <2>2. \E new : Moves(w, new)
    BY <1>4, ReplyMoves, GotoMoves DEF InsertMailbox, At, ToCreate
  <2>3. mailboxes' \in [Names -> Row \union {NoRow}]
    BY <1>4, <2>1 DEF InsertMailbox, TypeOK, Row, SignupJob
  <2> QED  BY <1>4, <2>2, <2>3, MovedTypeOK DEF InsertMailbox, TypeOK
<1>5. CASE CreateUser(w)
  <2>1. job \in SignupJob
    BY <1>1, <1>5, JobKinds DEF CreateUser, At, ToCreate
  <2>2. stalwart' \in [Accounts -> Account \union {NoAccount}]
    BY <1>5, <2>1 DEF CreateUser, TypeOK, Account, SignupJob, FreshAccounts
  <2>3. ASSUME NEW a \in FreshAccounts
        PROVE  [pc |-> "setId", who |-> job.who, name |-> job.name, had |-> job.had,
                account |-> a] \in Jobs
    BY <2>1 DEF SignupJob, Jobs, Job, FreshAccounts, Created
  <2>4. \E new : Moves(w, new)
    BY <1>5, <2>3, GotoMoves DEF CreateUser, Moves, At, ToCreate
  <2>5. course' \in Courses
    BY <1>5, CourseTypeOK DEF CreateUser, TypeOK
  <2> QED  BY <1>5, <2>2, <2>4, <2>5, MovedTypeOK DEF CreateUser, TypeOK, tables
<1>6. CASE UndoInsert(w) \/ UndoRow(w)
  <2>1. Moves(w, Idle)
    BY <1>6, ReplyMoves DEF UndoInsert, UndoRow
  <2>2. mailboxes' \in [Names -> Row \union {NoRow}] /\ course' \in Courses
    BY <1>6, CourseTypeOK DEF UndoInsert, UndoRow, DeleteMailbox, TypeOK
  <2> QED  BY <1>6, <2>1, <2>2, MovedTypeOK DEF UndoInsert, UndoRow, TypeOK
<1>7. CASE SetStalwartId(w)
  <2>1. job \in CreatedJob
    BY <1>1, <1>7, JobKinds DEF SetStalwartId, At, Created
  <2>2. course' \in Courses /\ \E new : Moves(w, new)
    BY <1>7, GotoMoves, AnsweredMoves DEF SetStalwartId, At, Created, TypeOK
  <2>3. mailboxes' \in [Names -> Row \union {NoRow}]
    BY <1>7, <2>1 DEF SetStalwartId, TypeOK, Row, CreatedJob
  <2> QED  BY <1>7, <2>2, <2>3, MovedTypeOK DEF SetStalwartId, TypeOK
<1>8. CASE StoreDetail(w)
  <2>1. job \in CreatedJob
    BY <1>1, <1>8, JobKinds DEF StoreDetail, At, Created
  <2>2. course' \in Courses /\ \E new : Moves(w, new)
    BY <1>8, GotoMoves, AnsweredMoves DEF StoreDetail, At, Created, TypeOK
  <2>3. email' \in [Identities -> Detail \union {NoDetail}]
    <3>1. StoredEmail(job.name, None) \in Detail /\ job.who \in Identities
      BY <2>1, DetailTypes DEF CreatedJob
    <3> QED  BY <1>8, <3>1, WrittenTypes DEF StoreDetail, TypeOK
  <2> QED  BY <1>8, <2>2, <2>3, MovedTypeOK DEF StoreDetail, TypeOK
<1>9. CASE MarkDetailVerified(w)
  <2>1. job \in CreatedJob
    BY <1>1, <1>9, JobKinds DEF MarkDetailVerified, At, Created
  <2>2. course' \in Courses /\ \E new : Moves(w, new)
    BY <1>9, GotoMoves, AnsweredMoves DEF MarkDetailVerified, At, Created, TypeOK
  <2>3. email' \in [Identities -> Detail \union {NoDetail}]
    BY <1>9, <2>1, VerifiedTypes DEF MarkDetailVerified, TypeOK, CreatedJob
  <2>4. holders' \in [Names -> SUBSET Identities]
    BY <1>9, <2>1 DEF MarkDetailVerified, TypeOK, Detail, CreatedJob
  <2> QED  BY <1>9, <2>2, <2>3, <2>4, MovedTypeOK DEF MarkDetailVerified, TypeOK
<1>10. CASE UndoCreate(w)
  <2>1. \E new : Moves(w, new)
    BY <1>10, GotoMoves DEF UndoCreate, At, Created
  <2>2. stalwart' \in [Accounts -> Account \union {NoAccount}] /\ course' \in Courses
    BY <1>10, CourseTypeOK DEF UndoCreate, DestroyUser, TypeOK
  <2> QED  BY <1>10, <2>1, <2>2, MovedTypeOK DEF UndoCreate, TypeOK, tables
<1> QED  BY <1>2, <1>3, <1>4, <1>5, <1>6, <1>7, <1>8, <1>9, <1>10 DEF SignupStep

LEMMA RemovalStepTypeOK ==
    ASSUME TypeOK, NEW w \in Workers, DeleteStep(w) \/ CleanupStep(w)
    PROVE  TypeOK'
<1> DEFINE job == worker[w]
<1>1. job \in Jobs
  BY DEF TypeOK, Jobs
<1>2. CASE DeleteDestroysUser(w) \/ CleanupDestroysUser(w)
  <2>1. \E new : Moves(w, new)
    BY <1>2, ReplyMoves, GotoMoves
    DEF DeleteDestroysUser, CleanupDestroysUser, At, ToDelete, ToClean
  <2>2. stalwart' \in [Accounts -> Account \union {NoAccount}] /\ course' \in Courses
    BY <1>2, CourseTypeOK DEF DeleteDestroysUser, CleanupDestroysUser, DestroyUser, TypeOK
  <2> QED  BY <1>2, <2>1, <2>2, MovedTypeOK
           DEF DeleteDestroysUser, CleanupDestroysUser, TypeOK, tables
<1>3. CASE DeleteReadsEmail(w) \/ IsRetired(w)
  <2>1. \E new : Moves(w, new)
    BY <1>3, GotoMoves DEF DeleteReadsEmail, IsRetired, At, ToDelete
  <2> QED  BY <1>3, <2>1, MovedTypeOK DEF DeleteReadsEmail, IsRetired, TypeOK, tables
<1>4. CASE DeleteRevokesEmail(w)
  <2>1. \E new : Moves(w, new)
    BY <1>4, GotoMoves DEF DeleteRevokesEmail, At, ToDelete
  <2>2. email' \in [Identities -> Detail \union {NoDetail}]
    <3>1. job \in RemovalJob
      BY <1>1, <1>4, JobKinds DEF DeleteRevokesEmail, At, ToDelete
    <3> QED  BY <1>4, <3>1, RevokedTypes DEF DeleteRevokesEmail, TypeOK, RemovalJob
  <2> QED  BY <1>4, <2>1, <2>2, MovedTypeOK DEF DeleteRevokesEmail, TypeOK
<1>5. CASE Retire(w)
  <2>1. job \in RemovalJob
    BY <1>1, <1>5, JobKinds DEF Retire, At, ToDelete
  <2>2. \E new : Moves(w, new)
    BY <1>5, ReplyMoves, GotoMoves DEF Retire, At, ToDelete
  <2> QED  BY <1>5, <2>1, <2>2, MovedTypeOK DEF Retire, TypeOK, RemovalJob
<1>6. CASE DeleteRow(w) \/ CleanupDeletesRow(w)
  <2>1. Moves(w, Idle)
    BY <1>6, ReplyMoves DEF DeleteRow, CleanupDeletesRow
  <2>2. mailboxes' \in [Names -> Row \union {NoRow}]
    BY <1>6 DEF DeleteRow, CleanupDeletesRow, DeleteMailbox, TypeOK
  <2> QED  BY <1>6, <2>1, <2>2, MovedTypeOK DEF DeleteRow, CleanupDeletesRow, TypeOK
<1>7. CASE CleanupDeletesDetail(w)
  <2>1. \E new : Moves(w, new)
    BY <1>7, GotoMoves DEF CleanupDeletesDetail, At, ToClean
  <2> QED  BY <1>7, <2>1, MovedTypeOK DEF CleanupDeletesDetail, TypeOK
<1> QED  BY <1>2, <1>3, <1>4, <1>5, <1>6, <1>7 DEF DeleteStep, CleanupStep

\* The handlers of other modules write the e-mail detail.
LEMMA EmailTypeOK ==
    ASSUME TypeOK, NEW i \in Identities, Writes(i)
    PROVE  TypeOK'
<1>1. email' \in [Identities -> Detail \union {NoDetail}]
  <2>1. CASE \E n \in Names : PublishEmail(i, n)
    <3>1. PICK n \in Names, r \in Identities \union {None} :
             email' = [email EXCEPT ![i] = StoredEmail(n, r)]
      BY <2>1, ReachedTypes DEF PublishEmail
    <3> QED  BY <3>1, DetailTypes, WrittenTypes
  <2>2. CASE RevokeEmail(i)
    <3>1. email[i] # NoDetail
      BY <2>2 DEF RevokeEmail, NoDetail
    <3> QED  BY <2>2, <3>1, RevokedTypes DEF RevokeEmail
  <2>3. CASE RequestLink(i)
    <3>1. email[i] # NoDetail /\ email[i] \in Detail /\ email[i].name \in Names
      BY <2>3 DEF RequestLink, NoDetail, TypeOK, Detail
    <3>2. PICK r \in Identities \union {None} : email' = [email EXCEPT ![i].reader = r]
      BY <2>3, <3>1, ReachedTypes DEF RequestLink
    <3>3. [email[i] EXCEPT !.reader = r] \in Detail
      BY <3>1, DetailTypes
    <3>4. email' = [email EXCEPT ![i] = [email[i] EXCEPT !.reader = r]]
      BY <3>2
    <3> QED  BY <3>3, <3>4, WrittenTypes
  <2>4. CASE ConfirmEmail(i)
    <3>1. email[i] # NoDetail /\ email[i] \in Detail
      BY <2>4 DEF ConfirmEmail, NoDetail, TypeOK
    <3>2. [email[i] EXCEPT !.verified = TRUE] \in Detail
      BY <3>1, DetailTypes
    <3>3. email' = [email EXCEPT ![i] = [email[i] EXCEPT !.verified = TRUE]]
      BY <2>4 DEF ConfirmEmail
    <3> QED  BY <3>2, <3>3, WrittenTypes
  <2> QED  BY <2>1, <2>2, <2>3, <2>4 DEF Writes
<1>2. course' \in Courses
  BY CourseTypeOK DEF Writes, PublishEmail, RequestLink, ConfirmEmail, RevokeEmail, TypeOK,
                      SigningUp
<1> QED  BY <1>1, <1>2 DEF Writes, PublishEmail, RequestLink, ConfirmEmail, RevokeEmail, TypeOK

LEMMA NextTypeOK == TypeOK /\ [Next]_vars => TypeOK'
<1> SUFFICES ASSUME TypeOK, [Next]_vars PROVE TypeOK'
  OBVIOUS
<1>1. CASE UNCHANGED vars
  BY <1>1 DEF vars, TypeOK
<1>2. ASSUME NEW w \in Workers, SetPassword(w) \/ Fail(w) \/ Die(w)
      PROVE  TypeOK'
  <2>1. Moves(w, Idle)
    BY <1>2, ReplyMoves DEF SetPassword, Fail, Die
  <2>2. course' \in Courses
    BY <1>2, CourseTypeOK DEF SetPassword, Fail, Die, TypeOK
  <2> QED  BY <1>2, <2>1, <2>2, MovedTypeOK DEF SetPassword, Fail, Die, TypeOK, tables
<1> QED  BY <1>1, <1>2, ReceiveTypeOK, SignupStepTypeOK, RemovalStepTypeOK, EmailTypeOK
         DEF Next, Writes

\* In every behaviour, whatever interleaves or fails, the tables, the accounts and the
\* handlers in progress keep their shapes.
THEOREM TypeCorrect == Spec => []TypeOK
<1> QED  BY InitTypeOK, NextTypeOK, PTL DEF Spec

----------------------------------------------------------------------------
(* Handlers of different identities, under every interleaving. *)

\* Calls of a handler whose row is in the table.
Inserted == {"create", "undoInsert"} \union Created
HavingRow == Inserted \union ToDelete \union ToClean
\* Calls of a deletion that has seen to the e-mail detail.
Settled == {"isRetired", "retire", "deleteRow"}

\* The detail of i waits for a link that arrived, or is verified.
Claims(em, i) == em[i].state = "active" /\ em[i].reader # None

\* What holds for a handler in progress, whatever the others do.
Sound(job, mb, em) ==
    /\ job.pc \in HavingRow => mb[job.name].owner = job.who
    /\ job.pc \in {"insert"} \union Inserted => ~Claims(em, job.who)
    /\ job.pc = "verify" /\ em[job.who].state = "active" => em[job.who].name = job.name
    /\ job.pc \in ToClean => job.name \in testNames

\* No two handlers work for the same identity.
Apart ==
    \A v, w \in Workers :
       v # w /\ worker[v].pc # "idle" /\ worker[w].pc # "idle" => worker[v].who # worker[w].who

Uncrossed ==
    /\ Apart
    /\ \A w \in Workers : Sound(worker[w], mailboxes, email)

UncrossedInv == TypeOK /\ (course # "crossed" => Uncrossed)

\* A crossing stays one.
LEMMA CourseWorsens ==
    ASSUME TypeOK, [Next]_vars, course' # "crossed"
    PROVE  course # "crossed"
BY DEF Next, vars, Receive, Signup, ResetPassword, Delete, Cleanup, Start, Overlap, Lose,
       SignupStep, CheckName, CheckRetired, CheckEmail, InsertMailbox, CreateUser,
       UndoInsert, SetStalwartId, StoreDetail, MarkDetailVerified, UndoCreate, UndoRow,
       SetPassword, DeleteStep, DeleteDestroysUser, DeleteReadsEmail, DeleteRevokesEmail,
       IsRetired, Retire, DeleteRow, CleanupStep, CleanupDestroysUser,
       CleanupDeletesDetail, CleanupDeletesRow, PublishEmail, RequestLink, ConfirmEmail,
       RevokeEmail, Answered,
       Fail, Die

\* A handler that touches only what belongs to its identity, and is sound after it.
LEMMA OwnStep ==
    ASSUME TypeOK, Uncrossed, NEW w \in Workers, NEW i \in Identities,
           worker[w].pc # "idle", worker[w].who = i,
           NEW new, new \in Jobs, worker' = [worker EXCEPT ![w] = new],
           new.pc = "idle" \/ new.who = i,
           testNames' = testNames,
           \A n \in Names : mailboxes[n].owner \notin {None, i}
                               => mailboxes'[n].owner = mailboxes[n].owner,
           \A j \in Identities \ {i} : email'[j] = email[j],
           Sound(new, mailboxes', email')
    PROVE  Uncrossed'
<1>1. Apart'
  BY DEF Uncrossed, Apart, TypeOK
<1>2. ASSUME NEW v \in Workers
      PROVE  Sound(worker'[v], mailboxes', email')
  <2>1. CASE v = w
    BY <2>1 DEF TypeOK
  <2>2. CASE v # w /\ worker[v].pc # "idle"
    <3>1. worker'[v] = worker[v] /\ worker[v].who \in Identities \ {i}
      BY <2>2, JobKinds DEF TypeOK, Jobs, Uncrossed, Apart
    <3>2. worker[v].pc \in HavingRow => worker[v].name \in Names
      BY JobKinds DEF TypeOK, Jobs, HavingRow, Inserted, ToCreate, Created, ToDelete,
         ToClean, SignupJob, CreatedJob, RemovalJob
    <3>3. Sound(worker[v], mailboxes, email)
      BY DEF Uncrossed
    <3> QED  BY <3>1, <3>2, <3>3, NoneAssumption DEF Sound, Claims
  <2>3. CASE v # w /\ worker[v].pc = "idle"
    BY <2>3 DEF TypeOK, Sound, HavingRow, Inserted, ToCreate, Created, ToDelete, ToClean
  <2> QED  BY <2>1, <2>2, <2>3
<1>3. (\A v \in Workers : Sound(worker[v], mailboxes, email))'
  BY <1>2 DEF Sound, Claims
<1> QED  BY <1>1, <1>3 DEF Uncrossed

LEMMA SoundIdle == \A mb, em : Sound(Idle, mb, em)
BY DEF Sound, Idle, HavingRow, Inserted, ToCreate, Created, ToDelete, ToClean

\* A handler that goes on, or ends, and leaves rows and details as they are.
LEMMA QuietStep ==
    ASSUME TypeOK, Uncrossed, NEW w \in Workers, worker[w].pc # "idle",
           NEW new \in Jobs, worker' = [worker EXCEPT ![w] = new],
           UNCHANGED <<testNames, mailboxes, email>>,
           new.pc = "idle" \/ new.who = worker[w].who,
           Sound(new, mailboxes, email)
    PROVE  Uncrossed'
<1>1. worker[w].who \in Identities
  BY JobKinds DEF TypeOK, Jobs
<1>2. Sound(new, mailboxes', email')
  OBVIOUS
<1> QED  BY <1>1, <1>2, OwnStep

LEMMA QuietReply ==
    ASSUME TypeOK, Uncrossed, NEW w \in Workers, worker[w].pc # "idle", Reply(w),
           UNCHANGED <<testNames, mailboxes, email>>
    PROVE  Uncrossed'
<1>1. Idle \in Jobs /\ Idle.pc = "idle"
  BY DEF Jobs, Idle
<1> QED  BY <1>1, SoundIdle, QuietStep DEF Reply

\* The call that follows asks no more than the one before.
Follows(pc, next) ==
    /\ \/ pc \in ToCreate /\ next \in ToCreate
       \/ pc \in Created /\ next \in Created
       \/ pc \in ToDelete /\ next \in ToDelete
       \/ pc \in ToClean /\ next \in ToClean
    /\ next \in {"insert"} \union Inserted => pc \in Inserted
    /\ next # "verify"

LEMMA QuietGoto ==
    ASSUME TypeOK, Uncrossed, NEW w \in Workers, NEW pc, Goto(w, pc),
           Follows(worker[w].pc, pc),
           UNCHANGED <<testNames, mailboxes, email>>
    PROVE  Uncrossed'
<1> DEFINE job == worker[w]
           new == [job EXCEPT !.pc = pc]
<1>1. job \in Jobs /\ Sound(job, mailboxes, email)
  BY DEF TypeOK, Jobs, Uncrossed
<1>2. /\ new \in Jobs /\ new.pc = pc /\ new.who = job.who /\ new.name = job.name
      /\ job.pc # "idle"
  BY <1>1, GotoKeepsKind DEF Follows, ToCreate, Created, ToDelete, ToClean
<1>3. Sound(new, mailboxes, email)
  BY <1>1, <1>2 DEF Sound, Follows, HavingRow, Inserted, ToCreate, Created, ToDelete,
                    ToClean
<1>4. worker' = [worker EXCEPT ![w] = new]
  BY DEF Goto
<1> QED  BY <1>2, <1>3, <1>4, QuietStep

LEMMA SignupUncrossed ==
    ASSUME TypeOK, TypeOK', Uncrossed, course' # "crossed", NEW w \in Workers,
           SignupStep(w)
    PROVE  Uncrossed'
<1> DEFINE job == worker[w]
           i == job.who
           n == job.name
<1>1. job \in Jobs /\ Sound(job, mailboxes, email)
  BY DEF TypeOK, Jobs, Uncrossed
<1>2. CASE CheckName(w) \/ CheckRetired(w)
  BY <1>2, QuietReply, QuietGoto
  DEF CheckName, CheckRetired, At, tables, Follows, ToCreate, Inserted, Created
<1>3. CASE CheckEmail(w)
  <2>1. job \in SignupJob
    BY <1>1, <1>3, JobKinds DEF CheckEmail, At, ToCreate
  <2>2. CASE Reply(w)
    BY <1>3, <2>2, QuietReply DEF CheckEmail, At, tables
  <2>3. CASE /\ email[i].state # "active"
             /\ worker' = [worker EXCEPT ![w].pc = "insert", ![w].had = email[i] # NoDetail]
    <3> DEFINE new == [job EXCEPT !.pc = "insert", !.had = email[i] # NoDetail]
    <3>1. worker' = [worker EXCEPT ![w] = new]
      BY <2>3
    <3>2. new \in Jobs /\ new.pc = "insert" /\ new.who = i
      BY <2>1 DEF SignupJob, Jobs, Job, ToCreate
    <3>3. Sound(new, mailboxes, email)
      BY <2>3, <3>2 DEF Sound, Claims, HavingRow, Inserted, Created, ToDelete, ToClean
    <3> HIDE DEF new
    <3> QED  BY <1>3, <3>1, <3>2, <3>3, QuietStep DEF CheckEmail, At, tables
  <2> QED  BY <1>3, <2>2, <2>3 DEF CheckEmail
<1>4. CASE InsertMailbox(w)
  <2>1. job \in SignupJob /\ i \in Identities /\ n \in Names
    BY <1>1, <1>4, JobKinds DEF InsertMailbox, At, ToCreate, SignupJob
  <2>2. CASE Reply(w) /\ UNCHANGED mailboxes
    BY <1>4, <2>2, QuietReply DEF InsertMailbox, At
  <2>3. CASE /\ ~NotUnique(i, n)
             /\ mailboxes' = [mailboxes EXCEPT ![n] = [owner |-> i, account |-> None]]
             /\ Goto(w, "create")
    <3> DEFINE new == [job EXCEPT !.pc = "create"]
    <3>1. /\ new \in Jobs /\ new.pc = "create" /\ new.who = i /\ new.name = n
          /\ worker' = [worker EXCEPT ![w] = new]
      BY <1>1, <1>4, <2>3, GotoKeepsKind DEF InsertMailbox, At, Goto, ToCreate
    <3>2. ~Claims(email, i)
      BY <1>1, <1>4 DEF InsertMailbox, At, Sound
    <3>3. mailboxes'[n].owner = i /\ \A m \in Names \ {n} : mailboxes'[m] = mailboxes[m]
      BY <2>1, <2>3 DEF TypeOK
    <3>4. mailboxes[n].owner = None
      BY <2>3 DEF NotUnique, NoRow
    <3>5. UNCHANGED <<testNames, email>>
      BY <1>4 DEF InsertMailbox
    <3>6. Sound(new, mailboxes', email')
      BY <3>1, <3>2, <3>3, <3>5
      DEF Sound, HavingRow, Inserted, Created, ToDelete, ToClean
    <3>7. job.pc # "idle"
      BY <1>4 DEF InsertMailbox, At
    <3> HIDE DEF new
    <3> QED  BY <2>1, <3>1, <3>3, <3>4, <3>5, <3>6, <3>7, OwnStep
  <2> QED  BY <1>4, <2>2, <2>3 DEF InsertMailbox
<1>5. CASE CreateUser(w)
  <2>1. job \in SignupJob
    BY <1>1, <1>5, JobKinds DEF CreateUser, At, ToCreate
  <2>2. CASE Goto(w, "undoInsert")
    BY <1>5, <2>2, QuietGoto
    DEF CreateUser, At, tables, Follows, ToCreate, Inserted
  <2>3. ASSUME NEW a \in FreshAccounts,
               worker' = [worker EXCEPT ![w] = [pc |-> "setId", who |-> i, name |-> n,
                                                had |-> job.had, account |-> a]]
        PROVE  Uncrossed'
    <3> DEFINE new == [pc |-> "setId", who |-> i, name |-> n, had |-> job.had, account |-> a]
    <3>1. new \in Jobs /\ new.pc = "setId" /\ new.who = i /\ new.name = n
      BY <2>1 DEF SignupJob, Jobs, Job, FreshAccounts, Created
    <3>2. Sound(new, mailboxes, email)
      BY <1>1, <1>5, <3>1 DEF CreateUser, At, Sound, HavingRow, Inserted, Created,
                              ToDelete, ToClean
    <3> HIDE DEF new
    <3> QED  BY <1>5, <2>3, <3>1, <3>2, QuietStep DEF CreateUser, At, tables, new
  <2> QED  BY <1>5, <2>2, <2>3 DEF CreateUser
<1>6. CASE UndoInsert(w) \/ UndoRow(w)
  <2>1. job.pc \in Inserted /\ job.pc # "idle"
    BY <1>6 DEF UndoInsert, UndoRow, At, Inserted, Created
  <2>2. mailboxes[n].owner = i
    BY <1>1, <2>1 DEF Sound, HavingRow
  <2>3. Reply(w) /\ UNCHANGED <<testNames, email>> /\ (DeleteMailbox(n) \/ UNCHANGED mailboxes)
    BY <1>6 DEF UndoInsert, UndoRow
  <2>4. i \in Identities
    BY <1>1, <2>1, JobKinds
  <2>5. \A m \in Names : mailboxes[m].owner # i => mailboxes'[m] = mailboxes[m]
    BY <2>2, <2>3 DEF DeleteMailbox, TypeOK
  <2>6. Idle \in Jobs /\ Idle.pc = "idle" /\ Sound(Idle, mailboxes', email')
    BY SoundIdle DEF Jobs, Idle
  <2> QED  BY <2>1, <2>3, <2>4, <2>5, <2>6, OwnStep DEF Reply
<1>7. CASE SetStalwartId(w)
  <2> DEFINE new(pc) == [job EXCEPT !.pc = pc]
  <2>1. job.pc = "setId"
    BY <1>7 DEF SetStalwartId, At
  <2>2. PICK pc \in {"detail", "undoCreate"} : Goto(w, pc)
    BY <1>7 DEF SetStalwartId, Answered
  <2>3. /\ new(pc) \in Jobs /\ new(pc).pc = pc /\ new(pc).who = i /\ new(pc).name = n
        /\ worker' = [worker EXCEPT ![w] = new(pc)]
    BY <1>1, <2>1, <2>2, GotoKeepsKind DEF Goto, Created
  <2>4. i \in Identities /\ n \in Names
    BY <1>1, <2>1, JobKinds DEF CreatedJob, Created
  <2>5. \A m \in Names : mailboxes'[m].owner = mailboxes[m].owner
    BY <1>7 DEF SetStalwartId, TypeOK, Row
  <2>6. UNCHANGED <<testNames, email>>
    BY <1>7 DEF SetStalwartId
  <2>7. mailboxes[n].owner = i /\ ~Claims(email', i)
    BY <1>1, <2>1, <2>6 DEF Sound, HavingRow, Inserted, Created
  <2>8. Sound(new(pc), mailboxes', email')
    BY <2>3, <2>4, <2>5, <2>7
    DEF Sound, HavingRow, Inserted, Created, ToDelete, ToClean
  <2> HIDE DEF new
  <2> QED  BY <2>1, <2>3, <2>4, <2>5, <2>6, <2>8, OwnStep
<1>8. CASE StoreDetail(w)
  <2> DEFINE new(pc) == [job EXCEPT !.pc = pc]
  <2>1. job.pc = "detail"
    BY <1>8 DEF StoreDetail, At
  <2>2. i \in Identities /\ n \in Names
    BY <1>1, <2>1, JobKinds DEF CreatedJob, Created
  <2>3. mailboxes[n].owner = i
    BY <1>1, <2>1 DEF Sound, HavingRow, Inserted, Created
  <2>4. UNCHANGED <<testNames, mailboxes>>
    BY <1>8 DEF StoreDetail
  <2>5. CASE UNCHANGED email /\ Goto(w, "undoCreate")
    BY <2>1, <2>4, <2>5, QuietGoto DEF Follows, ToCreate, Created, ToDelete, ToClean,
                                       Inserted
  <2>6. CASE /\ email' = IF email[i] = NoDetail /\ job.had THEN email
                         ELSE [email EXCEPT ![i] = StoredEmail(n, None)]
             /\ Goto(w, "verify")
    <3>1. /\ new("verify") \in Jobs /\ new("verify").pc = "verify"
          /\ new("verify").who = i /\ new("verify").name = n
          /\ worker' = [worker EXCEPT ![w] = new("verify")]
      BY <1>1, <2>1, <2>6, GotoKeepsKind DEF Goto, Created
    <3>2. email'[i] = StoredEmail(n, None) \/ email'[i] = NoDetail
      BY <2>2, <2>6 DEF TypeOK
    <3>3. ~Claims(email', i) /\ (email'[i].state = "active" => email'[i].name = n)
      BY <3>2 DEF StoredEmail, NoDetail, Claims
    <3>4. \A j \in Identities \ {i} : email'[j] = email[j]
      BY <2>6 DEF TypeOK
    <3>5. Sound(new("verify"), mailboxes', email')
      BY <2>3, <2>4, <3>1, <3>3
      DEF Sound, HavingRow, Inserted, Created, ToDelete, ToClean
    <3> HIDE DEF new
    <3> QED  BY <2>1, <2>2, <2>4, <3>1, <3>4, <3>5, OwnStep
  <2> QED  BY <1>8, <2>5, <2>6 DEF StoreDetail, Answered
<1>9. CASE MarkDetailVerified(w)
  <2>1. job.pc = "verify"
    BY <1>9 DEF MarkDetailVerified, At
  <2>2. i \in Identities /\ n \in Names
    BY <1>1, <2>1, JobKinds DEF CreatedJob, Created
  <2>4. UNCHANGED <<testNames, mailboxes>>
    BY <1>9 DEF MarkDetailVerified
  <2>5. CASE UNCHANGED email /\ Goto(w, "undoCreate")
    BY <2>1, <2>4, <2>5, QuietGoto DEF Follows, ToCreate, Created, ToDelete, ToClean,
                                       Inserted
  <2>6. CASE /\ email' = IF email[i] = NoDetail THEN email
                         ELSE [email EXCEPT ![i].verified = TRUE, ![i].reader = i]
             /\ Reply(w)
    <3>1. \A j \in Identities \ {i} : email'[j] = email[j]
      BY <2>6 DEF TypeOK
    <3>2. Idle \in Jobs /\ Idle.pc = "idle" /\ Sound(Idle, mailboxes', email')
      BY SoundIdle DEF Jobs, Idle
    <3>3. worker' = [worker EXCEPT ![w] = Idle] /\ job.pc # "idle"
      BY <2>1, <2>6 DEF Reply
    <3> QED  BY <2>2, <2>4, <3>1, <3>2, <3>3, OwnStep
  <2> QED  BY <1>9, <2>5, <2>6 DEF MarkDetailVerified, Answered
<1>10. CASE UndoCreate(w)
  BY <1>10, QuietGoto
  DEF UndoCreate, At, tables, Follows, ToCreate, Created, ToDelete, ToClean, Inserted
<1> QED  BY <1>2, <1>3, <1>4, <1>5, <1>6, <1>7, <1>8, <1>9, <1>10 DEF SignupStep

LEMMA RemovalUncrossed ==
    ASSUME TypeOK, TypeOK', Uncrossed, NEW w \in Workers, DeleteStep(w) \/ CleanupStep(w)
    PROVE  Uncrossed'
<1> DEFINE job == worker[w]
           i == job.who
           n == job.name
           new(pc) == [job EXCEPT !.pc = pc]
<1>1. job \in Jobs /\ Sound(job, mailboxes, email)
  BY DEF TypeOK, Jobs, Uncrossed
<1>2. job.pc \in ToDelete \union ToClean /\ job.pc # "idle"
  BY DEF DeleteStep, DeleteDestroysUser, DeleteReadsEmail, DeleteRevokesEmail, IsRetired,
         Retire, DeleteRow, CleanupStep, CleanupDestroysUser, CleanupDeletesDetail,
         CleanupDeletesRow, At, ToDelete, ToClean
<1>3. i \in Identities /\ n \in Names /\ mailboxes[n].owner = i
  BY <1>1, <1>2, JobKinds DEF RemovalJob, Sound, HavingRow
<1>4. CASE DeleteDestroysUser(w) \/ CleanupDestroysUser(w)
  BY <1>4, QuietReply, QuietGoto
  DEF DeleteDestroysUser, CleanupDestroysUser, At, tables, Follows, ToCreate, Created,
      ToDelete, ToClean, Inserted
<1>5. CASE DeleteReadsEmail(w)
  BY <1>5, QuietGoto
  DEF DeleteReadsEmail, At, tables, Follows, ToCreate, Created, ToDelete, ToClean, Inserted
<1>6. CASE DeleteRevokesEmail(w) \/ CleanupDeletesDetail(w)
  <2>1. PICK pc : /\ Goto(w, pc)
                  /\ \/ job.pc = "revokeEmail" /\ pc = "isRetired"
                     \/ job.pc = "cleanDetail" /\ pc = "cleanRow"
    BY <1>6 DEF DeleteRevokesEmail, CleanupDeletesDetail, At
  <2>2. /\ new(pc) \in Jobs /\ new(pc).pc = pc /\ new(pc).who = i /\ new(pc).name = n
        /\ worker' = [worker EXCEPT ![w] = new(pc)]
    BY <1>1, <2>1, GotoKeepsKind DEF Goto, ToDelete, ToClean
  <2>3. UNCHANGED <<testNames, mailboxes>>
    BY <1>6 DEF DeleteRevokesEmail, CleanupDeletesDetail
  <2>4. \A j \in Identities \ {i} : email'[j] = email[j]
    BY <1>6 DEF DeleteRevokesEmail, CleanupDeletesDetail, TypeOK
  <2>5. Sound(new(pc), mailboxes', email')
    BY <1>1, <1>3, <2>1, <2>2, <2>3
    DEF Sound, HavingRow, Inserted, Created, ToDelete, ToClean
  <2> HIDE DEF new
  <2> QED  BY <1>2, <1>3, <2>2, <2>3, <2>4, <2>5, OwnStep
<1>7. CASE IsRetired(w) \/ Retire(w)
  BY <1>7, QuietReply, QuietGoto
  DEF IsRetired, Retire, At, tables, Follows, ToCreate, Created, ToDelete, ToClean,
      Inserted
<1>8. CASE DeleteRow(w) \/ CleanupDeletesRow(w)
  <2>1. /\ Reply(w) /\ UNCHANGED <<testNames, email>> /\ DeleteMailbox(n)
        /\ job.pc \in {"deleteRow", "cleanRow"}
    BY <1>8 DEF DeleteRow, CleanupDeletesRow, At
  <2>2. \A m \in Names \ {n} : mailboxes'[m] = mailboxes[m]
    BY <2>1 DEF DeleteMailbox, TypeOK
  <2>3. Idle \in Jobs /\ Idle.pc = "idle" /\ Sound(Idle, mailboxes', email')
    BY SoundIdle DEF Jobs, Idle
  <2> QED  BY <1>2, <1>3, <2>1, <2>2, <2>3, OwnStep DEF Reply
<1> QED  BY <1>4, <1>5, <1>6, <1>7, <1>8 DEF DeleteStep, CleanupStep

\* A handler that begins finds nobody who works for its identity.
LEMMA ReceiveUncrossed ==
    ASSUME TypeOK, Uncrossed, NEW w \in Workers, Receive(w), course' # "crossed"
    PROVE  Uncrossed'
<1>1. PICK job : /\ Start(w, job) /\ job.who \in Identities
                 /\ job.pc \in {"name", "setPassword", "destroy", "readEmail",
                                "cleanDestroy", "cleanDetail"}
                 /\ job.pc \in HavingRow => mailboxes[job.name].owner = job.who
                 /\ job.pc \in ToClean => job.name \in testNames
  <2>1. CASE \E i \in Identities, n \in Names : Signup(w, i, n)
    <3>1. PICK i \in Identities, n \in Names :
             Start(w, [pc |-> "name", who |-> i, name |-> n, had |-> FALSE])
      BY <2>1 DEF Signup
    <3>2. "name" \notin HavingRow /\ "name" \notin ToClean
      BY DEF HavingRow, Inserted, Created, ToDelete, ToClean
    <3> QED  BY <3>1, <3>2
  <2>2. CASE \E i \in Identities : ResetPassword(w, i)
    BY <2>2 DEF ResetPassword, HavingRow, Inserted, Created, ToDelete, ToClean
  <2>3. CASE \E i \in Identities : Delete(w, i)
    <3>1. PICK i \in Identities, n \in Names :
             /\ mailboxes[n].owner = i
             /\ Start(w, [pc |-> IF mailboxes[n].account = None THEN "readEmail" ELSE "destroy",
                          who |-> i, name |-> n, account |-> mailboxes[n].account])
      BY <2>3 DEF Delete, NamesOf
    <3> QED  BY <3>1 DEF ToClean
  <2>4. CASE \E n \in Names : Cleanup(w, n)
    BY <2>4 DEF Cleanup, TypeOK, Row
  <2>5. \/ \E i \in Identities, n \in Names : Signup(w, i, n)
        \/ \E i \in Identities : ResetPassword(w, i)
        \/ \E i \in Identities : Delete(w, i)
        \/ \E n \in Names : Cleanup(w, n)
    BY DEF Receive
  <2> QED  BY <2>1, <2>2, <2>3, <2>4, <2>5
<1>2. UNCHANGED <<testNames, mailboxes, email>>
  BY DEF Receive, Signup, ResetPassword, Delete, Cleanup, tables
<1>3. worker[w].pc = "idle" /\ worker' = [worker EXCEPT ![w] = job] /\ ~Busy(job.who)
  BY <1>1 DEF Start, At, Overlap
<1>4. Apart'
  BY <1>3 DEF Uncrossed, Apart, Busy, At, TypeOK
<1>5. Sound(job, mailboxes, email)
  BY <1>1 DEF Sound, Inserted, Created
<1>6. \A v \in Workers : Sound(worker'[v], mailboxes, email)
  BY <1>3, <1>5 DEF Uncrossed, TypeOK
<1>7. (\A v \in Workers : Sound(worker[v], mailboxes, email))'
  BY <1>2, <1>6 DEF Sound, Claims
<1> QED  BY <1>4, <1>7 DEF Uncrossed

\* Other handlers that write a detail: none while a sign-up works on it but a revocation.
LEMMA EmailUncrossed ==
    ASSUME TypeOK, Uncrossed, NEW i \in Identities, course' # "crossed", Writes(i)
    PROVE  Uncrossed'
<1>1. UNCHANGED <<testNames, mailboxes, worker>>
  BY DEF Writes, RevokeEmail, PublishEmail, RequestLink, ConfirmEmail
<1>2. \A j \in Identities \ {i} : email'[j] = email[j]
  BY DEF Writes, RevokeEmail, PublishEmail, RequestLink, ConfirmEmail, TypeOK
<1>3. SigningUp(i) => email'[i].state # "active"
  <2>1. CASE RevokeEmail(i)
    BY <2>1 DEF RevokeEmail, RevokedEmail, TypeOK, Detail, NoDetail
  <2>2. CASE ~RevokeEmail(i)
    BY <2>2 DEF Writes, PublishEmail, RequestLink, ConfirmEmail, Overlap
  <2> QED  BY <2>1, <2>2
<1>4. ASSUME NEW w \in Workers
      PROVE  Sound(worker[w], mailboxes, email')
  <2>1. Sound(worker[w], mailboxes, email)
    BY DEF Uncrossed
  <2>2. worker[w].pc # "idle" => worker[w].who \in Identities
    BY JobKinds DEF TypeOK, Jobs
  <2>3. worker[w].pc \in {"insert"} \union Inserted /\ worker[w].who = i => SigningUp(i)
    BY DEF SigningUp, Inserted, Created, ToCreate
  <2> QED  BY <1>2, <1>3, <2>1, <2>2, <2>3 DEF Sound, Claims, Inserted, Created
<1>5. (\A v \in Workers : Sound(worker[v], mailboxes, email))'
  BY <1>1, <1>4 DEF Sound, Claims
<1>6. Apart'
  BY <1>1 DEF Uncrossed, Apart
<1> QED  BY <1>5, <1>6 DEF Uncrossed

LEMMA UncrossedInvInit == Init => UncrossedInv
<1> SUFFICES ASSUME Init PROVE UncrossedInv
  OBVIOUS
<1>1. \A w \in Workers : Sound(worker[w], mailboxes, email)
  BY SoundIdle DEF Init
<1>2. Apart
  BY DEF Init, Apart, Idle
<1> QED  BY <1>1, <1>2, InitTypeOK DEF UncrossedInv, Uncrossed

LEMMA UncrossedInvNext == UncrossedInv /\ [Next]_vars => UncrossedInv'
<1> SUFFICES ASSUME UncrossedInv, [Next]_vars, course' # "crossed" PROVE Uncrossed'
  BY NextTypeOK DEF UncrossedInv
<1>1. TypeOK /\ TypeOK' /\ Uncrossed
  BY NextTypeOK, CourseWorsens DEF UncrossedInv
<1>2. CASE UNCHANGED vars
  BY <1>1, <1>2 DEF vars, Uncrossed, Apart, Sound, Claims
<1>3. ASSUME NEW w \in Workers, SetPassword(w) \/ Fail(w) \/ Die(w)
      PROVE  Uncrossed'
  <2>1. worker[w].pc # "idle"
    BY <1>3 DEF SetPassword, Fail, Die, At
  <2>2. Reply(w) /\ UNCHANGED <<testNames, mailboxes, email>>
    BY <1>3 DEF SetPassword, Fail, Die, tables
  <2> QED  BY <1>1, <2>1, <2>2, QuietReply
<1> QED  BY <1>1, <1>2, <1>3, ReceiveUncrossed, SignupUncrossed, RemovalUncrossed,
            EmailUncrossed DEF Next, Writes

(***************************************************************************)
(* While the handlers run one after another: they may fail, die or lose    *)
(* the mail server's answer at any step, but no two requests overlap.      *)
(***************************************************************************)

----------------------------------------------------------------------------
(* One handler at a time. *)

Alone == \A v, w \in Workers : v # w => At(v, "idle") \/ At(w, "idle")

\* The course only worsens.
LEMMA SmoothBefore ==
    ASSUME TypeOK, [Next]_vars
    PROVE  /\ Smooth' => Smooth
           /\ course' = "calm" => course = "calm"
<1>1. course' \in {course, "crossed"} \/ Lose \/ \E c \in BOOLEAN : Overlap(c)
  BY DEF Next, vars, Receive, Signup, ResetPassword, Delete, Cleanup, Start, Busy, SigningUp,
         SignupStep, CheckName, CheckRetired, CheckEmail, InsertMailbox, CreateUser,
         UndoInsert, SetStalwartId, StoreDetail, MarkDetailVerified, UndoCreate, UndoRow,
         SetPassword, DeleteStep, DeleteDestroysUser, DeleteReadsEmail,
         DeleteRevokesEmail, IsRetired, Retire, DeleteRow, CleanupStep,
         CleanupDestroysUser, CleanupDeletesDetail, CleanupDeletesRow, PublishEmail,
         RequestLink, ConfirmEmail, RevokeEmail, Answered, Fail, Die
<1>2. course \in Courses
  BY DEF TypeOK
<1> QED  BY <1>1, <1>2 DEF Lose, Overlap, Smooth, Courses

\* The only handler in progress is w's, before and after its step.
LEMMA AloneMoves ==
    ASSUME TypeOK, NEW w \in Workers, \A v \in Workers \ {w} : At(v, "idle"),
           NEW new, Moves(w, new)
    PROVE  /\ Alone'
           /\ worker'[w] = new
           /\ \A v \in Workers \ {w} : worker'[v] = Idle
<1>1. \A v \in Workers \ {w} : worker[v] = Idle
  BY JobKinds DEF At, TypeOK, Jobs
<1>2. worker'[w] = new /\ \A v \in Workers \ {w} : worker'[v] = Idle
  BY <1>1 DEF Moves, TypeOK
<1>3. \A v, u \in Workers : v # u => worker'[v].pc = "idle" \/ worker'[u].pc = "idle"
  BY <1>2 DEF Idle
<1> QED  BY <1>2, <1>3 DEF Alone, At

\* A handler starts when all are idle.
LEMMA AloneStarts ==
    ASSUME NEW w \in Workers, NEW job \in Jobs, Start(w, job), Smooth'
    PROVE  Moves(w, job) /\ \A v \in Workers : At(v, "idle")
BY DEF Start, Moves, Overlap, Smooth

\* The details are written by other handlers when all are idle.
LEMMA AloneEmail ==
    ASSUME NEW i \in Identities, Smooth', Writes(i)
    PROVE  \A v \in Workers : At(v, "idle")
BY DEF Writes, RevokeEmail, PublishEmail, RequestLink, ConfirmEmail, Overlap, Smooth

AloneInv == UncrossedInv /\ (Smooth => Alone)

\* A handler in progress takes the step, and is the only one.
Acts(w) == SignupStep(w) \/ SetPassword(w) \/ DeleteStep(w) \/ CleanupStep(w) \/ Fail(w) \/ Die(w)

LEMMA ActsAlone ==
    ASSUME Alone, NEW w \in Workers, Acts(w)
    PROVE  \A v \in Workers \ {w} : At(v, "idle")
<1>1. ~At(w, "idle")
  BY DEF Acts, SignupStep, CheckName, CheckRetired, CheckEmail, InsertMailbox, CreateUser,
         UndoInsert, SetStalwartId, StoreDetail, MarkDetailVerified, UndoCreate, UndoRow,
         SetPassword, DeleteStep, DeleteDestroysUser, DeleteReadsEmail, DeleteRevokesEmail,
         IsRetired, Retire, DeleteRow, CleanupStep, CleanupDestroysUser,
         CleanupDeletesDetail, CleanupDeletesRow, Fail, Die, At
<1> QED  BY <1>1 DEF Alone

\* A step of a handler changes its own job only.
LEMMA ActsMoves ==
    ASSUME TypeOK, TypeOK', NEW w \in Workers, Acts(w)
    PROVE  Moves(w, worker'[w])
<1>1. \E new : worker' = [worker EXCEPT ![w] = new]
  BY DEF Acts, SignupStep, CheckName, CheckRetired, CheckEmail, InsertMailbox, CreateUser,
         UndoInsert, SetStalwartId, StoreDetail, MarkDetailVerified, UndoCreate, UndoRow,
         SetPassword, DeleteStep, DeleteDestroysUser, DeleteReadsEmail, DeleteRevokesEmail,
         IsRetired, Retire, DeleteRow, CleanupStep, CleanupDestroysUser,
         CleanupDeletesDetail, CleanupDeletesRow, Fail, Die, Reply, Goto,
         Answered
<1> QED  BY <1>1 DEF Moves, TypeOK, Jobs

\* Requests that begin, with what they have found.
Begins(w, job) ==
    /\ Start(w, job) /\ job \in Jobs
    /\ UNCHANGED <<tables, stalwart, holders>>
    /\ \/ job.pc = "name"
       \/ /\ job.pc = "setPassword"
          /\ \E n \in Names : /\ mailboxes[n].owner = job.who
                              /\ mailboxes[n].account = job.account
       \/ /\ job.pc \in {"destroy", "readEmail", "cleanDestroy", "cleanDetail"}
          /\ mailboxes[job.name].account = job.account
          /\ job.pc \in {"readEmail", "cleanDetail"} => job.account = None

LEMMA ReceiveBegins ==
    ASSUME TypeOK, NEW w \in Workers, Receive(w)
    PROVE  \E job : Begins(w, job)
<1>1. ASSUME NEW i \in Identities, NEW n \in Names, Signup(w, i, n)
      PROVE  \E job : Begins(w, job)
  <2> DEFINE job == [pc |-> "name", who |-> i, name |-> n, had |-> FALSE]
  <2>1. job \in Jobs /\ job.pc = "name"
    BY DEF Jobs, Job, ToCreate
  <2>2. Start(w, job) /\ UNCHANGED <<tables, stalwart, holders>>
    BY <1>1 DEF Signup
  <2> HIDE DEF job
  <2> QED  BY <2>1, <2>2 DEF Begins
<1>2. ASSUME NEW i \in Identities, ResetPassword(w, i)
      PROVE  \E job : Begins(w, job)
  <2>1. PICK n \in Names :
           /\ mailboxes[n].owner = i /\ mailboxes[n].account # None
           /\ Start(w, [pc |-> "setPassword", who |-> i, account |-> mailboxes[n].account])
    BY <1>2 DEF ResetPassword, NamesOf
  <2>2. mailboxes[n].account \in Accounts
    BY <2>1 DEF TypeOK, Row, NoRow
  <2> QED  BY <1>2, <2>1, <2>2 DEF ResetPassword, Begins, Jobs, Job
<1>3. ASSUME NEW i \in Identities, Delete(w, i)
      PROVE  \E job : Begins(w, job)
  <2>1. PICK n \in Names :
           Start(w, [pc |-> IF mailboxes[n].account = None THEN "readEmail" ELSE "destroy",
                     who |-> i, name |-> n, account |-> mailboxes[n].account])
    BY <1>3 DEF Delete, NamesOf
  <2>2. mailboxes[n].account \in Accounts \union {None}
    BY DEF TypeOK, Row, NoRow
  <2> QED  BY <1>3, <2>1, <2>2 DEF Delete, Begins, Jobs, Job, ToDelete
<1>4. ASSUME NEW n \in Names, Cleanup(w, n)
      PROVE  \E job : Begins(w, job)
  <2>1. mailboxes[n] \in Row
    BY <1>4 DEF Cleanup, TypeOK
  <2> QED  BY <1>4, <2>1 DEF Cleanup, Begins, Row, Jobs, Job, ToClean
<1> QED  BY <1>1, <1>2, <1>3, <1>4 DEF Receive

LEMMA AloneInvInit == Init => AloneInv
BY UncrossedInvInit DEF Init, AloneInv, Alone, At, Idle

LEMMA AloneInvNext == AloneInv /\ [Next]_vars => AloneInv'
<1> SUFFICES ASSUME AloneInv, [Next]_vars, Smooth' PROVE Alone'
  BY UncrossedInvNext DEF AloneInv
<1>1. TypeOK /\ TypeOK' /\ Alone
  BY UncrossedInvNext, SmoothBefore DEF AloneInv, UncrossedInv
<1>2. CASE UNCHANGED vars
  BY <1>1, <1>2 DEF vars, Alone, At
<1>3. ASSUME NEW w \in Workers, Receive(w)
      PROVE  Alone'
  <2>1. PICK job : Begins(w, job)
    BY <1>1, <1>3, ReceiveBegins
  <2>2. Moves(w, job) /\ \A v \in Workers : At(v, "idle")
    BY <2>1, AloneStarts DEF Begins
  <2> QED  BY <1>1, <2>2, AloneMoves
<1>4. ASSUME NEW w \in Workers, Acts(w)
      PROVE  Alone'
  BY <1>1, <1>4, ActsAlone, ActsMoves, AloneMoves
<1>5. ASSUME NEW i \in Identities, Writes(i)
      PROVE  Alone'
  BY <1>1, <1>5 DEF Writes, RevokeEmail, PublishEmail, RequestLink, ConfirmEmail, Alone, At
<1> QED  BY <1>2, <1>3, <1>4, <1>5 DEF Next, Acts, Writes

----------------------------------------------------------------------------
(* A name goes to one identity. *)

\* What a handler in progress knows about its name.
NameSound(job, mb, rt, em, hd) ==
    /\ job.pc \in {"retired", "email", "insert"} => mb[job.name] = NoRow
    /\ job.pc \in {"email", "insert"} => job.name \notin rt
    /\ job.pc \in Inserted => job.name \in testNames \/ hd[job.name] = {}
    /\ job.pc = "verify" /\ em[job.who] # NoDetail => em[job.who].name = job.name
    /\ job.pc = "deleteRow" => job.name \in rt

\* A name that was given has one holder, and is in use or retired.
HeldOnce ==
    \A n \in Names \ testNames :
       /\ \A i, j \in holders[n] : i = j
       /\ holders[n] = {} \/ n \in retired \/ mailboxes[n] # NoRow

NamesFit ==
    /\ HeldOnce
    /\ \A w \in Workers : NameSound(worker[w], mailboxes, retired, email, holders)

NamesInv == AloneInv /\ (Smooth => NamesFit)

LEMMA NameSoundIdle == \A mb, rt, em, hd : NameSound(Idle, mb, rt, em, hd)
BY DEF NameSound, Idle, Inserted, Created

\* The job after a reply, or at the next call.
LEMMA ReplyJob ==
    ASSUME TypeOK, NEW w \in Workers, Reply(w)
    PROVE  worker'[w] = Idle
BY DEF Reply, TypeOK

LEMMA GotoJob ==
    ASSUME TypeOK, NEW w \in Workers, NEW pc, Goto(w, pc),
           \/ worker[w].pc \in ToCreate /\ pc \in ToCreate
           \/ worker[w].pc \in Created /\ pc \in Created
           \/ worker[w].pc \in ToDelete \union ToClean /\ pc \in ToDelete \union ToClean
    PROVE  /\ worker'[w].pc = pc
           /\ worker'[w].who = worker[w].who
           /\ worker'[w].name = worker[w].name
           /\ worker'[w].account = worker[w].account
<1>1. worker[w] \in Jobs
  BY DEF TypeOK, Jobs
<1>2. worker'[w] = [worker[w] EXCEPT !.pc = pc]
  BY DEF Goto, TypeOK
<1> QED  BY <1>1, <1>2, GotoKeepsKind

LEMMA NamesStep ==
    ASSUME TypeOK, NEW w \in Workers, \A v \in Workers \ {w} : At(v, "idle"),
           NEW new, Moves(w, new), testNames' = testNames, HeldOnce',
           NameSound(new, mailboxes', retired', email', holders')
    PROVE  NamesFit'
<1>1. \A v \in Workers : worker'[v] \in {Idle, new}
  BY AloneMoves
<1>2. \A v \in Workers : NameSound(worker'[v], mailboxes', retired', email', holders')
  BY <1>1, NameSoundIdle
<1>3. (\A v \in Workers : NameSound(worker[v], mailboxes, retired, email, holders))'
  BY <1>2 DEF NameSound
<1> QED  BY <1>3 DEF NamesFit

LEMMA SignupNames ==
    ASSUME TypeOK, TypeOK', Smooth', Uncrossed, Alone, NamesFit, NEW w \in Workers,
           SignupStep(w)
    PROVE  NamesFit'
<1> DEFINE job == worker[w]
           i == job.who
           n == job.name
           Sounds == NameSound(worker'[w], mailboxes', retired', email', holders')
<1>1. job \in Jobs /\ NameSound(job, mailboxes, retired, email, holders)
  BY DEF TypeOK, Jobs, NamesFit
<1>2. testNames' = testNames /\ HeldOnce
  BY DEF SignupStep, CheckName, CheckRetired, CheckEmail, InsertMailbox, CreateUser,
         UndoInsert, SetStalwartId, StoreDetail, MarkDetailVerified, UndoCreate, UndoRow,
         tables, NamesFit
<1> SUFFICES HeldOnce' /\ Sounds
  BY <1>2, ActsAlone, ActsMoves, NamesStep DEF Acts
<1>3. Reply(w) => Sounds
  BY ReplyJob, NameSoundIdle
<1> course' # "crossed"
  BY DEF Smooth
<1>4. CASE CheckName(w) \/ CheckRetired(w)
  <2>1. HeldOnce'
    BY <1>2, <1>4 DEF CheckName, CheckRetired, tables, HeldOnce
  <2>2. ASSUME NEW pc, Goto(w, pc), \/ job.pc = "name" /\ pc = "retired" /\ mailboxes[n] = NoRow
                                    \/ job.pc = "retired" /\ pc = "email" /\ n \notin retired
        PROVE  Sounds
    <3>1. worker'[w].pc = pc /\ worker'[w].name = n
      BY <2>2, GotoJob DEF ToCreate
    <3> QED  BY <1>1, <1>4, <2>2, <3>1
             DEF CheckName, CheckRetired, tables, NameSound, Inserted, Created
  <2> QED  BY <1>3, <1>4, <2>1, <2>2 DEF CheckName, CheckRetired, At
<1>5. CASE CheckEmail(w)
  <2>1. HeldOnce' /\ job.pc = "email" /\ UNCHANGED <<mailboxes, retired, email, holders>>
    BY <1>2, <1>5 DEF CheckEmail, At, tables, HeldOnce
  <2>2. CASE worker' = [worker EXCEPT ![w].pc = "insert", ![w].had = email[i] # NoDetail]
    <3>1. job \in SignupJob
      BY <1>1, <2>1, JobKinds DEF ToCreate
    <3>2. worker'[w].pc = "insert" /\ worker'[w].name = n
      BY <2>2, <3>1 DEF SignupJob, TypeOK
    <3> QED  BY <1>1, <2>1, <3>2 DEF NameSound, Inserted, Created
  <2> QED  BY <1>3, <1>5, <2>1, <2>2 DEF CheckEmail
<1>6. CASE InsertMailbox(w)
  <2>1. job.pc = "insert" /\ UNCHANGED <<retired, email, holders>>
    BY <1>6 DEF InsertMailbox, At
  <2>2. i \in Identities /\ n \in Names
    BY <1>1, <2>1, JobKinds DEF SignupJob, ToCreate
  <2>3. mailboxes[n] = NoRow /\ n \notin retired
    BY <1>1, <2>1 DEF NameSound
  <2>4. CASE Reply(w) /\ UNCHANGED mailboxes
    BY <1>2, <1>3, <2>1, <2>4 DEF HeldOnce
  <2>5. CASE /\ mailboxes' = [mailboxes EXCEPT ![n] = [owner |-> i, account |-> None]]
             /\ Goto(w, "create")
    <3>1. worker'[w].pc = "create" /\ worker'[w].name = n
      BY <2>1, <2>5, GotoJob DEF ToCreate
    <3>2. HeldOnce'
      BY <1>2, <2>1, <2>2, <2>5, NoneAssumption DEF HeldOnce, NoRow, TypeOK
    <3> QED  BY <1>2, <2>1, <2>2, <2>3, <3>1, <3>2 DEF HeldOnce, NameSound, Created
  <2> QED  BY <1>6, <2>4, <2>5 DEF InsertMailbox
<1>7. CASE CreateUser(w)
  <2>1. HeldOnce' /\ job.pc = "create" /\ UNCHANGED <<mailboxes, retired, email, holders>>
    BY <1>2, <1>7 DEF CreateUser, At, tables, HeldOnce
  <2>2. /\ worker'[w].pc \in {"undoInsert", "setId"}
        /\ worker'[w].name = n
    <3>1. CASE Goto(w, "undoInsert")
      BY <2>1, <3>1, GotoJob DEF ToCreate
    <3>2. ASSUME NEW a, worker' = [worker EXCEPT ![w] = [pc |-> "setId", who |-> i,
                                     name |-> n, had |-> job.had, account |-> a]]
          PROVE  worker'[w].pc = "setId" /\ worker'[w].name = n
      BY <3>2 DEF TypeOK
    <3> QED  BY <1>7, <3>1, <3>2 DEF CreateUser
  <2> QED  BY <1>1, <2>1, <2>2 DEF NameSound, Inserted, Created
<1>8. CASE UndoInsert(w) \/ UndoRow(w)
  <2>1. /\ Reply(w) /\ UNCHANGED <<retired, email, holders>> /\ job.pc \in Inserted
        /\ DeleteMailbox(n) \/ UNCHANGED mailboxes
    BY <1>8 DEF UndoInsert, UndoRow, At, Inserted, Created
  <2>2. n \in testNames \/ holders[n] = {}
    BY <1>1, <2>1 DEF NameSound
  <2>3. HeldOnce'
    BY <1>2, <2>1, <2>2 DEF HeldOnce, DeleteMailbox, TypeOK
  <2> QED  BY <1>3, <2>1, <2>3
<1>9. CASE SetStalwartId(w)
  <2>1. job.pc = "setId" /\ UNCHANGED <<retired, email, holders>>
    BY <1>9 DEF SetStalwartId, At
  <2>2. PICK pc \in {"detail", "undoCreate"} : Goto(w, pc)
    BY <1>9 DEF SetStalwartId, Answered
  <2>3. worker'[w].pc = pc /\ worker'[w].name = n
    BY <2>1, <2>2, GotoJob DEF Created
  <2>4. \A m \in Names : mailboxes[m] # NoRow => mailboxes'[m] # NoRow
    <3>1. \A m \in Names : mailboxes'[m].owner = mailboxes[m].owner
      BY <1>9 DEF SetStalwartId, TypeOK, Row
    <3> QED  BY <3>1, NoneAssumption DEF TypeOK, Row, NoRow
  <2>5. HeldOnce'
    BY <1>2, <2>1, <2>4 DEF HeldOnce
  <2> QED  BY <1>1, <1>2, <2>1, <2>3, <2>5 DEF NameSound, Inserted, Created
<1>10. CASE StoreDetail(w)
  <2>1. HeldOnce' /\ job.pc = "detail" /\ UNCHANGED <<mailboxes, retired, holders>>
    BY <1>2, <1>10 DEF StoreDetail, At, HeldOnce
  <2>2. i \in Identities /\ n \in Names
    BY <1>1, <2>1, JobKinds DEF CreatedJob, Created
  <2>3. PICK pc \in {"verify", "undoCreate"} :
          Goto(w, pc) /\ (pc = "verify" => email'[i] \in {NoDetail, StoredEmail(n, None)})
    BY <1>10, <2>2 DEF StoreDetail, Answered, TypeOK
  <2>4. worker'[w].pc = pc /\ worker'[w].name = n /\ worker'[w].who = i
    BY <2>1, <2>3, GotoJob DEF Created
  <2> QED  BY <1>1, <2>1, <2>3, <2>4 DEF NameSound, Inserted, Created, StoredEmail
<1>11. CASE MarkDetailVerified(w)
  <2>1. job.pc = "verify" /\ UNCHANGED <<mailboxes, retired>>
    BY <1>11 DEF MarkDetailVerified, At
  <2>2. i \in Identities /\ n \in Names /\ (n \in testNames \/ holders[n] = {})
    BY <1>1, <2>1, JobKinds DEF CreatedJob, Created, NameSound, Inserted
  <2>3. CASE UNCHANGED <<email, holders>> /\ Goto(w, "undoCreate")
    <3>1. worker'[w].pc = "undoCreate" /\ worker'[w].name = n
      BY <2>1, <2>3, GotoJob DEF Created
    <3>2. HeldOnce'
      BY <1>2, <2>1, <2>3 DEF HeldOnce
    <3> QED  BY <1>1, <1>2, <2>1, <2>2, <2>3, <3>1, <3>2 DEF NameSound
  <2>4. CASE /\ holders' = IF ~Smooth \/ email[i] = NoDetail THEN holders
                           ELSE [holders EXCEPT ![email[i].name] = @ \union {i}]
             /\ Reply(w)
    <3>1. email[i] # NoDetail => email[i].name = n
      BY <1>1, <2>1 DEF NameSound
    <3>2. \/ holders' = holders
          \/ holders' = [holders EXCEPT ![n] = holders[n] \union {i}]
      BY <2>4, <3>1
    <3>3. mailboxes[n] # NoRow
      <4>1. mailboxes[n].owner = i
        BY <2>1 DEF Uncrossed, Sound, HavingRow, Inserted, Created
      <4> QED  BY <2>2, <4>1, NoneAssumption DEF NoRow
    <3>4. HeldOnce'
      BY <1>2, <2>1, <2>2, <3>2, <3>3 DEF HeldOnce, TypeOK
    <3> QED  BY <1>3, <2>4, <3>4
  <2> QED  BY <1>11, <2>3, <2>4 DEF MarkDetailVerified, Answered
<1>12. CASE UndoCreate(w)
  <2>1. HeldOnce' /\ job.pc = "undoCreate" /\ UNCHANGED <<mailboxes, retired, email, holders>>
    BY <1>2, <1>12 DEF UndoCreate, At, tables, HeldOnce
  <2>2. worker'[w].pc = "undoRow" /\ worker'[w].name = n
    BY <1>12, <2>1, GotoJob DEF UndoCreate, Created
  <2> QED  BY <1>1, <2>1, <2>2 DEF NameSound, Inserted, Created
<1> QED  BY <1>4, <1>5, <1>6, <1>7, <1>8, <1>9, <1>10, <1>11, <1>12 DEF SignupStep

LEMMA RemovalNames ==
    ASSUME TypeOK, TypeOK', Uncrossed, Alone, NamesFit, NEW w \in Workers,
           DeleteStep(w) \/ CleanupStep(w)
    PROVE  NamesFit'
<1> DEFINE job == worker[w]
           i == job.who
           n == job.name
           Sounds == NameSound(worker'[w], mailboxes', retired', email', holders')
<1>1. job \in Jobs /\ NameSound(job, mailboxes, retired, email, holders)
  BY DEF TypeOK, Jobs, NamesFit
<1>2. UNCHANGED <<testNames, holders>> /\ HeldOnce
  BY DEF DeleteStep, DeleteDestroysUser, DeleteReadsEmail, DeleteRevokesEmail, IsRetired,
         Retire, DeleteRow, CleanupStep, CleanupDestroysUser, CleanupDeletesDetail,
         CleanupDeletesRow, tables, NamesFit
<1> SUFFICES HeldOnce' /\ Sounds
  BY <1>2, ActsAlone, ActsMoves, NamesStep DEF Acts
<1>3. Reply(w) => Sounds
  BY ReplyJob, NameSoundIdle
<1>4. ASSUME NEW pc, Goto(w, pc), job.pc \in ToDelete \union ToClean,
             pc \in ToDelete \union ToClean, pc = "deleteRow" => n \in retired'
      PROVE  Sounds
  <2>1. worker'[w].pc = pc /\ worker'[w].name = n
    BY <1>4, GotoJob
  <2> QED  BY <1>4, <2>1 DEF NameSound, Inserted, Created, ToDelete, ToClean
<1>5. CASE \/ DeleteDestroysUser(w) \/ DeleteReadsEmail(w) \/ DeleteRevokesEmail(w)
           \/ CleanupDestroysUser(w) \/ CleanupDeletesDetail(w)
  <2>1. HeldOnce'
    BY <1>2, <1>5 DEF DeleteDestroysUser, DeleteReadsEmail, DeleteRevokesEmail,
                      CleanupDestroysUser, CleanupDeletesDetail, tables, HeldOnce
  <2>2. Sounds
    BY <1>3, <1>4, <1>5 DEF DeleteDestroysUser, DeleteReadsEmail, DeleteRevokesEmail,
                            CleanupDestroysUser, CleanupDeletesDetail, At, ToDelete, ToClean
  <2> QED  BY <2>1, <2>2
<1>6. CASE IsRetired(w)
  <2>1. HeldOnce'
    BY <1>2, <1>6 DEF IsRetired, tables, HeldOnce
  <2>2. Sounds
    BY <1>4, <1>6 DEF IsRetired, At, tables, ToDelete
  <2> QED  BY <2>1, <2>2
<1>7. CASE Retire(w)
  <2>1. HeldOnce'
    BY <1>2, <1>7 DEF Retire, HeldOnce
  <2>2. CASE Reply(w)
    BY <1>3, <2>1, <2>2
  <2>3. CASE retired' = retired \union {n} /\ Goto(w, "deleteRow")
    BY <1>4, <1>7, <2>1, <2>3 DEF Retire, At, ToDelete
  <2> QED  BY <1>7, <2>2, <2>3 DEF Retire
<1>8. CASE DeleteRow(w) \/ CleanupDeletesRow(w)
  <2>1. /\ Reply(w) /\ DeleteMailbox(n) /\ UNCHANGED retired
        /\ job.pc \in {"deleteRow", "cleanRow"}
    BY <1>8 DEF DeleteRow, CleanupDeletesRow, At
  <2>2. n \in testNames \/ n \in retired
    BY <1>1, <2>1 DEF NameSound, Uncrossed, Sound, ToClean
  <2>3. HeldOnce'
    BY <1>2, <2>1, <2>2 DEF HeldOnce, DeleteMailbox, TypeOK
  <2> QED  BY <1>3, <2>1, <2>3
<1> QED  BY <1>5, <1>6, <1>7, <1>8 DEF DeleteStep, CleanupStep

\* Steps that leave the names alone.
LEMMA QuietNames ==
    ASSUME NamesFit, UNCHANGED <<testNames, mailboxes, retired, holders>>
    PROVE  HeldOnce'
BY DEF NamesFit, HeldOnce

LEMMA NamesInvInit == Init => NamesInv
<1> SUFFICES ASSUME Init PROVE NamesFit
  BY AloneInvInit DEF NamesInv
<1>1. HeldOnce
  BY DEF Init, HeldOnce
<1>2. \A w \in Workers : NameSound(worker[w], mailboxes, retired, email, holders)
  BY NameSoundIdle DEF Init
<1> QED  BY <1>1, <1>2 DEF NamesFit

LEMMA NamesInvNext == NamesInv /\ [Next]_vars => NamesInv'
<1> SUFFICES ASSUME NamesInv, [Next]_vars, Smooth' PROVE NamesFit'
  BY AloneInvNext DEF NamesInv
<1>1. TypeOK /\ TypeOK' /\ Smooth /\ Alone /\ NamesFit
  BY AloneInvNext, SmoothBefore DEF NamesInv, AloneInv, UncrossedInv
<1>2. Uncrossed
  BY <1>1 DEF NamesInv, AloneInv, UncrossedInv, Smooth
<1>3. CASE UNCHANGED vars
  BY <1>1, <1>3 DEF vars, NamesFit, HeldOnce, NameSound
<1>4. ASSUME NEW w \in Workers, SetPassword(w) \/ Fail(w) \/ Die(w)
      PROVE  NamesFit'
  <2>1. Reply(w) /\ UNCHANGED <<testNames, mailboxes, retired, holders>>
    BY <1>4 DEF SetPassword, Fail, Die, tables
  <2> QED  BY <1>1, <1>4, <2>1, ActsAlone, ReplyMoves, QuietNames, NameSoundIdle, NamesStep
           DEF Acts
<1>5. ASSUME NEW w \in Workers, Receive(w)
      PROVE  NamesFit'
  <2>1. PICK job : Begins(w, job)
    BY <1>1, <1>5, ReceiveBegins
  <2>2. Moves(w, job) /\ \A v \in Workers : At(v, "idle")
    BY <2>1, AloneStarts DEF Begins
  <2>3. UNCHANGED <<testNames, mailboxes, retired, holders>>
    BY <2>1 DEF Begins, tables
  <2>4. NameSound(job, mailboxes', retired', email', holders')
    BY <2>1 DEF Begins, NameSound, Inserted, Created
  <2> QED  BY <1>1, <2>2, <2>3, <2>4, QuietNames, NamesStep
<1>6. ASSUME NEW i \in Identities, Writes(i)
      PROVE  NamesFit'
  <2>1. \A v \in Workers : worker'[v] = Idle
    <3>1. \A v \in Workers : At(v, "idle")
      BY <1>6, AloneEmail
    <3>2. \A v \in Workers : worker[v] \in Jobs
      BY <1>1 DEF TypeOK, Jobs
    <3>3. worker' = worker
      BY <1>6 DEF Writes, RevokeEmail, PublishEmail, RequestLink, ConfirmEmail
    <3> QED  BY <3>1, <3>2, <3>3, JobKinds DEF At
  <2>2. UNCHANGED <<testNames, mailboxes, retired, holders>>
    BY <1>6 DEF Writes, RevokeEmail, PublishEmail, RequestLink, ConfirmEmail
  <2>3. \A v \in Workers : worker'[v].pc = "idle"
    BY <2>1 DEF Idle
  <2>4. (\A v \in Workers : NameSound(worker[v], mailboxes, retired, email, holders))'
    BY <2>3 DEF NameSound, Inserted, Created
  <2> QED  BY <1>1, <2>2, <2>4, QuietNames DEF NamesFit
<1> QED  BY <1>1, <1>2, <1>3, <1>4, <1>5, <1>6, SignupNames, RemovalNames
         DEF Next, Writes

\* Handlers that do not overlap give a name to one identity, once and for all, wherever a
\* sign-up or a deletion fails or dies (mail-signup.ts:209-274 and 404-424).
THEOREM NameStaysRetired == Spec => []NeverReissued
<1>1. NamesInv => NeverReissued
  <2> SUFFICES ASSUME NamesInv, Smooth, NEW n \in Names \ testNames
               PROVE  Cardinality(holders[n]) <= 1
    BY DEF NeverReissued
  <2>1. \A i, j \in holders[n] : i = j
    BY DEF NamesInv, NamesFit, HeldOnce
  <2>2. CASE holders[n] = {}
    <3>1. Cardinality(holders[n]) = 0
      BY <2>2, FS_EmptySet
    <3> QED  BY <3>1
  <2>3. CASE holders[n] # {}
    <3>1. PICK i : i \in holders[n]
      BY <2>3
    <3>2. holders[n] = {i}
      BY <2>1, <3>1
    <3>3. Cardinality(holders[n]) = 1
      BY <3>2, FS_Singleton
    <3> QED  BY <3>3
  <2> QED  BY <2>2, <2>3
<1> QED  BY <1>1, NamesInvInit, NamesInvNext, PTL DEF Spec

----------------------------------------------------------------------------
(* A password is set on the own account, under every interleaving of different          *)
(* identities.                                                                          *)

\* The account a is gone, or is that of name n for i.
Belongs(st, a, n, i) == st[a] = NoAccount \/ st[a] = [name |-> n, owner |-> i]

\* So is the account a handler was given, or has read.
AccountSound(job, st) ==
    /\ job.pc \in Created \union ToDelete \union ToClean /\ job.account # None =>
          Belongs(st, job.account, job.name, job.who)
    /\ job.pc = "setPassword" =>
          st[job.account] = NoAccount \/ st[job.account].owner = job.who

\* So is the account a row names.
AccountsOwned ==
    \A n \in Names :
       mailboxes[n].account # None =>
          Belongs(stalwart, mailboxes[n].account, n, mailboxes[n].owner)

\* The mail server has one account of a name.
NamesUnique ==
    \A a, b \in Accounts :
       stalwart[a] # NoAccount /\ stalwart[b] # NoAccount
          /\ stalwart[a].name = stalwart[b].name => a = b

AccountsFit ==
    /\ AccountsOwned
    /\ NamesUnique
    /\ \A w \in Workers : AccountSound(worker[w], stalwart)

AccountsInv == UncrossedInv /\ (course # "crossed" => AccountsFit)

\* The account a handler may hold.
LEMMA JobAccounts ==
    ASSUME NEW job \in Jobs
    PROVE  /\ job.pc \in Created \union {"setPassword"} => job.account \in Accounts
           /\ job.pc \in ToDelete \union ToClean => job.account \in Accounts \union {None}
BY JobKinds DEF CreatedJob, ResetJob, RemovalJob

\* A step that destroys accounts at most, and leaves each row or writes it properly.
LEMMA AccountsStep ==
    ASSUME TypeOK, AccountsFit, NEW w \in Workers, NEW new, Moves(w, new),
           \A a \in Accounts : stalwart'[a] \in {stalwart[a], NoAccount},
           \A n \in Names : \/ mailboxes'[n] = mailboxes[n]
                            \/ mailboxes'[n].account = None
                            \/ /\ mailboxes'[n].account \in Accounts
                               /\ Belongs(stalwart, mailboxes'[n].account, n,
                                          mailboxes'[n].owner),
           AccountSound(new, stalwart)
    PROVE  AccountsFit'
<1>1. ASSUME NEW n \in Names, mailboxes'[n].account # None
      PROVE  Belongs(stalwart', mailboxes'[n].account, n, mailboxes'[n].owner)
  <2>1. mailboxes[n].account \in Accounts \union {None}
    BY DEF TypeOK, Row, NoRow
  <2> QED  BY <1>1, <2>1 DEF AccountsFit, AccountsOwned, Belongs
<1>2. NamesUnique'
  BY DEF AccountsFit, NamesUnique
<1>3. ASSUME NEW v \in Workers
      PROVE  AccountSound(worker'[v], stalwart')
  <2>1. worker'[v] \in Jobs /\ AccountSound(worker'[v], stalwart)
    BY DEF AccountsFit, Moves, TypeOK, Jobs
  <2> QED  BY <2>1, JobAccounts DEF AccountSound, Belongs
<1>4. (\A v \in Workers : AccountSound(worker[v], stalwart))'
  BY <1>3 DEF AccountSound, Belongs
<1>5. AccountsOwned'
  BY <1>1 DEF AccountsOwned, Belongs
<1> QED  BY <1>2, <1>4, <1>5 DEF AccountsFit

\* The next call is for the same name and account.
LEMMA GotoAccount ==
    ASSUME TypeOK, AccountsFit, NEW w \in Workers, NEW pc, Goto(w, pc),
           \/ worker[w].pc \in ToCreate /\ pc \in ToCreate
           \/ worker[w].pc \in Created /\ pc \in Created
           \/ worker[w].pc \in ToDelete \union ToClean /\ pc \in ToDelete \union ToClean
    PROVE  Moves(w, worker'[w]) /\ AccountSound(worker'[w], stalwart)
<1>1. /\ worker'[w].pc = pc /\ worker'[w].who = worker[w].who
      /\ worker'[w].name = worker[w].name /\ worker'[w].account = worker[w].account
  BY GotoJob
<1>2. AccountSound(worker[w], stalwart)
  BY DEF AccountsFit
<1>3. Moves(w, worker'[w])
  BY GotoMoves DEF Moves, TypeOK
<1> QED  BY <1>1, <1>2, <1>3 DEF AccountSound, ToCreate, Created, ToDelete, ToClean

LEMMA ReplyAccount ==
    ASSUME TypeOK, NEW w \in Workers, Reply(w)
    PROVE  Moves(w, worker'[w]) /\ AccountSound(worker'[w], stalwart)
<1>1. worker'[w] = Idle
  BY ReplyJob
<1> QED  BY <1>1, ReplyMoves DEF AccountSound, Idle, Created, ToDelete, ToClean

\* The handlers that create no account and write no account to a row.
Lessens(w) ==
    \/ CheckName(w) \/ CheckRetired(w) \/ CheckEmail(w) \/ InsertMailbox(w)
    \/ UndoInsert(w) \/ StoreDetail(w) \/ MarkDetailVerified(w) \/ UndoCreate(w)
    \/ UndoRow(w) \/ SetPassword(w) \/ DeleteStep(w) \/ CleanupStep(w)
    \/ Fail(w) \/ Die(w)

LEMMA LessAccounts ==
    ASSUME TypeOK, AccountsFit, NEW w \in Workers, Lessens(w)
    PROVE  AccountsFit'
<1>1. \A n \in Names : mailboxes'[n] = mailboxes[n] \/ mailboxes'[n].account = None
  BY DEF Lessens, CheckName, CheckRetired, CheckEmail, InsertMailbox, UndoInsert, StoreDetail,
         MarkDetailVerified, UndoCreate, UndoRow, SetPassword, DeleteStep,
         DeleteDestroysUser, DeleteReadsEmail, DeleteRevokesEmail, IsRetired, Retire,
         DeleteRow, CleanupStep, CleanupDestroysUser, CleanupDeletesDetail,
         CleanupDeletesRow, Fail, Die, DeleteMailbox, NoRow, tables, TypeOK
<1>2. \A a \in Accounts : stalwart'[a] \in {stalwart[a], NoAccount}
  BY DEF Lessens, CheckName, CheckRetired, CheckEmail, InsertMailbox, UndoInsert, StoreDetail,
         MarkDetailVerified, UndoCreate, UndoRow, SetPassword, DeleteStep,
         DeleteDestroysUser, DeleteReadsEmail, DeleteRevokesEmail, IsRetired, Retire,
         DeleteRow, CleanupStep, CleanupDestroysUser, CleanupDeletesDetail,
         CleanupDeletesRow, Fail, Die, DestroyUser, TypeOK
<1>3. Moves(w, worker'[w]) /\ AccountSound(worker'[w], stalwart)
  <2>1. CASE CheckEmail(w) /\ ~Reply(w)
    <3>1. /\ worker[w].pc = "email" /\ worker[w] \in Jobs
          /\ worker' = [worker EXCEPT ![w].pc = "insert",
                                      ![w].had = email[worker[w].who] # NoDetail]
      BY <2>1 DEF CheckEmail, At, TypeOK, Jobs
    <3>2. worker[w] \in SignupJob
      BY <3>1, JobKinds DEF ToCreate
    <3> DEFINE new == [worker[w] EXCEPT !.pc = "insert", !.had = email[worker[w].who] # NoDetail]
    <3>3. worker' = [worker EXCEPT ![w] = new]
      BY <3>1
    <3>4. new \in Jobs /\ new.pc = "insert"
      BY <3>2 DEF SignupJob, Jobs, Job, ToCreate
    <3> HIDE DEF new
    <3>5. worker'[w] = new
      BY <3>3 DEF TypeOK
    <3> QED  BY <3>3, <3>4, <3>5 DEF Moves, AccountSound, Created, ToDelete, ToClean
  <2>2. CASE Reply(w)
    BY <2>2, ReplyAccount
  <2>3. CASE ~Reply(w) /\ ~CheckEmail(w)
    <3>1. \E pc : /\ Goto(w, pc)
                  /\ \/ worker[w].pc \in ToCreate /\ pc \in ToCreate
                     \/ worker[w].pc \in Created /\ pc \in Created
                     \/ /\ worker[w].pc \in ToDelete \union ToClean
                        /\ pc \in ToDelete \union ToClean
      BY <2>3
      DEF Lessens, CheckName, CheckRetired, InsertMailbox, UndoInsert, StoreDetail,
          MarkDetailVerified, UndoCreate, UndoRow, SetPassword, DeleteStep,
          DeleteDestroysUser, DeleteReadsEmail, DeleteRevokesEmail, IsRetired, Retire,
          DeleteRow, CleanupStep, CleanupDestroysUser, CleanupDeletesDetail,
          CleanupDeletesRow, Fail, Die, Answered, At, ToCreate, Created, ToDelete, ToClean
    <3> QED  BY <3>1, GotoAccount
  <2> QED  BY <2>1, <2>2, <2>3
<1> QED  BY <1>1, <1>2, <1>3, AccountsStep

LEMMA CreateAccounts ==
    ASSUME TypeOK, AccountsFit, NEW w \in Workers, CreateUser(w)
    PROVE  AccountsFit'
<1> DEFINE job == worker[w]
           i == job.who
           n == job.name
<1>1. /\ job \in Jobs /\ job.pc = "create" /\ UNCHANGED mailboxes
      /\ job.who \in Identities /\ job.name \in Names
  BY JobKinds DEF TypeOK, Jobs, CreateUser, At, tables, ToCreate, SignupJob
<1>2. CASE UNCHANGED stalwart /\ Goto(w, "undoInsert")
  <2>1. Moves(w, worker'[w]) /\ AccountSound(worker'[w], stalwart)
    BY <1>1, <1>2, GotoAccount DEF ToCreate
  <2> QED  BY <1>1, <1>2, <2>1, AccountsStep
<1>3. ASSUME NEW a \in FreshAccounts, ~NameInUse(n),
             stalwart' = [stalwart EXCEPT ![a] = [name |-> n, owner |-> i]],
             \/ Goto(w, "undoInsert")
             \/ worker' = [worker EXCEPT ![w] = [pc |-> "setId", who |-> i, name |-> n,
                                                 had |-> job.had, account |-> a]]
      PROVE  AccountsFit'
  <2>1. /\ a \in Accounts /\ stalwart'[a] = [name |-> n, owner |-> i]
        /\ \A b \in Accounts \ {a} : stalwart'[b] = stalwart[b]
        /\ a # None
    BY <1>3, NoneAssumption DEF FreshAccounts, TypeOK
  <2>2. AccountsOwned'
    <3>1. \A m \in Names : mailboxes[m].account # a
      BY DEF FreshAccounts
    <3>2. \A m \in Names : mailboxes[m].account \in Accounts \union {None}
      BY DEF TypeOK, Row, NoRow
    <3> QED  BY <1>1, <2>1, <3>1, <3>2 DEF AccountsFit, AccountsOwned, Belongs
  <2>3. NamesUnique'
    <3>1. \A b \in Accounts \ {a} : stalwart[b].name # n
      BY <1>3 DEF NameInUse
    <3> QED  BY <2>1, <3>1 DEF AccountsFit, NamesUnique
  <2>4. ASSUME NEW v \in Workers
        PROVE  AccountSound(worker'[v], stalwart')
    <3>1. CASE v # w
      <4>1. worker'[v] = worker[v] /\ worker[v] \in Jobs
        BY <1>3, <3>1 DEF TypeOK, Goto, Jobs
      <4>2. AccountSound(worker[v], stalwart)
        BY DEF AccountsFit
      <4>3. worker[v].pc \in {"setPassword"} \union Created \union ToDelete \union ToClean
               => worker[v].account # a
        BY DEF FreshAccounts, ToCreate, Created, ToDelete, ToClean
      <4> QED  BY <2>1, <4>1, <4>2, <4>3, JobAccounts DEF AccountSound, Belongs
    <3>2. CASE v = w /\ Goto(w, "undoInsert")
      <4>1. worker'[w].pc = "undoInsert"
        BY <1>1, <3>2, GotoJob DEF ToCreate
      <4> QED  BY <3>2, <4>1 DEF AccountSound, Created, ToDelete, ToClean
    <3>3. CASE v = w /\ ~Goto(w, "undoInsert")
      <4>1. worker'[w].pc = "setId" /\ worker'[w].who = i /\ worker'[w].name = n
            /\ worker'[w].account = a
        BY <1>3, <3>3 DEF TypeOK
      <4> QED  BY <2>1, <3>3, <4>1 DEF AccountSound, Belongs
    <3> QED  BY <3>1, <3>2, <3>3
  <2>5. (\A v \in Workers : AccountSound(worker[v], stalwart))'
    BY <2>4 DEF AccountSound, Belongs
  <2> QED  BY <2>2, <2>3, <2>5 DEF AccountsFit
<1> QED  BY <1>2, <1>3 DEF CreateUser

LEMMA SetIdAccounts ==
    ASSUME TypeOK, Uncrossed, AccountsFit, NEW w \in Workers, SetStalwartId(w)
    PROVE  AccountsFit'
<1> DEFINE job == worker[w]
<1>1. /\ job \in Jobs /\ job.pc = "setId" /\ UNCHANGED stalwart
      /\ AccountSound(job, stalwart) /\ Sound(job, mailboxes, email)
  BY DEF TypeOK, Jobs, SetStalwartId, At, AccountsFit, Uncrossed
<1>2. /\ job.name \in Names /\ job.account \in Accounts
      /\ mailboxes[job.name].owner = job.who
  BY <1>1, JobKinds DEF CreatedJob, Created, Sound, HavingRow, Inserted
<1>3. ASSUME NEW n \in Names
      PROVE  \/ mailboxes'[n] = mailboxes[n]
             \/ /\ mailboxes'[n].account \in Accounts
                /\ Belongs(stalwart, mailboxes'[n].account, n, mailboxes'[n].owner)
  <2>1. \/ mailboxes'[n] = mailboxes[n]
        \/ n = job.name /\ mailboxes'[n] = [mailboxes[n] EXCEPT !.account = job.account]
    BY <1>1 DEF SetStalwartId
  <2>2. mailboxes[n] \in Row \/ mailboxes[n] = NoRow
    BY DEF TypeOK
  <2>3. CASE n = job.name /\ mailboxes'[n] = [mailboxes[n] EXCEPT !.account = job.account]
    <3>1. mailboxes'[n].account = job.account /\ mailboxes'[n].owner = job.who
      BY <1>2, <2>2, <2>3 DEF Row, NoRow
    <3>2. Belongs(stalwart, job.account, job.name, job.who)
      BY <1>1, <1>2, NoneAssumption DEF AccountSound, Created
    <3> QED  BY <1>2, <2>3, <3>1, <3>2
  <2> QED  BY <2>1, <2>3
<1>4. Moves(w, worker'[w]) /\ AccountSound(worker'[w], stalwart)
  BY <1>1, GotoAccount DEF SetStalwartId, Answered, Created
<1> QED  BY <1>1, <1>3, <1>4, AccountsStep

LEMMA ReceiveAccounts ==
    ASSUME TypeOK, Uncrossed', AccountsFit, NEW w \in Workers, Receive(w)
    PROVE  AccountsFit'
<1>1. PICK job : Begins(w, job)
  BY ReceiveBegins
<1>2. Moves(w, job) /\ worker'[w] = job /\ job \in Jobs /\ UNCHANGED <<mailboxes, stalwart>>
  BY <1>1, StartMoves DEF Begins, Moves, tables, TypeOK
<1>3. AccountSound(job, stalwart)
  <2>1. CASE job.pc = "setPassword"
    <3>1. PICK n \in Names : mailboxes[n].owner = job.who /\ mailboxes[n].account = job.account
      BY <1>1, <2>1 DEF Begins
    <3>2. job.account \in Accounts
      BY <1>2, <2>1, JobAccounts
    <3>3. Belongs(stalwart, job.account, n, job.who)
      BY <3>1, <3>2, NoneAssumption DEF AccountsFit, AccountsOwned
    <3> QED  BY <2>1, <3>3 DEF AccountSound, Belongs, Created, ToDelete, ToClean
  <2>2. CASE job.pc = "name"
    BY <2>2 DEF AccountSound, Created, ToDelete, ToClean
  <2>3. CASE job.pc \in {"destroy", "readEmail", "cleanDestroy", "cleanDetail"}
    <3>1. worker'[w].pc \in HavingRow => mailboxes'[worker'[w].name].owner = worker'[w].who
      BY DEF Uncrossed, Sound
    <3>2. job.name \in Names /\ mailboxes[job.name].owner = job.who
      BY <1>2, <2>3, <3>1, JobKinds DEF HavingRow, ToDelete, ToClean, RemovalJob
    <3>3. mailboxes[job.name].account = job.account
      BY <1>1, <2>3 DEF Begins
    <3> QED  BY <2>3, <3>2, <3>3 DEF AccountSound, AccountsFit, AccountsOwned
  <2> QED  BY <1>1, <2>1, <2>2, <2>3 DEF Begins
<1> QED  BY <1>2, <1>3, AccountsStep

LEMMA QuietAccounts ==
    ASSUME AccountsFit, UNCHANGED <<mailboxes, stalwart, worker>>
    PROVE  AccountsFit'
<1>1. AccountsOwned'
  BY DEF AccountsFit, AccountsOwned, Belongs
<1>2. NamesUnique'
  BY DEF AccountsFit, NamesUnique
<1>3. (\A w \in Workers : AccountSound(worker[w], stalwart))'
  BY DEF AccountsFit, AccountSound, Belongs
<1> QED  BY <1>1, <1>2, <1>3 DEF AccountsFit

LEMMA AccountsInvInit == Init => AccountsInv
BY UncrossedInvInit
DEF Init, AccountsInv, AccountsFit, AccountsOwned, NamesUnique, AccountSound, NoRow, Idle,
    Created, ToDelete, ToClean

LEMMA AccountsInvNext == AccountsInv /\ [Next]_vars => AccountsInv'
<1> SUFFICES ASSUME AccountsInv, [Next]_vars, course' # "crossed" PROVE AccountsFit'
  BY UncrossedInvNext DEF AccountsInv
<1>1. TypeOK /\ Uncrossed /\ Uncrossed' /\ AccountsFit
  BY UncrossedInvNext, CourseWorsens DEF AccountsInv, UncrossedInv
<1>2. CASE UNCHANGED vars
  BY <1>1, <1>2, QuietAccounts DEF vars
<1>3. ASSUME NEW i \in Identities, Writes(i)
      PROVE  AccountsFit'
  BY <1>1, <1>3, QuietAccounts DEF Writes, RevokeEmail, PublishEmail, RequestLink, ConfirmEmail
<1> QED  BY <1>1, <1>2, <1>3, ReceiveAccounts, LessAccounts, CreateAccounts, SetIdAccounts
         DEF Next, SignupStep, Lessens, Writes

\* Whatever other identities sign up for or delete in between, a password is set only on
\* an account of the identity that asks (mail-signup.ts:316-342).
THEOREM PasswordsAreOwn == Spec => ResetsOwnAccount
<1>1. AccountsInv /\ [Next]_vars
         => [\A w \in Workers : /\ At(w, "setPassword")
                                /\ worker'[w] = Idle
                                /\ course # "crossed"
                                /\ stalwart[worker[w].account] # NoAccount
                                => stalwart[worker[w].account].owner = worker[w].who]_vars
  BY DEF AccountsInv, AccountsFit, AccountSound, At
<1> QED  BY <1>1, AccountsInvInit, AccountsInvNext, PTL DEF Spec, ResetsOwnAccount

----------------------------------------------------------------------------
(* Addresses that identities got from their own sign-up or mailbox, under every         *)
(* interleaving of different identities.                                                *)

\* i shows its address by its own sign-up or mailbox, or has only to confirm a link.
Own(em, i) ==
    em[i].state = "active" /\ em[i].reader = i /\ em[i].name \notin testNames

Has(st, n, i) == \E a \in Accounts : st[a] = [name |-> n, owner |-> i]
OnlyOf(st, n, i) == \A a \in Accounts : st[a].name = n => st[a].owner = i

\* Nobody else has an account of that name; and i has one, or the row.
OwnSound(mb, em, st, i) ==
    Own(em, i) => /\ OnlyOf(st, em[i].name, i)
                  /\ mb[em[i].name].owner = i \/ Has(st, em[i].name, i)

OwnJob(job, em, st) ==
    /\ job.pc \in Created /\ job.name \notin testNames => OnlyOf(st, job.name, job.who)
    /\ job.pc \in Settled /\ Own(em, job.who) /\ em[job.who].name = job.name =>
          Has(st, job.name, job.who)

OwnFit ==
    /\ \A i \in Identities : OwnSound(mailboxes, email, stalwart, i)
    /\ \A w \in Workers : OwnJob(worker[w], email, stalwart)

OwnInv == AccountsInv /\ (course # "crossed" => OwnFit)

\* The accounts after a step of a handler for i: it may destroy those of i, and create one
\* for a name whose row is that of i.
OwnAccounts(i) ==
    \A a \in Accounts :
       \/ stalwart'[a] = stalwart[a]
       \/ stalwart'[a] = NoAccount /\ stalwart[a].owner = i
       \/ \E n \in Names : /\ stalwart[a] = NoAccount /\ stalwart'[a] = [name |-> n, owner |-> i]
                           /\ mailboxes[n].owner = i /\ ~NameInUse(n)

LEMMA OwnOthers ==
    ASSUME TypeOK, NEW i \in Identities, OwnAccounts(i), NEW j \in Identities \ {i},
           NEW n \in Names
    PROVE  /\ Has(stalwart, n, j) => Has(stalwart', n, j)
           /\ OnlyOf(stalwart, n, j) /\ (mailboxes[n].owner = j \/ Has(stalwart, n, j))
                 => OnlyOf(stalwart', n, j)
<1>1. ASSUME Has(stalwart, n, j)
      PROVE  Has(stalwart', n, j) /\ NameInUse(n)
  <2>1. PICK a \in Accounts : stalwart[a] = [name |-> n, owner |-> j]
    BY <1>1 DEF Has
  <2>2. stalwart[a] # NoAccount /\ stalwart[a].owner = j /\ stalwart[a].name = n
    BY <2>1, NoneAssumption DEF NoAccount
  <2>3. stalwart'[a] = stalwart[a]
    BY <2>2 DEF OwnAccounts
  <2> QED  BY <2>1, <2>2, <2>3 DEF Has, NameInUse
<1>2. ASSUME OnlyOf(stalwart, n, j), mailboxes[n].owner = j \/ Has(stalwart, n, j),
             NEW a \in Accounts, stalwart'[a].name = n
      PROVE  stalwart'[a].owner = j
  <2>1. CASE stalwart'[a] = stalwart[a]
    BY <1>2, <2>1 DEF OnlyOf
  <2>2. CASE stalwart'[a] = NoAccount
    BY <1>2, <2>2, NoneAssumption DEF NoAccount
  <2>3. CASE \E m \in Names : /\ stalwart'[a] = [name |-> m, owner |-> i]
                              /\ mailboxes[m].owner = i /\ ~NameInUse(m)
    BY <1>1, <1>2, <2>3
  <2> QED  BY <2>1, <2>2, <2>3 DEF OwnAccounts
<1> QED  BY <1>1, <1>2 DEF OnlyOf

LEMMA OwnFitStep ==
    ASSUME TypeOK, Uncrossed, OwnFit, NEW w \in Workers, NEW i \in Identities,
           worker[w].pc # "idle", worker[w].who = i, NEW new, Moves(w, new),
           testNames' = testNames, OwnAccounts(i),
           \A n \in Names : mailboxes[n].owner \notin {None, i}
                               => mailboxes'[n].owner = mailboxes[n].owner,
           \A j \in Identities \ {i} : email'[j] = email[j],
           OwnSound(mailboxes', email', stalwart', i),
           OwnJob(new, email', stalwart')
    PROVE  OwnFit'
<1>1. ASSUME NEW j \in Identities \ {i}
      PROVE  OwnSound(mailboxes', email', stalwart', j)
  <2> SUFFICES ASSUME Own(email, j)
               PROVE  /\ OnlyOf(stalwart', email[j].name, j)
                      /\ mailboxes'[email[j].name].owner = j \/ Has(stalwart', email[j].name, j)
    BY DEF OwnSound, Own
  <2>1. email[j].name \in Names
    BY DEF Own, TypeOK, Detail, NoDetail
  <2>2. /\ OnlyOf(stalwart, email[j].name, j)
        /\ mailboxes[email[j].name].owner = j \/ Has(stalwart, email[j].name, j)
    BY DEF OwnFit, OwnSound
  <2>3. mailboxes[email[j].name].owner = j => mailboxes'[email[j].name].owner = j
    BY <2>1, NoneAssumption
  <2> QED  BY <2>1, <2>2, <2>3, OwnOthers
<1>2. ASSUME NEW v \in Workers
      PROVE  OwnJob(worker'[v], email', stalwart')
  <2>1. CASE v = w
    BY <2>1 DEF Moves, TypeOK
  <2>2. CASE v # w /\ worker[v].pc \in Created \union Settled
    <3> DEFINE job == worker[v]
    <3>1. worker'[v] = job /\ job \in Jobs
      BY <2>2 DEF Moves, TypeOK, Jobs
    <3>2. job.name \in Names /\ job.who \in Identities
      BY <2>2, <3>1, JobKinds DEF CreatedJob, RemovalJob, Created, Settled, ToDelete
    <3>3. job.who # i /\ mailboxes[job.name].owner = job.who
      BY <2>2 DEF Uncrossed, Apart, Sound, Created, Settled, HavingRow, Inserted, ToDelete
    <3>4. OwnJob(job, email, stalwart)
      BY DEF OwnFit
    <3>5. email'[job.who] = email[job.who]
      BY <3>2, <3>3
    <3> HIDE DEF job
    <3>6. job.pc \in Created /\ job.name \notin testNames => OnlyOf(stalwart', job.name, job.who)
      BY <3>2, <3>3, <3>4, OwnOthers DEF OwnJob
    <3>7. job.pc \in Settled /\ Own(email', job.who) /\ email'[job.who].name = job.name
             => Has(stalwart', job.name, job.who)
      BY <3>2, <3>3, <3>4, <3>5, OwnOthers DEF OwnJob, Own
    <3> QED  BY <3>1, <3>6, <3>7 DEF OwnJob
  <2>3. CASE v # w /\ worker[v].pc \notin Created \union Settled
    BY <2>3 DEF Moves, TypeOK, OwnJob
  <2> QED  BY <2>1, <2>2, <2>3
<1>3. (\A v \in Workers : OwnJob(worker[v], email, stalwart))'
  BY <1>2 DEF OwnJob, Own, OnlyOf, Has
<1>4. (\A j \in Identities : OwnSound(mailboxes, email, stalwart, j))'
  BY <1>1 DEF OwnSound, Own, OnlyOf, Has
<1> QED  BY <1>3, <1>4 DEF OwnFit

\* Nothing about i or its handler changes.
LEMMA OwnQuiet ==
    ASSUME TypeOK, Uncrossed, OwnFit, NEW w \in Workers, worker[w].pc # "idle",
           NEW new, Moves(w, new),
           UNCHANGED <<testNames, email, stalwart>>,
           \A n \in Names : mailboxes[n].owner # None => mailboxes'[n].owner = mailboxes[n].owner,
           new.pc \notin Created \union Settled
              \/ /\ new.pc \in Created => worker[w].pc \in Created
                 /\ new.pc \in Settled => worker[w].pc \in Settled
                 /\ new.who = worker[w].who /\ new.name = worker[w].name
    PROVE  OwnFit'
<1>1. worker[w].who \in Identities /\ OwnAccounts(worker[w].who)
  BY JobKinds DEF TypeOK, Jobs, OwnAccounts
<1>2. OwnSound(mailboxes', email', stalwart', worker[w].who)
  <2> SUFFICES ASSUME Own(email, worker[w].who),
                      mailboxes[email[worker[w].who].name].owner = worker[w].who
               PROVE  mailboxes'[email[worker[w].who].name].owner = worker[w].who
    BY <1>1 DEF OwnFit, OwnSound, Own
  <2>1. email[worker[w].who].name \in Names
    BY <1>1 DEF Own, TypeOK, Detail, NoDetail
  <2> QED  BY <1>1, <2>1, NoneAssumption
<1>3. OwnJob(worker[w], email, stalwart)
  BY DEF OwnFit
<1>4. OwnJob(new, email', stalwart')
  BY <1>3 DEF OwnJob, Own
<1> QED  BY <1>1, <1>2, <1>4, OwnFitStep

\* The handler ends.
LEMMA OwnIdle == \A em, st : OwnJob(Idle, em, st)
BY DEF OwnJob, Idle, Created, Settled

\* What a handler in progress moves to.
LEMMA OwnReply ==
    ASSUME TypeOK, NEW w \in Workers, Reply(w)
    PROVE  Moves(w, Idle) /\ Idle.pc \notin Created \union Settled
BY ReplyMoves DEF Idle, Created, Settled

LEMMA OwnGoto ==
    ASSUME TypeOK, NEW w \in Workers, NEW pc, Goto(w, pc),
           \/ worker[w].pc \in ToCreate /\ pc \in ToCreate
           \/ worker[w].pc \in Created /\ pc \in Created
           \/ worker[w].pc \in ToDelete \union ToClean /\ pc \in ToDelete \union ToClean
    PROVE  /\ Moves(w, worker'[w]) /\ worker'[w].pc = pc
           /\ worker'[w].who = worker[w].who /\ worker'[w].name = worker[w].name
           /\ worker'[w].account = worker[w].account
BY GotoJob, GotoMoves DEF Moves, TypeOK

LEMMA SignupOwn ==
    ASSUME TypeOK, TypeOK', Uncrossed, course' # "crossed", AccountsFit, OwnFit,
           NEW w \in Workers, SignupStep(w)
    PROVE  OwnFit'
<1> DEFINE job == worker[w]
           i == job.who
           n == job.name
           new == worker'[w]
<1>1. /\ job \in Jobs /\ Sound(job, mailboxes, email) /\ AccountSound(job, stalwart)
      /\ OwnJob(job, email, stalwart) /\ OwnSound(mailboxes, email, stalwart, i)
      /\ job.pc \in ToCreate \union Created
  <2>1. job.pc \in ToCreate \union Created
    BY DEF SignupStep, CheckName, CheckRetired, CheckEmail, InsertMailbox, CreateUser,
           UndoInsert, SetStalwartId, StoreDetail, MarkDetailVerified, UndoCreate, UndoRow,
           At, ToCreate, Created
  <2>2. i \in Identities
    BY <2>1, JobKinds DEF TypeOK, Jobs, ToCreate, Created, SignupJob, CreatedJob
  <2> QED  BY <2>1, <2>2 DEF TypeOK, Jobs, Uncrossed, AccountsFit, OwnFit
<1>2. /\ i \in Identities /\ n \in Names /\ job.pc # "idle"
      /\ Moves(w, new) /\ testNames' = testNames
  <2>1. i \in Identities /\ n \in Names /\ job.pc # "idle"
    BY <1>1, JobKinds DEF SignupJob, CreatedJob, ToCreate, Created
  <2>2. testNames' = testNames
    BY DEF SignupStep, CheckName, CheckRetired, CheckEmail, InsertMailbox, CreateUser,
           UndoInsert, SetStalwartId, StoreDetail, MarkDetailVerified, UndoCreate, UndoRow,
           tables
  <2> QED  BY <2>1, <2>2, ActsMoves DEF Acts
<1>3. job.pc \in {"insert"} \union Inserted => ~Own(email, i)
  BY <1>1, <1>2, NoneAssumption DEF Sound, Claims, Own
<1>4. CASE CheckName(w) \/ CheckRetired(w) \/ CheckEmail(w)
  <2>1. UNCHANGED <<email, stalwart, mailboxes>>
    BY <1>4 DEF CheckName, CheckRetired, CheckEmail, tables
  <2>2. new.pc \in {"idle", "retired", "email", "insert"}
    <3>1. job \in SignupJob
      BY <1>1, <1>4, JobKinds DEF CheckName, CheckRetired, CheckEmail, At, ToCreate
    <3> QED  BY <1>4, <3>1 DEF CheckName, CheckRetired, CheckEmail, Reply, Goto, Idle,
                               SignupJob, TypeOK
  <2>3. new.pc \notin Created \union Settled
    BY <2>2 DEF Created, Settled
  <2> HIDE DEF new
  <2> QED  BY <1>2, <2>1, <2>3, OwnQuiet
<1>5. CASE InsertMailbox(w)
  <2>1. job.pc = "insert" /\ UNCHANGED <<email, stalwart>>
    BY <1>5 DEF InsertMailbox, At
  <2>2. \/ Reply(w) /\ UNCHANGED mailboxes
        \/ /\ mailboxes[n] = NoRow
           /\ mailboxes' = [mailboxes EXCEPT ![n] = [owner |-> i, account |-> None]]
           /\ Goto(w, "create")
    BY <1>5 DEF InsertMailbox, NotUnique
  <2>3. new.pc \in {"idle", "create"}
    BY <2>1, <2>2, ReplyJob, GotoJob DEF Idle, ToCreate
  <2>4. new.pc \notin Created \union Settled
    BY <2>3 DEF Created, Settled
  <2>5. \A m \in Names : mailboxes[m].owner # None => mailboxes'[m].owner = mailboxes[m].owner
    BY <2>2 DEF NoRow, TypeOK
  <2> HIDE DEF new
  <2> QED  BY <1>2, <2>1, <2>4, <2>5, OwnQuiet
<1>6. CASE CreateUser(w)
  <2>1. /\ job.pc = "create" /\ UNCHANGED <<email, mailboxes>> /\ mailboxes[n].owner = i
        /\ ~Own(email, i)
    BY <1>1, <1>3, <1>6 DEF CreateUser, At, tables, Sound, HavingRow, Inserted
  <2>2. CASE Goto(w, "undoInsert") /\ UNCHANGED stalwart
    <3>1. new.pc = "undoInsert"
      BY <2>1, <2>2, GotoJob DEF ToCreate
    <3>2. new.pc \notin Created \union Settled
      BY <3>1 DEF Created, Settled
    <3> HIDE DEF new
    <3> QED  BY <1>2, <2>1, <2>2, <3>2, OwnQuiet
  <2>3. ASSUME NEW a \in FreshAccounts, ~NameInUse(n),
               stalwart' = [stalwart EXCEPT ![a] = [name |-> n, owner |-> i]],
               \/ Goto(w, "undoInsert")
               \/ worker' = [worker EXCEPT ![w] = [pc |-> "setId", who |-> i, name |-> n,
                                                   had |-> job.had, account |-> a]]
        PROVE  OwnFit'
    <3>1. /\ a \in Accounts /\ stalwart[a] = NoAccount
          /\ stalwart'[a] = [name |-> n, owner |-> i]
          /\ \A b \in Accounts \ {a} : stalwart'[b] = stalwart[b]
      BY <2>3 DEF FreshAccounts, TypeOK
    <3>2. OwnAccounts(i)
      BY <1>2, <2>1, <2>3, <3>1 DEF OwnAccounts
    <3>3. OnlyOf(stalwart', n, i)
      BY <2>3, <3>1 DEF OnlyOf, NameInUse
    <3>4. \/ new.pc = "undoInsert"
          \/ new.pc = "setId" /\ new.who = i /\ new.name = n
      <4>1. CASE Goto(w, "undoInsert")
        BY <2>1, <4>1, GotoJob DEF ToCreate
      <4>2. CASE ~Goto(w, "undoInsert")
        BY <2>3, <4>2 DEF TypeOK
      <4> QED  BY <4>1, <4>2
    <3>5. OwnJob(new, email', stalwart')
      BY <3>3, <3>4 DEF OwnJob, Created, Settled
    <3>6. OwnSound(mailboxes', email', stalwart', i)
      BY <1>2, <2>1 DEF OwnSound, Own
    <3> HIDE DEF new
    <3> QED  BY <1>2, <2>1, <3>2, <3>5, <3>6, OwnFitStep
  <2> QED  BY <1>6, <2>2, <2>3 DEF CreateUser
<1>7. CASE UndoInsert(w) \/ UndoRow(w)
  <2>1. /\ job.pc \in Inserted /\ UNCHANGED <<email, stalwart>>
        /\ Reply(w) /\ (DeleteMailbox(n) \/ UNCHANGED mailboxes)
    BY <1>7 DEF UndoInsert, UndoRow, At, Inserted, Created
  <2>2. mailboxes[n].owner = i /\ ~Own(email', i)
    BY <1>1, <1>2, <1>3, <2>1 DEF Sound, HavingRow, Own
  <2>3. \A m \in Names : mailboxes[m].owner # i => mailboxes'[m] = mailboxes[m]
    BY <2>1, <2>2 DEF DeleteMailbox, TypeOK
  <2>4. OwnAccounts(i) /\ OwnSound(mailboxes', email', stalwart', i)
    BY <2>1, <2>2 DEF OwnAccounts, OwnSound
  <2>5. Moves(w, Idle) /\ OwnJob(Idle, email', stalwart')
    BY <2>1, OwnReply, OwnIdle
  <2> QED  BY <1>2, <2>1, <2>3, <2>4, <2>5, OwnFitStep
<1>8. CASE SetStalwartId(w)
  <2>1. job.pc = "setId" /\ UNCHANGED <<email, stalwart>>
    BY <1>8 DEF SetStalwartId, At
  <2>2. PICK pc \in {"detail", "undoCreate"} : Goto(w, pc)
    BY <1>8 DEF SetStalwartId, Answered
  <2>3. new.pc = pc /\ new.who = i /\ new.name = n
    BY <2>1, <2>2, GotoJob DEF Created
  <2>4. \A m \in Names : mailboxes'[m].owner = mailboxes[m].owner
    BY <1>8 DEF SetStalwartId, TypeOK, Row
  <2>5. /\ new.pc \in Created => worker[w].pc \in Created
        /\ new.pc \in Settled => worker[w].pc \in Settled
    BY <2>1, <2>3 DEF Created, Settled
  <2> HIDE DEF new
  <2> QED  BY <1>2, <2>1, <2>3, <2>4, <2>5, OwnQuiet
<1>9. CASE StoreDetail(w)
  <2>1. job.pc = "detail" /\ UNCHANGED <<mailboxes, stalwart>>
    BY <1>9 DEF StoreDetail, At
  <2>2. PICK pc \in {"verify", "undoCreate"} : Goto(w, pc)
    BY <1>9 DEF StoreDetail, Answered
  <2>3. new.pc = pc /\ new.who = i /\ new.name = n
    BY <2>1, <2>2, GotoJob DEF Created
  <2>4. ~Own(email', i) /\ \A j \in Identities \ {i} : email'[j] = email[j]
    <3>1. email'[i] \in {email[i], StoredEmail(n, None)}
      BY <1>2, <1>9 DEF StoreDetail, TypeOK
    <3>2. ~Own(email', i)
      BY <1>2, <1>3, <2>1, <3>1, NoneAssumption DEF Own, StoredEmail, Inserted, Created
    <3> QED  BY <1>9, <3>2 DEF StoreDetail, TypeOK
  <2>5. OwnAccounts(i) /\ OwnSound(mailboxes', email', stalwart', i)
    BY <2>1, <2>4 DEF OwnAccounts, OwnSound
  <2>6. OwnJob(new, email', stalwart')
    BY <1>1, <1>2, <2>1, <2>3, <2>4 DEF OwnJob, Created, Settled
  <2> HIDE DEF new
  <2> QED  BY <1>2, <2>1, <2>4, <2>5, <2>6, OwnFitStep
<1>10. CASE MarkDetailVerified(w)
  <2>1. job.pc = "verify" /\ UNCHANGED <<mailboxes, stalwart>>
    BY <1>10 DEF MarkDetailVerified, At
  <2>2. CASE UNCHANGED email /\ Goto(w, "undoCreate")
    <3>1. new.pc = "undoCreate" /\ new.who = i /\ new.name = n
      BY <2>1, <2>2, GotoJob DEF Created
    <3>2. /\ new.pc \in Created => worker[w].pc \in Created
          /\ new.pc \in Settled => worker[w].pc \in Settled
      BY <2>1, <3>1 DEF Created, Settled
    <3> HIDE DEF new
    <3> QED  BY <1>2, <2>1, <2>2, <3>1, <3>2, OwnQuiet
  <2>3. CASE /\ email' = IF email[i] = NoDetail THEN email
                         ELSE [email EXCEPT ![i].verified = TRUE, ![i].reader = i]
             /\ Reply(w)
    <3>1. /\ email'[i].state = email[i].state /\ email'[i].name = email[i].name
          /\ \A j \in Identities \ {i} : email'[j] = email[j]
      BY <1>2, <2>3 DEF TypeOK, Detail
    <3>2. email[i].state = "active" => email[i].name = n
      BY <1>1, <2>1 DEF Sound
    <3>3. n \notin testNames => OnlyOf(stalwart, n, i)
      BY <1>1, <2>1 DEF OwnJob, Created
    <3>4. mailboxes[n].owner = i
      BY <1>1, <2>1 DEF Sound, HavingRow, Inserted, Created
    <3>5. OwnAccounts(i) /\ OwnSound(mailboxes', email', stalwart', i)
      BY <1>2, <2>1, <3>1, <3>2, <3>3, <3>4 DEF OwnAccounts, OwnSound, Own
    <3>6. Moves(w, Idle) /\ OwnJob(Idle, email', stalwart')
      BY <2>3, OwnReply, OwnIdle
    <3> QED  BY <1>2, <2>1, <3>1, <3>5, <3>6, OwnFitStep
  <2> QED  BY <1>10, <2>2, <2>3 DEF MarkDetailVerified, Answered
<1>11. CASE UndoCreate(w)
  <2>1. /\ job.pc = "undoCreate" /\ UNCHANGED <<mailboxes, email>> /\ Goto(w, "undoRow")
        /\ DestroyUser(job.account) \/ UNCHANGED stalwart
    BY <1>11 DEF UndoCreate, At, tables
  <2>2. new.pc = "undoRow" /\ new.who = i /\ new.name = n
    BY <2>1, GotoJob DEF Created
  <2>3. job.account \in Accounts /\ Belongs(stalwart, job.account, n, i)
    BY <1>1, <2>1, JobAccounts, NoneAssumption DEF AccountSound, Created
  <2>4. \A a \in Accounts : \/ stalwart'[a] = stalwart[a]
                            \/ a = job.account /\ stalwart'[a] = NoAccount
    BY <2>1 DEF DestroyUser
  <2>5. OwnAccounts(i)
    BY <2>3, <2>4 DEF OwnAccounts, Belongs
  <2>6. n \notin testNames => OnlyOf(stalwart', n, i)
    BY <1>1, <1>2, <2>1, <2>4, NoneAssumption DEF OwnJob, OnlyOf, NoAccount, Created
  <2>7. OwnJob(new, email', stalwart') /\ OwnSound(mailboxes', email', stalwart', i)
    BY <1>2, <1>3, <2>1, <2>2, <2>6 DEF OwnJob, OwnSound, Own, Created, Settled, Inserted
  <2> HIDE DEF new
  <2> QED  BY <1>2, <2>1, <2>5, <2>7, OwnFitStep
<1> QED  BY <1>4, <1>5, <1>6, <1>7, <1>8, <1>9, <1>10, <1>11 DEF SignupStep


LEMMA RemovalOwn ==
    ASSUME TypeOK, TypeOK', Uncrossed, AccountsFit, OwnFit, NEW w \in Workers,
           DeleteStep(w) \/ CleanupStep(w)
    PROVE  OwnFit'
<1> DEFINE job == worker[w]
           i == job.who
           n == job.name
           new == worker'[w]
<1>1. job.pc \in ToDelete \union ToClean /\ testNames' = testNames
  BY DEF DeleteStep, DeleteDestroysUser, DeleteReadsEmail, DeleteRevokesEmail, IsRetired,
         Retire, DeleteRow, CleanupStep, CleanupDestroysUser, CleanupDeletesDetail,
         CleanupDeletesRow, At, tables, ToDelete, ToClean
<1>2. /\ i \in Identities /\ n \in Names /\ job.pc # "idle" /\ Moves(w, new)
      /\ mailboxes[n].owner = i /\ job.account \in Accounts \union {None}
  <2>1. job \in RemovalJob
    BY <1>1, JobKinds DEF TypeOK, Jobs
  <2>2. job.pc # "idle" /\ mailboxes[n].owner = i
    BY <1>1 DEF Uncrossed, Sound, HavingRow, ToDelete, ToClean
  <2> QED  BY <2>1, <2>2, ActsMoves DEF RemovalJob, Acts
<1>3. /\ OwnSound(mailboxes, email, stalwart, i) /\ OwnJob(job, email, stalwart)
      /\ AccountSound(job, stalwart) /\ Sound(job, mailboxes, email)
  BY <1>2 DEF OwnFit, AccountsFit, Uncrossed
<1>4. CASE DeleteDestroysUser(w) \/ CleanupDestroysUser(w)
  <2>1. /\ UNCHANGED <<mailboxes, email>> /\ DestroyUser(job.account)
        /\ Reply(w) \/ \E pc \in {"readEmail", "cleanDetail"} : Goto(w, pc)
    BY <1>4 DEF DeleteDestroysUser, CleanupDestroysUser, tables
  <2>2. new.pc \in {"idle", "readEmail", "cleanDetail"}
    BY <1>1, <2>1, ReplyJob, GotoJob DEF Idle, ToDelete, ToClean
  <2>3. \A a \in Accounts : stalwart'[a] = stalwart[a]
           \/ (a = job.account /\ stalwart'[a] = NoAccount /\ Belongs(stalwart, a, n, i))
    BY <1>1, <1>3, <2>1, NoneAssumption DEF DestroyUser, AccountSound
  <2>4. OwnAccounts(i)
    BY <2>3 DEF OwnAccounts, Belongs
  <2>5. OwnJob(new, email', stalwart')
    BY <2>2 DEF OwnJob, Created, Settled
  <2>6. OwnSound(mailboxes', email', stalwart', i)
    <3> SUFFICES ASSUME Own(email, i)
                 PROVE  /\ OnlyOf(stalwart', email[i].name, i)
                        /\ mailboxes[email[i].name].owner = i \/ Has(stalwart', email[i].name, i)
      BY <1>1, <2>1 DEF OwnSound, Own
    <3> DEFINE e == email[i].name
    <3>1. /\ OnlyOf(stalwart, e, i) /\ e \in Names
          /\ mailboxes[e].owner = i \/ Has(stalwart, e, i)
      BY <1>2, <1>3 DEF OwnSound, Own, TypeOK, Detail, NoDetail
    <3>2. OnlyOf(stalwart', e, i)
      BY <2>3, <3>1, NoneAssumption DEF OnlyOf, NoAccount
    <3>3. ASSUME NEW a \in Accounts, stalwart[a] = [name |-> e, owner |-> i]
          PROVE  mailboxes[e].owner = i \/ Has(stalwart', e, i)
      <4>1. CASE stalwart'[a] = stalwart[a]
        BY <3>3, <4>1 DEF Has
      <4>2. CASE Belongs(stalwart, a, n, i)
        BY <1>2, <3>1, <3>3, <4>2, NoneAssumption DEF Belongs, NoAccount
      <4> QED  BY <2>3, <4>1, <4>2
    <3> QED  BY <3>1, <3>2, <3>3 DEF Has
  <2> HIDE DEF new
  <2> QED  BY <1>1, <1>2, <2>1, <2>4, <2>5, <2>6, OwnFitStep
<1>5. CASE DeleteReadsEmail(w)
  <2>1. UNCHANGED <<mailboxes, email, stalwart>>
    BY <1>5 DEF DeleteReadsEmail, tables
  <2>2. PICK pc \in {"revokeEmail", "isRetired"} :
           /\ Goto(w, pc)
           /\ pc = "isRetired" => ~(email[i].state = "active" /\ email[i].name = n)
    BY <1>5 DEF DeleteReadsEmail
  <2>3. new.pc = pc /\ new.who = i /\ new.name = n
    BY <1>1, <2>2, GotoJob DEF ToDelete
  <2>4. OwnJob(new, email', stalwart')
    BY <2>1, <2>2, <2>3 DEF OwnJob, Own, Created, Settled
  <2>5. OwnAccounts(i) /\ OwnSound(mailboxes', email', stalwart', i)
    BY <1>1, <1>3, <2>1 DEF OwnAccounts, OwnSound, Own
  <2> HIDE DEF new
  <2> QED  BY <1>1, <1>2, <2>1, <2>4, <2>5, OwnFitStep
<1>6. CASE DeleteRevokesEmail(w) \/ CleanupDeletesDetail(w)
  <2>1. UNCHANGED <<mailboxes, stalwart>>
    BY <1>6 DEF DeleteRevokesEmail, CleanupDeletesDetail
  <2>2. email'[i].state # "active" /\ \A j \in Identities \ {i} : email'[j] = email[j]
    <3>1. \/ email'[i] = RevokedEmail(email[i]) /\ email[i] # NoDetail
          \/ email'[i] = NoDetail
      BY <1>2, <1>6 DEF DeleteRevokesEmail, CleanupDeletesDetail, TypeOK
    <3>2. email'[i].state # "active"
      <4>1. email[i] # NoDetail => email[i] \in Detail
        BY <1>2 DEF TypeOK
      <4>2. email[i] \in Detail => RevokedEmail(email[i]).state = "revoked"
        BY DEF Detail, RevokedEmail
      <4> QED  BY <3>1, <4>1, <4>2 DEF NoDetail
    <3> QED  BY <1>6, <3>2 DEF DeleteRevokesEmail, CleanupDeletesDetail, TypeOK
  <2>3. new.pc \in {"isRetired", "cleanRow"} /\ new.who = i
    BY <1>1, <1>6, GotoJob DEF DeleteRevokesEmail, CleanupDeletesDetail, ToDelete, ToClean
  <2>4. OwnJob(new, email', stalwart')
    BY <2>2, <2>3 DEF OwnJob, Own, Created, Settled
  <2>5. OwnAccounts(i) /\ OwnSound(mailboxes', email', stalwart', i)
    BY <2>1, <2>2 DEF OwnAccounts, OwnSound, Own
  <2> HIDE DEF new
  <2> QED  BY <1>1, <1>2, <2>1, <2>2, <2>4, <2>5, OwnFitStep
<1>7. CASE IsRetired(w) \/ Retire(w)
  <2>1. UNCHANGED <<mailboxes, email, stalwart>> /\ job.pc \in Settled
    BY <1>7 DEF IsRetired, Retire, At, tables, Settled
  <2>2. CASE Reply(w)
    BY <1>1, <1>2, <2>1, <2>2, OwnReply, OwnQuiet
  <2>3. ASSUME NEW pc \in {"deleteRow", "retire"}, Goto(w, pc)
        PROVE  OwnFit'
    <3>1. new.pc = pc /\ new.who = i /\ new.name = n
      BY <1>1, <2>3, GotoJob DEF ToDelete
    <3>2. new.pc \notin Created
      BY <3>1 DEF Created
    <3> HIDE DEF new
    <3> QED  BY <1>1, <1>2, <2>1, <3>1, <3>2, OwnQuiet
  <2> QED  BY <1>7, <2>2, <2>3 DEF IsRetired, Retire
<1>8. CASE DeleteRow(w) \/ CleanupDeletesRow(w)
  <2>1. /\ job.pc \in {"deleteRow", "cleanRow"} /\ UNCHANGED <<email, stalwart>>
        /\ Reply(w) /\ DeleteMailbox(n)
    BY <1>8 DEF DeleteRow, CleanupDeletesRow, At
  <2>2. \A m \in Names \ {n} : mailboxes'[m] = mailboxes[m]
    BY <2>1 DEF DeleteMailbox, TypeOK
  <2>3. OwnSound(mailboxes', email', stalwart', i)
    <3> SUFFICES ASSUME Own(email, i)
                 PROVE  /\ OnlyOf(stalwart, email[i].name, i)
                        /\ mailboxes'[email[i].name].owner = i \/ Has(stalwart, email[i].name, i)
      BY <1>1, <2>1 DEF OwnSound, Own
    <3>1. /\ OnlyOf(stalwart, email[i].name, i) /\ email[i].name \in Names
          /\ mailboxes[email[i].name].owner = i \/ Has(stalwart, email[i].name, i)
      BY <1>2, <1>3 DEF OwnSound, Own, TypeOK, Detail, NoDetail
    <3>2. CASE job.pc = "deleteRow"
      BY <1>3, <2>2, <3>1, <3>2 DEF OwnJob, Settled
    <3>3. CASE job.pc = "cleanRow"
      BY <1>3, <2>2, <3>1, <3>3 DEF Sound, ToClean, Own
    <3> QED  BY <2>1, <3>2, <3>3
  <2>4. OwnAccounts(i) /\ Moves(w, Idle) /\ OwnJob(Idle, email', stalwart')
    BY <2>1, OwnReply, OwnIdle DEF OwnAccounts
  <2> QED  BY <1>1, <1>2, <2>1, <2>2, <2>3, <2>4, OwnFitStep
<1> QED  BY <1>4, <1>5, <1>6, <1>7, <1>8 DEF DeleteStep, CleanupStep

\* The details, rows and accounts stay, and so do the handlers that rely on them.
LEMMA SameOwn ==
    ASSUME OwnFit, UNCHANGED <<testNames, mailboxes, email, stalwart>>,
           \A w \in Workers : \/ worker'[w] = worker[w]
                              \/ worker'[w].pc \notin Created \union Settled
    PROVE  OwnFit'
<1>1. \A w \in Workers : OwnJob(worker'[w], email', stalwart')
  BY DEF OwnFit, OwnJob, Own
<1>2. (\A w \in Workers : OwnJob(worker[w], email, stalwart))'
  BY <1>1 DEF OwnJob, Own, OnlyOf, Has
<1>3. (\A i \in Identities : OwnSound(mailboxes, email, stalwart, i))'
  BY DEF OwnFit, OwnSound, Own, OnlyOf, Has
<1> QED  BY <1>2, <1>3 DEF OwnFit

LEMMA ReceiveOwn ==
    ASSUME TypeOK, OwnFit, NEW w \in Workers, Receive(w)
    PROVE  OwnFit'
<1>1. PICK job : Begins(w, job)
  BY ReceiveBegins
<1>2. Moves(w, job)
  BY <1>1, StartMoves DEF Begins
<1>3. job.pc \notin Created \union Settled
  BY <1>1 DEF Begins, Created, Settled
<1>4. \A v \in Workers : worker'[v] = worker[v] \/ worker'[v].pc \notin Created \union Settled
  BY <1>2, <1>3 DEF Moves, TypeOK
<1> QED  BY <1>1, <1>4, SameOwn DEF Begins, tables

\* What the other handlers make of a detail: i is its reader still, or its link arrived at
\* an account of i.
LEMMA WrittenOwn ==
    ASSUME TypeOK, NEW i \in Identities, Writes(i)
    PROVE  /\ \A j \in Identities \ {i} : email'[j] = email[j]
           /\ email'[i].state = "active" =>
                 \/ /\ email[i].state = "active" /\ email'[i].name = email[i].name
                    /\ email'[i].reader = email[i].reader
                 \/ email'[i].reader \in Reached(email'[i].name) /\ email'[i].name \in Names
<1>1. \A j \in Identities \ {i} : email'[j] = email[j]
  BY DEF Writes, RevokeEmail, PublishEmail, RequestLink, ConfirmEmail, TypeOK
<1>2. CASE \E n \in Names : PublishEmail(i, n)
  <2>1. PICK n \in Names : \E r \in Reached(n) : email'[i] = StoredEmail(n, r)
    BY <1>2 DEF PublishEmail, TypeOK
  <2> QED  BY <1>1, <2>1 DEF StoredEmail
<1>3. CASE RequestLink(i)
  <2>1. PICK r \in Reached(email[i].name) : email' = [email EXCEPT ![i].reader = r]
    BY <1>3 DEF RequestLink
  <2>2. email[i] \in Detail
    BY <1>3 DEF RequestLink, TypeOK, NoDetail
  <2>3. email'[i].name = email[i].name /\ email'[i].reader = r /\ email[i].name \in Names
    BY <2>1, <2>2 DEF Detail, TypeOK
  <2> QED  BY <1>1, <2>1, <2>3
<1>4. CASE ConfirmEmail(i)
  <2>1. email[i] \in Detail /\ email[i].state = "active"
    BY <1>4 DEF ConfirmEmail, TypeOK, NoDetail
  <2>2. email'[i].name = email[i].name /\ email'[i].reader = email[i].reader
    BY <1>4, <2>1 DEF ConfirmEmail, Detail, TypeOK
  <2> QED  BY <1>1, <2>1, <2>2
<1>5. CASE RevokeEmail(i)
  <2>1. email[i] \in Detail /\ email'[i] = RevokedEmail(email[i])
    BY <1>5 DEF RevokeEmail, TypeOK, NoDetail
  <2>2. email'[i].state = "revoked"
    BY <2>1 DEF RevokedEmail, Detail
  <2> QED  BY <1>1, <2>2
<1> QED  BY <1>2, <1>3, <1>4, <1>5 DEF Writes

LEMMA OneAccount ==
    ASSUME TypeOK, NamesUnique, NEW n \in Names, NEW i \in Identities, Has(stalwart, n, i)
    PROVE  OnlyOf(stalwart, n, i)
<1> SUFFICES ASSUME NEW b \in Accounts, stalwart[b].name = n PROVE stalwart[b].owner = i
  BY DEF OnlyOf
<1>1. PICK a \in Accounts : stalwart[a] = [name |-> n, owner |-> i]
  BY DEF Has
<1>2. stalwart[a] # NoAccount /\ stalwart[b] # NoAccount
  BY <1>1, NoneAssumption DEF NoAccount
<1>3. stalwart[a].name = stalwart[b].name
  BY <1>1
<1>4. a = b
  BY <1>2, <1>3 DEF NamesUnique
<1> QED  BY <1>1, <1>4

LEMMA WritesOwn ==
    ASSUME TypeOK, AccountsFit, OwnFit, NEW i \in Identities, Writes(i)
    PROVE  OwnFit'
<1>1. UNCHANGED <<testNames, mailboxes, stalwart, worker>>
  BY DEF Writes, RevokeEmail, PublishEmail, RequestLink, ConfirmEmail
<1>2. ASSUME NEW j \in Identities, Own(email', j)
      PROVE  /\ email'[j].name \in Names
             /\ \/ Own(email, j) /\ email'[j].name = email[j].name
                \/ Has(stalwart, email'[j].name, j)
  <2>1. email'[j].state = "active" /\ email'[j].reader = j /\ email'[j].name \notin testNames
    BY <1>1, <1>2 DEF Own
  <2>2. CASE /\ email[j].state = "active" /\ email'[j].name = email[j].name
             /\ email'[j].reader = email[j].reader
    BY <2>1, <2>2 DEF Own, TypeOK, Detail, NoDetail
  <2>3. CASE j = i /\ email'[i].reader \in Reached(email'[i].name) /\ email'[i].name \in Names
    <3>1. j # None
      BY NoneAssumption
    <3>2. \E a \in Accounts : stalwart[a] = [name |-> email'[j].name, owner |-> j]
      BY <2>1, <2>3, <3>1, ReachedTypes
    <3> QED  BY <2>3, <3>2 DEF Has
  <2>4. CASE j # i
    BY <2>1, <2>4, <2>2, WrittenOwn
  <2> QED  BY <2>1, <2>2, <2>3, <2>4, WrittenOwn
<1>3. ASSUME NEW j \in Identities
      PROVE  OwnSound(mailboxes', email', stalwart', j)
  <2> SUFFICES ASSUME Own(email', j)
               PROVE  /\ OnlyOf(stalwart, email'[j].name, j)
                      /\ mailboxes[email'[j].name].owner = j \/ Has(stalwart, email'[j].name, j)
    BY <1>1 DEF OwnSound
  <2> QED  BY <1>2, OneAccount DEF OwnFit, OwnSound, AccountsFit
<1>4. ASSUME NEW w \in Workers
      PROVE  OwnJob(worker'[w], email', stalwart')
  <2>1. OwnJob(worker[w], email, stalwart)
    BY DEF OwnFit
  <2>2. worker[w].pc \in Settled => worker[w].who \in Identities
    BY JobKinds DEF TypeOK, Jobs, Settled
  <2> QED  BY <1>1, <1>2, <2>1, <2>2 DEF OwnJob
<1>5. (\A j \in Identities : OwnSound(mailboxes, email, stalwart, j))'
  BY <1>1, <1>3 DEF OwnSound, Own, OnlyOf, Has
<1>6. (\A w \in Workers : OwnJob(worker[w], email, stalwart))'
  BY <1>1, <1>4 DEF OwnJob, Own, OnlyOf, Has
<1> QED  BY <1>5, <1>6 DEF OwnFit

LEMMA OwnInvInit == Init => OwnInv
<1> SUFFICES ASSUME Init PROVE OwnFit
  BY AccountsInvInit DEF OwnInv
<1>1. \A i \in Identities : OwnSound(mailboxes, email, stalwart, i)
  BY DEF Init, OwnSound, Own, NoDetail
<1>2. \A w \in Workers : OwnJob(worker[w], email, stalwart)
  BY OwnIdle DEF Init
<1> QED  BY <1>1, <1>2 DEF OwnFit

LEMMA OwnInvNext == OwnInv /\ [Next]_vars => OwnInv'
<1> SUFFICES ASSUME OwnInv, [Next]_vars, course' # "crossed" PROVE OwnFit'
  BY AccountsInvNext DEF OwnInv
<1>1. TypeOK /\ TypeOK' /\ Uncrossed /\ AccountsFit /\ OwnFit
  BY AccountsInvNext, CourseWorsens DEF OwnInv, AccountsInv, UncrossedInv
<1>2. CASE UNCHANGED vars
  BY <1>1, <1>2, SameOwn DEF vars
<1>3. ASSUME NEW w \in Workers, SetPassword(w) \/ Fail(w) \/ Die(w)
      PROVE  OwnFit'
  <2>1. Reply(w) /\ UNCHANGED <<testNames, mailboxes, email, stalwart>>
    BY <1>3 DEF SetPassword, Fail, Die, tables
  <2>2. \A v \in Workers : worker'[v] = worker[v] \/ worker'[v].pc \notin Created \union Settled
    BY <1>1, <2>1 DEF Reply, TypeOK, Idle, Created, Settled
  <2> QED  BY <1>1, <2>1, <2>2, SameOwn
<1> QED  BY <1>1, <1>2, <1>3, ReceiveOwn, SignupOwn, RemovalOwn, WritesOwn DEF Next, Writes

(* Addresses by links too, while handlers run one after another. *)

Claimed(em, k) == Claims(em, k) /\ em[k].name \notin testNames

\* Only the reader has an account of that name, or had one; the name is not given out
\* again: it is retired, or its row or account is the reader's.
ClaimSound(mb, rt, em, st, k) ==
    Claimed(em, k) =>
       /\ OnlyOf(st, em[k].name, em[k].reader)
       /\ \/ em[k].name \in rt
          \/ mb[em[k].name].owner = em[k].reader
          \/ Has(st, em[k].name, em[k].reader)

\* What a sign-up in progress knows about claims on its name.
ClaimJob(job, em, st) ==
    \A k \in Identities :
       Claimed(em, k) /\ em[k].name = job.name =>
          /\ job.pc \in {"create", "undoInsert"} => Has(st, job.name, em[k].reader)
          /\ job.pc \notin Created

OneReader(em) ==
    \A k, l \in Identities :
       Claimed(em, k) /\ Claimed(em, l) /\ em[k].name = em[l].name => em[k].reader = em[l].reader

ClaimsFit ==
    /\ OneReader(email)
    /\ \A k \in Identities : ClaimSound(mailboxes, retired, email, stalwart, k)
    /\ \A w \in Workers : ClaimJob(worker[w], email, stalwart)

ClaimsInv == OwnInv /\ NamesInv /\ (Smooth => ClaimsFit)

\* A name whose row and accounts stay, and which stays retired.
StaysAs(m) ==
    /\ mailboxes'[m].owner = mailboxes[m].owner
    /\ m \in retired => m \in retired'
    /\ \A a \in Accounts : stalwart[a].name = m \/ stalwart'[a].name = m
                              => stalwart'[a] = stalwart[a]

LEMMA ClaimStays ==
    ASSUME NEW k \in Identities, ClaimSound(mailboxes, retired, email, stalwart, k),
           email'[k] = email[k], testNames' = testNames, StaysAs(email[k].name)
    PROVE  ClaimSound(mailboxes', retired', email', stalwart', k)
<1> SUFFICES ASSUME Claimed(email, k)
             PROVE  /\ OnlyOf(stalwart', email[k].name, email[k].reader)
                    /\ \/ email[k].name \in retired'
                       \/ mailboxes'[email[k].name].owner = email[k].reader
                       \/ Has(stalwart', email[k].name, email[k].reader)
  BY DEF ClaimSound, Claimed, Claims
<1>1. OnlyOf(stalwart', email[k].name, email[k].reader)
  BY DEF ClaimSound, OnlyOf, StaysAs
<1>2. Has(stalwart, email[k].name, email[k].reader)
         => Has(stalwart', email[k].name, email[k].reader)
  BY DEF Has, StaysAs
<1> QED  BY <1>1, <1>2 DEF ClaimSound, StaysAs

LEMMA ClaimsPrimed ==
    ASSUME testNames' = testNames, OneReader(email'),
           \A k \in Identities : ClaimSound(mailboxes', retired', email', stalwart', k),
           \A w \in Workers : ClaimJob(worker'[w], email', stalwart')
    PROVE  ClaimsFit'
<1>1. OneReader(email)'
  BY DEF OneReader, Claimed, Claims
<1>2. (\A k \in Identities : ClaimSound(mailboxes, retired, email, stalwart, k))'
  BY DEF ClaimSound, Claimed, Claims, OnlyOf, Has
<1>3. (\A w \in Workers : ClaimJob(worker[w], email, stalwart))'
  BY DEF ClaimJob, Claimed, Claims, Has
<1> QED  BY <1>1, <1>2, <1>3 DEF ClaimsFit

\* The only handler in progress takes a step that makes no claim.
LEMMA ClaimsStep ==
    ASSUME TypeOK, ClaimsFit, NEW w \in Workers, \A v \in Workers \ {w} : At(v, "idle"),
           NEW new, Moves(w, new), testNames' = testNames,
           \A k \in Identities : email'[k] = email[k] \/ ~Claims(email', k),
           \A k \in Identities : Claimed(email, k) /\ email'[k] = email[k] =>
                                    ClaimSound(mailboxes', retired', email', stalwart', k),
           ClaimJob(new, email', stalwart')
    PROVE  ClaimsFit'
<1>1. ASSUME NEW k \in Identities, Claimed(email', k)
      PROVE  email'[k] = email[k] /\ Claimed(email, k)
  BY <1>1 DEF Claimed, Claims
<1>2. OneReader(email')
  BY <1>1 DEF ClaimsFit, OneReader
<1>3. ASSUME NEW k \in Identities
      PROVE  ClaimSound(mailboxes', retired', email', stalwart', k)
  BY <1>1 DEF ClaimSound
<1>4. ASSUME NEW v \in Workers
      PROVE  ClaimJob(worker'[v], email', stalwart')
  <2>1. worker'[v] = new \/ worker'[v] = Idle
    BY AloneMoves
  <2>2. ClaimJob(Idle, email', stalwart')
    BY DEF ClaimJob, Idle, Created
  <2> QED  BY <2>1, <2>2
<1> QED  BY <1>2, <1>3, <1>4, ClaimsPrimed

\* A handler that goes on, or ends, and leaves claims, owners and accounts as they are.
LEMMA QuietClaims ==
    ASSUME TypeOK, TypeOK', Alone, ClaimsFit, NEW w \in Workers, Acts(w),
           UNCHANGED <<testNames, stalwart>>,
           \A k \in Identities : email'[k] = email[k] \/ ~Claims(email', k),
           \A m \in Names : mailboxes'[m].owner = mailboxes[m].owner,
           retired \subseteq retired',
           \/ worker'[w].pc \notin {"create", "undoInsert"} \union Created
           \/ /\ worker'[w].name = worker[w].name
              /\ worker'[w].pc \in {"create", "undoInsert"}
                    => worker[w].pc \in {"create", "undoInsert"}
              /\ worker'[w].pc \in Created => worker[w].pc \in Created
    PROVE  ClaimsFit'
<1> DEFINE new == worker'[w]
<1>1. (\A v \in Workers \ {w} : At(v, "idle")) /\ Moves(w, new)
  BY ActsAlone, ActsMoves
<1>2. ASSUME NEW k \in Identities, Claimed(email, k), email'[k] = email[k]
      PROVE  ClaimSound(mailboxes', retired', email', stalwart', k)
  <2>1. email[k].name \in Names
    BY <1>2 DEF Claimed, Claims, TypeOK, Detail, NoDetail
  <2>2. StaysAs(email[k].name)
    BY <2>1 DEF StaysAs
  <2> QED  BY <1>2, <2>2, ClaimStays DEF ClaimsFit
<1>3. ClaimJob(worker[w], email, stalwart)
  BY DEF ClaimsFit
<1>4. \A k \in Identities : Claimed(email', k) => Claimed(email, k) /\ email'[k] = email[k]
  BY DEF Claimed, Claims
<1>5. ClaimJob(new, email', stalwart')
  BY <1>3, <1>4 DEF ClaimJob
<1> HIDE DEF new
<1> QED  BY <1>1, <1>2, <1>5, ClaimsStep

LEMMA SignupClaims ==
    ASSUME TypeOK, TypeOK', Smooth', Uncrossed, Alone, AccountsFit, OwnFit, NamesFit,
           ClaimsFit, NEW w \in Workers, SignupStep(w)
    PROVE  ClaimsFit'
<1> DEFINE job == worker[w]
           i == job.who
           n == job.name
           new == worker'[w]
<1>1. /\ job \in Jobs /\ Sound(job, mailboxes, email) /\ AccountSound(job, stalwart)
      /\ OwnJob(job, email, stalwart) /\ ClaimJob(job, email, stalwart)
      /\ NameSound(job, mailboxes, retired, email, holders)
      /\ job.pc \in ToCreate \union Created
  BY DEF SignupStep, CheckName, CheckRetired, CheckEmail, InsertMailbox, CreateUser,
         UndoInsert, SetStalwartId, StoreDetail, MarkDetailVerified, UndoCreate, UndoRow,
         At, ToCreate, Created, TypeOK, Jobs, Uncrossed, AccountsFit, OwnFit, ClaimsFit, NamesFit
<1>2. /\ i \in Identities /\ n \in Names /\ Moves(w, new) /\ testNames' = testNames /\ Acts(w)
      /\ (\A v \in Workers \ {w} : At(v, "idle")) /\ course' # "crossed"
  <2>1. i \in Identities /\ n \in Names
    BY <1>1, JobKinds DEF SignupJob, CreatedJob, ToCreate, Created
  <2>2. testNames' = testNames
    BY DEF SignupStep, CheckName, CheckRetired, CheckEmail, InsertMailbox, CreateUser,
           UndoInsert, SetStalwartId, StoreDetail, MarkDetailVerified, UndoCreate, UndoRow,
           tables
  <2> QED  BY <2>1, <2>2, ActsMoves, ActsAlone DEF Acts, Smooth
<1>3. \A k \in Identities : /\ ClaimSound(mailboxes, retired, email, stalwart, k)
                            /\ Claimed(email, k) => email[k].name \in Names
  BY DEF ClaimsFit, Claimed, Claims, TypeOK, Detail, NoDetail
<1>4. CASE CheckName(w) \/ CheckRetired(w) \/ CheckEmail(w)
  <2>1. UNCHANGED <<email, stalwart, mailboxes, retired>>
    BY <1>4 DEF CheckName, CheckRetired, CheckEmail, tables
  <2>2. new.pc \in {"idle", "retired", "email", "insert"}
    <3>1. job \in SignupJob
      BY <1>1, <1>4, JobKinds DEF CheckName, CheckRetired, CheckEmail, At, ToCreate
    <3> QED  BY <1>4, <3>1 DEF CheckName, CheckRetired, CheckEmail, Reply, Goto, Idle,
                               SignupJob, TypeOK
  <2>3. new.pc \notin {"create", "undoInsert"} \union Created
    BY <2>2 DEF Created
  <2> HIDE DEF new
  <2> QED  BY <1>2, <2>1, <2>3, QuietClaims DEF new
<1>5. CASE InsertMailbox(w)
  <2>1. job.pc = "insert" /\ UNCHANGED <<email, stalwart, retired>>
    BY <1>5 DEF InsertMailbox, At
  <2>2. CASE Reply(w) /\ UNCHANGED mailboxes
    <3>1. new.pc \notin {"create", "undoInsert"} \union Created
      BY <2>2, ReplyJob DEF Idle, Created
    <3> HIDE DEF new
    <3> QED  BY <1>2, <2>1, <2>2, <3>1, QuietClaims DEF new
  <2>3. CASE /\ mailboxes' = [mailboxes EXCEPT ![n] = [owner |-> i, account |-> None]]
             /\ Goto(w, "create")
    <3>1. new.pc = "create" /\ new.name = n
      BY <2>1, <2>3, GotoJob DEF ToCreate
    <3>2. mailboxes[n] = NoRow /\ n \notin retired
      BY <1>1, <2>1 DEF NameSound
    <3>3. ASSUME NEW k \in Identities, Claimed(email, k), email[k].name = n
          PROVE  Has(stalwart, n, email[k].reader) /\ OnlyOf(stalwart, n, email[k].reader)
      BY <1>3, <3>2, <3>3 DEF ClaimSound, Claimed, Claims, NoRow
    <3>4. ASSUME NEW k \in Identities, Claimed(email, k)
          PROVE  ClaimSound(mailboxes', retired', email', stalwart', k)
      <4>1. CASE email[k].name = n
        BY <2>1, <3>3, <3>4, <4>1 DEF ClaimSound
      <4>2. CASE email[k].name # n
        <5>1. StaysAs(email[k].name)
          BY <1>3, <2>1, <2>3, <3>4, <4>2 DEF StaysAs, TypeOK
        <5> QED  BY <1>2, <1>3, <2>1, <5>1, ClaimStays
      <4> QED  BY <4>1, <4>2
    <3>5. ClaimJob(new, email', stalwart')
      BY <1>2, <2>1, <3>1, <3>3 DEF ClaimJob, Claimed, Created
    <3> HIDE DEF new
    <3> QED  BY <1>2, <2>1, <3>4, <3>5, ClaimsStep
  <2> QED  BY <1>5, <2>2, <2>3 DEF InsertMailbox
<1>6. CASE CreateUser(w)
  <2>1. job.pc = "create" /\ UNCHANGED <<email, mailboxes, retired>>
    BY <1>6 DEF CreateUser, At, tables
  <2>2. CASE Goto(w, "undoInsert") /\ UNCHANGED stalwart
    <3>1. new.pc = "undoInsert" /\ new.name = n
      BY <2>1, <2>2, GotoJob DEF ToCreate
    <3>2. new.pc \notin Created
      BY <3>1 DEF Created
    <3> HIDE DEF new
    <3> QED  BY <1>2, <2>1, <2>2, <3>1, <3>2, QuietClaims DEF new
  <2>3. ASSUME NEW a \in FreshAccounts, ~NameInUse(n),
               stalwart' = [stalwart EXCEPT ![a] = [name |-> n, owner |-> i]],
               \/ Goto(w, "undoInsert")
               \/ worker' = [worker EXCEPT ![w] = [pc |-> "setId", who |-> i, name |-> n,
                                                   had |-> job.had, account |-> a]]
        PROVE  ClaimsFit'
    <3>1. /\ a \in Accounts /\ stalwart[a] = NoAccount
          /\ stalwart'[a] = [name |-> n, owner |-> i]
          /\ \A b \in Accounts \ {a} : stalwart'[b] = stalwart[b]
      BY <2>3 DEF FreshAccounts, TypeOK
    <3>2. \A k \in Identities : Claimed(email, k) => email[k].name # n
      <4>1. \A r : ~Has(stalwart, n, r)
        BY <2>3 DEF Has, NameInUse
      <4> QED  BY <1>1, <2>1, <4>1 DEF ClaimJob
    <3>3. ASSUME NEW k \in Identities, Claimed(email, k)
          PROVE  ClaimSound(mailboxes', retired', email', stalwart', k)
      <4>1. StaysAs(email[k].name)
        BY <1>3, <2>1, <3>1, <3>2, <3>3, NoneAssumption DEF StaysAs, NoAccount
      <4> QED  BY <1>2, <1>3, <2>1, <4>1, ClaimStays
    <3>4. new.name = n
      <4>1. CASE Goto(w, "undoInsert")
        BY <2>1, <4>1, GotoJob DEF ToCreate
      <4>2. CASE ~Goto(w, "undoInsert")
        BY <2>3, <4>2 DEF TypeOK
      <4> QED  BY <4>1, <4>2
    <3>5. ClaimJob(new, email', stalwart')
      BY <1>2, <2>1, <3>2, <3>4 DEF ClaimJob, Claimed, Claims
    <3> HIDE DEF new
    <3> QED  BY <1>2, <2>1, <3>3, <3>5, ClaimsStep
  <2> QED  BY <1>6, <2>2, <2>3 DEF CreateUser
<1>7. CASE UndoInsert(w) \/ UndoRow(w)
  <2>1. /\ job.pc \in {"undoInsert"} \union Created /\ UNCHANGED <<email, stalwart, retired>>
        /\ Reply(w) /\ (DeleteMailbox(n) \/ UNCHANGED mailboxes)
    BY <1>7 DEF UndoInsert, UndoRow, At, Created
  <2>2. ASSUME NEW k \in Identities, Claimed(email, k)
        PROVE  ClaimSound(mailboxes', retired', email', stalwart', k)
    <3>1. CASE email[k].name = n
      <4>1. Has(stalwart, n, email[k].reader)
        BY <1>1, <2>1, <2>2, <3>1 DEF ClaimJob
      <4>2. OnlyOf(stalwart, n, email[k].reader)
        BY <1>3, <2>2, <3>1 DEF ClaimSound
      <4> QED  BY <2>1, <3>1, <4>1, <4>2 DEF ClaimSound
    <3>2. CASE email[k].name # n
      <4>1. StaysAs(email[k].name)
        BY <1>3, <2>1, <2>2, <3>2 DEF StaysAs, DeleteMailbox, TypeOK
      <4> QED  BY <1>2, <1>3, <2>1, <4>1, ClaimStays
    <3> QED  BY <3>1, <3>2
  <2>3. Moves(w, Idle) /\ ClaimJob(Idle, email', stalwart')
    BY <2>1, ReplyMoves DEF ClaimJob, Idle, Created
  <2> QED  BY <1>2, <2>1, <2>2, <2>3, ClaimsStep
<1>8. CASE SetStalwartId(w) \/ StoreDetail(w)
  <2>1. job.pc \in {"setId", "detail"} /\ UNCHANGED <<stalwart, retired>>
    BY <1>8 DEF SetStalwartId, StoreDetail, At
  <2>2. PICK pc \in {"detail", "verify", "undoCreate"} : Goto(w, pc)
    BY <1>8 DEF SetStalwartId, StoreDetail, Answered
  <2>3. new.pc = pc /\ new.name = n
    BY <2>1, <2>2, GotoJob DEF Created
  <2>4. \A m \in Names : mailboxes'[m].owner = mailboxes[m].owner
    BY <1>8 DEF SetStalwartId, StoreDetail, TypeOK, Row
  <2>5. \A k \in Identities : email'[k] = email[k] \/ ~Claims(email', k)
    <3>1. ~Claims([email EXCEPT ![i] = StoredEmail(n, None)], i)
      BY <1>2 DEF Claims, StoredEmail, TypeOK
    <3> QED  BY <1>8, <3>1 DEF SetStalwartId, StoreDetail, TypeOK, Claims
  <2>6. worker[w].pc \in Created /\ worker'[w].pc \notin {"create", "undoInsert"}
    BY <2>1, <2>3 DEF Created
  <2> HIDE DEF new
  <2> QED  BY <1>2, <2>1, <2>3, <2>4, <2>5, <2>6, QuietClaims DEF new
<1>9. CASE MarkDetailVerified(w)
  <2>1. job.pc = "verify" /\ UNCHANGED <<mailboxes, stalwart, retired>>
    BY <1>9 DEF MarkDetailVerified, At
  <2>2. CASE UNCHANGED email /\ Goto(w, "undoCreate")
    <3>1. new.pc = "undoCreate" /\ new.name = n
      BY <2>1, <2>2, GotoJob DEF Created
    <3>2. job.pc \in Created
      BY <2>1 DEF Created
    <3> HIDE DEF new
    <3> QED  BY <1>2, <2>1, <2>2, <3>1, <3>2, QuietClaims DEF new
  <2>3. CASE /\ email' = IF email[i] = NoDetail THEN email
                         ELSE [email EXCEPT ![i].verified = TRUE, ![i].reader = i]
             /\ Reply(w)
    <3>1. /\ \A k \in Identities \ {i} : email'[k] = email[k]
          /\ Claimed(email', i) =>
                /\ email'[i].name = email[i].name /\ email'[i].reader = i
                /\ email[i].state = "active" /\ email[i].name \notin testNames
      BY <1>2, <2>3 DEF TypeOK, Detail, Claimed, Claims, NoDetail
    <3>2. Claimed(email', i) =>
             /\ email'[i].name = n /\ email'[i].reader = i
             /\ OnlyOf(stalwart, n, i) /\ mailboxes[n].owner = i
      BY <1>1, <2>1, <3>1 DEF Sound, OwnJob, Created, HavingRow, Inserted
    <3>3. \A k \in Identities : ~(Claimed(email, k) /\ email[k].name = n)
      BY <1>1, <2>1 DEF ClaimJob, Created
    <3>4. OneReader(email')
      <4>1. \A k \in Identities \ {i} : Claimed(email', k) =>
               /\ Claimed(email, k) /\ email'[k].name # n /\ email'[k] = email[k]
        BY <3>1, <3>3 DEF Claimed, Claims
      <4>2. OneReader(email)
        BY DEF ClaimsFit
      <4> QED  BY <3>2, <4>1, <4>2 DEF OneReader
    <3>5. ASSUME NEW k \in Identities
          PROVE  ClaimSound(mailboxes', retired', email', stalwart', k)
      <4>1. CASE k = i
        BY <2>1, <3>2, <4>1 DEF ClaimSound
      <4>2. CASE k # i
        BY <1>3, <2>1, <3>1, <4>2 DEF ClaimSound, Claimed, Claims
      <4> QED  BY <4>1, <4>2
    <3>6. ASSUME NEW v \in Workers
          PROVE  ClaimJob(worker'[v], email', stalwart')
      <4>1. worker'[v] = Idle
        BY <1>2, <2>3, AloneMoves, ReplyMoves
      <4> QED  BY <4>1 DEF ClaimJob, Idle, Created
    <3> QED  BY <1>2, <3>4, <3>5, <3>6, ClaimsPrimed
  <2> QED  BY <1>2, <1>9, <2>2, <2>3 DEF MarkDetailVerified, Answered
<1>10. CASE UndoCreate(w)
  <2>1. /\ job.pc = "undoCreate" /\ UNCHANGED <<mailboxes, email, retired>>
        /\ Goto(w, "undoRow") /\ (DestroyUser(job.account) \/ UNCHANGED stalwart)
    BY <1>10 DEF UndoCreate, At, tables
  <2>2. new.pc = "undoRow" /\ new.name = n
    BY <2>1, GotoJob DEF Created
  <2>3. job.account \in Accounts /\ Belongs(stalwart, job.account, n, i)
    BY <1>1, <2>1, JobAccounts, NoneAssumption DEF AccountSound, Created
  <2>4. \A k \in Identities : Claimed(email, k) => email[k].name # n
    BY <1>1, <2>1 DEF ClaimJob, Created
  <2>5. ASSUME NEW k \in Identities, Claimed(email, k)
        PROVE  ClaimSound(mailboxes', retired', email', stalwart', k)
    <3>1. StaysAs(email[k].name)
      BY <1>3, <2>1, <2>3, <2>4, <2>5, NoneAssumption
      DEF StaysAs, DestroyUser, Belongs, NoAccount
    <3> QED  BY <1>2, <1>3, <2>1, <3>1, ClaimStays
  <2>6. ClaimJob(new, email', stalwart')
    BY <1>2, <2>1, <2>2, <2>4 DEF ClaimJob, Claimed, Claims
  <2> HIDE DEF new
  <2> QED  BY <1>2, <2>1, <2>5, <2>6, ClaimsStep
<1> QED  BY <1>4, <1>5, <1>6, <1>7, <1>8, <1>9, <1>10 DEF SignupStep

LEMMA RemovalClaims ==
    ASSUME TypeOK, TypeOK', Uncrossed, Alone, AccountsFit, NamesFit, ClaimsFit,
           NEW w \in Workers, DeleteStep(w) \/ CleanupStep(w)
    PROVE  ClaimsFit'
<1> DEFINE job == worker[w]
           i == job.who
           n == job.name
           new == worker'[w]
<1>1. job.pc \in ToDelete \union ToClean /\ testNames' = testNames
  BY DEF DeleteStep, DeleteDestroysUser, DeleteReadsEmail, DeleteRevokesEmail, IsRetired,
         Retire, DeleteRow, CleanupStep, CleanupDestroysUser, CleanupDeletesDetail,
         CleanupDeletesRow, At, tables, ToDelete, ToClean
<1>2. /\ i \in Identities /\ n \in Names /\ Moves(w, new) /\ Acts(w)
      /\ (\A v \in Workers \ {w} : At(v, "idle"))
      /\ mailboxes[n].owner = i /\ job.account \in Accounts \union {None}
  <2>1. job \in RemovalJob
    BY <1>1, JobKinds DEF TypeOK, Jobs
  <2>2. mailboxes[n].owner = i
    BY <1>1 DEF Uncrossed, Sound, HavingRow, ToDelete, ToClean
  <2> QED  BY <2>1, <2>2, ActsMoves, ActsAlone DEF RemovalJob, Acts
<1>3. \A k \in Identities : /\ ClaimSound(mailboxes, retired, email, stalwart, k)
                            /\ Claimed(email, k) => email[k].name \in Names
  BY DEF ClaimsFit, Claimed, Claims, TypeOK, Detail, NoDetail
<1>4. /\ AccountSound(job, stalwart) /\ Sound(job, mailboxes, email)
      /\ NameSound(job, mailboxes, retired, email, holders)
  BY <1>2 DEF AccountsFit, Uncrossed, NamesFit
<1>5. new.pc \notin {"create", "undoInsert"} \union Created
  <2>1. Reply(w) \/ \E pc \in ToDelete \union ToClean : Goto(w, pc)
    BY DEF DeleteStep, DeleteDestroysUser, DeleteReadsEmail, DeleteRevokesEmail, IsRetired,
           Retire, DeleteRow, CleanupStep, CleanupDestroysUser, CleanupDeletesDetail,
           CleanupDeletesRow, ToDelete, ToClean
  <2>2. new.pc \in {"idle"} \union ToDelete \union ToClean
    BY <1>1, <2>1, ReplyJob, GotoJob DEF Idle
  <2> HIDE DEF new
  <2> QED  BY <2>2 DEF Created, ToDelete, ToClean
<1>6. ClaimJob(new, email', stalwart')
  BY <1>5 DEF ClaimJob
<1> HIDE DEF new
<1>7. CASE DeleteDestroysUser(w) \/ CleanupDestroysUser(w)
  <2>1. UNCHANGED <<mailboxes, email, retired>> /\ DestroyUser(job.account)
    BY <1>7 DEF DeleteDestroysUser, CleanupDestroysUser, tables
  <2>2. \A a \in Accounts : stalwart'[a] = stalwart[a]
           \/ (a = job.account /\ stalwart'[a] = NoAccount /\ Belongs(stalwart, a, n, i))
    BY <1>1, <1>4, <2>1, NoneAssumption DEF DestroyUser, AccountSound
  <2>3. ASSUME NEW k \in Identities, Claimed(email, k)
        PROVE  ClaimSound(mailboxes', retired', email', stalwart', k)
    <3> DEFINE e == email[k].name
               r == email[k].reader
    <3>1. /\ OnlyOf(stalwart, e, r) /\ e \in Names
          /\ e \in retired \/ mailboxes[e].owner = r \/ Has(stalwart, e, r)
      BY <1>3, <2>3 DEF ClaimSound
    <3>2. OnlyOf(stalwart', e, r)
      BY <2>2, <3>1, NoneAssumption DEF OnlyOf, NoAccount
    <3>3. ASSUME NEW a \in Accounts, stalwart[a] = [name |-> e, owner |-> r]
          PROVE  mailboxes[e].owner = r \/ Has(stalwart', e, r)
      <4>1. CASE stalwart'[a] = stalwart[a]
        BY <3>3, <4>1 DEF Has
      <4>2. CASE Belongs(stalwart, a, n, i)
        BY <1>2, <3>1, <3>3, <4>2, NoneAssumption DEF Belongs, NoAccount
      <4> QED  BY <2>2, <4>1, <4>2
    <3>4. e \in retired \/ mailboxes[e].owner = r \/ Has(stalwart', e, r)
      BY <3>1, <3>3 DEF Has
    <3> QED  BY <2>1, <3>2, <3>4 DEF ClaimSound
  <2> QED  BY <1>1, <1>2, <1>6, <2>1, <2>3, ClaimsStep
<1>8. CASE DeleteReadsEmail(w) \/ IsRetired(w) \/ Retire(w)
  <2>1. UNCHANGED <<mailboxes, email, stalwart>> /\ retired \subseteq retired'
    BY <1>8 DEF DeleteReadsEmail, IsRetired, Retire, tables
  <2> QED  BY <1>1, <1>2, <1>5, <2>1, QuietClaims DEF new
<1>9. CASE DeleteRevokesEmail(w) \/ CleanupDeletesDetail(w)
  <2>1. UNCHANGED <<mailboxes, stalwart, retired>>
    BY <1>9 DEF DeleteRevokesEmail, CleanupDeletesDetail
  <2>2. \A k \in Identities : email'[k] = email[k] \/ ~Claims(email', k)
    <3>1. email[i] # NoDetail => email[i] \in Detail
      BY <1>2 DEF TypeOK
    <3>2. email[i] \in Detail => RevokedEmail(email[i]).state = "revoked"
      BY DEF Detail, RevokedEmail
    <3>3. \/ email'[i] = RevokedEmail(email[i]) /\ email[i] # NoDetail
          \/ email'[i] = NoDetail
      BY <1>2, <1>9 DEF DeleteRevokesEmail, CleanupDeletesDetail, TypeOK
    <3>4. email'[i].state # "active"
      BY <3>1, <3>2, <3>3 DEF NoDetail
    <3>5. \A k \in Identities \ {i} : email'[k] = email[k]
      BY <1>9 DEF DeleteRevokesEmail, CleanupDeletesDetail, TypeOK
    <3> QED  BY <3>4, <3>5 DEF Claims
  <2> QED  BY <1>1, <1>2, <1>5, <2>1, <2>2, QuietClaims DEF new
<1>10. CASE DeleteRow(w) \/ CleanupDeletesRow(w)
  <2>1. /\ job.pc \in {"deleteRow", "cleanRow"} /\ UNCHANGED <<email, stalwart, retired>>
        /\ DeleteMailbox(n)
    BY <1>10 DEF DeleteRow, CleanupDeletesRow, At
  <2>2. n \in retired \/ n \in testNames
    BY <1>4, <2>1 DEF NameSound, Sound, ToClean
  <2>3. ASSUME NEW k \in Identities, Claimed(email, k)
        PROVE  ClaimSound(mailboxes', retired', email', stalwart', k)
    <3>1. CASE email[k].name = n
      <4>1. n \in retired
        BY <2>2, <2>3, <3>1 DEF Claimed
      <4>2. OnlyOf(stalwart, n, email[k].reader)
        BY <1>3, <2>3, <3>1 DEF ClaimSound
      <4> QED  BY <2>1, <3>1, <4>1, <4>2 DEF ClaimSound
    <3>2. CASE email[k].name # n
      <4>1. StaysAs(email[k].name)
        BY <1>3, <2>1, <2>3, <3>2 DEF StaysAs, DeleteMailbox, TypeOK
      <4> QED  BY <1>1, <1>3, <2>1, <4>1, ClaimStays
    <3> QED  BY <3>1, <3>2
  <2> QED  BY <1>1, <1>2, <1>6, <2>1, <2>3, ClaimsStep
<1> QED  BY <1>7, <1>8, <1>9, <1>10 DEF DeleteStep, CleanupStep

\* All is quiet but for one handler that begins or ends.
LEMMA SameClaims ==
    ASSUME ClaimsFit, UNCHANGED <<testNames, mailboxes, retired, email, stalwart>>,
           \A w \in Workers : \/ worker'[w] = worker[w]
                              \/ worker'[w].pc \notin {"create", "undoInsert"} \union Created
    PROVE  ClaimsFit'
<1>1. \A w \in Workers : ClaimJob(worker'[w], email', stalwart')
  BY DEF ClaimsFit, ClaimJob
<1>2. /\ OneReader(email')
      /\ \A k \in Identities : ClaimSound(mailboxes', retired', email', stalwart', k)
  BY DEF ClaimsFit
<1> QED  BY <1>1, <1>2, ClaimsPrimed

LEMMA ReceiveClaims ==
    ASSUME TypeOK, ClaimsFit, NEW w \in Workers, Receive(w)
    PROVE  ClaimsFit'
<1>1. PICK job : Begins(w, job)
  BY ReceiveBegins
<1>2. Moves(w, job)
  BY <1>1, StartMoves DEF Begins
<1>3. job.pc \notin {"create", "undoInsert"} \union Created
  BY <1>1 DEF Begins, Created
<1>4. \A v \in Workers : \/ worker'[v] = worker[v]
                         \/ worker'[v].pc \notin {"create", "undoInsert"} \union Created
  BY <1>2, <1>3 DEF Moves, TypeOK
<1> QED  BY <1>1, <1>4, SameClaims DEF Begins, tables

\* A link arrives only where the name is: at the reader of every claim on it.
LEMMA WritesClaims ==
    ASSUME TypeOK, TypeOK', AccountsFit, ClaimsFit, NEW i \in Identities, Writes(i), Smooth'
    PROVE  ClaimsFit'
<1>1. UNCHANGED <<testNames, mailboxes, retired, stalwart, worker>>
  BY DEF Writes, RevokeEmail, PublishEmail, RequestLink, ConfirmEmail
<1>2. ASSUME NEW k \in Identities, Claimed(email', k)
      PROVE  /\ email'[k].name \in Names /\ email'[k].reader \in Identities
             /\ \/ /\ Claimed(email, k) /\ email'[k].name = email[k].name
                   /\ email'[k].reader = email[k].reader
                \/ Has(stalwart, email'[k].name, email'[k].reader)
  <2>1. /\ email'[k].state = "active" /\ email'[k].reader # None
        /\ email'[k].name \notin testNames /\ email'[k].name \in Names
        /\ email'[k].reader \in Identities
    BY <1>1, <1>2 DEF Claimed, Claims, TypeOK, Detail, NoDetail
  <2>2. CASE /\ email[k].state = "active" /\ email'[k].name = email[k].name
             /\ email'[k].reader = email[k].reader
    BY <2>1, <2>2 DEF Claimed, Claims
  <2>3. CASE k = i /\ email'[i].reader \in Reached(email'[i].name)
    BY <2>1, <2>3, ReachedTypes DEF Has
  <2> QED  BY <2>1, <2>2, <2>3, WrittenOwn
<1>3. ASSUME NEW k \in Identities, Claimed(email', k)
      PROVE  /\ OnlyOf(stalwart, email'[k].name, email'[k].reader)
             /\ \/ email'[k].name \in retired
                \/ mailboxes[email'[k].name].owner = email'[k].reader
                \/ Has(stalwart, email'[k].name, email'[k].reader)
  BY <1>2, <1>3, OneAccount DEF ClaimsFit, ClaimSound, AccountsFit
<1>4. ASSUME NEW k \in Identities, NEW l \in Identities, Claimed(email', k), Claimed(email', l),
             email'[k].name = email'[l].name
      PROVE  email'[k].reader = email'[l].reader
  <2> DEFINE n == email'[k].name
  <2>1. \A r, q : OnlyOf(stalwart, n, r) /\ Has(stalwart, n, q) => r = q
    BY DEF OnlyOf, Has
  <2>2. OnlyOf(stalwart, n, email'[k].reader) /\ OnlyOf(stalwart, n, email'[l].reader)
    BY <1>3, <1>4
  <2>3. CASE Has(stalwart, n, email'[k].reader) \/ Has(stalwart, n, email'[l].reader)
    BY <2>1, <2>2, <2>3
  <2>4. CASE ~(Has(stalwart, n, email'[k].reader) \/ Has(stalwart, n, email'[l].reader))
    <3>1. /\ Claimed(email, k) /\ n = email[k].name /\ email'[k].reader = email[k].reader
          /\ Claimed(email, l) /\ n = email[l].name /\ email'[l].reader = email[l].reader
      BY <1>2, <1>4, <2>4
    <3> HIDE DEF n
    <3> QED  BY <3>1 DEF ClaimsFit, OneReader
  <2> QED  BY <2>3, <2>4
<1>5. OneReader(email')
  BY <1>4 DEF OneReader
<1>6. \A k \in Identities : ClaimSound(mailboxes', retired', email', stalwart', k)
  BY <1>1, <1>3 DEF ClaimSound
<1>7. \A w \in Workers : ClaimJob(worker'[w], email', stalwart')
  <2>1. \A w \in Workers : worker'[w].pc = "idle"
    BY <1>1, AloneEmail DEF At
  <2> QED  BY <2>1 DEF ClaimJob, Created
<1> QED  BY <1>1, <1>5, <1>6, <1>7, ClaimsPrimed

LEMMA ClaimsInvInit == Init => ClaimsInv
<1> SUFFICES ASSUME Init PROVE ClaimsFit
  BY OwnInvInit, NamesInvInit DEF ClaimsInv
<1>1. \A k \in Identities : ~Claimed(email, k)
  BY DEF Init, Claimed, Claims, NoDetail
<1> QED  BY <1>1 DEF ClaimsFit, OneReader, ClaimSound, ClaimJob

LEMMA ClaimsInvNext == ClaimsInv /\ [Next]_vars => ClaimsInv'
<1> SUFFICES ASSUME ClaimsInv, [Next]_vars, Smooth' PROVE ClaimsFit'
  BY OwnInvNext, NamesInvNext DEF ClaimsInv
<1>1. NamesInv /\ OwnInv /\ NamesInv' /\ TypeOK
  BY OwnInvNext, NamesInvNext DEF ClaimsInv, NamesInv, AloneInv, UncrossedInv
<1>2. /\ TypeOK' /\ Smooth /\ Alone /\ Uncrossed /\ AccountsFit /\ OwnFit /\ NamesFit
      /\ ClaimsFit
  BY <1>1, SmoothBefore
  DEF ClaimsInv, OwnInv, AccountsInv, NamesInv, AloneInv, UncrossedInv, Smooth
<1>3. CASE UNCHANGED vars
  BY <1>2, <1>3, SameClaims DEF vars
<1>4. ASSUME NEW w \in Workers, SetPassword(w) \/ Fail(w) \/ Die(w)
      PROVE  ClaimsFit'
  <2>1. Reply(w) /\ UNCHANGED <<testNames, mailboxes, retired, email, stalwart>>
    BY <1>4 DEF SetPassword, Fail, Die, tables
  <2>2. \A v \in Workers : \/ worker'[v] = worker[v]
                           \/ worker'[v].pc \notin {"create", "undoInsert"} \union Created
    BY <1>1, <2>1 DEF Reply, TypeOK, Idle, Created
  <2> QED  BY <1>2, <2>1, <2>2, SameClaims
<1> QED  BY <1>1, <1>2, <1>3, <1>4, ReceiveClaims, SignupClaims, RemovalClaims, WritesClaims
         DEF Next, Writes

\* A verified detail has a reader.
ReadInv == TypeOK /\ \A i \in Identities : email[i].verified => email[i].reader # None

LEMMA ReadInvNext == ReadInv /\ [Next]_vars => ReadInv'
<1> SUFFICES ASSUME ReadInv, [Next]_vars, NEW i \in Identities, email'[i].verified
             PROVE  email'[i].reader # None
  BY NextTypeOK DEF ReadInv
<1>1. CASE email'[i] = email[i]
  BY <1>1 DEF ReadInv
<1>2. ASSUME NEW w \in Workers, StoreDetail(w) \/ DeleteRevokesEmail(w) \/ CleanupDeletesDetail(w)
      PROVE  email'[i] = email[i] \/ ~email'[i].verified
  <2>1. \/ email'[i] \in {email[i], NoDetail, StoredEmail(worker[w].name, None)}
        \/ email'[i] = RevokedEmail(email[i]) /\ email[i] # NoDetail
    BY <1>2 DEF StoreDetail, DeleteRevokesEmail, CleanupDeletesDetail, ReadInv, TypeOK
  <2>2. email[i] \in Detail => ~RevokedEmail(email[i]).verified
    BY DEF RevokedEmail, Detail
  <2> QED  BY <2>1, <2>2 DEF NoDetail, StoredEmail, ReadInv, TypeOK
<1>3. ASSUME NEW w \in Workers, MarkDetailVerified(w)
      PROVE  email'[i] = email[i] \/ email'[i].reader # None
  <2>1. email'[i] = email[i] \/ (i = worker[w].who /\ email[i] # NoDetail
           /\ email' = [email EXCEPT ![i].verified = TRUE, ![i].reader = i])
    BY <1>3 DEF MarkDetailVerified, ReadInv, TypeOK
  <2>2. email[i] # NoDetail => email[i] \in Detail
    BY DEF ReadInv, TypeOK
  <2> QED  BY <2>1, <2>2, NoneAssumption DEF ReadInv, TypeOK, Detail
<1>4. ASSUME NEW j \in Identities, Writes(j), j = i
      PROVE  email'[i] = email[i] \/ ~email'[i].verified \/ email'[i].reader # None
  <2>1. CASE RevokeEmail(i)
    <3>1. email[i] \in Detail /\ email'[i] = RevokedEmail(email[i])
      BY <2>1 DEF RevokeEmail, ReadInv, TypeOK, NoDetail
    <3> QED  BY <3>1 DEF RevokedEmail, Detail
  <2>2. CASE \E n \in Names : PublishEmail(i, n)
    BY <2>2 DEF PublishEmail, StoredEmail, ReadInv, TypeOK
  <2>3. CASE RequestLink(i)
    <3>1. email[i] \in Detail /\ ~email[i].verified
      BY <2>3 DEF RequestLink, ReadInv, TypeOK, NoDetail
    <3>2. PICK r : email' = [email EXCEPT ![i].reader = r]
      BY <2>3 DEF RequestLink
    <3> QED  BY <3>1, <3>2 DEF ReadInv, TypeOK, Detail
  <2>4. CASE ConfirmEmail(i)
    <3>1. email[i] \in Detail /\ email[i].reader # None
      BY <2>4 DEF ConfirmEmail, ReadInv, TypeOK, NoDetail
    <3>2. email' = [email EXCEPT ![i].verified = TRUE]
      BY <2>4 DEF ConfirmEmail
    <3> QED  BY <3>1, <3>2 DEF ReadInv, TypeOK, Detail
  <2> QED  BY <1>4, <2>1, <2>2, <2>3, <2>4 DEF Writes
<1>5. ASSUME NEW j \in Identities, Writes(j), j # i
      PROVE  email'[i] = email[i]
  BY <1>5 DEF Writes, RevokeEmail, PublishEmail, RequestLink, ConfirmEmail, ReadInv, TypeOK
<1>6. \/ email' = email
      \/ \E w \in Workers : \/ StoreDetail(w) \/ DeleteRevokesEmail(w) \/ CleanupDeletesDetail(w)
                            \/ MarkDetailVerified(w)
      \/ \E j \in Identities : Writes(j)
  BY DEF Next, vars, Receive, Signup, ResetPassword, Delete, Cleanup, SignupStep, CheckName,
         CheckRetired, CheckEmail, InsertMailbox, CreateUser, UndoInsert, SetStalwartId,
         UndoCreate, UndoRow, SetPassword, DeleteStep, DeleteDestroysUser, DeleteReadsEmail,
         IsRetired, Retire, DeleteRow, CleanupStep, CleanupDestroysUser, CleanupDeletesRow,
         Fail, Die, tables, Writes
<1> QED  BY <1>1, <1>2, <1>3, <1>4, <1>5, <1>6

\* Identities that show one address have it from one holder of the mailbox, whatever failed
\* or was given back before, while handlers do not overlap; when handlers of different
\* identities interleave, one at most shows it by its own sign-up or mailbox
\* (mail-signup.ts:209-274 and 404-424, verify-email.ts:334).
THEOREM AddressHasOneHolder == Spec => []OneHolder
<1>1. ClaimsInv /\ ReadInv => OneHolder
  <2> SUFFICES ASSUME ClaimsInv, ReadInv, course # "crossed",
                      NEW i \in Identities, NEW j \in Identities, Shows(i), Shows(j),
                      email[i].name = email[j].name,
                      Smooth \/ (email[i].reader = i /\ email[j].reader = j)
               PROVE  email[i].reader = email[j].reader
    BY DEF OneHolder
  <2>1. CASE Smooth
    <3>1. Claimed(email, i) /\ Claimed(email, j)
      BY DEF Shows, ReadInv, Claimed, Claims
    <3> QED  BY <2>1, <3>1 DEF ClaimsInv, ClaimsFit, OneReader
  <2>2. CASE email[i].reader = i /\ email[j].reader = j
    <3> DEFINE n == email[i].name
    <3>1. Own(email, i) /\ Own(email, j)
      BY <2>2 DEF Shows, Own
    <3>2. /\ OnlyOf(stalwart, n, i) /\ (mailboxes[n].owner = i \/ Has(stalwart, n, i))
          /\ OnlyOf(stalwart, n, j) /\ (mailboxes[n].owner = j \/ Has(stalwart, n, j))
      BY <3>1 DEF ClaimsInv, OwnInv, OwnFit, OwnSound
    <3>3. i = j
      BY <3>2 DEF OnlyOf, Has
    <3> QED  BY <3>3
  <2> QED  BY <2>1, <2>2
<1>2. Init => ReadInv
  BY InitTypeOK DEF Init, ReadInv, NoDetail
<1> QED  BY <1>1, <1>2, ReadInvNext, ClaimsInvInit, ClaimsInvNext, PTL DEF Spec

----------------------------------------------------------------------------
(* No account is left without its row. *)

\* The account a is what its row names; or a handler holds it, to write or destroy it.
Kept(mb, st, a) == mb[st[a].name] = [owner |-> st[a].owner, account |-> a]
Held(job, a) == job.pc \in {"setId", "undoCreate"} /\ job.account = a

\* What a handler in progress knows about the row of its name and its account.
RowSound(job, mb, st) ==
    /\ job.pc \in {"create", "undoInsert"} => mb[job.name].account = None
    /\ job.pc \in Created => mb[job.name].account \in {None, job.account}
    /\ job.pc = "setId" => st[job.account] = [name |-> job.name, owner |-> job.who]
    /\ job.pc \in ToDelete \union ToClean => mb[job.name].account = job.account
    /\ job.pc \in ({"undoRow"} \union ToDelete \union ToClean) \ {"destroy", "cleanDestroy"} =>
          job.account = None \/ st[job.account] = NoAccount

RowsFit ==
    /\ \A a \in Accounts : \/ stalwart[a] = NoAccount
                           \/ Kept(mailboxes, stalwart, a)
                           \/ \E w \in Workers : Held(worker[w], a)
    /\ \A w \in Workers : RowSound(worker[w], mailboxes, stalwart)

RowsInv == AloneInv /\ (course = "calm" => RowsFit)

LEMMA RowsStep ==
    ASSUME TypeOK, NEW w \in Workers, \A v \in Workers \ {w} : At(v, "idle"),
           NEW new, Moves(w, new), RowSound(new, mailboxes', stalwart'),
           \A a \in Accounts : \/ stalwart'[a] = NoAccount
                               \/ Kept(mailboxes', stalwart', a)
                               \/ Held(new, a)
    PROVE  RowsFit'
<1>1. worker'[w] = new /\ \A v \in Workers : worker'[v] \in {Idle, new}
  BY AloneMoves
<1>2. \A v \in Workers : RowSound(worker'[v], mailboxes', stalwart')
  BY <1>1 DEF RowSound, Idle, Created, ToDelete, ToClean
<1>3. (\A v \in Workers : RowSound(worker[v], mailboxes, stalwart))'
  BY <1>2 DEF RowSound
<1>4. (\A a \in Accounts : \/ stalwart[a] = NoAccount
                           \/ Kept(mailboxes, stalwart, a)
                           \/ \E v \in Workers : Held(worker[v], a))'
  BY <1>1 DEF Kept, Held
<1> QED  BY <1>3, <1>4 DEF RowsFit

\* Only w can hold an account.
LEMMA RowsBefore ==
    ASSUME RowsFit, NEW w \in Workers, \A v \in Workers \ {w} : At(v, "idle"),
           NEW a \in Accounts, stalwart[a] # NoAccount, ~Held(worker[w], a)
    PROVE  Kept(mailboxes, stalwart, a)
BY DEF RowsFit, Held, At

\* A step that leaves rows and accounts alone, and lets go of none.
LEMMA QuietRows ==
    ASSUME TypeOK, TypeOK', Alone, RowsFit, NEW w \in Workers, Acts(w),
           UNCHANGED <<mailboxes, stalwart>>,
           \A a \in Accounts : Held(worker[w], a) => Held(worker'[w], a),
           RowSound(worker'[w], mailboxes, stalwart)
    PROVE  RowsFit'
<1>1. \A v \in Workers \ {w} : At(v, "idle")
  BY ActsAlone
<1>2. \A a \in Accounts : \/ stalwart'[a] = NoAccount
                          \/ Kept(mailboxes', stalwart', a)
                          \/ Held(worker'[w], a)
  BY <1>1, RowsBefore DEF Kept
<1>3. RowSound(worker'[w], mailboxes', stalwart')
  OBVIOUS
<1> QED  BY <1>1, <1>2, <1>3, ActsMoves, RowsStep

LEMMA SignupRows ==
    ASSUME TypeOK, TypeOK', Uncrossed, Alone, RowsFit, course = "calm", course' = "calm",
           NEW w \in Workers, SignupStep(w)
    PROVE  RowsFit'
<1> DEFINE job == worker[w]
           i == job.who
           n == job.name
           new == worker'[w]
           AllKept == \A a \in Accounts : \/ stalwart'[a] = NoAccount
                                          \/ Kept(mailboxes', stalwart', a)
                                          \/ Held(new, a)
<1>1. job \in Jobs /\ RowSound(job, mailboxes, stalwart)
  BY DEF TypeOK, Jobs, RowsFit
<1>2. (\A v \in Workers \ {w} : At(v, "idle")) /\ Moves(w, new) /\ Acts(w)
  BY ActsAlone, ActsMoves DEF Acts
<1>3. ~Lose
  BY DEF Lose
<1>4. CASE CheckName(w) \/ CheckRetired(w) \/ CheckEmail(w)
  <2>1. job.pc \in {"name", "retired", "email"} /\ UNCHANGED <<mailboxes, stalwart>>
    BY <1>4 DEF CheckName, CheckRetired, CheckEmail, At, tables
  <2>2. new.pc \in {"idle", "retired", "email", "insert"}
    <3>1. job \in SignupJob
      BY <1>1, <2>1, JobKinds DEF ToCreate
    <3> QED  BY <1>4, <3>1 DEF CheckName, CheckRetired, CheckEmail, Reply, Goto, Idle,
                               SignupJob, TypeOK
  <2> HIDE DEF new
  <2>3. \A a \in Accounts : ~Held(job, a)
    BY <2>1 DEF Held
  <2>4. RowSound(new, mailboxes, stalwart)
    BY <2>2 DEF RowSound, Created, ToDelete, ToClean
  <2> QED  BY <1>2, <2>1, <2>3, <2>4, QuietRows DEF new
<1>5. CASE InsertMailbox(w)
  <2>1. job.pc = "insert" /\ UNCHANGED stalwart
    BY <1>5 DEF InsertMailbox, At
  <2>2. n \in Names
    BY <1>1, <2>1, JobKinds DEF SignupJob, ToCreate
  <2>3. \A a \in Accounts : stalwart[a] # NoAccount => Kept(mailboxes, stalwart, a)
    BY <1>2, <2>1, RowsBefore DEF Held
  <2>4. CASE Reply(w) /\ UNCHANGED mailboxes
    <3>1. new = Idle
      BY <2>4, ReplyJob
    <3>2. RowSound(new, mailboxes', stalwart')
      BY <3>1 DEF RowSound, Idle, Created, ToDelete, ToClean
    <3>3. AllKept
      BY <2>1, <2>3, <2>4 DEF Kept
    <3> QED  BY <1>2, <3>2, <3>3, RowsStep
  <2>5. CASE /\ mailboxes[n] = NoRow
             /\ mailboxes' = [mailboxes EXCEPT ![n] = [owner |-> i, account |-> None]]
             /\ Goto(w, "create")
    <3>1. new.pc = "create" /\ new.name = n
      BY <2>1, <2>5, GotoJob DEF ToCreate
    <3>2. mailboxes'[n].account = None
      BY <2>2, <2>5 DEF TypeOK
    <3>3. RowSound(new, mailboxes', stalwart')
      BY <3>1, <3>2 DEF RowSound, Created, ToDelete, ToClean
    <3>4. AllKept
      BY <2>1, <2>3, <2>5, NoneAssumption DEF Kept, NoRow, TypeOK
    <3> QED  BY <1>2, <3>3, <3>4, RowsStep
  <2> QED  BY <1>5, <2>4, <2>5 DEF InsertMailbox, NotUnique
<1>6. CASE CreateUser(w)
  <2>1. /\ job.pc = "create" /\ UNCHANGED mailboxes
        /\ mailboxes[n].account = None
    BY <1>1, <1>6 DEF CreateUser, At, tables, RowSound
  <2>2. \A a \in Accounts : stalwart[a] # NoAccount => Kept(mailboxes, stalwart, a)
    BY <1>2, <2>1, RowsBefore DEF Held
  <2>3. CASE Goto(w, "undoInsert") /\ UNCHANGED stalwart
    <3>1. new.pc = "undoInsert" /\ new.name = n
      BY <2>1, <2>3, GotoJob DEF ToCreate
    <3>2. RowSound(new, mailboxes', stalwart')
      BY <2>1, <3>1 DEF RowSound, Created, ToDelete, ToClean
    <3>3. AllKept
      BY <2>1, <2>2, <2>3 DEF Kept
    <3> QED  BY <1>2, <3>2, <3>3, RowsStep
  <2>4. ASSUME NEW b \in FreshAccounts,
               stalwart' = [stalwart EXCEPT ![b] = [name |-> n, owner |-> i]],
               worker' = [worker EXCEPT ![w] = [pc |-> "setId", who |-> i, name |-> n,
                                                had |-> job.had, account |-> b]]
        PROVE  RowsFit'
    <3>1. /\ new.pc = "setId" /\ new.name = n /\ new.who = i /\ new.account = b
          /\ b \in Accounts
      BY <2>4 DEF TypeOK, FreshAccounts
    <3>2. /\ stalwart'[b] = [name |-> n, owner |-> i]
          /\ \A a \in Accounts \ {b} : stalwart'[a] = stalwart[a]
      BY <2>4, <3>1 DEF TypeOK
    <3>3. RowSound(new, mailboxes', stalwart')
      BY <2>1, <3>1, <3>2 DEF RowSound, Created, ToDelete, ToClean
    <3>4. AllKept
      BY <2>1, <2>2, <3>1, <3>2 DEF Kept, Held
    <3> QED  BY <1>2, <3>3, <3>4, RowsStep
  <2> QED  BY <1>3, <1>6, <2>3, <2>4 DEF CreateUser
<1>7. CASE UndoInsert(w) \/ UndoRow(w)
  <2>1. /\ job.pc \in {"undoInsert", "undoRow"} /\ UNCHANGED stalwart
        /\ Reply(w) /\ DeleteMailbox(n)
    BY <1>3, <1>7 DEF UndoInsert, UndoRow, At
  <2>2. \/ mailboxes[n].account = None
        \/ mailboxes[n].account = job.account /\ stalwart[job.account] = NoAccount
    BY <1>1, <2>1 DEF RowSound, Created
  <2>3. \A a \in Accounts : stalwart[a] # NoAccount => Kept(mailboxes, stalwart, a)
    BY <1>2, <2>1, RowsBefore DEF Held
  <2>4. AllKept
    BY <2>1, <2>2, <2>3, NoneAssumption DEF Kept, DeleteMailbox, TypeOK
  <2>5. new = Idle
    BY <2>1, ReplyJob
  <2>6. RowSound(new, mailboxes', stalwart')
    BY <2>5 DEF RowSound, Idle, Created, ToDelete, ToClean
  <2> QED  BY <1>2, <2>4, <2>6, RowsStep
<1>8. CASE SetStalwartId(w)
  <2>1. job.pc = "setId" /\ UNCHANGED stalwart
    BY <1>8 DEF SetStalwartId, At
  <2>2. /\ i \in Identities /\ n \in Names /\ job.account \in Accounts
        /\ mailboxes[n].owner = i
        /\ mailboxes[n].account \in {None, job.account}
        /\ stalwart[job.account] = [name |-> n, owner |-> i]
    BY <1>1, <2>1, JobKinds
    DEF CreatedJob, Created, RowSound, Uncrossed, Sound, HavingRow, Inserted
  <2>3. \A a \in Accounts \ {job.account} :
           stalwart[a] # NoAccount => Kept(mailboxes, stalwart, a)
    BY <1>2, RowsBefore DEF Held
  <2>4. CASE UNCHANGED mailboxes /\ Goto(w, "undoCreate")
    <3>1. new.pc = "undoCreate" /\ new.name = n /\ new.account = job.account
      BY <2>1, <2>4, GotoJob DEF Created
    <3>2. RowSound(new, mailboxes', stalwart')
      BY <2>2, <2>4, <3>1 DEF RowSound, Created, ToDelete, ToClean
    <3>3. AllKept
      BY <2>1, <2>3, <2>4, <3>1 DEF Kept, Held
    <3> QED  BY <1>2, <3>2, <3>3, RowsStep
  <2>5. CASE /\ mailboxes' = [m \in Names |->
                                IF m = n /\ mailboxes[m] # NoRow
                                THEN [mailboxes[m] EXCEPT !.account = job.account]
                                ELSE mailboxes[m]]
             /\ Goto(w, "detail")
    <3>1. new.pc = "detail" /\ new.name = n /\ new.account = job.account
      BY <2>1, <2>5, GotoJob DEF Created
    <3>2. mailboxes[n] \in Row
      BY <2>2, NoneAssumption DEF TypeOK, NoRow
    <3>3. mailboxes'[n] = [owner |-> i, account |-> job.account]
      <4>1. mailboxes[n] # NoRow
        BY <3>2, NoneAssumption DEF Row, NoRow
      <4>2. mailboxes'[n] = [mailboxes[n] EXCEPT !.account = job.account]
        BY <2>2, <2>5, <4>1
      <4> QED  BY <2>2, <3>2, <4>2 DEF Row
    <3>4. \A m \in Names \ {n} : mailboxes'[m] = mailboxes[m]
      BY <2>5
    <3>5. RowSound(new, mailboxes', stalwart')
      BY <3>1, <3>3 DEF RowSound, Created, ToDelete, ToClean
    <3>6. ASSUME NEW a \in Accounts, stalwart'[a] # NoAccount
          PROVE  Kept(mailboxes', stalwart', a)
      <4>1. CASE a = job.account
        BY <2>1, <2>2, <3>3, <4>1 DEF Kept
      <4>2. CASE a # job.account
        <5>1. Kept(mailboxes, stalwart, a) /\ stalwart[a] \in Account
          BY <2>1, <2>3, <3>6, <4>2 DEF TypeOK
        <5>2. stalwart[a].name # n
          BY <2>2, <4>2, <5>1, NoneAssumption DEF Kept
        <5> QED  BY <2>1, <3>4, <5>1, <5>2 DEF Kept, Account
      <4> QED  BY <4>1, <4>2
    <3> QED  BY <1>2, <3>5, <3>6, RowsStep
  <2> QED  BY <1>8, <2>4, <2>5 DEF SetStalwartId, Answered
<1>9. CASE StoreDetail(w) \/ MarkDetailVerified(w)
  <2>1. job.pc \in {"detail", "verify"} /\ UNCHANGED <<mailboxes, stalwart>>
    BY <1>9 DEF StoreDetail, MarkDetailVerified, At
  <2>2. \/ new = Idle
        \/ new.pc \in {"verify", "undoCreate"} /\ new.name = n /\ new.account = job.account
    BY <1>9, <2>1, ReplyJob, GotoJob DEF StoreDetail, MarkDetailVerified, Answered, Created
  <2> HIDE DEF new
  <2>3. \A a \in Accounts : ~Held(job, a)
    BY <2>1 DEF Held
  <2>4. RowSound(new, mailboxes, stalwart)
    BY <1>1, <2>1, <2>2 DEF RowSound, Idle, Created, ToDelete, ToClean
  <2> QED  BY <1>2, <2>1, <2>3, <2>4, QuietRows DEF new
<1>10. CASE UndoCreate(w)
  <2>1. job.pc = "undoCreate" /\ UNCHANGED mailboxes /\ DestroyUser(job.account)
    BY <1>3, <1>10 DEF UndoCreate, At, tables
  <2>2. new.pc = "undoRow" /\ new.name = n /\ new.account = job.account
    BY <1>10, <2>1, GotoJob DEF UndoCreate, Created
  <2>3. job.account \in Accounts /\ mailboxes[n].account \in {None, job.account}
    BY <1>1, <2>1, JobKinds DEF CreatedJob, Created, RowSound
  <2>4. /\ stalwart'[job.account] = NoAccount
        /\ \A a \in Accounts \ {job.account} : stalwart'[a] = stalwart[a]
    BY <2>1, <2>3 DEF DestroyUser
  <2>5. RowSound(new, mailboxes', stalwart')
    BY <2>1, <2>2, <2>3, <2>4 DEF RowSound, Created, ToDelete, ToClean
  <2>6. \A a \in Accounts \ {job.account} :
           stalwart[a] # NoAccount => Kept(mailboxes, stalwart, a)
    BY <1>2, RowsBefore DEF Held
  <2>7. AllKept
    BY <2>1, <2>4, <2>6 DEF Kept
  <2> QED  BY <1>2, <2>5, <2>7, RowsStep
<1> QED  BY <1>4, <1>5, <1>6, <1>7, <1>8, <1>9, <1>10 DEF SignupStep

LEMMA RemovalRows ==
    ASSUME TypeOK, TypeOK', Alone, RowsFit, course = "calm", course' = "calm",
           NEW w \in Workers, DeleteStep(w) \/ CleanupStep(w)
    PROVE  RowsFit'
<1> DEFINE job == worker[w]
           n == job.name
           new == worker'[w]
           AllKept == \A a \in Accounts : \/ stalwart'[a] = NoAccount
                                          \/ Kept(mailboxes', stalwart', a)
                                          \/ Held(new, a)
<1>1. job \in Jobs /\ RowSound(job, mailboxes, stalwart)
  BY DEF TypeOK, Jobs, RowsFit
<1>2. (\A v \in Workers \ {w} : At(v, "idle")) /\ Moves(w, new) /\ Acts(w)
  BY ActsAlone, ActsMoves DEF Acts
<1>3. ~Lose
  BY DEF Lose
<1>4. job.pc \in ToDelete \union ToClean /\ job \in RemovalJob
  <2>1. job.pc \in ToDelete \union ToClean
    BY DEF DeleteStep, DeleteDestroysUser, DeleteReadsEmail, DeleteRevokesEmail, IsRetired,
           Retire, DeleteRow, CleanupStep, CleanupDestroysUser, CleanupDeletesDetail,
           CleanupDeletesRow, At, ToDelete, ToClean
  <2> QED  BY <1>1, <2>1, JobKinds
<1>5. mailboxes[n].account = job.account /\ \A a \in Accounts : ~Held(job, a)
  BY <1>1, <1>4 DEF RowSound, Held, ToDelete, ToClean
<1>6. \A a \in Accounts : stalwart[a] # NoAccount => Kept(mailboxes, stalwart, a)
  BY <1>2, <1>5, RowsBefore
<1>7. CASE DeleteDestroysUser(w) \/ CleanupDestroysUser(w)
  <2>1. PICK pc \in {"readEmail", "cleanDetail"} :
          Goto(w, pc) /\ DestroyUser(job.account) /\ UNCHANGED mailboxes
    BY <1>3, <1>7 DEF DeleteDestroysUser, CleanupDestroysUser, tables
  <2>2. new.pc = pc /\ new.name = n /\ new.account = job.account
    BY <1>4, <2>1, GotoJob DEF ToDelete, ToClean
  <2>3. \A a \in Accounts : stalwart'[a] = IF a = job.account THEN NoAccount ELSE stalwart[a]
    BY <2>1 DEF DestroyUser
  <2>4. job.account \in Accounts \union {None}
    BY <1>4 DEF RemovalJob
  <2>5. RowSound(new, mailboxes', stalwart')
    BY <1>5, <2>1, <2>2, <2>3, <2>4 DEF RowSound, Created
  <2>6. AllKept
    BY <1>6, <2>1, <2>3 DEF Kept
  <2> QED  BY <1>2, <2>5, <2>6, RowsStep
<1>8. CASE \/ DeleteReadsEmail(w) \/ DeleteRevokesEmail(w) \/ IsRetired(w) \/ Retire(w)
           \/ CleanupDeletesDetail(w)
  <2>1. /\ UNCHANGED <<mailboxes, stalwart>>
        /\ job.pc \notin {"destroy", "cleanDestroy"}
    BY <1>8 DEF DeleteReadsEmail, DeleteRevokesEmail, IsRetired, Retire,
                CleanupDeletesDetail, At, tables
  <2>2. job.account = None \/ stalwart[job.account] = NoAccount
    BY <1>1, <1>4, <2>1 DEF RowSound
  <2>3. \/ new = Idle
        \/ /\ new.pc \in (ToDelete \union ToClean) \ {"destroy", "cleanDestroy"}
           /\ new.name = n /\ new.account = job.account
    <3>1. \/ Reply(w)
          \/ \E pc \in (ToDelete \union ToClean) \ {"destroy", "cleanDestroy"} : Goto(w, pc)
      BY <1>8 DEF DeleteReadsEmail, DeleteRevokesEmail, IsRetired, Retire,
                  CleanupDeletesDetail, ToDelete, ToClean
    <3> QED  BY <1>4, <3>1, ReplyJob, GotoJob
  <2> HIDE DEF new
  <2>4. RowSound(new, mailboxes, stalwart)
    BY <1>5, <2>2, <2>3 DEF RowSound, Idle, Created, ToDelete, ToClean
  <2> QED  BY <1>2, <1>5, <2>1, <2>4, QuietRows DEF new
<1>9. CASE DeleteRow(w) \/ CleanupDeletesRow(w)
  <2>1. /\ job.pc \in {"deleteRow", "cleanRow"} /\ UNCHANGED stalwart
        /\ Reply(w) /\ DeleteMailbox(n)
    BY <1>9 DEF DeleteRow, CleanupDeletesRow, At
  <2>2. job.account = None \/ stalwart[job.account] = NoAccount
    BY <1>1, <1>4, <2>1 DEF RowSound
  <2>3. AllKept
    BY <1>5, <1>6, <2>1, <2>2, NoneAssumption DEF Kept, DeleteMailbox, TypeOK
  <2>4. new = Idle
    BY <2>1, ReplyJob
  <2>5. RowSound(new, mailboxes', stalwart')
    BY <2>4 DEF RowSound, Idle, Created, ToDelete, ToClean
  <2> QED  BY <1>2, <2>3, <2>5, RowsStep
<1> QED  BY <1>7, <1>8, <1>9 DEF DeleteStep, CleanupStep

LEMMA RowsInvInit == Init => RowsInv
<1> SUFFICES ASSUME Init PROVE RowsFit
  BY AloneInvInit DEF RowsInv
<1>1. \A a \in Accounts : stalwart[a] = NoAccount
  BY DEF Init
<1>2. \A w \in Workers : RowSound(worker[w], mailboxes, stalwart)
  BY DEF Init, RowSound, Idle, Created, ToDelete, ToClean
<1> QED  BY <1>1, <1>2 DEF RowsFit

LEMMA RowsInvNext == RowsInv /\ [Next]_vars => RowsInv'
<1> SUFFICES ASSUME RowsInv, [Next]_vars, course' = "calm" PROVE RowsFit'
  BY AloneInvNext DEF RowsInv
<1>1. /\ TypeOK /\ TypeOK' /\ course = "calm" /\ Smooth /\ Smooth'
      /\ Uncrossed /\ Alone /\ RowsFit
  BY AloneInvNext, SmoothBefore DEF RowsInv, AloneInv, UncrossedInv, Smooth
<1>2. CASE UNCHANGED vars
  BY <1>1, <1>2 DEF vars, RowsFit, Kept, Held, RowSound
<1>3. ASSUME NEW w \in Workers, SetPassword(w) \/ Fail(w) \/ Die(w)
      PROVE  RowsFit'
  <2>1. Reply(w) /\ UNCHANGED <<mailboxes, stalwart>>
    BY <1>3 DEF SetPassword, Fail, Die, tables
  <2>2. ~Lose
    BY <1>1 DEF Lose
  <2>3. worker[w].pc \notin {"setId", "undoCreate"}
    BY <1>3, <2>2 DEF SetPassword, Fail, Die, At
  <2>4. worker'[w] = Idle
    BY <1>1, <2>1, ReplyJob
  <2>5. RowSound(worker'[w], mailboxes, stalwart)
    BY <2>4 DEF RowSound, Idle, Created, ToDelete, ToClean
  <2>6. \A a \in Accounts : ~Held(worker[w], a)
    BY <2>3 DEF Held
  <2> QED  BY <1>1, <1>3, <2>1, <2>5, <2>6, QuietRows DEF Acts
<1>4. ASSUME NEW w \in Workers, Receive(w)
      PROVE  RowsFit'
  <2>1. PICK job : Begins(w, job)
    BY <1>1, <1>4, ReceiveBegins
  <2>2. Moves(w, job) /\ \A v \in Workers : At(v, "idle")
    BY <1>1, <2>1, AloneStarts DEF Begins
  <2>3. UNCHANGED <<mailboxes, stalwart>>
    BY <2>1 DEF Begins, tables
  <2>4. \A a \in Accounts : stalwart[a] # NoAccount => Kept(mailboxes, stalwart, a)
    BY <1>1, <2>2, RowsBefore DEF Held, At
  <2>5. \A a \in Accounts : stalwart'[a] = NoAccount \/ Kept(mailboxes', stalwart', a)
    BY <2>3, <2>4 DEF Kept
  <2>6. RowSound(job, mailboxes', stalwart')
    BY <2>1, <2>3 DEF Begins, RowSound, Created, ToDelete, ToClean
  <2> QED  BY <1>1, <2>2, <2>5, <2>6, RowsStep
<1>5. ASSUME NEW i \in Identities, Writes(i)
      PROVE  RowsFit'
  <2>1. UNCHANGED <<worker, mailboxes, stalwart>>
    BY <1>5 DEF Writes, RevokeEmail, PublishEmail, RequestLink, ConfirmEmail
  <2> QED  BY <1>1, <2>1 DEF RowsFit, Kept, Held, RowSound
<1> QED  BY <1>1, <1>2, <1>3, <1>4, <1>5, SignupRows, RemovalRows DEF Next, Writes

\* As long as the mail server and the roll-backs answer, handlers that do not overlap leave
\* every account with the row that lets its owner reset and delete it
\* (mail-signup.ts:267-274).
THEOREM NoOrphanAccount == Spec => []AccountsHaveRows
<1>1. RowsInv => AccountsHaveRows
  BY DEF RowsInv, RowsFit, AccountsHaveRows, Kept, Held, At
<1> QED  BY <1>1, RowsInvInit, RowsInvNext, PTL DEF Spec
=============================================================================
