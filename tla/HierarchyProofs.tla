-------------------------- MODULE HierarchyProofs --------------------------
(***************************************************************************)
(* Theorems about Hierarchy, for every set of identities and of workers,   *)
(* whatever the bound on proposals.                                        *)
(***************************************************************************)
EXTENDS Hierarchy, TLAPS

----------------------------------------------------------------------------
(* Shapes. *)

\* A worker at a database call holds the job that call belongs to.
LEMMA JobKinds ==
    ASSUME worker \in [Workers -> Job], NEW w \in Workers
    PROVE  /\ At(w, "validate") => worker[w] \in Posting \union Proposing \union Accepting
           /\ At(w, "insert") => worker[w] \in Posting \union Accepting
           /\ At(w, "insertPending") => worker[w] \in Proposing
           /\ At(w, "deletePending") => worker[w] \in Accepting \union Rejecting
           /\ At(w, "climb") => worker[w] \in Reading
  BY DEF Job, Posting, Proposing, Accepting, Rejecting, Reading, Idle, At

LEMMA InitTypeOK == Init => TypeOK
  BY MaxProposalsAssumption DEF Init, TypeOK, Job

LEMMA ReceiveTypeOK ==
    ASSUME TypeOK, NEW w \in Workers, Receive(w)
    PROVE  TypeOK'
<1>1. PICK job \in Job : worker' = [worker EXCEPT ![w] = job]
  <2>1. CASE \E e \in Pairs : Post(w, e)
    BY <2>1 DEF Post, Begin, Job, Posting
  <2>2. CASE \E e \in Pairs, f \in Identities : Propose(w, e, f)
    BY <2>2 DEF Propose, Begin, Job, Proposing
  <2>3. CASE \E p \in pending : Accept(w, p)
    BY <2>3 DEF Accept, Begin, Job, Accepting, TypeOK, Proposal
  <2>4. CASE \E p \in pending, f \in Identities : Reject(w, p, f)
    BY <2>4 DEF Reject, Begin, Job, Rejecting, TypeOK, Proposal
  <2>5. CASE \E f \in Identities : Get(w, f)
    BY <2>5 DEF Get, Begin, Job, Reading, TypeOK
  <2> QED  BY <2>1, <2>2, <2>3, <2>4, <2>5 DEF Receive
<1>2. UNCHANGED <<db, history>>
  BY DEF Receive, Post, Propose, Accept, Reject, Get
<1> QED  BY <1>1, <1>2 DEF TypeOK, db, history

LEMMA ReplyTypeOK ==
    ASSUME worker \in [Workers -> Job], NEW w \in Workers, Reply(w)
    PROVE  worker' \in [Workers -> Job]
  BY DEF Reply, Job

LEMMA ValidateTypeOK ==
    ASSUME TypeOK, NEW w \in Workers, Validate(w)
    PROVE  TypeOK'
<1>1. worker[w] \in Posting \union Proposing \union Accepting
  BY JobKinds DEF Validate, TypeOK
<1>2. worker' \in [Workers -> Job]
  <2>1. CASE Reply(w)
    BY <2>1, ReplyTypeOK DEF TypeOK
  <2>2. CASE GoTo(w, IF worker[w].op = "propose" THEN "insertPending" ELSE "insert")
    <3>1. [worker[w] EXCEPT !.pc = IF worker[w].op = "propose"
                                   THEN "insertPending" ELSE "insert"] \in Job
      BY <1>1 DEF Job, Posting, Proposing, Accepting
    <3> QED  BY <2>2, <3>1 DEF GoTo, TypeOK
  <2> QED  BY <2>1, <2>2 DEF Validate
<1> QED  BY <1>2 DEF Validate, TypeOK, db, history

LEMMA InsertTypeOK ==
    ASSUME TypeOK, NEW w \in Workers, Insert(w)
    PROVE  TypeOK'
<1>1. worker[w] \in Posting \union Accepting
  BY JobKinds DEF Insert, TypeOK
<1>2. worker' \in [Workers -> Job]
  <2>1. CASE Reply(w)
    BY <2>1, ReplyTypeOK DEF TypeOK
  <2>2. CASE GoTo(w, "deletePending") /\ worker[w].op = "accept"
    <3>1. [worker[w] EXCEPT !.pc = "deletePending"] \in Job
      BY <1>1, <2>2 DEF Job, Posting, Accepting
    <3> QED  BY <2>2, <3>1 DEF GoTo, TypeOK
  <2> QED  BY <2>1, <2>2 DEF Insert
<1>3. certificates' \subseteq Pairs
  BY <1>1 DEF Insert, Edge, TypeOK, Posting, Accepting
<1> QED  BY <1>2, <1>3 DEF Insert, TypeOK, history

LEMMA InsertPendingTypeOK ==
    ASSUME TypeOK, NEW w \in Workers, InsertPending(w)
    PROVE  TypeOK'
<1>1. worker[w] \in Proposing
  BY JobKinds DEF InsertPending, TypeOK
<1>2. worker' \in [Workers -> Job]
  BY ReplyTypeOK DEF InsertPending, TypeOK
<1>3. CASE /\ nextId <= MaxProposals
           /\ pending' = pending \union {[id |-> nextId, edge |-> Edge(w),
                                          proposer |-> worker[w].proposer]}
           /\ nextId' = nextId + 1
  <2>1. nextId \in ProposalIds /\ nextId' \in 1 .. MaxProposals + 1
    BY <1>3, MaxProposalsAssumption DEF TypeOK, ProposalIds
  <2>2. [id |-> nextId, edge |-> Edge(w), proposer |-> worker[w].proposer] \in Proposal
    BY <1>1, <2>1 DEF Proposal, Proposing, Edge
  <2> QED  BY <1>2, <1>3, <2>1, <2>2 DEF InsertPending, TypeOK, history
<1>4. CASE UNCHANGED <<pending, nextId>>
  BY <1>2, <1>4 DEF InsertPending, TypeOK, history
<1> QED  BY <1>3, <1>4 DEF InsertPending

LEMMA DeletePendingTypeOK ==
    ASSUME TypeOK, NEW w \in Workers, DeletePending(w)
    PROVE  TypeOK'
<1>1. worker[w].id \in ProposalIds
  BY JobKinds DEF DeletePending, TypeOK, Accepting, Rejecting
<1>2. worker' \in [Workers -> Job]
  BY ReplyTypeOK DEF DeletePending, TypeOK
<1> QED  BY <1>1, <1>2 DEF DeletePending, TypeOK

LEMMA ClimbTypeOK ==
    ASSUME TypeOK, NEW w \in Workers, Climb(w)
    PROVE  TypeOK'
<1>1. worker[w] \in Reading
  BY JobKinds DEF Climb, TypeOK
<1>2. worker' \in [Workers -> Job]
  <2>1. CASE Reply(w)
    BY <2>1, ReplyTypeOK DEF TypeOK
  <2>2. ASSUME NEW e \in worker[w].edges,
               worker' = [worker EXCEPT ![w].current = e.master]
        PROVE  worker' \in [Workers -> Job]
    <3>1. e \in Pairs
      BY <1>1 DEF Reading
    <3>2. [worker[w] EXCEPT !.current = e.master] \in Job
      BY <1>1, <3>1 DEF Job, Reading, Pairs
    <3> QED  BY <2>2, <3>2 DEF TypeOK
  <2> QED  BY <2>1, <2>2 DEF Climb
<1> QED  BY <1>2 DEF Climb, TypeOK, db, history

LEMMA NextTypeOK == TypeOK /\ [Next]_vars => TypeOK'
<1> SUFFICES ASSUME TypeOK, [Next]_vars PROVE TypeOK'
  OBVIOUS
<1>1. CASE UNCHANGED vars
  BY <1>1 DEF vars, TypeOK
<1>2. ASSUME NEW w \in Workers, Receive(w)
      PROVE  TypeOK'
  BY <1>2, ReceiveTypeOK
<1>3. ASSUME NEW w \in Workers, Step(w)
      PROVE  TypeOK'
  BY <1>3, ValidateTypeOK, InsertTypeOK, InsertPendingTypeOK, DeletePendingTypeOK,
     ClimbTypeOK DEF Step
<1>4. ASSUME NEW w \in Workers, Fail(w)
      PROVE  TypeOK'
  BY <1>4, ReplyTypeOK DEF Fail, TypeOK, db, history
<1> QED  BY <1>1, <1>2, <1>3, <1>4 DEF Next

\* In every behaviour, whatever interleaves or fails, the tables and the requests in
\* progress keep their shapes.
THEOREM TypeCorrect == Spec => []TypeOK
<1>1. Init => TypeOK
  BY InitTypeOK
<1>2. TypeOK /\ [Next]_vars => TypeOK'
  BY NextTypeOK
<1> QED  BY <1>1, <1>2, PTL DEF Spec

----------------------------------------------------------------------------
(* One master. *)

\* The only step that adds a certificate looks at the table as it is when it adds it.
LEMMA CertificatesGrow ==
    ASSUME [Next]_vars
    PROVE  \/ certificates' = certificates
           \/ \E w \in Workers :
                /\ Insert(w)
                /\ ~HasMaster(certificates, Edge(w).child)
                /\ certificates' = certificates \union {Edge(w)}
<1>1. CASE UNCHANGED vars
  BY <1>1 DEF vars
<1>2. ASSUME NEW w \in Workers, Receive(w)
      PROVE  certificates' = certificates
  BY <1>2 DEF Receive, Post, Propose, Accept, Reject, Get, db
<1>3. ASSUME NEW w \in Workers, Step(w)
      PROVE  \/ certificates' = certificates
             \/ /\ Insert(w)
                /\ ~HasMaster(certificates, Edge(w).child)
                /\ certificates' = certificates \union {Edge(w)}
  BY <1>3 DEF Step, Validate, Insert, InsertPending, DeletePending, Climb, db
<1>4. ASSUME NEW w \in Workers, Fail(w)
      PROVE  certificates' = certificates
  BY <1>4 DEF Fail, db
<1> QED  BY <1>1, <1>2, <1>3, <1>4 DEF Next

\* However the handlers interleave, and however many run at once, no identity ever has
\* two masters (server/hierarchy.ts:181-203).
THEOREM AtMostOneMaster == Spec => []OneMaster
<1>1. Init => OneMaster
  BY DEF Init, OneMaster
<1>2. OneMaster /\ [Next]_vars => OneMaster'
  <2> SUFFICES ASSUME OneMaster, [Next]_vars PROVE OneMaster'
    OBVIOUS
  <2>1. CASE certificates' = certificates
    BY <2>1 DEF OneMaster
  <2>2. ASSUME NEW e, ~HasMaster(certificates, e.child),
               certificates' = certificates \union {e}
        PROVE  OneMaster'
    BY <2>2 DEF OneMaster, HasMaster
  <2> QED  BY <2>1, <2>2, CertificatesGrow
<1> QED  BY <1>1, <1>2, PTL DEF Spec

----------------------------------------------------------------------------
(* No loop, when the server works on one request at a time. *)

\* A pair that validateHierarchy accepts closes no loop.
LEMMA ValidatedKeepsAcyclic ==
    ASSUME NEW E, NEW e, AcyclicOn(E, Identities), WalkEnds(E, e)
    PROVE  AcyclicOn(E \union {e}, Identities)
<1>1. PICK S \in SUBSET Identities :
         e.master \in S /\ e.child \notin S /\ ClosedUpwards(E, S)
  BY DEF WalkEnds
<1> SUFFICES ASSUME NEW T \in SUBSET Identities, T # {}
             PROVE  \E x \in T : \A d \in E \union {e} : d.child = x => d.master \notin T
  BY DEF AcyclicOn
<1>2. CASE T \intersect S = {}
  \* The new master is outside T: whoever had no master in T still has none.
  <2>1. PICK x \in T : \A d \in E : d.child = x => d.master \notin T
    BY DEF AcyclicOn
  <2>2. e.master \notin T
    BY <1>1, <1>2
  <2> QED  BY <2>1, <2>2
<1>3. CASE T \intersect S # {}
  \* A top of T within S: its master is in S, hence not in T; it is not the new child.
  <2>1. T \intersect S \in SUBSET Identities
    OBVIOUS
  <2>2. PICK x \in T \intersect S :
           \A d \in E : d.child = x => d.master \notin T \intersect S
    BY <1>3, <2>1 DEF AcyclicOn
  <2>3. \A d \in E : d.child = x => d.master \notin T
    BY <1>1, <2>2 DEF ClosedUpwards
  <2>4. e.child # x
    BY <1>1, <2>2
  <2> QED  BY <2>2, <2>3, <2>4
<1> QED  BY <1>2, <1>3

\* A handler that is about to insert was right to, and still is.
InsertIsValid ==
    \A w \in Workers : At(w, "insert") => WalkEnds(certificates, Edge(w))

SerialInv == TypeOK /\ OneAtATime /\ Acyclic /\ InsertIsValid

LEMMA SerialInvInit == Init => SerialInv
<1> SUFFICES ASSUME Init PROVE SerialInv
  OBVIOUS
<1>1. TypeOK
  BY InitTypeOK
<1>2. \A w \in Workers : At(w, "idle")
  BY DEF Init, At, Idle
<1>3. Acyclic
  BY DEF Init, Acyclic, AcyclicOn
<1> QED  BY <1>1, <1>2, <1>3 DEF SerialInv, OneAtATime, InsertIsValid, At

\* Workers other than the one that steps are left alone and idle.
LEMMA OthersIdle ==
    ASSUME SerialInv, OneAtATime', NEW w \in Workers, Receive(w) \/ Step(w) \/ Fail(w),
           NEW v \in Workers, v # w
    PROVE  At(v, "idle")'
<1>1. worker'[v] = worker[v]
  BY DEF SerialInv, TypeOK, Receive, Post, Propose, Accept, Reject, Get, Begin, Step,
         Validate, Insert, InsertPending, DeletePending, Climb, Fail, Reply, GoTo
<1>2. CASE Receive(w)
  <2>1. ~At(w, "idle")'
    BY <1>2 DEF SerialInv, TypeOK, Receive, Post, Propose, Accept, Reject, Get, Begin, At
  <2> QED  BY <2>1 DEF OneAtATime
<1>3. CASE Step(w) \/ Fail(w)
  <2>1. ~At(w, "idle")
    BY <1>3 DEF Step, Validate, Insert, InsertPending, DeletePending, Climb, Fail, At
  <2> QED  BY <1>1, <2>1 DEF SerialInv, OneAtATime, At
<1> QED  BY <1>2, <1>3

\* Only Validate brings a worker to "insert", and only for a pair it accepts.
LEMMA ReachInsert ==
    ASSUME TypeOK, NEW w \in Workers, Receive(w) \/ Step(w) \/ Fail(w), At(w, "insert")'
    PROVE  /\ certificates' = certificates
           /\ WalkEnds(certificates, worker'[w].edge)
<1>1. CASE Validate(w)
  <2>1. worker[w] \in Posting \union Proposing \union Accepting
    BY <1>1, JobKinds DEF Validate, TypeOK
  <2>2. ValidateHierarchy(certificates, Edge(w))
    BY <1>1 DEF Validate, Reply, Idle, At, TypeOK
  <2>3. worker'[w].edge = Edge(w)
    BY <1>1, <2>1, <2>2 DEF Validate, GoTo, Edge, TypeOK, Posting, Proposing, Accepting
  <2> QED  BY <1>1, <2>2, <2>3 DEF Validate, ValidateHierarchy, db
<1>2. CASE Receive(w)
  BY <1>2 DEF Receive, Post, Propose, Accept, Reject, Get, Begin, At, TypeOK
<1>3. CASE Insert(w) \/ InsertPending(w) \/ DeletePending(w) \/ Fail(w)
  <2>1. Reply(w) \/ GoTo(w, "deletePending")
    BY <1>3 DEF Insert, InsertPending, DeletePending, Fail
  <2>2. CASE Reply(w)
    BY <2>2 DEF Reply, Idle, At, TypeOK
  <2>3. CASE GoTo(w, "deletePending") /\ Insert(w)
    <3>1. worker[w] \in Posting \union Accepting
      BY <2>3, JobKinds DEF Insert, TypeOK
    <3> QED  BY <2>3, <3>1 DEF GoTo, At, TypeOK, Posting, Accepting
  <2> QED  BY <1>3, <2>1, <2>2, <2>3 DEF InsertPending, DeletePending, Fail
<1>4. CASE Climb(w)
  <2>1. worker[w] \in Reading
    BY <1>4, JobKinds DEF Climb, TypeOK
  <2> QED  BY <1>4, <2>1 DEF Climb, Reply, Idle, At, TypeOK, Reading
<1> QED  BY <1>1, <1>2, <1>3, <1>4 DEF Step

LEMMA SerialInvNext == SerialInv /\ [SerialNext]_vars => SerialInv'
<1> SUFFICES ASSUME SerialInv, [SerialNext]_vars PROVE SerialInv'
  OBVIOUS
<1>1. CASE UNCHANGED vars
  BY <1>1 DEF vars, SerialInv, TypeOK, OneAtATime, Acyclic, InsertIsValid, At, Edge
<1>2. CASE SerialNext
  <2>1. TypeOK' /\ OneAtATime'
    BY <1>2, NextTypeOK DEF SerialInv, SerialNext
  <2>2. PICK w \in Workers : Receive(w) \/ Step(w) \/ Fail(w)
    BY <1>2 DEF SerialNext, Next
  <2>3. InsertIsValid'
    <3> SUFFICES ASSUME NEW v \in Workers, At(v, "insert")'
                 PROVE  WalkEnds(certificates, Edge(v))'
      BY DEF InsertIsValid
    <3>1. v = w
      BY <2>1, <2>2, OthersIdle DEF At
    <3> QED  BY <2>2, <3>1, ReachInsert DEF SerialInv, Edge
  <2>4. Acyclic'
    <3>1. CASE certificates' = certificates
      BY <3>1 DEF SerialInv, Acyclic
    <3>2. ASSUME NEW v \in Workers, Insert(v),
                 certificates' = certificates \union {Edge(v)}
          PROVE  Acyclic'
      BY <3>2, ValidatedKeepsAcyclic DEF SerialInv, Acyclic, InsertIsValid, Insert
    <3> QED  BY <1>2, <3>1, <3>2, CertificatesGrow DEF SerialNext
  <2> QED  BY <2>1, <2>3, <2>4 DEF SerialInv
<1> QED  BY <1>1, <1>2

\* When the server works on one request at a time, whatever fails in the middle of
\* one, the hierarchy of any number of identities never has a loop
\* (core/HierarchyCertificate.ts:182-221, server/hierarchy.ts:168-203).
THEOREM SerialAcyclic == SerialSpec => []Acyclic
<1>1. SerialInv => Acyclic
  BY DEF SerialInv
<1> QED  BY <1>1, SerialInvInit, SerialInvNext, PTL DEF SerialSpec

----------------------------------------------------------------------------
(* The walk of GET ends.  What is above the identity it has come to shrinks with
   each iteration, so that there are at most as many as identities; that it is also
   run to its end is fairness, and left to TLC (Answered). *)

\* x and the masters above it: what every upward closed set with x in it contains.
Above(E, x) ==
    {y \in Identities :
        \A S \in SUBSET Identities : x \in S /\ ClosedUpwards(E, S) => y \in S}

LEMMA AboveIsClosed ==
    ASSUME NEW E \in SUBSET Pairs, NEW x \in Identities
    PROVE  x \in Above(E, x) /\ ClosedUpwards(E, Above(E, x))
<1>1. ASSUME NEW e \in E, e.child \in Above(E, x)
      PROVE  e.master \in Above(E, x)
  <2>1. e.master \in Identities
    BY DEF Pairs
  <2> QED  BY <1>1, <2>1 DEF Above, ClosedUpwards
<1> QED  BY <1>1 DEF Above, ClosedUpwards

\* Above an identity is itself, or one above one of its masters.
LEMMA AboveByMaster ==
    ASSUME NEW E \in SUBSET Pairs, NEW y \in Identities, NEW x \in Above(E, y), x # y
    PROVE  \E e \in E : e.child = y /\ x \in Above(E, e.master)
<1> DEFINE C == {y} \union {z \in Identities : \E e \in E :
                               e.child = y /\ z \in Above(E, e.master)}
<1>1. C \in SUBSET Identities /\ y \in C
  OBVIOUS
<1>2. ASSUME NEW d \in E, d.child \in C
      PROVE  d.master \in C
  <2>1. d.master \in Identities
    BY DEF Pairs
  <2>2. CASE d.child = y
    BY <2>1, <2>2, AboveIsClosed
  <2>3. CASE d.child # y
    <3>1. PICK e \in E : e.child = y /\ d.child \in Above(E, e.master)
      BY <1>2, <2>3
    <3>2. e.master \in Identities
      BY DEF Pairs
    <3>3. d.master \in Above(E, e.master)
      BY <3>1, <3>2, AboveIsClosed DEF ClosedUpwards
    <3> QED  BY <2>1, <3>1, <3>3
  <2> QED  BY <2>2, <2>3
<1>3. x \in C
  BY <1>1, <1>2 DEF Above, ClosedUpwards
<1> QED  BY <1>3

\* Without a loop nobody is above its own master.
LEMMA NotAboveMaster ==
    ASSUME NEW E \in SUBSET Pairs, AcyclicOn(E, Identities), NEW e \in E
    PROVE  e.child \notin Above(E, e.master)
<1> DEFINE x == e.child
           T == {y \in Above(E, e.master) : x \in Above(E, y)}
<1> SUFFICES ASSUME x \in Above(E, e.master) PROVE FALSE
  OBVIOUS
<1>1. x \in Identities /\ e.master \in Identities
  BY DEF Pairs
<1>2. T \in SUBSET Identities /\ e.master \in T
  BY <1>1, AboveIsClosed DEF Above
<1>3. ASSUME NEW y \in T
      PROVE  \E d \in E : d.child = y /\ d.master \in T
  <2>1. y \in Identities
    BY <1>2
  <2>2. PICK d \in E : d.child = y /\ x \in Above(E, d.master)
    <3>1. CASE y = x
      BY <3>1
    <3>2. CASE y # x
      BY <2>1, <3>2, AboveByMaster
    <3> QED  BY <3>1, <3>2
  <2>3. d.master \in Above(E, e.master)
    BY <1>1, <2>2, AboveIsClosed DEF ClosedUpwards
  <2> QED  BY <2>2, <2>3
<1> QED  BY <1>2, <1>3 DEF AcyclicOn

LEMMA AboveShrinks ==
    ASSUME NEW E \in SUBSET Pairs, AcyclicOn(E, Identities), NEW e \in E
    PROVE  /\ Above(E, e.master) \subseteq Above(E, e.child)
           /\ e.child \in Above(E, e.child) \ Above(E, e.master)
<1>1. e.child \in Identities
  BY DEF Pairs
<1>2. Above(E, e.master) \subseteq Above(E, e.child)
  BY DEF Above, ClosedUpwards
<1> QED  BY <1>1, <1>2, AboveIsClosed, NotAboveMaster

\* The list a walk goes over is one the server had, without a loop.
ReadsForest ==
    \A w \in Workers : At(w, "climb") => AcyclicOn(worker[w].edges, Identities)

ForestInv == SerialInv /\ ReadsForest

LEMMA ReadsForestStep ==
    ASSUME ForestInv, NEW w \in Workers, Receive(w) \/ Step(w) \/ Fail(w),
           NEW v \in Workers, At(v, "climb")'
    PROVE  AcyclicOn(worker'[v].edges, Identities)
<1> USE DEF ForestInv, SerialInv
<1>1. CASE v # w
  <2>1. worker'[v] = worker[v]
    BY <1>1 DEF TypeOK, Receive, Post, Propose, Accept, Reject, Get, Begin, Step,
                Validate, Insert, InsertPending, DeletePending, Climb, Fail, Reply, GoTo
  <2> QED  BY <2>1 DEF ReadsForest, At
<1>2. CASE v = w /\ \E f \in Identities : Get(w, f)
  <2>1. PICK f \in Identities :
           worker' = [worker EXCEPT ![w] = [pc |-> "climb", op |-> "get",
                                            edges |-> certificates, current |-> f]]
    BY <1>2 DEF Get, Begin
  <2>2. worker'[w].edges = certificates
    BY <2>1 DEF TypeOK
  <2> QED  BY <1>2, <2>2 DEF Acyclic
<1>3. CASE v = w /\ Climb(w)
  <2>1. worker[w] \in Reading /\ At(w, "climb")
    BY <1>3, JobKinds DEF Climb, TypeOK
  <2>2. worker'[w].edges = worker[w].edges
    BY <1>3, <2>1 DEF Climb, Reply, Idle, At, TypeOK, Reading
  <2> QED  BY <1>3, <2>1, <2>2 DEF ReadsForest
<1>4. CASE v = w /\ Receive(w) /\ ~\E f \in Identities : Get(w, f)
  <2>1. worker'[w].pc # "climb"
    BY <1>4 DEF Receive, Post, Propose, Accept, Reject, Begin, TypeOK
  <2> QED  BY <1>4, <2>1 DEF At
<1>5. CASE v = w /\ (Step(w) \/ Fail(w)) /\ ~Climb(w)
  <2>1. ~At(w, "idle") /\ (Reply(w) \/ GoTo(w, "insertPending") \/ GoTo(w, "insert")
                           \/ GoTo(w, "deletePending"))
    BY <1>5 DEF Step, Validate, Insert, InsertPending, DeletePending, Fail, At
  <2>2. worker'[w].pc # "climb"
    BY <2>1 DEF Reply, GoTo, Idle, At, TypeOK, Job, Posting, Proposing, Accepting,
                Rejecting, Reading
  <2> QED  BY <1>5, <2>2 DEF At
<1> QED  BY <1>1, <1>2, <1>3, <1>4, <1>5

LEMMA ForestInvariant == SerialSpec => []ForestInv
<1>1. Init => ForestInv
  <2>1. Init => SerialInv
    BY SerialInvInit
  <2> QED  BY <2>1 DEF ForestInv, ReadsForest, Init, Idle, At
<1>2. ForestInv /\ [SerialNext]_vars => ForestInv'
  <2> SUFFICES ASSUME ForestInv, [SerialNext]_vars PROVE ForestInv'
    OBVIOUS
  <2>1. SerialInv'
    BY SerialInvNext DEF ForestInv
  <2>2. CASE UNCHANGED vars
    BY <2>1, <2>2 DEF vars, ForestInv, ReadsForest, At
  <2>3. CASE SerialNext
    <3>1. PICK w \in Workers : Receive(w) \/ Step(w) \/ Fail(w)
      BY <2>3 DEF SerialNext, Next
    <3>2. ReadsForest'
      BY <3>1, ReadsForestStep DEF ReadsForest
    <3> QED  BY <2>1, <3>2 DEF ForestInv
  <2> QED  BY <2>2, <2>3
<1> QED  BY <1>1, <1>2, PTL DEF SerialSpec

\* When the server works on one request at a time, every iteration of the `while (true)`
\* of GET /hierarchy leaves fewer identities above the one it has come to
\* (server/hierarchy.ts:398-403).
THEOREM WalksRise ==
    SerialSpec =>
      [][\A w \in Workers : At(w, "climb") /\ At(w, "climb")' =>
            LET before == Above(worker[w].edges, worker[w].current)
                after == Above(worker'[w].edges, worker'[w].current)
            IN  after \subseteq before /\ after # before]_vars
<1>1. ForestInv /\ [SerialNext]_vars =>
        [\A w \in Workers : At(w, "climb") /\ At(w, "climb")' =>
            LET before == Above(worker[w].edges, worker[w].current)
                after == Above(worker'[w].edges, worker'[w].current)
            IN  after \subseteq before /\ after # before]_vars
  <2> SUFFICES ASSUME ForestInv, SerialNext, NEW w \in Workers,
                      At(w, "climb"), At(w, "climb")'
               PROVE  LET before == Above(worker[w].edges, worker[w].current)
                          after == Above(worker'[w].edges, worker'[w].current)
                      IN  after \subseteq before /\ after # before
    OBVIOUS
  <2> USE DEF ForestInv, SerialInv
  <2>1. PICK v \in Workers : EventLoopFree(v) /\ (Receive(v) \/ Step(v) \/ Fail(v))
    BY DEF SerialNext, Next
  <2>2. v = w
    BY <2>1 DEF EventLoopFree
  <2>3. Climb(w)
    BY <2>1, <2>2 DEF Receive, Post, Propose, Accept, Reject, Get, Begin, Step, Validate,
                      Insert, InsertPending, DeletePending, Fail, At
  <2>4. worker[w] \in Reading
    BY JobKinds DEF TypeOK
  <2>5. ~Reply(w)
    BY DEF Reply, Idle, At, TypeOK
  <2>6. PICK e \in worker[w].edges :
           /\ e.child = worker[w].current
           /\ worker' = [worker EXCEPT ![w].current = e.master]
    BY <2>3, <2>5 DEF Climb
  <2>7. worker'[w].edges = worker[w].edges /\ worker'[w].current = e.master
    BY <2>4, <2>6 DEF TypeOK, Reading
  <2>8. worker[w].edges \in SUBSET Pairs /\ AcyclicOn(worker[w].edges, Identities)
    BY <2>4 DEF Reading, ReadsForest
  <2> QED  BY <2>6, <2>7, <2>8, AboveShrinks
<1> QED  BY <1>1, ForestInvariant, PTL DEF SerialSpec

----------------------------------------------------------------------------
(* The ids of proposals, under every interleaving. *)

\* A request that answers a proposal.
Answers(job) == job.pc # "idle" /\ job.op \in {"accept", "reject"}
SameAnswer(job, new) ==
    /\ Answers(job)
    /\ new.op = job.op /\ new.id = job.id
    /\ new.op = "accept" => new.edge = job.edge
AnswerTo(p, new) == new.id = p.id /\ (new.op = "accept" => new.edge = p.edge)

\* No id is given out that a row or a request has.
IdsAreUsed ==
    /\ \A p \in pending : p.id < nextId
    /\ \A w \in Workers : Answers(worker[w]) => worker[w].id < nextId

IdsInv == TypeOK /\ ProposalsDistinct /\ IdsAreUsed

\* Whoever answers a proposal goes on with it, or has just read it.
LEMMA AnswersKeep ==
    ASSUME TypeOK, NEW w \in Workers, Receive(w) \/ Step(w) \/ Fail(w),
           Answers(worker'[w])
    PROVE  \/ SameAnswer(worker[w], worker'[w])
           \/ \E p \in pending : AnswerTo(p, worker'[w]) /\ UNCHANGED <<db, history>>
<1>1. CASE Receive(w)
  BY <1>1 DEF Receive, Post, Propose, Accept, Reject, Get, Begin, Answers, AnswerTo, TypeOK
<1>2. CASE Validate(w)
  <2>1. worker[w] \in Posting \union Proposing \union Accepting
    BY <1>2, JobKinds DEF Validate, TypeOK
  <2> QED  BY <1>2, <2>1 DEF Validate, GoTo, Reply, Idle, Answers, SameAnswer, TypeOK,
                             Posting, Proposing, Accepting
<1>3. CASE Insert(w)
  <2>1. worker[w] \in Posting \union Accepting
    BY <1>3, JobKinds DEF Insert, TypeOK
  <2> QED  BY <1>3, <2>1 DEF Insert, GoTo, Reply, Idle, Answers, SameAnswer, TypeOK,
                             Posting, Accepting
<1>4. CASE InsertPending(w) \/ DeletePending(w) \/ Fail(w)
  BY <1>4 DEF InsertPending, DeletePending, Fail, Reply, Idle, Answers, TypeOK
<1>5. CASE Climb(w)
  <2>1. worker[w] \in Reading
    BY <1>5, JobKinds DEF Climb, TypeOK
  <2> QED  BY <1>5, <2>1 DEF Climb, Reply, Idle, Answers, TypeOK, Reading
<1> QED  BY <1>1, <1>2, <1>3, <1>4, <1>5 DEF Step

\* A row is stored with the next id, for a pair that no row has; the others only go.
LEMMA PendingChanges ==
    ASSUME TypeOK, NEW w \in Workers, Receive(w) \/ Step(w) \/ Fail(w)
    PROVE  \/ pending' \subseteq pending /\ nextId' = nextId
           \/ \E p \in Proposal : /\ pending' = pending \union {p}
                                  /\ p.id = nextId /\ nextId' = nextId + 1
                                  /\ \A q \in pending : q.edge # p.edge
                                  /\ worker'[w] = Idle /\ UNCHANGED history
<1>1. CASE InsertPending(w)
  <2>1. worker[w] \in Proposing
    BY <1>1, JobKinds DEF InsertPending, TypeOK
  <2>2. CASE /\ nextId <= MaxProposals
             /\ \A q \in pending : q.edge # Edge(w)
    <3> DEFINE p == [id |-> nextId, edge |-> Edge(w), proposer |-> worker[w].proposer]
    <3>1. p \in Proposal
      BY <2>1, <2>2, MaxProposalsAssumption
      DEF Proposal, Proposing, Edge, TypeOK, ProposalIds
    <3> QED  BY <1>1, <2>2, <3>1 DEF InsertPending, Reply, TypeOK
  <2>3. CASE UNCHANGED <<pending, nextId>>
    BY <2>3
  <2> QED  BY <1>1, <2>2, <2>3 DEF InsertPending
<1>2. CASE Receive(w) \/ Fail(w)
  BY <1>2 DEF Receive, Post, Propose, Accept, Reject, Get, Fail, db
<1>3. CASE Validate(w) \/ Insert(w) \/ DeletePending(w) \/ Climb(w)
  BY <1>3 DEF Validate, Insert, DeletePending, Climb, db
<1> QED  BY <1>1, <1>2, <1>3 DEF Step

\* Workers other than the one that steps.
LEMMA OthersStay ==
    ASSUME TypeOK, NEW w \in Workers, Receive(w) \/ Step(w) \/ Fail(w),
           NEW v \in Workers, v # w
    PROVE  worker'[v] = worker[v]
BY DEF TypeOK, Receive, Post, Propose, Accept, Reject, Get, Begin, Step,
       Validate, Insert, InsertPending, DeletePending, Climb, Fail, Reply, GoTo

LEMMA IdsInvNext == IdsInv /\ [Next]_vars => IdsInv'
<1> SUFFICES ASSUME IdsInv, [Next]_vars PROVE IdsInv'
  OBVIOUS
<1>1. TypeOK /\ TypeOK'
  BY NextTypeOK DEF IdsInv
<1>2. CASE UNCHANGED vars
  BY <1>1, <1>2 DEF vars, IdsInv, ProposalsDistinct, IdsAreUsed
<1>3. ASSUME NEW w \in Workers, Receive(w) \/ Step(w) \/ Fail(w)
      PROVE  IdsInv'
  <2>1. \A v \in Workers : Answers(worker'[v]) =>
           \/ SameAnswer(worker[v], worker'[v])
           \/ \E p \in pending : AnswerTo(p, worker'[v]) /\ UNCHANGED <<db, history>>
    BY <1>1, <1>3, AnswersKeep, OthersStay DEF Answers, SameAnswer
  <2>2. nextId \in Nat
    BY <1>1, MaxProposalsAssumption DEF TypeOK
  <2>3. CASE pending' \subseteq pending /\ nextId' = nextId
    <3>1. \A v \in Workers : Answers(worker'[v]) =>
             \/ SameAnswer(worker[v], worker'[v])
             \/ \E p \in pending : AnswerTo(p, worker'[v])
      BY <2>1
    <3>2. ProposalsDistinct'
      BY <2>3, <3>1 DEF IdsInv, ProposalsDistinct, Answers, SameAnswer, AnswerTo
    <3>3. IdsAreUsed'
      BY <2>3, <3>1 DEF IdsInv, IdsAreUsed, SameAnswer, AnswerTo
    <3> QED  BY <1>1, <3>2, <3>3 DEF IdsInv
  <2>4. ASSUME NEW q \in Proposal, pending' = pending \union {q},
               q.id = nextId, nextId' = nextId + 1, \A r \in pending : r.edge # q.edge,
               worker'[w] = Idle
        PROVE  IdsInv'
    <3>1. \A v \in Workers : Answers(worker'[v]) => SameAnswer(worker[v], worker'[v])
      BY <1>1, <1>3, <2>4, OthersStay DEF Answers, SameAnswer, Idle
    <3>2. \A p \in pending : p.id \in Nat /\ p.id # q.id
      BY <1>1, <2>2, <2>4 DEF IdsInv, IdsAreUsed, TypeOK, Proposal, ProposalIds
    <3>3. \A v \in Workers : Answers(worker'[v]) => worker'[v].id < nextId
      BY <3>1 DEF IdsInv, IdsAreUsed, SameAnswer
    <3>4. ProposalsDistinct'
      <4>1. \A p, r \in pending' : p.id = r.id \/ p.edge = r.edge => p = r
        BY <2>4, <3>2 DEF IdsInv, ProposalsDistinct
      <4>2. ASSUME NEW p \in pending', NEW v \in Workers,
                   worker'[v].pc # "idle", worker'[v].op = "accept", worker'[v].id = p.id
            PROVE  worker'[v].edge = p.edge
        <5>1. SameAnswer(worker[v], worker'[v]) /\ worker'[v].id < nextId
          BY <3>1, <3>3, <4>2 DEF Answers
        <5>2. p \in pending
          BY <2>2, <2>4, <4>2, <5>1
        <5> QED  BY <4>2, <5>1, <5>2 DEF IdsInv, ProposalsDistinct, SameAnswer, Answers
      <4> QED  BY <4>1, <4>2 DEF ProposalsDistinct
    <3>5. IdsAreUsed'
      <4>1. \A p \in pending' : p.id < nextId'
        BY <2>2, <2>4, <3>2 DEF IdsInv, IdsAreUsed
      <4>2. \A v \in Workers : Answers(worker'[v]) => worker'[v].id \in Nat
        BY <1>1 DEF TypeOK, Job, Idle, Posting, Proposing, Accepting, Rejecting, Reading,
                    Answers, ProposalIds
      <4> QED  BY <2>2, <2>4, <3>3, <4>1, <4>2 DEF IdsAreUsed
    <3> QED  BY <1>1, <3>4, <3>5 DEF IdsInv
  <2> QED  BY <1>1, <1>3, <2>3, <2>4, PendingChanges
<1> QED  BY <1>2, <1>3 DEF Next

LEMMA IdsInvInit == Init => IdsInv
BY InitTypeOK DEF Init, IdsInv, ProposalsDistinct, IdsAreUsed, Answers, Idle

\* However many handlers interleave, and whatever fails, a pair waits at most once, and
\* the id an accept holds is never that of another pair (server/hierarchy.ts:348-373).
THEOREM IdsNamePairs == Spec => []ProposalsDistinct
<1>1. IdsInv => ProposalsDistinct
  BY DEF IdsInv
<1> QED  BY <1>1, IdsInvInit, IdsInvNext, PTL DEF Spec

----------------------------------------------------------------------------
(* What becomes of a proposal, under every interleaving. *)

\* An accept deletes its proposal only after its pair is a certificate.
AcceptsAreStored ==
    \A w \in Workers :
       At(w, "deletePending") /\ worker[w].op = "accept" => Edge(w) \in certificates

StoredInv == IdsInv /\ AcceptsAreStored

\* Who comes to delete a proposal as accepted has stored the pair in that step.
LEMMA StoresBeforeDelete ==
    ASSUME TypeOK, NEW w \in Workers, Receive(w) \/ Step(w) \/ Fail(w),
           At(w, "deletePending")', worker'[w].op = "accept"
    PROVE  Edge(w)' \in certificates'
<1>1. CASE Insert(w)
  <2>1. worker[w] \in Posting \union Accepting
    BY <1>1, JobKinds DEF Insert, TypeOK
  <2>2. worker'[w].edge = worker[w].edge /\ Edge(w) \in certificates'
    BY <1>1, <2>1 DEF Insert, GoTo, Reply, Idle, At, Edge, TypeOK, Posting, Accepting
  <2> QED  BY <2>2 DEF Edge
<1>2. CASE Validate(w)
  <2>1. worker[w] \in Posting \union Proposing \union Accepting
    BY <1>2, JobKinds DEF Validate, TypeOK
  <2> QED  BY <1>2, <2>1 DEF Validate, GoTo, Reply, Idle, At, TypeOK,
                             Posting, Proposing, Accepting
<1>3. CASE Climb(w)
  <2>1. worker[w] \in Reading
    BY <1>3, JobKinds DEF Climb, TypeOK
  <2> QED  BY <1>3, <2>1 DEF Climb, Reply, Idle, At, TypeOK, Reading
<1>4. CASE InsertPending(w) \/ DeletePending(w) \/ Fail(w)
  BY <1>4 DEF InsertPending, DeletePending, Fail, Reply, Idle, At, TypeOK
<1>5. CASE Receive(w)
  BY <1>5 DEF Receive, Post, Propose, Accept, Reject, Get, Begin, At, TypeOK
<1> QED  BY <1>1, <1>2, <1>3, <1>4, <1>5 DEF Step

LEMMA StoredInvNext == StoredInv /\ [Next]_vars => StoredInv'
<1> SUFFICES ASSUME StoredInv, [Next]_vars PROVE StoredInv'
  OBVIOUS
<1>1. IdsInv' /\ TypeOK
  BY IdsInvNext DEF StoredInv, IdsInv
<1>2. CASE UNCHANGED vars
  BY <1>1, <1>2 DEF vars, StoredInv, AcceptsAreStored, At, Edge
<1>3. ASSUME NEW w \in Workers, Receive(w) \/ Step(w) \/ Fail(w)
      PROVE  StoredInv'
  <2>1. ASSUME NEW v \in Workers, At(v, "deletePending")', worker'[v].op = "accept"
        PROVE  Edge(v)' \in certificates'
    <3>1. CASE v = w
      BY <1>1, <1>3, <2>1, <3>1, StoresBeforeDelete
    <3>2. CASE v # w
      <4>1. worker'[v] = worker[v]
        BY <1>1, <1>3, <3>2, OthersStay
      <4> QED  BY <1>3, <2>1, <4>1, CertificatesGrow DEF StoredInv, AcceptsAreStored, At, Edge
    <3> QED  BY <3>1, <3>2
  <2> QED  BY <1>1, <2>1 DEF StoredInv, AcceptsAreStored
<1> QED  BY <1>2, <1>3 DEF Next

LEMMA StoredInvariant == Spec => []StoredInv
<1>1. Init => StoredInv
  BY IdsInvInit DEF Init, StoredInv, AcceptsAreStored, At, Idle
<1> QED  BY <1>1, StoredInvNext, PTL DEF Spec

\* However handlers interleave and wherever they fail, a proposal is dropped only when its
\* pair is a certificate or the other party rejected this very proposal
\* (server/hierarchy.ts:348-373).
THEOREM ProposalsLeaveAnswered ==
    Spec => [][\A p \in pending \ pending' :
                  \/ p.edge \in certificates
                  \/ \E w \in Workers : /\ At(w, "deletePending")
                                        /\ worker[w].op = "reject"
                                        /\ worker[w].id = p.id]_vars
<1>1. ASSUME StoredInv, [Next]_vars, NEW p \in pending \ pending',
             \A w \in Workers : ~ /\ At(w, "deletePending")
                                  /\ worker[w].op = "reject"
                                  /\ worker[w].id = p.id
      PROVE  p.edge \in certificates
  <2>1. PICK w \in Workers : Receive(w) \/ Step(w) \/ Fail(w)
    BY <1>1 DEF vars, Next
  <2>2. DeletePending(w)
    BY <1>1, <2>1 DEF Receive, Post, Propose, Accept, Reject, Get, Step, Validate, Insert,
                      InsertPending, Climb, Fail, db
  <2>3. worker[w].id = p.id /\ worker[w].op = "accept"
    BY <1>1, <2>2 DEF DeletePending
  <2>4. worker[w].edge = p.edge
    BY <1>1, <2>2, <2>3 DEF StoredInv, IdsInv, ProposalsDistinct, DeletePending, At
  <2> QED  BY <1>1, <2>2, <2>3, <2>4 DEF StoredInv, AcceptsAreStored, DeletePending, Edge
<1>2. StoredInv /\ [Next]_vars =>
        [\A p \in pending \ pending' :
            \/ p.edge \in certificates
            \/ \E w \in Workers : /\ At(w, "deletePending")
                                  /\ worker[w].op = "reject"
                                  /\ worker[w].id = p.id]_vars
  BY <1>1
<1> QED  BY <1>2, StoredInvariant, PTL DEF Spec

----------------------------------------------------------------------------
(* One answer to a proposal, when the server works on one request at a time. *)

\* A proposal that was answered is gone, and nobody is answering it.
AnsweredAreGone ==
    \A i \in accepted \union rejected :
       /\ i < nextId
       /\ \A p \in pending : p.id # i
       /\ \A w \in Workers : Answers(worker[w]) => worker[w].id # i

AnswersInv == IdsInv /\ OneAtATime /\ AnsweredAreGone /\ RejectedIsNotAccepted

LEMMA AnswersInvInit == Init => AnswersInv
<1> SUFFICES ASSUME Init PROVE AnswersInv
  OBVIOUS
<1>1. OneAtATime
  BY DEF Init, OneAtATime, At, Idle
<1> QED  BY <1>1, IdsInvInit DEF Init, AnswersInv, AnsweredAreGone, RejectedIsNotAccepted

LEMMA AnswersInvNext == AnswersInv /\ [SerialNext]_vars => AnswersInv'
<1> SUFFICES ASSUME AnswersInv, [SerialNext]_vars PROVE AnswersInv'
  OBVIOUS
<1>1. IdsInv /\ IdsInv' /\ TypeOK /\ TypeOK'
  BY IdsInvNext DEF AnswersInv, IdsInv, SerialNext
<1>2. CASE UNCHANGED vars
  BY <1>1, <1>2 DEF vars, AnswersInv, OneAtATime, At, AnsweredAreGone,
                    RejectedIsNotAccepted
<1>3. CASE SerialNext
  <2>1. OneAtATime'
    BY <1>3 DEF SerialNext
  <2>2. PICK w \in Workers : Receive(w) \/ Step(w) \/ Fail(w)
    BY <1>3 DEF SerialNext, Next
  <2>3. \A v \in Workers : Answers(worker'[v]) =>
           \/ SameAnswer(worker[v], worker'[v])
           \/ \E p \in pending : AnswerTo(p, worker'[v]) /\ UNCHANGED <<db, history>>
    BY <1>1, <2>2, AnswersKeep, OthersStay DEF Answers, SameAnswer
  <2>4. nextId \in Nat
    BY <1>1, MaxProposalsAssumption DEF TypeOK
  <2>5. CASE DeletePending(w)
    <3>1. worker[w] \in Accepting \union Rejecting
      BY <1>1, <2>5, JobKinds DEF DeletePending, TypeOK
    <3>2. Answers(worker[w]) /\ worker[w].id < nextId
      BY <1>1, <3>1 DEF Answers, Accepting, Rejecting, IdsInv, IdsAreUsed
    <3>3. worker[w].id \notin accepted \union rejected
      BY <3>2 DEF AnswersInv, AnsweredAreGone
    <3>4. \A v \in Workers : ~Answers(worker'[v])
      <4>1. worker'[w] = Idle
        BY <1>1, <2>5 DEF DeletePending, Reply, TypeOK
      <4>2. \A v \in Workers \ {w} : worker[v].pc = "idle"
        BY <3>2 DEF AnswersInv, OneAtATime, At, Answers
      <4>3. \A v \in Workers \ {w} : worker'[v] = worker[v]
        BY <1>1, <2>2, OthersStay
      <4> QED  BY <4>1, <4>2, <4>3 DEF Answers, Idle
    <3>5. RejectedIsNotAccepted'
      BY <2>5, <3>3 DEF DeletePending, AnswersInv, RejectedIsNotAccepted
    <3>6. AnsweredAreGone'
      BY <2>5, <3>2, <3>4 DEF DeletePending, AnswersInv, AnsweredAreGone
    <3> QED  BY <1>1, <2>1, <3>5, <3>6 DEF AnswersInv
  <2>6. CASE UNCHANGED history
    <3>1. RejectedIsNotAccepted'
      BY <2>6 DEF history, AnswersInv, RejectedIsNotAccepted
    <3>2. CASE pending' \subseteq pending /\ nextId' = nextId
      <4>1. \A v \in Workers : Answers(worker'[v]) =>
               \/ SameAnswer(worker[v], worker'[v])
               \/ \E p \in pending : AnswerTo(p, worker'[v])
        BY <2>3
      <4>2. AnsweredAreGone'
        BY <2>6, <3>2, <4>1 DEF history, AnswersInv, AnsweredAreGone, SameAnswer, AnswerTo
      <4> QED  BY <1>1, <2>1, <3>1, <4>2 DEF AnswersInv
    <3>3. ASSUME NEW q \in Proposal, pending' = pending \union {q},
                 q.id = nextId, nextId' = nextId + 1, worker'[w] = Idle
          PROVE  AnswersInv'
      <4>1. \A v \in Workers : Answers(worker'[v]) => SameAnswer(worker[v], worker'[v])
        BY <1>1, <2>2, <3>3, OthersStay DEF Answers, SameAnswer, Idle
      <4>2. \A i \in accepted \union rejected : i \in Nat
        BY <1>1 DEF TypeOK, ProposalIds
      <4>3. AnsweredAreGone'
        BY <2>4, <2>6, <3>3, <4>1, <4>2
        DEF history, AnswersInv, AnsweredAreGone, SameAnswer
      <4> QED  BY <1>1, <2>1, <3>1, <4>3 DEF AnswersInv
    <3> QED  BY <1>1, <2>2, <3>2, <3>3, PendingChanges
  <2>7. DeletePending(w) \/ UNCHANGED history
    BY <2>2 DEF Receive, Post, Propose, Accept, Reject, Get, Step, Validate, Insert,
                InsertPending, Climb, Fail, history
  <2> QED  BY <2>5, <2>6, <2>7
<1> QED  BY <1>2, <1>3

\* When the server works on one request at a time, whatever fails in the middle of one,
\* no proposal is answered as rejected and as accepted (handlers/hierarchy.ts:134-246).
THEOREM SerialOneAnswer == SerialSpec => []RejectedIsNotAccepted
<1>1. AnswersInv => RejectedIsNotAccepted
  BY DEF AnswersInv
<1> QED  BY <1>1, AnswersInvInit, AnswersInvNext, PTL DEF SerialSpec

=============================================================================
