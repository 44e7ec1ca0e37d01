----------------------------- MODULE Hierarchy -----------------------------
(***************************************************************************)
(* The key server's hierarchy of identities (server/hierarchy.ts,          *)
(* server/handlers/hierarchy.ts, core/HierarchyCertificate.ts): signed     *)
(* certificates "m is the master of c", proposals signed by one party and  *)
(* waiting for the other, and the walk to the root that GET makes.         *)
(*                                                                         *)
(* As in Registry, a handler is a sequence of database queries without a   *)
(* transaction and one action is one query.  The walk of GET makes no      *)
(* query: while a worker is at "climb" the event loop runs nothing else.   *)
(***************************************************************************)
EXTENDS Integers, HierarchyRules

CONSTANTS
    Workers,        \* requests that can be in progress together
    MaxProposals    \* bound on the proposals ever stored

ASSUME MaxProposalsAssumption == MaxProposals \in Nat

ProposalIds == 1 .. MaxProposals
Proposal == [id : ProposalIds, edge : Pairs, proposer : Identities]

VARIABLES
    certificates,  \* rows of hierarchy_certificates, as pairs
    pending,       \* rows of pending_hierarchy_proposals
    nextId,        \* its AUTOINCREMENT counter
    worker,        \* the requests in progress
    accepted,      \* history: ids of the proposals answered ok by accept
    rejected       \* history: ids of the proposals answered ok by reject

db == <<certificates, pending, nextId>>
history == <<accepted, rejected>>
vars == <<certificates, pending, nextId, worker, accepted, rejected>>

Idle == [pc |-> "idle"]
Posting == [pc : {"validate", "insert"}, op : {"post"}, edge : Pairs]
Proposing == [pc : {"validate", "insertPending"}, op : {"propose"}, edge : Pairs,
              proposer : Identities]
Accepting == [pc : {"validate", "insert", "deletePending"}, op : {"accept"},
              edge : Pairs, id : ProposalIds]
Rejecting == [pc : {"deletePending"}, op : {"reject"}, id : ProposalIds]
Reading == [pc : {"climb"}, op : {"get"}, edges : SUBSET Pairs, current : Identities]
Job == {Idle} \union Posting \union Proposing \union Accepting \union Rejecting
       \union Reading

Init ==
    /\ certificates = {}
    /\ pending = {}
    /\ nextId = 1
    /\ worker = [w \in Workers |-> Idle]
    /\ accepted = {}
    /\ rejected = {}

----------------------------------------------------------------------------
At(w, pc) == worker[w].pc = pc
Edge(w) == worker[w].edge

GoTo(w, pc) == worker' = [worker EXCEPT ![w].pc = pc]
Reply(w) == worker' = [worker EXCEPT ![w] = Idle]
Begin(w, job) == At(w, "idle") /\ worker' = [worker EXCEPT ![w] = job]

\* POST /hierarchy: both identities exist and both signatures verify.
Post(w, e) ==
    /\ Begin(w, [pc |-> "validate", op |-> "post", edge |-> e])
    /\ UNCHANGED <<db, history>>

\* POST /hierarchy/propose: exactly one signature, that of the proposer.
Propose(w, e, f) ==
    /\ f \in {e.master, e.child}
    /\ Begin(w, [pc |-> "validate", op |-> "propose", edge |-> e, proposer |-> f])
    /\ UNCHANGED <<db, history>>

\* POST /hierarchy/accept: getPendingProposal finds the proposal, and the certificate
\* with both signatures is for its pair.
Accept(w, p) ==
    /\ Begin(w, [pc |-> "validate", op |-> "accept", edge |-> p.edge, id |-> p.id])
    /\ UNCHANGED <<db, history>>

\* POST /hierarchy/reject: getPendingProposal finds it, and the party that did not
\* propose signed the rejection.
Reject(w, p, f) ==
    /\ f # p.proposer
    /\ f \in {p.edge.master, p.edge.child}
    /\ Begin(w, [pc |-> "deletePending", op |-> "reject", id |-> p.id])
    /\ UNCHANGED <<db, history>>

\* GET /hierarchy/:fingerprint: listHierarchyCertificates, then the walk.
Get(w, f) ==
    /\ Begin(w, [pc |-> "climb", op |-> "get", edges |-> certificates, current |-> f])
    /\ UNCHANGED <<db, history>>

\* Faulty variant: a proposal is stored as a certificate.
ValidateAsCertificate(w) ==
    /\ At(w, "validate")
    /\ \/ ValidateHierarchy(certificates, Edge(w)) /\ GoTo(w, "insert")
       \/ ~ValidateHierarchy(certificates, Edge(w)) /\ Reply(w)
    /\ UNCHANGED <<db, history>>

\* listHierarchyCertificates and validateHierarchy on what it returned.
Validate(w) ==
    /\ At(w, "validate")
    /\ \/ /\ ValidateHierarchy(certificates, Edge(w))
          /\ GoTo(w, IF worker[w].op = "propose" THEN "insertPending" ELSE "insert")
       \/ /\ ~ValidateHierarchy(certificates, Edge(w))
          /\ Reply(w)
    /\ UNCHANGED <<db, history>>

\* Faulty variant: no UNIQUE(child_fingerprint).
InsertAnyway(w) ==
    /\ At(w, "insert")
    /\ certificates' = certificates \union {Edge(w)}
    /\ IF worker[w].op = "accept" THEN GoTo(w, "deletePending") ELSE Reply(w)
    /\ UNCHANGED <<pending, nextId, history>>

\* UNIQUE(child_fingerprint) refuses a second master.  The read-back of the row that
\* follows always finds it: no certificate is ever deleted.
Insert(w) ==
    /\ At(w, "insert")
    /\ IF HasMaster(certificates, Edge(w).child)
       THEN UNCHANGED certificates /\ Reply(w)
       ELSE /\ certificates' = certificates \union {Edge(w)}
            /\ IF worker[w].op = "accept" THEN GoTo(w, "deletePending") ELSE Reply(w)
    /\ UNCHANGED <<pending, nextId, history>>

\* Faulty variant: an id is used again.
InsertPendingSameId(w) ==
    /\ At(w, "insertPending")
    /\ pending' = IF \E p \in pending : p.edge = Edge(w) THEN pending
                  ELSE pending \union {[id |-> nextId, edge |-> Edge(w),
                                        proposer |-> worker[w].proposer]}
    /\ Reply(w)
    /\ UNCHANGED <<certificates, nextId, history>>

\* UNIQUE(master_fingerprint, child_fingerprint) refuses a second proposal for a pair.
\* Beyond the bound MaxProposals an insert ends as one whose query failed.
InsertPending(w) ==
    LET stored == nextId <= MaxProposals /\ \A p \in pending : p.edge # Edge(w)
    IN  /\ At(w, "insertPending")
        /\ pending' = IF stored
                      THEN pending \union {[id |-> nextId, edge |-> Edge(w),
                                            proposer |-> worker[w].proposer]}
                      ELSE pending
        /\ nextId' = IF stored THEN nextId + 1 ELSE nextId
        /\ Reply(w)
        /\ UNCHANGED <<certificates, history>>

\* Faulty variant: the row stays.
DeletePendingNot(w) ==
    /\ At(w, "deletePending")
    /\ \/ /\ worker[w].op = "accept"
          /\ accepted' = accepted \union {worker[w].id}
          /\ UNCHANGED rejected
       \/ /\ worker[w].op = "reject"
          /\ rejected' = rejected \union {worker[w].id}
          /\ UNCHANGED accepted
    /\ Reply(w)
    /\ UNCHANGED db

\* The last query of accept and of reject: no row, no effect, and still ok.
DeletePending(w) ==
    /\ At(w, "deletePending")
    /\ pending' = {p \in pending : p.id # worker[w].id}
    /\ \/ /\ worker[w].op = "accept"
          /\ accepted' = accepted \union {worker[w].id}
          /\ UNCHANGED rejected
       \/ /\ worker[w].op = "reject"
          /\ rejected' = rejected \union {worker[w].id}
          /\ UNCHANGED accepted
    /\ Reply(w)
    /\ UNCHANGED <<certificates, nextId>>

\* getHierarchyForIdentity, `while (true)`: up to the master until there is none.
Climb(w) ==
    /\ At(w, "climb")
    /\ \/ \E e \in worker[w].edges :
             /\ e.child = worker[w].current
             /\ worker' = [worker EXCEPT ![w].current = e.master]
       \/ ~HasMaster(worker[w].edges, worker[w].current) /\ Reply(w)
    /\ UNCHANGED <<db, history>>

\* A query fails: the handler is gone, what it wrote stays.
Fail(w) ==
    /\ ~At(w, "idle")
    /\ ~At(w, "climb")
    /\ Reply(w)
    /\ UNCHANGED <<db, history>>

Receive(w) ==
    \/ \E e \in Pairs : Post(w, e)
    \/ \E e \in Pairs, f \in Identities : Propose(w, e, f)
    \/ \E p \in pending : Accept(w, p)
    \/ \E p \in pending, f \in Identities : Reject(w, p, f)
    \/ \E f \in Identities : Get(w, f)

Step(w) ==
    \/ Validate(w)
    \/ Insert(w)
    \/ InsertPending(w)
    \/ DeletePending(w)
    \/ Climb(w)

\* Synchronous code holds the event loop.
EventLoopFree(w) == \A v \in Workers : At(v, "climb") => v = w

Next ==
    \E w \in Workers :
       /\ EventLoopFree(w)
       /\ Receive(w) \/ Step(w) \/ Fail(w)

\* Queries complete, and the event loop takes ready continuations in turn: a walk
\* that ends cannot keep another handler waiting for ever.  Clients need not send.
Fairness == \A w \in Workers : SF_vars(EventLoopFree(w) /\ Step(w))

Spec == Init /\ [][Next]_vars
FairSpec == Spec /\ Fairness

\* The same handlers when the server works on one request at a time.
OneAtATime == \A v, w \in Workers : v = w \/ At(v, "idle") \/ At(w, "idle")
SerialNext == Next /\ OneAtATime'
SerialSpec == Init /\ [][SerialNext]_vars
FairSerialSpec == SerialSpec /\ Fairness

----------------------------------------------------------------------------
TypeOK ==
    /\ certificates \subseteq Pairs
    /\ pending \subseteq Proposal
    /\ nextId \in 1 .. MaxProposals + 1
    /\ worker \in [Workers -> Job]
    /\ accepted \subseteq ProposalIds
    /\ rejected \subseteq ProposalIds

\* However the handlers interleave, no identity ever has two masters, although each
\* handler decides on a list of certificates that may be stale when it inserts
\* (server/hierarchy.ts:168-203).
OneMaster == \A d, e \in certificates : d.child = e.child => d = e

\* A pair waits at most once, and the proposal an accept is about to delete is one
\* for the pair it inserts, however long it was read before: an id is never used for
\* another pair (server/hierarchy.ts:348-373).
ProposalsDistinct ==
    /\ \A p, q \in pending : p.id = q.id \/ p.edge = q.edge => p = q
    /\ \A p \in pending, w \in Workers :
          worker[w].pc # "idle" /\ worker[w].op = "accept" /\ worker[w].id = p.id
          => worker[w].edge = p.edge

\* One request at a time: the hierarchy never has a loop, so every identity has a root
\* (core/HierarchyCertificate.ts:182-221, tests/hierarchy_test.ts:114).
Acyclic == AcyclicOn(certificates, Identities)

\* One request at a time: a proposal that was answered as rejected is never also
\* answered as accepted (handlers/hierarchy.ts:134-246).
RejectedIsNotAccepted == accepted \intersect rejected = {}

\* Every request is answered: no walk of GET runs forever (server/hierarchy.ts:398-403).
Answered == \A w \in Workers : ~At(w, "idle") ~> At(w, "idle")

=============================================================================
