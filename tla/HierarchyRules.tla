--------------------------- MODULE HierarchyRules ---------------------------
(***************************************************************************)
(* What core/HierarchyCertificate.ts accepts as a hierarchy: the pairs a   *)
(* certificate may relate and the rule validateHierarchy applies to a      *)
(* proposed pair, given the list of the stored ones.                       *)
(***************************************************************************)
CONSTANT Identities    \* fingerprints registered on the server

\* A certificate or proposal names two different identities
\* (decodeHierarchyCertificate, decodePendingHierarchyCertificate).
Pairs == {e \in [master : Identities, child : Identities] : e.master # e.child}

HasMaster(E, c) == \E e \in E : e.child = c

\* S contains the master of each of its members that has one.
ClosedUpwards(E, S) == \A e \in E : e.child \in S => e.master \in S

\* Every non-empty part of S has a member without a master in that part.
AcyclicOn(E, S) ==
    \A T \in SUBSET S : T # {} =>
       \E x \in T : \A e \in E : e.child = x => e.master \notin T

\* Faulty variant: only a second master is refused.
ValidateOneMaster(E, e) == ~HasMaster(E, e.child)

\* The walk from the proposed master upwards meets neither the child nor an
\* identity it has met: what it meets is closed upwards, acyclic, without the child.
\* (HierarchyWalk runs the loop itself and compares.)
WalkEnds(E, e) ==
    \E S \in SUBSET Identities :
       /\ e.master \in S
       /\ e.child \notin S
       /\ ClosedUpwards(E, S)
       /\ AcyclicOn(E, S)

ValidateHierarchy(E, e) == ~HasMaster(E, e.child) /\ WalkEnds(E, e)

=============================================================================
