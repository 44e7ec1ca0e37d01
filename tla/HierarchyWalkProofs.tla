------------------------ MODULE HierarchyWalkProofs ------------------------
(***************************************************************************)
(* The loop of validateHierarchy gives the answer of the rule, for every   *)
(* number of identities and every list of stored certificates with at most *)
(* one master per child.                                                   *)
(***************************************************************************)
EXTENDS HierarchyWalk, TLAPS

TypeOK ==
    /\ childToMaster \in [Identities -> Identities \union {None}]
    /\ \A c \in Identities : childToMaster[c] # c
    /\ proposed \in Pairs
    /\ current \in Identities \union {None}
    /\ seen \subseteq Identities
    /\ answer \in {"running", "ok", "hierarchy loop detected", "child already has a master"}

\* The identities the walk has passed.
Passed == seen \ {proposed.child}

\* The walk goes from each identity it has passed to its master.
FollowsMasters ==
    /\ proposed.child \in seen
    /\ proposed.master \in Passed \union {current}
    /\ \A x \in Passed : childToMaster[x] \in Passed \union {current}

\* As long as it meets nobody twice, what it has passed has no loop.
NoLoopYet == current \notin seen => AcyclicOn(Certificates, Passed)

\* It passes nothing but the proposed master and the masters above it.
StaysAbove ==
    \A W \in SUBSET Identities :
       ClosedUpwards(Certificates, W) /\ proposed.master \in W =>
          Passed \subseteq W /\ current \in W \union {None}

AnswerSaysWhere ==
    /\ answer = "child already has a master" <=> childToMaster[proposed.child] # None
    /\ answer = "ok" => current = None
    /\ answer = "hierarchy loop detected" => current \in seen

WalkInv == TypeOK /\ FollowsMasters /\ NoLoopYet /\ StaysAbove /\ AnswerSaysWhere

LEMMA InitWalkInv == Init => WalkInv
<1> SUFFICES ASSUME Init PROVE WalkInv
  OBVIOUS
<1>1. TypeOK
  BY DEF Init, TypeOK, Pairs
<1>2. Passed = {} /\ current = proposed.master
  BY DEF Init, Passed
<1>3. FollowsMasters
  BY <1>2 DEF Init, FollowsMasters
<1>4. NoLoopYet
  BY <1>2 DEF NoLoopYet, AcyclicOn
<1>5. StaysAbove
  BY <1>2 DEF StaysAbove
<1>6. AnswerSaysWhere
  BY DEF Init, AnswerSaysWhere
<1> QED  BY <1>1, <1>3, <1>4, <1>5, <1>6 DEF WalkInv

\* The iteration that goes one master up.
Climbs ==
    /\ answer = "running"
    /\ current # None
    /\ current \notin seen
    /\ seen' = seen \union {current}
    /\ current' = childToMaster[current]
    /\ UNCHANGED <<childToMaster, proposed, answer>>

LEMMA ClimbsWalkInv == WalkInv /\ Climbs => WalkInv'
<1> SUFFICES ASSUME WalkInv, Climbs PROVE WalkInv'
  OBVIOUS
<1> USE DEF WalkInv
<1>1. /\ current \in Identities
      /\ proposed.child # current
      /\ proposed' = proposed /\ childToMaster' = childToMaster
      /\ Certificates' = Certificates
  BY DEF TypeOK, Climbs, FollowsMasters, Certificates
<1>2. Passed' = Passed \union {current}
  BY <1>1 DEF Climbs, Passed
<1>3. current' = childToMaster[current] /\ current' \in Identities \union {None}
  BY <1>1 DEF Climbs, TypeOK
<1>4. TypeOK'
  BY <1>1, <1>3 DEF Climbs, TypeOK
<1>5. FollowsMasters'
  BY <1>1, <1>2, <1>3 DEF Climbs, FollowsMasters
<1>6. NoLoopYet'
  <2> SUFFICES ASSUME current' \notin seen', NEW T \in SUBSET Passed', T # {}
               PROVE  \E x \in T : \A e \in Certificates : e.child = x => e.master \notin T
    BY <1>1 DEF NoLoopYet, AcyclicOn
  <2>1. CASE current \in T
    \* Its master is the next to be met, and has not been met.
    <3>1. current' \notin T
      BY DEF Passed
    <3>2. \A e \in Certificates : e.child = current => e.master = current'
      BY <1>3 DEF Certificates
    <3> QED  BY <2>1, <3>1, <3>2
  <2>2. CASE current \notin T
    <3>1. T \in SUBSET Passed
      BY <1>2, <2>2
    <3> QED  BY <3>1 DEF NoLoopYet, AcyclicOn, Climbs
  <2> QED  BY <2>1, <2>2
<1>7. StaysAbove'
  <2> SUFFICES ASSUME NEW W \in SUBSET Identities, ClosedUpwards(Certificates, W),
                      proposed.master \in W
               PROVE  Passed' \subseteq W /\ current' \in W \union {None}
    BY <1>1 DEF StaysAbove
  <2>1. Passed \subseteq W /\ current \in W
    BY DEF StaysAbove, Climbs
  <2>2. current' # None => current' \in W
    <3> SUFFICES ASSUME current' # None PROVE current' \in W
      OBVIOUS
    <3> DEFINE e == [master |-> current', child |-> current]
    <3>1. e \in Certificates
      BY <1>1, <1>3 DEF Certificates, Pairs, TypeOK
    <3> QED  BY <2>1, <3>1 DEF ClosedUpwards
  <2> QED  BY <1>2, <2>1, <2>2
<1>8. AnswerSaysWhere'
  BY <1>1 DEF Climbs, AnswerSaysWhere
<1> QED  BY <1>4, <1>5, <1>6, <1>7, <1>8

LEMMA NextWalkInv == WalkInv /\ [Iterate]_vars => WalkInv'
<1> SUFFICES ASSUME WalkInv, [Iterate]_vars PROVE WalkInv'
  OBVIOUS
<1>1. CASE Climbs
  BY <1>1, ClimbsWalkInv
<1>2. CASE ~Climbs
  <2>1. /\ UNCHANGED <<childToMaster, proposed, current, seen>>
        /\ \/ answer' = answer
           \/ answer = "running" /\ answer' = "ok" /\ current = None
           \/ answer = "running" /\ answer' = "hierarchy loop detected" /\ current \in seen
    BY <1>2 DEF Iterate, Climbs, vars
  <2>2. Certificates' = Certificates /\ Passed' = Passed
    BY <2>1 DEF Certificates, Passed
  <2>3. TypeOK' /\ FollowsMasters'
    BY <2>1, <2>2 DEF WalkInv, TypeOK, FollowsMasters
  <2>4. NoLoopYet' /\ StaysAbove'
    BY <2>1, <2>2 DEF WalkInv, NoLoopYet, StaysAbove
  <2>5. AnswerSaysWhere'
    BY <2>1 DEF WalkInv, AnswerSaysWhere
  <2> QED  BY <2>3, <2>4, <2>5 DEF WalkInv
<1> QED  BY <1>1, <1>2

LEMMA WalkInvariant == Spec => []WalkInv
  BY InitWalkInv, NextWalkInv, PTL DEF Spec

----------------------------------------------------------------------------
(* What the invariant says of each answer. *)

LEMMA ChildHasMaster ==
    ASSUME TypeOK
    PROVE  HasMaster(Certificates, proposed.child) <=> childToMaster[proposed.child] # None
<1> DEFINE c == proposed.child
           e == [master |-> childToMaster[c], child |-> c]
<1>1. c \in Identities
  BY DEF TypeOK, Pairs
<1>2. ASSUME childToMaster[c] # None
      PROVE  HasMaster(Certificates, c)
  <2>1. e \in Certificates
    BY <1>1, <1>2 DEF TypeOK, Certificates, Pairs
  <2> QED  BY <2>1 DEF HasMaster
<1>3. ASSUME HasMaster(Certificates, c)
      PROVE  childToMaster[c] # None
  BY <1>3, NoneAssumption DEF HasMaster, Certificates, Pairs
<1> QED  BY <1>2, <1>3

\* The walk that ends without a master has passed the set the rule asks for.
LEMMA OkWalkEnds ==
    ASSUME WalkInv, answer = "ok"
    PROVE  WalkEnds(Certificates, proposed)
<1> USE DEF WalkInv
<1>1. current = None /\ current \notin seen
  BY NoneAssumption DEF AnswerSaysWhere, TypeOK
<1>2. Passed \in SUBSET Identities /\ proposed.child \notin Passed
  BY DEF Passed, TypeOK
<1>3. proposed.master \in Passed
  BY <1>1, NoneAssumption DEF FollowsMasters, TypeOK, Pairs
<1>4. ClosedUpwards(Certificates, Passed)
  BY <1>1, NoneAssumption DEF ClosedUpwards, FollowsMasters, Certificates, Pairs
<1>5. AcyclicOn(Certificates, Passed)
  BY <1>1 DEF NoLoopYet
<1> QED  BY <1>2, <1>3, <1>4, <1>5 DEF WalkEnds

\* The walk that meets an identity again is on a loop, or below the child.
LEMMA LoopWalkDoesNotEnd ==
    ASSUME WalkInv, answer = "hierarchy loop detected"
    PROVE  ~WalkEnds(Certificates, proposed)
<1> USE DEF WalkInv
<1> SUFFICES ASSUME WalkEnds(Certificates, proposed) PROVE FALSE
  OBVIOUS
<1>1. PICK W \in SUBSET Identities :
         /\ proposed.master \in W
         /\ proposed.child \notin W
         /\ ClosedUpwards(Certificates, W)
         /\ AcyclicOn(Certificates, W)
  BY DEF WalkEnds
<1>2. current \in seen /\ current # None
  BY NoneAssumption DEF AnswerSaysWhere, TypeOK
<1>3. Passed \subseteq W /\ current \in W
  BY <1>1, <1>2 DEF StaysAbove
<1>4. current \in Passed
  BY <1>1, <1>2, <1>3 DEF Passed
<1>5. PICK x \in Passed : \A e \in Certificates : e.child = x => e.master \notin Passed
  BY <1>1, <1>3, <1>4 DEF AcyclicOn
<1>6. childToMaster[x] \in Passed /\ x \in Identities
  BY <1>4, <1>5 DEF FollowsMasters, Passed, TypeOK
<1>7. [master |-> childToMaster[x], child |-> x] \in Certificates
  BY <1>6 DEF TypeOK, Passed, Certificates, Pairs
<1> QED  BY <1>5, <1>6, <1>7

\* The loop answers ok exactly when the pair satisfies the rule Hierarchy is built on
\* (core/HierarchyCertificate.ts:204-220), on any number of identities and on stored
\* certificates with loops.
THEOREM WalkImplementsRule == Spec => []LoopImplementsRule
<1>1. WalkInv => LoopImplementsRule
  <2> SUFFICES ASSUME WalkInv, answer # "running"
               PROVE  answer = "ok" <=> ValidateHierarchy(Certificates, proposed)
    BY DEF LoopImplementsRule
  <2>1. HasMaster(Certificates, proposed.child) <=> answer = "child already has a master"
    BY ChildHasMaster DEF WalkInv, AnswerSaysWhere
  <2>2. CASE answer = "ok"
    BY <2>1, <2>2, OkWalkEnds DEF ValidateHierarchy
  <2>3. CASE answer = "hierarchy loop detected"
    BY <2>3, LoopWalkDoesNotEnd DEF ValidateHierarchy
  <2>4. CASE answer = "child already has a master"
    BY <2>1, <2>4 DEF ValidateHierarchy
  <2> QED  BY <2>2, <2>3, <2>4 DEF WalkInv, TypeOK
<1> QED  BY <1>1, WalkInvariant, PTL

----------------------------------------------------------------------------
\* Every iteration of the loop answers or meets an identity it had not met
\* (`seen.add`, core/HierarchyCertificate.ts:211-219), and there is only a finite number
\* of them to meet: the safety half of LoopEnds.
THEOREM WalkMeetsMore ==
    Spec => [][\/ answer' # "running"
               \/ /\ seen \subseteq seen'
                  /\ seen' # seen
                  /\ seen' \subseteq Identities]_vars
<1>1. ASSUME WalkInv, WalkInv', Iterate
      PROVE  \/ answer' # "running"
             \/ /\ seen \subseteq seen'
                /\ seen' # seen
                /\ seen' \subseteq Identities
  BY <1>1 DEF Iterate, WalkInv, TypeOK
<1>2. WalkInv /\ WalkInv' /\ [Iterate]_vars =>
        [\/ answer' # "running"
         \/ /\ seen \subseteq seen'
            /\ seen' # seen
            /\ seen' \subseteq Identities]_vars
  BY <1>1
<1> QED  BY <1>2, WalkInvariant, PTL DEF Spec

=============================================================================
