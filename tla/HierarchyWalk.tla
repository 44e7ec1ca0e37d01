--------------------------- MODULE HierarchyWalk ---------------------------
(***************************************************************************)
(* The loop of validateHierarchy (core/HierarchyCertificate.ts:182-221)    *)
(* for a proposed pair, iteration by iteration, on every list of stored    *)
(* certificates that gives a child at most one master, those with loops    *)
(* included.  Its answer is compared with the rule Hierarchy is built on.  *)
(***************************************************************************)
EXTENDS HierarchyRules

CONSTANT None    \* `undefined`: the identity has no master

ASSUME NoneAssumption == None \notin Identities

VARIABLES
    childToMaster,   \* the map built from the stored certificates
    proposed,        \* the proposed pair
    current, seen,   \* the loop's variables
    answer           \* "running", "ok", or the error

vars == <<childToMaster, proposed, current, seen, answer>>

\* Faulty variant: the walk does not look for the child.
InitSeenEmpty ==
    /\ childToMaster \in {m \in [Identities -> Identities \union {None}] :
                             \A c \in Identities : m[c] # c}
    /\ proposed \in Pairs
    /\ current = proposed.master
    /\ seen = {}
    /\ answer = IF childToMaster[proposed.child] # None
                THEN "child already has a master" ELSE "running"

\* Self-parenting certificates are refused when they are decoded.
Init ==
    /\ childToMaster \in {m \in [Identities -> Identities \union {None}] :
                             \A c \in Identities : m[c] # c}
    /\ proposed \in Pairs
    /\ current = proposed.master
    /\ seen = {proposed.child}
    /\ answer = IF childToMaster[proposed.child] # None
                THEN "child already has a master" ELSE "running"

\* Faulty variant: the walk only looks for the child, not for what it has met.
IterateForgetting ==
    /\ answer = "running"
    /\ \/ current = None /\ answer' = "ok" /\ UNCHANGED current
       \/ /\ current = proposed.child
          /\ answer' = "hierarchy loop detected"
          /\ UNCHANGED current
       \/ /\ current \notin {None, proposed.child}
          /\ current' = childToMaster[current]
          /\ UNCHANGED answer
    /\ UNCHANGED <<childToMaster, proposed, seen>>

Iterate ==
    /\ answer = "running"
    /\ \/ /\ current = None
          /\ answer' = "ok"
          /\ UNCHANGED <<current, seen>>
       \/ /\ current # None
          /\ current \in seen
          /\ answer' = "hierarchy loop detected"
          /\ UNCHANGED <<current, seen>>
       \/ /\ current # None
          /\ current \notin seen
          /\ seen' = seen \union {current}
          /\ current' = childToMaster[current]
          /\ UNCHANGED answer
    /\ UNCHANGED <<childToMaster, proposed>>

Spec == Init /\ [][Iterate]_vars /\ WF_vars(Iterate)

----------------------------------------------------------------------------
Certificates == {e \in Pairs : childToMaster[e.child] = e.master}

\* The loop answers ok exactly when the pair satisfies the rule that Hierarchy uses:
\* the child has no master, and the masters above the proposed one neither
\* include it nor run in a circle (core/HierarchyCertificate.ts:204-220).
LoopImplementsRule ==
    answer # "running" => (answer = "ok" <=> ValidateHierarchy(Certificates, proposed))

\* The loop ends on every input, also on stored certificates that already contain a
\* loop (core/HierarchyCertificate.ts:211-219, where `seen` bounds it).
LoopEnds == <>(answer # "running")

=============================================================================
