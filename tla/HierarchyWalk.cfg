SPECIFICATION Spec
CONSTANTS
    Identities = {i1, i2, i3, i4}
    None = None
INVARIANT LoopImplementsRule
PROPERTY LoopEnds
\* The loop is over once it has answered.
CHECK_DEADLOCK FALSE
