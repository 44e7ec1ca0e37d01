SPECIFICATION FairSerialSpec
CONSTANTS
    Identities = {i1, i2, i3}
    Workers = {w1, w2}
    MaxProposals = 2
INVARIANTS
    Acyclic
    RejectedIsNotAccepted
PROPERTY Answered
CHECK_DEADLOCK TRUE
