SPECIFICATION Spec
CONSTANTS
    Identities = {i1, i2, i3}
    Workers = {w1, w2}
    MaxProposals = 2
SYMMETRY Symmetry
INVARIANTS
    TypeOK
    OneMaster
    ProposalsDistinct
CHECK_DEADLOCK TRUE
