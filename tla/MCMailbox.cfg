SPECIFICATION Spec
CONSTANTS
    Identities = {i1, i2, i3}
    Names = {n1}
    Accounts = {a1, a2}
    Workers = {w1, w2}
    None = None
SYMMETRY Symmetry
CONSTRAINT NotCrossed
INVARIANTS
    TypeOK
    OneHolder
    NeverReissued
    AccountsHaveRows
PROPERTY ResetsOwnAccount
CHECK_DEADLOCK TRUE
