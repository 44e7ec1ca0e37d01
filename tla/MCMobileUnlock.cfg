SPECIFICATION Spec
CONSTANTS
    Names = {n1, n2}
    Keys = {k1, k2, k3}
    NoKey = NoKey
    Jobs = {j1, j2}
    Settings = {1, 3}
    Default = 2
    Longest = 3
SYMMETRY Symmetry
INVARIANTS
    TypeOK
    KeysWiped
    SessionsFollowSetting
PROPERTY IdleLocks
CHECK_DEADLOCK TRUE
