SPECIFICATION Spec
CONSTANTS
    Identities = {i1}
    Paths = {p1}
    Workers = {w1, w2}
    Keys = {k1, k2, k3}
    Salts = {s1, s2, s3}
    Password = Password
    Zero = Zero
    Nobody = Nobody
    MaxNonce = 1
SYMMETRY Symmetry
INVARIANTS
    TypeOK
    SessionKeyLives
    HeaderNamesKey
    FileAhead
    RevocationsRecorded
PROPERTY LoadsUnderLiveKey
CHECK_DEADLOCK TRUE
