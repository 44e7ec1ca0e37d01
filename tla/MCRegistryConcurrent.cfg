SPECIFICATION Spec
CONSTANTS
    Identities = {f1}
    Paths <- MCPaths
    Addresses = {a1, a2}
    Tokens = {t1, t2}
    NoToken = NoToken
    Workers = {w1, w2}
    Requests <- MCRequests
    EmergencyNonceBase = 2
    DetailPaths = {"email"}
    DetailNonces = {0, 1}
    RevocationNonces = {0, 1, 2}
SYMMETRY Symmetry
INVARIANTS
    TypeOK
    RevokedIsCertified
    VerifiedWasConfirmed
    PendingTokenUnverified
PROPERTY RevokedIdentityStaysRevoked
CHECK_DEADLOCK TRUE
