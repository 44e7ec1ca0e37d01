SPECIFICATION Spec
CONSTANTS
    Manual = {a1, a2}
    Managed = {m1}
    Pins = {Password, p1}
    Password = Password
    NoPin = NoPin
SYMMETRY Symmetry
INVARIANTS
    TypeOK
    LockedUntilOpened
    SignupHasPin
    SecretsStay
PROPERTIES
    PinStays
    DeletedIsGone
CHECK_DEADLOCK TRUE
