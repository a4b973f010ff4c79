SPECIFICATION Spec
CONSTANTS
    a = a
    b = b
    r = r
    None = None
    Installations = {a, b}
    Readers = {r}
    MaxTime = 4
    ClockSetBack = FALSE
    MaxDamage = 1
INVARIANTS TypeOK CompletedIsKept ListingMissesNone
PROPERTIES KeepsNewestTwo
CHECK_DEADLOCK FALSE
SYMMETRY Sharing
