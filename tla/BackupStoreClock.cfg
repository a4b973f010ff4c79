SPECIFICATION Spec
CONSTANTS
    a = a
    b = b
    r = r
    None = None
    Installations = {a, b}
    Readers = {}
    MaxTime = 4
    ClockSetBack = TRUE
    MaxDamage = 0
INVARIANTS CompletedIsKept
CHECK_DEADLOCK FALSE
SYMMETRY Sharing
