SPECIFICATION Spec
CONSTANTS
    Users = {u1, u2}
    MaxCerts = 3
    MaxInstalls = 2
    MaxCommands = 3
    None = None
    Absent = Absent
    Empty = Empty
CONSTRAINT Bound
SYMMETRY Exchange
INVARIANTS WorksOnProfile InstalledIsWhole UntrustIsComplete PairMatches
PROPERTIES IdentityKept
CHECK_DEADLOCK FALSE
