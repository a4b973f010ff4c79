SPECIFICATION Spec
CONSTANTS
    i1 = i1
    i2 = i2
    s1 = s1
    v1 = v1
    v2 = v2
    v3 = v3
    n1 = n1
    None = None
    Absent = Absent
    Partial = Partial
    Torn = Torn
    Variant <- MCVariant
    FirstVol = v1
    Images = {i1, i2, s1}
    Vols = {v1, v2}
    Nets = {n1}
    OtherBackups <- OtherCopies
    Commands = {"start", "backup", "restore"}
    Origins = {"installed"}
    Events = {"container", "home"}
    MaxWrites = 1
    MaxFaults = 1
    MaxStored = 2
INVARIANTS FailedRestoreChangesNothing
CHECK_DEADLOCK FALSE
PROPERTIES ImplementsWorkplace
