SPECIFICATION FairSpec
CONSTANTS
    i1 = i1
    i2 = i2
    s1 = s1
    v1 = v1
    v2 = v2
    v3 = v3
    n1 = n1
    None = None
    Absent = Absent
    Partial = Partial
    Torn = Torn
    Variant <- MCVariant
    FirstVol = v1
    Images = {i1, i2}
    Vols = {v1, v2}
    Nets = {n1}
    OtherBackups <- NoCopies
    Commands = {"network", "backup", "update-image", "update-apps"}
    Origins = {"older"}
    Events = {"writer", "exit"}
    MaxWrites = 2
    MaxFaults = 1
    MaxStored = 2
INVARIANTS CopiesAreConsistent FailedImageUpdateResumes
PROPERTIES CommandsEnd
CHECK_DEADLOCK FALSE
