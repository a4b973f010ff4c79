SPECIFICATION Spec
CONSTANTS
    i1 = i1
    i2 = i2
    s1 = s1
    v1 = v1
    v2 = v2
    v3 = v3
    n1 = n1
    None = None
    Absent = Absent
    Partial = Partial
    Torn = Torn
    Variant <- MCVariant
    FirstVol = v1
    Images = {i1, i2}
    Vols = {v1, v2}
    Nets = {}
    OtherBackups <- NoCopies
    Commands = {"start", "stop", "backup", "restore", "update-image", "update-apps"}
    Origins = {"installed", "older"}
    Events = {"exit", "tag", "image"}
    MaxWrites = 1
    MaxFaults = 1
    MaxStored = 3
INVARIANTS TypeOK RuntimeIsSelected HomePreserved HomeImageKnown StartRecovers UsableOnlyWhenSelected
PROPERTIES ImplementsWorkplace ReplacedOnlyAfterCopy
CHECK_DEADLOCK FALSE
SYMMETRY BaseImages
