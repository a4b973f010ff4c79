SPECIFICATION FairSpec
CONSTANTS
    chrome = chrome
    code = code
    p = p
    q = q
    d = d
    e = e
    None = None
    AppOrder <- TwoApps
    Runs = {p, q}
    Readers = {d}
    MaxRelease = 2
    MaxFaults = 1
INVARIANTS TypeOK CurrentIsWhole CompletedIsInstalled
PROPERTIES OnlyUpdatesReplace NeverOlder SucceedsInTheEnd
