SPECIFICATION Spec
CONSTANTS
    chrome = chrome
    code = code
    p = p
    q = q
    d = d
    e = e
    None = None
    AppOrder <- OneApp
    Runs = {p, q}
    Readers = {d, e}
    MaxRelease = 2
    MaxFaults = 1
INVARIANTS CompletedIsNotInterrupted
SYMMETRY Equals
