SPECIFICATION Spec
CONSTANTS
    c1 = c1
    c2 = c2
    proxy = proxy
    p1 = p1
    Certs = {c1, c2}
    Variables = {proxy}
    Values = {p1}
    Choices <- MCChoices
    MaxChanges = 2
    MaxFaults = 1
    None = None
INVARIANTS ReceiptCovers AppliedIsExact
PROPERTIES RetrySucceeds
