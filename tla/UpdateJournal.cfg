SPECIFICATION FairSpec
CONSTANTS
    r1 = r1
    r2 = r2
    Readers = {r1, r2}
    MaxAttempts = 3
    MaxSteps = 1
INVARIANTS TypeOK InterruptedHasEnded
PROPERTIES AttemptsBegin
CHECK_DEADLOCK FALSE
