SPECIFICATION FairSpec
CONSTANTS
    n1 = n1
    n2 = n2
    Notifications = {n1, n2}
    Attempts = 3
    MaxStalled = 1
    Workers = 1
    MaxFaults = 3
    MaxCrashes = 2
INVARIANTS
    RepeatsAreForUnsure
    SendsBounded
    OutcomeIsTrue
PROPERTIES
    EmailArrives
CHECK_DEADLOCK FALSE
