SPECIFICATION FairSpec
CONSTANTS
    d1 = d1
    d2 = d2
    s1 = s1
    a1 = a1
    usdt = usdt
    r1 = r1
    r2 = r2
    Refs = {d1, d2, s1}
    Addresses = {a1}
    Tokens = {usdt}
    Events <- Mixed
    Requests = {r1, r2}
    MaxFaults = 2
    NoRow = NoRow
    NoEvent = NoEvent
INVARIANTS
    LedgerMatchesEntries
    AckedIsCredited
    CreditHasCause
PROPERTIES
    PromiseKept
    DepositsSettle
