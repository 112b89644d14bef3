SPECIFICATION FairSpec
CONSTANTS
    ada = ada
    a = a
    b = b
    c = c
    r1 = r1
    r2 = r2
    Emails = {ada}
    Keys <- MCKeys
    Codes = {a, b, c}
    NoCode = NoCode
    Requests = {r1, r2}
    MaxFaults = 1
INVARIANTS
    AnnouncedOnce
    AcceptedOnce
    OverIsRefused
    EmailedCodeWorks
PROPERTIES
    CodeArrives
