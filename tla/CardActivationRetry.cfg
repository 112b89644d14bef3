SPECIFICATION FairSpec
CONSTANTS
    ann = ann
    bob = bob
    s1 = s1
    s2 = s2
    s3 = s3
    Users = {ann}
    Slots = {s1}
    Wishes = {"activate"}
    MaxCustomers = 3
    MaxFaults = 1
PROPERTIES
    TryingAgainActivates
