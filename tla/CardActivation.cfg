SPECIFICATION FairSpec
CONSTANTS
    ann = ann
    bob = bob
    s1 = s1
    s2 = s2
    s3 = s3
    Users = {ann}
    Slots = {s1, s2}
    Wishes = {"activate", "inactive", "active", "show", "token"}
    MaxCustomers = 5
    MaxFaults = 2
INVARIANTS
    OneCardPerUser
    FrozenIsFrozen
PROPERTIES
    FreezeTakesEffect
