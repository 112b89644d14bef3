SPECIFICATION FairSpec
CONSTANTS
    phone = phone
    home = home
    a = a
    b = b
    c = c
    r1 = r1
    r2 = r2
    Clients = {phone}
    Networks = {home}
    Sids = {a, b, c}
    NoSid = NoSid
    Requests = {r1, r2}
    Expiries <- MCExpiries
    MaxFaults = 1
INVARIANTS
    LogoutRevokesRow
    LoggedOutStaysOut
PROPERTIES
    RevokedForGood
    SignInSettles
    LogoutTakesEffect
