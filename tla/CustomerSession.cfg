SPECIFICATION Spec
CONSTANTS
    a1 = a1
    u1 = u1
    u2 = u2
    s1 = s1
    s2 = s2
    r1 = r1
    r2 = r2
    Addresses = {a1}
    Customers = {u1, u2}
    Sessions = {s1, s2}
    Requests = {r1, r2}
    MaxResets = 1
    Nobody = Nobody
    NoSession = NoSession
    NoKey = NoKey
SYMMETRY Interchangeable
INVARIANTS
    TypeOK
    OneAccountPerAddress
    TokensVerify
    BlockedIsNotServed
    OnlyRacesSurvive
