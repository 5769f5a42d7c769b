\* The callback alone: SpectroCoin orders, two requests at once, two faults.
SPECIFICATION FairSpec
CONSTANTS
    c1 = c1
    p1 = p1
    r1 = r1
    r2 = r2
    Carts = {c1}
    Payments = {c1}
    Requests = {r1, r2}
    Offered = {"spectrocoin"}
    Elsewhere = {}
    MaxFaults = 2
    LetterCap = 2
    None = None
    Other = Other
PROPERTY ChargedIsRecorded
CHECK_DEADLOCK FALSE
