SPECIFICATION Spec
CONSTANTS
    c1 = c1
    p1 = p1
    r1 = r1
    r2 = r2
    Carts = {c1}
    Payments = {c1, p1}
    Requests = {r1, r2}
    Offered = {"stripe", "paypal", "coinbase", "spectrocoin", "portone", "dummy"}
    Elsewhere = {"stripe", "paypal"}
    MaxFaults = 1
    LetterCap = 2
    None = None
    Other = Other
INVARIANTS
    TypeOK
    
    
    LetterOnce
PROPERTY PaidStays
SYMMETRY Interchangeable
CHECK_DEADLOCK FALSE
