SPECIFICATION Spec
CONSTANTS
    c1 = c1
    c2 = c2
    p = p
    q = q
    f = f
    Carts <- MCCarts
    Products <- MCProducts
    Keys <- MCKeys
    Tasks = {t1, t2}
    Kind <- MCKind
    Lines <- MCLines
    ProductOf <- MCProductOf
    Stocked <- MCStocked
    Engines = {"sqlite", "postgres"}
    MaxAttempts = 2
    Lapsing = {c1}
    Deletable = {2}
    Droppable = {q}
    NoCart = NoCart
    NoKey = NoKey
INVARIANTS
    TypeOK
    KeySoldOnce
    AllOrNothing
    LetterHoldsOwnKeys
    RetryKeepsKey
PROPERTIES
    KeysAsPromised
CHECK_DEADLOCK FALSE
