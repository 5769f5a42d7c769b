\* The deadlock instance alone: two carts, two keys, two products.
SPECIFICATION FairSpec
CONSTANTS
    c1 = c1
    c2 = c2
    p = p
    q = q
    f = f
    Carts <- MCCarts
    Products <- MCProducts
    Keys = {2, 3}
    Tasks = {t1, t2}
    Kind <- MCKind
    Lines <- MCLines
    ProductOf <- TwoKeysProductOf
    Stocked = {2, 3}
    Engines = {"sqlite", "postgres"}
    MaxAttempts = 2
    Lapsing = {}
    Deletable = {3}
    Droppable = {}
    NoCart = NoCart
    NoKey = NoKey
PROPERTY LettersEnd
CHECK_DEADLOCK FALSE
