CONSTANTS
  Names <- MCNames
  Customers = {c1}
  Nobody = nobody
  ListPages = {p1, p2}
  FirstPage = p1
  MaxMoves = 3
  MaxSwitches = 1
  MaxElsewhere = 1
SPECIFICATION Spec
CHECK_DEADLOCK FALSE
INVARIANTS TypeOK CabinetIsSaid ProductIsOfTheAddress
PROPERTY PagesSettle
