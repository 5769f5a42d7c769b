CONSTANTS
  Products = {a, b}
  None = none
  New = new
  Blank = blank
  PageSize = 1
  MaxMoves = 4
  MaxFlight = 2
  Patience <- MCPatient
SPECIFICATION Spec
CHECK_DEADLOCK FALSE
INVARIANTS TypeOK SavedToItsOwnProduct DrawerKeepsItsProduct PageAgreesWithServer
