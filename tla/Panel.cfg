CONSTANTS
  Items = {i1, i2}
  Untitled = untitled
  ListMoves = 4
  MaxCustomer = 2
  Buyers = {1}
  CustomerMoves = 4
  MaxId = 2
  WorkflowMoves = 5
  CrontabMoves = 4
  PageSize = 1
  MaxFlight = 2
  Databases = {home, other}
  Home = home
  Clients = {op, stranger}
  Installer = op
  WayInMoves = 6
  Senders = {m1, m2}
  Addresses = {a1, a2}
  Buyer = buyer
  MaxDay = 1
  None = none
SPECIFICATION Spec
CHECK_DEADLOCK FALSE
INVARIANTS TypeOK TableAgreesWithServer DrawerKeepsItsRow InstalledShopStays MessagesAreKept
