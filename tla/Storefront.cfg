CONSTANTS
  Tabs = {t1}
  Products <- MCProducts
  Items <- MCItems
  ProductOf <- MCProductOf
  Variants = {"variant"}
  Files = {"guide"}
  Methods = {card, portone}
  Portone = portone
  NoMethod = none
  Calls = {c1}
  FirstPrice <- MCPrice
  FirstStock <- MCStock
  MaxPrice = 2
  MaxQuantity = 2
  MaxEdits = 1
  MaxWrites = 3
SPECIFICATION Spec
CHECK_DEADLOCK FALSE
INVARIANTS TypeOK ProviderIsOffered PortoneChargesTheOrder MarkedWereRefused
