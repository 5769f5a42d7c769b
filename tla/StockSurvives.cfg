CONSTANTS
  n1 = n1
  n2 = n2
  v1 = v1
  Untyped = untyped
  Products = {p, q}
  Pictures = {1, 2, 3}
  None = none
  MaxFiles = 2
  ImageMoves = 4
  Items = {x, y}
  Texts = {t1, t2}
  Empty = empty
  ContentMoves = 4
  MaxChoice = 3
  SettingMoves = 4
  ProviderMoves = 5
  MaxFlight = 2
SPECIFICATION Spec
CHECK_DEADLOCK FALSE
PROPERTY StockSurvives
