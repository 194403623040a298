CONSTANTS
  a = a
  a2 = a2
  b = b
  c = c
  folder = folder
  name = name
  Files = {a, b, c}
  Dirs = {folder}
  NameOf <- MCNameOf
  Listings <- TwoChildren
  Asked = {name, b, folder}
  Places = {}
  NoPlace = NoPlace
  Destinations = {NoPlace}
  MaxListed = 0
  MaxSelection = 2
  Predicates = {"IsDownloadable", "IsADirectory"}
  Persistent = FALSE
  NoRef = NoRef
SPECIFICATION Spec
INVARIANTS TypeOK MarkersSkipNothing
PROPERTIES ImplementsOrder
CHECK_DEADLOCK FALSE
