CONSTANTS
  a = a
  a2 = a2
  b = b
  c = c
  folder = folder
  name = name
  Files = {a, a2}
  Dirs = {folder}
  NameOf <- MCNameOf
  Listings <- SameChild
  Asked = {name, folder}
  Places = {here}
  NoPlace = NoPlace
  Destinations = {NoPlace}
  MaxListed = 2
  MaxSelection = 0
  Predicates = {}
  Persistent = TRUE
  NoRef = NoRef
SPECIFICATION Spec
INVARIANTS ListedIsTimed 
 
SYMMETRY Symmetry
CHECK_DEADLOCK FALSE
