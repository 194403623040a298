CONSTANTS
  Orders = {3, 5}
  Max3 = 11
  Max5 = 10
  NbValues <- MCNbValues
  SameSize = 3
SPECIFICATION Spec
INVARIANTS TypeOK IsSortedArray SearchFinds
VIEW View
CHECK_DEADLOCK FALSE
