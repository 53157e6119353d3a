SPECIFICATION Spec
CONSTANTS
  WordBits = 3
  MaxBits = 8
  Others <- SmallLists
  ElementSizes = {0, 1, 2, 3, 5}
INVARIANTS
  Canonical
  IsEmptyAgrees
  
  MixedLengthsRejected
PROPERTIES
  ActsAsList
