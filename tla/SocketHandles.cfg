CONSTANTS
  o1 = o1
  o2 = o2
  o3 = o3
  Object <- MCObject
  Number = {0, 1}
  Address = {a1}
  Entity = {e1, e2, e3}
  INVALID_HANDLE = INVALID_HANDLE
  NoEntity = NoEntity
SPECIFICATION Spec
SYMMETRY Symmetry
INVARIANTS IndInv NothingLeaks OpenTells
PROPERTY ClosesItsOwn
