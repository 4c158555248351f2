SPECIFICATION Spec
CONSTANTS
  p1 = p1
  p2 = p2
  p3 = p3
  A = A
  B = B
  None = None
  SlotIds = {p1, p2, p3}
  ConnIds = {A, B}
SYMMETRY Symmetry
INVARIANTS
  OnePadPerConnection
  IndicesDistinct
