SPECIFICATION Spec
CONSTANTS
  Calls = {r1, r2, r3}
  MaxChildren = 2
  MaxFrames = 2
  None = None
SYMMETRY CallSymmetry
CHECK_DEADLOCK FALSE
INVARIANTS
  CallsSound
  ChildrenSound
