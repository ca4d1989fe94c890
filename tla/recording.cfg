SPECIFICATION Spec
CONSTANTS
  b1 = b1
  b2 = b2
  c1 = c1
  c2 = c2
  None = None
  Proxy = Proxy
  Branches <- MCBranches
  Slots <- MCSlots
  Modes <- MCModes
  MaxLost = 1
SYMMETRY Symmetry
CHECK_DEADLOCK FALSE
INVARIANTS OneSequence ParentsPrecede BatchGrouped FanInComplete FailureHeardIsReported
