SPECIFICATION SpecAll
CONSTANTS
  api = api
  p1 = p1
  p2 = p2
  f1 = f1
  f2 = f2
  r1 = r1
  r2 = r2
  k1 = k1
  k2 = k2
  g = g
  None = None
  Api = api
  Conns <- MCConns
  Takes <- MCTakes
  RunIds <- MCRuns
  Steps <- MCSteps
  Groups <- MCGroups
  ForkId <- MCForkId
  Forkers <- MCForkers
  Recorders <- MCRecorders
  Settings <- MCSettings
  Replacing <- MCReplacing
  Shapes <- MCShapes
SYMMETRY Symmetry
CHECK_DEADLOCK FALSE
INVARIANTS Consistent CleanUntilRejected ForkFaithful ForkNeverFails RecordedWhole
PROPERTIES AppendOnly
