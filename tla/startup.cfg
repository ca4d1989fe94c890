SPECIFICATION FairSpec
CONSTANTS
  s1 = s1
  s2 = s2
  p = p
  r1 = r1
  r2 = r2
  json = json
  page = page
  None = None
  Conns <- TwoServers
  Servers <- TwoServers
  Recorders <- OneRecorder
  RunIds <- TwoRuns
  Takes = {"seed"}
  Steps <- TwoSteps
  Contents <- OneContent
  CarriageReturns = {}
  Bundled <- OneBundled
  SeedRuns <- InOrder
  Seeded <- TheDemo
CHECK_DEADLOCK FALSE
INVARIANTS Resolvable SeededWhole
PROPERTIES ComesUp
