SPECIFICATION EvalSpec
CONSTANTS
  api = api
  p1 = p1
  p2 = p2
  f1 = f1
  k1 = k1
  r1 = r1
  r2 = r2
  s1 = s1
  s2 = s2
  h1 = h1
  e = e
  d = d
  None = None
  Missing = Missing
  Empty = Empty
  Torn = Torn
  Api = api
  Conns <- MCConns
  Takes <- MCTakes
  RunIds <- MCRuns
  Steps <- MCSteps
  Groups = {}
  ForkId <- MCForkId
  Forkers <- MCForkers
  Recorders <- MCRecorders
  Settings <- MCSettings
  Replacing <- MCReplacing
  Shapes <- MCShapes
  StepType <- MCTypes
  Lost <- MCLost
  Workloads <- MCWorkloads
  Reliability <- MCReliability
  Harness <- MCHarness
  Repeats = 1
  Attempts = 2
  Replies <- MCReplies
  Pairs <- MCPairs
  Gold <- MCGold
  Judgements <- MCJudgements
CHECK_DEADLOCK FALSE
INVARIANTS HeadlineTrue RunsCounted
