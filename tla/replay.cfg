SPECIFICATION Spec
CONSTANTS
  h1 = h1
  h2 = h2
  s1 = s1
  s2 = s2
  t1 = t1
  t2 = t2
  None = None
  HttpIdents <- MCHttp
  SdkIdents <- MCSdk
  Tapes <- MCTapes
  Inside <- MCThreads
  Agents <- MCAgents
  MaxCalls = 4
CHECK_DEADLOCK FALSE
INVARIANTS FaithfulReplayOk OkMeansComplete
PROPERTIES SafeReplayed
