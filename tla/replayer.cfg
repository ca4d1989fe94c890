SPECIFICATION AgentSpec
CONSTANTS
  k1 = k1
  k2 = k2
  k3 = k3
  i1 = i1
  i2 = i2
  i3 = i3
  g1 = g1
  g2 = g2
  t1 = t1
  t2 = t2
  None = None
  Keys <- MCKeys
  Idents <- MCIdents
  Groups <- MCGroups
  Tools <- MCTools
  Runs <- MCTapes
  MaxCalls = 4
CHECK_DEADLOCK FALSE
INVARIANTS ReportIsTrue NeverMisses FailuresReproduced
PROPERTIES RecordedOrder SameTrajectory
