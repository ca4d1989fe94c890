SPECIFICATION FairSpec
CONSTANTS
  None = None
  Traces <- MCTraces
  Failures <- MCFailures
  Fixes <- MCFixes
  Asked <- MCAsked
CHECK_DEADLOCK FALSE
INVARIANTS BlamePrecedesFailure WalksMirror UpstreamWeighsMore
PROPERTIES BlamesTheCause Returns
