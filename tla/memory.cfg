SPECIFICATION RecallSpec
CONSTANTS
  None = None
  Threads = {t1, t2}
  Runs <- SomeRuns
  Seeds <- TwoSeeds
  Limit = 9
  ReadsFail = FALSE
  OneAtATime = TRUE
  Verdicts <- SomeVerdicts
  RecallLimit = 3
  RunMatches = 2
  SearchMatches = 3
  Threshold = 450
CHECK_DEADLOCK FALSE
INVARIANTS SeededOnce LearnedOncePerStep BestRecalled
