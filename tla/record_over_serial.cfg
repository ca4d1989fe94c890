SPECIFICATION OverSpec
CONSTANTS
  t1 = t1
  t2 = t2
  high = high
  low = low
  call_model = call_model
  assess_severity = assess_severity
  verify_resolution = verify_resolution
  None = None
  Threads <- TwoThreads
  Values <- MCValues
  Hooked <- MCHooked
  Script <- MCScript
  Reads <- MCReads
  OneAtATime = TRUE
  MaxRequests = 3
CHECK_DEADLOCK FALSE
INVARIANTS RestoredWhenIdle DecisionHonoured
