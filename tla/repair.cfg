SPECIFICATION Spec
CONSTANTS
  None = None
  MaxVariants = 2
  Settings <- MCSettings
  Hints <- MCHints
  Asked <- MCAsked
CHECK_DEADLOCK FALSE
INVARIANTS WinnerRepairs LeavesWhatItReports OfflineTies
