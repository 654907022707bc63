SPECIFICATION FairSpec
CONSTANTS
  desk = desk
  Sched = Sched
  Quit = Quit
  None = None
  Callers <- MCCallers
  ManualDays = 1
  AutomaticDays = 0
  Interval = 0
  MaxNow = 2
  MaxRequests = 3
INVARIANTS IndicatorIsTrue ExitBackupCoversCommits
PROPERTIES NeverOverwrites KeepsTheNewest ExitEnds
CHECK_DEADLOCK FALSE
