SPECIFICATION Spec
CONSTANTS
  t1 = t1
  t2 = t2
  chat = chat
  None = None
  Tasks <- MCTasks
  Targets <- MCTargets
  Hour = 2
  MaxAttempts = 2
  MaxLeft = 2
  MaxNow = 1
SYMMETRY Symmetry
INVARIANTS SentOnce HourHasOneRun
CHECK_DEADLOCK FALSE
