\* A tab that reconnects after a crash shows a run that is gone.
SPECIFICATION Spec
CONSTANTS
  Nobody = Nobody  Untracked = Untracked
  Tabs = {t1}
  Prompts = {}
  LiveBuffer = 4
  MaxProgress = 1
  MaxRuns = 1
  MaxElsewhere = 1
  MaxFaults = 1
  Faults = {"crash"}
INVARIANTS IdleShown
CHECK_DEADLOCK FALSE
