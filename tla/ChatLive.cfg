\* Every tab catches up and every queued prompt runs, over connections that
\* break and tabs that are reloaded.
SPECIFICATION FairSpec
CONSTANTS
  Nobody = Nobody  Untracked = Untracked
  Tabs = {t1}
  Prompts = {p1}
  LiveBuffer = 2
  MaxProgress = 1
  MaxRuns = 2
  MaxElsewhere = 1
  MaxFaults = 1
  Faults = {"loss", "reload"}
INVARIANTS QuietIsCurrent
PROPERTIES ImplementsTranscript PromptRuns
CHECK_DEADLOCK FALSE
