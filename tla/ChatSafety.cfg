\* A tab and its prompt queue under every fault.
SPECIFICATION Spec
CONSTANTS
  Nobody = Nobody  Untracked = Untracked
  Tabs = {t1}
  Prompts = {p1, p2}
  LiveBuffer = 2
  MaxProgress = 0
  MaxRuns = 2
  MaxElsewhere = 1
  MaxFaults = 1
  Faults = {"loss", "reload", "crash", "maintenance", "refuse", "rewind", "direct", "remove"}
SYMMETRY PromptSymmetry
INVARIANTS ChatInvariant RunShown PromptsKeptInOrder
CHECK_DEADLOCK FALSE
