\* The container by itself, without a fault; the rest as in Platform.cfg.
SPECIFICATION Spec
VIEW View
CONSTANTS
  Scenes = {"container"}
  a = a Chats = {a} Histories <- Older MaxMinted = 2 MaxClock = 2 MaxMishaps = 1
  Mishaps = {"short", "crash", "outside"}
  Requests = {r1, r2} Mounts = {workspace, home} Migrated = {home} NoRequest = none
  MaxFaults = 0 MaxWrites = 2
  PrefTabs = {pt1} Providers = {pv1, pv2} Default = pv1 NoProvider = NoProvider NoFile = NoFile
  MaxPatches = 2 MaxAtOnce = 1 MaxPrefMoves = 1 MaxPrefFaults = 1
  LastMinute = 1 LastHour = 1 LastDay = 2 LastMonth = 2 LastWeekday = 2 Reach = 48 Horizon = 30
  MaxJump = 2 JumpAt = 6
  Tabs = {b1, b2} Screens = {c1} NoScreen = NoScreen MaxClients = 1 PresenceTTL = 2
  MaxReports = 3 MaxBeat = 3 MaxTransit = 1 MaxPresenceFaults = 1
  People = {p1, p2} Administrators = {p2} Devices = {d1, d2} MaxDevices = 1 MaxBells = 1
  MaxAppends = 2 MaxPushRequests = 2 MaxPushFaults = 1 NoJob = NoJob Owner <- MCOwner
  ProjectsRoot = "srv" Names = {"workspace", "workspaces", "a"} LongerName = "workspaces"
  SkippedName = "dist" MaxDepth = 1 MaxParts = 2 NoPath = NoPath
INVARIANTS LaunchSpares
CHECK_DEADLOCK FALSE
