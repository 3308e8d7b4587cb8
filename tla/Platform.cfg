\* The log under write errors, crashes, rewinds, forks and edits from outside;
\* the container of one project, with two requests, its workspace and the home
\* of one agent; the settings of a user; schedules on a small calendar; two tabs
\* of a user; two devices; and every path of one directory and one name.
SPECIFICATION Spec
VIEW View
SYMMETRY Interchangeable
CONSTANTS
  Scenes = {"container", "log", "settings", "cron", "presence", "push", "paths"}
  a = a Chats = {a} Histories <- Older MaxMinted = 2 MaxClock = 2 MaxMishaps = 1
  Mishaps = {"short", "crash", "outside"}
  Requests = {r1, r2} Mounts = {workspace, home} Migrated = {home} NoRequest = none
  MaxFaults = 1 MaxWrites = 1
  PrefTabs = {pt1} Providers = {pv1, pv2} Default = pv1 NoProvider = NoProvider NoFile = NoFile
  MaxPatches = 2 MaxAtOnce = 1 MaxPrefMoves = 1 MaxPrefFaults = 1
  LastMinute = 1 LastHour = 1 LastDay = 2 LastMonth = 2 LastWeekday = 2 Reach = 48 Horizon = 30
  MaxJump = 2 JumpAt = 6
  Tabs = {b1, b2} Screens = {c1} NoScreen = NoScreen MaxClients = 1 PresenceTTL = 2
  MaxReports = 3 MaxBeat = 3 MaxTransit = 1 MaxPresenceFaults = 1
  People = {p1, p2} Administrators = {p2} Devices = {d1, d2} MaxDevices = 1 MaxBells = 1
  MaxAppends = 3 MaxPushRequests = 2 MaxPushFaults = 1 NoJob = NoJob Owner <- MCOwner
  ProjectsRoot = "srv" Names = {"workspace", "workspaces", "a"} LongerName = "workspaces"
  SkippedName = "dist" MaxDepth = 1 MaxParts = 2 NoPath = NoPath
INVARIANTS LogExact ContainerKept RequestsMeant BellsInvariant
CHECK_DEADLOCK FALSE
