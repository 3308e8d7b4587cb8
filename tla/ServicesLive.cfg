SPECIFICATION FairSpec
CONSTANTS
  Scenes = {"device", "code", "capability", "codex", "update", "browser",
            "uploads", "feed", "push"}
  MaxLogins = 2 MaxInstant = 1 LoginTTL = 1 LoginTimeout = 1 Watchers = {} FeedBuffer = 1
  MaxSessions = 1 Admins = {a1, a2} NoSession = NoSession
  Requests = {r1, r2} LiveTTL = 2 DegradedTTL = 1 MaxEdition = 1 MaxTick = 1
  MaxTurns = 1 Questions = {q1} Subagents = {} Collaborations = {k1} PipeBound = 1 AnswerCapacity = 1
  Releases <- MCReleases FirstRelease <- MCFirstRelease MaxUpdaters = 2 NoUpdater = NoUpdater
  Pages = {p1} Starts = {i1, i2} NoStart = NoStart MaxUses = 2
  Attachments = {at1} UploadPieces = 2 MaxUploadFaults = 2
  Topics = {t2} LooseTopics = {} Room = rm MaxEditors = 1 WorkspaceBuffer = 1 MaxEdits = 2
  MaxFeedFaults = 1 MaxMoves = 0 IdleEdit = IdleEdit
  Tabs = {} Screens = {} NoScreen = NoScreen MaxClients = 1 PresenceTTL = 1
  MaxReports = 0 MaxBeat = 0 MaxTransit = 0 MaxPresenceFaults = 0
  People = {pp1} Administrators = {} Devices = {dv1, dv2} MaxDevices = 1 MaxBells = 1
  MaxAppends = 2 MaxPushRequests = 1 MaxPushFaults = 1 NoJob = NoJob Owner <- MCOwner
PROPERTIES ServicesAnswer NewsArrives
CHECK_DEADLOCK FALSE
