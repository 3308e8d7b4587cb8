SPECIFICATION Spec
VIEW View
CONSTANTS
  Scenes = {"device", "code", "capability", "codex", "ledger", "update", "browser",
            "keys", "items", "clis", "credentials", "image", "git"}
  MaxLogins = 2 MaxInstant = 2 LoginTTL = 1 LoginTimeout = 2 Watchers = {w1} FeedBuffer = 1
  MaxSessions = 2 Admins = {a1, a2} NoSession = NoSession
  Requests = {r1, r2, r3} LiveTTL = 2 DegradedTTL = 1 MaxEdition = 2 MaxTick = 2
  MaxTurns = 1 Questions = {q1} Subagents = {s1} Collaborations = {k1} PipeBound = 1 AnswerCapacity = 1
  Chats = {c1, c2} MaxRuns = 2 MaxMonth = 2 Rebuilders = {a1} Unlocked = Unlocked NoEvent = NoEvent
  Releases <- MCReleases FirstRelease <- MCFirstRelease MaxUpdaters = 2 NoUpdater = NoUpdater
  Pages = {p1, p2} Starts = {i1, i2} NoStart = NoStart MaxUses = 3
  KeyTabs = {kt1, kt2} Genuine = {k1} Refused = {k0} Fitting = {k1} NoKey = NoKey NoTab = NoTab
  KeyBuffer = 2 MaxKeyCalls = 2 MaxKeyFaults = 1
  RootThread = t0 ChildThreads = {c1} FeedItems = {i1} Pieces = {"a", "b"} MaxText = 2
  MaxNotices = 6 NoCard = NoCard
  Ensurers = {en1, en2} LastPin = 3 MaxCliFaults = 1 MaxPrepares = 3 Cutoff = Cutoff
  Boxes = {bx1, bx2} BoxRuns = {br1, br2} MaxSeconds = 3 MaxTokens = 2 MaxBoxFaults = 1
  MaxHostUses = 1 NoBox = NoBox
  Builds = {bd1, bd2} MaxBuildFaults = 2 MaxBuildRuns = 3 NoBuild = NoBuild
  GitFiles = {gf1, gf2} Restores = {rs1} CommitLimit = 2 MaxCommits = 3 MaxEdits = 3 MaxGitFaults = 1
INVARIANTS
  SignInInvariant TurnInvariant DiscoveryShared LedgerAddsUp HostInvariant ProvisionInvariant
  HistoryKept
PROPERTIES NothingUndone
CHECK_DEADLOCK FALSE
