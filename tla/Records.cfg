SPECIFICATION Spec
VIEW View
CONSTANTS
  Scenes = {"security", "owners", "projects", "grants", "uploads", "files", "tree", "talks", "feed", "reports"}
  SecurityClients = {s1, s2} HistoryLimit = 1 RecoveryCodeCount = 1 EnrollmentTTL = 1
  PendingLoginTTL = 1 MaxSecurityCalls = 2 MaxRemovals = 2 MaxSecurityEvents = 2 MaxSecurityMoves = 3
  Unread = Unread NoRecord = NoRecord
  Owners = {c1, c2} Emails = {a, b} HeldKinds = {"access", "push"} MaxTokens = 2 MaxOwnerCalls = 2
  MaxOwnerFaults = 2 MaxReboots = 1 NoEmail = NoEmail
  RecordCalls = {c1, c2} ProjectNames = {n1, n2} People = {p1, p2} MaxProjects = 2
  MaxRecordCalls = 3 MaxRecordFaults = 1 NoMeta = NoMeta
  Turns = {t1} ApiCalls = {c1, c2} Accounts = {o, b} AdminAccounts = {b} MaxPlans = 2
  TaskQuota = 1 GrantTTL = 1 MaxGrantClock = 1 MaxApiCalls = 3 NoPlan = NoPlan NoGrant = NoGrant
  NoTurn = NoTurn
  Attachments = {a1, a2} UploadPieces = 2 MaxUploadFaults = 1
  EntryCount = 4 DirEntries = {3} LinkEntries = {2} MatchingEntries = {1, 2, 4} ListLimit = 2
  SearchLimit = 3 VisitLimit = 3 ByteLimit = 3 EntryLimit = 4 SpoolLimit = 2 SpoolSlots = 1
  Downloads = {d1, d2} FileSizes = {1, 2} MaxFileEvents = 1
  Folders = {root, fa} RootFolder = root Queries = {1, 2} MaxTreeEvents = 4 NoListing = NoListing
  Talks = {c1, c2} Agents = {"a", "b"} Forkers = {"a"} MaxMoment = 4 MaxContexts = 2
  MaxTalkFaults = 1 NoTalk = NoTalk Gone = Gone MaxTalkRequests = 3
  Topics = {t1, t2} LooseTopics = {t1} Room = rm MaxEditors = 2 WorkspaceBuffer = 1
  MaxEdits = 2 MaxFeedFaults = 1 MaxMoves = 1 IdleEdit = IdleEdit
  Payers = {pa} NoPayer = NoPayer Models = {m1} PricedAtFirst = {} OwnPriced = {} Inputs = {2}
  MaxRows = 2 MaxDay = 2 MaxSpan = 1 PageLimit = 1 MaxReads = 3 MaxInFlight = 1 MaxBookEvents = 1
  Closed = Closed
INVARIANTS
  AccountsInvariant ProjectsWhole GrantsObeyed FilesShown ChatsShown ReportsAddUp
CHECK_DEADLOCK FALSE
