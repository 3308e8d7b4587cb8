\* Liveness under the fairness of the goroutines: no symmetry here, since it
\* is unsound for temporal properties.
SPECIFICATION FairSpec
CONSTANTS
  t1 = t1  t2 = t2  r1 = r1  r2 = r2  r3 = r3  r4 = r4  c1 = c1  c2 = c2  A = A  B = B
  NoRun = NoRun  Loop = Loop  Nobody = Nobody  Free = Free  User = User
  MinInterval = 0
  BusyRetry = 1
  RunIds = {r1, r2}
  TaskIds = {t1, t2}
  Chats = {A}
  ChatOf <- OneChat
  Clients = {c1}
  Definitions <- QueueDefs
  OnDisk <- QueueDefs
  MaxConcurrent = 0
  Quota = 0
  MaxTime = 2
  MaxOps = 1
  Ops = {"update", "crash"}
  AuthOutcomes = {"ok"}
  WritesFail = FALSE
INVARIANTS QueueNotStranded
PROPERTIES QueuedRunStarts ClaimsSettle
