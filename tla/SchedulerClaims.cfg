\* The claim protocol against everything that can interleave with it: manual
\* runs, edits, deletions, user prompts, completions and crashes, on one chat.
\* The same run checks that it implements the abstract lease.
SPECIFICATION Spec
CONSTANTS
  t1 = t1  t2 = t2  r1 = r1  r2 = r2  r3 = r3  r4 = r4  c1 = c1  c2 = c2  A = A  B = B
  NoRun = NoRun  Loop = Loop  Nobody = Nobody  Free = Free  User = User
  MinInterval = 0
  BusyRetry = 1
  RunIds = {r1, r2, r3}
  TaskIds = {t1, t2}
  Chats = {A}
  ChatOf <- OneChat
  Clients = {c1}
  Definitions <- QueueDefs
  OnDisk <- QueueDefs
  MaxConcurrent = 0
  Quota = 0
  MaxTime = 1
  MaxOps = 2
  Ops = {"runNow", "update", "delete", "crash", "prompt", "completeClaim"}
  AuthOutcomes = {"ok"}
  WritesFail = FALSE
SYMMETRY RunSymmetry
INVARIANTS OneClaimPerChat RunHoldsClaim RunsMatchClaims ClaimInvariant
PROPERTIES ImplementsLease
