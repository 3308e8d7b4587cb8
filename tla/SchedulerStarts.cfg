\* What an unforced start finds in the record it overwrites, and what becomes
\* of a due queue_one occurrence, when users edit, delete, complete and force
\* tasks, agents create them, owners lose access and the executor turns runs
\* away; and the sleeping loop misses no deadline meanwhile.
SPECIFICATION Spec
CONSTANTS
  t1 = t1  t2 = t2  r1 = r1  r2 = r2  r3 = r3  r4 = r4  c1 = c1  c2 = c2  A = A  B = B
  NoRun = NoRun  Loop = Loop  Nobody = Nobody  Free = Free  User = User
  MinInterval = 0
  BusyRetry = 1
  RunIds = {r1, r2, r3}
  TaskIds = {t1, t2}
  Chats = {A}
  ChatOf <- OneChat
  Clients = {c1}
  Definitions <- TwoPeriods
  OnDisk <- TwoPeriods
  MaxConcurrent = 0
  Quota = 0
  MaxTime = 2
  MaxOps = 1
  Ops = {"create", "agentCreate", "update", "delete", "complete", "runNow", "maintenance"}
  AuthOutcomes = {"ok", "denied", "transient"}
  WritesFail = FALSE
SYMMETRY RunSymmetry
INVARIANTS DeadlineNotOverslept
PROPERTIES StartsOnlyWhenDue OccurrenceKept
