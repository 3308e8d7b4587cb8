\* The dispatch cap, the interval floor and the run bound: two chats compete
\* for one slot, with a floor of two instants, tasks bounded to one or two
\* runs, and a store whose writes may fail.
SPECIFICATION Spec
CONSTANTS
  t1 = t1  t2 = t2  r1 = r1  r2 = r2  r3 = r3  r4 = r4  c1 = c1  c2 = c2  A = A  B = B
  NoRun = NoRun  Loop = Loop  Nobody = Nobody  Free = Free  User = User
  MinInterval = 2
  BusyRetry = 1
  RunIds = {r1, r2, r3}
  TaskIds = {t1, t2}
  Chats = {A, B}
  ChatOf <- TwoChats
  Clients = {c1}
  Definitions <- BoundedDefs
  OnDisk <- BoundedDefs
  MaxConcurrent = 1
  Quota = 0
  MaxTime = 4
  MaxOps = 1
  Ops = {"update"}
  AuthOutcomes = {"ok"}
  WritesFail = TRUE
SYMMETRY RunSymmetry
INVARIANTS TypeOK
PROPERTIES LimitsRespected NoSpin
