---- MODULE SchedulerProofs ----
\* Theorems about the scheduler for every set of tasks, chats, clients and
\* run ids, every cap, floor and quota, and with store writes that may
\* fail.
EXTENDS Scheduler, TLAPS

----
\* What every transformation of ScheduleTask returns, for every value of
\* the constants: a well-formed record that claims nothing new and does not
\* drop out of the store.

Gone == {"absent", "deleted"}

\* n is a legal successor of record k: nothing but claim adds a claim, and a
\* stored task stays stored.  n keeps the claim of k, or gives it back.
Survives(k, n) == n \in Task /\ (k.status \notin Gone => n.status \notin Gone)
Succeeds(k, n) == Survives(k, n) /\ n.active = k.active
Releases(k, n) == Survives(k, n) /\ n.active = NoRun

----
\* The period arithmetic of a cron task stays within the naturals.
LEMMA NextOccurrenceType ==
  ASSUME NEW def \in Definition, NEW at \in Nat
  PROVE  NextOccurrence(def, at) \in Nat
<1>1. def.when \in Nat \ {0} BY DEF Definition
<1>2. (at \div def.when) + 1 \in Nat BY <1>1
<1>3. \A x, y \in Nat : x * y \in Nat OBVIOUS
<1>4. ((at \div def.when) + 1) * def.when \in Nat BY <1>1, <1>2, <1>3
<1> QED BY <1>1, <1>4 DEF NextOccurrence

LEMMA NextAfterClaimType ==
  ASSUME NEW def \in Definition, NEW at \in Nat
  PROVE  NextAfterClaim(def, at) \in Nat
BY NextOccurrenceType DEF NextAfterClaim

LEMMA NormalizedType ==
  ASSUME NEW def \in Definition
  PROVE  Normalized(def) \in Definition
BY DEF Normalized, Definition

\* A record that differs from a task in well-typed fields is a task.
LEMMA CreatedType ==
  ASSUME NEW def \in Definition, NEW at \in Nat, NEW byAgent \in BOOLEAN
  PROVE  /\ Created(def, at, byAgent) \in Task
         /\ Created(def, at, byAgent).active = NoRun
         /\ Created(def, at, byAgent).status \notin Gone
<1>1. NextOccurrence(def, at) \in Nat BY NextOccurrenceType
<1> QED BY <1>1 DEF Created, Task, Status, Gone

LEMMA UnclaimedType ==
  ASSUME NEW k \in Task
  PROVE  Releases(k, Unclaimed(k))
BY DEF Releases, Survives, Unclaimed, Task

LEMMA DisarmedType ==
  ASSUME NEW k \in Task, NEW status \in Status \ Gone
  PROVE  Succeeds(k, Disarmed(k, status))
BY DEF Succeeds, Survives, Disarmed, Unqueued, Task

LEMMA SucceedsTrans ==
  ASSUME NEW k, NEW m, NEW n, Succeeds(k, m), Succeeds(m, n)
  PROVE  Succeeds(k, n)
BY DEF Succeeds, Survives

LEMMA CompletedType ==
  ASSUME NEW k \in Task
  PROVE  Succeeds(k, Completed(k))
BY DisarmedType DEF Completed, Status, Gone

LEMMA ExhaustedType ==
  ASSUME NEW k \in Task
  PROVE  Succeeds(k, Exhausted(k))
BY DisarmedType DEF Exhausted, Status, Gone

LEMMA AuthPausedType ==
  ASSUME NEW k \in Task
  PROVE  Succeeds(k, AuthPaused(k))
BY DisarmedType DEF AuthPaused, Status, Gone

LEMMA DeferredType ==
  ASSUME NEW k \in Task, NEW at \in Nat
  PROVE  Succeeds(k, Deferred(k, at))
<1>1. at + BusyRetry \in Nat BY ScheduleTaskAssumption
<1> QED BY <1>1 DEF Deferred, Succeeds, Survives, Task

LEMMA EarliestType ==
  ASSUME NEW k \in Task
  PROVE  Earliest(k) \in Nat
BY ScheduleTaskAssumption DEF Earliest, Task

LEMMA FloorDeferredType ==
  ASSUME NEW k \in Task, NEW earliest \in Nat
  PROVE  Succeeds(k, FloorDeferred(k, earliest))
<1>1. Succeeds(k, [k EXCEPT !.retryAt = earliest]) BY DEF Succeeds, Survives, Task
<1>2. Succeeds(k, [k EXCEPT !.nextAt = earliest]) BY DEF Succeeds, Survives, Task
<1>3. Succeeds(k, k) BY DEF Succeeds, Survives
<1> QED BY <1>1, <1>2, <1>3 DEF FloorDeferred

LEMMA SkippedType ==
  ASSUME NEW k \in Task, NEW at \in Nat
  PROVE  Succeeds(k, Skipped(k, at))
<1> DEFINE new == [k EXCEPT !.runCount = @ + 1, !.lastAt = at]
<1>1. k.runCount + 1 \in Nat BY DEF Task
<1>2. Succeeds(k, new) BY <1>1 DEF Succeeds, Survives, Task
<1>3. new \in Task BY <1>2 DEF Succeeds, Survives
<1>4. Succeeds(new, [new EXCEPT !.enabled = FALSE, !.status = "exhausted", !.nextAt = 0])
 BY <1>3 DEF Succeeds, Survives, Task, Status, Gone
<1>5. Succeeds(new, [new EXCEPT !.status = "active"]) BY <1>3 DEF Succeeds, Survives, Task, Status, Gone
<1>6. [new EXCEPT !.status = IF k.active = NoRun THEN "active" ELSE @]
        \in {[new EXCEPT !.status = "active"], new}
 BY <1>3 DEF Task
<1>7. Succeeds(new, Skipped(k, at)) BY <1>3, <1>4, <1>5, <1>6 DEF Skipped, Succeeds, Survives
<1> QED BY <1>2, <1>7, SucceedsTrans

LEMMA OverlappedType ==
  ASSUME NEW k \in Task, NEW at \in Nat, NEW force \in BOOLEAN
  PROVE  Succeeds(k, Overlapped(k, at, force))
<1> DEFINE due == IF force THEN k ELSE [k EXCEPT !.nextAt = NextAfterClaim(k.def, at)]
<1>1. NextAfterClaim(k.def, at) \in Nat BY NextAfterClaimType DEF Task
<1>2. Succeeds(k, due) BY <1>1 DEF Succeeds, Survives, Task
<1>3. due \in Task BY <1>2 DEF Succeeds, Survives
<1>4. Succeeds(due, [due EXCEPT !.pending = TRUE, !.pendingForced = @ \/ force]) BY <1>3 DEF Succeeds, Survives, Task
<1>5. Succeeds(due, Skipped(due, at)) BY <1>3, SkippedType
<1>6. Succeeds(k, k) BY DEF Succeeds, Survives
<1> QED BY <1>2, <1>4, <1>5, <1>6, SucceedsTrans DEF Overlapped

\* The one transformation that adds a claim.
LEMMA ClaimedType ==
  ASSUME NEW k \in Task, NEW at \in Nat, NEW force \in BOOLEAN,
         NEW queued \in BOOLEAN, NEW run \in RunIds
  PROVE  /\ Claimed(k, at, force, queued, run) \in Task
         /\ Claimed(k, at, force, queued, run).active = run
         /\ k.status \notin Gone => Claimed(k, at, force, queued, run).status \notin Gone
<1>1. NextAfterClaim(k.def, at) \in Nat BY NextAfterClaimType DEF Task
<1>2. k.runCount + 1 \in Nat BY DEF Task
<1> QED BY <1>1, <1>2 DEF Claimed, Unqueued, Task, Status, Gone

LEMMA FinishedType ==
  ASSUME NEW k \in Task, NEW result
  PROVE  Releases(k, Finished(k, result))
<1> DEFINE free == Unclaimed(k)
<1>1. Releases(k, free) /\ free \in Task BY UnclaimedType DEF Releases, Survives
<1>2. \A status \in Status \ Gone : Succeeds(free, Disarmed(free, status)) BY <1>1, DisarmedType
<1>3. \A status \in Status \ Gone : Succeeds(free, [free EXCEPT !.status = status])
 BY <1>1 DEF Succeeds, Survives, Task, Status, Gone
<1>4. Succeeds(free, [free EXCEPT !.status = IF @ = "running" THEN "paused" ELSE @])
 BY <1>1 DEF Succeeds, Survives, Task, Status, Gone
<1>5. {"completed", "error", "exhausted", "active"} \subseteq Status \ Gone BY DEF Status, Gone
<1>6. Succeeds(free, Finished(k, result)) BY <1>2, <1>3, <1>4, <1>5 DEF Finished
<1> QED BY <1>1, <1>6 DEF Succeeds, Releases, Survives

LEMMA RequeuedType ==
  ASSUME NEW k \in Task, NEW at \in Nat
  PROVE  Releases(k, Requeued(k, at))
<1>1. at + BusyRetry \in Nat BY ScheduleTaskAssumption
<1>2. (IF k.runCount > 0 THEN k.runCount - 1 ELSE 0) \in Nat BY DEF Task
<1> QED BY <1>1, <1>2 DEF Releases, Survives, Requeued, Unclaimed, Task, Status, Gone

LEMMA RecoveredType ==
  ASSUME NEW k \in Task
  PROVE  Releases(k, Recovered(k))
BY DEF Releases, Survives, Recovered, Unclaimed, Task, Status, Gone

LEMMA CappedType ==
  ASSUME NEW k \in Task
  PROVE  Succeeds(k, Capped(k))
<1> DEFINE new == [Unqueued(k) EXCEPT !.enabled = FALSE, !.status = "exhausted"]
<1>1. Succeeds(k, new) BY DEF Succeeds, Survives, Unqueued, Task, Status, Gone
<1>2. Succeeds(k, k) BY DEF Succeeds, Survives
<1>3. CASE Spent(k) BY <1>1, <1>3 DEF Capped
<1>4. CASE ~Spent(k) BY <1>2, <1>4 DEF Capped
<1> QED BY <1>3, <1>4

LEMMA UpdatedType ==
  ASSUME NEW k \in Task, NEW def \in Definition, NEW at \in Nat,
         NEW switch \in {"keep", "arm", "pause"}
  PROVE  Succeeds(k, Updated(k, def, switch, at))
<1>1. Succeeds(k, Switched(k, def, switch)) BY DEF Succeeds, Survives, Switched, Unqueued, Task, Status, Gone
<1>2. \A m \in Task : Succeeds(m, Capped(m)) BY CappedType
<1> DEFINE new == Capped(Switched(k, def, switch))
<1>3. Succeeds(k, new) /\ new \in Task BY <1>1, <1>2, SucceedsTrans DEF Succeeds, Survives
<1>4. NextOccurrence(def, at) \in Nat BY NextOccurrenceType
<1>5. Succeeds(new, [Unqueued(new) EXCEPT !.nextAt = NextOccurrence(def, at)])
 BY <1>3, <1>4 DEF Succeeds, Survives, Unqueued, Task
<1> QED BY <1>3, <1>5, SucceedsTrans DEF Updated

USE DEF Gone

----
\* Type correctness.

LEMMA NoTaskType == NoTask \in TaskIds
BY SchedulerAssumption DEF NoTask

LEMMA BlankType ==
  ASSUME NEW status \in Status
  PROVE  /\ Blank(status) \in Task
         /\ Blank(status).active = NoRun
         /\ Blank(status).status = status
<1>1. Definition0 \in Definition BY DEF Definition0, Definition
<1>2. Created(Definition0, 0, TRUE) \in Task /\ Created(Definition0, 0, TRUE).active = NoRun BY <1>1, CreatedType
<1> QED BY <1>2 DEF Blank, Task

LEMMA NoJobType == NoJob \in Job /\ NoJob.run = NoRun /\ NoJob.at = 0
<1>1. Blank("absent") \in Task BY BlankType DEF Status
<1> QED BY <1>1, NoTaskType DEF NoJob, Job, Plans

LEMMA SaveType ==
  ASSUME tasks \in [TaskIds -> Task], NEW t \in TaskIds, NEW k, NEW saved \in BOOLEAN,
         Save(t, k, saved), saved => k \in Task
  PROVE  tasks' \in [TaskIds -> Task]
BY DEF Save

LEMMA SaveOutcomesType == SaveOutcomes \subseteq BOOLEAN
BY DEF SaveOutcomes

LEMMA DueAtType ==
  ASSUME NEW k \in Task
  PROVE  DueAt(k) \in Nat
BY DEF DueAt, Task

LEMMA WakeAtType ==
  ASSUME NEW k \in Task, NEW at \in Nat
  PROVE  WakeAt(k, at) \in Nat
BY DEF WakeAt, Task

LEMMA InitType == Init => TypeOK
<1> SUFFICES ASSUME Init PROVE TypeOK OBVIOUS
<1>1. Loaded \subseteq Task
 <2>1. Blank("absent") \in Task BY BlankType DEF Status
 <2>2. ASSUME NEW def \in OnDisk
       PROVE  Created(Normalized(def), 0, FALSE) \in Task
  BY SchedulerAssumption, NormalizedType, CreatedType
 <2> QED BY <2>1, <2>2 DEF Loaded
<1>2. tasks \in [TaskIds -> Task] BY <1>1 DEF Init
<1> QED
 BY <1>2, NoJobType, NoTaskType, SchedulerAssumption
 DEF Init, TypeOK, Callers, Locations, Stages, NoFlight, ClaimSteps

----
\* One lemma per action: a step keeps every variable in its type.

LEMMA LoopListType == TypeOK /\ LoopList => TypeOK'
<1> SUFFICES ASSUME TypeOK, LoopList PROVE TypeOK' OBVIOUS
<1>1. todo' \subseteq [task : TaskIds, due : Nat] BY DueAtType DEF LoopList, TypeOK, Store
<1> QED BY <1>1 DEF LoopList, TypeOK, Goto, Locations, ClaimSteps

LEMMA LoopVisitType ==
  ASSUME TypeOK, NEW v \in todo, LoopVisit(v)
  PROVE  TypeOK'
<1>1. v.task \in TaskIds /\ tasks[v.task] \in Task BY DEF TypeOK
<1>2. AuthPaused(tasks[v.task]) \in Task /\ Deferred(tasks[v.task], now) \in Task
 BY <1>1, AuthPausedType, DeferredType DEF TypeOK, Succeeds, Survives
<1>3. tasks' \in [TaskIds -> Task] BY <1>1, <1>2, SaveType, SaveOutcomesType DEF LoopVisit, TypeOK, Save
<1> DEFINE new == [NoJob EXCEPT !.task = v.task, !.at = passAt]
<1>a. new \in Job BY <1>1, NoJobType DEF TypeOK, Job
<1>b. job' = job \/ job' = [job EXCEPT ![Loop] = new] BY DEF LoopVisit
<1>4. job' \in [Callers -> Job] BY <1>a, <1>b DEF TypeOK, Callers
<1>5. pc' \in [Callers -> Locations] /\ failed' \in BOOLEAN BY DEF LoopVisit, TypeOK, Goto, Locations
<1> QED BY <1>3, <1>4, <1>5 DEF LoopVisit, TypeOK

LEMMA LoopDelayType == TypeOK /\ LoopDelay => TypeOK'
<1> SUFFICES ASSUME TypeOK, LoopDelay PROVE TypeOK' OBVIOUS
<1>1. Asks \subseteq Nat BY WakeAtType DEF TypeOK, Store, Asks
<1>2. PICK next \in Nat : sleepUntil' = Timer(next) BY <1>1 DEF LoopDelay, Soonest
<1>3. now \in Nat /\ now + BusyRetry \in Nat BY ScheduleTaskAssumption DEF TypeOK
<1>4. sleepUntil' \in Nat BY <1>2, <1>3 DEF Timer
<1> QED BY <1>4 DEF LoopDelay, TypeOK, Goto, Locations

LEMMA LoopWakeType ==
  ASSUME TypeOK, LoopWoken \/ LoopTimer
  PROVE  TypeOK'
<1>1. CASE LoopWoken BY <1>1 DEF LoopWoken, TypeOK, Goto, Locations
<1>2. CASE LoopTimer BY <1>2 DEF LoopTimer, TypeOK, Goto, Locations
<1> QED BY <1>1, <1>2

LEMMA LeaveType ==
  ASSUME TypeOK, NEW c \in Callers, NEW error \in BOOLEAN, Leave(c, error)
  PROVE  /\ pc' \in [Callers -> Locations]
         /\ job' \in [Callers -> Job]
         /\ failed' \in BOOLEAN
BY NoJobType DEF Leave, Goto, Back, TypeOK, Locations

LEMMA ClaimGetType ==
  ASSUME TypeOK, NEW c \in Callers, ClaimGet(c)
  PROVE  TypeOK'
<1> DEFINE t == job[c].task
            k == tasks[t]
            force == job[c].force \/ k.pendingForced
            plan == IF ~force /\ Spent(k) THEN "exhaust"
                    ELSE IF ~force /\ TooSoon(k, job[c].at) THEN "floor" ELSE "none"
            new == [job[c] EXCEPT !.force = force, !.snap = k, !.plan = plan]
<1>1. job[c] \in Job /\ t \in TaskIds /\ k \in Task BY DEF TypeOK, Job
<1>2. force \in BOOLEAN /\ plan \in Plans BY <1>1 DEF Job, Task, Plans
<1>3. new \in Job BY <1>1, <1>2 DEF Job
<1>4. \/ /\ job' = [job EXCEPT ![c] = new] /\ lock' = c /\ UNCHANGED failed
         /\ Goto(c, IF plan = "none" THEN "scan" ELSE "commit")
      \/ (\E error \in BOOLEAN : Leave(c, error)) /\ UNCHANGED lock
 BY DEF ClaimGet
<1>5. /\ job' \in [Callers -> Job] /\ lock' \in Callers \cup {Nobody}
      /\ pc' \in [Callers -> Locations] /\ failed' \in BOOLEAN
 BY <1>3, <1>4, LeaveType DEF TypeOK, Goto, Locations, ClaimSteps
<1> QED BY <1>5 DEF ClaimGet, TypeOK
LEMMA ClaimScanType ==
  ASSUME TypeOK, NEW c \in Callers, ClaimScan(c)
  PROVE  TypeOK'
<1>1. PICK plan \in Plans, run \in RunIds \cup {NoRun} :
        job' = [job EXCEPT ![c] = [@ EXCEPT !.plan = plan, !.run = run]]
 <2>1. CASE job' = [job EXCEPT ![c].plan = "overlap"]
  <3>1. job[c] \in Job BY DEF TypeOK
  <3>2. [job[c] EXCEPT !.plan = "overlap"]
          = [job[c] EXCEPT !.plan = "overlap", !.run = job[c].run]
   BY <3>1 DEF Job
  <3> QED BY <2>1, <3>1, <3>2 DEF Plans, Job
 <2>2. CASE \E r \in RunIds \ Held :
              job' = [job EXCEPT ![c] = [@ EXCEPT !.plan = "start", !.run = r]]
  BY <2>2 DEF Plans
 <2> QED BY <2>1, <2>2 DEF ClaimScan
<1>a. job[c] \in Job BY DEF TypeOK
<1>2. [job[c] EXCEPT !.plan = plan, !.run = run] \in Job BY <1>a DEF Job
<1>3. job' \in [Callers -> Job] BY <1>1, <1>2 DEF TypeOK
<1>4. pc' \in [Callers -> Locations] BY DEF ClaimScan, Goto, TypeOK, Locations, ClaimSteps
<1> QED BY <1>3, <1>4 DEF ClaimScan, TypeOK, loopVars

\* Whatever branch claim chose, the record it commits is a task.
LEMMA ClaimedByType ==
  ASSUME TypeOK, NEW c \in Callers,
         job[c].plan = "start" => job[c].run # NoRun
  PROVE  /\ ClaimedBy(c) \in Task
         /\ tasks[job[c].task].status \notin Gone => ClaimedBy(c).status \notin Gone
         /\ \/ ClaimedBy(c).active = tasks[job[c].task].active
            \/ /\ ClaimedBy(c).active = job[c].run
               /\ job[c].plan = "start"
               /\ Claimable(tasks[job[c].task], job[c].at, job[c].force)
<1> DEFINE j == job[c]
            k == tasks[j.task]
<1>1. j \in Job /\ k \in Task BY DEF TypeOK, Job
<1>2. /\ Succeeds(k, Exhausted(k))
      /\ Succeeds(k, FloorDeferred(k, Earliest(j.snap)))
      /\ Succeeds(k, Overlapped(k, j.at, j.force))
 BY <1>1, ExhaustedType, EarliestType, FloorDeferredType, OverlappedType DEF Job
<1>3. CASE j.plan = "start" /\ Claimable(k, j.at, j.force)
 <2>1. ClaimedBy(c) = Claimed(k, j.at, j.force, j.snap.pending, j.run) BY <1>3 DEF ClaimedBy
 <2>2. j.run \in RunIds /\ j.snap.pending \in BOOLEAN /\ j.at \in Nat /\ j.force \in BOOLEAN BY <1>1, <1>3 DEF Job, Task
 <2> QED BY <1>1, <1>3, <2>1, <2>2, ClaimedType
<1>4. CASE ~(j.plan = "start" /\ Claimable(k, j.at, j.force))
 <2>1. ClaimedBy(c) \in {Exhausted(k), FloorDeferred(k, Earliest(j.snap)),
                         Overlapped(k, j.at, j.force), k}
  BY <1>4 DEF ClaimedBy
 <2>2. Succeeds(k, k) BY <1>1 DEF Succeeds, Survives
 <2> QED BY <1>2, <2>1, <2>2 DEF Succeeds, Survives
<1> QED BY <1>3, <1>4

LEMMA ClaimCommitType ==
  ASSUME TypeOK, NEW c \in Callers, ClaimCommit(c),
         job[c].plan = "start" => job[c].run # NoRun
  PROVE  TypeOK'
<1>1. ClaimedBy(c) \in Task /\ job[c].task \in TaskIds BY ClaimedByType DEF TypeOK, Job
<1>2. tasks' \in [TaskIds -> Task] BY <1>1, SaveOutcomesType DEF ClaimCommit, Save, TypeOK
<1>3. \/ job' = [job EXCEPT ![c].snap = ClaimedBy(c)] /\ Goto(c, "dispatch") /\ UNCHANGED failed
      \/ \E error \in BOOLEAN : Leave(c, error)
 BY DEF ClaimCommit
<1>4. [job[c] EXCEPT !.snap = ClaimedBy(c)] \in Job BY <1>1 DEF TypeOK, Job
<1>5. /\ job' \in [Callers -> Job] /\ pc' \in [Callers -> Locations]
      /\ failed' \in BOOLEAN
 BY <1>3, <1>4, LeaveType DEF TypeOK, Goto, Locations
<1> QED BY <1>2, <1>5 DEF ClaimCommit, TypeOK

LEMMA DispatchType ==
  ASSUME TypeOK, NEW c \in Callers, Dispatch(c), job[c].run # NoRun
  PROVE  TypeOK'
<1>1. job[c].run \in RunIds /\ job[c].task \in TaskIds BY DEF TypeOK, Job
<1>2. /\ job' \in [Callers -> Job] /\ pc' \in [Callers -> Locations]
      /\ failed' \in BOOLEAN
 BY LeaveType DEF Dispatch, TypeOK, Goto, Locations
<1>3. /\ hub' \in [Chats -> RunIds \cup {Free, User}]
      /\ flight' \in [RunIds -> [stage : Stages, task : TaskIds]]
 <2>1. CASE /\ hub' = [hub EXCEPT ![ChatOf[job[c].task]] = job[c].run]
            /\ flight' = [flight EXCEPT ![job[c].run] =
                            [stage |-> "going", task |-> job[c].task]]
  BY <1>1, <2>1 DEF TypeOK, Stages
 <2>2. CASE UNCHANGED <<hub, flight>> BY <2>2 DEF TypeOK
 <2> QED BY <2>1, <2>2 DEF Dispatch
<1> QED BY <1>2, <1>3 DEF Dispatch, TypeOK

LEMMA SettleType ==
  ASSUME TypeOK, NEW c \in Callers, Settle(c)
  PROVE  TypeOK'
<1>1. job[c].task \in TaskIds /\ tasks[job[c].task] \in Task BY DEF TypeOK, Job
<1>2. /\ Requeued(tasks[job[c].task], now) \in Task
      /\ Finished(tasks[job[c].task], "error") \in Task
 BY <1>1, RequeuedType, FinishedType DEF TypeOK, Releases, Survives
<1>3. tasks' \in [TaskIds -> Task] /\ wake' \in BOOLEAN BY <1>1, <1>2, SaveOutcomesType DEF Settle, Save, Notify, TypeOK
<1>4. /\ job' \in [Callers -> Job] /\ pc' \in [Callers -> Locations]
      /\ failed' \in BOOLEAN
 BY LeaveType, SaveOutcomesType DEF Settle
<1> QED BY <1>3, <1>4 DEF Settle, TypeOK

LEMMA RunStepType ==
  ASSUME TypeOK, NEW r \in RunIds, RunStep(r)
  PROVE  TypeOK'
<1>1. flight[r].task \in TaskIds /\ tasks[flight[r].task] \in Task BY DEF TypeOK
<1>2. CASE RunEnds(r) BY <1>2 DEF RunEnds, TypeOK, Stages, loopVars
<1>3. CASE Finish(r)
 <2>1. Finished(tasks[flight[r].task], flight[r].stage) \in Task BY <1>1, FinishedType DEF Releases, Survives
 <2>2. tasks' \in [TaskIds -> Task] /\ wake' \in BOOLEAN BY <1>1, <1>3, <2>1, SaveOutcomesType DEF Finish, Save, Notify, TypeOK
 <2>3. flight' \in [RunIds -> [stage : Stages, task : TaskIds]] BY <1>3, NoTaskType DEF Finish, TypeOK, NoFlight, Stages
 <2> QED BY <1>3, <2>2, <2>3 DEF Finish, TypeOK, loopVars
<1>4. CASE CompleteClaim(r)
 <2>1. Completed(tasks[flight[r].task]) \in Task BY <1>1, CompletedType DEF Succeeds, Survives
 <2>2. tasks' \in [TaskIds -> Task] /\ wake' \in BOOLEAN
  BY <1>1, <1>4, <2>1, SaveOutcomesType DEF CompleteClaim, Save, Notify, TypeOK
 <2> QED BY <1>4, <2>2 DEF CompleteClaim, TypeOK, loopVars
<1> QED BY <1>2, <1>3, <1>4 DEF RunStep

LEMMA ClientStepType ==
  ASSUME TypeOK, NEW c \in Clients, ClientStep(c)
  PROVE  TypeOK'
<1>0. c \in Callers BY DEF Callers
<1>1. ASSUME NEW t \in TaskIds, CreateCheck(c, t)
      PROVE  TypeOK'
 <2>1. PICK def \in Definitions, byAgent \in IF "agentCreate" \in Ops THEN BOOLEAN ELSE {FALSE} :
         job' = [job EXCEPT ![c] = [NoJob EXCEPT
                   !.task = t, !.snap = Created(Normalized(def), now, byAgent)]]
  BY <1>1 DEF CreateCheck
 <2>0. byAgent \in BOOLEAN OBVIOUS
 <2>2. Created(Normalized(def), now, byAgent) \in Task BY <2>0, SchedulerAssumption, NormalizedType, CreatedType DEF TypeOK
 <2>3. [NoJob EXCEPT !.task = t, !.snap = Created(Normalized(def), now, byAgent)] \in Job BY <2>2, NoJobType DEF Job
 <2>4. job' \in [Callers -> Job] /\ pc' \in [Callers -> Locations]
  BY <1>0, <1>1, <2>1, <2>3 DEF CreateCheck, Goto, TypeOK, Locations
 <2> QED BY <1>1, <2>4 DEF CreateCheck, Requested, TypeOK, loopVars
<1>2. ASSUME NEW t \in TaskIds, RunNow(c, t)
      PROVE  TypeOK'
 <2>1. [NoJob EXCEPT !.task = t, !.force = TRUE, !.at = now] \in Job BY NoJobType DEF Job, TypeOK
 <2>2. job' \in [Callers -> Job] /\ pc' \in [Callers -> Locations] BY <1>0, <1>2, <2>1 DEF RunNow, Goto, TypeOK, Locations
 <2>3. tasks[t] \in Task BY DEF TypeOK
 <2>4. AuthPaused(tasks[t]) \in Task BY <2>3, AuthPausedType DEF Succeeds, Survives
 <2>5. tasks' \in [TaskIds -> Task] BY <1>2, <2>4, SaveOutcomesType DEF RunNow, Save, TypeOK
 <2> QED BY <1>2, <2>2, <2>5 DEF RunNow, Requested, TypeOK, loopVars
<1>3. CASE CreateCommit(c)
 <2>1. job[c].task \in TaskIds /\ job[c].snap \in Task BY <1>0 DEF TypeOK, Job
 <2>2. tasks' \in [TaskIds -> Task] /\ wake' \in BOOLEAN BY <1>3, <2>1, SaveOutcomesType DEF CreateCommit, Save, Notify, TypeOK
 <2>3. /\ job' \in [Callers -> Job] /\ pc' \in [Callers -> Locations]
       /\ failed' \in BOOLEAN
  BY <1>0, <1>3, LeaveType DEF CreateCommit
 <2> QED BY <1>3, <2>2, <2>3 DEF CreateCommit, TypeOK
<1> QED BY <1>1, <1>2, <1>3 DEF ClientStep

LEMMA TaskStepType ==
  ASSUME TypeOK, NEW t \in TaskIds, TaskStep(t)
  PROVE  TypeOK'
<1> DEFINE k == tasks[t]
<1>1. k \in Task /\ now \in Nat BY DEF TypeOK
<1>2. ASSUME NEW n \in Task, NEW saved \in BOOLEAN, Save(t, n, saved), Notify(saved)
      PROVE  tasks' \in [TaskIds -> Task] /\ wake' \in BOOLEAN
 BY <1>2 DEF Save, Notify, TypeOK
<1>3. CASE Update(t)
 <2>1. PICK def \in Definitions \cup {k.def}, switch \in {"keep", "arm", "pause"},
            saved \in SaveOutcomes :
         Save(t, Updated(k, Normalized(def), switch, now), saved) /\ Notify(saved)
  BY <1>3 DEF Update
 <2>2. def \in Definition BY <1>1, SchedulerAssumption DEF Task
 <2>3. Updated(k, Normalized(def), switch, now) \in Task BY <1>1, <2>2, NormalizedType, UpdatedType DEF Succeeds, Survives
 <2>4. tasks' \in [TaskIds -> Task] /\ wake' \in BOOLEAN BY <1>2, <2>1, <2>3, SaveOutcomesType
 <2> QED BY <1>3, <2>4 DEF Update, Requested, TypeOK, loopVars
<1>4. CASE Delete(t)
 <2>1. Blank("deleted") \in Task BY BlankType DEF Status
 <2>2. tasks' \in [TaskIds -> Task] /\ wake' \in BOOLEAN BY <1>2, <1>4, <2>1, SaveOutcomesType DEF Delete
 <2> QED BY <1>4, <2>2 DEF Delete, Requested, TypeOK, loopVars
<1>5. CASE Complete(t)
 <2>1. Completed(k) \in Task BY <1>1, CompletedType DEF Succeeds, Survives
 <2>2. tasks' \in [TaskIds -> Task] /\ wake' \in BOOLEAN BY <1>2, <1>5, <2>1, SaveOutcomesType DEF Complete
 <2> QED BY <1>5, <2>2 DEF Complete, Requested, TypeOK, loopVars
<1>6. CASE Recover(t)
 <2>1. Recovered(k) \in Task BY <1>1, RecoveredType DEF Releases, Survives
 <2> QED BY <1>6, <2>1 DEF Recover, TypeOK, loopVars
<1> QED BY <1>3, <1>4, <1>5, <1>6 DEF TaskStep

LEMMA ChatStepType ==
  ASSUME TypeOK, NEW ch \in Chats, ChatStep(ch)
  PROVE  TypeOK'
<1>1. CASE HubRelease(ch) BY <1>1 DEF HubRelease, TypeOK, loopVars
<1>2. CASE UserPrompt(ch) BY <1>2 DEF UserPrompt, TypeOK, loopVars
<1>3. CASE UserDone(ch) BY <1>3 DEF UserDone, TypeOK, loopVars
<1> QED BY <1>1, <1>2, <1>3 DEF ChatStep

LEMMA ProcessStepType ==
  ASSUME TypeOK, Tick \/ Crash \/ Start
  PROVE  TypeOK'
<1>1. CASE Tick BY <1>1 DEF Tick, TypeOK, loopVars
<1>2. CASE Crash
 <2>1. /\ job' \in [Callers -> Job] /\ flight' \in [RunIds -> [stage : Stages, task : TaskIds]]
       /\ pc' \in [Callers -> Locations]
  BY <1>2, NoJobType, NoTaskType DEF Crash, NoFlight, Stages, Locations
 <2>2. budget' \in Nat BY <1>2 DEF Crash, Requested, TypeOK
 <2> QED BY <1>2, <2>1, <2>2 DEF Crash, TypeOK
<1>3. CASE Start BY <1>3 DEF Start, TypeOK, loopVars
<1> QED BY <1>1, <1>2, <1>3

----
\* The claim protocol.  CoreInv is the part of ClaimInvariant that speaks of
\* claims; the clock and the state of a process that is down come on their own.
CoreInv ==
  /\ LockHeld /\ GoneIsIdle /\ RunIdsUnique /\ StartPlanned /\ GrantHeld
  /\ FlightHeld /\ CreationsDistinct /\ OneClaimPerChat /\ RunHoldsClaim

\* No task gains or loses a claim, is deleted or is created.
TasksKeep ==
  \A u \in TaskIds :
    /\ tasks'[u].active = tasks[u].active
    /\ Stored(u) => tasks'[u].status \notin Gone
    /\ ~Stored(u) => tasks'[u] = tasks[u]

LEMMA SaveKeeps ==
  ASSUME TypeOK, NEW t \in TaskIds, NEW n, NEW saved \in BOOLEAN,
         Save(t, n, saved), saved => Stored(t) /\ Succeeds(tasks[t], n)
  PROVE  TasksKeep
BY DEF TasksKeep, Save, Stored, TypeOK, Succeeds, Survives

LEMMA TypeFacts ==
  ASSUME TypeOK
  PROVE  /\ \A c \in Callers : /\ job[c].run \in RunIds \cup {NoRun}
                               /\ job[c].task \in TaskIds /\ job[c].snap \in Task
                               /\ job[c].at \in Nat
         /\ \A t \in TaskIds : tasks[t] \in Task /\ tasks[t].active \in RunIds \cup {NoRun}
         /\ \A r \in RunIds : flight[r].task \in TaskIds
         /\ Clients \subseteq Callers /\ Loop \in Callers /\ Loop \notin Clients
         /\ Nobody \notin Callers
         /\ NoRun \notin RunIds /\ Free \notin RunIds /\ User \notin RunIds
BY SchedulerAssumption, ScheduleTaskAssumption DEF TypeOK, Job, Task, Callers

\* A caller that neither holds a run id nor claimMu after the step disturbs
\* nothing.
LEMMA MoveKeeps ==
  ASSUME TypeOK, CoreInv, TasksKeep, UNCHANGED <<hub, flight>>,
         NEW c \in Callers,
         NEW loc \in Locations \ {"scan", "commit", "dispatch", "settle", "create"},
         NEW j, j.run = NoRun,
         pc' = [pc EXCEPT ![c] = loc], job' = [job EXCEPT ![c] = j],
         lock' = lock \/ (lock = c /\ lock' = Nobody)
  PROVE  CoreInv'
<1> USE TypeFacts DEF TypeOK
<1>1. LockHeld' BY DEF CoreInv, LockHeld, ClaimSteps
<1>2. GoneIsIdle' BY DEF CoreInv, TasksKeep, GoneIsIdle, Stored
<1>3. RunIdsUnique' BY DEF CoreInv, TasksKeep, RunIdsUnique
<1>4. StartPlanned' BY DEF CoreInv, TasksKeep, StartPlanned
<1>5. GrantHeld' BY DEF CoreInv, TasksKeep, GrantHeld, Stored
<1>6. FlightHeld' BY DEF CoreInv, TasksKeep, FlightHeld, Stored
<1>7. CreationsDistinct' BY DEF CoreInv, TasksKeep, CreationsDistinct, Stored
<1>8. OneClaimPerChat' BY DEF CoreInv, TasksKeep, OneClaimPerChat
<1>9. RunHoldsClaim' BY DEF CoreInv, TasksKeep, RunHoldsClaim, Stored
<1> QED BY <1>1, <1>2, <1>3, <1>4, <1>5, <1>6, <1>7, <1>8, <1>9 DEF CoreInv

\* An edit of tasks, or a release of rooms, that happens beside every caller.
LEMMA EditKeeps ==
  ASSUME TypeOK, CoreInv, TasksKeep, UNCHANGED <<lock, pc, job, flight>>,
         \A ch \in Chats : hub'[ch] = hub[ch] \/ hub'[ch] \notin RunIds
  PROVE  CoreInv'
<1> USE TypeFacts DEF TypeOK
<1>1. LockHeld' /\ GoneIsIdle' BY DEF CoreInv, TasksKeep, LockHeld, GoneIsIdle, Stored
<1>2. RunIdsUnique' BY DEF CoreInv, TasksKeep, RunIdsUnique
<1>a. StartPlanned' BY DEF CoreInv, TasksKeep, StartPlanned
<1>b. OneClaimPerChat' BY DEF CoreInv, TasksKeep, OneClaimPerChat
<1>3. StartPlanned' /\ OneClaimPerChat' BY <1>a, <1>b
<1>4. GrantHeld'
 <2>1. ASSUME NEW c \in Callers, pc[c] \in {"dispatch", "settle"}
       PROVE  /\ job[c].run # NoRun
              /\ tasks'[job[c].task].status # "absent"
              /\ Stored(job[c].task)' => tasks'[job[c].task].active = job[c].run
  <3>1. job[c].task \in TaskIds BY DEF Job
  <3>2. /\ job[c].run # NoRun
        /\ tasks[job[c].task].status # "absent"
        /\ Stored(job[c].task) => tasks[job[c].task].active = job[c].run
   BY <2>1 DEF CoreInv, GrantHeld
  <3> QED BY <3>1, <3>2 DEF TasksKeep, Stored
 <2> QED BY <2>1 DEF GrantHeld
<1>5. FlightHeld' /\ RunHoldsClaim' BY DEF CoreInv, TasksKeep, FlightHeld, RunHoldsClaim, Stored
<1>6. CreationsDistinct' BY DEF CoreInv, TasksKeep, CreationsDistinct, Stored
<1> QED BY <1>1, <1>2, <1>3, <1>4, <1>5, <1>6 DEF CoreInv

----
\* The loop.
LEMMA LoopStepCore ==
  ASSUME TypeOK, CoreInv, LoopStep
  PROVE  CoreInv'
<1> USE TypeFacts
<1>1. ASSUME LoopList \/ LoopDelay \/ LoopWoken \/ LoopTimer
      PROVE  CoreInv'
 <2>1. pc[Loop] \in {"list", "visit", "asleep"} BY <1>1 DEF LoopList, LoopDelay, LoopWoken, LoopTimer
 <2>2. job[Loop].run = NoRun BY <2>1 DEF CoreInv, RunIdsUnique
 <2>3. PICK loc \in {"list", "visit", "asleep"} : pc' = [pc EXCEPT ![Loop] = loc]
  BY <1>1 DEF LoopList, LoopDelay, LoopWoken, LoopTimer, Goto
 <2>4. UNCHANGED <<tasks, job, lock, hub, flight>> BY <1>1 DEF LoopList, LoopDelay, LoopWoken, LoopTimer
 <2>5. job' = [job EXCEPT ![Loop] = job[Loop]] BY <2>4 DEF TypeOK
 <2>6. TasksKeep BY <2>4 DEF TasksKeep, Stored
 <2> QED BY <2>2, <2>3, <2>4, <2>5, <2>6, MoveKeeps DEF Locations
<1>2. ASSUME NEW v \in todo, LoopVisit(v)
      PROVE  CoreInv'
 <2>1. v.task \in TaskIds /\ tasks[v.task] \in Task /\ now \in Nat BY DEF TypeOK
 <2>2. CASE /\ job' = [job EXCEPT ![Loop] = [NoJob EXCEPT !.task = v.task, !.at = passAt]]
            /\ Goto(Loop, "claim") /\ UNCHANGED tasks
  <3>1. [NoJob EXCEPT !.task = v.task, !.at = passAt].run = NoRun BY NoJobType DEF Job
  <3>2. TasksKeep BY <2>2 DEF TasksKeep, Stored
  <3>3. UNCHANGED <<hub, flight, lock>> BY <1>2 DEF LoopVisit
  <3>4. pc' = [pc EXCEPT ![Loop] = "claim"] BY <2>2 DEF Goto
  <3> QED BY <2>2, <3>1, <3>2, <3>3, <3>4, MoveKeeps DEF Locations
 <2>3. CASE /\ \E outcome \in AuthOutcomes \ {"ok"}, saved \in SaveOutcomes :
                 Save(v.task, IF outcome = "denied" THEN AuthPaused(tasks[v.task])
                              ELSE Deferred(tasks[v.task], now),
                      saved /\ Stored(v.task))
            /\ UNCHANGED <<pc, job>>
  <3>1. PICK outcome \in AuthOutcomes, saved \in SaveOutcomes :
          Save(v.task, IF outcome = "denied" THEN AuthPaused(tasks[v.task])
                       ELSE Deferred(tasks[v.task], now),
               saved /\ Stored(v.task))
   BY <2>3
  <3>a. /\ Succeeds(tasks[v.task], AuthPaused(tasks[v.task]))
        /\ Succeeds(tasks[v.task], Deferred(tasks[v.task], now))
        /\ (saved /\ Stored(v.task)) \in BOOLEAN
   BY <2>1, AuthPausedType, DeferredType
  <3>2. TasksKeep BY <2>1, <3>1, <3>a, SaveKeeps
  <3> QED BY <1>2, <2>3, <3>2, EditKeeps DEF LoopVisit
 <2> QED BY <1>2, <2>2, <2>3 DEF LoopVisit
<1> QED BY <1>1, <1>2 DEF LoopStep

----
\* The steps of claim, dispatch and settlement.
LEMMA LeaveKeeps ==
  ASSUME TypeOK, CoreInv, TasksKeep, UNCHANGED <<hub, flight>>,
         NEW c \in Callers, NEW error, Leave(c, error),
         lock' = lock \/ (lock = c /\ lock' = Nobody)
  PROVE  CoreInv'
<1>1. Back(c) \in Locations \ {"scan", "commit", "dispatch", "settle", "create"} BY DEF Back, Locations
<1>2. pc' = [pc EXCEPT ![c] = Back(c)] /\ job' = [job EXCEPT ![c] = NoJob] BY DEF Leave, Goto
<1> QED BY <1>1, <1>2, NoJobType, MoveKeeps

LEMMA ClaimGetCore ==
  ASSUME TypeOK, CoreInv, NEW c \in Callers, ClaimGet(c)
  PROVE  CoreInv'
<1> USE TypeFacts
<1>1. TasksKeep /\ UNCHANGED <<tasks, hub, flight>> BY DEF ClaimGet, TasksKeep, Stored
<1>2. ASSUME NEW error, Leave(c, error), UNCHANGED lock
      PROVE  CoreInv'
 BY <1>1, <1>2, LeaveKeeps
<1>3. ASSUME NEW force, NEW k, NEW plan \in {"none", "exhaust", "floor"},
             lock = Nobody, lock' = c, pc[c] = "claim",
             job' = [job EXCEPT ![c] = [@ EXCEPT !.force = force, !.snap = k, !.plan = plan]],
             Goto(c, IF plan = "none" THEN "scan" ELSE "commit")
      PROVE  CoreInv'
 <2> DEFINE new == [job[c] EXCEPT !.force = force, !.snap = k, !.plan = plan]
 <2>1. job[c] \in Job /\ job[c].run = NoRun BY <1>3 DEF TypeOK, CoreInv, RunIdsUnique
 <2>2. new.run = NoRun /\ new.plan = plan /\ new.task = job[c].task BY <2>1 DEF Job
 <2>3. /\ job'[c] = new
       /\ \A d \in Callers \ {c} : job'[d] = job[d] /\ pc'[d] = pc[d]
       /\ pc'[c] \in {"scan", "commit"}
       /\ pc'[c] = "commit" => plan # "none"
  BY <1>3 DEF TypeOK, Goto
 <2> HIDE DEF new
 <2>4. \A d \in Callers : pc[d] \notin ClaimSteps BY <1>3 DEF CoreInv, LockHeld
 <2>5. LockHeld' /\ GoneIsIdle' BY <1>1, <1>3, <2>3, <2>4 DEF CoreInv, LockHeld, GoneIsIdle, ClaimSteps, Stored
 <2>6. RunIdsUnique' BY <1>1, <2>2, <2>3 DEF CoreInv, RunIdsUnique
 <2>7. StartPlanned' BY <1>1, <2>2, <2>3, <2>4 DEF StartPlanned, ClaimSteps
 <2>8. GrantHeld' /\ FlightHeld' BY <1>1, <2>3 DEF CoreInv, GrantHeld, FlightHeld, Stored
 <2>9. CreationsDistinct' BY <1>1, <2>3 DEF CoreInv, CreationsDistinct
 <2>10. OneClaimPerChat' /\ RunHoldsClaim' BY <1>1 DEF CoreInv, OneClaimPerChat, RunHoldsClaim, Stored
 <2> QED BY <2>5, <2>6, <2>7, <2>8, <2>9, <2>10 DEF CoreInv
<1>4. \/ \E error : Leave(c, error) /\ UNCHANGED lock
      \/ \E force, k : \E plan \in {"none", "exhaust", "floor"} :
           /\ lock = Nobody /\ lock' = c /\ pc[c] = "claim"
           /\ job' = [job EXCEPT ![c] = [@ EXCEPT !.force = force, !.snap = k, !.plan = plan]]
           /\ Goto(c, IF plan = "none" THEN "scan" ELSE "commit")
 BY DEF ClaimGet
<1> QED BY <1>2, <1>3, <1>4

\* What the scan saw: a chat without claims, and a run id nobody uses.
LEMMA ClaimScanCore ==
  ASSUME TypeOK, CoreInv, NEW c \in Callers, ClaimScan(c)
  PROVE  CoreInv'
<1> USE TypeFacts
<1>1. /\ UNCHANGED <<tasks, hub, flight, lock>> /\ pc[c] = "scan"
      /\ job[c] \in Job /\ job[c].run = NoRun
 BY DEF ClaimScan, TypeOK, CoreInv, RunIdsUnique
<1>2. /\ pc'[c] = "commit"
      /\ \A d \in Callers \ {c} : job'[d] = job[d] /\ pc'[d] = pc[d]
 BY DEF ClaimScan, Goto, TypeOK
<1>3. /\ job'[c].task = job[c].task
      /\ job'[c].run # NoRun => job'[c].run \in RunIds \ Held
      /\ job'[c].plan = "start" =>
           /\ job'[c].run # NoRun
           /\ \A u \in TaskIds \ {job[c].task} :
                ChatOf[u] = ChatOf[job[c].task] => tasks[u].active = NoRun
 <2>1. CASE job' = [job EXCEPT ![c].plan = "overlap"] BY <1>1, <2>1 DEF TypeOK, Job
 <2>2. CASE /\ ~ChatBusy(c)
            /\ \E r \in RunIds \ Held :
                 job' = [job EXCEPT ![c] = [@ EXCEPT !.plan = "start", !.run = r]]
  <3>1. PICK r \in RunIds \ Held :
          job' = [job EXCEPT ![c] = [@ EXCEPT !.plan = "start", !.run = r]]
   BY <2>2
  <3>2. job'[c].run = r /\ job'[c].task = job[c].task BY <1>1, <3>1 DEF TypeOK, Job
  <3>3. \A u \in TaskIds \ {job[c].task} :
          ChatOf[u] = ChatOf[job[c].task] => tasks[u].active = NoRun
   BY <2>2 DEF ChatBusy, Store, CoreInv, GoneIsIdle
  <3> QED BY <3>2, <3>3
 <2> QED BY <2>1, <2>2 DEF ClaimScan
<1>4. ASSUME NEW r \in RunIds \ Held
      PROVE  /\ flight[r].stage = "none"
             /\ \A ch \in Chats : hub[ch] # r
             /\ \A d \in Callers : job[d].run # r
             /\ \A t \in TaskIds : tasks[t].active # r
 BY DEF Held
<1>5. LockHeld' /\ GoneIsIdle' BY <1>1, <1>2 DEF CoreInv, LockHeld, GoneIsIdle, ClaimSteps, Stored
<1>6. RunIdsUnique' BY <1>1, <1>2, <1>3, <1>4 DEF CoreInv, RunIdsUnique
<1>7. StartPlanned' BY <1>1, <1>2, <1>3 DEF CoreInv, StartPlanned
<1>8. GrantHeld' /\ FlightHeld' BY <1>1, <1>2 DEF CoreInv, GrantHeld, FlightHeld, Stored
<1>9. CreationsDistinct' BY <1>1, <1>2 DEF CoreInv, CreationsDistinct
<1>10. OneClaimPerChat' /\ RunHoldsClaim' BY <1>1 DEF CoreInv, OneClaimPerChat, RunHoldsClaim, Stored
<1> QED BY <1>5, <1>6, <1>7, <1>8, <1>9, <1>10 DEF CoreInv

\* The claim itself.
LEMMA ClaimCommitCore ==
  ASSUME TypeOK, CoreInv, NEW c \in Callers, ClaimCommit(c)
  PROVE  CoreInv'
<1> USE TypeFacts
<1> DEFINE t == job[c].task
            starts == job[c].plan = "start" /\ Claimable(tasks[t], job[c].at, job[c].force)
<1>1. /\ pc[c] = "commit" /\ lock = c /\ lock' = Nobody /\ UNCHANGED <<hub, flight>>
      /\ job[c].plan = "start" => job[c].run # NoRun
 BY DEF ClaimCommit, CoreInv, LockHeld, ClaimSteps, StartPlanned
<1>2. PICK saved \in BOOLEAN :
        /\ Save(t, ClaimedBy(c), saved /\ Stored(t))
        /\ \/ /\ saved /\ Stored(t) /\ starts
              /\ job' = [job EXCEPT ![c].snap = ClaimedBy(c)]
              /\ Goto(c, "dispatch")
           \/ /\ ~(saved /\ Stored(t) /\ starts)
              /\ Leave(c, ~(saved /\ Stored(t)))
 BY SaveOutcomesType DEF ClaimCommit
<1>3. /\ ClaimedBy(c) \in Task
      /\ Stored(t) => ClaimedBy(c).status \notin Gone
      /\ starts => ClaimedBy(c).active \in {NoRun, job[c].run}
      /\ ~starts => ClaimedBy(c).active = tasks[t].active
 BY <1>1, ClaimedByType DEF Stored, Claimable
<1>4. CASE ~(saved /\ Stored(t) /\ starts)
 <2>1. TasksKeep BY <1>2, <1>3, <1>4 DEF TasksKeep, Save, Stored, TypeOK
 <2> QED BY <1>1, <1>2, <1>4, <2>1, LeaveKeeps
<1>5. CASE saved /\ Stored(t) /\ starts
 <2>1. /\ Stored(t) /\ tasks[t].active = NoRun /\ job[c].run \in RunIds
       /\ \A u \in TaskIds \ {t} : ChatOf[u] = ChatOf[t] => tasks[u].active = NoRun
       /\ \A u \in TaskIds : tasks[u].active # job[c].run
  BY <1>1, <1>5 DEF Claimable, CoreInv, StartPlanned, RunIdsUnique
 <2>2. /\ tasks'[t].status \notin Gone
       /\ \A u \in TaskIds \ {t} : tasks'[u] = tasks[u]
  BY <1>2, <1>3, <1>5 DEF Save, TypeOK
 <2>a. tasks'[t].active = job[c].run
  <3>1. ClaimedBy(c) = Claimed(tasks[t], job[c].at, job[c].force, job[c].snap.pending,
                               job[c].run)
   BY <1>5 DEF ClaimedBy
  <3>2. job[c].snap.pending \in BOOLEAN /\ job[c].force \in BOOLEAN BY DEF TypeOK, Job, Task
  <3>3. ClaimedBy(c).active = job[c].run BY <2>1, <3>1, <3>2, ClaimedType
  <3> QED BY <1>2, <1>5, <3>3 DEF Save, TypeOK
 <2>3. /\ \A d \in Callers : job'[d].run = job[d].run /\ job'[d].task = job[d].task
       /\ \A d \in Callers \ {c} : job'[d] = job[d] /\ pc'[d] = pc[d]
       /\ pc'[c] = "dispatch"
  <3>1. job[c] \in Job BY DEF TypeOK
  <3>2. job' = [job EXCEPT ![c] = [job[c] EXCEPT !.snap = ClaimedBy(c)]] BY <1>2, <1>5
  <3>3. job'[c].run = job[c].run /\ job'[c].task = job[c].task BY <3>1, <3>2 DEF Job, TypeOK
  <3>4. /\ \A d \in Callers \ {c} : job'[d] = job[d] /\ pc'[d] = pc[d]
        /\ pc'[c] = "dispatch"
   BY <1>2, <1>5, <3>2 DEF Goto, TypeOK
  <3> QED BY <3>3, <3>4
 <2>4. \A d \in Callers \ {c} : pc[d] \notin ClaimSteps BY <1>1 DEF CoreInv, LockHeld
 <2>5. LockHeld' BY <2>3, <2>4 DEF LockHeld, ClaimSteps
 <2>6. GoneIsIdle' /\ FlightHeld' BY <1>1, <2>2 DEF CoreInv, GoneIsIdle, FlightHeld, Stored
 <2>7. RunIdsUnique'
  <3>1. ASSUME NEW u \in TaskIds, NEW w \in TaskIds,
               tasks'[u].active = tasks'[w].active, tasks'[u].active # NoRun
        PROVE  u = w
   BY <2>1, <2>2, <2>a, <3>1 DEF CoreInv, RunIdsUnique
  <3>2. ASSUME NEW d \in Callers, job'[d].run # NoRun
        PROVE  /\ flight'[job'[d].run].stage = "none"
               /\ \A ch \in Chats : hub'[ch] # job'[d].run
               /\ \A e \in Callers : job'[e].run = job'[d].run => e = d
               /\ pc'[d] \in {"dispatch", "settle"}
   BY <1>1, <2>3, <2>4, <3>2 DEF CoreInv, RunIdsUnique, ClaimSteps
  <3> QED BY <3>1, <3>2 DEF RunIdsUnique
 <2>8. StartPlanned' BY <2>3, <2>4 DEF StartPlanned, ClaimSteps
 <2>9. GrantHeld' BY <2>1, <2>2, <2>a, <2>3 DEF CoreInv, GrantHeld, Stored
 <2>10. CreationsDistinct' BY <2>1, <2>2, <2>3 DEF CoreInv, CreationsDistinct, Stored
 <2>11. OneClaimPerChat' BY <2>1, <2>2 DEF CoreInv, OneClaimPerChat
 <2>12. RunHoldsClaim' BY <1>1, <2>1, <2>2 DEF CoreInv, RunHoldsClaim, Stored
 <2> QED BY <2>5, <2>6, <2>7, <2>8, <2>9, <2>10, <2>11, <2>12 DEF CoreInv
<1> QED BY <1>4, <1>5

LEMMA DispatchCore ==
  ASSUME TypeOK, CoreInv, NEW c \in Callers, Dispatch(c)
  PROVE  CoreInv'
<1> USE TypeFacts
<1> DEFINE t == job[c].task
            ch == ChatOf[t]
            run == job[c].run
<1>1. /\ pc[c] = "dispatch" /\ UNCHANGED <<tasks, lock>>
      /\ run \in RunIds /\ t \in TaskIds /\ ch \in Chats
      /\ tasks[t].status # "absent" /\ (Stored(t) => tasks[t].active = run)
 BY SchedulerAssumption DEF Dispatch, CoreInv, GrantHeld
<1>2. CASE /\ hub' = [hub EXCEPT ![ch] = run]
           /\ flight' = [flight EXCEPT ![run] = [stage |-> "going", task |-> t]]
           /\ Leave(c, FALSE)
 <2>1. /\ \A d \in Callers \ {c} : job'[d] = job[d] /\ pc'[d] = pc[d]
       /\ job'[c].run = NoRun /\ pc'[c] \in {"visit", "idle"}
  BY <1>2, NoJobType DEF Leave, Goto, Back, TypeOK
 <2>2. /\ flight'[run].stage = "going" /\ flight'[run].task = t
       /\ \A r \in RunIds \ {run} : flight'[r] = flight[r]
  BY <1>1, <1>2 DEF TypeOK
 <2>3. \A x \in Chats : hub'[x] \in {hub[x], run} BY <1>1, <1>2 DEF TypeOK
 <2>4. Loop \in Callers /\ \A d \in Clients : pc'[d] = "create" => d # c BY <2>1
 <2>5. LockHeld' /\ GoneIsIdle' BY <1>1, <2>1 DEF CoreInv, LockHeld, GoneIsIdle, ClaimSteps, Stored
 <2>6. RunIdsUnique' BY <1>1, <2>1, <2>2, <2>3 DEF CoreInv, RunIdsUnique
 <2>7. StartPlanned' BY <1>1, <2>1 DEF CoreInv, StartPlanned
 <2>8. GrantHeld' BY <1>1, <2>1 DEF CoreInv, GrantHeld, Stored
 <2>9. FlightHeld' /\ RunHoldsClaim' BY <1>1, <2>2 DEF CoreInv, FlightHeld, RunHoldsClaim, Stored
 <2>10. CreationsDistinct' BY <1>1, <2>1 DEF CoreInv, CreationsDistinct
 <2>11. OneClaimPerChat' BY <1>1 DEF CoreInv, OneClaimPerChat
 <2> QED BY <2>5, <2>6, <2>7, <2>8, <2>9, <2>10, <2>11 DEF CoreInv
<1>3. CASE Goto(c, "settle") /\ UNCHANGED <<hub, flight, job>>
 <2>1. pc'[c] = "settle" /\ \A d \in Callers \ {c} : pc'[d] = pc[d] BY <1>3 DEF Goto, TypeOK
 <2>2. LockHeld' /\ GoneIsIdle' BY <1>1, <2>1 DEF CoreInv, LockHeld, GoneIsIdle, ClaimSteps, Stored
 <2>3. RunIdsUnique' BY <1>1, <1>3, <2>1 DEF CoreInv, RunIdsUnique
 <2>4. StartPlanned' /\ CreationsDistinct' BY <1>1, <1>3, <2>1 DEF CoreInv, StartPlanned, CreationsDistinct
 <2>5. GrantHeld' BY <1>1, <1>3, <2>1 DEF CoreInv, GrantHeld, Stored
 <2>6. FlightHeld' /\ OneClaimPerChat' /\ RunHoldsClaim'
  BY <1>1, <1>3 DEF CoreInv, FlightHeld, OneClaimPerChat, RunHoldsClaim, Stored
 <2> QED BY <2>2, <2>3, <2>4, <2>5, <2>6 DEF CoreInv
<1> QED BY <1>2, <1>3 DEF Dispatch

\* The executor turned the run away: its claim is given back by its owner, so
\* nobody else relies on it.
LEMMA SettleCore ==
  ASSUME TypeOK, CoreInv, NEW c \in Callers, Settle(c)
  PROVE  CoreInv'
<1> USE TypeFacts
<1> DEFINE t == job[c].task
            run == job[c].run
<1>1. /\ pc[c] = "settle" /\ UNCHANGED <<hub, flight, lock>>
      /\ run \in RunIds /\ t \in TaskIds
      /\ tasks[t].status # "absent" /\ (Stored(t) => tasks[t].active = run)
 BY DEF Settle, CoreInv, GrantHeld
<1>2. /\ \A d \in Callers \ {c} : job'[d] = job[d] /\ pc'[d] = pc[d]
      /\ job'[c].run = NoRun /\ pc'[c] \in {"visit", "idle"}
 BY NoJobType DEF Settle, Leave, Goto, Back, TypeOK
<1>3. \/ UNCHANGED tasks
      \/ /\ Stored(t) /\ tasks'[t].status \notin Gone /\ tasks'[t].active = NoRun
         /\ \A u \in TaskIds \ {t} : tasks'[u] = tasks[u]
 <2>1. \A n : n \in {Requeued(tasks[t], now), Finished(tasks[t], "error")}
                => Releases(tasks[t], n)
  BY RequeuedType, FinishedType DEF TypeOK
 <2>2. PICK n \in {tasks[t], Requeued(tasks[t], now), Finished(tasks[t], "error")},
            saved \in BOOLEAN : Save(t, n, saved /\ Stored(t))
  BY SaveOutcomesType DEF Settle
 <2>3. CASE n = tasks[t] BY <1>1, <2>2, <2>3 DEF Save, TypeOK
 <2>4. CASE Releases(tasks[t], n) BY <1>1, <2>2, <2>4 DEF Save, TypeOK, Releases, Survives, Stored
 <2> QED BY <2>1, <2>2, <2>3, <2>4
<1>4. LockHeld' BY <1>1, <1>2 DEF CoreInv, LockHeld, ClaimSteps
<1>5. GoneIsIdle' /\ FlightHeld' BY <1>1, <1>3 DEF CoreInv, GoneIsIdle, FlightHeld, Stored
<1>6. RunIdsUnique' BY <1>1, <1>2, <1>3 DEF CoreInv, RunIdsUnique
<1>7. StartPlanned' BY <1>2, <1>3 DEF CoreInv, StartPlanned
<1>8. GrantHeld' BY <1>1, <1>2, <1>3 DEF CoreInv, GrantHeld, RunIdsUnique, Stored
<1>9. CreationsDistinct' BY <1>2, <1>3 DEF CoreInv, CreationsDistinct, Stored
<1>10. OneClaimPerChat' BY <1>3 DEF CoreInv, OneClaimPerChat
<1>11. RunHoldsClaim' BY <1>1, <1>3 DEF CoreInv, RunHoldsClaim, RunIdsUnique, Stored
<1> QED BY <1>4, <1>5, <1>6, <1>7, <1>8, <1>9, <1>10, <1>11 DEF CoreInv

----
\* The end of a run.
LEMMA FinishCore ==
  ASSUME TypeOK, CoreInv, NEW r \in RunIds, Finish(r)
  PROVE  CoreInv'
<1> USE TypeFacts
<1> DEFINE t == flight[r].task
<1>1. /\ flight[r].stage # "none" /\ t \in TaskIds /\ UNCHANGED <<pc, job, lock, hub>>
      /\ Stored(t) => tasks[t].active = r
 BY DEF Finish, Results, CoreInv, RunHoldsClaim
<1>2. /\ flight'[r].stage = "none"
      /\ \A q \in RunIds \ {r} : flight'[q] = flight[q]
 BY DEF Finish, NoFlight, TypeOK
<1>3. \/ UNCHANGED tasks
      \/ /\ Stored(t) /\ tasks'[t].status \notin Gone /\ tasks'[t].active = NoRun
         /\ \A u \in TaskIds \ {t} : tasks'[u] = tasks[u]
 <2>1. Releases(tasks[t], Finished(tasks[t], flight[r].stage)) BY <1>1, FinishedType DEF TypeOK
 <2>2. PICK n \in {tasks[t], Finished(tasks[t], flight[r].stage)}, saved \in BOOLEAN :
         Save(t, n, saved /\ Stored(t))
  BY SaveOutcomesType DEF Finish
 <2>3. CASE n = tasks[t] BY <1>1, <2>2, <2>3 DEF Save, TypeOK
 <2>4. CASE n = Finished(tasks[t], flight[r].stage) BY <1>1, <2>1, <2>2, <2>4 DEF Save, TypeOK, Releases, Survives, Stored
 <2> QED BY <2>2, <2>3, <2>4
<1>4. LockHeld' /\ GoneIsIdle' BY <1>1, <1>3 DEF CoreInv, LockHeld, GoneIsIdle, Stored
<1>5. RunIdsUnique' BY <1>1, <1>2, <1>3 DEF CoreInv, RunIdsUnique
<1>6. StartPlanned' BY <1>1, <1>3 DEF CoreInv, StartPlanned
<1>7. GrantHeld' BY <1>1, <1>3 DEF CoreInv, GrantHeld, RunIdsUnique, Stored
<1>8. FlightHeld' BY <1>2, <1>3 DEF CoreInv, FlightHeld, Stored
<1>9. CreationsDistinct' BY <1>1, <1>3 DEF CoreInv, CreationsDistinct, Stored
<1>10. OneClaimPerChat' BY <1>3 DEF CoreInv, OneClaimPerChat
<1>11. RunHoldsClaim' BY <1>1, <1>2, <1>3 DEF CoreInv, RunHoldsClaim, Stored
<1> QED BY <1>4, <1>5, <1>6, <1>7, <1>8, <1>9, <1>10, <1>11 DEF CoreInv

LEMMA RunStepCore ==
  ASSUME TypeOK, CoreInv, NEW r \in RunIds, RunStep(r)
  PROVE  CoreInv'
<1> USE TypeFacts
<1>1. CASE RunEnds(r)
 <2>1. /\ UNCHANGED <<tasks, pc, job, lock, hub>> /\ flight[r].stage = "going"
       /\ flight'[r].task = flight[r].task
       /\ \A q \in RunIds \ {r} : flight'[q] = flight[q]
  BY <1>1 DEF RunEnds, TypeOK
 <2>2. LockHeld' /\ GoneIsIdle' /\ OneClaimPerChat' BY <2>1 DEF CoreInv, LockHeld, GoneIsIdle, OneClaimPerChat, Stored
 <2>3. RunIdsUnique' BY <2>1 DEF CoreInv, RunIdsUnique
 <2>4. StartPlanned' /\ GrantHeld' /\ CreationsDistinct' BY <2>1 DEF CoreInv, StartPlanned, GrantHeld, CreationsDistinct, Stored
 <2>5. FlightHeld' /\ RunHoldsClaim' BY <2>1 DEF CoreInv, FlightHeld, RunHoldsClaim, Stored
 <2> QED BY <2>2, <2>3, <2>4, <2>5 DEF CoreInv
<1>2. CASE Finish(r) BY <1>2, FinishCore
<1>3. CASE CompleteClaim(r)
 <2> DEFINE t == flight[r].task
 <2>1. /\ t \in TaskIds /\ tasks[t].active = r /\ UNCHANGED <<lock, pc, job, flight, hub>> BY <1>3 DEF CompleteClaim
 <2>2. Stored(t) BY <2>1 DEF CoreInv, GoneIsIdle
 <2>3. PICK saved \in BOOLEAN : Save(t, Completed(tasks[t]), saved) BY <1>3, SaveOutcomesType DEF CompleteClaim
 <2>4. TasksKeep BY <2>1, <2>2, <2>3, CompletedType, SaveKeeps
 <2> QED BY <2>1, <2>4, EditKeeps
<1> QED BY <1>1, <1>2, <1>3 DEF RunStep

----
\* Client operations.
LEMMA CreateCheckCore ==
  ASSUME TypeOK, CoreInv, NEW c \in Clients, NEW t \in TaskIds, CreateCheck(c, t)
  PROVE  CoreInv'
<1> USE TypeFacts
<1>1. /\ pc[c] = "idle" /\ UNCHANGED <<tasks, lock, hub, flight>>
      /\ tasks[t].status = "absent"
      /\ \A d \in Clients : pc[d] = "create" => job[d].task # t
 BY DEF CreateCheck, Reserved
<1>2. PICK k : /\ job' = [job EXCEPT ![c] = [NoJob EXCEPT !.task = t, !.snap = k]]
               /\ k.active = NoRun /\ k.status \notin Gone
 <2>1. PICK def \in Definitions, byAgent \in IF "agentCreate" \in Ops THEN BOOLEAN ELSE {FALSE} :
         job' = [job EXCEPT ![c] = [NoJob EXCEPT
                   !.task = t, !.snap = Created(Normalized(def), now, byAgent)]]
  BY DEF CreateCheck
 <2>a. byAgent \in BOOLEAN /\ Normalized(def) \in Definition /\ now \in Nat BY SchedulerAssumption, NormalizedType DEF TypeOK
 <2>2. /\ Created(Normalized(def), now, byAgent).active = NoRun
       /\ Created(Normalized(def), now, byAgent).status \notin Gone
  BY <2>a, CreatedType
 <2> DEFINE new == Created(Normalized(def), now, byAgent)
 <2>3. /\ job' = [job EXCEPT ![c] = [NoJob EXCEPT !.task = t, !.snap = new]]
       /\ new.active = NoRun /\ new.status \notin Gone
  BY <2>1, <2>2
 <2> HIDE DEF new
 <2> QED BY <2>3
<1>3. /\ \A d \in Callers \ {c} : job'[d] = job[d] /\ pc'[d] = pc[d]
      /\ job'[c].run = NoRun /\ job'[c].task = t /\ job'[c].snap = k
      /\ pc'[c] = "create"
 BY <1>2, NoJobType DEF CreateCheck, Goto, TypeOK, Job
<1>4. LockHeld' /\ GoneIsIdle' BY <1>1, <1>3 DEF CoreInv, LockHeld, GoneIsIdle, ClaimSteps, Stored
<1>5. RunIdsUnique' BY <1>1, <1>3 DEF CoreInv, RunIdsUnique
<1>6. StartPlanned' /\ GrantHeld' BY <1>1, <1>3 DEF CoreInv, StartPlanned, GrantHeld, Stored
<1>7. FlightHeld' /\ OneClaimPerChat' /\ RunHoldsClaim' BY <1>1 DEF CoreInv, FlightHeld, OneClaimPerChat, RunHoldsClaim, Stored
<1>8. CreationsDistinct' BY <1>1, <1>2, <1>3 DEF CoreInv, CreationsDistinct
<1> QED BY <1>4, <1>5, <1>6, <1>7, <1>8 DEF CoreInv

LEMMA CreateCommitCore ==
  ASSUME TypeOK, CoreInv, NEW c \in Clients, CreateCommit(c)
  PROVE  CoreInv'
<1> USE TypeFacts
<1> DEFINE t == job[c].task
            k == job[c].snap
<1>1. /\ pc[c] = "create" /\ UNCHANGED <<lock, hub, flight>> /\ t \in TaskIds /\ k \in Task
      /\ tasks[t].status = "absent" /\ k.active = NoRun /\ k.status \notin Gone
      /\ \A d \in Clients \ {c} : pc[d] = "create" => job[d].task # t
 BY DEF CreateCommit, CoreInv, CreationsDistinct
<1>2. /\ \A d \in Callers \ {c} : job'[d] = job[d] /\ pc'[d] = pc[d]
      /\ job'[c].run = NoRun /\ pc'[c] = "idle"
 BY NoJobType DEF CreateCommit, Leave, Goto, Back, TypeOK
<1>3. tasks[t].active = NoRun BY <1>1 DEF CoreInv, GoneIsIdle, Stored
<1>4. /\ \A u \in TaskIds \ {t} : tasks'[u] = tasks[u]
      /\ tasks'[t] \in {tasks[t], k}
 BY <1>1, SaveOutcomesType DEF CreateCommit, Save, TypeOK
<1>5. LockHeld' /\ GoneIsIdle' BY <1>1, <1>2, <1>4 DEF CoreInv, LockHeld, GoneIsIdle, ClaimSteps, Stored
<1>6. RunIdsUnique'
 <2>1. \A u \in TaskIds : tasks'[u].active = tasks[u].active BY <1>1, <1>3, <1>4
 <2> QED BY <1>1, <1>2, <2>1 DEF CoreInv, RunIdsUnique
<1>7. StartPlanned' BY <1>1, <1>2, <1>4 DEF CoreInv, StartPlanned
<1>8. GrantHeld' /\ FlightHeld' BY <1>1, <1>2, <1>4 DEF CoreInv, GrantHeld, FlightHeld, Stored
<1>9. CreationsDistinct' BY <1>1, <1>2, <1>4 DEF CoreInv, CreationsDistinct
<1>10. OneClaimPerChat' BY <1>1, <1>3, <1>4 DEF CoreInv, OneClaimPerChat
<1>11. RunHoldsClaim' BY <1>1, <1>4 DEF CoreInv, RunHoldsClaim, FlightHeld, Stored
<1> QED BY <1>5, <1>6, <1>7, <1>8, <1>9, <1>10, <1>11 DEF CoreInv

LEMMA ClientStepCore ==
  ASSUME TypeOK, CoreInv, NEW c \in Clients, ClientStep(c)
  PROVE  CoreInv'
<1> USE TypeFacts
<1>1. ASSUME NEW t \in TaskIds, RunNow(c, t)
      PROVE  CoreInv'
 <2>1. Stored(t) /\ UNCHANGED <<lock, hub, flight>> BY <1>1 DEF RunNow
 <2>2. CASE /\ job' = [job EXCEPT ![c] = [NoJob EXCEPT !.task = t, !.force = TRUE,
                                                     !.at = now]]
            /\ Goto(c, "claim") /\ UNCHANGED tasks
  <3>1. [NoJob EXCEPT !.task = t, !.force = TRUE, !.at = now].run = NoRun BY NoJobType DEF Job
  <3>2. TasksKeep /\ pc' = [pc EXCEPT ![c] = "claim"] BY <2>2 DEF TasksKeep, Stored, Goto
  <3> QED BY <2>1, <2>2, <3>1, <3>2, MoveKeeps DEF Locations
 <2>3. CASE /\ \E saved \in SaveOutcomes : Save(t, AuthPaused(tasks[t]), saved)
            /\ UNCHANGED <<pc, job>>
  <3>1. TasksKeep BY <2>1, <2>3, AuthPausedType, SaveOutcomesType, SaveKeeps
  <3> QED BY <2>1, <2>3, <3>1, EditKeeps
 <2> QED BY <1>1, <2>2, <2>3 DEF RunNow
<1> QED BY <1>1, CreateCheckCore, CreateCommitCore DEF ClientStep

\* A deleted task releases its claim; its run goes on and finds no task.
LEMMA DeleteCore ==
  ASSUME TypeOK, CoreInv, NEW t \in TaskIds, Delete(t)
  PROVE  CoreInv'
<1> USE TypeFacts
<1>1. Stored(t) /\ UNCHANGED <<lock, pc, job, hub, flight>> BY DEF Delete
<1>2. /\ \A u \in TaskIds \ {t} : tasks'[u] = tasks[u]
      /\ \/ tasks'[t] = tasks[t]
         \/ tasks'[t].active = NoRun /\ tasks'[t].status = "deleted"
 BY BlankType, SaveOutcomesType DEF Delete, Save, TypeOK, Status
<1>3. LockHeld' /\ GoneIsIdle' BY <1>1, <1>2 DEF CoreInv, LockHeld, GoneIsIdle, Stored
<1>4. RunIdsUnique' BY <1>1, <1>2 DEF CoreInv, RunIdsUnique
<1>5. StartPlanned' /\ OneClaimPerChat' BY <1>1, <1>2 DEF CoreInv, StartPlanned, OneClaimPerChat
<1>6. GrantHeld' /\ FlightHeld' BY <1>1, <1>2 DEF CoreInv, GrantHeld, FlightHeld, Stored
<1>7. CreationsDistinct' BY <1>1, <1>2 DEF CoreInv, CreationsDistinct, Stored
<1>8. RunHoldsClaim' BY <1>1, <1>2 DEF CoreInv, RunHoldsClaim, Stored
<1> QED BY <1>3, <1>4, <1>5, <1>6, <1>7, <1>8 DEF CoreInv

\* Only a process that is down, and so runs nothing, abandons its claims.
LEMMA RecoverCore ==
  ASSUME TypeOK, CoreInv, DownIsIdle, NEW t \in TaskIds, Recover(t)
  PROVE  CoreInv'
<1> USE TypeFacts
<1>1. /\ ~up /\ tasks[t].active # NoRun /\ UNCHANGED <<lock, pc, job, hub, flight>>
      /\ \A c \in Callers : pc[c] \in {"list", "idle"} /\ job[c].run = NoRun
      /\ \A r \in RunIds : flight[r].stage = "none"
 BY DEF Recover, DownIsIdle
<1>2. /\ \A u \in TaskIds \ {t} : tasks'[u] = tasks[u]
      /\ Stored(t) /\ tasks'[t].active = NoRun /\ tasks'[t].status \notin Gone
 <2>1. Stored(t) /\ Releases(tasks[t], Recovered(tasks[t])) BY <1>1, RecoveredType DEF CoreInv, GoneIsIdle
 <2> QED BY <2>1 DEF Recover, TypeOK, Releases, Survives, Stored
<1>3. LockHeld' /\ GoneIsIdle' BY <1>1, <1>2 DEF CoreInv, LockHeld, GoneIsIdle, Stored
<1>4. RunIdsUnique' BY <1>1, <1>2 DEF CoreInv, RunIdsUnique
<1>5. StartPlanned' /\ GrantHeld' /\ FlightHeld' /\ CreationsDistinct' /\ RunHoldsClaim'
 BY <1>1 DEF Callers, StartPlanned, GrantHeld, FlightHeld, CreationsDistinct, RunHoldsClaim
<1>6. OneClaimPerChat' BY <1>2 DEF CoreInv, OneClaimPerChat
<1> QED BY <1>3, <1>4, <1>5, <1>6 DEF CoreInv

LEMMA TaskStepCore ==
  ASSUME TypeOK, CoreInv, DownIsIdle, NEW t \in TaskIds, TaskStep(t)
  PROVE  CoreInv'
<1> USE TypeFacts
<1>1. ASSUME NEW n, NEW saved \in BOOLEAN, Save(t, n, saved), Stored(t),
             Succeeds(tasks[t], n), UNCHANGED <<lock, pc, job, hub, flight>>
      PROVE  CoreInv'
 BY <1>1, SaveKeeps, EditKeeps
<1>2. CASE Update(t)
 <2>1. PICK def \in Definitions \cup {tasks[t].def}, switch \in {"keep", "arm", "pause"},
            saved \in SaveOutcomes :
         Save(t, Updated(tasks[t], Normalized(def), switch, now), saved)
  BY <1>2 DEF Update
 <2>2. def \in Definition /\ now \in Nat BY SchedulerAssumption DEF Task, TypeOK
 <2>3. Succeeds(tasks[t], Updated(tasks[t], Normalized(def), switch, now)) BY <2>2, NormalizedType, UpdatedType
 <2> QED BY <1>1, <1>2, <2>1, <2>3, SaveOutcomesType DEF Update
<1>3. CASE Complete(t)
 <2>1. PICK saved \in SaveOutcomes : Save(t, Completed(tasks[t]), saved) BY <1>3 DEF Complete
 <2> QED BY <1>1, <1>3, <2>1, SaveOutcomesType, CompletedType DEF Complete
<1> QED BY <1>2, <1>3, DeleteCore, RecoverCore DEF TaskStep

----
\* Rooms, the clock and the process.
LEMMA ChatStepCore ==
  ASSUME TypeOK, CoreInv, NEW ch \in Chats, ChatStep(ch)
  PROVE  CoreInv'
<1> USE TypeFacts
<1>1. UNCHANGED <<tasks, lock, pc, job, flight>> BY DEF ChatStep, HubRelease, UserPrompt, UserDone
<1>2. \A x \in Chats : hub'[x] = hub[x] \/ hub'[x] \notin RunIds BY DEF ChatStep, HubRelease, UserPrompt, UserDone, TypeOK
<1>3. TasksKeep BY <1>1 DEF TasksKeep, Stored
<1> QED BY <1>1, <1>2, <1>3, EditKeeps

LEMMA CrashCore ==
  ASSUME TypeOK, CoreInv, Crash
  PROVE  CoreInv'
<1> USE TypeFacts
<1>1. /\ UNCHANGED tasks
      /\ \A c \in Callers : pc'[c] \in {"list", "idle"} /\ job'[c].run = NoRun
      /\ \A r \in RunIds : flight'[r].stage = "none"
 BY NoJobType DEF Crash, NoFlight
<1>2. GoneIsIdle' /\ OneClaimPerChat' BY <1>1 DEF CoreInv, GoneIsIdle, OneClaimPerChat, Stored
<1>3. RunIdsUnique' BY <1>1 DEF CoreInv, RunIdsUnique
<1>4. LockHeld' /\ StartPlanned' /\ GrantHeld' /\ FlightHeld' /\ CreationsDistinct' /\ RunHoldsClaim'
 BY <1>1 DEF LockHeld, StartPlanned, GrantHeld, FlightHeld, CreationsDistinct,
             RunHoldsClaim, ClaimSteps
<1> QED BY <1>2, <1>3, <1>4 DEF CoreInv

LEMMA UnchangedCore ==
  ASSUME TypeOK, CoreInv, Tick \/ Start \/ UNCHANGED vars
  PROVE  CoreInv'
<1>1. UNCHANGED <<tasks, lock, pc, job, flight, hub>> BY DEF Tick, Start, vars
<1>2. TasksKeep BY <1>1 DEF TasksKeep, Stored
<1> QED BY <1>1, <1>2, EditKeeps

LEMMA ClaimStepCore ==
  ASSUME TypeOK, CoreInv, NEW c \in Callers, ClaimStep(c)
  PROVE  CoreInv'
BY ClaimGetCore, ClaimScanCore, ClaimCommitCore, DispatchCore, SettleCore DEF ClaimStep

\* The type invariant needs to know that a caller that starts has a run id.
LEMMA ClaimStepType ==
  ASSUME TypeOK, CoreInv, NEW c \in Callers, ClaimStep(c)
  PROVE  TypeOK'
<1>1. ClaimCommit(c) => (job[c].plan = "start" => job[c].run # NoRun) BY DEF ClaimCommit, CoreInv, StartPlanned
<1>2. Dispatch(c) => job[c].run # NoRun BY DEF Dispatch, CoreInv, GrantHeld
<1> QED
 BY <1>1, <1>2, ClaimGetType, ClaimScanType, ClaimCommitType, DispatchType, SettleType
 DEF ClaimStep

LEMMA LoopStepType ==
  ASSUME TypeOK, LoopStep
  PROVE  TypeOK'
BY LoopListType, LoopVisitType, LoopDelayType, LoopWakeType DEF LoopStep

\* A process that is down takes no step but Recover, Start and the clock's.
LEMMA DownStep ==
  ASSUME TypeOK, DownIsIdle, Next
  PROVE  DownIsIdle'
<1>1. CASE Crash BY <1>1, NoJobType DEF Crash, DownIsIdle, NoFlight
<1>2. CASE up /\ up' BY <1>2 DEF DownIsIdle
<1>3. CASE Start BY <1>3 DEF Start, DownIsIdle
<1>4. CASE ~up /\ UNCHANGED <<up, pc, job, flight>> BY <1>4 DEF DownIsIdle
<1>5. LoopStep => up /\ UNCHANGED up
 <2>1. LoopList \/ LoopDelay \/ LoopWoken \/ LoopTimer => up /\ UNCHANGED up BY DEF LoopList, LoopDelay, LoopWoken, LoopTimer
 <2>2. \A v : LoopVisit(v) => up /\ UNCHANGED up BY DEF LoopVisit
 <2> QED BY <2>1, <2>2 DEF LoopStep
<1>6. \A c \in Callers : ClaimStep(c) => up /\ UNCHANGED up
 <2>1. \A c : ClaimGet(c) \/ ClaimScan(c) => up /\ UNCHANGED up BY DEF ClaimGet, ClaimScan
 <2>2. \A c : ClaimCommit(c) => up /\ UNCHANGED up BY DEF ClaimCommit
 <2>3. \A c : Dispatch(c) \/ Settle(c) => up /\ UNCHANGED up BY DEF Dispatch, Settle
 <2> QED BY <2>1, <2>2, <2>3 DEF ClaimStep
<1>7. \A c \in Clients : ClientStep(c) => up /\ UNCHANGED up
 <2>1. \A c, t : CreateCheck(c, t) => up /\ UNCHANGED up BY DEF CreateCheck, Requested
 <2>2. \A c, t : RunNow(c, t) => up /\ UNCHANGED up BY DEF RunNow, Requested
 <2>3. \A c : CreateCommit(c) => up /\ UNCHANGED up BY DEF CreateCommit
 <2> QED BY <2>1, <2>2, <2>3 DEF ClientStep
<1>8. \A t \in TaskIds : TaskStep(t) => (up /\ up') \/ (~up /\ UNCHANGED <<up, pc, job, flight>>)
 BY DEF TaskStep, Update, Delete, Complete, Recover, Requested
<1>9. \A r \in RunIds : RunStep(r) => up /\ up' BY DEF RunStep, RunEnds, Finish, CompleteClaim
<1>10. \A ch \in Chats : ChatStep(ch) => up /\ up' BY DEF ChatStep, HubRelease, UserPrompt, UserDone
<1>11. Tick \/ Quiescent => (up /\ up') \/ (~up /\ UNCHANGED <<up, pc, job, flight>>) BY DEF Tick, Quiescent, vars, TypeOK
<1> QED BY <1>1, <1>2, <1>3, <1>4, <1>5, <1>6, <1>7, <1>8, <1>9, <1>10, <1>11 DEF Next

\* The clock only advances, and every instant a caller keeps was read from it.
LEMMA ClockStep ==
  ASSUME TypeOK, ClockSane, Next
  PROVE  ClockSane'
<1> USE TypeFacts
<1>0. now \in Nat /\ passAt \in Nat BY DEF TypeOK
<1>1. ASSUME UNCHANGED <<now, passAt, job>>
      PROVE  ClockSane'
 BY <1>1 DEF ClockSane
<1>2. ASSUME NEW c \in Callers, \A d \in Callers \ {c} : job'[d] = job[d],
             job'[c].at \in {0, now, passAt, job[c].at}, UNCHANGED <<now, passAt>>
      PROVE  ClockSane'
 BY <1>0, <1>2 DEF ClockSane, TypeOK
<1>3. ASSUME LoopStep
      PROVE  ClockSane'
 <2>1. CASE LoopList \/ LoopDelay BY <1>0, <2>1 DEF LoopList, LoopDelay, ClockSane
 <2>2. CASE LoopWoken \/ LoopTimer BY <1>1, <2>2 DEF LoopWoken, LoopTimer
 <2>3. ASSUME NEW v \in todo, LoopVisit(v)
       PROVE  ClockSane'
  <3>1. [NoJob EXCEPT !.task = v.task, !.at = passAt].at = passAt BY NoJobType DEF Job
  <3>2. UNCHANGED <<now, passAt>> BY <2>3 DEF LoopVisit
  <3>3. \/ UNCHANGED job
        \/ job' = [job EXCEPT ![Loop] = [NoJob EXCEPT !.task = v.task, !.at = passAt]]
   BY <2>3 DEF LoopVisit
  <3>4. \/ UNCHANGED job
        \/ job'[Loop].at = passAt /\ \A d \in Callers \ {Loop} : job'[d] = job[d]
   BY <3>1, <3>3 DEF TypeOK
  <3> QED BY <1>1, <1>2, <3>2, <3>4
 <2> QED BY <1>3, <2>1, <2>2, <2>3 DEF LoopStep
<1>4. ASSUME NEW c \in Callers, ClaimStep(c)
      PROVE  ClockSane'
 <2>0. job[c] \in Job BY DEF TypeOK
 <2>a. \A error : Leave(c, error) =>
          job'[c].at = 0 /\ \A d \in Callers \ {c} : job'[d] = job[d]
  BY NoJobType DEF Leave, TypeOK
 <2>1. CASE ClaimGet(c)
  <3>1. UNCHANGED <<now, passAt>> BY <2>1 DEF ClaimGet
  <3>2. \/ \E error : Leave(c, error)
        \/ \E force, k : \E plan \in {"none", "exhaust", "floor"} :
             job' = [job EXCEPT ![c] =
                       [@ EXCEPT !.force = force, !.snap = k, !.plan = plan]]
   BY <2>1 DEF ClaimGet
  <3>3. CASE \E error : Leave(c, error) BY <1>2, <2>a, <3>1, <3>3
  <3>4. ASSUME NEW force, NEW k, NEW plan,
               job' = [job EXCEPT ![c] =
                         [@ EXCEPT !.force = force, !.snap = k, !.plan = plan]]
        PROVE  ClockSane'
   <4>1. job'[c].at = job[c].at /\ \A d \in Callers \ {c} : job'[d] = job[d] BY <2>0, <3>4 DEF TypeOK, Job
   <4> QED BY <1>2, <3>1, <4>1
  <3> QED BY <3>2, <3>3, <3>4
 <2>2. CASE ClaimScan(c)
  <3>1. UNCHANGED <<now, passAt>> BY <2>2 DEF ClaimScan, loopVars
  <3>a. \/ job' = [job EXCEPT ![c].plan = "overlap"]
        \/ \E r : job' = [job EXCEPT ![c] = [@ EXCEPT !.plan = "start", !.run = r]]
   BY <2>2 DEF ClaimScan
  <3>2. job'[c].at = job[c].at /\ \A d \in Callers \ {c} : job'[d] = job[d]
   <4>1. CASE job' = [job EXCEPT ![c].plan = "overlap"] BY <2>0, <4>1 DEF TypeOK, Job
   <4>2. ASSUME NEW r, job' = [job EXCEPT ![c] = [@ EXCEPT !.plan = "start", !.run = r]]
         PROVE  job'[c].at = job[c].at /\ \A d \in Callers \ {c} : job'[d] = job[d]
    BY <2>0, <4>2 DEF TypeOK, Job
   <4> QED BY <3>a, <4>1, <4>2
  <3> QED BY <1>2, <3>1, <3>2
 <2>3. CASE ClaimCommit(c)
  <3>1. UNCHANGED <<now, passAt>> BY <2>3 DEF ClaimCommit
  <3>2. \/ \E error : Leave(c, error)
        \/ job' = [job EXCEPT ![c].snap = ClaimedBy(c)]
   BY <2>3 DEF ClaimCommit
  <3>3. /\ job'[c].at \in {0, job[c].at}
        /\ \A d \in Callers \ {c} : job'[d] = job[d]
   BY <2>0, <2>a, <3>2 DEF TypeOK, Job
  <3> QED BY <1>2, <3>1, <3>3
 <2>4. CASE Dispatch(c)
  <3>1. UNCHANGED <<now, passAt>> /\ (Leave(c, FALSE) \/ UNCHANGED job) BY <2>4 DEF Dispatch
  <3> QED BY <1>1, <1>2, <2>a, <3>1
 <2>5. CASE Settle(c)
  <3>1. UNCHANGED <<now, passAt>> /\ \E error : Leave(c, error) BY <2>5 DEF Settle
  <3> QED BY <1>2, <2>a, <3>1
 <2> QED BY <1>4, <2>1, <2>2, <2>3, <2>4, <2>5 DEF ClaimStep
<1>5. ASSUME NEW c \in Clients, ClientStep(c)
      PROVE  ClockSane'
 <2>1. ASSUME NEW t \in TaskIds, CreateCheck(c, t)
       PROVE  ClockSane'
  <3>1. PICK k : job' = [job EXCEPT ![c] = [NoJob EXCEPT !.task = t, !.snap = k]] BY <2>1 DEF CreateCheck
  <3>2. job'[c].at = 0 /\ \A d \in Callers \ {c} : job'[d] = job[d] BY <3>1, NoJobType DEF Job, TypeOK
  <3>3. UNCHANGED <<now, passAt>> BY <2>1 DEF CreateCheck, loopVars
  <3> QED BY <1>2, <3>2, <3>3
 <2>2. ASSUME NEW t \in TaskIds, RunNow(c, t)
       PROVE  ClockSane'
  <3>1. \/ UNCHANGED job
        \/ job' = [job EXCEPT ![c] = [NoJob EXCEPT !.task = t, !.force = TRUE, !.at = now]]
   BY <2>2 DEF RunNow
  <3>a. c \in DOMAIN job /\ \A d \in Callers : d \in DOMAIN job BY DEF TypeOK, Callers
  <3>b. [NoJob EXCEPT !.task = t, !.force = TRUE, !.at = now].at = now BY NoJobType DEF Job
  <3>2. \/ UNCHANGED job
        \/ job'[c].at = now /\ \A d \in Callers \ {c} : job'[d] = job[d]
   BY <3>1, <3>a, <3>b
  <3>3. UNCHANGED <<now, passAt>> BY <2>2 DEF RunNow, loopVars
  <3> QED BY <1>1, <1>2, <3>2, <3>3
 <2>3. CASE CreateCommit(c)
  <3>1. job'[c].at = 0 /\ \A d \in Callers \ {c} : job'[d] = job[d] BY <2>3, NoJobType DEF CreateCommit, Leave, TypeOK
  <3>2. UNCHANGED <<now, passAt>> BY <2>3 DEF CreateCommit
  <3> QED BY <1>2, <3>1, <3>2
 <2> QED BY <1>5, <2>1, <2>2, <2>3 DEF ClientStep
<1>6. ASSUME NEW t \in TaskIds, TaskStep(t)
      PROVE  ClockSane'
 BY <1>1, <1>6 DEF TaskStep, Update, Delete, Complete, Recover, loopVars
<1>7. ASSUME NEW r \in RunIds, RunStep(r)
      PROVE  ClockSane'
 BY <1>1, <1>7 DEF RunStep, RunEnds, Finish, CompleteClaim, loopVars
<1>8. ASSUME NEW ch \in Chats, ChatStep(ch)
      PROVE  ClockSane'
 BY <1>1, <1>8 DEF ChatStep, HubRelease, UserPrompt, UserDone, loopVars
<1>9. CASE Tick BY <1>0, <1>9 DEF Tick, ClockSane, loopVars
<1>10. CASE Crash BY <1>0, <1>10, NoJobType DEF Crash, ClockSane
<1>11. CASE Start \/ Quiescent BY <1>1, <1>11 DEF Start, Quiescent, vars, loopVars
<1> QED BY <1>3, <1>4, <1>5, <1>6, <1>7, <1>8, <1>9, <1>10, <1>11 DEF Next

----
\* ClaimInvariant together with the types is inductive.
IInv == TypeOK /\ ClaimInvariant

LEMMA InitInv == Init => IInv
<1> SUFFICES ASSUME Init PROVE IInv OBVIOUS
<1>1. TypeOK BY InitType
<1>2. /\ \A c \in Callers : pc[c] \in {"list", "idle"} /\ job[c].run = NoRun /\ job[c].at = 0
      /\ \A r \in RunIds : flight[r].stage = "none"
      /\ up /\ passAt = 0 /\ now = 1
 BY NoJobType DEF Init, NoFlight
<1>3. \A t \in TaskIds : tasks[t].active = NoRun
 <2>1. Blank("absent").active = NoRun BY BlankType DEF Status
 <2>2. \A def \in OnDisk : Created(Normalized(def), 0, FALSE).active = NoRun BY SchedulerAssumption, NormalizedType, CreatedType
 <2> QED BY <2>1, <2>2 DEF Init, Loaded
<1>4. LockHeld /\ GoneIsIdle /\ RunIdsUnique /\ StartPlanned /\ GrantHeld
 BY <1>2, <1>3 DEF LockHeld, GoneIsIdle, RunIdsUnique, StartPlanned, GrantHeld, ClaimSteps
<1>5. FlightHeld /\ CreationsDistinct /\ OneClaimPerChat /\ RunHoldsClaim
 BY <1>2, <1>3, TypeFacts, <1>1 DEF FlightHeld, CreationsDistinct, OneClaimPerChat, RunHoldsClaim
<1>6. DownIsIdle /\ ClockSane BY <1>2 DEF DownIsIdle, ClockSane
<1> QED BY <1>1, <1>4, <1>5, <1>6 DEF IInv, ClaimInvariant

LEMMA NextInv == IInv /\ [Next]_vars => IInv'
<1> SUFFICES ASSUME IInv, [Next]_vars PROVE IInv' OBVIOUS
<1>1. TypeOK /\ CoreInv /\ DownIsIdle /\ ClockSane BY DEF IInv, ClaimInvariant, CoreInv
<1>2. CASE UNCHANGED vars
 <2>1. TypeOK' BY <1>1, <1>2 DEF TypeOK, vars, loopVars
 <2>2. CoreInv' BY <1>1, <1>2, UnchangedCore
 <2>3. DownIsIdle' /\ ClockSane' BY <1>1, <1>2 DEF DownIsIdle, ClockSane, vars, loopVars
 <2> QED BY <2>1, <2>2, <2>3 DEF IInv, ClaimInvariant, CoreInv
<1>3. CASE Next
 <2>1. ASSUME LoopStep
       PROVE  TypeOK' /\ CoreInv'
  BY <1>1, <2>1, LoopStepType, LoopStepCore
 <2>2. ASSUME NEW c \in Callers, ClaimStep(c)
       PROVE  TypeOK' /\ CoreInv'
  BY <1>1, <2>2, ClaimStepType, ClaimStepCore
 <2>3. ASSUME NEW c \in Clients, ClientStep(c)
       PROVE  TypeOK' /\ CoreInv'
  BY <1>1, <2>3, ClientStepType, ClientStepCore
 <2>4. ASSUME NEW t \in TaskIds, TaskStep(t)
       PROVE  TypeOK' /\ CoreInv'
  BY <1>1, <2>4, TaskStepType, TaskStepCore
 <2>5. ASSUME NEW r \in RunIds, RunStep(r)
       PROVE  TypeOK' /\ CoreInv'
  BY <1>1, <2>5, RunStepType, RunStepCore
 <2>6. ASSUME NEW ch \in Chats, ChatStep(ch)
       PROVE  TypeOK' /\ CoreInv'
  BY <1>1, <2>6, ChatStepType, ChatStepCore
 <2>7. ASSUME Tick \/ Start
       PROVE  TypeOK' /\ CoreInv'
  BY <1>1, <2>7, ProcessStepType, UnchangedCore
 <2>8. ASSUME Crash
       PROVE  TypeOK' /\ CoreInv'
  BY <1>1, <2>8, ProcessStepType, CrashCore
 <2>9. ASSUME Quiescent
       PROVE  TypeOK' /\ CoreInv'
  <3>1. UNCHANGED vars BY <2>9 DEF Quiescent
  <3>2. CoreInv' BY <1>1, <3>1, UnchangedCore
  <3> QED BY <1>1, <3>1, <3>2 DEF TypeOK, vars, loopVars
 <2>10. TypeOK' /\ CoreInv' BY <1>3, <2>1, <2>2, <2>3, <2>4, <2>5, <2>6, <2>7, <2>8, <2>9 DEF Next
 <2>11. DownIsIdle' /\ ClockSane' BY <1>1, <1>3, DownStep, ClockStep
 <2> QED BY <2>10, <2>11 DEF IInv, ClaimInvariant, CoreInv
<1> QED BY <1>2, <1>3

LEMMA Invariance == Spec => []IInv
BY InitInv, NextInv, PTL DEF Spec

\* Every reachable state is well typed, whatever the bounds of an instance.
THEOREM TypeCorrect == Spec => []TypeOK
<1>1. IInv => TypeOK BY DEF IInv
<1> QED BY <1>1, Invariance, PTL

\* The claim protocol keeps its inductive invariant: claimMu is held by at
\* most one caller between its calls, what the scan saw of a chat is still so
\* when the claim is written, and a run id has a single owner.
THEOREM ClaimProtocol == Spec => []ClaimInvariant
<1>1. IInv => ClaimInvariant BY DEF IInv
<1> QED BY <1>1, Invariance, PTL

\* At most one task of a chat holds a claim, for any number of callers, tasks
\* and chats, through crashes and failed writes.
THEOREM ChatExclusion == Spec => []OneClaimPerChat
<1>1. IInv => OneClaimPerChat BY DEF IInv, ClaimInvariant
<1> QED BY <1>1, Invariance, PTL

\* A run that is executing is the active run of its task while the task exists.
THEOREM RunsAreClaimed == Spec => []RunHoldsClaim
<1>1. IInv => RunHoldsClaim BY DEF IInv, ClaimInvariant
<1> QED BY <1>1, Invariance, PTL

----
\* Nothing but the commit of a claim makes a claim.
NoNewClaim == \A u \in TaskIds : tasks'[u].active \in {tasks[u].active, NoRun}

LEMMA SaveMakesNoClaim ==
  ASSUME TypeOK, NEW t \in TaskIds, NEW n, NEW saved, Save(t, n, saved),
         n.active \in {tasks[t].active, NoRun}
  PROVE  NoNewClaim
BY DEF Save, NoNewClaim, TypeOK

LEMMA SameMakesNoClaim ==
  ASSUME UNCHANGED tasks
  PROVE  NoNewClaim
BY DEF NoNewClaim

LEMMA OtherStepsClaimNothing ==
  ASSUME TypeOK, CoreInv, Next, \A c \in Callers : ~ClaimCommit(c)
  PROVE  NoNewClaim
<1> USE TypeFacts
<1>1. ASSUME LoopStep
      PROVE  NoNewClaim
 <2>1. LoopList \/ LoopDelay \/ LoopWoken \/ LoopTimer => UNCHANGED tasks BY DEF LoopList, LoopDelay, LoopWoken, LoopTimer
 <2>2. ASSUME NEW v \in todo, LoopVisit(v)
       PROVE  NoNewClaim
  <3>1. v.task \in TaskIds /\ now \in Nat BY DEF TypeOK
  <3>2. /\ AuthPaused(tasks[v.task]).active = tasks[v.task].active
        /\ Deferred(tasks[v.task], now).active = tasks[v.task].active
   BY <3>1, AuthPausedType, DeferredType DEF Succeeds
  <3>3. \/ UNCHANGED tasks
        \/ \E outcome \in AuthOutcomes, saved \in SaveOutcomes :
             Save(v.task, IF outcome = "denied" THEN AuthPaused(tasks[v.task])
                          ELSE Deferred(tasks[v.task], now),
                  saved /\ Stored(v.task))
   BY <2>2 DEF LoopVisit
  <3> QED BY <3>1, <3>2, <3>3, SaveMakesNoClaim, SameMakesNoClaim
 <2> QED BY <1>1, <2>1, <2>2, SameMakesNoClaim DEF LoopStep
<1>2. ASSUME NEW c \in Callers, ClaimStep(c)
      PROVE  NoNewClaim
 <2>1. ClaimGet(c) \/ ClaimScan(c) \/ Dispatch(c) => UNCHANGED tasks BY DEF ClaimGet, ClaimScan, Dispatch
 <2>2. ASSUME Settle(c)
       PROVE  NoNewClaim
  <3>1. /\ Requeued(tasks[job[c].task], now).active = NoRun
        /\ Finished(tasks[job[c].task], "error").active = NoRun
   BY RequeuedType, FinishedType DEF TypeOK, Releases
  <3>2. \E n \in {tasks[job[c].task], Requeued(tasks[job[c].task], now),
                  Finished(tasks[job[c].task], "error")}, saved \in SaveOutcomes :
          Save(job[c].task, n, saved /\ Stored(job[c].task))
   BY <2>2 DEF Settle
  <3> QED BY <3>1, <3>2, SaveMakesNoClaim
 <2> QED BY <1>2, <2>1, <2>2, SameMakesNoClaim DEF ClaimStep
<1>3. ASSUME NEW c \in Clients, ClientStep(c)
      PROVE  NoNewClaim
 <2>1. ASSUME NEW t \in TaskIds, CreateCheck(c, t)
       PROVE  NoNewClaim
  BY <2>1, SameMakesNoClaim DEF CreateCheck
 <2>2. ASSUME NEW t \in TaskIds, RunNow(c, t)
       PROVE  NoNewClaim
  <3>1. AuthPaused(tasks[t]).active = tasks[t].active BY AuthPausedType DEF Succeeds
  <3>2. \/ UNCHANGED tasks
        \/ \E saved \in SaveOutcomes : Save(t, AuthPaused(tasks[t]), saved)
   BY <2>2 DEF RunNow
  <3> QED BY <3>1, <3>2, SaveMakesNoClaim, SameMakesNoClaim
 <2>3. CASE CreateCommit(c)
  <3>1. job[c].snap.active = NoRun BY <2>3 DEF CreateCommit, CoreInv, CreationsDistinct
  <3>2. \E saved \in SaveOutcomes : Save(job[c].task, job[c].snap, saved) BY <2>3 DEF CreateCommit
  <3> QED BY <3>1, <3>2, SaveMakesNoClaim
 <2> QED BY <1>3, <2>1, <2>2, <2>3 DEF ClientStep
<1>4. ASSUME NEW t \in TaskIds, TaskStep(t)
      PROVE  NoNewClaim
 <2>1. CASE Update(t)
  <3>1. PICK def \in Definitions \cup {tasks[t].def}, switch \in {"keep", "arm", "pause"},
             saved \in SaveOutcomes :
          Save(t, Updated(tasks[t], Normalized(def), switch, now), saved)
   BY <2>1 DEF Update
  <3>2. def \in Definition /\ now \in Nat BY SchedulerAssumption DEF Task, TypeOK
  <3>3. Updated(tasks[t], Normalized(def), switch, now).active = tasks[t].active BY <3>2, NormalizedType, UpdatedType DEF Succeeds
  <3> QED BY <3>1, <3>3, SaveMakesNoClaim
 <2>2. CASE Delete(t)
  <3>1. Blank("deleted").active = NoRun BY BlankType DEF Status
  <3>2. \E saved \in SaveOutcomes : Save(t, Blank("deleted"), saved) BY <2>2 DEF Delete
  <3> QED BY <3>1, <3>2, SaveMakesNoClaim
 <2>3. CASE Complete(t)
  <3>1. Completed(tasks[t]).active = tasks[t].active BY CompletedType DEF Succeeds
  <3>2. \E saved \in SaveOutcomes : Save(t, Completed(tasks[t]), saved) BY <2>3 DEF Complete
  <3> QED BY <3>1, <3>2, SaveMakesNoClaim
 <2>4. CASE Recover(t) BY <2>4, RecoveredType DEF Recover, Releases, NoNewClaim, TypeOK
 <2> QED BY <1>4, <2>1, <2>2, <2>3, <2>4 DEF TaskStep
<1>5. ASSUME NEW r \in RunIds, RunStep(r)
      PROVE  NoNewClaim
 <2> DEFINE t == flight[r].task
 <2>1. RunEnds(r) => UNCHANGED tasks BY DEF RunEnds
 <2>2. CASE Finish(r)
  <3>1. Finished(tasks[t], flight[r].stage).active = NoRun BY FinishedType DEF Releases
  <3>2. \E n \in {tasks[t], Finished(tasks[t], flight[r].stage)}, saved \in SaveOutcomes :
          Save(t, n, saved /\ Stored(t))
   BY <2>2 DEF Finish
  <3> QED BY <3>1, <3>2, SaveMakesNoClaim
 <2>3. CASE CompleteClaim(r)
  <3>1. Completed(tasks[t]).active = tasks[t].active BY CompletedType DEF Succeeds
  <3>2. \E saved \in SaveOutcomes : Save(t, Completed(tasks[t]), saved) BY <2>3 DEF CompleteClaim
  <3> QED BY <3>1, <3>2, SaveMakesNoClaim
 <2> QED BY <1>5, <2>1, <2>2, <2>3, SameMakesNoClaim DEF RunStep
<1>6. ASSUME NEW ch \in Chats, ChatStep(ch)
      PROVE  NoNewClaim
 BY <1>6, SameMakesNoClaim DEF ChatStep, HubRelease, UserPrompt, UserDone
<1>7. ASSUME Tick \/ Crash \/ Start \/ Quiescent
      PROVE  NoNewClaim
 BY <1>7, SameMakesNoClaim DEF Tick, Crash, Start, Quiescent, vars
<1> QED BY <1>1, <1>2, <1>3, <1>4, <1>5, <1>6, <1>7 DEF Next

\* A start is the commit of a claim whose task was claimable in the very
\* record that is overwritten.
LEMMA StartIsClaim ==
  ASSUME TypeOK, CoreInv, [Next]_vars, NEW t \in TaskIds, StartsIn(t)
  PROVE  \E c \in Callers :
           LET j == job[c] IN
           /\ ClaimCommit(c) /\ j.task = t /\ j.plan = "start"
           /\ Claimable(tasks[t], j.at, j.force)
           /\ tasks'[t] = Claimed(tasks[t], j.at, j.force, j.snap.pending, j.run)
<1> USE TypeFacts
<1>1. ~NoNewClaim BY DEF NoNewClaim, StartsIn
<1>2. PICK c \in Callers : ClaimCommit(c) BY <1>1, OtherStepsClaimNothing, SameMakesNoClaim DEF vars
<1>3. PICK saved : Save(job[c].task, ClaimedBy(c), saved) BY <1>2 DEF ClaimCommit
<1>4. job[c].plan = "start" => job[c].run # NoRun BY <1>2 DEF ClaimCommit, CoreInv, StartPlanned
<1>5. job[c].task = t /\ tasks'[t] = ClaimedBy(c) BY <1>3 DEF Save, StartsIn, TypeOK
<1>6. /\ job[c].plan = "start"
      /\ Claimable(tasks[t], job[c].at, job[c].force)
 BY <1>4, <1>5, ClaimedByType DEF StartsIn
<1> QED BY <1>2, <1>5, <1>6 DEF ClaimedBy

\* What is due stays due while the clock advances.
LEMMA DueStays ==
  ASSUME NEW k \in Task, NEW at \in Nat, NEW later \in Nat, at <= later, IsDue(k, at)
  PROVE  IsDue(k, later)
BY DEF IsDue, Task

\* An unforced start finds its task enabled and due, for any number of callers
\* and whatever users do between the calls of claim.
THEOREM UnforcedStartsAreDue == Spec => StartsOnlyWhenDue
<1>1. ASSUME IInv, [Next]_vars, NEW t \in TaskIds, Unforced(t)
      PROVE  tasks[t].enabled /\ IsDue(tasks[t], now)
 <2> USE TypeFacts
 <2>1. TypeOK /\ CoreInv /\ ClockSane /\ StartsIn(t) BY <1>1 DEF IInv, ClaimInvariant, CoreInv, Unforced
 <2>2. PICK c \in Callers :
         /\ Claimable(tasks[t], job[c].at, job[c].force)
         /\ tasks'[t] = Claimed(tasks[t], job[c].at, job[c].force, job[c].snap.pending,
                                job[c].run)
  BY <1>1, <2>1, StartIsClaim
 <2>3. tasks[t] \in Task /\ job[c].at \in Nat /\ now \in Nat /\ job[c].at <= now BY <2>1 DEF TypeOK, ClockSane
 <2>4. tasks'[t].activeForced = job[c].force BY <2>2, <2>3 DEF Claimed, Unqueued, Task
 <2>5. tasks[t].enabled /\ IsDue(tasks[t], job[c].at) BY <1>1, <2>2, <2>4 DEF Unforced, Claimable
 <2> QED BY <2>3, <2>5, DueStays
<1>2. IInv /\ [Next]_vars =>
        [\A t \in TaskIds : Unforced(t) => tasks[t].enabled /\ IsDue(tasks[t], now)]_vars
 BY <1>1
<1> QED BY <1>2, Invariance, PTL DEF Spec, StartsOnlyWhenDue
====
