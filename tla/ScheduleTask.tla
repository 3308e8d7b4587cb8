---- MODULE ScheduleTask ----
\* One durable scheduled task (backend/internal/service/schedule/model.go)
\* and the transformations that the callbacks of schedule.Service apply to
\* it inside one repository Update.  Every operator takes the stored
\* record and returns the record that is written back.
\*
\* Instants are natural numbers and 0 is the code's "not set".  Fields
\* that only describe the last run to a reader (lastRunStatus, lastError,
\* lastRunFinishedAt, pendingSince, updatedAt) are not modelled: nothing
\* in the scheduler branches on them.
EXTENDS Integers

CONSTANTS
  MinInterval,  \* SCHEDULE_MIN_INTERVAL, 0 when the floor is disabled
  BusyRetry,    \* Service.busyRetry
  RunIds,       \* the values newRunID can return
  NoRun         \* ActiveRunID == ""

ASSUME ScheduleTaskAssumption ==
  /\ MinInterval \in Nat
  /\ BusyRetry \in Nat \ {0}
  /\ NoRun \notin RunIds

----
\* A definition is what a client asks for.  "when" is the deadline of a once
\* task and the period of a cron task, which fires at its multiples.
Definition == [kind : {"once", "cron"}, when : Nat \ {0}, maxRuns : Nat,
               overlap : {"queue_one", "skip"}]

\* "absent" marks an id no task was created under yet, "deleted" one whose
\* task is gone; the others are the statuses of model.go.
Status == {"absent", "deleted", "active", "running", "paused", "completed",
           "exhausted", "error"}

Task == [def : Definition, enabled : BOOLEAN, status : Status, nextAt : Nat,
         runCount : Nat, lastAt : Nat, active : RunIds \cup {NoRun},
         activeForced : BOOLEAN, pending : BOOLEAN, pendingForced : BOOLEAN,
         retryAt : Nat]

----
\* Operators whose name ends in _Slip are plausible mistakes in the code of
\* the operator that follows; the mutation runs put them in its place to
\* show that a property notices.

\* normalizeTaskDefaults: a once task runs once.
Normalized(def) ==
  IF def.kind = "once" THEN [def EXCEPT !.maxRuns = 1] ELSE def

\* validateDefinition, with validateCronInterval for the recurrence.
Valid(def, at, requireFuture) ==
  \/ def.kind = "once" /\ (requireFuture => def.when > at)
  \/ def.kind = "cron" /\ def.when >= MinInterval

\* A delay from now where an instant is meant.
NextOccurrence_Slip(def, after) == def.when - after

NextOccurrence(def, after) ==
  IF def.kind = "once" THEN def.when ELSE ((after \div def.when) + 1) * def.when

NextAfterClaim(def, at) ==
  IF def.kind = "once" THEN 0 ELSE NextOccurrence(def, at)

IsDue(k, at) ==
  /\ k.retryAt <= at
  /\ \/ k.pending /\ k.active = NoRun /\ (k.enabled \/ k.pendingForced)
     \/ k.enabled /\ k.nextAt > 0 /\ k.nextAt <= at

\* taskDueAt, the order in which a pass visits the due tasks.
DueAt(k) ==
  CASE k.retryAt > 0 -> k.retryAt
    [] k.retryAt = 0 /\ k.pending /\ k.active = NoRun -> 0
    [] OTHER -> k.nextAt

\* MaxRuns > 0 && RunCount >= MaxRuns.
Spent(k) == k.def.maxRuns > 0 /\ k.runCount >= k.def.maxRuns

\* LastRunAt + minInterval, the earliest instant of the next unforced start.
Earliest(k) == k.lastAt + MinInterval

\* Off by one.
TooSoon_Slip(k, at) == MinInterval > 0 /\ k.lastAt > 0 /\ at + 1 < Earliest(k)

TooSoon(k, at) == MinInterval > 0 /\ k.lastAt > 0 /\ at < Earliest(k)

----
\* The field groups that the callbacks reset together.
Unqueued(k) ==
  [k EXCEPT !.pending = FALSE, !.pendingForced = FALSE, !.retryAt = 0]

\* Only an armed task gives its claim back.
Unclaimed_Slip(k) ==
  IF k.enabled THEN [k EXCEPT !.active = NoRun, !.activeForced = FALSE] ELSE k

Unclaimed(k) == [k EXCEPT !.active = NoRun, !.activeForced = FALSE]

Disarmed(k, status) ==
  [Unqueued(k) EXCEPT !.enabled = FALSE, !.status = status, !.nextAt = 0]

----
\* Service.Create.  A task minted by an agent is parked until a user arms it.
Created(def, at, byAgent) ==
  [def |-> def, enabled |-> ~byAgent,
   status |-> IF byAgent THEN "paused" ELSE "active",
   nextAt |-> IF byAgent THEN 0 ELSE NextOccurrence(def, at),
   runCount |-> 0, lastAt |-> 0, active |-> NoRun, activeForced |-> FALSE,
   pending |-> FALSE, pendingForced |-> FALSE, retryAt |-> 0]

\* Service.Update's callback: first the definition and the enabled switch
\* ("arm", "pause" or "keep"), then the run bound, then the new deadline.
Rescheduled(k, def) == k.def.kind # def.kind \/ k.def.when # def.when

\* Pausing also forgets the run in progress.
Switched_Slip(k, def, switch) ==
  CASE switch = "pause" -> [Unclaimed(Unqueued(k)) EXCEPT
                              !.def = def, !.enabled = FALSE, !.status = "paused"]
    [] switch = "arm"   ->
         [k EXCEPT !.def = def, !.enabled = TRUE, !.status = "active"]
    [] switch = "keep"  -> [k EXCEPT !.def = def]

Switched(k, def, switch) ==
  CASE switch = "pause" ->
         [Unqueued(k) EXCEPT !.def = def, !.enabled = FALSE, !.status = "paused"]
    [] switch = "arm"   ->
         [k EXCEPT !.def = def, !.enabled = TRUE, !.status = "active"]
    [] switch = "keep"  -> [k EXCEPT !.def = def]

\* An edit does not look at the run bound.
Capped_Slip(k) == k

Capped(k) ==
  IF Spent(k) THEN [Unqueued(k) EXCEPT !.enabled = FALSE, !.status = "exhausted"]
  ELSE k

Updated(k, def, switch, at) ==
  LET new == Capped(Switched(k, def, switch))
  IN  IF new.enabled /\ (Rescheduled(k, def) \/ switch = "arm")
      THEN [Unqueued(new) EXCEPT !.nextAt = NextOccurrence(def, at)]
      ELSE new

\* markCompleted, for Complete and CompleteClaim.
Completed(k) == Disarmed(k, "completed")

\* claim's run-bound branch.
Exhausted(k) == Disarmed(k, "exhausted")

\* claim's interval-floor branch: the occurrence is delayed, not consumed.
FloorDeferred(k, earliest) ==
  CASE k.pending /\ k.retryAt < earliest -> [k EXCEPT !.retryAt = earliest]
    [] ~k.pending /\ k.nextAt > 0 /\ k.nextAt < earliest ->
         [k EXCEPT !.nextAt = earliest]
    [] OTHER -> k

\* consumeOverlap: the chat, or the whole scheduler, has no room.
Skipped(k, at) ==
  LET new == [k EXCEPT !.runCount = @ + 1, !.lastAt = at]
  IN  IF new.def.kind = "once" \/ Spent(new)
      THEN [new EXCEPT !.enabled = FALSE, !.status = "exhausted", !.nextAt = 0]
      ELSE [new EXCEPT !.status = IF k.active = NoRun THEN "active" ELSE @]

Overlapped(k, at, force) ==
  LET due == IF force THEN k
             ELSE [k EXCEPT !.nextAt = NextAfterClaim(k.def, at)]
  IN  IF ~force /\ (~k.enabled \/ ~IsDue(k, at)) THEN k
      ELSE IF k.def.overlap = "queue_one"
           THEN [due EXCEPT !.pending = TRUE, !.pendingForced = @ \/ force]
           ELSE Skipped(due, at)

\* claim's final callback.  "queued" is PendingRun as claim first read it.
\* The callback changes nothing when the task stopped being claimable.
\* The write trusts what claim read before it listed the tasks.
Claimable_Slip(k, at, force) == k.active = NoRun

Claimable(k, at, force) ==
  (force \/ (k.enabled /\ IsDue(k, at))) /\ k.active = NoRun

Claimed(k, at, force, queued, run) ==
  LET advance == \/ ~queued /\ ~force
                 \/ queued /\ k.enabled /\ k.nextAt > 0 /\ k.nextAt <= at
  IN  [Unqueued(k) EXCEPT
         !.active = run, !.activeForced = force, !.runCount = @ + 1,
         !.lastAt = at, !.status = IF k.enabled THEN "running" ELSE @,
         !.nextAt = IF advance THEN NextAfterClaim(k.def, at) ELSE @]

\* finish, for the run that holds the claim.  A result is "ok", "error" or
\* "complete" (the completion marker ends the assistant's output).
Finished(k, result) ==
  LET free == Unclaimed(k) IN
  IF result = "complete" \/ (~k.enabled /\ k.status = "completed")
  THEN Disarmed(free, "completed")
  ELSE IF ~k.enabled
  THEN [free EXCEPT !.status = IF @ = "running" THEN "paused" ELSE @]
  ELSE IF k.def.kind = "once"
  THEN Disarmed(free, IF result = "error" THEN "error" ELSE "completed")
  ELSE IF Spent(k) THEN Disarmed(free, "exhausted")
  ELSE [free EXCEPT !.status = "active"]

\* requeueRejected: the executor had no room for a queue_one occurrence.
\* Only a manual occurrence returns to the queue.
Requeued_Slip(k, at) ==
  [Unclaimed(k) EXCEPT
     !.runCount = IF @ > 0 THEN @ - 1 ELSE 0, !.pending = k.activeForced,
     !.pendingForced = @ \/ k.activeForced, !.retryAt = at + BusyRetry,
     !.status = IF k.enabled THEN "active" ELSE @]

Requeued(k, at) ==
  [Unclaimed(k) EXCEPT
     !.runCount = IF @ > 0 THEN @ - 1 ELSE 0, !.pending = TRUE,
     !.pendingForced = @ \/ k.activeForced, !.retryAt = at + BusyRetry,
     !.status = IF k.enabled THEN "active" ELSE @]

\* pauseForAuthorization and deferAfterError.
AuthPaused(k) == Disarmed(k, "error")
Deferred(k, at) == [k EXCEPT !.retryAt = at + BusyRetry]

\* recoverClaims, for a task whose run the previous process abandoned.
Recovered(k) ==
  LET free == Unclaimed(k)
      Stopped(status) ==
        [free EXCEPT !.enabled = FALSE, !.status = status, !.nextAt = 0,
                     !.pending = FALSE, !.pendingForced = FALSE]
  IN  IF k.activeForced /\ ~k.enabled THEN free
      ELSE IF k.def.kind = "once" THEN Stopped("error")
      ELSE IF Spent(k) THEN Stopped("exhausted")
      ELSE [free EXCEPT !.status = IF k.enabled THEN "active" ELSE "paused"]

----
\* delayUntilNext: the instant a task asks the sleeping loop to wake at, 0
\* when it asks for none.
WakeAt(k, at) ==
  IF ~k.enabled /\ ~k.pendingForced THEN 0
  ELSE IF k.retryAt > at /\ (k.pending \/ k.nextAt <= at) THEN k.retryAt
  ELSE k.nextAt
====
