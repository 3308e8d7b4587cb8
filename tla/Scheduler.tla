---- MODULE Scheduler ----
\* The scheduled-task engine, backend/internal/service/schedule: the single
\* scheduler loop, the client operations that run beside it on HTTP
\* handlers, the claim protocol that decides which occurrence may start,
\* and the goroutine per run that settles a claim.  The task store
\* (stores/fileschedule) is one atomically replaced document; the run hub
\* (service/runhub) and the prompt service appear as the one-run-per-chat
\* lock and the in-flight runs the executor hands out.
\*
\* A caller is the loop or a client goroutine.  Every caller that wants to
\* start a run goes through the same claim: get the task, list all tasks,
\* commit, all under claimMu, and then dispatches outside it.
EXTENDS ScheduleTask, FiniteSets

CONSTANTS
  TaskIds,        \* ids newID can mint
  Chats,          \* chats with a run hub room
  ChatOf,         \* the chat a task is created for; no update changes it
  Clients,        \* concurrent HTTP handlers
  Loop,           \* the scheduler goroutine
  Nobody,         \* the holder of a free claimMu
  Definitions,    \* definitions clients ask for
  OnDisk,         \* definitions of the tasks an earlier process left on disk
  MaxConcurrent,  \* SCHEDULE_MAX_CONCURRENT, 0 when there is no cap
  Quota,          \* SCHEDULE_MAX_TASKS_PER_PROJECT, 0 when there is none
  Free,           \* the room of a chat that runs nothing
  User,           \* the room of a chat that runs a user's prompt
  \* Bounds and switches of a finite instance.
  MaxTime,        \* the clock stops here
  MaxOps,         \* client operations and crashes in a behaviour
  Ops,            \* which operations clients use, and "crash"
  AuthOutcomes,   \* what authorizeRun may answer
  WritesFail      \* TRUE when a store write may fail

Callers == Clients \cup {Loop}

ASSUME SchedulerAssumption ==
  /\ Loop \notin Clients /\ Nobody \notin Callers
  /\ TaskIds # {} /\ IsFiniteSet(TaskIds) /\ ChatOf \in [TaskIds -> Chats]
  /\ Definitions \subseteq Definition /\ OnDisk \subseteq Definition
  /\ MaxConcurrent \in Nat /\ Quota \in Nat /\ MaxTime \in Nat /\ MaxOps \in Nat
  /\ Free \notin RunIds /\ User \notin RunIds /\ Free # User
  /\ AuthOutcomes \subseteq {"ok", "denied", "transient"}
  /\ WritesFail \in BOOLEAN

VARIABLES
  now,         \* the wall clock
  tasks,       \* tasks.json, which survives a crash
  up,          \* Start has returned
  wake,        \* the buffered wake channel holds a token
  lock,        \* the caller that holds claimMu
  pc,          \* where each caller is
  job,         \* the occurrence each caller works on
  todo,        \* due snapshots the loop has still to visit in this pass
  passAt,      \* the instant the pass was started at
  failed,      \* RunDue collected an error in this pass
  sleepUntil,  \* the loop's timer, 0 when it waits for the wake channel only
  hub,         \* runhub room of each chat: Free, User or a run id
  flight,      \* runs the executor accepted, until finish and FinishRun
  budget       \* client operations left

loopVars == <<todo, passAt, failed, sleepUntil>>
vars == <<now, tasks, up, wake, lock, pc, job, loopVars, hub, flight, budget>>

----
Stored(t) == tasks[t].status \notin {"absent", "deleted"}
Store == {t \in TaskIds : Stored(t)}

ClaimSteps == {"scan", "commit"}
Locations == {"idle", "create", "claim", "dispatch", "settle", "list", "visit",
              "asleep"} \cup ClaimSteps
Plans == {"none", "exhaust", "floor", "overlap", "start"}
Results == {"ok", "error", "complete"}
Stages == {"none", "going"} \cup Results

Definition0 == [kind |-> "once", when |-> 1, maxRuns |-> 1, overlap |-> "skip"]
Blank(status) ==
  [Created(Definition0, 0, TRUE) EXCEPT !.status = status]

\* What claim keeps on its stack: the task, whether the start is forced, the
\* caller's clock, the record Get returned, the branch it chose and the run id.
Job == [task : TaskIds, force : BOOLEAN, at : Nat, snap : Task, plan : Plans,
        run : RunIds \cup {NoRun}]
NoTask == CHOOSE t \in TaskIds : TRUE
NoJob == [task |-> NoTask, force |-> FALSE, at |-> 0, snap |-> Blank("absent"),
          plan |-> "none", run |-> NoRun]

\* newRunID draws 96 random bits: an id nobody holds.
Held == {tasks[t].active : t \in TaskIds} \cup {job[c].run : c \in Callers}
        \cup {r \in RunIds : flight[r].stage # "none"}
        \cup {hub[ch] : ch \in Chats}
NoFlight == [stage |-> "none", task |-> NoTask]

TypeOK ==
  /\ now \in Nat /\ passAt \in Nat /\ sleepUntil \in Nat /\ budget \in Nat
  /\ tasks \in [TaskIds -> Task]
  /\ up \in BOOLEAN /\ wake \in BOOLEAN /\ failed \in BOOLEAN
  /\ lock \in Callers \cup {Nobody}
  /\ pc \in [Callers -> Locations]
  /\ job \in [Callers -> Job]
  /\ todo \subseteq [task : TaskIds, due : Nat]
  /\ hub \in [Chats -> RunIds \cup {Free, User}]
  /\ flight \in [RunIds -> [stage : Stages, task : TaskIds]]

\* The process starts on the document an earlier one left behind, here with
\* tasks that were created and never ran; crashes reach every other document.
Loaded == {Blank("absent")} \cup {Created(Normalized(def), 0, FALSE) : def \in OnDisk}

Init ==
  /\ now = 1
  /\ tasks \in [TaskIds -> Loaded]
  /\ up = TRUE
  /\ wake = FALSE
  /\ lock = Nobody
  /\ pc = [c \in Callers |-> IF c = Loop THEN "list" ELSE "idle"]
  /\ job = [c \in Callers |-> NoJob]
  /\ todo = {} /\ passAt = 0 /\ failed = FALSE /\ sleepUntil = 0
  /\ hub = [ch \in Chats |-> Free]
  /\ flight = [r \in RunIds |-> NoFlight]
  /\ budget = MaxOps

----
\* A repository Update that writes record k for task t.  A write that fails
\* leaves the old document in place and is the caller's error.
SaveOutcomes == IF WritesFail THEN BOOLEAN ELSE {TRUE}
Save(t, k, saved) == tasks' = IF saved THEN [tasks EXCEPT ![t] = k] ELSE tasks

\* notify: a token that is already there is enough.
\* (Slip: a channel without a buffer, so that a token for a busy loop is lost.)
Notify_Slip(saved) == wake' = (wake \/ (saved /\ pc[Loop] = "asleep"))

Notify(saved) == wake' = (wake \/ saved)

Goto(c, location) == pc' = [pc EXCEPT ![c] = location]
Back(c) == IF c = Loop THEN "visit" ELSE "idle"
\* The caller is done with its occurrence; only the loop collects errors.
Leave(c, error) ==
  /\ Goto(c, Back(c))
  /\ job' = [job EXCEPT ![c] = NoJob]
  /\ failed' = (failed \/ (error /\ c = Loop))

----
\* The scheduler loop: RunDue's pass over the tasks that were due when it
\* listed them, then the sleep that delayUntilNext chooses.
LoopList ==
  /\ up /\ pc[Loop] = "list"
  /\ passAt' = now
  /\ todo' = {[task |-> t, due |-> DueAt(tasks[t])] :
                t \in {u \in Store : IsDue(tasks[u], now)}}
  /\ Goto(Loop, "visit")
  /\ UNCHANGED <<now, tasks, up, wake, lock, job, failed, sleepUntil, hub, flight,
                 budget>>

\* authorizeRun answers for the visited task.  A permanent refusal disables
\* the task, any other failure postpones it; neither wakes the loop.
LoopVisit(v) ==
  /\ up /\ pc[Loop] = "visit" /\ v \in todo
  /\ \A w \in todo : v.due <= w.due
  /\ todo' = todo \ {v}
  /\ \/ /\ "ok" \in AuthOutcomes
        /\ job' = [job EXCEPT ![Loop] = [NoJob EXCEPT !.task = v.task, !.at = passAt]]
        /\ Goto(Loop, "claim")
        /\ UNCHANGED <<tasks, failed>>
     \/ /\ \E outcome \in AuthOutcomes \ {"ok"}, saved \in SaveOutcomes :
             Save(v.task, IF outcome = "denied" THEN AuthPaused(tasks[v.task])
                          ELSE Deferred(tasks[v.task], now),
                  saved /\ Stored(v.task))
        /\ failed' = TRUE
        /\ UNCHANGED <<pc, job>>
  /\ UNCHANGED <<now, up, wake, lock, passAt, sleepUntil, hub, flight, budget>>

\* delayUntilNext: the earliest instant a task asks for, or none at all.
Asks == {WakeAt(tasks[t], now) : t \in Store} \ {0}

Soonest_Slip == {x \in Asks : \A y \in Asks : x >= y}
Soonest == {x \in Asks : \A y \in Asks : x <= y}

\* The timer is not set in the past, nor before the retry interval after a
\* failed pass.  A pass that asks for nothing waits for the wake channel alone.
\* (Slip: a failed pass goes round again at once.)
Timer_Slip(next) == IF next > 0 /\ next < now THEN now ELSE next
Timer(next) ==
  LET alarm == IF next > 0 /\ next < now THEN now ELSE next
  IN  IF failed /\ alarm < now + BusyRetry THEN now + BusyRetry ELSE alarm

LoopDelay ==
  /\ up /\ pc[Loop] = "visit" /\ todo = {}
  /\ \E next \in IF Asks = {} THEN {0} ELSE Soonest : sleepUntil' = Timer(next)
  /\ passAt' = 0 /\ failed' = FALSE
  /\ Goto(Loop, "asleep")
  /\ UNCHANGED <<now, tasks, up, wake, lock, job, todo, hub, flight, budget>>

LoopWoken ==
  /\ up /\ pc[Loop] = "asleep" /\ wake
  /\ wake' = FALSE /\ sleepUntil' = 0
  /\ Goto(Loop, "list")
  /\ UNCHANGED <<now, tasks, up, lock, job, todo, passAt, failed, hub, flight, budget>>

LoopTimer ==
  /\ up /\ pc[Loop] = "asleep" /\ sleepUntil # 0 /\ now >= sleepUntil
  /\ sleepUntil' = 0
  /\ Goto(Loop, "list")
  /\ UNCHANGED <<now, tasks, up, wake, lock, job, todo, passAt, failed, hub, flight,
                 budget>>

----
\* claim, in the three repository calls it makes while it holds claimMu.
ClaimGet(c) ==
  LET t     == job[c].task
      k     == tasks[t]
      force == job[c].force \/ k.pendingForced
      plan  == IF ~force /\ Spent(k) THEN "exhaust"
               ELSE IF ~force /\ TooSoon(k, job[c].at) THEN "floor" ELSE "none"
      due   == force \/ (k.enabled /\ IsDue(k, job[c].at))
  IN  /\ up /\ pc[c] = "claim" /\ lock = Nobody
      /\ \/ /\ Stored(t) /\ due
            /\ lock' = c
            /\ job' = [job EXCEPT ![c] = [@ EXCEPT !.force = force, !.snap = k,
                                                   !.plan = plan]]
            /\ Goto(c, IF plan = "none" THEN "scan" ELSE "commit")
            /\ UNCHANGED failed
         \/ /\ ~(Stored(t) /\ due)
            /\ Leave(c, ~Stored(t))
            /\ UNCHANGED lock
      /\ UNCHANGED <<now, tasks, up, wake, todo, passAt, sleepUntil, hub, flight,
                     budget>>

\* The chat is busy when any of its tasks holds a claim; the scheduler is
\* full when the claims of all chats reach the cap.
\* (Slip: looks at the task's own claim only.)
ChatBusy_Slip(c) == job[c].snap.active # NoRun

ChatBusy(c) ==
  \/ job[c].snap.active # NoRun
  \/ \E t \in Store \ {job[c].task} :
        ChatOf[t] = ChatOf[job[c].task] /\ tasks[t].active # NoRun

Claims == {t \in Store : tasks[t].active # NoRun}
\* (Slip: off by one.)
Saturated_Slip(c) ==
  ~job[c].force /\ MaxConcurrent > 0 /\ Cardinality(Claims) > MaxConcurrent

Saturated(c) ==
  ~job[c].force /\ MaxConcurrent > 0 /\ Cardinality(Claims) >= MaxConcurrent

ClaimScan(c) ==
  /\ up /\ pc[c] = "scan"
  /\ \/ /\ ChatBusy(c) \/ Saturated(c)
        /\ job' = [job EXCEPT ![c].plan = "overlap"]
     \/ /\ ~ChatBusy(c) /\ ~Saturated(c)
        /\ \E r \in RunIds \ Held :
             job' = [job EXCEPT ![c] = [@ EXCEPT !.plan = "start", !.run = r]]
  /\ Goto(c, "commit")
  /\ UNCHANGED <<now, tasks, up, wake, lock, loopVars, hub, flight, budget>>

\* The Update applies the chosen branch to whatever the task is by now.
ClaimedBy(c) ==
  LET j == job[c]
      k == tasks[j.task]
  IN  CASE j.plan = "exhaust" -> Exhausted(k)
        [] j.plan = "floor"   -> FloorDeferred(k, Earliest(j.snap))
        [] j.plan = "overlap" -> Overlapped(k, j.at, j.force)
        [] j.plan = "start" /\ Claimable(k, j.at, j.force) ->
             Claimed(k, j.at, j.force, j.snap.pending, j.run)
        [] OTHER -> k

ClaimCommit(c) ==
  LET t == job[c].task
      starts == job[c].plan = "start"
                /\ Claimable(tasks[t], job[c].at, job[c].force)
  IN  /\ up /\ pc[c] = "commit"
      /\ lock' = Nobody
      /\ \E saved \in SaveOutcomes :
           /\ Save(t, ClaimedBy(c), saved /\ Stored(t))
           /\ \/ /\ saved /\ Stored(t) /\ starts
                 /\ job' = [job EXCEPT ![c].snap = ClaimedBy(c)]
                 /\ Goto(c, "dispatch")
                 /\ UNCHANGED failed
              \/ /\ ~(saved /\ Stored(t) /\ starts)
                 /\ Leave(c, ~(saved /\ Stored(t)))
      /\ UNCHANGED <<now, up, wake, todo, passAt, sleepUntil, hub, flight, budget>>

----
\* StartRun: one prompt per room.  (Slip: only users' prompts take the room.)
HasRoom_Slip(ch) == hub[ch] # User
HasRoom(ch) == hub[ch] = Free

\* dispatch hands the claim to the executor, which takes the chat's run lock
\* or reports busy (also while the maintenance gate is closed).
Dispatch(c) ==
  LET ch == ChatOf[job[c].task] IN
  /\ up /\ pc[c] = "dispatch"
  /\ \/ /\ HasRoom(ch)
        /\ hub' = [hub EXCEPT ![ch] = job[c].run]
        /\ flight' = [flight EXCEPT ![job[c].run] =
                        [stage |-> "going", task |-> job[c].task]]
        /\ Leave(c, FALSE)
     \/ /\ ~HasRoom(ch) \/ "maintenance" \in Ops
        /\ Goto(c, "settle")
        /\ UNCHANGED <<hub, flight, job, failed>>
  /\ UNCHANGED <<now, tasks, up, wake, lock, todo, passAt, sleepUntil, budget>>

\* A rejected queue_one occurrence goes back to the queue, a rejected skip
\* occurrence is a failed run.  Both callbacks act on the claim they made only.
Settle(c) ==
  LET t      == job[c].task
      queue  == job[c].snap.def.overlap = "queue_one"
      k      == IF tasks[t].active # job[c].run THEN tasks[t]
                ELSE IF queue THEN Requeued(tasks[t], now)
                ELSE Finished(tasks[t], "error")
  IN  /\ up /\ pc[c] = "settle"
      /\ \E saved \in SaveOutcomes :
           /\ Save(t, k, saved /\ Stored(t))
           /\ Notify(saved /\ Stored(t))
           /\ Leave(c, ~(queue /\ saved /\ Stored(t)))
      /\ UNCHANGED <<now, up, lock, todo, passAt, sleepUntil, hub, flight, budget>>

\* The prompt goroutine sends its result first and releases the chat's run
\* lock afterwards; the scheduler's goroutine settles the claim in between or
\* later.
RunEnds(r) ==
  /\ up /\ flight[r].stage = "going"
  /\ \E result \in Results : flight' = [flight EXCEPT ![r].stage = result]
  /\ UNCHANGED <<now, tasks, up, wake, lock, pc, job, loopVars, hub, budget>>

HubRelease(ch) ==
  /\ up /\ hub[ch] \in RunIds /\ flight[hub[ch]].stage # "going"
  /\ hub' = [hub EXCEPT ![ch] = Free]
  /\ UNCHANGED <<now, tasks, up, wake, lock, pc, job, loopVars, flight, budget>>

Finish(r) ==
  LET t == flight[r].task
      k == IF tasks[t].active = r THEN Finished(tasks[t], flight[r].stage)
           ELSE tasks[t]
  IN  /\ up /\ flight[r].stage \in Results
      /\ \E saved \in SaveOutcomes :
           /\ Save(t, k, saved /\ Stored(t))
           /\ Notify(saved /\ Stored(t))
      /\ flight' = [flight EXCEPT ![r] = NoFlight]
      /\ UNCHANGED <<now, up, lock, pc, job, loopVars, hub, budget>>

\* The agent of a running turn reports its own schedule as complete; the
\* handler may still be under way when the turn has ended.
CompleteClaim(r) ==
  LET t == flight[r].task IN
  /\ up /\ "completeClaim" \in Ops
  /\ flight[r].stage # "none" /\ tasks[t].active = r
  /\ tasks[t].status # "completed"
  /\ \E saved \in SaveOutcomes :
       Save(t, Completed(tasks[t]), saved) /\ Notify(saved)
  /\ UNCHANGED <<now, up, lock, pc, job, loopVars, hub, flight, budget>>

----
\* Client operations.  Each spends one unit of the bound on operations.
Requested(op) == up /\ op \in Ops /\ budget > 0 /\ budget' = budget - 1

\* Terminal tasks are history and do not count against the quota.
Standing ==
  {t \in Store : tasks[t].status \notin {"completed", "exhausted", "error"}}
QuotaLeft == Quota = 0 \/ Cardinality(Standing) < Quota

Reserved == {job[c].task : c \in {d \in Clients : pc[d] = "create"}}

\* Create lists the tasks for the quota and stores the new one afterwards.
CreateCheck(c, t) ==
  /\ Requested("create") /\ pc[c] = "idle"
  /\ tasks[t].status = "absent" /\ t \notin Reserved
  /\ \E def \in Definitions,
        byAgent \in IF "agentCreate" \in Ops THEN BOOLEAN ELSE {FALSE} :
       LET normal == Normalized(def) IN
       /\ Valid(normal, now, TRUE) /\ QuotaLeft
       /\ job' = [job EXCEPT ![c] = [NoJob EXCEPT
                    !.task = t, !.snap = Created(normal, now, byAgent)]]
  /\ Goto(c, "create")
  /\ UNCHANGED <<now, tasks, up, wake, lock, loopVars, hub, flight>>

CreateCommit(c) ==
  /\ up /\ pc[c] = "create"
  /\ \E saved \in SaveOutcomes :
       Save(job[c].task, job[c].snap, saved) /\ Notify(saved)
  /\ Leave(c, FALSE)
  /\ UNCHANGED <<now, up, lock, todo, passAt, sleepUntil, hub, flight, budget>>

Update(t) ==
  /\ Requested("update") /\ Stored(t)
  /\ \E def \in Definitions \cup {tasks[t].def}, switch \in {"keep", "arm", "pause"},
        saved \in SaveOutcomes :
       LET normal == Normalized(def) IN
       /\ Valid(normal, now, Rescheduled(tasks[t], normal) \/ switch = "arm")
       /\ Save(t, Updated(tasks[t], normal, switch, now), saved)
       /\ Notify(saved)
  /\ UNCHANGED <<now, up, lock, pc, job, loopVars, hub, flight>>

Delete(t) ==
  /\ Requested("delete") /\ Stored(t)
  /\ \E saved \in SaveOutcomes : Save(t, Blank("deleted"), saved) /\ Notify(saved)
  /\ UNCHANGED <<now, up, lock, pc, job, loopVars, hub, flight>>

Complete(t) ==
  /\ Requested("complete") /\ Stored(t)
  /\ \E saved \in SaveOutcomes :
       Save(t, Completed(tasks[t]), saved) /\ Notify(saved)
  /\ UNCHANGED <<now, up, lock, pc, job, loopVars, hub, flight>>

\* RunNow claims with force, or disables the task when its owner lost access.
RunNow(c, t) ==
  /\ Requested("runNow") /\ pc[c] = "idle" /\ Stored(t)
  /\ \/ /\ "ok" \in AuthOutcomes
        /\ job' = [job EXCEPT ![c] = [NoJob EXCEPT !.task = t, !.force = TRUE,
                                                  !.at = now]]
        /\ Goto(c, "claim")
        /\ UNCHANGED tasks
     \/ /\ "denied" \in AuthOutcomes
        /\ \E saved \in SaveOutcomes : Save(t, AuthPaused(tasks[t]), saved)
        /\ UNCHANGED <<pc, job>>
  /\ UNCHANGED <<now, up, wake, lock, loopVars, hub, flight>>

\* A user's prompt takes and releases the run lock of a chat.
UserPrompt(ch) ==
  /\ up /\ "prompt" \in Ops /\ HasRoom(ch)
  /\ hub' = [hub EXCEPT ![ch] = User]
  /\ UNCHANGED <<now, tasks, up, wake, lock, pc, job, loopVars, flight, budget>>

UserDone(ch) ==
  /\ up /\ hub[ch] = User
  /\ hub' = [hub EXCEPT ![ch] = Free]
  /\ UNCHANGED <<now, tasks, up, wake, lock, pc, job, loopVars, flight, budget>>

----
Tick ==
  /\ now < MaxTime
  /\ now' = now + 1
  /\ UNCHANGED <<tasks, up, wake, lock, pc, job, loopVars, hub, flight, budget>>

\* The process ends without Close: only tasks.json survives.
Crash ==
  /\ Requested("crash")
  /\ up' = FALSE /\ wake' = FALSE /\ lock' = Nobody
  /\ pc' = [c \in Callers |-> IF c = Loop THEN "list" ELSE "idle"]
  /\ job' = [c \in Callers |-> NoJob]
  /\ todo' = {} /\ passAt' = 0 /\ failed' = FALSE /\ sleepUntil' = 0
  /\ hub' = [ch \in Chats |-> Free]
  /\ flight' = [r \in RunIds |-> NoFlight]
  /\ UNCHANGED <<now, tasks>>

\* Start: recoverClaims settles every abandoned claim before the loop runs.
Recover(t) ==
  /\ ~up /\ tasks[t].active # NoRun
  /\ tasks' = [tasks EXCEPT ![t] = Recovered(@)]
  /\ UNCHANGED <<now, up, wake, lock, pc, job, loopVars, hub, flight, budget>>

Start ==
  /\ ~up /\ \A t \in TaskIds : tasks[t].active = NoRun
  /\ up' = TRUE
  /\ UNCHANGED <<now, tasks, wake, lock, pc, job, loopVars, hub, flight, budget>>

\* Everything that was started is over and the loop sleeps for good.
Quiescent ==
  /\ up /\ now = MaxTime /\ pc[Loop] = "asleep" /\ ~wake
  /\ sleepUntil = 0 \/ sleepUntil > now
  /\ \A c \in Clients : pc[c] = "idle"
  /\ \A r \in RunIds : flight[r].stage = "none"
  /\ \A ch \in Chats : hub[ch] = Free
  /\ UNCHANGED vars

LoopStep == LoopList \/ (\E v \in todo : LoopVisit(v)) \/ LoopDelay
            \/ LoopWoken \/ LoopTimer
ClaimStep(c) == ClaimGet(c) \/ ClaimScan(c) \/ ClaimCommit(c) \/ Dispatch(c)
                \/ Settle(c)
ClientStep(c) == (\E t \in TaskIds : CreateCheck(c, t) \/ RunNow(c, t))
                 \/ CreateCommit(c)
TaskStep(t) == Update(t) \/ Delete(t) \/ Complete(t) \/ Recover(t)
RunStep(r) == RunEnds(r) \/ Finish(r) \/ CompleteClaim(r)
ChatStep(ch) == HubRelease(ch) \/ UserPrompt(ch) \/ UserDone(ch)

Next ==
  \/ LoopStep
  \/ \E c \in Callers : ClaimStep(c)
  \/ \E c \in Clients : ClientStep(c)
  \/ \E t \in TaskIds : TaskStep(t)
  \/ \E r \in RunIds : RunStep(r)
  \/ \E ch \in Chats : ChatStep(ch)
  \/ Tick \/ Crash \/ Start \/ Quiescent

Spec == Init /\ [][Next]_vars

----
\* What the code's own scheduling guarantees: goroutines that can run do run,
\* mutexes are handed over, a turn ends.  Clients and the clock owe nothing.
Fairness ==
  /\ WF_vars(LoopStep)
  /\ \A c \in Callers : WF_vars(ClaimStep(c))
  /\ \A c \in Clients : WF_vars(CreateCommit(c))
  /\ \A r \in RunIds : WF_vars(RunEnds(r)) /\ WF_vars(Finish(r))
  /\ \A ch \in Chats : WF_vars(HubRelease(ch)) /\ WF_vars(UserDone(ch))
  /\ \A t \in TaskIds : WF_vars(Recover(t))
  /\ WF_vars(Start)

FairSpec == Spec /\ Fairness

----
\* Safety of the claim protocol (claim, dispatch, finish, recoverClaims).

\* Chat-level exclusion: whoever claims, in whatever order lists, updates,
\* deletes and completions fall between the calls of claim, at most one task
\* of a chat holds a claim.
OneClaimPerChat ==
  \A t, u \in TaskIds :
    ChatOf[t] = ChatOf[u] /\ tasks[t].active # NoRun /\ tasks[u].active # NoRun
      => t = u

\* The claim is on disk before the agent starts and stays there until its own
\* result is settled: a run that is executing is the active run of its task,
\* as long as the task exists.  CompleteClaim and finish rely on it.
RunHoldsClaim ==
  \A r \in RunIds :
    flight[r].stage # "none" /\ Stored(flight[r].task)
      => tasks[flight[r].task].active = r

\* No claim is orphaned in a running process: some caller is about to dispatch
\* or settle it, or the executor works on it.  An orphan would block its chat
\* and a slot of the cap until the next restart.
ClaimHasRunner ==
  up => \A t \in TaskIds : tasks[t].active # NoRun =>
    \/ \E c \in Callers : pc[c] \in {"dispatch", "settle"} /\ job[c].task = t
                          /\ job[c].run = tasks[t].active
    \/ flight[tasks[t].active].stage # "none" /\ flight[tasks[t].active].task = t

\* A chat never executes two scheduled prompts at once, even when deleting the
\* running task hides its claim from the claim layer.
OneRunPerChat ==
  \A r, q \in RunIds :
    flight[r].stage = "going" /\ flight[q].stage = "going"
      /\ ChatOf[flight[r].task] = ChatOf[flight[q].task] => r = q

\* What runs and what is claimed agree, in both directions.
RunsMatchClaims == ClaimHasRunner /\ OneRunPerChat

----
\* Why the claim protocol works: the inductive strengthening of the invariants
\* above, which SchedulerProofs shows to be preserved by every step.
LockHeld == \A c \in Callers : pc[c] \in ClaimSteps => lock = c

\* A record outside the store holds no claim.
GoneIsIdle == \A t \in TaskIds : ~Stored(t) => tasks[t].active = NoRun

\* A run id has one owner: the caller that drew it, until its flight has it.
RunIdsUnique ==
  /\ \A c \in Callers : job[c].run # NoRun =>
       /\ flight[job[c].run].stage = "none"
       /\ \A ch \in Chats : hub[ch] # job[c].run
       /\ \A d \in Callers : job[d].run = job[c].run => d = c
       /\ pc[c] \in {"commit", "dispatch", "settle"}
       /\ pc[c] = "commit" => \A t \in TaskIds : tasks[t].active # job[c].run
  /\ \A t, u \in TaskIds :
       tasks[t].active = tasks[u].active /\ tasks[t].active # NoRun => t = u

\* What ClaimScan saw of the chat still holds when the claim is written.
StartPlanned ==
  \A c \in Callers : pc[c] = "commit" /\ job[c].plan = "start" =>
    /\ job[c].run # NoRun
    /\ \A u \in TaskIds \ {job[c].task} :
         ChatOf[u] = ChatOf[job[c].task] => tasks[u].active = NoRun

\* A caller about to dispatch or settle holds the claim of its task.
GrantHeld ==
  \A c \in Callers : pc[c] \in {"dispatch", "settle"} =>
    /\ job[c].run # NoRun
    /\ tasks[job[c].task].status # "absent"
    /\ Stored(job[c].task) => tasks[job[c].task].active = job[c].run

\* The id of a task whose run is under way is never minted again.
FlightHeld ==
  \A r \in RunIds : flight[r].stage # "none" => tasks[flight[r].task].status # "absent"

\* Two creations never share an id, and no task has that id yet.
CreationsDistinct ==
  \A c \in Clients : pc[c] = "create" =>
    /\ tasks[job[c].task].status = "absent"
    /\ job[c].snap.active = NoRun /\ job[c].snap.status \notin {"absent", "deleted"}
    /\ \A d \in Clients : pc[d] = "create" /\ job[d].task = job[c].task => d = c

\* A process that is down runs nothing.
DownIsIdle ==
  ~up => /\ \A c \in Callers : pc[c] \in {"list", "idle"} /\ job[c].run = NoRun
         /\ \A r \in RunIds : flight[r].stage = "none"

\* No caller works with an instant of the future.
ClockSane == passAt <= now /\ \A c \in Callers : job[c].at <= now

ClaimInvariant ==
  /\ LockHeld /\ GoneIsIdle /\ RunIdsUnique /\ StartPlanned /\ GrantHeld
  /\ FlightHeld /\ CreationsDistinct /\ DownIsIdle /\ ClockSane
  /\ OneClaimPerChat /\ RunHoldsClaim

----
\* What a start may never do.  A step starts t when it writes a claim on it.
StartsIn(t) == tasks[t].active = NoRun /\ tasks'[t].active # NoRun
Unforced(t) == StartsIn(t) /\ ~tasks'[t].activeForced

\* An unforced start finds its task enabled and due in the very record it
\* overwrites, although claim decided on records it read earlier and users
\* paused, moved, completed or deleted tasks in the meantime.
StartsOnlyWhenDue ==
  [][\A t \in TaskIds : Unforced(t) => tasks[t].enabled /\ IsDue(tasks[t], now)]_vars

\* The dispatch cap: an unforced start never makes more claims than the cap.
CapRespected ==
  [][\A t \in TaskIds : Unforced(t) /\ MaxConcurrent > 0
       => Cardinality({u \in TaskIds : tasks'[u].active # NoRun}) <= MaxConcurrent]_vars

\* Two starts of a task, the second not forced, are the floor apart on the
\* clock the scheduler stamps them with, when there is a floor.
FloorRespected ==
  [][\A t \in TaskIds : Unforced(t) /\ tasks[t].lastAt > 0 /\ MinInterval > 0
       => tasks'[t].lastAt >= tasks[t].lastAt + MinInterval]_vars

\* The run bound: the schedule alone never starts a task more than maxRuns
\* times, across retries, crashes and edits of the bound, and so never starts
\* a once task twice.
MaxRunsRespected ==
  [][\A t \in TaskIds : Unforced(t) /\ tasks[t].def.maxRuns > 0
       => tasks[t].runCount < tasks[t].def.maxRuns]_vars

\* What bounds the starts of the schedule: the cap, the floor and the run bound,
\* whatever users force, edit and move in between.
LimitsRespected == CapRespected /\ FloorRespected /\ MaxRunsRespected

\* An occurrence of an armed queue_one task is owed from its deadline until
\* the executor accepts a run for it, through overlaps, cap saturation and
\* rejections: a rejected start is queued by the policy it was claimed under.
Owed(t) ==
  /\ Stored(t) /\ tasks[t].enabled /\ tasks[t].def.overlap = "queue_one"
  /\ \/ tasks[t].pending
     \/ tasks[t].nextAt > 0 /\ tasks[t].nextAt <= now
     \/ \E c \in Callers : /\ pc[c] \in {"dispatch", "settle"} /\ job[c].task = t
                            /\ job[c].snap.def.overlap = "queue_one"

\* As long as the task stays armed and queue_one, only a user's edit or a crash
\* of the process that already claimed the occurrence ends the debt otherwise;
\* the interval floor puts it off by no more than the interval.
OccurrenceKept ==
  [][\A t \in TaskIds :
       Owed(t) /\ ~Owed(t)' /\ up' /\ tasks'[t].enabled /\ tasks'[t].def.overlap = "queue_one"
         => \/ \E r \in RunIds : flight[r].stage = "none" /\ flight'[r].stage = "going"
                                   /\ flight'[r].task = t
            \/ tasks'[t].nextAt > now /\ budget' < budget
            \/ MinInterval > 0 /\ tasks'[t].nextAt \in now + 1 .. now + MinInterval]_vars

----
\* The sleep of the loop.

WithinBackoff(at) == at <= now + BusyRetry \/ at <= now + MinInterval

\* The loop never sleeps past a deadline: when it sleeps and no token waits,
\* its timer fires by the deadline of every armed task, or within the interval
\* it backs off for: the retry interval after a failed pass or a rejection, the
\* floor after a start.
DeadlineNotOverslept ==
  up /\ pc[Loop] = "asleep" /\ ~wake =>
    \A t \in Store : tasks[t].enabled /\ tasks[t].nextAt > 0 =>
      /\ sleepUntil > 0
      /\ sleepUntil <= tasks[t].nextAt \/ WithinBackoff(sleepUntil)

\* A queued occurrence without a retry time waits for a wake-up alone, so
\* someone must be left to give it: a claim whose end notifies, or a caller
\* in the middle of an operation.
QueueNotStranded ==
  up /\ pc[Loop] = "asleep" /\ ~wake /\ (\A c \in Clients : pc[c] = "idle") =>
    \A t \in Store : /\ tasks[t].enabled \/ tasks[t].pendingForced
                     /\ tasks[t].pending /\ tasks[t].retryAt = 0
      => Claims # {}

\* A queued occurrence that waits for its retry time is not slept past: the
\* timer fires by then, unless running claims are left to wake the loop.
RetryNotOverslept ==
  up /\ pc[Loop] = "asleep" /\ ~wake /\ (\A c \in Clients : pc[c] = "idle")
     /\ Claims = {} =>
    \A t \in Store : tasks[t].enabled /\ tasks[t].pending /\ tasks[t].retryAt > 0
      => sleepUntil > 0 /\ (sleepUntil <= tasks[t].retryAt \/ sleepUntil <= now)

\* The loop does not spin: a pass that ends in the instant it began never goes
\* to sleep with a timer that has already expired, unless an operation that
\* fell into the pass left a token anyway.
NoSpin ==
  [][pc[Loop] = "visit" /\ pc'[Loop] = "asleep" /\ passAt = now /\ ~wake
       => sleepUntil' = 0 \/ sleepUntil' > now]_vars

----
\* Liveness.

\* A queued occurrence with no retry time is taken from the queue, put off by
\* a rejection, or given up by its user, for each task of a running process.
QueuedRunStarts ==
  \A t \in TaskIds :
    (up /\ tasks[t].enabled /\ tasks[t].pending /\ tasks[t].retryAt = 0)
      ~> (~up \/ ~tasks[t].enabled \/ ~tasks[t].pending \/ tasks[t].retryAt > 0)

\* Every claim is settled, by its result, a rejection or the next start.
ClaimsSettle ==
  \A t \in TaskIds : \A r \in RunIds : tasks[t].active = r ~> tasks[t].active # r

----
\* The scheduler implements ChatLease.
ClaimOf(ch) ==
  LET holders == {t \in TaskIds : ChatOf[t] = ch /\ tasks[t].active # NoRun}
  IN  IF holders = {} THEN NoRun ELSE tasks[CHOOSE t \in holders : TRUE].active

Lease == INSTANCE ChatLease WITH
  claim   <- [ch \in Chats |-> ClaimOf(ch)],
  granted <- {job[c].run : c \in {d \in Callers : pc[d] \in {"dispatch", "settle"}}},
  room    <- hub

\* Every behaviour of the scheduler is one of ChatLease.
ImplementsLease == Lease!Spec
====
