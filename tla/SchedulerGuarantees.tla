---- MODULE SchedulerGuarantees ----
\* The guarantees of the scheduled-task engine, for every set of tasks,
\* clients, runs and chats and every bound:
\*
\*   OneRun            a chat never carries two runs that go on
\*   RunsAndClaims     a claim has its run and a run its claim
\*   LimitsKept        an unforced start obeys the run limit, the floor
\*                     between starts and the cap on concurrent runs
\*   LeaseImplemented  the engine implements the lease of its chats
\*   DeadlinesMet      the loop never sleeps past a task's next occurrence
\*   OccurrencesKept   an occurrence of a queue_one task is owed until it
\*                     starts, when no write fails
\*   QueueServed       no queued occurrence is left to a sleeping loop,
\*                     when no write fails and nothing is run by hand
\*   NeverSpins        no pass ends with a timer that has run out, when
\*                     nothing is run by hand
\*
\* Each rests on the invariant IInv of SchedulerProofs and adds what it
\* needs: what a caller between two calls of claim may still rely on
\* (PlanSound), that no instant in a record is ahead of the clock
\* (RecordsTimely), that only a client's request is forced (ClientsForce),
\* and what the loop's pass has in hand (LoopAims, QueueKept, PassKept).
EXTENDS SchedulerProofs, FiniteSetTheorems

----
\* One run of each chat.

\* A run that goes on has the room of its chat.
RoomHeld ==
  \A r \in RunIds : flight[r].stage = "going" => hub[ChatOf[flight[r].task]] = r

\* Rooms and runs change only when a caller dispatches or a run ends or reports.
LEMMA RoomsAndFlights ==
  ASSUME Next
  PROVE  \/ UNCHANGED <<hub, flight>>
         \/ \E c \in Callers : Dispatch(c)
         \/ \E r \in RunIds : RunEnds(r) \/ Finish(r)
         \/ \E ch \in Chats : ChatStep(ch)
         \/ Crash
<1>1. LoopStep => UNCHANGED <<hub, flight>>
 <2>1. LoopList \/ LoopDelay \/ LoopWoken \/ LoopTimer => UNCHANGED <<hub, flight>>
  BY DEF LoopList, LoopDelay, LoopWoken, LoopTimer
 <2>2. \A v \in todo : LoopVisit(v) => UNCHANGED <<hub, flight>> BY DEF LoopVisit
 <2> QED BY <2>1, <2>2 DEF LoopStep
<1>2. \A c \in Callers : ClaimGet(c) \/ ClaimScan(c) \/ ClaimCommit(c) \/ Settle(c)
        => UNCHANGED <<hub, flight>>
 BY DEF ClaimGet, ClaimScan, ClaimCommit, Settle
<1>3. \A c \in Clients : ClientStep(c) => UNCHANGED <<hub, flight>> BY DEF ClientStep, CreateCheck, CreateCommit, RunNow
<1>4. \A t \in TaskIds : TaskStep(t) => UNCHANGED <<hub, flight>> BY DEF TaskStep, Update, Delete, Complete, Recover
<1>5. \A r \in RunIds : CompleteClaim(r) => UNCHANGED <<hub, flight>> BY DEF CompleteClaim
<1>6. Tick \/ Start \/ Quiescent => UNCHANGED <<hub, flight>> BY DEF Tick, Start, Quiescent, vars
<1> QED BY <1>1, <1>2, <1>3, <1>4, <1>5, <1>6 DEF Next, ClaimStep, RunStep

\* A dispatch that starts a run takes the room of its chat; no step takes the room
\* from a run that goes on.
LEMMA RoomStep ==
  ASSUME IInv, RoomHeld, [Next]_vars
  PROVE  RoomHeld'
<1> USE TypeFacts
<1>0. TypeOK /\ CoreInv BY DEF IInv, ClaimInvariant, CoreInv
<1>1. CASE UNCHANGED <<hub, flight>> BY <1>1 DEF RoomHeld
<1>2. ASSUME NEW c \in Callers, Dispatch(c)
      PROVE  RoomHeld'
 <2> DEFINE t == job[c].task
             run == job[c].run
 <2>1. run \in RunIds /\ t \in TaskIds /\ ChatOf[t] \in Chats BY <1>0, <1>2, SchedulerAssumption DEF Dispatch, CoreInv, GrantHeld
 <2>2. CASE UNCHANGED <<hub, flight>> BY <2>2 DEF RoomHeld
 <2>3. CASE /\ hub[ChatOf[t]] = Free
            /\ hub' = [hub EXCEPT ![ChatOf[t]] = run]
            /\ flight' = [flight EXCEPT ![run] = [stage |-> "going", task |-> t]]
  <3>1. /\ flight'[run].task = t /\ hub'[ChatOf[t]] = run
        /\ \A r \in RunIds \ {run} : flight'[r] = flight[r]
        /\ \A x \in Chats \ {ChatOf[t]} : hub'[x] = hub[x]
   BY <1>0, <2>1, <2>3 DEF TypeOK
  <3>2. ASSUME NEW r \in RunIds \ {run}, flight[r].stage = "going"
        PROVE  ChatOf[flight[r].task] \in Chats \ {ChatOf[t]} /\ hub[ChatOf[flight[r].task]] = r
   BY <1>0, <2>3, <3>2, SchedulerAssumption DEF RoomHeld
  <3> QED BY <3>1, <3>2 DEF RoomHeld
 <2> QED BY <1>2, <2>2, <2>3 DEF Dispatch, HasRoom
<1>3. ASSUME NEW r \in RunIds, RunEnds(r) \/ Finish(r)
      PROVE  RoomHeld'
 <2>1. /\ UNCHANGED hub /\ flight'[r].stage # "going"
       /\ \A q \in RunIds \ {r} : flight'[q] = flight[q]
  BY <1>0, <1>3 DEF RunEnds, Finish, Results, NoFlight, TypeOK
 <2> QED BY <2>1 DEF RoomHeld
<1>4. ASSUME NEW ch \in Chats, ChatStep(ch)
      PROVE  RoomHeld'
 <2>1. UNCHANGED flight /\ \A x \in Chats \ {ch} : hub'[x] = hub[x]
  BY <1>0, <1>4 DEF ChatStep, HubRelease, UserPrompt, UserDone, TypeOK
 <2>2. \A r \in RunIds : flight[r].stage = "going" => hub[ch] # r
  <3>1. CASE HubRelease(ch) BY <3>1 DEF HubRelease
  <3>2. CASE UserPrompt(ch) \/ UserDone(ch) BY <3>2, SchedulerAssumption DEF UserPrompt, UserDone, HasRoom
  <3> QED BY <1>4, <3>1, <3>2 DEF ChatStep
 <2> QED BY <1>0, <2>1, <2>2, SchedulerAssumption DEF RoomHeld
<1>5. CASE Crash BY <1>5 DEF Crash, RoomHeld, NoFlight
<1> QED BY <1>1, <1>2, <1>3, <1>4, <1>5, RoomsAndFlights DEF vars

\* No two runs of tasks go on in the same chat at once: the hub admits one run per
\* chat, and nothing but the end of a run frees its room.
THEOREM OneRun == Spec => []OneRunPerChat
<1>1. Init => RoomHeld BY DEF Init, RoomHeld, NoFlight
<1>2. RoomHeld /\ TypeOK => OneRunPerChat BY TypeFacts DEF RoomHeld, OneRunPerChat
<1> QED BY <1>1, <1>2, RoomStep, Invariance, TypeCorrect, PTL DEF Spec

----
\* Claims and their runs, while every write of a record succeeds.

\* Some caller is about to dispatch or settle the claim of t, or its run is
\* under way.
HasRunner(t) ==
  \/ \E c \in Callers : pc[c] \in {"dispatch", "settle"} /\ job[c].task = t
                        /\ job[c].run = tasks[t].active
  \/ flight[tasks[t].active].stage # "none" /\ flight[tasks[t].active].task = t

\* A task that keeps its claim, its run and its caller keeps its runner.
LEMMA RunnerFrame ==
  ASSUME TypeOK, ClaimHasRunner, NoNewClaim, up,
         \A c \in Callers : pc[c] \in {"dispatch", "settle"} =>
            pc'[c] = pc[c] /\ job'[c] = job[c],
         \A r \in RunIds : flight[r].stage # "none" =>
            flight'[r].stage # "none" /\ flight'[r].task = flight[r].task
  PROVE  ClaimHasRunner'
<1> USE TypeFacts
<1>1. ASSUME NEW t \in TaskIds, tasks'[t].active # NoRun
      PROVE  HasRunner(t)'
 <2>1. tasks'[t].active = tasks[t].active BY <1>1 DEF NoNewClaim
 <2>2. HasRunner(t) BY <1>1, <2>1 DEF ClaimHasRunner, HasRunner
 <2> QED BY <1>1, <2>1, <2>2 DEF HasRunner
<1> QED BY <1>1 DEF ClaimHasRunner, HasRunner

\* A caller's step on a claim leaves every other claim its runner, and its own as well.
LEMMA CallerRunners ==
  ASSUME WritesFail = FALSE, IInv, ClaimHasRunner, NEW c \in Callers, ClaimStep(c)
  PROVE  ClaimHasRunner'
<1> USE TypeFacts
<1>0. TypeOK /\ CoreInv BY DEF IInv, ClaimInvariant, CoreInv
<1> DEFINE t == job[c].task
            run == job[c].run
<1>1. CASE ClaimGet(c) \/ ClaimScan(c)
 <2>1. NoNewClaim /\ UNCHANGED flight /\ up BY <1>1, SameMakesNoClaim DEF ClaimGet, ClaimScan
 <2>2. pc[c] \notin {"dispatch", "settle"} BY <1>1 DEF ClaimGet, ClaimScan
 <2>3. \A d \in Callers \ {c} : pc'[d] = pc[d] /\ job'[d] = job[d] BY <1>0, <1>1 DEF ClaimGet, ClaimScan, Leave, Goto, TypeOK
 <2> QED BY <1>0, <2>1, <2>2, <2>3, RunnerFrame
<1>2. CASE ClaimCommit(c)
 <2>1. /\ \A d \in Callers \ {c} : pc'[d] = pc[d] /\ job'[d] = job[d]
       /\ UNCHANGED flight /\ up /\ pc[c] = "commit"
  BY <1>0, <1>2 DEF ClaimCommit, Leave, Goto, TypeOK
 <2>2. CASE NoNewClaim BY <1>0, <2>1, <2>2, RunnerFrame
 <2>3. CASE ~NoNewClaim
  <3>1. PICK u \in TaskIds : tasks'[u].active \notin {tasks[u].active, NoRun} BY <2>3 DEF NoNewClaim
  <3>2. PICK saved \in BOOLEAN :
          /\ Save(t, ClaimedBy(c), saved /\ Stored(t))
          /\ \/ /\ saved /\ Stored(t)
                /\ job[c].plan = "start" /\ Claimable(tasks[t], job[c].at, job[c].force)
                /\ job' = [job EXCEPT ![c].snap = ClaimedBy(c)]
                /\ Goto(c, "dispatch")
             \/ ~(/\ saved /\ Stored(t) /\ job[c].plan = "start"
                  /\ Claimable(tasks[t], job[c].at, job[c].force))
   BY <1>2, SaveOutcomesType DEF ClaimCommit
  <3>3. /\ u = t /\ saved /\ Stored(t) /\ tasks' = [tasks EXCEPT ![t] = ClaimedBy(c)] BY <1>0, <3>1, <3>2 DEF Save, TypeOK
  <3>4. job[c].plan = "start" => run # NoRun BY <1>0, <1>2 DEF ClaimCommit, CoreInv, StartPlanned
  <3>5. /\ job[c].plan = "start" /\ Claimable(tasks[t], job[c].at, job[c].force)
        /\ ClaimedBy(c).active = run
   BY <1>0, <3>1, <3>3, <3>4, ClaimedByType DEF TypeOK
  <3>6. /\ pc'[c] = "dispatch" /\ job'[c].task = t /\ job'[c].run = run
        /\ tasks'[t].active = run
        /\ \A x \in TaskIds \ {t} : tasks'[x] = tasks[x]
   BY <1>0, <3>2, <3>3, <3>5 DEF Goto, TypeOK, Job
  <3>7. ASSUME NEW x \in TaskIds, tasks'[x].active # NoRun
        PROVE  HasRunner(x)'
   <4>1. CASE x = t BY <3>6, <4>1 DEF HasRunner
   <4>2. CASE x # t
    <5>1. HasRunner(x) BY <2>1, <3>6, <3>7, <4>2 DEF ClaimHasRunner, HasRunner
    <5> QED BY <2>1, <3>6, <4>2, <5>1 DEF HasRunner
   <4> QED BY <4>1, <4>2
  <3> QED BY <3>7 DEF ClaimHasRunner, HasRunner
 <2> QED BY <2>2, <2>3
<1>3. CASE Dispatch(c)
 <2>1. /\ \A d \in Callers \ {c} : pc'[d] = pc[d] /\ job'[d] = job[d]
       /\ UNCHANGED tasks /\ up /\ pc[c] = "dispatch" /\ run \in RunIds /\ t \in TaskIds
       /\ flight[run].stage = "none"
  BY <1>0, <1>3 DEF Dispatch, Leave, Goto, TypeOK, CoreInv, GrantHeld, RunIdsUnique
 <2>2. CASE flight' = [flight EXCEPT ![run] = [stage |-> "going", task |-> t]]
  <3>1. /\ flight'[run].stage = "going" /\ flight'[run].task = t
        /\ \A r \in RunIds \ {run} : flight'[r] = flight[r]
   BY <1>0, <2>1, <2>2 DEF TypeOK
  <3>2. ASSUME NEW x \in TaskIds, tasks'[x].active # NoRun
        PROVE  HasRunner(x)'
   <4>1. HasRunner(x) /\ tasks[x].active \in RunIds BY <1>0, <2>1, <3>2 DEF ClaimHasRunner, HasRunner
   <4>2. CASE \E d \in Callers \ {c} : pc[d] \in {"dispatch", "settle"} /\ job[d].task = x
                                       /\ job[d].run = tasks[x].active
    BY <2>1, <4>2 DEF HasRunner
   <4>3. CASE t = x /\ run = tasks[x].active BY <2>1, <3>1, <4>3 DEF HasRunner
   <4>4. CASE flight[tasks[x].active].stage # "none" /\ flight[tasks[x].active].task = x BY <2>1, <3>1, <4>1, <4>4 DEF HasRunner
   <4> QED BY <4>1, <4>2, <4>3, <4>4 DEF HasRunner
  <3> QED BY <3>2 DEF ClaimHasRunner, HasRunner
 <2>3. CASE Goto(c, "settle") /\ UNCHANGED <<flight, job>>
  <3>1. pc'[c] = "settle" BY <1>0, <2>3 DEF Goto, TypeOK
  <3>2. \A x \in TaskIds : tasks[x].active # NoRun => HasRunner(x) BY <2>1 DEF ClaimHasRunner, HasRunner
  <3>3. \A x \in TaskIds : HasRunner(x) => HasRunner(x)' BY <2>1, <2>3, <3>1 DEF HasRunner
  <3> QED BY <2>1, <3>2, <3>3 DEF ClaimHasRunner, HasRunner
 <2> QED BY <1>3, <2>2, <2>3 DEF Dispatch
<1>4. CASE Settle(c)
 <2>1. /\ \A d \in Callers \ {c} : pc'[d] = pc[d] /\ job'[d] = job[d]
       /\ UNCHANGED flight /\ up /\ pc[c] = "settle" /\ run \in RunIds /\ t \in TaskIds
       /\ Stored(t) => tasks[t].active = run
  BY <1>0, <1>4 DEF Settle, Leave, Goto, TypeOK, CoreInv, GrantHeld
 <2>2. SaveOutcomes = {TRUE} BY DEF SaveOutcomes
 <2>a. /\ Releases(tasks[t], Requeued(tasks[t], now))
       /\ Releases(tasks[t], Finished(tasks[t], "error"))
  BY <1>0, <2>1, RequeuedType, FinishedType DEF TypeOK
 <2>3. PICK n \in {tasks[t], Requeued(tasks[t], now), Finished(tasks[t], "error")} :
         /\ Save(t, n, Stored(t))
         /\ Stored(t) => n \in {Requeued(tasks[t], now), Finished(tasks[t], "error")}
  BY <1>4, <2>1, <2>2 DEF Settle, Save
 <2>4. /\ tasks'[t].active = NoRun
       /\ \A x \in TaskIds \ {t} : tasks'[x] = tasks[x]
  BY <1>0, <2>1, <2>a, <2>3 DEF Save, TypeOK, Releases, CoreInv, GoneIsIdle
 <2>5. ASSUME NEW x \in TaskIds, tasks'[x].active # NoRun
       PROVE  HasRunner(x)'
  <3>1. x # t /\ tasks'[x] = tasks[x] /\ HasRunner(x) BY <2>1, <2>4, <2>5 DEF ClaimHasRunner, HasRunner
  <3> QED BY <2>1, <3>1 DEF HasRunner
 <2> QED BY <2>5 DEF ClaimHasRunner, HasRunner
<1> QED BY <1>1, <1>2, <1>3, <1>4 DEF ClaimStep

\* A run that reports its end settles its claim when its write succeeds.
LEMMA RunRunners ==
  ASSUME WritesFail = FALSE, IInv, ClaimHasRunner, NEW r \in RunIds, Finish(r)
  PROVE  ClaimHasRunner'
<1> USE TypeFacts
<1>0. TypeOK /\ CoreInv BY DEF IInv, ClaimInvariant, CoreInv
<1> DEFINE t == flight[r].task
<1>1. /\ flight[r].stage # "none" /\ t \in TaskIds /\ UNCHANGED <<pc, job>> /\ up
      /\ Stored(t) => tasks[t].active = r
 BY <1>0 DEF Finish, Results, CoreInv, RunHoldsClaim
<1>2. \A q \in RunIds \ {r} : flight'[q] = flight[q] BY <1>0 DEF Finish, NoFlight, TypeOK
<1>3. /\ tasks'[t].active = NoRun
      /\ \A x \in TaskIds \ {t} : tasks'[x] = tasks[x]
 <2>1. SaveOutcomes = {TRUE} BY DEF SaveOutcomes
 <2>2. Releases(tasks[t], Finished(tasks[t], flight[r].stage)) BY <1>0, <1>1, FinishedType DEF TypeOK
 <2>3. PICK n \in {tasks[t], Finished(tasks[t], flight[r].stage)} :
         Save(t, n, Stored(t)) /\ (Stored(t) => n = Finished(tasks[t], flight[r].stage))
  BY <1>1, <2>1 DEF Finish, Save
 <2> QED BY <1>0, <1>1, <2>2, <2>3 DEF Save, TypeOK, Releases, CoreInv, GoneIsIdle
<1>4. ASSUME NEW x \in TaskIds, tasks'[x].active # NoRun
      PROVE  HasRunner(x)'
 <2>1. x # t /\ tasks'[x] = tasks[x] /\ HasRunner(x) BY <1>1, <1>3, <1>4 DEF ClaimHasRunner, HasRunner
 <2>2. flight[tasks[x].active].stage # "none" /\ flight[tasks[x].active].task = x
         => tasks[x].active # r
  BY <2>1
 <2> QED BY <1>0, <1>1, <1>2, <1>4, <2>1, <2>2 DEF HasRunner
<1> QED BY <1>4 DEF ClaimHasRunner, HasRunner

\* The steps that neither work on a claim nor end a run.
LEMMA OtherRunners ==
  ASSUME IInv, ClaimHasRunner, [Next]_vars, up, up',
         \A c \in Callers : ~ClaimStep(c), \A r \in RunIds : ~Finish(r)
  PROVE  ClaimHasRunner'
<1> USE TypeFacts
<1>0. TypeOK /\ CoreInv BY DEF IInv, ClaimInvariant, CoreInv
<1>1. NoNewClaim BY <1>0, OtherStepsClaimNothing, SameMakesNoClaim DEF vars, ClaimStep
<1>2. ASSUME NEW c \in Callers, pc[c] \notin {"dispatch", "settle"}, UNCHANGED flight,
             \A d \in Callers \ {c} : pc'[d] = pc[d] /\ job'[d] = job[d]
      PROVE  ClaimHasRunner'
 BY <1>0, <1>1, <1>2, RunnerFrame
<1>3. ASSUME LoopStep
      PROVE  ClaimHasRunner'
 <2>1. pc[Loop] \in {"list", "visit", "asleep"} /\ UNCHANGED flight
  BY <1>3 DEF LoopStep, LoopList, LoopVisit, LoopDelay, LoopWoken, LoopTimer
 <2>2. \A d \in Callers \ {Loop} : pc'[d] = pc[d] /\ job'[d] = job[d]
  <3>1. LoopList \/ LoopDelay \/ LoopWoken \/ LoopTimer =>
          UNCHANGED job /\ \E loc : pc' = [pc EXCEPT ![Loop] = loc]
   BY DEF LoopList, LoopDelay, LoopWoken, LoopTimer, Goto
  <3>2. \A v \in todo : LoopVisit(v) =>
           /\ \E loc : pc' = [pc EXCEPT ![Loop] = loc] \/ UNCHANGED pc
           /\ \E j : job' = [job EXCEPT ![Loop] = j] \/ UNCHANGED job
   BY DEF LoopVisit, Goto
  <3> QED BY <1>0, <1>3, <3>1, <3>2 DEF LoopStep, TypeOK
 <2> QED BY <1>0, <1>2, <2>1, <2>2
<1>4. ASSUME NEW c \in Clients, ClientStep(c)
      PROVE  ClaimHasRunner'
 <2>1. pc[c] \in {"idle", "create"} /\ UNCHANGED flight BY <1>4 DEF ClientStep, CreateCheck, CreateCommit, RunNow
 <2>2. \A d \in Callers \ {c} : pc'[d] = pc[d] /\ job'[d] = job[d]
  BY <1>0, <1>4 DEF ClientStep, CreateCheck, CreateCommit, RunNow, Leave, Goto, TypeOK
 <2> QED BY <1>0, <1>2, <2>1, <2>2
<1>5. ASSUME UNCHANGED <<pc, job, flight>>
      PROVE  ClaimHasRunner'
 BY <1>0, <1>1, <1>5, RunnerFrame
<1>6. ASSUME NEW r \in RunIds, RunEnds(r)
      PROVE  ClaimHasRunner'
 <2>1. /\ UNCHANGED <<pc, job>>
       /\ flight'[r].task = flight[r].task /\ flight'[r].stage # "none"
       /\ \A q \in RunIds \ {r} : flight'[q] = flight[q]
  BY <1>0, <1>6 DEF RunEnds, Results, TypeOK
 <2> QED BY <1>0, <1>1, <2>1, RunnerFrame
<1>7. \A t \in TaskIds : TaskStep(t) => UNCHANGED <<pc, job, flight>> BY DEF TaskStep, Update, Delete, Complete, Recover
<1>8. \A r \in RunIds : CompleteClaim(r) => UNCHANGED <<pc, job, flight>> BY DEF CompleteClaim
<1>9. \A ch \in Chats : ChatStep(ch) => UNCHANGED <<pc, job, flight>> BY DEF ChatStep, HubRelease, UserPrompt, UserDone
<1>10. Tick \/ Start \/ Quiescent \/ UNCHANGED vars => UNCHANGED <<pc, job, flight>> BY DEF Tick, Start, Quiescent, vars
<1>11. ~Crash BY DEF Crash
<1> QED BY <1>3, <1>4, <1>5, <1>6, <1>7, <1>8, <1>9, <1>10, <1>11 DEF Next, RunStep

\* Every step of a server that is up keeps a runner for every claim.
LEMMA RunnerStep ==
  ASSUME WritesFail = FALSE, IInv, ClaimHasRunner, [Next]_vars
  PROVE  ClaimHasRunner'
<1> USE TypeFacts
<1>1. CASE ~up' BY <1>1 DEF ClaimHasRunner
<1>2. CASE up /\ up' BY <1>2, CallerRunners, RunRunners, OtherRunners
<1>3. CASE ~up /\ up'
 <2>1. \A t \in TaskIds : tasks'[t].active = NoRun
  <3>1. Start => \A t \in TaskIds : tasks'[t].active = NoRun BY DEF Start
  <3>2. ~up' \/ Start \/ up
   <4>1. LoopStep => up BY DEF LoopStep, LoopList, LoopVisit, LoopDelay, LoopWoken, LoopTimer
   <4>2. \A c \in Callers : ClaimStep(c) => up BY DEF ClaimStep, ClaimGet, ClaimScan, ClaimCommit, Dispatch, Settle
   <4>3. \A c \in Clients : ClientStep(c) => up BY DEF ClientStep, CreateCheck, CreateCommit, RunNow, Requested
   <4>4. \A t \in TaskIds : TaskStep(t) => up \/ UNCHANGED up BY DEF TaskStep, Update, Delete, Complete, Recover
   <4>5. \A r \in RunIds : RunStep(r) => up BY DEF RunStep, RunEnds, Finish, CompleteClaim
   <4>6. \A ch \in Chats : ChatStep(ch) => up BY DEF ChatStep, HubRelease, UserPrompt, UserDone
   <4>7. Tick \/ Crash \/ Quiescent \/ UNCHANGED vars => up \/ ~up' BY DEF Tick, Crash, Quiescent, vars
   <4> QED BY <4>1, <4>2, <4>3, <4>4, <4>5, <4>6, <4>7 DEF Next
  <3> QED BY <1>3, <3>1, <3>2
 <2> QED BY <2>1 DEF ClaimHasRunner
<1> QED BY <1>1, <1>2, <1>3

\* A claim in the store has a run under way or a caller about to start or settle it,
\* and a run that goes on has its claim, as long as the writes of records succeed: a
\* settle that cannot be written leaves its claim behind until the server restarts.
THEOREM RunsAndClaims ==
  WritesFail = FALSE => (Spec => []RunsMatchClaims)
<1> SUFFICES ASSUME WritesFail = FALSE PROVE Spec => []RunsMatchClaims OBVIOUS
<1>1. Init => ClaimHasRunner
 <2> SUFFICES ASSUME Init PROVE ClaimHasRunner OBVIOUS
 <2>1. Blank("absent").active = NoRun BY BlankType DEF Status
 <2>2. \A def \in OnDisk : Created(Normalized(def), 0, FALSE).active = NoRun BY SchedulerAssumption, NormalizedType, CreatedType
 <2>4. \A t \in TaskIds : tasks[t].active = NoRun BY <2>1, <2>2 DEF Init, Loaded
 <2> QED BY <2>4 DEF ClaimHasRunner
<1>2. IInv /\ ClaimHasRunner /\ [Next]_vars => ClaimHasRunner' BY RunnerStep
<1>3. Spec => []ClaimHasRunner BY <1>1, <1>2, Invariance, PTL DEF Spec
<1> QED BY <1>3, OneRun, PTL DEF RunsMatchClaims

----
\* What a step writes to a record.

\* What the steps other than the commits of claims and creations write.
Rewrites(k, m) ==
  \/ m = k \/ m = AuthPaused(k) \/ m = Deferred(k, now) \/ m = Requeued(k, now)
  \/ m = Completed(k) \/ m = Blank("deleted") \/ m = Recovered(k)
  \/ \E result \in Results : m = Finished(k, result)
  \/ \E def \in Definition, switch \in {"keep", "arm", "pause"} :
       m = Updated(k, def, switch, now)

TasksRewritten == \A u \in TaskIds : Rewrites(tasks[u], tasks'[u])

\* A saved record is one of the rewrites when what it saves is.
LEMMA SaveRewrites ==
  ASSUME TypeOK, NEW t \in TaskIds, NEW n, NEW saved, Save(t, n, saved),
         Rewrites(tasks[t], n)
  PROVE  TasksRewritten
BY DEF Save, TasksRewritten, Rewrites, TypeOK

\* Records left alone are rewritten as themselves.
LEMMA SameRewrites ==
  ASSUME UNCHANGED tasks
  PROVE  TasksRewritten
BY DEF TasksRewritten, Rewrites

\* Every step that neither commits a claim nor makes a task rewrites records in one of
\* those ways.
LEMMA OtherWrites ==
  ASSUME TypeOK, [Next]_vars,
         \A c \in Callers : ~ClaimCommit(c), \A c \in Clients : ~CreateCommit(c)
  PROVE  TasksRewritten
<1> USE TypeFacts
<1>1. ASSUME LoopStep
      PROVE  TasksRewritten
 <2>1. LoopList \/ LoopDelay \/ LoopWoken \/ LoopTimer => UNCHANGED tasks BY DEF LoopList, LoopDelay, LoopWoken, LoopTimer
 <2>2. ASSUME NEW v \in todo, LoopVisit(v)
       PROVE  TasksRewritten
  <3>1. v.task \in TaskIds BY DEF TypeOK
  <3>2. \/ UNCHANGED tasks
        \/ \E n \in {AuthPaused(tasks[v.task]), Deferred(tasks[v.task], now)} :
             \E saved : Save(v.task, n, saved)
   BY <2>2 DEF LoopVisit
  <3>3. /\ Rewrites(tasks[v.task], AuthPaused(tasks[v.task]))
        /\ Rewrites(tasks[v.task], Deferred(tasks[v.task], now))
   BY DEF Rewrites
  <3> QED BY <3>1, <3>2, <3>3, SaveRewrites, SameRewrites
 <2> QED BY <1>1, <2>1, <2>2, SameRewrites DEF LoopStep
<1>2. ASSUME NEW c \in Callers, ClaimStep(c)
      PROVE  TasksRewritten
 <2>1. ClaimGet(c) \/ ClaimScan(c) \/ Dispatch(c) => UNCHANGED tasks BY DEF ClaimGet, ClaimScan, Dispatch
 <2>2. ASSUME Settle(c)
       PROVE  TasksRewritten
  <3> DEFINE t == job[c].task
  <3>1. /\ Rewrites(tasks[t], tasks[t]) /\ Rewrites(tasks[t], Requeued(tasks[t], now))
        /\ Rewrites(tasks[t], Finished(tasks[t], "error"))
   BY DEF Rewrites, Results
  <3>2. \E n \in {tasks[t], Requeued(tasks[t], now), Finished(tasks[t], "error")} :
          \E saved : Save(t, n, saved)
   BY <2>2 DEF Settle
  <3> QED BY <3>1, <3>2, SaveRewrites
 <2> QED BY <1>2, <2>1, <2>2, SameRewrites DEF ClaimStep
<1>3. ASSUME NEW c \in Clients, ClientStep(c)
      PROVE  TasksRewritten
 <2>1. ASSUME NEW t \in TaskIds, RunNow(c, t)
       PROVE  TasksRewritten
  <3>1. Rewrites(tasks[t], AuthPaused(tasks[t])) BY DEF Rewrites
  <3>2. UNCHANGED tasks \/ \E saved : Save(t, AuthPaused(tasks[t]), saved) BY <2>1 DEF RunNow
  <3> QED BY <3>1, <3>2, SaveRewrites, SameRewrites
 <2>2. \A t \in TaskIds : CreateCheck(c, t) => UNCHANGED tasks BY DEF CreateCheck
 <2> QED BY <1>3, <2>1, <2>2, SameRewrites DEF ClientStep
<1>4. ASSUME NEW t \in TaskIds, TaskStep(t)
      PROVE  TasksRewritten
 <2>1. CASE Update(t)
  <3>1. PICK def \in Definitions \cup {tasks[t].def}, switch \in {"keep", "arm", "pause"} :
          \E saved : Save(t, Updated(tasks[t], Normalized(def), switch, now), saved)
   BY <2>1 DEF Update
  <3>2. def \in Definition BY SchedulerAssumption DEF Task
  <3>3. Rewrites(tasks[t], Updated(tasks[t], Normalized(def), switch, now)) BY <3>2, NormalizedType DEF Rewrites
  <3> QED BY <3>1, <3>3, SaveRewrites
 <2>2. CASE Delete(t) \/ Complete(t)
  <3>1. /\ Rewrites(tasks[t], Blank("deleted"))
        /\ Rewrites(tasks[t], Completed(tasks[t]))
   BY DEF Rewrites
  <3>2. \/ \E saved : Save(t, Blank("deleted"), saved)
        \/ \E saved : Save(t, Completed(tasks[t]), saved)
   BY <2>2 DEF Delete, Complete
  <3> QED BY <3>1, <3>2, SaveRewrites
 <2>3. CASE Recover(t) BY <2>3 DEF Recover, TasksRewritten, Rewrites, TypeOK
 <2> QED BY <1>4, <2>1, <2>2, <2>3 DEF TaskStep
<1>5. ASSUME NEW r \in RunIds, RunStep(r)
      PROVE  TasksRewritten
 <2> DEFINE t == flight[r].task
 <2>1. RunEnds(r) => UNCHANGED tasks BY DEF RunEnds
 <2>2. CASE Finish(r)
  <3>1. /\ Rewrites(tasks[t], tasks[t])
        /\ Rewrites(tasks[t], Finished(tasks[t], flight[r].stage))
   BY <2>2 DEF Rewrites, Finish
  <3>2. \E n \in {tasks[t], Finished(tasks[t], flight[r].stage)} : \E saved : Save(t, n, saved) BY <2>2 DEF Finish
  <3> QED BY <3>1, <3>2, SaveRewrites
 <2>3. CASE CompleteClaim(r)
  <3>1. Rewrites(tasks[t], Completed(tasks[t])) BY DEF Rewrites
  <3>2. \E saved : Save(t, Completed(tasks[t]), saved) BY <2>3 DEF CompleteClaim
  <3> QED BY <3>1, <3>2, SaveRewrites
 <2> QED BY <1>5, <2>1, <2>2, <2>3, SameRewrites DEF RunStep
<1>6. ASSUME NEW ch \in Chats, ChatStep(ch)
      PROVE  TasksRewritten
 BY <1>6, SameRewrites DEF ChatStep, HubRelease, UserPrompt, UserDone
<1>7. ASSUME Tick \/ Crash \/ Start \/ Quiescent \/ UNCHANGED vars
      PROVE  TasksRewritten
 BY <1>7, SameRewrites DEF Tick, Crash, Start, Quiescent, vars
<1> QED BY <1>1, <1>2, <1>3, <1>4, <1>5, <1>6, <1>7 DEF Next

\* No rewriting moves the last start, or arms a task that has used up its runs.
Tame(k, m) ==
  /\ m.lastAt \in {k.lastAt, 0}
  /\ (k.enabled => ~Spent(k)) => (m.enabled => ~Spent(m))
  /\ m.status # "absent"
  /\ m.active \in {k.active, NoRun}

\* The fields of a record that is gone.
LEMMA BlankFields ==
  ASSUME NEW status \in Status
  PROVE  /\ Blank(status).lastAt = 0 /\ Blank(status).retryAt = 0
         /\ ~Blank(status).enabled
BY DEF Blank, Created

\* No rewrite adds a claim, a run to the count or a start, so what a caller read before
\* it stays on the safe side.
LEMMA RewriteTame ==
  ASSUME NEW k \in Task, NEW m, k.status # "absent", now \in Nat, Rewrites(k, m)
  PROVE  Tame(k, m)
<1>1. ASSUME NEW status \in Status \ {"absent"}
      PROVE  Tame(k, Disarmed(k, status)) /\ Tame(k, Disarmed(Unclaimed(k), status))
 BY DEF Tame, Disarmed, Unqueued, Unclaimed, Task
<1>2. m = AuthPaused(k) \/ m = Completed(k) => Tame(k, m) BY <1>1 DEF AuthPaused, Completed, Status
<1>3. m = k \/ m = Deferred(k, now) => Tame(k, m) BY DEF Tame, Deferred, Spent, Task
<1>4. m = Requeued(k, now) => Tame(k, m) BY DEF Tame, Requeued, Unclaimed, Spent, Task, Definition
<1>5. m = Blank("deleted") => Tame(k, m) BY BlankFields, BlankType DEF Tame, Status
<1>6. m = Recovered(k) => Tame(k, m) BY DEF Tame, Recovered, Unclaimed, Spent, Task
<1>7. ASSUME NEW result \in Results, m = Finished(k, result)
      PROVE  Tame(k, m)
 <2> DEFINE free == Unclaimed(k)
 <2>1. Tame(k, [free EXCEPT !.status = IF @ = "running" THEN "paused" ELSE @]) BY DEF Tame, Unclaimed, Spent, Task
 <2>2. Tame(k, [free EXCEPT !.status = "active"]) BY DEF Tame, Unclaimed, Spent, Task
 <2> HIDE DEF free
 <2> QED BY <1>1, <1>7, <2>1, <2>2 DEF Finished, free, Status
<1>8. ASSUME NEW def \in Definition, NEW switch \in {"keep", "arm", "pause"},
             m = Updated(k, def, switch, now)
      PROVE  Tame(k, m)
 <2> DEFINE new == Switched(k, def, switch)
 <2>1. /\ new \in Task /\ new.status # "absent" /\ new.lastAt = k.lastAt
       /\ new.active = k.active
  BY DEF Switched, Unqueued, Task, Status
 <2> HIDE DEF new
 <2>2. /\ Capped(new).enabled => ~Spent(Capped(new))
       /\ Capped(new).lastAt = k.lastAt /\ Capped(new).active = k.active
       /\ Capped(new).status # "absent" /\ Capped(new) \in Task
  BY <2>1 DEF Capped, Unqueued, Spent, Task, Status
 <2> DEFINE cap == Capped(new)
 <2> HIDE DEF cap
 <2>3. \A n \in Nat : Tame(k, [Unqueued(cap) EXCEPT !.nextAt = n]) BY <2>2 DEF cap, Tame, Unqueued, Spent, Task
 <2>4. Tame(k, cap) BY <2>2 DEF cap, Tame
 <2>5. m \in {cap, [Unqueued(cap) EXCEPT !.nextAt = NextOccurrence(def, now)]} BY <1>8 DEF Updated, new, cap
 <2> QED BY <2>3, <2>4, <2>5, NextOccurrenceType
<1> QED BY <1>2, <1>3, <1>4, <1>5, <1>6, <1>7, <1>8 DEF Rewrites

----
\* The limits an unforced start obeys.

\* What a caller between the calls of claim has found out about its task and
\* about the cap still holds: nobody else starts anything meanwhile.
Planned(c) ==
  LET k == tasks[job[c].task]
  IN  /\ k.status # "absent"
      /\ (pc[c] = "scan" \/ job[c].plan = "start") /\ ~job[c].force =>
           /\ k.enabled => ~Spent(k)
           /\ MinInterval > 0 /\ k.lastAt > 0 => job[c].at >= k.lastAt + MinInterval
      /\ pc[c] = "commit" /\ job[c].plan = "start" /\ ~job[c].force /\ MaxConcurrent > 0 =>
           Cardinality({u \in TaskIds : tasks[u].active # NoRun}) < MaxConcurrent

PlanSound == \A c \in Callers : pc[c] \in ClaimSteps => Planned(c)

\* Records rewritten tamely hold no more claims than before.
LEMMA FewerClaims ==
  ASSUME NoNewClaim, NEW n \in Nat,
         Cardinality({u \in TaskIds : tasks[u].active # NoRun}) < n
  PROVE  Cardinality({u \in TaskIds : tasks'[u].active # NoRun}) < n
<1> DEFINE S == {u \in TaskIds : tasks[u].active # NoRun}
            T == {u \in TaskIds : tasks'[u].active # NoRun}
<1>1. T \subseteq S /\ S \subseteq TaskIds BY DEF NoNewClaim
<1>2. IsFiniteSet(S) BY <1>1, SchedulerAssumption, FS_Subset
<1>3. /\ Cardinality(T) \in Nat /\ Cardinality(S) \in Nat
      /\ Cardinality(T) <= Cardinality(S)
 BY <1>1, <1>2, FS_Subset, FS_CardinalityType
<1> QED BY <1>3

\* A caller that stays between the calls of claim while the others' tasks are
\* rewritten.
LEMMA PlanFrame ==
  ASSUME TypeOK, NEW c \in Callers, Planned(c), NoNewClaim,
         Tame(tasks[job[c].task], tasks'[job[c].task]),
         UNCHANGED <<pc[c], job[c]>>
  PROVE  Planned(c)'
<1> USE TypeFacts
<1> DEFINE k == tasks[job[c].task]
            m == tasks'[job[c].task]
<1>1. m.status # "absent" BY DEF Tame
<1>2. ASSUME (pc[c] = "scan" \/ job[c].plan = "start") /\ ~job[c].force
      PROVE  /\ m.enabled => ~Spent(m)
             /\ MinInterval > 0 /\ m.lastAt > 0 => job[c].at >= m.lastAt + MinInterval
 <2>1. /\ k.enabled => ~Spent(k)
       /\ MinInterval > 0 /\ k.lastAt > 0 => job[c].at >= k.lastAt + MinInterval
  BY <1>2 DEF Planned
 <2> QED BY <2>1 DEF Tame
<1>3. ASSUME pc[c] = "commit" /\ job[c].plan = "start" /\ ~job[c].force /\ MaxConcurrent > 0
      PROVE  Cardinality({u \in TaskIds : tasks'[u].active # NoRun}) < MaxConcurrent
 BY <1>3, FewerClaims, SchedulerAssumption DEF Planned
<1> QED BY <1>1, <1>2, <1>3 DEF Planned

\* Initially no caller is between two calls of claim.
LEMMA PlanInit == Init => PlanSound
BY DEF Init, PlanSound, ClaimSteps

\* Nobody is between the calls of claim when its lock is free.
LEMMA CommitPlans ==
  ASSUME TypeOK, CoreInv, NEW c \in Callers, ClaimCommit(c)
  PROVE  PlanSound'
<1>1. pc[c] = "commit" /\ \A d \in Callers : pc[d] \in ClaimSteps => d = c BY DEF ClaimCommit, CoreInv, LockHeld, ClaimSteps
<1>2. \A d \in Callers : pc'[d] \in ClaimSteps => d # c /\ pc'[d] = pc[d]
 BY DEF ClaimCommit, Leave, Back, Goto, ClaimSteps, TypeOK
<1> QED BY <1>1, <1>2 DEF PlanSound

\* The record read at the start of a claim passes the checks of the floor and the bound.
LEMMA GetPlans ==
  ASSUME TypeOK, CoreInv, PlanSound, NEW c \in Callers, ClaimGet(c)
  PROVE  PlanSound'
<1> USE TypeFacts
<1> DEFINE t == job[c].task
            k == tasks[t]
            force == job[c].force \/ k.pendingForced
            plan == IF ~force /\ Spent(k) THEN "exhaust"
                    ELSE IF ~force /\ TooSoon(k, job[c].at) THEN "floor" ELSE "none"
<1>1. /\ UNCHANGED tasks /\ pc[c] = "claim"
      /\ \A d \in Callers \ {c} : pc'[d] = pc[d] /\ job'[d] = job[d]
 BY DEF ClaimGet, Leave, Goto, TypeOK
<1>2. ASSUME NEW d \in Callers \ {c}, pc'[d] \in ClaimSteps
      PROVE  Planned(d)'
 BY <1>1, <1>2 DEF PlanSound, Planned
<1>3. ASSUME pc'[c] \in ClaimSteps
      PROVE  Planned(c)'
 <2>1. /\ Stored(t)
       /\ job' = [job EXCEPT ![c] = [@ EXCEPT !.force = force, !.snap = k, !.plan = plan]]
       /\ pc' = [pc EXCEPT ![c] = IF plan = "none" THEN "scan" ELSE "commit"]
  BY <1>3 DEF ClaimGet, Leave, Back, Goto, ClaimSteps, TypeOK
 <2>2. /\ job'[c].task = t /\ job'[c].force = force /\ job'[c].plan = plan
       /\ job'[c].at = job[c].at
       /\ pc'[c] = IF plan = "none" THEN "scan" ELSE "commit"
  BY <2>1 DEF TypeOK, Job
 <2>3. plan # "start" OBVIOUS
 <2>4. plan = "none" /\ ~force =>
         /\ ~Spent(k)
         /\ MinInterval > 0 /\ k.lastAt > 0 => ~(job[c].at < k.lastAt + MinInterval)
  BY DEF TooSoon, Earliest
 <2>5. job[c].at \in Nat /\ k.lastAt + MinInterval \in Nat /\ k.status # "absent" BY <2>1, ScheduleTaskAssumption DEF Task, Stored
 <2> HIDE DEF plan, force
 <2>6. /\ job'[c].at >= k.lastAt + MinInterval \/ job[c].at < k.lastAt + MinInterval BY <2>2, <2>5
 <2> QED BY <1>1, <2>2, <2>3, <2>4, <2>5, <2>6 DEF Planned
<1> QED BY <1>2, <1>3 DEF PlanSound

\* The scan of the other tasks admits a start only below the cap.
LEMMA ScanPlans ==
  ASSUME TypeOK, CoreInv, PlanSound, NEW c \in Callers, ClaimScan(c)
  PROVE  PlanSound'
<1> USE TypeFacts
<1>1. /\ UNCHANGED tasks /\ pc[c] = "scan" /\ pc'[c] = "commit"
      /\ \A d \in Callers \ {c} : pc'[d] = pc[d] /\ job'[d] = job[d]
 BY DEF ClaimScan, Goto, TypeOK
<1>2. ASSUME NEW d \in Callers \ {c}, pc'[d] \in ClaimSteps
      PROVE  Planned(d)'
 BY <1>1, <1>2 DEF PlanSound, Planned
<1>3. Planned(c) BY <1>1 DEF PlanSound, ClaimSteps
<1>4. /\ job'[c].task = job[c].task /\ job'[c].force = job[c].force
      /\ job'[c].at = job[c].at
      /\ job'[c].plan = "start" => ~Saturated(c)
 <2>1. job[c] \in Job BY DEF TypeOK
 <2>2. CASE /\ ChatBusy(c) \/ Saturated(c)
            /\ job' = [job EXCEPT ![c].plan = "overlap"]
  BY <2>1, <2>2 DEF TypeOK, Job
 <2>3. CASE /\ ~Saturated(c)
            /\ \E r \in RunIds \ Held :
                 job' = [job EXCEPT ![c] = [@ EXCEPT !.plan = "start", !.run = r]]
  BY <2>1, <2>3 DEF TypeOK, Job
 <2> QED BY <2>2, <2>3 DEF ClaimScan
<1>5. Claims = {u \in TaskIds : tasks[u].active # NoRun} BY DEF Claims, Store, CoreInv, GoneIsIdle
<1>6. Cardinality(Claims) \in Nat
 <2>1. Claims \subseteq TaskIds BY <1>5
 <2> QED BY <2>1, SchedulerAssumption, FS_Subset, FS_CardinalityType
<1>7. job'[c].plan = "start" /\ ~job[c].force /\ MaxConcurrent > 0 =>
        Cardinality({u \in TaskIds : tasks[u].active # NoRun}) < MaxConcurrent
 BY <1>4, <1>5, <1>6, SchedulerAssumption DEF Saturated
<1>8. Planned(c)' BY <1>1, <1>3, <1>4, <1>7 DEF Planned
<1> QED BY <1>2, <1>8 DEF PlanSound

\* The steps of claim and creation are the only ones that bring a caller
\* between the calls of claim, start a task or make one.
LEMMA OtherPlans ==
  ASSUME TypeOK, CoreInv, PlanSound, [Next]_vars,
         \A c \in Callers : ~ClaimGet(c) /\ ~ClaimScan(c) /\ ~ClaimCommit(c)
  PROVE  PlanSound'
<1> USE TypeFacts
<1>1. NoNewClaim BY OtherStepsClaimNothing, SameMakesNoClaim DEF vars
<1>2. ASSUME NEW c \in Callers, pc'[c] \in ClaimSteps
      PROVE  UNCHANGED <<pc[c], job[c]>>
 <2>1. ASSUME LoopStep
       PROVE  UNCHANGED <<pc[c], job[c]>>
  <3>1. LoopList \/ LoopDelay \/ LoopWoken \/ LoopTimer =>
          UNCHANGED job /\ \E loc \in {"visit", "asleep", "list"} : pc' = [pc EXCEPT ![Loop] = loc]
   BY DEF LoopList, LoopDelay, LoopWoken, LoopTimer, Goto
  <3>2. \A v \in todo : LoopVisit(v) =>
          \/ UNCHANGED <<pc, job>>
          \/ pc' = [pc EXCEPT ![Loop] = "claim"] /\ \E j : job' = [job EXCEPT ![Loop] = j]
   BY DEF LoopVisit, Goto
  <3> QED BY <1>2, <2>1, <3>1, <3>2 DEF LoopStep, TypeOK, ClaimSteps
 <2>2. ASSUME NEW d \in Callers, Dispatch(d) \/ Settle(d)
       PROVE  UNCHANGED <<pc[c], job[c]>>
  BY <1>2, <2>2 DEF Dispatch, Settle, Leave, Back, Goto, TypeOK, ClaimSteps
 <2>3. ASSUME NEW d \in Clients, ClientStep(d)
       PROVE  UNCHANGED <<pc[c], job[c]>>
  BY <1>2, <2>3 DEF ClientStep, CreateCheck, CreateCommit, RunNow, Leave, Back, Goto,
                    TypeOK, ClaimSteps
 <2>4. \A t \in TaskIds : TaskStep(t) => UNCHANGED <<pc, job>> BY DEF TaskStep, Update, Delete, Complete, Recover
 <2>5. \A r \in RunIds : RunStep(r) => UNCHANGED <<pc, job>> BY DEF RunStep, RunEnds, Finish, CompleteClaim
 <2>6. \A ch \in Chats : ChatStep(ch) => UNCHANGED <<pc, job>> BY DEF ChatStep, HubRelease, UserPrompt, UserDone
 <2>7. Tick \/ Start \/ Quiescent \/ UNCHANGED vars => UNCHANGED <<pc, job>> BY DEF Tick, Start, Quiescent, vars
 <2>8. ~Crash BY <1>2 DEF Crash, ClaimSteps
 <2> QED BY <2>1, <2>2, <2>3, <2>4, <2>5, <2>6, <2>7, <2>8 DEF Next, ClaimStep
<1>3. ASSUME NEW c \in Callers, pc[c] \in ClaimSteps
      PROVE  Tame(tasks[job[c].task], tasks'[job[c].task])
 <2> DEFINE t == job[c].task
 <2>1. tasks[t].status # "absent" /\ tasks[t] \in Task /\ now \in Nat BY <1>3 DEF PlanSound, Planned, TypeOK
 <2>2. CASE \E d \in Clients : CreateCommit(d)
  <3>1. PICK d \in Clients : CreateCommit(d) BY <2>2
  <3>2. tasks[job[d].task].status = "absent" BY <3>1 DEF CreateCommit, CoreInv, CreationsDistinct
  <3>3. tasks'[t] = tasks[t] BY <2>1, <3>1, <3>2 DEF CreateCommit, Save, TypeOK
  <3> QED BY <2>1, <3>3 DEF Tame
 <2>3. CASE \A d \in Clients : ~CreateCommit(d)
  <3>1. Rewrites(tasks[t], tasks'[t]) BY <2>3, OtherWrites DEF TasksRewritten
  <3> QED BY <2>1, <3>1, RewriteTame
 <2> QED BY <2>2, <2>3
<1> QED BY <1>1, <1>2, <1>3, PlanFrame DEF PlanSound

\* Every step keeps the plans of the callers sound.
LEMMA PlanStep ==
  ASSUME IInv, PlanSound, [Next]_vars
  PROVE  PlanSound'
<1>1. TypeOK /\ CoreInv BY DEF IInv, ClaimInvariant, CoreInv
<1> QED BY <1>1, GetPlans, ScanPlans, CommitPlans, OtherPlans

\* What a caller found out before it commits a start still holds when it commits.
LEMMA PlansAreSound == Spec => []PlanSound
BY PlanInit, PlanStep, Invariance, PTL DEF Spec

\* An unforced start respects the cap, the floor and the run bound.
LEMMA UnforcedStart ==
  ASSUME IInv, PlanSound, [Next]_vars, NEW t \in TaskIds, Unforced(t)
  PROVE  /\ MaxConcurrent > 0 =>
              Cardinality({u \in TaskIds : tasks'[u].active # NoRun}) <= MaxConcurrent
         /\ tasks[t].lastAt > 0 /\ MinInterval > 0 =>
              tasks'[t].lastAt >= tasks[t].lastAt + MinInterval
         /\ tasks[t].def.maxRuns > 0 => tasks[t].runCount < tasks[t].def.maxRuns
<1> USE TypeFacts
<1>1. TypeOK /\ CoreInv /\ StartsIn(t) BY DEF IInv, ClaimInvariant, CoreInv, Unforced
<1>2. PICK c \in Callers :
        /\ ClaimCommit(c) /\ job[c].task = t /\ job[c].plan = "start"
        /\ Claimable(tasks[t], job[c].at, job[c].force)
        /\ tasks'[t] = Claimed(tasks[t], job[c].at, job[c].force, job[c].snap.pending,
                               job[c].run)
 BY <1>1, StartIsClaim
<1>3. tasks[t] \in Task /\ job[c].at \in Nat BY <1>1
<1>4. /\ tasks'[t].activeForced = job[c].force /\ tasks'[t].lastAt = job[c].at BY <1>2, <1>3 DEF Claimed, Unqueued, Task
<1>5. ~job[c].force /\ tasks[t].enabled /\ pc[c] = "commit" /\ Planned(c)
 BY <1>2, <1>4 DEF Unforced, Claimable, ClaimCommit, PlanSound, ClaimSteps
<1>6. MaxConcurrent > 0 =>
        Cardinality({u \in TaskIds : tasks'[u].active # NoRun}) <= MaxConcurrent
 <2> SUFFICES ASSUME MaxConcurrent > 0
               PROVE  Cardinality({u \in TaskIds : tasks'[u].active # NoRun}) <= MaxConcurrent
  OBVIOUS
 <2> DEFINE S == {u \in TaskIds : tasks[u].active # NoRun}
             T == {u \in TaskIds : tasks'[u].active # NoRun}
 <2>1. Cardinality(S) < MaxConcurrent BY <1>2, <1>5 DEF Planned
 <2>2. \A u \in TaskIds \ {t} : tasks'[u] = tasks[u] BY <1>1, <1>2 DEF ClaimCommit, Save, TypeOK
 <2>3. T \subseteq S \cup {t} /\ S \subseteq TaskIds BY <2>2
 <2>4. IsFiniteSet(S) /\ IsFiniteSet(S \cup {t}) BY <2>3, SchedulerAssumption, FS_Subset, FS_AddElement
 <2>5. /\ Cardinality(S) \in Nat /\ Cardinality(T) \in Nat
       /\ Cardinality(S \cup {t}) <= Cardinality(S) + 1
       /\ Cardinality(T) <= Cardinality(S \cup {t})
       /\ Cardinality(S \cup {t}) \in Nat
  BY <2>3, <2>4, FS_Subset, FS_AddElement, FS_CardinalityType
 <2> QED BY <2>1, <2>5, SchedulerAssumption
<1>7. tasks[t].lastAt > 0 /\ MinInterval > 0 =>
        tasks'[t].lastAt >= tasks[t].lastAt + MinInterval
 BY <1>2, <1>4, <1>5 DEF Planned
<1>8. tasks[t].def.maxRuns > 0 => tasks[t].runCount < tasks[t].def.maxRuns
 <2>1. ~Spent(tasks[t]) BY <1>2, <1>5 DEF Planned
 <2> QED BY <1>3, <2>1 DEF Spent, Task, Definition
<1> QED BY <1>6, <1>7, <1>8

\* A start that nobody forced never exceeds the task's runs, the floor between its
\* starts or the cap on concurrent runs, though the checks and the write of claim are
\* separate calls and other callers step in between.
THEOREM LimitsKept == Spec => LimitsRespected
<1>1. IInv /\ PlanSound /\ [Next]_vars =>
        [\A t \in TaskIds : Unforced(t) /\ MaxConcurrent > 0
           => Cardinality({u \in TaskIds : tasks'[u].active # NoRun}) <= MaxConcurrent]_vars
 BY UnforcedStart
<1>2. IInv /\ PlanSound /\ [Next]_vars =>
        [\A t \in TaskIds : Unforced(t) /\ tasks[t].lastAt > 0 /\ MinInterval > 0
           => tasks'[t].lastAt >= tasks[t].lastAt + MinInterval]_vars
 BY UnforcedStart
<1>3. IInv /\ PlanSound /\ [Next]_vars =>
        [\A t \in TaskIds : Unforced(t) /\ tasks[t].def.maxRuns > 0
           => tasks[t].runCount < tasks[t].def.maxRuns]_vars
 BY UnforcedStart
<1>4. Spec => CapRespected BY <1>1, Invariance, PlansAreSound, PTL DEF Spec, CapRespected
<1>5. Spec => FloorRespected BY <1>2, Invariance, PlansAreSound, PTL DEF Spec, FloorRespected
<1>6. Spec => MaxRunsRespected BY <1>3, Invariance, PlansAreSound, PTL DEF Spec, MaxRunsRespected
<1> QED BY <1>4, <1>5, <1>6 DEF LimitsRespected

----
\* The lease: its state read from the engine's, and how single writes change it.

\* The state of the lease.
LeaseClaims == [ch \in Chats |-> ClaimOf(ch)]
Granted == {job[c].run : c \in {d \in Callers : pc[d] \in {"dispatch", "settle"}}}

LeaseSame == UNCHANGED <<LeaseClaims, Granted, hub>>

\* A step that changes neither claims nor grants nor rooms stutters in the lease.
LEMMA SameStutters ==
  ASSUME LeaseSame
  PROVE  UNCHANGED Lease!vars
BY DEF LeaseSame, LeaseClaims, Granted, Lease!vars

\* The claim of a chat is the run of the task that holds it.
LEMMA ClaimOfHolder ==
  ASSUME TypeOK, OneClaimPerChat, NEW t \in TaskIds, tasks[t].active # NoRun
  PROVE  ClaimOf(ChatOf[t]) = tasks[t].active
<1> DEFINE holders == {u \in TaskIds : ChatOf[u] = ChatOf[t] /\ tasks[u].active # NoRun}
<1>1. holders = {t} BY DEF OneClaimPerChat
<1>2. (CHOOSE u \in holders : TRUE) = t BY <1>1
<1> QED BY <1>1, <1>2 DEF ClaimOf

\* A chat none of whose tasks holds a claim is free.
LEMMA ClaimOfFree ==
  ASSUME NEW ch, \A t \in TaskIds : ChatOf[t] = ch => tasks[t].active = NoRun
  PROVE  ClaimOf(ch) = NoRun
BY DEF ClaimOf

\* A chat that is claimed is claimed by one of its tasks.
LEMMA ClaimOfSome ==
  ASSUME NEW ch, ClaimOf(ch) # NoRun
  PROVE  \E t \in TaskIds : ChatOf[t] = ch /\ tasks[t].active = ClaimOf(ch)
                            /\ tasks[t].active # NoRun
<1> DEFINE holders == {u \in TaskIds : ChatOf[u] = ch /\ tasks[u].active # NoRun}
<1>1. holders # {} BY DEF ClaimOf
<1>2. (CHOOSE u \in holders : TRUE) \in holders BY <1>1
<1>3. ClaimOf(ch) = tasks[CHOOSE u \in holders : TRUE].active BY <1>1 DEF ClaimOf
<1> HIDE DEF holders
<1>4. PICK t \in holders : ClaimOf(ch) = tasks[t].active BY <1>2, <1>3
<1> QED BY <1>4 DEF holders

\* The claim of a chat depends on the claims of its own tasks only.
LEMMA ClaimOfSame ==
  ASSUME NEW ch, \A t \in TaskIds : ChatOf[t] = ch => tasks'[t].active = tasks[t].active
  PROVE  ClaimOf(ch)' = ClaimOf(ch)
<1> DEFINE holders == {u \in TaskIds : ChatOf[u] = ch /\ tasks[u].active # NoRun}
            after == {u \in TaskIds : ChatOf[u] = ch /\ tasks'[u].active # NoRun}
<1>1. after = holders OBVIOUS
<1>2. CASE holders = {} BY <1>1, <1>2 DEF ClaimOf
<1>3. CASE holders # {}
 <2>1. ClaimOf(ch) = tasks[CHOOSE u \in holders : TRUE].active BY <1>3 DEF ClaimOf
 <2>2. ClaimOf(ch)' = tasks'[CHOOSE u \in after : TRUE].active BY <1>1, <1>3 DEF ClaimOf
 <2>3. (CHOOSE u \in holders : TRUE) \in holders BY <1>3
 <2>4. (CHOOSE u \in after : TRUE) = (CHOOSE u \in holders : TRUE) BY <1>1
 <2> HIDE DEF after
 <2>5. ClaimOf(ch)' = tasks'[CHOOSE u \in holders : TRUE].active BY <2>2, <2>4
 <2> DEFINE w == CHOOSE u \in holders : TRUE
 <2>6. w \in TaskIds /\ ChatOf[w] = ch BY <2>3
 <2>7. ClaimOf(ch) = tasks[w].active /\ ClaimOf(ch)' = tasks'[w].active BY <2>1, <2>5
 <2> HIDE DEF w
 <2> QED BY <2>6, <2>7
<1> QED BY <1>2, <1>3

\* Records left alone leave the claims alone.
LEMMA SameClaims ==
  ASSUME \A t \in TaskIds : tasks'[t].active = tasks[t].active
  PROVE  UNCHANGED LeaseClaims
BY ClaimOfSame DEF LeaseClaims

\* A write that makes no claim leaves the claims as they are or settles one.
LEMMA SaveLease ==
  ASSUME TypeOK, OneClaimPerChat, NEW t \in TaskIds, NEW n, NEW saved, Save(t, n, saved),
         n.active \in {tasks[t].active, NoRun}
  PROVE  \/ UNCHANGED LeaseClaims
         \/ /\ tasks[t].active # NoRun /\ ChatOf[t] \in Chats
            /\ LeaseClaims[ChatOf[t]] = tasks[t].active
            /\ LeaseClaims' = [LeaseClaims EXCEPT ![ChatOf[t]] = NoRun]
<1>1. \A u \in TaskIds \ {t} : tasks'[u].active = tasks[u].active BY DEF Save, TypeOK
<1>2. CASE tasks'[t].active = tasks[t].active BY <1>1, <1>2, SameClaims
<1>3. CASE tasks'[t].active # tasks[t].active
 <2>1. tasks'[t].active = NoRun /\ tasks[t].active # NoRun BY <1>3 DEF Save, TypeOK
 <2>2. ChatOf[t] \in Chats BY SchedulerAssumption
 <2>3. ClaimOf(ChatOf[t]) = tasks[t].active BY <2>1, ClaimOfHolder
 <2>4. \A u \in TaskIds : ChatOf[u] = ChatOf[t] => tasks'[u].active = NoRun BY <1>1, <2>1 DEF OneClaimPerChat
 <2>5. ClaimOf(ChatOf[t])' = NoRun BY <2>4 DEF ClaimOf
 <2>6. \A ch \in Chats \ {ChatOf[t]} : ClaimOf(ch)' = ClaimOf(ch) BY <1>1, ClaimOfSame
 <2> QED BY <2>1, <2>2, <2>3, <2>5, <2>6 DEF LeaseClaims
<1> QED BY <1>2, <1>3

\* A step that settles a claim and does nothing else.
LEMMA SettlesOrStutters ==
  ASSUME TypeOK, OneClaimPerChat, NEW t \in TaskIds, NEW n, NEW saved, Save(t, n, saved),
         n.active \in {tasks[t].active, NoRun}, UNCHANGED <<Granted, hub>>
  PROVE  [Lease!Next]_(Lease!vars)
<1>1. CASE UNCHANGED LeaseClaims BY <1>1, SameStutters DEF LeaseSame
<1>2. CASE /\ tasks[t].active # NoRun /\ ChatOf[t] \in Chats
           /\ LeaseClaims[ChatOf[t]] = tasks[t].active
           /\ LeaseClaims' = [LeaseClaims EXCEPT ![ChatOf[t]] = NoRun]
 <2>1. Lease!Settle(ChatOf[t]) BY <1>2 DEF Lease!Settle, LeaseClaims, Granted
 <2> QED BY <1>2, <2>1 DEF Lease!Next
<1> QED BY <1>1, <1>2, SaveLease

\* The grants of the other callers are not touched.
LEMMA GrantsApart ==
  ASSUME NEW c \in Callers, \A d \in Callers \ {c} : pc'[d] = pc[d] /\ job'[d] = job[d],
         pc[c] \notin {"dispatch", "settle"}, pc'[c] \notin {"dispatch", "settle"}
  PROVE  UNCHANGED Granted
BY DEF Granted

\* A commit that starts a run grants it.
LEMMA GrantAdded ==
  ASSUME NEW c \in Callers, \A d \in Callers \ {c} : pc'[d] = pc[d] /\ job'[d] = job[d],
         pc[c] \notin {"dispatch", "settle"}, pc'[c] \in {"dispatch", "settle"}
  PROVE  Granted' = Granted \cup {job'[c].run}
BY DEF Granted

\* A caller that leaves the claim gives its grant back.
LEMMA GrantRemoved ==
  ASSUME TypeOK, CoreInv,
         NEW c \in Callers, \A d \in Callers \ {c} : pc'[d] = pc[d] /\ job'[d] = job[d],
         pc[c] \in {"dispatch", "settle"}, pc'[c] \notin {"dispatch", "settle"}
  PROVE  /\ job[c].run \in Granted /\ job[c].run \in RunIds
         /\ Granted' = Granted \ {job[c].run}
<1>1. job[c].run # NoRun /\ job[c].run \in RunIds BY TypeFacts DEF CoreInv, GrantHeld
<1>2. \A d \in Callers : job[d].run = job[c].run => d = c BY <1>1 DEF CoreInv, RunIdsUnique
<1> QED BY <1>1, <1>2 DEF Granted

----
\* The lease: the steps of a claim.

LeaseStep == [Lease!Next]_(Lease!vars)

\* Records, rooms and grants left alone are a stutter.
LEMMA SameLease ==
  ASSUME UNCHANGED <<tasks, hub, Granted>>
  PROVE  LeaseStep
<1>1. UNCHANGED LeaseClaims BY SameClaims
<1> QED BY <1>1, SameStutters DEF LeaseSame, LeaseStep

\* The commit of a claim is a Claim of the lease, or a stutter.
LEMMA CommitLease ==
  ASSUME IInv, NEW c \in Callers, ClaimCommit(c)
  PROVE  LeaseStep
<1> USE TypeFacts
<1> SUFFICES ASSUME NEW t, t = job[c].task, NEW r, r = job[c].run, NEW ch, ch = ChatOf[t]
              PROVE  LeaseStep
 OBVIOUS
<1>1. TypeOK /\ CoreInv /\ OneClaimPerChat BY DEF IInv, ClaimInvariant, CoreInv
<1>2. PICK saved \in SaveOutcomes :
        /\ Save(t, ClaimedBy(c), saved /\ Stored(t))
        /\ \/ /\ saved /\ Stored(t)
              /\ job[c].plan = "start" /\ Claimable(tasks[t], job[c].at, job[c].force)
              /\ job' = [job EXCEPT ![c].snap = ClaimedBy(c)]
              /\ Goto(c, "dispatch")
           \/ /\ ~(/\ saved /\ Stored(t) /\ job[c].plan = "start"
                   /\ Claimable(tasks[t], job[c].at, job[c].force))
              /\ \E error : Leave(c, error)
 BY DEF ClaimCommit
<1>3. pc[c] = "commit" /\ UNCHANGED hub /\ t \in TaskIds /\ ch \in Chats BY <1>1, SchedulerAssumption DEF ClaimCommit
<1>4. job[c].plan = "start" => /\ r # NoRun /\ r \in RunIds
                               /\ \A u \in TaskIds \ {t} : ChatOf[u] = ch => tasks[u].active = NoRun
 BY <1>1, <1>3 DEF CoreInv, StartPlanned
<1>5. CASE /\ saved /\ Stored(t)
           /\ job[c].plan = "start" /\ Claimable(tasks[t], job[c].at, job[c].force)
           /\ job' = [job EXCEPT ![c].snap = ClaimedBy(c)]
           /\ Goto(c, "dispatch")
 <2>1. /\ tasks[t].active = NoRun
       /\ ClaimedBy(c) = Claimed(tasks[t], job[c].at, job[c].force, job[c].snap.pending, r)
  BY <1>5 DEF Claimable, ClaimedBy
 <2>2. ClaimedBy(c).active = r BY <1>1, <2>1 DEF Claimed, Unqueued, Task
 <2>3. /\ tasks'[t].active = r
       /\ \A u \in TaskIds \ {t} : tasks'[u] = tasks[u]
  BY <1>1, <1>2, <1>5, <2>2 DEF Save, TypeOK
 <2>4. ClaimOf(ch) = NoRun BY <1>4, <1>5, <2>1, ClaimOfFree
 <2>5. ClaimOf(ch)' = r
  <3> DEFINE holders == {u \in TaskIds : ChatOf[u] = ch /\ tasks'[u].active # NoRun}
  <3>1. holders = {t} BY <1>3, <1>4, <1>5, <2>3
  <3>2. (CHOOSE u \in holders : TRUE) = t BY <3>1
  <3> QED BY <2>3, <3>1, <3>2 DEF ClaimOf
 <2>6. \A x \in Chats \ {ch} : ClaimOf(x)' = ClaimOf(x) BY <2>3, ClaimOfSame
 <2>7. LeaseClaims' = [LeaseClaims EXCEPT ![ch] = r] BY <1>3, <2>5, <2>6 DEF LeaseClaims
 <2>8. /\ job'[c].run = r /\ pc'[c] = "dispatch"
       /\ \A d \in Callers \ {c} : pc'[d] = pc[d] /\ job'[d] = job[d]
  <3>1. job[c] \in Job BY <1>1 DEF TypeOK
  <3> QED BY <1>1, <1>5, <3>1 DEF TypeOK, Goto, Job
 <2>9. Granted' = Granted \cup {r} BY <1>3, <2>8, GrantAdded
 <2>10. /\ \A d \in Callers : job[d].run = r => d = c
        /\ \A x \in Chats : hub[x] # r
        /\ \A u \in TaskIds : tasks[u].active # r
  BY <1>1, <1>3, <1>4, <1>5 DEF CoreInv, RunIdsUnique
 <2>11. r \notin Granted BY <1>3, <2>10 DEF Granted
 <2>12. \A x \in Chats : ClaimOf(x) # r BY <1>4, <1>5, <2>10, ClaimOfSome
 <2>13. Lease!Grant(ch, r) BY <1>3, <2>4, <2>7, <2>9, <2>10, <2>11, <2>12 DEF Lease!Grant, LeaseClaims, Granted
 <2>14. Lease!Next BY <1>3, <1>4, <1>5, <2>13 DEF Lease!Next
 <2> QED BY <2>14 DEF LeaseStep
<1>6. CASE /\ ~(/\ saved /\ Stored(t) /\ job[c].plan = "start"
                /\ Claimable(tasks[t], job[c].at, job[c].force))
           /\ \E error : Leave(c, error)
 <2>1. UNCHANGED Granted
  <3>1. /\ pc'[c] \notin {"dispatch", "settle"}
        /\ \A d \in Callers \ {c} : pc'[d] = pc[d] /\ job'[d] = job[d]
   BY <1>1, <1>6 DEF Leave, Goto, Back, TypeOK
  <3> QED BY <1>3, <3>1, GrantsApart
 <2>2. saved /\ Stored(t) => ClaimedBy(c).active = tasks[t].active BY <1>1, <1>4, <1>6, ClaimedByType
 <2>3. CASE saved /\ Stored(t) BY <1>1, <1>2, <1>3, <2>1, <2>2, <2>3, SettlesOrStutters DEF LeaseStep
 <2>4. CASE ~(saved /\ Stored(t)) BY <1>2, <1>3, <2>1, <2>4, SameLease DEF Save
 <2> QED BY <2>3, <2>4
<1> QED BY <1>2, <1>5, <1>6

\* A dispatch takes the room, or finds it taken.
LEMMA DispatchLease ==
  ASSUME IInv, NEW c \in Callers, Dispatch(c)
  PROVE  LeaseStep
<1> USE TypeFacts
<1> SUFFICES ASSUME NEW ch, ch = ChatOf[job[c].task], NEW r, r = job[c].run
              PROVE  LeaseStep
 OBVIOUS
<1>1. TypeOK /\ CoreInv BY DEF IInv, ClaimInvariant, CoreInv
<1>2. pc[c] = "dispatch" /\ UNCHANGED tasks /\ ch \in Chats BY <1>1, SchedulerAssumption DEF Dispatch
<1>3. CASE HasRoom(ch) /\ hub' = [hub EXCEPT ![ch] = r] /\ Leave(c, FALSE)
 <2>1. /\ pc'[c] \notin {"dispatch", "settle"}
       /\ \A d \in Callers \ {c} : pc'[d] = pc[d] /\ job'[d] = job[d]
  BY <1>1, <1>3 DEF Leave, Goto, Back, TypeOK
 <2>2. r \in Granted /\ r \in RunIds /\ Granted' = Granted \ {r} BY <1>1, <1>2, <2>1, GrantRemoved
 <2>3. UNCHANGED LeaseClaims BY <1>2, SameClaims
 <2>4. Lease!Enter(ch, r) BY <1>3, <2>2, <2>3 DEF Lease!Enter, LeaseClaims, Granted, HasRoom
 <2>5. Lease!Next BY <1>2, <2>2, <2>4 DEF Lease!Next
 <2> QED BY <2>5 DEF LeaseStep
<1>4. CASE Goto(c, "settle") /\ UNCHANGED <<hub, flight, job, failed>>
 <2>1. UNCHANGED Granted BY <1>1, <1>2, <1>4 DEF Goto, TypeOK, Granted
 <2> QED BY <1>2, <1>4, <2>1, SameLease
<1> QED BY <1>3, <1>4 DEF Dispatch

\* The settling of a claim gives the claim back, or keeps it while the run goes on.
LEMMA SettleLease ==
  ASSUME IInv, NEW c \in Callers, Settle(c)
  PROVE  LeaseStep
<1> USE TypeFacts
<1> SUFFICES ASSUME NEW t, t = job[c].task, NEW r, r = job[c].run
              PROVE  LeaseStep
 OBVIOUS
<1>1. TypeOK /\ CoreInv /\ OneClaimPerChat BY DEF IInv, ClaimInvariant, CoreInv
<1>2. /\ pc[c] = "settle" /\ UNCHANGED hub /\ t \in TaskIds
      /\ \E error : Leave(c, error)
 BY <1>1 DEF Settle
<1>3. /\ pc'[c] \notin {"dispatch", "settle"}
      /\ \A d \in Callers \ {c} : pc'[d] = pc[d] /\ job'[d] = job[d]
 BY <1>1, <1>2 DEF Leave, Goto, Back, TypeOK
<1>4. r \in Granted /\ r \in RunIds /\ Granted' = Granted \ {r} BY <1>1, <1>2, <1>3, GrantRemoved
<1>5. /\ Requeued(tasks[t], now).active = NoRun
      /\ Finished(tasks[t], "error").active = NoRun
 BY <1>1, RequeuedType, FinishedType DEF TypeOK, Releases
<1>6. PICK saved :
        \/ tasks[t].active # r /\ Save(t, tasks[t], saved)
        \/ tasks[t].active = r /\ \E n : n.active = NoRun /\ Save(t, n, saved)
 BY <1>5 DEF Settle
<1>7. \/ UNCHANGED LeaseClaims
      \/ LeaseClaims' = [x \in Chats |-> IF LeaseClaims[x] = r THEN NoRun ELSE LeaseClaims[x]]
 <2>1. CASE tasks[t].active # r /\ Save(t, tasks[t], saved)
  <3>1. \A u \in TaskIds : tasks'[u].active = tasks[u].active BY <1>1, <1>2, <2>1 DEF Save, TypeOK
  <3> QED BY <3>1, SameClaims
 <2>2. CASE tasks[t].active = r /\ \E n : n.active = NoRun /\ Save(t, n, saved)
  <3>1. CASE UNCHANGED LeaseClaims BY <3>1
  <3>2. CASE /\ tasks[t].active # NoRun /\ ChatOf[t] \in Chats
             /\ LeaseClaims[ChatOf[t]] = tasks[t].active
             /\ LeaseClaims' = [LeaseClaims EXCEPT ![ChatOf[t]] = NoRun]
   <4>1. ASSUME NEW x \in Chats \ {ChatOf[t]}
         PROVE  LeaseClaims[x] # r
    <5>1. SUFFICES ASSUME ClaimOf(x) = r PROVE FALSE BY DEF LeaseClaims
    <5>2. PICK u \in TaskIds : ChatOf[u] = x /\ tasks[u].active = r BY <2>2, <3>2, <5>1, ClaimOfSome
    <5> QED BY <1>1, <1>2, <2>2, <3>2, <5>2 DEF CoreInv, RunIdsUnique
   <4>2. LeaseClaims = [x \in Chats |-> LeaseClaims[x]] BY DEF LeaseClaims
   <4> QED BY <2>2, <3>2, <4>1, <4>2
  <3> QED BY <1>1, <1>2, <2>2, <3>1, <3>2, SaveLease
 <2> QED BY <1>6, <2>1, <2>2
<1>8. Lease!Refuse(r) BY <1>2, <1>4, <1>7 DEF Lease!Refuse, LeaseClaims, Granted
<1>9. Lease!Next BY <1>4, <1>8 DEF Lease!Next
<1> QED BY <1>9 DEF LeaseStep

\* Every step of a claim is a step of the lease.
LEMMA ClaimLease ==
  ASSUME IInv, NEW c \in Callers, ClaimStep(c)
  PROVE  LeaseStep
<1>1. TypeOK BY DEF IInv
<1>2. ASSUME ClaimGet(c) \/ ClaimScan(c)
      PROVE  LeaseStep
 <2>1. UNCHANGED <<tasks, hub>> BY <1>2 DEF ClaimGet, ClaimScan
 <2>2. /\ pc[c] \in {"claim", "scan"} /\ pc'[c] \notin {"dispatch", "settle"}
       /\ \A d \in Callers \ {c} : pc'[d] = pc[d] /\ job'[d] = job[d]
  BY <1>1, <1>2 DEF ClaimGet, ClaimScan, Leave, Goto, Back, TypeOK
 <2>3. UNCHANGED Granted BY <2>2, GrantsApart
 <2> QED BY <2>1, <2>3, SameLease
<1> QED BY <1>2, CommitLease, DispatchLease, SettleLease DEF ClaimStep

----
\* The lease: all other steps, and the refinement.

\* A write beside the grants and the rooms, that makes no claim.
LEMMA QuietLease ==
  ASSUME IInv, UNCHANGED <<hub, Granted>>,
         \/ UNCHANGED tasks
         \/ \E t \in TaskIds : \E n, saved :
              Save(t, n, saved) /\ n.active \in {tasks[t].active, NoRun}
  PROVE  LeaseStep
BY SettlesOrStutters, SameLease DEF IInv, ClaimInvariant, LeaseStep

\* The loop's own steps change no lease.
LEMMA LoopLease ==
  ASSUME IInv, LoopStep
  PROVE  LeaseStep
<1> USE TypeFacts
<1>1. TypeOK BY DEF IInv
<1>2. UNCHANGED hub BY DEF LoopStep, LoopList, LoopVisit, LoopDelay, LoopWoken, LoopTimer
<1>3. UNCHANGED Granted
 <2>1. /\ pc[Loop] \notin {"dispatch", "settle"} /\ pc'[Loop] \notin {"dispatch", "settle"}
       /\ \A d \in Callers \ {Loop} : pc'[d] = pc[d] /\ job'[d] = job[d]
  BY <1>1 DEF LoopStep, LoopList, LoopVisit, LoopDelay, LoopWoken, LoopTimer, Goto, TypeOK
 <2> QED BY <1>1, <2>1, GrantsApart
<1>4. \/ UNCHANGED tasks
      \/ \E t \in TaskIds : \E n, saved :
           Save(t, n, saved) /\ n.active \in {tasks[t].active, NoRun}
 <2>1. LoopList \/ LoopDelay \/ LoopWoken \/ LoopTimer => UNCHANGED tasks BY DEF LoopList, LoopDelay, LoopWoken, LoopTimer
 <2>2. ASSUME NEW v \in todo, LoopVisit(v)
       PROVE  \/ UNCHANGED tasks
              \/ \E t \in TaskIds : \E n, saved :
                   Save(t, n, saved) /\ n.active \in {tasks[t].active, NoRun}
  <3>1. v.task \in TaskIds /\ now \in Nat BY <1>1 DEF TypeOK
  <3>2. /\ AuthPaused(tasks[v.task]).active = tasks[v.task].active
        /\ Deferred(tasks[v.task], now).active = tasks[v.task].active
   BY <1>1, <3>1, AuthPausedType, DeferredType DEF Succeeds
  <3>3. \/ UNCHANGED tasks
        \/ \E saved : Save(v.task, AuthPaused(tasks[v.task]), saved)
        \/ \E saved : Save(v.task, Deferred(tasks[v.task], now), saved)
   BY <2>2 DEF LoopVisit
  <3> QED BY <3>1, <3>2, <3>3
 <2> QED BY <2>1, <2>2 DEF LoopStep
<1> QED BY <1>2, <1>3, <1>4, QuietLease

\* A client's request claims nothing by itself.
LEMMA ClientLease ==
  ASSUME IInv, NEW c \in Clients, ClientStep(c)
  PROVE  LeaseStep
<1> USE TypeFacts
<1>1. TypeOK /\ CoreInv BY DEF IInv, ClaimInvariant, CoreInv
<1>2. UNCHANGED hub BY DEF ClientStep, CreateCheck, RunNow, CreateCommit
<1>3. UNCHANGED Granted
 <2>1. \/ UNCHANGED <<pc, job>>
       \/ /\ pc[c] \notin {"dispatch", "settle"} /\ pc'[c] \notin {"dispatch", "settle"}
          /\ \A d \in Callers \ {c} : pc'[d] = pc[d] /\ job'[d] = job[d]
  BY <1>1 DEF ClientStep, CreateCheck, RunNow, CreateCommit, Leave, Back, Goto, TypeOK
 <2>2. CASE UNCHANGED <<pc, job>> BY <2>2 DEF Granted
 <2> QED BY <1>1, <2>1, <2>2, GrantsApart
<1>4. \/ UNCHANGED tasks
      \/ \E t \in TaskIds : \E n, saved :
           Save(t, n, saved) /\ n.active \in {tasks[t].active, NoRun}
 <2>1. \A t \in TaskIds : CreateCheck(c, t) => UNCHANGED tasks BY DEF CreateCheck
 <2>2. ASSUME NEW t \in TaskIds, RunNow(c, t)
       PROVE  \/ UNCHANGED tasks
              \/ \E saved : /\ Save(t, AuthPaused(tasks[t]), saved)
                            /\ AuthPaused(tasks[t]).active = tasks[t].active
  BY <1>1, <2>2, AuthPausedType DEF RunNow, Succeeds
 <2>3. CreateCommit(c) => \E saved : /\ Save(job[c].task, job[c].snap, saved)
                                     /\ job[c].snap.active = NoRun
                                     /\ job[c].task \in TaskIds
  BY <1>1 DEF CreateCommit, CoreInv, CreationsDistinct
 <2> QED BY <2>1, <2>2, <2>3 DEF ClientStep
<1> QED BY <1>2, <1>3, <1>4, QuietLease

\* Updates, deletions, completions and recoveries settle claims, at most.
LEMMA TaskLease ==
  ASSUME IInv, NEW t \in TaskIds, TaskStep(t)
  PROVE  LeaseStep
<1> USE TypeFacts
<1>1. TypeOK BY DEF IInv
<1>2. UNCHANGED <<hub, pc, job>> BY DEF TaskStep, Update, Delete, Complete, Recover
<1>3. UNCHANGED Granted BY <1>2 DEF Granted
<1>4. \E n, saved : Save(t, n, saved) /\ n.active \in {tasks[t].active, NoRun}
 <2>1. CASE Update(t)
  <3>1. PICK def \in Definitions \cup {tasks[t].def}, switch \in {"keep", "arm", "pause"},
             saved \in SaveOutcomes :
          Save(t, Updated(tasks[t], Normalized(def), switch, now), saved)
   BY <2>1 DEF Update
  <3>2. def \in Definition /\ now \in Nat BY <1>1, SchedulerAssumption DEF Task, TypeOK
  <3>3. Updated(tasks[t], Normalized(def), switch, now).active = tasks[t].active
   BY <1>1, <3>2, NormalizedType, UpdatedType DEF Succeeds
  <3> QED BY <3>1, <3>3
 <2>2. CASE Delete(t) BY <2>2, BlankType DEF Delete, Status
 <2>3. CASE Complete(t) BY <1>1, <2>3, CompletedType DEF Complete, Succeeds
 <2>4. CASE Recover(t)
  <3>1. Save(t, Recovered(tasks[t]), TRUE) BY <2>4 DEF Recover, Save
  <3>2. Recovered(tasks[t]).active = NoRun BY <1>1, RecoveredType DEF Releases
  <3> QED BY <3>1, <3>2
 <2> QED BY <2>1, <2>2, <2>3, <2>4 DEF TaskStep
<1> QED BY <1>2, <1>3, <1>4, QuietLease

\* A run gives its room back when it ends and its claim when it has reported.
LEMMA RunLease ==
  ASSUME IInv, NEW r \in RunIds, RunStep(r)
  PROVE  LeaseStep
<1> USE TypeFacts
<1>1. TypeOK /\ flight[r].task \in TaskIds BY DEF IInv
<1>2. UNCHANGED <<hub, pc, job>> BY DEF RunStep, RunEnds, Finish, CompleteClaim
<1>3. UNCHANGED Granted BY <1>2 DEF Granted
<1>4. \/ UNCHANGED tasks
      \/ \E t \in TaskIds : \E n, saved :
           Save(t, n, saved) /\ n.active \in {tasks[t].active, NoRun}
 <2> DEFINE t == flight[r].task
 <2>1. RunEnds(r) => UNCHANGED tasks BY DEF RunEnds
 <2>2. CASE Finish(r)
  <3>1. Finished(tasks[t], flight[r].stage).active = NoRun BY <1>1, FinishedType DEF Releases
  <3>2. \E n \in {tasks[t], Finished(tasks[t], flight[r].stage)} : \E saved : Save(t, n, saved) BY <2>2 DEF Finish
  <3> QED BY <1>1, <3>1, <3>2
 <2>3. CASE CompleteClaim(r)
  <3>1. Completed(tasks[t]).active = tasks[t].active BY <1>1, CompletedType DEF Succeeds
  <3>2. \E saved : Save(t, Completed(tasks[t]), saved) BY <2>3 DEF CompleteClaim
  <3> QED BY <1>1, <3>1, <3>2
 <2> QED BY <2>1, <2>2, <2>3 DEF RunStep
<1> QED BY <1>2, <1>3, <1>4, QuietLease

\* Users and finished prompts take and leave the rooms.
LEMMA ChatLeaseStep ==
  ASSUME IInv, NEW ch \in Chats, ChatStep(ch)
  PROVE  LeaseStep
<1> USE TypeFacts
<1>1. TypeOK BY DEF IInv
<1>2. UNCHANGED <<tasks, pc, job>> BY DEF ChatStep, HubRelease, UserPrompt, UserDone
<1>3. UNCHANGED <<LeaseClaims, Granted>> BY <1>2, SameClaims DEF Granted
<1>4. Lease!Occupy(ch) \/ Lease!Vacate(ch)
 <2>1. CASE UserPrompt(ch) BY <1>3, <2>1 DEF UserPrompt, HasRoom, Lease!Occupy, LeaseClaims, Granted
 <2>2. CASE HubRelease(ch) \/ UserDone(ch)
  <3>1. hub[ch] # Free /\ hub' = [hub EXCEPT ![ch] = Free] BY <1>1, <2>2, SchedulerAssumption DEF HubRelease, UserDone
  <3> QED BY <1>3, <3>1 DEF Lease!Vacate, LeaseClaims, Granted
 <2> QED BY <2>1, <2>2 DEF ChatStep
<1>5. Lease!Next BY <1>4 DEF Lease!Next
<1> QED BY <1>5 DEF LeaseStep

\* A crash keeps the claims and drops the grants and rooms.
LEMMA ProcessLease ==
  ASSUME IInv, Tick \/ Crash \/ Start \/ Quiescent \/ UNCHANGED vars
  PROVE  LeaseStep
<1>1. CASE Tick \/ Start \/ Quiescent \/ UNCHANGED vars
 <2>1. UNCHANGED <<tasks, hub, pc, job>> BY <1>1 DEF Tick, Start, Quiescent, vars
 <2>2. UNCHANGED Granted BY <2>1 DEF Granted
 <2> QED BY <2>1, <2>2, SameLease
<1>2. CASE Crash
 <2>1. UNCHANGED LeaseClaims BY <1>2, SameClaims DEF Crash
 <2>2. Granted' = {} /\ hub' = [ch \in Chats |-> Free] BY <1>2 DEF Crash, Granted
 <2>3. Lease!Restart BY <2>1, <2>2 DEF Lease!Restart, LeaseClaims, Granted
 <2>4. Lease!Next BY <2>3 DEF Lease!Next
 <2> QED BY <2>4 DEF LeaseStep
<1> QED BY <1>1, <1>2

\* Initially no chat is claimed, granted or in use.
LEMMA LeaseInit == Init => Lease!Init
<1> SUFFICES ASSUME Init PROVE Lease!Init OBVIOUS
<1>1. TypeOK /\ IInv BY InitInv DEF IInv
<1>2. \A t \in TaskIds : tasks[t].active = NoRun
 <2>1. Blank("absent").active = NoRun BY BlankType DEF Status
 <2>2. \A def \in OnDisk : Created(Normalized(def), 0, FALSE).active = NoRun BY SchedulerAssumption, NormalizedType, CreatedType
 <2> QED BY <2>1, <2>2 DEF Init, Loaded
<1>3. \A ch \in Chats : ClaimOf(ch) = NoRun BY <1>2, ClaimOfFree
<1>4. Granted = {} BY DEF Init, Granted
<1> QED BY <1>3, <1>4 DEF Init, Lease!Init, Granted

\* The engine implements ChatLease: seen from a chat, a claim is granted to one run,
\* that run alone takes the room, and the claim is settled once.
THEOREM LeaseImplemented == Spec => ImplementsLease
<1>1. IInv /\ [Next]_vars => [Lease!Next]_(Lease!vars)
 <2> SUFFICES ASSUME IInv, [Next]_vars PROVE LeaseStep BY DEF LeaseStep
 <2> QED BY LoopLease, ClaimLease, ClientLease, TaskLease, RunLease, ChatLeaseStep, ProcessLease DEF Next
<1> QED BY <1>1, LeaseInit, Invariance, PTL DEF Spec, ImplementsLease, Lease!Spec

----
\* Instants in the records.

\* The instants a record holds are not ahead of the clock: the last start is
\* over, and a retry is due within the interval its writer backs off for.
Timely(k, at) ==
  /\ k.lastAt <= at
  /\ k.retryAt <= at + BusyRetry \/ k.retryAt <= at + MinInterval

RecordsTimely ==
  /\ \A t \in TaskIds : Timely(tasks[t], now)
  /\ \A c \in Callers : Timely(job[c].snap, now)

\* Only the loop claims without force.
ClientsForce ==
  \A c \in Clients : pc[c] \in ClaimSteps \cup {"claim"} => job[c].force

\* The clock never goes back, and only Tick moves it.
LEMMA ClockForward ==
  ASSUME TypeOK, [Next]_vars
  PROVE  now \in Nat /\ now' \in Nat /\ now <= now'
<1>1. LoopStep => UNCHANGED now BY DEF LoopStep, LoopList, LoopVisit, LoopDelay, LoopWoken, LoopTimer
<1>2. \A c \in Callers : ClaimStep(c) => UNCHANGED now BY DEF ClaimStep, ClaimGet, ClaimScan, ClaimCommit, Dispatch, Settle
<1>3. \A c \in Clients : ClientStep(c) => UNCHANGED now BY DEF ClientStep, CreateCheck, RunNow, CreateCommit
<1>4. \A t \in TaskIds : TaskStep(t) => UNCHANGED now BY DEF TaskStep, Update, Delete, Complete, Recover
<1>5. \A r \in RunIds : RunStep(r) => UNCHANGED now BY DEF RunStep, RunEnds, Finish, CompleteClaim
<1>6. \A ch \in Chats : ChatStep(ch) => UNCHANGED now BY DEF ChatStep, HubRelease, UserPrompt, UserDone
<1>7. Crash \/ Start \/ Quiescent \/ UNCHANGED vars => UNCHANGED now BY DEF Crash, Start, Quiescent, vars
<1>8. Tick => now' = now + 1 BY DEF Tick
<1>9. UNCHANGED now \/ now' = now + 1 BY <1>1, <1>2, <1>3, <1>4, <1>5, <1>6, <1>7, <1>8 DEF Next
<1> QED BY <1>9 DEF TypeOK

\* A record that is not ahead of the clock stays so as the clock goes on.
LEMMA TimelyStays ==
  ASSUME NEW k \in Task, NEW at \in Nat, NEW later \in Nat, at <= later, Timely(k, at)
  PROVE  Timely(k, later)
BY ScheduleTaskAssumption DEF Timely, Task

\* No rewrite of a record puts it ahead of the clock.
LEMMA RewriteTimely ==
  ASSUME NEW k \in Task, NEW m, now \in Nat, Timely(k, now), Rewrites(k, m)
  PROVE  Timely(m, now)
<1> USE ScheduleTaskAssumption
<1> SUFFICES m.lastAt \in {k.lastAt, 0} /\ m.retryAt \in {k.retryAt, 0, now + BusyRetry} BY DEF Timely, Task
<1>1. \A status : \A n \in {Disarmed(k, status), Disarmed(Unclaimed(k), status)} :
        n.lastAt = k.lastAt /\ n.retryAt = 0
 BY DEF Disarmed, Unqueued, Unclaimed, Task
<1>2. m = k \/ m = AuthPaused(k) \/ m = Completed(k)
        => m.lastAt = k.lastAt /\ m.retryAt \in {k.retryAt, 0}
 BY <1>1 DEF AuthPaused, Completed
<1>3. m = Deferred(k, now) \/ m = Requeued(k, now)
        => m.lastAt = k.lastAt /\ m.retryAt = now + BusyRetry
 BY DEF Deferred, Requeued, Unclaimed, Task
<1>4. m = Blank("deleted") => m.lastAt = 0 /\ m.retryAt = 0 BY BlankFields DEF Status
<1>5. m = Recovered(k) => m.lastAt = k.lastAt /\ m.retryAt = k.retryAt BY DEF Recovered, Unclaimed, Task
<1>6. ASSUME NEW result \in Results, m = Finished(k, result)
      PROVE  m.lastAt = k.lastAt /\ m.retryAt \in {k.retryAt, 0}
 <2> DEFINE free == Unclaimed(k)
 <2>1. \A status : \A n \in {[free EXCEPT !.status = IF @ = "running" THEN "paused" ELSE @],
                             [free EXCEPT !.status = status]} :
         n.lastAt = k.lastAt /\ n.retryAt = k.retryAt
  BY DEF Unclaimed, Task
 <2> HIDE DEF free
 <2> QED BY <1>1, <1>6, <2>1 DEF Finished, free
<1>7. ASSUME NEW def \in Definition, NEW switch \in {"keep", "arm", "pause"},
             m = Updated(k, def, switch, now)
      PROVE  m.lastAt = k.lastAt /\ m.retryAt \in {k.retryAt, 0}
 <2> DEFINE new == Switched(k, def, switch)
             cap == Capped(new)
 <2>1. new \in Task /\ new.lastAt = k.lastAt /\ new.retryAt \in {k.retryAt, 0} BY DEF Switched, Unqueued, Task, Status
 <2> HIDE DEF new
 <2>2. cap \in Task /\ cap.lastAt = k.lastAt /\ cap.retryAt \in {k.retryAt, 0} BY <2>1 DEF Capped, Unqueued, Task, Status
 <2> HIDE DEF cap
 <2>3. \A n \in Nat : /\ [Unqueued(cap) EXCEPT !.nextAt = n].lastAt = k.lastAt
                      /\ [Unqueued(cap) EXCEPT !.nextAt = n].retryAt = 0
  BY <2>2 DEF Unqueued, Task
 <2>4. m \in {cap, [Unqueued(cap) EXCEPT !.nextAt = NextOccurrence(def, now)]} BY <1>7 DEF Updated, new, cap
 <2>5. NextOccurrence(def, now) \in Nat BY NextOccurrenceType
 <2> QED BY <2>2, <2>3, <2>4, <2>5
<1> QED BY <1>2, <1>3, <1>4, <1>5, <1>6, <1>7 DEF Rewrites

\* A claim writes its own instant, and puts a floor after a start it has read of.
LEMMA ClaimedByTimely ==
  ASSUME TypeOK, ClockSane, RecordsTimely, NEW c \in Callers
  PROVE  Timely(ClaimedBy(c), now)
<1> USE ScheduleTaskAssumption
<1> DEFINE j == job[c]
            k == tasks[j.task]
<1>1. /\ k \in Task /\ j.snap \in Task /\ j.at \in Nat /\ now \in Nat /\ j.at <= now
      /\ Timely(k, now) /\ Timely(j.snap, now)
 BY TypeFacts DEF ClockSane, RecordsTimely, TypeOK
<1> HIDE DEF k, j
<1>2. Timely(Exhausted(k), now) BY <1>1 DEF Exhausted, Disarmed, Unqueued, Timely, Task
<1>3. Timely(FloorDeferred(k, Earliest(j.snap)), now) BY <1>1 DEF FloorDeferred, Earliest, Timely, Task
<1>4. Timely(Overlapped(k, j.at, j.force), now)
 <2>1. \A f \in BOOLEAN :
         LET due == IF f THEN k ELSE [k EXCEPT !.nextAt = NextAfterClaim(k.def, j.at)]
         IN  /\ due \in Task /\ Timely(due, now)
             /\ due.def = k.def
  BY <1>1, NextAfterClaimType DEF Timely, Task
 <2>2. ASSUME NEW d \in Task, Timely(d, now)
       PROVE  Timely(Skipped(d, j.at), now)
  BY <1>1, <2>2 DEF Skipped, Timely, Task
 <2>3. ASSUME NEW d \in Task, Timely(d, now), NEW f
       PROVE  Timely([d EXCEPT !.pending = TRUE, !.pendingForced = f], now)
  BY <2>3 DEF Timely, Task
 <2> QED BY <1>1, <2>1, <2>2, <2>3 DEF Overlapped, Task
<1>5. Timely(Claimed(k, j.at, j.force, j.snap.pending, j.run), now) BY <1>1 DEF Claimed, Unqueued, Timely, Task
<1> QED BY <1>1, <1>2, <1>3, <1>4, <1>5 DEF ClaimedBy, j, k

----
\* Records kept by the callers.

\* Where the record a caller keeps comes from, and what becomes of its force.
JobFollows(d) ==
  /\ \/ job'[d].snap \in {job[d].snap, NoJob.snap, ClaimedBy(d)}
     \/ \E t \in TaskIds : job'[d].snap = tasks[t]
     \/ \E def, byAgent : job'[d].snap = Created(def, now, byAgent)
  /\ d \in Clients /\ pc'[d] \in ClaimSteps \cup {"claim"} =>
       \/ job'[d].force
       \/ pc[d] \in ClaimSteps \cup {"claim"} /\ job'[d].force = job[d].force

\* A caller that keeps its record follows.
LEMMA SameJobFollows ==
  ASSUME NEW d \in Callers, UNCHANGED <<pc[d], job[d]>>
  PROVE  JobFollows(d)
BY DEF JobFollows

\* A caller that leaves has no record.
LEMMA LeaveFollows ==
  ASSUME TypeOK, NEW c \in Callers, NEW error, Leave(c, error), NEW d \in Callers
  PROVE  JobFollows(d)
BY DEF Leave, Back, Goto, JobFollows, TypeOK, ClaimSteps

\* A step on a claim keeps, reads or writes the caller's record.
LEMMA ClaimFollows ==
  ASSUME TypeOK, NEW c \in Callers, ClaimStep(c), NEW d \in Callers
  PROVE  JobFollows(d)
<1> USE TypeFacts
<1>1. CASE d # c
 <2>1. pc'[d] = pc[d] /\ job'[d] = job[d]
  BY <1>1 DEF ClaimStep, ClaimGet, ClaimScan, ClaimCommit, Dispatch, Settle, Leave, Goto,
              TypeOK
 <2> QED BY <2>1, SameJobFollows
<1>2. CASE d = c
 <2>1. CASE ClaimGet(c)
  <3> DEFINE t == job[c].task
              k == tasks[t]
              force == job[c].force \/ k.pendingForced
              plan == IF ~force /\ Spent(k) THEN "exhaust"
                      ELSE IF ~force /\ TooSoon(k, job[c].at) THEN "floor" ELSE "none"
  <3>1. CASE \E error : Leave(c, error) BY <3>1, LeaveFollows
  <3>2. CASE job' = [job EXCEPT ![c] = [@ EXCEPT !.force = force, !.snap = k, !.plan = plan]]
   <4>1. job[c] \in Job /\ t \in TaskIds /\ pc[c] = "claim" BY <2>1 DEF TypeOK, ClaimGet
   <4> HIDE DEF plan, force
   <4>2. job'[c].snap = k /\ job'[c].force = force BY <3>2, <4>1 DEF TypeOK, Job
   <4>3. job[c].force => force BY DEF force
   <4>4. job[c].force \in BOOLEAN /\ force \in BOOLEAN BY <4>1 DEF force, Job, Task
   <4> QED BY <1>2, <4>1, <4>2, <4>3, <4>4 DEF JobFollows
  <3> QED BY <2>1, <3>1, <3>2 DEF ClaimGet
 <2>2. CASE ClaimScan(c)
  <3>1. job[c] \in Job /\ pc[c] = "scan" BY <2>2 DEF TypeOK, ClaimScan
  <3>2. CASE job' = [job EXCEPT ![c].plan = "overlap"] BY <1>2, <3>1, <3>2 DEF JobFollows, TypeOK, Job, ClaimSteps
  <3>3. CASE \E r \in RunIds \ Held :
               job' = [job EXCEPT ![c] = [@ EXCEPT !.plan = "start", !.run = r]]
   BY <1>2, <3>1, <3>3 DEF JobFollows, TypeOK, Job, ClaimSteps
  <3> QED BY <2>2, <3>2, <3>3 DEF ClaimScan
 <2>3. CASE ClaimCommit(c)
  <3>1. CASE \E error : Leave(c, error) BY <3>1, LeaveFollows
  <3>2. CASE job' = [job EXCEPT ![c].snap = ClaimedBy(c)] /\ Goto(c, "dispatch")
   <4>1. job[c] \in Job BY DEF TypeOK
   <4> QED BY <1>2, <3>2, <4>1 DEF JobFollows, Goto, TypeOK, Job, ClaimSteps
  <3> QED BY <2>3, <3>1, <3>2 DEF ClaimCommit
 <2>4. CASE Dispatch(c) \/ Settle(c)
  <3>1. CASE \E error : Leave(c, error) BY <3>1, LeaveFollows
  <3>2. CASE UNCHANGED job /\ Goto(c, "settle") BY <1>2, <3>2 DEF JobFollows, Goto, TypeOK, ClaimSteps
  <3> QED BY <2>4, <3>1, <3>2 DEF Dispatch, Settle
 <2> QED BY <1>2, <2>1, <2>2, <2>3, <2>4 DEF ClaimStep
<1> QED BY <1>1, <1>2

\* So does every other step.
LEMMA JobsFollow ==
  ASSUME TypeOK, [Next]_vars, NEW d \in Callers
  PROVE  JobFollows(d)
<1> USE TypeFacts
<1>1. ASSUME LoopStep
      PROVE  JobFollows(d)
 <2>1. LoopList \/ LoopDelay \/ LoopWoken \/ LoopTimer =>
         UNCHANGED job /\ \E loc : pc' = [pc EXCEPT ![Loop] = loc]
  BY DEF LoopList, LoopDelay, LoopWoken, LoopTimer, Goto
 <2>2. ASSUME NEW v \in todo, LoopVisit(v)
       PROVE  /\ \E loc : pc' = [pc EXCEPT ![Loop] = loc]
              /\ job'[d].snap \in {job[d].snap, NoJob.snap}
              /\ d # Loop => job'[d] = job[d]
  <3>1. pc' = [pc EXCEPT ![Loop] = "claim"] \/ pc' = [pc EXCEPT ![Loop] = @] BY <2>2 DEF LoopVisit, Goto, TypeOK
  <3>2. [NoJob EXCEPT !.task = v.task, !.at = passAt].snap = NoJob.snap BY NoJobType DEF Job
  <3>3. job' = job \/ job' = [job EXCEPT ![Loop] = [NoJob EXCEPT !.task = v.task, !.at = passAt]] BY <2>2 DEF LoopVisit
  <3> QED BY <3>1, <3>2, <3>3 DEF TypeOK
 <2>3. /\ job'[d].snap \in {job[d].snap, NoJob.snap}
       /\ d # Loop => pc'[d] = pc[d] /\ job'[d] = job[d]
  BY <1>1, <2>1, <2>2 DEF LoopStep, TypeOK
 <2> QED BY <2>3 DEF JobFollows
<1>2. ASSUME NEW c \in Callers, ClaimStep(c)
      PROVE  JobFollows(d)
 BY <1>2, ClaimFollows
<1>3. ASSUME NEW c \in Clients, ClientStep(c)
      PROVE  JobFollows(d)
 <2>1. CASE d # c
  <3>1. pc'[d] = pc[d] /\ job'[d] = job[d] BY <1>3, <2>1 DEF ClientStep, CreateCheck, CreateCommit, RunNow, Leave, Goto, TypeOK
  <3> QED BY <3>1, SameJobFollows
 <2>2. CASE d = c
  <3>1. ASSUME NEW t \in TaskIds, CreateCheck(c, t)
        PROVE  JobFollows(d)
   <4>1. PICK def, byAgent :
           job' = [job EXCEPT ![c] = [NoJob EXCEPT !.task = t,
                                        !.snap = Created(Normalized(def), now, byAgent)]]
    BY <3>1 DEF CreateCheck
   <4>2. job'[c].snap = Created(Normalized(def), now, byAgent) BY <4>1, NoJobType DEF Job, TypeOK
   <4>3. pc'[c] = "create" BY <3>1 DEF CreateCheck, Goto, TypeOK
   <4> QED BY <2>2, <4>2, <4>3 DEF JobFollows, ClaimSteps
  <3>2. ASSUME NEW t \in TaskIds, RunNow(c, t)
        PROVE  JobFollows(d)
   <4>1. CASE UNCHANGED <<pc, job>> BY <4>1, SameJobFollows
   <4>2. CASE job' = [job EXCEPT ![c] = [NoJob EXCEPT !.task = t, !.force = TRUE, !.at = now]]
    <5>1. job'[c].snap = NoJob.snap /\ job'[c].force BY <4>2, NoJobType DEF Job, TypeOK
    <5> QED BY <2>2, <5>1 DEF JobFollows
   <4> QED BY <3>2, <4>1, <4>2 DEF RunNow
  <3>3. CASE CreateCommit(c) BY <3>3, LeaveFollows DEF CreateCommit
  <3> QED BY <1>3, <3>1, <3>2, <3>3 DEF ClientStep
 <2> QED BY <2>1, <2>2
<1>4. \A t \in TaskIds : TaskStep(t) => UNCHANGED <<pc, job>> BY DEF TaskStep, Update, Delete, Complete, Recover
<1>5. \A r \in RunIds : RunStep(r) => UNCHANGED <<pc, job>> BY DEF RunStep, RunEnds, Finish, CompleteClaim
<1>6. \A ch \in Chats : ChatStep(ch) => UNCHANGED <<pc, job>> BY DEF ChatStep, HubRelease, UserPrompt, UserDone
<1>7. Tick \/ Start \/ Quiescent \/ UNCHANGED vars => UNCHANGED <<pc, job>> BY DEF Tick, Start, Quiescent, vars
<1>8. ASSUME Crash
      PROVE  JobFollows(d)
 BY <1>8 DEF Crash, JobFollows, ClaimSteps
<1> QED BY <1>1, <1>2, <1>3, <1>4, <1>5, <1>6, <1>7, <1>8, SameJobFollows DEF Next

\* Initially there is no record.
LEMMA TimelyInit == Init => RecordsTimely /\ ClientsForce
<1>1. \A def, byAgent : Created(def, 0, byAgent).lastAt = 0
                        /\ Created(def, 0, byAgent).retryAt = 0
 BY DEF Created
<1>2. NoJob.snap = Blank("absent") BY DEF NoJob
<1>3. Blank("absent").lastAt = 0 /\ Blank("absent").retryAt = 0 BY BlankFields DEF Status
<1>4. ASSUME NEW k, k.lastAt = 0, k.retryAt = 0
      PROVE  Timely(k, 1)
 BY <1>4, ScheduleTaskAssumption DEF Timely
<1>5. \A k \in Loaded : Timely(k, 1) BY <1>1, <1>3, <1>4 DEF Loaded
<1>6. Timely(NoJob.snap, 1) BY <1>2, <1>3, <1>4
<1>7. Init => RecordsTimely BY <1>5, <1>6 DEF Init, RecordsTimely
<1>8. Init => ClientsForce BY SchedulerAssumption DEF Init, ClientsForce, ClaimSteps, Callers
<1> QED BY <1>7, <1>8

\* Every step keeps the records behind the clock and the forced claims with the clients.
LEMMA TimelyStep ==
  ASSUME IInv, RecordsTimely, ClientsForce, [Next]_vars
  PROVE  RecordsTimely' /\ ClientsForce'
<1> USE TypeFacts, ScheduleTaskAssumption
<1>1. TypeOK /\ ClockSane /\ TypeOK' BY NextInv DEF IInv, ClaimInvariant
<1>2. now \in Nat /\ now' \in Nat /\ now <= now' BY <1>1, ClockForward
<1>3. ASSUME NEW t \in TaskIds
      PROVE  Timely(tasks'[t], now)
 <2>1. tasks[t] \in Task /\ Timely(tasks[t], now) BY <1>1 DEF RecordsTimely
 <2>2. CASE \E c \in Callers : ClaimCommit(c)
  <3>1. PICK c \in Callers : \E saved : Save(job[c].task, ClaimedBy(c), saved) BY <2>2 DEF ClaimCommit
  <3>2. tasks'[t] \in {tasks[t], ClaimedBy(c)} BY <1>1, <3>1 DEF Save, TypeOK
  <3> QED BY <1>1, <2>1, <3>2, ClaimedByTimely
 <2>3. CASE \E c \in Clients : CreateCommit(c)
  <3>1. PICK c \in Clients : \E saved : Save(job[c].task, job[c].snap, saved) BY <2>3 DEF CreateCommit
  <3>2. tasks'[t] \in {tasks[t], job[c].snap} BY <1>1, <3>1 DEF Save, TypeOK
  <3> QED BY <1>1, <2>1, <3>2 DEF RecordsTimely
 <2>4. CASE /\ \A c \in Callers : ~ClaimCommit(c)
            /\ \A c \in Clients : ~CreateCommit(c)
  <3>1. Rewrites(tasks[t], tasks'[t]) BY <1>1, <2>4, OtherWrites DEF TasksRewritten
  <3> QED BY <1>2, <2>1, <3>1, RewriteTimely
 <2> QED BY <2>2, <2>3, <2>4
<1>4. ASSUME NEW c \in Callers
      PROVE  Timely(job'[c].snap, now)
 <2>1. JobFollows(c) BY <1>1, JobsFollow
 <2>2. Timely(NoJob.snap, now) BY <1>2, BlankFields DEF NoJob, Timely, Status
 <2>3. \A def, byAgent : Timely(Created(def, now, byAgent), now) BY <1>2 DEF Created, Timely
 <2>4. Timely(ClaimedBy(c), now) BY <1>1, ClaimedByTimely
 <2> QED BY <2>1, <2>2, <2>3, <2>4 DEF JobFollows, RecordsTimely
<1>5. (\A t \in TaskIds : tasks'[t] \in Task) /\ (\A c \in Callers : job'[c].snap \in Task) BY <1>1 DEF TypeOK, Job
<1>6. RecordsTimely' BY <1>2, <1>3, <1>4, <1>5, TimelyStays DEF RecordsTimely
<1>7. ClientsForce'
 <2>1. ASSUME NEW c \in Clients, pc'[c] \in ClaimSteps \cup {"claim"}
       PROVE  job'[c].force
  <3>1. JobFollows(c) BY <1>1, JobsFollow
  <3> QED BY <2>1, <3>1 DEF JobFollows, ClientsForce
 <2> QED BY <2>1 DEF ClientsForce
<1> QED BY <1>6, <1>7

----
\* The deadline the loop sleeps to.

USE DEF Gone

\* A write that does not wake the loop brings no deadline forward.
NotSooner(k, m) ==
  m.enabled /\ m.nextAt > 0 /\ m.status \notin Gone =>
    /\ k.enabled /\ k.nextAt > 0 /\ k.status \notin Gone
    /\ k.nextAt <= m.nextAt

NoneSooner == \A t \in TaskIds : NotSooner(tasks[t], tasks'[t])

\* A record left alone is not due sooner.
LEMMA SameNotSooner ==
  ASSUME TypeOK, UNCHANGED tasks
  PROVE  NoneSooner
BY DEF NoneSooner, NotSooner, TypeOK, Task

\* Nor are the records beside the one that is saved.
LEMMA SaveNotSooner ==
  ASSUME TypeOK, NEW t \in TaskIds, NEW n, NEW saved, Save(t, n, saved),
         saved => NotSooner(tasks[t], n)
  PROVE  NoneSooner
BY DEF Save, NoneSooner, NotSooner, TypeOK, Task

\* What a forced claim writes.
LEMMA ForcedNotSooner ==
  ASSUME TypeOK, NEW c \in Callers, job[c].force, Stored(job[c].task)
  PROVE  NotSooner(tasks[job[c].task], ClaimedBy(c))
<1> DEFINE j == job[c]
            k == tasks[j.task]
<1>1. /\ k \in Task /\ j \in Job /\ j.at \in Nat /\ j.snap \in Task
      /\ k.status \notin Gone /\ j.force = TRUE
 <2>1. k \in Task /\ j.at \in Nat /\ j.snap \in Task BY TypeFacts
 <2>2. j \in Job BY DEF TypeOK
 <2>3. j.force = TRUE BY <2>2 DEF Job
 <2> QED BY <2>1, <2>2, <2>3 DEF Stored
<1> HIDE DEF j, k
<1>2. NotSooner(k, k) BY <1>1 DEF NotSooner, Task
<1>3. NotSooner(k, Exhausted(k)) BY <1>1 DEF NotSooner, Exhausted, Disarmed, Unqueued, Task
<1>4. NotSooner(k, FloorDeferred(k, Earliest(j.snap)))
 <2>1. Earliest(j.snap) \in Nat BY <1>1, ScheduleTaskAssumption DEF Earliest, Task
 <2> QED BY <1>1, <2>1 DEF NotSooner, FloorDeferred, Task
<1>5. NotSooner(k, Overlapped(k, j.at, j.force))
 <2>1. NotSooner(k, Skipped(k, j.at)) BY <1>1 DEF NotSooner, Skipped, Task
 <2>2. NotSooner(k, [k EXCEPT !.pending = TRUE, !.pendingForced = @ \/ TRUE]) BY <1>1 DEF NotSooner, Task
 <2> QED BY <1>1, <2>1, <2>2 DEF Overlapped
<1>6. NotSooner(k, Claimed(k, j.at, j.force, j.snap.pending, j.run))
 <2> DEFINE advance == j.snap.pending /\ k.enabled /\ k.nextAt > 0 /\ k.nextAt <= j.at
             m == Claimed(k, j.at, j.force, j.snap.pending, j.run)
 <2>1. /\ m.enabled = k.enabled
       /\ m.nextAt = IF advance THEN NextAfterClaim(k.def, j.at) ELSE k.nextAt
  BY <1>1 DEF Claimed, Unqueued, Task
 <2>2. advance /\ NextAfterClaim(k.def, j.at) > 0 => k.nextAt <= NextAfterClaim(k.def, j.at)
  <3>1. k.def.kind = "cron" => j.at < ((j.at \div k.def.when) + 1) * k.def.when BY <1>1 DEF Task, Definition
  <3> QED BY <1>1, <3>1 DEF NextAfterClaim, NextOccurrence, Task, Definition
 <2> HIDE DEF m
 <2>3. NotSooner(k, m) BY <1>1, <2>1, <2>2 DEF NotSooner, Task
 <2> QED BY <2>3 DEF m
<1> QED BY <1>2, <1>3, <1>4, <1>5, <1>6 DEF ClaimedBy, j, k

\* While the loop stays asleep without a token, its timer stands and no
\* deadline comes forward.
StaysAsleep ==
  /\ up /\ pc[Loop] = "asleep" /\ ~wake /\ sleepUntil' = sleepUntil
  /\ NoneSooner

\* A sleeping loop stays asleep and its timer set while no deadline comes forward.
LEMMA AsleepFrame ==
  ASSUME TypeOK, UNCHANGED <<up, wake, sleepUntil, tasks>>, pc'[Loop] = pc[Loop],
         up', pc'[Loop] = "asleep", ~wake'
  PROVE  StaysAsleep
BY SameNotSooner DEF StaysAsleep

\* A write that wakes nobody leaves the timer early enough.
LEMMA QuietSave ==
  ASSUME TypeOK, NEW t \in TaskIds, NEW n, NEW saved, Save(t, n, saved),
         Notify(saved), ~wake'
  PROVE  UNCHANGED <<wake, tasks>>
BY DEF Save, Notify, TypeOK

\* A client's claim wakes the loop or brings no deadline forward.
LEMMA ClaimAsleep ==
  ASSUME TypeOK, ClientsForce, NEW c \in Callers, ClaimStep(c),
         up', pc'[Loop] = "asleep", ~wake'
  PROVE  StaysAsleep
<1> USE TypeFacts
<1>1. c # Loop
 BY DEF ClaimStep, ClaimGet, ClaimScan, ClaimCommit, Dispatch, Settle, Leave, Back, Goto,
        TypeOK
<1>2. /\ UNCHANGED <<up, sleepUntil>> /\ pc'[Loop] = pc[Loop] /\ c \in Clients
 BY <1>1 DEF ClaimStep, ClaimGet, ClaimScan, ClaimCommit, Dispatch, Settle, Leave, Back, Goto,
        TypeOK, loopVars, Callers
<1>3. CASE ClaimGet(c) \/ ClaimScan(c) \/ Dispatch(c)
 <2>1. UNCHANGED <<wake, tasks>> BY <1>3 DEF ClaimGet, ClaimScan, Dispatch
 <2> QED BY <1>2, <2>1, AsleepFrame
<1>4. CASE ClaimCommit(c)
 <2>1. PICK saved : Save(job[c].task, ClaimedBy(c), saved /\ Stored(job[c].task)) BY <1>4 DEF ClaimCommit
 <2>2. job[c].force BY <1>2, <1>4 DEF ClaimCommit, ClientsForce, ClaimSteps
 <2>3. NoneSooner BY <2>1, <2>2, ForcedNotSooner, SaveNotSooner
 <2> QED BY <1>2, <1>4, <2>3 DEF ClaimCommit, StaysAsleep
<1>5. CASE Settle(c)
 <2>1. PICK n, saved : Save(job[c].task, n, saved) /\ Notify(saved) BY <1>5 DEF Settle
 <2>2. UNCHANGED <<wake, tasks>> BY <2>1, QuietSave
 <2> QED BY <1>2, <2>2, AsleepFrame
<1> QED BY <1>3, <1>4, <1>5 DEF ClaimStep

\* So does every other step beside the loop.
LEMMA OthersAsleep ==
  ASSUME TypeOK, ClientsForce, DownIsIdle, [Next]_vars, ~LoopDelay,
         up', pc'[Loop] = "asleep", ~wake'
  PROVE  StaysAsleep
<1> USE TypeFacts
<1>1. ~LoopStep
 <2>1. ~LoopList /\ ~LoopWoken /\ ~LoopTimer BY DEF LoopList, LoopWoken, LoopTimer, Goto, TypeOK
 <2>2. \A v \in todo : ~LoopVisit(v) BY DEF LoopVisit, Goto, TypeOK
 <2> QED BY <2>1, <2>2 DEF LoopStep
<1>2. ASSUME NEW c \in Callers, ClaimStep(c)
      PROVE  StaysAsleep
 BY <1>2, ClaimAsleep
<1>3. ASSUME NEW c \in Clients, ClientStep(c)
      PROVE  StaysAsleep
 <2>1. UNCHANGED <<up, sleepUntil>> /\ pc'[Loop] = pc[Loop]
  BY <1>3 DEF ClientStep, CreateCheck, CreateCommit, RunNow, Leave, Goto, TypeOK, loopVars,
              Requested
 <2>2. ASSUME NEW t \in TaskIds, CreateCheck(c, t)
       PROVE  StaysAsleep
  <3>1. UNCHANGED <<wake, tasks>> BY <2>2 DEF CreateCheck
  <3> QED BY <2>1, <3>1, AsleepFrame
 <2>3. ASSUME NEW t \in TaskIds, RunNow(c, t)
       PROVE  StaysAsleep
  <3>1. NotSooner(tasks[t], AuthPaused(tasks[t])) BY DEF NotSooner, AuthPaused, Disarmed, Unqueued, Task
  <3>2. UNCHANGED tasks \/ \E saved : Save(t, AuthPaused(tasks[t]), saved) BY <2>3 DEF RunNow
  <3>3. NoneSooner BY <3>1, <3>2, SaveNotSooner, SameNotSooner
  <3> QED BY <2>1, <2>3, <3>3 DEF RunNow, StaysAsleep
 <2>4. CASE CreateCommit(c)
  <3>1. PICK saved : Save(job[c].task, job[c].snap, saved) /\ Notify(saved) BY <2>4 DEF CreateCommit
  <3>2. UNCHANGED <<wake, tasks>> BY <3>1, QuietSave
  <3> QED BY <2>1, <3>2, AsleepFrame
 <2> QED BY <1>3, <2>2, <2>3, <2>4 DEF ClientStep
<1>4. ASSUME NEW t \in TaskIds, TaskStep(t)
      PROVE  StaysAsleep
 <2>1. ~Recover(t) BY DEF Recover
 <2>2. UNCHANGED <<up, sleepUntil, pc>> BY <1>4 DEF TaskStep, Update, Delete, Complete, Recover, loopVars, Requested
 <2>3. PICK n, saved : Save(t, n, saved) /\ Notify(saved) BY <1>4, <2>1 DEF TaskStep, Update, Delete, Complete
 <2>4. UNCHANGED <<wake, tasks>> BY <2>3, QuietSave
 <2> QED BY <2>2, <2>4, AsleepFrame
<1>5. ASSUME NEW r \in RunIds, RunStep(r)
      PROVE  StaysAsleep
 <2>1. UNCHANGED <<up, sleepUntil, pc>> BY <1>5 DEF RunStep, RunEnds, Finish, CompleteClaim, loopVars
 <2>2. UNCHANGED <<wake, tasks>>
  <3>1. RunEnds(r) => UNCHANGED <<wake, tasks>> BY DEF RunEnds
  <3>2. ASSUME Finish(r) \/ CompleteClaim(r)
        PROVE  UNCHANGED <<wake, tasks>>
   <4>1. PICK n, saved : Save(flight[r].task, n, saved) /\ Notify(saved) BY <3>2 DEF Finish, CompleteClaim
   <4> QED BY <4>1, QuietSave
  <3> QED BY <1>5, <3>1, <3>2 DEF RunStep
 <2> QED BY <2>1, <2>2, AsleepFrame
<1>6. ASSUME NEW ch \in Chats, ChatStep(ch)
      PROVE  StaysAsleep
 <2>1. UNCHANGED <<up, wake, sleepUntil, tasks, pc>> BY <1>6 DEF ChatStep, HubRelease, UserPrompt, UserDone, loopVars
 <2> QED BY <2>1, AsleepFrame
<1>7. ~Crash /\ ~Start BY DEF Crash, Start, DownIsIdle
<1>8. ASSUME Tick \/ Quiescent \/ UNCHANGED vars
      PROVE  StaysAsleep
 <2>1. UNCHANGED <<up, wake, sleepUntil, tasks, pc>> BY <1>8 DEF Tick, Quiescent, vars, loopVars
 <2> QED BY <2>1, AsleepFrame
<1> QED BY <1>1, <1>2, <1>3, <1>4, <1>5, <1>6, <1>7, <1>8 DEF Next

\* The pass that ends sets a timer for the earliest instant a task asks for.
LEMMA DelayMeetsDeadlines ==
  ASSUME TypeOK, RecordsTimely, LoopDelay
  PROVE  DeadlineNotOverslept'
<1> USE ScheduleTaskAssumption
<1>1. UNCHANGED <<now, tasks>> /\ now \in Nat BY DEF LoopDelay, TypeOK
<1>2. SUFFICES ASSUME NEW t \in Store, tasks[t].enabled, tasks[t].nextAt > 0
               PROVE  /\ sleepUntil' > 0
                      /\ sleepUntil' <= tasks[t].nextAt \/ WithinBackoff(sleepUntil')
 BY <1>1 DEF DeadlineNotOverslept, Store, Stored, WithinBackoff
<1> DEFINE k == tasks[t]
            asked == WakeAt(k, now)
<1>3. k \in Task /\ Timely(k, now) /\ t \in TaskIds BY DEF Store, TypeOK, RecordsTimely
<1>4. /\ asked \in Nat /\ asked > 0
      /\ asked \in {k.nextAt, k.retryAt}
 BY <1>1, <1>2, <1>3 DEF WakeAt, Task
<1>5. asked \in Asks BY <1>4 DEF Asks
<1>6. Asks \subseteq Nat \ {0} BY WakeAtType DEF Asks, TypeOK, Store
<1>7. PICK next \in Soonest : sleepUntil' = Timer(next) BY <1>5 DEF LoopDelay
<1>8. next \in Nat \ {0} /\ next <= asked BY <1>5, <1>6, <1>7 DEF Soonest
<1>9. \/ sleepUntil' = now + BusyRetry
      \/ sleepUntil' = now /\ next < now
      \/ sleepUntil' = next
 BY <1>7 DEF Timer
<1>10. sleepUntil' > 0 BY <1>1, <1>8, <1>9
<1>11. sleepUntil' <= k.nextAt \/ WithinBackoff(sleepUntil') BY <1>1, <1>3, <1>4, <1>8, <1>9 DEF WithinBackoff, Timely, Task
<1> QED BY <1>10, <1>11

DeadlineInv == RecordsTimely /\ ClientsForce /\ DeadlineNotOverslept

\* Initially the loop is about to list the tasks.
LEMMA DeadlineInit == Init => DeadlineInv
<1>1. Init => DeadlineNotOverslept BY SchedulerAssumption DEF Init, DeadlineNotOverslept, Callers
<1> QED BY <1>1, TimelyInit DEF DeadlineInv

\* Every step keeps the timer of a sleeping loop early enough.
LEMMA DeadlineStep ==
  ASSUME IInv, DeadlineInv, [Next]_vars
  PROVE  DeadlineInv'
<1> USE TypeFacts, ScheduleTaskAssumption
<1>1. TypeOK /\ TypeOK' /\ DownIsIdle /\ RecordsTimely /\ ClientsForce BY NextInv DEF IInv, ClaimInvariant, DeadlineInv
<1>2. RecordsTimely' /\ ClientsForce' BY TimelyStep DEF DeadlineInv
<1>3. DeadlineNotOverslept'
 <2>1. CASE LoopDelay BY <1>1, <2>1, DelayMeetsDeadlines
 <2>2. CASE ~LoopDelay
  <3>1. SUFFICES ASSUME up', pc'[Loop] = "asleep", ~wake', NEW t \in TaskIds,
                        tasks'[t].status \notin Gone, tasks'[t].enabled, tasks'[t].nextAt > 0
                 PROVE  /\ sleepUntil' > 0
                        /\ \/ sleepUntil' <= tasks'[t].nextAt \/ sleepUntil' <= now' + BusyRetry
                           \/ sleepUntil' <= now' + MinInterval
   BY DEF DeadlineNotOverslept, Store, Stored, WithinBackoff
  <3>2. StaysAsleep BY <1>1, <2>2, <3>1, OthersAsleep
  <3>3. /\ tasks[t].enabled /\ tasks[t].nextAt > 0 /\ tasks[t].status \notin Gone
        /\ tasks[t].nextAt <= tasks'[t].nextAt
   BY <3>1, <3>2 DEF StaysAsleep, NoneSooner, NotSooner
  <3>4. sleepUntil > 0 /\ (sleepUntil <= tasks[t].nextAt \/ WithinBackoff(sleepUntil))
   BY <3>2, <3>3 DEF DeadlineInv, DeadlineNotOverslept, StaysAsleep, Store, Stored
  <3>5. now \in Nat /\ now' \in Nat /\ now <= now' BY <1>1, ClockForward
  <3>6. /\ sleepUntil \in Nat /\ sleepUntil' = sleepUntil
        /\ tasks[t].nextAt \in Nat /\ tasks'[t].nextAt \in Nat
   BY <1>1, <3>2 DEF TypeOK, Task, StaysAsleep
  <3>7. \/ sleepUntil <= tasks[t].nextAt
        \/ sleepUntil <= now + BusyRetry \/ sleepUntil <= now + MinInterval
   BY <3>4 DEF WithinBackoff
  <3>8. /\ BusyRetry \in Nat /\ MinInterval \in Nat OBVIOUS
  <3> DEFINE before == tasks[t].nextAt
              after == tasks'[t].nextAt
              timer == sleepUntil
              at == now
              later == now'
  <3>10. /\ before \in Nat /\ after \in Nat /\ before <= after /\ timer \in Nat
         /\ at \in Nat /\ later \in Nat /\ at <= later
         /\ timer <= before \/ timer <= at + BusyRetry \/ timer <= at + MinInterval
   BY <3>3, <3>5, <3>6, <3>7
  <3> HIDE DEF before, after, timer, at, later
  <3>11. timer <= after \/ timer <= later + BusyRetry \/ timer <= later + MinInterval BY <3>8, <3>10
  <3> USE DEF before, after, timer, at, later
  <3>9. \/ sleepUntil' <= tasks'[t].nextAt
        \/ sleepUntil' <= now' + BusyRetry \/ sleepUntil' <= now' + MinInterval
   BY <3>6, <3>11
  <3> QED BY <3>4, <3>6, <3>9
 <2> QED BY <2>1, <2>2
<1> QED BY <1>2, <1>3 DEF DeadlineInv

\* A sleeping loop that no token waits for has a timer set no later than the next
\* occurrence of every armed task, or within the interval it backs off for: whoever
\* brings an occurrence forward behind the loop's back notifies it.
THEOREM DeadlinesMet == Spec => []DeadlineNotOverslept
<1>1. DeadlineInv => DeadlineNotOverslept BY DEF DeadlineInv
<1> QED BY <1>1, DeadlineInit, DeadlineStep, Invariance, PTL DEF Spec

----
\* The occurrences that are owed.

\* A queued occurrence, or a deadline that is over.
Waiting(k) == k.pending \/ (k.nextAt > 0 /\ k.nextAt <= now)

\* A record that stays armed and queue_one keeps what it waits for.
KeepsWaiting(k, m) ==
  k.status \notin Gone /\ k.enabled /\ m.enabled /\ m.def.overlap = "queue_one" =>
    m.status \notin Gone /\ (Waiting(k) => Waiting(m))

AllKeepWaiting == \A t \in TaskIds : KeepsWaiting(tasks[t], tasks'[t])

\* A caller about to dispatch or settle a start of t under queue_one.
Debtor(c, t) ==
  pc[c] \in {"dispatch", "settle"} /\ job[c].task = t /\ job[c].snap.def.overlap = "queue_one"

DebtorsStay(t) == \A c \in Callers : Debtor(c, t) => Debtor(c, t)'

\* What is owed stays owed while records keep what they wait for and callers go on.
LEMMA OwedStays ==
  ASSUME TypeOK, TypeOK', now <= now', AllKeepWaiting,
         NEW t \in TaskIds, Owed(t), tasks'[t].enabled, tasks'[t].def.overlap = "queue_one",
         DebtorsStay(t)
  PROVE  Owed(t)'
<1>1. tasks[t].status \notin Gone /\ tasks[t].enabled BY DEF Owed, Stored
<1>2. tasks'[t].status \notin Gone /\ (Waiting(tasks[t]) => Waiting(tasks'[t])) BY <1>1 DEF AllKeepWaiting, KeepsWaiting
<1>3. tasks'[t].nextAt \in Nat /\ now \in Nat /\ now' \in Nat BY DEF TypeOK, Task
<1>4. CASE Waiting(tasks[t])
 <2>1. tasks'[t].pending \/ (tasks'[t].nextAt > 0 /\ tasks'[t].nextAt <= now') BY <1>2, <1>3, <1>4 DEF Waiting
 <2> QED BY <1>2, <2>1 DEF Owed, Stored
<1>5. CASE ~Waiting(tasks[t])
 <2>1. PICK c \in Callers : Debtor(c, t) BY <1>5 DEF Owed, Waiting, Debtor
 <2>2. Debtor(c, t)' BY <2>1 DEF DebtorsStay
 <2> QED BY <1>2, <2>2 DEF Owed, Stored, Debtor
<1> QED BY <1>4, <1>5

\* Records left alone wait as before.
LEMMA SameKeepWaiting ==
  ASSUME UNCHANGED tasks
  PROVE  AllKeepWaiting
BY DEF AllKeepWaiting, KeepsWaiting

\* So do the records beside the one that is saved.
LEMMA SaveKeepsWaiting ==
  ASSUME TypeOK, NEW t \in TaskIds, NEW n, NEW saved, Save(t, n, saved),
         saved => KeepsWaiting(tasks[t], n)
  PROVE  AllKeepWaiting
<1>1. \A k : KeepsWaiting(k, k) BY DEF KeepsWaiting
<1>2. \A u \in TaskIds : tasks'[u] = tasks[u] \/ (u = t /\ saved /\ tasks'[u] = n) BY DEF Save, TypeOK
<1> QED BY <1>1, <1>2 DEF AllKeepWaiting

\* What may be written without touching what a record waits for.
LEMMA RewritesWait ==
  ASSUME NEW k \in Task
  PROVE  /\ KeepsWaiting(k, k) /\ KeepsWaiting(k, AuthPaused(k)) /\ KeepsWaiting(k, Completed(k))
         /\ KeepsWaiting(k, Exhausted(k)) /\ KeepsWaiting(k, Blank("deleted"))
         /\ KeepsWaiting(k, Deferred(k, now)) /\ KeepsWaiting(k, Requeued(k, now))
         /\ \A result \in Results : KeepsWaiting(k, Finished(k, result))
<1>1. \A status : ~Disarmed(k, status).enabled /\ ~Disarmed(Unclaimed(k), status).enabled
 BY DEF Disarmed, Unqueued, Unclaimed, Task
<1>2. KeepsWaiting(k, k) /\ KeepsWaiting(k, AuthPaused(k)) /\ KeepsWaiting(k, Completed(k))
      /\ KeepsWaiting(k, Exhausted(k))
 BY <1>1 DEF KeepsWaiting, AuthPaused, Completed, Exhausted
<1>3. KeepsWaiting(k, Blank("deleted")) BY BlankFields DEF KeepsWaiting, Status
<1>4. KeepsWaiting(k, Deferred(k, now)) BY DEF KeepsWaiting, Deferred, Waiting, Task
<1>5. KeepsWaiting(k, Requeued(k, now))
 <2> DEFINE m == Requeued(k, now)
 <2>1. m.pending /\ m.status \in {k.status, "active"} BY DEF Requeued, Unclaimed, Task
 <2> QED BY <2>1 DEF KeepsWaiting, Waiting
<1>6. ASSUME NEW result \in Results
      PROVE  KeepsWaiting(k, Finished(k, result))
 <2> DEFINE m == Finished(k, result)
 <2>1. CASE k.enabled /\ m.enabled
  <3>1. m = [Unclaimed(k) EXCEPT !.status = "active"] BY <1>1, <2>1 DEF Finished
  <3>2. m.status = "active" /\ m.pending = k.pending /\ m.nextAt = k.nextAt BY <3>1 DEF Unclaimed, Task
  <3> QED BY <3>2 DEF KeepsWaiting, Waiting
 <2> QED BY <2>1 DEF KeepsWaiting
<1> QED BY <1>2, <1>3, <1>4, <1>5, <1>6

\* A user's edit keeps what a record waits for or sets a deadline ahead of the clock.
LEMMA UpdatedWaits ==
  ASSUME NEW k \in Task, now \in Nat, NEW def \in Definition, NEW switch \in {"keep", "arm", "pause"},
         Valid(def, now, Rescheduled(k, def) \/ switch = "arm"),
         k.status \notin Gone, k.enabled, Updated(k, def, switch, now).enabled
  PROVE  \/ KeepsWaiting(k, Updated(k, def, switch, now))
         \/ Updated(k, def, switch, now).nextAt > now
<1> DEFINE new == Capped(Switched(k, def, switch))
            moved == Rescheduled(k, def) \/ switch = "arm"
<1>1. new \in Task
 <2>1. Switched(k, def, switch) \in Task BY DEF Switched, Unqueued, Task, Status
 <2> QED BY <2>1, CappedType DEF Survives, Succeeds
<1>2. CASE new.enabled /\ moved
 <2>1. Updated(k, def, switch, now) = [Unqueued(new) EXCEPT !.nextAt = NextOccurrence(def, now)] BY <1>2 DEF Updated
 <2>2. Updated(k, def, switch, now).nextAt = NextOccurrence(def, now) BY <1>1, <2>1 DEF Unqueued, Task
 <2>3. NextOccurrence(def, now) > now
  <3>1. CASE def.kind = "once" BY <1>2, <3>1 DEF NextOccurrence, Valid, Definition
  <3>2. CASE def.kind # "once"
   <4>1. def.when \in Nat \ {0} BY DEF Definition
   <4>2. \A w \in Nat \ {0} : now < ((now \div w) + 1) * w OBVIOUS
   <4> QED BY <3>2, <4>1, <4>2 DEF NextOccurrence
  <3> QED BY <3>1, <3>2
 <2> QED BY <2>2, <2>3
<1>3. CASE ~(new.enabled /\ moved)
 <2>1. Updated(k, def, switch, now) = new BY <1>3 DEF Updated
 <2>2. new.enabled /\ switch = "keep" BY <1>3, <2>1 DEF Switched, Capped, Unqueued, Task
 <2>3. new = [k EXCEPT !.def = def]
  <3>1. ~[Unqueued([k EXCEPT !.def = def]) EXCEPT !.enabled = FALSE, !.status = "exhausted"].enabled BY DEF Unqueued, Task
  <3> QED BY <2>2, <3>1 DEF Switched, Capped
 <2>4. new.status = k.status /\ new.pending = k.pending /\ new.nextAt = k.nextAt BY <2>3 DEF Task
 <2>5. KeepsWaiting(k, new) BY <2>4 DEF KeepsWaiting, Waiting
 <2> QED BY <2>1, <2>5
<1> QED BY <1>2, <1>3

\* Only a caller's own dispatch and settlement, or a crash, end what it is about.
LEMMA DebtorStep ==
  ASSUME TypeOK, [Next]_vars, ~Crash, NEW t \in TaskIds, NEW c \in Callers, Debtor(c, t),
         ~Dispatch(c), ~Settle(c)
  PROVE  Debtor(c, t)'
<1> USE TypeFacts DEF Goto
<1> SUFFICES pc'[c] = pc[c] /\ job'[c] = job[c] BY DEF Debtor
<1>0. pc \in [Callers -> Locations] /\ job \in [Callers -> Job] /\ pc[c] \in {"dispatch", "settle"} BY DEF TypeOK, Debtor
<1>1. ASSUME LoopStep
      PROVE  pc'[c] = pc[c] /\ job'[c] = job[c]
 BY <1>0, <1>1 DEF LoopStep, LoopList, LoopVisit, LoopDelay, LoopWoken, LoopTimer
<1>2. ASSUME NEW d \in Callers, ClaimStep(d)
      PROVE  pc'[c] = pc[c] /\ job'[c] = job[c]
 <2>1. CASE d = c BY <1>0, <1>2, <2>1 DEF ClaimStep, ClaimGet, ClaimScan, ClaimCommit
 <2>2. CASE d # c BY <1>0, <1>2, <2>2 DEF ClaimStep, ClaimGet, ClaimScan, ClaimCommit, Dispatch, Settle, Leave
 <2> QED BY <2>1, <2>2
<1>3. ASSUME NEW d \in Clients, ClientStep(d)
      PROVE  pc'[c] = pc[c] /\ job'[c] = job[c]
 BY <1>0, <1>3 DEF ClientStep, CreateCheck, RunNow, CreateCommit, Leave
<1>4. ASSUME NEW u \in TaskIds, TaskStep(u)
      PROVE  pc'[c] = pc[c] /\ job'[c] = job[c]
 BY <1>4 DEF TaskStep, Update, Delete, Complete, Recover
<1>5. ASSUME NEW r \in RunIds, RunStep(r)
      PROVE  pc'[c] = pc[c] /\ job'[c] = job[c]
 BY <1>5 DEF RunStep, RunEnds, Finish, CompleteClaim
<1>6. ASSUME NEW ch \in Chats, ChatStep(ch)
      PROVE  pc'[c] = pc[c] /\ job'[c] = job[c]
 BY <1>6 DEF ChatStep, HubRelease, UserPrompt, UserDone
<1>7. Tick \/ Start \/ Quiescent \/ UNCHANGED vars => pc'[c] = pc[c] /\ job'[c] = job[c] BY DEF Tick, Start, Quiescent, vars
<1> QED BY <1>1, <1>2, <1>3, <1>4, <1>5, <1>6, <1>7 DEF Next

\* What a commit of a claim writes keeps what the task waits for, but for a start,
\* which the caller then owes, and for the interval floor.
LEMMA ClaimedByWaits ==
  ASSUME TypeOK, RecordsTimely, NEW c \in Callers, NEW t, t = job[c].task
  PROVE  \/ KeepsWaiting(tasks[t], ClaimedBy(c))
         \/ job[c].plan = "start" /\ Claimable(tasks[t], job[c].at, job[c].force)
         \/ /\ ClaimedBy(c).nextAt \in now + 1 .. now + MinInterval
            /\ MinInterval > 0
<1> DEFINE j == job[c]
            k == tasks[t]
<1> USE TypeFacts, ScheduleTaskAssumption
<1>1. k \in Task /\ j.snap \in Task /\ j.at \in Nat /\ now \in Nat BY DEF TypeOK
<1>2. CASE j.plan = "exhaust" BY <1>1, <1>2, RewritesWait DEF ClaimedBy
<1>3. CASE j.plan = "floor"
 <2> DEFINE earliest == Earliest(j.snap)
 <2>1. earliest \in Nat /\ earliest <= now + MinInterval BY <1>1 DEF Earliest, RecordsTimely, Timely, Task
 <2>2. ClaimedBy(c) = FloorDeferred(k, earliest) BY <1>3 DEF ClaimedBy
 <2> HIDE DEF j, k, earliest
 <2>3. CASE k.pending
  <3>1. FloorDeferred(k, earliest) = k \/ FloorDeferred(k, earliest) = [k EXCEPT !.retryAt = earliest] BY <2>3 DEF FloorDeferred
  <3>2. FloorDeferred(k, earliest).pending /\ FloorDeferred(k, earliest).status = k.status BY <1>1, <2>3, <3>1 DEF Task
  <3>3. KeepsWaiting(k, FloorDeferred(k, earliest)) BY <3>2 DEF KeepsWaiting, Waiting
  <3> QED BY <2>2, <3>3 DEF k
 <2>4. CASE ~k.pending /\ k.nextAt > 0 /\ k.nextAt < earliest
  <3>1. FloorDeferred(k, earliest) = [k EXCEPT !.nextAt = earliest] BY <2>4 DEF FloorDeferred
  <3>2. FloorDeferred(k, earliest).nextAt = earliest /\ FloorDeferred(k, earliest).status = k.status BY <1>1, <3>1 DEF Task
  <3>3. earliest > 0 BY <1>1, <2>1, <2>4 DEF Task
  <3>4. CASE earliest <= now
   <4>1. KeepsWaiting(k, FloorDeferred(k, earliest)) BY <3>2, <3>3, <3>4 DEF KeepsWaiting, Waiting
   <4> QED BY <2>2, <4>1 DEF k
  <3>5. CASE earliest > now
   <4>1. earliest \in now + 1 .. now + MinInterval /\ MinInterval > 0 BY <1>1, <2>1, <3>5
   <4> QED BY <2>2, <3>2, <4>1
  <3> QED BY <1>1, <2>1, <3>4, <3>5
 <2>5. CASE ~k.pending /\ ~(k.nextAt > 0 /\ k.nextAt < earliest)
  <3>1. FloorDeferred(k, earliest) = k BY <2>5 DEF FloorDeferred
  <3> QED BY <1>1, <2>2, <3>1, RewritesWait DEF k
 <2> QED BY <2>3, <2>4, <2>5
<1>4. CASE j.plan = "overlap"
 <2>1. ClaimedBy(c) = Overlapped(k, j.at, j.force) BY <1>4 DEF ClaimedBy
 <2> DEFINE due == IF j.force THEN k ELSE [k EXCEPT !.nextAt = NextAfterClaim(k.def, j.at)]
             m == Overlapped(k, j.at, j.force)
 <2>2. due \in Task /\ due.def = k.def /\ due.status = k.status BY <1>1, NextAfterClaimType DEF Task
 <2> HIDE DEF due
 <2>3. \/ m = k
       \/ m = Skipped(due, j.at) /\ k.def.overlap # "queue_one"
       \/ m = [due EXCEPT !.pending = TRUE, !.pendingForced = @ \/ j.force]
  <3>1. CASE ~j.force /\ (~k.enabled \/ ~IsDue(k, j.at))
   <4>1. m = k BY <3>1, Zenon DEF Overlapped
   <4> QED BY <4>1
  <3>2. CASE ~(~j.force /\ (~k.enabled \/ ~IsDue(k, j.at))) /\ k.def.overlap = "queue_one"
   <4>1. m = [due EXCEPT !.pending = TRUE, !.pendingForced = @ \/ j.force] BY <3>2, Zenon DEF Overlapped, due
   <4> QED BY <4>1
  <3>3. CASE ~(~j.force /\ (~k.enabled \/ ~IsDue(k, j.at))) /\ k.def.overlap # "queue_one" BY <3>3 DEF Overlapped, due
  <3> QED BY <3>1, <3>2, <3>3
 <2>4. Skipped(due, j.at).def = due.def BY <2>2 DEF Skipped, Task
 <2>5. m = [due EXCEPT !.pending = TRUE, !.pendingForced = @ \/ j.force]
         => m.pending /\ m.status = k.status
  BY <2>2 DEF Task
 <2> HIDE DEF m, j
 <2>6. KeepsWaiting(k, m) BY <1>1, <2>2, <2>3, <2>4, <2>5, RewritesWait DEF KeepsWaiting, Waiting
 <2> QED BY <2>1, <2>6 DEF m, j
<1>5. CASE j.plan \notin {"exhaust", "floor", "overlap"}
           /\ ~(j.plan = "start" /\ Claimable(k, j.at, j.force))
 <2>1. ClaimedBy(c) = k BY <1>5 DEF ClaimedBy
 <2> QED BY <1>1, <2>1, RewritesWait
<1> QED BY <1>2, <1>3, <1>4, <1>5

\* The debt of t persists, or a run is accepted for it, or a user's edit or the interval
\* floor puts it off.
Settled(t) ==
  Owed(t) /\ up' /\ tasks'[t].enabled /\ tasks'[t].def.overlap = "queue_one" =>
    \/ Owed(t)'
    \/ \E r \in RunIds : flight[r].stage = "none" /\ flight'[r].stage = "going"
                           /\ flight'[r].task = t
    \/ tasks'[t].nextAt > now /\ budget' < budget
    \/ MinInterval > 0 /\ tasks'[t].nextAt \in now + 1 .. now + MinInterval

\* Steps of claims.
LEMMA ClaimSettled ==
  ASSUME IInv, IInv', [Next]_vars, RecordsTimely, WritesFail = FALSE, now <= now',
         NEW c \in Callers, ClaimStep(c), NEW t \in TaskIds
  PROVE  Settled(t)
<1> USE TypeFacts DEF Goto
<1> SUFFICES ASSUME Owed(t), up', tasks'[t].enabled, tasks'[t].def.overlap = "queue_one",
                     ~Owed(t)'
              PROVE  \/ \E r \in RunIds : flight[r].stage = "none" /\ flight'[r].stage = "going"
                                            /\ flight'[r].task = t
                     \/ MinInterval > 0 /\ tasks'[t].nextAt \in now + 1 .. now + MinInterval
 BY DEF Settled
<1>0. /\ TypeOK /\ TypeOK' /\ GrantHeld /\ RunIdsUnique
      /\ pc \in [Callers -> Locations] /\ job \in [Callers -> Job] /\ tasks \in [TaskIds -> Task]
      /\ flight \in [RunIds -> [stage : Stages, task : TaskIds]]
 BY DEF IInv, ClaimInvariant, TypeOK
<1>1. \A u \in TaskIds, saved \in SaveOutcomes : saved = TRUE BY DEF SaveOutcomes
<1>2. Stored(t) BY DEF Owed
<1>3. ~Crash BY DEF Crash
<1>4. \A d \in Callers : d # c => ~(Debtor(d, t) /\ ~Debtor(d, t)')
 BY <1>0 DEF Debtor, ClaimStep, ClaimGet, ClaimScan, ClaimCommit, Dispatch, Settle, Leave
<1>5. CASE ClaimGet(c) \/ ClaimScan(c)
 <2>1. UNCHANGED tasks /\ ~Debtor(c, t) BY <1>5 DEF ClaimGet, ClaimScan, Debtor
 <2> QED BY <1>0, <1>4, <2>1, SameKeepWaiting, OwedStays DEF DebtorsStay
<1>6. CASE ClaimCommit(c)
 <2> DEFINE u == job[c].task
             starts == job[c].plan = "start" /\ Claimable(tasks[u], job[c].at, job[c].force)
 <2>1. PICK saved \in SaveOutcomes :
         /\ Save(u, ClaimedBy(c), saved /\ Stored(u))
         /\ saved /\ Stored(u) /\ starts =>
              /\ job' = [job EXCEPT ![c].snap = ClaimedBy(c)]
              /\ pc' = [pc EXCEPT ![c] = "dispatch"]
  BY <1>6 DEF ClaimCommit
 <2>2. DebtorsStay(t) BY <1>4, <1>6 DEF DebtorsStay, Debtor, ClaimCommit
 <2>3. ~AllKeepWaiting BY <1>0, <2>2, OwedStays
 <2>4. Stored(u) /\ ~KeepsWaiting(tasks[u], ClaimedBy(c)) BY <1>0, <2>1, <2>3, SaveKeepsWaiting
 <2>5. tasks' = [tasks EXCEPT ![u] = ClaimedBy(c)] BY <1>1, <2>1, <2>4 DEF Save
 <2>6. u = t
  <3>1. u # t => tasks'[t] = tasks[t] BY <2>5, <1>0
  <3>2. u # t => Owed(t)'
   <4>1. ASSUME u # t PROVE Owed(t)'
    <5>1. now \in Nat /\ now' \in Nat /\ tasks[t].nextAt \in Nat BY <1>0 DEF TypeOK, Task
    <5>2. (tasks[t].nextAt > 0 /\ tasks[t].nextAt <= now) => tasks[t].nextAt <= now' BY <5>1
    <5>3. \A d \in Callers : Debtor(d, t) => Debtor(d, t)' BY <2>2 DEF DebtorsStay
    <5> QED BY <3>1, <4>1, <5>2, <5>3 DEF Owed, Stored, Debtor
   <4> QED BY <4>1
  <3> QED BY <3>2
 <2>7. CASE starts
  <3>1. /\ job'[c].snap = ClaimedBy(c) /\ job'[c].task = u /\ pc'[c] = "dispatch"
        /\ tasks'[t] = ClaimedBy(c)
   BY <1>0, <1>1, <2>1, <2>4, <2>5, <2>6, <2>7 DEF Job
  <3>2. tasks'[t].status \notin Gone
   <4>1. tasks'[t].active = job[c].run /\ job[c].run # NoRun
    <5>1. StartPlanned /\ pc[c] = "commit" BY <1>6 DEF IInv, ClaimInvariant, ClaimCommit
    <5>2. job[c].run # NoRun BY <2>7, <5>1 DEF StartPlanned
    <5>3. ClaimedBy(c) = Claimed(tasks[u], job[c].at, job[c].force, job[c].snap.pending, job[c].run) BY <2>7 DEF ClaimedBy
    <5>4. ClaimedBy(c).active = job[c].run BY <1>0, <5>3 DEF Claimed, Unqueued, Task
    <5> QED BY <3>1, <5>2, <5>4
   <4>2. GoneIsIdle' BY DEF IInv, ClaimInvariant
   <4> QED BY <4>1, <4>2 DEF GoneIsIdle, Stored
  <3> QED BY <2>6, <3>1, <3>2 DEF Owed, Stored
 <2>8. CASE ~starts
  <3>1. tasks'[t] = ClaimedBy(c) BY <1>0, <2>5, <2>6
  <3> QED BY <1>0, <2>4, <2>6, <2>8, <3>1, ClaimedByWaits
 <2> QED BY <2>7, <2>8
<1>7. CASE Dispatch(c)
 <2>1. UNCHANGED tasks /\ AllKeepWaiting BY <1>7, SameKeepWaiting DEF Dispatch
 <2>2. Debtor(c, t) /\ ~Debtor(c, t)' BY <1>0, <1>4, <2>1, OwedStays DEF DebtorsStay
 <2>3. flight' = [flight EXCEPT ![job[c].run] = [stage |-> "going", task |-> job[c].task]]
  BY <1>0, <1>7, <2>2 DEF Dispatch, Debtor
 <2>4. job[c].run \in RunIds /\ flight[job[c].run].stage = "none" /\ job[c].task = t
  BY <1>0, <2>2 DEF GrantHeld, RunIdsUnique, Debtor
 <2>5. flight'[job[c].run] = [stage |-> "going", task |-> t] BY <1>0, <2>3, <2>4
 <2> QED BY <2>4, <2>5
<1>8. CASE Settle(c)
 <2> DEFINE u == job[c].task
             queue == job[c].snap.def.overlap = "queue_one"
             n == IF tasks[u].active # job[c].run THEN tasks[u]
                  ELSE IF queue THEN Requeued(tasks[u], now)
                  ELSE Finished(tasks[u], "error")
 <2>1. PICK saved \in SaveOutcomes : Save(u, n, saved /\ Stored(u)) BY <1>8 DEF Settle
 <2>2. KeepsWaiting(tasks[u], n) BY <1>0, RewritesWait DEF Results
 <2>3. AllKeepWaiting BY <1>0, <2>1, <2>2, SaveKeepsWaiting
 <2>4. Debtor(c, t) BY <1>0, <1>4, <2>3, OwedStays DEF DebtorsStay
 <2>5. u = t /\ queue /\ tasks[t].active = job[c].run BY <1>0, <1>2, <2>4 DEF Debtor, GrantHeld
 <2>6. n = Requeued(tasks[t], now) BY <2>5
 <2>7. tasks' = [tasks EXCEPT ![t] = Requeued(tasks[t], now)] BY <1>1, <1>2, <2>1, <2>5, <2>6 DEF Save
 <2>8. tasks'[t].pending /\ tasks'[t].status \in {tasks[t].status, "active"} BY <1>0, <2>7 DEF Requeued, Unclaimed, Task
 <2> QED BY <1>2, <2>8 DEF Owed, Stored
<1> QED BY <1>5, <1>6, <1>7, <1>8 DEF ClaimStep

\* The other steps.
LEMMA OtherSettled ==
  ASSUME IInv, IInv', [Next]_vars, WritesFail = FALSE, now <= now',
         \A c \in Callers : ~ClaimStep(c), NEW t \in TaskIds
  PROVE  Settled(t)
<1> USE TypeFacts DEF Goto
<1>0. /\ TypeOK /\ TypeOK' /\ CreationsDistinct /\ tasks \in [TaskIds -> Task] /\ now \in Nat BY DEF IInv, ClaimInvariant, TypeOK
<1>1. SUFFICES ASSUME Owed(t), up', tasks'[t].enabled, tasks'[t].def.overlap = "queue_one",
                     ~Owed(t)'
              PROVE  tasks'[t].nextAt > now /\ budget' < budget
 BY DEF Settled
<1>2. DebtorsStay(t)
 <2>1. ~Crash BY <1>1 DEF Crash
 <2>2. \A c \in Callers : ~Dispatch(c) /\ ~Settle(c) BY DEF ClaimStep
 <2> QED BY <1>0, <2>1, <2>2, DebtorStep DEF DebtorsStay
<1>3. ~AllKeepWaiting BY <1>0, <1>1, <1>2, OwedStays
<1>4. tasks' # tasks BY <1>3, SameKeepWaiting
<1>5. \A u \in TaskIds : \A n, saved :
        Save(u, n, saved) => ~KeepsWaiting(tasks[u], n)
 BY <1>0, <1>3, SaveKeepsWaiting
<1>6. ~LoopStep
 <2>1. ASSUME NEW v \in todo, LoopVisit(v)
       PROVE  FALSE
  <3>1. v.task \in TaskIds BY <1>0 DEF TypeOK
  <3>2. \A outcome : \A saved :
          ~Save(v.task, IF outcome = "denied" THEN AuthPaused(tasks[v.task])
                        ELSE Deferred(tasks[v.task], now), saved)
   BY <1>0, <1>5, <3>1, RewritesWait
  <3> QED BY <1>4, <2>1, <3>2 DEF LoopVisit
 <2> QED BY <1>4, <2>1 DEF LoopStep, LoopList, LoopDelay, LoopWoken, LoopTimer
<1>7. \A c \in Clients : ~ClientStep(c)
 <2> SUFFICES ASSUME NEW c \in Clients, ClientStep(c) PROVE FALSE OBVIOUS
 <2>1. \A u \in TaskIds : ~CreateCheck(c, u) BY <1>4 DEF CreateCheck
 <2>2. \A u \in TaskIds : ~RunNow(c, u) BY <1>0, <1>4, <1>5, RewritesWait DEF RunNow
 <2>3. CASE CreateCommit(c)
  <3>1. tasks[job[c].task].status = "absent" BY <1>0, <2>3 DEF CreationsDistinct, CreateCommit
  <3>2. KeepsWaiting(tasks[job[c].task], job[c].snap) BY <3>1 DEF KeepsWaiting
  <3> QED BY <1>0, <1>5, <2>3, <3>2 DEF CreateCommit
 <2> QED BY <2>1, <2>2, <2>3 DEF ClientStep
<1>8. ASSUME NEW u \in TaskIds, TaskStep(u)
      PROVE  tasks'[t].nextAt > now /\ budget' < budget
 <2>1. ~Delete(u) /\ ~Complete(u) BY <1>0, <1>5, RewritesWait DEF Delete, Complete
 <2>2. ~Recover(u) BY <1>1 DEF Recover
 <2>3. Update(u) BY <1>8, <2>1, <2>2 DEF TaskStep
 <2>4. PICK def \in Definitions \cup {tasks[u].def}, switch \in {"keep", "arm", "pause"},
            saved \in SaveOutcomes :
         /\ Valid(Normalized(def), now, Rescheduled(tasks[u], Normalized(def)) \/ switch = "arm")
         /\ Save(u, Updated(tasks[u], Normalized(def), switch, now), saved)
  BY <2>3 DEF Update
 <2> DEFINE m == Updated(tasks[u], Normalized(def), switch, now)
 <2>5. Normalized(def) \in Definition BY <1>0, NormalizedType, SchedulerAssumption DEF Task
 <2>6. ~KeepsWaiting(tasks[u], m) BY <1>5, <2>4
 <2>7. m.nextAt > now BY <1>0, <2>4, <2>5, <2>6, UpdatedWaits DEF KeepsWaiting
 <2>8. saved = TRUE BY DEF SaveOutcomes
 <2>9. tasks' = [tasks EXCEPT ![u] = m] BY <2>4, <2>8 DEF Save
 <2>10. budget' < budget BY <1>0, <2>3 DEF Update, Requested, TypeOK
 <2>11. CASE u = t BY <1>0, <2>7, <2>9, <2>10, <2>11
 <2>12. CASE u # t
  <3>1. tasks'[t] = tasks[t] BY <1>0, <2>9, <2>12
  <3>2. now' = now BY <2>3 DEF Update
  <3>3. \A d \in Callers : Debtor(d, t) => Debtor(d, t)' BY <1>2 DEF DebtorsStay
  <3> QED BY <1>1, <3>1, <3>2, <3>3 DEF Owed, Stored, Debtor
 <2> QED BY <2>11, <2>12
<1>9. \A r \in RunIds : ~RunStep(r)
 <2> SUFFICES ASSUME NEW r \in RunIds, RunStep(r) PROVE FALSE OBVIOUS
 <2>1. ~RunEnds(r) BY <1>4 DEF RunEnds
 <2>2. ~Finish(r) BY <1>0, <1>5, RewritesWait DEF Finish
 <2>3. ~CompleteClaim(r) BY <1>0, <1>5, RewritesWait DEF CompleteClaim
 <2> QED BY <2>1, <2>2, <2>3 DEF RunStep
<1>10. \A ch \in Chats : ~ChatStep(ch) BY <1>4 DEF ChatStep, HubRelease, UserPrompt, UserDone
<1>11. ~(Tick \/ Crash \/ Start \/ Quiescent \/ UNCHANGED vars) BY <1>4 DEF Tick, Crash, Start, Quiescent, vars
<1> QED BY <1>6, <1>7, <1>8, <1>9, <1>10, <1>11 DEF Next

\* As long as the writes of records succeed, an occurrence of an armed queue_one task is
\* owed until a run is accepted for it, whatever overlaps, is rejected or fails between
\* its deadline and then; only an edit, the interval floor or a crash of the process that
\* had claimed it ends or puts off the debt.
THEOREM OccurrencesKept == WritesFail = FALSE => (Spec => OccurrenceKept)
<1> SUFFICES ASSUME WritesFail = FALSE
              PROVE  Spec => OccurrenceKept
 OBVIOUS
<1>1. ASSUME IInv, IInv', DeadlineInv, [Next]_vars
      PROVE  [\A t \in TaskIds :
               Owed(t) /\ ~Owed(t)' /\ up' /\ tasks'[t].enabled /\ tasks'[t].def.overlap = "queue_one"
                 => \/ \E r \in RunIds : flight[r].stage = "none" /\ flight'[r].stage = "going"
                                           /\ flight'[r].task = t
                    \/ tasks'[t].nextAt > now /\ budget' < budget
                    \/ MinInterval > 0 /\ tasks'[t].nextAt \in now + 1 .. now + MinInterval]_vars
 <2>1. now <= now' /\ RecordsTimely BY <1>1, ClockForward DEF IInv, DeadlineInv
 <2>2. \A t \in TaskIds : Settled(t) BY <1>1, <2>1, ClaimSettled, OtherSettled
 <2> QED BY <2>2 DEF Settled
<1>2. Spec => [](IInv /\ DeadlineInv) BY DeadlineInit, DeadlineStep, Invariance, PTL DEF Spec
<1> QED BY <1>1, <1>2, PTL DEF Spec, OccurrenceKept

----
\* Without manual runs.  Then the loop alone claims, and forces nothing.

Calm(k) == ~k.pendingForced /\ ~k.activeForced

NobodyForces ==
  /\ \A t \in TaskIds : Calm(tasks[t])
  /\ \A c \in Callers : ~job[c].force /\ Calm(job[c].snap)
  /\ \A c \in Clients : pc[c] \in {"idle", "create"}
  /\ pc[Loop] \notin {"idle", "create"}

\* Nothing is forced to begin with, nor by a rewrite.
LEMMA CalmRecords ==
  /\ \A status \in Status : Calm(Blank(status))
  /\ \A def, at, byAgent : Calm(Created(def, at, byAgent))
BY DEF Calm, Blank, Created

LEMMA RewriteCalm ==
  ASSUME NEW k \in Task, NEW m, Calm(k), Rewrites(k, m)
  PROVE  Calm(m)
<1>1. \A status : Calm(Disarmed(k, status)) /\ Calm(Disarmed(Unclaimed(k), status))
 BY DEF Calm, Disarmed, Unqueued, Unclaimed, Task
<1>2. m = k \/ m = AuthPaused(k) \/ m = Completed(k) \/ m = Blank("deleted") => Calm(m)
 BY <1>1, CalmRecords DEF AuthPaused, Completed, Status
<1>3. m = Deferred(k, now) => Calm(m) BY DEF Deferred, Calm, Task
<1>4. m = Requeued(k, now) => Calm(m) BY DEF Requeued, Unclaimed, Calm, Task
<1>5. m = Recovered(k) => Calm(m) BY DEF Recovered, Unclaimed, Calm, Task
<1>6. ASSUME NEW result \in Results
      PROVE  Calm(Finished(k, result))
 <2>1. Calm(Unclaimed(k)) /\ \A s : Calm([Unclaimed(k) EXCEPT !.status = s]) BY DEF Unclaimed, Calm, Task
 <2> QED BY <1>1, <2>1 DEF Finished
<1>7. ASSUME NEW def \in Definition, NEW switch \in {"keep", "arm", "pause"}
      PROVE  Calm(Updated(k, def, switch, now))
 <2>1. Switched(k, def, switch) \in Task /\ Calm(Switched(k, def, switch)) BY DEF Switched, Unqueued, Calm, Task, Status
 <2>2. \A n \in Task : Calm(n) => Capped(n) \in Task /\ Calm(Capped(n)) BY DEF Capped, Unqueued, Calm, Task, Status
 <2>3. \A n \in Task : Calm([Unqueued(n) EXCEPT !.nextAt = NextOccurrence(def, now)]) <=> ~n.activeForced
  BY DEF Unqueued, Calm, Task
 <2> QED BY <2>1, <2>2, <2>3 DEF Updated, Calm
<1> QED BY <1>2, <1>3, <1>4, <1>5, <1>6, <1>7 DEF Rewrites

\* Nor by a claim that is not forced.
LEMMA ClaimedByCalm ==
  ASSUME TypeOK, NobodyForces, NEW c \in Callers
  PROVE  Calm(ClaimedBy(c))
<1> DEFINE j == job[c]
            k == tasks[j.task]
<1>1. k \in Task /\ j.snap \in Task /\ j.at \in Nat /\ Calm(k) /\ j.force = FALSE
 <2>1. j \in Job /\ j.task \in TaskIds BY TypeFacts DEF TypeOK
 <2> QED BY <2>1, TypeFacts DEF NobodyForces, Job
<1> HIDE DEF k, j
<1>2. Calm(Exhausted(k)) BY <1>1 DEF Exhausted, Disarmed, Unqueued, Calm, Task
<1>3. \A e : Calm(FloorDeferred(k, e)) BY <1>1 DEF FloorDeferred, Calm, Task
<1>4. Calm(Overlapped(k, j.at, j.force))
 <2> DEFINE due == [k EXCEPT !.nextAt = NextAfterClaim(k.def, j.at)]
 <2>1. due \in Task /\ Calm(due) BY <1>1, NextAfterClaimType DEF Task, Calm
 <2> HIDE DEF due
 <2>2. Calm(Skipped(due, j.at)) BY <1>1, <2>1 DEF Skipped, Calm, Task
 <2>3. Calm([due EXCEPT !.pending = TRUE, !.pendingForced = @ \/ FALSE]) BY <2>1 DEF Calm, Task
 <2> QED BY <1>1, <2>2, <2>3 DEF Overlapped, due
<1>5. \A q, r : Calm(Claimed(k, j.at, j.force, q, r)) BY <1>1 DEF Claimed, Unqueued, Calm, Task
<1> QED BY <1>1, <1>2, <1>3, <1>4, <1>5 DEF ClaimedBy, j, k

\* A process that starts has nothing forced.
LEMMA NobodyForcesInit == Init => NobodyForces
<1> SUFFICES ASSUME Init PROVE NobodyForces OBVIOUS
<1> USE TypeFacts, SchedulerAssumption
<1>1. \A k \in Loaded : Calm(k)
 <2>1. "absent" \in Status BY DEF Status
 <2>2. Calm(Blank("absent")) /\ \A def : Calm(Created(Normalized(def), 0, FALSE)) BY <2>1, CalmRecords
 <2>3. ASSUME NEW k \in Loaded PROVE k = Blank("absent") \/ \E def \in OnDisk : k = Created(Normalized(def), 0, FALSE)
  BY <2>3 DEF Loaded
 <2> QED BY <2>2, <2>3
<1>2. NoJob.force = FALSE /\ NoJob.snap = Blank("absent") BY DEF NoJob
<1> QED BY <1>1, <1>2, CalmRecords DEF Init, NobodyForces, Callers, Status

\* No step forces anything without manual runs.
LEMMA NobodyForcesStep ==
  ASSUME IInv, NobodyForces, [Next]_vars, "runNow" \notin Ops
  PROVE  NobodyForces'
<1> USE TypeFacts DEF Goto
<1>0. /\ TypeOK /\ TypeOK' /\ pc \in [Callers -> Locations] /\ job \in [Callers -> Job]
      /\ tasks \in [TaskIds -> Task]
 BY NextInv DEF IInv, TypeOK
<1>1. \A t \in TaskIds : Calm(tasks'[t])
 <2>1. ASSUME NEW u \in TaskIds, NEW n, NEW saved, Save(u, n, saved), Calm(n)
       PROVE  \A t \in TaskIds : Calm(tasks'[t])
  BY <1>0, <2>1 DEF Save, NobodyForces
 <2>2. CASE \E c \in Callers : ClaimCommit(c) BY <1>0, <2>1, <2>2, ClaimedByCalm DEF ClaimCommit
 <2>3. CASE \E c \in Clients : CreateCommit(c) BY <1>0, <2>1, <2>3 DEF CreateCommit, NobodyForces
 <2>4. CASE (\A c \in Callers : ~ClaimCommit(c)) /\ (\A c \in Clients : ~CreateCommit(c))
  BY <1>0, <2>4, OtherWrites, RewriteCalm DEF TasksRewritten, NobodyForces
 <2> QED BY <2>2, <2>3, <2>4
<1>2. \A d \in Callers : Calm(job'[d].snap)
 <2> SUFFICES ASSUME NEW d \in Callers PROVE Calm(job'[d].snap) OBVIOUS
 <2>1. JobFollows(d) BY <1>0, JobsFollow
 <2>2. NoJob.snap = Blank("absent") BY DEF NoJob
 <2> QED BY <1>0, <2>1, <2>2, CalmRecords, ClaimedByCalm DEF JobFollows, NobodyForces, Status
<1>3. NoJob \in Job /\ ~NoJob.force BY NoJobType DEF NoJob
<1>4. \A d \in Callers : ~job'[d].force
 <2> SUFFICES ASSUME NEW d \in Callers PROVE ~job'[d].force OBVIOUS
 <2>0. ~job[d].force BY DEF NobodyForces
 <2>1. CASE job'[d] = job[d] \/ job'[d] = NoJob BY <1>3, <2>0, <2>1
 <2>2. CASE \E v \in todo : LoopVisit(v)
  <3>1. PICK v \in todo : LoopVisit(v) BY <2>2
  <3>2. ~[NoJob EXCEPT !.task = v.task, !.at = passAt].force BY <1>3 DEF Job
  <3>3. \/ UNCHANGED job
        \/ job' = [job EXCEPT ![Loop] = [NoJob EXCEPT !.task = v.task, !.at = passAt]]
   BY <3>1 DEF LoopVisit
  <3> QED BY <1>0, <2>0, <3>2, <3>3
 <2>3. CASE \E c \in Callers : ClaimGet(c)
  <3>1. PICK c \in Callers : ClaimGet(c) BY <2>3
  <3>2. ~(job[c].force \/ tasks[job[c].task].pendingForced) BY <1>0 DEF NobodyForces, Calm
  <3>3. CASE Leave(c, ~Stored(job[c].task)) BY <1>0, <1>3, <2>0, <3>3 DEF Leave
  <3>4. CASE \E plan : job' = [job EXCEPT ![c] = [@ EXCEPT
                !.force = job[c].force \/ tasks[job[c].task].pendingForced,
                !.snap = tasks[job[c].task], !.plan = plan]]
   BY <1>0, <2>0, <3>2, <3>4 DEF Job
  <3> QED BY <3>1, <3>3, <3>4 DEF ClaimGet
 <2>4. CASE \E c \in Callers : ClaimScan(c)
  <3>1. PICK c \in Callers : ClaimScan(c) BY <2>4
  <3>2. CASE job' = [job EXCEPT ![c].plan = "overlap"] BY <1>0, <2>0, <3>2 DEF Job
  <3>3. CASE \E r : job' = [job EXCEPT ![c] = [@ EXCEPT !.plan = "start", !.run = r]] BY <1>0, <2>0, <3>3 DEF Job
  <3> QED BY <3>1, <3>2, <3>3 DEF ClaimScan
 <2>5. CASE \E c \in Callers : ClaimCommit(c) BY <1>0, <1>3, <2>0, <2>5 DEF ClaimCommit, Leave, Job
 <2>6. CASE \E c \in Callers : Dispatch(c) \/ Settle(c) BY <1>0, <1>3, <2>0, <2>6 DEF Dispatch, Settle, Leave
 <2>7. CASE \E c \in Clients : ClientStep(c)
  <3>1. PICK c \in Clients : ClientStep(c) BY <2>7
  <3>2. \A t \in TaskIds : ~RunNow(c, t) BY DEF RunNow, Requested
  <3>3. CASE \E t \in TaskIds : CreateCheck(c, t) BY <1>0, <1>3, <2>0, <3>3 DEF CreateCheck, Job
  <3>4. CASE CreateCommit(c) BY <1>0, <1>3, <2>0, <3>4 DEF CreateCommit, Leave
  <3> QED BY <3>1, <3>2, <3>3, <3>4 DEF ClientStep
 <2>8. CASE ~(\E v \in todo : LoopVisit(v)) /\ ~(\E c \in Callers : ClaimStep(c))
            /\ ~(\E c \in Clients : ClientStep(c))
  <3>1. LoopStep => UNCHANGED job BY <2>8 DEF LoopStep, LoopList, LoopDelay, LoopWoken, LoopTimer
  <3>2. (\E t \in TaskIds : TaskStep(t)) => UNCHANGED job BY DEF TaskStep, Update, Delete, Complete, Recover
  <3>3. (\E r \in RunIds : RunStep(r)) => UNCHANGED job BY DEF RunStep, RunEnds, Finish, CompleteClaim
  <3>4. (\E ch \in Chats : ChatStep(ch)) => UNCHANGED job BY DEF ChatStep, HubRelease, UserPrompt, UserDone
  <3>5. Tick \/ Start \/ Quiescent \/ UNCHANGED vars => UNCHANGED job BY DEF Tick, Start, Quiescent, vars
  <3>6. Crash => job'[d] = NoJob BY DEF Crash
  <3> QED BY <2>1, <2>8, <3>1, <3>2, <3>3, <3>4, <3>5, <3>6 DEF Next
 <2> QED BY <2>2, <2>3, <2>4, <2>5, <2>6, <2>7, <2>8 DEF ClaimStep
<1>5. \A c \in Clients : pc'[c] \in {"idle", "create"}
 <2> SUFFICES ASSUME NEW c \in Clients PROVE pc'[c] \in {"idle", "create"} OBVIOUS
 <2>0. pc[c] \in {"idle", "create"} /\ c # Loop /\ c \in Callers BY <1>0 DEF NobodyForces
 <2>1. LoopStep => pc'[c] = pc[c] BY <1>0, <2>0 DEF LoopStep, LoopList, LoopVisit, LoopDelay, LoopWoken, LoopTimer
 <2>2. \A d \in Callers : ClaimStep(d) => pc'[c] = pc[c]
  <3>1. ~ClaimStep(c) BY <2>0 DEF ClaimStep, ClaimGet, ClaimScan, ClaimCommit, Dispatch, Settle
  <3>2. \A d \in Callers : d # c /\ ClaimStep(d) => pc'[c] = pc[c]
   BY <1>0, <2>0 DEF ClaimStep, ClaimGet, ClaimScan, ClaimCommit, Dispatch, Settle, Leave
  <3> QED BY <3>1, <3>2
 <2>3. \A d \in Clients : ClientStep(d) => pc'[c] \in {pc[c], "idle", "create"}
  <3>1. \A d \in Clients, t \in TaskIds : ~RunNow(d, t) BY DEF RunNow, Requested
  <3>2. \A d \in Clients, t \in TaskIds : CreateCheck(d, t) => pc'[c] \in {pc[c], "create"} BY <1>0 DEF CreateCheck
  <3>3. \A d \in Clients : CreateCommit(d) => pc'[c] \in {pc[c], "idle"} BY <1>0 DEF CreateCommit, Leave, Back
  <3> QED BY <3>1, <3>2, <3>3 DEF ClientStep
 <2>4. \A t \in TaskIds : TaskStep(t) => UNCHANGED pc BY DEF TaskStep, Update, Delete, Complete, Recover
 <2>5. \A r \in RunIds : RunStep(r) => UNCHANGED pc BY DEF RunStep, RunEnds, Finish, CompleteClaim
 <2>6. \A ch \in Chats : ChatStep(ch) => UNCHANGED pc BY DEF ChatStep, HubRelease, UserPrompt, UserDone
 <2>7. Tick \/ Start \/ Quiescent \/ UNCHANGED vars => UNCHANGED pc BY DEF Tick, Start, Quiescent, vars
 <2>8. Crash => pc'[c] = "idle" BY <2>0 DEF Crash
 <2> QED BY <2>0, <2>1, <2>2, <2>3, <2>4, <2>5, <2>6, <2>7, <2>8 DEF Next
<1>6. pc'[Loop] \notin {"idle", "create"}
 <2>0. pc[Loop] \notin {"idle", "create"} /\ Loop \in Callers /\ Loop \notin Clients BY <1>0 DEF NobodyForces
 <2>1. LoopStep => pc'[Loop] \notin {"idle", "create"}
  BY <1>0, <2>0 DEF LoopStep, LoopList, LoopVisit, LoopDelay, LoopWoken, LoopTimer
 <2>2. \A d \in Callers : ClaimStep(d) => pc'[Loop] \in {pc[Loop], "scan", "commit", "visit", "dispatch", "settle"}
  <3>1. \A d \in Callers : d # Loop /\ ClaimStep(d) => pc'[Loop] = pc[Loop]
   BY <1>0, <2>0 DEF ClaimStep, ClaimGet, ClaimScan, ClaimCommit, Dispatch, Settle, Leave
  <3>2. ClaimStep(Loop) => pc'[Loop] \in {"scan", "commit", "visit", "dispatch", "settle"}
   BY <1>0, <2>0 DEF ClaimStep, ClaimGet, ClaimScan, ClaimCommit, Dispatch, Settle, Leave, Back
  <3> QED BY <3>1, <3>2
 <2>3. \A d \in Clients : ClientStep(d) => pc'[Loop] = pc[Loop]
  BY <1>0, <2>0 DEF ClientStep, RunNow, CreateCheck, CreateCommit, Leave
 <2>4. \A t \in TaskIds : TaskStep(t) => UNCHANGED pc BY DEF TaskStep, Update, Delete, Complete, Recover
 <2>5. \A r \in RunIds : RunStep(r) => UNCHANGED pc BY DEF RunStep, RunEnds, Finish, CompleteClaim
 <2>6. \A ch \in Chats : ChatStep(ch) => UNCHANGED pc BY DEF ChatStep, HubRelease, UserPrompt, UserDone
 <2>7. Tick \/ Start \/ Quiescent \/ UNCHANGED vars => UNCHANGED pc BY DEF Tick, Start, Quiescent, vars
 <2>8. Crash => pc'[Loop] = "list" BY <2>0 DEF Crash
 <2> QED BY <2>0, <2>1, <2>2, <2>3, <2>4, <2>5, <2>6, <2>7, <2>8 DEF Next
<1> QED BY <1>1, <1>2, <1>4, <1>5, <1>6 DEF NobodyForces

----
\* What the loop's pass has in hand.

\* Somebody will end a claim and wake the loop, or has.
Somebody == wake \/ Claims # {}
Claiming == pc[Loop] \in {"claim", "scan", "commit"}

\* What the loop found out between the calls of claim, and what is left of it.
LoopAims ==
  LET j == job[Loop] IN
  /\ Claiming => j.at = passAt
  /\ pc[Loop] = "scan" => (j.snap.active # NoRun => Somebody)
  /\ pc[Loop] \in {"scan", "commit"} => (j.snap.active = NoRun => tasks[j.task].active = NoRun)
  /\ pc[Loop] = "commit" =>
       /\ j.plan \in {"exhaust", "floor", "overlap", "start"}
       /\ j.plan = "overlap" => Somebody
       /\ j.plan = "floor" => j.at < Earliest(j.snap)
       /\ j.plan = "start" => j.snap.active = NoRun

\* A queued occurrence that waits for room.
Queued(k) == k.status \notin Gone /\ k.enabled /\ k.pending /\ k.retryAt = 0

\* The loop has still to look at t in this pass.
Ahead(t) == (\E v \in todo : v.task = t) \/ (Claiming /\ job[Loop].task = t)

QueueKept ==
  up => \A t \in TaskIds : Queued(tasks[t]) =>
          Somebody \/ pc[Loop] = "list" \/ (pc[Loop] # "asleep" /\ Ahead(t))

\* A deadline that is over and that nothing puts off.
Overdue(k) ==
  k.status \notin Gone /\ k.enabled /\ k.nextAt > 0 /\ k.nextAt <= now /\ k.retryAt <= now

PassKept ==
  up /\ pc[Loop] \notin {"list", "asleep"} /\ passAt = now /\ ~wake /\ ~failed =>
    \A t \in TaskIds : Overdue(tasks[t]) => Ahead(t)

\* Without manual runs a step on a claim is the loop's.
LEMMA LoopClaims ==
  ASSUME TypeOK, NobodyForces, NEW c \in Callers, ClaimStep(c)
  PROVE  c = Loop
BY TypeFacts DEF NobodyForces, ClaimStep, ClaimGet, ClaimScan, ClaimCommit, Dispatch, Settle, Callers

\* A step of anybody else leaves the loop where it is and makes no claim.
LEMMA BesideStep ==
  ASSUME IInv, NobodyForces, [Next]_vars, ~LoopStep, ~ClaimStep(Loop), ~Crash
  PROVE  /\ UNCHANGED <<todo, passAt>> /\ pc'[Loop] = pc[Loop] /\ job'[Loop] = job[Loop]
         /\ NoNewClaim
<1> USE TypeFacts DEF Goto
<1>0. /\ TypeOK /\ CoreInv /\ pc \in [Callers -> Locations] /\ job \in [Callers -> Job]
 BY DEF IInv, TypeOK, ClaimInvariant, CoreInv
<1>1. \A c \in Callers : ~ClaimStep(c) BY <1>0, LoopClaims
<1>2. NoNewClaim
 <2>1. Next => NoNewClaim BY <1>0, <1>1, OtherStepsClaimNothing DEF ClaimStep
 <2> QED BY <2>1, SameMakesNoClaim DEF vars
<1>3. UNCHANGED <<todo, passAt>> /\ pc'[Loop] = pc[Loop] /\ job'[Loop] = job[Loop]
 <2>1. \A c \in Clients : ClientStep(c) =>
         UNCHANGED <<todo, passAt>> /\ pc'[Loop] = pc[Loop] /\ job'[Loop] = job[Loop]
  BY <1>0 DEF ClientStep, CreateCheck, RunNow, CreateCommit, Leave, loopVars
 <2>2. \A t \in TaskIds : TaskStep(t) => UNCHANGED <<todo, passAt, pc, job>>
  BY DEF TaskStep, Update, Delete, Complete, Recover, loopVars
 <2>3. \A r \in RunIds : RunStep(r) => UNCHANGED <<todo, passAt, pc, job>>
  BY DEF RunStep, RunEnds, Finish, CompleteClaim, loopVars
 <2>4. \A ch \in Chats : ChatStep(ch) => UNCHANGED <<todo, passAt, pc, job>>
  BY DEF ChatStep, HubRelease, UserPrompt, UserDone, loopVars
 <2>5. Tick \/ Start \/ Quiescent \/ UNCHANGED vars => UNCHANGED <<todo, passAt, pc, job>>
  BY DEF Tick, Start, Quiescent, vars, loopVars
 <2> QED BY <1>1, <2>1, <2>2, <2>3, <2>4, <2>5 DEF Next
<1> QED BY <1>2, <1>3

\* Unless it wakes the loop, it writes nothing.
LEMMA QuietStep ==
  ASSUME IInv, NobodyForces, [Next]_vars, "runNow" \notin Ops, ~LoopStep, ~ClaimStep(Loop),
         up', ~wake'
  PROVE  UNCHANGED <<wake, tasks, failed>>
<1> USE TypeFacts DEF Goto
<1>0. /\ TypeOK /\ failed \in BOOLEAN /\ wake \in BOOLEAN BY DEF IInv, TypeOK
<1>1. \A c \in Callers : ~ClaimStep(c) BY <1>0, LoopClaims
<1>2. ASSUME NEW c \in Clients, ClientStep(c)
      PROVE  UNCHANGED <<wake, tasks, failed>>
 <2>1. \A t \in TaskIds : ~RunNow(c, t) BY DEF RunNow, Requested
 <2>2. \A t \in TaskIds : CreateCheck(c, t) => UNCHANGED <<wake, tasks, failed>> BY DEF CreateCheck, loopVars
 <2>3. CASE CreateCommit(c)
  <3>1. PICK saved : Save(job[c].task, job[c].snap, saved) /\ Notify(saved) BY <2>3 DEF CreateCommit
  <3>2. UNCHANGED <<wake, tasks>> BY <1>0, <3>1, QuietSave
  <3> QED BY <1>0, <2>3, <3>2 DEF CreateCommit, Leave
 <2> QED BY <1>2, <2>1, <2>2, <2>3 DEF ClientStep
<1>3. ASSUME NEW t \in TaskIds, TaskStep(t)
      PROVE  UNCHANGED <<wake, tasks, failed>>
 <2>1. ~Recover(t) BY DEF Recover
 <2>2. UNCHANGED failed BY <1>3 DEF TaskStep, Update, Delete, Complete, Recover, loopVars
 <2>3. PICK n, saved : Save(t, n, saved) /\ Notify(saved) BY <1>3, <2>1 DEF TaskStep, Update, Delete, Complete
 <2> QED BY <1>0, <2>2, <2>3, QuietSave
<1>4. ASSUME NEW r \in RunIds, RunStep(r)
      PROVE  UNCHANGED <<wake, tasks, failed>>
 <2>1. UNCHANGED failed BY <1>4 DEF RunStep, RunEnds, Finish, CompleteClaim, loopVars
 <2>2. RunEnds(r) => UNCHANGED <<wake, tasks>> BY DEF RunEnds
 <2>3. ASSUME Finish(r) \/ CompleteClaim(r)
       PROVE  UNCHANGED <<wake, tasks>>
  <3>1. PICK n, saved : Save(flight[r].task, n, saved) /\ Notify(saved) BY <2>3 DEF Finish, CompleteClaim
  <3> QED BY <1>0, <3>1, QuietSave
 <2> QED BY <1>4, <2>1, <2>2, <2>3 DEF RunStep
<1>5. \A ch \in Chats : ChatStep(ch) => UNCHANGED <<wake, tasks, failed>>
 BY DEF ChatStep, HubRelease, UserPrompt, UserDone, loopVars
<1>6. Tick \/ Start \/ Quiescent \/ UNCHANGED vars => UNCHANGED <<wake, tasks, failed>>
 BY DEF Tick, Start, Quiescent, vars, loopVars
<1>7. ~Crash BY DEF Crash
<1> QED BY <1>1, <1>2, <1>3, <1>4, <1>5, <1>6, <1>7 DEF Next

\* A process that is down has its loop at the beginning.
LEMMA DownAtList ==
  ASSUME IInv, NobodyForces, ~up
  PROVE  pc[Loop] = "list"
BY TypeFacts DEF IInv, ClaimInvariant, DownIsIdle, NobodyForces

\* What the loop found out stays true.
LEMMA AimsInit == Init => LoopAims
BY SchedulerAssumption DEF Init, LoopAims, Claiming, Callers

LEMMA AimsStep ==
  ASSUME IInv, IInv', NobodyForces, NobodyForces', LoopAims, [Next]_vars, "runNow" \notin Ops
  PROVE  LoopAims'
<1> USE TypeFacts DEF Goto
<1>0. /\ TypeOK /\ pc \in [Callers -> Locations] /\ job \in [Callers -> Job]
      /\ tasks \in [TaskIds -> Task] /\ job[Loop] \in Job /\ NoJob \in Job
 BY NoJobType DEF IInv, TypeOK
<1> DEFINE j == job[Loop]
            t == job[Loop].task
            k == tasks[t]
<1>1. CASE pc'[Loop] \notin {"claim", "scan", "commit"} BY <1>1 DEF LoopAims, Claiming
<1>2. CASE up' /\ ~LoopStep /\ ~ClaimStep(Loop)
 <2>1. ~Crash BY <1>2 DEF Crash
 <2>2. UNCHANGED <<todo, passAt>> /\ pc'[Loop] = pc[Loop] /\ job'[Loop] = job[Loop] /\ NoNewClaim BY <1>2, <2>1, BesideStep
 <2>3. wake' \/ UNCHANGED <<wake, tasks>> BY <1>2, QuietStep
 <2>4. Somebody => Somebody' BY <2>3 DEF Somebody, Claims, Store, Stored
 <2>5. k.active = NoRun => tasks'[t].active = NoRun BY <1>0, <2>2 DEF NoNewClaim
 <2> QED BY <2>2, <2>4, <2>5 DEF LoopAims, Claiming
<1>3. CASE LoopStep
 <2>1. LoopList \/ LoopDelay \/ LoopWoken \/ LoopTimer => pc'[Loop] \notin {"claim", "scan", "commit"}
  BY <1>0 DEF LoopList, LoopDelay, LoopWoken, LoopTimer
 <2>2. ASSUME NEW v \in todo, LoopVisit(v)
       PROVE  LoopAims'
  <3>1. CASE job' = [job EXCEPT ![Loop] = [NoJob EXCEPT !.task = v.task, !.at = passAt]]
             /\ pc' = [pc EXCEPT ![Loop] = "claim"]
   <4>1. [NoJob EXCEPT !.task = v.task, !.at = passAt].at = passAt BY <1>0 DEF Job
   <4>2. job'[Loop].at = passAt /\ pc'[Loop] = "claim" /\ passAt' = passAt BY <1>0, <2>2, <3>1, <4>1 DEF LoopVisit
   <4> QED BY <4>2 DEF LoopAims, Claiming
  <3>2. CASE UNCHANGED pc
   <4>1. pc'[Loop] = "visit" BY <2>2, <3>2 DEF LoopVisit
   <4> QED BY <4>1 DEF LoopAims, Claiming
  <3> QED BY <2>2, <3>1, <3>2 DEF LoopVisit
 <2> QED BY <1>1, <1>3, <2>1, <2>2 DEF LoopStep
<1>4. CASE ClaimGet(Loop)
 <2> DEFINE force == j.force \/ k.pendingForced
             plan == IF ~force /\ Spent(k) THEN "exhaust"
                     ELSE IF ~force /\ TooSoon(k, j.at) THEN "floor" ELSE "none"
 <2>1. CASE Leave(Loop, ~Stored(t)) BY <1>0, <1>1, <2>1 DEF Leave, Back
 <2>2. CASE /\ Stored(t)
            /\ job' = [job EXCEPT ![Loop] = [@ EXCEPT !.force = force, !.snap = k, !.plan = plan]]
            /\ pc' = [pc EXCEPT ![Loop] = IF plan = "none" THEN "scan" ELSE "commit"]
  <3> HIDE DEF force
  <3>1. plan \in {"exhaust", "floor", "none"} /\ (plan = "floor" => j.at < Earliest(k)) BY DEF TooSoon
  <3> HIDE DEF plan
  <3>2. /\ job'[Loop].snap = k /\ job'[Loop].plan = plan /\ job'[Loop].at = j.at
        /\ job'[Loop].task = t
   BY <1>0, <2>2 DEF Job
  <3>3. pc'[Loop] = IF plan = "none" THEN "scan" ELSE "commit" BY <1>0, <2>2
  <3>4. UNCHANGED <<tasks, passAt, wake>> /\ j.at = passAt BY <1>4 DEF ClaimGet, LoopAims, Claiming
  <3>5. k.active # NoRun => Somebody' BY <1>0, <2>2, <3>4 DEF Somebody, Claims, Store, Stored
  <3> QED BY <3>1, <3>2, <3>3, <3>4, <3>5 DEF LoopAims, Claiming
 <2> QED BY <1>4, <2>1, <2>2 DEF ClaimGet
<1>5. CASE ClaimScan(Loop)
 <2>1. /\ UNCHANGED <<tasks, passAt, wake>> /\ pc'[Loop] = "commit" /\ pc[Loop] = "scan"
       /\ j.at = passAt
  BY <1>0, <1>5 DEF ClaimScan, LoopAims, Claiming, loopVars
 <2>2. Somebody = Somebody' BY <2>1 DEF Somebody, Claims, Store, Stored
 <2>3. CASE (ChatBusy(Loop) \/ Saturated(Loop)) /\ job' = [job EXCEPT ![Loop].plan = "overlap"]
  <3>1. Somebody
   <4>1. CASE ChatBusy(Loop) BY <2>1, <4>1 DEF ChatBusy, LoopAims, Somebody, Claims, Store, Stored
   <4>2. CASE Saturated(Loop)
    <5>1. Cardinality(Claims) >= MaxConcurrent /\ MaxConcurrent > 0 BY <4>2 DEF Saturated
    <5>2. Claims # {} BY <5>1, FS_EmptySet, SchedulerAssumption
    <5> QED BY <5>2 DEF Somebody
   <4> QED BY <2>3, <4>1, <4>2
  <3>2. /\ job'[Loop].snap = j.snap /\ job'[Loop].plan = "overlap" /\ job'[Loop].at = j.at
        /\ job'[Loop].task = t
   BY <1>0, <2>3 DEF Job
  <3> QED BY <2>1, <2>2, <3>1, <3>2 DEF LoopAims, Claiming
 <2>4. CASE /\ ~ChatBusy(Loop)
            /\ \E r : job' = [job EXCEPT ![Loop] = [@ EXCEPT !.plan = "start", !.run = r]]
  <3>1. j.snap.active = NoRun BY <2>4 DEF ChatBusy
  <3>2. /\ job'[Loop].snap = j.snap /\ job'[Loop].plan = "start" /\ job'[Loop].at = j.at
        /\ job'[Loop].task = t
   BY <1>0, <2>4 DEF Job
  <3> QED BY <2>1, <2>2, <3>1, <3>2 DEF LoopAims, Claiming
 <2> QED BY <1>5, <2>3, <2>4 DEF ClaimScan
<1>6. ClaimCommit(Loop) \/ Dispatch(Loop) \/ Settle(Loop) => pc'[Loop] \notin {"claim", "scan", "commit"}
 BY <1>0 DEF ClaimCommit, Dispatch, Settle, Leave, Back
<1>7. ~up' => pc'[Loop] = "list"
 <2>1. IInv' /\ NobodyForces' /\ ~up' => pc'[Loop] = "list" BY <1>0 DEF IInv, ClaimInvariant, DownIsIdle, NobodyForces
 <2> QED BY <2>1
<1> QED BY <1>1, <1>2, <1>3, <1>4, <1>5, <1>6, <1>7 DEF ClaimStep

\* The loop's own steps, where it is and what the clock does meanwhile.
LEMMA LoopOnly ==
  ASSUME TypeOK, LoopStep \/ ClaimStep(Loop)
  PROVE  up /\ up' /\ UNCHANGED now
<1>1. LoopStep => up /\ UNCHANGED <<up, now>> BY DEF LoopStep, LoopList, LoopVisit, LoopDelay, LoopWoken, LoopTimer
<1>2. ClaimStep(Loop) => up /\ UNCHANGED <<up, now>> BY DEF ClaimStep, ClaimGet, ClaimScan, ClaimCommit, Dispatch, Settle
<1> QED BY <1>1, <1>2

\* A commit that does not start keeps every claim.
LEMMA CommitKeepsClaims ==
  ASSUME IInv, LoopAims, ClaimCommit(Loop)
  PROVE  Claims # {} => Claims' # {}
<1> USE TypeFacts
<1> DEFINE u == job[Loop].task
<1>0. TypeOK /\ tasks \in [TaskIds -> Task] /\ pc[Loop] = "commit" /\ StartPlanned
 BY DEF IInv, TypeOK, ClaimCommit, ClaimInvariant
<1>1. PICK saved : Save(u, ClaimedBy(Loop), saved /\ Stored(u)) BY DEF ClaimCommit
<1> SUFFICES ASSUME NEW t \in Claims PROVE t \in Claims' OBVIOUS
<1>2. t \in TaskIds /\ tasks[t].status \notin Gone /\ tasks[t].active # NoRun BY DEF Claims, Store, Stored
<1>3. CASE tasks' = tasks \/ t # u
 <2>1. tasks'[t] = tasks[t] BY <1>0, <1>1, <1>2, <1>3 DEF Save
 <2> QED BY <1>2, <2>1 DEF Claims, Store, Stored
<1>4. CASE tasks' = [tasks EXCEPT ![u] = ClaimedBy(Loop)] /\ t = u
 <2> DEFINE j == job[Loop]
             k == tasks[u]
 <2>1. j.snap \in Task /\ j.at \in Nat /\ k \in Task /\ j.force \in BOOLEAN BY <1>0, TypeFacts DEF TypeOK, Job
 <2>2. j.plan \in {"exhaust", "floor", "overlap"} => Succeeds(k, ClaimedBy(Loop))
  <3>1. Succeeds(k, Exhausted(k)) BY <2>1, ExhaustedType
  <3>2. Earliest(j.snap) \in Nat BY <2>1, EarliestType
  <3>3. Succeeds(k, FloorDeferred(k, Earliest(j.snap))) BY <2>1, <3>2, FloorDeferredType
  <3>4. Succeeds(k, Overlapped(k, j.at, j.force)) BY <2>1, OverlappedType
  <3> QED BY <3>1, <3>3, <3>4 DEF ClaimedBy
 <2>3. j.plan = "start" => ClaimedBy(Loop) = k BY <1>2, <1>4 DEF ClaimedBy, Claimable
 <2>4. ClaimedBy(Loop).active # NoRun /\ ClaimedBy(Loop).status \notin Gone
  BY <1>0, <1>2, <1>4, <2>2, <2>3 DEF LoopAims, Succeeds, Survives
 <2> QED BY <1>0, <1>2, <1>4, <2>4 DEF Claims, Store, Stored
<1> QED BY <1>1, <1>3, <1>4 DEF Save

\* What a commit writes is not left in the queue without a retry time, but for an
\* overlap.
LEMMA CommitEmptiesQueue ==
  ASSUME IInv, NobodyForces, LoopAims, ClaimCommit(Loop), job[Loop].plan # "overlap"
  PROVE  ~Queued(ClaimedBy(Loop))
<1> USE TypeFacts, ScheduleTaskAssumption
<1> DEFINE j == job[Loop]
            k == tasks[j.task]
            e == Earliest(j.snap)
<1>0. /\ TypeOK /\ pc[Loop] = "commit" /\ k \in Task /\ j.snap \in Task /\ j.at \in Nat
      /\ e \in Nat /\ j.plan \in {"exhaust", "floor", "start"}
      /\ j.plan = "floor" => j.at < e
      /\ j.plan = "start" => k.active = NoRun
 <2>1. TypeOK /\ pc[Loop] = "commit" BY DEF IInv, ClaimCommit
 <2> QED BY <2>1, EarliestType DEF LoopAims
<1> HIDE DEF k, e
<1>1. CASE j.plan = "exhaust"
 <2>1. ~Exhausted(k).enabled BY <1>0 DEF Exhausted, Disarmed, Unqueued, Task
 <2> QED BY <1>1, <2>1 DEF ClaimedBy, Queued, k
<1>2. CASE j.plan = "floor"
 <2>1. ~Queued(FloorDeferred(k, e)) BY <1>0, <1>2 DEF FloorDeferred, Queued, Task
 <2> QED BY <1>2, <2>1 DEF ClaimedBy, k, e
<1>3. CASE j.plan = "start" /\ Claimable(k, j.at, j.force)
 <2>1. ~Claimed(k, j.at, j.force, j.snap.pending, j.run).pending BY <1>0 DEF Claimed, Unqueued, Task
 <2> QED BY <1>3, <2>1 DEF ClaimedBy, Queued, k
<1>4. CASE j.plan = "start" /\ ~Claimable(k, j.at, j.force)
 <2>1. ~Queued(k) BY <1>0, <1>4 DEF Queued, Claimable, IsDue, Task
 <2> QED BY <1>4, <2>1 DEF ClaimedBy, k
<1> QED BY <1>0, <1>1, <1>2, <1>3, <1>4

\* Nor is it overdue.
LEMMA CommitPutsOff ==
  ASSUME IInv, NobodyForces, LoopAims, ClaimCommit(Loop), passAt = now
  PROVE  ~Overdue(ClaimedBy(Loop))
<1> USE TypeFacts, ScheduleTaskAssumption
<1> DEFINE j == job[Loop]
            k == tasks[j.task]
            e == Earliest(j.snap)
<1>0. /\ TypeOK /\ pc[Loop] = "commit" /\ k \in Task /\ j.snap \in Task /\ j.at = now /\ now \in Nat
      /\ e \in Nat /\ j.plan \in {"exhaust", "floor", "overlap", "start"}
      /\ j.plan = "floor" => now < e
      /\ j.plan = "start" => k.active = NoRun
      /\ ~j.force
 <2>1. TypeOK /\ pc[Loop] = "commit" /\ Claiming BY DEF IInv, ClaimCommit, Claiming
 <2>2. now \in Nat BY <2>1 DEF TypeOK
 <2> QED BY <2>1, <2>2, EarliestType DEF LoopAims, NobodyForces
<1>1. NextAfterClaim(k.def, now) = 0 \/ NextAfterClaim(k.def, now) > now
 <2>1. k.def.kind \in {"once", "cron"} /\ k.def.when \in Nat \ {0} BY <1>0 DEF Task, Definition
 <2>2. \A w \in Nat \ {0} : now < ((now \div w) + 1) * w BY <1>0
 <2> QED BY <2>1, <2>2 DEF NextAfterClaim, NextOccurrence
<1> DEFINE after == NextAfterClaim(k.def, now)
<1>a. after \in Nat BY <1>0, NextAfterClaimType DEF Task
<1>b. after = 0 \/ (after > now /\ after \in Nat) BY <1>1, <1>a DEF after
<1> HIDE DEF k, e, after
<1>2. CASE j.plan = "exhaust"
 <2>1. ~Exhausted(k).enabled BY <1>0 DEF Exhausted, Disarmed, Unqueued, Task
 <2> QED BY <1>2, <2>1 DEF ClaimedBy, Overdue, k
<1>3. CASE j.plan = "floor"
 <2>1. CASE k.pending /\ k.retryAt < e
  <3>1. FloorDeferred(k, e).retryAt = e BY <1>0, <2>1 DEF FloorDeferred, Task
  <3> QED BY <1>0, <1>3, <3>1 DEF ClaimedBy, k, e, Overdue
 <2>2. CASE ~k.pending /\ k.nextAt > 0 /\ k.nextAt < e
  <3>1. FloorDeferred(k, e).nextAt = e BY <1>0, <2>2 DEF FloorDeferred, Task
  <3> QED BY <1>0, <1>3, <3>1 DEF ClaimedBy, k, e, Overdue
 <2>3. CASE ~(k.pending /\ k.retryAt < e) /\ ~(~k.pending /\ k.nextAt > 0 /\ k.nextAt < e)
  <3>1. FloorDeferred(k, e) = k BY <2>3 DEF FloorDeferred
  <3>2. ~Overdue(k) BY <1>0, <1>3, <2>3 DEF Overdue, Task
  <3> QED BY <1>0, <1>3, <3>1, <3>2 DEF ClaimedBy, k, e
 <2> QED BY <2>1, <2>2, <2>3
<1>4. CASE j.plan = "overlap"
 <2>1. ClaimedBy(Loop) = Overlapped(k, now, j.force) BY <1>0, <1>4 DEF ClaimedBy, k
 <2> DEFINE due == [k EXCEPT !.nextAt = after]
 <2>2. due \in Task /\ due.nextAt = after /\ due.def = k.def BY <1>0, <1>a DEF Task
 <2>3. CASE ~k.enabled \/ ~IsDue(k, now)
  <3>1. Overlapped(k, now, j.force) = k BY <1>0, <2>3 DEF Overlapped
  <3>2. ~Overdue(k) BY <2>3 DEF Overdue, IsDue
  <3> QED BY <2>1, <3>1, <3>2
 <2>4. CASE ~(~k.enabled \/ ~IsDue(k, now)) /\ k.def.overlap = "queue_one"
  <3>1. Overlapped(k, now, j.force) = [due EXCEPT !.pending = TRUE, !.pendingForced = @ \/ j.force]
   BY <1>0, <2>4, Zenon DEF Overlapped, after
  <3> HIDE DEF due
  <3>2. Overlapped(k, now, j.force).nextAt = after BY <2>2, <3>1 DEF Task
  <3> QED BY <1>0, <1>b, <2>1, <3>2 DEF Overdue
 <2>5. CASE ~(~k.enabled \/ ~IsDue(k, now)) /\ k.def.overlap # "queue_one"
  <3>1. Overlapped(k, now, j.force) = Skipped(due, now) BY <1>0, <2>5, Zenon DEF Overlapped, after
  <3> HIDE DEF due
  <3>2. Skipped(due, now).nextAt \in {after, 0} BY <1>0, <2>2 DEF Skipped, Task
  <3> QED BY <1>0, <1>b, <2>1, <3>1, <3>2 DEF Overdue
 <2> QED BY <2>3, <2>4, <2>5
<1>5. CASE j.plan = "start" /\ Claimable(k, j.at, j.force)
 <2> DEFINE queued == j.snap.pending
             advance == \/ ~queued /\ ~j.force
                        \/ queued /\ k.enabled /\ k.nextAt > 0 /\ k.nextAt <= now
             m == Claimed(k, now, j.force, queued, j.run)
 <2>1. ClaimedBy(Loop) = m BY <1>0, <1>5 DEF ClaimedBy, k
 <2>2. /\ m.nextAt = IF advance THEN after ELSE k.nextAt
       /\ m.enabled = k.enabled
  BY <1>0 DEF Claimed, Unqueued, Task, after
 <2>3. advance => m.nextAt = 0 \/ m.nextAt > now BY <1>1, <2>2 DEF after
 <2>4. ~advance => ~(m.enabled /\ m.nextAt > 0 /\ m.nextAt <= now) BY <1>0, <2>2
 <2> HIDE DEF m, advance
 <2>5. ~Overdue(m)
  <3>1. CASE advance
   <4>1. m.nextAt \in Nat /\ (m.nextAt = 0 \/ m.nextAt > now) BY <1>a, <2>2, <2>3, <3>1
   <4> QED BY <1>0, <4>1 DEF Overdue
  <3>2. CASE ~advance BY <2>4, <3>2 DEF Overdue
  <3> QED BY <3>1, <3>2
 <2> QED BY <2>1, <2>5
<1>6. CASE j.plan = "start" /\ ~Claimable(k, j.at, j.force)
 <2>1. ~Overdue(k) BY <1>0, <1>6 DEF Overdue, Claimable, IsDue, Task
 <2> QED BY <1>6, <2>1 DEF ClaimedBy, k
<1> QED BY <1>0, <1>2, <1>3, <1>4, <1>5, <1>6

\* A queued occurrence is in the loop's hands, or somebody is left to wake the loop.
LEMMA QueueInit == Init => QueueKept
BY SchedulerAssumption DEF Init, QueueKept, Callers

LEMMA QueueStep ==
  ASSUME IInv, IInv', NobodyForces, LoopAims, QueueKept, [Next]_vars, "runNow" \notin Ops,
         WritesFail = FALSE
  PROVE  QueueKept'
<1> USE TypeFacts DEF Goto
<1>0. /\ TypeOK /\ pc \in [Callers -> Locations] /\ job \in [Callers -> Job]
      /\ tasks \in [TaskIds -> Task] /\ job[Loop] \in Job /\ NoJob \in Job
      /\ now \in Nat /\ wake \in BOOLEAN /\ SaveOutcomes = {TRUE}
 BY NoJobType DEF IInv, TypeOK, SaveOutcomes
<1> DEFINE Safe(t) == pc'[Loop] = "list" \/ (pc'[Loop] # "asleep" /\ Ahead(t)')
<1>s. SUFFICES ASSUME up', NEW t \in TaskIds, Queued(tasks'[t]), ~wake', Claims' = {}
               PROVE  Safe(t)
 BY DEF QueueKept, Somebody
<1>1. CASE ~LoopStep /\ ~ClaimStep(Loop)
 <2>1. ~Crash BY <1>s DEF Crash
 <2>2. UNCHANGED <<todo, passAt>> /\ pc'[Loop] = pc[Loop] /\ job'[Loop] = job[Loop] BY <1>1, <2>1, BesideStep
 <2>3. UNCHANGED <<wake, tasks>> BY <1>1, <1>s, QuietStep
 <2>4. CASE ~up BY <2>2, <2>4, DownAtList
 <2>5. CASE up
  <3>1. ~Somebody BY <1>s, <2>3 DEF Somebody, Claims, Store, Stored
  <3>2. pc[Loop] = "list" \/ (pc[Loop] # "asleep" /\ Ahead(t)) BY <1>s, <2>3, <2>5, <3>1 DEF QueueKept
  <3> QED BY <2>2, <3>2 DEF Ahead, Claiming
 <2> QED BY <2>4, <2>5
\* What the loop has in hand before a step of its own that leaves the record alone.
<1>2. ASSUME LoopStep \/ ClaimStep(Loop), tasks'[t] = tasks[t], UNCHANGED wake, Claims = {},
             pc[Loop] # "list"
      PROVE  pc[Loop] # "asleep" /\ Ahead(t)
 BY <1>0, <1>2, <1>s, LoopOnly DEF QueueKept, Somebody
<1>3. UNCHANGED tasks => Claims = {} BY <1>s DEF Claims, Store, Stored
<1>4. CASE LoopStep
 <2>1. CASE LoopList
  <3>1. t \in Store /\ IsDue(tasks[t], now)
   <4>1. UNCHANGED tasks BY <2>1 DEF LoopList
   <4>2. Queued(tasks[t]) /\ t \notin Claims BY <1>3, <1>s, <4>1
   <4> QED BY <1>0, <4>2 DEF Queued, Claims, Store, Stored, IsDue
  <3>2. [task |-> t, due |-> DueAt(tasks[t])] \in todo' BY <2>1, <3>1 DEF LoopList
  <3>3. pc'[Loop] = "visit" BY <1>0, <2>1 DEF LoopList
  <3> QED BY <3>2, <3>3 DEF Ahead
 <2>2. ASSUME NEW v \in todo, LoopVisit(v)
       PROVE  Safe(t)
  <3>0. pc[Loop] = "visit" /\ todo' = todo \ {v} /\ UNCHANGED <<wake, now>> /\ v.task \in TaskIds
   BY <1>0, <2>2 DEF LoopVisit, TypeOK
  <3>1. CASE /\ job' = [job EXCEPT ![Loop] = [NoJob EXCEPT !.task = v.task, !.at = passAt]]
             /\ pc' = [pc EXCEPT ![Loop] = "claim"] /\ UNCHANGED tasks
   <4>1. pc'[Loop] = "claim" /\ job'[Loop].task = v.task BY <1>0, <3>1 DEF Job
   <4>2. Ahead(t) BY <1>2, <1>3, <1>4, <3>0, <3>1
   <4>3. \E w \in todo : w.task = t BY <3>0, <4>2 DEF Ahead, Claiming
   <4> QED BY <3>0, <4>1, <4>3 DEF Ahead, Claiming
  <3>2. ASSUME NEW m, m = AuthPaused(tasks[v.task]) \/ m = Deferred(tasks[v.task], now),
               Save(v.task, m, Stored(v.task)), UNCHANGED pc
        PROVE  Safe(t)
   <4>1. tasks[v.task] \in Task /\ Succeeds(tasks[v.task], m) BY <1>0, <3>0, <3>2, AuthPausedType, DeferredType
   <4>2. ~Queued(m)
    <5>1. ~AuthPaused(tasks[v.task]).enabled BY <4>1 DEF AuthPaused, Disarmed, Unqueued, Task
    <5>2. Deferred(tasks[v.task], now).retryAt # 0
     <6>1. Deferred(tasks[v.task], now).retryAt = now + BusyRetry BY <4>1 DEF Deferred, Task
     <6> QED BY <1>0, <6>1, ScheduleTaskAssumption
    <5> QED BY <3>2, <5>1, <5>2 DEF Queued
   <4>3. t # v.task BY <1>0, <1>s, <3>2, <4>2 DEF Save, Queued, Stored
   <4>4. tasks'[t] = tasks[t] BY <1>0, <3>2, <4>3 DEF Save
   <4>5. Claims \subseteq Claims'
    <5>1. ASSUME NEW u \in TaskIds
          PROVE  Succeeds(tasks[u], tasks'[u])
     BY <1>0, <3>0, <3>2, <4>1, <5>1 DEF Save, Succeeds, Survives
    <5> QED BY <5>1 DEF Claims, Store, Stored, Succeeds, Survives
   <4>6. Ahead(t) BY <1>2, <1>4, <1>s, <3>0, <4>4, <4>5
   <4>7. \E w \in todo' : w.task = t BY <3>0, <4>3, <4>6 DEF Ahead, Claiming
   <4> QED BY <3>0, <3>2, <4>7 DEF Ahead
  <3>3. CASE /\ \E outcome \in AuthOutcomes \ {"ok"}, saved \in SaveOutcomes :
                  Save(v.task, IF outcome = "denied" THEN AuthPaused(tasks[v.task])
                               ELSE Deferred(tasks[v.task], now), saved /\ Stored(v.task))
             /\ UNCHANGED pc
   <4>1. PICK outcome \in AuthOutcomes \ {"ok"}, saved \in SaveOutcomes :
           Save(v.task, IF outcome = "denied" THEN AuthPaused(tasks[v.task])
                        ELSE Deferred(tasks[v.task], now), saved /\ Stored(v.task))
    BY <3>3
   <4>2. saved = TRUE BY <1>0
   <4>3. Save(v.task, IF outcome = "denied" THEN AuthPaused(tasks[v.task])
                      ELSE Deferred(tasks[v.task], now), Stored(v.task))
    BY <4>1, <4>2 DEF Save
   <4> QED BY <3>2, <3>3, <4>3
  <3> QED BY <2>2, <3>1, <3>3 DEF LoopVisit
 <2>3. ~LoopDelay
  <3>1. SUFFICES ASSUME LoopDelay PROVE FALSE OBVIOUS
  <3>2. pc[Loop] = "visit" /\ todo = {} /\ UNCHANGED <<tasks, wake>> BY <3>1 DEF LoopDelay
  <3> QED BY <1>2, <1>3, <1>4, <3>2 DEF Ahead, Claiming
 <2>4. LoopWoken \/ LoopTimer => Safe(t) BY <1>0 DEF LoopWoken, LoopTimer
 <2> QED BY <1>4, <2>1, <2>2, <2>3, <2>4 DEF LoopStep
<1>5. CASE ClaimGet(Loop)
 <2>1. pc[Loop] = "claim" /\ UNCHANGED <<tasks, wake, todo>> BY <1>5 DEF ClaimGet
 <2>2. Ahead(t) /\ Queued(tasks[t]) /\ Claims = {} BY <1>2, <1>3, <1>5, <1>s, <2>1 DEF ClaimStep
 <2>3. CASE Leave(Loop, ~Stored(job[Loop].task))
            /\ ~( /\ Stored(job[Loop].task)
                  /\ \/ job[Loop].force \/ tasks[job[Loop].task].pendingForced
                     \/ tasks[job[Loop].task].enabled /\ IsDue(tasks[job[Loop].task], job[Loop].at) )
  <3>1. job[Loop].task # t
   <4>1. job[Loop].at \in Nat BY <1>0
   <4> QED BY <1>0, <2>2, <2>3, <4>1 DEF Queued, Claims, Store, Stored, IsDue
  <3>2. pc'[Loop] = "visit" BY <1>0, <2>3 DEF Leave, Back
  <3> QED BY <2>1, <2>2, <3>1, <3>2 DEF Ahead
 <2>4. CASE pc'[Loop] \in {"scan", "commit"} /\ job'[Loop].task = job[Loop].task BY <2>1, <2>2, <2>4 DEF Ahead, Claiming
 <2>5. ASSUME NEW f, NEW p, NEW l, l \in {"scan", "commit"},
              job' = [job EXCEPT ![Loop] = [@ EXCEPT !.force = f, !.snap = tasks[job[Loop].task],
                                                     !.plan = p]],
              pc' = [pc EXCEPT ![Loop] = l]
       PROVE  pc'[Loop] \in {"scan", "commit"} /\ job'[Loop].task = job[Loop].task
  BY <1>0, <2>5 DEF Job
 <2>6. \/ pc'[Loop] \in {"scan", "commit"} /\ job'[Loop].task = job[Loop].task
       \/ Leave(Loop, ~Stored(job[Loop].task))
          /\ ~( /\ Stored(job[Loop].task)
                /\ \/ job[Loop].force \/ tasks[job[Loop].task].pendingForced
                   \/ tasks[job[Loop].task].enabled /\ IsDue(tasks[job[Loop].task], job[Loop].at) )
  BY <1>5, <2>5 DEF ClaimGet
 <2> QED BY <2>3, <2>4, <2>6
<1>6. CASE ClaimScan(Loop)
 <2>1. /\ pc[Loop] = "scan" /\ pc'[Loop] = "commit" /\ UNCHANGED <<tasks, wake, todo>>
       /\ job'[Loop].task = job[Loop].task
  <3>1. CASE job' = [job EXCEPT ![Loop].plan = "overlap"] BY <1>0, <1>6, <3>1 DEF ClaimScan, loopVars, Job
  <3>2. CASE \E r : job' = [job EXCEPT ![Loop] = [@ EXCEPT !.plan = "start", !.run = r]]
   <4>1. PICK r : job' = [job EXCEPT ![Loop] = [@ EXCEPT !.plan = "start", !.run = r]] BY <3>2
   <4>2. job'[Loop].task = job[Loop].task BY <1>0, <4>1 DEF Job
   <4> QED BY <1>0, <1>6, <4>2 DEF ClaimScan, loopVars
  <3> QED BY <1>6, <3>1, <3>2 DEF ClaimScan
 <2>2. Ahead(t) BY <1>2, <1>3, <1>6, <2>1 DEF ClaimStep
 <2> QED BY <2>1, <2>2 DEF Ahead, Claiming
<1>7. CASE ClaimCommit(Loop)
 <2> DEFINE u == job[Loop].task
 <2>1. /\ pc[Loop] = "commit" /\ UNCHANGED <<wake, todo>>
       /\ Save(u, ClaimedBy(Loop), Stored(u)) /\ pc'[Loop] \in {"dispatch", "visit"}
  <3>1. pc[Loop] = "commit" /\ UNCHANGED <<wake, todo>> /\ pc'[Loop] \in {"dispatch", "visit"}
   BY <1>0, <1>7 DEF ClaimCommit, Leave, Back
  <3>2. PICK saved \in SaveOutcomes : Save(u, ClaimedBy(Loop), saved /\ Stored(u)) BY <1>7 DEF ClaimCommit
  <3>3. saved = TRUE BY <1>0
  <3> QED BY <3>1, <3>2, <3>3 DEF Save
 <2>2. Claims = {} BY <1>7, <1>s, CommitKeepsClaims
 <2>3. ~Somebody BY <1>s, <2>1, <2>2 DEF Somebody
 <2>4. ~Queued(ClaimedBy(Loop)) BY <1>7, <2>1, <2>3, CommitEmptiesQueue DEF LoopAims
 <2>5. t # u BY <1>0, <1>s, <2>1, <2>4 DEF Save, Queued, Stored
 <2>6. tasks'[t] = tasks[t] BY <1>0, <2>1, <2>5 DEF Save
 <2>7. Ahead(t) BY <1>2, <1>7, <2>1, <2>2, <2>6 DEF ClaimStep
 <2> QED BY <2>1, <2>5, <2>7 DEF Ahead
<1>8. CASE Dispatch(Loop) \/ Settle(Loop)
 <2>1. pc[Loop] \in {"dispatch", "settle"} /\ UNCHANGED todo /\ pc'[Loop] \in {"visit", "settle"}
  BY <1>0, <1>8 DEF Dispatch, Settle, Leave, Back
 <2>2. UNCHANGED <<tasks, wake>> BY <1>0, <1>8, <1>s DEF Dispatch, Settle, Save, Notify
 <2>3. Ahead(t) BY <1>2, <1>3, <1>8, <2>1, <2>2 DEF ClaimStep
 <2> QED BY <2>1, <2>3 DEF Ahead, Claiming
<1> QED BY <1>1, <1>4, <1>5, <1>6, <1>7, <1>8 DEF ClaimStep

\* A pass that ends in the instant it began has looked at every deadline that is over,
\* or failed.
LEMMA PassInit == Init => PassKept
BY SchedulerAssumption DEF Init, PassKept, Callers

LEMMA PassStep ==
  ASSUME IInv, IInv', NobodyForces, LoopAims, PassKept, [Next]_vars, "runNow" \notin Ops
  PROVE  PassKept'
<1> USE TypeFacts DEF Goto
<1>0. /\ TypeOK /\ pc \in [Callers -> Locations] /\ job \in [Callers -> Job]
      /\ tasks \in [TaskIds -> Task] /\ job[Loop] \in Job /\ NoJob \in Job
      /\ now \in Nat /\ now' \in Nat /\ now <= now' /\ passAt \in Nat /\ passAt <= now
      /\ wake \in BOOLEAN /\ failed \in BOOLEAN
 BY NoJobType, ClockForward DEF IInv, TypeOK, ClaimInvariant, ClockSane
<1>s. SUFFICES ASSUME up', pc'[Loop] \notin {"list", "asleep"}, passAt' = now', ~wake', ~failed',
                      NEW t \in TaskIds, Overdue(tasks[t])'
               PROVE  Ahead(t)'
 BY DEF PassKept
<1>1. CASE ~LoopStep /\ ~ClaimStep(Loop)
 <2>1. ~Crash BY <1>s DEF Crash
 <2>2. UNCHANGED <<todo, passAt>> /\ pc'[Loop] = pc[Loop] /\ job'[Loop] = job[Loop] BY <1>1, <2>1, BesideStep
 <2>3. UNCHANGED <<wake, tasks, failed>> BY <1>1, <1>s, QuietStep
 <2>4. up BY <1>s, <2>2, DownAtList
 <2>5. passAt = now /\ now' = now BY <1>0, <1>s, <2>2
 <2>6. Overdue(tasks[t]) BY <1>s, <2>3, <2>5 DEF Overdue
 <2>7. Ahead(t) BY <1>s, <2>2, <2>3, <2>4, <2>5, <2>6 DEF PassKept
 <2> QED BY <2>2, <2>7 DEF Ahead, Claiming
\* What the loop has in hand before a step of its own that leaves the record alone.
<1>2. ASSUME LoopStep \/ ClaimStep(Loop), tasks'[t] = tasks[t], UNCHANGED <<wake, passAt>>,
             ~failed, pc[Loop] \notin {"list", "asleep"}
      PROVE  Overdue(tasks[t]) /\ Ahead(t)
 <2>1. up /\ UNCHANGED now BY <1>0, <1>2, LoopOnly
 <2>2. Overdue(tasks[t]) BY <1>2, <1>s, <2>1 DEF Overdue
 <2> QED BY <1>2, <1>s, <2>1, <2>2 DEF PassKept
<1>3. CASE LoopStep
 <2>1. CASE LoopList
  <3>1. t \in Store /\ IsDue(tasks[t], now)
   <4>1. UNCHANGED <<tasks, now>> BY <2>1 DEF LoopList
   <4> QED BY <1>s, <4>1 DEF Overdue, Store, Stored, IsDue
  <3>2. [task |-> t, due |-> DueAt(tasks[t])] \in todo' BY <2>1, <3>1 DEF LoopList
  <3> QED BY <3>2 DEF Ahead
 <2>2. ASSUME NEW v \in todo, LoopVisit(v)
       PROVE  Ahead(t)'
  <3>1. /\ pc[Loop] = "visit" /\ todo' = todo \ {v} /\ UNCHANGED <<wake, passAt, tasks, failed>>
        /\ job' = [job EXCEPT ![Loop] = [NoJob EXCEPT !.task = v.task, !.at = passAt]]
        /\ pc' = [pc EXCEPT ![Loop] = "claim"]
   BY <1>s, <2>2 DEF LoopVisit
  <3>2. pc'[Loop] = "claim" /\ job'[Loop].task = v.task BY <1>0, <3>1 DEF Job
  <3>3. Ahead(t) BY <1>2, <1>3, <1>s, <3>1
  <3>4. \E w \in todo : w.task = t BY <3>1, <3>3 DEF Ahead, Claiming
  <3> QED BY <3>1, <3>2, <3>4 DEF Ahead, Claiming
 <2>3. ~LoopDelay /\ ~LoopWoken /\ ~LoopTimer BY <1>0, <1>s DEF LoopDelay, LoopWoken, LoopTimer
 <2> QED BY <1>3, <2>1, <2>2, <2>3 DEF LoopStep
<1>4. CASE ClaimGet(Loop)
 <2> DEFINE u == job[Loop].task
             k == tasks[u]
             due == job[Loop].force \/ k.pendingForced \/ (k.enabled /\ IsDue(k, job[Loop].at))
 <2>1. pc[Loop] = "claim" /\ UNCHANGED <<tasks, wake, todo, passAt>> /\ job[Loop].at = passAt
  BY <1>4 DEF ClaimGet, LoopAims, Claiming
 <2>2. now' = now BY <1>4 DEF ClaimGet
 <2>3. ASSUME NEW f, NEW p, NEW l, l \in {"scan", "commit"},
              job' = [job EXCEPT ![Loop] = [@ EXCEPT !.force = f, !.snap = tasks[job[Loop].task],
                                                     !.plan = p]],
              pc' = [pc EXCEPT ![Loop] = l]
       PROVE  pc'[Loop] \in {"scan", "commit"} /\ job'[Loop].task = job[Loop].task
  BY <1>0, <2>3 DEF Job
 <2>4. \/ pc'[Loop] \in {"scan", "commit"} /\ job'[Loop].task = u /\ UNCHANGED failed
       \/ Leave(Loop, ~Stored(u)) /\ ~(Stored(u) /\ due)
  BY <1>4, <2>3 DEF ClaimGet
 <2>5. CASE pc'[Loop] \in {"scan", "commit"} /\ job'[Loop].task = u /\ UNCHANGED failed
  <3>1. Ahead(t) BY <1>2, <1>4, <1>s, <2>1, <2>5 DEF ClaimStep
  <3> QED BY <2>1, <2>5, <3>1 DEF Ahead, Claiming
 <2>6. CASE Leave(Loop, ~Stored(u)) /\ ~(Stored(u) /\ due)
  <3>1. Stored(u) /\ ~failed BY <1>0, <1>s, <2>6 DEF Leave
  <3>2. Overdue(tasks[t]) /\ Ahead(t) BY <1>2, <1>4, <1>s, <2>1, <3>1 DEF ClaimStep
  <3>3. t # u BY <1>s, <2>1, <2>2, <2>6, <3>1, <3>2 DEF Overdue, IsDue
  <3> QED BY <2>1, <3>2, <3>3 DEF Ahead
 <2> QED BY <2>4, <2>5, <2>6
<1>5. CASE ClaimScan(Loop)
 <2>1. /\ pc[Loop] = "scan" /\ pc'[Loop] = "commit" /\ UNCHANGED <<tasks, wake, todo, passAt, failed>>
       /\ job'[Loop].task = job[Loop].task
  <3>1. CASE job' = [job EXCEPT ![Loop].plan = "overlap"] BY <1>0, <1>5, <3>1 DEF ClaimScan, loopVars, Job
  <3>2. CASE \E r : job' = [job EXCEPT ![Loop] = [@ EXCEPT !.plan = "start", !.run = r]]
   <4>1. PICK r : job' = [job EXCEPT ![Loop] = [@ EXCEPT !.plan = "start", !.run = r]] BY <3>2
   <4>2. job'[Loop].task = job[Loop].task BY <1>0, <4>1 DEF Job
   <4> QED BY <1>0, <1>5, <4>2 DEF ClaimScan, loopVars
  <3> QED BY <1>5, <3>1, <3>2 DEF ClaimScan
 <2>2. Ahead(t) BY <1>2, <1>5, <1>s, <2>1 DEF ClaimStep
 <2> QED BY <2>1, <2>2 DEF Ahead, Claiming
<1>6. CASE ClaimCommit(Loop)
 <2> DEFINE u == job[Loop].task
 <2>1. pc[Loop] = "commit" /\ UNCHANGED <<wake, todo, passAt, now>> BY <1>6 DEF ClaimCommit
 <2>2. PICK saved \in SaveOutcomes :
         /\ Save(u, ClaimedBy(Loop), saved /\ Stored(u))
         /\ \/ saved /\ Stored(u) /\ UNCHANGED failed
            \/ failed' = (failed \/ ~(saved /\ Stored(u)))
  BY <1>6 DEF ClaimCommit, Leave
 <2>3. saved /\ Stored(u) /\ ~failed
  <3>1. CASE saved /\ Stored(u) /\ UNCHANGED failed BY <1>s, <3>1
  <3>2. CASE failed' = (failed \/ ~(saved /\ Stored(u))) BY <1>s, <3>2, Zenon
  <3> QED BY <2>2, <3>1, <3>2
 <2>4. tasks' = [tasks EXCEPT ![u] = ClaimedBy(Loop)] BY <2>2, <2>3 DEF Save
 <2>5. ~Overdue(ClaimedBy(Loop)) BY <1>6, <1>s, <2>1, CommitPutsOff
 <2>6. t # u BY <1>0, <1>s, <2>1, <2>4, <2>5 DEF Overdue
 <2>7. Ahead(t) BY <1>0, <1>2, <1>6, <2>1, <2>3, <2>4, <2>6 DEF ClaimStep
 <2> QED BY <2>1, <2>6, <2>7 DEF Ahead
<1>7. CASE Dispatch(Loop)
 <2>1. /\ pc[Loop] = "dispatch" /\ UNCHANGED <<todo, tasks, wake, passAt>>
       /\ (failed' = failed \/ failed' = (failed \/ FALSE))
  BY <1>7 DEF Dispatch, Leave
 <2>2. Ahead(t) BY <1>2, <1>7, <1>s, <2>1 DEF ClaimStep
 <2> QED BY <2>1, <2>2 DEF Ahead, Claiming
<1>8. ~Settle(Loop)
 <2>1. ASSUME NEW saved, NEW queue, NEW kept,
              wake' = (wake \/ (saved /\ kept)), failed' = (failed \/ ~(queue /\ saved /\ kept))
       PROVE  FALSE
  BY <1>s, <2>1
 <2> QED BY <2>1 DEF Settle, Leave, Notify
<1> QED BY <1>1, <1>3, <1>4, <1>5, <1>6, <1>7, <1>8 DEF ClaimStep

\* A pass that did not fail and ends in the instant it began leaves no task that asks
\* for that instant.
LEMMA DelayDoesNotSpin ==
  ASSUME IInv, NobodyForces, PassKept, LoopDelay, passAt = now, ~wake
  PROVE  sleepUntil' = 0 \/ sleepUntil' > now
<1> USE TypeFacts, ScheduleTaskAssumption
<1>0. TypeOK /\ now \in Nat /\ tasks \in [TaskIds -> Task] /\ failed \in BOOLEAN BY DEF IInv, TypeOK
<1>1. up /\ pc[Loop] = "visit" /\ todo = {} BY DEF LoopDelay
<1>2. \A x \in Asks : x \in Nat \ {0}
 <2>1. \A t \in TaskIds : WakeAt(tasks[t], now) \in Nat BY <1>0 DEF WakeAt, Task
 <2> QED BY <2>1 DEF Asks, Store
<1>3. ~failed => \A x \in Asks : x > now
 <2>1. SUFFICES ASSUME ~failed, NEW t \in Store, WakeAt(tasks[t], now) # 0
                PROVE  WakeAt(tasks[t], now) > now
  BY DEF Asks
 <2>2. t \in TaskIds /\ tasks[t] \in Task /\ ~tasks[t].pendingForced /\ tasks[t].status \notin Gone
  BY <1>0 DEF Store, Stored, NobodyForces, Calm
 <2>3. ~Overdue(tasks[t]) BY <1>1, <2>1, <2>2 DEF PassKept, Ahead, Claiming
 <2> QED BY <1>0, <2>1, <2>2, <2>3 DEF WakeAt, Overdue, Task
<1>4. PICK next \in IF Asks = {} THEN {0} ELSE Soonest : sleepUntil' = Timer(next) BY DEF LoopDelay
<1>5. next = 0 \/ next \in Asks BY <1>4 DEF Soonest
<1>6. next \in Nat /\ (~failed => next = 0 \/ next > now) BY <1>2, <1>3, <1>5
<1> HIDE DEF Asks
<1>7. CASE failed BY <1>0, <1>4, <1>6, <1>7 DEF Timer
<1>8. CASE ~failed BY <1>0, <1>4, <1>6, <1>8 DEF Timer
<1> QED BY <1>7, <1>8

\* Only LoopDelay puts the loop to sleep.
LEMMA OnlyDelaySleeps ==
  ASSUME IInv, NobodyForces, [Next]_vars, pc[Loop] = "visit", pc'[Loop] = "asleep"
  PROVE  LoopDelay
<1> USE TypeFacts DEF Goto
<1>0. TypeOK /\ pc \in [Callers -> Locations] BY DEF IInv, TypeOK
<1>1. ~ClaimStep(Loop) BY DEF ClaimStep, ClaimGet, ClaimScan, ClaimCommit, Dispatch, Settle
<1>2. ~Crash BY <1>0 DEF Crash
<1>3. LoopStep BY <1>1, <1>2, BesideStep
<1>4. ~LoopList /\ ~LoopWoken /\ ~LoopTimer BY DEF LoopList, LoopWoken, LoopTimer
<1>5. \A v \in todo : ~LoopVisit(v) BY <1>0 DEF LoopVisit
<1> QED BY <1>3, <1>4, <1>5 DEF LoopStep

----
\* When no write of a record fails and nobody runs a task by hand, an occurrence that
\* is queued without a retry time is never left behind by a sleeping loop: a claim is
\* left whose end wakes it, or a client is in the middle of an operation.
THEOREM QueueServed ==
  WritesFail = FALSE /\ "runNow" \notin Ops => (Spec => []QueueNotStranded)
<1> SUFFICES ASSUME WritesFail = FALSE, "runNow" \notin Ops
              PROVE  Spec => []QueueNotStranded
 OBVIOUS
<1> DEFINE I == NobodyForces /\ LoopAims /\ QueueKept
<1>1. Init => I BY NobodyForcesInit, AimsInit, QueueInit
<1>2. IInv /\ I /\ [Next]_vars => I' BY NextInv, NobodyForcesStep, AimsStep, QueueStep
<1>3. I => QueueNotStranded BY DEF NobodyForces, Calm, QueueKept, QueueNotStranded, Queued, Somebody, Store, Stored
<1> QED BY <1>1, <1>2, <1>3, Invariance, PTL DEF Spec

\* When nobody runs a task by hand, a pass that ends in the instant it began never puts
\* the loop to sleep with a timer that has run out, whichever writes and whichever
\* authorizations fail.
THEOREM NeverSpins == "runNow" \notin Ops => (Spec => NoSpin)
<1> SUFFICES ASSUME "runNow" \notin Ops
              PROVE  Spec => NoSpin
 OBVIOUS
<1> DEFINE I == NobodyForces /\ LoopAims /\ PassKept
<1>1. Init => I BY NobodyForcesInit, AimsInit, PassInit
<1>2. IInv /\ I /\ [Next]_vars => I' BY NextInv, NobodyForcesStep, AimsStep, PassStep
<1>3. IInv /\ I /\ [Next]_vars =>
        [pc[Loop] = "visit" /\ pc'[Loop] = "asleep" /\ passAt = now /\ ~wake
           => sleepUntil' = 0 \/ sleepUntil' > now]_vars
 BY OnlyDelaySleeps, DelayDoesNotSpin
<1> QED BY <1>1, <1>2, <1>3, Invariance, PTL DEF Spec, NoSpin
====
