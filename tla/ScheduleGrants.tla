---- MODULE ScheduleGrants ----
\* Who may change a scheduled task: the requests of schedule_handler.go by
\* users and, with a grant, by the agents of running turns, the registry
\* of grants (service/schedulecapability) and the checks of
\* service/schedule that read the task, the chat and the members before
\* the store is written.
\*
\* One chat of one project.  Deadlines, queues and claims are Scheduler's:
\* here a task fires when it may, and a text stands for its definition.
EXTENDS Naturals, FiniteSets

CONSTANTS
  Turns,          \* agent turns; each is given one grant
  ApiCalls,       \* requests that may be under way at once
  Accounts,       \* registered users; the administrators never change here
  AdminAccounts,
  MaxPlans,       \* bound on tasks created
  TaskQuota,      \* WithMaxTasksPerProject
  GrantTTL,       \* Registry.ttl
  MaxGrantClock, MaxApiCalls,
  NoPlan, NoGrant,
  NoTurn          \* the turn of a task that does not run, of a user's request

VARIABLES
  plans,        \* the stored tasks: [owner, byAgent, enabled, status, text, run]; "active"
                \* is running, too, and "completed" is exhausted
  grants,       \* Registry.grants: turn -> [owner, admin, plan, expires]
  turn,         \* idle, running, settling (the claim is not settled yet), over
  apiCall,      \* request -> where it stands
  projectMembers, grantClock, plansMade, apiCalls,
  wanted,       \* history: the text of the task as a user last wrote or armed it
  completedBy,  \* history: the turn whose agent completed it, and the one it ran in
  quotaCrossed  \* a count and a write of another request came between

grantVars == <<plans, grants, turn, apiCall, projectMembers, grantClock, plansMade, apiCalls,
               wanted, completedBy, quotaCrossed>>

PlanIds == 1..MaxPlans
Plans == [owner : Accounts, byAgent : BOOLEAN, enabled : BOOLEAN,
          status : {"active", "paused", "error", "completed"}, text : Nat, run : Turns \cup {NoTurn}]
Grants == [owner : Accounts, admin : BOOLEAN, plan : 0..MaxPlans, expires : Nat]

ASSUME ScheduleGrantsAssumption ==
  /\ AdminAccounts \subseteq Accounts
  /\ {TaskQuota, GrantTTL, MaxPlans, MaxGrantClock, MaxApiCalls} \subseteq Nat
  /\ NoPlan \notin Plans /\ NoGrant \notin Grants /\ NoTurn \notin Turns

IdleApi == [op |-> "none", by |-> "nobody", who |-> NoGrant, admin |-> FALSE, turn |-> NoTurn,
            plan |-> 0]

\* What a request may ask of a task that exists.
UserWrites == {"edit", "arm", "pause", "delete", "run"}
\* decodeScheduleUpdate and handleResource: an agent pauses, deletes and runs,
\* and never redefines or arms.
\* (Slip: an agent's update may carry a definition.)
AgentWrites_Slip == {"pause", "delete", "run", "edit"}
AgentWrites == {"pause", "delete", "run"}

\* A task that is history does not count, nor one that was stopped for an error.
Counts(plan) == plan # NoPlan /\ plan.status \notin {"completed", "error"}
Standing == Cardinality({p \in PlanIds : Counts(plans[p])})

\* (Slip: one task too many is let in.)
WithinQuota_Slip == Standing <= TaskQuota
WithinQuota == Standing < TaskQuota

\* authorizeCaller, validateCreationAccess, authorizeRun: an administrator or a
\* member of the project.
MayAct(who, admin) == admin \/ who \in projectMembers
MayRun(who) == who \in AdminAccounts \cup projectMembers
Mine(p, who) == plans[p] # NoPlan /\ plans[p].owner = who

----
GrantsInit ==
  /\ plans = [p \in PlanIds |-> NoPlan]
  /\ grants = [t \in Turns |-> NoGrant] /\ turn = [t \in Turns |-> "idle"]
  /\ apiCall = [c \in ApiCalls |-> IdleApi]
  /\ projectMembers \in SUBSET Accounts /\ projectMembers # {}
  /\ grantClock = 0 /\ plansMade = 0 /\ apiCalls = 0
  /\ wanted = [p \in PlanIds |-> 0] /\ completedBy = [p \in PlanIds |-> <<NoTurn, NoTurn>>]
  /\ quotaCrossed = FALSE

\* IssueScheduleTool: a grant to manage the tasks of the actor, or, for a
\* scheduled run, to complete task p.
Issued(t, who, p) ==
  /\ grants' = [grants EXCEPT ![t] =
       [owner |-> who, admin |-> who \in AdminAccounts, plan |-> p, expires |-> grantClock + GrantTTL]]
  /\ turn' = [turn EXCEPT ![t] = "running"]

\* A user's prompt begins a turn in the chat.
PromptTurn(t) ==
  /\ turn[t] = "idle"
  /\ \E who \in Accounts : MayRun(who) /\ Issued(t, who, 0)
  /\ UNCHANGED <<plans, apiCall, projectMembers, grantClock, plansMade, apiCalls, wanted, completedBy, quotaCrossed>>

\* A scheduled run: its claim names the turn; one at a time in a chat.
ChatFree == {p \in PlanIds : plans[p] # NoPlan /\ plans[p].run # NoTurn} = {}

Claimed(t, p) ==
  /\ turn[t] = "idle" /\ ChatFree
  /\ plans' = [plans EXCEPT ![p].run = t]
  /\ Issued(t, plans[p].owner, p)

\* markCompleted, and what its last run makes of a task; pauseForAuthorization.
Stopped(p, status) == [plans EXCEPT ![p].enabled = FALSE, ![p].status = status]

\* The occurrence is due: it runs, is skipped on a busy chat (the end of a task
\* that is due once) or finds the runs used up; an owner who may not run it
\* stops it.
FireTurn(t, p) ==
  /\ plans[p] # NoPlan /\ plans[p].enabled
  /\ \/ MayRun(plans[p].owner) /\ Claimed(t, p)
     \/ /\ plans' = Stopped(p, IF MayRun(plans[p].owner) THEN "completed" ELSE "error")
        /\ UNCHANGED <<grants, turn>>
  /\ UNCHANGED <<apiCall, projectMembers, grantClock, plansMade, apiCalls, wanted, completedBy, quotaCrossed>>

\* The provider returns, and the deferred Revoke takes the grant ...
\* (Slip: the grant is left to expire.)
Revoked_Slip(t) == grants
Revoked(t) == [grants EXCEPT ![t] = NoGrant]

EndTurn(t) ==
  /\ turn[t] = "running"
  /\ grants' = Revoked(t)
  /\ turn' = [turn EXCEPT ![t] = "settling"]
  /\ UNCHANGED <<plans, apiCall, projectMembers, grantClock, plansMade, apiCalls, wanted, completedBy, quotaCrossed>>

\* ... then the scheduler settles the claim; the run may have been the last one.
Settled(plan, last) ==
  IF last /\ plan.enabled THEN [plan EXCEPT !.run = NoTurn, !.enabled = FALSE, !.status = "completed"]
  ELSE [plan EXCEPT !.run = NoTurn]

SettleTurn(t) ==
  /\ turn[t] = "settling"
  /\ turn' = [turn EXCEPT ![t] = "over"]
  /\ \E last \in BOOLEAN :
       plans' = [p \in PlanIds |-> IF plans[p] # NoPlan /\ plans[p].run = t
                                  THEN Settled(plans[p], last) ELSE plans[p]]
  /\ UNCHANGED <<grants, apiCall, projectMembers, grantClock, plansMade, apiCalls, wanted, completedBy, quotaCrossed>>

----
\* Requests: a first step reads and decides, a second one writes.  What is
\* refused changes nothing.

\* Get, authorizeCaller and taskMatchesGrant; for a creation the access and the
\* quota.  A request that completes its own task is not asked for membership.
Passes(call) ==
  /\ call.op = "create" => MayAct(call.who, call.admin) /\ WithinQuota
  /\ call.op = "complete" => Mine(call.plan, call.who)
  /\ call.op \notin {"create", "complete"} =>
       /\ plans[call.plan] # NoPlan
       /\ \/ Mine(call.plan, call.who) /\ MayAct(call.who, call.admin)
          \/ call.by = "user" /\ call.admin

ReadFirst(c, call) ==
  /\ apiCall[c] = IdleApi /\ apiCalls < MaxApiCalls /\ Passes(call)
  /\ apiCall' = [apiCall EXCEPT ![c] = call] /\ apiCalls' = apiCalls + 1
  /\ quotaCrossed' = (quotaCrossed \/ (call.op = "create" /\
       \E d \in ApiCalls : apiCall[d].op = "create"))
  /\ UNCHANGED <<plans, grants, turn, projectMembers, grantClock, plansMade, wanted, completedBy>>

HandleUser(c) ==
  \E who \in Accounts, op \in UserWrites \cup {"create"}, p \in PlanIds :
    /\ op = "create" => p = 1
    /\ ReadFirst(c, [op |-> op, by |-> "user", who |-> who, admin |-> who \in AdminAccounts,
                     turn |-> NoTurn, plan |-> p])

\* Registry.Resolve: a grant that is there and has not expired; its scope
\* decides what can be asked.
GrantResolves(t) == grants[t] # NoGrant /\ grantClock < grants[t].expires

HandleAgent(c) ==
  \E t \in Turns, op \in AgentWrites \cup {"create", "complete"}, p \in PlanIds :
    /\ GrantResolves(t)
    /\ IF grants[t].plan = 0 THEN op # "complete" /\ (op = "create" => p = 1)
       ELSE op = "complete" /\ p = grants[t].plan
    /\ ReadFirst(c, [op |-> op, by |-> "agent", who |-> grants[t].owner, admin |-> grants[t].admin,
                     turn |-> t, plan |-> p])

Replies(c) == apiCall' = [apiCall EXCEPT ![c] = IdleApi]

\* Service.Create: the task of an agent is parked, disabled.
\* (Slip: like a user's it is put on the clock.)
NewPlan_Slip(call) ==
  [owner |-> call.who, byAgent |-> call.by = "agent", enabled |-> TRUE, status |-> "active",
   text |-> plansMade + 1, run |-> NoTurn]
NewPlan(call) ==
  [owner |-> call.who, byAgent |-> call.by = "agent", enabled |-> call.by = "user",
   status |-> IF call.by = "user" THEN "active" ELSE "paused", text |-> plansMade + 1, run |-> NoTurn]

StorePlan(c) ==
  LET call == apiCall[c]
  IN  /\ call.op = "create" /\ Replies(c)
      /\ plansMade < MaxPlans /\ plansMade' = plansMade + 1
      /\ plans' = [plans EXCEPT ![plansMade + 1] = NewPlan(call)]
      /\ wanted' = [wanted EXCEPT ![plansMade + 1] = IF call.by = "user" THEN plansMade + 1 ELSE 0]
      /\ UNCHANGED <<grants, turn, projectMembers, grantClock, apiCalls, completedBy, quotaCrossed>>

\* repo.Update: a definition, enabled or disabled; a pause or an arm, also of a
\* task that is history.
Updated(plan, op, text) ==
  CASE op = "edit" -> [plan EXCEPT !.text = text]
    [] op = "arm" -> [plan EXCEPT !.enabled = TRUE, !.status = "active"]
    [] op = "pause" -> [plan EXCEPT !.enabled = FALSE, !.status = "paused"]

UpdatePlan(c) ==
  LET call == apiCall[c]
      p == call.plan
      new == Updated(plans[p], call.op, MaxPlans + apiCalls)
  IN  /\ call.op \in {"edit", "arm", "pause"} /\ Replies(c)
      /\ IF plans[p] = NoPlan THEN UNCHANGED <<plans, wanted, quotaCrossed>>
         ELSE /\ plans' = [plans EXCEPT ![p] = new]
              /\ wanted' = [wanted EXCEPT ![p] = IF call.by = "user" /\ call.op # "pause" THEN new.text ELSE @]
              /\ quotaCrossed' = (quotaCrossed \/ (~Counts(plans[p]) /\ Counts(new)))
      /\ UNCHANGED <<grants, turn, projectMembers, grantClock, plansMade, apiCalls, completedBy>>

DeletePlan(c) ==
  LET call == apiCall[c]
  IN  /\ call.op = "delete" /\ Replies(c)
      /\ plans' = [plans EXCEPT ![call.plan] = NoPlan]
      /\ UNCHANGED <<grants, turn, projectMembers, grantClock, plansMade, apiCalls, wanted, completedBy, quotaCrossed>>

\* RunNow: authorizeRun stops the task of an owner who may not run it.  A busy
\* chat leaves the run to the queue, or skips it: the task is active again,
\* though not enabled, unless its runs are used up.
Skipped(p) ==
  IF plans[p].run = NoTurn THEN [plans EXCEPT ![p].status = "active"] ELSE plans

RunPlan(c) ==
  LET call == apiCall[c]
      p == call.plan
  IN  /\ call.op = "run" /\ Replies(c)
      /\ CASE plans[p] = NoPlan -> UNCHANGED <<plans, grants, turn, quotaCrossed>>
           [] plans[p] # NoPlan /\ ~MayRun(plans[p].owner) ->
                plans' = Stopped(p, "error") /\ UNCHANGED <<grants, turn, quotaCrossed>>
           [] OTHER ->
                \/ (\E t \in Turns : Claimed(t, p)) /\ UNCHANGED quotaCrossed
                \/ UNCHANGED <<plans, grants, turn, quotaCrossed>>
                \/ /\ ~ChatFree
                   /\ \/ plans' = Stopped(p, "completed") /\ UNCHANGED quotaCrossed
                      \/ plans' = Skipped(p) /\ quotaCrossed' = (quotaCrossed \/ ~Counts(plans[p]))
                   /\ UNCHANGED <<grants, turn>>
      /\ UNCHANGED <<projectMembers, grantClock, plansMade, apiCalls, wanted, completedBy>>

\* CompleteClaim: under the store's lock, only the claim of the grant's own run.
\* (Slip: whatever the task runs now is completed.)
OwnClaim_Slip(p, t) == TRUE
OwnClaim(p, t) == plans[p].run = t

CompletePlan(c) ==
  LET call == apiCall[c]
      p == call.plan
  IN  /\ call.op = "complete" /\ Replies(c)
      /\ IF plans[p] # NoPlan /\ OwnClaim(p, call.turn)
         THEN /\ plans' = Stopped(p, "completed")
              /\ completedBy' = [completedBy EXCEPT ![p] = <<call.turn, plans[p].run>>]
         ELSE UNCHANGED <<plans, completedBy>>
      /\ UNCHANGED <<grants, turn, projectMembers, grantClock, plansMade, apiCalls, wanted, quotaCrossed>>

\* Somebody leaves the project or joins it; time passes.
MembershipChanges ==
  /\ \E who \in Accounts : projectMembers' = (projectMembers \ {who}) \cup ({who} \ projectMembers)
  /\ apiCalls < MaxApiCalls /\ apiCalls' = apiCalls + 1
  /\ UNCHANGED <<plans, grants, turn, apiCall, grantClock, plansMade, wanted, completedBy, quotaCrossed>>

GrantClockTicks ==
  /\ grantClock < MaxGrantClock /\ grantClock' = grantClock + 1
  /\ UNCHANGED <<plans, grants, turn, apiCall, projectMembers, plansMade, apiCalls, wanted, completedBy, quotaCrossed>>

GrantsNext ==
  \/ \E t \in Turns : PromptTurn(t) \/ EndTurn(t) \/ SettleTurn(t) \/ \E p \in PlanIds : FireTurn(t, p)
  \/ \E c \in ApiCalls : \/ HandleUser(c) \/ HandleAgent(c) \/ StorePlan(c) \/ UpdatePlan(c)
                         \/ DeletePlan(c) \/ RunPlan(c) \/ CompletePlan(c)
  \/ MembershipChanges \/ GrantClockTicks

----
\* Properties.

GrantsTypeOK ==
  /\ plans \in [PlanIds -> Plans \cup {NoPlan}] /\ grants \in [Turns -> Grants \cup {NoGrant}]
  /\ turn \in [Turns -> {"idle", "running", "settling", "over"}]
  /\ DOMAIN apiCall = ApiCalls /\ projectMembers \subseteq Accounts
  /\ grantClock \in 0..MaxGrantClock /\ plansMade \in 0..MaxPlans /\ apiCalls \in 0..MaxApiCalls
  /\ wanted \in [PlanIds -> Nat] /\ quotaCrossed \in BOOLEAN

\* "Agent-minted tasks are parked until a user arms them": what is on the clock
\* is what a user wrote or armed, whatever agents asked meanwhile.
ArmedByUser ==
  \A p \in PlanIds : plans[p] # NoPlan /\ plans[p].enabled => wanted[p] = plans[p].text

\* A grant is of use to the turn it was issued for and to nothing after it.
GrantEndsWithTurn == \A t \in Turns : grants[t] # NoGrant => turn[t] = "running"

\* "One scheduled prompt cannot complete another task", or another run of its own:
\* also when the request was let in before the turn ended.
CompletesOwnRun == \A p \in PlanIds : completedBy[p][1] = completedBy[p][2]

\* The quota holds unless two creations counted before either wrote, or a task
\* that did not count is armed, paused or skipped again (only Create counts).
QuotaKept == quotaCrossed \/ Standing <= TaskQuota

GrantsInvariant ==
  GrantsTypeOK /\ ArmedByUser /\ GrantEndsWithTurn /\ CompletesOwnRun /\ QuotaKept

\* Not so: Update does not count, and Create counts before it writes.
QuotaAlways == Standing <= TaskQuota

\* Not so after GrantTTL: a run that is still going cannot complete its task
\* through the tool any more.
RunKeepsItsGrant == \A t \in Turns : turn[t] = "running" => GrantResolves(t)
====
