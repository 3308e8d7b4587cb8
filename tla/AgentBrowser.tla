---- MODULE AgentBrowser ----
\* The Agent Browser of one project: service/project/agent_browser.go.
\*
\* Pages, agents and the idle reaper ask for it at once; each of them
\* waits for the container between two looks at the shared state, and a
\* start goes on in the background.  startID is kept only as far as it is
\* compared: current is the start whose outcome still counts.  A status of
\* core without view is ready to everyone but a start.
EXTENDS Integers

CONSTANTS
  Pages,      \* requests that may be under way at once
  Starts,     \* goroutines of starts that may be under way at once
  NoStart,    \* no start counts
  MaxUses     \* bound: how often pages and agents use the browser

ASSUME AgentBrowserAssumption == NoStart \notin Starts /\ MaxUses \in Nat

VARIABLES
  core, view, \* the stack in the container, and its layer for people
  viewing,    \* somebody looks at it
  info,       \* info[id].Status, "none" if there is no entry
  current,    \* startID: the start whose outcome counts
  starting,   \* starting[i]: the goroutine of a start
  seen,       \* the last activity: "none", "fresh", or "old" (longer ago than ttl)
  reaper,     \* where reapIdle is
  page,       \* page[p]: where a request is, and the entry it read
  uses        \* how often the browser was used

browserVars == <<core, view, viewing, info, current, starting, seen, reaper, page, uses>>
stackVars == <<core, view, viewing>>

AtRest == [at |-> "idle", stored |-> "none"]

BrowserInit ==
  /\ core = FALSE /\ view = FALSE /\ viewing = FALSE
  /\ info = "none"
  /\ current = NoStart
  /\ starting = [i \in Starts |-> "none"]
  /\ seen = "none"
  /\ reaper = "idle"
  /\ page = [p \in Pages |-> AtRest]
  /\ uses = 0

Touch == seen' = "fresh"
\* Mutant: the start in flight is superseded, its entry stays.
ClearState_Slip == current' = NoStart /\ UNCHANGED info

ClearState == info' = "none" /\ current' = NoStart
Goes(p, at) == page' = [page EXCEPT ![p].at = at]
Rests(p) == page' = [page EXCEPT ![p] = AtRest]
Use == uses < MaxUses /\ uses' = uses + 1

\* Stop in the container: the whole stack, or an error that leaves it.
StackDown == core' = FALSE /\ view' = FALSE /\ viewing' = FALSE

----
\* start

StartBrowser(p) ==
  /\ page[p].at = "idle" /\ Use
  /\ Touch
  /\ IF info = "starting" THEN UNCHANGED page ELSE Goes(p, "start")
  /\ UNCHANGED <<stackVars, info, current, starting, reaper>>

\* The container is asked for the status, which may fail.
StartLooks(p) ==
  /\ page[p].at = "start"
  /\ \/ Rests(p)
     \/ Goes(p, IF core /\ view THEN "publish" ELSE "begin")
  /\ UNCHANGED <<stackVars, info, current, starting, seen, reaper, uses>>

\* beginStart and its goroutine.
BeginStart(p, i) ==
  /\ page[p].at = "begin" /\ starting[i] = "none"
  /\ starting' = [starting EXCEPT ![i] = "going"]
  /\ current' = i
  /\ info' = "starting"
  /\ Rests(p)
  /\ UNCHANGED <<stackVars, seen, reaper, uses>>

\* Ensure, which may fail before or after the core is up.
EnsureEnds(i) ==
  /\ starting[i] = "going"
  /\ \/ /\ starting' = [starting EXCEPT ![i] = "ready"]
        /\ core' = TRUE /\ view' = TRUE
     \/ /\ starting' = [starting EXCEPT ![i] = "error"]
        /\ core' \in {core, TRUE} /\ UNCHANGED view
  /\ UNCHANGED <<viewing, info, current, seen, reaper, page, uses>>

FinishStart(i) ==
  /\ starting[i] \in {"ready", "error"}
  /\ starting' = [starting EXCEPT ![i] = "none"]
  /\ IF current = i
     THEN info' = starting[i] /\ current' = current
     ELSE UNCHANGED <<info, current>>
  /\ UNCHANGED <<stackVars, seen, reaper, page, uses>>

----
\* status, stop and stopView

Status(p) ==
  /\ page[p].at = "idle" /\ Use
  /\ Touch
  /\ page' = [page EXCEPT ![p] = [at |-> "status", stored |-> info]]
  /\ UNCHANGED <<stackVars, info, current, starting, reaper>>

StatusLooks(p) ==
  /\ page[p].at = "status"
  /\ \/ Rests(p)
     \/ core /\ Goes(p, "publish")
     \/ ~core /\ page[p].stored = "ready" /\ Goes(p, "clear")
  /\ UNCHANGED <<stackVars, info, current, starting, seen, reaper, uses>>

Publish(p) ==
  /\ page[p].at = "publish"
  /\ info' = "ready"
  /\ Rests(p)
  /\ UNCHANGED <<stackVars, current, starting, seen, reaper, uses>>

\* The stored state was ready and the container says otherwise, or the browser
\* was stopped before the container is deleted.
ClearEntry(p) ==
  /\ page[p].at \in {"clear", "upgraded"}
  /\ ClearState
  /\ seen' = IF page[p].at = "upgraded" THEN "none" ELSE seen
  /\ Rests(p)
  /\ UNCHANGED <<stackVars, starting, reaper, uses>>

StopBrowser(p) ==
  /\ page[p].at = "idle" /\ Use
  /\ ClearState
  /\ Goes(p, "stop")
  /\ UNCHANGED <<stackVars, starting, seen, reaper>>

StopReturns(p) ==
  /\ page[p].at = "stop"
  /\ \/ StackDown /\ seen' = "none"
     \/ UNCHANGED <<stackVars, seen>>
  /\ Rests(p)
  /\ UNCHANGED <<info, current, starting, reaper, uses>>

\* stopBeforeUpgrade: whether the browser stopped or not, the entry goes, and so
\* does the container with the stack.
StopBeforeUpgrade(p) ==
  /\ page[p].at = "idle" /\ Use
  /\ StackDown
  /\ Goes(p, "upgraded")
  /\ UNCHANGED <<info, current, starting, seen, reaper>>

StopView(p) ==
  /\ page[p].at = "idle" /\ Use
  /\ view' = FALSE /\ viewing' = FALSE
  /\ UNCHANGED <<core, info, current, starting, seen, reaper, page>>

\* An agent uses the browser.
TouchByAgent ==
  /\ Use /\ Touch
  /\ UNCHANGED <<stackVars, info, current, starting, reaper, page>>

----
\* reapIdle, once a minute

ReapTick ==
  /\ reaper = "idle"
  /\ \/ seen = "none" /\ Touch /\ UNCHANGED reaper
     \/ seen = "old" /\ reaper' = "idle for long" /\ UNCHANGED seen
  /\ UNCHANGED <<stackVars, info, current, starting, page, uses>>

ReapLooks ==
  /\ reaper = "idle for long"
  /\ reaper' = IF ~core THEN "forget" ELSE IF viewing THEN "viewed" ELSE "stop"
  /\ UNCHANGED <<stackVars, info, current, starting, seen, page, uses>>

ReapStops ==
  /\ reaper = "stop"
  /\ StackDown
  /\ reaper' = "forget"
  /\ UNCHANGED <<info, current, starting, seen, page, uses>>

\* The container does not answer.
ReapFails ==
  /\ reaper \in {"idle for long", "stop"}
  /\ reaper' = "idle"
  /\ UNCHANGED <<stackVars, info, current, starting, seen, page, uses>>

ReapEnds ==
  /\ reaper' = "idle"
  /\ \/ reaper = "forget" /\ ClearState /\ seen' = "none"
     \/ reaper = "viewed" /\ Touch /\ UNCHANGED <<info, current>>
  /\ UNCHANGED <<stackVars, starting, page, uses>>

TtlPasses ==
  /\ seen = "fresh"
  /\ seen' = "old"
  /\ UNCHANGED <<stackVars, info, current, starting, reaper, page, uses>>

----
\* People, the container, the server

Look ==
  /\ viewing' = ~viewing
  /\ viewing \/ (core /\ view /\ uses < MaxUses)
  /\ uses' = IF viewing THEN uses ELSE uses + 1
  /\ UNCHANGED <<core, view, info, current, starting, seen, reaper, page>>

BrowserDies ==
  /\ core /\ StackDown
  /\ UNCHANGED <<info, current, starting, seen, reaper, page, uses>>

BrowserRestart ==
  /\ uses < MaxUses
  /\ info' = "none" /\ current' = NoStart /\ seen' = "none" /\ reaper' = "idle"
  /\ starting' = [i \in Starts |-> "none"]
  /\ page' = [p \in Pages |-> AtRest]
  /\ uses' = uses + 1
  /\ UNCHANGED stackVars

BrowserNext ==
  \/ \E p \in Pages :
       \/ StartBrowser(p) \/ StartLooks(p) \/ Status(p) \/ StatusLooks(p) \/ Publish(p)
       \/ ClearEntry(p) \/ StopBrowser(p) \/ StopReturns(p) \/ StopBeforeUpgrade(p) \/ StopView(p)
       \/ \E i \in Starts : BeginStart(p, i)
  \/ \E i \in Starts : EnsureEnds(i) \/ FinishStart(i)
  \/ ReapTick \/ ReapLooks \/ ReapStops \/ ReapFails \/ ReapEnds \/ TtlPasses
  \/ TouchByAgent \/ Look \/ BrowserDies \/ BrowserRestart

\* Requests and goroutines go on, time passes, the reaper looks as long as there
\* is a stack, and a container that is asked again and again answers.
BrowserFairness ==
  /\ \A p \in Pages :
       /\ WF_browserVars(StartLooks(p)) /\ WF_browserVars(StatusLooks(p))
       /\ WF_browserVars(Publish(p)) /\ WF_browserVars(ClearEntry(p))
       /\ WF_browserVars(StopReturns(p))
       /\ WF_browserVars(\E i \in Starts : BeginStart(p, i))
  /\ \A i \in Starts : WF_browserVars(EnsureEnds(i)) /\ WF_browserVars(FinishStart(i))
  /\ WF_browserVars(core /\ ReapTick) /\ WF_browserVars(ReapEnds) /\ WF_browserVars(TtlPasses)
  /\ SF_browserVars(ReapLooks) /\ SF_browserVars(ReapStops)

----
\* Properties

BrowserTypeOK ==
  /\ {core, view, viewing} \subseteq BOOLEAN
  /\ info \in {"none", "starting", "ready", "error"}
  /\ current \in Starts \cup {NoStart}
  /\ starting \in [Starts -> {"none", "going", "ready", "error"}]
  /\ seen \in {"none", "fresh", "old"}
  /\ reaper \in {"idle", "idle for long", "stop", "forget", "viewed"}
  /\ page \in [Pages -> [at : {"idle", "start", "begin", "status", "publish", "clear",
                               "upgraded", "stop"},
                         stored : {"none", "starting", "ready", "error"}]]

\* A browser that is shown as starting is being started, by the goroutine whose
\* outcome will be shown: a start is refused while one is shown, so that an entry
\* nobody will replace would lock the browser for good.
StartingIsUnderWay ==
  info = "starting" => current # NoStart /\ starting[current] # "none"

BrowserInvariant == BrowserTypeOK /\ StartingIsUnderWay

\* What is shown as starting settles.
StartSettles == info = "starting" ~> info # "starting"

\* A stack that nobody uses any more is stopped in the end: also one that a stop
\* overtook while it was starting, and one the server has forgotten in a restart.
BrowserReaped == <>[](~core \/ viewing)
====
