# remote.futrx: a verification project

remote.futrx is a self-hosted server (Go, `src/backend`) with a browser client
(TypeScript, `src/frontend`) in which people chat with coding agents, let them
work in project containers, and schedule prompts to run unattended. This
directory holds TLA+ models of the parts that are hard to get right and hard to
test, the TLC runs that check them on small instances, and proofs for every
value of the constants that TLAPS checks.

To check: `tlc -config <run>.cfg <module>` with the names of section 3, and
`tlapm SchedulerProofs.tla`, likewise for the other proof modules of section 4.

## 1. The system

| Component | State | Operations | Hard part |
| --- | --- | --- | --- |
| Scheduled-task engine (`service/schedule`) | the loop's timer and wake channel, `claimMu` | create, update, delete, run now, complete; loop pass; claim, dispatch, finish, requeue, recover | a claim made of three store calls, beside operations that take no lock; a crash between claim and finish |
| Task store (`stores/fileschedule`) | one document `tasks.json` | get, list, mutate | atomic replace that may fail |
| Cron parser (`service/schedule/cron.go`) | none | parse, next | the two day fields, jumps of the local clock |
| Schedule grants (`service/schedulecapability`, `schedule_handler.go`) | token registry | issue, verify, revoke; what an agent may ask | a grant that outlives its turn, a quota counted before the write |
| Run hub (`service/runhub`) | per chat: subscribers, run lock | start, finish, cancel, emit, subscribe | append and broadcast are two steps; bounded channels |
| Prompt service (`service/prompt`) | the goroutine of a run, pending interactions | start, run a turn, answer an interaction | result, last event and lock release have an order |
| Event log (`stores/filechat`, `service/chat`) | `events.jsonl`, page index, metadata | append, read after, page, rewind, fork | half-written lines, an index beside the file |
| Chat records (`service/chat`, `service/prompt`) | metadata of a chat, sessions of its agents | fork, rewind, switch of the agent | who remembers what, across runs that save late |
| Chat socket and browser tab (`chat_socket.go`, `useChat.ts`, projector, reconnecting socket) | cursor, view, batch, status, synced | load, dial, receive, flush, rewind | two update paths (at once, next frame); reconnects |
| Prompt queue (`usePromptQueue.ts`) | queue in sessionStorage, latch | type, dispatch, acknowledge, remove | lost acknowledgements, prompts sent again |
| Workspace hub and sidebar (`service/workspacehub`, `workspaceStore.ts`) | bounded subscriptions, the tab's store | publish, snapshot, dial again | nothing orders two publications; a membership changes without one |
| Codex app-server harness (`integration/agents/codexharness`) | one turn: requests, questions, items | run, interrupt, answer, drain | everything arrives in any order, the process dies anywhere |
| Capability cache (`service/agent/capability`) | a flight and a cache with two lifetimes | list, invalidate | leader that goes away, stale result after an invalidation |
| Sign-in (`service/agent/auth`) | device, code and key sessions; subscriptions | start, submit, cancel, save, clear | superseded processes that report late |
| CLIs, credentials, base image (`service/container/{cli,credentials,image}`, `service/agent/hostcli`) | what is installed, token files, image alias | ensure, push and pull, build | external commands that fail, are cut off, or cross |
| Projects: records (`service/project`, `stores/fileproject*`) | record, slug index, members, secrets, limits | create, rename, delete, ... | requests that are chains of steps over six stores |
| Projects: container (`service/container/lifecycle`) | LXD instance, mounts, run state | start, stop, upgrade, migrate, reconcile | a command that fails although it took effect; crashes |
| Browser in the container (`agent_browser.go`) | one entry per project | start, stop, status, reap | an entry that nobody will replace |
| Git history (`service/githistory`) | a repository | list, checkpoint, switch | commands beside people and agents who edit |
| Files, paths, uploads (`hostfs`, `workspacepath`, tus) | slots, temporary files, chips | list, search, archive, upload | limits, retries, removals |
| Accounts (`service/auth`, `service/user`) | second factor, sessions, ownership | sign in, enroll, claim, remove | chains of reads and writes that race |
| Settings (`service/usersettings`) | a file per user, tabs | patch | a read and a write without a lock |
| Presence and push (`service/presence`, `service/push`) | claims, devices, deliveries | report, notify, deliver | reports that overtake each other, dead endpoints |
| Usage (`service/usage`, `stores/fileusage`) | month files | record, rebuild, report | rebuild beside append; offsets as cursors |
| Self-update (`service/selfupdate`) | `run.json`, `done.json`, the binary | apply, status | the updater outlives the server that launched it |

**Interactions.** The scheduler starts runs through the prompt service, which
takes the chat's run lock in the hub; the run's events go through the hub to the
event log and then to every subscriber; the prompt goroutine reports the result
to the scheduler's `finish`, releases the lock and broadcasts a sync. Before a
run its container is ensured, its CLI installed, its login pushed; after it the
login is pulled, the usage recorded, the session saved, bells rung. A tab talks
to the socket handler, which subscribes it to the hub and calls the prompt
service. Deleting a chat or project, and a maintenance window, reach the
scheduler as deletions and as refusals of the executor. Where a component's code
relies on another only through such a call, the model of the one has the
outcomes of the other as a choice; where they share state (scheduler, run lock
and runs; hub, socket, tab and queue; record, log and sessions of a chat) they
are one state machine.

**What makes each part correct** is what the runs of section 3 check. The
hazards they answer to, with the line where each bites, are listed in
`PROJECT.json`.

## 2. The modules

State machines, each with its header, its mapping to the code by the lines
`PROJECT.json` names, and its own invariants:

| Module | Models |
| --- | --- |
| `ScheduleTask`, `Scheduler` | the record transformations; the engine: loop, clients, claim protocol, runs, crash and recovery |
| `RunHub`, `ChatStream` | one chat on the server; the hub with its sockets, tabs and prompt queues |
| `EventLog` | the log of a chat, its page index, half-written lines, edits from outside |
| `Conversations` | record, log and agents' sessions across forks, rewinds and switches |
| `WorkspaceFeed` | sidebar: publications, subscriptions, snapshots, the tab's store |
| `CapabilityCache` | discovery flights and the cache |
| `AgentSignIn`, `AgentKeys` | three ways to sign an agent in: by device and by code, with a key |
| `CodexTurn`, `CodexFeed` | one turn of codex: requests and ends; messages, cards and usage |
| `AgentClis`, `Credentials`, `ImageBuild` | what a run needs before it starts |
| `AgentBrowser`, `SelfUpdate` | browser in the container; the server's update |
| `UsageLedger`, `UsageReports` | writing and reading the ledger |
| `GitHistory`, `WorkspaceFiles`, `WorkspacePaths`, `FileBrowser`, `Uploads` | a workspace: history, files, paths, the tree in the browser, attachments |
| `ProjectRecords`, `ProjectContainer` | a project's records; its container |
| `AccountSecurity`, `Ownership`, `Preferences` | second factor, sessions and their removal; owner and users; settings |
| `ScheduleGrants`, `Cron` | who may change a task; occurrences |
| `Notifications` | what is on screen of whom; whom a bell reaches |

Abstract specifications, which the detailed ones are shown to implement:
`ChatLease` (a chat has one claim, a claim starts one run, a chat runs one
prompt; implemented by `Scheduler`) and `Transcript` (an append-only transcript
of which each viewer shows a growing beginning; implemented by `ChatStream`).

Compositions for TLC: `MCScheduler`, which gives the scheduler its tasks and
definitions; and `MCServices`, `MCRecords`, `MCPlatform`, `MCLive`, which put components that share no state side by side.
In those an initial state picks one component by `scene`, the others stay where
they are (`OffStage`), and `View` leaves out what does not move, so that a run
checks each component by itself, completely, and TLC starts once. `scene` is no
abstraction of the code: what the components share is stated above, and those
that share state are one module.

Proofs: `SchedulerProofs`, `SchedulerGuarantees`, `AgentProofs`,
`ServiceProofs`, `ChatProofs`, `RecordProofs`, `AccountProofs` (section 4).

Operators named `..._Slip` are deliberate mistakes (a dropped guard, an
off-by-one, a missing reset). No specification uses them: put in the place of the
operator they follow, each makes a property of a run fail, which shows that the
property would notice.

### Scheduler: state and actions

`tasks` is `tasks.json` and survives `Crash`; `wake` the one-slot channel; `lock`
is `claimMu`; `pc` and `job` say where each caller (the loop, or an HTTP handler)
is and what it carries on its stack; `todo`, `passAt`, `failed` are the locals of
a `RunDue` pass; `sleepUntil` is the timer; `hub` is the run lock of each chat;
`flight` holds the runs the executor accepted, through result and release.

`LoopList`, `LoopVisit`, `LoopDelay`, `LoopWoken`, `LoopTimer` are the loop;
`ClaimGet`, `ClaimScan`, `ClaimCommit` are the three repository calls of `claim`
under `claimMu`, with the record transformation of the commit applied to the
record as it is *then*, like the callback does; `Dispatch` is `startClaim` up to
the executor's answer and `Settle` what it does with a refusal; `RunEnds`,
`Finish`, `HubRelease` are the goroutines of a run, `Finish` and `HubRelease` in
either order; `CreateCheck`/`CreateCommit`, `Update`, `Delete`, `Complete`,
`CompleteClaim`, `RunNow` the client operations; `Crash`, `Recover`, `Start` the
process. Fields that nothing decides on (title, prompt, stamps, error texts) are
left out. Cron is abstracted to a period whose multiples are the occurrences.
Graceful `Close` is left out: the server never calls it.

### ChatStream: state and actions

On the server: `log`, `turn` (how far the run is; `"none"` is a free room),
`hand` (an event appended and not yet broadcast, the gap in `Emit`), and per tab
`sub`, `pipe`, `cap` (the subscription, what it and the wire hold, and its
capacity `len(replay) + LiveBuffer`). In a tab: `link`, `since` (the cursor in
the dialled URL), `cursor` (`lastSeqRef`, moved at a flush only), `view`,
`batch` (waits for an animation frame), `status`, `synced`, `queue`. Between
them: `uplink` (prompts sent; they may be read by the handler of a connection
the tab has already given up), `verdict` (decided, not yet acknowledged) and
`rewind`.

`Load`, `Dial`, `Open`, `ConnLost`, `Reload` are the connection; `Receive` is
`onEvent` (a sync and an acknowledgement at once, an event into the batch);
`Flush` is `flushPendingEvents`; `Type`, `Remove`, `Dispatch`, `SendDirect` the
composer and queue; `AcceptPrompt`, `RejectPrompt`, `Acknowledge` the handler;
`RewindAsk`..`RewindApply` the five separate moments of a rewind; `RunStep` the
run's emissions, `RefuseRun` the errors only the asker hears, `Crash` the
server. The dispatch latch has no variable: sending sets the status to
streaming, and the effect at `usePromptQueue.ts:59-63` then frees it.

The view holds whole events; paging of older history, compaction of pages and
the blocks built from events are abstracted. Event times are taken to grow
with their ids, so a rewind keeps a prefix. Not in the model: events whose
append fails, a failing first load (the tab then shows an error and opens no
socket), interactive answers, cancel (which only asks the provider to end its
turn), and a reload in the middle of the same tab's rewind.


### The other machines

The same conventions throughout: a caller (a request, a goroutine, a tab) has a
program counter and the locals it carries from one step to the next; a step ends
where the code gives up a lock, waits, or makes a call that may fail; what lies
on disk survives a `Crash`, what lies in memory does not. A command of another
program (lxc, git, npm, an agent's CLI) takes effect or not, and returns an error
or not, independently where the code cannot tell. The header of each module says
what it abstracts. Counters that the code leaves unbounded (runs, faults, edits,
instants) have a bound each, named `Max...` and compared in the guard of the
action that counts.

## 3. The runs

| Run | Checks | Instance |
| --- | --- | --- |
| `SchedulerClaims` (`MCScheduler`) | `OneClaimPerChat`, `RunHoldsClaim`, `RunsMatchClaims`, `ClaimInvariant`, refinement of `ChatLease` | 2 tasks of one chat, 1 client beside the loop, 3 run ids, 2 of {run now, update, delete, prompt, crash, complete by the run} |
| `SchedulerLimits` (`MCScheduler`) | `TypeOK`, `LimitsRespected`, `NoSpin` | 2 chats, cap 1, floor 2, bounds of 1 and 2 runs, writes may fail, 4 instants |
| `SchedulerStarts` (`MCScheduler`) | `StartsOnlyWhenDue`, `OccurrenceKept`, `DeadlineNotOverslept` | periods 1 and 3, 2 instants, 1 of {create, create by an agent, update, delete, complete, run now, maintenance}, every authorization answer |
| `SchedulerLive` (`MCScheduler`) | `QueueNotStranded`, `QueuedRunStarts`, `ClaimsSettle` | fairness; an update or a crash, no manual runs |
| `ChatSafety` (`ChatStream`) | `ChatInvariant`, `RunShown`, `PromptsKeptInOrder` | 1 tab, 2 prompts, 2 runs, channel of 2, any one of 8 faults |
| `ChatLive` (`ChatStream`) | `QuietIsCurrent`, refinement of `Transcript` with its liveness, `PromptRuns` | fairness; 1 tab, 1 prompt, 2 runs with provider output; a lost connection or a reload |
| `Services` (`MCServices`) | `SignInInvariant`, `TurnInvariant`, `DiscoveryShared`, `LedgerAddsUp`, `HostInvariant`, `ProvisionInvariant`, `HistoryKept`, `NothingUndone` | 13 components around the agents |
| `ServicesLive` (`MCLive`) | `ServicesAnswer`, `NewsArrives` | fairness; 9 components that take something up and finish it later |
| `Records` (`MCRecords`) | `AccountsInvariant`, `ProjectsWhole`, `GrantsObeyed`, `FilesShown`, `ChatsShown`, `ReportsAddUp` | 10 components, what is stored and what is shown of it |
| `Platform` (`MCPlatform`) | `LogExact`, `ContainerKept`, `RequestsMeant`, `BellsInvariant` | 7 components under every chat and project |
| `FindingStuck`, `FindingLaunch` | one property each, violated | section 5 |

What the properties of the four composed runs say, component by component:

- **Sign-in.** One login is wanted at a time and its cancel ends it; a tab whose
  subscription has delivered everything shows the current login (device); no
  process is left that no request can reach (code); runs use the key in the file,
  and one the provider has accepted; a tab shows whether there is one (keys).
- **Turn.** At its end everything a turn told of is settled; only its own end is
  told as such; a process gets one answer per request, and only to what it asked;
  each message is in the text once, a card has what its thread last reported, and
  the run is charged its own usage. `NothingUndone`: nothing follows the end.
- **Discovery.** One request discovers, and nobody waits for a flight that is
  gone. `NothingUndone`: a catalogue is not replaced by one of an older edition.
- **Ledger.** A run recorded while nothing interfered is counted once, for its
  user. `NothingUndone`: an undisturbed rebuild repairs the ledger.
- **Host.** The update shown is the one launched, its outcome its own, and a
  success leaves the host converged; a browser shown as starting is being started.
- **Provision.** A run has its CLI, its login is accepted and the newest, and an
  image that is published has every layer.
- **History.** Switching loses no content, checkpoints are whole, the branch stays.
- **Accounts.** Codes are spent once, the sign-in history and its alert are exact;
  what the server believes of its owner is what is stored; a removed user keeps no
  access and no push subscription, and the deleted second factor and sessions stay
  deleted but in the stores whose record a cache or a request still held.
- **Projects, grants.** Index, workspace, secrets, limits and members of a project
  agree and a deleted one leaves nothing (that a route asks for membership,
  `project_handler.go:167-177`, is not modelled); an agent's task is on the clock only
  after a user armed it, and a grant ends with its turn.
- **Files, chats, reports.** Files land whole and are where prompts name them;
  listings, searches and archives say what they left out; the tree shows nothing
  older than its reset. Agents' sessions are neither shared nor do they know what
  was rewound; when all is sent, the sidebar has shown what is stored of what the
  viewer may see, and its socket lets no chat of a project through that a write told
  it the viewer is out of (not: as soon as the viewer is out, section 5). Totals add up.
- **Log, container.** A read answers what a scan of the file answers, what was
  acknowledged stays, pages tile the log. A container's files survive every
  launch, migration and crash, and a reported success is one.
- **Requests, bells.** Settings keep the last choice, `Next` visits exactly the
  minutes an expression means, links stay inside their workspace. A run is
  announced once, to those who may read the chat, and a tab that vanished
  silences nobody for longer than the TTL.

Many of them have a condition ("unless two requests overlap"). The condition is
what the code leaves open, stated as narrowly as it could be; section 5 lists the
properties without it, which fail.

**Bounds.** They are in the `.cfg` files. They are enough for the cases that
matter: two tasks of one chat is the least that can conflict on a claim, and a
third run id allows a run after both; two chats and a cap of one is the least
that can exceed it; a floor of two instants within four lets a start fall before,
on and after the boundary; periods of one and three within two instants let a
deadline be ahead of, at and behind the loop. In the chat, two runs let the events
and syncs of one meet those of the next, two prompts can be swapped, and with a
channel of two both an overflowing subscription and a dropped acknowledgement
occur. Tabs only meet through the room, so one tab beside runs started elsewhere
is enough, except for rewinds (section 5). In the composed runs there are two of
whatever may race (requests, tabs, containers, builds, logins), a third where one
must wait for the other two (requests of the capability cache, uses of a
container), buffers of one or two so that they overflow, limits of one to three so
that they are met, and one or two faults at any place. An account has three of
requests, removals and events (a failing call, a restart, a step of the clock), two of
a kind at most, and invitations: enough for the cookie or challenge of before, the
removal beneath what it holds, and what comes after.
Removals that overlap are in `Ownership`.
Symmetry is used for run ids, prompts, requests and tabs in safety runs only.

Deadlock is checked in the scheduler (`Quiescent` is its explicit end, when the
bounds are used up). The other runs switch it off: with no faults and no requests
left, people may simply go home.

**Fairness.** No fairness is assumed of people, of faults or of the clock.

- Scheduler: `LoopStep`, `ClaimStep`, `CreateCommit`, `Finish`, `HubRelease`,
  `Recover`, `Start`: goroutines that wait for nothing but `claimMu` and the
  store, and a process that is started again. `RunEnds`, `UserDone`: a turn ends.
- Chat: the server's goroutines (`RunStep`, `AcceptPrompt`, `Acknowledge`), the
  tab's timers, frames and effects (`Load`, `Dial`, `Open`, `Receive`, `Flush`,
  `Dispatch`), and the detection of a dead connection (ping and write deadlines).
- Services: the goroutines of a request or a background task, and external
  processes where the code waits for them without a timeout of its own: a CLI that
  is told to end exits and is reaped, the app-server replies to `initialize`,
  `thread` and `turn` requests, the updater's script succeeds, fails or is killed,
  the tus client retries. Codex' interrupt and drain timeouts are the code's.
- Strong fairness only for the browser's reaper (`ReapLooks`, `ReapStops`): it
  looks again every minute, and what keeps it from stopping an idle browser is a
  request that comes and goes.

## 4. What is proved

`tlapm` checks, for all values of the constants that satisfy the `ASSUME`s of the
modules (any number of tasks, chats, clients, requests, tabs, containers; any
limits and buffers; failing writes or not). The assumptions say that markers such
as `NoRun` or `Unlocked` are none of the things they mark the absence of, that
bounds are natural numbers, that buffers, lifetimes, chunks, slots and page sizes are
not zero, that what `Ownership` keeps under an email is access or subscriptions, and that the set of tasks is finite (a store is a file).

| Theorem | Module | Statement |
| --- | --- | --- |
| `TypeCorrect` | `SchedulerProofs` | `Spec => []TypeOK` |
| `ClaimProtocol` | `SchedulerProofs` | `Spec => []ClaimInvariant` |
| `ChatExclusion` | `SchedulerProofs` | `Spec => []OneClaimPerChat` |
| `RunsAreClaimed` | `SchedulerProofs` | `Spec => []RunHoldsClaim` |
| `UnforcedStartsAreDue` | `SchedulerProofs` | `Spec => StartsOnlyWhenDue` |
| `OneRun` | `SchedulerGuarantees` | `Spec => []OneRunPerChat` |
| `RunsAndClaims` | `SchedulerGuarantees` | `WritesFail = FALSE => (Spec => []RunsMatchClaims)` |
| `LimitsKept` | `SchedulerGuarantees` | `Spec => LimitsRespected` |
| `LeaseImplemented` | `SchedulerGuarantees` | `Spec => ImplementsLease` (refinement) |
| `DeadlinesMet` | `SchedulerGuarantees` | `Spec => []DeadlineNotOverslept` |
| `OccurrencesKept` | `SchedulerGuarantees` | `WritesFail = FALSE => (Spec => OccurrenceKept)` |
| `QueueServed` | `SchedulerGuarantees` | `WritesFail = FALSE /\ "runNow" \notin Ops => (Spec => []QueueNotStranded)` |
| `NeverSpins` | `SchedulerGuarantees` | `"runNow" \notin Ops => (Spec => NoSpin)` |
| `CacheKept`, `CacheOnlyAdvances` | `AgentProofs` | `CacheInvariant`; `CacheAdvances` |
| `DeviceKept`, `CodeKept`, `KeysSafe` | `AgentProofs` | `DeviceInvariant /\ FeedCurrent`; `CodeInvariant`; `KeyInvariant` |
| `ItemsKept`, `TurnSettled`, `EndIsLast` | `AgentProofs` | `ItemsInvariant`; `CodexInvariant`; `TerminalIsLast` |
| `UpdateSafe`, `BrowserSafe` | `ServiceProofs` | `UpdateInvariant`; `BrowserInvariant` |
| `ClisKept`, `CredKept`, `BuildKept` | `ServiceProofs` | `ClisInvariant`; `CredInvariant`; `BuildInvariant` |
| `LedgerKept`, `RepairsAll` | `ServiceProofs` | `LedgerInvariant`; `RebuildRepairs` |
| `GitKept` | `ServiceProofs` | `GitInvariant` |
| `StructureAlways` | `ChatProofs` | `Spec => []Structure` (types, numbering of the log, connections) |
| `PromptsAlwaysKeptInOrder` | `ChatProofs` | `Spec => []PromptsKeptInOrder` |
| `ChatIsWellFormed`, `RunAlwaysShown` | `ChatProofs` | `Spec => []ChatInvariant`; `Spec => []RunShown` |
| `TabsKeepTheTranscript` | `ChatProofs` | without rewinds, the safety half of `ImplementsTranscript` |
| `NothingIsMissed` | `ChatProofs` | without rewinds, `Spec => []NothingMissed` |
| `QuietTabsAreCurrent` | `ChatProofs` | `MildFaults => (Spec => []QuietIsCurrent)` |
| `GrantsKept` | `RecordProofs` | `Spec => []GrantsObeyed`, of the composition `MCRecords` |
| `ProjectsKept`, `FilesAreShown` | `RecordProofs` | `Spec => []ProjectsWhole`; `Spec => []FilesShown`, of the same |
| `AccountsKept` | `AccountProofs` | `Spec => []AccountsInvariant`, of the same |
| `SignInKept`, `DiscoveryKept`, `TurnKept`, `HostKept`, `ProvisionKept`, `LedgerSound`, `HistorySafe`, `NothingIsUndone` | `ServiceProofs` | the eight properties of run `Services`, of the composition `MCServices` |

So every safety property of the scheduler and of the chat, everything run
`Services` checks, and what run `Records` checks of accounts, projects, grants and
files holds for every value of the constants, under the conditions the table names.

**The scheduler's claims.** `OneClaimPerChat` alone is not inductive: a commit
writes what a scan found some steps earlier. `ClaimInvariant` adds why the finding
is still true: only the holder of `claimMu` is between scan and commit
(`LockHeld`), so no other caller can add a claim, and everything else only takes
claims away (`StartPlanned`); a run id has one owner at a time (`RunIdsUnique`),
the caller that drew it until its flight has it (`GrantHeld`, `RunHoldsClaim`), so
a late `finish` meets its own claim or none; ids of deleted tasks are not minted
again (`FlightHeld`, `CreationsDistinct`, `GoneIsIdle`). `StartsOnlyWhenDue`
follows because `Claimable` is evaluated inside the commit's callback on the
record it overwrites, with a clock that is not ahead of the present
(`ClockSane`). The first part of `SchedulerProofs` has the facts about single
records: every transformation keeps the type and, as the case may be, keeps, gives
up or sets the claim.

**The scheduler's guarantees.** `LimitsKept` adds `PlanSound`: what a caller
between two calls of `claim` has seen of the cap is an upper bound of what is
there at the commit, because under `claimMu` the number of claims only falls; the
floor is compared with the record at the commit (it is only there when
`MinInterval > 0`). `RunsAndClaims` needs writes that succeed: when the write that
settles a run fails, its claim stays, with nobody to settle it, until the process
starts again, and only then `Recover` frees it. `LeaseImplemented` maps the claim
of a chat, the runs granted and the room to `ChatLease` and takes every action to
a step of it or to a stutter. `DeadlinesMet` adds `RecordsTimely` (no instant a
record was armed or started at is ahead of the clock, so that each next occurrence
is one the loop saw or a token was left for) and `ClientsForce` (only a client's
request is forced).

`OccurrencesKept` follows the debt through a step: every rewrite of a record that
stays armed and `queue_one` keeps what the record waits for (`KeepsWaiting`), and a
caller that took the occurrence out of the record owes it until its dispatch is
accepted or `Settle` has queued it again (`Debtor`). Writes must succeed: a
`Settle` whose write fails leaves a claim that waits for nobody.

`QueueServed` and `NeverSpins` are about what the loop has in hand. `LoopAims` says
what its claim found out and what is still true of it: above all, when the loop saw
that there is no room, a claim is left or a token (`Somebody`). `QueueKept`: an
occurrence that is queued without a retry time has `Somebody`, or the loop is about
to list the tasks, or has the task ahead of it in this pass (`Ahead`). `PassKept`:
in a pass that has not failed and that takes no time, each task whose deadline is
over is ahead. Manual runs are excluded (`NobodyForces`) because with them both
properties are false (section 5); failing writes are excluded from `QueueServed`
for the same reason, and `NeverSpins` holds with them.

**The agents' services.** Each has an inductive invariant that names what its
safety rests on:

- cache: the leader that stores holds no older edition than the cache
  (`CacheOrdered`), since the flight that leads was started after it;
- device login: processes are started in order and no start is owed two
  broadcasts (`StartsInOrder`); code login and base image: the invariants the run
  checks are inductive with the types;
- keys: the request that holds `mutationMu` knows what it validated
  (`MutationSound`), and the last message a tab will get is the present status
  (`StreamSound`);
- items: parser and chat agree of every message (`TextSound`), tracker and card of
  every thread (`CardSound`);
- turn: what is in the pipe (`PipeSound`), asked and answered (`AskedSound`), shown
  as pending (`CardsSound`), ended (`EndSound`) and told of subagents
  (`ActivitySound`);
- update: the record is that of the updater that lives (`RecordTrue`,
  `OneUpdater`) and what it converged the host to (`HostConvergent`);
- CLIs: what each ensurer pinned and waits for, and one npm at a time unless two
  crossed (`EnsuresPinned`, `OneNpm`); credentials: who owes the host its token
  (`OneBox`, `HostOwed`, `KeptIsGood`); image: which build a stage belongs to
  (`CrossingKnown`, `BuildsOwn`);
- ledger: runs not yet ended have no line (`Unended`), each line counted once
  (`Counted`), what is in a log can be derived again (`Rederivable`), and what an
  undisturbed rebuild has done so far (`CalmSound`);
- git: what a switch has recorded (`SwitchSound`), where the last content of each
  file is (`Saved`), and that a commit's history is made of earlier ones
  (`LinesSound`).

The composition follows, since only one component moves and the others stay in
their initial states.

**The chat stream.** What `ChatInvariant`, `RunShown` and `QuietIsCurrent` say of a
tab at rest depends on everything that is on the way to it. Four invariants, each
proved on top of those before it, for any number of tabs, prompts, runs and
faults and any capacity:

- `Structure`: types, the numbers of the log are 1, 2, 3, ... also after
  `TruncateEventsBefore`, its ids grow, and only a socket that is up has a
  subscription. This needs no condition.
- `QueueSound` (no condition): what waits in a tab's queue and on its uplink is in
  the order it was typed, a prompt that is sent has everything typed before it
  started or dropped (`SentInOrder`), and an acknowledgement that accepts tells the
  truth (`AcksTrue`); so a lost acknowledgement or a reload makes a prompt run twice
  at worst, and overtakes nothing.
- `StreamSound` (as long as no rewind has cut the log; afterwards numbers repeat,
  section 5): the view is a beginning of the log as long as the cursor; whatever
  lies between the cursor and an event in the batch or on the wire comes before
  that event (`BatchSound`, `PipeSound`); and whatever a live subscription was sent
  and the tab does not show is on the way (`Covered`), but for the event in `hand`,
  which `Emit` has appended and not yet broadcast. A subscription that overflowed is
  no longer live, so that the tab dials again from its cursor (`DialsBehind`).
  `RunKnown` says the same of the last sync.
- `MildSound` (losses and reloads only): an event that ends no turn is followed by
  one that does, in the batch or on the wire (`EndsFinally`), so that the last sync
  opens the composer; a crash breaks exactly this (`FindingStuck`).

`TabsKeepTheTranscript` maps each step to a step of `Transcript` or to a stutter;
that transcripts are read in the end stays with TLC. `Without`,
`ReadEventsAfter` and `TruncateEventsBefore` are stated by positions
(`SubSeq`), since `SelectSeq` is a recursion about which the prover
can show nothing.

**The records.** Requests over records read, compute and write in separate steps,
so what a run checks at rest has to be said of every step in between:

- grants (`GrantsSound`): what a request between its authorisation and its write
  was allowed (`CallsSound`), who completed a task and in which turn
  (`CompletionsTyped`), and that a creation has counted what is there unless two
  crossed (`QuotaSound`);
- projects (`RecordsSound`): each request is at a stage of its own operation, on the
  slug of its project (`StageSound`, `RequestSound`); who starts, upgrades or deletes
  does so alone, and a deletion holds the slug to the end (`LockSound`), so that the
  index never leads to a project that is gone (`IndexSound`) and a slug that is free
  has nothing under it (`SpaceSound`). For each project and each copy of a secret or
  limit (`FileSound`, `EnvSound`, `LimitSound`), as long as nothing excuses it: one
  writer at most is between its steps, before its last step it carries what the
  record holds, and without one the copies agree. `MemberSound` and `LeftSound` do
  the same for the last member and for what a deletion leaves; ids not yet given
  out are clean (`FreshSound`). A step that overlaps another or fails adds the
  excuse the code's comments concede; a restart excuses what it cuts short.
- uploads (`UploadsSound`): what the client believes to be stored is stored or on its
  way, whatever was dropped and sent again, and a batch holds Send (`BatchesSound`);
  files (`FilesSound`): what a scan, a walk or an archive has read so far, and one
  slot and one temporary file for each archive (`SpoolSound`); the tree
  (`TreeSound`): an answer that will still be used was read after the last reset
  (`AnswersSinceReset`), and only the last query is searched for (`SearchSound`);
- accounts (`SecuritySound`, in `AccountProofs`): in each phase of a request, what it
  holds, what file and cache of its store are, and what its decision was made from
  (`Decided`), so that what it writes is a change of what is stored, a code that was
  accepted is in no record any more, and history and alert follow the sign-ins. This
  needs that no cache was filled with a replaced record (`overtaken`, section 5). A
  removal deletes the file under all this: the invariant speaks of the record in use
  (`InUse`) where the file is gone (`orphaned`), and `RemovalSound` says that of a
  removed user only the stores in `leftover` have anything to save or to keep;
- ownership (`OwnershipSound`): which part of a claim the one request in the mutex has
  done (`ClaimSound`), that an administrator whom nobody is taking away remains as
  long as no two counts crossed (`AdminsSound`), and what a removal has cleaned so
  far (`CleanSound`).

The attempt to prove `TokenSpentOnce` found that it had been stated too strongly.
After a roll-back that failed, an invited member is left without an administrator;
if then marking the token as used fails, and rotating it at the next start fails
too, the operator's starting over twice lets the same token open two claims
(`auth/setup_token.go:166-167`). TLC finds it with one owner, one email, five calls,
five faults and two restarts, more than run `Records` has. The property now excuses
what `halfway` and `countsCrossed` record, and is proved so.

**Only model-checked**, and why:

- everything under fairness (`SchedulerLive`, `ChatLive`, `ServicesLive`): liveness
  and `ENABLED` are out of the prover's reach;
- `ChatsShown` and `ReportsAddUp` of run `Records`, and all that run `Platform`
  checks (`LogExact`, `ContainerKept`, `RequestsMeant`, `BellsInvariant`). `Cron`,
  `WorkspacePaths`, `EventLog` and `UsageReports` use recursion over data, about
  which nothing can be proved by induction here; the inductive invariants of
  `Conversations`, `WorkspaceFeed`, `ProjectContainer`, `Notifications` and
  `Preferences` are not written (section 6).

## 5. Where code and documents part

Shown by a run:

- `FindingStuck`: a tab that reconnects after a crash in mid-turn applies the
  replay after the sync that follows it, and shows a run that is gone
  (`useChat.ts:160`).
- `FindingLaunch`: `Create` launches without the project's run-state lock; the
  launch that loses the race to make the instance removes the one in which the
  other's agent is at work (`project/service.go:155`).

### Properties the code does not have

Each is a definition of the module named, with TLC's counterexample a short one:
put it in the place of the properties of that module's run. Most of them are the
unconditional form of a property a run checks.

| Property | Module | What happens |
| --- | --- | --- |
| `RetryNotOverslept` | `Scheduler` | `RunDue` and `delayUntilNext` read the clock separately: a retry that falls due in between is in neither |
| `QueueNotStranded`, `NoSpin` under `runNow` | `Scheduler` | a manual run queues a follow-up and does not wake the loop; a run queued by force keeps its task's passed deadline, and the loop goes round with a delay of zero |
| `NothingMissed` with a rewind and two tabs | `ChatStream` | numbers repeat after a rewind; another tab takes new events for ones it has |
| `SeqsMonotonic`, `RewindSparesRun` | `EventLog` | the next number is that of the last line, which a rewind or an edit lowers; a run may start between the check and the rewind |
| `ParentNeverMutated` | `Conversations` | two chats whose agent was changed meanwhile may come to work in one session |
| `CacheNeverOvertaken`, `PreferencesMerged` | `AccountSecurity` | a read that misses fills the cache with a record that was replaced since; two changes of preferences undo each other |
| `RemovalLeavesNothing` | `AccountSecurity` | the cleanup of a removed user deletes the two-factor and session files, "discarded wholesale with the account" (`user_removal_cleanup.go:20-24`, 59-68), beneath live caches; a sign-out with the old cookie, for which nobody looks at the directory (`session_registry.go:178-203`), or an answer to a pending challenge saves the cached record again, and the same address invited later has it |
| `SecondFactorAsked` | `AccountSecurity` | a record that cannot be read is taken for none: the sign-in goes on without the second factor (`twofactor.go:97-103`), a superseded cookie is let in (`session_registry.go:164-168`) |
| `HidesTheProject` | `WorkspaceFeed` | `RemoveAccess` publishes nothing: a socket that is open goes on sending the project's chats to a removed member until a write of the project is published, and what was shown stays |
| `CountsNeverCross`, `NothingHeldByStrangers`, `LocalAdminListed`, `ConfigsNeverCross` | `Ownership` | chains of store calls of two requests overlap |
| `LastMemberStays` | `ProjectRecords` | two removals each saw two members |
| `QuotaAlways`, `RunKeepsItsGrant` | `ScheduleGrants` | `Update` does not count and `Create` counts before it writes; a run longer than the grant's TTL loses its tool |
| `LoginUndisturbed` | `AgentSignIn` | a process that was superseded ends late and cancels its successor |
| `SingleFlight` | `SelfUpdate` | a run whose record could not be written does not keep the next from launching |
| `CountedOnce` | `UsageLedger` | a rebuild that falls between the event of a run and its record counts the run, and the record counts it again |
| `AnswerSparesRun`, `AnswerReachesItsRequest` | `CodexTurn` | an answer to an unknown id ends the run; ids start again with every process |
| `TextIsFinal`, `CallsSettled` | `CodexFeed` | a message written anew follows what was streamed of it; `Finalize` leaves the calls of a card running |
| `RunAlwaysHasItsCli`, `NewerKept` | `AgentClis` | two prompts look before either installs; the host takes a newer tool back to its pin |
| `HostAlwaysSignedIn` | `Credentials` | of runs in two containers the one that ends last puts its token on the host |
| `ImageAlwaysWhole`, `ImageStays` | `ImageBuild` | two builds share a container; with `-overwrite` there is no image until the build succeeds |
| `CheckpointsListed` | `GitHistory` | a checkpoint made on a detached HEAD is in no listing |
| `SendReopens` (liveness) | `Uploads` | an upload that is removed never resolves; Send stays closed until a later batch is over |
| `SearchExact` | `WorkspaceFiles` | the walk says it was cut short on the last match when that one reaches the limit |

`SuccessConverged` of `SelfUpdate` excuses two cases for the same reason: the
script decides between "application only" and "converge the host" by the record
of the attempt before, so that an attempt toward another release, or one whose
record was lost, may leave work undone that the next does not see.

Met while modelling, without a definition of its own:

- a rejected `queue_one` run gets its count back but keeps `lastRunAt`, so with
  an interval floor its retry comes a floor later, not 15 seconds
  (`schedule/service.go:561`, `docs/02-workspaces/06-scheduled-tasks.md:82`);
- a manual run of a paused `skip` task on a busy chat sets the task active
  (`service.go:706-707`; the document's line 150);
- a task its agent completes during the run loses the completed status when the
  process dies before `finish` (`service.go:1162`);
- a pass that lists late may stamp `lastAt` earlier than a forced start's, which
  fell into it;
- `Update` re-arms terminal tasks past the per-project quota, and two creations
  may pass the check together (`service.go:285-310`; the document's line 231);
- a run's result is delivered before its lock is released, so a follow-up may
  be rejected as busy although no user prompt runs (`prompt/service.go:206-226`);
- a manual run of an armed `once` task clears its future deadline when it ends
  (`service.go:814`, against the comment at 384-385);
- when the write of a wake-driven queued run fails, the back-off applies only if
  the next deadline is nearer, so the run waits for that deadline; hence
  `QueueNotStranded` is checked with writes that succeed;
- a prompt whose run ends before its acknowledgement is sent again and may run
  twice (`usePromptQueue.ts:59-63`; the comment at 37-39 accepts a re-send);
- two patches of a user's settings at once lose one (`usersettings/service.go:69-94`);
- in a cron field `*/n` is no wildcard for the rule of the two day fields; an hour
  the clock repeats fires twice, one it skips not at all (`schedule/cron.go`);
- pages of usage that overlap a new record repeat rows (`useUsageDrillDown.ts:36-47`),
  the row "No project" leads to every project's runs (`UsageTables.tsx:32-34`), and
  a window longer than the chart loses its newest days.

## 6. What is left

Not modelled: HTTP decoding and error mapping, front-end rendering, the profiles
and networks of a container's launch, the adapters and parsers of the other
agents, skills, tmux and server information. They are text formats, external
commands and rendering, with no protocol of their own between concurrent actors;
what other code relies on of them appears as a choice of outcomes. Partly
modelled components say in `PROJECT.json` what is left out of them.

Next: the inductive invariants of the components without recursion that are only
model-checked, `Notifications`, `Preferences` and `ProjectContainer` first, then
`Conversations` and `WorkspaceFeed`.
