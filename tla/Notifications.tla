---- MODULE Notifications ----
\* From an event of a chat to the notification on a device.
\*
\* Presence: which chat a user has on screen.  A tab claims the chat in
\* focus and repeats the claim (pushPresenceStore.ts); its reports are
\* numbered, and travel as requests of their own that may be lost or
\* overtake each other.  The server keeps the newest report of each tab,
\* claims and withdrawals alike, for as many tabs as the cap allows, and a
\* claim for as long as the TTL (service/presence).  One user: no code
\* relates two.
\*
\* Push: which events are worth a notification and which is swallowed
\* (service/push_notifier.go), who is told
\* (chat_notification_audience.go), the deliveries that run in the
\* background (service/push), and the devices a user registered, kept in a
\* file per user (stores/filepush).  One chat: no code relates two.
EXTENDS Naturals, FiniteSets, FiniteSetsExt

CONSTANTS
  Tabs,             \* pages of this user's browsers
  Screens,          \* chats
  NoScreen,         \* what a withdrawal reports
  MaxClients,       \* maxClientsPerUser
  PresenceTTL,
  MaxReports,       \* bound on the reports of a tab
  MaxBeat,          \* bound on the clock
  MaxTransit,       \* bound on how long a request travels
  MaxPresenceFaults \* bound on lost requests and restarts

ASSUME PresenceAssumption == MaxClients \in Nat \ {0} /\ NoScreen \notin Screens

VARIABLES
  claimed,     \* tab -> the chat it claims
  revision,    \* tab -> the number of its last report
  posted,      \* reports under way: [tab, chat, rev, at]
  byClient,    \* the server's reports: tab -> [chat, rev, seenAt], for the tabs it knows
  beat,        \* the clock
  presenceFaults,
  \* What the properties compare with.
  heard,       \* tabs whose last report the server has received
  retired,     \* tabs whose report was evicted, or lost with the process
  lastHeld     \* chat -> when a tab last claimed it

presenceVars == <<claimed, revision, posted, byClient, beat, presenceFaults, heard, retired, lastHeld>>

Clients == DOMAIN byClient
NoClients == [t \in {} |-> 0]
Looked(chat, claims) == \E t \in Tabs : claims[t] = chat

----
\* The tab: claim, send and the heartbeat.

ReportPresence(t, chat) ==
  /\ revision[t] < MaxReports
  /\ revision' = [revision EXCEPT ![t] = @ + 1]
  /\ posted' = posted \cup {[tab |-> t, chat |-> chat, rev |-> revision[t] + 1, at |-> beat]}
  /\ heard' = heard \ {t}

\* Focus moves, another chat is opened, the page goes away: only a claim that
\* changes is reported.
Claim(t, chat) ==
  /\ chat # claimed[t]
  /\ claimed' = [claimed EXCEPT ![t] = chat]
  /\ lastHeld' = [c \in Screens |-> IF c \in {chat, claimed[t]} THEN beat ELSE lastHeld[c]]
  /\ ReportPresence(t, chat)
  /\ UNCHANGED <<byClient, beat, presenceFaults, retired>>

Heartbeat(t) ==
  /\ claimed[t] # NoScreen
  /\ ReportPresence(t, claimed[t])
  /\ UNCHANGED <<claimed, byClient, beat, presenceFaults, retired, lastHeld>>

\* A request that is not answered is not sent again.
LoseReport(p) ==
  /\ presenceFaults < MaxPresenceFaults
  /\ presenceFaults' = presenceFaults + 1
  /\ posted' = posted \ {p}
  /\ UNCHANGED <<claimed, revision, byClient, beat, heard, retired, lastHeld>>

----
\* The server.

IsLive(c) == c.chat # NoScreen /\ c.seenAt + PresenceTTL > beat

IsWatching(chat) == \E t \in Clients : byClient[t].chat = chat /\ IsLive(byClient[t])

\* evictOldest: the oldest report, of any of those as old.
Oldest == {t \in Clients : \A o \in Clients : byClient[t].seenAt <= byClient[o].seenAt}

\* A withdrawal that forgets the tab.
Newest_Slip(p) == p.tab \notin Clients \/ byClient[p.tab].chat = NoScreen \/ p.rev > byClient[p.tab].rev

\* A report counts if the tab has reported nothing newer.
Newest(p) == p.tab \notin Clients \/ p.rev > byClient[p.tab].rev

\* Record: userPresence.update under the lock.
Record(p) ==
  /\ posted' = posted \ {p}
  /\ heard' = IF p.rev = revision[p.tab] THEN heard \cup {p.tab} ELSE heard
  /\ IF ~Newest(p) THEN UNCHANGED <<byClient, retired>>
     ELSE LET full == p.tab \notin Clients /\ Cardinality(Clients) >= MaxClients
          IN \E old \in IF full THEN {{o} : o \in Oldest} ELSE {{}} :
               /\ byClient' = [t \in (Clients \ old) \cup {p.tab} |->
                                 IF t = p.tab THEN [chat |-> p.chat, rev |-> p.rev, seenAt |-> beat] ELSE byClient[t]]
               /\ retired' = IF p.rev = revision[p.tab] THEN (retired \cup old) \ {p.tab} ELSE retired \cup old
  /\ UNCHANGED <<claimed, revision, beat, presenceFaults, lastHeld>>

\* The state is in memory only.
RestartPresence ==
  /\ presenceFaults < MaxPresenceFaults
  /\ presenceFaults' = presenceFaults + 1
  /\ byClient' = NoClients
  /\ retired' = Tabs
  /\ UNCHANGED <<claimed, revision, posted, beat, heard, lastHeld>>

PassPresence ==
  /\ beat < MaxBeat
  /\ \A p \in posted : beat < p.at + MaxTransit
  /\ beat' = beat + 1
  /\ lastHeld' = [c \in Screens |-> IF Looked(c, claimed) THEN beat + 1 ELSE lastHeld[c]]
  /\ UNCHANGED <<claimed, revision, posted, byClient, presenceFaults, heard, retired>>

----
PresenceInit ==
  /\ claimed = [t \in Tabs |-> NoScreen]
  /\ revision = [t \in Tabs |-> 0]
  /\ posted = {} /\ byClient = NoClients /\ presenceFaults = 0
  /\ beat = 0
  /\ heard = {} /\ retired = {}
  /\ lastHeld = [c \in Screens |-> 0]

PresenceNext ==
  \/ \E t \in Tabs : Heartbeat(t) \/ \E c \in Screens \cup {NoScreen} : Claim(t, c)
  \/ \E p \in posted : LoseReport(p) \/ Record(p)
  \/ RestartPresence \/ PassPresence

PresenceSpec == PresenceInit /\ [][PresenceNext]_presenceVars

----
PresenceTypeOK ==
  /\ claimed \in [Tabs -> Screens \cup {NoScreen}] /\ revision \in [Tabs -> 0..MaxReports]
  /\ Clients \subseteq Tabs /\ Cardinality(Clients) <= MaxClients
  /\ \A t \in Clients : byClient[t].rev <= revision[t]
  /\ heard \subseteq Tabs /\ retired \subseteq Tabs

\* Once the last report of a tab has arrived the server holds what the tab
\* claims, in whatever order the reports arrived and whatever the other tabs
\* did: a delayed claim revives nothing (claims.go:15-17), unless the tab was
\* pushed out by the cap or the process restarted.
LastReportStands ==
  \A t \in heard \ retired : t \in Clients /\ byClient[t].chat = claimed[t]

\* A user is held back from notifications about a chat only for so long after
\* one of the tabs last had it on screen: a tab that vanishes without a word
\* silences the other devices no longer than the TTL and a request's travel.
SilenceEnds ==
  \A c \in Screens : IsWatching(c) => beat < lastHeld[c] + PresenceTTL + MaxTransit

PresenceInvariant == PresenceTypeOK /\ LastReportStands /\ SilenceEnds

----
\* Push: the notifications of one chat.

CONSTANTS
  People,          \* accounts that may be made
  Administrators,  \* those with the role
  Devices,         \* endpoints
  Owner,           \* device -> the one whose browser it is
  MaxDevices,      \* MaxSubscriptionsPerUser
  MaxBells,        \* bound on notifications
  MaxAppends,      \* bound on the events of the chat
  MaxPushRequests, \* bound on the requests of users
  MaxPushFaults,   \* bound on restarts, failing appends and deliveries cut short
  NoJob

ASSUME PushAssumption ==
  Administrators \subseteq People /\ Owner \in [Devices -> People] /\ MaxDevices \in Nat \ {0}

VARIABLES
  loose,       \* the chat is bound to no project
  accounts,    \* registered users
  invited,     \* the project's access list, which may name strangers
  watching,    \* users with the chat on screen, as presence.Filter finds them
  pushPhase,   \* the chat's run: "idle", "running", or "asked"
  parked,      \* the notifier's flag
  stored,      \* person -> the devices of the person's file
  enrolling,   \* device -> what a registration has read, or NoJob
  bells,       \* the deliveries under way
  dead,        \* endpoints the push service has retired
  tray,        \* device -> the kind of the notification on it
  nextBell, appendsMade, pushRequests, pushFaults,
  \* What the properties compare with.
  pushTold,    \* the kinds raised since the last prompt
  rough,       \* the run met an error that was not its end, or lost an event or the flag
  sentTo,      \* devices the question of this run was sent to
  mingled,     \* two deliveries were under way at once since the last prompt
  wanted,      \* devices that are registered, as their owners see it
  revived,     \* devices a delivery saved after their owner had removed them
  crowded      \* people who registered two devices at once

pushGhosts == <<pushTold, rough, sentTo, mingled, wanted, revived, crowded>>
chatVars == <<pushPhase, parked, appendsMade>>
deviceState == <<stored, enrolling, dead, tray>>
pushVars == <<loose, accounts, invited, watching, chatVars, deviceState, bells, nextBell,
              pushRequests, pushFaults, pushGhosts>>

Terminal == {"complete", "error"}

----
\* Who is told.

\* recipients: members who are registered, and administrators.
Audience_Slip == IF loose THEN accounts ELSE invited \cup Administrators

Audience == IF loose THEN accounts ELSE (invited \cap accounts) \cup (Administrators \cap accounts)

\* AccessService: who may read the chat.
MayRead(p) == p \in accounts /\ (loose \/ p \in Administrators \/ p \in invited)

\* ChatEvent past the parked check: NotifyAsync to those who are not watching.
Announce(kind) ==
  LET to == Audience \ watching
  IN IF to = {} THEN UNCHANGED <<bells, nextBell, mingled>>
     ELSE /\ nextBell <= MaxBells
          /\ bells' = bells \cup {[n |-> nextBell, kind |-> kind, todo |-> to, who |-> NoJob, devices |-> {}]}
          /\ nextBell' = nextBell + 1
          /\ mingled' = (mingled \/ bells # {})

----
\* The events of the chat, appended by its run one after the other.

\* trackParkedRun without the flag: the end of a run that asked is told.
Swallows_Slip(kind) == FALSE

\* Exactly one terminal event is swallowed while the flag stands.
Swallows(kind) == kind \in Terminal /\ parked

Appends(kind) ==
  /\ appendsMade < MaxAppends
  /\ appendsMade' = appendsMade + 1
  /\ parked' = (kind = "question" \/ (parked /\ ~Swallows(kind)))
  /\ IF Swallows(kind) THEN UNCHANGED <<bells, nextBell, mingled, pushTold>>
     ELSE Announce(kind) /\ pushTold' = pushTold \cup {kind}
  /\ UNCHANGED <<loose, accounts, invited, watching, deviceState, pushRequests, pushFaults, wanted, revived, crowded>>

\* A prompt: it answers a question that stands, and starts a run.
Prompts ==
  /\ pushPhase = "idle"
  /\ pushPhase' = "running"
  /\ appendsMade < MaxAppends
  /\ appendsMade' = appendsMade + 1
  /\ parked' = FALSE
  /\ pushTold' = {} /\ rough' = FALSE /\ sentTo' = {} /\ mingled' = (bells # {})
  /\ UNCHANGED <<loose, accounts, invited, watching, deviceState, bells, nextBell,
                 pushRequests, pushFaults, wanted, revived, crowded>>

\* The agent asks: the tool use is appended, and the run stops at it.
Asks ==
  /\ pushPhase = "running"
  /\ pushPhase' = "asked"
  /\ Appends("question")
  /\ UNCHANGED <<rough, sentTo>>

\* An error that the agent tries again after (app_server_events.go, "retrying").
Stumbles ==
  /\ pushPhase \in {"running", "asked"}
  /\ rough' = TRUE
  /\ Appends("error")
  /\ UNCHANGED <<pushPhase, sentTo>>

Ends(kind) ==
  /\ pushPhase \in {"running", "asked"}
  /\ pushPhase' = "idle"
  /\ Appends(kind)
  /\ UNCHANGED <<rough, sentTo>>

\* A run that was cancelled, or whose last event could not be appended: nothing
\* is told, and the flag stays.
EndsUnheard ==
  /\ pushPhase \in {"running", "asked"} /\ pushFaults < MaxPushFaults
  /\ pushFaults' = pushFaults + 1
  /\ pushPhase' = "idle"
  /\ rough' = TRUE
  /\ UNCHANGED <<loose, accounts, invited, watching, parked, appendsMade, deviceState, bells, nextBell,
                 pushRequests, pushTold, sentTo, mingled, wanted, revived, crowded>>

----
\* A delivery: person by person, and for each the devices as listed once.

ListDevices(b, p) ==
  /\ b.who = NoJob /\ p \in b.todo
  /\ bells' = (bells \ {b}) \cup
       (LET next == [b EXCEPT !.todo = @ \ {p}, !.who = p, !.devices = stored[p]]
        IN IF stored[p] # {} THEN {next}
           ELSE IF next.todo = {} THEN {} ELSE {[next EXCEPT !.who = NoJob]})
  /\ UNCHANGED <<loose, accounts, invited, watching, chatVars, deviceState, nextBell, pushRequests, pushFaults, pushGhosts>>

\* What is left of a delivery after a device.
After(b, d) ==
  LET left == [b EXCEPT !.devices = @ \ {d}]
  IN IF left.devices # {} THEN {left}
     ELSE IF left.todo = {} THEN {} ELSE {[left EXCEPT !.who = NoJob]}

\* OwnsSubscription.
Owned(p, d) == d \in stored[p]

\* Send, with the notification shown in place of the chat's earlier one.  The
\* service worker asks first whether the device is its account's.
SendBell(b, d) ==
  /\ b.who # NoJob /\ d \in b.devices /\ d \notin dead
  /\ bells' = (bells \ {b}) \cup {[b EXCEPT !.devices = (@ \ {d}) \cup {<<"sent", d>>}]}
  /\ tray' = IF Owned(b.who, d) THEN [tray EXCEPT ![d] = b.kind] ELSE tray
  /\ sentTo' = IF b.kind = "question" /\ Owned(b.who, d) THEN sentTo \cup {d} ELSE sentTo
  /\ UNCHANGED <<loose, accounts, invited, watching, chatVars, stored, enrolling, dead, nextBell,
                 pushRequests, pushFaults, pushTold, rough, mingled, wanted, revived, crowded>>

\* deliver: LastSentAt is saved with the subscription as it was listed.
SaveSent(b, d) ==
  /\ <<"sent", d>> \in b.devices
  /\ bells' = (bells \ {b}) \cup After([b EXCEPT !.devices = @ \ {<<"sent", d>>}], d)
  /\ stored' = [stored EXCEPT ![b.who] = @ \cup {d}]
  /\ revived' = IF d \in stored[b.who] THEN revived ELSE revived \cup {d}
  /\ UNCHANGED <<loose, accounts, invited, watching, chatVars, enrolling, dead, tray, nextBell,
                 pushRequests, pushFaults, pushTold, rough, sentTo, mingled, wanted, crowded>>

\* A retired endpoint that is kept.
Pruned_Slip(p, d) == stored

\* ErrGone: the subscription is deleted.
Pruned(p, d) == [stored EXCEPT ![p] = @ \ {d}]

SendGone(b, d) ==
  /\ b.who # NoJob /\ d \in b.devices \cap dead
  /\ bells' = (bells \ {b}) \cup After(b, d)
  /\ stored' = Pruned(b.who, d)
  /\ wanted' = wanted \ {d}
  /\ revived' = IF d \in Pruned(b.who, d)[b.who] THEN revived ELSE revived \ {d}
  /\ UNCHANGED <<loose, accounts, invited, watching, chatVars, enrolling, dead, tray, nextBell,
                 pushRequests, pushFaults, pushTold, rough, sentTo, mingled, crowded>>

\* Another answer, or deliveryTimeout: a log line, and the rest goes unsent.
CutShort(b) ==
  /\ pushFaults < MaxPushFaults
  /\ pushFaults' = pushFaults + 1
  /\ bells' = bells \ {b}
  /\ UNCHANGED <<loose, accounts, invited, watching, chatVars, deviceState, nextBell, pushRequests, pushGhosts>>

RetireEndpoint(d) ==
  /\ d \notin dead /\ pushFaults < MaxPushFaults
  /\ pushFaults' = pushFaults + 1
  /\ dead' = dead \cup {d}
  /\ tray' = [tray EXCEPT ![d] = "none"]
  /\ UNCHANGED <<loose, accounts, invited, watching, chatVars, stored, enrolling, bells, nextBell, pushRequests, pushGhosts>>

----
\* The requests of users: push_handler.go, and what else changes the reach.

PushRequest ==
  /\ pushRequests < MaxPushRequests
  /\ pushRequests' = pushRequests + 1
  /\ UNCHANGED <<loose, chatVars, dead, tray, bells, nextBell, pushFaults, pushTold, rough, sentTo, mingled>>

\* subscribe: the devices are listed, and the cap is checked against them.
SubscribeDevice(d) ==
  /\ Owner[d] \in accounts /\ enrolling[d] = NoJob /\ d \notin dead
  /\ d \in stored[Owner[d]] \/ Cardinality(stored[Owner[d]]) < MaxDevices
  /\ enrolling' = [enrolling EXCEPT ![d] = Owner[d]]
  /\ LET others == {o \in Devices : enrolling[o] = Owner[d]}
     IN crowded' = IF others # {} THEN crowded \cup {Owner[d]} ELSE crowded
  /\ PushRequest
  /\ UNCHANGED <<accounts, invited, watching, stored, wanted, revived>>

\* Save.
SaveDevice(d) ==
  /\ enrolling[d] # NoJob
  /\ enrolling' = [enrolling EXCEPT ![d] = NoJob]
  /\ stored' = [stored EXCEPT ![Owner[d]] = @ \cup {d}]
  /\ wanted' = wanted \cup {d}
  /\ revived' = IF Owner[d] \in accounts THEN revived \ {d} ELSE revived \cup {d}
  /\ UNCHANGED <<loose, accounts, invited, watching, chatVars, dead, tray, bells, nextBell,
                 pushRequests, pushFaults, pushTold, rough, sentTo, mingled, crowded>>

Unsubscribe(d) ==
  /\ Owner[d] \in accounts
  /\ stored' = [stored EXCEPT ![Owner[d]] = @ \ {d}]
  /\ wanted' = wanted \ {d}
  /\ revived' = revived \ {d}
  /\ PushRequest
  /\ UNCHANGED <<accounts, invited, watching, enrolling, crowded>>

\* The account goes first, and its clean-up takes the file (user_removal_cleanup.go).
RemovePerson(p) ==
  /\ p \in accounts
  /\ accounts' = accounts \ {p}
  /\ stored' = [stored EXCEPT ![p] = {}]
  /\ wanted' = {d \in wanted : Owner[d] # p}
  /\ revived' = {d \in revived : Owner[d] # p}
  /\ PushRequest
  /\ UNCHANGED <<invited, watching, enrolling, crowded>>

ChangeInvited(p) ==
  /\ invited' = IF p \in invited THEN invited \ {p} ELSE invited \cup {p}
  /\ PushRequest
  /\ UNCHANGED <<accounts, watching, stored, enrolling, wanted, revived, crowded>>

Watches(p) ==
  /\ p \in accounts
  /\ watching' = IF p \in watching THEN watching \ {p} ELSE watching \cup {p}
  /\ PushRequest
  /\ UNCHANGED <<accounts, invited, stored, enrolling, wanted, revived, crowded>>

\* The flag and the deliveries are in memory only; the run dies as well.
RestartPush ==
  /\ pushFaults < MaxPushFaults
  /\ pushFaults' = pushFaults + 1
  /\ parked' = FALSE /\ pushPhase' = "idle" /\ bells' = {}
  /\ enrolling' = [d \in Devices |-> NoJob]
  /\ rough' = TRUE
  /\ UNCHANGED <<loose, accounts, invited, watching, appendsMade, stored, dead, tray, nextBell, pushRequests,
                 pushTold, sentTo, mingled, wanted, revived, crowded>>

----
PushInit ==
  /\ loose \in BOOLEAN
  /\ accounts = People /\ invited = People /\ watching = {}
  /\ pushPhase = "idle" /\ parked = FALSE
  /\ stored = [p \in People |-> {}]
  /\ enrolling = [d \in Devices |-> NoJob]
  /\ bells = {} /\ dead = {}
  /\ tray = [d \in Devices |-> "none"]
  /\ nextBell = 1 /\ appendsMade = 0 /\ pushRequests = 0 /\ pushFaults = 0
  /\ pushTold = {} /\ rough = FALSE /\ sentTo = {} /\ mingled = FALSE
  /\ wanted = {} /\ revived = {} /\ crowded = {}

Delivering ==
  \E b \in bells :
    \/ \E p \in People : ListDevices(b, p)
    \/ \E d \in Devices : SendBell(b, d) \/ SaveSent(b, d) \/ SendGone(b, d)

PushNext ==
  \/ Prompts \/ Asks \/ Stumbles \/ EndsUnheard \/ \E k \in Terminal : Ends(k)
  \/ Delivering
  \/ \E b \in bells : CutShort(b)
  \/ \E d \in Devices : RetireEndpoint(d) \/ SubscribeDevice(d) \/ SaveDevice(d) \/ Unsubscribe(d)
  \/ \E p \in People : RemovePerson(p) \/ ChangeInvited(p) \/ Watches(p)
  \/ RestartPush

PushSpec == PushInit /\ [][PushNext]_pushVars

PushFairness == WF_pushVars(Delivering) /\ WF_pushVars(\E d \in Devices : SaveDevice(d))

----
PushTypeOK ==
  /\ accounts \subseteq People /\ invited \subseteq People /\ watching \subseteq People
  /\ pushPhase \in {"idle", "running", "asked"} /\ parked \in BOOLEAN
  /\ stored \in [People -> SUBSET Devices]
  /\ \A b \in bells : b.n < nextBell /\ b.todo \subseteq People
  /\ wanted \subseteq Devices /\ revived \subseteq Devices

\* A run that asked is announced by its question alone, and one that did not by
\* its end, whoever was told: the end of the run that follows a question is the
\* one that is swallowed (push_notifier.go:33-37), and no later one.
RunToldOnce ==
  (pushPhase = "idle" /\ ~rough /\ pushTold # {}) => Cardinality(pushTold) = 1

\* A question stays on every device it reached until it is answered, as long as
\* no two deliveries overlapped: those are not ordered, and share a tag.
QuestionStays ==
  (parked \/ "question" \in pushTold) =>
    \A d \in sentTo \ dead : rough \/ mingled \/ tray[d] \in {"question", "none"}

\* Who is told is who may read the chat (chat_notification_audience.go:20-22).
AudienceReads == Audience = {p \in People : MayRead(p)}

\* The files hold what their owners registered: a device that was removed, or
\* whose endpoint a delivery found retired, comes back only by a delivery or a
\* registration that had begun before.
DevicesAsRegistered ==
  \A p \in People : \A d \in stored[p] : Owner[d] = p /\ (d \in wanted \/ d \in revived)

\* The cap holds unless two devices of a user registered at once, or a delivery
\* brought one back.
CapHolds ==
  \A p \in People \ crowded : Cardinality(stored[p] \ revived) <= MaxDevices

PushInvariant ==
  PushTypeOK /\ RunToldOnce /\ QuestionStays /\ AudienceReads /\ DevicesAsRegistered /\ CapHolds

\* Every delivery ends.
DeliveriesEnd == []<>(bells = {})
====
