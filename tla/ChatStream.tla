---- MODULE ChatStream ----
\* A chat as the people in front of it see it: the run hub of module
\* RunHub, the socket handler (transport/ws/chat_socket.go), and in every
\* tab the useChat hook with its projector (frontend state/hooks/chat),
\* the reconnecting socket below it and the prompt queue beside it.
\*
\* A tab loads the transcript over HTTP, dials a socket with the last
\* sequence number it has applied, and applies events in batches, one per
\* animation frame; a sync or an acknowledgement is applied at once, ahead
\* of the events that came before it.  A prompt typed during a run waits
\* in the tab's queue until the server says that it accepted it.
EXTENDS RunHub, TLC

CONSTANTS
  Prompts,     \* ids of prompts people queue
  Untracked,   \* a prompt sent past the queue, which has no client id
  \* Bounds and switches of a finite instance.
  MaxRuns,     \* runs in a behaviour
  MaxElsewhere, \* only so many first runs may be started elsewhere
  MaxFaults,   \* faults in a behaviour
  Faults       \* which ones happen

ASSUME ChatStreamAssumption ==
  /\ Untracked \notin Prompts
  /\ MaxElsewhere \in Nat /\ MaxRuns \in Nat /\ MaxElsewhere <= MaxRuns
  /\ MaxFaults \in Nat
  /\ Faults \subseteq {"loss", "reload", "crash", "maintenance", "refuse",
                       "rewind", "direct", "remove"}

VARIABLES
  link,      \* the tab's socket: loading, down, dialing or up
  since,     \* the sequence number in the URL being dialled
  cursor,    \* lastSeqRef: the latest sequence number applied
  view,      \* the persisted events on screen
  batch,     \* events that wait for the next animation frame
  status,    \* what the tab thinks the chat is doing
  synced,    \* this connection has delivered a sync
  queue,     \* the tab's prompt queue, kept in sessionStorage
  uplink,    \* prompts on the way to the server
  verdict,   \* what a handler has decided and not yet acknowledged
  rewind,    \* the tab's rewind request
  runs,      \* runs started
  faults,    \* faults left
  \* History.
  typed,     \* prompts each tab queued, in order
  started,   \* prompts a run was started for
  dropped    \* prompts the user gave up

tabVars == <<link, since, cursor, view, batch, status, synced, queue>>
wireVars == <<uplink, verdict>>
ghostVars == <<typed, started, dropped>>
vars == <<hubVars, tabVars, wireVars, rewind, runs, faults, ghostVars>>

----
NoRewind == [at |-> "none", from |-> 0, page |-> <<>>]

Sent(p, live) == [prompt |-> p, live |-> live]
AckMsg(p, accepted) == [kind |-> "ack", prompt |-> p, accepted |-> accepted]

Init ==
  /\ HubInit
  /\ link = [t \in Tabs |-> "loading"]
  /\ since = [t \in Tabs |-> 0]
  /\ cursor = [t \in Tabs |-> 0]
  /\ view = [t \in Tabs |-> {}]
  /\ batch = [t \in Tabs |-> <<>>]
  /\ status = [t \in Tabs |-> "loading"]
  /\ synced = [t \in Tabs |-> FALSE]
  /\ queue = [t \in Tabs |-> <<>>]
  /\ uplink = [t \in Tabs |-> <<>>]
  /\ verdict = [t \in Tabs |-> <<>>]
  /\ rewind = [t \in Tabs |-> NoRewind]
  /\ runs = 0 /\ faults = MaxFaults
  /\ typed = [t \in Tabs |-> <<>>]
  /\ started = {} /\ dropped = {}

Fault(kind) ==
  /\ kind \in Faults /\ faults > 0
  /\ faults' = faults - 1

Elements(s) == {s[i] : i \in 1..Len(s)}
\* No two prompts have the same client id.
Without(s, p) ==
  LET at == CHOOSE i \in 1..Len(s) : s[i] = p
  IN  IF p \in Elements(s)
      THEN SubSeq(s, 1, at - 1) \o SubSeq(s, at + 1, Len(s)) ELSE s

----
\* The projector.
Seqs(events) == {ev.seq : ev \in events}
LatestSequence(events) ==
  CHOOSE n \in Seqs(events) \cup {0} : \A m \in Seqs(events) : m <= n

\* mergeEvents keeps the first event it has for a sequence number.  Errors that
\* were not persisted are shown too; the view leaves them out.
MergeEvents(seen, events) ==
  seen \cup {events[i] : i \in {j \in 1..Len(events) :
               /\ events[j].seq \notin Seqs(seen) \cup {0}
               /\ \A k \in 1..(j - 1) : events[k].seq # events[j].seq}}

\* statusAfter: the run lock is released by a sync, never by a last event.
\* (Slip: a terminal event reopens the composer at once.)
StatusAfter_Slip(ev, current) == IF ev.final THEN "ready" ELSE "streaming"

StatusAfter(ev, current) ==
  IF ev.final /\ current # "streaming" THEN "ready" ELSE "streaming"

SyncStatus(running) == IF running THEN "streaming" ELSE "ready"

----
\* Loading and connecting.

\* The HTTP page and the running flag are read by two requests.
Load(t) ==
  /\ link[t] = "loading"
  /\ link' = [link EXCEPT ![t] = "down"]
  /\ view' = [view EXCEPT ![t] = Elements(log)]
  /\ cursor' = [cursor EXCEPT ![t] = Len(log)]
  /\ \E running \in BOOLEAN :
       status' = [status EXCEPT ![t] = SyncStatus(running)]
  /\ UNCHANGED <<hubVars, since, batch, synced, queue, wireVars, rewind, runs,
                 faults, ghostVars>>

Dial(t) ==
  /\ link[t] = "down"
  /\ link' = [link EXCEPT ![t] = "dialing"]
  /\ since' = [since EXCEPT ![t] = cursor[t]]
  /\ UNCHANGED <<hubVars, cursor, view, batch, status, synced, queue, wireVars,
                 rewind, runs, faults, ghostVars>>

\* The upgrade, onOpen, and the subscription the handler makes with the number
\* in the URL.
Open(t) ==
  /\ link[t] = "dialing"
  /\ link' = [link EXCEPT ![t] = "up"]
  /\ SubscribeAfter(t, since[t])
  /\ batch' = [batch EXCEPT ![t] = <<>>]
  /\ synced' = [synced EXCEPT ![t] = FALSE]
  /\ UNCHANGED <<log, minted, turn, asker, hand, since, cursor, view, status,
                 queue, wireVars, rewind, runs, faults, ghostVars>>

\* What a connection leaves behind when it goes: the messages to the tab are
\* lost; prompts that already left may still be read by the old handler, whose
\* acknowledgement nobody hears.
Disconnect(t) ==
  /\ pipe' = [pipe EXCEPT ![t] = <<>>]
  /\ sub' = [sub EXCEPT ![t] = "none"]
  /\ asker' = IF asker = t THEN Nobody ELSE asker
  /\ \E kept \in BOOLEAN :
       uplink' = [uplink EXCEPT ![t] =
                    IF kept /\ sub[t] # "dead"
                    THEN [i \in 1..Len(@) |-> Sent(@[i].prompt, FALSE)]
                    ELSE <<>>]
  /\ verdict' = [verdict EXCEPT ![t] = <<>>]

\* onClose.  A connection whose channel was closed is closed by the handler, one
\* whose process died by the operating system; any other by the network.  The
\* batch stays: its animation frame may still come.
ConnLost(t) ==
  /\ link[t] = "up"
  /\ IF sub[t] = "live" THEN Fault("loss") ELSE UNCHANGED faults
  /\ link' = [link EXCEPT ![t] = "down"]
  /\ synced' = [synced EXCEPT ![t] = FALSE]
  /\ Disconnect(t)
  /\ UNCHANGED <<log, minted, turn, hand, cap, since, cursor, view, batch,
                 status, queue, rewind, runs, ghostVars>>

\* The chat is left and opened again, or the page is reloaded: only the prompt
\* queue is kept.
Reload(t) ==
  /\ link[t] # "loading" /\ rewind[t] = NoRewind
  /\ Fault("reload")
  /\ link' = [link EXCEPT ![t] = "loading"]
  /\ cursor' = [cursor EXCEPT ![t] = 0]
  /\ view' = [view EXCEPT ![t] = {}]
  /\ batch' = [batch EXCEPT ![t] = <<>>]
  /\ status' = [status EXCEPT ![t] = "loading"]
  /\ synced' = [synced EXCEPT ![t] = FALSE]
  /\ Disconnect(t)
  /\ UNCHANGED <<log, minted, turn, hand, cap, since, queue, rewind, runs,
                 ghostVars>>

----
\* Messages to the tab.

\* (Slip: the sequence number counts as applied before the event is.)
ReceiveEvent_Slip(t) ==
  /\ Head(pipe[t]).kind = "event"
  /\ batch' = [batch EXCEPT ![t] = Append(@, Head(pipe[t]).event)]
  /\ cursor' = [cursor EXCEPT ![t] =
                  LatestSequence({Head(pipe[t]).event, Event(@, 0, FALSE)})]
  /\ UNCHANGED <<status, synced, queue>>

ReceiveEvent(t) ==
  /\ Head(pipe[t]).kind = "event"
  /\ batch' = [batch EXCEPT ![t] = Append(@, Head(pipe[t]).event)]
  /\ UNCHANGED <<status, synced, queue, cursor>>

ReceiveSync(t) ==
  /\ Head(pipe[t]).kind = "sync"
  /\ synced' = [synced EXCEPT ![t] = TRUE]
  /\ status' = [status EXCEPT ![t] = SyncStatus(Head(pipe[t]).running)]
  /\ UNCHANGED <<batch, queue, cursor>>

\* promptsAfterOutcome: an accepted prompt leaves the queue, a rejected one
\* stays for the next window.
\* (Slip: whatever the verdict, the prompt has had its turn.)
PromptsAfterOutcome_Slip(prompts, ack) == Without(prompts, ack.prompt)

PromptsAfterOutcome(prompts, ack) ==
  IF ack.accepted THEN Without(prompts, ack.prompt) ELSE prompts

ReceiveAck(t) ==
  /\ Head(pipe[t]).kind = "ack"
  /\ queue' = [queue EXCEPT ![t] = PromptsAfterOutcome(@, Head(pipe[t]))]
  /\ UNCHANGED <<batch, status, synced, cursor>>

Receive(t) ==
  /\ link[t] = "up" /\ pipe[t] # <<>>
  /\ pipe' = [pipe EXCEPT ![t] = Tail(@)]
  /\ ReceiveEvent(t) \/ ReceiveSync(t) \/ ReceiveAck(t)
  /\ UNCHANGED <<log, minted, turn, asker, hand, sub, cap, link, since, view,
                 wireVars, rewind, runs, faults, ghostVars>>

\* flushPendingEvents, on the animation frame, connected or not.
Flush(t) ==
  /\ batch[t] # <<>>
  /\ cursor' = [cursor EXCEPT ![t] =
                  LatestSequence(Elements(batch[t]) \cup {Event(@, 0, FALSE)})]
  /\ view' = [view EXCEPT ![t] = MergeEvents(@, batch[t])]
  /\ status' = [status EXCEPT ![t] = StatusAfter(batch[t][Len(batch[t])], @)]
  /\ batch' = [batch EXCEPT ![t] = <<>>]
  /\ UNCHANGED <<hubVars, link, since, synced, queue, wireVars, rewind, runs,
                 faults, ghostVars>>

----
\* Prompts.
CanSendPrompt(t) == link[t] = "up" /\ synced[t] /\ status[t] = "ready"

\* A prompt typed while a run streams waits in the queue.
Type(t, p) ==
  /\ status[t] = "streaming"
  /\ \A u \in Tabs : p \notin Elements(typed[u])
  /\ queue' = [queue EXCEPT ![t] = Append(@, p)]
  /\ typed' = [typed EXCEPT ![t] = Append(@, p)]
  /\ UNCHANGED <<hubVars, link, since, cursor, view, batch, status, synced,
                 wireVars, rewind, runs, faults, started, dropped>>

Remove(t, p) ==
  /\ p \in Elements(queue[t])
  /\ Fault("remove")
  /\ queue' = [queue EXCEPT ![t] = Without(@, p)]
  /\ dropped' = dropped \cup {p}
  /\ UNCHANGED <<hubVars, link, since, cursor, view, batch, status, synced,
                 wireVars, rewind, runs, typed, started>>

SendPrompt(t, p) ==
  /\ CanSendPrompt(t)
  /\ status' = [status EXCEPT ![t] = "streaming"]
  /\ uplink' = [uplink EXCEPT ![t] = Append(@, Sent(p, TRUE))]
  /\ UNCHANGED <<hubVars, link, since, cursor, view, batch, synced, queue,
                 verdict, rewind, runs, ghostVars>>

\* The queue's effect sends the oldest prompt when the window opens.  Sending
\* closes the window, and a closed window frees the dispatch latch: the latch
\* never outlives this step.
\* (Slip: the youngest prompt goes first.)
Dispatch_Slip(t) ==
  /\ queue[t] # <<>>
  /\ SendPrompt(t, queue[t][Len(queue[t])])
  /\ UNCHANGED faults

Dispatch(t) ==
  /\ queue[t] # <<>>
  /\ SendPrompt(t, Head(queue[t]))
  /\ UNCHANGED faults

\* The composer of an idle chat sends past the queue.
SendDirect(t) == Fault("direct") /\ SendPrompt(t, Untracked)

\* The handler reads a prompt and calls Start.  A prompt of an old connection is
\* read by the old handler.
Readable(t) ==
  /\ uplink[t] # <<>> /\ verdict[t] = <<>>
  /\ Head(uplink[t]).live => sub[t] # "dead"

\* The verdict is acknowledged to a prompt that has a client id.
\* (Slip: to every prompt.)
Decide_Slip(t, accepted) ==
  LET sent == Head(uplink[t])
  IN  /\ uplink' = [uplink EXCEPT ![t] = Tail(@)]
      /\ verdict' = IF sent.live
                    THEN [verdict EXCEPT ![t] = <<AckMsg(sent.prompt, accepted)>>]
                    ELSE verdict
      /\ started' = IF accepted THEN started \cup {sent.prompt} ELSE started

Decide(t, accepted) ==
  LET sent == Head(uplink[t])
  IN  /\ uplink' = [uplink EXCEPT ![t] = Tail(@)]
      /\ verdict' = IF sent.live /\ sent.prompt # Untracked
                    THEN [verdict EXCEPT ![t] = <<AckMsg(sent.prompt, accepted)>>]
                    ELSE verdict
      /\ started' = IF accepted THEN started \cup {sent.prompt} ELSE started

Asker(t) == IF Head(uplink[t]).live THEN t ELSE Nobody

AcceptPrompt(t) ==
  /\ Readable(t) /\ ~Running /\ runs < MaxRuns
  /\ Decide(t, TRUE)
  /\ StartRun(Asker(t))
  /\ runs' = runs + 1
  /\ UNCHANGED <<log, minted, hand, cap, tabVars, rewind, faults, typed, dropped>>

RejectPrompt(t) ==
  /\ Readable(t)
  /\ IF Running THEN UNCHANGED faults ELSE Fault("maintenance")
  /\ Decide(t, FALSE)
  /\ SendTransient(Asker(t), EventMsg(TransientError))
  /\ UNCHANGED <<log, minted, turn, asker, hand, sub, cap, tabVars, rewind, runs,
                 typed, dropped>>

\* The acknowledgement follows in the handler, while the run is under way.
Acknowledge(t) ==
  /\ verdict[t] # <<>>
  /\ SendTransient(t, verdict[t][1])
  /\ verdict' = [verdict EXCEPT ![t] = <<>>]
  /\ UNCHANGED <<log, minted, turn, asker, hand, sub, cap, tabVars, uplink, rewind,
                 runs, faults, ghostVars>>

----
\* Rewinding: check, truncate and read the page are separate on the server, and
\* the tab overwrites what it shows when the answer arrives.
RewindTo(t, step) == rewind' = [rewind EXCEPT ![t] = step]

\* The tab looks at its status and then waits for the user to confirm.
RewindAsk(t) ==
  /\ rewind[t] = NoRewind /\ status[t] = "ready"
  /\ Fault("rewind")
  /\ \E ev \in view[t] : RewindTo(t, [at |-> "asked", from |-> ev.id, page |-> <<>>])
  /\ UNCHANGED <<hubVars, tabVars, wireVars, runs, ghostVars>>

RewindCheck(t) ==
  /\ rewind[t].at = "asked"
  /\ RewindTo(t, IF Running THEN NoRewind ELSE [rewind[t] EXCEPT !.at = "checked"])
  /\ UNCHANGED <<hubVars, tabVars, wireVars, runs, faults, ghostVars>>

RewindTruncate(t) ==
  /\ rewind[t].at = "checked"
  /\ TruncateEventsBefore(rewind[t].from)
  /\ RewindTo(t, [rewind[t] EXCEPT !.at = "truncated"])
  /\ UNCHANGED <<minted, turn, asker, hand, sub, pipe, cap, tabVars, wireVars, runs,
                 faults, ghostVars>>

RewindPage(t) ==
  /\ rewind[t].at = "truncated"
  /\ RewindTo(t, [rewind[t] EXCEPT !.at = "paged", !.page = log])
  /\ UNCHANGED <<hubVars, tabVars, wireVars, runs, faults, ghostVars>>

RewindApply(t) ==
  /\ rewind[t].at = "paged"
  /\ RewindTo(t, NoRewind)
  /\ batch' = [batch EXCEPT ![t] = <<>>]
  /\ cursor' = [cursor EXCEPT ![t] = Len(rewind[t].page)]
  /\ view' = [view EXCEPT ![t] = Elements(rewind[t].page)]
  /\ status' = [status EXCEPT ![t] = "ready"]
  /\ queue' = [queue EXCEPT ![t] = <<>>]
  /\ dropped' = dropped \cup Elements(queue[t])
  /\ UNCHANGED <<hubVars, link, since, synced, wireVars, runs, faults, typed, started>>

----
\* The server's own steps.
TabsAside == UNCHANGED <<tabVars, wireVars, rewind, ghostVars>>

\* A scheduled task or another person starts a run.
StartElsewhere ==
  /\ ~Running /\ runs < MaxElsewhere
  /\ StartRun(Nobody)
  /\ runs' = runs + 1
  /\ UNCHANGED <<log, minted, hand, cap, faults>> /\ TabsAside

RunStep ==
  /\ EmitUser \/ EmitProgress \/ EmitFinal \/ BroadcastEvent \/ EndRun
  /\ UNCHANGED <<runs, faults>> /\ TabsAside

RefuseRun ==
  /\ Fault("refuse")
  /\ ReportError
  /\ UNCHANGED runs /\ TabsAside

\* The server restarts.  Prompts on the way and rewind requests fail.
Crash ==
  /\ Fault("crash")
  /\ HubCrash
  /\ uplink' = [t \in Tabs |-> <<>>]
  /\ verdict' = [t \in Tabs |-> <<>>]
  /\ rewind' = [t \in Tabs |-> NoRewind]
  /\ link' = [t \in Tabs |-> IF link[t] = "dialing" THEN "down" ELSE link[t]]
  /\ UNCHANGED <<since, cursor, view, batch, status, synced, queue, runs,
                 ghostVars>>

TabStep(t) ==
  \/ Load(t) \/ Dial(t) \/ Open(t) \/ ConnLost(t) \/ Reload(t)
  \/ Receive(t) \/ Flush(t)
  \/ \E p \in Prompts : Type(t, p) \/ Remove(t, p)
  \/ Dispatch(t) \/ SendDirect(t)
  \/ RewindAsk(t) \/ RewindCheck(t) \/ RewindTruncate(t) \/ RewindPage(t) \/ RewindApply(t)

HandlerStep(t) == AcceptPrompt(t) \/ RejectPrompt(t) \/ Acknowledge(t)

Next ==
  \/ \E t \in Tabs : TabStep(t) \/ HandlerStep(t)
  \/ StartElsewhere \/ RunStep \/ RefuseRun \/ Crash

Spec == Init /\ [][Next]_vars

\* The server's goroutines and the tab's timers and frames run; a socket whose
\* other end is gone is noticed.  People owe nothing, and no fault has to occur.
FairSpec ==
  /\ Spec
  /\ WF_vars(RunStep)
  /\ \A t \in Tabs :
       /\ WF_vars(Load(t)) /\ WF_vars(Dial(t)) /\ WF_vars(Open(t))
       /\ WF_vars(ConnLost(t) /\ sub[t] # "live")
       /\ WF_vars(Receive(t)) /\ WF_vars(Flush(t)) /\ WF_vars(Dispatch(t))
       /\ WF_vars(AcceptPrompt(t) \/ (RejectPrompt(t) /\ Running))
       /\ WF_vars(Acknowledge(t))

----
\* Properties.

Events == {Event(n, id, f) : n \in 0..3 * MaxRuns, id \in 0..3 * MaxRuns, f \in BOOLEAN}
Messages == {EventMsg(ev) : ev \in Events} \cup {SyncMsg(b) : b \in BOOLEAN}
            \cup {AckMsg(p, b) : p \in Prompts, b \in BOOLEAN}
SentPrompts == [prompt : Prompts \cup {Untracked}, live : BOOLEAN]

HubTypeOK ==
  /\ log \in Seq(Events) /\ minted \in Nat /\ turn \in Turns
  /\ asker \in Tabs \cup {Nobody} /\ hand \in Seq(Events) /\ Len(hand) <= 1
  /\ runs \in 0..MaxRuns /\ faults \in 0..MaxFaults
RoomTypeOK ==
  /\ sub \in [Tabs -> Subs] /\ pipe \in [Tabs -> Seq(Messages)] /\ cap \in [Tabs -> Nat]
TabTypeOK ==
  /\ link \in [Tabs -> {"loading", "down", "dialing", "up"}]
  /\ since \in [Tabs -> Nat] /\ cursor \in [Tabs -> Nat]
  /\ view \in [Tabs -> SUBSET Events] /\ batch \in [Tabs -> Seq(Events)]
  /\ status \in [Tabs -> {"loading", "ready", "streaming"}]
  /\ synced \in [Tabs -> BOOLEAN]
  /\ rewind \in [Tabs -> [at : {"none", "asked", "checked", "truncated", "paged"},
                         from : Nat, page : Seq(Events)]]
PromptTypeOK ==
  /\ queue \in [Tabs -> Seq(Prompts)] /\ typed \in [Tabs -> Seq(Prompts)]
  /\ uplink \in [Tabs -> Seq(SentPrompts)]
  /\ verdict \in [Tabs -> Seq(Messages)] /\ \A t \in Tabs : Len(verdict[t]) <= 1
  /\ started \subseteq Prompts \cup {Untracked} /\ dropped \subseteq Prompts

\* Every variable has its type.
TypeOK == HubTypeOK /\ RoomTypeOK /\ TabTypeOK /\ PromptTypeOK

\* Nothing is on the way to or from a connected tab.
Quiet(t) ==
  /\ link[t] = "up" /\ sub[t] = "live" /\ synced[t]
  /\ pipe[t] = <<>> /\ batch[t] = <<>> /\ uplink[t] = <<>> /\ verdict[t] = <<>>
  /\ hand = <<>>

\* No rewind has removed an event.
Unrewound == minted = Len(log)

\* useChat.ts:37-41, "history and live events meet without a gap": a tab shows
\* exactly the events up to its sequence number, whatever was lost, replayed,
\* received twice or thrown away on the way.
NoGap ==
  Unrewound => \A t \in Tabs :
    /\ cursor[t] <= Len(log)
    /\ view[t] = Elements(SubSeq(log, 1, cursor[t]))

\* docs/02-workspaces/04-chat-and-agents.md:291, "On reconnect, the UI sends its
\* last sequence so the server can replay only missed events": a tab to which
\* nothing is on the way shows every event of the log.
NothingMissed == \A t \in Tabs : Quiet(t) => Elements(log) \subseteq view[t]

\* The tab is well formed and its transcript has no gap.
ChatInvariant == TypeOK /\ NoGap

\* A tab to which nothing is on the way knows that a run holds the chat: its
\* composer queues, and its queue sends nothing into the locked run.
RunShown ==
  \A t \in Tabs : Quiet(t) /\ Running /\ Unrewound => status[t] = "streaming"

\* docs/02-workspaces/04-chat-and-agents.md:12, "Running --> Ready: complete or
\* error, then sync unlocked": a tab to which nothing is on the way knows that
\* the chat is free.
IdleShown == \A t \in Tabs : Quiet(t) /\ ~Running => status[t] = "ready"

\* A tab to which nothing is on the way is current: it shows the whole log and
\* knows when the chat is free.
QuietIsCurrent == NothingMissed /\ IdleShown

\* A queued prompt is never lost: it is in the queue until a run was started
\* with it or its author gave it up.
PromptKept ==
  \A t \in Tabs :
    Elements(typed[t]) \subseteq Elements(queue[t]) \cup started \cup dropped

\* Queued prompts run in the order they were typed, however often they are sent.
PromptOrder ==
  \A t \in Tabs : \A i, j \in 1..Len(typed[t]) :
    i < j /\ typed[t][j] \in started => typed[t][i] \in started \cup dropped

\* The queue of a tab loses nothing and reorders nothing.
PromptsKeptInOrder == PromptKept /\ PromptOrder

\* A queued prompt is eventually run, whatever happens to connections.
PromptRuns ==
  \A p \in Prompts :
    (\E t \in Tabs : p \in Elements(typed[t])) ~> (p \in started \cup dropped)

\* The tabs implement the abstract transcript: what is on screen is always a
\* beginning of the log that only grows until the tab is reloaded, and every
\* tab ends up showing all of it.
Promise == INSTANCE Transcript WITH
  Viewers <- Tabs, Entries <- Events, transcript <- log, display <- view
ImplementsTranscript == Promise!TSpec

\* Prompts may trade places where nothing but their order in a queue counts.
PromptSymmetry == Permutations(Prompts)
====
