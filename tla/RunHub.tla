---- MODULE RunHub ----
\* One chat on the server: its event log (stores/filechat), its room in
\* the run hub (service/runhub), and the run that may hold the room
\* (service/prompt).  A browser tab is connected through a subscription: a
\* bounded channel that is filled with the events the tab lacks and a
\* sync, and then with everything broadcast in the room.
\*
\* The operators below are the hub's methods and the run's emissions; the
\* module ChatStream puts them together with the socket handler and the
\* tab.
EXTENDS Naturals, Sequences

CONSTANTS
  Tabs,        \* browser tabs that show the chat
  Nobody,      \* the asker of a run no connected tab started
  LiveBuffer,  \* subscriptionLiveBuffer
  MaxProgress  \* bound: no provider output once this many events are appended

ASSUME RunHubAssumption ==
  /\ Nobody \notin Tabs
  /\ LiveBuffer \in Nat \ {0} /\ MaxProgress \in Nat

VARIABLES
  log,     \* events.jsonl, which survives a crash
  minted,  \* events ever appended, which tells rewritten ones apart
  turn,    \* how far the run is, "none" when the room is free
  asker,   \* the tab whose connection submitted the running prompt
  hand,    \* an event that is appended and not yet broadcast
  sub,     \* the subscription of each tab's connection
  pipe,    \* what is on the way to each tab, oldest first
  cap      \* messages the subscription's channel holds

hubVars == <<log, minted, turn, asker, hand, sub, pipe, cap>>

\* An event as a tab's transcript and status tell events apart: its sequence
\* number, which event it is, and whether it ends a turn.  An event that was
\* not persisted has no sequence number.
Event(seq, id, final) == [seq |-> seq, id |-> id, final |-> final]
TransientError == Event(0, 0, TRUE)

EventMsg(ev) == [kind |-> "event", event |-> ev]
SyncMsg(running) == [kind |-> "sync", running |-> running]

\* begun: StartRun returned; asked: the user event is out; working: provider
\* output followed; closed: a complete or error event was the last one.
Turns == {"none", "begun", "asked", "working", "closed"}
Running == turn # "none"

\* live: in the room; cut: out of the room with a closed channel, its messages
\* still drain; dead: its server process is gone; none: no connection.
Subs == {"none", "live", "cut", "dead"}

HubInit ==
  /\ log = <<>> /\ minted = 0
  /\ turn = "none" /\ asker = Nobody /\ hand = <<>>
  /\ sub = [t \in Tabs |-> "none"]
  /\ pipe = [t \in Tabs |-> <<>>]
  /\ cap = [t \in Tabs |-> 0]

----
\* ReadEventsAfter: the events with a larger sequence number, which are the last
\* ones of the log, since numbers increase along it.
\* (Slip: the boundary event is skipped too.)
ReadEventsAfter_Slip(since) ==
  LET first == CHOOSE n \in 1..(Len(log) + 1) :
                 \A i \in 1..Len(log) : i >= n <=> log[i].seq > since + 1
  IN  SubSeq(log, first, Len(log))

ReadEventsAfter(since) ==
  LET first == CHOOSE n \in 1..(Len(log) + 1) :
                 \A i \in 1..Len(log) : i >= n <=> log[i].seq > since
  IN  SubSeq(log, first, Len(log))

\* SubscribeAfter reads the log and joins the room under the room's mutex, so
\* nothing is broadcast between the replay and the first live message.
SubscribeAfter(t, since) ==
  LET replay == ReadEventsAfter(since)
      missed == [i \in 1..Len(replay) |-> EventMsg(replay[i])]
  IN  /\ pipe' = [pipe EXCEPT ![t] = Append(missed, SyncMsg(Running))]
      /\ cap' = [cap EXCEPT ![t] = Len(replay) + LiveBuffer]
      /\ sub' = [sub EXCEPT ![t] = "live"]

Fits(t) == sub[t] = "live" /\ Len(pipe[t]) < cap[t]

\* broadcastLocked: a subscription that cannot take the message leaves the room.
\* (Slip: the message is dropped and the subscription stays.)
Broadcast_Slip(m) ==
  /\ pipe' = [t \in Tabs |-> IF Fits(t) THEN Append(pipe[t], m) ELSE pipe[t]]
  /\ UNCHANGED sub

Broadcast(m) ==
  /\ pipe' = [t \in Tabs |-> IF Fits(t) THEN Append(pipe[t], m) ELSE pipe[t]]
  /\ sub' = [t \in Tabs |-> IF sub[t] = "live" /\ ~Fits(t) THEN "cut" ELSE sub[t]]

\* SendTransient drops what does not fit and leaves the room alone.
SendTransient(t, m) ==
  pipe' = IF t \in Tabs /\ Fits(t) THEN [pipe EXCEPT ![t] = Append(@, m)] ELSE pipe

\* StartRun in a free room, and the goroutine that runs the prompt.
StartRun(t) ==
  /\ turn' = "begun" /\ asker' = t
  /\ Broadcast(SyncMsg(TRUE))

\* FinishRun of the run that holds the room.
\* (Slip: the tabs are not told that the room is free.)
FinishRun_Slip ==
  /\ turn' = "none" /\ asker' = Nobody
  /\ UNCHANGED <<sub, pipe>>

FinishRun ==
  /\ turn' = "none" /\ asker' = Nobody
  /\ Broadcast(SyncMsg(FALSE))

----
LastSeq == IF log = <<>> THEN 0 ELSE log[Len(log)].seq

\* Emit appends outside the room's mutex and broadcasts under it: two steps.
AppendEvent(final) ==
  LET ev == Event(LastSeq + 1, minted + 1, final)
  IN  /\ log' = Append(log, ev)
      /\ minted' = minted + 1
      /\ hand' = <<ev>>

Emit(from, to, final) ==
  /\ turn \in from /\ hand = <<>>
  /\ AppendEvent(final)
  /\ turn' = to
  /\ UNCHANGED <<asker, sub, pipe, cap>>

EmitUser == Emit({"begun"}, "asked", FALSE)
EmitProgress == minted < MaxProgress /\ Emit({"asked"}, "working", FALSE)
EmitFinal == Emit({"asked", "working"}, "closed", TRUE)

BroadcastEvent ==
  /\ hand # <<>>
  /\ Broadcast(EventMsg(Head(hand)))
  /\ hand' = <<>>
  /\ UNCHANGED <<log, minted, turn, asker, cap>>

EndRun ==
  /\ turn = "closed" /\ hand = <<>>
  /\ FinishRun
  /\ UNCHANGED <<log, minted, hand, cap>>

\* The chat cannot be read, or its provider does not support the chat's scope:
\* the error goes to the asker's connection only and the run is over.
ReportError ==
  /\ turn \in {"begun", "asked"} /\ hand = <<>>
  /\ SendTransient(asker, EventMsg(TransientError))
  /\ turn' = "closed"
  /\ UNCHANGED <<log, minted, asker, hand, sub, cap>>

\* TruncateEventsBefore: the selected event and every later one go; sequence
\* numbers continue after the last one that is kept.
TruncateEventsBefore(id) ==
  \E n \in 0..Len(log) :
    /\ \A i \in 1..Len(log) : i <= n <=> log[i].id < id
    /\ log' = SubSeq(log, 1, n)

\* The process dies: the room and every channel go with it, the log stays.
HubCrash ==
  /\ turn' = "none" /\ asker' = Nobody /\ hand' = <<>>
  /\ sub' = [t \in Tabs |-> IF sub[t] = "none" THEN "none" ELSE "dead"]
  /\ UNCHANGED <<log, minted, pipe, cap>>
====
