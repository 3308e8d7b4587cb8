---- MODULE ChatProofs ----
\* What a chat keeps, for every number of tabs, prompts, runs and faults
\* and every capacity of a subscription.
\*
\* Structure is the part that needs nothing else: types, the numbering of
\* the log, and what a tab has that is not connected.  On it rest two
\* invariants that are proved one after the other: QueueSound, that the
\* prompts of a tab start in the order they were typed, and StreamSound,
\* that whatever a tab does not show and was broadcast is on the way to it
\* in order.  Without rewinds the tabs keep the promise of Transcript, and
\* with only the faults of browsers and networks MildSound adds that a tab
\* knows when its chat is free.
EXTENDS ChatStream, TLAPS, SequenceTheorems, WellFoundedInduction

----
\* The log is numbered from one, and events that were written later have a
\* larger id, also after a rewind.
LogNumbered ==
  /\ Len(log) <= minted
  /\ \A i \in 1..Len(log) : log[i].seq = i /\ log[i].id <= minted
  /\ \A i, j \in 1..Len(log) : i < j => log[i].id < log[j].id

\* What the run in the room may still write: a run writes three events at most.
Remaining == CASE turn = "begun" -> 3 [] turn = "asked" -> 2 [] turn = "working" -> 1 [] OTHER -> 0
MintedByRuns == minted + Remaining <= 3 * runs

\* Only a socket that is up has a subscription, and a page that loads has nothing.
Connected ==
  \A t \in Tabs : /\ link[t] # "up" => sub[t] = "none" /\ pipe[t] = <<>>
                  /\ link[t] = "loading" => batch[t] = <<>>

Structure == TypeOK /\ LogNumbered /\ MintedByRuns /\ Connected

\* The event n is among the first k that wait for the frame, or on the way.
InBatch(b, n, k) == \E j \in 1..k : b[j].seq = n
InPipe(p, n, k) == \E j \in 1..k : p[j].kind = "event" /\ p[j].event.seq = n

\* An event that was persisted is the log's.
EventOf(l, ev) == ev.seq # 0 => ev.seq \in 1..Len(l) /\ ev = l[ev.seq]

\* Whatever lies between the cursor c and an event that is to come comes before it.
BatchSound(l, c, b) ==
  \A k \in 1..Len(b) : EventOf(l, b[k]) /\ \A n \in (c + 1)..b[k].seq : InBatch(b, n, k)
PipeSound(l, c, b, p) ==
  \A k \in 1..Len(p) : p[k].kind = "event" =>
    /\ EventOf(l, p[k].event)
    /\ \A n \in (c + 1)..p[k].event.seq : InBatch(b, n, Len(b)) \/ InPipe(p, n, k)

\* Whatever was broadcast and is not shown is on the way.
Covered(c, b, p, last) == \A n \in (c + 1)..last : InBatch(b, n, Len(b)) \/ InPipe(p, n, Len(p))

\* A cursor that is being dialled is not ahead of the tab.
DialsBehind(t) == link[t] = "dialing" => since[t] <= cursor[t]

\* A rewind that goes ahead will remove an event.
RewindWillCut(t) ==
  /\ rewind[t].at \in {"none", "asked", "checked"}
  /\ rewind[t].at # "none" => \E i \in 1..Len(log) : log[i].id = rewind[t].from

Shown(t) == cursor[t] <= Len(log) /\ view[t] = {log[i] : i \in 1..cursor[t]}

StreamOf(t) ==
  /\ Shown(t)
  /\ BatchSound(log, cursor[t], batch[t]) /\ PipeSound(log, cursor[t], batch[t], pipe[t])
  /\ sub[t] = "live" => Covered(cursor[t], batch[t], pipe[t], Len(log) - Len(hand))
  /\ DialsBehind(t) /\ RewindWillCut(t)

\* As long as the last sync on the way is TRUE, or the last one that came was and
\* the composer is still closed, the tab knows of the run.
NoSync(p, k) == \A j \in k..Len(p) : p[j].kind # "sync"
TellsRun(p) ==
  \E k \in 1..Len(p) : p[k].kind = "sync" /\ p[k].running = TRUE /\ NoSync(p, k + 1)
RunKnown(t) ==
  sub[t] = "live" /\ Running =>
    TellsRun(pipe[t]) \/ (NoSync(pipe[t], 1) /\ synced[t] = TRUE /\ status[t] = "streaming")

HandLast == hand # <<>> => log # <<>> /\ hand[1] = log[Len(log)]

AllSound == HandLast /\ \A t \in Tabs : StreamOf(t) /\ RunKnown(t)
StreamSound == Unrewound => AllSound

----
\* The queue.
Precedes(s, p, q) == \E i, j \in 1..Len(s) : i < j /\ s[i] = p /\ s[j] = q

\* A prompt is typed once.
TypedOnce ==
  \A t, u \in Tabs : \A i \in 1..Len(typed[t]) : \A j \in 1..Len(typed[u]) :
    typed[t][i] = typed[u][j] => t = u /\ i = j

QueueInOrder ==
  \A t \in Tabs :
    /\ Elements(queue[t]) \subseteq Elements(typed[t])
    /\ \A i, j \in 1..Len(queue[t]) : i < j => Precedes(typed[t], queue[t][i], queue[t][j])

SentInOrder ==
  \A t \in Tabs : \A k \in 1..Len(uplink[t]) :
    \/ uplink[t][k].prompt = Untracked
    \/ /\ uplink[t][k].prompt \in Elements(typed[t])
       /\ \A p \in Prompts : Precedes(typed[t], p, uplink[t][k].prompt) => p \in started \cup dropped

\* An acknowledgement that accepts a prompt tells the truth.
AckTrue(m, S) == m.kind = "ack" /\ m.accepted => m.prompt \in S
AcksTrue ==
  \A t \in Tabs : /\ \A k \in 1..Len(pipe[t]) : AckTrue(pipe[t][k], started)
                  /\ \A k \in 1..Len(verdict[t]) :
                       verdict[t][k].kind = "ack" /\ AckTrue(verdict[t][k], started)

StartedTyped == \A p \in started : p = Untracked \/ \E t \in Tabs : p \in Elements(typed[t])

StartedInOrder ==
  \A t \in Tabs : \A p, q \in Prompts :
    Precedes(typed[t], p, q) /\ q \in started => p \in started \cup dropped

PromptsSound ==
  /\ TypedOnce /\ QueueInOrder /\ SentInOrder /\ StartedTyped
  /\ PromptKept /\ StartedInOrder

QueueSound == AcksTrue /\ PromptsSound

----
\* Without crashes, rewinds, refusals and maintenance a tab knows when it is idle.
MildFaults == Faults \subseteq {"loss", "reload", "direct", "remove"}

\* A free chat's log ends with the end of a run.
LogEnds == turn \in {"closed", "none"} => log = <<>> \/ log[Len(log)].final = TRUE
HandOfRun == hand # <<>> => Running

\* An event that ends no turn is followed by one that does: in the batch b, or in
\* the first k messages of the pipe p.
EndsTurn(m) == m.kind = "event" /\ m.event.final = TRUE
EndsFinally(b, p, k) ==
  /\ \A i \in 1..Len(b) : b[i].final = FALSE =>
       \/ \E j \in (i + 1)..Len(b) : b[j].final = TRUE
       \/ \E j \in 1..k : EndsTurn(p[j])
  /\ \A i \in 1..Len(p) : p[i].kind = "event" /\ p[i].event.final = FALSE =>
       \E j \in (i + 1)..k : EndsTurn(p[j])

TellsIdle(b, p) ==
  \E k \in 1..Len(p) : /\ p[k].kind = "sync" /\ p[k].running = FALSE
                       /\ NoSync(p, k + 1) /\ EndsFinally(b, p, k)

\* A tab of a free chat is told that it is free, or was and has not sent since.
IdleKnown(t) ==
  sub[t] = "live" /\ ~Running =>
    \/ TellsIdle(batch[t], pipe[t])
    \/ /\ NoSync(pipe[t], 1) /\ synced[t] = TRUE /\ EndsFinally(batch[t], pipe[t], 0)
       /\ status[t] = "ready" \/ uplink[t] # <<>>

\* Once a run's last event was broadcast it follows all others.
ClosedOff(t) ==
  sub[t] = "live" /\ turn = "closed" /\ hand = <<>> =>
    EndsFinally(batch[t], pipe[t], Len(pipe[t]))

MildSound ==
  /\ LogEnds /\ HandOfRun
  /\ \A t \in Tabs : IdleKnown(t) /\ ClosedOff(t)

----
\* The bounds and capacities, by the names the steps cite.
LEMMA ChatFacts ==
  /\ Nobody \notin Tabs /\ LiveBuffer \in Nat \ {0} /\ MaxProgress \in Nat
  /\ Untracked \notin Prompts /\ MaxElsewhere \in Nat /\ MaxRuns \in Nat
  /\ MaxElsewhere <= MaxRuns /\ MaxFaults \in Nat
BY ChatStreamAssumption, RunHubAssumption

LEMMA FunctionIsSeq ==
  ASSUME NEW S, NEW n \in Nat, NEW f \in [1..n -> S]
  PROVE  f \in Seq(S) /\ Len(f) = n
OBVIOUS

\* A bounded set of numbers has a largest one.
LEMMA MaxExists ==
  ASSUME NEW N \in Nat, NEW S \in SUBSET (0..N), S # {}
  PROVE  \E n \in S : \A m \in S : m <= n
<1> DEFINE T == {N - s : s \in S}
<1>1. T \subseteq Nat /\ T # {}
 <2>1. ASSUME NEW s \in S PROVE N - s \in Nat
  <3>1. s \in 0..N OBVIOUS
  <3> QED BY <3>1
 <2>2. PICK s \in S : TRUE OBVIOUS
 <2>3. N - s \in T BY <2>2
 <2> QED BY <2>1, <2>3
<1>2. PICK x \in T : \A y \in T : ~(<<y, x>> \in OpToRel(<, Nat)) BY <1>1, NatLessThanWellFounded, WFMin
<1>3. \A y \in T : ~(y < x) BY <1>1, <1>2 DEF OpToRel
<1>4. PICK n \in S : x = N - n OBVIOUS
<1>5. ASSUME NEW m \in S PROVE m <= n
 <2>1. m \in 0..N /\ n \in 0..N /\ N - m \in T OBVIOUS
 <2>2. ~(N - m < N - n) BY <1>3, <1>4, <2>1
 <2> HIDE DEF T
 <2> QED BY <2>1, <2>2
<1> QED BY <1>5

\* The latest number of bounded events is the number of one of them, or none.
LEMMA LatestIsLargest ==
  ASSUME NEW N \in Nat, NEW E, \A e \in E : e.seq \in 0..N
  PROVE  /\ LatestSequence(E) \in Seqs(E) \cup {0} /\ LatestSequence(E) \in 0..N
         /\ \A e \in E : e.seq <= LatestSequence(E)
<1>1. Seqs(E) \cup {0} \in SUBSET (0..N) /\ Seqs(E) \cup {0} # {} BY DEF Seqs
<1>2. \E n \in Seqs(E) \cup {0} : \A m \in Seqs(E) : m <= n BY <1>1, MaxExists
<1>3. /\ LatestSequence(E) \in Seqs(E) \cup {0}
      /\ \A m \in Seqs(E) : m <= LatestSequence(E)
 BY <1>2 DEF LatestSequence
<1> QED BY <1>1, <1>3 DEF Seqs

\* What is sent is a message.
LEMMA MessagesSent ==
  /\ \A ev \in Events : EventMsg(ev) \in Messages
  /\ \A b \in BOOLEAN : SyncMsg(b) \in Messages
  /\ \A p \in Prompts, b \in BOOLEAN : AckMsg(p, b) \in Messages
  /\ TransientError \in Events
<1>1. TransientError \in Events
 <2>1. 0 \in 0..3 * MaxRuns BY ChatFacts
 <2>2. \E n \in 0..3 * MaxRuns : \E id \in 0..3 * MaxRuns : \E f \in BOOLEAN :
         TransientError = Event(n, id, f)
  BY <2>1 DEF TransientError
 <2> QED BY <2>2 DEF Events
<1> QED BY <1>1 DEF Messages

LEMMA EventTypes ==
  \A ev \in Events : ev.seq \in 0..3 * MaxRuns /\ ev.id \in 0..3 * MaxRuns /\ ev.final \in BOOLEAN
                     /\ ev = Event(ev.seq, ev.id, ev.final)
BY DEF Events, Event

LEMMA MessageTypes ==
  ASSUME NEW m \in Messages
  PROVE  /\ m.kind \in {"event", "sync", "ack"}
         /\ m.kind = "event" => m.event \in Events /\ m = EventMsg(m.event)
         /\ m.kind = "sync" => m.running \in BOOLEAN /\ m = SyncMsg(m.running)
         /\ m.kind = "ack" => m.prompt \in Prompts /\ m.accepted \in BOOLEAN
BY DEF Messages, EventMsg, SyncMsg, AckMsg

\* A broadcast reaches the subscriptions and nothing else.
LEMMA BroadcastTypes ==
  ASSUME TypeOK, NEW m \in Messages, Broadcast(m)
  PROVE  sub' \in [Tabs -> Subs] /\ pipe' \in [Tabs -> Seq(Messages)]
BY DEF TypeOK, RoomTypeOK, Broadcast, Subs

LEMMA SendTransientTypes ==
  ASSUME TypeOK, NEW m \in Messages, NEW t, SendTransient(t, m)
  PROVE  pipe' \in [Tabs -> Seq(Messages)]
BY DEF TypeOK, RoomTypeOK, SendTransient

\* The events after a number are the log's, from the first of them on.
LEMMA ReplayIsSuffix ==
  ASSUME TypeOK, LogNumbered, NEW s \in Nat
  PROVE  /\ ReadEventsAfter(s) \in Seq(Events)
         /\ Len(ReadEventsAfter(s)) = (IF s <= Len(log) THEN Len(log) - s ELSE 0)
         /\ \A i \in 1..Len(ReadEventsAfter(s)) : ReadEventsAfter(s)[i] = log[s + i]
<1> DEFINE at == IF s <= Len(log) THEN s + 1 ELSE Len(log) + 1
            IsFirst(n) == \A i \in 1..Len(log) : i >= n <=> log[i].seq > s
            first == CHOOSE n \in 1..(Len(log) + 1) : IsFirst(n)
<1>1. log \in Seq(Events) /\ Len(log) \in Nat BY DEF TypeOK, HubTypeOK
<1>2. \A i \in 1..Len(log) : log[i].seq = i BY DEF LogNumbered
<1>3. at \in 1..(Len(log) + 1) /\ IsFirst(at) BY <1>1, <1>2
<1>4. first \in 1..(Len(log) + 1) /\ IsFirst(first) BY <1>3
<1>5. first = at
 <2>1. CASE first < at BY <1>1, <1>3, <1>4, <2>1
 <2>2. CASE at < first BY <1>1, <1>3, <1>4, <2>2
 <2> QED BY <1>1, <1>3, <1>4, <2>1, <2>2
<1>6. ReadEventsAfter(s) = SubSeq(log, at, Len(log)) BY <1>5 DEF ReadEventsAfter
<1> HIDE DEF first, IsFirst
<1> DEFINE r == SubSeq(log, at, Len(log))
<1>7. at \in Int /\ Len(log) \in Int /\ \A i \in at..Len(log) : log[i] \in Events BY <1>1, <1>3
<1>8. /\ r \in Seq(Events)
      /\ Len(r) = IF at <= Len(log) THEN Len(log) - at + 1 ELSE 0
      /\ \A i \in 1..(Len(log) - at + 1) : r[i] = log[at + i - 1]
 <2> HIDE DEF at
 <2> QED BY <1>7, SubSeqProperties
<1> HIDE DEF r
<1>9. /\ Len(r) = IF s <= Len(log) THEN Len(log) - s ELSE 0
      /\ \A i \in 1..Len(r) : r[i] = log[s + i]
 <2>1. CASE s <= Len(log)
  <3>1. at = s + 1 BY <2>1
  <3> HIDE DEF at
  <3>2. Len(r) = Len(log) - s BY <1>1, <1>8, <2>1, <3>1
  <3>3. \A i \in 1..Len(r) : i \in 1..(Len(log) - at + 1) /\ at + i - 1 = s + i BY <1>1, <2>1, <3>1, <3>2
  <3> QED BY <1>8, <2>1, <3>2, <3>3
 <2>2. CASE ~(s <= Len(log))
  <3>1. at = Len(log) + 1 BY <2>2
  <3> HIDE DEF at
  <3>2. Len(r) = 0 BY <1>1, <1>8, <3>1
  <3> QED BY <2>2, <3>2
 <2> QED BY <2>1, <2>2
<1> QED BY <1>6, <1>8, <1>9 DEF r

\* Without removes one occurrence and keeps the order of the others.
LEMMA WithoutShape ==
  ASSUME NEW S, NEW s \in Seq(S), NEW p
  PROVE  /\ Without(s, p) \in Seq(S)
         /\ p \notin Elements(s) => Without(s, p) = s
         /\ p \in Elements(s) => \E at \in 1..Len(s) :
              /\ s[at] = p /\ Len(Without(s, p)) = Len(s) - 1
              /\ \A i \in 1..(Len(s) - 1) :
                   Without(s, p)[i] = s[IF i < at THEN i ELSE i + 1]
<1>1. CASE p \notin Elements(s) BY <1>1 DEF Without
<1>2. CASE p \in Elements(s)
 <2> DEFINE at == CHOOSE i \in 1..Len(s) : s[i] = p
 <2>1. at \in 1..Len(s) /\ s[at] = p BY <1>2 DEF Elements
 <2>2. Without(s, p) = SubSeq(s, 1, at - 1) \o SubSeq(s, at + 1, Len(s)) BY <1>2 DEF Without
 <2> HIDE DEF at
 <2>3. /\ SubSeq(s, 1, at - 1) \in Seq(S) /\ Len(SubSeq(s, 1, at - 1)) = at - 1
       /\ \A i \in 1..(at - 1) : SubSeq(s, 1, at - 1)[i] = s[i]
  BY <2>1
 <2>4. /\ SubSeq(s, at + 1, Len(s)) \in Seq(S) /\ Len(SubSeq(s, at + 1, Len(s))) = Len(s) - at
       /\ \A i \in 1..(Len(s) - at) : SubSeq(s, at + 1, Len(s))[i] = s[at + i]
  BY <2>1
 <2>5. /\ Without(s, p) \in Seq(S) /\ Len(Without(s, p)) = Len(s) - 1
       /\ \A i \in 1..(Len(s) - 1) :
            Without(s, p)[i] = s[IF i < at THEN i ELSE i + 1]
  <3> DEFINE a == SubSeq(s, 1, at - 1)
              b == SubSeq(s, at + 1, Len(s))
  <3>3. a \in Seq(S) /\ b \in Seq(S) /\ Without(s, p) = a \o b BY <2>2, <2>3, <2>4
  <3>4. Len(a) = at - 1 /\ Len(b) = Len(s) - at /\ \A i \in 1..(at - 1) : a[i] = s[i] BY <2>3, <2>4
  <3>5. \A i \in 1..(Len(s) - at) : b[i] = s[at + i] BY <2>4
  <3> HIDE DEF a, b
  <3>6. /\ a \o b \in Seq(S) /\ Len(a \o b) = Len(a) + Len(b)
        /\ \A i \in 1..(Len(a) + Len(b)) :
             (a \o b)[i] = IF i <= Len(a) THEN a[i] ELSE b[i - Len(a)]
   BY <3>3, ConcatProperties
  <3>1. Without(s, p) \in Seq(S) /\ Len(Without(s, p)) = Len(s) - 1 BY <2>1, <3>3, <3>4, <3>6
  <3>2. ASSUME NEW i \in 1..(Len(s) - 1)
        PROVE  Without(s, p)[i] = s[IF i < at THEN i ELSE i + 1]
   <4>1. CASE i < at
    <5>1. i \in 1..(Len(a) + Len(b)) /\ i <= Len(a) /\ i \in 1..(at - 1) BY <4>1, <2>1, <3>4
    <5> QED BY <4>1, <5>1, <3>3, <3>4, <3>6
   <4>2. CASE ~(i < at)
    <5>1. /\ i \in 1..(Len(a) + Len(b)) /\ ~(i <= Len(a))
          /\ i - Len(a) \in 1..(Len(s) - at) /\ at + (i - Len(a)) = i + 1
     BY <4>2, <2>1, <3>4
    <5> QED BY <4>2, <5>1, <3>3, <3>5, <3>6
   <4> QED BY <4>1, <4>2
  <3> QED BY <3>1, <3>2
 <2> QED BY <1>2, <2>1, <2>5
<1> QED BY <1>1, <1>2

LEMMA WithoutTypes ==
  ASSUME NEW S, NEW s \in Seq(S), NEW p
  PROVE  Without(s, p) \in Seq(S)
BY WithoutShape

----
\* Types, numbers and connections, step by step.

LEMMA NumbersKept ==
  ASSUME Structure, UNCHANGED <<log, minted, turn, runs>>
  PROVE  LogNumbered' /\ MintedByRuns'
BY DEF Structure, LogNumbered, MintedByRuns, Remaining

LEMMA LoadStructure ==
  ASSUME Structure, NEW t \in Tabs, Load(t)
  PROVE  Structure'
<1>1. Elements(log) \subseteq Events /\ Len(log) \in Nat
 <2>1. log \in Seq(Events) BY DEF Structure, TypeOK, HubTypeOK
 <2>2. \A i \in 1..Len(log) : log[i] \in Events BY <2>1
 <2> QED BY <2>1, <2>2 DEF Elements
<1>2. TypeOK'
 <2>1. HubTypeOK' /\ RoomTypeOK' /\ PromptTypeOK'
  BY DEF Structure, TypeOK, HubTypeOK, RoomTypeOK, PromptTypeOK, Load, hubVars,
         wireVars, ghostVars
 <2>2. TabTypeOK' BY <1>1 DEF Structure, TypeOK, TabTypeOK, Load, SyncStatus
 <2> QED BY <2>1, <2>2 DEF TypeOK
<1>3. Connected' BY DEF Structure, TypeOK, TabTypeOK, Connected, Load, hubVars
<1> QED BY <1>2, <1>3, NumbersKept DEF Load, hubVars, Structure

LEMMA DialStructure ==
  ASSUME Structure, NEW t \in Tabs, Dial(t)
  PROVE  Structure'
<1>1. TypeOK'
 BY DEF Structure, TypeOK, HubTypeOK, RoomTypeOK, TabTypeOK, PromptTypeOK, Dial,
        hubVars, wireVars, ghostVars
<1>2. Connected' BY DEF Structure, TypeOK, TabTypeOK, Connected, Dial, hubVars
<1> QED BY <1>1, <1>2, NumbersKept DEF Dial, hubVars, Structure

LEMMA OpenStructure ==
  ASSUME Structure, NEW t \in Tabs, Open(t)
  PROVE  Structure'
<1> DEFINE replay == ReadEventsAfter(since[t])
            missed == [i \in 1..Len(replay) |-> EventMsg(replay[i])]
<1>1. replay \in Seq(Events) /\ Len(replay) \in Nat
 <2>1. TypeOK /\ LogNumbered /\ since[t] \in Nat BY DEF Structure, TypeOK, TabTypeOK
 <2>2. replay \in Seq(Events) BY <2>1, ReplayIsSuffix
 <2> HIDE DEF replay
 <2> QED BY <2>2
<1>5. /\ pipe' = [pipe EXCEPT ![t] = Append(missed, SyncMsg(Running))]
      /\ cap' = [cap EXCEPT ![t] = Len(replay) + LiveBuffer]
      /\ sub' = [sub EXCEPT ![t] = "live"]
 BY DEF Open, SubscribeAfter
<1>2. missed \in Seq(Messages)
 <2> HIDE DEF replay
 <2>1. \A i \in 1..Len(replay) : EventMsg(replay[i]) \in Messages BY <1>1, MessagesSent
 <2> QED BY <1>1, <2>1
<1>3. SyncMsg(Running) \in Messages BY MessagesSent DEF Running
<1> HIDE DEF missed, replay
<1>4. Append(missed, SyncMsg(Running)) \in Seq(Messages) BY <1>2, <1>3
<1>6. TypeOK'
 <2>1. RoomTypeOK' BY <1>1, <1>4, <1>5, ChatFacts DEF Structure, TypeOK, RoomTypeOK, Subs
 <2>2. HubTypeOK' /\ PromptTypeOK' BY DEF Structure, TypeOK, HubTypeOK, PromptTypeOK, Open, wireVars, ghostVars
 <2>3. TabTypeOK' BY DEF Structure, TypeOK, TabTypeOK, Open
 <2> QED BY <2>1, <2>2, <2>3 DEF TypeOK
<1>7. Connected' BY <1>5 DEF Structure, TypeOK, RoomTypeOK, TabTypeOK, Connected, Open
<1> QED BY <1>6, <1>7, NumbersKept DEF Open, Structure

\* A connection that goes leaves prompts at most.
LEMMA DisconnectTypes ==
  ASSUME TypeOK, NEW t \in Tabs, Disconnect(t), UNCHANGED <<cap, queue, typed, started, dropped>>
  PROVE  RoomTypeOK' /\ PromptTypeOK' /\ asker' \in Tabs \cup {Nobody}
<1> DEFINE old == [i \in 1..Len(uplink[t]) |-> Sent(uplink[t][i].prompt, FALSE)]
<1>1. PICK kept \in BOOLEAN :
        uplink' = [uplink EXCEPT ![t] = IF kept /\ sub[t] # "dead" THEN old ELSE <<>>]
 BY DEF Disconnect
<1>2. uplink \in [Tabs -> Seq(SentPrompts)] /\ uplink[t] \in Seq(SentPrompts) /\ Len(uplink[t]) \in Nat
 BY DEF TypeOK, PromptTypeOK
<1>3. old \in Seq(SentPrompts)
 <2>1. \A i \in 1..Len(uplink[t]) : uplink[t][i] \in SentPrompts BY <1>2
 <2>2. \A i \in 1..Len(uplink[t]) : Sent(uplink[t][i].prompt, FALSE) \in SentPrompts BY <2>1 DEF Sent, SentPrompts
 <2>3. old \in [1..Len(uplink[t]) -> SentPrompts] BY <2>2
 <2> QED BY <1>2, <2>3, FunctionIsSeq
<1> HIDE DEF old
<1>4. uplink' \in [Tabs -> Seq(SentPrompts)]
 <2>1. CASE kept /\ sub[t] # "dead" BY <1>1, <1>2, <1>3, <2>1
 <2>2. CASE ~(kept /\ sub[t] # "dead") BY <1>1, <1>2, <2>2
 <2> QED BY <2>1, <2>2
<1>5. RoomTypeOK' /\ asker' \in Tabs \cup {Nobody} BY DEF TypeOK, HubTypeOK, RoomTypeOK, Disconnect, Subs
<1>6. verdict' \in [Tabs -> Seq(Messages)] /\ \A u \in Tabs : Len(verdict'[u]) <= 1 BY DEF TypeOK, PromptTypeOK, Disconnect
<1> QED BY <1>4, <1>5, <1>6 DEF TypeOK, PromptTypeOK

LEMMA ConnLostStructure ==
  ASSUME Structure, NEW t \in Tabs, ConnLost(t)
  PROVE  Structure'
<1>1. TypeOK'
 <2>1. RoomTypeOK' /\ PromptTypeOK' /\ asker' \in Tabs \cup {Nobody} BY DisconnectTypes DEF Structure, ConnLost, ghostVars
 <2>2. HubTypeOK' BY <2>1, ChatFacts DEF Structure, TypeOK, HubTypeOK, ConnLost, Fault
 <2>3. TabTypeOK' BY DEF Structure, TypeOK, TabTypeOK, ConnLost
 <2> QED BY <2>1, <2>2, <2>3 DEF TypeOK
<1>2. Connected' BY DEF Structure, TypeOK, RoomTypeOK, TabTypeOK, Connected, ConnLost, Disconnect
<1> QED BY <1>1, <1>2, NumbersKept DEF ConnLost, Structure

LEMMA ReloadStructure ==
  ASSUME Structure, NEW t \in Tabs, Reload(t)
  PROVE  Structure'
<1>1. TypeOK'
 <2>1. RoomTypeOK' /\ PromptTypeOK' /\ asker' \in Tabs \cup {Nobody} BY DisconnectTypes DEF Structure, Reload, ghostVars
 <2>2. HubTypeOK' BY <2>1, ChatFacts DEF Structure, TypeOK, HubTypeOK, Reload, Fault
 <2>3. TabTypeOK' BY DEF Structure, TypeOK, TabTypeOK, Reload
 <2> QED BY <2>1, <2>2, <2>3 DEF TypeOK
<1>2. Connected' BY DEF Structure, TypeOK, RoomTypeOK, TabTypeOK, Connected, Reload, Disconnect
<1> QED BY <1>1, <1>2, NumbersKept DEF Reload, Structure

LEMMA ReceiveStructure ==
  ASSUME Structure, NEW t \in Tabs, Receive(t)
  PROVE  Structure'
<1>1. /\ pipe[t] \in Seq(Messages) /\ pipe[t] # <<>> /\ Head(pipe[t]) \in Messages
      /\ Tail(pipe[t]) \in Seq(Messages)
 BY DEF Structure, TypeOK, RoomTypeOK, Receive
<1>2. Connected' BY <1>1 DEF Structure, TypeOK, TabTypeOK, RoomTypeOK, Connected, Receive, ReceiveEvent, ReceiveSync, ReceiveAck
<1>3. TypeOK'
 <2>1. RoomTypeOK' /\ HubTypeOK' BY <1>1 DEF Structure, TypeOK, RoomTypeOK, HubTypeOK, Receive
 <2>2. CASE ReceiveEvent(t)
  <3>1. Head(pipe[t]).event \in Events BY <1>1, <2>2, MessageTypes DEF ReceiveEvent
  <3>2. TabTypeOK' BY <2>2, <3>1 DEF Structure, TypeOK, TabTypeOK, Receive, ReceiveEvent
  <3>3. PromptTypeOK' BY <2>2 DEF Structure, TypeOK, PromptTypeOK, Receive, ReceiveEvent, wireVars, ghostVars
  <3> QED BY <2>1, <3>2, <3>3 DEF TypeOK
 <2>3. CASE ReceiveSync(t)
  <3>1. TabTypeOK' BY <1>1, <2>3 DEF Structure, TypeOK, TabTypeOK, Receive, ReceiveSync, SyncStatus
  <3>2. PromptTypeOK' BY <2>3 DEF Structure, TypeOK, PromptTypeOK, Receive, ReceiveSync, wireVars, ghostVars
  <3> QED BY <2>1, <3>1, <3>2 DEF TypeOK
 <2>4. CASE ReceiveAck(t)
  <3>1. TabTypeOK' BY <2>4 DEF Structure, TypeOK, TabTypeOK, Receive, ReceiveAck
  <3>2. queue[t] \in Seq(Prompts) BY DEF Structure, TypeOK, PromptTypeOK
  <3>3. PromptsAfterOutcome(queue[t], Head(pipe[t])) \in Seq(Prompts) BY <3>2, WithoutTypes DEF PromptsAfterOutcome
  <3>4. PromptTypeOK' BY <2>4, <3>3 DEF Structure, TypeOK, PromptTypeOK, Receive, ReceiveAck, wireVars, ghostVars
  <3> QED BY <2>1, <3>1, <3>4 DEF TypeOK
 <2> QED BY <2>2, <2>3, <2>4 DEF Receive
<1> QED BY <1>2, <1>3, NumbersKept DEF Receive, Structure

LEMMA FlushStructure ==
  ASSUME Structure, NEW t \in Tabs, Flush(t)
  PROVE  Structure'
<1> DEFINE shown == Elements(batch[t]) \cup {Event(cursor[t], 0, FALSE)}
<1>1. /\ batch[t] \in Seq(Events) /\ Len(batch[t]) \in Nat /\ batch[t] # <<>>
      /\ cursor[t] \in Nat /\ view[t] \subseteq Events
 BY DEF Structure, TypeOK, TabTypeOK, Flush
<1>2. \A i \in 1..Len(batch[t]) : batch[t][i] \in Events BY <1>1
<1>3. LatestSequence(shown) \in Nat
 <2>1. \A e \in shown : e.seq \in 0..(cursor[t] + 3 * MaxRuns)
  <3>1. ASSUME NEW e \in Elements(batch[t]) PROVE e.seq \in 0..(cursor[t] + 3 * MaxRuns)
   <4>1. e \in Events BY <1>2 DEF Elements
   <4> QED BY <1>1, <4>1, EventTypes, ChatFacts
  <3>2. Event(cursor[t], 0, FALSE).seq \in 0..(cursor[t] + 3 * MaxRuns) BY <1>1, ChatFacts DEF Event
  <3> QED BY <3>1, <3>2
 <2>2. cursor[t] + 3 * MaxRuns \in Nat BY <1>1, ChatFacts
 <2> HIDE DEF shown
 <2>3. LatestSequence(shown) \in 0..(cursor[t] + 3 * MaxRuns) BY <2>1, <2>2, LatestIsLargest
 <2> QED BY <2>2, <2>3
<1>4. MergeEvents(view[t], batch[t]) \subseteq Events BY <1>1, <1>2 DEF MergeEvents
<1>5. TypeOK'
 <2>1. HubTypeOK' /\ RoomTypeOK' /\ PromptTypeOK'
  BY DEF Structure, TypeOK, HubTypeOK, RoomTypeOK, PromptTypeOK, Flush, hubVars,
         wireVars, ghostVars
 <2>2. /\ cursor' = [cursor EXCEPT ![t] = LatestSequence(shown)]
       /\ view' = [view EXCEPT ![t] = MergeEvents(view[t], batch[t])]
       /\ status' = [status EXCEPT ![t] = StatusAfter(batch[t][Len(batch[t])], status[t])]
       /\ batch' = [batch EXCEPT ![t] = <<>>]
       /\ UNCHANGED <<link, since, synced, rewind>>
  BY DEF Flush
 <2> HIDE DEF shown
 <2>3. TabTypeOK' BY <1>1, <1>3, <1>4, <2>2 DEF Structure, TypeOK, TabTypeOK, StatusAfter
 <2> QED BY <2>1, <2>3 DEF TypeOK
<1>6. Connected' BY DEF Structure, TypeOK, TabTypeOK, Connected, Flush, hubVars
<1> QED BY <1>5, <1>6, NumbersKept DEF Flush, hubVars, Structure

LEMMA TypeStructure ==
  ASSUME Structure, NEW t \in Tabs, NEW p \in Prompts, Type(t, p)
  PROVE  Structure'
<1>1. TypeOK'
 <2>1. Append(queue[t], p) \in Seq(Prompts) /\ Append(typed[t], p) \in Seq(Prompts) BY DEF Structure, TypeOK, PromptTypeOK
 <2>2. PromptTypeOK' BY <2>1 DEF Structure, TypeOK, PromptTypeOK, Type, wireVars
 <2>3. HubTypeOK' /\ RoomTypeOK' /\ TabTypeOK' BY DEF Structure, TypeOK, HubTypeOK, RoomTypeOK, TabTypeOK, Type, hubVars
 <2> QED BY <2>2, <2>3 DEF TypeOK
<1>2. Connected' BY DEF Structure, Connected, Type, hubVars
<1> QED BY <1>1, <1>2, NumbersKept DEF Type, hubVars, Structure

LEMMA RemoveStructure ==
  ASSUME Structure, NEW t \in Tabs, NEW p \in Prompts, Remove(t, p)
  PROVE  Structure'
<1>1. TypeOK'
 <2>1. queue[t] \in Seq(Prompts) BY DEF Structure, TypeOK, PromptTypeOK
 <2>2. Without(queue[t], p) \in Seq(Prompts) BY <2>1, WithoutTypes
 <2>3. PromptTypeOK' BY <2>2 DEF Structure, TypeOK, PromptTypeOK, Remove, wireVars
 <2>4. RoomTypeOK' /\ TabTypeOK' BY DEF Structure, TypeOK, RoomTypeOK, TabTypeOK, Remove, hubVars
 <2>5. HubTypeOK' BY ChatFacts DEF Structure, TypeOK, HubTypeOK, Remove, hubVars, Fault
 <2> QED BY <2>3, <2>4, <2>5 DEF TypeOK
<1>2. Connected' BY DEF Structure, Connected, Remove, hubVars
<1> QED BY <1>1, <1>2, NumbersKept DEF Remove, hubVars, Structure

\* A prompt that is sent closes the tab's window.
LEMMA SendStructure ==
  ASSUME Structure, NEW t \in Tabs, NEW p \in Prompts \cup {Untracked}, SendPrompt(t, p),
         faults' \in 0..MaxFaults
  PROVE  Structure'
<1>1. TypeOK'
 <2>1. Sent(p, TRUE) \in SentPrompts BY DEF Sent, SentPrompts
 <2>5. Append(uplink[t], Sent(p, TRUE)) \in Seq(SentPrompts)
  <3>1. uplink[t] \in Seq(SentPrompts) BY DEF Structure, TypeOK, PromptTypeOK
  <3> QED BY <2>1, <3>1, AppendProperties
 <2>2. PromptTypeOK' BY <2>5 DEF Structure, TypeOK, PromptTypeOK, SendPrompt, ghostVars
 <2>3. RoomTypeOK' /\ HubTypeOK' BY DEF Structure, TypeOK, RoomTypeOK, HubTypeOK, SendPrompt, hubVars
 <2>4. TabTypeOK' BY DEF Structure, TypeOK, TabTypeOK, SendPrompt
 <2> QED BY <2>2, <2>3, <2>4 DEF TypeOK
<1>2. Connected' BY DEF Structure, Connected, SendPrompt, hubVars
<1> QED BY <1>1, <1>2, NumbersKept DEF SendPrompt, hubVars, Structure

LEMMA DispatchStructure ==
  ASSUME Structure, NEW t \in Tabs, Dispatch(t)
  PROVE  Structure'
<1>1. Head(queue[t]) \in Prompts BY DEF Structure, TypeOK, PromptTypeOK, Dispatch
<1>2. faults' \in 0..MaxFaults BY DEF Structure, TypeOK, HubTypeOK, Dispatch
<1> QED BY <1>1, <1>2, SendStructure DEF Dispatch

LEMMA SendDirectStructure ==
  ASSUME Structure, NEW t \in Tabs, SendDirect(t)
  PROVE  Structure'
<1>1. faults' \in 0..MaxFaults BY ChatFacts DEF Structure, TypeOK, HubTypeOK, SendDirect, Fault
<1> QED BY <1>1, SendStructure DEF SendDirect

----
\* The handler.

LEMMA DecideTypes ==
  ASSUME TypeOK, NEW t \in Tabs, NEW accepted \in BOOLEAN, uplink[t] # <<>>,
         Decide(t, accepted), UNCHANGED <<tabVars, typed, dropped>>
  PROVE  /\ PromptTypeOK' /\ Asker(t) \in Tabs \cup {Nobody}
         /\ Head(uplink[t]) \in SentPrompts
<1> DEFINE sent == Head(uplink[t])
<1>1. sent \in SentPrompts /\ Tail(uplink[t]) \in Seq(SentPrompts) BY DEF TypeOK, PromptTypeOK
<1>2. sent.prompt \in Prompts \cup {Untracked} /\ sent.live \in BOOLEAN BY <1>1 DEF SentPrompts
<1>3. sent.prompt # Untracked => AckMsg(sent.prompt, accepted) \in Messages BY <1>2, MessagesSent
<1>4. uplink' \in [Tabs -> Seq(SentPrompts)] BY <1>1 DEF TypeOK, PromptTypeOK, Decide
<1>5. verdict' \in [Tabs -> Seq(Messages)] /\ \A u \in Tabs : Len(verdict'[u]) <= 1 BY <1>3 DEF TypeOK, PromptTypeOK, Decide
<1>6. started' \subseteq Prompts \cup {Untracked} BY <1>2 DEF TypeOK, PromptTypeOK, Decide
<1>7. queue' \in [Tabs -> Seq(Prompts)] /\ typed' \in [Tabs -> Seq(Prompts)] /\ dropped' \subseteq Prompts
 BY DEF TypeOK, PromptTypeOK, tabVars
<1> QED BY <1>1, <1>4, <1>5, <1>6, <1>7 DEF PromptTypeOK, Asker

\* A run is started in a free room, and told in it.
LEMMA StartStructure ==
  ASSUME Structure, NEW a \in Tabs \cup {Nobody}, ~Running, runs < MaxRuns, StartRun(a),
         runs' = runs + 1, UNCHANGED <<log, minted, hand, cap, tabVars, rewind>>,
         faults' \in 0..MaxFaults, PromptTypeOK'
  PROVE  Structure'
<1>1. SyncMsg(TRUE) \in Messages /\ TypeOK BY MessagesSent DEF Structure
<1>2. sub' \in [Tabs -> Subs] /\ pipe' \in [Tabs -> Seq(Messages)] BY <1>1, BroadcastTypes DEF StartRun
<1>3. HubTypeOK' BY ChatFacts DEF Structure, TypeOK, HubTypeOK, StartRun, Turns
<1>4. RoomTypeOK' /\ TabTypeOK' BY <1>2 DEF Structure, TypeOK, RoomTypeOK, TabTypeOK, tabVars
<1>5. LogNumbered' BY DEF Structure, LogNumbered
<1>6. MintedByRuns' BY <1>1 DEF Structure, TypeOK, HubTypeOK, MintedByRuns, Remaining, Running, StartRun
<1>7. Connected' BY DEF Structure, TypeOK, RoomTypeOK, Connected, StartRun, Broadcast, Fits, tabVars
<1> QED BY <1>3, <1>4, <1>5, <1>6, <1>7 DEF Structure, TypeOK

LEMMA AcceptStructure ==
  ASSUME Structure, NEW t \in Tabs, AcceptPrompt(t)
  PROVE  Structure'
<1>1. PromptTypeOK' /\ Asker(t) \in Tabs \cup {Nobody} BY DecideTypes DEF Structure, AcceptPrompt, Readable
<1>2. faults' \in 0..MaxFaults BY DEF Structure, TypeOK, HubTypeOK, AcceptPrompt
<1> QED BY <1>1, <1>2, StartStructure DEF AcceptPrompt

LEMMA RejectStructure ==
  ASSUME Structure, NEW t \in Tabs, RejectPrompt(t)
  PROVE  Structure'
<1>1. PromptTypeOK' BY DecideTypes DEF Structure, RejectPrompt, Readable
<1>2. pipe' \in [Tabs -> Seq(Messages)] BY MessagesSent, SendTransientTypes DEF Structure, RejectPrompt
<1>3. faults' \in 0..MaxFaults BY ChatFacts DEF Structure, TypeOK, HubTypeOK, RejectPrompt, Fault
<1>4. HubTypeOK' /\ RoomTypeOK' /\ TabTypeOK'
 BY <1>2, <1>3 DEF Structure, TypeOK, HubTypeOK, RoomTypeOK, TabTypeOK, RejectPrompt, tabVars
<1>5. Connected' BY DEF Structure, TypeOK, RoomTypeOK, Connected, RejectPrompt, SendTransient, Fits, tabVars
<1> QED BY <1>1, <1>4, <1>5, NumbersKept DEF Structure, TypeOK, RejectPrompt

LEMMA AcknowledgeStructure ==
  ASSUME Structure, NEW t \in Tabs, Acknowledge(t)
  PROVE  Structure'
<1>1. verdict[t][1] \in Messages BY DEF Structure, TypeOK, PromptTypeOK, Acknowledge
<1>2. pipe' \in [Tabs -> Seq(Messages)] BY <1>1, SendTransientTypes DEF Structure, Acknowledge
<1>3. PromptTypeOK' BY DEF Structure, TypeOK, PromptTypeOK, Acknowledge, tabVars, ghostVars
<1>4. HubTypeOK' /\ RoomTypeOK' /\ TabTypeOK'
 BY <1>2 DEF Structure, TypeOK, HubTypeOK, RoomTypeOK, TabTypeOK, Acknowledge, tabVars
<1>5. Connected' BY DEF Structure, TypeOK, RoomTypeOK, Connected, Acknowledge, SendTransient, Fits, tabVars
<1> QED BY <1>3, <1>4, <1>5, NumbersKept DEF Structure, TypeOK, Acknowledge

----
\* Rewinds.

LEMMA RewindStructure ==
  ASSUME Structure, NEW t \in Tabs,
         \/ RewindAsk(t) \/ RewindCheck(t) \/ RewindPage(t)
  PROVE  Structure'
<1>1. PICK step \in [at : {"none", "asked", "checked", "truncated", "paged"},
                     from : Nat, page : Seq(Events)] : rewind' = [rewind EXCEPT ![t] = step]
 <2>1. rewind[t] \in [at : {"none", "asked", "checked", "truncated", "paged"},
                      from : Nat, page : Seq(Events)] /\ log \in Seq(Events)
  BY DEF Structure, TypeOK, TabTypeOK, HubTypeOK
 <2>2. CASE RewindAsk(t)
  <3>1. PICK ev \in view[t] :
          rewind' = [rewind EXCEPT ![t] = [at |-> "asked", from |-> ev.id, page |-> <<>>]]
   BY <2>2 DEF RewindAsk, RewindTo
  <3>2. ev \in Events BY <3>1 DEF Structure, TypeOK, TabTypeOK
  <3>3. ev.id \in Nat BY <3>2, EventTypes, ChatFacts
  <3>4. <<>> \in Seq(Events) OBVIOUS
  <3> QED BY <3>1, <3>3, <3>4
 <2>3. CASE RewindCheck(t)
  <3>1. <<>> \in Seq(Events) OBVIOUS
  <3> QED BY <2>1, <2>3, <3>1 DEF RewindCheck, RewindTo, NoRewind
 <2>4. CASE RewindPage(t) BY <2>1, <2>4 DEF RewindPage, RewindTo
 <2> QED BY <2>2, <2>3, <2>4
<1>2. UNCHANGED <<hubVars, tabVars, wireVars, runs, ghostVars>> /\ faults' \in 0..MaxFaults
 BY ChatFacts DEF Structure, TypeOK, HubTypeOK, RewindAsk, RewindCheck, RewindPage, Fault
<1>3. TypeOK'
 <2>1. HubTypeOK' /\ RoomTypeOK' /\ PromptTypeOK'
  BY <1>2 DEF Structure, TypeOK, HubTypeOK, RoomTypeOK, PromptTypeOK, hubVars, tabVars,
              wireVars, ghostVars
 <2>2. TabTypeOK' BY <1>1, <1>2 DEF Structure, TypeOK, TabTypeOK, tabVars
 <2> QED BY <2>1, <2>2 DEF TypeOK
<1>4. Connected' BY <1>2 DEF Structure, Connected, hubVars, tabVars
<1> QED BY <1>2, <1>3, <1>4, NumbersKept DEF Structure, hubVars

\* What is left of the log is its beginning.
LEMMA TruncateShape ==
  ASSUME TypeOK, NEW id, TruncateEventsBefore(id)
  PROVE  \E n \in 0..Len(log) :
           /\ \A i \in 1..Len(log) : i <= n <=> log[i].id < id
           /\ log' \in Seq(Events) /\ Len(log') = n
           /\ \A i \in 1..n : log'[i] = log[i]
<1>1. PICK n \in 0..Len(log) : /\ \A i \in 1..Len(log) : i <= n <=> log[i].id < id
                               /\ log' = SubSeq(log, 1, n)
 BY DEF TruncateEventsBefore
<1>2. log \in Seq(Events) /\ Len(log) \in Nat BY DEF TypeOK, HubTypeOK
<1>3. \A i \in 1..n : log[i] \in Events BY <1>2
<1> DEFINE r == SubSeq(log, 1, n)
<1>4. r \in Seq(Events) /\ Len(r) = n /\ \A i \in 1..n : r[i] = log[i]
 <2>1. /\ r \in Seq(Events)
       /\ Len(r) = IF 1 <= n THEN n - 1 + 1 ELSE 0
       /\ \A i \in 1..(n - 1 + 1) : r[i] = log[1 + i - 1]
  BY <1>3, SubSeqProperties
 <2> HIDE DEF r
 <2> QED BY <2>1
<1> HIDE DEF r
<1>5. log' \in Seq(Events) /\ Len(log') = n /\ \A i \in 1..n : log'[i] = log[i] BY <1>1, <1>4 DEF r
<1> QED BY <1>1, <1>5

LEMMA TruncateStructure ==
  ASSUME Structure, NEW t \in Tabs, RewindTruncate(t)
  PROVE  Structure'
<1>1. PICK n \in 0..Len(log) :
        log' \in Seq(Events) /\ Len(log') = n /\ \A i \in 1..n : log'[i] = log[i]
 BY TruncateShape DEF Structure, RewindTruncate
<1>2. LogNumbered'
 <2>1. log \in Seq(Events) /\ Len(log) \in Nat /\ minted \in Nat /\ n <= Len(log) BY DEF Structure, TypeOK, HubTypeOK
 <2>2. minted' = minted BY DEF RewindTruncate
 <2>3. \A i \in 1..n : i \in 1..Len(log) BY <2>1
 <2>4. \A i \in 1..n : log'[i].seq = i /\ log'[i].id <= minted BY <1>1, <2>3 DEF Structure, LogNumbered
 <2>5. \A i, j \in 1..n : i < j => log'[i].id < log'[j].id BY <1>1, <2>3 DEF Structure, LogNumbered
 <2> QED BY <1>1, <2>1, <2>2, <2>4, <2>5 DEF Structure, LogNumbered
<1>3. MintedByRuns' BY DEF Structure, MintedByRuns, Remaining, RewindTruncate
<1>4. HubTypeOK' /\ RoomTypeOK' /\ PromptTypeOK'
 BY <1>1 DEF Structure, TypeOK, HubTypeOK, RoomTypeOK, PromptTypeOK, RewindTruncate, tabVars,
             wireVars, ghostVars
<1>5. TabTypeOK' BY DEF Structure, TypeOK, TabTypeOK, RewindTruncate, RewindTo, tabVars
<1>6. Connected' BY DEF Structure, Connected, RewindTruncate, tabVars
<1> QED BY <1>2, <1>3, <1>4, <1>5, <1>6 DEF Structure, TypeOK

LEMMA ElementsTypes ==
  ASSUME NEW S, NEW s \in Seq(S)
  PROVE  Elements(s) \subseteq S
<1>1. \A i \in 1..Len(s) : s[i] \in S OBVIOUS
<1> QED BY <1>1 DEF Elements

LEMMA ApplyStructure ==
  ASSUME Structure, NEW t \in Tabs, RewindApply(t)
  PROVE  Structure'
<1>1. rewind[t].page \in Seq(Events) /\ queue[t] \in Seq(Prompts) BY DEF Structure, TypeOK, TabTypeOK, PromptTypeOK
<1>2. /\ Elements(rewind[t].page) \subseteq Events /\ Len(rewind[t].page) \in Nat
      /\ Elements(queue[t]) \subseteq Prompts
 BY <1>1, ElementsTypes
<1>3. TypeOK'
 <2>1. HubTypeOK' /\ RoomTypeOK' BY DEF Structure, TypeOK, HubTypeOK, RoomTypeOK, RewindApply, hubVars
 <2>2. PromptTypeOK' BY <1>2 DEF Structure, TypeOK, PromptTypeOK, RewindApply, wireVars
 <2>3. TabTypeOK' BY <1>2 DEF Structure, TypeOK, TabTypeOK, RewindApply, RewindTo, NoRewind
 <2> QED BY <2>1, <2>2, <2>3 DEF TypeOK
<1>4. Connected' BY DEF Structure, TypeOK, TabTypeOK, Connected, RewindApply, hubVars
<1> QED BY <1>3, <1>4, NumbersKept DEF Structure, RewindApply, hubVars

----
\* The server.

LEMMA ElsewhereStructure ==
  ASSUME Structure, StartElsewhere
  PROVE  Structure'
<1>1. runs < MaxRuns BY ChatFacts DEF Structure, TypeOK, HubTypeOK, StartElsewhere
<1>2. PromptTypeOK' /\ faults' \in 0..MaxFaults
 BY DEF Structure, TypeOK, HubTypeOK, PromptTypeOK, StartElsewhere, TabsAside, tabVars, wireVars, ghostVars
<1> QED BY <1>1, <1>2, StartStructure DEF StartElsewhere, TabsAside

\* An event that is appended carries the next number and the largest id.
LEMMA EmitShape ==
  ASSUME Structure, NEW from, NEW to, NEW final \in BOOLEAN, Emit(from, to, final),
         turn \in {"begun", "asked", "working"}
  PROVE  \E ev \in Events :
           /\ ev = Event(Len(log) + 1, minted + 1, final)
           /\ log' = Append(log, ev) /\ hand' = <<ev>> /\ minted' = minted + 1
<1>1. /\ log \in Seq(Events) /\ Len(log) \in Nat /\ minted \in Nat /\ runs \in 0..MaxRuns
      /\ Len(log) <= minted
 BY DEF Structure, TypeOK, HubTypeOK, LogNumbered
<1>2. LastSeq = Len(log) BY <1>1 DEF Structure, LogNumbered, LastSeq
<1>3. minted + 1 \in 0..3 * MaxRuns BY <1>1, ChatFacts DEF Structure, MintedByRuns, Remaining
<1>4. Len(log) + 1 \in 0..3 * MaxRuns BY <1>1, <1>3, ChatFacts
<1>5. Event(Len(log) + 1, minted + 1, final) \in Events BY <1>3, <1>4 DEF Events
<1> QED BY <1>2, <1>5 DEF Emit, AppendEvent

LEMMA EmitStructure ==
  ASSUME Structure, EmitUser \/ EmitProgress \/ EmitFinal, UNCHANGED <<runs, faults>>, TabsAside
  PROVE  Structure'
<1>1. PICK final \in BOOLEAN : \E from, to :
        /\ Emit(from, to, final)
        /\ turn \in {"begun", "asked", "working"} /\ to \in Turns
 BY DEF EmitUser, EmitProgress, EmitFinal, Emit, Turns
<1>2. PICK ev \in Events :
        /\ ev = Event(Len(log) + 1, minted + 1, final)
        /\ log' = Append(log, ev) /\ hand' = <<ev>> /\ minted' = minted + 1
 BY <1>1, EmitShape
<1>3. turn' \in Turns /\ UNCHANGED <<asker, sub, pipe, cap>> BY <1>1 DEF Emit
<1>4. ev.seq = Len(log) + 1 /\ ev.id = minted + 1 BY <1>2 DEF Event
<1>5. log \in Seq(Events) /\ minted \in Nat /\ runs \in Nat BY DEF Structure, TypeOK, HubTypeOK
<1>6. LogNumbered'
 <2>1. /\ Len(log') = Len(log) + 1 /\ log'[Len(log) + 1] = ev
       /\ \A i \in 1..Len(log) : log'[i] = log[i]
  BY <1>2, <1>5
 <2>2. /\ Len(log) \in Nat /\ Len(log) <= minted
       /\ \A i \in 1..Len(log) : log[i].seq = i /\ log[i].id <= minted /\ log[i].id \in Nat
       /\ \A i, j \in 1..Len(log) : i < j => log[i].id < log[j].id
  <3>1. \A i \in 1..Len(log) : log[i] \in Events BY <1>5
  <3> QED BY <1>5, <3>1, EventTypes, ChatFacts DEF Structure, LogNumbered
 <2> DEFINE n == Len(log) + 1
 <2>3. \A i \in 1..n : i = n \/ i \in 1..Len(log) BY <2>2
 <2>4. \A i \in 1..n : log'[i].seq = i /\ log'[i].id <= minted' BY <1>2, <1>4, <1>5, <2>1, <2>2, <2>3
 <2>5. \A i, j \in 1..n : i < j => log'[i].id < log'[j].id
  <3>1. ASSUME NEW i \in 1..n, NEW j \in 1..n, i < j PROVE log'[i].id < log'[j].id
   <4>1. i \in 1..Len(log) BY <2>2, <3>1
   <4>2. CASE j = n BY <1>4, <1>5, <2>1, <2>2, <4>1, <4>2
   <4>3. CASE j \in 1..Len(log) BY <2>1, <2>2, <3>1, <4>1, <4>3
   <4> QED BY <2>3, <4>2, <4>3
  <3> QED BY <3>1
 <2> QED BY <1>2, <1>5, <2>1, <2>2, <2>4, <2>5 DEF LogNumbered
<1>7. MintedByRuns'
 <2>1. CASE EmitUser BY <1>2, <1>5, <2>1 DEF Structure, MintedByRuns, Remaining, EmitUser, Emit
 <2>2. CASE EmitProgress BY <1>2, <1>5, <2>2 DEF Structure, MintedByRuns, Remaining, EmitProgress, Emit
 <2>3. CASE EmitFinal
  <3>1. turn' = "closed" /\ turn \in {"asked", "working"} BY <2>3 DEF EmitFinal, Emit
  <3>2. minted + 1 <= 3 * runs BY <1>5, <3>1 DEF Structure, MintedByRuns, Remaining
  <3> QED BY <1>2, <1>5, <3>1, <3>2 DEF MintedByRuns, Remaining
 <2> QED BY <2>1, <2>2, <2>3
<1>8. HubTypeOK' BY <1>2, <1>3, <1>5 DEF Structure, TypeOK, HubTypeOK
<1>9. RoomTypeOK' /\ TabTypeOK' /\ PromptTypeOK'
 BY <1>3 DEF Structure, TypeOK, RoomTypeOK, TabTypeOK, PromptTypeOK, TabsAside, tabVars,
             wireVars, ghostVars
<1>10. Connected' BY <1>3 DEF Structure, Connected, TabsAside, tabVars
<1> QED BY <1>6, <1>7, <1>8, <1>9, <1>10 DEF Structure, TypeOK

\* What is told in the room leaves the log as it is.
LEMMA BroadcastStructure ==
  ASSUME Structure, NEW m \in Messages, Broadcast(m), HubTypeOK', MintedByRuns',
         UNCHANGED <<log, minted, cap, runs>>, TabsAside
  PROVE  Structure'
<1>1. sub' \in [Tabs -> Subs] /\ pipe' \in [Tabs -> Seq(Messages)] BY BroadcastTypes DEF Structure
<1>2. RoomTypeOK' /\ TabTypeOK' /\ PromptTypeOK'
 BY <1>1 DEF Structure, TypeOK, RoomTypeOK, TabTypeOK, PromptTypeOK, TabsAside, tabVars,
             wireVars, ghostVars
<1>3. Connected' BY DEF Structure, TypeOK, RoomTypeOK, Connected, Broadcast, Fits, TabsAside, tabVars
<1>4. LogNumbered' BY DEF Structure, LogNumbered
<1> QED BY <1>2, <1>3, <1>4 DEF Structure, TypeOK

LEMMA RunStepStructure ==
  ASSUME Structure, RunStep
  PROVE  Structure'
<1>1. UNCHANGED <<runs, faults>> /\ TabsAside BY DEF RunStep
<1>2. CASE EmitUser \/ EmitProgress \/ EmitFinal BY <1>1, <1>2, EmitStructure
<1>3. CASE BroadcastEvent
 <2>1. hand \in Seq(Events) /\ hand # <<>> BY <1>3 DEF Structure, TypeOK, HubTypeOK, BroadcastEvent
 <2>2. EventMsg(Head(hand)) \in Messages BY <2>1, MessagesSent
 <2>3. HubTypeOK' /\ MintedByRuns' BY <1>1, <1>3 DEF Structure, TypeOK, HubTypeOK, MintedByRuns, Remaining, BroadcastEvent
 <2> QED BY <1>1, <1>3, <2>2, <2>3, BroadcastStructure DEF BroadcastEvent
<1>4. CASE EndRun
 <2>1. SyncMsg(FALSE) \in Messages BY MessagesSent
 <2>2. HubTypeOK' /\ MintedByRuns'
  BY <1>1, <1>4 DEF Structure, TypeOK, HubTypeOK, MintedByRuns, Remaining, EndRun, FinishRun, Turns
 <2> QED BY <1>1, <1>4, <2>1, <2>2, BroadcastStructure DEF EndRun, FinishRun
<1> QED BY <1>2, <1>3, <1>4 DEF RunStep

LEMMA RefuseStructure ==
  ASSUME Structure, RefuseRun
  PROVE  Structure'
<1>1. pipe' \in [Tabs -> Seq(Messages)] BY MessagesSent, SendTransientTypes DEF Structure, RefuseRun, ReportError
<1>2. HubTypeOK' BY ChatFacts DEF Structure, TypeOK, HubTypeOK, RefuseRun, ReportError, Fault, Turns
<1>3. RoomTypeOK' /\ TabTypeOK' /\ PromptTypeOK'
 BY <1>1 DEF Structure, TypeOK, RoomTypeOK, TabTypeOK, PromptTypeOK, RefuseRun, ReportError,
             TabsAside, tabVars, wireVars, ghostVars
<1>4. LogNumbered' BY DEF Structure, LogNumbered, RefuseRun, ReportError
<1>5. MintedByRuns' BY DEF Structure, TypeOK, HubTypeOK, MintedByRuns, Remaining, RefuseRun, ReportError
<1>6. Connected'
 BY DEF Structure, TypeOK, RoomTypeOK, Connected, RefuseRun, ReportError, SendTransient, Fits,
        TabsAside, tabVars
<1> QED BY <1>2, <1>3, <1>4, <1>5, <1>6 DEF Structure, TypeOK

LEMMA CrashStructure ==
  ASSUME Structure, Crash
  PROVE  Structure'
<1>1. HubTypeOK' BY ChatFacts DEF Structure, TypeOK, HubTypeOK, Crash, HubCrash, Fault, Turns
<1>2. RoomTypeOK' BY DEF Structure, TypeOK, RoomTypeOK, Crash, HubCrash, Subs
<1>3. TabTypeOK' BY DEF Structure, TypeOK, TabTypeOK, Crash, NoRewind
<1>4. PromptTypeOK' BY DEF Structure, TypeOK, PromptTypeOK, Crash, ghostVars
<1>5. LogNumbered' BY DEF Structure, LogNumbered, Crash, HubCrash
<1>6. MintedByRuns' BY DEF Structure, TypeOK, HubTypeOK, MintedByRuns, Remaining, Crash, HubCrash
<1>7. Connected' BY DEF Structure, TypeOK, RoomTypeOK, TabTypeOK, Connected, Crash, HubCrash
<1> QED BY <1>1, <1>2, <1>3, <1>4, <1>5, <1>6, <1>7 DEF Structure, TypeOK

----
LEMMA InitStructure == Init => Structure
<1> SUFFICES ASSUME Init PROVE Structure OBVIOUS
<1>1. HubTypeOK /\ RoomTypeOK BY ChatFacts DEF Init, HubInit, HubTypeOK, RoomTypeOK, Turns, Subs
<1>2. TabTypeOK BY DEF Init, TabTypeOK, NoRewind
<1>3. PromptTypeOK BY DEF Init, PromptTypeOK
<1>4. LogNumbered /\ MintedByRuns BY DEF Init, HubInit, LogNumbered, MintedByRuns, Remaining
<1>5. Connected BY DEF Init, HubInit, Connected
<1> QED BY <1>1, <1>2, <1>3, <1>4, <1>5 DEF Structure, TypeOK

LEMMA StructureKept == Structure /\ [Next]_vars => Structure'
<1> SUFFICES ASSUME Structure, [Next]_vars PROVE Structure' OBVIOUS
<1>1. ASSUME NEW t \in Tabs, TabStep(t) PROVE Structure'
 BY <1>1, LoadStructure, DialStructure, OpenStructure, ConnLostStructure, ReloadStructure,
    ReceiveStructure, FlushStructure, TypeStructure, RemoveStructure, DispatchStructure,
    SendDirectStructure, RewindStructure, TruncateStructure, ApplyStructure DEF TabStep
<1>2. ASSUME NEW t \in Tabs, HandlerStep(t) PROVE Structure'
 BY <1>2, AcceptStructure, RejectStructure, AcknowledgeStructure DEF HandlerStep
<1>3. CASE StartElsewhere \/ RunStep \/ RefuseRun \/ Crash
 BY <1>3, ElsewhereStructure, RunStepStructure, RefuseStructure, CrashStructure
<1>4. CASE UNCHANGED vars
 <2>1. TypeOK'
  BY <1>4 DEF Structure, TypeOK, HubTypeOK, RoomTypeOK, TabTypeOK, PromptTypeOK, vars,
              hubVars, tabVars, wireVars, ghostVars
 <2>2. Connected' BY <1>4 DEF Structure, Connected, vars, hubVars, tabVars
 <2> QED BY <1>4, <2>1, <2>2, NumbersKept DEF Structure, vars, hubVars
<1> QED BY <1>1, <1>2, <1>3, <1>4 DEF Next

\* Theorem: every variable has its type; the store numbers the log without gaps,
\* also after TruncateEventsBefore; and only a socket that is up has a subscription.
THEOREM StructureAlways == Spec => []Structure
<1> QED BY InitStructure, StructureKept, PTL DEF Spec

----
\* The queue of a tab.

\* Messages to a tab are those it had, those its handler decided, events and syncs.
PipeOrigins ==
  \A t \in Tabs : \A k \in 1..Len(pipe'[t]) :
    \/ pipe'[t][k].kind # "ack"
    \/ \E j \in 1..Len(pipe[t]) : pipe'[t][k] = pipe[t][j]
    \/ \E j \in 1..Len(verdict[t]) : pipe'[t][k] = verdict[t][j]

LEMMA MessageKinds ==
  /\ \A ev : EventMsg(ev).kind = "event" /\ EventMsg(ev).event = ev
  /\ \A b : SyncMsg(b).kind = "sync" /\ SyncMsg(b).running = b
  /\ \A p, b : /\ AckMsg(p, b).kind = "ack" /\ AckMsg(p, b).prompt = p
               /\ AckMsg(p, b).accepted = b
BY DEF EventMsg, SyncMsg, AckMsg

\* A subscription that takes part in a broadcast has the message last.
LEMMA BroadcastShape ==
  ASSUME TypeOK, NEW m \in Messages, Broadcast(m), NEW t \in Tabs
  PROVE  /\ ~Fits(t) => pipe'[t] = pipe[t]
         /\ Fits(t) => /\ Len(pipe'[t]) = Len(pipe[t]) + 1
                       /\ pipe'[t][Len(pipe[t]) + 1] = m
                       /\ \A k \in 1..Len(pipe[t]) : pipe'[t][k] = pipe[t][k]
         /\ sub'[t] = (IF sub[t] = "live" /\ ~Fits(t) THEN "cut" ELSE sub[t])
<1>1. pipe[t] \in Seq(Messages) BY DEF TypeOK, RoomTypeOK
<1> QED BY <1>1 DEF Broadcast

LEMMA SendShape ==
  ASSUME TypeOK, NEW m \in Messages, NEW a, SendTransient(a, m), NEW t \in Tabs
  PROVE  /\ ~(t = a /\ Fits(t)) => pipe'[t] = pipe[t]
         /\ t = a /\ Fits(t) => /\ Len(pipe'[t]) = Len(pipe[t]) + 1
                                /\ pipe'[t][Len(pipe[t]) + 1] = m
                                /\ \A k \in 1..Len(pipe[t]) : pipe'[t][k] = pipe[t][k]
<1>1. pipe[t] \in Seq(Messages) /\ pipe \in [Tabs -> Seq(Messages)] BY DEF TypeOK, RoomTypeOK
<1>2. CASE a \in Tabs /\ Fits(a)
 <2>1. pipe' = [pipe EXCEPT ![a] = Append(@, m)] BY <1>2 DEF SendTransient
 <2> QED BY <1>1, <1>2, <2>1
<1>3. CASE ~(a \in Tabs /\ Fits(a)) BY <1>1, <1>3 DEF SendTransient
<1> QED BY <1>2, <1>3

LEMMA BroadcastOrigins ==
  ASSUME TypeOK, NEW m \in Messages, Broadcast(m), m.kind # "ack"
  PROVE  PipeOrigins
<1> SUFFICES ASSUME NEW t \in Tabs, NEW k \in 1..Len(pipe'[t])
              PROVE  \/ pipe'[t][k].kind # "ack"
                     \/ \E j \in 1..Len(pipe[t]) : pipe'[t][k] = pipe[t][j]
 BY DEF PipeOrigins
<1>1. pipe[t] \in Seq(Messages) BY DEF TypeOK, RoomTypeOK
<1> QED BY <1>1, BroadcastShape

LEMMA SendOrigins ==
  ASSUME TypeOK, NEW m \in Messages, NEW a, SendTransient(a, m),
         m.kind # "ack" \/ \E j \in 1..Len(verdict[a]) : m = verdict[a][j]
  PROVE  PipeOrigins
<1> SUFFICES ASSUME NEW t \in Tabs, NEW k \in 1..Len(pipe'[t])
              PROVE  \/ pipe'[t][k].kind # "ack"
                     \/ \E j \in 1..Len(pipe[t]) : pipe'[t][k] = pipe[t][j]
                     \/ \E j \in 1..Len(verdict[t]) : pipe'[t][k] = verdict[t][j]
 BY DEF PipeOrigins
<1>1. pipe[t] \in Seq(Messages) BY DEF TypeOK, RoomTypeOK
<1> QED BY <1>1, SendShape

LEMMA OriginsUnchanged ==
  ASSUME UNCHANGED pipe
  PROVE  PipeOrigins
BY DEF PipeOrigins

\* A new connection brings the replay and a sync.
LEMMA OpenShape ==
  ASSUME Structure, NEW t \in Tabs, Open(t)
  PROVE  /\ \A u \in Tabs \ {t} : pipe'[u] = pipe[u] /\ sub'[u] = sub[u]
         /\ sub'[t] = "live"
         /\ Len(pipe'[t]) = (IF since[t] <= Len(log) THEN Len(log) - since[t] ELSE 0) + 1
         /\ \A k \in 1..(Len(pipe'[t]) - 1) : pipe'[t][k] = EventMsg(log[since[t] + k])
         /\ pipe'[t][Len(pipe'[t])] = SyncMsg(Running)
<1> DEFINE replay == ReadEventsAfter(since[t])
            missed == [i \in 1..Len(replay) |-> EventMsg(replay[i])]
<1>1. TypeOK /\ LogNumbered /\ since[t] \in Nat /\ Len(log) \in Nat BY DEF Structure, TypeOK, HubTypeOK, TabTypeOK
<1>2. /\ replay \in Seq(Events)
      /\ Len(replay) = (IF since[t] <= Len(log) THEN Len(log) - since[t] ELSE 0)
      /\ \A i \in 1..Len(replay) : replay[i] = log[since[t] + i]
 BY <1>1, ReplayIsSuffix
<1>3. /\ pipe' = [pipe EXCEPT ![t] = Append(missed, SyncMsg(Running))]
      /\ sub' = [sub EXCEPT ![t] = "live"]
 BY DEF Open, SubscribeAfter
<1> HIDE DEF replay
<1>4. Len(replay) \in Nat BY <1>2
<1>5. \A i \in 1..Len(replay) : EventMsg(replay[i]) \in Messages BY <1>2, MessagesSent
<1>6. missed \in [1..Len(replay) -> Messages] BY <1>5
<1>7. missed \in Seq(Messages) /\ Len(missed) = Len(replay) BY <1>4, <1>6, FunctionIsSeq
<1>8. \A i \in 1..Len(replay) : missed[i] = EventMsg(log[since[t] + i]) BY <1>2
<1> HIDE DEF missed
<1>9. pipe \in [Tabs -> Seq(Messages)] /\ sub \in [Tabs -> Subs] BY <1>1 DEF TypeOK, RoomTypeOK
<1>10. pipe'[t] = Append(missed, SyncMsg(Running)) BY <1>3, <1>9
<1>11. Len(pipe'[t]) = Len(replay) + 1 /\ pipe'[t][Len(replay) + 1] = SyncMsg(Running) BY <1>7, <1>10
<1>12. \A k \in 1..Len(replay) : pipe'[t][k] = EventMsg(log[since[t] + k]) BY <1>7, <1>8, <1>10
<1>13. (Len(replay) + 1) - 1 = Len(replay) BY <1>4
<1> QED BY <1>2, <1>3, <1>9, <1>11, <1>12, <1>13

LEMMA OpenOrigins ==
  ASSUME Structure, NEW t \in Tabs, Open(t)
  PROVE  PipeOrigins
<1>1. ASSUME NEW u \in Tabs, NEW k \in 1..Len(pipe'[u])
      PROVE  pipe'[u][k].kind # "ack" \/ \E j \in 1..Len(pipe[u]) : pipe'[u][k] = pipe[u][j]
 <2>1. CASE u # t BY <1>1, <2>1, OpenShape
 <2>2. CASE u = t
  <3>3. since[t] \in Nat /\ Len(log) \in Nat BY DEF Structure, TypeOK, TabTypeOK, HubTypeOK
  <3>1. Len(pipe'[t]) \in Nat BY <3>3, OpenShape
  <3>2. k = Len(pipe'[t]) \/ k \in 1..(Len(pipe'[t]) - 1) BY <1>1, <2>2, <3>1
  <3> QED BY <2>2, <3>2, OpenShape, MessageKinds
 <2> QED BY <2>1, <2>2
<1> QED BY <1>1 DEF PipeOrigins

\* The first message is taken from the pipe.
LEMMA ReceiveShape ==
  ASSUME TypeOK, NEW t \in Tabs, Receive(t)
  PROVE  /\ pipe[t] \in Seq(Messages) /\ Len(pipe[t]) \in Nat \ {0}
         /\ Head(pipe[t]) = pipe[t][1] /\ pipe[t][1] \in Messages
         /\ \A u \in Tabs \ {t} : pipe'[u] = pipe[u]
         /\ Len(pipe'[t]) = Len(pipe[t]) - 1
         /\ \A k \in 1..Len(pipe'[t]) : pipe'[t][k] = pipe[t][k + 1]
<1>1. pipe \in [Tabs -> Seq(Messages)] /\ pipe[t] \in Seq(Messages) /\ pipe[t] # <<>> BY DEF TypeOK, RoomTypeOK, Receive
<1>2. pipe' = [pipe EXCEPT ![t] = Tail(@)] BY DEF Receive
<1> QED BY <1>1, <1>2

LEMMA PipeFrom ==
  ASSUME Structure, [Next]_vars
  PROVE  PipeOrigins
<1> USE DEF Structure
<1>1. ASSUME NEW t \in Tabs, Load(t) \/ Dial(t) \/ Flush(t) \/ RewindAsk(t) \/ RewindCheck(t)
               \/ RewindTruncate(t) \/ RewindPage(t) \/ RewindApply(t) \/ Dispatch(t) \/ SendDirect(t)
               \/ (\E p \in Prompts : Type(t, p) \/ Remove(t, p))
      PROVE  PipeOrigins
 BY <1>1, OriginsUnchanged DEF Load, Dial, Flush, RewindAsk, RewindCheck, RewindTruncate, RewindPage,
    RewindApply, Dispatch, SendDirect, SendPrompt, Type, Remove, hubVars
<1>2. ASSUME NEW t \in Tabs, ConnLost(t) \/ Reload(t) PROVE PipeOrigins
 <2>1. pipe' = [pipe EXCEPT ![t] = <<>>] BY <1>2 DEF ConnLost, Reload, Disconnect
 <2>2. pipe \in [Tabs -> Seq(Messages)] BY DEF TypeOK, RoomTypeOK
 <2> QED BY <2>1, <2>2 DEF PipeOrigins
<1>3. ASSUME NEW t \in Tabs, Receive(t) PROVE PipeOrigins
 <2> SUFFICES ASSUME NEW u \in Tabs, NEW k \in 1..Len(pipe'[u])
               PROVE  \E j \in 1..Len(pipe[u]) : pipe'[u][k] = pipe[u][j]
  BY DEF PipeOrigins
 <2>1. CASE u = t
  <3>1. k + 1 \in 1..Len(pipe[t]) BY <1>3, <2>1, ReceiveShape
  <3> QED BY <1>3, <2>1, <3>1, ReceiveShape
 <2>2. CASE u # t BY <1>3, <2>2, ReceiveShape
 <2> QED BY <2>1, <2>2
<1>4. ASSUME NEW a, StartRun(a) PROVE PipeOrigins BY <1>4, BroadcastOrigins, MessagesSent, MessageKinds DEF StartRun
<1>5. ASSUME NEW t \in Tabs, RejectPrompt(t) PROVE PipeOrigins BY <1>5, SendOrigins, MessagesSent, MessageKinds DEF RejectPrompt
<1>6. ASSUME NEW t \in Tabs, Acknowledge(t) PROVE PipeOrigins
 <2>1. verdict[t] \in Seq(Messages) /\ verdict[t] # <<>> BY <1>6 DEF TypeOK, PromptTypeOK, Acknowledge
 <2>2. verdict[t][1] \in Messages /\ 1 \in 1..Len(verdict[t]) BY <2>1
 <2> QED BY <1>6, <2>2, SendOrigins DEF Acknowledge
<1>7. CASE RunStep
 <2>1. CASE EmitUser \/ EmitProgress \/ EmitFinal BY <2>1, OriginsUnchanged DEF EmitUser, EmitProgress, EmitFinal, Emit
 <2>2. CASE BroadcastEvent
  <3>1. Head(hand) \in Events BY <2>2 DEF BroadcastEvent, TypeOK, HubTypeOK
  <3> QED BY <2>2, <3>1, BroadcastOrigins, MessagesSent, MessageKinds DEF BroadcastEvent
 <2>3. CASE EndRun BY <2>3, BroadcastOrigins, MessagesSent, MessageKinds DEF EndRun, FinishRun
 <2> QED BY <1>7, <2>1, <2>2, <2>3 DEF RunStep
<1>8. CASE RefuseRun BY <1>8, SendOrigins, MessagesSent, MessageKinds DEF RefuseRun, ReportError
<1>9. CASE Crash BY <1>9, OriginsUnchanged DEF Crash, HubCrash
<1>10. CASE UNCHANGED vars BY <1>10, OriginsUnchanged DEF vars, hubVars
<1>11. ASSUME NEW t \in Tabs, TabStep(t) \/ HandlerStep(t) PROVE PipeOrigins
 BY <1>11, <1>1, <1>2, <1>3, <1>4, <1>5, <1>6, OpenOrigins DEF TabStep, HandlerStep, AcceptPrompt
<1>12. CASE StartElsewhere BY <1>4, <1>12 DEF StartElsewhere
<1> QED BY <1>7, <1>8, <1>9, <1>10, <1>11, <1>12 DEF Next

\* A connection that goes leaves the prompts it carried or none, and no verdict.
LEMMA DisconnectShape ==
  ASSUME TypeOK, NEW t \in Tabs, Disconnect(t)
  PROVE  /\ \A u \in Tabs \ {t} : uplink'[u] = uplink[u] /\ verdict'[u] = verdict[u]
         /\ verdict'[t] = <<>>
         /\ uplink'[t] = <<>> \/ ( /\ Len(uplink'[t]) = Len(uplink[t])
                                  /\ \A k \in 1..Len(uplink[t]) :
                                       uplink'[t][k].prompt = uplink[t][k].prompt )
<1> DEFINE old == [i \in 1..Len(uplink[t]) |-> Sent(uplink[t][i].prompt, FALSE)]
<1>1. PICK kept \in BOOLEAN :
        uplink' = [uplink EXCEPT ![t] = IF kept /\ sub[t] # "dead" THEN old ELSE <<>>]
 BY DEF Disconnect
<1>2. /\ uplink \in [Tabs -> Seq(SentPrompts)] /\ Len(uplink[t]) \in Nat
      /\ verdict \in [Tabs -> Seq(Messages)]
 BY DEF TypeOK, PromptTypeOK
<1>3. Len(old) = Len(uplink[t])
 <2>1. old \in [1..Len(uplink[t]) -> {old[i] : i \in 1..Len(uplink[t])}] OBVIOUS
 <2> QED BY <1>2, <2>1, FunctionIsSeq
<1>4. \A k \in 1..Len(uplink[t]) : old[k].prompt = uplink[t][k].prompt BY DEF Sent
<1>5. verdict' = [verdict EXCEPT ![t] = <<>>] BY DEF Disconnect
<1> HIDE DEF old
<1> QED BY <1>1, <1>2, <1>3, <1>4, <1>5

\* What a decision makes of the prompt that was first.
LEMMA DecideShape ==
  ASSUME TypeOK, NEW t \in Tabs, NEW accepted \in BOOLEAN, uplink[t] # <<>>, Decide(t, accepted)
  PROVE  /\ Len(uplink[t]) \in Nat \ {0} /\ Head(uplink[t]) = uplink[t][1]
         /\ \A u \in Tabs \ {t} : uplink'[u] = uplink[u] /\ verdict'[u] = verdict[u]
         /\ Len(uplink'[t]) = Len(uplink[t]) - 1
         /\ \A k \in 1..Len(uplink'[t]) : uplink'[t][k] = uplink[t][k + 1]
         /\ \/ verdict'[t] = verdict[t]
            \/ verdict'[t] = <<AckMsg(uplink[t][1].prompt, accepted)>>
         /\ started' = IF accepted THEN started \cup {uplink[t][1].prompt} ELSE started
<1>1. /\ uplink \in [Tabs -> Seq(SentPrompts)] /\ uplink[t] \in Seq(SentPrompts)
      /\ verdict \in [Tabs -> Seq(Messages)]
 BY DEF TypeOK, PromptTypeOK
<1>2. Head(uplink[t]) = uplink[t][1] BY <1>1
<1> QED BY <1>1, <1>2 DEF Decide

\* The prompts, and the steps that move them.
promptVars == <<queue, typed, uplink, started, dropped>>

LEMMA PromptSteps ==
  ASSUME Structure, [Next]_vars
  PROVE  \/ UNCHANGED promptVars
         \/ /\ UNCHANGED <<queue, typed, started, dropped>>
            /\ \A t \in Tabs : \A k \in 1..Len(uplink'[t]) :
                 \E j \in 1..Len(uplink[t]) : uplink'[t][k].prompt = uplink[t][j].prompt
         \/ \E t \in Tabs :
              \/ Receive(t) /\ ReceiveAck(t)
              \/ \E p \in Prompts : Type(t, p) \/ Remove(t, p)
              \/ Dispatch(t) \/ SendDirect(t) \/ RewindApply(t)
              \/ AcceptPrompt(t) \/ RejectPrompt(t)
<1>1. ASSUME NEW t \in Tabs, ConnLost(t) \/ Reload(t)
      PROVE  /\ UNCHANGED <<queue, typed, started, dropped>>
             /\ \A u \in Tabs : \A k \in 1..Len(uplink'[u]) :
                  \E j \in 1..Len(uplink[u]) : uplink'[u][k].prompt = uplink[u][j].prompt
 <2>1. Disconnect(t) /\ UNCHANGED <<queue, typed, started, dropped>> /\ TypeOK BY <1>1 DEF ConnLost, Reload, ghostVars, Structure
 <2>2. ASSUME NEW u \in Tabs, NEW k \in 1..Len(uplink'[u])
       PROVE  \E j \in 1..Len(uplink[u]) : uplink'[u][k].prompt = uplink[u][j].prompt
  <3>1. CASE u = t BY <2>1, <2>2, <3>1, DisconnectShape
  <3>2. CASE u # t BY <2>1, <2>2, <3>2, DisconnectShape
  <3> QED BY <3>1, <3>2
 <2> QED BY <2>1, <2>2
<1>2. CASE Crash
 <2>1. UNCHANGED <<queue, typed, started, dropped>> BY <1>2 DEF Crash, ghostVars
 <2>2. \A t \in Tabs : Len(uplink'[t]) = 0 BY <1>2 DEF Crash
 <2> QED BY <2>1, <2>2
<1>3. ASSUME NEW t \in Tabs,
             \/ Load(t) \/ Dial(t) \/ Open(t) \/ Flush(t)
             \/ RewindAsk(t) \/ RewindCheck(t) \/ RewindTruncate(t) \/ RewindPage(t)
             \/ (Receive(t) /\ (ReceiveEvent(t) \/ ReceiveSync(t))) \/ Acknowledge(t)
      PROVE  UNCHANGED promptVars
 BY <1>3 DEF Load, Dial, Open, Flush, RewindAsk, RewindCheck, RewindTruncate, RewindPage,
    Receive, ReceiveEvent, ReceiveSync, Acknowledge, promptVars, wireVars, ghostVars, tabVars
<1>4. CASE StartElsewhere \/ RunStep \/ RefuseRun
 BY <1>4 DEF StartElsewhere, RunStep, RefuseRun, TabsAside, promptVars, wireVars, ghostVars, tabVars
<1>5. CASE UNCHANGED vars BY <1>5 DEF vars, promptVars, wireVars, ghostVars, tabVars
<1>6. ASSUME NEW t \in Tabs, TabStep(t) \/ HandlerStep(t)
      PROVE  \/ UNCHANGED promptVars
             \/ ConnLost(t) \/ Reload(t)
             \/ Receive(t) /\ ReceiveAck(t)
             \/ \E p \in Prompts : Type(t, p) \/ Remove(t, p)
             \/ Dispatch(t) \/ SendDirect(t) \/ RewindApply(t)
             \/ AcceptPrompt(t) \/ RejectPrompt(t)
 <2>1. CASE Receive(t)
  <3>1. ReceiveEvent(t) \/ ReceiveSync(t) \/ ReceiveAck(t) BY <2>1 DEF Receive
  <3> QED BY <2>1, <3>1, <1>3
 <2> QED BY <1>6, <2>1, <1>3 DEF TabStep, HandlerStep
<1> QED BY <1>1, <1>2, <1>4, <1>5, <1>6 DEF Next

\* Started and given-up prompts stay so.
LEMMA HistoryGrows ==
  ASSUME Structure, [Next]_vars
  PROVE  started \subseteq started' /\ dropped \subseteq dropped'
<1>1. ASSUME NEW t \in Tabs,
             \/ Receive(t) /\ ReceiveAck(t)
             \/ \E p \in Prompts : Type(t, p) \/ Remove(t, p)
             \/ Dispatch(t) \/ SendDirect(t) \/ RewindApply(t)
             \/ AcceptPrompt(t) \/ RejectPrompt(t)
      PROVE  started \subseteq started' /\ dropped \subseteq dropped'
 BY <1>1 DEF Receive, Type, Remove, Dispatch, SendDirect, SendPrompt, RewindApply, AcceptPrompt,
    RejectPrompt, Decide, ghostVars
<1> QED BY <1>1, PromptSteps DEF promptVars

\* Where the verdicts come from.
LEMMA VerdictFrom ==
  ASSUME Structure, [Next]_vars, NEW t \in Tabs, NEW k \in 1..Len(verdict'[t])
  PROVE  \/ \E j \in 1..Len(verdict[t]) : verdict'[t][k] = verdict[t][j]
         \/ verdict'[t][k].kind = "ack" /\ AckTrue(verdict'[t][k], started')
<1>1. TypeOK /\ verdict \in [Tabs -> Seq(Messages)] BY DEF Structure, TypeOK, PromptTypeOK
<1>2. ASSUME NEW u \in Tabs, ConnLost(u) \/ Reload(u)
      PROVE  verdict'[t] = verdict[t] \/ verdict'[t] = <<>>
 BY <1>1, <1>2, DisconnectShape DEF ConnLost, Reload
<1>3. ASSUME NEW u \in Tabs, Acknowledge(u)
      PROVE  verdict'[t] = verdict[t] \/ verdict'[t] = <<>>
 BY <1>1, <1>3 DEF Acknowledge
<1>4. ASSUME Crash
      PROVE  verdict'[t] = <<>>
 BY <1>4 DEF Crash
<1>5. ASSUME NEW u \in Tabs, AcceptPrompt(u) \/ RejectPrompt(u)
      PROVE  \/ verdict'[t] = verdict[t]
             \/ \E p, b : /\ verdict'[t] = <<AckMsg(p, b)>> /\ (b => p \in started')
 <2>1. PICK accepted \in BOOLEAN : uplink[u] # <<>> /\ Decide(u, accepted) BY <1>5 DEF AcceptPrompt, RejectPrompt, Readable
 <2>2. CASE t = u
  <3>1. \/ verdict'[t] = verdict[t]
        \/ verdict'[t] = <<AckMsg(uplink[t][1].prompt, accepted)>>
   BY <1>1, <2>1, <2>2, DecideShape
  <3>2. accepted => uplink[t][1].prompt \in started' BY <1>1, <2>1, <2>2, DecideShape
  <3> QED BY <3>1, <3>2
 <2>3. CASE t # u BY <1>1, <2>1, <2>3, DecideShape
 <2> QED BY <2>2, <2>3
<1>6. \/ verdict' = verdict
      \/ \E u \in Tabs : ConnLost(u) \/ Reload(u) \/ Acknowledge(u) \/ AcceptPrompt(u) \/ RejectPrompt(u)
      \/ Crash
 <2>1. ASSUME NEW u \in Tabs, TabStep(u) \/ HandlerStep(u)
       PROVE  \/ verdict' = verdict
              \/ ConnLost(u) \/ Reload(u) \/ Acknowledge(u) \/ AcceptPrompt(u) \/ RejectPrompt(u)
  BY <2>1 DEF TabStep, HandlerStep, Load, Dial, Open, Receive, Flush, Type, Remove, Dispatch,
     SendDirect, SendPrompt, RewindAsk, RewindCheck, RewindTruncate, RewindPage, RewindApply, wireVars
 <2>2. CASE StartElsewhere \/ RunStep \/ RefuseRun \/ UNCHANGED vars
  BY <2>2 DEF StartElsewhere, RunStep, RefuseRun, TabsAside, wireVars, vars
 <2> QED BY <2>1, <2>2 DEF Next
<1>7. \/ verdict'[t] = verdict[t] \/ verdict'[t] = <<>>
      \/ \E p, b : /\ verdict'[t] = <<AckMsg(p, b)>> /\ (b => p \in started')
 BY <1>2, <1>3, <1>4, <1>5, <1>6
<1>8. CASE \E p, b : verdict'[t] = <<AckMsg(p, b)>> /\ (b => p \in started') BY <1>8, MessageKinds DEF AckTrue
<1> QED BY <1>7, <1>8

LEMMA AcksStayTrue ==
  ASSUME Structure, AcksTrue, [Next]_vars
  PROVE  AcksTrue'
<1>1. started \subseteq started' BY HistoryGrows
<1>2. \A m : AckTrue(m, started) => AckTrue(m, started') BY <1>1 DEF AckTrue
<1>3. ASSUME NEW t \in Tabs, NEW k \in 1..Len(pipe'[t]) PROVE AckTrue(pipe'[t][k], started')
 <2>1. \/ pipe'[t][k].kind # "ack"
       \/ \E j \in 1..Len(pipe[t]) : pipe'[t][k] = pipe[t][j]
       \/ \E j \in 1..Len(verdict[t]) : pipe'[t][k] = verdict[t][j]
  BY <1>3, PipeFrom DEF PipeOrigins
 <2>2. CASE pipe'[t][k].kind # "ack" BY <2>2 DEF AckTrue
 <2> QED BY <1>2, <2>1, <2>2 DEF AcksTrue
<1>4. ASSUME NEW t \in Tabs, NEW k \in 1..Len(verdict'[t])
      PROVE  verdict'[t][k].kind = "ack" /\ AckTrue(verdict'[t][k], started')
 BY <1>2, <1>4, VerdictFrom DEF AcksTrue
<1> QED BY <1>3, <1>4 DEF AcksTrue

----
LEMMA WithoutKeeps ==
  ASSUME NEW S, NEW s \in Seq(S), NEW p, NEW w, w = Without(s, p)
  PROVE  /\ Elements(w) \subseteq Elements(s)
         /\ Elements(s) \subseteq Elements(w) \cup {p}
         /\ \A i, j \in 1..Len(w) : i < j =>
              \E a, b \in 1..Len(s) : a < b /\ w[i] = s[a] /\ w[j] = s[b]
<1>1. CASE p \notin Elements(s) BY <1>1, WithoutShape
<1>2. CASE p \in Elements(s)
 <2>1. PICK at \in 1..Len(s) :
         /\ s[at] = p /\ Len(w) = Len(s) - 1
         /\ \A i \in 1..(Len(s) - 1) : w[i] = s[IF i < at THEN i ELSE i + 1]
  BY <1>2, WithoutShape
 <2>2. Len(s) \in Nat OBVIOUS
 <2> DEFINE f(i) == IF i < at THEN i ELSE i + 1
 <2>3. \A i \in 1..Len(w) : f(i) \in 1..Len(s) /\ w[i] = s[f(i)] BY <2>1, <2>2
 <2>4. \A i, j \in 1..Len(w) : i < j => f(i) < f(j) BY <2>1, <2>2
 <2>5. ASSUME NEW i \in 1..Len(s), i # at PROVE \E k \in 1..Len(w) : w[k] = s[i]
  <3>1. CASE i < at
   <4>1. i \in 1..Len(w) /\ f(i) = i BY <2>1, <2>2, <3>1
   <4> QED BY <2>3, <4>1
  <3>2. CASE at < i
   <4>1. i - 1 \in 1..Len(w) /\ f(i - 1) = i BY <2>1, <2>2, <3>2
   <4> QED BY <2>3, <4>1
  <3> QED BY <2>1, <2>2, <2>5, <3>1, <3>2
 <2> HIDE DEF f
 <2>6. Elements(w) \subseteq Elements(s) BY <2>3 DEF Elements
 <2>7. Elements(s) \subseteq Elements(w) \cup {p}
  <3>1. ASSUME NEW i \in 1..Len(s) PROVE s[i] \in Elements(w) \cup {p}
   <4>1. CASE i = at BY <2>1, <4>1
   <4>2. CASE i # at BY <2>5, <4>2 DEF Elements
   <4> QED BY <4>1, <4>2
  <3> QED BY <3>1 DEF Elements
 <2>8. \A i, j \in 1..Len(w) : i < j =>
         \E a, b \in 1..Len(s) : a < b /\ w[i] = s[a] /\ w[j] = s[b]
  BY <2>3, <2>4
 <2> QED BY <2>6, <2>7, <2>8
<1> QED BY <1>1, <1>2

LEMMA AppendElements ==
  ASSUME NEW S, NEW s \in Seq(S), NEW e \in S
  PROVE  Elements(Append(s, e)) = Elements(s) \cup {e}
<1> DEFINE w == Append(s, e)
<1>1. /\ Len(s) \in Nat /\ Len(w) = Len(s) + 1 /\ w[Len(s) + 1] = e
      /\ \A i \in 1..Len(s) : w[i] = s[i]
 OBVIOUS
<1> HIDE DEF w
<1>2. ASSUME NEW i \in 1..Len(w) PROVE w[i] \in Elements(s) \cup {e}
 <2>1. i = Len(s) + 1 \/ i \in 1..Len(s) BY <1>1
 <2> QED BY <1>1, <2>1 DEF Elements
<1>3. ASSUME NEW i \in 1..Len(s) PROVE s[i] \in Elements(w)
 <2>1. i \in 1..Len(w) BY <1>1
 <2> QED BY <1>1, <2>1 DEF Elements
<1>4. e \in Elements(w)
 <2>1. Len(s) + 1 \in 1..Len(w) BY <1>1
 <2> QED BY <1>1, <2>1 DEF Elements
<1>5. Elements(w) \subseteq Elements(s) \cup {e} BY <1>2 DEF Elements
<1>6. Elements(s) \subseteq Elements(w) BY <1>3 DEF Elements
<1>7. Elements(w) = Elements(s) \cup {e} BY <1>4, <1>5, <1>6
<1> QED BY <1>7 DEF w

LEMMA QueueTypes ==
  ASSUME Structure, NEW t \in Tabs
  PROVE  /\ queue \in [Tabs -> Seq(Prompts)] /\ typed \in [Tabs -> Seq(Prompts)]
         /\ queue[t] \in Seq(Prompts) /\ typed[t] \in Seq(Prompts)
         /\ Len(queue[t]) \in Nat /\ Len(typed[t]) \in Nat
         /\ Elements(queue[t]) \subseteq Prompts /\ Elements(typed[t]) \subseteq Prompts
<1>1. /\ queue \in [Tabs -> Seq(Prompts)] /\ typed \in [Tabs -> Seq(Prompts)]
      /\ queue[t] \in Seq(Prompts) /\ typed[t] \in Seq(Prompts)
      /\ Len(queue[t]) \in Nat /\ Len(typed[t]) \in Nat
 BY DEF Structure, TypeOK, PromptTypeOK
<1> QED BY <1>1, ElementsTypes

\* Where nothing is typed, queued or given up, and whatever is on the way was so
\* before, the order of the prompts stands.
LEMMA SentFewer ==
  ASSUME PromptsSound, UNCHANGED <<queue, typed, dropped, started>>,
         \A t \in Tabs : \A k \in 1..Len(uplink'[t]) :
           \E j \in 1..Len(uplink[t]) : uplink'[t][k].prompt = uplink[t][j].prompt
  PROVE  PromptsSound'
<1>1. \A t, p, q : Precedes(typed'[t], p, q) <=> Precedes(typed[t], p, q) BY DEF Precedes
<1>2. TypedOnce' /\ StartedTyped' /\ PromptKept' BY DEF PromptsSound, TypedOnce, StartedTyped, PromptKept
<1>3. QueueInOrder' /\ StartedInOrder' BY <1>1 DEF PromptsSound, QueueInOrder, StartedInOrder
<1>4. SentInOrder' BY <1>1 DEF PromptsSound, SentInOrder
<1> QED BY <1>2, <1>3, <1>4 DEF PromptsSound

\* The prompt of a dispatch is the oldest that is not settled.
LEMMA SendOrder ==
  ASSUME Structure, PromptsSound, NEW t \in Tabs, NEW p,
         p = Untracked \/ (queue[t] # <<>> /\ p = Head(queue[t])), SendPrompt(t, p)
  PROVE  PromptsSound'
<1>1. UNCHANGED <<queue, typed, dropped, started>> BY DEF SendPrompt, ghostVars
<1>2. \A u, a, b : Precedes(typed'[u], a, b) <=> Precedes(typed[u], a, b) BY <1>1 DEF Precedes
<1>3. TypedOnce' /\ StartedTyped' /\ PromptKept' BY <1>1 DEF PromptsSound, TypedOnce, StartedTyped, PromptKept
<1>4. QueueInOrder' /\ StartedInOrder' BY <1>1, <1>2 DEF PromptsSound, QueueInOrder, StartedInOrder
<1>5. ASSUME p # Untracked
      PROVE  /\ p \in Elements(typed[t])
             /\ \A a \in Prompts : Precedes(typed[t], a, p) => a \in started \cup dropped
 <2>1. queue[t] # <<>> /\ p = queue[t][1] /\ 1 \in 1..Len(queue[t]) BY <1>5, QueueTypes
 <2>2. p \in Elements(queue[t]) BY <2>1 DEF Elements
 <2>3. p \in Elements(typed[t]) BY <2>2 DEF PromptsSound, QueueInOrder
 <2>4. ASSUME NEW a \in Prompts, Precedes(typed[t], a, p), a \in Elements(queue[t]) PROVE FALSE
  <3>1. PICK i, j \in 1..Len(typed[t]) : i < j /\ typed[t][i] = a /\ typed[t][j] = p BY <2>4 DEF Precedes
  <3>2. PICK k \in 1..Len(queue[t]) : queue[t][k] = a BY <2>4 DEF Elements
  <3>3. \A x, y \in 1..Len(typed[t]) : typed[t][x] = typed[t][y] => x = y BY DEF PromptsSound, TypedOnce
  <3>4. Len(typed[t]) \in Nat /\ Len(queue[t]) \in Nat BY QueueTypes
  <3>5. k # 1 BY <2>1, <3>1, <3>2, <3>3, <3>4
  <3>6. Precedes(typed[t], p, a) BY <2>1, <3>2, <3>4, <3>5 DEF PromptsSound, QueueInOrder
  <3>7. PICK m, n \in 1..Len(typed[t]) : m < n /\ typed[t][m] = p /\ typed[t][n] = a BY <3>6 DEF Precedes
  <3>8. m = j /\ n = i BY <3>1, <3>3, <3>7
  <3> QED BY <3>1, <3>4, <3>7, <3>8
 <2>5. ASSUME NEW a \in Prompts, Precedes(typed[t], a, p) PROVE a \in started \cup dropped
  <3>1. a \in Elements(typed[t]) BY <2>5 DEF Precedes, Elements
  <3> QED BY <2>4, <2>5, <3>1 DEF PromptsSound, PromptKept
 <2> QED BY <2>3, <2>5
<1>6. SentInOrder'
 <2> SUFFICES ASSUME NEW u \in Tabs, NEW k \in 1..Len(uplink'[u]), uplink'[u][k].prompt # Untracked
               PROVE  /\ uplink'[u][k].prompt \in Elements(typed[u])
                      /\ \A a \in Prompts : Precedes(typed[u], a, uplink'[u][k].prompt) => a \in started \cup dropped
  BY <1>1, <1>2 DEF SentInOrder
 <2>1. uplink \in [Tabs -> Seq(SentPrompts)] /\ uplink' = [uplink EXCEPT ![t] = Append(@, Sent(p, TRUE))]
  BY DEF Structure, TypeOK, PromptTypeOK, SendPrompt
 <2>2. Sent(p, TRUE).prompt = p BY DEF Sent
 <2>3. CASE k \in 1..Len(uplink[u]) /\ uplink'[u][k] = uplink[u][k] BY <2>3 DEF PromptsSound, SentInOrder
 <2>4. Sent(p, TRUE) \in SentPrompts BY QueueTypes DEF Sent, SentPrompts
 <2>5. uplink[t] \in Seq(SentPrompts) /\ uplink'[t] = Append(uplink[t], Sent(p, TRUE)) BY <2>1
 <2>6. /\ Len(uplink[t]) \in Nat /\ Len(uplink'[t]) = Len(uplink[t]) + 1
       /\ \A i \in 1..Len(uplink[t]) : uplink'[t][i] = uplink[t][i]
       /\ uplink'[t][Len(uplink[t]) + 1] = Sent(p, TRUE)
  <3> DEFINE m == Sent(p, TRUE)
  <3>1. uplink[t] \in Seq(SentPrompts) /\ uplink'[t] = Append(uplink[t], m) BY <2>5
  <3> HIDE DEF m
  <3>2. /\ Len(uplink[t]) \in Nat /\ Len(uplink'[t]) = Len(uplink[t]) + 1
        /\ \A i \in 1..Len(uplink[t]) : uplink'[t][i] = uplink[t][i]
        /\ uplink'[t][Len(uplink[t]) + 1] = m
   BY <3>1
  <3> QED BY <3>2 DEF m
 <2>7. CASE u = t /\ k = Len(uplink[t]) + 1 BY <1>5, <2>2, <2>6, <2>7
 <2>8. CASE u # t BY <2>1, <2>3, <2>8
 <2> QED BY <2>3, <2>6, <2>7, <2>8
<1> QED BY <1>3, <1>4, <1>6 DEF PromptsSound

\* A prompt that is accepted comes after those typed before it.
LEMMA AcceptOrder ==
  ASSUME Structure, PromptsSound, NEW t \in Tabs, AcceptPrompt(t)
  PROVE  PromptsSound'
<1> DEFINE q == uplink[t][1].prompt
<1>1. UNCHANGED <<queue, typed, dropped>> BY DEF AcceptPrompt, tabVars
<1>2. /\ TypeOK /\ uplink[t] # <<>> /\ Decide(t, TRUE) /\ Len(uplink[t]) \in Nat \ {0}
 BY DecideShape DEF Structure, AcceptPrompt, Readable
<1>3. /\ started' = started \cup {q}
      /\ \A u \in Tabs : \A k \in 1..Len(uplink'[u]) : \E j \in 1..Len(uplink[u]) :
           uplink'[u][k].prompt = uplink[u][j].prompt
 <2>1. started' = started \cup {q} BY <1>2, DecideShape
 <2>2. /\ \A u \in Tabs \ {t} : uplink'[u] = uplink[u]
       /\ Len(uplink'[t]) = Len(uplink[t]) - 1
       /\ \A k \in 1..Len(uplink'[t]) : uplink'[t][k] = uplink[t][k + 1]
  BY <1>2, DecideShape
 <2>3. \A k \in 1..Len(uplink'[t]) : k + 1 \in 1..Len(uplink[t]) BY <1>2, <2>2
 <2>4. ASSUME NEW u \in Tabs, NEW k \in 1..Len(uplink'[u])
       PROVE  \E j \in 1..Len(uplink[u]) : uplink'[u][k].prompt = uplink[u][j].prompt
  <3>1. CASE u = t BY <2>2, <2>3, <2>4, <3>1
  <3>2. CASE u # t BY <2>2, <2>4, <3>2
  <3> QED BY <3>1, <3>2
 <2> QED BY <2>1, <2>4
<1>4. q = Untracked \/ ( /\ q \in Elements(typed[t])
                        /\ \A a \in Prompts : Precedes(typed[t], a, q) => a \in started \cup dropped )
 BY <1>2 DEF PromptsSound, SentInOrder
<1> HIDE DEF q
<1>5. \A u, a, b : Precedes(typed'[u], a, b) <=> Precedes(typed[u], a, b) BY <1>1 DEF Precedes
<1>6. TypedOnce' /\ StartedTyped' /\ PromptKept' BY <1>1, <1>3, <1>4 DEF PromptsSound, TypedOnce, StartedTyped, PromptKept
<1>7. QueueInOrder' BY <1>1, <1>5 DEF PromptsSound, QueueInOrder
<1>8. SentInOrder' BY <1>1, <1>3, <1>5 DEF PromptsSound, SentInOrder
<1>9. StartedInOrder'
 <2> SUFFICES ASSUME NEW u \in Tabs, NEW a \in Prompts, NEW b \in Prompts, Precedes(typed[u], a, b), b \in started'
               PROVE  a \in started \cup dropped
  BY <1>1, <1>3, <1>5 DEF StartedInOrder
 <2>1. CASE b \in started BY <2>1 DEF PromptsSound, StartedInOrder
 <2>2. CASE b = q
  <3>1. q # Untracked BY <2>2, ChatFacts
  <3>2. q \in Elements(typed[t]) /\ q \in Elements(typed[u]) BY <1>4, <2>2, <3>1 DEF Precedes, Elements
  <3>3. u = t BY <3>2 DEF PromptsSound, TypedOnce, Elements
  <3> QED BY <1>4, <2>2, <3>1, <3>3
 <2> QED BY <1>3, <2>1, <2>2
<1> QED BY <1>6, <1>7, <1>8, <1>9 DEF PromptsSound

LEMMA RejectOrder ==
  ASSUME Structure, PromptsSound, NEW t \in Tabs, RejectPrompt(t)
  PROVE  PromptsSound'
<1>1. UNCHANGED <<queue, typed, dropped>> BY DEF RejectPrompt, tabVars
<1>2. TypeOK /\ uplink[t] # <<>> /\ Decide(t, FALSE) BY DEF Structure, RejectPrompt, Readable
<1>3. /\ started' = started /\ Len(uplink[t]) \in Nat \ {0}
      /\ \A u \in Tabs \ {t} : uplink'[u] = uplink[u]
      /\ Len(uplink'[t]) = Len(uplink[t]) - 1
      /\ \A k \in 1..Len(uplink'[t]) : uplink'[t][k] = uplink[t][k + 1]
 BY <1>2, DecideShape
<1>4. \A k \in 1..Len(uplink'[t]) : k + 1 \in 1..Len(uplink[t]) BY <1>3
<1>5. ASSUME NEW u \in Tabs, NEW k \in 1..Len(uplink'[u])
      PROVE  \E j \in 1..Len(uplink[u]) : uplink'[u][k].prompt = uplink[u][j].prompt
 <2>1. CASE u = t BY <1>3, <1>4, <1>5, <2>1
 <2>2. CASE u # t BY <1>3, <1>5, <2>2
 <2> QED BY <2>1, <2>2
<1> QED BY <1>1, <1>3, <1>5, SentFewer

\* A queue may lose prompts that are settled.
LEMMA QueueShrinks ==
  ASSUME Structure, PromptsSound, NEW t \in Tabs,
         UNCHANGED <<typed, uplink, started>>, dropped \subseteq dropped',
         \A u \in Tabs \ {t} : queue'[u] = queue[u],
         Elements(queue'[t]) \subseteq Elements(queue[t]),
         Elements(queue[t]) \subseteq Elements(queue'[t]) \cup started' \cup dropped',
         \A i, j \in 1..Len(queue'[t]) : i < j =>
           \E a, b \in 1..Len(queue[t]) : a < b /\ queue'[t][i] = queue[t][a] /\ queue'[t][j] = queue[t][b]
  PROVE  PromptsSound'
<1>1. \A u, a, b : Precedes(typed'[u], a, b) <=> Precedes(typed[u], a, b) BY DEF Precedes
<1>2. TypedOnce' /\ StartedTyped' BY DEF PromptsSound, TypedOnce, StartedTyped
<1>3. PromptKept'
 <2> SUFFICES ASSUME NEW u \in Tabs, NEW p \in Elements(typed[u])
               PROVE  p \in Elements(queue'[u]) \cup started' \cup dropped'
  BY DEF PromptKept, Elements
 <2>1. p \in Elements(queue[u]) \cup started \cup dropped BY DEF PromptsSound, PromptKept
 <2>2. CASE u = t BY <2>1, <2>2
 <2>3. CASE u # t BY <2>1, <2>3 DEF Elements
 <2> QED BY <2>2, <2>3
<1>4. QueueInOrder'
 <2>1. ASSUME NEW u \in Tabs PROVE Elements(queue'[u]) \subseteq Elements(typed[u])
  <3>1. CASE u = t BY <3>1 DEF PromptsSound, QueueInOrder
  <3>2. CASE u # t BY <3>2 DEF PromptsSound, QueueInOrder, Elements
  <3> QED BY <3>1, <3>2
 <2>2. ASSUME NEW u \in Tabs, NEW i \in 1..Len(queue'[u]), NEW j \in 1..Len(queue'[u]), i < j
       PROVE  Precedes(typed[u], queue'[u][i], queue'[u][j])
  <3>1. CASE u = t BY <2>2, <3>1 DEF PromptsSound, QueueInOrder
  <3>2. CASE u # t BY <2>2, <3>2 DEF PromptsSound, QueueInOrder
  <3> QED BY <3>1, <3>2
 <2> QED BY <2>1, <2>2 DEF QueueInOrder
<1>5. SentInOrder' /\ StartedInOrder' BY <1>1 DEF PromptsSound, SentInOrder, StartedInOrder, Elements
<1> QED BY <1>2, <1>3, <1>4, <1>5 DEF PromptsSound

LEMMA AckOrder ==
  ASSUME Structure, AcksTrue, PromptsSound, NEW t \in Tabs, Receive(t), ReceiveAck(t)
  PROVE  PromptsSound'
<1> DEFINE ack == pipe[t][1]
<1>1. Head(pipe[t]) = ack /\ ack.kind = "ack" /\ 1 \in 1..Len(pipe[t]) BY ReceiveShape DEF Structure, ReceiveAck
<1>2. ack.accepted => ack.prompt \in started BY <1>1 DEF AcksTrue, AckTrue
<1> HIDE DEF ack
<1>3. UNCHANGED <<typed, uplink, started, dropped>> BY DEF Receive, wireVars, ghostVars
<1>4. queue \in [Tabs -> Seq(Prompts)] /\ queue[t] \in Seq(Prompts) BY QueueTypes
<1>5. queue' = [queue EXCEPT ![t] = PromptsAfterOutcome(queue[t], ack)] BY <1>1 DEF ReceiveAck
<1>6. /\ \A u \in Tabs \ {t} : queue'[u] = queue[u]
      /\ queue'[t] = IF ack.accepted THEN Without(queue[t], ack.prompt) ELSE queue[t]
 BY <1>4, <1>5 DEF PromptsAfterOutcome
<1>7. CASE ack.accepted
 <2> DEFINE p == ack.prompt
 <2>1. queue'[t] = Without(queue[t], p) /\ p \in started' BY <1>2, <1>3, <1>6, <1>7
 <2> HIDE DEF p
 <2>2. /\ Elements(queue'[t]) \subseteq Elements(queue[t])
       /\ Elements(queue[t]) \subseteq Elements(queue'[t]) \cup {p}
       /\ \A i, j \in 1..Len(queue'[t]) : i < j =>
            \E a, b \in 1..Len(queue[t]) : a < b /\ queue'[t][i] = queue[t][a] /\ queue'[t][j] = queue[t][b]
  BY <1>4, <2>1, WithoutKeeps
 <2>3. Elements(queue[t]) \subseteq Elements(queue'[t]) \cup started' \cup dropped' BY <2>1, <2>2
 <2> QED BY <1>3, <1>6, <2>1, <2>2, <2>3, QueueShrinks
<1>8. CASE ~ack.accepted
 <2>1. queue'[t] = queue[t] BY <1>6, <1>8
 <2> QED BY <1>3, <1>4, <1>6, <2>1, QueueShrinks
<1> QED BY <1>7, <1>8

LEMMA RemoveOrder ==
  ASSUME Structure, PromptsSound, NEW t \in Tabs, NEW p \in Prompts, Remove(t, p)
  PROVE  PromptsSound'
<1>1. UNCHANGED <<typed, uplink, started>> /\ dropped' = dropped \cup {p} BY DEF Remove, wireVars
<1>2. queue \in [Tabs -> Seq(Prompts)] /\ queue[t] \in Seq(Prompts) BY QueueTypes
<1>3. /\ \A u \in Tabs \ {t} : queue'[u] = queue[u]
      /\ queue'[t] = Without(queue[t], p)
 BY <1>2 DEF Remove
<1>4. /\ Elements(queue'[t]) \subseteq Elements(queue[t])
      /\ Elements(queue[t]) \subseteq Elements(queue'[t]) \cup {p}
      /\ \A i, j \in 1..Len(queue'[t]) : i < j =>
           \E a, b \in 1..Len(queue[t]) : a < b /\ queue'[t][i] = queue[t][a] /\ queue'[t][j] = queue[t][b]
 BY <1>2, <1>3, WithoutKeeps
<1>5. Elements(queue[t]) \subseteq Elements(queue'[t]) \cup started' \cup dropped' BY <1>1, <1>3, <1>4
<1> QED BY <1>1, <1>3, <1>4, <1>5, QueueShrinks

LEMMA ApplyOrder ==
  ASSUME Structure, PromptsSound, NEW t \in Tabs, RewindApply(t)
  PROVE  PromptsSound'
<1>1. UNCHANGED <<typed, uplink, started>> /\ dropped' = dropped \cup Elements(queue[t]) BY DEF RewindApply, wireVars
<1>2. queue \in [Tabs -> Seq(Prompts)] BY QueueTypes
<1>3. (\A u \in Tabs \ {t} : queue'[u] = queue[u]) /\ queue'[t] = <<>> BY <1>2 DEF RewindApply
<1>4. Len(queue'[t]) = 0 /\ Elements(queue'[t]) = {} BY <1>3 DEF Elements
<1> QED BY <1>1, <1>3, <1>4, QueueShrinks

\* A prompt is typed behind the others.
LEMMA TypeOrder ==
  ASSUME Structure, PromptsSound, NEW t \in Tabs, NEW p \in Prompts, Type(t, p)
  PROVE  PromptsSound'
<1>1. UNCHANGED <<uplink, started, dropped>> BY DEF Type, wireVars
<1>2. /\ queue \in [Tabs -> Seq(Prompts)] /\ queue[t] \in Seq(Prompts) /\ Len(queue[t]) \in Nat
      /\ typed \in [Tabs -> Seq(Prompts)] /\ typed[t] \in Seq(Prompts) /\ Len(typed[t]) \in Nat
 BY QueueTypes
<1>3. /\ \A u \in Tabs \ {t} : queue'[u] = queue[u] /\ typed'[u] = typed[u]
      /\ queue'[t] = Append(queue[t], p) /\ typed'[t] = Append(typed[t], p)
 BY <1>2 DEF Type
<1>4. /\ Len(queue'[t]) = Len(queue[t]) + 1 /\ queue'[t][Len(queue[t]) + 1] = p
      /\ \A i \in 1..Len(queue[t]) : queue'[t][i] = queue[t][i]
      /\ Len(typed'[t]) = Len(typed[t]) + 1 /\ typed'[t][Len(typed[t]) + 1] = p
      /\ \A i \in 1..Len(typed[t]) : typed'[t][i] = typed[t][i]
 BY <1>2, <1>3, AppendProperties
<1>5. \A u \in Tabs : p \notin Elements(typed[u]) BY DEF Type
<1>6. \A i \in 1..Len(typed'[t]) : i = Len(typed[t]) + 1 \/ i \in 1..Len(typed[t]) BY <1>2, <1>4
<1>7. \A i \in 1..Len(queue'[t]) : i = Len(queue[t]) + 1 \/ i \in 1..Len(queue[t]) BY <1>2, <1>4
<1>8. Elements(typed'[t]) = Elements(typed[t]) \cup {p} BY <1>2, <1>3, AppendElements
<1>9. Elements(queue'[t]) = Elements(queue[t]) \cup {p} BY <1>2, <1>3, AppendElements
<1>10. ASSUME NEW u \in Tabs, u # t
       PROVE  Elements(typed'[u]) = Elements(typed[u]) /\ Elements(queue'[u]) = Elements(queue[u])
 BY <1>3, <1>10
<1>11. ASSUME NEW u \in Tabs, NEW a, NEW b, Precedes(typed'[u], a, b) PROVE b = p \/ Precedes(typed[u], a, b)
 <2>1. CASE u # t BY <1>3, <1>11, <2>1 DEF Precedes
 <2>2. CASE u = t
  <3>1. PICK i, j \in 1..Len(typed'[t]) : i < j /\ typed'[t][i] = a /\ typed'[t][j] = b BY <1>11, <2>2 DEF Precedes
  <3>2. CASE j = Len(typed[t]) + 1 BY <1>4, <3>1, <3>2
  <3>3. CASE j \in 1..Len(typed[t])
   <4>1. i \in 1..Len(typed[t]) BY <1>2, <3>1, <3>3
   <4> QED BY <1>4, <2>2, <3>1, <3>3, <4>1 DEF Precedes
  <3> QED BY <1>6, <3>1, <3>2, <3>3
 <2> QED BY <2>1, <2>2
<1>12. ASSUME NEW u \in Tabs, NEW a, NEW b, Precedes(typed[u], a, b) PROVE Precedes(typed'[u], a, b)
 <2>1. CASE u # t BY <1>3, <1>12, <2>1 DEF Precedes
 <2>2. CASE u = t
  <3>1. PICK i, j \in 1..Len(typed[t]) : i < j /\ typed[t][i] = a /\ typed[t][j] = b BY <1>12, <2>2 DEF Precedes
  <3>2. i \in 1..Len(typed'[t]) /\ j \in 1..Len(typed'[t]) BY <1>2, <1>4
  <3> QED BY <1>4, <2>2, <3>1, <3>2 DEF Precedes
 <2> QED BY <2>1, <2>2
<1>13. TypedOnce'
 <2> SUFFICES ASSUME NEW u \in Tabs, NEW v \in Tabs, NEW i \in 1..Len(typed'[u]), NEW j \in 1..Len(typed'[v]),
                      typed'[u][i] = typed'[v][j]
               PROVE  u = v /\ i = j
  BY DEF TypedOnce
 <2>1. \A w \in Tabs : \A k \in 1..Len(typed'[w]) :
         \/ w = t /\ k = Len(typed[t]) + 1
         \/ k \in 1..Len(typed[w]) /\ typed'[w][k] = typed[w][k] /\ typed[w][k] # p
  <3>1. ASSUME NEW w \in Tabs, NEW k \in 1..Len(typed'[w]), w = t
        PROVE  \/ k = Len(typed[t]) + 1
               \/ k \in 1..Len(typed[w]) /\ typed'[w][k] = typed[w][k] /\ typed[w][k] # p
   BY <1>4, <1>5, <1>6, <3>1 DEF Elements
  <3>2. ASSUME NEW w \in Tabs, NEW k \in 1..Len(typed'[w]), w # t
        PROVE  k \in 1..Len(typed[w]) /\ typed'[w][k] = typed[w][k] /\ typed[w][k] # p
   BY <1>3, <1>5, <3>2 DEF Elements
  <3> QED BY <3>1, <3>2
 <2>2. typed'[t][Len(typed[t]) + 1] = p BY <1>4
 <2>3. u \in Tabs /\ v \in Tabs /\ i \in 1..Len(typed'[u]) /\ j \in 1..Len(typed'[v]) OBVIOUS
 <2>4. CASE u = t /\ i = Len(typed[t]) + 1
  <3>1. typed'[v][j] = p BY <2>2, <2>4
  <3>2. v = t /\ j = Len(typed[t]) + 1 BY <2>1, <2>3, <3>1
  <3> QED BY <2>4, <3>2
 <2>5. CASE v = t /\ j = Len(typed[t]) + 1
  <3>1. typed'[u][i] = p BY <2>2, <2>5
  <3>2. u = t /\ i = Len(typed[t]) + 1 BY <2>1, <2>3, <3>1
  <3> QED BY <2>5, <3>2
 <2>6. CASE ~(u = t /\ i = Len(typed[t]) + 1) /\ ~(v = t /\ j = Len(typed[t]) + 1)
  <3>1. i \in 1..Len(typed[u]) /\ typed'[u][i] = typed[u][i] BY <2>1, <2>3, <2>6
  <3>2. j \in 1..Len(typed[v]) /\ typed'[v][j] = typed[v][j] BY <2>1, <2>3, <2>6
  <3>3. typed[u][i] = typed[v][j] BY <3>1, <3>2
  <3> QED BY <3>1, <3>2, <3>3 DEF PromptsSound, TypedOnce
 <2> QED BY <2>4, <2>5, <2>6
<1>14. StartedTyped' BY <1>1, <1>8, <1>10 DEF PromptsSound, StartedTyped
<1>15. PromptKept' BY <1>1, <1>8, <1>9, <1>10 DEF PromptsSound, PromptKept
<1>16. QueueInOrder'
 <2>1. \A u \in Tabs : Elements(queue'[u]) \subseteq Elements(typed'[u]) BY <1>8, <1>9, <1>10 DEF PromptsSound, QueueInOrder
 <2>2. ASSUME NEW u \in Tabs, NEW i \in 1..Len(queue'[u]), NEW j \in 1..Len(queue'[u]), i < j
       PROVE  Precedes(typed'[u], queue'[u][i], queue'[u][j])
  <3>1. CASE u # t BY <1>3, <1>12, <2>2, <3>1 DEF PromptsSound, QueueInOrder
  <3>2. CASE u = t /\ j \in 1..Len(queue[t])
   <4>1. i \in 1..Len(queue[t]) BY <1>2, <2>2, <3>2
   <4>2. Precedes(typed[t], queue[t][i], queue[t][j]) BY <2>2, <3>2, <4>1 DEF PromptsSound, QueueInOrder
   <4> QED BY <1>4, <1>12, <3>2, <4>1, <4>2
  <3>3. CASE u = t /\ j = Len(queue[t]) + 1
   <4>1. i \in 1..Len(queue[t]) BY <1>2, <2>2, <3>3
   <4>2. queue[t][i] \in Elements(typed[t]) BY <4>1 DEF PromptsSound, QueueInOrder, Elements
   <4>3. PICK k \in 1..Len(typed[t]) : typed[t][k] = queue[t][i] BY <4>2 DEF Elements
   <4>4. /\ k \in 1..Len(typed'[t]) /\ Len(typed[t]) + 1 \in 1..Len(typed'[t])
         /\ k < Len(typed[t]) + 1
    BY <1>2, <1>4
   <4>5. typed'[t][k] = queue'[t][i] /\ typed'[t][Len(typed[t]) + 1] = queue'[t][j] BY <1>4, <3>3, <4>1, <4>3
   <4> QED BY <3>3, <4>4, <4>5 DEF Precedes
  <3> QED BY <1>7, <3>1, <3>2, <3>3
 <2> QED BY <2>1, <2>2 DEF QueueInOrder
<1>17. SentInOrder'
 <2> SUFFICES ASSUME NEW u \in Tabs, NEW k \in 1..Len(uplink[u]), uplink[u][k].prompt # Untracked
               PROVE  /\ uplink[u][k].prompt \in Elements(typed'[u])
                      /\ \A a \in Prompts : Precedes(typed'[u], a, uplink[u][k].prompt) => a \in started \cup dropped
  BY <1>1 DEF SentInOrder
 <2>1. /\ uplink[u][k].prompt \in Elements(typed[u])
       /\ \A a \in Prompts : Precedes(typed[u], a, uplink[u][k].prompt) => a \in started \cup dropped
  BY DEF PromptsSound, SentInOrder
 <2>2. uplink[u][k].prompt # p BY <1>5, <2>1
 <2> QED BY <1>8, <1>10, <1>11, <2>1, <2>2
<1>18. StartedInOrder'
 <2> SUFFICES ASSUME NEW u \in Tabs, NEW a \in Prompts, NEW b \in Prompts, Precedes(typed'[u], a, b), b \in started
               PROVE  a \in started \cup dropped
  BY <1>1 DEF StartedInOrder
 <2>1. b # p BY <1>5, ChatFacts DEF PromptsSound, StartedTyped
 <2> QED BY <1>11, <2>1 DEF PromptsSound, StartedInOrder
<1> QED BY <1>13, <1>14, <1>15, <1>16, <1>17, <1>18 DEF PromptsSound

LEMMA QueueSoundKept == Structure /\ QueueSound /\ [Next]_vars => QueueSound'
<1> SUFFICES ASSUME Structure, QueueSound, [Next]_vars PROVE QueueSound' OBVIOUS
<1>1. AcksTrue /\ PromptsSound /\ AcksTrue' BY AcksStayTrue DEF QueueSound
<1>2. CASE UNCHANGED promptVars
 <2>1. UNCHANGED <<queue, typed, dropped, started>> /\ uplink' = uplink BY <1>2 DEF promptVars
 <2> QED BY <1>1, <2>1, SentFewer DEF QueueSound
<1>3. CASE /\ UNCHANGED <<queue, typed, started, dropped>>
           /\ \A t \in Tabs : \A k \in 1..Len(uplink'[t]) :
                \E j \in 1..Len(uplink[t]) : uplink'[t][k].prompt = uplink[t][j].prompt
 BY <1>1, <1>3, SentFewer DEF QueueSound
<1>4. ASSUME NEW t \in Tabs,
             \/ Receive(t) /\ ReceiveAck(t)
             \/ \E p \in Prompts : Type(t, p) \/ Remove(t, p)
             \/ Dispatch(t) \/ SendDirect(t) \/ RewindApply(t)
             \/ AcceptPrompt(t) \/ RejectPrompt(t)
      PROVE  PromptsSound'
 <2>1. CASE Dispatch(t) BY <1>1, <2>1, SendOrder DEF Dispatch
 <2>2. CASE SendDirect(t) BY <1>1, <2>2, SendOrder DEF SendDirect
 <2>3. CASE Receive(t) /\ ReceiveAck(t) BY <1>1, <2>3, AckOrder
 <2>4. CASE \E p \in Prompts : Type(t, p) \/ Remove(t, p) BY <1>1, <2>4, TypeOrder, RemoveOrder
 <2>5. CASE RewindApply(t) \/ AcceptPrompt(t) \/ RejectPrompt(t) BY <1>1, <2>5, ApplyOrder, AcceptOrder, RejectOrder
 <2> QED BY <1>4, <2>1, <2>2, <2>3, <2>4, <2>5
<1> QED BY <1>1, <1>2, <1>3, <1>4, PromptSteps DEF QueueSound

LEMMA InitQueueSound == Init => QueueSound
<1> SUFFICES ASSUME Init PROVE QueueSound OBVIOUS
<1>1. AcksTrue
 <2>1. \A t \in Tabs : Len(pipe[t]) = 0 /\ Len(verdict[t]) = 0 BY DEF Init, HubInit
 <2>2. ASSUME NEW t \in Tabs PROVE 1..Len(pipe[t]) = {} /\ 1..Len(verdict[t]) = {}
  <3>1. Len(pipe[t]) = 0 /\ Len(verdict[t]) = 0 /\ 1..0 = {} BY <2>1
  <3> QED BY <3>1, Zenon
 <2> QED BY <2>2, Zenon DEF AcksTrue
<1>2. TypedOnce /\ QueueInOrder /\ SentInOrder /\ StartedTyped /\ PromptKept
 BY DEF Init, TypedOnce, QueueInOrder, SentInOrder, StartedTyped, PromptKept, Elements
<1>3. StartedInOrder BY DEF Init, StartedInOrder
<1> QED BY <1>1, <1>2, <1>3 DEF QueueSound, PromptsSound

LEMMA QueueSoundMeans == Structure /\ QueueSound => PromptsKeptInOrder
<1> SUFFICES ASSUME Structure, QueueSound PROVE PromptsKeptInOrder OBVIOUS
<1>1. PromptKept BY DEF QueueSound, PromptsSound
<1>2. PromptOrder
 <2> SUFFICES ASSUME NEW t \in Tabs, NEW i \in 1..Len(typed[t]), NEW j \in 1..Len(typed[t]),
                      i < j, typed[t][j] \in started
               PROVE  typed[t][i] \in started \cup dropped
  BY DEF PromptOrder
 <2>1. Precedes(typed[t], typed[t][i], typed[t][j]) BY DEF Precedes
 <2>2. typed[t][i] \in Prompts /\ typed[t][j] \in Prompts BY QueueTypes DEF Elements
 <2> QED BY <2>1, <2>2 DEF QueueSound, PromptsSound, StartedInOrder
<1> QED BY <1>1, <1>2 DEF PromptsKeptInOrder

\* Theorem: whatever happens to connections, tabs and the server, the prompt queue of
\* a tab (promptQueue, its sessionStorage and its acknowledgements) loses no prompt
\* and lets none overtake another.
THEOREM PromptsAlwaysKeptInOrder == Spec => []PromptsKeptInOrder
<1>1. Init => Structure /\ QueueSound BY InitStructure, InitQueueSound
<1>2. Structure /\ QueueSound /\ [Next]_vars => (Structure /\ QueueSound)' BY StructureKept, QueueSoundKept
<1> QED BY <1>1, <1>2, QueueSoundMeans, PTL DEF Spec

----
\* What a tab shows and what is on the way to it.

LEMMA StreamTypes ==
  ASSUME TypeOK, NEW t \in Tabs
  PROVE  /\ log \in Seq(Events) /\ Len(log) \in Nat /\ minted \in Nat
         /\ hand \in Seq(Events) /\ Len(hand) \in Nat /\ Len(hand) <= 1
         /\ pipe \in [Tabs -> Seq(Messages)] /\ pipe[t] \in Seq(Messages) /\ Len(pipe[t]) \in Nat
         /\ batch \in [Tabs -> Seq(Events)] /\ batch[t] \in Seq(Events) /\ Len(batch[t]) \in Nat
         /\ cursor \in [Tabs -> Nat] /\ cursor[t] \in Nat /\ since \in [Tabs -> Nat] /\ since[t] \in Nat
         /\ view \in [Tabs -> SUBSET Events] /\ sub \in [Tabs -> Subs]
<1>1. /\ log \in Seq(Events) /\ Len(log) \in Nat /\ minted \in Nat
      /\ hand \in Seq(Events) /\ Len(hand) \in Nat /\ Len(hand) <= 1
 BY DEF TypeOK, HubTypeOK
<1>2. pipe \in [Tabs -> Seq(Messages)] /\ pipe[t] \in Seq(Messages) /\ sub \in [Tabs -> Subs] BY DEF TypeOK, RoomTypeOK
<1>3. /\ batch \in [Tabs -> Seq(Events)] /\ batch[t] \in Seq(Events)
      /\ cursor \in [Tabs -> Nat] /\ cursor[t] \in Nat /\ since \in [Tabs -> Nat] /\ since[t] \in Nat
      /\ view \in [Tabs -> SUBSET Events]
 BY DEF TypeOK, TabTypeOK
<1>4. Len(batch[t]) \in Nat /\ Len(pipe[t]) \in Nat BY <1>2, <1>3
<1> QED BY <1>1, <1>2, <1>3, <1>4

LEMMA SeqNumbers ==
  /\ \A e \in Events : e.seq \in Nat
  /\ \A b \in Seq(Events) : \A k \in 1..Len(b) : b[k] \in Events /\ b[k].seq \in Nat
  /\ \A p \in Seq(Messages) : \A k \in 1..Len(p) :
       /\ p[k] \in Messages
       /\ p[k].kind = "event" => p[k].event \in Events /\ p[k].event.seq \in Nat
<1>1. \A e \in Events : e.seq \in Nat BY EventTypes, ChatFacts
<1>2. \A b \in Seq(Events) : \A k \in 1..Len(b) : b[k] \in Events OBVIOUS
<1>3. \A p \in Seq(Messages) : \A k \in 1..Len(p) : p[k] \in Messages OBVIOUS
<1> QED BY <1>1, <1>2, <1>3, MessageTypes

\* A log that grows keeps its events.
Grows(l, m) == Len(l) <= Len(m) /\ \A i \in 1..Len(l) : m[i] = l[i]

LEMMA EventStays ==
  ASSUME NEW l \in Seq(Events), NEW m \in Seq(Events), Grows(l, m), NEW ev, EventOf(l, ev)
  PROVE  EventOf(m, ev)
BY DEF EventOf, Grows

LEMMA BatchStays ==
  ASSUME NEW l \in Seq(Events), NEW m \in Seq(Events), Grows(l, m), NEW c, NEW b, BatchSound(l, c, b)
  PROVE  BatchSound(m, c, b)
BY EventStays DEF BatchSound

LEMMA PipeStays ==
  ASSUME NEW l \in Seq(Events), NEW m \in Seq(Events), Grows(l, m), NEW c, NEW b, NEW p,
         PipeSound(l, c, b, p)
  PROVE  PipeSound(m, c, b, p)
BY EventStays DEF PipeSound

\* A message that comes last does no harm when what it needs is on the way.
Follows(l, c, b, p, m) ==
  m.kind = "event" =>
    /\ EventOf(l, m.event)
    /\ \A n \in (c + 1)..m.event.seq :
         n = m.event.seq \/ InBatch(b, n, Len(b)) \/ InPipe(p, n, Len(p))

\* The pipe q is p and m.
Longer(p, m, q) ==
  /\ Len(q) = Len(p) + 1 /\ q[Len(p) + 1] = m
  /\ \A k \in 1..Len(p) : q[k] = p[k]

LEMMA InLonger ==
  ASSUME NEW p \in Seq(Messages), NEW q \in Seq(Messages), NEW m, Longer(p, m, q), NEW n
  PROVE  /\ \A k \in 1..Len(p) : InPipe(p, n, k) => InPipe(q, n, k)
         /\ InPipe(p, n, Len(p)) => InPipe(q, n, Len(q))
         /\ m.kind = "event" /\ m.event.seq = n => InPipe(q, n, Len(q))
<1>1. Len(p) \in Nat /\ Len(q) \in Nat OBVIOUS
<1>2. ASSUME NEW k \in 1..Len(p), InPipe(p, n, k) PROVE InPipe(q, n, k)
 <2>1. \A j \in 1..k : j \in 1..Len(p) BY <1>1
 <2> QED BY <1>2, <2>1 DEF InPipe, Longer
<1>3. ASSUME InPipe(p, n, Len(p)) PROVE InPipe(q, n, Len(q))
 <2>1. \A j \in 1..Len(p) : j \in 1..Len(q) BY <1>1 DEF Longer
 <2> QED BY <1>3, <2>1 DEF InPipe, Longer
<1>4. ASSUME m.kind = "event", m.event.seq = n PROVE InPipe(q, n, Len(q))
 <2>1. Len(q) \in 1..Len(q) /\ q[Len(q)] = m BY <1>1 DEF Longer
 <2> QED BY <1>4, <2>1 DEF InPipe
<1> QED BY <1>2, <1>3, <1>4

LEMMA PipeLonger ==
  ASSUME NEW l, NEW c, NEW b, NEW p \in Seq(Messages), NEW q \in Seq(Messages), NEW m,
         Longer(p, m, q), PipeSound(l, c, b, p), Follows(l, c, b, p, m)
  PROVE  PipeSound(l, c, b, q)
<1> SUFFICES ASSUME NEW k \in 1..Len(q), q[k].kind = "event"
              PROVE  /\ EventOf(l, q[k].event)
                     /\ \A n \in (c + 1)..q[k].event.seq : InBatch(b, n, Len(b)) \/ InPipe(q, n, k)
 BY DEF PipeSound
<1>1. Len(p) \in Nat /\ Len(q) \in Nat OBVIOUS
<1>2. CASE k \in 1..Len(p) BY <1>2, InLonger DEF PipeSound, Longer
<1>3. CASE k = Len(p) + 1
 <2>1. q[k] = m /\ k = Len(q) BY <1>3 DEF Longer
 <2> QED BY <2>1, InLonger DEF Follows
<1> QED BY <1>1, <1>2, <1>3 DEF Longer

LEMMA CoveredLonger ==
  ASSUME NEW c, NEW b, NEW p \in Seq(Messages), NEW q \in Seq(Messages), NEW m, Longer(p, m, q),
         NEW last \in Nat, NEW x \in Nat,
         Covered(c, b, p, last), x = last \/ (x = last + 1 /\ m.kind = "event" /\ m.event.seq = x),
         c \in Nat
  PROVE  Covered(c, b, q, x)
<1> SUFFICES ASSUME NEW n \in (c + 1)..x
              PROVE  InBatch(b, n, Len(b)) \/ InPipe(q, n, Len(q))
 BY DEF Covered
<1>1. CASE n \in (c + 1)..last BY <1>1, InLonger DEF Covered
<1>2. CASE n = last + 1 BY <1>2, InLonger
<1> QED BY <1>1, <1>2

\* The first message of the pipe p goes; q is the rest.
Shorter(p, q) ==
  /\ Len(q) = Len(p) - 1
  /\ \A k \in 1..Len(q) : q[k] = p[k + 1]

LEMMA InShorter ==
  ASSUME NEW p \in Seq(Messages), NEW q \in Seq(Messages), p # <<>>, Shorter(p, q), NEW n,
         NEW k \in 1..Len(p), InPipe(p, n, k)
  PROVE  \/ p[1].kind = "event" /\ p[1].event.seq = n
         \/ InPipe(q, n, k - 1)
<1>1. PICK j \in 1..k : p[j].kind = "event" /\ p[j].event.seq = n BY DEF InPipe
<1>2. CASE j = 1 BY <1>1, <1>2
<1>3. CASE j # 1
 <2>1. j - 1 \in 1..(k - 1) /\ j - 1 \in 1..Len(q) /\ (j - 1) + 1 = j BY <1>3 DEF Shorter
 <2>2. q[j - 1] = p[j] BY <2>1 DEF Shorter
 <2> QED BY <1>1, <2>1, <2>2 DEF InPipe
<1> QED BY <1>2, <1>3

LEMMA InLongerBatch ==
  ASSUME NEW b \in Seq(Events), NEW ev \in Events, NEW n
  PROVE  /\ Len(Append(b, ev)) = Len(b) + 1
         /\ \A k \in 1..Len(b) : InBatch(b, n, k) => InBatch(Append(b, ev), n, k)
         /\ InBatch(b, n, Len(b)) => InBatch(Append(b, ev), n, Len(b) + 1)
         /\ ev.seq = n => InBatch(Append(b, ev), n, Len(b) + 1)
<1> DEFINE d == Append(b, ev)
<1>1. Len(b) \in Nat /\ Len(d) = Len(b) + 1 /\ d[Len(b) + 1] = ev /\ \A k \in 1..Len(b) : d[k] = b[k] OBVIOUS
<1> HIDE DEF d
<1>2. ASSUME NEW k \in 1..Len(b), InBatch(b, n, k) PROVE InBatch(d, n, k)
 <2>1. \A j \in 1..k : j \in 1..Len(b) BY <1>1
 <2> QED BY <1>1, <1>2, <2>1 DEF InBatch
<1>3. ASSUME InBatch(b, n, Len(b)) PROVE InBatch(d, n, Len(b) + 1)
 <2>1. \A j \in 1..Len(b) : j \in 1..(Len(b) + 1) BY <1>1
 <2> QED BY <1>1, <1>3, <2>1 DEF InBatch
<1>4. ASSUME ev.seq = n PROVE InBatch(d, n, Len(b) + 1)
 <2>1. Len(b) + 1 \in 1..(Len(b) + 1) BY <1>1
 <2> QED BY <1>1, <1>4, <2>1 DEF InBatch
<1> QED BY <1>1, <1>2, <1>3, <1>4 DEF d

\* An event moves from the pipe to the batch.
LEMMA EventMoves ==
  ASSUME NEW l \in Seq(Events), NEW c \in Nat, NEW b \in Seq(Events), NEW p \in Seq(Messages),
         NEW q \in Seq(Messages), p # <<>>, Shorter(p, q), p[1].kind = "event",
         BatchSound(l, c, b), PipeSound(l, c, b, p)
  PROVE  /\ BatchSound(l, c, Append(b, p[1].event)) /\ PipeSound(l, c, Append(b, p[1].event), q)
         /\ \A last \in Int : Covered(c, b, p, last) => Covered(c, Append(b, p[1].event), q, last)
<1> DEFINE ev == p[1].event
            d == Append(b, ev)
<1>1. Len(p) \in Nat \ {0} /\ Len(b) \in Nat /\ 1 \in 1..Len(p) OBVIOUS
<1>2. ev \in Events /\ ev.seq \in Nat BY <1>1, SeqNumbers
<1>3. EventOf(l, ev) /\ \A n \in (c + 1)..ev.seq : InBatch(b, n, Len(b)) \/ InPipe(p, n, 1) BY <1>1 DEF PipeSound
<1> HIDE DEF ev
<1>4. /\ d \in Seq(Events) /\ Len(d) = Len(b) + 1 /\ d[Len(b) + 1] = ev
      /\ \A k \in 1..Len(b) : d[k] = b[k]
 BY <1>2
<1>5. \A n : /\ \A k \in 1..Len(b) : InBatch(b, n, k) => InBatch(d, n, k)
             /\ InBatch(b, n, Len(b)) => InBatch(d, n, Len(d))
             /\ ev.seq = n => InBatch(d, n, Len(d))
 BY <1>2, <1>4, InLongerBatch
<1> HIDE DEF d
<1>6. BatchSound(l, c, d)
 <2> SUFFICES ASSUME NEW k \in 1..Len(d)
               PROVE  EventOf(l, d[k]) /\ \A n \in (c + 1)..d[k].seq : InBatch(d, n, k)
  BY DEF BatchSound
 <2>1. CASE k \in 1..Len(b) BY <1>4, <1>5, <2>1 DEF BatchSound
 <2>2. CASE k = Len(b) + 1
  <3>1. \A n : InPipe(p, n, 1) => ev.seq = n BY <1>1 DEF InPipe, ev
  <3> QED BY <1>3, <1>4, <1>5, <2>2, <3>1
 <2> QED BY <1>1, <1>4, <2>1, <2>2
<1>7. ASSUME NEW n, NEW k \in 1..Len(p), InPipe(p, n, k)
      PROVE  InBatch(d, n, Len(d)) \/ InPipe(q, n, k - 1)
 BY <1>5, <1>7, InShorter DEF ev
<1>8. PipeSound(l, c, d, q)
 <2> SUFFICES ASSUME NEW k \in 1..Len(q), q[k].kind = "event"
               PROVE  /\ EventOf(l, q[k].event)
                      /\ \A n \in (c + 1)..q[k].event.seq : InBatch(d, n, Len(d)) \/ InPipe(q, n, k)
  BY DEF PipeSound
 <2>1. k + 1 \in 1..Len(p) /\ q[k] = p[k + 1] /\ (k + 1) - 1 = k BY <1>1 DEF Shorter
 <2>2. /\ EventOf(l, q[k].event)
       /\ \A n \in (c + 1)..q[k].event.seq : InBatch(b, n, Len(b)) \/ InPipe(p, n, k + 1)
  BY <2>1 DEF PipeSound
 <2> QED BY <1>5, <1>7, <2>1, <2>2
<1>9. ASSUME NEW last \in Int, Covered(c, b, p, last) PROVE Covered(c, d, q, last)
 <2> SUFFICES ASSUME NEW n \in (c + 1)..last
               PROVE  InBatch(d, n, Len(d)) \/ InPipe(q, n, Len(q))
  BY DEF Covered
 <2>1. InBatch(b, n, Len(b)) \/ InPipe(p, n, Len(p)) BY <1>9 DEF Covered
 <2>2. Len(p) \in 1..Len(p) /\ Len(q) = Len(p) - 1 BY <1>1 DEF Shorter
 <2> QED BY <1>5, <1>7, <2>1, <2>2
<1> QED BY <1>6, <1>8, <1>9 DEF d, ev

\* Any other message is taken from the pipe.
LEMMA OtherMoves ==
  ASSUME NEW l \in Seq(Events), NEW c \in Nat, NEW b \in Seq(Events), NEW p \in Seq(Messages),
         NEW q \in Seq(Messages), p # <<>>, Shorter(p, q), p[1].kind # "event",
         PipeSound(l, c, b, p)
  PROVE  /\ PipeSound(l, c, b, q)
         /\ \A last \in Int : Covered(c, b, p, last) => Covered(c, b, q, last)
<1>1. Len(p) \in Nat \ {0} /\ 1 \in 1..Len(p) OBVIOUS
<1>2. ASSUME NEW n, NEW k \in 1..Len(p), InPipe(p, n, k) PROVE InPipe(q, n, k - 1) BY <1>2, InShorter
<1>3. PipeSound(l, c, b, q)
 <2> SUFFICES ASSUME NEW k \in 1..Len(q), q[k].kind = "event"
               PROVE  /\ EventOf(l, q[k].event)
                      /\ \A n \in (c + 1)..q[k].event.seq : InBatch(b, n, Len(b)) \/ InPipe(q, n, k)
  BY DEF PipeSound
 <2>1. k + 1 \in 1..Len(p) /\ q[k] = p[k + 1] /\ (k + 1) - 1 = k BY <1>1 DEF Shorter
 <2>2. /\ EventOf(l, q[k].event)
       /\ \A n \in (c + 1)..q[k].event.seq : InBatch(b, n, Len(b)) \/ InPipe(p, n, k + 1)
  BY <2>1 DEF PipeSound
 <2> QED BY <1>2, <2>1, <2>2
<1>4. ASSUME NEW last \in Int, Covered(c, b, p, last) PROVE Covered(c, b, q, last)
 <2> SUFFICES ASSUME NEW n \in (c + 1)..last
               PROVE  InBatch(b, n, Len(b)) \/ InPipe(q, n, Len(q))
  BY DEF Covered
 <2>1. InBatch(b, n, Len(b)) \/ InPipe(p, n, Len(p)) BY <1>4 DEF Covered
 <2>2. Len(p) \in 1..Len(p) /\ Len(q) = Len(p) - 1 BY <1>1 DEF Shorter
 <2> QED BY <1>2, <2>1, <2>2
<1> QED BY <1>3, <1>4

\* Of the events with a number in a batch, one is the first.
LEMMA FirstInBatch ==
  ASSUME NEW b \in Seq(Events), NEW n, InBatch(b, n, Len(b))
  PROVE  \E j \in 1..Len(b) : b[j].seq = n /\ \A k \in 1..(j - 1) : b[k].seq # n
<1> DEFINE T == {j \in 1..Len(b) : b[j].seq = n}
<1>1. T \subseteq Nat /\ T # {} /\ Len(b) \in Nat BY DEF InBatch
<1>2. PICK x \in T : \A y \in T : ~(<<y, x>> \in OpToRel(<, Nat)) BY <1>1, NatLessThanWellFounded, WFMin
<1>3. \A y \in T : ~(y < x) BY <1>1, <1>2 DEF OpToRel
<1>4. \A k \in 1..(x - 1) : k \in 1..Len(b) /\ k < x BY <1>1
<1> QED BY <1>2, <1>3, <1>4

\* A flush shows what the batch has, without a gap.
LEMMA FlushShows ==
  ASSUME NEW l \in Seq(Events), \A i \in 1..Len(l) : l[i].seq = i,
         NEW c \in 0..Len(l), NEW b \in Seq(Events), BatchSound(l, c, b),
         NEW d, d = LatestSequence(Elements(b) \cup {Event(c, 0, FALSE)})
  PROVE  /\ d \in 0..Len(l) /\ c <= d
         /\ MergeEvents({l[i] : i \in 1..c}, b) = {l[i] : i \in 1..d}
         /\ \A n \in Nat : InBatch(b, n, Len(b)) => n <= d
<1> DEFINE own == Event(c, 0, FALSE)
            shown == Elements(b) \cup {own}
            v == {l[i] : i \in 1..c}
<1>1. Len(l) \in Nat /\ Len(b) \in Nat /\ c \in Nat OBVIOUS
<1>2. \A k \in 1..Len(b) : b[k].seq \in 0..Len(l) /\ (b[k].seq # 0 => b[k] = l[b[k].seq])
 BY <1>1, SeqNumbers DEF BatchSound, EventOf
<1>3. own.seq = c BY DEF Event
<1>14. d = LatestSequence(shown) OBVIOUS
<1> HIDE DEF own
<1>4. \A e \in shown : e.seq \in 0..Len(l) BY <1>1, <1>2, <1>3 DEF Elements
<1>5. /\ d \in Seqs(shown) \cup {0} /\ d \in 0..Len(l)
      /\ \A e \in shown : e.seq <= d
 <2> HIDE DEF shown
 <2> QED BY <1>1, <1>4, <1>14, LatestIsLargest
<1>6. c <= d BY <1>3, <1>5
<1>7. \A n \in Nat : InBatch(b, n, Len(b)) => n <= d BY <1>5 DEF InBatch, Elements
<1>8. ASSUME NEW n \in (c + 1)..d PROVE InBatch(b, n, Len(b))
 <2>5. d \in Nat /\ d # 0 /\ d # c BY <1>1, <1>5, <1>8
 <2>1. PICK e \in shown : e.seq = d
  <3> HIDE DEF shown
  <3> QED BY <1>5, <2>5 DEF Seqs
 <2>2. e # own BY <1>3, <2>1, <2>5
 <2>3. PICK k \in 1..Len(b) : b[k].seq = d BY <2>1, <2>2 DEF Elements
 <2>4. InBatch(b, n, k) BY <2>3 DEF BatchSound
 <2> QED BY <1>1, <2>4 DEF InBatch
<1>9. Seqs(v) = 1..c
 <2>1. \A i \in 1..c : l[i].seq = i BY <1>1
 <2> QED BY <2>1 DEF Seqs
<1> HIDE DEF v, shown
<1>10. ASSUME NEW j \in 1..Len(b), b[j].seq \notin Seqs(v) \cup {0}
       PROVE  b[j] \in {l[i] : i \in 1..d}
 <2>1. InBatch(b, b[j].seq, Len(b)) /\ b[j].seq \in Nat BY <1>1, <1>2 DEF InBatch
 <2>2. b[j].seq <= d BY <1>7, <2>1
 <2>3. b[j].seq # 0 BY <1>10
 <2>4. b[j].seq \in 1..d /\ b[j] = l[b[j].seq] BY <1>1, <1>2, <1>5, <2>1, <2>2, <2>3
 <2> QED BY <2>4
<1>11. ASSUME NEW i \in (c + 1)..d
       PROVE  \E j \in 1..Len(b) : /\ b[j].seq \notin Seqs(v) \cup {0} /\ b[j] = l[i]
                                   /\ \A k \in 1..(j - 1) : b[k].seq # b[j].seq
 <2>1. PICK j \in 1..Len(b) : b[j].seq = i /\ \A k \in 1..(j - 1) : b[k].seq # i BY <1>8, FirstInBatch
 <2>2. i # 0 /\ i \notin 1..c BY <1>1
 <2>3. b[j].seq \notin Seqs(v) \cup {0} BY <1>9, <2>1, <2>2
 <2>4. b[j] = l[i] BY <1>2, <2>1, <2>2
 <2> QED BY <2>1, <2>3, <2>4
<1>12. MergeEvents(v, b) \subseteq {l[i] : i \in 1..d}
 <2>1. v \subseteq {l[i] : i \in 1..d} BY <1>1, <1>5, <1>6 DEF v
 <2> QED BY <1>10, <2>1 DEF MergeEvents
<1>13. {l[i] : i \in 1..d} \subseteq MergeEvents(v, b)
 <2>1. ASSUME NEW i \in 1..d PROVE l[i] \in MergeEvents(v, b)
  <3>1. CASE i \in 1..c BY <3>1 DEF v, MergeEvents
  <3>2. CASE i \in (c + 1)..d BY <1>11, <3>2 DEF MergeEvents
  <3> QED BY <1>1, <1>5, <3>1, <3>2
 <2> QED BY <2>1
<1> QED BY <1>5, <1>6, <1>7, <1>12, <1>13 DEF v

LEMMA FlushLeaves ==
  ASSUME NEW l \in Seq(Events), NEW c \in Nat, NEW d \in Nat, c <= d, NEW b \in Seq(Events),
         NEW p \in Seq(Messages), \A n \in Nat : InBatch(b, n, Len(b)) => n <= d
  PROVE  /\ BatchSound(l, d, <<>>)
         /\ PipeSound(l, c, b, p) => PipeSound(l, d, <<>>, p)
         /\ \A last \in Int : Covered(c, b, p, last) => Covered(d, <<>>, p, last)
<1>1. BatchSound(l, d, <<>>) BY DEF BatchSound
<1>2. ASSUME PipeSound(l, c, b, p) PROVE PipeSound(l, d, <<>>, p)
 <2> SUFFICES ASSUME NEW k \in 1..Len(p), p[k].kind = "event"
               PROVE  /\ EventOf(l, p[k].event)
                      /\ \A n \in (d + 1)..p[k].event.seq : InPipe(p, n, k)
  BY DEF PipeSound
 <2>1. p[k].event.seq \in Nat BY SeqNumbers
 <2>2. ASSUME NEW n \in (d + 1)..p[k].event.seq PROVE InPipe(p, n, k)
  <3>1. n \in Nat /\ n \in (c + 1)..p[k].event.seq /\ ~(n <= d) BY <2>1
  <3> QED BY <1>2, <3>1 DEF PipeSound
 <2> QED BY <1>2, <2>2 DEF PipeSound
<1>3. ASSUME NEW last \in Int, Covered(c, b, p, last) PROVE Covered(d, <<>>, p, last)
 <2>1. ASSUME NEW n \in (d + 1)..last PROVE InPipe(p, n, Len(p))
  <3>1. n \in Nat /\ n \in (c + 1)..last /\ ~(n <= d) OBVIOUS
  <3> QED BY <1>3, <3>1 DEF Covered
 <2> QED BY <2>1 DEF Covered
<1> QED BY <1>1, <1>2, <1>3

\* The replay that a connection begins with has whatever comes after its number.
LEMMA ReplayCovers ==
  ASSUME NEW l \in Seq(Events), \A i \in 1..Len(l) : l[i].seq = i,
         NEW c \in 0..Len(l), NEW s \in 0..c, NEW p \in Seq(Messages),
         Len(p) = Len(l) - s + 1,
         \A k \in 1..(Len(p) - 1) : p[k] = EventMsg(l[s + k]), p[Len(p)].kind # "event",
         NEW last \in Int, last <= Len(l)
  PROVE  PipeSound(l, c, <<>>, p) /\ Covered(c, <<>>, p, last)
<1>1. Len(l) \in Nat /\ Len(p) \in Nat /\ s \in Nat /\ c \in Nat OBVIOUS
<1>2. \A k \in 1..(Len(l) - s) : /\ s + k \in 1..Len(l) /\ p[k].kind = "event"
                                 /\ p[k].event = l[s + k] /\ p[k].event.seq = s + k
 <2> SUFFICES ASSUME NEW k \in 1..(Len(l) - s)
               PROVE  /\ s + k \in 1..Len(l) /\ p[k].kind = "event"
                      /\ p[k].event = l[s + k] /\ p[k].event.seq = s + k
  OBVIOUS
 <2>1. s + k \in 1..Len(l) /\ k \in 1..(Len(p) - 1) BY <1>1
 <2>2. p[k] = EventMsg(l[s + k]) /\ l[s + k].seq = s + k BY <2>1
 <2> QED BY <2>1, <2>2, MessageKinds
<1>3. ASSUME NEW n \in (c + 1)..Len(l), NEW k \in 1..Len(p), n - s <= k PROVE InPipe(p, n, k)
 <2>1. n - s \in 1..k /\ n - s \in 1..(Len(l) - s) /\ s + (n - s) = n BY <1>1, <1>3
 <2> QED BY <1>2, <2>1 DEF InPipe
<1>4. PipeSound(l, c, <<>>, p)
 <2> SUFFICES ASSUME NEW k \in 1..Len(p), p[k].kind = "event"
               PROVE  /\ EventOf(l, p[k].event)
                      /\ \A n \in (c + 1)..p[k].event.seq : InPipe(p, n, k)
  BY DEF PipeSound
 <2>1. k \in 1..(Len(l) - s) BY <1>1
 <2>2. p[k].event = l[s + k] /\ p[k].event.seq = s + k /\ s + k \in 1..Len(l) BY <1>2, <2>1
 <2>3. EventOf(l, p[k].event) BY <2>2 DEF EventOf
 <2>4. \A n \in (c + 1)..(s + k) : n \in (c + 1)..Len(l) /\ n - s <= k BY <1>1, <2>2
 <2> QED BY <1>3, <2>2, <2>3, <2>4
<1>5. Covered(c, <<>>, p, last)
 <2>1. ASSUME NEW n \in (c + 1)..last PROVE InPipe(p, n, Len(p))
  <3>1. n \in (c + 1)..Len(l) /\ n - s <= Len(p) /\ Len(p) \in 1..Len(p) BY <1>1
  <3> QED BY <1>3, <3>1
 <2> QED BY <2>1 DEF Covered
<1> QED BY <1>4, <1>5

----
\* A tab whose own state stays, or to which a message comes.

LEMMA RewindStays ==
  ASSUME Structure, Structure', Grows(log, log'), NEW t \in Tabs, RewindWillCut(t),
         rewind'[t] = rewind[t]
  PROVE  RewindWillCut(t)'
<1>1. Len(log) \in Nat /\ Len(log') \in Nat
 <2>1. log \in Seq(Events) /\ log' \in Seq(Events) BY DEF Structure, TypeOK, HubTypeOK
 <2> QED BY <2>1
<1>2. \A i \in 1..Len(log) : i \in 1..Len(log') /\ log'[i] = log[i] BY <1>1 DEF Grows
<1> QED BY <1>2 DEF RewindWillCut

LEMMA ShownStays ==
  ASSUME Structure, Structure', Grows(log, log'), NEW t \in Tabs, Shown(t),
         cursor'[t] = cursor[t], view'[t] = view[t]
  PROVE  Shown(t)'
<1>1. log \in Seq(Events) /\ log' \in Seq(Events) /\ cursor[t] \in Nat BY DEF Structure, TypeOK, HubTypeOK, TabTypeOK
<1>2. Len(log) \in Nat /\ Len(log') \in Nat BY <1>1
<1>3. \A i \in 1..cursor[t] : log'[i] = log[i] BY <1>1, <1>2 DEF Shown, Grows
<1>4. {log'[i] : i \in 1..cursor[t]} = {log[i] : i \in 1..cursor[t]} BY <1>3
<1>5. cursor[t] <= Len(log') BY <1>1, <1>2 DEF Shown, Grows
<1> QED BY <1>4, <1>5 DEF Shown

LEMMA StreamSame ==
  ASSUME Structure, Structure', Grows(log, log'), NEW t \in Tabs, StreamOf(t),
         pipe'[t] = pipe[t], batch'[t] = batch[t], cursor'[t] = cursor[t], view'[t] = view[t],
         sub'[t] = "live" => sub[t] = "live" /\ Len(log') - Len(hand') = Len(log) - Len(hand),
         DialsBehind(t)', RewindWillCut(t)'
  PROVE  StreamOf(t)'
<1>1. log \in Seq(Events) /\ log' \in Seq(Events) BY DEF Structure, TypeOK, HubTypeOK
<1>2. BatchSound(log', cursor[t], batch[t]) BY <1>1, BatchStays DEF StreamOf
<1>3. PipeSound(log', cursor[t], batch[t], pipe[t]) BY <1>1, PipeStays DEF StreamOf
<1>4. Shown(t)' BY ShownStays DEF StreamOf
<1>5. sub'[t] = "live" => Covered(cursor[t], batch[t], pipe[t], Len(log') - Len(hand')) BY DEF StreamOf
<1> QED BY <1>2, <1>3, <1>4, <1>5 DEF StreamOf

LEMMA StreamUntouched ==
  ASSUME Structure, Structure', Grows(log, log'), NEW t \in Tabs, StreamOf(t),
         pipe'[t] = pipe[t], batch'[t] = batch[t], cursor'[t] = cursor[t], view'[t] = view[t],
         sub'[t] = sub[t], link'[t] = link[t], since'[t] = since[t], rewind'[t] = rewind[t],
         Len(log') - Len(hand') = Len(log) - Len(hand)
  PROVE  StreamOf(t)'
<1>1. DialsBehind(t)' BY DEF StreamOf, DialsBehind
<1>2. RewindWillCut(t)' BY RewindStays DEF StreamOf
<1> QED BY <1>1, <1>2, StreamSame

LEMMA StreamLonger ==
  ASSUME Structure, Structure', NEW t \in Tabs, StreamOf(t), NEW m, sub[t] = "live",
         Longer(pipe[t], m, pipe'[t]), Follows(log, cursor[t], batch[t], pipe[t], m),
         UNCHANGED <<log, batch, cursor, view, link, since, rewind>>,
         \/ Len(hand') = Len(hand)
         \/ Len(hand) = 1 /\ Len(hand') = 0 /\ m.kind = "event" /\ m.event.seq = Len(log)
  PROVE  StreamOf(t)'
<1>1. pipe[t] \in Seq(Messages) /\ pipe'[t] \in Seq(Messages) BY DEF Structure, TypeOK, RoomTypeOK
<1>2. /\ log \in Seq(Events) /\ Len(log) \in Nat /\ cursor[t] \in Nat
      /\ Len(hand) \in Nat /\ Len(hand) <= 1
 BY StreamTypes DEF Structure
<1>3. PipeSound(log, cursor[t], batch[t], pipe'[t]) BY <1>1, PipeLonger DEF StreamOf
<1>4. Covered(cursor[t], batch[t], pipe[t], Len(log) - Len(hand)) BY DEF StreamOf
<1>5. Covered(cursor[t], batch[t], pipe'[t], Len(log) - Len(hand'))
 <2>1. CASE Len(log) = 0 /\ Len(hand) = 1 BY <1>2, <2>1 DEF Covered
 <2>2. CASE ~(Len(log) = 0 /\ Len(hand) = 1)
  <3>4. \A x, y \in Nat : y <= 1 /\ ~(x = 0 /\ y = 1) => x - y \in Nat OBVIOUS
  <3>1. Len(log) - Len(hand) \in Nat BY <1>2, <2>2, <3>4
  <3>2. CASE Len(hand') = Len(hand) BY <1>1, <1>2, <1>4, <3>1, <3>2, CoveredLonger
  <3>3. CASE Len(hand) = 1 /\ Len(hand') = 0 /\ m.kind = "event" /\ m.event.seq = Len(log)
   <4>1. Len(log) = (Len(log) - Len(hand)) + 1 /\ Len(log) - Len(hand') = Len(log) BY <1>2, <3>3
   <4> QED BY <1>1, <1>2, <1>4, <3>1, <3>3, <4>1, CoveredLonger
  <3> QED BY <3>2, <3>3
 <2> QED BY <2>1, <2>2
<1> QED BY <1>3, <1>5 DEF StreamOf, Shown, DialsBehind, RewindWillCut

LEMMA RunKnownSame ==
  ASSUME NEW t \in Tabs, RunKnown(t), pipe'[t] = pipe[t], sub'[t] = "live" => sub[t] = "live",
         Running' => Running, synced'[t] = synced[t],
         status[t] = "streaming" => status'[t] = "streaming"
  PROVE  RunKnown(t)'
BY DEF RunKnown

LEMMA RunKnownLonger ==
  ASSUME NEW t \in Tabs, RunKnown(t), NEW m, Longer(pipe[t], m, pipe'[t]),
         pipe[t] \in Seq(Messages), pipe'[t] \in Seq(Messages),
         sub'[t] = "live" => sub[t] = "live", Running' => Running, synced'[t] = synced[t],
         status'[t] = status[t], m.kind # "sync"
  PROVE  RunKnown(t)'
<1>1. Len(pipe[t]) \in Nat /\ Len(pipe'[t]) = Len(pipe[t]) + 1 BY DEF Longer
<1>2. ASSUME NEW k \in 1..(Len(pipe[t]) + 1), NoSync(pipe[t], k) PROVE NoSync(pipe'[t], k)
 <2>1. \A j \in k..Len(pipe'[t]) : j \in k..Len(pipe[t]) \/ j = Len(pipe[t]) + 1 BY <1>1
 <2>2. \A j \in k..Len(pipe[t]) : j \in 1..Len(pipe[t]) BY <1>1
 <2> QED BY <1>2, <2>1, <2>2 DEF NoSync, Longer
<1>3. TellsRun(pipe[t]) => TellsRun(pipe'[t])
 <2>1. ASSUME NEW k \in 1..Len(pipe[t]), pipe[t][k].kind = "sync", pipe[t][k].running = TRUE,
              NoSync(pipe[t], k + 1)
       PROVE  TellsRun(pipe'[t])
  <3>1. k \in 1..Len(pipe'[t]) /\ k + 1 \in 1..(Len(pipe[t]) + 1) /\ pipe'[t][k] = pipe[t][k] BY <1>1 DEF Longer
  <3> QED BY <1>2, <2>1, <3>1 DEF TellsRun
 <2> QED BY <2>1 DEF TellsRun
<1>4. 1 \in 1..(Len(pipe[t]) + 1) BY <1>1
<1> QED BY <1>2, <1>3, <1>4 DEF RunKnown

LEMMA RunKnownTold ==
  ASSUME NEW t \in Tabs, NEW m, Longer(pipe[t], m, pipe'[t]), pipe[t] \in Seq(Messages),
         m.kind = "sync", m.running = TRUE
  PROVE  RunKnown(t)'
<1>1. Len(pipe[t]) \in Nat OBVIOUS
<1>2. /\ Len(pipe'[t]) \in 1..Len(pipe'[t]) /\ pipe'[t][Len(pipe'[t])] = m
      /\ NoSync(pipe'[t], Len(pipe'[t]) + 1)
 BY <1>1 DEF Longer, NoSync
<1>3. TellsRun(pipe'[t]) BY <1>2 DEF TellsRun
<1> QED BY <1>3 DEF RunKnown

----
\* The steps of a tab leave the others alone.
SameTab(u) ==
  /\ pipe'[u] = pipe[u] /\ sub'[u] = sub[u] /\ link'[u] = link[u] /\ since'[u] = since[u]
  /\ cursor'[u] = cursor[u] /\ view'[u] = view[u] /\ batch'[u] = batch[u]
  /\ status'[u] = status[u] /\ synced'[u] = synced[u] /\ rewind'[u] = rewind[u]

LEMMA SameTabSound ==
  ASSUME Structure, Structure', AllSound, Grows(log, log'), NEW u \in Tabs, SameTab(u),
         Len(log') - Len(hand') = Len(log) - Len(hand), Running' => Running
  PROVE  StreamOf(u)' /\ RunKnown(u)'
<1>1. StreamOf(u) /\ RunKnown(u) BY DEF AllSound
<1>2. StreamOf(u)' BY <1>1, StreamUntouched DEF SameTab
<1>3. RunKnown(u)' BY <1>1, RunKnownSame DEF SameTab
<1> QED BY <1>2, <1>3

LEMMA TabsApart ==
  ASSUME TypeOK, NEW t \in Tabs, NEW u \in Tabs \ {t},
         \/ Load(t) \/ Dial(t) \/ Open(t) \/ ConnLost(t) \/ Reload(t) \/ Receive(t) \/ Flush(t)
         \/ \E p \in Prompts : Type(t, p) \/ Remove(t, p)
         \/ Dispatch(t) \/ SendDirect(t) \/ RewindAsk(t) \/ RewindCheck(t)
  PROVE  SameTab(u)
<1>1. /\ pipe \in [Tabs -> Seq(Messages)] /\ sub \in [Tabs -> Subs]
      /\ DOMAIN link = Tabs /\ DOMAIN since = Tabs /\ DOMAIN cursor = Tabs /\ DOMAIN view = Tabs
      /\ DOMAIN batch = Tabs /\ DOMAIN status = Tabs /\ DOMAIN synced = Tabs /\ DOMAIN rewind = Tabs
 BY DEF TypeOK, RoomTypeOK, TabTypeOK
<1>2. /\ DOMAIN pipe = Tabs /\ DOMAIN sub = Tabs
      /\ link = [x \in Tabs |-> link[x]] /\ since = [x \in Tabs |-> since[x]]
      /\ cursor = [x \in Tabs |-> cursor[x]] /\ view = [x \in Tabs |-> view[x]]
      /\ batch = [x \in Tabs |-> batch[x]] /\ status = [x \in Tabs |-> status[x]]
      /\ synced = [x \in Tabs |-> synced[x]] /\ rewind = [x \in Tabs |-> rewind[x]]
 BY DEF TypeOK, RoomTypeOK, TabTypeOK
<1>3. CASE Load(t) BY <1>1, <1>2, <1>3 DEF Load, hubVars, SameTab
<1>4. CASE Dial(t) BY <1>1, <1>2, <1>4 DEF Dial, hubVars, SameTab
<1>5. CASE Open(t) BY <1>1, <1>2, <1>5 DEF Open, SubscribeAfter, SameTab
<1>6. CASE ConnLost(t) BY <1>1, <1>2, <1>6 DEF ConnLost, Disconnect, SameTab
<1>7. CASE Reload(t) BY <1>1, <1>2, <1>7 DEF Reload, Disconnect, SameTab
<1>8. CASE Receive(t) BY <1>1, <1>2, <1>8 DEF Receive, ReceiveEvent, ReceiveSync, ReceiveAck, SameTab
<1>9. CASE Flush(t) BY <1>1, <1>2, <1>9 DEF Flush, hubVars, SameTab
<1>10. CASE \E p \in Prompts : Type(t, p) \/ Remove(t, p) BY <1>10 DEF Type, Remove, hubVars, SameTab
<1>11. CASE Dispatch(t) \/ SendDirect(t) BY <1>1, <1>2, <1>11 DEF Dispatch, SendDirect, SendPrompt, hubVars, SameTab
<1>12. CASE RewindAsk(t) \/ RewindCheck(t) BY <1>1, <1>2, <1>12 DEF RewindAsk, RewindCheck, RewindTo, hubVars, tabVars, SameTab
<1> QED BY <1>3, <1>4, <1>5, <1>6, <1>7, <1>8, <1>9, <1>10, <1>11, <1>12

LEMMA TabsApartSound ==
  ASSUME Structure, Structure', AllSound, NEW t \in Tabs, NEW u \in Tabs \ {t},
         \/ Load(t) \/ Dial(t) \/ Open(t) \/ ConnLost(t) \/ Reload(t) \/ Receive(t) \/ Flush(t)
         \/ \E p \in Prompts : Type(t, p) \/ Remove(t, p)
         \/ Dispatch(t) \/ SendDirect(t) \/ RewindAsk(t) \/ RewindCheck(t)
  PROVE  StreamOf(u)' /\ RunKnown(u)'
<1>1. SameTab(u) BY TabsApart DEF Structure
<1>2. UNCHANGED <<log, hand, turn>>
 BY DEF Load, Dial, Open, ConnLost, Reload, Receive, Flush, Type, Remove, Dispatch, SendDirect,
        SendPrompt, RewindAsk, RewindCheck, hubVars
<1>3. Grows(log, log') /\ (Running' => Running) BY <1>2, StreamTypes DEF Grows, Running, Structure
<1> QED BY <1>1, <1>2, <1>3, SameTabSound

LEMMA LoadSound ==
  ASSUME Structure, Structure', AllSound, NEW t \in Tabs, Load(t)
  PROVE  StreamOf(t)' /\ RunKnown(t)'
<1>1. batch[t] = <<>> /\ pipe[t] = <<>> /\ sub[t] = "none" BY DEF Structure, Connected, Load
<1>2. UNCHANGED <<log, pipe, batch, sub, rewind>> /\ link'[t] = "down" /\ cursor'[t] = Len(log)
      /\ view'[t] = Elements(log)
 BY DEF Structure, TypeOK, TabTypeOK, Load, hubVars
<1>3. Shown(t)'
 <2>1. Len(log) \in Nat BY StreamTypes DEF Structure
 <2> QED BY <1>2, <2>1 DEF Shown, Elements
<1>4. BatchSound(log', cursor'[t], batch'[t]) /\ PipeSound(log', cursor'[t], batch'[t], pipe'[t])
 BY <1>1, <1>2 DEF BatchSound, PipeSound
<1>5. RewindWillCut(t)' BY <1>2 DEF AllSound, StreamOf, RewindWillCut
<1> QED BY <1>1, <1>2, <1>3, <1>4, <1>5 DEF StreamOf, RunKnown, DialsBehind

LEMMA DialSound ==
  ASSUME Structure, Structure', AllSound, NEW t \in Tabs, Dial(t)
  PROVE  StreamOf(t)' /\ RunKnown(t)'
<1>1. UNCHANGED <<log, hand, turn, pipe, batch, cursor, view, sub, rewind, synced, status>> BY DEF Dial, hubVars
<1>2. Grows(log, log') /\ (Running' => Running) BY <1>1, StreamTypes DEF Grows, Running, Structure
<1>3. DialsBehind(t)'
 <2>1. since'[t] = cursor[t] /\ cursor[t] \in Nat BY StreamTypes DEF Dial, Structure
 <2> QED BY <1>1, <2>1 DEF DialsBehind
<1>4. RewindWillCut(t)' BY <1>1 DEF AllSound, StreamOf, RewindWillCut
<1>5. StreamOf(t) /\ RunKnown(t) BY DEF AllSound
<1> QED BY <1>1, <1>2, <1>3, <1>4, <1>5, StreamSame, RunKnownSame

LEMMA OpenSound ==
  ASSUME Structure, Structure', AllSound, NEW t \in Tabs, Open(t)
  PROVE  StreamOf(t)' /\ RunKnown(t)'
<1>1. /\ UNCHANGED <<log, hand, turn, cursor, view, rewind>> /\ batch'[t] = <<>> /\ link'[t] = "up"
 BY DEF Open, Structure, TypeOK, TabTypeOK
<1>2. /\ log \in Seq(Events) /\ cursor[t] \in 0..Len(log) /\ since[t] \in 0..cursor[t]
      /\ pipe'[t] \in Seq(Messages) /\ Len(log) \in Nat /\ Len(hand) \in Nat
 <2>1. cursor[t] <= Len(log) /\ since[t] <= cursor[t] BY DEF AllSound, StreamOf, Shown, DialsBehind, Open
 <2>2. pipe'[t] \in Seq(Messages) BY DEF Structure, TypeOK, RoomTypeOK
 <2> QED BY <2>1, <2>2, StreamTypes DEF Structure
<1>3. /\ Len(pipe'[t]) = Len(log) - since[t] + 1
      /\ \A k \in 1..(Len(pipe'[t]) - 1) : pipe'[t][k] = EventMsg(log[since[t] + k])
      /\ pipe'[t][Len(pipe'[t])] = SyncMsg(Running)
 <2>1. since[t] <= Len(log) BY <1>2
 <2> QED BY <2>1, OpenShape
<1>4. pipe'[t][Len(pipe'[t])].kind = "sync" /\ pipe'[t][Len(pipe'[t])].running = Running BY <1>3, MessageKinds
<1>5. /\ PipeSound(log, cursor[t], <<>>, pipe'[t])
      /\ Covered(cursor[t], <<>>, pipe'[t], Len(log) - Len(hand))
 <2>1. Len(log) - Len(hand) \in Int /\ Len(log) - Len(hand) <= Len(log) BY <1>2
 <2>2. \A i \in 1..Len(log) : log[i].seq = i BY DEF Structure, LogNumbered
 <2>3. pipe'[t][Len(pipe'[t])].kind # "event" BY <1>4
 <2> QED BY <1>2, <1>3, <2>1, <2>2, <2>3, ReplayCovers
<1>6. StreamOf(t)'
 <2>1. Shown(t)' /\ RewindWillCut(t)' BY <1>1 DEF AllSound, StreamOf, Shown, RewindWillCut
 <2>2. BatchSound(log, cursor[t], <<>>) BY DEF BatchSound
 <2> QED BY <1>1, <1>5, <2>1, <2>2 DEF StreamOf, DialsBehind
<1>7. RunKnown(t)'
 <2> SUFFICES ASSUME Running' PROVE TellsRun(pipe'[t]) BY DEF RunKnown
 <2>1. Running = TRUE BY <1>1 DEF Running
 <2>2. Len(pipe'[t]) \in 1..Len(pipe'[t]) /\ Len(pipe'[t]) \in Nat BY <1>2, <1>3
 <2>3. NoSync(pipe'[t], Len(pipe'[t]) + 1) BY <2>2 DEF NoSync
 <2> QED BY <1>4, <2>1, <2>2, <2>3 DEF TellsRun
<1> QED BY <1>6, <1>7

LEMMA GoneSound ==
  ASSUME Structure, Structure', AllSound, NEW t \in Tabs, ConnLost(t) \/ Reload(t)
  PROVE  StreamOf(t)' /\ RunKnown(t)'
<1>1. pipe'[t] = <<>> /\ sub'[t] = "none" /\ UNCHANGED <<log, hand, rewind>> /\ link'[t] # "dialing"
 BY DEF Structure, TypeOK, RoomTypeOK, TabTypeOK, ConnLost, Reload, Disconnect
<1>2. \/ UNCHANGED <<cursor, view, batch>>
      \/ cursor'[t] = 0 /\ view'[t] = {} /\ batch'[t] = <<>>
 BY DEF Structure, TypeOK, TabTypeOK, ConnLost, Reload
<1>3. RewindWillCut(t)' BY <1>1 DEF AllSound, StreamOf, RewindWillCut
<1>4. Shown(t)' /\ BatchSound(log', cursor'[t], batch'[t])
 <2>1. CASE UNCHANGED <<cursor, view, batch>> BY <1>1, <2>1 DEF AllSound, StreamOf, Shown
 <2>2. CASE cursor'[t] = 0 /\ view'[t] = {} /\ batch'[t] = <<>>
  <3>1. Len(log) \in Nat /\ 1..0 = {} BY StreamTypes DEF Structure
  <3>2. Shown(t)' BY <1>1, <2>2, <3>1 DEF Shown
  <3>3. BatchSound(log', cursor'[t], batch'[t]) BY <2>2 DEF BatchSound
  <3> QED BY <3>2, <3>3
 <2> QED BY <1>2, <2>1, <2>2
<1>5. PipeSound(log', cursor'[t], batch'[t], pipe'[t]) BY <1>1 DEF PipeSound
<1> QED BY <1>1, <1>3, <1>4, <1>5 DEF StreamOf, DialsBehind, RunKnown

LEMMA ReceiveSound ==
  ASSUME Structure, Structure', AllSound, NEW t \in Tabs, Receive(t)
  PROVE  StreamOf(t)' /\ RunKnown(t)'
<1> DEFINE p == pipe[t]
            q == pipe'[t]
<1>1. /\ p \in Seq(Messages) /\ q \in Seq(Messages) /\ p # <<>> /\ Len(p) \in Nat \ {0}
      /\ Head(p) = p[1] /\ p[1] \in Messages /\ Shorter(p, q)
 <2>1. q \in Seq(Messages) BY DEF Structure, TypeOK, RoomTypeOK
 <2>2. p # <<>> BY DEF Receive
 <2> QED BY <2>1, <2>2, ReceiveShape DEF Structure, Shorter
<1>2. UNCHANGED <<log, hand, turn, sub, link, since, cursor, view, rewind>> BY DEF Receive, ReceiveEvent, ReceiveSync, ReceiveAck
<1>3. /\ log \in Seq(Events) /\ Len(log) \in Nat /\ Len(hand) \in Nat /\ cursor[t] \in Nat
      /\ batch[t] \in Seq(Events) /\ batch \in [Tabs -> Seq(Events)]
 BY StreamTypes DEF Structure
<1>4. /\ StreamOf(t) /\ RunKnown(t)
      /\ BatchSound(log, cursor[t], batch[t]) /\ PipeSound(log, cursor[t], batch[t], p)
      /\ sub[t] = "live" => Covered(cursor[t], batch[t], p, Len(log) - Len(hand))
 BY DEF AllSound, StreamOf
<1>5. Shown(t)' /\ DialsBehind(t)' /\ RewindWillCut(t)' BY <1>2, <1>4 DEF StreamOf, Shown, DialsBehind, RewindWillCut
<1>6. Len(log) - Len(hand) \in Int BY <1>3
<1> HIDE DEF p, q
<1>7. StreamOf(t)'
 <2>1. CASE ReceiveEvent(t)
  <3>1. p[1].kind = "event" /\ batch'[t] = Append(batch[t], p[1].event) BY <1>1, <1>3, <2>1 DEF ReceiveEvent, p
  <3>2. /\ BatchSound(log, cursor[t], batch'[t]) /\ PipeSound(log, cursor[t], batch'[t], q)
        /\ \A last \in Int : Covered(cursor[t], batch[t], p, last) => Covered(cursor[t], batch'[t], q, last)
   BY <1>1, <1>3, <1>4, <3>1, EventMoves
  <3> QED BY <1>2, <1>4, <1>5, <1>6, <3>2 DEF StreamOf, q
 <2>2. CASE ReceiveSync(t) \/ ReceiveAck(t)
  <3>1. p[1].kind # "event" /\ batch' = batch BY <1>1, <2>2 DEF ReceiveSync, ReceiveAck, p
  <3>2. /\ PipeSound(log, cursor[t], batch[t], q)
        /\ \A last \in Int : Covered(cursor[t], batch[t], p, last) => Covered(cursor[t], batch[t], q, last)
   BY <1>1, <1>3, <1>4, <3>1, OtherMoves
  <3> QED BY <1>2, <1>4, <1>5, <1>6, <3>1, <3>2 DEF StreamOf, q
 <2> QED BY <2>1, <2>2 DEF Receive
<1>8. ASSUME NEW k \in 2..(Len(p) + 1), NoSync(p, k) PROVE NoSync(q, k - 1)
 <2>1. \A j \in (k - 1)..Len(q) : j \in 1..Len(q) /\ j + 1 \in k..Len(p) BY <1>1 DEF Shorter
 <2> QED BY <1>1, <1>8, <2>1 DEF NoSync, Shorter
<1>9. ASSUME NEW k \in 2..Len(p), p[k].kind = "sync", p[k].running = TRUE, NoSync(p, k + 1)
      PROVE  TellsRun(q)
 <2>1. k - 1 \in 1..Len(q) /\ (k - 1) + 1 = k /\ k + 1 \in 2..(Len(p) + 1) /\ (k + 1) - 1 = (k - 1) + 1 BY <1>1 DEF Shorter
 <2>2. q[k - 1] = p[k] /\ NoSync(q, (k - 1) + 1) BY <1>1, <1>8, <1>9, <2>1 DEF Shorter
 <2> QED BY <1>9, <2>1, <2>2 DEF TellsRun
<1>10. ASSUME NoSync(p, 1) PROVE NoSync(p, 2) /\ p[1].kind # "sync" BY <1>1, <1>10 DEF NoSync
<1>11. 2 \in 2..(Len(p) + 1) /\ 2 - 1 = 1 BY <1>1
<1>12. RunKnown(t)'
 <2> SUFFICES ASSUME sub[t] = "live", Running
               PROVE  TellsRun(q) \/ (NoSync(q, 1) /\ synced'[t] = TRUE /\ status'[t] = "streaming")
  BY <1>2 DEF RunKnown, Running, q
 <2>1. TellsRun(p) \/ (NoSync(p, 1) /\ synced[t] = TRUE /\ status[t] = "streaming") BY <1>4 DEF RunKnown, p
 <2>2. CASE NoSync(p, 1) /\ synced[t] = TRUE /\ status[t] = "streaming"
  <3>1. ~ReceiveSync(t) BY <1>1, <1>10, <2>2 DEF ReceiveSync, p
  <3>2. UNCHANGED <<synced, status>> BY <3>1 DEF Receive, ReceiveEvent, ReceiveAck
  <3>3. NoSync(q, 1) BY <1>8, <1>10, <1>11, <2>2
  <3> QED BY <2>2, <3>2, <3>3
 <2>3. CASE TellsRun(p)
  <3>1. PICK k \in 1..Len(p) : p[k].kind = "sync" /\ p[k].running = TRUE /\ NoSync(p, k + 1) BY <2>3 DEF TellsRun
  <3>2. CASE k = 1
   <4>1. ReceiveSync(t) BY <1>1, <3>1, <3>2 DEF Receive, ReceiveEvent, ReceiveAck, p
   <4>2. synced'[t] = TRUE /\ status'[t] = "streaming"
    BY <1>1, <3>1, <3>2, <4>1 DEF ReceiveSync, SyncStatus, Structure, TypeOK, TabTypeOK, p
   <4>3. NoSync(q, 1) BY <1>8, <1>11, <3>1, <3>2
   <4> QED BY <4>2, <4>3
  <3>3. CASE k # 1
   <4>1. k \in 2..Len(p) BY <1>1, <3>3
   <4> QED BY <1>9, <3>1, <4>1
  <3> QED BY <3>2, <3>3
 <2> QED BY <2>1, <2>2, <2>3
<1> QED BY <1>7, <1>12

LEMMA FlushSound ==
  ASSUME Structure, Structure', AllSound, NEW t \in Tabs, Flush(t)
  PROVE  StreamOf(t)' /\ RunKnown(t)'
<1>1. UNCHANGED <<log, hand, turn, sub, pipe, link, since, rewind, synced>> BY DEF Flush, hubVars
<1>2. /\ log \in Seq(Events) /\ Len(log) \in Nat /\ Len(hand) \in Nat /\ cursor[t] \in Nat
      /\ batch[t] \in Seq(Events) /\ pipe[t] \in Seq(Messages)
 BY StreamTypes DEF Structure
<1> DEFINE b == batch[t]
            c == cursor[t]
            d == cursor'[t]
            p == pipe[t]
            own == Event(c, 0, FALSE)
            v == {log[i] : i \in 1..c}
<1>3. /\ d = LatestSequence(Elements(b) \cup {own})
      /\ view'[t] = MergeEvents(view[t], b) /\ batch'[t] = <<>>
      /\ status'[t] = StatusAfter(b[Len(b)], status[t])
 BY DEF Flush, Structure, TypeOK, TabTypeOK
<1>4. /\ StreamOf(t) /\ RunKnown(t) /\ view[t] = v /\ c <= Len(log)
      /\ BatchSound(log, c, b) /\ PipeSound(log, c, b, p)
      /\ sub[t] = "live" => Covered(c, b, p, Len(log) - Len(hand))
 BY DEF AllSound, StreamOf, Shown
<1>5. \A i \in 1..Len(log) : log[i].seq = i BY DEF Structure, LogNumbered
<1>6. c \in 0..Len(log) /\ b \in Seq(Events) /\ p \in Seq(Messages) BY <1>2, <1>4
<1>7. /\ d \in 0..Len(log) /\ c <= d
      /\ MergeEvents(v, b) = {log[i] : i \in 1..d}
      /\ \A n \in Nat : InBatch(b, n, Len(b)) => n <= d
 <2>1. ASSUME NEW cc \in 0..Len(log), NEW bb \in Seq(Events), BatchSound(log, cc, bb), NEW dd,
              dd = LatestSequence(Elements(bb) \cup {Event(cc, 0, FALSE)})
       PROVE  /\ dd \in 0..Len(log) /\ cc <= dd
              /\ MergeEvents({log[i] : i \in 1..cc}, bb) = {log[i] : i \in 1..dd}
              /\ \A n \in Nat : InBatch(bb, n, Len(bb)) => n <= dd
  BY <1>2, <1>5, <2>1, FlushShows
 <2>2. BatchSound(log, c, b) BY <1>4
 <2> QED BY <1>3, <1>6, <2>1, <2>2
<1>8. d \in Nat /\ d <= Len(log) /\ Len(log) - Len(hand) \in Int BY <1>2, <1>7
<1>9. /\ BatchSound(log, d, <<>>) /\ PipeSound(log, d, <<>>, p)
      /\ sub[t] = "live" => Covered(d, <<>>, p, Len(log) - Len(hand))
 <2> HIDE DEF b, c, d, p
 <2>1. c \in Nat /\ \A n \in Nat : InBatch(b, n, Len(b)) => n <= d BY <1>2, <1>6, <1>7
 <2> QED BY <1>2, <1>4, <1>6, <1>7, <1>8, <2>1, FlushLeaves
<1>10. Shown(t)' BY <1>1, <1>3, <1>4, <1>7, <1>8 DEF Shown
<1>11. DialsBehind(t)'
 <2>1. since[t] \in Nat BY StreamTypes DEF Structure
 <2> QED BY <1>1, <1>2, <1>4, <1>7, <1>8, <2>1 DEF StreamOf, DialsBehind
<1>12. RewindWillCut(t)' BY <1>1, <1>4 DEF StreamOf, RewindWillCut
<1>13. RunKnown(t)'
 <2>1. status[t] = "streaming" => status'[t] = "streaming" BY <1>3 DEF StatusAfter
 <2> QED BY <1>1, <1>4, <2>1, RunKnownSame DEF Running
<1> QED BY <1>1, <1>3, <1>9, <1>10, <1>11, <1>12, <1>13 DEF StreamOf

\* Typing, removing, sending and asking for a rewind leave the stream alone.
LEMMA PromptStepSound ==
  ASSUME Structure, Structure', AllSound, NEW t \in Tabs,
         \/ \E p \in Prompts : Type(t, p) \/ Remove(t, p)
         \/ Dispatch(t) \/ SendDirect(t)
  PROVE  StreamOf(t)' /\ RunKnown(t)'
<1>1. /\ UNCHANGED <<log, hand, turn, sub, pipe, link, since, cursor, view, batch, rewind, synced>>
      /\ status'[t] = status[t] \/ status'[t] = "streaming"
 BY DEF Type, Remove, Dispatch, SendDirect, SendPrompt, hubVars, Structure, TypeOK, TabTypeOK
<1>2. Grows(log, log') /\ (Running' => Running) BY <1>1, StreamTypes DEF Grows, Running, Structure
<1>3. StreamOf(t) /\ RunKnown(t) BY DEF AllSound
<1> QED BY <1>1, <1>2, <1>3, StreamUntouched, RunKnownSame

LEMMA RewindAskSound ==
  ASSUME Structure, Structure', AllSound, NEW t \in Tabs, RewindAsk(t) \/ RewindCheck(t)
  PROVE  StreamOf(t)' /\ RunKnown(t)'
<1>1. UNCHANGED <<log, hand, turn, sub, pipe, link, since, cursor, view, batch, synced, status>>
 BY DEF RewindAsk, RewindCheck, hubVars, tabVars
<1>2. Grows(log, log') /\ (Running' => Running) BY <1>1, StreamTypes DEF Grows, Running, Structure
<1>3. StreamOf(t) /\ RunKnown(t) BY DEF AllSound
<1>4. RewindWillCut(t)'
 <2>1. CASE RewindAsk(t)
  <3>1. PICK ev \in view[t] :
          rewind' = [rewind EXCEPT ![t] = [at |-> "asked", from |-> ev.id, page |-> <<>>]]
   BY <2>1 DEF RewindAsk, RewindTo
  <3>2. rewind'[t].at = "asked" /\ rewind'[t].from = ev.id BY <3>1 DEF Structure, TypeOK, TabTypeOK
  <3>3. PICK i \in 1..cursor[t] : ev = log[i] BY <1>3, <3>1 DEF StreamOf, Shown
  <3>4. i \in 1..Len(log) BY <1>3, StreamTypes DEF StreamOf, Shown, Structure
  <3> QED BY <1>1, <3>2, <3>3, <3>4 DEF RewindWillCut
 <2>2. CASE RewindCheck(t)
  <3>1. rewind[t].at = "asked" /\ \E i \in 1..Len(log) : log[i].id = rewind[t].from
   BY <1>3, <2>2 DEF RewindCheck, StreamOf, RewindWillCut
  <3>2. \/ rewind'[t] = NoRewind
        \/ rewind'[t] = [rewind[t] EXCEPT !.at = "checked"]
   BY <2>2 DEF RewindCheck, RewindTo, Structure, TypeOK, TabTypeOK
  <3>3. rewind[t] \in [at : {"none", "asked", "checked", "truncated", "paged"},
                       from : Nat, page : Seq(Events)]
   BY DEF Structure, TypeOK, TabTypeOK
  <3>4. \/ rewind'[t].at = "none"
        \/ rewind'[t].at = "checked" /\ rewind'[t].from = rewind[t].from
   BY <3>2, <3>3 DEF NoRewind
  <3> QED BY <1>1, <3>1, <3>4 DEF RewindWillCut
 <2> QED BY <2>1, <2>2
<1>5. DialsBehind(t)' BY <1>1, <1>3 DEF StreamOf, DialsBehind
<1> QED BY <1>1, <1>2, <1>3, <1>4, <1>5, StreamSame, RunKnownSame

----
\* What the server sends.
TabsStay == UNCHANGED <<link, since, cursor, view, batch, status, synced, rewind>>

LEMMA MessageLeft ==
  ASSUME Structure, Structure', AllSound, NEW t \in Tabs, NEW m, TabsStay, UNCHANGED log,
         sub[t] = "live", sub'[t] = sub[t], Longer(pipe[t], m, pipe'[t]),
         Follows(log, cursor[t], batch[t], pipe[t], m),
         \/ Len(hand') = Len(hand)
         \/ Len(hand) = 1 /\ Len(hand') = 0 /\ m.kind = "event" /\ m.event.seq = Len(log),
         IF m.kind = "sync" THEN Running' => m.running = TRUE ELSE Running' => Running
  PROVE  StreamOf(t)' /\ RunKnown(t)'
<1>1. StreamOf(t) /\ RunKnown(t) BY DEF AllSound
<1>2. StreamOf(t)' BY <1>1, StreamLonger DEF TabsStay
<1>3. pipe[t] \in Seq(Messages) /\ pipe'[t] \in Seq(Messages) BY DEF Structure, TypeOK, RoomTypeOK
<1>4. CASE m.kind = "sync"
 <2>1. CASE Running'
  <3>1. m.running = TRUE BY <1>4, <2>1
  <3> QED BY <1>2, <1>3, <1>4, <3>1, RunKnownTold
 <2>2. CASE ~Running' BY <1>2, <2>2 DEF RunKnown
 <2> QED BY <2>1, <2>2
<1>5. CASE m.kind # "sync" BY <1>1, <1>2, <1>3, <1>5, RunKnownLonger DEF TabsStay
<1> QED BY <1>4, <1>5

LEMMA BroadcastSound ==
  ASSUME Structure, Structure', AllSound, NEW m \in Messages, Broadcast(m), TabsStay, UNCHANGED log,
         \A t \in Tabs : sub[t] = "live" => Follows(log, cursor[t], batch[t], pipe[t], m),
         \/ Len(hand') = Len(hand)
         \/ Len(hand) = 1 /\ Len(hand') = 0 /\ m.kind = "event" /\ m.event.seq = Len(log),
         IF m.kind = "sync" THEN Running' => m.running = TRUE ELSE Running' => Running,
         NEW t \in Tabs
  PROVE  StreamOf(t)' /\ RunKnown(t)'
<1>1. TypeOK BY DEF Structure
<1>2. CASE Fits(t)
 <2>1. sub[t] = "live" /\ sub'[t] = sub[t] /\ Longer(pipe[t], m, pipe'[t]) BY <1>1, <1>2, BroadcastShape DEF Fits, Longer
 <2> QED BY <2>1, MessageLeft
<1>3. CASE ~Fits(t)
 <2>1. pipe'[t] = pipe[t] /\ sub'[t] # "live" BY <1>1, <1>3, BroadcastShape
 <2>2. StreamOf(t) BY DEF AllSound
 <2>3. Grows(log, log') BY StreamTypes, <1>1 DEF Grows
 <2>4. DialsBehind(t)' /\ RewindWillCut(t)' BY <2>2 DEF StreamOf, DialsBehind, RewindWillCut, TabsStay
 <2>5. StreamOf(t)' BY <2>1, <2>2, <2>3, <2>4, StreamSame DEF TabsStay
 <2>6. RunKnown(t)' BY <2>1 DEF RunKnown
 <2> QED BY <2>5, <2>6
<1> QED BY <1>2, <1>3

LEMMA SendSound ==
  ASSUME Structure, Structure', AllSound, NEW m \in Messages, NEW a, SendTransient(a, m), TabsStay,
         UNCHANGED <<log, hand, sub>>, Running' => Running, m.kind # "sync",
         m.kind = "event" => m.event.seq = 0, NEW t \in Tabs
  PROVE  StreamOf(t)' /\ RunKnown(t)'
<1>1. TypeOK BY DEF Structure
<1>2. cursor[t] \in Nat /\ log \in Seq(Events) BY <1>1, StreamTypes
<1>3. Follows(log, cursor[t], batch[t], pipe[t], m)
 <2>1. (cursor[t] + 1)..0 = {} BY <1>2
 <2> QED BY <2>1 DEF Follows, EventOf
<1>4. CASE t = a /\ Fits(t)
 <2>1. sub[t] = "live" /\ sub'[t] = sub[t] /\ Longer(pipe[t], m, pipe'[t]) BY <1>1, <1>4, SendShape DEF Fits, Longer
 <2> QED BY <1>3, <2>1, MessageLeft
<1>5. CASE ~(t = a /\ Fits(t))
 <2>1. pipe'[t] = pipe[t] BY <1>1, <1>5, SendShape
 <2>2. Grows(log, log') BY <1>1, StreamTypes DEF Grows
 <2>3. SameTab(t) BY <2>1 DEF SameTab, TabsStay
 <2> QED BY <2>2, <2>3, SameTabSound
<1> QED BY <1>4, <1>5

\* A run that begins tells everyone in the room.
LEMMA StartSound ==
  ASSUME Structure, Structure', AllSound, NEW a, StartRun(a), TabsStay, UNCHANGED <<log, hand>>
  PROVE  AllSound'
<1> DEFINE yes == TRUE
            m == SyncMsg(yes)
<1>1. m.kind = "sync" /\ m.running = yes BY MessageKinds
<1>2. m \in Messages BY MessagesSent
<1>3. Broadcast(m) BY DEF StartRun
<1> HIDE DEF m
<1>4. \A t \in Tabs : Follows(log, cursor[t], batch[t], pipe[t], m) BY <1>1 DEF Follows
<1>5. ASSUME NEW t \in Tabs PROVE StreamOf(t)' /\ RunKnown(t)' BY <1>1, <1>2, <1>3, <1>4, BroadcastSound
<1>6. HandLast' BY DEF AllSound, HandLast
<1> QED BY <1>5, <1>6 DEF AllSound

LEMMA EndSound ==
  ASSUME Structure, Structure', AllSound, EndRun, TabsStay
  PROVE  AllSound'
<1> DEFINE no == FALSE
            m == SyncMsg(no)
<1>1. m.kind = "sync" BY MessageKinds
<1>2. m \in Messages BY MessagesSent
<1>3. Broadcast(m) /\ ~Running' /\ UNCHANGED <<log, hand>> BY DEF EndRun, FinishRun, Running
<1> HIDE DEF m
<1>4. \A t \in Tabs : Follows(log, cursor[t], batch[t], pipe[t], m) BY <1>1 DEF Follows
<1>5. ASSUME NEW t \in Tabs PROVE StreamOf(t)' /\ RunKnown(t)' BY <1>1, <1>2, <1>3, <1>4, BroadcastSound
<1>6. HandLast' BY <1>3 DEF AllSound, HandLast
<1> QED BY <1>5, <1>6 DEF AllSound

\* The event that is broadcast is the last of the log, and all before it were.
LEMMA BroadcastEventSound ==
  ASSUME Structure, Structure', AllSound, BroadcastEvent, TabsStay
  PROVE  AllSound'
<1> DEFINE ev == hand[1]
            m == EventMsg(ev)
<1>1. /\ hand \in Seq(Events) /\ Len(hand) = 1 /\ hand # <<>> /\ Head(hand) = ev /\ ev \in Events
 <2>1. hand \in Seq(Events) /\ Len(hand) <= 1 /\ hand # <<>> BY DEF Structure, TypeOK, HubTypeOK, BroadcastEvent
 <2> QED BY <2>1
<1>2. m.kind = "event" /\ m.event = ev /\ m \in Messages BY <1>1, MessageKinds, MessagesSent
<1>3. /\ log \in Seq(Events) /\ log # <<>> /\ ev = log[Len(log)] /\ Len(log) \in Nat \ {0}
      /\ ev.seq = Len(log)
 <2>1. log \in Seq(Events) /\ log # <<>> /\ ev = log[Len(log)] BY <1>1 DEF AllSound, HandLast, Structure, TypeOK, HubTypeOK
 <2>2. Len(log) \in Nat \ {0} /\ Len(log) \in 1..Len(log) BY <2>1
 <2> QED BY <2>1, <2>2 DEF Structure, LogNumbered
<1>4. Broadcast(m) /\ hand' = <<>> /\ UNCHANGED <<log, turn>> BY <1>1 DEF BroadcastEvent
<1> HIDE DEF m, ev
<1>5. ASSUME NEW t \in Tabs, sub[t] = "live"
      PROVE  Follows(log, cursor[t], batch[t], pipe[t], m)
 <2>1. EventOf(log, ev) BY <1>3 DEF EventOf
 <2>2. Covered(cursor[t], batch[t], pipe[t], Len(log) - 1) BY <1>1, <1>5 DEF AllSound, StreamOf
 <2>3. cursor[t] \in Nat BY StreamTypes DEF Structure
 <2>4. \A n \in (cursor[t] + 1)..Len(log) : n = Len(log) \/ n \in (cursor[t] + 1)..(Len(log) - 1) BY <1>3, <2>3
 <2> QED BY <1>2, <1>3, <2>1, <2>2, <2>4 DEF Follows, Covered
<1>6. Len(hand') = 0 /\ m.event.seq = Len(log) /\ (Running' => Running) BY <1>2, <1>3, <1>4 DEF Running
<1>7. ASSUME NEW t \in Tabs PROVE StreamOf(t)' /\ RunKnown(t)' BY <1>1, <1>2, <1>4, <1>5, <1>6, BroadcastSound
<1>8. HandLast' BY <1>4 DEF HandLast
<1> QED BY <1>7, <1>8 DEF AllSound

\* An event that is only appended is on nobody's way yet.
LEMMA EmitSound ==
  ASSUME Structure, Structure', AllSound, EmitUser \/ EmitProgress \/ EmitFinal, TabsStay
  PROVE  AllSound'
<1>1. PICK final \in BOOLEAN : /\ hand = <<>> /\ AppendEvent(final) /\ turn # "none"
                               /\ UNCHANGED <<sub, pipe>>
 BY DEF EmitUser, EmitProgress, EmitFinal, Emit
<1> DEFINE ev == Event(LastSeq + 1, minted + 1, final)
<1>2. log' = Append(log, ev) /\ hand' = <<ev>> BY <1>1 DEF AppendEvent
<1> HIDE DEF ev
<1>3. log \in Seq(Events) /\ log' \in Seq(Events) BY DEF Structure, TypeOK, HubTypeOK
<1>4. /\ Len(log) \in Nat /\ Len(log') = Len(log) + 1 /\ log'[Len(log) + 1] = ev
      /\ \A i \in 1..Len(log) : log'[i] = log[i]
 BY <1>2, <1>3
<1>5. Grows(log, log') /\ Len(log') - Len(hand') = Len(log) - Len(hand) /\ Running BY <1>1, <1>2, <1>4 DEF Grows, Running
<1>6. ASSUME NEW t \in Tabs PROVE StreamOf(t)' /\ RunKnown(t)'
 <2>1. SameTab(t) BY <1>1 DEF SameTab, TabsStay
 <2> QED BY <1>5, <2>1, SameTabSound
<1>7. HandLast'
 <2>1. hand'[1] = ev /\ log'[Len(log')] = ev /\ log' # <<>> BY <1>2, <1>4
 <2> QED BY <2>1 DEF HandLast
<1> QED BY <1>6, <1>7 DEF AllSound

LEMMA RefuseSound ==
  ASSUME Structure, Structure', AllSound, RefuseRun
  PROVE  AllSound'
<1> DEFINE m == EventMsg(TransientError)
<1>1. m.kind = "event" /\ m.event.seq = 0 /\ m \in Messages BY MessageKinds, MessagesSent DEF TransientError, Event
<1>2. /\ SendTransient(asker, m) /\ TabsStay /\ UNCHANGED <<log, hand, sub>> /\ Running
 BY DEF RefuseRun, ReportError, TabsAside, tabVars, TabsStay, Running
<1> HIDE DEF m
<1>3. ASSUME NEW t \in Tabs PROVE StreamOf(t)' /\ RunKnown(t)' BY <1>1, <1>2, SendSound
<1>4. HandLast' BY <1>2 DEF AllSound, HandLast
<1> QED BY <1>3, <1>4 DEF AllSound

LEMMA HandlerSound ==
  ASSUME Structure, Structure', AllSound, AcksTrue, NEW h \in Tabs, HandlerStep(h)
  PROVE  AllSound'
<1>1. CASE AcceptPrompt(h)
 <2>1. StartRun(Asker(h)) /\ TabsStay /\ UNCHANGED <<log, hand>> BY <1>1 DEF AcceptPrompt, tabVars, TabsStay
 <2> QED BY <2>1, StartSound
<1>2. ASSUME NEW m \in Messages, NEW a, SendTransient(a, m), m.kind # "sync",
             m.kind = "event" => m.event.seq = 0,
             TabsStay, UNCHANGED <<log, hand, sub, turn>>
      PROVE  AllSound'
 <2>1. Running' => Running BY <1>2 DEF Running
 <2>2. ASSUME NEW t \in Tabs PROVE StreamOf(t)' /\ RunKnown(t)' BY <1>2, <2>1, SendSound
 <2>3. HandLast' BY <1>2 DEF AllSound, HandLast
 <2> QED BY <2>2, <2>3 DEF AllSound
<1>3. CASE RejectPrompt(h)
 <2> DEFINE m == EventMsg(TransientError)
 <2>1. m.kind = "event" /\ m.event.seq = 0 /\ m \in Messages BY MessageKinds, MessagesSent DEF TransientError, Event
 <2>2. SendTransient(Asker(h), m) /\ TabsStay /\ UNCHANGED <<log, hand, sub, turn>> BY <1>3 DEF RejectPrompt, tabVars, TabsStay
 <2> HIDE DEF m
 <2> QED BY <1>2, <2>1, <2>2
<1>4. CASE Acknowledge(h)
 <2>1. /\ verdict[h] # <<>> /\ verdict[h] \in Seq(Messages)
       /\ SendTransient(h, verdict[h][1]) /\ TabsStay /\ UNCHANGED <<log, hand, sub, turn>>
  BY <1>4 DEF Acknowledge, tabVars, TabsStay, Structure, TypeOK, PromptTypeOK
 <2>2. verdict[h][1] \in Messages BY <2>1
 <2>3. verdict[h][1].kind = "ack"
  <3>1. 1 \in 1..Len(verdict[h]) BY <2>1
  <3> QED BY <3>1 DEF AcksTrue
 <2> QED BY <1>2, <2>1, <2>2, <2>3
<1> QED BY <1>1, <1>3, <1>4 DEF HandlerStep

LEMMA CrashSound ==
  ASSUME Structure, Structure', AllSound, Crash
  PROVE  AllSound'
<1>1. /\ UNCHANGED <<log, pipe, cursor, view, batch>> /\ hand' = <<>>
      /\ \A t \in Tabs : sub'[t] # "live" /\ link'[t] # "dialing" /\ rewind'[t] = NoRewind
 BY DEF Crash, HubCrash
<1>2. Grows(log, log') BY <1>1, StreamTypes DEF Grows, Structure, TypeOK, HubTypeOK
<1>3. ASSUME NEW t \in Tabs PROVE StreamOf(t)' /\ RunKnown(t)'
 <2>1. StreamOf(t) BY DEF AllSound
 <2>2. DialsBehind(t)' /\ RewindWillCut(t)' BY <1>1 DEF DialsBehind, RewindWillCut, NoRewind
 <2>3. StreamOf(t)' BY <1>1, <1>2, <2>1, <2>2, StreamSame
 <2>4. RunKnown(t)' BY <1>1 DEF RunKnown
 <2> QED BY <2>3, <2>4
<1>4. HandLast' BY <1>1 DEF HandLast
<1> QED BY <1>3, <1>4 DEF AllSound

----
\* An event that was removed does not come back: numbers are given anew.
LEMMA StillUnrewound ==
  ASSUME Structure, Structure', [Next]_vars, Unrewound'
  PROVE  Unrewound
<1>1. /\ log \in Seq(Events) /\ Len(log) \in Nat /\ minted \in Nat /\ Len(log) <= minted
      /\ log' \in Seq(Events) /\ Len(log') \in Nat /\ minted' \in Nat
 <2>1. log \in Seq(Events) /\ minted \in Nat /\ log' \in Seq(Events) /\ minted' \in Nat BY DEF Structure, TypeOK, HubTypeOK
 <2> QED BY <2>1 DEF Structure, LogNumbered
<1>2. ASSUME NEW final, AppendEvent(final) PROVE Unrewound
 <2>1. Len(log') = Len(log) + 1 /\ minted' = minted + 1 BY <1>1, <1>2 DEF AppendEvent
 <2> QED BY <1>1, <2>1 DEF Unrewound
<1>3. ASSUME NEW id, TruncateEventsBefore(id), minted' = minted PROVE Unrewound
 <2>1. Len(log') <= Len(log) BY <1>1, <1>3 DEF TruncateEventsBefore
 <2> QED BY <1>1, <1>3, <2>1 DEF Unrewound
<1>4. ASSUME UNCHANGED <<log, minted>> PROVE Unrewound BY <1>4 DEF Unrewound
<1>5. ASSUME NEW t \in Tabs, TabStep(t) PROVE Unrewound
 <2>1. CASE RewindTruncate(t) BY <1>3, <2>1 DEF RewindTruncate
 <2>2. CASE ~RewindTruncate(t)
  <3>1. UNCHANGED <<log, minted>>
   BY <1>5, <2>2 DEF TabStep, Load, Dial, Open, ConnLost, Reload, Receive, Flush, Type, Remove,
      Dispatch, SendDirect, SendPrompt, RewindAsk, RewindCheck, RewindPage, RewindApply, hubVars
  <3> QED BY <1>4, <3>1
 <2> QED BY <2>1, <2>2
<1>6. ASSUME NEW t \in Tabs, HandlerStep(t) PROVE Unrewound BY <1>4, <1>6 DEF HandlerStep, AcceptPrompt, RejectPrompt, Acknowledge
<1>7. CASE RunStep
 <2>1. CASE EmitUser \/ EmitProgress \/ EmitFinal BY <1>2, <2>1 DEF EmitUser, EmitProgress, EmitFinal, Emit
 <2>2. CASE BroadcastEvent \/ EndRun BY <1>4, <2>2 DEF BroadcastEvent, EndRun
 <2> QED BY <1>7, <2>1, <2>2 DEF RunStep
<1>8. CASE StartElsewhere \/ RefuseRun \/ Crash \/ UNCHANGED vars
 BY <1>4, <1>8 DEF StartElsewhere, RefuseRun, ReportError, Crash, HubCrash, vars, hubVars
<1> QED BY <1>5, <1>6, <1>7, <1>8 DEF Next

\* A rewind that truncates removes an event, and what follows it never is.
LEMMA NoRewindYet ==
  ASSUME Structure, AllSound, Unrewound, Unrewound', NEW t \in Tabs,
         RewindTruncate(t) \/ RewindPage(t) \/ RewindApply(t)
  PROVE  FALSE
<1>1. RewindWillCut(t) BY DEF AllSound, StreamOf
<1>2. rewind[t].at = "checked" /\ TruncateEventsBefore(rewind[t].from) /\ minted' = minted
 BY <1>1 DEF RewindWillCut, RewindTruncate, RewindPage, RewindApply
<1>3. PICK i \in 1..Len(log) : log[i].id = rewind[t].from BY <1>1, <1>2 DEF RewindWillCut
<1>4. log \in Seq(Events) /\ Len(log) \in Nat /\ log[i].id \in Nat
 <2>1. log \in Seq(Events) BY DEF Structure, TypeOK, HubTypeOK
 <2>2. log[i] \in Events BY <2>1
 <2> QED BY <2>1, <2>2, EventTypes, ChatFacts
<1>5. PICK n \in 0..Len(log) : /\ \A k \in 1..Len(log) : k <= n <=> log[k].id < rewind[t].from
                               /\ log' = SubSeq(log, 1, n)
 BY <1>2 DEF TruncateEventsBefore
<1>6. ~(i <= n) BY <1>3, <1>4, <1>5
<1>7. Len(log') = n BY <1>4, <1>5
<1>8. minted = Len(log) /\ minted' = Len(log') BY DEF Unrewound
<1>9. n = Len(log) BY <1>2, <1>7, <1>8
<1> QED BY <1>3, <1>4, <1>6, <1>9

LEMMA TabSound ==
  ASSUME Structure, Structure', AllSound, NEW t \in Tabs,
         \/ Load(t) \/ Dial(t) \/ Open(t) \/ ConnLost(t) \/ Reload(t) \/ Receive(t) \/ Flush(t)
         \/ \E p \in Prompts : Type(t, p) \/ Remove(t, p)
         \/ Dispatch(t) \/ SendDirect(t) \/ RewindAsk(t) \/ RewindCheck(t)
  PROVE  AllSound'
<1>1. StreamOf(t)' /\ RunKnown(t)'
 BY LoadSound, DialSound, OpenSound, GoneSound, ReceiveSound, FlushSound, PromptStepSound,
    RewindAskSound
<1>2. \A u \in Tabs \ {t} : StreamOf(u)' /\ RunKnown(u)' BY TabsApartSound
<1>3. UNCHANGED <<log, hand>>
 BY DEF Load, Dial, Open, ConnLost, Reload, Receive, Flush, Type, Remove, Dispatch, SendDirect,
        SendPrompt, RewindAsk, RewindCheck, hubVars
<1>4. HandLast' BY <1>3 DEF AllSound, HandLast
<1>5. \A u \in Tabs : StreamOf(u)' /\ RunKnown(u)' BY <1>1, <1>2
<1> QED BY <1>4, <1>5 DEF AllSound

LEMMA StreamSoundKept ==
  Structure /\ Structure' /\ AcksTrue /\ StreamSound /\ [Next]_vars => StreamSound'
<1> SUFFICES ASSUME Structure, Structure', AcksTrue, StreamSound, [Next]_vars, Unrewound'
              PROVE  AllSound'
 BY DEF StreamSound
<1>1. Unrewound /\ AllSound BY StillUnrewound DEF StreamSound
<1>2. ASSUME NEW t \in Tabs, TabStep(t) PROVE AllSound' BY <1>1, <1>2, NoRewindYet, TabSound DEF TabStep
<1>3. ASSUME NEW t \in Tabs, HandlerStep(t) PROVE AllSound' BY <1>1, <1>3, HandlerSound
<1>4. CASE StartElsewhere BY <1>1, <1>4, StartSound DEF StartElsewhere, TabsAside, tabVars, TabsStay
<1>5. CASE RunStep
 <2>1. TabsStay BY <1>5 DEF RunStep, TabsAside, tabVars, TabsStay
 <2> QED BY <1>1, <1>5, <2>1, EmitSound, BroadcastEventSound, EndSound DEF RunStep
<1>6. CASE RefuseRun BY <1>1, <1>6, RefuseSound
<1>7. CASE Crash BY <1>1, <1>7, CrashSound
<1>8. CASE UNCHANGED vars
 <2>1. Grows(log, log') /\ UNCHANGED <<hand, turn, log>>
  BY <1>8, StreamTypes DEF Grows, vars, hubVars, Structure, TypeOK, HubTypeOK
 <2>2. ASSUME NEW t \in Tabs PROVE StreamOf(t)' /\ RunKnown(t)'
  <3>1. SameTab(t) BY <1>8 DEF vars, hubVars, tabVars, SameTab
  <3> QED BY <1>1, <2>1, <3>1, SameTabSound DEF Running
 <2>3. HandLast' BY <1>1, <2>1 DEF AllSound, HandLast
 <2> QED BY <2>2, <2>3 DEF AllSound
<1> QED BY <1>2, <1>3, <1>4, <1>5, <1>6, <1>7, <1>8 DEF Next

LEMMA InitStreamSound == Init => StreamSound
<1> SUFFICES ASSUME Init PROVE AllSound BY DEF StreamSound
<1>1. HandLast BY DEF Init, HubInit, HandLast
<1>2. ASSUME NEW t \in Tabs PROVE StreamOf(t) /\ RunKnown(t)
 <2>1. /\ log = <<>> /\ Len(log) = 0 /\ cursor[t] = 0 /\ view[t] = {} /\ batch[t] = <<>>
       /\ pipe[t] = <<>> /\ sub[t] = "none" /\ link[t] = "loading" /\ rewind[t] = NoRewind
  BY <1>2 DEF Init, HubInit
 <2>2. Shown(t)
  <3>1. 1..0 = {} OBVIOUS
  <3> QED BY <2>1, <3>1 DEF Shown
 <2>3. BatchSound(log, cursor[t], batch[t]) /\ PipeSound(log, cursor[t], batch[t], pipe[t]) BY <2>1 DEF BatchSound, PipeSound
 <2> QED BY <2>1, <2>2, <2>3 DEF StreamOf, DialsBehind, RewindWillCut, NoRewind, RunKnown
<1> QED BY <1>1, <1>2 DEF AllSound

LEMMA StreamSoundAlways == Spec => [](Structure /\ QueueSound /\ StreamSound)
<1>1. Init => Structure /\ QueueSound /\ StreamSound BY InitStructure, InitQueueSound, InitStreamSound
<1>2. Structure /\ QueueSound /\ StreamSound /\ [Next]_vars => (Structure /\ QueueSound /\ StreamSound)'
 BY StructureKept, QueueSoundKept, StreamSoundKept DEF QueueSound
<1> QED BY <1>1, <1>2, PTL DEF Spec

LEMMA StreamSoundMeans ==
  ASSUME Structure, StreamSound
  PROVE  ChatInvariant /\ RunShown
<1>1. NoGap
 <2> SUFFICES ASSUME Unrewound, NEW t \in Tabs
               PROVE  /\ cursor[t] <= Len(log)
                      /\ view[t] = Elements(SubSeq(log, 1, cursor[t]))
  BY DEF NoGap
 <2>1. cursor[t] <= Len(log) /\ view[t] = {log[i] : i \in 1..cursor[t]} BY DEF StreamSound, AllSound, StreamOf, Shown
 <2>2. log \in Seq(Events) /\ cursor[t] \in Nat /\ Len(log) \in Nat BY StreamTypes DEF Structure
 <2> DEFINE s == SubSeq(log, 1, cursor[t])
 <2>3. Len(s) = cursor[t] /\ \A i \in 1..cursor[t] : s[i] = log[i] BY <2>1, <2>2
 <2> HIDE DEF s
 <2>4. Elements(s) = {log[i] : i \in 1..cursor[t]} BY <2>3 DEF Elements
 <2> QED BY <2>1, <2>4 DEF s
<1>2. RunShown
 <2> SUFFICES ASSUME NEW t \in Tabs, Quiet(t), Running, Unrewound PROVE status[t] = "streaming" BY DEF RunShown
 <2>1. RunKnown(t) /\ sub[t] = "live" /\ pipe[t] = <<>> BY DEF StreamSound, AllSound, Quiet
 <2>2. ~TellsRun(pipe[t]) BY <2>1 DEF TellsRun
 <2> QED BY <2>1, <2>2 DEF RunKnown
<1> QED BY <1>1, <1>2 DEF ChatInvariant, Structure

\* Theorem: history and live events meet without a gap in the projector of useChat,
\* whatever SubscribeAfter replays and whatever is lost, received twice or thrown away.
THEOREM ChatIsWellFormed == Spec => []ChatInvariant
<1> QED BY StreamSoundAlways, StreamSoundMeans, PTL

\* Theorem: a tab to which nothing is on the way knows of the run that holds its chat,
\* since every subscription begins with a sync and StartRun broadcasts one.
THEOREM RunAlwaysShown == Spec => []RunShown
<1> QED BY StreamSoundAlways, StreamSoundMeans, PTL

----
\* Chats that nobody rewinds.
NeverRewound == Unrewound /\ \A t \in Tabs : rewind[t] = NoRewind

LEMMA NeverRewoundKept ==
  ASSUME "rewind" \notin Faults, Structure, Structure', NeverRewound, [Next]_vars
  PROVE  NeverRewound'
<1>1. rewind \in [Tabs -> {rewind[t] : t \in Tabs}] /\ \A t \in Tabs : rewind[t] = NoRewind
 <2>1. DOMAIN rewind = Tabs /\ rewind = [t \in Tabs |-> rewind[t]] BY DEF Structure, TypeOK, TabTypeOK
 <2> QED BY <2>1 DEF NeverRewound
<1>2. log \in Seq(Events) /\ Len(log) \in Nat /\ minted = Len(log) BY DEF Structure, TypeOK, HubTypeOK, NeverRewound, Unrewound
<1>3. ASSUME NEW t \in Tabs
      PROVE  ~(RewindAsk(t) \/ RewindCheck(t) \/ RewindTruncate(t) \/ RewindPage(t) \/ RewindApply(t))
 BY <1>1 DEF RewindAsk, RewindCheck, RewindTruncate, RewindPage, RewindApply, Fault, NoRewind
<1>4. ASSUME UNCHANGED <<log, minted, rewind>> PROVE NeverRewound' BY <1>4 DEF NeverRewound, Unrewound
<1>5. ASSUME NEW t \in Tabs, TabStep(t) PROVE NeverRewound'
 <2>1. UNCHANGED <<log, minted, rewind>>
  BY <1>3, <1>5 DEF TabStep, Load, Dial, Open, ConnLost, Reload, Receive, Flush, Type, Remove,
     Dispatch, SendDirect, SendPrompt, hubVars
 <2> QED BY <1>4, <2>1
<1>6. ASSUME NEW t \in Tabs, HandlerStep(t) PROVE NeverRewound'
 BY <1>4, <1>6 DEF HandlerStep, AcceptPrompt, RejectPrompt, Acknowledge
<1>7. CASE RunStep
 <2>1. ASSUME NEW final, AppendEvent(final) PROVE NeverRewound'
  <3>1. Len(log') = Len(log) + 1 /\ minted' = minted + 1 /\ rewind' = rewind
   BY <1>2, <1>7, <2>1 DEF AppendEvent, RunStep, TabsAside
  <3> QED BY <1>2, <3>1 DEF NeverRewound, Unrewound
 <2>2. CASE EmitUser \/ EmitProgress \/ EmitFinal BY <2>1, <2>2 DEF EmitUser, EmitProgress, EmitFinal, Emit
 <2>3. CASE BroadcastEvent \/ EndRun BY <1>4, <1>7, <2>3 DEF BroadcastEvent, EndRun, RunStep, TabsAside
 <2> QED BY <1>7, <2>2, <2>3 DEF RunStep
<1>8. CASE Crash BY <1>8 DEF Crash, HubCrash, NeverRewound, Unrewound
<1>9. CASE StartElsewhere \/ RefuseRun \/ UNCHANGED vars
 BY <1>4, <1>9 DEF StartElsewhere, RefuseRun, ReportError, TabsAside, vars, hubVars
<1> QED BY <1>5, <1>6, <1>7, <1>8, <1>9 DEF Next

LEMMA InitNeverRewound == Init => NeverRewound
BY DEF Init, HubInit, NeverRewound, Unrewound

\* The transcript that is promised (module Transcript): what a tab shows changes as promised.
LEMMA ShowsMore ==
  ASSUME NEW t \in Tabs, UNCHANGED log, view \in [Tabs -> SUBSET Events], Shown(t)',
         view' = [view EXCEPT ![t] = view'[t]], view[t] \subseteq view'[t], log \in Seq(Events),
         cursor'[t] \in Nat
  PROVE  [Promise!TNext]_(Promise!tvars)
<1>1. view'[t] = {log[i] : i \in 1..cursor'[t]} /\ cursor'[t] <= Len(log) /\ Len(log) \in Nat BY DEF Shown
<1>2. CASE view'[t] = view[t]
 <2>1. view' = view BY <1>2
 <2> QED BY <2>1 DEF Promise!tvars
<1>3. CASE view'[t] # view[t]
 <2>1. cursor'[t] # 0
  <3>1. 1..0 = {} OBVIOUS
  <3> QED BY <1>1, <1>3, <3>1
 <2>2. cursor'[t] \in 1..Len(log) BY <1>1, <2>1
 <2>3. Promise!Show(t) BY <1>1, <1>3, <2>2 DEF Promise!Show, Promise!Beginning
 <2> QED BY <2>3 DEF Promise!TNext
<1> QED BY <1>2, <1>3

LEMMA TranscriptStep ==
  ASSUME Structure, Structure', AllSound, AllSound', NeverRewound, "rewind" \notin Faults, [Next]_vars
  PROVE  [Promise!TNext]_(Promise!tvars)
<1>1. view \in [Tabs -> SUBSET Events] /\ log \in Seq(Events) /\ log' \in Seq(Events)
 BY DEF Structure, TypeOK, HubTypeOK, TabTypeOK
<1>2. \A t \in Tabs : Shown(t) /\ Shown(t)' /\ cursor[t] \in Nat /\ cursor'[t] \in Nat
 BY DEF AllSound, StreamOf, Structure, TypeOK, TabTypeOK
<1>3. ASSUME UNCHANGED <<log, view>> PROVE [Promise!TNext]_(Promise!tvars) BY <1>3 DEF Promise!tvars
<1>4. ASSUME NEW t \in Tabs, TabStep(t) PROVE [Promise!TNext]_(Promise!tvars)
 <2>1. CASE Load(t)
  <3>1. /\ UNCHANGED log /\ view' = [view EXCEPT ![t] = view'[t]] /\ view'[t] = Elements(log) BY <1>1, <2>1 DEF Load, hubVars
  <3>2. view[t] \subseteq Elements(log)
   <4>1. Len(log) \in Nat /\ view[t] = {log[i] : i \in 1..cursor[t]} /\ cursor[t] <= Len(log) BY <1>1, <1>2 DEF Shown
   <4> QED BY <1>2, <4>1 DEF Elements
  <3> QED BY <1>1, <1>2, <3>1, <3>2, ShowsMore
 <2>2. CASE Flush(t)
  <3>1. /\ UNCHANGED log /\ view' = [view EXCEPT ![t] = view'[t]]
        /\ view'[t] = MergeEvents(view[t], batch[t])
   BY <1>1, <2>2 DEF Flush, hubVars
  <3>2. view[t] \subseteq view'[t] BY <3>1 DEF MergeEvents
  <3> QED BY <1>1, <1>2, <3>1, <3>2, ShowsMore
 <2>3. CASE Reload(t)
  <3>1. Promise!StartOver(t) BY <2>3 DEF Reload, Promise!StartOver
  <3> QED BY <3>1 DEF Promise!TNext
 <2>4. CASE RewindAsk(t) \/ RewindCheck(t) \/ RewindTruncate(t) \/ RewindPage(t) \/ RewindApply(t)
  BY <2>4 DEF NeverRewound, RewindAsk, RewindCheck, RewindTruncate, RewindPage, RewindApply, Fault,
     NoRewind
 <2>5. CASE \/ Dial(t) \/ Open(t) \/ ConnLost(t) \/ Receive(t)
            \/ \E p \in Prompts : Type(t, p) \/ Remove(t, p)
            \/ Dispatch(t) \/ SendDirect(t)
  BY <1>3, <2>5 DEF Dial, Open, ConnLost, Receive, Type, Remove, Dispatch, SendDirect, SendPrompt,
     hubVars
 <2> QED BY <1>4, <2>1, <2>2, <2>3, <2>4, <2>5 DEF TabStep
<1>5. ASSUME NEW t \in Tabs, HandlerStep(t) PROVE [Promise!TNext]_(Promise!tvars)
 BY <1>3, <1>5 DEF HandlerStep, AcceptPrompt, RejectPrompt, Acknowledge, tabVars
<1>6. CASE RunStep
 <2>1. CASE EmitUser \/ EmitProgress \/ EmitFinal
  <3>1. PICK final \in BOOLEAN : AppendEvent(final) BY <2>1 DEF EmitUser, EmitProgress, EmitFinal, Emit
  <3> DEFINE ev == Event(LastSeq + 1, minted + 1, final)
  <3>2. log' = Append(log, ev) /\ ev.seq = LastSeq + 1 BY <3>1 DEF AppendEvent, Event
  <3> HIDE DEF ev
  <3>3. Len(log') = Len(log) + 1 /\ Len(log) \in Nat /\ log'[Len(log) + 1] = ev BY <1>1, <3>2
  <3>4. ev \in Events
   <4>1. Len(log) + 1 \in 1..Len(log') BY <3>3
   <4> QED BY <1>1, <3>3, <4>1
  <3>5. \A i \in 1..Len(log) : log[i] # ev
   <4>1. LastSeq = Len(log)
    <5>1. CASE log = <<>> BY <5>1 DEF LastSeq
    <5>2. CASE log # <<>>
     <6>1. Len(log) \in 1..Len(log) BY <1>1, <5>2
     <6> QED BY <5>2, <6>1 DEF LastSeq, Structure, LogNumbered
    <5> QED BY <5>1, <5>2
   <4>2. \A i \in 1..Len(log) : log[i].seq = i BY DEF Structure, LogNumbered
   <4> QED BY <3>2, <3>3, <4>1, <4>2
  <3>6. UNCHANGED view BY <1>6 DEF RunStep, TabsAside, tabVars
  <3>7. Promise!Write(ev) BY <3>2, <3>5, <3>6 DEF Promise!Write
  <3> QED BY <3>4, <3>7 DEF Promise!TNext
 <2>2. CASE BroadcastEvent \/ EndRun BY <1>3, <1>6, <2>2 DEF BroadcastEvent, EndRun, RunStep, TabsAside, tabVars
 <2> QED BY <1>6, <2>1, <2>2 DEF RunStep
<1>7. CASE StartElsewhere \/ RefuseRun \/ Crash \/ UNCHANGED vars
 BY <1>3, <1>7 DEF StartElsewhere, RefuseRun, ReportError, Crash, HubCrash, TabsAside, tabVars, vars,
    hubVars
<1> QED BY <1>4, <1>5, <1>6, <1>7 DEF Next

LEMMA SoundAndUnrewound ==
  "rewind" \notin Faults => (Spec => [](Structure /\ QueueSound /\ StreamSound /\ NeverRewound))
<1> SUFFICES ASSUME "rewind" \notin Faults
              PROVE  Spec => [](Structure /\ QueueSound /\ StreamSound /\ NeverRewound)
 OBVIOUS
<1>1. Init => NeverRewound BY InitNeverRewound
<1>2. Structure /\ Structure' /\ NeverRewound /\ [Next]_vars => NeverRewound' BY NeverRewoundKept
<1> QED BY <1>1, <1>2, StreamSoundAlways, PTL DEF Spec

\* Theorem: without rewinds, what the tabs show changes only as the abstract
\* transcript promises: the log only grows, and a tab shows a gapless beginning
\* of it that only grows until the tab is reloaded.
THEOREM TabsKeepTheTranscript ==
  "rewind" \notin Faults => (Spec => Promise!TInit /\ [][Promise!TNext]_(Promise!tvars))
<1> SUFFICES ASSUME "rewind" \notin Faults
              PROVE  Spec => Promise!TInit /\ [][Promise!TNext]_(Promise!tvars)
 OBVIOUS
<1>1. Init => Promise!TInit BY DEF Init, HubInit, Promise!TInit
<1>2. ( /\ Structure /\ StreamSound /\ NeverRewound
        /\ (Structure /\ StreamSound /\ NeverRewound)'
        /\ [Next]_vars ) => [Promise!TNext]_(Promise!tvars)
 BY TranscriptStep DEF StreamSound, NeverRewound
<1> QED BY <1>1, <1>2, SoundAndUnrewound, PTL DEF Spec

\* Theorem: without rewinds, a tab to which nothing is on the way shows every event of
\* the log, also after losses, reloads, refusals and crashes.
THEOREM NothingIsMissed == "rewind" \notin Faults => (Spec => []NothingMissed)
<1> SUFFICES ASSUME "rewind" \notin Faults PROVE Spec => []NothingMissed OBVIOUS
<1>1. Structure /\ StreamSound /\ NeverRewound => NothingMissed
 <2> SUFFICES ASSUME Structure, StreamSound, NeverRewound, NEW t \in Tabs, Quiet(t)
               PROVE  Elements(log) \subseteq view[t]
  BY DEF NothingMissed
 <2>1. StreamOf(t) /\ hand = <<>> /\ pipe[t] = <<>> /\ batch[t] = <<>> /\ sub[t] = "live"
  BY DEF StreamSound, AllSound, NeverRewound, Quiet
 <2>2. log \in Seq(Events) /\ Len(log) \in Nat /\ cursor[t] \in Nat BY StreamTypes DEF Structure
 <2>3. Covered(cursor[t], <<>>, <<>>, Len(log)) BY <2>1, <2>2 DEF StreamOf
 <2>4. cursor[t] >= Len(log)
  <3>1. \A n \in (cursor[t] + 1)..Len(log) : FALSE BY <2>3 DEF Covered, InBatch, InPipe
  <3> QED BY <2>2, <3>1
 <2>5. view[t] = {log[i] : i \in 1..cursor[t]} BY <2>1 DEF StreamOf, Shown
 <2> QED BY <2>2, <2>4, <2>5 DEF Elements
<1> QED BY <1>1, SoundAndUnrewound, PTL

----
\* What follows an event that ends no turn.

LEMMA FinalOrNot ==
  /\ \A e \in Events : e.final \in BOOLEAN
  /\ \A b \in Seq(Events) : \A k \in 1..Len(b) : b[k] \in Events /\ b[k].final \in BOOLEAN
  /\ \A p \in Seq(Messages) : \A k \in 1..Len(p) :
       p[k].kind = "event" => p[k].event \in Events /\ p[k].event.final \in BOOLEAN
BY EventTypes, SeqNumbers

LEMMA EndsMoves ==
  ASSUME NEW b \in Seq(Events), NEW p \in Seq(Messages), NEW q \in Seq(Messages), p # <<>>,
         Shorter(p, q), p[1].kind = "event", NEW k \in 0..Len(p), NEW l \in Nat,
         l = IF k = 0 THEN 0 ELSE k - 1, EndsFinally(b, p, k), NEW d, d = Append(b, p[1].event)
  PROVE  EndsFinally(d, q, l)
<1> DEFINE ev == p[1].event
<1>1. Len(p) \in Nat \ {0} /\ Len(b) \in Nat /\ 1 \in 1..Len(p) /\ Len(q) \in Nat OBVIOUS
<1>2. ev \in Events /\ ev.final \in BOOLEAN BY <1>1, FinalOrNot
<1> HIDE DEF ev
<1>3. Len(d) = Len(b) + 1 /\ d[Len(b) + 1] = ev /\ \A i \in 1..Len(b) : d[i] = b[i] BY <1>2 DEF ev
<1>4. ASSUME NEW j \in 1..k, EndsTurn(p[j]), j # 1
      PROVE  j - 1 \in 1..l /\ EndsTurn(q[j - 1])
 <2>1. j - 1 \in 1..l /\ j - 1 \in 1..Len(q) /\ (j - 1) + 1 = j BY <1>1, <1>4 DEF Shorter
 <2> QED BY <1>4, <2>1 DEF Shorter
<1>5. ASSUME NEW i \in 1..Len(d), d[i].final = FALSE
      PROVE  \/ \E j \in (i + 1)..Len(d) : d[j].final = TRUE
             \/ \E j \in 1..l : EndsTurn(q[j])
 <2>1. CASE i \in 1..Len(b)
  <3>1. CASE \E j \in (i + 1)..Len(b) : b[j].final = TRUE
   <4>1. PICK j \in (i + 1)..Len(b) : b[j].final = TRUE BY <3>1
   <4>2. j \in (i + 1)..Len(d) /\ d[j] = b[j] BY <1>1, <1>3, <2>1
   <4> QED BY <4>1, <4>2
  <3>2. CASE \E j \in 1..k : EndsTurn(p[j])
   <4>1. PICK j \in 1..k : EndsTurn(p[j]) BY <3>2
   <4>2. CASE j = 1
    <5>1. d[Len(d)].final = TRUE /\ Len(d) \in (i + 1)..Len(d) BY <1>1, <1>3, <2>1, <4>1, <4>2 DEF EndsTurn, ev
    <5> QED BY <5>1
   <4>3. CASE j # 1 BY <1>4, <4>1, <4>3
   <4> QED BY <4>2, <4>3
  <3> QED BY <1>3, <1>5, <2>1, <3>1, <3>2 DEF EndsFinally
 <2>2. CASE i = Len(b) + 1
  <3>1. ev.final = FALSE BY <1>3, <1>5, <2>2
  <3>2. PICK j \in 2..k : EndsTurn(p[j])
   <4>1. \E j \in (1 + 1)..k : EndsTurn(p[j]) BY <1>1, <3>1 DEF EndsFinally, ev
   <4> QED BY <4>1
  <3>3. j \in 1..k /\ j # 1 BY <1>1, <3>2
  <3> QED BY <1>4, <3>2, <3>3
 <2>3. i \in 1..Len(b) \/ i = Len(b) + 1 BY <1>1, <1>3
 <2> QED BY <2>1, <2>2, <2>3
<1>6. ASSUME NEW i \in 1..Len(q), q[i].kind = "event", q[i].event.final = FALSE
      PROVE  \E j \in (i + 1)..l : EndsTurn(q[j])
 <2>1. i + 1 \in 1..Len(p) /\ q[i] = p[i + 1] BY <1>1 DEF Shorter
 <2>2. PICK j \in ((i + 1) + 1)..k : EndsTurn(p[j]) BY <1>6, <2>1 DEF EndsFinally
 <2>3. j \in 1..k /\ j # 1 /\ j - 1 >= i + 1 BY <1>1, <2>2
 <2>4. j - 1 \in 1..l /\ EndsTurn(q[j - 1]) BY <1>4, <2>2, <2>3
 <2>5. j - 1 \in (i + 1)..l BY <2>3, <2>4
 <2> QED BY <2>4, <2>5
<1> QED BY <1>5, <1>6 DEF EndsFinally

LEMMA EndsOther ==
  ASSUME NEW b \in Seq(Events), NEW p \in Seq(Messages), NEW q \in Seq(Messages), p # <<>>,
         Shorter(p, q), p[1].kind # "event", NEW k \in 0..Len(p), NEW l \in Nat,
         l = IF k = 0 THEN 0 ELSE k - 1, EndsFinally(b, p, k)
  PROVE  EndsFinally(b, q, l)
<1>1. Len(p) \in Nat \ {0} /\ Len(q) \in Nat /\ Len(b) \in Nat OBVIOUS
<1>2. ASSUME NEW j \in 1..k, EndsTurn(p[j])
      PROVE  j - 1 \in 1..l /\ EndsTurn(q[j - 1])
 <2>1. j # 1 BY <1>2 DEF EndsTurn
 <2>2. j - 1 \in 1..l /\ j - 1 \in 1..Len(q) /\ (j - 1) + 1 = j BY <1>1, <2>1 DEF Shorter
 <2> QED BY <1>2, <2>2 DEF Shorter
<1>3. ASSUME NEW i \in 1..Len(b), b[i].final = FALSE
      PROVE  \/ \E j \in (i + 1)..Len(b) : b[j].final = TRUE
             \/ \E j \in 1..l : EndsTurn(q[j])
 BY <1>2, <1>3 DEF EndsFinally
<1>4. ASSUME NEW i \in 1..Len(q), q[i].kind = "event", q[i].event.final = FALSE
      PROVE  \E j \in (i + 1)..l : EndsTurn(q[j])
 <2>1. i + 1 \in 1..Len(p) /\ q[i] = p[i + 1] BY <1>1 DEF Shorter
 <2>2. PICK j \in ((i + 1) + 1)..k : EndsTurn(p[j]) BY <1>4, <2>1 DEF EndsFinally
 <2>3. j \in 1..k /\ j - 1 >= i + 1 BY <1>1, <2>2
 <2>4. j - 1 \in 1..l /\ EndsTurn(q[j - 1]) BY <1>2, <2>2, <2>3
 <2>5. j - 1 \in (i + 1)..l BY <2>3, <2>4
 <2> QED BY <2>4, <2>5
<1> QED BY <1>3, <1>4 DEF EndsFinally

LEMMA EndsLonger ==
  ASSUME NEW b, NEW p \in Seq(Messages), NEW q \in Seq(Messages), NEW m, Longer(p, m, q),
         m.kind = "event" => m.event.final = TRUE, NEW k \in 0..Len(p), EndsFinally(b, p, k)
  PROVE  EndsFinally(b, q, k) /\ EndsFinally(b, q, Len(q))
<1>1. Len(p) \in Nat /\ Len(q) = Len(p) + 1 BY DEF Longer
<1>2. \A j \in 1..k : j \in 1..Len(p) /\ q[j] = p[j] BY <1>1 DEF Longer
<1>3. ASSUME NEW n \in {k, Len(q)} PROVE EndsFinally(b, q, n)
 <2>1. \A j \in 1..k : j \in 1..n BY <1>1
 <2>2. ASSUME NEW i \in 1..Len(b), b[i].final = FALSE
       PROVE  \/ \E j \in (i + 1)..Len(b) : b[j].final = TRUE
              \/ \E j \in 1..n : EndsTurn(q[j])
  BY <1>2, <2>1, <2>2 DEF EndsFinally
 <2>3. ASSUME NEW i \in 1..Len(q), q[i].kind = "event", q[i].event.final = FALSE
       PROVE  \E j \in (i + 1)..n : EndsTurn(q[j])
  <3>1. i \in 1..Len(p) BY <1>1, <2>3 DEF Longer
  <3>2. PICK j \in (i + 1)..k : EndsTurn(p[j]) BY <2>3, <3>1 DEF EndsFinally, Longer
  <3>3. j \in 1..k /\ j \in (i + 1)..n BY <1>1, <3>1, <3>2
  <3> QED BY <1>2, <3>2, <3>3
 <2> QED BY <2>2, <2>3 DEF EndsFinally
<1> QED BY <1>3

\* The event that ends a run follows everything.
LEMMA EndsAll ==
  ASSUME NEW b \in Seq(Events), NEW p \in Seq(Messages), NEW q \in Seq(Messages), NEW m,
         Longer(p, m, q), EndsTurn(m)
  PROVE  EndsFinally(b, q, Len(q))
<1>1. Len(p) \in Nat /\ Len(q) = Len(p) + 1 /\ EndsTurn(q[Len(q)]) /\ Len(q) \in 1..Len(q) BY DEF Longer
<1>2. ASSUME NEW i \in 1..Len(q), q[i].kind = "event", q[i].event.final = FALSE
      PROVE  Len(q) \in (i + 1)..Len(q)
 <2>1. i # Len(q) BY <1>1, <1>2 DEF EndsTurn
 <2> QED BY <1>1, <2>1
<1> QED BY <1>1, <1>2 DEF EndsFinally

LEMMA EndsFlushed ==
  ASSUME NEW b \in Seq(Events), NEW p, NEW k, EndsFinally(b, p, k)
  PROVE  /\ EndsFinally(<<>>, p, k)
         /\ k = 0 /\ b # <<>> => b[Len(b)].final = TRUE
<1>1. EndsFinally(<<>>, p, k) BY DEF EndsFinally
<1>2. ASSUME k = 0, b # <<>> PROVE b[Len(b)].final = TRUE
 <2>1. Len(b) \in 1..Len(b) /\ (Len(b) + 1)..Len(b) = {} /\ 1..0 = {} BY <1>2
 <2>2. b[Len(b)].final \in BOOLEAN BY <2>1, FinalOrNot
 <2>3. b[Len(b)].final # FALSE BY <1>2, <2>1 DEF EndsFinally
 <2> QED BY <2>2, <2>3
<1> QED BY <1>1, <1>2

LEMMA EndsReplay ==
  ASSUME NEW l \in Seq(Events), NEW s \in 0..Len(l), NEW p \in Seq(Messages),
         Len(p) = Len(l) - s + 1, l = <<>> \/ l[Len(l)].final = TRUE,
         \A k \in 1..(Len(p) - 1) : p[k] = EventMsg(l[s + k]), p[Len(p)].kind # "event"
  PROVE  EndsFinally(<<>>, p, Len(p))
<1>1. Len(l) \in Nat /\ Len(p) \in Nat OBVIOUS
<1>2. ASSUME NEW i \in 1..Len(p), p[i].kind = "event", p[i].event.final = FALSE
      PROVE  \E j \in (i + 1)..Len(p) : EndsTurn(p[j])
 <2>1. i \in 1..(Len(p) - 1) /\ s + i \in 1..Len(l) /\ l # <<>> BY <1>1, <1>2
 <2>2. p[i].event = l[s + i] BY <2>1, MessageKinds
 <2>3. s + i # Len(l) BY <1>2, <2>1, <2>2
 <2> DEFINE j == Len(l) - s
 <2>4. j \in (i + 1)..Len(p) /\ j \in 1..(Len(p) - 1) /\ s + j = Len(l) BY <1>1, <2>1, <2>3
 <2> HIDE DEF j
 <2>5. p[j] = EventMsg(l[Len(l)]) BY <2>4
 <2>6. EndsTurn(p[j]) BY <2>1, <2>5, MessageKinds DEF EndsTurn
 <2> QED BY <2>4, <2>6
<1>3. \A i \in 1..Len(<<>>) : FALSE OBVIOUS
<1> QED BY <1>2, <1>3 DEF EndsFinally

----
\* A tab of a free chat.

LEMMA MildSame ==
  ASSUME NEW u \in Tabs, IdleKnown(u), ClosedOff(u), pipe'[u] = pipe[u], batch'[u] = batch[u],
         synced'[u] = synced[u], sub'[u] = "live" => sub[u] = "live", UNCHANGED <<turn, hand>>,
         Running \/ (status[u] = "ready" \/ uplink[u] # <<>> => status'[u] = "ready" \/ uplink'[u] # <<>>)
  PROVE  IdleKnown(u)' /\ ClosedOff(u)'
BY DEF IdleKnown, ClosedOff, Running

LEMMA MildGone ==
  ASSUME NEW u \in Tabs, sub'[u] # "live" \/ (turn' \notin {"none", "closed"})
  PROVE  IdleKnown(u)' /\ ClosedOff(u)'
BY DEF IdleKnown, ClosedOff, Running

\* An acknowledgement or an error comes after everything else.
LEMMA MildMessage ==
  ASSUME NEW u \in Tabs, IdleKnown(u), ClosedOff(u), NEW m, Longer(pipe[u], m, pipe'[u]),
         pipe[u] \in Seq(Messages), pipe'[u] \in Seq(Messages),
         m.kind # "sync", m.kind = "event" => m.event.final = TRUE,
         batch'[u] = batch[u], synced'[u] = synced[u], status'[u] = status[u], sub'[u] = sub[u],
         UNCHANGED <<turn, hand>>, Running \/ uplink'[u] = uplink[u]
  PROVE  IdleKnown(u)' /\ ClosedOff(u)'
<1> DEFINE b == batch[u]
            p == pipe[u]
            q == pipe'[u]
<1>1. Len(p) \in Nat /\ Len(q) = Len(p) + 1 BY DEF Longer
<1>2. ASSUME NEW k \in 0..Len(p), EndsFinally(b, p, k)
      PROVE  EndsFinally(b, q, k) /\ EndsFinally(b, q, Len(q))
 BY <1>2, EndsLonger
<1>3. ASSUME NEW k \in 1..(Len(p) + 1), NoSync(p, k) PROVE NoSync(q, k)
 <2>1. \A j \in k..Len(q) : j \in k..Len(p) \/ j = Len(p) + 1 BY <1>1
 <2>2. \A j \in k..Len(p) : j \in 1..Len(p) BY <1>1
 <2> QED BY <1>3, <2>1, <2>2 DEF NoSync, Longer
<1>4. ClosedOff(u)'
 <2>1. Len(p) \in 0..Len(p) BY <1>1
 <2> QED BY <1>2, <2>1 DEF ClosedOff
<1>5. IdleKnown(u)'
 <2> SUFFICES ASSUME sub[u] = "live", ~Running
               PROVE  \/ TellsIdle(b, q)
                      \/ /\ NoSync(q, 1) /\ synced[u] = TRUE /\ EndsFinally(b, q, 0)
                         /\ status[u] = "ready" \/ uplink[u] # <<>>
  BY DEF IdleKnown, Running
 <2>1. CASE TellsIdle(b, p)
  <3>1. PICK k \in 1..Len(p) : /\ p[k].kind = "sync" /\ p[k].running = FALSE
                               /\ NoSync(p, k + 1) /\ EndsFinally(b, p, k)
   BY <2>1 DEF TellsIdle
  <3>2. k \in 1..Len(q) /\ k \in 0..Len(p) /\ k + 1 \in 1..(Len(p) + 1) /\ q[k] = p[k] BY <1>1 DEF Longer
  <3> QED BY <1>2, <1>3, <3>1, <3>2 DEF TellsIdle
 <2>2. CASE ~TellsIdle(b, p)
  <3>1. 0 \in 0..Len(p) /\ 1 \in 1..(Len(p) + 1) BY <1>1
  <3> QED BY <1>2, <1>3, <2>2, <3>1 DEF IdleKnown
 <2> QED BY <2>1, <2>2
<1> QED BY <1>4, <1>5

LEMMA MildOpen ==
  ASSUME Structure, Structure', AllSound, LogEnds, NEW t \in Tabs, Open(t)
  PROVE  IdleKnown(t)' /\ ClosedOff(t)'
<1>1. UNCHANGED <<log, hand, turn>> /\ batch'[t] = <<>> BY DEF Open, Structure, TypeOK, TabTypeOK
<1>2. /\ log \in Seq(Events) /\ since[t] \in 0..Len(log) /\ pipe'[t] \in Seq(Messages)
      /\ Len(log) \in Nat
 <2>1. cursor[t] <= Len(log) /\ since[t] <= cursor[t] BY DEF AllSound, StreamOf, Shown, DialsBehind, Open
 <2>2. pipe'[t] \in Seq(Messages) BY DEF Structure, TypeOK, RoomTypeOK
 <2> QED BY <2>1, <2>2, StreamTypes DEF Structure
<1>3. /\ Len(pipe'[t]) = Len(log) - since[t] + 1
      /\ \A k \in 1..(Len(pipe'[t]) - 1) : pipe'[t][k] = EventMsg(log[since[t] + k])
      /\ pipe'[t][Len(pipe'[t])] = SyncMsg(Running)
 <2>1. since[t] <= Len(log) BY <1>2
 <2> QED BY <2>1, OpenShape
<1>4. pipe'[t][Len(pipe'[t])].kind = "sync" /\ pipe'[t][Len(pipe'[t])].running = Running BY <1>3, MessageKinds
<1>5. turn \in {"closed", "none"} => EndsFinally(<<>>, pipe'[t], Len(pipe'[t]))
 <2>1. pipe'[t][Len(pipe'[t])].kind # "event" BY <1>4
 <2> QED BY <1>2, <1>3, <2>1, EndsReplay DEF LogEnds
<1>6. Len(pipe'[t]) \in 1..Len(pipe'[t]) /\ Len(pipe'[t]) \in Nat BY <1>2, <1>3
<1>7. NoSync(pipe'[t], Len(pipe'[t]) + 1) BY <1>6 DEF NoSync
<1>8. IdleKnown(t)'
 <2> SUFFICES ASSUME turn = "none" PROVE TellsIdle(<<>>, pipe'[t]) BY <1>1 DEF IdleKnown, Running
 <2>1. Running = FALSE BY DEF Running
 <2> QED BY <1>4, <1>5, <1>6, <1>7, <2>1 DEF TellsIdle
<1>9. ClosedOff(t)' BY <1>1, <1>5 DEF ClosedOff
<1> QED BY <1>8, <1>9

LEMMA MildReceive ==
  ASSUME Structure, Structure', NEW t \in Tabs, Receive(t), IdleKnown(t), ClosedOff(t)
  PROVE  IdleKnown(t)' /\ ClosedOff(t)'
<1> DEFINE b == batch[t]
            d == batch'[t]
            p == pipe[t]
            q == pipe'[t]
<1>1. /\ p \in Seq(Messages) /\ q \in Seq(Messages) /\ p # <<>> /\ Len(p) \in Nat \ {0}
      /\ Head(p) = p[1] /\ p[1] \in Messages /\ Shorter(p, q) /\ b \in Seq(Events)
 <2>1. q \in Seq(Messages) /\ b \in Seq(Events) BY DEF Structure, TypeOK, RoomTypeOK, TabTypeOK
 <2>2. p # <<>> BY DEF Receive
 <2> QED BY <2>1, <2>2, ReceiveShape DEF Structure, Shorter
<1>2. UNCHANGED <<hand, turn, sub, uplink>> BY DEF Receive, ReceiveEvent, ReceiveSync, ReceiveAck, wireVars
<1>3. \/ ReceiveEvent(t) /\ p[1].kind = "event" /\ d = Append(b, p[1].event)
      \/ ~ReceiveEvent(t) /\ p[1].kind # "event" /\ d = b
 BY <1>1 DEF Receive, ReceiveEvent, ReceiveSync, ReceiveAck, Structure, TypeOK, TabTypeOK
<1>4. ASSUME NEW k \in 0..Len(p), NEW l \in Nat, l = IF k = 0 THEN 0 ELSE k - 1, EndsFinally(b, p, k)
      PROVE  EndsFinally(d, q, l)
 <2> HIDE DEF b, d, p, q
 <2>1. CASE p[1].kind = "event" /\ d = Append(b, p[1].event) BY <1>1, <1>4, <2>1, EndsMoves
 <2>2. CASE p[1].kind # "event" /\ d = b BY <1>1, <1>4, <2>2, EndsOther
 <2> QED BY <1>3, <2>1, <2>2
<1>5. ASSUME NEW k \in 2..(Len(p) + 1), NoSync(p, k) PROVE NoSync(q, k - 1)
 <2>1. \A j \in (k - 1)..Len(q) : j \in 1..Len(q) /\ j + 1 \in k..Len(p) BY <1>1 DEF Shorter
 <2> QED BY <1>1, <1>5, <2>1 DEF NoSync, Shorter
<1>6. ClosedOff(t)'
 <2>1. Len(q) = Len(p) - 1 /\ Len(p) \in 0..Len(p) /\ Len(q) \in Nat BY <1>1 DEF Shorter
 <2>2. EndsFinally(b, p, Len(p)) => EndsFinally(d, q, Len(q)) BY <1>1, <1>4, <2>1
 <2> QED BY <1>2, <2>2 DEF ClosedOff
<1>7. 2 \in 2..(Len(p) + 1) /\ 2 - 1 = 1 /\ 0 \in 0..Len(p) BY <1>1
<1>8. IdleKnown(t)'
 <2> SUFFICES ASSUME sub[t] = "live", ~Running
               PROVE  \/ TellsIdle(d, q)
                      \/ /\ NoSync(q, 1) /\ synced'[t] = TRUE /\ EndsFinally(d, q, 0)
                         /\ status'[t] = "ready" \/ uplink[t] # <<>>
  BY <1>2 DEF IdleKnown, Running
 <2>1. CASE TellsIdle(b, p)
  <3>1. PICK k \in 1..Len(p) : /\ p[k].kind = "sync" /\ p[k].running = FALSE
                               /\ NoSync(p, k + 1) /\ EndsFinally(b, p, k)
   BY <2>1 DEF TellsIdle
  <3>2. k \in 0..Len(p) /\ k - 1 \in Nat /\ k # 0 /\ k + 1 \in 2..(Len(p) + 1) /\ (k + 1) - 1 = k BY <1>1
  <3>3. EndsFinally(d, q, k - 1) /\ NoSync(q, k) BY <1>4, <1>5, <3>1, <3>2
  <3>4. CASE k = 1
   <4>1. ReceiveSync(t) BY <1>1, <3>1, <3>4 DEF Receive, ReceiveEvent, ReceiveAck, p
   <4>2. synced'[t] = TRUE /\ status'[t] = "ready"
    BY <1>1, <3>1, <3>4, <4>1 DEF ReceiveSync, SyncStatus, Structure, TypeOK, TabTypeOK, p
   <4> QED BY <3>3, <3>4, <4>2
  <3>5. CASE k # 1
   <4>1. k - 1 \in 1..Len(q) /\ (k - 1) + 1 = k BY <1>1, <3>5 DEF Shorter
   <4>2. q[k - 1] = p[k] BY <1>1, <4>1 DEF Shorter
   <4> QED BY <3>1, <3>3, <4>1, <4>2 DEF TellsIdle
  <3> QED BY <3>4, <3>5
 <2>2. CASE ~TellsIdle(b, p)
  <3>1. /\ NoSync(p, 1) /\ synced[t] = TRUE /\ EndsFinally(b, p, 0)
        /\ status[t] = "ready" \/ uplink[t] # <<>>
   BY <2>2 DEF IdleKnown
  <3>2. p[1].kind # "sync" /\ NoSync(p, 2) BY <1>1, <3>1 DEF NoSync
  <3>3. UNCHANGED <<synced, status>> BY <1>1, <3>2 DEF Receive, ReceiveEvent, ReceiveSync, ReceiveAck, p
  <3>4. NoSync(q, 1) /\ EndsFinally(d, q, 0) BY <1>4, <1>5, <1>7, <3>1, <3>2
  <3> QED BY <3>1, <3>3, <3>4
 <2> QED BY <2>1, <2>2
<1> QED BY <1>6, <1>8

LEMMA MildFlush ==
  ASSUME Structure, NEW t \in Tabs, Flush(t), IdleKnown(t), ClosedOff(t)
  PROVE  IdleKnown(t)' /\ ClosedOff(t)'
<1> DEFINE b == batch[t]
            p == pipe[t]
<1>1. /\ UNCHANGED <<hand, turn, sub, pipe, uplink, synced>> /\ batch'[t] = <<>> /\ b # <<>>
      /\ status'[t] = StatusAfter(b[Len(b)], status[t]) /\ b \in Seq(Events)
 BY DEF Flush, hubVars, wireVars, Structure, TypeOK, TabTypeOK
<1>2. \A k : EndsFinally(b, p, k) => EndsFinally(<<>>, p, k) BY <1>1, EndsFlushed
<1>3. EndsFinally(b, p, 0) /\ status[t] = "ready" => status'[t] = "ready" BY <1>1, EndsFlushed DEF StatusAfter
<1>4. ClosedOff(t)' BY <1>1, <1>2 DEF ClosedOff
<1>5. TellsIdle(b, p) => TellsIdle(<<>>, p) BY <1>2 DEF TellsIdle
<1>6. IdleKnown(t)' BY <1>1, <1>2, <1>3, <1>5 DEF IdleKnown, Running
<1> QED BY <1>4, <1>6

LEMMA MildTab ==
  ASSUME Structure, Structure', AllSound, MildSound, NEW t \in Tabs,
         \/ Load(t) \/ Dial(t) \/ Open(t) \/ ConnLost(t) \/ Reload(t) \/ Receive(t) \/ Flush(t)
         \/ \E p \in Prompts : Type(t, p) \/ Remove(t, p)
         \/ Dispatch(t) \/ SendDirect(t) \/ RewindAsk(t) \/ RewindCheck(t)
  PROVE  MildSound'
<1>1. UNCHANGED <<log, turn, hand>>
 BY DEF Load, Dial, Open, ConnLost, Reload, Receive, Flush, Type, Remove, Dispatch, SendDirect,
        SendPrompt, RewindAsk, RewindCheck, hubVars
<1>2. LogEnds' /\ HandOfRun' BY <1>1 DEF MildSound, LogEnds, HandOfRun, Running
<1>3. ASSUME NEW u \in Tabs \ {t} PROVE IdleKnown(u)' /\ ClosedOff(u)'
 <2>1. SameTab(u) BY <1>3, TabsApart DEF Structure
 <2>2. uplink'[u] = uplink[u]
  BY <1>3 DEF Load, Dial, Open, ConnLost, Reload, Disconnect, Receive, Flush, Type, Remove, Dispatch,
     SendDirect, SendPrompt, RewindAsk, RewindCheck, wireVars, Structure, TypeOK, PromptTypeOK
 <2> QED BY <1>1, <2>1, <2>2, MildSame DEF SameTab, MildSound
<1>4. IdleKnown(t) /\ ClosedOff(t) BY DEF MildSound
<1>5. ASSUME Load(t) \/ Dial(t) \/ RewindAsk(t) \/ RewindCheck(t)
      PROVE  IdleKnown(t)' /\ ClosedOff(t)'
 <2>1. sub'[t] # "live" \/ (UNCHANGED <<pipe, batch, synced, sub, status, uplink>>)
  BY <1>5 DEF Load, Dial, RewindAsk, RewindCheck, hubVars, tabVars, wireVars, Structure, Connected
 <2> QED BY <1>1, <1>4, <2>1, MildSame, MildGone
<1>6. ASSUME ConnLost(t) \/ Reload(t)
      PROVE  IdleKnown(t)' /\ ClosedOff(t)'
 <2>1. sub'[t] # "live" BY <1>6 DEF ConnLost, Reload, Disconnect, Structure, TypeOK, RoomTypeOK
 <2> QED BY <2>1, MildGone
<1>7. ASSUME \E p \in Prompts : Type(t, p) \/ Remove(t, p)
      PROVE  IdleKnown(t)' /\ ClosedOff(t)'
 <2>1. UNCHANGED <<pipe, batch, synced, sub, status, uplink>> BY <1>7 DEF Type, Remove, hubVars, wireVars
 <2> QED BY <1>1, <1>4, <2>1, MildSame
<1>8. ASSUME Dispatch(t) \/ SendDirect(t)
      PROVE  IdleKnown(t)' /\ ClosedOff(t)'
 <2>1. PICK p : SendPrompt(t, p) BY <1>8 DEF Dispatch, SendDirect
 <2>2. uplink[t] \in Seq(SentPrompts) /\ uplink \in [Tabs -> Seq(SentPrompts)] BY DEF Structure, TypeOK, PromptTypeOK
 <2> DEFINE sent == Sent(p, TRUE)
 <2>3. uplink'[t] = Append(uplink[t], sent) /\ UNCHANGED <<pipe, batch, synced, sub>> BY <2>1, <2>2 DEF SendPrompt, hubVars
 <2> HIDE DEF sent
 <2>4. uplink'[t] # <<>> BY <2>2, <2>3
 <2> QED BY <1>1, <1>4, <2>3, <2>4, MildSame
<1>9. IdleKnown(t)' /\ ClosedOff(t)' BY <1>4, <1>5, <1>6, <1>7, <1>8, MildOpen, MildReceive, MildFlush DEF MildSound
<1> QED BY <1>2, <1>3, <1>9 DEF MildSound

\* An error or an acknowledgement to one connection.
LEMMA MildSend ==
  ASSUME Structure, Structure', MildSound, NEW m \in Messages, NEW a, SendTransient(a, m), TabsStay,
         UNCHANGED <<log, hand, sub, turn>>, Running \/ uplink' = uplink, m.kind # "sync",
         m.kind = "event" => m.event.final = TRUE
  PROVE  MildSound'
<1>1. ASSUME NEW u \in Tabs PROVE IdleKnown(u)' /\ ClosedOff(u)'
 <2>1. CASE u = a /\ Fits(u)
  <3>1. Longer(pipe[u], m, pipe'[u]) BY <2>1, SendShape DEF Longer, Structure
  <3>2. pipe[u] \in Seq(Messages) /\ pipe'[u] \in Seq(Messages) BY DEF Structure, TypeOK, RoomTypeOK
  <3> QED BY <3>1, <3>2, MildMessage DEF TabsStay, MildSound
 <2>2. CASE ~(u = a /\ Fits(u))
  <3>1. pipe'[u] = pipe[u] BY <2>2, SendShape DEF Structure
  <3> QED BY <3>1, MildSame DEF TabsStay, MildSound
 <2> QED BY <2>1, <2>2
<1> QED BY <1>1 DEF MildSound, LogEnds, HandOfRun, Running

LEMMA MildHandler ==
  ASSUME MildFaults, Structure, Structure', AcksTrue, MildSound, NEW h \in Tabs, HandlerStep(h)
  PROVE  MildSound'
<1>1. CASE AcceptPrompt(h)
 <2>1. turn' = "begun" /\ UNCHANGED <<log, hand>> BY <1>1 DEF AcceptPrompt, StartRun
 <2> QED BY <2>1, MildGone DEF MildSound, LogEnds, HandOfRun, Running
<1>2. CASE RejectPrompt(h)
 <2> DEFINE m == EventMsg(TransientError)
 <2>1. m.kind = "event" /\ m.event.final = TRUE /\ m \in Messages BY MessageKinds, MessagesSent DEF TransientError, Event
 <2>2. Running BY <1>2 DEF RejectPrompt, Fault, MildFaults
 <2>3. SendTransient(Asker(h), m) /\ TabsStay /\ UNCHANGED <<log, hand, sub, turn>> BY <1>2 DEF RejectPrompt, tabVars, TabsStay
 <2> HIDE DEF m
 <2> QED BY <2>1, <2>2, <2>3, MildSend
<1>3. CASE Acknowledge(h)
 <2>1. /\ verdict[h] # <<>> /\ verdict[h] \in Seq(Messages) /\ uplink' = uplink
       /\ SendTransient(h, verdict[h][1]) /\ TabsStay /\ UNCHANGED <<log, hand, sub, turn>>
  BY <1>3 DEF Acknowledge, tabVars, TabsStay, Structure, TypeOK, PromptTypeOK
 <2>2. verdict[h][1] \in Messages /\ 1 \in 1..Len(verdict[h]) BY <2>1
 <2>3. verdict[h][1].kind = "ack" BY <2>2 DEF AcksTrue
 <2> QED BY <2>1, <2>2, <2>3, MildSend
<1> QED BY <1>1, <1>2, <1>3 DEF HandlerStep

\* The event that ends a run is broadcast after all the others.
LEMMA MildBroadcast ==
  ASSUME Structure, Structure', AllSound, MildSound, BroadcastEvent, TabsStay
  PROVE  MildSound'
<1> DEFINE ev == hand[1]
            m == EventMsg(ev)
<1>1. hand # <<>> /\ hand \in Seq(Events) /\ Head(hand) = ev /\ ev \in Events BY DEF BroadcastEvent, Structure, TypeOK, HubTypeOK
<1>2. m.kind = "event" /\ m.event = ev /\ m \in Messages BY <1>1, MessageKinds, MessagesSent
<1>3. turn = "closed" => ev.final = TRUE BY <1>1 DEF AllSound, HandLast, MildSound, LogEnds
<1>4. Broadcast(m) /\ hand' = <<>> /\ UNCHANGED <<log, turn>> /\ Running BY <1>1 DEF BroadcastEvent, MildSound, HandOfRun
<1> HIDE DEF m, ev
<1>5. ASSUME NEW u \in Tabs PROVE IdleKnown(u)' /\ ClosedOff(u)'
 <2>1. IdleKnown(u)' BY <1>4 DEF IdleKnown, Running
 <2>2. CASE Fits(u)
  <3>1. Longer(pipe[u], m, pipe'[u]) BY <1>2, <1>4, <2>2, BroadcastShape DEF Longer, Structure
  <3>2. pipe[u] \in Seq(Messages) /\ pipe'[u] \in Seq(Messages) /\ batch[u] \in Seq(Events)
   BY DEF Structure, TypeOK, RoomTypeOK, TabTypeOK
  <3>3. turn = "closed" => EndsTurn(m) BY <1>2, <1>3 DEF EndsTurn
  <3>4. turn = "closed" => EndsFinally(batch[u], pipe'[u], Len(pipe'[u])) BY <3>1, <3>2, <3>3, EndsAll
  <3> QED BY <1>4, <2>1, <3>4 DEF ClosedOff, TabsStay
 <2>3. CASE ~Fits(u)
  <3>1. sub'[u] # "live" BY <1>2, <1>4, <2>3, BroadcastShape DEF Structure
  <3> QED BY <3>1, MildGone
 <2> QED BY <2>2, <2>3
<1> QED BY <1>4, <1>5 DEF MildSound, LogEnds, HandOfRun, Running

LEMMA MildEnd ==
  ASSUME Structure, Structure', MildSound, EndRun, TabsStay
  PROVE  MildSound'
<1> DEFINE no == FALSE
            m == SyncMsg(no)
<1>1. m.kind = "sync" /\ m.running = no BY MessageKinds
<1>2. m \in Messages BY MessagesSent
<1>3. /\ Broadcast(m) /\ turn = "closed" /\ turn' = "none" /\ hand = <<>>
      /\ UNCHANGED <<log, hand>>
 BY DEF EndRun, FinishRun
<1> HIDE DEF m
<1>4. ASSUME NEW u \in Tabs PROVE IdleKnown(u)' /\ ClosedOff(u)'
 <2>1. ClosedOff(u)' BY <1>3 DEF ClosedOff
 <2>2. CASE Fits(u)
  <3>1. Longer(pipe[u], m, pipe'[u]) /\ sub[u] = "live" BY <1>2, <1>3, <2>2, BroadcastShape DEF Longer, Structure, Fits
  <3>2. pipe[u] \in Seq(Messages) /\ pipe'[u] \in Seq(Messages) BY DEF Structure, TypeOK, RoomTypeOK
  <3>3. Len(pipe[u]) \in Nat /\ Len(pipe'[u]) = Len(pipe[u]) + 1 /\ pipe'[u][Len(pipe'[u])] = m BY <3>1, <3>2 DEF Longer
  <3>4. EndsFinally(batch[u], pipe[u], Len(pipe[u])) BY <1>3, <3>1 DEF MildSound, ClosedOff
  <3>5. Len(pipe[u]) \in 0..Len(pipe[u]) /\ Len(pipe'[u]) \in 1..Len(pipe'[u]) BY <3>3
  <3>6. EndsFinally(batch[u], pipe'[u], Len(pipe'[u])) BY <1>1, <3>1, <3>2, <3>4, <3>5, EndsLonger
  <3>7. NoSync(pipe'[u], Len(pipe'[u]) + 1) BY <3>3 DEF NoSync
  <3>8. TellsIdle(batch[u], pipe'[u]) BY <1>1, <3>3, <3>5, <3>6, <3>7 DEF TellsIdle
  <3> QED BY <2>1, <3>8 DEF IdleKnown, TabsStay
 <2>3. CASE ~Fits(u)
  <3>1. sub'[u] # "live" BY <1>2, <1>3, <2>3, BroadcastShape DEF Structure
  <3> QED BY <3>1, MildGone
 <2> QED BY <2>2, <2>3
<1> QED BY <1>3, <1>4 DEF MildSound, LogEnds, HandOfRun

LEMMA MildEmit ==
  ASSUME Structure, Structure', MildSound, EmitUser \/ EmitProgress \/ EmitFinal
  PROVE  MildSound'
<1>1. PICK final \in BOOLEAN : /\ AppendEvent(final) /\ turn' # "none"
                               /\ turn' = "closed" => final = TRUE
 BY DEF EmitUser, EmitProgress, EmitFinal, Emit
<1> DEFINE ev == Event(LastSeq + 1, minted + 1, final)
<1>2. log' = Append(log, ev) /\ hand' = <<ev>> /\ ev.final = final BY <1>1 DEF AppendEvent, Event
<1> HIDE DEF ev
<1>3. log \in Seq(Events) /\ log' \in Seq(Events) BY DEF Structure, TypeOK, HubTypeOK
<1>4. Len(log') = Len(log) + 1 /\ log'[Len(log')] = ev BY <1>2, <1>3
<1>5. LogEnds' /\ HandOfRun' BY <1>1, <1>2, <1>4 DEF LogEnds, HandOfRun, Running
<1>6. ASSUME NEW u \in Tabs PROVE IdleKnown(u)' /\ ClosedOff(u)'
 <2>1. hand' # <<>> BY <1>2
 <2> QED BY <1>1, <2>1 DEF IdleKnown, ClosedOff, Running
<1> QED BY <1>5, <1>6 DEF MildSound

LEMMA MildSoundKept ==
  ASSUME MildFaults, Structure, Structure', AcksTrue, AllSound, NeverRewound, MildSound, [Next]_vars
  PROVE  MildSound'
<1>1. ASSUME NEW t \in Tabs, TabStep(t) PROVE MildSound'
 <2>1. ~(RewindTruncate(t) \/ RewindPage(t) \/ RewindApply(t))
  BY DEF NeverRewound, RewindTruncate, RewindPage, RewindApply, NoRewind
 <2> QED BY <1>1, <2>1, MildTab DEF TabStep
<1>2. ASSUME NEW t \in Tabs, HandlerStep(t) PROVE MildSound' BY <1>2, MildHandler
<1>3. CASE StartElsewhere
 <2>1. turn' = "begun" /\ UNCHANGED <<log, hand>> BY <1>3 DEF StartElsewhere, StartRun
 <2> QED BY <2>1, MildGone DEF MildSound, LogEnds, HandOfRun, Running
<1>4. CASE RunStep
 <2>1. TabsStay BY <1>4 DEF RunStep, TabsAside, tabVars, TabsStay
 <2> QED BY <1>4, <2>1, MildEmit, MildBroadcast, MildEnd DEF RunStep
<1>5. ~RefuseRun /\ ~Crash BY DEF RefuseRun, Crash, Fault, MildFaults
<1>6. CASE UNCHANGED vars
 <2>1. ASSUME NEW u \in Tabs PROVE IdleKnown(u)' /\ ClosedOff(u)'
  BY <1>6, MildSame DEF vars, hubVars, tabVars, wireVars, MildSound
 <2> QED BY <1>6, <2>1 DEF MildSound, LogEnds, HandOfRun, Running, vars, hubVars
<1> QED BY <1>1, <1>2, <1>3, <1>4, <1>5, <1>6 DEF Next

\* Theorem: a tab to which nothing is on the way is current: it shows the whole log, and its
\* composer is open when the chat is free.  The faults are those of a browser and its
\* network; after a crash of the server it need not be so (see the run FindingStuck).
THEOREM QuietTabsAreCurrent == MildFaults => (Spec => []QuietIsCurrent)
<1> SUFFICES ASSUME MildFaults PROVE Spec => []QuietIsCurrent OBVIOUS
<1>1. "rewind" \notin Faults BY DEF MildFaults
<1>2. Init => MildSound BY DEF Init, HubInit, MildSound, LogEnds, HandOfRun, IdleKnown, ClosedOff
<1>3. ( /\ Structure /\ QueueSound /\ StreamSound /\ NeverRewound
        /\ (Structure /\ QueueSound /\ StreamSound /\ NeverRewound)'
        /\ MildSound /\ [Next]_vars ) => MildSound'
 BY MildSoundKept DEF QueueSound, StreamSound, NeverRewound
<1>4. Spec => []NothingMissed BY <1>1, NothingIsMissed
<1>5. MildSound => IdleShown
 <2> SUFFICES ASSUME MildSound, NEW t \in Tabs, Quiet(t), ~Running PROVE status[t] = "ready" BY DEF IdleShown
 <2>1. IdleKnown(t) /\ sub[t] = "live" /\ pipe[t] = <<>> /\ uplink[t] = <<>> BY DEF MildSound, Quiet
 <2>2. ~TellsIdle(batch[t], pipe[t]) BY <2>1 DEF TellsIdle
 <2> QED BY <2>1, <2>2 DEF IdleKnown
<1>6. NothingMissed /\ IdleShown <=> QuietIsCurrent BY DEF QuietIsCurrent
<1> QED BY <1>1, <1>2, <1>3, <1>4, <1>5, <1>6, SoundAndUnrewound, PTL DEF Spec
====
