---- MODULE CodexFeed ----
\* What a chat is told of the items of a turn: the event parser and the
\* subagent tracker of integration/agents/codexharness.  One stream
\* carries the notifications of the turn's own thread and of its
\* subagents' threads, whose ids of items need not differ.
\*
\* The process is external: it may leave out deltas, finish an item after
\* the turn, or stop writing.  CodexTurn has the requests, the answers and
\* how a turn ends; here a notification is handled when it is written,
\* since one loop reads them in order.
EXTENDS Naturals, Sequences, SequencesExt, FiniteSets

CONSTANTS
  RootThread, ChildThreads,
  FeedItems,      \* ids of messages and of tool calls, the same in every thread
  Pieces,         \* of text
  MaxText, MaxNotices, NoCard

VARIABLES
  source,    \* the process: of each thread its turn, messages, calls, report and usage
  itemText,  \* parser.itemText
  lastUsage, \* parser.lastUsage
  subagents, \* tracker.states
  chatTold,  \* the transcript: texts, calls, cards, the end and its usage
  feedAt,    \* the loop: "open", "draining" after turn/completed, "over"
  notices

itemVars == <<source, itemText, lastUsage, subagents, chatTold, feedAt, notices>>

Threads == {RootThread} \cup ChildThreads
CallEnds == {"completed", "failed"}
EndStates == {"completed", "failed", "interrupted"}

NewThread == [turn |-> "none", message |-> [i \in FeedItems |-> [at |-> "none", sent |-> <<>>, text |-> <<>>]],
              calls |-> [i \in FeedItems |-> "none"], report |-> <<>>, usage |-> 0]
NewState == [status |-> "inProgress", message |-> <<>>, tools |-> [i \in FeedItems |-> "none"]]
NothingSaid == [text |-> [i \in FeedItems |-> <<>>], calls |-> [i \in FeedItems |-> "none"],
                card |-> [c \in ChildThreads |-> NoCard], ended |-> "none", usage |-> 0]

\* What a card says of a subagent.
Cards == [status : EndStates \cup {"inProgress", "idle", "turnEnded"}, message : Seq(Pieces),
          tools : [FeedItems -> CallEnds \cup {"none", "inProgress"}]]

ASSUME CodexFeedAssumption == RootThread \notin ChildThreads /\ NoCard \notin Cards

\* state(): the tracker's record of a thread, made at its first notification.
StateOf(c) == IF subagents[c] = NoCard THEN NewState ELSE subagents[c]

\* The turn's own parser takes every notification.
IsRoot_Slip(th) == TRUE

\* handleNotification: descendants go to the tracker.
IsRoot(th) == th = RootThread

\* ParseNotification of the tracker: what changed is told, as a whole card.
Tell(c, state) ==
  /\ subagents' = [subagents EXCEPT ![c] = state]
  /\ chatTold' = [chatTold EXCEPT !.card[c] = state]
  /\ UNCHANGED <<itemText, lastUsage>>

\* What is not shown only makes the record.
Untold(c) == subagents' = [subagents EXCEPT ![c] = StateOf(c)] /\ UNCHANGED <<itemText, lastUsage, chatTold>>

\* beginTerminal: after the turn's end only notifications are read.
Notice ==
  /\ feedAt \in {"open", "draining"} /\ notices < MaxNotices /\ notices' = notices + 1

SourceWrites(th, thread) == source' = [source EXCEPT ![th] = thread]

----
\* Text.

\* item/agentMessage/delta
MessageDelta(th, i, piece) ==
  LET m == source[th].message[i]
  IN /\ Notice /\ source[th].turn = "working" /\ m.at # "done" /\ Len(m.sent) < MaxText
     /\ SourceWrites(th, [source[th] EXCEPT !.message[i] = [at |-> "open", sent |-> Append(m.sent, piece), text |-> <<>>]])
     /\ IF IsRoot(th)
          THEN /\ itemText' = [itemText EXCEPT ![i] = Append(@, piece)]
               /\ chatTold' = [chatTold EXCEPT !.text[i] = Append(@, piece)]
               /\ UNCHANGED <<lastUsage, subagents>>
          ELSE Untold(th)
     /\ UNCHANGED feedAt

\* What has been streamed is told again.
Rest_Slip(seen, text) == text

\* completedText: what the deltas have not brought; all of it, when it is not what
\* they began.
Rest(seen, text) == IF IsPrefix(seen, text) THEN SubSeq(text, Len(seen) + 1, Len(text)) ELSE text

\* item/completed of a message, during the turn or flushed after it.
CompleteMessage(th, i, text) ==
  LET m == source[th].message[i]
      state == StateOf(th)
  IN /\ Notice /\ source[th].turn # "none" /\ m.at # "done"
     /\ m.at = "open" \/ source[th].turn = "working"
     /\ SourceWrites(th, [source[th] EXCEPT !.message[i] = [m EXCEPT !.at = "done", !.text = text], !.report = text])
     /\ IF IsRoot(th)
          THEN /\ itemText' = [itemText EXCEPT ![i] = text]
               /\ chatTold' = [chatTold EXCEPT !.text[i] = @ \o Rest(itemText[i], text)]
               /\ UNCHANGED <<lastUsage, subagents>>
          ELSE Tell(th, [state EXCEPT !.message = text])
     /\ UNCHANGED feedAt

----
\* Tools.

\* A late item reopens the card.
AtItem_Slip(state) == [state EXCEPT !.status = "inProgress"]

\* An item of a thread whose turn has ended leaves its status.
AtItem(state) == IF state.status \in EndStates \cup {"turnEnded"} THEN state ELSE [state EXCEPT !.status = "inProgress"]

\* item/started and item/completed of a call: toolStarted, toolCompleted, updateTool.
NoticeCall(th, i, status) ==
  LET was == source[th].calls[i]
  IN /\ Notice /\ source[th].turn # "none"
     /\ \/ was = "none" /\ source[th].turn = "working" /\ status = "inProgress"
        \/ was \in {"none", "inProgress"} /\ status \in CallEnds
     /\ SourceWrites(th, [source[th] EXCEPT !.calls[i] = status])
     /\ IF IsRoot(th)
          THEN chatTold' = [chatTold EXCEPT !.calls[i] = status] /\ UNCHANGED <<itemText, lastUsage, subagents>>
          ELSE Tell(th, [AtItem(StateOf(th)) EXCEPT !.tools[i] = status])
     /\ UNCHANGED feedAt

----
\* Turns, threads and usage.

StartThreadTurn(th) ==
  /\ Notice /\ feedAt = "open"
  /\ source[th].turn = "none" \/ (th # RootThread /\ source[th].turn \in EndStates)
  /\ th = RootThread \/ source[RootThread].turn = "working"
  /\ SourceWrites(th, [source[th] EXCEPT !.turn = "working"])
  /\ IF IsRoot(th) THEN UNCHANGED <<itemText, lastUsage, subagents, chatTold>>
     ELSE Tell(th, [StateOf(th) EXCEPT !.status = "inProgress"])
  /\ UNCHANGED feedAt

\* turn/completed.  The turn's own is held back until the stream has been read
\* (beginTerminal), with the usage reported last.
CompleteTurn(th, status) ==
  /\ Notice /\ source[th].turn = "working"
  /\ SourceWrites(th, [source[th] EXCEPT !.turn = status])
  /\ IF IsRoot(th)
       THEN IF feedAt = "open"
              THEN /\ chatTold' = [chatTold EXCEPT !.ended = status, !.usage = lastUsage]
                   /\ feedAt' = "draining" /\ UNCHANGED <<itemText, lastUsage, subagents>>
              ELSE UNCHANGED <<chatTold, feedAt, itemText, lastUsage, subagents>>
       ELSE Tell(th, [StateOf(th) EXCEPT !.status = status]) /\ UNCHANGED feedAt

\* A thread that is idle has no turn at work.
IdleStatus_Slip(status) == "idle"

\* thread/status/changed to idle: a turn's end is not forgotten.
IdleStatus(status) == IF status \in EndStates \cup {"turnEnded"} THEN status ELSE "idle"

ThreadIdle(c) ==
  /\ Notice /\ source[c].turn # "working"
  /\ Tell(c, [StateOf(c) EXCEPT !.status = IdleStatus(@)])
  /\ UNCHANGED <<source, feedAt>>

ReportUsage(th) ==
  /\ Notice /\ source[th].turn = "working"
  /\ SourceWrites(th, [source[th] EXCEPT !.usage = @ + 1])
  /\ IF IsRoot(th) THEN lastUsage' = source[th].usage + 1 /\ UNCHANGED <<itemText, subagents, chatTold>>
     ELSE Untold(th)
  /\ UNCHANGED feedAt

\* Finalize: a thread that has not ended ends with the run.
LastState(state, ending) ==
  IF state.status \in EndStates \cup {"turnEnded"} THEN state
  ELSE [state EXCEPT !.status = IF ending # "completed" THEN ending ELSE IF @ = "idle" THEN "completed" ELSE "turnEnded"]

\* finalizeTerminal or finish, when the stream closes, fails or is given up.
EndFeed ==
  LET ending == IF chatTold.ended = "none" THEN "failed" ELSE chatTold.ended
      last == [c \in ChildThreads |-> IF subagents[c] = NoCard THEN NoCard ELSE LastState(subagents[c], ending)]
  IN /\ feedAt # "over" /\ feedAt' = "over"
     /\ subagents' = last
     /\ chatTold' = [chatTold EXCEPT !.card = [c \in ChildThreads |-> IF last[c] = subagents[c] THEN @[c] ELSE last[c]]]
     /\ UNCHANGED <<source, itemText, lastUsage, notices>>

\* A message ends as it was streamed, goes on, or was written anew.
Finals(sent) == {t \in {sent} \cup {Append(sent, p) : p \in Pieces} \cup {<<p>> : p \in Pieces} : t # <<>>}

ItemsInit ==
  /\ source = [th \in Threads |-> NewThread]
  /\ itemText = [i \in FeedItems |-> <<>>] /\ lastUsage = 0
  /\ subagents = [c \in ChildThreads |-> NoCard]
  /\ chatTold = NothingSaid /\ feedAt = "open" /\ notices = 0

ItemsNext ==
  \/ \E th \in Threads :
       \/ \E i \in FeedItems :
            \/ \E p \in Pieces : MessageDelta(th, i, p)
            \/ \E t \in Finals(source[th].message[i].sent) : CompleteMessage(th, i, t)
            \/ \E s \in CallEnds \cup {"inProgress"} : NoticeCall(th, i, s)
       \/ StartThreadTurn(th) \/ ReportUsage(th)
       \/ \E s \in EndStates : CompleteTurn(th, s)
  \/ \E c \in ChildThreads : ThreadIdle(c)
  \/ EndFeed

ItemsSpec == ItemsInit /\ [][ItemsNext]_itemVars

----
ItemsTypeOK ==
  /\ feedAt \in {"open", "draining", "over"}
  /\ \A c \in ChildThreads : subagents[c] # NoCard =>
       subagents[c].status \in EndStates \cup {"inProgress", "idle", "turnEnded"}

\* The chat has every message once, whether it came in deltas, at once or both,
\* and nothing of a subagent's under the same id (app_server_events.go:265-290,
\* app_server_run.go:253-263).
TextOnce ==
  \A i \in FeedItems :
    LET m == source[RootThread].message[i]
    IN /\ m.at = "open" => chatTold.text[i] = m.sent
       /\ m.at = "done" /\ IsPrefix(m.sent, m.text) => chatTold.text[i] = m.text
       /\ m.at = "none" => chatTold.text[i] = <<>>

\* A card has the calls and the report of its thread as they were last reported,
\* and is ended exactly when its turn is: late items and an idle thread do not
\* reopen it, a new turn does (app_server_subagents.go:70-134).
CardTrue ==
  \A c \in ChildThreads : chatTold.card[c] # NoCard =>
    /\ chatTold.card[c].tools = source[c].calls /\ chatTold.card[c].message = source[c].report
    /\ source[c].turn \in EndStates => chatTold.card[c].status = source[c].turn
    /\ source[c].turn = "working" /\ feedAt # "over" => chatTold.card[c].status = "inProgress"
    /\ feedAt = "over" => chatTold.card[c].status \in EndStates \cup {"turnEnded"}

\* The run is charged what its own thread reported last, and no subagent's.
ChargedOwnUsage == chatTold.ended # "none" => chatTold.ended = source[RootThread].turn /\ chatTold.usage = source[RootThread].usage

ItemsInvariant == ItemsTypeOK /\ TextOnce /\ CardTrue /\ ChargedOwnUsage

\* Not so: a message that was written anew is told after what was streamed of it.
TextIsFinal == \A i \in FeedItems : LET m == source[RootThread].message[i] IN m.at = "done" => chatTold.text[i] = m.text

\* Not so: Finalize ends a card and leaves the calls in it running.
CallsSettled ==
  feedAt = "over" => \A c \in ChildThreads : chatTold.card[c] # NoCard => \A i \in FeedItems : chatTold.card[c].tools[i] # "inProgress"
====
