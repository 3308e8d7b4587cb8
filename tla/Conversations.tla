---- MODULE Conversations ----
\* What a chat remembers and what its agent remembers.  The chat keeps a
\* record (stores/filechat: meta.json and its cached copy, written under
\* the chat's lock) and the log of its messages; an agent keeps sessions
\* of its own, which the record names.  A turn resumes the session of the
\* chat's agent, forks it when the chat is a fresh copy, or starts anew
\* with the visible messages as context (service/prompt/service.go); a
\* rewind and a fork of the chat change both sides (service/chat).
\*
\* A moment is an instant at which something is written to a log; the
\* moment of a prompt also names its turn.  No two messages fall on the
\* same millisecond, and the visible messages fit into the context.
EXTENDS Naturals, FiniteSets, FiniteSetsExt

CONSTANTS
  Talks,            \* chats
  Agents,           \* registered agents
  Forkers,          \* those whose descriptor says Sessions.Fork
  MaxMoment,        \* bound on moments
  MaxContexts,      \* bound on sessions
  MaxTalkRequests,  \* bound on requests other than prompts
  MaxTalkFaults,    \* bound on failing writes, failing turns and restarts
  NoTalk, Gone

ASSUME ForkersAssumption == Forkers \subseteq Agents

VARIABLES
  records,      \* chat -> its record, NoTalk before it is made, Gone after it is deleted
  talk,         \* chat -> the moments of its log
  contexts,     \* session -> the turns it knows and the chats that continued it
  turnRun,      \* chat -> its run, as the hub and runPromptAs hold it
  rewinding,    \* chat -> the moment a checked rewind is about to cut at, or 0
  copying,      \* the fork under way: [of, rec], or NoTalk
  moment, talkFaults, talkRequests,
  \* What the properties compare with.
  answered,     \* chat -> turns an agent has taken up
  news,         \* chats told something since they were last read
  switched,     \* chats whose agent was changed
  crossed,      \* chats rewound or copied between two reads of someone else
  unsaved,      \* chats whose record missed a write
  copied        \* forks that have not been rewound since

talkGhosts == <<answered, news, switched, crossed, unsaved, copied>>
talkVars == <<records, talk, contexts, turnRun, rewinding, copying, moment, talkFaults, talkRequests, talkGhosts>>

Contexts == 1..MaxContexts
FirstMoment == 2   \* far from 0, as a clock is
Moments == FirstMoment..MaxMoment
NoTurnRun == [at |-> "idle", agent |-> "", session |-> 0, pending |-> FALSE, prior |-> {}, say |-> 0]
Known == {c \in Talks : records[c] \notin {NoTalk, Gone}}

\* withRunning: the hub's word on the chat.
IsRunning(c) == turnRun[c].at # "idle"

----
\* The record.  A session of 0 is none.

NoSessions == [a \in Agents |-> 0]

\* Store.Create: what is not given is now.
NewRecord(agent, sessions, pending) ==
  [agent |-> agent, sessions |-> sessions, pending |-> pending,
   created |-> moment, lastMessage |-> moment, lastRead |-> moment]

SessionID(rec, agent) == rec.sessions[agent]
SetSessionID(rec, agent, s) == [rec EXCEPT !.sessions[agent] = s]
ClearSessionIDs(rec) == [rec EXCEPT !.sessions = NoSessions]

\* How a record comes back from its file: a time of 0 is not written.
ReadBack(rec) == [rec EXCEPT !.lastRead = IF @ = 0 THEN rec.lastMessage ELSE @]

\* What the list of chats shows in bold.
UnreadTalk(rec) == rec.lastRead < rec.lastMessage

\* Store.Update: under the lock, on the record as it then is; with a failing
\* write neither the file nor the cached copy changes.
UpdateRecord(c, rec) ==
  \/ /\ records' = [records EXCEPT ![c] = rec]
     /\ UNCHANGED <<unsaved, talkFaults>>
  \/ /\ talkFaults < MaxTalkFaults
     /\ talkFaults' = talkFaults + 1
     /\ unsaved' = unsaved \cup {c}
     /\ UNCHANGED records

\* AppendEvent of a kind that touches the record, with ev.T the new moment.
AppendTouching(c) ==
  /\ moment < MaxMoment
  /\ moment' = moment + 1
  /\ talk' = [talk EXCEPT ![c] = @ \cup {moment + 1}]
  /\ UpdateRecord(c, [records[c] EXCEPT !.lastMessage = moment + 1])
  /\ news' = IF unsaved' = unsaved THEN news \cup {c} ELSE news

----
\* The requests of chat_handler.go.  HandleResource reads the record first:
\* for a chat that is gone, or of a project the caller is not in, the
\* request ends there.

Reached(c) == c \in Known

Create(c, agent) ==
  /\ records[c] = NoTalk
  /\ records' = [records EXCEPT ![c] = NewRecord(agent, NoSessions, FALSE)]
  /\ UNCHANGED <<talk, contexts, turnRun, rewinding, copying, moment, talkFaults, talkGhosts>>

\* Update with a provider; what else it can change no property looks at.
ChangeAgent(c, agent) ==
  /\ Reached(c)
  /\ agent # records[c].agent
  /\ UpdateRecord(c, [records[c] EXCEPT !.agent = agent])
  /\ switched' = switched \cup {c}
  /\ UNCHANGED <<talk, contexts, turnRun, rewinding, copying, moment, answered, news, crossed, copied>>

MarkRead(c) ==
  /\ Reached(c)
  /\ UpdateRecord(c, [records[c] EXCEPT !.lastRead = records[c].lastMessage])
  /\ news' = news \ {c}
  /\ UNCHANGED <<talk, contexts, turnRun, rewinding, copying, moment, answered, switched, crossed, copied>>

MarkUnread(c) ==
  /\ Reached(c)
  /\ UpdateRecord(c, [records[c] EXCEPT !.lastRead = IF records[c].lastMessage > 0 THEN records[c].lastMessage - 1 ELSE 0])
  /\ UNCHANGED <<talk, contexts, turnRun, rewinding, copying, moment, answered, news, switched, crossed, copied>>

\* Cancels the run, which then ends by itself, and removes the directory.
DeleteTalk(c) ==
  /\ Reached(c)
  /\ records' = [records EXCEPT ![c] = Gone]
  /\ talk' = [talk EXCEPT ![c] = {}]
  /\ answered' = [answered EXCEPT ![c] = {}]
  /\ UNCHANGED <<contexts, turnRun, rewinding, copying, moment, talkFaults,
                 news, switched, crossed, unsaved, copied>>

\* Fork reads the record, and only then the log.
ForkReads(c) ==
  /\ Reached(c) /\ copying = NoTalk
  /\ copying' = [of |-> c, rec |-> records[c]]
  /\ UNCHANGED <<records, talk, contexts, turnRun, rewinding, moment, talkFaults, talkGhosts>>

\* A copy that resumed its parent's session.
ForkedRecord_Slip(src) == NewRecord(src.agent, src.sessions, FALSE)

\* A copy pends a fork of the session where the agent can fork one; otherwise it
\* drops its agent's session, and keeps those of the other agents.
ForkedRecord(src) ==
  LET native == src.agent \in Forkers
  IN NewRecord(src.agent,
               IF native THEN src.sessions ELSE [src.sessions EXCEPT ![src.agent] = 0],
               native /\ SessionID(src, src.agent) # 0)

\* The copied messages bring their own times along.
ForkCopies(d) ==
  /\ copying # NoTalk
  /\ records[d] = NoTalk
  /\ LET c == copying.of
         rec == ForkedRecord(copying.rec)
         told == talk[c]
     IN /\ records' = [records EXCEPT ![d] =
             [rec EXCEPT !.lastMessage = IF told = {} THEN @ ELSE Max(told)]]
        /\ talk' = [talk EXCEPT ![d] = told]
        /\ answered' = [answered EXCEPT ![d] = answered[c] \cap told]
        /\ crossed' = IF c \in crossed \/ c \notin Known \/ records[c].sessions # copying.rec.sessions
                      THEN crossed \cup {d} ELSE crossed
        /\ switched' = IF c \in switched THEN switched \cup {d} ELSE switched
        /\ unsaved' = IF c \in unsaved THEN unsaved \cup {d} ELSE unsaved
        /\ copied' = copied \cup {d}
  /\ copying' = NoTalk
  /\ UNCHANGED <<contexts, turnRun, rewinding, moment, talkFaults, news>>

\* Rewind asks the hub, and cuts the log later.
RewindChecks(c) ==
  /\ Reached(c) /\ rewinding[c] = 0 /\ ~IsRunning(c)
  /\ \E at \in talk[c] : rewinding' = [rewinding EXCEPT ![c] = at]
  /\ UNCHANGED <<records, talk, contexts, turnRun, copying, moment, talkFaults, talkGhosts>>

\* A rewind that forgot only the session the chat works with.
RewoundRecord_Slip(rec, kept) ==
  [rec EXCEPT !.sessions[rec.agent] = 0, !.lastMessage = IF kept = {} THEN rec.created ELSE Max(kept)]

\* TruncateEventsBefore: every session of the chat is forgotten.
RewoundRecord(rec, kept) ==
  [ClearSessionIDs(rec) EXCEPT !.lastMessage = IF kept = {} THEN rec.created ELSE Max(kept)]

RewindCuts(c) ==
  /\ rewinding[c] # 0
  /\ rewinding' = [rewinding EXCEPT ![c] = 0]
  /\ \/ /\ c \notin Known
        /\ UNCHANGED <<records, talk, talkFaults, talkGhosts>>
     \/ /\ c \in Known
        /\ LET kept == {m \in talk[c] : m < rewinding[c]}
           IN /\ talk' = [talk EXCEPT ![c] = kept]
              /\ answered' = [answered EXCEPT ![c] = @ \cap kept]
              /\ UpdateRecord(c, RewoundRecord(records[c], kept))
        /\ news' = news \ {c}
        /\ crossed' = IF IsRunning(c) \/ copying # NoTalk THEN crossed \cup {c} ELSE crossed
        /\ copied' = copied \ {c}
        /\ UNCHANGED switched
  /\ UNCHANGED <<contexts, turnRun, copying, moment>>

----
\* A turn (service/prompt/service.go).

\* Start: one run per chat.
StartPrompt(c) ==
  /\ c \in Known /\ ~IsRunning(c)
  /\ turnRun' = [turnRun EXCEPT ![c].at = "started"]
  /\ UNCHANGED <<records, talk, contexts, rewinding, copying, moment, talkFaults, talkGhosts>>

\* runPromptAs works with the record as it reads it here.
LoadRecord(c) ==
  /\ turnRun[c].at = "started"
  /\ turnRun' = [turnRun EXCEPT ![c] =
       IF c \in Known
       THEN [NoTurnRun EXCEPT !.at = "loaded", !.agent = records[c].agent,
                              !.session = SessionID(records[c], records[c].agent),
                              !.pending = records[c].pending /\ records[c].agent \in Forkers]
       ELSE NoTurnRun]
  /\ UNCHANGED <<records, talk, contexts, rewinding, copying, moment, talkFaults, talkGhosts>>

\* The earlier messages are read for an agent that will need them; then the
\* prompt is written down.
SayPrompt(c) ==
  /\ turnRun[c].at = "loaded"
  /\ \/ /\ c \in Known
        /\ AppendTouching(c)
        /\ turnRun' = [turnRun EXCEPT ![c].at = "said", ![c].prior = talk[c], ![c].say = moment + 1]
     \/ /\ c \notin Known
        /\ turnRun' = [turnRun EXCEPT ![c] = NoTurnRun]
        /\ UNCHANGED <<records, talk, moment, talkFaults, news, unsaved>>
  /\ UNCHANGED <<contexts, rewinding, copying, answered, switched, crossed, copied>>

NextContext == Cardinality({s \in Contexts : contexts[s].known # {}}) + 1

\* A new session that was told of the prompt alone.
Given_Slip(c) ==
  LET t == turnRun[c]
  IN IF t.session = 0
     THEN [session |-> NextContext, known |-> {t.say}]
     ELSE [session |-> IF t.pending THEN NextContext ELSE t.session,
           known |-> contexts[t.session].known \cup {t.say}]

\* What the agent is given: a new session with the visible messages, a copy of
\* the resumed one, or the resumed one itself.
Given(c) ==
  LET t == turnRun[c]
  IN IF t.session = 0
     THEN [session |-> NextContext, known |-> t.prior \cup {t.say}]
     ELSE [session |-> IF t.pending THEN NextContext ELSE t.session,
           known |-> contexts[t.session].known \cup {t.say}]

\* EventSessionUpdated, by which the agent says where it works: the record takes
\* the session down and no fork is pending any more.
SessionUpdated(c) ==
  /\ turnRun[c].at = "said"
  /\ Given(c).session \in Contexts
  /\ LET s == Given(c).session
     IN /\ contexts' = [contexts EXCEPT ![s] =
             [known |-> Given(c).known, users |-> @.users \cup {c}]]
        /\ \/ /\ c \in Known
              /\ UpdateRecord(c, [SetSessionID(records[c], turnRun[c].agent, s) EXCEPT !.pending = FALSE])
              /\ answered' = [answered EXCEPT ![c] = @ \cup ({turnRun[c].say} \cap talk[c])]
           \/ /\ c \notin Known
              /\ UNCHANGED <<records, talkFaults, unsaved, answered>>
  /\ turnRun' = [turnRun EXCEPT ![c].at = "running"]
  /\ UNCHANGED <<talk, rewinding, copying, moment, news, switched, crossed, copied>>

\* ErrSessionNotFound: the record forgets the session, and the prompt is run again
\* without one.
SessionNotFound(c) ==
  /\ turnRun[c].at = "said" /\ turnRun[c].session # 0
  /\ turnRun' = [turnRun EXCEPT ![c].session = 0]
  /\ \/ /\ c \in Known
        /\ UpdateRecord(c, [SetSessionID(records[c], turnRun[c].agent, 0) EXCEPT !.pending = FALSE])
     \/ /\ c \notin Known
        /\ UNCHANGED <<records, talkFaults, unsaved>>
  /\ UNCHANGED <<talk, contexts, rewinding, copying, moment, answered, news, switched, crossed, copied>>

\* "complete", and the hub lets the chat go.
CompleteTurn(c) ==
  /\ turnRun[c].at = "running"
  /\ turnRun' = [turnRun EXCEPT ![c] = NoTurnRun]
  /\ \/ c \in Known /\ AppendTouching(c)
     \/ c \notin Known /\ UNCHANGED <<records, talk, moment, talkFaults, news, unsaved>>
  /\ UNCHANGED <<contexts, rewinding, copying, answered, switched, crossed, copied>>

\* A turn that fails before its agent has said anything: "error".
FailTurn(c) ==
  /\ turnRun[c].at = "said"
  /\ talkFaults < MaxTalkFaults
  /\ turnRun' = [turnRun EXCEPT ![c] = NoTurnRun]
  /\ \/ c \in Known /\ AppendTouching(c)
     \/ c \notin Known /\ UNCHANGED <<records, talk, moment, talkFaults, news, unsaved>>
  /\ UNCHANGED <<contexts, rewinding, copying, answered, switched, crossed, copied>>

\* The server restarts: loadMetaIndex reads what was written.
RestartChats ==
  /\ talkFaults < MaxTalkFaults
  /\ talkFaults' = talkFaults + 1
  /\ turnRun' = [c \in Talks |-> NoTurnRun]
  /\ rewinding' = [c \in Talks |-> 0]
  /\ copying' = NoTalk
  /\ records' = [c \in Talks |-> IF c \in Known THEN ReadBack(records[c]) ELSE records[c]]
  /\ UNCHANGED <<talk, contexts, moment, talkGhosts>>

----
TalkInit ==
  /\ records = [c \in Talks |-> NoTalk]
  /\ talk = [c \in Talks |-> {}]
  /\ contexts = [s \in Contexts |-> [known |-> {}, users |-> {}]]
  /\ turnRun = [c \in Talks |-> NoTurnRun]
  /\ rewinding = [c \in Talks |-> 0]
  /\ copying = NoTalk
  /\ moment = FirstMoment /\ talkFaults = 0 /\ talkRequests = 0
  /\ answered = [c \in Talks |-> {}]
  /\ news = {} /\ switched = {} /\ crossed = {} /\ unsaved = {} /\ copied = {}

\* What a browser asks for; the rest follows from it.
TalkRequest(c) ==
  \/ MarkRead(c) \/ MarkUnread(c) \/ DeleteTalk(c) \/ ForkReads(c) \/ RewindChecks(c)
  \/ \E a \in Agents : Create(c, a) \/ ChangeAgent(c, a)

TalkNext ==
  \/ /\ talkRequests < MaxTalkRequests
     /\ talkRequests' = talkRequests + 1
     /\ \E c \in Talks : TalkRequest(c)
  \/ /\ UNCHANGED talkRequests
     /\ \/ RestartChats
        \/ \E c \in Talks :
             \/ ForkCopies(c) \/ RewindCuts(c) \/ StartPrompt(c) \/ LoadRecord(c) \/ SayPrompt(c)
             \/ SessionUpdated(c) \/ SessionNotFound(c) \/ CompleteTurn(c) \/ FailTurn(c)

TalkSpec == TalkInit /\ [][TalkNext]_talkVars

----
\* Properties.

TalkTypeOK ==
  /\ \A c \in Known : records[c].agent \in Agents /\ \A a \in Agents : records[c].sessions[a] \in Contexts \cup {0}
  /\ \A c \in Talks : /\ talk[c] \subseteq Moments /\ answered[c] \subseteq talk[c]
                      /\ turnRun[c].at \in {"idle", "started", "loaded", "said", "running"}
  /\ copying = NoTalk \/ copying.of \in Talks
  /\ moment \in Moments /\ talkFaults \in 0..MaxTalkFaults /\ talkRequests \in 0..MaxTalkRequests

\* Two chats that kept their agent never work in one session: a fork gets a copy
\* of its parent's, so that the parent is never mutated (service.go:153-156).
SessionsApart ==
  \A s \in Contexts : Cardinality(contexts[s].users \ switched) <= 1

\* The agent a chat works with knows every turn the chat shows as taken up, across
\* forks, rewinds, lost sessions and restarts, unless the agent was changed or the
\* record missed a write.
AgentKnowsTheChat ==
  \A c \in Known \ (switched \cup unsaved \cup crossed) :
    LET s == SessionID(records[c], records[c].agent)
    IN s # 0 => answered[c] \subseteq contexts[s].known

\* No session that a chat continues knows a message the chat was rewound past,
\* whichever agent's it is.  (A fork resumes its parent's session as that is when the
\* fork is first spoken to, which may be further than what the fork shows.)
RewoundIsForgotten ==
  \A c \in Known \ (crossed \cup unsaved \cup copied) :
    \A a \in Agents :
      LET s == SessionID(records[c], a)
      IN s # 0 /\ contexts[s].users = {c} => contexts[s].known \subseteq talk[c]

\* A chat that was told something since it was last read is shown as unread.
UnreadUntilRead ==
  \A c \in Known \cap news : c \notin unsaved => UnreadTalk(records[c])

TalksInvariant ==
  /\ TalkTypeOK /\ SessionsApart /\ AgentKnowsTheChat /\ RewoundIsForgotten /\ UnreadUntilRead

----
\* What the code does not promise (README, "Properties the code does not have").
ParentNeverMutated == \A s \in Contexts : Cardinality(contexts[s].users) <= 1
====
