---- MODULE ChatLease ----
\* What the claim protocol and the run lock promise together, whatever the
\* interleaving of callers: a chat has at most one claim, a claim starts at
\* most one run, a run starts only with a claim that was granted to it, and
\* a chat runs one prompt at a time.
\*
\* "claim" is durable and may go away at any moment (the task is deleted,
\* the run is settled); "granted" holds the runs that were given a claim
\* and have not started yet; "room" is the prompt a chat is running.
CONSTANTS Chats, RunIds, NoRun, Free, User

VARIABLES claim, granted, room
vars == <<claim, granted, room>>

TypeOK ==
  /\ claim \in [Chats -> RunIds \cup {NoRun}]
  /\ granted \subseteq RunIds
  /\ room \in [Chats -> RunIds \cup {Free, User}]

Init ==
  /\ claim = [ch \in Chats |-> NoRun]
  /\ granted = {}
  /\ room = [ch \in Chats |-> Free]

\* A run id nobody uses becomes the claim of a chat that has none.
Grant(ch, r) ==
  /\ claim[ch] = NoRun /\ r \notin granted
  /\ r \notin {claim[x] : x \in Chats} \cup {room[x] : x \in Chats}
  /\ claim' = [claim EXCEPT ![ch] = r]
  /\ granted' = granted \cup {r}
  /\ UNCHANGED room

\* A granted run starts in a chat that runs nothing, and starts only once.
Enter(ch, r) ==
  /\ r \in granted /\ room[ch] = Free
  /\ granted' = granted \ {r}
  /\ room' = [room EXCEPT ![ch] = r]
  /\ UNCHANGED claim

\* A granted run is turned away; its claim goes with it, unless the write that
\* gives it up fails.
Refuse(r) ==
  /\ r \in granted
  /\ granted' = granted \ {r}
  /\ \/ claim' = [ch \in Chats |-> IF claim[ch] = r THEN NoRun ELSE claim[ch]]
     \/ UNCHANGED claim
  /\ UNCHANGED room

Settle(ch) ==
  /\ claim[ch] # NoRun
  /\ claim' = [claim EXCEPT ![ch] = NoRun]
  /\ UNCHANGED <<granted, room>>

Occupy(ch) ==
  /\ room[ch] = Free
  /\ room' = [room EXCEPT ![ch] = User]
  /\ UNCHANGED <<claim, granted>>

Vacate(ch) ==
  /\ room[ch] # Free
  /\ room' = [room EXCEPT ![ch] = Free]
  /\ UNCHANGED <<claim, granted>>

\* The process dies: every run is over, the claims stay for the next start.
Restart ==
  /\ granted' = {}
  /\ room' = [ch \in Chats |-> Free]
  /\ UNCHANGED claim

Next ==
  \/ \E ch \in Chats, r \in RunIds : Grant(ch, r) \/ Enter(ch, r)
  \/ \E r \in RunIds : Refuse(r)
  \/ \E ch \in Chats : Settle(ch) \/ Occupy(ch) \/ Vacate(ch)
  \/ Restart

Spec == Init /\ [][Next]_vars
====
