---- MODULE WorkspaceFeed ----
\* How a browser's list of chats and projects follows the stores.  A
\* repository publishes what it has written (service/notifying_
\* repositories.go), the workspace hub hands it to every subscription
\* (service/workspacehub), a socket sends a snapshot and then the events
\* its user may see (transport/ws/workspace_socket.go), and the browser
\* applies them (workspaceStore.ts).  Nothing orders two publications of
\* the same record, and a membership is changed without publishing.
\*
\* One browser, and one project that stands for all: no code relates two.
EXTENDS Naturals, Sequences, FiniteSets

CONSTANTS
  Topics,           \* chats
  LooseTopics,      \* those bound to no project
  Room,             \* the project
  MaxEditors,       \* how many may be writing at the same time
  WorkspaceBuffer,  \* subscriptionBuffer
  MaxEdits,         \* bound on writes and runs
  MaxFeedFaults,    \* bound on broken connections and failing reads
  MaxMoves,         \* bound on changes of the membership
  IdleEdit

ASSUME RoomAssumption == LooseTopics \subseteq Topics /\ Room \notin Topics

VARIABLES
  kept,        \* record -> its edition; 0 before it is made or after it is deleted
  wasDeleted,  \* records that were deleted: an id is not used again
  going,       \* the chats the run hub calls running
  member,      \* the user is in the project
  admin,       \* the user is an administrator
  edit,        \* editor -> what it has yet to publish
  socket,      \* the browser's connection: [at, chats, allowed]
  line,        \* its subscription's buffer
  shownFeed,   \* record -> what the browser shows
  edits, feedFaults, moves,
  \* What the properties compare with.
  tangled,     \* records published by two at once since they were last published alone
  unseen,      \* chats of the project that were not sent since it was let in
  untold       \* the membership changed since the socket last asked for it

feedGhosts == <<tangled, unseen, untold>>
storeVars == <<kept, wasDeleted, going, member, admin>>
workspaceVars == <<storeVars, edit, socket, line, shownFeed, edits, feedFaults, moves, feedGhosts>>

Editors == 1..MaxEditors
Records == Topics \cup {Room}
Housed == Topics \ LooseTopics
Missing == [v |-> 0, run |-> FALSE]
StoredRecords(r) == [v |-> kept[r], run |-> kept[r] > 0 /\ r \in going]
Socketless == [at |-> "closed", chats |-> [t \in Topics |-> Missing], allowed |-> FALSE]

----
\* Writing, and then publishing: notifying_repositories.go.

Takes(w, r, job) ==
  /\ edit[w] = IdleEdit /\ edits < MaxEdits
  /\ \A o \in 1..(w - 1) : edit[o] # IdleEdit
  /\ edits' = edits + 1
  /\ edit' = [edit EXCEPT ![w] = job]
  /\ tangled' = IF {o \in Editors : edit[o] # IdleEdit /\ edit[o].r = r} # {} THEN tangled \cup {r}
                ELSE IF job.at = "look" /\ kept[r] = 0 THEN tangled   \* it will publish nothing
                ELSE tangled \ {r}
  /\ UNCHANGED <<member, admin, socket, line, shownFeed, feedFaults, moves, unseen, untold>>

Written(r, own) == [at |-> IF r = Room THEN "ready" ELSE "written", r |-> r, v |-> kept[r] + 1, run |-> FALSE, own |-> own]
Lookup(r) == [at |-> "look", r |-> r, v |-> 0, run |-> FALSE, own |-> FALSE]

\* Create; the browser that asked for a chat shows the response as well.
CreateRecord(w, r, own) ==
  /\ kept[r] = 0 /\ r \notin wasDeleted
  /\ own => r # Room
  /\ kept' = [kept EXCEPT ![r] = 1]
  /\ Takes(w, r, Written(r, own))
  /\ UNCHANGED <<wasDeleted, going>>

\* Update, and SetStatus of a project.
UpdateStored(w, r) ==
  /\ kept[r] > 0
  /\ kept' = [kept EXCEPT ![r] = @ + 1]
  /\ Takes(w, r, Written(r, FALSE))
  /\ UNCHANGED <<wasDeleted, going>>

DeleteRecord(w, r) ==
  /\ kept[r] > 0
  /\ kept' = [kept EXCEPT ![r] = 0]
  /\ wasDeleted' = wasDeleted \cup {r}
  /\ Takes(w, r, [Lookup(r) EXCEPT !.at = "ready"])
  /\ UNCHANGED going

\* AppendEvent of a kind that eventUpdatesWorkspace names, TruncateEventsBefore.
AppendToChat(w, t) ==
  /\ kept[t] > 0
  /\ kept' = [kept EXCEPT ![t] = @ + 1]
  /\ Takes(w, t, Lookup(t))
  /\ UNCHANGED <<wasDeleted, going>>

\* The hub tells the subscriber of services.go that a run began or ended.
RunChanges(w, t) ==
  /\ kept[t] > 0 \/ t \in going
  /\ going' = IF t \in going THEN going \ {t} ELSE going \cup {t}
  /\ Takes(w, t, Lookup(t))
  /\ UNCHANGED <<kept, wasDeleted>>

\* publishChat: Get.
LooksUp(w) ==
  /\ edit[w] # IdleEdit /\ edit[w].at = "look"
  /\ edit' = [edit EXCEPT ![w] = IF kept[@.r] = 0 THEN IdleEdit
                                 ELSE [@ EXCEPT !.at = "written", !.v = kept[edit[w].r]]]
  /\ UNCHANGED <<storeVars, socket, line, shownFeed, edits, feedFaults, moves, feedGhosts>>

\* withRunning.
AsksRunning(w) ==
  /\ edit[w] # IdleEdit /\ edit[w].at = "written"
  /\ edit' = [edit EXCEPT ![w] = [@ EXCEPT !.at = "ready", !.run = edit[w].r \in going]]
  /\ UNCHANGED <<storeVars, socket, line, shownFeed, edits, feedFaults, moves, feedGhosts>>

\* A buffer that is full loses the event and stays subscribed.
Offer_Slip(ev) ==
  /\ line' = IF Len(line) < WorkspaceBuffer THEN Append(line, ev) ELSE line
  /\ UNCHANGED socket

\* Publish: a subscription whose buffer is full is removed and closed.
Offer(ev) ==
  IF socket.at \in {"closed", "cut"} THEN UNCHANGED <<line, socket>>
  ELSE IF Len(line) < WorkspaceBuffer THEN line' = Append(line, ev) /\ UNCHANGED socket
  ELSE socket' = [socket EXCEPT !.at = "cut"] /\ UNCHANGED line

PublishEdit(w) ==
  /\ edit[w] # IdleEdit /\ edit[w].at = "ready"
  /\ Offer([r |-> edit[w].r, v |-> edit[w].v, run |-> edit[w].run])
  /\ edit' = [edit EXCEPT ![w] = IF @.own THEN [@ EXCEPT !.at = "response"] ELSE IdleEdit]
  /\ UNCHANGED <<storeVars, shownFeed, edits, feedFaults, moves, feedGhosts>>

\* seedChat: the response takes the same door as the event it announces.
SeedChat(w) ==
  /\ edit[w] # IdleEdit /\ edit[w].at = "response"
  /\ shownFeed' = [shownFeed EXCEPT ![edit[w].r] = [v |-> edit[w].v, run |-> edit[w].run]]
  /\ edit' = [edit EXCEPT ![w] = IdleEdit]
  /\ UNCHANGED <<storeVars, socket, line, edits, feedFaults, moves, feedGhosts>>

\* AddAccess and RemoveAccess write the access store only.
ChangeMembership ==
  /\ moves < MaxMoves /\ ~admin
  /\ moves' = moves + 1
  /\ member' = ~member
  /\ untold' = TRUE
  /\ UNCHANGED <<kept, wasDeleted, going, admin, edit, socket, line, shownFeed, edits, feedFaults, tangled, unseen>>

----
\* The socket.

\* Only then is the snapshot read, so that nothing falls between.
SubscribeFeed ==
  /\ socket.at = "closed"
  /\ socket' = [Socketless EXCEPT !.at = "subscribed"]
  /\ line' = <<>>
  /\ tangled' = {r \in tangled : {w \in Editors : edit[w] # IdleEdit /\ edit[w].r = r} # {}}
  /\ UNCHANGED <<storeVars, edit, shownFeed, edits, feedFaults, moves, unseen, untold>>

\* chats.List: the records, and then what the hub says of each.
ListRecords ==
  /\ socket.at = "subscribed"
  /\ socket' = [socket EXCEPT !.at = "listed", !.chats = [t \in Topics |-> [v |-> kept[t], run |-> FALSE]]]
  /\ UNCHANGED <<storeVars, edit, line, shownFeed, edits, feedFaults, moves, feedGhosts>>

ListRunning ==
  /\ socket.at = "listed"
  /\ socket' = [socket EXCEPT !.at = "chats",
                              !.chats = [t \in Topics |-> IF @[t].v = 0 THEN Missing ELSE [@[t] EXCEPT !.run = t \in going]]]
  /\ UNCHANGED <<storeVars, edit, line, shownFeed, edits, feedFaults, moves, feedGhosts>>

HasAccess == admin \/ member

\* projects.List, filterProjects, filterChats and the snapshot, which the
\* browser puts in place of all it shows.
SendSnapshot ==
  /\ socket.at = "chats"
  /\ LET let == kept[Room] > 0 /\ HasAccess
         sees(t) == admin \/ t \in LooseTopics \/ let
     IN /\ socket' = [socket EXCEPT !.at = "open", !.allowed = let, !.chats = Socketless.chats]
        /\ shownFeed' = [r \in Records |->
                           IF r = Room THEN IF let THEN StoredRecords(r) ELSE Missing
                           ELSE IF sees(r) THEN socket.chats[r] ELSE Missing]
        /\ unseen' = {}
        /\ untold' = FALSE
  /\ UNCHANGED <<storeVars, edit, line, edits, feedFaults, moves, tangled>>

\* filterEvent with the project forgotten in the set when it is let in.
Allowed_Slip(ev) == socket.allowed

\* The set of projects after the event.
Allowed(ev) ==
  IF ev.r # Room THEN socket.allowed
  ELSE ev.v > 0 /\ HasAccess

\* What of the event is sent: the event, a delete in its place, or nothing.
Filtered(ev) ==
  IF admin \/ ev.v = 0 THEN <<ev>>
  ELSE IF ev.r = Room
    THEN IF HasAccess THEN <<ev>>
         ELSE IF socket.allowed THEN <<[r |-> Room, v |-> 0, run |-> FALSE]>> ELSE <<>>
  ELSE IF ev.r \in LooseTopics \/ socket.allowed THEN <<ev>> ELSE <<>>

\* apply of workspaceStore.ts: upserts and deletes by id.
SendEvent ==
  /\ socket.at \in {"open", "cut"} /\ line # <<>>
  /\ LET ev == Head(line)
         sent == Filtered(ev)
         admitted == ev.r = Room /\ sent # <<>> /\ sent[1].v > 0 /\ shownFeed[Room].v = 0
     IN /\ line' = Tail(line)
        /\ socket' = [socket EXCEPT !.allowed = Allowed(ev)]
        /\ shownFeed' = IF sent = <<>> THEN shownFeed
                        ELSE [shownFeed EXCEPT ![ev.r] = [v |-> sent[1].v, run |-> sent[1].run]]
        /\ unseen' = IF admitted THEN Housed ELSE unseen \ {ev.r}
        /\ untold' = IF ev.r = Room THEN FALSE ELSE untold
  /\ UNCHANGED <<storeVars, edit, edits, feedFaults, moves, tangled>>

\* The channel is closed and drained: the handler returns.
CutEnds ==
  /\ socket.at = "cut" /\ line = <<>>
  /\ socket' = Socketless
  /\ UNCHANGED <<storeVars, edit, line, shownFeed, edits, feedFaults, moves, feedGhosts>>

\* A list that cannot be read, a write that fails, a browser that is offline:
\* the browser keeps what it shows and connects again.
ConnectionBreaks ==
  /\ socket.at # "closed" /\ feedFaults < MaxFeedFaults
  /\ feedFaults' = feedFaults + 1
  /\ socket' = Socketless
  /\ line' = <<>>
  /\ UNCHANGED <<storeVars, edit, shownFeed, edits, moves, feedGhosts>>

----
FeedInit ==
  /\ kept = [r \in Records |-> IF r = Room \/ r \in LooseTopics THEN 1 ELSE 0]
  /\ wasDeleted = {} /\ going = {}
  /\ member \in BOOLEAN /\ admin \in BOOLEAN
  /\ edit = [w \in Editors |-> IdleEdit]
  /\ socket = Socketless /\ line = <<>>
  /\ shownFeed = [r \in Records |-> Missing]
  /\ edits = 0 /\ feedFaults = 0 /\ moves = 0
  /\ tangled = {} /\ unseen = {} /\ untold = FALSE

FeedWrites ==
  \E w \in Editors :
    \/ \E r \in Records : \/ \E own \in BOOLEAN : CreateRecord(w, r, own)
                          \/ UpdateStored(w, r) \/ DeleteRecord(w, r)
    \/ \E t \in Topics : AppendToChat(w, t) \/ RunChanges(w, t)

Publishing == \E w \in Editors : LooksUp(w) \/ AsksRunning(w) \/ PublishEdit(w) \/ SeedChat(w)
Serving == SubscribeFeed \/ ListRecords \/ ListRunning \/ SendSnapshot \/ SendEvent \/ CutEnds

FeedNext == FeedWrites \/ Publishing \/ ChangeMembership \/ Serving \/ ConnectionBreaks

FeedSpec == FeedInit /\ [][FeedNext]_workspaceVars

----
FeedTypeOK ==
  /\ kept \in [Records -> 0..(MaxEdits + 1)] /\ wasDeleted \subseteq Records /\ going \subseteq Topics
  /\ socket.at \in {"closed", "subscribed", "listed", "chats", "open", "cut"}
  /\ Len(line) <= WorkspaceBuffer
  /\ \A r \in Records : shownFeed[r].v \in 0..(MaxEdits + 1)
  /\ tangled \subseteq Records /\ unseen \subseteq Housed

FeedQuiet ==
  /\ socket.at = "open" /\ line = <<>>
  /\ \A w \in Editors : edit[w] = IdleEdit

\* When all that was written is published and sent, the browser shows every
\* record as it is stored, the runs included, whatever was written while the
\* snapshot was read, overflowed the buffer or broke the connection: all but a
\* record that two published at once, and the chats of a project the user was
\* let into after the snapshot until they change.  Nothing orders two writers
\* after they have written (notifying_repositories.go:35-45).
ShowsTheStore ==
  FeedQuiet =>
    \A t \in Topics \ tangled :
      \/ shownFeed[t] = StoredRecords(t)
      \/ /\ ~admin /\ t \notin LooseTopics
         /\ t \in unseen \/ ~member \/ untold \/ kept[Room] = 0 \/ Room \in tangled

\* The project is shown exactly while the user is in it, once one of its writes
\* was published after the membership changed (workspace_socket.go:167-189).
ShowsTheProject ==
  (FeedQuiet /\ Room \notin tangled) =>
    /\ shownFeed[Room].v \in {0, kept[Room]}
    /\ ~untold => (shownFeed[Room].v > 0 <=> kept[Room] > 0 /\ HasAccess)

\* Once a write of the project told the socket that the user is out of it, or that
\* it is gone, no chat of it is let through, whatever was let through before and
\* in whichever order memberships, writes and events came (workspace_socket.go:177-186).
HidesOnceTold ==
  (FeedQuiet /\ Room \notin tangled /\ ~untold /\ ~admin) => (socket.allowed => kept[Room] > 0 /\ member)

FeedInvariant == FeedTypeOK /\ ShowsTheStore /\ ShowsTheProject /\ HidesOnceTold

\* Not a property of the code: RemoveAccess publishes nothing, so a user who was
\* taken out of the project is sent its chats until one of its writes is
\* published, and goes on being shown those that were sent.
HidesTheProject == (FeedQuiet /\ ~admin /\ ~member) => \A t \in Housed : shownFeed[t] = Missing

\* Once nothing more is written the browser comes to show what is stored, and goes
\* on showing it: a subscription that was cut off does not leave it behind.
FeedSettles == <>[](FeedQuiet /\ ShowsTheStore /\ ShowsTheProject)
====
