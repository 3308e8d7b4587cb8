---- MODULE EventLog ----
\* The event log of a chat: stores/filechat with its process-local index
\* of offsets and turns, and the projection of whole turns that
\* service/chat pages through.
\*
\* A file is a sequence of lines; only the last may lack its newline.  A
\* record is two bytes of JSON and a newline, which is as much of bytes as
\* a write that stops half-way can tell apart.  The 64-bit fingerprint of
\* the indexed bytes is the lines themselves: it never collides.  An
\* operation holds the lock of its chat throughout and is one step.
EXTENDS Naturals, Sequences, SequencesExt

CONSTANTS
  Chats,       \* chat ids
  Histories,   \* contents of events.jsonl at first, or of a chat that is forked
  MaxMinted,   \* bound: events ever produced
  MaxClock,    \* bound of the clock that stamps events
  MaxMishaps,  \* bound: write errors, crashes and outside edits
  Mishaps      \* which of them happen

ASSUME EventLogAssumption ==
  /\ MaxMinted \in Nat /\ MaxClock \in Nat \ {0} /\ MaxMishaps \in Nat
  /\ Mishaps \subseteq {"short", "crash", "outside"}

VARIABLES
  file,     \* the lines of events.jsonl
  touched,  \* its modification time is not the one the index has seen
  index,    \* the cached index of the chat
  place,    \* absent, there or deleted
  run,      \* the turn of the chat's run, 0 when the room is free
  cut,      \* the timestamp of a rewind that found the chat idle
  fork,     \* the fork under way: where to, the events, how many are copied
  minted,   \* events produced
  clock,    \* the time
  mishaps,  \* mishaps left
  acked,    \* history: what AppendEvent returned for the events of the chat
  handed    \* history: the largest number it returned since the last rewind

fileVars == <<file, touched, index>>
logVars == <<fileVars, place, run, cut, fork, minted, clock, mishaps, acked, handed>>

\* What tells events apart: the number of the turn (0: written before turns had
\* ids), whether it is a prompt, and which event it is.
Event(seq, id, t, turn, user) ==
  [seq |-> seq, id |-> id, t |-> t, turn |-> turn, user |-> user]

Line(event, ok, bytes, whole) ==
  [event |-> event, ok |-> ok, bytes |-> bytes, whole |-> whole]
RecordBytes == 3

\* From the left; a recursive function, which TLC evaluates faster than FoldLeft.
Over(op(_, _), base, seq) ==
  LET upTo[i \in 0..Len(seq)] == IF i = 0 THEN base ELSE op(upTo[i - 1], seq[i])
  IN  upTo[Len(seq)]

Bytes(lines) == Over(LAMBDA n, l : n + l.bytes, 0, lines)

----
\* Reading the file.

\* scanEventsFile: a record without a sequence number gets its line number;
\* a line that does not parse is skipped and counted.
Scan(lines) ==
  LET numbered == [i \in DOMAIN lines |->
                    [lines[i] EXCEPT !.event.seq = IF @ = 0 THEN i ELSE @]]
      readable == SelectSeq(numbered, LAMBDA l : l.ok)
  IN  [i \in DOMAIN readable |-> readable[i].event]

LastSeqOf(events) == Over(LAMBDA n, e : IF e.seq > n THEN e.seq ELSE n, 0, events)

\* The shared boundary rule for the projection and the index.
EventStartsTranscriptTurn(turn, hasUser, event) ==
  IF event.turn # 0
  THEN IF turn # 0 THEN turn # event.turn ELSE hasUser
  ELSE event.user /\ (hasUser \/ turn # 0)

----
\* The index.

NewIndex == [bytes |-> 0, prefix |-> <<>>, whole |-> TRUE, lastSeq |-> 0,
             events |-> <<>>, turns |-> <<>>, turn |-> 0, hasUser |-> FALSE]

\* One more line: its location, and the turn it belongs to.
IndexEventRecord(st, line) ==
  LET at == Len(st.prefix) + 1
      event == IF line.event.seq = 0 THEN [line.event EXCEPT !.seq = at] ELSE line.event
      n == Len(st.events) + 1
      starts == st.turns = <<>> \/ EventStartsTranscriptTurn(st.turn, st.hasUser, event)
      read == [st EXCEPT !.prefix = Append(@, line), !.whole = line.whole,
                         !.lastSeq = IF event.seq > @ THEN event.seq ELSE @,
                         !.events = Append(@, [line |-> at, seq |-> event.seq])]
  IN CASE ~line.ok -> [st EXCEPT !.prefix = Append(@, line), !.whole = line.whole]
       [] line.ok /\ starts ->
            [read EXCEPT !.turns = Append(@, [first |-> n, end |-> n, startSeq |-> event.seq]),
                         !.turn = event.turn, !.hasUser = event.user]
       [] OTHER ->
            [read EXCEPT !.turns[Len(st.turns)].end = n,
                         !.turn = IF @ = 0 THEN event.turn ELSE @,
                         !.hasUser = @ \/ event.user]

BuildChatIndexTail(st, lines) ==
  Over(IndexEventRecord, st, SubSeq(lines, Len(st.prefix) + 1, Len(lines)))

ChatIndexPrefixMatches(st, lines) == IsPrefix(st.prefix, lines)

\* When the cached state cannot be extended.  A trusted append was made under
\* the lock on a file that had just been validated.
\* (Slip: an incomplete last line is extended like any other.)
MustRebuild_Slip(st, lines, changed, trusted) ==
  LET size == Bytes(lines)
  IN \/ st.bytes > size
     \/ st.bytes = size /\ changed
     \/ st.bytes < size /\ ~trusted /\ st.whole /\ ~ChatIndexPrefixMatches(st, lines)

MustRebuild(st, lines, changed, trusted) ==
  LET size == Bytes(lines)
  IN \/ st.bytes > size
     \/ st.bytes = size /\ changed
     \/ st.bytes < size /\ ~st.whole
     \/ st.bytes < size /\ ~trusted /\ ~ChatIndexPrefixMatches(st, lines)

SyncChat(st, lines, changed, trusted) ==
  LET rebuild == MustRebuild(st, lines, changed, trusted)
      base == IF rebuild THEN NewIndex ELSE st
      next == BuildChatIndexTail(base, lines)
  IN  IF ~rebuild /\ st.bytes = Bytes(lines) THEN st
      ELSE [next EXCEPT !.bytes = Bytes(lines)]

----
\* Indexed reads: locations, and the events read at them.

ReadIndexedEvents(lines, locations) ==
  LET at(i) == lines[locations[i].line]
      readable == SelectSeq([i \in DOMAIN locations |->
                    [at(i) EXCEPT !.event.seq = IF @ = 0 THEN locations[i].seq ELSE @]],
                    LAMBDA l : l.ok)
  IN  [i \in DOMAIN readable |-> readable[i].event]

EventLocationsAfter(st, after) == SelectSeq(st.events, LAMBDA l : l.seq > after)

EventPageLocations(st, before, limit) ==
  LET older == SelectSeq(st.events, LAMBDA l : before = 0 \/ l.seq < before)
      n == Len(older)
  IN  [locations |-> SubSeq(older, (IF n > limit THEN n - limit ELSE 0) + 1, n),
       more |-> n > limit]

\* The page's turns and one older turn, which tells whether there is more.
\* (Slip: only the turns asked for.)
TranscriptLocations_Slip(st, before, limit) ==
  LET chosen == SelectSeq(st.turns, LAMBDA t : before = 0 \/ t.startSeq < before)
      n == Len(chosen)
      first == IF n > limit THEN n - limit + 1 ELSE 1
  IN  IF n = 0 THEN <<>> ELSE SubSeq(st.events, chosen[first].first, chosen[n].end)

TranscriptLocations(st, before, limit) ==
  LET chosen == SelectSeq(st.turns, LAMBDA t : before = 0 \/ t.startSeq < before)
      n == Len(chosen)
      first == IF n > limit + 1 THEN n - limit ELSE 1
  IN  IF n = 0 THEN <<>> ELSE SubSeq(st.events, chosen[first].first, chosen[n].end)

----
\* The projection into turns.

NoTurn == [id |-> 0, hasUser |-> FALSE, events |-> <<>>]
NewProjection(before, limit) ==
  [before |-> before, limit |-> limit, lastSeq |-> 0, more |-> FALSE, turns |-> <<>>,
   current |-> NoTurn]

\* (Slip: the oldest turn is pushed out and nobody is told that there is more.)
FlushCurrent_Slip(p) ==
  IF p.current.events = <<>> THEN p
  ELSE [p EXCEPT !.turns = IF Len(@) = p.limit THEN Append(Tail(@), p.current.events)
                           ELSE Append(@, p.current.events),
                 !.current = NoTurn]

FlushCurrent(p) ==
  IF p.current.events = <<>> THEN p
  ELSE [p EXCEPT !.turns = IF Len(@) = p.limit THEN Append(Tail(@), p.current.events)
                           ELSE Append(@, p.current.events),
                 !.more = @ \/ Len(p.turns) = p.limit,
                 !.current = NoTurn]

Visit(p, event) ==
  LET seen == [p EXCEPT !.lastSeq = IF event.seq > @ THEN event.seq ELSE @]
      starts == /\ p.current.events # <<>>
                /\ EventStartsTranscriptTurn(p.current.id, p.current.hasUser, event)
      open == IF starts THEN FlushCurrent(seen) ELSE seen
  IN  IF p.before > 0 /\ event.seq >= p.before THEN seen
      ELSE [open EXCEPT !.current.id = IF @ = 0 THEN event.turn ELSE @,
                        !.current.hasUser = @ \/ event.user,
                        !.current.events = Append(@, event)]

\* Coalescing of adjacent deltas is left out: it changes no cursor.
Page(p) ==
  LET done == FlushCurrent(p)
  IN  [turns |-> done.turns, lastSeq |-> done.lastSeq, more |-> done.more,
       next |-> IF done.more THEN done.turns[1][1].seq ELSE 0]

\* TranscriptPage over the window of the index.
TranscriptPage(st, lines, before, limit) ==
  LET window == ReadIndexedEvents(lines, TranscriptLocations(st, before, limit))
      start == [NewProjection(before, limit) EXCEPT !.lastSeq = st.lastSeq]
  IN  Page(Over(Visit, start, window))

\* ... and over the complete stream, as it was before there was an index.
ScannedPage(lines, before, limit) ==
  Page(Over(Visit, NewProjection(before, limit), Scan(lines)))

\* What the store answers without the index.
ReadEventsAfterFile(lines, after) == SelectSeq(Scan(lines), LAMBDA e : e.seq > after)

ReadEventsPageFile(lines, before, limit) ==
  LET candidates == SelectSeq(Scan(lines), LAMBDA e : before = 0 \/ e.seq < before)
      n == Len(candidates)
  IN  [events |-> SubSeq(candidates, (IF n > limit THEN n - limit ELSE 0) + 1, n),
       more |-> n > limit]

----
\* Writing.

\* What a write of n of the record's bytes leaves: it continues a last line that
\* has no newline, and then neither record parses.
\* (Slips: a new line is begun, whatever the last one lacks; the file is not
\* opened for appending.)
Written_Torn(lines, event, n) ==
  IF n = 0 THEN lines ELSE Append(lines, Line(event, n > 1, n, n = RecordBytes))

Written_Slip(lines, event, n) ==
  IF n = 0 THEN lines ELSE <<Line(event, n > 1, n, n = RecordBytes)>>

Written(lines, event, n) ==
  CASE n = 0 -> lines
    [] n > 0 /\ (lines = <<>> \/ Last(lines).whole) ->
         Append(lines, Line(event, n > 1, n, n = RecordBytes))
    [] OTHER -> Append(Front(lines),
                       Line(event, FALSE, Last(lines).bytes + n, n = RecordBytes))

\* The event and the number AppendEvent gives it.
\* (Slip: the cached index is believed without a look at the file.)
Numbered_Slip(c, event) == [event EXCEPT !.seq = index[c].lastSeq + 1]

Numbered(c, event) ==
  [event EXCEPT !.seq = SyncChat(index[c], file[c], touched[c], FALSE).lastSeq + 1]

\* Sync, write, extend the index; an error leaves the index at the first sync.
AppendTo(c, event, n) ==
  LET before == SyncChat(index[c], file[c], touched[c], FALSE)
      lines == Written(file[c], Numbered(c, event), n)
  IN  /\ file' = [file EXCEPT ![c] = lines]
      /\ touched' = [touched EXCEPT ![c] = n \in 1..(RecordBytes - 1)]
      /\ index' = [index EXCEPT ![c] = IF n = RecordBytes
                                       THEN SyncChat(before, lines, TRUE, TRUE) ELSE before]

\* A record that is written onto an unfinished line is acknowledged and lost.
Acknowledge(c, event) ==
  /\ acked' = [acked EXCEPT ![c] =
                 IF file[c] # <<>> /\ ~Last(file[c]).whole
                 THEN @ ELSE @ \cup {Numbered(c, event)}]
  /\ handed' = [handed EXCEPT ![c] = IF Numbered(c, event).seq > @
                                     THEN Numbered(c, event).seq ELSE @]

----
LogInit ==
  /\ \E old \in [Chats -> Histories \cup {<<>>}] :
       /\ file = old
       /\ place \in [Chats -> {"there", "absent"}]
       /\ \A c \in Chats : place[c] = "absent" => old[c] = <<>>
  /\ touched = [c \in Chats |-> FALSE]
  /\ index = [c \in Chats |-> NewIndex]
  /\ run = [c \in Chats |-> 0]
  /\ cut = [c \in Chats |-> 0]
  /\ fork = <<>>
  /\ minted = 0 /\ clock = 1 /\ mishaps = MaxMishaps
  /\ acked = [c \in Chats |-> {}]
  /\ handed = [c \in Chats |-> 0]

Mishap(kind) ==
  /\ kind \in Mishaps /\ mishaps > 0
  /\ mishaps' = mishaps - 1

\* A run takes the room; its turn has the number of its first event.
BeginRun(c) ==
  /\ place[c] = "there" /\ run[c] = 0 /\ minted < MaxMinted
  /\ run' = [run EXCEPT ![c] = minted + 1]
  /\ UNCHANGED <<fileVars, place, cut, fork, minted, clock, mishaps, acked, handed>>

\* An event of the run; the first is the prompt.
EmitOf(c) == Event(0, minted + 1, clock, run[c], run[c] = minted + 1)

AppendEvent(c) ==
  /\ place[c] = "there" /\ run[c] # 0 /\ minted < MaxMinted
  /\ AppendTo(c, EmitOf(c), RecordBytes)
  /\ Acknowledge(c, EmitOf(c))
  /\ minted' = minted + 1
  /\ clock' \in {clock, clock + 1} \cap 1..MaxClock
  /\ UNCHANGED <<place, run, cut, fork, mishaps>>

\* The disk is full: the caller gets an error, and part of the record is there.
AppendFails(c) ==
  /\ place[c] = "there" /\ run[c] # 0 /\ minted < MaxMinted
  /\ Mishap("short")
  /\ \E n \in 0..(RecordBytes - 1) : AppendTo(c, EmitOf(c), n)
  /\ minted' = minted + 1
  /\ UNCHANGED <<place, run, cut, fork, clock, acked, handed>>

EndRun(c) ==
  /\ run[c] # 0
  /\ run' = [run EXCEPT ![c] = 0]
  /\ UNCHANGED <<fileVars, place, cut, fork, minted, clock, mishaps, acked, handed>>

\* The process dies, perhaps in the middle of an append.
Crash ==
  /\ Mishap("crash")
  /\ \/ UNCHANGED <<file, minted>>
     \/ \E c \in Chats, n \in 1..RecordBytes :
          /\ place[c] = "there" /\ run[c] # 0 /\ minted < MaxMinted
          /\ file' = [file EXCEPT ![c] = Written(@, Numbered(c, EmitOf(c)), n)]
          /\ minted' = minted + 1
  /\ index' = [c \in Chats |-> NewIndex]
  /\ touched' = [c \in Chats |-> FALSE]
  /\ run' = [c \in Chats |-> 0]
  /\ cut' = [c \in Chats |-> 0]
  /\ fork' = <<>>
  /\ UNCHANGED <<place, clock, acked, handed>>

\* A page or replay is read: the index is brought up to date.
Read(c) ==
  /\ place[c] = "there"
  /\ index' = [index EXCEPT ![c] = SyncChat(@, file[c], touched[c], FALSE)]
  /\ touched' = [touched EXCEPT ![c] = FALSE]
  /\ UNCHANGED <<file, place, run, cut, fork, minted, clock, mishaps, acked, handed>>

\* The least recently used index makes room for another, or a build is cancelled.
Evict(c) ==
  /\ index[c] # NewIndex
  /\ index' = [index EXCEPT ![c] = NewIndex]
  /\ touched' = [touched EXCEPT ![c] = FALSE]
  /\ UNCHANGED <<file, place, run, cut, fork, minted, clock, mishaps, acked, handed>>

\* Somebody edits the file: a line goes, and records follow it.
OutsideEdit(c) ==
  /\ place[c] = "there" /\ file[c] # <<>> /\ Last(file[c]).whole
  /\ Mishap("outside")
  /\ \E i \in DOMAIN file[c], n \in 0..2 :
       LET kept == RemoveAt(file[c], i)
           last == LastSeqOf(Scan(kept))
           added == [k \in 1..n |-> Line(Event(last + k, MaxMinted + k, clock, 0, k = 1),
                                         TRUE, RecordBytes, TRUE)]
           lines == kept \o added
       IN  /\ file' = [file EXCEPT ![c] = lines]
           /\ acked' = [acked EXCEPT ![c] = @ \cap ToSet(Scan(lines))]
  /\ touched' = [touched EXCEPT ![c] = TRUE]
  /\ UNCHANGED <<index, place, run, cut, fork, minted, clock, handed>>

\* Service.Rewind asks whether a run holds the chat ...
Rewind(c) ==
  /\ place[c] = "there" /\ run[c] = 0 /\ cut[c] = 0
  /\ \E i \in DOMAIN Scan(file[c]) : cut' = [cut EXCEPT ![c] = Scan(file[c])[i].t]
  /\ UNCHANGED <<fileVars, place, run, fork, minted, clock, mishaps, acked, handed>>

\* ... and the store rewrites the file with the records of before that time.
TruncateEventsBefore(c) ==
  /\ place[c] = "there" /\ cut[c] # 0
  /\ LET kept == SelectSeq(Scan(file[c]), LAMBDA e : e.t < cut[c])
         lines == [i \in DOMAIN kept |-> Line(kept[i], TRUE, RecordBytes, TRUE)]
     IN  /\ file' = [file EXCEPT ![c] = lines]
         /\ touched' = [touched EXCEPT ![c] = FALSE]
         /\ index' = [index EXCEPT ![c] = SyncChat(NewIndex, lines, TRUE, FALSE)]
         /\ acked' = [acked EXCEPT ![c] = {e \in @ : e.t < cut[c]}]
  /\ handed' = [handed EXCEPT ![c] = 0]
  /\ cut' = [cut EXCEPT ![c] = 0]
  /\ UNCHANGED <<place, run, fork, minted, clock, mishaps>>

\* The run is told to stop, and the directory goes: later appends fail.
Delete(c) ==
  /\ place[c] = "there"
  /\ place' = [place EXCEPT ![c] = "deleted"]
  /\ file' = [file EXCEPT ![c] = <<>>]
  /\ index' = [index EXCEPT ![c] = NewIndex]
  /\ acked' = [acked EXCEPT ![c] = {}]
  /\ UNCHANGED <<touched, run, cut, fork, minted, clock, mishaps, handed>>

\* Fork has read another chat's log, without its lock, and creates the copy ...
Fork(c, source) ==
  /\ place[c] = "absent" /\ fork = <<>>
  /\ place' = [place EXCEPT ![c] = "there"]
  /\ fork' = <<[to |-> c, source |-> Scan(source), copied |-> 0]>>
  /\ UNCHANGED <<fileVars, run, cut, minted, clock, mishaps, acked, handed>>

\* ... then appends the events one by one; the copy is in the chat list and can
\* be used meanwhile.
AppendCopiedEvent ==
  /\ fork # <<>> /\ fork[1].copied < Len(fork[1].source)
  /\ LET d == fork[1].to
         event == fork[1].source[fork[1].copied + 1]
     IN  /\ place[d] = "there"
         /\ AppendTo(d, event, RecordBytes)
         /\ Acknowledge(d, event)
  /\ fork' = [fork EXCEPT ![1].copied = @ + 1]
  /\ UNCHANGED <<place, run, cut, minted, clock, mishaps>>

ForkEnds ==
  /\ fork # <<>>
  /\ \/ fork[1].copied = Len(fork[1].source) /\ UNCHANGED mishaps
     \/ place[fork[1].to] = "deleted" /\ UNCHANGED mishaps
     \/ Mishap("short")
  /\ fork' = <<>>
  /\ UNCHANGED <<fileVars, place, run, cut, minted, clock, acked, handed>>

LogNext ==
  \/ \E c \in Chats : \/ BeginRun(c) \/ AppendEvent(c) \/ AppendFails(c) \/ EndRun(c)
                      \/ Read(c) \/ Evict(c) \/ OutsideEdit(c)
                      \/ Rewind(c) \/ TruncateEventsBefore(c) \/ Delete(c)
  \/ \E c \in Chats, source \in Histories : Fork(c, source)
  \/ AppendCopiedEvent \/ ForkEnds \/ Crash

LogSpec == LogInit /\ [][LogNext]_logVars

----
\* Properties

LogTypeOK ==
  /\ \A c \in Chats :
       /\ place[c] \in {"absent", "there", "deleted"}
       /\ run[c] \in 0..MaxMinted /\ cut[c] \in 0..MaxClock /\ touched[c] \in BOOLEAN
       /\ \A i \in DOMAIN file[c] :
            /\ file[c][i].bytes \in Nat \ {0} /\ file[c][i].ok \in BOOLEAN
            /\ file[c][i].whole \/ i = Len(file[c])
            /\ file[c][i].whole => file[c][i].bytes >= RecordBytes
       /\ index[c].bytes \in Nat /\ index[c].lastSeq \in Nat
  /\ Len(fork) <= 1
  /\ minted \in 0..MaxMinted /\ clock \in 1..MaxClock /\ mishaps \in 0..MaxMishaps

\* The index of a chat as the next read uses it.
Synced(c) == SyncChat(index[c], file[c], touched[c], FALSE)

\* The cursors a client of the chat can hold, and the page sizes.
Cursors(c) == {0, LastSeqOf(Scan(file[c])) + 1} \cup {e.seq : e \in ToSet(Scan(file[c]))}
Limits == 1..2

\* An indexed read answers exactly what a scan of the file answers, for replays
\* and for pages, whatever was appended, half-written, rewritten, evicted or
\* edited since the index was built (store.go falls back to the scan on errors,
\* so both answers reach clients).
IndexMatchesLog ==
  \A c \in Chats :
    LET st == Synced(c)
    IN  /\ st.lastSeq = LastSeqOf(Scan(file[c]))
        /\ \A after \in Cursors(c) :
             ReadIndexedEvents(file[c], EventLocationsAfter(st, after))
               = ReadEventsAfterFile(file[c], after)
        /\ \A before \in Cursors(c), limit \in Limits :
             LET page == EventPageLocations(st, before, limit)
             IN  [events |-> ReadIndexedEvents(file[c], page.locations), more |-> page.more]
                   = ReadEventsPageFile(file[c], before, limit)

\* A transcript page made from the window of the index is the page a complete
\* scan makes: same turns, same cursor, same "has more".
WindowSuffices ==
  \A c \in Chats :
    LET st == Synced(c)
    IN  \A limit \in Limits, before \in Cursors(c) :
          TranscriptPage(st, file[c], before, limit) = ScannedPage(file[c], before, limit)

\* Whoever pages backwards sees every event once: a page ends where the cursor
\* begins, and it says that there is more exactly when it does not reach the
\* first event.
PagesTile ==
  \A c \in Chats :
    LET events == Scan(file[c])
        st == Synced(c)
    IN  \A limit \in Limits :
          LET pages == {[before |-> cursor, page |-> TranscriptPage(st, file[c], cursor, limit)] :
                          cursor \in Cursors(c)}
              turnStarts == {p.page.next : p \in pages} \cup {0}
          IN  \A p \in {q \in pages : q.before \in turnStarts} :
                LET older == SelectSeq(events, LAMBDA e : p.before = 0 \/ e.seq < p.before)
                    shown == Over(LAMBDA x, y : x \o y, <<>>, p.page.turns)
                IN  /\ IsSuffix(shown, older)
                    /\ p.page.more = (shown # older)
                    /\ older # <<>> => shown # <<>>

\* Whatever a client asks for, the index and the pages answer it exactly.
ReadsExact == IndexMatchesLog /\ WindowSuffices /\ PagesTile

\* Sequence numbers increase along the file: a replay after a cursor can leave
\* nothing out and repeat nothing.
SeqsIncrease ==
  \A c \in Chats :
    LET events == Scan(file[c])
    IN  \A i \in 2..Len(events) : events[i - 1].seq < events[i].seq

\* What AppendEvent acknowledged stays readable under its number until a rewind,
\* an edit or a deletion takes it, through crashes and write errors, with one
\* exception: a record that continued a half-written line.
AckedKept ==
  \A c \in Chats : acked[c] \subseteq ToSet(Scan(file[c]))

\* The file is well formed, numbered in its order, and keeps what it acknowledged.
LogInvariant == LogTypeOK /\ SeqsIncrease /\ AckedKept

\* "Persisted events receive a monotonic seq": unless the chat was rewound, the
\* next event is numbered above every number AppendEvent has returned.
SeqsMonotonic ==
  \A c \in Chats : place[c] = "there" => Synced(c).lastSeq >= handed[c]

\* Rewind is "unavailable while running": no event of the turn that runs is
\* taken from the log.
RewindSparesRun ==
  [][\A c \in Chats :
       run[c] # 0 /\ place'[c] = "there" =>
         \A e \in ToSet(Scan(file[c])) :
           e.turn = run[c] => e \in ToSet(Scan(file'[c]))]_logVars
====
