---- MODULE UsageLedger ----
\* The usage ledger: stores/fileusage, service/usage with its rebuild, and
\* the prompt service's hook that records a finished run.
\*
\* A run ends with a complete event in its chat's log and, after that, one
\* line in the ledger's file of the month; a rebuild derives the files
\* anew from the chat logs.  Nothing orders the two.  Runs are numbered in
\* the order of their complete events (the key of a record is its chat and
\* that event's time); token counts and prices are left out, who prompted
\* is known or not.  A line that is cut is one that cannot be parsed.
EXTENDS Integers, Sequences, FiniteSets

CONSTANTS
  Chats,
  MaxRuns,    \* bound: how many runs complete
  MaxMonth,   \* bound of the calendar
  Rebuilders, \* administrators that may ask for a rebuild at once
  Unlocked,   \* nobody holds the store's write lock
  NoEvent     \* a run without a complete event

ASSUME UsageLedgerAssumption ==
  /\ MaxRuns \in Nat /\ MaxMonth \in Nat \ {0}
  /\ Unlocked \notin Rebuilders
  /\ NoEvent \notin [chat : Chats, month : Nat, kept : BOOLEAN]

VARIABLES
  month,    \* the calendar
  phase,     \* phase[r]: "going", "emitted" (its event, not its record) or "over"
  event,    \* event[r]: chat and month of the complete event, still in the log?
  ledger,   \* ledger[m]: the readable lines of a month's file
  cut,      \* cut[m]: the file ends in a line without its end
  rebuild,  \* rebuild[a]: a rebuild under way
  writer,   \* the rebuild in ReplaceAll, which holds the store's lock
  exposed   \* history: runs whose record met a rebuild, a crash or a cut line

ledgerVars == <<month, phase, event, ledger, cut, rebuild, writer, exposed>>

LedgerRuns == 1..MaxRuns
Months == 1..MaxMonth
Lines == [run : LedgerRuns, actor : BOOLEAN]

\* index: the lines it found in the ledger; todo: chats to read; found: the new
\* lines; calm (history): nothing else has happened to runs, logs and ledger.
NoRebuild == [stage |-> "idle", index |-> {}, todo |-> {}, found |-> {}, calm |-> FALSE]

LedgerInit ==
  /\ month = 1
  /\ phase = [r \in LedgerRuns |-> "going"]
  /\ event = [r \in LedgerRuns |-> NoEvent]
  /\ ledger = [m \in Months |-> <<>>]
  /\ cut = [m \in Months |-> FALSE]
  /\ rebuild = [a \in Rebuilders |-> NoRebuild]
  /\ writer = Unlocked
  /\ exposed = {}

Rebuilding == \E a \in Rebuilders : rebuild[a].stage # "idle"
Disturbed == [a \in Rebuilders |-> [rebuild[a] EXCEPT !.calm = FALSE]]
Exposing(runs) == exposed' = exposed \cup runs

\* The runs whose complete event chat c's log still holds.
Logged(c) == {r \in LedgerRuns : event[r] # NoEvent /\ event[r].chat = c /\ event[r].kept}

----
\* A run ends: the event is emitted, then the record is appended.

EmitComplete(r, c) ==
  /\ phase[r] = "going"
  /\ \A q \in 1..(r - 1) : phase[q] # "going"
  /\ phase' = [phase EXCEPT ![r] = "emitted"]
  /\ event' = [event EXCEPT ![r] = [chat |-> c, month |-> month, kept |-> TRUE]]
  /\ rebuild' = Disturbed
  /\ Exposing(IF Rebuilding THEN {r} ELSE {})
  /\ UNCHANGED <<month, ledger, cut, writer>>

\* A line that follows a cut one becomes part of it.
RecordRun(r) ==
  LET m == event[r].month
  IN /\ phase[r] = "emitted" /\ writer = Unlocked
     /\ phase' = [phase EXCEPT ![r] = "over"]
     /\ cut' = [cut EXCEPT ![m] = FALSE]
     /\ ledger' = IF cut[m] THEN ledger
                  ELSE [ledger EXCEPT ![m] = Append(@, [run |-> r, actor |-> TRUE])]
     /\ rebuild' = Disturbed
     /\ Exposing(IF Rebuilding \/ cut[m] THEN {r} ELSE {})
     /\ UNCHANGED <<month, event, writer>>

\* The line cannot be written, or not whole: the error is logged and forgotten.
RecordFails(r) ==
  LET m == event[r].month
  IN /\ phase[r] = "emitted" /\ writer = Unlocked
     /\ phase' = [phase EXCEPT ![r] = "over"]
     /\ \E short \in BOOLEAN : cut' = [cut EXCEPT ![m] = @ \/ short]
     /\ rebuild' = Disturbed
     /\ Exposing({r})
     /\ UNCHANGED <<month, event, ledger, writer>>

\* The chat is rewound to before run r, or (r its first run) deleted.
Rewind(c, r) ==
  /\ r \in Logged(c)
  /\ event' = [q \in LedgerRuns |-> IF q \in Logged(c) /\ q >= r
                                    THEN [event[q] EXCEPT !.kept = FALSE] ELSE event[q]]
  /\ rebuild' = Disturbed
  /\ UNCHANGED <<month, phase, ledger, cut, writer, exposed>>

MonthPasses ==
  /\ month < MaxMonth
  /\ month' = month + 1
  /\ UNCHANGED <<phase, event, ledger, cut, rebuild, writer, exposed>>

----
\* Rebuild

\* Of several lines with one key, which is a run's, the last.
ExistingByKey ==
  UNION {{ledger[m][i] : i \in {j \in DOMAIN ledger[m] :
                                  \A k \in (j + 1)..Len(ledger[m]) :
                                    ledger[m][k].run # ledger[m][j].run}} : m \in Months}

\* The ledger is indexed and the chats are listed.
Begin(a) ==
  /\ rebuild[a].stage = "idle" /\ writer = Unlocked
  /\ rebuild' = [Disturbed EXCEPT ![a] =
       [stage |-> "reading", index |-> ExistingByKey, todo |-> Chats, found |-> {},
        calm |-> ~Rebuilding /\ \A r \in LedgerRuns : phase[r] # "emitted"]]
  /\ Exposing({r \in LedgerRuns : phase[r] = "emitted"})
  /\ UNCHANGED <<month, phase, event, ledger, cut, writer>>

\* Mutant: the ledger that is replaced is not asked.
Rederived_Slip(a, r) == [run |-> r, actor |-> FALSE]

\* A line made from an event, with what only the ledger knows about the run.
Rederived(a, r) == [run |-> r, actor |-> [run |-> r, actor |-> TRUE] \in rebuild[a].index]

ReadChat(a, c) ==
  /\ rebuild[a].stage = "reading" /\ c \in rebuild[a].todo
  /\ rebuild' = [rebuild EXCEPT ![a].todo = @ \ {c},
                                ![a].found = @ \cup {Rederived(a, r) : r \in Logged(c)}]
  /\ UNCHANGED <<month, phase, event, ledger, cut, writer, exposed>>

\* The lines found for a month, and the file of them: in the order of their times.
FoundIn(a, m) == {line \in rebuild[a].found : event[line.run].month = m}
FilesOf(lines) ==
  {file \in [1..Cardinality(lines) -> lines] :
     \A i \in DOMAIN file : \A j \in 1..(i - 1) : file[j].run <= file[i].run /\ file[j] # file[i]}

\* ReplaceAll takes the lock; todo now holds the months of the lines found.
StartReplacing(a) ==
  /\ rebuild[a].stage = "reading" /\ rebuild[a].todo = {} /\ writer = Unlocked
  /\ writer' = a
  /\ rebuild' = [rebuild EXCEPT ![a].stage = "writing",
                                ![a].todo = {event[line.run].month : line \in rebuild[a].found}]
  /\ UNCHANGED <<month, phase, event, ledger, cut, exposed>>

\* writeMonth: a temporary file renamed over the old one, the oldest month first.
WriteMonth(a, m) ==
  /\ rebuild[a].stage = "writing" /\ m \in rebuild[a].todo
  /\ \A n \in rebuild[a].todo : m <= n
  /\ \E file \in FilesOf(FoundIn(a, m)) : ledger' = [ledger EXCEPT ![m] = file]
  /\ cut' = [cut EXCEPT ![m] = FALSE]
  /\ rebuild' = [rebuild EXCEPT ![a].todo = @ \ {m}]
  /\ UNCHANGED <<month, phase, event, writer, exposed>>

\* Mutant: months that are not covered keep their files.
Stale_Slip(a) == {}

Stale(a) == {m \in Months : FoundIn(a, m) = {} /\ (ledger[m] # <<>> \/ cut[m])}

\* The files of months that are not covered are removed once all are written.
RemoveMonth(a, m) ==
  /\ rebuild[a].stage = "writing" /\ rebuild[a].todo = {}
  /\ m \in Stale(a) /\ \A n \in Stale(a) : m <= n
  /\ ledger' = [ledger EXCEPT ![m] = <<>>]
  /\ cut' = [cut EXCEPT ![m] = FALSE]
  /\ UNCHANGED <<month, phase, event, rebuild, writer, exposed>>

EndRebuild(a) ==
  /\ rebuild' = [Disturbed EXCEPT ![a] = NoRebuild]
  /\ writer' = IF writer = a THEN Unlocked ELSE writer
  /\ UNCHANGED <<month, phase, event, ledger, cut, exposed>>

Replaced(a) ==
  /\ rebuild[a].stage = "writing" /\ rebuild[a].todo = {} /\ Stale(a) = {}
  /\ EndRebuild(a)

\* The browser goes before the replacement, or a file cannot be read or written:
\* the months that were replaced stay replaced.
RebuildFails(a) ==
  /\ rebuild[a].stage # "idle"
  /\ EndRebuild(a)

\* The server dies: a run whose record was not appended has none.
LedgerCrash ==
  /\ phase' = [r \in LedgerRuns |-> IF phase[r] = "emitted" THEN "over" ELSE phase[r]]
  /\ Exposing({r \in LedgerRuns : phase[r] = "emitted"})
  /\ rebuild' = [a \in Rebuilders |-> NoRebuild]
  /\ writer' = Unlocked
  /\ UNCHANGED <<month, event, ledger, cut>>

----
LedgerNext ==
  \/ \E r \in LedgerRuns : \/ RecordRun(r) \/ RecordFails(r)
                           \/ \E c \in Chats : EmitComplete(r, c) \/ Rewind(c, r)
  \/ \E a \in Rebuilders :
       \/ Begin(a) \/ StartReplacing(a) \/ Replaced(a) \/ RebuildFails(a)
       \/ \E c \in Chats : ReadChat(a, c)
       \/ \E m \in Months : WriteMonth(a, m) \/ RemoveMonth(a, m)
  \/ MonthPasses \/ LedgerCrash

----
\* Properties

\* The lines of run r, each as its month and its place there.
Places(led, r) ==
  UNION {{<<m, i>> : i \in {j \in DOMAIN led[m] : led[m][j].run = r}} : m \in Months}
Count(led, r) == Cardinality(Places(led, r))

LedgerTypeOK ==
  /\ month \in Months
  /\ phase \in [LedgerRuns -> {"going", "emitted", "over"}]
  /\ event \in [LedgerRuns -> [chat : Chats, month : Months, kept : BOOLEAN] \cup {NoEvent}]
  /\ \A m \in Months : ledger[m] \in Seq(Lines) /\ cut[m] \in BOOLEAN
  /\ writer \in Rebuilders \cup {Unlocked}
  /\ \A a \in Rebuilders : /\ rebuild[a].stage \in {"idle", "reading", "writing"}
                           /\ rebuild[a].index \subseteq Lines
                           /\ rebuild[a].found \subseteq Lines
                           /\ rebuild[a].stage = "writing" <=> writer = a
  /\ exposed \subseteq LedgerRuns

\* A run that was recorded while nothing interfered is counted once and for the
\* user who prompted, whatever rebuilds follow, whenever one of them fails or the
\* server dies between two months, and never twice; only a rewind or a deletion
\* of its chat lets a rebuild forget it.
RecordsKept ==
  \A r \in LedgerRuns : phase[r] = "over" /\ r \notin exposed =>
    /\ Count(ledger, r) <= 1
    /\ event[r].kept => \E i \in DOMAIN ledger[event[r].month] : ledger[event[r].month][i] = [run |-> r, actor |-> TRUE]

LedgerInvariant == LedgerTypeOK /\ RecordsKept

\* A rebuild that nothing disturbs repairs the ledger: once it is done each run
\* whose event is in a log is counted exactly once and no other run is counted.
RebuildRepairs ==
  [][\A a \in Rebuilders : rebuild[a].calm /\ Replaced(a) =>
       \A r \in LedgerRuns :
         Count(ledger', r) = IF event[r] # NoEvent /\ event[r].kept THEN 1 ELSE 0]_ledgerVars

\* Rebuild is idempotent: a run is keyed by chat and time, the pair a live record
\* carries (rebuild.go:17), so that it is counted once.
CountedOnce == \A r \in LedgerRuns : Count(ledger, r) <= 1
====
