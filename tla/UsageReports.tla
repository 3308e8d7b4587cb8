---- MODULE UsageReports ----
\* Reading the usage ledger: what a record says a run cost, the summary
\* and the pages of records of service/usage behind usage_handler.go, and
\* the list of a project's runs that the settings page pages through while
\* the ledger grows (useUsageDrillDown.ts).  UsageLedger is about how the
\* ledger is written.  A day stands for every instant in it.
EXTENDS Naturals, Sequences, FiniteSets, FiniteSetsExt, SequencesExt

CONSTANTS
  Payers,        \* projects
  NoPayer,       \* a run in no project, and a query for no project in particular
  Models,
  PricedAtFirst, \* those the price table has a row for at first
  OwnPriced,     \* those whose provider says itself what a run cost
  Inputs,        \* the tokens a provider says went in
  MaxRows,       \* bound on the records
  MaxDay,        \* bound on the calendar
  MaxSpan,       \* maxDays of fillDays
  PageLimit,     \* a page's limit
  MaxReads,      \* bound on what the reader asks
  MaxInFlight,   \* bound on what the reader asks at a time
  MaxBookEvents, \* bound on what else happens
  Closed

ASSUME ReportsAssumption == NoPayer \notin Payers /\ PageLimit \in Nat \ {0} /\ MaxSpan \in Nat \ {0}

VARIABLES
  book,        \* the ledger's records, as they were appended
  prices,      \* the models the price table has a row for
  today,
  scope,       \* the projects the reader may read, whose loose runs are all the reader's
  range,       \* the window of the page
  drill,       \* the list that is open: [payer, rows, loading, more], or Closed
  cursor,      \* what its next page starts after; 0 for none
  asked,       \* requests on their way to the server
  answers,     \* responses on their way back
  reads, bookEvents,
  \* What the properties compare with.
  begun,       \* the records there were when the list was opened
  disturbed,   \* something of them was taken away since, or the scope or the range moved
  grown        \* something was added to them

readerVars == <<drill, cursor, asked, answers>>
reportGhosts == <<begun, disturbed, grown>>
reportVars == <<book, prices, today, scope, range, readerVars, reads, bookEvents, reportGhosts>>

Rows == DOMAIN book

----
\* What is recorded.

\* Estimate: the row of the table with the longest name that fits, if any.
Priced(model) == model \in prices

\* applyCost: the provider's price, or else an estimate where the table has the
\* model and the run any tokens, or else none.
CostOf(model, tokens) ==
  IF model \in OwnPriced THEN "exact" ELSE IF tokens > 0 /\ Priced(model) THEN "estimated" ELSE "unknown"

\* NormalizeInclusiveInput: the cached part is taken out of the input.
Buckets(input, cached) == [input |-> input - Min({cached, input}), cached |-> Min({cached, input})]

NextId == 1 + Max({0} \cup {book[i].id : i \in Rows})

RecordUsage ==
  /\ Len(book) < MaxRows
  /\ \E payer \in Payers \cup {NoPayer}, at \in {today, today - 1} \ {0},
       model \in Models, tokens \in {Buckets(n, 1) : n \in Inputs} :
         LET sum == tokens.input + tokens.cached
         IN book' = Append(book, [id |-> NextId, payer |-> payer, at |-> at, tokens |-> sum,
                                  cost |-> CostOf(model, sum)])
  /\ grown' = TRUE
  /\ UNCHANGED <<prices, today, scope, range, readerVars, reads, bookEvents, begun, disturbed>>

----
\* The queries.

\* normalizeWindow refuses one that ends before it begins.
Windows == {window \in (1..today) \X (1..today) : window[1] <= window[2]}

\* scopeFor: what is visible is read at each query.
Forbidden(payer) == payer # NoPayer /\ payer \notin scope

Asked(row, payer) == payer = NoPayer \/ row.payer = payer

ReportAnswers(row, payer, window) ==
  /\ row.at \in window[1]..window[2]
  /\ ~Forbidden(row.payer)
  /\ Asked(row, payer)

\* The months of the window, and in them the records of the window.
Matched(payer, window) == SelectSeq(book, LAMBDA row : ReportAnswers(row, payer, window))

\* Records: newest first, and as appended within a day.
Newest(rows) == SortSeq(rows, LAMBDA a, b : a.at > b.at \/ (a.at = b.at /\ a.id < b.id))

\* A page that starts one record late.
Page_Slip(payer, window, offset) ==
  LET found == Newest(Matched(payer, window))
      end == Min({offset + PageLimit, Len(found)})
  IN [rows |-> SubSeq(found, offset + 2, end), next |-> IF end < Len(found) THEN end ELSE 0]

Page(payer, window, offset) ==
  LET found == Newest(Matched(payer, window))
      end == Min({offset + PageLimit, Len(found)})
  IN IF offset >= Len(found) THEN [rows |-> <<>>, next |-> 0]
     ELSE [rows |-> SubSeq(found, offset + 1, end), next |-> IF end < Len(found) THEN end ELSE 0]

Totals(rows) ==
  [runs |-> Len(rows),
   tokens |-> FoldSeq(LAMBDA row, sum : row.tokens + sum, 0, rows),
   unpriced |-> Len(SelectSeq(rows, LAMBDA row : row.cost = "unknown"))]

\* One bucket for each key that occurs.
Groups(rows) ==
  [key \in {rows[i].payer : i \in DOMAIN rows} |-> Totals(SelectSeq(rows, LAMBDA row : row.payer = key))]

\* fillDays without the last day.
Daily_Slip(rows, window) ==
  [day \in window[1]..(window[2] - 1) |-> Totals(SelectSeq(rows, LAMBDA row : row.at = day))]

\* fillDays: every day of the window, as far as the chart goes.
Daily(rows, window) ==
  [day \in window[1]..Min({window[2], window[1] + MaxSpan - 1}) |->
     Totals(SelectSeq(rows, LAMBDA row : row.at = day))]

Summary(payer, window) ==
  LET rows == Matched(payer, window)
  IN [totals |-> Totals(rows), groups |-> Groups(rows), daily |-> Daily(rows, window)]

----
\* The reader.

Ask(payer, at) ==
  /\ reads < MaxReads /\ Cardinality(asked) + Cardinality(answers) < MaxInFlight
  /\ reads' = reads + 1
  /\ asked' = asked \cup {[n |-> reads + 1, payer |-> payer, offset |-> at, window |-> range]}
  /\ UNCHANGED <<book, prices, today, scope, range, answers, bookEvents>>

OpenDrillDown(payer) ==
  /\ cursor' = 0
  /\ drill' = [payer |-> payer, rows |-> <<>>, loading |-> TRUE, more |-> FALSE]
  /\ begun' = {book[i].id : i \in {j \in Rows : ReportAnswers(book[j], payer, range)}}
  /\ disturbed' = FALSE /\ grown' = FALSE
  /\ Ask(payer, 0)

LoadMore ==
  /\ drill # Closed /\ cursor # 0 /\ drill.more /\ ~drill.loading
  /\ drill' = [drill EXCEPT !.loading = TRUE, !.more = FALSE]
  /\ Ask(drill.payer, cursor)
  /\ UNCHANGED <<cursor, begun, disturbed, grown>>

CloseDrillDown ==
  /\ drill # Closed
  /\ drill' = Closed
  /\ UNCHANGED <<book, prices, today, scope, range, cursor, asked, answers, reads, bookEvents, reportGhosts>>

\* ErrForbidden for a project that is not the caller's.
Serve(q) ==
  /\ asked' = asked \ {q}
  /\ answers' = answers \cup
       {[q |-> q, failed |-> Forbidden(q.payer), page |-> Page(q.payer, q.window, q.offset)]}
  /\ UNCHANGED <<book, prices, today, scope, range, drill, cursor, reads, bookEvents, reportGhosts>>

\* The response is the list's, whatever list is open by then.
Receive(a) ==
  LET shown == IF drill = Closed THEN <<>> ELSE drill.rows
  IN /\ answers' = answers \ {a}
     /\ IF a.failed
          THEN /\ drill' = [payer |-> a.q.payer, rows |-> shown, loading |-> FALSE, more |-> FALSE]
               /\ UNCHANGED cursor
          ELSE /\ drill' = [payer |-> a.q.payer, loading |-> FALSE, more |-> a.page.next # 0,
                            rows |-> IF a.q.offset # 0 THEN shown \o a.page.rows ELSE a.page.rows]
               /\ cursor' = a.page.next
     /\ disturbed' = (disturbed \/ a.failed \/ drill = Closed)
     /\ UNCHANGED <<book, prices, today, scope, range, asked, reads, bookEvents, begun, grown>>

----
\* What else happens.

BookEvent ==
  /\ bookEvents < MaxBookEvents
  /\ bookEvents' = bookEvents + 1
  /\ UNCHANGED <<asked, answers, reads, begun, grown>>

\* Normalize: any rows, a model at most once.
PriceRows == SUBSET Models

SavePrices(table) == prices' = table

SetPrices ==
  /\ \E table \in PriceRows \ {prices} : SavePrices(table)
  /\ BookEvent
  /\ UNCHANGED <<book, today, scope, range, drill, cursor, disturbed>>

DayPasses ==
  /\ today < MaxDay
  /\ today' = today + 1
  /\ UNCHANGED <<book, prices, scope, range, readerVars, reads, bookEvents, reportGhosts>>

\* ListVisible will name other projects from now on.
ScopeMoves ==
  /\ \E p \in Payers : scope' = IF p \in scope THEN scope \ {p} ELSE scope \cup {p}
  /\ disturbed' = TRUE
  /\ BookEvent
  /\ UNCHANGED <<book, prices, today, range, drill, cursor>>

\* A rebuild no longer finds the run's event.
DropRow ==
  /\ \E i \in Rows : book' = [j \in 1..(Len(book) - 1) |-> IF j < i THEN book[j] ELSE book[j + 1]]
  /\ disturbed' = TRUE
  /\ BookEvent
  /\ UNCHANGED <<prices, today, scope, range, drill, cursor>>

\* A new window closes the list and forgets its cursor.
ChangeRange ==
  /\ range' \in Windows \ {range}
  /\ drill' = Closed /\ cursor' = 0
  /\ disturbed' = TRUE
  /\ BookEvent
  /\ UNCHANGED <<book, prices, today, scope>>

----
ReportsInit ==
  /\ book = <<>> /\ prices = PricedAtFirst
  /\ today = 2 /\ range = <<1, 2>>
  /\ scope = Payers
  /\ drill = Closed /\ cursor = 0 /\ asked = {} /\ answers = {}
  /\ reads = 0 /\ bookEvents = 0
  /\ begun = {} /\ disturbed = FALSE /\ grown = FALSE

ReportsNext ==
  \/ RecordUsage
  \/ \E p \in Payers \cup {NoPayer} : OpenDrillDown(p)
  \/ LoadMore \/ CloseDrillDown
  \/ \E q \in asked : Serve(q)
  \/ \E a \in answers : Receive(a)
  \/ SetPrices \/ DayPasses \/ ScopeMoves \/ DropRow \/ ChangeRange

ReportsSpec == ReportsInit /\ [][ReportsNext]_reportVars

----
ReportsTypeOK ==
  /\ Len(book) <= MaxRows /\ prices \subseteq Models /\ today \in 1..MaxDay
  /\ scope \subseteq Payers /\ cursor \in 0..MaxRows
  /\ \A q \in asked : q.payer \in Payers \cup {NoPayer}

\* A list that was paged to its end, holds every record
\* there was when it was opened, and each once if none was added meanwhile: what
\* is appended moves the cursor's offset only so that records come twice
\* (service.go:248-256), never so that one is passed over.
NoneSkipped ==
  (drill # Closed /\ ~drill.loading /\ ~drill.more /\ ~disturbed) =>
    /\ begun \subseteq {drill.rows[i].id : i \in DOMAIN drill.rows}
    /\ grown \/ Cardinality(begun) = Len(drill.rows)

\* The list of a project is of that project.
RowsOfProject ==
  (drill # Closed /\ ~disturbed /\ drill.payer # NoPayer) =>
    \A i \in DOMAIN drill.rows : drill.rows[i].payer = drill.payer

\* The totals of a summary are those of its groups, and those of its days
\* wherever the window is no longer than the chart.
AddsUp ==
  LET summary == Summary(NoPayer, range)
      of(f, part) == MapThenSumSet(LAMBDA k : f[k][part], DOMAIN f)
  IN \A part \in {"runs", "tokens", "unpriced"} :
       /\ of(summary.groups, part) = summary.totals[part]
       /\ range[2] - range[1] < MaxSpan => of(summary.daily, part) = summary.totals[part]

ReportsInvariant == ReportsTypeOK /\ NoneSkipped /\ RowsOfProject /\ AddsUp
====
