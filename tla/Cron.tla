---- MODULE Cron ----
\* FiveFieldCronParser of service/schedule/cron.go: what a five-field
\* expression denotes, and the walk from minute to minute by which the
\* scheduler finds its next occurrence in the task's time zone.
\*
\* The calendar is cut down: the fields keep their order, their bounds are
\* constants, and an instant is counted in halves of a minute.  A zone is
\* a place where the local clock jumps.
EXTENDS Integers, FiniteSets

CONSTANTS
  LastMinute, LastHour,   \* 59 and 23
  LastDay, LastMonth,     \* 31 and 12; every month has LastDay days
  LastWeekday,            \* 6; LastWeekday + 1 also is Sunday, 0
  Reach,                  \* minutes that Next looks ahead: eight years
  Horizon,                \* bound on the clock, in minutes
  MaxJump,                \* minutes the local clock jumps by, either way
  JumpAt                  \* the minute of the jump

ASSUME CronAssumption == Reach \in Nat \ {0} /\ Horizon \in Nat /\ MaxJump \in Nat

VARIABLES
  cronTask,   \* the five specs of the expression
  jump,       \* the task's zone
  cronAsked,  \* the instant Next was asked about, in halves of a minute
  candidate,  \* the minute it looks at; -1 when it is not at work
  start,      \* when the task was created
  fired,      \* the minutes it found, one after the other
  exhausted   \* it found none

cronVars == <<cronTask, jump, cronAsked, candidate, start, fired, exhausted>>

----
\* Fields.  An item is a number, a range or the star, with or without a
\* step; step 0 stands for an item without a slash.

Item(star, from, to, step) == [star |-> star, from |-> from, to |-> to, step |-> step]
Star == {Item(TRUE, 0, 0, 0)}

\* cronRange
ItemRange(item, lo, hi) == IF item.star THEN <<lo, hi>> ELSE <<item.from, item.to>>

\* parseCronSet, with splitCronStep and parseCronNumber: what is refused.
Accepts(spec, lo, hi) ==
  /\ spec # {}
  /\ \A item \in spec :
       LET r == ItemRange(item, lo, hi)
       IN item.step >= 0 /\ r[1] \in lo..hi /\ r[2] \in lo..hi /\ r[1] <= r[2]

Stepped(item, lo, hi) ==
  LET r == ItemRange(item, lo, hi)
      step == IF item.step = 0 THEN 1 ELSE item.step
  IN {v \in r[1]..r[2] : (v - r[1]) % step = 0}

CronSet(spec, lo, hi) ==
  [values |-> UNION {Stepped(item, lo, hi) : item \in spec}, wildcard |-> spec = Star]

\* The other name of Sunday is not folded in.
WeekdaySet_Slip(spec) == CronSet(spec, 0, LastWeekday + 1)

WeekdaySet(spec) ==
  LET set == CronSet(spec, 0, LastWeekday + 1)
  IN [set EXCEPT !.values = (IF LastWeekday + 1 \in @ THEN @ \cup {0} ELSE @) \cap (0..LastWeekday)]

\* parseCron
Parsed(task) ==
  [minute |-> CronSet(task.minute, 0, LastMinute), hour |-> CronSet(task.hour, 0, LastHour),
   day |-> CronSet(task.day, 1, LastDay), month |-> CronSet(task.month, 1, LastMonth),
   weekday |-> WeekdaySet(task.weekday)]

----
\* The clock.

\* In(location): the local clock reads a minute as another one.
Local(m) ==
  LET l == IF m < JumpAt THEN m ELSE m + jump
      hours == l \div (LastMinute + 1)
      days == hours \div (LastHour + 1)
  IN [minute |-> l % (LastMinute + 1), hour |-> hours % (LastHour + 1),
      day |-> 1 + (days % LastDay), month |-> 1 + ((days \div LastDay) % LastMonth),
      weekday |-> days % (LastWeekday + 1)]

\* Both days must fit.
Matches_Slip(parsed, t) ==
  /\ t.minute \in parsed.minute.values /\ t.hour \in parsed.hour.values /\ t.month \in parsed.month.values
  /\ t.day \in parsed.day.values /\ t.weekday \in parsed.weekday.values

Matches(parsed, t) ==
  LET dom == t.day \in parsed.day.values
      dow == t.weekday \in parsed.weekday.values
  IN /\ t.minute \in parsed.minute.values /\ t.hour \in parsed.hour.values /\ t.month \in parsed.month.values
     /\ CASE parsed.day.wildcard /\ parsed.weekday.wildcard -> TRUE
          [] parsed.day.wildcard /\ ~parsed.weekday.wildcard -> dow
          [] ~parsed.day.wildcard /\ parsed.weekday.wildcard -> dom
          [] OTHER -> dom \/ dow

\* The search starts with the minute it was asked in.
FirstCandidate_Slip(instant) == instant \div 2

\* Truncate to the minute and add one.
FirstCandidate(instant) == instant \div 2 + 1

----
\* Next.

\* The scheduler asks from the occurrence before, or some time after it.
AskNext ==
  /\ candidate = -1 /\ ~exhausted
  /\ cronAsked \div 2 < Horizon
  /\ candidate' = FirstCandidate(cronAsked)
  /\ UNCHANGED <<cronTask, jump, cronAsked, start, fired, exhausted>>

WalkOn ==
  /\ candidate # -1 /\ candidate < FirstCandidate(cronAsked) + Reach
  /\ ~Matches(Parsed(cronTask), Local(candidate))
  /\ candidate' = candidate + 1
  /\ UNCHANGED <<cronTask, jump, cronAsked, start, fired, exhausted>>

FindNext ==
  /\ candidate # -1 /\ candidate < FirstCandidate(cronAsked) + Reach
  /\ Matches(Parsed(cronTask), Local(candidate))
  /\ fired' = fired \cup {candidate}
  /\ cronAsked' \in {2 * candidate, 2 * candidate + 1}
  /\ candidate' = -1
  /\ UNCHANGED <<cronTask, jump, start, exhausted>>

FindNone ==
  /\ candidate # -1 /\ candidate >= FirstCandidate(cronAsked) + Reach
  /\ candidate' = -1 /\ exhausted' = TRUE
  /\ UNCHANGED <<cronTask, jump, cronAsked, start, fired>>

\* Expressions that differ in what the fields do: stars with and without a step,
\* a number, a range that ends in the other Sunday.
Specs(last) == {Star, {Item(FALSE, last, last, 0)}}
Expressions ==
  [minute : Specs(LastMinute), hour : Specs(LastHour), month : Specs(LastMonth),
   day : Specs(LastDay) \cup {{Item(TRUE, 0, 0, 2)}},
   weekday : Specs(LastWeekday + 1) \cup {{Item(FALSE, LastWeekday, LastWeekday + 1, 1)}, {Item(FALSE, 1, 0, 0)}}]

AcceptedTask(task) ==
  /\ Accepts(task.minute, 0, LastMinute) /\ Accepts(task.hour, 0, LastHour)
  /\ Accepts(task.day, 1, LastDay) /\ Accepts(task.month, 1, LastMonth)
  /\ Accepts(task.weekday, 0, LastWeekday + 1)

CronInit ==
  /\ cronTask \in {task \in Expressions : AcceptedTask(task)}
  /\ jump \in {-MaxJump, 0, MaxJump}
  /\ start \in {0, 1} /\ cronAsked = start
  /\ candidate = -1 /\ fired = {} /\ exhausted = FALSE

CronNext == AskNext \/ WalkOn \/ FindNext \/ FindNone

CronSpec == CronInit /\ [][CronNext]_cronVars

----
CronTypeOK ==
  /\ AcceptedTask(cronTask) /\ candidate \in Nat \cup {-1}
  /\ fired \subseteq Nat /\ exhausted \in BOOLEAN

\* What the fields of an expression say of a wall-clock time: each number of each
\* field is meant, Sunday by either name, and a day is meant by one of its two
\* fields where both are restricted and by both where one is not.
Meant(item, v, lo, hi, names) ==
  \E k \in Nat \cap (0..hi) :
    LET first == IF item.star THEN lo ELSE item.from
        n == first + k * (IF item.step = 0 THEN 1 ELSE item.step)
    IN n <= (IF item.star THEN hi ELSE item.to) /\ n % names = v % names

Due(m) ==
  LET t == Local(m)
      says(spec, v, lo, hi, names) == \E item \in spec : Meant(item, v, lo, hi, names)
      day == says(cronTask.day, t.day, 1, LastDay, LastDay + 1)
      weekday == says(cronTask.weekday, t.weekday, 0, LastWeekday + 1, LastWeekday + 1)
      restricted == cronTask.day # Star /\ cronTask.weekday # Star
  IN /\ says(cronTask.minute, t.minute, 0, LastMinute, LastMinute + 1)
     /\ says(cronTask.hour, t.hour, 0, LastHour, LastHour + 1)
     /\ says(cronTask.month, t.month, 1, LastMonth, LastMonth + 1)
     /\ IF restricted THEN day \/ weekday ELSE day /\ weekday

\* Asked again and again, Next gives every minute the expression means and no
\* other, each once and however late in its minute it is asked, across a jump of
\* the local clock; and when it gives none there is none within its reach
\* (cron.go:40-51).
OccurrencesExact ==
  LET seen == (IF candidate = -1 THEN cronAsked \div 2 ELSE candidate - 1)
  IN /\ fired = {m \in (start \div 2 + 1)..seen : Due(m)}
     /\ exhausted => \A m \in (cronAsked \div 2 + 1)..(cronAsked \div 2 + Reach) : ~Due(m)

CronInvariant == CronTypeOK /\ OccurrencesExact
====
