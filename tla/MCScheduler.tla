---- MODULE MCScheduler ----
EXTENDS Scheduler, TLC
CONSTANTS t1, t2, r1, r2, r3, r4, c1, c2, A, B

OneChat == [t \in TaskIds |-> A]
TwoChats == t1 :> A @@ t2 :> B

Cron(period, maxRuns, overlap) ==
  [kind |-> "cron", when |-> period, maxRuns |-> maxRuns, overlap |-> overlap]

QueueDefs == {Cron(1, 0, "queue_one")}
TwoPeriods == {Cron(1, 0, "queue_one"), Cron(3, 0, "queue_one")}
BoundedDefs == {Cron(2, 1, "queue_one"), Cron(2, 2, "queue_one")}
RunSymmetry == Permutations({r1, r2, r3, r4})
====
