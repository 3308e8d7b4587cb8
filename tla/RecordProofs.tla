---- MODULE RecordProofs ----
\* What the server keeps of schedules, projects, uploads and files, for
\* every number of requests, accounts, tasks, projects, files, chunks and
\* failures.  The components of MCRecords share no state, and one of them
\* runs in a behaviour: each proof is an inductive invariant of its own
\* component, kept by the steps of that component and by every step that
\* leaves its variables alone.
EXTENDS MCRecords, TLAPS, FiniteSetTheorems, SequenceTheorems, WellFoundedInduction

----
\* Grants: who may change a scheduled task.

\* A request under way names an account and a task; an agent's neither redefines
\* nor arms one.
CallSound(call) ==
  /\ call.op \in UserWrites \cup {"create", "complete"}
  /\ call.who \in Accounts /\ call.plan \in PlanIds /\ call.turn \in Turns \cup {NoTurn}
  /\ call.by # "user" => call.op \in AgentWrites \cup {"create", "complete"}
CallsSound == \A c \in ApiCalls : apiCall[c] = IdleApi \/ CallSound(apiCall[c])

CompletionsTyped ==
  completedBy \in [PlanIds -> (Turns \cup {NoTurn}) \X (Turns \cup {NoTurn})]

\* As long as no two creations crossed, the one under way has counted what is there.
QuotaSound ==
  ~quotaCrossed =>
    \A c \in ApiCalls : apiCall[c].op = "create" =>
      Standing < TaskQuota /\ \A d \in ApiCalls : apiCall[d].op = "create" => d = c

GrantsSound == GrantsInvariant /\ CallsSound /\ CompletionsTyped /\ QuotaSound

LEMMA GrantFacts ==
  /\ AdminAccounts \subseteq Accounts /\ TaskQuota \in Nat /\ GrantTTL \in Nat
  /\ MaxPlans \in Nat /\ MaxGrantClock \in Nat /\ MaxApiCalls \in Nat
  /\ NoPlan \notin Plans /\ NoGrant \notin Grants /\ NoTurn \notin Turns
BY ScheduleGrantsAssumption

\* The tasks that count, of the store q.
Counting(q) == {p \in PlanIds : Counts(q[p])}

LEMMA CountingFinite ==
  ASSUME NEW q PROVE IsFiniteSet(Counting(q)) /\ Cardinality(Counting(q)) \in Nat
<1>1. IsFiniteSet(PlanIds) BY GrantFacts, FS_Interval DEF PlanIds
<1>2. Counting(q) \subseteq PlanIds BY DEF Counting
<1> QED BY <1>1, <1>2, FS_Subset, FS_CardinalityType

\* Who adds no task to those that count does not raise their number.
LEMMA CountingKept ==
  ASSUME NEW q, NEW r,
         \A p \in PlanIds : Counts(r[p]) => Counts(q[p])
  PROVE  Cardinality(Counting(r)) <= Cardinality(Counting(q))
<1>1. Counting(r) \subseteq Counting(q) BY DEF Counting
<1> QED BY <1>1, CountingFinite, FS_Subset

\* One task more counts once.
LEMMA CountingOneMore ==
  ASSUME NEW q, NEW r, NEW n \in PlanIds, \A p \in PlanIds \ {n} : r[p] = q[p]
  PROVE  Cardinality(Counting(r)) <= Cardinality(Counting(q)) + 1
<1>1. Counting(r) \subseteq Counting(q) \cup {n} BY DEF Counting
<1>2. IsFiniteSet(Counting(q) \cup {n}) /\ Cardinality(Counting(q) \cup {n}) <= Cardinality(Counting(q)) + 1
 BY CountingFinite, FS_AddElement
<1>3. Cardinality(Counting(r)) <= Cardinality(Counting(q) \cup {n}) BY <1>1, <1>2, FS_Subset
<1> QED BY <1>2, <1>3, CountingFinite, FS_CardinalityType

LEMMA StandingCounts ==
  /\ Standing = Cardinality(Counting(plans)) /\ Standing' = Cardinality(Counting(plans'))
  /\ Standing \in Nat /\ Standing' \in Nat
<1>1. Standing = Cardinality(Counting(plans)) /\ Standing' = Cardinality(Counting(plans')) BY DEF Standing, Counting
<1> QED BY <1>1, CountingFinite

\* A step that leaves the requests alone, or ends one, and adds no task keeps the quota.
LEMMA QuotaRests ==
  ASSUME GrantsSound,
         \A c \in ApiCalls : apiCall'[c].op = "create" => apiCall[c].op = "create",
         quotaCrossed => quotaCrossed',
         ~quotaCrossed' => Standing' <= Standing
  PROVE  (QuotaKept /\ QuotaSound)'
<1>1. TaskQuota \in Nat /\ Standing \in Nat /\ Standing' \in Nat BY GrantFacts, StandingCounts
<1>2. QuotaKept' BY <1>1 DEF GrantsSound, GrantsInvariant, QuotaKept
<1>3. QuotaSound' BY <1>1 DEF GrantsSound, QuotaSound
<1> QED BY <1>2, <1>3

LEMMA InitGrantsSound == GrantsInit => GrantsSound
<1> SUFFICES ASSUME GrantsInit PROVE GrantsSound OBVIOUS
<1>1. GrantsTypeOK
 <2>1. projectMembers \subseteq Accounts BY DEF GrantsInit
 <2>2. /\ plans \in [PlanIds -> Plans \cup {NoPlan}] /\ grants \in [Turns -> Grants \cup {NoGrant}]
       /\ turn \in [Turns -> {"idle", "running", "settling", "over"}] /\ DOMAIN apiCall = ApiCalls
  BY DEF GrantsInit
 <2>3. grantClock \in 0..MaxGrantClock /\ plansMade \in 0..MaxPlans /\ apiCalls \in 0..MaxApiCalls
  <3>1. grantClock = 0 /\ plansMade = 0 /\ apiCalls = 0 BY DEF GrantsInit
  <3> QED BY GrantFacts, <3>1
 <2>4. wanted \in [PlanIds -> Nat] /\ quotaCrossed \in BOOLEAN BY DEF GrantsInit
 <2> QED BY <2>1, <2>2, <2>3, <2>4 DEF GrantsTypeOK
<1>2. ArmedByUser /\ GrantEndsWithTurn /\ CallsSound /\ CompletionsTyped
 BY DEF GrantsInit, ArmedByUser, GrantEndsWithTurn, CallsSound, CompletionsTyped
<1>3. CompletesOwnRun BY DEF GrantsInit, CompletesOwnRun
<1>4. Counting(plans) = {} BY DEF GrantsInit, Counting, Counts
<1>5. Standing = 0 BY <1>4, StandingCounts, FS_EmptySet
<1>6. QuotaKept BY <1>5, GrantFacts DEF QuotaKept
<1>7. QuotaSound BY DEF GrantsInit, QuotaSound, IdleApi
<1> QED BY <1>1, <1>2, <1>3, <1>6, <1>7 DEF GrantsSound, GrantsInvariant

\* A step that begins no request and adds no task that counts.
LEMMA GrantsFrame ==
  ASSUME GrantsSound, GrantsTypeOK', ArmedByUser', GrantEndsWithTurn',
         completedBy' = completedBy \/ (CompletesOwnRun /\ CompletionsTyped)',
         \A c \in ApiCalls : apiCall'[c] = apiCall[c] \/ apiCall'[c] = IdleApi,
         quotaCrossed => quotaCrossed',
         ~quotaCrossed' => Standing' <= Standing
  PROVE  GrantsSound'
<1>1. (CompletesOwnRun /\ CompletionsTyped)' BY DEF GrantsSound, GrantsInvariant, CompletesOwnRun, CompletionsTyped
<1>2. CallsSound' BY DEF GrantsSound, CallsSound, CallSound
<1>3. \A c \in ApiCalls : apiCall'[c].op = "create" => apiCall[c].op = "create" BY DEF IdleApi
<1>4. (QuotaKept /\ QuotaSound)' BY <1>3, QuotaRests
<1> QED BY <1>1, <1>2, <1>4 DEF GrantsSound, GrantsInvariant

LEMMA GrantTypes ==
  ASSUME GrantsSound
  PROVE  /\ plans \in [PlanIds -> Plans \cup {NoPlan}] /\ grants \in [Turns -> Grants \cup {NoGrant}]
         /\ turn \in [Turns -> {"idle", "running", "settling", "over"}]
         /\ DOMAIN apiCall = ApiCalls /\ projectMembers \subseteq Accounts
         /\ grantClock \in 0..MaxGrantClock /\ plansMade \in 0..MaxPlans /\ apiCalls \in 0..MaxApiCalls
         /\ wanted \in [PlanIds -> Nat] /\ quotaCrossed \in BOOLEAN
         /\ MaxGrantClock \in Nat /\ MaxPlans \in Nat /\ MaxApiCalls \in Nat
         /\ grantClock \in Nat /\ plansMade \in Nat /\ apiCalls \in Nat
         /\ \A p \in PlanIds : plans[p] # NoPlan => plans[p] \in Plans
         /\ \A t \in Turns : grants[t] # NoGrant => grants[t] \in Grants
<1>1. GrantsTypeOK BY DEF GrantsSound, GrantsInvariant
<1>2. MaxGrantClock \in Nat /\ MaxPlans \in Nat /\ MaxApiCalls \in Nat BY GrantFacts
<1>3. grantClock \in 0..MaxGrantClock /\ plansMade \in 0..MaxPlans /\ apiCalls \in 0..MaxApiCalls BY <1>1 DEF GrantsTypeOK
<1>4. grantClock \in Nat /\ plansMade \in Nat /\ apiCalls \in Nat BY <1>2, <1>3
<1> QED BY <1>1, <1>2, <1>3, <1>4 DEF GrantsTypeOK

\* What the requests and the clock make of a task is a task.
LEMMA PlanChanges ==
  ASSUME NEW plan \in Plans
  PROVE  /\ \A t \in Turns \cup {NoTurn} : [plan EXCEPT !.run = t] \in Plans
         /\ \A st \in {"paused", "error", "completed"} :
              [plan EXCEPT !.enabled = FALSE, !.status = st] \in Plans
         /\ [plan EXCEPT !.status = "active"] \in Plans
         /\ [plan EXCEPT !.enabled = TRUE, !.status = "active"] \in Plans
         /\ \A n \in Nat : [plan EXCEPT !.text = n] \in Plans
BY DEF Plans

\* A grant is issued to a turn that begins.
LEMMA IssuedTypes ==
  ASSUME GrantsSound, NEW t \in Turns, NEW who \in Accounts, NEW p \in 0..MaxPlans, Issued(t, who, p)
  PROVE  /\ grants' \in [Turns -> Grants \cup {NoGrant}]
         /\ turn' \in [Turns -> {"idle", "running", "settling", "over"}]
         /\ GrantEndsWithTurn'
<1> DEFINE adm == who \in AdminAccounts
            g == [owner |-> who, admin |-> adm, plan |-> p, expires |-> grantClock + GrantTTL]
<1>1. g \in Grants
 <2>1. adm \in BOOLEAN /\ grantClock + GrantTTL \in Nat BY GrantTypes, GrantFacts
 <2> HIDE DEF adm
 <2> QED BY <2>1 DEF Grants
<1>2. grants' = [grants EXCEPT ![t] = g] /\ turn' = [turn EXCEPT ![t] = "running"] BY DEF Issued
<1> HIDE DEF g
<1>3. GrantEndsWithTurn BY DEF GrantsSound, GrantsInvariant
<1> QED BY <1>1, <1>2, <1>3, GrantTypes DEF GrantEndsWithTurn

\* Tasks that stay as they are, or lose their place on the clock, are what users want.
LEMMA ArmedKept ==
  ASSUME GrantsSound,
         \A p \in PlanIds : plans'[p] # NoPlan /\ plans'[p].enabled =>
           plans[p] # NoPlan /\ plans[p].enabled /\ plans'[p].text = plans[p].text /\ wanted'[p] = wanted[p]
  PROVE  ArmedByUser'
BY DEF GrantsSound, GrantsInvariant, ArmedByUser

LEMMA PromptTurnSound ==
  ASSUME GrantsSound, NEW t \in Turns, PromptTurn(t)
  PROVE  GrantsSound'
<1>1. PICK who \in Accounts : Issued(t, who, 0) BY DEF PromptTurn
<1>2. 0 \in 0..MaxPlans BY GrantFacts
<1>3. /\ grants' \in [Turns -> Grants \cup {NoGrant}]
      /\ turn' \in [Turns -> {"idle", "running", "settling", "over"}]
      /\ GrantEndsWithTurn'
 BY <1>1, <1>2, IssuedTypes
<1>4. GrantsTypeOK' BY <1>3 DEF PromptTurn, GrantsSound, GrantsInvariant, GrantsTypeOK
<1>5. ArmedByUser' BY DEF PromptTurn, GrantsSound, GrantsInvariant, ArmedByUser
<1>6. Standing' <= Standing BY StandingCounts DEF PromptTurn
<1> QED BY <1>3, <1>4, <1>5, <1>6, GrantsFrame DEF PromptTurn

\* Fewer tasks on the clock, and none more that count: what pausing, claiming and
\* settling do to the store.
PlansRest(q) ==
  /\ q \in [PlanIds -> Plans \cup {NoPlan}]
  /\ \A p \in PlanIds : q[p] # NoPlan =>
       /\ plans[p] # NoPlan /\ q[p].text = plans[p].text /\ (q[p].enabled => plans[p].enabled)
       /\ Counts(q[p]) => Counts(plans[p])

LEMMA PlansRestSound ==
  ASSUME GrantsSound, PlansRest(plans'), wanted' = wanted
  PROVE  ArmedByUser' /\ Standing' <= Standing
<1>1. ArmedByUser' BY ArmedKept DEF PlansRest
<1>2. \A p \in PlanIds : Counts(plans'[p]) => Counts(plans[p]) BY DEF PlansRest, Counts
<1>3. Cardinality(Counting(plans')) <= Cardinality(Counting(plans)) BY <1>2, CountingKept
<1> QED BY <1>1, <1>3, StandingCounts

LEMMA ClaimRests ==
  ASSUME GrantsSound, NEW p \in PlanIds, plans[p] # NoPlan, NEW t \in Turns
  PROVE  PlansRest([plans EXCEPT ![p].run = t])
<1>1. plans[p] \in Plans BY GrantTypes
<1> DEFINE new == [plans[p] EXCEPT !.run = t]
<1>2. new \in Plans /\ new # NoPlan BY <1>1, PlanChanges, GrantFacts
<1>3. new.text = plans[p].text /\ new.enabled = plans[p].enabled /\ (Counts(new) => Counts(plans[p])) BY <1>1 DEF Plans, Counts
<1>4. [plans EXCEPT ![p].run = t] = [plans EXCEPT ![p] = new] OBVIOUS
<1> HIDE DEF new
<1>5. plans \in [PlanIds -> Plans \cup {NoPlan}] BY GrantTypes
<1> QED BY <1>2, <1>3, <1>4, <1>5 DEF PlansRest

LEMMA StopRests ==
  ASSUME GrantsSound, NEW p \in PlanIds, plans[p] # NoPlan, NEW st \in {"error", "completed"}
  PROVE  PlansRest(Stopped(p, st))
<1>1. plans[p] \in Plans BY GrantTypes
<1> DEFINE new == [plans[p] EXCEPT !.enabled = FALSE, !.status = st]
<1>2. new \in Plans /\ new # NoPlan BY <1>1, PlanChanges, GrantFacts
<1>3. new.text = plans[p].text /\ new.enabled = FALSE /\ ~Counts(new) BY <1>1 DEF Plans, Counts
<1>4. Stopped(p, st) = [plans EXCEPT ![p] = new] BY DEF Stopped
<1> HIDE DEF new
<1>5. plans \in [PlanIds -> Plans \cup {NoPlan}] BY GrantTypes
<1> QED BY <1>2, <1>3, <1>4, <1>5 DEF PlansRest

\* What a claim changes.
LEMMA ClaimedTypes ==
  ASSUME GrantsSound, NEW p \in PlanIds, plans[p] # NoPlan, NEW t \in Turns, Claimed(t, p)
  PROVE  /\ PlansRest(plans')
         /\ grants' \in [Turns -> Grants \cup {NoGrant}]
         /\ turn' \in [Turns -> {"idle", "running", "settling", "over"}]
         /\ GrantEndsWithTurn'
<1>1. Issued(t, plans[p].owner, p) /\ plans' = [plans EXCEPT ![p].run = t] BY DEF Claimed
<1>2. plans[p].owner \in Accounts /\ p \in 0..MaxPlans BY GrantTypes DEF Plans, PlanIds
<1> QED BY <1>1, <1>2, ClaimRests, IssuedTypes

\* A step on the tasks and turns that issues a grant at most.
LEMMA PlansFrame ==
  ASSUME GrantsSound, PlansRest(plans'), wanted' = wanted,
         \/ UNCHANGED <<grants, turn>>
         \/ /\ grants' \in [Turns -> Grants \cup {NoGrant}]
            /\ turn' \in [Turns -> {"idle", "running", "settling", "over"}]
            /\ GrantEndsWithTurn',
         \A c \in ApiCalls : apiCall'[c] = apiCall[c] \/ apiCall'[c] = IdleApi,
         DOMAIN apiCall' = ApiCalls,
         completedBy' = completedBy \/ (CompletesOwnRun /\ CompletionsTyped)',
         UNCHANGED <<projectMembers, grantClock, plansMade, apiCalls, quotaCrossed>>
  PROVE  GrantsSound'
<1>1. ArmedByUser' /\ Standing' <= Standing BY PlansRestSound
<1>2. GrantEndsWithTurn' BY DEF GrantsSound, GrantsInvariant, GrantEndsWithTurn
<1>3. GrantsTypeOK'
 <2>1. /\ grants' \in [Turns -> Grants \cup {NoGrant}]
       /\ turn' \in [Turns -> {"idle", "running", "settling", "over"}]
  BY GrantTypes
 <2>2. plans' \in [PlanIds -> Plans \cup {NoPlan}] BY DEF PlansRest
 <2> QED BY <2>1, <2>2, GrantTypes DEF GrantsTypeOK
<1> QED BY <1>1, <1>2, <1>3, GrantsFrame

LEMMA FireTurnSound ==
  ASSUME GrantsSound, NEW t \in Turns, NEW p \in PlanIds, FireTurn(t, p)
  PROVE  GrantsSound'
<1>1. DOMAIN apiCall' = ApiCalls /\ \A c \in ApiCalls : apiCall'[c] = apiCall[c] BY GrantTypes DEF FireTurn
<1>2. CASE Claimed(t, p) BY <1>1, <1>2, ClaimedTypes, PlansFrame DEF FireTurn
<1>3. CASE ~Claimed(t, p)
 <2>1. PICK st \in {"error", "completed"} : plans' = Stopped(p, st) BY <1>3 DEF FireTurn
 <2>2. PlansRest(plans') BY <2>1, StopRests DEF FireTurn
 <2> QED BY <1>1, <1>3, <2>2, PlansFrame DEF FireTurn
<1> QED BY <1>2, <1>3

LEMMA EndTurnSound ==
  ASSUME GrantsSound, NEW t \in Turns, EndTurn(t)
  PROVE  GrantsSound'
<1>1. /\ grants' \in [Turns -> Grants \cup {NoGrant}]
      /\ turn' \in [Turns -> {"idle", "running", "settling", "over"}]
 BY GrantTypes DEF EndTurn, Revoked
<1>2. GrantEndsWithTurn' BY GrantTypes DEF EndTurn, Revoked, GrantsSound, GrantsInvariant, GrantEndsWithTurn
<1>3. PlansRest(plans') BY GrantTypes DEF EndTurn, PlansRest
<1>4. DOMAIN apiCall' = ApiCalls /\ \A c \in ApiCalls : apiCall'[c] = apiCall[c] BY GrantTypes DEF EndTurn
<1> QED BY <1>1, <1>2, <1>3, <1>4, PlansFrame DEF EndTurn

LEMMA SettledRests ==
  ASSUME NEW plan \in Plans, NEW last \in BOOLEAN
  PROVE  /\ Settled(plan, last) \in Plans /\ Settled(plan, last).text = plan.text
         /\ Settled(plan, last).enabled => plan.enabled
         /\ Counts(Settled(plan, last)) => Counts(plan)
<1>1. CASE last /\ plan.enabled
 <2> DEFINE new == [plan EXCEPT !.run = NoTurn, !.enabled = FALSE, !.status = "completed"]
 <2>1. Settled(plan, last) = new BY <1>1 DEF Settled
 <2>2. new \in Plans /\ new.text = plan.text /\ new.enabled = FALSE /\ new.status = "completed" BY DEF Plans
 <2> HIDE DEF new
 <2> QED BY <2>1, <2>2 DEF Counts
<1>2. CASE ~(last /\ plan.enabled)
 <2> DEFINE new == [plan EXCEPT !.run = NoTurn]
 <2>1. Settled(plan, last) = new BY <1>2 DEF Settled
 <2>2. new \in Plans /\ new.text = plan.text /\ new.enabled = plan.enabled /\ new.status = plan.status BY DEF Plans
 <2>3. plan # NoPlan BY GrantFacts
 <2> HIDE DEF new
 <2> QED BY <2>1, <2>2, <2>3 DEF Counts
<1> QED BY <1>1, <1>2

LEMMA SettleTurnSound ==
  ASSUME GrantsSound, NEW t \in Turns, SettleTurn(t)
  PROVE  GrantsSound'
<1>1. turn' \in [Turns -> {"idle", "running", "settling", "over"}] BY GrantTypes DEF SettleTurn
<1>2. GrantEndsWithTurn' BY GrantTypes DEF SettleTurn, GrantsSound, GrantsInvariant, GrantEndsWithTurn
<1>3. PlansRest(plans')
 <2>1. PICK last \in BOOLEAN :
         plans' = [p \in PlanIds |-> IF plans[p] # NoPlan /\ plans[p].run = t
                                    THEN Settled(plans[p], last) ELSE plans[p]]
  BY DEF SettleTurn
 <2>2. ASSUME NEW p \in PlanIds
       PROVE  /\ plans'[p] \in Plans \cup {NoPlan}
              /\ plans'[p] # NoPlan =>
                   /\ plans[p] # NoPlan /\ plans'[p].text = plans[p].text
                   /\ plans'[p].enabled => plans[p].enabled
                   /\ Counts(plans'[p]) => Counts(plans[p])
  <3>1. CASE plans[p] # NoPlan /\ plans[p].run = t
   <4>1. plans'[p] = Settled(plans[p], last) /\ plans[p] \in Plans BY <2>1, <3>1, GrantTypes
   <4> QED BY <3>1, <4>1, SettledRests
  <3>2. CASE ~(plans[p] # NoPlan /\ plans[p].run = t)
   <4>1. plans'[p] = plans[p] BY <2>1, <3>2
   <4> QED BY <4>1, GrantTypes
  <3> QED BY <3>1, <3>2
 <2> QED BY <2>1, <2>2 DEF PlansRest
<1>4. DOMAIN apiCall' = ApiCalls /\ \A c \in ApiCalls : apiCall'[c] = apiCall[c] BY GrantTypes DEF SettleTurn
<1> QED BY <1>1, <1>2, <1>3, <1>4, GrantTypes, PlansFrame DEF SettleTurn

\* A request is let in: it names an account and a task.
LEMMA ReadFirstSound ==
  ASSUME GrantsSound, NEW c \in ApiCalls, NEW call, CallSound(call), ReadFirst(c, call)
  PROVE  GrantsSound'
<1> DEFINE crosses == call.op = "create" /\ \E d \in ApiCalls : apiCall[d].op = "create"
<1>1. /\ apiCall' = [apiCall EXCEPT ![c] = call] /\ apiCalls' = apiCalls + 1 /\ apiCalls < MaxApiCalls
      /\ quotaCrossed' = (quotaCrossed \/ crosses)
      /\ UNCHANGED <<plans, grants, turn, projectMembers, grantClock, plansMade, wanted, completedBy>>
 BY DEF ReadFirst
<1>2. call.op = "create" => Standing < TaskQuota BY DEF ReadFirst, Passes, WithinQuota
<1>3. GrantsTypeOK'
 <2>1. apiCalls' \in 0..MaxApiCalls BY <1>1, GrantTypes
 <2>2. DOMAIN apiCall' = ApiCalls BY <1>1, GrantTypes
 <2>3. quotaCrossed' \in BOOLEAN BY <1>1, GrantTypes
 <2> QED BY <1>1, <2>1, <2>2, <2>3, GrantTypes DEF GrantsTypeOK
<1>4. (ArmedByUser /\ GrantEndsWithTurn /\ CompletesOwnRun /\ CompletionsTyped)'
 BY <1>1 DEF GrantsSound, GrantsInvariant, ArmedByUser, GrantEndsWithTurn, CompletesOwnRun, CompletionsTyped
<1>5. CallsSound'
 <2> SUFFICES ASSUME NEW d \in ApiCalls PROVE apiCall'[d] = IdleApi \/ CallSound(apiCall'[d]) BY DEF CallsSound, CallSound
 <2>1. apiCall'[d] = IF d = c THEN call ELSE apiCall[d] BY <1>1, GrantTypes
 <2> QED BY <2>1 DEF GrantsSound, CallsSound
<1>6. Standing' = Standing BY <1>1, StandingCounts
<1>7. QuotaKept' BY <1>1, <1>6, GrantFacts DEF GrantsSound, GrantsInvariant, QuotaKept
<1>8. QuotaSound'
 <2> SUFFICES ASSUME ~quotaCrossed', NEW d \in ApiCalls, apiCall'[d].op = "create"
               PROVE  Standing' < TaskQuota /\ \A e \in ApiCalls : apiCall'[e].op = "create" => e = d
  BY DEF QuotaSound
 <2>1. ~quotaCrossed /\ ~crosses BY <1>1
 <2>2. \A e \in ApiCalls : apiCall'[e] = IF e = c THEN call ELSE apiCall[e] BY <1>1, GrantTypes
 <2>3. CASE call.op = "create"
  <3>1. \A e \in ApiCalls : apiCall[e].op # "create" BY <2>1, <2>3
  <3> HIDE DEF crosses
  <3> QED BY <1>2, <1>6, <2>2, <2>3, <3>1
 <2>4. CASE call.op # "create"
  <3>1. d # c /\ apiCall[d].op = "create" BY <2>2, <2>4
  <3> HIDE DEF crosses
  <3> QED BY <1>6, <2>1, <2>2, <2>4, <3>1 DEF GrantsSound, QuotaSound
 <2> QED BY <2>3, <2>4
<1> QED BY <1>3, <1>4, <1>5, <1>7, <1>8 DEF GrantsSound, GrantsInvariant

LEMMA HandleUserSound ==
  ASSUME GrantsSound, NEW c \in ApiCalls, HandleUser(c)
  PROVE  GrantsSound'
<1>1. PICK who \in Accounts, op \in UserWrites \cup {"create"}, p \in PlanIds :
        ReadFirst(c, [op |-> op, by |-> "user", who |-> who, admin |-> who \in AdminAccounts,
                      turn |-> NoTurn, plan |-> p])
 BY DEF HandleUser
<1> DEFINE adm == who \in AdminAccounts
<1> HIDE DEF adm
<1> DEFINE call == [op |-> op, by |-> "user", who |-> who, admin |-> adm, turn |-> NoTurn, plan |-> p]
<1>2. CallSound(call) BY DEF CallSound
<1>3. ReadFirst(c, call) BY <1>1 DEF adm
<1> HIDE DEF call
<1> QED BY <1>2, <1>3, ReadFirstSound

LEMMA HandleAgentSound ==
  ASSUME GrantsSound, NEW c \in ApiCalls, HandleAgent(c)
  PROVE  GrantsSound'
<1>1. PICK t \in Turns, op \in AgentWrites \cup {"create", "complete"}, p \in PlanIds :
        /\ GrantResolves(t)
        /\ ReadFirst(c, [op |-> op, by |-> "agent", who |-> grants[t].owner, admin |-> grants[t].admin,
                         turn |-> t, plan |-> p])
 BY DEF HandleAgent
<1> DEFINE call == [op |-> op, by |-> "agent", who |-> grants[t].owner, admin |-> grants[t].admin,
                     turn |-> t, plan |-> p]
<1>2. grants[t].owner \in Accounts BY <1>1, GrantTypes DEF GrantResolves, Grants
<1>3. CallSound(call) BY <1>2 DEF CallSound, AgentWrites, UserWrites
<1>4. ReadFirst(c, call) BY <1>1
<1> HIDE DEF call
<1> QED BY <1>3, <1>4, ReadFirstSound

LEMMA RepliesTypes ==
  ASSUME GrantsSound, NEW c \in ApiCalls, Replies(c)
  PROVE  /\ DOMAIN apiCall' = ApiCalls
         /\ \A d \in ApiCalls : apiCall'[d] = IF d = c THEN IdleApi ELSE apiCall[d]
BY GrantTypes DEF Replies

LEMMA StorePlanSound ==
  ASSUME GrantsSound, NEW c \in ApiCalls, StorePlan(c)
  PROVE  GrantsSound'
<1> DEFINE call == apiCall[c]
            n == plansMade + 1
            byUser == call.by = "user"
            new == NewPlan(call)
<1>1. /\ call.op = "create" /\ Replies(c)
      /\ plansMade < MaxPlans /\ plansMade' = n
      /\ plans' = [plans EXCEPT ![n] = new]
      /\ wanted' = [wanted EXCEPT ![n] = IF byUser THEN n ELSE 0]
      /\ UNCHANGED <<grants, turn, projectMembers, grantClock, apiCalls, completedBy, quotaCrossed>>
 BY DEF StorePlan
<1>2. CallSound(call) BY <1>1 DEF GrantsSound, CallsSound, IdleApi
<1>3. n \in PlanIds /\ n \in Nat /\ n \in 0..MaxPlans BY <1>1, GrantTypes DEF PlanIds
<1>4. new \in Plans /\ new.text = n /\ (new.enabled => byUser)
 <2> DEFINE byAg == call.by = "agent"
             st == IF call.by = "user" THEN "active" ELSE "paused"
 <2>1. new = [owner |-> call.who, byAgent |-> byAg, enabled |-> byUser, status |-> st, text |-> n, run |-> NoTurn] BY DEF NewPlan
 <2>2. call.who \in Accounts /\ byAg \in BOOLEAN /\ byUser \in BOOLEAN /\ st \in {"active", "paused"} BY <1>2 DEF CallSound
 <2> HIDE DEF new, byAg, byUser, st, call, n
 <2> QED BY <1>3, <2>1, <2>2 DEF Plans
<1>5. \A d \in ApiCalls : apiCall'[d] = IF d = c THEN IdleApi ELSE apiCall[d] BY <1>1, RepliesTypes
<1>6. DOMAIN apiCall' = ApiCalls BY <1>1, RepliesTypes
<1> HIDE DEF new, byUser, n
<1>7. GrantsTypeOK'
 <2>1. plans' \in [PlanIds -> Plans \cup {NoPlan}] BY <1>1, <1>4, GrantTypes
 <2>2. wanted' \in [PlanIds -> Nat] BY <1>1, <1>3, GrantTypes
 <2> QED BY <1>1, <1>3, <1>6, <2>1, <2>2, GrantTypes DEF GrantsTypeOK
<1>8. ArmedByUser'
 <2> SUFFICES ASSUME NEW p \in PlanIds, plans'[p] # NoPlan, plans'[p].enabled
               PROVE  wanted'[p] = plans'[p].text
  BY DEF ArmedByUser
 <2>1. CASE p = n BY <1>1, <1>3, <1>4, <2>1, GrantTypes
 <2>2. CASE p # n BY <1>1, <1>3, <2>2, GrantTypes DEF GrantsSound, GrantsInvariant, ArmedByUser
 <2> QED BY <2>1, <2>2
<1>9. (GrantEndsWithTurn /\ CompletesOwnRun /\ CompletionsTyped)'
 BY <1>1 DEF GrantsSound, GrantsInvariant, GrantEndsWithTurn, CompletesOwnRun, CompletionsTyped
<1>10. CallsSound' BY <1>5 DEF GrantsSound, CallsSound, CallSound
<1>11. Standing' <= Standing + 1
 <2>1. \A p \in PlanIds \ {n} : plans'[p] = plans[p] BY <1>1, GrantTypes
 <2>2. Cardinality(Counting(plans')) <= Cardinality(Counting(plans)) + 1 BY <1>3, <2>1, CountingOneMore
 <2> QED BY <2>2, StandingCounts
<1>12. ~quotaCrossed => Standing < TaskQuota /\ \A d \in ApiCalls : apiCall[d].op = "create" => d = c
 BY <1>1 DEF GrantsSound, QuotaSound
<1>13. QuotaKept' BY <1>1, <1>11, <1>12, StandingCounts, GrantFacts DEF QuotaKept
<1>14. QuotaSound'
 <2>1. ~quotaCrossed => \A d \in ApiCalls : apiCall'[d].op # "create" BY <1>5, <1>12 DEF IdleApi
 <2> QED BY <1>1, <2>1 DEF QuotaSound
<1> QED BY <1>7, <1>8, <1>9, <1>10, <1>13, <1>14 DEF GrantsSound, GrantsInvariant

LEMMA UpdatePlanSound ==
  ASSUME GrantsSound, NEW c \in ApiCalls, UpdatePlan(c)
  PROVE  GrantsSound'
<1> DEFINE call == apiCall[c]
            p == call.plan
            new == Updated(plans[p], call.op, MaxPlans + apiCalls)
            arms == call.by = "user" /\ call.op # "pause"
            again == ~Counts(plans[p]) /\ Counts(new)
<1>1. /\ call.op \in {"edit", "arm", "pause"} /\ Replies(c)
      /\ UNCHANGED <<grants, turn, projectMembers, grantClock, plansMade, apiCalls, completedBy>>
 BY DEF UpdatePlan
<1>2. IF plans[p] = NoPlan THEN UNCHANGED <<plans, wanted, quotaCrossed>>
      ELSE /\ plans' = [plans EXCEPT ![p] = new]
           /\ wanted' = [wanted EXCEPT ![p] = IF arms THEN new.text ELSE @]
           /\ quotaCrossed' = (quotaCrossed \/ again)
 BY DEF UpdatePlan
<1>3. p \in PlanIds /\ (call.by # "user" => call.op = "pause")
 <2>1. CallSound(call) BY <1>1 DEF GrantsSound, CallsSound, IdleApi
 <2> QED BY <1>1, <2>1 DEF CallSound, AgentWrites
<1>4. DOMAIN apiCall' = ApiCalls /\ \A d \in ApiCalls : apiCall'[d] = apiCall[d] \/ apiCall'[d] = IdleApi BY <1>1, RepliesTypes
<1>5. (GrantEndsWithTurn /\ CompletesOwnRun /\ CompletionsTyped)'
 BY <1>1 DEF GrantsSound, GrantsInvariant, GrantEndsWithTurn, CompletesOwnRun, CompletionsTyped
<1>6. CASE plans[p] = NoPlan
 <2>1. GrantsTypeOK' BY <1>1, <1>2, <1>4, <1>6, GrantTypes DEF GrantsTypeOK
 <2>2. ArmedByUser' BY <1>2, <1>6 DEF GrantsSound, GrantsInvariant, ArmedByUser
 <2>3. Standing' <= Standing BY <1>2, <1>6, StandingCounts
 <2>4. quotaCrossed' = quotaCrossed BY <1>2, <1>6
 <2> HIDE DEF call, p, new, arms, again
 <2> QED BY <1>1, <1>4, <1>5, <2>1, <2>2, <2>3, <2>4, GrantsFrame
<1>7. CASE plans[p] # NoPlan
 <2>1. plans[p] \in Plans /\ MaxPlans + apiCalls \in Nat BY <1>3, <1>7, GrantTypes
 <2>2. /\ new \in Plans
       /\ new.enabled => (arms \/ new = plans[p]) \/ (new.text = plans[p].text /\ plans[p].enabled)
       /\ call.op = "pause" => new.enabled = FALSE
  <3>1. CASE call.op = "edit"
   <4>1. new = [plans[p] EXCEPT !.text = MaxPlans + apiCalls] BY <3>1 DEF Updated
   <4>2. arms BY <1>3, <3>1
   <4> QED BY <2>1, <3>1, <4>1, <4>2, PlanChanges
  <3>2. CASE call.op = "arm"
   <4>1. new = [plans[p] EXCEPT !.enabled = TRUE, !.status = "active"] BY <3>2 DEF Updated
   <4>2. arms BY <1>3, <3>2
   <4> QED BY <2>1, <3>2, <4>1, <4>2, PlanChanges
  <3>3. CASE call.op = "pause"
   <4>1. new = [plans[p] EXCEPT !.enabled = FALSE, !.status = "paused"] BY <3>3 DEF Updated
   <4>2. new.enabled = FALSE BY <2>1, <4>1 DEF Plans
   <4> QED BY <2>1, <4>1, <4>2, PlanChanges
  <3> QED BY <1>1, <3>1, <3>2, <3>3
 <2>3. /\ plans' = [plans EXCEPT ![p] = new]
       /\ wanted' = [wanted EXCEPT ![p] = IF arms THEN new.text ELSE @]
       /\ quotaCrossed' = (quotaCrossed \/ again)
  BY <1>2, <1>7
 <2>4. call.op = "pause" \/ arms BY <1>1, <1>3
 <2>5. ~again => (Counts(new) => Counts(plans[p])) OBVIOUS
 <2>6. again \in BOOLEAN /\ arms \in BOOLEAN OBVIOUS
 <2> HIDE DEF new, arms, again, call, p
 <2>7. GrantsTypeOK'
  <3>1. plans' \in [PlanIds -> Plans \cup {NoPlan}] BY <2>2, <2>3, GrantTypes
  <3>2. wanted' \in [PlanIds -> Nat]
   <4>1. new.text \in Nat BY <2>2 DEF Plans
   <4> QED BY <1>3, <2>3, <4>1, GrantTypes
  <3>3. quotaCrossed' \in BOOLEAN BY <2>3, <2>6, GrantTypes
  <3> QED BY <1>1, <1>4, <3>1, <3>2, <3>3, GrantTypes DEF GrantsTypeOK
 <2>8. ArmedByUser'
  <3> SUFFICES ASSUME NEW r \in PlanIds, plans'[r] # NoPlan, plans'[r].enabled
                PROVE  wanted'[r] = plans'[r].text
   BY DEF ArmedByUser
  <3>1. CASE r = p
   <4>1. plans'[r] = new BY <1>3, <2>3, <3>1, GrantTypes
   <4>2. arms BY <2>2, <2>4, <4>1
   <4> QED BY <1>3, <2>3, <3>1, <4>1, <4>2, GrantTypes
  <3>2. CASE r # p BY <1>3, <2>3, <3>2, GrantTypes DEF GrantsSound, GrantsInvariant, ArmedByUser
  <3> QED BY <3>1, <3>2
 <2>9. ~quotaCrossed' => Standing' <= Standing
  <3> SUFFICES ASSUME ~quotaCrossed' PROVE Standing' <= Standing OBVIOUS
  <3>1. \A r \in PlanIds : Counts(plans'[r]) => Counts(plans[r]) BY <1>3, <2>3, <2>5, GrantTypes
  <3>2. Cardinality(Counting(plans')) <= Cardinality(Counting(plans)) BY <3>1, CountingKept
  <3> QED BY <3>2, StandingCounts
 <2>10. quotaCrossed => quotaCrossed' BY <2>3
 <2> QED BY <1>1, <1>4, <1>5, <2>7, <2>8, <2>9, <2>10, GrantsFrame
<1> QED BY <1>6, <1>7

LEMMA DeletePlanSound ==
  ASSUME GrantsSound, NEW c \in ApiCalls, DeletePlan(c)
  PROVE  GrantsSound'
<1>1. DOMAIN apiCall' = ApiCalls /\ \A d \in ApiCalls : apiCall'[d] = apiCall[d] \/ apiCall'[d] = IdleApi
 BY RepliesTypes DEF DeletePlan
<1>2. PlansRest(plans') BY GrantTypes DEF DeletePlan, PlansRest
<1> QED BY <1>1, <1>2, PlansFrame DEF DeletePlan

\* A skipped run shows its task as active; it is not on the clock for that.
LEMMA SkippedTypes ==
  ASSUME GrantsSound, NEW p \in PlanIds, plans[p] # NoPlan, plans' = Skipped(p), wanted' = wanted
  PROVE  /\ plans' \in [PlanIds -> Plans \cup {NoPlan}] /\ ArmedByUser'
         /\ Counts(plans[p]) => Standing' <= Standing
<1>1. CASE plans[p].run # NoTurn BY <1>1, GrantTypes, StandingCounts DEF Skipped, GrantsSound, GrantsInvariant, ArmedByUser
<1>2. CASE plans[p].run = NoTurn
 <2> DEFINE new == [plans[p] EXCEPT !.status = "active"]
 <2>1. plans[p] \in Plans BY GrantTypes
 <2>2. new \in Plans /\ new.text = plans[p].text /\ new.enabled = plans[p].enabled BY <2>1 DEF Plans
 <2>3. plans' = [plans EXCEPT ![p] = new] BY <1>2 DEF Skipped
 <2> HIDE DEF new
 <2>4. plans' \in [PlanIds -> Plans \cup {NoPlan}] BY <2>2, <2>3, GrantTypes
 <2>5. ArmedByUser' BY <2>2, <2>3, GrantTypes, ArmedKept
 <2>6. ASSUME Counts(plans[p]) PROVE Standing' <= Standing
  <3>1. \A r \in PlanIds : Counts(plans'[r]) => Counts(plans[r]) BY <2>3, <2>6, GrantTypes
  <3>2. Cardinality(Counting(plans')) <= Cardinality(Counting(plans)) BY <3>1, CountingKept
  <3> QED BY <3>2, StandingCounts
 <2> QED BY <2>4, <2>5, <2>6
<1> QED BY <1>1, <1>2

LEMMA RunPlanSound ==
  ASSUME GrantsSound, NEW c \in ApiCalls, RunPlan(c)
  PROVE  GrantsSound'
<1> DEFINE p == apiCall[c].plan
<1>1. /\ apiCall[c].op = "run" /\ Replies(c)
      /\ UNCHANGED <<projectMembers, grantClock, plansMade, apiCalls, wanted, completedBy>>
 BY DEF RunPlan
<1>2. p \in PlanIds BY <1>1 DEF GrantsSound, CallsSound, CallSound, IdleApi
<1>3. DOMAIN apiCall' = ApiCalls /\ \A d \in ApiCalls : apiCall'[d] = apiCall[d] \/ apiCall'[d] = IdleApi BY <1>1, RepliesTypes
<1>4. CASE UNCHANGED <<plans, grants, turn, quotaCrossed>>
 <2>1. PlansRest(plans') BY <1>4, GrantTypes DEF PlansRest
 <2> QED BY <1>1, <1>3, <1>4, <2>1, PlansFrame
<1>5. ASSUME plans[p] # NoPlan, NEW st \in {"error", "completed"}, plans' = Stopped(p, st),
             UNCHANGED <<grants, turn, quotaCrossed>>
      PROVE  GrantsSound'
 <2>1. PlansRest(plans') BY <1>2, <1>5, StopRests
 <2> QED BY <1>1, <1>3, <1>5, <2>1, PlansFrame
<1>6. ASSUME plans[p] # NoPlan, NEW t \in Turns, Claimed(t, p), UNCHANGED quotaCrossed
      PROVE  GrantsSound'
 <2>1. /\ PlansRest(plans')
       /\ grants' \in [Turns -> Grants \cup {NoGrant}]
       /\ turn' \in [Turns -> {"idle", "running", "settling", "over"}]
       /\ GrantEndsWithTurn'
  BY <1>2, <1>6, ClaimedTypes
 <2> QED BY <1>1, <1>3, <1>6, <2>1, PlansFrame
<1>7. ASSUME plans[p] # NoPlan, plans' = Skipped(p), UNCHANGED <<grants, turn>>,
             quotaCrossed' = (quotaCrossed \/ ~Counts(plans[p]))
      PROVE  GrantsSound'
 <2>1. /\ plans' \in [PlanIds -> Plans \cup {NoPlan}] /\ ArmedByUser'
       /\ Counts(plans[p]) => Standing' <= Standing
  BY <1>1, <1>2, <1>7, SkippedTypes
 <2>2. quotaCrossed' \in BOOLEAN /\ (quotaCrossed => quotaCrossed') /\ (~quotaCrossed' => Counts(plans[p])) BY <1>7, GrantTypes
 <2>3. GrantsTypeOK' BY <1>1, <1>3, <1>7, <2>1, <2>2, GrantTypes DEF GrantsTypeOK
 <2>4. GrantEndsWithTurn' BY <1>7 DEF GrantsSound, GrantsInvariant, GrantEndsWithTurn
 <2> QED BY <1>1, <1>3, <2>1, <2>2, <2>3, <2>4, GrantsFrame
<1>8. CASE plans[p] = NoPlan
 <2>1. UNCHANGED <<plans, grants, turn, quotaCrossed>> BY <1>8 DEF RunPlan
 <2> QED BY <1>4, <2>1
<1>9. CASE plans[p] # NoPlan /\ ~MayRun(plans[p].owner)
 <2>1. plans' = Stopped(p, "error") /\ UNCHANGED <<grants, turn, quotaCrossed>> BY <1>9 DEF RunPlan
 <2> QED BY <1>5, <1>9, <2>1
<1>10. CASE plans[p] # NoPlan /\ MayRun(plans[p].owner)
 <2>1. \/ (\E t \in Turns : Claimed(t, p)) /\ UNCHANGED quotaCrossed
       \/ UNCHANGED <<plans, grants, turn, quotaCrossed>>
       \/ /\ \/ plans' = Stopped(p, "completed") /\ UNCHANGED quotaCrossed
             \/ plans' = Skipped(p) /\ quotaCrossed' = (quotaCrossed \/ ~Counts(plans[p]))
          /\ UNCHANGED <<grants, turn>>
  BY <1>10 DEF RunPlan
 <2> HIDE DEF p
 <2>2. CASE (\E t \in Turns : Claimed(t, p)) /\ UNCHANGED quotaCrossed BY <1>6, <1>10, <2>2
 <2>3. CASE plans' = Stopped(p, "completed") /\ UNCHANGED quotaCrossed /\ UNCHANGED <<grants, turn>> BY <1>5, <1>10, <2>3
 <2>4. CASE /\ plans' = Skipped(p) /\ quotaCrossed' = (quotaCrossed \/ ~Counts(plans[p]))
            /\ UNCHANGED <<grants, turn>>
  BY <1>7, <1>10, <2>4
 <2> QED BY <1>4, <2>1, <2>2, <2>3, <2>4
<1> QED BY <1>8, <1>9, <1>10

LEMMA CompletePlanSound ==
  ASSUME GrantsSound, NEW c \in ApiCalls, CompletePlan(c)
  PROVE  GrantsSound'
<1> DEFINE call == apiCall[c]
            p == call.plan
<1>1. /\ call.op = "complete" /\ Replies(c)
      /\ UNCHANGED <<grants, turn, projectMembers, grantClock, plansMade, apiCalls, wanted, quotaCrossed>>
 BY DEF CompletePlan
<1>2. p \in PlanIds /\ call.turn \in Turns \cup {NoTurn} BY <1>1 DEF GrantsSound, CallsSound, CallSound, IdleApi
<1>3. DOMAIN apiCall' = ApiCalls /\ \A d \in ApiCalls : apiCall'[d] = apiCall[d] \/ apiCall'[d] = IdleApi BY <1>1, RepliesTypes
<1>4. CASE plans[p] # NoPlan /\ OwnClaim(p, call.turn)
 <2>1. /\ plans' = Stopped(p, "completed") /\ plans[p].run = call.turn
       /\ completedBy' = [completedBy EXCEPT ![p] = <<call.turn, plans[p].run>>]
  BY <1>4 DEF CompletePlan, OwnClaim
 <2>2. PlansRest(plans') BY <1>2, <1>4, <2>1, StopRests
 <2>3. (CompletesOwnRun /\ CompletionsTyped)'
  <3>1. completedBy \in [PlanIds -> (Turns \cup {NoTurn}) \X (Turns \cup {NoTurn})] BY DEF GrantsSound, CompletionsTyped
  <3> DEFINE both == <<call.turn, plans[p].run>>
  <3>2. both \in (Turns \cup {NoTurn}) \X (Turns \cup {NoTurn}) /\ both[1] = both[2] BY <1>2, <2>1
  <3>3. completedBy' = [completedBy EXCEPT ![p] = both] BY <2>1
  <3> HIDE DEF both, call, p
  <3> QED BY <1>2, <3>1, <3>2, <3>3 DEF GrantsSound, GrantsInvariant, CompletesOwnRun, CompletionsTyped
 <2> QED BY <1>1, <1>3, <2>2, <2>3, PlansFrame
<1>5. CASE ~(plans[p] # NoPlan /\ OwnClaim(p, call.turn))
 <2>1. plans' = plans /\ completedBy' = completedBy BY <1>5 DEF CompletePlan
 <2>2. PlansRest(plans') BY <2>1, GrantTypes DEF PlansRest
 <2> QED BY <1>1, <1>3, <2>1, <2>2, PlansFrame
<1> QED BY <1>4, <1>5

LEMMA OutsideGrantsSound ==
  ASSUME GrantsSound, MembershipChanges \/ GrantClockTicks
  PROVE  GrantsSound'
<1>1. UNCHANGED <<plans, grants, turn, apiCall, plansMade, wanted, completedBy, quotaCrossed>>
 BY DEF MembershipChanges, GrantClockTicks
<1>2. GrantsTypeOK'
 <2>1. apiCalls' \in 0..MaxApiCalls /\ grantClock' \in 0..MaxGrantClock BY GrantTypes DEF MembershipChanges, GrantClockTicks
 <2>2. projectMembers' \subseteq Accounts BY GrantTypes DEF MembershipChanges, GrantClockTicks
 <2> QED BY <1>1, <2>1, <2>2, GrantTypes DEF GrantsTypeOK
<1>3. ArmedByUser' /\ GrantEndsWithTurn' BY <1>1 DEF GrantsSound, GrantsInvariant, ArmedByUser, GrantEndsWithTurn
<1>4. Standing' <= Standing BY <1>1, StandingCounts
<1> QED BY <1>1, <1>2, <1>3, <1>4, GrantsFrame

LEMMA GrantsStep ==
  ASSUME GrantsSound, GrantsNext
  PROVE  GrantsSound'
BY PromptTurnSound, EndTurnSound, SettleTurnSound, FireTurnSound, HandleUserSound, HandleAgentSound,
   StorePlanSound, UpdatePlanSound, DeletePlanSound, RunPlanSound, CompletePlanSound,
   OutsideGrantsSound DEF GrantsNext

LEMMA GrantsRest ==
  ASSUME GrantsSound, UNCHANGED grantVars
  PROVE  GrantsSound'
<1>1. UNCHANGED <<plans, grants, turn, apiCall, projectMembers, grantClock, plansMade, apiCalls, wanted,
                  completedBy, quotaCrossed>>
 BY DEF grantVars
<1>2. GrantsTypeOK' /\ ArmedByUser' /\ GrantEndsWithTurn'
 BY <1>1 DEF GrantsSound, GrantsInvariant, GrantsTypeOK, ArmedByUser, GrantEndsWithTurn
<1>3. Standing' <= Standing BY <1>1, StandingCounts
<1> QED BY <1>1, <1>2, <1>3, GrantsFrame

\* Theorem: the schedule API obeys the grant of the turn that calls it: what is on the clock
\* is what a user wrote or armed, a grant ends with its turn, a turn completes its own run
\* only, and the quota holds but for creations that cross and tasks that come to count again.
THEOREM GrantsKept == Spec => []GrantsObeyed
<1>1. Init => GrantsSound BY InitGrantsSound DEF Init
<1>2. GrantsSound /\ [Next]_vars => GrantsSound'
 <2> SUFFICES ASSUME GrantsSound, [Next]_vars PROVE GrantsSound' OBVIOUS
 <2>1. CASE GrantsNext BY <2>1, GrantsStep
 <2>2. CASE UNCHANGED grantVars BY <2>2, GrantsRest
 <2> QED BY <2>1, <2>2 DEF Next, OffStage, vars
<1>3. GrantsSound => GrantsObeyed BY DEF GrantsSound, GrantsObeyed
<1> QED BY <1>1, <1>2, <1>3, PTL DEF Spec

----
\* Projects: what the server keeps about them in six places.

Locking == {"start", "upgrade", "delete"}
Launching == {"create", "start", "upgrade"}
Setting == {"set", "unset"}

\* How far a request may be.
StageSound(c) ==
  /\ recordCall[c].op = "create" => Step(c) \in {"seed", "ensure", "list", "apply"}
  /\ recordCall[c].op = "start" => Step(c) \in {"ensure", "list", "apply"}
  /\ recordCall[c].op = "upgrade" => Step(c) \in {"drop", "ensure", "list", "apply"}
  /\ recordCall[c].op \in Setting => Step(c) \in {"store", "list", "file", "apply"}
  /\ recordCall[c].op = "limit" => Step(c) \in {"instance", "record"}
  /\ recordCall[c].op = "join" => Step(c) = "add"
  /\ recordCall[c].op = "leave" => Step(c) = "remove"
  /\ recordCall[c].op = "delete" =>
       Step(c) \in {"container", "secrets", "access", "meta", "workspace", "slug"}
  /\ recordCall[c].op = "none" => recordCall[c] = IdleCall

\* A request under way names a project that was made, and its slug while there is one.
RequestSound(c) ==
  /\ recordCall[c].op # "none" =>
       /\ IdOf(c) \in 1..projectsMade /\ SlugOf(c) \in Slugs
       /\ metas[IdOf(c)] # NoMeta => SlugOf(c) = metas[IdOf(c)].slug
  /\ recordCall[c].op = "set" => ValueOf(c) # 0
  /\ recordCall[c].op = "unset" => ValueOf(c) = 0
  /\ recordCall[c].op \in {"create", "upgrade"} => recordCall[c].flag

\* The run-state lock: who starts, upgrades or deletes a project does so alone, and a
\* deletion holds the slug to the end.
LockSound(c) ==
  recordCall[c].op \in Locking =>
    /\ IdOf(c) \in runState
    /\ \A d \in RecordCalls : recordCall[d].op \in Locking /\ IdOf(d) = IdOf(c) => d = c
    /\ recordCall[c].op = "delete" => bySlug[SlugOf(c)] = IdOf(c)
    /\ metas[IdOf(c)] # NoMeta <=> Step(c) \notin {"workspace", "slug"}

RequestsSound == \A c \in RecordCalls : StageSound(c) /\ RequestSound(c) /\ LockSound(c)

\* The index and the records: what is indexed is a project or has a deletion that is
\* about to release its slug.
IndexSound ==
  /\ \A id \in Live : id <= projectsMade /\ bySlug[metas[id].slug] = id
  /\ \A s \in Slugs : bySlug[s] # 0 =>
       /\ bySlug[s] \in 1..projectsMade
       /\ metas[bySlug[s]] # NoMeta => metas[bySlug[s]].slug = s
       /\ metas[bySlug[s]] = NoMeta => \E d \in RecordCalls :
            recordCall[d].op = "delete" /\ IdOf(d) = bySlug[s] /\ SlugOf(d) = s
  /\ \A i, j \in Live : i # j => metas[i].name # metas[j].name

\* What lies under a slug is its project's, and nothing under one that is free; a start
\* that found a container still has it.
SpaceSound(s) ==
  /\ ~containers[s].there => containers[s] = NoContainer
  /\ s \notin soiled =>
       /\ bySlug[s] = 0 => workspaces[s] = NoWorkspace /\ containers[s] = NoContainer
       /\ workspaces[s].of \cup containers[s].of \subseteq {bySlug[s]}
       /\ containers[s].there => workspaces[s].of = {bySlug[s]}
       /\ \A d \in RecordCalls : recordCall[d].op = "delete" /\ SlugOf(d) = s =>
            /\ Step(d) # "container" => containers[s] = NoContainer
            /\ Step(d) = "slug" => workspaces[s] = NoWorkspace
  /\ \A d \in RecordCalls :
       recordCall[d].op = "start" /\ SlugOf(d) = s /\ Step(d) = "ensure" /\ ~recordCall[d].flag =>
         containers[s].there

\* The requests on a project.
On(c, id, ops) == IdOf(c) = id /\ recordCall[c].op \in ops
Alone(id, ops) == \A c, d \in RecordCalls : On(c, id, ops) /\ On(d, id, ops) => c = d

FileSound(id) ==
  \/ Excused(id, "file")
  \/ /\ Alone(id, EnvOps)
     /\ (\A c \in RecordCalls : On(c, id, Setting) => Step(c) = "apply") =>
          workspaces[metas[id].slug].env = secrets[id]
     /\ \A c \in RecordCalls : On(c, id, Setting) /\ Step(c) = "file" => recordCall[c].listed = secrets[id]

EnvSound(id) ==
  LET box == containers[metas[id].slug]
  IN  \/ Excused(id, "env")
      \/ /\ Alone(id, EnvOps)
         /\ (\A c \in RecordCalls : On(c, id, EnvOps) => Step(c) \in {"seed", "ensure"}) =>
              (box.there => box.env = secrets[id])
         /\ \A c \in RecordCalls : On(c, id, Setting) /\ Step(c) # "store" =>
              ValueOf(c) = secrets[id] \/ ~box.there
         /\ \A c \in RecordCalls : On(c, id, Launching) /\ Step(c) \in {"list", "apply"} =>
              /\ box.env \in {0, secrets[id]}
              /\ Step(c) = "apply" => ValueOf(c) = secrets[id] \/ ~box.there

LimitSound(id) ==
  LET box == containers[metas[id].slug]
  IN  \/ Excused(id, "limits")
      \/ /\ Alone(id, LimitOps)
         /\ (\A c \in RecordCalls : ~On(c, id, {"limit"})) => (box.there => box.limits = metas[id].limits)
         /\ \A c \in RecordCalls : On(c, id, Launching) /\ Step(c) \in {"seed", "drop", "ensure"} =>
              ValueOf(c) = metas[id].limits
         /\ \A c \in RecordCalls : On(c, id, {"limit"}) /\ Step(c) = "record" =>
              (box.there => box.limits = ValueOf(c))

MemberSound(id) ==
  \/ Excused(id, "members")
  \/ /\ Alone(id, {"leave"})
     /\ (\A c \in RecordCalls : On(c, id, {"create"}) => Step(c) # "seed") => members[id] # {}
     /\ \A c \in RecordCalls : On(c, id, {"leave"}) /\ ~recordCall[c].flag => Cardinality(members[id]) > 1

LeftSound(id) ==
  \/ "left" \in excused[id]
  \/ /\ \A c, d \in RecordCalls : ~(On(c, id, Adding) /\ On(d, id, {"delete"}))
     /\ metas[id] = NoMeta => \A c \in RecordCalls : ~On(c, id, Adding)
     /\ \A d \in RecordCalls : On(d, id, {"delete"}) =>
          /\ Step(d) \notin {"container", "secrets"} => secrets[id] = 0
          /\ Step(d) \notin {"container", "secrets", "access"} => members[id] = {}
     /\ metas[id] = NoMeta /\ (\A d \in RecordCalls : ~On(d, id, {"delete"})) =>
          secrets[id] = 0 /\ members[id] = {}

LiveSound(id) == FileSound(id) /\ EnvSound(id) /\ LimitSound(id) /\ MemberSound(id)
ProjectSound(id) ==
  /\ metas[id] # NoMeta => LiveSound(id)
  /\ LeftSound(id) /\ IsFiniteSet(members[id])

FreshSound(id) == metas[id] = NoMeta /\ secrets[id] = 0 /\ members[id] = {} /\ excused[id] = {}

RecordsSound ==
  /\ RecordsTypeOK /\ RequestsSound /\ IndexSound /\ \A s \in Slugs : SpaceSound(s)
  /\ \A id \in ProjectIds : IF id <= projectsMade THEN ProjectSound(id) ELSE FreshSound(id)

LEMMA RecordFacts ==
  MaxProjects \in Nat /\ MaxRecordCalls \in Nat /\ MaxRecordFaults \in Nat /\ NoMeta \notin Metas
BY ProjectRecordsAssumption

RecordRequests ==
  [op : RecordOps, id : 0..MaxProjects, slug : 0..MaxProjects, at : Stages,
   value : 0..MaxRecordCalls, listed : 0..MaxRecordCalls, flag : BOOLEAN]

LEMMA RequestTypes ==
  ASSUME RecordsTypeOK, NEW c \in RecordCalls
  PROVE  /\ recordCall \in [RecordCalls -> RecordRequests]
         /\ recordCall[c] \in RecordRequests /\ recordCall[c].op \in RecordOps
         /\ IdOf(c) \in 0..MaxProjects /\ SlugOf(c) \in 0..MaxProjects /\ Step(c) \in Stages
         /\ ValueOf(c) \in 0..MaxRecordCalls /\ recordCall[c].listed \in 0..MaxRecordCalls
         /\ recordCall[c].flag \in BOOLEAN
<1>1. recordCall \in [RecordCalls -> RecordRequests] BY DEF RecordsTypeOK, RecordRequests
<1>2. recordCall[c] \in RecordRequests BY <1>1
<1> QED BY <1>1, <1>2 DEF RecordRequests, IdOf, SlugOf, Step, ValueOf

LEMMA IdleTyped == IdleCall \in RecordRequests /\ IdleCall.op = "none" /\ IdleCall.id = 0
<1> DEFINE no == FALSE
<1>1. no \in BOOLEAN OBVIOUS
<1> HIDE DEF no
<1>2. [op |-> "none", id |-> 0, slug |-> 0, at |-> "idle", value |-> 0, listed |-> 0, flag |-> no] \in RecordRequests
 BY <1>1, RecordFacts DEF RecordRequests, RecordOps, Stages
<1>3. IdleCall = [op |-> "none", id |-> 0, slug |-> 0, at |-> "idle", value |-> 0, listed |-> 0, flag |-> no] BY DEF IdleCall, no
<1> QED BY <1>2, <1>3

\* The request c is over or goes on as the same request; the others stay where they are.
MovesOn(c) ==
  /\ recordCall' \in [RecordCalls -> RecordRequests]
  /\ \A d \in RecordCalls \ {c} : recordCall'[d] = recordCall[d]
  /\ \/ recordCall'[c] = IdleCall
     \/ /\ recordCall'[c].op = recordCall[c].op /\ recordCall'[c].id = IdOf(c)
        /\ recordCall'[c].slug = SlugOf(c) /\ recordCall'[c].flag = recordCall[c].flag

LEMMA ProceedsMoves ==
  ASSUME RecordsTypeOK, NEW c \in RecordCalls, NEW at \in Stages, Proceeds(c, at)
  PROVE  /\ MovesOn(c) /\ recordCall'[c].op = recordCall[c].op
         /\ recordCall'[c].id = IdOf(c) /\ recordCall'[c].slug = SlugOf(c)
         /\ recordCall'[c].at = at /\ recordCall'[c].value = ValueOf(c)
         /\ recordCall'[c].listed = recordCall[c].listed /\ recordCall'[c].flag = recordCall[c].flag
<1>1. recordCall \in [RecordCalls -> RecordRequests] /\ recordCall[c] \in RecordRequests BY RequestTypes
<1>2. recordCall' = [recordCall EXCEPT ![c].at = at] BY DEF Proceeds
<1>3. recordCall'[c] = [recordCall[c] EXCEPT !.at = at] /\ \A d \in RecordCalls \ {c} : recordCall'[d] = recordCall[d]
 BY <1>1, <1>2
<1>4. recordCall'[c] \in RecordRequests BY <1>1, <1>3 DEF RecordRequests
<1>5. recordCall' \in [RecordCalls -> RecordRequests] BY <1>1, <1>2, <1>3, <1>4
<1> QED BY <1>1, <1>3, <1>5 DEF MovesOn, RecordRequests, IdOf, SlugOf, ValueOf

LEMMA EndsMoves ==
  ASSUME RecordsTypeOK, NEW c \in RecordCalls, Ends(c)
  PROVE  /\ MovesOn(c) /\ recordCall'[c] = IdleCall /\ recordCall'[c].op = "none"
         /\ runState' \subseteq runState /\ runState \ {IdOf(c)} \subseteq runState'
         /\ recordCall[c].op \notin Locking => runState' = runState
<1>1. recordCall \in [RecordCalls -> RecordRequests] BY RequestTypes
<1>2. recordCall' = [recordCall EXCEPT ![c] = IdleCall] BY DEF Ends
<1>3. recordCall' \in [RecordCalls -> RecordRequests] /\ recordCall'[c] = IdleCall
      /\ \A d \in RecordCalls \ {c} : recordCall'[d] = recordCall[d]
 BY <1>1, <1>2, IdleTyped
<1> QED BY <1>3, IdleTyped DEF MovesOn, Ends, Locking

\* A step that keeps records and index, but for limits, and goes on with a deletion in the
\* part it is in.
LEMMA QuietRequests ==
  ASSUME RecordsTypeOK, RequestsSound, IndexSound,
         NEW c \in RecordCalls, recordCall[c].op # "none", MovesOn(c),
         recordCall'[c] # IdleCall => StageSound(c)' /\ RequestSound(c)',
         projectsMade' = projectsMade, bySlug' = bySlug,
         \A id \in ProjectIds : /\ metas'[id] = NoMeta <=> metas[id] = NoMeta
                                /\ metas[id] # NoMeta => /\ metas'[id].slug = metas[id].slug
                                                         /\ metas'[id].name = metas[id].name,
         runState \ {IdOf(c)} \subseteq runState',
         recordCall'[c] # IdleCall => runState \subseteq runState',
         recordCall[c].op = "delete" /\ recordCall'[c] = IdleCall => metas[IdOf(c)] # NoMeta,
         recordCall[c].op \notin Locking => runState \subseteq runState',
         recordCall[c].op \in Locking /\ recordCall'[c] # IdleCall =>
           (recordCall'[c].at \in {"workspace", "slug"} <=> Step(c) \in {"workspace", "slug"})
  PROVE  RequestsSound' /\ IndexSound'
<1>0. /\ \A d \in RecordCalls : StageSound(d) /\ RequestSound(d) /\ LockSound(d)
      /\ \A d \in RecordCalls : recordCall[d].op # "none" => IdOf(d) \in ProjectIds
      /\ IdleCall.op = "none"
 BY IdleTyped, RecordFacts DEF RequestsSound, RequestSound, RecordsTypeOK, ProjectIds
<1>1. ASSUME NEW d \in RecordCalls PROVE StageSound(d)' /\ RequestSound(d)'
 <2>1. CASE d = c /\ recordCall'[c] # IdleCall BY <2>1
 <2>2. CASE d = c /\ recordCall'[c] = IdleCall BY <2>2, <1>0 DEF StageSound, RequestSound, Step, IdOf, SlugOf, ValueOf, Setting
 <2>3. CASE d # c
  <3>1. recordCall'[d] = recordCall[d] BY <2>3 DEF MovesOn
  <3> QED BY <3>1, <1>0 DEF StageSound, RequestSound, Step, IdOf, SlugOf, ValueOf, Setting
 <2> QED BY <2>1, <2>2, <2>3
<1>2. ASSUME NEW d \in RecordCalls, recordCall'[d].op \in Locking
      PROVE  /\ recordCall[d].op = recordCall'[d].op /\ IdOf(d) = recordCall'[d].id
             /\ SlugOf(d) = recordCall'[d].slug /\ (d = c => recordCall'[c] # IdleCall)
 BY <1>2, <1>0 DEF MovesOn, Locking, IdOf, SlugOf
<1>3. ASSUME NEW d \in RecordCalls PROVE LockSound(d)'
 <2> SUFFICES ASSUME recordCall'[d].op \in Locking PROVE LockSound(d)' BY DEF LockSound
 <2>1. /\ recordCall[d].op = recordCall'[d].op /\ IdOf(d) = recordCall'[d].id
       /\ SlugOf(d) = recordCall'[d].slug /\ (d = c => recordCall'[c] # IdleCall)
  BY <1>2
 <2>2. LockSound(d) /\ IdOf(d) \in ProjectIds BY <1>0, <2>1 DEF Locking
 <2>3. recordCall'[d].id \in runState' BY <2>1, <2>2, <1>0 DEF LockSound
 <2>4. \A e \in RecordCalls : recordCall'[e].op \in Locking /\ recordCall'[e].id = recordCall'[d].id => e = d
  BY <2>1, <2>2, <1>2 DEF LockSound
 <2>5. recordCall'[d].op = "delete" => bySlug'[recordCall'[d].slug] = recordCall'[d].id BY <2>1, <2>2 DEF LockSound
 <2>6. metas'[recordCall'[d].id] # NoMeta <=> recordCall'[d].at \notin {"workspace", "slug"}
  <3>1. metas'[recordCall'[d].id] # NoMeta <=> metas[IdOf(d)] # NoMeta BY <2>1, <2>2
  <3>2. metas[IdOf(d)] # NoMeta <=> Step(d) \notin {"workspace", "slug"} BY <2>1, <2>2 DEF LockSound
  <3>3. recordCall'[d].at \in {"workspace", "slug"} <=> Step(d) \in {"workspace", "slug"} BY <2>1 DEF MovesOn, Step
  <3> QED BY <3>1, <3>2, <3>3
 <2> QED BY <2>3, <2>4, <2>5, <2>6 DEF LockSound, IdOf, SlugOf, Step
<1>4. IndexSound'
 <2>1. Live' = Live BY DEF Live
 <2>2. \A id \in Live' : id <= projectsMade' /\ bySlug'[metas'[id].slug] = id BY <2>1 DEF IndexSound, Live
 <2>3. ASSUME NEW s \in Slugs, bySlug'[s] # 0
       PROVE  /\ bySlug'[s] \in 1..projectsMade'
              /\ metas'[bySlug'[s]] # NoMeta => metas'[bySlug'[s]].slug = s
              /\ metas'[bySlug'[s]] = NoMeta => \E d \in RecordCalls :
                   recordCall'[d].op = "delete" /\ recordCall'[d].id = bySlug'[s] /\ recordCall'[d].slug = s
  <3>1. /\ bySlug[s] \in 1..projectsMade
        /\ metas[bySlug[s]] # NoMeta => metas[bySlug[s]].slug = s
        /\ metas[bySlug[s]] = NoMeta => \E d \in RecordCalls :
             recordCall[d].op = "delete" /\ IdOf(d) = bySlug[s] /\ SlugOf(d) = s
   BY <2>3 DEF IndexSound
  <3>2. bySlug[s] \in ProjectIds BY <3>1, RecordFacts DEF RecordsTypeOK, ProjectIds
  <3>3. ASSUME metas'[bySlug[s]] = NoMeta
        PROVE \E d \in RecordCalls : recordCall'[d].op = "delete" /\ recordCall'[d].id = bySlug[s] /\ recordCall'[d].slug = s
   <4>1. PICK d \in RecordCalls : recordCall[d].op = "delete" /\ IdOf(d) = bySlug[s] /\ SlugOf(d) = s BY <3>1, <3>2, <3>3
   <4>2. d # c => recordCall'[d] = recordCall[d] BY DEF MovesOn
   <4>3. d = c => recordCall'[c] # IdleCall BY <4>1, <3>2, <3>3
   <4> QED BY <4>1, <4>2, <4>3 DEF MovesOn, IdOf, SlugOf
  <3> QED BY <3>1, <3>2, <3>3
 <2>4. \A i, j \in Live' : i # j => metas'[i].name # metas'[j].name BY <2>1 DEF IndexSound, Live
 <2> QED BY <2>2, <2>3, <2>4 DEF IndexSound, IdOf, SlugOf
<1> QED BY <1>1, <1>3, <1>4 DEF RequestsSound

\* What lies under a slug stays sound under a step that leaves it alone.
LEMMA SpaceKept ==
  ASSUME RecordsTypeOK, NEW s \in Slugs, SpaceSound(s),
         NEW c \in RecordCalls, MovesOn(c),
         s \notin soiled' => s \notin soiled /\ bySlug'[s] = bySlug[s] /\ workspaces'[s] = workspaces[s],
         containers'[s] = containers[s],
         recordCall'[c] # IdleCall /\ SlugOf(c) = s =>
           /\ recordCall[c].op = "start" => recordCall'[c].at # "ensure"
           /\ recordCall[c].op = "delete" => Step(c) # "container" /\ recordCall'[c].at # "slug"
  PROVE  SpaceSound(s)'
<1>1. ASSUME NEW d \in RecordCalls, recordCall'[d].op \in {"start", "delete"}, recordCall'[d].slug = s
      PROVE  /\ recordCall[d].op = recordCall'[d].op /\ SlugOf(d) = s /\ recordCall'[d].flag = recordCall[d].flag
             /\ \/ recordCall'[d] = recordCall[d]
                \/ recordCall[d].op = "start" /\ recordCall'[d].at # "ensure"
                \/ recordCall[d].op = "delete" /\ Step(d) # "container" /\ recordCall'[d].at # "slug"
 BY <1>1, IdleTyped DEF MovesOn, IdOf, SlugOf
<1>2. ASSUME s \notin soiled', NEW d \in RecordCalls, recordCall'[d].op = "delete", recordCall'[d].slug = s
      PROVE  /\ recordCall'[d].at # "container" => containers'[s] = NoContainer
             /\ recordCall'[d].at = "slug" => workspaces'[s] = NoWorkspace
 BY <1>1, <1>2 DEF SpaceSound, Step, SlugOf
<1>3. ASSUME NEW d \in RecordCalls, recordCall'[d].op = "start", recordCall'[d].slug = s,
             recordCall'[d].at = "ensure", ~recordCall'[d].flag
      PROVE  containers'[s].there
 BY <1>1, <1>3 DEF SpaceSound, Step, SlugOf
<1>4. ~containers'[s].there => containers'[s] = NoContainer BY DEF SpaceSound
<1>5. s \notin soiled' =>
       /\ bySlug'[s] = 0 => workspaces'[s] = NoWorkspace /\ containers'[s] = NoContainer
       /\ workspaces'[s].of \cup containers'[s].of \subseteq {bySlug'[s]}
       /\ containers'[s].there => workspaces'[s].of = {bySlug'[s]}
 BY DEF SpaceSound
<1> QED BY <1>2, <1>3, <1>4, <1>5 DEF SpaceSound, Step, SlugOf, NoContainer, NoWorkspace

\* The requests on a project, after a step of c.
LEMMA OnAfter ==
  ASSUME RecordsTypeOK, NEW c \in RecordCalls, MovesOn(c), NEW d \in RecordCalls,
         NEW id \in ProjectIds, NEW ops, "none" \notin ops, On(d, id, ops)'
  PROVE  /\ On(d, id, ops) /\ (d = c => recordCall'[c] # IdleCall)
         /\ d # c => recordCall'[d] = recordCall[d]
BY IdleTyped DEF MovesOn, On, IdOf

LEMMA AloneAfter ==
  ASSUME RecordsTypeOK, NEW c \in RecordCalls, MovesOn(c),
         NEW id \in ProjectIds, NEW ops, "none" \notin ops, Alone(id, ops)
  PROVE  Alone(id, ops)'
<1> SUFFICES ASSUME NEW d \in RecordCalls, NEW e \in RecordCalls, On(d, id, ops)', On(e, id, ops)'
              PROVE  d = e
 BY DEF Alone
<1>1. On(d, id, ops) /\ On(e, id, ops) BY OnAfter
<1> QED BY <1>1 DEF Alone

\* Under slug s of project id nothing that is not excused is changed.
Unsoiled(id) == metas[id].slug \notin soiled'

LEMMA FileKept ==
  ASSUME RecordsTypeOK, NEW id \in ProjectIds, FileSound(id), NEW c \in RecordCalls, MovesOn(c),
         metas'[id].slug = metas[id].slug, excused[id] \subseteq excused'[id], soiled \subseteq soiled',
         Unsoiled(id) => workspaces'[metas[id].slug].env = workspaces[metas[id].slug].env,
         secrets'[id] = secrets[id],
         On(c, id, Setting) =>
           \/ recordCall'[c] # IdleCall /\ recordCall'[c].at = Step(c) /\ recordCall'[c].listed = recordCall[c].listed
           \/ recordCall'[c] = IdleCall /\ Step(c) = "apply"
  PROVE  FileSound(id)'
<1>1. CASE Excused(id, "file") \/ ~Unsoiled(id) BY <1>1 DEF FileSound, Excused, Unsoiled
<1>2. CASE ~Excused(id, "file") /\ Unsoiled(id)
 <2>1. /\ Alone(id, EnvOps)
       /\ (\A d \in RecordCalls : On(d, id, Setting) => Step(d) = "apply") =>
             workspaces[metas[id].slug].env = secrets[id]
       /\ \A d \in RecordCalls : On(d, id, Setting) /\ Step(d) = "file" => recordCall[d].listed = secrets[id]
  BY <1>2 DEF FileSound
 <2>2. Alone(id, EnvOps)' BY <2>1, AloneAfter DEF EnvOps
 <2>3. ASSUME NEW d \in RecordCalls, On(d, id, Setting)'
       PROVE On(d, id, Setting) /\ recordCall'[d].at = Step(d) /\ recordCall'[d].listed = recordCall[d].listed
  <3>1. On(d, id, Setting) /\ (d = c => recordCall'[c] # IdleCall) /\ (d # c => recordCall'[d] = recordCall[d])
   BY <2>3, OnAfter DEF Setting
  <3> QED BY <3>1 DEF On, Step
 <2>4. ASSUME \A d \in RecordCalls : On(d, id, Setting)' => recordCall'[d].at = "apply",
              NEW d \in RecordCalls, On(d, id, Setting)
       PROVE  Step(d) = "apply"
  <3>1. CASE d # c BY <2>4, <3>1 DEF MovesOn, On, Step, IdOf
  <3>2. CASE d = c /\ recordCall'[c] # IdleCall BY <2>4, <3>2 DEF MovesOn, On, Step, IdOf
  <3>3. CASE d = c /\ recordCall'[c] = IdleCall BY <2>4, <3>3 DEF On
  <3> QED BY <3>1, <3>2, <3>3
 <2>5. (\A d \in RecordCalls : On(d, id, Setting)' => recordCall'[d].at = "apply") =>
             workspaces'[metas'[id].slug].env = secrets'[id]
  BY <2>1, <2>4, <1>2
 <2>6. \A d \in RecordCalls : On(d, id, Setting)' /\ recordCall'[d].at = "file" => recordCall'[d].listed = secrets'[id]
  BY <2>1, <2>3
 <2> QED BY <2>2, <2>5, <2>6 DEF FileSound, Step
<1> QED BY <1>1, <1>2

LEMMA EnvKept ==
  ASSUME RecordsTypeOK, NEW id \in ProjectIds, EnvSound(id), NEW c \in RecordCalls, MovesOn(c),
         StageSound(c), StageSound(c)',
         metas'[id].slug = metas[id].slug, excused[id] \subseteq excused'[id], soiled \subseteq soiled',
         Unsoiled(id) => /\ containers'[metas[id].slug].env = containers[metas[id].slug].env
                         /\ containers'[metas[id].slug].there = containers[metas[id].slug].there,
         secrets'[id] = secrets[id],
         On(c, id, EnvOps) =>
           \/ Step(c) \in {"seed", "ensure"} /\ recordCall'[c] = IdleCall
           \/ Step(c) \in {"seed", "ensure"} /\ recordCall'[c].at \in {"seed", "ensure"}
           \/ /\ recordCall[c].op \in Setting /\ Step(c) # "store"
              /\ recordCall'[c] # IdleCall /\ recordCall'[c].value = ValueOf(c)
  PROVE  EnvSound(id)'
<1> DEFINE box == containers[metas[id].slug]
            bux == containers'[metas'[id].slug]
<1>1. CASE Excused(id, "env") \/ ~Unsoiled(id) BY <1>1 DEF EnvSound, Excused, Unsoiled
<1>2. CASE ~Excused(id, "env") /\ Unsoiled(id)
 <2>1. /\ Alone(id, EnvOps)
       /\ (\A d \in RecordCalls : On(d, id, EnvOps) => Step(d) \in {"seed", "ensure"}) =>
             (box.there => box.env = secrets[id])
       /\ \A d \in RecordCalls : On(d, id, Setting) /\ Step(d) # "store" =>
             ValueOf(d) = secrets[id] \/ ~box.there
       /\ \A d \in RecordCalls : On(d, id, Launching) /\ Step(d) \in {"list", "apply"} =>
             /\ box.env \in {0, secrets[id]}
             /\ Step(d) = "apply" => ValueOf(d) = secrets[id] \/ ~box.there
  BY <1>2 DEF EnvSound
 <2>a. bux.env = box.env /\ bux.there = box.there BY <1>2
 <2> HIDE DEF box, bux
 <2>2. Alone(id, EnvOps)' BY <2>1, AloneAfter DEF EnvOps
 <2>3. ASSUME NEW d \in RecordCalls, On(d, id, EnvOps)'
       PROVE  /\ On(d, id, EnvOps) /\ recordCall'[d].op = recordCall[d].op /\ recordCall'[d] # IdleCall
              /\ d # c => recordCall'[d] = recordCall[d]
  <3>1. On(d, id, EnvOps) /\ (d = c => recordCall'[c] # IdleCall) /\ (d # c => recordCall'[d] = recordCall[d])
   BY <2>3, OnAfter DEF EnvOps
  <3>2. recordCall'[d] # IdleCall BY <2>3, IdleTyped DEF On, EnvOps
  <3> QED BY <3>1, <3>2 DEF MovesOn
 <2>4. ASSUME \A d \in RecordCalls : On(d, id, EnvOps)' => recordCall'[d].at \in {"seed", "ensure"},
              NEW d \in RecordCalls, On(d, id, EnvOps)
       PROVE  Step(d) \in {"seed", "ensure"}
  <3>1. CASE d # c BY <2>4, <3>1 DEF MovesOn, On, Step, IdOf
  <3>2. CASE d = c /\ Step(c) \in {"seed", "ensure"} BY <3>2
  <3>3. CASE d = c /\ Step(c) \notin {"seed", "ensure"}
   <4>1. /\ recordCall[c].op \in Setting /\ Step(c) # "store" /\ recordCall'[c] # IdleCall
         /\ recordCall'[c].op = recordCall[c].op /\ recordCall'[c].id = IdOf(c)
    BY <2>4, <3>3 DEF On, MovesOn
   <4>2. recordCall'[c].at \in {"store", "list", "file", "apply"} BY <4>1 DEF StageSound, Step
   <4>3. recordCall'[c].at \in {"seed", "ensure"} BY <4>1, <2>4, <3>3 DEF On, IdOf
   <4> QED BY <4>2, <4>3
  <3> QED BY <3>1, <3>2, <3>3
 <2>5. (\A d \in RecordCalls : On(d, id, EnvOps)' => recordCall'[d].at \in {"seed", "ensure"}) =>
             (bux.there => bux.env = secrets'[id])
  BY <2>1, <2>4, <2>a
 <2>6. ASSUME NEW d \in RecordCalls, On(d, id, Setting)', recordCall'[d].at # "store"
       PROVE  recordCall'[d].value = secrets'[id] \/ ~bux.there
  <3>1. On(d, id, EnvOps)' BY <2>6 DEF On, EnvOps, Setting
  <3>2. /\ On(d, id, EnvOps) /\ recordCall'[d].op = recordCall[d].op
        /\ recordCall'[d] # IdleCall /\ (d # c => recordCall'[d] = recordCall[d])
   BY <3>1, <2>3
  <3>3. On(d, id, Setting) BY <3>2, <2>6 DEF On
  <3>4. Step(d) # "store" /\ recordCall'[d].value = ValueOf(d)
   <4>1. CASE d # c BY <4>1, <3>2, <2>6 DEF Step, ValueOf
   <4>2. CASE d = c BY <4>2, <3>2, <3>3, <2>6 DEF On, StageSound, Setting, EnvOps, Step
   <4> QED BY <4>1, <4>2
  <3> QED BY <3>3, <3>4, <2>1, <2>a
 <2>7. ASSUME NEW d \in RecordCalls, On(d, id, Launching)', recordCall'[d].at \in {"list", "apply"}
       PROVE  /\ bux.env \in {0, secrets'[id]}
              /\ recordCall'[d].at = "apply" => recordCall'[d].value = secrets'[id] \/ ~bux.there
  <3>1. On(d, id, EnvOps)' BY <2>7 DEF On, EnvOps, Launching
  <3>2. /\ On(d, id, EnvOps) /\ recordCall'[d].op = recordCall[d].op
        /\ recordCall'[d] # IdleCall /\ (d # c => recordCall'[d] = recordCall[d])
   BY <3>1, <2>3
  <3>3. On(d, id, Launching) BY <3>2, <2>7 DEF On
  <3>4. d # c BY <3>2, <3>3, <2>7 DEF On, Launching, Setting
  <3> QED BY <3>2, <3>3, <3>4, <2>1, <2>7, <2>a DEF Step, ValueOf
 <2>8. (\A d \in RecordCalls : On(d, id, EnvOps)' => Step(d)' \in {"seed", "ensure"}) =>
             (bux.there => bux.env = secrets'[id])
  BY <2>5 DEF Step
 <2>9. /\ \A d \in RecordCalls : On(d, id, Setting)' /\ Step(d)' # "store" =>
             ValueOf(d)' = secrets'[id] \/ ~bux.there
       /\ \A d \in RecordCalls : On(d, id, Launching)' /\ Step(d)' \in {"list", "apply"} =>
             /\ bux.env \in {0, secrets'[id]}
             /\ Step(d)' = "apply" => ValueOf(d)' = secrets'[id] \/ ~bux.there
  BY <2>6, <2>7 DEF Step, ValueOf
 <2> QED BY <2>2, <2>8, <2>9 DEF EnvSound, bux
<1> QED BY <1>1, <1>2

LEMMA LimitKept ==
  ASSUME RecordsTypeOK, NEW id \in ProjectIds, LimitSound(id), NEW c \in RecordCalls, MovesOn(c),
         metas'[id].slug = metas[id].slug, metas'[id].limits = metas[id].limits,
         excused[id] \subseteq excused'[id], soiled \subseteq soiled',
         Unsoiled(id) => /\ containers'[metas[id].slug].limits = containers[metas[id].slug].limits
                         /\ containers'[metas[id].slug].there = containers[metas[id].slug].there,
         On(c, id, LimitOps) =>
           /\ recordCall[c].op # "limit"
           /\ \/ recordCall'[c] = IdleCall
              \/ recordCall'[c].at \notin {"seed", "drop", "ensure"}
              \/ Step(c) \in {"seed", "drop", "ensure"} /\ recordCall'[c].value = ValueOf(c)
  PROVE  LimitSound(id)'
<1> DEFINE box == containers[metas[id].slug]
            bux == containers'[metas'[id].slug]
<1>1. CASE Excused(id, "limits") \/ ~Unsoiled(id) BY <1>1 DEF LimitSound, Excused, Unsoiled
<1>2. CASE ~Excused(id, "limits") /\ Unsoiled(id)
 <2>1. /\ Alone(id, LimitOps)
       /\ (\A d \in RecordCalls : ~On(d, id, {"limit"})) => (box.there => box.limits = metas[id].limits)
       /\ \A d \in RecordCalls : On(d, id, Launching) /\ Step(d) \in {"seed", "drop", "ensure"} =>
             ValueOf(d) = metas[id].limits
       /\ \A d \in RecordCalls : On(d, id, {"limit"}) /\ Step(d) = "record" =>
             (box.there => box.limits = ValueOf(d))
  BY <1>2 DEF LimitSound
 <2>a. bux.limits = box.limits /\ bux.there = box.there BY <1>2
 <2> HIDE DEF box, bux
 <2>2. Alone(id, LimitOps)' BY <2>1, AloneAfter DEF LimitOps
 <2>3. ASSUME NEW d \in RecordCalls, On(d, id, LimitOps)'
       PROVE  /\ On(d, id, LimitOps) /\ recordCall'[d].op = recordCall[d].op /\ recordCall'[d] # IdleCall
              /\ d # c => recordCall'[d] = recordCall[d]
  <3>1. On(d, id, LimitOps) /\ (d = c => recordCall'[c] # IdleCall) /\ (d # c => recordCall'[d] = recordCall[d])
   BY <2>3, OnAfter DEF LimitOps
  <3>2. recordCall'[d] # IdleCall BY <2>3, IdleTyped DEF On, LimitOps
  <3> QED BY <3>1, <3>2 DEF MovesOn
 <2>4. ASSUME \A d \in RecordCalls : ~On(d, id, {"limit"})', NEW d \in RecordCalls
       PROVE  ~On(d, id, {"limit"})
  <3>1. d # c => recordCall'[d] = recordCall[d] BY DEF MovesOn
  <3>2. d = c => ~On(d, id, {"limit"}) BY DEF LimitOps, On
  <3> QED BY <3>1, <3>2, <2>4 DEF On, IdOf
 <2>5. (\A d \in RecordCalls : ~On(d, id, {"limit"})') => (bux.there => bux.limits = metas'[id].limits) BY <2>1, <2>4, <2>a
 <2>6. ASSUME NEW d \in RecordCalls, On(d, id, Launching)', recordCall'[d].at \in {"seed", "drop", "ensure"}
       PROVE  recordCall'[d].value = metas'[id].limits
  <3>1. On(d, id, LimitOps)' BY <2>6 DEF On, LimitOps, Launching
  <3>2. /\ On(d, id, LimitOps) /\ recordCall'[d].op = recordCall[d].op
        /\ recordCall'[d] # IdleCall /\ (d # c => recordCall'[d] = recordCall[d])
   BY <3>1, <2>3
  <3>3. On(d, id, Launching) BY <3>2, <2>6 DEF On
  <3>4. Step(d) \in {"seed", "drop", "ensure"} /\ recordCall'[d].value = ValueOf(d)
   <4>1. CASE d # c BY <4>1, <3>2, <2>6 DEF Step, ValueOf
   <4>2. CASE d = c BY <4>2, <3>2, <2>6 DEF On
   <4> QED BY <4>1, <4>2
  <3> QED BY <3>3, <3>4, <2>1
 <2>7. ASSUME NEW d \in RecordCalls, On(d, id, {"limit"})', recordCall'[d].at = "record"
       PROVE  bux.there => bux.limits = recordCall'[d].value
  <3>1. On(d, id, LimitOps)' BY <2>7 DEF On, LimitOps
  <3>2. /\ On(d, id, LimitOps) /\ recordCall'[d].op = recordCall[d].op
        /\ (d # c => recordCall'[d] = recordCall[d])
   BY <3>1, <2>3
  <3>3. On(d, id, {"limit"}) /\ d # c BY <3>2, <2>7 DEF On
  <3> QED BY <3>2, <3>3, <2>1, <2>7, <2>a DEF Step, ValueOf
 <2>8. (\A d \in RecordCalls : ~On(d, id, {"limit"})') => (bux.there => bux.limits = (metas[id].limits)') BY <2>5
 <2>9. /\ \A d \in RecordCalls : On(d, id, Launching)' /\ Step(d)' \in {"seed", "drop", "ensure"} =>
             ValueOf(d)' = metas'[id].limits
       /\ \A d \in RecordCalls : On(d, id, {"limit"})' /\ Step(d)' = "record" =>
             (bux.there => bux.limits = ValueOf(d)')
  BY <2>6, <2>7 DEF Step, ValueOf
 <2> QED BY <2>2, <2>8, <2>9 DEF LimitSound, bux
<1> QED BY <1>1, <1>2

LEMMA MemberKept ==
  ASSUME RecordsTypeOK, NEW id \in ProjectIds, MemberSound(id), NEW c \in RecordCalls, MovesOn(c),
         metas'[id].slug = metas[id].slug, excused[id] \subseteq excused'[id], soiled \subseteq soiled',
         members'[id] = members[id],
         On(c, id, {"create"}) => Step(c) # "seed"
  PROVE  MemberSound(id)'
<1>1. CASE Excused(id, "members") BY <1>1 DEF MemberSound, Excused
<1>2. CASE ~Excused(id, "members")
 <2>1. /\ Alone(id, {"leave"})
       /\ (\A d \in RecordCalls : On(d, id, {"create"}) => Step(d) # "seed") => members[id] # {}
       /\ \A d \in RecordCalls : On(d, id, {"leave"}) /\ ~recordCall[d].flag => Cardinality(members[id]) > 1
  BY <1>2 DEF MemberSound
 <2>2. Alone(id, {"leave"})' BY <2>1, AloneAfter
 <2>3. ASSUME NEW d \in RecordCalls, On(d, id, {"leave"})', ~recordCall'[d].flag
       PROVE  Cardinality(members'[id]) > 1
  <3>1. On(d, id, {"leave"}) /\ (d = c => recordCall'[c] # IdleCall) /\ (d # c => recordCall'[d] = recordCall[d]) BY <2>3, OnAfter
  <3>2. ~recordCall[d].flag BY <3>1, <2>3 DEF MovesOn
  <3> QED BY <3>1, <3>2, <2>1
 <2>4. ASSUME \A d \in RecordCalls : On(d, id, {"create"})' => recordCall'[d].at # "seed",
              NEW d \in RecordCalls, On(d, id, {"create"})
       PROVE  Step(d) # "seed"
  <3>1. CASE d # c BY <2>4, <3>1 DEF MovesOn, On, Step, IdOf
  <3>2. CASE d = c BY <2>4, <3>2 DEF On
  <3> QED BY <3>1, <3>2
 <2>5. (\A d \in RecordCalls : On(d, id, {"create"})' => Step(d)' # "seed") => members'[id] # {} BY <2>1, <2>4 DEF Step
 <2> QED BY <2>2, <2>3, <2>5 DEF MemberSound
<1> QED BY <1>1, <1>2

LEMMA LeftKept ==
  ASSUME RecordsTypeOK, NEW id \in ProjectIds, LeftSound(id), NEW c \in RecordCalls, MovesOn(c),
         metas'[id] = NoMeta <=> metas[id] = NoMeta, excused[id] \subseteq excused'[id],
         secrets'[id] = secrets[id], members'[id] \subseteq members[id],
         IdOf(c) = id => recordCall[c].op # "delete"
  PROVE  LeftSound(id)'
<1>1. CASE "left" \in excused[id] BY <1>1 DEF LeftSound
<1>2. CASE "left" \notin excused[id]
 <2>1. /\ \A d, e \in RecordCalls : ~(On(d, id, Adding) /\ On(e, id, {"delete"}))
       /\ metas[id] = NoMeta => \A d \in RecordCalls : ~On(d, id, Adding)
       /\ \A d \in RecordCalls : On(d, id, {"delete"}) =>
            /\ Step(d) \notin {"container", "secrets"} => secrets[id] = 0
            /\ Step(d) \notin {"container", "secrets", "access"} => members[id] = {}
       /\ metas[id] = NoMeta /\ (\A d \in RecordCalls : ~On(d, id, {"delete"})) =>
            secrets[id] = 0 /\ members[id] = {}
  BY <1>2 DEF LeftSound
 <2>2. \A d \in RecordCalls : On(d, id, Adding)' => On(d, id, Adding) BY OnAfter DEF Adding
 <2>3. \A d \in RecordCalls : On(d, id, {"delete"})' => On(d, id, {"delete"}) /\ recordCall'[d] = recordCall[d]
  <3>1. \A d \in RecordCalls : On(d, id, {"delete"})' =>
          On(d, id, {"delete"}) /\ (d # c => recordCall'[d] = recordCall[d])
   BY OnAfter
  <3> QED BY <3>1 DEF On
 <2>4. \A d \in RecordCalls : On(d, id, {"delete"}) => On(d, id, {"delete"})'
  <3>1. \A d \in RecordCalls : On(d, id, {"delete"}) => d # c BY DEF On
  <3> QED BY <3>1 DEF MovesOn, On, IdOf
 <2>5. /\ \A d, e \in RecordCalls : ~(On(d, id, Adding)' /\ On(e, id, {"delete"})')
       /\ metas'[id] = NoMeta => \A d \in RecordCalls : ~On(d, id, Adding)'
  BY <2>1, <2>2, <2>3
 <2>6. \A d \in RecordCalls : On(d, id, {"delete"})' =>
            /\ Step(d)' \notin {"container", "secrets"} => secrets'[id] = 0
            /\ Step(d)' \notin {"container", "secrets", "access"} => members'[id] = {}
  BY <2>1, <2>3 DEF Step
 <2>7. metas'[id] = NoMeta /\ (\A d \in RecordCalls : ~On(d, id, {"delete"})') =>
            secrets'[id] = 0 /\ members'[id] = {}
  BY <2>1, <2>4
 <2> QED BY <2>5, <2>6, <2>7 DEF LeftSound
<1> QED BY <1>1, <1>2

\* Another project than that of c.
LEMMA OthersKept ==
  ASSUME RecordsTypeOK, NEW c \in RecordCalls, MovesOn(c), StageSound(c), StageSound(c)',
         NEW j \in ProjectIds, ProjectSound(j), recordCall[c].op = "none" \/ IdOf(c) # j,
         metas'[j] = metas[j], secrets'[j] = secrets[j], members'[j] = members[j],
         excused[j] \subseteq excused'[j], soiled \subseteq soiled',
         metas[j] # NoMeta /\ Unsoiled(j) =>
           workspaces'[metas[j].slug] = workspaces[metas[j].slug] /\ containers'[metas[j].slug] = containers[metas[j].slug]
  PROVE  ProjectSound(j)'
<1>0. IsFiniteSet(members'[j]) /\ ("none" \notin Setting \cup EnvOps \cup LimitOps) BY DEF ProjectSound, Setting, EnvOps, LimitOps
<1>1. LeftSound(j)' BY LeftKept DEF ProjectSound
<1>2. ~On(c, j, Setting) /\ ~On(c, j, EnvOps) /\ ~On(c, j, LimitOps) /\ ~On(c, j, {"create"}) BY DEF On, Setting, EnvOps, LimitOps
<1>3. ASSUME metas[j] # NoMeta
      PROVE  FileSound(j)' /\ EnvSound(j)' /\ LimitSound(j)' /\ MemberSound(j)'
 <2>1. FileSound(j) /\ EnvSound(j) /\ LimitSound(j) /\ MemberSound(j) BY <1>3 DEF ProjectSound, LiveSound
 <2>2. FileSound(j)' BY <1>2, <1>3, <2>1, FileKept
 <2>3. EnvSound(j)' BY <1>2, <1>3, <2>1, EnvKept
 <2>4. LimitSound(j)' BY <1>2, <1>3, <2>1, LimitKept
 <2>5. MemberSound(j)' BY <1>2, <2>1, MemberKept
 <2> QED BY <2>2, <2>3, <2>4, <2>5
<1> QED BY <1>0, <1>1, <1>3 DEF ProjectSound, LiveSound

----
\* A step of a request.

LEMMA CallFacts ==
  ASSUME RecordsSound, NEW c \in RecordCalls, recordCall[c].op # "none"
  PROVE  /\ RecordsTypeOK /\ RequestsSound /\ IndexSound /\ StageSound(c) /\ RequestSound(c) /\ LockSound(c)
         /\ IdOf(c) \in ProjectIds /\ IdOf(c) <= projectsMade /\ IdOf(c) # 0 /\ SlugOf(c) \in Slugs
         /\ metas[IdOf(c)] # NoMeta =>
              SlugOf(c) = metas[IdOf(c)].slug /\ bySlug[SlugOf(c)] = IdOf(c) /\ LiveSound(IdOf(c))
         /\ ProjectSound(IdOf(c)) /\ LeftSound(IdOf(c)) /\ SpaceSound(SlugOf(c))
<1>1. RecordsTypeOK /\ RequestsSound /\ IndexSound /\ StageSound(c) /\ RequestSound(c) /\ LockSound(c)
 BY DEF RecordsSound, RequestsSound
<1>2. /\ IdOf(c) \in 1..projectsMade /\ SlugOf(c) \in Slugs
      /\ metas[IdOf(c)] # NoMeta => SlugOf(c) = metas[IdOf(c)].slug
 BY <1>1 DEF RequestSound
<1>3. IdOf(c) \in ProjectIds /\ IdOf(c) <= projectsMade /\ IdOf(c) # 0 BY <1>1, <1>2, RecordFacts DEF RecordsTypeOK, ProjectIds
<1>4. ProjectSound(IdOf(c)) /\ SpaceSound(SlugOf(c)) BY <1>2, <1>3 DEF RecordsSound
<1>5. metas[IdOf(c)] # NoMeta => bySlug[SlugOf(c)] = IdOf(c) BY <1>1, <1>2, <1>3 DEF IndexSound, Live
<1> QED BY <1>1, <1>2, <1>3, <1>4, <1>5 DEF ProjectSound

LEMMA StageTells ==
  ASSUME RecordsTypeOK, NEW c \in RecordCalls, StageSound(c)
  PROVE  /\ Step(c) # "idle" => recordCall[c].op # "none"
         /\ Step(c) = "seed" => recordCall[c].op = "create"
         /\ Step(c) = "drop" => recordCall[c].op = "upgrade"
         /\ Step(c) = "ensure" => recordCall[c].op \in Launching
         /\ Step(c) \in {"list", "apply"} => recordCall[c].op \in Launching \cup Setting
         /\ Step(c) \in {"store", "file"} => recordCall[c].op \in Setting
         /\ Step(c) \in {"instance", "record"} => recordCall[c].op = "limit"
         /\ Step(c) = "add" => recordCall[c].op = "join"
         /\ Step(c) = "remove" => recordCall[c].op = "leave"
         /\ Step(c) \in {"container", "secrets", "access", "meta", "workspace", "slug"} =>
              recordCall[c].op = "delete"
<1>1. recordCall[c].op \in {"create", "start", "upgrade", "set", "unset", "limit", "none", "join", "leave", "delete"}
 BY RequestTypes DEF RecordOps, EnvOps, LimitOps
<1>2. recordCall[c].op = "none" => Step(c) = "idle" BY DEF StageSound, IdleCall, Step
<1> QED BY <1>1, <1>2 DEF StageSound, Launching, Setting

LEMMA StageTellsOf ==
  ASSUME RecordsSound, NEW c \in RecordCalls
  PROVE  RecordsTypeOK /\ StageSound(c)
BY DEF RecordsSound, RequestsSound

LEMMA ExcuseFacts ==
  ASSUME RecordsTypeOK, NEW id \in ProjectIds,
         NEW why, why \subseteq {"file", "env", "limits", "members", "left"}, Excuse(id, why)
  PROVE  /\ excused' \in [ProjectIds -> SUBSET {"file", "env", "limits", "members", "left"}]
         /\ \A j \in ProjectIds : excused[j] \subseteq excused'[j]
         /\ \A j \in ProjectIds \ {id} : excused'[j] = excused[j]
         /\ why \subseteq excused'[id]
<1>1. excused \in [ProjectIds -> SUBSET {"file", "env", "limits", "members", "left"}] BY DEF RecordsTypeOK
<1>2. excused' = [excused EXCEPT ![id] = @ \cup why] BY DEF Excuse
<1> HIDE DEF Excuse
<1>3. excused'[id] = excused[id] \cup why /\ \A j \in ProjectIds \ {id} : excused'[j] = excused[j] BY <1>1, <1>2
<1>4. excused' \in [ProjectIds -> SUBSET {"file", "env", "limits", "members", "left"}] BY <1>1, <1>2, <1>3
<1> QED BY <1>3, <1>4

LEMMA SoilFacts ==
  ASSUME RecordsTypeOK, NEW c \in RecordCalls, SlugOf(c) \in Slugs, Soil(c)
  PROVE  /\ soiled \subseteq soiled' /\ soiled' \subseteq soiled \cup {SlugOf(c)} /\ soiled' \subseteq Slugs
         /\ Strays(c) => SlugOf(c) \in soiled'
BY DEF Soil, RecordsTypeOK

\* A deletion of the project whose slug it is, beside c.
LEMMA DeletionStrays ==
  ASSUME RecordsSound, NEW c \in RecordCalls, recordCall[c].op # "none",
         NEW d \in RecordCalls, recordCall[d].op = "delete", SlugOf(d) = SlugOf(c)
  PROVE  Strays(c)
<1>1. bySlug[SlugOf(d)] = IdOf(d) BY CallFacts DEF LockSound, Locking
<1>2. CASE metas[IdOf(c)] # NoMeta
 <2>1. bySlug[SlugOf(c)] = IdOf(c) BY <1>2, CallFacts
 <2> QED BY <1>1, <2>1 DEF Strays, Busy
<1> QED BY <1>2 DEF Strays

LEMMA StepSound ==
  ASSUME RecordsSound, NEW c \in RecordCalls, recordCall[c].op # "none", MovesOn(c),
         NEW id \in ProjectIds, id = IdOf(c), NEW slug \in Slugs, slug = SlugOf(c),
         RecordsTypeOK', RequestsSound', IndexSound', \A s \in Slugs : SpaceSound(s)',
         projectsMade' = projectsMade,
         \A j \in ProjectIds \ {id} :
           metas'[j] = metas[j] /\ secrets'[j] = secrets[j] /\ members'[j] = members[j] /\ excused'[j] = excused[j],
         soiled \subseteq soiled',
         \A s \in Slugs \ {slug} : workspaces'[s] = workspaces[s] /\ containers'[s] = containers[s],
         metas[id] = NoMeta /\ recordCall[c].op # "delete" =>
           \/ slug \in soiled'
           \/ workspaces'[slug] = workspaces[slug] /\ containers'[slug] = containers[slug],
         ProjectSound(id)'
  PROVE  RecordsSound'
<1>1. /\ RecordsTypeOK /\ IndexSound /\ LockSound(c) /\ StageSound(c) /\ IdOf(c) \in ProjectIds
      /\ IdOf(c) <= projectsMade
      /\ metas[IdOf(c)] # NoMeta => SlugOf(c) = metas[IdOf(c)].slug /\ bySlug[SlugOf(c)] = IdOf(c)
 BY CallFacts
<1>2. StageSound(c)' BY DEF RequestsSound
<1>3. ASSUME NEW j \in ProjectIds \ {IdOf(c)}, j <= projectsMade
      PROVE  ProjectSound(j)'
 <2>1. ProjectSound(j) BY <1>3 DEF RecordsSound
 <2>2. ASSUME metas[j] # NoMeta, Unsoiled(j)
       PROVE  workspaces'[metas[j].slug] = workspaces[metas[j].slug] /\ containers'[metas[j].slug] = containers[metas[j].slug]
  <3>1. metas[j].slug \in Slugs BY <1>1, <2>2, RecordFacts DEF RecordsTypeOK, Metas
  <3>2. bySlug[metas[j].slug] = j BY <1>1, <2>2 DEF IndexSound, Live
  <3>3. CASE metas[j].slug # SlugOf(c) BY <3>1, <3>3
  <3>4. CASE metas[j].slug = SlugOf(c)
   <4>1. metas[IdOf(c)] = NoMeta BY <1>1, <3>2, <3>4
   <4>2. recordCall[c].op # "delete" BY <1>1, <3>2, <3>4 DEF LockSound, Locking
   <4> QED BY <4>1, <4>2, <2>2, <3>4 DEF Unsoiled
  <3> QED BY <3>3, <3>4
 <2> QED BY <1>1, <1>2, <2>1, <2>2, OthersKept
<1>4. ASSUME NEW j \in ProjectIds, ~(j <= projectsMade) PROVE FreshSound(j)' BY <1>1, <1>4 DEF RecordsSound, FreshSound
<1> QED BY <1>3, <1>4 DEF RecordsSound

LEMMA QuietStep ==
  ASSUME RecordsSound, NEW c \in RecordCalls, recordCall[c].op \notin {"none", "delete"}, MovesOn(c),
         NEW id \in ProjectIds, id = IdOf(c), NEW slug \in Slugs, slug = SlugOf(c),
         RecordsTypeOK', projectsMade' = projectsMade, bySlug' = bySlug,
         recordCall'[c] # IdleCall => /\ StageSound(c)' /\ runState' = runState
                                      /\ recordCall[c].op = "start" => recordCall'[c].at # "ensure"
                                      /\ recordCall[c].op \in Setting => recordCall'[c].value = ValueOf(c),
         runState \ {id} \subseteq runState',
         recordCall[c].op \notin Locking => runState \subseteq runState',
         \A j \in ProjectIds \ {id} :
           metas'[j] = metas[j] /\ secrets'[j] = secrets[j] /\ members'[j] = members[j] /\ excused'[j] = excused[j],
         metas'[id] = NoMeta <=> metas[id] = NoMeta,
         metas[id] # NoMeta => /\ metas'[id].slug = metas[id].slug
                                    /\ metas'[id].name = metas[id].name,
         soiled \subseteq soiled', soiled' \subseteq soiled \cup {slug},
         \A s \in Slugs \ {slug} : workspaces'[s] = workspaces[s] /\ containers'[s] = containers[s],
         metas[id] = NoMeta =>
           \/ slug \in soiled'
           \/ workspaces'[slug] = workspaces[slug] /\ containers'[slug] = containers[slug],
         SpaceSound(slug)', ProjectSound(id)'
  PROVE  RecordsSound'
<1>1. /\ RecordsTypeOK /\ RequestsSound /\ IndexSound /\ RequestSound(c) /\ IdOf(c) \in ProjectIds /\ SlugOf(c) \in Slugs
 BY CallFacts
<1>2. ASSUME recordCall'[c] # IdleCall PROVE RequestSound(c)'
 <2>1. /\ recordCall'[c].op = recordCall[c].op /\ recordCall'[c].id = IdOf(c)
       /\ recordCall'[c].slug = SlugOf(c) /\ recordCall'[c].flag = recordCall[c].flag
       /\ recordCall[c].op \in Setting => recordCall'[c].value = ValueOf(c)
  BY <1>2 DEF MovesOn
 <2> QED BY <1>1, <2>1 DEF RequestSound, IdOf, SlugOf, ValueOf, Setting
<1>3. recordCall[c].op \in Locking /\ recordCall'[c] # IdleCall =>
           (recordCall'[c].at \in {"workspace", "slug"} <=> Step(c) \in {"workspace", "slug"})
 <2>1. StageSound(c) BY CallFacts
 <2> QED BY <2>1 DEF StageSound, Locking, MovesOn, Step
<1>4. RequestsSound' /\ IndexSound' BY <1>1, <1>2, <1>3, QuietRequests
<1>5. ASSUME NEW s \in Slugs PROVE SpaceSound(s)'
 <2>1. CASE s = SlugOf(c) BY <2>1
 <2>2. CASE s # SlugOf(c)
  <3>1. SpaceSound(s) BY DEF RecordsSound
  <3> QED BY <1>1, <2>2, <3>1, SpaceKept
 <2> QED BY <2>1, <2>2
<1> QED BY <1>4, <1>5, StepSound

\* What a request adds to a project that no deletion overtook is there.
LEMMA LeftAdds ==
  ASSUME RecordsTypeOK, NEW id \in ProjectIds, LeftSound(id), NEW c \in RecordCalls, MovesOn(c),
         On(c, id, Adding), metas'[id] = NoMeta <=> metas[id] = NoMeta, excused[id] \subseteq excused'[id]
  PROVE  LeftSound(id)'
<1>1. CASE "left" \in excused[id] BY <1>1 DEF LeftSound
<1>2. CASE "left" \notin excused[id]
 <2>1. metas[id] # NoMeta /\ \A d \in RecordCalls : ~On(d, id, {"delete"}) BY <1>2 DEF LeftSound
 <2>2. \A d \in RecordCalls : ~On(d, id, {"delete"})' BY <2>1, OnAfter
 <2> QED BY <2>1, <2>2 DEF LeftSound
<1> QED BY <1>1, <1>2

\* The secret and the members of the project id.
LEMMA MembersFacts ==
  ASSUME RecordsTypeOK, NEW id \in ProjectIds, NEW m, m \subseteq People,
         members' = [members EXCEPT ![id] = m]
  PROVE  /\ members' \in [ProjectIds -> SUBSET People] /\ members'[id] = m
         /\ \A j \in ProjectIds \ {id} : members'[j] = members[j]
BY DEF RecordsTypeOK

LEMMA SeedSound ==
  ASSUME RecordsSound, NEW c \in RecordCalls, Seed(c)
  PROVE  RecordsSound'
<1>1. RecordsTypeOK /\ recordCall[c].op = "create" /\ Step(c) = "seed" BY StageTells, StageTellsOf DEF Seed
<1>2. PICK id \in ProjectIds, slug \in Slugs : id = IdOf(c) /\ slug = SlugOf(c) BY <1>1, CallFacts
<1>3. /\ StageSound(c) /\ RequestSound(c) /\ ProjectSound(id) /\ LeftSound(id) /\ SpaceSound(slug)
      /\ metas[id] # NoMeta => slug = metas[id].slug /\ LiveSound(id)
 BY <1>1, <1>2, CallFacts
<1>4. /\ MovesOn(c) /\ recordCall'[c].op = "create" /\ recordCall'[c].at = "ensure"
      /\ recordCall'[c].value = ValueOf(c) /\ recordCall'[c] # IdleCall
 <2>1. Proceeds(c, "ensure") /\ "ensure" \in Stages BY DEF Seed, Stages
 <2> QED BY <1>1, <2>1, ProceedsMoves, IdleTyped
<1>5. UNCHANGED <<metas, bySlug, workspaces, containers, secrets, runState, projectsMade, recordCalls, soiled>> BY DEF Seed
<1>6. /\ members' \in [ProjectIds -> SUBSET People]
      /\ \A j \in ProjectIds \ {id} : members'[j] = members[j] /\ excused'[j] = excused[j]
      /\ excused' \in [ProjectIds -> SUBSET {"file", "env", "limits", "members", "left"}]
      /\ excused[id] \subseteq excused'[id] /\ recordFaults' \in 0..MaxRecordFaults
      /\ IsFiniteSet(members'[id])
      /\ members'[id] # {} \/ "members" \in excused'[id]
      /\ "members" \notin excused'[id] => members[id] \subseteq members'[id]
 <2>1. CASE (\E p \in People : members' = WithMember(IdOf(c), p)) /\ UNCHANGED <<recordFaults, excused>>
  <3>1. PICK p \in People : members' = [members EXCEPT ![id] = @ \cup {p}] BY <2>1, <1>2 DEF WithMember
  <3>2. members[id] \cup {p} \subseteq People BY <1>1 DEF RecordsTypeOK
  <3>3. members' = [members EXCEPT ![id] = members[id] \cup {p}] BY <3>1
  <3>4. /\ members' \in [ProjectIds -> SUBSET People] /\ members'[id] = members[id] \cup {p}
        /\ \A j \in ProjectIds \ {id} : members'[j] = members[j]
   BY <1>1, <3>2, <3>3, MembersFacts
  <3>5. IsFiniteSet(members[id] \cup {p}) BY <1>3, FS_AddElement DEF ProjectSound
  <3> QED BY <2>1, <3>4, <3>5, <1>1 DEF RecordsTypeOK
 <2>2. CASE RecordFault /\ Excuse(IdOf(c), {"members"}) /\ UNCHANGED members
  <3>1. Excuse(id, {"members"}) /\ RecordFault BY <2>2, <1>2 DEF Excuse
  <3>2. /\ excused' \in [ProjectIds -> SUBSET {"file", "env", "limits", "members", "left"}]
        /\ \A j \in ProjectIds : excused[j] \subseteq excused'[j]
        /\ \A j \in ProjectIds \ {id} : excused'[j] = excused[j]
        /\ {"members"} \subseteq excused'[id]
   BY <1>1, <3>1, ExcuseFacts
  <3>3. recordFaults' \in 0..MaxRecordFaults BY <1>1, <3>1, RecordFacts DEF RecordFault, RecordsTypeOK
  <3>4. members' \in [ProjectIds -> SUBSET People] /\ IsFiniteSet(members'[id])
   BY <2>2, <1>1, <1>3 DEF RecordsTypeOK, ProjectSound
  <3> QED BY <2>2, <3>2, <3>3, <3>4
 <2> QED BY <2>1, <2>2 DEF Seed
<1>7. RecordsTypeOK' BY <1>1, <1>4, <1>5, <1>6 DEF RecordsTypeOK, MovesOn, RecordRequests
<1>8. SpaceSound(slug)' BY <1>1, <1>3, <1>4, <1>5, SpaceKept
<1>9. StageSound(c)' BY <1>4 DEF StageSound, Step, Setting
<1>10. LeftSound(id)' BY <1>1, <1>2, <1>3, <1>4, <1>5, <1>6, LeftAdds DEF On, Adding
<1>11. ASSUME metas[id] # NoMeta PROVE LiveSound(id)'
 <2>1. FileSound(id) /\ EnvSound(id) /\ LimitSound(id) /\ MemberSound(id) BY <1>3, <1>11 DEF LiveSound
 <2>2. FileSound(id)' BY <1>1, <1>3, <1>4, <1>5, <1>6, <2>1, FileKept DEF On, Setting
 <2>3. EnvSound(id)' BY <1>1, <1>3, <1>4, <1>5, <1>6, <1>9, <2>1, EnvKept
 <2>4. LimitSound(id)' BY <1>1, <1>3, <1>4, <1>5, <1>6, <2>1, LimitKept
 <2>5. MemberSound(id)'
  <3>1. CASE Excused(id, "members") \/ "members" \in excused'[id] BY <3>1, <1>5, <1>6 DEF MemberSound, Excused
  <3>2. CASE ~Excused(id, "members") /\ "members" \notin excused'[id]
   <4>1. Alone(id, {"leave"}) /\ \A d \in RecordCalls : On(d, id, {"leave"}) /\ ~recordCall[d].flag => Cardinality(members[id]) > 1
    BY <2>1, <3>2 DEF MemberSound
   <4>2. Alone(id, {"leave"})' BY <1>1, <1>4, <4>1, AloneAfter
   <4>3. ASSUME NEW d \in RecordCalls, On(d, id, {"leave"})', ~recordCall'[d].flag
         PROVE  Cardinality(members'[id]) > 1
    <5>1. On(d, id, {"leave"}) /\ recordCall'[d] = recordCall[d] BY <4>3, <1>1, <1>4, OnAfter DEF On
    <5>2. Cardinality(members[id]) > 1 BY <4>1, <4>3, <5>1
    <5>3. Cardinality(members[id]) <= Cardinality(members'[id]) BY <1>6, <3>2, FS_Subset
    <5>4. Cardinality(members[id]) \in Nat /\ Cardinality(members'[id]) \in Nat BY <1>3, <1>6, FS_CardinalityType DEF ProjectSound
    <5> QED BY <5>2, <5>3, <5>4
   <4>4. members'[id] # {} BY <1>6, <3>2
   <4> QED BY <4>2, <4>3, <4>4 DEF MemberSound
  <3> QED BY <3>1, <3>2
 <2> QED BY <2>2, <2>3, <2>4, <2>5 DEF LiveSound
<1>12. ProjectSound(id)' BY <1>5, <1>6, <1>10, <1>11 DEF ProjectSound
<1> QED BY <1>1, <1>2, <1>4, <1>5, <1>6, <1>7, <1>8, <1>9, <1>12, QuietStep DEF Locking, Setting

\* What is put under one slug, or recorded of one project.
LEMMA ContainersFacts ==
  ASSUME RecordsTypeOK, NEW slug \in Slugs, NEW box \in Containers,
         containers' = [containers EXCEPT ![slug] = box]
  PROVE  /\ containers' \in [Slugs -> Containers] /\ containers'[slug] = box
         /\ \A s \in Slugs \ {slug} : containers'[s] = containers[s]
BY DEF RecordsTypeOK

LEMMA WorkspacesFacts ==
  ASSUME RecordsTypeOK, NEW slug \in Slugs, NEW space \in Workspaces,
         workspaces' = [workspaces EXCEPT ![slug] = space]
  PROVE  /\ workspaces' \in [Slugs -> Workspaces] /\ workspaces'[slug] = space
         /\ \A s \in Slugs \ {slug} : workspaces'[s] = workspaces[s]
BY DEF RecordsTypeOK

LEMMA SecretsFacts ==
  ASSUME RecordsTypeOK, NEW id \in ProjectIds, NEW value \in 0..MaxRecordCalls,
         secrets' = [secrets EXCEPT ![id] = value]
  PROVE  /\ secrets' \in [ProjectIds -> 0..MaxRecordCalls] /\ secrets'[id] = value
         /\ \A j \in ProjectIds \ {id} : secrets'[j] = secrets[j]
BY DEF RecordsTypeOK

LEMMA FaultFacts ==
  ASSUME RecordsTypeOK, RecordFault
  PROVE  recordFaults' \in 0..MaxRecordFaults
BY RecordFacts DEF RecordFault, RecordsTypeOK

LEMMA EmptyTyped ==
  /\ NoContainer \in Containers /\ NoContainer.there = FALSE /\ NoContainer.of = {}
  /\ NoContainer.env = 0 /\ NoContainer.limits = 0
  /\ NoWorkspace \in Workspaces /\ NoWorkspace.there = FALSE /\ NoWorkspace.of = {} /\ NoWorkspace.env = 0
<1> DEFINE no == FALSE
<1>1. no \in BOOLEAN OBVIOUS
<1> HIDE DEF no
<1>2. [there |-> no, of |-> {}, env |-> 0, limits |-> 0] \in Containers /\ [there |-> no, of |-> {}, env |-> 0] \in Workspaces
 BY <1>1, RecordFacts DEF Containers, Workspaces
<1>3. NoContainer = [there |-> no, of |-> {}, env |-> 0, limits |-> 0] /\ NoWorkspace = [there |-> no, of |-> {}, env |-> 0]
 BY DEF NoContainer, NoWorkspace, no
<1> QED BY <1>2, <1>3 DEF no

\* Who starts or deletes what lies under the slug of a project that is started, upgraded or
\* deleted is the request that holds its lock.
LEMMA LockHolds ==
  ASSUME RecordsSound, NEW c \in RecordCalls, recordCall[c].op \in Locking,
         bySlug[SlugOf(c)] = IdOf(c),
         NEW d \in RecordCalls, SlugOf(d) = SlugOf(c),
         recordCall[d].op = "delete" \/ (recordCall[d].op = "start" /\ Step(d) = "ensure")
  PROVE  d = c
<1>1. recordCall[d].op \in Locking /\ recordCall[d].op # "none" /\ recordCall[c].op # "none" BY DEF Locking
<1>2. LockSound(d) /\ LockSound(c) /\ (metas[IdOf(d)] # NoMeta => bySlug[SlugOf(d)] = IdOf(d)) BY <1>1, CallFacts
<1>3. bySlug[SlugOf(d)] = IdOf(d) BY <1>1, <1>2 DEF LockSound
<1> QED BY <1>1, <1>2, <1>3 DEF LockSound

\* A request puts something under the slug of its project, which is soiled by that when the
\* project is being deleted.
LEMMA SpaceTouched ==
  ASSUME RecordsSound, NEW c \in RecordCalls, recordCall[c].op \notin {"none", "delete"}, MovesOn(c),
         NEW slug \in Slugs, slug = SlugOf(c), bySlug' = bySlug, Soil(c),
         ~containers'[slug].there => containers'[slug] = NoContainer,
         containers[slug].there => containers'[slug].there,
         recordCall[c].op = "start" /\ recordCall'[c] # IdleCall => recordCall'[c].at # "ensure",
         slug \notin soiled => /\ workspaces'[slug].of \subseteq workspaces[slug].of \cup {IdOf(c)}
                               /\ containers'[slug].of \subseteq containers[slug].of \cup {IdOf(c)}
                               /\ containers'[slug].there =>
                                    \/ IdOf(c) \in workspaces'[slug].of
                                    \/ containers[slug].there /\ workspaces'[slug].of = workspaces[slug].of
  PROVE  SpaceSound(slug)'
<1>1. /\ RecordsTypeOK /\ SpaceSound(slug) /\ IdOf(c) # 0 /\ IdleCall.op = "none"
      /\ metas[IdOf(c)] # NoMeta => bySlug[slug] = IdOf(c)
 BY CallFacts, IdleTyped
<1>2. soiled \subseteq soiled' /\ (Strays(c) => slug \in soiled') BY <1>1, SoilFacts
<1>3. ASSUME slug \notin soiled'
      PROVE  /\ bySlug'[slug] # 0
             /\ workspaces'[slug].of \cup containers'[slug].of \subseteq {bySlug'[slug]}
             /\ containers'[slug].there => workspaces'[slug].of = {bySlug'[slug]}
 <2>1. bySlug[slug] = IdOf(c) /\ slug \notin soiled BY <1>1, <1>2, <1>3 DEF Strays
 <2>2. /\ workspaces[slug].of \cup containers[slug].of \subseteq {IdOf(c)}
       /\ containers[slug].there => workspaces[slug].of = {IdOf(c)}
  BY <1>1, <2>1 DEF SpaceSound
 <2> QED BY <1>1, <2>1, <2>2
<1>4. ASSUME slug \notin soiled', NEW d \in RecordCalls, recordCall'[d].op = "delete", recordCall'[d].slug = slug
      PROVE  FALSE
 <2>1. d # c BY <1>1, <1>4 DEF MovesOn
 <2>2. recordCall[d].op = "delete" /\ SlugOf(d) = SlugOf(c) BY <1>4, <2>1 DEF MovesOn, SlugOf
 <2> QED BY <1>2, <1>4, <2>2, DeletionStrays
<1>5. ASSUME NEW d \in RecordCalls, recordCall'[d].op = "start", recordCall'[d].slug = slug,
             recordCall'[d].at = "ensure", ~recordCall'[d].flag
      PROVE  containers'[slug].there
 <2>1. d # c BY <1>1, <1>5 DEF MovesOn
 <2> QED BY <1>1, <1>5, <2>1 DEF MovesOn, SpaceSound, SlugOf, Step
<1> QED BY <1>3, <1>4, <1>5 DEF SpaceSound, NoContainer, NoWorkspace, SlugOf, Step

\* Without a container there is nothing to be out of step.
LEMMA EnvGone ==
  ASSUME RecordsTypeOK, NEW id \in ProjectIds, EnvSound(id), NEW c \in RecordCalls, MovesOn(c),
         metas'[id].slug = metas[id].slug, excused[id] \subseteq excused'[id], soiled \subseteq soiled',
         Unsoiled(id) => containers'[metas[id].slug] = NoContainer
  PROVE  EnvSound(id)'
<1>1. CASE Excused(id, "env") \/ ~Unsoiled(id) BY <1>1 DEF EnvSound, Excused, Unsoiled
<1>2. CASE ~Excused(id, "env") /\ Unsoiled(id)
 <2>1. Alone(id, EnvOps)' BY <1>2, AloneAfter DEF EnvOps, EnvSound
 <2>2. ~containers'[metas'[id].slug].there /\ containers'[metas'[id].slug].env = 0 BY <1>2, EmptyTyped
 <2> QED BY <2>1, <2>2 DEF EnvSound
<1> QED BY <1>1, <1>2

LEMMA LimitGone ==
  ASSUME RecordsTypeOK, NEW id \in ProjectIds, LimitSound(id), NEW c \in RecordCalls, MovesOn(c),
         metas'[id].slug = metas[id].slug, metas'[id].limits = metas[id].limits,
         excused[id] \subseteq excused'[id], soiled \subseteq soiled',
         Unsoiled(id) => containers'[metas[id].slug] = NoContainer,
         On(c, id, Launching) => Step(c) \in {"seed", "drop", "ensure"} /\ recordCall'[c].value = ValueOf(c)
  PROVE  LimitSound(id)'
<1>1. CASE Excused(id, "limits") \/ ~Unsoiled(id) BY <1>1 DEF LimitSound, Excused, Unsoiled
<1>2. CASE ~Excused(id, "limits") /\ Unsoiled(id)
 <2>1. Alone(id, LimitOps)' BY <1>2, AloneAfter DEF LimitOps, LimitSound
 <2>2. ~containers'[metas'[id].slug].there BY <1>2, EmptyTyped
 <2>3. ASSUME NEW d \in RecordCalls, On(d, id, Launching)', recordCall'[d].at \in {"seed", "drop", "ensure"}
       PROVE  recordCall'[d].value = metas'[id].limits
  <3>1. On(d, id, Launching) /\ (d # c => recordCall'[d] = recordCall[d]) BY <2>3, OnAfter DEF Launching
  <3>2. Step(d) \in {"seed", "drop", "ensure"} /\ recordCall'[d].value = ValueOf(d) BY <3>1, <2>3 DEF Step, ValueOf
  <3> QED BY <3>1, <3>2, <1>2 DEF LimitSound
 <2> QED BY <2>1, <2>2, <2>3 DEF LimitSound, Step, ValueOf
<1> QED BY <1>1, <1>2

----
\* Launching a container.

LEMMA DropContainerSound ==
  ASSUME RecordsSound, NEW c \in RecordCalls, DropContainer(c)
  PROVE  RecordsSound'
<1>1. RecordsTypeOK /\ recordCall[c].op = "upgrade" /\ Step(c) = "drop" BY StageTells, StageTellsOf DEF DropContainer
<1>2. PICK id \in ProjectIds, slug \in Slugs : id = IdOf(c) /\ slug = SlugOf(c) BY <1>1, CallFacts
<1>3. /\ StageSound(c) /\ LockSound(c) /\ ProjectSound(id) /\ LeftSound(id) /\ SpaceSound(slug)
      /\ metas[id] # NoMeta /\ slug = metas[id].slug /\ LiveSound(id) /\ bySlug[slug] = id
 <2>1. metas[id] # NoMeta BY <1>1, <1>2, CallFacts DEF LockSound, Locking
 <2> QED BY <2>1, <1>1, <1>2, CallFacts
<1>4. UNCHANGED <<metas, bySlug, workspaces, secrets, members, projectsMade, recordCalls, soiled>> BY DEF DropContainer
<1>5. FileSound(id) /\ EnvSound(id) /\ LimitSound(id) /\ MemberSound(id) BY <1>3 DEF LiveSound
<1>6. CASE /\ containers' = [containers EXCEPT ![SlugOf(c)] = NoContainer]
           /\ Proceeds(c, "ensure") /\ UNCHANGED <<runState, recordFaults, excused>>
 <2>1. /\ MovesOn(c) /\ recordCall'[c].op = "upgrade" /\ recordCall'[c].at = "ensure"
       /\ recordCall'[c].value = ValueOf(c)
  BY <1>1, <1>6, ProceedsMoves DEF Stages
 <2>2. /\ containers' \in [Slugs -> Containers] /\ containers'[slug] = NoContainer
       /\ \A s \in Slugs \ {slug} : containers'[s] = containers[s]
  BY <1>1, <1>2, <1>6, ContainersFacts, EmptyTyped
 <2>3. RecordsTypeOK' BY <1>1, <1>4, <1>6, <2>1, <2>2 DEF RecordsTypeOK, MovesOn, RecordRequests
 <2>4. StageSound(c)' BY <2>1 DEF StageSound, Step, Setting
 <2>5. SpaceSound(slug)'
  <3>1. ~ NoContainer.there BY EmptyTyped
  <3>2. \A d \in RecordCalls : ~(recordCall'[d].op = "start" /\ recordCall'[d].slug = slug /\ recordCall'[d].at = "ensure")
   <4> SUFFICES ASSUME NEW d \in RecordCalls, recordCall'[d].op = "start", recordCall'[d].slug = slug,
                        recordCall'[d].at = "ensure"
                 PROVE  FALSE
    OBVIOUS
   <4>1. d # c /\ recordCall'[d] = recordCall[d] BY <2>1 DEF MovesOn
   <4> QED BY <4>1, <1>1, <1>2, <1>3, LockHolds DEF Locking, SlugOf, Step
  <3>3. \A d \in RecordCalls : recordCall'[d].op = "delete" /\ recordCall'[d].slug = slug => recordCall'[d] = recordCall[d]
   BY <2>1 DEF MovesOn
  <3>4. ASSUME slug \notin soiled'
        PROVE  /\ bySlug'[slug] = 0 => workspaces'[slug] = NoWorkspace /\ containers'[slug] = NoContainer
               /\ workspaces'[slug].of \cup containers'[slug].of \subseteq {bySlug'[slug]}
   BY <3>4, <1>3, <1>4, <2>2, EmptyTyped DEF SpaceSound
  <3>5. ASSUME slug \notin soiled', NEW d \in RecordCalls, recordCall'[d].op = "delete", recordCall'[d].slug = slug
        PROVE  recordCall'[d].at = "slug" => workspaces'[slug] = NoWorkspace
   BY <3>5, <3>3, <1>3, <1>4 DEF SpaceSound, SlugOf, Step
  <3> QED BY <2>2, <3>1, <3>2, <3>4, <3>5 DEF SpaceSound, SlugOf, Step
 <2>6. LeftSound(id)' BY <1>1, <1>2, <1>3, <1>4, <1>6, <2>1, LeftKept
 <2>7. LiveSound(id)'
  <3>1. FileSound(id)' BY <1>1, <1>3, <1>4, <1>5, <1>6, <2>1, FileKept DEF On, Setting
  <3>2. EnvSound(id)' BY <1>1, <1>3, <1>4, <1>5, <1>6, <2>1, <2>2, EnvGone
  <3>3. LimitSound(id)' BY <1>1, <1>3, <1>4, <1>5, <1>6, <2>1, <2>2, LimitGone
  <3>4. MemberSound(id)' BY <1>1, <1>3, <1>4, <1>5, <1>6, <2>1, MemberKept DEF On
  <3> QED BY <3>1, <3>2, <3>3, <3>4 DEF LiveSound
 <2>8. ProjectSound(id)' BY <1>3, <1>4, <2>6, <2>7 DEF ProjectSound
 <2> QED BY <1>1, <1>2, <1>3, <1>4, <1>6, <2>1, <2>2, <2>3, <2>4, <2>5, <2>8, QuietStep DEF Locking, Setting
<1>7. CASE RecordFault /\ Ends(c) /\ Excuse(IdOf(c), {"env"}) /\ UNCHANGED containers
 <2>1. /\ MovesOn(c) /\ recordCall'[c] = IdleCall /\ runState' \subseteq runState /\ runState \ {id} \subseteq runState'
  BY <1>1, <1>2, <1>7, EndsMoves
 <2>2. /\ excused' \in [ProjectIds -> SUBSET {"file", "env", "limits", "members", "left"}]
       /\ \A j \in ProjectIds : excused[j] \subseteq excused'[j]
       /\ \A j \in ProjectIds \ {id} : excused'[j] = excused[j]
       /\ {"env"} \subseteq excused'[id]
  <3>1. Excuse(id, {"env"}) BY <1>2, <1>7 DEF Excuse
  <3> QED BY <1>1, <3>1, ExcuseFacts
 <2>3. RecordsTypeOK' BY <1>1, <1>4, <1>7, <2>1, <2>2, FaultFacts DEF RecordsTypeOK, MovesOn, RecordRequests
 <2>4. SpaceSound(slug)' BY <1>1, <1>3, <1>4, <1>7, <2>1, SpaceKept
 <2>5. LeftSound(id)' BY <1>1, <1>2, <1>3, <1>4, <2>1, <2>2, LeftKept
 <2>6. StageSound(c)' BY <2>1, IdleTyped DEF StageSound, Step, Setting
 <2>7. LiveSound(id)'
  <3>1. FileSound(id)' BY <1>1, <1>3, <1>4, <1>5, <1>7, <2>1, <2>2, FileKept DEF On, Setting
  <3>2. EnvSound(id)' BY <2>2 DEF EnvSound, Excused
  <3>3. LimitSound(id)' BY <1>1, <1>3, <1>4, <1>5, <1>7, <2>1, <2>2, LimitKept DEF On
  <3>4. MemberSound(id)' BY <1>1, <1>3, <1>4, <1>5, <2>1, <2>2, MemberKept DEF On
  <3> QED BY <3>1, <3>2, <3>3, <3>4 DEF LiveSound
 <2>8. ProjectSound(id)' BY <1>3, <1>4, <2>5, <2>7 DEF ProjectSound
 <2> QED BY <1>1, <1>2, <1>3, <1>4, <1>7, <2>1, <2>2, <2>3, <2>4, <2>8, QuietStep DEF Locking, Setting
<1> QED BY <1>6, <1>7 DEF DropContainer

LEMMA EnsureContainerSound ==
  ASSUME RecordsSound, NEW c \in RecordCalls, EnsureContainer(c)
  PROVE  RecordsSound'
<1>1. RecordsTypeOK /\ recordCall[c].op \in Launching /\ Step(c) = "ensure" /\ recordCall[c].op # "none"
 BY StageTells, StageTellsOf DEF EnsureContainer, Launching
<1>2. PICK id \in ProjectIds, slug \in Slugs : id = IdOf(c) /\ slug = SlugOf(c) BY <1>1, CallFacts
<1>3. /\ StageSound(c) /\ RequestSound(c) /\ ProjectSound(id) /\ LeftSound(id) /\ SpaceSound(slug)
      /\ metas[id] # NoMeta => slug = metas[id].slug /\ LiveSound(id) /\ bySlug[slug] = id
 BY <1>1, <1>2, CallFacts
<1>4. UNCHANGED <<metas, bySlug, secrets, members, projectsMade, recordCalls>> BY DEF EnsureContainer
<1>5. metas[id] # NoMeta => FileSound(id) /\ EnvSound(id) /\ LimitSound(id) /\ MemberSound(id) BY <1>3 DEF LiveSound
<1>6. CASE /\ containers' = [containers EXCEPT ![SlugOf(c)] = Ensured(c)]
           /\ workspaces' = [workspaces EXCEPT ![SlugOf(c)].there = TRUE, ![SlugOf(c)].of = @ \cup {IdOf(c)}]
           /\ IF recordCall[c].flag THEN Proceeds(c, "list") /\ UNCHANGED runState ELSE Ends(c)
           /\ Soil(c)
           /\ UNCHANGED <<recordFaults, excused>>
 <2> DEFINE box == containers[slug]
             bux == containers'[slug]
             space == workspaces[slug]
             spice == workspaces'[slug]
 <2>1. /\ MovesOn(c) /\ runState \ {id} \subseteq runState' /\ runState' \subseteq runState
       /\ recordCall[c].op \notin Locking => runState' = runState
       /\ recordCall[c].flag => recordCall'[c] # IdleCall /\ recordCall'[c].op = recordCall[c].op /\ recordCall'[c].at = "list"
                                /\ runState' = runState
       /\ ~recordCall[c].flag => recordCall'[c] = IdleCall
  BY <1>1, <1>2, <1>6, ProceedsMoves, EndsMoves, IdleTyped DEF Stages
 <2>2. /\ containers' \in [Slugs -> Containers] /\ \A s \in Slugs \ {slug} : containers'[s] = containers[s]
       /\ bux.there /\ bux.of = box.of \cup {id} /\ bux.env = box.env
       /\ bux.limits = IF ValueOf(c) # 0 THEN ValueOf(c) ELSE box.limits
  <3> DEFINE yes == TRUE
  <3>0. yes \in BOOLEAN /\ yes OBVIOUS
  <3> HIDE DEF yes
  <3>1. containers[slug] \in Containers /\ ValueOf(c) \in 0..MaxRecordCalls BY <1>1, RequestTypes DEF RecordsTypeOK
  <3> DEFINE limits == IF ValueOf(c) # 0 THEN ValueOf(c) ELSE containers[slug].limits
              new == [containers[slug] EXCEPT !.there = yes, !.of = containers[slug].of \cup {id}, !.limits = limits]
  <3>2. limits \in 0..MaxRecordCalls BY <3>1 DEF Containers
  <3>3. Ensured(c) = new BY <3>0, <1>2 DEF Ensured
  <3>4. containers' = [containers EXCEPT ![slug] = new] BY <1>6, <1>2, <3>3
  <3> HIDE DEF limits
  <3>5. /\ new \in Containers /\ new.there = yes /\ new.of = containers[slug].of \cup {id}
        /\ new.env = containers[slug].env /\ new.limits = limits
   BY <3>0, <3>1, <3>2 DEF Containers
  <3> HIDE DEF new
  <3>6. /\ containers' \in [Slugs -> Containers] /\ containers'[slug] = new
        /\ \A s \in Slugs \ {slug} : containers'[s] = containers[s]
   BY <1>1, <3>4, <3>5, ContainersFacts
  <3> QED BY <3>0, <3>5, <3>6 DEF limits
 <2>3. /\ workspaces' \in [Slugs -> Workspaces] /\ \A s \in Slugs \ {slug} : workspaces'[s] = workspaces[s]
       /\ spice.of = space.of \cup {id} /\ spice.env = space.env
  <3> DEFINE yes == TRUE
  <3>0. yes \in BOOLEAN /\ yes OBVIOUS
  <3> DEFINE new == [workspaces[slug] EXCEPT !.there = yes, !.of = workspaces[slug].of \cup {id}]
  <3>1. workspaces[slug] \in Workspaces BY <1>1 DEF RecordsTypeOK
  <3>2. workspaces' = [workspaces EXCEPT ![slug] = new] BY <1>6, <1>2
  <3> HIDE DEF yes
  <3>3. new \in Workspaces /\ new.of = workspaces[slug].of \cup {id} /\ new.env = workspaces[slug].env
   BY <3>0, <3>1 DEF Workspaces
  <3> HIDE DEF new
  <3> QED BY <1>1, <3>2, <3>3, WorkspacesFacts
 <2>4. soiled \subseteq soiled' /\ soiled' \subseteq soiled \cup {slug} /\ soiled' \subseteq Slugs /\ (Strays(c) => slug \in soiled')
  BY <1>1, <1>2, <1>6, SoilFacts
 <2>5. RecordsTypeOK' BY <1>1, <1>4, <1>6, <2>1, <2>2, <2>3, <2>4 DEF RecordsTypeOK, MovesOn, RecordRequests
 <2>6. StageSound(c)' BY <1>1, <2>1, IdleTyped DEF StageSound, Step, Setting, Launching
 <2>7. SpaceSound(slug)'
  <3>1. recordCall[c].op \notin {"none", "delete"} BY <1>1 DEF Launching
  <3>2. recordCall[c].op = "start" /\ recordCall'[c] # IdleCall => recordCall'[c].at # "ensure" BY <2>1
  <3> HIDE DEF box, bux, space, spice
  <3> QED BY <1>1, <1>2, <1>4, <1>6, <2>1, <2>2, <2>3, <3>1, <3>2, SpaceTouched DEF box, bux, space, spice
 <2>8. LeftSound(id)' BY <1>1, <1>2, <1>3, <1>4, <1>6, <2>1, LeftKept DEF Launching
 <2>9. ASSUME metas[id] # NoMeta PROVE LiveSound(id)'
  <3>0. slug = metas[id].slug /\ metas' = metas /\ On(c, id, EnvOps) /\ On(c, id, LimitOps) /\ ~On(c, id, Setting)
        /\ excused' = excused
   BY <1>1, <1>2, <1>3, <1>4, <1>6, <2>9 DEF On, EnvOps, LimitOps, Launching, Setting
  <3>1. FileSound(id)' BY <1>1, <1>3, <1>4, <1>5, <1>6, <2>1, <2>3, <2>4, <2>9, <3>0, FileKept
  <3>2. EnvSound(id)'
   <4>1. CASE Excused(id, "env") \/ ~Unsoiled(id) BY <4>1, <2>4, <3>0 DEF EnvSound, Excused, Unsoiled
   <4>2. CASE ~Excused(id, "env") /\ Unsoiled(id)
    <5>1. /\ Alone(id, EnvOps)
          /\ (\A d \in RecordCalls : On(d, id, EnvOps) => Step(d) \in {"seed", "ensure"}) =>
                (box.there => box.env = secrets[id])
     BY <4>2, <1>5, <2>9, <3>0 DEF EnvSound
    <5>2. Alone(id, EnvOps)' BY <5>1, <1>1, <2>1, AloneAfter DEF EnvOps
    <5>3. ASSUME NEW d \in RecordCalls, On(d, id, EnvOps)'
          PROVE  d = c /\ recordCall[c].flag
     <6>1. On(d, id, EnvOps) /\ (d = c => recordCall'[c] # IdleCall) BY <1>1, <2>1, <5>3, OnAfter DEF EnvOps
     <6> QED BY <6>1, <5>1, <3>0, <2>1 DEF Alone
    <5>4. box.there => box.env = secrets[id] BY <5>1, <3>0, <1>1 DEF Alone
    <5>5. ~box.there => box.env = 0 BY <1>3, EmptyTyped DEF SpaceSound
    <5>6. ~recordCall[c].flag => box.there BY <1>1, <1>2, <1>3 DEF SpaceSound, RequestSound, Launching
    <5>7. ~On(c, id, Setting)' BY <1>1, <2>1, IdleTyped DEF On, MovesOn, Setting, Launching
    <5>8. On(c, id, EnvOps)' => recordCall'[c].at = "list" BY <2>1, <5>3
    <5>9. (\A d \in RecordCalls : On(d, id, EnvOps)' => Step(d)' \in {"seed", "ensure"}) =>
             (bux.there => bux.env = secrets'[id])
     <6>1. CASE recordCall[c].flag
      <7>1. On(c, id, EnvOps)' /\ recordCall'[c].at = "list" BY <6>1, <2>1, <1>1, <1>2 DEF On, MovesOn, EnvOps, Launching, IdOf
      <7> QED BY <7>1 DEF Step
     <6>2. CASE ~recordCall[c].flag BY <6>2, <5>4, <5>6, <2>2, <1>4
     <6> QED BY <6>1, <6>2
    <5>10. \A d \in RecordCalls : ~On(d, id, Setting)'
     <6>1. \A d \in RecordCalls : On(d, id, Setting)' => On(d, id, EnvOps)' BY DEF On, Setting, EnvOps
     <6> QED BY <6>1, <5>3, <5>7
    <5>11. \A d \in RecordCalls : On(d, id, Launching)' /\ Step(d)' \in {"list", "apply"} =>
             /\ bux.env \in {0, secrets'[id]}
             /\ Step(d)' # "apply"
     <6>1. \A d \in RecordCalls : On(d, id, Launching)' => On(d, id, EnvOps)' BY DEF On, Launching, EnvOps
     <6>2. bux.env \in {0, secrets'[id]} BY <5>4, <5>5, <2>2, <1>4
     <6> QED BY <6>1, <6>2, <5>3, <5>8 DEF Step
    <5> HIDE DEF box, bux
    <5> QED BY <5>2, <5>9, <5>10, <5>11, <3>0 DEF EnvSound, bux
   <4> QED BY <4>1, <4>2
  <3>3. LimitSound(id)'
   <4>1. CASE Excused(id, "limits") \/ ~Unsoiled(id) BY <4>1, <2>4, <3>0 DEF LimitSound, Excused, Unsoiled
   <4>2. CASE ~Excused(id, "limits") /\ Unsoiled(id)
    <5>1. /\ Alone(id, LimitOps)
          /\ (\A d \in RecordCalls : ~On(d, id, {"limit"})) => (box.there => box.limits = metas[id].limits)
          /\ ValueOf(c) = metas[id].limits
     <6>1. On(c, id, Launching) BY <1>1, <1>2 DEF On
     <6> QED BY <4>2, <1>1, <1>5, <2>9, <3>0, <6>1 DEF LimitSound
    <5>2. Alone(id, LimitOps)' BY <5>1, <1>1, <2>1, AloneAfter DEF LimitOps
    <5>3. ASSUME NEW d \in RecordCalls, On(d, id, LimitOps)'
          PROVE  d = c /\ recordCall'[c].at = "list"
     <6>1. On(d, id, LimitOps) /\ (d = c => recordCall'[c] # IdleCall) BY <1>1, <2>1, <5>3, OnAfter DEF LimitOps
     <6> QED BY <6>1, <5>1, <3>0, <2>1 DEF Alone
    <5>4. \A d \in RecordCalls : ~On(d, id, {"limit"})
     <6>1. \A d \in RecordCalls : On(d, id, {"limit"}) => d = c BY <5>1, <3>0 DEF Alone, On, LimitOps
     <6> QED BY <6>1, <1>1 DEF On, Launching
    <5>5. ~box.there => box.limits = 0 BY <1>3, EmptyTyped DEF SpaceSound
    <5>6. bux.limits = metas'[id].limits BY <5>1, <5>4, <5>5, <2>2, <3>0
    <5>7. \A d \in RecordCalls : (On(d, id, Launching)' \/ On(d, id, {"limit"})') => d = c /\ recordCall'[c].at = "list"
     <6>1. \A d \in RecordCalls : (On(d, id, Launching)' \/ On(d, id, {"limit"})') => On(d, id, LimitOps)'
      BY DEF On, Launching, LimitOps
     <6> QED BY <6>1, <5>3
    <5> HIDE DEF box, bux
    <5> QED BY <5>2, <5>6, <5>7, <3>0 DEF LimitSound, bux, Step
   <4> QED BY <4>1, <4>2
  <3>4. MemberSound(id)' BY <1>1, <1>3, <1>4, <1>5, <1>6, <2>1, <2>4, <2>9, MemberKept DEF On
  <3> QED BY <3>1, <3>2, <3>3, <3>4 DEF LiveSound
 <2>10. ProjectSound(id)' BY <1>3, <1>4, <2>8, <2>9 DEF ProjectSound
 <2>11. metas[id] = NoMeta => slug \in soiled' BY <1>2, <2>4 DEF Strays
 <2>12. recordCall[c].op \notin {"none", "delete"} /\ recordCall[c].op \notin Setting BY <1>1 DEF Launching, Setting
 <2> HIDE DEF box, bux, space, spice
 <2> QED BY <1>1, <1>2, <1>4, <1>6, <2>1, <2>2, <2>3, <2>4, <2>5, <2>6, <2>7, <2>10, <2>11, <2>12, QuietStep
<1>7. CASE /\ RecordFault /\ Ends(c) /\ Excuse(IdOf(c), {"limits"})
           /\ UNCHANGED <<containers, workspaces, soiled>>
 <2>1. /\ MovesOn(c) /\ recordCall'[c] = IdleCall /\ runState' \subseteq runState /\ runState \ {id} \subseteq runState'
       /\ recordCall[c].op \notin Locking => runState' = runState
  BY <1>1, <1>2, <1>7, EndsMoves
 <2>2. /\ excused' \in [ProjectIds -> SUBSET {"file", "env", "limits", "members", "left"}]
       /\ \A j \in ProjectIds : excused[j] \subseteq excused'[j]
       /\ \A j \in ProjectIds \ {id} : excused'[j] = excused[j]
       /\ {"limits"} \subseteq excused'[id]
  <3>1. Excuse(id, {"limits"}) BY <1>2, <1>7 DEF Excuse
  <3> QED BY <1>1, <3>1, ExcuseFacts
 <2>3. RecordsTypeOK' BY <1>1, <1>4, <1>7, <2>1, <2>2, FaultFacts DEF RecordsTypeOK, MovesOn, RecordRequests
 <2>4. SpaceSound(slug)' BY <1>1, <1>3, <1>4, <1>7, <2>1, SpaceKept
 <2>5. LeftSound(id)' BY <1>1, <1>2, <1>3, <1>4, <2>1, <2>2, LeftKept DEF Launching
 <2>6. StageSound(c)' BY <2>1, IdleTyped DEF StageSound, Step, Setting
 <2>7. ASSUME metas[id] # NoMeta PROVE LiveSound(id)'
  <3>1. FileSound(id)' BY <1>1, <1>3, <1>4, <1>5, <1>7, <2>1, <2>2, <2>7, FileKept DEF On, Setting, Launching
  <3>2. EnvSound(id)' BY <1>1, <1>3, <1>4, <1>5, <1>7, <2>1, <2>2, <2>6, <2>7, EnvKept
  <3>3. LimitSound(id)' BY <2>2 DEF LimitSound, Excused
  <3>4. MemberSound(id)' BY <1>1, <1>3, <1>4, <1>5, <1>7, <2>1, <2>2, <2>7, MemberKept DEF On
  <3> QED BY <3>1, <3>2, <3>3, <3>4 DEF LiveSound
 <2>8. ProjectSound(id)' BY <1>3, <1>4, <2>5, <2>7 DEF ProjectSound
 <2>12. recordCall[c].op \notin {"none", "delete"} /\ recordCall[c].op \notin Setting BY <1>1 DEF Launching, Setting
 <2> QED BY <1>1, <1>2, <1>3, <1>4, <1>7, <2>1, <2>2, <2>3, <2>4, <2>8, <2>12, QuietStep
<1> QED BY <1>6, <1>7 DEF EnsureContainer

\* A request is the only one on its project of a kind that writes a copy, when the copy is
\* not excused.
LEMMA AloneIs ==
  ASSUME RecordsTypeOK, NEW id \in ProjectIds, NEW ops, "none" \notin ops, Alone(id, ops),
         NEW c \in RecordCalls, MovesOn(c), On(c, id, ops)
  PROVE  /\ Alone(id, ops)'
         /\ \A d \in RecordCalls : On(d, id, ops) => d = c
         /\ \A d \in RecordCalls : On(d, id, ops)' => d = c /\ recordCall'[c] # IdleCall
<1>1. Alone(id, ops)' /\ \A d \in RecordCalls : On(d, id, ops) => d = c BY AloneAfter DEF Alone
<1>2. \A d \in RecordCalls : On(d, id, ops)' => On(d, id, ops) /\ (d = c => recordCall'[c] # IdleCall) BY OnAfter
<1> QED BY <1>1, <1>2

LEMMA OnKinds ==
  ASSUME NEW c \in RecordCalls, NEW id \in ProjectIds
  PROVE  /\ On(c, id, Setting) \/ On(c, id, Launching) => On(c, id, EnvOps)
         /\ On(c, id, Launching) \/ On(c, id, {"limit"}) => On(c, id, LimitOps)
         /\ On(c, id, Setting)' \/ On(c, id, Launching)' => On(c, id, EnvOps)'
         /\ On(c, id, Launching)' \/ On(c, id, {"limit"})' => On(c, id, LimitOps)'
         /\ ~(On(c, id, Setting) /\ On(c, id, Launching)) /\ ~(On(c, id, Setting)' /\ On(c, id, Launching)')
         /\ ~(On(c, id, {"limit"}) /\ On(c, id, Launching)) /\ ~(On(c, id, {"limit"})' /\ On(c, id, Launching)')
BY DEF On, Setting, Launching, EnvOps, LimitOps

LEMMA ListForContainerSound ==
  ASSUME RecordsSound, NEW c \in RecordCalls, ListForContainer(c)
  PROVE  RecordsSound'
<1>1. RecordsTypeOK /\ recordCall[c].op \in Launching /\ Step(c) = "list" /\ recordCall[c].op # "none"
 BY StageTells, StageTellsOf DEF ListForContainer, Launching, Setting
<1>2. PICK id \in ProjectIds, slug \in Slugs : id = IdOf(c) /\ slug = SlugOf(c) BY <1>1, CallFacts
<1>3. /\ StageSound(c) /\ ProjectSound(id) /\ LeftSound(id) /\ SpaceSound(slug)
      /\ metas[id] # NoMeta => slug = metas[id].slug /\ LiveSound(id)
 BY <1>1, <1>2, CallFacts
<1>4. UNCHANGED <<recordStores, runState, recordBounds, soiled, excused>> BY DEF ListForContainer
<1>5. /\ MovesOn(c) /\ recordCall'[c].op = recordCall[c].op /\ recordCall'[c].id = id
      /\ recordCall'[c].at = "apply" /\ recordCall'[c].value = secrets[id]
 <2>1. recordCall \in [RecordCalls -> RecordRequests] /\ recordCall[c] \in RecordRequests BY <1>1, RequestTypes
 <2>2. recordCall' = [recordCall EXCEPT ![c].at = "apply", ![c].value = secrets[id]] BY <1>2 DEF ListForContainer, Listed
 <2>3. /\ recordCall'[c] = [recordCall[c] EXCEPT !.at = "apply", !.value = secrets[id]]
       /\ \A d \in RecordCalls \ {c} : recordCall'[d] = recordCall[d]
  BY <2>1, <2>2
 <2>4. secrets[id] \in 0..MaxRecordCalls BY <1>1 DEF RecordsTypeOK
 <2>5. recordCall'[c] \in RecordRequests BY <2>1, <2>3, <2>4 DEF RecordRequests, Stages
 <2>6. recordCall' \in [RecordCalls -> RecordRequests] BY <2>1, <2>2, <2>3, <2>5
 <2> QED BY <1>2, <2>1, <2>3, <2>6 DEF MovesOn, RecordRequests, IdOf, SlugOf
<1>6. recordCall'[c] # IdleCall /\ recordCall[c].op \notin {"none", "delete"} /\ recordCall[c].op \notin Setting
 BY <1>1, <1>5, IdleTyped DEF Launching, Setting
<1>7. RecordsTypeOK' BY <1>1, <1>4, <1>5 DEF RecordsTypeOK, MovesOn, RecordRequests, recordStores, recordBounds
<1>8. SpaceSound(slug)' BY <1>1, <1>3, <1>4, <1>5, <1>6, SpaceKept DEF recordStores
<1>9. StageSound(c)' BY <1>1, <1>5 DEF StageSound, Step, Setting, Launching
<1>10. LeftSound(id)' BY <1>1, <1>2, <1>3, <1>4, <1>5, <1>6, LeftKept DEF recordStores
<1>11. ASSUME metas[id] # NoMeta PROVE LiveSound(id)'
 <2>1. FileSound(id) /\ EnvSound(id) /\ LimitSound(id) /\ MemberSound(id) /\ slug = metas[id].slug BY <1>3, <1>11 DEF LiveSound
 <2>2. FileSound(id)' BY <1>1, <1>4, <1>5, <1>6, <2>1, FileKept DEF On, recordStores
 <2>3. EnvSound(id)'
  <3>1. CASE Excused(id, "env") BY <3>1, <1>4 DEF EnvSound, Excused, recordStores
  <3>2. CASE ~Excused(id, "env")
   <4>1. On(c, id, EnvOps) /\ On(c, id, Launching) /\ On(c, id, EnvOps)' /\ ~On(c, id, Setting)'
    BY <1>1, <1>2, <1>5 DEF On, EnvOps, Launching, IdOf, Setting
   <4>2. /\ Alone(id, EnvOps)' /\ \A d \in RecordCalls : On(d, id, EnvOps)' => d = c
    BY <1>1, <1>5, <2>1, <3>2, <4>1, AloneIs DEF EnvSound, EnvOps
   <4>3. containers'[slug].env \in {0, secrets'[id]} /\ metas'[id].slug = slug
    BY <1>1, <1>4, <2>1, <3>2, <4>1 DEF EnvSound, recordStores
   <4>4. \A d \in RecordCalls : ~On(d, id, Setting)' /\ (On(d, id, Launching)' => d = c) BY <4>1, <4>2, OnKinds
   <4>5. Step(c)' = "apply" /\ ValueOf(c)' = secrets'[id] BY <1>4, <1>5 DEF Step, ValueOf, recordStores
   <4> QED BY <4>1, <4>2, <4>3, <4>4, <4>5 DEF EnvSound
  <3> QED BY <3>1, <3>2
 <2>4. LimitSound(id)' BY <1>1, <1>4, <1>5, <2>1, LimitKept DEF On, Launching, recordStores
 <2>5. MemberSound(id)' BY <1>1, <1>4, <1>5, <2>1, MemberKept DEF On, recordStores
 <2> QED BY <2>2, <2>3, <2>4, <2>5 DEF LiveSound
<1>12. ProjectSound(id)' BY <1>3, <1>4, <1>10, <1>11 DEF ProjectSound, recordStores
<1> QED BY <1>1, <1>2, <1>4, <1>5, <1>6, <1>7, <1>8, <1>9, <1>12, QuietStep DEF recordStores, recordBounds

LEMMA ApplyDiffSound ==
  ASSUME RecordsSound, NEW c \in RecordCalls, ApplyDiff(c)
  PROVE  RecordsSound'
<1>1. /\ RecordsTypeOK /\ recordCall[c].op \in Launching \cup Setting /\ Step(c) = "apply"
      /\ recordCall[c].op \notin {"none", "delete"} /\ Ends(c) /\ Soil(c)
 BY StageTells, StageTellsOf DEF ApplyDiff, Launching, Setting
<1>2. PICK id \in ProjectIds, slug \in Slugs : id = IdOf(c) /\ slug = SlugOf(c) BY <1>1, CallFacts
<1>3. /\ StageSound(c) /\ RequestSound(c) /\ ProjectSound(id) /\ LeftSound(id) /\ SpaceSound(slug)
      /\ metas[id] # NoMeta => slug = metas[id].slug /\ LiveSound(id)
 BY <1>1, <1>2, CallFacts
<1>4. UNCHANGED <<metas, bySlug, workspaces, secrets, members, projectsMade, recordCalls>> BY DEF ApplyDiff
<1>5. /\ MovesOn(c) /\ recordCall'[c] = IdleCall /\ runState' \subseteq runState /\ runState \ {id} \subseteq runState'
      /\ recordCall[c].op \notin Locking => runState' = runState
 BY <1>1, <1>2, EndsMoves
<1>6. soiled \subseteq soiled' /\ soiled' \subseteq soiled \cup {slug} /\ soiled' \subseteq Slugs /\ (Strays(c) => slug \in soiled')
 BY <1>1, <1>2, SoilFacts
<1> DEFINE box == containers[slug]
            bux == containers'[slug]
<1>7. /\ containers' \in [Slugs -> Containers] /\ \A s \in Slugs \ {slug} : containers'[s] = containers[s]
      /\ bux.there = box.there /\ bux.of = box.of /\ bux.limits = box.limits
      /\ ~bux.there => bux = NoContainer
      /\ excused' \in [ProjectIds -> SUBSET {"file", "env", "limits", "members", "left"}]
      /\ \A j \in ProjectIds \ {id} : excused'[j] = excused[j]
      /\ excused[id] \subseteq excused'[id] /\ recordFaults' \in 0..MaxRecordFaults
      /\ \/ "env" \in excused'[id]
         \/ ~bux.there
         \/ ValueOf(c) = 0 /\ recordCall[c].op # "unset" /\ bux.env = box.env
         \/ ~(ValueOf(c) = 0 /\ recordCall[c].op # "unset") /\ bux.env = ValueOf(c)
 <2>1. ~box.there => box = NoContainer BY <1>3 DEF SpaceSound
 <2>2. CASE RecordFault /\ Excuse(IdOf(c), {"env"}) /\ UNCHANGED containers
  <3>1. Excuse(id, {"env"}) BY <1>2, <2>2 DEF Excuse
  <3>2. /\ excused' \in [ProjectIds -> SUBSET {"file", "env", "limits", "members", "left"}]
        /\ \A j \in ProjectIds : excused[j] \subseteq excused'[j]
        /\ \A j \in ProjectIds \ {id} : excused'[j] = excused[j]
        /\ {"env"} \subseteq excused'[id]
   BY <1>1, <3>1, ExcuseFacts
  <3> QED BY <1>1, <2>1, <2>2, <3>2, FaultFacts DEF RecordsTypeOK
 <2>3. CASE /\ containers' = IF containers[SlugOf(c)].there THEN Applied(c) ELSE containers
            /\ UNCHANGED <<recordFaults, excused>>
  <3>1. CASE containers' = containers /\ (~box.there \/ (ValueOf(c) = 0 /\ recordCall[c].op # "unset"))
   BY <1>1, <2>1, <2>3, <3>1 DEF RecordsTypeOK
  <3>2. CASE /\ containers' = [containers EXCEPT ![SlugOf(c)].env = ValueOf(c)]
             /\ box.there /\ ~(ValueOf(c) = 0 /\ recordCall[c].op # "unset")
   <4> DEFINE new == [containers[slug] EXCEPT !.env = ValueOf(c)]
   <4>1. containers[slug] \in Containers /\ ValueOf(c) \in 0..MaxRecordCalls BY <1>1, RequestTypes DEF RecordsTypeOK
   <4>2. containers' = [containers EXCEPT ![slug] = new] BY <1>2, <3>2
   <4>3. /\ new \in Containers /\ new.env = ValueOf(c) /\ new.of = containers[slug].of
         /\ new.limits = containers[slug].limits
    BY <4>1 DEF Containers
   <4>4. new.there = containers[slug].there BY <4>1 DEF Containers
   <4> HIDE DEF new
   <4>5. /\ containers' \in [Slugs -> Containers] /\ containers'[slug] = new
         /\ \A s \in Slugs \ {slug} : containers'[s] = containers[s]
    BY <1>1, <4>2, <4>3, ContainersFacts
   <4> QED BY <1>1, <2>3, <3>2, <4>3, <4>4, <4>5 DEF RecordsTypeOK
  <3>3. containers' = containers \/ containers' = [containers EXCEPT ![SlugOf(c)].env = ValueOf(c)] BY <2>3 DEF Applied
  <3> QED BY <1>2, <2>3, <3>1, <3>2 DEF Applied
 <2> QED BY <2>2, <2>3 DEF ApplyDiff
<1>8. RecordsTypeOK' BY <1>1, <1>4, <1>5, <1>6, <1>7 DEF RecordsTypeOK, MovesOn, RecordRequests
<1>9. StageSound(c)' BY <1>5, IdleTyped DEF StageSound, Step, Setting
<1>10. SpaceSound(slug)'
 <2>1. SpaceSound(slug) /\ bux.of = box.of /\ bux.there = box.there /\ workspaces'[slug] = workspaces[slug] BY <1>3, <1>4, <1>7
 <2>2. ~bux.there => bux = NoContainer BY <1>7
 <2> HIDE DEF box, bux
 <2> QED BY <1>1, <1>2, <1>4, <1>5, <1>6, <2>1, <2>2, SpaceTouched DEF box, bux
<1>11. LeftSound(id)' BY <1>1, <1>2, <1>3, <1>4, <1>5, <1>7, LeftKept
<1>12. ASSUME metas[id] # NoMeta PROVE LiveSound(id)'
 <2>1. FileSound(id) /\ EnvSound(id) /\ LimitSound(id) /\ MemberSound(id) /\ slug = metas[id].slug BY <1>3, <1>12 DEF LiveSound
 <2>2. FileSound(id)' BY <1>1, <1>4, <1>5, <1>6, <1>7, <2>1, FileKept DEF On
 <2>3. EnvSound(id)'
  <3>1. CASE Excused(id, "env") \/ ~Unsoiled(id) \/ "env" \in excused'[id]
   BY <3>1, <1>4, <1>6, <1>7 DEF EnvSound, Excused, Unsoiled
  <3>2. CASE ~Excused(id, "env") /\ Unsoiled(id) /\ "env" \notin excused'[id]
   <4>1. On(c, id, EnvOps) BY <1>1, <1>2 DEF On, EnvOps, Launching, Setting
   <4>2. /\ Alone(id, EnvOps)' /\ \A d \in RecordCalls : ~On(d, id, EnvOps)'
    BY <1>1, <1>5, <2>1, <3>2, <4>1, AloneIs DEF EnvSound, EnvOps
   <4>3. \A d \in RecordCalls : ~On(d, id, Setting)' /\ ~On(d, id, Launching)' BY <4>2, OnKinds
   <4>4. bux.there => bux.env = secrets'[id]
    <5> SUFFICES ASSUME bux.there PROVE bux.env = secrets'[id] OBVIOUS
    <5>0. box.there BY <1>7
    <5>1. CASE recordCall[c].op \in Setting
     <6>1. ValueOf(c) = secrets[id] BY <5>0, <5>1, <1>1, <1>2, <2>1, <3>2 DEF EnvSound, On
     <6>2. ~(ValueOf(c) = 0 /\ recordCall[c].op # "unset") BY <5>1, <1>3 DEF RequestSound, Setting
     <6> QED BY <6>1, <6>2, <1>4, <1>7, <3>2
    <5>2. CASE recordCall[c].op \in Launching
     <6>1. box.env \in {0, secrets[id]} /\ ValueOf(c) = secrets[id] BY <5>0, <5>2, <1>1, <1>2, <2>1, <3>2 DEF EnvSound, On
     <6> QED BY <6>1, <1>4, <1>7, <3>2
    <5> QED BY <5>1, <5>2, <1>1
   <4> HIDE DEF box, bux
   <4>5. metas'[id].slug = slug BY <1>4, <2>1
   <4> QED BY <4>2, <4>3, <4>4, <4>5 DEF EnvSound, bux
  <3> QED BY <3>1, <3>2
 <2>4. LimitSound(id)' BY <1>1, <1>4, <1>5, <1>6, <1>7, <2>1, LimitKept DEF On, Launching, Setting
 <2>5. MemberSound(id)' BY <1>1, <1>4, <1>5, <1>6, <1>7, <2>1, MemberKept DEF On
 <2> QED BY <2>2, <2>3, <2>4, <2>5 DEF LiveSound
<1>13. ProjectSound(id)' BY <1>3, <1>4, <1>11, <1>12 DEF ProjectSound
<1>14. metas[id] = NoMeta => slug \in soiled' BY <1>2, <1>6 DEF Strays
<1> HIDE DEF box, bux
<1> QED BY <1>1, <1>2, <1>4, <1>5, <1>6, <1>7, <1>8, <1>9, <1>10, <1>13, <1>14, QuietStep

----
\* Secrets.

LEMMA StoreSecretSound ==
  ASSUME RecordsSound, NEW c \in RecordCalls, StoreSecret(c)
  PROVE  RecordsSound'
<1>1. /\ RecordsTypeOK /\ recordCall[c].op \in Setting /\ Step(c) = "store"
      /\ recordCall[c].op \notin {"none", "delete"} /\ recordCall[c].op \notin Locking
 BY StageTells, StageTellsOf DEF StoreSecret, Setting, Locking
<1>2. PICK id \in ProjectIds, slug \in Slugs : id = IdOf(c) /\ slug = SlugOf(c) BY <1>1, CallFacts
<1>3. /\ StageSound(c) /\ ProjectSound(id) /\ LeftSound(id) /\ SpaceSound(slug)
      /\ metas[id] # NoMeta => slug = metas[id].slug /\ LiveSound(id)
 BY <1>1, <1>2, CallFacts
<1>4. UNCHANGED <<metas, bySlug, workspaces, containers, members, projectsMade, recordCalls, soiled>> BY DEF StoreSecret
<1>5. ASSUME metas[id] # NoMeta
      PROVE  FileSound(id) /\ EnvSound(id) /\ LimitSound(id) /\ MemberSound(id) /\ slug = metas[id].slug
 BY <1>3, <1>5 DEF LiveSound
<1>6. On(c, id, EnvOps) /\ On(c, id, Setting) /\ ~On(c, id, LimitOps) /\ On(c, id, Adding) /\ ~On(c, id, {"create"})
 BY <1>1, <1>2 DEF On, EnvOps, Setting, LimitOps, Adding
<1>7. CASE /\ secrets' = Stored(IdOf(c), ValueOf(c))
           /\ Proceeds(c, "list") /\ UNCHANGED <<runState, recordFaults, excused>>
 <2>1. /\ MovesOn(c) /\ recordCall'[c].op = recordCall[c].op /\ recordCall'[c].id = id /\ recordCall'[c].at = "list"
       /\ recordCall'[c].value = ValueOf(c) /\ recordCall'[c] # IdleCall
  BY <1>1, <1>2, <1>7, ProceedsMoves, IdleTyped DEF Stages
 <2>2. /\ secrets' \in [ProjectIds -> 0..MaxRecordCalls] /\ secrets'[id] = ValueOf(c)
       /\ \A j \in ProjectIds \ {id} : secrets'[j] = secrets[j]
  <3>1. PICK value \in 0..MaxRecordCalls : value = ValueOf(c) BY <1>1, RequestTypes
  <3>2. secrets' = [secrets EXCEPT ![id] = value] BY <1>2, <1>7, <3>1 DEF Stored
  <3> QED BY <1>1, <3>1, <3>2, SecretsFacts
 <2>3. RecordsTypeOK' BY <1>1, <1>4, <1>7, <2>1, <2>2 DEF RecordsTypeOK, MovesOn, RecordRequests
 <2>4. SpaceSound(slug)' BY <1>1, <1>3, <1>4, <2>1, SpaceKept DEF Locking
 <2>5. StageSound(c)' BY <1>1, <2>1 DEF StageSound, Step, Setting
 <2>6. LeftSound(id)' BY <1>1, <1>2, <1>3, <1>4, <1>6, <1>7, <2>1, LeftAdds
 <2>7. ASSUME metas[id] # NoMeta PROVE LiveSound(id)'
  <3>1. FileSound(id)'
   <4>1. CASE Excused(id, "file") BY <4>1, <1>4, <1>7 DEF FileSound, Excused
   <4>2. CASE ~Excused(id, "file")
    <5>1. Alone(id, EnvOps)' /\ \A d \in RecordCalls : On(d, id, EnvOps)' => d = c
     BY <1>1, <1>5, <1>6, <2>1, <2>7, <4>2, AloneIs DEF FileSound, EnvOps
    <5>2. \A d \in RecordCalls : On(d, id, Setting)' => d = c BY <5>1, OnKinds
    <5>3. On(c, id, Setting)' /\ Step(c)' = "list" BY <1>1, <2>1 DEF On, IdOf, Step
    <5> QED BY <5>1, <5>2, <5>3 DEF FileSound
   <4> QED BY <4>1, <4>2
  <3>2. EnvSound(id)'
   <4>1. CASE Excused(id, "env") BY <4>1, <1>4, <1>7 DEF EnvSound, Excused
   <4>2. CASE ~Excused(id, "env")
    <5>1. Alone(id, EnvOps)' /\ \A d \in RecordCalls : On(d, id, EnvOps)' => d = c
     BY <1>1, <1>5, <1>6, <2>1, <2>7, <4>2, AloneIs DEF EnvSound, EnvOps
    <5>3. On(c, id, Setting)' /\ On(c, id, EnvOps)' /\ Step(c)' = "list" /\ ValueOf(c)' = secrets'[id]
     BY <1>1, <2>1, <2>2 DEF On, IdOf, Step, ValueOf, Setting, EnvOps
    <5>2. \A d \in RecordCalls : (On(d, id, Setting)' => d = c) /\ ~On(d, id, Launching)' BY <5>1, <5>3, OnKinds
    <5> QED BY <5>1, <5>2, <5>3 DEF EnvSound
   <4> QED BY <4>1, <4>2
  <3>3. LimitSound(id)' BY <1>1, <1>4, <1>5, <1>6, <1>7, <2>1, <2>7, LimitKept
  <3>4. MemberSound(id)' BY <1>1, <1>4, <1>5, <1>6, <1>7, <2>1, <2>7, MemberKept
  <3> QED BY <3>1, <3>2, <3>3, <3>4 DEF LiveSound
 <2>8. ProjectSound(id)' BY <1>3, <1>4, <2>6, <2>7 DEF ProjectSound
 <2>9. recordCall[c].op # "start" BY <1>1 DEF Locking
 <2> QED BY <1>1, <1>2, <1>4, <1>7, <2>1, <2>2, <2>3, <2>4, <2>5, <2>8, <2>9, QuietStep
<1>8. CASE RecordFault /\ Ends(c) /\ Excuse(IdOf(c), {"file", "env"}) /\ UNCHANGED secrets
 <2>1. /\ MovesOn(c) /\ recordCall'[c] = IdleCall /\ runState' = runState BY <1>1, <1>2, <1>8, EndsMoves
 <2>2. /\ excused' \in [ProjectIds -> SUBSET {"file", "env", "limits", "members", "left"}]
       /\ \A j \in ProjectIds : excused[j] \subseteq excused'[j]
       /\ \A j \in ProjectIds \ {id} : excused'[j] = excused[j]
       /\ {"file", "env"} \subseteq excused'[id]
  <3>1. Excuse(id, {"file", "env"}) BY <1>2, <1>8 DEF Excuse
  <3> QED BY <1>1, <3>1, ExcuseFacts
 <2>3. RecordsTypeOK' BY <1>1, <1>4, <1>8, <2>1, <2>2, FaultFacts DEF RecordsTypeOK, MovesOn, RecordRequests
 <2>4. SpaceSound(slug)' BY <1>1, <1>3, <1>4, <2>1, SpaceKept
 <2>5. LeftSound(id)' BY <1>1, <1>2, <1>3, <1>4, <1>8, <2>1, <2>2, LeftKept
 <2>6. StageSound(c)' BY <2>1, IdleTyped DEF StageSound, Step, Setting
 <2>7. ASSUME metas[id] # NoMeta PROVE LiveSound(id)'
  <3>1. FileSound(id)' /\ EnvSound(id)' BY <2>2 DEF FileSound, EnvSound, Excused
  <3>3. LimitSound(id)' BY <1>1, <1>4, <1>5, <1>6, <2>1, <2>2, <2>7, LimitKept
  <3>4. MemberSound(id)' BY <1>1, <1>4, <1>5, <1>6, <2>1, <2>2, <2>7, MemberKept
  <3> QED BY <3>1, <3>3, <3>4 DEF LiveSound
 <2>8. ProjectSound(id)' BY <1>3, <1>4, <2>5, <2>7 DEF ProjectSound
 <2> QED BY <1>1, <1>2, <1>4, <1>8, <2>1, <2>2, <2>3, <2>4, <2>8, QuietStep
<1> QED BY <1>7, <1>8 DEF StoreSecret

LEMMA ListForFileSound ==
  ASSUME RecordsSound, NEW c \in RecordCalls, ListForFile(c)
  PROVE  RecordsSound'
<1>1. /\ RecordsTypeOK /\ recordCall[c].op \in Setting /\ Step(c) = "list"
      /\ recordCall[c].op \notin {"none", "delete", "start"} /\ recordCall[c].op \notin Locking
 BY StageTells, StageTellsOf DEF ListForFile, Setting, Locking
<1>2. PICK id \in ProjectIds, slug \in Slugs : id = IdOf(c) /\ slug = SlugOf(c) BY <1>1, CallFacts
<1>3. /\ StageSound(c) /\ ProjectSound(id) /\ LeftSound(id) /\ SpaceSound(slug)
      /\ metas[id] # NoMeta => slug = metas[id].slug /\ LiveSound(id)
 BY <1>1, <1>2, CallFacts
<1>4. UNCHANGED <<recordStores, runState, recordBounds, soiled, excused>> BY DEF ListForFile
<1>5. /\ MovesOn(c) /\ recordCall'[c].op = recordCall[c].op /\ recordCall'[c].id = id
      /\ recordCall'[c].at = "file" /\ recordCall'[c].listed = secrets[id] /\ recordCall'[c].value = ValueOf(c)
 <2>1. recordCall \in [RecordCalls -> RecordRequests] /\ recordCall[c] \in RecordRequests BY <1>1, RequestTypes
 <2>2. recordCall' = [recordCall EXCEPT ![c].at = "file", ![c].listed = secrets[id]] BY <1>2 DEF ListForFile, Listed
 <2>3. /\ recordCall'[c] = [recordCall[c] EXCEPT !.at = "file", !.listed = secrets[id]]
       /\ \A d \in RecordCalls \ {c} : recordCall'[d] = recordCall[d]
  BY <2>1, <2>2
 <2>4. secrets[id] \in 0..MaxRecordCalls BY <1>1 DEF RecordsTypeOK
 <2>5. recordCall'[c] \in RecordRequests BY <2>1, <2>3, <2>4 DEF RecordRequests, Stages
 <2>6. recordCall' \in [RecordCalls -> RecordRequests] BY <2>1, <2>2, <2>3, <2>5
 <2> QED BY <1>2, <2>1, <2>3, <2>6 DEF MovesOn, RecordRequests, IdOf, SlugOf, ValueOf
<1>6. /\ On(c, id, EnvOps) /\ On(c, id, Setting) /\ ~On(c, id, LimitOps) /\ ~On(c, id, {"create"})
      /\ On(c, id, Setting)'
 BY <1>1, <1>2, <1>5 DEF On, EnvOps, Setting, LimitOps, IdOf
<1>7. RecordsTypeOK' BY <1>1, <1>4, <1>5 DEF RecordsTypeOK, MovesOn, RecordRequests, recordStores, recordBounds
<1>8. SpaceSound(slug)' BY <1>1, <1>3, <1>4, <1>5, SpaceKept DEF recordStores
<1>9. StageSound(c)' /\ recordCall'[c] # IdleCall BY <1>1, <1>5, IdleTyped DEF StageSound, Step, Setting
<1>10. LeftSound(id)' BY <1>1, <1>2, <1>3, <1>4, <1>5, LeftKept DEF recordStores
<1>11. ASSUME metas[id] # NoMeta PROVE LiveSound(id)'
 <2>1. FileSound(id) /\ EnvSound(id) /\ LimitSound(id) /\ MemberSound(id) /\ slug = metas[id].slug BY <1>3, <1>11 DEF LiveSound
 <2>2. FileSound(id)'
  <3>1. CASE Excused(id, "file") BY <3>1, <1>4 DEF FileSound, Excused, recordStores
  <3>2. CASE ~Excused(id, "file")
   <4>1. Alone(id, EnvOps)' /\ \A d \in RecordCalls : On(d, id, EnvOps)' => d = c
    BY <1>1, <1>5, <1>6, <2>1, <3>2, AloneIs DEF FileSound, EnvOps
   <4>2. \A d \in RecordCalls : On(d, id, Setting)' => d = c BY <4>1, OnKinds
   <4>3. Step(c)' = "file" /\ recordCall'[c].listed = secrets'[id] BY <1>4, <1>5 DEF Step, recordStores
   <4> QED BY <1>6, <4>1, <4>2, <4>3 DEF FileSound
  <3> QED BY <3>1, <3>2
 <2>3. EnvSound(id)' BY <1>1, <1>3, <1>4, <1>5, <1>9, <2>1, EnvKept DEF recordStores
 <2>4. LimitSound(id)' BY <1>1, <1>4, <1>5, <1>6, <2>1, LimitKept DEF recordStores
 <2>5. MemberSound(id)' BY <1>1, <1>4, <1>5, <1>6, <2>1, MemberKept DEF recordStores
 <2> QED BY <2>2, <2>3, <2>4, <2>5 DEF LiveSound
<1>12. ProjectSound(id)' BY <1>3, <1>4, <1>10, <1>11 DEF ProjectSound, recordStores
<1> QED BY <1>1, <1>2, <1>4, <1>5, <1>7, <1>8, <1>9, <1>12, QuietStep DEF recordStores, recordBounds

LEMMA WriteEnvFileSound ==
  ASSUME RecordsSound, NEW c \in RecordCalls, WriteEnvFile(c)
  PROVE  RecordsSound'
<1>1. /\ RecordsTypeOK /\ recordCall[c].op \in Setting /\ Step(c) = "file" /\ Proceeds(c, "apply") /\ Soil(c)
      /\ recordCall[c].op \notin {"none", "delete", "start"} /\ recordCall[c].op \notin Locking
 BY StageTells, StageTellsOf DEF WriteEnvFile, Setting, Locking
<1>2. PICK id \in ProjectIds, slug \in Slugs : id = IdOf(c) /\ slug = SlugOf(c) BY <1>1, CallFacts
<1>3. /\ StageSound(c) /\ ProjectSound(id) /\ LeftSound(id) /\ SpaceSound(slug)
      /\ metas[id] # NoMeta => slug = metas[id].slug /\ LiveSound(id)
 BY <1>1, <1>2, CallFacts
<1>4. UNCHANGED <<metas, bySlug, containers, secrets, members, runState, projectsMade, recordCalls>> BY DEF WriteEnvFile
<1>5. /\ MovesOn(c) /\ recordCall'[c].op = recordCall[c].op /\ recordCall'[c].id = id
      /\ recordCall'[c].at = "apply" /\ recordCall'[c].value = ValueOf(c) /\ recordCall'[c] # IdleCall
 BY <1>1, <1>2, ProceedsMoves, IdleTyped DEF Stages
<1>6. soiled \subseteq soiled' /\ soiled' \subseteq soiled \cup {slug} /\ soiled' \subseteq Slugs /\ (Strays(c) => slug \in soiled')
 BY <1>1, <1>2, SoilFacts
<1>7. /\ On(c, id, EnvOps) /\ On(c, id, Setting) /\ ~On(c, id, LimitOps) /\ ~On(c, id, {"create"})
      /\ On(c, id, Setting)'
 BY <1>1, <1>2, <1>5 DEF On, EnvOps, Setting, LimitOps, IdOf
<1> DEFINE space == workspaces[slug]
            spice == workspaces'[slug]
<1>8. /\ workspaces' \in [Slugs -> Workspaces] /\ \A s \in Slugs \ {slug} : workspaces'[s] = workspaces[s]
      /\ spice.of = space.of
      /\ excused' \in [ProjectIds -> SUBSET {"file", "env", "limits", "members", "left"}]
      /\ \A j \in ProjectIds \ {id} : excused'[j] = excused[j]
      /\ excused[id] \subseteq excused'[id] /\ recordFaults' \in 0..MaxRecordFaults
      /\ "file" \in excused'[id] \/ spice.env = recordCall[c].listed
 <2>1. CASE /\ workspaces' = [workspaces EXCEPT ![SlugOf(c)].env = recordCall[c].listed]
            /\ UNCHANGED <<recordFaults, excused>>
  <3> DEFINE new == [workspaces[slug] EXCEPT !.env = recordCall[c].listed]
  <3>1. workspaces[slug] \in Workspaces /\ recordCall[c].listed \in 0..MaxRecordCalls BY <1>1, RequestTypes DEF RecordsTypeOK
  <3>2. workspaces' = [workspaces EXCEPT ![slug] = new] BY <1>2, <2>1
  <3>3. new \in Workspaces /\ new.env = recordCall[c].listed /\ new.of = workspaces[slug].of BY <3>1 DEF Workspaces
  <3> HIDE DEF new
  <3>4. /\ workspaces' \in [Slugs -> Workspaces] /\ workspaces'[slug] = new
        /\ \A s \in Slugs \ {slug} : workspaces'[s] = workspaces[s]
   BY <1>1, <3>2, <3>3, WorkspacesFacts
  <3> QED BY <1>1, <2>1, <3>3, <3>4 DEF RecordsTypeOK
 <2>2. CASE Excuse(IdOf(c), {"file"}) /\ UNCHANGED workspaces /\ (UNCHANGED recordFaults \/ RecordFault)
  <3>1. Excuse(id, {"file"}) BY <1>2, <2>2 DEF Excuse
  <3>2. /\ excused' \in [ProjectIds -> SUBSET {"file", "env", "limits", "members", "left"}]
        /\ \A j \in ProjectIds : excused[j] \subseteq excused'[j]
        /\ \A j \in ProjectIds \ {id} : excused'[j] = excused[j]
        /\ {"file"} \subseteq excused'[id]
   BY <1>1, <3>1, ExcuseFacts
  <3>3. recordFaults' \in 0..MaxRecordFaults BY <1>1, <2>2, FaultFacts DEF RecordsTypeOK
  <3> QED BY <1>1, <2>2, <3>2, <3>3 DEF RecordsTypeOK
 <2> QED BY <2>1, <2>2 DEF WriteEnvFile
<1>9. RecordsTypeOK' BY <1>1, <1>4, <1>5, <1>6, <1>8 DEF RecordsTypeOK, MovesOn, RecordRequests
<1>10. StageSound(c)' BY <1>1, <1>5 DEF StageSound, Step, Setting
<1>11. SpaceSound(slug)'
 <2>1. (~containers'[slug].there => containers'[slug] = NoContainer) /\ containers'[slug] = containers[slug]
  BY <1>3, <1>4 DEF SpaceSound
 <2> QED BY <1>1, <1>2, <1>4, <1>5, <1>6, <1>8, <2>1, SpaceTouched
<1>12. LeftSound(id)' BY <1>1, <1>2, <1>3, <1>4, <1>5, <1>8, LeftKept
<1>13. ASSUME metas[id] # NoMeta PROVE LiveSound(id)'
 <2>1. FileSound(id) /\ EnvSound(id) /\ LimitSound(id) /\ MemberSound(id) /\ slug = metas[id].slug BY <1>3, <1>13 DEF LiveSound
 <2>2. FileSound(id)'
  <3>1. CASE Excused(id, "file") \/ "file" \in excused'[id] BY <3>1, <1>4, <1>6, <1>8 DEF FileSound, Excused
  <3>2. CASE ~Excused(id, "file") /\ "file" \notin excused'[id]
   <4>1. Alone(id, EnvOps)' /\ \A d \in RecordCalls : On(d, id, EnvOps)' => d = c
    BY <1>1, <1>5, <1>7, <2>1, <3>2, AloneIs DEF FileSound, EnvOps
   <4>2. \A d \in RecordCalls : On(d, id, Setting)' => d = c BY <4>1, OnKinds
   <4>3. recordCall[c].listed = secrets[id] BY <1>1, <1>7, <2>1, <3>2 DEF FileSound
   <4>4. Step(c)' # "file" /\ workspaces'[metas'[id].slug].env = secrets'[id] BY <1>4, <1>5, <1>8, <2>1, <3>2, <4>3 DEF Step
   <4> QED BY <4>1, <4>2, <4>4 DEF FileSound
  <3> QED BY <3>1, <3>2
 <2>3. EnvSound(id)' BY <1>1, <1>3, <1>4, <1>5, <1>6, <1>8, <1>10, <2>1, EnvKept
 <2>4. LimitSound(id)' BY <1>1, <1>4, <1>5, <1>6, <1>7, <1>8, <2>1, LimitKept
 <2>5. MemberSound(id)' BY <1>1, <1>4, <1>5, <1>6, <1>7, <1>8, <2>1, MemberKept
 <2> QED BY <2>2, <2>3, <2>4, <2>5 DEF LiveSound
<1>14. ProjectSound(id)' BY <1>3, <1>4, <1>12, <1>13 DEF ProjectSound
<1>15. metas[id] = NoMeta => slug \in soiled' BY <1>2, <1>6 DEF Strays
<1> HIDE DEF space, spice
<1> QED BY <1>1, <1>2, <1>4, <1>5, <1>6, <1>8, <1>9, <1>10, <1>11, <1>14, <1>15, QuietStep

----
\* Limits and members.

LEMMA LimitInstanceSound ==
  ASSUME RecordsSound, NEW c \in RecordCalls, LimitInstance(c)
  PROVE  RecordsSound'
<1>1. /\ RecordsTypeOK /\ recordCall[c].op = "limit" /\ Step(c) = "instance" /\ Soil(c)
      /\ recordCall[c].op \notin Locking /\ recordCall[c].op \notin Setting
 BY StageTells, StageTellsOf DEF LimitInstance, Setting, Locking
<1>2. PICK id \in ProjectIds, slug \in Slugs : id = IdOf(c) /\ slug = SlugOf(c) BY <1>1, CallFacts
<1>3. /\ StageSound(c) /\ ProjectSound(id) /\ LeftSound(id) /\ SpaceSound(slug)
      /\ metas[id] # NoMeta => slug = metas[id].slug /\ LiveSound(id)
 BY <1>1, <1>2, CallFacts
<1>4. UNCHANGED <<metas, bySlug, workspaces, secrets, members, projectsMade, recordCalls>> BY DEF LimitInstance
<1>5. soiled \subseteq soiled' /\ soiled' \subseteq soiled \cup {slug} /\ soiled' \subseteq Slugs /\ (Strays(c) => slug \in soiled')
 BY <1>1, <1>2, SoilFacts
<1>6. /\ ~On(c, id, EnvOps) /\ ~On(c, id, Setting) /\ On(c, id, LimitOps) /\ ~On(c, id, {"create"})
 BY <1>1, <1>2 DEF On, EnvOps, Setting, LimitOps, IdOf
<1> DEFINE box == containers[slug]
            bux == containers'[slug]
<1>7. /\ MovesOn(c) /\ runState' = runState
      /\ containers' \in [Slugs -> Containers] /\ \A s \in Slugs \ {slug} : containers'[s] = containers[s]
      /\ bux.there = box.there /\ bux.of = box.of /\ bux.env = box.env
      /\ ~bux.there => bux = NoContainer
      /\ excused' \in [ProjectIds -> SUBSET {"file", "env", "limits", "members", "left"}]
      /\ \A j \in ProjectIds \ {id} : excused'[j] = excused[j]
      /\ excused[id] \subseteq excused'[id] /\ recordFaults' \in 0..MaxRecordFaults
      /\ \/ recordCall'[c] = IdleCall /\ "limits" \in excused'[id]
         \/ /\ recordCall'[c].op = "limit" /\ recordCall'[c].at = "record" /\ recordCall'[c].id = id
            /\ recordCall'[c].value = ValueOf(c) /\ bux.limits = ValueOf(c)
 <2>1. ~box.there => box = NoContainer BY <1>3 DEF SpaceSound
 <2>2. CASE /\ Ends(c) /\ Excuse(IdOf(c), {"limits"}) /\ UNCHANGED containers
            /\ (UNCHANGED recordFaults \/ RecordFault)
  <3>1. Excuse(id, {"limits"}) BY <1>2, <2>2 DEF Excuse
  <3>2. /\ excused' \in [ProjectIds -> SUBSET {"file", "env", "limits", "members", "left"}]
        /\ \A j \in ProjectIds : excused[j] \subseteq excused'[j]
        /\ \A j \in ProjectIds \ {id} : excused'[j] = excused[j]
        /\ {"limits"} \subseteq excused'[id]
   BY <1>1, <3>1, ExcuseFacts
  <3>3. recordFaults' \in 0..MaxRecordFaults BY <1>1, <2>2, FaultFacts DEF RecordsTypeOK
  <3>4. MovesOn(c) /\ recordCall'[c] = IdleCall /\ runState' = runState BY <1>1, <2>2, EndsMoves
  <3> QED BY <1>1, <2>1, <2>2, <3>2, <3>3, <3>4 DEF RecordsTypeOK
 <2>3. CASE /\ containers[SlugOf(c)].there
            /\ containers' = [containers EXCEPT ![SlugOf(c)].limits = ValueOf(c)]
            /\ Proceeds(c, "record") /\ UNCHANGED <<recordFaults, excused, runState>>
  <3> DEFINE new == [containers[slug] EXCEPT !.limits = ValueOf(c)]
  <3>1. containers[slug] \in Containers /\ ValueOf(c) \in 0..MaxRecordCalls BY <1>1, RequestTypes DEF RecordsTypeOK
  <3>2. containers' = [containers EXCEPT ![slug] = new] BY <1>2, <2>3
  <3>3. /\ new \in Containers /\ new.limits = ValueOf(c) /\ new.of = containers[slug].of
        /\ new.env = containers[slug].env
   BY <3>1 DEF Containers
  <3>4. new.there = containers[slug].there BY <3>1 DEF Containers
  <3> HIDE DEF new
  <3>5. /\ containers' \in [Slugs -> Containers] /\ containers'[slug] = new
        /\ \A s \in Slugs \ {slug} : containers'[s] = containers[s]
   BY <1>1, <3>2, <3>3, ContainersFacts
  <3>6. /\ MovesOn(c) /\ recordCall'[c].op = "limit" /\ recordCall'[c].at = "record" /\ recordCall'[c].id = id
        /\ recordCall'[c].value = ValueOf(c)
   BY <1>1, <1>2, <2>3, ProceedsMoves DEF Stages
  <3> QED BY <1>1, <1>2, <2>3, <3>3, <3>4, <3>5, <3>6 DEF RecordsTypeOK
 <2> QED BY <2>2, <2>3 DEF LimitInstance
<1>8. RecordsTypeOK' BY <1>1, <1>4, <1>5, <1>7 DEF RecordsTypeOK, MovesOn, RecordRequests
<1>9. StageSound(c)' BY <1>7, IdleTyped DEF StageSound, Step, Setting
<1>10. SpaceSound(slug)'
 <2>1. SpaceSound(slug) /\ bux.of = box.of /\ bux.there = box.there /\ workspaces'[slug] = workspaces[slug] BY <1>3, <1>4, <1>7
 <2>2. ~bux.there => bux = NoContainer BY <1>7
 <2>3. recordCall[c].op \notin {"none", "delete", "start"} BY <1>1
 <2> HIDE DEF box, bux
 <2> QED BY <1>1, <1>2, <1>4, <1>5, <1>7, <2>1, <2>2, <2>3, SpaceTouched DEF box, bux
<1>11. LeftSound(id)' BY <1>1, <1>2, <1>3, <1>4, <1>7, LeftKept
<1>12. ASSUME metas[id] # NoMeta PROVE LiveSound(id)'
 <2>1. FileSound(id) /\ EnvSound(id) /\ LimitSound(id) /\ MemberSound(id) /\ slug = metas[id].slug BY <1>3, <1>12 DEF LiveSound
 <2>2. FileSound(id)' BY <1>1, <1>4, <1>5, <1>6, <1>7, <2>1, FileKept
 <2>3. EnvSound(id)' BY <1>1, <1>3, <1>4, <1>5, <1>6, <1>7, <1>9, <2>1, EnvKept
 <2>4. LimitSound(id)'
  <3>1. CASE Excused(id, "limits") \/ ~Unsoiled(id) \/ "limits" \in excused'[id]
   BY <3>1, <1>4, <1>5, <1>7 DEF LimitSound, Excused, Unsoiled
  <3>2. CASE ~Excused(id, "limits") /\ "limits" \notin excused'[id]
   <4>1. Alone(id, LimitOps)' /\ \A d \in RecordCalls : On(d, id, LimitOps)' => d = c
    BY <1>1, <1>6, <1>7, <2>1, <3>2, AloneIs DEF LimitSound, LimitOps
   <4>2. On(c, id, {"limit"})' /\ ValueOf(c)' = bux.limits BY <1>7, <3>2 DEF On, IdOf, ValueOf
   <4>3. \A d \in RecordCalls : ~On(d, id, Launching)' /\ (On(d, id, {"limit"})' => d = c) BY <4>1, <4>2, OnKinds
   <4>4. metas'[id].slug = slug BY <1>4, <2>1
   <4> HIDE DEF box, bux
   <4> QED BY <4>1, <4>2, <4>3, <4>4 DEF LimitSound, bux
  <3> QED BY <3>1, <3>2
 <2>5. MemberSound(id)' BY <1>1, <1>4, <1>5, <1>6, <1>7, <2>1, MemberKept
 <2> QED BY <2>2, <2>3, <2>4, <2>5 DEF LiveSound
<1>13. ProjectSound(id)' BY <1>3, <1>4, <1>11, <1>12 DEF ProjectSound
<1>14. metas[id] = NoMeta => slug \in soiled' BY <1>2, <1>5 DEF Strays
<1>15. recordCall[c].op \notin {"none", "delete", "start"} BY <1>1
<1> HIDE DEF box, bux
<1> QED BY <1>1, <1>2, <1>4, <1>5, <1>7, <1>8, <1>9, <1>10, <1>13, <1>14, <1>15, QuietStep

LEMMA LimitRecordSound ==
  ASSUME RecordsSound, NEW c \in RecordCalls, LimitRecord(c)
  PROVE  RecordsSound'
<1>1. /\ RecordsTypeOK /\ recordCall[c].op = "limit" /\ Step(c) = "record" /\ Ends(c)
      /\ recordCall[c].op \notin Locking /\ recordCall[c].op \notin Setting
 BY StageTells, StageTellsOf DEF LimitRecord, Setting, Locking
<1>2. PICK id \in ProjectIds, slug \in Slugs : id = IdOf(c) /\ slug = SlugOf(c) BY <1>1, CallFacts
<1>3. /\ StageSound(c) /\ ProjectSound(id) /\ LeftSound(id) /\ SpaceSound(slug)
      /\ metas[id] # NoMeta => slug = metas[id].slug /\ LiveSound(id)
 BY <1>1, <1>2, CallFacts
<1>4. UNCHANGED <<bySlug, workspaces, containers, secrets, members, projectsMade, recordCalls, soiled>> BY DEF LimitRecord
<1>5. MovesOn(c) /\ recordCall'[c] = IdleCall /\ runState' = runState BY <1>1, EndsMoves
<1>6. /\ ~On(c, id, EnvOps) /\ ~On(c, id, Setting) /\ On(c, id, LimitOps) /\ ~On(c, id, {"create"})
      /\ On(c, id, {"limit"})
 BY <1>1, <1>2 DEF On, EnvOps, Setting, LimitOps
<1>7. /\ metas' \in [ProjectIds -> Metas \cup {NoMeta}] /\ \A j \in ProjectIds \ {id} : metas'[j] = metas[j]
      /\ metas'[id] = NoMeta <=> metas[id] = NoMeta
      /\ metas[id] # NoMeta => metas'[id].slug = metas[id].slug /\ metas'[id].name = metas[id].name
      /\ excused' \in [ProjectIds -> SUBSET {"file", "env", "limits", "members", "left"}]
      /\ \A j \in ProjectIds \ {id} : excused'[j] = excused[j]
      /\ excused[id] \subseteq excused'[id] /\ recordFaults' \in 0..MaxRecordFaults
      /\ metas[id] # NoMeta => "limits" \in excused'[id] \/ metas'[id].limits = ValueOf(c)
 <2>1. CASE RecordFault /\ Excuse(IdOf(c), {"limits"}) /\ UNCHANGED metas
  <3>1. Excuse(id, {"limits"}) BY <1>2, <2>1 DEF Excuse
  <3>2. /\ excused' \in [ProjectIds -> SUBSET {"file", "env", "limits", "members", "left"}]
        /\ \A j \in ProjectIds : excused[j] \subseteq excused'[j]
        /\ \A j \in ProjectIds \ {id} : excused'[j] = excused[j]
        /\ {"limits"} \subseteq excused'[id]
   BY <1>1, <3>1, ExcuseFacts
  <3> QED BY <1>1, <2>1, <3>2, FaultFacts DEF RecordsTypeOK
 <2>2. CASE /\ metas' = [metas EXCEPT ![IdOf(c)] = IF @ = NoMeta THEN @ ELSE [@ EXCEPT !.limits = ValueOf(c)]]
            /\ UNCHANGED <<recordFaults, excused>>
  <3>0. metas \in [ProjectIds -> Metas \cup {NoMeta}] /\ ValueOf(c) \in 0..MaxRecordCalls /\ NoMeta \notin Metas
   BY <1>1, RequestTypes, RecordFacts DEF RecordsTypeOK
  <3>1. CASE metas[id] = NoMeta
   <4>1. metas' = metas BY <1>2, <2>2, <3>0, <3>1
   <4> QED BY <4>1, <1>1, <2>2, <3>1 DEF RecordsTypeOK
  <3>2. CASE metas[id] # NoMeta
   <4> DEFINE new == [metas[id] EXCEPT !.limits = ValueOf(c)]
   <4>1. metas' = [metas EXCEPT ![id] = new] BY <1>2, <2>2, <3>2
   <4>2. new \in Metas /\ new.slug = metas[id].slug /\ new.name = metas[id].name /\ new.limits = ValueOf(c)
    BY <3>0, <3>2 DEF Metas
   <4> HIDE DEF new
   <4>3. new # NoMeta BY <4>2, <3>0
   <4>4. /\ metas' \in [ProjectIds -> Metas \cup {NoMeta}] /\ metas'[id] = new
         /\ \A j \in ProjectIds \ {id} : metas'[j] = metas[j]
    BY <4>1, <4>2, <3>0
   <4> QED BY <4>2, <4>3, <4>4, <1>1, <2>2, <3>2 DEF RecordsTypeOK
  <3> QED BY <3>1, <3>2
 <2> QED BY <2>1, <2>2 DEF LimitRecord
<1>8. RecordsTypeOK' BY <1>1, <1>4, <1>5, <1>7 DEF RecordsTypeOK, MovesOn, RecordRequests
<1>9. SpaceSound(slug)' BY <1>1, <1>3, <1>4, <1>5, SpaceKept
<1>10. StageSound(c)' BY <1>5, IdleTyped DEF StageSound, Step, Setting
<1>11. LeftSound(id)' BY <1>1, <1>2, <1>3, <1>4, <1>5, <1>7, LeftKept
<1>12. ASSUME metas[id] # NoMeta PROVE LiveSound(id)'
 <2>1. /\ FileSound(id) /\ EnvSound(id) /\ LimitSound(id) /\ MemberSound(id) /\ slug = metas[id].slug
       /\ metas'[id].slug = metas[id].slug
  BY <1>3, <1>7, <1>12 DEF LiveSound
 <2>2. FileSound(id)' BY <1>1, <1>4, <1>5, <1>6, <1>7, <2>1, FileKept
 <2>3. EnvSound(id)' BY <1>1, <1>3, <1>4, <1>5, <1>6, <1>7, <1>10, <2>1, EnvKept
 <2>4. LimitSound(id)'
  <3>1. CASE Excused(id, "limits") \/ "limits" \in excused'[id] BY <3>1, <1>4, <1>7, <2>1 DEF LimitSound, Excused
  <3>2. CASE ~Excused(id, "limits") /\ "limits" \notin excused'[id]
   <4>1. Alone(id, LimitOps)' /\ \A d \in RecordCalls : ~On(d, id, LimitOps)'
    BY <1>1, <1>5, <1>6, <2>1, <3>2, AloneIs DEF LimitSound, LimitOps
   <4>2. \A d \in RecordCalls : ~On(d, id, Launching)' /\ ~On(d, id, {"limit"})' BY <4>1, OnKinds
   <4>3. containers[slug].there => containers[slug].limits = ValueOf(c) BY <1>1, <1>6, <2>1, <3>2 DEF LimitSound
   <4>4. containers'[metas'[id].slug] = containers[slug] /\ metas'[id].limits = ValueOf(c) BY <1>4, <1>7, <1>12, <2>1, <3>2
   <4> QED BY <4>1, <4>2, <4>3, <4>4 DEF LimitSound
  <3> QED BY <3>1, <3>2
 <2>5. MemberSound(id)' BY <1>1, <1>4, <1>5, <1>6, <1>7, <2>1, MemberKept
 <2> QED BY <2>2, <2>3, <2>4, <2>5 DEF LiveSound
<1>13. ProjectSound(id)' BY <1>3, <1>4, <1>7, <1>11, <1>12 DEF ProjectSound
<1>14. recordCall[c].op \notin {"none", "delete", "start"} BY <1>1
<1> QED BY <1>1, <1>2, <1>4, <1>5, <1>7, <1>8, <1>9, <1>10, <1>13, <1>14, QuietStep

\* Who is a member: more are, or fewer but not the last one.
LEMMA MembersMore ==
  ASSUME RecordsTypeOK, NEW id \in ProjectIds, MemberSound(id), NEW c \in RecordCalls, MovesOn(c),
         recordCall[c].op # "leave", IsFiniteSet(members'[id]), IsFiniteSet(members[id]),
         metas'[id].slug = metas[id].slug, excused[id] \subseteq excused'[id], soiled \subseteq soiled',
         members[id] \subseteq members'[id], members'[id] # {}
  PROVE  MemberSound(id)'
<1>1. CASE Excused(id, "members") BY <1>1 DEF MemberSound, Excused
<1>2. CASE ~Excused(id, "members")
 <2>1. Alone(id, {"leave"})' BY <1>2, AloneAfter DEF MemberSound
 <2>2. ASSUME NEW d \in RecordCalls, On(d, id, {"leave"})', ~recordCall'[d].flag
       PROVE  Cardinality(members'[id]) > 1
  <3>1. On(d, id, {"leave"}) /\ recordCall'[d] = recordCall[d] BY <2>2, OnAfter DEF On
  <3>2. Cardinality(members[id]) > 1 BY <3>1, <2>2, <1>2 DEF MemberSound
  <3>3. Cardinality(members[id]) <= Cardinality(members'[id]) BY FS_Subset
  <3>4. Cardinality(members[id]) \in Nat /\ Cardinality(members'[id]) \in Nat BY FS_CardinalityType
  <3> QED BY <3>2, <3>3, <3>4
 <2> QED BY <2>1, <2>2 DEF MemberSound
<1> QED BY <1>1, <1>2

LEMMA AddAccessSound ==
  ASSUME RecordsSound, NEW c \in RecordCalls, AddAccess(c)
  PROVE  RecordsSound'
<1>1. /\ RecordsTypeOK /\ recordCall[c].op = "join" /\ Ends(c)
      /\ recordCall[c].op \notin Locking /\ recordCall[c].op \notin Setting
 BY StageTells, StageTellsOf DEF AddAccess, Setting, Locking
<1>2. PICK id \in ProjectIds, slug \in Slugs : id = IdOf(c) /\ slug = SlugOf(c) BY <1>1, CallFacts
<1>3. /\ StageSound(c) /\ ProjectSound(id) /\ LeftSound(id) /\ SpaceSound(slug)
      /\ metas[id] # NoMeta => slug = metas[id].slug /\ LiveSound(id)
 BY <1>1, <1>2, CallFacts
<1>4. UNCHANGED <<metas, bySlug, workspaces, containers, secrets, recordBounds, soiled>> BY DEF AddAccess
<1>5. MovesOn(c) /\ recordCall'[c] = IdleCall /\ runState' = runState BY <1>1, EndsMoves
<1>6. /\ ~On(c, id, EnvOps) /\ ~On(c, id, Setting) /\ ~On(c, id, LimitOps) /\ On(c, id, Adding)
 BY <1>1, <1>2 DEF On, EnvOps, Setting, LimitOps, Adding
<1>7. /\ members' \in [ProjectIds -> SUBSET People] /\ \A j \in ProjectIds \ {id} : members'[j] = members[j]
      /\ members[id] \subseteq members'[id] /\ members'[id] # {} /\ IsFiniteSet(members'[id])
 <2>1. PICK p \in People : members' = [members EXCEPT ![id] = @ \cup {p}] BY <1>2 DEF WithMember, AddAccess
 <2>2. members[id] \cup {p} \subseteq People BY <1>1 DEF RecordsTypeOK
 <2>3. members' = [members EXCEPT ![id] = members[id] \cup {p}] BY <2>1
 <2>4. /\ members' \in [ProjectIds -> SUBSET People] /\ members'[id] = members[id] \cup {p}
       /\ \A j \in ProjectIds \ {id} : members'[j] = members[j]
  BY <1>1, <2>2, <2>3, MembersFacts
 <2>5. IsFiniteSet(members[id] \cup {p}) BY <1>3, FS_AddElement DEF ProjectSound
 <2> QED BY <2>4, <2>5
<1>8. /\ excused' \in [ProjectIds -> SUBSET {"file", "env", "limits", "members", "left"}]
      /\ \A j \in ProjectIds : excused[j] \subseteq excused'[j]
      /\ \A j \in ProjectIds \ {id} : excused'[j] = excused[j]
 <2>1. Excuse(id, {}) BY <1>2 DEF AddAccess, Excuse
 <2> QED BY <1>1, <2>1, ExcuseFacts
<1>9. RecordsTypeOK' BY <1>1, <1>4, <1>5, <1>7, <1>8 DEF RecordsTypeOK, MovesOn, RecordRequests, recordBounds
<1>10. SpaceSound(slug)' BY <1>1, <1>3, <1>4, <1>5, SpaceKept
<1>11. StageSound(c)' BY <1>5, IdleTyped DEF StageSound, Step, Setting
<1>12. LeftSound(id)' BY <1>1, <1>3, <1>4, <1>5, <1>6, <1>8, LeftAdds
<1>13. ASSUME metas[id] # NoMeta PROVE LiveSound(id)'
 <2>1. FileSound(id) /\ EnvSound(id) /\ LimitSound(id) /\ MemberSound(id) BY <1>3, <1>13 DEF LiveSound
 <2>2. FileSound(id)' BY <1>1, <1>4, <1>5, <1>6, <1>8, <2>1, FileKept
 <2>3. EnvSound(id)' BY <1>1, <1>3, <1>4, <1>5, <1>6, <1>8, <1>11, <2>1, EnvKept
 <2>4. LimitSound(id)' BY <1>1, <1>4, <1>5, <1>6, <1>8, <2>1, LimitKept
 <2>5. MemberSound(id)' BY <1>1, <1>3, <1>4, <1>5, <1>7, <1>8, <2>1, MembersMore DEF ProjectSound
 <2> QED BY <2>2, <2>3, <2>4, <2>5 DEF LiveSound
<1>14. ProjectSound(id)' BY <1>4, <1>7, <1>12, <1>13 DEF ProjectSound
<1> QED BY <1>1, <1>2, <1>4, <1>5, <1>7, <1>8, <1>9, <1>10, <1>11, <1>14, QuietStep DEF recordBounds

LEMMA RemoveAccessSound ==
  ASSUME RecordsSound, NEW c \in RecordCalls, RemoveAccess(c)
  PROVE  RecordsSound'
<1>1. /\ RecordsTypeOK /\ recordCall[c].op = "leave" /\ Ends(c)
      /\ recordCall[c].op \notin Locking /\ recordCall[c].op \notin Setting
 BY StageTells, StageTellsOf DEF RemoveAccess, Setting, Locking
<1>2. PICK id \in ProjectIds, slug \in Slugs : id = IdOf(c) /\ slug = SlugOf(c) BY <1>1, CallFacts
<1>3. /\ StageSound(c) /\ ProjectSound(id) /\ LeftSound(id) /\ SpaceSound(slug)
      /\ metas[id] # NoMeta => slug = metas[id].slug /\ LiveSound(id)
 BY <1>1, <1>2, CallFacts
<1>4. UNCHANGED <<metas, bySlug, workspaces, containers, secrets, recordBounds, soiled>> BY DEF RemoveAccess
<1>5. MovesOn(c) /\ recordCall'[c] = IdleCall /\ runState' = runState BY <1>1, EndsMoves
<1>6. /\ ~On(c, id, EnvOps) /\ ~On(c, id, Setting) /\ ~On(c, id, LimitOps) /\ On(c, id, {"leave"})
 BY <1>1, <1>2 DEF On, EnvOps, Setting, LimitOps
<1>7. /\ members' \in [ProjectIds -> SUBSET People] /\ \A j \in ProjectIds \ {id} : members'[j] = members[j]
      /\ members'[id] \subseteq members[id] /\ IsFiniteSet(members'[id])
      /\ Cardinality(members[id]) > 1 => members'[id] # {}
 <2>1. PICK p \in People : members' = [members EXCEPT ![id] = @ \ {p}] BY <1>2 DEF WithoutMember, RemoveAccess
 <2>2. members[id] \ {p} \subseteq People /\ IsFiniteSet(members[id]) BY <1>1, <1>3 DEF RecordsTypeOK, ProjectSound
 <2>3. members' = [members EXCEPT ![id] = members[id] \ {p}] BY <2>1
 <2>4. /\ members' \in [ProjectIds -> SUBSET People] /\ members'[id] = members[id] \ {p}
       /\ \A j \in ProjectIds \ {id} : members'[j] = members[j]
  BY <1>1, <2>2, <2>3, MembersFacts
 <2>5. IsFiniteSet(members[id] \ {p}) BY <2>2, FS_RemoveElement
 <2>6. ASSUME members[id] \ {p} = {} PROVE ~(Cardinality(members[id]) > 1)
  <3>1. members[id] = {} \/ members[id] = {p} BY <2>6
  <3> QED BY <3>1, FS_EmptySet, FS_Singleton
 <2> QED BY <2>4, <2>5, <2>6
<1>8. /\ excused' \in [ProjectIds -> SUBSET {"file", "env", "limits", "members", "left"}]
      /\ \A j \in ProjectIds : excused[j] \subseteq excused'[j]
      /\ \A j \in ProjectIds \ {id} : excused'[j] = excused[j]
      /\ recordCall[c].flag => "members" \in excused'[id]
 <2> DEFINE why == IF recordCall[c].flag THEN {"members"} ELSE {}
 <2>1. Excuse(id, why) BY <1>2 DEF RemoveAccess, Excuse
 <2>2. why \subseteq {"file", "env", "limits", "members", "left"} /\ (recordCall[c].flag => "members" \in why) OBVIOUS
 <2> HIDE DEF why
 <2>3. /\ excused' \in [ProjectIds -> SUBSET {"file", "env", "limits", "members", "left"}]
       /\ \A j \in ProjectIds : excused[j] \subseteq excused'[j]
       /\ \A j \in ProjectIds \ {id} : excused'[j] = excused[j]
       /\ why \subseteq excused'[id]
  BY <1>1, <2>1, <2>2, ExcuseFacts
 <2> QED BY <2>2, <2>3
<1>9. RecordsTypeOK' BY <1>1, <1>4, <1>5, <1>7, <1>8 DEF RecordsTypeOK, MovesOn, RecordRequests, recordBounds
<1>10. SpaceSound(slug)' BY <1>1, <1>3, <1>4, <1>5, SpaceKept
<1>11. StageSound(c)' BY <1>5, IdleTyped DEF StageSound, Step, Setting
<1>12. LeftSound(id)' BY <1>1, <1>2, <1>3, <1>4, <1>5, <1>7, <1>8, LeftKept
<1>13. ASSUME metas[id] # NoMeta PROVE LiveSound(id)'
 <2>1. FileSound(id) /\ EnvSound(id) /\ LimitSound(id) /\ MemberSound(id) BY <1>3, <1>13 DEF LiveSound
 <2>2. FileSound(id)' BY <1>1, <1>4, <1>5, <1>6, <1>8, <2>1, FileKept
 <2>3. EnvSound(id)' BY <1>1, <1>3, <1>4, <1>5, <1>6, <1>8, <1>11, <2>1, EnvKept
 <2>4. LimitSound(id)' BY <1>1, <1>4, <1>5, <1>6, <1>8, <2>1, LimitKept
 <2>5. MemberSound(id)'
  <3>1. CASE Excused(id, "members") \/ "members" \in excused'[id] BY <3>1, <1>4, <1>8 DEF MemberSound, Excused
  <3>2. CASE ~Excused(id, "members") /\ "members" \notin excused'[id]
   <4>1. Alone(id, {"leave"})' /\ \A d \in RecordCalls : ~On(d, id, {"leave"})'
    BY <1>1, <1>5, <1>6, <2>1, <3>2, AloneIs DEF MemberSound
   <4>2. Cardinality(members[id]) > 1 BY <1>6, <1>8, <2>1, <3>2 DEF MemberSound
   <4> QED BY <4>1, <4>2, <1>7 DEF MemberSound
  <3> QED BY <3>1, <3>2
 <2> QED BY <2>2, <2>3, <2>4, <2>5 DEF LiveSound
<1>14. ProjectSound(id)' BY <1>4, <1>7, <1>12, <1>13 DEF ProjectSound
<1> QED BY <1>1, <1>2, <1>4, <1>5, <1>7, <1>8, <1>9, <1>10, <1>11, <1>14, QuietStep DEF recordBounds

----
\* Deletion.

LEMMA DeletionStages ==
  /\ NextDeletion("container") = "secrets" /\ NextDeletion("secrets") = "access" /\ NextDeletion("access") = "meta"
  /\ NextDeletion("meta") = "workspace" /\ NextDeletion("workspace") = "slug" /\ NextDeletion("slug") = "end"
<1>1. /\ Len(DeletionOrder) = 6 /\ DOMAIN DeletionOrder = 1..6
      /\ DeletionOrder[1] = "container" /\ DeletionOrder[2] = "secrets" /\ DeletionOrder[3] = "access"
      /\ DeletionOrder[4] = "meta" /\ DeletionOrder[5] = "workspace" /\ DeletionOrder[6] = "slug"
 BY DEF DeletionOrder
<1>2. \A i \in 1..6 : i = 1 \/ i = 2 \/ i = 3 \/ i = 4 \/ i = 5 \/ i = 6 OBVIOUS
<1>3. ASSUME NEW k \in 1..6
      PROVE  (CHOOSE i \in DOMAIN DeletionOrder : DeletionOrder[i] = DeletionOrder[k]) = k
 <2>1. \A i \in 1..6 : DeletionOrder[i] = DeletionOrder[k] => i = k BY <1>1, <1>2
 <2> QED BY <1>1, <2>1
<1>4. \A k \in 1..6 : NextDeletion(DeletionOrder[k]) = IF k = 6 THEN "end" ELSE DeletionOrder[k + 1]
 BY <1>1, <1>3 DEF NextDeletion
<1>5. /\ NextDeletion(DeletionOrder[1]) = DeletionOrder[2] /\ NextDeletion(DeletionOrder[2]) = DeletionOrder[3]
      /\ NextDeletion(DeletionOrder[3]) = DeletionOrder[4] /\ NextDeletion(DeletionOrder[4]) = DeletionOrder[5]
      /\ NextDeletion(DeletionOrder[5]) = DeletionOrder[6] /\ NextDeletion(DeletionOrder[6]) = "end"
 BY <1>4
<1> QED BY <1>1, <1>5

\* A deletion goes on to its next part.
LEMMA DeletionMoves ==
  ASSUME RecordsSound, NEW c \in RecordCalls,
         NEW at \in {"container", "secrets", "access", "meta", "workspace"}, DeleteStep(c, at)
  PROVE  /\ RecordsTypeOK /\ Step(c) = at /\ recordCall[c].op = "delete" /\ MovesOn(c) /\ runState' = runState
         /\ recordCall'[c] # IdleCall /\ recordCall'[c].op = "delete" /\ recordCall'[c].at = NextDeletion(at)
         /\ recordCall'[c].id = IdOf(c) /\ recordCall'[c].slug = SlugOf(c)
         /\ StageSound(c)' /\ bySlug[SlugOf(c)] = IdOf(c)
         /\ metas[IdOf(c)] # NoMeta <=> Step(c) # "workspace"
<1>1. Step(c) = at /\ RecordsTypeOK /\ StageSound(c) BY StageTellsOf DEF DeleteStep
<1>2. recordCall[c].op = "delete" BY <1>1, StageTells
<1>3. NextDeletion(at) # "end" /\ NextDeletion(at) \in {"secrets", "access", "meta", "workspace", "slug"} BY DeletionStages
<1>4. Proceeds(c, NextDeletion(at)) /\ runState' = runState /\ NextDeletion(at) \in Stages BY <1>3 DEF DeleteStep, Stages
<1>5. /\ MovesOn(c) /\ recordCall'[c].op = "delete" /\ recordCall'[c].at = NextDeletion(at)
      /\ recordCall'[c].id = IdOf(c) /\ recordCall'[c].slug = SlugOf(c)
 BY <1>1, <1>2, <1>4, ProceedsMoves
<1>6. StageSound(c)' /\ recordCall'[c] # IdleCall BY <1>3, <1>5, IdleTyped DEF StageSound, Step, Setting
<1>7. LockSound(c) /\ at # "slug" BY <1>2, CallFacts
<1> QED BY <1>1, <1>2, <1>4, <1>5, <1>6, <1>7 DEF LockSound, Locking

\* What lies under the slug of a deletion.
LEMMA SpaceCleared ==
  ASSUME RecordsSound, NEW c \in RecordCalls, recordCall[c].op = "delete", MovesOn(c),
         NEW id \in ProjectIds, id = IdOf(c), NEW slug \in Slugs, slug = SlugOf(c),
         bySlug' = bySlug, soiled \subseteq soiled',
         ~containers'[slug].there => containers'[slug] = NoContainer,
         slug \notin soiled' =>
           /\ workspaces'[slug].of \cup containers'[slug].of \subseteq {id}
           /\ containers'[slug].there => workspaces'[slug].of = {id}
           /\ recordCall'[c].op = "delete" =>
                /\ recordCall'[c].at # "container" => containers'[slug] = NoContainer
                /\ recordCall'[c].at = "slug" => workspaces'[slug] = NoWorkspace
  PROVE  SpaceSound(slug)'
<1>1. bySlug[slug] = id /\ id # 0 /\ recordCall[c].op \in Locking BY CallFacts DEF LockSound, Locking
<1>2. ASSUME NEW d \in RecordCalls, recordCall'[d].op = "delete", recordCall'[d].slug = slug
      PROVE  d = c
 <2>1. CASE d # c
  <3>1. recordCall[d].op = "delete" /\ SlugOf(d) = slug BY <1>2, <2>1 DEF MovesOn, SlugOf
  <3> QED BY <1>1, <3>1, LockHolds
 <2> QED BY <2>1
<1>3. ASSUME NEW d \in RecordCalls, recordCall'[d].op = "start", recordCall'[d].slug = slug, recordCall'[d].at = "ensure"
      PROVE  FALSE
 <2>1. d # c /\ recordCall'[d] = recordCall[d] BY <1>3, IdleTyped DEF MovesOn
 <2> QED BY <1>1, <1>3, <2>1, LockHolds DEF SlugOf, Step
<1>4. slug \notin soiled' =>
        /\ bySlug'[slug] # 0
        /\ workspaces'[slug].of \cup containers'[slug].of \subseteq {bySlug'[slug]}
        /\ containers'[slug].there => workspaces'[slug].of = {bySlug'[slug]}
 BY <1>1
<1> QED BY <1>2, <1>3, <1>4 DEF SpaceSound, SlugOf, Step

\* What a deletion that nothing overtook has removed.
LEMMA LeftDeletes ==
  ASSUME RecordsSound, NEW c \in RecordCalls, recordCall[c].op = "delete", MovesOn(c),
         NEW id \in ProjectIds, id = IdOf(c), excused[id] \subseteq excused'[id],
         "left" \notin excused'[id] =>
           /\ recordCall'[c].op = "delete" =>
                /\ recordCall'[c].at \notin {"container", "secrets"} => secrets'[id] = 0
                /\ recordCall'[c].at \notin {"container", "secrets", "access"} => members'[id] = {}
           /\ recordCall'[c] = IdleCall /\ metas'[id] = NoMeta => secrets'[id] = 0 /\ members'[id] = {}
  PROVE  LeftSound(id)'
<1>0. LeftSound(id) /\ RecordsTypeOK /\ LockSound(c) BY CallFacts
<1>1. CASE "left" \in excused'[id] BY <1>1 DEF LeftSound
<1>2. CASE "left" \notin excused'[id]
 <2>1. \A d \in RecordCalls : ~On(d, id, Adding) BY <1>0, <1>2 DEF LeftSound, On
 <2>2. \A d \in RecordCalls : ~On(d, id, Adding)' BY <1>0, <2>1, OnAfter DEF Adding
 <2>3. \A d \in RecordCalls : On(d, id, {"delete"})' => d = c /\ recordCall'[c].op = "delete"
  <3>1. \A d \in RecordCalls : On(d, id, {"delete"})' => On(d, id, {"delete"}) BY <1>0, OnAfter
  <3>2. \A d \in RecordCalls : On(d, id, {"delete"}) => d = c BY <1>0 DEF LockSound, Locking, On
  <3> QED BY <3>1, <3>2 DEF On
 <2>4. (\A d \in RecordCalls : ~On(d, id, {"delete"})') => recordCall'[c] = IdleCall BY DEF MovesOn, On, IdOf
 <2> QED BY <1>2, <2>2, <2>3, <2>4 DEF LeftSound, Step
<1> QED BY <1>1, <1>2

\* What has been removed so far.
LEMMA LeftGone ==
  ASSUME RecordsSound, NEW c \in RecordCalls, recordCall[c].op = "delete",
         NEW id \in ProjectIds, id = IdOf(c), "left" \notin excused[id]
  PROVE  /\ Step(c) \notin {"container", "secrets"} => secrets[id] = 0
         /\ Step(c) \notin {"container", "secrets", "access"} => members[id] = {}
<1>1. LeftSound(id) /\ On(c, id, {"delete"}) BY CallFacts DEF On
<1> QED BY <1>1 DEF LeftSound

\* A step of a deletion that keeps the records and the index.
LEMMA DeletionStep ==
  ASSUME RecordsSound, NEW c \in RecordCalls,
         NEW at \in {"container", "secrets", "access", "workspace"}, DeleteStep(c, at),
         NEW id \in ProjectIds, id = IdOf(c), NEW slug \in Slugs, slug = SlugOf(c),
         RecordsTypeOK', UNCHANGED <<metas, bySlug, projectsMade>>,
         \A j \in ProjectIds \ {id} : secrets'[j] = secrets[j] /\ members'[j] = members[j] /\ excused'[j] = excused[j],
         soiled \subseteq soiled', soiled' \subseteq soiled \cup {slug},
         \A s \in Slugs \ {slug} : workspaces'[s] = workspaces[s] /\ containers'[s] = containers[s],
         SpaceSound(slug)', ProjectSound(id)'
  PROVE  RecordsSound'
<1>1. /\ RecordsTypeOK /\ Step(c) = at /\ recordCall[c].op = "delete" /\ MovesOn(c) /\ runState' = runState
      /\ recordCall'[c] # IdleCall /\ recordCall'[c].op = "delete" /\ recordCall'[c].at = NextDeletion(at)
      /\ recordCall'[c].id = IdOf(c) /\ recordCall'[c].slug = SlugOf(c) /\ StageSound(c)'
 BY DeletionMoves
<1>2. RequestsSound /\ IndexSound /\ RequestSound(c) BY <1>1, CallFacts
<1>3. RequestSound(c)' BY <1>1, <1>2 DEF RequestSound, IdOf, SlugOf, ValueOf
<1>4. recordCall'[c].at \in {"workspace", "slug"} <=> Step(c) \in {"workspace", "slug"} BY <1>1, DeletionStages
<1>5. RequestsSound' /\ IndexSound' BY <1>1, <1>2, <1>3, <1>4, QuietRequests DEF Locking
<1>6. ASSUME NEW s \in Slugs PROVE SpaceSound(s)'
 <2>1. CASE s = slug BY <2>1
 <2>2. CASE s # slug
  <3>1. SpaceSound(s) BY DEF RecordsSound
  <3> QED BY <1>1, <2>2, <3>1, SpaceKept
 <2> QED BY <2>1, <2>2
<1> QED BY <1>1, <1>5, <1>6, StepSound

\* A soiled project has nothing to show.
LEMMA SoiledSound ==
  ASSUME NEW id \in ProjectIds, metas' = metas, metas[id].slug \in soiled'
  PROVE  LiveSound(id)'
BY DEF LiveSound, FileSound, EnvSound, LimitSound, MemberSound, Excused

LEMMA DeleteContainerSound ==
  ASSUME RecordsSound, NEW c \in RecordCalls, DeleteContainer(c)
  PROVE  RecordsSound'
<1>1. /\ RecordsTypeOK /\ Step(c) = "container" /\ recordCall[c].op = "delete" /\ MovesOn(c) /\ runState' = runState
      /\ recordCall'[c].op = "delete" /\ recordCall'[c].at = "secrets"
      /\ bySlug[SlugOf(c)] = IdOf(c) /\ metas[IdOf(c)] # NoMeta /\ DeleteStep(c, "container")
 BY DeletionMoves, DeletionStages DEF DeleteContainer
<1>2. PICK id \in ProjectIds, slug \in Slugs : id = IdOf(c) /\ slug = SlugOf(c) BY <1>1, CallFacts
<1>3. /\ StageSound(c) /\ ProjectSound(id) /\ LeftSound(id) /\ SpaceSound(slug)
      /\ slug = metas[id].slug /\ LiveSound(id)
 BY <1>1, <1>2, CallFacts
<1>4. UNCHANGED <<metas, bySlug, workspaces, secrets, members, projectsMade, recordCalls, excused>> BY DEF DeleteContainer
<1>5. /\ containers' \in [Slugs -> Containers] /\ \A s \in Slugs \ {slug} : containers'[s] = containers[s]
      /\ recordFaults' \in 0..MaxRecordFaults
      /\ \/ soiled' = soiled /\ containers'[slug] = NoContainer
         \/ soiled' = soiled \cup {slug} /\ containers'[slug] = containers[slug]
 <2>1. CASE containers' = [containers EXCEPT ![SlugOf(c)] = NoContainer] /\ UNCHANGED <<recordFaults, soiled>>
  BY <1>1, <1>2, <2>1, ContainersFacts, EmptyTyped DEF RecordsTypeOK
 <2>2. CASE RecordFault /\ soiled' = soiled \cup {SlugOf(c)} /\ UNCHANGED containers
  BY <1>1, <1>2, <2>2, FaultFacts DEF RecordsTypeOK
 <2> QED BY <2>1, <2>2 DEF DeleteContainer
<1>6. RecordsTypeOK'
 <2>1. soiled' \subseteq Slugs BY <1>1, <1>5 DEF RecordsTypeOK
 <2> QED BY <1>1, <1>4, <1>5, <2>1 DEF RecordsTypeOK, MovesOn, RecordRequests
<1>7. SpaceSound(slug)'
 <2>1. slug \notin soiled => workspaces[slug].of \subseteq {id} BY <1>1, <1>2, <1>3 DEF SpaceSound
 <2>2. ~containers'[slug].there => containers'[slug] = NoContainer BY <1>3, <1>5 DEF SpaceSound
 <2>3. soiled \subseteq soiled' /\ (slug \notin soiled' => slug \notin soiled /\ containers'[slug] = NoContainer) BY <1>5
 <2>4. slug \notin soiled' =>
          /\ workspaces'[slug].of \cup containers'[slug].of \subseteq {id}
          /\ ~containers'[slug].there
  BY <1>4, <2>1, <2>3, EmptyTyped
 <2> QED BY <1>1, <1>2, <1>4, <2>2, <2>3, <2>4, SpaceCleared
<1>8. LeftSound(id)' BY <1>1, <1>2, <1>4, LeftDeletes, IdleTyped
<1>9. LiveSound(id)'
 <2>1. CASE slug \in soiled' BY <2>1, <1>3, <1>4, SoiledSound
 <2>2. CASE slug \notin soiled'
  <3>1. soiled' = soiled /\ containers'[slug] = NoContainer BY <1>5, <2>2
  <3>2. FileSound(id) /\ EnvSound(id) /\ LimitSound(id) /\ MemberSound(id) BY <1>3 DEF LiveSound
  <3>3. FileSound(id)' BY <1>1, <1>2, <1>3, <1>4, <3>1, <3>2, FileKept DEF On, Setting
  <3>4. EnvSound(id)' BY <1>1, <1>2, <1>3, <1>4, <3>1, <3>2, EnvGone
  <3>5. LimitSound(id)' BY <1>1, <1>2, <1>3, <1>4, <3>1, <3>2, LimitGone DEF On, Launching
  <3>6. MemberSound(id)' BY <1>1, <1>2, <1>3, <1>4, <3>1, <3>2, MemberKept DEF On
  <3> QED BY <3>3, <3>4, <3>5, <3>6 DEF LiveSound
 <2> QED BY <2>1, <2>2
<1>10. ProjectSound(id)' BY <1>3, <1>4, <1>8, <1>9 DEF ProjectSound
<1>11. soiled \subseteq soiled' /\ soiled' \subseteq soiled \cup {slug} BY <1>5
<1> QED BY <1>1, <1>2, <1>4, <1>5, <1>6, <1>7, <1>10, <1>11, DeletionStep

LEMMA DeleteSecretsSound ==
  ASSUME RecordsSound, NEW c \in RecordCalls, DeleteSecrets(c)
  PROVE  RecordsSound'
<1>1. /\ RecordsTypeOK /\ Step(c) = "secrets" /\ recordCall[c].op = "delete" /\ MovesOn(c) /\ runState' = runState
      /\ recordCall'[c].op = "delete" /\ recordCall'[c].at = "access" /\ StageSound(c)'
      /\ bySlug[SlugOf(c)] = IdOf(c) /\ metas[IdOf(c)] # NoMeta /\ DeleteStep(c, "secrets")
 BY DeletionMoves, DeletionStages DEF DeleteSecrets
<1>2. PICK id \in ProjectIds, slug \in Slugs : id = IdOf(c) /\ slug = SlugOf(c) BY <1>1, CallFacts
<1>3. /\ StageSound(c) /\ ProjectSound(id) /\ LeftSound(id) /\ SpaceSound(slug)
      /\ slug = metas[id].slug /\ LiveSound(id)
 BY <1>1, <1>2, CallFacts
<1>4. UNCHANGED <<metas, bySlug, workspaces, containers, members, projectsMade, recordCalls, soiled>> BY DEF DeleteSecrets
<1>5. /\ secrets' \in [ProjectIds -> 0..MaxRecordCalls] /\ \A j \in ProjectIds \ {id} : secrets'[j] = secrets[j]
      /\ recordFaults' \in 0..MaxRecordFaults
      /\ excused' \in [ProjectIds -> SUBSET {"file", "env", "limits", "members", "left"}]
      /\ \A j \in ProjectIds : excused[j] \subseteq excused'[j]
      /\ \A j \in ProjectIds \ {id} : excused'[j] = excused[j]
      /\ \/ secrets'[id] = 0 /\ "file" \in excused'[id]
         \/ secrets' = secrets /\ "left" \in excused'[id]
 <2>1. CASE /\ secrets' = [secrets EXCEPT ![IdOf(c)] = 0] /\ Excuse(IdOf(c), {"file"}) /\ UNCHANGED recordFaults
  <3>1. Excuse(id, {"file"}) BY <1>2, <2>1 DEF Excuse
  <3>2. /\ secrets' \in [ProjectIds -> 0..MaxRecordCalls] /\ secrets'[id] = 0
        /\ \A j \in ProjectIds \ {id} : secrets'[j] = secrets[j]
   BY <1>1, <1>2, <2>1, RecordFacts DEF RecordsTypeOK
  <3>3. /\ excused' \in [ProjectIds -> SUBSET {"file", "env", "limits", "members", "left"}]
        /\ \A j \in ProjectIds : excused[j] \subseteq excused'[j]
        /\ \A j \in ProjectIds \ {id} : excused'[j] = excused[j]
        /\ {"file"} \subseteq excused'[id]
   BY <1>1, <3>1, ExcuseFacts
  <3> QED BY <1>1, <2>1, <3>2, <3>3 DEF RecordsTypeOK
 <2>2. CASE RecordFault /\ Excuse(IdOf(c), {"left"}) /\ UNCHANGED secrets
  <3>1. Excuse(id, {"left"}) BY <1>2, <2>2 DEF Excuse
  <3>2. /\ excused' \in [ProjectIds -> SUBSET {"file", "env", "limits", "members", "left"}]
        /\ \A j \in ProjectIds : excused[j] \subseteq excused'[j]
        /\ \A j \in ProjectIds \ {id} : excused'[j] = excused[j]
        /\ {"left"} \subseteq excused'[id]
   BY <1>1, <3>1, ExcuseFacts
  <3> QED BY <1>1, <2>2, <3>2, FaultFacts DEF RecordsTypeOK
 <2> QED BY <2>1, <2>2 DEF DeleteSecrets
<1>6. RecordsTypeOK' BY <1>1, <1>4, <1>5 DEF RecordsTypeOK, MovesOn, RecordRequests
<1>7. SpaceSound(slug)' BY <1>1, <1>2, <1>3, <1>4, SpaceKept
<1>8. LeftSound(id)'
 <2>1. "left" \notin excused'[id] => secrets'[id] = 0 BY <1>5
 <2> QED BY <1>1, <1>2, <1>5, <2>1, LeftDeletes, IdleTyped
<1>9. LiveSound(id)'
 <2>1. FileSound(id) /\ EnvSound(id) /\ LimitSound(id) /\ MemberSound(id) BY <1>3 DEF LiveSound
 <2>2. slug \notin soiled => containers'[slug] = NoContainer BY <1>1, <1>2, <1>3, <1>4 DEF SpaceSound
 <2>3. FileSound(id)'
  <3>1. CASE "file" \in excused'[id] BY <3>1 DEF FileSound, Excused
  <3>2. CASE secrets' = secrets BY <1>1, <1>2, <1>3, <1>4, <1>5, <2>1, <3>2, FileKept DEF On, Setting
  <3> QED BY <1>5, <3>1, <3>2
 <2>4. EnvSound(id)' BY <1>1, <1>2, <1>3, <1>4, <1>5, <2>1, <2>2, EnvGone DEF Unsoiled
 <2>5. LimitSound(id)' BY <1>1, <1>2, <1>3, <1>4, <1>5, <2>1, LimitKept DEF On, LimitOps
 <2>6. MemberSound(id)' BY <1>1, <1>2, <1>3, <1>4, <1>5, <2>1, MemberKept DEF On
 <2> QED BY <2>3, <2>4, <2>5, <2>6 DEF LiveSound
<1>10. ProjectSound(id)' BY <1>3, <1>4, <1>8, <1>9 DEF ProjectSound
<1> QED BY <1>1, <1>2, <1>4, <1>5, <1>6, <1>7, <1>10, DeletionStep

LEMMA DeleteAccessSound ==
  ASSUME RecordsSound, NEW c \in RecordCalls, DeleteAccess(c)
  PROVE  RecordsSound'
<1>1. /\ RecordsTypeOK /\ Step(c) = "access" /\ recordCall[c].op = "delete" /\ MovesOn(c) /\ runState' = runState
      /\ recordCall'[c].op = "delete" /\ recordCall'[c].at = "meta" /\ StageSound(c)'
      /\ bySlug[SlugOf(c)] = IdOf(c) /\ metas[IdOf(c)] # NoMeta /\ DeleteStep(c, "access")
 BY DeletionMoves, DeletionStages DEF DeleteAccess
<1>2. PICK id \in ProjectIds, slug \in Slugs : id = IdOf(c) /\ slug = SlugOf(c) BY <1>1, CallFacts
<1>3. /\ StageSound(c) /\ ProjectSound(id) /\ LeftSound(id) /\ SpaceSound(slug)
      /\ slug = metas[id].slug /\ LiveSound(id)
 BY <1>1, <1>2, CallFacts
<1>4. UNCHANGED <<metas, bySlug, workspaces, containers, secrets, projectsMade, recordCalls, soiled>> BY DEF DeleteAccess
<1>5. /\ members' \in [ProjectIds -> SUBSET People] /\ \A j \in ProjectIds \ {id} : members'[j] = members[j]
      /\ recordFaults' \in 0..MaxRecordFaults /\ IsFiniteSet(members'[id])
      /\ excused' \in [ProjectIds -> SUBSET {"file", "env", "limits", "members", "left"}]
      /\ \A j \in ProjectIds : excused[j] \subseteq excused'[j]
      /\ \A j \in ProjectIds \ {id} : excused'[j] = excused[j]
      /\ \/ members'[id] = {} /\ "members" \in excused'[id]
         \/ members' = members /\ "left" \in excused'[id]
 <2>1. CASE /\ members' = [members EXCEPT ![IdOf(c)] = {}] /\ Excuse(IdOf(c), {"members"}) /\ UNCHANGED recordFaults
  <3>1. Excuse(id, {"members"}) BY <1>2, <2>1 DEF Excuse
  <3>2. /\ members' \in [ProjectIds -> SUBSET People] /\ members'[id] = {}
        /\ \A j \in ProjectIds \ {id} : members'[j] = members[j]
   BY <1>1, <1>2, <2>1 DEF RecordsTypeOK
  <3>3. /\ excused' \in [ProjectIds -> SUBSET {"file", "env", "limits", "members", "left"}]
        /\ \A j \in ProjectIds : excused[j] \subseteq excused'[j]
        /\ \A j \in ProjectIds \ {id} : excused'[j] = excused[j]
        /\ {"members"} \subseteq excused'[id]
   BY <1>1, <3>1, ExcuseFacts
  <3> QED BY <1>1, <2>1, <3>2, <3>3, FS_EmptySet DEF RecordsTypeOK
 <2>2. CASE RecordFault /\ Excuse(IdOf(c), {"left"}) /\ UNCHANGED members
  <3>1. Excuse(id, {"left"}) BY <1>2, <2>2 DEF Excuse
  <3>2. /\ excused' \in [ProjectIds -> SUBSET {"file", "env", "limits", "members", "left"}]
        /\ \A j \in ProjectIds : excused[j] \subseteq excused'[j]
        /\ \A j \in ProjectIds \ {id} : excused'[j] = excused[j]
        /\ {"left"} \subseteq excused'[id]
   BY <1>1, <3>1, ExcuseFacts
  <3> QED BY <1>1, <1>3, <2>2, <3>2, FaultFacts DEF RecordsTypeOK, ProjectSound
 <2> QED BY <2>1, <2>2 DEF DeleteAccess
<1>6. RecordsTypeOK' BY <1>1, <1>4, <1>5 DEF RecordsTypeOK, MovesOn, RecordRequests
<1>7. SpaceSound(slug)' BY <1>1, <1>2, <1>3, <1>4, SpaceKept
<1>8. LeftSound(id)'
 <2>1. "left" \notin excused'[id] => secrets'[id] = 0 /\ members'[id] = {} BY <1>1, <1>2, <1>4, <1>5, LeftGone
 <2> QED BY <1>1, <1>2, <1>5, <2>1, LeftDeletes, IdleTyped
<1>9. LiveSound(id)'
 <2>1. FileSound(id) /\ EnvSound(id) /\ LimitSound(id) /\ MemberSound(id) BY <1>3 DEF LiveSound
 <2>3. FileSound(id)' BY <1>1, <1>2, <1>3, <1>4, <1>5, <2>1, FileKept DEF On, Setting
 <2>4. EnvSound(id)' BY <1>1, <1>2, <1>3, <1>4, <1>5, <2>1, EnvKept DEF On, EnvOps
 <2>5. LimitSound(id)' BY <1>1, <1>2, <1>3, <1>4, <1>5, <2>1, LimitKept DEF On, LimitOps
 <2>6. MemberSound(id)'
  <3>1. CASE "members" \in excused'[id] BY <3>1 DEF MemberSound, Excused
  <3>2. CASE members' = members BY <1>1, <1>2, <1>3, <1>4, <1>5, <2>1, <3>2, MemberKept DEF On
  <3> QED BY <1>5, <3>1, <3>2
 <2> QED BY <2>3, <2>4, <2>5, <2>6 DEF LiveSound
<1>10. ProjectSound(id)' BY <1>4, <1>5, <1>8, <1>9 DEF ProjectSound
<1> QED BY <1>1, <1>2, <1>4, <1>5, <1>6, <1>7, <1>10, DeletionStep

LEMMA DeleteWorkspaceSound ==
  ASSUME RecordsSound, NEW c \in RecordCalls, DeleteWorkspace(c)
  PROVE  RecordsSound'
<1>1. /\ RecordsTypeOK /\ Step(c) = "workspace" /\ recordCall[c].op = "delete" /\ MovesOn(c) /\ runState' = runState
      /\ recordCall'[c].op = "delete" /\ recordCall'[c].at = "slug" /\ StageSound(c)'
      /\ bySlug[SlugOf(c)] = IdOf(c) /\ metas[IdOf(c)] = NoMeta /\ DeleteStep(c, "workspace")
 BY DeletionMoves, DeletionStages DEF DeleteWorkspace
<1>2. PICK id \in ProjectIds, slug \in Slugs : id = IdOf(c) /\ slug = SlugOf(c) BY <1>1, CallFacts
<1>3. StageSound(c) /\ ProjectSound(id) /\ SpaceSound(slug) BY <1>1, <1>2, CallFacts
<1>4. UNCHANGED <<metas, bySlug, containers, secrets, members, projectsMade, recordCalls, excused>> BY DEF DeleteWorkspace
<1>5. /\ workspaces' \in [Slugs -> Workspaces] /\ \A s \in Slugs \ {slug} : workspaces'[s] = workspaces[s]
      /\ recordFaults' \in 0..MaxRecordFaults
      /\ \/ soiled' = soiled /\ workspaces'[slug] = NoWorkspace
         \/ soiled' = soiled \cup {slug} /\ workspaces'[slug] = workspaces[slug]
 <2>1. CASE workspaces' = [workspaces EXCEPT ![SlugOf(c)] = NoWorkspace] /\ UNCHANGED <<recordFaults, soiled>>
  BY <1>1, <1>2, <2>1, WorkspacesFacts, EmptyTyped DEF RecordsTypeOK
 <2>2. CASE RecordFault /\ soiled' = soiled \cup {SlugOf(c)} /\ UNCHANGED workspaces
  BY <1>1, <1>2, <2>2, FaultFacts DEF RecordsTypeOK
 <2> QED BY <2>1, <2>2 DEF DeleteWorkspace
<1>6. soiled \subseteq soiled' /\ soiled' \subseteq soiled \cup {slug} BY <1>5
<1>7. RecordsTypeOK'
 <2>1. soiled' \subseteq Slugs BY <1>1, <1>6 DEF RecordsTypeOK
 <2> QED BY <1>1, <1>4, <1>5, <2>1 DEF RecordsTypeOK, MovesOn, RecordRequests
<1>8. SpaceSound(slug)'
 <2>1. ~containers'[slug].there => containers'[slug] = NoContainer BY <1>3, <1>4 DEF SpaceSound
 <2>2. ASSUME slug \notin soiled' PROVE workspaces'[slug] = NoWorkspace /\ containers'[slug] = NoContainer
  BY <2>2, <1>1, <1>2, <1>3, <1>4, <1>5 DEF SpaceSound
 <2> QED BY <1>1, <1>2, <1>4, <1>6, <2>1, <2>2, SpaceCleared, EmptyTyped
<1>9. LeftSound(id)'
 <2>1. "left" \notin excused'[id] => secrets'[id] = 0 /\ members'[id] = {} BY <1>1, <1>2, <1>4, LeftGone
 <2> QED BY <1>1, <1>2, <1>4, <2>1, LeftDeletes, IdleTyped
<1>10. ProjectSound(id)' BY <1>1, <1>2, <1>3, <1>4, <1>9 DEF ProjectSound
<1> QED BY <1>1, <1>2, <1>4, <1>5, <1>6, <1>7, <1>8, <1>10, DeletionStep

LEMMA DeleteMetaSound ==
  ASSUME RecordsSound, NEW c \in RecordCalls, DeleteMeta(c)
  PROVE  RecordsSound'
<1>1. RecordsTypeOK /\ StageSound(c) /\ Step(c) = "meta" /\ recordCall[c].op = "delete"
 BY StageTells, StageTellsOf DEF DeleteMeta, DeleteStep
<1>2. PICK id \in ProjectIds, slug \in Slugs : id = IdOf(c) /\ slug = SlugOf(c) BY <1>1, CallFacts
<1>3. /\ RequestsSound /\ IndexSound /\ RequestSound(c) /\ LockSound(c)
      /\ ProjectSound(id) /\ LeftSound(id) /\ SpaceSound(slug)
      /\ metas[id] # NoMeta /\ slug = metas[id].slug /\ LiveSound(id) /\ bySlug[slug] = id
 <2>1. metas[id] # NoMeta BY <1>1, <1>2, CallFacts DEF LockSound, Locking
 <2> QED BY <2>1, <1>1, <1>2, CallFacts
<1>4. UNCHANGED <<bySlug, workspaces, containers, secrets, members, projectsMade, recordCalls, soiled, excused>> BY DEF DeleteMeta
<1>5. CASE /\ DeleteStep(c, "meta")
           /\ metas' = [metas EXCEPT ![IdOf(c)] = NoMeta] /\ UNCHANGED recordFaults
 <2>1. /\ MovesOn(c) /\ runState' = runState /\ recordCall'[c] # IdleCall
       /\ recordCall'[c].op = "delete" /\ recordCall'[c].at = "workspace"
       /\ recordCall'[c].id = id /\ recordCall'[c].slug = slug /\ StageSound(c)'
  BY <1>2, <1>5, DeletionMoves, DeletionStages
 <2>2. /\ metas' \in [ProjectIds -> Metas \cup {NoMeta}] /\ metas'[id] = NoMeta
       /\ \A j \in ProjectIds \ {id} : metas'[j] = metas[j]
  BY <1>1, <1>2, <1>5 DEF RecordsTypeOK
 <2>3. RecordsTypeOK' BY <1>1, <1>4, <1>5, <2>1, <2>2 DEF RecordsTypeOK, MovesOn, RecordRequests
 <2>4. ASSUME NEW d \in RecordCalls, d # c
       PROVE  recordCall'[d] = recordCall[d] /\ StageSound(d) /\ RequestSound(d) /\ LockSound(d)
  BY <2>4, <1>3, <2>1 DEF MovesOn, RequestsSound
 <2>5. ASSUME NEW d \in RecordCalls PROVE StageSound(d)' /\ RequestSound(d)'
  <3>1. CASE d = c
   <4>1. id \in 1..projectsMade /\ slug \in Slugs BY <1>1, <1>2, <1>3 DEF RequestSound
   <4>2. RequestSound(c)' BY <4>1, <2>1, <2>2, <1>4 DEF RequestSound, IdOf, SlugOf, ValueOf
   <4> QED BY <3>1, <2>1, <4>2
  <3>2. CASE d # c
   <4>1. StageSound(d)' BY <2>4, <3>2 DEF StageSound, Step
   <4>2. recordCall[d].op # "none" =>
            /\ IdOf(d) \in 1..projectsMade /\ IdOf(d) \in ProjectIds /\ SlugOf(d) \in Slugs
            /\ metas[IdOf(d)] # NoMeta => SlugOf(d) = metas[IdOf(d)].slug
    BY <2>4, <3>2, CallFacts DEF RequestSound
   <4>3. recordCall[d].op # "none" =>
            /\ metas'[IdOf(d)] # NoMeta => SlugOf(d) = metas'[IdOf(d)].slug
    BY <4>2, <2>2
   <4> QED BY <4>1, <4>2, <4>3, <2>4, <3>2, <1>4 DEF RequestSound, IdOf, SlugOf, ValueOf
  <3> QED BY <3>1, <3>2
 <2>6. ASSUME NEW d \in RecordCalls, d # c, recordCall[d].op \in Locking PROVE IdOf(d) # id /\ IdOf(d) \in ProjectIds
  <3>1. recordCall[d].op # "none" BY <2>6 DEF Locking
  <3> QED BY <2>6, <3>1, <1>1, <1>2, <1>3, CallFacts DEF LockSound, Locking
 <2>7. ASSUME NEW d \in RecordCalls PROVE LockSound(d)'
  <3>1. CASE d = c
   <4>1. id \in runState BY <1>1, <1>2, <1>3 DEF LockSound, Locking
   <4>2. \A e \in RecordCalls : recordCall'[e].op \in Locking /\ recordCall'[e].id = id => e = c BY <2>4, <2>6 DEF IdOf
   <4> QED BY <3>1, <4>1, <4>2, <2>1, <2>2, <1>3, <1>4 DEF LockSound, IdOf, SlugOf, Step
  <3>2. CASE d # c /\ recordCall[d].op \in Locking
   <4>1. /\ LockSound(d) /\ recordCall'[d] = recordCall[d] /\ IdOf(d) # id /\ metas'[IdOf(d)] = metas[IdOf(d)]
    BY <2>2, <2>4, <2>6, <3>2
   <4>2. \A e \in RecordCalls : recordCall'[e].op \in Locking /\ recordCall'[e].id = IdOf(d) => e = d
    BY <4>1, <2>1, <2>4, <3>2 DEF LockSound, IdOf
   <4> QED BY <4>1, <4>2, <3>2, <2>1, <1>4 DEF LockSound, IdOf, SlugOf, Step
  <3>3. CASE d # c /\ recordCall[d].op \notin Locking BY <3>3, <2>4 DEF LockSound
  <3> QED BY <3>1, <3>2, <3>3
 <2>8. IndexSound'
  <3>1. Live' = Live \ {id} BY <2>2 DEF Live
  <3>2. \A j \in Live' : j <= projectsMade' /\ bySlug'[metas'[j].slug] = j BY <3>1, <2>2, <1>3, <1>4 DEF IndexSound, Live
  <3>3. \A i, j \in Live' : i # j => metas'[i].name # metas'[j].name BY <3>1, <2>2, <1>3 DEF IndexSound, Live
  <3>4. ASSUME NEW s \in Slugs, bySlug'[s] # 0
        PROVE  /\ bySlug'[s] \in 1..projectsMade'
               /\ metas'[bySlug'[s]] # NoMeta => metas'[bySlug'[s]].slug = s
               /\ metas'[bySlug'[s]] = NoMeta => \E d \in RecordCalls :
                    recordCall'[d].op = "delete" /\ recordCall'[d].id = bySlug'[s] /\ recordCall'[d].slug = s
   <4>1. /\ bySlug[s] \in 1..projectsMade
         /\ metas[bySlug[s]] # NoMeta => metas[bySlug[s]].slug = s
         /\ metas[bySlug[s]] = NoMeta => \E d \in RecordCalls :
              recordCall[d].op = "delete" /\ IdOf(d) = bySlug[s] /\ SlugOf(d) = s
    BY <1>3, <1>4, <3>4 DEF IndexSound
   <4>2. bySlug[s] \in ProjectIds BY <4>1, <1>1, RecordFacts DEF RecordsTypeOK, ProjectIds
   <4>3. CASE bySlug[s] = id
    <5>1. s = slug BY <4>1, <4>3, <1>3
    <5> QED BY <4>1, <4>3, <5>1, <2>1, <2>2, <1>4
   <4>4. CASE bySlug[s] # id
    <5>1. metas'[bySlug[s]] = metas[bySlug[s]] BY <4>2, <4>4, <2>2
    <5>2. ASSUME metas[bySlug[s]] = NoMeta
          PROVE  \E d \in RecordCalls :
                  recordCall'[d].op = "delete" /\ recordCall'[d].id = bySlug[s] /\ recordCall'[d].slug = s
     <6>1. PICK d \in RecordCalls : recordCall[d].op = "delete" /\ IdOf(d) = bySlug[s] /\ SlugOf(d) = s BY <4>1, <5>2
     <6>2. d # c BY <6>1, <4>4, <1>2
     <6> QED BY <6>1, <6>2, <2>4 DEF IdOf, SlugOf
    <5> QED BY <4>1, <5>1, <5>2, <1>4
   <4> QED BY <4>3, <4>4
  <3> QED BY <3>2, <3>3, <3>4 DEF IndexSound, IdOf, SlugOf
 <2>9. ASSUME NEW s \in Slugs PROVE SpaceSound(s)'
  <3>1. SpaceSound(s) BY DEF RecordsSound
  <3> QED BY <1>1, <1>4, <2>1, <3>1, SpaceKept
 <2>10. LeftSound(id)'
  <3>1. "left" \notin excused'[id] => secrets'[id] = 0 /\ members'[id] = {} BY <1>1, <1>2, <1>4, LeftGone
  <3> QED BY <1>1, <1>2, <1>4, <2>1, <3>1, LeftDeletes
 <2>11. ProjectSound(id)' BY <1>3, <1>4, <2>2, <2>10 DEF ProjectSound
 <2>12. RequestsSound' BY <2>5, <2>7 DEF RequestsSound
 <2> QED BY <1>1, <1>2, <1>4, <2>1, <2>2, <2>3, <2>8, <2>9, <2>11, <2>12, StepSound
<1>6. CASE RecordFault /\ Ends(c) /\ UNCHANGED metas
 <2>1. /\ MovesOn(c) /\ recordCall'[c] = IdleCall /\ recordCall'[c].op = "none" /\ runState' \subseteq runState /\ runState \ {id} \subseteq runState'
  BY <1>1, <1>2, <1>6, EndsMoves
 <2>2. RecordsTypeOK' BY <1>1, <1>4, <1>6, <2>1, FaultFacts DEF RecordsTypeOK, MovesOn, RecordRequests
 <2>3. StageSound(c)' BY <2>1, IdleTyped DEF StageSound, Step, Setting
 <2>4. RequestsSound' /\ IndexSound' BY <1>1, <1>2, <1>3, <1>4, <1>6, <2>1, QuietRequests DEF Locking
 <2>5. ASSUME NEW s \in Slugs PROVE SpaceSound(s)'
  <3>1. SpaceSound(s) BY DEF RecordsSound
  <3> QED BY <1>1, <1>4, <2>1, <3>1, SpaceKept
 <2>6. LeftSound(id)' BY <1>1, <1>2, <1>3, <1>4, <1>6, <2>1, LeftDeletes
 <2>7. LiveSound(id)'
  <3>1. FileSound(id) /\ EnvSound(id) /\ LimitSound(id) /\ MemberSound(id) BY <1>3 DEF LiveSound
  <3>3. FileSound(id)' BY <1>1, <1>2, <1>4, <1>6, <2>1, <3>1, FileKept DEF On, Setting
  <3>4. EnvSound(id)' BY <1>1, <1>2, <1>4, <1>6, <2>1, <2>3, <3>1, EnvKept DEF On, EnvOps
  <3>5. LimitSound(id)' BY <1>1, <1>2, <1>4, <1>6, <2>1, <3>1, LimitKept DEF On, LimitOps
  <3>6. MemberSound(id)' BY <1>1, <1>2, <1>4, <1>6, <2>1, <3>1, MemberKept DEF On
  <3> QED BY <3>3, <3>4, <3>5, <3>6 DEF LiveSound
 <2>8. ProjectSound(id)' BY <1>3, <1>4, <2>6, <2>7 DEF ProjectSound
 <2> QED BY <1>1, <1>2, <1>4, <1>6, <2>1, <2>2, <2>4, <2>5, <2>8, StepSound
<1> QED BY <1>5, <1>6 DEF DeleteMeta

LEMMA ReleaseSlugSound ==
  ASSUME RecordsSound, NEW c \in RecordCalls, ReleaseSlug(c)
  PROVE  RecordsSound'
<1>1. /\ RecordsTypeOK /\ StageSound(c) /\ Step(c) = "slug" /\ recordCall[c].op = "delete" /\ Ends(c)
 <2>1. DeleteStep(c, "slug") /\ NextDeletion("slug") = "end" BY DeletionStages DEF ReleaseSlug
 <2> QED BY <2>1, StageTells, StageTellsOf DEF DeleteStep
<1>2. PICK id \in ProjectIds, slug \in Slugs : id = IdOf(c) /\ slug = SlugOf(c) BY <1>1, CallFacts
<1>3. /\ RequestsSound /\ IndexSound /\ RequestSound(c) /\ LockSound(c)
      /\ ProjectSound(id) /\ LeftSound(id) /\ SpaceSound(slug)
      /\ metas[id] = NoMeta /\ bySlug[slug] = id
 <2>1. LockSound(c) BY <1>1, CallFacts
 <2>2. metas[id] = NoMeta /\ bySlug[slug] = id BY <2>1, <1>1, <1>2 DEF LockSound, Locking
 <2> QED BY <2>1, <2>2, <1>1, <1>2, CallFacts
<1>4. UNCHANGED <<metas, workspaces, containers, secrets, members, recordBounds, soiled, excused>> BY DEF ReleaseSlug
<1>5. /\ MovesOn(c) /\ recordCall'[c] = IdleCall /\ recordCall'[c].op = "none"
      /\ runState' \subseteq runState /\ runState \ {id} \subseteq runState'
 BY <1>1, <1>2, EndsMoves
<1>6. bySlug' \in [Slugs -> 0..MaxProjects] /\ bySlug'[slug] = 0 /\ \A s \in Slugs \ {slug} : bySlug'[s] = bySlug[s]
 <2>1. bySlug' = [bySlug EXCEPT ![slug] = 0] /\ bySlug \in [Slugs -> 0..MaxProjects] BY <1>1, <1>2 DEF ReleaseSlug, RecordsTypeOK
 <2> QED BY <2>1, RecordFacts
<1>7. RecordsTypeOK' BY <1>1, <1>4, <1>5, <1>6 DEF RecordsTypeOK, MovesOn, RecordRequests, recordBounds
<1>8. ASSUME NEW d \in RecordCalls, d # c
      PROVE  recordCall'[d] = recordCall[d] /\ StageSound(d) /\ RequestSound(d) /\ LockSound(d)
 BY <1>8, <1>3, <1>5 DEF MovesOn, RequestsSound
<1>9. ASSUME NEW d \in RecordCalls PROVE StageSound(d)' /\ RequestSound(d)'
 <2>1. CASE d = c BY <2>1, <1>5 DEF StageSound, RequestSound, Setting
 <2>2. CASE d # c
  <3>1. StageSound(d)' BY <1>8, <2>2 DEF StageSound, Step
  <3> QED BY <3>1, <1>4, <1>8, <2>2 DEF RequestSound, IdOf, SlugOf, ValueOf, recordBounds
 <2> QED BY <2>1, <2>2
<1>10. ASSUME NEW d \in RecordCalls, d # c, recordCall[d].op \in Locking PROVE IdOf(d) # id
 BY <1>10, <1>1, <1>2, <1>3 DEF LockSound, Locking
<1>11. ASSUME NEW d \in RecordCalls PROVE LockSound(d)'
 <2>1. CASE d = c \/ recordCall[d].op \notin Locking BY <2>1, <1>5, <1>8 DEF LockSound, Locking
 <2>2. CASE d # c /\ recordCall[d].op \in Locking
  <3>1. LockSound(d) /\ recordCall'[d] = recordCall[d] /\ IdOf(d) # id BY <1>8, <1>10, <2>2
  <3>2. \A e \in RecordCalls : recordCall'[e].op \in Locking /\ recordCall'[e].id = IdOf(d) => e = d
   BY <3>1, <1>5, <1>8, <2>2 DEF LockSound, Locking, IdOf
  <3>3. IdOf(d) \in runState' BY <3>1, <1>5, <2>2 DEF LockSound
  <3>4. recordCall[d].op = "delete" => bySlug'[SlugOf(d)] = IdOf(d)
   <4>1. recordCall[d].op = "delete" => SlugOf(d) \in Slugs /\ bySlug[SlugOf(d)] = IdOf(d)
    BY <3>1, <2>2, <1>8 DEF LockSound, RequestSound
   <4> QED BY <4>1, <3>1, <1>3, <1>6
  <3> QED BY <3>1, <3>2, <3>3, <3>4, <2>2, <1>4 DEF LockSound, IdOf, SlugOf, Step
 <2> QED BY <2>1, <2>2
<1>12. IndexSound'
 <2>1. Live' = Live BY <1>4 DEF Live
 <2>2. ASSUME NEW j \in Live PROVE j <= projectsMade /\ bySlug'[metas[j].slug] = j
  <3>1. metas[j].slug \in Slugs /\ j # id BY <1>1, <1>3, RecordFacts DEF RecordsTypeOK, Metas, Live
  <3>2. j <= projectsMade /\ bySlug[metas[j].slug] = j BY <1>3 DEF IndexSound
  <3> QED BY <3>1, <3>2, <1>3, <1>6
 <2>3. ASSUME NEW s \in Slugs, bySlug'[s] # 0
       PROVE  /\ bySlug'[s] \in 1..projectsMade
              /\ metas[bySlug'[s]] # NoMeta => metas[bySlug'[s]].slug = s
              /\ metas[bySlug'[s]] = NoMeta => \E d \in RecordCalls :
                   recordCall'[d].op = "delete" /\ recordCall'[d].id = bySlug'[s] /\ recordCall'[d].slug = s
  <3>1. s # slug /\ bySlug'[s] = bySlug[s] BY <2>3, <1>6
  <3>2. /\ bySlug[s] \in 1..projectsMade
        /\ metas[bySlug[s]] # NoMeta => metas[bySlug[s]].slug = s
        /\ metas[bySlug[s]] = NoMeta => \E d \in RecordCalls :
               recordCall[d].op = "delete" /\ IdOf(d) = bySlug[s] /\ SlugOf(d) = s
   BY <2>3, <3>1, <1>3 DEF IndexSound
  <3>3. \A d \in RecordCalls : SlugOf(d) = s => d # c BY <3>1, <1>2
  <3>4. \A d \in RecordCalls : SlugOf(d) = s => recordCall'[d] = recordCall[d] BY <3>3, <1>8
  <3> QED BY <3>1, <3>2, <3>4 DEF IdOf, SlugOf
 <2>4. \A i, j \in Live : i # j => metas[i].name # metas[j].name BY <1>3 DEF IndexSound
 <2> QED BY <2>1, <2>2, <2>3, <2>4, <1>4 DEF IndexSound, IdOf, SlugOf, recordBounds
<1>13. ASSUME NEW s \in Slugs PROVE SpaceSound(s)'
 <2>0. SpaceSound(s) BY DEF RecordsSound
 <2>1. CASE s # slug BY <1>1, <1>2, <1>4, <1>5, <1>6, <2>0, <2>1, SpaceKept
 <2>2. CASE s = slug
  <3>1. slug \notin soiled => workspaces[slug] = NoWorkspace /\ containers[slug] = NoContainer BY <1>1, <1>2, <1>3 DEF SpaceSound
  <3>2. ASSUME NEW d \in RecordCalls, recordCall'[d].slug = slug,
               recordCall'[d].op = "delete" \/ (recordCall'[d].op = "start" /\ recordCall'[d].at = "ensure")
        PROVE  FALSE
   <4>1. d # c /\ recordCall'[d] = recordCall[d] BY <3>2, <1>5, <1>8
   <4>2. recordCall[c].op \in Locking BY <1>1 DEF Locking
   <4> QED BY <4>1, <4>2, <3>2, <1>2, <1>3, LockHolds DEF SlugOf, Step
  <3>3. ~containers[slug].there => containers[slug] = NoContainer BY <1>3 DEF SpaceSound
  <3>4. NoWorkspace.of \cup NoContainer.of = {} /\ ~NoContainer.there BY EmptyTyped
  <3>5. slug \notin soiled => /\ workspaces[slug].of \cup containers[slug].of \subseteq {bySlug'[slug]}
                              /\ ~containers[slug].there
   BY <3>1, <3>4
  <3> HIDE DEF NoWorkspace, NoContainer
  <3> QED BY <2>2, <3>1, <3>2, <3>3, <3>5, <1>4 DEF SpaceSound, SlugOf, Step
 <2> QED BY <2>1, <2>2
<1>14. LeftSound(id)'
 <2>1. "left" \notin excused'[id] => secrets'[id] = 0 /\ members'[id] = {} BY <1>1, <1>2, <1>4, LeftGone
 <2> QED BY <1>1, <1>2, <1>4, <1>5, <2>1, LeftDeletes
<1>15. ProjectSound(id)' BY <1>3, <1>4, <1>14 DEF ProjectSound
<1>16. RequestsSound' BY <1>9, <1>11 DEF RequestsSound
<1> QED BY <1>1, <1>2, <1>4, <1>5, <1>7, <1>12, <1>13, <1>15, <1>16, StepSound DEF recordBounds

----
\* A request begins.

\* A project whose requests, records and space are left alone.
LEMMA OthersSame ==
  ASSUME NEW j \in ProjectIds, ProjectSound(j),
         \A d \in RecordCalls : IdOf(d) = j \/ recordCall'[d].id = j => recordCall'[d] = recordCall[d],
         metas'[j] = NoMeta <=> metas[j] = NoMeta,
         metas[j] # NoMeta => metas'[j].slug = metas[j].slug /\ metas'[j].limits = metas[j].limits,
         secrets'[j] = secrets[j], members'[j] = members[j], excused'[j] = excused[j], soiled' = soiled,
         metas[j] # NoMeta =>
           workspaces'[metas[j].slug] = workspaces[metas[j].slug] /\ containers'[metas[j].slug] = containers[metas[j].slug]
  PROVE  ProjectSound(j)'
<1>1. ASSUME NEW d \in RecordCalls, NEW ops
      PROVE  /\ On(d, j, ops)' <=> On(d, j, ops)
             /\ On(d, j, ops) => recordCall'[d] = recordCall[d]
 BY DEF On, IdOf
<1>2. /\ \A d \in RecordCalls : /\ On(d, j, Setting)' <=> On(d, j, Setting)
                                /\ On(d, j, EnvOps)' <=> On(d, j, EnvOps)
                                /\ On(d, j, LimitOps)' <=> On(d, j, LimitOps)
                                /\ On(d, j, Launching)' <=> On(d, j, Launching)
                                /\ On(d, j, {"limit"})' <=> On(d, j, {"limit"})
                                /\ On(d, j, {"create"})' <=> On(d, j, {"create"})
                                /\ On(d, j, {"leave"})' <=> On(d, j, {"leave"})
                                /\ On(d, j, {"delete"})' <=> On(d, j, {"delete"})
                                /\ On(d, j, Adding)' <=> On(d, j, Adding)
 BY <1>1
<1>3. \A d \in RecordCalls :
        \/ On(d, j, Setting) \/ On(d, j, EnvOps) \/ On(d, j, LimitOps) \/ On(d, j, Launching) \/ On(d, j, {"limit"})
        \/ On(d, j, {"create"}) \/ On(d, j, {"leave"}) \/ On(d, j, {"delete"})
        => recordCall'[d] = recordCall[d]
 BY <1>1
<1>4. LeftSound(j)' /\ IsFiniteSet(members'[j])
 <2>1. LeftSound(j) /\ IsFiniteSet(members[j]) BY DEF ProjectSound
 <2> QED BY <2>1, <1>2, <1>3 DEF LeftSound, Step
<1>5. ASSUME metas[j] # NoMeta PROVE LiveSound(j)'
 <2>1. FileSound(j) /\ EnvSound(j) /\ LimitSound(j) /\ MemberSound(j) BY <1>5 DEF ProjectSound, LiveSound
 <2>2. FileSound(j)' BY <2>1, <1>2, <1>3, <1>5 DEF FileSound, Excused, Alone, Step
 <2>3. EnvSound(j)'
  <3>1. CASE Excused(j, "env") BY <3>1, <1>5 DEF EnvSound, Excused
  <3>2. CASE ~Excused(j, "env")
   <4>1. Alone(j, EnvOps)' BY <3>2, <2>1, <1>2 DEF EnvSound, Alone
   <4> QED BY <4>1, <3>2, <2>1, <1>2, <1>3, <1>5 DEF EnvSound, Step, ValueOf
  <3> QED BY <3>1, <3>2
 <2>4. LimitSound(j)'
  <3>1. CASE Excused(j, "limits") BY <3>1, <1>5 DEF LimitSound, Excused
  <3>2. CASE ~Excused(j, "limits")
   <4>1. Alone(j, LimitOps)' BY <3>2, <2>1, <1>2 DEF LimitSound, Alone
   <4> QED BY <4>1, <3>2, <2>1, <1>2, <1>3, <1>5 DEF LimitSound, Step, ValueOf
  <3> QED BY <3>1, <3>2
 <2>5. MemberSound(j)' BY <2>1, <1>2, <1>3, <1>5 DEF MemberSound, Excused, Alone, Step
 <2> QED BY <2>2, <2>3, <2>4, <2>5 DEF LiveSound
<1> QED BY <1>4, <1>5 DEF ProjectSound

\* With what a request may begin.
Entering(op, id, at, value, flag) ==
  LET box == containers[metas[id].slug]
  IN  \/ op = "start" /\ at = "ensure" /\ value = metas[id].limits /\ (~flag => box.there)
      \/ /\ op = "upgrade" /\ flag /\ value = metas[id].limits
         /\ at = "drop" \/ (at = "ensure" /\ ~box.there)
      \/ op = "set" /\ at = "store" /\ value # 0
      \/ op = "unset" /\ at = "store" /\ value = 0
      \/ op = "limit" /\ (at = "instance" \/ (at = "record" /\ ~box.there))
      \/ op = "join" /\ at = "add"
      \/ op = "leave" /\ at = "remove" /\ (flag \/ Cardinality(members[id]) > 1)
      \/ op = "delete" /\ at = "container"

LEMMA EnteringTyped ==
  ASSUME NEW op, NEW id, NEW at, NEW value, NEW flag, Entering(op, id, at, value, flag)
  PROVE  op \in RecordOps /\ at \in Stages /\ op \notin {"none", "create"}
BY DEF Entering, RecordOps, EnvOps, LimitOps, Stages

\* What is excused when a request begins beside others.
LEMMA CrossingFacts ==
  ASSUME RecordsTypeOK, NEW c \in RecordCalls, NEW id \in ProjectIds, NEW op,
         excused' = [excused EXCEPT ![id] =
           IF Crossing(c, id, op) = {} THEN @ \ Settling(op) ELSE @ \cup Crossing(c, id, op)]
  PROVE  /\ excused' \in [ProjectIds -> SUBSET {"file", "env", "limits", "members", "left"}]
         /\ \A j \in ProjectIds \ {id} : excused'[j] = excused[j]
         /\ op \in EnvOps /\ Others(c, id, EnvOps) => "file" \in excused'[id] /\ "env" \in excused'[id]
         /\ op \in LimitOps /\ Others(c, id, LimitOps) => "limits" \in excused'[id]
         /\ op = "leave" /\ Others(c, id, {"leave"}) => "members" \in excused'[id]
         /\ op \in Adding /\ Others(c, id, {"delete"}) => "left" \in excused'[id]
         /\ op = "delete" /\ Others(c, id, Adding) => "left" \in excused'[id]
         /\ "file" \in excused[id] /\ op \notin Setting => "file" \in excused'[id]
         /\ "env" \in excused[id] /\ op \notin Setting \cup {"upgrade"} => "env" \in excused'[id]
         /\ "limits" \in excused[id] /\ op # "limit" => "limits" \in excused'[id]
         /\ "members" \in excused[id] => "members" \in excused'[id]
         /\ "left" \in excused[id] => "left" \in excused'[id]
<1> DEFINE crossing == Crossing(c, id, op)
            settling == Settling(op)
            all == {"file", "env", "limits", "members", "left"}
<1>1. crossing \subseteq all BY DEF Crossing
<1>2. /\ settling \subseteq {"file", "env", "limits"}
      /\ "file" \in settling => op \in Setting
      /\ "env" \in settling => op \in Setting \cup {"upgrade"}
      /\ "limits" \in settling => op = "limit"
 BY DEF Settling, Setting
<1>3. /\ op \in EnvOps /\ Others(c, id, EnvOps) => "file" \in crossing /\ "env" \in crossing
      /\ op \in LimitOps /\ Others(c, id, LimitOps) => "limits" \in crossing
      /\ op = "leave" /\ Others(c, id, {"leave"}) => "members" \in crossing
      /\ op \in Adding /\ Others(c, id, {"delete"}) => "left" \in crossing
      /\ op = "delete" /\ Others(c, id, Adding) => "left" \in crossing
 BY DEF Crossing, Overtakes
<1> HIDE DEF crossing, settling
<1>4. excused \in [ProjectIds -> SUBSET all] BY DEF RecordsTypeOK
<1>5. excused' = [excused EXCEPT ![id] = IF crossing = {} THEN excused[id] \ settling ELSE excused[id] \cup crossing]
 BY DEF crossing, settling
<1>6. excused'[id] = IF crossing = {} THEN excused[id] \ settling ELSE excused[id] \cup crossing BY <1>4, <1>5
<1>7. \A j \in ProjectIds \ {id} : excused'[j] = excused[j] BY <1>4, <1>5
<1>8. excused'[id] \subseteq all BY <1>1, <1>4, <1>6
<1>9. excused' \in [ProjectIds -> SUBSET all] BY <1>4, <1>5, <1>6, <1>8
<1>10. \A why : why \in crossing => why \in excused'[id] BY <1>6
<1>11. \A why : why \in excused[id] /\ why \notin settling => why \in excused'[id] BY <1>6
<1>12. /\ op \in EnvOps /\ Others(c, id, EnvOps) => "file" \in excused'[id] /\ "env" \in excused'[id]
       /\ op \in LimitOps /\ Others(c, id, LimitOps) => "limits" \in excused'[id]
       /\ op = "leave" /\ Others(c, id, {"leave"}) => "members" \in excused'[id]
       /\ op \in Adding /\ Others(c, id, {"delete"}) => "left" \in excused'[id]
       /\ op = "delete" /\ Others(c, id, Adding) => "left" \in excused'[id]
 BY <1>3, <1>10
<1>13. /\ "file" \in excused[id] /\ op \notin Setting => "file" \in excused'[id]
       /\ "env" \in excused[id] /\ op \notin Setting \cup {"upgrade"} => "env" \in excused'[id]
       /\ "limits" \in excused[id] /\ op # "limit" => "limits" \in excused'[id]
       /\ "members" \in excused[id] => "members" \in excused'[id]
       /\ "left" \in excused[id] => "left" \in excused'[id]
 BY <1>2, <1>11
<1> QED BY <1>7, <1>9, <1>12, <1>13

LEMMA BeginsFacts ==
  ASSUME RecordsSound, NEW c \in RecordCalls, NEW op, NEW id \in Live, NEW at, NEW value \in 0..MaxRecordCalls,
         NEW flag \in BOOLEAN, Begins(c, op, id, at, value, flag), Entering(op, id, at, value, flag)
  PROVE  /\ RecordsTypeOK /\ recordCall[c] = IdleCall /\ metas[id].slug \in Slugs /\ id \in ProjectIds /\ id # 0
         /\ id \in 1..projectsMade /\ metas[id] # NoMeta /\ bySlug[metas[id].slug] = id
         /\ recordCall' \in [RecordCalls -> RecordRequests]
         /\ \A d \in RecordCalls \ {c} : recordCall'[d] = recordCall[d]
         /\ recordCall'[c].op = op /\ recordCall'[c].id = id /\ recordCall'[c].slug = metas[id].slug
         /\ recordCall'[c].at = at /\ recordCall'[c].value = value /\ recordCall'[c].flag = flag
         /\ recordCalls' \in 0..MaxRecordCalls
         /\ UNCHANGED <<recordStores, projectsMade, recordFaults, soiled>>
<1>1. RecordsTypeOK /\ IndexSound BY DEF RecordsSound
<1>2. /\ recordCall[c] = IdleCall /\ recordCalls < MaxRecordCalls /\ recordCalls' = recordCalls + 1
      /\ UNCHANGED <<recordStores, projectsMade, recordFaults, soiled>>
 BY DEF Begins
<1>3. recordCalls' \in 0..MaxRecordCalls BY <1>1, <1>2, RecordFacts DEF RecordsTypeOK
<1>4. /\ metas[id] \in Metas /\ metas[id] # NoMeta /\ id \in ProjectIds /\ id # 0
      /\ id <= projectsMade /\ bySlug[metas[id].slug] = id
 BY <1>1, RecordFacts DEF RecordsTypeOK, IndexSound, Live, ProjectIds
<1>5. metas[id].slug \in Slugs /\ metas[id].slug \in 0..MaxProjects /\ id \in 0..MaxProjects
 BY <1>4, RecordFacts DEF Metas, Slugs, ProjectIds
<1>6. op \in RecordOps /\ at \in Stages BY EnteringTyped
<1> DEFINE new == [op |-> op, id |-> id, slug |-> metas[id].slug, at |-> at, value |-> value, listed |-> 0, flag |-> flag]
<1>7. new \in RecordRequests BY <1>5, <1>6, RecordFacts DEF RecordRequests
<1>8. recordCall' = [recordCall EXCEPT ![c] = new] /\ recordCall \in [RecordCalls -> RecordRequests]
 BY <1>1, RequestTypes DEF Begins
<1>9. /\ recordCall' \in [RecordCalls -> RecordRequests] /\ recordCall'[c] = new
      /\ \A d \in RecordCalls \ {c} : recordCall'[d] = recordCall[d]
 BY <1>7, <1>8
<1>10. /\ new.op = op /\ new.id = id /\ new.slug = metas[id].slug /\ new.at = at /\ new.value = value /\ new.flag = flag OBVIOUS
<1> HIDE DEF new
<1>11. id \in 1..projectsMade BY <1>1, <1>4, RecordFacts DEF RecordsTypeOK, ProjectIds
<1> QED BY <1>1, <1>2, <1>3, <1>4, <1>5, <1>9, <1>10, <1>11

LEMMA BeginsSound ==
  ASSUME RecordsSound, NEW c \in RecordCalls, NEW op, NEW id \in Live, NEW at, NEW value \in 0..MaxRecordCalls,
         NEW flag \in BOOLEAN, Begins(c, op, id, at, value, flag), Entering(op, id, at, value, flag),
         op \in Locking => id \notin runState /\ runState' = runState \cup {id},
         op \notin Locking => runState' = runState
  PROVE  RecordsSound'
<1>1. /\ RecordsTypeOK /\ recordCall[c] = IdleCall /\ metas[id].slug \in Slugs /\ id \in ProjectIds /\ id # 0
      /\ id \in 1..projectsMade /\ metas[id] # NoMeta /\ bySlug[metas[id].slug] = id
      /\ recordCall' \in [RecordCalls -> RecordRequests]
      /\ \A d \in RecordCalls \ {c} : recordCall'[d] = recordCall[d]
      /\ recordCall'[c].op = op /\ recordCall'[c].id = id /\ recordCall'[c].slug = metas[id].slug
      /\ recordCall'[c].at = at /\ recordCall'[c].value = value /\ recordCall'[c].flag = flag
      /\ recordCalls' \in 0..MaxRecordCalls
 BY BeginsFacts
<1>2. UNCHANGED <<metas, bySlug, workspaces, containers, secrets, members, projectsMade, recordFaults, soiled>>
 BY BeginsFacts DEF recordStores
<1>3. op \in RecordOps /\ at \in Stages /\ op \notin {"none", "create"} BY EnteringTyped
<1>4. /\ excused' \in [ProjectIds -> SUBSET {"file", "env", "limits", "members", "left"}]
      /\ \A j \in ProjectIds \ {id} : excused'[j] = excused[j]
      /\ op \in EnvOps /\ Others(c, id, EnvOps) => "file" \in excused'[id] /\ "env" \in excused'[id]
      /\ op \in LimitOps /\ Others(c, id, LimitOps) => "limits" \in excused'[id]
      /\ op = "leave" /\ Others(c, id, {"leave"}) => "members" \in excused'[id]
      /\ op \in Adding /\ Others(c, id, {"delete"}) => "left" \in excused'[id]
      /\ op = "delete" /\ Others(c, id, Adding) => "left" \in excused'[id]
      /\ "file" \in excused[id] /\ op \notin Setting => "file" \in excused'[id]
      /\ "env" \in excused[id] /\ op \notin Setting \cup {"upgrade"} => "env" \in excused'[id]
      /\ "limits" \in excused[id] /\ op # "limit" => "limits" \in excused'[id]
      /\ "members" \in excused[id] => "members" \in excused'[id]
      /\ "left" \in excused[id] => "left" \in excused'[id]
 <2>1. excused' = [excused EXCEPT ![id] =
          IF Crossing(c, id, op) = {} THEN @ \ Settling(op) ELSE @ \cup Crossing(c, id, op)]
  BY DEF Begins
 <2> QED BY <1>1, <2>1, CrossingFacts
<1>5. RecordsTypeOK'
 <2>1. runState' \subseteq ProjectIds BY <1>1 DEF RecordsTypeOK
 <2> QED BY <1>1, <1>2, <1>4, <2>1 DEF RecordsTypeOK, RecordRequests
<1>6. /\ RequestsSound /\ IndexSound /\ ProjectSound(id) /\ LiveSound(id) /\ SpaceSound(metas[id].slug)
 <2>1. id <= projectsMade BY <1>1 DEF RecordsTypeOK
 <2> QED BY <1>1, <2>1 DEF RecordsSound, ProjectSound
<1>7. IdleCall.op = "none" /\ IdleCall.id = 0 BY IdleTyped
<1>8. StageSound(c)' BY <1>1 DEF StageSound, Entering, Setting, Step
<1>9. RequestSound(c)'
 <2>1. /\ op = "set" => value # 0
       /\ op = "unset" => value = 0
       /\ op \in {"create", "upgrade"} => flag
  BY <1>3 DEF Entering
 <2> QED BY <1>1, <1>2, <2>1 DEF RequestSound, IdOf, SlugOf, ValueOf
<1>10. ASSUME NEW d \in RecordCalls \ {c} PROVE StageSound(d)' /\ RequestSound(d)'
 <2>1. StageSound(d) /\ RequestSound(d) BY <1>6 DEF RequestsSound
 <2>2. recordCall'[d] = recordCall[d] BY <1>1
 <2> QED BY <1>2, <2>1, <2>2 DEF StageSound, RequestSound, Step, IdOf, SlugOf, ValueOf
<1>11. LockSound(c)'
 <2> SUFFICES ASSUME op \in Locking PROVE LockSound(c)' BY <1>1 DEF LockSound
 <2>1. id \in runState' /\ id \notin runState OBVIOUS
 <2>2. \A d \in RecordCalls : recordCall'[d].op \in Locking /\ recordCall'[d].id = id => d = c
  <3>1. \A d \in RecordCalls : recordCall[d].op \in Locking => IdOf(d) # id BY <1>6, <2>1 DEF RequestsSound, LockSound
  <3> QED BY <1>1, <3>1 DEF IdOf
 <2>3. at \notin {"workspace", "slug"} BY DEF Entering
 <2> QED BY <1>1, <1>2, <2>1, <2>2, <2>3 DEF LockSound, IdOf, SlugOf, Step
<1>12. ASSUME NEW d \in RecordCalls \ {c} PROVE LockSound(d)'
 <2>0. LockSound(d) /\ recordCall'[d] = recordCall[d] BY <1>1, <1>6 DEF RequestsSound
 <2> SUFFICES ASSUME recordCall[d].op \in Locking PROVE LockSound(d)' BY <2>0 DEF LockSound
 <2>1. IdOf(d) \in runState /\ runState \subseteq runState' BY <2>0 DEF LockSound
 <2>2. \A e \in RecordCalls : recordCall'[e].op \in Locking /\ recordCall'[e].id = IdOf(d) => e = d
  <3>1. op \in Locking => IdOf(d) # id BY <2>1
  <3> QED BY <1>1, <2>0, <3>1 DEF LockSound, IdOf
 <2> QED BY <1>2, <2>0, <2>1, <2>2 DEF LockSound, IdOf, SlugOf, Step
<1>13. RequestsSound' BY <1>8, <1>9, <1>10, <1>11, <1>12 DEF RequestsSound
<1>14. IndexSound'
 <2>1. \A d \in RecordCalls : recordCall[d].op = "delete" => recordCall'[d] = recordCall[d] BY <1>1, <1>7
 <2>2. Live' = Live BY <1>2 DEF Live
 <2>3. ASSUME NEW s \in Slugs, bySlug[s] # 0
       PROVE  /\ bySlug[s] \in 1..projectsMade
              /\ metas[bySlug[s]] # NoMeta => metas[bySlug[s]].slug = s
              /\ metas[bySlug[s]] = NoMeta => \E d \in RecordCalls :
                   recordCall'[d].op = "delete" /\ recordCall'[d].id = bySlug[s] /\ recordCall'[d].slug = s
  BY <1>6, <2>1, <2>3 DEF IndexSound, IdOf, SlugOf
 <2> QED BY <1>2, <1>6, <2>2, <2>3 DEF IndexSound, IdOf, SlugOf
<1>15. ASSUME NEW s \in Slugs PROVE SpaceSound(s)'
 <2>1. SpaceSound(s) BY DEF RecordsSound
 <2>2. ASSUME s \notin soiled, NEW d \in RecordCalls, recordCall'[d].op = "delete", recordCall'[d].slug = s
       PROVE  /\ recordCall'[d].at # "container" => containers[s] = NoContainer
              /\ recordCall'[d].at = "slug" => workspaces[s] = NoWorkspace
  <3>1. CASE d = c BY <1>1, <2>2, <3>1 DEF Entering
  <3>2. CASE d # c BY <1>1, <2>1, <2>2, <3>2 DEF SpaceSound, SlugOf, Step
  <3> QED BY <3>1, <3>2
 <2>3. ASSUME NEW d \in RecordCalls, recordCall'[d].op = "start", recordCall'[d].slug = s,
              recordCall'[d].at = "ensure", ~recordCall'[d].flag
       PROVE  containers[s].there
  <3>1. CASE d = c BY <1>1, <2>3, <3>1 DEF Entering
  <3>2. CASE d # c BY <1>1, <2>1, <2>3, <3>2 DEF SpaceSound, SlugOf, Step
  <3> QED BY <3>1, <3>2
 <2> QED BY <1>2, <2>1, <2>2, <2>3 DEF SpaceSound, SlugOf, Step, NoContainer, NoWorkspace
<1>16. ASSUME NEW j \in ProjectIds \ {id}, j <= projectsMade PROVE ProjectSound(j)'
 <2>1. ProjectSound(j) BY <1>16 DEF RecordsSound
 <2>2. j # 0 BY RecordFacts DEF ProjectIds
 <2>3. \A d \in RecordCalls : IdOf(d) = j \/ recordCall'[d].id = j => recordCall'[d] = recordCall[d] BY <1>1, <1>7, <2>2 DEF IdOf
 <2> QED BY <1>2, <1>4, <2>1, <2>3, OthersSame
<1>17. ASSUME NEW j \in ProjectIds, ~(j <= projectsMade) PROVE FreshSound(j)'
 <2>1. FreshSound(j) /\ j # id BY <1>1, <1>17 DEF RecordsSound, RecordsTypeOK
 <2> QED BY <1>2, <1>4, <2>1 DEF FreshSound
<1>18. ASSUME NEW ops
       PROVE  /\ \A d \in RecordCalls : On(d, id, ops) => d # c
              /\ \A d \in RecordCalls : d # c => (On(d, id, ops)' <=> On(d, id, ops))
              /\ On(c, id, ops)' <=> op \in ops
              /\ ~Others(c, id, ops) => \A d \in RecordCalls : ~On(d, id, ops)
 BY <1>1, <1>7 DEF On, IdOf, Others
<1>19. /\ \A d \in RecordCalls \ {c} : recordCall'[d] = recordCall[d]
       /\ Step(c)' = at /\ ValueOf(c)' = value /\ recordCall'[c].flag = flag
 BY <1>1 DEF Step, ValueOf
<1>20. LeftSound(id)'
 <2> DEFINE left == "left" \in excused'[id]
 <2>1. CASE left BY <2>1 DEF LeftSound
 <2>2. CASE ~left
  <3>1. /\ \A d, e \in RecordCalls : ~(On(d, id, Adding) /\ On(e, id, {"delete"}))
        /\ op \in Adding => \A d \in RecordCalls : ~On(d, id, {"delete"})
        /\ op = "delete" => \A d \in RecordCalls : ~On(d, id, Adding)
   BY <1>4, <1>6, <1>18, <2>2 DEF ProjectSound, LeftSound
  <3>2. \A d \in RecordCalls : On(d, id, {"delete"}) =>
          /\ Step(d) \notin {"container", "secrets"} => secrets[id] = 0
          /\ Step(d) \notin {"container", "secrets", "access"} => members[id] = {}
   BY <1>4, <1>6, <2>2 DEF ProjectSound, LeftSound
  <3>3. \A d, e \in RecordCalls : ~(On(d, id, Adding)' /\ On(e, id, {"delete"})')
   <4>1. ~(op \in Adding /\ op = "delete") BY DEF Adding
   <4> QED BY <1>18, <3>1, <4>1
  <3>4. op = "delete" => at = "container" BY DEF Entering
  <3>5. \A d \in RecordCalls : On(d, id, {"delete"})' =>
          /\ Step(d)' \notin {"container", "secrets"} => secrets'[id] = 0
          /\ Step(d)' \notin {"container", "secrets", "access"} => members'[id] = {}
   BY <1>2, <1>18, <1>19, <3>2, <3>4 DEF Step
  <3> QED BY <1>1, <1>2, <3>3, <3>5 DEF LeftSound
 <2> QED BY <2>1, <2>2
<1>21. FileSound(id) /\ EnvSound(id) /\ LimitSound(id) /\ MemberSound(id) BY <1>6 DEF LiveSound
<1> DEFINE box == containers[metas[id].slug]
<1>22. /\ metas'[id].slug = metas[id].slug /\ metas'[id].limits = metas[id].limits /\ secrets'[id] = secrets[id]
       /\ members'[id] = members[id] /\ containers'[metas[id].slug] = box
       /\ workspaces'[metas[id].slug].env = workspaces[metas[id].slug].env
       /\ soiled' = soiled
 BY <1>2
<1>23. FileSound(id)'
 <2>1. CASE "file" \in excused'[id] \/ metas[id].slug \in soiled BY <2>1, <1>22 DEF FileSound, Excused
 <2>2. CASE "file" \notin excused'[id] /\ metas[id].slug \notin soiled
  <3>1. CASE op \in Setting
   <4>1. \A d \in RecordCalls : ~On(d, id, EnvOps) /\ ~On(d, id, Setting)
    <5>1. ~Others(c, id, EnvOps) BY <1>4, <2>2, <3>1 DEF Setting, EnvOps
    <5>2. \A d \in RecordCalls : ~On(d, id, EnvOps) BY <1>18, <5>1
    <5> QED BY <1>1, <5>2, OnKinds
   <4>2. \A d \in RecordCalls : (On(d, id, EnvOps)' => d = c) /\ (On(d, id, Setting)' => d = c) BY <1>18, <4>1
   <4>3. On(c, id, Setting)' /\ at = "store" BY <1>18, <3>1 DEF Entering, Setting
   <4> QED BY <4>2, <4>3, <1>19 DEF FileSound, Alone
  <3>2. CASE op \notin Setting
   <4>1. ~Excused(id, "file") BY <1>4, <2>2, <3>2 DEF Excused
   <4>2. /\ Alone(id, EnvOps)
         /\ (\A d \in RecordCalls : On(d, id, Setting) => Step(d) = "apply") =>
              workspaces[metas[id].slug].env = secrets[id]
         /\ \A d \in RecordCalls : On(d, id, Setting) /\ Step(d) = "file" => recordCall[d].listed = secrets[id]
    BY <4>1, <1>21 DEF FileSound
   <4>3. Alone(id, EnvOps)'
    <5>1. CASE op \in EnvOps
     <6>1. \A d \in RecordCalls : ~On(d, id, EnvOps) BY <1>4, <1>18, <2>2, <5>1
     <6> QED BY <1>18, <6>1 DEF Alone
    <5>2. CASE op \notin EnvOps BY <1>18, <4>2, <5>2 DEF Alone
    <5> QED BY <5>1, <5>2
   <4>4. \A d \in RecordCalls : On(d, id, Setting)' <=> On(d, id, Setting) BY <1>18, <3>2
   <4>5. \A d \in RecordCalls : On(d, id, Setting) => Step(d)' = Step(d) /\ recordCall'[d].listed = recordCall[d].listed
    BY <1>18, <1>19 DEF Step
   <4> QED BY <4>2, <4>3, <4>4, <4>5, <1>22 DEF FileSound
  <3> QED BY <3>1, <3>2
 <2> QED BY <2>1, <2>2
<1>24. EnvSound(id)'
 <2>1. CASE "env" \in excused'[id] \/ metas[id].slug \in soiled BY <2>1, <1>22 DEF EnvSound, Excused
 <2>2. CASE "env" \notin excused'[id] /\ metas[id].slug \notin soiled
  <3>1. CASE op \in EnvOps
   <4>1. \A d \in RecordCalls : ~On(d, id, EnvOps) BY <1>4, <1>18, <2>2, <3>1
   <4>2. \A d \in RecordCalls : On(d, id, EnvOps)' => d = c BY <1>18, <4>1
   <4>3. \A d \in RecordCalls : (On(d, id, Setting)' => d = c) /\ (On(d, id, Launching)' => d = c) BY <1>1, <4>2, OnKinds
   <4>4. On(c, id, EnvOps)' /\ (On(c, id, Setting)' => at = "store") /\ (On(c, id, Launching)' => at \notin {"list", "apply"})
    <5>1. (op \in Setting => at = "store") /\ (op \in Launching => at \notin {"list", "apply"})
     BY DEF Entering, Setting, Launching
    <5> QED BY <1>18, <3>1, <5>1
   <4>5. at \in {"seed", "ensure"} => (box.there => box.env = secrets[id])
    <5>1. CASE op = "start"
     <6>1. ~Excused(id, "env") BY <1>4, <2>2, <5>1 DEF Excused, Setting
     <6> QED BY <6>1, <1>21, <4>1 DEF EnvSound
    <5>2. CASE op # "start" BY <5>2, <1>3, <3>1 DEF Entering, EnvOps
    <5> QED BY <5>1, <5>2
   <4>6. Alone(id, EnvOps)' BY <4>2 DEF Alone
   <4>7. (\A d \in RecordCalls : On(d, id, EnvOps)' => Step(d)' \in {"seed", "ensure"}) => (box.there => box.env = secrets[id])
    BY <4>4, <4>5, <1>19
   <4>8. \A d \in RecordCalls : ~(On(d, id, Setting)' /\ Step(d)' # "store") /\ ~(On(d, id, Launching)' /\ Step(d)' \in {"list", "apply"})
    BY <4>3, <4>4, <1>19
   <4> HIDE DEF box
   <4> QED BY <4>6, <4>7, <4>8, <1>22 DEF EnvSound
  <3>2. CASE op \notin EnvOps
   <4>1. ~Excused(id, "env") BY <1>4, <2>2, <3>2 DEF Excused, Setting, EnvOps
   <4>2. /\ Alone(id, EnvOps)
         /\ (\A d \in RecordCalls : On(d, id, EnvOps) => Step(d) \in {"seed", "ensure"}) => (box.there => box.env = secrets[id])
         /\ \A d \in RecordCalls : On(d, id, Setting) /\ Step(d) # "store" =>
              ValueOf(d) = secrets[id] \/ ~box.there
         /\ \A d \in RecordCalls : On(d, id, Launching) /\ Step(d) \in {"list", "apply"} =>
              /\ box.env \in {0, secrets[id]}
              /\ Step(d) = "apply" => ValueOf(d) = secrets[id] \/ ~box.there
    BY <4>1, <1>21 DEF EnvSound
   <4>3. op \notin Setting /\ op \notin Launching BY <3>2 DEF Setting, Launching, EnvOps
   <4>4. \A d \in RecordCalls : /\ On(d, id, EnvOps)' <=> On(d, id, EnvOps)
                                /\ On(d, id, Setting)' <=> On(d, id, Setting)
                                /\ On(d, id, Launching)' <=> On(d, id, Launching)
    BY <1>18, <3>2, <4>3
   <4>5. \A d \in RecordCalls : On(d, id, EnvOps) => Step(d)' = Step(d) /\ ValueOf(d)' = ValueOf(d)
    BY <1>18, <1>19 DEF Step, ValueOf
   <4>6. \A d \in RecordCalls : On(d, id, Setting) \/ On(d, id, Launching) => On(d, id, EnvOps) BY <1>1, OnKinds
   <4>7. Alone(id, EnvOps)' BY <4>2, <4>4 DEF Alone
   <4> HIDE DEF box
   <4> QED BY <4>2, <4>4, <4>5, <4>6, <4>7, <1>22 DEF EnvSound
  <3> QED BY <3>1, <3>2
 <2> QED BY <2>1, <2>2
<1>25. LimitSound(id)'
 <2>1. CASE "limits" \in excused'[id] \/ metas[id].slug \in soiled BY <2>1, <1>22 DEF LimitSound, Excused
 <2>2. CASE "limits" \notin excused'[id] /\ metas[id].slug \notin soiled
  <3>1. CASE op \in LimitOps
   <4>1. \A d \in RecordCalls : ~On(d, id, LimitOps) BY <1>4, <1>18, <2>2, <3>1
   <4>2. \A d \in RecordCalls : On(d, id, LimitOps)' => d = c BY <1>18, <4>1
   <4>3. \A d \in RecordCalls : (On(d, id, {"limit"})' => d = c) /\ (On(d, id, Launching)' => d = c) BY <1>1, <4>2, OnKinds
   <4>4. Alone(id, LimitOps)' BY <4>2 DEF Alone
   <4>5. On(c, id, {"limit"})' <=> op = "limit" BY <1>18
   <4>6. op # "limit" => (box.there => box.limits = metas[id].limits)
    <5> SUFFICES ASSUME op # "limit" PROVE box.there => box.limits = metas[id].limits OBVIOUS
    <5>1. ~Excused(id, "limits") BY <1>4, <2>2 DEF Excused
    <5>2. \A d \in RecordCalls : ~On(d, id, {"limit"}) BY <1>1, <4>1, OnKinds
    <5> QED BY <5>1, <5>2, <1>21 DEF LimitSound
   <4>7. On(c, id, Launching)' => value = metas[id].limits
    <5>1. op \in Launching => value = metas[id].limits BY <1>3 DEF Entering, Launching
    <5> QED BY <1>18, <5>1
   <4>8. op = "limit" /\ at = "record" => ~box.there BY DEF Entering
   <4> HIDE DEF box
   <4> QED BY <4>3, <4>4, <4>5, <4>6, <4>7, <4>8, <1>19, <1>22 DEF LimitSound
  <3>2. CASE op \notin LimitOps
   <4>1. ~Excused(id, "limits") BY <1>4, <2>2, <3>2 DEF Excused, LimitOps
   <4>2. /\ Alone(id, LimitOps)
         /\ (\A d \in RecordCalls : ~On(d, id, {"limit"})) => (box.there => box.limits = metas[id].limits)
         /\ \A d \in RecordCalls : On(d, id, Launching) /\ Step(d) \in {"seed", "drop", "ensure"} =>
              ValueOf(d) = metas[id].limits
         /\ \A d \in RecordCalls : On(d, id, {"limit"}) /\ Step(d) = "record" => (box.there => box.limits = ValueOf(d))
    BY <4>1, <1>21 DEF LimitSound
   <4>3. op # "limit" /\ op \notin Launching BY <3>2 DEF Launching, LimitOps
   <4>4. \A d \in RecordCalls : /\ On(d, id, LimitOps)' <=> On(d, id, LimitOps)
                                /\ On(d, id, {"limit"})' <=> On(d, id, {"limit"})
                                /\ On(d, id, Launching)' <=> On(d, id, Launching)
    BY <1>18, <3>2, <4>3
   <4>5. \A d \in RecordCalls : On(d, id, LimitOps) => Step(d)' = Step(d) /\ ValueOf(d)' = ValueOf(d)
    BY <1>18, <1>19 DEF Step, ValueOf
   <4>6. \A d \in RecordCalls : On(d, id, {"limit"}) \/ On(d, id, Launching) => On(d, id, LimitOps) BY <1>1, OnKinds
   <4>7. Alone(id, LimitOps)' BY <4>2, <4>4 DEF Alone
   <4> HIDE DEF box
   <4> QED BY <4>2, <4>4, <4>5, <4>6, <4>7, <1>22 DEF LimitSound
  <3> QED BY <3>1, <3>2
 <2> QED BY <2>1, <2>2
<1>26. MemberSound(id)'
 <2>1. CASE "members" \in excused'[id] \/ metas[id].slug \in soiled BY <2>1, <1>22 DEF MemberSound, Excused
 <2>2. CASE "members" \notin excused'[id] /\ metas[id].slug \notin soiled
  <3>1. ~Excused(id, "members") BY <1>4, <2>2 DEF Excused
  <3>2. /\ Alone(id, {"leave"})
        /\ (\A d \in RecordCalls : On(d, id, {"create"}) => Step(d) # "seed") => members[id] # {}
        /\ \A d \in RecordCalls : On(d, id, {"leave"}) /\ ~recordCall[d].flag => Cardinality(members[id]) > 1
   BY <3>1, <1>21 DEF MemberSound
  <3>3. op = "leave" => \A d \in RecordCalls : ~On(d, id, {"leave"}) BY <1>4, <1>18, <2>2
  <3>4. Alone(id, {"leave"})'
   <4>1. \A d \in RecordCalls : On(d, id, {"leave"})' => \/ d = c /\ op = "leave"
                                                        \/ On(d, id, {"leave"})
    BY <1>18
   <4> QED BY <3>2, <3>3, <4>1, <1>18 DEF Alone
  <3>5. \A d \in RecordCalls : On(d, id, {"create"})' <=> On(d, id, {"create"}) BY <1>3, <1>18
  <3>6. \A d \in RecordCalls : On(d, id, {"create"}) => Step(d)' = Step(d) BY <1>18, <1>19 DEF Step
  <3>7. op = "leave" => (flag \/ Cardinality(members[id]) > 1) BY DEF Entering
  <3>8. ASSUME NEW d \in RecordCalls, On(d, id, {"leave"})', ~recordCall'[d].flag
        PROVE  Cardinality(members[id]) > 1
   <4>1. CASE d = c BY <1>18, <1>19, <3>7, <3>8, <4>1
   <4>2. CASE d # c BY <1>18, <1>19, <3>2, <3>8, <4>2
   <4> QED BY <4>1, <4>2
  <3> QED BY <3>2, <3>4, <3>5, <3>6, <3>8, <1>22 DEF MemberSound
 <2> QED BY <2>1, <2>2
<1>27. ProjectSound(id)' BY <1>2, <1>6, <1>20, <1>23, <1>24, <1>25, <1>26 DEF ProjectSound, LiveSound
<1>28. \A j \in ProjectIds : IF j <= projectsMade' THEN ProjectSound(j)' ELSE FreshSound(j)' BY <1>2, <1>16, <1>17, <1>27
<1> QED BY <1>5, <1>13, <1>14, <1>15, <1>28 DEF RecordsSound

LEMMA EntersSound ==
  ASSUME RecordsSound, NEW c \in RecordCalls,
         \/ StartProject(c) \/ UpgradeProject(c) \/ SetSecret(c) \/ SetLimits(c)
         \/ Join(c) \/ Leave(c) \/ DeleteProject(c)
  PROVE  RecordsSound'
<1> DEFINE yes == TRUE
            no == FALSE
<1>0. yes \in BOOLEAN /\ no \in BOOLEAN /\ yes /\ ~no OBVIOUS
<1> HIDE DEF yes, no
<1>1. RecordsTypeOK /\ 0 \in 0..MaxRecordCalls BY RecordFacts DEF RecordsSound
<1>2. ASSUME NEW id \in Live PROVE metas[id].limits \in 0..MaxRecordCalls BY <1>1, RecordFacts DEF RecordsTypeOK, Live, Metas
<1>3. recordCalls < MaxRecordCalls => recordCalls + 1 \in 0..MaxRecordCalls /\ recordCalls + 1 # 0
 BY <1>1, RecordFacts DEF RecordsTypeOK
<1>4. CASE StartProject(c)
 <2> DEFINE missing(id) == ~containers[metas[id].slug].there
 <2>1. PICK id \in Live \ runState :
         /\ Begins(c, "start", id, "ensure", metas[id].limits, missing(id))
         /\ runState' = runState \cup {id}
  BY <1>4 DEF StartProject
 <2>2. missing(id) \in BOOLEAN OBVIOUS
 <2>3. Entering("start", id, "ensure", metas[id].limits, missing(id)) BY DEF Entering
 <2> HIDE DEF missing
 <2> QED BY <1>2, <2>1, <2>2, <2>3, BeginsSound DEF Locking
<1>5. CASE UpgradeProject(c)
 <2> DEFINE at(id) == IF containers[metas[id].slug].there THEN "drop" ELSE "ensure"
 <2>1. PICK id \in Live \ runState :
         /\ Begins(c, "upgrade", id, at(id), metas[id].limits, yes)
         /\ runState' = runState \cup {id}
  BY <1>5 DEF UpgradeProject, yes
 <2>2. Entering("upgrade", id, at(id), metas[id].limits, yes) BY <1>0 DEF Entering
 <2> HIDE DEF at
 <2> QED BY <1>0, <1>2, <2>1, <2>2, BeginsSound DEF Locking
<1>6. CASE SetSecret(c)
 <2>1. PICK id \in Live : \/ Begins(c, "set", id, "store", recordCalls + 1, no)
                          \/ Begins(c, "unset", id, "store", 0, no)
  BY <1>6 DEF SetSecret, no
 <2>2. runState' = runState BY <1>6 DEF SetSecret
 <2>3. CASE Begins(c, "set", id, "store", recordCalls + 1, no)
  <3>1. recordCalls < MaxRecordCalls BY <2>3 DEF Begins
  <3>2. Entering("set", id, "store", recordCalls + 1, no) BY <1>3, <3>1 DEF Entering
  <3> QED BY <1>0, <1>3, <2>2, <2>3, <3>1, <3>2, BeginsSound DEF Locking
 <2>4. CASE Begins(c, "unset", id, "store", 0, no)
  <3>1. Entering("unset", id, "store", 0, no) BY DEF Entering
  <3> QED BY <1>0, <1>1, <2>2, <2>4, <3>1, BeginsSound DEF Locking
 <2> QED BY <2>1, <2>3, <2>4
<1>7. CASE SetLimits(c)
 <2> DEFINE at(id) == IF containers[metas[id].slug].there THEN "instance" ELSE "record"
 <2>1. PICK id \in Live, value \in {0, recordCalls + 1} : Begins(c, "limit", id, at(id), value, yes) BY <1>7 DEF SetLimits, yes
 <2>2. runState' = runState BY <1>7 DEF SetLimits
 <2>3. value \in 0..MaxRecordCalls
  <3>1. recordCalls < MaxRecordCalls BY <2>1 DEF Begins
  <3> QED BY <1>1, <1>3, <3>1
 <2>4. Entering("limit", id, at(id), value, yes) BY DEF Entering
 <2> HIDE DEF at
 <2> QED BY <1>0, <2>1, <2>2, <2>3, <2>4, BeginsSound DEF Locking
<1>8. CASE Join(c)
 <2>1. PICK id \in Live : Begins(c, "join", id, "add", 0, no) BY <1>8 DEF Join, no
 <2>2. runState' = runState BY <1>8 DEF Join
 <2>3. Entering("join", id, "add", 0, no) BY DEF Entering
 <2> QED BY <1>0, <1>1, <2>1, <2>2, <2>3, BeginsSound DEF Locking
<1>9. CASE Leave(c)
 <2>1. PICK id \in Live, adm \in BOOLEAN : MayRemove(id, adm) /\ Begins(c, "leave", id, "remove", 0, adm) BY <1>9 DEF Leave
 <2>2. runState' = runState BY <1>9 DEF Leave
 <2>3. Entering("leave", id, "remove", 0, adm) BY <2>1 DEF Entering, MayRemove
 <2> QED BY <1>1, <2>1, <2>2, <2>3, BeginsSound DEF Locking
<1>10. CASE DeleteProject(c)
 <2>1. DeletionOrder[1] = "container" BY DEF DeletionOrder
 <2>2. PICK id \in Live \ runState : Begins(c, "delete", id, "container", 0, yes) /\ runState' = runState \cup {id}
  BY <1>10, <2>1 DEF DeleteProject, yes
 <2>3. Entering("delete", id, "container", 0, yes) BY DEF Entering
 <2> QED BY <1>0, <1>1, <2>2, <2>3, BeginsSound DEF Locking
<1> QED BY <1>4, <1>5, <1>6, <1>7, <1>8, <1>9, <1>10

LEMMA RenameSound ==
  ASSUME RecordsSound, NEW c \in RecordCalls, RenameProject(c)
  PROVE  RecordsSound'
<1>1. RecordsTypeOK /\ RequestsSound /\ IndexSound BY DEF RecordsSound
<1>2. UNCHANGED <<bySlug, workspaces, containers, secrets, members, runState, recordCall,
                 projectsMade, recordFaults, soiled, excused>>
 BY DEF RenameProject
<1>3. PICK id \in Live, name \in ProjectNames :
        /\ ~NameTaken(name, id) /\ metas' = [metas EXCEPT ![id].name = name]
 BY DEF RenameProject
<1>4. metas[id] \in Metas /\ id \in ProjectIds /\ metas[id] # NoMeta BY <1>1 DEF RecordsTypeOK, Live
<1> DEFINE new == [metas[id] EXCEPT !.name = name]
<1>5. new \in Metas /\ new.slug = metas[id].slug /\ new.limits = metas[id].limits /\ new.name = name BY <1>4 DEF Metas
<1>6. metas' = [metas EXCEPT ![id] = new] BY <1>3
<1> HIDE DEF new
<1>7. /\ metas' \in [ProjectIds -> Metas \cup {NoMeta}] /\ metas'[id] = new /\ new # NoMeta
      /\ \A j \in ProjectIds \ {id} : metas'[j] = metas[j]
 BY <1>1, <1>4, <1>5, <1>6, RecordFacts DEF RecordsTypeOK
<1>8. \A j \in ProjectIds : /\ metas'[j] = NoMeta <=> metas[j] = NoMeta
                            /\ metas'[j].slug = metas[j].slug /\ metas'[j].limits = metas[j].limits
 BY <1>4, <1>5, <1>7
<1>9. RecordsTypeOK'
 <2>1. recordCalls' \in 0..MaxRecordCalls BY <1>1, RecordFacts DEF RenameProject, RecordsTypeOK
 <2> QED BY <1>1, <1>2, <1>7, <2>1 DEF RecordsTypeOK
<1>10. ASSUME NEW d \in RecordCalls PROVE StageSound(d)' /\ RequestSound(d)' /\ LockSound(d)'
 <2>1. StageSound(d) /\ RequestSound(d) /\ LockSound(d) BY <1>1 DEF RequestsSound
 <2>2. recordCall[d].op # "none" => IdOf(d) \in ProjectIds BY CallFacts
 <2>3. StageSound(d)' /\ RequestSound(d)' BY <1>2, <1>8, <2>1, <2>2 DEF StageSound, RequestSound, Step, IdOf, SlugOf, ValueOf
 <2>4. LockSound(d)' BY <1>2, <1>8, <2>1, <2>2 DEF LockSound, Locking, Step, IdOf, SlugOf
 <2> QED BY <2>3, <2>4
<1>11. IndexSound'
 <2>1. Live' = Live BY <1>8 DEF Live
 <2>2. \A j \in Live : j <= projectsMade /\ bySlug[metas'[j].slug] = j BY <1>1, <1>8 DEF IndexSound, Live
 <2>3. ASSUME NEW s \in Slugs, bySlug[s] # 0
       PROVE  /\ bySlug[s] \in 1..projectsMade
              /\ metas'[bySlug[s]] # NoMeta => metas'[bySlug[s]].slug = s
              /\ metas'[bySlug[s]] = NoMeta => \E d \in RecordCalls :
                   recordCall[d].op = "delete" /\ IdOf(d) = bySlug[s] /\ SlugOf(d) = s
  <3>1. bySlug[s] \in 1..projectsMade BY <1>1, <2>3 DEF IndexSound
  <3>2. bySlug[s] \in ProjectIds BY <3>1, <1>1, RecordFacts DEF RecordsTypeOK, ProjectIds
  <3> QED BY <1>1, <1>8, <2>3, <3>2 DEF IndexSound
 <2>4. ASSUME NEW j \in Live, j # id PROVE metas[j].name # name
  <3>1. metas[j] \in Metas /\ bySlug[metas[j].slug] = j /\ j # 0 /\ metas[j] # NoMeta
   BY <1>1, RecordFacts DEF RecordsTypeOK, IndexSound, Live, ProjectIds
  <3>2. metas[j].slug \in Slugs BY <3>1 DEF Metas
  <3> QED BY <1>3, <2>4, <3>1, <3>2 DEF NameTaken
 <2>5. ASSUME NEW i \in Live, NEW j \in Live, i # j PROVE metas'[i].name # metas'[j].name
  <3>1. i \in ProjectIds /\ j \in ProjectIds /\ metas[i].name # metas[j].name BY <1>1, <2>5 DEF Live, IndexSound
  <3>2. CASE i = id BY <3>1, <3>2, <1>5, <1>7, <2>4, <2>5
  <3>3. CASE j = id BY <3>1, <3>3, <1>5, <1>7, <2>4, <2>5
  <3>4. CASE i # id /\ j # id BY <3>1, <3>4, <1>7
  <3> QED BY <3>2, <3>3, <3>4
 <2> QED BY <1>2, <2>1, <2>2, <2>3, <2>5 DEF IndexSound, IdOf, SlugOf
<1>12. ASSUME NEW s \in Slugs PROVE SpaceSound(s)'
 <2>1. SpaceSound(s) BY DEF RecordsSound
 <2> QED BY <1>2, <2>1 DEF SpaceSound, Step, SlugOf, NoContainer, NoWorkspace
<1>13. ASSUME NEW j \in ProjectIds, j <= projectsMade PROVE ProjectSound(j)'
 <2>1. ProjectSound(j) BY <1>13 DEF RecordsSound
 <2> QED BY <1>2, <1>8, <2>1, OthersSame
<1>14. ASSUME NEW j \in ProjectIds, ~(j <= projectsMade) PROVE FreshSound(j)'
 <2>1. FreshSound(j) BY <1>14 DEF RecordsSound
 <2> QED BY <1>2, <1>8, <2>1 DEF FreshSound
<1> QED BY <1>2, <1>9, <1>10, <1>11, <1>12, <1>13, <1>14 DEF RecordsSound, RequestsSound

----
\* A project is created.

LEMMA SmallestExists ==
  ASSUME NEW S \in SUBSET Nat, S # {}
  PROVE  Min(S) \in S
<1>1. PICK x \in S : \A y \in S : <<y, x>> \notin OpToRel(<, Nat) BY NatLessThanWellFounded, WFMin
<1>2. \A y \in S : ~(y < x) BY <1>1 DEF OpToRel
<1>3. \A y \in S : x <= y BY <1>2
<1> QED BY <1>3 DEF Min

\* As long as a project may still be created, a slug is free.
LEMMA SlugIsFree ==
  ASSUME RecordsSound, projectsMade < MaxProjects
  PROVE  FreeSlug \in Slugs /\ bySlug[FreeSlug] = 0
<1>1. RecordsTypeOK /\ RequestsSound /\ IndexSound BY DEF RecordsSound
<1>2. ASSUME \A s \in Slugs : bySlug[s] # 0
      PROVE  FALSE
 <2>1. bySlug \in [Slugs -> 1..projectsMade] BY <1>1, <1>2 DEF RecordsTypeOK, IndexSound
 <2>2. IsFiniteSet(Slugs) /\ IsFiniteSet(1..projectsMade) /\ Cardinality(1..projectsMade) < Cardinality(Slugs)
  <3>1. projectsMade \in Nat /\ MaxProjects \in Nat /\ 1 \in Int /\ projectsMade \in Int /\ MaxProjects \in Int
   BY <1>1, RecordFacts DEF RecordsTypeOK
  <3>2. /\ IsFiniteSet(1..projectsMade) /\ IsFiniteSet(1..MaxProjects)
        /\ Cardinality(1..projectsMade) = (IF 1 > projectsMade THEN 0 ELSE projectsMade - 1 + 1)
        /\ Cardinality(1..MaxProjects) = (IF 1 > MaxProjects THEN 0 ELSE MaxProjects - 1 + 1)
   BY <3>1, FS_Interval
  <3>3. Cardinality(1..projectsMade) = projectsMade /\ Cardinality(1..MaxProjects) = MaxProjects BY <3>1, <3>2
  <3> QED BY <3>2, <3>3 DEF Slugs
 <2>3. PICK s, t \in Slugs : s # t /\ bySlug[s] = bySlug[t] BY <2>1, <2>2, FS_PigeonHole
 <2>4. /\ metas[bySlug[s]] # NoMeta => metas[bySlug[s]].slug = s
       /\ metas[bySlug[s]] = NoMeta => \E d \in RecordCalls :
           recordCall[d].op = "delete" /\ IdOf(d) = bySlug[s] /\ SlugOf(d) = s
       /\ metas[bySlug[t]] # NoMeta => metas[bySlug[t]].slug = t
       /\ metas[bySlug[t]] = NoMeta => \E d \in RecordCalls :
           recordCall[d].op = "delete" /\ IdOf(d) = bySlug[t] /\ SlugOf(d) = t
  BY <1>1, <1>2 DEF IndexSound
 <2>5. metas[bySlug[s]] = NoMeta BY <2>3, <2>4
 <2>6. PICK d \in RecordCalls : recordCall[d].op = "delete" /\ IdOf(d) = bySlug[s] /\ SlugOf(d) = s BY <2>4, <2>5
 <2>7. PICK e \in RecordCalls : recordCall[e].op = "delete" /\ IdOf(e) = bySlug[t] /\ SlugOf(e) = t BY <2>3, <2>4, <2>5
 <2>8. e = d BY <1>1, <2>3, <2>6, <2>7 DEF RequestsSound, LockSound, Locking
 <2> QED BY <2>3, <2>6, <2>7, <2>8
<1>3. {s \in Slugs : bySlug[s] = 0} \in SUBSET Nat /\ {s \in Slugs : bySlug[s] = 0} # {} BY <1>2 DEF Slugs
<1> QED BY <1>3, SmallestExists DEF FreeSlug

LEMMA CreateSound ==
  ASSUME RecordsSound, NEW c \in RecordCalls, CreateProject(c)
  PROVE  RecordsSound'
<1>1. RecordsTypeOK /\ RequestsSound /\ IndexSound BY DEF RecordsSound
<1>2. /\ recordCall[c] = IdleCall /\ recordCalls < MaxRecordCalls /\ projectsMade < MaxProjects
      /\ bySlug' = [bySlug EXCEPT ![FreeSlug] = projectsMade + 1]
      /\ recordCall' = [recordCall EXCEPT ![c] = [IdleCall EXCEPT
           !.op = "create", !.id = projectsMade + 1, !.slug = FreeSlug, !.at = "seed", !.flag = TRUE]]
      /\ projectsMade' = projectsMade + 1 /\ recordCalls' = recordCalls + 1
      /\ UNCHANGED <<workspaces, containers, secrets, members, runState, recordFaults, soiled, excused>>
 BY DEF CreateProject
<1>3. PICK slug \in Slugs : slug = FreeSlug /\ bySlug[slug] = 0 BY <1>2, SlugIsFree
<1>4. PICK id \in ProjectIds : id = projectsMade + 1 BY <1>1, <1>2, RecordFacts DEF RecordsTypeOK, ProjectIds
<1>5. /\ ~(id <= projectsMade) /\ id # 0 /\ id \in 0..MaxProjects /\ slug \in 0..MaxProjects
      /\ 0 \in 0..MaxRecordCalls /\ projectsMade' \in 0..MaxProjects /\ recordCalls' \in 0..MaxRecordCalls
      /\ \A j \in ProjectIds : j <= projectsMade' <=> j <= projectsMade \/ j = id
      /\ \A j \in 1..projectsMade : j \in 1..projectsMade' /\ j # id /\ j \in ProjectIds
      /\ id \in 1..projectsMade'
 <2>1. /\ projectsMade \in Nat /\ MaxProjects \in Nat /\ MaxRecordCalls \in Nat /\ recordCalls \in Nat
       /\ projectsMade < MaxProjects /\ recordCalls < MaxRecordCalls
       /\ projectsMade' = projectsMade + 1 /\ recordCalls' = recordCalls + 1 /\ id = projectsMade + 1
  BY <1>1, <1>2, <1>4, RecordFacts DEF RecordsTypeOK
 <2>2. slug \in 0..MaxProjects BY <2>1 DEF Slugs
 <2> QED BY <2>1, <2>2 DEF ProjectIds
<1>6. FreshSound(id) BY <1>5 DEF RecordsSound
<1>7. PICK name \in ProjectNames :
        /\ ~NameTaken(name, 0)
        /\ metas' = [metas EXCEPT ![id] = [name |-> name, slug |-> slug, limits |-> 0]]
 BY <1>3, <1>4 DEF CreateProject
<1>8. /\ metas' \in [ProjectIds -> Metas \cup {NoMeta}] /\ metas'[id] # NoMeta
      /\ metas'[id].name = name /\ metas'[id].slug = slug /\ metas'[id].limits = 0
      /\ \A j \in ProjectIds \ {id} : metas'[j] = metas[j]
 <2> DEFINE new == [name |-> name, slug |-> slug, limits |-> 0]
 <2>1. new \in Metas /\ new.name = name /\ new.slug = slug /\ new.limits = 0 BY <1>5 DEF Metas
 <2>2. metas' = [metas EXCEPT ![id] = new] BY <1>7
 <2> HIDE DEF new
 <2> QED BY <1>1, <2>1, <2>2, RecordFacts DEF RecordsTypeOK
<1>9. /\ bySlug' \in [Slugs -> 0..MaxProjects] /\ bySlug'[slug] = id
      /\ \A s \in Slugs \ {slug} : bySlug'[s] = bySlug[s]
 BY <1>1, <1>2, <1>3, <1>4, <1>5 DEF RecordsTypeOK
<1>10. /\ recordCall' \in [RecordCalls -> RecordRequests]
       /\ \A d \in RecordCalls \ {c} : recordCall'[d] = recordCall[d]
       /\ recordCall'[c].op = "create" /\ recordCall'[c].id = id /\ recordCall'[c].slug = slug
       /\ recordCall'[c].at = "seed" /\ recordCall'[c].value = 0 /\ recordCall'[c].flag
 <2> DEFINE yes == TRUE
 <2>0. yes \in BOOLEAN /\ yes OBVIOUS
 <2> DEFINE new == [IdleCall EXCEPT !.op = "create", !.id = id, !.slug = slug, !.at = "seed", !.flag = yes]
 <2>1. recordCall' = [recordCall EXCEPT ![c] = new] BY <1>2, <1>3, <1>4
 <2> HIDE DEF yes
 <2>2. "create" \in RecordOps /\ "seed" \in Stages /\ IdleCall \in RecordRequests /\ IdleCall.value = 0
  BY IdleTyped DEF RecordOps, EnvOps, Stages, IdleCall
 <2>3. /\ new \in RecordRequests /\ new.op = "create" /\ new.id = id /\ new.slug = slug
       /\ new.at = "seed" /\ new.value = 0 /\ new.flag = yes
  BY <1>5, <2>0, <2>2 DEF RecordRequests
 <2>4. recordCall \in [RecordCalls -> RecordRequests] BY <1>1, RequestTypes
 <2> HIDE DEF new
 <2>5. /\ recordCall' \in [RecordCalls -> RecordRequests] /\ recordCall'[c] = new
       /\ \A d \in RecordCalls \ {c} : recordCall'[d] = recordCall[d]
  BY <2>1, <2>3, <2>4
 <2> QED BY <2>0, <2>3, <2>5
<1>11. RecordsTypeOK' BY <1>1, <1>2, <1>5, <1>8, <1>9, <1>10 DEF RecordsTypeOK, RecordRequests
<1>12. IdleCall.op = "none" /\ IdleCall.id = 0 BY IdleTyped
<1>13. StageSound(c)' /\ RequestSound(c)' /\ LockSound(c)'
 BY <1>5, <1>8, <1>10 DEF StageSound, RequestSound, LockSound, Locking, Setting, Step, IdOf, SlugOf, ValueOf
<1>14. ASSUME NEW d \in RecordCalls \ {c}
       PROVE  /\ recordCall'[d] = recordCall[d] /\ StageSound(d) /\ RequestSound(d) /\ LockSound(d)
              /\ recordCall[d].op # "none" => /\ IdOf(d) \in 1..projectsMade /\ IdOf(d) # id
                                              /\ metas'[IdOf(d)] = metas[IdOf(d)]
 <2>1. recordCall'[d] = recordCall[d] /\ StageSound(d) /\ RequestSound(d) /\ LockSound(d) BY <1>1, <1>10 DEF RequestsSound
 <2>2. recordCall[d].op # "none" => IdOf(d) \in 1..projectsMade BY <2>1 DEF RequestSound
 <2> QED BY <1>5, <1>8, <2>1, <2>2
<1>15. ASSUME NEW d \in RecordCalls \ {c}, recordCall[d].op \in {"start", "delete"}
       PROVE  SlugOf(d) # slug
 <2>1. recordCall[d].op # "none" /\ LockSound(d) /\ (metas[IdOf(d)] # NoMeta => bySlug[SlugOf(d)] = IdOf(d)) /\ IdOf(d) # 0
  BY <1>15, CallFacts
 <2>2. recordCall[d].op = "delete" => bySlug[SlugOf(d)] = IdOf(d) BY <2>1 DEF LockSound, Locking
 <2>3. recordCall[d].op = "start" => metas[IdOf(d)] # NoMeta BY <1>14, <2>1 DEF LockSound, Locking, StageSound
 <2> QED BY <1>3, <1>15, <2>1, <2>2, <2>3
<1>16. ASSUME NEW d \in RecordCalls \ {c} PROVE StageSound(d)' /\ RequestSound(d)' /\ LockSound(d)'
 <2>1. StageSound(d)' BY <1>14 DEF StageSound, Step
 <2>2. RequestSound(d)' BY <1>5, <1>14 DEF RequestSound, IdOf, SlugOf, ValueOf
 <2>3. LockSound(d)'
  <3> SUFFICES ASSUME recordCall[d].op \in Locking PROVE LockSound(d)' BY <1>14 DEF LockSound
  <3>1. recordCall[d].op # "none" BY DEF Locking
  <3>2. \A e \in RecordCalls : recordCall'[e].op \in Locking /\ recordCall'[e].id = IdOf(d) => e = d
   BY <1>10, <1>14 DEF LockSound, Locking, IdOf
  <3>3. recordCall[d].op = "delete" => bySlug'[SlugOf(d)] = IdOf(d) BY <1>9, <1>14, <1>15, <3>1 DEF LockSound, RequestSound
  <3> QED BY <1>2, <1>14, <3>1, <3>2, <3>3 DEF LockSound, IdOf, SlugOf, Step
 <2> QED BY <2>1, <2>2, <2>3
<1>17. RequestsSound' BY <1>13, <1>16 DEF RequestsSound
<1>18. IndexSound'
 <2>1. Live' = Live \cup {id} /\ id \notin Live BY <1>6, <1>8 DEF Live, FreshSound
 <2>2. ASSUME NEW j \in Live
       PROVE  /\ j <= projectsMade' /\ metas'[j] = metas[j] /\ j # 0 /\ bySlug[metas[j].slug] = j
              /\ metas[j].slug \in Slugs /\ metas[j].slug # slug /\ metas[j] # NoMeta
  <3>1. j <= projectsMade /\ bySlug[metas[j].slug] = j /\ j \in ProjectIds /\ metas[j] \in Metas /\ metas[j] # NoMeta
   BY <1>1 DEF IndexSound, RecordsTypeOK, Live
  <3>2. metas[j].slug \in Slugs /\ j # 0 BY <3>1, RecordFacts DEF Metas, ProjectIds
  <3> QED BY <1>3, <1>5, <1>8, <2>1, <3>1, <3>2
 <2>3. \A j \in Live' : j <= projectsMade' /\ bySlug'[metas'[j].slug] = j BY <1>5, <1>8, <1>9, <2>1, <2>2
 <2>4. \A j \in Live : metas[j].name # name
  <3> SUFFICES ASSUME NEW j \in Live, metas[j].name = name PROVE FALSE OBVIOUS
  <3>1. bySlug[metas[j].slug] = j /\ j # 0 /\ metas[j].slug \in Slugs /\ metas[j] # NoMeta BY <2>2
  <3> QED BY <1>7, <3>1 DEF NameTaken
 <2>5. \A i, j \in Live' : i # j => metas'[i].name # metas'[j].name BY <1>1, <1>8, <2>1, <2>2, <2>4 DEF IndexSound
 <2>6. ASSUME NEW s \in Slugs, bySlug'[s] # 0
       PROVE  /\ bySlug'[s] \in 1..projectsMade'
              /\ metas'[bySlug'[s]] # NoMeta => metas'[bySlug'[s]].slug = s
              /\ metas'[bySlug'[s]] = NoMeta => \E d \in RecordCalls :
                   recordCall'[d].op = "delete" /\ recordCall'[d].id = bySlug'[s] /\ recordCall'[d].slug = s
  <3>1. CASE s = slug BY <1>5, <1>8, <1>9, <3>1
  <3>2. CASE s # slug
   <4>1. /\ bySlug'[s] = bySlug[s] /\ bySlug[s] \in 1..projectsMade
         /\ metas[bySlug[s]] # NoMeta => metas[bySlug[s]].slug = s
         /\ metas[bySlug[s]] = NoMeta => \E d \in RecordCalls :
              recordCall[d].op = "delete" /\ IdOf(d) = bySlug[s] /\ SlugOf(d) = s
    BY <1>1, <1>9, <2>6, <3>2 DEF IndexSound
   <4>2. metas'[bySlug[s]] = metas[bySlug[s]] /\ bySlug[s] \in 1..projectsMade' BY <1>5, <1>8, <4>1
   <4>3. \A d \in RecordCalls : recordCall[d].op = "delete" => recordCall'[d] = recordCall[d] BY <1>2, <1>10, <1>12
   <4> QED BY <4>1, <4>2, <4>3 DEF IdOf, SlugOf
  <3> QED BY <3>1, <3>2
 <2> QED BY <2>3, <2>5, <2>6 DEF IndexSound, IdOf, SlugOf
<1>19. ASSUME NEW s \in Slugs PROVE SpaceSound(s)'
 <2>0. SpaceSound(s) BY DEF RecordsSound
 <2>1. \A d \in RecordCalls : recordCall'[d].op \in {"start", "delete"} => recordCall'[d] = recordCall[d] /\ d # c BY <1>10
 <2>2. CASE s # slug
  <3>1. bySlug'[s] = bySlug[s] /\ workspaces' = workspaces /\ containers' = containers /\ soiled' = soiled BY <1>2, <1>9, <2>2
  <3>2. ASSUME s \notin soiled, NEW d \in RecordCalls, recordCall'[d].op = "delete", recordCall'[d].slug = s
        PROVE  /\ recordCall'[d].at # "container" => containers[s] = NoContainer
               /\ recordCall'[d].at = "slug" => workspaces[s] = NoWorkspace
   BY <2>0, <2>1, <3>2 DEF SpaceSound, SlugOf, Step
  <3>3. ASSUME NEW d \in RecordCalls, recordCall'[d].op = "start", recordCall'[d].slug = s,
               recordCall'[d].at = "ensure", ~recordCall'[d].flag
        PROVE  containers[s].there
   BY <2>0, <2>1, <3>3 DEF SpaceSound, SlugOf, Step
  <3> QED BY <2>0, <3>1, <3>2, <3>3 DEF SpaceSound, SlugOf, Step, NoContainer, NoWorkspace
 <2>3. CASE s = slug
  <3>1. slug \notin soiled => workspaces[slug] = NoWorkspace /\ containers[slug] = NoContainer BY <1>3, <2>0, <2>3 DEF SpaceSound
  <3>2. \A d \in RecordCalls : ~(recordCall'[d].op \in {"start", "delete"} /\ recordCall'[d].slug = slug)
   BY <1>15, <2>1 DEF SlugOf
  <3>3. NoWorkspace.of \cup NoContainer.of = {} /\ ~NoContainer.there BY EmptyTyped
  <3>4. ~containers[slug].there => containers[slug] = NoContainer BY <2>0, <2>3 DEF SpaceSound
  <3>5. slug \notin soiled => /\ workspaces[slug].of \cup containers[slug].of \subseteq {bySlug'[slug]}
                              /\ ~containers[slug].there
   BY <3>1, <3>3
  <3>6. bySlug'[slug] # 0 /\ workspaces' = workspaces /\ containers' = containers /\ soiled' = soiled BY <1>2, <1>5, <1>9
  <3> HIDE DEF NoWorkspace, NoContainer
  <3> QED BY <2>3, <3>2, <3>4, <3>5, <3>6 DEF SpaceSound, SlugOf, Step, NoContainer, NoWorkspace
 <2> QED BY <2>2, <2>3
<1>20. ASSUME NEW j \in ProjectIds, j <= projectsMade PROVE ProjectSound(j)'
 <2>1. ProjectSound(j) /\ j # id /\ j # 0 BY <1>5, <1>20, RecordFacts DEF RecordsSound, ProjectIds
 <2>2. \A d \in RecordCalls : IdOf(d) = j \/ recordCall'[d].id = j => recordCall'[d] = recordCall[d]
  BY <1>2, <1>10, <1>12, <2>1 DEF IdOf
 <2> QED BY <1>2, <1>8, <2>1, <2>2, OthersSame
<1>21. ProjectSound(id)'
 <2>1. \A d \in RecordCalls : recordCall'[d].id = id => d = c \/ recordCall'[d].op = "none" BY <1>14 DEF IdOf
 <2>2. /\ \A d \in RecordCalls : /\ On(d, id, EnvOps)' => d = c
                                 /\ On(d, id, LimitOps)' => d = c
                                 /\ On(d, id, Launching)' => d = c
                                 /\ ~On(d, id, Setting)' /\ ~On(d, id, {"limit"})' /\ ~On(d, id, {"leave"})'
                                 /\ ~On(d, id, {"delete"})'
       /\ On(c, id, {"create"})'
  BY <1>10, <2>1 DEF On, EnvOps, LimitOps, Launching, Setting, IdOf
 <2>3. Step(c)' = "seed" /\ ValueOf(c)' = 0 BY <1>10 DEF Step, ValueOf
 <2>4. secrets'[id] = 0 /\ members'[id] = {} BY <1>2, <1>6 DEF FreshSound
 <2>5. slug \notin soiled' => workspaces'[slug].env = 0 /\ ~containers'[slug].there
  <3>1. SpaceSound(slug) BY DEF RecordsSound
  <3> QED BY <1>2, <1>3, <3>1, EmptyTyped DEF SpaceSound
 <2>6. FileSound(id)' BY <1>8, <2>2, <2>4, <2>5 DEF FileSound, Excused, Alone
 <2>7. EnvSound(id)' BY <1>8, <2>2, <2>3, <2>5 DEF EnvSound, Excused, Alone
 <2>8. LimitSound(id)' BY <1>8, <2>2, <2>3, <2>5 DEF LimitSound, Excused, Alone
 <2>9. MemberSound(id)' BY <2>2, <2>3 DEF MemberSound, Alone
 <2>10. LeftSound(id)' BY <1>8, <2>2 DEF LeftSound
 <2> QED BY <2>4, <2>6, <2>7, <2>8, <2>9, <2>10, FS_EmptySet DEF ProjectSound, LiveSound
<1>22. ASSUME NEW j \in ProjectIds, ~(j <= projectsMade) /\ j # id PROVE FreshSound(j)'
 <2>1. FreshSound(j) BY <1>22 DEF RecordsSound
 <2> QED BY <1>2, <1>8, <1>22, <2>1 DEF FreshSound
<1> QED BY <1>5, <1>11, <1>17, <1>18, <1>19, <1>20, <1>21, <1>22 DEF RecordsSound

----
\* The server restarts.

\* The index that is read from the records: a slug is its project's or free.
LEMMA IndexLoads ==
  ASSUME RecordsSound
  PROVE  /\ \A s \in Slugs : LoadedIndex[s] # 0 => LoadedIndex[s] \in Live /\ metas[LoadedIndex[s]].slug = s
         /\ \A id \in Live : metas[id].slug \in Slugs /\ LoadedIndex[metas[id].slug] = id /\ id # 0
         /\ \A s \in Slugs :
              LoadedIndex[s] = bySlug[s] \/ \E d \in RecordCalls : recordCall[d].op = "delete" /\ SlugOf(d) = s
<1>1. RecordsTypeOK /\ IndexSound BY DEF RecordsSound
<1>2. ASSUME NEW id \in Live
      PROVE  /\ metas[id].slug \in Slugs /\ id \in Nat /\ id # 0 /\ bySlug[metas[id].slug] = id /\ metas[id] # NoMeta
 <2>1. id \in ProjectIds /\ metas[id] # NoMeta /\ bySlug[metas[id].slug] = id BY <1>1 DEF IndexSound, Live
 <2>2. metas[id] \in Metas BY <1>1, <2>1 DEF RecordsTypeOK
 <2> QED BY <2>1, <2>2, RecordFacts DEF ProjectIds, Metas
<1>3. ASSUME NEW s \in Slugs, NEW id \in Live, metas[id].slug = s
      PROVE  LoadedIndex[s] = id
 <2>1. {j \in Live : metas[j].slug = s} = {id} BY <1>2, <1>3
 <2>2. Max({id}) = id BY <1>2 DEF Max
 <2> QED BY <2>1, <2>2 DEF LoadedIndex
<1>4. ASSUME NEW s \in Slugs, \A id \in Live : metas[id].slug # s
      PROVE  LoadedIndex[s] = 0
 BY <1>4 DEF LoadedIndex
<1>5. ASSUME NEW s \in Slugs
      PROVE  LoadedIndex[s] = bySlug[s] \/ \E d \in RecordCalls : recordCall[d].op = "delete" /\ SlugOf(d) = s
 <2>1. CASE bySlug[s] = 0 BY <1>2, <1>4, <2>1
 <2>2. CASE bySlug[s] # 0 /\ metas[bySlug[s]] # NoMeta
  <3>1. bySlug[s] \in Live /\ metas[bySlug[s]].slug = s BY <1>1, <2>2, RecordFacts DEF IndexSound, Live, RecordsTypeOK, ProjectIds
  <3> QED BY <1>3, <3>1
 <2>3. CASE bySlug[s] # 0 /\ metas[bySlug[s]] = NoMeta BY <1>1, <2>3 DEF IndexSound
 <2> QED BY <2>1, <2>2, <2>3
<1> QED BY <1>2, <1>3, <1>4, <1>5

LEMMA RestartTyped ==
  ASSUME RecordsSound, RecordsRestart
  PROVE  /\ RecordsTypeOK' /\ \A d \in RecordCalls : recordCall'[d] = IdleCall
         /\ \A s \in Slugs : bySlug'[s] = LoadedIndex[s]
         /\ \A s \in Slugs : /\ containers'[s].there = containers[s].there /\ containers'[s].of = containers[s].of
                             /\ containers'[s].env = containers[s].env
                             /\ ~containers[s].there => containers'[s] = containers[s]
                             /\ \/ containers'[s].limits = containers[s].limits
                                \/ LoadedIndex[s] # 0 /\ containers'[s].limits = metas[LoadedIndex[s]].limits
<1>1. RecordsTypeOK /\ RequestsSound BY DEF RecordsSound
<1>2. /\ recordCall' = [c \in RecordCalls |-> IdleCall] /\ runState' = {} /\ bySlug' = LoadedIndex
      /\ UNCHANGED <<metas, workspaces, secrets, members, projectsMade, recordCalls>>
 BY DEF RecordsRestart
<1>3. recordCall' \in [RecordCalls -> RecordRequests] /\ \A d \in RecordCalls : recordCall'[d] = IdleCall BY <1>2, IdleTyped
<1>4. recordFaults' \in 0..MaxRecordFaults BY <1>1, FaultFacts DEF RecordsRestart
<1>5. bySlug' \in [Slugs -> 0..MaxProjects]
 <2>1. \A s \in Slugs : LoadedIndex[s] \in 0..MaxProjects BY IndexLoads, RecordFacts DEF Live, ProjectIds
 <2>2. LoadedIndex = [s \in Slugs |-> LoadedIndex[s]] BY DEF LoadedIndex
 <2> QED BY <1>2, <2>1, <2>2
<1>6. soiled' \subseteq Slugs
 <2>1. \A d \in RecordCalls : recordCall[d].op \in {"delete", "create"} => SlugOf(d) \in Slugs
  BY <1>1 DEF RequestsSound, RequestSound
 <2>2. soiled' = soiled \cup {SlugOf(c) : c \in {d \in RecordCalls : recordCall[d].op \in {"delete", "create"}}}
  BY DEF RecordsRestart
 <2> QED BY <1>1, <2>1, <2>2 DEF RecordsTypeOK
<1>7. excused' \in [ProjectIds -> SUBSET {"file", "env", "limits", "members", "left"}] BY <1>1 DEF RecordsRestart, RecordsTypeOK
<1>8. ASSUME NEW s \in Slugs
      PROVE  /\ containers'[s] \in Containers
             /\ containers'[s].there = containers[s].there /\ containers'[s].of = containers[s].of
             /\ containers'[s].env = containers[s].env
             /\ ~containers[s].there => containers'[s] = containers[s]
             /\ \/ containers'[s].limits = containers[s].limits
                \/ LoadedIndex[s] # 0 /\ containers'[s].limits = metas[LoadedIndex[s]].limits
 <2>1. containers[s] \in Containers BY <1>1 DEF RecordsTypeOK
 <2>2. containers'[s] = IF LoadedIndex[s] # 0 /\ containers[s].there /\ metas[LoadedIndex[s]].limits # 0
                        THEN [containers[s] EXCEPT !.limits = metas[LoadedIndex[s]].limits] ELSE containers[s]
  BY DEF RecordsRestart
 <2>3. CASE LoadedIndex[s] # 0 /\ containers[s].there /\ metas[LoadedIndex[s]].limits # 0
  <3>1. metas[LoadedIndex[s]].limits \in 0..MaxRecordCalls
   <4>1. LoadedIndex[s] \in ProjectIds /\ metas[LoadedIndex[s]] # NoMeta BY <2>3, IndexLoads DEF Live
   <4>2. metas[LoadedIndex[s]] \in Metas BY <1>1, <4>1 DEF RecordsTypeOK
   <4> QED BY <4>2 DEF Metas
  <3>2. containers'[s] = [containers[s] EXCEPT !.limits = metas[LoadedIndex[s]].limits] BY <2>2, <2>3
  <3> QED BY <2>1, <2>3, <3>1, <3>2 DEF Containers
 <2>4. CASE ~(LoadedIndex[s] # 0 /\ containers[s].there /\ metas[LoadedIndex[s]].limits # 0) BY <2>1, <2>2, <2>4
 <2> QED BY <2>3, <2>4
<1>9. containers' \in [Slugs -> Containers] BY <1>8 DEF RecordsRestart
<1>10. RecordsTypeOK' BY <1>1, <1>2, <1>3, <1>4, <1>5, <1>6, <1>7, <1>9 DEF RecordsTypeOK, RecordRequests
<1> QED BY <1>2, <1>3, <1>8, <1>10

\* What a request that was cut short leaves out of step is excused.
LEMMA RestartExcuses ==
  ASSUME RecordsSound, RecordsRestart
  PROVE  /\ \A id \in ProjectIds : excused[id] \subseteq excused'[id]
         /\ soiled \subseteq soiled'
         /\ \A d \in RecordCalls : recordCall[d].op \in {"delete", "create"} => SlugOf(d) \in soiled'
         /\ \A id \in ProjectIds, d \in RecordCalls :
              /\ On(d, id, EnvOps) => "file" \in excused'[id] /\ "env" \in excused'[id]
              /\ On(d, id, LimitOps) => "limits" \in excused'[id]
              /\ On(d, id, {"delete"}) => "left" \in excused'[id]
              /\ On(d, id, {"create"}) => "members" \in excused'[id]
         /\ \A id \in ProjectIds : (\A d \in RecordCalls : IdOf(d) # id) => excused'[id] = excused[id]
<1>1. soiled' = soiled \cup {SlugOf(c) : c \in {d \in RecordCalls : recordCall[d].op \in {"delete", "create"}}}
 BY DEF RecordsRestart
<1>2. ASSUME NEW id \in ProjectIds
      PROVE  excused'[id] = excused[id]
               \cup (IF CutShort(id) \cap EnvOps # {} THEN {"file", "env"} ELSE {})
               \cup (IF CutShort(id) \cap LimitOps # {} THEN {"limits"} ELSE {})
               \cup (IF "delete" \in CutShort(id) THEN {"left"} ELSE {})
               \cup (IF "create" \in CutShort(id) THEN {"members"} ELSE {})
 BY DEF RecordsRestart
<1>3. ASSUME NEW id \in ProjectIds, NEW d \in RecordCalls
      PROVE  /\ On(d, id, EnvOps) => "file" \in excused'[id] /\ "env" \in excused'[id]
             /\ On(d, id, LimitOps) => "limits" \in excused'[id]
             /\ On(d, id, {"delete"}) => "left" \in excused'[id]
             /\ On(d, id, {"create"}) => "members" \in excused'[id]
 <2>1. IdOf(d) = id => recordCall[d].op \in CutShort(id) BY DEF CutShort
 <2> HIDE DEF CutShort
 <2>2. On(d, id, EnvOps) => CutShort(id) \cap EnvOps # {} BY <2>1 DEF On
 <2>3. On(d, id, LimitOps) => CutShort(id) \cap LimitOps # {} BY <2>1 DEF On
 <2>4. On(d, id, {"delete"}) => "delete" \in CutShort(id) BY <2>1 DEF On
 <2>5. On(d, id, {"create"}) => "create" \in CutShort(id) BY <2>1 DEF On
 <2> QED BY <1>2, <2>2, <2>3, <2>4, <2>5
<1>4. ASSUME NEW id \in ProjectIds, \A d \in RecordCalls : IdOf(d) # id
      PROVE  excused'[id] = excused[id]
 <2>1. CutShort(id) = {} BY <1>4 DEF CutShort
 <2> QED BY <1>2, <2>1
<1> QED BY <1>1, <1>2, <1>3, <1>4

LEMMA RestartSpace ==
  ASSUME RecordsSound, RecordsRestart, NEW s \in Slugs
  PROVE  SpaceSound(s)'
<1>1. SpaceSound(s) BY DEF RecordsSound
<1>2. /\ \A d \in RecordCalls : recordCall'[d].op = "none"
      /\ containers'[s].there = containers[s].there /\ containers'[s].of = containers[s].of
      /\ ~containers[s].there => containers'[s] = containers[s]
      /\ workspaces' = workspaces
 BY RestartTyped, IdleTyped DEF RecordsRestart
<1>3. s \notin soiled' => s \notin soiled /\ bySlug'[s] = bySlug[s] BY RestartTyped, RestartExcuses, IndexLoads
<1>4. ~containers'[s].there => containers'[s] = NoContainer BY <1>1, <1>2 DEF SpaceSound
<1>5. ASSUME s \notin soiled'
      PROVE  /\ bySlug'[s] = 0 => workspaces'[s] = NoWorkspace /\ containers'[s] = NoContainer
             /\ workspaces'[s].of \cup containers'[s].of \subseteq {bySlug'[s]}
             /\ containers'[s].there => workspaces'[s].of = {bySlug'[s]}
 <2>1. ~NoContainer.there BY EmptyTyped
 <2> QED BY <1>1, <1>2, <1>3, <1>5, <2>1 DEF SpaceSound
<1> QED BY <1>2, <1>4, <1>5 DEF SpaceSound, NoContainer, NoWorkspace

LEMMA RestartProject ==
  ASSUME RecordsSound, RecordsRestart, NEW id \in ProjectIds, id <= projectsMade
  PROVE  ProjectSound(id)'
<1>1. ProjectSound(id) /\ UNCHANGED <<metas, secrets, members, workspaces>> BY DEF RecordsSound, RecordsRestart
<1>2. id # 0 BY RecordFacts DEF ProjectIds
<1>3. \A d \in RecordCalls : recordCall'[d].id # id BY <1>2, RestartTyped, IdleTyped
<1>4. \A d \in RecordCalls : IdOf(d)' # id BY <1>3 DEF IdOf
<1>5. /\ Alone(id, EnvOps)' /\ Alone(id, LimitOps)' /\ Alone(id, {"leave"})' BY <1>4 DEF Alone, On
<1>6. /\ excused[id] \subseteq excused'[id] /\ soiled \subseteq soiled'
      /\ \A d \in RecordCalls :
           /\ On(d, id, EnvOps) => "file" \in excused'[id] /\ "env" \in excused'[id]
           /\ On(d, id, LimitOps) => "limits" \in excused'[id]
           /\ On(d, id, {"delete"}) => "left" \in excused'[id]
           /\ On(d, id, {"create"}) => "members" \in excused'[id]
 BY RestartExcuses
<1>7. ASSUME metas[id] # NoMeta PROVE LiveSound(id)'
 <2>1. id \in Live /\ LiveSound(id) BY <1>1, <1>7 DEF ProjectSound, Live
 <2>2. PICK slug \in Slugs : slug = metas[id].slug /\ LoadedIndex[slug] = id BY <2>1, IndexLoads
 <2>3. /\ containers'[slug].there = containers[slug].there /\ containers'[slug].env = containers[slug].env
       /\ containers'[slug].limits \in {containers[slug].limits, metas[id].limits}
  BY <2>2, RestartTyped
 <2>4. FileSound(id)'
  <3>1. CASE Excused(id, "file") BY <1>1, <1>6, <3>1 DEF FileSound, Excused
  <3>2. CASE \E d \in RecordCalls : On(d, id, EnvOps) BY <1>6, <3>2 DEF FileSound, Excused
  <3>3. CASE ~Excused(id, "file") /\ ~\E d \in RecordCalls : On(d, id, EnvOps)
   <4>1. \A d \in RecordCalls : ~On(d, id, Setting) BY <3>3 DEF On, EnvOps, Setting
   <4>2. workspaces[metas[id].slug].env = secrets[id] BY <2>1, <3>3, <4>1 DEF LiveSound, FileSound
   <4> QED BY <1>1, <1>4, <1>5, <4>2 DEF FileSound, On
  <3> QED BY <3>1, <3>2, <3>3
 <2>5. EnvSound(id)'
  <3>1. CASE Excused(id, "env") BY <1>1, <1>6, <3>1 DEF EnvSound, Excused
  <3>2. CASE \E d \in RecordCalls : On(d, id, EnvOps) BY <1>6, <3>2 DEF EnvSound, Excused
  <3>3. CASE ~Excused(id, "env") /\ ~\E d \in RecordCalls : On(d, id, EnvOps)
   <4>1. containers[slug].there => containers[slug].env = secrets[id] BY <2>1, <2>2, <3>3 DEF LiveSound, EnvSound
   <4> QED BY <1>1, <1>4, <1>5, <2>2, <2>3, <4>1 DEF EnvSound, On
  <3> QED BY <3>1, <3>2, <3>3
 <2>6. LimitSound(id)'
  <3>1. CASE Excused(id, "limits") BY <1>1, <1>6, <3>1 DEF LimitSound, Excused
  <3>2. CASE \E d \in RecordCalls : On(d, id, LimitOps) BY <1>6, <3>2 DEF LimitSound, Excused
  <3>3. CASE ~Excused(id, "limits") /\ ~\E d \in RecordCalls : On(d, id, LimitOps)
   <4>1. \A d \in RecordCalls : ~On(d, id, {"limit"}) BY <3>3 DEF On, LimitOps
   <4>2. containers[slug].there => containers[slug].limits = metas[id].limits BY <2>1, <2>2, <3>3, <4>1 DEF LiveSound, LimitSound
   <4> QED BY <1>1, <1>4, <1>5, <2>2, <2>3, <4>2 DEF LimitSound, On
  <3> QED BY <3>1, <3>2, <3>3
 <2>7. MemberSound(id)'
  <3>1. CASE Excused(id, "members") BY <1>1, <1>6, <3>1 DEF MemberSound, Excused
  <3>2. CASE \E d \in RecordCalls : On(d, id, {"create"}) BY <1>6, <3>2 DEF MemberSound, Excused
  <3>3. CASE ~Excused(id, "members") /\ ~\E d \in RecordCalls : On(d, id, {"create"})
   <4>1. members[id] # {} BY <2>1, <3>3 DEF LiveSound, MemberSound
   <4> QED BY <1>1, <1>4, <1>5, <4>1 DEF MemberSound, On
  <3> QED BY <3>1, <3>2, <3>3
 <2> QED BY <2>4, <2>5, <2>6, <2>7 DEF LiveSound
<1>8. LeftSound(id)'
 <2>1. CASE "left" \in excused[id] \/ \E d \in RecordCalls : On(d, id, {"delete"}) BY <1>6, <2>1 DEF LeftSound
 <2>2. CASE ~("left" \in excused[id] \/ \E d \in RecordCalls : On(d, id, {"delete"}))
  <3>1. metas[id] = NoMeta => secrets[id] = 0 /\ members[id] = {} BY <1>1, <2>2 DEF ProjectSound, LeftSound
  <3> QED BY <1>1, <1>4, <3>1 DEF LeftSound, On
 <2> QED BY <2>1, <2>2
<1> QED BY <1>1, <1>7, <1>8 DEF ProjectSound

LEMMA RecordsRestartSound ==
  ASSUME RecordsSound, RecordsRestart
  PROVE  RecordsSound'
<1>1. RecordsTypeOK /\ RequestsSound /\ IndexSound BY DEF RecordsSound
<1>2. /\ UNCHANGED <<metas, secrets, members, projectsMade>>
      /\ \A d \in RecordCalls : recordCall'[d] = IdleCall
 BY RestartTyped DEF RecordsRestart
<1>3. RequestsSound' BY <1>2, IdleTyped DEF RequestsSound, StageSound, RequestSound, LockSound, Locking, Setting
<1>4. IndexSound'
 <2>1. Live' = Live BY <1>2 DEF Live
 <2>2. \A id \in Live' : id <= projectsMade' /\ bySlug'[metas'[id].slug] = id
  BY <1>1, <1>2, <2>1, IndexLoads, RestartTyped DEF IndexSound
 <2>3. ASSUME NEW s \in Slugs, bySlug'[s] # 0
       PROVE  bySlug'[s] \in 1..projectsMade' /\ metas'[bySlug'[s]] # NoMeta /\ metas'[bySlug'[s]].slug = s
  <3>1. bySlug'[s] \in Live /\ metas[bySlug'[s]].slug = s BY <2>3, IndexLoads, RestartTyped
  <3>2. bySlug'[s] <= projectsMade BY <1>1, <3>1 DEF IndexSound
  <3> QED BY <1>1, <1>2, <3>1, <3>2, RecordFacts DEF Live, ProjectIds, RecordsTypeOK
 <2> QED BY <1>1, <1>2, <2>1, <2>2, <2>3 DEF IndexSound
<1>5. ASSUME NEW j \in ProjectIds, ~(j <= projectsMade) PROVE FreshSound(j)'
 <2>1. FreshSound(j) BY <1>5 DEF RecordsSound
 <2>2. j \in Nat /\ j # 0 /\ projectsMade \in Nat BY <1>1, RecordFacts DEF ProjectIds, RecordsTypeOK
 <2>3. ASSUME NEW d \in RecordCalls PROVE IdOf(d) # j
  <3>1. CASE recordCall[d].op = "none"
   <4>1. recordCall[d] = IdleCall BY <1>1, <3>1 DEF RequestsSound, StageSound
   <4> QED BY <2>2, <4>1, IdleTyped DEF IdOf
  <3>2. CASE recordCall[d].op # "none" BY <1>5, <3>2, CallFacts
  <3> QED BY <3>1, <3>2
 <2>4. excused'[j] = excused[j] BY <2>3, RestartExcuses
 <2> QED BY <1>2, <2>1, <2>4 DEF FreshSound
<1> QED BY <1>2, <1>3, <1>4, <1>5, RestartTyped, RestartSpace, RestartProject DEF RecordsSound

----
\* What the server keeps about a project agrees.

LEMMA InitRecordsSound ==
  ASSUME RecordsInit
  PROVE  RecordsSound
<1>1. /\ metas = [id \in ProjectIds |-> NoMeta] /\ bySlug = [s \in Slugs |-> 0]
      /\ workspaces = [s \in Slugs |-> NoWorkspace] /\ containers = [s \in Slugs |-> NoContainer]
      /\ secrets = [id \in ProjectIds |-> 0] /\ members = [id \in ProjectIds |-> {}]
      /\ runState = {} /\ recordCall = [c \in RecordCalls |-> IdleCall]
      /\ projectsMade = 0 /\ recordCalls = 0 /\ recordFaults = 0
      /\ soiled = {} /\ excused = [id \in ProjectIds |-> {}]
 BY DEF RecordsInit
<1>2. recordCall \in [RecordCalls -> RecordRequests] /\ \A c \in RecordCalls : recordCall[c] = IdleCall BY <1>1, IdleTyped
<1>3. workspaces \in [Slugs -> Workspaces] /\ containers \in [Slugs -> Containers] BY <1>1, EmptyTyped
<1>4. RecordsTypeOK BY <1>1, <1>2, <1>3, RecordFacts DEF RecordsTypeOK, RecordRequests
<1>5. RequestsSound BY <1>2, IdleTyped DEF RequestsSound, StageSound, RequestSound, LockSound, Locking, Setting
<1>6. IndexSound BY <1>1 DEF IndexSound, Live
<1>7. ASSUME NEW s \in Slugs PROVE SpaceSound(s)
 <2>1. workspaces[s] = NoWorkspace /\ containers[s] = NoContainer /\ bySlug[s] = 0 BY <1>1
 <2>2. NoWorkspace.of \cup NoContainer.of = {} /\ ~NoContainer.there BY EmptyTyped
 <2>3. \A d \in RecordCalls : recordCall[d].op = "none" BY <1>2, IdleTyped
 <2> HIDE DEF NoWorkspace, NoContainer
 <2> QED BY <2>1, <2>2, <2>3 DEF SpaceSound
<1>8. ASSUME NEW id \in ProjectIds PROVE ~(id <= projectsMade) /\ FreshSound(id) BY <1>1, RecordFacts DEF ProjectIds, FreshSound
<1> QED BY <1>4, <1>5, <1>6, <1>7, <1>8 DEF RecordsSound

LEMMA RecordsStep ==
  ASSUME RecordsSound, RecordsNext
  PROVE  RecordsSound'
<1>1. CASE RecordsRestart BY <1>1, RecordsRestartSound
<1>2. ASSUME NEW c \in RecordCalls, RecordStep(c) PROVE RecordsSound'
 BY <1>2, SeedSound, DropContainerSound, EnsureContainerSound, ListForContainerSound, ApplyDiffSound,
    StoreSecretSound, ListForFileSound, WriteEnvFileSound, LimitInstanceSound, LimitRecordSound,
    AddAccessSound, RemoveAccessSound, DeleteContainerSound, DeleteSecretsSound, DeleteAccessSound,
    DeleteMetaSound, DeleteWorkspaceSound, ReleaseSlugSound DEF RecordStep
<1>3. ASSUME NEW c \in RecordCalls,
             \/ CreateProject(c) \/ RenameProject(c) \/ StartProject(c) \/ UpgradeProject(c)
             \/ SetSecret(c) \/ SetLimits(c) \/ Join(c) \/ Leave(c) \/ DeleteProject(c)
      PROVE  RecordsSound'
 BY <1>3, CreateSound, RenameSound, EntersSound
<1> QED BY <1>1, <1>2, <1>3 DEF RecordsNext

LEMMA RecordsRest ==
  ASSUME RecordsSound, UNCHANGED recordVars
  PROVE  RecordsSound'
<1>1. UNCHANGED <<metas, bySlug, workspaces, containers, secrets, members, runState, recordCall,
                  projectsMade, recordCalls, recordFaults, soiled, excused>>
 BY DEF recordVars, recordStores, recordBounds
<1>2. RecordsTypeOK' /\ RequestsSound' /\ IndexSound'
 BY <1>1 DEF RecordsSound, RecordsTypeOK, RequestsSound, StageSound, RequestSound, LockSound, Locking,
    Setting, Step, IdOf, SlugOf, ValueOf, IndexSound, Live
<1>3. ASSUME NEW s \in Slugs PROVE SpaceSound(s)' BY <1>1 DEF RecordsSound, SpaceSound, Step, SlugOf
<1>4. ASSUME NEW id \in ProjectIds PROVE IF id <= projectsMade' THEN ProjectSound(id)' ELSE FreshSound(id)'
 <2>1. IF id <= projectsMade THEN ProjectSound(id) ELSE FreshSound(id) BY DEF RecordsSound
 <2>2. /\ FileSound(id)' <=> FileSound(id)
       /\ EnvSound(id)' <=> EnvSound(id)
       /\ LimitSound(id)' <=> LimitSound(id)
       /\ MemberSound(id)' <=> MemberSound(id)
       /\ LeftSound(id)' <=> LeftSound(id)
  BY <1>1 DEF FileSound, EnvSound, LimitSound, MemberSound, LeftSound, Excused, Alone, On, Step, IdOf, ValueOf
 <2> QED BY <1>1, <2>1, <2>2 DEF ProjectSound, LiveSound, FreshSound
<1> QED BY <1>2, <1>3, <1>4 DEF RecordsSound

LEMMA RecordsAgree ==
  ASSUME RecordsSound
  PROVE  RecordsInvariant
<1>1. RecordsTypeOK /\ IndexSound BY DEF RecordsSound
<1>2. ASSUME NEW id \in Live
      PROVE  /\ id \in ProjectIds /\ id <= projectsMade /\ metas[id] # NoMeta
             /\ metas[id].slug \in Slugs /\ bySlug[metas[id].slug] = id
             /\ LiveSound(id) /\ SpaceSound(metas[id].slug)
 <2>1. id \in ProjectIds /\ id <= projectsMade /\ metas[id] # NoMeta /\ bySlug[metas[id].slug] = id BY <1>1 DEF IndexSound, Live
 <2>2. metas[id] \in Metas BY <1>1, <2>1 DEF RecordsTypeOK
 <2> QED BY <2>1, <2>2 DEF RecordsSound, ProjectSound, Metas
<1>3. RecordsIndexed
 <2>1. ASSUME NEW s \in Slugs, bySlug[s] # 0 PROVE bySlug[s] \in Live \/ Busy(bySlug[s], {"delete"})
  <3>1. bySlug[s] \in ProjectIds BY <1>1, <2>1, RecordFacts DEF IndexSound, RecordsTypeOK, ProjectIds
  <3> QED BY <1>1, <2>1, <3>1 DEF IndexSound, Live, Busy
 <2> QED BY <1>1, <1>2, <2>1 DEF RecordsIndexed, IndexSound
<1>4. OwnSpace BY <1>2 DEF OwnSpace, SpaceSound
<1>5. SecretsInSync
 <2>1. ASSUME NEW id \in Live, ~Busy(id, EnvOps)
       PROVE  /\ Excused(id, "file") \/ workspaces[metas[id].slug].env = secrets[id]
              /\ Excused(id, "env") \/
                   (containers[metas[id].slug].there => containers[metas[id].slug].env = secrets[id])
  <3>1. \A c \in RecordCalls : ~On(c, id, EnvOps) /\ ~On(c, id, Setting) BY <2>1 DEF Busy, On, EnvOps, Setting
  <3> QED BY <1>2, <3>1 DEF LiveSound, FileSound, EnvSound
 <2> QED BY <2>1 DEF SecretsInSync
<1>6. LimitsInSync
 <2>1. ASSUME NEW id \in Live, ~Busy(id, LimitOps)
       PROVE  Excused(id, "limits") \/
                (containers[metas[id].slug].there => containers[metas[id].slug].limits = metas[id].limits)
  <3>1. \A c \in RecordCalls : ~On(c, id, {"limit"}) BY <2>1 DEF Busy, On, LimitOps
  <3> QED BY <1>2, <3>1 DEF LiveSound, LimitSound
 <2> QED BY <2>1 DEF LimitsInSync
<1>7. MembersRemain
 <2>1. ASSUME NEW id \in Live, ~Busy(id, {"create"})
       PROVE  Excused(id, "members") \/ members[id] # {}
  <3>1. \A c \in RecordCalls : ~On(c, id, {"create"}) BY <2>1 DEF Busy, On
  <3> QED BY <1>2, <3>1 DEF LiveSound, MemberSound
 <2> QED BY <2>1 DEF MembersRemain
<1>8. NothingLeft
 <2>1. ASSUME NEW id \in 1..projectsMade \ Live, ~Busy(id, {"delete"})
       PROVE  "left" \in excused[id] \/ (secrets[id] = 0 /\ members[id] = {})
  <3>1. id \in ProjectIds /\ id <= projectsMade BY <1>1, RecordFacts DEF RecordsTypeOK, ProjectIds
  <3>2. metas[id] = NoMeta /\ LeftSound(id) BY <2>1, <3>1 DEF RecordsSound, ProjectSound, Live
  <3>3. \A c \in RecordCalls : ~On(c, id, {"delete"}) BY <2>1 DEF Busy, On
  <3> QED BY <3>2, <3>3 DEF LeftSound
 <2> QED BY <2>1 DEF NothingLeft
<1> QED BY <1>1, <1>3, <1>4, <1>5, <1>6, <1>7, <1>8 DEF RecordsInvariant

\* Theorem: what the server keeps about a project in six places agrees.  The index finds
\* every project and nothing else, a project finds its own files and container only, the
\* stored secret, .env and the container's environment are the same, so are the limits, a
\* project keeps a member and a deleted one leaves nothing, but for what a failure, a crash
\* or requests that crossed have excused.
THEOREM ProjectsKept == Spec => []ProjectsWhole
<1>1. Init => RecordsSound BY InitRecordsSound DEF Init
<1>2. RecordsSound /\ [Next]_vars => RecordsSound'
 <2> SUFFICES ASSUME RecordsSound, [Next]_vars PROVE RecordsSound' OBVIOUS
 <2>1. CASE RecordsNext BY <2>1, RecordsStep
 <2>2. CASE UNCHANGED recordVars BY <2>2, RecordsRest
 <2> QED BY <2>1, <2>2 DEF Next, OffStage, vars
<1>3. RecordsSound => ProjectsWhole BY RecordsAgree DEF ProjectsWhole
<1> QED BY <1>1, <1>2, <1>3, PTL DEF Spec

----
\* The tree of folders in the browser.

TreeViews == [expanded : SUBSET Folders, loading : SUBSET Folders,
              children : [Folders -> Nat \cup {NoListing}], errors : SUBSET Folders]
Listings == [dir : Folders, token : Nat, value : Nat \cup {NoListing}, n : Nat]

TreeTyped ==
  /\ tree \in TreeViews /\ seenTree \in TreeViews /\ token \in Nat /\ treeEvents \in Nat
  /\ loads \subseteq Listings /\ \A l \in loads : l.token <= token
  /\ folder \in [Folders -> Nat] /\ atReset \in [Folders -> Nat] /\ hasty \in BOOLEAN
  /\ find \in [query : Queries \cup {0}, results : SUBSET (Queries \cup {0}), searching : BOOLEAN]

\* An answer to what this tree asked for is as old as the last reset at most.
AnswersSinceReset ==
  /\ \A d \in Folders : folder[d] >= atReset[d]
  /\ \A l \in loads : l.token = token /\ l.value # NoListing => l.value >= atReset[l.dir]

\* The only query whose answer is still used is the one the effect has run for, and
\* results that are not being replaced are its own.
SearchSound ==
  /\ searches \subseteq Queries \cap {effect}
  /\ ~find.searching => find.results \subseteq {0, effect}

TreeSound ==
  /\ TreeTyped /\ LoadingIsReal /\ ExpandedIsShown /\ ListedSinceReset
  /\ AnswersSinceReset /\ SearchSound

LEMMA TreeFacts == RootFolder \in Folders /\ 0 \notin Queries /\ NoListing \notin Nat
BY FileBrowserAssumption

LEMMA TreeSoundIsEnough == TreeSound => TreeInvariant
BY DEF TreeSound, TreeInvariant, TreeTyped, TreeTypeOK, TreeViews, Listings, SearchSound, ResultsOfQuery

LEMMA InitTreeSound == TreeInit => TreeSound
<1> SUFFICES ASSUME TreeInit PROVE TreeSound OBVIOUS
<1>1. EmptyTree \in TreeViews BY DEF EmptyTree, TreeViews
<1>2. /\ EmptyTree.loading = {} /\ EmptyTree.expanded = {}
      /\ \A d \in Folders : EmptyTree.children[d] = NoListing
 BY DEF EmptyTree
<1>3. TreeTyped /\ SearchSound BY <1>1 DEF TreeInit, TreeTyped, SearchSound, IdleFind
<1>4. LoadingIsReal /\ ExpandedIsShown /\ ListedSinceReset /\ AnswersSinceReset
 BY <1>2 DEF TreeInit, LoadingIsReal, ExpandedIsShown, ListedSinceReset, AnswersSinceReset
<1> QED BY <1>3, <1>4 DEF TreeSound

\* What the search does leaves the tree alone.
TreePart == TreeTyped /\ LoadingIsReal /\ ExpandedIsShown /\ ListedSinceReset /\ AnswersSinceReset

LEMMA TreePartRests ==
  ASSUME TreeSound, UNCHANGED <<tree, seenTree, token, loads, folder, atReset, hasty>>,
         treeEvents' \in Nat,
         find' \in [query : Queries \cup {0}, results : SUBSET (Queries \cup {0}), searching : BOOLEAN]
  PROVE  TreePart'
BY DEF TreeSound, TreePart, TreeTyped, LoadingIsReal, ExpandedIsShown, ListedSinceReset,
       AnswersSinceReset

LEMMA SearchKept ==
  ASSUME TreeSound, \/ SearchEffect
                    \/ \E q \in searches : SearchSucceeded(q) \/ SearchFailed(q)
                    \/ \E q \in Queries \cup {0} : TypeQuery(q)
  PROVE  TreeSound'
<1> USE TreeFacts
<1>0. TreeTyped /\ SearchSound BY DEF TreeSound
<1>1. UNCHANGED <<tree, seenTree, token, loads, folder, atReset, hasty>> /\ treeEvents' \in Nat
 <2>1. CASE SearchEffect \/ \E q \in searches : SearchSucceeded(q)
  BY <1>0, <2>1 DEF SearchEffect, SearchSucceeded, treeVars, TreeTyped
 <2>2. CASE (\E q \in searches : SearchFailed(q)) \/ (\E q \in Queries \cup {0} : TypeQuery(q))
  BY <1>0, <2>2 DEF SearchFailed, TypeQuery, TreeEvent, TreeTyped
 <2> QED BY <2>1, <2>2
<1>2. /\ find' \in [query : Queries \cup {0}, results : SUBSET (Queries \cup {0}), searching : BOOLEAN]
      /\ SearchSound'
 <2>1. CASE SearchEffect
  <3>1. effect' = find.query /\ find.query \in Queries \cup {0} BY <1>0, <2>1 DEF SearchEffect, TreeTyped
  <3>2. CASE find.query = 0 /\ find' = IdleFind /\ searches' = StillUsed BY <3>1, <3>2 DEF SearchSound, IdleFind, StillUsed
  <3>3. CASE /\ find.query # 0 /\ find' = [find EXCEPT !.searching = TRUE]
             /\ searches' = StillUsed \cup {find.query}
   <4>1. find'.searching /\ find' \in [query : Queries \cup {0}, results : SUBSET (Queries \cup {0}), searching : BOOLEAN]
    BY <1>0, <3>3 DEF TreeTyped
   <4> QED BY <3>1, <3>3, <4>1 DEF SearchSound, StillUsed
  <3> QED BY <2>1, <3>2, <3>3 DEF SearchEffect
 <2>2. ASSUME NEW q \in searches, SearchSucceeded(q) \/ SearchFailed(q)
       PROVE  /\ find' \in [query : Queries \cup {0}, results : SUBSET (Queries \cup {0}), searching : BOOLEAN]
              /\ SearchSound'
  <3>1. \E r \in {q, 0} : find' = [find EXCEPT !.results = {r}, !.searching = FALSE] BY <2>2 DEF SearchSucceeded, SearchFailed
  <3>2. q = effect /\ q \in Queries /\ effect' = effect /\ searches' = searches \ {q}
   BY <1>0, <2>2 DEF SearchSucceeded, SearchFailed, SearchSound
  <3>3. PICK r \in {q, 0} : find' = [find EXCEPT !.results = {r}, !.searching = FALSE] BY <3>1
  <3>4. /\ find' \in [query : Queries \cup {0}, results : SUBSET (Queries \cup {0}), searching : BOOLEAN]
        /\ find'.results = {r}
   BY <1>0, <3>2, <3>3 DEF TreeTyped
  <3> QED BY <1>0, <3>2, <3>4 DEF SearchSound
 <2>3. ASSUME NEW q \in Queries \cup {0}, TypeQuery(q)
       PROVE  /\ find' \in [query : Queries \cup {0}, results : SUBSET (Queries \cup {0}), searching : BOOLEAN]
              /\ SearchSound'
  BY <1>0, <2>3 DEF TypeQuery, TreeTyped, SearchSound
 <2> QED BY <2>1, <2>2, <2>3
<1>3. TreePart' BY <1>1, <1>2, TreePartRests
<1> QED BY <1>2, <1>3 DEF TreeSound, TreePart

\* A request for a folder is one of this tree.
LEMMA TreeAskedSound ==
  ASSUME TreeTyped, NEW t \in TreeViews, NEW d \in Folders, NEW tok \in Nat, TreeAsked(t, d, tok)
  PROVE  /\ tree' \in TreeViews /\ loads' \subseteq Listings
         /\ tree'.loading = t.loading \cup {d} /\ tree'.expanded = t.expanded
         /\ tree'.children = t.children /\ tree'.errors = t.errors
         /\ \E l \in loads' : l.dir = d /\ l.token = tok
         /\ loads \subseteq loads'
         /\ \A l \in loads' : l \in loads \/ (l.dir = d /\ l.token = tok /\ l.value = NoListing)
<1>1. tree' = [t EXCEPT !.loading = @ \cup {d}] BY DEF TreeAsked
<1>2. /\ loads' = loads \cup {[dir |-> d, token |-> tok, value |-> NoListing, n |-> treeEvents]}
      /\ [dir |-> d, token |-> tok, value |-> NoListing, n |-> treeEvents] \in Listings
 BY DEF TreeAsked, TreeTyped, Listings
<1> QED BY <1>1, <1>2 DEF TreeTyped, TreeViews

LEMMA ResetSound ==
  ASSUME TreeSound, ResetTree
  PROVE  TreeSound'
<1> USE TreeFacts
<1>0. TreeTyped /\ TreeTyped /\ SearchSound /\ LoadingIsReal BY DEF TreeSound
<1>1. EmptyTree \in TreeViews /\ token + 1 \in Nat /\ token' = token + 1 BY <1>0 DEF EmptyTree, TreeViews, TreeTyped, ResetTree
<1>2. /\ tree' \in TreeViews /\ loads' \subseteq Listings
      /\ tree'.loading = {RootFolder} /\ tree'.expanded = {}
      /\ tree'.children = [d \in Folders |-> NoListing]
      /\ \E l \in loads' : l.dir = RootFolder /\ l.token = token'
      /\ \A l \in loads' : l \in loads \/ (l.token = token' /\ l.value = NoListing)
 BY <1>0, <1>1, TreeAskedSound DEF ResetTree, EmptyTree
<1>3. \A l \in loads : l.token # token' BY <1>0, <1>1 DEF TreeTyped, Listings
<1>4. /\ UNCHANGED <<seenTree, folder, hasty, effect, searches>> /\ atReset' = folder
      /\ find' = IdleFind /\ treeEvents' \in Nat
 BY <1>0 DEF ResetTree, TreeEvent, TreeTyped
<1>5. TreeTyped'
 <2>1. \A l \in loads' : l.token <= token' BY <1>0, <1>1, <1>2 DEF TreeTyped, Listings
 <2> QED BY <1>0, <1>1, <1>2, <1>4, <2>1 DEF TreeTyped, IdleFind
<1>6. LoadingIsReal' /\ ExpandedIsShown' /\ ListedSinceReset' BY <1>2 DEF LoadingIsReal, ExpandedIsShown, ListedSinceReset
<1>7. AnswersSinceReset' BY <1>0, <1>2, <1>3, <1>4 DEF AnswersSinceReset, TreeTyped
<1>8. SearchSound' BY <1>0, <1>4 DEF SearchSound, IdleFind
<1> QED BY <1>5, <1>6, <1>7, <1>8 DEF TreeSound

LEMMA ToggleSound ==
  ASSUME TreeSound, NEW d \in Folders, ToggleDirectory(d)
  PROVE  TreeSound'
<1> USE TreeFacts
<1>0. TreeTyped /\ SearchSound /\ LoadingIsReal /\ ExpandedIsShown /\ ListedSinceReset /\ AnswersSinceReset BY DEF TreeSound
<1> DEFINE toggled == [tree EXCEPT !.expanded = (@ \ {d}) \cup ({d} \ @)]
<1>1. /\ UNCHANGED <<seenTree, token, folder, atReset, find, effect, searches>>
      /\ hasty' = (hasty \/ tree # seenTree)
      /\ \/ Opens(d) /\ TreeAsked(toggled, d, token)
         \/ ~Opens(d) /\ tree' = toggled /\ UNCHANGED loads
 BY DEF ToggleDirectory, findVars
<1>1a. treeEvents' \in Nat BY <1>0 DEF ToggleDirectory, TreeEvent, TreeTyped
<1>2. /\ toggled \in TreeViews /\ toggled.expanded = (tree.expanded \ {d}) \cup ({d} \ tree.expanded)
      /\ toggled.loading = tree.loading /\ toggled.children = tree.children /\ toggled.errors = tree.errors
 BY <1>0 DEF TreeTyped, TreeViews
<1> HIDE DEF toggled
<1>3. /\ tree' \in TreeViews /\ loads' \subseteq Listings /\ loads \subseteq loads'
      /\ tree'.expanded = toggled.expanded /\ tree'.children = tree.children /\ tree'.errors = tree.errors
      /\ tree.loading \subseteq tree'.loading
      /\ \A x \in tree'.loading : x \in tree.loading \/ \E l \in loads' : l.dir = x /\ l.token = token
      /\ Opens(d) => d \in tree'.loading
      /\ \A l \in loads' : l \in loads \/ (l.token = token /\ l.value = NoListing)
 <2>1. CASE Opens(d) /\ TreeAsked(toggled, d, token)
  <3>1. token \in Nat BY <1>0 DEF TreeTyped
  <3> QED BY <1>0, <1>2, <2>1, <3>1, TreeAskedSound
 <2>2. CASE ~Opens(d) /\ tree' = toggled /\ UNCHANGED loads BY <1>0, <1>2, <2>2 DEF TreeTyped
 <2> QED BY <1>1, <2>1, <2>2
<1>4. TreeTyped'
 <2>1. hasty' \in BOOLEAN BY <1>1
 <2>2. \A l \in loads' : l.token <= token' BY <1>0, <1>1, <1>3 DEF TreeTyped
 <2> QED BY <1>0, <1>1, <1>1a, <1>3, <2>1, <2>2 DEF TreeTyped
<1>5. LoadingIsReal' BY <1>0, <1>1, <1>3 DEF LoadingIsReal
<1>6. ExpandedIsShown'
 <2> SUFFICES ASSUME ~hasty', NEW x \in tree'.expanded
               PROVE  x \in tree'.loading \cup tree'.errors \/ tree'.children[x] # NoListing
  BY DEF ExpandedIsShown
 <2>1. ~hasty /\ tree = seenTree BY <1>1
 <2>2. CASE x = d
  <3>1. d \notin tree.expanded BY <1>2, <1>3, <2>2
  <3> QED BY <1>3, <2>1, <2>2, <3>1 DEF Opens
 <2>3. CASE x # d BY <1>0, <1>2, <1>3, <2>1, <2>3 DEF ExpandedIsShown
 <2> QED BY <2>2, <2>3
<1>7. ListedSinceReset' /\ AnswersSinceReset' /\ SearchSound'
 BY <1>0, <1>1, <1>3 DEF ListedSinceReset, AnswersSinceReset, SearchSound
<1> QED BY <1>4, <1>5, <1>6, <1>7 DEF TreeSound

\* An answer, or a failure.
LEMMA AnsweredSound ==
  ASSUME TreeSound, NEW l \in loads, AnswerListing(l) \/ TreeLoaded(l) \/ LoadFailed(l)
  PROVE  TreeSound'
<1> USE TreeFacts
<1>0. /\ TreeTyped /\ SearchSound /\ LoadingIsReal /\ ExpandedIsShown /\ ListedSinceReset /\ AnswersSinceReset
      /\ l \in Listings
 BY DEF TreeSound, TreeTyped
<1>1. UNCHANGED <<seenTree, token, folder, atReset, hasty, find, effect, searches>> /\ treeEvents' \in Nat
 BY <1>0 DEF AnswerListing, TreeLoaded, LoadFailed, TreeEvent, TreeTyped, findVars
<1>2. CASE AnswerListing(l)
 <2> DEFINE m == [l EXCEPT !.value = folder[l.dir]]
 <2>1. /\ m \in Listings /\ m.dir = l.dir /\ m.token = l.token /\ m.value = folder[l.dir]
       /\ loads' = (loads \ {l}) \cup {m} /\ tree' = tree
  BY <1>0, <1>2 DEF AnswerListing, Listings, TreeTyped
 <2> HIDE DEF m
 <2>2. \A k \in loads' : k.token <= token' /\ k \in Listings BY <1>0, <1>1, <2>1 DEF TreeTyped
 <2>3. TreeTyped' BY <1>0, <1>1, <2>1, <2>2 DEF TreeTyped
 <2>4. LoadingIsReal' BY <1>0, <1>1, <2>1 DEF LoadingIsReal
 <2>5. ExpandedIsShown' /\ ListedSinceReset' /\ SearchSound'
  BY <1>0, <1>1, <2>1 DEF ExpandedIsShown, ListedSinceReset, SearchSound
 <2>6. AnswersSinceReset' BY <1>0, <1>1, <2>1 DEF AnswersSinceReset, Listings
 <2> QED BY <2>3, <2>4, <2>5, <2>6 DEF TreeSound
<1>3. CASE TreeLoaded(l) \/ LoadFailed(l)
 <2>1. loads' = loads \ {l} BY <1>3 DEF TreeLoaded, LoadFailed
 <2>2. /\ tree' \in TreeViews /\ tree'.expanded = tree.expanded
       /\ tree'.loading = IF Current(l) THEN tree.loading \ {l.dir} ELSE tree.loading
       /\ Current(l) => l.dir \in tree'.errors \/ tree'.children[l.dir] # NoListing
       /\ \A x \in Folders : x # l.dir =>
            (x \in tree'.errors <=> x \in tree.errors) /\ tree'.children[x] = tree.children[x]
       /\ ~Current(l) => tree' = tree
       /\ tree'.children[l.dir] # tree.children[l.dir] =>
            Current(l) /\ l.value # NoListing /\ tree'.children[l.dir] = l.value
  <3>1. CASE Current(l) /\ tree' = [tree EXCEPT !.children[l.dir] = l.value, !.errors = @ \ {l.dir},
                                                !.loading = @ \ {l.dir}]
             /\ l.value # NoListing
   BY <1>0, <3>1 DEF TreeTyped, TreeViews, Listings
  <3>2. CASE Current(l) /\ tree' = [tree EXCEPT !.errors = @ \cup {l.dir}, !.loading = @ \ {l.dir}]
   BY <1>0, <3>2 DEF TreeTyped, TreeViews, Listings
  <3>3. CASE ~Current(l) /\ tree' = tree BY <1>0, <3>3 DEF TreeTyped
  <3> QED BY <1>3, <3>1, <3>2, <3>3 DEF TreeLoaded, LoadFailed
 <2>3. TreeTyped' BY <1>0, <1>1, <2>1, <2>2 DEF TreeTyped
 <2>4. LoadingIsReal' BY <1>0, <1>1, <2>1, <2>2 DEF LoadingIsReal, Current
 <2>5. ExpandedIsShown'
  <3> SUFFICES ASSUME ~hasty', NEW x \in tree'.expanded
                PROVE  x \in tree'.loading \cup tree'.errors \/ tree'.children[x] # NoListing
   BY DEF ExpandedIsShown
  <3>1. x \in Folders /\ (x \in tree.loading \cup tree.errors \/ tree.children[x] # NoListing)
   BY <1>0, <1>1, <2>2 DEF ExpandedIsShown, TreeTyped, TreeViews
  <3> QED BY <2>2, <3>1
 <2>6. ListedSinceReset'
  <3> SUFFICES ASSUME NEW x \in Folders, tree'.children[x] # NoListing
                PROVE  tree'.children[x] >= atReset[x]
   BY <1>1 DEF ListedSinceReset
  <3> QED BY <1>0, <2>2 DEF ListedSinceReset, AnswersSinceReset, Current, Listings
 <2>7. AnswersSinceReset' /\ SearchSound' BY <1>0, <1>1, <2>1 DEF AnswersSinceReset, SearchSound
 <2> QED BY <2>3, <2>4, <2>5, <2>6, <2>7 DEF TreeSound
<1> QED BY <1>2, <1>3

LEMMA TreeRests == TreeSound /\ UNCHANGED fileTreeVars => TreeSound'
BY DEF TreeSound, TreeTyped, LoadingIsReal, ExpandedIsShown, ListedSinceReset, AnswersSinceReset,
       SearchSound, fileTreeVars, treeVars, findVars

LEMMA TreeStepSound ==
  ASSUME TreeSound, TreeNext
  PROVE  TreeSound'
<1>0. TreeTyped /\ SearchSound /\ LoadingIsReal /\ ExpandedIsShown /\ ListedSinceReset /\ AnswersSinceReset BY DEF TreeSound
<1>1. CASE Render
 BY <1>0, <1>1 DEF Render, TreeSound, TreeTyped, LoadingIsReal, ExpandedIsShown, ListedSinceReset,
                   AnswersSinceReset, SearchSound, findVars
<1>2. ASSUME NEW d \in Folders, FolderChanges(d)
      PROVE  TreeSound'
 <2>1. /\ UNCHANGED <<tree, seenTree, token, loads, atReset, hasty, find, effect, searches>>
       /\ treeEvents' \in Nat /\ folder' = [folder EXCEPT ![d] = @ + 1]
  BY <1>0, <1>2 DEF FolderChanges, TreeEvent, TreeTyped, findVars
 <2>2. folder' \in [Folders -> Nat] /\ \A x \in Folders : folder'[x] >= folder[x] BY <1>0, <2>1 DEF TreeTyped
 <2>3. AnswersSinceReset' BY <1>0, <2>1, <2>2 DEF AnswersSinceReset, TreeTyped
 <2> QED
  BY <1>0, <2>1, <2>2, <2>3 DEF TreeSound, TreeTyped, LoadingIsReal, ExpandedIsShown,
                                ListedSinceReset, SearchSound
<1> QED BY <1>1, <1>2, ResetSound, ToggleSound, AnsweredSound, SearchKept DEF TreeNext, TreeStep

----
\* Attachments.

\* Where the client is with a file it has a handle for.
Aboard == {"create", "idle", "sending", "stored", "answer", "lost"}
ChipStates == {"none", "uploading", "done", "failed", "gone"}

UploadsTyped ==
  /\ chip \in [Attachments -> ChipStates] /\ wire \in [Attachments -> Aboard \cup {"none", "terminate"}]
  /\ handles \subseteq Attachments /\ promised \subseteq Attachments
  /\ batches \in Seq(SUBSET Attachments) /\ uploading \in BOOLEAN
  /\ acked \in [Attachments -> 0..UploadPieces + 1] /\ late \in [Attachments -> 0..UploadPieces]
  /\ blob \in [Attachments -> Seq(Nat)] /\ landed \in [Attachments -> Seq(Nat)]
  /\ events \subseteq Attachments /\ finalizing \subseteq Attachments

\* Chunks 1, 2, ..., in order.
UpTo(n) == [i \in 1..n |-> i]
InOrder == {UpTo(n) : n \in 0..UploadPieces}

\* The file is in the workspace, or on the way there, or excused.
Delivered(f) ==
  landed[f] # NoBlob \/ (Unfinished(f) /\ blob[f] # NoBlob) \/ f \in spoiled \cup uploadsCrossed

\* A file has a handle as long as its chip turns and its request is under way.
HandleSound(f) ==
  /\ f \in handles <=> chip[f] = "uploading"
  /\ f \in handles <=> wire[f] \in Aboard
  /\ f \in promised => chip[f] = "gone" /\ wire[f] = "none"
  /\ wire[f] = "terminate" => chip[f] = "gone"

\* What is sent is missing, and what is stored is in order unless requests crossed.
ChunksSound(f) ==
  /\ wire[f] \in {"sending", "stored", "answer"} => acked[f] < UploadPieces
  /\ Len(blob[f]) <= UploadPieces + 1
  /\ late[f] # 0 => blob[f] = NoBlob \/ Len(blob[f]) <= UploadPieces
  /\ chip[f] = "none" \/ wire[f] = "create" => late[f] = 0 /\ ~Unfinished(f)
  /\ f \notin uploadsCrossed =>
       /\ blob[f] \in {NoBlob} \cup InOrder /\ landed[f] \in {NoBlob, Whole}
       /\ Unfinished(f) => blob[f] \in {NoBlob, Whole}
       /\ blob[f] = Whole => Delivered(f)

\* What the client believes stored is delivered.
Believed(f) ==
  \/ wire[f] = "stored" \/ (wire[f] = "answer" /\ acked[f] + 1 = UploadPieces)
  \/ chip[f] = "done" \/ f \in promised
BeliefSound(f) == Believed(f) => Delivered(f)

AttachmentSound(f) == HandleSound(f) /\ ChunksSound(f) /\ BeliefSound(f)

\* Whoever is uploaded is in a batch, and a single batch that is not over holds Send.
BatchesSound ==
  /\ Len(batches) = 0 => \A f \in Attachments : chip[f] = "none"
  /\ Len(batches) = 1 /\ ~uploading => batches[1] = {}
  /\ \A f \in Attachments : chip[f] = "uploading" => \E b \in 1..Len(batches) : f \in batches[b]
  /\ SendTakesAll

UploadsSound == UploadsTyped /\ BatchesSound /\ \A f \in Attachments : AttachmentSound(f)

LEMMA UploadFacts ==
  /\ UploadPieces \in Nat /\ UploadPieces > 0
  /\ NoBlob \in Seq(Nat) /\ Len(NoBlob) = 1 /\ NoBlob[1] = 0
  /\ \A n \in Nat : UpTo(n) \in Seq(Nat) /\ Len(UpTo(n)) = n /\ UpTo(n) # NoBlob
  /\ Whole = UpTo(UploadPieces)
<1>1. UploadPieces \in Nat /\ UploadPieces > 0 BY UploadsAssumption
<1>2. NoBlob \in Seq(Nat) /\ Len(NoBlob) = 1 /\ NoBlob[1] = 0 BY DEF NoBlob
<1>3. ASSUME NEW n \in Nat
      PROVE  UpTo(n) \in Seq(Nat) /\ Len(UpTo(n)) = n
 <2>1. UpTo(n) \in [1..n -> Nat] BY DEF UpTo
 <2> QED BY <2>1, IsASeq, LenProperties DEF UpTo
<1>4. ASSUME NEW n \in Nat
      PROVE  UpTo(n) # NoBlob
 <2>1. n # 1 => Len(UpTo(n)) # Len(NoBlob) BY <1>2, <1>3
 <2>2. n = 1 => UpTo(n)[1] = 1 BY DEF UpTo
 <2> QED BY <1>2, <2>1, <2>2
<1>5. Whole = UpTo(UploadPieces) BY DEF Whole, UpTo
<1> QED BY <1>1, <1>2, <1>3, <1>4, <1>5

LEMMA UploadsSoundIsEnough == UploadsSound => UploadsInvariant
<1> SUFFICES ASSUME UploadsSound PROVE UploadsInvariant OBVIOUS
<1>1. UploadsTypeOK BY UploadFacts DEF UploadsSound, UploadsTyped, UploadsTypeOK, ChipStates
<1>2. LandedWhole BY DEF UploadsSound, AttachmentSound, ChunksSound, LandedWhole
<1>3. PromiseKept BY DEF UploadsSound, UploadsTyped, AttachmentSound, BeliefSound, Believed, Delivered, PromiseKept
<1>4. SendTakesAll BY DEF UploadsSound, BatchesSound
<1> QED BY <1>1, <1>2, <1>3, <1>4 DEF UploadsInvariant

LEMMA InitUploadsSound == UploadsInit => UploadsSound
<1> SUFFICES ASSUME UploadsInit PROVE UploadsSound OBVIOUS
<1> USE UploadFacts
<1>1. UploadsTyped
 <2>1. batches \in Seq(SUBSET Attachments) BY EmptySeq DEF UploadsInit
 <2>2. [f \in Attachments |-> NoBlob] \in [Attachments -> Seq(Nat)] OBVIOUS
 <2>3. 0 \in 0..UploadPieces + 1 /\ 0 \in 0..UploadPieces OBVIOUS
 <2> QED BY <2>1, <2>2, <2>3 DEF UploadsInit, UploadsTyped, ChipStates, Aboard
<1>2. BatchesSound BY DEF UploadsInit, BatchesSound, SendTakesAll
<1>3. ASSUME NEW f \in Attachments PROVE AttachmentSound(f)
 <2>1. NoBlob # Whole /\ ~Unfinished(f) BY DEF UploadsInit, Unfinished
 <2>2. /\ chip[f] = "none" /\ wire[f] = "none" /\ late[f] = 0 /\ blob[f] = NoBlob /\ landed[f] = NoBlob
       /\ f \notin handles /\ f \notin promised
  BY DEF UploadsInit
 <2>3. HandleSound(f) BY <2>2 DEF HandleSound, Aboard
 <2>4. ChunksSound(f)
  <3>1. Len(blob[f]) = 1 /\ 1 <= UploadPieces + 1 BY <2>2, UploadFacts
  <3>2. Len(blob[f]) <= UploadPieces + 1 BY <3>1
  <3> QED BY <2>1, <2>2, <3>2 DEF ChunksSound
 <2>5. BeliefSound(f) BY <2>2 DEF BeliefSound, Believed
 <2> QED BY <2>3, <2>4, <2>5 DEF AttachmentSound
<1> QED BY <1>1, <1>2, <1>3 DEF UploadsSound

\* A file that a step does not touch.
Untouched(f) ==
  /\ chip'[f] = chip[f] /\ wire'[f] = wire[f] /\ acked'[f] = acked[f] /\ late'[f] = late[f]
  /\ blob'[f] = blob[f] /\ landed'[f] = landed[f]
  /\ f \in handles' <=> f \in handles
  /\ f \in promised' <=> f \in promised
  /\ f \in events' \cup finalizing' <=> f \in events \cup finalizing
  /\ f \in spoiled => f \in spoiled'
  /\ f \in uploadsCrossed' <=> f \in uploadsCrossed

LEMMA UntouchedSound ==
  ASSUME NEW f \in Attachments, AttachmentSound(f), Untouched(f)
  PROVE  AttachmentSound(f)'
BY DEF Untouched, AttachmentSound, HandleSound, ChunksSound, BeliefSound, Believed, Unfinished, Delivered

\* Only f's part changes, and no batch.
OnlyTouches(f) ==
  /\ \A g \in Attachments \ {f} : Untouched(g)
  /\ UNCHANGED <<batches, uploading, leftBehind>>
  /\ chip'[f] \in {chip[f], "gone"} /\ (chip[f] = "none" => chip'[f] = "none")

LEMMA OnlyTouchesSound ==
  ASSUME UploadsSound, NEW f \in Attachments, OnlyTouches(f), UploadsTyped', AttachmentSound(f)'
  PROVE  UploadsSound'
<1>1. \A g \in Attachments : AttachmentSound(g)' BY UntouchedSound DEF UploadsSound, OnlyTouches
<1>2. \A g \in Attachments : (chip[g] = "none" => chip'[g] = "none") /\ (chip'[g] = "uploading" => chip[g] = "uploading")
 BY DEF OnlyTouches, Untouched
<1>3. BatchesSound' BY <1>2 DEF UploadsSound, BatchesSound, SendTakesAll, OnlyTouches
<1> QED BY <1>1, <1>3 DEF UploadsSound

\* A chunk in its place, and one that is not.
LEMMA NextInOrder ==
  ASSUME NEW n \in Nat
  PROVE  Append(UpTo(n), n + 1) = UpTo(n + 1)
<1>1. /\ Append(UpTo(n), n + 1) \in Seq(Nat) /\ Len(Append(UpTo(n), n + 1)) = n + 1
      /\ UpTo(n + 1) \in Seq(Nat) /\ Len(UpTo(n + 1)) = n + 1 /\ UpTo(n) \in Seq(Nat) /\ Len(UpTo(n)) = n
 <2>1. n + 1 \in Nat /\ UpTo(n) \in Seq(Nat) /\ Len(UpTo(n)) = n BY UploadFacts
 <2>2. UpTo(n + 1) \in Seq(Nat) /\ Len(UpTo(n + 1)) = n + 1 BY <2>1, UploadFacts
 <2> QED BY <2>1, <2>2, AppendProperties
<1>2. ASSUME NEW i \in 1..n + 1
      PROVE  Append(UpTo(n), n + 1)[i] = UpTo(n + 1)[i]
 <2>1. CASE i = n + 1 BY <1>1, <2>1, AppendProperties DEF UpTo
 <2>2. CASE i # n + 1
  <3>1. i \in 1..n BY <2>2
  <3>2. Append(UpTo(n), n + 1)[i] = UpTo(n)[i] BY <1>1, <3>1, AppendProperties
  <3> QED BY <3>1, <3>2 DEF UpTo
 <2> QED BY <2>1, <2>2
<1> QED BY <1>1, <1>2, SeqEqual

LEMMA InOrderFacts ==
  ASSUME NEW b \in InOrder
  PROVE  b = UpTo(Len(b)) /\ Len(b) \in 0..UploadPieces /\ b \in Seq(Nat) /\ b # NoBlob
BY UploadFacts DEF InOrder

LEMMA AppendedChunk ==
  ASSUME NEW b \in Seq(Nat), NEW n \in Nat, n # 0
  PROVE  Append(b, n) \in Seq(Nat) /\ Len(Append(b, n)) = Len(b) + 1 /\ Append(b, n) # NoBlob
<1>1. Append(b, n) \in Seq(Nat) /\ Len(Append(b, n)) = Len(b) + 1 /\ Append(b, n)[Len(b) + 1] = n BY AppendProperties
<1> QED BY <1>1, UploadFacts

----
\* The composer's steps.

LEMMA DoUploadSound ==
  ASSUME UploadsSound, NEW files \in SUBSET Attachments, DoUpload(files)
  PROVE  UploadsSound'
<1>0. UploadsTyped /\ BatchesSound /\ \A f \in Attachments : AttachmentSound(f) BY DEF UploadsSound
<1>1. /\ chip' = [f \in Attachments |-> IF f \in files THEN "uploading" ELSE chip[f]]
      /\ wire' = [f \in Attachments |-> IF f \in files THEN "create" ELSE wire[f]]
      /\ handles' = handles \cup files /\ batches' = Append(batches, files) /\ uploading' = TRUE
      /\ \A f \in files : chip[f] = "none"
      /\ UNCHANGED <<promised, leftBehind, acked, late, blob, events, finalizing, landed, spoiled, uploadsCrossed>>
 BY DEF DoUpload, serverVars
<1>2. /\ batches' \in Seq(SUBSET Attachments) /\ Len(batches') = Len(batches) + 1
      /\ batches'[Len(batches) + 1] = files /\ \A b \in 1..Len(batches) : batches'[b] = batches[b]
      /\ Len(batches) \in Nat
 BY <1>0, <1>1, AppendProperties, LenProperties DEF UploadsTyped
<1>3. UploadsTyped' BY <1>0, <1>1, <1>2 DEF UploadsTyped, ChipStates, Aboard
<1>4. BatchesSound'
 <2>1. \A f \in Attachments : chip'[f] = "uploading" => \E b \in 1..Len(batches') : f \in batches'[b]
  <3> SUFFICES ASSUME NEW f \in Attachments, chip'[f] = "uploading"
                PROVE  \E b \in 1..Len(batches') : f \in batches'[b]
   OBVIOUS
  <3>1. CASE f \in files BY <1>2, <3>1
  <3>2. CASE f \notin files BY <1>0, <1>1, <1>2, <3>2 DEF BatchesSound
  <3> QED BY <3>1, <3>2
 <2>2. SendTakesAll' BY <1>0, <1>1, <1>2 DEF BatchesSound, SendTakesAll
 <2> QED BY <1>1, <1>2, <2>1, <2>2 DEF BatchesSound
<1>5. ASSUME NEW f \in Attachments
      PROVE  AttachmentSound(f)'
 <2>1. CASE f \in files
  <3>1. chip[f] = "none" /\ AttachmentSound(f) /\ chip'[f] = "uploading" /\ wire'[f] = "create" /\ f \in handles'
   BY <1>0, <1>1, <2>1
  <3>2. HandleSound(f)' BY <1>1, <3>1 DEF AttachmentSound, HandleSound, Aboard
  <3>3. ChunksSound(f)' BY <1>1, <3>1 DEF AttachmentSound, ChunksSound, Unfinished, Delivered
  <3>4. BeliefSound(f)' BY <3>1, <3>2 DEF BeliefSound, Believed, HandleSound
  <3> QED BY <3>2, <3>3, <3>4 DEF AttachmentSound
 <2>2. CASE f \notin files BY <1>0, <1>1, <2>2, UntouchedSound DEF Untouched
 <2> QED BY <2>1, <2>2
<1> QED BY <1>3, <1>4, <1>5 DEF UploadsSound

LEMMA RemoveAttachmentSound ==
  ASSUME UploadsSound, NEW f \in Attachments, RemoveAttachment(f)
  PROVE  UploadsSound'
<1>0. UploadsTyped /\ AttachmentSound(f) BY DEF UploadsSound
<1>1. /\ chip' = [chip EXCEPT ![f] = "gone"] /\ handles' = handles \ {f}
      /\ wire' = [g \in Attachments |-> IF g \in {f} \cap handles THEN "terminate" ELSE wire[g]]
      /\ chip[f] \in {"uploading", "done", "failed"}
      /\ UNCHANGED <<batches, uploading, promised, leftBehind, acked, late, blob, events, finalizing, landed, spoiled,
                     uploadsCrossed>>
 BY DEF RemoveAttachment, Aborted, serverVars
<1>2. UploadsTyped' BY <1>0, <1>1 DEF UploadsTyped, ChipStates, Aboard
<1>3. OnlyTouches(f) BY <1>0, <1>1 DEF OnlyTouches, Untouched, UploadsTyped
<1>4. chip'[f] = "gone" /\ f \notin handles' /\ wire'[f] = IF f \in handles THEN "terminate" ELSE wire[f]
 BY <1>0, <1>1 DEF UploadsTyped
<1>5. HandleSound(f)' BY <1>0, <1>1, <1>4 DEF AttachmentSound, HandleSound, Aboard
<1>6. ChunksSound(f)' BY <1>0, <1>1, <1>4 DEF AttachmentSound, ChunksSound, Unfinished, Delivered
<1>7. BeliefSound(f)' BY <1>0, <1>1, <1>4 DEF AttachmentSound, HandleSound, BeliefSound, Believed, Aboard
<1> QED BY <1>2, <1>3, <1>5, <1>6, <1>7, OnlyTouchesSound DEF AttachmentSound

LEMMA SendSound ==
  ASSUME UploadsSound, Send
  PROVE  UploadsSound'
<1>0. UploadsTyped /\ BatchesSound /\ \A f \in Attachments : AttachmentSound(f) BY DEF UploadsSound
<1> DEFINE shown == {f \in Attachments : chip[f] \in {"uploading", "done", "failed"}}
<1>1. /\ ~uploading /\ {f \in shown : chip[f] = "done"} # {}
      /\ promised' = promised \cup {f \in shown : chip[f] = "done"}
      /\ leftBehind' = leftBehind \cup {f \in shown : chip[f] = "uploading"}
      /\ chip' = [f \in Attachments |-> IF f \in shown THEN "gone" ELSE chip[f]]
      /\ handles' = {}
      /\ wire' = [f \in Attachments |-> IF f \in handles THEN "terminate" ELSE wire[f]]
      /\ UNCHANGED <<batches, uploading, acked, late, blob, events, finalizing, landed, spoiled, uploadsCrossed>>
 BY DEF Send, MaySend, Aborted, serverVars
<1>2. UploadsTyped' BY <1>0, <1>1 DEF UploadsTyped, ChipStates, Aboard
<1>3. BatchesSound'
 <2>1. Len(batches) \in Nat /\ Len(batches) # 0 BY <1>0, <1>1, LenProperties DEF UploadsTyped, BatchesSound
 <2>2. \A f \in Attachments : chip'[f] # "uploading" BY <1>1
 <2>3. SendTakesAll'
  <3>1. CASE leftBehind' = leftBehind BY <1>0, <1>1, <3>1 DEF BatchesSound, SendTakesAll
  <3>2. CASE leftBehind' # leftBehind
   <4>1. PICK f \in Attachments : chip[f] = "uploading" BY <1>1, <3>2
   <4>2. PICK b \in 1..Len(batches) : f \in batches[b] BY <1>0, <4>1 DEF BatchesSound
   <4>3. Len(batches) # 1 BY <1>0, <1>1, <4>2 DEF BatchesSound
   <4> QED
    <5>1. Len(batches) > 1
     <6> DEFINE n == Len(batches)
     <6>1. n \in Nat /\ n # 0 /\ n # 1 BY <2>1, <4>3
     <6> HIDE DEF n
     <6>2. n > 1 BY <6>1
     <6> QED BY <6>2 DEF n
    <5>2. batches' = batches BY <1>1
    <5> QED BY <5>1, <5>2 DEF SendTakesAll
  <3> QED BY <3>1, <3>2
 <2> QED BY <1>0, <1>1, <2>1, <2>2, <2>3 DEF BatchesSound
<1>4. ASSUME NEW f \in Attachments
      PROVE  AttachmentSound(f)'
 <2>1. /\ AttachmentSound(f) /\ HandleSound(f) /\ ChunksSound(f) /\ BeliefSound(f)
       /\ chip'[f] = IF chip[f] \in {"uploading", "done", "failed"} THEN "gone" ELSE chip[f]
       /\ wire'[f] = IF f \in handles THEN "terminate" ELSE wire[f]
       /\ f \notin handles' /\ (f \in promised' <=> f \in promised \/ chip[f] = "done")
  BY <1>0, <1>1 DEF AttachmentSound
 <2>2. wire[f] \in Aboard \cup {"none", "terminate"} /\ chip[f] \in ChipStates BY <1>0 DEF UploadsTyped
 <2>3. HandleSound(f)' BY <2>1, <2>2 DEF HandleSound, Aboard, ChipStates
 <2>4. ChunksSound(f)' BY <1>1, <2>1, <2>2 DEF ChunksSound, HandleSound, Unfinished, Delivered, Aboard, ChipStates
 <2>5. Delivered(f) <=> Delivered(f)' BY <1>1 DEF Delivered, Unfinished
 <2>6. BeliefSound(f)' BY <1>1, <2>1, <2>2, <2>5 DEF BeliefSound, Believed, HandleSound, Aboard, ChipStates
 <2> QED BY <2>3, <2>4, <2>6 DEF AttachmentSound
<1> QED BY <1>2, <1>3, <1>4 DEF UploadsSound

----
\* The client's requests.

LEMMA ResolvesSound ==
  ASSUME UploadsSound, NEW f \in Attachments, NEW outcome \in {"done", "failed"}, Resolves(f, outcome),
         f \in handles, outcome = "done" => Delivered(f),
         acked' \in [Attachments -> 0..UploadPieces + 1], \A g \in Attachments \ {f} : acked'[g] = acked[g],
         UNCHANGED <<promised, leftBehind, late, blob, events, finalizing, landed, spoiled, uploadsCrossed>>
  PROVE  UploadsSound'
<1>0. UploadsTyped /\ BatchesSound /\ \A g \in Attachments : AttachmentSound(g) BY DEF UploadsSound
<1> DEFINE left == [b \in DOMAIN batches |-> batches[b] \ {f}]
            over == {b \in DOMAIN batches : f \in batches[b] /\ left[b] = {}}
<1>1. /\ chip' = [chip EXCEPT ![f] = outcome] /\ handles' = handles \ {f} /\ batches' = left
      /\ uploading' = IF over # {} THEN FALSE ELSE uploading
      /\ wire' = [wire EXCEPT ![f] = "none"]
 BY DEF Resolves, Kept
<1>2. DOMAIN batches = 1..Len(batches) /\ Len(batches) \in Nat
      /\ \A b \in 1..Len(batches) : batches[b] \in SUBSET Attachments
 BY <1>0, LenProperties, ElementOfSeq DEF UploadsTyped
<1>3. left \in [1..Len(batches) -> SUBSET Attachments] BY <1>2
<1>4. /\ batches' \in Seq(SUBSET Attachments) /\ Len(batches') = Len(batches)
      /\ \A b \in 1..Len(batches) : batches'[b] = batches[b] \ {f}
 BY <1>1, <1>2, <1>3, IsASeq, LenProperties
<1>5. /\ chip'[f] = outcome /\ wire'[f] = "none" /\ f \notin handles'
      /\ \A g \in Attachments : chip'[g] = "none" <=> chip[g] = "none"
      /\ \A g \in Attachments : chip'[g] = "uploading" => g # f /\ chip[g] = "uploading"
      /\ chip[f] = "uploading"
 BY <1>0, <1>1 DEF UploadsTyped, AttachmentSound, HandleSound
<1>6. UploadsTyped' BY <1>0, <1>1, <1>4 DEF UploadsTyped, ChipStates, Aboard
<1>7. BatchesSound'
 <2>1. Len(batches') = 0 => \A g \in Attachments : chip'[g] = "none" BY <1>0, <1>4, <1>5 DEF BatchesSound
 <2>2. Len(batches') = 1 /\ ~uploading' => batches'[1] = {}
  <3> SUFFICES ASSUME Len(batches) = 1, ~uploading'
                PROVE  batches'[1] = {}
   BY <1>4
  <3>1. DOMAIN batches = {1} /\ batches'[1] = left[1] /\ batches'[1] = batches[1] \ {f} BY <1>1, <1>2, <1>4
  <3>2. CASE uploading BY <1>1, <3>1, <3>2
  <3>3. CASE ~uploading BY <1>0, <3>1, <3>3 DEF BatchesSound
  <3> QED BY <3>2, <3>3
 <2>3. \A g \in Attachments : chip'[g] = "uploading" => \E b \in 1..Len(batches') : g \in batches'[b]
  BY <1>0, <1>4, <1>5 DEF BatchesSound
 <2>4. SendTakesAll' BY <1>0, <1>4 DEF BatchesSound, SendTakesAll
 <2> QED BY <2>1, <2>2, <2>3, <2>4 DEF BatchesSound
<1>8. ASSUME NEW g \in Attachments PROVE AttachmentSound(g)'
 <2>1. CASE g = f
  <3>1. AttachmentSound(f) BY <1>0
  <3>2. HandleSound(f)' BY <1>5, <3>1 DEF AttachmentSound, HandleSound, Aboard
  <3>3. Delivered(f)' <=> Delivered(f) BY DEF Delivered, Unfinished
  <3>4. ChunksSound(f)' BY <1>5, <3>1, <3>3 DEF AttachmentSound, ChunksSound, Unfinished
  <3>5. BeliefSound(f)' BY <1>5, <3>1, <3>3 DEF AttachmentSound, HandleSound, BeliefSound, Believed
  <3> QED BY <2>1, <3>2, <3>4, <3>5 DEF AttachmentSound
 <2>2. CASE g # f BY <1>0, <1>1, <2>2, UntouchedSound DEF Untouched, UploadsTyped
 <2> QED BY <2>1, <2>2
<1> QED BY <1>6, <1>7, <1>8 DEF UploadsSound

LEMMA CreateUploadSound ==
  ASSUME UploadsSound, NEW f \in Attachments, CreateUpload(f)
  PROVE  UploadsSound'
<1>0. UploadsTyped /\ AttachmentSound(f) BY DEF UploadsSound
<1>1. /\ wire[f] = "create" /\ wire' = [wire EXCEPT ![f] = "idle"] /\ blob' = [blob EXCEPT ![f] = <<>>]
      /\ UNCHANGED <<chip, handles, batches, uploading, promised, leftBehind, acked, late, events, finalizing,
                     landed, spoiled, uploadsCrossed>>
 BY DEF CreateUpload, composerVars
<1>2. <<>> = UpTo(0) /\ <<>> \in Seq(Nat) /\ Len(<<>>) = 0 /\ <<>> # Whole /\ UpTo(0) \in InOrder
 <2>1. UpTo(0) \in Seq(Nat) /\ Len(UpTo(0)) = 0 BY UploadFacts
 <2>2. UpTo(0) = <<>> BY <2>1, EmptySeq
 <2>3. Len(Whole) = UploadPieces /\ UploadPieces # 0 /\ UploadPieces \in Nat BY UploadFacts
 <2>4. <<>> # Whole BY <2>1, <2>2, <2>3
 <2>5. UpTo(0) \in InOrder BY <2>3 DEF InOrder
 <2> QED BY <2>1, <2>2, <2>4, <2>5
<1>3. UploadsTyped' BY <1>0, <1>1, <1>2 DEF UploadsTyped, Aboard
<1>4. OnlyTouches(f) BY <1>0, <1>1 DEF OnlyTouches, Untouched, UploadsTyped
<1>5. wire'[f] = "idle" /\ blob'[f] = <<>> /\ chip[f] = "uploading" /\ late[f] = 0 /\ ~Unfinished(f)
 BY <1>0, <1>1 DEF UploadsTyped, AttachmentSound, HandleSound, ChunksSound, Aboard
<1>6. HandleSound(f)' BY <1>0, <1>1, <1>5 DEF AttachmentSound, HandleSound, Aboard
<1>7. ChunksSound(f)'
 <2>1. Len(blob'[f]) <= UploadPieces + 1 BY <1>2, <1>5, UploadFacts
 <2> QED BY <1>0, <1>1, <1>2, <1>5, <2>1 DEF AttachmentSound, ChunksSound, Unfinished
<1>8. BeliefSound(f)' BY <1>0, <1>1, <1>5 DEF AttachmentSound, HandleSound, BeliefSound, Believed
<1> QED BY <1>3, <1>4, <1>6, <1>7, <1>8, OnlyTouchesSound DEF AttachmentSound

LEMMA SendPieceSound ==
  ASSUME UploadsSound, NEW f \in Attachments, SendPiece(f)
  PROVE  UploadsSound'
<1>0. UploadsTyped /\ AttachmentSound(f) BY DEF UploadsSound
<1>1. /\ wire[f] = "idle" /\ acked[f] < UploadPieces /\ wire' = [wire EXCEPT ![f] = "sending"]
      /\ UNCHANGED <<chip, handles, batches, uploading, promised, leftBehind, acked, late, blob, events, finalizing,
                     landed, spoiled, uploadsCrossed>>
 BY DEF SendPiece, composerVars, serverVars
<1>2. UploadsTyped' BY <1>0, <1>1 DEF UploadsTyped, Aboard
<1>3. OnlyTouches(f) BY <1>0, <1>1 DEF OnlyTouches, Untouched, UploadsTyped
<1>4. wire'[f] = "sending" /\ chip[f] = "uploading" BY <1>0, <1>1 DEF UploadsTyped, AttachmentSound, HandleSound, Aboard
<1>5. HandleSound(f)' BY <1>0, <1>1, <1>4 DEF AttachmentSound, HandleSound, Aboard
<1>6. ChunksSound(f)' BY <1>0, <1>1, <1>4 DEF AttachmentSound, ChunksSound, Unfinished, Delivered
<1>7. BeliefSound(f)' BY <1>0, <1>1, <1>4 DEF AttachmentSound, HandleSound, BeliefSound, Believed
<1> QED BY <1>2, <1>3, <1>5, <1>6, <1>7, OnlyTouchesSound DEF AttachmentSound

\* A chunk is read in its place: what was stored before was not whole, and what
\* is stored now is whole when it is the last.
LEMMA ReadsInPlace ==
  ASSUME UploadsTyped, NEW f \in Attachments, ChunksSound(f), NEW n \in 1..UploadPieces, blob[f] # NoBlob,
         Len(blob[f]) + 1 = n, f \notin uploadsCrossed, Reads(f, n)
  PROVE  /\ blob'[f] = UpTo(n) /\ ~Unfinished(f) /\ (n # UploadPieces => blob'[f] # Whole)
         /\ UpTo(n) \in InOrder /\ UpTo(n) # NoBlob
<1>1. blob[f] \in InOrder /\ blob' = [blob EXCEPT ![f] = Append(@, n)] /\ (Unfinished(f) => blob[f] = Whole)
 BY DEF ChunksSound, Reads
<1>2. Len(blob[f]) = n - 1 /\ n - 1 \in Nat /\ n \in Nat /\ n <= UploadPieces /\ UploadPieces \in Nat
 BY <1>1, InOrderFacts, UploadFacts
<1>3. blob[f] = UpTo(n - 1) BY <1>1, <1>2, InOrderFacts
<1>4. Append(blob[f], n) = UpTo(n)
 <2>1. Append(UpTo(n - 1), (n - 1) + 1) = UpTo((n - 1) + 1) BY <1>2, NextInOrder
 <2>2. (n - 1) + 1 = n BY <1>2
 <2> QED BY <1>3, <2>1, <2>2
<1>5. blob'[f] = UpTo(n) BY <1>1, <1>4 DEF UploadsTyped
<1>6. Len(UpTo(n)) = n /\ Len(Whole) = UploadPieces /\ UpTo(n) # NoBlob BY <1>2, UploadFacts
<1>7. ~Unfinished(f) BY <1>1, <1>2, <1>6
<1>8. n # UploadPieces => blob'[f] # Whole BY <1>5, <1>6
<1>9. UpTo(n) \in InOrder BY <1>2 DEF InOrder
<1> QED BY <1>5, <1>6, <1>7, <1>8, <1>9

\* What a chunk that is read does to its file.
LEMMA ReadsSound ==
  ASSUME UploadsTyped, NEW f \in Attachments, ChunksSound(f), NEW n \in 1..UploadPieces, blob[f] # NoBlob,
         Len(blob[f]) <= UploadPieces, Reads(f, n), late'[f] # 0 => Len(blob[f]) < UploadPieces,
         Len(blob[f]) + 1 # n => f \in uploadsCrossed', uploadsCrossed \subseteq uploadsCrossed',
         chip'[f] # "none", wire'[f] # "create", acked'[f] = acked[f],
         wire'[f] \in {"sending", "stored", "answer"} => wire[f] \in {"sending", "stored", "answer"},
         UNCHANGED <<landed, finalizing, spoiled>>
  PROVE  /\ ChunksSound(f)' /\ (Delivered(f) => Delivered(f)') /\ (n = UploadPieces => Delivered(f)')
         /\ blob' \in [Attachments -> Seq(Nat)] /\ events' \subseteq Attachments
<1>1. /\ blob' = [blob EXCEPT ![f] = Append(@, n)]
      /\ events' = IF n = UploadPieces THEN events \cup {f} ELSE events
 BY DEF Reads
<1>2. blob[f] \in Seq(Nat) /\ n \in Nat /\ n # 0 /\ UploadPieces \in Nat /\ Len(blob[f]) \in Nat
 BY UploadFacts, LenProperties DEF UploadsTyped
<1>3. /\ blob'[f] = Append(blob[f], n) /\ Append(blob[f], n) \in Seq(Nat)
      /\ Len(blob'[f]) = Len(blob[f]) + 1 /\ blob'[f] # NoBlob
 BY <1>1, <1>2, AppendedChunk DEF UploadsTyped
<1>4. blob' \in [Attachments -> Seq(Nat)] /\ events' \subseteq Attachments /\ events \subseteq events'
 BY <1>1, <1>3 DEF UploadsTyped
<1>5. Unfinished(f) => Unfinished(f)' BY <1>4 DEF Unfinished
<1>6. Delivered(f) => Delivered(f)' BY <1>3, <1>5 DEF Delivered
<1>7. n = UploadPieces => Unfinished(f)' /\ Delivered(f)' BY <1>1, <1>3 DEF Unfinished, Delivered
<1>8. ASSUME f \notin uploadsCrossed'
      PROVE  /\ blob'[f] \in {NoBlob} \cup InOrder /\ landed'[f] \in {NoBlob, Whole}
             /\ Unfinished(f)' => blob'[f] \in {NoBlob, Whole}
             /\ blob'[f] = Whole => Delivered(f)'
 <2>1. f \notin uploadsCrossed /\ Len(blob[f]) + 1 = n BY <1>8
 <2>2. /\ blob'[f] = UpTo(n) /\ ~Unfinished(f) /\ (n # UploadPieces => blob'[f] # Whole)
       /\ UpTo(n) \in InOrder /\ UpTo(n) # NoBlob
  BY <2>1, ReadsInPlace
 <2>3. n # UploadPieces => ~Unfinished(f)' BY <1>1, <2>2 DEF Unfinished
 <2>4. landed[f] \in {NoBlob, Whole} /\ Whole = UpTo(UploadPieces) BY <2>1, UploadFacts DEF ChunksSound
 <2> QED BY <1>7, <2>2, <2>3, <2>4
<1>9. ChunksSound(f)'
 <2>1. Len(blob'[f]) <= UploadPieces + 1 /\ (late'[f] # 0 => Len(blob'[f]) <= UploadPieces) BY <1>2, <1>3
 <2>2. wire'[f] \in {"sending", "stored", "answer"} => acked'[f] < UploadPieces BY DEF ChunksSound
 <2> QED BY <1>8, <2>1, <2>2 DEF ChunksSound
<1> QED BY <1>4, <1>6, <1>7, <1>9

LEMMA StorePieceSound ==
  ASSUME UploadsSound, NEW f \in Attachments, StorePiece(f)
  PROVE  UploadsSound'
<1>0. UploadsTyped /\ AttachmentSound(f) /\ HandleSound(f) /\ ChunksSound(f) /\ BeliefSound(f)
 BY DEF UploadsSound, AttachmentSound
<1>1. /\ wire[f] = "sending" /\ chip[f] = "uploading" /\ f \in handles /\ f \notin promised
      /\ UNCHANGED <<chip, handles, batches, uploading, promised, leftBehind, acked, late, finalizing, landed, spoiled>>
 BY <1>0 DEF StorePiece, composerVars, HandleSound, Aboard
<1>2. acked[f] \in Nat /\ acked[f] < UploadPieces /\ acked[f] + 1 \in 1..UploadPieces /\ UploadPieces \in Nat
 BY <1>0, <1>1, UploadsAssumption DEF UploadsTyped, ChunksSound
<1>3. CASE /\ blob[f] # NoBlob /\ Len(blob[f]) = acked[f] /\ Reads(f, acked[f] + 1)
           /\ wire' = [wire EXCEPT ![f] = IF acked[f] + 1 = UploadPieces THEN "stored" ELSE "answer"]
           /\ uploadsCrossed' = IF late[f] # 0 THEN uploadsCrossed \cup {f} ELSE uploadsCrossed
 <2>1. /\ wire'[f] = IF acked[f] + 1 = UploadPieces THEN "stored" ELSE "answer"
       /\ wire' \in [Attachments -> Aboard \cup {"none", "terminate"}]
  BY <1>0, <1>3 DEF UploadsTyped, Aboard
 <2>2. uploadsCrossed \subseteq uploadsCrossed' /\ Len(blob[f]) + 1 = acked[f] + 1 /\ Len(blob[f]) < UploadPieces BY <1>2, <1>3
 <2>3. Len(blob[f]) <= UploadPieces BY <1>2, <1>3
 <2>4. /\ ChunksSound(f)' /\ (acked[f] + 1 = UploadPieces => Delivered(f)')
       /\ blob' \in [Attachments -> Seq(Nat)] /\ events' \subseteq Attachments
  BY <1>0, <1>1, <1>2, <1>3, <2>1, <2>2, <2>3, ReadsSound
 <2>5. UploadsTyped' BY <1>0, <1>1, <2>1, <2>4 DEF UploadsTyped
 <2>6. OnlyTouches(f) BY <1>0, <1>1, <1>3 DEF OnlyTouches, Untouched, UploadsTyped, Reads
 <2>7. HandleSound(f)' BY <1>1, <2>1 DEF HandleSound, Aboard
 <2>8. BeliefSound(f)' BY <1>1, <2>1, <2>4 DEF BeliefSound, Believed
 <2> QED BY <2>4, <2>5, <2>6, <2>7, <2>8, OnlyTouchesSound DEF AttachmentSound
<1>4. CASE wire' = [wire EXCEPT ![f] = "lost"] /\ UNCHANGED <<blob, events, uploadsCrossed>>
 <2>1. wire'[f] = "lost" /\ UploadsTyped' BY <1>0, <1>1, <1>4 DEF UploadsTyped, Aboard
 <2>2. OnlyTouches(f) BY <1>0, <1>1, <1>4 DEF OnlyTouches, Untouched, UploadsTyped
 <2>3. HandleSound(f)' BY <1>1, <2>1 DEF HandleSound, Aboard
 <2>4. ChunksSound(f)' BY <1>0, <1>1, <1>4, <2>1 DEF ChunksSound, Unfinished, Delivered
 <2>5. BeliefSound(f)' BY <1>1, <2>1 DEF BeliefSound, Believed
 <2> QED BY <2>1, <2>2, <2>3, <2>4, <2>5, OnlyTouchesSound DEF AttachmentSound
<1> QED BY <1>3, <1>4 DEF StorePiece

LEMMA StoreLateSound ==
  ASSUME UploadsSound, NEW f \in Attachments, StoreLate(f)
  PROVE  UploadsSound'
<1>0. UploadsTyped /\ AttachmentSound(f) /\ HandleSound(f) /\ ChunksSound(f) /\ BeliefSound(f)
 BY DEF UploadsSound, AttachmentSound
<1>1. /\ late[f] # 0 /\ late' = [late EXCEPT ![f] = 0]
      /\ UNCHANGED <<chip, handles, batches, uploading, promised, leftBehind, acked, wire, finalizing, landed, spoiled>>
 BY DEF StoreLate, composerVars
<1>2. late'[f] = 0 /\ late[f] \in 1..UploadPieces /\ late' \in [Attachments -> 0..UploadPieces]
 BY <1>0, <1>1, UploadsAssumption DEF UploadsTyped
<1>3. chip[f] # "none" /\ wire[f] # "create" BY <1>0, <1>1 DEF ChunksSound
<1>4. HandleSound(f)' BY <1>0, <1>1 DEF HandleSound
<1>5. CASE /\ blob[f] # NoBlob /\ Reads(f, late[f])
           /\ uploadsCrossed' = IF Len(blob[f]) + 1 # late[f] THEN uploadsCrossed \cup {f} ELSE uploadsCrossed
 <2>1. Len(blob[f]) <= UploadPieces /\ uploadsCrossed \subseteq uploadsCrossed'
       /\ (Len(blob[f]) + 1 # late[f] => f \in uploadsCrossed')
  BY <1>0, <1>1, <1>5 DEF ChunksSound
 <2>2. /\ ChunksSound(f)' /\ (Delivered(f) => Delivered(f)')
       /\ blob' \in [Attachments -> Seq(Nat)] /\ events' \subseteq Attachments
  BY <1>0, <1>1, <1>2, <1>3, <1>5, <2>1, ReadsSound
 <2>3. UploadsTyped' BY <1>0, <1>1, <1>2, <2>2 DEF UploadsTyped
 <2>4. OnlyTouches(f) BY <1>0, <1>1, <1>5 DEF OnlyTouches, Untouched, UploadsTyped, Reads
 <2>5. BeliefSound(f)' BY <1>0, <1>1, <2>2 DEF BeliefSound, Believed
 <2> QED BY <1>4, <2>2, <2>3, <2>4, <2>5, OnlyTouchesSound DEF AttachmentSound
<1>6. CASE UNCHANGED <<blob, events, uploadsCrossed>>
 <2>1. UploadsTyped' BY <1>0, <1>1, <1>2, <1>6 DEF UploadsTyped
 <2>2. OnlyTouches(f) BY <1>0, <1>1, <1>6 DEF OnlyTouches, Untouched, UploadsTyped
 <2>3. ChunksSound(f)' /\ BeliefSound(f)'
  BY <1>0, <1>1, <1>2, <1>3, <1>6 DEF ChunksSound, BeliefSound, Believed, Unfinished, Delivered
 <2> QED BY <1>4, <2>1, <2>2, <2>3, OnlyTouchesSound DEF AttachmentSound
<1> QED BY <1>5, <1>6 DEF StoreLate

LEMMA EmitSound ==
  ASSUME UploadsSound, NEW f \in Attachments, Emit(f)
  PROVE  UploadsSound'
<1>0. UploadsTyped /\ AttachmentSound(f) /\ HandleSound(f) /\ ChunksSound(f) /\ BeliefSound(f)
 BY DEF UploadsSound, AttachmentSound
<1>1. /\ f \in events /\ finalizing = {} /\ finalizing' = {f} /\ events' = events \ {f}
      /\ wire' = [wire EXCEPT ![f] = IF @ = "stored" THEN "answer" ELSE @]
      /\ UNCHANGED <<chip, handles, batches, uploading, promised, leftBehind, acked, late, blob, landed, spoiled,
                     uploadsCrossed>>
 BY DEF Emit, composerVars
<1>2. /\ wire'[f] = IF wire[f] = "stored" THEN "answer" ELSE wire[f]
      /\ UploadsTyped'
 BY <1>0, <1>1 DEF UploadsTyped, Aboard
<1>3. \A g \in Attachments : g \in events' \cup finalizing' <=> g \in events \cup finalizing BY <1>1
<1>4. OnlyTouches(f) BY <1>0, <1>1, <1>3 DEF OnlyTouches, Untouched, UploadsTyped
<1>5. HandleSound(f)' BY <1>0, <1>1, <1>2 DEF HandleSound, Aboard
<1>6. (Delivered(f)' <=> Delivered(f)) /\ (Unfinished(f)' <=> Unfinished(f)) BY <1>1, <1>3 DEF Delivered, Unfinished
<1>7. ChunksSound(f)' BY <1>0, <1>1, <1>2, <1>6 DEF ChunksSound
<1>8. BeliefSound(f)' BY <1>0, <1>1, <1>2, <1>6 DEF BeliefSound, Believed
<1> QED BY <1>2, <1>4, <1>5, <1>7, <1>8, OnlyTouchesSound DEF AttachmentSound

LEMMA AnswerPieceSound ==
  ASSUME UploadsSound, NEW f \in Attachments, AnswerPiece(f)
  PROVE  UploadsSound'
<1>0. UploadsTyped /\ AttachmentSound(f) /\ HandleSound(f) /\ ChunksSound(f) /\ BeliefSound(f)
 BY DEF UploadsSound, AttachmentSound
<1>1. /\ wire[f] = "answer" /\ acked' = [acked EXCEPT ![f] = @ + 1]
      /\ UNCHANGED <<promised, leftBehind, late, blob, events, finalizing, landed, spoiled, uploadsCrossed>>
 BY DEF AnswerPiece, serverVars
<1>2. f \in handles /\ acked[f] \in Nat /\ acked[f] < UploadPieces /\ UploadPieces \in Nat
 BY <1>0, <1>1, UploadFacts DEF HandleSound, ChunksSound, UploadsTyped, Aboard
<1>3. /\ acked'[f] = acked[f] + 1 /\ acked' \in [Attachments -> 0..UploadPieces + 1]
      /\ \A g \in Attachments \ {f} : acked'[g] = acked[g]
 BY <1>0, <1>1, <1>2 DEF UploadsTyped
<1>4. CASE acked'[f] = UploadPieces /\ Resolves(f, "done")
 <2>1. Delivered(f) BY <1>0, <1>1, <1>3, <1>4 DEF BeliefSound, Believed
 <2> QED BY <1>1, <1>2, <1>3, <1>4, <2>1, ResolvesSound
<1>5. CASE wire' = [wire EXCEPT ![f] = "idle"] /\ UNCHANGED <<chip, handles, batches, uploading>>
 <2>1. wire'[f] = "idle" /\ UploadsTyped' BY <1>0, <1>1, <1>3, <1>5 DEF UploadsTyped, Aboard
 <2>2. OnlyTouches(f) BY <1>0, <1>1, <1>3, <1>5 DEF OnlyTouches, Untouched, UploadsTyped
 <2>3. HandleSound(f)' BY <1>0, <1>1, <1>5, <2>1 DEF HandleSound, Aboard
 <2>4. ChunksSound(f)' BY <1>0, <1>1, <1>5, <2>1 DEF ChunksSound, Unfinished, Delivered
 <2>5. BeliefSound(f)' BY <1>0, <1>1, <1>2, <1>5, <2>1 DEF HandleSound, BeliefSound, Believed
 <2> QED BY <2>1, <2>2, <2>3, <2>4, <2>5, OnlyTouchesSound DEF AttachmentSound
<1> QED BY <1>4, <1>5 DEF AnswerPiece

LEMMA DropConnectionSound ==
  ASSUME UploadsSound, NEW f \in Attachments, DropConnection(f)
  PROVE  UploadsSound'
<1>0. UploadsTyped /\ AttachmentSound(f) /\ HandleSound(f) /\ ChunksSound(f) /\ BeliefSound(f)
 BY DEF UploadsSound, AttachmentSound
<1>1. /\ wire[f] \in {"sending", "stored", "answer"} /\ wire' = [wire EXCEPT ![f] = "lost"]
      /\ UNCHANGED <<chip, handles, batches, uploading, promised, leftBehind, acked, blob, events, finalizing, landed,
                     spoiled, uploadsCrossed>>
 BY DEF DropConnection, composerVars, serverVars
<1>2. /\ acked[f] \in Nat /\ acked[f] < UploadPieces /\ UploadPieces \in Nat
      /\ chip[f] = "uploading" /\ f \in handles /\ f \notin promised
 BY <1>0, <1>1, UploadsAssumption DEF HandleSound, ChunksSound, UploadsTyped, Aboard
<1>3. /\ late' \in [Attachments -> 0..UploadPieces] /\ \A g \in Attachments \ {f} : late'[g] = late[g]
      /\ late'[f] = late[f] \/ (blob[f] # NoBlob /\ Len(blob[f]) <= UploadPieces)
 <2>1. CASE late' = late BY <1>0, <2>1 DEF UploadsTyped
 <2>2. CASE blob[f] # NoBlob /\ Len(blob[f]) = acked[f] /\ late' = [late EXCEPT ![f] = acked[f] + 1]
  BY <1>0, <1>2, <2>2 DEF UploadsTyped
 <2> QED BY <2>1, <2>2 DEF DropConnection
<1>4. wire'[f] = "lost" /\ UploadsTyped' BY <1>0, <1>1, <1>3 DEF UploadsTyped, Aboard
<1>5. OnlyTouches(f) BY <1>0, <1>1, <1>3 DEF OnlyTouches, Untouched, UploadsTyped
<1>6. HandleSound(f)' BY <1>0, <1>1, <1>2, <1>4 DEF HandleSound, Aboard
<1>7. ChunksSound(f)' BY <1>0, <1>1, <1>2, <1>3, <1>4 DEF ChunksSound, Unfinished, Delivered
<1>8. BeliefSound(f)' BY <1>0, <1>1, <1>2, <1>4 DEF BeliefSound, Believed
<1> QED BY <1>4, <1>5, <1>6, <1>7, <1>8, OnlyTouchesSound DEF AttachmentSound

LEMMA ResumeSound ==
  ASSUME UploadsSound, NEW f \in Attachments, Resume(f)
  PROVE  UploadsSound'
<1>0. UploadsTyped /\ AttachmentSound(f) /\ HandleSound(f) /\ ChunksSound(f) /\ BeliefSound(f)
 BY DEF UploadsSound, AttachmentSound
<1>1. /\ wire[f] = "lost" /\ f \in handles /\ f \notin promised /\ chip[f] = "uploading"
      /\ UNCHANGED <<promised, leftBehind, late, blob, events, finalizing, landed, spoiled, uploadsCrossed>>
 BY <1>0 DEF Resume, serverVars, HandleSound, Aboard
<1>2. UploadPieces \in Nat /\ Len(blob[f]) \in Nat /\ Len(blob[f]) <= UploadPieces + 1
 BY <1>0, UploadsAssumption, LenProperties DEF UploadsTyped, ChunksSound
<1>3. ASSUME blob[f] # NoBlob, acked' = [acked EXCEPT ![f] = Len(blob[f])]
      PROVE  /\ acked'[f] = Len(blob[f]) /\ acked' \in [Attachments -> 0..UploadPieces + 1]
             /\ \A g \in Attachments \ {f} : acked'[g] = acked[g]
 BY <1>0, <1>2, <1>3 DEF UploadsTyped
<1>4. CASE /\ blob[f] # NoBlob /\ acked' = [acked EXCEPT ![f] = Len(blob[f])]
           /\ Len(blob[f]) >= UploadPieces /\ Resolves(f, "done")
 <2>1. Delivered(f)
  <3> SUFFICES ASSUME f \notin uploadsCrossed PROVE Delivered(f) BY DEF Delivered
  <3>1. blob[f] \in InOrder BY <1>0, <1>4 DEF ChunksSound
  <3>2. Len(blob[f]) = UploadPieces /\ blob[f] = UpTo(Len(blob[f])) BY <1>2, <1>4, <3>1, InOrderFacts
  <3>3. blob[f] = Whole BY <3>2, UploadFacts
  <3> QED BY <1>0, <3>3 DEF ChunksSound
 <2> QED BY <1>1, <1>3, <1>4, <2>1, ResolvesSound
<1>5. CASE /\ blob[f] # NoBlob /\ acked' = [acked EXCEPT ![f] = Len(blob[f])]
           /\ wire' = [wire EXCEPT ![f] = "idle"] /\ UNCHANGED <<chip, handles, batches, uploading>>
 <2>1. wire'[f] = "idle" /\ UploadsTyped' BY <1>0, <1>1, <1>3, <1>5 DEF UploadsTyped, Aboard
 <2>2. OnlyTouches(f) BY <1>0, <1>1, <1>3, <1>5 DEF OnlyTouches, Untouched, UploadsTyped
 <2>3. HandleSound(f)' BY <1>0, <1>1, <1>5, <2>1 DEF HandleSound, Aboard
 <2>4. ChunksSound(f)' BY <1>0, <1>1, <1>5, <2>1 DEF ChunksSound, Unfinished, Delivered
 <2>5. BeliefSound(f)' BY <1>1, <1>5, <2>1 DEF BeliefSound, Believed
 <2> QED BY <2>1, <2>2, <2>3, <2>4, <2>5, OnlyTouchesSound DEF AttachmentSound
<1>6. CASE Resolves(f, "failed") /\ UNCHANGED acked BY <1>0, <1>1, <1>6, ResolvesSound DEF UploadsTyped
<1> QED BY <1>4, <1>5, <1>6 DEF Resume

LEMMA TerminateSound ==
  ASSUME UploadsSound, NEW f \in Attachments, Terminate(f)
  PROVE  UploadsSound'
<1>0. UploadsTyped /\ AttachmentSound(f) /\ HandleSound(f) /\ ChunksSound(f) /\ BeliefSound(f)
 BY DEF UploadsSound, AttachmentSound
<1>1. /\ wire[f] = "terminate" /\ wire' = [wire EXCEPT ![f] = "none"] /\ blob' = [blob EXCEPT ![f] = NoBlob]
      /\ UNCHANGED <<chip, handles, batches, uploading, promised, leftBehind, acked, late, events, finalizing, landed,
                     spoiled, uploadsCrossed>>
 BY DEF Terminate, composerVars
<1>2. f \notin handles /\ f \notin promised /\ chip[f] = "gone" /\ NoBlob # Whole /\ NoBlob \in Seq(Nat) /\ Len(NoBlob) = 1
 BY <1>0, <1>1, UploadFacts DEF HandleSound, Aboard
<1>3. wire'[f] = "none" /\ blob'[f] = NoBlob /\ UploadsTyped' BY <1>0, <1>1, <1>2 DEF UploadsTyped, Aboard
<1>4. OnlyTouches(f) BY <1>0, <1>1 DEF OnlyTouches, Untouched, UploadsTyped
<1>5. HandleSound(f)' BY <1>1, <1>2, <1>3 DEF HandleSound, Aboard
<1>6. ChunksSound(f)'
 <2>1. Len(blob'[f]) <= UploadPieces + 1
  <3>1. Len(blob'[f]) = 1 /\ 1 <= UploadPieces + 1 BY <1>3, UploadFacts
  <3> QED BY <3>1
 <2> QED BY <1>0, <1>1, <1>2, <1>3, <2>1 DEF ChunksSound
<1>7. BeliefSound(f)' BY <1>1, <1>2, <1>3 DEF BeliefSound, Believed
<1> QED BY <1>3, <1>4, <1>5, <1>6, <1>7, OnlyTouchesSound DEF AttachmentSound

----
\* The consumer.

LEMMA FinalizeSound ==
  ASSUME UploadsSound, NEW f \in Attachments, Finalize(f)
  PROVE  UploadsSound'
<1>0. UploadsTyped /\ AttachmentSound(f) /\ HandleSound(f) /\ ChunksSound(f) /\ BeliefSound(f)
 BY DEF UploadsSound, AttachmentSound
<1>1. /\ f \in finalizing /\ finalizing' = finalizing \ {f}
      /\ UNCHANGED <<chip, handles, batches, uploading, promised, leftBehind, acked, wire, late, events, uploadsCrossed>>
 BY DEF Finalize, composerVars
<1>2. /\ Unfinished(f) /\ chip[f] # "none" /\ wire[f] # "create" /\ NoBlob # Whole /\ NoBlob \in Seq(Nat)
      /\ Len(NoBlob) = 1 /\ UploadPieces \in Nat
 BY <1>0, <1>1, UploadFacts DEF Unfinished, ChunksSound
<1>3. HandleSound(f)' BY <1>0, <1>1 DEF HandleSound
<1>4. /\ Unfinished(f)' => Unfinished(f)
      /\ \A g \in Attachments \ {f} : g \in events' \cup finalizing' <=> g \in events \cup finalizing
 BY <1>1 DEF Unfinished
<1>5. CASE /\ blob[f] # NoBlob /\ landed' = [landed EXCEPT ![f] = blob[f]]
           /\ blob' = [blob EXCEPT ![f] = NoBlob] /\ UNCHANGED spoiled
 <2>1. landed'[f] = blob[f] /\ blob'[f] = NoBlob /\ UploadsTyped' BY <1>0, <1>1, <1>2, <1>5 DEF UploadsTyped
 <2>2. OnlyTouches(f) BY <1>0, <1>1, <1>4, <1>5 DEF OnlyTouches, Untouched, UploadsTyped
 <2>3. Delivered(f)' BY <1>5, <2>1 DEF Delivered
 <2>4. ChunksSound(f)'
  <3>1. Len(blob'[f]) <= UploadPieces + 1
   <4>1. Len(blob'[f]) = 1 /\ 1 <= UploadPieces + 1 BY <2>1, UploadFacts
   <4> QED BY <4>1
  <3>2. f \notin uploadsCrossed' => landed'[f] \in {NoBlob, Whole} BY <1>0, <1>1, <1>2, <1>5, <2>1 DEF ChunksSound
  <3> QED BY <1>0, <1>1, <1>2, <2>1, <2>3, <3>1, <3>2 DEF ChunksSound
 <2>5. BeliefSound(f)' BY <2>3 DEF BeliefSound
 <2> QED BY <1>3, <2>1, <2>2, <2>4, <2>5, OnlyTouchesSound DEF AttachmentSound
<1>6. CASE UNCHANGED <<landed, blob>> /\ spoiled' \in {spoiled, spoiled \cup {f}}
           /\ (blob[f] = NoBlob \/ landed[f] # NoBlob \/ spoiled' = spoiled \cup {f})
 <2>1. UploadsTyped' BY <1>0, <1>1, <1>6 DEF UploadsTyped
 <2>2. OnlyTouches(f) BY <1>1, <1>4, <1>6 DEF OnlyTouches, Untouched
 <2>3. Delivered(f) => Delivered(f)' BY <1>1, <1>6 DEF Delivered
 <2>4. ChunksSound(f)' BY <1>0, <1>1, <1>2, <1>4, <1>6, <2>3 DEF ChunksSound
 <2>5. BeliefSound(f)' BY <1>0, <1>1, <2>3 DEF BeliefSound, Believed
 <2> QED BY <1>3, <2>1, <2>2, <2>4, <2>5, OnlyTouchesSound DEF AttachmentSound
<1> QED BY <1>5, <1>6 DEF Finalize

LEMMA UploadServerRestartsSound ==
  ASSUME UploadsSound, UploadServerRestarts
  PROVE  UploadsSound'
<1>0. UploadsTyped /\ BatchesSound /\ \A f \in Attachments : AttachmentSound(f) BY DEF UploadsSound
<1>1. /\ spoiled' = spoiled \cup finalizing \cup events /\ events' = {} /\ finalizing' = {}
      /\ late' = [f \in Attachments |-> 0]
      /\ wire' = [f \in Attachments |-> IF wire[f] \in {"sending", "stored", "answer"} THEN "lost" ELSE wire[f]]
      /\ UNCHANGED <<chip, handles, batches, uploading, promised, leftBehind, blob, landed, acked, uploadsCrossed>>
 BY DEF UploadServerRestarts, composerVars
<1>2. 0 \in 0..UploadPieces BY UploadsAssumption
<1>3. UploadsTyped' BY <1>0, <1>1, <1>2 DEF UploadsTyped, Aboard
<1>4. BatchesSound' BY <1>0, <1>1 DEF BatchesSound, SendTakesAll
<1>5. ASSUME NEW f \in Attachments PROVE AttachmentSound(f)'
 <2>1. /\ HandleSound(f) /\ ChunksSound(f) /\ BeliefSound(f) /\ late'[f] = 0
       /\ wire'[f] = IF wire[f] \in {"sending", "stored", "answer"} THEN "lost" ELSE wire[f]
  BY <1>0, <1>1 DEF AttachmentSound
 <2>2. Delivered(f) => Delivered(f)' BY <1>1 DEF Delivered, Unfinished
 <2>3. ~Unfinished(f)' BY <1>1 DEF Unfinished
 <2>4. HandleSound(f)' BY <1>1, <2>1 DEF HandleSound, Aboard
 <2>5. ChunksSound(f)' BY <1>1, <2>1, <2>2, <2>3 DEF ChunksSound
 <2>6. BeliefSound(f)' BY <1>1, <2>1, <2>2 DEF BeliefSound, Believed
 <2> QED BY <2>4, <2>5, <2>6 DEF AttachmentSound
<1> QED BY <1>3, <1>4, <1>5 DEF UploadsSound

LEMMA UploadsRests == UploadsSound /\ UNCHANGED uploadVars => UploadsSound'
<1> SUFFICES ASSUME UploadsSound, UNCHANGED uploadVars PROVE UploadsSound' OBVIOUS
<1>1. UNCHANGED <<chip, handles, batches, uploading, promised, leftBehind, acked, wire, late, blob, events, finalizing,
                  landed, spoiled, uploadsCrossed>>
 BY DEF uploadVars, composerVars, serverVars
<1>2. \A f \in Attachments : AttachmentSound(f)' BY <1>1, UntouchedSound DEF UploadsSound, Untouched
<1> QED BY <1>1, <1>2 DEF UploadsSound, UploadsTyped, BatchesSound, SendTakesAll

LEMMA UploadsStepSound ==
  ASSUME UploadsSound, UploadsNext
  PROVE  UploadsSound'
BY DoUploadSound, RemoveAttachmentSound, SendSound, CreateUploadSound, SendPieceSound, StorePieceSound, StoreLateSound,
   EmitSound, AnswerPieceSound, DropConnectionSound, ResumeSound, TerminateSound, FinalizeSound,
   UploadServerRestartsSound DEF UploadsNext, UploadStep

----
\* Reading a workspace.

Places == {"none", "waiting", "writing", "serving", "refused", "failed", "over"}

FilesTyped ==
  /\ present \subseteq FolderEntries /\ dangling \subseteq LinkEntries
  /\ scan \in [open : BOOLEAN, unread : SUBSET FolderEntries, seen : SUBSET FolderEntries,
               accepted : SUBSET FolderEntries, kept : SUBSET FolderEntries]
  /\ search \in [next : 0..EntryCount + 1, visits : Nat, results : SUBSET FolderEntries,
                 truncated : BOOLEAN, stayed : SUBSET FolderEntries]
  /\ download \in [Downloads -> [at : Places, next : Nat, bytes : Nat, entries : Nat, spool : Nat,
                                 names : SUBSET FolderEntries, stayed : SUBSET FolderEntries]]
  /\ slots \in 0..SpoolSlots /\ fileEvents \in Nat

\* What is kept of a listing comes before what was put aside, and nothing is put
\* aside while there is room.
ScanSound ==
  /\ scan.kept \subseteq scan.accepted /\ scan.accepted \subseteq scan.seen
  /\ \A e \in scan.kept, g \in scan.accepted \ scan.kept : Before(e, g)
  /\ Cardinality(scan.kept) <= ListLimit
  /\ Cardinality(scan.kept) < ListLimit => scan.kept = scan.accepted

\* A walk that has not been cut short has every match behind it that stayed.
WalkSound ==
  /\ search.stayed \subseteq present
  /\ ~search.truncated => \A e \in search.stayed : e < search.next /\ Matches(e) => e \in search.results

\* So has the walk of an archive, but for folders and links that lead nowhere.
ArchiveSound(d) ==
  /\ download[d].stayed \subseteq present
  /\ \A e \in download[d].stayed \ dangling :
       e < download[d].next => e \in download[d].names \cup DirEntries
  /\ download[d].at = "serving" => download[d].next > EntryCount

Holders == {d \in Downloads : download[d].at \in {"writing", "serving"}}
SpoolSound == IsFiniteSet(Holders) /\ slots = Cardinality(Holders) /\ temporaries = Holders

FilesSound ==
  FilesTyped /\ ScanSound /\ WalkSound /\ SpoolSound /\ \A d \in Downloads : ArchiveSound(d)

LEMMA FileFacts ==
  /\ EntryCount \in Nat /\ ListLimit \in Nat /\ SearchLimit \in Nat /\ VisitLimit \in Nat /\ ByteLimit \in Nat
  /\ EntryLimit \in Nat /\ SpoolLimit \in Nat /\ SpoolSlots \in Nat /\ SpoolSlots > 0 /\ FileSizes \subseteq Nat
  /\ \A e \in FolderEntries : e \in Nat /\ e >= 1 /\ e <= EntryCount
BY WorkspaceFilesAssumption DEF FolderEntries

LEMMA SomeEntries ==
  ASSUME NEW S \in SUBSET FolderEntries
  PROVE  IsFiniteSet(S) /\ Cardinality(S) \in Nat
<1>1. IsFiniteSet(FolderEntries) BY FileFacts, FS_Interval DEF FolderEntries
<1> QED BY <1>1, FS_Subset, FS_CardinalityType

\* The order a folder is shown in.
LEMMA BeforeIsTotal ==
  ASSUME NEW a \in FolderEntries, NEW b \in FolderEntries, NEW c \in FolderEntries
  PROVE  /\ Before(a, b) <=> Precedes(a, b)
         /\ a # b => (Before(a, b) <=> ~Before(b, a))
         /\ ~Before(a, a)
         /\ Before(a, b) /\ Before(b, c) => Before(a, c)
BY FileFacts DEF Before, Precedes

LEMMA LastEntry ==
  ASSUME NEW S \in SUBSET FolderEntries, S # {}
  PROVE  \E e \in S : \A g \in S : g <= e
<1> DEFINE Bounds == {n \in Nat : \A g \in S : g <= n}
<1>1. Bounds \subseteq Nat /\ EntryCount \in Bounds BY FileFacts
<1>2. PICK n \in Bounds : \A m \in Bounds : <<m, n>> \notin OpToRel(<, Nat)
 <2> HIDE DEF Bounds
 <2> QED BY <1>1, NatLessThanWellFounded, WFMin
<1>3. \A m \in Bounds : ~(m < n) BY <1>2 DEF OpToRel
<1>4. n \in S
 <2> SUFFICES ASSUME n \notin S PROVE FALSE OBVIOUS
 <2>1. \A g \in S : g \in Nat /\ g >= 1 /\ g <= n /\ g # n BY FileFacts
 <2>2. n \in Nat /\ n > 0 /\ \A g \in S : g <= n - 1 BY <2>1
 <2>3. n - 1 \in Bounds /\ n - 1 < n BY <2>2
 <2> QED BY <1>3, <2>3
<1> QED BY <1>4

LEMMA WorstIsLast ==
  ASSUME NEW S \in SUBSET FolderEntries, S # {}
  PROVE  Worst(S) \in S /\ \A g \in S \ {Worst(S)} : Before(g, Worst(S))
<1>1. \E e \in S : \A g \in S \ {e} : Before(g, e)
 <2>1. CASE S \subseteq DirEntries
  <3>1. PICK e \in S : \A g \in S : g <= e BY LastEntry
  <3> QED BY <2>1, <3>1, FileFacts DEF Before
 <2>2. CASE ~(S \subseteq DirEntries)
  <3>1. PICK e \in S \ DirEntries : \A g \in S \ DirEntries : g <= e BY <2>2, LastEntry
  <3>2. \A g \in S \ {e} : Before(g, e) BY <3>1, FileFacts DEF Before
  <3> QED BY <3>1, <3>2
 <2> QED BY <2>1, <2>2
<1> QED BY <1>1 DEF Worst

----
\* The listing.

LEMMA ScanSoundIsExact == FilesTyped /\ ScanSound => ListingExact
<1> SUFFICES ASSUME FilesTyped, ScanSound PROVE ListingExact OBVIOUS
<1> DEFINE first == scan.kept
            taken == scan.accepted
            ahead(e) == {g \in taken : Precedes(g, e)}
<1>1. /\ first \subseteq taken /\ taken \subseteq FolderEntries
      /\ \A e \in first, g \in taken \ first : Before(e, g)
      /\ Cardinality(first) <= ListLimit
      /\ Cardinality(first) < ListLimit => first = taken
 BY DEF FilesTyped, ScanSound
<1> HIDE DEF first, taken
<1>2. IsFiniteSet(first) /\ Cardinality(first) \in Nat /\ ListLimit \in Nat BY <1>1, SomeEntries, FileFacts
<1>3. ASSUME NEW e \in first
      PROVE  Cardinality(ahead(e)) < ListLimit
 <2>1. ahead(e) \subseteq first \ {e}
  <3> SUFFICES ASSUME NEW g \in ahead(e) PROVE g \in first \ {e} OBVIOUS
  <3>1. g \in FolderEntries /\ e \in FolderEntries /\ Before(g, e) BY <1>1, BeforeIsTotal
  <3>2. g # e /\ ~Before(e, g) BY <3>1, BeforeIsTotal
  <3> QED BY <1>1, <3>2
 <2>2. /\ IsFiniteSet(first \ {e}) /\ Cardinality(first \ {e}) = Cardinality(first) - 1 BY <1>2, FS_RemoveElement
 <2>3. Cardinality(ahead(e)) <= Cardinality(first \ {e}) /\ Cardinality(ahead(e)) \in Nat
  BY <2>1, <2>2, FS_Subset, FS_CardinalityType
 <2> QED BY <1>1, <1>2, <2>2, <2>3
<1>4. ASSUME NEW e \in taken \ first
      PROVE  ~(Cardinality(ahead(e)) < ListLimit)
 <2>1. first \subseteq ahead(e) BY <1>1, BeforeIsTotal
 <2>2. IsFiniteSet(ahead(e)) /\ Cardinality(ahead(e)) \in Nat BY <1>1, SomeEntries
 <2>3. Cardinality(first) <= Cardinality(ahead(e)) BY <2>1, <2>2, FS_Subset
 <2>4. Cardinality(first) = ListLimit BY <1>1, <1>2
 <2> QED BY <1>2, <2>2, <2>3, <2>4
<1>5. first = {e \in taken : Cardinality(ahead(e)) < ListLimit} BY <1>1, <1>3, <1>4
<1> QED BY <1>1, <1>5 DEF ListingExact, first, taken

LEMMA FilesSoundIsEnough == FilesSound => FilesInvariant
<1> SUFFICES ASSUME FilesSound PROVE FilesInvariant OBVIOUS
<1>0. FilesTyped /\ ScanSound /\ WalkSound /\ SpoolSound /\ \A d \in Downloads : ArchiveSound(d) BY DEF FilesSound
<1>1. FilesTypeOK BY <1>0 DEF FilesTyped, FilesTypeOK, SpoolSound, Holders
<1>2. ListingExact BY <1>0, ScanSoundIsExact
<1>3. SearchHonest
 <2> SUFFICES ASSUME search.next = EntryCount + 1, ~search.truncated, NEW e \in search.stayed, Matches(e)
               PROVE  e \in search.results
  BY DEF SearchHonest
 <2>1. e \in FolderEntries /\ e < EntryCount + 1 BY <1>0, FileFacts DEF FilesTyped
 <2> QED BY <1>0, <2>1 DEF WalkSound
<1>4. SlotsExact BY <1>0 DEF SpoolSound, SlotsExact, Holders
<1>5. ArchiveWhole
 <2> SUFFICES ASSUME NEW d \in Downloads, download[d].at = "serving"
               PROVE  /\ download[d].bytes >= 0 /\ download[d].spool >= 0
                      /\ download[d].stayed \ dangling \subseteq download[d].names \cup DirEntries
  BY DEF ArchiveWhole
 <2>1. download[d].bytes \in Nat /\ download[d].spool \in Nat /\ download[d].next \in Nat
       /\ download[d].stayed \subseteq FolderEntries
  BY <1>0 DEF FilesTyped
 <2>2. \A e \in download[d].stayed : e < download[d].next BY <1>0, <2>1, FileFacts DEF ArchiveSound
 <2> QED BY <1>0, <2>1, <2>2 DEF ArchiveSound
<1> QED BY <1>1, <1>2, <1>3, <1>4, <1>5 DEF FilesInvariant

\* Nothing read yet.
LEMMA NothingReadSound ==
  /\ NoScan \in [open : BOOLEAN, unread : SUBSET FolderEntries, seen : SUBSET FolderEntries,
                 accepted : SUBSET FolderEntries, kept : SUBSET FolderEntries]
  /\ NoScan.kept = {} /\ NoScan.accepted = {} /\ NoScan.seen = {}
  /\ NoSearch \in [next : 0..EntryCount + 1, visits : Nat, results : SUBSET FolderEntries,
                   truncated : BOOLEAN, stayed : SUBSET FolderEntries]
  /\ NoSearch.stayed = {}
  /\ NoDownload \in [at : Places, next : Nat, bytes : Nat, entries : Nat, spool : Nat,
                     names : SUBSET FolderEntries, stayed : SUBSET FolderEntries]
  /\ NoDownload.stayed = {} /\ NoDownload.at = "none"
BY FileFacts DEF NoScan, NoSearch, NoDownload, Places

LEMMA InitFilesSound == FilesInit => FilesSound
<1> SUFFICES ASSUME FilesInit PROVE FilesSound OBVIOUS
<1> USE NothingReadSound
<1>1. FilesTyped BY FileFacts DEF FilesInit, FilesTyped
<1>2. ScanSound BY FileFacts, FS_EmptySet DEF FilesInit, ScanSound
<1>3. WalkSound BY DEF FilesInit, WalkSound
<1>4. SpoolSound
 <2>1. Holders = {} BY DEF FilesInit, Holders
 <2> QED BY <2>1, FS_EmptySet DEF FilesInit, SpoolSound
<1>5. \A d \in Downloads : ArchiveSound(d) BY DEF FilesInit, ArchiveSound
<1> QED BY <1>1, <1>2, <1>3, <1>4, <1>5 DEF FilesSound

LEMMA ConsideredSound ==
  ASSUME FilesTyped, ScanSound, NEW e \in FolderEntries \ scan.accepted,
         scan'.accepted = scan.accepted \cup {e}, scan'.seen = scan.seen \cup {e},
         scan'.kept = Considered(scan.kept, e)
  PROVE  ScanSound' /\ scan'.kept \subseteq FolderEntries
<1> DEFINE first == scan.kept
            taken == scan.accepted
            last == Worst(first)
<1>1. /\ first \subseteq taken /\ taken \subseteq FolderEntries /\ taken \subseteq scan.seen
      /\ \A a \in first, g \in taken \ first : Before(a, g)
      /\ Cardinality(first) <= ListLimit
      /\ Cardinality(first) < ListLimit => first = taken
 BY DEF FilesTyped, ScanSound
<1>2. IsFiniteSet(first) /\ Cardinality(first) \in Nat /\ ListLimit \in Nat /\ e \notin first /\ e \notin taken
 BY <1>1, SomeEntries, FileFacts
<1>3. scan'.accepted \subseteq scan'.seen BY <1>1
<1>4. CASE Cardinality(first) < ListLimit
 <2>1. scan'.kept = first \cup {e} /\ first = taken BY <1>1, <1>2, <1>4 DEF Considered
 <2>2. Cardinality(first \cup {e}) = Cardinality(first) + 1 BY <1>2, FS_AddElement
 <2>3. Cardinality(scan'.kept) <= ListLimit BY <1>2, <1>4, <2>1, <2>2
 <2> QED BY <1>1, <1>3, <2>1, <2>3 DEF ScanSound
<1>5. CASE ~(Cardinality(first) < ListLimit)
 <2>1. Cardinality(first) = ListLimit BY <1>1, <1>2, <1>5
 <2>2. CASE ListLimit > 0 /\ Before(e, last)
  <3>1. first # {} BY <1>2, <2>1, <2>2, FS_EmptySet
  <3>2. last \in first /\ \A g \in first \ {last} : Before(g, last) BY <1>1, <3>1, WorstIsLast
  <3>3. scan'.kept = (first \ {last}) \cup {e} BY <1>2, <2>1, <2>2 DEF Considered
  <3>4. Cardinality(first \ {last}) = Cardinality(first) - 1 /\ IsFiniteSet(first \ {last}) BY <1>2, <3>2, FS_RemoveElement
  <3>5. Cardinality((first \ {last}) \cup {e}) = Cardinality(first)
   <4>1. e \notin first \ {last} BY <1>2
   <4>2. Cardinality((first \ {last}) \cup {e}) = Cardinality(first \ {last}) + 1 BY <3>4, <4>1, FS_AddElement
   <4> QED BY <1>2, <3>4, <4>2
  <3>6. ASSUME NEW a \in scan'.kept, NEW g \in scan'.accepted \ scan'.kept
        PROVE  Before(a, g)
   <4>1. a \in FolderEntries /\ g \in FolderEntries /\ last \in FolderEntries BY <1>1, <3>2, <3>3
   <4>2. g = last \/ g \in taken \ first BY <3>3
   <4>3. a = e \/ (a \in first /\ Before(a, last)) BY <3>2, <3>3
   <4>4. Before(a, last) BY <2>2, <4>3
   <4>5. g \in taken \ first => Before(last, g) BY <1>1, <3>2
   <4> QED BY <4>1, <4>2, <4>4, <4>5, BeforeIsTotal
  <3>7. /\ scan'.kept \subseteq scan'.accepted /\ scan'.kept \subseteq FolderEntries
        /\ Cardinality(scan'.kept) = ListLimit
   BY <1>1, <2>1, <3>3, <3>5
  <3> QED BY <1>2, <1>3, <3>6, <3>7 DEF ScanSound
 <2>3. CASE ~(ListLimit > 0 /\ Before(e, last))
  <3>1. scan'.kept = first BY <1>5, <2>3 DEF Considered
  <3>2. ASSUME NEW a \in first, NEW g \in scan'.accepted \ first
        PROVE  Before(a, g)
   <4>1. CASE g # e BY <1>1, <4>1
   <4>2. CASE g = e
    <5>1. first # {} /\ ListLimit > 0
     <6>1. Cardinality(first) # 0 BY <1>2, FS_EmptySet
     <6> QED BY <1>2, <2>1, <6>1
    <5>2. last \in first /\ \A x \in first \ {last} : Before(x, last) BY <1>1, <5>1, WorstIsLast
    <5>3. last \in FolderEntries /\ last # e /\ a \in FolderEntries BY <1>1, <1>2, <5>2
    <5>4. Before(last, e) BY <2>3, <5>1, <5>3, BeforeIsTotal
    <5> QED BY <4>2, <5>2, <5>3, <5>4, BeforeIsTotal
   <4> QED BY <4>1, <4>2
  <3> QED BY <1>1, <1>2, <1>3, <2>1, <3>1, <3>2 DEF ScanSound
 <2> QED BY <2>2, <2>3
<1> QED BY <1>4, <1>5

\* Nothing but the listing changes.
LEMMA ListingStepSound ==
  ASSUME FilesSound, ListDir \/ ScanEnds \/ \E e \in FolderEntries : Consider(e)
  PROVE  FilesSound'
<1>0. FilesTyped /\ ScanSound /\ WalkSound /\ SpoolSound /\ \A d \in Downloads : ArchiveSound(d) BY DEF FilesSound
<1>1. UNCHANGED <<present, dangling, search, download, slots, temporaries, fileEvents>> BY DEF ListDir, ScanEnds, Consider
<1>2. WalkSound' /\ SpoolSound' /\ \A d \in Downloads : ArchiveSound(d)'
 BY <1>0, <1>1 DEF WalkSound, Matches, SpoolSound, Holders, ArchiveSound
<1>3. /\ ScanSound'
      /\ scan' \in [open : BOOLEAN, unread : SUBSET FolderEntries, seen : SUBSET FolderEntries,
                    accepted : SUBSET FolderEntries, kept : SUBSET FolderEntries]
 <2>1. CASE ListDir \/ ScanEnds
  <3>1. /\ scan'.kept = {} /\ scan'.accepted = {} /\ scan'.seen = {}
        /\ scan' \in [open : BOOLEAN, unread : SUBSET FolderEntries, seen : SUBSET FolderEntries,
                      accepted : SUBSET FolderEntries, kept : SUBSET FolderEntries]
   BY <1>0, <2>1, NothingReadSound DEF ListDir, ScanEnds, FilesTyped
  <3> QED BY <3>1, FileFacts, FS_EmptySet DEF ScanSound
 <2>2. ASSUME NEW e \in FolderEntries, Consider(e)
       PROVE  /\ ScanSound'
              /\ scan' \in [open : BOOLEAN, unread : SUBSET FolderEntries, seen : SUBSET FolderEntries,
                            accepted : SUBSET FolderEntries, kept : SUBSET FolderEntries]
  <3>1. e \notin scan.seen /\ e \notin scan.accepted BY <1>0, <2>2 DEF Consider, ScanSound
  <3>2. CASE scan' = [scan EXCEPT !.seen = @ \cup {e}] BY <1>0, <3>2 DEF ScanSound, FilesTyped
  <3>3. CASE scan' = [scan EXCEPT !.seen = @ \cup {e}, !.accepted = @ \cup {e}, !.kept = Considered(@, e)]
   <4>1. /\ scan'.accepted = scan.accepted \cup {e} /\ scan'.seen = scan.seen \cup {e}
         /\ scan'.kept = Considered(scan.kept, e) /\ scan'.open = scan.open /\ scan'.unread = scan.unread
    BY <1>0, <3>3 DEF FilesTyped
   <4>2. ScanSound' /\ scan'.kept \subseteq FolderEntries BY <1>0, <3>1, <4>1, ConsideredSound
   <4> QED BY <1>0, <3>3, <4>1, <4>2 DEF FilesTyped
  <3> QED BY <2>2, <3>2, <3>3 DEF Consider
 <2> QED BY <2>1, <2>2
<1>4. FilesTyped' BY <1>0, <1>1, <1>3 DEF FilesTyped
<1> QED BY <1>2, <1>3, <1>4 DEF FilesSound

----
\* The search.

LEMMA WalkVisits ==
  ASSUME FilesTyped, WalkSound, SearchVisit
  PROVE  /\ WalkSound'
         /\ search' \in [next : 0..EntryCount + 1, visits : Nat, results : SUBSET FolderEntries,
                         truncated : BOOLEAN, stayed : SUBSET FolderEntries]
<1> DEFINE e == search.next
<1>1. /\ e \in FolderEntries /\ e \in Nat /\ e + 1 \in 0..EntryCount + 1 /\ EntryCount + 1 \in 0..EntryCount + 1
      /\ search.visits \in Nat /\ search.visits + 1 \in Nat /\ UNCHANGED <<present, dangling>>
 BY FileFacts DEF SearchVisit, FilesTyped
<1>2. /\ search.stayed \subseteq present /\ search.stayed \subseteq FolderEntries
      /\ search.results \subseteq FolderEntries /\ search.truncated \in BOOLEAN
 BY DEF FilesTyped, WalkSound
<1>3. \A n \in FolderEntries : n < e + 1 <=> n < e \/ n = e BY <1>1, FileFacts
<1>4. CASE e \in present /\ search' = [search EXCEPT !.truncated = TRUE, !.next = EntryCount + 1]
 BY <1>1, <1>2, <1>4 DEF FilesTyped, WalkSound
<1>5. CASE /\ e \in present
           /\ search' = [search EXCEPT !.results = search.results \cup {e}, !.truncated = TRUE, !.next = EntryCount + 1]
 BY <1>1, <1>2, <1>5 DEF FilesTyped, WalkSound
<1>6. CASE /\ e \in present
           /\ search' = [search EXCEPT !.visits = @ + 1, !.next = e + 1,
                                       !.results = IF Matches(e) THEN search.results \cup {e} ELSE @]
 <2>1. /\ search'.next = e + 1 /\ search'.visits = search.visits + 1 /\ search'.stayed = search.stayed
       /\ search'.truncated = search.truncated
       /\ search'.results = IF Matches(e) THEN search.results \cup {e} ELSE search.results
       /\ search' \in [next : 0..EntryCount + 1, visits : Nat, results : SUBSET FolderEntries,
                       truncated : BOOLEAN, stayed : SUBSET FolderEntries]
  BY <1>1, <1>2, <1>6 DEF FilesTyped
 <2>2. \A n : Matches(n)' <=> Matches(n) BY <1>1 DEF Matches
 <2> QED BY <1>1, <1>2, <1>3, <2>1, <2>2 DEF WalkSound
<1>7. CASE e \notin present /\ search' = [search EXCEPT !.next = @ + 1]
 <2>1. /\ search'.next = e + 1 /\ search'.stayed = search.stayed
       /\ search'.truncated = search.truncated /\ search'.results = search.results
       /\ search' \in [next : 0..EntryCount + 1, visits : Nat, results : SUBSET FolderEntries,
                       truncated : BOOLEAN, stayed : SUBSET FolderEntries]
  BY <1>1, <1>2, <1>7 DEF FilesTyped
 <2>2. \A n : Matches(n)' <=> Matches(n) BY <1>1 DEF Matches
 <2> QED BY <1>1, <1>2, <1>3, <1>7, <2>1, <2>2 DEF WalkSound
<1>8. e \in present =>
        \/ search' = [search EXCEPT !.truncated = TRUE, !.next = EntryCount + 1]
        \/ search' = [search EXCEPT !.results = search.results \cup {e}, !.truncated = TRUE, !.next = EntryCount + 1]
        \/ search' = [search EXCEPT !.visits = @ + 1, !.next = e + 1,
                                    !.results = IF Matches(e) THEN search.results \cup {e} ELSE @]
 BY DEF SearchVisit, Visited
<1>9. e \notin present => search' = [search EXCEPT !.next = @ + 1] BY DEF SearchVisit
<1> QED BY <1>4, <1>5, <1>6, <1>7, <1>8, <1>9

LEMMA SearchStepSound ==
  ASSUME FilesSound, StartSearch \/ SearchVisit \/ SearchAnswers
  PROVE  FilesSound'
<1>0. FilesTyped /\ ScanSound /\ WalkSound /\ SpoolSound /\ \A d \in Downloads : ArchiveSound(d) BY DEF FilesSound
<1>1. UNCHANGED <<present, dangling, scan, download, slots, temporaries, fileEvents>>
 BY DEF StartSearch, SearchVisit, SearchAnswers
<1>2. ScanSound' /\ SpoolSound' /\ \A d \in Downloads : ArchiveSound(d)'
 BY <1>0, <1>1 DEF ScanSound, SpoolSound, Holders, ArchiveSound
<1>3. /\ WalkSound'
      /\ search' \in [next : 0..EntryCount + 1, visits : Nat, results : SUBSET FolderEntries,
                      truncated : BOOLEAN, stayed : SUBSET FolderEntries]
 <2>1. CASE StartSearch
  <3>1. search' = [NoSearch EXCEPT !.next = 1, !.stayed = present] BY <2>1 DEF StartSearch
  <3>2. 1 \in 0..EntryCount + 1 BY FileFacts
  <3>3. /\ search' \in [next : 0..EntryCount + 1, visits : Nat, results : SUBSET FolderEntries,
                        truncated : BOOLEAN, stayed : SUBSET FolderEntries]
        /\ search'.next = 1 /\ search'.stayed = present
   BY <1>0, <3>1, <3>2, NothingReadSound DEF FilesTyped
  <3>4. \A n \in present : ~(n < 1) BY <1>0, FileFacts DEF FilesTyped
  <3> QED BY <1>1, <3>3, <3>4 DEF WalkSound
 <2>2. CASE SearchVisit BY <1>0, <2>2, WalkVisits
 <2>3. CASE SearchAnswers BY <2>3, NothingReadSound DEF SearchAnswers, WalkSound
 <2> QED BY <2>1, <2>2, <2>3
<1>4. FilesTyped' BY <1>0, <1>1, <1>3 DEF FilesTyped
<1> QED BY <1>2, <1>3, <1>4 DEF FilesSound

----
\* The downloads.

DownloadStates == [at : Places, next : Nat, bytes : Nat, entries : Nat, spool : Nat,
                   names : SUBSET FolderEntries, stayed : SUBSET FolderEntries]

\* A step of one download: where it stands then, and what it holds.
LEMMA DownloadMoves ==
  ASSUME FilesSound, NEW d \in Downloads, NEW r \in DownloadStates,
         download' = [download EXCEPT ![d] = r],
         r.stayed \subseteq present,
         \A e \in r.stayed \ dangling : e < r.next => e \in r.names \cup DirEntries,
         r.at = "serving" => r.next > EntryCount,
         slots' \in 0..SpoolSlots, SpoolSound', fileEvents' \in Nat, UNCHANGED <<present, dangling, scan, search>>
  PROVE  FilesSound'
<1>0. FilesTyped /\ ScanSound /\ WalkSound /\ SpoolSound /\ \A x \in Downloads : ArchiveSound(x) BY DEF FilesSound
<1>1. download' \in [Downloads -> DownloadStates] /\ \A x \in Downloads : download'[x] = IF x = d THEN r ELSE download[x]
 BY <1>0 DEF FilesTyped, DownloadStates
<1>2. FilesTyped' BY <1>0, <1>1 DEF FilesTyped, DownloadStates
<1>3. ScanSound' /\ WalkSound' BY <1>0 DEF ScanSound, WalkSound, Matches
<1>4. \A x \in Downloads : ArchiveSound(x)' BY <1>0, <1>1 DEF ArchiveSound
<1> QED BY <1>2, <1>3, <1>4 DEF FilesSound

\* A slot for who comes, and one less for who goes.
LEMMA SlotsMove ==
  ASSUME FilesTyped, SpoolSound, NEW d \in Downloads, NEW r \in DownloadStates,
         download' = [download EXCEPT ![d] = r],
         \/ /\ (r.at \in {"writing", "serving"}) <=> (download[d].at \in {"writing", "serving"})
            /\ UNCHANGED <<slots, temporaries>>
         \/ /\ r.at \notin {"writing", "serving"}
            /\ slots' = SlotsAfter(d) /\ temporaries' = temporaries \ {d}
         \/ /\ r.at \in {"writing", "serving"} /\ download[d].at \notin {"writing", "serving"} /\ slots < SpoolSlots
            /\ slots' = slots + 1 /\ temporaries' = temporaries \cup {d}
  PROVE  SpoolSound' /\ slots' \in 0..SpoolSlots
<1>1. /\ IsFiniteSet(Holders) /\ slots = Cardinality(Holders) /\ temporaries = Holders /\ slots \in 0..SpoolSlots
      /\ slots \in Nat /\ SpoolSlots \in Nat
 BY FileFacts DEF SpoolSound, FilesTyped
<1>2. \A x \in Downloads : download'[x].at = IF x = d THEN r.at ELSE download[x].at BY DEF FilesTyped
<1>3. Holders' = IF r.at \in {"writing", "serving"} THEN Holders \cup {d} ELSE Holders \ {d} BY <1>2 DEF Holders
<1>4. d \in Holders <=> download[d].at \in {"writing", "serving"} BY DEF Holders
<1>5. CASE /\ (r.at \in {"writing", "serving"}) <=> (download[d].at \in {"writing", "serving"})
           /\ UNCHANGED <<slots, temporaries>>
 <2>1. Holders' = Holders BY <1>3, <1>4, <1>5
 <2> QED BY <1>1, <1>5, <2>1 DEF SpoolSound
<1>6. CASE /\ r.at \notin {"writing", "serving"}
           /\ slots' = SlotsAfter(d) /\ temporaries' = temporaries \ {d}
 <2>1. Holders' = Holders \ {d} /\ IsFiniteSet(Holders')
       /\ Cardinality(Holders') = IF d \in Holders THEN Cardinality(Holders) - 1 ELSE Cardinality(Holders)
  BY <1>1, <1>3, <1>6, FS_RemoveElement
 <2>2. slots' = IF d \in Holders THEN slots - 1 ELSE slots BY <1>4, <1>6 DEF SlotsAfter
 <2>3. Cardinality(Holders') \in Nat BY <2>1, FS_CardinalityType
 <2> QED BY <1>1, <1>6, <2>1, <2>2, <2>3 DEF SpoolSound
<1>7. CASE /\ r.at \in {"writing", "serving"} /\ download[d].at \notin {"writing", "serving"} /\ slots < SpoolSlots
           /\ slots' = slots + 1 /\ temporaries' = temporaries \cup {d}
 <2>1. Holders' = Holders \cup {d} /\ d \notin Holders BY <1>3, <1>4, <1>7
 <2>2. IsFiniteSet(Holders') /\ Cardinality(Holders') = Cardinality(Holders) + 1 BY <1>1, <2>1, FS_AddElement
 <2> QED BY <1>1, <1>7, <2>1, <2>2 DEF SpoolSound
<1> QED BY <1>5, <1>6, <1>7

LEMMA LeavesSound ==
  ASSUME FilesSound, NEW d \in Downloads, NEW at \in {"refused", "failed", "over"}, Leaves(d, at),
         fileEvents' \in Nat, UNCHANGED <<present, dangling, scan, search>>
  PROVE  FilesSound'
<1> DEFINE r == [NoDownload EXCEPT !.at = at]
<1>1. FilesTyped /\ SpoolSound BY DEF FilesSound
<1>2. /\ r \in DownloadStates /\ r.at = at /\ r.stayed = {} /\ download' = [download EXCEPT ![d] = r]
      /\ slots' = SlotsAfter(d) /\ temporaries' = temporaries \ {d}
 BY NothingReadSound DEF Leaves, DownloadStates, Places
<1> HIDE DEF r
<1>3. SpoolSound' /\ slots' \in 0..SpoolSlots BY <1>1, <1>2, SlotsMove
<1> QED BY <1>2, <1>3, DownloadMoves

\* A step that neither takes nor frees a slot.
LEMMA StaysSound ==
  ASSUME FilesSound, NEW d \in Downloads, NEW r \in DownloadStates, download' = [download EXCEPT ![d] = r],
         r.at \in {"writing", "serving"} <=> download[d].at \in {"writing", "serving"},
         r.stayed \subseteq present,
         \A e \in r.stayed \ dangling : e < r.next => e \in r.names \cup DirEntries,
         r.at = "serving" => r.next > EntryCount,
         fileEvents' \in Nat, UNCHANGED <<present, dangling, scan, search, slots, temporaries>>
  PROVE  FilesSound'
<1>1. FilesTyped /\ SpoolSound BY DEF FilesSound
<1>2. SpoolSound' /\ slots' \in 0..SpoolSlots BY <1>1, SlotsMove
<1> QED BY <1>2, DownloadMoves

LEMMA AcquireSlotSound ==
  ASSUME FilesSound, NEW d \in Downloads, AcquireSlot(d)
  PROVE  FilesSound'
<1> DEFINE r == [at |-> "writing", next |-> 1, bytes |-> ByteLimit, entries |-> EntryLimit, spool |-> SpoolLimit,
                  names |-> {}, stayed |-> present]
<1>1. FilesTyped /\ SpoolSound BY DEF FilesSound
<1>2. /\ r \in DownloadStates /\ r.at = "writing" /\ r.next = 1 /\ r.stayed = present
      /\ download' = [download EXCEPT ![d] = r]
      /\ download[d].at = "waiting" /\ slots < SpoolSlots /\ slots' = slots + 1 /\ temporaries' = temporaries \cup {d}
      /\ UNCHANGED <<present, dangling, scan, search, fileEvents>>
 BY <1>1, FileFacts DEF AcquireSlot, DownloadStates, Places, FilesTyped
<1> HIDE DEF r
<1>3. SpoolSound' /\ slots' \in 0..SpoolSlots BY <1>1, <1>2, SlotsMove
<1>4. \A e \in r.stayed : ~(e < r.next) BY <1>1, <1>2, FileFacts DEF FilesTyped
<1> QED BY <1>1, <1>2, <1>3, <1>4, DownloadMoves DEF FilesTyped

LEMMA WalkEntrySound ==
  ASSUME FilesSound, NEW d \in Downloads, WalkEntry(d)
  PROVE  FilesSound'
<1> DEFINE e == download[d].next
<1>0. FilesTyped /\ ArchiveSound(d) BY DEF FilesSound
<1>1. /\ download[d].at = "writing" /\ e \in FolderEntries /\ e \in Nat /\ e + 1 \in Nat
      /\ UNCHANGED <<present, dangling, scan, search, fileEvents>> /\ fileEvents' \in Nat
 BY <1>0, FileFacts DEF WalkEntry, FilesTyped
<1>2. /\ download[d] \in DownloadStates /\ download[d].stayed \subseteq FolderEntries
      /\ download[d].stayed \subseteq present /\ download[d].names \subseteq FolderEntries
      /\ \A n \in download[d].stayed \ dangling : n < e => n \in download[d].names \cup DirEntries
      /\ download[d].bytes \in Nat /\ download[d].spool \in Nat /\ download[d].entries \in Nat
 BY <1>0 DEF FilesTyped, DownloadStates, ArchiveSound
<1>3. \A n \in FolderEntries : n < e + 1 <=> n < e \/ n = e BY <1>1, FileFacts
<1>4. CASE Leaves(d, "refused") \/ Leaves(d, "failed") BY <1>1, <1>4, LeavesSound
<1>5. CASE /\ download[d].entries > 0 /\ (e \in DirEntries \/ e \in dangling)
           /\ download' = [download EXCEPT ![d].next = e + 1, ![d].entries = @ - 1] /\ UNCHANGED <<slots, temporaries>>
 <2> DEFINE r == [download[d] EXCEPT !.next = e + 1, !.entries = @ - 1]
 <2>1. download' = [download EXCEPT ![d] = r] BY <1>5
 <2>2. /\ r \in DownloadStates /\ r.at = "writing" /\ r.next = e + 1 /\ r.stayed = download[d].stayed
       /\ r.names = download[d].names
  <3>1. download[d].entries - 1 \in Nat BY <1>2, <1>5
  <3> QED BY <1>1, <1>2, <3>1 DEF DownloadStates
 <2> HIDE DEF r
 <2>3. \A n \in r.stayed \ dangling : n < r.next => n \in r.names \cup DirEntries BY <1>2, <1>3, <1>5, <2>2
 <2> QED BY <1>1, <1>2, <1>5, <2>1, <2>2, <2>3, StaysSound
<1>6. ASSUME download[d].entries > 0, CopyFile(d, e)
      PROVE  FilesSound'
 <2>1. PICK size \in FileSizes, read \in FileSizes, packed \in FileSizes :
         /\ read >= size /\ packed <= read
         /\ IF Fits(d, size, read) /\ packed <= download[d].spool
            THEN /\ download' = [download EXCEPT ![d].next = e + 1, ![d].entries = @ - 1, ![d].bytes = @ - read,
                                                 ![d].spool = @ - packed, ![d].names = @ \cup {e}]
                 /\ UNCHANGED <<slots, temporaries>>
            ELSE Leaves(d, "refused")
  BY <1>6 DEF CopyFile
 <2>2. CASE ~(Fits(d, size, read) /\ packed <= download[d].spool) BY <1>1, <2>1, <2>2, LeavesSound
 <2>3. CASE Fits(d, size, read) /\ packed <= download[d].spool
  <3> DEFINE r == [download[d] EXCEPT !.next = e + 1, !.entries = @ - 1, !.bytes = @ - read,
                                       !.spool = @ - packed, !.names = @ \cup {e}]
  <3>1. download' = [download EXCEPT ![d] = r] /\ UNCHANGED <<slots, temporaries>> BY <2>1, <2>3
  <3>2. /\ download[d].entries - 1 \in Nat /\ download[d].bytes - read \in Nat /\ download[d].spool - packed \in Nat
   <4>1. read \in Nat /\ packed \in Nat BY FileFacts
   <4> QED BY <1>2, <1>6, <2>3, <4>1 DEF Fits
  <3>3. /\ r \in DownloadStates /\ r.at = "writing" /\ r.next = e + 1 /\ r.stayed = download[d].stayed
        /\ r.names = download[d].names \cup {e}
   BY <1>1, <1>2, <3>2 DEF DownloadStates
  <3> HIDE DEF r
  <3>4. \A n \in r.stayed \ dangling : n < r.next => n \in r.names \cup DirEntries BY <1>2, <1>3, <3>3
  <3> QED BY <1>1, <1>2, <3>1, <3>3, <3>4, StaysSound
 <2> QED BY <2>2, <2>3
<1>7. CASE e \notin present /\ download' = [download EXCEPT ![d].next = e + 1] /\ UNCHANGED <<slots, temporaries>>
 <2> DEFINE r == [download[d] EXCEPT !.next = e + 1]
 <2>1. download' = [download EXCEPT ![d] = r] BY <1>7
 <2>2. /\ r \in DownloadStates /\ r.at = "writing" /\ r.next = e + 1 /\ r.stayed = download[d].stayed
       /\ r.names = download[d].names
  BY <1>1, <1>2 DEF DownloadStates
 <2> HIDE DEF r
 <2>3. \A n \in r.stayed \ dangling : n < r.next => n \in r.names \cup DirEntries BY <1>2, <1>3, <1>7, <2>2
 <2> QED BY <1>1, <1>2, <1>7, <2>1, <2>2, <2>3, StaysSound
<1> QED BY <1>1, <1>4, <1>5, <1>6, <1>7 DEF WalkEntry

LEMMA OtherDownloadSteps ==
  ASSUME FilesSound, NEW d \in Downloads,
         RequestArchive(d) \/ ServeArchive(d) \/ ArchiveServed(d) \/ CancelDownload(d) \/ DownloadAgain(d)
  PROVE  FilesSound'
<1>0. FilesTyped /\ ArchiveSound(d) BY DEF FilesSound
<1>1. UNCHANGED <<present, dangling, scan, search>> /\ fileEvents' \in Nat
 BY <1>0 DEF RequestArchive, ServeArchive, ArchiveServed, CancelDownload, DownloadAgain, FilesTyped
<1>2. /\ download[d] \in DownloadStates /\ download[d].stayed \subseteq present
      /\ \A n \in download[d].stayed \ dangling : n < download[d].next => n \in download[d].names \cup DirEntries
 BY <1>0 DEF FilesTyped, DownloadStates, ArchiveSound
<1>3. CASE RequestArchive(d) \/ ServeArchive(d)
 <2> DEFINE to == IF ServeArchive(d) THEN "serving" ELSE "waiting"
             r == [download[d] EXCEPT !.at = to]
 <2>1. /\ download' = [download EXCEPT ![d] = r] /\ UNCHANGED <<slots, temporaries>>
       /\ (to = "waiting" => download[d].at = "none")
       /\ (to = "serving" => download[d].at = "writing" /\ download[d].next > EntryCount)
       /\ to \in {"waiting", "serving"}
  BY <1>3, NothingReadSound DEF RequestArchive, ServeArchive
 <2> HIDE DEF to
 <2>2. /\ r \in DownloadStates /\ r.at = to /\ r.next = download[d].next /\ r.stayed = download[d].stayed
       /\ r.names = download[d].names
  BY <1>2, <2>1 DEF DownloadStates, Places
 <2> HIDE DEF r
 <2> QED BY <1>1, <1>2, <2>1, <2>2, StaysSound
<1>4. CASE ArchiveServed(d) \/ CancelDownload(d) BY <1>1, <1>4, LeavesSound DEF ArchiveServed, CancelDownload
<1>5. CASE DownloadAgain(d) BY <1>1, <1>5, NothingReadSound, StaysSound DEF DownloadAgain, DownloadStates
<1> QED BY <1>3, <1>4, <1>5

----
\* The agents.

LEMMA AgentWritesFileSound ==
  ASSUME FilesSound, NEW e \in FolderEntries, AgentWritesFile(e)
  PROVE  FilesSound'
<1>0. FilesTyped /\ ScanSound /\ WalkSound /\ SpoolSound /\ \A x \in Downloads : ArchiveSound(x) BY DEF FilesSound
<1>1. /\ search' = [search EXCEPT !.stayed = @ \ {e}]
      /\ download' = [d \in Downloads |-> [download[d] EXCEPT !.stayed = @ \ {e}]]
      /\ UNCHANGED <<scan, slots, temporaries>>
      /\ fileEvents' = fileEvents + 1
 BY DEF AgentWritesFile
<1>2. /\ \A n : n # e => (n \in present' <=> n \in present) /\ (n \in dangling' <=> n \in dangling)
      /\ present' \subseteq FolderEntries /\ dangling' \subseteq LinkEntries
 BY <1>0 DEF AgentWritesFile, FilesTyped
<1>3. /\ search'.next = search.next /\ search'.truncated = search.truncated /\ search'.results = search.results
      /\ search'.stayed = search.stayed \ {e}
      /\ search' \in [next : 0..EntryCount + 1, visits : Nat, results : SUBSET FolderEntries,
                      truncated : BOOLEAN, stayed : SUBSET FolderEntries]
 BY <1>0, <1>1 DEF FilesTyped
<1>4. /\ download' \in [Downloads -> DownloadStates]
      /\ \A d \in Downloads : /\ download'[d].at = download[d].at /\ download'[d].next = download[d].next
                              /\ download'[d].names = download[d].names
                              /\ download'[d].stayed = download[d].stayed \ {e}
 BY <1>0, <1>1 DEF FilesTyped, DownloadStates
<1>5. FilesTyped'
 <2>1. fileEvents' \in Nat /\ slots' \in 0..SpoolSlots BY <1>0, <1>1 DEF FilesTyped
 <2>2. download' \in [Downloads -> [at : Places, next : Nat, bytes : Nat, entries : Nat, spool : Nat,
                                    names : SUBSET FolderEntries, stayed : SUBSET FolderEntries]]
  BY <1>4 DEF DownloadStates
 <2> QED BY <1>0, <1>1, <1>2, <1>3, <2>1, <2>2 DEF FilesTyped
<1>6. ScanSound' BY <1>0, <1>1 DEF ScanSound
<1>7. WalkSound' BY <1>0, <1>2, <1>3 DEF WalkSound, Matches
<1>8. SpoolSound'
 <2>1. Holders' = Holders BY <1>4 DEF Holders
 <2> QED BY <1>0, <1>1, <2>1 DEF SpoolSound
<1>9. \A d \in Downloads : ArchiveSound(d)' BY <1>0, <1>2, <1>4 DEF ArchiveSound
<1> QED BY <1>5, <1>6, <1>7, <1>8, <1>9 DEF FilesSound

LEMMA FilesRest == FilesSound /\ UNCHANGED fileVars => FilesSound'
BY DEF FilesSound, FilesTyped, ScanSound, WalkSound, Matches, SpoolSound, Holders, ArchiveSound, fileVars

LEMMA FilesStepSound ==
  ASSUME FilesSound, FilesNext
  PROVE  FilesSound'
BY ListingStepSound, SearchStepSound, AcquireSlotSound, WalkEntrySound, OtherDownloadSteps, AgentWritesFileSound
   DEF FilesNext, DownloadStep

\* Theorem: what is sent to a workspace and asked of it comes whole.  A file that was uploaded
\* has its chunks once and in order, and a path that a prompt names leads to it; a listing is
\* the beginning of the folder, a search has every match or says it was cut short, an archive
\* has every file that stayed and never leaves a slot or a file behind; and the tree shows no
\* listing older than its last reset, but for what the histories of each module excuse.
THEOREM FilesAreShown == Spec => []FilesShown
<1> DEFINE Sound == UploadsSound /\ FilesSound /\ TreeSound
<1>1. Init => Sound BY InitUploadsSound, InitFilesSound, InitTreeSound DEF Init
<1>2. Sound /\ [Next]_vars => Sound'
 <2> SUFFICES ASSUME Sound, [Next]_vars PROVE Sound' OBVIOUS
 <2>1. UploadsSound'
  <3>1. UploadsNext \/ UNCHANGED uploadVars BY DEF Next, OffStage, vars
  <3> QED BY <3>1, UploadsStepSound, UploadsRests
 <2>2. FilesSound'
  <3>1. FilesNext \/ UNCHANGED fileVars BY DEF Next, OffStage, vars
  <3> QED BY <3>1, FilesStepSound, FilesRest
 <2>3. TreeSound'
  <3>1. TreeNext \/ UNCHANGED fileTreeVars BY DEF Next, OffStage, vars
  <3> QED BY <3>1, TreeStepSound, TreeRests
 <2> QED BY <2>1, <2>2, <2>3
<1>3. Sound => FilesShown BY UploadsSoundIsEnough, FilesSoundIsEnough, TreeSoundIsEnough DEF FilesShown
<1> QED BY <1>1, <1>2, <1>3, PTL DEF Spec

====
