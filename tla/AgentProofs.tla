---- MODULE AgentProofs ----
\* What an agent can do, who it is signed in as and what its turn says:
\* the components of MCServices that serve the people and chats around an
\* agent keep what is stated of them, for every value of the constants.
\* Each is proved by itself, with the inductive invariant that its safety
\* rests on.
EXTENDS MCServices, TLAPS, SequenceTheorems, FiniteSetTheorems

----
\* The catalogue of what agents can do (CapabilityCache).

CapabilitySpec == CapabilityInit /\ [][CapabilityNext]_capabilityVars

\* The leader that stores has something to store, older no earlier than what the
\* cache holds.
CacheOrdered ==
  /\ \A r \in Requests : request[r].at = "storing" => request[r].catalog \in Catalogs
  /\ \A r \in Requests : request[r].at = "storing" => request[r].catalog.edition <= edition
  /\ entry # NoEntry =>
       /\ entry.catalog.edition <= edition
       /\ \A r \in Requests : request[r].at = "storing" =>
            entry.catalog.edition <= request[r].catalog.edition

CacheInductive == CacheInvariant /\ CacheOrdered

RequestStages == {"idle", "looked", "leading", "waiting", "probing", "storing", "landing"}
RequestType == [at : RequestStages, refresh : BOOLEAN, catalog : Catalogs \cup {NoCatalog}]

\* A request that moves on leaves the others where they are.
LEMMA MoveMoves ==
  ASSUME request \in [Requests -> RequestType], NEW r \in Requests, NEW at \in RequestStages, Move(r, at)
  PROVE  /\ request' \in [Requests -> RequestType]
         /\ request'[r].at = at /\ request'[r].catalog = request[r].catalog
         /\ request'[r].refresh = request[r].refresh
         /\ \A q \in Requests : q # r => request'[q] = request[q]
<1> DEFINE m == [request[r] EXCEPT !.at = at]
<1>1. request' = [request EXCEPT ![r] = m] BY DEF Move
<1>2. m \in RequestType /\ m.at = at /\ m.catalog = request[r].catalog /\ m.refresh = request[r].refresh BY DEF RequestType
<1> HIDE DEF m
<1> QED BY <1>1, <1>2

\* The cache is empty, and nobody asks for anything, at first.
LEMMA CacheInit == CapabilityInit => CacheInductive
<1> SUFFICES ASSUME CapabilityInit PROVE CacheInductive OBVIOUS
<1>1. Fresh \in RequestType /\ Fresh.at = "idle" BY DEF Fresh, RequestType, RequestStages
<1>2. CapabilityTypeOK BY <1>1, CapabilityAssumption DEF CapabilityInit, CapabilityTypeOK, RequestType, RequestStages, NoLeader
<1> QED
 BY <1>1, <1>2 DEF CapabilityInit, CacheInductive, CacheInvariant, OneDiscovery, CacheOrdered,
    Discovering, NoLeader

\* Every step of a request, of the flight and of the clock keeps the order of the
\* discoveries, and replaces no catalogue by an older one.
LEMMA CacheStep ==
  ASSUME CacheInductive, [CapabilityNext]_capabilityVars
  PROVE  /\ CacheInductive'
         /\ entry # NoEntry /\ entry' # NoEntry => entry'.catalog.edition >= entry.catalog.edition
<1> DEFINE Advances ==
       entry # NoEntry /\ entry' # NoEntry => entry'.catalog.edition >= entry.catalog.edition
<1>0. /\ edition \in Nat /\ edition \in 0..MaxEdition /\ tick \in 0..MaxTick
      /\ entry = NoEntry \/ (entry.catalog \in Catalogs /\ entry.expiresAt \in Nat)
      /\ flight \subseteq Requests /\ request \in [Requests -> RequestType]
 BY CapabilityAssumption DEF CacheInductive, CacheInvariant, CapabilityTypeOK, RequestType, RequestStages
<1>t. ASSUME edition' \in 0..MaxEdition, tick' \in 0..MaxTick,
             entry' = NoEntry \/ (entry'.catalog \in Catalogs /\ entry'.expiresAt \in Nat),
             flight' \subseteq Requests, request' \in [Requests -> RequestType]
      PROVE  CapabilityTypeOK'
 BY <1>t DEF CapabilityTypeOK, RequestType, RequestStages
<1>f. Fresh \in RequestType /\ Fresh.at = "idle" BY DEF Fresh, RequestType, RequestStages
<1>e. entry # NoEntry => entry.catalog.edition \in Int BY <1>0 DEF Catalogs
<1>o. OneDiscovery /\ CacheOrdered BY DEF CacheInductive, CacheInvariant
\* A request that moves among the stages before the store.
<1>m. ASSUME NEW r \in Requests, NEW to \in {"idle", "looked", "leading", "probing", "waiting", "landing"},
             request' \in [Requests -> RequestType], request'[r].at = to,
             \A q \in Requests : q # r => request'[q] = request[q],
             UNCHANGED <<edition, tick>>, entry' \in {entry, NoEntry}
      PROVE  CacheOrdered'
 BY <1>m, <1>o, <1>0 DEF CacheOrdered
<1>1. ASSUME NEW r \in Requests, NEW refresh \in BOOLEAN, List(r, refresh)
      PROVE  CacheInductive' /\ Advances
 <2>1. CASE ~refresh /\ Hit
  BY <1>1, <2>1, <1>e DEF List, CacheInductive, CacheInvariant, CapabilityTypeOK, OneDiscovery,
     CacheOrdered, Discovering
 <2>2. CASE ~(~refresh /\ Hit)
  <3> DEFINE m == [Fresh EXCEPT !.at = "looked", !.refresh = refresh]
  <3>1. m \in RequestType /\ m.at = "looked" BY DEF Fresh, RequestType, RequestStages
  <3>2. /\ request' = [request EXCEPT ![r] = m] /\ request[r].at = "idle"
        /\ UNCHANGED <<edition, tick, flight>> /\ entry' \in {entry, NoEntry}
   BY <1>1, <2>2 DEF List
  <3> HIDE DEF m
  <3>3. /\ request' \in [Requests -> RequestType] /\ request'[r].at = "looked"
        /\ \A q \in Requests : q # r => request'[q] = request[q]
   BY <1>0, <3>1, <3>2
  <3>4. CapabilityTypeOK' BY <1>0, <1>t, <3>2, <3>3
  <3>5. OneDiscovery' BY <1>o, <3>2, <3>3 DEF OneDiscovery, Discovering
  <3> QED BY <1>m, <1>e, <3>2, <3>3, <3>4, <3>5 DEF CacheInductive, CacheInvariant
 <2> QED BY <2>1, <2>2
<1>2. ASSUME NEW r \in Requests, Join(r)
      PROVE  CacheInductive' /\ Advances
 <2>1. /\ Move(r, "waiting") /\ request[r].at = "looked" /\ flight # {}
       /\ UNCHANGED <<edition, tick, entry, flight>>
  BY <1>2 DEF Join, NoLeader
 <2>2. /\ request' \in [Requests -> RequestType] /\ request'[r].at = "waiting"
       /\ \A q \in Requests : q # r => request'[q] = request[q]
  BY <2>1, <1>0, MoveMoves DEF RequestStages
 <2>3. CapabilityTypeOK' BY <1>0, <1>t, <2>1, <2>2
 <2>4. OneDiscovery' BY <1>o, <2>1, <2>2 DEF OneDiscovery, Discovering
 <2> QED BY <1>m, <1>e, <2>1, <2>2, <2>3, <2>4 DEF CacheInductive, CacheInvariant
<1>3. ASSUME NEW r \in Requests, Lead(r)
      PROVE  CacheInductive' /\ Advances
 <2>1. /\ Move(r, "leading") /\ request[r].at = "looked" /\ flight = {} /\ flight' = {r}
       /\ UNCHANGED <<edition, tick, entry>>
  BY <1>3 DEF Lead, NoLeader
 <2>2. /\ request' \in [Requests -> RequestType] /\ request'[r].at = "leading"
       /\ \A q \in Requests : q # r => request'[q] = request[q]
  BY <2>1, <1>0, MoveMoves DEF RequestStages
 <2>3. CapabilityTypeOK' BY <1>0, <1>t, <2>1, <2>2
 <2>4. OneDiscovery' BY <1>o, <2>1, <2>2 DEF OneDiscovery, Discovering
 <2> QED BY <1>m, <1>e, <2>1, <2>2, <2>3, <2>4 DEF CacheInductive, CacheInvariant
<1>4. ASSUME NEW r \in Requests, LookAgain(r)
      PROVE  CacheInductive' /\ Advances
 <2>1. /\ request[r].at = "leading" /\ UNCHANGED <<edition, tick, flight>> /\ entry' \in {entry, NoEntry} BY <1>4 DEF LookAgain
 <2>2. \E to \in {"landing", "probing"} :
         /\ request' \in [Requests -> RequestType] /\ request'[r].at = to
         /\ \A q \in Requests : q # r => request'[q] = request[q]
  <3>1. CASE ~request[r].refresh /\ Hit
   <4> DEFINE m == [request[r] EXCEPT !.at = "landing", !.catalog = entry.catalog]
   <4>1. request' = [request EXCEPT ![r] = m] BY <1>4, <3>1 DEF LookAgain
   <4>2. m \in RequestType /\ m.at = "landing" BY <1>0, <3>1 DEF RequestType, RequestStages, Hit
   <4> HIDE DEF m
   <4> QED BY <1>0, <4>1, <4>2
  <3>2. CASE ~(~request[r].refresh /\ Hit) BY <1>0, <1>4, <3>2, MoveMoves DEF LookAgain, RequestStages
  <3> QED BY <3>1, <3>2
 <2>3. CapabilityTypeOK' BY <1>0, <1>t, <2>1, <2>2
 <2>4. OneDiscovery' BY <1>o, <2>1, <2>2 DEF OneDiscovery, Discovering
 <2> QED BY <1>m, <1>e, <2>1, <2>2, <2>3, <2>4 DEF CacheInductive, CacheInvariant
<1>5. ASSUME NEW r \in Requests, Probe(r)
      PROVE  CacheInductive' /\ Advances
 <2>1. PICK live \in BOOLEAN :
         request' = [request EXCEPT ![r].at = "storing",
                                    ![r].catalog = [edition |-> edition, live |-> live]]
  BY <1>5 DEF Probe
 <2>2. request[r].at = "probing" /\ UNCHANGED <<edition, tick, entry, flight>> BY <1>5 DEF Probe
 <2> DEFINE older == [edition |-> edition, live |-> live]
             m == [request[r] EXCEPT !.at = "storing", !.catalog = older]
 <2>3. request' = [request EXCEPT ![r] = m] BY <2>1
 <2>4. m \in RequestType /\ m.at = "storing" /\ m.catalog \in Catalogs /\ m.catalog.edition = edition
  BY <1>0 DEF RequestType, RequestStages, Catalogs
 <2> HIDE DEF m
 <2>5. /\ request' \in [Requests -> RequestType] /\ request'[r] = m
       /\ \A q \in Requests : q # r => request'[q] = request[q]
  BY <1>0, <2>3, <2>4
 <2>6. CapabilityTypeOK' BY <1>0, <1>t, <2>2, <2>5
 <2>7. OneDiscovery' BY <1>o, <2>2, <2>4, <2>5 DEF OneDiscovery, Discovering
 <2>8. CacheOrdered' BY <1>o, <1>0, <2>2, <2>4, <2>5 DEF CacheOrdered
 <2> QED BY <1>e, <2>2, <2>6, <2>7, <2>8 DEF CacheInductive, CacheInvariant
<1>6. ASSUME NEW r \in Requests, Store(r)
      PROVE  CacheInductive' /\ Advances
 <2> DEFINE catalog == request[r].catalog
 <2>1. /\ request[r].at = "storing" /\ catalog \in Catalogs
       /\ entry' = [catalog |-> catalog, expiresAt |-> tick + Ttl(catalog)]
       /\ Move(r, "landing") /\ UNCHANGED <<edition, tick, flight>>
  BY <1>6, <1>o DEF Store, CacheOrdered
 <2>2. /\ request' \in [Requests -> RequestType] /\ request'[r].at = "landing"
       /\ \A q \in Requests : q # r => request'[q] = request[q]
  BY <2>1, <1>0, MoveMoves DEF RequestStages
 <2>3. entry'.catalog = catalog /\ entry'.expiresAt \in Nat BY <2>1, <1>0, CapabilityAssumption DEF Ttl
 <2>4. CapabilityTypeOK' BY <1>0, <1>t, <2>1, <2>2, <2>3
 <2>5. OneDiscovery' BY <1>o, <2>1, <2>2 DEF OneDiscovery, Discovering
 <2>6. \A q \in Requests : request'[q].at # "storing" BY <1>o, <2>1, <2>2 DEF OneDiscovery, Discovering
 <2>7. catalog.edition <= edition /\ (entry # NoEntry => entry.catalog.edition <= catalog.edition) BY <1>o, <2>1 DEF CacheOrdered
 <2>8. CacheOrdered' BY <2>1, <2>3, <2>6, <2>7 DEF CacheOrdered
 <2>9. Advances BY <1>e, <2>1, <2>3, <2>7 DEF Catalogs
 <2> QED BY <2>4, <2>5, <2>8, <2>9 DEF CacheInductive, CacheInvariant
<1>7. ASSUME NEW r \in Requests, Land(r)
      PROVE  CacheInductive' /\ Advances
 <2>1. /\ request[r].at = "landing" /\ UNCHANGED <<edition, tick, entry>> /\ flight' = flight \ {r}
       /\ request' = [q \in Requests |->
                       IF q = r \/ request[q].at = "waiting" THEN Fresh ELSE request[q]]
  BY <1>7 DEF Land
 <2>2. request' \in [Requests -> RequestType] BY <1>0, <1>f, <2>1
 <2>3. \A q \in Requests : request'[q].at = "idle" \/ (q # r /\ request'[q] = request[q]
                                                      /\ request[q].at # "waiting")
  BY <1>f, <2>1
 <2>3a. request'[r].at = "idle" BY <1>f, <2>1
 <2>4. CapabilityTypeOK' BY <1>0, <1>t, <2>1, <2>2
 <2>5. OneDiscovery'
  <3>1. \A q \in Requests : Discovering(q)' <=> q # r /\ Discovering(q) BY <2>1, <1>f DEF Discovering
  <3>2. \A q \in Requests : request'[q].at # "waiting" BY <2>3
  <3> QED BY <1>o, <2>1, <3>1, <3>2 DEF OneDiscovery
 <2>6. CacheOrdered' BY <1>o, <2>1, <2>3 DEF CacheOrdered
 <2> QED BY <1>e, <2>1, <2>4, <2>5, <2>6 DEF CacheInductive, CacheInvariant
<1>8. ASSUME NEW r \in Requests, Abandon(r)
      PROVE  CacheInductive' /\ Advances
 <2>1. /\ request[r].at = "waiting" /\ UNCHANGED <<edition, tick, entry, flight>>
       /\ request' = [request EXCEPT ![r] = Fresh]
  BY <1>8 DEF Abandon
 <2>2. /\ request' \in [Requests -> RequestType] /\ request'[r].at = "idle"
       /\ \A q \in Requests : q # r => request'[q] = request[q]
  BY <1>0, <1>f, <2>1
 <2>3. CapabilityTypeOK' BY <1>0, <1>t, <2>1, <2>2
 <2>4. OneDiscovery' BY <1>o, <2>1, <2>2 DEF OneDiscovery, Discovering
 <2> QED BY <1>m, <1>e, <2>1, <2>2, <2>3, <2>4 DEF CacheInductive, CacheInvariant
<1>9. CASE WorldChanges \/ TickPasses
 <2>1. /\ UNCHANGED <<entry, flight, request>> /\ edition <= edition'
       /\ edition' \in 0..MaxEdition /\ tick' \in 0..MaxTick
  BY <1>9, <1>0, CapabilityAssumption DEF WorldChanges, TickPasses
 <2>2. CapabilityTypeOK' BY <1>0, <1>t, <2>1
 <2>3. OneDiscovery' BY <1>o, <2>1 DEF OneDiscovery, Discovering
 <2>4. CacheOrdered' BY <1>o, <1>0, <1>e, <2>1 DEF CacheOrdered, Catalogs
 <2> QED BY <1>e, <2>1, <2>2, <2>3, <2>4 DEF CacheInductive, CacheInvariant
<1>10. CASE UNCHANGED capabilityVars
 BY <1>10, <1>e DEF capabilityVars, CacheInductive, CacheInvariant, CapabilityTypeOK, OneDiscovery,
    CacheOrdered, Discovering
<1> QED BY <1>1, <1>2, <1>3, <1>4, <1>5, <1>6, <1>7, <1>8, <1>9, <1>10 DEF CapabilityNext

\* At most one request discovers, it leads the flight, and nobody waits for a flight
\* that is gone.
THEOREM CacheKept == CapabilitySpec => []CacheInvariant
<1>1. CacheInductive => CacheInvariant BY DEF CacheInductive
<1>2. CacheInductive /\ [CapabilityNext]_capabilityVars => CacheInductive' BY CacheStep
<1> QED BY <1>1, <1>2, CacheInit, PTL DEF CapabilitySpec

\* What the cache holds is never replaced by what an earlier world looked like.
THEOREM CacheOnlyAdvances == CapabilitySpec => CacheAdvances
<1>1. CacheInductive /\ [CapabilityNext]_capabilityVars => CacheInductive' BY CacheStep
<1>2. CacheInductive /\ [CapabilityNext]_capabilityVars =>
        [entry # NoEntry /\ entry' # NoEntry
           => entry'.catalog.edition >= entry.catalog.edition]_capabilityVars
 BY CacheStep
<1> QED BY <1>1, <1>2, CacheInit, PTL DEF CapabilitySpec, CacheAdvances

----
\* Sign-in by device (AgentSignIn).

DeviceSpec == DeviceInit /\ [][DeviceNext]_deviceVars

\* The processes are started in their order, and no start is owed a broadcast
\* twice.
StartsInOrder ==
  \E n \in 0..MaxLogins : /\ \A p \in Logins : process[p].phase # "none" <=> p <= n
                          /\ owed <= n

DeviceInductive == DeviceInvariant /\ FeedCurrent /\ StartsInOrder

ShownState == [active : BOOLEAN, expires : 0..(MaxInstant + LoginTTL),
               code : 0..MaxLogins, completed : BOOLEAN, failed : BOOLEAN]
Phases == {"none", "running", "exited", "over"}
ProcessType == [phase : Phases, cancelled : BOOLEAN, since : 0..MaxInstant,
                output : {"none", "printed", "taken"}]

\* The type invariant of the device sign-in, by the names of its records.
LEMMA DeviceTypes ==
  DeviceTypeOK <=>
    /\ device \in ShownState /\ canceller \in 0..MaxLogins
    /\ process \in [Logins -> ProcessType]
    /\ credential \in BOOLEAN /\ instant \in 0..MaxInstant /\ owed \in 0..MaxLogins
    /\ feed \in [Watchers -> {"none", "subscribing", "live", "closed"}]
    /\ pending \in [Watchers -> 0..FeedBuffer]
    /\ watched \in [Watchers -> ShownState]
BY DEF DeviceTypeOK, ShownState, ProcessType, Phases

\* What a page is shown is a state, at any instant of a sign-in.
LEMMA ShownStates ==
  /\ NoState \in ShownState /\ FailedLogin \in ShownState
  /\ \A at \in 0..MaxInstant :
       [NoState EXCEPT !.active = TRUE, !.expires = at + LoginTTL] \in ShownState
<1>1. /\ MaxLogins \in Nat /\ MaxInstant \in Nat /\ LoginTTL \in Nat
      /\ 0 \in 0..(MaxInstant + LoginTTL) /\ 0 \in 0..MaxLogins
 BY DeviceLoginAssumption
<1>2. \A at \in 0..MaxInstant : at + LoginTTL \in 0..(MaxInstant + LoginTTL) BY <1>1
<1> QED BY <1>1, <1>2 DEF NoState, FailedLogin, ShownState

\* After a broadcast every live subscription holds a status.
LEMMA BroadcastReaches ==
  ASSUME DeviceTypeOK, BroadcastLocked
  PROVE  /\ feed' \in [Watchers -> {"none", "subscribing", "live", "closed"}]
         /\ pending' \in [Watchers -> 0..FeedBuffer]
         /\ watched' = watched
         /\ \A w \in Watchers : feed'[w] = "live" => pending'[w] > 0
<1>1. FeedBuffer \in Nat \ {0} BY DeviceLoginAssumption
<1>2. /\ feed \in [Watchers -> {"none", "subscribing", "live", "closed"}]
      /\ pending \in [Watchers -> 0..FeedBuffer]
 BY DEF DeviceTypeOK
<1> QED BY <1>1, <1>2 DEF BroadcastLocked

\* No process has been started, and no page watches, at first.
LEMMA DeviceStart == DeviceInit => DeviceInductive
<1> SUFFICES ASSUME DeviceInit PROVE DeviceInductive OBVIOUS
<1>n. MaxLogins \in Nat /\ MaxInstant \in Nat /\ FeedBuffer \in Nat BY DeviceLoginAssumption
<1>r. 0 \in 0..MaxLogins /\ 0 \in 0..MaxInstant /\ 0 \in 0..FeedBuffer BY <1>n
<1>0. /\ MaxLogins \in Nat /\ 0 \in 0..MaxLogins /\ 0 \in 0..MaxInstant /\ 0 \in 0..FeedBuffer
      /\ NoState \in ShownState
 BY <1>n, <1>r, ShownStates
<1>1. DeviceTypeOK
 <2> DEFINE m == [phase |-> "none", cancelled |-> FALSE, since |-> 0, output |-> "none"]
 <2>1. m \in ProcessType /\ process = [p \in Logins |-> m] BY <1>0 DEF ProcessType, Phases, DeviceInit
 <2> HIDE DEF m
 <2>2. process \in [Logins -> ProcessType] BY <2>1
 <2> QED BY <1>0, <2>2, DeviceTypes DEF DeviceInit
<1>2. StartsInOrder
 <2>1. \A p \in Logins : process[p].phase = "none" /\ ~(p <= 0) BY <1>0 DEF DeviceInit, Logins
 <2> QED BY <1>0, <2>1 DEF DeviceInit, StartsInOrder
<1> QED
 BY <1>1, <1>2 DEF DeviceInit, DeviceInductive, DeviceInvariant, OneLoginWanted, Wanted,
    LoginRunning, FeedCurrent

\* Every request, every step of a process and of a page keeps one sign-in wanted,
\* its processes in the order they were started, and the pages up to date.
LEMMA DeviceStep ==
  ASSUME DeviceInductive, [DeviceNext]_deviceVars
  PROVE  DeviceInductive'
<1>0. /\ device \in ShownState /\ canceller \in 0..MaxLogins
      /\ process \in [Logins -> ProcessType]
      /\ credential \in BOOLEAN /\ instant \in 0..MaxInstant /\ owed \in 0..MaxLogins
      /\ feed \in [Watchers -> {"none", "subscribing", "live", "closed"}]
      /\ pending \in [Watchers -> 0..FeedBuffer]
      /\ watched \in [Watchers -> ShownState]
 BY DeviceTypes DEF DeviceInductive, DeviceInvariant
<1>n. /\ MaxLogins \in Nat /\ MaxInstant \in Nat /\ FeedBuffer \in Nat \ {0}
      /\ LoginTTL \in Nat \ {0} /\ LoginTimeout \in Nat \ {0}
 BY DeviceLoginAssumption
<1>i. DeviceTypeOK /\ OneLoginWanted /\ FeedCurrent BY DEF DeviceInductive, DeviceInvariant
<1>p. PICK n \in 0..MaxLogins : /\ \A p \in Logins : process[p].phase # "none" <=> p <= n
                                /\ owed <= n
 BY DEF DeviceInductive, StartsInOrder
\* The parts the steps of the processes have in common.
<1>c. ASSUME NEW p \in Logins, NEW m \in ProcessType, process' = [process EXCEPT ![p] = m],
             m.phase = "none" <=> process[p].phase = "none", owed' = owed,
             canceller' = canceller,
             m.phase = "running" => process[p].phase = "running",
             process[p].cancelled => m.cancelled
      PROVE  /\ process' \in [Logins -> ProcessType]
             /\ OneLoginWanted' /\ StartsInOrder'
 <2>1. process' \in [Logins -> ProcessType] BY <1>0, <1>c
 <2>2. OneLoginWanted' BY <1>0, <1>i, <1>c DEF OneLoginWanted, Wanted, LoginRunning
 <2>3. StartsInOrder' BY <1>0, <1>p, <1>c DEF StartsInOrder
 <2> QED BY <2>1, <2>2, <2>3
<1>1. ASSUME NEW p \in Logins, StartDeviceLogin(p)
      PROVE  DeviceInductive'
 <2>1. /\ process[p].phase = "none" /\ \A q \in Logins : q < p => process[q].phase # "none"
       /\ canceller' = p /\ owed' = owed + 1
       /\ UNCHANGED <<credential, instant, feed, pending, watched>>
       /\ device' = [NoState EXCEPT !.active = TRUE, !.expires = instant + LoginTTL]
  BY <1>1 DEF StartDeviceLogin, feedVars
 <2> DEFINE c(q) == [process[q] EXCEPT !.cancelled = process[q].cancelled \/ q = canceller]
             m == [c(p) EXCEPT !.phase = "running", !.since = instant]
 <2>2. process' = [[q \in Logins |-> c(q)] EXCEPT ![p] = m] BY <1>1 DEF StartDeviceLogin, Cancelled
 <2>3. \A q \in Logins : /\ c(q) \in ProcessType /\ c(q).phase = process[q].phase
                         /\ c(q).cancelled <=> process[q].cancelled \/ q = canceller
  BY <1>0 DEF ProcessType
 <2>3a. m \in ProcessType /\ m.phase = "running" BY <1>0, <2>3 DEF ProcessType, Phases
 <2> HIDE DEF c, m
 <2>4. /\ process' \in [Logins -> ProcessType] /\ process'[p].phase = "running"
       /\ \A q \in Logins : q # p => /\ process'[q].phase = process[q].phase
                                     /\ process'[q].cancelled <=> process[q].cancelled \/ q = canceller
  BY <2>2, <2>3, <2>3a
 <2>5. device' \in ShownState BY <2>1, <1>0, ShownStates
 <2>6. StartsInOrder' /\ owed' \in 0..MaxLogins
  <3>1. p = n + 1 /\ n + 1 \in 0..MaxLogins BY <2>1, <1>p, <1>n DEF Logins
  <3>2. \A q \in Logins : process'[q].phase # "none" <=> q <= n + 1 BY <2>4, <3>1, <1>p, <1>n DEF Logins
  <3>3. owed' <= n + 1 /\ owed' \in 0..MaxLogins BY <2>1, <3>1, <1>p, <1>0, <1>n
  <3> QED BY <3>1, <3>2, <3>3 DEF StartsInOrder
 <2>7. DeviceTypeOK' BY <2>1, <2>4, <2>5, <2>6, <1>0, DeviceTypes DEF DeviceTypeOK, ShownState, ProcessType, Phases, Logins
 <2>8. OneLoginWanted' BY <2>1, <2>4, <1>i DEF OneLoginWanted, Wanted, LoginRunning
 <2>9. FeedCurrent' BY <2>1, <1>0 DEF FeedCurrent
 <2> QED BY <2>6, <2>7, <2>8, <2>9 DEF DeviceInductive, DeviceInvariant
<1>2. CASE StartFails
 <2>1. /\ process' = [q \in Logins |-> [process[q] EXCEPT !.cancelled = @ \/ q = canceller]]
       /\ canceller' = 0 /\ device' = FailedLogin /\ BroadcastLocked
       /\ UNCHANGED <<credential, instant, owed>>
  BY <1>2 DEF StartFails, Cancelled
 <2>2. process' \in [Logins -> ProcessType] BY <2>1, <1>0 DEF ProcessType
 <2>3. \A q \in Logins : /\ process'[q].phase = process[q].phase
                         /\ process'[q].cancelled <=> process[q].cancelled \/ q = canceller
  BY <2>1, <1>0 DEF ProcessType
 <2>4. device' \in ShownState BY <2>1, ShownStates
 <2>5. DeviceTypeOK' BY <2>1, <2>2, <2>4, <1>0, <1>i, <1>n, BroadcastReaches DEF DeviceTypeOK, ShownState, ProcessType, Phases
 <2>6. OneLoginWanted' BY <2>3, <1>i DEF OneLoginWanted, Wanted, LoginRunning
 <2>7. StartsInOrder' BY <2>1, <2>3, <1>p DEF StartsInOrder
 <2>8. FeedCurrent' BY <2>1, <1>i, BroadcastReaches DEF FeedCurrent
 <2> QED BY <2>5, <2>6, <2>7, <2>8 DEF DeviceInductive, DeviceInvariant
<1>3. CASE BroadcastStart
 <2>1. /\ owed > 0 /\ owed' = owed - 1 /\ BroadcastLocked
       /\ UNCHANGED <<device, canceller, process, credential, instant>>
  BY <1>3 DEF BroadcastStart
 <2>2. DeviceTypeOK' BY <2>1, <1>0, <1>i, <1>n, BroadcastReaches DEF DeviceTypeOK, ShownState, ProcessType, Phases
 <2>3. StartsInOrder' BY <2>1, <1>p, <1>n, <1>0 DEF StartsInOrder
 <2>4. FeedCurrent' BY <2>1, <1>i, BroadcastReaches DEF FeedCurrent
 <2> QED BY <2>1, <2>2, <2>3, <2>4, <1>i DEF DeviceInductive, DeviceInvariant, OneLoginWanted, Wanted, LoginRunning
<1>4. ASSUME NEW p \in Logins, PrintCode(p)
      PROVE  DeviceInductive'
 <2> DEFINE m == [process[p] EXCEPT !.output = "printed"]
 <2>1. /\ process' = [process EXCEPT ![p] = m] /\ UNCHANGED <<device, canceller, credential, instant, owed, feed, pending, watched>>
  BY <1>4 DEF PrintCode, feedVars
 <2>2. m \in ProcessType /\ m.phase = process[p].phase /\ m.cancelled = process[p].cancelled BY <1>0 DEF ProcessType
 <2> HIDE DEF m
 <2>3. process' \in [Logins -> ProcessType] /\ OneLoginWanted' /\ StartsInOrder' BY <1>c, <2>1, <2>2
 <2> QED
  BY <1>0, <1>i, <2>1, <2>3 DEF DeviceInductive, DeviceInvariant, FeedCurrent, DeviceTypeOK, ShownState, ProcessType, Phases
<1>5. ASSUME NEW p \in Logins, ConsumeDeviceLoginOutput(p)
      PROVE  DeviceInductive'
 <2> DEFINE m == [process[p] EXCEPT !.output = "taken"]
 <2>1. /\ process' = [process EXCEPT ![p] = m] /\ UNCHANGED <<canceller, credential, instant, owed>>
       /\ device' = [device EXCEPT !.code = p,
                             !.expires = IF device.expires = 0 THEN instant + LoginTTL ELSE device.expires]
       /\ BroadcastLocked
  BY <1>5 DEF ConsumeDeviceLoginOutput
 <2>2. m \in ProcessType /\ m.phase = process[p].phase /\ m.cancelled = process[p].cancelled BY <1>0 DEF ProcessType
 <2> HIDE DEF m
 <2>3. process' \in [Logins -> ProcessType] /\ OneLoginWanted' /\ StartsInOrder' BY <1>c, <2>1, <2>2
 <2> DEFINE e == IF device.expires = 0 THEN instant + LoginTTL ELSE device.expires
 <2>e. e \in 0..(MaxInstant + LoginTTL) /\ p \in 0..MaxLogins BY <1>0, <1>n DEF ShownState, Logins
 <2>f. device' = [device EXCEPT !.code = p, !.expires = e] BY <2>1
 <2> HIDE DEF e
 <2>4. device' \in ShownState BY <2>e, <2>f, <1>0 DEF ShownState
 <2>5. DeviceTypeOK' BY <2>1, <2>3, <2>4, <1>0, <1>i, <1>n, BroadcastReaches DEF DeviceTypeOK, ShownState, ProcessType, Phases
 <2>6. FeedCurrent' BY <2>1, <1>i, BroadcastReaches DEF FeedCurrent
 <2> QED BY <2>3, <2>5, <2>6 DEF DeviceInductive, DeviceInvariant
<1>6. ASSUME NEW p \in Logins, ProcessExits(p)
      PROVE  DeviceInductive'
 <2> DEFINE m == [process[p] EXCEPT !.phase = "exited"]
 <2>1. /\ process' = [process EXCEPT ![p] = m] /\ process[p].phase = "running" /\ credential' \in BOOLEAN
       /\ UNCHANGED <<device, canceller, instant, owed, feed, pending, watched>>
  BY <1>6, <1>0 DEF ProcessExits, feedVars
 <2>2. m \in ProcessType /\ m.phase = "exited" /\ m.cancelled = process[p].cancelled BY <1>0 DEF ProcessType, Phases
 <2> HIDE DEF m
 <2>3. process' \in [Logins -> ProcessType] /\ OneLoginWanted' /\ StartsInOrder' BY <1>c, <2>1, <2>2
 <2> QED
  BY <1>0, <1>i, <2>1, <2>3 DEF DeviceInductive, DeviceInvariant, FeedCurrent, DeviceTypeOK, ShownState, ProcessType, Phases
<1>7. ASSUME NEW p \in Logins, FinishDeviceLogin(p)
      PROVE  DeviceInductive'
 <2>1. /\ process[p].phase = "exited" /\ canceller' = 0 /\ BroadcastLocked
       /\ device' = [device EXCEPT !.active = FALSE, !.completed = credential, !.failed = ~credential]
       /\ UNCHANGED <<credential, instant, owed>>
  BY <1>7 DEF FinishDeviceLogin
 <2> DEFINE c(q) == [process[q] EXCEPT !.cancelled = process[q].cancelled \/ q = canceller]
             m == [c(p) EXCEPT !.phase = "over"]
 <2>2. process' = [[q \in Logins |-> c(q)] EXCEPT ![p] = m] BY <1>7 DEF FinishDeviceLogin, Cancelled
 <2>3. \A q \in Logins : /\ c(q) \in ProcessType /\ c(q).phase = process[q].phase
                         /\ c(q).cancelled <=> process[q].cancelled \/ q = canceller
  BY <1>0 DEF ProcessType
 <2>3a. m \in ProcessType /\ m.phase = "over" BY <2>3 DEF ProcessType, Phases
 <2> HIDE DEF c, m
 <2>4. /\ process' \in [Logins -> ProcessType] /\ process'[p].phase = "over"
       /\ \A q \in Logins : q # p => /\ process'[q].phase = process[q].phase
                                     /\ process'[q].cancelled <=> process[q].cancelled \/ q = canceller
  BY <2>2, <2>3, <2>3a
 <2>5. device' \in ShownState BY <2>1, <1>0 DEF ShownState
 <2>6. StartsInOrder' BY <2>1, <2>4, <1>p DEF StartsInOrder
 <2>7. DeviceTypeOK' BY <2>1, <2>4, <2>5, <1>0, <1>i, <1>n, BroadcastReaches DEF DeviceTypeOK, ShownState, ProcessType, Phases
 <2>8. OneLoginWanted' BY <2>1, <2>4, <1>i DEF OneLoginWanted, Wanted, LoginRunning
 <2>9. FeedCurrent' BY <2>1, <1>i, BroadcastReaches DEF FeedCurrent
 <2> QED BY <2>6, <2>7, <2>8, <2>9 DEF DeviceInductive, DeviceInvariant
<1>8. CASE InstantPasses
 <2>1. /\ instant < MaxInstant /\ instant' = instant + 1
       /\ UNCHANGED <<device, canceller, credential, owed, feed, pending, watched>>
  BY <1>8 DEF InstantPasses, feedVars
 <2>2. /\ process' \in [Logins -> ProcessType]
       /\ \A q \in Logins : process'[q].phase = process[q].phase
                            /\ (process[q].cancelled => process'[q].cancelled)
  BY <1>8, <1>0 DEF InstantPasses, ProcessType
 <2>3. OneLoginWanted' /\ StartsInOrder' BY <2>1, <2>2, <1>i, <1>p DEF OneLoginWanted, Wanted, LoginRunning, StartsInOrder
 <2>4. DeviceTypeOK' BY <2>1, <2>2, <1>0, <1>n DEF DeviceTypeOK, ShownState, ProcessType, Phases
 <2> QED BY <2>1, <2>3, <2>4, <1>i DEF DeviceInductive, DeviceInvariant, FeedCurrent
<1>9. ASSUME NEW w \in Watchers, Subscribe(w) \/ SendFirst(w) \/ Deliver(w) \/ Disconnect(w)
      PROVE  DeviceInductive'
 <2>1. UNCHANGED <<device, canceller, process, credential, instant, owed>> BY <1>9 DEF Subscribe, SendFirst, Deliver, Disconnect
 <2>2. /\ feed' \in [Watchers -> {"none", "subscribing", "live", "closed"}]
       /\ pending' \in [Watchers -> 0..FeedBuffer]
       /\ watched' \in [Watchers -> ShownState]
  BY <1>9, <1>0, <1>n DEF Subscribe, SendFirst, Deliver, Disconnect
 <2>3. FeedCurrent' BY <1>9, <1>0, <1>i DEF Subscribe, SendFirst, Deliver, Disconnect, FeedCurrent
 <2> QED
  BY <2>1, <2>2, <2>3, <1>0, <1>i, <1>p DEF DeviceInductive, DeviceInvariant, DeviceTypeOK, ShownState, ProcessType,
     Phases, OneLoginWanted, Wanted, LoginRunning, StartsInOrder
<1>10. CASE UNCHANGED deviceVars
 BY <1>10, <1>i, <1>p DEF deviceVars, DeviceInductive, DeviceInvariant, DeviceTypeOK, FeedCurrent,
    OneLoginWanted, Wanted, LoginRunning, StartsInOrder
<1> QED BY <1>1, <1>2, <1>3, <1>4, <1>5, <1>6, <1>7, <1>8, <1>9, <1>10 DEF DeviceNext

\* No two device sign-ins go on at once, and every page shows the current one.
THEOREM DeviceKept == DeviceSpec => [](DeviceInvariant /\ FeedCurrent)
<1>1. DeviceInductive => DeviceInvariant /\ FeedCurrent BY DEF DeviceInductive
<1>2. DeviceInductive /\ [DeviceNext]_deviceVars => DeviceInductive' BY DeviceStep
<1> QED BY <1>1, <1>2, DeviceStart, PTL DEF DeviceSpec

----
\* Sign-in by code (AgentSignIn).

CodeSpec == CodeInit /\ [][CodeNext]_codeVars

CliType == [phase : {"none", "running", "exited"}, cancelled : BOOLEAN,
            url : BOOLEAN, code : BOOLEAN, failed : BOOLEAN]
CallType == [at : {"idle", "starting", "submitting", "reaping", "cancelling", "report"},
             holds : Sessions \cup {NoSession}, report : Shown]

\* A session the caller forgets is over, or told to be.
LEMMA Forgets ==
  ASSUME CodeInvariant, NEW s \in Sessions \cup {NoSession},
         cli' \in [Sessions -> CliType],
         \A t \in Sessions : cli'[t].phase = "running" /\ ~cli'[t].cancelled
           => t # s /\ cli[t].phase = "running" /\ ~cli[t].cancelled,
         session' = session \/ ClearSession(s)
  PROVE  NoOrphan' /\ session' \in Sessions \cup {NoSession}
BY DEF CodeInvariant, CodeTypeOK, NoOrphan, ClearSession

\* Whoever starts, submits, cancels or is answered: a process that goes on without
\* being told to end is the session that is stored.
LEMMA CodeStep ==
  ASSUME CodeInvariant, [CodeNext]_codeVars
  PROVE  CodeInvariant'
<1>0. /\ session \in Sessions \cup {NoSession} /\ loginState \in Shown
      /\ cli \in [Sessions -> CliType] /\ call \in [Admins -> CallType] /\ hostLogin \in BOOLEAN
      /\ NoOrphan /\ NoSession \notin Sessions
 BY CodeLoginAssumption DEF CodeInvariant, CodeTypeOK, CliType, CallType, Sessions
<1>t. ASSUME session' \in Sessions \cup {NoSession}, loginState' \in Shown,
             cli' \in [Sessions -> CliType], call' \in [Admins -> CallType], hostLogin' \in BOOLEAN,
             NoOrphan'
      PROVE  CodeInvariant'
 BY <1>t DEF CodeInvariant, CodeTypeOK, CliType, CallType
<1>r. /\ Idle \in CallType
      /\ \A report \in Shown : Reporting(report) \in CallType
      /\ \A at \in {"starting", "submitting", "cancelling"}, s \in Sessions : Waiting(at, s) \in CallType
 BY DEF Idle, Reporting, Waiting, CallType, Shown
<1>k. \A s \in Sessions \cup {NoSession} :
        /\ CancelCli(s) \in [Sessions -> CliType]
        /\ \A t \in Sessions : /\ CancelCli(s)[t].phase = cli[t].phase
                               /\ t # s => CancelCli(s)[t] = cli[t]
                               /\ t = s => CancelCli(s)[t].cancelled
 BY <1>0 DEF CancelCli, CliType
<1>1. ASSUME NEW a \in Admins, NEW s \in Sessions, StartCode(a, s)
      PROVE  CodeInvariant'
 <2> DEFINE m == [cli[s] EXCEPT !.phase = "running"]
 <2>1. m \in CliType BY <1>0 DEF CliType
 <2>2. cli' = [cli EXCEPT ![s] = m] BY <1>1 DEF StartCode
 <2> HIDE DEF m
 <2>3. NoOrphan' BY <1>0, <1>1, <2>1, <2>2 DEF StartCode, NoOrphan, Alive
 <2>4. cli' \in [Sessions -> CliType] BY <1>0, <2>1, <2>2
 <2> QED BY <1>0, <1>1, <1>r, <1>t, <2>3, <2>4 DEF StartCode, Shown
<1>2. ASSUME NEW a \in Admins, StartCodeFails(a)
      PROVE  CodeInvariant'
 <2>1. NoOrphan' BY <1>0, <1>2 DEF StartCodeFails, NoOrphan, Alive
 <2> QED BY <1>0, <1>2, <1>t, <2>1 DEF StartCodeFails, Shown
<1>3. ASSUME NEW a \in Admins, StartFound(a) \/ Report(a) \/ Leave(a)
      PROVE  CodeInvariant'
 <2>1. /\ UNCHANGED <<session, cli, hostLogin>> /\ call' \in [Admins -> CallType] /\ loginState' \in Shown
  BY <1>0, <1>3, <1>r DEF StartFound, Report, Leave, CallType, Shown
 <2> QED BY <1>0, <2>1, <1>t DEF NoOrphan
<1>4. ASSUME NEW a \in Admins, StartGivesUp(a)
      PROVE  CodeInvariant'
 <2> DEFINE s == call[a].holds
 <2>1. /\ cli' = CancelCli(s) /\ ClearSession(s) /\ call' = [call EXCEPT ![a] = Reporting("error")]
       /\ UNCHANGED <<loginState, hostLogin>> /\ s \in Sessions \cup {NoSession}
  BY <1>0, <1>4 DEF StartGivesUp, CallType
 <2>2. NoOrphan' /\ session' \in Sessions \cup {NoSession} BY <1>0, <1>k, <2>1, Forgets
 <2>3. call' \in [Admins -> CallType] BY <1>0, <1>r, <2>1 DEF Shown
 <2> QED BY <1>0, <1>k, <1>t, <2>1, <2>2, <2>3
<1>5. ASSUME NEW a \in Admins, StartExited(a) \/ SubmitDone(a) \/ SubmitReaped(a) \/ CancelDone(a)
      PROVE  CodeInvariant'
 <2> DEFINE s == call[a].holds
 <2>1. /\ UNCHANGED <<loginState, cli, hostLogin>> /\ s \in Sessions \cup {NoSession}
       /\ Exited(s) /\ ClearSession(s)
       /\ \E report \in Shown : call' = [call EXCEPT ![a] = Reporting(report)]
  BY <1>0, <1>5 DEF StartExited, SubmitDone, SubmitReaped, CancelDone, SubmitOutcome, CallType, Shown
 <2>2. NoOrphan' /\ session' \in Sessions \cup {NoSession} BY <1>0, <2>1, Forgets DEF Exited
 <2>3. call' \in [Admins -> CallType] BY <1>0, <1>r, <2>1
 <2> QED BY <1>0, <1>t, <2>1, <2>2, <2>3
<1>6. ASSUME NEW a \in Admins, SubmitCode(a)
      PROVE  CodeInvariant'
 <2>1. CASE Alive(session) /\ cli' = [cli EXCEPT ![session].code = TRUE]
             /\ call' = [call EXCEPT ![a] = Waiting("submitting", session)]
  <3>1. session \in Sessions BY <1>0, <2>1 DEF Alive
  <3>2. /\ cli' \in [Sessions -> CliType]
        /\ \A t \in Sessions : cli'[t].phase = cli[t].phase /\ cli'[t].cancelled = cli[t].cancelled
   BY <1>0, <2>1, <3>1 DEF CliType
  <3>3. call' \in [Admins -> CallType] BY <1>0, <1>r, <2>1, <3>1
  <3> QED BY <1>0, <1>t, <1>6, <3>2, <3>3 DEF SubmitCode, NoOrphan
 <2>2. CASE call' = [call EXCEPT ![a] = Reporting("error")] /\ cli' = cli
  <3>1. call' \in [Admins -> CallType] BY <1>0, <1>r, <2>2 DEF Shown
  <3> QED BY <1>0, <1>t, <1>6, <2>2, <3>1 DEF SubmitCode, NoOrphan
 <2> QED BY <1>6, <2>1, <2>2 DEF SubmitCode
<1>7. ASSUME NEW a \in Admins, SubmitTimesOut(a) \/ CancelCode(a)
      PROVE  CodeInvariant'
 <2>1. \E s \in Sessions \cup {NoSession} : cli' = CancelCli(s) BY <1>0, <1>7 DEF SubmitTimesOut, CancelCode, CallType
 <2>2. call' \in [Admins -> CallType] /\ UNCHANGED <<session, loginState, hostLogin>>
  BY <1>0, <1>7, <1>r DEF SubmitTimesOut, CancelCode, CallType
 <2>3. NoOrphan' BY <1>0, <1>k, <2>1, <2>2 DEF NoOrphan
 <2> QED BY <1>0, <1>k, <1>t, <2>1, <2>2, <2>3
<1>8. ASSUME NEW s \in Sessions, PrintUrl(s) \/ CliExits(s)
      PROVE  CodeInvariant'
 <2>1. /\ cli' \in [Sessions -> CliType] /\ hostLogin' \in BOOLEAN
       /\ \A t \in Sessions : (cli'[t].phase = "running" => cli[t].phase = "running")
                              /\ cli'[t].cancelled = cli[t].cancelled
  <3>1. CASE PrintUrl(s) BY <1>0, <3>1 DEF PrintUrl, CliType
  <3>2. CASE CliExits(s)
   <4>1. PICK failed \in BOOLEAN : cli' = [cli EXCEPT ![s].phase = "exited", ![s].failed = failed] BY <3>2 DEF CliExits
   <4> DEFINE m == [cli[s] EXCEPT !.phase = "exited", !.failed = failed]
   <4>2. m \in CliType /\ m.phase = "exited" /\ m.cancelled = cli[s].cancelled BY <1>0 DEF CliType
   <4>3. cli' = [cli EXCEPT ![s] = m] BY <4>1
   <4> HIDE DEF m
   <4>4. hostLogin' \in BOOLEAN BY <1>0, <3>2 DEF CliExits
   <4> QED BY <1>0, <4>2, <4>3, <4>4
  <3> QED BY <1>8, <3>1, <3>2
 <2>2. UNCHANGED <<session, loginState, call>> BY <1>8 DEF PrintUrl, CliExits
 <2> QED BY <1>0, <1>t, <2>1, <2>2 DEF NoOrphan
<1>9. CASE UNCHANGED codeVars BY <1>9 DEF codeVars, CodeInvariant, CodeTypeOK, NoOrphan
<1> QED BY <1>1, <1>2, <1>3, <1>4, <1>5, <1>6, <1>7, <1>8, <1>9 DEF CodeNext

\* A sign-in process that nobody told to end is the session that requests reach.
THEOREM CodeKept == CodeSpec => []CodeInvariant
<1>1. CodeInit => CodeInvariant
 <2> SUFFICES ASSUME CodeInit PROVE CodeInvariant OBVIOUS
 <2>1. Idle \in CallType BY DEF Idle, CallType, Shown
 <2> DEFINE m == [phase |-> "none", cancelled |-> FALSE, url |-> FALSE, code |-> FALSE, failed |-> FALSE]
 <2>2. m \in CliType /\ m.phase = "none" /\ cli = [s \in Sessions |-> m] BY DEF CliType, CodeInit
 <2> HIDE DEF m
 <2>3. /\ cli \in [Sessions -> CliType] /\ call \in [Admins -> CallType]
       /\ \A s \in Sessions : cli[s].phase = "none"
  BY <2>1, <2>2 DEF CodeInit
 <2> QED BY <2>3 DEF CodeInit, CodeInvariant, CodeTypeOK, NoOrphan, CliType, CallType, Shown
<1>2. CodeInvariant /\ [CodeNext]_codeVars => CodeInvariant' BY CodeStep
<1> QED BY <1>1, <1>2, PTL DEF CodeSpec

----
\* The API key of an agent (AgentKeys).

KeyRequestType == [at : {"rest", "ask", "validate", "save", "publish", "answer"}, key : Keys]

\* The request that holds mutationMu, and what it has found out so far.
MutationSound ==
  /\ mutating # NoTab => keyRequest[mutating].at \in {"validate", "save", "publish"}
  /\ \A t \in KeyTabs :
       /\ keyRequest[t].at \in {"validate", "save", "publish"} => mutating = t
       /\ keyRequest[t].at \in {"save", "publish"} => keyRequest[t].key \in Genuine \cup {NoKey}
       /\ keyRequest[t].at = "publish" => filed = keyRequest[t].key
  /\ filed \in Genuine \cup {NoKey} \/ filed \notin Fitting

\* A tab that is about to be sent nothing more is sent the present status last.
StreamSound ==
  \A t \in KeyTabs : link[t] = "on" /\ backlog[t] = <<>> =>
    /\ stream[t] # <<>> => stream[t][Len(stream[t])] = KeyStatus
    /\ stream[t] = <<>> => showing[t] = KeyStatus \/ overtaken[t] \/ reply[t] # <<>>

KeyTypes ==
  /\ filed \in Keys /\ key \in Keys /\ mutating \in KeyTabs \cup {NoTab}
  /\ keyRequest \in [KeyTabs -> KeyRequestType]
  /\ link \in [KeyTabs -> {"off", "joining", "on", "closed"}]
  /\ initial \in [KeyTabs -> BOOLEAN]
  /\ backlog \in [KeyTabs -> Seq(BOOLEAN)] /\ stream \in [KeyTabs -> Seq(BOOLEAN)]
  /\ reply \in [KeyTabs -> Seq(BOOLEAN)]
  /\ showing \in [KeyTabs -> BOOLEAN] /\ overtaken \in [KeyTabs -> BOOLEAN]
  /\ \A t \in KeyTabs : Len(backlog[t]) <= KeyBuffer

KeyInductive == KeyTypes /\ MutationSound /\ RunsUseTheFile /\ NoneUnacceptedUsed /\ StreamSound

\* What the tail of a sequence ends with.
LEMMA LastOfTail ==
  ASSUME NEW S, NEW s \in Seq(S), s # <<>>
  PROVE  /\ Tail(s) = <<>> => Head(s) = s[Len(s)]
         /\ Tail(s) # <<>> => Tail(s)[Len(Tail(s))] = s[Len(s)]
<1> DEFINE q == Tail(s)
<1>1. /\ q \in Seq(S) /\ Len(q) = Len(s) - 1 /\ Len(s) \in Nat \ {0} /\ Head(s) = s[1]
      /\ \A i \in 1 .. Len(q) : q[i] = s[i+1]
 BY HeadTailProperties, EmptySeq
<1>2. q = <<>> => Len(q) = 0 BY EmptySeq
<1>3. q # <<>> => Len(q) \in Nat \ {0} BY <1>1, EmptySeq
<1> HIDE DEF q
<1>4. q = <<>> => Len(s) = 1 BY <1>1, <1>2
<1>5. q # <<>> => Len(q) \in 1..Len(q) /\ Len(q) + 1 = Len(s) BY <1>1, <1>3
<1> QED BY <1>1, <1>4, <1>5 DEF q

KeyFacts == /\ KeyBuffer \in Nat \ {0} /\ NoTab \notin KeyTabs /\ Genuine \subseteq Fitting
            /\ NoKey \notin Genuine

\* The assumptions on the constants, by the name the steps cite.
LEMMA KeyFactsHold == KeyFacts
BY KeyAssumption DEF KeyFacts

\* The inductive invariant says what the run checks.
LEMMA KeysKept == KeyInductive => KeyInvariant
BY DEF KeyInductive, KeyInvariant, KeyTypes, KeyTypeOK, KeyRequestType, StreamSound, ShowsTheKey

\* No key is filed but a refused one, no tab listens, and nothing runs, at first.
LEMMA KeyStart == KeyInit => KeyInductive
<1> SUFFICES ASSUME KeyInit PROVE KeyInductive OBVIOUS
<1>1. Resting \in KeyRequestType BY DEF Resting, KeyRequestType, Keys
<1>2. KeyTypes BY <1>1, KeyFactsHold DEF KeyInit, KeyTypes, Keys, Usable, KeyFacts
<1>3. MutationSound BY DEF KeyInit, MutationSound, Resting
<1>4. RunsUseTheFile /\ NoneUnacceptedUsed BY DEF KeyInit, RunsUseTheFile, NoneUnacceptedUsed, Usable
<1>5. StreamSound BY DEF KeyInit, StreamSound
<1> QED BY <1>2, <1>3, <1>4, <1>5 DEF KeyInductive

\* Every step of a request, of a run, of a tab and of the server keeps the request that
\* holds the lock sound, and what was sent to a tab true.
LEMMA KeyStep ==
  ASSUME KeyInductive, [KeyNext]_keyVars
  PROVE  KeyInductive'
<1> USE KeyFactsHold DEF KeyFacts
<1>0. KeyTypes /\ MutationSound /\ RunsUseTheFile /\ NoneUnacceptedUsed /\ StreamSound BY DEF KeyInductive
<1>r. Resting \in KeyRequestType /\ Resting.at = "rest" BY DEF Resting, KeyRequestType, Keys
<1>q. \A t \in KeyTabs : keyRequest[t] \in KeyRequestType BY <1>0 DEF KeyTypes
\* What leaves the tabs' streams alone, and what leaves the key alone.
<1>s. ASSUME UNCHANGED <<key, tabVars, showing, overtaken>>,
             \A t \in KeyTabs : reply[t] # <<>> => reply'[t] # <<>>
      PROVE  StreamSound'
 BY <1>0, <1>s DEF StreamSound, tabVars, KeyStatus
<1>k. ASSUME UNCHANGED mutationVars
      PROVE  (MutationSound /\ RunsUseTheFile /\ NoneUnacceptedUsed)'
 BY <1>0, <1>k DEF MutationSound, mutationVars, RunsUseTheFile, NoneUnacceptedUsed
<1>1. ASSUME NEW t \in KeyTabs, AskKey(t) \/ HoldMutation(t) \/ ValidateKey(t) \/ SaveKey(t)
      PROVE  KeyInductive'
 <2>1. UNCHANGED <<key, reply, tabVars, showing, overtaken>> BY <1>1 DEF AskKey, HoldMutation, ValidateKey, SaveKey, GiveUp
 <2>2. StreamSound' BY <2>1, <1>s
 <2>3. KeyTypes' /\ MutationSound' /\ RunsUseTheFile' /\ NoneUnacceptedUsed'
  <3>1. CASE AskKey(t)
   <4>1. PICK k \in Keys : keyRequest' = [keyRequest EXCEPT ![t] = [at |-> "ask", key |-> k]] BY <3>1 DEF AskKey
   <4>2. keyRequest[t].at = "rest" /\ UNCHANGED <<filed, key, mutating>> BY <3>1 DEF AskKey, Resting
   <4> DEFINE m == [at |-> "ask", key |-> k]
   <4>3. m \in KeyRequestType /\ m.at = "ask" BY DEF KeyRequestType
   <4>4. keyRequest' = [keyRequest EXCEPT ![t] = m] BY <4>1
   <4> HIDE DEF m
   <4> QED BY <1>0, <2>1, <4>2, <4>3, <4>4 DEF KeyTypes, MutationSound, RunsUseTheFile, NoneUnacceptedUsed, tabVars
  <3>2. CASE HoldMutation(t)
   <4> DEFINE to == IF keyRequest[t].key = NoKey THEN "save" ELSE "validate"
               m == [keyRequest[t] EXCEPT !.at = to]
   <4>1. /\ mutating = NoTab /\ keyRequest[t].at = "ask" /\ mutating' = t /\ UNCHANGED <<filed, key>>
         /\ keyRequest' = [keyRequest EXCEPT ![t] = m]
    BY <3>2 DEF HoldMutation
   <4>2. m \in KeyRequestType /\ m.at \in {"save", "validate"} /\ (m.at = "save" => m.key = NoKey)
    <5>1. to \in {"save", "validate"} /\ (to = "save" => keyRequest[t].key = NoKey) OBVIOUS
    <5> HIDE DEF to
    <5> QED BY <1>q, <5>1 DEF KeyRequestType
   <4> HIDE DEF m
   <4> QED BY <1>0, <2>1, <4>1, <4>2 DEF KeyTypes, MutationSound, RunsUseTheFile, NoneUnacceptedUsed, tabVars
  <3>3. CASE keyRequest[t].at \in {"validate", "save"} /\ GiveUp(t)
   <4>1. /\ mutating' = NoTab /\ UNCHANGED <<filed, key>>
         /\ keyRequest' = [keyRequest EXCEPT ![t] = Resting]
    BY <3>3 DEF GiveUp
   <4>2. mutating = t BY <1>0, <3>3 DEF MutationSound
   <4> QED BY <1>0, <1>r, <2>1, <3>3, <4>1, <4>2 DEF KeyTypes, MutationSound, RunsUseTheFile, NoneUnacceptedUsed, tabVars
  <3>4. CASE /\ keyRequest[t].at = "validate" /\ keyRequest[t].key \in Genuine
             /\ keyRequest' = [keyRequest EXCEPT ![t].at = "save"]
             /\ UNCHANGED <<filed, key, mutating>>
   <4> DEFINE m == [keyRequest[t] EXCEPT !.at = "save"]
   <4>1. m \in KeyRequestType /\ m.at = "save" /\ m.key = keyRequest[t].key BY <1>q DEF KeyRequestType
   <4>2. keyRequest' = [keyRequest EXCEPT ![t] = m] BY <3>4
   <4> HIDE DEF m
   <4> QED BY <1>0, <2>1, <3>4, <4>1, <4>2 DEF KeyTypes, MutationSound, RunsUseTheFile, NoneUnacceptedUsed, tabVars
  <3>5. CASE /\ keyRequest[t].at = "save" /\ filed' = keyRequest[t].key
             /\ keyRequest' = [keyRequest EXCEPT ![t].at = "publish"]
             /\ UNCHANGED <<key, mutating>>
   <4> DEFINE m == [keyRequest[t] EXCEPT !.at = "publish"]
   <4>1. m \in KeyRequestType /\ m.at = "publish" /\ m.key = keyRequest[t].key BY <1>q DEF KeyRequestType
   <4>2. keyRequest' = [keyRequest EXCEPT ![t] = m] BY <3>5
   <4> HIDE DEF m
   <4>3. mutating = t /\ filed' \in Genuine \cup {NoKey} /\ filed' \in Keys BY <1>0, <3>5 DEF MutationSound, Keys
   <4>4. /\ keyRequest' \in [KeyTabs -> KeyRequestType] /\ keyRequest'[t] = m
         /\ \A u \in KeyTabs : u # t => keyRequest'[u] = keyRequest[u]
    BY <1>0, <4>1, <4>2 DEF KeyTypes
   <4>5. KeyTypes' BY <1>0, <2>1, <3>5, <4>3, <4>4 DEF KeyTypes, tabVars
   <4>6. MutationSound' BY <1>0, <3>5, <4>1, <4>3, <4>4 DEF MutationSound
   <4> QED BY <1>0, <3>5, <4>1, <4>3, <4>4, <4>5, <4>6 DEF RunsUseTheFile, NoneUnacceptedUsed
  <3> QED BY <1>1, <3>1, <3>2, <3>3, <3>4, <3>5 DEF ValidateKey, SaveKey
 <2> QED BY <2>2, <2>3 DEF KeyInductive
<1>2. ASSUME NEW t \in KeyTabs, PublishKey(t)
      PROVE  KeyInductive'
 <2> DEFINE m == [at |-> "answer", key |-> NoKey]
 <2>1. /\ keyRequest[t].at = "publish" /\ key' = keyRequest[t].key /\ mutating' = NoTab
       /\ keyRequest' = [keyRequest EXCEPT ![t] = m]
       /\ Broadcast(key' # NoKey)
       /\ UNCHANGED <<filed, reply, initial, stream, showing, overtaken>>
  BY <1>2 DEF PublishKey
 <2>2. m \in KeyRequestType /\ m.at = "answer" BY DEF KeyRequestType, Keys
 <2> HIDE DEF m
 <2>3. mutating = t /\ filed = keyRequest[t].key /\ filed \in Genuine \cup {NoKey} /\ key' = filed BY <1>0, <2>1 DEF MutationSound
 <2>4. /\ backlog' \in [KeyTabs -> Seq(BOOLEAN)]
       /\ link' \in [KeyTabs -> {"off", "joining", "on", "closed"}]
       /\ \A u \in KeyTabs : Len(backlog'[u]) <= KeyBuffer /\ (link'[u] = "on" => backlog'[u] # <<>>)
  <3> DEFINE full == {u \in KeyTabs : Len(backlog[u]) = KeyBuffer}
              subscribed == {u \in KeyTabs : link[u] \in {"joining", "on"}}
              status == key' # NoKey
  <3>1. /\ backlog' = [u \in KeyTabs |->
                    IF u \in subscribed \ full THEN Append(backlog[u], status) ELSE backlog[u]]
        /\ link' = [u \in KeyTabs |-> IF u \in subscribed \cap full THEN
                                   (IF link[u] = "on" THEN "closed" ELSE "off") ELSE link[u]]
   BY <2>1 DEF Broadcast
  <3>2. \A u \in KeyTabs : /\ backlog[u] \in Seq(BOOLEAN) /\ Len(backlog[u]) <= KeyBuffer
                           /\ link[u] \in {"off", "joining", "on", "closed"}
   BY <1>0 DEF KeyTypes
  <3>3. status \in BOOLEAN OBVIOUS
  <3> HIDE DEF status
  <3>4. ASSUME NEW u \in KeyTabs
        PROVE  /\ backlog'[u] \in Seq(BOOLEAN) /\ Len(backlog'[u]) <= KeyBuffer
               /\ link'[u] \in {"off", "joining", "on", "closed"}
               /\ link'[u] = "on" => backlog'[u] # <<>>
   <4>1. CASE u \in subscribed \ full
    <5>1. backlog'[u] = Append(backlog[u], status) /\ link'[u] = link[u] BY <3>1, <4>1
    <5>2. /\ Append(backlog[u], status) \in Seq(BOOLEAN)
          /\ Len(Append(backlog[u], status)) = Len(backlog[u]) + 1
          /\ Len(backlog[u]) \in Nat
     BY <3>2, <3>3
    <5>3. Append(backlog[u], status) # <<>> BY <5>2
    <5> QED BY <3>2, <4>1, <5>1, <5>2, <5>3
   <4>2. CASE u \in subscribed \cap full BY <3>1, <3>2, <4>2
   <4>3. CASE u \notin subscribed BY <3>1, <3>2, <4>3
   <4> QED BY <4>1, <4>2, <4>3
  <3>5. backlog' = [u \in KeyTabs |-> backlog'[u]] /\ link' = [u \in KeyTabs |-> link'[u]] BY <3>1
  <3> QED BY <3>4, <3>5
 <2>5. KeyTypes' BY <1>0, <2>1, <2>2, <2>3, <2>4 DEF KeyTypes, Keys
 <2>6. MutationSound' BY <1>0, <2>1, <2>2, <2>3 DEF MutationSound, KeyTypes
 <2>7. RunsUseTheFile' /\ NoneUnacceptedUsed' BY <2>1, <2>3 DEF RunsUseTheFile, NoneUnacceptedUsed, Usable
 <2>8. StreamSound' BY <2>4 DEF StreamSound
 <2> QED BY <2>5, <2>6, <2>7, <2>8 DEF KeyInductive
<1>3. ASSUME NEW t \in KeyTabs, AnswerKey(t)
      PROVE  KeyInductive'
 <2>1. /\ keyRequest[t].at = "answer" /\ reply' = [reply EXCEPT ![t] = Append(reply[t], KeyStatus)]
       /\ keyRequest' = [keyRequest EXCEPT ![t] = Resting]
       /\ UNCHANGED <<filed, key, mutating, tabVars, showing, overtaken>>
  BY <1>3 DEF AnswerKey
 <2>2. /\ reply' \in [KeyTabs -> Seq(BOOLEAN)]
       /\ \A u \in KeyTabs : reply[u] # <<>> => reply'[u] # <<>>
  <3>1. reply[t] \in Seq(BOOLEAN) /\ KeyStatus \in BOOLEAN BY <1>0 DEF KeyTypes, KeyStatus
  <3>2. Append(reply[t], KeyStatus) \in Seq(BOOLEAN) /\ Append(reply[t], KeyStatus) # <<>> BY <3>1, AppendProperties
  <3> QED BY <1>0, <2>1, <3>2 DEF KeyTypes
 <2>3. StreamSound' BY <1>s, <2>1, <2>2
 <2>4. KeyTypes' BY <1>0, <1>r, <2>1, <2>2 DEF KeyTypes, tabVars
 <2>5. MutationSound' /\ RunsUseTheFile' /\ NoneUnacceptedUsed'
  BY <1>0, <1>r, <2>1 DEF MutationSound, RunsUseTheFile, NoneUnacceptedUsed, KeyTypes
 <2> QED BY <2>3, <2>4, <2>5 DEF KeyInductive
<1>4. ASSUME NEW t \in KeyTabs, TakeReply(t)
      PROVE  KeyInductive'
 <2>1. /\ reply[t] # <<>> /\ showing' = [showing EXCEPT ![t] = Head(reply[t])]
       /\ overtaken' = [overtaken EXCEPT ![t] = Head(reply[t]) # KeyStatus]
       /\ reply' = [reply EXCEPT ![t] = Tail(reply[t])]
       /\ UNCHANGED <<mutationVars, tabVars>>
  BY <1>4 DEF TakeReply
 <2>2. Head(reply[t]) \in BOOLEAN /\ Tail(reply[t]) \in Seq(BOOLEAN) BY <1>0, <2>1 DEF KeyTypes
 <2>3. KeyTypes' BY <1>0, <2>1, <2>2 DEF KeyTypes, tabVars, mutationVars
 <2>4. StreamSound' BY <1>0, <2>1, <2>2 DEF KeyTypes, StreamSound, tabVars, mutationVars, KeyStatus
 <2> QED BY <2>1, <2>3, <2>4, <1>k DEF KeyInductive
<1>5. ASSUME NEW t \in KeyTabs, JoinStream(t)
      PROVE  KeyInductive'
 <2>1. KeyTypes'
  <3>1. KeyStatus \in BOOLEAN /\ <<>> \in Seq(BOOLEAN) /\ Len(<<>>) <= KeyBuffer BY DEF KeyStatus
  <3> HIDE DEF KeyStatus
  <3> QED BY <1>0, <1>5, <3>1 DEF JoinStream, KeyTypes, mutationVars
 <2>2. StreamSound' BY <1>0, <1>5 DEF JoinStream, KeyTypes, mutationVars, StreamSound, KeyStatus
 <2> QED BY <1>5, <2>1, <2>2, <1>k DEF KeyInductive, JoinStream
<1>6. ASSUME NEW t \in KeyTabs, SendInitial(t)
      PROVE  KeyInductive'
 <2>1. /\ link[t] = "joining" /\ Len(backlog[t]) < KeyBuffer
       /\ link' = [link EXCEPT ![t] = "on"]
       /\ backlog' = [backlog EXCEPT ![t] = Append(backlog[t], initial[t])]
       /\ UNCHANGED <<mutationVars, reply, initial, stream, showing, overtaken>>
  BY <1>6 DEF SendInitial
 <2>2. /\ Append(backlog[t], initial[t]) \in Seq(BOOLEAN) /\ Append(backlog[t], initial[t]) # <<>>
       /\ Len(Append(backlog[t], initial[t])) <= KeyBuffer
  <3>1. backlog[t] \in Seq(BOOLEAN) /\ initial[t] \in BOOLEAN BY <1>0 DEF KeyTypes
  <3>2. KeyBuffer \in Nat BY KeyAssumption
  <3> QED BY <2>1, <3>1, <3>2, AppendProperties
 <2>3. KeyTypes' BY <1>0, <2>1, <2>2 DEF KeyTypes, mutationVars
 <2>4. StreamSound' BY <1>0, <2>1, <2>2 DEF KeyTypes, mutationVars, StreamSound, KeyStatus
 <2> QED BY <2>1, <2>3, <2>4, <1>k DEF KeyInductive
<1>7. ASSUME NEW t \in KeyTabs, WriteStatus(t)
      PROVE  KeyInductive'
 <2>1. /\ backlog[t] # <<>> /\ backlog' = [backlog EXCEPT ![t] = Tail(backlog[t])]
       /\ stream' = [stream EXCEPT ![t] = Append(stream[t], KeyStatus)]
       /\ UNCHANGED <<mutationVars, reply, link, initial, showing, overtaken>>
  BY <1>7 DEF WriteStatus, TakeFromChannel
 <2>2. /\ Tail(backlog[t]) \in Seq(BOOLEAN) /\ Len(Tail(backlog[t])) <= KeyBuffer
  <3>1. backlog[t] \in Seq(BOOLEAN) /\ Len(backlog[t]) <= KeyBuffer BY <1>0 DEF KeyTypes
  <3>2. Len(backlog[t]) \in Nat /\ Tail(backlog[t]) \in Seq(BOOLEAN)
        /\ Len(Tail(backlog[t])) = Len(backlog[t]) - 1
   BY <2>1, <3>1, HeadTailProperties, LenProperties
  <3> QED BY <3>1, <3>2
 <2> DEFINE s == Append(stream[t], KeyStatus)
 <2>3. s \in Seq(BOOLEAN) /\ s # <<>> /\ s[Len(s)] = KeyStatus
  <3>1. stream[t] \in Seq(BOOLEAN) /\ KeyStatus \in BOOLEAN BY <1>0 DEF KeyTypes, KeyStatus
  <3>2. /\ Append(stream[t], KeyStatus) \in Seq(BOOLEAN)
        /\ Append(stream[t], KeyStatus) # <<>>
        /\ Len(Append(stream[t], KeyStatus)) = Len(stream[t]) + 1
        /\ Append(stream[t], KeyStatus)[Len(stream[t]) + 1] = KeyStatus
   BY <3>1, AppendProperties
  <3> QED BY <3>2
 <2>4. stream' = [stream EXCEPT ![t] = s] BY <2>1
 <2> HIDE DEF s
 <2>5. KeyTypes' BY <1>0, <2>1, <2>2, <2>3, <2>4 DEF KeyTypes, mutationVars
 <2>6. KeyStatus' = KeyStatus BY <2>1 DEF KeyStatus, mutationVars
 <2>7. StreamSound' BY <1>0, <2>1, <2>3, <2>4, <2>6 DEF KeyTypes, StreamSound
 <2> QED BY <2>1, <2>5, <2>7, <1>k DEF KeyInductive
<1>8. ASSUME NEW t \in KeyTabs, EndStream(t) \/ BreakStream(t)
      PROVE  KeyInductive'
 <2>1. KeyTypes'
  <3>1. <<>> \in Seq(BOOLEAN) /\ Len(<<>>) <= KeyBuffer OBVIOUS
  <3>2. CASE EndStream(t) BY <1>0, <3>2 DEF EndStream, KeyTypes, mutationVars
  <3>3. CASE BreakStream(t) BY <1>0, <3>1, <3>3 DEF BreakStream, KeyTypes, mutationVars
  <3> QED BY <1>8, <3>2, <3>3
 <2>2. StreamSound' BY <1>0, <1>8 DEF EndStream, BreakStream, KeyTypes, mutationVars, StreamSound, KeyStatus
 <2> QED BY <1>8, <2>1, <2>2, <1>k DEF KeyInductive, EndStream, BreakStream
<1>9. ASSUME NEW t \in KeyTabs, TakeStatus(t)
      PROVE  KeyInductive'
 <2>1. /\ stream[t] # <<>> /\ showing' = [showing EXCEPT ![t] = Head(stream[t])]
       /\ overtaken' = [overtaken EXCEPT ![t] = FALSE]
       /\ stream' = [stream EXCEPT ![t] = Tail(stream[t])]
       /\ UNCHANGED <<mutationVars, reply, link, initial, backlog>>
  BY <1>9 DEF TakeStatus
 <2>2. stream[t] \in Seq(BOOLEAN) BY <1>0 DEF KeyTypes
 <2>3. /\ Head(stream[t]) \in BOOLEAN /\ Tail(stream[t]) \in Seq(BOOLEAN)
       /\ Len(Tail(stream[t])) = Len(stream[t]) - 1 /\ Len(stream[t]) \in Nat \ {0}
       /\ \A i \in 1 .. Len(Tail(stream[t])) : Tail(stream[t])[i] = stream[t][i+1]
  BY <2>1, <2>2, HeadTailProperties, EmptySeq
 <2>4. /\ Tail(stream[t]) = <<>> => Head(stream[t]) = stream[t][Len(stream[t])]
       /\ Tail(stream[t]) # <<>> => Tail(stream[t])[Len(Tail(stream[t]))] = stream[t][Len(stream[t])]
  BY <2>1, <2>2, LastOfTail
 <2>5. KeyTypes' BY <1>0, <2>1, <2>3 DEF KeyTypes, mutationVars
 <2>6. KeyStatus' = KeyStatus BY <2>1 DEF KeyStatus, mutationVars
 <2>7. StreamSound' BY <1>0, <2>1, <2>3, <2>4, <2>6 DEF KeyTypes, StreamSound
 <2> QED BY <2>1, <2>5, <2>7, <1>k DEF KeyInductive
<1>10. CASE RestartKeys
 <2>1. KeyTypes' BY <1>0, <1>r, <1>10 DEF RestartKeys, StartKeys, KeyTypes, Usable, Keys
 <2>2. StreamSound' BY <1>10 DEF RestartKeys, StreamSound
 <2>3. MutationSound' /\ RunsUseTheFile' /\ NoneUnacceptedUsed'
  BY <1>0, <1>r, <1>10 DEF RestartKeys, StartKeys, MutationSound, RunsUseTheFile, NoneUnacceptedUsed, Usable
 <2> QED BY <2>1, <2>2, <2>3 DEF KeyInductive
<1>11. CASE UNCHANGED keyVars
 <2>1. UNCHANGED <<mutationVars, tabVars, reply, showing, overtaken>> BY <1>11 DEF keyVars
 <2>2. KeyTypes' BY <1>0, <2>1 DEF KeyTypes, mutationVars, tabVars
 <2> QED BY <2>1, <2>2, <1>k, <1>s DEF KeyInductive, mutationVars
<1> QED BY <1>1, <1>2, <1>3, <1>4, <1>5, <1>6, <1>7, <1>8, <1>9, <1>10, <1>11 DEF KeyNext

\* Runs are given the key the file holds, one the provider was seen to accept, and a
\* tab that was sent all there was shows whether there is one.
THEOREM KeysSafe == KeySpec => []KeyInvariant
<1>1. KeyInductive /\ [KeyNext]_keyVars => KeyInductive' BY KeyStep
<1> QED BY <1>1, KeyStart, KeysKept, PTL DEF KeySpec

----
\* What a chat is told of a turn's items (CodexFeed).

MessageType == [at : {"none", "open", "done"}, sent : Seq(Pieces), text : Seq(Pieces)]
ThreadType == [turn : EndStates \cup {"none", "working"}, message : [FeedItems -> MessageType],
               calls : [FeedItems -> CallEnds \cup {"none", "inProgress"}], report : Seq(Pieces), usage : Nat]
ToldType == [text : [FeedItems -> Seq(Pieces)], calls : [FeedItems -> CallEnds \cup {"none", "inProgress"}],
             card : [ChildThreads -> Cards \cup {NoCard}], ended : EndStates \cup {"none"}, usage : Nat]

ItemsTypes ==
  /\ source \in [Threads -> ThreadType] /\ itemText \in [FeedItems -> Seq(Pieces)] /\ lastUsage \in Nat
  /\ subagents \in [ChildThreads -> Cards \cup {NoCard}] /\ chatTold \in ToldType
  /\ feedAt \in {"open", "draining", "over"}

\* The parser has of a message what the chat has of it.
TextSound ==
  \A i \in FeedItems :
    LET m == source[RootThread].message[i]
    IN /\ m.at # "done" => itemText[i] = m.sent /\ chatTold.text[i] = m.sent
       /\ m.at = "none" => m.sent = <<>>
       /\ m.at = "done" /\ IsPrefix(m.sent, m.text) => chatTold.text[i] = m.text

\* The tracker knows of a thread what was last reported of it, told or not.
CardSound(c) ==
  /\ chatTold.card[c] # NoCard => chatTold.card[c] = subagents[c]
  /\ StateOf(c).tools = source[c].calls /\ StateOf(c).message = source[c].report
  /\ source[c].turn \in EndStates => StateOf(c).status = source[c].turn
  /\ source[c].turn = "working" /\ feedAt # "over" => StateOf(c).status = "inProgress"
  /\ feedAt = "over" /\ subagents[c] # NoCard => subagents[c].status \in EndStates \cup {"turnEnded"}

UsageSound == lastUsage = source[RootThread].usage /\ ChargedOwnUsage

ItemsInductive == ItemsTypes /\ TextSound /\ (\A c \in ChildThreads : CardSound(c)) /\ UsageSound


\* What is left of a text after what began it, put behind that, is the text.
LEMMA RestCompletes ==
  ASSUME NEW s \in Seq(Pieces), NEW t \in Seq(Pieces), IsPrefix(s, t)
  PROVE  s \o SubSeq(t, Len(s) + 1, Len(t)) = t
<1>1. /\ Len(s) \in Nat /\ Len(t) \in Nat /\ Len(s) <= Len(t)
      /\ \A i \in 1..Len(s) : s[i] = t[i]
 <2>1. Len(s) \in Nat /\ Len(t) \in Nat /\ Len(s) <= Len(t) /\ SubSeq(s, 1, Len(s)) = SubSeq(t, 1, Len(s)) BY DEF IsPrefix
 <2>2. \A i \in 1..Len(s) : SubSeq(s, 1, Len(s))[i] = s[i] /\ SubSeq(t, 1, Len(s))[i] = t[i] BY <2>1
 <2> QED BY <2>1, <2>2
<1> DEFINE u == SubSeq(t, Len(s) + 1, Len(t))
<1>2. u \in Seq(Pieces) /\ Len(u) = Len(t) - Len(s) /\ \A i \in 1..Len(u) : u[i] = t[Len(s) + i] BY <1>1
<1> HIDE DEF u
<1>3. s \o u \in Seq(Pieces) /\ Len(s \o u) = Len(t) BY <1>1, <1>2
<1>4. \A i \in 1..Len(t) : (s \o u)[i] = t[i]
 <2>1. \A i \in 1..Len(t) : (s \o u)[i] = IF i <= Len(s) THEN s[i] ELSE u[i - Len(s)] BY <1>1, <1>2
 <2> QED BY <1>1, <1>2, <2>1
<1> QED BY <1>3, <1>4 DEF u

\* A thread that writes leaves the others alone.
LEMMA ThreadWrites ==
  ASSUME source \in [Threads -> ThreadType], NEW th \in Threads, NEW thread \in ThreadType,
         SourceWrites(th, thread)
  PROVE  /\ source' \in [Threads -> ThreadType] /\ source'[th] = thread
         /\ \A o \in Threads : o # th => source'[o] = source[o]
BY DEF SourceWrites

\* The chat's texts stay true while neither they nor the messages of the turn change.
LEMMA TextKept ==
  ASSUME TextSound, source'[RootThread].message = source[RootThread].message, itemText' = itemText,
         chatTold'.text = chatTold.text
  PROVE  TextSound'
BY DEF TextSound

\* A card stays true while neither it nor what it is about changes.
LEMMA CardKept ==
  ASSUME NEW c \in ChildThreads, CardSound(c), feedAt' = feedAt, feedAt # "over",
         source'[c].turn = source[c].turn, source'[c].calls = source[c].calls,
         source'[c].report = source[c].report, chatTold'.card[c] = chatTold.card[c],
         StateOf(c)' = StateOf(c), subagents[c] # NoCard => subagents'[c] = subagents[c]
  PROVE  CardSound(c)'
BY DEF CardSound

\* The tracker's record of a thread is one of a card's states.
LEMMA StatesAreCards ==
  ASSUME ItemsTypes
  PROVE  NewState \in Cards /\ \A c \in ChildThreads : StateOf(c) \in Cards
<1>1. NewState \in Cards
 <2>1. <<>> \in Seq(Pieces) OBVIOUS
 <2> QED BY <2>1 DEF NewState, Cards
<1> QED BY <1>1 DEF ItemsTypes, StateOf

\* What is told as a whole card is what is kept, of that thread only.
LEMMA Telling ==
  ASSUME ItemsTypes, NEW c \in ChildThreads, NEW state \in Cards, Tell(c, state)
  PROVE  /\ subagents' \in [ChildThreads -> Cards \cup {NoCard}] /\ chatTold' \in ToldType
         /\ subagents'[c] = state /\ chatTold'.card[c] = state /\ state # NoCard /\ StateOf(c)' = state
         /\ \A o \in ChildThreads : o # c => /\ subagents'[o] = subagents[o] /\ StateOf(o)' = StateOf(o)
                                             /\ chatTold'.card[o] = chatTold.card[o]
         /\ chatTold'.text = chatTold.text /\ chatTold'.ended = chatTold.ended /\ chatTold'.usage = chatTold.usage
         /\ itemText' = itemText /\ lastUsage' = lastUsage
<1>1. subagents \in [ChildThreads -> Cards \cup {NoCard}] /\ chatTold \in ToldType BY DEF ItemsTypes
<1>2. /\ subagents' = [subagents EXCEPT ![c] = state] /\ chatTold' = [chatTold EXCEPT !.card[c] = state]
      /\ itemText' = itemText /\ lastUsage' = lastUsage
 BY DEF Tell
<1> DEFINE k == [chatTold.card EXCEPT ![c] = state]
<1>3. /\ k \in [ChildThreads -> Cards \cup {NoCard}] /\ k[c] = state
      /\ \A o \in ChildThreads : o # c => k[o] = chatTold.card[o]
 BY <1>1 DEF ToldType
<1>4. chatTold' = [chatTold EXCEPT !.card = k] BY <1>2
<1> HIDE DEF k
<1>5. /\ chatTold' \in ToldType /\ chatTold'.card = k /\ chatTold'.text = chatTold.text
      /\ chatTold'.ended = chatTold.ended /\ chatTold'.usage = chatTold.usage
 BY <1>1, <1>3, <1>4 DEF ToldType
<1>6. state # NoCard BY CodexFeedAssumption
<1>7. /\ subagents' \in [ChildThreads -> Cards \cup {NoCard}] /\ subagents'[c] = state
      /\ \A o \in ChildThreads : o # c => subagents'[o] = subagents[o]
 BY <1>1, <1>2
<1> QED BY <1>2, <1>3, <1>5, <1>6, <1>7 DEF StateOf

\* What is not shown changes no card, and nothing the tracker knew.
LEMMA NotTelling ==
  ASSUME ItemsTypes, NEW c \in ChildThreads, Untold(c)
  PROVE  /\ subagents' \in [ChildThreads -> Cards \cup {NoCard}]
         /\ \A o \in ChildThreads : StateOf(o)' = StateOf(o) /\ (subagents[o] # NoCard => subagents'[o] = subagents[o])
         /\ UNCHANGED <<itemText, lastUsage, chatTold>>
<1>1. subagents \in [ChildThreads -> Cards \cup {NoCard}] /\ StateOf(c) \in Cards /\ StateOf(c) # NoCard
 BY StatesAreCards, CodexFeedAssumption DEF ItemsTypes
<1>2. subagents' = [subagents EXCEPT ![c] = StateOf(c)] /\ UNCHANGED <<itemText, lastUsage, chatTold>> BY DEF Untold
<1>3. /\ subagents' \in [ChildThreads -> Cards \cup {NoCard}] /\ subagents'[c] = StateOf(c)
      /\ \A o \in ChildThreads : o # c => subagents'[o] = subagents[o]
 BY <1>1, <1>2
<1> QED BY <1>1, <1>2, <1>3 DEF StateOf

\* The inductive invariant says what the run checks.
LEMMA ItemsKeep == ItemsInductive => ItemsInvariant
<1> SUFFICES ASSUME ItemsInductive PROVE ItemsInvariant OBVIOUS
<1>1. ItemsTypes /\ TextSound /\ UsageSound /\ \A c \in ChildThreads : CardSound(c) BY DEF ItemsInductive
<1>2. ItemsTypeOK
 <2>1. \A c \in ChildThreads : subagents[c] # NoCard => subagents[c] \in Cards BY <1>1 DEF ItemsTypes
 <2> QED BY <1>1, <2>1 DEF ItemsTypes, ItemsTypeOK, Cards
<1>3. TextOnce BY <1>1 DEF TextSound, TextOnce
<1>4. CardTrue
 <2> SUFFICES ASSUME NEW c \in ChildThreads, chatTold.card[c] # NoCard
               PROVE  /\ chatTold.card[c].tools = source[c].calls /\ chatTold.card[c].message = source[c].report
                      /\ source[c].turn \in EndStates => chatTold.card[c].status = source[c].turn
                      /\ source[c].turn = "working" /\ feedAt # "over" => chatTold.card[c].status = "inProgress"
                      /\ feedAt = "over" => chatTold.card[c].status \in EndStates \cup {"turnEnded"}
  BY DEF CardTrue
 <2>1. chatTold.card[c] = StateOf(c) /\ subagents[c] = StateOf(c) /\ subagents[c] # NoCard BY <1>1 DEF CardSound, StateOf
 <2> QED BY <1>1, <2>1 DEF CardSound
<1> QED BY <1>1, <1>2, <1>3, <1>4 DEF ItemsInvariant, UsageSound

\* Nothing has been written or told at first.
LEMMA ItemsStart == ItemsInit => ItemsInductive
<1> SUFFICES ASSUME ItemsInit PROVE ItemsInductive OBVIOUS
<1>0. <<>> \in Seq(Pieces) /\ RootThread \in Threads /\ \A c \in ChildThreads : c \in Threads BY DEF Threads
<1>1. /\ NewThread \in ThreadType /\ NewThread.turn = "none" /\ NewThread.usage = 0 /\ NewThread.report = <<>>
      /\ NewThread.calls = [i \in FeedItems |-> "none"]
      /\ \A i \in FeedItems : NewThread.message[i].at = "none" /\ NewThread.message[i].sent = <<>>
 <2> DEFINE n == [at |-> "none", sent |-> <<>>, text |-> <<>>]
 <2>1. n \in MessageType BY <1>0 DEF MessageType
 <2>2. [i \in FeedItems |-> n] \in [FeedItems -> MessageType] BY <2>1
 <2>3. [i \in FeedItems |-> "none"] \in [FeedItems -> CallEnds \cup {"none", "inProgress"}] OBVIOUS
 <2> QED BY <1>0, <2>2, <2>3 DEF NewThread, ThreadType
<1>2. /\ NothingSaid \in ToldType /\ NothingSaid.ended = "none"
      /\ \A i \in FeedItems : NothingSaid.text[i] = <<>>
      /\ \A c \in ChildThreads : NothingSaid.card[c] = NoCard
 BY <1>0 DEF NothingSaid, ToldType
<1>3. /\ source \in [Threads -> ThreadType] /\ (\A th \in Threads : source[th] = NewThread)
      /\ itemText \in [FeedItems -> Seq(Pieces)] /\ \A i \in FeedItems : itemText[i] = <<>>
 BY <1>0, <1>1 DEF ItemsInit
<1>4. /\ subagents \in [ChildThreads -> Cards \cup {NoCard}] /\ (\A c \in ChildThreads : subagents[c] = NoCard)
      /\ lastUsage = 0 /\ chatTold = NothingSaid /\ feedAt = "open"
 BY DEF ItemsInit
<1>5. ItemsTypes BY <1>2, <1>3, <1>4 DEF ItemsTypes
<1>6. TextSound BY <1>0, <1>1, <1>2, <1>3, <1>4 DEF TextSound
<1>7. UsageSound BY <1>0, <1>1, <1>2, <1>3, <1>4 DEF UsageSound, ChargedOwnUsage
<1>8. ASSUME NEW c \in ChildThreads PROVE CardSound(c)
 <2>1. StateOf(c) = NewState /\ source[c] = NewThread /\ chatTold.card[c] = NoCard BY <1>0, <1>2, <1>3, <1>4 DEF StateOf
 <2> QED BY <1>1, <1>4, <2>1 DEF CardSound, NewState, EndStates
<1> QED BY <1>5, <1>6, <1>7, <1>8 DEF ItemsInductive


\* A piece of a message.
LEMMA DeltaStep ==
  ASSUME ItemsInductive, NEW th \in Threads, NEW i \in FeedItems, NEW piece \in Pieces,
         MessageDelta(th, i, piece)
  PROVE  ItemsInductive'
<1>0. /\ ItemsTypes /\ TextSound /\ UsageSound /\ (\A c \in ChildThreads : CardSound(c))
      /\ source \in [Threads -> ThreadType] /\ source[th] \in ThreadType /\ RootThread \in Threads
      /\ itemText \in [FeedItems -> Seq(Pieces)] /\ chatTold \in ToldType
      /\ RootThread \notin ChildThreads /\ \A c \in ChildThreads : c \in Threads
 BY CodexFeedAssumption DEF ItemsInductive, ItemsTypes, Threads
<1> DEFINE m == source[th].message[i]
            n == [at |-> "open", sent |-> Append(m.sent, piece), text |-> <<>>]
            messages == [source[th].message EXCEPT ![i] = n]
            thread == [source[th] EXCEPT !.message = messages]
<1>1. /\ feedAt # "over" /\ m.at # "done" /\ feedAt' = feedAt
      /\ SourceWrites(th, [source[th] EXCEPT !.message[i] = n])
 BY DEF MessageDelta, Notice
<1>2. n \in MessageType /\ n.at = "open" /\ n.sent = Append(m.sent, piece) BY <1>0 DEF ThreadType, MessageType
<1>3. /\ messages \in [FeedItems -> MessageType] /\ messages[i] = n
      /\ \A j \in FeedItems : j # i => messages[j] = source[th].message[j]
 BY <1>0, <1>2 DEF ThreadType
<1>4. SourceWrites(th, thread) BY <1>1
<1> HIDE DEF n, messages
<1>5. /\ thread \in ThreadType /\ thread.message = messages /\ thread.turn = source[th].turn
      /\ thread.calls = source[th].calls /\ thread.report = source[th].report /\ thread.usage = source[th].usage
 BY <1>0, <1>3 DEF ThreadType
<1> HIDE DEF thread
<1>6. /\ source' \in [Threads -> ThreadType] /\ source'[th] = thread
      /\ \A o \in Threads : o # th => source'[o] = source[o]
 BY <1>0, <1>4, <1>5, ThreadWrites
<1>7. /\ \A o \in Threads : /\ source'[o].turn = source[o].turn /\ source'[o].calls = source[o].calls
                            /\ source'[o].report = source[o].report /\ source'[o].usage = source[o].usage
 BY <1>5, <1>6
<1>8. CASE th = RootThread
 <2> DEFINE t == [itemText EXCEPT ![i] = Append(itemText[i], piece)]
             u == [chatTold.text EXCEPT ![i] = Append(chatTold.text[i], piece)]
 <2>1. /\ itemText' = [itemText EXCEPT ![i] = Append(@, piece)]
       /\ chatTold' = [chatTold EXCEPT !.text[i] = Append(@, piece)]
       /\ UNCHANGED <<lastUsage, subagents>>
  BY <1>8 DEF MessageDelta, IsRoot
 <2>2. itemText' = t /\ chatTold' = [chatTold EXCEPT !.text = u] BY <2>1
 <2>3. /\ t \in [FeedItems -> Seq(Pieces)] /\ t[i] = Append(itemText[i], piece)
       /\ \A j \in FeedItems : j # i => t[j] = itemText[j]
  BY <1>0
 <2>4. /\ u \in [FeedItems -> Seq(Pieces)] /\ u[i] = Append(chatTold.text[i], piece)
       /\ \A j \in FeedItems : j # i => u[j] = chatTold.text[j]
  BY <1>0 DEF ToldType
 <2> HIDE DEF t, u
 <2>5. /\ chatTold' \in ToldType /\ chatTold'.text = u /\ chatTold'.card = chatTold.card
       /\ chatTold'.ended = chatTold.ended /\ chatTold'.usage = chatTold.usage
  BY <1>0, <2>2, <2>4 DEF ToldType
 <2>6. ItemsTypes' BY <1>0, <1>1, <1>6, <2>1, <2>2, <2>3, <2>5 DEF ItemsTypes
 <2>7. TextSound'
  <3> SUFFICES ASSUME NEW j \in FeedItems
                PROVE  LET k == source'[RootThread].message[j]
                       IN /\ k.at # "done" => itemText'[j] = k.sent /\ chatTold'.text[j] = k.sent
                          /\ k.at = "none" => k.sent = <<>>
                          /\ k.at = "done" /\ IsPrefix(k.sent, k.text) => chatTold'.text[j] = k.text
   BY DEF TextSound
  <3>1. CASE j = i
   <4>1. source'[RootThread].message[j] = n BY <1>3, <1>5, <1>6, <1>8, <3>1
   <4>2. itemText[i] = m.sent /\ chatTold.text[i] = m.sent BY <1>0, <1>1, <1>8 DEF TextSound
   <4> QED BY <1>2, <2>2, <2>3, <2>4, <2>5, <3>1, <4>1, <4>2
  <3>2. CASE j # i
   <4>1. source'[RootThread].message[j] = source[RootThread].message[j] BY <1>3, <1>5, <1>6, <1>8, <3>2
   <4>2. itemText'[j] = itemText[j] /\ chatTold'.text[j] = chatTold.text[j] BY <2>2, <2>3, <2>4, <2>5, <3>2
   <4>3. LET k == source[RootThread].message[j]
         IN /\ k.at # "done" => itemText[j] = k.sent /\ chatTold.text[j] = k.sent
            /\ k.at = "none" => k.sent = <<>>
            /\ k.at = "done" /\ IsPrefix(k.sent, k.text) => chatTold.text[j] = k.text
    BY <1>0 DEF TextSound
   <4> QED BY <4>1, <4>2, <4>3
  <3> QED BY <3>1, <3>2
 <2>8. UsageSound' BY <1>0, <1>7, <2>1, <2>5 DEF UsageSound, ChargedOwnUsage
 <2>9. ASSUME NEW c \in ChildThreads PROVE CardSound(c)' BY <1>0, <1>1, <1>7, <2>1, <2>5, CardKept DEF StateOf
 <2> QED BY <2>6, <2>7, <2>8, <2>9 DEF ItemsInductive
<1>9. CASE th # RootThread
 <2>0. th \in ChildThreads /\ Untold(th) BY <1>9 DEF MessageDelta, IsRoot, Threads
 <2>1. /\ subagents' \in [ChildThreads -> Cards \cup {NoCard}]
       /\ \A o \in ChildThreads : StateOf(o)' = StateOf(o) /\ (subagents[o] # NoCard => subagents'[o] = subagents[o])
       /\ UNCHANGED <<itemText, lastUsage, chatTold>>
  BY <1>0, <2>0, NotTelling
 <2>2. ItemsTypes' BY <1>0, <1>1, <1>6, <2>1 DEF ItemsTypes
 <2>3. TextSound' BY <1>0, <1>6, <1>9, <2>1, TextKept
 <2>4. UsageSound' BY <1>0, <1>7, <2>1 DEF UsageSound, ChargedOwnUsage
 <2>5. ASSUME NEW c \in ChildThreads PROVE CardSound(c)' BY <1>0, <1>1, <1>7, <2>1, CardKept
 <2> QED BY <2>2, <2>3, <2>4, <2>5 DEF ItemsInductive
<1> QED BY <1>8, <1>9

\* The end of a message, during the turn or after it.
LEMMA MessageStep ==
  ASSUME ItemsInductive, NEW th \in Threads, NEW i \in FeedItems, NEW text \in Seq(Pieces),
         CompleteMessage(th, i, text)
  PROVE  ItemsInductive'
<1>0. /\ ItemsTypes /\ TextSound /\ UsageSound /\ (\A c \in ChildThreads : CardSound(c))
      /\ source \in [Threads -> ThreadType] /\ source[th] \in ThreadType /\ RootThread \in Threads
      /\ itemText \in [FeedItems -> Seq(Pieces)] /\ chatTold \in ToldType
      /\ RootThread \notin ChildThreads /\ \A c \in ChildThreads : c \in Threads
 BY CodexFeedAssumption DEF ItemsInductive, ItemsTypes, Threads
<1> DEFINE m == source[th].message[i]
            n == [m EXCEPT !.at = "done", !.text = text]
            messages == [source[th].message EXCEPT ![i] = n]
            thread == [source[th] EXCEPT !.message = messages, !.report = text]
<1>1. /\ feedAt # "over" /\ m.at # "done" /\ feedAt' = feedAt
      /\ SourceWrites(th, [source[th] EXCEPT !.message[i] = n, !.report = text])
 BY DEF CompleteMessage, Notice
<1>2. n \in MessageType /\ n.at = "done" /\ n.sent = m.sent /\ n.text = text /\ m.sent \in Seq(Pieces)
 <2>1. m \in MessageType BY <1>0 DEF ThreadType
 <2> HIDE DEF m
 <2> QED BY <2>1 DEF MessageType
<1>3. /\ messages \in [FeedItems -> MessageType] /\ messages[i] = n
      /\ \A j \in FeedItems : j # i => messages[j] = source[th].message[j]
 BY <1>0, <1>2 DEF ThreadType
<1>4. SourceWrites(th, thread) BY <1>1
<1> HIDE DEF n, messages
<1>5. /\ thread \in ThreadType /\ thread.message = messages /\ thread.turn = source[th].turn
      /\ thread.calls = source[th].calls /\ thread.report = text /\ thread.usage = source[th].usage
 BY <1>0, <1>3 DEF ThreadType
<1> HIDE DEF thread
<1>6. /\ source' \in [Threads -> ThreadType] /\ source'[th] = thread
      /\ \A o \in Threads : o # th => source'[o] = source[o]
 BY <1>0, <1>4, <1>5, ThreadWrites
<1>7. /\ \A o \in Threads : /\ source'[o].turn = source[o].turn /\ source'[o].calls = source[o].calls
                            /\ o # th => source'[o].report = source[o].report
                            /\ source'[o].usage = source[o].usage
 BY <1>5, <1>6
<1>8. CASE th = RootThread
 <2> DEFINE said == chatTold.text[i] \o Rest(itemText[i], text)
             t == [itemText EXCEPT ![i] = text]
             u == [chatTold.text EXCEPT ![i] = said]
 <2>1. /\ itemText' = [itemText EXCEPT ![i] = text]
       /\ chatTold' = [chatTold EXCEPT !.text[i] = @ \o Rest(itemText[i], text)]
       /\ UNCHANGED <<lastUsage, subagents>>
  BY <1>8 DEF CompleteMessage, IsRoot
 <2>2. itemText' = t /\ chatTold' = [chatTold EXCEPT !.text = u] BY <2>1
 <2>3. t \in [FeedItems -> Seq(Pieces)] /\ \A j \in FeedItems : j # i => t[j] = itemText[j] BY <1>0
 <2>e. itemText[i] = m.sent /\ chatTold.text[i] = m.sent BY <1>0, <1>1, <1>8 DEF TextSound
 <2>s. said \in Seq(Pieces) /\ (IsPrefix(m.sent, text) => said = text)
  <3>1. CASE IsPrefix(m.sent, text)
   <4>1. said = m.sent \o SubSeq(text, Len(m.sent) + 1, Len(text)) BY <2>e, <3>1 DEF Rest
   <4>2. said = text BY <1>2, <3>1, <4>1, RestCompletes
   <4> QED BY <4>2
  <3>2. CASE ~IsPrefix(m.sent, text)
   <4>1. said = m.sent \o text BY <2>e, <3>2 DEF Rest
   <4> QED BY <1>2, <3>2, <4>1
  <3> QED BY <3>1, <3>2
 <2> HIDE DEF said
 <2>4. /\ u \in [FeedItems -> Seq(Pieces)] /\ u[i] = said
       /\ \A j \in FeedItems : j # i => u[j] = chatTold.text[j]
  BY <1>0, <2>s DEF ToldType
 <2> HIDE DEF t, u
 <2>5. /\ chatTold' \in ToldType /\ chatTold'.text = u /\ chatTold'.card = chatTold.card
       /\ chatTold'.ended = chatTold.ended /\ chatTold'.usage = chatTold.usage
  BY <1>0, <2>2, <2>4 DEF ToldType
 <2>6. ItemsTypes' BY <1>0, <1>1, <1>6, <2>1, <2>2, <2>3, <2>5 DEF ItemsTypes
 <2>7. TextSound'
  <3> SUFFICES ASSUME NEW j \in FeedItems
                PROVE  LET k == source'[RootThread].message[j]
                       IN /\ k.at # "done" => itemText'[j] = k.sent /\ chatTold'.text[j] = k.sent
                          /\ k.at = "none" => k.sent = <<>>
                          /\ k.at = "done" /\ IsPrefix(k.sent, k.text) => chatTold'.text[j] = k.text
   BY DEF TextSound
  <3>1. CASE j = i
   <4>1. source'[RootThread].message[j] = n BY <1>3, <1>5, <1>6, <1>8, <3>1
   <4> QED BY <1>2, <2>4, <2>5, <2>s, <3>1, <4>1
  <3>2. CASE j # i
   <4>1. source'[RootThread].message[j] = source[RootThread].message[j] BY <1>3, <1>5, <1>6, <1>8, <3>2
   <4>2. itemText'[j] = itemText[j] /\ chatTold'.text[j] = chatTold.text[j] BY <2>2, <2>3, <2>4, <2>5, <3>2
   <4>3. LET k == source[RootThread].message[j]
         IN /\ k.at # "done" => itemText[j] = k.sent /\ chatTold.text[j] = k.sent
            /\ k.at = "none" => k.sent = <<>>
            /\ k.at = "done" /\ IsPrefix(k.sent, k.text) => chatTold.text[j] = k.text
    BY <1>0 DEF TextSound
   <4> QED BY <4>1, <4>2, <4>3
  <3> QED BY <3>1, <3>2
 <2>8. UsageSound' BY <1>0, <1>7, <2>1, <2>5 DEF UsageSound, ChargedOwnUsage
 <2>9. ASSUME NEW c \in ChildThreads PROVE CardSound(c)' BY <1>0, <1>1, <1>7, <1>8, <2>1, <2>5, CardKept DEF StateOf
 <2> QED BY <2>6, <2>7, <2>8, <2>9 DEF ItemsInductive
<1>9. CASE th # RootThread
 <2> DEFINE state == [StateOf(th) EXCEPT !.message = text]
 <2>0. th \in ChildThreads /\ Tell(th, state) BY <1>9 DEF CompleteMessage, IsRoot, Threads
 <2>1. /\ state \in Cards /\ state.message = text /\ state.tools = StateOf(th).tools
       /\ state.status = StateOf(th).status
  BY <1>0, <2>0, StatesAreCards DEF Cards
 <2> HIDE DEF state
 <2>2. /\ subagents' \in [ChildThreads -> Cards \cup {NoCard}] /\ chatTold' \in ToldType
       /\ subagents'[th] = state /\ chatTold'.card[th] = state /\ StateOf(th)' = state
       /\ \A o \in ChildThreads : o # th => /\ subagents'[o] = subagents[o] /\ StateOf(o)' = StateOf(o)
                                            /\ chatTold'.card[o] = chatTold.card[o]
       /\ chatTold'.text = chatTold.text /\ chatTold'.ended = chatTold.ended /\ chatTold'.usage = chatTold.usage
       /\ itemText' = itemText /\ lastUsage' = lastUsage
  BY <1>0, <2>0, <2>1, Telling
 <2>3. ItemsTypes' BY <1>0, <1>1, <1>6, <2>2 DEF ItemsTypes
 <2>4. TextSound' BY <1>0, <1>6, <1>9, <2>2, TextKept
 <2>5. UsageSound' BY <1>0, <1>7, <2>2 DEF UsageSound, ChargedOwnUsage
 <2>6. CardSound(th)' BY <1>0, <1>1, <1>5, <1>6, <2>0, <2>1, <2>2 DEF CardSound
 <2>7. ASSUME NEW c \in ChildThreads PROVE CardSound(c)'
  <3>1. CASE c # th BY <1>0, <1>1, <1>7, <2>2, <3>1, CardKept
  <3> QED BY <2>6, <3>1
 <2> QED BY <2>3, <2>4, <2>5, <2>7 DEF ItemsInductive
<1> QED BY <1>8, <1>9


\* A call that starts or ends, during the turn or after it.
LEMMA CallStep ==
  ASSUME ItemsInductive, NEW th \in Threads, NEW i \in FeedItems, NEW status \in CallEnds \cup {"inProgress"},
         NoticeCall(th, i, status)
  PROVE  ItemsInductive'
<1>0. /\ ItemsTypes /\ TextSound /\ UsageSound /\ (\A c \in ChildThreads : CardSound(c))
      /\ source \in [Threads -> ThreadType] /\ source[th] \in ThreadType /\ RootThread \in Threads
      /\ chatTold \in ToldType /\ RootThread \notin ChildThreads /\ \A c \in ChildThreads : c \in Threads
 BY CodexFeedAssumption DEF ItemsInductive, ItemsTypes, Threads
<1> DEFINE calls == [source[th].calls EXCEPT ![i] = status]
            thread == [source[th] EXCEPT !.calls = calls]
<1>1. /\ feedAt # "over" /\ feedAt' = feedAt /\ source[th].turn # "none"
      /\ SourceWrites(th, [source[th] EXCEPT !.calls[i] = status])
 BY DEF NoticeCall, Notice
<1>2. calls \in [FeedItems -> CallEnds \cup {"none", "inProgress"}] BY <1>0 DEF ThreadType
<1>4. SourceWrites(th, thread) BY <1>1
<1>c. calls = [source[th].calls EXCEPT ![i] = status] OBVIOUS
<1> HIDE DEF calls
<1>5. /\ thread \in ThreadType /\ thread.message = source[th].message /\ thread.turn = source[th].turn
      /\ thread.calls = calls /\ thread.report = source[th].report /\ thread.usage = source[th].usage
 BY <1>0, <1>2 DEF ThreadType
<1> HIDE DEF thread
<1>6. /\ source' \in [Threads -> ThreadType] /\ source'[th] = thread
      /\ \A o \in Threads : o # th => source'[o] = source[o]
 BY <1>0, <1>4, <1>5, ThreadWrites
<1>7. \A o \in Threads : /\ source'[o].turn = source[o].turn /\ source'[o].message = source[o].message
                         /\ o # th => source'[o].calls = source[o].calls
                         /\ source'[o].report = source[o].report /\ source'[o].usage = source[o].usage
 BY <1>5, <1>6
<1>8. CASE th = RootThread
 <2> DEFINE u == [chatTold.calls EXCEPT ![i] = status]
 <2>1. chatTold' = [chatTold EXCEPT !.calls = u] /\ UNCHANGED <<itemText, lastUsage, subagents>> BY <1>8 DEF NoticeCall, IsRoot
 <2>2. u \in [FeedItems -> CallEnds \cup {"none", "inProgress"}] BY <1>0 DEF ToldType
 <2> HIDE DEF u
 <2>5. /\ chatTold' \in ToldType /\ chatTold'.text = chatTold.text /\ chatTold'.card = chatTold.card
       /\ chatTold'.ended = chatTold.ended /\ chatTold'.usage = chatTold.usage
  BY <1>0, <2>1, <2>2 DEF ToldType
 <2>6. ItemsTypes' BY <1>0, <1>1, <1>6, <2>1, <2>5 DEF ItemsTypes
 <2>7. TextSound' BY <1>0, <1>7, <2>1, <2>5, TextKept
 <2>8. UsageSound' BY <1>0, <1>7, <2>1, <2>5 DEF UsageSound, ChargedOwnUsage
 <2>9. ASSUME NEW c \in ChildThreads PROVE CardSound(c)' BY <1>0, <1>1, <1>7, <1>8, <2>1, <2>5, CardKept DEF StateOf
 <2> QED BY <2>6, <2>7, <2>8, <2>9 DEF ItemsInductive
<1>9. CASE th # RootThread
 <2> DEFINE was == AtItem(StateOf(th))
             tools == [was.tools EXCEPT ![i] = status]
             state == [was EXCEPT !.tools = tools]
 <2>0. th \in ChildThreads /\ Tell(th, state) BY <1>9 DEF NoticeCall, IsRoot, Threads
 <2>1. /\ StateOf(th) \in Cards /\ CardSound(th) BY <1>0, <2>0, StatesAreCards
 <2>2. /\ was \in Cards /\ was.tools = StateOf(th).tools /\ was.message = StateOf(th).message
       /\ StateOf(th).status \in EndStates => was.status = StateOf(th).status
       /\ StateOf(th).status = "inProgress" => was.status = "inProgress"
  BY <2>1 DEF Cards, AtItem, EndStates
 <2> HIDE DEF was
 <2>3. tools = calls /\ tools \in [FeedItems -> CallEnds \cup {"none", "inProgress"}] BY <1>2, <1>c, <2>1, <2>2 DEF CardSound
 <2> HIDE DEF tools
 <2>4. /\ state \in Cards /\ state.message = was.message /\ state.tools = calls /\ state.status = was.status
  BY <2>2, <2>3 DEF Cards
 <2> HIDE DEF state
 <2>5. /\ subagents' \in [ChildThreads -> Cards \cup {NoCard}] /\ chatTold' \in ToldType
       /\ subagents'[th] = state /\ chatTold'.card[th] = state /\ StateOf(th)' = state
       /\ \A o \in ChildThreads : o # th => /\ subagents'[o] = subagents[o] /\ StateOf(o)' = StateOf(o)
                                            /\ chatTold'.card[o] = chatTold.card[o]
       /\ chatTold'.text = chatTold.text /\ chatTold'.ended = chatTold.ended /\ chatTold'.usage = chatTold.usage
       /\ itemText' = itemText /\ lastUsage' = lastUsage
  BY <1>0, <2>0, <2>4, Telling
 <2>6. ItemsTypes' BY <1>0, <1>1, <1>6, <2>5 DEF ItemsTypes
 <2>7. TextSound' BY <1>0, <1>7, <2>5, TextKept
 <2>8. UsageSound' BY <1>0, <1>7, <2>5 DEF UsageSound, ChargedOwnUsage
 <2>9. CardSound(th)'
  <3>1. source'[th].calls = calls /\ source'[th].report = source[th].report /\ source'[th].turn = source[th].turn BY <1>5, <1>6
  <3>2. StateOf(th).message = source[th].report BY <2>1 DEF CardSound
  <3>3. source[th].turn \in EndStates => StateOf(th).status = source[th].turn BY <2>1 DEF CardSound
  <3>4. source[th].turn = "working" => StateOf(th).status = "inProgress" BY <1>1, <2>1 DEF CardSound
  <3> QED BY <1>1, <2>2, <2>4, <2>5, <3>1, <3>2, <3>3, <3>4 DEF CardSound
 <2>10. ASSUME NEW c \in ChildThreads PROVE CardSound(c)'
  <3>1. CASE c # th BY <1>0, <1>1, <1>7, <2>5, <3>1, CardKept
  <3> QED BY <2>9, <3>1
 <2> QED BY <2>6, <2>7, <2>8, <2>10 DEF ItemsInductive
<1> QED BY <1>8, <1>9

\* A turn that starts or ends, or a thread found idle: a card's status changes and
\* nothing else of it, with the turn it is about.
LEMMA StatusStep ==
  ASSUME ItemsInductive, feedAt # "over", feedAt' = feedAt, NEW c \in ChildThreads,
         NEW turnState \in EndStates \cup {"none", "working"},
         NEW status \in EndStates \cup {"inProgress", "idle", "turnEnded"},
         SourceWrites(c, [source[c] EXCEPT !.turn = turnState]), Tell(c, [StateOf(c) EXCEPT !.status = status]),
         turnState \in EndStates => status = turnState, turnState = "working" => status = "inProgress"
  PROVE  ItemsInductive'
<1>0. /\ ItemsTypes /\ TextSound /\ UsageSound /\ (\A o \in ChildThreads : CardSound(o))
      /\ source \in [Threads -> ThreadType] /\ c \in Threads /\ source[c] \in ThreadType /\ RootThread \in Threads
      /\ chatTold \in ToldType /\ c # RootThread /\ \A o \in ChildThreads : o \in Threads
 BY CodexFeedAssumption DEF ItemsInductive, ItemsTypes, Threads
<1> DEFINE thread == [source[c] EXCEPT !.turn = turnState]
            state == [StateOf(c) EXCEPT !.status = status]
<1>1. /\ thread \in ThreadType /\ thread.message = source[c].message /\ thread.turn = turnState
      /\ thread.calls = source[c].calls /\ thread.report = source[c].report /\ thread.usage = source[c].usage
      /\ SourceWrites(c, thread)
 BY <1>0 DEF ThreadType
<1> HIDE DEF thread
<1>2. /\ source' \in [Threads -> ThreadType] /\ source'[c] = thread
      /\ \A o \in Threads : o # c => source'[o] = source[o]
 BY <1>0, <1>1, ThreadWrites
<1>3. /\ state \in Cards /\ state.message = StateOf(c).message /\ state.tools = StateOf(c).tools
      /\ state.status = status /\ Tell(c, state)
 BY <1>0, StatesAreCards DEF Cards
<1> HIDE DEF state
<1>4. /\ subagents' \in [ChildThreads -> Cards \cup {NoCard}] /\ chatTold' \in ToldType
      /\ subagents'[c] = state /\ chatTold'.card[c] = state /\ StateOf(c)' = state
      /\ \A o \in ChildThreads : o # c => /\ subagents'[o] = subagents[o] /\ StateOf(o)' = StateOf(o)
                                          /\ chatTold'.card[o] = chatTold.card[o]
      /\ chatTold'.text = chatTold.text /\ chatTold'.ended = chatTold.ended /\ chatTold'.usage = chatTold.usage
      /\ itemText' = itemText /\ lastUsage' = lastUsage
 BY <1>0, <1>3, Telling
<1>5. ItemsTypes' BY <1>0, <1>2, <1>4 DEF ItemsTypes
<1>6. TextSound' BY <1>0, <1>2, <1>4, TextKept
<1>7. UsageSound' BY <1>0, <1>2, <1>4 DEF UsageSound, ChargedOwnUsage
<1>8. CardSound(c)' BY <1>0, <1>1, <1>2, <1>3, <1>4 DEF CardSound
<1>9. ASSUME NEW o \in ChildThreads PROVE CardSound(o)'
 <2>1. CASE o # c BY <1>0, <1>2, <1>4, <2>1, CardKept
 <2> QED BY <1>8, <2>1
<1> QED BY <1>5, <1>6, <1>7, <1>9 DEF ItemsInductive

\* The turn's own thread changes neither cards nor texts when its turn does.
LEMMA RootStep ==
  ASSUME ItemsInductive, feedAt # "over", feedAt' \in {"open", "draining"}, NEW thread \in ThreadType,
         SourceWrites(RootThread, thread), thread.message = source[RootThread].message,
         UNCHANGED <<itemText, subagents>>, lastUsage' = thread.usage, chatTold' \in ToldType,
         chatTold'.text = chatTold.text, chatTold'.card = chatTold.card,
         chatTold'.ended # "none" => chatTold'.ended = thread.turn /\ chatTold'.usage = thread.usage
  PROVE  ItemsInductive'
<1>0. /\ ItemsTypes /\ TextSound /\ (\A c \in ChildThreads : CardSound(c))
      /\ source \in [Threads -> ThreadType] /\ RootThread \in Threads
      /\ RootThread \notin ChildThreads /\ \A c \in ChildThreads : c \in Threads
 BY CodexFeedAssumption DEF ItemsInductive, ItemsTypes, Threads
<1>1. /\ source' \in [Threads -> ThreadType] /\ source'[RootThread] = thread
      /\ \A o \in Threads : o # RootThread => source'[o] = source[o]
 BY <1>0, ThreadWrites
<1>2. ItemsTypes'
 <2>1. lastUsage' \in Nat BY DEF ThreadType
 <2> QED BY <1>0, <1>1, <2>1 DEF ItemsTypes
<1>3. TextSound' BY <1>0, <1>1, TextKept
<1>4. UsageSound' BY <1>1 DEF UsageSound, ChargedOwnUsage
<1>5. ASSUME NEW c \in ChildThreads PROVE CardSound(c)'
 <2>1. source'[c] = source[c] BY <1>0, <1>1
 <2>2. StateOf(c)' = StateOf(c) /\ feedAt' # "over" BY DEF StateOf
 <2> QED BY <1>0, <2>1, <2>2 DEF CardSound
<1> QED BY <1>2, <1>3, <1>4, <1>5 DEF ItemsInductive

\* A turn that starts.
LEMMA TurnStep ==
  ASSUME ItemsInductive, NEW th \in Threads, StartThreadTurn(th)
  PROVE  ItemsInductive'
<1>0. /\ ItemsTypes /\ UsageSound /\ source[th] \in ThreadType /\ chatTold \in ToldType BY DEF ItemsInductive, ItemsTypes
<1>1. /\ feedAt = "open" /\ feedAt' = feedAt /\ SourceWrites(th, [source[th] EXCEPT !.turn = "working"])
      /\ source[th].turn = "none" \/ (th # RootThread /\ source[th].turn \in EndStates)
 BY DEF StartThreadTurn, Notice
<1>2. CASE th = RootThread
 <2> DEFINE thread == [source[th] EXCEPT !.turn = "working"]
 <2>1. /\ thread \in ThreadType /\ thread.message = source[th].message /\ thread.usage = source[th].usage
       /\ thread.turn = "working"
  BY <1>0 DEF ThreadType
 <2> HIDE DEF thread
 <2>2. SourceWrites(RootThread, thread) BY <1>1, <1>2 DEF thread
 <2>3. UNCHANGED <<itemText, lastUsage, subagents, chatTold>> BY <1>2 DEF StartThreadTurn, IsRoot
 <2>4. chatTold.ended = "none" /\ lastUsage = thread.usage
  <3>1. source[RootThread].turn = "none" BY <1>1, <1>2
  <3>2. chatTold.ended \in EndStates \cup {"none"} /\ "none" \notin EndStates BY <1>0 DEF ToldType, EndStates
  <3> QED BY <1>0, <1>2, <2>1, <3>1, <3>2 DEF UsageSound, ChargedOwnUsage
 <2>5. feedAt # "over" /\ feedAt' \in {"open", "draining"} BY <1>1
 <2> QED BY <1>0, <1>2, <2>1, <2>2, <2>3, <2>4, <2>5, RootStep
<1>3. CASE th # RootThread
 <2>1. th \in ChildThreads /\ Tell(th, [StateOf(th) EXCEPT !.status = "inProgress"]) BY <1>3 DEF StartThreadTurn, IsRoot, Threads
 <2>2. "working" \notin EndStates /\ feedAt # "over" BY <1>1 DEF EndStates
 <2> QED BY <1>1, <2>1, <2>2, StatusStep
<1> QED BY <1>2, <1>3

\* A turn that ends; the turn's own is told with the usage reported last.
LEMMA EndStep ==
  ASSUME ItemsInductive, NEW th \in Threads, NEW status \in EndStates, CompleteTurn(th, status)
  PROVE  ItemsInductive'
<1>0. /\ ItemsTypes /\ UsageSound /\ source[th] \in ThreadType /\ chatTold \in ToldType BY DEF ItemsInductive, ItemsTypes
<1>1. /\ feedAt \in {"open", "draining"} /\ source[th].turn = "working"
      /\ SourceWrites(th, [source[th] EXCEPT !.turn = status])
 BY DEF CompleteTurn, Notice
<1>2. CASE th = RootThread
 <2> DEFINE thread == [source[th] EXCEPT !.turn = status]
 <2>1. /\ thread \in ThreadType /\ thread.message = source[th].message /\ thread.usage = source[th].usage
       /\ thread.turn = status
  BY <1>0 DEF ThreadType
 <2> HIDE DEF thread
 <2>2. SourceWrites(RootThread, thread) BY <1>1, <1>2 DEF thread
 <2>3. chatTold.ended = "none" /\ lastUsage = thread.usage
  <3>1. chatTold.ended \in EndStates \cup {"none"} /\ "working" \notin EndStates \cup {"none"} BY <1>0 DEF ToldType, EndStates
  <3> QED BY <1>0, <1>1, <1>2, <2>1, <3>1 DEF UsageSound, ChargedOwnUsage
 <2>4. /\ UNCHANGED <<itemText, lastUsage, subagents>> /\ feedAt' \in {"open", "draining"}
       /\ \/ chatTold' = [chatTold EXCEPT !.ended = status, !.usage = lastUsage]
          \/ chatTold' = chatTold
  BY <1>1, <1>2 DEF CompleteTurn, IsRoot
 <2>5. /\ chatTold' \in ToldType /\ chatTold'.text = chatTold.text /\ chatTold'.card = chatTold.card
       /\ chatTold'.ended # "none" => chatTold'.ended = thread.turn /\ chatTold'.usage = thread.usage
  BY <1>0, <2>1, <2>3, <2>4 DEF ToldType, ItemsTypes
 <2>6. feedAt # "over" BY <1>1
 <2> QED BY <1>2, <2>1, <2>2, <2>3, <2>4, <2>5, <2>6, RootStep
<1>3. CASE th # RootThread
 <2>1. th \in ChildThreads /\ Tell(th, [StateOf(th) EXCEPT !.status = status]) /\ feedAt' = feedAt
  BY <1>3 DEF CompleteTurn, IsRoot, Threads
 <2>2. "working" \notin EndStates /\ feedAt # "over" BY <1>1 DEF EndStates
 <2> QED BY <1>1, <2>1, <2>2, StatusStep
<1> QED BY <1>2, <1>3

\* A thread found idle.
LEMMA IdleStep ==
  ASSUME ItemsInductive, NEW c \in ChildThreads, ThreadIdle(c)
  PROVE  ItemsInductive'
<1>0. /\ ItemsTypes /\ CardSound(c) /\ c \in Threads /\ source[c] \in ThreadType /\ StateOf(c) \in Cards
      /\ source \in [Threads -> ThreadType]
 BY StatesAreCards DEF ItemsInductive, ItemsTypes, Threads
<1>1. /\ feedAt # "over" /\ feedAt' = feedAt /\ source[c].turn # "working" /\ source' = source
      /\ Tell(c, [StateOf(c) EXCEPT !.status = IdleStatus(@)])
 BY DEF ThreadIdle, Notice
<1> DEFINE turnState == source[c].turn
            status == IdleStatus(StateOf(c).status)
<1>2. source' = [source EXCEPT ![c] = [source[c] EXCEPT !.turn = turnState]]
 <2>1. [source[c] EXCEPT !.turn = turnState] = source[c] BY <1>0 DEF ThreadType
 <2> QED BY <1>0, <1>1, <2>1
<1>3. /\ turnState \in EndStates \cup {"none", "working"} /\ StateOf(c).status \in EndStates \cup {"inProgress", "idle", "turnEnded"}
      /\ Tell(c, [StateOf(c) EXCEPT !.status = status])
 BY <1>0, <1>1 DEF ThreadType, Cards
<1>4. status \in EndStates \cup {"inProgress", "idle", "turnEnded"} BY <1>3 DEF IdleStatus
<1>5. turnState \in EndStates => status = turnState BY <1>0 DEF CardSound, IdleStatus
<1>6. SourceWrites(c, [source[c] EXCEPT !.turn = turnState]) /\ turnState # "working" BY <1>1, <1>2 DEF SourceWrites
<1> HIDE DEF turnState, status
<1> QED BY <1>1, <1>3, <1>4, <1>5, <1>6, StatusStep

\* A thread that reports its usage.
LEMMA UsageStep ==
  ASSUME ItemsInductive, NEW th \in Threads, ReportUsage(th)
  PROVE  ItemsInductive'
<1>0. /\ ItemsTypes /\ TextSound /\ UsageSound /\ (\A c \in ChildThreads : CardSound(c))
      /\ source \in [Threads -> ThreadType] /\ source[th] \in ThreadType /\ chatTold \in ToldType
      /\ RootThread \in Threads /\ \A c \in ChildThreads : c \in Threads
 BY DEF ItemsInductive, ItemsTypes, Threads
<1> DEFINE used == source[th].usage + 1
            thread == [source[th] EXCEPT !.usage = used]
<1>1. /\ feedAt \in {"open", "draining"} /\ feedAt' = feedAt /\ source[th].turn = "working"
      /\ SourceWrites(th, thread)
 BY DEF ReportUsage, Notice
<1>2. /\ thread \in ThreadType /\ thread.message = source[th].message /\ thread.usage = used
      /\ thread.turn = source[th].turn /\ thread.calls = source[th].calls /\ thread.report = source[th].report
 <2>1. used \in Nat BY <1>0 DEF ThreadType
 <2> QED BY <1>0, <2>1 DEF ThreadType
<1>3. CASE th = RootThread
 <2>1. lastUsage' = used /\ UNCHANGED <<itemText, subagents, chatTold>> BY <1>3 DEF ReportUsage, IsRoot
 <2>2. chatTold.ended = "none"
  <3>1. chatTold.ended \in EndStates \cup {"none"} /\ "working" \notin EndStates \cup {"none"} BY <1>0 DEF ToldType, EndStates
  <3> QED BY <1>0, <1>1, <1>3, <3>1 DEF UsageSound, ChargedOwnUsage
 <2>3. feedAt # "over" /\ feedAt' \in {"open", "draining"} BY <1>1
 <2> HIDE DEF thread, used
 <2> QED BY <1>0, <1>1, <1>2, <1>3, <2>1, <2>2, <2>3, RootStep
<1>4. CASE th # RootThread
 <2> HIDE DEF thread, used
 <2>1. th \in ChildThreads /\ Untold(th) BY <1>4 DEF ReportUsage, IsRoot, Threads
 <2>2. /\ subagents' \in [ChildThreads -> Cards \cup {NoCard}]
       /\ \A o \in ChildThreads : StateOf(o)' = StateOf(o) /\ (subagents[o] # NoCard => subagents'[o] = subagents[o])
       /\ UNCHANGED <<itemText, lastUsage, chatTold>>
  BY <1>0, <2>1, NotTelling
 <2>3. /\ source' \in [Threads -> ThreadType] /\ source'[th] = thread
       /\ \A o \in Threads : o # th => source'[o] = source[o]
  BY <1>0, <1>1, <1>2, ThreadWrites
 <2>4. ItemsTypes' BY <1>0, <1>1, <2>2, <2>3 DEF ItemsTypes
 <2>5. TextSound' BY <1>0, <1>4, <2>2, <2>3, TextKept
 <2>6. UsageSound' BY <1>0, <1>4, <2>2, <2>3 DEF UsageSound, ChargedOwnUsage
 <2>7. ASSUME NEW c \in ChildThreads PROVE CardSound(c)' BY <1>0, <1>1, <1>2, <2>2, <2>3, CardKept
 <2> QED BY <2>4, <2>5, <2>6, <2>7 DEF ItemsInductive
<1> QED BY <1>3, <1>4

\* The end of the stream: no card is left at work.
LEMMA FeedEnds ==
  ASSUME ItemsInductive, EndFeed
  PROVE  ItemsInductive'
<1>0. /\ ItemsTypes /\ TextSound /\ UsageSound /\ (\A c \in ChildThreads : CardSound(c))
      /\ subagents \in [ChildThreads -> Cards \cup {NoCard}] /\ chatTold \in ToldType
 BY DEF ItemsInductive, ItemsTypes
<1> DEFINE ending == IF chatTold.ended = "none" THEN "failed" ELSE chatTold.ended
            last == [c \in ChildThreads |-> IF subagents[c] = NoCard THEN NoCard ELSE LastState(subagents[c], ending)]
            k == [c \in ChildThreads |-> IF last[c] = subagents[c] THEN chatTold.card[c] ELSE last[c]]
<1>1. /\ feedAt # "over" /\ feedAt' = "over" /\ subagents' = last /\ chatTold' = [chatTold EXCEPT !.card = k]
      /\ UNCHANGED <<source, itemText, lastUsage>>
 BY DEF EndFeed
<1>2. ending \in EndStates BY <1>0 DEF ToldType, EndStates
<1> HIDE DEF ending
<1>3. ASSUME NEW c \in ChildThreads, subagents[c] # NoCard
      PROVE  LET s == LastState(subagents[c], ending)
             IN /\ s \in Cards /\ s.tools = subagents[c].tools /\ s.message = subagents[c].message
                /\ s.status \in EndStates \cup {"turnEnded"}
                /\ subagents[c].status \in EndStates => s.status = subagents[c].status
 <2>1. subagents[c] \in Cards BY <1>0, <1>3
 <2>2. CASE subagents[c].status \in EndStates \cup {"turnEnded"} BY <2>1, <2>2 DEF LastState
 <2>3. CASE subagents[c].status \notin EndStates \cup {"turnEnded"}
  <3> DEFINE status == IF ending # "completed" THEN ending
                        ELSE IF subagents[c].status = "idle" THEN "completed" ELSE "turnEnded"
  <3>1. status \in EndStates \cup {"turnEnded"} BY <1>2 DEF EndStates
  <3>2. LastState(subagents[c], ending) = [subagents[c] EXCEPT !.status = status] BY <2>3 DEF LastState
  <3> HIDE DEF status
  <3> QED BY <2>1, <2>3, <3>1, <3>2 DEF Cards
 <2> QED BY <2>2, <2>3
<1>4. /\ \A c \in ChildThreads : last[c] = (IF subagents[c] = NoCard THEN NoCard ELSE LastState(subagents[c], ending))
      /\ last \in [ChildThreads -> Cards \cup {NoCard}]
 BY <1>3
<1> HIDE DEF last
<1>5. /\ \A c \in ChildThreads : k[c] = (IF last[c] = subagents[c] THEN chatTold.card[c] ELSE last[c])
      /\ k \in [ChildThreads -> Cards \cup {NoCard}]
 BY <1>0, <1>4 DEF ToldType
<1> HIDE DEF k
<1>6. /\ chatTold' \in ToldType /\ chatTold'.card = k /\ chatTold'.text = chatTold.text
      /\ chatTold'.ended = chatTold.ended /\ chatTold'.usage = chatTold.usage
 BY <1>0, <1>1, <1>5 DEF ToldType
<1>7. ItemsTypes' BY <1>0, <1>1, <1>4, <1>6 DEF ItemsTypes
<1>8. TextSound' BY <1>0, <1>1, <1>6, TextKept
<1>9. UsageSound' BY <1>0, <1>1, <1>6 DEF UsageSound, ChargedOwnUsage
<1>10. ASSUME NEW c \in ChildThreads PROVE CardSound(c)'
 <2>0. CardSound(c) /\ NoCard \notin Cards BY <1>0, CodexFeedAssumption
 <2>1. CASE subagents[c] = NoCard
  <3>1. last[c] = NoCard /\ k[c] = chatTold.card[c] /\ chatTold.card[c] = NoCard BY <1>4, <1>5, <2>0, <2>1 DEF CardSound
  <3>2. StateOf(c)' = StateOf(c) BY <1>1, <2>1, <3>1 DEF StateOf
  <3> QED BY <1>1, <1>6, <2>0, <3>1, <3>2 DEF CardSound
 <2>2. CASE subagents[c] # NoCard
  <3>1. /\ last[c] = LastState(subagents[c], ending) /\ last[c] \in Cards /\ last[c] # NoCard
        /\ last[c].tools = subagents[c].tools /\ last[c].message = subagents[c].message
        /\ last[c].status \in EndStates \cup {"turnEnded"}
        /\ subagents[c].status \in EndStates => last[c].status = subagents[c].status
   BY <1>3, <1>4, <2>0, <2>2
  <3>2. StateOf(c) = subagents[c] /\ StateOf(c)' = last[c] /\ subagents'[c] = last[c] BY <1>1, <2>2, <3>1 DEF StateOf
  <3>3. chatTold'.card[c] # NoCard => chatTold'.card[c] = last[c] BY <1>5, <1>6, <2>0 DEF CardSound
  <3> QED BY <1>1, <2>0, <3>1, <3>2, <3>3 DEF CardSound
 <2> QED BY <2>1, <2>2
<1> QED BY <1>7, <1>8, <1>9, <1>10 DEF ItemsInductive

\* Every step keeps the inductive invariant.
LEMMA ItemsSteps == ItemsInductive /\ [ItemsNext]_itemVars => ItemsInductive'
<1> SUFFICES ASSUME ItemsInductive, [ItemsNext]_itemVars PROVE ItemsInductive' OBVIOUS
<1>1. ASSUME NEW th \in Threads, NEW i \in FeedItems, NEW p \in Pieces, MessageDelta(th, i, p) PROVE ItemsInductive'
 BY <1>1, DeltaStep
<1>2. ASSUME NEW th \in Threads, NEW i \in FeedItems, NEW t \in Finals(source[th].message[i].sent),
             CompleteMessage(th, i, t)
      PROVE  ItemsInductive'
 <2>1. source[th].message[i].sent \in Seq(Pieces) BY DEF ItemsInductive, ItemsTypes, ThreadType, MessageType
 <2> DEFINE m == source[th].message[i].sent
 <2>2. t \in Seq(Pieces)
  <3>1. t = m \/ (\E p \in Pieces : t = Append(m, p)) \/ (\E p \in Pieces : t = <<p>>) BY DEF Finals
  <3>2. \A p \in Pieces : Append(m, p) \in Seq(Pieces) /\ <<p>> \in Seq(Pieces) BY <2>1
  <3> QED BY <2>1, <3>1, <3>2
 <2> QED BY <1>2, <2>2, MessageStep
<1>3. ASSUME NEW th \in Threads, NEW i \in FeedItems, NEW s \in CallEnds \cup {"inProgress"}, NoticeCall(th, i, s)
      PROVE  ItemsInductive'
 BY <1>3, CallStep
<1>4. ASSUME NEW th \in Threads, StartThreadTurn(th) PROVE ItemsInductive' BY <1>4, TurnStep
<1>5. ASSUME NEW th \in Threads, ReportUsage(th) PROVE ItemsInductive' BY <1>5, UsageStep
<1>6. ASSUME NEW th \in Threads, NEW s \in EndStates, CompleteTurn(th, s) PROVE ItemsInductive' BY <1>6, EndStep
<1>7. ASSUME NEW c \in ChildThreads, ThreadIdle(c) PROVE ItemsInductive' BY <1>7, IdleStep
<1>8. CASE EndFeed BY <1>8, FeedEnds
<1>9. CASE UNCHANGED itemVars
 BY <1>9 DEF itemVars, ItemsInductive, ItemsTypes, TextSound, CardSound, StateOf, UsageSound, ChargedOwnUsage
<1> QED BY <1>1, <1>2, <1>3, <1>4, <1>5, <1>6, <1>7, <1>8, <1>9 DEF ItemsNext

\* The chat has every message of the turn once, and every card is true of its
\* thread, whatever the items, the threads and the order of their notifications
\* (app_server_events.go:265-290, app_server_subagents.go:70-134).
THEOREM ItemsKept == ItemsSpec => []ItemsInvariant
<1>1. ItemsSpec => []ItemsInductive BY ItemsStart, ItemsSteps, PTL DEF ItemsSpec
<1> QED BY <1>1, ItemsKeep, PTL

----
\* One turn of codex (CodexTurn).

Methods == {"initialize", "thread", "turn", "interrupt"}
SubagentReports == {"unknown", "idle", "inProgress"} \cup Endings
SubagentStates == {"none", "inProgress", "idle", "turnEnded"} \cup Endings

RunType == [at : {"reading", "waiting", "over"}, thread : BOOLEAN, turnId : BOOLEAN,
            cancelled : BOOLEAN, cancelRequested : BOOLEAN, interruptSent : BOOLEAN,
            interruptTimer : BOOLEAN, terminal : {"none"} \cup Endings]
ServerType == [alive : BOOLEAN, todo : SUBSET Methods, turn : {"none", "running", "ended"},
               awaits : SUBSET Questions, asks : SUBSET Questions, got : [Questions -> Seq(Turns)]]
TurnToldType == [terminal : {"none"} \cup Endings, subagent : [Subagents -> SubagentStates],
                 collaboration : [Collaborations -> {"none", "open", "done"}]]
Envelopes == [kind : {"reply"}, to : Methods, ok : BOOLEAN] \cup [kind : {"note"}]
             \cup [kind : {"request", "resolved"}, id : Questions]
             \cup [kind : {"subagent"}, id : Subagents, status : SubagentReports]
             \cup [kind : {"collaboration"}, id : Collaborations, done : BOOLEAN]
             \cup [kind : {"turnCompleted"}, status : Endings] \cup [kind : {"error"}]

CodexTypes ==
  /\ turn \in 0..MaxTurns /\ run \in RunType /\ asked \subseteq Questions
  /\ tracker \in [Subagents -> SubagentStates] /\ opened \subseteq Collaborations
  /\ stdout \in Seq(Envelopes) /\ Len(stdout) <= PipeBound
  /\ answers \in Seq([id : Questions, turn : Turns]) /\ Len(answers) <= AnswerCapacity
  /\ server \in ServerType /\ server.awaits \subseteq server.asks
  /\ told \in TurnToldType /\ card \in [Turns -> [Questions -> {"none", "pending", "resolved"}]]

\* A request in the pipe is asked for the first time, and an end in it has come.
PipeSound ==
  /\ \A i \in DOMAIN stdout :
       /\ stdout[i].kind = "turnCompleted" => server.turn = "ended"
       /\ stdout[i].kind = "request" =>
            stdout[i].id \in server.asks \ asked /\ server.got[stdout[i].id] = <<>>
  /\ \A i, j \in DOMAIN stdout :
       stdout[i].kind = "request" /\ stdout[j].kind = "request" /\ stdout[i].id = stdout[j].id => i = j

\* A question the client knows has been asked and not answered, and one that has
\* been answered was asked.
AskedSound == (\A q \in asked : q \in server.asks /\ server.got[q] = <<>>) /\ AnsweredOnce

\* A card that is shown as pending can be answered while its turn goes on; those of
\* turns to come are not there.
CardsSound ==
  /\ \A t \in Turns : t > turn => \A q \in Questions : card[t][q] = "none"
  /\ run.at = "reading" \/ run.terminal # "none" => \A q \in Questions : card[turn][q] = "pending" => q \in asked
  /\ run.terminal # "none" => asked = {}

\* An end that is told was read, and one that was read was written.
EndSound ==
  /\ told.terminal # "none" => run.terminal # "none" /\ run.at # "reading"
  /\ run.terminal # "none" => server.turn = "ended"
  /\ run.at # "over" \/ run.terminal # "none" => turn \in Turns

\* What was told of a thread is what is known of it.
ActivitySound ==
  /\ \A s \in Subagents : told.subagent[s] = "none" \/ told.subagent[s] = tracker[s]
  /\ \A c \in Collaborations : told.collaboration[c] = "open" => c \in opened
  /\ run.at # "reading" => opened = {} /\ \A s \in Subagents : tracker[s] = "none" \/ Settled(tracker[s])

CodexInductive == CodexTypes /\ PipeSound /\ AskedSound /\ CardsSound /\ EndSound /\ ActivitySound

\* The inductive invariant says what the run checks.
LEMMA CodexKeep == CodexInductive => CodexInvariant
<1> SUFFICES ASSUME CodexInductive PROVE CodexInvariant OBVIOUS
<1>1. CodexTypes /\ PipeSound /\ AskedSound /\ CardsSound /\ EndSound /\ ActivitySound BY DEF CodexInductive
<1>2. CodexTypeOK BY <1>1 DEF CodexTypes, CodexTypeOK, RunType, ServerType, TurnToldType, SubagentStates, Methods
<1>3. SettledAtEnd BY <1>1 DEF EndSound, ActivitySound, CardsSound, SettledAtEnd
<1>4. TerminalIsAuthoritative BY <1>1 DEF EndSound, TerminalIsAuthoritative
<1> QED BY <1>1, <1>2, <1>3, <1>4 DEF CodexInvariant, AskedSound

\* What a process is that has been started, and one that was gone at once.
LEMMA NewServerKinds ==
  LET gone == [NewServer EXCEPT !.alive = FALSE, !.todo = {}]
  IN /\ NewServer \in ServerType /\ NewServer.awaits = {} /\ NewServer.asks = {}
     /\ gone \in ServerType /\ gone.awaits = {} /\ gone.asks = {}
     /\ \A q \in Questions : NewServer.got[q] = <<>> /\ gone.got[q] = <<>>
<1>1. [q \in Questions |-> <<>>] \in [Questions -> Seq(Turns)] OBVIOUS
<1>2. NewServer \in ServerType /\ NewServer.awaits = {} /\ NewServer.asks = {} /\ NewServer.got = [q \in Questions |-> <<>>]
 BY <1>1 DEF NewServer, ServerType, Methods
<1> QED BY <1>2 DEF ServerType

\* No turn has been run at first.
LEMMA CodexStart == CodexInit => CodexInductive
<1> SUFFICES ASSUME CodexInit PROVE CodexInductive OBVIOUS
<1>0. MaxTurns \in Nat /\ PipeBound \in Nat /\ AnswerCapacity \in Nat BY CodexTurnAssumption
<1>1. /\ turn = 0 /\ asked = {} /\ opened = {} /\ stdout = <<>> /\ answers = <<>>
      /\ tracker = [s \in Subagents |-> "none"] /\ told = NothingTold
      /\ card = [t \in Turns |-> [q \in Questions |-> "none"]]
 BY DEF CodexInit
<1>2. run \in RunType /\ run.at = "over" /\ run.terminal = "none" BY DEF CodexInit, NewRun, RunType
<1>3. /\ server \in ServerType /\ server.awaits = {} /\ server.asks = {}
      /\ \A q \in Questions : server.got[q] = <<>>
 <2>1. server = [NewServer EXCEPT !.alive = FALSE, !.todo = {}] BY DEF CodexInit
 <2> QED BY <2>1, NewServerKinds
<1>4. told \in TurnToldType /\ told.terminal = "none" BY <1>1 DEF NothingTold, TurnToldType, SubagentStates
<1>5. CodexTypes
 <2>1. /\ stdout \in Seq(Envelopes) /\ Len(stdout) = 0
       /\ answers \in Seq([id : Questions, turn : Turns]) /\ Len(answers) = 0
  BY <1>1
 <2>2. turn \in 0..MaxTurns /\ Len(stdout) <= PipeBound /\ Len(answers) <= AnswerCapacity BY <1>0, <1>1, <2>1
 <2>3. /\ tracker \in [Subagents -> SubagentStates]
       /\ card \in [Turns -> [Questions -> {"none", "pending", "resolved"}]]
  BY <1>1 DEF SubagentStates
 <2> QED BY <1>1, <1>2, <1>3, <1>4, <2>1, <2>2, <2>3 DEF CodexTypes
<1>6. PipeSound BY <1>1 DEF PipeSound
<1>7. AskedSound BY <1>1, <1>3 DEF AskedSound, AnsweredOnce
<1>8. CardsSound BY <1>1, <1>2 DEF CardsSound
<1>9. EndSound BY <1>2, <1>4 DEF EndSound
<1>10. ActivitySound BY <1>1 DEF ActivitySound, NothingTold
<1> QED BY <1>5, <1>6, <1>7, <1>8, <1>9, <1>10 DEF CodexInductive

\* What the run becomes by knowing its ids, by being cancelled or by interrupting.
LEMMA RunKinds ==
  ASSUME NEW r \in RunType
  PROVE  /\ Interrupted(r) \in RunType /\ Interrupted(r).at = r.at /\ Interrupted(r).terminal = r.terminal
         /\ [r EXCEPT !.cancelRequested = TRUE] \in RunType /\ [r EXCEPT !.cancelled = TRUE] \in RunType
         /\ [r EXCEPT !.thread = TRUE] \in RunType /\ [r EXCEPT !.turnId = TRUE] \in RunType
         /\ \A a \in {"reading", "waiting", "over"} : [r EXCEPT !.at = a] \in RunType
         /\ \A e \in Endings : [r EXCEPT !.terminal = e] \in RunType
<1>1. [r EXCEPT !.interruptSent = TRUE, !.interruptTimer = TRUE] \in RunType BY DEF RunType
<1>2. Interrupted(r) \in RunType /\ Interrupted(r).at = r.at /\ Interrupted(r).terminal = r.terminal
 BY <1>1 DEF Interrupted, RunType
<1>3. /\ [r EXCEPT !.cancelRequested = TRUE] \in RunType /\ [r EXCEPT !.cancelled = TRUE] \in RunType
      /\ [r EXCEPT !.thread = TRUE] \in RunType /\ [r EXCEPT !.turnId = TRUE] \in RunType
 BY DEF RunType
<1>4. \A a \in {"reading", "waiting", "over"} : [r EXCEPT !.at = a] \in RunType BY DEF RunType
<1>5. \A e \in Endings : [r EXCEPT !.terminal = e] \in RunType BY DEF RunType
<1> QED BY <1>2, <1>3, <1>4, <1>5

\* An interrupt that is written changes neither where the run is nor what was asked.
LEMMA InterruptKeeps ==
  ASSUME CodexTypes, NEW r \in RunType, Interrupt(r)
  PROVE  /\ run' \in RunType /\ run'.at = r.at /\ run'.terminal = r.terminal /\ server' \in ServerType
         /\ server'.turn = server.turn /\ server'.asks = server.asks /\ server'.got = server.got
         /\ server'.awaits = server.awaits
<1>1. server \in ServerType BY DEF CodexTypes
<1>2. run' = Interrupted(r) /\ (server' = [server EXCEPT !.todo = @ \cup {"interrupt"}] \/ server' = server) BY DEF Interrupt
<1> QED BY <1>1, <1>2, RunKinds DEF ServerType, Methods

\* The ids of the turn become known.
LEMMA KnownRun ==
  ASSUME run \in RunType
  PROVE  IdsKnown \in RunType /\ IdsKnown.at = run.at /\ IdsKnown.terminal = run.terminal
BY DEF IdsKnown, RunType

\* The last word settles what was open.
LEMMA LastWord ==
  ASSUME CodexTypes, ActivitySound, NEW ending \in {"none"} \cup Endings, FinalWord(ending)
  PROVE  /\ told' \in TurnToldType /\ told'.terminal = ending /\ tracker' \in [Subagents -> SubagentStates]
         /\ opened' = {} /\ \A c \in Collaborations : told'.collaboration[c] # "open"
         /\ \A s \in Subagents : /\ told'.subagent[s] = "none" \/ told'.subagent[s] = tracker'[s]
                                 /\ tracker'[s] = "none" \/ Settled(tracker'[s])
<1> DEFINE rootStatus == IF ending = "none" THEN "failed" ELSE ending
            threads == [s \in Subagents |-> IF Settled(tracker[s]) THEN told.subagent[s]
                                            ELSE LastStatus(tracker[s], rootStatus)]
            items == [c \in Collaborations |-> IF c \in opened THEN "done" ELSE told.collaboration[c]]
<1>1. /\ told' = [terminal |-> ending, subagent |-> threads, collaboration |-> items]
      /\ tracker' = [s \in Subagents |-> LastStatus(tracker[s], rootStatus)] /\ opened' = {}
 BY DEF FinalWord
<1>2. rootStatus \in Endings BY DEF Endings
<1> HIDE DEF rootStatus
<1>3. /\ told \in TurnToldType /\ \A s \in Subagents : tracker[s] \in SubagentStates
      /\ \A s \in Subagents : told.subagent[s] = "none" \/ told.subagent[s] = tracker[s]
      /\ \A c \in Collaborations : told.collaboration[c] = "open" => c \in opened
 BY DEF CodexTypes, ActivitySound
<1>4. ASSUME NEW s \in Subagents
      PROVE  LET l == LastStatus(tracker[s], rootStatus)
             IN l \in SubagentStates /\ (l = "none" \/ Settled(l)) /\ (Settled(tracker[s]) => l = tracker[s])
 <2>1. tracker[s] \in SubagentStates BY <1>3
 <2> QED BY <1>2, <2>1 DEF LastStatus, Settled, SubagentStates, Endings
<1>5. threads \in [Subagents -> SubagentStates] BY <1>3, <1>4 DEF TurnToldType
<1>6. items \in [Collaborations -> {"none", "open", "done"}] /\ \A c \in Collaborations : items[c] # "open"
 BY <1>3 DEF TurnToldType
<1>7. \A s \in Subagents : tracker'[s] = LastStatus(tracker[s], rootStatus) BY <1>1
<1>8. \A s \in Subagents : threads[s] = "none" \/ threads[s] = tracker'[s]
 <2> SUFFICES ASSUME NEW s \in Subagents PROVE threads[s] = "none" \/ threads[s] = tracker'[s] OBVIOUS
 <2>1. threads[s] = IF Settled(tracker[s]) THEN told.subagent[s] ELSE LastStatus(tracker[s], rootStatus) OBVIOUS
 <2> QED BY <1>3, <1>4, <1>7, <2>1
<1> HIDE DEF threads, items
<1>9. told' \in TurnToldType /\ told'.terminal = ending /\ told'.subagent = threads /\ told'.collaboration = items
 BY <1>1, <1>5, <1>6 DEF TurnToldType
<1>10. tracker' \in [Subagents -> SubagentStates] BY <1>1, <1>4
<1> QED BY <1>1, <1>4, <1>6, <1>7, <1>8, <1>9, <1>10

\* The run ends.
LEMMA OverStep ==
  ASSUME CodexInductive, run.at # "over", Over(run.terminal),
         asked' \subseteq Questions, \A q \in asked' : q \in server.asks /\ server.got[q] = <<>>,
         card' \in [Turns -> [Questions -> {"none", "pending", "resolved"}]],
         \A t \in Turns : t > turn => card'[t] = card[t],
         run.terminal # "none" => asked' = asked /\ card' = card
  PROVE  CodexInductive'
<1>0. /\ CodexTypes /\ AskedSound /\ CardsSound /\ EndSound /\ ActivitySound
      /\ run \in RunType /\ server \in ServerType /\ run.terminal \in {"none"} \cup Endings
 BY DEF CodexInductive, CodexTypes, RunType
<1>1. /\ FinalWord(run.terminal) /\ run' = [run EXCEPT !.at = "over"] /\ server' = [server EXCEPT !.alive = FALSE]
      /\ stdout' = <<>> /\ answers' = <<>> /\ turn' = turn
 BY DEF Over
<1>2. /\ told' \in TurnToldType /\ told'.terminal = run.terminal /\ tracker' \in [Subagents -> SubagentStates]
      /\ opened' = {} /\ (\A c \in Collaborations : told'.collaboration[c] # "open")
      /\ \A s \in Subagents : /\ told'.subagent[s] = "none" \/ told'.subagent[s] = tracker'[s]
                              /\ tracker'[s] = "none" \/ Settled(tracker'[s])
 BY <1>0, <1>1, LastWord
<1>3. run' \in RunType /\ run'.at = "over" /\ run'.terminal = run.terminal BY <1>0, <1>1 DEF RunType
<1>4. /\ server' \in ServerType /\ server'.turn = server.turn /\ server'.asks = server.asks
      /\ server'.got = server.got /\ server'.awaits = server.awaits
 BY <1>0, <1>1 DEF ServerType
<1>5. CodexTypes'
 <2>1. /\ stdout' \in Seq(Envelopes) /\ Len(stdout') <= PipeBound
       /\ answers' \in Seq([id : Questions, turn : Turns]) /\ Len(answers') <= AnswerCapacity
  BY <1>1, CodexTurnAssumption
 <2> QED BY <1>0, <1>1, <1>2, <1>3, <1>4, <2>1 DEF CodexTypes
<1>6. PipeSound' BY <1>1 DEF PipeSound
<1>7. AskedSound' BY <1>0, <1>4 DEF AskedSound, AnsweredOnce
<1>8. CardsSound' BY <1>0, <1>1, <1>3 DEF CardsSound
<1>9. EndSound' BY <1>0, <1>1, <1>2, <1>3, <1>4 DEF EndSound
<1>10. ActivitySound' BY <1>2 DEF ActivitySound
<1> QED BY <1>5, <1>6, <1>7, <1>8, <1>9, <1>10 DEF CodexInductive

\* The run breaks off before its turn has ended.
LEMMA BreakStep ==
  ASSUME CodexInductive, run.at # "over", ~Ended, BreakOff
  PROVE  CodexInductive'
<1>1. Over(run.terminal) /\ asked' = asked /\ card' = card BY DEF BreakOff, Ended
<1>2. /\ asked \subseteq Questions /\ (\A q \in asked : q \in server.asks /\ server.got[q] = <<>>)
      /\ card \in [Turns -> [Questions -> {"none", "pending", "resolved"}]]
 BY DEF CodexInductive, CodexTypes, AskedSound
<1> QED BY <1>1, <1>2, OverStep

\* What is left in the pipe when its first envelope is taken.
LEMMA RestOfPipe ==
  ASSUME CodexInductive, stdout # <<>>
  PROVE  /\ Head(stdout) \in Envelopes /\ Tail(stdout) \in Seq(Envelopes) /\ Len(Tail(stdout)) <= PipeBound
         /\ \A i \in DOMAIN Tail(stdout) : i + 1 \in DOMAIN stdout /\ Tail(stdout)[i] = stdout[i + 1]
         /\ 1 \in DOMAIN stdout /\ Head(stdout) = stdout[1]
<1>1. stdout \in Seq(Envelopes) /\ Len(stdout) <= PipeBound /\ PipeBound \in Nat
 BY CodexTurnAssumption DEF CodexInductive, CodexTypes
<1> QED BY <1>1

\* An envelope is read while the turn goes on: what it changes of the run, of the
\* questions and of what is told.
LEMMA ReadStep ==
  ASSUME CodexInductive, run.at = "reading", stdout # <<>>, Take,
         run' \in RunType, run'.at = "reading",
         run'.terminal # "none" => asked' = {} /\ (run.terminal # "none" \/ Head(stdout).kind = "turnCompleted"),
         server' \in ServerType, server'.turn = server.turn, server'.asks = server.asks,
         server'.got = server.got, server'.awaits = server.awaits, answers' = answers, turn' = turn,
         asked' \subseteq Questions,
         \A q \in asked' : q \in asked \/ (Head(stdout).kind = "request" /\ Head(stdout).id = q),
         card' \in [Turns -> [Questions -> {"none", "pending", "resolved"}]],
         \A t \in Turns : t # turn => card'[t] = card[t],
         \A q \in Questions : card'[turn][q] = "pending" => q \in asked',
         told' \in TurnToldType, told'.terminal = told.terminal, tracker' \in [Subagents -> SubagentStates],
         opened' \subseteq Collaborations,
         \A s \in Subagents : told'.subagent[s] = "none" \/ told'.subagent[s] = tracker'[s],
         \A c \in Collaborations : told'.collaboration[c] = "open" => c \in opened'
  PROVE  CodexInductive'
<1>0. /\ CodexTypes /\ PipeSound /\ AskedSound /\ CardsSound /\ EndSound /\ ActivitySound BY DEF CodexInductive
<1>1. /\ stdout' = Tail(stdout) /\ stdout' \in Seq(Envelopes) /\ Len(stdout') <= PipeBound
      /\ (\A i \in DOMAIN stdout' : i \in Nat /\ i + 1 \in DOMAIN stdout /\ stdout'[i] = stdout[i + 1])
      /\ 1 \in DOMAIN stdout /\ Head(stdout) = stdout[1]
 <2>1. \A i \in DOMAIN Tail(stdout) : i \in Nat BY RestOfPipe
 <2> QED BY <2>1, RestOfPipe DEF Take
<1>2. CodexTypes' BY <1>0, <1>1 DEF CodexTypes
<1>3. PipeSound'
 <2>1. ASSUME NEW i \in DOMAIN stdout'
       PROVE  /\ stdout'[i].kind = "turnCompleted" => server'.turn = "ended"
              /\ stdout'[i].kind = "request" =>
                   stdout'[i].id \in server'.asks \ asked' /\ server'.got[stdout'[i].id] = <<>>
  <3>1. i + 1 \in DOMAIN stdout /\ stdout'[i] = stdout[i + 1] /\ i + 1 # 1 /\ 1 \in DOMAIN stdout BY <1>1
  <3>2. /\ stdout[i + 1].kind = "turnCompleted" => server.turn = "ended"
        /\ stdout[i + 1].kind = "request" =>
             stdout[i + 1].id \in server.asks \ asked /\ server.got[stdout[i + 1].id] = <<>>
   BY <1>0, <3>1 DEF PipeSound
  <3>3. ASSUME stdout[i + 1].kind = "request" PROVE stdout[i + 1].id \notin asked'
   <4>1. ~(stdout[1].kind = "request" /\ stdout[1].id = stdout[i + 1].id) BY <1>0, <3>1, <3>3 DEF PipeSound
   <4> QED BY <1>1, <3>2, <3>3, <4>1
  <3> QED BY <3>1, <3>2, <3>3
 <2>2. ASSUME NEW i \in DOMAIN stdout', NEW j \in DOMAIN stdout', stdout'[i].kind = "request",
              stdout'[j].kind = "request", stdout'[i].id = stdout'[j].id
       PROVE  i = j
  <3>1. /\ i + 1 \in DOMAIN stdout /\ stdout'[i] = stdout[i + 1] /\ i \in Nat
        /\ j + 1 \in DOMAIN stdout /\ stdout'[j] = stdout[j + 1] /\ j \in Nat
   BY <1>1
  <3>2. i + 1 = j + 1 BY <1>0, <2>2, <3>1 DEF PipeSound
  <3> QED BY <3>1, <3>2
 <2> QED BY <2>1, <2>2 DEF PipeSound
<1>4. AskedSound'
 <2>1. \A q \in asked' : q \in server'.asks /\ server'.got[q] = <<>> BY <1>0, <1>1 DEF AskedSound, PipeSound
 <2> QED BY <1>0, <2>1 DEF AskedSound, AnsweredOnce
<1>5. CardsSound'
 <2>1. turn \in Turns BY <1>0 DEF EndSound
 <2>2. \A t \in Turns : t > turn => t # turn BY <1>0 DEF CodexTypes, Turns
 <2> QED BY <1>0, <2>1, <2>2 DEF CardsSound
<1>6. EndSound' BY <1>0, <1>1 DEF EndSound, PipeSound
<1>7. ActivitySound' BY DEF ActivitySound
<1> QED BY <1>2, <1>3, <1>4, <1>5, <1>6, <1>7 DEF CodexInductive

\* The process writes an envelope.
LEMMA WriteStep ==
  ASSUME CodexInductive, NEW e \in Envelopes, Writes(e), server' \in ServerType,
         server'.awaits \subseteq server'.asks, server.asks \subseteq server'.asks, server'.got = server.got,
         server.turn = "ended" \/ e.kind = "turnCompleted" => server'.turn = "ended",
         e.kind = "request" => e.id \in Questions /\ e.id \notin server.asks /\ e.id \in server'.asks
  PROVE  CodexInductive'
<1>0. /\ CodexTypes /\ PipeSound /\ AskedSound /\ CardsSound /\ EndSound /\ ActivitySound
      /\ stdout \in Seq(Envelopes) /\ PipeBound \in Nat
 BY CodexTurnAssumption DEF CodexInductive, CodexTypes
<1>1. /\ stdout' = Append(stdout, e) /\ Len(stdout) < PipeBound /\ run.at = "reading"
      /\ UNCHANGED <<turn, run, asked, tracker, opened, answers, told, card>>
 BY DEF Writes, Reading
<1>2. /\ stdout' \in Seq(Envelopes) /\ Len(stdout') <= PipeBound
      /\ \A i \in DOMAIN stdout' : \/ i \in DOMAIN stdout /\ stdout'[i] = stdout[i]
                                   \/ i = Len(stdout) + 1 /\ stdout'[i] = e
 BY <1>0, <1>1
<1>3. CodexTypes' BY <1>0, <1>1, <1>2 DEF CodexTypes
<1>4. e.kind = "request" => e.id \notin asked /\ server.got[e.id] = <<>> BY <1>0 DEF AskedSound, AnsweredOnce
<1>5. PipeSound'
 <2>1. ASSUME NEW i \in DOMAIN stdout'
       PROVE  /\ stdout'[i].kind = "turnCompleted" => server'.turn = "ended"
              /\ stdout'[i].kind = "request" =>
                   stdout'[i].id \in server'.asks \ asked' /\ server'.got[stdout'[i].id] = <<>>
  <3>1. CASE i \in DOMAIN stdout /\ stdout'[i] = stdout[i] BY <1>0, <1>1, <3>1 DEF PipeSound
  <3>2. CASE stdout'[i] = e BY <1>1, <1>4, <3>2
  <3> QED BY <1>2, <3>1, <3>2
 <2>2. ASSUME NEW i \in DOMAIN stdout', NEW j \in DOMAIN stdout', stdout'[i].kind = "request",
              stdout'[j].kind = "request", stdout'[i].id = stdout'[j].id
       PROVE  i = j
  <3>1. \A k \in DOMAIN stdout : stdout[k].kind = "request" => stdout[k].id \in server.asks BY <1>0 DEF PipeSound
  <3>2. CASE i \in DOMAIN stdout /\ stdout'[i] = stdout[i] /\ j \in DOMAIN stdout /\ stdout'[j] = stdout[j]
   BY <1>0, <2>2, <3>2 DEF PipeSound
  <3>3. CASE i = Len(stdout) + 1 /\ j = Len(stdout) + 1 BY <3>3
  <3>4. CASE i \in DOMAIN stdout /\ stdout'[i] = stdout[i] /\ stdout'[j] = e BY <2>2, <3>1, <3>4
  <3>5. CASE j \in DOMAIN stdout /\ stdout'[j] = stdout[j] /\ stdout'[i] = e BY <2>2, <3>1, <3>5
  <3> QED BY <1>2, <3>2, <3>3, <3>4, <3>5
 <2> QED BY <2>1, <2>2 DEF PipeSound
<1>6. AskedSound' BY <1>0, <1>1 DEF AskedSound, AnsweredOnce
<1>7. CardsSound' BY <1>0, <1>1 DEF CardsSound
<1>8. EndSound' BY <1>0, <1>1 DEF EndSound
<1>9. ActivitySound' BY <1>0, <1>1 DEF ActivitySound
<1> QED BY <1>3, <1>5, <1>6, <1>7, <1>8, <1>9 DEF CodexInductive

\* What the activity of the turn is while nothing is told or tracked.
LEMMA NothingNew ==
  ASSUME CodexInductive, UNCHANGED <<told, tracker, opened>>
  PROVE  /\ told' \in TurnToldType /\ told'.terminal = told.terminal /\ tracker' \in [Subagents -> SubagentStates]
         /\ opened' \subseteq Collaborations
         /\ \A s \in Subagents : told'.subagent[s] = "none" \/ told'.subagent[s] = tracker'[s]
         /\ \A c \in Collaborations : told'.collaboration[c] = "open" => c \in opened'
BY DEF CodexInductive, CodexTypes, ActivitySound

\* What the questions are while none is asked, answered or withdrawn.
LEMMA SameQuestions ==
  ASSUME CodexInductive, run.at = "reading", UNCHANGED <<asked, card>>
  PROVE  /\ asked' \subseteq Questions /\ \A q \in asked' : q \in asked
         /\ card' \in [Turns -> [Questions -> {"none", "pending", "resolved"}]]
         /\ \A t \in Turns : t # turn => card'[t] = card[t]
         /\ \A q \in Questions : card'[turn][q] = "pending" => q \in asked'
BY DEF CodexInductive, CodexTypes, CardsSound

\* The types of what a step starts from.
LEMMA CodexParts ==
  ASSUME CodexInductive
  PROVE  /\ CodexTypes /\ run \in RunType /\ server \in ServerType /\ told \in TurnToldType
         /\ run.terminal # "none" => asked = {}
BY DEF CodexInductive, CodexTypes, CardsSound

\* A reply to the handshake, while the process is there.
LEMMA HandshakeStep ==
  ASSUME CodexInductive, ReplyHandshake
  PROVE  CodexInductive'
<1>1. stdout # <<>> /\ run.at = "reading" /\ ~Ended BY DEF ReplyHandshake, NextIs, Reading
<1>2. CASE BreakOff BY <1>1, <1>2, BreakStep
<1>3. CASE ~BreakOff
 <2> DEFINE next == IF Head(stdout).to = "initialize" THEN "thread" ELSE "turn"
 <2>1. /\ Take /\ run' = [run EXCEPT !.thread = @ \/ Head(stdout).to = "thread"]
       /\ server' = [server EXCEPT !.todo = @ \cup {next}]
       /\ UNCHANGED <<turn, asked, tracker, opened, answers, told, card>>
  BY <1>3 DEF ReplyHandshake
 <2>2. run' \in RunType /\ run'.at = "reading" /\ run'.terminal = run.terminal
  <3> DEFINE b == run.thread \/ Head(stdout).to = "thread"
  <3>1. run' = [run EXCEPT !.thread = b] BY <2>1
  <3>2. b \in BOOLEAN OBVIOUS
  <3> HIDE DEF b
  <3>3. run \in RunType /\ run.at = "reading" BY <1>1, CodexParts
  <3> QED BY <3>1, <3>2, <3>3 DEF RunType
 <2>3. /\ server' \in ServerType /\ server'.turn = server.turn /\ server'.asks = server.asks
       /\ server'.got = server.got /\ server'.awaits = server.awaits
  BY <2>1, CodexParts DEF ServerType, Methods
 <2> QED BY <1>1, <2>1, <2>2, <2>3, CodexParts, NothingNew, SameQuestions, ReadStep
<1> QED BY <1>2, <1>3

\* The reply that names the turn.
LEMMA NamedStep ==
  ASSUME CodexInductive, ReplyTurn
  PROVE  CodexInductive'
<1>1. stdout # <<>> /\ run.at = "reading" /\ ~Ended BY DEF ReplyTurn, NextIs, Reading
<1>2. CASE BreakOff BY <1>1, <1>2, BreakStep
<1>3. CASE ~BreakOff
 <2> DEFINE known == [run EXCEPT !.turnId = TRUE]
 <2>1. Take /\ Interrupt(known) /\ UNCHANGED <<turn, asked, tracker, opened, answers, told, card>> BY <1>3 DEF ReplyTurn
 <2>2. known \in RunType /\ known.at = "reading" /\ known.terminal = run.terminal BY <1>1, CodexParts DEF RunType
 <2> HIDE DEF known
 <2>3. /\ run' \in RunType /\ run'.at = "reading" /\ run'.terminal = run.terminal /\ server' \in ServerType
       /\ server'.turn = server.turn /\ server'.asks = server.asks /\ server'.got = server.got
       /\ server'.awaits = server.awaits
  BY <2>1, <2>2, CodexParts, InterruptKeeps
 <2> QED BY <1>1, <2>1, <2>3, CodexParts, NothingNew, SameQuestions, ReadStep
<1> QED BY <1>2, <1>3

\* What is read and has no effect.
LEMMA IgnoreStep ==
  ASSUME CodexInductive, Ignore
  PROVE  CodexInductive'
<1>1. stdout # <<>> /\ run.at = "reading" /\ Take /\ server \in ServerType /\ run \in RunType
 BY CodexParts DEF Ignore, NextIs, Reading
<1>2. UNCHANGED <<turn, run, asked, tracker, opened, answers, server, told, card>> BY DEF Ignore
<1> QED BY <1>1, <1>2, CodexParts, NothingNew, SameQuestions, ReadStep

\* A question that is read is kept and shown, even when the run ends over it.
LEMMA RequestStep ==
  ASSUME CodexInductive, ReadRequest
  PROVE  CodexInductive'
<1> DEFINE q == Head(stdout).id
<1>1. /\ stdout # <<>> /\ run.at = "reading" /\ ~Ended /\ Head(stdout).kind = "request"
      /\ card' = [card EXCEPT ![turn][q] = "pending"] /\ asked' = asked \cup {q}
 BY DEF ReadRequest, NextIs, Reading
<1>2. CodexTypes /\ turn \in Turns /\ PipeSound /\ AskedSound /\ CardsSound BY <1>1 DEF CodexInductive, EndSound
<1>3. q \in Questions /\ q \in server.asks /\ server.got[q] = <<>>
 <2>1. Head(stdout) = stdout[1] /\ 1 \in DOMAIN stdout BY <1>1, RestOfPipe
 <2>2. q \in server.asks /\ server.got[q] = <<>> BY <1>1, <1>2, <2>1 DEF PipeSound
 <2> QED BY <1>2, <2>2 DEF CodexTypes, ServerType
<1> HIDE DEF q
<1>4. /\ asked' \subseteq Questions /\ \A p \in asked' : p \in server.asks /\ server.got[p] = <<>>
 BY <1>1, <1>2, <1>3 DEF AskedSound, CodexTypes
<1>5. /\ card' \in [Turns -> [Questions -> {"none", "pending", "resolved"}]]
      /\ \A t \in Turns : t # turn => card'[t] = card[t]
      /\ \A p \in Questions : card'[turn][p] = "pending" => p \in asked'
 <2> DEFINE row == [card[turn] EXCEPT ![q] = "pending"]
 <2>1. row \in [Questions -> {"none", "pending", "resolved"}] /\ \A p \in Questions : p # q => row[p] = card[turn][p]
  BY <1>2 DEF CodexTypes
 <2>2. card' = [card EXCEPT ![turn] = row] BY <1>1
 <2> HIDE DEF row
 <2>3. /\ card' \in [Turns -> [Questions -> {"none", "pending", "resolved"}]] /\ card'[turn] = row
       /\ \A t \in Turns : t # turn => card'[t] = card[t]
  BY <1>2, <2>1, <2>2 DEF CodexTypes
 <2>4. \A p \in Questions : card[turn][p] = "pending" => p \in asked BY <1>1, <1>2 DEF CardsSound
 <2> QED BY <1>1, <2>1, <2>3, <2>4
<1>6. CASE ~Writable(IdsKnown)
 <2>1. Over(run.terminal) /\ run.terminal = "none" BY <1>1, <1>6 DEF ReadRequest, Ended
 <2>2. \A t \in Turns : t > turn => card'[t] = card[t] BY <1>2, <1>5 DEF Turns, CodexTypes
 <2>3. run.at # "over" BY <1>1
 <2> QED BY <1>4, <1>5, <2>1, <2>2, <2>3, OverStep
<1>7. CASE Writable(IdsKnown)
 <2>1. Take /\ Interrupt(IdsKnown) /\ UNCHANGED <<turn, tracker, opened, answers, told>> BY <1>7 DEF ReadRequest
 <2>2. /\ run' \in RunType /\ run'.at = "reading" /\ run'.terminal = "none" /\ server' \in ServerType
       /\ server'.turn = server.turn /\ server'.asks = server.asks /\ server'.got = server.got
       /\ server'.awaits = server.awaits
  BY <1>1, <2>1, CodexParts, KnownRun, InterruptKeeps DEF Ended
 <2>3. \A p \in asked' : p \in asked \/ (Head(stdout).kind = "request" /\ Head(stdout).id = p) BY <1>1 DEF q
 <2> QED BY <1>1, <1>4, <1>5, <2>1, <2>2, <2>3, NothingNew, ReadStep
<1> QED BY <1>6, <1>7

\* What a withdrawn question leaves of the questions.
LEMMA Resolved ==
  ASSUME CodexInductive, run.at = "reading", Resolve
  PROVE  /\ asked' \subseteq asked /\ asked' \subseteq Questions
         /\ card' \in [Turns -> [Questions -> {"none", "pending", "resolved"}]]
         /\ \A t \in Turns : t # turn => card'[t] = card[t]
         /\ \A q \in Questions : card'[turn][q] = "pending" => q \in asked'
<1>1. CodexTypes /\ turn \in Turns /\ CardsSound BY DEF CodexInductive, EndSound
<1> DEFINE row == [q \in Questions |-> IF q \in Withdrawn THEN "resolved" ELSE card[turn][q]]
<1>2. row \in [Questions -> {"none", "pending", "resolved"}] BY <1>1 DEF CodexTypes
<1>3. card' = [card EXCEPT ![turn] = row] /\ asked' = asked \ Withdrawn BY DEF Resolve
<1>4. \A q \in Questions : row[q] = "pending" => q \notin Withdrawn /\ card[turn][q] = "pending" OBVIOUS
<1> HIDE DEF row
<1>5. /\ card' \in [Turns -> [Questions -> {"none", "pending", "resolved"}]] /\ card'[turn] = row
      /\ \A t \in Turns : t # turn => card'[t] = card[t]
 BY <1>1, <1>2, <1>3 DEF CodexTypes
<1> QED BY <1>1, <1>3, <1>4, <1>5 DEF CodexTypes, CardsSound

\* An interrupt that cannot be written ends the run.
LEMMA TooLateStep ==
  ASSUME CodexInductive, NoteTooLate
  PROVE  CodexInductive'
<1>1. run.at = "reading" /\ run.terminal = "none" /\ Resolve /\ Over(run.terminal) BY DEF NoteTooLate, Reading, Ended
<1>2. CodexTypes /\ AskedSound /\ turn \in Turns BY <1>1 DEF CodexInductive, EndSound
<1>3. /\ asked' \subseteq asked /\ asked' \subseteq Questions
      /\ card' \in [Turns -> [Questions -> {"none", "pending", "resolved"}]]
      /\ \A t \in Turns : t # turn => card'[t] = card[t]
 BY <1>1, Resolved
<1>4. \A t \in Turns : t > turn => card'[t] = card[t] BY <1>2, <1>3 DEF Turns, CodexTypes
<1> QED BY <1>1, <1>2, <1>3, <1>4, OverStep DEF AskedSound

\* A notification of the turn's own thread, or one that withdraws a question.
LEMMA NoteStep ==
  ASSUME CodexInductive, ReadNote
  PROVE  CodexInductive'
<1>1. stdout # <<>> /\ run.at = "reading" /\ Take /\ Interrupt(IdsKnown) /\ Resolve BY DEF ReadNote, NextIs, Reading
<1>2. UNCHANGED <<turn, tracker, opened, answers, told>> BY DEF ReadNote
<1>3. /\ run' \in RunType /\ run'.at = "reading" /\ run'.terminal = run.terminal /\ server' \in ServerType
      /\ server'.turn = server.turn /\ server'.asks = server.asks /\ server'.got = server.got
      /\ server'.awaits = server.awaits
 BY <1>1, CodexParts, KnownRun, InterruptKeeps
<1>4. /\ asked' \subseteq asked /\ asked' \subseteq Questions
      /\ card' \in [Turns -> [Questions -> {"none", "pending", "resolved"}]]
      /\ \A t \in Turns : t # turn => card'[t] = card[t]
      /\ \A q \in Questions : card'[turn][q] = "pending" => q \in asked'
 BY <1>1, Resolved
<1>5. run'.terminal # "none" => asked' = {} /\ run.terminal # "none" BY <1>3, <1>4, CodexParts
<1> QED BY <1>1, <1>2, <1>3, <1>4, <1>5, NothingNew, ReadStep

\* A collaboration that begins or ends.
LEMMA CollaborationStep ==
  ASSUME CodexInductive, ReadCollaboration
  PROVE  CodexInductive'
<1> DEFINE e == Head(stdout)
            status == IF e.done THEN "done" ELSE "open"
            items == [told.collaboration EXCEPT ![e.id] = status]
<1>1. /\ stdout # <<>> /\ run.at = "reading" /\ e.kind = "collaboration" /\ Take /\ Interrupt(IdsKnown)
      /\ opened' = (IF e.done THEN opened \ {e.id} ELSE opened \cup {e.id})
      /\ told' = [told EXCEPT !.collaboration = items]
      /\ UNCHANGED <<turn, asked, tracker, answers, card>>
 BY DEF ReadCollaboration, NextIs, Reading
<1>2. e \in Envelopes BY <1>1, RestOfPipe
<1>3. e.id \in Collaborations BY <1>1, <1>2 DEF Envelopes
<1>4. /\ told \in TurnToldType /\ opened \subseteq Collaborations /\ tracker \in [Subagents -> SubagentStates]
      /\ \A s \in Subagents : told.subagent[s] = "none" \/ told.subagent[s] = tracker[s]
      /\ \A c \in Collaborations : told.collaboration[c] = "open" => c \in opened
 BY DEF CodexInductive, CodexTypes, ActivitySound
<1>5. /\ items \in [Collaborations -> {"none", "open", "done"}] /\ items[e.id] = status
      /\ \A c \in Collaborations : c # e.id => items[c] = told.collaboration[c]
 BY <1>3, <1>4 DEF TurnToldType
<1>6. (status = "open" => ~e.done) OBVIOUS
<1> HIDE DEF items, status
<1>7. /\ told' \in TurnToldType /\ told'.terminal = told.terminal /\ told'.subagent = told.subagent
      /\ told'.collaboration = items
 BY <1>1, <1>4, <1>5 DEF TurnToldType
<1>8. opened' \subseteq Collaborations /\ \A c \in Collaborations : told'.collaboration[c] = "open" => c \in opened'
 <2>1. opened' \subseteq Collaborations BY <1>1, <1>3, <1>4
 <2>2. ASSUME NEW c \in Collaborations, items[c] = "open" PROVE c \in opened'
  <3>1. CASE c = e.id BY <1>1, <1>5, <1>6, <2>2, <3>1
  <3>2. CASE c # e.id BY <1>1, <1>4, <1>5, <2>2, <3>2
  <3> QED BY <3>1, <3>2
 <2> QED BY <1>7, <2>1, <2>2
<1>9. /\ run' \in RunType /\ run'.at = "reading" /\ run'.terminal = run.terminal /\ server' \in ServerType
      /\ server'.turn = server.turn /\ server'.asks = server.asks /\ server'.got = server.got
      /\ server'.awaits = server.awaits
 BY <1>1, CodexParts, KnownRun, InterruptKeeps
<1>10. /\ tracker' \in [Subagents -> SubagentStates]
       /\ \A s \in Subagents : told'.subagent[s] = "none" \/ told'.subagent[s] = tracker'[s]
 BY <1>1, <1>4, <1>7
<1> QED BY <1>1, <1>7, <1>8, <1>9, <1>10, CodexParts, SameQuestions, ReadStep

\* What another thread reports of itself.
LEMMA SubagentStep ==
  ASSUME CodexInductive, ReadSubagent
  PROVE  CodexInductive'
<1> DEFINE e == Head(stdout)
            status == SubagentStatus(tracker[e.id], e.status)
            threads == [told.subagent EXCEPT ![e.id] = status]
<1>1. /\ stdout # <<>> /\ run.at = "reading" /\ e.kind = "subagent" /\ Take
      /\ tracker' = [tracker EXCEPT ![e.id] = status]
      /\ told' = IF e.status = "unknown" THEN told ELSE [told EXCEPT !.subagent = threads]
      /\ UNCHANGED <<turn, run, asked, opened, answers, server, card>>
 BY DEF ReadSubagent, NextIs, Reading
<1>2. e.id \in Subagents /\ e.status \in SubagentReports
 <2>1. e \in Envelopes BY <1>1, RestOfPipe
 <2> QED BY <1>1, <2>1 DEF Envelopes
<1>3. /\ told \in TurnToldType /\ opened \subseteq Collaborations /\ tracker \in [Subagents -> SubagentStates]
      /\ \A s \in Subagents : told.subagent[s] = "none" \/ told.subagent[s] = tracker[s]
      /\ \A c \in Collaborations : told.collaboration[c] = "open" => c \in opened
 BY DEF CodexInductive, CodexTypes, ActivitySound
<1>4. status \in SubagentStates /\ (e.status = "unknown" /\ tracker[e.id] # "none" => status = tracker[e.id])
 <2>1. tracker[e.id] \in SubagentStates BY <1>2, <1>3
 <2> QED BY <1>2, <2>1 DEF SubagentStatus, SubagentStates, SubagentReports, Endings
<1> HIDE DEF status
<1>5. /\ threads \in [Subagents -> SubagentStates] /\ threads[e.id] = status
      /\ \A s \in Subagents : s # e.id => threads[s] = told.subagent[s]
 BY <1>2, <1>3, <1>4 DEF TurnToldType
<1> HIDE DEF threads
<1>6. /\ tracker' \in [Subagents -> SubagentStates] /\ tracker'[e.id] = status
      /\ \A s \in Subagents : s # e.id => tracker'[s] = tracker[s]
 BY <1>1, <1>2, <1>3, <1>4
<1>7. /\ told' \in TurnToldType /\ told'.terminal = told.terminal /\ told'.collaboration = told.collaboration
      /\ told'.subagent = IF e.status = "unknown" THEN told.subagent ELSE threads
 BY <1>1, <1>3, <1>5 DEF TurnToldType
<1>8. \A s \in Subagents : told'.subagent[s] = "none" \/ told'.subagent[s] = tracker'[s]
 <2> SUFFICES ASSUME NEW s \in Subagents PROVE told'.subagent[s] = "none" \/ told'.subagent[s] = tracker'[s] OBVIOUS
 <2>1. CASE s # e.id BY <1>3, <1>5, <1>6, <1>7, <2>1
 <2>2. CASE s = e.id BY <1>3, <1>4, <1>5, <1>6, <1>7, <2>2
 <2> QED BY <2>1, <2>2
<1>9. run' \in RunType /\ server' \in ServerType BY <1>1, CodexParts
<1> QED BY <1>1, <1>3, <1>6, <1>7, <1>8, <1>9, CodexParts, SameQuestions, ReadStep

\* The end of the turn is read: no question is left to answer.
LEMMA CompletedStep ==
  ASSUME CodexInductive, ReadTurnCompleted
  PROVE  CodexInductive'
<1>1. /\ stdout # <<>> /\ run.at = "reading" /\ Head(stdout).kind = "turnCompleted" /\ Take /\ asked' = {}
      /\ run' = (IF Ended THEN run ELSE [Interrupted(IdsKnown) EXCEPT !.terminal = Head(stdout).status])
      /\ UNCHANGED <<turn, tracker, opened, answers, server, told>>
 BY DEF ReadTurnCompleted, NextIs, Reading
<1>2. Head(stdout).status \in Endings
 <2>1. Head(stdout) \in Envelopes BY <1>1, RestOfPipe
 <2> QED BY <1>1, <2>1 DEF Envelopes
<1>3. run' \in RunType /\ run'.at = "reading"
 <2>1. Interrupted(IdsKnown) \in RunType /\ Interrupted(IdsKnown).at = "reading" /\ run \in RunType
  BY <1>1, CodexParts, KnownRun, RunKinds
 <2> QED BY <1>1, <1>2, <2>1 DEF RunType
<1>4. CodexTypes /\ turn \in Turns /\ CardsSound BY <1>1 DEF CodexInductive, EndSound
<1> DEFINE row == [q \in Questions |-> IF q \in asked THEN "resolved" ELSE card[turn][q]]
<1>5. card' = [card EXCEPT ![turn] = row] BY DEF ReadTurnCompleted
<1>6. row \in [Questions -> {"none", "pending", "resolved"}] /\ \A q \in Questions : row[q] # "pending"
 BY <1>1, <1>4 DEF CodexTypes, CardsSound
<1> HIDE DEF row
<1>7. /\ card' \in [Turns -> [Questions -> {"none", "pending", "resolved"}]] /\ card'[turn] = row
      /\ \A t \in Turns : t # turn => card'[t] = card[t]
 BY <1>4, <1>5, <1>6 DEF CodexTypes
<1>8. asked' \subseteq Questions /\ server' \in ServerType BY <1>1, CodexParts
<1> QED BY <1>1, <1>3, <1>6, <1>7, <1>8, NothingNew, ReadStep

\* A line that cannot be read ends the run, or leaves it waiting for the process.
LEMMA ErrorStep ==
  ASSUME CodexInductive, ReadError
  PROVE  CodexInductive'
<1>1. stdout # <<>> /\ run.at = "reading" /\ asked' = asked /\ card' = card BY DEF ReadError, NextIs, Reading
<1>2. CodexTypes /\ PipeSound /\ AskedSound /\ CardsSound /\ EndSound /\ ActivitySound /\ asked \subseteq Questions
 BY DEF CodexInductive, CodexTypes
<1>3. CASE ~Ended \/ ~server.alive
 <2>1. Over(run.terminal) BY <1>3 DEF ReadError
 <2>2. card' \in [Turns -> [Questions -> {"none", "pending", "resolved"}]] BY <1>1, <1>2 DEF CodexTypes
 <2> QED BY <1>1, <1>2, <2>1, <2>2, OverStep DEF AskedSound
<1>4. CASE ~(~Ended \/ ~server.alive)
 <2>1. /\ FinalWord(run.terminal) /\ run' = [run EXCEPT !.at = "waiting"] /\ run.terminal # "none"
       /\ UNCHANGED <<turn, stdout, answers, server>>
  BY <1>4 DEF ReadError, Ended
 <2>2. run' \in RunType /\ run'.at = "waiting" /\ run'.terminal = run.terminal /\ run.terminal \in {"none"} \cup Endings
  BY <2>1, CodexParts DEF RunType
 <2>3. /\ told' \in TurnToldType /\ told'.terminal = run.terminal /\ tracker' \in [Subagents -> SubagentStates]
       /\ opened' = {} /\ (\A c \in Collaborations : told'.collaboration[c] # "open")
       /\ \A s \in Subagents : /\ told'.subagent[s] = "none" \/ told'.subagent[s] = tracker'[s]
                               /\ tracker'[s] = "none" \/ Settled(tracker'[s])
  BY <1>2, <2>1, <2>2, LastWord
 <2>4. CodexTypes' BY <1>1, <1>2, <2>1, <2>2, <2>3 DEF CodexTypes
 <2>5. PipeSound' /\ AskedSound' BY <1>1, <1>2, <2>1 DEF PipeSound, AskedSound, AnsweredOnce
 <2>6. CardsSound' /\ EndSound' BY <1>1, <1>2, <2>1, <2>2, <2>3 DEF CardsSound, EndSound
 <2>7. ActivitySound' BY <2>3 DEF ActivitySound
 <2> QED BY <2>4, <2>5, <2>6, <2>7 DEF CodexInductive
<1> QED BY <1>3, <1>4

\* The output has been read, or is given up.
LEMMA DrainedStep ==
  ASSUME CodexInductive, run.at = "reading", Over(run.terminal), UNCHANGED <<asked, card>>
  PROVE  CodexInductive'
<1>1. /\ asked \subseteq Questions /\ (\A q \in asked : q \in server.asks /\ server.got[q] = <<>>)
      /\ card \in [Turns -> [Questions -> {"none", "pending", "resolved"}]]
 BY DEF CodexInductive, CodexTypes, AskedSound
<1> QED BY <1>1, OverStep

\* The process has gone that the run waited for.
LEMMA WaitedStep ==
  ASSUME CodexInductive, Waited
  PROVE  CodexInductive'
<1>1. /\ run.at = "waiting" /\ run' = [run EXCEPT !.at = "over"] /\ stdout' = <<>> /\ answers' = <<>>
      /\ UNCHANGED <<turn, asked, tracker, opened, server, told, card>>
 BY DEF Waited
<1>2. CodexTypes /\ PipeSound /\ AskedSound /\ CardsSound /\ EndSound /\ ActivitySound BY DEF CodexInductive
<1>3. run' \in RunType /\ run'.at = "over" /\ run'.terminal = run.terminal BY <1>1, CodexParts DEF RunType
<1>4. CodexTypes'
 <2>1. /\ stdout' \in Seq(Envelopes) /\ Len(stdout') <= PipeBound
       /\ answers' \in Seq([id : Questions, turn : Turns]) /\ Len(answers') <= AnswerCapacity
  BY <1>1, CodexTurnAssumption
 <2> QED BY <1>1, <1>2, <1>3, <2>1 DEF CodexTypes
<1>5. PipeSound' /\ AskedSound' BY <1>1, <1>2 DEF PipeSound, AskedSound, AnsweredOnce
<1>6. CardsSound' /\ EndSound' /\ ActivitySound' BY <1>1, <1>2, <1>3 DEF CardsSound, EndSound, ActivitySound
<1> QED BY <1>4, <1>5, <1>6 DEF CodexInductive

\* The types and the parts that do not know the run stay when only it changes.
LEMMA OnlyRun ==
  ASSUME CodexInductive, run' \in RunType, run'.at = run.at, run'.terminal = run.terminal,
         server' \in ServerType, server'.turn = server.turn, server'.asks = server.asks,
         server'.got = server.got, server'.awaits = server.awaits,
         UNCHANGED <<turn, asked, tracker, opened, stdout, answers, told, card>>
  PROVE  CodexInductive'
<1>1. CodexTypes /\ PipeSound /\ AskedSound /\ CardsSound /\ EndSound /\ ActivitySound BY DEF CodexInductive
<1>2. CodexTypes' BY <1>1 DEF CodexTypes
<1>3. PipeSound' /\ AskedSound' BY <1>1 DEF PipeSound, AskedSound, AnsweredOnce
<1>4. CardsSound' /\ EndSound' /\ ActivitySound' BY <1>1 DEF CardsSound, EndSound, ActivitySound
<1> QED BY <1>2, <1>3, <1>4 DEF CodexInductive

\* The context of the run is done.
LEMMA CancelledStep ==
  ASSUME CodexInductive, CtxDone
  PROVE  CodexInductive'
<1> DEFINE r == [run EXCEPT !.cancelRequested = TRUE]
<1>1. run.at = "reading" /\ ~Ended BY DEF CtxDone, Reading
<1>2. CASE BreakOff BY <1>1, <1>2, BreakStep
<1>3. CASE ~BreakOff
 <2>1. Interrupt(r) /\ UNCHANGED <<turn, asked, tracker, opened, stdout, answers, told, card>> BY <1>3 DEF CtxDone
 <2>2. r \in RunType /\ r.at = run.at /\ r.terminal = run.terminal BY CodexParts DEF RunType
 <2> HIDE DEF r
 <2>3. /\ run' \in RunType /\ run'.at = run.at /\ run'.terminal = run.terminal /\ server' \in ServerType
       /\ server'.turn = server.turn /\ server'.asks = server.asks /\ server'.got = server.got
       /\ server'.awaits = server.awaits
  BY <2>1, <2>2, CodexParts, InterruptKeeps
 <2> QED BY <2>1, <2>3, OnlyRun
<1> QED BY <1>2, <1>3

\* An answer is given to the process, once, or ends the run.
LEMMA RespondStep ==
  ASSUME CodexInductive, Respond
  PROVE  CodexInductive'
<1> DEFINE a == Head(answers)
            q == a.id
<1>1. run.at = "reading" /\ ~Ended /\ answers # <<>> BY DEF Respond, Reading
<1>2. CASE BreakOff BY <1>1, <1>2, BreakStep
<1>3. CASE ~BreakOff
 <2>1. /\ q \in asked /\ answers' = Tail(answers) /\ asked' = asked \ {q}
       /\ server' = [server EXCEPT !.got[q] = Append(@, a.turn), !.awaits = @ \ {q}]
       /\ card' = [card EXCEPT ![turn][q] = "resolved"]
       /\ UNCHANGED <<turn, run, tracker, opened, stdout, told>>
  BY <1>3 DEF Respond
 <2>2. /\ CodexTypes /\ PipeSound /\ AskedSound /\ CardsSound /\ EndSound /\ ActivitySound /\ turn \in Turns
       /\ server \in ServerType
  BY <1>1, CodexParts DEF CodexInductive, EndSound
 <2>3. a \in [id : Questions, turn : Turns] /\ answers' \in Seq([id : Questions, turn : Turns])
       /\ Len(answers') <= AnswerCapacity
  <3> DEFINE S == [id : Questions, turn : Turns]
  <3>1. answers \in Seq(S) /\ Len(answers) <= AnswerCapacity /\ AnswerCapacity \in Nat BY <2>2, CodexTurnAssumption DEF CodexTypes
  <3> HIDE DEF S
  <3>2. Head(answers) \in S /\ Tail(answers) \in Seq(S) /\ Len(Tail(answers)) <= AnswerCapacity BY <1>1, <3>1
  <3> QED BY <2>1, <3>2 DEF S
 <2>4. q \in Questions /\ a.turn \in Turns /\ q \in server.asks /\ server.got[q] = <<>> BY <2>1, <2>2, <2>3 DEF AskedSound
 <2> DEFINE g == [server.got EXCEPT ![q] = <<a.turn>>]
 <2>5. /\ g \in [Questions -> Seq(Turns)] /\ g[q] = <<a.turn>> /\ Len(g[q]) = 1
       /\ \A p \in Questions : p # q => g[p] = server.got[p]
  BY <2>2, <2>4 DEF ServerType
 <2>6. server' = [server EXCEPT !.got = g, !.awaits = @ \ {q}]
  <3>1. Append(server.got[q], a.turn) = <<a.turn>> BY <2>4
  <3> QED BY <2>1, <3>1
 <2>7. [card[turn] EXCEPT ![q] = "resolved"] \in [Questions -> {"none", "pending", "resolved"}] BY <2>2 DEF CodexTypes
 <2> DEFINE row == [card[turn] EXCEPT ![q] = "resolved"]
 <2>8. card' = [card EXCEPT ![turn] = row] /\ row[q] = "resolved" /\ \A p \in Questions : p # q => row[p] = card[turn][p]
  BY <2>1, <2>2, <2>4 DEF CodexTypes
 <2> HIDE DEF q, a, g, row
 <2>9. /\ server' \in ServerType /\ server'.turn = server.turn /\ server'.asks = server.asks /\ server'.got = g
       /\ server'.awaits \subseteq server.awaits
  BY <2>2, <2>5, <2>6 DEF ServerType
 <2>10. /\ card' \in [Turns -> [Questions -> {"none", "pending", "resolved"}]] /\ card'[turn] = row
        /\ \A t \in Turns : t # turn => card'[t] = card[t]
  BY <2>2, <2>7, <2>8 DEF CodexTypes, row
 <2>11. CodexTypes' BY <2>1, <2>2, <2>3, <2>9, <2>10 DEF CodexTypes
 <2>12. PipeSound'
  <3>1. \A i \in DOMAIN stdout : stdout[i].kind = "request" =>
          /\ stdout[i].id \in server.asks \ asked /\ server.got[stdout[i].id] = <<>> /\ stdout[i].id # q
          /\ stdout[i].id \in Questions
   BY <2>1, <2>2 DEF PipeSound, ServerType
  <3> QED BY <2>1, <2>2, <2>5, <2>9, <3>1 DEF PipeSound
 <2>13. AskedSound'
  <3>1. \A p \in asked' : p \in server'.asks /\ server'.got[p] = <<>> BY <2>1, <2>2, <2>5, <2>9 DEF AskedSound, CodexTypes
  <3>2. AnsweredOnce'
   <4> SUFFICES ASSUME NEW p \in Questions
                 PROVE  Len(server'.got[p]) <= 1 /\ (server'.got[p] # <<>> => p \in server'.asks)
    BY DEF AnsweredOnce
   <4>1. CASE p = q
    <5>1. server'.got[p] = g[q] /\ p \in server'.asks BY <2>4, <2>9, <4>1
    <5>2. Len(server'.got[p]) = 1 BY <2>5, <5>1
    <5> QED BY <5>1, <5>2
   <4>2. CASE p # q BY <2>2, <2>5, <2>9, <4>2 DEF AskedSound, AnsweredOnce
   <4> QED BY <4>1, <4>2
  <3> QED BY <3>1, <3>2 DEF AskedSound
 <2>14. CardsSound'
  <3>1. \A t \in Turns : t > turn => t # turn BY <2>2 DEF CodexTypes, Turns
  <3>2. \A p \in Questions : card'[turn][p] = "pending" => p \in asked' BY <1>1, <2>1, <2>2, <2>8, <2>10 DEF CardsSound
  <3> QED BY <1>1, <2>1, <2>2, <2>10, <3>1, <3>2 DEF CardsSound, Ended
 <2>15. EndSound' /\ ActivitySound' BY <2>1, <2>2, <2>9 DEF EndSound, ActivitySound
 <2> QED BY <2>11, <2>12, <2>13, <2>14, <2>15 DEF CodexInductive
<1> QED BY <1>2, <1>3

\* A turn starts, whether or not its process can be written to.
LEMMA StartStep ==
  ASSUME CodexInductive, StartTurn
  PROVE  CodexInductive'
<1>1. /\ run.at = "over" /\ turn < MaxTurns /\ turn' = turn + 1 /\ told' = NothingTold
      /\ tracker' = [s \in Subagents |-> "none"] /\ asked' = {} /\ opened' = {} /\ stdout' = <<>>
      /\ answers' = <<>> /\ card' = card
 BY DEF StartTurn
<1>2. CodexTypes /\ CardsSound /\ MaxTurns \in Nat BY CodexTurnAssumption DEF CodexInductive
<1>3. turn \in Nat /\ turn' \in Turns /\ turn' \in 0..MaxTurns BY <1>1, <1>2 DEF CodexTypes, Turns
<1>4. run' \in RunType /\ run'.terminal = "none"
 <2>1. NewRun \in RunType /\ NewRun.terminal = "none" BY DEF NewRun, RunType
 <2>2. run' = NewRun \/ run' = [NewRun EXCEPT !.at = "over"] BY DEF StartTurn
 <2>3. [NewRun EXCEPT !.at = "over"] \in RunType /\ [NewRun EXCEPT !.at = "over"].terminal = "none" BY <2>1 DEF RunType
 <2> QED BY <2>1, <2>2, <2>3
<1>5. /\ server' \in ServerType /\ server'.awaits = {} /\ server'.asks = {}
      /\ \A q \in Questions : server'.got[q] = <<>>
 BY NewServerKinds DEF StartTurn
<1>6. told' \in TurnToldType /\ told'.terminal = "none" /\ \A s \in Subagents : told'.subagent[s] = "none"
 BY <1>1 DEF NothingTold, TurnToldType, SubagentStates
<1>7. \A c \in Collaborations : told'.collaboration[c] = "none" BY <1>1 DEF NothingTold
<1>8. tracker' \in [Subagents -> SubagentStates] /\ \A s \in Subagents : tracker'[s] = "none" BY <1>1 DEF SubagentStates
<1>9. CodexTypes'
 <2>1. /\ stdout' \in Seq(Envelopes) /\ Len(stdout') <= PipeBound
       /\ answers' \in Seq([id : Questions, turn : Turns]) /\ Len(answers') <= AnswerCapacity
  BY <1>1, CodexTurnAssumption
 <2> QED BY <1>1, <1>2, <1>3, <1>4, <1>5, <1>6, <1>8, <2>1 DEF CodexTypes
<1>10. PipeSound' BY <1>1 DEF PipeSound
<1>11. AskedSound' BY <1>1, <1>5 DEF AskedSound, AnsweredOnce
<1>12. CardsSound'
 <2>1. \A q \in Questions : card'[turn'][q] = "none" BY <1>1, <1>2, <1>3 DEF CardsSound
 <2>2. \A t \in Turns : t > turn' => t > turn BY <1>1, <1>3 DEF Turns
 <2> QED BY <1>1, <1>2, <1>4, <2>1, <2>2 DEF CardsSound
<1>13. EndSound' BY <1>3, <1>4, <1>6 DEF EndSound
<1>14. ActivitySound' BY <1>1, <1>6, <1>7, <1>8 DEF ActivitySound
<1> QED BY <1>9, <1>10, <1>11, <1>12, <1>13, <1>14 DEF CodexInductive

\* A cancellation, an answer and the death of the process only begin something.
LEMMA OutsideStep ==
  ASSUME CodexInductive, Cancel \/ Die \/ (\E t \in Turns, q \in Questions : Answer(t, q))
  PROVE  CodexInductive'
<1>1. CASE Cancel
 <2>1. /\ run' = [run EXCEPT !.cancelled = TRUE]
       /\ UNCHANGED <<turn, asked, tracker, opened, stdout, answers, server, told, card>>
  BY <1>1 DEF Cancel
 <2>2. run' \in RunType /\ run'.at = run.at /\ run'.terminal = run.terminal /\ server' \in ServerType
  BY <2>1, CodexParts DEF RunType
 <2> QED BY <2>1, <2>2, OnlyRun
<1>2. CASE Die
 <2>1. /\ server' = [server EXCEPT !.alive = FALSE]
       /\ UNCHANGED <<turn, run, asked, tracker, opened, stdout, answers, told, card>>
  BY <1>2 DEF Die
 <2>2. /\ server' \in ServerType /\ server'.turn = server.turn /\ server'.asks = server.asks
       /\ server'.got = server.got /\ server'.awaits = server.awaits /\ run' \in RunType
  BY <2>1, CodexParts DEF ServerType
 <2> QED BY <2>1, <2>2, OnlyRun
<1>3. ASSUME NEW t \in Turns, NEW q \in Questions, Answer(t, q) PROVE CodexInductive'
 <2>1. /\ Len(answers) < AnswerCapacity /\ answers' = Append(answers, [id |-> q, turn |-> t])
       /\ UNCHANGED <<turn, run, asked, tracker, opened, stdout, server, told, card>>
  BY <1>3 DEF Answer
 <2>2. CodexTypes /\ PipeSound /\ AskedSound /\ CardsSound /\ EndSound /\ ActivitySound BY DEF CodexInductive
 <2>3. answers' \in Seq([id : Questions, turn : Turns]) /\ Len(answers') <= AnswerCapacity
  BY <2>1, <2>2, CodexTurnAssumption DEF CodexTypes
 <2>4. CodexTypes' BY <2>1, <2>2, <2>3 DEF CodexTypes
 <2>5. PipeSound' /\ AskedSound' /\ CardsSound' /\ EndSound' /\ ActivitySound'
  BY <2>1, <2>2 DEF PipeSound, AskedSound, AnsweredOnce, CardsSound, EndSound, ActivitySound
 <2> QED BY <2>4, <2>5 DEF CodexInductive
<1> QED BY <1>1, <1>2, <1>3

\* The process replies, or begins or ends the turn.
LEMMA ProcessTurnStep ==
  ASSUME CodexInductive,
         (\E method \in Methods : Reply(method)) \/ BeginTurn \/ (\E status \in Endings : EndTurn(status))
  PROVE  CodexInductive'
<1>0. server \in ServerType /\ server.awaits \subseteq server.asks BY CodexParts DEF CodexTypes
<1>1. ASSUME NEW method \in Methods, Reply(method) PROVE CodexInductive'
 <2>1. PICK ok \in BOOLEAN :
         /\ Writes([kind |-> "reply", to |-> method, ok |-> ok])
         /\ server' = [server EXCEPT !.todo = @ \ {method},
                                     !.turn = IF method = "turn" /\ ok /\ @ = "none" THEN "running" ELSE @]
  BY <1>1 DEF Reply
 <2> DEFINE e == [kind |-> "reply", to |-> method, ok |-> ok]
             t == IF method = "turn" /\ ok /\ server.turn = "none" THEN "running" ELSE server.turn
 <2>2. e \in Envelopes /\ e.kind = "reply" BY DEF Envelopes
 <2>3. t \in {"none", "running", "ended"} /\ (server.turn = "ended" => t = "ended") BY <1>0 DEF ServerType
 <2>4. server' = [server EXCEPT !.todo = @ \ {method}, !.turn = t] /\ Writes(e) BY <2>1
 <2> HIDE DEF e, t
 <2>5. /\ server' \in ServerType /\ server'.turn = t /\ server'.asks = server.asks /\ server'.got = server.got
       /\ server'.awaits = server.awaits
  BY <1>0, <2>3, <2>4 DEF ServerType
 <2> QED BY <1>0, <2>2, <2>3, <2>4, <2>5, WriteStep
<1>2. CASE BeginTurn
 <2> DEFINE e == [kind |-> "note"]
 <2>1. Writes(e) /\ server.turn = "none" /\ server' = [server EXCEPT !.turn = "running"] BY <1>2 DEF BeginTurn
 <2>2. e \in Envelopes /\ e.kind = "note" BY DEF Envelopes
 <2> HIDE DEF e
 <2>3. /\ server' \in ServerType /\ server'.asks = server.asks /\ server'.got = server.got
       /\ server'.awaits = server.awaits
  BY <1>0, <2>1 DEF ServerType
 <2> QED BY <1>0, <2>1, <2>2, <2>3, WriteStep
<1>3. ASSUME NEW status \in Endings, EndTurn(status) PROVE CodexInductive'
 <2> DEFINE e == [kind |-> "turnCompleted", status |-> status]
 <2>1. Writes(e) /\ server' = [server EXCEPT !.turn = "ended", !.awaits = {}] BY <1>3 DEF EndTurn
 <2>2. e \in Envelopes /\ e.kind = "turnCompleted" BY DEF Envelopes
 <2> HIDE DEF e
 <2>3. /\ server' \in ServerType /\ server'.asks = server.asks /\ server'.got = server.got
       /\ server'.awaits = {} /\ server'.turn = "ended"
  BY <1>0, <2>1 DEF ServerType
 <2> QED BY <1>0, <2>1, <2>2, <2>3, WriteStep
<1> QED BY <1>1, <1>2, <1>3

\* The process asks, withdraws, reports, or garbles a line.
LEMMA ProcessSpeaks ==
  ASSUME CodexInductive,
         \/ \E q \in Questions : Ask(q) \/ Withdraw(q)
         \/ \E s \in Subagents, status \in SubagentReports : ReportSubagent(s, status)
         \/ \E c \in Collaborations, over \in BOOLEAN : ReportCollaboration(c, over)
         \/ Garble
  PROVE  CodexInductive'
<1>0. server \in ServerType /\ server.awaits \subseteq server.asks BY CodexParts DEF CodexTypes
<1>1. ASSUME NEW q \in Questions, Ask(q) PROVE CodexInductive'
 <2> DEFINE e == [kind |-> "request", id |-> q]
 <2>1. Writes(e) /\ q \notin server.asks /\ server' = [server EXCEPT !.asks = @ \cup {q}, !.awaits = @ \cup {q}] BY <1>1 DEF Ask
 <2>2. e \in Envelopes /\ e.kind = "request" /\ e.id = q BY DEF Envelopes
 <2> HIDE DEF e
 <2>3. /\ server' \in ServerType /\ server'.asks = server.asks \cup {q} /\ server'.got = server.got
       /\ server'.awaits = server.awaits \cup {q} /\ server'.turn = server.turn
  BY <1>0, <2>1 DEF ServerType
 <2> QED BY <1>0, <2>1, <2>2, <2>3, WriteStep
<1>2. ASSUME NEW q \in Questions, Withdraw(q) PROVE CodexInductive'
 <2> DEFINE e == [kind |-> "resolved", id |-> q]
 <2>1. Writes(e) /\ server' = [server EXCEPT !.awaits = @ \ {q}] BY <1>2 DEF Withdraw
 <2>2. e \in Envelopes /\ e.kind = "resolved" BY DEF Envelopes
 <2> HIDE DEF e
 <2>3. /\ server' \in ServerType /\ server'.asks = server.asks /\ server'.got = server.got
       /\ server'.awaits \subseteq server.awaits /\ server'.turn = server.turn
  BY <1>0, <2>1 DEF ServerType
 <2> QED BY <1>0, <2>1, <2>2, <2>3, WriteStep
<1>3. ASSUME NEW s \in Subagents, NEW status \in SubagentReports, ReportSubagent(s, status) PROVE CodexInductive'
 <2> DEFINE e == [kind |-> "subagent", id |-> s, status |-> status]
 <2>1. Writes(e) /\ server' = server BY <1>3 DEF ReportSubagent
 <2>2. e \in Envelopes /\ e.kind = "subagent" BY DEF Envelopes
 <2> HIDE DEF e
 <2> QED BY <1>0, <2>1, <2>2, WriteStep
<1>4. ASSUME NEW c \in Collaborations, NEW over \in BOOLEAN, ReportCollaboration(c, over) PROVE CodexInductive'
 <2> DEFINE e == [kind |-> "collaboration", id |-> c, done |-> over]
 <2>1. Writes(e) /\ server' = server BY <1>4 DEF ReportCollaboration
 <2>2. e \in Envelopes /\ e.kind = "collaboration" BY DEF Envelopes
 <2> HIDE DEF e
 <2> QED BY <1>0, <2>1, <2>2, WriteStep
<1>5. CASE Garble
 <2> DEFINE e == [kind |-> "error"]
 <2>1. Writes(e) /\ server' = server BY <1>5 DEF Garble
 <2>2. e \in Envelopes /\ e.kind = "error" BY DEF Envelopes
 <2> HIDE DEF e
 <2> QED BY <1>0, <2>1, <2>2, WriteStep
<1> QED BY <1>1, <1>2, <1>3, <1>4, <1>5

\* Every step keeps the inductive invariant.
LEMMA CodexSteps == CodexInductive /\ [CodexNext]_codexVars => CodexInductive'
<1> SUFFICES ASSUME CodexInductive, [CodexNext]_codexVars PROVE CodexInductive' OBVIOUS
<1>1. CASE Loop
 <2>1. CASE ReplyRefused BY <2>1, BreakStep DEF ReplyRefused, NextIs, Reading
 <2>2. CASE ReadEnd BY <2>2, DrainedStep DEF ReadEnd, Reading
 <2> QED
  BY <1>1, <2>1, <2>2, HandshakeStep, NamedStep, IgnoreStep, RequestStep, TooLateStep, NoteStep,
     CollaborationStep, SubagentStep, CompletedStep, ErrorStep DEF Loop
<1>2. CASE InterruptTimeout BY <1>2, BreakStep DEF InterruptTimeout, Reading
<1>3. CASE DrainTimeout BY <1>3, DrainedStep DEF DrainTimeout, Reading
<1>4. CASE Waited \/ Respond \/ CtxDone \/ StartTurn BY <1>4, WaitedStep, RespondStep, CancelledStep, StartStep
<1>5. CASE Cancel \/ Die \/ (\E t \in Turns, q \in Questions : Answer(t, q)) BY <1>5, OutsideStep
<1>6. CASE (\E method \in Methods : Reply(method)) \/ BeginTurn \/ (\E status \in Endings : EndTurn(status))
 BY <1>6, ProcessTurnStep
<1>7. CASE \/ \E q \in Questions : Ask(q) \/ Withdraw(q)
           \/ \E s \in Subagents, status \in SubagentReports : ReportSubagent(s, status)
           \/ \E c \in Collaborations, over \in BOOLEAN : ReportCollaboration(c, over)
           \/ Garble
 BY <1>7, ProcessSpeaks
<1>8. CASE UNCHANGED codexVars
 BY <1>8 DEF codexVars, CodexInductive, CodexTypes, PipeSound, AskedSound, AnsweredOnce, CardsSound, EndSound,
             ActivitySound
<1> QED BY <1>1, <1>2, <1>3, <1>4, <1>5, <1>6, <1>7, <1>8 DEF CodexNext, Methods, SubagentReports

\* What is told of a turn is settled when its run is over, its end is the
\* process's own, and no request is answered twice, in any order of envelopes,
\* answers, cancellations and deaths (app_server_run.go, app_server_requests.go).
THEOREM TurnSettled == CodexSpec => []CodexInvariant
<1>1. CodexSpec => []CodexInductive BY CodexStart, CodexSteps, PTL DEF CodexSpec
<1> QED BY <1>1, CodexKeep, PTL

\* Nothing follows the end of a turn, not even what its process flushes after it
\* (app_server_run.go).
THEOREM EndIsLast == CodexSpec => TerminalIsLast
<1>1. CodexInductive /\ [CodexNext]_codexVars => [told.terminal # "none" /\ turn' = turn => UNCHANGED <<told, card>>]_codexVars
 <2> SUFFICES ASSUME CodexInductive, CodexNext, told.terminal # "none", turn' = turn PROVE UNCHANGED <<told, card>> OBVIOUS
 <2>1. run.at # "reading" /\ turn \in Nat /\ turn + 1 # turn BY DEF CodexInductive, EndSound, CodexTypes
 <2>2. ~Reading /\ ~Loop
  BY <2>1 DEF Reading, Loop, ReplyRefused, ReplyHandshake, ReplyTurn, Ignore, ReadRequest, NoteTooLate, ReadNote,
              ReadCollaboration, ReadSubagent, ReadTurnCompleted, ReadEnd, ReadError, NextIs
 <2>3. ~Respond /\ ~CtxDone /\ ~InterruptTimeout /\ ~DrainTimeout /\ ~Cancel
  BY <2>2 DEF Respond, CtxDone, InterruptTimeout, DrainTimeout, Cancel
 <2>4. ~StartTurn BY <2>1 DEF StartTurn
 <2>5. \A e : ~Writes(e) BY <2>2 DEF Writes
 <2>6. CASE Waited \/ Die \/ (\E t \in Turns, q \in Questions : Answer(t, q)) BY <2>6 DEF Waited, Die, Answer
 <2>7. CASE \/ (\E method \in {"initialize", "thread", "turn", "interrupt"} : Reply(method)) \/ BeginTurn \/ Garble
            \/ \E q \in Questions : Ask(q) \/ Withdraw(q)
            \/ \E s \in Subagents, status \in SubagentReports : ReportSubagent(s, status)
            \/ \E c \in Collaborations, over \in BOOLEAN : ReportCollaboration(c, over)
            \/ \E status \in Endings : EndTurn(status)
  BY <2>5, <2>7 DEF Reply, BeginTurn, Garble, Ask, Withdraw, ReportSubagent, ReportCollaboration, EndTurn
 <2> QED BY <2>2, <2>3, <2>4, <2>6, <2>7 DEF CodexNext, SubagentReports
<1>2. CodexSpec => []CodexInductive BY CodexStart, CodexSteps, PTL DEF CodexSpec
<1> QED BY <1>1, <1>2, PTL DEF CodexSpec, TerminalIsLast
====
