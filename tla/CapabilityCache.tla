---- MODULE CapabilityCache ----
\* The catalogue of what the agents of one scope (the host, or a project's
\* container) can do: the cache and the shared discovery flight of
\* service/agent/capability, as Service.List uses them.
\*
\* A catalogue is abstracted to the edition of the world it saw (sign-ins,
\* installed command lines, entitlements) and whether every provider
\* answered for itself.  A probe reads the world at one moment between its
\* start and its end.
EXTENDS Integers

CONSTANTS
  Requests,     \* requests for the scope that may be under way at once
  LiveTTL,      \* how long a catalogue without a warning is kept
  DegradedTTL,  \* how long any other is kept
  MaxEdition,   \* bound: how often the world changes
  MaxTick       \* bound of the clock

ASSUME CapabilityAssumption ==
  /\ LiveTTL \in Nat /\ DegradedTTL \in Nat
  /\ MaxEdition \in Nat /\ MaxTick \in Nat

VARIABLES
  edition,   \* of the world
  tick,      \* the clock of the cache
  entry,     \* catalogCache.entries[scope]
  flight,    \* catalogFlights.entries[scope]: its leader
  request    \* request[r]: where it is and what it was given

capabilityVars == <<edition, tick, entry, flight, request>>

NoCatalog == [edition |-> -1, live |-> FALSE]
Catalogs == [edition : 0..MaxEdition, live : BOOLEAN]
NoEntry == [catalog |-> NoCatalog, expiresAt |-> 0]
NoLeader == {}
Fresh == [at |-> "idle", refresh |-> FALSE, catalog |-> NoCatalog]

CapabilityInit ==
  /\ edition = 0
  /\ tick = 0
  /\ entry = NoEntry
  /\ flight = NoLeader
  /\ request = [r \in Requests |-> Fresh]

\* load: a hit, or the lazy removal of an expired entry.
Hit == entry # NoEntry /\ tick < entry.expiresAt

Ttl(catalog) == IF catalog.live THEN LiveTTL ELSE DegradedTTL

Move(r, at) == request' = [request EXCEPT ![r].at = at]

\* List: the optimistic look into the cache, which a refresh leaves out.
List(r, refresh) ==
  /\ request[r].at = "idle"
  /\ IF ~refresh /\ Hit
     THEN UNCHANGED <<entry, request>>
     ELSE /\ entry' = IF refresh \/ Hit THEN entry ELSE NoEntry
          /\ request' = [request EXCEPT ![r] = [Fresh EXCEPT !.at = "looked", !.refresh = refresh]]
  /\ UNCHANGED <<edition, tick, flight>>

\* do: join the flight of the scope, or become the leader of a new one.
Join(r) ==
  /\ request[r].at = "looked"
  /\ flight # NoLeader
  /\ Move(r, "waiting")
  /\ UNCHANGED <<edition, tick, entry, flight>>

\* Mutant: everyone leads.
Lead_Slip(r) ==
  /\ request[r].at = "looked"
  /\ flight' = {r}
  /\ Move(r, "leading")
  /\ UNCHANGED <<edition, tick, entry>>

Lead(r) ==
  /\ request[r].at = "looked"
  /\ flight = NoLeader
  /\ flight' = {r}
  /\ Move(r, "leading")
  /\ UNCHANGED <<edition, tick, entry>>

\* The leader looks again, unless it refreshes, and starts the providers.
LookAgain(r) ==
  /\ request[r].at = "leading"
  /\ IF ~request[r].refresh /\ Hit
     THEN /\ request' = [request EXCEPT ![r].at = "landing", ![r].catalog = entry.catalog]
          /\ UNCHANGED entry
     ELSE /\ Move(r, "probing")
          /\ entry' = IF request[r].refresh THEN entry ELSE NoEntry
  /\ UNCHANGED <<edition, tick, flight>>

\* The providers answer, or fall back, or run into the deadline.
Probe(r) ==
  /\ request[r].at = "probing"
  /\ \E live \in BOOLEAN :
       request' = [request EXCEPT ![r].at = "storing",
                                  ![r].catalog = [edition |-> edition, live |-> live]]
  /\ UNCHANGED <<edition, tick, entry, flight>>

Store(r) ==
  LET catalog == request[r].catalog
  IN /\ request[r].at = "storing"
     /\ entry' = [catalog |-> catalog, expiresAt |-> tick + Ttl(catalog)]
     /\ Move(r, "landing")
     /\ UNCHANGED <<edition, tick, flight>>

\* Mutant: those who joined are not told.
Land_Slip(r) ==
  /\ request[r].at = "landing"
  /\ flight' = flight \ {r}
  /\ request' = [request EXCEPT ![r] = Fresh]
  /\ UNCHANGED <<edition, tick, entry>>

\* The flight is removed and everyone who joined it is given its result.
Land(r) ==
  /\ request[r].at = "landing"
  /\ flight' = flight \ {r}
  /\ request' = [q \in Requests |->
                  IF q = r \/ request[q].at = "waiting" THEN Fresh ELSE request[q]]
  /\ UNCHANGED <<edition, tick, entry>>

\* Mutant: the flight ends with its leader's browser, the probe does not.
Abandon_Slip(r) ==
  \/ /\ request[r].at = "waiting"
     /\ request' = [request EXCEPT ![r] = Fresh]
     /\ UNCHANGED <<edition, tick, entry, flight>>
  \/ /\ r \in flight
     /\ flight' = NoLeader
     /\ UNCHANGED <<edition, tick, entry, request>>

\* A browser that navigates away stops waiting; a leader works on.
Abandon(r) ==
  /\ request[r].at = "waiting"
  /\ request' = [request EXCEPT ![r] = Fresh]
  /\ UNCHANGED <<edition, tick, entry, flight>>

WorldChanges ==
  /\ edition < MaxEdition
  /\ edition' = edition + 1
  /\ UNCHANGED <<tick, entry, flight, request>>

TickPasses ==
  /\ tick < MaxTick
  /\ tick' = tick + 1
  /\ UNCHANGED <<edition, entry, flight, request>>

CapabilityNext ==
  \/ \E r \in Requests :
       \/ \E refresh \in BOOLEAN : List(r, refresh)
       \/ Join(r) \/ Lead(r) \/ LookAgain(r) \/ Probe(r) \/ Store(r) \/ Land(r) \/ Abandon(r)
  \/ WorldChanges \/ TickPasses

\* Goroutines run and every provider has a deadline.
CapabilityFairness ==
  \A r \in Requests :
    WF_capabilityVars(Join(r) \/ Lead(r) \/ LookAgain(r) \/ Probe(r) \/ Store(r) \/ Land(r))

----
\* Properties

CapabilityTypeOK ==
  /\ edition \in 0..MaxEdition
  /\ tick \in 0..MaxTick
  /\ entry = NoEntry \/ (entry.catalog \in Catalogs /\ entry.expiresAt \in Nat)
  /\ flight \in SUBSET Requests
  /\ request \in [Requests ->
                   [at : {"idle", "looked", "leading", "waiting", "probing", "storing",
                          "landing"},
                    refresh : BOOLEAN, catalog : Catalogs \cup {NoCatalog}]]

Discovering(r) == request[r].at \in {"leading", "probing", "storing", "landing"}

\* Overlapping requests start no second set of command lines: at most one
\* request discovers, it is the leader of the flight, and nobody waits for a
\* flight that is gone.
OneDiscovery ==
  /\ flight = {r \in Requests : Discovering(r)}
  /\ \A q, r \in flight : q = r
  /\ flight = {} => \A r \in Requests : request[r].at # "waiting"

CacheInvariant == CapabilityTypeOK /\ OneDiscovery

\* What the cache holds is never replaced by what an earlier world looked like:
\* a slow probe cannot overwrite the result of a later one.
CacheAdvances ==
  [][entry # NoEntry /\ entry' # NoEntry
       => entry'.catalog.edition >= entry.catalog.edition]_capabilityVars

\* Every request is answered, also those that joined a flight led by a browser
\* that went away.
RequestsAnswered ==
  \A r \in Requests : request[r].at = "looked" ~> request[r].at = "idle"
====
