---- MODULE AccountSecurity ----
\* The second factor and the session registry of one account, and the
\* removal of its user: service/auth/{twofactor,session_registry,security}.go,
\* service/user_removal_cleanup.go and the sessions middleware/auth.go admits.
\*
\* Each keeps one record in a file and a cache of it in memory.  A write
\* holds the account's mutex of its store over load, decision, save and
\* cache; a read takes no mutex and fills the cache when it misses; a
\* removal deletes the files beneath both, without a mutex.  Any read may
\* fail.  Requests are chains of such reads and writes over both stores,
\* any number of them at once for the same account.  A counter of the model
\* is one 30-second step of the clock.
EXTENDS Naturals, FiniteSets, SequencesExt

CONSTANTS
  SecurityClients,    \* concurrent requests of the account
  HistoryLimit,       \* Options.SessionHistoryLimit
  RecoveryCodeCount,  \* Options.RecoveryCodeCount
  EnrollmentTTL,      \* Options.EnrollmentTTL, in counters
  PendingLoginTTL,    \* Options.PendingLoginTTL, in counters
  MaxSecurityCalls,   \* bound on requests
  MaxSecurityEvents,  \* bound on failing calls of the stores, restarts and steps of the clock
  MaxRemovals,        \* bound on removals of the user
  MaxSecurityMoves,   \* bound on the three together
  Unread, NoRecord    \* a cache that has not been filled; no file

VARIABLES
  secFile,      \* store -> record or NoRecord
  secCache,     \* store -> Unread, record or NoRecord
  secLock,      \* store -> the client in its account's mutex, or NoClient
  secCall,      \* client -> [todo, phase, work]
  counter,      \* the clock
  generation,   \* secrets and code sets generated so far
  sids,         \* session ids generated so far
  cookies,      \* the session ids of the cookies signed so far; 0 is a cookie without one
  enrollments,  \* enrollment tokens handed out
  pendings,     \* pending-login tokens handed out
  secCalls,     \* requests made
  secEvents,    \* failed calls of the stores, restarts and steps of the clock
  registered,   \* the user is in the directory
  removal,      \* where a removal of the user stands: [at, failed]
  removals,     \* removals begun
  accepted,     \* codes sign-ins were granted for under the present enrollment, with their number
  journal,      \* every sign-in saved while the history is on, newest first
  owed,         \* a recovery-code sign-in was saved with the alert on and not acknowledged
  overtaken,    \* a read once left another record in the cache than the one in use
  orphaned,     \* stores whose file a removal deleted while the server went by its record
  leftover      \* stores whose record a cache, or a request, carried over the removal

secTokens == <<generation, enrollments, pendings>>
secGhosts == <<accepted, journal, owed>>
secRemoval == <<registered, removal, removals, leftover>>
securityVars == <<secFile, secCache, secLock, secCall, counter, sids, cookies, secCalls, secEvents, secTokens,
                  secGhosts, secRemoval, overtaken, orphaned>>

SecurityStores == {"twofactor", "sessions"}
NoClient == "none"

\* The records of the two stores.
RecoveryCodes == {"recovery"} \X Nat \X Nat
FactorRecords == [secret : Nat, codes : SUBSET RecoveryCodes, last : Nat]
SessionRecords == [single : BOOLEAN, history : BOOLEAN, alertOn : BOOLEAN,
                   active : Nat, entries : Seq(Nat), alert : BOOLEAN]

ASSUME SecurityAssumption ==
  /\ NoClient \notin SecurityClients /\ RecoveryCodeCount \in Nat /\ HistoryLimit \in Nat \ {0}
  /\ Unread # NoRecord
  /\ \A r \in {Unread, NoRecord} : r \notin FactorRecords /\ r \notin SessionRecords

\* The registry record a missing file stands for.
Untracked == [single |-> FALSE, history |-> FALSE, alertOn |-> FALSE,
              active |-> 0, entries |-> <<>>, alert |-> FALSE]
OrUntracked(r) == IF r = NoRecord THEN Untracked ELSE r

Tracks(r) == LET p == OrUntracked(r) IN p.single \/ p.history \/ p.alertOn

----
\* Codes: <<"totp", secret, counter>> or <<"recovery", set, index>>.

\* verifyTOTPCode: one step of skew either way.
TotpMatches(secret, code) == code[1] = "totp" /\ code[2] = secret /\ code[3] \in (counter - 1)..(counter + 1)

\* Disable takes either proof.
Proves(r, code) == TotpMatches(r.secret, code) \/ code \in r.codes

NewCodeSet(n) == {<<"recovery", n, i>> : i \in 1..RecoveryCodeCount}

KnownCodes ==
  {<<"totp", s, k>> : s \in 1..generation, k \in (counter - 1)..(counter + 1)}
    \cup UNION {NewCodeSet(s) : s \in 1..generation}

\* Those of the current step: an authenticator's skew is for the challenges to try.
PresentCodes == {code \in KnownCodes : code[1] = "totp" => code[3] = counter}

----
\* The writes, as what they make of the record: a write that is refused or
\* has nothing to do saves nothing.

Refused(r) == [ok |-> FALSE, saves |-> FALSE, record |-> r]
Nothing(r) == [ok |-> TRUE, saves |-> FALSE, record |-> r]
Saves(r) == [ok |-> TRUE, saves |-> TRUE, record |-> r]

ConfirmEnrollment(o) == Saves([secret |-> o.secret, codes |-> NewCodeSet(generation + 1), last |-> 0])

\* A challenge that does not record the step it accepted.
VerifyChallenge_Slip(o, r) ==
  IF r = NoRecord THEN Refused(r)
  ELSE IF TotpMatches(r.secret, o.code) THEN Saves(r)
  ELSE IF o.code \in r.codes THEN Saves([r EXCEPT !.codes = @ \ {o.code}])
  ELSE Refused(r)

VerifyChallenge(o, r) ==
  IF r = NoRecord THEN Refused(r)
  ELSE IF TotpMatches(r.secret, o.code)
         THEN IF o.code[3] <= r.last THEN Refused(r) ELSE Saves([r EXCEPT !.last = o.code[3]])
  ELSE IF o.code \in r.codes THEN Saves([r EXCEPT !.codes = @ \ {o.code}])
  ELSE Refused(r)

Disable(o, r) == IF r = NoRecord \/ ~Proves(r, o.code) THEN Refused(r) ELSE Saves(NoRecord)

RegenerateRecoveryCodes(o, r) ==
  IF r = NoRecord \/ ~TotpMatches(r.secret, o.code) THEN Refused(r)
  ELSE Saves([r EXCEPT !.codes = NewCodeSet(generation + 1)])

\* Preferences that start from an empty record instead of the stored one.
SetPreferences_Slip(o, r) ==
  Saves([Untracked EXCEPT !.single = o.prefs.single, !.history = o.prefs.history,
                          !.alertOn = o.prefs.alertOn])

SetPreferences(o, r) ==
  Saves([OrUntracked(r) EXCEPT !.single = o.prefs.single, !.history = o.prefs.history,
                               !.alertOn = o.prefs.alertOn])

IssueForAccount(o, r) ==
  LET p == OrUntracked(r)
      sid == sids + 1
      entries == IF p.history THEN <<sid>> \o p.entries ELSE p.entries
  IN Saves([p EXCEPT
       !.active = IF p.single THEN sid ELSE @,
       !.entries = SubSeq(entries, 1, IF Len(entries) > HistoryLimit THEN HistoryLimit ELSE Len(entries)),
       !.alert = @ \/ (p.alertOn /\ o.recovery)])

\* The revoked marker is a fresh id when one session is enforced.
Revoke(r) ==
  IF r = NoRecord THEN Nothing(r)
  ELSE Saves([r EXCEPT !.active = IF r.single THEN sids + 1 ELSE 0])

AckAlert(r) == IF r = NoRecord \/ ~OrUntracked(r).alert THEN Nothing(r) ELSE Saves([r EXCEPT !.alert = FALSE])

Outcome(o, r) ==
  CASE o.op = "confirm" -> ConfirmEnrollment(o)
    [] o.op = "verify" -> VerifyChallenge(o, r)
    [] o.op = "disable" -> Disable(o, r)
    [] o.op = "regenerate" -> RegenerateRecoveryCodes(o, r)
    [] o.op = "set" -> SetPreferences(o, r)
    [] o.op = "issue" -> IssueForAccount(o, r)
    [] o.op = "revoke" -> Revoke(r)
    [] o.op = "ack" -> AckAlert(r)

TwoFactorOps == {"confirm", "verify", "disable", "regenerate", "enabled"}
ReadOps == {"enabled", "preferences", "active"}
StoreOf(o) == IF o.op \in TwoFactorOps THEN "twofactor" ELSE "sessions"

----
\* What a request does next: the chains of service.go and security.go.

Preferences(why) == [op |-> "preferences", for |-> why]
Enabled(why) == [op |-> "enabled", for |-> why]

\* IssueSession: accounts that track nothing get a session without an id.
IssueSession(recovery) == Preferences([why |-> "issue", recovery |-> recovery])

\* CompleteTwoFactorEnrollment: the browser that enrolled is tracked at once, if anything is.
CompleteTwoFactorEnrollment(ok) == IF ok THEN <<Preferences([why |-> "tracked"])>> ELSE <<>>

\* CompleteTwoFactorDisable: clearing the alert's preference is best-effort.
CompleteTwoFactorDisable(ok) ==
  IF ok THEN <<Preferences([why |-> "alert"]), [op |-> "ack"]>> ELSE <<>>

AfterPreferences(why, r) ==
  LET p == OrUntracked(r)
      was == [single |-> p.single, history |-> p.history, alertOn |-> p.alertOn]
  IN CASE why.why = "issue" -> IF Tracks(r) THEN <<[op |-> "issue", recovery |-> why.recovery]>> ELSE <<>>
       [] why.why = "tracked" -> IF Tracks(r) THEN <<IssueSession(FALSE)>> ELSE <<>>
       [] why.why = "alert" -> IF p.alertOn THEN <<[op |-> "set", prefs |-> [was EXCEPT !.alertOn = FALSE]]>> ELSE <<>>
       [] why.why = "update" ->
            LET set == [op |-> "set", prefs |-> [was EXCEPT ![why.flag] = why.on]]
                reissue == IF why.flag = "single" /\ why.on /\ ~p.single THEN <<IssueSession(FALSE)>> ELSE <<>>
            IN IF why.flag = "alertOn" /\ why.on
                 THEN <<Enabled([why |-> "alert", then |-> set])>> ELSE <<set>> \o reissue

AfterEnabled(why, r) ==
  CASE why.why = "login" -> IF r = NoRecord THEN <<IssueSession(FALSE)>> ELSE <<>>
    [] why.why = "alert" -> IF r = NoRecord THEN <<>> ELSE <<why.then>>
    [] why.why = "enroll" -> <<>>

\* IsActive: the cookie's session id, where one session is enforced.
IsActive(o, r) == OrUntracked(r).single => OrUntracked(r).active = o.sid

\* CurrentSession, and IsRegistered for all but the sign-out: Wrap lets /auth/ pass.
Admits(o, r) == IsActive(o, r) /\ (registered \/ o.then.op = "revoke")

\* A failed step ends its request, but for the best-effort ones of Disable.
\* Enabled and IsActive answer a failed read as they answer no record.
After(o, r, ok, rest) ==
  CASE o.op = "preferences" -> IF ok THEN AfterPreferences(o.for, r) \o rest
                               ELSE IF o.for.why = "alert" THEN rest ELSE <<>>
    [] o.op = "enabled" -> AfterEnabled(o.for, r) \o rest
    [] o.op = "active" -> IF Admits(o, r) THEN <<o.then>> ELSE <<>>
    [] o.op = "confirm" -> CompleteTwoFactorEnrollment(ok)
    [] o.op = "disable" -> CompleteTwoFactorDisable(ok)
    [] o.op = "verify" -> IF ok THEN <<IssueSession(o.code[1] = "recovery")>> ELSE <<>>
    [] o.op = "set" -> IF ok \/ \A i \in DOMAIN rest : rest[i].op = "ack" THEN rest ELSE <<>>
    [] OTHER -> rest

----
\* The process starts with what earlier ones left: the account is enrolled or
\* not, tracked or not when it is, and a browser may hold a pending login.
SecurityInit ==
  /\ \E enrolled \in {NoRecord, [secret |-> 1, codes |-> NewCodeSet(1), last |-> 0]},
        tracked \in {NoRecord, [Untracked EXCEPT !.single = TRUE, !.history = TRUE, !.alertOn = TRUE]} :
       /\ enrolled = NoRecord => tracked = NoRecord
       /\ secFile = [s \in SecurityStores |-> IF s = "twofactor" THEN enrolled ELSE tracked]
       /\ generation = IF enrolled = NoRecord THEN 0 ELSE 1
       /\ pendings = IF enrolled = NoRecord THEN {} ELSE {1 + PendingLoginTTL}
  /\ secCache = [s \in SecurityStores |-> Unread]
  /\ secLock = [s \in SecurityStores |-> NoClient]
  /\ secCall = [c \in SecurityClients |-> [todo |-> <<>>, phase |-> "idle", work |-> NoRecord]]
  /\ counter = 1 /\ sids = 0 /\ cookies = {0} /\ secCalls = 0 /\ secEvents = 0 /\ enrollments = {}
  /\ registered = TRUE /\ removal = [at |-> "none", failed |-> FALSE] /\ removals = 0
  /\ accepted = [code \in {} |-> 0] /\ journal = <<>> /\ owed = FALSE /\ overtaken = FALSE
  /\ orphaned = {} /\ leftover = {}

SecurityMove == secCalls + secEvents + removals < MaxSecurityMoves

Request(c, o) ==
  /\ secCall[c].todo = <<>> /\ secCalls < MaxSecurityCalls /\ SecurityMove
  /\ secCall' = [secCall EXCEPT ![c].todo = <<o>>]
  /\ secCalls' = secCalls + 1
  /\ UNCHANGED <<secFile, secCache, secLock, counter, sids, cookies, secEvents, secTokens, secGhosts, secRemoval,
                 overtaken, orphaned>>

\* A request with the account's cookie: Wrap, or logout itself, asks IsActive first.
Authenticated(c, o) == \E sid \in cookies : Request(c, [op |-> "active", sid |-> sid, then |-> o])

\* CompletePasswordLogin, CompleteGoogleLogin: the credentials are right, and authorize finds the user.
SignIn(c) == registered /\ Request(c, Enabled([why |-> "login"]))

\* CompleteTwoFactorChallenge with a pending login that has not expired; no cookie, and no look
\* at the directory.
AnswerChallenge(c) ==
  /\ \E p \in pendings : counter <= p
  /\ \E code \in KnownCodes : Request(c, [op |-> "verify", code |-> code])

BeginEnrollment(c) == Authenticated(c, Enabled([why |-> "enroll"]))

\* ConfirmEnrollment with a token that has not expired and a first code that fits.
Confirm(c) ==
  \E t \in enrollments : counter <= t.exp /\ Authenticated(c, [op |-> "confirm", secret |-> t.secret])

DisableTwoFactor(c) == \E code \in PresentCodes : Authenticated(c, [op |-> "disable", code |-> code])

RegenerateCodes(c) ==
  \E code \in PresentCodes : code[1] = "totp" /\ Authenticated(c, [op |-> "regenerate", code |-> code])

\* The browser offers to turn what is off on, and what is on off.
UpdateSecurityPreferences(c) ==
  \E flag \in {"single", "history", "alertOn"} :
    Authenticated(c, Preferences([why |-> "update", flag |-> flag, on |-> ~OrUntracked(secFile["sessions"])[flag]]))

\* logout
SignOut(c) == Authenticated(c, [op |-> "revoke"])

Acknowledge(c) == Authenticated(c, [op |-> "ack"])

----
\* load: the cache, or the file and then the cache.

Loaded(s) == IF secCache[s] = Unread THEN secFile[s] ELSE secCache[s]

\* What answers a read hands out.
HandOut(o, r) ==
  LET login == o.op = "enabled" /\ o.for.why = "login" /\ r # NoRecord
      enroll == o.op = "enabled" /\ o.for.why = "enroll" /\ r = NoRecord
  IN /\ pendings' = IF login THEN pendings \cup {counter + PendingLoginTTL} ELSE pendings
     /\ enrollments' = IF enroll THEN enrollments \cup {[secret |-> generation + 1, exp |-> counter + EnrollmentTTL]}
                       ELSE enrollments
     /\ generation' = IF enroll THEN generation + 1 ELSE generation

SecurityEvent == SecurityMove /\ secEvents < MaxSecurityEvents /\ secEvents' = secEvents + 1

Continue(c, r, ok) ==
  LET o == Head(secCall[c].todo)
  IN secCall' = [secCall EXCEPT ![c] = [todo |-> After(o, r, ok, Tail(secCall[c].todo)),
                                        phase |-> "idle", work |-> NoRecord]]

\* Enabled, Preferences, IsActive: answered by the cache.
ReadCached(c) ==
  /\ secCall[c].todo # <<>> /\ secCall[c].phase = "idle"
  /\ LET o == Head(secCall[c].todo)
     IN /\ o.op \in ReadOps /\ secCache[StoreOf(o)] # Unread
        /\ Continue(c, secCache[StoreOf(o)], TRUE)
        /\ HandOut(o, secCache[StoreOf(o)])
  /\ UNCHANGED <<secFile, secCache, secLock, counter, sids, cookies, secCalls, secEvents, secGhosts, secRemoval,
                 overtaken, orphaned>>

\* A miss reads the file, outside of any mutex ...
ReadFile(c) ==
  /\ secCall[c].todo # <<>> /\ secCall[c].phase = "idle"
  /\ LET o == Head(secCall[c].todo)
     IN /\ o.op \in ReadOps /\ secCache[StoreOf(o)] = Unread
        /\ secCall' = [secCall EXCEPT ![c].phase = "read", ![c].work = secFile[StoreOf(o)]]
  /\ UNCHANGED <<secFile, secCache, secLock, counter, sids, cookies, secCalls, secEvents, secTokens, secGhosts,
                 secRemoval, overtaken, orphaned>>

\* ... which may fail: the cache is left alone, and the second factor taken for off, the session
\* for active.
ReadFails(c) ==
  /\ secCall[c].phase = "read" /\ SecurityEvent
  /\ Continue(c, NoRecord, FALSE)
  /\ HandOut(Head(secCall[c].todo), NoRecord)
  /\ UNCHANGED <<secFile, secCache, secLock, counter, sids, cookies, secCalls, secGhosts, secRemoval,
                 overtaken, orphaned>>

\* A writer has saved the record and is about to put it into the cache.
BeingPublished(s) == \E d \in SecurityClients : secLock[s] = d /\ secCall[d].phase = "saved"

\* The record the server goes by: the one about to be published, the cache's, or the file's.
InUse(s) == IF BeingPublished(s) THEN secCall[secLock[s]].work ELSE Loaded(s)

\* ... and fills the cache with what it read, whatever is there by now.
FillCache(c) ==
  /\ secCall[c].phase = "read"
  /\ LET o == Head(secCall[c].todo)
         s == StoreOf(o)
     IN /\ secCache' = [secCache EXCEPT ![s] = secCall[c].work]
        /\ overtaken' = (overtaken \/ (~BeingPublished(s) /\ secCall[c].work # Loaded(s)))
        /\ Continue(c, secCall[c].work, TRUE)
        /\ HandOut(o, secCall[c].work)
  /\ UNCHANGED <<secFile, secLock, counter, sids, cookies, secCalls, secEvents, secGhosts, secRemoval, orphaned>>

\* The account's mutex, load and the decision; ConfirmEnrollment loads nothing.
Acquire(c) ==
  /\ secCall[c].todo # <<>> /\ secCall[c].phase = "idle"
  /\ LET o == Head(secCall[c].todo)
         s == StoreOf(o)
         out == Outcome(o, Loaded(s))
     IN /\ o.op \notin ReadOps /\ secLock[s] = NoClient
        /\ secCache' = IF o.op = "confirm" THEN secCache ELSE [secCache EXCEPT ![s] = Loaded(s)]
        /\ generation' = IF out.saves /\ o.op \in {"confirm", "regenerate"} THEN generation + 1 ELSE generation
        /\ sids' = IF out.saves /\ (o.op = "issue" \/ (o.op = "revoke" /\ out.record.single)) THEN sids + 1 ELSE sids
        /\ IF out.saves
             THEN /\ secCall' = [secCall EXCEPT ![c].phase = "decided", ![c].work = out.record]
                  /\ secLock' = [secLock EXCEPT ![s] = c]
             ELSE /\ Continue(c, out.record, out.ok)
                  /\ UNCHANGED secLock
  /\ UNCHANGED <<secFile, counter, cookies, enrollments, pendings, secCalls, secEvents, secGhosts, secRemoval,
                 overtaken, orphaned>>

\* The load within the mutex misses, and the file cannot be read.
LoadFails(c) ==
  /\ secCall[c].todo # <<>> /\ secCall[c].phase = "idle" /\ SecurityEvent
  /\ LET o == Head(secCall[c].todo)
     IN o.op \notin ReadOps \cup {"confirm"} /\ secLock[StoreOf(o)] = NoClient /\ secCache[StoreOf(o)] = Unread
  /\ Continue(c, NoRecord, FALSE)
  /\ UNCHANGED <<secFile, secCache, secLock, counter, sids, cookies, secCalls, secTokens, secGhosts,
                 secRemoval, overtaken, orphaned>>

\* The record is durable; what the sign-in counts for is decided here.
Save(c) ==
  /\ secCall[c].phase = "decided"
  /\ LET o == Head(secCall[c].todo)
         s == StoreOf(o)
         new == secCall[c].work
     IN /\ secFile' = [secFile EXCEPT ![s] = new]
        /\ orphaned' = orphaned \ {s}
        /\ accepted' = IF o.op \in {"confirm", "disable"} THEN [code \in {} |-> 0]
                       ELSE IF o.op = "verify"
                              THEN [code \in DOMAIN accepted \cup {o.code} |->
                                      (IF code \in DOMAIN accepted THEN accepted[code] ELSE 0)
                                        + (IF code = o.code THEN 1 ELSE 0)]
                       ELSE accepted
        /\ journal' = IF o.op = "issue" /\ new.history THEN <<new.entries[1]>> \o journal ELSE journal
        /\ owed' = IF o.op = "ack" THEN FALSE ELSE owed \/ (o.op = "issue" /\ new.alertOn /\ o.recovery)
  /\ secCall' = [secCall EXCEPT ![c].phase = "saved"]
  /\ UNCHANGED <<secCache, secLock, counter, sids, cookies, secCalls, secEvents, secTokens, secRemoval, overtaken>>

SaveFails(c) ==
  /\ secCall[c].phase = "decided" /\ SecurityEvent
  /\ Continue(c, secCall[c].work, FALSE)
  /\ secLock' = [secLock EXCEPT ![StoreOf(Head(secCall[c].todo))] = NoClient]
  /\ UNCHANGED <<secFile, secCache, counter, sids, cookies, secCalls, secTokens, secGhosts, secRemoval,
                 overtaken, orphaned>>

\* setCache, and the mutex is released; the new session's cookie is signed.
Publish(c) ==
  /\ secCall[c].phase = "saved"
  /\ LET s == StoreOf(Head(secCall[c].todo))
     IN /\ secCache' = [secCache EXCEPT ![s] = secCall[c].work]
        /\ secLock' = [secLock EXCEPT ![s] = NoClient]
  /\ cookies' = IF Head(secCall[c].todo).op = "issue" THEN cookies \cup {sids} ELSE cookies
  /\ Continue(c, secCall[c].work, TRUE)
  /\ UNCHANGED <<secFile, counter, sids, secCalls, secEvents, secTokens, secGhosts, secRemoval, overtaken, orphaned>>

StepPasses ==
  /\ SecurityEvent
  /\ counter' = counter + 1
  /\ UNCHANGED <<secFile, secCache, secLock, secCall, sids, cookies, secCalls, secTokens, secGhosts,
                 secRemoval, overtaken, orphaned>>

----
\* Remove of service/user/service.go and CleanupRemovedUser, for what it
\* deletes here.  That one of its other parts fails shows as the user kept.

NoRemoval == [at |-> "none", failed |-> FALSE]
secRequests == <<secCache, secLock, secCall, counter, sids, cookies, secCalls, secTokens, accepted, overtaken>>

RemovalBegins ==
  /\ registered /\ removal = NoRemoval /\ removals < MaxRemovals /\ SecurityMove
  /\ removal' = [at |-> "twofactor", failed |-> FALSE] /\ removals' = removals + 1
  /\ UNCHANGED <<secRequests, secEvents, secFile, journal, owed, registered, orphaned, leftover>>

\* The sessions' record in use is gone with its file: what it was owed ends with it.
Forgotten(gone) == journal' = (IF gone THEN <<>> ELSE journal) /\ owed' = (owed /\ ~gone)

\* Delete of the raw store: no mutex of the account, and its cache stays.
Purge ==
  /\ removal.at \in SecurityStores
  /\ LET s == removal.at
         next == IF s = "twofactor" THEN "sessions" ELSE "row"
         live == BeingPublished(s) \/ secCache[s] \notin {Unread, NoRecord}
     IN \/ /\ secFile' = [secFile EXCEPT ![s] = NoRecord]
           /\ orphaned' = IF live THEN orphaned \cup {s} ELSE orphaned
           /\ Forgotten(s = "sessions" /\ ~live)
           /\ removal' = [at |-> next, failed |-> removal.failed] /\ UNCHANGED secEvents
        \/ /\ removal' = [at |-> next, failed |-> TRUE] /\ SecurityEvent
           /\ UNCHANGED <<secFile, orphaned, journal, owed>>
  /\ UNCHANGED <<secRequests, registered, removals, leftover>>

\* What outlives the removal of the row: live caches, and requests under way.
Outliving ==
  {s \in SecurityStores : secCache[s] \notin {Unread, NoRecord} \/ \E c \in SecurityClients : secCall[c].todo # <<>>}

\* A removal that goes on although a part of the cleanup failed.
RemoveRow_Slip ==
  /\ removal.at = "row" /\ removal' = NoRemoval
  /\ registered' = FALSE /\ leftover' = Outliving
  /\ UNCHANGED <<secRequests, secEvents, secFile, journal, owed, removals, orphaned>>

\* An error anywhere in the cleanup, or in repo.Remove, keeps the user.
RemoveRow ==
  /\ removal.at = "row" /\ removal' = NoRemoval
  /\ \/ ~removal.failed /\ registered' = FALSE /\ leftover' = Outliving /\ UNCHANGED secEvents
     \/ removal.failed /\ UNCHANGED <<registered, leftover, secEvents>>
     \/ SecurityEvent /\ UNCHANGED <<registered, leftover>>
  /\ UNCHANGED <<secRequests, secFile, journal, owed, removals, orphaned>>

\* The same address is invited again.
InviteAgain ==
  /\ ~registered /\ registered' = TRUE
  /\ UNCHANGED <<secRequests, secEvents, secFile, journal, owed, removal, removals, orphaned, leftover>>

\* The process restarts: tokens are signed and survive, caches and requests do not.
AuthRestart ==
  /\ SecurityEvent
  /\ secCache' = [s \in SecurityStores |-> Unread]
  /\ secLock' = [s \in SecurityStores |-> NoClient]
  /\ secCall' = [c \in SecurityClients |-> [todo |-> <<>>, phase |-> "idle", work |-> NoRecord]]
  /\ removal' = NoRemoval /\ orphaned' = {}
  /\ leftover' = {s \in leftover : secFile[s] # NoRecord}
  /\ Forgotten(secFile["sessions"] = NoRecord)
  /\ UNCHANGED <<secFile, counter, sids, cookies, secCalls, secTokens, accepted, registered, removals, overtaken>>

SecurityStep(c) ==
  \/ ReadCached(c) \/ ReadFile(c) \/ ReadFails(c) \/ FillCache(c) \/ Acquire(c) \/ LoadFails(c)
  \/ Save(c) \/ SaveFails(c) \/ Publish(c)

SecurityRequest(c) ==
  SignIn(c) \/ AnswerChallenge(c) \/ BeginEnrollment(c) \/ Confirm(c) \/ DisableTwoFactor(c)
    \/ RegenerateCodes(c) \/ UpdateSecurityPreferences(c) \/ SignOut(c) \/ Acknowledge(c)

SecurityNext ==
  \/ \E c \in SecurityClients : secCall[c].todo = <<>> /\ secCalls < MaxSecurityCalls /\ SecurityRequest(c)
  \/ \E c \in SecurityClients : secCall[c].todo # <<>> /\ SecurityStep(c)
  \/ RemovalBegins \/ Purge \/ RemoveRow \/ InviteAgain \/ StepPasses \/ AuthRestart

----
\* A mutex is held by exactly the request that is between its decision and its
\* answer, and a cache nobody is about to replace is the file's record, but where
\* a removal deleted the file beneath it.
SecurityTypeOK ==
  /\ \A s \in SecurityStores, c \in SecurityClients :
       secLock[s] = c <=> /\ secCall[c].phase \in {"decided", "saved"}
                          /\ StoreOf(Head(secCall[c].todo)) = s
  /\ \A s \in SecurityStores :
       overtaken \/ BeingPublished(s) \/ s \in orphaned \/ secCache[s] \in {Unread, secFile[s]}

\* A recovery code and a step of the authenticator sign in once under one
\* enrollment, however many challenges race, fail to save or are cut by a
\* restart or a removal (keyed_mutex.go:9-13).
CodesSpentOnce == overtaken \/ \A code \in DOMAIN accepted : accepted[code] = 1

\* The history the server goes by is exactly the newest sign-ins made while it was
\* on, and none is clobbered by a concurrent sign-in, change of preferences or
\* sign-out; a removal ends it with the file, or with the cache it left behind.
HistoryExact ==
  overtaken \/ OrUntracked(InUse("sessions")).entries =
    SubSeq(journal, 1, IF Len(journal) > HistoryLimit THEN HistoryLimit ELSE Len(journal))

\* The alert of a recovery-code sign-in stays until it is acknowledged (or the
\* second factor disabled), whatever else writes the record.
AlertKept == overtaken \/ OrUntracked(InUse("sessions")).alert = owed

\* A user who was removed stays without a record of the second factor and of
\* sessions, whatever the cookies and pending logins of the time before still do:
\* only a store whose cache held the record at the removal, or all of them when
\* a request was under way, may be written again, until a restart ends that for
\* every store that was not (user_removal_cleanup.go:59-68).
RemovalStands == registered \/ overtaken \/ \A s \in SecurityStores : secFile[s] = NoRecord \/ s \in leftover

SecurityInvariant == SecurityTypeOK /\ CodesSpentOnce /\ HistoryExact /\ AlertKept /\ RemovalStands

\* Not a property of the code: CleanupRemovedUser deletes the files beneath the
\* caches, and a sign-out with the cookie of the removed user (which logout does
\* not ask the directory about) or an answer to a pending challenge saves the
\* cached record again.
RemovalLeavesNothing == registered \/ \A s \in SecurityStores : secFile[s] = NoRecord

\* Not a property of the code: Enabled answers a read that fails with FALSE
\* (twofactor.go:97-103), and the sign-in goes on without the second factor.
SecondFactorAsked ==
  [][\A c \in SecurityClients :
       secCall[c].todo = <<Enabled([why |-> "login"])>> /\ secCall'[c].todo = <<IssueSession(FALSE)>>
       => overtaken' \/ InUse("twofactor") = NoRecord]_securityVars

\* Not a property of the code: a read that misses the cache takes no mutex, and
\* may fill it with the record a write has replaced since.
CacheNeverOvertaken == ~overtaken

\* Not a property of the code: UpdateSecurityPreferences reads the preferences
\* before the mutex that SetPreferences writes all of them under, so two changes
\* of different preferences may undo each other.
PreferencesMerged ==
  [][\A c \in SecurityClients :
       secCall[c].phase = "decided" /\ secCall'[c].phase = "saved"
         /\ Head(secCall[c].todo).op = "set"
       => Cardinality({f \in {"single", "history", "alertOn"} :
            OrUntracked(secFile["sessions"])[f] # OrUntracked(secFile'["sessions"])[f]}) <= 1]_securityVars

====
