---- MODULE AgentSignIn ----
\* The two ways to sign an agent provider in with a command line of its
\* own: DeviceService of service/agent/auth/device.go with the status
\* stream of transport/ws/agent_auth_socket.go, and CodeService of
\* service/agent/auth/code.go. They share nothing.
EXTENDS Integers, Sequences, FiniteSets

----
\* Sign-in by device.
\*
\* A login is a command line process.  Processes are numbered in the order
\* they are started; several may exist at once, because a login that was
\* cancelled takes its time to die and its goroutine reports later.
\* Codes and addresses are abstracted to the number of the process that
\* printed them; the wording of errors is left out.


CONSTANTS
  MaxLogins,    \* bound: how many processes are started
  MaxInstant,   \* bound of the clock
  LoginTTL,     \* how long a code is shown as usable
  LoginTimeout, \* how long a process may run
  Watchers,     \* pages that watch the status
  FeedBuffer    \* capacity of a status subscription

ASSUME DeviceLoginAssumption ==
  /\ MaxLogins \in Nat /\ MaxInstant \in Nat /\ FeedBuffer \in Nat \ {0}
  /\ LoginTTL \in Nat \ {0} /\ LoginTimeout \in Nat \ {0}

VARIABLES
  device,     \* DeviceState: what is shown of the login
  canceller,  \* s.cancel: the process it cancels, 0 for nil
  process,    \* process[p]: phase, cancelled, when it started, its output
  credential, \* the provider's credential file exists on the host
  instant,    \* the clock
  owed,       \* starts whose Broadcast follows the unlock
  feed,       \* feed[w]: the subscription of a watcher
  pending,    \* pending[w]: statuses in its channel
  watched        \* watched[w]: what the page shows

deviceVars == <<device, canceller, process, credential, instant, owed, feed, pending, watched>>
feedVars == <<feed, pending, watched>>

Logins == 1..MaxLogins
NoState == [active |-> FALSE, expires |-> 0, code |-> 0, completed |-> FALSE, failed |-> FALSE]
FailedLogin == [NoState EXCEPT !.failed = TRUE]

DeviceInit ==
  /\ device = NoState
  /\ canceller = 0
  /\ process = [p \in Logins |->
                 [phase |-> "none", cancelled |-> FALSE, since |-> 0, output |-> "none"]]
  /\ credential = FALSE
  /\ instant = 0
  /\ owed = 0
  /\ feed = [w \in Watchers |-> "none"]
  /\ pending = [w \in Watchers |-> 0]
  /\ watched = [w \in Watchers |-> NoState]

\* What is in the channels is abstracted to its length: the stream of
\* normalized snapshots takes a status as a notice and reads the state anew.
\* A full channel is closed; a watcher that was about to send its first status
\* into it loses the connection.
BroadcastLocked ==
  LET full(w) == pending[w] >= FeedBuffer
  IN /\ feed' = [w \in Watchers |->
                  CASE feed[w] = "subscribing" /\ full(w) -> "none"
                    [] feed[w] = "live" /\ full(w) -> "closed"
                    [] OTHER -> feed[w]]
     /\ pending' = [w \in Watchers |->
                     IF feed[w] \in {"subscribing", "live"} /\ ~full(w)
                     THEN pending[w] + 1 ELSE pending[w]]
     /\ UNCHANGED watched

\* cancel of the context of process p; 0 is nil.
Cancelled(p) == [q \in Logins |-> [process[q] EXCEPT !.cancelled = @ \/ q = p]]

\* An active login that has not expired is returned as it is.
LoginReused == device.active /\ instant < device.expires

\* Mutant: the previous process is left alone.
StartDeviceLogin_Slip(p) ==
  /\ process[p].phase = "none"
  /\ \A q \in Logins : q < p => process[q].phase # "none"
  /\ ~LoginReused
  /\ process' = [process EXCEPT ![p].phase = "running", ![p].since = instant]
  /\ device' = [NoState EXCEPT !.active = TRUE, !.expires = instant + LoginTTL]
  /\ canceller' = p
  /\ owed' = owed + 1
  /\ UNCHANGED <<credential, instant, feedVars>>

\* Under the lock: the previous process is cancelled, the new one started and
\* shown.  The broadcast follows the unlock.
StartDeviceLogin(p) ==
  /\ process[p].phase = "none"
  /\ \A q \in Logins : q < p => process[q].phase # "none"
  /\ ~LoginReused
  /\ process' = [Cancelled(canceller) EXCEPT ![p].phase = "running", ![p].since = instant]
  /\ device' = [NoState EXCEPT !.active = TRUE, !.expires = instant + LoginTTL]
  /\ canceller' = p
  /\ owed' = owed + 1
  /\ UNCHANGED <<credential, instant, feedVars>>

\* Mutant: nobody is told.
StartFails_Slip ==
  /\ ~LoginReused
  /\ device # FailedLogin
  /\ process' = Cancelled(canceller)
  /\ canceller' = 0
  /\ device' = FailedLogin
  /\ UNCHANGED <<credential, instant, owed, feedVars>>

\* The command cannot be started.
StartFails ==
  /\ ~LoginReused
  /\ device # FailedLogin
  /\ process' = Cancelled(canceller)
  /\ canceller' = 0
  /\ device' = FailedLogin
  /\ BroadcastLocked
  /\ UNCHANGED <<credential, instant, owed>>

BroadcastStart ==
  /\ owed > 0
  /\ owed' = owed - 1
  /\ BroadcastLocked
  /\ UNCHANGED <<device, canceller, process, credential, instant>>

\* The provider's command prints address and code into the pipe.
PrintCode(p) ==
  /\ process[p].phase = "running" /\ process[p].output = "none"
  /\ process' = [process EXCEPT ![p].output = "printed"]
  /\ UNCHANGED <<device, canceller, credential, instant, owed, feedVars>>

\* The scanner of process p takes the line into the state, whoever's it is.
ConsumeDeviceLoginOutput(p) ==
  /\ process[p].output = "printed"
  /\ process' = [process EXCEPT ![p].output = "taken"]
  /\ device' = [device EXCEPT !.code = p,
                              !.expires = IF @ = 0 THEN instant + LoginTTL ELSE @]
  /\ BroadcastLocked
  /\ UNCHANGED <<canceller, credential, instant, owed>>

\* The process is over: signed in, or given up, or killed.
ProcessExits(p) ==
  /\ process[p].phase = "running"
  /\ process' = [process EXCEPT ![p].phase = "exited"]
  /\ credential' \in {credential, TRUE}
  /\ UNCHANGED <<device, canceller, instant, owed, feedVars>>

\* The goroutine that waited for p cancels and reports, whatever was started
\* since.
FinishDeviceLogin(p) ==
  /\ process[p].phase = "exited"
  /\ process' = [Cancelled(canceller) EXCEPT ![p].phase = "over"]
  /\ canceller' = 0
  /\ device' = [device EXCEPT !.active = FALSE, !.completed = credential,
                              !.failed = ~credential]
  /\ BroadcastLocked
  /\ UNCHANGED <<credential, instant, owed>>

\* A process that has reached its time limit is killed before the clock goes on.
InstantPasses ==
  /\ instant < MaxInstant
  /\ instant' = instant + 1
  /\ process' = [p \in Logins |->
                  [process[p] EXCEPT !.cancelled =
                     @ \/ (process[p].phase = "running"
                           /\ instant + 1 >= process[p].since + LoginTimeout)]]
  /\ UNCHANGED <<device, canceller, credential, owed, feedVars>>

----
\* The status stream.

\* Registered under the lock; the first status is sent after the unlock.
Subscribe(w) ==
  /\ feed[w] = "none"
  /\ feed' = [feed EXCEPT ![w] = "subscribing"]
  /\ pending' = [pending EXCEPT ![w] = 0]
  /\ UNCHANGED <<device, canceller, process, credential, instant, owed, watched>>

SendFirst(w) ==
  /\ feed[w] = "subscribing" /\ pending[w] < FeedBuffer
  /\ feed' = [feed EXCEPT ![w] = "live"]
  /\ pending' = [pending EXCEPT ![w] = @ + 1]
  /\ UNCHANGED <<device, canceller, process, credential, instant, owed, watched>>

\* A status is taken from the channel and the state at that moment is written.
\* A closed channel is drained first, like any Go channel.
Deliver(w) ==
  /\ feed[w] \in {"live", "closed"} /\ pending[w] > 0
  /\ pending' = [pending EXCEPT ![w] = @ - 1]
  /\ watched' = [watched EXCEPT ![w] = device]
  /\ UNCHANGED <<device, canceller, process, credential, instant, owed, feed>>

\* The socket of a closed subscription ends, or the page goes: it may come back.
Disconnect(w) ==
  /\ \/ feed[w] = "live"
     \/ feed[w] = "closed" /\ pending[w] = 0
  /\ feed' = [feed EXCEPT ![w] = "none"]
  /\ pending' = [pending EXCEPT ![w] = 0]
  /\ UNCHANGED <<device, canceller, process, credential, instant, owed, watched>>

----
DeviceNext ==
  \/ \E p \in Logins : \/ StartDeviceLogin(p) \/ PrintCode(p)
                       \/ ConsumeDeviceLoginOutput(p) \/ ProcessExits(p)
                       \/ FinishDeviceLogin(p)
  \/ StartFails \/ BroadcastStart \/ InstantPasses
  \/ \E w \in Watchers : Subscribe(w) \/ SendFirst(w) \/ Deliver(w) \/ Disconnect(w)

\* Processes end (each has a time limit), goroutines run.
DeviceFairness ==
  /\ \A p \in Logins : /\ WF_deviceVars(ProcessExits(p))
                       /\ WF_deviceVars(FinishDeviceLogin(p))
  /\ WF_deviceVars(BroadcastStart)

----
\* Properties

LoginRunning(p) == process[p].phase = "running"

\* A started process that nobody has told to end.
Wanted(p) == LoginRunning(p) /\ ~process[p].cancelled

DeviceTypeOK ==
  /\ device \in [active : BOOLEAN, expires : 0..(MaxInstant + LoginTTL),
                 code : 0..MaxLogins, completed : BOOLEAN, failed : BOOLEAN]
  /\ canceller \in 0..MaxLogins
  /\ process \in [Logins -> [phase : {"none", "running", "exited", "over"},
                             cancelled : BOOLEAN, since : 0..MaxInstant,
                             output : {"none", "printed", "taken"}]]
  /\ credential \in BOOLEAN
  /\ instant \in 0..MaxInstant
  /\ owed \in 0..MaxLogins
  /\ feed \in [Watchers -> {"none", "subscribing", "live", "closed"}]
  /\ pending \in [Watchers -> 0..FeedBuffer]
  /\ watched \in [Watchers -> [active : BOOLEAN, expires : 0..(MaxInstant + LoginTTL),
                            code : 0..MaxLogins, completed : BOOLEAN, failed : BOOLEAN]]

\* No two sign-ins of a provider go on at once: of all processes at most one has
\* not been told to end, and s.cancel is the one that ends it.  Restarts after
\* an expiry, late reports and failed starts in any order must not lose it.
OneLoginWanted ==
  \A p \in Logins : Wanted(p) => canceller = p

\* A page whose subscription is live and holds nothing more shows the current
\* login, unless a start has yet to broadcast: no change of the state is made
\* without a status for every subscriber, the one still subscribing included.
FeedCurrent ==
  \A w \in Watchers :
    feed[w] = "live" /\ pending[w] = 0 /\ owed = 0 => watched[w] = device

DeviceInvariant == DeviceTypeOK /\ OneLoginWanted

\* A login that is shown as under way is settled: its process ends, and the end
\* is reported.
LoginSettles == device.active ~> ~device.active

\* DeviceService owns one login process (device.go:55): a login that is shown
\* as usable is not cancelled by the end of another.
LoginUndisturbed ==
  [][\A p \in Logins : Wanted(p) /\ process'[p].cancelled
                         => ~LoginReused \/ instant' # instant]_deviceVars

----
\* Sign-in by code.
\*
\* Start, SubmitCode and Cancel run in the goroutines of HTTP requests,
\* which wait for the command line process without the lock and take it
\* again for each change of the session and of the shown state.  Error
\* texts are one value; the terminal's output is reduced to the address.


CONSTANTS
  MaxSessions,  \* bound: how many processes are started
  Admins,       \* requests that may be under way at once
  NoSession     \* s.session = nil

ASSUME CodeLoginAssumption == MaxSessions \in Nat /\ NoSession \notin 1..MaxSessions

VARIABLES
  session,     \* s.session
  loginState,  \* s.state: what is shown
  cli,         \* cli[s]: the process of a session
  call,        \* call[a]: where a request is, the session it holds, what it reports
  hostLogin    \* the credential file exists

codeVars == <<session, loginState, cli, call, hostLogin>>

Sessions == 1..MaxSessions
Shown == {"none", "active", "awaiting", "error", "completed"}
Idle == [at |-> "idle", holds |-> NoSession, report |-> "none"]
Reporting(report) == [at |-> "report", holds |-> NoSession, report |-> report]
Waiting(at, s) == [at |-> at, holds |-> s, report |-> "none"]

CodeInit ==
  /\ session = NoSession
  /\ loginState = "none"
  /\ cli = [s \in Sessions |->
             [phase |-> "none", cancelled |-> FALSE, url |-> FALSE, code |-> FALSE, failed |-> FALSE]]
  /\ call = [a \in Admins |-> Idle]
  /\ hostLogin = FALSE

Alive(s) == s # NoSession /\ cli[s].phase = "running"
Exited(s) == cli[s].phase = "exited"
CancelCli(s) == [cli EXCEPT ![s].cancelled = TRUE]

\* clear: only the session the caller holds.
ClearSession(s) == session' = IF session = s THEN NoSession ELSE session

----
\* A live session is resumed and nothing changes; otherwise a process is started
\* under the lock.
StartCode(a, s) ==
  /\ call[a] = Idle
  /\ ~Alive(session)
  /\ cli[s].phase = "none"
  /\ \A t \in Sessions : t < s => cli[t].phase # "none"
  /\ session' = s
  /\ cli' = [cli EXCEPT ![s].phase = "running"]
  /\ loginState' = "active"
  /\ call' = [call EXCEPT ![a] = Waiting("starting", s)]
  /\ UNCHANGED hostLogin

\* The command is missing or its terminal cannot be opened.
StartCodeFails(a) ==
  /\ call[a] = Idle
  /\ ~Alive(session)
  /\ session' = NoSession
  /\ loginState' = "error"
  /\ UNCHANGED <<cli, call, hostLogin>>

\* The select of Start: the address came.
StartFound(a) ==
  LET s == call[a].holds
  IN /\ call[a].at = "starting"
     /\ cli[s].url
     /\ call' = [call EXCEPT ![a] = Reporting("awaiting")]
     /\ UNCHANGED <<session, loginState, cli, hostLogin>>

\* Mutant: the session is forgotten and its process lives on.
StartGivesUp_Slip(a) ==
  LET s == call[a].holds
  IN /\ call[a].at = "starting"
     /\ ClearSession(s)
     /\ call' = [call EXCEPT ![a] = Reporting("error")]
     /\ UNCHANGED <<loginState, cli, hostLogin>>

\* The select of Start: the wait for the address is over or the browser has gone.
StartGivesUp(a) ==
  LET s == call[a].holds
  IN /\ call[a].at = "starting"
     /\ cli' = CancelCli(s)
     /\ ClearSession(s)
     /\ call' = [call EXCEPT ![a] = Reporting("error")]
     /\ UNCHANGED <<loginState, hostLogin>>

\* The select of Start: the process ended.
StartExited(a) ==
  LET s == call[a].holds
  IN /\ call[a].at = "starting"
     /\ Exited(s)
     /\ ClearSession(s)
     /\ call' = [call EXCEPT ![a] = Reporting("error")]
     /\ UNCHANGED <<loginState, cli, hostLogin>>

\* The code is written to the terminal, which is closed once the process ended.
SubmitCode(a) ==
  /\ call[a] = Idle
  /\ session # NoSession
  /\ \/ /\ Alive(session)
        /\ cli' = [cli EXCEPT ![session].code = TRUE]
        /\ call' = [call EXCEPT ![a] = Waiting("submitting", session)]
     \/ /\ Exited(session)
        /\ call' = [call EXCEPT ![a] = Reporting("error")]
        /\ UNCHANGED cli
  /\ UNCHANGED <<session, loginState, hostLogin>>

SubmitOutcome(s) ==
  IF cli[s].failed \/ ~hostLogin THEN "error" ELSE "completed"

SubmitDone(a) ==
  LET s == call[a].holds
  IN /\ call[a].at = "submitting"
     /\ Exited(s)
     /\ ClearSession(s)
     /\ call' = [call EXCEPT ![a] = Reporting(SubmitOutcome(s))]
     /\ UNCHANGED <<loginState, cli, hostLogin>>

\* ExitTimeout: the process is cancelled and waited for.
SubmitTimesOut(a) ==
  LET s == call[a].holds
  IN /\ call[a].at = "submitting"
     /\ cli' = CancelCli(s)
     /\ call' = [call EXCEPT ![a].at = "reaping"]
     /\ UNCHANGED <<session, loginState, hostLogin>>

SubmitReaped(a) ==
  LET s == call[a].holds
  IN /\ call[a].at = "reaping"
     /\ Exited(s)
     /\ ClearSession(s)
     /\ call' = [call EXCEPT ![a] = Reporting("error")]
     /\ UNCHANGED <<loginState, cli, hostLogin>>

CancelCode(a) ==
  /\ call[a] = Idle
  /\ session # NoSession
  /\ cli' = CancelCli(session)
  /\ call' = [call EXCEPT ![a] = Waiting("cancelling", session)]
  /\ UNCHANGED <<session, loginState, hostLogin>>

CancelDone(a) ==
  LET s == call[a].holds
  IN /\ call[a].at = "cancelling"
     /\ Exited(s)
     /\ ClearSession(s)
     /\ call' = [call EXCEPT ![a] = Reporting("none")]
     /\ UNCHANGED <<loginState, cli, hostLogin>>

\* setState and the answer.
Report(a) ==
  /\ call[a].at = "report"
  /\ loginState' = call[a].report
  /\ call' = [call EXCEPT ![a] = Idle]
  /\ UNCHANGED <<session, cli, hostLogin>>

\* The browser of a waiting request goes: the request ends and the process stays.
Leave(a) ==
  /\ call[a].at \in {"submitting", "cancelling"}
  /\ call' = [call EXCEPT ![a] = Idle]
  /\ UNCHANGED <<session, loginState, cli, hostLogin>>

----
\* The command line process.
PrintUrl(s) ==
  /\ cli[s].phase = "running" /\ ~cli[s].url
  /\ cli' = [cli EXCEPT ![s].url = TRUE]
  /\ UNCHANGED <<session, loginState, call, hostLogin>>

\* It ends by itself, at its time limit or killed; credentials need a code.
CliExits(s) ==
  /\ cli[s].phase = "running"
  /\ \E failed \in BOOLEAN :
       /\ cli' = [cli EXCEPT ![s].phase = "exited", ![s].failed = failed]
       /\ hostLogin' \in {hostLogin} \cup (IF cli[s].code THEN {TRUE} ELSE {})
  /\ UNCHANGED <<session, loginState, call>>

CodeNext ==
  \/ \E a \in Admins :
       \/ \E s \in Sessions : StartCode(a, s)
       \/ StartCodeFails(a) \/ StartFound(a) \/ StartGivesUp(a) \/ StartExited(a)
       \/ SubmitCode(a) \/ SubmitDone(a) \/ SubmitTimesOut(a) \/ SubmitReaped(a)
       \/ CancelCode(a) \/ CancelDone(a) \/ Report(a) \/ Leave(a)
  \/ \E s \in Sessions : PrintUrl(s) \/ CliExits(s)

\* Requests go on; a process ends, at the latest at its time limit.
CodeFairness ==
  /\ \A a \in Admins :
       /\ WF_codeVars(StartFound(a) \/ StartGivesUp(a) \/ StartExited(a))
       /\ WF_codeVars(SubmitDone(a)) /\ WF_codeVars(SubmitReaped(a))
       /\ WF_codeVars(CancelDone(a)) /\ WF_codeVars(Report(a))
  /\ \A s \in Sessions : WF_codeVars(CliExits(s))

----
\* Properties

CodeTypeOK ==
  /\ session \in Sessions \cup {NoSession}
  /\ loginState \in Shown
  /\ cli \in [Sessions -> [phase : {"none", "running", "exited"}, cancelled : BOOLEAN,
                           url : BOOLEAN, code : BOOLEAN, failed : BOOLEAN]]
  /\ call \in [Admins -> [at : {"idle", "starting", "submitting", "reaping",
                                "cancelling", "report"},
                          holds : Sessions \cup {NoSession}, report : Shown]]
  /\ hostLogin \in BOOLEAN

\* A process that nobody has told to end is the session: whatever requests
\* overlap, none is left behind that SubmitCode and Cancel cannot reach, and no
\* two sign-ins go on at once.
NoOrphan ==
  \A s \in Sessions : cli[s].phase = "running" /\ ~cli[s].cancelled => session = s

CodeInvariant == CodeTypeOK /\ NoOrphan

\* Every request is answered.
CallsReturn == \A a \in Admins : call[a] # Idle ~> call[a] = Idle
====
