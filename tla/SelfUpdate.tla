---- MODULE SelfUpdate ----
\* Self-update: service/selfupdate and integration/updatecli.
\*
\* Apply, in the server, launches an updater that outlives it: the updater
\* replaces the binary, restarts the server and reports its exit code in a
\* file.  What is known of a run after the restart is in run.json and
\* done.json.  A release is <<line, patch>>: only a change of line
\* converges the host.  Progress, logs and messages are left out.
EXTENDS Integers

CONSTANTS
  Releases,     \* the tags on origin, pairs <<line, patch>>
  FirstRelease, \* what is installed at first
  MaxUpdaters,  \* bound: how many updaters are launched
  NoUpdater     \* no such file

ASSUME SelfUpdateAssumption ==
  /\ Releases \subseteq Nat \X Nat /\ FirstRelease \in Nat \X Nat
  /\ MaxUpdaters \in Nat /\ NoUpdater \notin 1..MaxUpdaters

VARIABLES
  apply,      \* the Apply that holds s.mu
  serving,    \* s.currentVersion: the release whose binary runs
  record,     \* run.json: the updater, its target and its kind
  done,       \* done.json: whose exit code it holds, and whether that is 0
  updater,    \* updater[u]: phase, target and kind of a launched process
  host,       \* what the host holds: the binary, and the line it is converged to
  strays,     \* history: updaters whose record could not be written
  unfinished  \* history: the retry of a failed convergence was itself cut short

selfUpdateVars == <<apply, serving, record, done, updater, host, strays, unfinished>>

Updaters == 1..MaxUpdaters
Kinds == {"application", "infrastructure"}
NoApply == [at |-> "idle", target |-> FirstRelease, kind |-> "application", pid |-> NoUpdater]
NoRecord == [pid |-> NoUpdater, target |-> FirstRelease, kind |-> "application"]
NotDone == [pid |-> NoUpdater, ok |-> FALSE]

UpdateInit ==
  /\ apply = NoApply
  /\ serving = FirstRelease
  /\ record = NoRecord
  /\ done = NotDone
  /\ updater = [u \in Updaters |->
                 [phase |-> "none", target |-> FirstRelease, previous |-> FirstRelease,
                  kind |-> "application", ok |-> FALSE]]
  /\ host = [binary |-> FirstRelease, line |-> FirstRelease[1]]
  /\ strays = {}
  /\ unfinished = FALSE

ProcessAlive(u) == u # NoUpdater /\ updater[u].phase \in {"running", "reporting"}

\* status: the done marker wins, a live process is running, a dead one failed.
RunStatus ==
  IF record = NoRecord THEN "none"
  ELSE IF done # NotDone THEN (IF done.ok THEN "succeeded" ELSE "failed")
       ELSE IF ProcessAlive(record.pid) THEN "running" ELSE "failed"

ClassifyUpdate(current, target) ==
  IF current[1] = target[1] THEN "application" ELSE "infrastructure"

\* Mutant: the running binary decides.
KindFor_Slip(target) == ClassifyUpdate(serving, target)

\* A retry toward the target of a failed run keeps its kind.
KindFor(target) ==
  IF RunStatus = "failed" /\ record.target = target
  THEN record.kind ELSE ClassifyUpdate(serving, target)

Diverged == host.line # host.binary[1]

----
\* Apply, step by step: it holds the lock until it returns.

\* The previous run is looked at, then its files are removed.
Reset(target) ==
  /\ apply.at = "idle"
  /\ RunStatus # "running"
  /\ apply' = [at |-> "reset", target |-> target, kind |-> KindFor(target), pid |-> NoUpdater]
  /\ record' = NoRecord
  /\ done' = NotDone
  /\ unfinished' = (unfinished \/ (Diverged /\ ~(RunStatus = "failed" /\ record.target = target)))
  /\ UNCHANGED <<serving, updater, host, strays>>

\* Progress cannot be written or the process cannot be started.
LaunchFails ==
  /\ apply.at = "reset"
  /\ apply' = NoApply
  /\ unfinished' = (unfinished \/ Diverged)
  /\ UNCHANGED <<serving, record, done, updater, host, strays>>

StartUpdater(u) ==
  /\ apply.at = "reset"
  /\ updater[u].phase = "none" /\ \A v \in 1..(u - 1) : updater[v].phase # "none"
  /\ updater' = [updater EXCEPT ![u] =
       [phase |-> "running", target |-> apply.target, previous |-> host.binary,
        kind |-> apply.kind, ok |-> FALSE]]
  /\ apply' = [apply EXCEPT !.at = "launched", !.pid = u]
  /\ UNCHANGED <<serving, record, done, host, strays, unfinished>>

WriteRecord ==
  /\ apply.at = "launched"
  /\ record' = [pid |-> apply.pid, target |-> apply.target, kind |-> apply.kind]
  /\ apply' = NoApply
  /\ UNCHANGED <<serving, done, updater, host, strays, unfinished>>

\* run.json cannot be written: the updater goes on without a record.
RecordLost ==
  /\ apply.at = "launched"
  /\ apply' = NoApply
  /\ strays' = strays \cup {apply.pid}
  /\ UNCHANGED <<serving, record, done, updater, host, unfinished>>

\* The server dies, or is restarted by an updater, and serves the binary there is.
ServerStarts(binary) ==
  /\ serving' = binary
  /\ apply' = NoApply
  /\ strays' = IF apply.at = "launched" THEN strays \cup {apply.pid} ELSE strays
  /\ unfinished' = (unfinished \/ (apply.at # "idle" /\ Diverged))

ServerRestart ==
  /\ ServerStarts(host.binary)
  /\ UNCHANGED <<record, done, updater, host>>

----
\* The updater: deploy-app.sh or update.sh, then the exit code.

ReplaceBinary(u) ==
  /\ updater[u].phase = "running"
  /\ host.binary # updater[u].target
  /\ host' = [host EXCEPT !.binary = updater[u].target]
  /\ ServerStarts(updater[u].target)
  /\ UNCHANGED <<record, done, updater>>

\* The last step of the script; only update.sh converges the host.
Complete(u) ==
  /\ updater[u].phase = "running"
  /\ host.binary = updater[u].target
  /\ host' = IF updater[u].kind = "infrastructure"
             THEN [host EXCEPT !.line = updater[u].target[1]] ELSE host
  /\ updater' = [updater EXCEPT ![u].phase = "reporting", ![u].ok = TRUE]
  /\ UNCHANGED <<apply, serving, record, done, strays, unfinished>>

\* deploy-app.sh restores the previous binary when the new one is not healthy.
RollBack(u) ==
  /\ updater[u].phase = "running" /\ updater[u].kind = "application"
  /\ host.binary = updater[u].target
  /\ host' = [host EXCEPT !.binary = updater[u].previous]
  /\ updater' = [updater EXCEPT ![u].phase = "reporting"]
  /\ ServerStarts(updater[u].previous)
  /\ UNCHANGED <<record, done>>

ScriptFails(u) ==
  /\ updater[u].phase = "running"
  /\ updater' = [updater EXCEPT ![u].phase = "reporting"]
  /\ UNCHANGED <<apply, serving, record, done, host, strays, unfinished>>

WriteDone(u) ==
  /\ updater[u].phase = "reporting"
  /\ done' = [pid |-> u, ok |-> updater[u].ok]
  /\ updater' = [updater EXCEPT ![u].phase = "gone"]
  /\ UNCHANGED <<apply, serving, record, host, strays, unfinished>>

UpdaterKilled(u) ==
  /\ ProcessAlive(u)
  /\ updater' = [updater EXCEPT ![u].phase = "gone"]
  /\ UNCHANGED <<apply, serving, record, done, host, strays, unfinished>>

----
UpdateNext ==
  \/ \E target \in Releases : Reset(target)
  \/ LaunchFails \/ WriteRecord \/ RecordLost \/ ServerRestart
  \/ \E u \in Updaters : \/ StartUpdater(u) \/ ReplaceBinary(u) \/ RollBack(u) \/ Complete(u)
                         \/ ScriptFails(u) \/ WriteDone(u) \/ UpdaterKilled(u)

\* A script ends, and its wrapper reports.
UpdateFairness ==
  \A u \in Updaters :
    /\ WF_selfUpdateVars(Complete(u) \/ RollBack(u) \/ ScriptFails(u) \/ UpdaterKilled(u))
    /\ WF_selfUpdateVars(WriteDone(u) \/ UpdaterKilled(u))

----
\* Properties

UpdateTypeOK ==
  /\ apply.at \in {"idle", "reset", "launched"} /\ apply.kind \in Kinds
  /\ apply.pid \in Updaters \cup {NoUpdater}
  /\ record.pid \in Updaters \cup {NoUpdater} /\ record.kind \in Kinds
  /\ done.pid \in Updaters \cup {NoUpdater} /\ done.ok \in BOOLEAN
  /\ \A u \in Updaters : updater[u].phase \in {"none", "running", "reporting", "gone"}
  /\ host.line \in {release[1] : release \in Releases \cup {FirstRelease}}
  /\ strays \subseteq Updaters /\ unfinished \in BOOLEAN

\* An updater that is alive is the one on record, or Apply is about to write that
\* record, across restarts of the server and updaters that are killed: no two
\* change the host at once, unless run.json could not be written.
UpdaterTracked ==
  strays = {} => \A u \in Updaters : ProcessAlive(u) =>
    record.pid = u \/ (apply.at = "launched" /\ apply.pid = u)

\* The outcome that is shown is that of the run that is shown.
OutcomeIsItsOwn ==
  done # NotDone /\ record # NoRecord /\ strays = {} => done.pid = record.pid

\* An update that is reported as a success left the host converged to the line of
\* the release, also when an earlier attempt replaced the binary and failed: the
\* retry is not taken for an application update.  (Excused are a run toward
\* another release or an attempt that lost the earlier record, see README.)
SuccessConverged ==
  RunStatus = "succeeded" /\ strays = {} /\ ~unfinished => host.line = record.target[1]

UpdateInvariant == UpdateTypeOK /\ UpdaterTracked /\ OutcomeIsItsOwn /\ SuccessConverged

\* A run that is shown as running comes to an end.
UpdateEnds == RunStatus = "running" ~> RunStatus # "running"

\* Single-flight (service.go, Apply): no updater is launched while one is alive.
SingleFlight ==
  [][\A u, v \in Updaters : ProcessAlive(u) /\ updater[v].phase = "none"
       => updater'[v].phase = "none"]_selfUpdateVars
====
