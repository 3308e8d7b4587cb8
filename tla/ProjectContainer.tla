---- MODULE ProjectContainer ----
\* The container of one project: the run-state operations of
\* service/project/service.go, the convergence Ensure of
\* service/container/lifecycle/service.go, command by command, and the LXD
\* instance those commands act on.
\*
\* Every LXD command may succeed, fail, or fail although it took effect (a
\* cancelled client).  The server may die between any two steps.  The
\* files under a durable mount are abstracted to a version number, 0 when
\* there are none: `host` is the host directory, `inside` what lies at the
\* same path in the instance's own file system, `latest` what an agent
\* wrote last.  Limits, profiles and secrets are left out; a failure to
\* apply them is a failure of the step they belong to.
EXTENDS Naturals, FiniteSets

CONSTANTS
  Requests,    \* requests that may be under way at once
  Mounts,      \* durable mounts of the project
  Migrated,    \* those with migrateExisting: the agents' homes
  NoRequest,   \* the run-state lock is free
  MaxFaults,   \* bound: failing commands, deaths of the server, outside changes
  MaxWrites    \* bound: versions of the files under a mount

ASSUME ProjectContainerAssumption ==
  /\ Migrated \subseteq Mounts /\ NoRequest \notin Requests
  /\ MaxFaults \in Nat /\ MaxWrites \in Nat

VARIABLES
  status,    \* Meta.Status; "none" before Create, "deleted" after Delete
  holder,    \* who owns the run-state lock
  instance,  \* the LXD instance
  host,      \* host[m]: version in the host directory
  latest,    \* latest[m]: version last written by an agent
  request,   \* request[r]
  faults,    \* faults so far
  excuses    \* what happened that a property makes an exception for: "overlap" of an
             \* operation with the creation, a failed "rollback", a change from
             \* "outside" that the record does not show yet

containerVars == <<status, holder, instance, host, latest, request, faults, excuses>>

Ops == {"prompt", "upgrade", "upgradeBusy", "stop", "restart", "delete", "create"}
Nothing == [m \in Mounts |-> 0]

Missing == [state |-> "missing", attached |-> {}, mounted |-> {}, inside |-> Nothing]
Idle == [op |-> "none", at |-> "idle", first |-> FALSE, created |-> FALSE, state |-> "none",
         changes |-> {}, result |-> "none", clean |-> FALSE]

----
\* The instance.

Exists == instance.state # "missing"
Inited == [Missing EXCEPT !.state = "stopped"]
Booted == [instance EXCEPT !.state = "running", !.mounted = instance.attached]
\* Start leaves a running instance as it is, Restart boots it anew.
Started == IF instance.state = "running" THEN instance ELSE Booted
Halted == IF Exists THEN [instance EXCEPT !.state = "stopped", !.mounted = {}] ELSE instance
WithDisk(m) == [instance EXCEPT !.attached = @ \cup {m},
                                !.mounted = IF instance.state = "running" THEN @ \cup {m} ELSE @]

\* pgrep: an agent runs in the instance.
Busy == \E r \in Requests : request[r].at = "exec"

\* The processes in an instance die with it.
WithoutAgents(q) == [r \in Requests |-> IF q[r].at = "exec" THEN Idle ELSE q[r]]

Fault == faults < MaxFaults /\ faults' = faults + 1

Put(r, q) == request' = [request EXCEPT ![r] = q]

\* An LXD command of request r: whether LXD can do it, its effect, whether it
\* kills the processes inside, and where the request is afterwards.
Lxc(r, possible, effect, kills, done, failed) ==
  LET others == IF kills THEN WithoutAgents(request) ELSE request
  IN /\ \/ /\ possible
           /\ instance' = effect
           /\ request' = [others EXCEPT ![r] = done]
           /\ UNCHANGED faults
        \/ /\ ~possible
           /\ Put(r, failed)
           /\ UNCHANGED <<instance, faults>>
        \/ /\ possible /\ Fault
           /\ \/ instance' = instance /\ Put(r, failed)
              \/ instance' = effect /\ request' = [others EXCEPT ![r] = failed]
     /\ UNCHANGED <<status, holder, host>>

Command(r, possible, effect, kills, done, failed) ==
  Lxc(r, possible, effect, kills, done, failed) /\ UNCHANGED <<latest, excuses>>

\* A step that only asks or decides.
Goto(r, q) ==
  /\ Put(r, q)
  /\ UNCHANGED <<status, holder, instance, host, latest, faults, excuses>>

\* A question that gets no answer.
Unanswered(r, q) ==
  /\ Fault
  /\ Put(r, q)
  /\ UNCHANGED <<status, holder, instance, host, latest, excuses>>

At(r, at) == [request[r] EXCEPT !.at = at]
Knowing(r, at, state) == [request[r] EXCEPT !.at = at, !.state = state]
Ending(r, result) == [request[r] EXCEPT !.at = "settling", !.result = result]

\* launchError: a new instance is rolled back.
Failing(r) == IF request[r].created THEN At(r, "rollingBack") ELSE Ending(r, "error")

----
\* Ensure.

Query(r) ==
  /\ request[r].at = "query"
  /\ \/ Unanswered(r, Ending(r, "error"))
     \/ Goto(r, IF Exists
                THEN [Knowing(r, "mounts", instance.state) EXCEPT !.created = FALSE]
                ELSE [At(r, "init") EXCEPT !.created = TRUE])

\* An instance that appeared since the query makes the command fail.
InitInstance(r) ==
  /\ request[r].at = "init"
  /\ Command(r, ~Exists, Inited, FALSE, Knowing(r, "mounts", "stopped"), At(r, "rollingBack"))

\* A slip: only the agents' mounts are compared.
MountChanges_Slip == Migrated \ instance.attached

MountChanges == Mounts \ instance.attached

\* mountChanges, and the check that an existing instance may be stopped.
ListMounts(r) ==
  /\ request[r].at = "mounts"
  /\ \/ Unanswered(r, Failing(r))
     \/ LET changed(at) == [request[r] EXCEPT !.at = at, !.changes = MountChanges]
        IN Goto(r, CASE ~Exists -> Failing(r)
                     [] Exists /\ MountChanges = {} -> changed("boot")
                     [] Exists /\ MountChanges # {} /\ request[r].created -> changed("attach")
                     [] Exists /\ MountChanges # {} /\ ~request[r].created ->
                          IF Busy THEN Ending(r, "barred") ELSE changed("wake"))

\* An existing instance is started so that its files can be copied out.
Wake(r) ==
  /\ request[r].at = "wake"
  /\ CASE request[r].state = "frozen" ->
            Command(r, Exists, Booted, TRUE, Knowing(r, "migrate", "running"), Ending(r, "error"))
       [] request[r].state = "stopped" ->
            Command(r, Exists, Started, FALSE, Knowing(r, "migrate", "running"), Ending(r, "error"))
       [] request[r].state = "running" -> Goto(r, At(r, "migrate"))

\* What a copy out of the instance finds at the path of m.
Visible(m) == IF m \in instance.mounted THEN host[m] ELSE instance.inside[m]

\* A slip: the test for an empty directory is inverted.
ToMigrate_Slip(r) == {m \in request[r].changes \cap Migrated : host[m] # 0 /\ host[m] < Visible(m)}

\* A host directory with files in it is kept.
ToMigrate(r) == {m \in request[r].changes \cap Migrated : host[m] = 0 /\ Visible(m) # 0}

\* The files are copied to a staging directory, which then replaces the empty
\* host directory by a rename: dying or failing in between leaves it empty.
MigratePersistentState(r) ==
  /\ request[r].at = "migrate"
  /\ \/ /\ ToMigrate(r) = {}
        /\ Goto(r, At(r, "halt"))
     \/ \E m \in ToMigrate(r) :
          /\ host' = [host EXCEPT ![m] = Visible(m)]
          /\ UNCHANGED <<status, holder, instance, latest, request, faults, excuses>>
     \/ ToMigrate(r) # {} /\ Unanswered(r, Ending(r, "error"))

Halt(r) ==
  /\ request[r].at = "halt"
  /\ Command(r, TRUE, Halted, TRUE, Knowing(r, "attach", "stopped"), Failing(r))

\* RemoveDevice of a disk with another source, and AttachDisk, for one device.
AttachDisk(r) ==
  /\ request[r].at = "attach"
  /\ \E m \in request[r].changes :
       LET left == request[r].changes \ {m}
       IN Command(r, Exists, WithDisk(m), FALSE,
                  [request[r] EXCEPT !.changes = left, !.at = IF left = {} THEN "boot" ELSE @],
                  Failing(r))

\* A slip: a frozen instance is taken for a running one.
Boot_Slip(r) ==
  /\ request[r].at = "boot"
  /\ IF request[r].state = "stopped"
     THEN Command(r, Exists, Started, FALSE, At(r, "verify"), Failing(r))
     ELSE Command(r, Exists, instance, FALSE, At(r, "verify"), Failing(r))

\* Limits, boot.autostart, and Start or Restart.
Boot(r) ==
  /\ request[r].at = "boot"
  /\ CASE request[r].state = "frozen" ->
            Command(r, Exists, Booted, TRUE, At(r, "verify"), Failing(r))
       [] request[r].state = "stopped" ->
            Command(r, Exists, Started, FALSE, At(r, "verify"), Failing(r))
       [] request[r].state = "running" ->
            Command(r, Exists, instance, FALSE, At(r, "verify"), Failing(r))

\* A slip: the configuration is trusted.
VerifyMounts_Slip(r) ==
  /\ request[r].at \in {"verify", "verifyAgain"}
  /\ Goto(r, IF request[r].first THEN At(r, "replace") ELSE Ending(r, "ok"))

\* verifyMounts; a stale instance is restarted once.
VerifyMounts(r) ==
  LET verified == IF request[r].first THEN At(r, "replace") ELSE Ending(r, "ok")
      unverified == CASE request[r].created \/ request[r].at = "verifyAgain" -> Failing(r)
                      [] OTHER -> IF Busy THEN Ending(r, "barred") ELSE At(r, "reactivate")
  IN /\ request[r].at \in {"verify", "verifyAgain"}
     /\ \/ Goto(r, IF instance.mounted = Mounts THEN verified ELSE unverified)
        \/ Unanswered(r, unverified)

Reactivate(r) ==
  /\ request[r].at = "reactivate"
  /\ Command(r, Exists, Booted, TRUE, At(r, "verifyAgain"), Ending(r, "error"))

\* The deletion outlives a request that was cancelled.
RollbackNewContainer(r) ==
  /\ request[r].at = "rollingBack"
  /\ Lxc(r, TRUE, Missing, TRUE, Ending(r, "error"), Ending(r, "error"))
  /\ excuses' = IF instance'.state = "missing" THEN excuses ELSE excuses \cup {"rollback"}
  /\ UNCHANGED latest

----
\* The operations of the project.

\* A request takes the lock and reads the record.  One that waits for the lock,
\* or finds no record, has done nothing yet.
Begin(r, op) ==
  /\ request[r] = Idle
  /\ holder = NoRequest
  /\ status \notin {"none", "deleted"}
  /\ op \in Ops \ {"create"}
  /\ holder' = r
  /\ excuses' = IF \E c \in Requests : request[c].op = "create"
                THEN excuses \cup {"overlap"} ELSE excuses
  /\ Put(r, [Idle EXCEPT !.op = op,
                         !.clean = faults = MaxFaults,
                         !.at = CASE op \in {"prompt", "upgrade", "upgradeBusy", "restart"} -> "state"
                                  [] op = "stop" -> "stop"
                                  [] op = "delete" -> "delete"])
  /\ UNCHANGED <<status, instance, host, latest, faults>>

\* Create stores the record and goes on without the lock.
Create(r) ==
  /\ request[r] = Idle
  /\ status = "none"
  /\ status' = "provisioning"
  /\ Put(r, [Idle EXCEPT !.op = "create", !.at = "query", !.clean = faults = MaxFaults])
  /\ UNCHANGED <<holder, instance, host, latest, faults, excuses>>

\* The operation's own State query, with the agents that bar an upgrade.
State(r) ==
  LET op == request[r].op
  IN /\ request[r].at = "state"
     /\ \/ Unanswered(r, Ending(r, "error"))
        \/ Goto(r, CASE op = "prompt" \/ ~Exists -> At(r, "query")
                     [] op = "restart" /\ Exists -> At(r, "restart")
                     [] op = "upgrade" /\ Exists ->
                          IF Busy THEN Ending(r, "busy")
                          ELSE [At(r, "query") EXCEPT !.first = TRUE]
                     [] op = "upgradeBusy" /\ Exists ->
                          [At(r, IF Busy THEN "stop" ELSE "query") EXCEPT !.first = TRUE])

StopInstance(r) ==
  /\ request[r].at = "stop"
  /\ Command(r, TRUE, Halted, TRUE,
             IF request[r].op = "stop" THEN Ending(r, "ok") ELSE At(r, "query"),
             Ending(r, "error"))

\* LXD may refuse to restart a stopped instance.
RestartInstance(r) ==
  /\ request[r].at = "restart"
  /\ \E refused \in BOOLEAN :
       Command(r, Exists /\ (refused => instance.state # "stopped"), Booted, TRUE,
               Ending(r, "ok"), Ending(r, "error"))

\* Upgrade deletes the converged instance and converges again.
Replace(r) ==
  /\ request[r].at = "replace"
  /\ Command(r, TRUE, Missing, TRUE, [At(r, "query") EXCEPT !.first = FALSE], Ending(r, "error"))

\* Delete goes on when the instance cannot be deleted.  The files in it are given
\* up with the project.
DeleteInstance(r) ==
  /\ request[r].at = "delete"
  /\ Lxc(r, TRUE, Missing, TRUE, Ending(r, "ok"), Ending(r, "ok"))
  /\ latest' = IF instance'.state = "missing" THEN host ELSE latest
  /\ UNCHANGED excuses

\* A slip: only a start records its failure.
StatusAfter_Slip(r) ==
  CASE status = "deleted" \/ request[r].result = "busy" -> status
    [] status # "deleted" /\ request[r].result \in {"error", "barred"} ->
         IF request[r].op = "prompt" THEN "error" ELSE status
    [] status # "deleted" /\ request[r].result = "ok" ->
         CASE request[r].op = "delete" -> "deleted"
           [] request[r].op = "stop" -> "stopped"
           [] OTHER -> "running"

StatusAfter(r) ==
  CASE status = "deleted" \/ request[r].result = "busy" -> status
    [] status # "deleted" /\ request[r].result \in {"error", "barred"} -> "error"
    [] status # "deleted" /\ request[r].result = "ok" ->
         CASE request[r].op = "delete" -> "deleted"
           [] request[r].op = "stop" -> "stopped"
           [] OTHER -> "running"

\* SetStatus, or the deletion of the record and the host directories, and the
\* unlock.  A prompt that was given a running project goes on to its agent.
Settle(r) ==
  LET gone == request[r].op = "delete"
  IN /\ request[r].at = "settling"
     /\ status' = StatusAfter(r)
     /\ holder' = IF holder = r THEN NoRequest ELSE holder
     /\ host' = IF gone THEN Nothing ELSE host
     /\ latest' = IF gone THEN Nothing ELSE latest
     /\ Put(r, IF request[r].op = "prompt" /\ request[r].result = "ok"
               THEN [Idle EXCEPT !.op = "agent", !.at = "ready"] ELSE Idle)
     /\ excuses' = IF request[r].result = "busy" THEN excuses ELSE excuses \ {"outside"}
     /\ UNCHANGED <<instance, faults>>

----
\* The agents, the world outside, the server.

\* The command is executed in the instance, if it still runs.
Exec(r) ==
  /\ request[r].at = "ready"
  /\ Goto(r, IF instance.state = "running" THEN At(r, "exec") ELSE Idle)

AgentWrites(r, m) ==
  /\ request[r].at = "exec"
  /\ instance.state = "running"
  /\ latest[m] < MaxWrites
  /\ latest' = [latest EXCEPT ![m] = @ + 1]
  /\ IF m \in instance.mounted
     THEN host' = [host EXCEPT ![m] = latest[m] + 1] /\ UNCHANGED instance
     ELSE instance' = [instance EXCEPT !.inside[m] = latest[m] + 1] /\ UNCHANGED host
  /\ UNCHANGED <<status, holder, request, faults, excuses>>

AgentEnds(r) ==
  /\ request[r].at = "exec"
  /\ Goto(r, Idle)

\* An operator or the host stops, freezes or deletes the instance while no
\* operation is under way; deleting one that was not converged takes its files.
OutsideChange ==
  /\ holder = NoRequest /\ \A r \in Requests : request[r].op # "create"
  /\ instance.state \notin {"missing"}
  /\ Fault
  /\ \/ instance.state = "running" /\ instance' = [instance EXCEPT !.state = "frozen"] /\ UNCHANGED request
     \/ instance' = Halted /\ request' = WithoutAgents(request)
     \/ /\ instance.inside = Nothing
        /\ instance' = Missing /\ request' = WithoutAgents(request)
  /\ excuses' = excuses \cup {"outside"}
  /\ UNCHANGED <<status, holder, host, latest>>

StatusForContainerState ==
  CASE instance.state = "frozen" -> "unknown"
    [] OTHER -> instance.state

\* The server dies with its requests and their agents.  The next one reconciles
\* the record before it serves, unless LXD does not answer.
ServerRestarts ==
  /\ Fault
  /\ request' = [r \in Requests |-> Idle]
  /\ holder' = NoRequest
  /\ \/ status' = status /\ excuses' = excuses \cup {"outside"}
     \/ /\ status \notin {"none", "deleted"}
        /\ status' = StatusForContainerState
        /\ excuses' = excuses \ {"outside"}
  /\ UNCHANGED <<instance, host, latest>>

\* A new project; or one that is there, converged, started by an earlier version
\* without the agents' mounts, or running with mounts that are not active.
ContainerInit ==
  LET instances ==
        {[state |-> state, attached |-> attached,
          mounted |-> IF state = "running" THEN mounted ELSE {}, inside |-> inside] :
           state \in {"running", "stopped"}, attached \in {Mounts, Mounts \ Migrated},
           mounted \in {Mounts, Mounts \ Migrated},
           inside \in {Nothing, [m \in Mounts |-> IF m \in Migrated THEN 1 ELSE 0]}}
  IN /\ \/ /\ status = "none"
           /\ instance = Missing
           /\ latest = Nothing
        \/ /\ instance \in {i \in instances :
                              i.mounted \subseteq i.attached
                              /\ (i.inside = Nothing <=> i.attached = Mounts)}
           /\ status = instance.state
           /\ latest = [m \in Mounts |-> 1]
     /\ host = [m \in Mounts |-> IF m \in Migrated /\ instance.inside # Nothing THEN 0 ELSE latest[m]]
     /\ holder = NoRequest
     /\ request = [r \in Requests |-> Idle]
     /\ faults = 0
     /\ excuses = {}

ContainerNext ==
  \/ \E r \in Requests :
       \/ Query(r) \/ InitInstance(r) \/ ListMounts(r) \/ Wake(r) \/ MigratePersistentState(r)
       \/ Halt(r) \/ AttachDisk(r) \/ Boot(r) \/ VerifyMounts(r) \/ Reactivate(r)
       \/ RollbackNewContainer(r)
       \/ \E op \in Ops : Begin(r, op)
       \/ Create(r) \/ State(r) \/ StopInstance(r) \/ RestartInstance(r) \/ Replace(r)
       \/ DeleteInstance(r) \/ Settle(r)
       \/ Exec(r) \/ AgentEnds(r) \/ \E m \in Mounts : AgentWrites(r, m)
  \/ OutsideChange \/ ServerRestarts

----
\* Properties

Versions == [Mounts -> 0..MaxWrites]

ContainerTypeOK ==
  /\ status \in {"none", "provisioning", "running", "stopped", "error", "missing", "unknown", "deleted"}
  /\ holder \in Requests \cup {NoRequest}
  /\ instance \in [state : {"missing", "stopped", "running", "frozen"}, attached : SUBSET Mounts,
                   mounted : SUBSET Mounts, inside : Versions]
  /\ host \in Versions /\ latest \in Versions
  /\ request \in [Requests -> [op : Ops \cup {"none", "agent"},
                    at : {"idle", "query", "init", "mounts", "wake", "migrate", "halt", "attach",
                          "boot", "verify", "verifyAgain", "reactivate", "rollingBack", "state",
                          "stop", "restart", "replace", "delete", "settling", "ready", "exec"},
                    first : BOOLEAN, created : BOOLEAN, changes : SUBSET Mounts,
                    state : {"none", "stopped", "running", "frozen"},
                    result : {"none", "ok", "error", "busy", "barred"}, clean : BOOLEAN]]
  /\ faults \in 0..MaxFaults
  /\ excuses \in SUBSET {"overlap", "rollback", "outside"}

Alive == status \notin {"none", "deleted"}

\* What an agent wrote last is never lost, whatever fails or dies in the middle
\* of a migration, a launch or an upgrade, as long as the project exists.
NothingLost ==
  Alive /\ "rollback" \notin excuses => \A m \in Mounts : latest[m] \in {host[m], instance.inside[m]}

\* An agent that is at work finds what was written last, wherever the container
\* was rebuilt in between.
AgentSeesLatest ==
  Alive /\ Busy /\ instance.state = "running" /\ "rollback" \notin excuses
    => \A m \in Mounts : Visible(m) = latest[m]

\* An operation that reports a running project leaves one that runs with all its
\* mounts, whatever it found.  Restart only promises that it runs.
Converged ==
  \A r \in Requests :
    request[r].at = "settling" /\ request[r].result = "ok" /\ "overlap" \notin excuses
      => /\ request[r].op \in {"prompt", "upgrade", "upgradeBusy", "create", "restart"}
              => instance.state = "running"
         /\ request[r].op \in {"prompt", "upgrade", "upgradeBusy", "create"}
              => instance.mounted = Mounts

\* No failure leaves a container that a later start cannot recover: when nothing
\* fails any more, every operation succeeds unless an agent at work bars it, or LXD
\* a restart.
Recoverable ==
  \A r \in Requests :
    request[r].at = "settling" /\ request[r].clean /\ "overlap" \notin excuses
      => request[r].result # "error" \/ request[r].op = "restart"

\* What the record says of a project that nobody works on is so, unless it was
\* changed from outside: no operation ends, however it fails, with the container
\* in another state than the one it records.
StatusHonest ==
  (\A r \in Requests : request[r].at \in {"idle", "ready", "exec"})
  /\ Alive /\ excuses \cap {"overlap", "outside"} = {}
    => /\ status = "running" => instance.state = "running"
       /\ status = "stopped" => instance.state \in {"stopped", "missing"}

\* The state is well formed and the record tells the truth.
ContainerInvariant == ContainerTypeOK /\ StatusHonest

\* runState "serializes container run-state transitions per project"
\* (service.go:31): a launch that fails takes away the container it made, and
\* never one in which another request's agent is at work.
LaunchSpares ==
  \A r \in Requests : request[r].at = "rollingBack" => ~Busy
====
