---- MODULE AgentClis ----
\* One agent's command line tool: Provisioner.Ensure of
\* service/container/cli, which every prompt calls for its container, and
\* Installer.EnsureAll of service/agent/hostcli, which every release calls
\* for the host.  Versions are ranked; 0 is a tool that is missing.
\*
\* npm is external: it removes the installed tool, puts the new one in
\* place and ends.  One whose lxc exec is cut off may go on in the
\* container; on the host its process group is killed.
EXTENDS Naturals, FiniteSets

CONSTANTS
  Ensurers,       \* prompts that prepare the container at a time
  LastPin,        \* versions 1..LastPin + 1; the pin rises with a release
  MaxCliFaults,   \* bound on failed and timed out installs, waits and releases
  MaxPrepares,    \* bound on prompts
  Cutoff          \* stands for the Ensure of an npm that goes on without one

ASSUME ClisAssumption == LastPin \in Nat \ {0, 1} /\ Cutoff \notin Ensurers

VARIABLES
  pin,
  boxCli, hostCli,  \* the version installed in the container, and on the host
  ensure,         \* each Ensure: its step and the version it must reach
  npms,           \* npm processes in the container
  hostAt, hostNpm,
  prepares, cliFaults,
  staleInstall    \* an npm was started though the tool was ready, or beside another

cliVars == <<pin, boxCli, hostCli, ensure, npms, hostAt, hostNpm, prepares, cliFaults, staleInstall>>

Npm(by, to) == [by |-> by, to |-> to, at |-> "begun"]
NoEnsure == [at |-> "idle", needs |-> 0]
NoNpm == [by |-> Cutoff, to |-> 0, at |-> "none"]

\* Any version will do.
Ready_Slip(version, needs) == version > 0

\* semanticVersionAtLeast: a newer one will do.
Ready(version, needs) == version >= needs

\* matchSemanticVersion: on the host exactly the pin.
Exactly(version, needs) == version = needs

EnsureGoes(p, at) == ensure' = [ensure EXCEPT ![p].at = at]

CliFault == cliFaults < MaxCliFaults /\ cliFaults' = cliFaults + 1

----
\* Ensure, for a prompt in the container.

BeginEnsure(p) ==
  /\ ensure[p].at \in {"idle", "error"} /\ prepares < MaxPrepares /\ prepares' = prepares + 1
  /\ ensure' = [ensure EXCEPT ![p] = [at |-> "check", needs |-> pin]]
  /\ UNCHANGED <<pin, boxCli, hostCli, npms, hostAt, hostNpm, cliFaults, staleInstall>>

\* ready, InstallRunning and the two waits, as far as they do not time out.
ContinueEnsure(p) ==
  LET e == ensure[p]
      ready == Ready(boxCli, e.needs)
  IN /\ \/ e.at = "check" /\ EnsureGoes(p, IF ready THEN "running" ELSE "look")
        \/ e.at = "look" /\ EnsureGoes(p, IF npms # {} THEN "wait" ELSE "install")
        \/ e.at \in {"wait", "failed"} /\ ready /\ EnsureGoes(p, "running")
        \/ e.at = "verify" /\ EnsureGoes(p, IF ready THEN "running" ELSE "error")
     /\ UNCHANGED <<pin, boxCli, hostCli, npms, hostAt, hostNpm, prepares, cliFaults, staleInstall>>

StartInstall(p) ==
  /\ ensure[p].at = "install"
  /\ npms' = npms \cup {Npm(p, ensure[p].needs)}
  /\ staleInstall' = (staleInstall \/ npms # {} \/ Ready(boxCli, ensure[p].needs))
  /\ EnsureGoes(p, "installing")
  /\ UNCHANGED <<pin, boxCli, hostCli, hostAt, hostNpm, prepares, cliFaults>>

\* The first wait is followed by an install, the one after a failed install by an
\* error.  Where an npm is at work, it took longer than the wait.
TimeOutWait(p) ==
  /\ ensure[p].at \in {"wait", "failed"} /\ ~Ready(boxCli, ensure[p].needs)
  /\ IF npms # {} THEN CliFault ELSE UNCHANGED cliFaults
  /\ EnsureGoes(p, IF ensure[p].at = "wait" THEN "install" ELSE "error")
  /\ UNCHANGED <<pin, boxCli, hostCli, npms, hostAt, hostNpm, prepares, staleInstall>>

\* What its end is for the Ensure that waits for it.
Returned(n, at) == IF n.by = Cutoff THEN UNCHANGED ensure ELSE EnsureGoes(n.by, at)

\* npm goes on: the old tool is removed, the new one is put in place, npm ends.
NpmGoesOn(n) ==
  /\ n \in npms
  /\ \/ /\ n.at = "begun" /\ boxCli' = 0 /\ npms' = (npms \ {n}) \cup {[n EXCEPT !.at = "removed"]}
        /\ UNCHANGED ensure
     \/ /\ n.at = "removed" /\ boxCli' = n.to /\ npms' = (npms \ {n}) \cup {[n EXCEPT !.at = "placed"]}
        /\ UNCHANGED ensure
     \/ /\ n.at = "placed" /\ npms' = npms \ {n} /\ Returned(n, "verify") /\ UNCHANGED boxCli
  /\ UNCHANGED <<pin, hostCli, hostAt, hostNpm, prepares, cliFaults, staleInstall>>

\* It fails before it has put the new one in place.
NpmFails(n) ==
  /\ n \in npms /\ n.at # "placed" /\ CliFault /\ npms' = npms \ {n} /\ Returned(n, "failed")
  /\ UNCHANGED <<pin, boxCli, hostCli, hostAt, hostNpm, prepares, staleInstall>>

\* InstallTimeout, or the prompt is cancelled.
CutOff(p) ==
  /\ ensure[p].at = "installing" /\ CliFault
  /\ npms' \in {{n \in npms : n.by # p}, {[n EXCEPT !.by = IF @ = p THEN Cutoff ELSE @] : n \in npms}}
  /\ EnsureGoes(p, "failed")
  /\ UNCHANGED <<pin, boxCli, hostCli, hostAt, hostNpm, prepares, staleInstall>>

EndCliRun(p) ==
  /\ ensure[p].at = "running" /\ ensure' = [ensure EXCEPT ![p] = NoEnsure]
  /\ UNCHANGED <<pin, boxCli, hostCli, npms, hostAt, hostNpm, prepares, cliFaults, staleInstall>>

----
\* EnsureAll, on the host, and the release that calls it.

ConvergeHost ==
  /\ \/ hostAt = "idle" /\ hostAt' = "check" /\ UNCHANGED <<hostCli, hostNpm>>
     \/ hostAt = "check" /\ hostAt' = (IF Exactly(hostCli, pin) THEN "done" ELSE "install") /\ UNCHANGED <<hostCli, hostNpm>>
     \/ /\ hostAt = "install" /\ hostNpm.at = "none"
        /\ hostAt' = "installing" /\ hostNpm' = Npm(Cutoff, pin) /\ UNCHANGED hostCli
     \/ hostAt = "verify" /\ hostAt' = (IF Exactly(hostCli, pin) THEN "done" ELSE "failed") /\ UNCHANGED <<hostCli, hostNpm>>
  /\ UNCHANGED <<pin, boxCli, ensure, npms, prepares, cliFaults, staleInstall>>

HostNpmGoesOn ==
  /\ \/ hostNpm.at = "begun" /\ hostCli' = 0 /\ hostNpm' = [hostNpm EXCEPT !.at = "removed"] /\ UNCHANGED hostAt
     \/ hostNpm.at = "removed" /\ hostCli' = hostNpm.to /\ hostNpm' = [hostNpm EXCEPT !.at = "placed"] /\ UNCHANGED hostAt
     \/ /\ hostNpm.at = "placed" /\ hostNpm' = NoNpm /\ UNCHANGED hostCli
        /\ hostAt' = IF hostAt = "installing" THEN "verify" ELSE hostAt
  /\ UNCHANGED <<pin, boxCli, ensure, npms, prepares, cliFaults, staleInstall>>

\* Only the command itself is killed.
HostNpmAfterKill_Slip == hostNpm

\* runInProcessGroup: every process of the command is killed.
HostNpmAfterKill == NoNpm

\* The install times out or fails.
HostInstallFails ==
  /\ hostAt = "installing" /\ CliFault
  /\ hostAt' = "failed" /\ hostNpm' = HostNpmAfterKill
  /\ UNCHANGED <<pin, boxCli, hostCli, ensure, npms, prepares, staleInstall>>

\* The next release: the server restarts with its prompts' Ensures lost, and EnsureAll
\* runs again.
NextRelease ==
  /\ hostAt \in {"done", "failed"} /\ CliFault
  /\ pin' \in {pin, pin + 1} /\ pin' <= LastPin
  /\ hostAt' = "check"
  /\ ensure' = [p \in Ensurers |-> NoEnsure]
  /\ npms' \in {{}, {[n EXCEPT !.by = Cutoff] : n \in npms}}
  /\ UNCHANGED <<boxCli, hostCli, hostNpm, prepares, staleInstall>>

ClisInit ==
  /\ pin = 2
  /\ boxCli \in 0..LastPin + 1 /\ hostCli \in 0..LastPin + 1
  /\ ensure = [p \in Ensurers |-> NoEnsure] /\ npms = {}
  /\ hostAt = "idle" /\ hostNpm = NoNpm
  /\ prepares = 0 /\ cliFaults = 0 /\ staleInstall = FALSE

ClisNext ==
  \/ \E p \in Ensurers :
       BeginEnsure(p) \/ ContinueEnsure(p) \/ StartInstall(p) \/ TimeOutWait(p) \/ CutOff(p) \/ EndCliRun(p)
  \/ \E n \in npms : NpmGoesOn(n) \/ NpmFails(n)
  \/ ConvergeHost \/ HostNpmGoesOn \/ HostInstallFails \/ NextRelease

ClisSpec == ClisInit /\ [][ClisNext]_cliVars

----
ClisTypeOK ==
  /\ pin \in 2..LastPin /\ {boxCli, hostCli} \subseteq 0..LastPin + 1
  /\ \A n \in npms : n.by = Cutoff \/ ensure[n.by].at = "installing"

\* A run has the tool it was prepared with, whoever installs it, waits for it, fails
\* or is cut off, unless two installs crossed (container/cli/provisioner.go:55-115).
RunHasItsCli == \A p \in Ensurers : ensure[p].at = "running" /\ ~staleInstall => boxCli >= ensure[p].needs

\* No prompt is refused while nothing fails.
RefusedForCause == cliFaults = 0 /\ ~staleInstall => \A p \in Ensurers : ensure[p].at # "error"

\* On the host the release's version is the one installed when it says so, and
\* nothing of an earlier attempt is at work (agent/hostcli/installer.go:86-167,
\* integration/hostcli/runtime.go:63-112).
HostConverged ==
  /\ hostAt = "done" => hostCli = pin
  /\ hostAt # "installing" => hostNpm = NoNpm

ClisInvariant == ClisTypeOK /\ RunHasItsCli /\ RefusedForCause /\ HostConverged

\* Not so: two prompts look before either installs, and the second one's npm takes
\* the tool from the first one's run.
RunAlwaysHasItsCli == \A p \in Ensurers : ensure[p].at = "running" => boxCli >= ensure[p].needs

\* Not so: a newer tool is kept by a container, and taken back to the pin on the host.
NewerKept == [][hostCli > pin => hostCli' = hostCli]_cliVars
====
