---- MODULE Credentials ----
\* A provider's login, shared by the host and the containers of all
\* projects: service/container/credentials and its files adapter push the
\* host's file before a run (Preparer.prepareContainer) and pull the
\* container's after it (Provider.Run).  Whose file is newer is told by
\* times of modification, in seconds.
\*
\* The provider is external: using a login replaces its refresh token, and
\* the token that was replaced is refused from then on.
EXTENDS Naturals, FiniteSets

CONSTANTS
  Boxes,          \* the containers
  BoxRuns,        \* runs at work at a time
  MaxSeconds, MaxTokens,
  MaxBoxFaults,   \* bound on failed, cancelled and interrupted runs
  MaxHostUses,    \* bound on new logins and on runs on the host itself
  NoBox

VARIABLES
  hostFile, boxFile,  \* token and time of modification; token 0: no file
  accepted,           \* the tokens the provider accepts
  issued,             \* how many it has issued
  newestLogin,        \* the first token of the newest login
  second,
  boxRun,
  boxFaults, hostUses,
  tangled             \* see Tangles

credVars == <<hostFile, boxFile, accepted, issued, newestLogin, second, boxRun, boxFaults, hostUses, tangled>>

NoFileYet == [token |-> 0, login |-> 0, at |-> 0]
NoRun == [at |-> "idle", box |-> NoBox, began |-> 0, rotated |-> FALSE]

AtWork(r) == boxRun[r].at # "idle"
Rotated(old) == (accepted \ {old}) \cup {issued + 1}

----
\* Before the run.

\* Runs in one container share its file; runs in two have a copy each.
BeginBoxRun(r, b) ==
  /\ boxRun[r] = NoRun
  /\ boxRun' = [boxRun EXCEPT ![r] = [at |-> "push", box |-> b, began |-> second, rotated |-> FALSE]]
  /\ tangled' = (tangled \/ \E o \in BoxRuns : AtWork(o) /\ boxRun[o].box # b)
  /\ UNCHANGED <<hostFile, boxFile, accepted, issued, newestLogin, second, boxFaults, hostUses>>

\* fileSynchronizer.ensure: without a file on the host the run is refused.
RefuseUnsigned(r) ==
  /\ boxRun[r].at = "push" /\ hostFile.token = 0
  /\ boxRun' = [boxRun EXCEPT ![r] = NoRun]
  /\ UNCHANGED <<hostFile, boxFile, accepted, issued, newestLogin, second, boxFaults, hostUses, tangled>>

\* A container that has a file keeps it.
Newer_Slip(b) == boxFile[b].token = 0

\* pushIfNewer
Newer(b) == boxFile[b].token = 0 \/ hostFile.at > boxFile[b].at

PushFile(r) ==
  LET b == boxRun[r].box
  IN /\ boxRun[r].at = "push" /\ hostFile.token # 0
     /\ boxFile' = IF Newer(b) THEN [boxFile EXCEPT ![b] = [hostFile EXCEPT !.at = second]] ELSE boxFile
     /\ boxRun' = [boxRun EXCEPT ![r].at = "running"]
     /\ UNCHANGED <<hostFile, accepted, issued, newestLogin, second, boxFaults, hostUses, tangled>>

----
\* The run, and after it.

\* The agent's CLI refreshes the login and writes its file.
Rotate(r) ==
  LET file == boxFile[boxRun[r].box]
  IN /\ boxRun[r].at = "running" /\ file.token \in accepted /\ issued < MaxTokens
     /\ issued' = issued + 1 /\ accepted' = Rotated(file.token)
     /\ boxFile' = [boxFile EXCEPT ![boxRun[r].box] = [file EXCEPT !.token = issued + 1, !.at = second]]
     /\ boxRun' = [boxRun EXCEPT ![r].rotated = TRUE]
     /\ UNCHANGED <<hostFile, newestLogin, second, boxFaults, hostUses, tangled>>

\* A run takes a second at least.
EndBoxRun(r) ==
  /\ boxRun[r].at = "running" /\ boxFile[boxRun[r].box].token \in accepted /\ second > boxRun[r].began
  /\ boxRun' = [boxRun EXCEPT ![r].at = "pull"]
  /\ UNCHANGED <<hostFile, boxFile, accepted, issued, newestLogin, second, boxFaults, hostUses, tangled>>

\* The host's file is taken for the newer one from now on.
Pulled_Slip(file) == hostFile

Pulled(file) == [file EXCEPT !.at = second]

PullFile(r) ==
  /\ boxRun[r].at = "pull"
  /\ hostFile' = Pulled(boxFile[boxRun[r].box])
  /\ boxRun' = [boxRun EXCEPT ![r] = NoRun]
  /\ UNCHANGED <<boxFile, accepted, issued, newestLogin, second, boxFaults, hostUses, tangled>>

\* A run that fails or is cancelled is not followed by a pull, and a pull that fails
\* is only logged.
EndWithoutPull(r) ==
  /\ boxRun[r].at \in {"push", "running", "pull"}
  /\ boxFaults < MaxBoxFaults /\ boxFaults' = boxFaults + 1
  /\ boxRun' = [boxRun EXCEPT ![r] = NoRun]
  /\ tangled' = (tangled \/ boxRun[r].rotated)
  /\ UNCHANGED <<hostFile, boxFile, accepted, issued, newestLogin, second, hostUses>>

\* A token that is refused fails the run.
RefusedLogin(r) ==
  /\ boxRun[r].at = "running" /\ boxFile[boxRun[r].box].token \notin accepted
  /\ boxRun' = [boxRun EXCEPT ![r] = NoRun]
  /\ UNCHANGED <<hostFile, boxFile, accepted, issued, newestLogin, second, boxFaults, hostUses, tangled>>

----
\* The host's own use of its file.

SignInOnHost ==
  /\ hostUses < MaxHostUses /\ hostUses' = hostUses + 1
  /\ issued < MaxTokens /\ issued' = issued + 1
  /\ accepted' = accepted \cup {issued + 1} /\ newestLogin' = issued + 1
  /\ hostFile' = [token |-> issued + 1, login |-> issued + 1, at |-> second]
  /\ tangled' = (tangled \/ \E r \in BoxRuns : AtWork(r))
  /\ UNCHANGED <<boxFile, second, boxRun, boxFaults>>

RunOnHost ==
  /\ hostUses < MaxHostUses /\ hostUses' = hostUses + 1
  /\ hostFile.token \in accepted /\ issued < MaxTokens
  /\ issued' = issued + 1 /\ accepted' = Rotated(hostFile.token)
  /\ hostFile' = [hostFile EXCEPT !.token = issued + 1, !.at = second]
  /\ tangled' = (tangled \/ \E r \in BoxRuns : AtWork(r))
  /\ UNCHANGED <<boxFile, newestLogin, second, boxRun, boxFaults>>

\* A second passes.
TickSecond ==
  /\ second < MaxSeconds /\ second' = second + 1
  /\ UNCHANGED <<hostFile, boxFile, accepted, issued, newestLogin, boxRun, boxFaults, hostUses, tangled>>

\* The host's use of its login is a second apart from any other.
HostUse == (\A f \in {hostFile} \cup {boxFile[b] : b \in Boxes} : second > f.at) /\ (SignInOnHost \/ RunOnHost)

CredInit ==
  /\ hostFile = NoFileYet /\ boxFile = [b \in Boxes |-> NoFileYet]
  /\ accepted = {} /\ issued = 0 /\ newestLogin = 0 /\ second = 1
  /\ boxRun = [r \in BoxRuns |-> NoRun] /\ boxFaults = 0 /\ hostUses = 0 /\ tangled = FALSE

CredNext ==
  \/ \E r \in BoxRuns :
       \/ \E b \in Boxes : BeginBoxRun(r, b)
       \/ RefuseUnsigned(r) \/ PushFile(r) \/ Rotate(r) \/ EndBoxRun(r) \/ PullFile(r)
       \/ EndWithoutPull(r) \/ RefusedLogin(r)
  \/ HostUse \/ TickSecond

CredSpec == CredInit /\ [][CredNext]_credVars

----
CredTypeOK ==
  /\ accepted \subseteq 1..issued /\ newestLogin <= issued
  /\ \A f \in {hostFile} \cup {boxFile[b] : b \in Boxes} : f.token <= issued /\ f.at <= second

Quiet == \A r \in BoxRuns : ~AtWork(r)

\* Tangles: two containers at work at once, a login or a run on the host during a
\* run, a run that replaced the token and was never pulled.  Short of these, and of two
\* changes within a second:

\* The host is never left with a token the provider refuses
\* (credentials/files.go:72-104, :112-136).
HostStaysSignedIn == ~tangled /\ Quiet => hostFile.token \in accepted \cup {0}

\* No run is given a token that is refused, though its container has a file of its
\* own and other containers have replaced the token since.
RunsAreSignedIn ==
  \A r \in BoxRuns : ~tangled /\ boxRun[r].at \in {"running", "pull"} => boxFile[boxRun[r].box].token \in accepted

\* A run uses the newest login, not one an earlier run left in its container.
RunsUseNewestLogin ==
  \A r \in BoxRuns : ~tangled /\ boxRun[r].at \in {"running", "pull"} => boxFile[boxRun[r].box].login = newestLogin

CredInvariant == CredTypeOK /\ HostStaysSignedIn /\ RunsAreSignedIn /\ RunsUseNewestLogin

\* Not so: the run that ends last puts its container's token on the host, and with
\* runs in two containers that can be one the provider no longer accepts.
HostAlwaysSignedIn == Quiet => hostFile.token \in accepted \cup {0}
====
