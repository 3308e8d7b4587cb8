---- MODULE MCServices ----
\* The agents' services share no state, so that each is checked by itself:
\* a behaviour is one of the component named by scene, and the others do
\* not move.
EXTENDS AgentSignIn, CapabilityCache, CodexTurn, UsageLedger,
        SelfUpdate, AgentBrowser, AgentKeys, CodexFeed, AgentClis,
        Credentials, ImageBuild, GitHistory

CONSTANT Scenes

VARIABLE scene

vars == <<scene, deviceVars, codeVars, capabilityVars, codexVars, ledgerVars,
          selfUpdateVars, browserVars, keyVars, itemVars, cliVars, credVars,
          buildVars, gitVars>>

MCReleases == {<<1, 1>>, <<2, 1>>, <<2, 2>>}
MCFirstRelease == <<1, 1>>

Init ==
  /\ scene \in Scenes
  /\ DeviceInit /\ CodeInit /\ CapabilityInit /\ CodexInit /\ LedgerInit
  /\ UpdateInit /\ BrowserInit /\ KeyInit /\ ItemsInit /\ CredInit
  /\ BuildInit /\ GitInit
  /\ ClisInit /\ (scene # "clis" => boxCli = 0 /\ hostCli = 0)

\* The components at rest while s is on the scene.
OffStage(s) ==
  /\ IF s = "device" THEN TRUE ELSE UNCHANGED deviceVars
  /\ IF s = "code" THEN TRUE ELSE UNCHANGED codeVars
  /\ IF s = "capability" THEN TRUE ELSE UNCHANGED capabilityVars
  /\ IF s = "codex" THEN TRUE ELSE UNCHANGED codexVars
  /\ IF s = "ledger" THEN TRUE ELSE UNCHANGED ledgerVars
  /\ IF s = "update" THEN TRUE ELSE UNCHANGED selfUpdateVars
  /\ IF s = "browser" THEN TRUE ELSE UNCHANGED browserVars
  /\ IF s = "keys" THEN TRUE ELSE UNCHANGED keyVars
  /\ IF s = "items" THEN TRUE ELSE UNCHANGED itemVars
  /\ IF s = "clis" THEN TRUE ELSE UNCHANGED cliVars
  /\ IF s = "credentials" THEN TRUE ELSE UNCHANGED credVars
  /\ IF s = "image" THEN TRUE ELSE UNCHANGED buildVars
  /\ IF s = "git" THEN TRUE ELSE UNCHANGED gitVars

Next ==
  /\ UNCHANGED scene
  /\ \/ scene = "device" /\ DeviceNext /\ OffStage("device")
     \/ scene = "code" /\ CodeNext /\ OffStage("code")
     \/ scene = "capability" /\ CapabilityNext /\ OffStage("capability")
     \/ scene = "codex" /\ CodexNext /\ OffStage("codex")
     \/ scene = "ledger" /\ LedgerNext /\ OffStage("ledger")
     \/ scene = "update" /\ UpdateNext /\ OffStage("update")
     \/ scene = "browser" /\ BrowserNext /\ OffStage("browser")
     \/ scene = "keys" /\ KeyNext /\ OffStage("keys")
     \/ scene = "items" /\ ItemsNext /\ OffStage("items")
     \/ scene = "clis" /\ ClisNext /\ OffStage("clis")
     \/ scene = "credentials" /\ CredNext /\ OffStage("credentials")
     \/ scene = "image" /\ BuildNext /\ OffStage("image")
     \/ scene = "git" /\ GitNext /\ OffStage("git")

\* What tells the states of a scene apart: the others stay where they began.
View ==
  CASE scene = "device" -> <<scene, deviceVars>>
    [] scene = "code" -> <<scene, codeVars>>
    [] scene = "capability" -> <<scene, capabilityVars>>
    [] scene = "codex" -> <<scene, codexVars>>
    [] scene = "ledger" -> <<scene, ledgerVars>>
    [] scene = "update" -> <<scene, selfUpdateVars>>
    [] scene = "browser" -> <<scene, browserVars>>
    [] scene = "keys" -> <<scene, keyVars>>
    [] scene = "items" -> <<scene, itemVars>>
    [] scene = "clis" -> <<scene, cliVars>>
    [] scene = "credentials" -> <<scene, credVars>>
    [] scene = "image" -> <<scene, buildVars>>
    [] scene = "git" -> <<scene, gitVars>>

Spec == Init /\ [][Next]_vars

\* A person who signs an agent in sees that sign-in and no other, whichever way
\* it goes: by device, by code, or with a key; and what every tab that follows
\* it shows is the state the server last told (service/agent/auth).
SignInInvariant ==
  /\ scene = "device" => DeviceInvariant /\ FeedCurrent
  /\ scene = "code" => CodeInvariant
  /\ scene = "keys" => KeyInvariant

\* A turn of codex is told as the app-server ran it: its end once and last, its
\* text once, and each tool call as what became of it (codexharness).
TurnInvariant ==
  /\ scene = "codex" => CodexInvariant
  /\ scene = "items" => ItemsInvariant

\* An agent that runs has its CLI, its credentials and its image, each whole,
\* whatever fails while they are brought there.
ProvisionInvariant ==
  /\ scene = "clis" => ClisInvariant
  /\ scene = "credentials" => CredInvariant
  /\ scene = "image" => BuildInvariant

\* An update that is reported as running or done is the one that was launched, and
\* a success left the host converged; a browser shown as starting is being started
\* by someone who will say how that ended.
HostInvariant ==
  /\ scene = "update" => UpdateInvariant
  /\ scene = "browser" => BrowserInvariant

\* Requests for the catalogue of an agent's models that overlap share one
\* discovery, and none waits for a discovery that is gone (agent/capability).
DiscoveryShared == scene = "capability" => CacheInvariant

\* The ledger counts every run whose end was kept once, for the user who prompted
\* it, through crashes and rebuilds.
LedgerAddsUp == scene = "ledger" => LedgerInvariant

\* Going back in the history of a workspace loses nothing that was in it: what was
\* there is in the checkpoint, and the checkpoint is offered again.
HistoryKept == scene = "git" => GitInvariant

\* No step undoes what was answered before: a catalogue is never replaced by an
\* older one, nothing follows the end of a turn, and a rebuild that nobody
\* disturbed leaves every run counted as often as it was kept.
NothingUndone == CacheAdvances /\ TerminalIsLast /\ RebuildRepairs
====
