---- MODULE MCLive ----
\* What must happen in the end, for the services that take something up and
\* finish it later: each is checked by itself, as in MCServices, with the
\* fairness of its own goroutines and pages.
EXTENDS AgentSignIn, CapabilityCache, CodexTurn, SelfUpdate,
        AgentBrowser, Uploads, WorkspaceFeed, Notifications

CONSTANT Scenes

VARIABLE scene

vars == <<scene, deviceVars, codeVars, capabilityVars, codexVars,
          selfUpdateVars, browserVars, uploadVars, workspaceVars, presenceVars, pushVars>>

MCReleases == {<<1, 1>>, <<2, 1>>, <<2, 2>>}
MCFirstRelease == <<1, 1>>

\* Whose browser a device is: that of one of the people, the same throughout.
MCOwner == [d \in Devices |-> CHOOSE p \in People : TRUE]

Init ==
  /\ scene \in Scenes
  /\ DeviceInit /\ CodeInit /\ CapabilityInit /\ CodexInit /\ UpdateInit
  /\ BrowserInit /\ UploadsInit
  /\ FeedInit /\ (scene # "feed" => member /\ admin)
  /\ PresenceInit /\ PushInit /\ (scene # "push" => loose)

\* The components at rest while s is on the scene.
OffStage(s) ==
  /\ IF s = "device" THEN TRUE ELSE UNCHANGED deviceVars
  /\ IF s = "code" THEN TRUE ELSE UNCHANGED codeVars
  /\ IF s = "capability" THEN TRUE ELSE UNCHANGED capabilityVars
  /\ IF s = "codex" THEN TRUE ELSE UNCHANGED codexVars
  /\ IF s = "update" THEN TRUE ELSE UNCHANGED selfUpdateVars
  /\ IF s = "browser" THEN TRUE ELSE UNCHANGED browserVars
  /\ IF s = "uploads" THEN TRUE ELSE UNCHANGED uploadVars
  /\ IF s = "feed" THEN TRUE ELSE UNCHANGED workspaceVars
  /\ UNCHANGED presenceVars
  /\ IF s = "push" THEN TRUE ELSE UNCHANGED pushVars

Next ==
  /\ UNCHANGED scene
  /\ \/ scene = "device" /\ DeviceNext /\ OffStage("device")
     \/ scene = "code" /\ CodeNext /\ OffStage("code")
     \/ scene = "capability" /\ CapabilityNext /\ OffStage("capability")
     \/ scene = "codex" /\ CodexNext /\ OffStage("codex")
     \/ scene = "update" /\ UpdateNext /\ OffStage("update")
     \/ scene = "browser" /\ BrowserNext /\ OffStage("browser")
     \/ scene = "uploads" /\ UploadsNext /\ OffStage("uploads")
     \/ scene = "feed" /\ FeedNext /\ OffStage("feed")
     \/ scene = "push" /\ PushNext /\ OffStage("push")

Spec == Init /\ [][Next]_vars

\* The browser opens the workspace socket again and again, and every goroutine
\* behind it runs on; the feed is the one component that has something to do at
\* once, so that its fairness is confined to its scene.
FairSpec ==
  /\ Spec
  /\ DeviceFairness /\ CodeFairness /\ CapabilityFairness /\ CodexFairness
  /\ UpdateFairness /\ BrowserFairness
  /\ UploadsFairness /\ PushFairness
  /\ WF_workspaceVars(scene = "feed" /\ Publishing)
  /\ WF_workspaceVars(scene = "feed" /\ Serving)

\* What a component has taken up it finishes: a login is settled, every request
\* is answered, a turn that is cancelled ends, an ending is told, an update that
\* is shown as running ends, a browser that is shown as starting settles, and
\* one that nobody uses is stopped.
ServicesAnswer ==
  /\ LoginSettles /\ CallsReturn /\ RequestsAnswered
  /\ CancelEnds /\ EndIsTold /\ UpdateEnds /\ StartSettles /\ BrowserReaped

\* An upload that was answered lands in the workspace, the workspace socket comes
\* to show what is stored, and every bell is delivered or given up.
NewsArrives ==
  /\ PromiseArrives /\ DeliveriesEnd
  /\ scene = "feed" => FeedSettles
====
