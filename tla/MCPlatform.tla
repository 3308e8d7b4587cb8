---- MODULE MCPlatform ----
\* What every chat and project stands on: the log, the container, the
\* settings, the clock of the schedules, and the notifications. The
\* components share no state here, so that each is checked by itself: a
\* behaviour is one of the component named by scene.
EXTENDS EventLog, ProjectContainer, Preferences, Cron,
        Notifications, WorkspacePaths

CONSTANT Scenes

VARIABLE scene

vars == <<scene, logVars, containerVars, prefVars, cronVars, presenceVars,
          pushVars, pathVars>>

CONSTANT a

\* A log of two turns from before turns and numbers were stored,
\* with a line that does not parse between them.
Old(id, user) == Line(Event(0, 10 + id, 1, 0, user), TRUE, RecordBytes, TRUE)
Broken == Line(Event(0, 10, 1, 0, FALSE), FALSE, RecordBytes, TRUE)
Older == {<<Old(1, TRUE), Broken, Old(2, TRUE)>>}

\* Whose browser a device is: that of one of the people, the same throughout.
MCOwner == [d \in Devices |-> CHOOSE p \in People : TRUE]

\* What the settled components hold: any value they may begin with.
EveryMinute == CHOOSE task \in Expressions : AcceptedTask(task)
AnyAsking == CHOOSE q \in [cwd : Directories, path : Paths, absolute : BOOLEAN] : TRUE

Init ==
  /\ scene \in Scenes
  /\ PresenceInit /\ PushInit
  /\ LogInit /\ (scene # "log" => file[a] = <<>> /\ place[a] = "absent")
  /\ ContainerInit /\ (scene # "container" => status = "none")
  /\ PrefInit /\ (scene # "settings" => prefFile = NoFile)
  /\ CronInit /\ (scene # "cron" => cronTask = EveryMinute /\ start = 0 /\ jump = 0)
  /\ PathInit /\ (scene # "paths" => asking = AnyAsking)

\* The components at rest while s is on the scene.
OffStage(s) ==
  /\ IF s = "log" THEN TRUE ELSE UNCHANGED logVars
  /\ IF s = "container" THEN TRUE ELSE UNCHANGED containerVars
  /\ IF s = "settings" THEN TRUE ELSE UNCHANGED prefVars
  /\ IF s = "cron" THEN TRUE ELSE UNCHANGED cronVars
  /\ IF s = "presence" THEN TRUE ELSE UNCHANGED presenceVars
  /\ IF s = "push" THEN TRUE ELSE UNCHANGED pushVars
  /\ IF s = "paths" THEN TRUE ELSE UNCHANGED pathVars

Next ==
  /\ UNCHANGED scene
  /\ \/ scene = "log" /\ LogNext /\ OffStage("log")
     \/ scene = "container" /\ ContainerNext /\ OffStage("container")
     \/ scene = "settings" /\ PrefNext /\ OffStage("settings")
     \/ scene = "cron" /\ CronNext /\ OffStage("cron")
     \/ scene = "presence" /\ PresenceNext /\ OffStage("presence")
     \/ scene = "push" /\ PushNext /\ OffStage("push")
     \/ scene = "paths" /\ PathNext /\ OffStage("paths")

\* What tells the states of a scene apart: the others stay where they began.
View ==
  CASE scene = "log" -> <<scene, logVars>>
    [] scene = "container" -> <<scene, containerVars>>
    [] scene = "settings" -> <<scene, prefVars>>
    [] scene = "cron" -> <<scene, cronVars>>
    [] scene = "presence" -> <<scene, presenceVars>>
    [] scene = "push" -> <<scene, pushVars>>
    [] scene = "paths" -> <<scene, pathVars>>

Spec == Init /\ [][Next]_vars

\* Requests are told apart by nothing but the order they arrive in, and so are
\* the tabs of a user.
Interchangeable == Permutations(Requests) \cup Permutations(Tabs)

\* The log keeps what it acknowledged, and every read answers what it holds.
LogExact == scene = "log" => LogInvariant /\ ReadsExact

\* A container is what its status says, loses no file and is brought back by
\* every request that reports success.
ContainerKept == scene = "container" =>
  /\ ContainerInvariant /\ NothingLost /\ AgentSeesLatest /\ Converged /\ Recoverable

\* A bell rings on the devices of those who may see the chat and do not look at
\* it: the audience of a push, and which tab of a user was heard last.
BellsInvariant ==
  /\ scene = "push" => PushInvariant
  /\ scene = "presence" => PresenceInvariant

\* What a user asks for is what the server does with it: patches of the settings
\* are kept, a cron expression fires at the instants its fields name and at no
\* other, across a jump of the local clock, and the path of an agent's link opens
\* inside the workspace it belongs to or not at all.
RequestsMeant ==
  /\ scene = "settings" => PrefInvariant
  /\ scene = "cron" => CronInvariant
  /\ scene = "paths" => PathInvariant
====
