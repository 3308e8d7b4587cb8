---- MODULE ImageBuild ----
\* Builder.Build of service/container/image: the base image of every
\* project container, built by cmd/build-base-image stage by stage in one
\* throwaway container of a fixed name, and published under an alias.
\* What lxc does is external: a launch needs the name to be free, a script
\* a running container, a publish a stopped one and a free alias.
EXTENDS Naturals, Sequences, FiniteSets

CONSTANTS
  Builds,         \* processes of cmd/build-base-image
  MaxBuildFaults, \* bound on commands that fail or time out, and on crashes
  MaxBuildRuns,   \* bound on how often each is started
  NoBuild

VARIABLES
  build,      \* each process: its stage, whether it overwrites, whether another ran with it
  builder,    \* the container: its state, what is installed in it, who launched it
  image,      \* what the alias stands for: layers, and whether two builds crossed
  buildFaults, buildRuns

buildVars == <<build, builder, image, buildFaults, buildRuns>>

Layers == {"tools", "browser", "ide"}
Stages == <<"clean", "launch", "egress", "tools", "browser", "ide", "stop", "publish", "cleanup">>

NoBuilder == [state |-> "none", layers |-> {}, by |-> NoBuild]
NoImage == [made |-> FALSE, layers |-> {}, crossed |-> FALSE]

Working == {b \in Builds : build[b].at \notin {"idle", "done", "failed"}}

\* The order of Build's body.
NextStage(at) == Stages[1 + CHOOSE i \in 1..Len(Stages) : Stages[i] = at]

\* A failure is returned, and the deferred delete runs.
GoesOn(b) == build' = [build EXCEPT ![b].at = NextStage(@)]
GivesUp(b) == build' = [build EXCEPT ![b].at = "cleanup", ![b].failed = TRUE]

\* -overwrite: the alias is deleted before anything is built.
StartBuild(b) ==
  /\ build[b].at \in {"idle", "done", "failed"} /\ buildRuns < MaxBuildRuns
  /\ buildRuns' = buildRuns + 1
  /\ \E overwrite \in BOOLEAN : image' = IF overwrite THEN NoImage ELSE image
  /\ build' = [c \in Builds |->
                 IF c = b THEN [at |-> "clean", failed |-> FALSE, crossed |-> Working # {}]
                 ELSE [build[c] EXCEPT !.crossed = (c \in Working)]]
  /\ UNCHANGED <<builder, buildFaults>>

\* What an earlier build left behind is deleted, and launched over if that fails.
Launches_Slip(b) ==
  /\ builder' = IF builder.state = "none" THEN [state |-> "running", layers |-> {}, by |-> b] ELSE [builder EXCEPT !.state = "running"]
  /\ GoesOn(b)

\* launch fails where the name is taken.
Launches(b) ==
  IF builder.state = "none"
    THEN builder' = [state |-> "running", layers |-> {}, by |-> b] /\ GoesOn(b)
    ELSE UNCHANGED builder /\ GivesUp(b)

\* A script runs in whatever container has the name.
Installs(b, layer) ==
  IF builder.state = "running"
    THEN builder' = [builder EXCEPT !.layers = @ \cup {layer}] /\ GoesOn(b)
    ELSE UNCHANGED builder /\ GivesUp(b)

Stops(b) ==
  IF builder.state = "running"
    THEN builder' = [builder EXCEPT !.state = "stopped"] /\ GoesOn(b)
    ELSE UNCHANGED builder /\ GivesUp(b)

Publishes(b) ==
  IF builder.state = "stopped" /\ ~image.made
    THEN image' = [made |-> TRUE, layers |-> builder.layers, crossed |-> build[b].crossed] /\ GoesOn(b)
    ELSE UNCHANGED image /\ GivesUp(b)

\* The step of its stage, when the command succeeds.
BuildStep(b) ==
  /\ \/ /\ build[b].at = "clean" /\ builder' = NoBuilder /\ GoesOn(b) /\ UNCHANGED image
     \/ /\ build[b].at = "launch" /\ Launches(b) /\ UNCHANGED image
     \/ /\ build[b].at = "egress"
        /\ IF builder.state = "running" THEN GoesOn(b) ELSE GivesUp(b)
        /\ UNCHANGED <<builder, image>>
     \/ /\ build[b].at \in Layers /\ Installs(b, build[b].at) /\ UNCHANGED image
     \/ /\ build[b].at = "stop" /\ Stops(b) /\ UNCHANGED image
     \/ /\ build[b].at = "publish" /\ Publishes(b) /\ UNCHANGED builder
     \/ /\ build[b].at = "cleanup" /\ builder' = NoBuilder
        /\ build' = [build EXCEPT ![b].at = IF @ = "cleanup" /\ build[b].failed THEN "failed" ELSE "done"]
        /\ UNCHANGED image
  /\ UNCHANGED <<buildFaults, buildRuns>>

\* A command fails or times out: the deletes are tolerated, anything else ends the
\* build.
StageFails_Slip(b) ==
  IF build[b].at \in {"clean", "ide"} THEN GoesOn(b)
  ELSE IF build[b].at = "cleanup" THEN build' = [build EXCEPT ![b].at = IF build[b].failed THEN "failed" ELSE "done"]
  ELSE GivesUp(b)

StageFails(b) ==
  IF build[b].at = "clean" THEN GoesOn(b)
  ELSE IF build[b].at = "cleanup" THEN build' = [build EXCEPT ![b].at = IF build[b].failed THEN "failed" ELSE "done"]
  ELSE GivesUp(b)

BuildFault(b) ==
  /\ b \in Working /\ buildFaults < MaxBuildFaults /\ buildFaults' = buildFaults + 1
  /\ StageFails(b)
  /\ UNCHANGED <<builder, image, buildRuns>>

\* The process dies: nothing is cleaned up.
BuildCrash(b) ==
  /\ b \in Working /\ buildFaults < MaxBuildFaults /\ buildFaults' = buildFaults + 1
  /\ build' = [build EXCEPT ![b].at = "failed"]
  /\ UNCHANGED <<builder, image, buildRuns>>

BuildInit ==
  /\ build = [b \in Builds |-> [at |-> "idle", failed |-> FALSE, crossed |-> FALSE]]
  /\ builder = NoBuilder
  /\ image \in {NoImage, [made |-> TRUE, layers |-> Layers, crossed |-> FALSE]}
  /\ buildFaults = 0 /\ buildRuns = 0

BuildNext == \E b \in Builds : StartBuild(b) \/ BuildStep(b) \/ BuildFault(b) \/ BuildCrash(b)

BuildSpec == BuildInit /\ [][BuildNext]_buildVars

----
BuildTypeOK ==
  /\ builder.state \in {"none", "running", "stopped"} /\ builder.layers \subseteq Layers
  /\ builder.state = "none" <=> builder = NoBuilder
  /\ image.made \in BOOLEAN

\* No project is launched from an image that lacks a layer: whatever fails, times
\* out or dies, and whatever an earlier build left behind, what is published has
\* every layer, unless two builds ran at once (image/builder.go:147-252).
ImageWhole == image.made /\ ~image.crossed => image.layers = Layers

\* A stage works in the container its own build launched, with the layers of the
\* stages before it and no other.
OwnBuilder ==
  \A b \in Working : (~build[b].crossed /\ build[b].at \in Layers \cup {"egress", "stop", "publish"}) =>
    /\ builder.by = b
    /\ builder.layers = {l \in Layers : \E i, j \in 1..Len(Stages) : i < j /\ Stages[i] = l /\ Stages[j] = build[b].at}

\* What is left of a builder is somebody's who still works, or a fault's.
BuilderRemoved == Working = {} /\ buildFaults = 0 => builder = NoBuilder

BuildInvariant == BuildTypeOK /\ ImageWhole /\ OwnBuilder /\ BuilderRemoved

\* Not so: two builds share the container, and one publishes what the other has
\* half installed.
ImageAlwaysWhole == image.made => image.layers = Layers

\* Not so: with -overwrite the alias is gone until the build succeeds.
ImageStays == [][image.made => image'.made]_buildVars
====
