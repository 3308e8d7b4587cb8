---- MODULE MCRecords ----
\* What the server keeps of people, projects, chats and files, and what
\* the browser shows of it. The components share no state here, so that
\* each is checked by itself: a behaviour is one of the component named by
\* scene.
EXTENDS AccountSecurity, Ownership, ProjectRecords, ScheduleGrants, Uploads,
        WorkspaceFiles, FileBrowser, Conversations, WorkspaceFeed,
        UsageReports

CONSTANT Scenes

VARIABLE scene

vars == <<scene, securityVars, ownershipVars, recordVars, grantVars,
          uploadVars, fileVars, fileTreeVars, talkVars, workspaceVars,
          reportVars>>

Init ==
  /\ scene \in Scenes
  /\ SecurityInit /\ OwnershipInit /\ RecordsInit /\ GrantsInit
  /\ UploadsInit /\ FilesInit /\ TreeInit /\ TalkInit /\ FeedInit
  /\ ReportsInit

\* The components at rest while s is on the scene.
OffStage(s) ==
  /\ IF s = "security" THEN TRUE ELSE UNCHANGED securityVars
  /\ IF s = "owners" THEN TRUE ELSE UNCHANGED ownershipVars
  /\ IF s = "projects" THEN TRUE ELSE UNCHANGED recordVars
  /\ IF s = "grants" THEN TRUE ELSE UNCHANGED grantVars
  /\ IF s = "uploads" THEN TRUE ELSE UNCHANGED uploadVars
  /\ IF s = "files" THEN TRUE ELSE UNCHANGED fileVars
  /\ IF s = "tree" THEN TRUE ELSE UNCHANGED fileTreeVars
  /\ IF s = "talks" THEN TRUE ELSE UNCHANGED talkVars
  /\ IF s = "feed" THEN TRUE ELSE UNCHANGED workspaceVars
  /\ IF s = "reports" THEN TRUE ELSE UNCHANGED reportVars

Next ==
  /\ UNCHANGED scene
  /\ \/ scene = "security" /\ SecurityNext /\ OffStage("security")
     \/ scene = "owners" /\ OwnershipNext /\ OffStage("owners")
     \/ scene = "projects" /\ RecordsNext /\ OffStage("projects")
     \/ scene = "grants" /\ GrantsNext /\ OffStage("grants")
     \/ scene = "uploads" /\ UploadsNext /\ OffStage("uploads")
     \/ scene = "files" /\ FilesNext /\ OffStage("files")
     \/ scene = "tree" /\ TreeNext /\ OffStage("tree")
     \/ scene = "talks" /\ TalkNext /\ OffStage("talks")
     \/ scene = "feed" /\ FeedNext /\ OffStage("feed")
     \/ scene = "reports" /\ ReportsNext /\ OffStage("reports")

\* What tells the states of a scene apart: the others stay where they began.
View ==
  CASE scene = "security" -> <<scene, securityVars>>
    [] scene = "owners" -> <<scene, ownershipVars>>
    [] scene = "projects" -> <<scene, recordVars>>
    [] scene = "grants" -> <<scene, grantVars>>
    [] scene = "uploads" -> <<scene, uploadVars>>
    [] scene = "files" -> <<scene, fileVars>>
    [] scene = "tree" -> <<scene, fileTreeVars>>
    [] scene = "talks" -> <<scene, talkVars>>
    [] scene = "feed" -> <<scene, workspaceVars>>
    [] scene = "reports" -> <<scene, reportVars>>

Spec == Init /\ [][Next]_vars

\* What is stored of an account is what its requests, taken one by one, made of it:
\* its codes, history, alert, role and ownership, through races, failing calls,
\* restarts and a removal; and a removed user's access, subscriptions and records
\* are gone, but for those of them that the server's memory carried over.
AccountsInvariant ==
  /\ scene = "security" => SecurityInvariant
  /\ scene = "owners" => OwnershipInvariant

\* What a user sends and asks of a workspace arrives and is shown whole: an
\* upload, a listing, an archive, and the tree in the browser.
FilesShown ==
  /\ scene = "uploads" => UploadsInvariant
  /\ scene = "files" => FilesInvariant
  /\ scene = "tree" => TreeInvariant

\* A project is there as a whole or not at all, whatever request, failure or
\* restart comes between two of its steps.
ProjectsWhole == scene = "projects" => RecordsInvariant

\* The schedule API obeys the grant of the turn that calls it, and the quota.
GrantsObeyed == scene = "grants" => GrantsInvariant

\* A chat keeps its own agent's sessions through forks, rewinds and switches of
\* the agent; and once all that was written is sent, the workspace socket has shown
\* a viewer what is stored of what the viewer may see, and has stopped letting the
\* chats of a project through that a write told it the viewer is out of.
ChatsShown ==
  /\ scene = "talks" => TalksInvariant
  /\ scene = "feed" => FeedInvariant

\* The tables of usage add up to the runs that were recorded.
ReportsAddUp == scene = "reports" => ReportsInvariant
====
