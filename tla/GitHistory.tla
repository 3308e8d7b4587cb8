---- MODULE GitHistory ----
\* History and restore of one git repository of a workspace:
\* Service.Commits and Service.Checkout of service/githistory, the
\* commands of integration/gitcli/history.go they run one by one, and the
\* agents and people who edit and commit in the same work tree meanwhile.
\* Nothing locks the repository from the first command to the last.  What
\* a command does to the repository is git's and external; a command is
\* killed when its time is up or its request ends.
EXTENDS Integers, Sequences, FiniteSets

CONSTANTS
  GitFiles, Restores,
  CommitLimit,    \* commits a listing holds: maxCommitLimit
  MaxCommits, MaxEdits, MaxGitFaults

ASSUME GitAssumption == CommitLimit \in Nat \ {0} /\ MaxEdits \in Nat

VARIABLES
  commits,    \* every commit made: its tree, and the commits it descends from
  main,       \* the commit the branch points to
  head,       \* the commit checked out, or 0: the branch is
  index, work,
  locked,     \* a killed command left index.lock behind
  latest,     \* what was last written to each file, by whoever works in the tree
  tip,        \* the last commit somebody made on the branch
  restore,    \* the requests to switch
  gitFaults

gitVars == <<commits, main, head, index, work, locked, latest, tip, restore, gitFaults>>

Absent == 0     \* the content of a file that does not exist

HeadId == IF head = 0 THEN main ELSE head
HeadTree == commits[HeadId].tree

\* status --porcelain, parseDirtyFiles
Dirty == {f \in GitFiles : work[f] # index[f] \/ index[f] # HeadTree[f]}

----
\* The commands that write.

\* add without -A: a file git does not know yet stays out.
Staged_Slip == [f \in GitFiles |-> IF index[f] = Absent THEN Absent ELSE work[f]]

Staged == work

\* commit: refused when the index holds what HEAD does.
Commit(tree) ==
  LET made == Append(commits, [tree |-> tree, line |-> commits[HeadId].line \cup {Len(commits) + 1}])
  IN /\ tree # HeadTree /\ Len(commits) < MaxCommits
     /\ commits' = made
     /\ main' = IF head = 0 THEN Len(made) ELSE main
     /\ tip' = IF head = 0 THEN Len(made) ELSE tip
     /\ head' = IF head = 0 THEN 0 ELSE Len(made)
     /\ index' = tree

\* checkout --detach: the files that differ are replaced, and it is refused as a
\* whole when one of them holds something that is neither HEAD's nor the target's.
ReplacedFiles(sha) == {f \in GitFiles : HeadTree[f] # commits[sha].tree[f] /\ index[f] # commits[sha].tree[f]}

\* checkout -f
Free(sha) == \A f \in ReplacedFiles(sha) : index[f] = HeadTree[f] /\ work[f] = index[f]

\* checkout without --detach, of a commit the branch is made to follow.
Moved_Slip(sha) == head' = 0 /\ main' = sha

Moved(sha) == head' = sha /\ UNCHANGED main

Written(tree, sha, files) == [f \in GitFiles |-> IF f \in files THEN commits[sha].tree[f] ELSE tree[f]]

----
\* Those who work in the tree.

Unsettled == [r \in Restores |-> [restore[r] EXCEPT !.calm = (restore[r].at = "idle")]]

\* A content no file had before, the least of them.
Contents ==
  UNION {{commits[i].tree[f] : i \in 1..Len(commits)} \cup {latest[f], index[f]}
           \cup {restore[r].held[f] : r \in Restores} : f \in GitFiles}
FreshContent(v) == v - 1 \in Contents /\ \A c \in Contents : c < v

Edit(f) ==
  /\ \E v \in 0..MaxEdits :
       /\ v # work[f] /\ (v = Absent \/ FreshContent(v))
       /\ work' = [work EXCEPT ![f] = v] /\ latest' = [latest EXCEPT ![f] = v]
  /\ restore' = Unsettled
  /\ UNCHANGED <<commits, main, head, index, locked, tip, gitFaults>>

\* They commit everything; a lock that is in the way they remove.
CommitAll ==
  /\ Commit(work)
  /\ locked' = FALSE /\ restore' = Unsettled
  /\ UNCHANGED <<work, latest, gitFaults>>

Unlock ==
  /\ locked /\ locked' = FALSE
  /\ UNCHANGED <<commits, main, head, index, work, latest, tip, restore, gitFaults>>

----
\* Checkout.

\* Service.Commits, log --all: the newest commits some ref reaches.
Listed ==
  LET reached == commits[main].line \cup commits[HeadId].line
  IN {c \in reached : Cardinality({d \in reached : d > c}) < CommitLimit}

NewRestore == [at |-> "idle", sha |-> 1, message |-> FALSE, held |-> [f \in GitFiles |-> Absent],
               checkpoint |-> 0, calm |-> TRUE]

Answered(r, what) == [restore[r] EXCEPT !.at = what]

\* A command that changes nothing fails, or its time is up.
Failure(r) == IF restore[r].at = "resolve" \/ restore[r].at = "status" \/ restore[r].at = "describe" THEN "failed" ELSE "conflict"

\* The drawer may have listed the commit long before.
AskSwitch(r, message) ==
  /\ restore[r].at = "idle"
  /\ \E sha \in 1..Len(commits) :
       restore' = [restore EXCEPT ![r] = [NewRestore EXCEPT !.at = "resolve", !.sha = sha, !.message = message]]
  /\ UNCHANGED <<commits, main, head, index, work, locked, latest, tip, gitFaults>>

\* repository, verifyCommit
ResolveSha(r) ==
  /\ restore[r].at = "resolve"
  /\ restore' = [restore EXCEPT ![r].at = "status"]
  /\ UNCHANGED <<commits, main, head, index, work, locked, latest, tip, gitFaults>>

\* A clean tree is switched, a dirty one needs a message for its checkpoint.
ReadStatus(r) ==
  /\ restore[r].at = "status"
  /\ restore' = [restore EXCEPT ![r].at = IF Dirty = {} THEN "checkout" ELSE IF restore[r].message THEN "stage" ELSE "dirty"]
  /\ UNCHANGED <<commits, main, head, index, work, locked, latest, tip, gitFaults>>

StageAll(r) ==
  /\ restore[r].at = "stage" /\ ~locked
  /\ index' = Staged
  /\ restore' = [Unsettled EXCEPT ![r] = [restore[r] EXCEPT !.at = "restat", !.held = work]]
  /\ UNCHANGED <<commits, main, head, work, locked, latest, tip, gitFaults>>

CheckStaged(r) ==
  /\ restore[r].at = "restat"
  /\ restore' = [restore EXCEPT ![r] = IF Dirty = {} THEN Answered(r, "conflict") ELSE [@ EXCEPT !.at = "commit"]]
  /\ UNCHANGED <<commits, main, head, index, work, locked, latest, tip, gitFaults>>

CreateCheckpoint(r) ==
  /\ restore[r].at = "commit" /\ ~locked
  /\ Commit(index)
  /\ restore' = [Unsettled EXCEPT ![r] = [restore[r] EXCEPT !.at = "head"]]
  /\ UNCHANGED <<work, locked, latest, gitFaults>>

\* The checkpoint is the commit HEAD names by then.
ReadCheckpoint(r) ==
  /\ restore[r].at = "head"
  /\ restore' = [restore EXCEPT ![r].at = "checkout", ![r].checkpoint = HeadId]
  /\ UNCHANGED <<commits, main, head, index, work, locked, latest, tip, gitFaults>>

CheckoutDetached(r) ==
  LET sha == restore[r].sha
  IN /\ restore[r].at = "checkout" /\ ~locked /\ Free(sha)
     /\ Moved(sha)
     /\ index' = Written(index, sha, ReplacedFiles(sha)) /\ work' = Written(work, sha, ReplacedFiles(sha))
     /\ restore' = [Unsettled EXCEPT ![r] = [restore[r] EXCEPT !.at = "describe"]]
     /\ UNCHANGED <<commits, locked, latest, tip, gitFaults>>

\* describeRepository, and the answer
DescribeAfter(r) ==
  /\ restore[r].at = "describe"
  /\ restore' = [restore EXCEPT ![r].at = "switched"]
  /\ UNCHANGED <<commits, main, head, index, work, locked, latest, tip, gitFaults>>

\* git refuses: the lock of a killed command, nothing to commit, or changes that
\* the checkout would overwrite.
Refuse(r) ==
  /\ \/ restore[r].at \in {"stage", "commit", "checkout"} /\ locked
     \/ restore[r].at = "commit" /\ index = HeadTree
     \/ restore[r].at = "checkout" /\ ~Free(restore[r].sha)
  /\ restore' = [restore EXCEPT ![r] = Answered(r, "conflict")]
  /\ UNCHANGED <<commits, main, head, index, work, locked, latest, tip, gitFaults>>

\* A command is killed: one that reads leaves nothing, one that writes leaves its
\* lock, and a checkout some of the files it was to replace.
KillCommand(r) ==
  /\ restore[r].at \in {"resolve", "status", "stage", "restat", "commit", "head", "checkout", "describe"}
  /\ gitFaults < MaxGitFaults /\ gitFaults' = gitFaults + 1
  /\ IF restore[r].at \in {"stage", "commit", "checkout"} /\ ~locked
       THEN /\ locked' = TRUE
            /\ IF restore[r].at = "checkout" /\ Free(restore[r].sha)
                 THEN \E files \in SUBSET ReplacedFiles(restore[r].sha) : work' = Written(work, restore[r].sha, files)
                 ELSE UNCHANGED work
            /\ restore' = [Unsettled EXCEPT ![r] = Answered(r, Failure(r))]
       ELSE /\ restore' = [restore EXCEPT ![r] = Answered(r, Failure(r))] /\ UNCHANGED <<work, locked>>
  /\ UNCHANGED <<commits, main, head, index, latest, tip>>

\* The drawer takes the answer.
Settle(r) ==
  /\ restore[r].at \in {"switched", "dirty", "conflict", "failed"}
  /\ restore' = [restore EXCEPT ![r] = NewRestore]
  /\ UNCHANGED <<commits, main, head, index, work, locked, latest, tip, gitFaults>>

GitInit ==
  /\ commits = <<[tree |-> [f \in GitFiles |-> 1], line |-> {1}],
                 [tree |-> [f \in GitFiles |-> IF f = CHOOSE g \in GitFiles : TRUE THEN Absent ELSE 2], line |-> {1, 2}]>>
  /\ main = 2 /\ tip = 2 /\ head = 0
  /\ index = commits[2].tree /\ work = index /\ latest = index
  /\ locked = FALSE
  /\ restore = [r \in Restores |-> NewRestore]
  /\ gitFaults = 0

GitNext ==
  \/ \E f \in GitFiles : Edit(f)
  \/ CommitAll \/ Unlock
  \/ \E r \in Restores :
       \/ \E message \in BOOLEAN : AskSwitch(r, message)
       \/ ResolveSha(r) \/ ReadStatus(r) \/ StageAll(r) \/ CheckStaged(r) \/ CreateCheckpoint(r)
       \/ ReadCheckpoint(r) \/ CheckoutDetached(r) \/ DescribeAfter(r)
       \/ Refuse(r) \/ KillCommand(r) \/ Settle(r)

GitSpec == GitInit /\ [][GitNext]_gitVars

----
GitTypeOK ==
  /\ {main, tip, HeadId} \subseteq 1..Len(commits)
  /\ index \in [GitFiles -> Nat] /\ work \in [GitFiles -> Nat] /\ latest \in [GitFiles -> Nat]
  /\ locked \in BOOLEAN

InSomeCommit(f, v) == \E i \in 1..Len(commits) : commits[i].tree[f] = v

\* What was last written to a file is never lost by switching to another commit,
\* whoever writes, commits or switches meanwhile and whichever command is killed:
\* it is in the work tree or in a commit (githistory/service.go:117-156).
NothingLost == \A f \in GitFiles : latest[f] \in {Absent, work[f]} \/ InSomeCommit(f, latest[f])

\* Once a switch has made its checkpoint, every file it found changed is in a
\* commit as it found it, unless it was written again since.
CheckpointWhole ==
  \A r \in Restores : restore[r].at \in {"head", "checkout", "describe", "switched"} =>
    \A f \in GitFiles : restore[r].held[f] \in {Absent, latest[f]} /\ latest[f] = restore[r].held[f]
                          => latest[f] = Absent \/ InSomeCommit(f, latest[f])

\* A switch nothing crossed leaves the tree of the commit it was asked for, and
\* not a file besides, on no branch.
SwitchedExactly ==
  \A r \in Restores : restore[r].at = "switched" /\ restore[r].calm =>
    /\ HeadId = restore[r].sha /\ head = HeadId
    /\ work = commits[head].tree /\ index = work

\* A switch never moves the branch: it stays at the last commit made on it.
BranchStays == main = tip

OfferedAgain(r) ==
  restore[r].at = "switched" /\ restore[r].calm /\ restore[r].checkpoint # 0 => restore[r].checkpoint \in Listed

\* The checkpoint a switch answers with is there to be switched back to, if it was
\* made on the branch.
CheckpointOffered == \A r \in Restores : restore[r].checkpoint \in commits[main].line => OfferedAgain(r)

GitInvariant ==
  GitTypeOK /\ NothingLost /\ CheckpointWhole /\ SwitchedExactly /\ BranchStays /\ CheckpointOffered

\* Not so: no listing offers a checkpoint that was made on a detached HEAD.
CheckpointsListed == \A r \in Restores : OfferedAgain(r)
====
