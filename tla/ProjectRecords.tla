---- MODULE ProjectRecords ----
\* What the server keeps about a project, in six places: its meta.json and
\* the slug index (stores/fileproject), its workspace directory, its
\* container, its secrets and its members (stores/fileprojectsecrets,
\* fileprojectaccess).  The requests of project_handler.go are chains of
\* steps over those places (service/project/service.go, secret_store.go,
\* access_list.go); a step is one call to a store or to LXD.
\*
\* All names have the same slug but for its suffix, a project has one
\* secret and one limit, and a container is there or not: what happens to
\* a container is ProjectContainer's.
EXTENDS Naturals, Sequences, FiniteSets, FiniteSetsExt

CONSTANTS
  RecordCalls,      \* requests that may be under way at once
  ProjectNames,     \* names, with case and spaces folded
  People,           \* emails of registered users
  MaxProjects,      \* bound on projects
  MaxRecordCalls,   \* bound on requests
  MaxRecordFaults,  \* bound on failing steps and restarts
  NoMeta

VARIABLES
  metas,          \* meta.json: [name, slug, limits], or NoMeta
  bySlug,         \* Store.bySlug: the project of a slug, 0 when it is free
  workspaces,     \* slug -> [there, of, env]: whose files lie there, its .env
  containers,     \* slug -> [there, of, env, limits]
  secrets,        \* the stored value, 0 for none
  members,        \* the membership list
  runState,       \* projects whose run-state lock is held
  recordCall,     \* request -> where it stands
  projectsMade, recordCalls, recordFaults,
  soiled,         \* slugs that a deletion did not leave empty
  excused         \* project -> what may be out of step, and why is said below

recordStores == <<metas, bySlug, workspaces, containers, secrets, members>>
recordBounds == <<projectsMade, recordCalls, recordFaults>>
recordVars == <<recordStores, runState, recordCall, recordBounds, soiled, excused>>

ProjectIds == 1..MaxProjects
Slugs == 1..MaxProjects
Live == {id \in ProjectIds : metas[id] # NoMeta}

Metas == [name : ProjectNames, slug : Slugs, limits : 0..MaxRecordCalls]
Workspaces == [there : BOOLEAN, of : SUBSET ProjectIds, env : 0..MaxRecordCalls]
Containers == [there : BOOLEAN, of : SUBSET ProjectIds, env : 0..MaxRecordCalls, limits : 0..MaxRecordCalls]

ASSUME ProjectRecordsAssumption ==
  {MaxProjects, MaxRecordCalls, MaxRecordFaults} \subseteq Nat /\ NoMeta \notin Metas

NoWorkspace == [there |-> FALSE, of |-> {}, env |-> 0]
NoContainer == [there |-> FALSE, of |-> {}, env |-> 0, limits |-> 0]

\* value: the secret or limit a request brings, or that it has read; listed: the
\* secret as listed for .env; flag: the caller is an administrator, or the
\* container was missing.
IdleCall == [op |-> "none", id |-> 0, slug |-> 0, at |-> "idle", value |-> 0, listed |-> 0, flag |-> FALSE]

Step(c) == recordCall[c].at
IdOf(c) == recordCall[c].id
SlugOf(c) == recordCall[c].slug
ValueOf(c) == recordCall[c].value

----
\* The store of the records.

\* nameTakenLocked: looks at the indexed projects; one whose meta.json is gone
\* is being deleted and does not count.
NameTaken(name, except) ==
  \E s \in Slugs : /\ bySlug[s] \notin {0, except}
                   /\ metas[bySlug[s]] # NoMeta /\ metas[bySlug[s]].name = name

\* resolveSlugLocked: the first suffix that is free.
FreeSlug == Min({s \in Slugs : bySlug[s] = 0})

\* loadSlugIndex, when the server starts.
LoadedIndex == [s \in Slugs |-> LET ids == {id \in Live : metas[id].slug = s}
                                IN IF ids = {} THEN 0 ELSE Max(ids)]

\* The stores of the secrets and of the members, under a lock of the project.
Stored(id, value) == [secrets EXCEPT ![id] = value]
Listed(id) == secrets[id]
WithMember(id, p) == [members EXCEPT ![id] = @ \cup {p}]
WithoutMember(id, p) == [members EXCEPT ![id] = @ \ {p}]

\* What a deletion takes, in this order.
\* (Slip: the slug is released before the workspace is gone.)
DeletionOrder_Slip == <<"container", "secrets", "access", "meta", "slug", "workspace">>
DeletionOrder == <<"container", "secrets", "access", "meta", "workspace", "slug">>

NextDeletion(at) ==
  LET i == CHOOSE i \in DOMAIN DeletionOrder : DeletionOrder[i] = at
  IN  IF i = Len(DeletionOrder) THEN "end" ELSE DeletionOrder[i + 1]

\* The requests that read the secrets of a project and write them elsewhere, and
\* those that write its limits.
EnvOps == {"create", "start", "upgrade", "set", "unset"}
LimitOps == {"create", "start", "upgrade", "limit"}

Busy(id, ops) == \E c \in RecordCalls : IdOf(c) = id /\ recordCall[c].op \in ops
Others(c, id, ops) == \E d \in RecordCalls \ {c} : IdOf(d) = id /\ recordCall[d].op \in ops

\* A deletion and a request that adds to the project.
Adding == {"create", "set", "unset", "join"}
Overtakes(c, id, op) ==
  \/ op \in Adding /\ Others(c, id, {"delete"})
  \/ op = "delete" /\ Others(c, id, Adding)

\* A request whose steps fall between those of another may leave the copies of
\* what both write behind the record.
Crossing(c, id, op) ==
  (IF op \in EnvOps /\ Others(c, id, EnvOps) THEN {"file", "env"} ELSE {})
    \cup (IF op \in LimitOps /\ Others(c, id, LimitOps) THEN {"limits"} ELSE {})
    \cup (IF op = "leave" /\ Others(c, id, {"leave"}) THEN {"members"} ELSE {})
    \cup (IF Overtakes(c, id, op) THEN {"left"} ELSE {})

\* ... and one that begins by itself brings them up to date.
Settling(op) ==
  CASE op \in {"set", "unset"} -> {"file", "env"}
    [] op = "upgrade" -> {"env"}
    [] op = "limit" -> {"limits"}
    [] OTHER -> {}

----
RecordsInit ==
  /\ metas = [id \in ProjectIds |-> NoMeta]
  /\ bySlug = [s \in Slugs |-> 0]
  /\ workspaces = [s \in Slugs |-> NoWorkspace]
  /\ containers = [s \in Slugs |-> NoContainer]
  /\ secrets = [id \in ProjectIds |-> 0]
  /\ members = [id \in ProjectIds |-> {}]
  /\ runState = {} /\ recordCall = [c \in RecordCalls |-> IdleCall]
  /\ projectsMade = 0 /\ recordCalls = 0 /\ recordFaults = 0
  /\ soiled = {} /\ excused = [id \in ProjectIds |-> {}]

\* A request on project id, from its first step.
Begins(c, op, id, at, value, flag) ==
  /\ recordCall[c] = IdleCall /\ recordCalls < MaxRecordCalls
  /\ recordCalls' = recordCalls + 1
  /\ recordCall' = [recordCall EXCEPT ![c] =
       [op |-> op, id |-> id, slug |-> metas[id].slug, at |-> at, value |-> value, listed |-> 0, flag |-> flag]]
  /\ LET crossing == Crossing(c, id, op)
     IN  excused' = [excused EXCEPT ![id] = IF crossing = {} THEN @ \ Settling(op) ELSE @ \cup crossing]
  /\ UNCHANGED <<recordStores, projectsMade, recordFaults, soiled>>

Proceeds(c, at) == recordCall' = [recordCall EXCEPT ![c].at = at]

\* The answer; it gives the run-state lock back if the request holds it.
Ends(c) ==
  /\ recordCall' = [recordCall EXCEPT ![c] = IdleCall]
  /\ runState' = IF recordCall[c].op \in {"start", "upgrade", "delete"}
                 THEN runState \ {IdOf(c)} ELSE runState

\* A step that reaches for the container or the workspace by the name it read,
\* while the project is being deleted or when it is gone.
Strays(c) == metas[IdOf(c)] = NoMeta \/ Busy(IdOf(c), {"delete"})
Soil(c) == soiled' = IF Strays(c) THEN soiled \cup {SlugOf(c)} ELSE soiled

RecordFault == recordFaults < MaxRecordFaults /\ recordFaults' = recordFaults + 1
Excuse(id, why) == excused' = [excused EXCEPT ![id] = @ \cup why]

----
\* Creation, and what it shares with a start and an upgrade.

\* Store.Create holds the index while it looks for the name and the slug.
CreateProject(c) ==
  /\ recordCall[c] = IdleCall /\ recordCalls < MaxRecordCalls /\ projectsMade < MaxProjects
  /\ \E name \in ProjectNames :
       /\ ~NameTaken(name, 0)
       /\ metas' = [metas EXCEPT ![projectsMade + 1] = [name |-> name, slug |-> FreeSlug, limits |-> 0]]
  /\ bySlug' = [bySlug EXCEPT ![FreeSlug] = projectsMade + 1]
  /\ recordCall' = [recordCall EXCEPT ![c] = [IdleCall EXCEPT
       !.op = "create", !.id = projectsMade + 1, !.slug = FreeSlug, !.at = "seed", !.flag = TRUE]]
  /\ projectsMade' = projectsMade + 1 /\ recordCalls' = recordCalls + 1
  /\ UNCHANGED <<workspaces, containers, secrets, members, runState, recordFaults, soiled, excused>>

\* accessList.seed: best effort.
Seed(c) ==
  /\ Step(c) = "seed" /\ Proceeds(c, "ensure")
  /\ \/ /\ \E p \in People : members' = WithMember(IdOf(c), p)
        /\ UNCHANGED <<recordFaults, excused>>
     \/ RecordFault /\ Excuse(IdOf(c), {"members"}) /\ UNCHANGED members
  /\ UNCHANGED <<metas, bySlug, workspaces, containers, secrets, runState, projectsMade, recordCalls, soiled>>

\* Start: the record and the state of the container, under the run-state lock.
StartProject(c) ==
  \E id \in Live \ runState :
    /\ Begins(c, "start", id, "ensure", metas[id].limits, ~containers[metas[id].slug].there)
    /\ runState' = runState \cup {id}

UpgradeProject(c) ==
  \E id \in Live \ runState :
    /\ Begins(c, "upgrade", id, IF containers[metas[id].slug].there THEN "drop" ELSE "ensure",
              metas[id].limits, TRUE)
    /\ runState' = runState \cup {id}

\* An upgrade deletes the container it replaces.
DropContainer(c) ==
  /\ Step(c) = "drop"
  /\ \/ /\ containers' = [containers EXCEPT ![SlugOf(c)] = NoContainer]
        /\ Proceeds(c, "ensure") /\ UNCHANGED <<runState, recordFaults, excused>>
     \/ RecordFault /\ Ends(c) /\ Excuse(IdOf(c), {"env"}) /\ UNCHANGED containers
  /\ UNCHANGED <<metas, bySlug, workspaces, secrets, members, projectsMade, recordCalls, soiled>>

\* Ensure with the record as it was read: a container that is missing is
\* launched on the workspace, and a limit that was set is applied.
Ensured(c) ==
  LET old == containers[SlugOf(c)]
  IN  [old EXCEPT !.there = TRUE, !.of = @ \cup {IdOf(c)},
                  !.limits = IF ValueOf(c) # 0 THEN ValueOf(c) ELSE @]

EnsureContainer(c) ==
  /\ Step(c) = "ensure"
  /\ \/ /\ containers' = [containers EXCEPT ![SlugOf(c)] = Ensured(c)]
        /\ workspaces' = [workspaces EXCEPT ![SlugOf(c)].there = TRUE, ![SlugOf(c)].of = @ \cup {IdOf(c)}]
        /\ IF recordCall[c].flag THEN Proceeds(c, "list") /\ UNCHANGED runState ELSE Ends(c)
        /\ Soil(c)
        /\ UNCHANGED <<recordFaults, excused>>
     \/ /\ RecordFault /\ Ends(c) /\ Excuse(IdOf(c), {"limits"})
        /\ UNCHANGED <<containers, workspaces, soiled>>
  /\ UNCHANGED <<metas, bySlug, secrets, members, projectsMade, recordCalls>>

\* syncContainer lists the stored secrets ...
ListForContainer(c) ==
  /\ Step(c) = "list" /\ recordCall[c].op \notin {"set", "unset"}
  /\ recordCall' = [recordCall EXCEPT ![c].at = "apply", ![c].value = Listed(IdOf(c))]
  /\ UNCHANGED <<recordStores, runState, recordBounds, soiled, excused>>

\* ... and ApplyDiff sets them; nothing is removed, and a failure is logged.
\* (Slip: a container that was launched anew keeps the environment it has.)
Applied_Slip(c) == containers
Applied(c) ==
  IF ValueOf(c) = 0 /\ recordCall[c].op # "unset" THEN containers
  ELSE [containers EXCEPT ![SlugOf(c)].env = ValueOf(c)]

ApplyDiff(c) ==
  /\ Step(c) = "apply" /\ Ends(c)
  /\ \/ /\ containers' = IF containers[SlugOf(c)].there THEN Applied(c) ELSE containers
        /\ UNCHANGED <<recordFaults, excused>>
     \/ RecordFault /\ Excuse(IdOf(c), {"env"}) /\ UNCHANGED containers
  /\ Soil(c)
  /\ UNCHANGED <<metas, bySlug, workspaces, secrets, members, projectsMade, recordCalls>>

----
\* Secrets: the store, the .env of the workspace, the container.

SetSecret(c) ==
  /\ \E id \in Live : \/ Begins(c, "set", id, "store", recordCalls + 1, FALSE)
                      \/ Begins(c, "unset", id, "store", 0, FALSE)
  /\ UNCHANGED runState

StoreSecret(c) ==
  /\ Step(c) = "store"
  /\ \/ /\ secrets' = Stored(IdOf(c), ValueOf(c))
        /\ Proceeds(c, "list") /\ UNCHANGED <<runState, recordFaults, excused>>
     \/ RecordFault /\ Ends(c) /\ Excuse(IdOf(c), {"file", "env"}) /\ UNCHANGED secrets
  /\ UNCHANGED <<metas, bySlug, workspaces, containers, members, projectsMade, recordCalls, soiled>>

\* syncEnvFile: what is listed now is written in a step of its own.
ListForFile(c) ==
  /\ Step(c) = "list" /\ recordCall[c].op \in {"set", "unset"}
  /\ recordCall' = [recordCall EXCEPT ![c].at = "file", ![c].listed = Listed(IdOf(c))]
  /\ UNCHANGED <<recordStores, runState, recordBounds, soiled, excused>>

\* The file is replaced, or removed when there is no secret; without a workspace
\* it cannot be written, which is logged.
WriteEnvFile(c) ==
  /\ Step(c) = "file" /\ Proceeds(c, "apply")
  /\ \/ /\ workspaces[SlugOf(c)].there
        /\ workspaces' = [workspaces EXCEPT ![SlugOf(c)].env = recordCall[c].listed]
        /\ UNCHANGED <<recordFaults, excused>>
     \/ /\ ~workspaces[SlugOf(c)].there /\ Excuse(IdOf(c), {"file"})
        /\ UNCHANGED <<workspaces, recordFaults>>
     \/ RecordFault /\ Excuse(IdOf(c), {"file"}) /\ UNCHANGED workspaces
  /\ Soil(c)
  /\ UNCHANGED <<metas, bySlug, containers, secrets, members, runState, projectsMade, recordCalls>>

----
\* Names, limits and members.

\* Store.Update under the index; the slug stays.
RenameProject(c) ==
  /\ recordCall[c] = IdleCall /\ recordCalls < MaxRecordCalls
  /\ \E id \in Live, name \in ProjectNames :
       /\ name # metas[id].name /\ ~NameTaken(name, id)
       /\ metas' = [metas EXCEPT ![id].name = name]
  /\ recordCalls' = recordCalls + 1
  /\ UNCHANGED <<bySlug, workspaces, containers, secrets, members, runState, recordCall,
                 projectsMade, recordFaults, soiled, excused>>

\* SetContainerLimits: the container first, if there is one, then the record.
SetLimits(c) ==
  /\ \E id \in Live, value \in {0, recordCalls + 1} :
       Begins(c, "limit", id, IF containers[metas[id].slug].there THEN "instance" ELSE "record", value, TRUE)
  /\ UNCHANGED runState

LimitInstance(c) ==
  /\ Step(c) = "instance"
  /\ \/ /\ containers[SlugOf(c)].there
        /\ containers' = [containers EXCEPT ![SlugOf(c)].limits = ValueOf(c)]
        /\ Proceeds(c, "record") /\ UNCHANGED <<recordFaults, excused, runState>>
     \/ /\ ~containers[SlugOf(c)].there /\ Ends(c) /\ Excuse(IdOf(c), {"limits"})
        /\ UNCHANGED <<containers, recordFaults>>
     \/ RecordFault /\ Ends(c) /\ Excuse(IdOf(c), {"limits"}) /\ UNCHANGED containers
  /\ Soil(c)
  /\ UNCHANGED <<metas, bySlug, workspaces, secrets, members, projectsMade, recordCalls>>

LimitRecord(c) ==
  /\ Step(c) = "record" /\ Ends(c)
  /\ \/ /\ metas' = [metas EXCEPT ![IdOf(c)] = IF @ = NoMeta THEN @ ELSE [@ EXCEPT !.limits = ValueOf(c)]]
        /\ UNCHANGED <<recordFaults, excused>>
     \/ RecordFault /\ Excuse(IdOf(c), {"limits"}) /\ UNCHANGED metas
  /\ UNCHANGED <<bySlug, workspaces, containers, secrets, members, projectsMade, recordCalls, soiled>>

\* handleAccess: a registered user joins; somebody is removed, by anybody as
\* long as one stays, or by an administrator.  value is who.
Join(c) ==
  /\ \E id \in Live : Begins(c, "join", id, "add", 0, FALSE)
  /\ UNCHANGED runState

AddAccess(c) ==
  /\ Step(c) = "add" /\ Ends(c)
  /\ \E p \in People : members' = WithMember(IdOf(c), p)
  /\ Excuse(IdOf(c), {})
  /\ UNCHANGED <<metas, bySlug, workspaces, containers, secrets, recordBounds, soiled>>

\* (Slip: whoever asks may remove the last member.)
MayRemove_Slip(id, admin) == TRUE
MayRemove(id, admin) == admin \/ Cardinality(members[id]) > 1

Leave(c) ==
  /\ \E id \in Live, admin \in BOOLEAN :
       MayRemove(id, admin) /\ Begins(c, "leave", id, "remove", 0, admin)
  /\ UNCHANGED runState

RemoveAccess(c) ==
  /\ Step(c) = "remove" /\ Ends(c)
  /\ \E p \in People :
       /\ members' = WithoutMember(IdOf(c), p)
       /\ Excuse(IdOf(c), IF recordCall[c].flag THEN {"members"} ELSE {})
  /\ UNCHANGED <<metas, bySlug, workspaces, containers, secrets, recordBounds, soiled>>

----
\* Deletion.

DeleteProject(c) ==
  \E id \in Live \ runState :
    Begins(c, "delete", id, DeletionOrder[1], 0, TRUE) /\ runState' = runState \cup {id}

\* One of the steps takes its share; the records of containers, secrets and
\* members may be left behind, and a meta.json that stays ends the deletion.
DeleteStep(c, at) ==
  /\ Step(c) = at
  /\ IF NextDeletion(at) = "end" THEN Ends(c) ELSE Proceeds(c, NextDeletion(at)) /\ UNCHANGED runState

DeleteContainer(c) ==
  /\ DeleteStep(c, "container")
  /\ \/ containers' = [containers EXCEPT ![SlugOf(c)] = NoContainer] /\ UNCHANGED <<recordFaults, soiled>>
     \/ RecordFault /\ soiled' = soiled \cup {SlugOf(c)} /\ UNCHANGED containers
  /\ UNCHANGED <<metas, bySlug, workspaces, secrets, members, projectsMade, recordCalls, excused>>

DeleteSecrets(c) ==
  /\ DeleteStep(c, "secrets")
  /\ \/ secrets' = [secrets EXCEPT ![IdOf(c)] = 0] /\ Excuse(IdOf(c), {"file"}) /\ UNCHANGED recordFaults
     \/ RecordFault /\ Excuse(IdOf(c), {"left"}) /\ UNCHANGED secrets
  /\ UNCHANGED <<metas, bySlug, workspaces, containers, members, projectsMade, recordCalls, soiled>>

DeleteAccess(c) ==
  /\ DeleteStep(c, "access")
  /\ \/ members' = [members EXCEPT ![IdOf(c)] = {}] /\ Excuse(IdOf(c), {"members"}) /\ UNCHANGED recordFaults
     \/ RecordFault /\ Excuse(IdOf(c), {"left"}) /\ UNCHANGED members
  /\ UNCHANGED <<metas, bySlug, workspaces, containers, secrets, projectsMade, recordCalls, soiled>>

DeleteMeta(c) ==
  /\ \/ /\ DeleteStep(c, "meta")
        /\ metas' = [metas EXCEPT ![IdOf(c)] = NoMeta] /\ UNCHANGED recordFaults
     \/ Step(c) = "meta" /\ RecordFault /\ Ends(c) /\ UNCHANGED metas
  /\ UNCHANGED <<bySlug, workspaces, containers, secrets, members, projectsMade, recordCalls, soiled, excused>>

DeleteWorkspace(c) ==
  /\ DeleteStep(c, "workspace")
  /\ \/ workspaces' = [workspaces EXCEPT ![SlugOf(c)] = NoWorkspace] /\ UNCHANGED <<recordFaults, soiled>>
     \/ RecordFault /\ soiled' = soiled \cup {SlugOf(c)} /\ UNCHANGED workspaces
  /\ UNCHANGED <<metas, bySlug, containers, secrets, members, projectsMade, recordCalls, excused>>

ReleaseSlug(c) ==
  /\ DeleteStep(c, "slug")
  /\ bySlug' = [bySlug EXCEPT ![SlugOf(c)] = 0]
  /\ UNCHANGED <<metas, workspaces, containers, secrets, members, recordBounds, soiled, excused>>

----
\* The server restarts: the requests are gone, the index is read from the
\* records, and Reconcile applies the limits that are set.
CutShort(id) == {recordCall[c].op : c \in {d \in RecordCalls : IdOf(d) = id}}

RecordsRestart ==
  /\ RecordFault
  /\ recordCall' = [c \in RecordCalls |-> IdleCall] /\ runState' = {}
  /\ bySlug' = LoadedIndex
  /\ containers' = [s \in Slugs |->
       LET id == LoadedIndex[s]
       IN  IF id # 0 /\ containers[s].there /\ metas[id].limits # 0
           THEN [containers[s] EXCEPT !.limits = metas[id].limits] ELSE containers[s]]
  /\ soiled' = soiled \cup {SlugOf(c) : c \in {d \in RecordCalls : recordCall[d].op \in {"delete", "create"}}}
  /\ excused' = [id \in ProjectIds |-> excused[id]
       \cup (IF CutShort(id) \cap EnvOps # {} THEN {"file", "env"} ELSE {})
       \cup (IF CutShort(id) \cap LimitOps # {} THEN {"limits"} ELSE {})
       \cup (IF "delete" \in CutShort(id) THEN {"left"} ELSE {})
       \cup (IF "create" \in CutShort(id) THEN {"members"} ELSE {})]
  /\ UNCHANGED <<metas, workspaces, secrets, members, projectsMade, recordCalls>>

RecordStep(c) ==
  \/ Seed(c) \/ DropContainer(c) \/ EnsureContainer(c) \/ ListForContainer(c) \/ ApplyDiff(c)
  \/ StoreSecret(c) \/ ListForFile(c) \/ WriteEnvFile(c)
  \/ LimitInstance(c) \/ LimitRecord(c) \/ AddAccess(c) \/ RemoveAccess(c)
  \/ DeleteContainer(c) \/ DeleteSecrets(c) \/ DeleteAccess(c) \/ DeleteMeta(c)
  \/ DeleteWorkspace(c) \/ ReleaseSlug(c)

RecordsNext ==
  \/ \E c \in RecordCalls :
       \/ CreateProject(c) \/ RenameProject(c) \/ StartProject(c) \/ UpgradeProject(c)
       \/ SetSecret(c) \/ SetLimits(c) \/ Join(c) \/ Leave(c) \/ DeleteProject(c)
       \/ RecordStep(c)
  \/ RecordsRestart

----
\* Properties.

RecordOps == EnvOps \cup LimitOps \cup {"none", "join", "leave", "delete"}
Stages == {"idle", "seed", "drop", "ensure", "list", "apply", "store", "file", "instance", "record",
           "add", "remove", "container", "secrets", "access", "meta", "workspace", "slug"}

RecordsTypeOK ==
  /\ metas \in [ProjectIds -> Metas \cup {NoMeta}] /\ bySlug \in [Slugs -> 0..MaxProjects]
  /\ workspaces \in [Slugs -> Workspaces] /\ containers \in [Slugs -> Containers]
  /\ secrets \in [ProjectIds -> 0..MaxRecordCalls] /\ members \in [ProjectIds -> SUBSET People]
  /\ recordCall \in [RecordCalls ->
       [op : RecordOps, id : 0..MaxProjects, slug : 0..MaxProjects, at : Stages,
        value : 0..MaxRecordCalls, listed : 0..MaxRecordCalls, flag : BOOLEAN]]
  /\ runState \subseteq ProjectIds /\ soiled \subseteq Slugs
  /\ projectsMade \in 0..MaxProjects /\ recordCalls \in 0..MaxRecordCalls
  /\ recordFaults \in 0..MaxRecordFaults
  /\ excused \in [ProjectIds -> SUBSET {"file", "env", "limits", "members", "left"}]

Excused(id, why) == why \in excused[id] \/ metas[id].slug \in soiled

\* The index finds every project, and only projects, or one that is being
\* deleted; no two have the same name or share a slug.
RecordsIndexed ==
  /\ \A id \in Live : bySlug[metas[id].slug] = id
  /\ \A s \in Slugs : bySlug[s] # 0 => bySlug[s] \in Live \/ Busy(bySlug[s], {"delete"})
  /\ \A i, j \in Live : i # j => metas[i].name # metas[j].name

\* A project finds in its workspace and its container what it put there and
\* nothing of a project that had the slug before it, and keeps its workspace,
\* unless a deletion failed, was cut short, or overtook the creation.
OwnSpace ==
  \A id \in Live :
    LET s == metas[id].slug
    IN  s \notin soiled => /\ workspaces[s].of \cup containers[s].of \subseteq {id}
                           /\ containers[s].there => workspaces[s].of = {id}

\* "keeps their three homes in sync": when no request is writing them, .env and
\* the environment of the container hold the stored secret, unless two writers
\* overlapped, a best-effort copy failed, or there was no workspace to write to.
SecretsInSync ==
  \A id \in Live : ~Busy(id, EnvOps) =>
    LET s == metas[id].slug
    IN  /\ Excused(id, "file") \/ (workspaces[s].there => workspaces[s].env = secrets[id])
        /\ Excused(id, "env") \/ (containers[s].there => containers[s].env = secrets[id])

\* The container runs under the limits its project records.
LimitsInSync ==
  \A id \in Live : ~Busy(id, LimitOps) =>
    LET s == metas[id].slug
    IN  Excused(id, "limits") \/ (containers[s].there => containers[s].limits = metas[id].limits)

\* "non-admins may not remove the last member of a project": it holds unless
\* two removals overlap.
MembersRemain ==
  \A id \in Live : ~Busy(id, {"create"}) => Excused(id, "members") \/ members[id] # {}

\* A deleted project leaves no secret and no members, unless a store failed or a
\* request that added some overlapped the deletion.
NothingLeft ==
  \A id \in 1..projectsMade \ Live :
    ~Busy(id, {"delete"}) => "left" \in excused[id] \/ (secrets[id] = 0 /\ members[id] = {})

\* What the server keeps about a project in six places agrees.
RecordsInvariant ==
  /\ RecordsTypeOK /\ RecordsIndexed /\ OwnSpace /\ SecretsInSync /\ LimitsInSync
  /\ MembersRemain /\ NothingLeft

\* Not so when two removals overlap: each saw two members (project_handler.go,
\* handleAccess).
LastMemberStays == \A id \in Live : members[id] = {} => \E c \in RecordCalls : recordCall[c].op = "create"
====
