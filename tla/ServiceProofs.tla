---- MODULE ServiceProofs ----
\* The services of the host that agents run on (the server's update, the
\* browser, what is installed in a container, the base image, the ledger
\* and the history of a workspace) keep what is stated of them, for every
\* value of the constants; the last section takes them and the components
\* of AgentProofs together, whatever is on the scene.
EXTENDS AgentProofs

----
\* The update of the server (SelfUpdate).

UpdateSpec == UpdateInit /\ [][UpdateNext]_selfUpdateVars

Tags == Releases \cup {FirstRelease}
Pids == Updaters \cup {NoUpdater}
ApplyType == [at : {"idle", "reset", "launched"}, target : Tags, kind : Kinds, pid : Pids]
RecordType == [pid : Pids, target : Tags, kind : Kinds]
UpdaterType == [phase : {"none", "running", "reporting", "gone"}, target : Tags, previous : Tags,
                kind : Kinds, ok : BOOLEAN]
HostType == [binary : Tags, line : {release[1] : release \in Tags}]

UpdateTypes ==
  /\ apply \in ApplyType /\ serving \in Tags /\ record \in RecordType
  /\ done \in [pid : Pids, ok : BOOLEAN] /\ updater \in [Updaters -> UpdaterType]
  /\ host \in HostType /\ strays \subseteq Updaters /\ unfinished \in BOOLEAN

\* The run that is under way or was the last: the one just launched, or the one on
\* record.
Current == IF apply.at = "launched" THEN apply.pid ELSE record.pid

\* The record and the Apply that is about to write it say what the updater does.
RecordTrue ==
  /\ serving = host.binary
  /\ apply.at # "idle" => record = NoRecord
  /\ apply.at = "launched" =>
       /\ apply.pid \in Updaters
       /\ updater[apply.pid].target = apply.target /\ updater[apply.pid].kind = apply.kind
  /\ record # NoRecord =>
       /\ record.pid \in Updaters
       /\ updater[record.pid].target = record.target /\ updater[record.pid].kind = record.kind
  /\ Current # NoUpdater => updater[Current].phase # "none"
  /\ \A u \in Updaters : updater[u].ok => updater[u].phase \in {"reporting", "gone"}

\* Unless a record was lost, the current run alone is alive and has the outcome.
OneUpdater ==
  strays = {} =>
    /\ \A u \in Updaters : ProcessAlive(u) => u = Current
    /\ done # NotDone => /\ done.pid \in Updaters /\ done.pid = Current
                         /\ updater[done.pid].phase = "gone" /\ done.ok = updater[done.pid].ok

\* A run that does not converge the host needs not: nor did any run before it.
Convergent(u) ==
  /\ updater[u].kind = "application" =>
       /\ ~Diverged /\ host.line = updater[u].target[1] /\ host.line = updater[u].previous[1]
  /\ updater[u].ok => host.line = updater[u].target[1]

HostConvergent ==
  strays = {} /\ ~unfinished =>
    /\ apply.at = "reset" /\ apply.kind = "application" =>
         ~Diverged /\ host.line = apply.target[1]
    /\ Current # NoUpdater => Convergent(Current)

UpdateInductive == UpdateTypes /\ RecordTrue /\ OneUpdater /\ HostConvergent

\* The process id that stands for no process is no updater's.
LEMMA NoUpdaterRuns == NoUpdater \notin Updaters
BY SelfUpdateAssumption DEF Updaters

\* The inductive invariant says what the run checks.
LEMMA UpdatesKept ==
  ASSUME UpdateInductive
  PROVE  UpdateInvariant
<1> USE NoUpdaterRuns
<1>0. UpdateTypes /\ RecordTrue /\ OneUpdater /\ HostConvergent BY DEF UpdateInductive
<1>1. UpdateTypeOK BY <1>0 DEF UpdateTypes, ApplyType, RecordType, UpdaterType, HostType, Pids, Tags, UpdateTypeOK
<1>2. UpdaterTracked BY <1>0 DEF OneUpdater, UpdaterTracked, Current
<1>3. OutcomeIsItsOwn BY <1>0 DEF OneUpdater, RecordTrue, OutcomeIsItsOwn, Current
<1>4. SuccessConverged
 <2> SUFFICES ASSUME RunStatus = "succeeded", strays = {}, ~unfinished
               PROVE  host.line = record.target[1]
  BY DEF SuccessConverged
 <2>1. record # NoRecord /\ done # NotDone /\ done.ok BY DEF RunStatus
 <2>2. apply.at = "idle" /\ Current = record.pid /\ record.pid \in Updaters
  BY <1>0, <2>1 DEF RecordTrue, Current, UpdateTypes, ApplyType
 <2>3. updater[record.pid].ok /\ updater[record.pid].target = record.target BY <1>0, <2>1, <2>2 DEF OneUpdater, RecordTrue
 <2> QED BY <1>0, <2>2, <2>3 DEF HostConvergent, Convergent
<1> QED BY <1>1, <1>2, <1>3, <1>4 DEF UpdateInvariant

\* Nothing was launched, and the host runs its first release, at first.
LEMMA UpdateStart == UpdateInit => UpdateInductive
<1> SUFFICES ASSUME UpdateInit PROVE UpdateInductive OBVIOUS
<1>1. NoApply \in ApplyType /\ NoRecord \in RecordType /\ NotDone \in [pid : Pids, ok : BOOLEAN]
 BY DEF NoApply, NoRecord, NotDone, ApplyType, RecordType, Tags, Pids, Kinds
<1> DEFINE m == [phase |-> "none", target |-> FirstRelease, previous |-> FirstRelease,
                  kind |-> "application", ok |-> FALSE]
            h == [binary |-> FirstRelease, line |-> FirstRelease[1]]
<1>2. m \in UpdaterType /\ m.phase = "none" /\ ~m.ok BY DEF UpdaterType, Tags, Kinds
<1>3. h \in HostType /\ h.binary = FirstRelease BY DEF HostType, Tags
<1>4. updater = [u \in Updaters |-> m] /\ host = h BY DEF UpdateInit
<1> HIDE DEF m, h
<1>5. UpdateTypes BY <1>1, <1>2, <1>3, <1>4 DEF UpdateInit, UpdateTypes, Tags
<1>6. Current = NoUpdater BY DEF UpdateInit, Current, NoApply, NoRecord
<1> QED
 BY <1>2, <1>3, <1>4, <1>5, <1>6 DEF UpdateInit, UpdateInductive, RecordTrue, OneUpdater, HostConvergent,
    ProcessAlive, NoApply

\* Nobody changes the host when a run may be started, unless a record was lost.
LEMMA QuietAtReset ==
  ASSUME UpdateInductive, strays = {}, apply.at = "idle", RunStatus # "running"
  PROVE  \A u \in Updaters : ~ProcessAlive(u)
<1> USE NoUpdaterRuns
<1>1. Current = record.pid BY DEF Current
<1>2. CASE record = NoRecord BY <1>1, <1>2 DEF UpdateInductive, OneUpdater, NoRecord
<1>3. CASE record # NoRecord /\ done # NotDone BY <1>1, <1>3 DEF UpdateInductive, OneUpdater, ProcessAlive
<1>4. CASE record # NoRecord /\ done = NotDone BY <1>1, <1>4 DEF UpdateInductive, OneUpdater, RunStatus
<1> QED BY <1>2, <1>3, <1>4

\* A request that is accepted resets the record, when no updater is left at work.
LEMMA ResetStep ==
  ASSUME UpdateInductive, NEW target \in Releases, Reset(target)
  PROVE  UpdateInductive'
<1> USE NoUpdaterRuns
<1>0. UpdateTypes /\ RecordTrue /\ OneUpdater /\ HostConvergent BY DEF UpdateInductive
<1> DEFINE kind == KindFor(target)
            a == [at |-> "reset", target |-> target, kind |-> kind, pid |-> NoUpdater]
<1>1. /\ apply.at = "idle" /\ RunStatus # "running" /\ apply' = a /\ record' = NoRecord /\ done' = NotDone
      /\ unfinished' = (unfinished \/ (Diverged /\ ~(RunStatus = "failed" /\ record.target = target)))
      /\ UNCHANGED <<serving, updater, host, strays>>
 BY DEF Reset
<1>2. kind \in Kinds BY <1>0 DEF KindFor, ClassifyUpdate, Kinds, UpdateTypes, RecordType
<1>3. kind = "application" /\ strays = {} /\ ~unfinished' => ~Diverged /\ host.line = target[1]
 <2> SUFFICES ASSUME kind = "application", strays = {}, ~unfinished'
               PROVE  ~Diverged /\ host.line = target[1]
  OBVIOUS
 <2>1. CASE RunStatus = "failed" /\ record.target = target
  <3>1. record # NoRecord /\ record.kind = "application" BY <2>1 DEF RunStatus, KindFor
  <3>2. Current = record.pid /\ record.pid \in Updaters BY <1>0, <1>1, <3>1 DEF Current, RecordTrue
  <3> QED BY <1>0, <1>1, <2>1, <3>1, <3>2 DEF RecordTrue, HostConvergent, Convergent
 <2>2. CASE ~(RunStatus = "failed" /\ record.target = target)
  <3>1. ~Diverged /\ serving[1] = target[1] BY <1>1, <2>2 DEF KindFor, ClassifyUpdate
  <3> QED BY <1>0, <3>1 DEF RecordTrue, Diverged
 <2> QED BY <2>1, <2>2
<1> HIDE DEF kind
<1>4. a \in ApplyType /\ a.at = "reset" /\ a.kind = kind /\ a.target = target BY <1>2 DEF ApplyType, Tags, Pids
<1>5. NoRecord \in RecordType /\ NotDone \in [pid : Pids, ok : BOOLEAN] /\ NoRecord.pid = NoUpdater
 BY DEF NoRecord, NotDone, RecordType, Tags, Pids, Kinds
<1> HIDE DEF a
<1>6. UpdateTypes' BY <1>0, <1>1, <1>4, <1>5 DEF UpdateTypes
<1>7. Current' = NoUpdater BY <1>1, <1>4, <1>5 DEF Current
<1>8. RecordTrue' BY <1>0, <1>1, <1>4, <1>5, <1>7 DEF RecordTrue
<1>9. OneUpdater'
 <2>1. strays' = {} => \A u \in Updaters : ~ProcessAlive(u) BY <1>1, QuietAtReset
 <2>2. \A u \in Updaters : ProcessAlive(u)' = ProcessAlive(u) BY <1>1 DEF ProcessAlive
 <2> QED BY <1>1, <2>1, <2>2 DEF OneUpdater
<1>10. HostConvergent' BY <1>1, <1>3, <1>4, <1>7 DEF HostConvergent, Diverged
<1> QED BY <1>6, <1>8, <1>9, <1>10 DEF UpdateInductive

\* Apply ends, with or without a record, or the server restarts, while nothing
\* happens to the updaters.
LEMMA ApplyStep ==
  ASSUME UpdateInductive, LaunchFails \/ WriteRecord \/ RecordLost \/ ServerRestart
  PROVE  UpdateInductive'
<1> USE NoUpdaterRuns
<1>0. UpdateTypes /\ RecordTrue /\ OneUpdater /\ HostConvergent BY DEF UpdateInductive
<1>1. NoApply \in ApplyType /\ NoApply.at = "idle" BY DEF NoApply, ApplyType, Tags, Pids, Kinds
<1>2. /\ apply' = NoApply /\ UNCHANGED <<done, updater, host>> /\ serving' = host.binary
      /\ strays \subseteq strays' /\ (unfinished => unfinished')
 <2>1. CASE LaunchFails \/ WriteRecord \/ RecordLost
  <3>1. /\ apply' = NoApply /\ UNCHANGED <<done, updater, host, serving>>
        /\ strays \subseteq strays' /\ (unfinished => unfinished')
   <4>1. CASE LaunchFails BY <4>1 DEF LaunchFails
   <4>2. CASE WriteRecord BY <4>2 DEF WriteRecord
   <4>3. CASE RecordLost BY <4>3 DEF RecordLost
   <4> QED BY <2>1, <4>1, <4>2, <4>3
  <3> QED BY <1>0, <3>1 DEF RecordTrue
 <2>2. CASE ServerRestart BY <2>2 DEF ServerRestart, ServerStarts
 <2> QED BY <2>1, <2>2
<1>3. CASE WriteRecord
 <2> DEFINE m == [pid |-> apply.pid, target |-> apply.target, kind |-> apply.kind]
 <2>1. record' = m /\ apply.at = "launched" /\ UNCHANGED <<strays, unfinished>> BY <1>3 DEF WriteRecord
 <2>2. m \in RecordType /\ m.pid = apply.pid /\ m.target = apply.target /\ m.kind = apply.kind
  BY <1>0 DEF UpdateTypes, ApplyType, RecordType
 <2> HIDE DEF m
 <2>3. Current' = Current /\ Current = apply.pid BY <1>1, <1>2, <2>1, <2>2 DEF Current
 <2>4. UpdateTypes' BY <1>0, <1>1, <1>2, <2>1, <2>2 DEF UpdateTypes, HostType
 <2>5. RecordTrue' BY <1>0, <1>1, <1>2, <2>1, <2>2, <2>3 DEF RecordTrue
 <2>6. OneUpdater' BY <1>0, <1>2, <2>1, <2>3 DEF OneUpdater, ProcessAlive
 <2>7. HostConvergent' BY <1>0, <1>1, <1>2, <2>1, <2>3 DEF HostConvergent, Convergent, Diverged
 <2> QED BY <2>4, <2>5, <2>6, <2>7 DEF UpdateInductive
<1>4. CASE ~WriteRecord
 <2>1. /\ record' = record /\ strays' \subseteq Updaters /\ unfinished' \in BOOLEAN
       /\ apply.at = "launched" => strays' # {}
       /\ strays' = {} => strays = {}
  BY <1>0, <1>2, <1>4 DEF LaunchFails, RecordLost, ServerRestart, ServerStarts, UpdateTypes, RecordTrue
 <2>2. UpdateTypes' BY <1>0, <1>1, <1>2, <2>1 DEF UpdateTypes, HostType
 <2>3. strays' = {} => Current' = Current BY <1>1, <1>2, <2>1 DEF Current
 <2>3a. Current' = record.pid BY <1>1, <1>2, <2>1 DEF Current
 <2>4. RecordTrue'
  <3>1. Current' # NoUpdater => updater[Current'].phase # "none"
   <4>1. CASE apply.at = "launched" BY <1>0, <2>3a, <4>1 DEF RecordTrue, NoRecord
   <4>2. CASE apply.at # "launched" BY <1>0, <2>3a, <4>2 DEF RecordTrue, Current
   <4> QED BY <4>1, <4>2
  <3> QED BY <1>0, <1>1, <1>2, <2>1, <3>1 DEF RecordTrue
 <2>5. OneUpdater' BY <1>0, <1>2, <2>1, <2>3 DEF OneUpdater, ProcessAlive
 <2>6. HostConvergent' BY <1>0, <1>1, <1>2, <2>1, <2>3 DEF HostConvergent, Convergent, Diverged
 <2> QED BY <2>2, <2>4, <2>5, <2>6 DEF UpdateInductive
<1> QED BY <1>3, <1>4

\* The updater is launched for the release that was asked for.
LEMMA LaunchStep ==
  ASSUME UpdateInductive, NEW u \in Updaters, StartUpdater(u)
  PROVE  UpdateInductive'
<1> USE NoUpdaterRuns
<1>0. UpdateTypes /\ RecordTrue /\ OneUpdater /\ HostConvergent BY DEF UpdateInductive
<1> DEFINE m == [phase |-> "running", target |-> apply.target, previous |-> host.binary,
                  kind |-> apply.kind, ok |-> FALSE]
            a == [apply EXCEPT !.at = "launched", !.pid = u]
<1>1. /\ apply.at = "reset" /\ updater[u].phase = "none" /\ updater' = [updater EXCEPT ![u] = m] /\ apply' = a
      /\ UNCHANGED <<serving, record, done, host, strays, unfinished>>
 BY DEF StartUpdater
<1>2. /\ m \in UpdaterType /\ m.phase = "running" /\ m.target = apply.target
      /\ m.previous = host.binary /\ m.kind = apply.kind /\ ~m.ok
 BY <1>0 DEF UpdateTypes, ApplyType, HostType, UpdaterType
<1>3. a \in ApplyType /\ a.at = "launched" /\ a.pid = u /\ a.target = apply.target /\ a.kind = apply.kind
 BY <1>0 DEF UpdateTypes, ApplyType, Pids
<1> HIDE DEF m, a
<1>4. /\ updater' \in [Updaters -> UpdaterType] /\ updater'[u] = m
      /\ \A v \in Updaters : v # u => updater'[v] = updater[v]
 BY <1>0, <1>1, <1>2 DEF UpdateTypes
<1>5. Current' = u /\ Current = NoUpdater /\ record = NoRecord BY <1>0, <1>1, <1>3 DEF Current, RecordTrue, NoRecord
<1>6. UpdateTypes' BY <1>0, <1>1, <1>3, <1>4 DEF UpdateTypes
<1>7. RecordTrue' BY <1>0, <1>1, <1>2, <1>3, <1>4, <1>5 DEF RecordTrue
<1>8. OneUpdater' BY <1>0, <1>1, <1>2, <1>4, <1>5 DEF OneUpdater, ProcessAlive
<1>9. HostConvergent' BY <1>0, <1>1, <1>2, <1>3, <1>4, <1>5 DEF HostConvergent, Convergent, Diverged
<1> QED BY <1>6, <1>7, <1>8, <1>9 DEF UpdateInductive

\* The updater's own steps leave record and Apply as they are, or end Apply with
\* the server's restart.
LEMMA UpdaterStep ==
  ASSUME UpdateInductive, NEW u \in Updaters,
         Complete(u) \/ ScriptFails(u) \/ WriteDone(u) \/ UpdaterKilled(u)
  PROVE  UpdateInductive'
<1> USE NoUpdaterRuns
<1>0. UpdateTypes /\ RecordTrue /\ OneUpdater /\ HostConvergent BY DEF UpdateInductive
<1>1. UNCHANGED <<apply, serving, record, strays, unfinished>> /\ ProcessAlive(u)
      /\ host'.binary = host.binary
 <2>1. UNCHANGED <<apply, serving, record, strays, unfinished>> /\ ProcessAlive(u)
  BY DEF Complete, ScriptFails, WriteDone, UpdaterKilled, ProcessAlive
 <2>2. host'.binary = host.binary BY <1>0 DEF Complete, ScriptFails, WriteDone, UpdaterKilled, UpdateTypes, HostType
 <2> QED BY <2>1, <2>2
<1>2. PICK m \in UpdaterType :
        /\ updater' = [updater EXCEPT ![u] = m]
        /\ m.target = updater[u].target /\ m.kind = updater[u].kind /\ m.previous = updater[u].previous
        /\ m.phase \in {"reporting", "gone"}
        /\ Complete(u) => m.ok
        /\ ~Complete(u) => m.ok = updater[u].ok
        /\ WriteDone(u) => m.phase = "gone"
 <2> DEFINE k == updater[u]
             m1 == [k EXCEPT !.phase = "reporting", !.ok = TRUE]
             m2 == [k EXCEPT !.phase = "reporting"]
             m3 == [k EXCEPT !.phase = "gone"]
 <2>1. /\ k \in UpdaterType /\ m1 \in UpdaterType /\ m2 \in UpdaterType /\ m3 \in UpdaterType BY <1>0 DEF UpdateTypes, UpdaterType
 <2>2. /\ Complete(u) => updater' = [updater EXCEPT ![u] = m1]
       /\ ScriptFails(u) => updater' = [updater EXCEPT ![u] = m2]
       /\ WriteDone(u) \/ UpdaterKilled(u) => updater' = [updater EXCEPT ![u] = m3]
  BY DEF Complete, ScriptFails, WriteDone, UpdaterKilled
 <2>3. CASE Complete(u)
  <3>1. k.phase = "running" /\ ~WriteDone(u) BY <2>3 DEF Complete, WriteDone
  <3> QED BY <2>1, <2>2, <2>3, <3>1 DEF UpdaterType
 <2>4. CASE ScriptFails(u) /\ ~Complete(u)
  <3>1. k.phase = "running" /\ ~WriteDone(u) BY <2>4 DEF ScriptFails, WriteDone
  <3> QED BY <2>1, <2>2, <2>4, <3>1 DEF UpdaterType
 <2>5. CASE (WriteDone(u) \/ UpdaterKilled(u)) /\ ~Complete(u) BY <2>1, <2>2, <2>5 DEF UpdaterType
 <2> QED BY <2>3, <2>4, <2>5
<1>3. /\ updater' \in [Updaters -> UpdaterType] /\ updater'[u] = m
      /\ \A v \in Updaters : v # u => updater'[v] = updater[v]
 BY <1>0, <1>2 DEF UpdateTypes
<1>4. Current' = Current /\ (strays = {} => u = Current) BY <1>0, <1>1 DEF Current, OneUpdater
<1>5. /\ host' \in HostType /\ done' \in [pid : Pids, ok : BOOLEAN]
      /\ ~WriteDone(u) => done' = done
      /\ WriteDone(u) => done' = [pid |-> u, ok |-> m.ok]
      /\ ~Complete(u) => host' = host
      /\ Complete(u) => IF updater[u].kind = "infrastructure"
                        THEN host'.line = updater[u].target[1] ELSE host' = host
 <2>1. CASE Complete(u)
  <3>1. ~WriteDone(u) BY <2>1 DEF Complete, WriteDone
  <3>2. updater[u].target \in Tags BY <1>0 DEF UpdateTypes, UpdaterType
  <3> QED BY <1>0, <2>1, <3>1, <3>2 DEF Complete, UpdateTypes, HostType
 <2>2. CASE ~Complete(u) BY <1>0, <1>2, <2>2 DEF ScriptFails, WriteDone, UpdaterKilled, UpdateTypes, UpdaterType, Pids
 <2> QED BY <2>1, <2>2
<1>6. UpdateTypes' BY <1>0, <1>1, <1>3, <1>5 DEF UpdateTypes
<1>7. RecordTrue' BY <1>0, <1>1, <1>2, <1>3, <1>4 DEF RecordTrue
<1>8. OneUpdater'
 <2> SUFFICES ASSUME strays = {} PROVE OneUpdater' BY <1>1 DEF OneUpdater
 <2>1. \A v \in Updaters : ProcessAlive(v)' => v = Current BY <1>0, <1>3, <1>4 DEF OneUpdater, ProcessAlive
 <2>2. CASE WriteDone(u) BY <1>2, <1>3, <1>4, <1>5, <2>1, <2>2 DEF OneUpdater
 <2>3. CASE ~WriteDone(u)
  <3>1. done # NotDone => done.pid # u BY <1>0, <1>1 DEF OneUpdater, ProcessAlive
  <3> QED BY <1>0, <1>3, <1>4, <1>5, <2>1, <2>3, <3>1 DEF OneUpdater
 <2> QED BY <2>2, <2>3
<1>9. HostConvergent'
 <2> SUFFICES ASSUME strays = {}, ~unfinished PROVE HostConvergent' BY <1>1 DEF HostConvergent
 <2>1. u = Current /\ Convergent(u) /\ apply.at # "reset" BY <1>0, <1>4 DEF HostConvergent, RecordTrue, Current, NoRecord
 <2>2. Convergent(u)'
  <3>1. updater[u].kind \in Kinds BY <1>0 DEF UpdateTypes, UpdaterType
  <3>2. CASE updater[u].kind = "infrastructure" BY <1>2, <1>3, <1>5, <2>1, <3>2 DEF Convergent
  <3>3. CASE updater[u].kind = "application" BY <1>2, <1>3, <1>5, <2>1, <3>3 DEF Convergent, Diverged
  <3> QED BY <3>1, <3>2, <3>3 DEF Kinds
 <2> QED BY <1>1, <1>4, <2>1, <2>2 DEF HostConvergent
<1> QED BY <1>6, <1>7, <1>8, <1>9 DEF UpdateInductive

\* The binary is replaced, or put back, and the server restarts with it.
LEMMA BinaryStep ==
  ASSUME UpdateInductive, NEW u \in Updaters, ReplaceBinary(u) \/ RollBack(u)
  PROVE  UpdateInductive'
<1> USE NoUpdaterRuns
<1>0. UpdateTypes /\ RecordTrue /\ OneUpdater /\ HostConvergent BY DEF UpdateInductive
<1>1. NoApply \in ApplyType /\ NoApply.at = "idle" BY DEF NoApply, ApplyType, Tags, Pids, Kinds
<1>2. updater[u] \in UpdaterType /\ updater[u].phase = "running" BY <1>0 DEF ReplaceBinary, RollBack, UpdateTypes
<1>3. PICK binary \in {updater[u].target, updater[u].previous} :
        /\ host' = [host EXCEPT !.binary = binary] /\ ServerStarts(binary)
        /\ ReplaceBinary(u) => binary = updater[u].target
 <2>1. CASE ReplaceBinary(u) BY <2>1 DEF ReplaceBinary
 <2>2. CASE RollBack(u) /\ ~ReplaceBinary(u) BY <2>2 DEF RollBack
 <2> QED BY <2>1, <2>2
<1>4. /\ host' \in HostType /\ host'.binary = binary /\ host'.line = host.line /\ serving' = binary
      /\ binary \in Tags /\ apply' = NoApply
 BY <1>0, <1>2, <1>3 DEF UpdateTypes, UpdaterType, HostType, ServerStarts
<1>5. /\ UNCHANGED <<record, done>> /\ updater' \in [Updaters -> UpdaterType]
      /\ \A v \in Updaters : v # u => updater'[v] = updater[v]
      /\ updater'[u].phase \in {"running", "reporting"} /\ updater'[u].ok = updater[u].ok
      /\ updater'[u].kind = updater[u].kind /\ updater'[u].target = updater[u].target
      /\ updater'[u].previous = updater[u].previous
 <2>1. CASE ReplaceBinary(u) BY <1>0, <1>2, <2>1 DEF ReplaceBinary, UpdateTypes
 <2>2. CASE RollBack(u)
  <3> DEFINE m == [updater[u] EXCEPT !.phase = "reporting"]
  <3>1. updater' = [updater EXCEPT ![u] = m] /\ UNCHANGED <<record, done>> BY <2>2 DEF RollBack
  <3>2. /\ m \in UpdaterType /\ m.phase = "reporting" /\ m.ok = updater[u].ok
        /\ m.kind = updater[u].kind /\ m.target = updater[u].target /\ m.previous = updater[u].previous
   BY <1>2 DEF UpdaterType
  <3> HIDE DEF m
  <3> QED BY <1>0, <3>1, <3>2 DEF UpdateTypes
 <2> QED BY <2>1, <2>2
<1>6. /\ strays' \subseteq Updaters /\ unfinished' \in BOOLEAN
      /\ strays' = {} => strays = {} /\ apply.at # "launched"
      /\ unfinished => unfinished'
 BY <1>0, <1>3 DEF ServerStarts, UpdateTypes, RecordTrue
<1>7. Current' = record.pid BY <1>1, <1>4, <1>5 DEF Current
<1>8. strays' = {} => Current' = Current /\ u = Current
 <2>1. ProcessAlive(u) BY <1>2 DEF ProcessAlive
 <2> QED BY <1>0, <1>6, <1>7, <2>1 DEF Current, OneUpdater
<1>9. UpdateTypes' BY <1>0, <1>1, <1>4, <1>5, <1>6 DEF UpdateTypes
<1>10. RecordTrue'
 <2>1. Current' # NoUpdater => updater'[Current'].phase # "none"
  <3>1. CASE apply.at = "launched" BY <1>0, <1>7, <3>1 DEF RecordTrue, NoRecord
  <3>2. CASE apply.at # "launched"
   <4>1. Current = record.pid BY <3>2 DEF Current
   <4>2. record.pid # NoUpdater => record.pid \in Updaters BY <1>0 DEF UpdateTypes, RecordType, Pids
   <4> QED BY <1>0, <1>5, <1>7, <4>1, <4>2 DEF RecordTrue
  <3> QED BY <3>1, <3>2
 <2>2. record' # NoRecord =>
         /\ record'.pid \in Updaters
         /\ updater'[record'.pid].target = record'.target /\ updater'[record'.pid].kind = record'.kind
  BY <1>0, <1>5 DEF RecordTrue
 <2>3. \A v \in Updaters : updater'[v].ok => updater'[v].phase \in {"reporting", "gone"} BY <1>0, <1>2, <1>5 DEF RecordTrue
 <2> QED BY <1>1, <1>4, <2>1, <2>2, <2>3 DEF RecordTrue
<1>11. OneUpdater'
 <2> SUFFICES ASSUME strays' = {} PROVE OneUpdater' BY DEF OneUpdater
 <2>1. \A v \in Updaters : ProcessAlive(v)' => v = Current' BY <1>0, <1>5, <1>6, <1>8 DEF OneUpdater, ProcessAlive
 <2>2. done = NotDone BY <1>0, <1>2, <1>6, <1>8 DEF OneUpdater
 <2> QED BY <1>5, <2>1, <2>2 DEF OneUpdater
<1>12. HostConvergent'
 <2> SUFFICES ASSUME strays' = {}, ~unfinished' PROVE HostConvergent' BY DEF HostConvergent
 <2>1. u = Current /\ Current' = u /\ Convergent(u) BY <1>0, <1>6, <1>8 DEF HostConvergent
 <2>2. Convergent(u)'
  <3>1. updater[u].kind = "application" => host'.line = host'.binary[1] BY <1>3, <1>4, <2>1 DEF Convergent
  <3> QED BY <1>4, <1>5, <2>1, <3>1 DEF Convergent, Diverged
 <2> QED BY <1>1, <1>4, <2>1, <2>2 DEF HostConvergent
<1> QED BY <1>9, <1>10, <1>11, <1>12 DEF UpdateInductive

\* What is reported of an update is the outcome of the updater that was launched, and
\* a success left the host converged.
THEOREM UpdateSafe == UpdateSpec => []UpdateInvariant
<1>1. UpdateInductive /\ [UpdateNext]_selfUpdateVars => UpdateInductive'
 <2> SUFFICES ASSUME UpdateInductive, [UpdateNext]_selfUpdateVars PROVE UpdateInductive' OBVIOUS
 <2>1. CASE UpdateNext BY <2>1, ResetStep, ApplyStep, LaunchStep, UpdaterStep, BinaryStep DEF UpdateNext
 <2>2. CASE UNCHANGED selfUpdateVars
  BY <2>2 DEF selfUpdateVars, UpdateInductive, UpdateTypes, RecordTrue, OneUpdater, HostConvergent,
     Convergent, Diverged, ProcessAlive, Current
 <2> QED BY <2>1, <2>2
<1> QED BY <1>1, UpdateStart, UpdatesKept, PTL DEF UpdateSpec

----
\* The browser in the container (AgentBrowser).

BrowserSpec == BrowserInit /\ [][BrowserNext]_browserVars

Infos == {"none", "starting", "ready", "error"}
PageType == [at : {"idle", "start", "begin", "status", "publish", "clear", "upgraded", "stop"},
             stored : Infos]

\* A page that goes on, or rests.
LEMMA PagesMove ==
  ASSUME BrowserTypeOK, NEW p \in Pages
  PROVE  /\ Rests(p) => page' \in [Pages -> PageType]
         /\ \A at \in {"start", "begin", "publish", "clear", "upgraded", "stop"} :
              Goes(p, at) => page' \in [Pages -> PageType]
<1>1. page \in [Pages -> PageType] BY DEF BrowserTypeOK, PageType, Infos
<1>2. AtRest \in PageType BY DEF AtRest, PageType, Infos
<1>3. Rests(p) => page' \in [Pages -> PageType] BY <1>1, <1>2 DEF Rests
<1>4. ASSUME NEW at \in {"start", "begin", "publish", "clear", "upgraded", "stop"}, Goes(p, at)
      PROVE  page' \in [Pages -> PageType]
 <2> DEFINE m == [page[p] EXCEPT !.at = at]
 <2>1. page[p] \in PageType BY <1>1
 <2>2. m \in PageType BY <2>1 DEF PageType
 <2>3. page' = [page EXCEPT ![p] = m] BY <1>4 DEF Goes
 <2> HIDE DEF m
 <2> QED BY <1>1, <2>2, <2>3
<1> QED BY <1>3, <1>4

\* Every step of a page, of a start and of the container keeps a browser that is shown
\* as starting in the hands of a start that is under way.
LEMMA BrowserStep ==
  ASSUME BrowserInvariant, [BrowserNext]_browserVars
  PROVE  BrowserInvariant'
<1>0. /\ core \in BOOLEAN /\ view \in BOOLEAN /\ viewing \in BOOLEAN
      /\ info \in Infos /\ current \in Starts \cup {NoStart}
      /\ starting \in [Starts -> {"none", "going", "ready", "error"}]
      /\ seen \in {"none", "fresh", "old"}
      /\ reaper \in {"idle", "idle for long", "stop", "forget", "viewed"}
      /\ page \in [Pages -> PageType] /\ NoStart \notin Starts
      /\ BrowserTypeOK /\ StartingIsUnderWay
 BY AgentBrowserAssumption DEF BrowserInvariant, BrowserTypeOK, PageType, Infos
<1>t. ASSUME core' \in BOOLEAN, view' \in BOOLEAN, viewing' \in BOOLEAN,
             info' \in Infos, current' \in Starts \cup {NoStart},
             starting' \in [Starts -> {"none", "going", "ready", "error"}],
             seen' \in {"none", "fresh", "old"},
             reaper' \in {"idle", "idle for long", "stop", "forget", "viewed"},
             page' \in [Pages -> PageType], StartingIsUnderWay'
      PROVE  BrowserInvariant'
 BY <1>t DEF BrowserInvariant, BrowserTypeOK, PageType, Infos
<1>k. UNCHANGED <<info, current, starting>> => StartingIsUnderWay' BY <1>0 DEF StartingIsUnderWay
<1>i. info' \in Infos \ {"starting"} => StartingIsUnderWay' BY DEF StartingIsUnderWay
<1>1. ASSUME NEW p \in Pages, StartBrowser(p) \/ StartLooks(p) \/ StatusLooks(p)
      PROVE  BrowserInvariant'
 <2>1. page' \in [Pages -> PageType] BY <1>0, <1>1, PagesMove DEF StartBrowser, StartLooks, StatusLooks
 <2> QED BY <1>0, <1>1, <1>t, <1>k, <2>1 DEF StartBrowser, StartLooks, StatusLooks, Touch, stackVars
<1>2. ASSUME NEW p \in Pages, Status(p)
      PROVE  BrowserInvariant'
 <2> DEFINE m == [at |-> "status", stored |-> info]
 <2>1. m \in PageType BY <1>0 DEF PageType
 <2>2. page' = [page EXCEPT ![p] = m] BY <1>2 DEF Status
 <2> HIDE DEF m
 <2>3. page' \in [Pages -> PageType] BY <1>0, <2>1, <2>2
 <2> QED BY <1>0, <1>2, <1>t, <1>k, <2>3 DEF Status, Touch, stackVars
<1>3. ASSUME NEW p \in Pages, NEW i \in Starts, BeginStart(p, i)
      PROVE  BrowserInvariant'
 <2>1. page' \in [Pages -> PageType] BY <1>0, <1>3, PagesMove DEF BeginStart
 <2>2. StartingIsUnderWay' BY <1>0, <1>3 DEF BeginStart, StartingIsUnderWay
 <2> QED BY <1>0, <1>3, <1>t, <2>1, <2>2 DEF BeginStart, stackVars, Infos
<1>4. ASSUME NEW i \in Starts, EnsureEnds(i)
      PROVE  BrowserInvariant'
 <2>1. StartingIsUnderWay' BY <1>0, <1>4 DEF EnsureEnds, StartingIsUnderWay
 <2> QED BY <1>0, <1>4, <1>t, <2>1 DEF EnsureEnds
<1>5. ASSUME NEW i \in Starts, FinishStart(i)
      PROVE  BrowserInvariant'
 <2>1. StartingIsUnderWay' BY <1>0, <1>5 DEF FinishStart, StartingIsUnderWay
 <2>2. info' \in Infos BY <1>0, <1>5 DEF FinishStart, Infos
 <2> QED BY <1>0, <1>5, <1>t, <2>1, <2>2 DEF FinishStart, stackVars
<1>6. ASSUME NEW p \in Pages, Publish(p) \/ ClearEntry(p) \/ StopBrowser(p)
      PROVE  BrowserInvariant'
 <2>1. page' \in [Pages -> PageType] BY <1>0, <1>6, PagesMove DEF Publish, ClearEntry, StopBrowser
 <2>2. info' \in Infos \ {"starting"} /\ current' \in Starts \cup {NoStart}
  BY <1>0, <1>6 DEF Publish, ClearEntry, StopBrowser, ClearState, Infos
 <2>3. seen' \in {"none", "fresh", "old"} /\ UNCHANGED <<core, view, viewing, starting, reaper>>
  BY <1>0, <1>6 DEF Publish, ClearEntry, StopBrowser, stackVars
 <2> QED BY <1>0, <1>t, <1>i, <2>1, <2>2, <2>3
<1>7. ASSUME NEW p \in Pages, StopReturns(p) \/ StopBeforeUpgrade(p) \/ StopView(p)
      PROVE  BrowserInvariant'
 <2>1. page' \in [Pages -> PageType] BY <1>0, <1>7, PagesMove DEF StopReturns, StopBeforeUpgrade, StopView
 <2>2. /\ core' \in BOOLEAN /\ view' \in BOOLEAN /\ viewing' \in BOOLEAN
       /\ seen' \in {"none", "fresh", "old"} /\ UNCHANGED <<info, current, starting, reaper>>
  BY <1>0, <1>7 DEF StopReturns, StopBeforeUpgrade, StopView, StackDown, stackVars
 <2> QED BY <1>0, <1>t, <1>k, <2>1, <2>2
<1>8. CASE ReapTick \/ ReapLooks \/ ReapStops \/ ReapFails \/ TtlPasses \/ TouchByAgent \/ Look \/ BrowserDies
 <2>1. /\ core' \in BOOLEAN /\ view' \in BOOLEAN /\ viewing' \in BOOLEAN
       /\ UNCHANGED <<info, current, starting, page>>
  BY <1>0, <1>8 DEF ReapTick, ReapLooks, ReapStops, ReapFails, TtlPasses, TouchByAgent, Look,
     BrowserDies, StackDown, stackVars
 <2>2. /\ seen' \in {"none", "fresh", "old"}
       /\ reaper' \in {"idle", "idle for long", "stop", "forget", "viewed"}
  BY <1>0, <1>8 DEF ReapTick, ReapLooks, ReapStops, ReapFails, TtlPasses, TouchByAgent, Look,
     BrowserDies, Touch
 <2> QED BY <1>0, <1>t, <1>k, <2>1, <2>2
<1>9. CASE ReapEnds
 <2>1. (info' = "none" /\ current' = NoStart) \/ UNCHANGED <<info, current>> BY <1>9 DEF ReapEnds, ClearState
 <2>2. StartingIsUnderWay' BY <1>0, <1>9, <2>1 DEF ReapEnds, StartingIsUnderWay
 <2>3. info' \in Infos /\ seen' \in {"none", "fresh", "old"} BY <1>0, <1>9, <2>1 DEF ReapEnds, Touch, Infos
 <2> QED BY <1>0, <1>9, <1>t, <2>1, <2>2, <2>3 DEF ReapEnds, stackVars
<1>10. CASE BrowserRestart
 <2>1. AtRest \in PageType BY DEF AtRest, PageType, Infos
 <2>2. page' \in [Pages -> PageType] BY <1>10, <2>1 DEF BrowserRestart
 <2> QED BY <1>0, <1>10, <1>t, <1>i, <2>2 DEF BrowserRestart, stackVars, Infos
<1>11. CASE UNCHANGED browserVars BY <1>0, <1>11, <1>t, <1>k DEF browserVars
<1> QED BY <1>1, <1>2, <1>3, <1>4, <1>5, <1>6, <1>7, <1>8, <1>9, <1>10, <1>11 DEF BrowserNext

\* A browser that is shown as starting is being started by someone who will say how
\* that ended.
THEOREM BrowserSafe == BrowserSpec => []BrowserInvariant
<1>1. BrowserInit => BrowserInvariant
 <2> SUFFICES ASSUME BrowserInit PROVE BrowserInvariant OBVIOUS
 <2>1. AtRest \in PageType BY DEF AtRest, PageType, Infos
 <2>2. page \in [Pages -> PageType] BY <2>1 DEF BrowserInit
 <2>3. starting \in [Starts -> {"none", "going", "ready", "error"}] BY DEF BrowserInit
 <2> QED BY <2>2, <2>3 DEF BrowserInit, BrowserInvariant, BrowserTypeOK, StartingIsUnderWay, PageType, Infos
<1>2. BrowserInvariant /\ [BrowserNext]_browserVars => BrowserInvariant' BY BrowserStep
<1> QED BY <1>1, <1>2, PTL DEF BrowserSpec

----
\* The command line tool of an agent (AgentClis).

EnsureType == [at : {"idle", "check", "look", "wait", "install", "installing", "failed", "verify", "running", "error"},
               needs : 0..LastPin]
NpmType == [by : Ensurers \cup {Cutoff}, to : 0..LastPin, at : {"none", "begun", "removed", "placed"}]

ClisTypes ==
  /\ pin \in 2..LastPin /\ boxCli \in 0..LastPin + 1 /\ hostCli \in 0..LastPin + 1
  /\ ensure \in [Ensurers -> EnsureType] /\ npms \subseteq NpmType /\ hostNpm \in NpmType
  /\ hostAt \in {"idle", "check", "install", "installing", "verify", "done", "failed"}
  /\ cliFaults \in Nat /\ staleInstall \in BOOLEAN

\* Every Ensure that is under way was asked for the pin, and the npm it waits for
\* installs that.
EnsuresPinned ==
  /\ \A p \in Ensurers : ensure[p].at # "idle" => ensure[p].needs = pin
  /\ \A n, m \in npms : n.by = m.by /\ n.by # Cutoff => n = m
  /\ \A n \in npms : /\ n.at # "none" /\ n.to <= pin
                     /\ n.by # Cutoff => ensure[n.by].at = "installing" /\ n.to = pin

\* One npm at a time works on the container, where it was needed.
OneNpm ==
  ~staleInstall =>
    /\ \A n, m \in npms : n = m
    /\ \A n \in npms : CASE n.at = "begun" -> boxCli < n.to
                         [] n.at = "removed" -> boxCli = 0 /\ n.to > 0
                         [] OTHER -> boxCli = n.to
    /\ \A p \in Ensurers : ensure[p].at \in {"running", "verify"} => boxCli >= pin

FailedForCause == cliFaults = 0 => \A p \in Ensurers : ensure[p].at # "failed"

ClisInductive ==
  ClisTypes /\ EnsuresPinned /\ OneNpm /\ FailedForCause /\ RefusedForCause /\ HostConverged


\* The inductive invariant says what the run checks.
LEMMA ClisKeep == ClisInductive => ClisInvariant
BY DEF ClisInductive, ClisInvariant, ClisTypes, ClisTypeOK, EnsuresPinned, OneNpm, RunHasItsCli, NpmType

\* An Ensure that goes on asks for what it asked for, and leaves the others alone.
LEMMA EnsureMoves ==
  ASSUME ensure \in [Ensurers -> EnsureType], NEW p \in Ensurers,
         NEW at \in {"idle", "check", "look", "wait", "install", "installing", "failed", "verify", "running", "error"},
         EnsureGoes(p, at)
  PROVE  /\ ensure' \in [Ensurers -> EnsureType]
         /\ ensure'[p].at = at /\ ensure'[p].needs = ensure[p].needs
         /\ \A q \in Ensurers : q # p => ensure'[q] = ensure[q]
<1> DEFINE m == [ensure[p] EXCEPT !.at = at]
<1>1. ensure' = [ensure EXCEPT ![p] = m] BY DEF EnsureGoes
<1>2. m \in EnsureType /\ m.at = at /\ m.needs = ensure[p].needs BY DEF EnsureType
<1> HIDE DEF m
<1> QED BY <1>1, <1>2

\* Every version is possible in the container and on the host, and nothing is under
\* way, at first.
LEMMA ClisStart == ClisInit => ClisInductive
<1> SUFFICES ASSUME ClisInit PROVE ClisInductive OBVIOUS
<1>0. LastPin \in Nat /\ LastPin > 1 BY ClisAssumption
<1>1. NoEnsure \in EnsureType /\ NoEnsure.at = "idle" /\ NoNpm \in NpmType BY <1>0 DEF NoEnsure, EnsureType, NoNpm, NpmType, Npm
<1>2. ensure \in [Ensurers -> EnsureType] /\ \A p \in Ensurers : ensure[p].at = "idle" BY <1>1 DEF ClisInit
<1>3. ClisTypes
 <2>1. /\ pin = 2 /\ boxCli \in 0..LastPin + 1 /\ hostCli \in 0..LastPin + 1 /\ npms = {}
       /\ hostAt = "idle" /\ hostNpm = NoNpm /\ cliFaults = 0 /\ staleInstall = FALSE
  BY DEF ClisInit
 <2>2. pin \in 2..LastPin /\ cliFaults \in Nat BY <1>0, <2>1
 <2>3. npms \subseteq NpmType BY <2>1
 <2>4. hostNpm \in NpmType BY <1>1, <2>1
 <2>5. staleInstall \in BOOLEAN BY <2>1
 <2> QED BY <1>2, <2>1, <2>2, <2>3, <2>4, <2>5 DEF ClisTypes
<1> QED BY <1>2, <1>3 DEF ClisInit, ClisInductive, EnsuresPinned, OneNpm, FailedForCause, RefusedForCause, HostConverged

\* Every step of an Ensure, of an npm, of the host's install and of a release.
LEMMA ClisStep ==
  ASSUME ClisInductive, [ClisNext]_cliVars
  PROVE  ClisInductive'
<1>0. /\ pin \in 2..LastPin /\ boxCli \in 0..LastPin + 1 /\ hostCli \in 0..LastPin + 1
      /\ ensure \in [Ensurers -> EnsureType] /\ npms \subseteq NpmType /\ hostNpm \in NpmType
      /\ hostAt \in {"idle", "check", "install", "installing", "verify", "done", "failed"}
      /\ cliFaults \in Nat /\ staleInstall \in BOOLEAN
      /\ LastPin \in Nat /\ LastPin > 1 /\ Cutoff \notin Ensurers
      /\ EnsuresPinned /\ OneNpm /\ FailedForCause /\ RefusedForCause /\ HostConverged
 BY ClisAssumption DEF ClisInductive, ClisTypes
<1>e. \A p \in Ensurers : ensure[p] \in EnsureType BY <1>0
<1>h. UNCHANGED <<pin, hostCli, hostNpm, hostAt>> => HostConverged' BY <1>0 DEF HostConverged
<1>b. ASSUME UNCHANGED <<pin, boxCli, ensure, npms, staleInstall>>, cliFaults' = cliFaults \/ cliFaults' = cliFaults + 1
      PROVE  EnsuresPinned' /\ OneNpm' /\ FailedForCause' /\ RefusedForCause'
 BY <1>0, <1>b DEF EnsuresPinned, OneNpm, FailedForCause, RefusedForCause
<1>1. ASSUME NEW p \in Ensurers, BeginEnsure(p)
      PROVE  ClisInductive'
 <2>1. /\ ensure' = [ensure EXCEPT ![p] = [at |-> "check", needs |-> pin]]
       /\ UNCHANGED <<pin, boxCli, hostCli, npms, hostAt, hostNpm, cliFaults, staleInstall>>
       /\ ensure[p].at # "installing"
  BY <1>1 DEF BeginEnsure
 <2>2. [at |-> "check", needs |-> pin] \in EnsureType BY <1>0 DEF EnsureType
 <2>3. /\ ensure' \in [Ensurers -> EnsureType] /\ ensure'[p].at = "check" /\ ensure'[p].needs = pin
       /\ \A q \in Ensurers : q # p => ensure'[q] = ensure[q]
  BY <1>0, <2>1, <2>2
 <2>4. EnsuresPinned' BY <1>0, <2>1, <2>3 DEF EnsuresPinned, NpmType
 <2>5. OneNpm' /\ FailedForCause' /\ RefusedForCause' BY <1>0, <2>1, <2>3 DEF OneNpm, FailedForCause, RefusedForCause
 <2> QED BY <1>0, <1>h, <2>1, <2>3, <2>4, <2>5 DEF ClisInductive, ClisTypes
<1>2. ASSUME NEW p \in Ensurers, ContinueEnsure(p)
      PROVE  ClisInductive'
 <2>1. UNCHANGED <<pin, boxCli, hostCli, npms, hostAt, hostNpm, cliFaults, staleInstall>> BY <1>2 DEF ContinueEnsure
 <2>2. PICK at \in {"running", "look", "wait", "install", "error"} :
         /\ EnsureGoes(p, at) /\ ensure[p].at \in {"check", "look", "wait", "failed", "verify"}
         /\ at = "running" => boxCli >= ensure[p].needs
         /\ at = "error" => ensure[p].at = "verify" /\ ~(boxCli >= ensure[p].needs)
  BY <1>2 DEF ContinueEnsure, Ready
 <2>3. /\ ensure' \in [Ensurers -> EnsureType] /\ ensure'[p].at = at /\ ensure'[p].needs = ensure[p].needs
       /\ \A q \in Ensurers : q # p => ensure'[q] = ensure[q]
  BY <1>0, <2>2, EnsureMoves
 <2>4. ensure[p].needs = pin BY <1>0, <2>2 DEF EnsuresPinned
 <2>5. EnsuresPinned' BY <1>0, <2>1, <2>2, <2>3, <2>4 DEF EnsuresPinned, NpmType
 <2>6. OneNpm' BY <1>0, <2>1, <2>2, <2>3, <2>4 DEF OneNpm
 <2>7. FailedForCause' /\ RefusedForCause' BY <1>0, <2>1, <2>2, <2>3, <2>4 DEF OneNpm, FailedForCause, RefusedForCause
 <2> QED BY <1>0, <1>h, <2>1, <2>3, <2>5, <2>6, <2>7 DEF ClisInductive, ClisTypes
<1>3. ASSUME NEW p \in Ensurers, StartInstall(p)
      PROVE  ClisInductive'
 <2> DEFINE n == Npm(p, ensure[p].needs)
 <2>1. /\ ensure[p].at = "install" /\ npms' = npms \cup {n}
       /\ staleInstall' = (staleInstall \/ npms # {} \/ Ready(boxCli, ensure[p].needs))
       /\ EnsureGoes(p, "installing")
       /\ UNCHANGED <<pin, boxCli, hostCli, hostAt, hostNpm, cliFaults>>
  BY <1>3 DEF StartInstall
 <2>2. /\ ensure' \in [Ensurers -> EnsureType] /\ ensure'[p].at = "installing" /\ ensure'[p].needs = ensure[p].needs
       /\ \A q \in Ensurers : q # p => ensure'[q] = ensure[q]
  BY <1>0, <2>1, EnsureMoves
 <2>3. ensure[p].needs = pin BY <1>0, <2>1 DEF EnsuresPinned
 <2>4. n \in NpmType /\ n.by = p /\ n.to = pin /\ n.at = "begun" BY <1>0, <2>3 DEF Npm, NpmType
 <2> HIDE DEF n
 <2>5. EnsuresPinned' BY <1>0, <2>1, <2>2, <2>3, <2>4 DEF EnsuresPinned, NpmType
 <2>6. staleInstall' \in BOOLEAN /\ (~staleInstall' => ~staleInstall /\ npms = {} /\ boxCli < pin)
  <3>1. Ready(boxCli, ensure[p].needs) <=> ~(boxCli < pin) BY <1>0, <2>3 DEF Ready
  <3> QED BY <2>1, <3>1
 <2>7. OneNpm'
  <3>1. SUFFICES ASSUME ~staleInstall'
                 PROVE  /\ \A x, y \in npms' : x = y
                        /\ \A x \in npms' : CASE x.at = "begun" -> boxCli' < x.to
                                              [] x.at = "removed" -> boxCli' = 0 /\ x.to > 0
                                              [] OTHER -> boxCli' = x.to
                        /\ \A q \in Ensurers : ensure'[q].at \in {"running", "verify"} => boxCli' >= pin'
   BY DEF OneNpm
  <3>2. npms' = {n} /\ boxCli' < n.to BY <2>1, <2>4, <2>6, <3>1
  <3>3. \A q \in Ensurers : ensure'[q].at \in {"running", "verify"} => boxCli' >= pin' BY <1>0, <2>1, <2>2, <2>6, <3>1 DEF OneNpm
  <3> QED BY <2>4, <3>2, <3>3
 <2>8. FailedForCause' /\ RefusedForCause' BY <1>0, <2>1, <2>2, <2>6 DEF FailedForCause, RefusedForCause
 <2> QED BY <1>0, <1>h, <2>1, <2>2, <2>4, <2>5, <2>6, <2>7, <2>8 DEF ClisInductive, ClisTypes
<1>4. ASSUME NEW p \in Ensurers, TimeOutWait(p)
      PROVE  ClisInductive'
 <2>1. /\ ensure[p].at \in {"wait", "failed"} /\ (cliFaults' = cliFaults \/ cliFaults' = cliFaults + 1)
       /\ UNCHANGED <<pin, boxCli, hostCli, npms, hostAt, hostNpm, staleInstall>>
  BY <1>4 DEF TimeOutWait, CliFault
 <2>2. PICK at \in {"install", "error"} : EnsureGoes(p, at) /\ (at = "error" => ensure[p].at = "failed") BY <1>4 DEF TimeOutWait
 <2>3. /\ ensure' \in [Ensurers -> EnsureType] /\ ensure'[p].at = at /\ ensure'[p].needs = ensure[p].needs
       /\ \A q \in Ensurers : q # p => ensure'[q] = ensure[q]
  BY <1>0, <2>2, EnsureMoves
 <2>4. EnsuresPinned' /\ OneNpm' BY <1>0, <2>1, <2>3 DEF EnsuresPinned, OneNpm, NpmType
 <2>5. FailedForCause' /\ RefusedForCause' BY <1>0, <2>1, <2>2, <2>3 DEF FailedForCause, RefusedForCause
 <2> QED BY <1>0, <1>h, <2>1, <2>3, <2>4, <2>5 DEF ClisInductive, ClisTypes
<1>5. ASSUME NEW n \in npms, NpmGoesOn(n)
      PROVE  ClisInductive'
 <2>1. /\ UNCHANGED <<pin, hostCli, hostAt, hostNpm, cliFaults, staleInstall>>
       /\ n \in NpmType /\ n.to <= pin
       /\ n.by # Cutoff => n.by \in Ensurers /\ ensure[n.by].at = "installing" /\ n.to = pin
  BY <1>0, <1>5 DEF NpmGoesOn, EnsuresPinned, NpmType
 <2>o. ~staleInstall => npms = {n} BY <1>0, <1>5 DEF OneNpm
 <2>2. CASE n.at = "begun"
  <3> DEFINE m == [n EXCEPT !.at = "removed"]
  <3>1. boxCli' = 0 /\ npms' = (npms \ {n}) \cup {m} /\ ensure' = ensure BY <1>5, <2>2 DEF NpmGoesOn
  <3>2. m \in NpmType /\ m.by = n.by /\ m.to = n.to /\ m.at = "removed" BY <2>1 DEF NpmType
  <3> HIDE DEF m
  <3>3. EnsuresPinned' BY <1>0, <2>1, <3>1, <3>2 DEF EnsuresPinned
  <3>4. OneNpm'
   <4>1. SUFFICES ASSUME ~staleInstall
                  PROVE  /\ \A x, y \in npms' : x = y
                         /\ \A x \in npms' : CASE x.at = "begun" -> boxCli' < x.to
                                               [] x.at = "removed" -> boxCli' = 0 /\ x.to > 0
                                               [] OTHER -> boxCli' = x.to
                         /\ \A q \in Ensurers : ensure'[q].at \in {"running", "verify"} => boxCli' >= pin'
    BY <2>1 DEF OneNpm
   <4>2. npms' = {m} /\ boxCli < n.to BY <1>0, <1>5, <2>2, <2>o, <3>1, <4>1 DEF OneNpm
   <4>3. n.to > 0 BY <1>0, <2>1, <4>2 DEF NpmType
   <4>4. \A q \in Ensurers : ensure[q].at \notin {"running", "verify"} BY <1>0, <2>1, <4>1, <4>2 DEF OneNpm, NpmType
   <4> QED BY <3>1, <3>2, <4>2, <4>3, <4>4
  <3>5. FailedForCause' /\ RefusedForCause' BY <1>0, <2>1, <3>1 DEF FailedForCause, RefusedForCause
  <3> QED BY <1>0, <1>h, <2>1, <3>1, <3>2, <3>3, <3>4, <3>5 DEF ClisInductive, ClisTypes
 <2>3. CASE n.at = "removed"
  <3> DEFINE m == [n EXCEPT !.at = "placed"]
  <3>1. boxCli' = n.to /\ npms' = (npms \ {n}) \cup {m} /\ ensure' = ensure BY <1>5, <2>3 DEF NpmGoesOn
  <3>2. m \in NpmType /\ m.by = n.by /\ m.to = n.to /\ m.at = "placed" /\ n.to \in 0..LastPin BY <2>1 DEF NpmType
  <3> HIDE DEF m
  <3>3. EnsuresPinned' BY <1>0, <2>1, <3>1, <3>2 DEF EnsuresPinned
  <3>4. OneNpm'
   <4>1. SUFFICES ASSUME ~staleInstall
                  PROVE  /\ \A x, y \in npms' : x = y
                         /\ \A x \in npms' : CASE x.at = "begun" -> boxCli' < x.to
                                               [] x.at = "removed" -> boxCli' = 0 /\ x.to > 0
                                               [] OTHER -> boxCli' = x.to
                         /\ \A q \in Ensurers : ensure'[q].at \in {"running", "verify"} => boxCli' >= pin'
    BY <2>1 DEF OneNpm
   <4>2. npms' = {m} /\ boxCli = 0 BY <1>0, <1>5, <2>3, <2>o, <3>1, <4>1 DEF OneNpm
   <4>4. \A q \in Ensurers : ensure[q].at \notin {"running", "verify"} BY <1>0, <4>1, <4>2 DEF OneNpm
   <4> QED BY <3>1, <3>2, <4>2, <4>4
  <3>5. FailedForCause' /\ RefusedForCause' BY <1>0, <2>1, <3>1 DEF FailedForCause, RefusedForCause
  <3> QED BY <1>0, <1>h, <2>1, <3>1, <3>2, <3>3, <3>4, <3>5 DEF ClisInductive, ClisTypes
 <2>4. CASE n.at = "placed"
  <3>1. npms' = npms \ {n} /\ Returned(n, "verify") /\ boxCli' = boxCli BY <1>5, <2>4 DEF NpmGoesOn
  <3>2. ~staleInstall => npms' = {} /\ boxCli = n.to BY <1>0, <1>5, <2>4, <2>o, <3>1 DEF OneNpm
  <3>3. CASE n.by = Cutoff
   <4>1. ensure' = ensure BY <3>1, <3>3 DEF Returned
   <4>2. EnsuresPinned' /\ OneNpm' /\ FailedForCause' /\ RefusedForCause'
    BY <1>0, <2>1, <3>1, <4>1 DEF EnsuresPinned, OneNpm, FailedForCause, RefusedForCause
   <4> QED BY <1>0, <1>h, <2>1, <3>1, <4>1, <4>2 DEF ClisInductive, ClisTypes
  <3>4. CASE n.by # Cutoff
   <4>1. EnsureGoes(n.by, "verify") /\ n.by \in Ensurers BY <2>1, <3>1, <3>4 DEF Returned
   <4>2. /\ ensure' \in [Ensurers -> EnsureType] /\ ensure'[n.by].at = "verify"
         /\ ensure'[n.by].needs = ensure[n.by].needs
         /\ \A q \in Ensurers : q # n.by => ensure'[q] = ensure[q]
    BY <1>0, <4>1, EnsureMoves
   <4>3. \A x \in npms' : x \in npms /\ x.by # n.by BY <1>0, <1>5, <3>1, <3>4 DEF EnsuresPinned
   <4>4. EnsuresPinned' BY <1>0, <2>1, <4>1, <4>2, <4>3 DEF EnsuresPinned, NpmType
   <4>5. OneNpm' BY <1>0, <2>1, <3>1, <3>2, <3>4, <4>2 DEF OneNpm
   <4>6. FailedForCause' /\ RefusedForCause' BY <1>0, <2>1, <4>2 DEF FailedForCause, RefusedForCause
   <4> QED BY <1>0, <1>h, <2>1, <3>1, <4>2, <4>4, <4>5, <4>6 DEF ClisInductive, ClisTypes
  <3> QED BY <3>3, <3>4
 <2> QED BY <1>5, <2>2, <2>3, <2>4 DEF NpmGoesOn
<1>6. ASSUME NEW n \in npms, NpmFails(n)
      PROVE  ClisInductive'
 <2>1. /\ UNCHANGED <<pin, boxCli, hostCli, hostAt, hostNpm, staleInstall>>
       /\ npms' = npms \ {n} /\ Returned(n, "failed") /\ cliFaults' = cliFaults + 1
       /\ n \in NpmType /\ (n.by # Cutoff => n.by \in Ensurers)
  BY <1>0, <1>6 DEF NpmFails, CliFault, NpmType
 <2>2. CASE n.by = Cutoff
  <3>1. ensure' = ensure BY <2>1, <2>2 DEF Returned
  <3>2. EnsuresPinned' /\ OneNpm' /\ FailedForCause' /\ RefusedForCause'
   BY <1>0, <2>1, <3>1 DEF EnsuresPinned, OneNpm, FailedForCause, RefusedForCause
  <3> QED BY <1>0, <1>h, <2>1, <3>1, <3>2 DEF ClisInductive, ClisTypes
 <2>3. CASE n.by # Cutoff
  <3>1. EnsureGoes(n.by, "failed") /\ n.by \in Ensurers /\ ensure[n.by].at # "idle"
   BY <1>0, <1>6, <2>1, <2>3 DEF Returned, EnsuresPinned
  <3>2. /\ ensure' \in [Ensurers -> EnsureType] /\ ensure'[n.by].at = "failed"
        /\ ensure'[n.by].needs = ensure[n.by].needs
        /\ \A q \in Ensurers : q # n.by => ensure'[q] = ensure[q]
   BY <1>0, <3>1, EnsureMoves
  <3>3. \A x \in npms' : x \in npms /\ x.by # n.by BY <1>0, <1>6, <2>1, <2>3 DEF EnsuresPinned
  <3>4. EnsuresPinned' BY <1>0, <2>1, <3>1, <3>2, <3>3 DEF EnsuresPinned, NpmType
  <3>5. OneNpm' /\ FailedForCause' /\ RefusedForCause' BY <1>0, <2>1, <3>2 DEF OneNpm, FailedForCause, RefusedForCause
  <3> QED BY <1>0, <1>h, <2>1, <3>2, <3>4, <3>5 DEF ClisInductive, ClisTypes
 <2> QED BY <2>2, <2>3
<1>7. ASSUME NEW p \in Ensurers, CutOff(p)
      PROVE  ClisInductive'
 <2> DEFINE orphaned(n) == [n EXCEPT !.by = IF @ = p THEN Cutoff ELSE @]
 <2>1. /\ ensure[p].at = "installing" /\ cliFaults' = cliFaults + 1 /\ EnsureGoes(p, "failed")
       /\ npms' = {n \in npms : n.by # p} \/ npms' = {orphaned(n) : n \in npms}
       /\ UNCHANGED <<pin, boxCli, hostCli, hostAt, hostNpm, staleInstall>>
  BY <1>7 DEF CutOff, CliFault
 <2>2. /\ ensure' \in [Ensurers -> EnsureType] /\ ensure'[p].at = "failed" /\ ensure'[p].needs = ensure[p].needs
       /\ \A q \in Ensurers : q # p => ensure'[q] = ensure[q]
  BY <1>0, <2>1, EnsureMoves
 <2>3. \A n \in npms : /\ orphaned(n) \in NpmType /\ orphaned(n).at = n.at /\ orphaned(n).to = n.to
                       /\ orphaned(n).by = IF n.by = p THEN Cutoff ELSE n.by
  BY <1>0 DEF NpmType
 <2> HIDE DEF orphaned
 <2>4. npms' \subseteq NpmType /\ \A x \in npms' : \E n \in npms : x.at = n.at /\ x.to = n.to /\ x.by # p
                                                      /\ (x.by # Cutoff => x = n \/ x.by = n.by)
  BY <1>0, <2>1, <2>3
 <2>5. \A x, y \in npms' : x.by = y.by /\ x.by # Cutoff => x = y
  <3>1. CASE npms' = {n \in npms : n.by # p} BY <1>0, <3>1 DEF EnsuresPinned
  <3>2. CASE npms' = {orphaned(n) : n \in npms}
   <4> SUFFICES ASSUME NEW n \in npms, NEW m \in npms, orphaned(n).by = orphaned(m).by, orphaned(n).by # Cutoff
                 PROVE  orphaned(n) = orphaned(m)
    BY <3>2
   <4> QED BY <1>0, <2>3 DEF EnsuresPinned
  <3> QED BY <2>1, <3>1, <3>2
 <2>6. EnsuresPinned'
  <3>1. \A x \in npms' : /\ x.at # "none" /\ x.to <= pin
                         /\ x.by # Cutoff => x.by # p /\ ensure[x.by].at = "installing" /\ x.to = pin /\ x.by \in Ensurers
   BY <1>0, <2>4 DEF EnsuresPinned, NpmType
  <3> QED BY <1>0, <2>1, <2>2, <2>5, <3>1 DEF EnsuresPinned
 <2>7. OneNpm'
  <3>1. SUFFICES ASSUME ~staleInstall
                 PROVE  /\ \A x, y \in npms' : x = y
                        /\ \A x \in npms' : CASE x.at = "begun" -> boxCli' < x.to
                                              [] x.at = "removed" -> boxCli' = 0 /\ x.to > 0
                                              [] OTHER -> boxCli' = x.to
                        /\ \A q \in Ensurers : ensure'[q].at \in {"running", "verify"} => boxCli' >= pin'
   BY <2>1 DEF OneNpm
  <3>2. \A x, y \in npms' : x = y
   <4>1. \A n, m \in npms : n = m BY <1>0, <3>1 DEF OneNpm
   <4> QED BY <2>1, <4>1
  <3>3. \A x \in npms' : CASE x.at = "begun" -> boxCli' < x.to
                           [] x.at = "removed" -> boxCli' = 0 /\ x.to > 0
                           [] OTHER -> boxCli' = x.to
   BY <1>0, <2>1, <2>4, <3>1 DEF OneNpm
  <3>4. \A q \in Ensurers : ensure'[q].at \in {"running", "verify"} => boxCli' >= pin' BY <1>0, <2>1, <2>2, <3>1 DEF OneNpm
  <3> QED BY <3>2, <3>3, <3>4
 <2>8. FailedForCause' /\ RefusedForCause' BY <1>0, <2>1, <2>2 DEF FailedForCause, RefusedForCause
 <2> QED BY <1>0, <1>h, <2>1, <2>2, <2>4, <2>6, <2>7, <2>8 DEF ClisInductive, ClisTypes
<1>8. ASSUME NEW p \in Ensurers, EndCliRun(p)
      PROVE  ClisInductive'
 <2>1. /\ ensure[p].at = "running" /\ ensure' = [ensure EXCEPT ![p] = NoEnsure]
       /\ UNCHANGED <<pin, boxCli, hostCli, npms, hostAt, hostNpm, cliFaults, staleInstall>>
  BY <1>8 DEF EndCliRun
 <2>2. NoEnsure \in EnsureType /\ NoEnsure.at = "idle" BY <1>0 DEF NoEnsure, EnsureType
 <2>3. /\ ensure' \in [Ensurers -> EnsureType] /\ ensure'[p].at = "idle"
       /\ \A q \in Ensurers : q # p => ensure'[q] = ensure[q]
  BY <1>0, <2>1, <2>2
 <2>4. EnsuresPinned' /\ OneNpm' /\ FailedForCause' /\ RefusedForCause'
  BY <1>0, <2>1, <2>3 DEF EnsuresPinned, OneNpm, FailedForCause, RefusedForCause, NpmType
 <2> QED BY <1>0, <1>h, <2>1, <2>3, <2>4 DEF ClisInductive, ClisTypes
<1>9. ASSUME ConvergeHost \/ HostNpmGoesOn \/ HostInstallFails
      PROVE  ClisInductive'
 <2>1. /\ UNCHANGED <<pin, boxCli, ensure, npms, staleInstall>>
       /\ cliFaults' = cliFaults \/ cliFaults' = cliFaults + 1
  BY <1>9 DEF ConvergeHost, HostNpmGoesOn, HostInstallFails, CliFault
 <2>2. NoNpm \in NpmType /\ NoNpm.at = "none" /\ Npm(Cutoff, pin) \in NpmType BY <1>0 DEF NoNpm, NpmType, Npm
 <2>3. hostNpm' \in NpmType
  <3>1. \A at \in {"removed", "placed"} : [hostNpm EXCEPT !.at = at] \in NpmType BY <1>0 DEF NpmType
  <3> QED BY <1>0, <1>9, <2>2, <3>1 DEF ConvergeHost, HostNpmGoesOn, HostInstallFails, HostNpmAfterKill
 <2>4. hostCli' \in 0..LastPin + 1
  <3>1. 0 \in 0..LastPin + 1 /\ hostNpm.to \in 0..LastPin + 1 BY <1>0 DEF NpmType
  <3> QED BY <1>0, <1>9, <3>1 DEF ConvergeHost, HostNpmGoesOn, HostInstallFails
 <2>5. hostAt' \in {"idle", "check", "install", "installing", "verify", "done", "failed"} /\ HostConverged'
  BY <1>0, <1>9, <2>2 DEF ConvergeHost, HostNpmGoesOn, HostInstallFails, HostNpmAfterKill, HostConverged, Exactly
 <2> QED BY <1>0, <1>b, <2>1, <2>3, <2>4, <2>5 DEF ClisInductive, ClisTypes
<1>10. ASSUME NextRelease
       PROVE  ClisInductive'
 <2> DEFINE orphaned(n) == [n EXCEPT !.by = Cutoff]
 <2>1. /\ hostAt \in {"done", "failed"} /\ cliFaults' = cliFaults + 1
       /\ pin' \in {pin, pin + 1} /\ pin' <= LastPin /\ hostAt' = "check"
       /\ ensure' = [p \in Ensurers |-> NoEnsure]
       /\ npms' = {} \/ npms' = {orphaned(n) : n \in npms}
       /\ UNCHANGED <<boxCli, hostCli, hostNpm, staleInstall>>
  BY <1>10 DEF NextRelease, CliFault
 <2>2. NoEnsure \in EnsureType /\ NoEnsure.at = "idle" BY <1>0 DEF NoEnsure, EnsureType
 <2>3. ensure' \in [Ensurers -> EnsureType] /\ \A q \in Ensurers : ensure'[q].at = "idle" BY <2>1, <2>2
 <2>4. \A n \in npms : orphaned(n) \in NpmType /\ orphaned(n).at = n.at /\ orphaned(n).to = n.to /\ orphaned(n).by = Cutoff
  BY <1>0 DEF NpmType
 <2> HIDE DEF orphaned
 <2>5. npms' \subseteq NpmType /\ \A x \in npms' : x.by = Cutoff /\ \E n \in npms : x = orphaned(n) /\ x.at = n.at /\ x.to = n.to
  BY <2>1, <2>4
 <2>6. pin' \in 2..LastPin /\ pin <= pin' BY <1>0, <2>1
 <2>7. EnsuresPinned'
  <3>1. \A x \in npms' : x.at # "none" /\ x.to <= pin' BY <1>0, <2>5, <2>6 DEF EnsuresPinned, NpmType
  <3> QED BY <2>3, <2>5, <3>1 DEF EnsuresPinned
 <2>8. OneNpm' BY <1>0, <2>1, <2>3, <2>5 DEF OneNpm
 <2>9. FailedForCause' /\ RefusedForCause' /\ HostConverged'
  BY <1>0, <2>1, <2>3 DEF FailedForCause, RefusedForCause, HostConverged
 <2> QED BY <1>0, <2>1, <2>3, <2>5, <2>6, <2>7, <2>8, <2>9 DEF ClisInductive, ClisTypes
<1>11. CASE UNCHANGED cliVars BY <1>0, <1>11, <1>b, <1>h DEF cliVars, ClisInductive, ClisTypes
<1> QED BY <1>1, <1>2, <1>3, <1>4, <1>5, <1>6, <1>7, <1>8, <1>9, <1>10, <1>11 DEF ClisNext

\* A run has the tool it was prepared with, unless two installs crossed, nobody is
\* refused without a cause, and the host has the release's version when it says so.
THEOREM ClisKept == ClisSpec => []ClisInvariant
<1>1. ClisInductive /\ [ClisNext]_cliVars => ClisInductive' BY ClisStep
<1> QED BY <1>1, ClisStart, ClisKeep, PTL DEF ClisSpec

----
\* The login of a provider (Credentials).

FileType == [token : Nat, login : Nat, at : Nat]
BoxRunType == [at : {"idle", "push", "running", "pull"}, box : Boxes \cup {NoBox}, began : Nat,
               rotated : BOOLEAN]

CredTypes ==
  /\ hostFile \in FileType /\ boxFile \in [Boxes -> FileType]
  /\ accepted \subseteq 1..issued /\ issued \in Nat /\ newestLogin \in 0..issued /\ second \in Nat
  /\ hostFile.token <= issued /\ hostFile.at <= second
  /\ \A b \in Boxes : boxFile[b].token <= issued /\ boxFile[b].at <= second
  /\ boxRun \in [BoxRuns -> BoxRunType] /\ tangled \in BOOLEAN

\* What a run knows of itself.
BoxRunSound ==
  \A r \in BoxRuns :
    /\ AtWork(r) => boxRun[r].box \in Boxes /\ boxRun[r].began <= second
    /\ boxRun[r].at \in {"idle", "push"} => ~boxRun[r].rotated
    /\ boxRun[r].at = "pull" => second > boxRun[r].began

\* A run that has replaced the token of box b, and has not been pulled.
Owes(r) == boxRun[r].at \in {"running", "pull"} /\ boxRun[r].rotated
Good(f) == f.token \in accepted /\ f.login = newestLogin

\* Runs at work at the same time share their box, and no other box's file is newer
\* than they are.
OneBox ==
  \A r \in BoxRuns : AtWork(r) =>
    /\ \A o \in BoxRuns : AtWork(o) => boxRun[o].box = boxRun[r].box
    /\ \A b \in Boxes : b # boxRun[r].box => boxFile[b].at <= boxRun[r].began
    /\ boxRun[r].at # "push" => Good(boxFile[boxRun[r].box])

\* The host's token is accepted, or a run that will be pulled has replaced it.
HostOwed ==
  \/ hostFile.token \in accepted \cup {0}
  \/ \E r \in BoxRuns : Owes(r) /\ hostFile.at <= boxFile[boxRun[r].box].at

\* A box whose file a run would keep has the newest login, unless a run elsewhere
\* has replaced it, which will be pulled.
KeptIsGood ==
  \A b \in Boxes :
    \/ boxFile[b].token = 0 \/ hostFile.at > boxFile[b].at \/ Good(boxFile[b])
    \/ \E r \in BoxRuns : Owes(r) /\ boxRun[r].box # b

CredSound ==
  ~tangled => /\ OneBox /\ HostOwed /\ KeptIsGood
              /\ hostFile.token # 0 => hostFile.login = newestLogin

CredInductive == CredTypes /\ BoxRunSound /\ CredSound


\* The inductive invariant says what the run checks.
LEMMA CredKeeps == CredInductive => CredInvariant
<1> SUFFICES ASSUME CredInductive PROVE CredInvariant OBVIOUS
<1>1. CredTypes /\ BoxRunSound /\ CredSound BY DEF CredInductive
<1>2. CredTypeOK BY <1>1 DEF CredTypes, CredTypeOK, FileType
<1>3. HostStaysSignedIn BY <1>1 DEF CredSound, HostOwed, Owes, HostStaysSignedIn, Quiet, AtWork
<1>4. RunsAreSignedIn /\ RunsUseNewestLogin BY <1>1 DEF CredSound, OneBox, AtWork, Good, RunsAreSignedIn, RunsUseNewestLogin
<1> QED BY <1>2, <1>3, <1>4 DEF CredInvariant

\* Nobody has signed in, and nothing runs, at first.
LEMMA CredStart == CredInit => CredInductive
<1> SUFFICES ASSUME CredInit PROVE CredInductive OBVIOUS
<1>1. NoFileYet \in FileType /\ NoFileYet.token = 0 /\ NoFileYet.at = 0 /\ NoRun \in BoxRunType
      /\ NoRun.at = "idle" /\ ~NoRun.rotated
 BY DEF NoFileYet, FileType, NoRun, BoxRunType
<1>2. /\ hostFile = NoFileYet /\ \A b \in Boxes : boxFile[b] = NoFileYet
      /\ \A r \in BoxRuns : boxRun[r] = NoRun
      /\ boxFile \in [Boxes -> FileType] /\ boxRun \in [BoxRuns -> BoxRunType]
      /\ accepted = {} /\ issued = 0 /\ newestLogin = 0 /\ second = 1 /\ tangled = FALSE
 BY <1>1 DEF CredInit
<1>3. CredTypes
 <2>1. accepted \subseteq 1..issued /\ issued \in Nat /\ newestLogin \in 0..issued /\ second \in Nat BY <1>2
 <2>2. hostFile \in FileType /\ hostFile.token <= issued /\ hostFile.at <= second BY <1>1, <1>2
 <2>3. \A b \in Boxes : boxFile[b].token <= issued /\ boxFile[b].at <= second BY <1>1, <1>2
 <2> QED BY <1>2, <2>1, <2>2, <2>3 DEF CredTypes
<1>4. BoxRunSound BY <1>1, <1>2 DEF BoxRunSound, AtWork
<1>5. CredSound BY <1>1, <1>2 DEF CredSound, OneBox, HostOwed, KeptIsGood, AtWork
<1> QED BY <1>3, <1>4, <1>5 DEF CredInductive

\* A run that goes on in its box leaves the others where they are.
LEMMA BoxRunMoves ==
  ASSUME boxRun \in [BoxRuns -> BoxRunType], NEW r \in BoxRuns, NEW m \in BoxRunType,
         boxRun' = [boxRun EXCEPT ![r] = m]
  PROVE  /\ boxRun' \in [BoxRuns -> BoxRunType] /\ boxRun'[r] = m
         /\ \A o \in BoxRuns : o # r => boxRun'[o] = boxRun[o]
OBVIOUS

\* A run is begun, refused or given up, goes on, and ends.
LEMMA BoxRunStep ==
  ASSUME CredInductive, NEW r \in BoxRuns,
         \/ \E b \in Boxes : BeginBoxRun(r, b)
         \/ RefuseUnsigned(r) \/ EndBoxRun(r) \/ EndWithoutPull(r) \/ RefusedLogin(r)
  PROVE  CredInductive'
<1>0. /\ hostFile \in FileType /\ boxFile \in [Boxes -> FileType]
      /\ accepted \subseteq 1..issued /\ issued \in Nat /\ newestLogin \in 0..issued /\ second \in Nat
      /\ hostFile.token <= issued /\ hostFile.at <= second
      /\ \A b \in Boxes : boxFile[b].token <= issued /\ boxFile[b].at <= second
      /\ boxRun \in [BoxRuns -> BoxRunType] /\ tangled \in BOOLEAN /\ boxRun[r] \in BoxRunType
      /\ BoxRunSound /\ CredSound
 BY DEF CredInductive, CredTypes
<1>1. UNCHANGED <<hostFile, boxFile, accepted, issued, newestLogin, second>>
 BY DEF BeginBoxRun, RefuseUnsigned, EndBoxRun, EndWithoutPull, RefusedLogin
<1>n. NoRun \in BoxRunType /\ NoRun.at = "idle" /\ ~NoRun.rotated BY DEF NoRun, BoxRunType
<1>2. ASSUME NEW b \in Boxes, BeginBoxRun(r, b)
      PROVE  CredInductive'
 <2> DEFINE m == [at |-> "push", box |-> b, began |-> second, rotated |-> FALSE]
 <2>1. /\ boxRun[r] = NoRun /\ boxRun' = [boxRun EXCEPT ![r] = m]
       /\ tangled' = (tangled \/ \E o \in BoxRuns : AtWork(o) /\ boxRun[o].box # b)
  BY <1>2 DEF BeginBoxRun
 <2>2. m \in BoxRunType /\ m.at = "push" /\ m.box = b /\ m.began = second /\ ~m.rotated BY <1>0 DEF BoxRunType
 <2> HIDE DEF m
 <2>3. /\ boxRun' \in [BoxRuns -> BoxRunType] /\ boxRun'[r] = m
       /\ \A o \in BoxRuns : o # r => boxRun'[o] = boxRun[o]
  BY <1>0, <2>1, <2>2, BoxRunMoves
 <2>4. tangled' \in BOOLEAN /\ (~tangled' => ~tangled /\ \A o \in BoxRuns : AtWork(o) => boxRun[o].box = b) BY <1>0, <2>1
 <2>5. BoxRunSound' BY <1>0, <1>1, <2>2, <2>3 DEF BoxRunSound, AtWork
 <2>6. ASSUME ~tangled' PROVE OneBox' /\ HostOwed' /\ KeptIsGood' /\ (hostFile'.token # 0 => hostFile'.login = newestLogin')
  <3>0. OneBox /\ HostOwed /\ KeptIsGood /\ (hostFile.token # 0 => hostFile.login = newestLogin) BY <1>0, <2>4, <2>6 DEF CredSound
  <3>1. \A o \in BoxRuns : Owes(o) => o # r /\ Owes(o)' BY <1>n, <2>1, <2>3 DEF Owes
  <3>2. OneBox' BY <1>0, <1>1, <2>2, <2>3, <2>4, <2>6, <3>0 DEF OneBox, AtWork, Good
  <3>3. HostOwed' BY <1>1, <2>3, <3>0, <3>1 DEF HostOwed
  <3>4. KeptIsGood' BY <1>1, <2>3, <3>0, <3>1 DEF KeptIsGood, Good
  <3> QED BY <1>1, <3>0, <3>2, <3>3, <3>4
 <2> QED BY <1>0, <1>1, <2>3, <2>4, <2>5, <2>6 DEF CredInductive, CredTypes, CredSound
<1>3. ASSUME NEW m \in BoxRunType, boxRun' = [boxRun EXCEPT ![r] = m], tangled' \in BOOLEAN,
             ~tangled' => /\ ~tangled /\ (Owes(r) => m.at \in {"running", "pull"} /\ m.rotated /\ m.box = boxRun[r].box)
                          /\ m.at # "idle" => boxRun[r].at = "running" /\ m.box = boxRun[r].box /\ m.began = boxRun[r].began,
             m.at # "idle" => m.box \in Boxes /\ m.began <= second,
             m.at \in {"idle", "push"} => ~m.rotated, m.at = "pull" => second > m.began
      PROVE  CredInductive'
 <2>1. /\ boxRun' \in [BoxRuns -> BoxRunType] /\ boxRun'[r] = m
       /\ \A o \in BoxRuns : o # r => boxRun'[o] = boxRun[o]
  BY <1>0, <1>3, BoxRunMoves
 <2>2. BoxRunSound' BY <1>0, <1>1, <1>3, <2>1 DEF BoxRunSound, AtWork
 <2>3. ASSUME ~tangled' PROVE OneBox' /\ HostOwed' /\ KeptIsGood' /\ (hostFile'.token # 0 => hostFile'.login = newestLogin')
  <3>0. OneBox /\ HostOwed /\ KeptIsGood /\ (hostFile.token # 0 => hostFile.login = newestLogin) BY <1>0, <1>3, <2>3 DEF CredSound
  <3>1. \A o \in BoxRuns : Owes(o) => Owes(o)' /\ boxRun'[o].box = boxRun[o].box BY <1>3, <2>1, <2>3 DEF Owes
  <3>2. \A o \in BoxRuns : AtWork(o)' =>
          /\ AtWork(o) /\ boxRun'[o].box = boxRun[o].box
          /\ boxRun'[o].began = boxRun[o].began
          /\ boxRun[o].at = "push" => boxRun'[o].at = "push"
   BY <1>3, <2>1, <2>3 DEF AtWork
  <3>3. OneBox'
   <4> SUFFICES ASSUME NEW p \in BoxRuns, boxRun'[p].at # "idle"
                 PROVE  /\ \A o \in BoxRuns : boxRun'[o].at # "idle" => boxRun'[o].box = boxRun'[p].box
                        /\ \A b \in Boxes : b # boxRun'[p].box => boxFile'[b].at <= boxRun'[p].began
                        /\ boxRun'[p].at # "push" => Good(boxFile[boxRun[p].box])
    BY <1>1, <3>2 DEF OneBox, Good, AtWork
   <4>1. boxRun[p].at # "idle" /\ boxRun'[p].box = boxRun[p].box /\ boxRun'[p].began = boxRun[p].began
         /\ (boxRun[p].at = "push" => boxRun'[p].at = "push")
    BY <3>2 DEF AtWork
   <4>2. \A o \in BoxRuns : boxRun'[o].at # "idle" => boxRun[o].at # "idle" /\ boxRun'[o].box = boxRun[o].box BY <3>2 DEF AtWork
   <4> QED BY <1>1, <3>0, <4>1, <4>2 DEF OneBox, AtWork
  <3>4. HostOwed' BY <1>1, <3>0, <3>1 DEF HostOwed
  <3>5. KeptIsGood' BY <1>1, <3>0, <3>1 DEF KeptIsGood, Good
  <3> QED BY <1>1, <3>0, <3>3, <3>4, <3>5
 <2> QED BY <1>0, <1>1, <1>3, <2>1, <2>2, <2>3 DEF CredInductive, CredTypes, CredSound
<1>4. CASE RefuseUnsigned(r)
 <2>1. boxRun[r].at = "push" /\ boxRun' = [boxRun EXCEPT ![r] = NoRun] /\ tangled' = tangled BY <1>4 DEF RefuseUnsigned
 <2> QED BY <1>0, <1>3, <1>n, <2>1 DEF Owes
<1>5. CASE RefusedLogin(r)
 <2>1. /\ boxRun[r].at = "running" /\ boxRun' = [boxRun EXCEPT ![r] = NoRun] /\ tangled' = tangled
       /\ boxFile[boxRun[r].box].token \notin accepted
  BY <1>5 DEF RefusedLogin
 <2>2. tangled BY <1>0, <2>1 DEF CredSound, OneBox, AtWork, Good
 <2> QED BY <1>0, <1>3, <1>n, <2>1, <2>2
<1>6. CASE EndWithoutPull(r)
 <2>1. /\ boxRun' = [boxRun EXCEPT ![r] = NoRun] /\ tangled' = (tangled \/ boxRun[r].rotated) BY <1>6 DEF EndWithoutPull
 <2>2. boxRun[r].rotated \in BOOLEAN BY <1>0 DEF BoxRunType
 <2>3. tangled' \in BOOLEAN /\ (~tangled' => ~tangled /\ ~boxRun[r].rotated) BY <1>0, <2>1, <2>2
 <2> QED BY <1>3, <1>n, <2>1, <2>3 DEF Owes
<1>7. CASE EndBoxRun(r)
 <2> DEFINE m == [boxRun[r] EXCEPT !.at = "pull"]
 <2>1. boxRun[r].at = "running" /\ boxRun' = [boxRun EXCEPT ![r] = m] /\ tangled' = tangled /\ second > boxRun[r].began
  BY <1>7 DEF EndBoxRun
 <2>2. m \in BoxRunType /\ m.at = "pull" /\ m.box = boxRun[r].box /\ m.began = boxRun[r].began /\ m.rotated = boxRun[r].rotated
  BY <1>0 DEF BoxRunType
 <2> HIDE DEF m
 <2>3. m.box \in Boxes /\ m.began <= second BY <1>0, <2>1, <2>2 DEF BoxRunSound, AtWork
 <2> QED BY <1>0, <1>3, <2>1, <2>2, <2>3 DEF Owes
<1> QED BY <1>2, <1>4, <1>5, <1>6, <1>7

\* A file with another time.
LEMMA FileRecords ==
  ASSUME NEW f \in FileType, NEW t \in Nat
  PROVE  LET g == [f EXCEPT !.at = t]
         IN g \in FileType /\ g.token = f.token /\ g.login = f.login /\ g.at = t
BY DEF FileType

\* A run that is given its file, replaces its token, or is pulled.
LEMMA BoxFileStep ==
  ASSUME CredInductive, NEW r \in BoxRuns, PushFile(r) \/ Rotate(r) \/ PullFile(r)
  PROVE  CredInductive'
<1>0. /\ hostFile \in FileType /\ boxFile \in [Boxes -> FileType]
      /\ accepted \subseteq 1..issued /\ issued \in Nat /\ newestLogin \in 0..issued /\ second \in Nat
      /\ hostFile.token <= issued /\ hostFile.at <= second
      /\ \A b \in Boxes : boxFile[b].token <= issued /\ boxFile[b].at <= second
      /\ boxRun \in [BoxRuns -> BoxRunType] /\ tangled \in BOOLEAN /\ boxRun[r] \in BoxRunType
      /\ BoxRunSound /\ CredSound
 BY DEF CredInductive, CredTypes
<1> DEFINE c == boxRun[r].box
<1>1. /\ boxRun[r].at \in {"push", "running", "pull"} /\ c \in Boxes /\ c = boxRun[r].box /\ AtWork(r)
      /\ UNCHANGED <<newestLogin, second, tangled>>
 BY <1>0 DEF PushFile, Rotate, PullFile, BoxRunSound, AtWork
<1>f. boxFile[c] \in FileType /\ hostFile.at \in Nat /\ second \in Nat /\ boxFile[c].at \in Nat BY <1>0, <1>1 DEF FileType
<1>g. \A b \in Boxes : boxFile[b].at \in Nat /\ boxFile[b].token \in Nat BY <1>0 DEF FileType
<1>s. ASSUME ~tangled
      PROVE  /\ OneBox /\ HostOwed /\ KeptIsGood /\ (hostFile.token # 0 => hostFile.login = newestLogin)
             /\ \A o \in BoxRuns : AtWork(o) => boxRun[o].box = c
             /\ \A b \in Boxes : b # c => boxFile[b].at <= boxRun[r].began
             /\ boxRun[r].at # "push" => Good(boxFile[c])
             /\ \A o \in BoxRuns : AtWork(o) /\ boxRun[o].at # "push" => Good(boxFile[c])
             /\ \A o \in BoxRuns : AtWork(o) => \A b \in Boxes : b # c => boxFile[b].at <= boxRun[o].began
 BY <1>0, <1>1, <1>s DEF CredSound, OneBox
<1>2. ASSUME PushFile(r)
      PROVE  CredInductive'
 <2> DEFINE file == [hostFile EXCEPT !.at = second]
             m == [boxRun[r] EXCEPT !.at = "running"]
 <2>1. /\ boxRun[r].at = "push" /\ hostFile.token # 0
       /\ boxFile' = IF Newer(c) THEN [boxFile EXCEPT ![c] = file] ELSE boxFile
       /\ boxRun' = [boxRun EXCEPT ![r] = m]
       /\ UNCHANGED <<hostFile, accepted, issued>>
  BY <1>2 DEF PushFile
 <2>2. file \in FileType /\ file.token = hostFile.token /\ file.login = hostFile.login /\ file.at = second BY <1>0, FileRecords
 <2>3. m \in BoxRunType /\ m.at = "running" /\ m.box = c /\ m.began = boxRun[r].began /\ m.rotated = boxRun[r].rotated
  BY <1>0 DEF BoxRunType
 <2> HIDE DEF file, m, c
 <2>4. /\ boxRun' \in [BoxRuns -> BoxRunType] /\ boxRun'[r] = m
       /\ \A o \in BoxRuns : o # r => boxRun'[o] = boxRun[o]
  BY <1>0, <2>1, <2>3, BoxRunMoves
 <2>5. /\ boxFile' \in [Boxes -> FileType] /\ (boxFile'[c] = file \/ (boxFile'[c] = boxFile[c] /\ ~Newer(c)))
       /\ \A b \in Boxes : b # c => boxFile'[b] = boxFile[b]
  <3>1. CASE Newer(c) BY <1>0, <1>1, <2>1, <2>2, <3>1
  <3>2. CASE ~Newer(c) BY <1>0, <1>1, <2>1, <2>2, <3>2
  <3> QED BY <3>1, <3>2
 <2>6. CredTypes' BY <1>0, <1>1, <1>f, <2>1, <2>2, <2>4, <2>5 DEF CredTypes
 <2>7. BoxRunSound' BY <1>0, <1>1, <2>1, <2>3, <2>4 DEF BoxRunSound, AtWork
 <2>8. ASSUME ~tangled
       PROVE  Good(boxFile'[c])
  <3>1. CASE Newer(c) /\ boxFile'[c] = file
   <4>1. hostFile.token \in accepted
    <5>1. SUFFICES ASSUME NEW o \in BoxRuns, Owes(o), hostFile.at <= boxFile[boxRun[o].box].at
                   PROVE  FALSE
     BY <1>s, <2>1, <2>8 DEF HostOwed
    <5>2. boxRun[o].box = c /\ Good(boxFile[c]) BY <1>s, <2>8, <5>1 DEF Owes, AtWork
    <5>3. boxFile[c].token # 0 BY <1>0, <5>2 DEF Good
    <5> QED BY <1>f, <3>1, <5>1, <5>2, <5>3 DEF Newer
   <4> QED BY <1>s, <2>1, <2>2, <2>8, <3>1, <4>1 DEF Good
  <3>2. CASE boxFile'[c] = boxFile[c] /\ ~Newer(c)
   <4>1. \A o \in BoxRuns : ~(Owes(o) /\ boxRun[o].box # c) BY <1>s, <2>8 DEF Owes, AtWork
   <4> QED BY <1>1, <1>s, <2>8, <3>2, <4>1 DEF KeptIsGood, Newer
  <3>3. CASE boxFile'[c] = file /\ ~Newer(c) BY <1>0, <1>1, <2>1, <3>2, <3>3
  <3> QED BY <2>5, <3>1, <3>2, <3>3
 <2>9. ASSUME ~tangled
       PROVE  OneBox' /\ HostOwed' /\ KeptIsGood' /\ (hostFile'.token # 0 => hostFile'.login = newestLogin')
  <3>1. \A o \in BoxRuns : Owes(o) => Owes(o)' /\ boxRun'[o].box = boxRun[o].box BY <2>1, <2>3, <2>4 DEF Owes
  <3>2. \A o \in BoxRuns : boxRun'[o].box = boxRun[o].box /\ boxRun'[o].began = boxRun[o].began /\ (AtWork(o)' => AtWork(o))
   BY <1>1, <2>3, <2>4 DEF AtWork
  <3>3. OneBox' BY <1>1, <1>s, <2>1, <2>5, <2>8, <2>9, <3>2 DEF OneBox, Good, AtWork
  <3>4. HostOwed'
   <4>1. hostFile.at <= boxFile[c].at => hostFile'.at <= boxFile'[c].at BY <1>0, <1>f, <2>1, <2>2, <2>5
   <4>2. \A o \in BoxRuns : Owes(o) => boxRun[o].box = c BY <1>s, <2>9 DEF Owes, AtWork
   <4> QED BY <1>s, <2>1, <2>9, <3>1, <4>1, <4>2 DEF HostOwed
  <3>5. KeptIsGood'
   <4>1. boxFile'[c].token \in accepted' /\ boxFile'[c].login = newestLogin' BY <1>1, <2>1, <2>8, <2>9 DEF Good
   <4>2. \A b \in Boxes : b # c => boxFile'[b] = boxFile[b] BY <2>5
   <4>3. KeptIsGood BY <1>s, <2>9
   <4>4. accepted' = accepted /\ newestLogin' = newestLogin /\ hostFile' = hostFile BY <1>1, <2>1
   <4> QED BY <3>1, <4>1, <4>2, <4>3, <4>4 DEF KeptIsGood, Good
  <3> QED BY <1>1, <1>s, <2>1, <2>9, <3>3, <3>4, <3>5
 <2> QED BY <1>1, <2>6, <2>7, <2>9 DEF CredInductive, CredSound
<1>3. ASSUME Rotate(r)
      PROVE  CredInductive'
 <2> DEFINE file == [boxFile[c] EXCEPT !.token = issued + 1, !.at = second]
             m == [boxRun[r] EXCEPT !.rotated = TRUE]
 <2>1. /\ boxRun[r].at = "running" /\ boxFile[c].token \in accepted
       /\ issued' = issued + 1 /\ accepted' = Rotated(boxFile[c].token)
       /\ boxFile' = [boxFile EXCEPT ![c] = file] /\ boxRun' = [boxRun EXCEPT ![r] = m]
       /\ UNCHANGED hostFile
  BY <1>3 DEF Rotate
 <2>2. file \in FileType /\ file.token = issued + 1 /\ file.login = boxFile[c].login /\ file.at = second
  <3>1. issued + 1 \in Nat BY <1>0
  <3> QED BY <1>f, <3>1 DEF FileType
 <2>3. m \in BoxRunType /\ m.at = "running" /\ m.box = c /\ m.began = boxRun[r].began /\ m.rotated BY <1>0, <2>1 DEF BoxRunType
 <2> HIDE DEF file, m, c
 <2>4. /\ boxRun' \in [BoxRuns -> BoxRunType] /\ boxRun'[r] = m
       /\ \A o \in BoxRuns : o # r => boxRun'[o] = boxRun[o]
  BY <1>0, <2>1, <2>3, BoxRunMoves
 <2>5. /\ boxFile' \in [Boxes -> FileType] /\ boxFile'[c] = file
       /\ \A b \in Boxes : b # c => boxFile'[b] = boxFile[b]
  BY <1>0, <1>1, <2>1, <2>2
 <2>6. CredTypes'
  <3>1. accepted' \subseteq 1..issued' /\ issued' \in Nat /\ newestLogin' \in 0..issued'
   <4>1. \A i \in 1..issued : i \in 1..(issued + 1) BY <1>0
   <4>2. issued + 1 \in 1..(issued + 1) /\ newestLogin \in 0..(issued + 1) BY <1>0
   <4> QED
    <5>1. \A x \in accepted' : x \in accepted \/ x = issued + 1 BY <2>1 DEF Rotated
    <5>2. \A x \in accepted' : x \in 1..(issued + 1) BY <1>0, <4>1, <4>2, <5>1
    <5>3. issued' = issued + 1 /\ issued' \in Nat /\ newestLogin' = newestLogin BY <1>0, <1>1, <2>1
    <5> QED BY <4>2, <5>2, <5>3
  <3>2. \A b \in Boxes : boxFile'[b].token <= issued' /\ boxFile'[b].at <= second' BY <1>0, <1>1, <1>g, <2>1, <2>2, <2>5
  <3>3. hostFile'.token <= issued' /\ hostFile'.at <= second' BY <1>0, <1>1, <2>1 DEF FileType
  <3> QED BY <1>0, <1>1, <2>1, <2>4, <2>5, <3>1, <3>2, <3>3 DEF CredTypes
 <2>7. BoxRunSound' BY <1>0, <1>1, <2>1, <2>3, <2>4 DEF BoxRunSound, AtWork
 <2>8. ASSUME ~tangled
       PROVE  OneBox' /\ HostOwed' /\ KeptIsGood' /\ (hostFile'.token # 0 => hostFile'.login = newestLogin')
  <3>1. Owes(r)' /\ boxRun'[r].box = c BY <2>3, <2>4 DEF Owes
  <3>2. \A o \in BoxRuns : boxRun'[o].box = boxRun[o].box /\ boxRun'[o].began = boxRun[o].began /\ (AtWork(o)' => AtWork(o))
   BY <1>1, <2>3, <2>4 DEF AtWork
  <3>3. boxFile'[c].token \in accepted' /\ boxFile'[c].login = newestLogin'
   BY <1>1, <1>s, <2>1, <2>2, <2>5, <2>8 DEF Good, Rotated
  <3>4. OneBox' BY <1>1, <1>s, <2>5, <2>8, <3>2, <3>3 DEF OneBox, Good, AtWork
  <3>5. HostOwed' BY <1>0, <1>f, <2>1, <2>2, <2>5, <3>1 DEF HostOwed
  <3>6. KeptIsGood' BY <3>1, <3>3 DEF KeptIsGood, Good
  <3> QED BY <1>1, <1>s, <2>1, <2>8, <3>4, <3>5, <3>6
 <2> QED BY <1>1, <2>6, <2>7, <2>8 DEF CredInductive, CredSound
<1>4. ASSUME PullFile(r)
      PROVE  CredInductive'
 <2> DEFINE file == [boxFile[c] EXCEPT !.at = second]
 <2>1. /\ boxRun[r].at = "pull" /\ hostFile' = file /\ boxRun' = [boxRun EXCEPT ![r] = NoRun]
       /\ UNCHANGED <<boxFile, accepted, issued>>
  BY <1>4 DEF PullFile, Pulled
 <2>2. file \in FileType /\ file.token = boxFile[c].token /\ file.login = boxFile[c].login /\ file.at = second
  BY <1>0, <1>f DEF FileType
 <2>3. NoRun \in BoxRunType /\ NoRun.at = "idle" /\ ~NoRun.rotated BY DEF NoRun, BoxRunType
 <2> HIDE DEF file, c
 <2>4. /\ boxRun' \in [BoxRuns -> BoxRunType] /\ boxRun'[r] = NoRun
       /\ \A o \in BoxRuns : o # r => boxRun'[o] = boxRun[o]
  BY <1>0, <2>1, <2>3, BoxRunMoves
 <2>6. CredTypes' BY <1>0, <1>1, <1>f, <2>1, <2>2, <2>4 DEF CredTypes
 <2>7. BoxRunSound' BY <1>0, <1>1, <2>1, <2>3, <2>4 DEF BoxRunSound, AtWork
 <2>8. ASSUME ~tangled
       PROVE  OneBox' /\ HostOwed' /\ KeptIsGood' /\ (hostFile'.token # 0 => hostFile'.login = newestLogin')
  <3>0. Good(boxFile[c]) /\ second > boxRun[r].began BY <1>0, <1>s, <2>1, <2>8 DEF BoxRunSound
  <3>2. \A o \in BoxRuns : AtWork(o)' => AtWork(o) /\ boxRun'[o] = boxRun[o] BY <2>3, <2>4 DEF AtWork
  <3>4. OneBox' BY <1>1, <1>s, <2>1, <2>8, <3>2 DEF OneBox, Good, AtWork
  <3>5. HostOwed' BY <2>1, <2>2, <3>0 DEF HostOwed, Good
  <3>6. \A b \in Boxes : b # c => hostFile'.at > boxFile'[b].at
   <4>1. boxRun[r].began \in Nat BY <1>0 DEF BoxRunType
   <4> QED BY <1>0, <1>g, <1>s, <2>1, <2>2, <2>8, <3>0, <4>1
  <3>7. KeptIsGood' BY <1>1, <2>1, <3>0, <3>6 DEF KeptIsGood, Good
  <3> QED BY <1>1, <2>1, <2>2, <2>8, <3>0, <3>4, <3>5, <3>7 DEF Good
 <2> QED BY <1>1, <2>6, <2>7, <2>8 DEF CredInductive, CredSound
<1> QED BY <1>2, <1>3, <1>4

\* Somebody signs in on the host, or uses its login there.
LEMMA HostUseStep ==
  ASSUME CredInductive, HostUse
  PROVE  CredInductive'
<1>0. /\ hostFile \in FileType /\ boxFile \in [Boxes -> FileType]
      /\ accepted \subseteq 1..issued /\ issued \in Nat /\ newestLogin \in 0..issued /\ second \in Nat
      /\ hostFile.token <= issued /\ hostFile.at <= second
      /\ \A b \in Boxes : boxFile[b].token <= issued /\ boxFile[b].at <= second
      /\ boxRun \in [BoxRuns -> BoxRunType] /\ tangled \in BOOLEAN
      /\ BoxRunSound /\ CredSound
 BY DEF CredInductive, CredTypes
<1>1. /\ issued' = issued + 1 /\ accepted' \subseteq accepted \cup {issued + 1} /\ issued + 1 \in accepted'
      /\ newestLogin' \in {newestLogin, issued + 1}
      /\ hostFile' \in FileType /\ hostFile'.token = issued + 1 /\ hostFile'.at = second
      /\ hostFile'.login = newestLogin'
         \/ (hostFile'.login = hostFile.login /\ newestLogin' = newestLogin /\ hostFile.token \in accepted)
      /\ tangled' = (tangled \/ \E r \in BoxRuns : AtWork(r))
      /\ UNCHANGED <<boxFile, second, boxRun>>
 <2>1. CASE SignInOnHost
  <3>1. hostFile' = [token |-> issued + 1, login |-> issued + 1, at |-> second] /\ newestLogin' = issued + 1
   BY <2>1 DEF SignInOnHost
  <3>2. hostFile' \in FileType BY <1>0, <3>1 DEF FileType
  <3>3. hostFile'.token = issued + 1 /\ hostFile'.at = second /\ hostFile'.login = newestLogin' BY <3>1
  <3>4. /\ issued' = issued + 1 /\ accepted' = accepted \cup {issued + 1}
        /\ tangled' = (tangled \/ \E r \in BoxRuns : AtWork(r))
        /\ UNCHANGED <<boxFile, second, boxRun>>
   BY <2>1 DEF SignInOnHost
  <3> QED BY <3>1, <3>2, <3>3, <3>4
 <2>2. CASE RunOnHost
  <3>1. hostFile' = [hostFile EXCEPT !.token = issued + 1, !.at = second] BY <2>2 DEF RunOnHost
  <3>2. /\ hostFile' \in FileType /\ hostFile'.token = issued + 1 /\ hostFile'.at = second
        /\ hostFile'.login = hostFile.login
   <4>1. issued + 1 \in Nat BY <1>0
   <4> QED BY <1>0, <3>1, <4>1 DEF FileType
  <3>3. /\ issued' = issued + 1 /\ accepted' = (accepted \ {hostFile.token}) \cup {issued + 1}
        /\ newestLogin' = newestLogin /\ hostFile.token \in accepted
        /\ tangled' = (tangled \/ \E r \in BoxRuns : AtWork(r))
        /\ UNCHANGED <<boxFile, second, boxRun>>
   BY <2>2 DEF RunOnHost, Rotated
  <3> QED BY <3>2, <3>3, Zenon
 <2> QED BY <2>1, <2>2 DEF HostUse
<1>2. \A b \in Boxes : second > boxFile[b].at BY DEF HostUse
<1>3. hostFile' \in FileType /\ hostFile'.token = issued + 1 /\ hostFile'.at = second BY <1>1
<1>4. tangled' \in BOOLEAN /\ (~tangled' => ~tangled /\ \A r \in BoxRuns : ~AtWork(r)) BY <1>0, <1>1
<1>5. CredTypes'
 <2>1. accepted' \subseteq 1..issued' /\ issued' \in Nat /\ newestLogin' \in 0..issued' BY <1>0, <1>1
 <2>2. \A b \in Boxes : boxFile'[b].token <= issued' /\ boxFile'[b].at <= second' BY <1>0, <1>1 DEF FileType
 <2> QED BY <1>0, <1>1, <1>3, <1>4, <2>1, <2>2 DEF CredTypes
<1>6. BoxRunSound' BY <1>0, <1>1 DEF BoxRunSound, AtWork
<1>7. ASSUME ~tangled'
      PROVE  OneBox' /\ HostOwed' /\ KeptIsGood' /\ (hostFile'.token # 0 => hostFile'.login = newestLogin')
 <2>1. OneBox' BY <1>1, <1>4, <1>7 DEF OneBox, AtWork
 <2>2. HostOwed' BY <1>1, <1>3 DEF HostOwed
 <2>3. KeptIsGood' BY <1>1, <1>2, <1>3 DEF KeptIsGood
 <2>4. hostFile.token \in accepted => hostFile.token # 0 BY <1>0
 <2>5. hostFile'.login = newestLogin' BY <1>0, <1>1, <1>4, <1>7, <2>4 DEF CredSound, FileType
 <2> QED BY <2>1, <2>2, <2>3, <2>5
<1> QED BY <1>5, <1>6, <1>7 DEF CredInductive, CredSound

\* The host and its containers are never left with a login the provider refuses, nor
\* with an old one, unless two runs crossed.
THEOREM CredKept == CredSpec => []CredInvariant
<1>1. ASSUME CredInductive, [CredNext]_credVars PROVE CredInductive'
 <2>1. CASE TickSecond
  <3>1. /\ second' = second + 1
        /\ UNCHANGED <<hostFile, boxFile, accepted, issued, newestLogin, boxRun, tangled>>
   BY <2>1 DEF TickSecond
  <3>2. CredTypes /\ BoxRunSound /\ CredSound BY <1>1 DEF CredInductive
  <3>3. CredTypes' BY <3>1, <3>2 DEF CredTypes, FileType
  <3>4. BoxRunSound' BY <3>1, <3>2 DEF BoxRunSound, AtWork, CredTypes, BoxRunType
  <3>5. CredSound' BY <3>1, <3>2 DEF CredSound, OneBox, HostOwed, KeptIsGood, AtWork, Good, Owes
  <3> QED BY <3>3, <3>4, <3>5 DEF CredInductive
 <2>2. CASE UNCHANGED credVars
  BY <1>1, <2>2 DEF credVars, CredInductive, CredTypes, BoxRunSound, CredSound, OneBox, HostOwed, KeptIsGood,
     AtWork, Good, Owes
 <2> QED BY <1>1, <2>1, <2>2, BoxRunStep, BoxFileStep, HostUseStep DEF CredNext
<1> QED BY <1>1, CredStart, CredKeeps, PTL DEF CredSpec

----
\* The base image (ImageBuild).

BuildStages == {"clean", "launch", "egress", "tools", "browser", "ide", "stop", "publish", "cleanup"}
BuildType == [at : BuildStages \cup {"idle", "done", "failed"}, failed : BOOLEAN, crossed : BOOLEAN]
BuilderType == [state : {"none", "running", "stopped"}, layers : SUBSET Layers, by : Builds \cup {NoBuild}]
ImageType == [made : BOOLEAN, layers : SUBSET Layers, crossed : BOOLEAN]

BuildTypes ==
  /\ build \in [Builds -> BuildType] /\ builder \in BuilderType /\ image \in ImageType
  /\ buildFaults \in Nat
  /\ builder.state = "none" => builder = NoBuilder

\* Builds that work at the same time know that they do.
CrossingKnown == \A b, c \in Working : b # c => build[b].crossed /\ build[c].crossed

\* The layers that are installed when a stage begins.
Installed(at) ==
  CASE at = "egress" -> {} [] at = "tools" -> {} [] at = "browser" -> {"tools"}
    [] at = "ide" -> {"tools", "browser"} [] OTHER -> Layers

BuildsOwn ==
  \A b \in Working : (~build[b].crossed /\ build[b].at \in Layers \cup {"egress", "stop", "publish"}) =>
    builder.by = b /\ builder.layers = Installed(build[b].at)

BuildInductive == BuildTypes /\ CrossingKnown /\ BuildsOwn /\ ImageWhole /\ BuilderRemoved


\* The stages follow one another as Build's body has them.
LEMMA StagesInOrder ==
  /\ NextStage("clean") = "launch" /\ NextStage("launch") = "egress" /\ NextStage("egress") = "tools"
  /\ NextStage("tools") = "browser" /\ NextStage("browser") = "ide" /\ NextStage("ide") = "stop"
  /\ NextStage("stop") = "publish" /\ NextStage("publish") = "cleanup"
<1> DEFINE S == <<"clean", "launch", "egress", "tools", "browser", "ide", "stop", "publish", "cleanup">>
<1>1. Len(S) = 9 /\ \A i \in 1..9 : \A j \in 1..9 : S[i] = S[j] => i = j OBVIOUS
<1>2. \A i \in 1..9 : (CHOOSE k \in 1..9 : S[k] = S[i]) = i BY <1>1
<1>3. \A i \in 1..9 : NextStage(S[i]) = S[1 + i] BY <1>1, <1>2 DEF NextStage, Stages
<1> QED BY <1>3

\* What is installed when a stage begins is what the stages before it install.
LEMMA InstalledBefore ==
  \A at \in Layers \cup {"egress", "stop", "publish"} :
    Installed(at) = {l \in Layers : \E i, j \in 1..Len(Stages) : i < j /\ Stages[i] = l /\ Stages[j] = at}
<1> DEFINE S == <<"clean", "launch", "egress", "tools", "browser", "ide", "stop", "publish", "cleanup">>
            P(l, at) == \E i, j \in 1..9 : i < j /\ S[i] = l /\ S[j] = at
<1>1. Stages = S /\ Len(Stages) = 9 BY DEF Stages
<1>2. /\ \A at \in {"egress", "tools"} : ~P("tools", at) /\ ~P("browser", at) /\ ~P("ide", at)
      /\ P("tools", "browser") /\ ~P("browser", "browser") /\ ~P("ide", "browser")
      /\ P("tools", "ide") /\ P("browser", "ide") /\ ~P("ide", "ide")
      /\ \A at \in {"stop", "publish"} : P("tools", at) /\ P("browser", at) /\ P("ide", at)
 OBVIOUS
<1> HIDE DEF P
<1>3. \A at \in Layers \cup {"egress", "stop", "publish"} : Installed(at) = {l \in Layers : P(l, at)}
 BY <1>2 DEF Installed, Layers
<1> QED BY <1>1, <1>3 DEF P

\* The inductive invariant says what the run checks.
LEMMA BuildsKept == BuildInductive => BuildInvariant
BY InstalledBefore
   DEF BuildInductive, BuildInvariant, BuildTypes, BuildTypeOK, BuilderType, ImageType, BuildsOwn, OwnBuilder, NoBuilder

\* A build that goes on, or gives up, knows what it knew of the others, and they are
\* told nothing new.
LEMMA StagesMove ==
  ASSUME BuildInductive, NEW b \in Working, NEW m \in BuildType, m.crossed = build[b].crossed,
         build' = [build EXCEPT ![b] = m],
         (~m.crossed /\ m.at \in Layers \cup {"egress", "stop", "publish"})
           => builder'.by = b /\ builder'.layers = Installed(m.at)
  PROVE  /\ build' \in [Builds -> BuildType] /\ CrossingKnown' /\ BuildsOwn'
         /\ m.at \notin {"idle", "done", "failed"} => Working' = Working
<1>1. /\ build \in [Builds -> BuildType] /\ b \in Builds /\ CrossingKnown /\ BuildsOwn BY DEF BuildInductive, BuildTypes, Working
<1>2. build' \in [Builds -> BuildType] /\ build'[b] = m /\ \A c \in Builds : c # b => build'[c] = build[c] BY <1>1
<1>3. Working' \subseteq Working /\ (m.at \notin {"idle", "done", "failed"} => Working' = Working) BY <1>1, <1>2 DEF Working
<1>4. CrossingKnown' BY <1>1, <1>2, <1>3 DEF CrossingKnown, Working
<1>5. \A c \in Working' : c # b => build'[c].crossed BY <1>1, <1>2, <1>3 DEF CrossingKnown, Working
<1>6. BuildsOwn' BY <1>2, <1>5 DEF BuildsOwn
<1> QED BY <1>2, <1>3, <1>4, <1>6

\* Nothing is under way, and there is no image or a whole one, at first.
LEMMA BuildStart == BuildInit => BuildInductive
<1> SUFFICES ASSUME BuildInit PROVE BuildInductive OBVIOUS
<1> DEFINE m == [at |-> "idle", failed |-> FALSE, crossed |-> FALSE]
<1>1. m \in BuildType /\ NoBuilder \in BuilderType /\ NoImage \in ImageType
 BY DEF BuildType, BuilderType, ImageType, NoBuilder, NoImage, Layers
<1>2. [made |-> TRUE, layers |-> Layers, crossed |-> FALSE] \in ImageType BY DEF ImageType
<1>3. build = [b \in Builds |-> m] /\ builder = NoBuilder /\ buildFaults = 0 BY DEF BuildInit
<1>4. build \in [Builds -> BuildType] /\ Working = {} BY <1>1, <1>3 DEF Working
<1>5. image \in ImageType /\ ImageWhole
 <2> DEFINE whole == [made |-> TRUE, layers |-> Layers, crossed |-> FALSE]
 <2>1. NoImage.made = FALSE /\ whole.layers = Layers BY DEF NoImage
 <2>2. image = NoImage \/ image = whole BY DEF BuildInit
 <2> HIDE DEF whole
 <2>3. CASE image = NoImage BY <1>1, <2>1, <2>3 DEF ImageWhole
 <2>4. CASE image = whole BY <1>2, <2>1, <2>4 DEF ImageWhole, whole
 <2> QED BY <2>2, <2>3, <2>4
<1> QED BY <1>1, <1>3, <1>4, <1>5 DEF BuildInductive, BuildTypes, CrossingKnown, BuildsOwn, BuilderRemoved

\* Every stage, failure and crash of every build.
LEMMA BuildsStep ==
  ASSUME BuildInductive, [BuildNext]_buildVars
  PROVE  BuildInductive'
<1>0. /\ build \in [Builds -> BuildType] /\ builder \in BuilderType /\ image \in ImageType
      /\ buildFaults \in Nat /\ (builder.state = "none" => builder = NoBuilder)
      /\ CrossingKnown /\ BuildsOwn /\ ImageWhole /\ BuilderRemoved
 BY DEF BuildInductive, BuildTypes
<1>1. ASSUME NEW b \in Builds, StartBuild(b)
      PROVE  BuildInductive'
 <2> DEFINE m == [at |-> "clean", failed |-> FALSE, crossed |-> Working # {}]
             n(c) == [build[c] EXCEPT !.crossed = (c \in Working)]
 <2>1. /\ build' = [c \in Builds |-> IF c = b THEN m ELSE n(c)]
       /\ build[b].at \in {"idle", "done", "failed"}
       /\ image' = NoImage \/ image' = image
       /\ UNCHANGED <<builder, buildFaults>>
  BY <1>1 DEF StartBuild
 <2>2. m \in BuildType /\ \A c \in Builds : n(c) \in BuildType
  <3>1. \A x \in BOOLEAN : [at |-> "clean", failed |-> FALSE, crossed |-> x] \in BuildType BY DEF BuildType, BuildStages
  <3>2. \A c \in Builds : \A x \in BOOLEAN : [build[c] EXCEPT !.crossed = x] \in BuildType BY <1>0 DEF BuildType
  <3>3. (Working # {}) \in BOOLEAN /\ \A c \in Builds : (c \in Working) \in BOOLEAN OBVIOUS
  <3> QED BY <3>1, <3>2, <3>3, Zenon
 <2>3. build' \in [Builds -> BuildType] /\ build'[b] = m /\ \A c \in Builds : c # b => build'[c] = n(c) BY <2>1, <2>2
 <2>4. Working' = Working \cup {b} /\ b \notin Working BY <2>1, <2>3, <1>0 DEF Working, BuildType
 <2>5. /\ build'[b].crossed = (Working # {}) /\ build'[b].at = "clean"
       /\ \A c \in Builds : c # b => build'[c].crossed = (c \in Working)
  BY <1>0, <2>3 DEF BuildType
 <2>6. CrossingKnown' BY <2>4, <2>5 DEF CrossingKnown, Working
 <2>7. BuildsOwn'
  <3>1. \A c \in Working' : c # b => build'[c].crossed BY <2>4, <2>5 DEF Working
  <3>2. build'[b].at \notin Layers \cup {"egress", "stop", "publish"} BY <2>5 DEF Layers
  <3> QED BY <3>1, <3>2 DEF BuildsOwn
 <2>8. image' \in ImageType /\ ImageWhole'
  <3>1. NoImage \in ImageType /\ ~NoImage.made BY DEF ImageType, NoImage, Layers
  <3> QED BY <1>0, <2>1, <3>1 DEF ImageWhole
 <2>9. BuilderRemoved' BY <2>4 DEF BuilderRemoved
 <2> QED BY <1>0, <2>1, <2>3, <2>6, <2>7, <2>8, <2>9 DEF BuildInductive, BuildTypes
<1>2. ASSUME NEW b \in Builds, BuildStep(b)
      PROVE  BuildInductive'
 <2>0. buildFaults' = buildFaults BY <1>2 DEF BuildStep
 <2>b. b \in Working BY <1>2 DEF BuildStep, Working, Layers
 <2> DEFINE goes(at) == [build[b] EXCEPT !.at = at]
             gives == [build[b] EXCEPT !.at = "cleanup", !.failed = TRUE]
 <2>1. ASSUME NEW at \in BuildStages PROVE goes(at) \in BuildType /\ goes(at).at = at /\ goes(at).crossed = build[b].crossed
  BY <1>0 DEF BuildType
 <2>2. gives \in BuildType /\ gives.at = "cleanup" /\ gives.crossed = build[b].crossed BY <1>0 DEF BuildType, BuildStages
 <2>3. GoesOn(b) => build' = [build EXCEPT ![b] = goes(NextStage(build[b].at))] BY DEF GoesOn
 <2>4. GivesUp(b) => build' = [build EXCEPT ![b] = gives]
  <3>1. GivesUp(b) => build' = [[build EXCEPT ![b].at = "cleanup"] EXCEPT ![b].failed = TRUE] BY DEF GivesUp
  <3> QED BY <1>0, <3>1 DEF BuildType
 <2> HIDE DEF goes, gives
 <2>k. ASSUME builder' \in BuilderType, builder'.state = "none" => builder' = NoBuilder,
              image' \in ImageType, ImageWhole', build' \in [Builds -> BuildType], CrossingKnown', BuildsOwn',
              Working' = Working \/ builder' = NoBuilder
       PROVE  BuildInductive'
  BY <1>0, <2>0, <2>b, <2>k DEF BuildInductive, BuildTypes, BuilderRemoved
 <2>g. ASSUME GivesUp(b), UNCHANGED <<builder, image>>
       PROVE  BuildInductive'
  <3>1. /\ build' \in [Builds -> BuildType] /\ CrossingKnown' /\ BuildsOwn' /\ Working' = Working
   BY <2>b, <2>2, <2>4, <2>g, StagesMove DEF Layers
  <3> QED BY <1>0, <2>g, <2>k, <3>1 DEF ImageWhole
 <2>o. ASSUME GoesOn(b), image' = image, builder' \in BuilderType, builder'.state = "none" => builder' = NoBuilder,
              NEW at \in BuildStages, NextStage(build[b].at) = at,
              (~build[b].crossed /\ at \in Layers \cup {"egress", "stop", "publish"})
                => builder'.by = b /\ builder'.layers = Installed(at)
       PROVE  BuildInductive'
  <3>1. build' = [build EXCEPT ![b] = goes(at)] BY <2>3, <2>o
  <3>2. goes(at) \in BuildType /\ goes(at).at = at /\ goes(at).crossed = build[b].crossed BY <2>1
  <3>3. /\ build' \in [Builds -> BuildType] /\ CrossingKnown' /\ BuildsOwn' /\ Working' = Working
   BY <2>b, <2>o, <3>1, <3>2, StagesMove DEF BuildStages
  <3> QED BY <1>0, <2>o, <2>k, <3>3 DEF ImageWhole
 <2>n. (~build[b].crossed /\ build[b].at \in Layers \cup {"egress", "stop", "publish"})
         => builder.by = b /\ builder.layers = Installed(build[b].at)
  BY <1>0, <2>b DEF BuildsOwn
 <2>5. CASE build[b].at = "clean"
  <3>1. builder' = NoBuilder /\ GoesOn(b) /\ image' = image BY <1>2, <2>5 DEF BuildStep, Layers
  <3>2. NoBuilder \in BuilderType /\ "launch" \in BuildStages /\ "launch" \notin Layers \cup {"egress", "stop", "publish"}
   BY DEF NoBuilder, BuilderType, Layers, BuildStages
  <3> QED BY <2>5, <3>1, <3>2, <2>o, StagesInOrder
 <2>6. CASE build[b].at = "launch"
  <3>1. Launches(b) /\ image' = image BY <1>2, <2>6 DEF BuildStep, Layers
  <3>2. CASE builder.state = "none"
   <4>1. builder' = [state |-> "running", layers |-> {}, by |-> b] /\ GoesOn(b) BY <3>1, <3>2 DEF Launches
   <4>2. builder' \in BuilderType /\ builder'.by = b /\ builder'.layers = {} /\ builder'.state # "none" BY <4>1 DEF BuilderType
   <4>3. Installed("egress") = {} /\ "egress" \in BuildStages BY DEF Installed, BuildStages
   <4> QED BY <2>6, <2>o, <3>1, <4>1, <4>2, <4>3, StagesInOrder
  <3>3. CASE builder.state # "none" BY <3>1, <3>3, <2>g DEF Launches
  <3> QED BY <3>2, <3>3
 <2>7. CASE build[b].at = "egress"
  <3>1. UNCHANGED <<builder, image>> /\ (GoesOn(b) \/ GivesUp(b)) BY <1>2, <2>7 DEF BuildStep, Layers
  <3>2. Installed("egress") = Installed("tools") /\ "tools" \in BuildStages BY DEF Installed, BuildStages
  <3> QED BY <1>0, <2>7, <2>n, <2>o, <2>g, <3>1, <3>2, StagesInOrder
 <2>8. CASE build[b].at \in Layers
  <3> DEFINE l == build[b].at
  <3>1. Installs(b, l) /\ image' = image BY <1>2, <2>8 DEF BuildStep, Layers
  <3>2. CASE builder.state = "running"
   <4> DEFINE d == [builder EXCEPT !.layers = @ \cup {l}]
   <4>1. builder' = d /\ GoesOn(b) BY <3>1, <3>2 DEF Installs
   <4>2. d \in BuilderType /\ d.by = builder.by /\ d.layers = builder.layers \cup {l} /\ d.state = "running"
    BY <1>0, <2>8, <3>2 DEF BuilderType
   <4> HIDE DEF d
   <4>3. /\ NextStage(l) \in BuildStages
         /\ Installed(NextStage(l)) = Installed(l) \cup {l}
    BY <2>8, StagesInOrder DEF Installed, Layers, BuildStages
   <4> QED BY <2>8, <2>n, <2>o, <3>1, <4>1, <4>2, <4>3
  <3>3. CASE builder.state # "running" BY <3>1, <3>3, <2>g DEF Installs
  <3> QED BY <3>2, <3>3
 <2>9. CASE build[b].at = "stop"
  <3>1. Stops(b) /\ image' = image BY <1>2, <2>9 DEF BuildStep, Layers
  <3>2. CASE builder.state = "running"
   <4> DEFINE d == [builder EXCEPT !.state = "stopped"]
   <4>1. builder' = d /\ GoesOn(b) BY <3>1, <3>2 DEF Stops
   <4>2. d \in BuilderType /\ d.by = builder.by /\ d.layers = builder.layers /\ d.state = "stopped" BY <1>0 DEF BuilderType
   <4> HIDE DEF d
   <4>3. Installed("stop") = Installed("publish") /\ "publish" \in BuildStages BY DEF Installed, BuildStages
   <4> QED BY <2>9, <2>n, <2>o, <3>1, <4>1, <4>2, <4>3, StagesInOrder
  <3>3. CASE builder.state # "running" BY <3>1, <3>3, <2>g DEF Stops
  <3> QED BY <3>2, <3>3
 <2>10. CASE build[b].at = "publish"
  <3>1. Publishes(b) /\ builder' = builder BY <1>2, <2>10 DEF BuildStep, Layers
  <3>2. CASE builder.state = "stopped" /\ ~image.made
   <4>1. /\ image' = [made |-> TRUE, layers |-> builder.layers, crossed |-> build[b].crossed]
         /\ GoesOn(b)
    BY <3>1, <3>2 DEF Publishes
   <4>2. image' \in ImageType BY <1>0, <4>1 DEF ImageType, BuilderType, BuildType
   <4>3. ImageWhole' BY <2>n, <2>10, <4>1 DEF ImageWhole, Installed
   <4>4. build' = [build EXCEPT ![b] = goes("cleanup")] BY <2>3, <2>10, <4>1, StagesInOrder
   <4>5. goes("cleanup") \in BuildType /\ goes("cleanup").at = "cleanup" /\ goes("cleanup").crossed = build[b].crossed
    BY <2>1 DEF BuildStages
   <4>6. build' \in [Builds -> BuildType] /\ CrossingKnown' /\ BuildsOwn' /\ Working' = Working
    BY <2>b, <4>4, <4>5, StagesMove DEF Layers
   <4> QED BY <1>0, <2>k, <3>1, <4>2, <4>3, <4>6
  <3>3. CASE ~(builder.state = "stopped" /\ ~image.made) BY <3>1, <3>3, <2>g DEF Publishes
  <3> QED BY <3>2, <3>3
 <2>11. CASE build[b].at = "cleanup"
  <3> DEFINE m == [build[b] EXCEPT !.at = IF build[b].failed THEN "failed" ELSE "done"]
  <3>1. /\ builder' = NoBuilder /\ image' = image
        /\ build' = [build EXCEPT ![b].at = IF @ = "cleanup" /\ build[b].failed THEN "failed" ELSE "done"]
   BY <1>2, <2>11 DEF BuildStep, Layers
  <3>2. build' = [build EXCEPT ![b] = m] BY <1>0, <2>11, <3>1 DEF BuildType
  <3>3. m \in BuildType /\ m.at \notin Layers \cup {"egress", "stop", "publish"} /\ m.crossed = build[b].crossed
   BY <1>0 DEF BuildType, Layers
  <3> HIDE DEF m
  <3>4. build' \in [Builds -> BuildType] /\ CrossingKnown' /\ BuildsOwn' BY <2>b, <3>2, <3>3, StagesMove
  <3>5. NoBuilder \in BuilderType BY DEF NoBuilder, BuilderType, Layers
  <3> QED BY <1>0, <2>k, <3>1, <3>4, <3>5 DEF ImageWhole
 <2> QED BY <1>2, <2>5, <2>6, <2>7, <2>8, <2>9, <2>10, <2>11 DEF BuildStep
<1>3. ASSUME NEW b \in Builds, BuildFault(b) \/ BuildCrash(b)
      PROVE  BuildInductive'
 <2>1. b \in Working /\ buildFaults' = buildFaults + 1 /\ UNCHANGED <<builder, image>> BY <1>3 DEF BuildFault, BuildCrash
 <2>2. PICK m \in BuildType : /\ build' = [build EXCEPT ![b] = m] /\ m.crossed = build[b].crossed
                              /\ m.at \notin Layers \cup {"egress", "stop", "publish"}
  <3>1. \A at \in {"launch", "failed", "done"} :
          LET m == [build[b] EXCEPT !.at = at] IN m \in BuildType /\ m.crossed = build[b].crossed /\ m.at = at
   BY <1>0 DEF BuildType, BuildStages
  <3>2. LET m == [build[b] EXCEPT !.at = "cleanup", !.failed = TRUE]
        IN m \in BuildType /\ m.crossed = build[b].crossed /\ m.at = "cleanup"
   BY <1>0 DEF BuildType, BuildStages
  <3>3. GivesUp(b) => build' = [build EXCEPT ![b] = [build[b] EXCEPT !.at = "cleanup", !.failed = TRUE]]
   <4>1. GivesUp(b) => build' = [[build EXCEPT ![b].at = "cleanup"] EXCEPT ![b].failed = TRUE] BY DEF GivesUp
   <4> QED BY <1>0, <4>1 DEF BuildType
  <3>4. {"launch", "failed", "done", "cleanup"} \cap (Layers \cup {"egress", "stop", "publish"}) = {} BY DEF Layers
  <3>5. CASE BuildCrash(b) BY <3>1, <3>4, <3>5 DEF BuildCrash
  <3>6. CASE BuildFault(b)
   <4>1. build[b].at = "clean" => build' = [build EXCEPT ![b].at = "launch"]
    BY <3>6, StagesInOrder DEF BuildFault, StageFails, GoesOn
   <4>2. build[b].at = "cleanup" => \E at \in {"failed", "done"} : build' = [build EXCEPT ![b].at = at]
    BY <3>6 DEF BuildFault, StageFails
   <4>3. build[b].at \notin {"clean", "cleanup"} => GivesUp(b) BY <3>6 DEF BuildFault, StageFails
   <4> QED BY <3>1, <3>2, <3>3, <3>4, <4>1, <4>2, <4>3
  <3> QED BY <1>3, <3>5, <3>6
 <2>3. build' \in [Builds -> BuildType] /\ CrossingKnown' /\ BuildsOwn' BY <2>1, <2>2, StagesMove
 <2>4. ImageWhole' /\ BuilderRemoved' /\ buildFaults' \in Nat BY <1>0, <2>1 DEF ImageWhole, BuilderRemoved
 <2> QED BY <1>0, <2>1, <2>3, <2>4 DEF BuildInductive, BuildTypes
<1>4. CASE UNCHANGED buildVars
 BY <1>0, <1>4 DEF buildVars, BuildInductive, BuildTypes, CrossingKnown, BuildsOwn, ImageWhole, BuilderRemoved, Working
<1> QED BY <1>1, <1>2, <1>3, <1>4 DEF BuildNext

\* What is published has every layer, and what is left of a builder is somebody's,
\* whatever fails or dies.
THEOREM BuildKept == BuildSpec => []BuildInvariant
<1>1. BuildInductive /\ [BuildNext]_buildVars => BuildInductive' BY BuildsStep
<1> QED BY <1>1, BuildStart, BuildsKept, PTL DEF BuildSpec

----
\* The ledger (UsageLedger).

RebuildType == [stage : {"idle", "reading", "writing"}, index : SUBSET Lines, todo : SUBSET (Chats \cup Months),
                found : SUBSET Lines, calm : BOOLEAN]

Named(r) == [run |-> r, actor |-> TRUE]
Unwritten(r) == \A m \in Months : \A i \in DOMAIN ledger[m] : ledger[m][i].run # r

LedgerTypes ==
  /\ month \in Months
  /\ phase \in [LedgerRuns -> {"going", "emitted", "over"}]
  /\ event \in [LedgerRuns -> [chat : Chats, month : Months, kept : BOOLEAN] \cup {NoEvent}]
  /\ ledger \in [Months -> Seq(Lines)]
  /\ cut \in [Months -> BOOLEAN]
  /\ rebuild \in [Rebuilders -> RebuildType]
  /\ writer \in Rebuilders \cup {Unlocked}
  /\ exposed \subseteq LedgerRuns

StageSound(a) ==
  /\ rebuild[a].stage = "writing" <=> writer = a
  /\ rebuild[a].stage = "idle" => rebuild[a] = NoRebuild
  /\ rebuild[a].stage = "reading" => rebuild[a].todo \subseteq Chats
  /\ rebuild[a].stage = "writing" => rebuild[a].todo \subseteq Months

Unended(r) ==
  /\ phase[r] = "going" <=> event[r] = NoEvent
  /\ phase[r] = "going" => Unwritten(r) /\ \A a \in Rebuilders : \A l \in rebuild[a].found : l.run # r
  /\ phase[r] = "emitted" /\ r \notin exposed => Unwritten(r) /\ ~Rebuilding

Counted(r) ==
  /\ \A m \in Months : \A i \in DOMAIN ledger[m] : ledger[m][i].run = r => m = event[r].month
  /\ \A i, j \in DOMAIN ledger[event[r].month] :
       ledger[event[r].month][i].run = r /\ ledger[event[r].month][j].run = r => i = j
  /\ event[r].kept => \E i \in DOMAIN ledger[event[r].month] : ledger[event[r].month][i] = Named(r)

Rederivable(r, a) ==
  rebuild[a].stage # "idle" =>
    /\ event[r].kept => Named(r) \in rebuild[a].index
    /\ \A l \in rebuild[a].found : l.run = r => l.actor
    /\ event[r].kept /\ (rebuild[a].stage = "writing" \/ event[r].chat \notin rebuild[a].todo)
         => Named(r) \in rebuild[a].found

RunSafe(r) ==
  phase[r] = "over" /\ r \notin exposed => Counted(r) /\ \A a \in Rebuilders : Rederivable(r, a)

CalmSound(a) ==
  rebuild[a].calm =>
    /\ rebuild[a].stage # "idle" /\ \A b \in Rebuilders \ {a} : rebuild[b].stage = "idle"
    /\ \A r \in LedgerRuns :
         (\E l \in rebuild[a].found : l.run = r) <=>
           /\ event[r] # NoEvent /\ event[r].kept
           /\ rebuild[a].stage = "writing" \/ event[r].chat \notin rebuild[a].todo
    /\ \A k, l \in rebuild[a].found : k.run = l.run => k = l
    /\ rebuild[a].stage = "writing" =>
         \A m \in Months \ rebuild[a].todo : FoundIn(a, m) # {} => ledger[m] \in FilesOf(FoundIn(a, m))

LedgerInductive ==
  /\ LedgerTypes
  /\ \A r \in LedgerRuns : Unended(r) /\ RunSafe(r)
  /\ \A a \in Rebuilders : StageSound(a) /\ CalmSound(a)

\* The lines that can be: finitely many.
LEMMA LinesFinite == IsFiniteSet(Lines)
<1> DEFINE pairs == LedgerRuns \X BOOLEAN
            f == [x \in Lines |-> <<x.run, x.actor>>]
<1>1. IsFiniteSet(LedgerRuns) BY UsageLedgerAssumption, FS_Interval DEF LedgerRuns
<1>2. IsFiniteSet(BOOLEAN)
 <2>1. IsFiniteSet({TRUE}) /\ IsFiniteSet({FALSE}) BY FS_Singleton
 <2>2. BOOLEAN = {TRUE} \cup {FALSE} OBVIOUS
 <2> QED BY <2>1, <2>2, FS_Union
<1>3. IsFiniteSet(pairs) BY <1>1, <1>2, FS_Product
<1>4. f \in Injection(Lines, pairs) BY DEF Lines, Injection, IsInjective
<1> QED BY <1>3, <1>4, FS_Injection

\* A file of lines holds each of them once and nothing else.
LEMMA FileHolds ==
  ASSUME NEW lines \in SUBSET Lines, NEW file \in FilesOf(lines)
  PROVE  /\ file \in Seq(Lines)
         /\ \A i \in DOMAIN file : file[i] \in lines
         /\ \A i, j \in DOMAIN file : file[i] = file[j] => i = j
         /\ \A l \in lines : \E i \in DOMAIN file : file[i] = l
<1>1. IsFiniteSet(lines) /\ Cardinality(lines) \in Nat BY LinesFinite, FS_Subset, FS_CardinalityType
<1>2. PICK n \in Nat : n = Cardinality(lines) BY <1>1
<1>3. file \in [1..n -> lines] /\ \A i \in DOMAIN file : \A j \in 1..(i - 1) : file[j] # file[i] BY <1>2 DEF FilesOf
<1>4. \A i, j \in 1..n : file[i] = file[j] => i = j
 <2>1. \A i, j \in 1..n : i < j => file[i] # file[j] BY <1>3
 <2> QED BY <2>1
<1>5. file \in Injection(1..n, lines) BY <1>3, <1>4 DEF Injection, IsInjective
<1>6. Cardinality(1..n) = n BY <1>2, FS_Interval
<1>7. file \in Surjection(1..n, lines) BY <1>1, <1>2, <1>5, <1>6, FS_Injection
<1>8. \A l \in lines : \E i \in 1..n : file[i] = l BY <1>7 DEF Surjection
<1>9. file \in Seq(Lines) BY <1>3
<1> QED BY <1>3, <1>4, <1>8, <1>9

\* No run has ended, and no rebuild is under way, at first.
LEMMA LedgerStart == LedgerInit => LedgerInductive
<1> SUFFICES ASSUME LedgerInit PROVE LedgerInductive OBVIOUS
<1>1. NoRebuild \in RebuildType BY DEF NoRebuild, RebuildType
<1>2. LedgerTypes BY <1>1, UsageLedgerAssumption DEF LedgerInit, LedgerTypes, Months, LedgerRuns
<1>3. \A r \in LedgerRuns : Unended(r) /\ RunSafe(r) BY DEF LedgerInit, Unended, RunSafe, Unwritten, NoRebuild, LedgerRuns
<1>4. \A a \in Rebuilders : StageSound(a) /\ CalmSound(a)
 BY UsageLedgerAssumption DEF LedgerInit, StageSound, CalmSound, NoRebuild
<1> QED BY <1>2, <1>3, <1>4 DEF LedgerInductive

\* The inductive invariant says what the run checks.
LEMMA CountedOnceEach ==
  ASSUME LedgerTypes, NEW r \in LedgerRuns, event[r] # NoEvent, Counted(r)
  PROVE  Count(ledger, r) <= 1
<1>1. event[r].month \in Months BY DEF LedgerTypes
<1>2. \A x, y \in Places(ledger, r) : x = y BY <1>1 DEF Places, Counted
<1>3. CASE Places(ledger, r) = {} BY <1>3, FS_EmptySet DEF Count
<1>4. CASE Places(ledger, r) # {}
 <2>1. PICK x : Places(ledger, r) = {x} BY <1>2, <1>4
 <2> QED BY <2>1, FS_Singleton DEF Count
<1> QED BY <1>3, <1>4

\* The inductive invariant says what the run checks.
LEMMA LedgerImplied == LedgerInductive => LedgerInvariant
<1> SUFFICES ASSUME LedgerInductive PROVE LedgerInvariant OBVIOUS
<1>1. LedgerTypeOK BY DEF LedgerInductive, LedgerTypes, LedgerTypeOK, StageSound, RebuildType
<1>2. ASSUME NEW r \in LedgerRuns, phase[r] = "over", r \notin exposed
      PROVE  /\ Count(ledger, r) <= 1
             /\ event[r].kept => \E i \in DOMAIN ledger[event[r].month] : ledger[event[r].month][i] = [run |-> r, actor |-> TRUE]
 BY <1>2, CountedOnceEach DEF LedgerInductive, RunSafe, Unended, Counted, Named
<1> QED BY <1>1, <1>2 DEF LedgerInvariant, RecordsKept

\* What a step reads of the inductive invariant.
LEMMA LedgerParts ==
  ASSUME LedgerInductive
  PROVE  /\ LedgerTypes
         /\ \A r \in LedgerRuns : Unended(r) /\ RunSafe(r)
         /\ \A a \in Rebuilders : StageSound(a) /\ CalmSound(a)
  BY DEF LedgerInductive

\* A rebuild that is disturbed is no longer calm, and otherwise as it was.
LEMMA DisturbedIs ==
  ASSUME LedgerInductive
  PROVE  /\ Disturbed \in [Rebuilders -> RebuildType]
         /\ \A a \in Rebuilders :
              /\ ~Disturbed[a].calm
              /\ Disturbed[a].stage = rebuild[a].stage /\ Disturbed[a].index = rebuild[a].index
              /\ Disturbed[a].todo = rebuild[a].todo /\ Disturbed[a].found = rebuild[a].found
              /\ rebuild[a] = NoRebuild => Disturbed[a] = NoRebuild
<1>1. rebuild \in [Rebuilders -> RebuildType] BY LedgerParts DEF LedgerTypes
<1>2. ASSUME NEW a \in Rebuilders
      PROVE  /\ Disturbed[a] \in RebuildType /\ ~Disturbed[a].calm
             /\ Disturbed[a].stage = rebuild[a].stage /\ Disturbed[a].index = rebuild[a].index
             /\ Disturbed[a].todo = rebuild[a].todo /\ Disturbed[a].found = rebuild[a].found
             /\ rebuild[a] = NoRebuild => Disturbed[a] = NoRebuild
 <2>1. PICK x \in RebuildType : x = rebuild[a] BY <1>1
 <2>2. Disturbed[a] = [x EXCEPT !.calm = FALSE] BY <2>1 DEF Disturbed
 <2>3. [x EXCEPT !.calm = FALSE] \in RebuildType BY DEF RebuildType
 <2>4. x = NoRebuild => [x EXCEPT !.calm = FALSE] = NoRebuild
  <3>1. ASSUME x = NoRebuild PROVE [x EXCEPT !.calm = FALSE] = x
   <4>1. x.calm = FALSE BY <3>1 DEF NoRebuild
   <4>2. [x EXCEPT !.calm = x.calm] = x BY DEF RebuildType
   <4> QED BY <4>1, <4>2
  <3> QED BY <3>1
 <2> QED BY <2>1, <2>2, <2>3, <2>4 DEF RebuildType
<1> QED BY <1>2 DEF Disturbed

\* A disturbance leaves nothing calm and every stage as it was.
LEMMA DisturbedSound ==
  ASSUME LedgerInductive, rebuild' = Disturbed, writer' = writer
  PROVE  \A a \in Rebuilders : StageSound(a)' /\ CalmSound(a)'
  BY LedgerParts, DisturbedIs DEF StageSound, CalmSound

\* A complete event is emitted: its run has no line yet.
LEMMA EmitStep ==
  ASSUME LedgerInductive, NEW r \in LedgerRuns, NEW c \in Chats, EmitComplete(r, c)
  PROVE  LedgerInductive'
<1> USE LedgerParts
<1>1. PICK e \in [chat : Chats, month : Months, kept : BOOLEAN] :
        /\ e = [chat |-> c, month |-> month, kept |-> TRUE] /\ event' = [event EXCEPT ![r] = e]
 BY DEF EmitComplete, LedgerTypes
<1>2. e # NoEvent BY UsageLedgerAssumption DEF Months
<1>3. /\ phase[r] = "going" /\ phase' = [phase EXCEPT ![r] = "emitted"] /\ rebuild' = Disturbed
      /\ UNCHANGED <<month, ledger, cut, writer>>
      /\ exposed' = exposed \cup (IF Rebuilding THEN {r} ELSE {})
 BY DEF EmitComplete, Exposing
<1>4. LedgerTypes' BY <1>1, <1>3, DisturbedIs DEF LedgerTypes
<1>5. Rebuilding' = Rebuilding BY <1>3, DisturbedIs DEF Rebuilding
<1>6. ASSUME NEW q \in LedgerRuns
      PROVE  Unended(q)' /\ RunSafe(q)'
 <2>1. CASE q = r BY <1>1, <1>2, <1>3, <1>4, <1>5, <2>1, DisturbedIs DEF LedgerTypes, Unended, RunSafe, Unwritten
 <2>2. CASE q # r
  <3>1. /\ event'[q] = event[q] /\ phase'[q] = phase[q] /\ (q \in exposed' <=> q \in exposed) BY <1>1, <1>3, <2>2 DEF LedgerTypes
  <3>2. Unended(q)' BY <1>3, <1>5, <3>1, DisturbedIs DEF Unended, Unwritten
  <3>3. Counted(q)' <=> Counted(q) BY <1>3, <3>1 DEF Counted
  <3>4. \A a \in Rebuilders : Rederivable(q, a)' <=> Rederivable(q, a) BY <1>3, <3>1, DisturbedIs DEF Rederivable
  <3> QED BY <3>1, <3>2, <3>3, <3>4 DEF RunSafe
 <2> QED BY <2>1, <2>2
<1> QED BY <1>3, <1>4, <1>6, DisturbedSound DEF LedgerInductive

\* A record is appended: the one line of its run, unless it meets a rebuild or a cut line.
LEMMA RecordStep ==
  ASSUME LedgerInductive, NEW r \in LedgerRuns, RecordRun(r)
  PROVE  LedgerInductive'
<1> USE LedgerParts
<1>1. PICK m \in Months : m = event[r].month BY DEF RecordRun, LedgerTypes, Unended
<1>2. PICK line \in Lines : line = Named(r) BY DEF Lines, Named
<1>3. /\ phase[r] = "emitted" /\ phase' = [phase EXCEPT ![r] = "over"] /\ rebuild' = Disturbed
      /\ cut' = [cut EXCEPT ![m] = FALSE]
      /\ ledger' = IF cut[m] THEN ledger ELSE [ledger EXCEPT ![m] = Append(@, line)]
      /\ exposed' = exposed \cup (IF Rebuilding \/ cut[m] THEN {r} ELSE {})
      /\ UNCHANGED <<month, event, writer>>
 BY <1>1, <1>2 DEF RecordRun, Exposing, Named
<1>4. /\ ledger[m] \in Seq(Lines) /\ Append(ledger[m], line) \in Seq(Lines)
      /\ DOMAIN ledger[m] = 1..Len(ledger[m]) /\ Len(ledger[m]) \in Nat
      /\ DOMAIN Append(ledger[m], line) = 1..(Len(ledger[m]) + 1)
      /\ \A i \in 1..Len(ledger[m]) : Append(ledger[m], line)[i] = ledger[m][i]
      /\ Append(ledger[m], line)[Len(ledger[m]) + 1] = line
 BY AppendProperties DEF LedgerTypes
<1>5. LedgerTypes' BY <1>3, <1>4, DisturbedIs DEF LedgerTypes
<1>6. Rebuilding' = Rebuilding BY <1>3, DisturbedIs DEF Rebuilding
<1>7. ASSUME NEW q \in LedgerRuns, q # r
      PROVE  Unended(q)' /\ RunSafe(q)'
 <2>1. /\ event'[q] = event[q] /\ phase'[q] = phase[q] /\ (q \in exposed' <=> q \in exposed) BY <1>3, <1>7 DEF LedgerTypes
 <2>2. line.run # q BY <1>2, <1>7 DEF Named
 <2>3. Unwritten(q) => Unwritten(q)' BY <1>3, <1>4, <2>2 DEF Unwritten, LedgerTypes
 <2>4. Unended(q)' BY <1>3, <1>6, <2>1, <2>3, DisturbedIs DEF Unended
 <2>5. Counted(q) /\ phase[q] = "over" => Counted(q)'
  <3>1. CASE cut[m] BY <1>3, <2>1, <3>1 DEF Counted
  <3>2. CASE ~cut[m]
   <4>1. \A n \in Months : n # m => ledger'[n] = ledger[n] BY <1>3, <3>2 DEF LedgerTypes
   <4>2. ledger'[m] = Append(ledger[m], line) BY <1>3, <3>2 DEF LedgerTypes
   <4>3. \A n \in Months : \A i \in DOMAIN ledger'[n] : ledger'[n][i].run = q => i \in DOMAIN ledger[n] /\ ledger'[n][i] = ledger[n][i]
    <5>1. ASSUME NEW i \in DOMAIN ledger'[m], ledger'[m][i].run = q
          PROVE  i \in DOMAIN ledger[m] /\ ledger'[m][i] = ledger[m][i]
     BY <1>4, <2>2, <4>2, <5>1
    <5> QED BY <4>1, <5>1
   <4>4. \A n \in Months : \A i \in DOMAIN ledger[n] : i \in DOMAIN ledger'[n] /\ ledger'[n][i] = ledger[n][i] BY <1>4, <4>1, <4>2
   <4> SUFFICES ASSUME Counted(q), phase[q] = "over" PROVE Counted(q)' OBVIOUS
   <4>5. PICK k \in Months : k = event[q].month BY DEF LedgerTypes, Unended
   <4>6. \A n \in Months : \A i \in DOMAIN ledger'[n] : ledger'[n][i].run = q => n = k BY <4>3, <4>5 DEF Counted
   <4>7. \A i, j \in DOMAIN ledger'[k] : ledger'[k][i].run = q /\ ledger'[k][j].run = q => i = j BY <4>3, <4>5 DEF Counted
   <4>8. event[q].kept => \E i \in DOMAIN ledger'[k] : ledger'[k][i] = Named(q) BY <4>4, <4>5 DEF Counted
   <4> QED BY <2>1, <4>5, <4>6, <4>7, <4>8 DEF Counted
  <3> QED BY <3>1, <3>2
 <2>6. \A a \in Rebuilders : Rederivable(q, a)' <=> Rederivable(q, a) BY <1>3, <2>1, DisturbedIs DEF Rederivable
 <2> QED BY <2>1, <2>4, <2>5, <2>6 DEF RunSafe
<1>8. Unended(r)' /\ RunSafe(r)'
 <2>1. phase'[r] = "over" /\ event'[r] = event[r] /\ event[r] # NoEvent BY <1>3 DEF LedgerTypes, Unended
 <2>2. Unended(r)' BY <2>1 DEF Unended
 <2>3. ASSUME r \notin exposed'
       PROVE  Counted(r)' /\ \A a \in Rebuilders : Rederivable(r, a)'
  <3>1. ~Rebuilding /\ ~cut[m] /\ Unwritten(r) BY <1>3, <2>3 DEF Unended
  <3>2. /\ \A n \in Months : n # m => ledger'[n] = ledger[n]
        /\ ledger'[m] = Append(ledger[m], line)
   BY <1>3, <3>1 DEF LedgerTypes
  <3>3. \A n \in Months : \A i \in DOMAIN ledger[n] : ledger[n][i].run # r BY <3>1 DEF Unwritten
  <3>4. \A i \in DOMAIN ledger'[m] : ledger'[m][i].run = r => i = Len(ledger[m]) + 1 BY <1>4, <3>2, <3>3
  <3>5. Len(ledger[m]) + 1 \in DOMAIN ledger'[m] /\ ledger'[m][Len(ledger[m]) + 1] = line BY <1>4, <3>2
  <3>6. Counted(r)'
   <4>1. event'[r].month = m BY <1>1, <1>3
   <4>2. \A n \in Months : \A i \in DOMAIN ledger'[n] : ledger'[n][i].run = r => n = m BY <3>2, <3>3
   <4>3. \A i, j \in DOMAIN ledger'[m] : ledger'[m][i].run = r /\ ledger'[m][j].run = r => i = j BY <3>4
   <4>4. \E i \in DOMAIN ledger'[m] : ledger'[m][i] = Named(r) BY <1>2, <3>5
   <4> QED BY <4>1, <4>2, <4>3, <4>4 DEF Counted
  <3>7. \A a \in Rebuilders : Disturbed[a].stage = "idle" BY <3>1, DisturbedIs DEF Rebuilding
  <3> QED BY <1>3, <3>6, <3>7 DEF Rederivable
 <2> QED BY <2>2, <2>3 DEF RunSafe
<1> QED BY <1>3, <1>5, <1>7, <1>8, DisturbedSound DEF LedgerInductive

\* What becomes of a run whose lines, event and phase stay, when no rebuild learns
\* or forgets anything about it.
LEMMA RunUntouched ==
  ASSUME LedgerInductive, NEW q \in LedgerRuns,
         event'[q] = event[q] \/ (event[q] # NoEvent /\ event'[q] = [event[q] EXCEPT !.kept = FALSE]),
         phase'[q] = phase[q], q \in exposed' \/ q \notin exposed, ledger' = ledger,
         \A a \in Rebuilders : /\ rebuild'[a].stage = rebuild[a].stage /\ rebuild'[a].index = rebuild[a].index
                               /\ rebuild'[a].todo = rebuild[a].todo /\ rebuild'[a].found = rebuild[a].found
  PROVE  Unended(q)' /\ RunSafe(q)'
<1> USE LedgerParts
<1>1. Rebuilding' = Rebuilding BY DEF Rebuilding
<1>2. event[q] # NoEvent => event'[q] # NoEvent /\ event'[q].chat = event[q].chat /\ event'[q].month = event[q].month
                            /\ (event'[q].kept => event[q].kept)
 <2>1. CASE event'[q] = event[q] BY <2>1
 <2>2. CASE event[q] # NoEvent /\ event'[q] = [event[q] EXCEPT !.kept = FALSE]
  <3>1. PICK e \in [chat : Chats, month : Months, kept : BOOLEAN] : e = event[q] BY <2>2 DEF LedgerTypes
  <3>2. PICK f \in [chat : Chats, month : Months, kept : BOOLEAN] : f = [e EXCEPT !.kept = FALSE] OBVIOUS
  <3>3. f # NoEvent BY UsageLedgerAssumption DEF Months
  <3> QED BY <2>2, <3>1, <3>2, <3>3
 <2> QED BY <2>1, <2>2
<1>3. event[q] = NoEvent <=> event'[q] = NoEvent BY <1>2
<1>4. Unended(q)' BY <1>1, <1>3 DEF Unended, Unwritten
<1>5. ASSUME phase[q] = "over", q \notin exposed'
      PROVE  Counted(q)' /\ \A a \in Rebuilders : Rederivable(q, a)'
 <2>1. event[q] # NoEvent /\ Counted(q) /\ \A a \in Rebuilders : Rederivable(q, a) BY <1>5 DEF Unended, RunSafe
 <2>2. Counted(q)' BY <1>2, <2>1 DEF Counted
 <2>3. \A a \in Rebuilders : Rederivable(q, a)' BY <1>2, <2>1 DEF Rederivable
 <2> QED BY <2>2, <2>3
<1> QED BY <1>4, <1>5 DEF RunSafe

\* A record that is not written: its run is exposed.
LEMMA RecordFailsStep ==
  ASSUME LedgerInductive, NEW r \in LedgerRuns, RecordFails(r)
  PROVE  LedgerInductive'
<1> USE LedgerParts
<1>1. PICK m \in Months : m = event[r].month BY DEF RecordFails, LedgerTypes, Unended
<1>2. PICK short \in BOOLEAN : cut' = [cut EXCEPT ![m] = @ \/ short] BY <1>1 DEF RecordFails
<1>3. /\ phase[r] = "emitted" /\ phase' = [phase EXCEPT ![r] = "over"] /\ rebuild' = Disturbed
      /\ exposed' = exposed \cup {r} /\ UNCHANGED <<month, event, ledger, writer>>
 BY DEF RecordFails, Exposing
<1>4. LedgerTypes'
 <2>1. cut' \in [Months -> BOOLEAN] BY <1>2 DEF LedgerTypes
 <2> QED BY <1>3, <2>1, DisturbedIs DEF LedgerTypes
<1>5. Unended(r)' /\ RunSafe(r)' BY <1>3 DEF Unended, RunSafe, LedgerTypes
<1>6. ASSUME NEW q \in LedgerRuns, q # r PROVE Unended(q)' /\ RunSafe(q)'
 <2>1. event'[q] = event[q] /\ phase'[q] = phase[q] /\ (q \in exposed' \/ q \notin exposed) /\ ledger' = ledger
  BY <1>3, <1>6 DEF LedgerTypes
 <2> QED BY <1>3, <2>1, DisturbedIs, RunUntouched
<1> QED BY <1>3, <1>4, <1>5, <1>6, DisturbedSound DEF LedgerInductive

\* A rewind: what it takes from the log need no longer be counted.
LEMMA RewindStep ==
  ASSUME LedgerInductive, NEW r \in LedgerRuns, NEW c \in Chats, Rewind(c, r)
  PROVE  LedgerInductive'
<1> USE LedgerParts
<1>1. /\ event' = [q \in LedgerRuns |-> IF q \in Logged(c) /\ q >= r THEN [event[q] EXCEPT !.kept = FALSE] ELSE event[q]]
      /\ rebuild' = Disturbed /\ UNCHANGED <<month, phase, ledger, cut, writer, exposed>>
 BY DEF Rewind
<1>2. \A q \in LedgerRuns : event'[q] = event[q] \/ (event[q] # NoEvent /\ event'[q] = [event[q] EXCEPT !.kept = FALSE])
 BY <1>1 DEF Logged
<1>3. \A q \in LedgerRuns : event'[q] \in [chat : Chats, month : Months, kept : BOOLEAN] \cup {NoEvent} BY <1>2 DEF LedgerTypes
<1>4. event' \in [LedgerRuns -> [chat : Chats, month : Months, kept : BOOLEAN] \cup {NoEvent}] BY <1>1, <1>3
<1>5. LedgerTypes' BY <1>1, <1>4, DisturbedIs DEF LedgerTypes
<1>6. ASSUME NEW q \in LedgerRuns PROVE Unended(q)' /\ RunSafe(q)' BY <1>1, <1>2, DisturbedIs, RunUntouched
<1> QED BY <1>1, <1>5, <1>6, DisturbedSound DEF LedgerInductive

\* A month passes.
LEMMA MonthStep ==
  ASSUME LedgerInductive, MonthPasses
  PROVE  LedgerInductive'
<1> USE LedgerParts
<1>1. month' = month + 1 /\ month < MaxMonth /\ UNCHANGED <<phase, event, ledger, cut, rebuild, writer, exposed>>
 BY DEF MonthPasses
<1>2. LedgerTypes' BY <1>1, UsageLedgerAssumption DEF LedgerTypes, Months
<1>3. \A q \in LedgerRuns : Unended(q)' /\ RunSafe(q)' BY <1>1, RunUntouched
<1>4. \A a \in Rebuilders : StageSound(a)' /\ CalmSound(a)' BY <1>1 DEF StageSound, CalmSound, FoundIn
<1> QED BY <1>2, <1>3, <1>4 DEF LedgerInductive

\* However a rebuild ends, nothing of it is left.
LEMMA EndRebuildStep ==
  ASSUME LedgerInductive, NEW a \in Rebuilders, EndRebuild(a)
  PROVE  LedgerInductive'
<1> USE LedgerParts
<1>1. /\ rebuild' = [Disturbed EXCEPT ![a] = NoRebuild] /\ UNCHANGED <<month, phase, event, ledger, cut, exposed>>
      /\ writer' = IF writer = a THEN Unlocked ELSE writer
 BY DEF EndRebuild
<1>2. NoRebuild \in RebuildType /\ NoRebuild.stage = "idle" /\ ~NoRebuild.calm /\ NoRebuild.found = {}
 BY DEF NoRebuild, RebuildType
<1>3. rebuild' \in [Rebuilders -> RebuildType] /\ rebuild'[a] = NoRebuild /\ \A b \in Rebuilders : b # a => rebuild'[b] = Disturbed[b]
 BY <1>1, <1>2, DisturbedIs
<1>4. LedgerTypes' BY <1>1, <1>3 DEF LedgerTypes
<1>5. ASSUME NEW q \in LedgerRuns PROVE Unended(q)' /\ RunSafe(q)'
 <2>1. Rebuilding' => Rebuilding BY <1>2, <1>3, DisturbedIs DEF Rebuilding
 <2>2. Unended(q)' BY <1>1, <1>2, <1>3, <2>1, DisturbedIs DEF Unended, Unwritten
 <2>3. Counted(q) => Counted(q)' BY <1>1 DEF Counted
 <2>4. \A b \in Rebuilders : Rederivable(q, b) => Rederivable(q, b)' BY <1>1, <1>2, <1>3, DisturbedIs DEF Rederivable
 <2> QED BY <1>1, <2>2, <2>3, <2>4 DEF RunSafe
<1>6. ASSUME NEW b \in Rebuilders PROVE StageSound(b)' /\ CalmSound(b)'
 <2>1. ~rebuild'[b].calm BY <1>2, <1>3, DisturbedIs
 <2>2. StageSound(b)'
  <3>1. CASE b = a BY <1>1, <1>2, <1>3, <3>1, UsageLedgerAssumption DEF StageSound, LedgerTypes
  <3>2. CASE b # a
   <4>1. writer' = b <=> writer = b BY <1>1, <3>2, UsageLedgerAssumption
   <4> QED BY <1>3, <3>2, <4>1, DisturbedIs DEF StageSound
  <3> QED BY <3>1, <3>2
 <2> QED BY <2>1, <2>2 DEF CalmSound
<1> QED BY <1>4, <1>5, <1>6 DEF LedgerInductive

\* The server dies: the runs it had not recorded are exposed, and no rebuild goes on.
LEMMA CrashStep ==
  ASSUME LedgerInductive, LedgerCrash
  PROVE  LedgerInductive'
<1> USE LedgerParts
<1>1. /\ phase' = [r \in LedgerRuns |-> IF phase[r] = "emitted" THEN "over" ELSE phase[r]]
      /\ exposed' = exposed \cup {r \in LedgerRuns : phase[r] = "emitted"}
      /\ rebuild' = [a \in Rebuilders |-> NoRebuild] /\ writer' = Unlocked /\ UNCHANGED <<month, event, ledger, cut>>
 BY DEF LedgerCrash, Exposing
<1>2. NoRebuild \in RebuildType /\ NoRebuild.stage = "idle" /\ ~NoRebuild.calm /\ NoRebuild.found = {}
 BY DEF NoRebuild, RebuildType
<1>3. LedgerTypes' BY <1>1, <1>2 DEF LedgerTypes
<1>4. ASSUME NEW q \in LedgerRuns PROVE Unended(q)' /\ RunSafe(q)'
 <2>1. Unended(q)' BY <1>1, <1>2 DEF Unended, Unwritten, LedgerTypes
 <2>2. Counted(q) => Counted(q)' BY <1>1 DEF Counted
 <2>3. \A b \in Rebuilders : Rederivable(q, b)' BY <1>1, <1>2 DEF Rederivable
 <2> QED BY <1>1, <2>1, <2>2, <2>3 DEF RunSafe, LedgerTypes
<1>5. \A b \in Rebuilders : StageSound(b)' /\ CalmSound(b)' BY <1>1, <1>2, UsageLedgerAssumption DEF StageSound, CalmSound
<1> QED BY <1>3, <1>4, <1>5 DEF LedgerInductive

\* What an index finds of a run that is counted.
LEMMA IndexHolds ==
  ASSUME LedgerInductive
  PROVE  /\ ExistingByKey \in SUBSET Lines
         /\ \A r \in LedgerRuns : Counted(r) /\ event[r] # NoEvent /\ event[r].kept => Named(r) \in ExistingByKey
<1> USE LedgerParts
<1>1. \A m \in Months : ledger[m] \in Seq(Lines) /\ DOMAIN ledger[m] = 1..Len(ledger[m]) /\ Len(ledger[m]) \in Nat
 BY DEF LedgerTypes
<1>2. ExistingByKey \in SUBSET Lines BY <1>1 DEF ExistingByKey
<1>3. ASSUME NEW r \in LedgerRuns, Counted(r), event[r] # NoEvent, event[r].kept
      PROVE  Named(r) \in ExistingByKey
 <2>1. PICK m \in Months : m = event[r].month BY <1>3 DEF LedgerTypes
 <2>2. PICK i \in DOMAIN ledger[m] : ledger[m][i] = Named(r) BY <1>3, <2>1 DEF Counted
 <2>3. Named(r).run = r BY DEF Named
 <2>4. \A k \in (i + 1)..Len(ledger[m]) : ledger[m][k].run # ledger[m][i].run BY <1>1, <1>3, <2>1, <2>2, <2>3 DEF Counted
 <2> QED BY <2>2, <2>4 DEF ExistingByKey
<1> QED BY <1>2, <1>3

\* A rebuild begins: what it indexes has each run that is counted.
LEMMA BeginRebuildStep ==
  ASSUME LedgerInductive, NEW a \in Rebuilders, Begin(a)
  PROVE  LedgerInductive'
<1> USE LedgerParts
<1>1. PICK calm \in BOOLEAN : calm = (~Rebuilding /\ \A r \in LedgerRuns : phase[r] # "emitted") OBVIOUS
<1>2. PICK x \in RebuildType : x = [stage |-> "reading", index |-> ExistingByKey, todo |-> Chats, found |-> {}, calm |-> calm]
 BY IndexHolds DEF RebuildType
<1>3. x.stage = "reading" /\ x.index = ExistingByKey /\ x.todo = Chats /\ x.found = {} /\ x.calm = calm BY <1>2
<1>4. /\ rebuild[a].stage = "idle" /\ writer = Unlocked /\ rebuild' = [Disturbed EXCEPT ![a] = x]
      /\ exposed' = exposed \cup {r \in LedgerRuns : phase[r] = "emitted"}
      /\ UNCHANGED <<month, phase, event, ledger, cut, writer>>
 BY <1>1, <1>2 DEF Begin, Exposing
<1>5. rebuild' \in [Rebuilders -> RebuildType] /\ rebuild'[a] = x /\ \A b \in Rebuilders : b # a => rebuild'[b] = Disturbed[b]
 BY <1>4, DisturbedIs
<1>6. LedgerTypes' BY <1>4, <1>5 DEF LedgerTypes
<1>7. ASSUME NEW q \in LedgerRuns PROVE Unended(q)' /\ RunSafe(q)'
 <2>1. Unended(q)' BY <1>3, <1>4, <1>5, DisturbedIs DEF Unended, Unwritten, LedgerTypes
 <2>2. Counted(q) => Counted(q)' BY <1>4 DEF Counted
 <2>3. \A b \in Rebuilders : b # a /\ Rederivable(q, b) => Rederivable(q, b)' BY <1>4, <1>5, DisturbedIs DEF Rederivable
 <2>4. ASSUME Counted(q), event[q] # NoEvent PROVE Rederivable(q, a)'
  <3>1. event[q].kept => Named(q) \in ExistingByKey BY <2>4, IndexHolds
  <3>2. event[q].chat \in Chats BY <2>4 DEF LedgerTypes
  <3> QED BY <1>3, <1>4, <1>5, <3>1, <3>2 DEF Rederivable
 <2> QED BY <1>4, <2>1, <2>2, <2>3, <2>4 DEF RunSafe, Unended
<1>8. ASSUME NEW b \in Rebuilders PROVE StageSound(b)' /\ CalmSound(b)'
 <2>1. CASE b # a BY <1>4, <1>5, <2>1, DisturbedIs DEF StageSound, CalmSound
 <2>2. CASE b = a
  <3>1. StageSound(a)' BY <1>3, <1>4, <1>5, UsageLedgerAssumption DEF StageSound
  <3>2. ASSUME calm PROVE CalmSound(a)'
   <4>1. \A d \in Rebuilders \ {a} : rebuild'[d].stage = "idle" BY <1>1, <1>5, <3>2, DisturbedIs DEF Rebuilding
   <4>2. \A r \in LedgerRuns : ~(event[r] # NoEvent /\ event[r].chat \notin Chats) BY DEF LedgerTypes
   <4> QED BY <1>3, <1>4, <1>5, <4>1, <4>2 DEF CalmSound
  <3>3. ASSUME ~calm PROVE CalmSound(a)' BY <1>3, <1>5, <3>3 DEF CalmSound
  <3> QED BY <2>2, <3>1, <3>2, <3>3
 <2> QED BY <2>1, <2>2
<1> QED BY <1>6, <1>7, <1>8 DEF LedgerInductive

\* A rebuild reads a chat: it finds the chat's runs, each for the user the index names.
LEMMA ReadChatStep ==
  ASSUME LedgerInductive, NEW a \in Rebuilders, NEW c \in Chats, ReadChat(a, c)
  PROVE  LedgerInductive'
<1> USE LedgerParts
<1>1. PICK x \in RebuildType : x = rebuild[a] BY DEF LedgerTypes
<1> DEFINE D(r) == Rederived(a, r)
<1>0. \A r \in LedgerRuns : D(r) \in Lines /\ D(r).run = r BY DEF Rederived, Lines
<1>2a. \A r : D(r) = Rederived(a, r) OBVIOUS
<1> HIDE DEF D
<1>2. PICK lines \in SUBSET Lines : lines = {D(r) : r \in Logged(c)} BY <1>0 DEF Logged
<1>3. PICK n \in RebuildType : n = [x EXCEPT !.todo = @ \ {c}, !.found = @ \cup lines] BY DEF RebuildType
<1>4. /\ n.stage = x.stage /\ n.index = x.index /\ n.todo = x.todo \ {c} /\ n.found = x.found \cup lines /\ n.calm = x.calm
 BY <1>3 DEF RebuildType
<1>5. /\ x.stage = "reading" /\ c \in x.todo /\ rebuild' = [rebuild EXCEPT ![a] = n]
      /\ UNCHANGED <<month, phase, event, ledger, cut, writer, exposed>>
 BY <1>1, <1>2, <1>3, <1>2a DEF ReadChat
<1>6. rebuild' \in [Rebuilders -> RebuildType] /\ rebuild'[a] = n /\ \A b \in Rebuilders : b # a => rebuild'[b] = rebuild[b]
 BY <1>5 DEF LedgerTypes
<1>7. LedgerTypes' BY <1>5, <1>6 DEF LedgerTypes
<1>8. /\ \A l \in lines : \E r \in Logged(c) : l = Rederived(a, r) /\ l.run = r
      /\ \A r \in Logged(c) : \E l \in lines : l = Rederived(a, r) /\ l.run = r
      /\ \A k, l \in lines : k.run = l.run => k = l
 BY <1>0, <1>2, <1>2a DEF Logged
<1>9. \A r : r \in Logged(c) <=> r \in LedgerRuns /\ event[r] # NoEvent /\ event[r].chat = c /\ event[r].kept BY DEF Logged
<1>10. Rebuilding' = Rebuilding BY <1>1, <1>4, <1>6 DEF Rebuilding
<1>11. ASSUME NEW q \in LedgerRuns PROVE Unended(q)' /\ RunSafe(q)'
 <2>1. Unended(q)'
  <3>1. phase[q] = "going" => \A l \in lines : l.run # q BY <1>8, <1>9 DEF Unended
  <3> QED BY <1>1, <1>4, <1>5, <1>6, <1>10, <3>1 DEF Unended, Unwritten
 <2>2. Counted(q) => Counted(q)' BY <1>5 DEF Counted
 <2>3. \A b \in Rebuilders : b # a /\ Rederivable(q, b) => Rederivable(q, b)' BY <1>5, <1>6 DEF Rederivable
 <2>4. ASSUME Rederivable(q, a), event[q] # NoEvent PROVE Rederivable(q, a)'
  <3>1. event[q].kept => Named(q) \in x.index BY <1>1, <1>5, <2>4 DEF Rederivable
  <3>2. event[q].kept => Rederived(a, q) = Named(q) BY <1>1, <3>1 DEF Rederived, Named
  <3>3. \A l \in lines : l.run = q => l.actor BY <1>8, <1>9, <3>2 DEF Named
  <3>4. event[q].kept /\ event[q].chat = c => Named(q) \in lines BY <1>8, <1>9, <2>4, <3>2
  <3> QED BY <1>1, <1>4, <1>5, <1>6, <2>4, <3>1, <3>3, <3>4 DEF Rederivable
 <2> QED BY <1>5, <2>1, <2>2, <2>3, <2>4 DEF RunSafe, Unended
<1>12. ASSUME NEW b \in Rebuilders PROVE StageSound(b)' /\ CalmSound(b)'
 <2>1. StageSound(b)' BY <1>1, <1>4, <1>5, <1>6 DEF StageSound
 <2>2. CASE b # a BY <1>1, <1>4, <1>5, <1>6, <2>1, <2>2 DEF CalmSound
 <2>3. ASSUME x.calm PROVE CalmSound(a)'
  <3>1. \A r \in LedgerRuns : (\E l \in x.found : l.run = r) <=> (event[r] # NoEvent /\ event[r].kept /\ event[r].chat \notin x.todo)
   BY <1>1, <1>5, <2>3 DEF CalmSound
  <3>2. \A k, l \in x.found : k.run = l.run => k = l BY <1>1, <2>3 DEF CalmSound
  <3>3. \A b2 \in Rebuilders \ {a} : rebuild[b2].stage = "idle" BY <1>1, <2>3 DEF CalmSound
  <3>4. \A l \in x.found \cup lines : l.run \in LedgerRuns BY DEF RebuildType, Lines
  <3>5. \A r \in LedgerRuns : (\E l \in n.found : l.run = r) <=> (event[r] # NoEvent /\ event[r].kept /\ event[r].chat \notin n.todo)
   BY <1>4, <1>8, <1>9, <3>1
  <3>6. \A k \in x.found, l \in lines : k.run # l.run BY <1>5, <1>8, <1>9, <3>1, <3>4
  <3>7. \A k, l \in n.found : k.run = l.run => k = l BY <1>4, <1>8, <3>2, <3>6
  <3> QED BY <1>4, <1>5, <1>6, <3>3, <3>5, <3>7 DEF CalmSound
 <2>4. CASE b = a /\ ~x.calm BY <1>4, <1>6, <2>1, <2>4 DEF CalmSound
 <2> QED BY <2>1, <2>2, <2>3, <2>4 DEF RebuildType
<1> QED BY <1>7, <1>11, <1>12 DEF LedgerInductive

\* A line that a rebuild found is of a run that has ended.
LEMMA FoundEnded ==
  ASSUME LedgerInductive, NEW a \in Rebuilders
  PROVE  \A l \in rebuild[a].found : /\ l \in Lines /\ l.run \in LedgerRuns
                                     /\ event[l.run] # NoEvent /\ event[l.run].month \in Months
<1>1. \A l \in rebuild[a].found : l \in Lines /\ l.run \in LedgerRuns BY LedgerParts DEF LedgerTypes, RebuildType, Lines
<1>2. \A l \in rebuild[a].found : event[l.run] # NoEvent BY <1>1, LedgerParts DEF Unended
<1> QED BY <1>1, <1>2, LedgerParts DEF LedgerTypes

\* A rebuild starts replacing: it has found every run whose event is in a log.
LEMMA StartReplacingStep ==
  ASSUME LedgerInductive, NEW a \in Rebuilders, StartReplacing(a)
  PROVE  LedgerInductive'
<1> USE LedgerParts
<1>1. PICK x \in RebuildType : x = rebuild[a] BY DEF LedgerTypes
<1>2. PICK months \in SUBSET Months : months = {event[l.run].month : l \in x.found} BY <1>1, FoundEnded
<1>3. PICK n \in RebuildType : n = [x EXCEPT !.stage = "writing", !.todo = months] BY DEF RebuildType
<1>4. n.stage = "writing" /\ n.index = x.index /\ n.todo = months /\ n.found = x.found /\ n.calm = x.calm BY <1>3 DEF RebuildType
<1>5. /\ x.stage = "reading" /\ x.todo = {} /\ writer = Unlocked /\ writer' = a /\ rebuild' = [rebuild EXCEPT ![a] = n]
      /\ UNCHANGED <<month, phase, event, ledger, cut, exposed>>
 BY <1>1, <1>2, <1>3 DEF StartReplacing
<1>6. rebuild' \in [Rebuilders -> RebuildType] /\ rebuild'[a] = n /\ \A b \in Rebuilders : b # a => rebuild'[b] = rebuild[b]
 BY <1>5 DEF LedgerTypes
<1>7. LedgerTypes' BY <1>5, <1>6 DEF LedgerTypes
<1>8. Rebuilding BY <1>1, <1>5 DEF Rebuilding
<1>9. ASSUME NEW q \in LedgerRuns PROVE Unended(q)' /\ RunSafe(q)'
 <2>1. Unended(q)' BY <1>1, <1>4, <1>5, <1>6, <1>8 DEF Unended, Unwritten
 <2>2. Counted(q) => Counted(q)' BY <1>5 DEF Counted
 <2>3. \A b \in Rebuilders : b # a /\ Rederivable(q, b) => Rederivable(q, b)' BY <1>5, <1>6 DEF Rederivable
 <2>4. Rederivable(q, a) => Rederivable(q, a)' BY <1>1, <1>4, <1>5, <1>6 DEF Rederivable
 <2> QED BY <1>5, <2>1, <2>2, <2>3, <2>4 DEF RunSafe
<1>10. ASSUME NEW b \in Rebuilders PROVE StageSound(b)' /\ CalmSound(b)'
 <2>1. StageSound(b)' BY <1>1, <1>4, <1>5, <1>6, UsageLedgerAssumption DEF StageSound
 <2>2. CASE b # a BY <1>1, <1>4, <1>5, <1>6, <2>1, <2>2 DEF CalmSound
 <2>3. ASSUME x.calm PROVE CalmSound(a)'
  <3>1. \A r \in LedgerRuns : (\E l \in n.found : l.run = r) <=> (event'[r] # NoEvent /\ event'[r].kept)
   BY <1>1, <1>4, <1>5, <2>3 DEF CalmSound
  <3>2. \A m \in Months \ months : FoundIn(a, m)' = {} BY <1>2, <1>4, <1>5, <1>6 DEF FoundIn
  <3>3. /\ \A k, l \in n.found : k.run = l.run => k = l
        /\ \A d \in Rebuilders \ {a} : rebuild'[d].stage = "idle"
   BY <1>1, <1>4, <1>6, <2>3 DEF CalmSound
  <3> QED BY <1>4, <1>6, <3>1, <3>2, <3>3 DEF CalmSound
 <2>4. CASE b = a /\ ~x.calm BY <1>4, <1>6, <2>1, <2>4 DEF CalmSound
 <2> QED BY <2>1, <2>2, <2>3, <2>4
<1> QED BY <1>7, <1>9, <1>10 DEF LedgerInductive

\* A month's file is replaced by one of what the rebuild a found for that month,
\* which may be nothing.
LEMMA ReplaceFile ==
  ASSUME LedgerInductive, NEW a \in Rebuilders, NEW m \in Months, rebuild[a].stage = "writing",
         NEW file \in FilesOf(FoundIn(a, m)), ledger' = [ledger EXCEPT ![m] = file],
         UNCHANGED <<phase, event, exposed>>,
         \A b \in Rebuilders : /\ rebuild'[b].stage = rebuild[b].stage /\ rebuild'[b].index = rebuild[b].index
                               /\ rebuild'[b].found = rebuild[b].found
                               /\ rebuild'[b].todo = rebuild[b].todo \/ b = a
  PROVE  /\ ledger' \in [Months -> Seq(Lines)]
         /\ \A q \in LedgerRuns : Unended(q)' /\ RunSafe(q)'
<1> USE LedgerParts
<1>1. FoundIn(a, m) \in SUBSET Lines /\ \A l \in FoundIn(a, m) : l \in rebuild[a].found /\ event[l.run].month = m
 BY FoundEnded DEF FoundIn
<1>2. /\ file \in Seq(Lines)
      /\ \A i \in DOMAIN file : file[i] \in rebuild[a].found /\ event[file[i].run].month = m
      /\ \A i, j \in DOMAIN file : file[i] = file[j] => i = j
      /\ \A l \in FoundIn(a, m) : \E i \in DOMAIN file : file[i] = l
 BY <1>1, FileHolds
<1>3. ledger' \in [Months -> Seq(Lines)] /\ ledger'[m] = file /\ \A n \in Months : n # m => ledger'[n] = ledger[n]
 BY <1>2 DEF LedgerTypes
<1>4. Rebuilding' = Rebuilding /\ Rebuilding BY DEF Rebuilding
<1>5. ASSUME NEW q \in LedgerRuns PROVE Unended(q)' /\ RunSafe(q)'
 <2>1. phase[q] = "going" => Unwritten(q)'
  <3>1. phase[q] = "going" => \A i \in DOMAIN file : file[i].run # q BY <1>2 DEF Unended
  <3> QED BY <1>3, <3>1 DEF Unended, Unwritten
 <2>2. Unended(q)' BY <1>4, <2>1 DEF Unended
 <2>3. ASSUME phase[q] = "over", q \notin exposed PROVE Counted(q)' /\ \A b \in Rebuilders : Rederivable(q, b)'
  <3> PICK k \in Months : k = event[q].month BY <2>3 DEF Unended, LedgerTypes
  <3>1. Counted(q) /\ \A b \in Rebuilders : Rederivable(q, b) BY <2>3 DEF RunSafe
  <3>2. \A b \in Rebuilders : Rederivable(q, b)' BY <3>1 DEF Rederivable
  <3>3. \A l \in rebuild[a].found : l.run = q => l = Named(q)
   <4> TAKE l \in rebuild[a].found
   <4> HAVE l.run = q
   <4>1. l.actor = TRUE BY <3>1, FoundEnded DEF Rederivable, Lines
   <4> QED BY <4>1, FoundEnded DEF Lines, Named
  <3>4. event[q].kept => Named(q) \in rebuild[a].found BY <3>1 DEF Rederivable
  <3>5. \A n \in Months : \A i \in DOMAIN ledger'[n] : ledger'[n][i].run = q => n = k BY <1>2, <1>3, <3>1 DEF Counted
  <3>6. \A i, j \in DOMAIN ledger'[k] : ledger'[k][i].run = q /\ ledger'[k][j].run = q => i = j
   <4>1. CASE k = m BY <1>2, <1>3, <3>3, <4>1
   <4>2. CASE k # m BY <1>3, <3>1, <4>2 DEF Counted
   <4> QED BY <4>1, <4>2
  <3>7. event[q].kept => \E i \in DOMAIN ledger'[k] : ledger'[k][i] = Named(q)
   <4>1. CASE k = m
    <5>1. event[q].kept => Named(q) \in FoundIn(a, m) BY <3>4, <4>1 DEF FoundIn, Named
    <5> QED BY <1>2, <1>3, <4>1, <5>1
   <4>2. CASE k # m BY <1>3, <3>1, <4>2 DEF Counted
   <4> QED BY <4>1, <4>2
  <3>8. Counted(q)' BY <3>5, <3>6, <3>7 DEF Counted
  <3> QED BY <3>2, <3>8
 <2> QED BY <2>2, <2>3 DEF RunSafe
<1> QED BY <1>3, <1>5

\* A month is written.
LEMMA WriteMonthStep ==
  ASSUME LedgerInductive, NEW a \in Rebuilders, NEW m \in Months, WriteMonth(a, m)
  PROVE  LedgerInductive'
<1> USE LedgerParts
<1>1. PICK x \in RebuildType : x = rebuild[a] BY DEF LedgerTypes
<1>2. PICK n \in RebuildType : n = [x EXCEPT !.todo = @ \ {m}] BY DEF RebuildType
<1>3. n.stage = x.stage /\ n.index = x.index /\ n.todo = x.todo \ {m} /\ n.found = x.found /\ n.calm = x.calm
 BY <1>2 DEF RebuildType
<1>4. PICK file \in FilesOf(FoundIn(a, m)) : ledger' = [ledger EXCEPT ![m] = file] BY DEF WriteMonth
<1>5. /\ x.stage = "writing" /\ m \in x.todo /\ rebuild' = [rebuild EXCEPT ![a] = n] /\ cut' = [cut EXCEPT ![m] = FALSE]
      /\ UNCHANGED <<month, phase, event, writer, exposed>>
 BY <1>1, <1>2 DEF WriteMonth
<1>6. rebuild' \in [Rebuilders -> RebuildType] /\ rebuild'[a] = n /\ \A b \in Rebuilders : b # a => rebuild'[b] = rebuild[b]
 BY <1>5 DEF LedgerTypes
<1>7. ledger' \in [Months -> Seq(Lines)] /\ \A q \in LedgerRuns : Unended(q)' /\ RunSafe(q)'
 BY <1>1, <1>3, <1>4, <1>5, <1>6, ReplaceFile
<1>8. LedgerTypes' BY <1>5, <1>6, <1>7 DEF LedgerTypes
<1>9. ASSUME NEW b \in Rebuilders PROVE StageSound(b)' /\ CalmSound(b)'
 <2>1. StageSound(b)' BY <1>1, <1>3, <1>5, <1>6 DEF StageSound
 <2>2. CASE b # a BY <1>1, <1>3, <1>5, <1>6, <2>1, <2>2 DEF CalmSound
 <2>3. ASSUME x.calm PROVE CalmSound(a)'
  <3>1. \A d \in Months : FoundIn(a, d)' = FoundIn(a, d) BY <1>1, <1>3, <1>5, <1>6 DEF FoundIn
  <3>2. ledger'[m] = file /\ \A d \in Months : d # m => ledger'[d] = ledger[d] BY <1>4 DEF LedgerTypes
  <3>3. \A lines : FilesOf(lines)' = FilesOf(lines) BY DEF FilesOf
  <3>4. \A d \in Months \ n.todo : FoundIn(a, d)' # {} => ledger'[d] \in FilesOf(FoundIn(a, d)')
   BY <1>1, <1>3, <1>4, <1>5, <2>3, <3>1, <3>2 DEF CalmSound
  <3> QED BY <1>1, <1>3, <1>5, <1>6, <2>3, <3>1, <3>2, <3>4 DEF CalmSound
 <2>4. CASE b = a /\ ~x.calm BY <1>3, <1>6, <2>1, <2>4 DEF CalmSound
 <2> QED BY <2>1, <2>2, <2>3, <2>4
<1> QED BY <1>7, <1>8, <1>9 DEF LedgerInductive

\* A month that is not covered is removed.
LEMMA RemoveMonthStep ==
  ASSUME LedgerInductive, NEW a \in Rebuilders, NEW m \in Months, RemoveMonth(a, m)
  PROVE  LedgerInductive'
<1> USE LedgerParts
<1>1. /\ rebuild[a].stage = "writing" /\ FoundIn(a, m) = {} /\ ledger' = [ledger EXCEPT ![m] = <<>>]
      /\ cut' = [cut EXCEPT ![m] = FALSE] /\ UNCHANGED <<month, phase, event, rebuild, writer, exposed>>
 BY DEF RemoveMonth, Stale
<1>2. <<>> \in FilesOf(FoundIn(a, m))
 <2>1. Cardinality({}) = 0 BY FS_EmptySet
 <2>2. <<>> \in [1..0 -> {}] OBVIOUS
 <2> QED BY <1>1, <2>1, <2>2 DEF FilesOf
<1>3. ledger' \in [Months -> Seq(Lines)] /\ \A q \in LedgerRuns : Unended(q)' /\ RunSafe(q)' BY <1>1, <1>2, ReplaceFile
<1>4. LedgerTypes' BY <1>1, <1>3 DEF LedgerTypes
<1>5. ASSUME NEW b \in Rebuilders PROVE StageSound(b)' /\ CalmSound(b)'
 <2>1. StageSound(b)' BY <1>1 DEF StageSound
 <2>2. \A d \in Months : FoundIn(b, d)' = FoundIn(b, d) BY <1>1 DEF FoundIn
 <2>3. \A d \in Months : d # m => ledger'[d] = ledger[d] BY <1>1 DEF LedgerTypes
 <2>4. b = a \/ ~rebuild[b].calm BY <1>1 DEF CalmSound
 <2>5. CalmSound(b)' BY <1>1, <2>2, <2>3, <2>4 DEF CalmSound
 <2> QED BY <2>1, <2>5
<1> QED BY <1>3, <1>4, <1>5 DEF LedgerInductive

\* Every step of a run, of a rebuild and of the server keeps each run that nothing
\* interfered with in one line of its month, and in the hands of every rebuild.
LEMMA LedgerStep ==
  ASSUME LedgerInductive, [LedgerNext]_ledgerVars
  PROVE  LedgerInductive'
<1>1. CASE \E r \in LedgerRuns : \/ RecordRun(r) \/ RecordFails(r)
                                 \/ \E c \in Chats : EmitComplete(r, c) \/ Rewind(c, r)
 BY <1>1, RecordStep, RecordFailsStep, EmitStep, RewindStep
<1>2. CASE \E a \in Rebuilders :
             \/ Begin(a) \/ StartReplacing(a) \/ Replaced(a) \/ RebuildFails(a)
             \/ \E c \in Chats : ReadChat(a, c)
             \/ \E m \in Months : WriteMonth(a, m) \/ RemoveMonth(a, m)
 <2>1. PICK a \in Rebuilders :
            \/ Begin(a) \/ StartReplacing(a) \/ EndRebuild(a)
            \/ \E c \in Chats : ReadChat(a, c)
            \/ \E m \in Months : WriteMonth(a, m) \/ RemoveMonth(a, m)
  BY <1>2 DEF Replaced, RebuildFails
 <2> QED BY <2>1, BeginRebuildStep, StartReplacingStep, EndRebuildStep, ReadChatStep, WriteMonthStep, RemoveMonthStep
<1>3. CASE MonthPasses BY <1>3, MonthStep
<1>4. CASE LedgerCrash BY <1>4, CrashStep
<1>5. CASE UNCHANGED ledgerVars
 <2>1. UNCHANGED <<month, phase, event, ledger, cut, rebuild, writer, exposed>> BY <1>5 DEF ledgerVars
 <2>2. LedgerTypes' BY <2>1, LedgerParts DEF LedgerTypes
 <2>3. \A q \in LedgerRuns : Unended(q)' /\ RunSafe(q)' BY <2>1, RunUntouched
 <2>4. \A a \in Rebuilders : StageSound(a)' /\ CalmSound(a)' BY <2>1, LedgerParts DEF StageSound, CalmSound, FoundIn, FilesOf
 <2> QED BY <2>2, <2>3, <2>4 DEF LedgerInductive
<1> QED BY <1>1, <1>2, <1>3, <1>4, <1>5 DEF LedgerNext

LedgerSpec == LedgerInit /\ [][LedgerNext]_ledgerVars

\* LedgerInvariant, for any runs, chats, months and rebuilds: a run that was
\* recorded while nothing interfered is counted once, for the user who prompted,
\* whatever rebuilds, failures and crashes follow.
THEOREM LedgerKept == LedgerSpec => []LedgerInvariant
<1>1. LedgerInductive /\ [LedgerNext]_ledgerVars => LedgerInductive' BY LedgerStep
<1> QED BY LedgerStart, LedgerImplied, <1>1, PTL DEF LedgerSpec

\* A rebuild that nothing disturbed leaves one line of each run a log still holds.
LEMMA CalmRepairs ==
  ASSUME LedgerInductive, NEW a \in Rebuilders, rebuild[a].calm, Replaced(a), NEW r \in LedgerRuns
  PROVE  Count(ledger', r) = IF event[r] # NoEvent /\ event[r].kept THEN 1 ELSE 0
<1> USE LedgerParts
<1>1. rebuild[a].stage = "writing" /\ rebuild[a].todo = {} /\ ledger' = ledger BY DEF Replaced, EndRebuild
<1>2. \A m \in Months : FoundIn(a, m) = {} => ledger[m] = <<>> BY DEF Replaced, Stale
<1>3. \A m \in Months : FoundIn(a, m) # {} => ledger[m] \in FilesOf(FoundIn(a, m)) BY <1>1 DEF CalmSound
<1>4. \A m \in Months : FoundIn(a, m) \in SUBSET Lines /\ \A l \in FoundIn(a, m) : l \in rebuild[a].found /\ event[l.run].month = m
 BY FoundEnded DEF FoundIn
<1>5. \A m \in Months :
        /\ \A i \in DOMAIN ledger[m] : ledger[m][i] \in rebuild[a].found /\ event[ledger[m][i].run].month = m
        /\ \A i, j \in DOMAIN ledger[m] : ledger[m][i] = ledger[m][j] => i = j
        /\ \A l \in FoundIn(a, m) : \E i \in DOMAIN ledger[m] : ledger[m][i] = l
 <2> TAKE m \in Months
 <2>1. CASE FoundIn(a, m) = {} BY <1>2, <2>1
 <2>2. CASE FoundIn(a, m) # {}
  <3>1. PICK file \in FilesOf(FoundIn(a, m)) : file = ledger[m] BY <1>3, <2>2
  <3> QED BY <1>4, <3>1, FileHolds
 <2> QED BY <2>1, <2>2
<1>6. (\E l \in rebuild[a].found : l.run = r) <=> (event[r] # NoEvent /\ event[r].kept) BY <1>1 DEF CalmSound
<1>7. \A k, l \in rebuild[a].found : k.run = l.run => k = l BY DEF CalmSound
<1>8. CASE event[r] # NoEvent /\ event[r].kept
 <2>1. PICK l \in rebuild[a].found : l.run = r BY <1>6, <1>8
 <2>2. PICK m \in Months : m = event[r].month BY <2>1, FoundEnded
 <2>3. l \in FoundIn(a, m) BY <2>1, <2>2 DEF FoundIn
 <2>4. PICK i \in DOMAIN ledger[m] : ledger[m][i] = l BY <1>5, <2>3
 <2>5. \A d \in Months : \A j \in DOMAIN ledger[d] : ledger[d][j].run = r => d = m /\ j = i BY <1>5, <1>7, <2>1, <2>2, <2>4
 <2>6. Places(ledger, r) = {<<m, i>>}
  <3>1. <<m, i>> \in Places(ledger, r) BY <2>1, <2>4 DEF Places
  <3>2. \A p \in Places(ledger, r) : p = <<m, i>> BY <2>5 DEF Places
  <3> QED BY <3>1, <3>2
 <2> QED BY <1>1, <1>8, <2>6, FS_Singleton DEF Count
<1>9. CASE ~(event[r] # NoEvent /\ event[r].kept)
 <2>1. Places(ledger, r) = {} BY <1>5, <1>6, <1>9 DEF Places
 <2> QED BY <1>1, <1>9, <2>1, FS_EmptySet DEF Count
<1> QED BY <1>8, <1>9

\* RebuildRepairs, for any runs, chats, months and rebuilds.
THEOREM RepairsAll == LedgerSpec => RebuildRepairs
<1>1. LedgerInductive /\ [LedgerNext]_ledgerVars => LedgerInductive' BY LedgerStep
<1>2. LedgerInductive /\ [LedgerNext]_ledgerVars =>
        [\A a \in Rebuilders : rebuild[a].calm /\ Replaced(a) =>
           \A r \in LedgerRuns :
             Count(ledger', r) = IF event[r] # NoEvent /\ event[r].kept THEN 1 ELSE 0]_ledgerVars
 BY CalmRepairs
<1> QED BY LedgerStart, <1>1, <1>2, PTL DEF LedgerSpec, RebuildRepairs

----
\* The history of a workspace (GitHistory).

Trees == [GitFiles -> Nat]
CommitType == [tree : Trees, line : SUBSET Nat]
RestoreStages == {"idle", "resolve", "status", "stage", "restat", "commit", "head", "checkout", "describe",
                  "switched", "dirty", "conflict", "failed"}
RestoreType == [at : RestoreStages, sha : Nat, message : BOOLEAN, held : Trees, checkpoint : Nat, calm : BOOLEAN]

GitTypes ==
  /\ commits \in Seq(CommitType) /\ main \in 1..Len(commits) /\ tip = main /\ head \in 0..Len(commits)
  /\ index \in Trees /\ work \in Trees /\ latest \in Trees /\ locked \in BOOLEAN
  /\ restore \in [Restores -> RestoreType]

\* A commit descends from commits that were made before it.
LinesSound == \A i \in 1..Len(commits) : \A d \in commits[i].line : d <= i

\* What was last written to f is in a commit, or was its removal.
Saved(f) == latest[f] = Absent \/ InSomeCommit(f, latest[f])

\* What a switch has found in the tree is on its way into a commit, and while
\* nothing crosses it the tree is the one it works on.
SwitchSound(x) ==
  /\ x.sha \in 1..Len(commits)
  /\ x.at \in {"idle", "resolve", "status", "stage"} => x.checkpoint = 0 /\ \A f \in GitFiles : x.held[f] = Absent
  /\ x.at \in {"restat", "commit"} => \A f \in GitFiles : x.held[f] = latest[f] => Saved(f) \/ latest[f] = index[f]
  /\ x.at \in {"head", "checkout", "describe", "switched"} => \A f \in GitFiles : x.held[f] = latest[f] => Saved(f)
  /\ x.calm =>
       /\ x.at \in {"restat", "commit"} => work = index
       /\ x.at \in {"head", "checkout"} => work = index /\ index = HeadTree
       /\ x.at = "head" => HeadId = Len(commits)
       /\ x.at \in {"checkout", "describe", "switched"} /\ x.checkpoint # 0 => x.checkpoint = Len(commits)
       /\ x.at \in {"describe", "switched"} => head = x.sha /\ work = commits[head].tree /\ index = work

GitInductive ==
  /\ GitTypes /\ LinesSound
  /\ \A f \in GitFiles : Saved(f) \/ latest[f] = work[f]
  /\ \A r \in Restores : SwitchSound(restore[r])

\* The inductive invariant says what the run checks.
LEMMA GitKeep == GitInductive => GitInvariant
<1> SUFFICES ASSUME GitInductive PROVE GitInvariant OBVIOUS
<1>1. /\ GitTypes /\ LinesSound /\ (\A f \in GitFiles : Saved(f) \/ latest[f] = work[f])
      /\ \A r \in Restores : SwitchSound(restore[r]) /\ restore[r] \in RestoreType
 BY DEF GitInductive, GitTypes
<1>2. GitTypeOK BY <1>1 DEF GitTypes, GitTypeOK, HeadId, Trees
<1>3. NothingLost BY <1>1 DEF NothingLost, Saved
<1>4. CheckpointWhole BY <1>1 DEF CheckpointWhole, SwitchSound, Saved
<1>5. SwitchedExactly
 <2> SUFFICES ASSUME NEW r \in Restores, restore[r].at = "switched", restore[r].calm
               PROVE  HeadId = restore[r].sha /\ head = HeadId /\ work = commits[head].tree /\ index = work
  BY DEF SwitchedExactly
 <2>1. head = restore[r].sha /\ work = commits[head].tree /\ index = work /\ restore[r].sha \in 1..Len(commits)
  BY <1>1 DEF SwitchSound
 <2> QED BY <2>1 DEF HeadId
<1>6. BranchStays BY <1>1 DEF BranchStays, GitTypes
<1>7. CheckpointOffered
 <2> SUFFICES ASSUME NEW r \in Restores, restore[r].checkpoint \in commits[main].line,
                      restore[r].at = "switched", restore[r].calm, restore[r].checkpoint # 0
               PROVE  restore[r].checkpoint \in Listed
  BY DEF CheckpointOffered, OfferedAgain
 <2> DEFINE reached == commits[main].line \cup commits[HeadId].line
             newer == {d \in reached : d > restore[r].checkpoint}
 <2>1. restore[r].checkpoint = Len(commits) /\ Len(commits) \in Nat BY <1>1 DEF SwitchSound, GitTypes
 <2>2. main \in 1..Len(commits) /\ HeadId \in 1..Len(commits) BY <1>1 DEF GitTypes, HeadId
 <2>3. \A i \in 1..Len(commits) : commits[i].line \subseteq Nat
  <3>1. \A i \in 1..Len(commits) : commits[i] \in CommitType BY <1>1 DEF GitTypes
  <3> QED BY <3>1 DEF CommitType
 <2>4. \A d \in reached : d \in Nat /\ d <= Len(commits)
  <3>1. \A i \in 1..Len(commits) : \A d \in commits[i].line : d \in Nat /\ d <= i BY <1>1, <2>3 DEF LinesSound
  <3> QED BY <2>1, <2>2, <3>1
 <2>5. newer = {} BY <2>1, <2>4
 <2>6. Cardinality(newer) < CommitLimit BY <2>5, FS_EmptySet, GitAssumption
 <2> QED BY <2>6 DEF Listed
<1> QED BY <1>2, <1>3, <1>4, <1>5, <1>6, <1>7 DEF GitInvariant

\* A request before it is made.
LEMMA NewRestoreSound ==
  ASSUME GitTypes
  PROVE  NewRestore \in RestoreType /\ SwitchSound(NewRestore)
<1>1. [f \in GitFiles |-> Absent] \in Trees BY DEF Trees, Absent
<1>2. NewRestore \in RestoreType BY <1>1 DEF NewRestore, RestoreType, RestoreStages
<1>3. 1 \in 1..Len(commits) BY DEF GitTypes
<1> QED BY <1>2, <1>3 DEF SwitchSound, NewRestore

\* At first the branch is checked out and nothing is changed.
LEMMA GitStart == GitInit => GitInductive
<1> SUFFICES ASSUME GitInit PROVE GitInductive OBVIOUS
<1> DEFINE old == [f \in GitFiles |-> 1]
            new == [f \in GitFiles |-> IF f = CHOOSE g \in GitFiles : TRUE THEN Absent ELSE 2]
            c1 == [tree |-> old, line |-> {1}]
            c2 == [tree |-> new, line |-> {1, 2}]
<1>1. commits = <<c1, c2>> /\ main = 2 /\ tip = 2 /\ head = 0 /\ index = commits[2].tree /\ work = index
      /\ latest = index /\ locked = FALSE /\ restore = [r \in Restores |-> NewRestore]
 BY DEF GitInit
<1>2. old \in Trees /\ new \in Trees BY DEF Trees, Absent
<1> HIDE DEF old, new
<1>3. c1 \in CommitType /\ c2 \in CommitType /\ c2.tree = new /\ c1.line = {1} /\ c2.line = {1, 2} BY <1>2 DEF CommitType
<1> HIDE DEF c1, c2
<1>4. commits \in Seq(CommitType) /\ Len(commits) = 2 /\ commits[1] = c1 /\ commits[2] = c2 BY <1>1, <1>3
<1>5. index \in Trees /\ work \in Trees /\ latest \in Trees BY <1>1, <1>2, <1>3, <1>4
<1>6. main \in 1..Len(commits) /\ tip = main /\ head \in 0..Len(commits) /\ locked \in BOOLEAN
 <2>1. 2 \in 1..Len(commits) /\ 0 \in 0..Len(commits) BY <1>4
 <2> QED BY <1>1, <2>1
<1>7. NewRestore \in RestoreType
 <2>1. [f \in GitFiles |-> Absent] \in Trees BY DEF Trees, Absent
 <2> QED BY <2>1 DEF NewRestore, RestoreType, RestoreStages
<1>8. GitTypes BY <1>1, <1>4, <1>5, <1>6, <1>7 DEF GitTypes
<1>9. LinesSound BY <1>3, <1>4 DEF LinesSound
<1> QED BY <1>1, <1>8, <1>9, NewRestoreSound DEF GitInductive

\* A request goes on, and the repository is as it was.
LEMMA OnlyRestore ==
  ASSUME GitInductive, NEW r \in Restores, NEW n \in RestoreType, restore' = [restore EXCEPT ![r] = n],
         SwitchSound(n), UNCHANGED <<commits, main, head, index, work, latest, tip>>, locked' \in BOOLEAN
  PROVE  GitInductive'
<1>1. /\ GitTypes /\ LinesSound /\ (\A f \in GitFiles : Saved(f) \/ latest[f] = work[f])
      /\ restore \in [Restores -> RestoreType] /\ \A o \in Restores : SwitchSound(restore[o])
 BY DEF GitInductive, GitTypes
<1>2. /\ restore' \in [Restores -> RestoreType] /\ restore'[r] = n
      /\ \A o \in Restores : o # r => restore'[o] = restore[o]
 BY <1>1
<1>3. GitTypes' /\ LinesSound' BY <1>1, <1>2 DEF GitTypes, LinesSound
<1>4. \A f \in GitFiles : Saved(f)' \/ latest'[f] = work'[f] BY <1>1 DEF Saved, InSomeCommit
<1>5. ASSUME NEW o \in Restores PROVE SwitchSound(restore[o])'
 <2>1. SwitchSound(restore'[o]) BY <1>1, <1>2
 <2> QED BY <2>1 DEF SwitchSound, Saved, InSomeCommit, HeadId, HeadTree
<1> QED BY <1>3, <1>4, <1>5 DEF GitInductive

\* A request that is answered, however it was, says nothing of the tree.
LEMMA AnsweredSound ==
  ASSUME NEW x \in RestoreType, SwitchSound(x), NEW a \in {"dirty", "conflict", "failed"}
  PROVE  LET n == [x EXCEPT !.at = a] IN n \in RestoreType /\ SwitchSound(n) /\ n.sha = x.sha /\ n.at = a
<1> DEFINE n == [x EXCEPT !.at = a]
<1>1. n \in RestoreType /\ n.sha = x.sha /\ n.at = a BY DEF RestoreType, RestoreStages
<1> HIDE DEF n
<1>2. SwitchSound(n) BY <1>1 DEF SwitchSound
<1> QED BY <1>1, <1>2 DEF n

\* The fields of a request whose tree somebody else has changed.
LEMMA Crossed ==
  ASSUME NEW x \in RestoreType
  PROVE  LET y == [x EXCEPT !.calm = (x.at = "idle")]
         IN /\ y \in RestoreType /\ y.at = x.at /\ y.sha = x.sha /\ y.held = x.held /\ y.checkpoint = x.checkpoint
            /\ y.calm => x.at = "idle"
<1>1. (x.at = "idle") \in BOOLEAN OBVIOUS
<1> DEFINE b == (x.at = "idle")
            y == [x EXCEPT !.calm = b]
<1>2. b \in BOOLEAN /\ (b => x.at = "idle") OBVIOUS
<1> HIDE DEF b
<1>3. /\ y \in RestoreType /\ y.at = x.at /\ y.sha = x.sha /\ y.held = x.held /\ y.checkpoint = x.checkpoint
      /\ y.calm = b
 BY <1>2 DEF RestoreType
<1>4. y.calm => x.at = "idle" BY <1>2, <1>3
<1> HIDE DEF y
<1> QED BY <1>3, <1>4 DEF y, b

\* What a request found stays safe when somebody else changes the repository.
LEMMA CrossedSound ==
  ASSUME NEW x \in RestoreType, SwitchSound(x), Len(commits) \in Nat, Len(commits') \in Nat,
         Len(commits) <= Len(commits'),
         \A f \in GitFiles : \/ Saved(f)' \/ x.held[f] # latest'[f]
                             \/ /\ latest'[f] = latest[f] /\ ~Saved(f)
                                /\ latest[f] = index[f] => latest'[f] = index'[f]
  PROVE  SwitchSound([x EXCEPT !.calm = (x.at = "idle")])'
<1> DEFINE y == [x EXCEPT !.calm = (x.at = "idle")]
<1>1. /\ y \in RestoreType /\ y.at = x.at /\ y.sha = x.sha /\ y.held = x.held /\ y.checkpoint = x.checkpoint
      /\ y.calm => x.at = "idle"
 BY Crossed
<1> HIDE DEF y
<1>2. x.sha \in 1..Len(commits') BY DEF SwitchSound
<1>3. x.at \in {"restat", "commit"} => \A f \in GitFiles : x.held[f] = latest'[f] => Saved(f)' \/ latest'[f] = index'[f]
 BY DEF SwitchSound
<1>4. x.at \in {"head", "checkout", "describe", "switched"} => \A f \in GitFiles : x.held[f] = latest'[f] => Saved(f)'
 BY DEF SwitchSound
<1>5. x.at \in {"idle", "resolve", "status", "stage"} => x.checkpoint = 0 /\ \A f \in GitFiles : x.held[f] = Absent
 BY DEF SwitchSound
<1>6. SwitchSound(y)' BY <1>1, <1>2, <1>3, <1>4, <1>5 DEF SwitchSound
<1> QED BY <1>6 DEF y

\* What is known of the repository and of a request before a step.
LEMMA GitParts ==
  ASSUME GitInductive
  PROVE  /\ GitTypes /\ LinesSound /\ (\A f \in GitFiles : Saved(f) \/ latest[f] = work[f])
         /\ (\A i \in 1..Len(commits) : commits[i] \in CommitType /\ commits[i].tree \in Trees)
         /\ HeadId \in 1..Len(commits) /\ HeadTree \in Trees /\ Len(commits) \in Nat
         /\ index \in Trees /\ work \in Trees /\ latest \in Trees
         /\ \A r \in Restores : restore[r] \in RestoreType /\ SwitchSound(restore[r])
<1>1. /\ GitTypes /\ LinesSound /\ (\A f \in GitFiles : Saved(f) \/ latest[f] = work[f])
      /\ \A r \in Restores : restore[r] \in RestoreType /\ SwitchSound(restore[r])
 BY DEF GitInductive, GitTypes
<1>2. \A i \in 1..Len(commits) : commits[i] \in CommitType BY <1>1 DEF GitTypes
<1>3. \A i \in 1..Len(commits) : commits[i].tree \in Trees BY <1>2 DEF CommitType
<1>4. HeadId \in 1..Len(commits) /\ Len(commits) \in Nat BY <1>1 DEF GitTypes, HeadId
<1> QED BY <1>1, <1>2, <1>3, <1>4 DEF HeadTree, GitTypes

\* A request that somebody else has crossed.
LEMMA OtherSound ==
  ASSUME GitInductive, NEW o \in Restores, Len(commits') \in Nat, Len(commits) <= Len(commits'),
         restore'[o] = [restore[o] EXCEPT !.calm = (restore[o].at = "idle")],
         \A f \in GitFiles : \/ Saved(f)' \/ restore[o].held[f] # latest'[f]
                             \/ /\ latest'[f] = latest[f] /\ ~Saved(f)
                                /\ latest[f] = index[f] => latest'[f] = index'[f]
  PROVE  SwitchSound(restore[o])'
<1>1. PICK x \in RestoreType : x = restore[o] BY GitParts
<1>2. SwitchSound(x) /\ Len(commits) \in Nat BY <1>1, GitParts
<1>3. SwitchSound([x EXCEPT !.calm = (x.at = "idle")])' BY <1>1, <1>2, CrossedSound
<1>4. PICK y : y = [x EXCEPT !.calm = (x.at = "idle")] OBVIOUS
<1>5. SwitchSound(y)' /\ y = restore'[o] BY <1>1, <1>3, <1>4
<1> QED BY <1>5 DEF SwitchSound

\* The requests, all crossed but the one that changed the repository.
LEMMA AllCrossed ==
  ASSUME GitInductive
  PROVE  /\ Unsettled \in [Restores -> RestoreType]
         /\ \A o \in Restores : Unsettled[o] = [restore[o] EXCEPT !.calm = (restore[o].at = "idle")]
         /\ \A r \in Restores, n \in RestoreType :
              LET next == [Unsettled EXCEPT ![r] = n]
              IN next \in [Restores -> RestoreType] /\ next[r] = n /\ \A o \in Restores : o # r => next[o] = Unsettled[o]
<1>1. \A o \in Restores : [restore[o] EXCEPT !.calm = (restore[o].at = "idle")] \in RestoreType BY GitParts, Crossed
<1>2. Unsettled \in [Restores -> RestoreType] BY <1>1 DEF Unsettled
<1> QED BY <1>2 DEF Unsettled

\* What a commit adds, and that it takes nothing away.
LEMMA CommitFacts ==
  ASSUME GitInductive, NEW tree \in Trees, Commit(tree), latest' = latest
  PROVE  /\ commits' \in Seq(CommitType) /\ Len(commits') = Len(commits) + 1 /\ LinesSound'
         /\ main' \in 1..Len(commits') /\ tip' = main' /\ head' \in 0..Len(commits')
         /\ HeadId' = Len(commits') /\ HeadTree' = tree /\ index' = tree
         /\ \A f \in GitFiles : (Saved(f) => Saved(f)') /\ (latest[f] = tree[f] => Saved(f)')
<1>0. /\ commits \in Seq(CommitType) /\ main \in 1..Len(commits) /\ tip = main /\ head \in 0..Len(commits)
      /\ HeadId \in 1..Len(commits) /\ LinesSound
      /\ \A i \in 1..Len(commits) : commits[i] \in CommitType
 BY GitParts DEF GitTypes
<1> DEFINE line == commits[HeadId].line \cup {Len(commits) + 1}
            c == [tree |-> tree, line |-> line]
<1>1. /\ commits' = Append(commits, c)
      /\ main' = (IF head = 0 THEN Len(commits') ELSE main) /\ tip' = (IF head = 0 THEN Len(commits') ELSE tip)
      /\ head' = (IF head = 0 THEN 0 ELSE Len(commits')) /\ index' = tree
 BY DEF Commit
<1>2. line \subseteq Nat /\ \A d \in line : d <= Len(commits) + 1
 <2>1. commits[HeadId] \in CommitType BY <1>0
 <2>2. commits[HeadId].line \subseteq Nat BY <2>1 DEF CommitType
 <2>3. \A d \in commits[HeadId].line : d \in Nat /\ d <= HeadId BY <1>0, <2>2 DEF LinesSound
 <2> QED BY <1>0, <2>2, <2>3
<1> HIDE DEF line
<1>3. c \in CommitType /\ c.tree = tree /\ c.line = line BY <1>2 DEF CommitType
<1> HIDE DEF c
<1>4. /\ commits' \in Seq(CommitType) /\ Len(commits') = Len(commits) + 1 /\ Len(commits) \in Nat
      /\ commits'[Len(commits) + 1] = c /\ \A i \in 1..Len(commits) : commits'[i] = commits[i]
 BY <1>0, <1>1, <1>3
<1>5. main' \in 1..Len(commits') /\ tip' = main' /\ head' \in 0..Len(commits') BY <1>0, <1>1, <1>4
<1>6. HeadId' = Len(commits') BY <1>0, <1>1, <1>4 DEF HeadId
<1>7. HeadTree' = tree BY <1>3, <1>4, <1>6 DEF HeadTree
<1>8. LinesSound'
 <2> SUFFICES ASSUME NEW i \in 1..Len(commits'), NEW d \in commits'[i].line PROVE d <= i BY DEF LinesSound
 <2>1. CASE i \in 1..Len(commits) BY <1>0, <1>4, <2>1 DEF LinesSound
 <2>2. CASE i = Len(commits) + 1 BY <1>2, <1>3, <1>4, <2>2
 <2> QED BY <1>4, <2>1, <2>2
<1>9. ASSUME NEW f \in GitFiles PROVE (Saved(f) => Saved(f)') /\ (latest[f] = tree[f] => Saved(f)')
 <2>1. \A i \in 1..Len(commits) : i \in 1..Len(commits') /\ commits'[i].tree[f] = commits[i].tree[f] BY <1>4
 <2>2. Len(commits) + 1 \in 1..Len(commits') /\ commits'[Len(commits) + 1].tree[f] = tree[f] BY <1>3, <1>4
 <2> QED BY <2>1, <2>2 DEF Saved, InSomeCommit
<1> QED BY <1>1, <1>4, <1>5, <1>6, <1>7, <1>8, <1>9

\* What a checkout would replace is in the commit it leaves.
LEMMA ReplacedSaved ==
  ASSUME GitInductive, NEW sha \in 1..Len(commits), Free(sha), NEW f \in ReplacedFiles(sha)
  PROVE  index[f] = HeadTree[f] /\ work[f] = index[f] /\ InSomeCommit(f, index[f])
<1>1. f \in GitFiles /\ index[f] = HeadTree[f] /\ work[f] = index[f] /\ HeadId \in 1..Len(commits)
 BY GitParts DEF Free, ReplacedFiles
<1> QED BY <1>1 DEF InSomeCommit, HeadTree

\* Some of the files a checkout may replace are replaced.
LEMMA WrittenTree ==
  ASSUME GitInductive, NEW sha \in 1..Len(commits), NEW tree \in Trees, NEW files \in SUBSET GitFiles
  PROVE  /\ Written(tree, sha, files) \in Trees
         /\ \A f \in GitFiles : Written(tree, sha, files)[f] = IF f \in files THEN commits[sha].tree[f] ELSE tree[f]
<1>1. commits[sha].tree \in Trees BY GitParts
<1> QED BY <1>1 DEF Written, Trees

\* Somebody writes or removes a file.
LEMMA EditStep ==
  ASSUME GitInductive, NEW f \in GitFiles, Edit(f)
  PROVE  GitInductive'
<1>0. /\ GitTypes /\ LinesSound /\ (\A g \in GitFiles : Saved(g) \/ latest[g] = work[g])
      /\ Len(commits) \in Nat /\ work \in Trees /\ latest \in Trees
 BY GitParts
<1>1. PICK v \in 0..MaxEdits : /\ v = Absent \/ FreshContent(v)
                               /\ work' = [work EXCEPT ![f] = v] /\ latest' = [latest EXCEPT ![f] = v]
 BY DEF Edit
<1>2. restore' = Unsettled /\ UNCHANGED <<commits, main, head, index, locked, tip>> BY DEF Edit
<1>3. v \in Nat BY <1>1, GitAssumption
<1>4. /\ work' \in Trees /\ latest' \in Trees /\ work'[f] = v /\ latest'[f] = v
      /\ \A g \in GitFiles : g # f => work'[g] = work[g] /\ latest'[g] = latest[g]
 BY <1>0, <1>1, <1>3 DEF Trees
<1>5. GitTypes' BY <1>0, <1>2, <1>4, AllCrossed DEF GitTypes
<1>6. LinesSound' BY <1>0, <1>2 DEF LinesSound
<1>7. \A g \in GitFiles : g # f => (Saved(g) <=> Saved(g)') BY <1>2, <1>4 DEF Saved, InSomeCommit
<1>8. \A g \in GitFiles : Saved(g)' \/ latest'[g] = work'[g] BY <1>0, <1>4, <1>7
<1>9. ASSUME NEW o \in Restores PROVE SwitchSound(restore[o])'
 <2>1. v = Absent \/ restore[o].held[f] # v
  <3>1. CASE FreshContent(v)
   <4>1. restore[o].held[f] \in Contents /\ restore[o].held[f] \in Nat
    <5>1. restore[o].held \in Trees BY GitParts DEF RestoreType
    <5> QED BY <5>1 DEF Contents, Trees
   <4> QED BY <1>3, <3>1, <4>1 DEF FreshContent
  <3> QED BY <1>1, <3>1
 <2>2. \A g \in GitFiles : \/ Saved(g)' \/ restore[o].held[g] # latest'[g]
                           \/ /\ latest'[g] = latest[g] /\ ~Saved(g)
                              /\ latest[g] = index[g] => latest'[g] = index'[g]
  <3> SUFFICES ASSUME NEW g \in GitFiles
                PROVE  \/ Saved(g)' \/ restore[o].held[g] # latest'[g]
                       \/ /\ latest'[g] = latest[g] /\ ~Saved(g)
                          /\ latest[g] = index[g] => latest'[g] = index'[g]
   OBVIOUS
  <3>1. CASE g = f
   <4>1. v = Absent => Saved(f)' BY <1>4 DEF Saved
   <4> QED BY <1>4, <2>1, <3>1, <4>1
  <3>2. CASE g # f BY <1>2, <1>4, <1>7, <3>2
  <3> QED BY <3>1, <3>2
 <2>3. restore'[o] = [restore[o] EXCEPT !.calm = (restore[o].at = "idle")] BY <1>2, AllCrossed
 <2> QED BY <1>0, <1>2, <2>2, <2>3, OtherSound
<1> QED BY <1>5, <1>6, <1>8, <1>9 DEF GitInductive

\* Somebody commits everything.
LEMMA CommitAllStep ==
  ASSUME GitInductive, CommitAll
  PROVE  GitInductive'
<1>0. /\ GitTypes /\ (\A g \in GitFiles : Saved(g) \/ latest[g] = work[g])
      /\ Len(commits) \in Nat /\ work \in Trees
 BY GitParts
<1>1. Commit(work) /\ locked' = FALSE /\ restore' = Unsettled /\ UNCHANGED <<work, latest>> BY DEF CommitAll
<1>2. /\ commits' \in Seq(CommitType) /\ Len(commits') = Len(commits) + 1 /\ LinesSound'
      /\ main' \in 1..Len(commits') /\ tip' = main' /\ head' \in 0..Len(commits') /\ index' = work
      /\ \A f \in GitFiles : (Saved(f) => Saved(f)') /\ (latest[f] = work[f] => Saved(f)')
 BY <1>0, <1>1, CommitFacts
<1>3. GitTypes' BY <1>0, <1>1, <1>2, AllCrossed DEF GitTypes
<1>4. \A f \in GitFiles : Saved(f)' BY <1>0, <1>2
<1>5. ASSUME NEW o \in Restores PROVE SwitchSound(restore[o])'
 <2>1. restore'[o] = [restore[o] EXCEPT !.calm = (restore[o].at = "idle")] BY <1>1, AllCrossed
 <2>2. Len(commits') \in Nat /\ Len(commits) <= Len(commits') BY <1>0, <1>2
 <2> QED BY <1>4, <2>1, <2>2, OtherSound
<1> QED BY <1>2, <1>3, <1>4, <1>5 DEF GitInductive

\* A switch stages what it found.
LEMMA StageStep ==
  ASSUME GitInductive, NEW r \in Restores, StageAll(r)
  PROVE  GitInductive'
<1>0. /\ GitTypes /\ LinesSound /\ (\A g \in GitFiles : Saved(g) \/ latest[g] = work[g])
      /\ Len(commits) \in Nat /\ work \in Trees /\ restore[r] \in RestoreType /\ SwitchSound(restore[r])
 BY GitParts
<1>1. PICK n : n = [restore[r] EXCEPT !.at = "restat", !.held = work] OBVIOUS
<1>2. /\ index' = work /\ restore' = [Unsettled EXCEPT ![r] = n]
      /\ UNCHANGED <<commits, main, head, work, locked, latest, tip>>
 BY <1>1 DEF StageAll, Staged
<1>3. n \in RestoreType /\ n.at = "restat" /\ n.held = work /\ n.sha = restore[r].sha BY <1>0, <1>1 DEF RestoreType, RestoreStages
<1>4. /\ restore' \in [Restores -> RestoreType] /\ restore'[r] = n
      /\ \A o \in Restores : o # r => restore'[o] = [restore[o] EXCEPT !.calm = (restore[o].at = "idle")]
 BY <1>2, <1>3, AllCrossed
<1>5. GitTypes' /\ LinesSound' BY <1>0, <1>2, <1>4 DEF GitTypes, LinesSound
<1>6. \A g \in GitFiles : Saved(g) <=> Saved(g)' BY <1>2 DEF Saved, InSomeCommit
<1>7. \A g \in GitFiles : Saved(g)' \/ latest'[g] = work'[g] BY <1>0, <1>2, <1>6
<1>8. SwitchSound(restore[r])'
 <2>1. SwitchSound(n)' BY <1>0, <1>2, <1>3 DEF SwitchSound
 <2> QED BY <1>4, <2>1 DEF SwitchSound
<1>9. ASSUME NEW o \in Restores, o # r PROVE SwitchSound(restore[o])'
 <2>1. \A g \in GitFiles : \/ Saved(g)' \/ restore[o].held[g] # latest'[g]
                           \/ /\ latest'[g] = latest[g] /\ ~Saved(g)
                              /\ latest[g] = index[g] => latest'[g] = index'[g]
  BY <1>0, <1>2, <1>6
 <2> QED BY <1>0, <1>2, <1>4, <1>9, <2>1, OtherSound
<1> QED BY <1>5, <1>7, <1>8, <1>9 DEF GitInductive

\* A switch makes its checkpoint.
LEMMA CheckpointStep ==
  ASSUME GitInductive, NEW r \in Restores, CreateCheckpoint(r)
  PROVE  GitInductive'
<1>0. /\ GitTypes /\ (\A g \in GitFiles : Saved(g) \/ latest[g] = work[g]) /\ index \in Trees
      /\ Len(commits) \in Nat /\ work \in Trees /\ restore[r] \in RestoreType /\ SwitchSound(restore[r])
 BY GitParts
<1>1. PICK n : n = [restore[r] EXCEPT !.at = "head"] OBVIOUS
<1>2. /\ restore[r].at = "commit" /\ Commit(index) /\ restore' = [Unsettled EXCEPT ![r] = n]
      /\ UNCHANGED <<work, locked, latest>>
 BY <1>1 DEF CreateCheckpoint
<1>3. /\ n \in RestoreType /\ n.at = "head" /\ n.held = restore[r].held /\ n.sha = restore[r].sha
      /\ n.calm = restore[r].calm
 BY <1>0, <1>1 DEF RestoreType, RestoreStages
<1>4. /\ restore' \in [Restores -> RestoreType] /\ restore'[r] = n
      /\ \A o \in Restores : o # r => restore'[o] = [restore[o] EXCEPT !.calm = (restore[o].at = "idle")]
 BY <1>2, <1>3, AllCrossed
<1>5. /\ commits' \in Seq(CommitType) /\ Len(commits') = Len(commits) + 1 /\ LinesSound'
      /\ main' \in 1..Len(commits') /\ tip' = main' /\ head' \in 0..Len(commits') /\ index' = index
      /\ HeadId' = Len(commits') /\ HeadTree' = index
      /\ \A f \in GitFiles : (Saved(f) => Saved(f)') /\ (latest[f] = index[f] => Saved(f)')
 BY <1>0, <1>2, CommitFacts
<1>6. GitTypes' BY <1>0, <1>2, <1>4, <1>5 DEF GitTypes
<1>7. \A g \in GitFiles : Saved(g)' \/ latest'[g] = work'[g] BY <1>0, <1>2, <1>5
<1>8. SwitchSound(restore[r])'
 <2>1. \A f \in GitFiles : n.held[f] = latest'[f] => Saved(f)' BY <1>0, <1>2, <1>3, <1>5 DEF SwitchSound
 <2>2. n.sha \in 1..Len(commits') BY <1>0, <1>3, <1>5 DEF SwitchSound
 <2>3. n.calm => work' = index' /\ index' = HeadTree' BY <1>0, <1>2, <1>3, <1>5 DEF SwitchSound
 <2>4. SwitchSound(n)' BY <1>3, <1>5, <2>1, <2>2, <2>3 DEF SwitchSound
 <2> QED BY <1>4, <2>4 DEF SwitchSound
<1>9. ASSUME NEW o \in Restores, o # r PROVE SwitchSound(restore[o])'
 <2>1. \A g \in GitFiles : \/ Saved(g)' \/ restore[o].held[g] # latest'[g]
                           \/ /\ latest'[g] = latest[g] /\ ~Saved(g)
                              /\ latest[g] = index[g] => latest'[g] = index'[g]
  BY <1>2, <1>5
 <2>2. Len(commits') \in Nat /\ Len(commits) <= Len(commits') BY <1>0, <1>5
 <2> QED BY <1>4, <1>9, <2>1, <2>2, OtherSound
<1> QED BY <1>5, <1>6, <1>7, <1>8, <1>9 DEF GitInductive

\* A switch checks the commit out.
LEMMA CheckoutStep ==
  ASSUME GitInductive, NEW r \in Restores, CheckoutDetached(r)
  PROVE  GitInductive'
<1> DEFINE sha == restore[r].sha
<1>0. /\ GitTypes /\ LinesSound /\ (\A g \in GitFiles : Saved(g) \/ latest[g] = work[g]) /\ index \in Trees
      /\ Len(commits) \in Nat /\ work \in Trees /\ HeadTree \in Trees
      /\ restore[r] \in RestoreType /\ SwitchSound(restore[r])
      /\ sha \in 1..Len(commits) /\ commits[sha].tree \in Trees
 <2>1. restore[r] \in RestoreType /\ SwitchSound(restore[r]) BY GitParts
 <2>2. sha \in 1..Len(commits) BY <2>1 DEF SwitchSound
 <2> QED BY <2>1, <2>2, GitParts
<1>1. PICK n : n = [restore[r] EXCEPT !.at = "describe"] OBVIOUS
<1>2. /\ restore[r].at = "checkout" /\ Free(sha) /\ head' = sha /\ restore' = [Unsettled EXCEPT ![r] = n]
      /\ index' = Written(index, sha, ReplacedFiles(sha)) /\ work' = Written(work, sha, ReplacedFiles(sha))
      /\ UNCHANGED <<commits, main, locked, latest, tip>>
 BY <1>1 DEF CheckoutDetached, Moved
<1>3. /\ n \in RestoreType /\ n.at = "describe" /\ n.held = restore[r].held /\ n.sha = sha
      /\ n.calm = restore[r].calm /\ n.checkpoint = restore[r].checkpoint
 BY <1>0, <1>1 DEF RestoreType, RestoreStages
<1> HIDE DEF sha
<1>4. /\ restore' \in [Restores -> RestoreType] /\ restore'[r] = n
      /\ \A o \in Restores : o # r => restore'[o] = [restore[o] EXCEPT !.calm = (restore[o].at = "idle")]
 BY <1>2, <1>3, AllCrossed
<1>5. /\ index' \in Trees /\ work' \in Trees
      /\ \A f \in GitFiles : /\ index'[f] = IF f \in ReplacedFiles(sha) THEN commits[sha].tree[f] ELSE index[f]
                             /\ work'[f] = IF f \in ReplacedFiles(sha) THEN commits[sha].tree[f] ELSE work[f]
 BY <1>0, <1>2, WrittenTree DEF ReplacedFiles
<1>6. GitTypes' /\ LinesSound' BY <1>0, <1>2, <1>4, <1>5 DEF GitTypes, LinesSound
<1>7. /\ \A g \in GitFiles : Saved(g) <=> Saved(g)'
      /\ \A g \in ReplacedFiles(sha) : work[g] = index[g] /\ (latest[g] = index[g] => Saved(g))
 BY <1>0, <1>2, ReplacedSaved DEF Saved, InSomeCommit
<1>8. \A g \in GitFiles : Saved(g)' \/ latest'[g] = work'[g] BY <1>0, <1>2, <1>5, <1>7
<1>9. SwitchSound(restore[r])'
 <2>1. \A f \in GitFiles : n.held[f] = latest'[f] => Saved(f)' BY <1>0, <1>2, <1>3, <1>7 DEF SwitchSound
 <2>2. ASSUME n.calm PROVE work' = commits'[head'].tree /\ index' = work'
  <3>1. work = index /\ index = HeadTree BY <1>0, <1>2, <1>3, <2>2 DEF SwitchSound
  <3>2. \A f \in GitFiles : index'[f] = commits[sha].tree[f] /\ work'[f] = commits[sha].tree[f] BY <1>5, <3>1 DEF ReplacedFiles
  <3>3. index' = commits[sha].tree /\ work' = commits[sha].tree BY <1>0, <1>5, <3>2 DEF Trees
  <3> QED BY <1>2, <3>3
 <2>3. n.calm /\ n.checkpoint # 0 => n.checkpoint = Len(commits') BY <1>0, <1>2, <1>3 DEF SwitchSound
 <2>4. SwitchSound(n)' BY <1>0, <1>2, <1>3, <2>1, <2>2, <2>3 DEF SwitchSound
 <2> QED BY <1>4, <2>4 DEF SwitchSound
<1>10. ASSUME NEW o \in Restores, o # r PROVE SwitchSound(restore[o])'
 <2>1. \A g \in GitFiles : \/ Saved(g)' \/ restore[o].held[g] # latest'[g]
                           \/ /\ latest'[g] = latest[g] /\ ~Saved(g)
                              /\ latest[g] = index[g] => latest'[g] = index'[g]
  BY <1>2, <1>5, <1>7
 <2> QED BY <1>0, <1>2, <1>4, <1>10, <2>1, OtherSound
<1> QED BY <1>6, <1>8, <1>9, <1>10 DEF GitInductive

\* A switch reads, is refused, answers or is asked for.
LEMMA ReadingStep ==
  ASSUME GitInductive, NEW r \in Restores,
         \/ \E message \in BOOLEAN : AskSwitch(r, message)
         \/ ResolveSha(r) \/ ReadStatus(r) \/ CheckStaged(r) \/ ReadCheckpoint(r) \/ DescribeAfter(r)
         \/ Refuse(r) \/ Settle(r)
  PROVE  GitInductive'
<1>1. PICK x \in RestoreType : x = restore[r] /\ SwitchSound(x) BY GitParts
<1>2. /\ GitTypes /\ index \in Trees /\ work \in Trees /\ HeadTree \in Trees /\ locked \in BOOLEAN
      /\ HeadId \in Nat /\ Len(commits) \in Nat
 BY GitParts DEF GitTypes
<1>3. UNCHANGED <<commits, main, head, index, work, locked, latest, tip>>
 BY DEF AskSwitch, ResolveSha, ReadStatus, CheckStaged, ReadCheckpoint, DescribeAfter, Refuse, Settle
<1>4. SUFFICES \E n \in RestoreType : SwitchSound(n) /\ restore' = [restore EXCEPT ![r] = n] BY <1>2, <1>3, OnlyRestore
<1>5. ASSUME NEW message \in BOOLEAN, AskSwitch(r, message)
      PROVE  \E n \in RestoreType : SwitchSound(n) /\ restore' = [restore EXCEPT ![r] = n]
 <2>1. PICK sha \in 1..Len(commits) :
         restore' = [restore EXCEPT ![r] = [NewRestore EXCEPT !.at = "resolve", !.sha = sha, !.message = message]]
  BY <1>5 DEF AskSwitch
 <2>2. PICK n : n = [NewRestore EXCEPT !.at = "resolve", !.sha = sha, !.message = message] OBVIOUS
 <2>3. sha \in Nat /\ NewRestore \in RestoreType BY <1>2, NewRestoreSound
 <2>4. /\ n \in RestoreType /\ n.at = "resolve" /\ n.sha = sha /\ n.held = NewRestore.held
       /\ n.checkpoint = NewRestore.checkpoint
  BY <2>2, <2>3 DEF RestoreType, RestoreStages
 <2>5. SwitchSound(n) BY <2>4 DEF SwitchSound, NewRestore
 <2> QED BY <2>1, <2>2, <2>4, <2>5
<1>6. CASE ResolveSha(r)
 <2>1. PICK n : n = [x EXCEPT !.at = "status"] OBVIOUS
 <2>2. x.at = "resolve" /\ restore' = [restore EXCEPT ![r] = n] BY <1>1, <1>6, <2>1 DEF ResolveSha
 <2>3. n \in RestoreType /\ n.at = "status" /\ n.sha = x.sha /\ n.held = x.held /\ n.checkpoint = x.checkpoint
  BY <2>1 DEF RestoreType, RestoreStages
 <2>4. SwitchSound(n) BY <1>1, <2>2, <2>3 DEF SwitchSound
 <2> QED BY <2>2, <2>3, <2>4
<1>7. CASE ReadStatus(r)
 <2> DEFINE a == IF Dirty = {} THEN "checkout" ELSE IF x.message THEN "stage" ELSE "dirty"
 <2>1. PICK n : n = [x EXCEPT !.at = a] OBVIOUS
 <2>2. x.at = "status" /\ restore' = [restore EXCEPT ![r] = n] BY <1>1, <1>7, <2>1 DEF ReadStatus
 <2>3. a \in {"checkout", "stage", "dirty"} /\ (a = "checkout" => Dirty = {}) OBVIOUS
 <2> HIDE DEF a
 <2>4. n \in RestoreType /\ n.at = a /\ n.sha = x.sha /\ n.held = x.held /\ n.checkpoint = x.checkpoint
  BY <2>1, <2>3 DEF RestoreType, RestoreStages
 <2>5. Dirty = {} => work = index /\ index = HeadTree
  <3>1. Dirty = {} => \A f \in GitFiles : work[f] = index[f] /\ index[f] = HeadTree[f] BY DEF Dirty
  <3> QED BY <1>2, <3>1 DEF Trees
 <2>6. x.checkpoint = 0 /\ \A f \in GitFiles : x.held[f] = Absent BY <1>1, <2>2 DEF SwitchSound
 <2>7. \A f \in GitFiles : n.held[f] = latest[f] => Saved(f) BY <2>4, <2>6 DEF Saved
 <2>8. SwitchSound(n) BY <1>1, <2>3, <2>4, <2>5, <2>6, <2>7 DEF SwitchSound
 <2> QED BY <2>2, <2>4, <2>8
<1>8. CASE CheckStaged(r)
 <2>1. CASE Dirty = {}
  <3>1. restore' = [restore EXCEPT ![r] = [x EXCEPT !.at = "conflict"]] BY <1>1, <1>8, <2>1 DEF CheckStaged, Answered
  <3> QED BY <1>1, <3>1, AnsweredSound
 <2>2. CASE Dirty # {}
  <3>1. PICK n : n = [x EXCEPT !.at = "commit"] OBVIOUS
  <3>2. x.at = "restat" /\ restore' = [restore EXCEPT ![r] = n] BY <1>1, <1>8, <2>2, <3>1 DEF CheckStaged
  <3>3. n \in RestoreType /\ n.at = "commit" /\ n.sha = x.sha /\ n.held = x.held /\ n.calm = x.calm
   BY <3>1 DEF RestoreType, RestoreStages
  <3>4. SwitchSound(n) BY <1>1, <3>2, <3>3 DEF SwitchSound
  <3> QED BY <3>2, <3>3, <3>4
 <2> QED BY <2>1, <2>2
<1>9. CASE ReadCheckpoint(r)
 <2>1. PICK n : n = [x EXCEPT !.at = "checkout", !.checkpoint = HeadId] OBVIOUS
 <2>2. x.at = "head" /\ restore' = [restore EXCEPT ![r].at = "checkout", ![r].checkpoint = HeadId]
  BY <1>1, <1>9 DEF ReadCheckpoint
 <2>3. restore' = [restore EXCEPT ![r] = n] BY <1>1, <1>2, <2>1, <2>2 DEF GitTypes
 <2>4. /\ n \in RestoreType /\ n.at = "checkout" /\ n.sha = x.sha /\ n.held = x.held /\ n.calm = x.calm
       /\ n.checkpoint = HeadId
  BY <1>2, <2>1 DEF RestoreType, RestoreStages
 <2>5. SwitchSound(n) BY <1>1, <2>2, <2>4 DEF SwitchSound
 <2> QED BY <2>3, <2>4, <2>5
<1>10. CASE DescribeAfter(r)
 <2>1. PICK n : n = [x EXCEPT !.at = "switched"] OBVIOUS
 <2>2. x.at = "describe" /\ restore' = [restore EXCEPT ![r] = n] BY <1>1, <1>10, <2>1 DEF DescribeAfter
 <2>3. /\ n \in RestoreType /\ n.at = "switched" /\ n.sha = x.sha /\ n.held = x.held /\ n.calm = x.calm
       /\ n.checkpoint = x.checkpoint
  BY <2>1 DEF RestoreType, RestoreStages
 <2>4. SwitchSound(n) BY <1>1, <2>2, <2>3 DEF SwitchSound
 <2> QED BY <2>2, <2>3, <2>4
<1>11. CASE Refuse(r)
 <2>1. restore' = [restore EXCEPT ![r] = [x EXCEPT !.at = "conflict"]] BY <1>1, <1>11 DEF Refuse, Answered
 <2> QED BY <1>1, <2>1, AnsweredSound
<1>12. CASE Settle(r)
 <2>1. restore' = [restore EXCEPT ![r] = NewRestore] BY <1>12 DEF Settle
 <2> QED BY <1>2, <2>1, NewRestoreSound
<1> QED BY <1>5, <1>6, <1>7, <1>8, <1>9, <1>10, <1>11, <1>12

\* A command is killed; of a checkout it may have replaced some files.
LEMMA KillStep ==
  ASSUME GitInductive, NEW r \in Restores, KillCommand(r)
  PROVE  GitInductive'
<1>1. PICK x \in RestoreType : x = restore[r] /\ SwitchSound(x) BY GitParts
<1>2. PICK n : n = [x EXCEPT !.at = Failure(r)] OBVIOUS
<1>3. n \in RestoreType /\ SwitchSound(n) /\ n.sha = x.sha /\ n.at \in {"dirty", "conflict", "failed"}
 <2>1. PICK a \in {"dirty", "conflict", "failed"} : a = Failure(r) BY DEF Failure
 <2>2. n = [x EXCEPT !.at = a] BY <1>2, <2>1
 <2>3. n.at = a /\ n.sha = x.sha BY <1>1, <2>2 DEF RestoreType
 <2>4. n \in RestoreType /\ SwitchSound(n) BY <1>1, <2>1, <2>2, AnsweredSound
 <2> QED BY <2>1, <2>3, <2>4
<1>4. /\ GitTypes /\ LinesSound /\ (\A g \in GitFiles : Saved(g) \/ latest[g] = work[g])
      /\ Len(commits) \in Nat /\ work \in Trees /\ locked \in BOOLEAN
 BY GitParts DEF GitTypes
<1>5. UNCHANGED <<commits, main, head, index, latest, tip>> BY DEF KillCommand
<1>6. CASE restore' = [restore EXCEPT ![r] = n] /\ UNCHANGED <<work, locked>> BY <1>3, <1>4, <1>5, <1>6, OnlyRestore
<1>7. CASE ~(restore' = [restore EXCEPT ![r] = n] /\ UNCHANGED <<work, locked>>)
 <2>1. /\ locked' = TRUE /\ restore' = [Unsettled EXCEPT ![r] = n]
       /\ IF x.at = "checkout" /\ Free(x.sha)
            THEN \E files \in SUBSET ReplacedFiles(x.sha) : work' = Written(work, x.sha, files)
            ELSE UNCHANGED work
  BY <1>1, <1>2, <1>7 DEF KillCommand, Answered
 <2>2. /\ restore' \in [Restores -> RestoreType] /\ restore'[r] = n
       /\ \A o \in Restores : o # r => restore'[o] = [restore[o] EXCEPT !.calm = (restore[o].at = "idle")]
  BY <1>3, <2>1, AllCrossed
 <2>3. work' \in Trees /\ \A g \in GitFiles : work'[g] = work[g] \/ (latest[g] = work[g] => Saved(g))
  <3>1. CASE x.at = "checkout" /\ Free(x.sha)
   <4>1. PICK files \in SUBSET ReplacedFiles(x.sha) : work' = Written(work, x.sha, files) BY <2>1, <3>1
   <4>2. x.sha \in 1..Len(commits) /\ files \subseteq GitFiles BY <1>1 DEF SwitchSound, ReplacedFiles
   <4>3. /\ work' \in Trees
         /\ \A g \in GitFiles : work'[g] = IF g \in files THEN commits[x.sha].tree[g] ELSE work[g]
    BY <1>4, <4>1, <4>2, WrittenTree
   <4>4. \A g \in files : work[g] = index[g] /\ InSomeCommit(g, index[g]) BY <3>1, <4>2, ReplacedSaved
   <4> QED BY <4>3, <4>4 DEF Saved
  <3>2. CASE ~(x.at = "checkout" /\ Free(x.sha)) BY <1>4, <2>1, <3>2
  <3> QED BY <3>1, <3>2
 <2>4. GitTypes' /\ LinesSound' BY <1>4, <1>5, <2>1, <2>2, <2>3 DEF GitTypes, LinesSound
 <2>5. \A g \in GitFiles : Saved(g) <=> Saved(g)' BY <1>5 DEF Saved, InSomeCommit
 <2>6. \A g \in GitFiles : Saved(g)' \/ latest'[g] = work'[g] BY <1>4, <1>5, <2>3, <2>5
 <2>7. SwitchSound(restore[r])'
  <3>1. SwitchSound(n)' BY <1>3, <1>5 DEF SwitchSound
  <3> QED BY <2>2, <3>1 DEF SwitchSound
 <2>8. ASSUME NEW o \in Restores, o # r PROVE SwitchSound(restore[o])'
  <3>1. \A g \in GitFiles : \/ Saved(g)' \/ restore[o].held[g] # latest'[g]
                            \/ /\ latest'[g] = latest[g] /\ ~Saved(g)
                               /\ latest[g] = index[g] => latest'[g] = index'[g]
   BY <1>5, <2>5
  <3> QED BY <1>4, <1>5, <2>2, <2>8, <3>1, OtherSound
 <2> QED BY <2>4, <2>6, <2>7, <2>8 DEF GitInductive
<1> QED BY <1>6, <1>7

\* Every step keeps the inductive invariant.
LEMMA GitSteps == GitInductive /\ [GitNext]_gitVars => GitInductive'
<1> SUFFICES ASSUME GitInductive, [GitNext]_gitVars PROVE GitInductive' OBVIOUS
<1>1. ASSUME NEW f \in GitFiles, Edit(f) PROVE GitInductive' BY <1>1, EditStep
<1>2. CASE CommitAll BY <1>2, CommitAllStep
<1>3. CASE Unlock \/ UNCHANGED gitVars
 <2>1. UNCHANGED <<commits, main, head, index, work, latest, tip, restore>> /\ locked' \in BOOLEAN
  BY <1>3 DEF Unlock, gitVars, GitInductive, GitTypes
 <2> QED BY <2>1 DEF GitInductive, GitTypes, LinesSound, Saved, InSomeCommit, SwitchSound, HeadId, HeadTree
<1>4. ASSUME NEW r \in Restores,
             \/ \E message \in BOOLEAN : AskSwitch(r, message)
             \/ ResolveSha(r) \/ ReadStatus(r) \/ CheckStaged(r) \/ ReadCheckpoint(r) \/ DescribeAfter(r)
             \/ Refuse(r) \/ Settle(r)
      PROVE  GitInductive'
 BY <1>4, ReadingStep
<1>5. ASSUME NEW r \in Restores, StageAll(r) \/ CreateCheckpoint(r) \/ CheckoutDetached(r) \/ KillCommand(r)
      PROVE  GitInductive'
 BY <1>5, StageStep, CheckpointStep, CheckoutStep, KillStep
<1> QED BY <1>1, <1>2, <1>3, <1>4, <1>5 DEF GitNext

\* Going back in the history loses nothing that was in the tree, whoever works in
\* it meanwhile and whichever command is killed, and any number of switches may
\* cross (githistory/service.go:117-156).
THEOREM GitKept == GitSpec => []GitInvariant
<1>1. GitSpec => []GitInductive BY GitStart, GitSteps, PTL DEF GitSpec
<1> QED BY <1>1, GitKeep, PTL

----
\* The services together: a behaviour of MCServices is one of each of its
\* components, since the one on the scene moves and the others do not.

\* A behaviour of the services is one of the device sign-in.
LEMMA DeviceMoves == Spec => DeviceSpec
<1>1. Init => DeviceInit BY DEF Init
<1>2. [Next]_vars => [DeviceNext]_deviceVars BY DEF Next, vars, OffStage
<1> QED BY <1>1, <1>2, PTL DEF Spec, DeviceSpec

\* A behaviour of the services is one of the code sign-in.
LEMMA CodeMoves == Spec => CodeSpec
<1>1. Init => CodeInit BY DEF Init
<1>2. [Next]_vars => [CodeNext]_codeVars BY DEF Next, vars, OffStage
<1> QED BY <1>1, <1>2, PTL DEF Spec, CodeSpec

\* A behaviour of the services is one of the catalogue.
LEMMA CapabilityMoves == Spec => CapabilitySpec
<1>1. Init => CapabilityInit BY DEF Init
<1>2. [Next]_vars => [CapabilityNext]_capabilityVars BY DEF Next, vars, OffStage
<1> QED BY <1>1, <1>2, PTL DEF Spec, CapabilitySpec

\* A behaviour of the services is one of the key.
LEMMA KeyMoves == Spec => KeySpec
<1>1. Init => KeyInit BY DEF Init
<1>2. [Next]_vars => [KeyNext]_keyVars BY DEF Next, vars, OffStage
<1> QED BY <1>1, <1>2, PTL DEF Spec, KeySpec

\* A behaviour of the services is one of the update.
LEMMA UpdateMoves == Spec => UpdateSpec
<1>1. Init => UpdateInit BY DEF Init
<1>2. [Next]_vars => [UpdateNext]_selfUpdateVars BY DEF Next, vars, OffStage
<1> QED BY <1>1, <1>2, PTL DEF Spec, UpdateSpec

\* A behaviour of the services is one of the browser.
LEMMA BrowserMoves == Spec => BrowserSpec
<1>1. Init => BrowserInit BY DEF Init
<1>2. [Next]_vars => [BrowserNext]_browserVars BY DEF Next, vars, OffStage
<1> QED BY <1>1, <1>2, PTL DEF Spec, BrowserSpec

\* A behaviour of the services is one of the command line tool.
LEMMA ClisMoves == Spec => ClisSpec
<1>1. Init => ClisInit BY DEF Init
<1>2. [Next]_vars => [ClisNext]_cliVars BY DEF Next, vars, OffStage
<1> QED BY <1>1, <1>2, PTL DEF Spec, ClisSpec

\* A behaviour of the services is one of the credentials.
LEMMA CredMoves == Spec => CredSpec
<1>1. Init => CredInit BY DEF Init
<1>2. [Next]_vars => [CredNext]_credVars BY DEF Next, vars, OffStage
<1> QED BY <1>1, <1>2, PTL DEF Spec, CredSpec

\* A behaviour of the services is one of the base image.
LEMMA BuildMoves == Spec => BuildSpec
<1>1. Init => BuildInit BY DEF Init
<1>2. [Next]_vars => [BuildNext]_buildVars BY DEF Next, vars, OffStage
<1> QED BY <1>1, <1>2, PTL DEF Spec, BuildSpec

\* A behaviour of the services is one of the items.
LEMMA ItemsMoves == Spec => ItemsSpec
<1>1. Init => ItemsInit BY DEF Init
<1>2. [Next]_vars => [ItemsNext]_itemVars BY DEF Next, vars, OffStage
<1> QED BY <1>1, <1>2, PTL DEF Spec, ItemsSpec

\* A behaviour of the services is one of the turn.
LEMMA CodexMoves == Spec => CodexSpec
<1>1. Init => CodexInit BY DEF Init
<1>2. [Next]_vars => [CodexNext]_codexVars BY DEF Next, vars, OffStage
<1> QED BY <1>1, <1>2, PTL DEF Spec, CodexSpec

\* A behaviour of the services is one of the ledger.
LEMMA LedgerMoves == Spec => LedgerSpec
<1>1. Init => LedgerInit BY DEF Init
<1>2. [Next]_vars => [LedgerNext]_ledgerVars BY DEF Next, vars, OffStage
<1> QED BY <1>1, <1>2, PTL DEF Spec, LedgerSpec

\* A behaviour of the services is one of the git history.
LEMMA GitMoves == Spec => GitSpec
<1>1. Init => GitInit BY DEF Init
<1>2. [Next]_vars => [GitNext]_gitVars BY DEF Next, vars, OffStage
<1> QED BY <1>1, <1>2, PTL DEF Spec, GitSpec

\* SignInInvariant, whatever the tabs, administrators and processes: a person who
\* signs an agent in sees that sign-in and no other (service/agent/auth).
THEOREM SignInKept == Spec => []SignInInvariant
<1>1. (DeviceInvariant /\ FeedCurrent) /\ CodeInvariant /\ KeyInvariant => SignInInvariant BY DEF SignInInvariant
<1>2. Spec => KeySpec BY KeyMoves
<1> QED BY <1>1, <1>2, DeviceMoves, CodeMoves, DeviceKept, CodeKept, KeysSafe, PTL

\* DiscoveryShared, for any number of requests and editions of the catalogue
\* (service/agent/capability).
THEOREM DiscoveryKept == Spec => []DiscoveryShared
<1>1. CacheInvariant => DiscoveryShared BY DEF DiscoveryShared
<1> QED BY <1>1, CapabilityMoves, CacheKept, PTL

\* HostInvariant, for any releases, updaters, pages and starts (service/selfupdate,
\* service/agentbrowser).
THEOREM HostKept == Spec => []HostInvariant
<1>1. UpdateInvariant /\ BrowserInvariant => HostInvariant BY DEF HostInvariant
<1> QED BY <1>1, UpdateMoves, BrowserMoves, UpdateSafe, BrowserSafe, PTL

\* ProvisionInvariant, for any number of starts, versions, containers and builds
\* (agent/install, agent/credentials, the base image).
THEOREM ProvisionKept == Spec => []ProvisionInvariant
<1>1. ClisInvariant /\ CredInvariant /\ BuildInvariant => ProvisionInvariant BY DEF ProvisionInvariant
<1> QED BY <1>1, ClisMoves, CredMoves, BuildMoves, ClisKept, CredKept, BuildKept, PTL

\* TurnInvariant, for any turns, questions, subagents and items
\* (integration/agents/codexharness).
THEOREM TurnKept == Spec => []TurnInvariant
<1>1. CodexInvariant /\ ItemsInvariant => TurnInvariant BY DEF TurnInvariant
<1> QED BY <1>1, CodexMoves, ItemsMoves, TurnSettled, ItemsKept, PTL

\* HistoryKept, for any files, restores and length of history
\* (service/githistory).
THEOREM HistorySafe == Spec => []HistoryKept
<1>1. GitInvariant => HistoryKept BY DEF HistoryKept
<1> QED BY <1>1, GitMoves, GitKept, PTL

\* LedgerAddsUp, for any runs, chats, months and rebuilds (service/usage,
\* stores/fileusage).
THEOREM LedgerSound == Spec => []LedgerAddsUp
<1>1. LedgerInvariant => LedgerAddsUp BY DEF LedgerAddsUp
<1> QED BY <1>1, LedgerMoves, LedgerKept, PTL

\* NothingUndone: what was answered before stays answered, for any instance of the
\* catalogue, of a turn of codex and of the ledger.
THEOREM NothingIsUndone == Spec => NothingUndone
<1> QED BY CapabilityMoves, CodexMoves, LedgerMoves, CacheOnlyAdvances, EndIsLast, RepairsAll, PTL DEF NothingUndone
====
