---- MODULE CodexTurn ----
\* One turn of an agent that speaks the app-server protocol: the run of
\* integration/agents/codexharness over one command line process, and the
\* route of a chat's answers to it (service/prompt).
\*
\* The process is external: it replies to the client's requests, notifies,
\* asks, withdraws what it asked and ends the turn in any order, and may
\* die at any time.  What it writes waits in "stdout" (the pipe and the
\* scanner's channel) until the run loop reads it.  Ids of threads and
\* turns are abstracted to whether the client knows them; request ids
\* start again with every process.
EXTENDS Integers, Sequences, FiniteSets

CONSTANTS
  MaxTurns,       \* bound: prompts of the chat, one after the other
  Questions,      \* ids of the requests a process makes
  Subagents,      \* threads the process runs beside the turn's own
  Collaborations, \* ids of collaboration items
  PipeBound,      \* bound: envelopes that wait to be read
  AnswerCapacity  \* PromptInteractionResponseQueueCapacity

ASSUME CodexTurnAssumption ==
  /\ MaxTurns \in Nat /\ PipeBound \in Nat \ {0} /\ AnswerCapacity \in Nat \ {0}

VARIABLES
  turn,      \* number of the latest turn
  run,       \* appServerRun: phase, known ids, cancellation, terminal status
  asked,     \* requestHandler.pending
  tracker,   \* subagents.states: the status of each thread, "none" when absent
  opened,    \* openCollaborations
  stdout,    \* envelopes written by the process and not yet handled
  answers,   \* the responses channel of the chat's route
  server,    \* the process
  told,      \* what the transcript says of the turn
  card       \* card[t][q]: what it says of question q of turn t

codexVars == <<turn, run, asked, tracker, opened, stdout, answers, server, told, card>>

Turns == 1..MaxTurns
Endings == {"completed", "failed", "interrupted"}

\* isTerminalSubagentStatus.
Settled(status) == status \in Endings \cup {"turnEnded"}

NewRun == [at |-> "reading", thread |-> FALSE, turnId |-> FALSE, cancelled |-> FALSE,
           cancelRequested |-> FALSE, interruptSent |-> FALSE, interruptTimer |-> FALSE,
           terminal |-> "none"]

\* todo: the client's requests that wait for a reply; got[q]: the turns whose
\* cards the answers to q were given on.
NewServer == [alive |-> TRUE, todo |-> {"initialize"}, turn |-> "none",
              awaits |-> {}, asks |-> {}, got |-> [q \in Questions |-> <<>>]]

NothingTold == [terminal |-> "none",
                subagent |-> [s \in Subagents |-> "none"],
                collaboration |-> [c \in Collaborations |-> "none"]]

CodexInit ==
  /\ turn = 0
  /\ run = [NewRun EXCEPT !.at = "over"]
  /\ asked = {}
  /\ tracker = [s \in Subagents |-> "none"]
  /\ opened = {}
  /\ stdout = <<>>
  /\ answers = <<>>
  /\ server = [NewServer EXCEPT !.alive = FALSE, !.todo = {}]
  /\ told = NothingTold
  /\ card = [t \in Turns |-> [q \in Questions |-> "none"]]

----
\* What the run tells, and how it ends.

\* Finalize: every subagent that is not settled is given a last status.
LastStatus(status, rootStatus) ==
  IF Settled(status) \/ status = "none" THEN status
  ELSE IF rootStatus # "completed" THEN rootStatus
  ELSE IF status = "idle" THEN "completed" ELSE "turnEnded"

\* Mutant: only the terminal event.
FinalWord_Slip(ending) ==
  /\ told' = [told EXCEPT !.terminal = ending]
  /\ UNCHANGED <<tracker, opened>>

\* finalizeTerminal, or finish of a run without a terminal event: subagents and
\* collaborations first, the terminal event last.
FinalWord(ending) ==
  LET rootStatus == IF ending = "none" THEN "failed" ELSE ending
  IN /\ told' = [terminal |-> ending,
                 subagent |-> [s \in Subagents |->
                   IF Settled(tracker[s]) THEN told.subagent[s]
                   ELSE LastStatus(tracker[s], rootStatus)],
                 collaboration |-> [c \in Collaborations |->
                   IF c \in opened THEN "done" ELSE told.collaboration[c]]]
     /\ tracker' = [s \in Subagents |-> LastStatus(tracker[s], rootStatus)]
     /\ opened' = {}

\* The loop returns and finish runs; the route of the answers goes with the run.
Over(ending) ==
  /\ FinalWord(ending)
  /\ run' = [run EXCEPT !.at = "over"]
  /\ server' = [server EXCEPT !.alive = FALSE]
  /\ stdout' = <<>> /\ answers' = <<>>
  /\ UNCHANGED turn

\* protocolErr: the process is killed, the run fails, what is asked stays asked.
BreakOff == Over("none") /\ UNCHANGED <<asked, card>>

Reading == run.at = "reading"
Ended == run.terminal # "none"
MustInterrupt(r) == r.cancelRequested /\ ~r.interruptSent /\ r.thread /\ r.turnId

\* maybeInterrupt can be written, or need not; a process that is gone takes
\* nothing.
Writable(r) == MustInterrupt(r) => server.alive

\* maybeInterrupt, and the timer the loop starts after it.
Interrupted(r) ==
  IF MustInterrupt(r) THEN [r EXCEPT !.interruptSent = TRUE, !.interruptTimer = TRUE] ELSE r

Interrupt(r) ==
  /\ Writable(r)
  /\ run' = Interrupted(r)
  /\ server' = IF MustInterrupt(r) THEN [server EXCEPT !.todo = @ \cup {"interrupt"}] ELSE server

\* Every envelope of the turn's own thread carries its ids once it has begun.
IdsKnown == [run EXCEPT !.thread = TRUE, !.turnId = TRUE]

NextIs(kind) == Reading /\ stdout # <<>> /\ Head(stdout).kind = kind
Take == stdout' = Tail(stdout)

----
\* The run loop: envelopes.

\* handleEnvelope, responseError: a refused request, or a reply that lacks what
\* it must name.
ReplyRefused ==
  /\ NextIs("reply") /\ ~Ended /\ ~Head(stdout).ok
  /\ BreakOff

\* handleResponse: the next request of the handshake.
ReplyHandshake ==
  LET method == Head(stdout).to
      request == IF method = "initialize" THEN "thread" ELSE "turn"
  IN /\ NextIs("reply") /\ ~Ended /\ Head(stdout).ok /\ method \in {"initialize", "thread"}
     /\ IF ~server.alive THEN BreakOff
        ELSE /\ Take
             /\ run' = [run EXCEPT !.thread = @ \/ method = "thread"]
             /\ server' = [server EXCEPT !.todo = @ \cup {request}]
             /\ UNCHANGED <<turn, asked, tracker, opened, answers, told, card>>

\* The reply to turn/start names the turn.
ReplyTurn ==
  LET known == [run EXCEPT !.turnId = TRUE]
  IN /\ NextIs("reply") /\ ~Ended /\ Head(stdout).ok /\ Head(stdout).to = "turn"
     /\ IF ~Writable(known) THEN BreakOff
        ELSE /\ Take /\ Interrupt(known)
             /\ UNCHANGED <<turn, asked, tracker, opened, answers, told, card>>

\* The acknowledgement of an interrupt ends nothing; after the terminal event
\* neither replies nor requests are looked at.
Ignore ==
  /\ \/ NextIs("reply") /\ Head(stdout).ok /\ Head(stdout).to = "interrupt"
     \/ (NextIs("reply") \/ NextIs("request")) /\ Ended
  /\ Take
  /\ UNCHANGED <<turn, run, asked, tracker, opened, answers, server, told, card>>

\* requestHandler.Handle: the question is kept and told.
ReadRequest ==
  LET q == Head(stdout).id
  IN /\ NextIs("request") /\ ~Ended
     /\ card' = [card EXCEPT ![turn][q] = "pending"]
     /\ asked' = asked \cup {q}
     /\ IF ~Writable(IdsKnown) THEN Over("none")
        ELSE /\ Take /\ Interrupt(IdsKnown)
             /\ UNCHANGED <<turn, tracker, opened, answers, told>>

\* requestHandler.Resolve, before the notification is handled like any other.
Withdrawn ==
  IF stdout # <<>> /\ Head(stdout).kind = "resolved" /\ ~Ended THEN asked \cap {Head(stdout).id} ELSE {}

Resolve ==
  /\ asked' = asked \ Withdrawn
  /\ card' = [card EXCEPT ![turn] = [q \in Questions |->
                                      IF q \in Withdrawn THEN "resolved" ELSE @[q]]]

\* A notification of the turn's own thread makes its ids known; an interrupt
\* that waited for them and cannot be written ends the run.
NoteTooLate ==
  /\ Reading /\ ~Ended /\ stdout # <<>>
  /\ Head(stdout).kind \in {"note", "resolved", "collaboration", "turnCompleted"}
  /\ ~Writable(IdsKnown)
  /\ Resolve
  /\ Over("none")

ReadNote ==
  /\ NextIs("note") \/ NextIs("resolved")
  /\ Take /\ Interrupt(IdsKnown) /\ Resolve
  /\ UNCHANGED <<turn, tracker, opened, answers, told>>

\* trackCollaboration.
ReadCollaboration ==
  LET c == Head(stdout).id
      done == Head(stdout).done
  IN /\ NextIs("collaboration")
     /\ Take /\ Interrupt(IdsKnown)
     /\ opened' = IF done THEN opened \ {c} ELSE opened \cup {c}
     /\ told' = [told EXCEPT !.collaboration[c] = IF done THEN "done" ELSE "open"]
     /\ UNCHANGED <<turn, asked, tracker, answers, card>>

\* A notification of another thread: ParseNotification of the tracker.  A kind
\* it does not know creates the state and is told as it is.
SubagentStatus(status, report) ==
  CASE report = "unknown" -> IF status = "none" THEN "inProgress" ELSE status
    [] report = "idle" -> IF Settled(status) THEN status ELSE "idle"
    [] OTHER -> report

ReadSubagent ==
  LET s == Head(stdout).id
      report == Head(stdout).status
      status == SubagentStatus(tracker[s], report)
  IN /\ NextIs("subagent")
     /\ Take
     /\ tracker' = [tracker EXCEPT ![s] = status]
     /\ told' = IF report = "unknown" THEN told ELSE [told EXCEPT !.subagent[s] = status]
     /\ UNCHANGED <<turn, run, asked, opened, answers, server, card>>

\* beginTerminal: the first terminal event ends the turn and closes the input;
\* it is kept back until what follows it has been drained.
ReadTurnCompleted ==
  /\ NextIs("turnCompleted") /\ Writable(IdsKnown)
  /\ Take
  /\ run' = IF Ended THEN run ELSE [Interrupted(IdsKnown) EXCEPT !.terminal = Head(stdout).status]
  /\ asked' = {}
  /\ card' = [card EXCEPT ![turn] = [q \in Questions |-> IF q \in asked THEN "resolved" ELSE @[q]]]
  /\ UNCHANGED <<turn, tracker, opened, answers, server, told>>

\* The process is gone and its output is read.
ReadEnd ==
  /\ Reading /\ stdout = <<>> /\ ~server.alive
  /\ Over(run.terminal)
  /\ UNCHANGED <<asked, card>>

\* A line longer than the scanner's buffer.  Before the terminal event it ends
\* the run.  After it the process is not killed: finish waits for it to exit,
\* and nobody reads what it still writes.
ReadError ==
  /\ NextIs("error")
  /\ IF ~Ended \/ ~server.alive THEN Over(run.terminal)
     ELSE /\ FinalWord(run.terminal)
          /\ run' = [run EXCEPT !.at = "waiting"]
          /\ UNCHANGED <<turn, stdout, answers, server>>
  /\ UNCHANGED <<asked, card>>

Waited ==
  /\ run.at = "waiting" /\ ~server.alive
  /\ run' = [run EXCEPT !.at = "over"]
  /\ stdout' = <<>> /\ answers' = <<>>
  /\ UNCHANGED <<turn, asked, tracker, opened, server, told, card>>

----
\* The run loop: answers, cancellation, timers.

\* Mutant: answers are taken after the turn's end as well.
Respond_Slip ==
  LET answer == Head(answers)
      q == answer.id
  IN /\ run.at # "over" /\ answers # <<>>
     /\ IF q \in asked /\ server.alive
        THEN /\ answers' = Tail(answers)
             /\ asked' = asked \ {q}
             /\ server' = [server EXCEPT !.got[q] = Append(@, answer.turn), !.awaits = @ \ {q}]
             /\ card' = [card EXCEPT ![turn][q] = "resolved"]
             /\ UNCHANGED <<turn, run, tracker, opened, stdout, told>>
        ELSE BreakOff

\* requestHandler.Respond: an answer to a question that is not pending, or that
\* cannot be written, ends the run.
Respond ==
  LET answer == Head(answers)
      q == answer.id
  IN /\ Reading /\ ~Ended /\ answers # <<>>
     /\ IF q \in asked /\ server.alive
        THEN /\ answers' = Tail(answers)
             /\ asked' = asked \ {q}
             /\ server' = [server EXCEPT !.got[q] = Append(@, answer.turn), !.awaits = @ \ {q}]
             /\ card' = [card EXCEPT ![turn][q] = "resolved"]
             /\ UNCHANGED <<turn, run, tracker, opened, stdout, told>>
        ELSE BreakOff

CtxDone ==
  LET r == [run EXCEPT !.cancelRequested = TRUE]
  IN /\ Reading /\ ~Ended /\ run.cancelled /\ ~run.cancelRequested
     /\ IF ~Writable(r) THEN BreakOff
        ELSE /\ Interrupt(r)
             /\ UNCHANGED <<turn, asked, tracker, opened, stdout, answers, told, card>>

InterruptTimeout ==
  /\ Reading /\ ~Ended /\ run.interruptTimer
  /\ BreakOff

DrainTimeout ==
  /\ Reading /\ Ended
  /\ Over(run.terminal)
  /\ UNCHANGED <<asked, card>>

----
\* The chat: a prompt is started, cancelled, and its questions answered.

\* prompt.Service.Start and execute; the process may be gone before it can be
\* written to.
StartTurn ==
  /\ run.at = "over" /\ turn < MaxTurns
  /\ turn' = turn + 1
  /\ told' = NothingTold
  /\ tracker' = [s \in Subagents |-> "none"]
  /\ asked' = {} /\ opened' = {} /\ stdout' = <<>> /\ answers' = <<>>
  /\ \/ run' = NewRun /\ server' = NewServer
     \/ /\ run' = [NewRun EXCEPT !.at = "over"]
        /\ server' = [NewServer EXCEPT !.alive = FALSE, !.todo = {}]
  /\ UNCHANGED card

Cancel ==
  /\ Reading /\ ~run.cancelled
  /\ run' = [run EXCEPT !.cancelled = TRUE]
  /\ UNCHANGED <<turn, asked, tracker, opened, stdout, answers, server, told, card>>

\* RespondInteraction, from any page and for any card that is shown as pending.
Answer(t, q) ==
  /\ run.at # "over" /\ card[t][q] = "pending"
  /\ Len(answers) < AnswerCapacity
  /\ answers' = Append(answers, [id |-> q, turn |-> t])
  /\ UNCHANGED <<turn, run, asked, tracker, opened, stdout, server, told, card>>

----
\* The process.

Writes(envelope) ==
  /\ server.alive /\ Reading /\ Len(stdout) < PipeBound
  /\ stdout' = Append(stdout, envelope)
  /\ UNCHANGED <<turn, run, asked, tracker, opened, answers, told, card>>

ServerRunning == server.turn = "running"

Reply(method) ==
  /\ method \in server.todo
  /\ \E ok \in BOOLEAN :
       /\ method = "turn" /\ ServerRunning => ok
       /\ Writes([kind |-> "reply", to |-> method, ok |-> ok])
       /\ server' = [server EXCEPT !.todo = @ \ {method},
                                   !.turn = IF method = "turn" /\ ok /\ @ = "none"
                                            THEN "running" ELSE @]

\* The turn may begin before its request is answered.
BeginTurn ==
  /\ "turn" \in server.todo /\ server.turn = "none"
  /\ Writes([kind |-> "note"])
  /\ server' = [server EXCEPT !.turn = "running"]

\* Every request has an id of its own.
Ask(q) ==
  /\ ServerRunning /\ q \notin server.asks
  /\ Writes([kind |-> "request", id |-> q])
  /\ server' = [server EXCEPT !.asks = @ \cup {q}, !.awaits = @ \cup {q}]

\* The request resolves itself (a deadline, another decision).
Withdraw(q) ==
  /\ q \in server.awaits
  /\ Writes([kind |-> "resolved", id |-> q])
  /\ server' = [server EXCEPT !.awaits = @ \ {q}]

\* Activity of other threads and collaborations; also right after the turn.
ReportSubagent(s, status) ==
  /\ server.turn # "none"
  /\ Writes([kind |-> "subagent", id |-> s, status |-> status])
  /\ UNCHANGED server

ReportCollaboration(c, done) ==
  /\ server.turn # "none"
  /\ Writes([kind |-> "collaboration", id |-> c, done |-> done])
  /\ UNCHANGED server

EndTurn(status) ==
  /\ ServerRunning
  /\ Writes([kind |-> "turnCompleted", status |-> status])
  /\ server' = [server EXCEPT !.turn = "ended", !.awaits = {}]

Garble ==
  /\ Writes([kind |-> "error"])
  /\ UNCHANGED server

Die ==
  /\ server.alive
  /\ server' = [server EXCEPT !.alive = FALSE]
  /\ UNCHANGED <<turn, run, asked, tracker, opened, stdout, answers, told, card>>

----
Loop ==
  \/ ReplyRefused \/ ReplyHandshake \/ ReplyTurn \/ Ignore \/ ReadRequest
  \/ NoteTooLate \/ ReadNote \/ ReadCollaboration \/ ReadSubagent
  \/ ReadTurnCompleted \/ ReadEnd \/ ReadError

CodexNext ==
  \/ Loop \/ Waited \/ Respond \/ CtxDone \/ InterruptTimeout \/ DrainTimeout
  \/ StartTurn \/ Cancel \/ \E t \in Turns, q \in Questions : Answer(t, q)
  \/ \E method \in {"initialize", "thread", "turn", "interrupt"} : Reply(method)
  \/ BeginTurn \/ Garble \/ Die
  \/ \E q \in Questions : Ask(q) \/ Withdraw(q)
  \/ \E s \in Subagents, status \in {"unknown", "idle", "inProgress"} \cup Endings :
       ReportSubagent(s, status)
  \/ \E c \in Collaborations, done \in BOOLEAN : ReportCollaboration(c, done)
  \/ \E status \in Endings : EndTurn(status)

CodexSpec == CodexInit /\ [][CodexNext]_codexVars

\* The loop runs and its timers fire; of the process only that it answers the
\* three requests before a turn: no timer of the client covers them.
CodexFairness ==
  /\ WF_codexVars(Loop) /\ WF_codexVars(CtxDone)
  /\ WF_codexVars(InterruptTimeout) /\ WF_codexVars(DrainTimeout)
  /\ \A method \in {"initialize", "thread", "turn"} : WF_codexVars(Reply(method))

----
\* Properties

CodexTypeOK ==
  /\ turn \in 0..MaxTurns
  /\ run \in [at : {"reading", "waiting", "over"}, thread : BOOLEAN, turnId : BOOLEAN,
              cancelled : BOOLEAN, cancelRequested : BOOLEAN, interruptSent : BOOLEAN,
              interruptTimer : BOOLEAN, terminal : {"none"} \cup Endings]
  /\ asked \subseteq Questions
  /\ tracker \in [Subagents -> {"none", "inProgress", "idle", "turnEnded"} \cup Endings]
  /\ opened \subseteq Collaborations
  /\ Len(stdout) <= PipeBound
  /\ answers \in Seq([id : Questions, turn : Turns]) /\ Len(answers) <= AnswerCapacity
  /\ server.alive \in BOOLEAN /\ server.turn \in {"none", "running", "ended"}
  /\ server.todo \subseteq {"initialize", "thread", "turn", "interrupt"}
  /\ server.awaits \subseteq server.asks /\ server.asks \subseteq Questions
  /\ told \in [terminal : {"none"} \cup Endings,
               subagent : [Subagents -> {"none", "inProgress", "idle", "turnEnded"} \cup Endings],
               collaboration : [Collaborations -> {"none", "open", "done"}]]
  /\ card \in [Turns -> [Questions -> {"none", "pending", "resolved"}]]

\* When a run is over nothing it told of is left in the air, however it ended:
\* every subagent has a last status and every collaboration an end, and if the
\* turn itself ended no decision card is left to answer.
SettledAtEnd ==
  run.at = "over" =>
    /\ \A s \in Subagents : told.subagent[s] = "none" \/ Settled(told.subagent[s])
    /\ \A c \in Collaborations : told.collaboration[c] # "open"
    /\ told.terminal # "none" => \A q \in Questions : card[turn][q] # "pending"

\* The terminal event is the last thing told of a turn: what the process flushes
\* after it comes before it.
TerminalIsLast ==
  [][told.terminal # "none" /\ turn' = turn => UNCHANGED <<told, card>>]_codexVars

\* Only the turn's own end is told as its end: neither a subagent's, nor the
\* acknowledgement of an interrupt, nor the death of the process.
TerminalIsAuthoritative ==
  run.terminal # "none" \/ told.terminal # "none" => server.turn = "ended"

\* A process is given at most one answer to a request, and only to one it made.
AnsweredOnce ==
  \A q \in Questions : /\ Len(server.got[q]) <= 1
                       /\ server.got[q] # <<>> => q \in server.asks

CodexInvariant == CodexTypeOK /\ SettledAtEnd /\ TerminalIsAuthoritative /\ AnsweredOnce

\* A cancellation ends the turn, wherever it meets the handshake, the turn or
\* its end, and whatever the process does once the turn has begun.
CancelEnds == run.cancelled /\ Reading ~> ~Reading

\* A turn that has ended is told to have ended, even if its process goes on
\* writing.
EndIsTold == Ended ~> told.terminal # "none" \/ run.at = "over"

\* A response for an unknown id is rejected (docs/dev/agents/
\* 08-codex-app-server-architecture.md:236), which leaves the run as it is.
AnswerSparesRun ==
  [][answers # <<>> /\ Head(answers).id \notin asked /\ server.alive /\ answers' # answers
       => run'.at = run.at \/ Ended]_codexVars

\* A request is correlated with its own response (the table of the same
\* document, line 131): an answer never reaches the request of another turn.
AnswerReachesItsRequest ==
  \A q \in Questions : \A i \in DOMAIN server.got[q] : server.got[q][i] = turn
====
