---- MODULE AgentKeys ----
\* The API key of a provider that signs in with one: APIKeyService of
\* service/agent/auth/api_key.go behind agent_auth_handler.go, the key
\* file of stores/fileauth, and the status that agent_auth_socket.go
\* streams to the tabs (useAgentAuthRegistry.ts).
\*
\* Requests run in goroutines of their own; mutationMu lets one of them
\* change the key at a time, mu guards the key and the subscriptions.  A
\* status is a Boolean: is there a key.  A tab has one request at a time.
EXTENDS Naturals, Sequences

CONSTANTS
  KeyTabs,       \* tabs of administrators
  Genuine,       \* keys the provider accepts
  Refused,       \* keys it does not, or not any longer
  Fitting,       \* keys of the class the provider's module supports
  NoKey,         \* key = ""
  NoTab,         \* mutationMu is free
  KeyBuffer,     \* subscriptionBuffer
  MaxKeyCalls,   \* bound on the requests
  MaxKeyFaults   \* bound on crashes, broken connections and failed writes

ASSUME KeyAssumption ==
  /\ Genuine \subseteq Fitting /\ Refused \cap Genuine = {} /\ NoKey \notin Genuine \cup Refused
  /\ KeyBuffer \in Nat \ {0} /\ NoTab \notin KeyTabs

VARIABLES
  filed,      \* the provider's entry of the key file
  key,        \* s.key: what runs are given
  mutating,   \* the tab whose request holds mutationMu
  keyRequest,  \* request[t]: [at, key], NoKey to delete
  reply,      \* reply[t]: the statuses of answers on their way
  link,       \* link[t]: the tab's subscription, "off", "joining", "on" or "closed"
  initial,    \* initial[t]: the status a joining subscription is still to be sent
  backlog,    \* backlog[t]: its channel
  stream,     \* stream[t]: the statuses written to its connection
  showing,    \* showing[t]: what the tab shows
  overtaken,  \* overtaken[t]: what it shows is an answer that later news had overtaken
  keyCalls, keyFaults

mutationVars == <<filed, key, mutating, keyRequest>>
tabVars == <<link, initial, backlog, stream>>
keyVars == <<mutationVars, reply, tabVars, showing, overtaken, keyCalls, keyFaults>>

Keys == Genuine \cup Refused \cup {NoKey}
Resting == [at |-> "rest", key |-> NoKey]
KeyStatus == key # NoKey

\* A key of a class that is no longer supported is read as it is.
Usable_Slip(k) == k

\* NewAPIKeyService: a stored key that the provider's format refuses is not used.
Usable(k) == IF k \in Fitting THEN k ELSE NoKey

----
\* Changing the key.

\* handleAPIKey: an administrator's; a blank key is refused without more.
AskKey(t) ==
  /\ keyCalls < MaxKeyCalls /\ keyRequest[t] = Resting
  /\ keyCalls' = keyCalls + 1
  /\ \E k \in Keys : keyRequest' = [keyRequest EXCEPT ![t] = [at |-> "ask", key |-> k]]
  /\ UNCHANGED <<filed, key, mutating, reply, tabVars, showing, overtaken, keyFaults>>

HoldMutation(t) ==
  /\ mutating = NoTab /\ keyRequest[t].at = "ask"
  /\ mutating' = t
  /\ keyRequest' = [keyRequest EXCEPT ![t].at = IF keyRequest[t].key = NoKey THEN "save" ELSE "validate"]
  /\ UNCHANGED <<filed, key, reply, tabVars, showing, overtaken, keyCalls, keyFaults>>

\* The request ends in an error and changes nothing.
GiveUp(t) ==
  /\ mutating' = NoTab
  /\ keyRequest' = [keyRequest EXCEPT ![t] = Resting]
  /\ UNCHANGED <<filed, key, reply, tabVars, showing, overtaken, keyCalls>>

\* The provider was not asked.
ValidateKey_Slip(t) ==
  /\ keyRequest[t].at = "validate"
  /\ keyRequest' = [keyRequest EXCEPT ![t].at = "save"]
  /\ UNCHANGED <<filed, key, mutating, reply, tabVars, showing, overtaken, keyCalls, keyFaults>>

\* The format, and then the provider, which may be out of reach.
ValidateKey(t) ==
  /\ keyRequest[t].at = "validate"
  /\ \/ GiveUp(t) /\ UNCHANGED keyFaults
     \/ /\ keyRequest[t].key \in Genuine
        /\ keyRequest' = [keyRequest EXCEPT ![t].at = "save"]
        /\ UNCHANGED <<filed, key, mutating, reply, tabVars, showing, overtaken, keyCalls, keyFaults>>

\* The key file is replaced as a whole, or not at all.
SaveKey(t) ==
  /\ keyRequest[t].at = "save"
  /\ \/ /\ filed' = keyRequest[t].key
        /\ keyRequest' = [keyRequest EXCEPT ![t].at = "publish"]
        /\ UNCHANGED <<key, mutating, reply, tabVars, showing, overtaken, keyCalls, keyFaults>>
     \/ /\ keyFaults < MaxKeyFaults /\ keyFaults' = keyFaults + 1
        /\ GiveUp(t)

\* broadcastLocked: a subscriber whose channel is full is dropped.
Broadcast(status) ==
  LET full == {u \in KeyTabs : Len(backlog[u]) = KeyBuffer}
      subscribed == {u \in KeyTabs : link[u] \in {"joining", "on"}}
  IN /\ backlog' = [u \in KeyTabs |->
                      IF u \in subscribed \ full THEN Append(backlog[u], status) ELSE backlog[u]]
     /\ link' = [u \in KeyTabs |-> IF u \in subscribed \cap full THEN
                                     (IF link[u] = "on" THEN "closed" ELSE "off") ELSE link[u]]

\* The key is used and announced; mutationMu is released.
PublishKey(t) ==
  /\ keyRequest[t].at = "publish"
  /\ key' = keyRequest[t].key
  /\ Broadcast(key' # NoKey)
  /\ mutating' = NoTab
  /\ keyRequest' = [keyRequest EXCEPT ![t] = [at |-> "answer", key |-> NoKey]]
  /\ UNCHANGED <<filed, reply, initial, stream, showing, overtaken, keyCalls, keyFaults>>

\* The answer is a snapshot of its own.
AnswerKey(t) ==
  /\ keyRequest[t].at = "answer"
  /\ reply' = [reply EXCEPT ![t] = Append(@, KeyStatus)]
  /\ keyRequest' = [keyRequest EXCEPT ![t] = Resting]
  /\ UNCHANGED <<filed, key, mutating, tabVars, showing, overtaken, keyCalls, keyFaults>>

\* saveAPIKey and deleteAPIKey show the answer whatever the stream has said since.
TakeReply(t) ==
  /\ reply[t] # <<>>
  /\ showing' = [showing EXCEPT ![t] = Head(reply[t])]
  /\ overtaken' = [overtaken EXCEPT ![t] = Head(reply[t]) # KeyStatus]
  /\ reply' = [reply EXCEPT ![t] = Tail(@)]
  /\ UNCHANGED <<mutationVars, tabVars, keyCalls, keyFaults>>

----
\* The stream.

\* Registered and read under mu ...
JoinStream(t) ==
  /\ link[t] = "off"
  /\ link' = [link EXCEPT ![t] = "joining"]
  /\ initial' = [initial EXCEPT ![t] = KeyStatus]
  /\ backlog' = [backlog EXCEPT ![t] = <<>>] /\ stream' = [stream EXCEPT ![t] = <<>>]
  /\ UNCHANGED <<mutationVars, reply, showing, overtaken, keyCalls, keyFaults>>

\* ... and sent after it was released.
SendInitial(t) ==
  /\ link[t] = "joining" /\ Len(backlog[t]) < KeyBuffer
  /\ link' = [link EXCEPT ![t] = "on"]
  /\ backlog' = [backlog EXCEPT ![t] = Append(@, initial[t])]
  /\ UNCHANGED <<mutationVars, reply, initial, stream, showing, overtaken, keyCalls, keyFaults>>

\* Subscription.Next: what was sent before the channel was closed still comes.
TakeFromChannel(t) ==
  /\ link[t] \in {"on", "closed"} /\ backlog[t] # <<>>
  /\ backlog' = [backlog EXCEPT ![t] = Tail(@)]

\* What was announced is written, as it was when it was announced.
WriteStatus_Slip(t) ==
  /\ TakeFromChannel(t)
  /\ stream' = [stream EXCEPT ![t] = Append(@, Head(backlog[t]))]
  /\ UNCHANGED <<mutationVars, reply, link, initial, showing, overtaken, keyCalls, keyFaults>>

\* SubscribeSnapshots: each announcement makes the writer look for itself.
WriteStatus(t) ==
  /\ TakeFromChannel(t)
  /\ stream' = [stream EXCEPT ![t] = Append(@, KeyStatus)]
  /\ UNCHANGED <<mutationVars, reply, link, initial, showing, overtaken, keyCalls, keyFaults>>

\* A closed channel ends the connection once it has been read to its end.
EndStream(t) ==
  /\ link[t] = "closed" /\ backlog[t] = <<>> /\ stream[t] = <<>>
  /\ link' = [link EXCEPT ![t] = "off"]
  /\ UNCHANGED <<mutationVars, reply, initial, backlog, stream, showing, overtaken, keyCalls, keyFaults>>

TakeStatus(t) ==
  /\ stream[t] # <<>>
  /\ showing' = [showing EXCEPT ![t] = Head(stream[t])]
  /\ overtaken' = [overtaken EXCEPT ![t] = FALSE]
  /\ stream' = [stream EXCEPT ![t] = Tail(@)]
  /\ UNCHANGED <<mutationVars, reply, link, initial, backlog, keyCalls, keyFaults>>

----
\* Failures.

KeyFault == keyFaults < MaxKeyFaults /\ keyFaults' = keyFaults + 1

BreakStream(t) ==
  /\ KeyFault /\ link[t] # "off"
  /\ link' = [link EXCEPT ![t] = "off"]
  /\ backlog' = [backlog EXCEPT ![t] = <<>>] /\ stream' = [stream EXCEPT ![t] = <<>>]
  /\ UNCHANGED <<mutationVars, reply, initial, showing, overtaken, keyCalls>>

StartKeys == key' = Usable(filed)

\* The process starts again with what is in the file.
RestartKeys ==
  /\ KeyFault
  /\ StartKeys
  /\ mutating' = NoTab
  /\ keyRequest' = [t \in KeyTabs |-> Resting]
  /\ link' = [t \in KeyTabs |-> "off"]
  /\ backlog' = [t \in KeyTabs |-> <<>>] /\ stream' = [t \in KeyTabs |-> <<>>]
  /\ UNCHANGED <<filed, reply, initial, showing, overtaken, keyCalls>>

----
\* The file holds no key, or one of a class that went out of support.
KeyInit ==
  /\ filed \in (Refused \ Fitting) \cup {NoKey} /\ key = Usable(filed)
  /\ mutating = NoTab /\ keyRequest = [t \in KeyTabs |-> Resting]
  /\ reply = [t \in KeyTabs |-> <<>>]
  /\ link = [t \in KeyTabs |-> "off"] /\ initial = [t \in KeyTabs |-> FALSE]
  /\ backlog = [t \in KeyTabs |-> <<>>] /\ stream = [t \in KeyTabs |-> <<>>]
  /\ showing = [t \in KeyTabs |-> FALSE] /\ overtaken = [t \in KeyTabs |-> FALSE]
  /\ keyCalls = 0 /\ keyFaults = 0

KeyNext ==
  \/ \E t \in KeyTabs :
       \/ AskKey(t) \/ HoldMutation(t) \/ ValidateKey(t) \/ SaveKey(t) \/ PublishKey(t)
       \/ AnswerKey(t) \/ TakeReply(t)
       \/ JoinStream(t) \/ SendInitial(t) \/ WriteStatus(t) \/ EndStream(t) \/ TakeStatus(t)
       \/ BreakStream(t)
  \/ RestartKeys

KeySpec == KeyInit /\ [][KeyNext]_keyVars

----
KeyTypeOK ==
  /\ filed \in Keys /\ key \in Keys /\ mutating \in KeyTabs \cup {NoTab}
  /\ \A t \in KeyTabs :
       /\ keyRequest[t].at \in {"rest", "ask", "validate", "save", "publish", "answer"}
       /\ link[t] \in {"off", "joining", "on", "closed"}
       /\ Len(backlog[t]) <= KeyBuffer

\* Runs are given the key that the file holds and a restart would read, but for
\* the moment in which one request is between the two.
RunsUseTheFile ==
  key = Usable(filed) \/ (mutating # NoTab /\ keyRequest[mutating].at = "publish")

\* A key the provider was never seen to accept is never given to a run, and one
\* of a class that went out of support is not even after a restart.
NoneUnacceptedUsed == key \in Genuine \cup {NoKey}

\* A tab that has been sent all there was shows whether there is a key, unless
\* the answer to a request of its own came after the news of a later change.
ShowsTheKey ==
  \A t \in KeyTabs :
    (link[t] = "on" /\ backlog[t] = <<>> /\ stream[t] = <<>> /\ ~overtaken[t]) =>
      (showing[t] = KeyStatus \/ reply[t] # <<>>)

KeyInvariant == KeyTypeOK /\ RunsUseTheFile /\ NoneUnacceptedUsed /\ ShowsTheKey
====
