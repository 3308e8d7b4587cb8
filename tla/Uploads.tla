---- MODULE Uploads ----
\* Attachments of a prompt: the composer of one chat
\* (useAttachmentUpload.ts, useChatComposerController.ts), the resumable
\* upload of each file (tusUpload.ts, and tusd behind upload_tus.go), and
\* the consumer that moves a complete file into the workspace
\* (UploadHandler.finalize).
\*
\* A file is UploadPieces chunks.  tus-js-client, tusd and its file store
\* are external: what is modelled of them is the protocol that the code
\* configures, with no locker.
EXTENDS Naturals, Sequences

CONSTANTS
  Attachments,     \* files a user may attach; each has a storage name of its own
  UploadPieces,    \* chunks of a file
  MaxUploadFaults  \* bound on dropped connections, failures and restarts

ASSUME UploadsAssumption == UploadPieces \in Nat \ {0}

VARIABLES
  chip,        \* composer: none, uploading, done (it has a serverPath), failed, gone
  handles,     \* handlesRef: the uploads that a removal aborts
  batches,     \* doUpload calls under way: batch -> promises not resolved
  uploading,   \* the state that holds Send back
  acked,       \* chunks the client knows to be stored
  wire,        \* the client's request: none, create, idle, sending, stored, answer, lost, terminate
  late,        \* a chunk of a dropped request that the server still has to read
  blob,        \* server: chunks in the temporary file, NoBlob when there is none
  events,      \* complete uploads whose event the consumer has not taken
  finalizing,  \* events the consumer has taken, none or one
  landed,      \* .uploads of the workspace: file -> its chunks
  promised,    \* files whose path a sent prompt names
  uploadFaults,
  uploadsCrossed,  \* history: a request and the rest of a dropped one overlapped
  spoiled,     \* history: moving the file failed, or its event died with the server
  leftBehind   \* history: files a prompt was sent without, while they uploaded

composerVars == <<chip, handles, batches, uploading, promised, leftBehind>>
serverVars == <<blob, events, finalizing, landed, spoiled>>
uploadVars == <<composerVars, serverVars, acked, wire, late, uploadFaults, uploadsCrossed>>

NoBlob == <<0>>
Whole == [i \in 1..UploadPieces |-> i]
UploadFault == uploadFaults < MaxUploadFaults /\ uploadFaults' = uploadFaults + 1

UploadsInit ==
  /\ chip = [f \in Attachments |-> "none"] /\ handles = {}
  /\ batches = <<>> /\ uploading = FALSE
  /\ acked = [f \in Attachments |-> 0] /\ wire = [f \in Attachments |-> "none"]
  /\ late = [f \in Attachments |-> 0]
  /\ blob = [f \in Attachments |-> NoBlob] /\ events = {} /\ finalizing = {}
  /\ landed = [f \in Attachments |-> NoBlob]
  /\ promised = {} /\ uploadFaults = 0
  /\ uploadsCrossed = {} /\ spoiled = {} /\ leftBehind = {}

----
\* The composer.

\* doUpload: by button, paste or drop; only the button waits for the last one.
DoUpload(files) ==
  /\ files # {} /\ \A f \in files : chip[f] = "none"
  /\ chip' = [f \in Attachments |-> IF f \in files THEN "uploading" ELSE chip[f]]
  /\ handles' = handles \cup files
  /\ batches' = Append(batches, files) /\ uploading' = TRUE
  /\ wire' = [f \in Attachments |-> IF f \in files THEN "create" ELSE wire[f]]
  /\ UNCHANGED <<promised, leftBehind, serverVars, acked, late, uploadFaults, uploadsCrossed>>

\* onSuccess, onError: the handle goes, the promise is resolved.
\* (Slip: the handle of a finished upload stays.)
Kept_Slip(f) == handles
Kept(f) == handles \ {f}

\* await Promise.all: a batch that is over reopens Send, whatever others do.
Resolves(f, outcome) ==
  LET left == [b \in DOMAIN batches |-> batches[b] \ {f}]
      over == {b \in DOMAIN batches : f \in batches[b] /\ left[b] = {}}
  IN  /\ chip' = [chip EXCEPT ![f] = outcome]
      /\ handles' = Kept(f)
      /\ batches' = left
      /\ uploading' = IF over # {} THEN FALSE ELSE uploading
      /\ wire' = [wire EXCEPT ![f] = "none"]

\* handle.abort() stops the callbacks, so its promise stays, and asks the server
\* to delete the upload.
Aborted(files) ==
  /\ handles' = handles \ files
  /\ wire' = [f \in Attachments |-> IF f \in files THEN "terminate" ELSE wire[f]]

RemoveAttachment(f) ==
  /\ chip[f] \in {"uploading", "done", "failed"}
  /\ chip' = [chip EXCEPT ![f] = "gone"]
  /\ Aborted({f} \cap handles)
  /\ UNCHANGED <<batches, uploading, promised, leftBehind, serverVars, acked, late, uploadFaults, uploadsCrossed>>

\* handleSend: the paths of what is done, then clearAttachments.
\* (Slip: Send does not wait.)
MaySend_Slip == TRUE
MaySend == ~uploading

Send ==
  LET shown == {f \in Attachments : chip[f] \in {"uploading", "done", "failed"}}
      paths == {f \in shown : chip[f] = "done"}
  IN  /\ MaySend /\ paths # {}
      /\ promised' = promised \cup paths
      /\ leftBehind' = leftBehind \cup {f \in shown : chip[f] = "uploading"}
      /\ chip' = [f \in Attachments |-> IF f \in shown THEN "gone" ELSE chip[f]]
      /\ Aborted(handles)
      /\ UNCHANGED <<batches, uploading, serverVars, acked, late, uploadFaults, uploadsCrossed>>

----
\* The client's requests.

\* POST: the gate lets it in and the file store makes the file.
CreateUpload(f) ==
  /\ wire[f] = "create"
  /\ blob' = [blob EXCEPT ![f] = <<>>] /\ wire' = [wire EXCEPT ![f] = "idle"]
  /\ UNCHANGED <<composerVars, acked, late, events, finalizing, landed, spoiled, uploadFaults, uploadsCrossed>>

SendPiece(f) ==
  /\ wire[f] = "idle" /\ acked[f] < UploadPieces
  /\ wire' = [wire EXCEPT ![f] = "sending"]
  /\ UNCHANGED <<composerVars, acked, late, serverVars, uploadFaults, uploadsCrossed>>

\* PATCH at an offset: refused when the file has another length.  The request
\* that brings the last chunk has an event to hand over before it answers.
Reads(f, piece) ==
  /\ blob' = [blob EXCEPT ![f] = Append(@, piece)]
  /\ events' = IF piece = UploadPieces THEN events \cup {f} ELSE events

StorePiece(f) ==
  /\ wire[f] = "sending"
  /\ IF blob[f] # NoBlob /\ Len(blob[f]) = acked[f]
     THEN /\ Reads(f, acked[f] + 1)
          /\ wire' = [wire EXCEPT ![f] = IF acked[f] + 1 = UploadPieces THEN "stored" ELSE "answer"]
          /\ uploadsCrossed' = IF late[f] # 0 THEN uploadsCrossed \cup {f} ELSE uploadsCrossed
     ELSE wire' = [wire EXCEPT ![f] = "lost"] /\ UNCHANGED <<blob, events, uploadsCrossed>>
  /\ UNCHANGED <<composerVars, acked, late, finalizing, landed, spoiled, uploadFaults>>

\* The rest of a dropped request is read after all, or never: its offset was
\* checked before.
StoreLate(f) ==
  /\ late[f] # 0 /\ late' = [late EXCEPT ![f] = 0]
  /\ \/ /\ blob[f] # NoBlob /\ Reads(f, late[f])
        /\ uploadsCrossed' = IF Len(blob[f]) + 1 # late[f] THEN uploadsCrossed \cup {f} ELSE uploadsCrossed
     \/ UNCHANGED <<blob, events, uploadsCrossed>>
  /\ UNCHANGED <<composerVars, acked, wire, finalizing, landed, spoiled, uploadFaults>>

\* PatchFile hands the event to the consumer before it answers.
Emit(f) ==
  /\ f \in events /\ finalizing = {}
  /\ finalizing' = {f} /\ events' = events \ {f}
  /\ wire' = [wire EXCEPT ![f] = IF @ = "stored" THEN "answer" ELSE @]
  /\ UNCHANGED <<composerVars, acked, late, blob, landed, spoiled, uploadFaults, uploadsCrossed>>

AnswerPiece(f) ==
  /\ wire[f] = "answer"
  /\ acked' = [acked EXCEPT ![f] = @ + 1]
  /\ IF acked'[f] = UploadPieces THEN Resolves(f, "done")
     ELSE wire' = [wire EXCEPT ![f] = "idle"] /\ UNCHANGED <<chip, handles, batches, uploading>>
  /\ UNCHANGED <<promised, leftBehind, late, serverVars, uploadFaults, uploadsCrossed>>

\* The connection breaks: before the server has read the chunk, while it reads,
\* or before the answer arrives.  The event of a complete file is still emitted.
DropConnection(f) ==
  /\ wire[f] \in {"sending", "stored", "answer"} /\ UploadFault
  /\ wire' = [wire EXCEPT ![f] = "lost"]
  /\ \/ UNCHANGED late
     \/ wire[f] = "sending" /\ late[f] = 0 /\ blob[f] # NoBlob /\ Len(blob[f]) = acked[f]
        /\ late' = [late EXCEPT ![f] = acked[f] + 1]
  /\ UNCHANGED <<composerVars, acked, serverVars, uploadsCrossed>>

\* A retry asks for the offset and goes on from there; after the last retry, or
\* without the file, the upload fails.
Resume(f) ==
  /\ wire[f] = "lost"
  /\ \/ /\ blob[f] # NoBlob
        /\ acked' = [acked EXCEPT ![f] = Len(blob[f])]
        /\ IF Len(blob[f]) >= UploadPieces THEN Resolves(f, "done")
           ELSE wire' = [wire EXCEPT ![f] = "idle"] /\ UNCHANGED <<chip, handles, batches, uploading>>
        /\ UNCHANGED uploadFaults
     \/ /\ blob[f] = NoBlob \/ uploadFaults < MaxUploadFaults
        /\ uploadFaults' = IF blob[f] = NoBlob THEN uploadFaults ELSE uploadFaults + 1
        /\ Resolves(f, "failed") /\ UNCHANGED acked
  /\ UNCHANGED <<promised, leftBehind, late, serverVars, uploadsCrossed>>

\* DELETE of an aborted upload.
Terminate(f) ==
  /\ wire[f] = "terminate"
  /\ wire' = [wire EXCEPT ![f] = "none"] /\ blob' = [blob EXCEPT ![f] = NoBlob]
  /\ UNCHANGED <<composerVars, acked, late, events, finalizing, landed, spoiled, uploadFaults, uploadsCrossed>>

----
\* The consumer.

\* finalize: the chat's .uploads, no file of that name, then the move.
Finalize(f) ==
  /\ f \in finalizing /\ finalizing' = finalizing \ {f}
  /\ \/ /\ blob[f] # NoBlob /\ landed[f] = NoBlob
        /\ landed' = [landed EXCEPT ![f] = blob[f]] /\ blob' = [blob EXCEPT ![f] = NoBlob]
        /\ UNCHANGED <<spoiled, uploadFaults>>
     \/ /\ blob[f] = NoBlob \/ landed[f] # NoBlob
        /\ UNCHANGED <<landed, blob, spoiled, uploadFaults>>
     \/ UploadFault /\ spoiled' = spoiled \cup {f} /\ UNCHANGED <<landed, blob>>
  /\ UNCHANGED <<composerVars, acked, wire, late, events, uploadsCrossed>>

\* The temporary files stay, the events do not.
UploadServerRestarts ==
  /\ UploadFault
  /\ spoiled' = spoiled \cup finalizing \cup events
  /\ events' = {} /\ finalizing' = {} /\ late' = [f \in Attachments |-> 0]
  /\ wire' = [f \in Attachments |-> IF wire[f] \in {"sending", "stored", "answer"} THEN "lost" ELSE wire[f]]
  /\ UNCHANGED <<composerVars, blob, landed, acked, uploadsCrossed>>

UploadStep(f) ==
  \/ CreateUpload(f) \/ SendPiece(f) \/ StorePiece(f) \/ StoreLate(f) \/ Emit(f) \/ AnswerPiece(f)
  \/ Resume(f) \/ Terminate(f) \/ Finalize(f)

UploadsNext ==
  \/ \E files \in SUBSET Attachments : DoUpload(files)
  \/ \E f \in Attachments : RemoveAttachment(f) \/ DropConnection(f) \/ UploadStep(f)
  \/ Send \/ UploadServerRestarts

\* Requests are answered or fail, and the consumer runs on.
UploadsFairness == \A f \in Attachments : WF_uploadVars(UploadStep(f))

----
\* Properties.

UploadsTypeOK ==
  /\ \A f \in Attachments : /\ chip[f] \in {"none", "uploading", "done", "failed", "gone"}
                            /\ acked[f] \in 0..UploadPieces + 1
                            /\ late[f] \in 0..UploadPieces
  /\ handles \cup promised \cup finalizing \subseteq Attachments /\ uploading \in BOOLEAN

Unfinished(f) == f \in events \cup finalizing

\* A file in the workspace has all its chunks, once and in order, whatever was
\* retried, unless a retry overlapped the request it replaces (no locker).
LandedWhole == \A f \in Attachments : landed[f] \in {NoBlob, Whole} \/ f \in uploadsCrossed

\* The path a prompt names leads to a file, or to one that is being moved there,
\* unless moving it failed or the server stopped: onSuccess does not wait for it.
PromiseKept ==
  \A f \in promised : landed[f] # NoBlob \/ Unfinished(f) \/ f \in spoiled \cup uploadsCrossed

\* Send takes every file it shows, unless an upload was still running beside
\* another batch: one flag is all that both have.
SendTakesAll == leftBehind # {} => Len(batches) > 1

UploadsInvariant == UploadsTypeOK /\ LandedWhole /\ PromiseKept /\ SendTakesAll

\* What a prompt names arrives.
PromiseArrives ==
  \A f \in Attachments : (f \in promised) ~> (landed[f] # NoBlob \/ f \in spoiled \cup uploadsCrossed)

\* Not so: an upload that is removed never resolves, and Send stays closed until
\* a later batch is over.
SendReopens == uploading ~> ~uploading
====
