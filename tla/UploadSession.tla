--------------------------- MODULE UploadSession ---------------------------
(***************************************************************************)
(* The upload command and the target's upload operation together, over a   *)
(* network that loses and repeats datagrams.  Each side takes the steps of *)
(* its own module; this module says which of them go together and what a   *)
(* transfer carries from one side to the other.                            *)
(*                                                                         *)
(* A status file is a transfer from the target's client to the host's      *)
(* server.  Its two ends are told separately how it ended: the host may    *)
(* have the file while the target misses the last acknowledgement, and the *)
(* repeated request makes the host receive it once more.                   *)
(***************************************************************************)
EXTENDS UploadCommand

CONSTANTS
  NoFile,             \* no status transfer
  Finals,             \* final statuses the application may declare
  MaxTargetRequests   \* requests the target handles

VARIABLES
  initialisationFile, statusTimer, statusPosted, status, encoded,
  statusTransfer, transmitted, outcome, finishedAgain,
  operation, ownThread, errorOperation, targetRequests, requestFile, listFile,
  finalDeclared, transmissionDue

Target == INSTANCE Target WITH
  Progress <- {}, MaxRequests <- MaxTargetRequests, requests <- targetRequests

ASSUME SessionAssumption ==
  /\ NoFile \notin StatusFiles
  /\ Finals \subseteq Target!FinalStatuses
  /\ MaxTargetRequests \in Nat

VARIABLES
  carried,       \* the code in the file of each status transfer of the host
  peer,          \* the host's transfer the target's client sends to, or NoFile
  acknowledged,  \* the host has received all of the file the client sends
  listArrived,   \* the request to write the load list has reached the target
  received,      \* codes of the status files the host has received
  hostOutcome    \* what the host's handler has been told first, or NoCode

NoCode == "none"
targetSideVars ==
  <<initialisationFile, statusTimer, statusPosted, status, encoded, statusTransfer,
    transmitted, outcome, finishedAgain, operation, ownThread, errorOperation,
    targetRequests, requestFile, listFile, finalDeclared, transmissionDue>>
statusVars == <<carried, peer, acknowledged>>
networkVars == <<statusVars, listArrived, received>>
sessionVars == <<vars, targetSideVars, networkVars, hostOutcome>>

SessionInit ==
  /\ Init
  /\ Target!Init
  /\ ~ownThread
  /\ carried = [file \in StatusFiles |-> NoCode]
  /\ peer = NoFile
  /\ acknowledged = FALSE
  /\ listArrived = FALSE
  /\ received = {}
  /\ hostOutcome = NoCode

-----------------------------------------------------------------------------
(* A step of one side leaves the other one alone; the outcome the host's   *)
(* handler is told is the one of the step that tells it.                   *)

Tells(told) ==
  hostOutcome' = IF finishedCalls' # finishedCalls /\ hostOutcome = NoCode
                 THEN told ELSE hostOutcome

HostAlone(step) == step /\ Tells("Failed") /\ UNCHANGED <<targetSideVars, networkVars>>

TargetAlone(step) == step /\ UNCHANGED <<vars, networkVars, hostOutcome>>

-----------------------------------------------------------------------------
(* The initialisation file, which the host reads.                          *)

(* The request reaches the target: the application accepts or rejects it.  *)
InitialisationRequested ==
  /\ initialisationOperation = "active"
  /\ operation = "none"
  /\ ~errorOperation
  /\ TargetAlone(Target!OperationAccepted("Upload") \/ Target!OperationRejected)

InitialisationRead ==
  HostAlone(Initialisation
              /\ (protocolVersion' # protocolVersion => initialisationFile # "none"))

InitialisationWritten ==
  TargetAlone(\/ Target!SendInitFileComplete /\ Target!Unaffected
              \/ Target!ErrorOperationCompleted)

-----------------------------------------------------------------------------
(* Status files, which the target writes.                                  *)

(* A request of the target's client reaches the host, which answers it     *)
(* with a transfer of its own.  The client may have sent it twice: it      *)
(* stays with the first answer or, having given that up, takes the new one.*)
StatusFileAccepted(file) ==
  /\ statusTransfer # Target!NoTransfer
  /\ Base(StatusRequest)
  /\ statusFileOperations' = statusFileOperations \cup {file}
  /\ file \notin statusFileOperations
  /\ carried' = [carried EXCEPT ![file] = statusTransfer.file]
  /\ \/ peer' = file /\ acknowledged' = FALSE
     \/ peer # NoFile /\ UNCHANGED <<peer, acknowledged>>
  /\ Tells("Failed")
  /\ UNCHANGED <<targetSideVars, listArrived, received>>

(* ... or, once, with the abort.  The answer may get lost.                 *)
StatusFileAborted ==
  /\ statusTransfer # Target!NoTransfer
  /\ Base(StatusRequest)
  /\ abortsSent' # abortsSent
  /\ Tells("Failed")
  /\ \/ Target!StatusAborted /\ peer' = NoFile /\ acknowledged' = FALSE
     \/ UNCHANGED <<targetSideVars, peer, acknowledged>>
  /\ UNCHANGED <<carried, listArrived, received>>

(* The host has all of the file, and perhaps nobody at the other end.      *)
StatusFileRead(file) ==
  /\ StatusReceived(file, carried[file])
  /\ Status(carried[file])
  /\ received' = received \cup {carried[file]}
  /\ acknowledged' = (acknowledged \/ peer = file)
  /\ Tells(carried[file])
  /\ UNCHANGED <<targetSideVars, carried, peer, listArrived>>

(* The other end is gone or cannot be reached.                             *)
StatusFileUnread(file) ==
  /\ InIoThread
  /\ StatusFileFailed(file)
  /\ HostAlone(UNCHANGED <<uploadVars, commandVars>>)

(* The client has its last acknowledgement, or has given up.               *)
StatusFileWritten ==
  /\ \/ acknowledged /\ Target!StatusTransmitted
     \/ Target!StatusFailed
  /\ peer' = NoFile
  /\ acknowledged' = FALSE
  /\ UNCHANGED <<vars, carried, listArrived, received, hostOutcome>>

(* A new status file drops the transfer in progress at the target only.    *)
StatusFileSent ==
  /\ Target!StatusFile
  /\ IF encoded' = NoCode
     THEN peer' = NoFile /\ acknowledged' = FALSE
     ELSE UNCHANGED <<peer, acknowledged>>
  /\ UNCHANGED <<vars, carried, listArrived, received, hostOutcome>>

-----------------------------------------------------------------------------
(* The load list, which the host writes.                                   *)

LoadListRequested ==
  /\ loadListOperation = "active"
  /\ requestFile = "none"
  /\ Target!RequestFileRequested
  /\ listArrived' = TRUE
  /\ UNCHANGED <<vars, statusVars, received, hostOutcome>>

LoadListRead == TargetAlone(Target!RequestFileCompleted)

LoadListWritten ==
  HostAlone(LoadListTransferred /\ (loadListSent' => listArrived \/ loadListSent))

-----------------------------------------------------------------------------
(* The main thread starts the operation; what becomes of the process in    *)
(* the end is the subject of UploadCommand.                                *)
OperationStarted ==
  /\ mainThread' \in {"connected", "starting", "waiting"}
  /\ HostAlone(MainThread)

HostSide ==
  \/ OperationStarted
  \/ HostAlone(Signals)
  \/ HostAlone(UploadTimer)
  \/ HostAlone(UploadTimeout)
  \/ InitialisationRead
  \/ LoadListWritten

(* The application works on the io thread.  Its other calls do not matter  *)
(* here: accepted is the status anyway, in progress is a running one, too. *)
ApplicationFinishes ==
  \E final \in Finals : TargetAlone(Target!Finished(final))

TargetSide ==
  \/ ApplicationFinishes
  \/ TargetAlone(Target!StatusTimer)
  \/ InitialisationRequested
  \/ InitialisationWritten
  \/ LoadListRequested
  \/ LoadListRead

StatusFileSide ==
  \/ \E file \in StatusFiles :
       StatusFileAccepted(file) \/ StatusFileRead(file) \/ StatusFileUnread(file)
  \/ StatusFileAborted
  \/ StatusFileWritten
  \/ StatusFileSent

SessionNext == HostSide \/ TargetSide \/ StatusFileSide

SessionSpec == SessionInit /\ [][SessionNext]_sessionVars

-----------------------------------------------------------------------------
(* What the session promises.                                              *)

(* A code that stands for one result alone: the host knows the result when *)
(* it has the code.  A failure of the target has a code, too, but one the  *)
(* target also comes to by itself.                                         *)
Failures == {"AbortedByTargetHardware", "LoadPartNumberOrDownloadFileFailed"}

ResultKnown == finalDeclared \in received \ Failures

Outcome == INSTANCE OperationOutcome WITH
  Results <- Finals,
  Success <- "Completed",
  None <- NoCode,
  declared <- finalDeclared,
  known <- ResultKnown,
  hostTold <- hostOutcome,
  targetTold <- outcome

(* Whatever is lost, repeated, aborted or dropped: neither side is told of *)
(* a complete upload that the application has not declared, and the target *)
(* not before the host has the status file that says so.                   *)
ImplementsOutcome == Outcome!Spec

=============================================================================
