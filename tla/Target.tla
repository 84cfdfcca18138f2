------------------------------- MODULE Target -------------------------------
(***************************************************************************)
(* The target's side: Arinc615a::Target::ProtocolImpl, which turns the     *)
(* request for an initialisation file into an operation, the four kinds of *)
(* operation on top of TargetOperation, and the application that accepts   *)
(* or rejects the operation and says how it is getting on.  The            *)
(* application and the host are the environment: the application ends an   *)
(* operation at most once, calls nothing after it and holds one operation  *)
(* at a time; the host does as it pleases.                                 *)
(***************************************************************************)
EXTENDS TargetOperation

CONSTANTS
  Finals,       \* final statuses the application may end an operation with
  Progress,     \* codes of the progress it reports, with or without a description
  MaxRequests   \* number of requests, lists and abort answers

ASSUME TargetAssumption ==
  /\ Finals \subseteq FinalStatuses
  /\ Progress \subseteq {"InProgress", "InProgressAdditionalInfo"}
  /\ MaxRequests \in Nat

Operations == {"Information", "Upload", "MediaDefinedDownload", "OperatorDefinedDownload"}

VARIABLES
  operation,        \* kind of the operation operationV points to, or "none"
  ownThread,        \* the application uses a thread of its own
  errorOperation,   \* an ErrorOperation is in progress
  requests,         \* requests, lists and abort answers so far (bound of the model)
  requestFile,      \* requestFileOperation, answerFileOperation: "none" or "active"
  listFile,         \* targetInformationOperation, downloadingListOperation: likewise
  finalDeclared,    \* what the application has ended the operation with, or NoCode
  transmissionDue   \* its thread has set a status and is to force its transmission

applicationVars == <<finalDeclared, transmissionDue>>
protocolVars == <<operation, ownThread, errorOperation, requests>>
fileVars == <<requestFile, listFile>>
vars == <<targetVars, applicationVars, protocolVars, fileVars>>

TypeOK ==
  /\ TargetTypeOK
  /\ operation \in Operations \cup {"none"}
  /\ ownThread \in BOOLEAN
  /\ errorOperation \in BOOLEAN
  /\ requests \in 0..MaxRequests
  /\ requestFile \in {"none", "active"}
  /\ listFile \in {"none", "active"}
  /\ finalDeclared \in Finals \cup {NoCode}
  /\ transmissionDue \in BOOLEAN

Init ==
  /\ TargetInit
  /\ operation = "none"
  /\ ownThread \in BOOLEAN
  /\ errorOperation = FALSE
  /\ requests = 0
  /\ requestFile = "none"
  /\ listFile = "none"
  /\ finalDeclared = NoCode
  /\ transmissionDue = FALSE

-----------------------------------------------------------------------------
(* The protocol.                                                           *)

Requested ==
  /\ requests < MaxRequests
  /\ requests' = requests + 1

(* What the application creates becomes the protocol's operation.  The     *)
(* information operation, which transmits without the timer, is used from  *)
(* the io thread only: two threads in its statusFile would be a data race. *)
OperationCreated(kind) ==
  /\ operation = "none"
  /\ kind = "Information" => ~ownThread
  /\ operation' = kind

(* handleInitialisationFile: the application is asked.                     *)
OperationAccepted(kind) ==
  /\ Requested
  /\ OperationCreated(kind)
  /\ SendInitFile
  /\ UNCHANGED <<ownThread, errorOperation, applicationVars, fileVars>>

OperationRejected ==
  /\ Requested
  /\ IoThreadIdle
  /\ errorOperation' = TRUE
  /\ UNCHANGED <<operation, ownThread, targetVars, applicationVars, fileVars>>

ErrorOperationCompleted ==
  /\ errorOperation
  /\ IoThreadIdle
  /\ errorOperation' = FALSE
  /\ UNCHANGED <<operation, ownThread, requests, targetVars, applicationVars, fileVars>>

InitialisationRequest ==
  OperationRejected \/ \E kind \in Operations : OperationAccepted(kind)

-----------------------------------------------------------------------------
(* The application's calls.                                                *)

Active ==
  /\ initialisationFile = "sent"
  /\ outcome = NoCode
  /\ finalDeclared = NoCode
  /\ ~transmissionDue

(* accepted, an immediate inProgress and finished: the status is set and   *)
(* its transmission forced.  On a thread of the application these are two  *)
(* steps, between and beside those of the io thread.                       *)
SetsAndForces(code) ==
  \/ operation = "Information" /\ SetAndSend(code) /\ UNCHANGED transmissionDue
  \/ operation # "Information" /\ ~ownThread /\ SetAndForce(code) /\ UNCHANGED transmissionDue
  \/ ownThread /\ SetStatus(code) /\ transmissionDue' = TRUE

Accepted ==
  /\ Active
  /\ SetsAndForces("Accepted")
  /\ UNCHANGED <<finalDeclared, protocolVars, fileVars>>

InProgress(code) ==
  /\ Active
  /\ \/ SetsAndForces(code)
     \/ SetStatus(code) /\ (ownThread \/ IoThreadIdle) /\ UNCHANGED transmissionDue
  /\ UNCHANGED <<finalDeclared, protocolVars, fileVars>>

Finished(final) ==
  /\ Active
  /\ SetsAndForces(StatusCode(final))
  /\ finalDeclared' = final
  /\ UNCHANGED <<protocolVars, fileVars>>

ApplicationForces ==
  /\ transmissionDue
  /\ transmissionDue' = FALSE
  /\ ForceTransmission
  /\ UNCHANGED <<finalDeclared, protocolVars, fileVars>>

Application ==
  \/ Accepted
  \/ \E code \in Progress : InProgress(code)
  \/ \E final \in Finals : Finished(final)

-----------------------------------------------------------------------------
(* Status files.                                                           *)

Unaffected == UNCHANGED <<applicationVars, protocolVars, fileVars>>

StatusTimer == StatusTimerExpires /\ Unaffected

StatusFile == (StatusTimerHandler \/ RequestStatusFile) /\ Unaffected

StatusAborted ==
  /\ Requested
  /\ StatusFileAborted
  /\ UNCHANGED <<operation, ownThread, errorOperation, applicationVars, fileVars>>

(* Once accepted has been transmitted, the information operation goes on   *)
(* to in progress by itself ...                                            *)
InformationProceeds ==
  /\ StatusFileOver
  /\ statusTransfer.sent = "Accepted"
  /\ transmitted' = transmitted \cup {statusTransfer.file}
  /\ EncodeStatus("InProgress")
  /\ UNCHANGED <<initialisationFile, statusTimer, statusPosted, outcome, finishedAgain>>

(* ... even if the handler it has just called has ended the operation: the *)
(* transfer of the final status is dropped, the status overwritten.        *)
InformationEndsInHandler(final) ==
  /\ Active
  /\ InformationProceeds
  /\ finalDeclared' = final
  /\ UNCHANGED <<transmissionDue, protocolVars, fileVars>>

StatusTransmitted ==
  \/ /\ \/ /\ operation = "Information"
           /\ statusTransfer.sent = "Accepted"
           /\ InformationProceeds
        \/ /\ operation = "Information" => statusTransfer.sent # "Accepted"
           /\ StatusFileTransmitted
     /\ Unaffected
  \/ /\ operation = "Information"
     /\ \E final \in Finals : InformationEndsInHandler(final)

StatusFailed == StatusFileFailed /\ Unaffected

-----------------------------------------------------------------------------
(* The request file of the upload and the media defined download and the   *)
(* answer file of the operator defined one, which the host writes.         *)

(* A second file replaces the one in progress.                             *)
WrittenFileRequested ==
  /\ Requested
  /\ IoThreadIdle
  /\ requestFile' = "active"
  /\ UNCHANGED <<listFile, operation, ownThread, errorOperation, targetVars, applicationVars>>

RequestFileRequested ==
  /\ operation \in {"Upload", "MediaDefinedDownload"}
  /\ WrittenFileRequested

AnswerFileRequested ==
  /\ operation = "OperatorDefinedDownload"
  /\ WrittenFileRequested

(* The application is told the list, or a file that cannot be received,    *)
(* decoded or has another version ends the operation.                      *)
WrittenFileCompleted ==
  /\ requestFile = "active"
  /\ IoThreadIdle
  /\ requestFile' = "none"
  /\ UNCHANGED targetVars \/ SetAndForce("AbortedByTargetHw")
  /\ UNCHANGED <<listFile, applicationVars, protocolVars>>

RequestFileCompleted == operation # "OperatorDefinedDownload" /\ WrittenFileCompleted

AnswerFileCompleted == operation = "OperatorDefinedDownload" /\ WrittenFileCompleted

(* The lists the target writes: its configuration, its files.              *)
SendList ==
  /\ Active
  /\ Requested
  /\ IoThreadIdle
  /\ operation \in {"Information", "OperatorDefinedDownload"}
  /\ listFile' = "active"
  /\ UNCHANGED <<requestFile, operation, ownThread, errorOperation, targetVars, applicationVars>>

ListOver ==
  /\ listFile = "active"
  /\ IoThreadIdle
  /\ listFile' = "none"
  /\ UNCHANGED <<requestFile, applicationVars, protocolVars>>

DownloadingListCompleted ==
  /\ operation = "OperatorDefinedDownload"
  /\ ListOver
  /\ UNCHANGED targetVars \/ SetAndForce("AbortedByTargetHw")

(* Without any status so far the transmitted list ends the operation;      *)
(* otherwise a final status does.                                          *)
TargetInformationTransmitted ==
  IF status = "Invalid"
  THEN /\ Finalise("Completed")
       /\ UNCHANGED <<initialisationFile, statusPosted, status, encoded,
                      statusTransfer, transmitted>>
  ELSE SetAndSend("Completed")

TargetInformationCompleted ==
  /\ operation = "Information"
  /\ ListOver
  /\ TargetInformationTransmitted \/ SetAndSend("AbortedByTargetHw")

-----------------------------------------------------------------------------
Next ==
  \/ InitialisationRequest
  \/ ErrorOperationCompleted
  \/ SendInitFileComplete /\ Unaffected
  \/ Application
  \/ ApplicationForces
  \/ StatusTimer
  \/ StatusFile
  \/ StatusAborted
  \/ StatusTransmitted
  \/ StatusFailed
  \/ RequestFileRequested
  \/ RequestFileCompleted
  \/ AnswerFileRequested
  \/ AnswerFileCompleted
  \/ SendList
  \/ DownloadingListCompleted
  \/ TargetInformationCompleted

Spec == Init /\ [][Next]_vars

(* The threads are scheduled and the timer expires, and a transfer that is *)
(* left alone ends: TransferEnds, of the module TftpExchange.  How long    *)
(* that takes is not known to the timer, which drops a transfer that       *)
(* outlasts it for the next one, if need be every time.                    *)
Fairness ==
  /\ WF_vars(StatusTimer)
  /\ WF_vars(StatusFile)
  /\ WF_vars(ApplicationForces)
  /\ WF_vars(StatusTransmitted \/ StatusFailed)

FairSpec == Spec /\ Fairness

-----------------------------------------------------------------------------
(* From the initialisation to its end the operation transmits its status,  *)
(* whatever is dropped, aborted by the host or set by the application in   *)
(* between: the timer runs, has expired, or the io thread is at it.        *)
StatusLoopAlive ==
  initialisationFile = "sent" /\ outcome = NoCode =>
    statusTimer \/ statusPosted \/ encoded # NoCode

(* An application on the io thread is told the end of the operation with a *)
(* status the host has received, unless transmission has failed.  (An      *)
(* information operation that has sent no status ends with its list.)      *)
OutcomeReachedHost ==
  operation # "Information" /\ ~ownThread
    /\ outcome \in FinalStatuses \ {"AbortedByTargetHardware"}
      => StatusCode(outcome) \in transmitted

(* Of the files of one operation, each but the last may be replaced by the *)
(* next before it has got through.                                         *)
TransferReplaced == RequestStatusFile /\ statusTransfer # NoTransfer

AlwaysReplaced == []<><<TransferReplaced>>_vars

(* An operation on files that its application has ended tells it the end,  *)
(* whatever the timer, the host's aborts and the progress set before have  *)
(* left in transfer, unless the timer goes on to replace every transfer:   *)
(* no bound of the rate keeps it from doing so to a host that is silent.   *)
FileOperationFinishedEnds ==
  \/ finalDeclared # NoCode /\ operation # "Information" ~> outcome # NoCode
  \/ AlwaysReplaced

-----------------------------------------------------------------------------
(* What the documentation says and the code does not keep.                 *)

(* target/Operation.hpp, of every operation: "When the status file has     *)
(* been transmitted, the operation completes."  An information operation   *)
(* that is ended from within its first status is set back to in progress.  *)
FinishedEnds == (finalDeclared # NoCode ~> outcome # NoCode) \/ AlwaysReplaced

=============================================================================
