--------------------------- MODULE HostOperation ---------------------------
(***************************************************************************)
(* Arinc615a::Host::OperationImpl: what the four TFTP based host           *)
(* operations (information, upload, media and operator defined download)   *)
(* share.  It owns the read of the initialisation file, the DLP watchdog   *)
(* timer, the abort flag and the TFTP server the target pushes files to.   *)
(*                                                                         *)
(* Every handler of the class runs on the single thread that runs the      *)
(* io_context, hence one handler is one step.  The members of the class    *)
(* are variables, its methods are actions on these variables; the derived  *)
(* operations combine them with their own actions.                         *)
(*                                                                         *)
(* A transfer is known by its outcome only: the file it moved is "failed"  *)
(* or what the handler decodes from it.                                    *)
(***************************************************************************)
EXTENDS Naturals, FiniteSets

CONSTANTS
  Versions,      \* protocol versions an initialisation file can carry
  NoVersion,     \* Arinc615aVersion{}, the member before the file is decoded
  StatusFiles,   \* identities of the status transfers in progress at a time
  MaxRequests    \* number of requests the target sends before it goes quiet

ASSUME HostAssumption ==
  /\ NoVersion \notin Versions
  /\ IsFiniteSet(StatusFiles)
  /\ MaxRequests \in Nat

(* Host::Operation::AbortReason *)
AbortReasons == {"NoAbort", "Operator", "Protocol"}

(* The status codes a protocol file can be decoded to.  A status file ends *)
(* the operation with one of FinalCodes and keeps it alive with            *)
(* RunningCodes; the last is the status of a file and ends it as invalid.  *)
FinalCodes == {"NotAccepted", "NotSupported", "Completed",
               "AbortedByTargetHw", "AbortedByDlp", "AbortedByOperator"}
RunningCodes == {"Accepted", "InProgress", "InProgressAdditionalInfo"}
InvalidCodes == {"LoadPartNumberOrDownloadFileFailed"}
StatusCodes == FinalCodes \cup RunningCodes \cup InvalidCodes

VARIABLES
  initialisationOperation, \* "none", "active", or "aborting" once gracefulAbort was called
  protocolVersion,         \* protocolVersionV
  abortReason,             \* abortReasonV
  dlpTimer,                \* timerV has a pending asynchronous wait
  timeoutPosted,           \* that wait expired: its handler is queued, no cancel recalls it
  tftpServer,              \* tftpServerV is listening
  statusFileOperations,    \* statusFileOperationsV: status transfers in progress
  requests,                \* requests the target has sent (bound of the model)
  abortsSent,              \* ABORT messages sent to the target
  finishedCalls            \* calls of handlerV.finished

hostVars == <<initialisationOperation, protocolVersion, abortReason, dlpTimer,
              timeoutPosted, tftpServer, statusFileOperations, requests,
              abortsSent, finishedCalls>>

HostTypeOK ==
  /\ initialisationOperation \in {"none", "active", "aborting"}
  /\ protocolVersion \in Versions \cup {NoVersion}
  /\ abortReason \in AbortReasons
  /\ dlpTimer \in BOOLEAN
  /\ timeoutPosted \in BOOLEAN
  /\ tftpServer \in BOOLEAN
  /\ statusFileOperations \in SUBSET StatusFiles
  /\ requests \in 0..MaxRequests
  /\ abortsSent \in Nat
  /\ finishedCalls \in Nat

HostInit ==
  /\ initialisationOperation = "none"
  /\ protocolVersion = NoVersion
  /\ abortReason = "NoAbort"
  /\ dlpTimer = FALSE
  /\ timeoutPosted = FALSE
  /\ tftpServer = FALSE
  /\ statusFileOperations = {}
  /\ requests = 0
  /\ abortsSent = 0
  /\ finishedCalls = 0

-----------------------------------------------------------------------------
(* Methods the handlers below call.                                        *)

(* expires_after and async_wait: a pending wait is replaced, one that has  *)
(* already expired is not.                                                 *)
TriggerDlpTimeout == dlpTimer' = TRUE

(* The handler is told first, then the timer is cancelled and the server   *)
(* stopped.  Transfers in progress go on and nothing records that the      *)
(* operation is over.                                                      *)
Finished ==
  /\ finishedCalls' = finishedCalls + 1
  /\ dlpTimer' = FALSE
  /\ tftpServer' = FALSE

(* A request the listening server hands to the operation; the target sends *)
(* only so many.                                                           *)
ReceivedTftpRequest ==
  /\ tftpServer
  /\ requests < MaxRequests
  /\ requests' = requests + 1

GracefulAbortInitialisation ==
  initialisationOperation' =
    IF initialisationOperation = "none" THEN "none" ELSE "aborting"

-----------------------------------------------------------------------------
(* Start of the operation, and the operator's two requests.                *)

(* initialise(), the one method called on the thread of the caller.  The   *)
(* server listens before the transfer of the initialisation file exists,   *)
(* so that handlers of the io thread run between the two.                  *)
InitialiseServer ==
  /\ tftpServer' = TRUE
  /\ UNCHANGED <<initialisationOperation, protocolVersion, abortReason,
                 dlpTimer, timeoutPosted, statusFileOperations, requests,
                 abortsSent, finishedCalls>>

InitialiseRequest ==
  /\ initialisationOperation' = "active"
  /\ UNCHANGED <<protocolVersion, abortReason, dlpTimer, timeoutPosted,
                 tftpServer, statusFileOperations, requests, abortsSent,
                 finishedCalls>>

(* Bug: the status code for the reason is stored in place of the reason.   *)
DoAbortStoresStatusCode(reason) ==
  /\ abortReason = "NoAbort"
  /\ abortReason' = IF reason = "Operator" THEN "AbortedByOperator"
                                           ELSE "AbortedByDlp"
  /\ GracefulAbortInitialisation
  /\ UNCHANGED <<protocolVersion, dlpTimer, timeoutPosted, tftpServer,
                 statusFileOperations, requests, abortsSent, finishedCalls>>

(* The abort is only noted, unless the initialisation is in progress.      *)
DoAbort(reason) ==
  /\ IF abortReason # "NoAbort"
     THEN UNCHANGED <<abortReason, initialisationOperation>>
     ELSE /\ abortReason' = reason
          /\ GracefulAbortInitialisation
  /\ UNCHANGED <<protocolVersion, dlpTimer, timeoutPosted, tftpServer,
                 statusFileOperations, requests, abortsSent, finishedCalls>>

DoTerminate ==
  /\ GracefulAbortInitialisation
  /\ Finished
  /\ UNCHANGED <<protocolVersion, abortReason, timeoutPosted,
                 statusFileOperations, requests, abortsSent>>

-----------------------------------------------------------------------------
(* Completion of the initialisation file, deferred or not.  It may still   *)
(* succeed after gracefulAbort, which does not reach a transfer that is    *)
(* between two attempts.                                                   *)

(* Bug: the watchdog is left to the first status file.                     *)
AcceptedWithoutTimer(version) ==
  /\ initialisationOperation # "none"
  /\ initialisationOperation' = "none"
  /\ protocolVersion' = version
  /\ UNCHANGED <<abortReason, dlpTimer, timeoutPosted, tftpServer,
                 statusFileOperations, requests, abortsSent, finishedCalls>>

InitialisationAccepted(version) ==
  /\ initialisationOperation # "none"
  /\ initialisationOperation' = "none"
  /\ protocolVersion' = version
  /\ TriggerDlpTimeout
  /\ UNCHANGED <<abortReason, timeoutPosted, tftpServer, statusFileOperations,
                 requests, abortsSent, finishedCalls>>

(* The transfer failed, its file cannot be decoded, or it says anything    *)
(* other than accepted.                                                    *)
InitialisationFailed ==
  /\ initialisationOperation # "none"
  /\ initialisationOperation' = "none"
  /\ Finished
  /\ UNCHANGED <<protocolVersion, abortReason, timeoutPosted,
                 statusFileOperations, requests, abortsSent>>

-----------------------------------------------------------------------------
(* The DLP watchdog.                                                       *)

(* The wait expires and its handler joins the queue of the io_context,     *)
(* behind the handlers that are already there.                             *)
DlpTimerExpires ==
  /\ dlpTimer
  /\ ~timeoutPosted
  /\ dlpTimer' = FALSE
  /\ timeoutPosted' = TRUE
  /\ UNCHANGED <<initialisationOperation, protocolVersion, abortReason,
                 tftpServer, statusFileOperations, requests, abortsSent,
                 finishedCalls>>

(* Bug: an expiry restarts the watchdog, to give the target more time.     *)
TimerHandlerRestarts ==
  /\ timeoutPosted
  /\ timeoutPosted' = FALSE
  /\ TriggerDlpTimeout
  /\ UNCHANGED <<initialisationOperation, protocolVersion, abortReason,
                 tftpServer, statusFileOperations, requests, abortsSent,
                 finishedCalls>>

(* The queued handler carries success, even if the timer was started again *)
(* or cancelled in the meantime.                                           *)
TimerHandler ==
  /\ timeoutPosted
  /\ timeoutPosted' = FALSE
  /\ Finished
  /\ UNCHANGED <<initialisationOperation, protocolVersion, abortReason,
                 statusFileOperations, requests, abortsSent>>

-----------------------------------------------------------------------------
(* Status files the target pushes.  The derived operations route the       *)
(* request to these handlers and differ in what else they do.              *)

(* isAborted: the request is answered with the ABORT message, which        *)
(* forgets the reason.                                                     *)
StatusFileRefused ==
  /\ ReceivedTftpRequest
  /\ abortReason # "NoAbort"
  /\ abortsSent' = abortsSent + 1
  /\ abortReason' = "NoAbort"
  /\ TriggerDlpTimeout
  /\ UNCHANGED <<initialisationOperation, protocolVersion, timeoutPosted,
                 tftpServer, statusFileOperations, finishedCalls>>

StatusFileRequest(file) ==
  /\ ReceivedTftpRequest
  /\ abortReason = "NoAbort"
  /\ file \in StatusFiles \ statusFileOperations
  /\ statusFileOperations' = statusFileOperations \cup {file}
  /\ UNCHANGED <<initialisationOperation, protocolVersion, abortReason,
                 dlpTimer, timeoutPosted, tftpServer, abortsSent,
                 finishedCalls>>

(* Bug: the operation that completed stays in the list.                    *)
StatusFileStays(file) ==
  /\ file \in statusFileOperations
  /\ UNCHANGED <<statusFileOperations, initialisationOperation,
                 protocolVersion, abortReason, timeoutPosted, requests,
                 abortsSent>>

(* The status transfer is over: removed from the list in every case.       *)
RemoveStatusFile(file) ==
  /\ file \in statusFileOperations
  /\ statusFileOperations' = statusFileOperations \ {file}
  /\ UNCHANGED <<initialisationOperation, protocolVersion, abortReason,
                 timeoutPosted, requests, abortsSent>>

StatusFileFailed(file) ==
  /\ RemoveStatusFile(file)
  /\ Finished

StatusFileUndecodable(file) ==
  /\ RemoveStatusFile(file)
  /\ UNCHANGED <<dlpTimer, tftpServer, finishedCalls>>

(* A running code starts the watchdog again, however long the exception    *)
(* time; every other code ends the operation.                              *)
StatusFileReceived(file, code) ==
  /\ RemoveStatusFile(file)
  /\ IF code \in RunningCodes
     THEN TriggerDlpTimeout /\ UNCHANGED <<tftpServer, finishedCalls>>
     ELSE Finished

=============================================================================
