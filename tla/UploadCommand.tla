--------------------------- MODULE UploadCommand ---------------------------
(***************************************************************************)
(* The upload command: HostCommand with the upload operation.  The first   *)
(* accepted status makes the command send the load list; the target then   *)
(* reads the data files of the load.                                       *)
(***************************************************************************)
EXTENDS HostCommand, HostUpload

CONSTANT
  DataFiles   \* identities of the data file transfers in progress at a time

ASSUME UploadAssumption == IsFiniteSet(DataFiles)

VARIABLES
  loadListTransmitted, \* loadListTransmittedV of the command
  fileOperations       \* fileOperationsV: data file transfers in progress

commandVars == <<loadListTransmitted, fileOperations>>
vars == <<hostCommandVars, uploadVars, commandVars>>

TypeOK ==
  /\ HostCommandTypeOK
  /\ UploadTypeOK
  /\ loadListTransmitted \in BOOLEAN
  /\ fileOperations \in SUBSET DataFiles

Init ==
  /\ HostCommandInit
  /\ UploadInit
  /\ loadListTransmitted = FALSE
  /\ fileOperations = {}

-----------------------------------------------------------------------------

MainThread ==
  /\ \/ StartServer /\ Start
     \/ /\ \/ Connect \/ StartRequest \/ ExecuteThrows
           \/ DoneWaitReturns \/ ExecuteReturns \/ StopIoContext
        /\ UNCHANGED uploadVars
  /\ UNCHANGED commandVars

(* Handlers that work on the members of the base alone.                    *)
Base(step) == step /\ UNCHANGED <<uploadVars, commandVars>>

Signals == Base(AbortSignal) \/ Base(TerminateSignal)

UploadTimer == Base(TimerExpires)

UploadTimeout == Base(Timeout)

Initialisation == Base(InitialisationFileCompleted)

(* Bug: the flag is set only by the completed transfer of the list.        *)
StatusUnguarded(code) ==
  /\ IF code = "Accepted" THEN LoadList ELSE UNCHANGED uploadVars
  /\ UNCHANGED commandVars

(* The command's status handler: the first accepted status sends the list. *)
Status(code) ==
  /\ IF code = "Accepted" /\ ~loadListTransmitted
     THEN LoadList /\ loadListTransmitted' = TRUE
     ELSE UNCHANGED <<uploadVars, loadListTransmitted>>
  /\ UNCHANGED fileOperations

StatusFileCompleted(file) ==
  \/ \E code \in StatusCodes : StatusReceived(file, code) /\ Status(code)
  \/ Base(StatusLost(file))

(* A load list that does not get through aborts the operation.             *)
LoadListTransferred ==
  /\ \/ TransferOver /\ LoadListCompleted(TRUE)
     \/ AbortFromWithin("Protocol") /\ LoadListCompleted(FALSE)
  /\ UNCHANGED commandVars

(* A data file the target asks for: its transfer starts if it is one of    *)
(* the load; every other request is answered with an error.                *)
FileRequest(file) ==
  /\ OtherRequest
  /\ \/ file \notin fileOperations /\ fileOperations' = fileOperations \cup {file}
     \/ UNCHANGED fileOperations
  /\ UNCHANGED <<uploadVars, loadListTransmitted>>

(* A data file that fails is left to the target to report.                 *)
FileCompleted(file) ==
  /\ TransferOver
  /\ file \in fileOperations
  /\ fileOperations' = fileOperations \ {file}
  /\ UNCHANGED <<uploadVars, loadListTransmitted>>

-----------------------------------------------------------------------------
Next ==
  \/ MainThread
  \/ Signals
  \/ Initialisation
  \/ UploadTimer
  \/ UploadTimeout
  \/ Base(StatusRequest)
  \/ \E file \in StatusFiles : StatusFileCompleted(file)
  \/ LoadListTransferred
  \/ \E file \in DataFiles : FileRequest(file) \/ FileCompleted(file)

Spec == Init /\ [][Next]_vars

(* Both threads are scheduled and a running timer expires.  Nothing is     *)
(* assumed of what the target, the network and the operator do on their    *)
(* own: they may do anything up to the bounds, or nothing at all.          *)
Fairness ==
  /\ WF_vars(MainThread)
  /\ WF_vars(UploadTimer)
  /\ WF_vars(UploadTimeout)

FairSpec == Spec /\ Fairness

-----------------------------------------------------------------------------
(* The target is sent at most one load list, although loadListSentV is set *)
(* only when the transfer has completed and status files overlap.          *)
LoadListRequestedOnce == loadListRequests <= 1

=============================================================================
