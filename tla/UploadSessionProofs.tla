------------------------ MODULE UploadSessionProofs ------------------------
(***************************************************************************)
(* Theorems about UploadCommand and about UploadSession, which joins it to *)
(* the target's upload operation, for every set of versions, transfers and *)
(* final statuses and every number of requests and signals.  What is       *)
(* proved of the target by itself comes from TargetProofs.                 *)
(***************************************************************************)
EXTENDS UploadSession, HostCommandProofs

Proved == INSTANCE TargetProofs WITH
  Progress <- {}, MaxRequests <- MaxTargetRequests, requests <- targetRequests

(***************************************************************************)
(* Every step of the upload command is a step of HostCommand, or changes   *)
(* nothing of it.  What is proved of HostCommand holds of the upload.      *)
(***************************************************************************)

LEMMA UploadStep == [Next]_vars => [HostStep]_hostCommandVars
<1> SUFFICES ASSUME [Next]_vars
             PROVE  [HostStep]_hostCommandVars
  OBVIOUS
<1> USE DEF HostStep, IoThreadStep
<1>1. CASE MainThread
  BY <1>1 DEF MainThread, MainThreadStep
<1>2. CASE Signals \/ Initialisation \/ UploadTimer \/ UploadTimeout \/ Base(StatusRequest)
  BY <1>2 DEF Signals, Initialisation, UploadTimer, UploadTimeout, Base
<1>3. ASSUME NEW file \in StatusFiles, StatusFileCompleted(file)
      PROVE  [HostStep]_hostCommandVars
  BY <1>3 DEF StatusFileCompleted, Base
<1>4. CASE LoadListTransferred
  BY <1>4 DEF LoadListTransferred, TransferOver, InIoThread, hostCommandVars, AbortReasons
<1>5. ASSUME NEW file \in DataFiles, FileRequest(file) \/ FileCompleted(file)
      PROVE  [HostStep]_hostCommandVars
  BY <1>5 DEF FileRequest, FileCompleted, TransferOver, InIoThread, hostCommandVars
<1>6. CASE UNCHANGED vars
  BY <1>6 DEF vars
<1> QED
  BY <1>1, <1>2, <1>3, <1>4, <1>5, <1>6 DEF Next

(* The upload command runs a host operation as every command does.         *)
THEOREM UploadIsHostCommand == Spec => HostCommandSpec
<1>1. Init => HostCommandInit
  BY DEF Init
<1> QED
  BY <1>1, UploadStep, PTL DEF Spec, HostCommandSpec

(***************************************************************************)
(* Type correctness.                                                       *)
(***************************************************************************)

UploadFlags ==
  /\ loadListSent \in BOOLEAN
  /\ loadListTransmitted \in BOOLEAN

UploadValues ==
  /\ loadListOperation \in {"none", "active"}
  /\ loadListRequests \in Nat
  /\ fileOperations \in SUBSET DataFiles

LEMMA UploadFlagsStep == UploadFlags /\ [Next]_vars => UploadFlags'
<1> SUFFICES ASSUME UploadFlags, [Next]_vars
             PROVE  UploadFlags'
  OBVIOUS
<1> USE DEF UploadFlags, uploadVars, commandVars
<1>1. CASE MainThread
  BY <1>1 DEF MainThread, Start
<1>2. CASE Signals \/ Initialisation \/ UploadTimer \/ UploadTimeout \/ Base(StatusRequest)
  BY <1>2 DEF Signals, Initialisation, UploadTimer, UploadTimeout, Base
<1>3. ASSUME NEW file \in StatusFiles, StatusFileCompleted(file)
      PROVE  UploadFlags'
  BY <1>3 DEF StatusFileCompleted, Base, Status, LoadList
<1>4. CASE LoadListTransferred
  BY <1>4 DEF LoadListTransferred, LoadListCompleted
<1>5. ASSUME NEW file \in DataFiles, FileRequest(file) \/ FileCompleted(file)
      PROVE  UploadFlags'
  BY <1>5 DEF FileRequest, FileCompleted
<1>6. CASE UNCHANGED vars
  BY <1>6 DEF vars
<1> QED
  BY <1>1, <1>2, <1>3, <1>4, <1>5, <1>6 DEF Next

LEMMA UploadValuesStep == UploadValues /\ [Next]_vars => UploadValues'
<1> SUFFICES ASSUME UploadValues, [Next]_vars
             PROVE  UploadValues'
  OBVIOUS
<1> USE DEF UploadValues, uploadVars, commandVars
<1>1. CASE MainThread
  BY <1>1 DEF MainThread, Start
<1>2. CASE Signals \/ Initialisation \/ UploadTimer \/ UploadTimeout \/ Base(StatusRequest)
  BY <1>2 DEF Signals, Initialisation, UploadTimer, UploadTimeout, Base
<1>3. ASSUME NEW file \in StatusFiles, StatusFileCompleted(file)
      PROVE  UploadValues'
  BY <1>3 DEF StatusFileCompleted, Base, Status, LoadList
<1>4. CASE LoadListTransferred
  BY <1>4 DEF LoadListTransferred, LoadListCompleted
<1>5. ASSUME NEW file \in DataFiles, FileRequest(file) \/ FileCompleted(file)
      PROVE  UploadValues'
  BY <1>5 DEF FileRequest, FileCompleted
<1>6. CASE UNCHANGED vars
  BY <1>6 DEF vars
<1> QED
  BY <1>1, <1>2, <1>3, <1>4, <1>5, <1>6 DEF Next

(* Every step of the two threads, the operator and the target keeps the    *)
(* types: no counter leaves its bound, no member an undeclared value.      *)
THEOREM UploadTypes == Spec => []TypeOK
<1>1. Init => UploadFlags
  BY DEF Init, UploadInit, UploadFlags
<1>2. Init => UploadValues
  BY DEF Init, UploadInit, UploadValues
<1>3. HostCommandTypeOK /\ UploadFlags /\ UploadValues => TypeOK
  BY Zenon DEF UploadFlags, UploadValues, UploadTypeOK, TypeOK
<1> QED
  BY <1>1, <1>2, <1>3, UploadFlagsStep, UploadValuesStep, UploadIsHostCommand,
     HostCommandTypes, PTL DEF Spec

(***************************************************************************)
(* What holds of every command.                                            *)
(***************************************************************************)

(* The upload command never blocks on its latch with nothing left that     *)
(* would wake it, however its load list and its data files fare.           *)
THEOREM UploadNeverStranded == Spec => []NeverStranded
BY UploadIsHostCommand, HostCommandNeverStranded, PTL

(* After finished, whatever arrives late: calls of finished come only from *)
(* what was pending, so their number is bounded by it.                     *)
THEOREM UploadDrains == Spec => FinishedOnlyDrains
BY UploadIsHostCommand, HostCommandDrains, PTL

(***************************************************************************)
(* One load list: the command asks for it at most once, as it notes before *)
(* the transfer completes that it did.                                     *)
(***************************************************************************)

LoadListInv ==
  /\ loadListRequests \in 0..1
  /\ ~loadListTransmitted => loadListRequests = 0

LEMMA LoadListStep == LoadListInv /\ [Next]_vars => LoadListInv'
<1> SUFFICES ASSUME LoadListInv, [Next]_vars
             PROVE  LoadListInv'
  OBVIOUS
<1>1. CASE UNCHANGED <<loadListRequests, loadListTransmitted>>
  BY <1>1 DEF LoadListInv
<1> USE DEF uploadVars, commandVars
<1>2. ASSUME NEW file \in StatusFiles, StatusFileCompleted(file)
      PROVE  LoadListInv'
  <2>1. ASSUME NEW code \in StatusCodes, Status(code)
        PROVE  LoadListInv'
    <3>1. CASE code = "Accepted" /\ ~loadListTransmitted
      BY <2>1, <3>1 DEF Status, LoadList, LoadListInv
    <3>2. CASE ~(code = "Accepted" /\ ~loadListTransmitted)
      BY <1>1, <2>1, <3>2 DEF Status
    <3> QED
      BY <3>1, <3>2
  <2>2. CASE Base(StatusLost(file))
    BY <1>1, <2>2 DEF Base
  <2> QED
    BY <1>2, <2>1, <2>2 DEF StatusFileCompleted
<1>3. CASE MainThread
  BY <1>1, <1>3 DEF MainThread, Start
<1>4. CASE Signals \/ Initialisation \/ UploadTimer \/ UploadTimeout \/ Base(StatusRequest)
  BY <1>1, <1>4 DEF Signals, Initialisation, UploadTimer, UploadTimeout, Base
<1>5. CASE LoadListTransferred
  BY <1>1, <1>5 DEF LoadListTransferred, LoadListCompleted
<1>6. ASSUME NEW file \in DataFiles, FileRequest(file) \/ FileCompleted(file)
      PROVE  LoadListInv'
  BY <1>1, <1>6 DEF FileRequest, FileCompleted
<1>7. CASE UNCHANGED vars
  BY <1>1, <1>7 DEF vars
<1> QED
  BY <1>2, <1>3, <1>4, <1>5, <1>6, <1>7 DEF Next

(* However status files overlap, repeat or follow a failed load list, the  *)
(* target is sent at most one.                                             *)
THEOREM UploadLoadListOnce == Spec => []LoadListRequestedOnce
<1>1. Init => LoadListInv
  BY DEF Init, UploadInit, LoadListInv
<1>2. LoadListInv => LoadListRequestedOnce
  BY DEF LoadListInv, LoadListRequestedOnce
<1> QED
  BY <1>1, <1>2, LoadListStep, PTL DEF Spec

(***************************************************************************)
(* The session: its target.                                                *)
(***************************************************************************)

LEMMA TargetUnchanged == UNCHANGED targetSideVars => UNCHANGED Target!vars
BY DEF targetSideVars, Target!vars, Target!targetVars, Target!applicationVars,
       Target!protocolVars, Target!fileVars

LEMMA HostSideKeepsTarget == HostSide => UNCHANGED targetSideVars
BY DEF HostSide, OperationStarted, InitialisationRead, LoadListWritten, HostAlone

LEMMA TargetSideStep == TargetSide => [Target!Next]_Target!vars
<1> SUFFICES ASSUME TargetSide
             PROVE  Target!Next
  OBVIOUS
<1> USE DEF TargetAlone, Target!Next
<1>1. CASE ApplicationFinishes
  BY <1>1 DEF ApplicationFinishes, Target!Application
<1>2. CASE InitialisationRequested
  <2>1. "Upload" \in Target!Operations
    BY DEF Target!Operations
  <2> QED
    BY <1>2, <2>1 DEF InitialisationRequested, Target!InitialisationRequest
<1>3. CASE InitialisationWritten \/ LoadListRequested \/ LoadListRead
  BY <1>3 DEF InitialisationWritten, LoadListRequested, LoadListRead
<1> QED
  BY <1>1, <1>2, <1>3 DEF TargetSide

LEMMA StatusFileSideStep == StatusFileSide => [Target!Next]_Target!vars
<1> USE TargetUnchanged DEF Target!Next
<1>1. ASSUME NEW file \in StatusFiles,
             StatusFileAccepted(file) \/ StatusFileRead(file) \/ StatusFileUnread(file)
      PROVE  UNCHANGED Target!vars
  BY <1>1 DEF StatusFileAccepted, StatusFileRead, StatusFileUnread, HostAlone
<1>2. StatusFileAborted \/ StatusFileWritten \/ StatusFileSent => [Target!Next]_Target!vars
  BY DEF StatusFileAborted, StatusFileWritten, StatusFileSent
<1> QED
  BY <1>1, <1>2 DEF StatusFileSide

(* The target's side of the session is the target on its own: whatever is  *)
(* proved of it for any host holds of it in the session.                   *)
THEOREM SessionIsTarget == SessionSpec => Target!Spec
<1>1. SessionInit => Target!Init
  BY DEF SessionInit
<1>2. UNCHANGED sessionVars => UNCHANGED Target!vars
  BY TargetUnchanged DEF sessionVars
<1>3. [SessionNext]_sessionVars => [Target!Next]_Target!vars
  BY <1>2, HostSideKeepsTarget, TargetUnchanged, TargetSideStep, StatusFileSideStep
     DEF SessionNext
<1> QED
  BY <1>1, <1>3, PTL DEF SessionSpec, Target!Spec

(* TargetProofs is about the same specification: the definitions of the    *)
(* two instances are the same, formula by formula.                         *)
LEMMA SessionTargetIsProved == SessionSpec => Proved!Spec
<1>1. Target!Init => Proved!Init
  BY DEF Target!Init, Proved!Init, Target!TargetInit, Proved!TargetInit,
         Target!NoCode, Proved!NoCode, Target!NoTransfer, Proved!NoTransfer
<1>2. [Target!Next]_Target!vars => [Proved!Next]_Proved!vars
  BY DEF Target!FinalStatuses, Proved!FinalStatuses, Target!StatusCode,
         Proved!StatusCode, Target!FinalStatus, Proved!FinalStatus,
         Target!FinalStatusCodes, Proved!FinalStatusCodes,
         Target!RunningStatusCodes, Proved!RunningStatusCodes, Target!NoCode,
         Proved!NoCode, Target!targetVars, Proved!targetVars,
         Target!NoTransfer, Proved!NoTransfer, Target!Finalise,
         Proved!Finalise, Target!TriggerStatusTransmission,
         Proved!TriggerStatusTransmission, Target!EncodeStatus,
         Proved!EncodeStatus, Target!IoThreadIdle, Proved!IoThreadIdle,
         Target!SendInitFile, Proved!SendInitFile, Target!SendInitFileComplete,
         Proved!SendInitFileComplete, Target!StatusTimerExpires,
         Proved!StatusTimerExpires, Target!StatusTimerHandler,
         Proved!StatusTimerHandler, Target!RequestStatusFile,
         Proved!RequestStatusFile, Target!StatusFileOver,
         Proved!StatusFileOver, Target!StatusFileAborted,
         Proved!StatusFileAborted, Target!StatusFileFailed,
         Proved!StatusFileFailed, Target!StatusFileTransmitted,
         Proved!StatusFileTransmitted, Target!SetStatus, Proved!SetStatus,
         Target!ForceTransmission, Proved!ForceTransmission,
         Target!SetAndForce, Proved!SetAndForce, Target!SetAndSend,
         Proved!SetAndSend, Target!Operations, Proved!Operations,
         Target!applicationVars, Proved!applicationVars, Target!protocolVars,
         Proved!protocolVars, Target!fileVars, Proved!fileVars, Target!vars,
         Proved!vars, Target!Requested, Proved!Requested,
         Target!OperationCreated, Proved!OperationCreated,
         Target!OperationAccepted, Proved!OperationAccepted,
         Target!OperationRejected, Proved!OperationRejected,
         Target!ErrorOperationCompleted, Proved!ErrorOperationCompleted,
         Target!InitialisationRequest, Proved!InitialisationRequest,
         Target!Active, Proved!Active, Target!SetsAndForces,
         Proved!SetsAndForces, Target!Accepted, Proved!Accepted,
         Target!InProgress, Proved!InProgress, Target!Finished,
         Proved!Finished, Target!ApplicationForces, Proved!ApplicationForces,
         Target!Application, Proved!Application, Target!Unaffected,
         Proved!Unaffected, Target!StatusTimer, Proved!StatusTimer,
         Target!StatusFile, Proved!StatusFile, Target!StatusAborted,
         Proved!StatusAborted, Target!InformationProceeds,
         Proved!InformationProceeds, Target!InformationEndsInHandler,
         Proved!InformationEndsInHandler, Target!StatusTransmitted,
         Proved!StatusTransmitted, Target!StatusFailed, Proved!StatusFailed,
         Target!WrittenFileRequested, Proved!WrittenFileRequested,
         Target!RequestFileRequested, Proved!RequestFileRequested,
         Target!AnswerFileRequested, Proved!AnswerFileRequested,
         Target!WrittenFileCompleted, Proved!WrittenFileCompleted,
         Target!RequestFileCompleted, Proved!RequestFileCompleted,
         Target!AnswerFileCompleted, Proved!AnswerFileCompleted,
         Target!SendList, Proved!SendList, Target!ListOver, Proved!ListOver,
         Target!DownloadingListCompleted, Proved!DownloadingListCompleted,
         Target!TargetInformationTransmitted,
         Proved!TargetInformationTransmitted,
         Target!TargetInformationCompleted, Proved!TargetInformationCompleted,
         Target!Next, Proved!Next
<1> QED
  BY <1>1, <1>2, SessionIsTarget, PTL DEF Target!Spec, Proved!Spec

LEMMA SessionTargetAssumption == Proved!TargetAssumption
BY SessionAssumption
   DEF SessionAssumption, Proved!TargetAssumption, Target!FinalStatuses, Proved!FinalStatuses

(* The operation is an upload, and the application works on the io thread. *)
UploadOnIoThread == ~ownThread /\ operation \in {"none", "Upload"}

LEMMA UploadOnIoThreadStep == UploadOnIoThread /\ [SessionNext]_sessionVars => UploadOnIoThread'
<1> SUFFICES ASSUME UploadOnIoThread, [SessionNext]_sessionVars
             PROVE  UploadOnIoThread'
  OBVIOUS
<1> USE DEF UploadOnIoThread
<1>1. CASE UNCHANGED targetSideVars
  BY <1>1 DEF targetSideVars
<1>2. CASE TargetSide
  BY <1>2
     DEF TargetSide, TargetAlone, ApplicationFinishes, Target!Finished, Target!protocolVars,
         Target!StatusTimer, Target!Unaffected, InitialisationRequested,
         Target!OperationAccepted, Target!OperationCreated, Target!OperationRejected,
         InitialisationWritten, Target!ErrorOperationCompleted, LoadListRequested,
         Target!RequestFileRequested, Target!WrittenFileRequested,
         LoadListRead, Target!RequestFileCompleted, Target!WrittenFileCompleted
<1>3. CASE StatusFileSide
  BY <1>1, <1>3
     DEF StatusFileSide, StatusFileAccepted, StatusFileRead, StatusFileUnread, HostAlone,
         StatusFileAborted, Target!StatusAborted, StatusFileWritten, Target!StatusTransmitted,
         Target!StatusFailed, StatusFileSent, Target!StatusFile, Target!Unaffected,
         Target!protocolVars
<1> QED
  BY <1>1, <1>2, <1>3, HostSideKeepsTarget DEF SessionNext, sessionVars

Codes == Proved!Codes

(* What the proofs below use of the target: the types, and that the file   *)
(* of a status and its end hold the same code.                             *)
TargetInv ==
  /\ UploadOnIoThread
  /\ Proved!TargetValues
  /\ Proved!EncodedSet
  /\ Proved!FileIsStatus

LEMMA SessionTargetInv == SessionSpec => []TargetInv
<1>1. SessionInit => UploadOnIoThread
  BY DEF SessionInit, Target!Init, UploadOnIoThread
<1>2. Proved!TypeOK => Proved!TargetValues
  BY DEF Proved!TypeOK, Proved!TargetTypeOK, Proved!TargetValues, Proved!Codes
<1>3. UploadOnIoThread /\ Proved!FilesReachHost => Proved!FileIsStatus
  BY DEF UploadOnIoThread, Proved!FilesReachHost
<1> QED
  BY <1>1, <1>2, <1>3, UploadOnIoThreadStep, SessionTargetIsProved, SessionTargetAssumption,
     Proved!TargetTypes, Proved!TargetFilesReachHost, PTL DEF SessionSpec, TargetInv

(***************************************************************************)
(* What the steps of the session do to the two sides and to the network.   *)
(***************************************************************************)

LEMMA HostSideKeeps == HostSide => UNCHANGED <<statusFileOperations, networkVars, targetSideVars>>
<1> SUFFICES ASSUME HostSide
             PROVE  UNCHANGED <<statusFileOperations, networkVars, targetSideVars>>
  OBVIOUS
<1> USE DEF HostAlone, Base, InIoThread, hostVars
<1>1. CASE OperationStarted
  BY <1>1 DEF OperationStarted, MainThread, Connect, StartServer, InitialiseServer, StartRequest,
              InitialiseRequest, ExecuteThrows, DoneWaitReturns, ExecuteReturns, StopIoContext
<1>2. CASE HostAlone(Signals)
  BY <1>2 DEF Signals, AbortSignal, DoAbort, TerminateSignal, DoTerminate
<1>3. CASE HostAlone(UploadTimer) \/ HostAlone(UploadTimeout)
  BY <1>3 DEF UploadTimer, TimerExpires, DlpTimerExpires, UploadTimeout, Timeout, TimerHandler
<1>4. CASE InitialisationRead
  BY <1>4 DEF InitialisationRead, Initialisation, InitialisationFileCompleted,
              InitialisationAccepted, InitialisationFailed
<1>5. CASE LoadListWritten
  BY <1>5 DEF LoadListWritten, LoadListTransferred, TransferOver, AbortFromWithin, DoAbort
<1> QED
  BY <1>1, <1>2, <1>3, <1>4, <1>5 DEF HostSide

(* The application declares its result, a list that cannot be read fails   *)
(* the operation, and so does an initialisation file nobody reads.         *)
Declares ==
  \E final \in Finals :
    /\ finalDeclared = NoCode
    /\ finalDeclared' = final
    /\ status' = Target!StatusCode(final)
    /\ UNCHANGED outcome

Fails ==
  /\ UNCHANGED finalDeclared
  /\ \/ status' = "AbortedByTargetHw" /\ UNCHANGED outcome
     \/ UNCHANGED status /\ outcome = NoCode /\ outcome' = "AbortedByTargetHardware"

LEMMA TargetSideDoes ==
  ASSUME UploadOnIoThread, TargetSide
  PROVE  /\ UNCHANGED <<vars, encoded, statusTransfer, statusVars, received, hostOutcome>>
         /\ Declares \/ Fails \/ UNCHANGED <<status, finalDeclared, outcome>>
<1>0. Target!NoCode = NoCode
  BY DEF Target!NoCode, NoCode
<1> USE DEF TargetAlone, networkVars, Fails
<1>1. CASE ApplicationFinishes
  <2>1. PICK final \in Finals : TargetAlone(Target!Finished(final))
    BY <1>1 DEF ApplicationFinishes
  <2>2. Target!SetAndForce(Target!StatusCode(final))
    BY <2>1 DEF Target!Finished, Target!SetsAndForces, UploadOnIoThread
  <2> QED
    BY <1>0, <2>1, <2>2 DEF Target!Finished, Target!Active, Target!SetAndForce, Declares
<1>2. CASE TargetAlone(Target!StatusTimer)
  BY <1>2 DEF Target!StatusTimer, Target!StatusTimerExpires, Target!Unaffected,
              Target!applicationVars
<1>3. CASE InitialisationRequested
  BY <1>3 DEF InitialisationRequested, Target!OperationAccepted, Target!SendInitFile,
              Target!OperationRejected, Target!targetVars, Target!applicationVars
<1>4. CASE InitialisationWritten
  BY <1>0, <1>4 DEF InitialisationWritten, Target!SendInitFileComplete, Target!Finalise,
              Target!Unaffected, Target!ErrorOperationCompleted, Target!targetVars,
              Target!applicationVars
<1>5. CASE LoadListRequested \/ LoadListRead
  BY <1>5 DEF LoadListRequested, Target!RequestFileRequested, Target!WrittenFileRequested,
              LoadListRead, Target!RequestFileCompleted, Target!WrittenFileCompleted,
              Target!SetAndForce, Target!targetVars, Target!applicationVars
<1> QED
  BY <1>1, <1>2, <1>3, <1>4, <1>5 DEF TargetSide

(***************************************************************************)
(* The network: every transfer the host has holds a status of the target,  *)
(* and what the target's client sends is what its peer receives.           *)
(***************************************************************************)

NetworkInv ==
  /\ carried \in [StatusFiles -> Codes \cup {NoCode}]
  /\ peer \in StatusFiles \cup {NoFile}
  /\ received \in SUBSET Codes
  /\ \A file \in statusFileOperations : carried[file] \in Codes
  /\ peer # NoFile => statusTransfer # Target!NoTransfer /\ carried[peer] = statusTransfer.file
  /\ acknowledged => statusTransfer # Target!NoTransfer /\ statusTransfer.file \in received

LEMMA StatusTransferTypes ==
  ASSUME Proved!TargetValues, statusTransfer # Target!NoTransfer
  PROVE  statusTransfer.file \in Codes /\ statusTransfer.sent \in Codes
BY DEF Proved!TargetValues, Proved!NoTransfer, Target!NoTransfer, Codes,
       Proved!NoCode, Target!NoCode

LEMMA NetworkInvStep ==
  ASSUME TargetInv, NetworkInv, [SessionNext]_sessionVars
  PROVE  NetworkInv'
<1> USE SessionAssumption DEF NetworkInv, SessionAssumption
<1>1. CASE UNCHANGED sessionVars
  BY <1>1 DEF sessionVars, vars, hostCommandVars, hostVars, targetSideVars, networkVars,
              statusVars
<1>2. CASE HostSide
  BY <1>2, HostSideKeeps DEF networkVars, statusVars, targetSideVars
<1>3. CASE TargetSide
  BY <1>3, TargetSideDoes DEF TargetInv, statusVars, vars, hostCommandVars, hostVars
<1>4. ASSUME NEW file \in StatusFiles, StatusFileAccepted(file)
      PROVE  NetworkInv'
  BY <1>4, StatusTransferTypes DEF StatusFileAccepted, TargetInv, targetSideVars
<1>5. ASSUME NEW file \in StatusFiles, StatusFileRead(file)
      PROVE  NetworkInv'
  <2>1. /\ file \in statusFileOperations
        /\ statusFileOperations' = statusFileOperations \ {file}
    BY <1>5 DEF StatusFileRead, StatusReceived, StatusFileReceived, RemoveStatusFile
  <2>2. carried[file] \in Codes /\ received' = received \cup {carried[file]}
    BY <1>5, <2>1 DEF StatusFileRead
  <2> QED
    BY <1>5, <2>1, <2>2 DEF StatusFileRead, targetSideVars
<1>6. ASSUME NEW file \in StatusFiles, StatusFileUnread(file)
      PROVE  NetworkInv'
  BY <1>6 DEF StatusFileUnread, HostAlone, StatusFileFailed, RemoveStatusFile,
              networkVars, statusVars, targetSideVars
<1>7. CASE StatusFileAborted
  <2>1. UNCHANGED statusFileOperations
    BY <1>7 DEF StatusFileAborted, Base, StatusRequest, StatusFileRefused, StatusFileRequest
  <2> QED
    BY <1>7, <2>1 DEF StatusFileAborted, targetSideVars
<1>8. CASE StatusFileWritten
  BY <1>8 DEF StatusFileWritten, vars, hostCommandVars, hostVars
<1>9. CASE StatusFileSent
  <2>1. UNCHANGED <<carried, received, statusFileOperations>>
    BY <1>9 DEF StatusFileSent, vars, hostCommandVars, hostVars
  <2>2. CASE encoded' = NoCode
    BY <1>9, <2>1, <2>2 DEF StatusFileSent
  <2>3. CASE encoded' # NoCode
    BY <1>9, <2>1, <2>3 DEF StatusFileSent, Target!StatusFile, Target!StatusTimerHandler,
                            Target!RequestStatusFile, NoCode, Target!NoCode
  <2> QED
    BY <2>2, <2>3
<1> QED
  BY <1>1, <1>2, <1>3, <1>4, <1>5, <1>6, <1>7, <1>8, <1>9 DEF SessionNext, StatusFileSide

LEMMA SessionNetworkInv == SessionSpec => []NetworkInv
<1>1. SessionInit => NetworkInv
  BY DEF SessionInit, Init, HostCommandInit, HostInit, NetworkInv
<1> QED
  BY <1>1, NetworkInvStep, SessionTargetInv, PTL DEF SessionSpec

(***************************************************************************)
(* The session: its host.                                                  *)
(***************************************************************************)

LEMMA TargetCodesAreStatusCodes == Codes \subseteq StatusCodes /\ NoCode \notin Codes
BY DEF Codes, Proved!Codes, Proved!RunningStatusCodes, Proved!FinalStatusCodes,
       Proved!FinalStatuses, Proved!StatusCode, StatusCodes, FinalCodes, RunningCodes, NoCode

LEMMA SessionHostStep ==
  ASSUME TargetInv, NetworkInv, [SessionNext]_sessionVars
  PROVE  [Next]_vars
<1> USE DEF Next
<1>1. CASE UNCHANGED vars
  BY <1>1
<1>2. CASE HostSide
  BY <1>2 DEF HostSide, HostAlone, OperationStarted, InitialisationRead, LoadListWritten
<1>3. CASE TargetSide
  BY <1>3, TargetSideDoes DEF TargetInv
<1>4. ASSUME NEW file \in StatusFiles, StatusFileAccepted(file)
      PROVE  [Next]_vars
  BY <1>4 DEF StatusFileAccepted
<1>5. ASSUME NEW file \in StatusFiles, StatusFileRead(file)
      PROVE  [Next]_vars
  <2>1. carried[file] \in StatusCodes
    BY <1>5, TargetCodesAreStatusCodes
       DEF NetworkInv, StatusFileRead, StatusReceived, StatusFileReceived, RemoveStatusFile
  <2> QED
    BY <1>5, <2>1 DEF StatusFileRead, StatusFileCompleted
<1>6. ASSUME NEW file \in StatusFiles, StatusFileUnread(file)
      PROVE  [Next]_vars
  BY <1>6 DEF StatusFileUnread, HostAlone, InIoThread, StatusFileCompleted, Base, StatusLost
<1>7. CASE StatusFileAborted
  BY <1>7 DEF StatusFileAborted
<1>8. CASE StatusFileWritten \/ StatusFileSent
  BY <1>8 DEF StatusFileWritten, StatusFileSent
<1> QED
  BY <1>1, <1>2, <1>3, <1>4, <1>5, <1>6, <1>7, <1>8
     DEF SessionNext, StatusFileSide, sessionVars

(* The host's side of the session is the upload command: the target of the *)
(* session does nothing that UploadCommand does not expect of a target.    *)
THEOREM SessionIsUploadCommand == SessionSpec => Spec
<1>1. SessionInit => Init
  BY DEF SessionInit
<1> QED
  BY <1>1, SessionHostStep, SessionTargetInv, SessionNetworkInv, PTL DEF SessionSpec, Spec

(* Hence the command does not block for ever while the target goes on, nor *)
(* does the target stop transmitting while the command waits.              *)
THEOREM SessionGoesOn == SessionSpec => [](NeverStranded /\ Target!StatusLoopAlive)
<1>1. Proved!StatusLoopAlive => Target!StatusLoopAlive
  BY DEF Proved!StatusLoopAlive, Target!StatusLoopAlive, Proved!NoCode, Target!NoCode
<1> QED
  BY <1>1, SessionIsUploadCommand, UploadNeverStranded, SessionTargetIsProved,
     SessionTargetAssumption, Proved!TargetStatusLoop, PTL

(***************************************************************************)
(* Results: a code that stands for one result is nowhere, neither on the   *)
(* target nor on its way nor at the host, before it has been declared.     *)
(***************************************************************************)

Definite == Target!FinalStatuses \ Failures

OnlyDeclared(code) == code \in Definite => code = finalDeclared

ResultInv ==
  /\ finalDeclared \in Target!FinalStatuses \cup {NoCode}
  /\ OnlyDeclared(status)
  /\ OnlyDeclared(encoded)
  /\ OnlyDeclared(statusTransfer.file)
  /\ \A code \in received : OnlyDeclared(code)
  /\ \A file \in StatusFiles : OnlyDeclared(carried[file])

LEMMA DefiniteAre ==
  /\ Definite = {"Completed", "AbortedByDlp", "AbortedByOperator"}
  /\ NoCode \notin Definite
  /\ "Accepted" \notin Definite
  /\ \A final \in Target!FinalStatuses : Target!StatusCode(final) \in Definite
       => Target!StatusCode(final) = final
BY DEF Definite, Target!FinalStatuses, Failures, NoCode, Target!StatusCode

LEMMA ResultInvStep ==
  ASSUME TargetInv, NetworkInv, ResultInv, [SessionNext]_sessionVars
  PROVE  ResultInv'
<1>0. Target!NoTransfer.file = NoCode
  BY DEF Target!NoTransfer, Target!NoCode, NoCode
<1> USE DefiniteAre DEF ResultInv, OnlyDeclared
<1>1. CASE UNCHANGED sessionVars
  BY <1>1 DEF sessionVars, targetSideVars, networkVars, statusVars
<1>2. CASE HostSide
  BY <1>2, HostSideKeeps DEF networkVars, statusVars, targetSideVars
<1>3. CASE TargetSide
  <2>1. UNCHANGED <<encoded, statusTransfer, carried, received>>
    BY <1>3, TargetSideDoes DEF TargetInv, statusVars
  <2>2. CASE Declares
    <3>1. PICK final \in Target!FinalStatuses :
            /\ finalDeclared = NoCode
            /\ finalDeclared' = final
            /\ status' = Target!StatusCode(final)
      BY <2>2, SessionAssumption DEF Declares, SessionAssumption
    <3> QED
      BY <2>1, <3>1
  <2>3. CASE Fails
    BY <2>1, <2>3 DEF Fails
  <2>4. CASE UNCHANGED <<status, finalDeclared>>
    BY <2>1, <2>4
  <2> QED
    BY <1>3, <2>2, <2>3, <2>4, TargetSideDoes DEF TargetInv
<1>4. ASSUME NEW file \in StatusFiles, StatusFileAccepted(file)
      PROVE  ResultInv'
  BY <1>4 DEF NetworkInv, StatusFileAccepted, targetSideVars
<1>5. ASSUME NEW file \in StatusFiles, StatusFileRead(file)
      PROVE  ResultInv'
  BY <1>5 DEF StatusFileRead, targetSideVars
<1>6. ASSUME NEW file \in StatusFiles, StatusFileUnread(file)
      PROVE  ResultInv'
  BY <1>6 DEF StatusFileUnread, HostAlone, targetSideVars, networkVars, statusVars
<1>7. CASE StatusFileAborted
  BY <1>0, <1>7 DEF StatusFileAborted, Target!StatusAborted, Target!StatusFileAborted,
                    Target!StatusFileOver, Target!applicationVars, targetSideVars
<1>8. CASE StatusFileWritten
  <2>1. Target!StatusFileTransmitted \/ Target!StatusFileFailed
    BY <1>8 DEF TargetInv, UploadOnIoThread, StatusFileWritten, Target!StatusTransmitted,
                Target!StatusFailed
  <2>2. /\ statusTransfer' = Target!NoTransfer
        /\ UNCHANGED <<status, encoded>>
    BY <2>1 DEF Target!StatusFileTransmitted, Target!StatusFileFailed, Target!StatusFileOver
  <2>3. UNCHANGED <<finalDeclared, carried, received>>
    BY <1>8 DEF TargetInv, UploadOnIoThread, StatusFileWritten, Target!StatusTransmitted,
                Target!StatusFailed, Target!Unaffected, Target!applicationVars
  <2> QED
    BY <1>0, <2>2, <2>3
<1>9. CASE StatusFileSent
  <2>1. UNCHANGED <<finalDeclared, carried, received>>
    BY <1>9 DEF StatusFileSent, Target!StatusFile, Target!Unaffected, Target!applicationVars
  <2>2. CASE Target!StatusTimerHandler
    BY <2>1, <2>2 DEF Target!StatusTimerHandler, Target!EncodeStatus
  <2>3. CASE Target!RequestStatusFile
    BY <2>1, <2>3 DEF Target!RequestStatusFile, Target!NoCode, NoCode
  <2> QED
    BY <1>9, <2>2, <2>3 DEF StatusFileSent, Target!StatusFile
<1> QED
  BY <1>1, <1>2, <1>3, <1>4, <1>5, <1>6, <1>7, <1>8, <1>9 DEF SessionNext, StatusFileSide

(***************************************************************************)
(* The host is told an outcome with the first status that is one.          *)
(***************************************************************************)

ToldInv == \A code \in received \ RunningCodes : hostOutcome # NoCode

LEMMA TellsOnce ==
  ASSUME NEW told, Tells(told), told # NoCode
  PROVE  hostOutcome' = hostOutcome \/ (hostOutcome = NoCode /\ hostOutcome' = told)
BY DEF Tells

(* What the host's handler is told is a failure, unless the status file it *)
(* has just read says otherwise.                                           *)
LEMMA HostToldFailure ==
  ASSUME HostSide \/ StatusFileAborted
           \/ \E file \in StatusFiles : StatusFileAccepted(file) \/ StatusFileUnread(file)
  PROVE  /\ hostOutcome' = hostOutcome \/ (hostOutcome = NoCode /\ hostOutcome' = "Failed")
         /\ UNCHANGED <<received, finalDeclared, outcome>>
<1>1. "Failed" # NoCode
  BY DEF NoCode
<1>2. Tells("Failed")
  BY DEF HostSide, HostAlone, OperationStarted, InitialisationRead, LoadListWritten,
         StatusFileAborted, StatusFileAccepted, StatusFileUnread
<1>3. UNCHANGED <<received, finalDeclared, outcome>>
  <2>1. HostSide => UNCHANGED <<received, finalDeclared, outcome>>
    BY HostSideKeeps DEF networkVars, targetSideVars
  <2>2. StatusFileAborted => UNCHANGED <<received, finalDeclared, outcome>>
    BY DEF StatusFileAborted, Target!StatusAborted, Target!StatusFileAborted,
           Target!applicationVars, targetSideVars
  <2>3. ASSUME NEW file \in StatusFiles, StatusFileAccepted(file) \/ StatusFileUnread(file)
        PROVE  UNCHANGED <<received, finalDeclared, outcome>>
    BY <2>3 DEF StatusFileAccepted, StatusFileUnread, HostAlone, networkVars, targetSideVars
  <2> QED
    BY <2>1, <2>2, <2>3
<1> QED
  BY <1>1, <1>2, <1>3, TellsOnce

LEMMA HostReads ==
  ASSUME NetworkInv, NEW file \in StatusFiles, StatusFileRead(file)
  PROVE  /\ carried[file] \in Codes /\ carried[file] # NoCode
         /\ received' = received \cup {carried[file]}
         /\ \/ hostOutcome' = hostOutcome
            \/ hostOutcome = NoCode /\ hostOutcome' = carried[file]
         /\ carried[file] \in RunningCodes => UNCHANGED hostOutcome
         /\ carried[file] \notin RunningCodes /\ finishedCalls \in Nat => hostOutcome' # NoCode
         /\ UNCHANGED <<finalDeclared, outcome>>
<1>1. carried[file] \in Codes /\ carried[file] # NoCode
  <2>1. carried[file] \in Codes
    BY DEF NetworkInv, StatusFileRead, StatusReceived, StatusFileReceived, RemoveStatusFile
  <2> QED
    BY <2>1, TargetCodesAreStatusCodes
<1>2. carried[file] \in RunningCodes => UNCHANGED finishedCalls
  BY DEF StatusFileRead, StatusReceived, StatusFileReceived
<1>3. carried[file] \notin RunningCodes => finishedCalls' = finishedCalls + 1
  BY DEF StatusFileRead, StatusReceived, StatusFileReceived, Finished
<1>4. carried[file] \notin RunningCodes /\ finishedCalls \in Nat => finishedCalls' # finishedCalls
  BY <1>3
<1> QED
  BY <1>1, <1>2, <1>4 DEF StatusFileRead, Tells, targetSideVars

LEMMA ToldInvStep ==
  ASSUME TargetInv, NetworkInv, ToldInv, finishedCalls \in Nat, [SessionNext]_sessionVars
  PROVE  ToldInv'
<1> USE DEF ToldInv
<1>1. CASE HostSide \/ StatusFileAborted
             \/ \E file \in StatusFiles : StatusFileAccepted(file) \/ StatusFileUnread(file)
  <2>1. "Failed" # NoCode
    BY DEF NoCode
  <2> QED
    BY <1>1, <2>1, HostToldFailure
<1>2. ASSUME NEW file \in StatusFiles, StatusFileRead(file)
      PROVE  ToldInv'
  BY <1>2, HostReads
<1>3. CASE TargetSide
  BY <1>3, TargetSideDoes DEF TargetInv
<1>4. CASE StatusFileWritten \/ StatusFileSent \/ UNCHANGED sessionVars
  BY <1>4 DEF StatusFileWritten, StatusFileSent, sessionVars, networkVars
<1> QED
  BY <1>1, <1>2, <1>3, <1>4 DEF SessionNext, StatusFileSide

LEMMA SessionResults == SessionSpec => [](ResultInv /\ ToldInv)
<1>1. SessionInit => ResultInv
  BY DefiniteAre
     DEF SessionInit, Target!Init, Target!TargetInit, Target!NoTransfer, Target!NoCode, NoCode,
         ResultInv, OnlyDeclared
<1>2. SessionInit => ToldInv
  BY DEF SessionInit, Init, HostCommandInit, HostInit, ToldInv
<1>3. HostCommandTypeOK => finishedCalls \in Nat
  BY DEF HostCommandTypeOK, HostTypeOK
<1> QED
  BY <1>1, <1>2, <1>3, ResultInvStep, ToldInvStep, SessionTargetInv, SessionNetworkInv,
     SessionIsUploadCommand, UploadIsHostCommand, HostCommandTypes, PTL DEF SessionSpec

(***************************************************************************)
(* The session keeps the promises of OperationOutcome.                     *)
(***************************************************************************)

(* The host is told a failure, or nothing.                                 *)
LEMMA HostFailure ==
  ASSUME \/ UNCHANGED hostOutcome
         \/ hostOutcome = NoCode /\ hostOutcome' \notin {NoCode, "Completed"},
         UNCHANGED <<finalDeclared, ResultKnown, outcome>>
  PROVE  [Outcome!Next]_Outcome!outcomeVars
BY DEF Outcome!Next, Outcome!HostFails, Outcome!outcomeVars

LEMMA TargetSideOutcome ==
  ASSUME TargetInv, NetworkInv, ResultInv, TargetSide
  PROVE  [Outcome!Next]_Outcome!outcomeVars
<1>1. UNCHANGED <<received, hostOutcome>>
  BY TargetSideDoes DEF TargetInv
<1>2. CASE Declares
  <2>1. PICK final \in Finals :
          /\ finalDeclared = NoCode
          /\ finalDeclared' = final
          /\ UNCHANGED outcome
    BY <1>2 DEF Declares
  <2>2. ~ResultKnown
    BY <2>1, TargetCodesAreStatusCodes DEF ResultKnown, NetworkInv
  <2>3. ~ResultKnown'
    <3>1. final \in Definite => final \notin received
      BY <2>1, DefiniteAre DEF ResultInv, OnlyDeclared
    <3> QED
      BY <1>1, <2>1, <3>1, SessionAssumption DEF ResultKnown, Definite, SessionAssumption
  <2>4. UNCHANGED ResultKnown
    BY <2>2, <2>3 DEF ResultKnown
  <2> QED
    BY <1>1, <2>1, <2>4 DEF Outcome!Next, Outcome!Declare
<1>3. CASE Fails
  <2>1. UNCHANGED ResultKnown
    BY <1>1, <1>3 DEF Fails, ResultKnown
  <2> QED
    BY <1>1, <1>3, <2>1
       DEF Fails, Outcome!Next, Outcome!TargetTold, Outcome!outcomeVars, Failures
<1>4. CASE UNCHANGED <<finalDeclared, outcome>>
  BY <1>1, <1>4 DEF ResultKnown, Outcome!outcomeVars
<1> QED
  BY <1>2, <1>3, <1>4, TargetSideDoes DEF TargetInv

LEMMA StatusFileReadOutcome ==
  ASSUME NetworkInv, ResultInv, finishedCalls \in Nat,
         NEW file \in StatusFiles, StatusFileRead(file)
  PROVE  [Outcome!Next]_Outcome!outcomeVars
<1>1. /\ received' = received \cup {carried[file]}
      /\ carried[file] # NoCode
      /\ hostOutcome' = hostOutcome
           \/ (hostOutcome = NoCode /\ hostOutcome' = carried[file])
      /\ UNCHANGED <<finalDeclared, outcome>>
  BY HostReads
<1>2. CASE carried[file] \in Definite
  <2>1. finalDeclared = carried[file] /\ finalDeclared # NoCode
    BY <1>2, DefiniteAre DEF ResultInv, OnlyDeclared
  <2>2. ResultKnown'
    BY <1>1, <1>2, <2>1 DEF ResultKnown, Definite
  <2> QED
    BY <1>1, <2>1, <2>2 DEF Outcome!Next, Outcome!HostLearns
<1>3. CASE carried[file] \notin Definite
  <2>1. UNCHANGED ResultKnown
    <3>1. finalDeclared \in Definite \/ finalDeclared \in Failures \/ finalDeclared = NoCode
      BY DEF ResultInv, Definite
    <3> QED
      BY <1>1, <1>3, <3>1 DEF ResultKnown
  <2>2. carried[file] # "Completed"
    BY <1>3, DefiniteAre
  <2> QED
    BY <1>1, <2>1, <2>2, HostFailure
<1> QED
  BY <1>2, <1>3

(* The target is told the end of a transfer: with what its file holds,     *)
(* which the host has received, or with a failure.                         *)
LEMMA StatusFileWrittenOutcome ==
  ASSUME TargetInv, NetworkInv, ResultInv, ToldInv, StatusFileWritten
  PROVE  [Outcome!Next]_Outcome!outcomeVars
<1> DEFINE code == statusTransfer.file
<1>1. UNCHANGED <<finalDeclared, received, hostOutcome>>
  BY DEF TargetInv, UploadOnIoThread, StatusFileWritten, Target!StatusTransmitted,
         Target!StatusFailed, Target!Unaffected, Target!applicationVars
<1>2. UNCHANGED ResultKnown
  BY <1>1 DEF ResultKnown
<1>3. CASE UNCHANGED outcome
  BY <1>1, <1>2, <1>3 DEF Outcome!outcomeVars
<1>4. CASE outcome = NoCode /\ outcome' \in Failures
  BY <1>1, <1>2, <1>4 DEF Outcome!Next, Outcome!TargetTold
<1>5. CASE /\ acknowledged
           /\ code \notin RunningCodes
           /\ outcome = NoCode
           /\ outcome' = Target!FinalStatus(code)
  <2>1. code \in received /\ hostOutcome # NoCode
    BY <1>5 DEF NetworkInv, ToldInv
  <2>2. CASE code \in Definite
    <3>1. finalDeclared = code /\ outcome' = code /\ code # NoCode
      BY <1>5, <2>2, DefiniteAre DEF ResultInv, OnlyDeclared, Target!FinalStatus
    <3>2. ResultKnown
      BY <2>1, <2>2, <3>1 DEF ResultKnown, Definite
    <3> QED
      BY <1>1, <1>2, <1>5, <2>1, <3>1, <3>2 DEF Outcome!Next, Outcome!TargetTold
  <2>3. CASE code \notin Definite
    <3>1. outcome' \in Failures
      BY <1>5, <2>3, DefiniteAre DEF Target!FinalStatus, Failures
    <3> QED
      BY <1>4, <1>5, <3>1
  <2> QED
    BY <2>2, <2>3
<1>6. CASE Target!StatusFailed
  BY <1>3, <1>4, <1>6 DEF Target!StatusFailed, Target!StatusFileFailed, Target!Finalise,
                          Target!NoCode, NoCode, Failures
<1>7. CASE acknowledged /\ Target!StatusTransmitted
  <2>1. Target!StatusFileTransmitted
    BY <1>7 DEF TargetInv, UploadOnIoThread, Target!StatusTransmitted
  <2>2. statusTransfer.sent = code
    BY <1>7 DEF TargetInv, NetworkInv, Proved!FileIsStatus, Proved!NoTransfer, Target!NoTransfer,
                Proved!NoCode, Target!NoCode
  <2> QED
    BY <1>3, <1>5, <1>7, <2>1, <2>2
       DEF Target!StatusFileTransmitted, Target!Finalise, Target!RunningStatusCodes,
           RunningCodes, Target!NoCode, NoCode
<1> QED
  BY <1>6, <1>7 DEF StatusFileWritten

LEMMA SessionOutcomeStep ==
  ASSUME TargetInv, NetworkInv, ResultInv, ToldInv, finishedCalls \in Nat,
         [SessionNext]_sessionVars
  PROVE  [Outcome!Next]_Outcome!outcomeVars
<1>1. CASE HostSide \/ StatusFileAborted
             \/ \E file \in StatusFiles : StatusFileAccepted(file) \/ StatusFileUnread(file)
  <2>1. "Failed" \notin {NoCode, "Completed"}
    BY DEF NoCode
  <2> QED
    BY <1>1, <2>1, HostToldFailure, HostFailure DEF ResultKnown
<1>2. CASE StatusFileSent \/ UNCHANGED sessionVars
  <2>1. UNCHANGED <<hostOutcome, received, finalDeclared, outcome>>
    BY <1>2 DEF StatusFileSent, sessionVars, networkVars, targetSideVars, Target!StatusFile,
                Target!StatusTimerHandler, Target!RequestStatusFile, Target!Unaffected,
                Target!applicationVars
  <2> QED
    BY <2>1, HostFailure DEF ResultKnown
<1> QED
  BY <1>1, <1>2, TargetSideOutcome, StatusFileReadOutcome, StatusFileWrittenOutcome
     DEF SessionNext, StatusFileSide

(* Whatever is lost, repeated, aborted or dropped: neither side is told of *)
(* a complete upload that the application has not declared, and the target *)
(* not before the host has the status file that says so.                   *)
THEOREM SessionImplementsOutcome == SessionSpec => ImplementsOutcome
<1>1. SessionInit => Outcome!Init
  BY DEF SessionInit, Target!Init, Target!TargetInit, Target!NoCode, NoCode, Outcome!Init,
         ResultKnown
<1>2. HostCommandTypeOK => finishedCalls \in Nat
  BY DEF HostCommandTypeOK, HostTypeOK
<1> QED
  BY <1>1, <1>2, SessionOutcomeStep, SessionTargetInv, SessionNetworkInv, SessionResults,
     SessionIsUploadCommand, UploadIsHostCommand, HostCommandTypes, PTL
     DEF SessionSpec, ImplementsOutcome, Outcome!Spec

=============================================================================
