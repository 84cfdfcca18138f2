---------------------------- MODULE TargetProofs ----------------------------
(***************************************************************************)
(* Theorems about Target, for every set of final statuses and progress     *)
(* codes and every number of requests.                                     *)
(***************************************************************************)
EXTENDS Target, TLAPS

Codes == RunningStatusCodes \cup FinalStatusCodes

LEMMA CodesAre ==
  /\ FinalStatusCodes = {"Completed", "AbortedByDlp", "AbortedByOperator", "AbortedByTargetHw"}
  /\ NoCode \notin Codes
  /\ "Invalid" \notin Codes
BY DEF FinalStatusCodes, FinalStatuses, StatusCode, RunningStatusCodes, Codes, NoCode

(* The code of a final status leads back to it or is taken for a failure   *)
(* of the target, as are other codes.                                      *)
LEMMA FinalStatusOfCode ==
  /\ \A final \in FinalStatuses :
       FinalStatus(StatusCode(final)) \in {final, "AbortedByTargetHardware"}
  /\ \A code \in Codes : /\ FinalStatus(code) \in FinalStatuses
                         /\ \/ StatusCode(FinalStatus(code)) = code
                            \/ FinalStatus(code) = "AbortedByTargetHardware"
<1>1. \A final \in FinalStatuses :
        FinalStatus(StatusCode(final)) \in {final, "AbortedByTargetHardware"}
  BY DEF FinalStatus, StatusCode, FinalStatuses
<1>2. ASSUME NEW code \in Codes
      PROVE  /\ FinalStatus(code) \in FinalStatuses
             /\ \/ StatusCode(FinalStatus(code)) = code
                \/ FinalStatus(code) = "AbortedByTargetHardware"
  <2>1. code \in {"Accepted", "InProgress", "InProgressAdditionalInfo", "Completed",
                 "AbortedByDlp", "AbortedByOperator", "AbortedByTargetHw"}
    BY CodesAre DEF Codes, RunningStatusCodes
  <2> QED
    BY <2>1 DEF FinalStatus, StatusCode, FinalStatuses
<1> QED
  BY <1>1, <1>2

(***************************************************************************)
(* What the steps of the protocol and the application do to the operation. *)
(***************************************************************************)

(* The list of an information operation is its end.                        *)
EndsWithList ==
  /\ Finalise("Completed")
  /\ UNCHANGED <<initialisationFile, statusPosted, status, encoded,
                 statusTransfer, transmitted>>

(* Steps of the operations that transfer files, its calls from the io      *)
(* thread.                                                                 *)
FileStep ==
  \/ SendInitFile
  \/ SendInitFileComplete
  \/ StatusTimerExpires
  \/ StatusTimerHandler
  \/ RequestStatusFile
  \/ StatusFileAborted
  \/ StatusFileFailed
  \/ StatusFileTransmitted
  \/ \E code \in Codes : IoThreadIdle /\ SetStatus(code)
  \/ \E code \in Codes : SetAndForce(code)
  \/ ForceTransmission

TargetStep ==
  \/ FileStep
  \/ \E code \in Codes : SetStatus(code)
  \/ \E code \in Codes : SetAndSend(code)
  \/ InformationProceeds
  \/ EndsWithList

LEMMA ApplicationStep ==
  ASSUME Application
  PROVE  /\ TargetStep
         /\ operation # "Information" /\ ~ownThread => FileStep
         /\ UNCHANGED <<operation, ownThread>>
<1> USE DEF TargetStep, FileStep, SetsAndForces, protocolVars
<1>1. CASE Accepted
  <2>1. "Accepted" \in Codes
    BY DEF Codes, RunningStatusCodes
  <2> QED
    BY <1>1, <2>1 DEF Accepted
<1>2. ASSUME NEW code \in Progress, InProgress(code)
      PROVE  /\ TargetStep
             /\ operation # "Information" /\ ~ownThread => FileStep
             /\ UNCHANGED <<operation, ownThread>>
  <2>1. code \in Codes
    BY TargetAssumption DEF TargetAssumption, Codes, RunningStatusCodes
  <2> QED
    BY <1>2, <2>1 DEF InProgress
<1>3. ASSUME NEW final \in Finals, Finished(final)
      PROVE  /\ TargetStep
             /\ operation # "Information" /\ ~ownThread => FileStep
             /\ UNCHANGED <<operation, ownThread>>
  <2>1. StatusCode(final) \in Codes
    BY TargetAssumption DEF TargetAssumption, Codes, FinalStatusCodes
  <2> QED
    BY <1>3, <2>1 DEF Finished
<1> QED
  BY <1>1, <1>2, <1>3 DEF Application

LEMMA ListStep ==
  ASSUME \/ SendList
         \/ DownloadingListCompleted
         \/ TargetInformationCompleted
  PROVE  /\ [TargetStep]_targetVars
         /\ operation # "Information" => [FileStep]_targetVars
         /\ UNCHANGED <<operation, ownThread>>
<1>0. "AbortedByTargetHw" \in Codes /\ "Completed" \in Codes
  BY CodesAre DEF Codes
<1> USE DEF TargetStep, FileStep, protocolVars
<1>1. CASE SendList
  BY <1>1 DEF SendList
<1>2. CASE DownloadingListCompleted
  BY <1>0, <1>2 DEF DownloadingListCompleted, ListOver
<1>3. CASE TargetInformationCompleted
  BY <1>0, <1>3 DEF TargetInformationCompleted, TargetInformationTransmitted, ListOver,
                    EndsWithList
<1> QED
  BY <1>1, <1>2, <1>3

LEMMA WrittenFileStep ==
  ASSUME \/ RequestFileRequested \/ AnswerFileRequested
         \/ RequestFileCompleted \/ AnswerFileCompleted
  PROVE  [FileStep]_targetVars /\ UNCHANGED <<operation, ownThread>>
<1>1. "AbortedByTargetHw" \in Codes
  BY CodesAre DEF Codes
<1> QED
  BY <1>1 DEF RequestFileRequested, AnswerFileRequested, WrittenFileRequested, protocolVars,
              RequestFileCompleted, AnswerFileCompleted, WrittenFileCompleted, FileStep

LEMMA StatusStep ==
  ASSUME StatusTimer \/ StatusFile \/ StatusAborted \/ StatusTransmitted \/ StatusFailed
  PROVE  /\ TargetStep
         /\ operation # "Information" => FileStep
         /\ UNCHANGED <<operation, ownThread>>
<1> USE DEF TargetStep, FileStep, Unaffected, protocolVars
<1>1. CASE StatusTimer \/ StatusFile \/ StatusAborted \/ StatusFailed
  BY <1>1 DEF StatusTimer, StatusFile, StatusAborted, StatusFailed
<1>2. CASE StatusTransmitted
  BY <1>2 DEF StatusTransmitted, InformationEndsInHandler
<1> QED
  BY <1>1, <1>2

LEMMA NextStep ==
  ASSUME [Next]_vars
  PROVE  /\ [TargetStep]_targetVars
         /\ operation # "Information" /\ ~ownThread => [FileStep]_targetVars
         /\ operation' # operation => operation = "none"
         /\ UNCHANGED ownThread
<1>1. CASE InitialisationRequest
  BY <1>1 DEF InitialisationRequest, OperationRejected, OperationAccepted, OperationCreated,
              TargetStep, FileStep, protocolVars
<1>2. CASE ErrorOperationCompleted
  BY <1>2 DEF ErrorOperationCompleted, protocolVars
<1>3. CASE SendInitFileComplete /\ Unaffected
  BY <1>3 DEF Unaffected, protocolVars, TargetStep, FileStep
<1>4. CASE Application
  BY <1>4, ApplicationStep
<1>5. CASE ApplicationForces
  BY <1>5 DEF ApplicationForces, protocolVars, TargetStep, FileStep
<1>6. CASE StatusTimer \/ StatusFile \/ StatusAborted \/ StatusTransmitted \/ StatusFailed
  BY <1>6, StatusStep
<1>7. CASE \/ RequestFileRequested \/ AnswerFileRequested
           \/ RequestFileCompleted \/ AnswerFileCompleted
  BY <1>7, WrittenFileStep DEF TargetStep
<1>8. CASE SendList \/ DownloadingListCompleted \/ TargetInformationCompleted
  BY <1>8, ListStep
<1>9. CASE UNCHANGED vars
  BY <1>9 DEF vars, protocolVars
<1> QED
  BY <1>1, <1>2, <1>3, <1>4, <1>5, <1>6, <1>7, <1>8, <1>9 DEF Next

(***************************************************************************)
(* Types of the operation.                                                 *)
(***************************************************************************)

TargetFlags ==
  /\ statusTimer \in BOOLEAN
  /\ statusPosted \in BOOLEAN
  /\ finishedAgain \in BOOLEAN

TargetValues ==
  /\ initialisationFile \in {"none", "active", "sent"}
  /\ status \in Codes \cup {"Invalid"}
  /\ encoded \in Codes \cup {NoCode}
  /\ statusTransfer \in [file : Codes, sent : Codes] \cup {NoTransfer}
  /\ transmitted \in SUBSET Codes
  /\ outcome \in FinalStatuses \cup {NoCode}

(* A status is encoded, hence set, before its file is begun.               *)
EncodedSet == encoded # NoCode => status \in Codes

LEMMA TargetFlagsStep == TargetFlags /\ [TargetStep]_targetVars => TargetFlags'
BY DEF TargetFlags, TargetStep, FileStep, targetVars, SendInitFile, SendInitFileComplete,
       StatusTimerExpires, StatusTimerHandler, RequestStatusFile, StatusFileAborted,
       StatusFileFailed, StatusFileTransmitted, SetStatus, SetAndForce, ForceTransmission,
       SetAndSend, InformationProceeds, EndsWithList, Finalise, TriggerStatusTransmission

LEMMA TargetValuesStep ==
  ASSUME TargetValues, EncodedSet, [TargetStep]_targetVars
  PROVE  TargetValues' /\ EncodedSet'
<1>0. "Accepted" \in Codes /\ "InProgress" \in Codes
  BY DEF Codes, RunningStatusCodes
<1> USE DEF TargetValues, EncodedSet
<1>1. CASE \/ SendInitFile \/ SendInitFileComplete \/ StatusTimerExpires
           \/ ForceTransmission \/ EndsWithList
  BY <1>1 DEF SendInitFile, SendInitFileComplete, StatusTimerExpires, ForceTransmission,
              EndsWithList, Finalise, FinalStatuses
<1>2. CASE StatusTimerHandler
  BY <1>0, <1>2 DEF StatusTimerHandler, EncodeStatus
<1>3. CASE RequestStatusFile
  BY <1>3, CodesAre DEF RequestStatusFile
<1>4. CASE StatusFileAborted \/ StatusFileFailed
  BY <1>4 DEF StatusFileAborted, StatusFileFailed, StatusFileOver, Finalise, FinalStatuses
<1>5. CASE StatusFileTransmitted
  <2>1. statusTransfer.file \in Codes /\ statusTransfer.sent \in Codes
    BY <1>5 DEF StatusFileTransmitted, StatusFileOver
  <2>2. FinalStatus(statusTransfer.sent) \in FinalStatuses
    BY <2>1, FinalStatusOfCode
  <2> QED
    BY <1>5, <2>1, <2>2 DEF StatusFileTransmitted, StatusFileOver, Finalise
<1>6. ASSUME NEW code \in Codes, SetStatus(code) \/ SetAndForce(code) \/ SetAndSend(code)
      PROVE  TargetValues' /\ EncodedSet'
  BY <1>6, CodesAre DEF SetStatus, SetAndForce, SetAndSend, EncodeStatus, IoThreadIdle
<1>7. CASE InformationProceeds
  <2>1. statusTransfer.file \in Codes
    BY <1>7 DEF InformationProceeds, StatusFileOver
  <2> QED
    BY <1>0, <1>7, <2>1 DEF InformationProceeds, StatusFileOver, EncodeStatus
<1>8. CASE UNCHANGED targetVars
  BY <1>8 DEF targetVars
<1> QED
  BY <1>1, <1>2, <1>3, <1>4, <1>5, <1>6, <1>7, <1>8 DEF TargetStep, FileStep

LEMMA TargetInitTypes == Init => TargetFlags /\ TargetValues /\ EncodedSet
BY DEF Init, TargetInit, TargetFlags, TargetValues, EncodedSet

(***************************************************************************)
(* Types of the protocol and the application.                              *)
(***************************************************************************)

ProtocolFlags ==
  /\ ownThread \in BOOLEAN
  /\ errorOperation \in BOOLEAN
  /\ transmissionDue \in BOOLEAN

ProtocolValues ==
  /\ operation \in Operations \cup {"none"}
  /\ requests \in 0..MaxRequests
  /\ requestFile \in {"none", "active"}
  /\ listFile \in {"none", "active"}
  /\ finalDeclared \in Finals \cup {NoCode}

LEMMA ProtocolFlagsStep == ProtocolFlags /\ [Next]_vars => ProtocolFlags'
BY DEF ProtocolFlags, Next, vars, protocolVars, applicationVars, InitialisationRequest,
       OperationRejected, OperationAccepted, OperationCreated, ErrorOperationCompleted, Unaffected,
       Application, Accepted, InProgress, Finished, SetsAndForces, ApplicationForces,
       StatusTimer, StatusFile, StatusAborted, StatusTransmitted, InformationEndsInHandler,
       StatusFailed, RequestFileRequested, AnswerFileRequested, WrittenFileRequested,
       RequestFileCompleted, AnswerFileCompleted, WrittenFileCompleted, SendList,
       DownloadingListCompleted, ListOver, TargetInformationCompleted

LEMMA ProtocolValuesStep ==
  ASSUME ProtocolValues, [Next]_vars
  PROVE  ProtocolValues'
<1>0. Requested => requests' \in 0..MaxRequests
  BY TargetAssumption DEF Requested, ProtocolValues, TargetAssumption
<1> USE DEF ProtocolValues, protocolVars, applicationVars, fileVars
<1>1. CASE InitialisationRequest
  BY <1>0, <1>1 DEF InitialisationRequest, OperationRejected, OperationAccepted, OperationCreated
<1>2. CASE ErrorOperationCompleted \/ ApplicationForces \/ (SendInitFileComplete /\ Unaffected)
  BY <1>2 DEF ErrorOperationCompleted, ApplicationForces, Unaffected
<1>3. CASE Application
  BY <1>3 DEF Application, Accepted, InProgress, Finished
<1>4. CASE StatusTimer \/ StatusFile \/ StatusAborted \/ StatusTransmitted \/ StatusFailed
  BY <1>0, <1>4 DEF StatusTimer, StatusFile, StatusAborted, StatusTransmitted, StatusFailed,
                    InformationEndsInHandler, Unaffected
<1>5. CASE \/ RequestFileRequested \/ AnswerFileRequested
           \/ RequestFileCompleted \/ AnswerFileCompleted
  BY <1>0, <1>5 DEF RequestFileRequested, AnswerFileRequested, WrittenFileRequested,
                    RequestFileCompleted, AnswerFileCompleted, WrittenFileCompleted
<1>6. CASE SendList \/ DownloadingListCompleted \/ TargetInformationCompleted
  BY <1>0, <1>6 DEF SendList, DownloadingListCompleted, TargetInformationCompleted, ListOver
<1>7. CASE UNCHANGED vars
  BY <1>7 DEF vars
<1> QED
  BY <1>1, <1>2, <1>3, <1>4, <1>5, <1>6, <1>7 DEF Next

(* Every step of the io thread, the application and the host keeps the     *)
(* types: in particular nothing but a status is ever encoded or sent.      *)
THEOREM TargetTypes == Spec => [](TypeOK /\ EncodedSet)
<1>0. Init => ProtocolFlags
  BY DEF Init, ProtocolFlags
<1>1. Init => ProtocolValues
  BY TargetAssumption DEF Init, ProtocolValues, TargetAssumption
<1>2. TargetFlags /\ [Next]_vars => TargetFlags'
  BY NextStep, TargetFlagsStep
<1>3. TargetValues /\ EncodedSet /\ [Next]_vars => TargetValues' /\ EncodedSet'
  BY NextStep, TargetValuesStep
<1>4. TargetFlags /\ TargetValues => TargetTypeOK
  BY Zenon DEF TargetFlags, TargetValues, TargetTypeOK, Codes
<1>5. TargetTypeOK /\ ProtocolFlags /\ ProtocolValues => TypeOK
  BY Zenon DEF ProtocolFlags, ProtocolValues, TypeOK
<1>6. ProtocolValues /\ [Next]_vars => ProtocolValues'
  BY ProtocolValuesStep
<1> QED
  BY <1>0, <1>1, <1>2, <1>3, <1>4, <1>5, <1>6, TargetInitTypes, ProtocolFlagsStep, PTL DEF Spec

(***************************************************************************)
(* The status goes on being transmitted.                                   *)
(***************************************************************************)

LEMMA StatusLoopStep ==
  ASSUME TargetValues, EncodedSet, StatusLoopAlive, [TargetStep]_targetVars
  PROVE  StatusLoopAlive'
<1> USE DEF StatusLoopAlive
<1>1. CASE SendInitFile \/ SendInitFileComplete \/ StatusFileFailed \/ EndsWithList
  BY <1>1 DEF SendInitFile, SendInitFileComplete, StatusFileFailed, StatusFileOver,
              EndsWithList, Finalise, TriggerStatusTransmission, NoCode
<1>2. CASE StatusTimerExpires \/ StatusFileAborted \/ ForceTransmission \/ RequestStatusFile
  BY <1>2 DEF StatusTimerExpires, StatusFileAborted, StatusFileOver, ForceTransmission,
              RequestStatusFile, TriggerStatusTransmission
<1>3. CASE StatusTimerHandler
  BY <1>3, CodesAre DEF StatusTimerHandler, EncodeStatus, TargetValues, NoCode
<1>4. CASE StatusFileTransmitted
  <2>1. FinalStatus(statusTransfer.sent) # NoCode
    BY DEF FinalStatus, NoCode
  <2> QED
    BY <1>4, <2>1 DEF StatusFileTransmitted, StatusFileOver, Finalise,
                      TriggerStatusTransmission
<1>5. ASSUME NEW code \in Codes, SetStatus(code) \/ SetAndForce(code)
      PROVE  StatusLoopAlive'
  BY <1>5 DEF SetStatus, SetAndForce, TriggerStatusTransmission
<1>6. ASSUME NEW code \in Codes, SetAndSend(code)
      PROVE  StatusLoopAlive'
  BY <1>6, CodesAre DEF SetAndSend, EncodeStatus, NoCode
<1>7. CASE InformationProceeds
  BY <1>7 DEF InformationProceeds, EncodeStatus, NoCode
<1>8. CASE UNCHANGED targetVars
  BY <1>8 DEF targetVars
<1> QED
  BY <1>1, <1>2, <1>3, <1>4, <1>5, <1>6, <1>7, <1>8 DEF TargetStep, FileStep

(* No transfer that is dropped, aborted or completed late, and no status   *)
(* of the application, leaves a started operation without a transmission   *)
(* to come.                                                                *)
THEOREM TargetStatusLoop == Spec => []StatusLoopAlive
<1>1. Init => StatusLoopAlive
  BY DEF Init, TargetInit, StatusLoopAlive
<1>2. TypeOK => TargetValues
  BY DEF TypeOK, TargetTypeOK, TargetValues, Codes
<1>3. TargetValues /\ EncodedSet /\ StatusLoopAlive /\ [Next]_vars => StatusLoopAlive'
  BY NextStep, StatusLoopStep
<1> QED
  BY <1>1, <1>2, <1>3, TargetTypes, PTL DEF Spec

(***************************************************************************)
(* What the application is told, the host has received.                    *)
(***************************************************************************)

(* On one thread the file that is sent holds the status its end is told    *)
(* with: nothing sets another one while it is being begun.                 *)
FileIsStatus ==
  /\ encoded # NoCode => status = encoded
  /\ statusTransfer # NoTransfer => statusTransfer.file = statusTransfer.sent
  /\ outcome \in FinalStatuses \ {"AbortedByTargetHardware"}
       => StatusCode(outcome) \in transmitted

LEMMA FileIsStatusStep ==
  ASSUME TargetValues, FileIsStatus, [FileStep]_targetVars
  PROVE  FileIsStatus'
<1> USE DEF FileIsStatus, FinalStatuses
<1>1. CASE SendInitFile \/ SendInitFileComplete \/ StatusFileFailed
  BY <1>1 DEF SendInitFile, SendInitFileComplete, StatusFileFailed, StatusFileOver, Finalise
<1>2. CASE StatusTimerExpires \/ StatusFileAborted \/ ForceTransmission
  BY <1>2 DEF StatusTimerExpires, StatusFileAborted, StatusFileOver, ForceTransmission
<1>3. CASE StatusTimerHandler
  BY <1>3 DEF StatusTimerHandler, EncodeStatus
<1>4. CASE RequestStatusFile
  BY <1>4 DEF RequestStatusFile
<1>5. CASE StatusFileTransmitted
  <2>1. /\ statusTransfer.file = statusTransfer.sent
        /\ statusTransfer.sent \in Codes
        /\ transmitted' = transmitted \cup {statusTransfer.file}
        /\ statusTransfer' = NoTransfer
        /\ UNCHANGED <<encoded, status>>
    BY <1>5 DEF StatusFileTransmitted, StatusFileOver, TargetValues
  <2>2. outcome' = outcome \/ outcome' = FinalStatus(statusTransfer.sent)
    BY <1>5 DEF StatusFileTransmitted, Finalise
  <2>3. \/ StatusCode(FinalStatus(statusTransfer.sent)) = statusTransfer.sent
        \/ FinalStatus(statusTransfer.sent) = "AbortedByTargetHardware"
    BY <2>1, FinalStatusOfCode
  <2> QED
    BY <2>1, <2>2, <2>3
<1>6. ASSUME NEW code \in Codes, (IoThreadIdle /\ SetStatus(code)) \/ SetAndForce(code)
      PROVE  FileIsStatus'
  BY <1>6 DEF SetStatus, SetAndForce, IoThreadIdle
<1>7. CASE UNCHANGED targetVars
  BY <1>7 DEF targetVars
<1> QED
  BY <1>1, <1>2, <1>3, <1>4, <1>5, <1>6, <1>7 DEF FileStep

FilesReachHost == operation # "Information" /\ ~ownThread => FileIsStatus

LEMMA TargetFilesReachHost == Spec => []FilesReachHost
<1>1. Init => FilesReachHost
  BY DEF Init, TargetInit, FilesReachHost, FileIsStatus, NoCode, FinalStatuses
<1>2. TypeOK => TargetValues
  BY DEF TypeOK, TargetTypeOK, TargetValues, Codes
<1>3. TargetValues /\ FilesReachHost /\ [Next]_vars => FilesReachHost'
  BY NextStep, FileIsStatusStep DEF FilesReachHost
<1> QED
  BY <1>1, <1>2, <1>3, TargetTypes, PTL DEF Spec

(* An application on the io thread is told a result, other than a failure  *)
(* of the target, only when the host has received a status that says so.   *)
THEOREM TargetOutcomeReachedHost == Spec => []OutcomeReachedHost
<1>1. FilesReachHost => OutcomeReachedHost
  BY DEF FilesReachHost, FileIsStatus, OutcomeReachedHost
<1> QED
  BY <1>1, TargetFilesReachHost, PTL

=============================================================================
