-------------------------- MODULE TargetOperation --------------------------
(***************************************************************************)
(* Arinc615a::Target::OperationImpl and the status transmission each of    *)
(* the four target operations has a copy of: the initialisation file the   *)
(* host reads, the timer that pushes a status file to the host now and     *)
(* then, and the end of the operation, told when a final status has been   *)
(* transmitted or a transmission has failed.                               *)
(*                                                                         *)
(* The io thread runs one handler at a time.  statusFile encodes the       *)
(* status under a mutex and requests the transfer after it has released    *)
(* it: these are two steps, between which a thread of the application can  *)
(* set another status.                                                     *)
(***************************************************************************)
EXTENDS Naturals

(* FinalStatus; the last one is meant for a single file.                   *)
FinalStatuses ==
  {"Completed", "AbortedByDlp", "AbortedByOperator", "AbortedByTargetHardware",
   "LoadPartNumberOrDownloadFileFailed"}

(* statusCode and finalStatus: the code of a final status, and back.       *)
StatusCode(final) ==
  IF final \in {"Completed", "AbortedByDlp", "AbortedByOperator"}
  THEN final ELSE "AbortedByTargetHw"

(* Bug: the code is taken for the status.                                  *)
FinalStatusIsCode(code) == code

FinalStatus(code) ==
  IF code \in {"Completed", "AbortedByDlp", "AbortedByOperator",
               "LoadPartNumberOrDownloadFileFailed"}
  THEN code ELSE "AbortedByTargetHardware"

FinalStatusCodes == {StatusCode(final) : final \in FinalStatuses}

(* Codes of a status that keeps the operation alive.                       *)
RunningStatusCodes == {"Accepted", "InProgress", "InProgressAdditionalInfo"}

NoCode == "none"

VARIABLES
  initialisationFile,  \* initialisationOperationV: "none", "active", "sent" once it is through
  statusTimer,         \* statusTransmissionTimerV has a pending wait
  statusPosted,        \* a wait expired: its handler is queued, no cancel recalls it
  status,              \* code of statusV, "Invalid" until one is set
  encoded,             \* io thread inside statusFile: the code in the file, or NoCode
  statusTransfer,      \* statusOperation: the code in its file and the code told at its end
  transmitted,         \* codes of the status files the host has received
  outcome,             \* first final status handlerV.finished was told, or NoCode
  finishedAgain        \* handlerV.finished was called more than once

targetVars == <<initialisationFile, statusTimer, statusPosted, status, encoded,
                statusTransfer, transmitted, outcome, finishedAgain>>

NoTransfer == [file |-> NoCode, sent |-> NoCode]

TargetTypeOK ==
  LET codes == RunningStatusCodes \cup FinalStatusCodes IN
  /\ initialisationFile \in {"none", "active", "sent"}
  /\ statusTimer \in BOOLEAN
  /\ statusPosted \in BOOLEAN
  /\ status \in codes \cup {"Invalid"}
  /\ encoded \in codes \cup {NoCode}
  /\ statusTransfer \in [file : codes, sent : codes] \cup {NoTransfer}
  /\ transmitted \in SUBSET codes
  /\ outcome \in FinalStatuses \cup {NoCode}
  /\ finishedAgain \in BOOLEAN

TargetInit ==
  /\ initialisationFile = "none"
  /\ statusTimer = FALSE
  /\ statusPosted = FALSE
  /\ status = "Invalid"
  /\ encoded = NoCode
  /\ statusTransfer = NoTransfer
  /\ transmitted = {}
  /\ outcome = NoCode
  /\ finishedAgain = FALSE

-----------------------------------------------------------------------------
(* Methods the handlers below call.                                        *)

(* The handler is told first, then the timer is cancelled.  Nothing        *)
(* records that the operation is over, transfers in progress go on.        *)
Finalise(final) ==
  /\ IF outcome = NoCode
     THEN outcome' = final /\ UNCHANGED finishedAgain
     ELSE finishedAgain' = TRUE /\ UNCHANGED outcome
  /\ statusTimer' = FALSE

(* triggerStatusTransmissionTimer, and triggerStatusTransmission with no   *)
(* delay: a pending wait is replaced, one that has expired is not.         *)
TriggerStatusTransmission == statusTimer' = TRUE

(* statusFile up to the unlock: what has not been set is accepted.         *)
EncodeStatus(code) ==
  /\ status' = IF code = "Invalid" THEN "Accepted" ELSE code
  /\ encoded' = status'

IoThreadIdle == encoded = NoCode

-----------------------------------------------------------------------------

(* doStart: the initialisation file says accepted.                         *)
SendInitFile ==
  /\ initialisationFile = "none"
  /\ initialisationFile' = "active"
  /\ UNCHANGED <<statusTimer, statusPosted, status, encoded, statusTransfer,
                 transmitted, outcome, finishedAgain>>

(* Bug: the status transmission waits for the application's first status.  *)
SendInitFileWithoutTimer ==
  /\ IoThreadIdle
  /\ initialisationFile = "active"
  /\ \/ /\ initialisationFile' = "sent"
        /\ UNCHANGED <<statusTimer, outcome, finishedAgain>>
     \/ initialisationFile' = "none" /\ Finalise("AbortedByTargetHardware")
  /\ UNCHANGED <<statusPosted, status, encoded, statusTransfer, transmitted>>

SendInitFileComplete ==
  /\ IoThreadIdle
  /\ initialisationFile = "active"
  /\ \/ /\ initialisationFile' = "sent"
        /\ TriggerStatusTransmission
        /\ UNCHANGED <<outcome, finishedAgain>>
     \/ initialisationFile' = "none" /\ Finalise("AbortedByTargetHardware")
  /\ UNCHANGED <<statusPosted, status, encoded, statusTransfer, transmitted>>

StatusTimerExpires ==
  /\ statusTimer
  /\ ~statusPosted
  /\ statusTimer' = FALSE
  /\ statusPosted' = TRUE
  /\ UNCHANGED <<initialisationFile, status, encoded, statusTransfer,
                 transmitted, outcome, finishedAgain>>

(* The queued handler carries success, even if the timer was started again *)
(* or cancelled in the meantime.                                           *)
StatusTimerHandler ==
  /\ IoThreadIdle
  /\ statusPosted
  /\ statusPosted' = FALSE
  /\ EncodeStatus(status)
  /\ UNCHANGED <<initialisationFile, statusTimer, statusTransfer, transmitted,
                 outcome, finishedAgain>>

(* Bug: the timer is left to the completion of the transfer.               *)
RequestStatusOnce ==
  /\ encoded # NoCode
  /\ encoded' = NoCode
  /\ statusTransfer' = [file |-> encoded, sent |-> status]
  /\ UNCHANGED <<initialisationFile, statusTimer, statusPosted, status,
                 transmitted, outcome, finishedAgain>>

(* statusFile from the unlock on.  The transfer still in progress, if any, *)
(* is dropped; the completion handler is bound to the status as it is now, *)
(* the file holds the one that was encoded.                                *)
RequestStatusFile ==
  /\ encoded # NoCode
  /\ encoded' = NoCode
  /\ statusTransfer' = [file |-> encoded, sent |-> status]
  /\ TriggerStatusTransmission
  /\ UNCHANGED <<initialisationFile, statusPosted, status, transmitted,
                 outcome, finishedAgain>>

-----------------------------------------------------------------------------
(* statusFileCompleted.                                                    *)

StatusFileOver ==
  /\ IoThreadIdle
  /\ statusTransfer # NoTransfer
  /\ statusTransfer' = NoTransfer

(* The host answers with an abort request: the application is to finish.   *)
StatusFileAborted ==
  /\ StatusFileOver
  /\ UNCHANGED <<initialisationFile, statusTimer, statusPosted, status, encoded,
                 transmitted, outcome, finishedAgain>>

(* Bug: a transmission that failed is left to the next one.                *)
StatusFileFailedRetries ==
  /\ StatusFileOver
  /\ UNCHANGED <<initialisationFile, statusTimer, statusPosted, status, encoded,
                 transmitted, outcome, finishedAgain>>

(* Bug: the operation ends with its result although the host misses it.    *)
StatusFileFailedKeepsResult ==
  /\ StatusFileOver
  /\ Finalise(FinalStatus(statusTransfer.sent))
  /\ UNCHANGED <<initialisationFile, statusPosted, status, encoded, transmitted>>

StatusFileFailed ==
  /\ StatusFileOver
  /\ Finalise("AbortedByTargetHardware")
  /\ UNCHANGED <<initialisationFile, statusPosted, status, encoded, transmitted>>

(* Bug: the outcome is taken from the status that is set by now.           *)
StatusFileTransmittedLate ==
  /\ StatusFileOver
  /\ transmitted' = transmitted \cup {statusTransfer.file}
  /\ IF status \in RunningStatusCodes
     THEN TriggerStatusTransmission /\ UNCHANGED <<outcome, finishedAgain>>
     ELSE Finalise(FinalStatus(status))
  /\ UNCHANGED <<initialisationFile, statusPosted, status, encoded>>

StatusFileTransmitted ==
  /\ StatusFileOver
  /\ transmitted' = transmitted \cup {statusTransfer.file}
  /\ IF statusTransfer.sent \in RunningStatusCodes
     THEN TriggerStatusTransmission /\ UNCHANGED <<outcome, finishedAgain>>
     ELSE Finalise(FinalStatus(statusTransfer.sent))
  /\ UNCHANGED <<initialisationFile, statusPosted, status, encoded>>

-----------------------------------------------------------------------------
(* What the application calls, from its handlers or from a thread of its   *)
(* own.                                                                    *)

SetStatus(code) ==
  /\ status' = code
  /\ UNCHANGED <<initialisationFile, statusTimer, statusPosted, encoded,
                 statusTransfer, transmitted, outcome, finishedAgain>>

ForceTransmission ==
  /\ TriggerStatusTransmission
  /\ UNCHANGED <<initialisationFile, statusPosted, status, encoded,
                 statusTransfer, transmitted, outcome, finishedAgain>>

(* Status and transmission in one handler of the io thread.                *)
SetAndForce(code) ==
  /\ IoThreadIdle
  /\ status' = code
  /\ TriggerStatusTransmission
  /\ UNCHANGED <<initialisationFile, statusPosted, encoded, statusTransfer,
                 transmitted, outcome, finishedAgain>>

(* The information operation calls statusFile in place of the timer.       *)
SetAndSend(code) ==
  /\ IoThreadIdle
  /\ EncodeStatus(code)
  /\ UNCHANGED <<initialisationFile, statusTimer, statusPosted, statusTransfer,
                 transmitted, outcome, finishedAgain>>

=============================================================================
