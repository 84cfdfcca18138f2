------------------------ MODULE InformationCommand -------------------------
(***************************************************************************)
(* The information command: HostCommand with the information operation.    *)
(* The target writes its list of parts, with or without status files       *)
(* around it.  Without, the list ends the operation; with, the final       *)
(* status does.                                                            *)
(***************************************************************************)
EXTENDS HostCommand, HostInformation

ASSUME ListAssumption == IsFiniteSet(ListFiles)

vars == <<hostCommandVars, informationVars>>

TypeOK ==
  /\ HostCommandTypeOK
  /\ InformationTypeOK

Init ==
  /\ HostCommandInit
  /\ InformationInit

-----------------------------------------------------------------------------

MainThread ==
  \/ StartServer /\ Start
  \/ /\ \/ Connect \/ StartRequest \/ ExecuteThrows
        \/ DoneWaitReturns \/ ExecuteReturns \/ StopIoContext
     /\ UNCHANGED informationVars

Signals == (AbortSignal \/ TerminateSignal) /\ UNCHANGED informationVars

Initialisation == InitialisationFileCompleted /\ UNCHANGED informationVars

InformationTimer == TimerExpires /\ UNCHANGED informationVars

InformationTimeout == Timeout /\ UNCHANGED informationVars

(* Read requests of a status file are answered with an error and served.   *)
StatusFileRequested == StatusRequest /\ UNCHANGED informationVars

StatusFileCompleted(file) ==
  \/ \E code \in RunningCodes : StatusReceived(file, code) /\ AwaitFinalStatus
  \/ \E code \in StatusCodes \ RunningCodes :
       StatusReceived(file, code) /\ UNCHANGED informationVars
  \/ StatusLost(file) /\ UNCHANGED informationVars

(* Lists are not refused by an abort; only status files are.               *)
ListFileRequested(list) == OtherRequest /\ ListFileRequest(list)

OtherFileRequested == OtherRequest /\ UNCHANGED informationVars

(* Bug: the watchdog is left stopped, as the list has been received.       *)
ListReceivedUnwatched ==
  IF waitForFinalStatus
  THEN /\ InIoThread
       /\ dlpTimer' = FALSE
       /\ UNCHANGED <<initialisationOperation, protocolVersion, abortReason,
                      timeoutPosted, tftpServer, statusFileOperations,
                      requests, abortsSent, finishedCalls>>
  ELSE FinishedByFile

(* The list is handed to the command.                                      *)
ListReceived == IF waitForFinalStatus THEN WatchedByFile ELSE FinishedByFile

(* The transfer failed or its file cannot be decoded.                      *)
ListLost == IF waitForFinalStatus THEN AbortFromWithin("Protocol") ELSE FinishedByFile

ListFileCompleted(list) == ListFileOver(list) /\ (ListReceived \/ ListLost)

-----------------------------------------------------------------------------
Next ==
  \/ MainThread
  \/ Signals
  \/ Initialisation
  \/ InformationTimer
  \/ InformationTimeout
  \/ StatusFileRequested
  \/ \E file \in StatusFiles : StatusFileCompleted(file)
  \/ \E list \in ListFiles : ListFileRequested(list) \/ ListFileCompleted(list)
  \/ OtherFileRequested

Spec == Init /\ [][Next]_vars

(* As for the upload: the threads are scheduled and the timer expires.     *)
Fairness ==
  /\ WF_vars(MainThread)
  /\ WF_vars(InformationTimer)
  /\ WF_vars(InformationTimeout)

FairSpec == Spec /\ Fairness

-----------------------------------------------------------------------------
(* A list in progress calls finished at most once, too, or starts the      *)
(* watchdog of the finished operation again: with the lists among what is  *)
(* outstanding, a finished operation only drains.                          *)
InformationOutstanding == Outstanding + Cardinality(listTransfers)

InformationDrains ==
  [][Draining => finishedCalls' + InformationOutstanding'
                   <= finishedCalls + InformationOutstanding]_vars

=============================================================================
