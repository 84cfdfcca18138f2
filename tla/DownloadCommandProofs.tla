------------------------ MODULE DownloadCommandProofs ------------------------
(***************************************************************************)
(* Theorems about DownloadCommand, for every set of versions, names,       *)
(* transfers and lists, and every number of requests and signals.          *)
(***************************************************************************)
EXTENDS DownloadCommand, HostCommandProofs

(***************************************************************************)
(* Every step of a download command is a step of HostCommand, or changes   *)
(* nothing of it.  What is proved of HostCommand holds of the downloads.   *)
(***************************************************************************)

LEMMA DownloadStep == [Next]_vars => [HostStep]_hostCommandVars
<1> SUFFICES ASSUME [Next]_vars
             PROVE  [HostStep]_hostCommandVars
  OBVIOUS
<1> USE DEF HostStep, IoThreadStep
<1>0. TransferOver => UNCHANGED hostCommandVars
  BY DEF TransferOver, InIoThread, hostCommandVars
<1>1. CASE MainThread
  BY <1>1 DEF MainThread, MainThreadStep
<1>2. CASE \/ Signals \/ Initialisation \/ DownloadTimer \/ DownloadTimeout
           \/ StatusFileRequested \/ ReadRefused
  BY <1>2 DEF Signals, Initialisation, DownloadTimer, DownloadTimeout,
              StatusFileRequested, ReadRefused, Base
<1>3. ASSUME NEW file \in StatusFiles, StatusFileCompleted(file)
      PROVE  [HostStep]_hostCommandVars
  BY <1>3 DEF StatusFileCompleted, Base
<1>4. CASE SelectionTransferred
  BY <1>0, <1>4 DEF SelectionTransferred, AbortReasons
<1>5. ASSUME NEW list \in Lists, ListFileRequested(list) \/ ListFileCompleted(list)
      PROVE  [HostStep]_hostCommandVars
  BY <1>0, <1>5 DEF ListFileRequested, ListFileCompleted, ListLost, DownloadingList,
                    NothingWanted, Answer, AbortReasons
<1>6. ASSUME NEW file \in DataFiles, NEW name \in Names, FileRequest(file, name)
      PROVE  [HostStep]_hostCommandVars
  BY <1>6 DEF FileRequest
<1>7. ASSUME NEW file \in DataFiles, FileCompleted(file)
      PROVE  [HostStep]_hostCommandVars
  BY <1>0, <1>7 DEF FileCompleted
<1>8. CASE UNCHANGED vars
  BY <1>8 DEF vars
<1> QED
  BY <1>1, <1>2, <1>3, <1>4, <1>5, <1>6, <1>7, <1>8 DEF Next

(* Both download commands run a host operation as every command does.      *)
THEOREM DownloadIsHostCommand == Spec => HostCommandSpec
<1>1. Init => HostCommandInit
  BY DEF Init
<1> QED
  BY <1>1, DownloadStep, PTL DEF Spec, HostCommandSpec

(* A download never blocks on its latch with nothing left that would wake  *)
(* it, however its lists, its answers and its data files fare.             *)
THEOREM DownloadNeverStranded == Spec => []NeverStranded
BY DownloadIsHostCommand, HostCommandNeverStranded, PTL

(***************************************************************************)
(* Type correctness.                                                       *)
(***************************************************************************)

DownloadFlags ==
  /\ selectionSent \in BOOLEAN
  /\ overallStatus \in BOOLEAN
  /\ downloadAll \in BOOLEAN
  /\ listTransmitted \in BOOLEAN
  /\ listReceived \in BOOLEAN

Selected ==
  /\ selectionOperation \in {"none", "active"}
  /\ selections \in Seq(SUBSET (Names \cup {Blank}))
  /\ filesRecorded \in SUBSET (Names \cup {Blank})
  /\ command \in {"MediaDefinedDownload", "OperatorDefinedDownload"}
  /\ filesAsked \in SUBSET Names
  /\ requestedFiles \in SUBSET (Names \cup {Blank})

ListsReceived ==
  /\ listFileOperation \in listTransfers \cup {NoList}
  /\ listTransfers \in SUBSET Lists

Records ==
  /\ filesInformation \in FilesInformation
  /\ saved \in FilesInformation \cup {<<>>}
  /\ fileOperations \in [DataFiles -> Names \cup {NoFile}]

LEMMA DownloadFlagsStep == DownloadFlags /\ [Next]_vars => DownloadFlags'
<1> SUFFICES ASSUME DownloadFlags, [Next]_vars
             PROVE  DownloadFlags'
  OBVIOUS
<1> USE DEF DownloadFlags, downloadVars, selectionVars, listVars, recordVars, commandVars
<1>1. CASE MainThread
  BY <1>1 DEF MainThread, Start, Save
<1>2. CASE \/ Signals \/ Initialisation \/ DownloadTimer \/ DownloadTimeout
           \/ StatusFileRequested \/ ReadRefused
  BY <1>2 DEF Signals, Initialisation, DownloadTimer, DownloadTimeout,
              StatusFileRequested, ReadRefused, Base, HandlerFinished, OperationFinished
<1>3. ASSUME NEW file \in StatusFiles, StatusFileCompleted(file)
      PROVE  DownloadFlags'
  BY <1>3 DEF StatusFileCompleted, Base, HandlerFinished, OperationFinished,
              Status, OperatorStatus, Select, Files
<1>4. CASE SelectionTransferred
  BY <1>4 DEF SelectionTransferred, SelectionCompleted
<1>5. ASSUME NEW list \in Lists, ListFileRequested(list) \/ ListFileCompleted(list)
      PROVE  DownloadFlags'
  BY <1>5 DEF ListFileRequested, ListFileCompleted, ListLost, DownloadingList,
              NothingWanted, Answer, Select, Files
<1>6. ASSUME NEW file \in DataFiles, NEW name \in Names, FileRequest(file, name)
      PROVE  DownloadFlags'
  BY <1>6 DEF FileRequest, TransferBegins, FileStart
<1>7. ASSUME NEW file \in DataFiles, FileCompleted(file)
      PROVE  DownloadFlags'
  BY <1>7 DEF FileCompleted, TransferEnds, FileFinished
<1>8. CASE UNCHANGED vars
  BY <1>8 DEF vars
<1> QED
  BY <1>1, <1>2, <1>3, <1>4, <1>5, <1>6, <1>7, <1>8 DEF Next

LEMMA SelectedStep == Selected /\ [Next]_vars => Selected'
<1> SUFFICES ASSUME Selected, [Next]_vars
             PROVE  Selected'
  OBVIOUS
<1> USE DEF Selected, downloadVars, selectionVars, listVars, recordVars, commandVars
<1>1. CASE MainThread
  BY <1>1 DEF MainThread, Start, Save
<1>2. CASE \/ Signals \/ Initialisation \/ DownloadTimer \/ DownloadTimeout
           \/ StatusFileRequested \/ ReadRefused
  BY <1>2 DEF Signals, Initialisation, DownloadTimer, DownloadTimeout,
              StatusFileRequested, ReadRefused, Base, HandlerFinished, OperationFinished
<1>3. ASSUME NEW file \in StatusFiles, StatusFileCompleted(file)
      PROVE  Selected'
  BY <1>3 DEF StatusFileCompleted, Base, HandlerFinished, OperationFinished,
              Status, OperatorStatus, Select, Files
<1>4. CASE SelectionTransferred
  BY <1>4 DEF SelectionTransferred, SelectionCompleted
<1>5. ASSUME NEW list \in Lists, ListFileRequested(list)
      PROVE  Selected'
  BY <1>5 DEF ListFileRequested
<1>6. ASSUME NEW list \in Lists, ListFileCompleted(list)
      PROVE  Selected'
  <2>1. CASE ListLost(list)
    BY <2>1 DEF ListLost
  <2>2. ASSUME NEW offered \in SUBSET Names, DownloadingList(list, offered)
        PROVE  Selected'
    <3>1. Wanted(offered) \in SUBSET (Names \cup {Blank})
      BY DEF Wanted
    <3> QED
      BY <2>2, <3>1 DEF DownloadingList, NothingWanted, Answer, Select, Files
  <2> QED
    BY <1>6, <2>1, <2>2 DEF ListFileCompleted
<1>7. ASSUME NEW file \in DataFiles, NEW name \in Names, FileRequest(file, name)
      PROVE  Selected'
  BY <1>7 DEF FileRequest, TransferBegins, FileStart
<1>8. ASSUME NEW file \in DataFiles, FileCompleted(file)
      PROVE  Selected'
  BY <1>8 DEF FileCompleted, TransferEnds, FileFinished
<1>9. CASE UNCHANGED vars
  BY <1>9 DEF vars
<1> QED
  BY <1>1, <1>2, <1>3, <1>4, <1>5, <1>6, <1>7, <1>8, <1>9 DEF Next

LEMMA ListsReceivedStep == ListsReceived /\ [Next]_vars => ListsReceived'
<1> SUFFICES ASSUME ListsReceived, [Next]_vars
             PROVE  ListsReceived'
  OBVIOUS
<1> USE DEF ListsReceived, downloadVars, listVars
<1>1. CASE MainThread
  BY <1>1 DEF MainThread, Start
<1>2. CASE \/ Signals \/ Initialisation \/ DownloadTimer \/ DownloadTimeout
           \/ StatusFileRequested \/ ReadRefused
  BY <1>2 DEF Signals, Initialisation, DownloadTimer, DownloadTimeout,
              StatusFileRequested, ReadRefused, Base
<1>3. ASSUME NEW file \in StatusFiles, StatusFileCompleted(file)
      PROVE  ListsReceived'
  BY <1>3 DEF StatusFileCompleted, Base, Status, OperatorStatus
<1>4. CASE SelectionTransferred
  BY <1>4 DEF SelectionTransferred
<1>5. ASSUME NEW list \in Lists, ListFileRequested(list)
      PROVE  ListsReceived'
  BY <1>5 DEF ListFileRequested, ListFileRequest
<1>6. ASSUME NEW list \in Lists, ListFileCompleted(list)
      PROVE  ListsReceived'
  BY <1>6 DEF ListFileCompleted, ListLost, DownloadingList, NothingWanted, Answer, ListFileOver
<1>7. ASSUME NEW file \in DataFiles, NEW name \in Names, FileRequest(file, name)
      PROVE  ListsReceived'
  BY <1>7 DEF FileRequest
<1>8. ASSUME NEW file \in DataFiles, FileCompleted(file)
      PROVE  ListsReceived'
  BY <1>8 DEF FileCompleted
<1>9. CASE UNCHANGED vars
  BY <1>9 DEF vars
<1> QED
  BY <1>1, <1>2, <1>3, <1>4, <1>5, <1>6, <1>7, <1>8, <1>9 DEF Next

LEMMA RecordsStep == Records /\ [Next]_vars => Records'
<1> SUFFICES ASSUME Records, [Next]_vars
             PROVE  Records'
  OBVIOUS
<1> USE DEF Records, FilesInformation, recordVars, commandVars
<1>1. CASE MainThread
  BY <1>1 DEF MainThread, Save
<1>2. CASE \/ Signals \/ Initialisation \/ DownloadTimer \/ DownloadTimeout
           \/ StatusFileRequested \/ ReadRefused
  BY <1>2 DEF Signals, Initialisation, DownloadTimer, DownloadTimeout,
              StatusFileRequested, ReadRefused, Base, HandlerFinished, OperationFinished
<1>3. ASSUME NEW file \in StatusFiles, StatusFileCompleted(file)
      PROVE  Records'
  BY <1>3 DEF StatusFileCompleted, Base, HandlerFinished, OperationFinished,
              Status, OperatorStatus, Files
<1>4. CASE SelectionTransferred
  BY <1>4 DEF SelectionTransferred
<1>5. ASSUME NEW list \in Lists, ListFileRequested(list) \/ ListFileCompleted(list)
      PROVE  Records'
  BY <1>5 DEF ListFileRequested, ListFileCompleted, ListLost, DownloadingList,
              NothingWanted, Answer, Files
<1>6. ASSUME NEW file \in DataFiles, NEW name \in Names, FileRequest(file, name)
      PROVE  Records'
  BY <1>6 DEF FileRequest, TransferBegins, FileStart, FileStatuses
<1>7. ASSUME NEW file \in DataFiles, FileCompleted(file)
      PROVE  Records'
  BY <1>7 DEF FileCompleted, TransferEnds, FileFinished, FileStatuses, NoFile
<1>8. CASE UNCHANGED vars
  BY <1>8 DEF vars
<1> QED
  BY <1>1, <1>2, <1>3, <1>4, <1>5, <1>6, <1>7, <1>8 DEF Next

(* Every step of the two threads, the operator and the target keeps the    *)
(* types; in particular the member that points to the list transfer never  *)
(* points to one that has completed.                                       *)
THEOREM DownloadTypes == Spec => []TypeOK
<1>1. Init => DownloadFlags
  BY DEF Init, DownloadInit, RecordInit, DownloadFlags
<1>2. Init => Selected
  BY DEF Init, DownloadInit, RecordInit, Selected
<1>3. Init => ListsReceived /\ Records
  BY DEF Init, DownloadInit, RecordInit, ListsReceived, Records, FilesInformation
<1>4. HostCommandTypeOK /\ DownloadFlags /\ Selected /\ ListsReceived /\ Records => TypeOK
  BY Zenon DEF DownloadFlags, Selected, ListsReceived, Records, RecordTypeOK, TypeOK
<1> QED
  BY <1>1, <1>2, <1>3, <1>4, DownloadFlagsStep, SelectedStep, ListsReceivedStep,
     RecordsStep, DownloadIsHostCommand, HostCommandTypes, PTL DEF Spec

(***************************************************************************)
(* The record of the files.                                                *)
(***************************************************************************)

LEMMA RecordStep ==
  ASSUME Records, RecordAccountsForFiles, [Next]_vars
  PROVE  RecordAccountsForFiles'
<1>0. CASE UNCHANGED <<fileOperations, filesInformation>>
  BY <1>0 DEF RecordAccountsForFiles
<1> USE DEF recordVars, commandVars
<1>1. CASE MainThread
  BY <1>0, <1>1 DEF MainThread, Save
<1>2. CASE \/ Signals \/ Initialisation \/ DownloadTimer \/ DownloadTimeout
           \/ StatusFileRequested \/ ReadRefused
  BY <1>0, <1>2 DEF Signals, Initialisation, DownloadTimer, DownloadTimeout,
              StatusFileRequested, ReadRefused, Base, HandlerFinished, OperationFinished
<1>3. ASSUME NEW file \in StatusFiles, StatusFileCompleted(file)
      PROVE  RecordAccountsForFiles'
  BY <1>0, <1>3 DEF StatusFileCompleted, Base, HandlerFinished, OperationFinished,
                    Status, OperatorStatus, Files
<1>4. CASE SelectionTransferred
  BY <1>0, <1>4 DEF SelectionTransferred
<1>5. ASSUME NEW list \in Lists, ListFileRequested(list) \/ ListFileCompleted(list)
      PROVE  RecordAccountsForFiles'
  BY <1>0, <1>5 DEF ListFileRequested, ListFileCompleted, ListLost, DownloadingList,
                    NothingWanted, Answer, Files
<1>6. ASSUME NEW file \in DataFiles, NEW name \in Names, FileRequest(file, name)
      PROVE  RecordAccountsForFiles'
  BY <1>6, NamesAssumption
     DEF NamesAssumption, FileRequest, TransferBegins, FileStart, Records, FilesInformation,
         RecordAccountsForFiles, NoFile
<1>7. ASSUME NEW file \in DataFiles, FileCompleted(file)
      PROVE  RecordAccountsForFiles'
  <2>1. PICK status \in {"Transfer OK", "Transfer Error"} : TransferEnds(file, status)
    BY <1>7 DEF FileCompleted
  <2>2. /\ fileOperations' = [fileOperations EXCEPT ![file] = NoFile]
        /\ filesInformation' = [filesInformation EXCEPT ![fileOperations[file]] = status]
    BY <2>1 DEF TransferEnds, FileFinished
  <2> QED
    BY <2>1, <2>2 DEF TransferEnds, Records, FilesInformation, RecordAccountsForFiles, NoFile
<1>8. CASE UNCHANGED vars
  BY <1>0, <1>8 DEF vars
<1> QED
  BY <1>1, <1>2, <1>3, <1>4, <1>5, <1>6, <1>7, <1>8 DEF Next

(* However transfers of the same file overlap and fail, each transfer in   *)
(* progress has its entry and each open entry a transfer in progress.      *)
THEOREM DownloadRecordAccounts == Spec => []RecordAccountsForFiles
<1>1. Init => RecordAccountsForFiles
  BY DEF Init, RecordInit, RecordAccountsForFiles
<1>2. TypeOK => Records
  BY DEF TypeOK, RecordTypeOK, Records
<1>3. Records /\ RecordAccountsForFiles /\ [Next]_vars => RecordAccountsForFiles'
  BY RecordStep
<1> QED
  BY <1>1, <1>2, <1>3, DownloadTypes, PTL DEF Spec

(***************************************************************************)
(* Lists and answers.                                                      *)
(***************************************************************************)

(* An abort is either still to be sent or has been sent.                   *)
Aborted == abortReason # "NoAbort" \/ abortsSent > 0

LEMMA AbortedStep ==
  ASSUME abortsSent \in Nat, Aborted, [HostStep]_hostCommandVars
  PROVE  Aborted'
<1>0. CASE UNCHANGED <<abortReason, abortsSent>>
  BY <1>0 DEF Aborted
<1> USE DEF hostVars, processVars
<1>1. CASE MainThreadStep
  BY <1>0, <1>1 DEF MainThreadStep, Connect, StartServer, StartRequest, ExecuteThrows,
                    DoneWaitReturns, ExecuteReturns, StopIoContext, InitialiseServer,
                    InitialiseRequest
<1>2. CASE AbortSignal \/ \E reason \in AbortReasons : AbortFromWithin(reason)
  BY <1>0, <1>2 DEF AbortSignal, AbortFromWithin, DoAbort, Aborted
<1>3. CASE TerminateSignal
  BY <1>0, <1>3 DEF TerminateSignal, DoTerminate
<1>4. CASE InitialisationFileCompleted
  BY <1>0, <1>4 DEF InitialisationFileCompleted, InitialisationAccepted, InitialisationFailed
<1>5. CASE TimerExpires \/ Timeout \/ OtherRequest
  BY <1>0, <1>5 DEF TimerExpires, DlpTimerExpires, Timeout, TimerHandler, OtherRequest
<1>6. CASE StatusRequest
  <2>1. CASE StatusFileRefused
    BY <2>1 DEF StatusFileRefused, Aborted
  <2>2. ASSUME NEW file \in StatusFiles, StatusFileRequest(file)
        PROVE  Aborted'
    BY <1>0, <2>2 DEF StatusFileRequest
  <2> QED
    BY <1>6, <2>1, <2>2 DEF StatusRequest
<1>7. ASSUME NEW file \in StatusFiles,
             StatusLost(file) \/ \E code \in StatusCodes : StatusReceived(file, code)
      PROVE  Aborted'
  BY <1>0, <1>7 DEF StatusLost, StatusFileFailed, StatusFileUndecodable,
                    StatusReceived, StatusFileReceived, RemoveStatusFile
<1>8. CASE UNCHANGED hostCommandVars
  BY <1>0, <1>8 DEF hostCommandVars
<1> QED
  BY <1>1, <1>2, <1>3, <1>4, <1>5, <1>6, <1>7, <1>8 DEF HostStep, IoThreadStep

(* Before the operation is started, start() has yet to forget that an      *)
(* answer was sent, nobody listens for lists.                              *)
NotStarted == mainThread \in {"parsing", "connected"}

Answered == selectionSent \/ selectionOperation = "active" \/ Aborted

AnswerInv ==
  /\ NotStarted => ~tftpServer /\ listTransfers = {} /\ ~listReceived
  /\ listReceived => Answered

LEMMA ServerStep ==
  ASSUME NotStarted => ~tftpServer, [HostStep]_hostCommandVars, NotStarted'
  PROVE  NotStarted /\ ~tftpServer'
<1> USE DEF NotStarted, hostVars, processVars
<1>1. CASE MainThreadStep
  BY <1>1 DEF MainThreadStep, Connect, StartServer, StartRequest, ExecuteThrows,
              DoneWaitReturns, ExecuteReturns, StopIoContext, Goes
<1>2. CASE AbortSignal \/ \E reason \in AbortReasons : AbortFromWithin(reason)
  BY <1>2 DEF AbortSignal, SignalHandled, AbortFromWithin, InIoThread, DoAbort
<1>3. CASE TerminateSignal
  BY <1>3 DEF TerminateSignal, SignalHandled, DoTerminate, Finished
<1>4. CASE InitialisationFileCompleted
  BY <1>4 DEF InitialisationFileCompleted, InIoThread, InitialisationAccepted,
              InitialisationFailed, Finished
<1>5. CASE TimerExpires \/ Timeout \/ OtherRequest
  BY <1>5 DEF TimerExpires, DlpTimerExpires, Timeout, TimerHandler, OtherRequest,
              InIoThread, Finished
<1>6. CASE StatusRequest
  BY <1>6 DEF StatusRequest, StatusFileRefused, StatusFileRequest, InIoThread
<1>7. ASSUME NEW file \in StatusFiles,
             StatusLost(file) \/ \E code \in StatusCodes : StatusReceived(file, code)
      PROVE  NotStarted /\ ~tftpServer'
  BY <1>7 DEF StatusLost, StatusFileFailed, StatusFileUndecodable, StatusReceived,
              StatusFileReceived, InIoThread, Finished
<1>8. CASE UNCHANGED hostCommandVars
  BY <1>8 DEF hostCommandVars
<1> QED
  BY <1>1, <1>2, <1>3, <1>4, <1>5, <1>6, <1>7, <1>8 DEF HostStep, IoThreadStep

(* Whether the answer is sent at once or one was sent before.              *)
LEMMA SelectAnswers ==
  ASSUME NEW files, Select(files), selectionSent \in BOOLEAN
  PROVE  selectionSent' \/ selectionOperation' = "active"
BY DEF Select, selectionVars

LEMMA AnswerStep ==
  ASSUME abortsSent \in Nat, selectionSent \in BOOLEAN, AnswerInv, [Next]_vars
  PROVE  AnswerInv'
<1>0. Aborted => Aborted'
  BY AbortedStep, DownloadStep
<1>h. NotStarted' => NotStarted /\ ~tftpServer'
  BY ServerStep, DownloadStep DEF AnswerInv
<1>a. CASE UNCHANGED <<listTransfers, selectionOperation, selectionSent, listReceived>>
  BY <1>0, <1>h, <1>a DEF AnswerInv, Answered
<1> USE DEF downloadVars, selectionVars, listVars, commandVars
<1>1. CASE MainThread
  <2>1. CASE StartServer /\ Start
    <3>1. NotStarted
      BY <2>1 DEF StartServer, Goes, NotStarted
    <3> QED
      BY <1>1, <2>1, <3>1, <1>h DEF MainThread, Start, AnswerInv
  <2> QED
    BY <1>a, <1>1, <2>1 DEF MainThread
<1>2. CASE \/ Signals \/ Initialisation \/ DownloadTimer \/ DownloadTimeout
           \/ StatusFileRequested \/ ReadRefused
  BY <1>a, <1>2 DEF Signals, Initialisation, DownloadTimer, DownloadTimeout,
              StatusFileRequested, ReadRefused, Base
<1>3. ASSUME NEW file \in StatusFiles, StatusFileCompleted(file)
      PROVE  AnswerInv'
  <2>1. CASE Base(StatusLost(file))
    BY <1>a, <2>1 DEF Base
  <2>2. ASSUME NEW code \in StatusCodes, Status(code)
        PROVE  AnswerInv'
    <3>1. CASE Media /\ code = "Accepted" /\ ~listTransmitted
      <4>1. Select(requestedFiles) /\ UNCHANGED <<listVars, listReceived>>
        BY <2>2, <3>1 DEF Status
      <4>2. Answered'
        BY <4>1, SelectAnswers DEF Answered
      <4> QED
        BY <1>h, <4>1, <4>2 DEF AnswerInv
    <3>2. CASE ~(Media /\ code = "Accepted" /\ ~listTransmitted)
      BY <1>a, <2>2, <3>2 DEF Status, OperatorStatus
    <3> QED
      BY <3>1, <3>2
  <2> QED
    BY <1>3, <2>1, <2>2 DEF StatusFileCompleted
<1>4. CASE SelectionTransferred
  <2>1. UNCHANGED <<listTransfers, listReceived>>
    BY <1>4 DEF SelectionTransferred
  <2>2. CASE SelectionCompleted(TRUE)
    BY <1>h, <2>1, <2>2 DEF SelectionCompleted, AnswerInv, Answered
  <2>3. CASE AbortFromWithin("Protocol")
    <3>1. Aborted'
      BY <2>3 DEF AbortFromWithin, DoAbort, Aborted
    <3> QED
      BY <1>h, <2>1, <3>1 DEF AnswerInv, Answered
  <2> QED
    BY <1>4, <2>2, <2>3 DEF SelectionTransferred
<1>5. ASSUME NEW list \in Lists, ListFileRequested(list)
      PROVE  AnswerInv'
  <2>1. ~NotStarted
    BY <1>5 DEF ListFileRequested, OtherRequest, ReceivedTftpRequest, AnswerInv
  <2> QED
    BY <1>0, <1>h, <1>5, <2>1 DEF ListFileRequested, AnswerInv, Answered
<1>6. ASSUME NEW list \in Lists, ListFileCompleted(list)
      PROVE  AnswerInv'
  <2>1. list \in listTransfers
    BY <1>6 DEF ListFileCompleted, ListLost, DownloadingList, NothingWanted, Answer,
                ListFileOver
  <2>2. ~NotStarted'
    BY <1>h, <2>1 DEF AnswerInv
  <2>3. CASE ListLost(list)
    BY <1>0, <2>2, <2>3 DEF ListLost, AnswerInv, Answered
  <2>4. ASSUME NEW offered \in SUBSET Names, DownloadingList(list, offered)
        PROVE  AnswerInv'
    <3>1. CASE NothingWanted(list, offered)
      <4>1. Aborted'
        BY <3>1 DEF NothingWanted, AbortFromWithin, DoAbort, Aborted
      <4> QED
        BY <2>2, <4>1 DEF AnswerInv, Answered
    <3>2. CASE Answer(list, offered)
      <4>1. Answered'
        BY <3>2, SelectAnswers DEF Answer, Answered
      <4> QED
        BY <2>2, <4>1 DEF AnswerInv
    <3> QED
      BY <2>4, <3>1, <3>2 DEF DownloadingList
  <2> QED
    BY <1>6, <2>3, <2>4 DEF ListFileCompleted
<1>7. ASSUME NEW file \in DataFiles, NEW name \in Names, FileRequest(file, name)
      PROVE  AnswerInv'
  BY <1>a, <1>7 DEF FileRequest
<1>8. ASSUME NEW file \in DataFiles, FileCompleted(file)
      PROVE  AnswerInv'
  BY <1>a, <1>8 DEF FileCompleted
<1>9. CASE UNCHANGED vars
  BY <1>a, <1>9 DEF vars
<1> QED
  BY <1>1, <1>2, <1>3, <1>4, <1>5, <1>6, <1>7, <1>8, <1>9 DEF Next

(* Once a list has been handed to the command, an answer has got through   *)
(* to the target, one is on its way, or the operation is being or has been *)
(* aborted.                                                                *)
THEOREM DownloadAnswerNotLost == Spec => []AnswerNotLost
<1>1. Init => AnswerInv
  BY DEF Init, HostCommandInit, HostInit, DownloadInit, AnswerInv
<1>2. TypeOK => abortsSent \in Nat /\ selectionSent \in BOOLEAN
  BY DEF TypeOK, HostCommandTypeOK, HostTypeOK
<1>3. abortsSent \in Nat /\ selectionSent \in BOOLEAN /\ AnswerInv /\ [Next]_vars => AnswerInv'
  BY AnswerStep
<1>4. AnswerInv => AnswerNotLost
  BY DEF AnswerInv, Answered, Aborted, AnswerNotLost
<1> QED
  BY <1>1, <1>2, <1>3, <1>4, DownloadTypes, PTL DEF Spec

(***************************************************************************)
(* The request of a media defined download, which no list precedes.        *)
(***************************************************************************)

RequestInv ==
  Media => /\ listTransfers = {}
           /\ ~listTransmitted => selections = <<>>
           /\ selections = <<>> \/ selections = <<filesRecorded>>

LEMMA RequestStep ==
  ASSUME RequestInv, [Next]_vars
  PROVE  RequestInv'
<1>0. UNCHANGED command
  BY DEF Next, vars, commandVars, MainThread, Signals, Initialisation, DownloadTimer,
         DownloadTimeout, StatusFileRequested, ReadRefused, Base, StatusFileCompleted,
         Status, OperatorStatus, SelectionTransferred, ListFileRequested, ListFileCompleted, ListLost,
         DownloadingList, FileRequest, TransferBegins, FileCompleted
<1>1. CASE UNCHANGED <<listTransfers, listTransmitted, selections, filesRecorded>>
  BY <1>0, <1>1 DEF RequestInv, Media
<1>2. CASE ~Media
  BY <1>0, <1>2 DEF RequestInv, Media
<1> USE DEF downloadVars, selectionVars, listVars, recordVars, commandVars
<1>3. CASE MainThread
  BY <1>1, <1>3 DEF MainThread, Start, Save
<1>4. CASE \/ Signals \/ Initialisation \/ DownloadTimer \/ DownloadTimeout
           \/ StatusFileRequested \/ ReadRefused
  BY <1>1, <1>4 DEF Signals, Initialisation, DownloadTimer, DownloadTimeout,
              StatusFileRequested, ReadRefused, Base, HandlerFinished, OperationFinished
<1>5. ASSUME NEW file \in StatusFiles, StatusFileCompleted(file)
      PROVE  RequestInv'
  <2>1. CASE Base(StatusLost(file))
    BY <1>1, <2>1 DEF Base, HandlerFinished, OperationFinished
  <2>2. ASSUME NEW code \in StatusCodes, Status(code)
        PROVE  RequestInv'
    <3>1. CASE Media /\ code = "Accepted" /\ ~listTransmitted
      <4>1. selections = <<>> /\ listTransfers = {}
        BY <3>1 DEF RequestInv
      <4>2. listTransmitted' /\ filesRecorded' = requestedFiles /\ UNCHANGED listTransfers
        BY <2>2, <3>1 DEF Status, OperatorStatus, Files
      <4>3. selections' = <<>> \/ selections' = <<requestedFiles>>
        BY <2>2, <3>1, <4>1 DEF Status, OperatorStatus, Select
      <4> QED
        BY <1>0, <4>1, <4>2, <4>3 DEF RequestInv, Media
    <3>2. CASE ~(Media /\ code = "Accepted" /\ ~listTransmitted)
      BY <1>1, <2>2, <3>2 DEF Status, OperatorStatus, HandlerFinished, OperationFinished
    <3> QED
      BY <3>1, <3>2
  <2> QED
    BY <1>5, <2>1, <2>2 DEF StatusFileCompleted
<1>6. CASE SelectionTransferred
  BY <1>1, <1>6 DEF SelectionTransferred, SelectionCompleted
<1>7. ASSUME NEW list \in Lists, ListFileRequested(list) \/ ListFileCompleted(list)
      PROVE  RequestInv'
  <2>1. CASE Media
    BY <1>7, <2>1 DEF RequestInv, ListFileRequested, ListFileCompleted, ListLost,
                      DownloadingList, NothingWanted, Answer, ListFileOver
  <2> QED
    BY <1>2, <2>1
<1>8. ASSUME NEW file \in DataFiles, NEW name \in Names, FileRequest(file, name)
      PROVE  RequestInv'
  BY <1>1, <1>8 DEF FileRequest, TransferBegins, FileStart
<1>9. ASSUME NEW file \in DataFiles, FileCompleted(file)
      PROVE  RequestInv'
  BY <1>1, <1>9 DEF FileCompleted, TransferEnds, FileFinished
<1>10. CASE UNCHANGED vars
  BY <1>1, <1>10 DEF vars
<1> QED
  BY <1>3, <1>4, <1>5, <1>6, <1>7, <1>8, <1>9, <1>10 DEF Next

(* However status files overlap and repeat, the target is sent one request *)
(* at most, and the record names what it asks for.                         *)
THEOREM DownloadRequestedOnce == Spec => []RequestedOnce
<1>1. Init => RequestInv
  BY DEF Init, DownloadInit, RequestInv
<1>2. RequestInv => RequestedOnce
  BY DEF RequestInv, RequestedOnce
<1> QED
  BY <1>1, <1>2, RequestStep, PTL DEF Spec

=============================================================================
