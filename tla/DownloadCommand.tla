-------------------------- MODULE DownloadCommand --------------------------
(***************************************************************************)
(* The two download commands: HostCommand with a download operation and    *)
(* the record of the download.  The media defined download names the files *)
(* it wants on the first accepted status, the operator defined one answers *)
(* each list of files it receives.  The target then writes the files.      *)
(***************************************************************************)
EXTENDS HostCommand, HostDownload, DownloadInformation, CommandOptions

CONSTANT
  DataFiles   \* identities of the data file transfers in progress at a time

ASSUME DownloadAssumption == IsFiniteSet(DataFiles) /\ IsFiniteSet(Lists)

(* No file, where a name is expected.                                      *)
NoFile == Blank

VARIABLES
  command,          \* the command the user gave
  downloadAll,      \* downloadAllV: --download-all
  filesAsked,       \* the files the user gave with --file
  requestedFiles,   \* requestedFilesV
  listTransmitted,  \* listTransmittedV
  listReceived,     \* a list has been handed to the command
  fileOperations    \* fileOperationsV: the file per transfer in progress

commandVars == <<command, downloadAll, filesAsked, requestedFiles,
                 listTransmitted, listReceived, fileOperations>>
vars == <<hostCommandVars, downloadVars, recordVars, commandVars>>

Media == command = "MediaDefinedDownload"

TypeOK ==
  /\ HostCommandTypeOK
  /\ selectionOperation \in {"none", "active"}
  /\ selectionSent \in BOOLEAN
  /\ selections \in Seq(SUBSET (Names \cup {Blank}))
  /\ listFileOperation \in listTransfers \cup {NoList}
  /\ listTransfers \in SUBSET Lists
  /\ RecordTypeOK
  /\ command \in {"MediaDefinedDownload", "OperatorDefinedDownload"}
  /\ downloadAll \in BOOLEAN
  /\ filesAsked \in SUBSET Names
  /\ requestedFiles \in SUBSET (Names \cup {Blank})
  /\ listTransmitted \in BOOLEAN
  /\ listReceived \in BOOLEAN
  /\ fileOperations \in [DataFiles -> Names \cup {NoFile}]

(* The command line: not every command has every option.                   *)
Init ==
  /\ HostCommandInit
  /\ DownloadInit
  /\ RecordInit
  /\ command \in {"MediaDefinedDownload", "OperatorDefinedDownload"}
  /\ downloadAll \in BOOLEAN /\ (downloadAll => "downloadAll" \in DOMAIN OptionsOf[command])
  /\ filesAsked \in SUBSET Names
  /\ requestedFiles = filesAsked
  /\ listTransmitted = FALSE
  /\ listReceived = FALSE
  /\ fileOperations = [file \in DataFiles |-> NoFile]

-----------------------------------------------------------------------------

(* The handler's finished: the overall status goes into the record.        *)
HandlerFinished ==
  IF finishedCalls' = finishedCalls THEN UNCHANGED recordVars ELSE OperationFinished

MainThread ==
  /\ \/ StartServer /\ Start /\ UNCHANGED <<listVars, recordVars>>
     \/ ExecuteReturns /\ Save /\ UNCHANGED downloadVars
     \/ /\ Connect \/ StartRequest \/ ExecuteThrows \/ DoneWaitReturns \/ StopIoContext
        /\ UNCHANGED <<downloadVars, recordVars>>
  /\ UNCHANGED commandVars

(* Handlers that work on the members of the base and tell the outcome.     *)
Base(step) == step /\ HandlerFinished /\ UNCHANGED <<downloadVars, commandVars>>

Signals == Base(AbortSignal) \/ Base(TerminateSignal)

Initialisation == Base(InitialisationFileCompleted)

DownloadTimer == Base(TimerExpires)

DownloadTimeout == Base(Timeout)

(* Bug: the flag is set only by the completed transfer of the request.     *)
StatusUnguarded(code) ==
  /\ IF Media /\ code = "Accepted"
     THEN Select(requestedFiles) /\ Files(requestedFiles)
     ELSE UNCHANGED selectionVars /\ HandlerFinished
  /\ UNCHANGED <<listVars, commandVars>>

(* The operator defined download reports its status and no more.           *)
OperatorStatus == UNCHANGED <<selectionVars, listTransmitted>> /\ HandlerFinished

(* The command's status handler: the first accepted status of a media      *)
(* defined download sends the request.                                     *)
Status(code) ==
  /\ IF Media /\ code = "Accepted" /\ ~listTransmitted
     THEN /\ Select(requestedFiles)
          /\ Files(requestedFiles)
          /\ listTransmitted' = TRUE
     ELSE OperatorStatus
  /\ UNCHANGED <<listVars, command, downloadAll, filesAsked, requestedFiles,
                 listReceived, fileOperations>>

StatusFileRequested == Base(StatusRequest)

StatusFileCompleted(file) ==
  \/ \E code \in StatusCodes : StatusReceived(file, code) /\ Status(code)
  \/ Base(StatusLost(file))

(* Bug: a request or answer that does not get through is only logged.      *)
SelectionLost ==
  /\ TransferOver
  /\ \E sent \in BOOLEAN : SelectionCompleted(sent)
  /\ UNCHANGED <<listVars, recordVars, commandVars>>

(* A request or answer that does not get through aborts the operation.     *)
SelectionTransferred ==
  /\ \/ TransferOver /\ SelectionCompleted(TRUE)
     \/ AbortFromWithin("Protocol") /\ SelectionCompleted(FALSE)
  /\ UNCHANGED <<listVars, recordVars, commandVars>>

-----------------------------------------------------------------------------
(* Lists of the operator defined download; lists are not refused by an     *)
(* abort.                                                                  *)

ListFileRequested(list) ==
  /\ ~Media
  /\ OtherRequest
  /\ ListFileRequest(list)
  /\ UNCHANGED <<selectionVars, recordVars, commandVars>>

(* An aborted list, too, aborts the operation.                             *)
ListLost(list) ==
  /\ ListFileOver(list)
  /\ AbortFromWithin("Protocol")
  /\ UNCHANGED <<selectionVars, recordVars, commandVars>>

Wanted(offered) == IF downloadAll THEN offered ELSE requestedFiles

(* No file is requested: the operation is aborted for the operator.        *)
NothingWanted(list, offered) ==
  /\ Wanted(offered) = {}
  /\ ListFileOver(list)
  /\ AbortFromWithin("Operator")
  /\ requestedFiles' = {}
  /\ UNCHANGED <<selectionVars, recordVars>>

(* The names move into the answer, whatever the list offers, and leave     *)
(* blank ones behind; the record is given them even if no answer is sent.  *)
Answer(list, offered) ==
  /\ Wanted(offered) # {}
  /\ ListFileOver(list)
  /\ TransferOver
  /\ requestedFiles' = {Blank}
  /\ Select(Wanted(offered))
  /\ Files(Wanted(offered))

(* downloadingList of the command.                                         *)
DownloadingList(list, offered) ==
  /\ NothingWanted(list, offered) \/ Answer(list, offered)
  /\ listReceived' = TRUE
  /\ UNCHANGED <<command, downloadAll, filesAsked, listTransmitted, fileOperations>>

ListFileCompleted(list) ==
  ListLost(list) \/ \E offered \in SUBSET Names : DownloadingList(list, offered)

-----------------------------------------------------------------------------
(* Files the target writes, asked for or not.                              *)

(* What the command does for the request of a file, and at its end.        *)
TransferBegins(file, name) ==
  /\ fileOperations[file] = NoFile
  /\ fileOperations' = [fileOperations EXCEPT ![file] = name]
  /\ FileStart(name)

TransferEnds(file, status) ==
  /\ fileOperations[file] # NoFile
  /\ fileOperations' = [fileOperations EXCEPT ![file] = NoFile]
  /\ FileFinished(fileOperations[file], status)

FileRequest(file, name) ==
  /\ OtherRequest
  /\ TransferBegins(file, name)
  /\ UNCHANGED <<downloadVars, command, downloadAll, filesAsked, requestedFiles,
                 listTransmitted, listReceived>>

(* A request that is no write request is answered with an error.           *)
ReadRefused == Base(OtherRequest)

(* Bug: a failed transfer is not recorded.                                 *)
FailureNotRecorded(file) ==
  /\ TransferOver
  /\ fileOperations[file] # NoFile
  /\ fileOperations' = [fileOperations EXCEPT ![file] = NoFile]
  /\ FileFinished(fileOperations[file], "Transfer OK") \/ UNCHANGED recordVars
  /\ UNCHANGED <<downloadVars, command, downloadAll, filesAsked, requestedFiles,
                 listTransmitted, listReceived>>

(* A file that fails is left to the target to report.                      *)
FileCompleted(file) ==
  /\ TransferOver
  /\ \E status \in {"Transfer OK", "Transfer Error"} : TransferEnds(file, status)
  /\ UNCHANGED <<downloadVars, command, downloadAll, filesAsked, requestedFiles,
                 listTransmitted, listReceived>>

-----------------------------------------------------------------------------
Next ==
  \/ MainThread
  \/ Signals
  \/ Initialisation
  \/ DownloadTimer
  \/ DownloadTimeout
  \/ StatusFileRequested
  \/ \E file \in StatusFiles : StatusFileCompleted(file)
  \/ SelectionTransferred
  \/ \E list \in Lists : ListFileRequested(list) \/ ListFileCompleted(list)
  \/ \E file \in DataFiles, name \in Names : FileRequest(file, name)
  \/ \E file \in DataFiles : FileCompleted(file)
  \/ ReadRefused

Spec == Init /\ [][Next]_vars

(* As for the other commands: the threads are scheduled, the timer expires.*)
Fairness ==
  /\ WF_vars(MainThread)
  /\ WF_vars(DownloadTimer)
  /\ WF_vars(DownloadTimeout)

FairSpec == Spec /\ Fairness

-----------------------------------------------------------------------------
(* The record and the transfers, which the target starts, repeats and lets *)
(* fail in any order: every transfer in progress has its entry, and an     *)
(* entry without a status has a transfer in progress that will give it     *)
(* one, even if another transfer of the same file has ended meanwhile.     *)
RecordAccountsForFiles ==
  /\ \A file \in DataFiles :
       fileOperations[file] # NoFile => filesInformation[fileOperations[file]] # "none"
  /\ \A name \in Names :
       filesInformation[name] = "" => \E file \in DataFiles : fileOperations[file] = name

(* Once a list has been handed to the command, the target has been sent an *)
(* answer, one is on its way, or the operation has been aborted, whatever  *)
(* aborts, status files and further lists come in between: an answer that  *)
(* fails aborts, and a list that comes before the answer has got through   *)
(* puts its own in place of the one in progress.  No list is promised an   *)
(* answer of its own: one that comes after the answer was sent gets none.  *)
AnswerNotLost ==
  listReceived =>
    \/ selectionSent \/ selectionOperation = "active"
    \/ abortReason # "NoAbort" \/ abortsSent > 0

(* The target of a media defined download is sent at most one request, and *)
(* the record names the files it asks for.                                 *)
RequestedOnce ==
  Media => selections = <<>> \/ selections = <<filesRecorded>>

-----------------------------------------------------------------------------
(* What the documentation says and the code does not keep.                 *)

(* docs/CODE-TRACE.md: without --download-all the answer selects from      *)
(* "the `--file` values".  A second list is answered with blank names, as  *)
(* the first answer has taken the values away.                             *)
AnswerSelectsFiles ==
  \A i \in 1..Len(selections) : ~downloadAll => selections[i] \subseteq filesAsked

=============================================================================
