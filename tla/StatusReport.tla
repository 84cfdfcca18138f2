---------------------------- MODULE StatusReport ----------------------------
(***************************************************************************)
(* What the application of a target reports of an upload or a download,    *)
(* and what the host reads of it: the status the operation keeps, a list   *)
(* of the loads or files with a status of their own, is written to one     *)
(* status file after the other.  The other files are those of FileTransfer.*)
(*                                                                         *)
(* Each call, and the encoding, holds the mutex of the status.  Calls      *)
(* while a file is on its way do not reach it, and are left out.           *)
(***************************************************************************)
EXTENDS FileTransfer

CONSTANTS
  Names,         \* of load headers or files
  LoadPartNumbers,   \* of loads
  Descriptions,  \* that go with a progress, an empty one among them
  Ratios,
  Finals,        \* final statuses, of a file or of the operation
  MaxCalls,      \* calls of the application and
  MaxFiles       \* status files (bounds of the model)

ASSUME ReportAssumption ==
  /\ Ratios \subseteq 0..100
  /\ <<>> \in Descriptions
  /\ Names \cup LoadPartNumbers \cup Descriptions \subseteq Seq(Byte \ {0})
  /\ \A f \in Files : f.value = <<>> => f.type \in {"UploadStatus", "DownloadStatus"}

VARIABLES
  status,    \* statusV of the operation, or NoStatus
  reported,  \* the code of what was last reported of each file
  ended,     \* the application has ended the operation
  calls

reportVars == <<status, reported, ended, calls>>
allVars == <<fileVars, reportVars>>

NoStatus == [none |-> TRUE]

Codes ==
  [OperationAccepted |-> 1, OperationInProgress |-> 2, OperationCompleted |-> 3,
   OperationInProgressAdditionalInfo |-> 4, OperationNotAccepted |-> 4096,
   OperationNotSupported |-> 4098, OperationAbortedByTargetHw |-> 4099,
   OperationAbortedByDlp |-> 4100, OperationAbortedByOperator |-> 4101,
   LoadPartNumberOrDownloadFileFailed |-> 4103, Invalid |-> 65535]

(* statusCode: a file that has failed has no case of its own.              *)
FinalCode(final) ==
  CASE final = "Completed" -> Codes.OperationCompleted
    [] final = "AbortedByDlp" -> Codes.OperationAbortedByDlp
    [] final = "AbortedByOperator" -> Codes.OperationAbortedByOperator
    [] OTHER -> Codes.OperationAbortedByTargetHw

(* The code that stands for a final status, of a file or of the operation. *)
ReportedCode(final) ==
  IF final = "LoadPartNumberOrDownloadFileFailed"
  THEN Codes.LoadPartNumberOrDownloadFileFailed ELSE FinalCode(final)

ProgressCode(description) ==
  IF description = <<>> THEN Codes.OperationInProgress ELSE Codes.OperationInProgressAdditionalInfo

(* filesFinished, loadsFinished: codes that stay.                          *)
FileIsFinal(code) ==
  code \notin {Codes.OperationAccepted, Codes.OperationInProgress,
               Codes.OperationInProgressAdditionalInfo, Codes.Invalid}

-----------------------------------------------------------------------------
(* Information::Status, and what UploadStatus and DownloadStatus add to it. *)

NewStatus ==
  [counter |-> 0, exceptionTimer |-> 0, estimatedTime |-> 0, code |-> Codes.Invalid,
   description |-> <<>>, listRatio |-> 0, files |-> <<>>]

NewFile(name, partNumber) ==
  [name |-> name, partNumber |-> partNumber, ratio |-> 0, code |-> Codes.Invalid,
   description |-> <<>>]

Set(code, description) ==
  [status EXCEPT !.code = code, !.description = description]

IndexOf(files, name) == SelectInSeq(files, LAMBDA f : f.name = name)

(* Bug: the overload that adds is called in place of the one that finds.    *)
ListedAgain(files, name) == Append(files, NewFile(name, <<>>))

(* load, file: a file nobody has reported so far is added.                 *)
Listed(files, name) ==
  IF IndexOf(files, name) = 0 THEN Append(files, NewFile(name, <<>>)) ELSE files

(* What is set of a file, and of a load.                                   *)
FileSet(f, code, description) == [f EXCEPT !.code = code, !.description = description]

LoadSet(load, ratio, code, description) ==
  [FileSet(load, code, description) EXCEPT !.ratio = ratio]

(* The file of that name, listed now if not before.                        *)
FileNamed(name) == Listed(status.files, name)[IndexOf(Listed(status.files, name), name)]

FilesWith(f) ==
  LET files == Listed(status.files, f.name) IN [files EXCEPT ![IndexOf(files, f.name)] = f]

-----------------------------------------------------------------------------
(* The calls.                                                              *)

IsUpload == file.type = "UploadStatus"

Call ==
  /\ status # NoStatus
  /\ bytes = <<>>
  /\ ~ended
  /\ calls < MaxCalls
  /\ calls' = calls + 1
  /\ UNCHANGED fileVars

Accepted ==
  /\ Call
  /\ status' = [Set(Codes.OperationAccepted, <<>>) EXCEPT !.estimatedTime = 0]
  /\ UNCHANGED <<reported, ended>>

InProgress(description, time) ==
  /\ Call
  /\ status' = [Set(ProgressCode(description), description) EXCEPT !.estimatedTime = time]
  /\ UNCHANGED <<reported, ended>>

InProgressWithRatio(description, time, ratio) ==
  /\ Call
  /\ status' = [Set(ProgressCode(description), description) EXCEPT
                  !.estimatedTime = time, !.listRatio = ratio]
  /\ UNCHANGED <<reported, ended>>

(* A final status, set by the application, or by the operation when the    *)
(* file the host writes cannot be used.                                    *)
SetFinal(final, description) ==
  /\ status' = [Set(FinalCode(final), description) EXCEPT !.estimatedTime = 0]
  /\ UNCHANGED reported

(* The application has finished the files first.                           *)
Finished(final, description) ==
  /\ Call
  /\ \A name \in DOMAIN reported : FileIsFinal(reported[name])
  /\ SetFinal(final, description)
  /\ ended' = TRUE

WrittenFileUnusable ==
  /\ Call
  /\ SetFinal("AbortedByTargetHardware", <<>>)
  /\ UNCHANGED ended

Reported(name, code) ==
  /\ Call
  /\ reported' = [n \in DOMAIN reported \cup {name} |-> IF n = name THEN code ELSE reported[n]]
  /\ UNCHANGED ended

(* An accepted file is added in any case: the application accepts it once. *)
LoadAccepted(name, partNumber) ==
  LET load == LoadSet(NewFile(name, partNumber), 0, Codes.OperationAccepted, <<>>) IN
  /\ IsUpload
  /\ name \notin DOMAIN reported
  /\ Reported(name, Codes.OperationAccepted)
  /\ status' = [status EXCEPT !.files = Append(@, load)]

LoadInProgress(name, ratio, description) ==
  LET load == LoadSet(FileNamed(name), ratio, ProgressCode(description), description) IN
  /\ IsUpload
  /\ Reported(name, ProgressCode(description))
  /\ status' = [status EXCEPT !.files = FilesWith(load)]

(* The ratio stays.                                                        *)
LoadFinished(name, final, description) ==
  /\ IsUpload
  /\ Reported(name, ReportedCode(final))
  /\ status' = [status EXCEPT !.files =
       FilesWith(FileSet(FileNamed(name), FinalCode(final), description))]

FileAccepted(name) ==
  LET accepted == FileSet(NewFile(name, <<>>), Codes.OperationAccepted, <<>>) IN
  /\ ~IsUpload
  /\ name \notin DOMAIN reported
  /\ Reported(name, Codes.OperationAccepted)
  /\ status' = [status EXCEPT !.files = Append(@, accepted)]

FileInProgress(name, description) ==
  LET f == FileSet(FileNamed(name), ProgressCode(description), description) IN
  /\ ~IsUpload
  /\ Reported(name, ProgressCode(description))
  /\ status' = [status EXCEPT !.files = FilesWith(f)]

FileFinished(name, final, description) ==
  /\ ~IsUpload
  /\ Reported(name, ReportedCode(final))
  /\ status' = [status EXCEPT !.files =
       FilesWith(FileSet(FileNamed(name), FinalCode(final), description))]

(* Those that have not finished by themselves.                             *)
AllFinished(final, description) ==
  /\ Call
  /\ reported' = [n \in DOMAIN reported |->
                    IF FileIsFinal(reported[n]) THEN reported[n] ELSE ReportedCode(final)]
  /\ status' = [status EXCEPT !.files =
       [i \in DOMAIN @ |-> IF FileIsFinal(@[i].code) THEN @[i]
                           ELSE FileSet(@[i], FinalCode(final), description)]]
  /\ UNCHANGED ended

LoadsFinished(final, description) == IsUpload /\ AllFinished(final, description)
FilesFinished(final, description) == ~IsUpload /\ AllFinished(final, description)

UploadReports ==
  \/ \E name \in Names :
       \/ \E partNumber \in LoadPartNumbers : LoadAccepted(name, partNumber)
       \/ \E ratio \in Ratios, description \in Descriptions : LoadInProgress(name, ratio, description)
       \/ \E final \in Finals : LoadFinished(name, final, <<>>)
  \/ \E final \in Finals, description \in Descriptions : LoadsFinished(final, description)

DownloadReports ==
  \/ \E name \in Names :
       \/ FileAccepted(name)
       \/ \E description \in Descriptions : FileInProgress(name, description)
       \/ \E final \in Finals : FileFinished(name, final, <<>>)
  \/ \E final \in Finals, description \in Descriptions : FilesFinished(final, description)

OperationReports ==
  \/ Accepted
  \/ \E description \in Descriptions :
       \/ InProgress(description, -1)
       \/ \E ratio \in Ratios : InProgressWithRatio(description, 7, ratio)
  \/ \E final \in Finals : Finished(final, <<>>)
  \/ WrittenFileUnusable

-----------------------------------------------------------------------------
(* The status file.                                                        *)

LoadFields(load) ==
  <<load.name, load.partNumber, load.ratio, load.code, load.description>>

FileFields(f) == <<f.name, f.code, f.description>>

StatusFields(s) ==
  <<s.code, s.description, s.counter, s.exceptionTimer, s.estimatedTime, s.listRatio,
    [i \in DOMAIN s.files |-> IF IsUpload THEN LoadFields(s.files[i]) ELSE FileFields(s.files[i])]>>

(* Without any status so far the operation is accepted.                    *)
StatusFile ==
  LET accepted == IF status.code = Codes.Invalid THEN Set(Codes.OperationAccepted, <<>>) ELSE status
  IN  /\ status # NoStatus
      /\ bytes = <<>>
      /\ status.counter < MaxFiles
      /\ file' = [file EXCEPT !.value = StatusFields(accepted)]
      /\ Fits(FileTypes[file.type], file'.value, file.peer)
      /\ bytes' = Encode(file.type, file.version, file'.value, file.peer)
      /\ status' = [accepted EXCEPT !.counter = (@ + 1) % Word]
      /\ UNCHANGED <<taken, arrived, decoded, reported, ended, calls>>

(* statusFileCompleted: the next one is bytes unless the status is final.   *)
StatusFileCompleted ==
  /\ status # NoStatus
  /\ decoded # Nothing
  /\ ~FileIsFinal(file.value[1])
  /\ bytes' = <<>>
  /\ taken' = Unrequested
  /\ arrived' = <<>>
  /\ decoded' = Nothing
  /\ UNCHANGED <<file, reportVars>>

StatusFileTransfer ==
  /\ status # NoStatus
  /\ Requests \/ Arrives(bytes) \/ Decodes
  /\ UNCHANGED reportVars

-----------------------------------------------------------------------------
ReportInit ==
  /\ FileInit
  /\ status = IF file.value = <<>> THEN NewStatus ELSE NoStatus
  /\ reported = <<>>
  /\ ended = FALSE
  /\ calls = 0

ReportNext ==
  \/ status = NoStatus /\ FileNext /\ UNCHANGED reportVars
  \/ UploadReports
  \/ DownloadReports
  \/ OperationReports
  \/ StatusFile
  \/ StatusFileTransfer
  \/ StatusFileCompleted

ReportSpec == ReportInit /\ [][ReportNext]_allVars

-----------------------------------------------------------------------------
(* What may be read of a file by what was reported of it.  The program has *)
(* no code for the failure of a single file, of which the host must read   *)
(* that it has ended, and not that it is complete.                         *)
Tells(code, last) ==
  IF last = Codes.LoadPartNumberOrDownloadFileFailed
  THEN FileIsFinal(code) /\ code # Codes.OperationCompleted ELSE code = last

(* What the host is told of a load or file, by its entry of the list.      *)
CodeIn(entry) == IF IsUpload THEN entry[4] ELSE entry[2]

(* The host reads of each load or file what the application has reported   *)
(* of it last (of one that has failed by itself, that it has failed), once *)
(* and in one status, whatever it has reported of the others and however   *)
(* often; and the status that the application ends the operation with      *)
(* leaves none of them unfinished (loadFinished, loadsFinished,            *)
(* fileFinished, filesFinished, UploadStatus::load, DownloadStatus::file). *)
StatusTold ==
  status # NoStatus /\ decoded # Nothing =>
    LET list == decoded.value[7]
    IN  /\ decoded.ok
        /\ Len(list) = Cardinality(DOMAIN reported)
        /\ \A name \in DOMAIN reported :
             \E i \in DOMAIN list : list[i][1] = name /\ Tells(CodeIn(list[i]), reported[name])
        /\ ended => \A i \in DOMAIN list : FileIsFinal(CodeIn(list[i]))

=============================================================================
