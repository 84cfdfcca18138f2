---------------------------- MODULE HostDownload ----------------------------
(***************************************************************************)
(* Arinc615a::Host::MediaDefinedDownloadOperationImpl and                  *)
(* OperatorDefinedDownloadOperationImpl: what the download operations add  *)
(* to HostOperation.  Both write one file to the target, which selects the *)
(* files to download: the request of a media defined download, the answer  *)
(* of an operator defined one.  The latter answers the list the target     *)
(* writes.  The variables stand for the members of the class at work.      *)
(***************************************************************************)
EXTENDS Naturals, Sequences

CONSTANTS
  Lists,   \* identities of the list transfers in progress at a time
  NoList   \* no list transfer

ASSUME ListAssumption == NoList \notin Lists

VARIABLES
  selectionOperation,  \* requestOperationV or answerOperationV: "none" or "active"
  selectionSent,       \* requestSentV or answerSentV
  selections,          \* the selections written so far, one set of names each
  listFileOperation,   \* listFileOperationV: the list transfer it points to
  listTransfers        \* list transfers in progress, whether pointed to or not

selectionVars == <<selectionOperation, selectionSent, selections>>
listVars == <<listFileOperation, listTransfers>>
downloadVars == <<selectionVars, listVars>>

DownloadInit ==
  /\ selectionOperation = "none"
  /\ selectionSent = FALSE
  /\ selections = <<>>
  /\ listFileOperation = NoList
  /\ listTransfers = {}

-----------------------------------------------------------------------------

Start ==
  /\ selectionSent' = FALSE
  /\ UNCHANGED <<selectionOperation, selections>>

(* request() and answer().  Only a completed transfer counts as sent: a    *)
(* second call replaces, and thereby drops, one in progress.               *)
Select(files) ==
  IF selectionSent
  THEN UNCHANGED selectionVars
  ELSE /\ selectionOperation' = "active"
       /\ selections' = Append(selections, files)
       /\ UNCHANGED selectionSent

(* requestCompleted() and answerCompleted().                               *)
SelectionCompleted(sent) ==
  /\ selectionOperation = "active"
  /\ selectionOperation' = "none"
  /\ selectionSent' = (sent \/ selectionSent)
  /\ UNCHANGED selections

(* A new list replaces the one in progress.  gracefulAbort does not take   *)
(* back the completion handler of the old one.                             *)
ListFileRequest(list) ==
  /\ list \in Lists \ listTransfers
  /\ listTransfers' = listTransfers \cup {list}
  /\ listFileOperation' = list

(* Bug: the member still points to the transfer that completed.            *)
ListFileNotReset(list) ==
  /\ list \in listTransfers
  /\ listTransfers' = listTransfers \ {list}
  /\ UNCHANGED listFileOperation

(* Whichever list has completed, the member is reset.                      *)
ListFileOver(list) ==
  /\ list \in listTransfers
  /\ listTransfers' = listTransfers \ {list}
  /\ listFileOperation' = NoList

=============================================================================
