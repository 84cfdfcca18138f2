-------------------------- MODULE HostInformation --------------------------
(***************************************************************************)
(* Arinc615a::Host::InformationOperationImpl: what the information         *)
(* operation of the host adds to HostOperation, the list file the target   *)
(* writes and whether a final status is to follow it.                      *)
(***************************************************************************)
EXTENDS Naturals

CONSTANTS
  ListFiles,  \* identities of the list transfers in progress at a time
  NoList      \* no list transfer

ASSUME InformationAssumption == NoList \notin ListFiles

VARIABLES
  waitForFinalStatus,  \* waitForFinalStatusV
  listFileOperation,   \* listFileOperationV: the list transfer it points to
  listTransfers        \* list transfers in progress, whether pointed to or not

informationVars == <<waitForFinalStatus, listFileOperation, listTransfers>>

InformationTypeOK ==
  /\ waitForFinalStatus \in BOOLEAN
  /\ listFileOperation \in listTransfers \cup {NoList}
  /\ listTransfers \in SUBSET ListFiles

InformationInit ==
  /\ waitForFinalStatus = FALSE
  /\ listFileOperation = NoList
  /\ listTransfers = {}

-----------------------------------------------------------------------------

Start ==
  /\ waitForFinalStatus' = FALSE
  /\ UNCHANGED <<listFileOperation, listTransfers>>

(* A new list replaces the one in progress.  gracefulAbort does not take   *)
(* back the completion handler of the old one.  A read request of a list   *)
(* is answered with an error, and then handled like a write request.       *)
ListFileRequest(list) ==
  /\ list \in ListFiles \ listTransfers
  /\ listTransfers' = listTransfers \cup {list}
  /\ listFileOperation' = list
  /\ UNCHANGED waitForFinalStatus

(* Bug: the transfer that completed is kept.                               *)
ListFileStays(list) ==
  /\ list \in listTransfers
  /\ UNCHANGED <<waitForFinalStatus, listTransfers>>
  /\ listFileOperation' = NoList

(* Bug: the member still points to the transfer that completed.            *)
ListFileNotReset(list) ==
  /\ list \in listTransfers
  /\ listTransfers' = listTransfers \ {list}
  /\ UNCHANGED <<waitForFinalStatus, listFileOperation>>

(* Whichever list has completed, the member is reset.                      *)
ListFileOver(list) ==
  /\ list \in listTransfers
  /\ listTransfers' = listTransfers \ {list}
  /\ listFileOperation' = NoList
  /\ UNCHANGED waitForFinalStatus

(* A status that keeps the operation alive announces a final one.          *)
AwaitFinalStatus ==
  /\ waitForFinalStatus' = TRUE
  /\ UNCHANGED <<listFileOperation, listTransfers>>

=============================================================================
