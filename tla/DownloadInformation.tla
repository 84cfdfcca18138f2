------------------------ MODULE DownloadInformation ------------------------
(***************************************************************************)
(* Arinc615a::Host::DownloadInformation: the record of a download, which   *)
(* the io thread fills in and the main thread saves.  Each method holds    *)
(* the mutex of the object, hence is one step.  Times, paths, sizes and    *)
(* check values are left out.                                              *)
(***************************************************************************)

CONSTANTS
  Names,  \* names of files
  Blank   \* the empty name, which a std::string has once it is moved from

ASSUME NamesAssumption == Blank \notin Names

VARIABLES
  filesRecorded,     \* filesV
  filesInformation,  \* status per entry of filesInformationV, "none" without
  overallStatus,     \* overallStatusV has been given
  saved              \* the information of the files as saved, <<>> before

recordVars == <<filesRecorded, filesInformation, overallStatus, saved>>

(* fileStatus: empty until the transfer has ended.                         *)
FileStatuses == {"", "Transfer OK", "Transfer Error"}

FilesInformation == [Names -> FileStatuses \cup {"none"}]

RecordTypeOK ==
  /\ filesRecorded \in SUBSET (Names \cup {Blank})
  /\ filesInformation \in FilesInformation
  /\ overallStatus \in BOOLEAN
  /\ saved \in FilesInformation \cup {<<>>}

RecordInit ==
  /\ filesRecorded = {}
  /\ filesInformation = [name \in Names |-> "none"]
  /\ overallStatus = FALSE
  /\ saved = <<>>

-----------------------------------------------------------------------------

Files(names) ==
  /\ filesRecorded' = names
  /\ UNCHANGED <<filesInformation, overallStatus, saved>>

(* A second transfer of a file starts its entry anew.                      *)
FileStart(name) ==
  /\ filesInformation' = [filesInformation EXCEPT ![name] = ""]
  /\ UNCHANGED <<filesRecorded, overallStatus, saved>>

FileFinished(name, status) ==
  /\ filesInformation' = [filesInformation EXCEPT ![name] = status]
  /\ UNCHANGED <<filesRecorded, overallStatus, saved>>

OperationFinished ==
  /\ overallStatus' = TRUE
  /\ UNCHANGED <<filesRecorded, filesInformation, saved>>

Save ==
  /\ saved' = filesInformation
  /\ UNCHANGED <<filesRecorded, filesInformation, overallStatus>>

=============================================================================
