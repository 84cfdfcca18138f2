----------------------------- MODULE HostUpload -----------------------------
(***************************************************************************)
(* Arinc615a::Host::UploadOperationImpl: what the upload operation of the  *)
(* host adds to HostOperation, the load list it writes to the target once. *)
(***************************************************************************)
EXTENDS Naturals

VARIABLES
  loadListOperation,  \* loadListOperationV: "none" or "active"
  loadListSent,       \* loadListSentV
  loadListRequests    \* write requests for the load list, over the operation

uploadVars == <<loadListOperation, loadListSent, loadListRequests>>

UploadTypeOK ==
  /\ loadListOperation \in {"none", "active"}
  /\ loadListSent \in BOOLEAN
  /\ loadListRequests \in Nat

UploadInit ==
  /\ loadListOperation = "none"
  /\ loadListSent = FALSE
  /\ loadListRequests = 0

-----------------------------------------------------------------------------

Start ==
  /\ loadListSent' = FALSE
  /\ UNCHANGED <<loadListOperation, loadListRequests>>

(* Called by the operation's handler.  Only a completed transfer counts as *)
(* sent: a second call replaces, and thereby drops, one in progress.       *)
LoadList ==
  IF loadListSent
  THEN UNCHANGED uploadVars
  ELSE /\ loadListOperation' = "active"
       /\ loadListRequests' = loadListRequests + 1
       /\ UNCHANGED loadListSent

LoadListCompleted(sent) ==
  /\ loadListOperation = "active"
  /\ loadListOperation' = "none"
  /\ loadListSent' = (sent \/ loadListSent)
  /\ UNCHANGED loadListRequests

=============================================================================
