---------------------------- MODULE TftpTransfer ----------------------------
(***************************************************************************)
(* What a TFTP client operation of the data loader promises its owner, who *)
(* sees neither attempts nor waits: the transfer is opened, forgives as    *)
(* many failures as it was configured to, and closes with one outcome.     *)
(* TftpClient is shown to implement it.                                    *)
(***************************************************************************)
EXTENDS Naturals

VARIABLES
  phase,        \* "idle", "open" or "closed"
  forgiving,    \* failures the transfer still forgives
  bounded,      \* FALSE: it forgives every failure
  handlesAbort, \* an ABORT message of the peer ends it
  abortAsked,   \* the owner asked for its end
  outcome       \* what it closed with, "none" before

vars == <<phase, forgiving, bounded, handlesAbort, abortAsked, outcome>>

(* The reasons for which a transfer may close with an outcome.  It gives   *)
(* up only when no failure is left to forgive.                             *)
Justified(status) ==
  CASE status = "Successful" -> TRUE
    [] status = "Aborted" -> abortAsked
    [] status = "OperationAbortedByDlp" -> abortAsked \/ handlesAbort
    [] status = "OperationAbortedByOperator" -> handlesAbort
    [] status = "CommunicationError" -> bounded /\ forgiving = 0

Outcomes == {"Successful", "Aborted", "OperationAbortedByDlp",
             "OperationAbortedByOperator", "CommunicationError"}

Init ==
  /\ phase = "idle"
  /\ forgiving \in Nat
  /\ bounded \in BOOLEAN
  /\ handlesAbort \in BOOLEAN
  /\ abortAsked = FALSE
  /\ outcome = "none"

Open ==
  /\ phase = "idle"
  /\ phase' = "open"
  /\ UNCHANGED <<forgiving, bounded, handlesAbort, abortAsked, outcome>>

Forgive ==
  /\ phase = "open"
  /\ bounded
  /\ forgiving > 0
  /\ forgiving' = forgiving - 1
  /\ UNCHANGED <<phase, bounded, handlesAbort, abortAsked, outcome>>

AskAbort ==
  /\ phase # "closed"
  /\ abortAsked' = TRUE
  /\ UNCHANGED <<phase, forgiving, bounded, handlesAbort, outcome>>

Close(status) ==
  /\ phase = "open"
  /\ Justified(status)
  /\ phase' = "closed"
  /\ outcome' = status
  /\ UNCHANGED <<forgiving, bounded, handlesAbort, abortAsked>>

Next == Open \/ Forgive \/ AskAbort \/ \E status \in Outcomes : Close(status)

Spec == Init /\ [][Next]_vars

(* A transfer that does not forgive for ever closes.                       *)
Ends == (phase = "open" /\ bounded) ~> (phase = "closed")

=============================================================================
