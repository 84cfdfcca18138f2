----------------------------- MODULE TftpClient -----------------------------
(***************************************************************************)
(* Arinc615a::Tftp::Clients::OperationImpl: the retry mechanism around a   *)
(* TFTP transfer.  Every attempt is a new operation of the TFTP library;   *)
(* its failure is retried, WAIT postpones the next attempt, ABORT and the  *)
(* owner's own abort end the transfer.                                     *)
(*                                                                         *)
(* The TFTP library is not part of the repository.  An attempt completes   *)
(* with any status; with Aborted only when it was aborted.                 *)
(***************************************************************************)
EXTENDS Naturals

CONSTANTS
  RetryRange,  \* number of values of the retry counter, 2^16 for uint16_t
  MaxWaits     \* number of WAIT messages before the peer is ready

ASSUME ClientAssumption ==
  /\ RetryRange \in Nat \ {0}
  /\ MaxWaits \in Nat

VARIABLES
  dlpRetries,     \* dlpRetriesV, any value the option parser accepts
  handleAbort,    \* handleAbortV
  retries,        \* retriesV
  requested,      \* request() was called
  operation,      \* operationV: "none", "active", or "aborting" once aborted
  waitTimer,      \* waitTimerV: "idle", "armed", or its handler is queued,
                  \* "expired" with success, "cancelled" with operation_aborted
  waits,          \* WAIT messages received (bound of the model)
  abortRequested, \* the owner called gracefulAbort or abort
  completion,     \* last status given to operationCompletionHandlerV
  completions     \* number of calls of operationCompletionHandlerV

configuration == <<dlpRetries, handleAbort>>
owner == <<requested, abortRequested>>
vars == <<configuration, retries, operation, waitTimer, waits, owner,
          completion, completions>>

AbortCodes == {"OperationAbortedByDlp", "OperationAbortedByOperator"}
TransferStatus == AbortCodes \cup {"Successful", "Aborted", "CommunicationError"}

TypeOK ==
  /\ dlpRetries \in 0..(RetryRange - 1)
  /\ handleAbort \in BOOLEAN
  /\ retries \in 0..(RetryRange - 1)
  /\ requested \in BOOLEAN
  /\ operation \in {"none", "active", "aborting"}
  /\ waitTimer \in {"idle", "armed", "expired", "cancelled"}
  /\ waits \in 0..MaxWaits
  /\ abortRequested \in BOOLEAN
  /\ completion \in TransferStatus \cup {"none"}
  /\ completions \in Nat

Init ==
  /\ dlpRetries \in 0..(RetryRange - 1)
  /\ handleAbort \in BOOLEAN
  /\ retries = 0
  /\ requested = FALSE
  /\ operation = "none"
  /\ waitTimer = "idle"
  /\ waits = 0
  /\ abortRequested = FALSE
  /\ completion = "none"
  /\ completions = 0

Complete(status) ==
  /\ completion' = status
  /\ completions' = completions + 1

-----------------------------------------------------------------------------
(* The owner.                                                              *)

Request ==
  /\ ~requested
  /\ requested' = TRUE
  /\ retries' = 0
  /\ operation' = "active"
  /\ UNCHANGED <<configuration, waitTimer, waits, abortRequested,
                 completion, completions>>

(* gracefulAbort and abort, which differ in what the peer is told.  The    *)
(* owner drops its reference in the completion handler.                    *)
Abort ==
  /\ completions = 0
  /\ abortRequested' = TRUE
  /\ waitTimer' = IF waitTimer = "armed" THEN "cancelled" ELSE waitTimer
  /\ operation' = IF operation = "none" THEN "none" ELSE "aborting"
  /\ UNCHANGED <<configuration, retries, waits, requested, completion,
                 completions>>

-----------------------------------------------------------------------------
(* handleCompletion.                                                       *)

AttemptCompleted ==
  /\ operation # "none"
  /\ UNCHANGED <<configuration, owner>>

TransferSucceeded ==
  /\ AttemptCompleted
  /\ operation' = "none"
  /\ Complete("Successful")
  /\ UNCHANGED <<retries, waitTimer, waits>>

TransferAborted ==
  /\ AttemptCompleted
  /\ operation = "aborting"
  /\ operation' = "none"
  /\ Complete("Aborted")
  /\ UNCHANGED <<retries, waitTimer, waits>>

(* An ABORT message of the peer, where it is handled.                      *)
AbortReceived ==
  /\ AttemptCompleted
  /\ handleAbort
  /\ operation' = "none"
  /\ \E code \in AbortCodes : Complete(code)
  /\ UNCHANGED <<retries, waitTimer, waits>>

(* Bug: no return after the wait timer is set up.                          *)
WaitReceivedFallsThrough ==
  /\ AttemptCompleted
  /\ waits < MaxWaits
  /\ waits' = waits + 1
  /\ operation' = "active"
  /\ waitTimer' = "armed"
  /\ UNCHANGED <<retries, completion, completions>>

(* A WAIT message whose time can be decoded: no retry is spent.            *)
WaitReceived ==
  /\ AttemptCompleted
  /\ waits < MaxWaits
  /\ waits' = waits + 1
  /\ operation' = "none"
  /\ waitTimer' = "armed"
  /\ UNCHANGED <<retries, completion, completions>>

(* Bug: the counter is wider than the type of the limit.                   *)
RetryUnwrapped ==
  /\ retries' = retries + 1
  /\ IF retries' > dlpRetries
     THEN operation' = "none" /\ Complete("CommunicationError")
     ELSE operation' = "active" /\ UNCHANGED <<completion, completions>>

(* Bug: the last retry is not made.                                        *)
RetryOneLess ==
  /\ retries' = (retries + 1) % RetryRange
  /\ IF retries' >= dlpRetries
     THEN operation' = "none" /\ Complete("CommunicationError")
     ELSE operation' = "active" /\ UNCHANGED <<completion, completions>>

(* Bug: the next attempt is made by request(), which clears the counter.   *)
RetryByRequest ==
  IF retries + 1 > dlpRetries
  THEN /\ operation' = "none"
       /\ retries' = retries
       /\ Complete("CommunicationError")
  ELSE /\ operation' = "active"
       /\ retries' = 0
       /\ UNCHANGED <<completion, completions>>

Retry ==
  /\ retries' = (retries + 1) % RetryRange
  /\ IF retries' > dlpRetries
     THEN operation' = "none" /\ Complete("CommunicationError")
     ELSE operation' = "active" /\ UNCHANGED <<completion, completions>>

(* Every other status and message: an error of the communication, of the   *)
(* option negotiation or of the transfer, a WAIT that cannot be decoded,   *)
(* an ABORT with another code or one that is not handled.                  *)
TransferFailed ==
  /\ AttemptCompleted
  /\ Retry
  /\ UNCHANGED <<waitTimer, waits>>

HandleCompletion ==
  \/ TransferSucceeded
  \/ TransferAborted
  \/ AbortReceived
  \/ WaitReceived
  \/ TransferFailed

-----------------------------------------------------------------------------
(* The wait timer.                                                         *)

WaitTimerExpires ==
  /\ waitTimer = "armed"
  /\ waitTimer' = "expired"
  /\ UNCHANGED <<configuration, retries, operation, waits, owner, completion,
                 completions>>

WaitOver ==
  /\ waitTimer' = "idle"
  /\ UNCHANGED <<configuration, retries, waits, owner>>

HandleWaitTimeout ==
  \/ /\ waitTimer = "cancelled"
     /\ WaitOver
     /\ Complete("OperationAbortedByDlp")
     /\ UNCHANGED operation
  \/ /\ waitTimer = "expired"
     /\ WaitOver
     /\ operation' = "active"
     /\ UNCHANGED <<completion, completions>>

-----------------------------------------------------------------------------
Next ==
  \/ Request
  \/ Abort
  \/ HandleCompletion
  \/ WaitTimerExpires
  \/ HandleWaitTimeout

Spec == Init /\ [][Next]_vars

(* An attempt ends, since the TFTP library retries packets only so often,  *)
(* a timer expires and the io_context runs what is queued.                 *)
Fairness ==
  /\ WF_vars(HandleCompletion)
  /\ WF_vars(WaitTimerExpires)
  /\ WF_vars(HandleWaitTimeout)

FairSpec == Spec /\ Fairness

-----------------------------------------------------------------------------
(* Between its request and its completion exactly one thing is pending     *)
(* that will take the transfer on, an attempt or the wait timer; before    *)
(* and afterwards nothing is.  So the owner is told one outcome, once, and *)
(* may destroy the transfer when it is told: no attempt and no handler of  *)
(* the timer is left to call into it.                                      *)
OnePathPending ==
  IF requested /\ completions = 0
  THEN (operation = "none") # (waitTimer = "idle")
  ELSE operation = "none" /\ waitTimer = "idle" /\ completions <= 1

(* The counter can exceed every limit but the largest.                     *)
Bounded == dlpRetries < RetryRange - 1

Transfer == INSTANCE TftpTransfer WITH
  phase <- IF completions > 0 THEN "closed" ELSE IF requested THEN "open" ELSE "idle",
  forgiving <- IF Bounded /\ retries <= dlpRetries THEN dlpRetries - retries ELSE 0,
  bounded <- Bounded,
  handlesAbort <- handleAbort,
  abortAsked <- abortRequested,
  outcome <- completion

(* The retries, waits and aborts implement the promise: a failed attempt   *)
(* spends one retry and a WAIT none, the transfer gives up after exactly   *)
(* dlpRetries + 1 failed attempts, and an ABORT message ends it only where *)
(* it is handled.                                                          *)
ImplementsTransfer == Transfer!Spec

(* A transfer ends, whatever mixture of failures, WAITs and late aborts it *)
(* meets, when its peer is ready at last.  Not so with the largest limit,  *)
(* which the counter never exceeds.                                        *)
TransferEnds == Transfer!Ends

=============================================================================
