---------------------------- MODULE HostCommand ----------------------------
(***************************************************************************)
(* What the commands of the CLI have in common, around the host operation  *)
(* each of them runs:                                                      *)
(*   - the main thread, which connects the signals, starts the operation,  *)
(*     waits on the latch and then stops the io_context;                   *)
(*   - the io thread, which runs every handler, one at a time, from before *)
(*     the command starts until the io_context is stopped;                 *)
(*   - the operator's signals, whose handler the io thread runs;           *)
(*   - the target and the network, which answer as they please.            *)
(* The steps here change the operation and the process; the commands add   *)
(* to each of them what it does to their own members.                      *)
(***************************************************************************)
EXTENDS HostOperation, Integers

CONSTANT
  MaxSignals   \* number of SIGINT and SIGTERM the operator sends

ASSUME CommandAssumption == MaxSignals \in Nat

VARIABLES
  mainThread,     \* where the main thread is, see MainThreadStates
  signals,        \* signals handled so far
  abortIndicator  \* static abortIndicator of signalHandler

processVars == <<mainThread, signals, abortIndicator>>
hostCommandVars == <<hostVars, processVars>>

(* "connected": the operation exists and the signals reach it; "starting": *)
(* in start(), its server listens; "waiting": start() is done, blocked in  *)
(* done.wait(); "woken": wait() has returned, execute() reports and saves; *)
(* "returned": execute() has returned and its scoped connections are gone; *)
(* "stopped": the io thread is joined.                                     *)
MainThreadStates ==
  {"parsing", "connected", "starting", "waiting", "woken", "returned", "stopped"}

HostCommandTypeOK ==
  /\ HostTypeOK
  /\ mainThread \in MainThreadStates
  /\ signals \in 0..MaxSignals
  /\ abortIndicator \in BOOLEAN

HostCommandInit ==
  /\ HostInit
  /\ mainThread = "parsing"
  /\ signals = 0
  /\ abortIndicator = FALSE

IoThreadRuns == mainThread # "stopped"

(* Bug: the latch waits for the watchdog as well.                          *)
LatchOfTwo == 2 - finishedCalls

(* Every call of finished counts the latch down, below zero if need be.    *)
Latch == 1 - finishedCalls

-----------------------------------------------------------------------------
(* The main thread.                                                        *)

Goes(from, to) ==
  /\ mainThread = from
  /\ mainThread' = to
  /\ UNCHANGED <<signals, abortIndicator>>

Connect == Goes("parsing", "connected") /\ UNCHANGED hostVars

StartServer == Goes("connected", "starting") /\ InitialiseServer

StartRequest == Goes("starting", "waiting") /\ InitialiseRequest

(* Options and files are checked before there is an operation, and start() *)
(* throws when a socket cannot be opened: execute() returns without        *)
(* waiting, whatever was started goes on until the io_context is stopped.  *)
ExecuteThrows ==
  /\ \E state \in {"parsing", "connected", "starting"} : Goes(state, "returned")
  /\ UNCHANGED hostVars

(* wait() returns when it reads zero.                                      *)
DoneWaitReturns ==
  /\ Latch = 0
  /\ Goes("waiting", "woken")
  /\ UNCHANGED hostVars

ExecuteReturns == Goes("woken", "returned") /\ UNCHANGED hostVars

StopIoContext == Goes("returned", "stopped") /\ UNCHANGED hostVars

-----------------------------------------------------------------------------
(* signalHandler: the first signal aborts, each later one terminates.  A   *)
(* signal that finds no operation connected reaches nobody, but counts.    *)

SignalHandled ==
  /\ IoThreadRuns
  /\ signals < MaxSignals
  /\ signals' = signals + 1
  /\ UNCHANGED mainThread

Connected == mainThread \in {"connected", "starting", "waiting", "woken"}

AbortSignal ==
  /\ SignalHandled
  /\ ~abortIndicator
  /\ abortIndicator' = TRUE
  /\ IF Connected THEN DoAbort("Operator") ELSE UNCHANGED hostVars

TerminateSignal ==
  /\ SignalHandled
  /\ abortIndicator
  /\ UNCHANGED abortIndicator
  /\ IF Connected THEN DoTerminate ELSE UNCHANGED hostVars

-----------------------------------------------------------------------------
(* Handlers of the operation, run by the io thread.                        *)

InIoThread == IoThreadRuns /\ UNCHANGED processVars

InitialisationFileCompleted ==
  /\ InIoThread
  /\ \/ \E version \in Versions : InitialisationAccepted(version)
     \/ InitialisationFailed

TimerExpires == InIoThread /\ DlpTimerExpires

Timeout == InIoThread /\ TimerHandler

StatusRequest ==
  /\ InIoThread
  /\ StatusFileRefused \/ \E file \in StatusFiles : StatusFileRequest(file)

StatusReceived(file, code) == InIoThread /\ StatusFileReceived(file, code)

StatusLost(file) ==
  /\ InIoThread
  /\ StatusFileFailed(file) \/ StatusFileUndecodable(file)

(* Any other request: the commands say which transfer it starts, if any.   *)
OtherRequest ==
  /\ InIoThread
  /\ ReceivedTftpRequest
  /\ UNCHANGED <<initialisationOperation, protocolVersion, abortReason,
                 dlpTimer, timeoutPosted, tftpServer, statusFileOperations,
                 abortsSent, finishedCalls>>

(* A transfer of the host's own ends: to no effect on the operation, or    *)
(* with its abort.                                                         *)
TransferOver == InIoThread /\ UNCHANGED hostVars

AbortFromWithin(reason) == InIoThread /\ DoAbort(reason)

(* A file the target has pushed, other than a status, ends the operation   *)
(* or starts the watchdog again.  Not every command has such files.        *)
FinishedByFile ==
  /\ InIoThread
  /\ Finished
  /\ UNCHANGED <<initialisationOperation, protocolVersion, abortReason,
                 timeoutPosted, statusFileOperations, requests, abortsSent>>

WatchedByFile ==
  /\ InIoThread
  /\ TriggerDlpTimeout
  /\ UNCHANGED <<initialisationOperation, protocolVersion, abortReason,
                 timeoutPosted, tftpServer, statusFileOperations, requests,
                 abortsSent, finishedCalls>>

-----------------------------------------------------------------------------
MainThreadStep ==
  \/ Connect
  \/ StartServer
  \/ StartRequest
  \/ ExecuteThrows
  \/ DoneWaitReturns
  \/ ExecuteReturns
  \/ StopIoContext

IoThreadStep ==
  \/ AbortSignal
  \/ TerminateSignal
  \/ InitialisationFileCompleted
  \/ TimerExpires
  \/ Timeout
  \/ StatusRequest
  \/ \E file \in StatusFiles, code \in StatusCodes : StatusReceived(file, code)
  \/ \E file \in StatusFiles : StatusLost(file)
  \/ OtherRequest
  \/ \E reason \in AbortReasons : AbortFromWithin(reason)

HostStep == MainThreadStep \/ IoThreadStep

HostCommandSpec == HostCommandInit /\ [][HostStep]_hostCommandVars

-----------------------------------------------------------------------------
(* Safety.                                                                 *)

(* A started operation whose handler has not been told an outcome always   *)
(* has something pending that will tell it one: the transfer of the        *)
(* initialisation file, the running watchdog, or its expiry in the queue   *)
(* of the io_context.  No order of status files, ABORT answers, failed     *)
(* transfers and aborts leaves the command blocked on its latch with       *)
(* nothing to wake it.                                                     *)
NeverStranded ==
  mainThread = "waiting" /\ finishedCalls = 0 =>
    \/ initialisationOperation # "none"
    \/ dlpTimer
    \/ timeoutPosted

(* What is still in progress and can call the handler's finished: each     *)
(* transfer, each timer handler and each signal does so at most once.      *)
One(holds) == IF holds THEN 1 ELSE 0

Outstanding ==
    Cardinality(statusFileOperations)
  + One(initialisationOperation # "none")
  + One(dlpTimer)
  + One(timeoutPosted)
  + (MaxSignals - signals)

(* The outcome is told, the server has stopped and start() is over.        *)
Draining ==
  /\ finishedCalls > 0
  /\ ~tftpServer
  /\ mainThread \notin {"connected", "starting"}

(* finished() does not cancel the transfers in progress, and a late status *)
(* file starts the cancelled watchdog again.  Still the operation only     *)
(* drains: every further call of finished is paid for by a transfer, a     *)
(* timer handler or a signal that was outstanding at the first one.        *)
FinishedOnlyDrains ==
  [][Draining => finishedCalls' + Outstanding' <= finishedCalls + Outstanding]_hostCommandVars

-----------------------------------------------------------------------------
(* Liveness, under the fairness of the commands.                           *)

(* Once the target has accepted the operation, the handler is told an      *)
(* outcome when the target goes quiet, whatever it has sent before and     *)
(* whether or not its files could be decoded.                              *)
AcceptedOperationEnds == (protocolVersion # NoVersion) ~> (finishedCalls > 0)

(* A finished operation ends the process, unless finished is called again  *)
(* before the main thread reads the latch: only that can leave it blocked. *)
ProcessEndsUnlessFinishedTwice ==
  (mainThread = "waiting" /\ finishedCalls > 0) ~>
    (mainThread = "stopped" \/ finishedCalls > 1)

-----------------------------------------------------------------------------
(* What the documentation says and the code does not keep.                 *)

(* The second signal has reached the operation: the first one left its     *)
(* mark on it, hence the operation was connected by then.                  *)
Terminated ==
  mainThread = "waiting" /\ signals > 1 /\ abortReason = "Operator"

(* README.md: "A second Ctrl-C terminates hard."  The transfer of the      *)
(* initialisation file that terminate() aborts calls finished once more.   *)
SecondSignalStops == Terminated ~> (mainThread = "stopped")

=============================================================================
