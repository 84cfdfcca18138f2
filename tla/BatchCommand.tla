---------------------------- MODULE BatchCommand ----------------------------
(***************************************************************************)
(* BatchUploadOperationCommand: one upload after the other, the next one   *)
(* started from within the call by which the previous one is finished; and *)
(* the commands that upload to a single target, which differ in that there *)
(* is no next one and no proxy, and the signals let go of the operation.   *)
(*                                                                         *)
(* An upload operation is reduced to what decides when it calls its        *)
(* handler, as HostOperation models it in full: whether its server runs,   *)
(* its initialisation, its watchdog, its status transfers and its abort.   *)
(* Finished operations live on: a batch's signals hold them, and are never *)
(* disconnected.  The proxy each one reports to does not.                  *)
(***************************************************************************)
EXTENDS Integers, FiniteSets, FiniteSetsExt

CONSTANTS
  Targets,      \* the batch's targets, numbered in their order
  PortOption,   \* whether each operation's server has a port of its own
  MaxTransfers, \* status transfers an operation has in progress
  MaxRequests,  \* status files a target sends
  MaxSignals    \* SIGINT and SIGTERM the operator sends

ASSUME BatchAssumption ==
  /\ Targets \subseteq Nat /\ Targets # {} /\ IsFiniteSet(Targets)
  /\ MaxTransfers \in Nat /\ MaxRequests \in Nat /\ MaxSignals \in Nat

VARIABLES
  batch,           \* the command is the batch
  mainThread,      \* "connected", "waiting", "woken", "returned" or "stopped"
  signals,         \* signals handled so far
  batchTargets,    \* batchTargetsV: targets not begun
  current,         \* the target of operationV, or NoTarget
  proxy,           \* the target of batchUploadOperationProxyV, or NoTarget
  loadListSent,    \* loadListTransmittedV
  finishedCalls,   \* how often done was counted down
  connected,       \* targets whose operation the signals reach
  outcomes,        \* what each target's operation has told first, or "none"
  undefined,       \* nothing is known of the process any more
  (* of each operation: *)
  listening,       \* its TFTP server runs
  initialising,    \* the transfer of its initialisation file
  watched,         \* its watchdog runs, or its expiry is queued
  transfers,       \* number of status transfers in progress
  requests,        \* number of status files begun
  aborted          \* its abort reason is set

commandVars == <<batchTargets, current, proxy, loadListSent, finishedCalls, connected>>
operationVars == <<listening, initialising, watched, transfers, requests, aborted>>
vars == <<batch, mainThread, signals, commandVars, outcomes, undefined, operationVars>>

NoTarget == -1
Codes == {"Completed", "Failed"}

Nowhere == [target \in Targets |-> FALSE]
Nothing == [target \in Targets |-> 0]

Init ==
  /\ batch \in BOOLEAN
  /\ mainThread = "connected"
  /\ signals = 0
  /\ batchTargets = IF batch THEN Targets ELSE {Min(Targets)}
  /\ current = NoTarget
  /\ proxy = NoTarget
  /\ loadListSent = FALSE
  /\ finishedCalls = 0
  /\ connected = {}
  /\ outcomes = [target \in Targets |-> "none"]
  /\ undefined = FALSE
  /\ listening = Nowhere
  /\ initialising = Nowhere
  /\ watched = Nowhere
  /\ transfers = Nothing
  /\ requests = Nothing
  /\ aborted = Nowhere

-----------------------------------------------------------------------------
(* The command.                                                            *)

(* nextBatchTarget; servers and starting are the servers that run and the  *)
(* initialisations in progress, when it is called or soon after.           *)
BeginNext(servers, starting) ==
  LET next == Min(batchTargets)
  IN  /\ batchTargets' = batchTargets \ {next}
      /\ loadListSent' = FALSE
      /\ proxy' = next
      /\ current' = next
      /\ connected' = connected \cup {next}
      /\ listening' = [servers EXCEPT ![next] = TRUE]
      /\ initialising' = [starting EXCEPT ![next] = TRUE]
      /\ UNCHANGED finishedCalls

(* Only the batch lets go of its operation.                                *)
CountDown(servers, starting) ==
  /\ finishedCalls' = finishedCalls + 1
  /\ current' = IF batch THEN NoTarget ELSE current
  /\ listening' = servers
  /\ initialising' = starting
  /\ UNCHANGED <<batchTargets, proxy, loadListSent, connected>>

(* Bug: an empty batch is not reported.                                    *)
NextBatchTargetOnly(servers, starting) ==
  IF batchTargets = {}
  THEN /\ current' = NoTarget
       /\ listening' = servers
       /\ initialising' = starting
       /\ UNCHANGED <<finishedCalls, batchTargets, proxy, loadListSent, connected>>
  ELSE BeginNext(servers, starting)

NextBatchTarget(servers, starting) ==
  IF batchTargets = {} THEN CountDown(servers, starting) ELSE BeginNext(servers, starting)

(* Bug: the outcome of a target does not matter to the next one.           *)
CommandFinishedGoesOn(code, servers, starting) ==
  IF batch THEN NextBatchTarget(servers, starting) ELSE CountDown(servers, starting)

(* finished: resets operationV, and ends the batch or goes on with it.     *)
CommandFinished(code, servers, starting) ==
  IF batch /\ code = "Completed"
  THEN NextBatchTarget(servers, starting)
  ELSE CountDown(servers, starting)

-----------------------------------------------------------------------------
(* An operation, whose handlers the io thread runs.                        *)

Runs == mainThread # "stopped" /\ ~undefined

(* The process may do anything, and nothing more is said of it: of its     *)
(* operations not even where they were, so that this is one state for TLC. *)
Undefined ==
  /\ undefined' = TRUE
  /\ listening' = Nowhere /\ initialising' = Nowhere /\ watched' = Nowhere
  /\ transfers' = Nothing /\ requests' = Nothing /\ aborted' = Nowhere
  /\ UNCHANGED <<batch, mainThread, signals, commandVars, outcomes>>

InIoThread == Runs /\ UNCHANGED <<batch, mainThread, signals, undefined>>

(* An operation that is not the proxy's target calls a destroyed proxy;    *)
(* when it does not have a port of its own, the next server may not start. *)
Stale(target) == proxy # target

PortInUse(code) == ~PortOption /\ code = "Completed" /\ batchTargets # {}

(* Bug: the server is left to itself.                                      *)
FinishLeavesServer(target, code, starting, transfersLeft) ==
  /\ InIoThread
  /\ ~Stale(target)
  /\ CommandFinished(code, listening, starting)
  /\ outcomes' = [outcomes EXCEPT ![target] = IF @ = "none" THEN code ELSE @]
  /\ watched' = [watched EXCEPT ![target] = FALSE]
  /\ transfers' = transfersLeft
  /\ UNCHANGED <<requests, aborted>>

(* OperationImpl::finished: handler first, then timer and server.          *)
Finish(target, code, starting, transfersLeft) ==
  /\ InIoThread
  /\ ~Stale(target)
  /\ CommandFinished(code, [listening EXCEPT ![target] = FALSE], starting)
  /\ outcomes' = [outcomes EXCEPT ![target] = IF @ = "none" THEN code ELSE @]
  /\ watched' = [watched EXCEPT ![target] = FALSE]
  /\ transfers' = transfersLeft
  /\ UNCHANGED <<requests, aborted>>

FinishUndefined(target, code) == Runs /\ (Stale(target) \/ PortInUse(code)) /\ Undefined

Finishes(target, code, starting, transfersLeft) ==
  Finish(target, code, starting, transfersLeft) \/ FinishUndefined(target, code)

Initialised(target) == [initialising EXCEPT ![target] = FALSE]

InitialisationFileCompleted(target) ==
  /\ initialising[target]
  /\ \/ /\ InIoThread
        /\ ~Stale(target)
        /\ initialising' = Initialised(target)
        /\ watched' = [watched EXCEPT ![target] = TRUE]
        /\ UNCHANGED <<commandVars, outcomes, listening, transfers, requests, aborted>>
     \/ Finishes(target, "Failed", Initialised(target), transfers)

Timeout(target) == watched[target] /\ Finishes(target, "Failed", initialising, transfers)

(* A status file of the target, unless it is answered with the abort.      *)
StatusFileRequest(target) ==
  /\ InIoThread
  /\ listening[target]
  /\ requests[target] < MaxRequests
  /\ requests' = [requests EXCEPT ![target] = @ + 1]
  /\ IF aborted[target]
     THEN /\ aborted' = [aborted EXCEPT ![target] = FALSE]
          /\ watched' = [watched EXCEPT ![target] = TRUE]
          /\ UNCHANGED transfers
     ELSE /\ transfers[target] < MaxTransfers
          /\ transfers' = [transfers EXCEPT ![target] = @ + 1]
          /\ UNCHANGED <<aborted, watched>>
  /\ UNCHANGED <<commandVars, outcomes, listening, initialising>>

Removed(target) == [transfers EXCEPT ![target] = @ - 1]

(* The command's status asserts that there is an operation, and sends it   *)
(* the load list on the first accepted status.  Without the assertion only *)
(* the load list needs the operation.                                      *)
StatusUndefined(target) ==
  /\ Runs
  /\ transfers[target] > 0
  /\ Stale(target) \/ current = NoTarget
  /\ Undefined

StatusFileRunning(target, code) ==
  /\ InIoThread
  /\ transfers[target] > 0
  /\ ~Stale(target)
  /\ current # NoTarget \/ loadListSent \/ code # "Accepted"
  /\ transfers' = Removed(target)
  /\ loadListSent' = (loadListSent \/ code = "Accepted")
  /\ watched' = [watched EXCEPT ![target] = TRUE]
  /\ UNCHANGED <<batchTargets, current, proxy, finishedCalls, connected, outcomes,
                 listening, initialising, requests, aborted>>

StatusFileFinal(target, code) ==
  /\ transfers[target] > 0
  /\ Finishes(target, code, initialising, Removed(target))

StatusFileFailed(target) ==
  transfers[target] > 0 /\ Finishes(target, "Failed", initialising, Removed(target))

StatusFileCompleted(target) ==
  \/ \E code \in {"Accepted", "InProgress"} : StatusFileRunning(target, code)
  \/ \E code \in Codes : StatusFileFinal(target, code)
  \/ StatusFileFailed(target)
  \/ StatusUndefined(target)

Operation(target) ==
  \/ InitialisationFileCompleted(target)
  \/ Timeout(target)
  \/ StatusFileRequest(target)
  \/ StatusFileCompleted(target)

-----------------------------------------------------------------------------
(* Signals, which reach every operation begun so far.                      *)

Signalled == Runs /\ signals < MaxSignals /\ signals' = signals + 1

AbortSignal ==
  /\ Signalled
  /\ signals = 0
  /\ aborted' = [target \in Targets |-> aborted[target] \/ target \in connected]
  /\ UNCHANGED <<batch, mainThread, commandVars, outcomes, undefined, listening, initialising,
                 watched, transfers, requests>>

(* terminate finishes each of them; the ones before the current one call   *)
(* their destroyed proxy.                                                  *)
TerminateSignal ==
  /\ Runs
  /\ signals > 0 /\ signals < MaxSignals
  /\ UNCHANGED batch
  /\ CASE connected = {} ->
            /\ signals' = signals + 1
            /\ UNCHANGED <<mainThread, commandVars, outcomes, undefined, operationVars>>
       [] connected = {proxy} ->
            /\ signals' = signals + 1
            /\ CommandFinished("Failed", [listening EXCEPT ![proxy] = FALSE], initialising)
            /\ outcomes' = [outcomes EXCEPT ![proxy] = IF @ = "none" THEN "Failed" ELSE @]
            /\ watched' = [watched EXCEPT ![proxy] = FALSE]
            /\ UNCHANGED <<mainThread, undefined, transfers, requests, aborted>>
       [] OTHER -> Undefined

-----------------------------------------------------------------------------
(* The main thread.                                                        *)

Goes(from, to) ==
  /\ ~undefined
  /\ mainThread = from
  /\ mainThread' = to
  /\ UNCHANGED <<batch, signals, outcomes, undefined, watched, transfers, requests, aborted>>

StartFirst == Goes("connected", "waiting") /\ NextBatchTarget(listening, initialising)

(* Nothing is served yet when the first server does not start.             *)
ExecuteThrows ==
  /\ Goes("connected", "returned")
  /\ UNCHANGED <<commandVars, listening, initialising>>

DoneWaitReturns ==
  /\ finishedCalls = 1
  /\ Goes("waiting", "woken")
  /\ UNCHANGED <<commandVars, listening, initialising>>

(* With a single target the connections to the signals end with execute(). *)
ExecuteReturns ==
  /\ Goes("woken", "returned")
  /\ connected' = IF batch THEN connected ELSE {}
  /\ UNCHANGED <<batchTargets, current, proxy, loadListSent, finishedCalls,
                 listening, initialising>>

StopIoContext ==
  /\ Goes("returned", "stopped")
  /\ UNCHANGED <<commandVars, listening, initialising>>

MainThread ==
  StartFirst \/ ExecuteThrows \/ DoneWaitReturns \/ ExecuteReturns \/ StopIoContext

Next ==
  \/ MainThread
  \/ AbortSignal
  \/ TerminateSignal
  \/ \E target \in Targets : Operation(target)

Spec == Init /\ [][Next]_vars

(* The main thread is scheduled, and an operation that has been started is *)
(* told an outcome: the initialisation is answered, the watchdog expires   *)
(* (AcceptedOperationEnds of UploadCommand).                               *)
Fairness ==
  /\ WF_vars(MainThread)
  /\ \A target \in Targets :
       WF_vars(InitialisationFileCompleted(target)) /\ WF_vars(Timeout(target))

FairSpec == Spec /\ Fairness

-----------------------------------------------------------------------------
(* Properties.                                                             *)

(* The loads the command serves, and the operation it serves them by, are  *)
(* those of the target whose requests can arrive: one server runs at a     *)
(* time, although the next one is started before the previous one stops    *)
(* (BatchUploadOperationCommand::nextBatchTarget, fileRequest).            *)
ServesOneTarget ==
  ~undefined => \A target \in Targets : listening[target] => current = target

(* A target is begun only when all before it are complete, and the command *)
(* is told of the first one that fails (finished).                         *)
CompletedInOrder ==
  ~undefined /\ finishedCalls = 0 =>
    \A target \in connected : \A earlier \in Targets :
      earlier < target => outcomes[earlier] = "Completed"

(* A batch ends, unless the process does before or the latch is counted    *)
(* below zero.                                                             *)
BatchEnds == mainThread = "waiting" ~> mainThread = "stopped" \/ undefined \/ finishedCalls > 1

=============================================================================
