----------------------------- MODULE FindQuery -----------------------------
(***************************************************************************)
(* Find::Clients::QueryImpl, and FindQueryCommand around it: the query     *)
(* broadcasts a request and listens until its timer expires or a signal    *)
(* aborts it.  The main thread executes start() while the io thread runs   *)
(* handlers.  Nothing catches what a handler throws: the process dies.     *)
(* Once woken the main thread reads the targets found, which the io thread *)
(* may be adding to: a data race, after which anything may happen.         *)
(***************************************************************************)
EXTENDS FindPacket, Integers

CONSTANTS
  Targets,     \* addresses of targets
  SavesList,   \* whether the command is given a file to write
  MaxSignals   \* SIGINT and SIGTERM the operator sends while connected

ASSUME FindAssumption == SavesList \in BOOLEAN /\ MaxSignals \in Nat

VARIABLES
  mainThread,     \* where the main thread is, see MainThreadStates
  signals,        \* signals handled so far
  socket,         \* socketV
  timer,          \* timerV: its wait, or the expiry queued in the io_context
  reception,      \* the asynchronous receive: pending, or its queued completion
  finishedCalls,  \* calls of completionHandlerV, each counts the latch down
  targets,        \* targetsV, an entry that is there already left out
  saved,          \* the targets the file was written with
  heard,          \* history: the targets known when the query was completed
  crashed         \* an exception has left the io_context, or the race was lost

queryVars ==
  <<mainThread, signals, socket, timer, reception, finishedCalls, targets, saved, heard, crashed>>

(* "connected": the signals reach the query; "opened", "sent",             *)
(* "receiving": within start(); "waiting": in done.wait(); "woken": it     *)
(* reads the targets and writes them; "written": execute() is about to     *)
(* return; "returned": the query is destroyed; "stopped": the io thread is *)
(* joined.                                                                 *)
MainThreadStates ==
  {"connected", "opened", "sent", "receiving", "waiting", "woken", "written",
   "returned", "stopped"}

None == [kind |-> "none"]
Pending == [kind |-> "pending"]
Error == [kind |-> "error"]
Data(remote, raw) == [kind |-> "data", remote |-> remote, raw |-> raw]

QueryInit ==
  /\ mainThread = "connected"
  /\ signals = 0
  /\ socket = "unopened"
  /\ timer = "none"
  /\ reception = None
  /\ finishedCalls = 0
  /\ targets = <<>>
  /\ saved = <<>>
  /\ heard = <<>>
  /\ crashed = FALSE

Runs == mainThread # "stopped" /\ ~crashed

(* async_receive_from of a closed socket completes with an error.          *)
Receive == reception' = IF socket = "open" THEN Pending ELSE Error

(* The completion handler is called.                                       *)
Completes ==
  /\ finishedCalls' = finishedCalls + 1
  /\ heard' = IF finishedCalls = 0 THEN targets ELSE heard

-----------------------------------------------------------------------------
(* The main thread.                                                        *)

Goes(from, to) == ~crashed /\ mainThread = from /\ mainThread' = to

Open ==
  /\ Goes("connected", "opened")
  /\ socket' = "open"
  /\ UNCHANGED <<signals, timer, reception, finishedCalls, targets, saved, heard, crashed>>

BindAndSend ==
  /\ Goes("opened", "sent")
  /\ socket = "open"
  /\ UNCHANGED <<signals, socket, timer, reception, finishedCalls, targets, saved, heard, crashed>>

StartReceive ==
  /\ Goes("sent", "receiving")
  /\ Receive
  /\ UNCHANGED <<signals, socket, timer, finishedCalls, targets, saved, heard, crashed>>

StartTimer ==
  /\ Goes("receiving", "waiting")
  /\ timer' = "pending"
  /\ UNCHANGED <<signals, socket, reception, finishedCalls, targets, saved, heard, crashed>>

(* Opening, binding or sending fails, as it does on a socket that an abort *)
(* has closed: start() calls the completion handler and throws, execute()  *)
(* returns.                                                                *)
StartThrows ==
  /\ \E state \in {"connected", "opened"} : Goes(state, "returned")
  /\ Completes
  /\ socket' = "closed"
  /\ UNCHANGED <<signals, timer, reception, targets, saved, crashed>>

DoneWaitReturns ==
  /\ finishedCalls = 1
  /\ Goes("waiting", "woken")
  /\ UNCHANGED <<signals, socket, timer, reception, finishedCalls, targets, saved, heard, crashed>>

(* A query that has found nothing leaves the file as it is.                *)
WriteList ==
  /\ Goes("woken", "written")
  /\ saved' = IF SavesList THEN targets ELSE <<>>
  /\ UNCHANGED <<signals, socket, timer, reception, finishedCalls, targets, heard, crashed>>

(* The query goes with execute(): what is pending is cancelled, what is    *)
(* queued stays queued.                                                    *)
ExecuteReturns ==
  /\ Goes("written", "returned")
  /\ socket' = "closed"
  /\ timer' = IF timer = "pending" THEN "none" ELSE timer
  /\ reception' = IF reception = Pending THEN None ELSE reception
  /\ UNCHANGED <<signals, finishedCalls, targets, saved, heard, crashed>>

StopIoContext ==
  /\ Goes("returned", "stopped")
  /\ UNCHANGED <<signals, socket, timer, reception, finishedCalls, targets, saved, heard, crashed>>

MainThread ==
  \/ Open \/ BindAndSend \/ StartReceive \/ StartTimer \/ StartThrows
  \/ DoneWaitReturns \/ WriteList \/ ExecuteReturns \/ StopIoContext

-----------------------------------------------------------------------------
(* The io thread.                                                          *)

(* Closing takes back what is pending.  On a socket that is not open it    *)
(* throws; either way the completion handler is called.                    *)
CloseSocket ==
  IF socket = "open"
  THEN /\ socket' = "closed"
       /\ reception' = IF reception = Pending THEN None ELSE reception
       /\ UNCHANGED crashed
  ELSE /\ crashed' = TRUE
       /\ UNCHANGED <<socket, reception>>

Close == CloseSocket /\ Completes

(* abort: connected to both signals.                                       *)
Abort ==
  /\ Runs
  /\ mainThread # "returned"
  /\ signals < MaxSignals
  /\ signals' = signals + 1
  /\ Close
  /\ timer' = IF timer = "pending" /\ socket = "open" THEN "none" ELSE timer
  /\ UNCHANGED <<mainThread, targets, saved>>

TimerExpires ==
  /\ Runs
  /\ timer = "pending"
  /\ timer' = "expired"
  /\ UNCHANGED <<mainThread, signals, socket, reception, finishedCalls, targets, saved, heard, crashed>>

(* Bug: closing is taken for completing.                                   *)
TimerHandlerOnlyCloses ==
  /\ Runs
  /\ mainThread # "returned"
  /\ timer = "expired"
  /\ timer' = "none"
  /\ CloseSocket
  /\ UNCHANGED <<mainThread, signals, finishedCalls, targets, saved, heard>>

TimerHandler ==
  /\ Runs
  /\ mainThread # "returned"
  /\ timer = "expired"
  /\ timer' = "none"
  /\ Close
  /\ UNCHANGED <<mainThread, signals, targets, saved>>

(* A datagram or an error completes the pending reception.                 *)
Arrives(completion) ==
  /\ Runs
  /\ reception = Pending
  /\ reception' = completion
  /\ UNCHANGED <<mainThread, signals, socket, timer, finishedCalls, targets, saved, heard, crashed>>

(* The main thread reads the targets.                                      *)
ReadsTargets == mainThread = "woken" /\ SavesList

Response(remote, raw) ==
  LET found == <<remote, Parameters(raw)>> IN
  IF /\ Handled(raw, InformationAnswer)
     /\ Len(Parameters(raw)) = NumberOfParameters
     /\ found \notin Range(targets)
  THEN /\ targets' = Append(targets, found)
       /\ IF ReadsTargets THEN crashed' \in BOOLEAN ELSE UNCHANGED crashed
  ELSE UNCHANGED <<targets, crashed>>

Received ==
  IF reception.kind = "data"
  THEN Response(reception.remote, reception.raw)
  ELSE UNCHANGED <<targets, crashed>>

(* Bug: an error ends the reception.                                       *)
ReceiveHandlerGivesUp ==
  /\ Runs
  /\ mainThread # "returned"
  /\ reception.kind \in {"data", "error"}
  /\ Received
  /\ IF reception.kind = "data" THEN Receive ELSE reception' = None
  /\ UNCHANGED <<mainThread, signals, socket, timer, finishedCalls, saved, heard>>

(* Bug: an error completes the query.                                      *)
ReceiveHandlerFinishes ==
  /\ Runs
  /\ mainThread # "returned"
  /\ reception.kind \in {"data", "error"}
  /\ Received
  /\ IF reception.kind = "error" THEN Completes ELSE UNCHANGED <<finishedCalls, heard>>
  /\ Receive
  /\ UNCHANGED <<mainThread, signals, socket, timer, saved>>

(* Whatever was received, the reception starts again: on a socket closed   *)
(* meanwhile to fail at once, again and again.                             *)
ReceiveHandler ==
  /\ Runs
  /\ mainThread # "returned"
  /\ reception.kind \in {"data", "error"}
  /\ Received
  /\ Receive
  /\ UNCHANGED <<mainThread, signals, socket, timer, finishedCalls, saved, heard>>

(* Handlers are bound to the query and not kept from running after it is   *)
(* destroyed: anything may come of it.                                     *)
HandlerOfDestroyedQuery ==
  /\ Runs
  /\ mainThread = "returned"
  /\ timer = "expired" \/ reception.kind \in {"data", "error"}
  /\ timer' = "none"
  /\ reception' = None
  /\ crashed' \in BOOLEAN
  /\ UNCHANGED <<mainThread, signals, socket, finishedCalls, targets, saved, heard>>

IoThread == Abort \/ TimerExpires \/ TimerHandler \/ ReceiveHandler \/ HandlerOfDestroyedQuery

=============================================================================
