---------------------------- MODULE FindSession ----------------------------
(***************************************************************************)
(* A FIND query and the servers of the targets, over UDP: datagrams are    *)
(* lost, repeated, late and reordered, and others are about.               *)
(***************************************************************************)
EXTENDS FindQuery

CONSTANTS
  Information,      \* the TargetInformation of each target
  DynamicLocalPort, \* whether the query does not listen on the FIND port
  Strays            \* datagrams nobody of these has sent

(* A field of the information is a text, without the terminator.  Nobody   *)
(* else answers: who does is believed.                                     *)
ASSUME DatagramsAssumption ==
  /\ Information \in [Targets -> [1..NumberOfParameters -> Seq(1..255)]]
  /\ \A raw \in Strays :
       ~(Handled(raw, InformationAnswer) /\ Len(Parameters(raw)) = NumberOfParameters)

VARIABLES serving, listening, answers

Server == INSTANCE FindServer

serverVars == <<serving, listening, answers>>
vars == <<queryVars, serverVars>>

Init == QueryInit /\ Server!ServerInit

Request == Encode(InformationRequest, <<<<>>>>)

(* The request is on its way from the moment it is sent.                   *)
Sent == mainThread \in {"sent", "receiving", "waiting", "woken", "written",
                        "returned", "stopped"}

(* A broadcast comes back to a query that listens on the FIND port.        *)
QueryHears ==
  \/ \E target \in Targets, raw \in Strays : Arrives(Data(target, raw))
  \/ \E target \in Targets : \E raw \in answers[target] : Arrives(Data(target, raw))
  \/ ~DynamicLocalPort /\ Sent /\ \E target \in Targets : Arrives(Data(target, Request))
  \/ Arrives(Error)

ServerHears(target) ==
  \/ \E raw \in Strays : Server!Arrives(target, Data(target, raw))
  \/ Sent /\ Server!Arrives(target, Data(target, Request))
  \/ Server!Arrives(target, Error)

QuerySide == MainThread \/ IoThread \/ QueryHears

ServerSide == \E target \in Targets : Server!ServerStep(target) \/ ServerHears(target)

Next ==
  \/ QuerySide /\ UNCHANGED serverVars
  \/ ServerSide /\ UNCHANGED queryVars

Spec == Init /\ [][Next]_vars

(* Both threads are scheduled, and the timer expires and its handler runs. *)
(* No datagram needs to arrive, nor any server to run.                     *)
Fairness ==
  /\ WF_vars(MainThread /\ UNCHANGED serverVars)
  /\ WF_vars(TimerExpires /\ UNCHANGED serverVars)
  /\ WF_vars(TimerHandler /\ UNCHANGED serverVars)

FairSpec == Spec /\ Fairness

-----------------------------------------------------------------------------
(* Properties.                                                             *)

(* From the start to its completion the query listens, whatever arrives    *)
(* and however receptions fail: there is a reception, and the timer that   *)
(* bounds it (QueryImpl::receiveHandler, start).                           *)
ListensUntilDone ==
  mainThread = "waiting" /\ finishedCalls = 0 /\ ~crashed
    => socket = "open" /\ reception # None /\ timer # "none"

(* Each signal completes the query at most once more, whether it comes     *)
(* before the socket is open, between the expiry and its handler, or after *)
(* the completion; without one the query is completed once, and no handler *)
(* throws before that or while start() is at it: receptions that are       *)
(* queued when the timer closes the socket end neither the query nor the   *)
(* process until the main thread is woken, and then only by the race for   *)
(* the targets (QueryImpl::abort, timerHandler, receiveHandler).           *)
CompletedOnce ==
  /\ finishedCalls <= signals + 1
  /\ signals = 0 /\ crashed =>
       finishedCalls = 1 /\ mainThread \in {"woken", "returned", "stopped"}

(* What the query has found is what the target at that address has sent    *)
(* to a request, field by field (Packet::encode, Packet, the handlers of   *)
(* both sides).                                                            *)
AnswersAreTrue ==
  \A found \in Range(targets) :
    /\ found[2] = Information[found[1]]
    /\ answers[found[1]] # {}

(* A started query ends, unless a signal has made it complete twice, which *)
(* counts the latch below zero.                                            *)
QueryEnds ==
  mainThread = "waiting" ~> mainThread = "stopped" \/ crashed \/ finishedCalls > 1

=============================================================================
