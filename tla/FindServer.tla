----------------------------- MODULE FindServer -----------------------------
(***************************************************************************)
(* Find::Servers::ServerImpl on each target, with the application's        *)
(* request handler, which answers from within the handler.                 *)
(***************************************************************************)
EXTENDS FindPacket

CONSTANTS
  Targets,
  Information  \* the TargetInformation of each target: its parameters

VARIABLES
  serving,    \* socketV of each server: "unopened", "open", "closed"
  listening,  \* its receive: a record of a kind, as the reception of a query
  answers     \* packets sent by each target

serverVars == <<serving, listening, answers>>

LOCAL None == [kind |-> "none"]
LOCAL Pending == [kind |-> "pending"]
LOCAL Error == [kind |-> "error"]

ServerInit ==
  /\ serving = [target \in Targets |-> "unopened"]
  /\ listening = [target \in Targets |-> None]
  /\ answers = [target \in Targets |-> {}]

Listens(target, completion) == listening' = [listening EXCEPT ![target] = completion]

Start(target) ==
  /\ serving[target] = "unopened"
  /\ serving' = [serving EXCEPT ![target] = "open"]
  /\ Listens(target, Pending)
  /\ UNCHANGED answers

(* What is pending is cancelled, what is queued stays queued.              *)
Stop(target) ==
  /\ serving[target] = "open"
  /\ serving' = [serving EXCEPT ![target] = "closed"]
  /\ Listens(target, IF listening[target] = Pending THEN None ELSE listening[target])
  /\ UNCHANGED answers

Arrives(target, completion) ==
  /\ listening[target] = Pending
  /\ Listens(target, completion)
  /\ UNCHANGED <<serving, answers>>

(* informationRequestPacket: refused is what has several parameters and    *)
(* the first one not empty.                                                *)
Answered(raw) ==
  /\ Handled(raw, InformationRequest)
  /\ Len(Parameters(raw)) = 1 \/ Parameters(raw)[1] = <<>>

Receives(target, answered) ==
  /\ listening[target].kind \in {"data", "error"}
  /\ answered = (listening[target].kind = "data" /\ Answered(listening[target].raw))
  /\ UNCHANGED serving

(* The application's answer throws when the server was stopped meanwhile,  *)
(* and the reception does not start again.                                 *)
RequestReceived(target) ==
  /\ Receives(target, TRUE)
  /\ IF serving[target] = "open"
     THEN /\ Listens(target, Pending)
          /\ answers' = [answers EXCEPT
                           ![target] = @ \cup {Encode(InformationAnswer, Information[target])}]
     ELSE Listens(target, None) /\ UNCHANGED answers

(* Anything else starts the reception again, which fails at once when the  *)
(* server was stopped meanwhile.                                           *)
OtherReceived(target) ==
  /\ Receives(target, FALSE)
  /\ Listens(target, IF serving[target] = "open" THEN Pending ELSE Error)
  /\ UNCHANGED answers

ServerStep(target) ==
  Start(target) \/ Stop(target) \/ RequestReceived(target) \/ OtherReceived(target)

=============================================================================
