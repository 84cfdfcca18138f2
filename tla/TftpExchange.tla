---------------------------- MODULE TftpExchange ----------------------------
(***************************************************************************)
(* TftpClient with what the packets say: the options that are offered,     *)
(* answered and accepted, and the messages that postpone a transfer or     *)
(* end it.  The server is a host or target of this repository, of version  *)
(* A2 or A4, or a foreign one that answers and sends what it likes.        *)
(*                                                                         *)
(* A request or an answer that is lost, and a server that serves the       *)
(* request while the client sees it fail, are failures of the attempt.     *)
(***************************************************************************)
EXTENDS TftpClient, TftpOptions, ErrorMessage

CONSTANTS
  WaitTimes,        \* times a server of this repository asks to wait
  ForeignTexts      \* texts of a foreign server's messages

ASSUME MessagesAssumption ==
  /\ WaitTimes \subseteq 0..(Limit - 1)
  /\ \A text \in ForeignTexts : text \in Seq(0..NoDigit)

VARIABLES
  kind,      \* of the file
  offer,     \* options of the client
  peer,      \* the server, "A2", "A4" or "foreign"
  answer,    \* options of the answer the client accepted
  refused,   \* the client has refused an answer
  hostPort,  \* hostPortV of the target that served an initialisation
  sent,      \* message the server of this repository ended an attempt with
  waitTime   \* what the wait timer was set to

transfer == <<kind, offer, peer>>
negotiated == <<answer, refused, hostPort>>
messages == <<sent, waitTime>>
exchangeVars == <<vars, transfer, negotiated, messages>>

NoMessage == [prefix |-> "Invalid", number |-> NoNumber]

ExchangeTypeOK ==
  /\ TypeOK
  /\ kind \in Kinds
  /\ offer \in Offers(kind)
  /\ peer \in {"A2", "A4", "foreign"}
  /\ answer \in Options
  /\ refused \in BOOLEAN
  /\ hostPort \in Ports \cup {DefaultPort}
  /\ sent \in [prefix : {"Abort", "Wait", "Invalid"}, number : 0..NoNumber]
  /\ waitTime \in 0..(Limit - 1)

(* Only the status file of a target has its abort handled.                 *)
HandlesAbort == kind = "Status"

ExchangeInit ==
  /\ Init
  /\ kind \in Kinds
  /\ offer \in Offers(kind)
  /\ peer \in {"A2", "A4", "foreign"}
  /\ handleAbort = HandlesAbort
  /\ answer = NoOptions
  /\ refused = FALSE
  /\ hostPort = DefaultPort
  /\ sent = NoMessage
  /\ waitTime = 0

-----------------------------------------------------------------------------
(* The server.                                                             *)

Own == peer # "foreign"

ServerAnswers ==
  IF Own
  THEN {OfAnswer(Response(kind, peer, OfRequest(RequestPacket(kind, offer))))}
  ELSE Answers

(* doStart: what the target answers is the port it stores.  A foreign one  *)
(* keeps to its answer as well.                                            *)
PortOf(options) == IF options.port = None THEN DefaultPort ELSE options.port

Served(options) ==
  hostPort' = IF kind = "Initialisation" THEN PortOf(options) ELSE hostPort

(* What a host's isAborted and waitOperation send.                         *)
OwnMessages ==
  CASE kind = "Status" -> {[prefix |-> "Abort", number |-> code] : code \in {AbortedByDlp, AbortedByOperator}}
    [] kind \in DataFiles -> {[prefix |-> "Wait", number |-> time] : time \in WaitTimes}
    [] OTHER -> {}

Packet(message) ==
  IF message.prefix = "Abort"
  THEN AbortMessage(message.number)
  ELSE WaitMessage(message.number)

ForeignMessages ==
  {Understood([prefix |-> prefix, text |-> text]) :
     prefix \in {"Abort", "Wait", "Invalid"}, text \in ForeignTexts}

-----------------------------------------------------------------------------
(* The owner's calls and the timer, which see no packet.                   *)

OwnerCalls == Request \/ Abort

Internal ==
  /\ OwnerCalls \/ WaitTimerExpires \/ HandleWaitTimeout
  /\ UNCHANGED <<transfer, negotiated, messages>>

(* The answer is accepted and the transfer succeeds.                       *)
AnswerAccepted ==
  \E received \in ServerAnswers :
    /\ Accepts(kind, offer, received)
    /\ TransferSucceeded
    /\ answer' = received
    /\ Served(received)
    /\ sent' = NoMessage
    /\ UNCHANGED <<transfer, refused, waitTime>>

AnswerRefused ==
  \E received \in ServerAnswers :
    /\ ~Accepts(kind, offer, received)
    /\ TransferFailed
    /\ refused' = TRUE
    /\ (received.port # Invalid /\ Served(received)) \/ UNCHANGED hostPort
    /\ sent' = NoMessage
    /\ UNCHANGED <<transfer, answer, waitTime>>

(* Nothing, or not all, of the exchange gets through; the target may have  *)
(* started its operation all the same.                                     *)
ExchangeLost ==
  /\ TransferFailed \/ TransferAborted
  /\ \/ \E received \in ServerAnswers : received.port # Invalid /\ Served(received)
     \/ UNCHANGED hostPort
  /\ sent' = NoMessage
  /\ UNCHANGED <<transfer, answer, refused, waitTime>>

(* handleCompletion of a request that was answered by an error.            *)
AbortReasons ==
  [code \in {AbortedByDlp, AbortedByOperator} |->
     IF code = AbortedByDlp THEN "OperationAbortedByDlp" ELSE "OperationAbortedByOperator"]

MessageHandled(message) ==
  \/ /\ message.prefix = "Abort"
     /\ message.number \in DOMAIN AbortReasons
     /\ AbortReceived
     /\ completion' = AbortReasons[message.number]
     /\ UNCHANGED waitTime
  \/ /\ message.prefix = "Wait"
     /\ message.number # NoNumber
     /\ WaitReceived
     /\ waitTime' = message.number
  \/ /\ message.prefix = "Abort" => ~handleAbort \/ message.number \notin DOMAIN AbortReasons
     /\ message.prefix = "Wait" => message.number = NoNumber
     /\ TransferFailed
     /\ UNCHANGED waitTime

ErrorReceived ==
  /\ \/ /\ Own
        /\ \E message \in OwnMessages :
             MessageHandled(Understood(Packet(message))) /\ sent' = message
     \/ /\ ~Own
        /\ \E message \in ForeignMessages : MessageHandled(message)
        /\ sent' = NoMessage
  /\ UNCHANGED <<transfer, negotiated>>

AttemptEnds == AnswerAccepted \/ AnswerRefused \/ ExchangeLost \/ ErrorReceived

ExchangeNext == Internal \/ AttemptEnds

(* Its fairness is TftpClient's: what an attempt may end with here is what *)
(* it may end with there.                                                  *)
ExchangeSpec == ExchangeInit /\ [][ExchangeNext]_exchangeVars /\ Fairness

-----------------------------------------------------------------------------
(* What both ends know of a transfer agrees.  After an initialisation that *)
(* succeeded the target sends its files to the port the host listens on,   *)
(* whether the host offered one or not and whatever the target makes of    *)
(* it; the files of a transfer come with the options that were asked for;  *)
(* and where both ends are of this repository the client refuses no        *)
(* answer, unless the target is too old for the port.                      *)
NegotiationAgrees ==
  /\ completion = "Successful" =>
       /\ kind = "Initialisation" => hostPort = PortOf(offer)
       /\ Own \/ kind = "ConfigurationList" => answer = offer
  /\ refused /\ Own =>
       peer = "A2" /\ kind = "Initialisation" /\ offer.port # None

(* A message means to the client what it meant to the server: an abort of  *)
(* the host is reported with the host's reason and at once, and a client   *)
(* that is told to wait waits as long as it was told.                      *)
MessageUnderstood ==
  /\ sent = [prefix |-> "Abort", number |-> AbortedByDlp] =>
       completion = "OperationAbortedByDlp"
  /\ sent = [prefix |-> "Abort", number |-> AbortedByOperator] =>
       completion = "OperationAbortedByOperator"
  /\ waitTimer = "armed" /\ Own =>
       sent = [prefix |-> "Wait", number |-> waitTime]

=============================================================================
