---------------------------- MODULE TftpOptions ----------------------------
(***************************************************************************)
(* The ARINC 615A options of a TFTP request and of its answer: a port, a   *)
(* part number and a checksum.  Both ends put them into the TFTP packet    *)
(* and take them out of it in ways of their own, and each kind of file has *)
(* its own rule for what is answered and which answer is accepted.         *)
(***************************************************************************)
EXTENDS FiniteSets

CONSTANTS
  Ports,        \* ports a host may listen on
  DefaultPort,  \* the configured server port, which is in no option
  PartNumbers,
  CheckTypes,   \* types of check value, at most one may be used
  CheckValues,
  None,         \* an option that is left out
  Invalid       \* the text of an option that is no value of its type

(* What is left out and what is no value are no values.                    *)
ASSUME OptionsAssumption ==
  /\ None \notin Ports \cup PartNumbers \cup (CheckTypes \X CheckValues)
  /\ Invalid \notin Ports \cup CheckValues
  /\ Invalid # None

(* struct Arinc615aOptions. *)
Options ==
  [port : Ports \cup {None},
   partNumber : PartNumbers \cup {None},
   checksum : (CheckTypes \X CheckValues) \cup {None}]

NoOptions == [port |-> None, partNumber |-> None, checksum |-> None]

(* The options as they are in a packet, by anyone.  Each type of checksum  *)
(* is an option with a name of its own.                                    *)
ChecksumOptions == {<<type, value>> : type \in CheckTypes, value \in CheckValues \cup {Invalid}}

PacketOptions ==
  [port : Ports \cup {None, Invalid},
   partNumber : PartNumbers \cup {None},
   checksums : {s \in SUBSET ChecksumOptions :
                  \A c, d \in s : c[1] = d[1] => c = d}]

(* Arinc615aOptions::options.                                              *)
ToPacket(options) ==
  [port |-> options.port,
   partNumber |-> options.partNumber,
   checksums |-> IF options.checksum = None THEN {} ELSE {options.checksum}]

(* Arinc615aOptions_checksum: a second option or an invalid one spoils the *)
(* checksum.  Neither caller looks at the flag that says so.               *)
Checksum(checksums) ==
  IF Cardinality(checksums) = 1 /\ \A c \in checksums : c[2] # Invalid
  THEN CHOOSE c \in checksums : TRUE
  ELSE None

(* ServerImpl::tftpRequestHandler: a port that is none is no port.         *)
OfRequest(packet) ==
  [port |-> IF packet.port = Invalid THEN None ELSE packet.port,
   partNumber |-> packet.partNumber,
   checksum |-> Checksum(packet.checksums)]

(* OperationImpl::handleOptionNegotiation: an answer with a port that is   *)
(* none is refused whatever is offered.                                    *)
OfAnswer(packet) ==
  [port |-> packet.port,
   partNumber |-> packet.partNumber,
   checksum |-> Checksum(packet.checksums)]

Answers == {OfAnswer(packet) : packet \in PacketOptions}

-----------------------------------------------------------------------------
(* The kinds of transfer, by who is the client.                            *)

(* "Request" stands for the load list, the request and the answer of a     *)
(* download, "Status" for every protocol file of a target but one.         *)
HostKinds == {"Initialisation", "Request"}
DataFiles == {"UploadFile", "DownloadFile"}
Kinds == HostKinds \cup {"Status", "ConfigurationList"} \cup DataFiles

(* Read by their client; the others are written.                           *)
ReadKinds == {"Initialisation", "UploadFile"}

(* What the owner of a client may set it up with: only a read operation    *)
(* can carry a port.                                                       *)
ReadOffers == Options
WriteOffers == {o \in Options : o.port = None}

(* What the client of each kind asks for.                                  *)
InitialisationOffers == {o \in ReadOffers : o.partNumber = None /\ o.checksum = None}
ListOffers == {o \in WriteOffers : o.partNumber = None}
UploadFileOffers == {o \in ReadOffers : o.port = None}
DownloadFileOffers == WriteOffers

Offers(kind) ==
  CASE kind = "Initialisation" -> InitialisationOffers
    [] kind = "ConfigurationList" -> ListOffers
    [] kind = "UploadFile" -> UploadFileOffers
    [] kind = "DownloadFile" -> DownloadFileOffers
    [] OTHER -> {NoOptions}

(* tftpOperation of each client.                                           *)
ReadRequest(offer) == ToPacket(offer)
WriteRequest(offer) == ToPacket([offer EXCEPT !.port = None])

RequestPacket(kind, offer) ==
  IF kind \in ReadKinds THEN ReadRequest(offer) ELSE WriteRequest(offer)

(* The server's answer, where both are of this repository.  Only a target  *)
(* of version A4 takes the port.                                           *)
PortAnswer(version, request) ==
  [NoOptions EXCEPT !.port = IF version = "A4" THEN request.port ELSE None]

ChecksumAnswer(request) == [NoOptions EXCEPT !.checksum = request.checksum]

UploadFileAnswer(request) == [request EXCEPT !.port = None]
DownloadFileAnswer(request) == [request EXCEPT !.port = None]

Answer(kind, version, request) ==
  CASE kind = "Initialisation" -> PortAnswer(version, request)
    [] kind = "ConfigurationList" -> ChecksumAnswer(request)
    [] kind = "UploadFile" -> UploadFileAnswer(request)
    [] kind = "DownloadFile" -> DownloadFileAnswer(request)
    [] OTHER -> NoOptions

(* negotiatedArinc615aOptions of each server operation.                    *)
ReadResponse(options) == ToPacket(options)
WriteResponse(options) == ToPacket(options)

Response(kind, version, request) ==
  IF kind \in ReadKinds
  THEN ReadResponse(Answer(kind, version, request))
  ELSE WriteResponse(Answer(kind, version, request))

(* Bug: an answer without a port is accepted as well.                      *)
AcceptsNoPort(offer, answer) ==
  /\ answer.checksum = None
  /\ answer.port \in {offer.port, None}

(* Which answer the client accepts.  A port that was offered must come     *)
(* back, and the host listens on no other.                                 *)
AcceptsPort(offer, answer) ==
  /\ answer.checksum = None
  /\ answer.port = offer.port

AcceptsNone(answer) == answer = NoOptions

AcceptsChecksum(offer, answer) ==
  /\ answer.port = None
  /\ answer.partNumber = None
  /\ answer.checksum = offer.checksum

(* The application decides on the part number and the checksum.            *)
AcceptsUploadFile(answer) == answer.port = None
AcceptsDownloadFile(answer) == answer.port = None

Accepts(kind, offer, answer) ==
  /\ answer.port # Invalid
  /\ CASE kind = "Initialisation" -> AcceptsPort(offer, answer)
       [] kind = "Request" -> AcceptsNone(answer)
       [] kind = "UploadFile" -> AcceptsUploadFile(answer)
       [] kind = "DownloadFile" -> AcceptsDownloadFile(answer)
       [] OTHER -> AcceptsChecksum(offer, answer)

=============================================================================
