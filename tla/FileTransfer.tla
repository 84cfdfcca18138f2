---------------------------- MODULE FileTransfer ----------------------------
(***************************************************************************)
(* A protocol file on its way: one side requests the other one to take it, *)
(* or to give it, under a name; one side encodes it, the transfer hands    *)
(* over some bytes, the other side decodes them.  The transfer may stop    *)
(* early or add to the file; the size in the header is the original one,   *)
(* or, with a peer that counts for itself, that of what arrives.           *)
(*                                                                         *)
(* Initialisation files are read by the host, which requests them before   *)
(* they are encoded; the others are written, encoded before the request.   *)
(***************************************************************************)
EXTENDS ProtocolFiles, FileNames

CONSTANTS
  Files,    \* files: records of type, version, value and peer; the target's id in the
            \* name, and who is requested: the side, its operation and id, by "from"
  Trailers, \* bytes a transfer may add
  Alphabet  \* the characters of names

ASSUME AlphabetAssumption == Alphanumeric \cup {"_", "."} \subseteq Alphabet

(* The files are what the program or a peer holds and writes: a name, the  *)
(* members of a file, and strings and ratios that are filled up.           *)
ASSUME ContentsAssumption ==
  \A f \in Files :
    /\ f = [id |-> f.id, type |-> f.type, version |-> f.version, value |-> f.value,
            peer |-> f.peer, requested |-> f.requested]
    /\ f.id.thwId \in Seq(Alphabet) /\ f.id.position \in Seq(Alphabet)
    /\ f.id = TargetId(f.id.thwId, f.id.position)
    /\ f.type \in Types
    /\ f.version \in Versions
    /\ f.peer.fixed \in Byte /\ f.peer.pad \in Whitespace \cup {48}
    /\ f.value = <<>> \/ IsValue(FileTypes[f.type], f.value)

(* Each request reaches a host or a target, in an operation, or none.      *)
ASSUME RequestsAssumption ==
  \A f \in Files :
    \/ f.requested.side = "host" /\ f.requested.operation \in Range(OperationOf)
    \/ /\ f.requested.side = "target"
       /\ f.requested.operation \in Range(OperationOf) \cup {NoOperation}

ASSUME SizeAssumption ==
  /\ \A trailer \in Trailers : trailer \in Seq(Byte) /\ SizeFits(Len(trailer))
  /\ \A f \in Files :
       f.value # <<>> /\ Fits(FileTypes[f.type], f.value, f.peer) =>
         SizeFits(Len(Encode(f.type, f.version, f.value, f.peer)))

VARIABLES
  file,     \* the file requested
  bytes,    \* its bytes, <<>> if encode() throws
  taken,    \* what the request is taken for, "nothing" before
  arrived,  \* the bytes that arrive, <<>> before
  decoded   \* what the other side makes of them, or Nothing

fileVars == <<file, bytes, taken, arrived, decoded>>

Nothing == [ok |-> FALSE, pending |-> TRUE]
Unrequested == "nothing"

FileInit ==
  /\ file \in Files
  /\ bytes = <<>>
  /\ taken = Unrequested
  /\ arrived = <<>>
  /\ decoded = Nothing

-----------------------------------------------------------------------------
Initialisation == file.type \in DOMAIN OperationOf
RequestType == IF Initialisation THEN "Read" ELSE "Write"

Taken(name) ==
  IF file.requested.side = "host"
  THEN HostTakes(file.requested.operation, file.requested.targetId, RequestType, name)
  ELSE TargetTakes(file.requested.operation, file.requested.from, RequestType, name)

(* encode() throws if a string or a list is too long for its field.        *)
Encodes ==
  /\ bytes = <<>>
  /\ Initialisation => taken = file.type
  /\ Fits(FileTypes[file.type], file.value, file.peer)
  /\ bytes' = Encode(file.type, file.version, file.value, file.peer)
  /\ UNCHANGED <<file, taken, arrived, decoded>>

Requests ==
  /\ taken = Unrequested
  /\ Initialisation \/ bytes # <<>>
  /\ taken' = Taken(Filename(file.id, file.type))
  /\ UNCHANGED <<file, bytes, arrived, decoded>>

Arrives(raw) ==
  /\ bytes # <<>>
  /\ taken \in Types
  /\ arrived = <<>>
  /\ arrived' = raw
  /\ UNCHANGED <<file, bytes, taken, decoded>>

Body == Drop(bytes, HeaderSize)

Shorter ==
  \/ \E length \in 1..(Len(bytes) - 1) : Arrives(SubSeq(bytes, 1, length))
  \/ \E length \in 0..(Len(Body) - 1) : Arrives(WithHeader(file.version, SubSeq(Body, 1, length)))

Longer ==
  \E trailer \in Trailers :
    Arrives(bytes \o trailer) \/ Arrives(WithHeader(file.version, Body \o trailer))

Arrival == Arrives(bytes) \/ Shorter \/ Longer

Decodes ==
  /\ arrived # <<>>
  /\ decoded = Nothing
  /\ decoded' = Decode(taken, arrived)
  /\ UNCHANGED <<file, bytes, taken, arrived>>

FileNext == Encodes \/ Requests \/ Arrival \/ Decodes

-----------------------------------------------------------------------------
(* What the one side encodes the other one decodes: the same fields,       *)
(* whatever strings, numbers and lists they hold.  (A load configuration   *)
(* list that is too short for its minimum size is refused.)                *)
FileUnchanged ==
  decoded # Nothing /\ arrived = bytes /\ Len(bytes) >= MinimumSize(file.type) =>
    decoded = File(file.version, file.value)

(* A file that lost its end or gained one is refused, although each list   *)
(* says itself how long it is and the size in the header agrees with what  *)
(* has arrived: no file is the beginning of another one.                   *)
LengthMatters ==
  decoded # Nothing /\ arrived # bytes => ~decoded.ok

(* The identifiers of targets that the standard allows, part by part.      *)
WellFormed(id) ==
  /\ Len(id.thwId) \in 4..15 /\ Len(id.position) \in 0..8
  /\ \A part \in {id.thwId, id.position} : \A i \in 1..Len(part) : part[i] \in Alphanumeric

(* The files of an operation that a side is requested to take or to give.  *)
Expected(requested) ==
  IF requested.side = "target"
  THEN DOMAIN OperationOf \cup
         IF requested.from # "host" THEN {}
         ELSE CASE requested.operation = "Upload" -> {"UploadRequest"}
                [] requested.operation = "MediaDefinedDownload" -> {"MediaDefinedDownloadRequest"}
                [] requested.operation = "OperatorDefinedDownload" -> {"OperatorDefinedDownloadAnswer"}
                [] OTHER -> {}
  ELSE CASE requested.operation = "Information" ->
              {"LoadConfigurationList", "LoadConfigurationStatus"}
         [] requested.operation = "Upload" -> {"UploadStatus"}
         [] requested.operation = "MediaDefinedDownload" -> {"DownloadStatus"}
         [] requested.operation = "OperatorDefinedDownload" ->
              {"DownloadStatus", "OperatorDefinedDownloadList"}

(* Under the name one side writes, the other side takes a file for what it *)
(* is or not at all.  It takes those of its operation, whatever well       *)
(* formed identifier the name begins with.  A host takes none of another   *)
(* target, neither as a protocol file nor as data; a target takes none for *)
(* its operation but those of the host that began it (OperationImpl::      *)
(* checkRequest, ProtocolImpl::receivedTftpRequest, tftpRequest).          *)
FileRecognised ==
  taken # Unrequested =>
    /\ taken \in Types => taken = file.type
    /\ file.requested.side = "target" => taken \in Expected(file.requested) \cup {NotTaken}
    /\ WellFormed(file.id) =>
         IF file.requested.side = "host" /\ file.requested.targetId # file.id
         THEN taken = NotTaken
         ELSE file.type \in Expected(file.requested) => taken = file.type

=============================================================================
