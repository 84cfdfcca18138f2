----------------------------- MODULE FileNames -----------------------------
(***************************************************************************)
(* Arinc615a::TargetId and Arinc615a::Files::ProtocolFilename: the name of *)
(* a protocol file, and what the two sides make of the names that are      *)
(* requested from them.  A text is a sequence of characters.               *)
(***************************************************************************)
EXTENDS Integers, Sequences

Positions(text, character) == {i \in 1..Len(text) : text[i] = character}
First(positions) == CHOOSE i \in positions : \A j \in positions : i <= j
Before(text, i) == SubSeq(text, 1, i - 1)
After(text, i) == SubSeq(text, i + 1, Len(text))

-----------------------------------------------------------------------------
(* TargetId                                                                *)

(* std::isalnum of the classic locale.                                     *)
Alphanumeric ==
  {"0", "1", "2", "3", "4", "5", "6", "7", "8", "9", "A", "B", "C", "D", "E",
   "F", "G", "H", "I", "J", "K", "L", "M", "N", "O", "P", "Q", "R", "S", "T",
   "U", "V", "W", "X", "Y", "Z", "a", "b", "c", "d", "e", "f", "g", "h", "i",
   "j", "k", "l", "m", "n", "o", "p", "q", "r", "s", "t", "u", "v", "w", "x",
   "y", "z"}

ThwIdSize == 4..15
PositionSize == 0..8

IsCompliant(text, size) ==
  /\ Len(text) \in size
  /\ \A i \in 1..Len(text) : text[i] \in Alphanumeric

IsThwId(text) == IsCompliant(text, ThwIdSize)
IsPosition(text) == IsCompliant(text, PositionSize)

TargetId(thwId, position) == [thwId |-> thwId, position |-> position]

(* Bug: an underscore at the end separates nothing.                        *)
SplitInTwo(text) ==
  LET underscores == Positions(text, "_") \ {Len(text)} IN
  IF underscores = {} THEN TargetId(<<>>, <<>>)
  ELSE TargetId(Before(text, First(underscores)), After(text, First(underscores)))

(* Both parts are empty without an underscore.                             *)
SplitTargetId(text) ==
  LET underscores == Positions(text, "_") IN
  IF underscores = {} THEN TargetId(<<>>, <<>>)
  ELSE TargetId(Before(text, First(underscores)), After(text, First(underscores)))

IsTargetId(text) ==
  LET id == SplitTargetId(text) IN IsThwId(id.thwId) /\ IsPosition(id.position)

IdText(id) == id.thwId \o <<"_">> \o id.position

-----------------------------------------------------------------------------
(* ProtocolFilename                                                        *)

Extension ==
  [LoadConfigurationInitialization |-> <<"L", "C", "I">>,
   LoadConfigurationList |-> <<"L", "C", "L">>,
   LoadConfigurationStatus |-> <<"L", "C", "S">>,
   UploadInitialization |-> <<"L", "U", "I">>,
   UploadRequest |-> <<"L", "U", "R">>,
   UploadStatus |-> <<"L", "U", "S">>,
   MediaDefinedDownloadInitialization |-> <<"L", "N", "D">>,
   MediaDefinedDownloadRequest |-> <<"L", "N", "R">>,
   OperatorDefinedDownloadInitialization |-> <<"L", "N", "O">>,
   OperatorDefinedDownloadList |-> <<"L", "N", "L">>,
   OperatorDefinedDownloadAnswer |-> <<"L", "N", "A">>,
   DownloadStatus |-> <<"L", "N", "S">>]

Types == DOMAIN Extension
InvalidType == "Invalid"

Filename(id, type) == IdText(id) \o <<".">> \o Extension[type]

(* Both parts are empty without a point.                                   *)
Split(name) ==
  LET points == Positions(name, ".") IN
  IF points = {} THEN [targetId |-> <<>>, extension |-> <<>>]
  ELSE [targetId |-> Before(name, First(points)), extension |-> After(name, First(points))]

TypeOfExtension(extension) ==
  IF \E type \in Types : Extension[type] = extension
  THEN CHOOSE type \in Types : Extension[type] = extension
  ELSE InvalidType

IsProtocolFilename(name) ==
  /\ IsTargetId(Split(name).targetId)
  /\ TypeOfExtension(Split(name).extension) # InvalidType

TargetIdOf(name) == SplitTargetId(Split(name).targetId)
FileType(name) == TypeOfExtension(Split(name).extension)

-----------------------------------------------------------------------------
(* What a request is taken for: a type of file, the file of an operation's *)
(* own ("data"), or nothing, which is answered with an error.              *)
NotTaken == "refused"
Data == "data"

TakenIf(type, types) == IF type \in types THEN type ELSE NotTaken

(* Host: names that are none of protocol files pass.                       *)
CheckRequest(targetId, name) == IsProtocolFilename(name) => TargetIdOf(name) = targetId

(* An error for a read request does not keep it from being served.         *)
HostInformation(name) ==
  TakenIf(FileType(name), {"LoadConfigurationList", "LoadConfigurationStatus"})

HostUpload(request, name) ==
  IF request = "Read" THEN Data ELSE TakenIf(FileType(name), {"UploadStatus"})

DownloadFile(request, name, types) ==
  IF request = "Read" THEN NotTaken
  ELSE IF FileType(name) \in types THEN FileType(name) ELSE Data

HostMediaDefinedDownload(request, name) == DownloadFile(request, name, {"DownloadStatus"})

HostOperatorDefinedDownload(request, name) ==
  DownloadFile(request, name, {"DownloadStatus", "OperatorDefinedDownloadList"})

HostTakes(operation, targetId, request, name) ==
  IF ~CheckRequest(targetId, name) THEN NotTaken
  ELSE CASE operation = "Information" -> HostInformation(name)
         [] operation = "Upload" -> HostUpload(request, name)
         [] operation = "MediaDefinedDownload" -> HostMediaDefinedDownload(request, name)
         [] operation = "OperatorDefinedDownload" -> HostOperatorDefinedDownload(request, name)

(* Target: the operation each initialisation file begins.                  *)
OperationOf ==
  [LoadConfigurationInitialization |-> "Information",
   UploadInitialization |-> "Upload",
   MediaDefinedDownloadInitialization |-> "MediaDefinedDownload",
   OperatorDefinedDownloadInitialization |-> "OperatorDefinedDownload"]

NoOperation == "none"

(* Only what the host that began the operation writes.                     *)
Written(from, request, name, type) ==
  IF from = "host" /\ request = "Write" THEN TakenIf(FileType(name), {type}) ELSE NotTaken

TargetInformation(from, request, name) == NotTaken

TargetUpload(from, request, name) == Written(from, request, name, "UploadRequest")

TargetMediaDefinedDownload(from, request, name) ==
  Written(from, request, name, "MediaDefinedDownloadRequest")

TargetOperatorDefinedDownload(from, request, name) ==
  Written(from, request, name, "OperatorDefinedDownloadAnswer")

(* Anyone may begin an operation.                                          *)
TargetTakes(operation, from, request, name) ==
  IF ~IsProtocolFilename(name) THEN NotTaken
  ELSE IF request = "Read" /\ FileType(name) \in DOMAIN OperationOf THEN FileType(name)
  ELSE CASE operation = NoOperation -> NotTaken
         [] operation = "Information" -> TargetInformation(from, request, name)
         [] operation = "Upload" -> TargetUpload(from, request, name)
         [] operation = "MediaDefinedDownload" -> TargetMediaDefinedDownload(from, request, name)
         [] operation = "OperatorDefinedDownload" ->
              TargetOperatorDefinedDownload(from, request, name)

=============================================================================
