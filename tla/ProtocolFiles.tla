---------------------------- MODULE ProtocolFiles ----------------------------
(***************************************************************************)
(* Arinc615a::Files: the protocol files as bytes.  A file has a header,    *)
(* its size and the protocol version, and fields one after the other.  A   *)
(* layout names them: what encode() writes and decode() reads back.  A     *)
(* value of a layout is the sequence of its fields' values, characters are *)
(* their codes.  Reading gives a record, "ok" unless decode() throws.      *)
(***************************************************************************)
EXTENDS Integers, SequencesExt

Number(values) == [is |-> "number", values |-> values]
Signed == [is |-> "signed"]
Text == [is |-> "text"]
Ratio == [is |-> "ratio"]
ListOf(layout) == [is |-> "list", of |-> layout]
UserData == [is |-> "data"]

(* Numbers have 16 bits.                                                  *)
Word == 65536
HalfWord == 32768
UInt16 == Number(0..(Word - 1))

(* StatusCode and OperationAcceptanceStatusCode, as far as a file may hold *)
(* them.                                                                   *)
Code == Number({1, 2, 3, 4, 4096, 4098, 4099, 4100, 4101, 4103})
Acceptance == Number({1, 4096, 4098})

-----------------------------------------------------------------------------
(* The layouts.                                                            *)

InitializationFile == <<Acceptance, Text>>

PartNumber == <<Text, Text, Text>>
LoadConfigurationListFile == <<ListOf(<<Text, Text, ListOf(PartNumber)>>)>>

InformationOperationStatusFile == <<UInt16, Code, UInt16, Signed, Text>>

UploadOperationRequestFile == <<ListOf(<<Text, Text>>)>>

UploadLoadStatus == <<Text, Text, Ratio, Code, Text>>
UploadOperationStatusFile ==
  <<Code, Text, UInt16, UInt16, Signed, Ratio, ListOf(UploadLoadStatus)>>

DownloadOperationRequestFile == <<ListOf(<<Text>>), UserData>>
DownloadOperationListFile == <<ListOf(<<Text, Text>>)>>
DownloadOperationAnswerFile == <<ListOf(<<Text>>)>>

DownloadFileStatus == <<Text, Code, Text>>
DownloadOperationStatusFile ==
  <<Code, Text, UInt16, UInt16, Signed, Ratio, ListOf(DownloadFileStatus)>>

(* ProtocolFileType.                                                       *)
FileTypes ==
  [LoadConfigurationInitialization |-> InitializationFile,
   LoadConfigurationList |-> LoadConfigurationListFile,
   LoadConfigurationStatus |-> InformationOperationStatusFile,
   UploadInitialization |-> InitializationFile,
   UploadRequest |-> UploadOperationRequestFile,
   UploadStatus |-> UploadOperationStatusFile,
   MediaDefinedDownloadInitialization |-> InitializationFile,
   MediaDefinedDownloadRequest |-> DownloadOperationRequestFile,
   OperatorDefinedDownloadInitialization |-> InitializationFile,
   OperatorDefinedDownloadList |-> DownloadOperationListFile,
   OperatorDefinedDownloadAnswer |-> DownloadOperationAnswerFile,
   DownloadStatus |-> DownloadOperationStatusFile]

Byte == 0..255
HeaderSize == 6
Versions == {16690, 16692}  \* "A2" and "A4"

(* What the members of the files and of their records hold.                *)
FieldHolds(field, value, listedHold) ==
  CASE field.is = "number" -> value \in field.values
    [] field.is = "signed" -> value \in -HalfWord..(HalfWord - 1)
    [] field.is = "text" -> value \in Seq(Byte \ {0})
    [] field.is = "ratio" -> value \in 0..100
    [] field.is = "data" -> value \in Seq(Byte)
    [] field.is = "list" -> value \in Seq(Range(value)) /\ listedHold

IsRecord(IsListed(_, _), layout, value) ==
  LET listedHold(i) == \A j \in DOMAIN value[i] : IsListed(layout[i].of, value[i][j])
  IN  /\ value = [i \in DOMAIN layout |-> value[i]]
      /\ \A i \in DOMAIN layout : FieldHolds(layout[i], value[i], listedHold(i))

(* A list holds records, which may hold a list themselves, whose records   *)
(* hold none.  Each operator takes the one for the records of its lists.   *)
NotListed(layout, value) == FALSE
IsFlat(layout, value) == IsRecord(NotListed, layout, value)
IsNested(layout, value) == IsRecord(IsFlat, layout, value)
IsValue(layout, value) == IsRecord(IsNested, layout, value)

(* What decode() asks for in the first place: as much as an empty file has *)
(* or less, but more of a load configuration list.                         *)
MinimumSize(type) ==
  HeaderSize + CASE type \in {"UploadRequest", "OperatorDefinedDownloadList",
                              "OperatorDefinedDownloadAnswer"} -> 2
                 [] type \in {"LoadConfigurationStatus", "UploadStatus", "DownloadStatus"} -> 9
                 [] type = "LoadConfigurationList" -> 13
                 [] OTHER -> 3

-----------------------------------------------------------------------------
(* Encoding.                                                               *)

Int16(n) == <<(n % Word) \div 256, n % 256>>
Int32(n) == Int16(n \div Word) \o Int16(n % Word)

(* How a peer writes: the length it extends strings to, or 0, and the      *)
(* character it fills a ratio up with.  This program always writes Plainly. *)
Plainly == [fixed |-> 0, pad |-> 32]

(* A string and its terminating zero must fit the fixed length, if any,    *)
(* and be below 255, so that not even 254 characters fit.  An empty string *)
(* has no zero of its own.                                                 *)
RawSize(text) == IF text = <<>> THEN 0 ELSE Len(text) + 1

StringFits(text, fixed) ==
  RawSize(text) < 255 /\ (fixed = 0 \/ RawSize(text) <= fixed)

StringEncode(text, fixed) ==
  LET length == IF fixed = 0 THEN RawSize(text) ELSE fixed
  IN  <<length>> \o text \o [i \in 1..(length - Len(text)) |-> 0]

(* Right aligned in three characters.                                      *)
RatioEncode(ratio, pad) ==
  LET digit(n) == 48 + (n % 10) IN
  <<IF ratio < 100 THEN pad ELSE digit(ratio \div 100),
    IF ratio < 10 THEN pad ELSE digit(ratio \div 10),
    digit(ratio)>>

FieldFits(field, value, peer, listedFit) ==
  CASE field.is = "text" -> StringFits(value, peer.fixed)
    [] field.is = "data" -> Len(value) <= 255
    [] field.is = "list" -> Len(value) < Word /\ listedFit
    [] OTHER -> TRUE

RecordFits(ListedFits(_, _, _), layout, value, peer) ==
  LET listedFit(i) == \A j \in DOMAIN value[i] : ListedFits(layout[i].of, value[i][j], peer)
  IN  \A i \in DOMAIN layout : FieldFits(layout[i], value[i], peer, listedFit(i))

NoLists(layout, value, peer) == FALSE
FlatFits(layout, value, peer) == RecordFits(NoLists, layout, value, peer)
NestedFits(layout, value, peer) == RecordFits(FlatFits, layout, value, peer)
Fits(layout, value, peer) == RecordFits(NestedFits, layout, value, peer)

(* What is written of a field, and of the records it lists.                *)
FieldBytes(field, value, peer, listed) ==
  CASE field.is \in {"number", "signed"} -> Int16(value)
    [] field.is = "text" -> StringEncode(value, peer.fixed)
    [] field.is = "ratio" -> RatioEncode(value, peer.pad)
    [] field.is = "data" -> <<Len(value)>> \o value
    [] field.is = "list" -> Int16(Len(value)) \o FlattenSeq(listed)

RecordFields(ListedFields(_, _, _), layout, value, peer) ==
  LET listed(i) == [j \in DOMAIN value[i] |-> ListedFields(layout[i].of, value[i][j], peer)]
  IN  FlattenSeq([i \in DOMAIN layout |-> FieldBytes(layout[i], value[i], peer, listed(i))])

FlatFields(layout, value, peer) == RecordFields(NoLists, layout, value, peer)
NestedFields(layout, value, peer) == RecordFields(FlatFields, layout, value, peer)
Fields(layout, value, peer) == RecordFields(NestedFields, layout, value, peer)

(* The size has 32 bits.                                                   *)
SizeFits(size) == size \div Word < Word

WithHeader(version, fields) ==
  Int32(HeaderSize + Len(fields)) \o Int16(version) \o fields

Encode(type, version, value, peer) == WithHeader(version, Fields(FileTypes[type], value, peer))

-----------------------------------------------------------------------------
(* Decoding.                                                               *)

Refused == [ok |-> FALSE]
Reading(value, rest) == [ok |-> TRUE, value |-> value, rest |-> rest]

Unsigned(raw) == (256 * raw[1]) + raw[2]
Drop(raw, n) == SubSeq(raw, n + 1, Len(raw))

NumberDecode(raw, values) ==
  IF Len(raw) >= 2 /\ Unsigned(raw) \in values
  THEN Reading(Unsigned(raw), Drop(raw, 2)) ELSE Refused

SignedDecode(raw) ==
  IF Len(raw) < 2 THEN Refused
  ELSE Reading(IF raw[1] < 128 THEN Unsigned(raw) ELSE Unsigned(raw) - Word, Drop(raw, 2))

(* Bug: the terminating zero stays with the string.                        *)
StringDecodeUntrimmed(raw) ==
  LET length == raw[1]
      text == SubSeq(raw, 2, length + 1)
  IN  IF raw = <<>> \/ Len(raw) - 1 < raw[1] THEN Refused
      ELSE IF length # 0 /\ 0 \notin Range(text) THEN Refused
      ELSE Reading(text, Drop(raw, length + 1))

(* The string ends with the first zero, the field with its length.         *)
FirstZero(text) == SelectInSeq(text, LAMBDA c : c = 0)

StringDecode(raw) ==
  LET length == raw[1]
      text == SubSeq(raw, 2, length + 1)
  IN  IF raw = <<>> \/ Len(raw) - 1 < length THEN Refused
      ELSE IF length = 0 THEN Reading(<<>>, Drop(raw, 1))
      ELSE IF 0 \notin Range(text) THEN Refused
      ELSE Reading(SubSeq(text, 1, FirstZero(text) - 1), Drop(raw, length + 1))

(* std::stoul of three characters: spaces, a sign, digits, anything.  A    *)
(* negative number wraps to one far out of range.                          *)
Whitespace == (9..13) \cup {32}
FirstVisible(text) == SelectInSeq(text, LAMBDA c : c \notin Whitespace)

DigitsValue(text, digits) ==
  LET number[i \in 0..3] ==
        IF i = 0 THEN 0
        ELSE IF i \in digits THEN (10 * number[i - 1]) + text[i] - 48
        ELSE number[i - 1]
  IN  number[3]

RatioValue(text) ==
  LET start == FirstVisible(text)
      sign == start # 0 /\ text[start] \in {43, 45}
      first == IF sign THEN start + 1 ELSE start
      digits == {i \in first..3 : \A j \in first..i : text[j] \in 48..57}
      number == DigitsValue(text, digits)
  IN  IF start = 0 \/ digits = {} \/ (text[start] = 45 /\ number # 0) THEN 101 ELSE number

RatioDecode(raw) ==
  IF Len(raw) < 3 \/ RatioValue(SubSeq(raw, 1, 3)) > 100 THEN Refused
  ELSE Reading(RatioValue(SubSeq(raw, 1, 3)), Drop(raw, 3))

UserDataDecode(raw) ==
  IF raw = <<>> \/ Len(raw) - 1 # raw[1] THEN Refused ELSE Reading(Drop(raw, 1), <<>>)

(* One after the other, each from where the one before has ended, until    *)
(* one is refused.  A reader is what bytes are read as.                    *)
ReadNext(reading, reader) ==
  IF reading.ok /\ reader[reading.rest].ok
  THEN Reading(Append(reading.value, reader[reading.rest].value), reader[reading.rest].rest)
  ELSE Refused

Readings(readers, raw) ==
  LET reading[i \in 0..Len(readers)] ==
        IF i = 0 THEN Reading(<<>>, raw) ELSE ReadNext(reading[i - 1], readers[i])
  IN  reading

InTurn(readers, raw) == Readings(readers, raw)[Len(readers)]

ListDecode(reader, raw) ==
  IF Len(raw) < 2 THEN Refused
  ELSE InTurn([i \in 1..Unsigned(raw) |-> reader], Drop(raw, 2))

FieldReader(field, listed) ==
  [raw \in Seq(Byte) |->
     CASE field.is = "number" -> NumberDecode(raw, field.values)
       [] field.is = "signed" -> SignedDecode(raw)
       [] field.is = "text" -> StringDecode(raw)
       [] field.is = "ratio" -> RatioDecode(raw)
       [] field.is = "data" -> UserDataDecode(raw)
       [] field.is = "list" -> ListDecode(listed, raw)]

RecordReader(ListedReader(_), layout) ==
  LET readers == [i \in DOMAIN layout |-> FieldReader(layout[i], ListedReader(layout[i].of))]
  IN  [raw \in Seq(Byte) |-> InTurn(readers, raw)]

NoReader(layout) == [raw \in Seq(Byte) |-> Refused]
FlatReader(layout) == RecordReader(NoReader, layout)
NestedReader(layout) == RecordReader(FlatReader, layout)
Reader(layout) == RecordReader(NestedReader, layout)

HeaderAccepted(raw) ==
  /\ Len(raw) >= HeaderSize
  /\ SubSeq(raw, 1, 4) = Int32(Len(raw))
  /\ Unsigned(Drop(raw, 4)) \in Versions

File(version, value) == [ok |-> TRUE, version |-> version, value |-> value]

(* Bug: what follows the fields is ignored.                                *)
DecodeUnfinished(type, raw) ==
  LET reading == Reader(FileTypes[type])[Drop(raw, HeaderSize)] IN
  IF Len(raw) < MinimumSize(type) \/ ~HeaderAccepted(raw) THEN Refused
  ELSE IF reading.ok THEN File(Unsigned(Drop(raw, 4)), reading.value) ELSE Refused

(* Nothing may follow the fields.                                          *)
Decode(type, raw) ==
  LET reading == Reader(FileTypes[type])[Drop(raw, HeaderSize)] IN
  IF Len(raw) < MinimumSize(type) \/ ~HeaderAccepted(raw) THEN Refused
  ELSE IF reading.ok /\ reading.rest = <<>> THEN File(Unsigned(Drop(raw, 4)), reading.value)
  ELSE Refused

=============================================================================
