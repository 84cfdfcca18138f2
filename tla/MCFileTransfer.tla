--------------------------- MODULE MCFileTransfer ---------------------------
(***************************************************************************)
(* FileTransfer for TLC: files of each type with empty and short strings,  *)
(* lists of none, one and two, numbers at both ends of their width, and    *)
(* strings of the length that just fits and does not fit.  Names of each   *)
(* type with identifiers at both ends of their sizes, and with others, are *)
(* requested from each side during each operation.                         *)
(***************************************************************************)
EXTENDS StatusReport

A == <<65>>
Strings == {<<>>, A, <<65, 66>>}
Long(length) == [i \in 1..length |-> 65]

Upto2(records) == {<<>>} \cup {<<r>> : r \in records} \cup {<<r, s>> : r, s \in records}

StringPairs == {<<s, t>> : s, t \in {<<>>, A}}
Singles == {<<s>> : s \in Strings}

Statuses == {<<1, <<>>, 0, 0, -1>>, <<4103, A, 65535, 300, 32767>>, <<4, <<66>>, 256, 255, -32768>>}
LoadStatuses == <<<<A, <<>>, 0, 2, A>>, <<<<65, 66>>, A, 100, 4103, <<>>>>, <<<<>>, A, 42, 3, <<>>>>>>
FileStatuses == {<<A, 2, A>>, <<<<>>, 4103, <<>>>>}
Parts == {<<A, <<>>, A>>, <<<<>>, <<>>, <<>>>>}
Hardware == {<<s, t, parts>> : s, t \in {<<>>, A}, parts \in Upto2(Parts)}

Values(type) ==
  CASE type \in DOMAIN OperationOf -> {<<code, s>> : code \in {1, 4098}, s \in Strings}
                         \cup {<<4096, Long(253)>>, <<4096, Long(254)>>}
    [] type = "LoadConfigurationList" -> {<<list>> : list \in {<<>>} \cup {<<h>> : h \in Hardware}
                                      \cup {<<h, <<A, A, <<>>>>>> : h \in Hardware}}
    [] type = "LoadConfigurationStatus" -> {<<s[3], s[1], s[4], s[5], s[2]>> : s \in Statuses}
    [] type = "UploadRequest" -> {<<list>> : list \in Upto2(StringPairs)}
    [] type = "UploadStatus" -> {s \o <<ratio, list>> : s \in Statuses, ratio \in {7, 10},
                                               list \in {<<>>, LoadStatuses} \cup {<<r>> : r \in Range(LoadStatuses)}}
    [] type = "MediaDefinedDownloadRequest" -> {<<list, data>> : list \in Upto2(Singles), data \in {<<>>, <<0>>, <<1, 0>>}}
                         \cup {<<<<>>, Long(255)>>, <<<<>>, Long(256)>>}
    [] type = "OperatorDefinedDownloadList" -> {<<list>> : list \in Upto2(StringPairs)}
    [] type = "OperatorDefinedDownloadAnswer" -> {<<list>> : list \in Upto2(Singles)}
    [] type = "DownloadStatus" -> {s \o <<ratio, list>> : s \in Statuses, ratio \in {0},
                                               list \in Upto2(FileStatuses)}

Contents(types, version, peer) ==
  UNION {{[type |-> type, version |-> version, value |-> value, peer |-> peer] :
            value \in Values(type)} : type \in types}

Characters(string) == [i \in 1..Len(string) |-> SubSeq(string, i, i)]
Id(thwId, position) == TargetId(Characters(thwId), Characters(position))

Request(id, side, operation, targetId, from) ==
  [id |-> id,
   requested |-> [side |-> side, operation |-> operation, targetId |-> targetId, from |-> from]]

Operations == Range(OperationOf)

(* Who takes a file of a type, for the files with all contents.            *)
Taker(type) ==
  CASE type \in DOMAIN OperationOf -> [side |-> "target", operation |-> NoOperation]
    [] type \in {"LoadConfigurationList", "LoadConfigurationStatus"} ->
         [side |-> "host", operation |-> "Information"]
    [] type = "UploadStatus" -> [side |-> "host", operation |-> "Upload"]
    [] type \in {"OperatorDefinedDownloadList", "DownloadStatus"} ->
         [side |-> "host", operation |-> "OperatorDefinedDownload"]
    [] type = "UploadRequest" -> [side |-> "target", operation |-> "Upload"]
    [] type = "MediaDefinedDownloadRequest" ->
         [side |-> "target", operation |-> "MediaDefinedDownload"]
    [] type = "OperatorDefinedDownloadAnswer" ->
         [side |-> "target", operation |-> "OperatorDefinedDownload"]

RequestedOf(content) ==
  LET id == Id("ABCD", "1")
      taker == Taker(content.type)
  IN  content @@ Request(id, taker.side, taker.operation, id, "host")

(* This program's files, those of an older version, and those of a peer    *)
(* that pads strings and writes ratios with zeros.                         *)
AllContents ==
  Contents(Types, 16692, Plainly)
    \cup Contents({"LoadConfigurationInitialization"}, 16690, Plainly)
    \cup Contents({"LoadConfigurationInitialization", "OperatorDefinedDownloadAnswer",
                   "DownloadStatus"}, 16692, [fixed |-> 3, pad |-> 48])

(* The last ones are not well formed; the empty parts are what a text      *)
(* without an underscore is read as.                                       *)
Ids ==
  {Id("ABCD", "1"), Id("abcd", "1"), Id("ABCD", ""),
   Id("ABCDEFGHIJKLMNO", "R"), Id("ABCD", "12345678"),
   Id("ABC", "1"), Id("ABCDEFGHIJKLMNOP", "R"), Id("ABCD", "123456789"),
   Id("ABCD", "1_2"), Id("AB.CD", "1"), Id("", "")}

(* The smallest contents of a type, requested by anybody.                  *)
Sample(type) ==
  LET contents == Contents({type}, 16692, Plainly)
      size(content) == Len(Encode(type, 16692, content.value, Plainly))
      smallest == Min({size(content) : content \in contents})
  IN  CHOOSE content \in contents : size(content) = smallest

Requested ==
  {Request(id, "host", operation, targetId, "target") :
     id, targetId \in Ids, operation \in Operations}
    \cup {Request(id, "target", operation, id, from) :
            id \in Ids, operation \in Operations \cup {NoOperation}, from \in {"host", "other"}}

Named ==
  UNION {LET sample == Sample(type) IN {sample @@ request : request \in Requested} : type \in Types}

(* Status files that the application's reports fill.                       *)
ToReport ==
  {RequestedOf([type |-> type, version |-> 16692, value |-> <<>>, peer |-> Plainly]) :
     type \in {"UploadStatus", "DownloadStatus"}}

MCFiles == {RequestedOf(content) : content \in AllContents} \cup Named \cup ToReport

MCAlphabet == Alphanumeric \cup {"_", "."}

MCNames == {A, <<65, 66>>}
MCLoadPartNumbers == {A}
MCDescriptions == {<<>>, A}
MCRatios == {42}
MCFinals == {"Completed", "LoadPartNumberOrDownloadFileFailed"}

MCTrailers == {<<0>>, <<0, 0>>, <<1, 0>>, <<65, 0>>}

=============================================================================
