---------------------------- MODULE UploadFiles ----------------------------
(***************************************************************************)
(* What the upload commands upload: UploadOperationCommand and             *)
(* BatchUploadOperationCommand from a media set manager,                   *)
(* AdhocUploadOperationCommand from directories with the media of a media  *)
(* set, UploadLoadsOperationCommand from the directories of load headers;  *)
(* on top of when they do so, which is BatchCommand.                       *)
(*                                                                         *)
(* A directory is a record: the media set and the number of the medium it  *)
(* holds, if any (NoMedium), and its files, each with the part number of   *)
(* the load it is a file of, which stands for its content.  A load is a    *)
(* record: header, part number, and the medium of each of its files.  The  *)
(* path of a header is a record of its directory and its name.             *)
(* Reading media sets and loads, and the check values, are external.       *)
(***************************************************************************)
EXTENDS BatchCommand, CommandOptions, SequencesExt

CONSTANTS
  CommandLines,  \* what the operator may ask for: records of a command and its parameters
  MediaSets,     \* the loads of each media set
  Batches,       \* of each media set, the loads for each target of its batch files
  Managed,       \* the manager's directory of each medium of its media sets
  Requests,      \* what a target may ask for: name, and part number or NoPartNumber
  NoPartNumber

Commands == {"Upload", "AdhocUpload", "UploadLoads", "BatchUpload"}

NoMedium == 0
Missing == "missing"

(* The file of the name that a directory holds, if any.                    *)
Content(directory, name) ==
  IF name \in DOMAIN directory.files THEN directory.files[name] ELSE Missing

ASSUME FilesAssumption ==
  /\ \A line \in CommandLines : line.command \in Commands /\ Len(line.parameters) \in Nat
  /\ \A mediaSet \in DOMAIN MediaSets :
       \A batchFile \in DOMAIN Batches[mediaSet] :
         Batches[mediaSet][batchFile] \in [Targets -> Seq(MediaSets[mediaSet])]

VARIABLES
  commandLine,     \* the command and its parameters
  mediaPaths,      \* mediaPathsV: a directory per medium number
  mediaSetPaths,   \* mediaSetPathsV: the directory of each load's media set
  loads,           \* loadsV
  listed           \* the load list each target was sent, or NoList

sourceVars == <<commandLine, mediaPaths, mediaSetPaths, loads>>
filesVars == <<vars, sourceVars, listed>>

NoList == {"none"}
Refused == [ok |-> FALSE]

-----------------------------------------------------------------------------
(* External: the libraries for media sets.                                 *)

RecursiveLoads(mediaSet, header) == {load \in MediaSets[mediaSet] : load.header = header}

(* FilesystemMediaSetDecompiler: it throws unless the directories are the  *)
(* media of one media set.                                                 *)
Imported(paths) ==
  LET sets == {paths[medium].mediaSet : medium \in DOMAIN paths}
      media == UNION {Range(load.files) : load \in UNION {MediaSets[s] : s \in sets}}
  IN  IF (\A s, t \in sets : s = t) /\ media = DOMAIN paths THEN sets ELSE {}

(* FilesystemLoadDecompiler: the load whose header is in the directory.    *)
Decompiled(directory, header) ==
  {load \in UNION Range(MediaSets) :
     /\ load.header = header
     /\ header \in DOMAIN directory.files
     /\ load.partNumber = directory.files[header]}

(* Loads_file: the place of the first of the loads that has the file, 0    *)
(* without one.                                                            *)
LoadsFile(request) ==
  SelectInSeq(loads, LAMBDA load :
    /\ request.name \in DOMAIN load.files
    /\ request.partNumber \in {NoPartNumber, load.partNumber})

(* What these libraries check, unless the operator turns it off: a         *)
(* directory of a medium, or of a load header, holds no other file in the  *)
(* place of one of the load's, though one may be missing.  And the part    *)
(* number of a load is its own.                                            *)
Holds(directory, load, name) == Content(directory, name) \in {load.partNumber, Missing}

ASSUME LibraryAssumption ==
  /\ \A one, other \in UNION Range(MediaSets) : one.partNumber = other.partNumber => one = other
  /\ \A mediaSet \in DOMAIN MediaSets : \A load \in MediaSets[mediaSet] :
       \A name \in DOMAIN load.files : Holds(Managed[mediaSet][load.files[name]], load, name)
  /\ \A line \in CommandLines : Accepted(line.command, line.parameters) =>
       /\ line.command = "AdhocUpload" =>
            \A directory \in Range(Given(line.parameters, "sourceDirectory")) :
              directory.medium # NoMedium =>
                /\ directory.mediaSet \in DOMAIN MediaSets
                /\ \A load \in MediaSets[directory.mediaSet] : \A name \in DOMAIN load.files :
                     load.files[name] = directory.medium => Holds(directory, load, name)
       /\ line.command = "UploadLoads" =>
            \A header \in Range(Given(line.parameters, "loadHeader")) :
              \A load \in Decompiled(header.directory, header.name) :
                \A name \in DOMAIN load.files : Holds(header.directory, load, name)

-----------------------------------------------------------------------------
(* execute() up to the operation.                                          *)

(* What an option of the command line was given.                           *)
Single(line, option) == Value(line.parameters, option)
All(line, option) == Given(line.parameters, option)

Sources(sequence, media, sets) ==
  [ok |-> TRUE, loads |-> sequence, mediaPaths |-> media, mediaSetPaths |-> sets]

(* Each load header must exist once in the media set.                      *)
LoadsOfHeaders(mediaSet, headers, media) ==
  LET found(i) == RecursiveLoads(mediaSet, headers[i]) IN
  IF \A i \in DOMAIN headers : \E load \in found(i) : found(i) = {load}
  THEN Sources([i \in DOMAIN headers |-> CHOOSE load \in found(i) : TRUE], media, <<>>)
  ELSE Refused

UploadSources(line) ==
  LET mediaSet == Single(line, "mediaSetPn") IN
  IF mediaSet \in DOMAIN MediaSets
  THEN LoadsOfHeaders(mediaSet, All(line, "loadHeader"), <<>>)
  ELSE Refused

(* Bug: the directories are taken for the media in their order.            *)
MediaPathsInOrder(directories) == directories

(* Of several directories with the same medium the first one counts.       *)
MediaPaths(directories) ==
  LET of(medium) == {i \in DOMAIN directories : directories[i].medium = medium}
  IN  [medium \in {directory.medium : directory \in Range(directories)} |->
         directories[Min(of(medium))]]

AdhocSources(line) ==
  LET directories == All(line, "sourceDirectory")
      paths == MediaPaths(directories)
      imported == Imported(paths)
  IN  IF \E i \in DOMAIN directories : directories[i].medium = NoMedium THEN Refused
      ELSE IF imported = {} THEN Refused
      ELSE LoadsOfHeaders(CHOOSE mediaSet \in imported : TRUE, All(line, "loadHeader"), paths)

(* Each header is decompiled into a media set of its own, of this load.    *)
HeaderSources(line) ==
  LET headers == All(line, "loadHeader")
      found(i) == Decompiled(headers[i].directory, headers[i].name)
  IN  IF \A i \in DOMAIN headers : found(i) # {}
      THEN Sources([i \in DOMAIN headers |-> CHOOSE load \in found(i) : TRUE],
                   <<>>, [i \in DOMAIN headers |-> headers[i].directory])
      ELSE Refused

(* The loads come with each target.  Every target must be in the list.     *)
BatchSources(line) ==
  LET mediaSet == Single(line, "mediaSetPn")
      batchFile == Single(line, "batchFile")
  IN  IF /\ mediaSet \in DOMAIN MediaSets
         /\ batchFile \in DOMAIN Batches[mediaSet]
         /\ DOMAIN Batches[mediaSet][batchFile] \subseteq Single(line, "targetsList")
      THEN Sources(<<>>, <<>>, <<>>)
      ELSE Refused

(* Bad options are refused before anything else.                           *)
SourcesOf(line) ==
  IF Accepted(line.command, line.parameters)
  THEN CASE line.command = "Upload" -> UploadSources(line)
         [] line.command = "AdhocUpload" -> AdhocSources(line)
         [] line.command = "UploadLoads" -> HeaderSources(line)
         [] line.command = "BatchUpload" -> BatchSources(line)
  ELSE Refused

(* The manager's media set, and the loads its batch file has for a target. *)
MediaSet == Single(commandLine, "mediaSetPn")
BatchLoads(target) == Batches[MediaSet][Single(commandLine, "batchFile")][target]

(* The directories are those of a single target; with a batch, the loads   *)
(* come with each target.                                                  *)
TargetLoads(target) ==
  IF batch
  THEN BatchLoads(target)
  ELSE SourcesOf(commandLine).loads

-----------------------------------------------------------------------------
(* Files the target reads.                                                 *)

ManagedFile(place, name) ==
  Content(Managed[MediaSet][loads[place].files[name]], name)

AdhocFile(place, name) ==
  IF loads[place].files[name] \in DOMAIN mediaPaths
  THEN Content(mediaPaths[loads[place].files[name]], name)
  ELSE Missing

HeaderFile(place, name) ==
  IF place \in DOMAIN mediaSetPaths THEN Content(mediaSetPaths[place], name) ELSE Missing

(* fileRequest: what a request is answered with, a file, or FileNotFound.  *)
(* The transfer is kept in fileOperationsV until it completes, which no    *)
(* other step of the command reads.                                        *)
Answer(request) ==
  LET place == LoadsFile(request) IN
  IF place = 0 THEN Missing
  ELSE CASE commandLine.command \in {"Upload", "BatchUpload"} -> ManagedFile(place, request.name)
         [] commandLine.command = "AdhocUpload" -> AdhocFile(place, request.name)
         [] commandLine.command = "UploadLoads" -> HeaderFile(place, request.name)

-----------------------------------------------------------------------------
FilesInit ==
  /\ Init
  /\ commandLine \in CommandLines
  /\ batch = (commandLine.command = "BatchUpload")
  /\ mediaPaths = <<>>
  /\ mediaSetPaths = <<>>
  /\ loads = <<>>
  /\ listed = [target \in Targets |-> NoList]

(* Nothing is begun with sources that are refused.                         *)
Execute ==
  LET sources == SourcesOf(commandLine) IN
  /\ StartFirst
  /\ sources.ok
  /\ mediaPaths' = sources.mediaPaths
  /\ mediaSetPaths' = sources.mediaSetPaths

(* Bug: the loads of a target are added to those of the ones before.       *)
LoadsAdded ==
  loads' = IF proxy' # proxy THEN loads \o TargetLoads(proxy') ELSE loads

(* nextBatchTarget: with a new operation come the loads of its target.     *)
LoadsReplaced ==
  loads' = IF proxy' # proxy THEN TargetLoads(proxy') ELSE loads

(* status: the first accepted status of a target sends it the loads.       *)
LoadsListed ==
  listed' = IF loadListSent' /\ ~loadListSent
            THEN [listed EXCEPT ![current] = {load.partNumber : load \in Range(loads)}]
            ELSE listed

(* Execute() is what sets the directories.                                 *)
Follows(step) ==
  /\ step
  /\ LoadsReplaced
  /\ LoadsListed
  /\ UNCHANGED commandLine

FollowsLater(step) == Follows(step) /\ UNCHANGED <<mediaPaths, mediaSetPaths>>

FilesMainThread ==
  \/ Follows(Execute)
  \/ FollowsLater(ExecuteThrows \/ DoneWaitReturns \/ ExecuteReturns \/ StopIoContext)

FilesIoThread ==
  FollowsLater(AbortSignal \/ TerminateSignal \/ \E target \in Targets : Operation(target))

FilesNext ==
  \/ FilesMainThread
  \/ FilesIoThread

FilesSpec == FilesInit /\ [][FilesNext]_filesVars

(* As for BatchCommand.                                                    *)
FilesFairness ==
  /\ WF_filesVars(FilesMainThread)
  /\ \A target \in Targets :
       /\ WF_filesVars(FollowsLater(InitialisationFileCompleted(target)))
       /\ WF_filesVars(FollowsLater(Timeout(target)))

FilesFairSpec == FilesSpec /\ FilesFairness

-----------------------------------------------------------------------------
(* Properties.                                                             *)

(* The loads the operator means for a target: those of the headers given,  *)
(* or those the batch file names for it.                                   *)
Meant(target) ==
  LET headers == Range(All(commandLine, "loadHeader")) IN
  CASE commandLine.command = "Upload" ->
         {load \in MediaSets[MediaSet] : load.header \in headers}
    [] commandLine.command = "AdhocUpload" ->
         {load \in MediaSets[Single(commandLine, "sourceDirectory").mediaSet] :
            load.header \in headers}
    [] commandLine.command = "UploadLoads" ->
         {load \in UNION Range(MediaSets) :
            \E header \in headers :
              /\ load.header = header.name
              /\ load.partNumber = header.directory.files[load.header]}
    [] commandLine.command = "BatchUpload" -> Range(BatchLoads(target))

(* A target is sent the list of the loads that are meant for it, whichever *)
(* targets were served before it and however their operations ended        *)
(* (BatchUploadOperationCommand::nextBatchTarget, status).                 *)
ListsTheTargetsLoads ==
  ~undefined => \A target \in Targets :
    listed[target] # NoList => listed[target] = {load.partNumber : load \in Meant(target)}

(* The directories in which a file of a load is looked for.                *)
Places(load, name) ==
  CASE commandLine.command \in {"Upload", "BatchUpload"} ->
         {Managed[MediaSet][load.files[name]]}
    [] commandLine.command = "AdhocUpload" ->
         {directory \in Range(All(commandLine, "sourceDirectory")) :
            directory.medium = load.files[name]}
    [] commandLine.command = "UploadLoads" ->
         {header.directory :
            header \in {h \in Range(All(commandLine, "loadHeader")) : h.name = load.header}}

(* What a target reads is a file of a load that is meant for it, of the    *)
(* part number it asks for, also if loads have files of the same name; and *)
(* such a file is not refused if it is there (fileRequest of each command, *)
(* AdhocUploadOperationCommand::filePath).                                 *)
ServesTheTargetsFiles ==
  ~undefined => \A target \in {t \in Targets : listening[t]} :
    LET meant == Meant(target) IN
    \A request \in Requests :
      LET owners == {load \in meant :
                       /\ request.name \in DOMAIN load.files
                       /\ request.partNumber \in {NoPartNumber, load.partNumber}}
      IN  /\ Answer(request) \in {load.partNumber : load \in owners} \cup {Missing}
          /\ \A load \in owners :
               /\ request.partNumber # NoPartNumber
               /\ \A place \in Places(load, request.name) :
                    Content(place, request.name) = load.partNumber
               => Answer(request) = load.partNumber

=============================================================================
