---------------------------- MODULE TargetsList ----------------------------
(***************************************************************************)
(* The list of targets which FindQueryCommand writes after a query, and    *)
(* from which the commands take the address of the target they are told    *)
(* to work with: Find::TargetInformation and its property trees.           *)
(*                                                                         *)
(* A file has a sequence of entries, records whose fields may be missing,  *)
(* as an operator may have written it.                                     *)
(***************************************************************************)
EXTENDS FindSession

CONSTANTS
  Unspecified,    \* the address 0.0.0.0
  PreviousFiles,  \* what may be there before
  AddressOptions  \* of the commands: whether it is a batch, whether to read the file,
                  \* the target's identifier, and address

NoFile == [exists |-> FALSE, entries |-> <<>>]
File(entries) == [exists |-> TRUE, entries |-> entries]

ASSUME FileAssumption ==
  \A previous \in PreviousFiles : previous.entries \in Seq(Range(previous.entries))

Fields == <<"thwId", "thwTypeName", "thwPosition", "literalName", "manufacturerCode">>

-----------------------------------------------------------------------------
(* Writing.                                                                *)

(* The parameters of the packet are in the order of the fields.            *)
TargetInformation(parameters) ==
  [field \in Range(Fields) |-> parameters[SelectInSeq(Fields, LAMBDA name : name = field)]]

ToProperties(address, information) ==
  [field \in {"address"} \cup Range(Fields) |->
     IF field = "address" THEN address ELSE information[field]]

TargetsAddressInformation ==
  [i \in DOMAIN saved |-> ToProperties(saved[i][1], TargetInformation(saved[i][2]))]

(* WriteList has found something to write.                                 *)
Written == saved # <<>>

(* The process has ended while it was writing: nobody can read the file,   *)
(* which is as good as none.                                               *)
LostInWriting == crashed /\ ReadsTargets /\ targets # <<>>

(* Bug: the file is opened to append.                                      *)
FilesAppended(previous) ==
  IF Written THEN {File(previous.entries \o TargetsAddressInformation)}
  ELSE {previous} \cup IF LostInWriting THEN {NoFile} ELSE {}

(* A query that has found nothing leaves the file as it was.               *)
FilesAfterQuery(previous) ==
  IF Written THEN {File(TargetsAddressInformation)}
  ELSE {previous} \cup IF LostInWriting THEN {NoFile} ELSE {}

-----------------------------------------------------------------------------
(* Reading.                                                                *)

Property(entry, field) == IF field \in DOMAIN entry THEN entry[field] ELSE <<>>

FromProperties(entry) == [field \in Range(Fields) |-> Property(entry, field)]

AddressOf(entry) == IF "address" \in DOMAIN entry THEN entry.address ELSE Unspecified

Underscore == 95
TargetIdOf(information) == information.thwId \o <<Underscore>> \o information.thwPosition

EntriesOf(entries, targetId) ==
  {i \in DOMAIN entries : TargetIdOf(FromProperties(entries[i])) = targetId}

(* Of several entries with the same identifier the first one counts.       *)
AddressIn(entries, targetId, default) ==
  IF EntriesOf(entries, targetId) = {} THEN default
  ELSE AddressOf(entries[Min(EntriesOf(entries, targetId))])

(* A batch needs every target in the file, and uses what it says.          *)
BatchAddress(targetId, file) ==
  IF file.exists THEN AddressIn(file.entries, targetId, Unspecified) ELSE Unspecified

(* What the other commands use: without a file, or without any address,    *)
(* they are refused.  The file has precedence over the option.             *)
CommandAddress(options, file) ==
  IF ~options.readsFile THEN options.address
  ELSE IF ~file.exists THEN Unspecified
  ELSE AddressIn(file.entries, options.targetId, options.address)

AddressUsed(options, file) ==
  IF options.batch THEN BatchAddress(options.targetId, file) ELSE CommandAddress(options, file)

(* Once its process has ended the operator gives the next command.         *)
QueryOver == mainThread = "stopped" \/ crashed

-----------------------------------------------------------------------------
(* Those of a sequence of targets that have answered under an identifier.  *)
AnsweredUnder(targetId, found) ==
  {target \in Targets :
     /\ TargetIdOf(TargetInformation(Information[target])) = targetId
     /\ \E entry \in Range(found) : entry[1] = target}

(* After a query that was saved, a command reaches a target that has       *)
(* answered under the identifier it is told, if one did so before the      *)
(* query was completed, whatever the order and number of answers, whatever *)
(* is received while the file is written, and whatever was in it before.   *)
(* It never uses another address than that or the operator's, unless the   *)
(* query has left the file alone.  An answer that is handled after the     *)
(* file was written is reported to the operator and not in the file        *)
(* (FindQueryCommand::execute, response, execute of the commands).         *)
FoundTargetReached ==
  QueryOver =>
    \A previous \in PreviousFiles : \A file \in FilesAfterQuery(previous) :
      \A options \in AddressOptions :
        LET address == AddressUsed(options, file)
            answered == AnsweredUnder(options.targetId, saved)
            left == {AddressOf(entry) : entry \in Range(previous.entries)}
        IN  /\ Written /\ options.readsFile /\ AnsweredUnder(options.targetId, heard) # {}
                 => address \in answered
            /\ address \in answered \cup {options.address, Unspecified}
                              \cup IF Written THEN {} ELSE left

=============================================================================
