--------------------------- MODULE MCBatchCommand ---------------------------
(***************************************************************************)
(* UploadFiles for TLC: of a batch a first, a middle and a last target,    *)
(* two status transfers of each in progress at a time, an abort and a      *)
(* terminate.  The port of a server may be in use when it starts.          *)
(*                                                                         *)
(* Media set A is on two media: its loads share the name of a data file,   *)
(* which of L2 is on the other medium and of L3 not there any more.  Media *)
(* set B has two loads with the same header.                               *)
(***************************************************************************)
EXTENDS UploadFiles

MCTargets == 1..3

Load(header, partNumber, files) == [header |-> header, partNumber |-> partNumber, files |-> files]

L1 == Load("h1", "L1", [h1 |-> 1, f |-> 1])
L2 == Load("h2", "L2", [h2 |-> 1, f |-> 2, g |-> 2])
L3 == Load("h3", "L3", [h3 |-> 2])
L4 == Load("h4", "L4", [h4 |-> 1])
L5 == Load("h4", "L5", [h4 |-> 2])

MCMediaSets == [A |-> {L1, L2, L3}, B |-> {L4, L5}]

Directory(mediaSet, medium, files) == [mediaSet |-> mediaSet, medium |-> medium, files |-> files]

A1 == Directory("A", 1, [h1 |-> "L1", f |-> "L1", h2 |-> "L2"])
A2 == Directory("A", 2, [f |-> "L2", g |-> "L2"])
A1Copy == Directory("A", 1, [h1 |-> "L1", h2 |-> "L2"])
B1 == Directory("B", 1, [h4 |-> "L4"])
B2 == Directory("B", 2, [h4 |-> "L5"])
Plain == Directory("A", NoMedium, [h1 |-> "L1", f |-> "L1"])
Other == Directory("A", NoMedium, [h2 |-> "L2", f |-> "L2"])

MCManaged == [A |-> <<A1, A2>>, B |-> <<B1, B2>>]

MCBatches ==
  [A |-> [b |-> [target \in MCTargets |->
             CASE target = 1 -> <<L1>> [] target = 2 -> <<L2, L3>> [] target = 3 -> <<L2, L1>>]],
   B |-> <<>>]

With(option, values) == [i \in DOMAIN values |-> [option |-> option, value |-> values[i]]]

Upload(mediaSet, headers) ==
  [command |-> "Upload",
   parameters |-> With("targetId", <<1>>) \o With("mediaSetManagerDir", <<"manager">>)
                    \o With("mediaSetPn", <<mediaSet>>) \o With("loadHeader", headers)]
Adhoc(directories, headers) ==
  [command |-> "AdhocUpload",
   parameters |-> With("loadHeader", headers) \o With("targetId", <<1>>)
                    \o With("sourceDirectory", directories)]
FromHeaders(directories, names) ==
  [command |-> "UploadLoads",
   parameters |-> With("targetId", <<1>>) \o
     With("loadHeader",
          [i \in DOMAIN names |-> [directory |-> directories[i], name |-> names[i]]])]
Batch(batchFiles, targetsList) ==
  [command |-> "BatchUpload",
   parameters |-> With("mediaSetManagerDir", <<"manager">>) \o With("batchFile", batchFiles)
                    \o With("mediaSetPn", <<"A">>) \o With("targetsList", targetsList)]

(* The last ones are refused for their options.                            *)
MCCommandLines ==
  {Upload("A", <<"h2", "h3", "h1">>), Upload("A", <<"h5">>), Upload("B", <<"h4">>),
   Upload("C", <<"h1">>), Adhoc(<<A2, A1>>, <<"h1", "h2">>),
   Adhoc(<<A2, A1Copy, A1>>, <<"h2", "h1">>),
   Adhoc(<<A2>>, <<"h3">>), Adhoc(<<A1, B2>>, <<"h1">>), Adhoc(<<A1, Plain>>, <<"h1">>),
   FromHeaders(<<Plain, Other>>, <<"h1", "h2">>), FromHeaders(<<Plain>>, <<"h2">>),
   Batch(<<"b">>, <<1..4>>), Batch(<<"b">>, <<1..2>>), Batch(<<"c">>, <<1..4>>),
   Batch(<<"b", "c">>, <<1..4>>), Batch(<<"b">>, <<>>), Upload("A", <<>>),
   [command |-> "UploadLoads", parameters |-> Adhoc(<<A1>>, <<"h1">>).parameters]}

MCRequests ==
  {[name |-> name, partNumber |-> number] :
     name \in {"h1", "h2", "h3", "f", "g"}, number \in {"L1", "L2", "L3", NoPartNumber}}

=============================================================================
