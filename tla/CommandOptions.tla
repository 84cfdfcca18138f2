--------------------------- MODULE CommandOptions ---------------------------
(***************************************************************************)
(* The options of the operation commands, and what becomes of the          *)
(* parameters on a command line: a sequence of records of an option and    *)
(* its value.  The options of the TFTP library and abbreviations are left  *)
(* out.                                                                    *)
(***************************************************************************)
EXTENDS Naturals, Sequences, TLC

Optional == [required |-> FALSE, repeated |-> FALSE]
Required == [required |-> TRUE, repeated |-> FALSE]
Several == [required |-> FALSE, repeated |-> TRUE]
OneOrMore == [required |-> TRUE, repeated |-> TRUE]

-----------------------------------------------------------------------------
(* Arinc615aConfiguration::options.                                        *)
ConfigurationOptions ==
  [localTftpAddress |-> Optional, dlpRetries |-> Optional, logProtocolFiles |-> Optional]

(* The constructors of the commands.                                       *)
InformationOptions ==
  ConfigurationOptions @@
  [logLevel |-> Optional, dlpTimeout |-> Optional, targetAddress |-> Optional,
   targetsList |-> Optional, targetId |-> Required, portOption |-> Optional]

UploadOptions ==
  InformationOptions @@
  [mediaSetManagerDir |-> Required, checkMediaSetManagerIntegrity |-> Optional,
   mediaSetPn |-> Required, loadHeader |-> OneOrMore]

AdhocUploadOptions ==
  InformationOptions @@
  [sourceDirectory |-> OneOrMore, checkFileIntegrity |-> Optional, loadHeader |-> OneOrMore]

UploadLoadsOptions ==
  InformationOptions @@ [checkFileIntegrity |-> Optional, loadHeader |-> OneOrMore]

(* The targets come with the batch file.                                   *)
BatchUploadOptions ==
  ConfigurationOptions @@
  [logLevel |-> Optional, dlpTimeout |-> Optional, targetsList |-> Required, portOption |-> Optional,
   mediaSetManagerDir |-> Required, checkMediaSetManagerIntegrity |-> Optional, mediaSetPn |-> Required,
   batchFile |-> Required]

MediaDefinedDownloadOptions ==
  InformationOptions @@
  [file |-> Several, userDefinedData |-> Optional, downloadBaseDirectory |-> Optional,
   noCheckValidity |-> Optional, noDownloadDirectory |-> Optional]

OperatorDefinedDownloadOptions ==
  InformationOptions @@
  [downloadAll |-> Optional, file |-> Several, downloadBaseDirectory |-> Optional,
   noCheckValidity |-> Optional, noDownloadDirectory |-> Optional]

(* The commands the program registers.                                     *)
OptionsOf ==
  [Information |-> InformationOptions,
   Upload |-> UploadOptions,
   BatchUpload |-> BatchUploadOptions,
   AdhocUpload |-> AdhocUploadOptions,
   UploadLoads |-> UploadLoadsOptions,
   MediaDefinedDownload |-> MediaDefinedDownloadOptions,
   OperatorDefinedDownload |-> OperatorDefinedDownloadOptions]

-----------------------------------------------------------------------------
(* boost::program_options: store and notify.                               *)

(* The values of an option with those of one more parameter.               *)
Taken(values, parameter, option) ==
  IF parameter.option = option THEN Append(values, parameter.value) ELSE values

(* The values an option is given by the first parameters, in their order.  *)
GivenBy(parameters, option) ==
  LET given[i \in 0..Len(parameters)] ==
        IF i = 0 THEN <<>> ELSE Taken(given[i - 1], parameters[i], option)
  IN  given

Given(parameters, option) == GivenBy(parameters, option)[Len(parameters)]

Value(parameters, option) == Given(parameters, option)[1]

(* Unknown, missing and repeated options are errors.                       *)
Accepted(command, parameters) ==
  LET options == OptionsOf[command] IN
  /\ \A i \in DOMAIN parameters : parameters[i].option \in DOMAIN options
  /\ \A option \in DOMAIN options :
       LET times == Len(Given(parameters, option)) IN
       /\ options[option].required => times > 0
       /\ times > 1 => options[option].repeated

=============================================================================
