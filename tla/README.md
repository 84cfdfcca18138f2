# Verification of the ARINC 615A data loader

TLA+ modules, TLC runs and TLAPS proofs for the ARINC 615A CLI tool suite: the
data loader of the host with the command line program around it, the target's side,
their TFTP layer and protocol files, and FIND. Paths are those of the repository.

## 1. The system

The program is a data loader for avionics equipment. It uploads loads to a
target, downloads files from it and asks it what it has installed. Everything is
a TFTP transfer over UDP; the host and the target are each a TFTP client and a
TFTP server to the other.

There are two threads. The **main thread** (`app/arinc_615a_operation`) parses
the command line, executes one command, blocks in `done.wait()` on a latch of
one, then cancels the signals, stops the `io_context` and joins. The **io
thread** runs the `io_context` from before the command starts until it is
stopped; every completion handler, timer handler and signal handler runs on it,
one after the other. `start()` is the one call that crosses: the main thread
executes it while the io thread already runs.

### 1.1 Components

| component | state it keeps | operations | interacts with |
|---|---|---|---|
| Host operation base, `lib/arinc_615a/host/implementation/OperationImpl.cpp` | transfer of the initialisation file, protocol version, abort reason, DLP watchdog timer, TFTP server | `initialise`, `doAbort`, `doTerminate`, `finished`, `isAborted`, `triggerDlpTimeout`, the handlers of the timer and the initialisation file | TFTP client and server below, the operation's handler above |
| Host upload, `UploadOperationImpl.cpp` | load list transfer, `loadListSentV`, status transfers in progress | `start`, `loadList`, `fileTransfer`, handlers of status files, load list, requests | the command's handler calls back into `loadList` and `fileTransfer` |
| Host information, `InformationOperationImpl.cpp` | list transfer, status transfers, `waitForFinalStatusV` | as above, with list files | as above |
| Host downloads, `MediaDefined-`, `OperatorDefinedDownloadOperationImpl.cpp` | list, answer, status and data transfers | as above | as above |
| Commands, `lib/arinc_615a_commands/operations` | latch, load list flag, data file transfers; the batch keeps a queue of targets | `execute`, the handler interface | main thread, operation |
| Process, `app/arinc_615a_operation` | threads, signal set, `abortIndicator` | `main`, `signalHandler` | commands, by two signals (abort, terminate) |
| TFTP client operations, `lib/arinc_615a/tftp/clients` | retry counter, current attempt, wait timer | `request`, `gracefulAbort`, `abort`, `handleCompletion`, `handleWaitTimeout` | TFTP library, owner |
| TFTP server, `lib/arinc_615a/tftp/servers` | listening socket, transfers | `start`, `stop`, `abortOperation`, `waitOperation`, `errorOperation`, request routing | operation, TFTP library |
| Target operations, `lib/arinc_615a/target` | state machine, status and its counter, status timer, transfers | handlers of the host's files, `progress`, `finished`, `abort` | target application, host |
| FIND, `lib/arinc_615a/find`, `lib/arinc_615a_commands/targets` | query: socket, timer; server: socket; the file with the targets found | `query`, `abort`, reception loop, writing and reading the file | UDP, the commands of operations |
| Protocol files and status values, `files`, `information`, `StatusCode.cpp`, `tftp/ErrorMessage.cpp` | status of an operation and of its loads or files | encode, decode, convert, name, report | all |
| Options, `lib/arinc_615a_commands/operations`, `Arinc615aConfiguration.cpp` | members of the commands | parse and refuse | boost, the commands |

### 1.2 What is hard, and what makes each part correct

- **The end of an operation.** `finished` (`OperationImpl.cpp:159`) has no state: it
  tells the handler, cancels the timer and stops the server, and can be called
  again by each transfer still in progress, by an expiry that is queued already
  and by each signal. Correct is: an operation is told an outcome whatever the
  target does; the process ends; the operation only drains after its outcome.
- **The watchdog.** Cancelling a timer does not recall a handler that is queued.
  Correct is: the watchdog runs, or its expiry is queued, from the accepted
  initialisation until the outcome.
- **Overlapping transfers.** The target may begin a status file while another is
  being transferred; they complete in any order. Correct is: one load list.
- **Two threads in `start()`.** The server listens before the transfer of the
  initialisation file exists; status files and signals meet a half started
  operation.
- **Retries and waits.** Each attempt of a TFTP client operation is a new
  transfer of the library. Correct is: one outcome, told once, and nothing left
  that would call into the destroyed operation.
- **Lists and final status.** The information operation ends with its list, or, when
  a status came before, with the final status. Correct is: in whatever order they
  arrive and replace one another, the operation ends, and only drains after that.
- **Downloads.** A list may replace another while its answer is on the way; data
  files are repeated, overlap and fail. The main thread saves a record the io
  thread has written. Correct is: from the first list on the answer is sent, on its way
  or the operation aborted (a list after that gets no answer), the record accounts for
  every transfer, a media defined download asks once.
- **The target's status loop.** The timer is started by both ends of a status file,
  a new file drops the one in progress, and the status may change between the file
  and its transfer. Correct is: until its end the operation has a transmission to come,
  an application is told a result the host has received, and a finished operation ends,
  unless its files are dropped for ever by a timer that is shorter than their transfer.
- **Both sides.** Each end of a transfer is told separately how it ended. Correct is:
  nobody is told of a success that was not declared, and the target not before the host.
- **A batch.** The next target is started from within `finished` of the one before,
  whose operation lives on. Correct is: one target is served at a time, in order.
- **FIND.** The timer, a signal and a reception that is queued race; the main thread
  reads and writes what the query has found, and destroys it. Correct is: it listens until
  its end, completes once (and once more for each signal), and reports what a target sent.
- **Files, options, messages.** Two versions of the protocol, foreign peers, transfers
  cut short. Correct is: what one side writes the other one reads, and nothing else;
  a file is taken for what it is, by the operation and the target it is meant for.
- **Reports.** The target's application reports on loads and files in any order. Correct
  is: the host reads of each what was reported last, and of one that failed by itself that it has failed.
- **Targets and command lines.** A query writes a file that later commands read, beside
  what an operator wrote and gives as options. Correct is: a command reaches the target it
  is told, if that had answered before the query was completed.

`PROJECT.json` lists every hazard at its line, with the properties that cover it
or the reason why none does.

## 2. The modules

| module | models | used by |
|---|---|---|
| `HostOperation` | `Host::OperationImpl`, with the status file handlers the operations share | `HostCommand` |
| `HostCommand` | what the commands share: main thread and latch, io thread, signals, and the operation's handlers as steps of the io thread; target and network as environment | the commands |
| `HostCommandProofs` | theorems about `HostCommand` and the lemmas the commands' proofs cite | the commands' proofs |
| `HostUpload` | `Host::UploadOperationImpl` | `UploadCommand` |
| `UploadCommand` | the upload command: `HostCommand` with `HostUpload` | `UploadSession`, `UploadSessionProofs` |
| `HostInformation` | `Host::InformationOperationImpl` | `InformationCommand` |
| `InformationCommand` | the information command: `HostCommand` with `HostInformation` | `InformationCommandProofs` |
| `TftpTransfer` | what a TFTP client operation promises its owner (abstract) | `TftpClient` |
| `TftpClient` | `Tftp::Clients::OperationImpl` | `TftpExchange` |
| `TftpOptions`, `ErrorMessage` | the options of `Arinc615aOptions` and the texts of WAIT and ABORT messages: in a packet, out of it, who answers and accepts what | `TftpExchange` |
| `TftpExchange` | `TftpClient` with a server of either version or a foreign one | `MCTftpExchange`, `TransferProofs` |
| `HostDownload` | `Host::MediaDefinedDownloadOperationImpl`, `Host::OperatorDefinedDownloadOperationImpl` | `DownloadCommand` |
| `DownloadInformation` | `Host::DownloadInformation`, the record of a download | `DownloadCommand` |
| `DownloadCommand` | both download commands: `HostCommand` with the two above | `DownloadCommandProofs` |
| `BatchCommand` | the upload commands of one target and of a batch: the proxy, and the uploads reduced to when they report | `UploadFiles` |
| `CommandOptions` | the options of each command, and which parameters are accepted | `UploadFiles`, `DownloadCommand` |
| `UploadFiles` | what the four upload commands upload: where loads and directories come from, what a target's requests are answered with; on top of `BatchCommand` | `MCBatchCommand`, `BatchCommandProofs` |
| `TargetOperation` | `Target::OperationImpl` and the status transmission of every target operation | `Target` |
| `Target` | the target's protocol, its four operations and the application | `UploadSession`, `TargetProofs` |
| `OperationOutcome` | what an operation promises its two sides (abstract) | `UploadSession` |
| `UploadSession` | `UploadCommand` and `Target` with the transfers between them | `MCUploadSession`, `UploadSessionProofs` |
| `FindPacket`, `FindQuery`, `FindServer`, `FindSession` | the FIND packet, client and server, and the network between them | `TargetsList` |
| `TargetsList` | the file of targets: written after a query, read by the commands | `MCFindSession`, `FindSessionProofs` |
| `ProtocolFiles`, `FileNames` | the protocol files as bytes; their names, and what each side takes a request for | `FileTransfer` |
| `FileTransfer` | a file that is requested, encoded, transferred and decoded | `StatusReport` |
| `StatusReport` | the status of an upload or download and of each load or file, as the application reports it, on its way to the host | `MCFileTransfer`, `TransferProofs` |

A module `...Proofs` proves about the module of its name and what that is made of:
`UploadSessionProofs` about `UploadCommand` and `UploadSession`, `BatchCommandProofs` about
`BatchCommand` and `UploadFiles`, `FindSessionProofs` about `FindPacket` to `TargetsList`.
`TransferProofs` is about `TftpClient` and `TftpExchange`, and about `FileTransfer` and
`StatusReport` with the files they extend. A module `MC...`
gives the constants their values for TLC; where these are sets of model values the
`.cfg` of the component gives them itself.

### 2.1 The host operations and their commands

A variable stands for the member of the same name: `initialisationOperation` for
`initialisationOperationV`, and so on; each declaration says so. A transfer is
its presence and, once `gracefulAbort` was called, "aborting"; what it moved is
what the completion handler makes of it: failed, undecodable, or a status code.
Timers are two variables. `dlpTimer` is the pending wait, which `cancel` and
`expires_after` take back; `timeoutPosted` is its expiry queued in the
`io_context`, which nothing takes back and which runs with success.

One handler is one step, since handlers run on one thread. A derived operation's
handler is one action that calls the base's: the status file's completion
removes the transfer, calls the command's `status`, which may call `loadList`,
and then restarts the watchdog or finishes, all in `StatusFileCompleted`.
`HostCommand` has one step for what each handler does to the operation and the
process (`StatusReceived`, `OtherRequest`, `TransferOver`, `FinishedByFile` ...);
a command's action is such a step together with what the handler does to the
command's own members.
`start()` is two steps, server and transfer, with other handlers between them.
`finishedCalls` counts the calls of the handler's `finished`; the latch is one
minus that number, and `DoneWaitReturns` is possible only while it is exactly
zero, as `std::latch::wait` tests it.

The environment is the most general one. The target sends any request while the
server listens, in particular before its initialisation file has been read; a
transfer completes at any time with any result; the operator signals at any time.

`InformationCommand` and `DownloadCommand` keep the list transfers in progress besides
the member that points to one of them: a new list file makes the member point
elsewhere, and the completion handler of the old transfer still runs, as it is bound
to the operation and told `Aborted`.

`DownloadCommand` is both download commands, `command` says which; they differ in what
makes them write their one file, the request or the answer (`selections`). A
name that was moved from is the empty one (`Blank`), as the C++ library leaves it.
`DownloadInformation` has one action per method, as each holds the mutex.

`BatchCommand` abstracts an upload to what decides when it calls its handler, since a
batch has one per target: server, initialisation, watchdog, number of status
transfers, abort. A finished operation lives on, as the signals hold it, and its proxy
is replaced: where code touches the destroyed proxy or a null operation, the process
is `undefined` and nothing more is said of it.  `batch` says whether there is a proxy; the
commands of one target are the case without.

`CommandOptions` has one table per constructor: which options there are, which are required
and which may be given more than once. `UploadFiles` follows the command line, a sequence of
parameters, to the bytes a target reads: `execute` refuses bad parameters, takes loads
from a media set of the manager, from directories with its media (ad hoc), from the
directories of load headers, or from a batch file with loads for each target; then
`nextBatchTarget` replaces the loads, `status` lists them, and `fileRequest` looks for a
file (`Answer`). Of several ad hoc directories with the same medium the first counts,
silently. The libraries for media sets are external: a file's content is the part number
of the load it belongs to.

### 2.2 TftpTransfer, TftpClient

`TftpClient` has the retry counter with its width, the current attempt, the wait
timer with its queued handler, and the owner's request and abort. The TFTP
library is external: an attempt completes with any status, and with `Aborted`
only when it was aborted (an aborted attempt may still end otherwise).
`TftpTransfer` is what the owner relies on: the transfer opens, forgives
`dlpRetries` failures, and closes once with an outcome there is a reason for.
The refinement mapping takes the number of failures still forgiven from the
counter, `dlpRetries - retries`; with the largest limit the counter wraps and the
transfer forgives for ever, which the abstract specification knows as not bounded.

`TftpExchange` adds what the packets say: what a client offers for each kind of file,
what a server of version A2 or A4 answers, what the client accepts, and the numbers in
the messages of both sides. A foreign server answers and sends anything. Each kind of file
has its offers (`InitialisationOffers`, `ListOffers`, `UploadFileOffers`,
`DownloadFileOffers`), its answer and its rule for what is accepted.

### 2.3 The target

`TargetOperation` has the status file loop which the four operations have a copy
of. `statusFile` unlocks the status between its encoding and the request of the
transfer, hence it is two steps; the transfer keeps the code in its file and
the code its completion handler is bound to, which may differ. As on the host, an
expired wait is one that is queued and cannot be taken back. `Target` adds the
protocol, the files of each kind of operation, and the application, which uses the io
thread or a thread of its own (`ownThread`); the information operation, which is not
locked, is used from the io thread only.

`UploadSession` composes `UploadCommand` and `Target`: each side takes steps of its own
module, the session says which go together. A status file is a transfer at the host
(`carried`) and one at the target, joined by `peer`; the host may have all of it while
the target fails, and a repeated request makes the host receive it once more. The
abstract `OperationOutcome` is instantiated with what the application declared, what
has arrived at the host, and what each side was told.

### 2.4 FIND

`FindQuery` has the query, its timer and reception with their queued completions, and
the main thread with the write of the file. An exception that leaves a handler is
`crashed`. A handler that runs after the query was destroyed may do anything. The query
still receives when the main thread is woken: an answer that adds to the targets while
they are written (`ReadsTargets`) is a data race, after which the process goes on or ends
with the file torn (`LostInWriting`); one that comes after the write is not in the file.
`saved` is what was written, `heard` what was known when the query was completed.
`FindPacket` has the packet as bytes.

`TargetsList` is about what comes after the process: in each state in which it has ended it
asks what the file holds (`FilesAfterQuery`), whatever was there before (`PreviousFiles`),
and which address a command uses with it (`AddressUsed`). Entries come from the answers in their order or from an operator, with
fields missing; of several with one identifier the first counts; the file overrides the
address option, and a command without any address is refused.

### 2.5 Protocol files

A type of file is a layout, the sequence of its fields; encoding and decoding follow the
layout, so that the order and width of every field is stated once. Lists nest at most
twice (a load configuration list has hardware with parts); each operator of a record
takes the operator for the records of its lists, so that none is recursive. A reader is
a function from bytes to a reading, and fields are read in turn, each from where the one
before has ended (`Readings`). `FileTransfer` sends a file in full, cut short or
extended, with a size that does or does not agree.

Before that the other side is requested to take or to give it under its name. `FileNames`
has the identifier of a target, its check and its text, the split of a name, and the chain
of decisions on each side: `HostTakes` (`checkRequest` and the `tftpRequest` of the
operation) and `TargetTakes` (the protocol, then the `tftpRequest` of the operation). Names
are sequences of characters of an `Alphabet`, since what can go wrong is in their text:
where the point and the underscore are. An initialisation file is requested before it is encoded, all others after.

`StatusReport` lets the application call `accepted`, `inProgress`, `loadAccepted`,
`loadInProgress`, `loadFinished`, `loadsFinished`, their counterparts for files, and
`finished`, in any order, between the status files of one operation; each call, and the
encoding, is one step as it holds the mutex. The file the host decodes is compared with
what was reported, by the code that stands for it (`ReportedCode`), which is not always
the one the program chooses (`FinalCode`): see 3.2.

## 3. The runs

| run | shows | bounds |
|---|---|---|
| `upload_command` | types; `NeverStranded`, `LoadListRequestedOnce`, `FinishedOnlyDrains`; under fairness `AcceptedOperationEnds`, `ProcessEndsUnlessFinishedTwice` | 2 status transfers at a time, 1 data transfer at a time, 4 requests, 3 signals, 1 version; 127,000 states |
| `upload_second_signal` | violated: `SecondSignalStops` | the same |
| `information_command` | types; `NeverStranded`, `InformationDrains`; under fairness `AcceptedOperationEnds` | 2 status and 2 list transfers at a time, 4 requests, 2 signals, 1 version; 74,900 states |
| `download_command` | `NeverStranded`, `RecordAccountsForFiles`, `AnswerNotLost`, `RequestedOnce`; under fairness `AcceptedOperationEnds` | 1 status, 2 list and 2 data transfers at a time, of one file, 3 requests, 2 signals; 668,259 states |
| `download_answer` | violated: `AnswerSelectsFiles` | the same |
| `batch` | `ServesOneTarget`, `CompletedInOrder`, `ListsTheTargetsLoads`, `ServesTheTargetsFiles`; under fairness `BatchEnds` | 18 command lines of the four commands, bad ones among them, 2 media sets of 5 loads, 7 directories, 3 targets, 2 status transfers at a time and 2 requests each, 2 signals; 512,158 states |
| `target` | types; `StatusLoopAlive`, `OutcomeReachedHost`; under fairness `FileOperationFinishedEnds` | 3 requests, lists and abort answers; 317,703 states |
| `target_finished` | violated: `FinishedEnds` | the same |
| `upload_session` | `ImplementsOutcome` (refinement of `OperationOutcome`) | 2 status transfers at the host, 2 requests on each side, 1 signal, `Completed` and two aborted final statuses; 2,971,368 states |
| `tftp_client` | types; `OnePathPending`; `ImplementsTransfer` (refinement of `TftpTransfer`); `NegotiationAgrees`, `MessageUnderstood`; under fairness `TransferEnds` | counter of 4 values, each limit, 3 WAITs of 0, 9, 10 or 65535 s, 2 ports, 12 foreign texts; 206,857 states |
| `find_session` | `ListensUntilDone`, `CompletedOnce`, `AnswersAreTrue`, `FoundTargetReached`; under fairness `QueryEnds` | 2 targets, 2 stray datagrams, 1 signal, 4 previous files, 8 sets of options; 283,622 states |
| `files` | `FileUnchanged`, `LengthMatters`, `FileRecognised`, `StatusTold` | lists of up to 2 records, strings of up to 2 characters and of the longest that fits; 11 identifiers on either side, each operation and type; 5 calls of the application, 2 status files, 2 loads or files, 2 final statuses; 722,749 states |

The bounds. Two status transfers overlap, which is what a second one can disturb; the
requests let both overlap, be refused by an abort and arrive after the outcome; three
signals are an abort and two terminates, the most that differ. The data transfers of an
upload touch no other state, one is enough; of a download, two of the same file share an
entry of the record. Of the lists, one replaces another; a third would only replace again. A
counter of four values has limits below its largest value, at it, and wraps. Of three
targets of a batch one is first, one in the middle and one last. The target's three requests
are a file that replaces another and an abort answer. The identifiers have the least and the
largest sizes, one more and one less, and the characters that the split looks for. Five
calls of the application accept two loads, report one of them twice and end the operation.
In the session the status transfers are symmetric, as it has no liveness; no other run uses
symmetry. `CHECK_DEADLOCK FALSE`: process, transfer, operation and file really stop.

### 3.1 Fairness

The commands: both threads are scheduled (weak fairness of `MainThread`, and of the
handler of an expired timer), and a running timer expires. Nothing is assumed of
the operator, of the target's requests, or of any transfer, whoever began it: the
target may stop in the middle of one, or defer the initialisation with WAIT again
and again. The watchdog does not run before the initialisation file has been read,
hence `AcceptedOperationEnds` starts at the acceptance. `MaxRequests` is the target
that goes quiet: with a target that sends status files for ever the operation
rightly does not end. The batch: the main thread is scheduled, and a started upload is
told an outcome, which is what `AcceptedOperationEnds` shows of it.
`TftpClient`: attempts end, timers expire and queued handlers run;
`MaxWaits` is the peer that becomes ready. The target: its threads are scheduled, its timer
expires, and a status transfer that is left alone is completed or fails (weak fairness,
which a transfer that the next one replaces does not break). Nothing says that one is left
alone: the period of the status has no lower bound, a transfer to a silent host takes
several timeouts to fail, and each expiry replaces it (UploadOperationImpl.cpp:306). What
is claimed of a finished operation therefore excludes exactly the behaviours in which a
status transfer is replaced again and again (`AlwaysReplaced`).
FIND: the threads and timers, and no datagram. The session and the files have no liveness.

### 3.2 What the documentation says and the code does not do

- `SecondSignalStops`. README.md:207, "A second `Ctrl-C` terminates hard." A terminate
  calls `finished`; so does the initialisation it aborts, the next terminate, or a
  status transfer. When a second call precedes the main thread's look at the latch,
  the latch is below zero and the process does not end. `docs/CODE-TRACE.md` notes
  the double call.
- `AnswerSelectsFiles`. docs/CODE-TRACE.md:592, the answer "intersects the
  advertisement with the `--file` values". The first answer moves the values
  away; a second list is answered with blank names.
- `FinishedEnds`. target/Operation.hpp:84, "When the status file has been transmitted,
  the operation completes." An information operation finished from within the handler
  of its first status overwrites the final status with in progress.

Met while modelling, and part of the models, without a run of their own:

- `statusCode(FinalStatus)` (StatusCode.cpp:26-48) has no case for
  `LoadPartNumberOrDownloadFileFailed`, which Arinc615a.hpp:177 and 232 reserve for the
  status of a single load or file: one that ends with it is told as aborted by the target's
  hardware, although `finalStatus` maps the code back (`FinalStatusOfCode`). `StatusTold`
  therefore asks of such a file only that the host reads that it has failed (`Tells`).
- A status is encoded under the mutex of the target's operation and copied for the handler
  after its release: with an application that has a thread of its own, a final status set
  in between is told as transmitted with a file that does not say it. `OutcomeReachedHost`
  is about an application on the io thread.
- A first signal before the operation is connected (while the command line is parsed or
  directories are read) aborts nothing but is counted; the next one terminates the
  operation, whose target is never told of an abort.
- The server listens before the initialisation file is read; an accepted status that
  comes first makes the host write the load list, with the default version.
- `terminate` cancels no status transfer; its completion can still begin the load list.
- A list that was replaced completes with `Aborted` all the same, which ends an
  information operation that has no status, and aborts a download.
- A refused read request is also served: the `return` after the error answer is
  missing, as `docs/CODE-TRACE.md` notes.
- An abort between two attempts of a TFTP client cancels the wait timer; if the expiry is
  queued, the next attempt starts nevertheless.
- A client ignores an invalid checksum option of an answer, which CODE-TRACE.md:691
  calls a failure; without an option handler it refuses every option, while
  tftp/clients/Operation.hpp:115 says it accepts all.
- A stopped FIND server goes on receiving, each time with an error at once, for ever.
- A string of 254 characters is refused, although `String.hpp` says "<255"; an empty or
  short load configuration list is refused for its minimum size.
- A list that comes after the answer was sent gets none
  (OperatorDefinedDownloadOperationImpl.cpp:114); `AnswerNotLost` promises one answer only.
- An answer that a FIND query handles after the file was written is reported and not saved.
- A request or answer file that cannot be used ends the target's operation while its loads
  or files are still told as accepted or in progress; accepting a load twice lists it twice,
  and later reports reach the first entry only. `StatusTold` assumes an application that
  accepts once and ends the operation when its loads have ended.
- The host judges a name whose identifier is not well formed by the extension alone, and so
  takes such a file from any target. It checks names and never addresses; the target checks
  the address of who writes its request or answer file, but anyone may begin an operation.
- A query that finds nothing leaves the old file of targets as it was.

Every property of a passing run is violated by at least one plausible bug of the code,
named next to the definition it replaces (`... Bug: ...`).

## 4. The proofs

TLAPS checks these for all values of the constants, from these assumptions, which TLC
evaluates for the constants of the runs:

- `HostAssumption`, `CommandAssumption`, `UploadAssumption`, `InformationAssumption`,
  `ListAssumption`, `NamesAssumption`, `DownloadAssumption`: finite sets of transfers, natural
  bounds, a `NoList` that is no list, a blank that is no name.
- `ClientAssumption`: a counter with at least one value. `OptionsAssumption`: an option that
  is missing or cannot be read is no value of it. `MessagesAssumption`: a WAIT time fits its
  16 bits, and what a foreign server sends is a text.
- `TargetAssumption`: the application's codes. `SessionAssumption`: the final statuses of
  the session's application are final statuses, `NoFile` is no transfer.
- `BatchAssumption`: targets are numbers, in their order. `FilesAssumption`: a batch file
  lists loads of its media set for each target. `LibraryAssumption` is what the media set
  libraries answer for: part numbers are unique, a managed media set has the files its loads
  name, and so have the directories and load headers of an accepted command line. That is
  the integrity check of `execute`, on unless the operator turns it off.
- `FindAssumption`: a number of signals, and whether there is a file to write. `DatagramsAssumption`: the strings of a target's
  identification hold no terminator, and a node that is no target sends no whole answer; an
  answer has no proof of its sender, who answers is a target. `FileAssumption`: a file of
  targets has a sequence of entries, of any content.
- `AlphabetAssumption`: letters, digits, the underscore and the point are characters of
  names. `ContentsAssumption`: a file holds what its C++ members can hold, field by field
  of its layout, strings without a zero, and a peer fills up with zeros, spaces or "0".
  `RequestsAssumption`: a request reaches a host or a target, in one of the operations or
  none. `SizeAssumption`: files, and what a transfer adds, are below 2^32 bytes, as the
  `static_cast<uint32_t>` of the size takes for granted. `ReportAssumption`: ratios are
  at most 100, strings hold no zero, and a file that begins empty is a status file.

The commands are proved in two layers. `HostCommandProofs` has the step lemmas for
`HostStep`, whatever command runs the operation. The upload adds nothing to the
operation's members, so that `Spec => HostCommandSpec` carries the theorems over.
A download, too, only takes steps of `HostCommand`: its lists and its file end the operation
by an abort. The information command has steps of its own, the completion of a list, so
that its invariants are proved anew, with the lemmas for the steps that are `HostStep`.

| theorem | states | argument |
|---|---|---|
| `HostCommandTypes` | `HostCommandSpec => []HostCommandTypeOK` | one step per action; flags and other values are separate invariants |
| `HostCommandNeverStranded` | `HostCommandSpec => []NeverStranded` | inductive with the types: whichever action takes away the initialisation, the wait or the queued expiry either puts another in its place or calls `finished` |
| `HostCommandDrains` | `HostCommandSpec => FinishedOnlyDrains` | on each step the number of calls and of what is outstanding are compared; a status file that restarts the watchdog pays with its own removal, so cardinalities of the finite set of transfers are needed |
| `UploadIsHostCommand` | `Spec => HostCommandSpec` | every action of the upload is a step of `HostCommand` or leaves its variables as they are |
| `UploadTypes`, `UploadNeverStranded`, `UploadDrains` | the same three of the upload | by `UploadIsHostCommand` |
| `SessionIsUploadCommand`, `SessionIsTarget` | `SessionSpec => Spec` of either side | every step of the session is a step of the module of that side, or leaves its variables; so all that is proved of one side alone holds in a session |
| `SessionGoesOn` | `SessionSpec => [](NeverStranded /\ StatusLoopAlive)` | by the two above: while a session has no outcome, host and target both have something to come |
| `SessionImplementsOutcome` | `SessionSpec => ImplementsOutcome` | four invariants, each from the one before. `TargetInv`: the file of a status and its end hold one code, as the application uses the io thread. `NetworkInv`: what the target's client sends is what its peer receives, and what is acknowledged has been received. `ResultInv`: a status that only an application declares is the declared one, wherever it is, on the way included; a failure may also be the target's own. `ToldInv`: once a final status has been received the host has told an outcome. Then every action maps to a step of `OperationOutcome` or a stutter |
| `UploadLoadListOnce` | `Spec => []LoadListRequestedOnce` | not inductive by itself: `LoadListInv` adds that no list was requested while the command's flag is down, and at most one when it is up |
| `InformationTypes`, `InformationNeverStranded` | `Spec => []TypeOK`, `Spec => []NeverStranded` | a list that ends the operation is counted, one that does not starts the watchdog |
| `InformationOnlyDrains` | `Spec => InformationDrains` | a list may add one call or one running watchdog, and is itself removed |
| `DownloadIsHostCommand`, `DownloadTypes`, `DownloadNeverStranded` | the same of the downloads | as for the upload; the record and the lists are typed separately |
| `DownloadRecordAccounts` | `Spec => []RecordAccountsForFiles` | inductive with the types: a transfer begins and ends with the entry of its file |
| `DownloadAnswerNotLost` | `Spec => []AnswerNotLost` | a transfer of the answer ends with the answer sent, with an abort, or replaced by the next; an abort is told or goes on |
| `DownloadRequestedOnce` | `Spec => []RequestedOnce` | strengthened by the command's flag: while it is down nothing has been requested or recorded |
| `FinalStatusOfCode` | `FinalStatus(StatusCode(f))` is `f` or an abort by the target's hardware | by cases |
| `TargetTypes` | `Spec => []TypeOK` of the target | one step per action, for all codes the application may use |
| `TargetStatusLoop` | `Spec => []StatusLoopAlive` | inductive with the types |
| `TargetOutcomeReachedHost` | `Spec => []OutcomeReachedHost` | strengthened: without a thread of its own, the file holds the code its completion is bound to |
| `ClientTypes` | `Spec => []TypeOK` of the client | the counter's modulus |
| `ClientOnePathPending` | `Spec => []OnePathPending` | inductive with the types |
| `ClientImplementsTransfer` | `Spec => ImplementsTransfer` | `Inv` adds to the path that the counter does not exceed the limit before the outcome; every action maps to a step of `TftpTransfer` or leaves its variables as they are |
| `ExchangeIsClient`, `ExchangeImplementsTransfer` | `ExchangeSpec => FairSpec`, `ExchangeSpec => ImplementsTransfer` | an exchange only adds what the packets say |
| `ExchangeTypes` | `ExchangeSpec => []ExchangeTypeOK` | options and numbers stay in their ranges, whatever a foreign server sends |
| `ExchangeNegotiationAgrees` | `ExchangeSpec => []NegotiationAgrees` | what an own server answers is accepted and kept by the packet, for every option of every kind of file; of an attempt under way, the answer belongs to its offer |
| `ExchangeMessageUnderstood` | `ExchangeSpec => []MessageUnderstood` | a number that is written in decimal or hexadecimal digits is read back: `WaitTimeRead`, `AbortCodeRead`, from lemmas about the longest run of digits (`LeadingDigits...`) and about quotients |
| `BatchServesOneTarget` | `Spec => []ServesOneTarget` | strengthened: a server that runs is the proxy's, and a call of any other operation's handler leaves the model's defined behaviour; so the call that begins the next target stops the only server there was |
| `BatchCompletedInOrder` | `Spec => []CompletedInOrder` | the targets begun come before the others and leave no gap, the proxy's is the last of them and has no outcome yet; the minimum of a set of targets exists because `<` is well founded on `Nat` |
| `FilesAreBatch` | `FilesSpec => Spec` | choosing and serving files leaves the batch as it is |
| `FilesListTheTargetsLoads` | `FilesSpec => []ListsTheTargetsLoads` | `FilesInv`: while there is a proxy, loads and directories are those of the command line and of the proxy's target; a list that was sent is of the loads of the target it was sent to, also after the next target replaced them |
| `FilesServeTheTargetsFiles` | `FilesSpec => []ServesTheTargetsFiles` | with `FilesInv` and `BatchInv`: the target whose server runs is the proxy's, and each file of its loads is in one of the directories, by command: managed media set, first ad hoc directory of the medium, or the header's own |
| `FindListens` | `Spec => []ListensUntilDone` | `SetUp`: socket, reception and timer, in the order `start()` sets them up, stay until the completion; a reception that ends is the one whose handler starts the next |
| `FindCompletedOnce` | `Spec => []CompletedOnce` | calls, and what can still complete without a signal (`ToComplete`), are at most one more than the signals; `TimerCompletes`: without a signal only the timer's handler completes, and the timer is there exactly as long as the query is not complete |
| `FindAnswersAreTrue` | `Spec => []AnswersAreTrue` | `FoundInv`, in three parts: a target has sent its own answer only, what the query receives is a stray datagram or what the sender sent, what it found is what that target is. The codec lemma `DecodedIsEncoded`: a packet of any number of strings of any length without a terminator is decoded to these strings |
| `FindReachesFoundTarget` | `Spec => []FoundTargetReached` | by `Finding`, and since an entry is read as it was written (`PropertiesKept`): the entries with an identifier are those of the targets that answered under it (`WrittenEntries`). `Saving`: what was known at the completion is in what was written, as the file is written after it, and no completion is the first one by then |
| `ReportInvariant` | `ReportSpec => []ReportInv` | `FileInv`: what was encoded, arrived and decoded are functions of the file, its name and the transfer. Besides, a file that was whole from the beginning never changes (`WholeFile`), or it is a status file that holds the list as it was when it was encoded, and the list has each reported name once, with its last code (`StatusFiled`). The four properties look at bytes that an earlier step has made, hence none is inductive by itself |
| `FilesAreUnchanged` | `ReportSpec => []FileUnchanged` | `Decoded`: a file of any layout is read back. Of each kind of field, whatever follows it (`Reads`), of fields in turn (`InTurnReads`), hence of a record, a list and a list within a list; strings filled up to any length and ratios filled up with any space included |
| `LengthsMatter` | `ReportSpec => []LengthMatters` | a file that arrives with its own header is refused by the size in it (`ShorterRefused`, `LongerRefused`); one whose header counts what arrives, because no file is the beginning of another one (`BodyRefused`, `FileNoBeginning`): a reader reads longer bytes the same and leaves what was added (`Extends`) |
| `FilesAreRecognised` | `ReportSpec => []FileRecognised` | `NameRead`: the first point and the first underscore split a name where it was put together, as identifiers have neither; extensions are distinct; then by side, operation and type |
| `StatusesAreTold` | `ReportSpec => []StatusTold` | by `ReportInv` and `Decoded`. The list is as long as there are names by a bijection; `StatusFileLong`: no status file is below its minimum size |

The packet of FIND, the numbers of the TFTP messages and the protocol files (fields in turn,
and `FlattenSeq`) are read and written by recursive functions, and their lemmas are inductions over lengths and numbers. The induction
theorems of the library have an operator parameter, which the provers cannot instantiate;
instead the counterexamples are a set, which has a least element because `<` is well founded on
`Nat`, and the least one is none (`AllNumbers`). That such a function is what its
definition says needs the same argument, for its graph.

Only model-checked, because TLAPS has no fairness reasoning here:
`AcceptedOperationEnds`, `ProcessEndsUnlessFinishedTwice`, `TransferEnds`,
`FileOperationFinishedEnds`, `BatchEnds`, `QueryEnds`. Every invariant and every action
property of the passing runs is a theorem.

## 5. Abstractions and what is not modelled

- Formatting, logging and statistics are left out. File contents are what the
  handler decodes from them.
- A stopped server hands over no more requests; transfers it has begun go on.
- Timer errors other than `operation_aborted` do not occur.
- The torn access to `initialisationOperationV` by the two threads in `start()` is
  not modelled, only the order of the steps. An abort in this window misses the transfer
  and is told with the next status file.
- A transfer that replaces another destroys its client, whose destructor aborts the attempt
  (tftp/clients/implementation/OperationImpl.cpp:99). Whether the TFTP library then calls
  the handler, and whether before or after the new transfer began, is not in this
  repository. In the models a transfer that was dropped for the next one tells nothing
  (the target's status, the host's request and answer), so that an operation that would be
  ended by such a late `Aborted` is not covered.
- `catch` clauses of handlers are modelled where a call in their `try` can raise
  what they catch: decoding a file. Setting up a transfer on the server raises no
  `Arinc615aException`.
- The application on the target ends an operation once and calls nothing after that.
- A command reads the file of targets after the query that wrote it has ended; a reading
  while it is written, which tears it, is not modelled. Calls of the application while a
  status file is on its way do not reach that file and are left out.
- Not modelled: a FIND server that is started again; network errors of its answers;
  assigning bytes to an existing file object, which no code does; property trees and
  configuration files; the options of the TFTP library, abbreviated options, and the short
  `-l` that every command declares twice, for `log-level` and for `targets-list`; the
  conversion of a data file's name into a path (`normaliseFilename`), the part number and
  check value of data files beyond their negotiation; statistics; build and scripts.

## 6. Plan

What is left, in the order of what it would add: the session of a download, as
`UploadSession` is of an upload; the restart of a FIND server; paths of downloaded files.
