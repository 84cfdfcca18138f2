---------------------- MODULE InformationCommandProofs ----------------------
(***************************************************************************)
(* Theorems about InformationCommand, for every set of versions, status    *)
(* and list transfers and every number of requests and signals.            *)
(***************************************************************************)
EXTENDS InformationCommand, HostCommandProofs

(***************************************************************************)
(* A step of the information command is a step of HostCommand, unless a    *)
(* list has completed and ends the operation or restarts its watchdog.     *)
(***************************************************************************)

ListStep == FinishedByFile \/ WatchedByFile

LEMMA InformationStep == [Next]_vars => [HostStep]_hostCommandVars \/ ListStep
<1> SUFFICES ASSUME [Next]_vars
             PROVE  [HostStep]_hostCommandVars \/ ListStep
  OBVIOUS
<1> USE DEF HostStep, IoThreadStep
<1>1. CASE MainThread
  BY <1>1 DEF MainThread, MainThreadStep
<1>2. CASE Signals \/ Initialisation \/ InformationTimer \/ InformationTimeout
  BY <1>2 DEF Signals, Initialisation, InformationTimer, InformationTimeout
<1>3. CASE StatusFileRequested \/ OtherFileRequested
  BY <1>3 DEF StatusFileRequested, OtherFileRequested, informationVars
<1>4. ASSUME NEW file \in StatusFiles, StatusFileCompleted(file)
      PROVE  HostStep
  <2>1. RunningCodes \subseteq StatusCodes
    BY DEF StatusCodes
  <2> QED
    BY <1>4, <2>1 DEF StatusFileCompleted
<1>5. ASSUME NEW list \in ListFiles, ListFileRequested(list) \/ ListFileCompleted(list)
      PROVE  [HostStep]_hostCommandVars \/ ListStep
  BY <1>5 DEF ListFileRequested, ListFileCompleted, ListReceived, ListLost, ListStep,
              AbortReasons
<1>6. CASE UNCHANGED vars
  BY <1>6 DEF vars
<1> QED
  BY <1>1, <1>2, <1>3, <1>4, <1>5, <1>6 DEF Next

(***************************************************************************)
(* Type correctness.                                                       *)
(***************************************************************************)

LEMMA HostFlagsStep == Flags /\ [Next]_vars => Flags'
<1>1. Flags /\ ListStep => Flags'
  BY DEF Flags, ListStep, FinishedByFile, WatchedByFile, InIoThread, processVars,
         Finished, TriggerDlpTimeout
<1> QED
  BY <1>1, InformationStep, FlagsStep

LEMMA HostValuesStep == Values /\ [Next]_vars => Values'
<1>1. Values /\ ListStep => Values'
  BY DEF Values, ListStep, FinishedByFile, WatchedByFile, InIoThread, processVars,
         Finished, TriggerDlpTimeout
<1> QED
  BY <1>1, InformationStep, ValuesStep

Lists ==
  /\ listFileOperation \in listTransfers \cup {NoList}
  /\ listTransfers \in SUBSET ListFiles

LEMMA ListsStep == Lists /\ [Next]_vars => Lists'
<1> SUFFICES ASSUME Lists, [Next]_vars
             PROVE  Lists'
  OBVIOUS
<1> USE DEF Lists, informationVars
<1>1. CASE MainThread
  BY <1>1 DEF MainThread, Start
<1>2. CASE Signals \/ Initialisation \/ InformationTimer \/ InformationTimeout
  BY <1>2 DEF Signals, Initialisation, InformationTimer, InformationTimeout
<1>3. CASE StatusFileRequested \/ OtherFileRequested
  BY <1>3 DEF StatusFileRequested, OtherFileRequested, informationVars
<1>4. ASSUME NEW file \in StatusFiles, StatusFileCompleted(file)
      PROVE  Lists'
  BY <1>4 DEF StatusFileCompleted, AwaitFinalStatus
<1>5. ASSUME NEW list \in ListFiles, ListFileRequested(list)
      PROVE  Lists'
  BY <1>5 DEF ListFileRequested, ListFileRequest
<1>6. ASSUME NEW list \in ListFiles, ListFileCompleted(list)
      PROVE  Lists'
  BY <1>6 DEF ListFileCompleted, ListFileOver
<1>7. CASE UNCHANGED vars
  BY <1>7 DEF vars
<1> QED
  BY <1>1, <1>2, <1>3, <1>4, <1>5, <1>6, <1>7 DEF Next

Awaiting == waitForFinalStatus \in BOOLEAN

LEMMA AwaitingStep == Awaiting /\ [Next]_vars => Awaiting'
BY DEF Awaiting, Next, MainThread, Start, Signals, Initialisation,
       InformationTimer, InformationTimeout, StatusFileRequested,
       OtherFileRequested, StatusFileCompleted, AwaitFinalStatus,
       ListFileRequested, ListFileRequest, ListFileCompleted, ListFileOver,
       vars, informationVars

(* Every step of the two threads, the operator and the target keeps the    *)
(* types; in particular the member that points to the list transfer never  *)
(* points to one that has completed.                                       *)
THEOREM InformationTypes == Spec => []TypeOK
<1>1. Init => Flags /\ Values
  BY FlagsInit, ValuesInit DEF Init
<1>2. Init => Lists
  BY DEF Init, InformationInit, Lists
<1>3. Init => Awaiting
  BY DEF Init, InformationInit, Awaiting
<1>4. Flags /\ Values /\ Lists /\ Awaiting => TypeOK
  BY TypeParts, Zenon DEF TypeOK, InformationTypeOK, Lists, Awaiting
<1> QED
  BY <1>1, <1>2, <1>3, <1>4, HostFlagsStep, HostValuesStep, ListsStep, AwaitingStep,
     PTL DEF Spec

(***************************************************************************)
(* A list that ends the operation is counted, one that does not starts the *)
(* watchdog: neither leaves the command stranded.                          *)
(***************************************************************************)

(* The information command never blocks on its latch with nothing left     *)
(* that would wake it, in whatever order lists and status files arrive.    *)
THEOREM InformationNeverStranded == Spec => []NeverStranded
<1>1. TypeOK => finishedCalls \in Nat
  BY TypeParts DEF TypeOK, Values
<1>2. finishedCalls \in Nat /\ ListStep => NeverStranded'
  BY FinishedCounts
     DEF ListStep, FinishedByFile, WatchedByFile, TriggerDlpTimeout, NeverStranded
<1>3. TypeOK /\ NeverStranded /\ [Next]_vars => NeverStranded'
  BY <1>1, <1>2, InformationStep, NeverStrandedStep
<1>4. Init => NeverStranded
  BY NeverStrandedInit DEF Init
<1> QED
  BY <1>3, <1>4, InformationTypes, PTL DEF Spec

(***************************************************************************)
(* Draining, with the lists among what is outstanding: a list may call     *)
(* finished or start the watchdog once, and pays for it by its removal.    *)
(***************************************************************************)

LEMMA OutstandingIsInt == Values => Outstanding \in Int /\ finishedCalls \in Nat
<1> SUFFICES ASSUME Values
             PROVE  Outstanding \in Int /\ finishedCalls \in Nat
  OBVIOUS
<1>1. PICK t \in Nat, i \in Nat, a \in Nat, p \in Nat, s \in Nat :
        Outstanding = t + i + a + p + (MaxSignals - s)
  BY NumbersHold DEF Numbers
<1> QED
  BY <1>1, CommandAssumption, NumbersHold DEF CommandAssumption, Numbers

LEMMA ListStepDrains ==
  Values /\ Values' /\ ListStep
    => finishedCalls' + Outstanding' <= finishedCalls + Outstanding + 1
<1>0. SUFFICES ASSUME Values, Values', ListStep
               PROVE  finishedCalls' + Outstanding' <= finishedCalls + Outstanding + 1
  OBVIOUS
<1>1. PICK c \in Nat, t \in Nat, i \in Nat, a \in Nat, p \in Nat, s \in Nat :
        /\ c = finishedCalls /\ t = Transfers /\ i = Initialising
        /\ a = Armed /\ p = Posted /\ s = signals
        /\ Outstanding = t + i + a + p + (MaxSignals - s)
  BY <1>0, NumbersHold DEF Numbers
<1>2. PICK c2 \in Nat, a2 \in Nat :
        /\ c2 = finishedCalls' /\ a2 = Armed' /\ a2 <= 1
        /\ Outstanding' = t + i + a2 + p + (MaxSignals - s)
  <2>1. Values' => Numbers'
    BY NumbersHold, PTL
  <2>2. Transfers' = t /\ Initialising' = i /\ Posted' = p /\ signals' = s
    BY <1>0, <1>1 DEF ListStep, FinishedByFile, WatchedByFile, InIoThread,
                      processVars, Transfers, Initialising, Posted
  <2> QED
    BY <1>0, <2>1, <2>2 DEF Numbers
<1>3. c2 + a2 <= c + a + 1
  <2>1. CASE FinishedByFile
    <3>1. c2 = c + 1
      BY <1>1, <1>2, <2>1 DEF FinishedByFile, Finished
    <3>2. a2 = 0
      BY <1>2, <2>1, OneValues DEF FinishedByFile, Finished, Armed
    <3> QED
      BY <3>1, <3>2
  <2>2. CASE WatchedByFile
    <3>1. c2 = c
      BY <1>1, <1>2, <2>2 DEF WatchedByFile
    <3>2. a2 <= 1
      BY <1>2
    <3> QED
      BY <3>1, <3>2
  <2> QED
    BY <1>0, <2>1, <2>2 DEF ListStep
<1>4. c2 + (t + i + a2 + p + (MaxSignals - s))
        <= c + (t + i + a + p + (MaxSignals - s)) + 1
  BY <1>3, CommandAssumption DEF CommandAssumption
<1> QED
  BY <1>1, <1>2, <1>4

(* A step removes a list, or leaves the lists alone: a stopped server      *)
(* hands over no request for a new one.                                    *)
LEMMA ListsAfterStop ==
  ASSUME [Next]_vars, ~tftpServer
  PROVE  \/ UNCHANGED listTransfers /\ [HostStep]_hostCommandVars
         \/ \E list \in listTransfers :
              /\ listTransfers' = listTransfers \ {list}
              /\ ListStep \/ [HostStep]_hostCommandVars
<1> USE DEF HostStep, IoThreadStep
<1>1. CASE MainThread
  BY <1>1 DEF MainThread, MainThreadStep, Start, informationVars
<1>2. CASE Signals \/ Initialisation \/ InformationTimer \/ InformationTimeout
  BY <1>2 DEF Signals, Initialisation, InformationTimer, InformationTimeout,
              informationVars
<1>3. CASE StatusFileRequested \/ OtherFileRequested
  BY <1>3 DEF StatusFileRequested, OtherFileRequested, informationVars
<1>4. ASSUME NEW file \in StatusFiles, StatusFileCompleted(file)
      PROVE  UNCHANGED listTransfers /\ [HostStep]_hostCommandVars
  <2>1. RunningCodes \subseteq StatusCodes
    BY DEF StatusCodes
  <2> QED
    BY <1>4, <2>1 DEF StatusFileCompleted, AwaitFinalStatus, informationVars
<1>5. ASSUME NEW list \in ListFiles
      PROVE  ~ListFileRequested(list)
  BY DEF ListFileRequested, OtherRequest, ReceivedTftpRequest
<1>6. ASSUME NEW list \in ListFiles, ListFileCompleted(list)
      PROVE  /\ list \in listTransfers
             /\ listTransfers' = listTransfers \ {list}
             /\ ListStep \/ [HostStep]_hostCommandVars
  BY <1>6 DEF ListFileCompleted, ListFileOver, ListReceived, ListLost, ListStep,
              AbortReasons
<1>7. CASE UNCHANGED vars
  BY <1>7 DEF vars, informationVars
<1> QED
  BY <1>1, <1>2, <1>3, <1>4, <1>5, <1>6, <1>7 DEF Next

LEMMA InformationDrainsStep ==
  /\ Values /\ Values' /\ Lists /\ [Next]_vars /\ Draining
  => finishedCalls' + InformationOutstanding' <= finishedCalls + InformationOutstanding
<1>0. SUFFICES ASSUME Values, Values', Lists, [Next]_vars, Draining
               PROVE  finishedCalls' + InformationOutstanding'
                        <= finishedCalls + InformationOutstanding
  OBVIOUS
<1>1. IsFiniteSet(listTransfers)
  BY <1>0, ListAssumption, FS_Subset DEF ListAssumption, Lists
<1>2. PICK c \in Nat, o \in Int, l \in Nat :
        c = finishedCalls /\ o = Outstanding /\ l = Cardinality(listTransfers)
  BY <1>0, <1>1, OutstandingIsInt, FS_CardinalityType
<1>3. PICK c2 \in Nat, o2 \in Int : c2 = finishedCalls' /\ o2 = Outstanding'
  <2>1. Values' => (Outstanding \in Int /\ finishedCalls \in Nat)'
    BY OutstandingIsInt, PTL
  <2> QED
    BY <1>0, <2>1
<1>4. [HostStep]_hostCommandVars => c2 + o2 <= c + o
  BY <1>0, <1>2, <1>3, DrainsStep DEF Draining, Drains
<1>5. ListStep => c2 + o2 <= c + o + 1
  BY <1>0, <1>2, <1>3, ListStepDrains
<1>6. CASE UNCHANGED listTransfers /\ [HostStep]_hostCommandVars
  <2>1. c2 + (o2 + l) <= c + (o + l)
    BY <1>4, <1>6
  <2> QED
    BY <1>2, <1>3, <1>6, <2>1 DEF InformationOutstanding
<1>7. ASSUME NEW list \in listTransfers,
             listTransfers' = listTransfers \ {list},
             ListStep \/ [HostStep]_hostCommandVars
      PROVE  finishedCalls' + InformationOutstanding'
               <= finishedCalls + InformationOutstanding
  <2>1. Cardinality(listTransfers') = l - 1
    BY <1>1, <1>2, <1>7, FS_RemoveElement
  <2>2. c2 + (o2 + (l - 1)) <= c + (o + l)
    BY <1>4, <1>5, <1>7
  <2> QED
    BY <1>2, <1>3, <2>1, <2>2 DEF InformationOutstanding
<1> QED
  BY <1>0, <1>6, <1>7, ListsAfterStop DEF Draining

(* After finished, whatever arrives late: calls of finished come only from *)
(* what was pending, lists included, so their number is bounded by it.     *)
THEOREM InformationOnlyDrains == Spec => InformationDrains
<1>1. TypeOK => Values /\ Lists
  BY TypeParts DEF TypeOK, InformationTypeOK, Lists
<1>2. Values /\ [Next]_vars => Values'
  BY HostValuesStep
<1>3. Values /\ Values' /\ Lists /\ [Next]_vars =>
        [Draining => finishedCalls' + InformationOutstanding'
                       <= finishedCalls + InformationOutstanding]_vars
  BY InformationDrainsStep
<1> QED
  BY <1>1, <1>2, <1>3, InformationTypes, PTL DEF Spec, InformationDrains

=============================================================================
