------------------------- MODULE HostCommandProofs -------------------------
(***************************************************************************)
(* Theorems about HostCommand, for every set of versions and transfers and *)
(* every number of requests and signals.  The lemmas about HostStep are    *)
(* what the proofs about each command cite for the steps it shares.        *)
(***************************************************************************)
EXTENDS HostCommand, FiniteSetTheorems, TLAPS

(***************************************************************************)
(* Type correctness.  The members that are flags and the other members are *)
(* two invariants, since no backend reasons well about both at once.       *)
(***************************************************************************)

Flags ==
  /\ dlpTimer \in BOOLEAN
  /\ timeoutPosted \in BOOLEAN
  /\ tftpServer \in BOOLEAN
  /\ abortIndicator \in BOOLEAN

Values ==
  /\ initialisationOperation \in {"none", "active", "aborting"}
  /\ protocolVersion \in Versions \cup {NoVersion}
  /\ abortReason \in AbortReasons
  /\ statusFileOperations \in SUBSET StatusFiles
  /\ requests \in 0..MaxRequests
  /\ abortsSent \in Nat
  /\ finishedCalls \in Nat
  /\ mainThread \in MainThreadStates
  /\ signals \in 0..MaxSignals

LEMMA TypeParts == HostCommandTypeOK <=> Flags /\ Values
BY Zenon DEF HostCommandTypeOK, HostTypeOK, Flags, Values

LEMMA FlagsInit == HostCommandInit => Flags
BY DEF HostCommandInit, HostInit, Flags

LEMMA ValuesInit == HostCommandInit => Values
BY HostAssumption, CommandAssumption
   DEF HostAssumption, CommandAssumption, HostCommandInit, HostInit, Values,
       AbortReasons, MainThreadStates

(* One step per action of the two threads, the operator and the target.    *)
LEMMA FlagsStep == Flags /\ [HostStep]_hostCommandVars => Flags'
<1> SUFFICES ASSUME Flags, [HostStep]_hostCommandVars
             PROVE  Flags'
  OBVIOUS
<1> USE DEF Flags, hostVars, processVars
<1>1. CASE Connect \/ ExecuteThrows \/ DoneWaitReturns \/ ExecuteReturns \/ StopIoContext
  BY <1>1 DEF Connect, ExecuteThrows, DoneWaitReturns, ExecuteReturns, StopIoContext, Goes
<1>2. CASE StartServer
  BY <1>2 DEF StartServer, Goes, InitialiseServer
<1>3. CASE StartRequest
  BY <1>3 DEF StartRequest, Goes, InitialiseRequest
<1>4. CASE AbortSignal
  BY <1>4 DEF AbortSignal, SignalHandled, DoAbort, GracefulAbortInitialisation
<1>5. CASE TerminateSignal
  BY <1>5 DEF TerminateSignal, SignalHandled, DoTerminate,
              GracefulAbortInitialisation, Finished
<1>6. CASE InitialisationFileCompleted
  BY <1>6 DEF InitialisationFileCompleted, InIoThread, InitialisationAccepted,
              InitialisationFailed, TriggerDlpTimeout, Finished
<1>7. CASE TimerExpires
  BY <1>7 DEF TimerExpires, InIoThread, DlpTimerExpires
<1>8. CASE Timeout
  BY <1>8 DEF Timeout, InIoThread, TimerHandler, Finished
<1>9. CASE StatusRequest
  BY <1>9 DEF StatusRequest, InIoThread, StatusFileRefused, StatusFileRequest,
              ReceivedTftpRequest, TriggerDlpTimeout
<1>10. ASSUME NEW file \in StatusFiles, NEW code \in StatusCodes,
              StatusReceived(file, code)
       PROVE  Flags'
  BY <1>10 DEF StatusReceived, InIoThread, StatusFileReceived, RemoveStatusFile,
               Finished, TriggerDlpTimeout
<1>11. ASSUME NEW file \in StatusFiles, StatusLost(file)
       PROVE  Flags'
  BY <1>11 DEF StatusLost, InIoThread, StatusFileFailed, StatusFileUndecodable,
               RemoveStatusFile, Finished
<1>12. CASE OtherRequest
  BY <1>12 DEF OtherRequest, InIoThread, ReceivedTftpRequest
<1>13. CASE \E reason \in AbortReasons : AbortFromWithin(reason)
  BY <1>13 DEF AbortFromWithin, InIoThread, DoAbort, GracefulAbortInitialisation
<1>14. CASE UNCHANGED hostCommandVars
  BY <1>14 DEF hostCommandVars
<1> QED
  BY <1>1, <1>2, <1>3, <1>4, <1>5, <1>6, <1>7, <1>8, <1>9, <1>10, <1>11,
     <1>12, <1>13, <1>14 DEF HostStep, MainThreadStep, IoThreadStep

(* One step per action of the two threads, the operator and the target.    *)
LEMMA ValuesStep == Values /\ [HostStep]_hostCommandVars => Values'
<1> SUFFICES ASSUME Values, [HostStep]_hostCommandVars
             PROVE  Values'
  OBVIOUS
<1> USE HostAssumption, CommandAssumption
    DEF HostAssumption, CommandAssumption, Values, hostVars, processVars,
        AbortReasons, MainThreadStates
<1>1. CASE Connect \/ ExecuteThrows \/ DoneWaitReturns \/ ExecuteReturns \/ StopIoContext
  BY <1>1 DEF Connect, ExecuteThrows, DoneWaitReturns, ExecuteReturns, StopIoContext, Goes
<1>2. CASE StartServer
  BY <1>2 DEF StartServer, Goes, InitialiseServer
<1>3. CASE StartRequest
  BY <1>3 DEF StartRequest, Goes, InitialiseRequest
<1>4. CASE AbortSignal
  BY <1>4 DEF AbortSignal, SignalHandled, DoAbort, GracefulAbortInitialisation
<1>5. CASE TerminateSignal
  BY <1>5 DEF TerminateSignal, SignalHandled, DoTerminate,
              GracefulAbortInitialisation, Finished
<1>6. CASE InitialisationFileCompleted
  BY <1>6 DEF InitialisationFileCompleted, InIoThread, InitialisationAccepted,
              InitialisationFailed, TriggerDlpTimeout, Finished
<1>7. CASE TimerExpires
  BY <1>7 DEF TimerExpires, InIoThread, DlpTimerExpires
<1>8. CASE Timeout
  BY <1>8 DEF Timeout, InIoThread, TimerHandler, Finished
<1>9. CASE StatusRequest
  BY <1>9 DEF StatusRequest, InIoThread, StatusFileRefused, StatusFileRequest,
              ReceivedTftpRequest, TriggerDlpTimeout
<1>10. ASSUME NEW file \in StatusFiles, NEW code \in StatusCodes,
              StatusReceived(file, code)
       PROVE  Values'
  BY <1>10 DEF StatusReceived, InIoThread, StatusFileReceived, RemoveStatusFile,
               Finished, TriggerDlpTimeout
<1>11. ASSUME NEW file \in StatusFiles, StatusLost(file)
       PROVE  Values'
  BY <1>11 DEF StatusLost, InIoThread, StatusFileFailed, StatusFileUndecodable,
               RemoveStatusFile, Finished
<1>12. CASE OtherRequest
  BY <1>12 DEF OtherRequest, InIoThread, ReceivedTftpRequest
<1>13. CASE \E reason \in AbortReasons : AbortFromWithin(reason)
  BY <1>13 DEF AbortFromWithin, InIoThread, DoAbort, GracefulAbortInitialisation
<1>14. CASE UNCHANGED hostCommandVars
  BY <1>14 DEF hostCommandVars
<1> QED
  BY <1>1, <1>2, <1>3, <1>4, <1>5, <1>6, <1>7, <1>8, <1>9, <1>10, <1>11,
     <1>12, <1>13, <1>14 DEF HostStep, MainThreadStep, IoThreadStep

(* Every step of the two threads, the operator and the target keeps the    *)
(* types: no counter leaves its bound, no member an undeclared value.      *)
THEOREM HostCommandTypes == HostCommandSpec => []HostCommandTypeOK
<1>1. Flags /\ Values => HostCommandTypeOK
  BY TypeParts
<1> QED
  BY <1>1, FlagsInit, ValuesInit, FlagsStep, ValuesStep, PTL
     DEF HostCommandSpec

(***************************************************************************)
(* NeverStranded is inductive: finished is the only way out of the         *)
(* initialisation, of the running watchdog and of its queued expiry that   *)
(* leaves none of the others behind, and finished is counted.              *)
(***************************************************************************)

LEMMA FinishedCounts ==
  ASSUME finishedCalls \in Nat, Finished
  PROVE  finishedCalls' # 0
BY DEF Finished

LEMMA NeverStrandedStep ==
  ASSUME finishedCalls \in Nat, NeverStranded, [HostStep]_hostCommandVars
  PROVE  NeverStranded'
<1> USE FinishedCounts DEF NeverStranded, hostVars, processVars
<1>1. CASE Connect \/ ExecuteThrows \/ DoneWaitReturns \/ ExecuteReturns \/ StopIoContext
  BY <1>1 DEF Connect, ExecuteThrows, DoneWaitReturns, ExecuteReturns, StopIoContext, Goes
<1>2. CASE StartServer
  BY <1>2 DEF StartServer, Goes, InitialiseServer
<1>3. CASE StartRequest
  BY <1>3 DEF StartRequest, Goes, InitialiseRequest
<1>4. CASE AbortSignal
  BY <1>4 DEF AbortSignal, SignalHandled, DoAbort, GracefulAbortInitialisation
<1>5. CASE TerminateSignal
  BY <1>5 DEF TerminateSignal, SignalHandled, DoTerminate
<1>6. CASE InitialisationFileCompleted
  BY <1>6 DEF InitialisationFileCompleted, InIoThread, InitialisationAccepted,
              InitialisationFailed, TriggerDlpTimeout
<1>7. CASE TimerExpires
  BY <1>7 DEF TimerExpires, InIoThread, DlpTimerExpires
<1>8. CASE Timeout
  BY <1>8 DEF Timeout, InIoThread, TimerHandler
<1>9. CASE StatusRequest
  BY <1>9 DEF StatusRequest, InIoThread, StatusFileRefused, StatusFileRequest,
              TriggerDlpTimeout
<1>10. ASSUME NEW file \in StatusFiles, NEW code \in StatusCodes,
              StatusReceived(file, code)
       PROVE  NeverStranded'
  BY <1>10 DEF StatusReceived, InIoThread, StatusFileReceived, RemoveStatusFile,
               TriggerDlpTimeout
<1>11. ASSUME NEW file \in StatusFiles, StatusLost(file)
       PROVE  NeverStranded'
  BY <1>11 DEF StatusLost, InIoThread, StatusFileFailed, StatusFileUndecodable,
               RemoveStatusFile
<1>12. CASE OtherRequest
  BY <1>12 DEF OtherRequest, InIoThread
<1>13. CASE \E reason \in AbortReasons : AbortFromWithin(reason)
  BY <1>13 DEF AbortFromWithin, InIoThread, DoAbort, GracefulAbortInitialisation
<1>14. CASE UNCHANGED hostCommandVars
  BY <1>14 DEF hostCommandVars
<1> QED
  BY <1>1, <1>2, <1>3, <1>4, <1>5, <1>6, <1>7, <1>8, <1>9, <1>10, <1>11,
     <1>12, <1>13, <1>14 DEF HostStep, MainThreadStep, IoThreadStep

LEMMA NeverStrandedInit == HostCommandInit => NeverStranded
BY DEF HostCommandInit, NeverStranded

(* A command never blocks on its latch with nothing left that would wake   *)
(* it, for any number of overlapping status files, requests and signals.   *)
THEOREM HostCommandNeverStranded == HostCommandSpec => []NeverStranded
<1>1. HostCommandTypeOK => finishedCalls \in Nat
  BY TypeParts DEF Values
<1>2. HostCommandTypeOK /\ NeverStranded /\ [HostStep]_hostCommandVars
        => NeverStranded'
  BY <1>1, NeverStrandedStep
<1> QED
  BY <1>2, NeverStrandedInit, HostCommandTypes, PTL DEF HostCommandSpec

(***************************************************************************)
(* Draining.  The sum of the calls made and of those still outstanding     *)
(* never rises once the server is stopped.  The terms of the sum before    *)
(* and after a step are named by constants, on which the provers' linear   *)
(* arithmetic works; each kind of step then says which terms it moves.     *)
(***************************************************************************)

Drains == finishedCalls' + Outstanding' <= finishedCalls + Outstanding

Initialising == One(initialisationOperation # "none")
Armed == One(dlpTimer)
Posted == One(timeoutPosted)
Transfers == Cardinality(statusFileOperations)

LEMMA OneValues ==
  ASSUME NEW holds
  PROVE  /\ One(holds) \in Nat
         /\ One(holds) <= 1
         /\ holds => One(holds) = 1
         /\ ~holds => One(holds) = 0
BY DEF One

Numbers ==
  /\ IsFiniteSet(statusFileOperations)
  /\ finishedCalls \in Nat
  /\ Transfers \in Nat
  /\ Initialising \in Nat
  /\ Armed \in Nat /\ Armed <= 1
  /\ Posted \in Nat /\ Posted <= 1
  /\ signals \in Nat
  /\ Outstanding = Transfers + Initialising + Armed + Posted + (MaxSignals - signals)

LEMMA NumbersHold == Values => Numbers
<1> SUFFICES ASSUME Values
             PROVE  Numbers
  OBVIOUS
<1>1. IsFiniteSet(statusFileOperations)
  BY HostAssumption, FS_Subset DEF HostAssumption, Values
<1>2. Transfers \in Nat
  BY <1>1, FS_CardinalityType DEF Transfers
<1>3. finishedCalls \in Nat /\ signals \in Nat
  BY CommandAssumption DEF CommandAssumption, Values
<1>4. Outstanding = Transfers + Initialising + Armed + Posted + (MaxSignals - signals)
  BY DEF Outstanding, Transfers, Initialising, Armed, Posted
<1> QED
  BY <1>1, <1>2, <1>3, <1>4, OneValues
     DEF Numbers, Initialising, Armed, Posted

LEMMA DrainsStep ==
  /\ Values /\ Values' /\ [HostStep]_hostCommandVars
  /\ ~tftpServer /\ mainThread \notin {"connected", "starting"}
  => Drains
<1>0. SUFFICES ASSUME Values, Values', [HostStep]_hostCommandVars, ~tftpServer,
                      mainThread \notin {"connected", "starting"}
               PROVE  Drains
  OBVIOUS
<1>1. PICK c \in Nat, t \in Nat, i \in Nat, a \in Nat, p \in Nat, s \in Nat :
        /\ c = finishedCalls /\ t = Transfers /\ i = Initialising
        /\ a = Armed /\ p = Posted /\ s = signals
        /\ Outstanding = t + i + a + p + (MaxSignals - s)
  BY <1>0, NumbersHold DEF Numbers
<1>2. PICK c2 \in Nat, t2 \in Nat, i2 \in Nat, a2 \in Nat, p2 \in Nat, s2 \in Nat :
        /\ c2 = finishedCalls' /\ t2 = Transfers' /\ i2 = Initialising'
        /\ a2 = Armed' /\ p2 = Posted' /\ s2 = signals'
        /\ Outstanding' = t2 + i2 + a2 + p2 + (MaxSignals - s2)
        /\ a2 <= 1 /\ p2 <= 1
  <2>1. Values' => Numbers'
    BY NumbersHold, PTL
  <2> QED
    BY <1>0, <2>1 DEF Numbers
<1>3. SUFFICES c2 + t2 + i2 + a2 + p2 + s <= c + t + i + a + p + s2
  <2>1. ASSUME c2 + t2 + i2 + a2 + p2 + s <= c + t + i + a + p + s2
        PROVE  c2 + (t2 + i2 + a2 + p2 + (MaxSignals - s2))
                 <= c + (t + i + a + p + (MaxSignals - s))
    BY <2>1, CommandAssumption DEF CommandAssumption
  <2> QED
    BY <1>1, <1>2, <2>1 DEF Drains
<1>4. UNCHANGED statusFileOperations => t2 = t
  BY <1>1, <1>2 DEF Transfers
<1>5. (initialisationOperation' = "none" <=> initialisationOperation = "none")
        => i2 = i
  BY <1>1, <1>2, OneValues DEF Initialising
<1>6. UNCHANGED dlpTimer => a2 = a
  BY <1>1, <1>2 DEF Armed
<1>7. UNCHANGED timeoutPosted => p2 = p
  BY <1>1, <1>2 DEF Posted
<1>8. UNCHANGED finishedCalls => c2 = c
  BY <1>1, <1>2
<1>9. Finished => c2 = c + 1 /\ a2 = 0
  BY <1>1, <1>2, OneValues DEF Finished, Armed
<1>10. UNCHANGED finishedCalls \/ Finished => c2 + a2 <= c + a + 1
  <2>1. Finished => c2 + a2 <= c + a + 1
    BY <1>9
  <2>2. a2 <= a + 1
    BY <1>2
  <2>3. c2 = c => c2 + a2 <= c + a + 1
    BY <2>2
  <2> QED
    BY <1>8, <2>1, <2>3
<1>11. UNCHANGED signals => s2 = s
  BY <1>1, <1>2
<1>12. UNCHANGED hostVars =>
         c2 = c /\ t2 = t /\ i2 = i /\ a2 = a /\ p2 = p
  BY <1>4, <1>5, <1>6, <1>7, <1>8 DEF hostVars
<1>13. CASE MainThreadStep
  <2>1. UNCHANGED <<hostVars, signals>>
    BY <1>0, <1>13 DEF MainThreadStep, Connect, StartServer, StartRequest,
                       ExecuteThrows, DoneWaitReturns, ExecuteReturns, StopIoContext, Goes
  <2> QED
    BY <1>11, <1>12, <2>1
<1>14. CASE AbortSignal \/ \E reason \in AbortReasons : AbortFromWithin(reason)
  <2>1. /\ initialisationOperation' = "none" <=> initialisationOperation = "none"
        /\ UNCHANGED <<statusFileOperations, dlpTimer, timeoutPosted, finishedCalls>>
    BY <1>14 DEF AbortSignal, AbortFromWithin, DoAbort,
                 GracefulAbortInitialisation, hostVars
  <2>2. s2 = s \/ s2 = s + 1
    BY <1>1, <1>2, <1>14
       DEF AbortSignal, SignalHandled, AbortFromWithin, InIoThread, processVars
  <2>3. t2 = t /\ i2 = i /\ a2 = a /\ p2 = p /\ c2 = c
    BY <1>4, <1>5, <1>6, <1>7, <1>8, <2>1
  <2> QED
    BY <2>2, <2>3
<1>15. CASE TerminateSignal
  <2>1. s2 = s + 1
    BY <1>1, <1>2, <1>15 DEF TerminateSignal, SignalHandled
  <2>2. CASE Connected
    <3>1. /\ Finished
          /\ initialisationOperation' = "none" <=> initialisationOperation = "none"
          /\ UNCHANGED <<statusFileOperations, timeoutPosted>>
      BY <1>15, <2>2 DEF TerminateSignal, DoTerminate,
                         GracefulAbortInitialisation
    <3>2. c2 + a2 <= c + a + 1 /\ t2 = t /\ i2 = i /\ p2 = p
      BY <1>4, <1>5, <1>7, <1>10, <3>1
    <3> QED
      BY <2>1, <3>2
  <2>3. CASE ~Connected
    <3>1. UNCHANGED hostVars
      BY <1>15, <2>3 DEF TerminateSignal
    <3> QED
      BY <1>12, <2>1, <3>1
  <2> QED
    BY <2>2, <2>3
<1>16. CASE InitialisationFileCompleted
  <2>1. i = 1 /\ i2 = 0
    BY <1>1, <1>2, <1>16, OneValues
       DEF InitialisationFileCompleted, InitialisationAccepted,
           InitialisationFailed, Initialising
  <2>2. /\ UNCHANGED <<statusFileOperations, timeoutPosted, signals>>
        /\ UNCHANGED finishedCalls \/ Finished
    BY <1>16 DEF InitialisationFileCompleted, InIoThread,
                 InitialisationAccepted, InitialisationFailed, processVars
  <2>3. c2 + a2 <= c + a + 1 /\ t2 = t /\ p2 = p /\ s2 = s
    BY <1>4, <1>7, <1>10, <1>11, <2>2
  <2> QED
    BY <2>1, <2>3
<1>17. CASE TimerExpires
  <2>1. a = 1
    BY <1>1, <1>17, OneValues DEF TimerExpires, DlpTimerExpires, Armed
  <2>2. a2 = 0
    BY <1>2, <1>17, OneValues DEF TimerExpires, DlpTimerExpires, Armed
  <2>3. UNCHANGED <<initialisationOperation, statusFileOperations,
                    finishedCalls, signals>>
    BY <1>17 DEF TimerExpires, InIoThread, DlpTimerExpires, processVars
  <2>4. c2 = c /\ t2 = t /\ i2 = i /\ s2 = s
    BY <1>4, <1>5, <1>8, <1>11, <2>3
  <2>5. p2 <= p + 1
    BY <1>2
  <2> QED
    BY <2>1, <2>2, <2>4, <2>5
<1>18. CASE Timeout
  <2>1. p = 1
    BY <1>1, <1>18, OneValues DEF Timeout, TimerHandler, Posted
  <2>2. p2 = 0
    BY <1>2, <1>18, OneValues DEF Timeout, TimerHandler, Posted
  <2>3. /\ Finished
        /\ UNCHANGED <<initialisationOperation, statusFileOperations, signals>>
    BY <1>18 DEF Timeout, InIoThread, TimerHandler, processVars
  <2>4. c2 + a2 <= c + a + 1 /\ t2 = t /\ i2 = i /\ s2 = s
    BY <1>4, <1>5, <1>10, <1>11, <2>3
  <2> QED
    BY <2>1, <2>2, <2>4
<1>19. ASSUME NEW file \in StatusFiles,
              StatusLost(file) \/ \E code \in StatusCodes : StatusReceived(file, code)
       PROVE  c2 + t2 + i2 + a2 + p2 + s <= c + t + i + a + p + s2
  <2>1. /\ RemoveStatusFile(file)
        /\ UNCHANGED finishedCalls \/ Finished
        /\ UNCHANGED signals
    BY <1>19 DEF StatusReceived, StatusFileReceived, StatusLost,
                 StatusFileFailed, StatusFileUndecodable, InIoThread, processVars
  <2>2. /\ file \in statusFileOperations
        /\ statusFileOperations' = statusFileOperations \ {file}
        /\ UNCHANGED <<initialisationOperation, timeoutPosted>>
    BY <2>1 DEF RemoveStatusFile
  <2>3. t2 = t - 1
    BY <1>0, <1>1, <1>2, <2>2, NumbersHold, FS_RemoveElement
       DEF Numbers, Transfers
  <2>4. c2 + a2 <= c + a + 1 /\ i2 = i /\ p2 = p /\ s2 = s
    BY <1>5, <1>7, <1>10, <1>11, <2>1, <2>2
  <2> QED
    BY <2>3, <2>4
<1>20. ~StatusRequest /\ ~OtherRequest
  BY <1>0 DEF StatusRequest, StatusFileRefused, StatusFileRequest,
              OtherRequest, ReceivedTftpRequest
<1>21. CASE UNCHANGED hostCommandVars
  BY <1>11, <1>12, <1>21 DEF hostCommandVars, processVars
<1> QED
  BY <1>0, <1>13, <1>14, <1>15, <1>16, <1>17, <1>18, <1>19, <1>20, <1>21
     DEF HostStep, IoThreadStep

(* After finished, whatever arrives late: calls of finished come only from *)
(* what was pending, so their number is bounded by it.                     *)
THEOREM HostCommandDrains == HostCommandSpec => FinishedOnlyDrains
<1>1. HostCommandTypeOK => Values
  BY TypeParts
<1>2. Values /\ [HostStep]_hostCommandVars => Values'
  BY ValuesStep
<1>3. Values /\ Values' /\ [HostStep]_hostCommandVars =>
        [Draining => Drains]_hostCommandVars
  BY DrainsStep DEF Draining
<1> QED
  BY <1>1, <1>2, <1>3, HostCommandTypes, PTL
     DEF HostCommandSpec, FinishedOnlyDrains, Drains

=============================================================================
