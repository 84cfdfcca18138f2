------------------------- MODULE BatchCommandProofs -------------------------
(***************************************************************************)
(* Theorems about BatchCommand, for every set of targets, with and without *)
(* ports of their own, and every number of signals, requests and transfers;*)
(* and about UploadFiles, for all media sets and command lines.            *)
(***************************************************************************)
EXTENDS UploadFiles, WellFoundedInduction, TLAPS

LEMMA NoTargetIsNoTarget == NoTarget \notin Targets
BY BatchAssumption DEF NoTarget

(* Targets are numbers, so that the first of some of them exists.          *)
LEMMA MinIsLeast ==
  ASSUME NEW S \in SUBSET Nat, S # {}
  PROVE  Min(S) \in S /\ \A y \in S : Min(S) <= y
<1> DEFINE Less == {pair \in Nat \X Nat : pair[1] < pair[2]}
<1>1. IsWellFoundedOn(Less, Nat)
  <2>1. OpToRel(<, Nat) = Less
    BY Zenon DEF OpToRel
  <2> QED
    BY <2>1, NatLessThanWellFounded
<1>2. PICK x \in S : \A y \in S : ~(<<y, x>> \in Less)
  <2> HIDE DEF Less
  <2> QED
    BY <1>1, WFMin
<1>3. \A y \in S : x <= y
  <2> TAKE y \in S
  <2>1. <<y, x>> \notin Less
    BY <1>2
  <2>2. y < x => <<y, x>> \in Less
    OBVIOUS
  <2> QED
    BY <2>1, <2>2
<1> QED
  BY <1>3 DEF Min

-----------------------------------------------------------------------------
(* The inductive invariant.                                                *)

BatchTypes ==
  /\ batchTargets \in SUBSET Targets
  /\ connected \in SUBSET Targets
  /\ proxy \in Targets \cup {NoTarget}
  /\ finishedCalls \in Nat
  /\ listening \in [Targets -> BOOLEAN]
  /\ outcomes \in [Targets -> {"none"} \cup Codes]

(* Before the first target is begun there is nothing to finish.            *)
NotBegun ==
  /\ mainThread = "connected" =>
       /\ batchTargets # {} /\ connected = {}
       /\ \A target \in Targets : ~listening[target]
  /\ connected = {} => proxy = NoTarget \/ finishedCalls # 0
  /\ mainThread = "connected" => proxy = NoTarget
  /\ mainThread = "woken" => finishedCalls # 0

(* The server that runs is the one of the proxy's target, which is why the *)
(* previous one is stopped by the call that begins the next.               *)
OneServer ==
  ~undefined => \A target \in Targets : listening[target] => target = current /\ target = proxy

(* The targets begun come before the ones that are not and leave no gap,   *)
(* the proxy's is the last of them and has no outcome yet, all the others  *)
(* are complete.                                                           *)
Ordered ==
  /\ \A later \in connected \cup batchTargets : \A earlier \in Targets :
       earlier < later => earlier \in connected \cup batchTargets
  /\ \A begun \in connected : \A target \in batchTargets : begun < target
  /\ \A begun \in connected : begun # proxy => outcomes[begun] = "Completed" /\ begun < proxy
  /\ \A target \in batchTargets : outcomes[target] = "none"
  /\ proxy # NoTarget => proxy \in connected /\ outcomes[proxy] = "none"

(* So it is until the command is finished.                                 *)
InOrder == ~undefined /\ finishedCalls = 0 => Ordered

BatchInv == BatchTypes /\ NotBegun /\ OneServer /\ InOrder

LEMMA TargetsAreNumbers == Targets \subseteq Nat
BY BatchAssumption

LEMMA InitBatch == Init => BatchInv
<1> SUFFICES ASSUME Init PROVE BatchInv
  OBVIOUS
<1>1. Min(Targets) \in Targets /\ \A target \in Targets : Min(Targets) <= target
  BY BatchAssumption, MinIsLeast
<1>2. BatchTypes
  BY <1>1 DEF Init, BatchTypes, Nowhere
<1>3. NotBegun
  BY <1>1, BatchAssumption DEF Init, NotBegun, Nowhere
<1>4. OneServer
  BY DEF Init, OneServer, Nowhere
<1>5. InOrder
  <2>1. \A later \in batchTargets : \A earlier \in Targets :
          earlier < later => earlier \in batchTargets
    BY <1>1, TargetsAreNumbers DEF Init
  <2> QED
    BY <2>1, <1>2 DEF Init, InOrder, BatchTypes, Ordered
<1> QED
  BY <1>2, <1>3, <1>4, <1>5 DEF BatchInv

-----------------------------------------------------------------------------
(* What a call of finished does.                                           *)

(* The command counts down: there is nothing more to say of the order.     *)
LEMMA CountDownKeeps ==
  ASSUME BatchInv,
         NEW servers \in [Targets -> BOOLEAN], NEW starting,
         \A target \in Targets : ~servers[target],
         CountDown(servers, starting),
         outcomes' \in [Targets -> {"none"} \cup Codes],
         mainThread' # "connected"
  PROVE  BatchInv'
<1> USE DEF CountDown, BatchInv
<1>1. BatchTypes' /\ finishedCalls' # 0
  BY DEF BatchTypes
<1>2. NotBegun'
  BY <1>1 DEF NotBegun
<1>3. OneServer'
  BY DEF OneServer
<1>4. InOrder'
  BY <1>1 DEF InOrder
<1> QED
  BY <1>1, <1>2, <1>3, <1>4

(* The next target is begun: the ones begun before are complete.           *)
LEMMA BeginNextKeeps ==
  ASSUME BatchInv, ~undefined,
         NEW servers \in [Targets -> BOOLEAN], NEW starting,
         \A target \in Targets : ~servers[target],
         batchTargets # {},
         BeginNext(servers, starting),
         outcomes' \in [Targets -> {"none"} \cup Codes],
         finishedCalls = 0 =>
           /\ \A begun \in connected : outcomes'[begun] = "Completed"
           /\ \A target \in batchTargets : outcomes'[target] = "none",
         mainThread' # "connected",
         mainThread' = "woken" => finishedCalls # 0
  PROVE  BatchInv'
<1> USE DEF BatchInv
<1> DEFINE next == Min(batchTargets)
<1>1. next \in batchTargets /\ \A target \in batchTargets : next <= target
  BY MinIsLeast, TargetsAreNumbers DEF BatchTypes
<1> HIDE DEF next
<1>2. /\ batchTargets' = batchTargets \ {next}
      /\ proxy' = next
      /\ current' = next
      /\ connected' = connected \cup {next}
      /\ listening' = [servers EXCEPT ![next] = TRUE]
      /\ finishedCalls' = finishedCalls
  BY DEF BeginNext, next
<1>3. BatchTypes'
  BY <1>1, <1>2 DEF BatchTypes
<1>4. NotBegun'
  BY <1>2 DEF NotBegun
<1>5. OneServer'
  BY <1>1, <1>2 DEF OneServer
<1>6. InOrder'
  <2> SUFFICES ASSUME finishedCalls = 0 PROVE Ordered'
    BY <1>2 DEF InOrder
  <2>1. Ordered
    BY DEF InOrder
  <2>2. connected' \cup batchTargets' = connected \cup batchTargets
    BY <1>1, <1>2
  <2>3. \A begun \in connected' : \A target \in batchTargets' : begun < target
    BY <1>1, <1>2, <2>1, TargetsAreNumbers DEF BatchTypes, Ordered
  <2>4. \A begun \in connected' :
          begun # proxy' => outcomes'[begun] = "Completed" /\ begun < proxy'
    BY <1>1, <1>2, <2>1 DEF Ordered
  <2>5. \A target \in batchTargets' : outcomes'[target] = "none"
    BY <1>2
  <2>6. proxy' \in connected' /\ outcomes'[proxy'] = "none"
    BY <1>1, <1>2
  <2> QED
    BY <2>1, <2>2, <2>3, <2>4, <2>5, <2>6 DEF InOrder, Ordered
<1> QED
  BY <1>3, <1>4, <1>5, <1>6

(* The proxy's target finishes: its server stops, and its outcome is told. *)
LEMMA FinishKeeps ==
  ASSUME BatchInv, ~undefined, proxy \in Targets,
         NEW code \in Codes, NEW starting,
         CommandFinished(code, [listening EXCEPT ![proxy] = FALSE], starting),
         outcomes' = [outcomes EXCEPT ![proxy] = IF @ = "none" THEN code ELSE @],
         mainThread' = mainThread
  PROVE  BatchInv'
<1> DEFINE servers == [listening EXCEPT ![proxy] = FALSE]
<1>1. servers \in [Targets -> BOOLEAN] /\ \A target \in Targets : ~servers[target]
  BY DEF BatchInv, BatchTypes, OneServer
<1>2. outcomes' \in [Targets -> {"none"} \cup Codes]
  BY DEF BatchInv, BatchTypes
<1>3. mainThread # "connected"
  BY NoTargetIsNoTarget DEF BatchInv, NotBegun
<1>4. CommandFinished(code, servers, starting)
  OBVIOUS
<1> HIDE DEF servers
<1>5. CASE CountDown(servers, starting)
  BY <1>1, <1>2, <1>3, <1>5, CountDownKeeps
<1>6. CASE code = "Completed" /\ batchTargets # {} /\ BeginNext(servers, starting)
  <2>1. ASSUME finishedCalls = 0
        PROVE  /\ \A begun \in connected : outcomes'[begun] = "Completed"
               /\ \A target \in batchTargets : outcomes'[target] = "none"
    <3>1. Ordered
      BY <2>1 DEF BatchInv, InOrder
    <3>2. proxy \in connected /\ outcomes[proxy] = "none"
      BY <3>1, NoTargetIsNoTarget DEF Ordered
    <3>3. \A target \in batchTargets : target # proxy
      BY <3>1, <3>2, TargetsAreNumbers DEF BatchInv, BatchTypes, Ordered
    <3> QED
      BY <1>6, <3>1, <3>2, <3>3 DEF BatchInv, BatchTypes, Ordered
  <2>2. mainThread' = "woken" => finishedCalls # 0
    BY DEF BatchInv, NotBegun
  <2> QED
    BY <1>1, <1>2, <1>3, <1>6, <2>1, <2>2, BeginNextKeeps
<1> QED
  BY <1>4, <1>5, <1>6 DEF CommandFinished, NextBatchTarget

-----------------------------------------------------------------------------
(* Every step.                                                             *)

(* What the invariant speaks of.                                           *)
spoken == <<mainThread, batchTargets, current, proxy, finishedCalls, connected, outcomes,
            undefined, listening>>

LEMMA SpokenKeeps == BatchInv /\ UNCHANGED spoken => BatchInv'
BY DEF spoken, BatchInv, BatchTypes, NotBegun, OneServer, InOrder, Ordered

LEMMA UndefinedKeeps == BatchInv /\ Undefined => BatchInv'
<1> SUFFICES ASSUME BatchInv, Undefined PROVE BatchInv'
  OBVIOUS
<1> USE DEF Undefined, Nowhere, BatchInv
<1>1. BatchTypes'
  BY DEF BatchTypes, commandVars
<1>2. NotBegun'
  BY DEF NotBegun, commandVars
<1>3. OneServer' /\ InOrder'
  BY DEF OneServer, InOrder
<1> QED
  BY <1>1, <1>2, <1>3

LEMMA FinishesKeeps ==
  ASSUME BatchInv, NEW target \in Targets, NEW code \in Codes, NEW starting, NEW transfersLeft,
         Finishes(target, code, starting, transfersLeft)
  PROVE  BatchInv'
<1>1. CASE FinishUndefined(target, code)
  BY <1>1, UndefinedKeeps DEF FinishUndefined
<1>2. CASE Finish(target, code, starting, transfersLeft)
  <2>1. proxy = target /\ ~undefined /\ mainThread' = mainThread
    BY <1>2 DEF Finish, Stale, InIoThread, Runs
  <2> QED
    BY <1>2, <2>1, FinishKeeps DEF Finish
<1> QED
  BY <1>1, <1>2 DEF Finishes

LEMMA OperationKeeps ==
  ASSUME BatchInv, NEW target \in Targets, Operation(target)
  PROVE  BatchInv'
<1>1. CASE InitialisationFileCompleted(target)
  <2>1. CASE Finishes(target, "Failed", Initialised(target), transfers)
    BY <2>1, FinishesKeeps DEF Codes
  <2>2. CASE UNCHANGED spoken
    BY <2>2, SpokenKeeps
  <2> QED
    BY <1>1, <2>1, <2>2 DEF InitialisationFileCompleted, InIoThread, commandVars, spoken
<1>2. CASE Timeout(target)
  BY <1>2, FinishesKeeps DEF Timeout, Codes
<1>3. CASE StatusFileRequest(target)
  BY <1>3, SpokenKeeps DEF StatusFileRequest, InIoThread, commandVars, spoken
<1>4. CASE StatusFileCompleted(target)
  <2>1. ASSUME NEW code, StatusFileRunning(target, code) PROVE BatchInv'
    BY <2>1, SpokenKeeps DEF StatusFileRunning, InIoThread, spoken
  <2>2. ASSUME NEW code \in Codes, StatusFileFinal(target, code) PROVE BatchInv'
    BY <2>2, FinishesKeeps DEF StatusFileFinal
  <2>3. CASE StatusFileFailed(target)
    BY <2>3, FinishesKeeps DEF StatusFileFailed, Codes
  <2>4. CASE StatusUndefined(target)
    BY <2>4, UndefinedKeeps DEF StatusUndefined
  <2> QED
    BY <1>4, <2>1, <2>2, <2>3, <2>4 DEF StatusFileCompleted
<1> QED
  BY <1>1, <1>2, <1>3, <1>4 DEF Operation

LEMMA TerminateKeeps == BatchInv /\ TerminateSignal => BatchInv'
<1> SUFFICES ASSUME BatchInv, TerminateSignal PROVE BatchInv'
  OBVIOUS
<1>1. CASE connected = {}
  BY <1>1, SpokenKeeps DEF TerminateSignal, commandVars, operationVars, spoken
<1>2. CASE connected # {} /\ connected = {proxy}
  <2>1. proxy \in Targets /\ ~undefined
    BY <1>2 DEF BatchInv, BatchTypes, TerminateSignal, Runs
  <2> QED
    BY <1>2, <2>1, FinishKeeps DEF TerminateSignal, Codes
<1>3. CASE connected # {} /\ connected # {proxy}
  BY <1>3, UndefinedKeeps DEF TerminateSignal
<1> QED
  BY <1>1, <1>2, <1>3

LEMMA MainThreadKeeps == BatchInv /\ MainThread => BatchInv'
<1> SUFFICES ASSUME BatchInv, MainThread PROVE BatchInv'
  OBVIOUS
<1>1. CASE StartFirst
  <2>1. /\ ~undefined /\ mainThread = "connected"
        /\ mainThread' = "waiting" /\ outcomes' = outcomes
    BY <1>1 DEF StartFirst, Goes
  <2>2. batchTargets # {} /\ connected = {} /\ \A target \in Targets : ~listening[target]
    BY <2>1 DEF BatchInv, NotBegun
  <2>3. BeginNext(listening, initialising)
    BY <1>1, <2>2 DEF StartFirst, NextBatchTarget
  <2>4. finishedCalls = 0 => \A target \in batchTargets : outcomes'[target] = "none"
    BY <2>1 DEF BatchInv, InOrder, Ordered
  <2>5. listening \in [Targets -> BOOLEAN] /\ outcomes' \in [Targets -> {"none"} \cup Codes]
    BY <2>1 DEF BatchInv, BatchTypes
  <2> QED
    BY <2>1, <2>2, <2>3, <2>4, <2>5, BeginNextKeeps
<1>2. CASE ExecuteThrows \/ StopIoContext
  BY <1>2 DEF ExecuteThrows, StopIoContext, Goes, commandVars,
              BatchInv, BatchTypes, NotBegun, OneServer, InOrder, Ordered
<1>3. CASE DoneWaitReturns
  BY <1>3 DEF DoneWaitReturns, Goes, commandVars,
              BatchInv, BatchTypes, NotBegun, OneServer, InOrder
<1>4. CASE ExecuteReturns
  <2>1. finishedCalls' # 0 /\ connected' \in SUBSET Targets
    BY <1>4 DEF ExecuteReturns, Goes, BatchInv, BatchTypes, NotBegun
  <2> QED
    BY <1>4, <2>1 DEF ExecuteReturns, Goes, BatchInv, BatchTypes, NotBegun, OneServer, InOrder
<1> QED
  BY <1>1, <1>2, <1>3, <1>4 DEF MainThread

LEMMA BatchStep == BatchInv /\ [Next]_vars => BatchInv'
<1> SUFFICES ASSUME BatchInv, [Next]_vars PROVE BatchInv'
  OBVIOUS
<1>1. CASE MainThread
  BY <1>1, MainThreadKeeps
<1>2. CASE AbortSignal
  BY <1>2, SpokenKeeps DEF AbortSignal, commandVars, spoken
<1>3. CASE TerminateSignal
  BY <1>3, TerminateKeeps
<1>4. CASE \E target \in Targets : Operation(target)
  BY <1>4, OperationKeeps
<1>5. CASE UNCHANGED vars
  BY <1>5, SpokenKeeps DEF vars, commandVars, operationVars, spoken
<1> QED
  BY <1>1, <1>2, <1>3, <1>4, <1>5 DEF Next

LEMMA BatchInvHolds == Spec => []BatchInv
BY InitBatch, BatchStep, PTL DEF Spec

-----------------------------------------------------------------------------
(* Theorems.                                                               *)

(* Whenever a server runs it is the one of the command's current target,   *)
(* although the next target is begun before the previous one's server has  *)
(* stopped (BatchUploadOperationCommand::nextBatchTarget, finished).       *)
THEOREM BatchServesOneTarget == Spec => []ServesOneTarget
<1>1. BatchInv => ServesOneTarget
  BY DEF BatchInv, OneServer, ServesOneTarget
<1> QED
  BY <1>1, BatchInvHolds, PTL

(* Until the command is finished, every target before one that has been    *)
(* begun is complete, whichever end and signals arrive meanwhile           *)
(* (BatchUploadOperationCommand::finished, nextBatchTarget).               *)
THEOREM BatchCompletedInOrder == Spec => []CompletedInOrder
<1>1. BatchInv => CompletedInOrder
  <2> SUFFICES ASSUME BatchInv, ~undefined, finishedCalls = 0,
                      NEW target \in connected, NEW earlier \in Targets, earlier < target
               PROVE  outcomes[earlier] = "Completed"
    BY DEF CompletedInOrder
  <2>1. Ordered
    BY DEF BatchInv, InOrder
  <2>2. target \in Nat /\ earlier \in Nat /\ target \in Targets
    BY TargetsAreNumbers DEF BatchInv, BatchTypes
  <2>3. earlier \in connected
    BY <2>1, <2>2 DEF Ordered
  <2>4. earlier # proxy
    BY <2>1, <2>2 DEF Ordered
  <2> QED
    BY <2>1, <2>3, <2>4 DEF Ordered
<1> QED
  BY <1>1, BatchInvHolds, PTL

-----------------------------------------------------------------------------
(* What is uploaded.                                                       *)

(* The upload commands are BatchCommand with its fairness left out.        *)
LEMMA FilesAreBatchStep ==
  ASSUME [FilesNext]_filesVars
  PROVE  [Next]_vars
<1>1. CASE FilesMainThread
  BY <1>1 DEF FilesMainThread, FollowsLater, Follows, Execute, MainThread, Next
<1>2. CASE FilesIoThread
  BY <1>2 DEF FilesIoThread, FollowsLater, Follows, Next
<1>3. CASE UNCHANGED filesVars
  BY <1>3 DEF filesVars
<1> QED
  BY <1>1, <1>2, <1>3 DEF FilesNext

(* Whatever they upload, the upload commands do so as BatchCommand says.   *)
THEOREM FilesAreBatch == FilesSpec => Spec
<1>1. FilesInit => Init
  BY DEF FilesInit
<1> QED
  BY <1>1, FilesAreBatchStep, PTL DEF FilesSpec, Spec

(* Where the proxy, the operation and the load list go: a new proxy brings *)
(* its operation and no load list, and only the first accepted status of   *)
(* the proxy's own operation sends one.                                    *)
Moves ==
  /\ batch' = batch
  /\ current' \in {NoTarget, proxy'}
  /\ proxy' # proxy => ~loadListSent' /\ (proxy \in Targets \/ StartFirst)
  /\ loadListSent' /\ ~loadListSent => current \in Targets /\ proxy' = proxy

Placed == BatchTypes /\ current \in {NoTarget, proxy}

LEMMA BeginNextMoves ==
  ASSUME Placed, NEW servers, NEW starting, BeginNext(servers, starting),
         proxy \in Targets \/ StartFirst, batch' = batch
  PROVE  Moves
BY DEF BeginNext, Moves

LEMMA CountDownMoves ==
  ASSUME Placed, NEW servers, NEW starting, CountDown(servers, starting), batch' = batch
  PROVE  Moves
BY DEF CountDown, Moves, Placed

LEMMA FinishedMoves ==
  ASSUME Placed, NEW code, NEW servers, NEW starting, proxy \in Targets,
         CommandFinished(code, servers, starting), batch' = batch
  PROVE  Moves
BY BeginNextMoves, CountDownMoves DEF CommandFinished, NextBatchTarget

LEMMA StayingMoves ==
  ASSUME Placed, UNCHANGED <<batch, current, proxy, loadListSent>>
  PROVE  Moves
BY DEF Moves, Placed

LEMMA OperationMoves ==
  ASSUME Placed, NEW target \in Targets, Operation(target)
  PROVE  Moves
<1>1. ASSUME NEW code, NEW starting, NEW transfersLeft,
             Finishes(target, code, starting, transfersLeft)
      PROVE  Moves
  <2>1. CASE FinishUndefined(target, code)
    BY <2>1, StayingMoves DEF FinishUndefined, Undefined, commandVars
  <2>2. CASE Finish(target, code, starting, transfersLeft)
    <3>1. proxy = target /\ batch' = batch
      BY <2>2 DEF Finish, Stale, InIoThread
    <3> QED
      BY <2>2, <3>1, FinishedMoves DEF Finish
  <2> QED
    BY <1>1, <2>1, <2>2 DEF Finishes
<1>2. CASE InitialisationFileCompleted(target)
  <2>1. CASE UNCHANGED <<batch, commandVars>>
    BY <2>1, StayingMoves DEF commandVars
  <2> QED
    BY <1>1, <1>2, <2>1 DEF InitialisationFileCompleted, InIoThread
<1>3. CASE Timeout(target)
  BY <1>1, <1>3 DEF Timeout
<1>4. CASE StatusFileRequest(target)
  BY <1>4, StayingMoves DEF StatusFileRequest, InIoThread, commandVars
<1>5. CASE StatusFileCompleted(target)
  <2>1. ASSUME NEW code, StatusFileRunning(target, code) PROVE Moves
    <3>1. /\ UNCHANGED <<batch, current, proxy>>
          /\ loadListSent' = (loadListSent \/ code = "Accepted")
          /\ current # NoTarget \/ loadListSent \/ code # "Accepted"
      BY <2>1 DEF StatusFileRunning, InIoThread
    <3> QED
      BY <3>1 DEF Moves, Placed, BatchTypes
  <2>2. ASSUME NEW code, StatusFileFinal(target, code) PROVE Moves
    BY <1>1, <2>2 DEF StatusFileFinal
  <2>3. CASE StatusFileFailed(target)
    BY <1>1, <2>3 DEF StatusFileFailed
  <2>4. CASE StatusUndefined(target)
    BY <2>4, StayingMoves DEF StatusUndefined, Undefined, commandVars
  <2> QED
    BY <1>5, <2>1, <2>2, <2>3, <2>4 DEF StatusFileCompleted
<1> QED
  BY <1>2, <1>3, <1>4, <1>5 DEF Operation

LEMMA StepMoves ==
  ASSUME Placed, [Next]_vars
  PROVE  Moves
<1>1. CASE StartFirst
  <2>1. batch' = batch
    BY <1>1 DEF StartFirst, Goes
  <2> QED
    BY <1>1, <2>1, BeginNextMoves, CountDownMoves DEF StartFirst, NextBatchTarget
<1>2. CASE ExecuteThrows \/ DoneWaitReturns \/ ExecuteReturns \/ StopIoContext
  BY <1>2, StayingMoves
     DEF ExecuteThrows, DoneWaitReturns, ExecuteReturns, StopIoContext, Goes, commandVars
<1>3. CASE AbortSignal
  BY <1>3, StayingMoves DEF AbortSignal, commandVars
<1>4. CASE TerminateSignal
  <2>1. CASE connected = {}
    BY <1>4, <2>1, StayingMoves DEF TerminateSignal, commandVars
  <2>2. CASE connected # {} /\ connected = {proxy}
    <3>1. proxy \in Targets
      BY <2>2 DEF Placed, BatchTypes
    <3> QED
      BY <1>4, <2>2, <3>1, FinishedMoves DEF TerminateSignal
  <2>3. CASE connected # {} /\ connected # {proxy}
    BY <1>4, <2>3, StayingMoves DEF TerminateSignal, Undefined, commandVars
  <2> QED
    BY <2>1, <2>2, <2>3
<1>5. CASE \E target \in Targets : Operation(target)
  BY <1>5, OperationMoves
<1>6. CASE UNCHANGED vars
  BY <1>6, StayingMoves DEF vars, commandVars
<1> QED
  BY <1>1, <1>2, <1>3, <1>4, <1>5, <1>6 DEF Next, MainThread

-----------------------------------------------------------------------------
(* Parameters.                                                             *)

(* A set of numbers that has zero and with each number the next one.       *)
LEMMA AllNumbers ==
  ASSUME NEW S, 0 \in S, \A n \in Nat : n \in S => n + 1 \in S
  PROVE  Nat \subseteq S
<1> SUFFICES ASSUME Nat \ S # {}
             PROVE  FALSE
  OBVIOUS
<1> DEFINE least == Min(Nat \ S)
<1>1. least \in Nat \ S /\ \A n \in Nat \ S : least <= n
  BY MinIsLeast
<1> HIDE DEF least
<1>2. least - 1 \in Nat /\ ~(least <= least - 1)
  BY <1>1
<1>3. least - 1 \in S
  BY <1>1, <1>2
<1> QED
  BY <1>1, <1>2, <1>3

IsGivenBy(given, parameters, option) ==
  given = [i \in 0..Len(parameters) |->
             IF i = 0 THEN <<>> ELSE Taken(given[i - 1], parameters[i], option)]

LEMMA GivenByExists ==
  ASSUME NEW parameters, NEW option, Len(parameters) \in Nat
  PROVE  IsGivenBy(GivenBy(parameters, option), parameters, option)
<1> DEFINE Upto(given, n) ==
             given = [i \in 0..n |->
                        IF i = 0 THEN <<>> ELSE Taken(given[i - 1], parameters[i], option)]
           Reached == {n \in Nat : \E given : Upto(given, n)}
<1>1. 0 \in Reached
  <2>1. Upto([i \in 0..0 |-> <<>>], 0)
    OBVIOUS
  <2> QED
    BY <2>1
<1>2. ASSUME NEW n \in Nat, n \in Reached
      PROVE  n + 1 \in Reached
  <2>1. PICK given : Upto(given, n)
    BY <1>2
  <2> DEFINE next == Taken(given[n], parameters[n + 1], option)
             longer == [i \in 0..(n + 1) |-> IF i \in 0..n THEN given[i] ELSE next]
  <2>2. ASSUME NEW i \in 0..(n + 1)
        PROVE  longer[i] = IF i = 0 THEN <<>> ELSE Taken(longer[i - 1], parameters[i], option)
    <3>1. CASE i = 0
      BY <2>1, <3>1
    <3>2. CASE i \in 1..n
      BY <2>1, <3>2
    <3>3. CASE i = n + 1
      BY <3>3
    <3> QED
      BY <3>1, <3>2, <3>3
  <2> HIDE DEF longer
  <2>3. Upto(longer, n + 1)
    BY <2>2 DEF longer
  <2> QED
    BY <2>3
<1> HIDE DEF Reached
<1>3. Nat \subseteq Reached
  BY <1>1, <1>2, AllNumbers
<1>4. \E given : IsGivenBy(given, parameters, option)
  BY <1>3 DEF Reached, IsGivenBy
<1> QED
  BY <1>4 DEF GivenBy, IsGivenBy

(* What an option is given is a sequence.                                  *)
LEMMA GivenIsSequence ==
  ASSUME NEW parameters, NEW option, Len(parameters) \in Nat
  PROVE  LET given == Given(parameters, option)
         IN  Len(given) \in Nat /\ DOMAIN given = 1..Len(given)
<1> DEFINE values == {parameters[i].value : i \in 1..Len(parameters)}
           given == GivenBy(parameters, option)
           S == {i \in Nat : i <= Len(parameters) => given[i] \in Seq(values)}
<1>1. \A i \in 0..Len(parameters) :
        given[i] = IF i = 0 THEN <<>> ELSE Taken(given[i - 1], parameters[i], option)
  <2>1. IsGivenBy(given, parameters, option)
    BY GivenByExists
  <2> HIDE DEF given
  <2> QED
    BY <2>1 DEF IsGivenBy
<1> HIDE DEF given
<1>2. 0 \in S
  <2>1. given[0] = <<>>
    BY <1>1
  <2>2. <<>> \in Seq(values)
    OBVIOUS
  <2> QED
    BY <2>1, <2>2
<1>3. ASSUME NEW n \in Nat, n \in S
      PROVE  n + 1 \in S
  <2> SUFFICES ASSUME n + 1 <= Len(parameters)
               PROVE  given[n + 1] \in Seq(values)
    OBVIOUS
  <2>1. given[n] \in Seq(values) /\ parameters[n + 1].value \in values
    BY <1>3
  <2>2. given[n + 1] = Taken(given[n], parameters[n + 1], option)
    <3>1. n + 1 \in 0..Len(parameters) /\ n + 1 # 0 /\ (n + 1) - 1 = n
      OBVIOUS
    <3>2. given[n + 1] = IF n + 1 = 0 THEN <<>>
                         ELSE Taken(given[(n + 1) - 1], parameters[n + 1], option)
      BY <1>1, <3>1
    <3> QED
      BY <3>1, <3>2
  <2> HIDE DEF values
  <2> QED
    BY <2>1, <2>2 DEF Taken
<1> HIDE DEF S
<1>4. Nat \subseteq S
  BY <1>2, <1>3, AllNumbers
<1>5. given[Len(parameters)] \in Seq(values)
  BY <1>4 DEF S
<1> HIDE DEF values
<1> QED
  BY <1>5 DEF Given, given

-----------------------------------------------------------------------------
(* What each command takes its loads from, and for which target.           *)

LEMMA ParametersAreNumbered ==
  ASSUME NEW line \in CommandLines, NEW option
  PROVE  Len(All(line, option)) \in Nat /\ DOMAIN All(line, option) = 1..Len(All(line, option))
<1>1. Len(line.parameters) \in Nat
  BY FilesAssumption
<1> QED
  BY <1>1, GivenIsSequence DEF All

(* The loads of a media set with the headers asked for.                    *)
LEMMA LoadsOfHeadersAre ==
  ASSUME NEW mediaSet, NEW headers, NEW media,
         LoadsOfHeaders(mediaSet, headers, media).ok
  PROVE  LET sources == LoadsOfHeaders(mediaSet, headers, media)
         IN  /\ DOMAIN sources.loads = DOMAIN headers
             /\ \A i \in DOMAIN headers :
                  {load \in MediaSets[mediaSet] : load.header = headers[i]} = {sources.loads[i]}
             /\ sources.mediaPaths = media
             /\ sources.mediaSetPaths = <<>>
<1> DEFINE found(i) == RecursiveLoads(mediaSet, headers[i])
<1>1. \A i \in DOMAIN headers : \E load \in found(i) : found(i) = {load}
  BY DEF LoadsOfHeaders, Refused
<1>2. LoadsOfHeaders(mediaSet, headers, media)
        = Sources([i \in DOMAIN headers |-> CHOOSE load \in found(i) : TRUE], media, <<>>)
  BY <1>1 DEF LoadsOfHeaders
<1>3. \A i \in DOMAIN headers : found(i) = {CHOOSE load \in found(i) : TRUE}
  BY <1>1
<1> QED
  BY <1>2, <1>3 DEF Sources, RecursiveLoads

LEMMA LoadsOfHeadersRange ==
  ASSUME NEW mediaSet, NEW headers, NEW media,
         LoadsOfHeaders(mediaSet, headers, media).ok
  PROVE  Range(LoadsOfHeaders(mediaSet, headers, media).loads)
           = {load \in MediaSets[mediaSet] : load.header \in Range(headers)}
<1> DEFINE loaded == LoadsOfHeaders(mediaSet, headers, media).loads
<1>1. /\ DOMAIN loaded = DOMAIN headers
      /\ \A i \in DOMAIN headers :
           {load \in MediaSets[mediaSet] : load.header = headers[i]} = {loaded[i]}
  BY LoadsOfHeadersAre
<1> HIDE DEF loaded
<1>2. \A i \in DOMAIN headers : loaded[i] \in MediaSets[mediaSet] /\ loaded[i].header = headers[i]
  BY <1>1
<1>3. \A load \in MediaSets[mediaSet] : \A i \in DOMAIN headers :
        load.header = headers[i] => load = loaded[i]
  BY <1>1
<1>4. Range(loaded) \subseteq {load \in MediaSets[mediaSet] : load.header \in Range(headers)}
  BY <1>1, <1>2 DEF Range
<1>5. {load \in MediaSets[mediaSet] : load.header \in Range(headers)} \subseteq Range(loaded)
  BY <1>1, <1>3 DEF Range
<1> QED
  BY <1>4, <1>5 DEF loaded

(* Of directories that are the media of one media set, the first is of it. *)
LEMMA MediaSetOfDirectories ==
  ASSUME NEW directories, Len(directories) \in Nat, DOMAIN directories = 1..Len(directories),
         NEW mediaSet \in Imported(MediaPaths(directories))
  PROVE  mediaSet = directories[1].mediaSet
<1> DEFINE of(medium) == {i \in DOMAIN directories : directories[i].medium = medium}
           paths == MediaPaths(directories)
<1>1. paths = [medium \in {directory.medium : directory \in Range(directories)} |->
                 directories[Min(of(medium))]]
  BY DEF MediaPaths
<1> HIDE DEF paths
<1>2. mediaSet \in {paths[medium].mediaSet : medium \in DOMAIN paths}
  BY DEF Imported, paths
<1>3. \A medium \in DOMAIN paths : paths[medium].mediaSet = mediaSet
  BY <1>2 DEF Imported, paths
<1>4. DOMAIN directories # {}
  BY <1>1, <1>2 DEF Range
<1>5. 1 \in DOMAIN directories /\ \A i \in DOMAIN directories : i \in Nat /\ 1 <= i
  BY <1>4
<1> DEFINE medium == directories[1].medium
<1>6. of(medium) \in SUBSET Nat /\ 1 \in of(medium) /\ \A i \in of(medium) : 1 <= i
  BY <1>5
<1>7. Min(of(medium)) = 1
  <2>1. Min(of(medium)) \in of(medium) /\ Min(of(medium)) <= 1
    BY <1>6, MinIsLeast
  <2> QED
    BY <1>6, <2>1
<1>8. medium \in DOMAIN paths
  BY <1>1, <1>5 DEF Range
<1>9. paths[medium] = directories[1]
  BY <1>1, <1>7, <1>8
<1> QED
  BY <1>3, <1>8, <1>9

Headers == All(commandLine, "loadHeader")
Directories == All(commandLine, "sourceDirectory")

LEMMA UploadMeant ==
  ASSUME commandLine.command = "Upload", SourcesOf(commandLine).ok, NEW target
  PROVE  Range(SourcesOf(commandLine).loads) = Meant(target)
<1>1. SourcesOf(commandLine) = UploadSources(commandLine)
  BY DEF SourcesOf, Refused
<1>2. SourcesOf(commandLine) = LoadsOfHeaders(MediaSet, Headers, <<>>)
  BY <1>1 DEF UploadSources, Refused, MediaSet, Headers
<1>3. Meant(target) = {load \in MediaSets[MediaSet] : load.header \in Range(Headers)}
  BY DEF Meant, Headers
<1> QED
  BY <1>2, <1>3, LoadsOfHeadersRange

(* The directories are the media of the media set they are of.             *)
LEMMA AdhocMeant ==
  ASSUME commandLine \in CommandLines, commandLine.command = "AdhocUpload",
         SourcesOf(commandLine).ok, NEW target
  PROVE  /\ Range(SourcesOf(commandLine).loads) = Meant(target)
         /\ SourcesOf(commandLine).mediaPaths = MediaPaths(Directories)
         /\ Directories[1].mediaSet \in Imported(MediaPaths(Directories))
         /\ \A i \in DOMAIN Directories : Directories[i].medium # NoMedium
<1> DEFINE paths == MediaPaths(Directories)
           imported == Imported(paths)
           mediaSet == CHOOSE set \in imported : TRUE
<1>1. SourcesOf(commandLine) = AdhocSources(commandLine)
  BY DEF SourcesOf, Refused
<1>2. /\ ~\E i \in DOMAIN Directories : Directories[i].medium = NoMedium
      /\ imported # {}
      /\ SourcesOf(commandLine) = LoadsOfHeaders(mediaSet, Headers, paths)
  BY <1>1 DEF AdhocSources, Refused, Headers, Directories
<1>3. mediaSet \in imported
  BY <1>2
<1>4. mediaSet = Directories[1].mediaSet
  BY <1>3, ParametersAreNumbered, MediaSetOfDirectories DEF Directories
<1>5. Meant(target)
        = {load \in MediaSets[Directories[1].mediaSet] : load.header \in Range(Headers)}
  BY DEF Meant, Headers, Directories, Single, Value, All
<1> HIDE DEF mediaSet
<1>6. /\ Range(SourcesOf(commandLine).loads)
           = {load \in MediaSets[mediaSet] : load.header \in Range(Headers)}
      /\ SourcesOf(commandLine).mediaPaths = paths
  BY <1>2, LoadsOfHeadersRange, LoadsOfHeadersAre
<1> QED
  BY <1>2, <1>3, <1>4, <1>5, <1>6

FoundBy(header) == Decompiled(header.directory, header.name)

LEMMA HeaderMeant ==
  ASSUME commandLine.command = "UploadLoads", SourcesOf(commandLine).ok
  PROVE  LET sources == SourcesOf(commandLine)
         IN  /\ DOMAIN sources.loads = DOMAIN Headers
             /\ \A i \in DOMAIN Headers : sources.loads[i] \in FoundBy(Headers[i])
             /\ sources.mediaSetPaths = [i \in DOMAIN Headers |-> Headers[i].directory]
<1> DEFINE found(i) == FoundBy(Headers[i])
<1>1. SourcesOf(commandLine) = HeaderSources(commandLine)
  BY DEF SourcesOf, Refused
<1>2. /\ \A i \in DOMAIN Headers : found(i) # {}
      /\ SourcesOf(commandLine)
           = Sources([i \in DOMAIN Headers |-> CHOOSE load \in found(i) : TRUE],
                     <<>>, [i \in DOMAIN Headers |-> Headers[i].directory])
  BY <1>1 DEF HeaderSources, Refused, Headers, FoundBy
<1>3. \A i \in DOMAIN Headers : (CHOOSE load \in found(i) : TRUE) \in found(i)
  BY <1>2
<1> QED
  BY <1>2, <1>3 DEF Sources

(* A load that is found by a header is one of those that are meant, and    *)
(* the others that are meant by that header have its part number.          *)
LEMMA FoundIsMeant ==
  ASSUME commandLine.command = "UploadLoads", SourcesOf(commandLine).ok, NEW target
  PROVE  LET loaded == SourcesOf(commandLine).loads
         IN  /\ \A i \in DOMAIN loaded : loaded[i] \in Meant(target)
             /\ \A load \in Meant(target) : \E i \in DOMAIN loaded :
                  load \in FoundBy(Headers[i]) /\ load.partNumber = loaded[i].partNumber
<1> DEFINE loaded == SourcesOf(commandLine).loads
<1>1. /\ DOMAIN loaded = DOMAIN Headers
      /\ \A i \in DOMAIN Headers : loaded[i] \in FoundBy(Headers[i])
  BY HeaderMeant
<1> HIDE DEF loaded
<1>2. Meant(target)
        = {load \in UNION Range(MediaSets) :
             \E header \in Range(Headers) :
               /\ load.header = header.name
               /\ load.partNumber = header.directory.files[load.header]}
  BY DEF Meant, Headers
<1>3. ASSUME NEW i \in DOMAIN loaded
      PROVE  /\ loaded[i] \in UNION Range(MediaSets)
             /\ loaded[i].header = Headers[i].name
             /\ Headers[i].name \in DOMAIN Headers[i].directory.files
             /\ loaded[i].partNumber = Headers[i].directory.files[Headers[i].name]
             /\ Headers[i] \in Range(Headers)
  BY <1>1 DEF FoundBy, Decompiled, Range
<1>4. \A i \in DOMAIN loaded : loaded[i] \in Meant(target)
  BY <1>2, <1>3
<1>5. ASSUME NEW load \in Meant(target)
      PROVE  \E i \in DOMAIN loaded :
               load \in FoundBy(Headers[i]) /\ load.partNumber = loaded[i].partNumber
  <2>1. PICK i \in DOMAIN Headers :
          /\ load.header = Headers[i].name
          /\ load.partNumber = Headers[i].directory.files[load.header]
    BY <1>2 DEF Range
  <2>2. load \in FoundBy(Headers[i])
    BY <1>1, <1>2, <1>3, <2>1 DEF FoundBy, Decompiled
  <2> QED
    BY <1>1, <1>3, <2>1, <2>2
<1> QED
  BY <1>4, <1>5 DEF loaded

PartNumbersOf(set) == {load.partNumber : load \in set}

(* What a target is sent the list of are the loads that are meant for it.  *)
LEMMA TargetLoadsAreMeant ==
  ASSUME commandLine \in CommandLines, batch = (commandLine.command = "BatchUpload"),
         SourcesOf(commandLine).ok, NEW target
  PROVE  PartNumbersOf(Range(TargetLoads(target))) = PartNumbersOf(Meant(target))
<1>1. CASE commandLine.command = "BatchUpload"
  BY <1>1 DEF TargetLoads, Meant
<1>2. CASE commandLine.command = "Upload"
  BY <1>2, UploadMeant DEF TargetLoads
<1>3. CASE commandLine.command = "AdhocUpload"
  BY <1>3, AdhocMeant DEF TargetLoads
<1>4. CASE commandLine.command = "UploadLoads"
  <2> DEFINE loaded == SourcesOf(commandLine).loads
  <2>1. /\ \A i \in DOMAIN loaded : loaded[i] \in Meant(target)
        /\ \A load \in Meant(target) : \E i \in DOMAIN loaded :
             load.partNumber = loaded[i].partNumber
    BY <1>4, FoundIsMeant
  <2>2. TargetLoads(target) = loaded
    BY <1>4 DEF TargetLoads
  <2> HIDE DEF loaded
  <2>3. PartNumbersOf(Range(loaded)) \subseteq PartNumbersOf(Meant(target))
    BY <2>1 DEF PartNumbersOf, Range
  <2>4. PartNumbersOf(Meant(target)) \subseteq PartNumbersOf(Range(loaded))
    BY <2>1 DEF PartNumbersOf, Range
  <2> QED
    BY <2>2, <2>3, <2>4
<1> QED
  BY <1>1, <1>2, <1>3, <1>4, FilesAssumption DEF Commands

-----------------------------------------------------------------------------
(* The inductive invariant of what is uploaded: with a proxy, its loads    *)
(* and the directories of the command line are there, and a list that was  *)
(* sent was of the target's loads.                                         *)

Loaded ==
  /\ SourcesOf(commandLine).ok
  /\ loads = TargetLoads(proxy)
  /\ mediaPaths = SourcesOf(commandLine).mediaPaths
  /\ mediaSetPaths = SourcesOf(commandLine).mediaSetPaths

Listed(target) ==
  SourcesOf(commandLine).ok /\ listed[target] = PartNumbersOf(Range(TargetLoads(target)))

FilesInv ==
  /\ commandLine \in CommandLines
  /\ batch = (commandLine.command = "BatchUpload")
  /\ current \in {NoTarget, proxy}
  /\ proxy # NoTarget => Loaded
  /\ DOMAIN listed = Targets
  /\ \A target \in Targets : listed[target] # NoList => Listed(target)

LEMMA FilesInvInit == FilesInit => FilesInv
<1> SUFFICES ASSUME FilesInit PROVE FilesInv
  OBVIOUS
<1>1. current = NoTarget /\ proxy = NoTarget
  BY DEF FilesInit, Init
<1> QED
  BY <1>1 DEF FilesInit, FilesInv

LEMMA FilesInvStep == BatchInv /\ FilesInv /\ [FilesNext]_filesVars => FilesInv'
<1> SUFFICES ASSUME BatchInv, FilesInv, [FilesNext]_filesVars
             PROVE  FilesInv'
  OBVIOUS
<1>1. Moves
  BY FilesAreBatchStep, StepMoves DEF Placed, BatchInv, FilesInv
<1>2. CASE UNCHANGED filesVars
  <2>1. UNCHANGED <<commandLine, batch, current, proxy, loads, mediaPaths, mediaSetPaths, listed>>
    BY <1>2 DEF filesVars, vars, commandVars, sourceVars
  <2>2. TargetLoads(proxy)' = TargetLoads(proxy) /\ NoTarget' = NoTarget
    BY <2>1 DEF TargetLoads, BatchLoads, MediaSet, NoTarget
  <2>3. \A target \in Targets : TargetLoads(target)' = TargetLoads(target)
    BY <2>1 DEF TargetLoads, BatchLoads, MediaSet
  <2> QED
    BY <2>1, <2>2, <2>3 DEF FilesInv, Loaded, Listed
<1>3. CASE ~UNCHANGED filesVars
  <2>1. commandLine' = commandLine /\ LoadsReplaced /\ LoadsListed
    BY <1>3 DEF FilesNext, FilesMainThread, FilesIoThread, FollowsLater, Follows
  <2>2. \A target : TargetLoads(target)' = TargetLoads(target)
    BY <1>1, <2>1 DEF TargetLoads, BatchLoads, MediaSet, Moves
  <2>3. Execute \/ UNCHANGED <<mediaPaths, mediaSetPaths>>
    BY <1>3 DEF FilesNext, FilesMainThread, FilesIoThread, FollowsLater, Follows
  <2>4. ASSUME Execute
        PROVE  /\ SourcesOf(commandLine).ok
               /\ mediaPaths' = SourcesOf(commandLine).mediaPaths
               /\ mediaSetPaths' = SourcesOf(commandLine).mediaSetPaths
    BY <2>4 DEF Execute
  <2>5. StartFirst => Execute
    <3> SUFFICES ASSUME StartFirst, ~Execute PROVE FALSE
      OBVIOUS
    <3>1. mainThread = "connected" /\ mainThread' = "waiting"
      BY DEF StartFirst, Goes
    <3>2. ExecuteThrows \/ DoneWaitReturns \/ ExecuteReturns \/ StopIoContext \/ FilesIoThread
      BY <1>3 DEF FilesNext, FilesMainThread, FollowsLater, Follows
    <3>3. ~(ExecuteThrows \/ DoneWaitReturns \/ ExecuteReturns \/ StopIoContext)
      BY <3>1 DEF ExecuteThrows, DoneWaitReturns, ExecuteReturns, StopIoContext, Goes
    <3>4. FilesIoThread => mainThread' = mainThread
      BY DEF FilesIoThread, FollowsLater, Follows, AbortSignal, TerminateSignal, Undefined,
             Operation, InitialisationFileCompleted, Timeout, StatusFileRequest,
             StatusFileCompleted, StatusFileRunning, StatusFileFinal, StatusFileFailed,
             StatusUndefined, Finishes, Finish, FinishUndefined, InIoThread
    <3> QED
      BY <3>1, <3>2, <3>3, <3>4
  <2>6. proxy' # NoTarget => Loaded'
    <3> SUFFICES ASSUME proxy' # NoTarget PROVE Loaded'
      BY DEF NoTarget
    <3>1. CASE Execute
      <4>1. proxy = NoTarget
        BY <3>1 DEF Execute, StartFirst, Goes, BatchInv, NotBegun
      <4>2. loads' = TargetLoads(proxy')
        BY <2>1, <4>1 DEF LoadsReplaced
      <4> QED
        BY <2>1, <2>2, <2>4, <3>1, <4>2 DEF Loaded
    <3>2. CASE ~Execute
      <4>1. proxy # NoTarget
        BY <1>1, <2>5, <3>2, NoTargetIsNoTarget DEF Moves
      <4>2. Loaded
        BY <4>1 DEF FilesInv
      <4>3. loads' = TargetLoads(proxy')
        BY <2>1, <4>2 DEF LoadsReplaced, Loaded
      <4> QED
        BY <2>1, <2>2, <2>3, <3>2, <4>2, <4>3 DEF Loaded
    <3> QED
      BY <3>1, <3>2
  <2>7. ASSUME NEW target \in Targets, listed'[target] # NoList
        PROVE  Listed(target)'
    <3>1. CASE listed'[target] = listed[target]
      BY <2>1, <2>2, <2>7, <3>1 DEF FilesInv, Listed
    <3>2. CASE listed'[target] # listed[target]
      <4>1. loadListSent' /\ ~loadListSent
        BY <2>1, <3>2 DEF LoadsListed
      <4>2. listed' = [listed EXCEPT ![current] = PartNumbersOf(Range(loads))]
        BY <2>1, <4>1 DEF LoadsListed, PartNumbersOf
      <4>3. current = target
        BY <3>2, <4>2
      <4>4. proxy = target /\ Loaded
        BY <4>3, NoTargetIsNoTarget DEF FilesInv
      <4>5. listed'[target] = PartNumbersOf(Range(TargetLoads(target)))
        BY <4>2, <4>3, <4>4 DEF FilesInv, Loaded
      <4> QED
        BY <2>1, <2>2, <4>4, <4>5 DEF Listed, Loaded
    <3> QED
      BY <3>1, <3>2
  <2>8. DOMAIN listed' = Targets
    BY <2>1 DEF LoadsListed, FilesInv
  <2>9. current' \in {NoTarget, proxy'} /\ batch' = batch
    BY <1>1 DEF Moves
  <2> QED
    BY <2>1, <2>6, <2>7, <2>8, <2>9 DEF FilesInv, NoTarget
<1> QED
  BY <1>2, <1>3

LEMMA FilesInvHolds == FilesSpec => [](BatchInv /\ FilesInv)
BY FilesAreBatch, BatchInvHolds, FilesInvInit, FilesInvStep, PTL DEF FilesSpec

(* Every target is sent the list of the loads that are meant for it, from  *)
(* whatever media sets, directories and batch files, whichever targets     *)
(* were served before it and however their operations ended                *)
(* (BatchUploadOperationCommand::nextBatchTarget, status).                 *)
THEOREM FilesListTheTargetsLoads == FilesSpec => []ListsTheTargetsLoads
<1>1. FilesInv => ListsTheTargetsLoads
  <2> SUFFICES ASSUME FilesInv, NEW target \in Targets, listed[target] # NoList
               PROVE  listed[target] = {load.partNumber : load \in Meant(target)}
    BY DEF ListsTheTargetsLoads
  <2> QED
    BY TargetLoadsAreMeant DEF FilesInv, Listed, PartNumbersOf
<1> QED
  BY <1>1, FilesInvHolds, PTL

-----------------------------------------------------------------------------
(* What the target reads.                                                  *)

LEMMA BatchMeant ==
  ASSUME commandLine.command = "BatchUpload", SourcesOf(commandLine).ok,
         NEW target \in Targets
  PROVE  /\ MediaSet \in DOMAIN MediaSets
         /\ BatchLoads(target) \in Seq(MediaSets[MediaSet])
         /\ Meant(target) = Range(BatchLoads(target))
<1> DEFINE batchFile == Single(commandLine, "batchFile")
<1>1. SourcesOf(commandLine) = BatchSources(commandLine)
  BY DEF SourcesOf, Refused
<1>2. MediaSet \in DOMAIN MediaSets /\ batchFile \in DOMAIN Batches[MediaSet]
  BY <1>1 DEF BatchSources, Refused, MediaSet
<1>3. Batches[MediaSet][batchFile] \in [Targets -> Seq(MediaSets[MediaSet])]
  BY <1>2, FilesAssumption
<1>4. BatchLoads(target) = Batches[MediaSet][batchFile][target]
  BY DEF BatchLoads
<1>5. Meant(target) = Range(BatchLoads(target))
  BY DEF Meant
<1> HIDE DEF batchFile
<1> QED
  BY <1>2, <1>3, <1>4, <1>5

LEMMA UploadMediaSet ==
  ASSUME commandLine.command = "Upload", SourcesOf(commandLine).ok
  PROVE  MediaSet \in DOMAIN MediaSets
BY DEF SourcesOf, UploadSources, Refused, MediaSet

(* Directories that are imported are those of the command line, each with  *)
(* its medium's number, and there is one for each medium of a load.        *)
LEMMA AdhocDirectories ==
  ASSUME commandLine \in CommandLines, commandLine.command = "AdhocUpload",
         SourcesOf(commandLine).ok
  PROVE  LET paths == MediaPaths(Directories)
             mediaSet == Directories[1].mediaSet
         IN  /\ mediaSet \in DOMAIN MediaSets
             /\ \A medium \in DOMAIN paths :
                  /\ paths[medium] \in Range(Directories)
                  /\ paths[medium].medium = medium
                  /\ paths[medium].mediaSet = mediaSet
                  /\ medium # NoMedium
             /\ \A load \in MediaSets[mediaSet] : \A name \in DOMAIN load.files :
                  load.files[name] \in DOMAIN paths
<1> DEFINE of(medium) == {i \in DOMAIN Directories : Directories[i].medium = medium}
           paths == MediaPaths(Directories)
           mediaSet == Directories[1].mediaSet
           sets == {paths[medium].mediaSet : medium \in DOMAIN paths}
<1>1. paths = [medium \in {directory.medium : directory \in Range(Directories)} |->
                 Directories[Min(of(medium))]]
  BY DEF MediaPaths
<1>2. mediaSet \in Imported(paths) /\ \A i \in DOMAIN Directories : Directories[i].medium # NoMedium
  BY AdhocMeant
<1>3. DOMAIN Directories \subseteq Nat
  BY ParametersAreNumbered DEF Directories
<1> HIDE DEF paths
<1>4. ASSUME NEW medium \in DOMAIN paths
      PROVE  /\ paths[medium] \in Range(Directories)
             /\ paths[medium].medium = medium
             /\ medium # NoMedium
  <2>1. of(medium) # {}
    BY <1>1, <1>4 DEF Range
  <2>2. Min(of(medium)) \in of(medium)
    BY <1>3, <2>1, MinIsLeast
  <2>3. paths[medium] = Directories[Min(of(medium))]
    BY <1>1, <1>4
  <2> QED
    BY <1>2, <2>2, <2>3 DEF Range
<1>5. /\ mediaSet \in sets
      /\ \A s, t \in sets : s = t
      /\ UNION {Range(load.files) : load \in UNION {MediaSets[s] : s \in sets}} = DOMAIN paths
  BY <1>2 DEF Imported
<1>6. \A medium \in DOMAIN paths : paths[medium].mediaSet = mediaSet
  BY <1>5
<1>7. \A load \in MediaSets[mediaSet] : \A name \in DOMAIN load.files :
        load.files[name] \in DOMAIN paths
  <2> SUFFICES ASSUME NEW load \in MediaSets[mediaSet], NEW name \in DOMAIN load.files
               PROVE  load.files[name] \in DOMAIN paths
    OBVIOUS
  <2>1. load \in UNION {MediaSets[s] : s \in sets}
    BY <1>5
  <2>2. load.files[name] \in Range(load.files)
    BY DEF Range
  <2> HIDE DEF sets
  <2> QED
    BY <1>5, <2>1, <2>2
<1>8. mediaSet \in DOMAIN MediaSets
  <2>1. PICK medium \in DOMAIN paths : TRUE
    BY <1>5
  <2>2. Accepted(commandLine.command, commandLine.parameters)
    BY DEF SourcesOf, Refused
  <2>3. \A directory \in Range(Directories) :
          directory.medium # NoMedium => directory.mediaSet \in DOMAIN MediaSets
    BY <2>2, LibraryAssumption DEF Directories, All
  <2> QED
    BY <1>4, <1>6, <2>1, <2>3
<1> QED
  BY <1>4, <1>6, <1>7, <1>8 DEF paths

IsSequence(s) == Len(s) \in Nat /\ DOMAIN s = 1..Len(s)

LEMMA LengthOfFunction ==
  ASSUME NEW f, NEW n \in Nat, DOMAIN f = 1..n, f = [i \in 1..n |-> f[i]]
  PROVE  IsSequence(f)
<1>1. f \in [1..n -> Range(f)]
  BY DEF Range
<1>2. f \in Seq(Range(f)) /\ Len(f) = n
  <2> HIDE DEF Range
  <2> QED
    BY <1>1
<1> QED
  BY <1>2 DEF IsSequence

LEMMA LoadsOfHeadersSequence ==
  ASSUME NEW mediaSet, NEW headers, IsSequence(headers), NEW media,
         LoadsOfHeaders(mediaSet, headers, media).ok
  PROVE  IsSequence(LoadsOfHeaders(mediaSet, headers, media).loads)
<1> DEFINE found(i) == RecursiveLoads(mediaSet, headers[i])
           loaded == [i \in DOMAIN headers |-> CHOOSE load \in found(i) : TRUE]
<1>1. LoadsOfHeaders(mediaSet, headers, media).loads = loaded
  BY DEF LoadsOfHeaders, Refused, Sources
<1>2. DOMAIN loaded = 1..Len(headers) /\ loaded = [i \in 1..Len(headers) |-> loaded[i]]
  BY DEF IsSequence
<1> HIDE DEF loaded
<1>3. IsSequence(loaded)
  BY <1>2, LengthOfFunction DEF IsSequence
<1> QED
  BY <1>1, <1>3

LEMMA SourceLoadsSequence ==
  ASSUME commandLine \in CommandLines, SourcesOf(commandLine).ok,
         commandLine.command # "BatchUpload"
  PROVE  IsSequence(SourcesOf(commandLine).loads)
<1>1. IsSequence(Headers)
  BY ParametersAreNumbered DEF IsSequence, Headers
<1>2. CASE commandLine.command = "Upload"
  <2>1. SourcesOf(commandLine) = LoadsOfHeaders(MediaSet, Headers, <<>>)
    BY <1>2 DEF SourcesOf, UploadSources, Refused, MediaSet, Headers
  <2> QED
    BY <1>1, <2>1, LoadsOfHeadersSequence
<1>3. CASE commandLine.command = "AdhocUpload"
  <2> DEFINE paths == MediaPaths(Directories)
             mediaSet == CHOOSE set \in Imported(paths) : TRUE
  <2>1. SourcesOf(commandLine) = LoadsOfHeaders(mediaSet, Headers, paths)
    BY <1>3 DEF SourcesOf, AdhocSources, Refused, Headers, Directories
  <2> HIDE DEF paths, mediaSet
  <2> QED
    BY <1>1, <2>1, LoadsOfHeadersSequence
<1>4. CASE commandLine.command = "UploadLoads"
  <2> DEFINE loaded == [i \in DOMAIN Headers |-> CHOOSE load \in FoundBy(Headers[i]) : TRUE]
  <2>1. SourcesOf(commandLine).loads = loaded
    BY <1>4 DEF SourcesOf, HeaderSources, Refused, Headers, FoundBy, Sources
  <2>2. DOMAIN loaded = 1..Len(Headers) /\ loaded = [i \in 1..Len(Headers) |-> loaded[i]]
    BY <1>1 DEF IsSequence
  <2> HIDE DEF loaded
  <2> QED
    BY <1>1, <2>1, <2>2, LengthOfFunction DEF IsSequence
<1> QED
  BY <1>2, <1>3, <1>4, FilesAssumption DEF Commands

Used ==
  /\ commandLine \in CommandLines
  /\ batch = (commandLine.command = "BatchUpload")
  /\ SourcesOf(commandLine).ok

(* The loads of a target are those that are meant for it.                  *)
LEMMA ServedLoads ==
  ASSUME Used, NEW target \in Targets
  PROVE  /\ IsSequence(TargetLoads(target))
         /\ Range(TargetLoads(target)) = Meant(target)
         /\ Meant(target) \subseteq UNION Range(MediaSets)
<1> USE DEF Used
<1>1. CASE commandLine.command = "BatchUpload"
  <2>1. /\ MediaSet \in DOMAIN MediaSets
        /\ BatchLoads(target) \in Seq(MediaSets[MediaSet])
        /\ Meant(target) = Range(BatchLoads(target))
    BY <1>1, BatchMeant
  <2>2. TargetLoads(target) = BatchLoads(target)
    BY <1>1 DEF TargetLoads
  <2>3. IsSequence(BatchLoads(target))
    BY <2>1 DEF IsSequence
  <2>4. Range(BatchLoads(target)) \subseteq MediaSets[MediaSet]
    BY <2>1, <2>3 DEF Range, IsSequence
  <2>5. MediaSets[MediaSet] \in Range(MediaSets)
    BY <2>1 DEF Range
  <2> QED
    BY <2>1, <2>2, <2>3, <2>4, <2>5
<1>2. CASE commandLine.command # "BatchUpload"
  <2> DEFINE loaded == SourcesOf(commandLine).loads
  <2>1. TargetLoads(target) = loaded
    BY <1>2 DEF TargetLoads
  <2>2. IsSequence(loaded)
    BY <1>2, SourceLoadsSequence
  <2> HIDE DEF loaded
  <2>3. CASE commandLine.command = "Upload"
    <3>1. Range(loaded) = Meant(target)
      BY <2>3, UploadMeant DEF loaded
    <3>2. Meant(target) \subseteq MediaSets[MediaSet]
      BY <2>3 DEF Meant
    <3>3. MediaSets[MediaSet] \in Range(MediaSets)
      BY <2>3, UploadMediaSet DEF Range
    <3> QED
      BY <2>1, <2>2, <3>1, <3>2, <3>3
  <2>4. CASE commandLine.command = "AdhocUpload"
    <3>1. Range(loaded) = Meant(target)
      BY <2>4, AdhocMeant DEF loaded
    <3>2. Meant(target) \subseteq MediaSets[Directories[1].mediaSet]
      BY <2>4 DEF Meant, Directories, Single, Value, All
    <3>3. MediaSets[Directories[1].mediaSet] \in Range(MediaSets)
      BY <2>4, AdhocDirectories DEF Range
    <3> QED
      BY <2>1, <2>2, <3>1, <3>2, <3>3
  <2>5. CASE commandLine.command = "UploadLoads"
    <3>1. /\ \A i \in DOMAIN loaded : loaded[i] \in Meant(target)
          /\ \A load \in Meant(target) : \E i \in DOMAIN loaded :
               load.partNumber = loaded[i].partNumber
      BY <2>5, FoundIsMeant DEF loaded
    <3>2. Meant(target) \subseteq UNION Range(MediaSets)
      BY <2>5 DEF Meant
    <3>3. \A load \in Meant(target) : \E i \in DOMAIN loaded : load = loaded[i]
      BY <3>1, <3>2, LibraryAssumption
    <3>4. Range(loaded) = Meant(target)
      BY <3>1, <3>3 DEF Range
    <3> QED
      BY <2>1, <2>2, <3>2, <3>4
  <2> QED
    BY <1>2, <2>3, <2>4, <2>5, FilesAssumption DEF Commands
<1> QED
  BY <1>1, <1>2

(* What the load at a place of the list answers for one of its files.      *)
AnswerAt(place, name) ==
  CASE commandLine.command \in {"Upload", "BatchUpload"} -> ManagedFile(place, name)
    [] commandLine.command = "AdhocUpload" -> AdhocFile(place, name)
    [] commandLine.command = "UploadLoads" -> HeaderFile(place, name)

(* It is what one of the directories meant for it holds under that name.   *)
LEMMA AnswerIsHeld ==
  ASSUME Used, Loaded, NEW target \in Targets, loads = TargetLoads(target),
         NEW place \in DOMAIN loads, NEW name \in DOMAIN loads[place].files
  PROVE  \E directory \in Places(loads[place], name) :
           /\ AnswerAt(place, name) = Content(directory, name)
           /\ Holds(directory, loads[place], name)
<1> DEFINE load == loads[place]
<1>1. load \in Meant(target)
  BY ServedLoads DEF Range
<1>2. CASE commandLine.command \in {"Upload", "BatchUpload"}
  <2> DEFINE directory == Managed[MediaSet][load.files[name]]
  <2>1. AnswerAt(place, name) = Content(directory, name)
    BY <1>2 DEF AnswerAt, ManagedFile
  <2>2. directory \in Places(load, name)
    BY <1>2 DEF Places
  <2>3. MediaSet \in DOMAIN MediaSets /\ load \in MediaSets[MediaSet]
    <3>1. CASE commandLine.command = "Upload"
      BY <1>1, <3>1, UploadMediaSet DEF Meant, Used
    <3>2. CASE commandLine.command = "BatchUpload"
      <4>1. /\ MediaSet \in DOMAIN MediaSets
            /\ BatchLoads(target) \in Seq(MediaSets[MediaSet])
            /\ Meant(target) = Range(BatchLoads(target))
        BY <3>2, BatchMeant DEF Used
      <4>2. Range(BatchLoads(target)) \subseteq MediaSets[MediaSet]
        BY <4>1 DEF Range
      <4> QED
        BY <1>1, <4>1, <4>2
    <3> QED
      BY <1>2, <3>1, <3>2
  <2>4. Holds(directory, load, name)
    BY <2>3, LibraryAssumption
  <2> QED
    BY <2>1, <2>2, <2>4
<1>3. CASE commandLine.command = "AdhocUpload"
  <2> DEFINE medium == load.files[name]
             directory == mediaPaths[medium]
             mediaSet == Directories[1].mediaSet
  <2>1. mediaPaths = MediaPaths(Directories)
    BY <1>3, AdhocMeant DEF Used, Loaded
  <2>2. load \in MediaSets[mediaSet]
    BY <1>1, <1>3 DEF Meant, Directories, Single, Value, All
  <2>3. medium \in DOMAIN mediaPaths
    BY <1>3, <2>1, <2>2, AdhocDirectories DEF Used
  <2>4. /\ directory \in Range(Directories)
        /\ directory.medium = medium
        /\ directory.mediaSet = mediaSet
        /\ medium # NoMedium
    BY <1>3, <2>1, <2>3, AdhocDirectories DEF Used
  <2>5. AnswerAt(place, name) = Content(directory, name)
    BY <1>3, <2>3 DEF AnswerAt, AdhocFile
  <2>6. directory \in Places(load, name)
    BY <1>3, <2>4 DEF Places, Directories
  <2>7. Holds(directory, load, name)
    <3>1. Accepted(commandLine.command, commandLine.parameters)
      BY DEF SourcesOf, Refused, Used
    <3>2. \A held \in MediaSets[directory.mediaSet] : \A file \in DOMAIN held.files :
            held.files[file] = directory.medium => Holds(directory, held, file)
      BY <1>3, <2>4, <3>1, LibraryAssumption DEF Used, Directories, All
    <3> QED
      BY <2>2, <2>4, <3>2
  <2> QED
    BY <2>5, <2>6, <2>7
<1>4. CASE commandLine.command = "UploadLoads"
  <2> DEFINE directory == Headers[place].directory
  <2>1. /\ place \in DOMAIN Headers
        /\ load \in FoundBy(Headers[place])
        /\ mediaSetPaths = [i \in DOMAIN Headers |-> Headers[i].directory]
    BY <1>4, HeaderMeant DEF Used, Loaded, TargetLoads
  <2>2. AnswerAt(place, name) = Content(directory, name)
    BY <1>4, <2>1 DEF AnswerAt, HeaderFile
  <2>3. Headers[place] \in Range(Headers) /\ Headers[place].name = load.header
    BY <2>1 DEF Range, FoundBy, Decompiled
  <2>4. directory \in Places(load, name)
    BY <1>4, <2>3 DEF Places, Headers
  <2>5. Holds(directory, load, name)
    <3>1. Accepted(commandLine.command, commandLine.parameters)
      BY DEF SourcesOf, Refused, Used
    <3>2. \A held \in FoundBy(Headers[place]) : \A file \in DOMAIN held.files :
            Holds(directory, held, file)
      BY <1>4, <2>3, <3>1, LibraryAssumption DEF Used, Headers, All, FoundBy
    <3> QED
      BY <2>1, <3>2
  <2> QED
    BY <2>2, <2>4, <2>5
<1> QED
  BY <1>2, <1>3, <1>4, FilesAssumption DEF Commands, Used

Asked(load, request) ==
  /\ request.name \in DOMAIN load.files
  /\ request.partNumber \in {NoPartNumber, load.partNumber}

(* The first of the loads that has the file, if there is one.              *)
LEMMA FirstLoad ==
  ASSUME IsSequence(loads), NEW request
  PROVE  \/ LoadsFile(request) = 0 /\ \A i \in DOMAIN loads : ~Asked(loads[i], request)
         \/ LoadsFile(request) \in DOMAIN loads /\ Asked(loads[LoadsFile(request)], request)
<1> DEFINE places == {i \in 1..Len(loads) : Asked(loads[i], request)}
<1>1. LoadsFile(request) = IF places # {} THEN Min(places) ELSE 0
  BY DEF LoadsFile, SelectInSeq, Asked
<1>2. places # {} => Min(places) \in places
  BY MinIsLeast DEF IsSequence
<1> QED
  BY <1>1, <1>2 DEF IsSequence

(* What a target reads, when the server that runs is that of the command's *)
(* current target and the loads are those of this target.                  *)
LEMMA AnswersAreMeant ==
  ASSUME Used, Loaded, NEW target \in Targets, loads = TargetLoads(target), NEW request
  PROVE  LET owners == {load \in Meant(target) : Asked(load, request)}
         IN  /\ Answer(request) \in {load.partNumber : load \in owners} \cup {Missing}
             /\ \A load \in owners :
                  /\ request.partNumber # NoPartNumber
                  /\ \A place \in Places(load, request.name) :
                       Content(place, request.name) = load.partNumber
                  => Answer(request) = load.partNumber
<1> DEFINE owners == {load \in Meant(target) : Asked(load, request)}
           place == LoadsFile(request)
<1>1. /\ IsSequence(loads)
      /\ Range(loads) = Meant(target)
      /\ Meant(target) \subseteq UNION Range(MediaSets)
  BY ServedLoads
<1>2. \/ place = 0 /\ \A i \in DOMAIN loads : ~Asked(loads[i], request)
      \/ place \in DOMAIN loads /\ Asked(loads[place], request)
  BY <1>1, FirstLoad
<1>3. Answer(request) = IF place = 0 THEN Missing ELSE AnswerAt(place, request.name)
  BY DEF Answer, AnswerAt
<1>4. 0 \notin DOMAIN loads
  BY <1>1 DEF IsSequence
<1> HIDE DEF place
<1>5. CASE place = 0
  <2>1. owners = {}
    BY <1>1, <1>2, <1>4, <1>5 DEF Range
  <2> QED
    BY <1>3, <1>5, <2>1
<1>6. CASE place # 0
  <2> DEFINE first == loads[place]
  <2>1. place \in DOMAIN loads /\ Asked(first, request)
    BY <1>2, <1>6
  <2>2. first \in Meant(target)
    BY <1>1, <2>1 DEF Range
  <2>3. PICK directory \in Places(first, request.name) :
          /\ Answer(request) = Content(directory, request.name)
          /\ Holds(directory, first, request.name)
    BY <1>3, <1>6, <2>1, AnswerIsHeld DEF Asked
  <2>4. Answer(request) \in {first.partNumber, Missing}
    BY <2>3 DEF Holds
  <2> HIDE DEF first
  <2>5. ASSUME NEW load \in owners, request.partNumber # NoPartNumber,
               \A held \in Places(load, request.name) :
                 Content(held, request.name) = load.partNumber
        PROVE  Answer(request) = load.partNumber
    <3>1. load.partNumber = request.partNumber /\ first.partNumber = request.partNumber
      BY <2>1, <2>5 DEF Asked
    <3>2. load = first
      BY <1>1, <2>2, <2>5, <3>1, LibraryAssumption
    <3> QED
      BY <2>3, <2>5, <3>2
  <2> QED
    BY <2>1, <2>2, <2>4, <2>5
<1> QED
  BY <1>5, <1>6

(* What a target reads is a file of a load that is meant for it, of the    *)
(* part number it asks for, and a file that every directory meant for its  *)
(* load holds is not refused, from whatever media sets, directories and    *)
(* batch files (fileRequest of each command).                              *)
THEOREM FilesServeTheTargetsFiles == FilesSpec => []ServesTheTargetsFiles
<1>1. BatchInv /\ FilesInv => ServesTheTargetsFiles
  <2> SUFFICES ASSUME BatchInv, FilesInv, ~undefined,
                      NEW target \in {t \in Targets : listening[t]}, NEW request \in Requests
               PROVE  LET owners == {load \in Meant(target) : Asked(load, request)}
                      IN  /\ Answer(request) \in {load.partNumber : load \in owners} \cup {Missing}
                          /\ \A load \in owners :
                               /\ request.partNumber # NoPartNumber
                               /\ \A place \in Places(load, request.name) :
                                    Content(place, request.name) = load.partNumber
                               => Answer(request) = load.partNumber
    BY DEF ServesTheTargetsFiles, Asked
  <2>1. target = proxy /\ target \in Targets
    BY DEF BatchInv, OneServer
  <2>2. Loaded /\ loads = TargetLoads(target)
    BY <2>1, NoTargetIsNoTarget DEF FilesInv, Loaded
  <2>3. Used
    BY <2>2 DEF FilesInv, Loaded, Used
  <2> QED
    BY <2>1, <2>2, <2>3, AnswersAreMeant
<1> QED
  BY <1>1, FilesInvHolds, PTL

=============================================================================
