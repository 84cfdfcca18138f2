------------------------- MODULE FindSessionProofs -------------------------
(***************************************************************************)
(* Theorems about FindSession, for every set of targets and datagrams and  *)
(* every number of signals; and about TargetsList, for all files there may *)
(* have been.                                                              *)
(***************************************************************************)
EXTENDS TargetsList, FiniteSetTheorems, SequenceTheorems, WellFoundedInduction, TLAPS

(* What happens at the servers does not reach the query but by a datagram. *)
LEMMA QueryStep == [Next]_vars => [QuerySide]_queryVars
BY DEF Next, vars, QuerySide

LEMMA CompletionIsNotNone ==
  /\ Pending # None /\ Error # None
  /\ \A remote, raw : Data(remote, raw) # None
BY DEF Pending, Error, Data, None

(* A datagram or an error completes the reception, and nothing else        *)
(* changes.                                                                *)
LEMMA HeardSomething ==
  ASSUME QueryHears
  PROVE  /\ reception' # None
         /\ UNCHANGED <<mainThread, signals, socket, timer, finishedCalls, targets, saved, heard,
                       crashed>>
BY CompletionIsNotNone DEF QueryHears, Arrives

-----------------------------------------------------------------------------
(* Listening.                                                              *)

QueryTypes ==
  /\ finishedCalls \in Nat
  /\ signals \in Nat

(* What is received completes nothing, and only the race for the targets   *)
(* ends the process.                                                       *)
LEMMA ReceptionHandled ==
  ASSUME ReceiveHandler
  PROVE  /\ reception' # None
         /\ UNCHANGED <<mainThread, signals, socket, timer, finishedCalls, saved, heard>>
         /\ crashed' = crashed \/ mainThread = "woken"
BY CompletionIsNotNone DEF ReceiveHandler, Received, Response, ReadsTargets, Receive

(* The parts of a query that start() has set up so far stay, until it is   *)
(* completed: the socket first, then the reception, then the timer.        *)
SetUp ==
  finishedCalls = 0 /\ ~crashed =>
    /\ mainThread \in {"opened", "sent", "receiving", "waiting"} => socket = "open"
    /\ mainThread \in {"receiving", "waiting"} => reception # None
    /\ mainThread = "waiting" => timer # "none"

ListenInv == QueryTypes /\ SetUp

LEMMA ListenStep == ListenInv /\ [Next]_vars => ListenInv'
<1> SUFFICES ASSUME ListenInv, [QuerySide]_queryVars
             PROVE  ListenInv'
  BY QueryStep
<1> USE DEF ListenInv, QueryTypes, SetUp
<1>1. CASE MainThread
  <2>1. CASE Open \/ BindAndSend \/ StartTimer
    BY <2>1 DEF Open, BindAndSend, StartTimer, Goes
  <2>2. CASE StartReceive
    BY <2>2, CompletionIsNotNone DEF StartReceive, Receive, Goes
  <2>3. CASE StartThrows
    BY <2>3 DEF StartThrows, Completes, Goes
  <2>4. CASE DoneWaitReturns \/ WriteList \/ ExecuteReturns \/ StopIoContext
    BY <2>4 DEF DoneWaitReturns, WriteList, ExecuteReturns, StopIoContext, Goes
  <2> QED
    BY <1>1, <2>1, <2>2, <2>3, <2>4 DEF MainThread
<1>2. CASE Abort
  BY <1>2 DEF Abort, Close, CloseSocket, Completes
<1>3. CASE TimerExpires
  BY <1>3 DEF TimerExpires
<1>4. CASE TimerHandler
  BY <1>4 DEF TimerHandler, Close, CloseSocket, Completes
<1>5. CASE ReceiveHandler
  BY <1>5, ReceptionHandled
<1>6. CASE HandlerOfDestroyedQuery
  BY <1>6 DEF HandlerOfDestroyedQuery
<1>7. CASE QueryHears
  BY <1>7, HeardSomething
<1>8. CASE UNCHANGED queryVars
  BY <1>8 DEF queryVars
<1> QED
  BY <1>1, <1>2, <1>3, <1>4, <1>5, <1>6, <1>7, <1>8 DEF QuerySide, IoThread

(* A started query listens until it is completed, whatever arrives and     *)
(* however its receptions fail.                                            *)
THEOREM FindListens == Spec => []ListensUntilDone
<1>1. Init => ListenInv
  BY DEF Init, QueryInit, ListenInv, QueryTypes, SetUp
<1>2. ListenInv => ListensUntilDone
  BY DEF ListenInv, SetUp, ListensUntilDone
<1> QED
  BY <1>1, <1>2, ListenStep, PTL DEF Spec

-----------------------------------------------------------------------------
(* Completion.                                                             *)

Beginning == {"connected", "opened", "sent", "receiving"}

(* What can still complete the query without another signal: start() while *)
(* it has not set the timer, and the timer from then on.                   *)
ToComplete == IF mainThread \in Beginning \/ timer # "none" THEN 1 ELSE 0

(* The timer is what completes a query nobody aborts: it is there as long  *)
(* as the query is not complete, and gone when it is.                      *)
TimerCompletes ==
  signals = 0 =>
    /\ mainThread \in Beginning \cup {"waiting", "written"} => ~crashed
    /\ mainThread \in Beginning => finishedCalls = 0
    /\ mainThread \in {"opened", "sent", "receiving"} => socket = "open"
    /\ mainThread = "waiting" =>
         \/ finishedCalls = 0 /\ timer # "none" /\ socket = "open"
         \/ finishedCalls = 1 /\ timer = "none"
    /\ mainThread \in {"woken", "written"} => timer = "none"
    /\ mainThread \in {"woken", "written", "returned", "stopped"} => finishedCalls = 1

CompletionInv ==
  /\ QueryTypes
  /\ mainThread \in MainThreadStates
  /\ mainThread \in Beginning => timer = "none"
  /\ finishedCalls + ToComplete <= signals + 1
  /\ TimerCompletes

LEMMA CompletionStep == CompletionInv /\ [Next]_vars => CompletionInv'
<1> SUFFICES ASSUME CompletionInv, [QuerySide]_queryVars
             PROVE  CompletionInv'
  BY QueryStep
<1> USE DEF CompletionInv, QueryTypes, MainThreadStates, ToComplete, TimerCompletes, Beginning
<1>1. CASE MainThread
  <2>1. CASE Open \/ BindAndSend \/ StartReceive \/ StartTimer
    BY <2>1 DEF Open, BindAndSend, StartReceive, StartTimer, Goes
  <2>2. CASE StartThrows
    BY <2>2 DEF StartThrows, Completes, Goes
  <2>3. CASE DoneWaitReturns \/ WriteList
    BY <2>3 DEF DoneWaitReturns, WriteList, Goes
  <2>4. CASE ExecuteReturns \/ StopIoContext
    BY <2>4 DEF ExecuteReturns, StopIoContext, Goes
  <2> QED
    BY <1>1, <2>1, <2>2, <2>3, <2>4 DEF MainThread
<1>2. CASE Abort
  BY <1>2 DEF Abort, Close, Completes
<1>3. CASE TimerExpires
  BY <1>3 DEF TimerExpires
<1>4. CASE TimerHandler
  BY <1>4 DEF TimerHandler, Close, CloseSocket, Completes, Runs
<1>5. CASE ReceiveHandler
  BY <1>5, ReceptionHandled
<1>6. CASE HandlerOfDestroyedQuery
  BY <1>6 DEF HandlerOfDestroyedQuery
<1>7. CASE QueryHears
  BY <1>7, HeardSomething
<1>8. CASE UNCHANGED queryVars
  BY <1>8 DEF queryVars
<1> QED
  BY <1>1, <1>2, <1>3, <1>4, <1>5, <1>6, <1>7, <1>8 DEF QuerySide, IoThread

(* Each signal completes a query at most once more.  Without one it is     *)
(* completed once and by its timer, and no handler throws before the main  *)
(* thread is woken.                                                        *)
THEOREM FindCompletedOnce == Spec => []CompletedOnce
<1>1. Init => CompletionInv
  BY DEF Init, QueryInit, CompletionInv, QueryTypes, MainThreadStates, ToComplete,
         TimerCompletes, Beginning
<1>2. CompletionInv => CompletedOnce
  BY DEF CompletionInv, QueryTypes, MainThreadStates, ToComplete, TimerCompletes, Beginning,
         CompletedOnce
<1> QED
  BY <1>1, <1>2, CompletionStep, PTL DEF Spec

-----------------------------------------------------------------------------
(* Numbers.                                                                *)

Less == {pair \in Nat \X Nat : pair[1] < pair[2]}

LEMMA LessIsWellFounded == IsWellFoundedOn(Less, Nat)
<1>1. OpToRel(<, Nat) = Less
  BY Zenon DEF OpToRel, Less
<1> QED
  BY <1>1, NatLessThanWellFounded, Zenon

LEMMA MinIsLeast ==
  ASSUME NEW S \in SUBSET Nat, S # {}
  PROVE  Min(S) \in S /\ \A y \in S : Min(S) <= y
<1>1. PICK x \in S : \A y \in S : <<y, x>> \notin Less
  BY LessIsWellFounded, WFMin
<1>2. ASSUME NEW y \in S
      PROVE  x <= y
  <2>1. <<y, x>> \notin Less
    BY <1>1
  <2>2. y < x => <<y, x>> \in Less
    BY DEF Less
  <2> QED
    BY <2>1, <2>2
<1> QED
  BY <1>2 DEF Min

(* Induction, over the numbers that are in a set.                          *)
LEMMA AllNumbersUpto ==
  ASSUME NEW n \in Nat, NEW S, 0 \in S, \A i \in 1..n : i - 1 \in S => i \in S
  PROVE  0..n \subseteq S
<1> SUFFICES ASSUME (0..n) \ S # {}
             PROVE  FALSE
  OBVIOUS
<1>1. (0..n) \ S \in SUBSET Nat
  OBVIOUS
<1> DEFINE least == Min((0..n) \ S)
<1>2. least \in (0..n) \ S /\ \A y \in (0..n) \ S : least <= y
  BY <1>1, MinIsLeast
<1> HIDE DEF least
<1>3. least \in 1..n /\ least - 1 \in 0..n /\ ~(least <= least - 1)
  BY <1>2
<1> QED
  BY <1>2, <1>3

-----------------------------------------------------------------------------
(* A packet is decoded to what was encoded.                                *)

(* The first strings of a sequence, joined, each with its terminator.      *)
Joined(flat, strings, n) ==
  /\ flat \in [0..n -> Seq(0..255)]
  /\ flat[0] = <<>>
  /\ \A k \in 1..n : flat[k] = flat[k - 1] \o Append(strings[k], StringTerminator)

IsFlatten(flatten, seqs) ==
  flatten = [i \in 1..Len(seqs) |-> IF i = 1 THEN seqs[i] ELSE flatten[i - 1] \o seqs[i]]

LEMMA FlattenExists ==
  ASSUME NEW seqs, Len(seqs) \in Nat
  PROVE  \E flatten : IsFlatten(flatten, seqs)
<1> DEFINE Upto(flatten, n) ==
             flatten = [i \in 1..n |-> IF i = 1 THEN seqs[i] ELSE flatten[i - 1] \o seqs[i]]
           S == {n \in 0..Len(seqs) : \E flatten : Upto(flatten, n)}
<1>1. 0 \in S
  <2>1. Upto([i \in 1..0 |-> 0], 0) /\ 0 \in 0..Len(seqs)
    OBVIOUS
  <2> HIDE DEF Upto
  <2> QED
    BY <2>1
<1>2. ASSUME NEW n \in 1..Len(seqs), n - 1 \in S
      PROVE  n \in S
  <2>1. PICK flatten : Upto(flatten, n - 1)
    BY <1>2
  <2> DEFINE next == IF n = 1 THEN seqs[n] ELSE flatten[n - 1] \o seqs[n]
             longer == [i \in 1..n |-> IF i = n THEN next ELSE flatten[i]]
  <2>2. \A i \in 1..(n - 1) :
          longer[i] = IF i = 1 THEN seqs[i] ELSE longer[i - 1] \o seqs[i]
    <3> HIDE DEF next
    <3> TAKE i \in 1..(n - 1)
    <3>1. flatten[i] = IF i = 1 THEN seqs[i] ELSE flatten[i - 1] \o seqs[i]
      BY <2>1
    <3>2. longer[i] = flatten[i]
      OBVIOUS
    <3>3. i # 1 => longer[i - 1] = flatten[i - 1]
      OBVIOUS
    <3> HIDE DEF longer
    <3> QED
      BY <3>1, <3>2, <3>3
  <2>3. longer[n] = IF n = 1 THEN seqs[n] ELSE longer[n - 1] \o seqs[n]
    OBVIOUS
  <2> HIDE DEF next
  <2>4. DOMAIN longer = 1..n /\ longer = [i \in 1..n |-> longer[i]]
    OBVIOUS
  <2> HIDE DEF longer
  <2>5. \A i \in 1..n : longer[i] = IF i = 1 THEN seqs[i] ELSE longer[i - 1] \o seqs[i]
    BY <2>2, <2>3
  <2>6. Upto(longer, n)
    BY <2>5 DEF longer
  <2>7. n \in 0..Len(seqs)
    OBVIOUS
  <2> HIDE DEF Upto
  <2> QED
    BY <2>6, <2>7
<1> HIDE DEF S
<1>3. 0..Len(seqs) \subseteq S
  BY <1>1, <1>2, AllNumbersUpto
<1>4. Len(seqs) \in S
  BY <1>3
<1> QED
  BY <1>4 DEF S, IsFlatten

LEMMA FlattenSeqIsJoined ==
  ASSUME NEW n \in Nat \ {0}, NEW strings \in [1..n -> Seq(1..255)]
  PROVE  \E flat : /\ Joined(flat, strings, n)
                   /\ flat[n] = FlattenSeq([i \in 1..n |-> Append(strings[i], StringTerminator)])
<1> DEFINE seqs == [i \in 1..n |-> Append(strings[i], StringTerminator)]
           flatten == CHOOSE f : IsFlatten(f, seqs)
           flat == [i \in 0..n |-> IF i = 0 THEN <<>> ELSE flatten[i]]
<1>1. seqs \in Seq(Seq(0..255)) /\ Len(seqs) = n
  BY DEF StringTerminator
<1>2. \A i \in 1..n : seqs[i] \in Seq(0..255) /\ seqs[i] = Append(strings[i], StringTerminator)
  BY DEF StringTerminator
<1> HIDE DEF seqs
<1>3. FlattenSeq(seqs) = flatten[n]
  BY <1>1 DEF FlattenSeq, IsFlatten
<1>4. IsFlatten(flatten, seqs)
  BY <1>1, FlattenExists
<1> HIDE DEF flatten
<1>5. \A i \in 1..n : flatten[i] = IF i = 1 THEN seqs[i] ELSE flatten[i - 1] \o seqs[i]
  BY <1>1, <1>4 DEF IsFlatten
<1>6. flat[0] = <<>> /\ \A k \in 1..n : flat[k] = flatten[k]
  OBVIOUS
<1>7. DOMAIN flat = 0..n
  OBVIOUS
<1> HIDE DEF flat
<1>8. \A k \in 1..n : flat[k - 1] \in Seq(0..255) => flat[k] = flat[k - 1] \o seqs[k]
  <2> SUFFICES ASSUME NEW k \in 1..n, flat[k - 1] \in Seq(0..255)
               PROVE  flat[k] = flat[k - 1] \o seqs[k]
    OBVIOUS
  <2>1. CASE k = 1
    <3>1. flat[k] = seqs[1] /\ flat[k - 1] = <<>>
      BY <1>5, <1>6, <2>1
    <3>2. <<>> \o seqs[1] = seqs[1]
      BY <1>2
    <3> QED
      BY <2>1, <3>1, <3>2
  <2>2. CASE k # 1
    <3>1. flatten[k] = flatten[k - 1] \o seqs[k]
      BY <1>5, <2>2
    <3>2. k - 1 \in 1..n
      BY <2>2
    <3> QED
      BY <1>6, <3>1, <3>2
  <2> QED
    BY <2>1, <2>2
<1>9. \A k \in 0..n : flat[k] \in Seq(0..255)
  <2> DEFINE S == {k \in 0..n : flat[k] \in Seq(0..255)}
  <2>1. 0 \in S
    <3>1. <<>> \in Seq(0..255) /\ 0 \in 0..n
      OBVIOUS
    <3>2. flat[0] \in Seq(0..255)
      BY <1>6, <3>1, Zenon
    <3> QED
      BY <3>1, <3>2, Zenon
  <2>2. ASSUME NEW k \in 1..n, k - 1 \in S
        PROVE  k \in S
    <3>1. flat[k - 1] \in Seq(0..255)
      BY <2>2
    <3>2. flat[k] = flat[k - 1] \o seqs[k]
      BY <1>8, <3>1
    <3>3. flat[k - 1] \o seqs[k] \in Seq(0..255)
      <4> HIDE DEF S
      <4> QED
        BY <1>2, <3>1
    <3>4. k \in 0..n
      OBVIOUS
    <3> QED
      BY <3>2, <3>3, <3>4, Zenon
  <2> HIDE DEF S
  <2>3. 0..n \subseteq S
    BY <2>1, <2>2, AllNumbersUpto
  <2> QED
    BY <2>3 DEF S
<1>10. flat \in [0..n -> Seq(0..255)]
  BY <1>7, <1>9 DEF flat
<1>11. \A k \in 1..n : flat[k] = flat[k - 1] \o Append(strings[k], StringTerminator)
  <2> SUFFICES ASSUME NEW k \in 1..n
               PROVE  flat[k] = flat[k - 1] \o Append(strings[k], StringTerminator)
    OBVIOUS
  <2>1. flat[k - 1] \in Seq(0..255)
    BY <1>9
  <2> QED
    BY <1>2, <1>8, <2>1
<1>12. Joined(flat, strings, n)
  BY <1>6, <1>10, <1>11 DEF Joined
<1>13. flat[n] = FlattenSeq(seqs)
  BY <1>3, <1>6
<1> QED
  BY <1>12, <1>13 DEF seqs

(* A text that is another one, a string and its terminator.                *)
Continues(text, before, string) ==
  /\ Len(before) \in Nat
  /\ Len(string) \in Nat
  /\ Len(text) = Len(before) + Len(string) + 1
  /\ \A i \in 1..Len(before) : text[i] = before[i]
  /\ \A i \in 1..Len(string) : text[Len(before) + i] = string[i]
  /\ text[Len(text)] = StringTerminator

LEMMA JoinedStep ==
  ASSUME NEW n \in Nat \ {0}, NEW strings \in [1..n -> Seq(1..255)],
         NEW flat, Joined(flat, strings, n), NEW k \in 1..n
  PROVE  Continues(flat[k], flat[k - 1], strings[k])
<1> DEFINE before == flat[k - 1]
           string == strings[k]
<1>1. before \in Seq(0..255) /\ string \in Seq(1..255)
  BY DEF Joined
<1>2. flat[k] = before \o Append(string, StringTerminator)
  BY DEF Joined
<1> HIDE DEF before, string
<1>3. Len(flat[k]) = Len(before) + Len(string) + 1 /\ Len(before) \in Nat /\ Len(string) \in Nat
  BY <1>1, <1>2
<1>4. \A i \in 1..Len(before) : flat[k][i] = before[i]
  BY <1>1, <1>2
<1>5. \A i \in 1..Len(string) : flat[k][Len(before) + i] = string[i]
  BY <1>1, <1>2
<1>6. flat[k][Len(before) + Len(string) + 1] = StringTerminator
  BY <1>1, <1>2
<1> QED
  BY <1>3, <1>4, <1>5, <1>6 DEF before, string, Continues

Begins(text, before, number) ==
  /\ Len(before) \in Nat
  /\ Len(text) \in Nat
  /\ Len(before) + number <= Len(text)
  /\ \A i \in 1..Len(before) : text[i] = before[i]

LEMMA BeginsLonger ==
  ASSUME NEW longer, NEW text, NEW before, NEW string, NEW number \in Nat,
         Continues(longer, text, string), Begins(text, before, number)
  PROVE  Begins(longer, before, number + 1)
<1> DEFINE b == Len(before)
           t == Len(text)
           s == Len(string)
           l == Len(longer)
<1>1. b \in Nat /\ t \in Nat /\ s \in Nat /\ b + number <= t /\ l = t + s + 1
  BY DEF Continues, Begins
<1>2. \A i \in 1..t : longer[i] = text[i]
  BY DEF Continues
<1>3. \A i \in 1..b : text[i] = before[i]
  BY DEF Begins
<1>4. b + (number + 1) <= l /\ l \in Nat
  <2> HIDE DEF b, t, s, l
  <2> QED
    BY <1>1
<1>5. \A i \in 1..b : longer[i] = before[i]
  <2> HIDE DEF b, t, s, l
  <2> TAKE i \in 1..b
  <2>1. i \in 1..t
    BY <1>1
  <2> QED
    BY <1>2, <1>3, <2>1
<1> QED
  BY <1>1, <1>4, <1>5 DEF Begins

LEMMA JoinedPrefix ==
  ASSUME NEW n \in Nat \ {0}, NEW strings \in [1..n -> Seq(1..255)],
         NEW flat, Joined(flat, strings, n), NEW j \in 0..n
  PROVE  \A k \in 0..n : j <= k => Begins(flat[k], flat[j], k - j)
<1> DEFINE S == {k \in 0..n : j <= k => Begins(flat[k], flat[j], k - j)}
<1>1. Begins(flat[j], flat[j], j - j)
  <2>1. Len(flat[j]) \in Nat /\ j - j = 0
    BY DEF Joined
  <2> QED
    BY <2>1 DEF Begins
<1>2. 0 \in S
  <2>1. j <= 0 => j = 0
    OBVIOUS
  <2> QED
    BY <1>1, <2>1
<1>3. ASSUME NEW k \in 1..n, k - 1 \in S
      PROVE  k \in S
  <2>1. CASE j = k
    BY <1>1, <2>1
  <2>2. CASE j <= k - 1
    <3>1. Begins(flat[k - 1], flat[j], k - 1 - j)
      BY <1>3, <2>2
    <3>2. k - 1 - j \in Nat /\ k - 1 - j + 1 = k - j /\ k \in 0..n
      BY <2>2
    <3>3. Continues(flat[k], flat[k - 1], strings[k])
      BY JoinedStep
    <3>4. Begins(flat[k], flat[j], k - 1 - j + 1)
      BY <3>1, <3>2, <3>3, BeginsLonger
    <3> QED
      BY <3>2, <3>4
  <2>3. CASE ~(j <= k)
    BY <2>3
  <2> QED
    BY <2>1, <2>2, <2>3
<1>4. 0..n \subseteq S
  <2> HIDE DEF S
  <2> QED
    BY <1>2, <1>3, AllNumbersUpto
<1> QED
  BY <1>4

LEMMA JoinedBegins ==
  ASSUME NEW n \in Nat \ {0}, NEW strings \in [1..n -> Seq(1..255)],
         NEW flat, Joined(flat, strings, n), NEW j \in 0..n, NEW k \in j..n
  PROVE  Begins(flat[k], flat[j], k - j)
<1>1. k \in 0..n /\ j <= k
  OBVIOUS
<1> QED
  BY <1>1, JoinedPrefix

LEMMA NoTerminatorWithin ==
  ASSUME NEW word \in Seq(1..255), NEW i \in 1..Len(word)
  PROVE  word[i] # StringTerminator
<1>1. word[i] \in 1..255
  BY ElementOfSeq, Zenon
<1>2. 0 \notin 1..255
  OBVIOUS
<1> QED
  BY <1>1, <1>2, Zenon DEF StringTerminator

(* A part of a sequence that has the elements of another one is that one.  *)
LEMMA PartIs ==
  ASSUME NEW S, NEW part \in Seq(S), NEW whole, NEW place \in Nat,
         \A i \in 1..Len(part) : whole[place + i] = part[i]
  PROVE  SubSeq(whole, place + 1, place + Len(part)) = part
<1> DEFINE length == Len(part)
           sub == SubSeq(whole, place + 1, place + length)
<1>1. length \in Nat /\ \A i \in 1..length : part[i] \in S
  BY ElementOfSeq
<1>2. ASSUME NEW i \in (place + 1)..(place + length)
      PROVE  whole[i] \in S
  <2>1. i - place \in 1..length /\ place + (i - place) = i
    BY <1>1
  <2> QED
    BY <1>1, <2>1
<1> DEFINE from == place + 1
           to == place + length
<1>3. from \in Int /\ to \in Int /\ to - from + 1 = length
  BY <1>1
<1>4. \A i \in from..to : whole[i] \in S
  BY <1>2
<1> HIDE DEF from, to
<1>5. /\ SubSeq(whole, from, to) \in Seq(S)
      /\ Len(SubSeq(whole, from, to)) = IF from <= to THEN to - from + 1 ELSE 0
      /\ \A i \in 1..(to - from + 1) : SubSeq(whole, from, to)[i] = whole[from + i - 1]
  BY <1>3, <1>4, SubSeqProperties
<1>6. sub = SubSeq(whole, from, to) /\ from = place + 1
  BY DEF from, to
<1> HIDE DEF sub
<1>7. sub \in Seq(S) /\ Len(sub) = length /\ \A i \in 1..length : sub[i] = part[i]
  <2>1. Len(sub) = length
    BY <1>1, <1>3, <1>5, <1>6
  <2>2. ASSUME NEW i \in 1..length
        PROVE  sub[i] = part[i]
    <3>1. from + i - 1 = place + i
      BY <1>1, <1>6
    <3>2. sub[i] = whole[from + i - 1]
      BY <1>3, <1>5, <1>6
    <3> QED
      BY <3>1, <3>2
  <2> QED
    BY <1>5, <1>6, <2>1, <2>2
<1>8. sub = part
  BY <1>7, SeqEqual
<1> QED
  BY <1>8 DEF sub

(* The terminators of the joined text are the ends of its strings.         *)
LEMMA JoinedTerminators ==
  ASSUME NEW n \in Nat \ {0}, NEW strings \in [1..n -> Seq(1..255)],
         NEW flat, Joined(flat, strings, n)
  PROVE  Terminators(flat[n]) = {Len(flat[k]) : k \in 1..n}
<1> DEFINE text == flat[n]
<1>1. /\ \A k \in 0..n : Len(flat[k]) \in Nat
      /\ Len(flat[0]) = 0
      /\ DOMAIN text = 1..Len(text)
  BY DEF Joined
<1>2. ASSUME NEW k \in 1..n
      PROVE  Len(flat[k]) \in Terminators(text)
  <2>1. Continues(flat[k], flat[k - 1], strings[k])
    BY JoinedStep
  <2>2. k \in 0..n /\ n \in k..n
    OBVIOUS
  <2>3. Begins(text, flat[k], n - k)
    BY <2>2, JoinedBegins
  <2>4. Len(flat[k]) \in 1..Len(flat[k])
    BY <2>1 DEF Continues
  <2>5. Len(flat[k]) \in 1..Len(text)
    BY <2>3, <2>4 DEF Begins
  <2>6. text[Len(flat[k])] = flat[k][Len(flat[k])]
    BY <2>3, <2>4 DEF Begins
  <2> QED
    BY <1>1, <2>1, <2>5, <2>6 DEF Terminators, Continues
<1>3. ASSUME NEW i \in Terminators(text)
      PROVE  \E k \in 1..n : i = Len(flat[k])
  <2> DEFINE reaching == {k \in 0..n : i <= Len(flat[k])}
             k == Min(reaching)
  <2>1. i \in 1..Len(text) /\ text[i] = StringTerminator
    BY <1>1 DEF Terminators
  <2>2. n \in reaching /\ reaching \in SUBSET Nat
    BY <1>1, <2>1
  <2>3. k \in reaching /\ \A m \in reaching : k <= m
    <3> HIDE DEF reaching
    <3> QED
      BY <2>2, MinIsLeast
  <2> HIDE DEF k
  <2>4. k \in 1..n /\ i <= Len(flat[k]) /\ ~(i <= Len(flat[k - 1]))
    <3>1. 0 \notin reaching
      BY <1>1, <2>1
    <3>2. k \in 1..n /\ i <= Len(flat[k])
      BY <2>3, <3>1
    <3>3. k - 1 \in 0..n /\ k - 1 \notin reaching
      BY <2>3, <3>2
    <3> QED
      BY <3>2, <3>3
  <2>5. Continues(flat[k], flat[k - 1], strings[k])
    BY <2>4, JoinedStep
  <2>6. text[i] = flat[k][i]
    <3>1. k \in 0..n /\ n \in k..n
      BY <2>4
    <3>2. Begins(text, flat[k], n - k)
      BY <3>1, JoinedBegins
    <3>3. i \in 1..Len(flat[k])
      BY <1>1, <2>1, <2>4, <3>1
    <3> QED
      BY <3>2, <3>3 DEF Begins
  <2>7. ASSUME i # Len(flat[k])
        PROVE  FALSE
    <3> DEFINE before == flat[k - 1]
               string == strings[k]
               j == i - Len(before)
    <3>1. /\ Len(before) \in Nat /\ Len(string) \in Nat
          /\ Len(flat[k]) = Len(before) + Len(string) + 1
          /\ i \in Nat
      BY <2>1, <2>5 DEF Continues
    <3>2. i <= Len(flat[k]) /\ ~(i <= Len(before)) /\ i # Len(flat[k])
      BY <2>4, <2>7
    <3>3. string \in Seq(1..255) /\ \A m \in 1..Len(string) : flat[k][Len(before) + m] = string[m]
      BY <2>4, <2>5 DEF Continues
    <3> HIDE DEF before, string
    <3>4. j \in 1..Len(string) /\ i = Len(before) + j
      BY <3>1, <3>2
    <3> HIDE DEF j
    <3>5. flat[k][i] = string[j]
      BY <3>3, <3>4
    <3>6. string[j] # StringTerminator
      BY <3>3, <3>4, NoTerminatorWithin, Zenon
    <3> QED
      BY <2>1, <2>6, <3>5, <3>6, Zenon
  <2> QED
    BY <2>4, <2>7
<1> QED
  BY <1>2, <1>3

LEMMA JoinedLengths ==
  ASSUME NEW n \in Nat \ {0}, NEW strings \in [1..n -> Seq(1..255)],
         NEW flat, Joined(flat, strings, n)
  PROVE  /\ \A k \in 0..n : Len(flat[k]) \in Nat
         /\ Len(flat[0]) = 0
         /\ \A j, k \in 0..n : j < k => Len(flat[j]) < Len(flat[k])
<1>1. Len(flat[0]) = 0 /\ \A k \in 0..n : Len(flat[k]) \in Nat
  BY DEF Joined
<1>2. ASSUME NEW j \in 0..n, NEW k \in 0..n, j < k
      PROVE  Len(flat[j]) < Len(flat[k])
  <2>1. Begins(flat[k], flat[j], k - j)
    <3>1. k \in j..n
      BY <1>2
    <3> QED
      BY <3>1, JoinedBegins
  <2>2. Len(flat[j]) + (k - j) <= Len(flat[k]) /\ Len(flat[j]) \in Nat /\ Len(flat[k]) \in Nat
    BY <2>1 DEF Begins
  <2>3. k - j > 0
    BY <1>2
  <2> QED
    BY <2>2, <2>3
<1> QED
  BY <1>1, <1>2

LEMMA JoinedNumber ==
  ASSUME NEW n \in Nat \ {0}, NEW strings \in [1..n -> Seq(1..255)],
         NEW flat, Joined(flat, strings, n)
  PROVE  Cardinality(Terminators(flat[n])) = n
<1> DEFINE ends == [k \in 1..n |-> Len(flat[k])]
           T == Terminators(flat[n])
<1>1. T = {Len(flat[k]) : k \in 1..n}
  BY JoinedTerminators
<1>2. ends \in Surjection(1..n, T)
  BY <1>1 DEF Surjection
<1>3. ends \in Injection(1..n, T)
  <2>1. ASSUME NEW j \in 1..n, NEW k \in 1..n, ends[j] = ends[k]
        PROVE  j = k
    <3>1. j \in 0..n /\ k \in 0..n /\ Len(flat[j]) = Len(flat[k])
      BY <2>1
    <3>2. Len(flat[j]) \in Nat /\ ~(j < k) /\ ~(k < j)
      <4>1. Len(flat[j]) \in Nat
        BY <3>1, JoinedLengths
      <4>2. ~(Len(flat[j]) < Len(flat[k])) /\ ~(Len(flat[k]) < Len(flat[j]))
        BY <3>1, <4>1
      <4> QED
        BY <3>1, <4>1, <4>2, JoinedLengths
    <3> QED
      BY <3>2
  <2>2. ends \in [1..n -> T]
    BY <1>1
  <2> QED
    BY <2>1, <2>2 DEF Injection, IsInjective
<1>4. ends \in Bijection(1..n, T)
  BY <1>2, <1>3 DEF Bijection
<1>5. IsFiniteSet(1..n) /\ Cardinality(1..n) = n
  BY FS_Interval
<1>6. ExistsBijection(1..n, T)
  BY <1>4 DEF ExistsBijection
<1> QED
  BY <1>5, <1>6, FS_Bijection

LEMMA JoinedNextEnd ==
  ASSUME NEW n \in Nat \ {0}, NEW strings \in [1..n -> Seq(1..255)],
         NEW flat, Joined(flat, strings, n), NEW k \in 1..n
  PROVE  NextEnd(flat[n], Len(flat[k - 1])) = Len(flat[k])
<1> DEFINE T == Terminators(flat[n])
           later == {i \in T : i > Len(flat[k - 1])}
<1>1. T = {Len(flat[m]) : m \in 1..n}
  BY JoinedTerminators
<1>2. /\ \A m \in 0..n : Len(flat[m]) \in Nat
      /\ \A j, m \in 0..n : j < m => Len(flat[j]) < Len(flat[m])
  BY JoinedLengths
<1>3. k - 1 \in 0..n /\ k \in 0..n /\ k - 1 < k
  OBVIOUS
<1> HIDE DEF T
<1>4. Len(flat[k]) \in later /\ later \in SUBSET Nat
  <2>1. Len(flat[k]) \in T
    BY <1>1
  <2>2. Len(flat[k - 1]) < Len(flat[k])
    BY <1>2, <1>3
  <2>3. T \subseteq Nat
    BY <1>1, <1>2
  <2> QED
    BY <1>2, <1>3, <2>1, <2>2, <2>3
<1>5. ASSUME NEW i \in later
      PROVE  Len(flat[k]) <= i
  <2>1. PICK m \in 1..n : i = Len(flat[m])
    BY <1>1
  <2>2. m \in 0..n /\ i > Len(flat[k - 1])
    BY <2>1
  <2>3. ~(m < k)
    <3> SUFFICES ASSUME m < k PROVE FALSE
      OBVIOUS
    <3>1. m = k - 1 \/ m < k - 1
      BY <1>3, <2>2
    <3>2. Len(flat[m]) <= Len(flat[k - 1])
      BY <1>2, <1>3, <2>2, <3>1
    <3> QED
      BY <1>2, <1>3, <2>1, <2>2, <3>2
  <2>4. m = k \/ k < m
    BY <1>3, <2>2, <2>3
  <2> QED
    BY SMTT(20), <1>2, <1>3, <2>1, <2>2, <2>4
<1>6. Min(later) \in later /\ \A i \in later : Min(later) <= i
  <2> HIDE DEF later
  <2> QED
    BY <1>4, MinIsLeast
<1>7. Min(later) = Len(flat[k])
  <2> HIDE DEF later
  <2>1. Min(later) <= Len(flat[k]) /\ Len(flat[k]) <= Min(later)
    BY <1>4, <1>5, <1>6, Zenon
  <2>2. Min(later) \in Nat /\ Len(flat[k]) \in Nat
    BY <1>4, <1>6
  <2> QED
    BY <2>1, <2>2
<1> QED
  BY <1>7 DEF NextEnd, T

IsEnds(end, text, n) ==
  end = [i \in 0..n |-> IF i = 0 THEN 0 ELSE NextEnd(text, end[i - 1])]

LEMMA JoinedEnds ==
  ASSUME NEW n \in Nat \ {0}, NEW strings \in [1..n -> Seq(1..255)],
         NEW flat, Joined(flat, strings, n)
  PROVE  \A k \in 0..n : StringEnds(flat[n])[k] = Len(flat[k])
<1> DEFINE text == flat[n]
           ends == [k \in 0..n |-> Len(flat[k])]
           end == CHOOSE e : IsEnds(e, text, n)
<1>1. Len(flat[0]) = 0 /\ \A k \in 1..n : NextEnd(text, Len(flat[k - 1])) = Len(flat[k])
  BY JoinedLengths, JoinedNextEnd
<1>2. StringEnds(text) = end
  BY JoinedNumber DEF StringEnds, IsEnds
<1> HIDE DEF text, end
<1>3. ASSUME NEW k \in 0..n
      PROVE  ends[k] = IF k = 0 THEN 0 ELSE NextEnd(text, ends[k - 1])
  BY <1>1
<1>4. IsEnds(ends, text, n)
  <2>1. ends = [k \in 0..n |-> ends[k]]
    OBVIOUS
  <2> HIDE DEF ends
  <2>2. [k \in 0..n |-> ends[k]] = [k \in 0..n |-> IF k = 0 THEN 0 ELSE NextEnd(text, ends[k - 1])]
    BY <1>3
  <2> QED
    BY <2>1, <2>2 DEF IsEnds
<1>5. IsEnds(end, text, n)
  BY <1>4 DEF end
<1>6. \A k \in 0..n : end[k] = IF k = 0 THEN 0 ELSE NextEnd(text, end[k - 1])
  BY <1>5 DEF IsEnds
<1> DEFINE S == {k \in 0..n : end[k] = Len(flat[k])}
<1>7. 0 \in S
  BY <1>1, <1>6
<1>8. ASSUME NEW k \in 1..n, k - 1 \in S
      PROVE  k \in S
  BY <1>1, <1>6, <1>8
<1>9. 0..n \subseteq S
  <2> HIDE DEF S
  <2> QED
    BY <1>7, <1>8, AllNumbersUpto
<1> QED
  BY <1>2, <1>9 DEF text

(* What was encoded is decoded, whatever the strings and however many.     *)
LEMMA DecodedIsEncoded ==
  ASSUME NEW n \in Nat \ {0}, NEW strings \in [1..n -> Seq(1..255)], NEW opcode \in 0..255
  PROVE  Parameters(Encode(opcode, strings)) = strings
<1> DEFINE raw == Encode(opcode, strings)
<1>1. PICK flat : /\ Joined(flat, strings, n)
                  /\ flat[n] = FlattenSeq([i \in 1..n |-> Append(strings[i], StringTerminator)])
  BY FlattenSeqIsJoined
<1> DEFINE text == flat[n]
<1>2. text \in Seq(0..255)
  BY <1>1 DEF Joined
<1>3. raw = <<0, opcode>> \o text \o <<PacketTerminator>>
  BY <1>1 DEF Encode
<1>4. Text(raw) = text
  <2> HIDE DEF raw, text
  <2>1. Len(raw) = Len(text) + 3
    BY <1>2, <1>3
  <2>2. \A i \in 1..Len(text) : raw[2 + i] = text[i]
    BY <1>2, <1>3
  <2>3. SubSeq(raw, 2 + 1, 2 + Len(text)) = text
    BY <1>2, <2>2, PartIs
  <2>4. 2 + 1 = 3 /\ 2 + Len(text) = Len(raw) - 1
    BY <1>2, <2>1
  <2> QED
    BY <2>3, <2>4 DEF Text
<1>5. Cardinality(Terminators(text)) = n
  BY <1>1, JoinedNumber
<1>6. \A k \in 0..n : StringEnds(text)[k] = Len(flat[k])
  <2>1. Joined(flat, strings, n)
    BY <1>1
  <2> QED
    BY <2>1, JoinedEnds, Zenon
<1>7. Parameters(raw) =
        [i \in 1..n |-> SubSeq(text, StringEnds(text)[i - 1] + 1, StringEnds(text)[i] - 1)]
  BY <1>4, <1>5 DEF Parameters
<1>8. ASSUME NEW k \in 1..n
      PROVE  SubSeq(text, StringEnds(text)[k - 1] + 1, StringEnds(text)[k] - 1) = strings[k]
  <2> DEFINE begin == Len(flat[k - 1])
             length == Len(strings[k])
  <2>1. k - 1 \in 0..n /\ k \in 0..n /\ n \in k..n
    OBVIOUS
  <2>2. StringEnds(text)[k - 1] = begin /\ StringEnds(text)[k] = Len(flat[k])
    BY <1>6, <2>1
  <2>3. Continues(flat[k], flat[k - 1], strings[k])
    BY <1>1, JoinedStep
  <2>4. Begins(text, flat[k], n - k)
    BY <1>1, <2>1, JoinedBegins
  <2>5. /\ begin \in Nat /\ length \in Nat
        /\ Len(flat[k]) = begin + length + 1
        /\ \A i \in 1..length : flat[k][begin + i] = strings[k][i]
    BY <2>3 DEF Continues
  <2>6. /\ Len(flat[k]) <= Len(text)
        /\ \A i \in 1..Len(flat[k]) : text[i] = flat[k][i]
    <3>1. n - k >= 0
      OBVIOUS
    <3> HIDE DEF text
    <3> QED
      BY <2>4, <3>1 DEF Begins
  <2> HIDE DEF text, begin, length
  <2>7. \A i \in 1..length : text[begin + i] = strings[k][i]
    <3> TAKE i \in 1..length
    <3>1. begin + i \in 1..Len(flat[k])
      BY <2>5
    <3> QED
      BY <2>5, <2>6, <3>1
  <2>8. StringEnds(text)[k] - 1 = begin + length
    BY <2>2, <2>5
  <2>9. SubSeq(text, begin + 1, begin + length) = strings[k]
    <3>1. strings[k] \in Seq(1..255) /\ Len(strings[k]) = length
      BY DEF length
    <3> QED
      BY SMTT(20), <2>5, <2>7, <3>1, PartIs
  <2> QED
    BY <2>2, <2>8, <2>9
<1> HIDE DEF raw, text
<1>9. strings = [k \in 1..n |-> strings[k]]
  OBVIOUS
<1>10. Parameters(raw) = [k \in 1..n |-> strings[k]]
  BY <1>7, <1>8
<1> QED
  BY <1>9, <1>10 DEF raw

-----------------------------------------------------------------------------
(* What a query finds.                                                     *)

AnswerOf(target) == Encode(InformationAnswer, Information[target])

LEMMA OpcodeIsEncoded ==
  ASSUME NEW n \in Nat \ {0}, NEW strings \in [1..n -> Seq(1..255)], NEW opcode \in Opcodes
  PROVE  PacketType(Encode(opcode, strings)) = opcode
<1> DEFINE text == FlattenSeq([i \in 1..n |-> Append(strings[i], StringTerminator)])
           raw == <<0, opcode>> \o text \o <<PacketTerminator>>
<1>1. text \in Seq(0..255)
  <2>1. PICK flat : Joined(flat, strings, n) /\ flat[n] = text
    BY FlattenSeqIsJoined
  <2> HIDE DEF text
  <2> QED
    BY <2>1 DEF Joined
<1>2. Encode(opcode, strings) = raw
  BY DEF Encode
<1> HIDE DEF text
<1>3. Len(raw) >= 2 /\ raw[1] = 0 /\ raw[2] = opcode
  BY <1>1
<1> HIDE DEF raw
<1> QED
  BY <1>2, <1>3 DEF PacketType

LEMMA AnswerDecoded ==
  ASSUME NEW target \in Targets
  PROVE  Parameters(AnswerOf(target)) = Information[target]
<1>1. Information[target] \in [1..5 -> Seq(1..255)] /\ 5 \in Nat \ {0}
  BY DatagramsAssumption DEF NumberOfParameters
<1>2. InformationAnswer \in 0..255
  BY DEF InformationAnswer
<1> QED
  BY <1>1, <1>2, DecodedIsEncoded DEF AnswerOf

LEMMA RequestIsNoAnswer == ~Handled(Request, InformationAnswer)
<1>1. <<<<>>>> \in [1..1 -> Seq(1..255)] /\ 1 \in Nat \ {0}
  <2>1. <<>> \in Seq(1..255)
    OBVIOUS
  <2> DEFINE strings == <<<<>>>>
  <2>2. strings \in Seq(Seq(1..255)) /\ Len(strings) = 1
    BY <2>1
  <2> HIDE DEF strings
  <2>3. strings \in [1..1 -> Seq(1..255)]
    BY <2>2, LenProperties
  <2> QED
    BY <2>3 DEF strings
<1>2. PacketType(Request) = InformationRequest
  BY <1>1, OpcodeIsEncoded DEF Request, Opcodes
<1> QED
  BY <1>2 DEF Handled, InformationRequest, InformationAnswer

LEMMA ServersAnswer ==
  ASSUME NEW target
  PROVE  Server!Encode(Server!InformationAnswer, Information[target]) = AnswerOf(target)
BY DEF AnswerOf, Encode, Server!Encode, InformationAnswer, Server!InformationAnswer,
       StringTerminator, Server!StringTerminator, PacketTerminator, Server!PacketTerminator,
       FlattenSeq, Server!FlattenSeq

(* What the servers have sent, what is on its way to the query, and what   *)
(* the query has taken from it.                                            *)
Answering ==
  /\ DOMAIN answers = Targets
  /\ \A target \in Targets : answers[target] \subseteq {AnswerOf(target)}

Hearing ==
  reception.kind = "data" =>
    /\ reception.remote \in Targets
    /\ reception.raw \in Strays \cup answers[reception.remote] \cup {Request}

IsFound(found) ==
  /\ found[1] \in Targets
  /\ found[2] = Information[found[1]]
  /\ answers[found[1]] # {}

Finding ==
  /\ targets \in Seq(Range(targets))
  /\ \A found \in Range(targets) : IsFound(found)

FoundInv == Answering /\ Hearing /\ Finding

LEMMA FoundInit == Init => FoundInv
<1> SUFFICES ASSUME Init PROVE FoundInv
  OBVIOUS
<1>1. answers = [target \in Targets |-> {}] /\ targets = <<>> /\ reception.kind = "none"
  BY DEF Init, QueryInit, None, Server!ServerInit
<1>2. Range(targets) = {} /\ targets \in Seq(Range(targets))
  BY <1>1 DEF Range
<1> QED
  BY <1>1, <1>2 DEF FoundInv, Answering, Hearing, Finding

(* A server's answers only become more, and are its own.                   *)
LEMMA ServersOnlyAnswer ==
  ASSUME Answering, ServerSide
  PROVE  /\ Answering'
         /\ \A target \in Targets : answers[target] \subseteq answers'[target]
<1>1. PICK target \in Targets : Server!ServerStep(target) \/ ServerHears(target)
  BY DEF ServerSide
<1>2. CASE answers' = answers
  BY <1>2 DEF Answering, AnswerOf
<1>3. CASE answers' # answers
  <2>1. answers' = [answers EXCEPT ![target] =
                      @ \cup {Server!Encode(Server!InformationAnswer, Information[target])}]
    BY <1>1, <1>3 DEF Server!ServerStep, Server!Start, Server!Stop, Server!RequestReceived,
                      Server!OtherReceived, ServerHears, Server!Arrives
  <2>2. answers' = [answers EXCEPT ![target] = @ \cup {AnswerOf(target)}]
    BY <2>1, ServersAnswer
  <2> QED
    BY <2>2 DEF Answering, AnswerOf
<1> QED
  BY <1>2, <1>3

LEMMA RangeOfAppend ==
  ASSUME NEW s, s \in Seq(Range(s)), NEW e
  PROVE  /\ Range(Append(s, e)) = Range(s) \cup {e}
         /\ Append(s, e) \in Seq(Range(Append(s, e)))
<1> DEFINE T == Range(s) \cup {e}
           longer == Append(s, e)
<1>1. s \in Seq(T) /\ e \in T
  <2>1. \A i \in 1..Len(s) : s[i] \in T
    BY ElementOfSeq
  <2> QED
    BY <2>1
<1>2. /\ longer \in Seq(T) /\ Len(longer) = Len(s) + 1 /\ Len(s) \in Nat
      /\ longer[Len(s) + 1] = e
      /\ \A i \in 1..Len(s) : longer[i] = s[i]
  <2> HIDE DEF T
  <2> QED
    BY <1>1
<1>3. DOMAIN longer = 1..(Len(s) + 1) /\ DOMAIN s = 1..Len(s)
  <2> HIDE DEF T
  <2> QED
    BY <1>1
<1> HIDE DEF longer
<1>4. Range(longer) = T
  BY <1>2, <1>3 DEF Range
<1> QED
  BY <1>2, <1>4 DEF longer

(* A datagram the query takes is an answer of the target it came from.     *)
LEMMA ResponseFinds ==
  ASSUME FoundInv, reception.kind = "data", Response(reception.remote, reception.raw),
         answers' = answers
  PROVE  Finding'
<1> DEFINE found == <<reception.remote, Parameters(reception.raw)>>
<1>1. CASE targets' = targets
  BY <1>1 DEF FoundInv, Finding, IsFound
<1>2. CASE targets' # targets
  <2>1. /\ Handled(reception.raw, InformationAnswer)
        /\ Len(Parameters(reception.raw)) = NumberOfParameters
        /\ targets' = Append(targets, found)
    BY <1>2 DEF Response
  <2>2. reception.raw \notin Strays /\ reception.raw # Request
    BY <2>1, RequestIsNoAnswer, DatagramsAssumption
  <2>3. reception.remote \in Targets /\ reception.raw \in answers[reception.remote]
    BY <2>2 DEF FoundInv, Hearing
  <2>4. reception.raw = AnswerOf(reception.remote)
    BY <2>3 DEF FoundInv, Answering
  <2>5. found[1] = reception.remote /\ found[2] = Information[reception.remote]
    BY <2>3, <2>4, AnswerDecoded
  <2> HIDE DEF found
  <2>6. IsFound(found)
    BY <2>3, <2>5 DEF IsFound
  <2>7. /\ Range(targets') = Range(targets) \cup {found}
        /\ targets' \in Seq(Range(targets'))
    BY <2>1, RangeOfAppend DEF FoundInv, Finding
  <2>8. \A f \in Range(targets') : IsFound(f)
    BY <2>6, <2>7 DEF FoundInv, Finding
  <2>9. \A f : IsFound(f)' <=> (f[1] \in Targets /\ f[2] = Information[f[1]] /\ answers'[f[1]] # {})
    BY DEF IsFound
  <2> QED
    BY <2>7, <2>8, <2>9 DEF Finding, IsFound
<1> QED
  BY <1>1, <1>2

(* What the query receives is a datagram of a target or a foreign one.     *)
LEMMA Receptions ==
  ASSUME FoundInv, QuerySide, answers' = answers
  PROVE  Hearing'
<1>1. CASE reception' = reception
  BY <1>1 DEF FoundInv, Hearing, Request
<1>2. CASE reception'.kind # "data"
  BY <1>2 DEF Hearing
<1>3. CASE reception' # reception /\ reception'.kind = "data"
  <2>1. QueryHears
    <3>1. ~MainThread
      BY <1>3 DEF MainThread, Open, BindAndSend, StartReceive, StartTimer, StartThrows,
                  DoneWaitReturns, WriteList, ExecuteReturns, StopIoContext, Receive, Pending, Error, None
    <3>2. ~IoThread
      BY <1>3 DEF IoThread, Abort, TimerExpires, TimerHandler, ReceiveHandler,
                  HandlerOfDestroyedQuery, Close, CloseSocket, Receive, Pending, Error, None
    <3> QED
      BY <3>1, <3>2 DEF QuerySide
  <2>2. PICK target \in Targets : \E raw \in Strays \cup answers[target] \cup {Request} :
                                   reception' = Data(target, raw)
    BY <1>3, <2>1 DEF QueryHears, Arrives, Error
  <2>3. PICK raw \in Strays \cup answers[target] \cup {Request} : reception' = Data(target, raw)
    BY <2>2
  <2>4. reception'.remote = target /\ reception'.raw = raw
    BY <2>3 DEF Data
  <2> QED
    BY <2>3, <2>4 DEF Hearing, Request
<1> QED
  BY <1>1, <1>2, <1>3

(* Nothing but what the query receives adds to the targets.                *)
LEMMA OnlyReceptionsFind ==
  ASSUME QuerySide
  PROVE  ReceiveHandler \/ targets' = targets
BY DEF QuerySide, MainThread, Open, BindAndSend, StartReceive, StartTimer, StartThrows,
       DoneWaitReturns, WriteList, ExecuteReturns, StopIoContext, IoThread, Abort,
       TimerExpires, TimerHandler, HandlerOfDestroyedQuery, QueryHears, Arrives

LEMMA FoundStep == FoundInv /\ [Next]_vars => FoundInv'
<1> SUFFICES ASSUME FoundInv, [Next]_vars
             PROVE  FoundInv'
  OBVIOUS
<1>1. CASE UNCHANGED vars
  BY <1>1 DEF vars, queryVars, serverVars, FoundInv, Answering, Hearing, Finding, IsFound,
              AnswerOf, Request
<1>2. CASE ServerSide /\ UNCHANGED queryVars
  <2>1. /\ Answering'
        /\ \A target \in Targets : answers[target] \subseteq answers'[target]
    BY <1>2, ServersOnlyAnswer DEF FoundInv
  <2>2. reception' = reception /\ targets' = targets
    BY <1>2 DEF queryVars
  <2>3. Hearing'
    BY <2>1, <2>2 DEF FoundInv, Hearing, Request
  <2>4. Finding'
    BY <2>1, <2>2 DEF FoundInv, Finding, IsFound
  <2> QED
    BY <2>1, <2>3, <2>4 DEF FoundInv
<1>3. CASE QuerySide /\ UNCHANGED serverVars
  <2>1. answers' = answers
    BY <1>3 DEF serverVars
  <2>2. Answering'
    BY <2>1 DEF FoundInv, Answering, AnswerOf
  <2>3. Hearing'
    BY <1>3, <2>1, Receptions
  <2>4. Finding'
    <3>1. CASE targets' = targets
      BY <2>1, <3>1 DEF FoundInv, Finding, IsFound
    <3>2. CASE targets' # targets
      <4>1. reception.kind = "data" /\ Response(reception.remote, reception.raw)
        BY <1>3, <3>2, OnlyReceptionsFind DEF ReceiveHandler, Received
      <4> QED
        BY <2>1, <4>1, ResponseFinds
    <3> QED
      BY <3>1, <3>2
  <2> QED
    BY <2>2, <2>3, <2>4 DEF FoundInv
<1> QED
  BY <1>1, <1>2, <1>3 DEF Next

LEMMA FoundInvHolds == Spec => []FoundInv
BY FoundInit, FoundStep, PTL DEF Spec

(* What a query has found is what the target at that address has sent,     *)
(* field by field, for all information without the terminator and all      *)
(* foreign datagrams that are no answer (Packet::encode, Packet, the       *)
(* handlers of both sides).                                                *)
THEOREM FindAnswersAreTrue == Spec => []AnswersAreTrue
<1>1. FoundInv => AnswersAreTrue
  BY DEF FoundInv, Finding, IsFound, AnswersAreTrue
<1> QED
  BY <1>1, FoundInvHolds, PTL

-----------------------------------------------------------------------------
(* When the file is written.                                               *)

(* The file is written once the query is complete, so with what was known  *)
(* by then, and with nothing that was not found.                           *)
Saving ==
  /\ finishedCalls \in Nat
  /\ mainThread \in {"woken", "written", "returned", "stopped"} => finishedCalls # 0
  /\ saved # <<>> => mainThread \in {"written", "returned", "stopped"}
  /\ saved \in Seq(Range(saved))
  /\ Range(saved) \subseteq Range(targets)
  /\ Range(heard) \subseteq Range(targets)
  /\ saved # <<>> => Range(heard) \subseteq Range(saved)

LEMMA SavingInit == Init => Saving
<1> SUFFICES ASSUME Init PROVE Saving
  OBVIOUS
<1>1. /\ targets = <<>> /\ saved = <<>> /\ heard = <<>>
      /\ finishedCalls = 0 /\ mainThread = "connected"
  BY DEF Init, QueryInit
<1>2. Range(<<>>) = {} /\ <<>> \in Seq({})
  BY DEF Range
<1> QED
  BY <1>1, <1>2 DEF Saving

LEMMA SavingStep == FoundInv /\ Saving /\ [Next]_vars => Saving'
<1> SUFFICES ASSUME FoundInv, Saving, [QuerySide]_queryVars
             PROVE  Saving'
  BY QueryStep
<1>1. CASE WriteList
  <2>1. /\ targets' = targets /\ heard' = heard /\ finishedCalls' = finishedCalls
        /\ mainThread = "woken" /\ mainThread' = "written"
        /\ saved' \in {targets, <<>>}
    BY <1>1 DEF WriteList, Goes
  <2>2. Range(<<>>) = {} /\ <<>> \in Seq({})
    BY DEF Range
  <2>3. targets \in Seq(Range(targets))
    BY DEF FoundInv, Finding
  <2> QED
    BY <2>1, <2>2, <2>3 DEF Saving
<1>2. CASE ReceiveHandler
  <2>1. UNCHANGED <<mainThread, finishedCalls, saved, heard>>
    BY <1>2, ReceptionHandled
  <2>2. Range(targets) \subseteq Range(targets')
    <3>1. targets' = targets \/ \E found : targets' = Append(targets, found)
      BY <1>2 DEF ReceiveHandler, Received, Response
    <3> QED
      BY <3>1, RangeOfAppend DEF FoundInv, Finding
  <2> QED
    BY <2>1, <2>2 DEF Saving
<1>3. CASE StartThrows \/ Abort \/ TimerHandler
  <2>1. Completes /\ saved' = saved /\ targets' = targets
    BY <1>3 DEF StartThrows, Abort, TimerHandler, Close
  <2>2. /\ finishedCalls' \in Nat \ {0}
        /\ heard' = IF finishedCalls = 0 THEN targets ELSE heard
    BY <2>1 DEF Completes, Saving
  <2>3. mainThread' = mainThread \/ mainThread \in {"connected", "opened"}
    BY <1>3 DEF StartThrows, Abort, TimerHandler, Goes
  <2>4. finishedCalls = 0 => saved = <<>>
    BY DEF Saving
  <2> QED
    BY <2>1, <2>2, <2>3, <2>4 DEF Saving
<1>4. CASE DoneWaitReturns
  BY <1>4 DEF DoneWaitReturns, Goes, Saving
<1>5. CASE Open \/ BindAndSend \/ StartReceive \/ StartTimer
  BY <1>5 DEF Open, BindAndSend, StartReceive, StartTimer, Goes, Saving
<1>6. CASE ExecuteReturns \/ StopIoContext
  BY <1>6 DEF ExecuteReturns, StopIoContext, Goes, Saving
<1>7. CASE TimerExpires \/ HandlerOfDestroyedQuery \/ QueryHears
  <2>1. UNCHANGED <<mainThread, finishedCalls, targets, saved, heard>>
    BY <1>7, HeardSomething DEF TimerExpires, HandlerOfDestroyedQuery
  <2> QED
    BY <2>1 DEF Saving
<1>8. CASE UNCHANGED queryVars
  BY <1>8 DEF queryVars, Saving
<1> QED
  BY <1>1, <1>2, <1>3, <1>4, <1>5, <1>6, <1>7, <1>8 DEF QuerySide, MainThread, IoThread

LEMMA SavingHolds == Spec => []Saving
BY SavingInit, SavingStep, FoundInvHolds, PTL DEF Spec

-----------------------------------------------------------------------------
(* The file of targets.                                                    *)

(* Finding the entries that count needs what they hold only.               *)
LEMMA AddressInEntries ==
  ASSUME NEW entries, entries \in Seq(Range(entries)), NEW targetId, NEW default
  PROVE  LET used == AddressIn(entries, targetId, default) IN
         \/ used = default /\ EntriesOf(entries, targetId) = {}
         \/ \E i \in EntriesOf(entries, targetId) : used = AddressOf(entries[i])
<1>1. EntriesOf(entries, targetId) \in SUBSET Nat
  BY DEF EntriesOf
<1>2. EntriesOf(entries, targetId) # {} =>
        Min(EntriesOf(entries, targetId)) \in EntriesOf(entries, targetId)
  BY <1>1, MinIsLeast
<1> QED
  BY <1>2 DEF AddressIn

(* What is read from an entry is what was written to it.                   *)
LEMMA PropertiesKept ==
  ASSUME NEW address, NEW parameters
  PROVE  LET information == TargetInformation(parameters)
             entry == ToProperties(address, information)
         IN  /\ FromProperties(entry) = information
             /\ AddressOf(entry) = address
<1> DEFINE information == TargetInformation(parameters)
           entry == ToProperties(address, information)
<1>1. DOMAIN information = Range(Fields) /\ information = [field \in Range(Fields) |-> information[field]]
  BY DEF TargetInformation
<1>2. "address" \notin Range(Fields)
  BY DEF Fields, Range
<1> HIDE DEF information
<1>3. DOMAIN entry = {"address"} \cup Range(Fields)
  BY DEF ToProperties
<1>4. /\ entry["address"] = address
      /\ \A field \in Range(Fields) : entry[field] = information[field]
  BY <1>2 DEF ToProperties
<1> HIDE DEF entry
<1>5. FromProperties(entry) = [field \in Range(Fields) |-> information[field]]
  BY <1>3, <1>4 DEF FromProperties, Property
<1>6. AddressOf(entry) = address
  BY <1>3, <1>4 DEF AddressOf
<1> QED
  BY <1>1, <1>5, <1>6 DEF entry, information

(* The targets in the file that have answered under the identifier.        *)
Reported(options) == AnsweredUnder(options.targetId, saved)

Left(previous) == {AddressOf(entry) : entry \in Range(previous.entries)}

(* The entries with an identifier are those of the targets that have       *)
(* answered under it.                                                      *)
LEMMA WrittenEntries ==
  ASSUME Finding, Saving, NEW options
  PROVE  LET entries == TargetsAddressInformation IN
         /\ entries \in Seq(Range(entries))
         /\ \A i \in EntriesOf(entries, options.targetId) :
              AddressOf(entries[i]) \in Reported(options)
         /\ EntriesOf(entries, options.targetId) = {} => Reported(options) = {}
<1> DEFINE entries == TargetsAddressInformation
<1>1. Len(saved) \in Nat /\ DOMAIN saved = 1..Len(saved)
  BY DEF Saving
<1>2. DOMAIN entries = 1..Len(saved) /\ entries = [i \in 1..Len(saved) |-> entries[i]]
  BY <1>1 DEF TargetsAddressInformation
<1>3. ASSUME NEW i \in DOMAIN saved
      PROVE  /\ saved[i] \in Range(saved)
             /\ IsFound(saved[i])
             /\ AddressOf(entries[i]) = saved[i][1]
             /\ TargetIdOf(FromProperties(entries[i])) =
                  TargetIdOf(TargetInformation(Information[saved[i][1]]))
  <2>1. saved[i] \in Range(saved)
    BY DEF Range
  <2>2. IsFound(saved[i])
    BY <2>1 DEF Finding, Saving
  <2>3. entries[i] = ToProperties(saved[i][1], TargetInformation(saved[i][2]))
    BY DEF TargetsAddressInformation
  <2>4. /\ FromProperties(entries[i]) = TargetInformation(saved[i][2])
        /\ AddressOf(entries[i]) = saved[i][1]
    BY <2>3, PropertiesKept
  <2> QED
    BY <2>1, <2>2, <2>4 DEF IsFound
<1> HIDE DEF entries
<1>4. entries \in Seq(Range(entries))
  <2>1. entries \in [1..Len(saved) -> Range(entries)]
    BY <1>2 DEF Range
  <2> QED
    BY <1>1, <2>1
<1>5. ASSUME NEW i \in EntriesOf(entries, options.targetId)
      PROVE  AddressOf(entries[i]) \in Reported(options)
  <2>1. i \in DOMAIN saved /\ TargetIdOf(FromProperties(entries[i])) = options.targetId
    BY <1>1, <1>2 DEF EntriesOf
  <2> QED
    BY <1>3, <2>1 DEF Reported, AnsweredUnder, IsFound
<1>6. ASSUME NEW target \in Reported(options)
      PROVE  EntriesOf(entries, options.targetId) # {}
  <2>1. PICK i \in DOMAIN saved : saved[i][1] = target
    BY DEF Reported, AnsweredUnder, Range
  <2>2. i \in EntriesOf(entries, options.targetId)
    BY <1>1, <1>2, <1>3, <2>1 DEF EntriesOf, Reported, AnsweredUnder
  <2> QED
    BY <2>2
<1> QED
  BY <1>4, <1>5, <1>6 DEF entries

(* What was known when the query was completed is in the file.             *)
LEMMA HeardIsReported ==
  ASSUME Saving, Written, NEW options, AnsweredUnder(options.targetId, heard) # {}
  PROVE  Reported(options) # {}
<1>1. Range(heard) \subseteq Range(saved)
  BY DEF Saving, Written
<1> QED
  BY <1>1 DEF Reported, AnsweredUnder

(* After a query that was saved a command reaches a target that has        *)
(* answered under the identifier it is told, if one did so before the      *)
(* query was completed, whatever was found in whichever order, whatever    *)
(* arrives while the file is written and whatever was in it before, and    *)
(* never uses an address from elsewhere (FindQueryCommand::execute,        *)
(* response, execute of the commands).                                     *)
THEOREM FindReachesFoundTarget == Spec => []FoundTargetReached
<1>1. ASSUME Finding, Saving, NEW options \in AddressOptions, NEW previous \in PreviousFiles,
             NEW file \in FilesAfterQuery(previous)
      PROVE  LET address == AddressUsed(options, file) IN
             /\ Written /\ options.readsFile /\ AnsweredUnder(options.targetId, heard) # {}
                  => address \in Reported(options)
             /\ address \in Reported(options) \cup {options.address, Unspecified}
                               \cup IF Written THEN {} ELSE Left(previous)
  <2> DEFINE address == AddressUsed(options, file)
             given == IF options.batch THEN Unspecified ELSE options.address
  <2>1. \/ address \in {options.address, Unspecified} /\ ~(file.exists /\ options.readsFile)
        \/ file.exists /\ address = AddressIn(file.entries, options.targetId, given)
    BY DEF AddressUsed, BatchAddress, CommandAddress
  <2>2. CASE Written
    <3> DEFINE entries == TargetsAddressInformation
    <3>1. file.exists /\ file.entries = entries
      BY <2>2 DEF FilesAfterQuery, File
    <3>2. /\ entries \in Seq(Range(entries))
          /\ \A i \in EntriesOf(entries, options.targetId) :
               AddressOf(entries[i]) \in Reported(options)
          /\ EntriesOf(entries, options.targetId) = {} => Reported(options) = {}
      BY <1>1, WrittenEntries
    <3>3. AnsweredUnder(options.targetId, heard) # {} => Reported(options) # {}
      BY <1>1, <2>2, HeardIsReported
    <3> HIDE DEF entries, address
    <3>4. \/ AddressIn(entries, options.targetId, given) = given
               /\ EntriesOf(entries, options.targetId) = {}
          \/ AddressIn(entries, options.targetId, given) \in Reported(options)
      BY <3>2, AddressInEntries
    <3> QED
      BY <2>1, <2>2, <3>1, <3>2, <3>3, <3>4 DEF address
  <2>3. CASE ~Written
    <3>1. file = previous \/ ~file.exists
      BY <2>3 DEF FilesAfterQuery, NoFile
    <3>2. previous.entries \in Seq(Range(previous.entries))
      BY FileAssumption
    <3> HIDE DEF address
    <3>3. \/ AddressIn(previous.entries, options.targetId, given) = given
          \/ AddressIn(previous.entries, options.targetId, given) \in Left(previous)
      <4>1. \A i \in EntriesOf(previous.entries, options.targetId) :
              AddressOf(previous.entries[i]) \in Left(previous)
        BY DEF EntriesOf, Left, Range
      <4> QED
        BY <3>2, <4>1, AddressInEntries
    <3> QED
      BY <2>1, <2>3, <3>1, <3>3 DEF address
  <2> QED
    BY <2>2, <2>3
<1>2. Finding /\ Saving => FoundTargetReached
  BY <1>1 DEF FoundTargetReached, Reported, Left
<1>3. FoundInv => Finding
  BY DEF FoundInv
<1> QED
  BY <1>2, <1>3, FoundInvHolds, SavingHolds, PTL

=============================================================================
