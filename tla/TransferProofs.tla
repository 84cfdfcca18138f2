--------------------------- MODULE TransferProofs ---------------------------
(***************************************************************************)
(* Theorems about transfers and what they carry.  The first part is about  *)
(* TftpClient and TftpExchange, for every range of the retry counter,      *)
(* every limit of retries, any number of WAIT messages, every set of       *)
(* options and whatever a foreign server sends.  The second part is about  *)
(* FileTransfer and StatusReport, for files of all types, whatever they    *)
(* hold, any names and identifiers, and any number of calls.               *)
(***************************************************************************)
EXTENDS TftpExchange, StatusReport, FiniteSetTheorems, SequenceTheorems,
        WellFoundedInduction, TLAPS

(* Numbers in their order.                                                 *)
Less == {pair \in Nat \X Nat : pair[1] < pair[2]}

(* A set of numbers that has zero and with each number the next one.       *)
LEMMA AllNumbers ==
  ASSUME NEW S, 0 \in S, \A n \in Nat : n \in S => n + 1 \in S
  PROVE  Nat \subseteq S
<1> SUFFICES ASSUME Nat \ S # {}
             PROVE  FALSE
  OBVIOUS
<1>1. IsWellFoundedOn(Less, Nat)
  <2>1. OpToRel(<, Nat) = Less
    BY Zenon DEF OpToRel, Less
  <2> QED
    BY <2>1, NatLessThanWellFounded
<1>2. PICK least \in Nat \ S : \A n \in Nat \ S : <<n, least>> \notin Less
  BY <1>1, WFMin, Zenon
<1>3. least - 1 \in Nat
  BY <1>2
<1>4. least - 1 \notin S
  BY <1>2, <1>3
<1>5. <<least - 1, least>> \in Less
  BY <1>2, <1>3 DEF Less
<1> QED
  BY <1>2, <1>3, <1>4, <1>5

(***************************************************************************)
(* The retry counter.                                                      *)
(***************************************************************************)

LEMMA NextRetry ==
  ASSUME NEW n \in 0..(RetryRange - 1)
  PROVE  (n + 1) % RetryRange = IF n + 1 = RetryRange THEN 0 ELSE n + 1
BY ClientAssumption DEF ClientAssumption

(* What a retry does, without the wrap: the counter of an open transfer    *)
(* never exceeds its limit, so it wraps only where the limit is the        *)
(* largest value, and the transfer gives up only where it is not.          *)
LEMMA RetryCases ==
  ASSUME Retry, retries \in Nat, dlpRetries \in 0..(RetryRange - 1),
         retries <= dlpRetries
  PROVE  \/ /\ retries < dlpRetries
            /\ retries' = retries + 1
            /\ operation' = "active"
            /\ UNCHANGED <<completion, completions>>
         \/ /\ retries = dlpRetries
            /\ ~Bounded
            /\ retries' = 0
            /\ operation' = "active"
            /\ UNCHANGED <<completion, completions>>
         \/ /\ retries = dlpRetries
            /\ Bounded
            /\ retries' = retries + 1
            /\ operation' = "none"
            /\ Complete("CommunicationError")
<1> USE ClientAssumption DEF ClientAssumption
<1>1. retries' = IF retries + 1 = RetryRange THEN 0 ELSE retries + 1
  <2>1. retries \in 0..(RetryRange - 1)
    OBVIOUS
  <2> QED
    BY <2>1, NextRetry DEF Retry
<1>2. CASE retries < dlpRetries
  BY <1>1, <1>2 DEF Retry
<1>3. CASE retries = dlpRetries /\ ~Bounded
  BY <1>1, <1>3 DEF Retry, Bounded
<1>4. CASE retries = dlpRetries /\ Bounded
  BY <1>1, <1>4 DEF Retry, Bounded
<1> QED
  BY <1>2, <1>3, <1>4

(***************************************************************************)
(* The inductive invariant.  To what OnePathPending says it adds how far   *)
(* the counter can be, and that an attempt being aborted and a cancelled   *)
(* timer are the work of the owner.                                        *)
(***************************************************************************)

Counter ==
  /\ dlpRetries \in 0..(RetryRange - 1)
  /\ retries \in Nat
  /\ ~requested => retries = 0
  /\ completions = 0 => retries <= dlpRetries
  /\ completions > 0 => retries <= dlpRetries \/ (Bounded /\ retries = dlpRetries + 1)

Path ==
  /\ completions \in {0, 1}
  /\ operation \in {"none", "active", "aborting"}
  /\ waitTimer \in {"idle", "armed", "expired", "cancelled"}
  /\ ~requested => completions = 0
  /\ completions = 0 <=> completion = "none"
  /\ operation = "aborting" => abortRequested
  /\ waitTimer = "cancelled" => abortRequested
  /\ OnePathPending

Inv == Counter /\ Path

LEMMA InvInit == Init => Inv
BY ClientAssumption
   DEF ClientAssumption, Init, Inv, Counter, Path, OnePathPending

LEMMA InvStep == Inv /\ [Next]_vars => Inv'
<1> SUFFICES ASSUME Counter, Path, [Next]_vars
             PROVE  Counter' /\ Path'
  BY DEF Inv
<1> USE DEF Path, OnePathPending, configuration, owner, Complete, AbortCodes
<1>1. CASE Request
  BY <1>1, ClientAssumption DEF ClientAssumption, Request, Counter, Bounded
<1>2. CASE Abort
  BY <1>2 DEF Abort, Counter, Bounded
<1>3. CASE TransferSucceeded \/ TransferAborted \/ AbortReceived
  BY <1>3 DEF TransferSucceeded, TransferAborted, AbortReceived,
              AttemptCompleted, Counter, Bounded
<1>4. CASE WaitReceived
  BY <1>4 DEF WaitReceived, AttemptCompleted, Counter, Bounded
<1>5. CASE TransferFailed
  <2>1. requested /\ completions = 0 /\ waitTimer = "idle"
    BY <1>5 DEF TransferFailed, AttemptCompleted
  <2>2. Retry /\ UNCHANGED <<configuration, owner, waitTimer>>
    BY <1>5 DEF TransferFailed, AttemptCompleted
  <2>3. Counter'
    BY <2>1, <2>2, RetryCases DEF Counter, Bounded
  <2>4. Path'
    BY <2>1, <2>2, RetryCases DEF Counter
  <2> QED
    BY <2>3, <2>4
<1>6. CASE WaitTimerExpires
  BY <1>6 DEF WaitTimerExpires, Counter, Bounded
<1>7. CASE HandleWaitTimeout
  BY <1>7 DEF HandleWaitTimeout, WaitOver, Counter, Bounded
<1>8. CASE UNCHANGED vars
  BY <1>8 DEF vars, Counter, Bounded
<1> QED
  BY <1>1, <1>2, <1>3, <1>4, <1>5, <1>6, <1>7, <1>8 DEF Next, HandleCompletion

(***************************************************************************)
(* Types.  Flags are kept apart from the numbers for the provers' sake.    *)
(***************************************************************************)

Flags ==
  /\ handleAbort \in BOOLEAN
  /\ requested \in BOOLEAN
  /\ abortRequested \in BOOLEAN

DataTypes ==
  /\ waits \in 0..MaxWaits
  /\ completion \in TransferStatus \cup {"none"}

LEMMA FlagsStep == Flags /\ [Next]_vars => Flags'
BY DEF Flags, Next, vars, configuration, owner, Request, Abort,
       HandleCompletion, AttemptCompleted, TransferSucceeded, TransferAborted,
       AbortReceived, WaitReceived, TransferFailed, WaitTimerExpires,
       HandleWaitTimeout, WaitOver

LEMMA DataStep == DataTypes /\ [Next]_vars => DataTypes'
<1> SUFFICES ASSUME DataTypes, [Next]_vars
             PROVE  DataTypes'
  OBVIOUS
<1> USE ClientAssumption
    DEF ClientAssumption, DataTypes, configuration, owner, Complete, AbortCodes,
        TransferStatus, AttemptCompleted
<1>1. CASE Request \/ Abort \/ UNCHANGED vars
  BY <1>1 DEF Request, Abort, vars
<1>2. CASE TransferSucceeded \/ TransferAborted \/ AbortReceived
  BY <1>2 DEF TransferSucceeded, TransferAborted, AbortReceived
<1>3. CASE WaitReceived \/ TransferFailed
  BY <1>3 DEF WaitReceived, TransferFailed, Retry
<1>4. CASE WaitTimerExpires \/ HandleWaitTimeout
  BY <1>4 DEF WaitTimerExpires, HandleWaitTimeout, WaitOver
<1> QED
  BY <1>1, <1>2, <1>3, <1>4 DEF Next, HandleCompletion

(* The counter stays within its 16 bits and every member within its type.  *)
THEOREM ClientTypes == Spec => []TypeOK
<1>1. Init => Flags
  BY DEF Init, Flags
<1>2. Init => DataTypes
  BY ClientAssumption DEF ClientAssumption, Init, DataTypes
<1>3. Flags /\ DataTypes /\ Inv => TypeOK
  <2> SUFFICES ASSUME Flags, DataTypes, Inv
               PROVE  TypeOK
    OBVIOUS
  <2>1. retries \in 0..(RetryRange - 1) /\ completions \in Nat
    BY ClientAssumption
       DEF ClientAssumption, Inv, Counter, Path, Bounded
  <2> QED
    BY <2>1 DEF Flags, DataTypes, Inv, Counter, Path, TypeOK
<1> QED
  BY InvInit, InvStep, FlagsStep, DataStep, <1>1, <1>2, <1>3,
     PTL DEF Spec

(* A transfer has exactly one continuation until it completes, completes   *)
(* once, and leaves nothing behind that could call into it.                *)
THEOREM ClientOnePathPending == Spec => []OnePathPending
<1>1. Inv => OnePathPending
  BY DEF Inv, Path
<1> QED
  BY InvInit, InvStep, <1>1, PTL DEF Spec

(***************************************************************************)
(* The refinement.  Two attempts of one transfer and the waits between     *)
(* them are one open transfer; what moves is the number of failures it     *)
(* still forgives.                                                         *)
(***************************************************************************)

Forgiving == IF Bounded /\ retries <= dlpRetries THEN dlpRetries - retries ELSE 0

(* What the promise does not mention, it does not see.                     *)
LEMMA Stutter ==
  ASSUME UNCHANGED <<configuration, retries, requested, abortRequested,
                     completion, completions>>
  PROVE  UNCHANGED Transfer!vars
BY DEF Transfer!vars, Bounded, configuration

(* Completing an open transfer for a justified reason closes it.           *)
LEMMA Closing ==
  ASSUME NEW result \in TransferStatus, Inv, requested, completions = 0,
         Complete(result), Transfer!Justified(result),
         UNCHANGED <<configuration, owner>>, Forgiving' = Forgiving
  PROVE  Transfer!Next
<1>1. Transfer!Close(result)
  BY DEF Transfer!Close, Complete, Inv, Path, Bounded, Forgiving,
         configuration, owner
<1>2. result \in Transfer!Outcomes
  BY DEF Transfer!Outcomes, TransferStatus, AbortCodes
<1> QED
  BY <1>1, <1>2 DEF Transfer!Next

LEMMA RefinementInit == Init => Transfer!Init
<1> SUFFICES ASSUME Init
             PROVE  Transfer!Init
  OBVIOUS
<1>1. Forgiving \in Nat
  BY ClientAssumption DEF ClientAssumption, Init, Forgiving, Bounded
<1>2. Bounded \in BOOLEAN
  BY DEF Bounded
<1> QED
  BY <1>1, <1>2 DEF Init, Transfer!Init, Forgiving

LEMMA RefinementStep == Inv /\ [Next]_vars => [Transfer!Next]_Transfer!vars
<1> SUFFICES ASSUME Inv, [Next]_vars
             PROVE  Transfer!Next \/ UNCHANGED Transfer!vars
  OBVIOUS
<1>1. CASE Request
  BY <1>1 DEF Request, Inv, Counter, Path, Bounded, configuration,
              Transfer!Next, Transfer!Open
<1>2. CASE Abort
  BY <1>2 DEF Abort, Bounded, configuration, Transfer!Next, Transfer!AskAbort
<1>3. ASSUME AttemptCompleted
      PROVE  /\ requested
             /\ completions = 0
             /\ UNCHANGED <<configuration, owner>>
  BY <1>3 DEF AttemptCompleted, Inv, Path, OnePathPending
<1>4. ASSUME UNCHANGED <<configuration, retries>>
      PROVE  Forgiving' = Forgiving
  BY <1>4 DEF Forgiving, Bounded, configuration
<1>5. CASE TransferSucceeded
  BY <1>3, <1>4, <1>5, Closing
     DEF TransferSucceeded, AttemptCompleted, Transfer!Justified, TransferStatus
<1>6. CASE TransferAborted
  BY <1>3, <1>4, <1>6, Closing
     DEF TransferAborted, AttemptCompleted, Transfer!Justified, TransferStatus,
         Inv, Path
<1>7. CASE AbortReceived
  BY <1>3, <1>4, <1>7, Closing
     DEF AbortReceived, AttemptCompleted, Transfer!Justified, TransferStatus,
         AbortCodes
<1>8. CASE WaitReceived
  BY <1>3, <1>8, Stutter DEF WaitReceived, owner
<1>9. CASE TransferFailed
  <2>1. Retry /\ AttemptCompleted /\ Counter /\ ClientAssumption
    BY <1>9, ClientAssumption DEF TransferFailed, Inv
  <2>2. CASE retries < dlpRetries
    <3>1. CASE Bounded
      <4>1. Transfer!Forgive
        BY <1>3, <2>1, <2>2, <3>1, RetryCases
           DEF Counter, Bounded, configuration, owner, Transfer!Forgive
      <4> QED
        BY <4>1 DEF Transfer!Next
    <3>2. CASE ~Bounded
      BY <1>3, <2>1, <2>2, <3>2, RetryCases
         DEF Counter, Bounded, configuration, owner, Transfer!vars
    <3> QED
      BY <3>1, <3>2
  <2>3. CASE retries = dlpRetries /\ ~Bounded
    BY <1>3, <2>1, <2>3, RetryCases
       DEF Counter, Bounded, configuration, owner, Transfer!vars
  <2>4. CASE retries = dlpRetries /\ Bounded
    <3>1. Complete("CommunicationError") /\ Forgiving' = Forgiving
      BY <1>3, <2>1, <2>4, RetryCases
         DEF Counter, Bounded, Forgiving, configuration
    <3>2. Transfer!Justified("CommunicationError")
      BY <2>1, <2>4 DEF Counter, Transfer!Justified
    <3> QED
      BY <1>3, <2>1, <3>1, <3>2, Closing DEF TransferStatus
  <2> QED
    BY <1>3, <2>1, <2>2, <2>3, <2>4 DEF Counter
<1>10. CASE WaitTimerExpires
  BY <1>10, Stutter DEF WaitTimerExpires, owner
<1>11. CASE HandleWaitTimeout
  <2>1. CASE waitTimer = "expired"
    BY <1>11, <2>1, Stutter DEF HandleWaitTimeout, WaitOver, owner
  <2>2. CASE waitTimer = "cancelled"
    BY <1>4, <1>11, <2>2, Closing
       DEF HandleWaitTimeout, WaitOver, Inv, Path, OnePathPending,
           Transfer!Justified, TransferStatus, AbortCodes
  <2> QED
    BY <1>11, <2>1, <2>2 DEF HandleWaitTimeout
<1>12. CASE UNCHANGED vars
  BY <1>12, Stutter DEF vars, owner
<1> QED
  BY <1>1, <1>2, <1>5, <1>6, <1>7, <1>8, <1>9, <1>10, <1>11, <1>12
     DEF Next, HandleCompletion

(* The retry mechanism keeps the promise of TftpTransfer: dlpRetries + 1   *)
(* failed attempts and no fewer before it gives up, WAITs for nothing, and *)
(* no outcome the owner or the peer has not caused.                        *)
THEOREM ClientImplementsTransfer == Spec => ImplementsTransfer
BY InvInit, InvStep, RefinementInit, RefinementStep, PTL
   DEF Spec, ImplementsTransfer, Transfer!Spec

(***************************************************************************)
(* Numbers in messages.  What a recursive function computes is proved by   *)
(* the least number for which it would fail.                               *)
(***************************************************************************)

IsPrefixNumbers(value, text, base) ==
  value = [i \in 0..Len(text) |-> IF i = 0 THEN 0 ELSE value[i - 1] * base + text[i]]

(* The numbers of the prefixes exist: from those of the first i digits to  *)
(* those of one more.                                                      *)
LEMMA PrefixNumbersExist ==
  ASSUME NEW text, NEW base, Len(text) \in Nat
  PROVE  IsPrefixNumbers(PrefixNumbers(text, base), text, base)
<1> DEFINE Upto(value, n) ==
             value = [i \in 0..n |-> IF i = 0 THEN 0 ELSE value[i - 1] * base + text[i]]
           Reached == {n \in Nat : \E value : Upto(value, n)}
<1>1. 0 \in Reached
  <2>1. Upto([i \in 0..0 |-> 0], 0)
    OBVIOUS
  <2> QED
    BY <2>1
<1>2. ASSUME NEW n \in Nat, n \in Reached
      PROVE  n + 1 \in Reached
  <2>1. PICK value : Upto(value, n)
    BY <1>2
  <2> DEFINE longer ==
        [i \in 0..(n + 1) |-> IF i \in 0..n THEN value[i] ELSE value[n] * base + text[n + 1]]
  <2>2. ASSUME NEW i \in 0..(n + 1)
        PROVE  longer[i] = IF i = 0 THEN 0 ELSE longer[i - 1] * base + text[i]
    <3>1. CASE i = 0
      BY <2>1, <3>1
    <3>2. CASE i \in 1..n
      BY <2>1, <3>2
    <3>3. CASE i = n + 1
      BY <3>3
    <3> QED
      BY <3>1, <3>2, <3>3
  <2> HIDE DEF longer
  <2>3. Upto(longer, n + 1)
    BY <2>2 DEF longer
  <2> QED
    BY <2>3
<1> HIDE DEF Reached
<1>3. Nat \subseteq Reached
  BY <1>1, <1>2, AllNumbers
<1>4. \E value : IsPrefixNumbers(value, text, base)
  BY <1>3 DEF Reached, IsPrefixNumbers
<1> QED
  BY <1>4 DEF PrefixNumbers, IsPrefixNumbers

LEMMA PrefixNumber ==
  ASSUME NEW text, NEW base, Len(text) \in Nat
  PROVE  /\ PrefixNumbers(text, base)[0] = 0
         /\ \A i \in 1..Len(text) :
              PrefixNumbers(text, base)[i] = PrefixNumbers(text, base)[i - 1] * base + text[i]
<1> DEFINE value == PrefixNumbers(text, base)
<1>1. IsPrefixNumbers(value, text, base)
  BY PrefixNumbersExist
<1> HIDE DEF value
<1>2. \A i \in 0..Len(text) : value[i] = IF i = 0 THEN 0 ELSE value[i - 1] * base + text[i]
  BY <1>1 DEF IsPrefixNumbers
<1>3. value[0] = 0
  BY <1>2
<1>4. \A i \in 1..Len(text) : value[i] = value[i - 1] * base + text[i]
  BY <1>2
<1> QED
  BY <1>3, <1>4 DEF value

LEMMA PrefixNumberIsNumber ==
  ASSUME NEW text \in Seq(Nat), NEW base \in Nat, NEW n \in 0..Len(text)
  PROVE  PrefixNumbers(text, base)[n] \in Nat
<1> DEFINE value == PrefixNumbers(text, base)
           S == {i \in Nat : i <= Len(text) => value[i] \in Nat}
<1>1. Len(text) \in Nat /\ \A i \in 1..Len(text) : text[i] \in Nat
  OBVIOUS
<1>2. 0 \in S
  BY <1>1, PrefixNumber
<1>3. ASSUME NEW i \in Nat, i \in S
      PROVE  i + 1 \in S
  <2>1. CASE i + 1 <= Len(text)
    <3>1. value[i] \in Nat /\ text[i + 1] \in Nat
      BY <1>1, <1>3, <2>1
    <3>2. value[i + 1] = value[i] * base + text[i + 1]
      BY <1>1, <2>1, PrefixNumber
    <3> HIDE DEF value
    <3> DEFINE product == value[i] * base
    <3>3. product \in Nat
      BY <3>1
    <3>4. value[i + 1] = product + text[i + 1]
      BY <3>2
    <3> HIDE DEF product
    <3>5. value[i + 1] \in Nat
      BY <3>1, <3>3, <3>4
    <3> QED
      BY <1>3, <3>5
  <2>2. CASE ~(i + 1 <= Len(text))
    BY <2>2
  <2> QED
    BY <2>1, <2>2
<1> HIDE DEF S
<1>4. Nat \subseteq S
  BY <1>2, <1>3, AllNumbers
<1> QED
  BY <1>1, <1>4 DEF S

IsLeadingDigits(n, text, base) ==
  /\ \A i \in 1..n : text[i] < base
  /\ n = Len(text) \/ ~(text[n + 1] < base)

(* A text has leading digits, if none at all: else it would have more      *)
(* digits than characters.                                                 *)
LEMMA LeadingDigitsExist ==
  ASSUME NEW text \in Seq(Nat), NEW base \in Nat
  PROVE  /\ LeadingDigits(text, base) \in 0..Len(text)
         /\ IsLeadingDigits(LeadingDigits(text, base), text, base)
<1>1. \E n \in 0..Len(text) : IsLeadingDigits(n, text, base)
  <2> SUFFICES ASSUME \A n \in 0..Len(text) : ~IsLeadingDigits(n, text, base)
               PROVE  FALSE
    OBVIOUS
  <2> DEFINE S == {n \in Nat : n <= Len(text) => \A i \in 1..n : text[i] < base}
  <2>1. 0 \in S
    OBVIOUS
  <2>2. ASSUME NEW n \in Nat, n \in S
        PROVE  n + 1 \in S
    <3> SUFFICES ASSUME n + 1 <= Len(text), NEW i \in 1..(n + 1)
                 PROVE  text[i] < base
      OBVIOUS
    <3>1. n \in 0..Len(text) /\ Len(text) \in Nat
      OBVIOUS
    <3>2. \A j \in 1..n : text[j] < base
      BY <2>2, <3>1
    <3>3. ~IsLeadingDigits(n, text, base)
      BY <3>1
    <3>4. text[n + 1] < base
      BY <3>2, <3>3 DEF IsLeadingDigits
    <3> QED
      BY <3>1, <3>2, <3>4
  <2> HIDE DEF S
  <2>3. Nat \subseteq S
    BY <2>1, <2>2, AllNumbers
  <2>4. IsLeadingDigits(Len(text), text, base)
    BY <2>3 DEF S, IsLeadingDigits
  <2> QED
    BY <2>4
<1>2. \A n \in 0..Len(text) :
        IsLeadingDigits(n, text, base)
          <=> (\A i \in 1..n : text[i] < base)
                /\ (n = Len(text) \/ ~(\A i \in 1..(n + 1) : text[i] < base))
  BY DEF IsLeadingDigits
<1> QED
  BY <1>1, <1>2 DEF LeadingDigits

LEMMA FromCharsType ==
  ASSUME NEW text \in Seq(Nat), NEW base \in Nat
  PROVE  FromChars(text, base) \in 0..NoNumber
<1>1. PrefixNumbers(text, base)[LeadingDigits(text, base)] \in Nat
  BY LeadingDigitsExist, PrefixNumberIsNumber
<1> DEFINE n == LeadingDigits(text, base)
           number == PrefixNumbers(text, base)[n]
<1>2. FromChars(text, base) = IF n = 0 \/ number >= Limit THEN NoNumber ELSE number
  BY Zenon DEF FromChars
<1> HIDE DEF n, number
<1>3. number \in Nat
  BY <1>1 DEF number, n
<1>4. Limit \in Nat
  BY DEF Limit
<1>5. \/ FromChars(text, base) = Limit
     \/ (FromChars(text, base) = number /\ number < Limit)
  <2>1. CASE n = 0 \/ number >= Limit
    BY <1>2, <2>1 DEF NoNumber
  <2>2. CASE ~(n = 0 \/ number >= Limit)
    BY <1>2, <1>3, <1>4, <2>2
  <2> QED
    BY <2>1, <2>2
<1> QED
  BY <1>3, <1>4, <1>5 DEF NoNumber

(* A text of digits alone is read to its end.                              *)
LEMMA DigitsAlone ==
  ASSUME NEW text \in Seq(Nat), NEW base \in Nat, Len(text) # 0,
         \A i \in 1..Len(text) : text[i] < base,
         PrefixNumbers(text, base)[Len(text)] < Limit
  PROVE  FromChars(text, base) = PrefixNumbers(text, base)[Len(text)]
<1> DEFINE n == LeadingDigits(text, base)
<1>1. n \in 0..Len(text) /\ IsLeadingDigits(n, text, base)
  BY LeadingDigitsExist
<1>2. Len(text) \in Nat /\ Limit \in Nat
  BY DEF Limit
<1>3. n = Len(text)
  <2> HIDE DEF n
  <2>1. n # Len(text) => n + 1 \in 1..Len(text)
    BY <1>1, <1>2
  <2> QED
    BY <1>1, <1>2, <2>1 DEF IsLeadingDigits
<1>4. PrefixNumbers(text, base)[n] \in Nat
  BY <1>1, PrefixNumberIsNumber
<1>5. ~(PrefixNumbers(text, base)[n] >= Limit)
  BY <1>2, <1>3, <1>4
<1> QED
  BY <1>3, <1>5, Zenon DEF FromChars

(* Digits that are a number's, the most significant first, are read as     *)
(* that number.                                                            *)
LEMMA DigitsRead ==
  ASSUME NEW base \in Nat \ {0}, NEW length \in Nat \ {0},
         NEW number \in Nat, number < Limit, NEW power,
         \A k \in 1..length : number \div power[k] \in Nat,
         \A k \in 1..length :
           number \div power[k]
             = base * (number \div power[k + 1]) + ((number \div power[k]) % base),
         number \div power[1] = number,
         number \div power[length + 1] = 0
  PROVE  FromChars([i \in 1..length |-> (number \div power[length + 1 - i]) % base], base)
           = number
<1> DEFINE text == [i \in 1..length |-> (number \div power[length + 1 - i]) % base]
           value == PrefixNumbers(text, base)
<1>1. /\ DOMAIN text = 1..length
      /\ \A i \in 1..length : text[i] = (number \div power[length + 1 - i]) % base
      /\ text \in [1..length -> Nat] => text \in Seq(Nat) /\ Len(text) = length
  OBVIOUS
<1>2. text = [i \in 1..length |-> text[i]]
  OBVIOUS
<1> HIDE DEF text
<1>3. ASSUME NEW i \in 1..length
      PROVE  text[i] \in Nat /\ text[i] < base
  <2>1. length + 1 - i \in 1..length
    OBVIOUS
  <2> DEFINE quotient == number \div power[length + 1 - i]
  <2>2. quotient \in Nat
    BY <2>1
  <2>3. text[i] = quotient % base
    BY <1>1
  <2> HIDE DEF quotient
  <2>4. quotient % base \in Nat /\ quotient % base < base
    BY <2>2
  <2> QED
    BY <2>3, <2>4
<1>4. text \in Seq(Nat) /\ Len(text) = length
  <2>1. text \in [1..length -> Nat]
    BY <1>2, <1>3
  <2> QED
    BY <1>1, <2>1
<1>5. value[0] = 0 /\ \A i \in 1..length : value[i] = value[i - 1] * base + text[i]
  BY <1>4, PrefixNumber
<1>6. \A i \in 0..length : value[i] \in Nat
  BY <1>4, PrefixNumberIsNumber
<1> DEFINE S == {i \in Nat : i <= length => value[i] = number \div power[length + 1 - i]}
<1> HIDE DEF value
<1>7. 0 \in S
  <2>1. length + 1 - 0 = length + 1
    OBVIOUS
  <2> QED
    BY <1>5, <2>1
<1>8. ASSUME NEW i \in Nat, i \in S
      PROVE  i + 1 \in S
  <2> SUFFICES ASSUME i + 1 <= length
               PROVE  value[i + 1] = number \div power[length + 1 - (i + 1)]
    OBVIOUS
  <2> DEFINE k == length - i
  <2>1. /\ k \in 1..length
        /\ length + 1 - (i + 1) = k
        /\ length + 1 - i = k + 1
        /\ i + 1 \in 1..length
        /\ i \in 0..length
        /\ (i + 1) - 1 = i
    OBVIOUS
  <2>2. value[i] = number \div power[k + 1]
    BY <1>8, <2>1
  <2> HIDE DEF k
  <2>3. text[i + 1] = (number \div power[k]) % base
    BY <1>1, <2>1
  <2>4. value[i + 1] = value[i] * base + text[i + 1]
    BY <1>5, <2>1
  <2>5. number \div power[k]
          = base * (number \div power[k + 1]) + ((number \div power[k]) % base)
    BY <2>1
  <2>6. value[i] \in Nat
    BY <1>6, <2>1
  <2>7. value[i] * base = base * value[i]
    BY <2>6
  <2>8. value[i + 1] = number \div power[k]
    BY <2>2, <2>3, <2>4, <2>5, <2>7, Zenon
  <2> QED
    BY <2>1, <2>8, Zenon
<1> HIDE DEF S
<1>9. Nat \subseteq S
  BY <1>7, <1>8, AllNumbers
<1>10. value[length] = number
  <2>1. length + 1 - length = 1 /\ length \in Nat /\ length <= length
    OBVIOUS
  <2>2. value[length] = number \div power[length + 1 - length]
    BY <1>9, <2>1 DEF S
  <2> QED
    BY <2>1, <2>2, Zenon
<1>11. FromChars(text, base) = value[length]
  BY <1>3, <1>4, <1>10, DigitsAlone DEF value
<1> QED
  BY <1>10, <1>11, Zenon DEF text

LEMMA DecimalQuotients ==
  ASSUME NEW number \in Nat, NEW k \in 1..5
  PROVE  /\ number \div PowersOfTen[k] \in Nat
         /\ number \div PowersOfTen[k]
              = 10 * (number \div PowersOfTen[k + 1]) + ((number \div PowersOfTen[k]) % 10)
<1>1. CASE k = 1
  <2>1. PowersOfTen[1] = 1 /\ PowersOfTen[1 + 1] = 10
    BY DEF PowersOfTen
  <2>2. number \div 1 = 10 * (number \div 10) + ((number \div 1) % 10)
    OBVIOUS
  <2> QED
    BY <1>1, <2>1, <2>2
<1>2. CASE k = 2
  <2>1. PowersOfTen[2] = 10 /\ PowersOfTen[2 + 1] = 100
    BY DEF PowersOfTen
  <2>2. number \div 10 = 10 * (number \div 100) + ((number \div 10) % 10)
    OBVIOUS
  <2> QED
    BY <1>2, <2>1, <2>2
<1>3. CASE k = 3
  <2>1. PowersOfTen[3] = 100 /\ PowersOfTen[3 + 1] = 1000
    BY DEF PowersOfTen
  <2>2. number \div 100 = 10 * (number \div 1000) + ((number \div 100) % 10)
    OBVIOUS
  <2> QED
    BY <1>3, <2>1, <2>2
<1>4. CASE k = 4
  <2>1. PowersOfTen[4] = 1000 /\ PowersOfTen[4 + 1] = 10000
    BY DEF PowersOfTen
  <2>2. number \div 1000 = 10 * (number \div 10000) + ((number \div 1000) % 10)
    OBVIOUS
  <2> QED
    BY <1>4, <2>1, <2>2
<1>5. CASE k = 5
  <2>1. PowersOfTen[5] = 10000 /\ PowersOfTen[5 + 1] = 100000
    BY DEF PowersOfTen
  <2>2. number \div 10000 = 10 * (number \div 100000) + ((number \div 10000) % 10)
    OBVIOUS
  <2> QED
    BY <1>5, <2>1, <2>2
<1> QED
  BY <1>1, <1>2, <1>3, <1>4, <1>5

(* A decimal number of 16 bits has one to five digits.                     *)
LEMMA DecimalLength ==
  ASSUME NEW number \in Nat, number < Limit
  PROVE  \E n \in 1..5 :
           number < PowersOfTen[n + 1] /\ (n = 1 \/ number >= PowersOfTen[n])
<1>1. CASE number < 10
  <2>1. 1 \in 1..5 /\ PowersOfTen[1 + 1] = 10
    BY DEF PowersOfTen
  <2> QED
    BY <1>1, <2>1
<1>2. CASE number >= 10 /\ number < 100
  <2>1. 2 \in 1..5 /\ PowersOfTen[2] = 10 /\ PowersOfTen[2 + 1] = 100
    BY DEF PowersOfTen
  <2> QED
    BY <1>2, <2>1
<1>3. CASE number >= 100 /\ number < 1000
  <2>1. 3 \in 1..5 /\ PowersOfTen[3] = 100 /\ PowersOfTen[3 + 1] = 1000
    BY DEF PowersOfTen
  <2> QED
    BY <1>3, <2>1
<1>4. CASE number >= 1000 /\ number < 10000
  <2>1. 4 \in 1..5 /\ PowersOfTen[4] = 1000 /\ PowersOfTen[4 + 1] = 10000
    BY DEF PowersOfTen
  <2> QED
    BY <1>4, <2>1
<1>5. CASE number >= 10000
  <2>1. 5 \in 1..5 /\ PowersOfTen[5] = 10000 /\ PowersOfTen[5 + 1] = 100000
    BY DEF PowersOfTen
  <2>2. number < 100000
    BY DEF Limit
  <2> QED
    BY <1>5, <2>1, <2>2
<1> QED
  BY <1>1, <1>2, <1>3, <1>4, <1>5

(* A time to wait is read as it was written.                               *)
LEMMA WaitTimeRead ==
  ASSUME NEW time \in Nat, time < Limit
  PROVE  WaitTime(DecimalDigits(time)) = time
<1> DEFINE IsLength(n) == time < PowersOfTen[n + 1] /\ (n = 1 \/ time >= PowersOfTen[n])
           length == CHOOSE n \in 1..5 : IsLength(n)
<1>1. length \in 1..5 /\ time < PowersOfTen[length + 1]
  BY DecimalLength
<1>2. DecimalDigits(time)
        = [i \in 1..length |-> (time \div PowersOfTen[length + 1 - i]) % 10]
  BY Zenon DEF DecimalDigits
<1> HIDE DEF length
<1>3. time \div PowersOfTen[1] = time
  BY DEF PowersOfTen
<1>4. time \div PowersOfTen[length + 1] = 0
  <2>1. PowersOfTen[length + 1] \in Nat
    BY <1>1 DEF PowersOfTen
  <2> DEFINE power == PowersOfTen[length + 1]
  <2> HIDE DEF power
  <2>2. power \in Nat /\ time < power => time \div power = 0
    OBVIOUS
  <2> QED
    BY <1>1, <2>1, <2>2 DEF power
<1>5. length \in Nat \ {0} /\ \A k \in 1..length : k \in 1..5
  BY <1>1
<1>6. FromChars([i \in 1..length |-> (time \div PowersOfTen[length + 1 - i]) % 10], 10) = time
  <2>1. /\ \A k \in 1..length : time \div PowersOfTen[k] \in Nat
        /\ \A k \in 1..length :
             time \div PowersOfTen[k]
               = 10 * (time \div PowersOfTen[k + 1]) + ((time \div PowersOfTen[k]) % 10)
    BY <1>5, DecimalQuotients
  <2>2. 10 \in Nat \ {0}
    OBVIOUS
  <2> QED
    BY <1>3, <1>4, <1>5, <2>1, <2>2, DigitsRead, ZenonT(60)
<1> QED
  BY <1>2, <1>6 DEF WaitTime

LEMMA HexQuotients ==
  ASSUME NEW number \in Nat, NEW k \in 1..4
  PROVE  /\ number \div PowersOfSixteen[k] \in Nat
         /\ number \div PowersOfSixteen[k]
              = 16 * (number \div PowersOfSixteen[k + 1])
                  + ((number \div PowersOfSixteen[k]) % 16)
<1>1. CASE k = 1
  <2>1. PowersOfSixteen[1] = 1 /\ PowersOfSixteen[1 + 1] = 16
    BY DEF PowersOfSixteen
  <2>2. number \div 1 = 16 * (number \div 16) + ((number \div 1) % 16)
    OBVIOUS
  <2> QED
    BY <1>1, <2>1, <2>2
<1>2. CASE k = 2
  <2>1. PowersOfSixteen[2] = 16 /\ PowersOfSixteen[2 + 1] = 256
    BY DEF PowersOfSixteen
  <2>2. number \div 16 = 16 * (number \div 256) + ((number \div 16) % 16)
    OBVIOUS
  <2> QED
    BY <1>2, <2>1, <2>2
<1>3. CASE k = 3
  <2>1. PowersOfSixteen[3] = 256 /\ PowersOfSixteen[3 + 1] = 4096
    BY DEF PowersOfSixteen
  <2>2. number \div 256 = 16 * (number \div 4096) + ((number \div 256) % 16)
    OBVIOUS
  <2> QED
    BY <1>3, <2>1, <2>2
<1>4. CASE k = 4
  <2>1. PowersOfSixteen[4] = 4096 /\ PowersOfSixteen[4 + 1] = 65536
    BY DEF PowersOfSixteen
  <2>2. number \div 4096 = 16 * (number \div 65536) + ((number \div 4096) % 16)
    OBVIOUS
  <2> QED
    BY <1>4, <2>1, <2>2
<1> QED
  BY <1>1, <1>2, <1>3, <1>4

(* The code of an abort is read as it was written, and is a known one.     *)
LEMMA AbortCodeRead ==
  ASSUME NEW code \in MessageCodes
  PROVE  AbortCode(HexDigits(code)) = code
<1>1. code \in Nat /\ code < Limit
  BY DEF MessageCodes, AbortedByDlp, AbortedByOperator, Limit
<1>2. code \div PowersOfSixteen[1] = code /\ code \div PowersOfSixteen[4 + 1] = 0
  BY <1>1 DEF PowersOfSixteen, Limit
<1>3. /\ \A k \in 1..4 : code \div PowersOfSixteen[k] \in Nat
      /\ \A k \in 1..4 :
           code \div PowersOfSixteen[k]
             = 16 * (code \div PowersOfSixteen[k + 1]) + ((code \div PowersOfSixteen[k]) % 16)
  BY <1>1, HexQuotients
<1>4. 16 \in Nat \ {0} /\ 4 \in Nat \ {0}
  OBVIOUS
<1>5. FromChars([i \in 1..4 |-> (code \div PowersOfSixteen[4 + 1 - i]) % 16], 16) = code
  BY <1>1, <1>2, <1>3, <1>4, DigitsRead, ZenonT(60)
<1>6. HexDigits(code) = [i \in 1..4 |-> (code \div PowersOfSixteen[4 + 1 - i]) % 16]
  <2>1. \A i \in 1..4 : 5 - i = 4 + 1 - i
    OBVIOUS
  <2> QED
    BY <2>1, Zenon DEF HexDigits
<1> QED
  BY <1>5, <1>6, Zenon DEF AbortCode

(***************************************************************************)
(* What a message says.                                                    *)
(***************************************************************************)

LEMMA NoText ==
  ASSUME NEW base \in Nat
  PROVE  FromChars(<<>>, base) = NoNumber
<1>1. <<>> \in Seq(Nat) /\ Len(<<>>) = 0
  OBVIOUS
<1>2. LeadingDigits(<<>>, base) \in 0..Len(<<>>)
  BY <1>1, LeadingDigitsExist
<1>3. LeadingDigits(<<>>, base) = 0
  BY <1>1, <1>2
<1> QED
  BY <1>3, Zenon DEF FromChars

(* A message of this repository's server means to the client what it meant *)
(* to the server.                                                          *)
LEMMA OwnMessageUnderstood ==
  ASSUME NEW message \in OwnMessages
  PROVE  Understood(Packet(message)) = message
<1>1. CASE kind = "Status"
  <2>1. PICK code \in {AbortedByDlp, AbortedByOperator} :
          message = [prefix |-> "Abort", number |-> code]
    BY <1>1 DEF OwnMessages, DataFiles
  <2>2. code \in MessageCodes /\ code # NoNumber
    BY DEF MessageCodes, AbortedByDlp, AbortedByOperator, NoNumber, Limit
  <2>3. AbortCode(HexDigits(code)) = code
    BY <2>2, AbortCodeRead
  <2>4. HexDigits(code) # <<>>
    BY DEF HexDigits
  <2>5. Packet(message) = [prefix |-> "Abort", text |-> HexDigits(code)]
    BY <2>1 DEF Packet, AbortMessage
  <2> QED
    BY <2>1, <2>3, <2>4, <2>5 DEF Understood, MessageType
<1>2. CASE kind \in DataFiles
  <2>1. PICK time \in WaitTimes : message = [prefix |-> "Wait", number |-> time]
    BY <1>2 DEF OwnMessages, DataFiles
  <2>2. time \in Nat /\ time < Limit
    <3>1. Limit \in Nat
      BY DEF Limit
    <3> QED
      BY <3>1, MessagesAssumption DEF MessagesAssumption
  <2>3. WaitTime(DecimalDigits(time)) = time
    BY <2>2, WaitTimeRead
  <2>4. DecimalDigits(time) # <<>>
    <3>1. WaitTime(<<>>) = NoNumber
      BY NoText DEF WaitTime
    <3>2. time # NoNumber
      BY <2>2 DEF NoNumber, Limit
    <3> QED
      BY <2>3, <3>1, <3>2
  <2>5. Packet(message) = [prefix |-> "Wait", text |-> DecimalDigits(time)]
    BY <2>1 DEF Packet, WaitMessage
  <2> QED
    BY <2>1, <2>3, <2>4, <2>5 DEF Understood, MessageType
<1> QED
  BY <1>1, <1>2 DEF OwnMessages

LEMMA OwnMessageType ==
  ASSUME NEW message \in OwnMessages
  PROVE  message \in [prefix : {"Abort", "Wait", "Invalid"}, number : 0..NoNumber]
<1>1. NoNumber \in Nat /\ Limit \in Nat /\ NoNumber = Limit
  BY DEF NoNumber, Limit
<1>2. CASE kind = "Status"
  <2>1. AbortedByDlp \in 0..NoNumber /\ AbortedByOperator \in 0..NoNumber
    BY DEF AbortedByDlp, AbortedByOperator, NoNumber, Limit
  <2> QED
    BY <1>2, <2>1 DEF OwnMessages, DataFiles
<1>3. CASE kind \in DataFiles
  <2>1. WaitTimes \subseteq 0..NoNumber
    BY <1>1, MessagesAssumption DEF MessagesAssumption
  <2> QED
    BY <1>3, <2>1 DEF OwnMessages, DataFiles
<1> QED
  BY <1>2, <1>3 DEF OwnMessages

(* Whatever a foreign server sends, the number is one or none.             *)
LEMMA ForeignMessageType ==
  ASSUME NEW message \in ForeignMessages
  PROVE  message.number \in 0..NoNumber
<1>1. PICK prefix \in {"Abort", "Wait", "Invalid"}, text \in ForeignTexts :
        message = Understood([prefix |-> prefix, text |-> text])
  BY DEF ForeignMessages
<1>2. text \in Seq(Nat)
  <2>1. text \in Seq(0..NoDigit) /\ 0..NoDigit \subseteq Nat
    BY MessagesAssumption DEF MessagesAssumption, NoDigit
  <2> QED
    BY <2>1, SeqMonotonic
<1>3. FromChars(text, 16) \in 0..NoNumber /\ FromChars(text, 10) \in 0..NoNumber
  BY <1>2, FromCharsType
<1>4. NoNumber \in 0..NoNumber
  BY DEF NoNumber, Limit
<1>5. AbortCode(text) \in 0..NoNumber /\ WaitTime(text) \in 0..NoNumber
  BY <1>3, <1>4 DEF AbortCode, WaitTime
<1> QED
  BY <1>1, <1>4, <1>5 DEF Understood, MessageType

(***************************************************************************)
(* Options.                                                                *)
(***************************************************************************)

LEMMA OptionsEqual ==
  ASSUME NEW a \in Options, NEW b,
         b = [port |-> a.port, partNumber |-> a.partNumber, checksum |-> a.checksum]
  PROVE  b = a
BY DEF Options

(* A checksum survives its way through a packet.                           *)
LEMMA ChecksumKept ==
  ASSUME NEW checksum \in (CheckTypes \X CheckValues) \cup {None}
  PROVE  Checksum(IF checksum = None THEN {} ELSE {checksum}) = checksum
<1>1. CASE checksum = None
  <2>1. Cardinality({}) # 1
    BY FS_EmptySet
  <2> QED
    BY <1>1, <2>1 DEF Checksum
<1>2. CASE checksum # None
  <2>1. Cardinality({checksum}) = 1
    BY FS_Singleton
  <2>2. checksum[2] # Invalid
    BY <1>2, OptionsAssumption DEF OptionsAssumption
  <2>3. (CHOOSE c \in {checksum} : TRUE) = checksum
    OBVIOUS
  <2> QED
    BY <1>2, <2>1, <2>2, <2>3 DEF Checksum
<1> QED
  BY <1>1, <1>2

(* A checksum that is taken out of any packet is one or none.              *)
LEMMA ChecksumType ==
  ASSUME NEW checksums \in SUBSET ChecksumOptions
  PROVE  Checksum(checksums) \in (CheckTypes \X CheckValues) \cup {None}
<1> SUFFICES ASSUME Cardinality(checksums) = 1, \A c \in checksums : c[2] # Invalid
             PROVE  (CHOOSE c \in checksums : TRUE) \in CheckTypes \X CheckValues
  BY DEF Checksum
<1>1. checksums # {}
  BY FS_EmptySet
<1>2. PICK c \in checksums : c = (CHOOSE d \in checksums : TRUE)
  BY <1>1
<1>3. c \in CheckTypes \X CheckValues
  BY DEF ChecksumOptions
<1> QED
  BY <1>2, <1>3

LEMMA AnswerType ==
  ASSUME NEW received \in Answers, received.port # Invalid
  PROVE  received \in Options
<1>1. PICK packet \in PacketOptions : received = OfAnswer(packet)
  BY DEF Answers
<1>2. Checksum(packet.checksums) \in (CheckTypes \X CheckValues) \cup {None}
  BY ChecksumType DEF PacketOptions
<1> QED
  BY <1>1, <1>2 DEF OfAnswer, PacketOptions, Options

(* What a server of this repository answers: what it was offered, but for  *)
(* the port where it is too old for it.                                    *)
OwnAnswer(fileKind, version, options) ==
  IF fileKind = "Initialisation" /\ version # "A4" THEN NoOptions ELSE options

LEMMA RequestKept ==
  ASSUME NEW options \in Options
  PROVE  OfRequest(ToPacket(options)) = options
<1>1. Checksum(ToPacket(options).checksums) = options.checksum
  BY ChecksumKept DEF ToPacket, Options
<1>2. options.port # Invalid
  BY OptionsAssumption DEF OptionsAssumption, Options
<1>3. OfRequest(ToPacket(options))
        = [port |-> options.port, partNumber |-> options.partNumber,
           checksum |-> options.checksum]
  BY <1>1, <1>2 DEF OfRequest, ToPacket
<1> QED
  BY <1>3, OptionsEqual

LEMMA AnswerKept ==
  ASSUME NEW options \in Options
  PROVE  OfAnswer(ToPacket(options)) = options
<1>1. Checksum(ToPacket(options).checksums) = options.checksum
  BY ChecksumKept DEF ToPacket, Options
<1>2. OfAnswer(ToPacket(options))
        = [port |-> options.port, partNumber |-> options.partNumber,
           checksum |-> options.checksum]
  BY <1>1 DEF OfAnswer, ToPacket
<1> QED
  BY <1>2, OptionsEqual

LEMMA NoOptionsType == NoOptions \in Options
BY DEF NoOptions, Options

LEMMA OffersType ==
  ASSUME NEW fileKind \in Kinds, NEW options \in Offers(fileKind)
  PROVE  /\ options \in Options
         /\ fileKind \notin ReadKinds => options.port = None
         /\ fileKind = "Initialisation" => options.partNumber = None /\ options.checksum = None
         /\ fileKind = "ConfigurationList" => options.port = None /\ options.partNumber = None
         /\ fileKind \in DataFiles => options.port = None
         /\ fileKind \in {"Request", "Status"} => options = NoOptions
BY NoOptionsType
   DEF Offers, Kinds, HostKinds, DataFiles, ReadKinds, InitialisationOffers, ListOffers,
       UploadFileOffers, DownloadFileOffers, ReadOffers, WriteOffers, NoOptions

LEMMA OwnServerAnswers ==
  ASSUME NEW fileKind \in Kinds, NEW version, NEW options \in Offers(fileKind)
  PROVE  OfAnswer(Response(fileKind, version, OfRequest(RequestPacket(fileKind, options))))
           = OwnAnswer(fileKind, version, options)
<1>1. options \in Options
  BY OffersType
<1>2. RequestPacket(fileKind, options) = ToPacket(options)
  <2>1. CASE fileKind \in ReadKinds
    BY <2>1 DEF RequestPacket, ReadRequest
  <2>2. CASE fileKind \notin ReadKinds
    <3>1. [options EXCEPT !.port = None] = options
      BY <1>1, <2>2, OffersType DEF Options
    <3> QED
      BY <2>2, <3>1 DEF RequestPacket, WriteRequest
  <2> QED
    BY <2>1, <2>2
<1>3. OfRequest(RequestPacket(fileKind, options)) = options
  BY <1>1, <1>2, RequestKept
<1>4. Answer(fileKind, version, options) = OwnAnswer(fileKind, version, options)
  <2>1. CASE fileKind = "Initialisation"
    BY <1>1, <2>1, OffersType DEF Answer, PortAnswer, OwnAnswer, NoOptions, Options
  <2>2. CASE fileKind = "ConfigurationList"
    BY <1>1, <2>2, OffersType DEF Answer, ChecksumAnswer, OwnAnswer, NoOptions, Options
  <2>3. CASE fileKind \in DataFiles
    BY <1>1, <2>3, OffersType
       DEF Answer, UploadFileAnswer, DownloadFileAnswer, OwnAnswer, DataFiles, Options
  <2>4. CASE fileKind \in {"Request", "Status"}
    BY <2>4, OffersType DEF Answer, OwnAnswer
  <2> QED
    BY <2>1, <2>2, <2>3, <2>4 DEF Kinds, HostKinds
<1>5. OwnAnswer(fileKind, version, options) \in Options
  BY <1>1, NoOptionsType DEF OwnAnswer
<1>6. Response(fileKind, version, options) = ToPacket(OwnAnswer(fileKind, version, options))
  BY <1>4 DEF Response, ReadResponse, WriteResponse
<1> QED
  BY <1>3, <1>5, <1>6, AnswerKept

(* A client accepts what it offered.                                       *)
LEMMA OwnOfferAccepted ==
  ASSUME NEW fileKind \in Kinds, NEW options \in Offers(fileKind)
  PROVE  Accepts(fileKind, options, options)
<1>1. options \in Options /\ options.port # Invalid
  BY OffersType, OptionsAssumption DEF OptionsAssumption, Options
<1>2. CASE fileKind = "Initialisation"
  BY <1>1, <1>2, OffersType DEF Accepts, AcceptsPort
<1>3. CASE fileKind = "ConfigurationList"
  BY <1>1, <1>3, OffersType DEF Accepts, AcceptsChecksum
<1>4. CASE fileKind \in DataFiles
  BY <1>1, <1>4, OffersType DEF Accepts, AcceptsUploadFile, AcceptsDownloadFile, DataFiles
<1>5. CASE fileKind \in {"Request", "Status"}
  BY <1>1, <1>5, OffersType DEF Accepts, AcceptsNone, AcceptsChecksum, NoOptions
<1> QED
  BY <1>2, <1>3, <1>4, <1>5 DEF Kinds, HostKinds

(***************************************************************************)
(* The exchange is a client, so all that holds of every client holds of it. *)
(***************************************************************************)

LEMMA MessageEndsAttempt ==
  ASSUME NEW message, MessageHandled(message)
  PROVE  /\ AttemptCompleted
         /\ AbortReceived \/ WaitReceived \/ TransferFailed
BY DEF MessageHandled, AbortReceived, WaitReceived, TransferFailed

LEMMA ExchangeStep ==
  ASSUME [ExchangeNext]_exchangeVars
  PROVE  [Next]_vars
<1>1. CASE Internal
  BY <1>1 DEF Internal, OwnerCalls, Next
<1>2. CASE AnswerAccepted
  BY <1>2 DEF AnswerAccepted, Next, HandleCompletion
<1>3. CASE AnswerRefused
  BY <1>3 DEF AnswerRefused, Next, HandleCompletion
<1>4. CASE ExchangeLost
  BY <1>4 DEF ExchangeLost, Next, HandleCompletion
<1>5. CASE ErrorReceived
  BY <1>5, MessageEndsAttempt DEF ErrorReceived, Next, HandleCompletion
<1>6. CASE UNCHANGED exchangeVars
  BY <1>6 DEF exchangeVars
<1> QED
  BY <1>1, <1>2, <1>3, <1>4, <1>5, <1>6 DEF ExchangeNext, AttemptEnds

(* Whatever is said in its packets, a transfer is one of TftpClient's, with *)
(* the same fairness.                                                      *)
THEOREM ExchangeIsClient == ExchangeSpec => FairSpec
<1>1. ExchangeInit => Init
  BY DEF ExchangeInit
<1> QED
  BY <1>1, ExchangeStep, PTL DEF ExchangeSpec, FairSpec, Spec

(* An exchange keeps the promise of a transfer: a refused answer or a      *)
(* message that cannot be read is one failed attempt, and the host's abort *)
(* ends a transfer only where it is handled.                               *)
THEOREM ExchangeImplementsTransfer == ExchangeSpec => ImplementsTransfer
BY ExchangeIsClient, ClientImplementsTransfer, PTL DEF FairSpec

(***************************************************************************)
(* Types of the exchange.                                                  *)
(***************************************************************************)

MessageValues == [prefix : {"Abort", "Wait", "Invalid"}, number : 0..NoNumber]

Exchanged ==
  /\ kind \in Kinds
  /\ offer \in Offers(kind)
  /\ peer \in {"A2", "A4", "foreign"}
  /\ handleAbort = HandlesAbort
  /\ answer \in Options
  /\ hostPort \in Ports \cup {DefaultPort}
  /\ sent \in MessageValues
  /\ waitTime \in 0..(Limit - 1)

LEMMA TransferKept ==
  ASSUME [ExchangeNext]_exchangeVars
  PROVE  UNCHANGED <<transfer, handleAbort>>
<1>1. UNCHANGED transfer
  BY DEF ExchangeNext, exchangeVars, transfer, Internal, AttemptEnds, AnswerAccepted,
         AnswerRefused, ExchangeLost, ErrorReceived
<1>2. [Next]_vars
  BY ExchangeStep
<1>3. UNCHANGED handleAbort
  BY <1>2 DEF Next, vars, configuration, Request, Abort, HandleCompletion, AttemptCompleted,
              TransferSucceeded, TransferAborted, AbortReceived, WaitReceived,
              TransferFailed, WaitTimerExpires, HandleWaitTimeout, WaitOver
<1> QED
  BY <1>1, <1>3

LEMMA NoMessageType == NoMessage \in MessageValues
BY DEF NoMessage, MessageValues, NoNumber, Limit

LEMMA ServerAnswersType ==
  ASSUME Exchanged, NEW received \in ServerAnswers, received.port # Invalid
  PROVE  received \in Options
<1>1. CASE Own
  <2>1. received = OwnAnswer(kind, peer, offer)
    BY <1>1, OwnServerAnswers DEF ServerAnswers, Exchanged
  <2>2. offer \in Options
    BY OffersType DEF Exchanged
  <2> QED
    BY <2>1, <2>2, NoOptionsType DEF OwnAnswer
<1>2. CASE ~Own
  BY <1>2, AnswerType DEF ServerAnswers
<1> QED
  BY <1>1, <1>2

LEMMA ServedType ==
  ASSUME Exchanged, NEW received \in ServerAnswers, received.port # Invalid,
         Served(received)
  PROVE  hostPort' \in Ports \cup {DefaultPort}
BY ServerAnswersType DEF Exchanged, Served, PortOf, Options

LEMMA ExchangedInit == ExchangeInit => Exchanged
<1> SUFFICES ASSUME ExchangeInit
             PROVE  Exchanged
  OBVIOUS
<1>1. 0 \in 0..(Limit - 1)
  BY DEF Limit
<1> QED
  BY <1>1, NoMessageType, NoOptionsType DEF ExchangeInit, Exchanged

LEMMA ExchangedStep == Exchanged /\ [ExchangeNext]_exchangeVars => Exchanged'
<1> SUFFICES ASSUME Exchanged, [ExchangeNext]_exchangeVars
             PROVE  Exchanged'
  OBVIOUS
<1>1. /\ kind' = kind /\ offer' = offer /\ peer' = peer
      /\ handleAbort' = handleAbort
  BY TransferKept DEF transfer
<1>2. (HandlesAbort)' = HandlesAbort /\ Offers(kind)' = Offers(kind)
  BY <1>1 DEF HandlesAbort
<1>3. SUFFICES /\ answer' \in Options
               /\ hostPort' \in Ports \cup {DefaultPort}
               /\ sent' \in MessageValues
               /\ waitTime' \in 0..(Limit - 1)
  BY <1>1, <1>2 DEF Exchanged
<1>4. CASE Internal \/ UNCHANGED exchangeVars
  BY <1>4 DEF Exchanged, Internal, exchangeVars, negotiated, messages
<1>5. CASE AnswerAccepted
  <2>1. PICK received \in ServerAnswers :
          /\ Accepts(kind, offer, received)
          /\ answer' = received
          /\ Served(received)
          /\ sent' = NoMessage
          /\ waitTime' = waitTime
    BY <1>5 DEF AnswerAccepted
  <2>2. received.port # Invalid
    BY <2>1 DEF Accepts
  <2> QED
    BY <2>1, <2>2, ServerAnswersType, ServedType, NoMessageType DEF Exchanged
<1>6. CASE AnswerRefused
  <2>1. PICK received \in ServerAnswers :
          /\ (received.port # Invalid /\ Served(received)) \/ hostPort' = hostPort
          /\ answer' = answer
          /\ sent' = NoMessage
          /\ waitTime' = waitTime
    BY <1>6 DEF AnswerRefused
  <2> QED
    BY <2>1, ServedType, NoMessageType DEF Exchanged
<1>7. CASE ExchangeLost
  <2>1. /\ answer' = answer
        /\ sent' = NoMessage
        /\ waitTime' = waitTime
    BY <1>7 DEF ExchangeLost
  <2>2. \/ \E received \in ServerAnswers : received.port # Invalid /\ Served(received)
        \/ hostPort' = hostPort
    BY <1>7 DEF ExchangeLost
  <2> QED
    BY <2>1, <2>2, ServedType, NoMessageType DEF Exchanged
<1>8. CASE ErrorReceived
  <2>1. answer' = answer /\ hostPort' = hostPort
    BY <1>8 DEF ErrorReceived, negotiated
  <2>2. Limit \in Nat /\ NoNumber = Limit
    BY DEF Limit, NoNumber
  <2>3. ASSUME NEW message, message.number \in 0..NoNumber, MessageHandled(message)
        PROVE  waitTime' \in 0..(Limit - 1)
    <3>1. waitTime' = waitTime \/ (message.number # NoNumber /\ waitTime' = message.number)
      BY <2>3 DEF MessageHandled
    <3> QED
      BY <2>2, <2>3, <3>1 DEF Exchanged
  <2>4. CASE Own
    <3>1. PICK message \in OwnMessages :
            MessageHandled(Understood(Packet(message))) /\ sent' = message
      BY <1>8, <2>4 DEF ErrorReceived
    <3>2. MessageHandled(message) /\ message \in MessageValues
      BY <3>1, OwnMessageUnderstood, OwnMessageType DEF MessageValues
    <3> QED
      BY <2>1, <2>3, <3>1, <3>2 DEF Exchanged, MessageValues
  <2>5. CASE ~Own
    <3>1. PICK message \in ForeignMessages : MessageHandled(message) /\ sent' = NoMessage
      BY <1>8, <2>5 DEF ErrorReceived
    <3> QED
      BY <2>1, <2>3, <3>1, ForeignMessageType, NoMessageType DEF Exchanged
  <2> QED
    BY <2>4, <2>5
<1> QED
  BY <1>4, <1>5, <1>6, <1>7, <1>8 DEF ExchangeNext, AttemptEnds

RefusedType == refused \in BOOLEAN

LEMMA RefusedStep == RefusedType /\ [ExchangeNext]_exchangeVars => RefusedType'
BY DEF RefusedType, ExchangeNext, exchangeVars, Internal, negotiated, AttemptEnds,
       AnswerAccepted, AnswerRefused, ExchangeLost, ErrorReceived

(* Whatever a foreign server answers and sends, the options, the port and  *)
(* the time to wait are values of their types.                             *)
THEOREM ExchangeTypes == ExchangeSpec => []ExchangeTypeOK
<1>1. ExchangeInit => RefusedType
  BY DEF ExchangeInit, RefusedType
<1>2. TypeOK /\ Exchanged /\ RefusedType => ExchangeTypeOK
  BY DEF Exchanged, RefusedType, ExchangeTypeOK, MessageValues
<1> QED
  BY <1>1, <1>2, ExchangeIsClient, ClientTypes, ExchangedInit, ExchangedStep, RefusedStep,
     PTL DEF ExchangeSpec, FairSpec

(***************************************************************************)
(* What both ends know.  A transfer that has completed does nothing more,  *)
(* so what its last attempt left behind stays.                             *)
(***************************************************************************)

LEMMA AttemptUnderWay ==
  ASSUME Path, AttemptCompleted
  PROVE  completion = "none" /\ waitTimer = "idle"
BY DEF Path, OnePathPending, AttemptCompleted

LEMMA AttemptEndsCompletes ==
  ASSUME AttemptEnds
  PROVE  AttemptCompleted
BY MessageEndsAttempt
   DEF AttemptEnds, AnswerAccepted, AnswerRefused, ExchangeLost, ErrorReceived,
       TransferSucceeded, TransferFailed, TransferAborted

LEMMA InternalCompletion ==
  ASSUME Internal
  PROVE  completion' # completion => completion' = "OperationAbortedByDlp"
BY DEF Internal, OwnerCalls, Request, Abort, WaitTimerExpires, HandleWaitTimeout, WaitOver,
       Complete

LEMMA CompletedStays ==
  ASSUME Path, Internal, completion # "none"
  PROVE  completion' = completion /\ waitTimer' = "idle"
BY DEF Path, OnePathPending, Internal, OwnerCalls, Request, Abort, WaitTimerExpires,
       HandleWaitTimeout

(* What a step makes of the outcome: only an accepted answer succeeds.     *)
LEMMA SuccessIsAcceptance ==
  ASSUME Path, Exchanged, [ExchangeNext]_exchangeVars,
         completion' = "Successful", completion # "Successful"
  PROVE  AnswerAccepted
<1>1. CASE Internal
  BY <1>1, InternalCompletion
<1>2. CASE AnswerRefused
  BY <1>2 DEF AnswerRefused, TransferFailed, Retry, Complete
<1>3. CASE ExchangeLost
  BY <1>3 DEF ExchangeLost, TransferFailed, TransferAborted, Retry, Complete
<1>4. CASE ErrorReceived
  <2>1. PICK message : MessageHandled(message)
    BY <1>4 DEF ErrorReceived
  <2>2. AbortReceived \/ WaitReceived \/ TransferFailed
    BY <2>1, MessageEndsAttempt
  <2> QED
    BY <2>2 DEF AbortReceived, AbortCodes, WaitReceived, TransferFailed, Retry, Complete
<1>5. CASE UNCHANGED exchangeVars
  BY <1>5 DEF exchangeVars, vars
<1> QED
  BY <1>1, <1>2, <1>3, <1>4, <1>5 DEF ExchangeNext, AttemptEnds

Agreed ==
  /\ kind = "Initialisation" => hostPort = PortOf(offer)
  /\ Own \/ kind = "ConfigurationList" => answer = offer

(* The answer a client accepts is its offer where that matters.            *)
LEMMA AcceptedAgrees ==
  ASSUME Exchanged, AnswerAccepted
  PROVE  Agreed'
<1>1. PICK received \in ServerAnswers :
        Accepts(kind, offer, received) /\ answer' = received /\ Served(received)
  BY DEF AnswerAccepted
<1>2. kind' = kind /\ offer' = offer /\ peer' = peer
  BY DEF AnswerAccepted, transfer
<1>3. kind = "Initialisation" => hostPort' = PortOf(offer)
  BY <1>1 DEF Accepts, AcceptsPort, Served, PortOf
<1>4. ASSUME Own
      PROVE  received = offer
  <2>1. received = OwnAnswer(kind, peer, offer)
    BY <1>4, OwnServerAnswers DEF ServerAnswers, Exchanged
  <2>2. CASE kind = "Initialisation" /\ peer # "A4"
    <3>1. received = NoOptions /\ offer.port = None
      BY <1>1, <2>1, <2>2 DEF OwnAnswer, Accepts, AcceptsPort, NoOptions
    <3>2. offer \in Options /\ offer.partNumber = None /\ offer.checksum = None
      BY <2>2, OffersType DEF Exchanged
    <3> QED
      BY <3>1, <3>2, OptionsEqual DEF NoOptions
  <2>3. CASE ~(kind = "Initialisation" /\ peer # "A4")
    BY <2>1, <2>3 DEF OwnAnswer
  <2> QED
    BY <2>2, <2>3
<1>5. ASSUME kind = "ConfigurationList"
      PROVE  received = offer
  <2>1. AcceptsChecksum(offer, received) /\ received.port # Invalid
    BY <1>1, <1>5 DEF Accepts
  <2>2. received \in Options
    BY <2>1, ServerAnswersType
  <2>3. offer \in Options /\ offer.port = None /\ offer.partNumber = None
    BY <1>5, OffersType DEF Exchanged
  <2>4. /\ received.port = offer.port
        /\ received.partNumber = offer.partNumber
        /\ received.checksum = offer.checksum
    BY <2>1, <2>3 DEF AcceptsChecksum
  <2> QED
    BY <2>2, <2>3, <2>4, OptionsEqual DEF Options
<1>6. (Own)' = Own
  BY <1>2 DEF Own
<1>7. PortOf(offer)' = PortOf(offer)
  BY <1>2
<1> QED
  BY <1>1, <1>2, <1>3, <1>4, <1>5, <1>6, <1>7 DEF Agreed

TooOld == peer = "A2" /\ kind = "Initialisation" /\ offer.port # None

(* Between ends of this repository the only answer that is refused is one  *)
(* without the port that was offered.                                      *)
LEMMA RefusedIsTooOld ==
  ASSUME Exchanged, AnswerRefused, Own
  PROVE  TooOld
<1>1. PICK received \in ServerAnswers : ~Accepts(kind, offer, received)
  BY DEF AnswerRefused
<1>2. received = OwnAnswer(kind, peer, offer)
  BY <1>1, OwnServerAnswers DEF ServerAnswers, Exchanged
<1>3. received # offer
  BY <1>1, OwnOfferAccepted DEF Exchanged
<1>4. kind = "Initialisation" /\ peer = "A2" /\ received = NoOptions
  BY <1>2, <1>3 DEF OwnAnswer, Exchanged, Own
<1>5. offer.port # None
  BY <1>3, <1>4, OffersType, OptionsEqual DEF Exchanged, NoOptions
<1> QED
  BY <1>4, <1>5 DEF TooOld

LEMMA NegotiationInit == ExchangeInit => NegotiationAgrees
BY DEF ExchangeInit, Init, NegotiationAgrees

LEMMA NegotiationStep ==
  Path /\ Exchanged /\ NegotiationAgrees /\ [ExchangeNext]_exchangeVars => NegotiationAgrees'
<1> SUFFICES ASSUME Path, Exchanged, NegotiationAgrees, [ExchangeNext]_exchangeVars
             PROVE  NegotiationAgrees'
  OBVIOUS
<1>1. UNCHANGED transfer
  BY TransferKept
<1>2. (Own)' = Own /\ (TooOld)' = TooOld
  BY <1>1 DEF transfer, Own, TooOld
<1>3. ASSUME completion' = "Successful"
      PROVE  Agreed'
  <2>1. CASE completion = "Successful"
    <3>1. ~AttemptEnds
      BY <2>1, AttemptUnderWay, AttemptEndsCompletes
    <3>2. UNCHANGED <<transfer, negotiated>>
      BY <3>1 DEF ExchangeNext, Internal, exchangeVars
    <3>3. Agreed
      BY <2>1 DEF NegotiationAgrees, Agreed
    <3>4. kind' = kind /\ offer' = offer /\ peer' = peer /\ answer' = answer /\ hostPort' = hostPort
      BY <3>2 DEF transfer, negotiated
    <3> QED
      BY <1>2, <3>3, <3>4 DEF Agreed
  <2>2. CASE completion # "Successful"
    BY <1>3, <2>2, SuccessIsAcceptance, AcceptedAgrees
  <2> QED
    BY <2>1, <2>2
<1>4. ASSUME refused', Own
      PROVE  TooOld
  <2>1. CASE refused
    BY <1>4, <2>1 DEF NegotiationAgrees, TooOld
  <2>2. CASE ~refused
    <3>1. AnswerRefused
      BY <1>4, <2>2
         DEF ExchangeNext, exchangeVars, Internal, negotiated, AttemptEnds,
             AnswerAccepted, ExchangeLost, ErrorReceived
    <3> QED
      BY <1>4, <3>1, RefusedIsTooOld
  <2> QED
    BY <2>1, <2>2
<1> QED
  BY <1>2, <1>3, <1>4 DEF NegotiationAgrees, Agreed, TooOld

(* What both ends know of a transfer agrees, with whatever options and     *)
(* whatever foreign server.                                                *)
THEOREM ExchangeNegotiationAgrees == ExchangeSpec => []NegotiationAgrees
<1>1. Inv => Path
  BY DEF Inv
<1> QED
  BY <1>1, ExchangeIsClient, InvInit, InvStep, ExchangedInit, ExchangedStep,
     NegotiationInit, NegotiationStep, PTL DEF ExchangeSpec, FairSpec, Spec

(***************************************************************************)
(* What a message means.                                                   *)
(***************************************************************************)

LEMMA MessageInit == ExchangeInit => MessageUnderstood
BY DEF ExchangeInit, Init, MessageUnderstood, NoMessage

(* A message of this repository's server either ends the transfer with its *)
(* reason or sets the timer to its time.                                   *)
LEMMA OwnMessageHandled ==
  ASSUME Path, Exchanged, NEW message \in OwnMessages,
         MessageHandled(Understood(Packet(message)))
  PROVE  /\ message.prefix = "Abort" => completion' = AbortReasons[message.number]
         /\ waitTimer' = "armed" => message = [prefix |-> "Wait", number |-> waitTime']
<1>1. MessageHandled(message)
  BY OwnMessageUnderstood
<1>2. waitTimer = "idle"
  BY <1>1, MessageEndsAttempt, AttemptUnderWay
<1>3. CASE kind = "Status"
  <2>1. PICK code \in {AbortedByDlp, AbortedByOperator} :
          message = [prefix |-> "Abort", number |-> code]
    BY <1>3 DEF OwnMessages, DataFiles
  <2>2. code \in DOMAIN AbortReasons
    BY DEF AbortReasons
  <2>3. handleAbort
    BY <1>3 DEF Exchanged, HandlesAbort
  <2>4. AbortReceived /\ completion' = AbortReasons[message.number]
    BY <1>1, <2>1, <2>2, <2>3 DEF MessageHandled
  <2> QED
    BY <1>2, <2>4 DEF AbortReceived
<1>4. CASE kind \in DataFiles
  <2>1. PICK time \in WaitTimes : message = [prefix |-> "Wait", number |-> time]
    BY <1>4 DEF OwnMessages, DataFiles
  <2>2. waitTime' = time \/ (TransferFailed /\ waitTime' = waitTime)
    BY <1>1, <2>1 DEF MessageHandled
  <2>3. TransferFailed => waitTimer' = "idle"
    BY <1>2 DEF TransferFailed
  <2> QED
    BY <2>1, <2>2, <2>3
<1> QED
  BY <1>3, <1>4 DEF OwnMessages

LEMMA MessageStep ==
  Path /\ Exchanged /\ MessageUnderstood /\ [ExchangeNext]_exchangeVars => MessageUnderstood'
<1> SUFFICES ASSUME Path, Exchanged, MessageUnderstood, [ExchangeNext]_exchangeVars
             PROVE  MessageUnderstood'
  OBVIOUS
<1>1. UNCHANGED transfer
  BY TransferKept
<1>2. (Own)' = Own
  BY <1>1 DEF transfer, Own
<1>3. CASE Internal
  <2>1. sent' = sent /\ waitTime' = waitTime
    BY <1>3 DEF Internal, messages
  <2>2. CASE completion # "none"
    BY <1>3, <2>1, <2>2, CompletedStays DEF MessageUnderstood
  <2>3. CASE completion = "none"
    <3>1. /\ sent # [prefix |-> "Abort", number |-> AbortedByDlp]
          /\ sent # [prefix |-> "Abort", number |-> AbortedByOperator]
      BY <2>3 DEF MessageUnderstood
    <3>2. waitTimer' = "armed" => waitTimer = "armed"
      BY <1>3 DEF Internal, OwnerCalls, Request, Abort, WaitTimerExpires, HandleWaitTimeout,
                  WaitOver
    <3> QED
      BY <1>2, <2>1, <3>1, <3>2 DEF MessageUnderstood
  <2> QED
    BY <2>2, <2>3
<1>4. CASE AnswerAccepted \/ AnswerRefused \/ ExchangeLost
  <2>1. sent' = NoMessage
    BY <1>4 DEF AnswerAccepted, AnswerRefused, ExchangeLost
  <2>2. waitTimer = "idle"
    BY <1>4, AttemptEndsCompletes, AttemptUnderWay DEF AttemptEnds
  <2>3. waitTimer' = waitTimer
    BY <1>4
       DEF AnswerAccepted, AnswerRefused, ExchangeLost, TransferSucceeded, TransferFailed,
           TransferAborted
  <2> QED
    BY <2>1, <2>2, <2>3 DEF MessageUnderstood, NoMessage
<1>5. CASE ErrorReceived
  <2>1. CASE Own
    <3>1. PICK message \in OwnMessages :
            MessageHandled(Understood(Packet(message))) /\ sent' = message
      BY <1>5, <2>1 DEF ErrorReceived
    <3>2. /\ message.prefix = "Abort" => completion' = AbortReasons[message.number]
          /\ waitTimer' = "armed" => message = [prefix |-> "Wait", number |-> waitTime']
      BY <3>1, OwnMessageHandled
    <3>3. /\ AbortReasons[AbortedByDlp] = "OperationAbortedByDlp"
          /\ AbortReasons[AbortedByOperator] = "OperationAbortedByOperator"
      BY DEF AbortReasons, AbortedByDlp, AbortedByOperator
    <3> QED
      BY <3>1, <3>2, <3>3 DEF MessageUnderstood
  <2>2. CASE ~Own
    <3>1. sent' = NoMessage
      BY <1>5, <2>2 DEF ErrorReceived
    <3> QED
      BY <1>2, <2>2, <3>1 DEF MessageUnderstood, NoMessage
  <2> QED
    BY <2>1, <2>2
<1>6. CASE UNCHANGED exchangeVars
  BY <1>2, <1>6 DEF exchangeVars, vars, messages, MessageUnderstood
<1> QED
  BY <1>3, <1>4, <1>5, <1>6 DEF ExchangeNext, AttemptEnds

(* A message means to the client what it meant to the server, for every    *)
(* time to wait: its digits are read as the number they were written for.  *)
THEOREM ExchangeMessageUnderstood == ExchangeSpec => []MessageUnderstood
<1>1. Inv => Path
  BY DEF Inv
<1> QED
  BY <1>1, ExchangeIsClient, InvInit, InvStep, ExchangedInit, ExchangedStep,
     MessageInit, MessageStep, PTL DEF ExchangeSpec, FairSpec, Spec

(***************************************************************************)
(* Protocol files.                                                         *)
(***************************************************************************)

(* A set that has zero, and each number up to n if the one before.         *)
LEMMA AllNumbersUpto ==
  ASSUME NEW n \in Nat, NEW S, 0 \in S, \A i \in 1..n : i - 1 \in S => i \in S
  PROVE  0..n \subseteq S
<1> DEFINE T == S \cup {i \in Nat : i > n}
<1>1. 0 \in T
  OBVIOUS
<1>2. ASSUME NEW i \in Nat, i \in T
      PROVE  i + 1 \in T
  <2>1. CASE i + 1 <= n
    <3>1. i + 1 \in 1..n /\ i \in S /\ (i + 1) - 1 = i
      BY <1>2, <2>1
    <3> QED
      BY <3>1
  <2>2. CASE ~(i + 1 <= n)
    BY <2>2
  <2> QED
    BY <2>1, <2>2
<1> HIDE DEF T
<1>3. Nat \subseteq T
  BY <1>1, <1>2, AllNumbers
<1> QED
  BY <1>3 DEF T

(* Bytes after bytes are bytes, in whatever order they are put together.   *)
LEMMA ConcatBytes ==
  ASSUME NEW s \in Seq(Byte), NEW t \in Seq(Byte), NEW u \in Seq(Byte)
  PROVE  /\ (s \o t) \o u = s \o (t \o u)
         /\ s \o t \in Seq(Byte)
         /\ Len(s \o t) = Len(s) + Len(t)
<1> HIDE DEF Byte
<1>1. (s \o t) \o u = s \o (t \o u)
  BY ConcatAssociative
<1>2. s \o t \in Seq(Byte) /\ Len(s \o t) = Len(s) + Len(t)
  BY ConcatProperties
<1> QED
  BY <1>1, <1>2

(* Sequences of bytes joined, the first k of them.                         *)
Joins(joined, seqs, n) ==
  /\ joined \in [0..n -> Seq(Byte)]
  /\ joined[0] = <<>>
  /\ \A k \in 1..n : joined[k] = joined[k - 1] \o seqs[k]

(* Any sequences of bytes can be joined one by one.                        *)
LEMMA JoinsExists ==
  ASSUME NEW n \in Nat, NEW seqs \in [1..n -> Seq(Byte)]
  PROVE  \E joined : Joins(joined, seqs, n)
<1> DEFINE S == {k \in 0..n : \E joined : Joins(joined, seqs, k)}
<1>1. 0 \in S
  <2>1. <<>> \in Seq(Byte)
    OBVIOUS
  <2>2. Joins([i \in 0..0 |-> <<>>], seqs, 0)
    BY <2>1 DEF Joins
  <2> QED
    BY <2>2
<1>2. ASSUME NEW k \in 1..n, k - 1 \in S
      PROVE  k \in S
  <2>1. PICK joined : Joins(joined, seqs, k - 1)
    BY <1>2
  <2> DEFINE longer == [i \in 0..k |-> IF i = k THEN joined[k - 1] \o seqs[k] ELSE joined[i]]
  <2>2. joined[k - 1] \in Seq(Byte) /\ seqs[k] \in Seq(Byte)
    BY <2>1 DEF Joins
  <2>3. joined[k - 1] \o seqs[k] \in Seq(Byte)
    BY <2>2
  <2>4. \A i \in 0..(k - 1) : longer[i] = joined[i] /\ joined[i] \in Seq(Byte)
    BY <2>1 DEF Joins
  <2>5. longer[k] = joined[k - 1] \o seqs[k] /\ DOMAIN longer = 0..k /\ longer = [i \in 0..k |-> longer[i]]
    OBVIOUS
  <2> HIDE DEF longer
  <2>6. ASSUME NEW i \in 0..k
        PROVE  longer[i] \in Seq(Byte)
    <3>1. CASE i = k
      BY <2>3, <2>5, <3>1
    <3>2. CASE i # k
      <4>1. i \in 0..(k - 1)
        BY <3>2
      <4> QED
        BY <2>4, <4>1
    <3> QED
      BY <3>1, <3>2
  <2>7. longer[0] = <<>>
    BY <2>1, <2>4 DEF Joins
  <2>8. ASSUME NEW i \in 1..k
        PROVE  longer[i] = longer[i - 1] \o seqs[i]
    <3>1. CASE i = k
      <4>1. i - 1 = k - 1 /\ k - 1 \in 0..(k - 1)
        BY <3>1
      <4>2. longer[k - 1] = joined[k - 1]
        BY <2>4, <4>1
      <4> QED
        BY <2>5, <3>1, <4>1, <4>2
    <3>2. CASE i # k
      <4>1. i \in 1..(k - 1) /\ i - 1 \in 0..(k - 1) /\ i \in 0..(k - 1)
        BY <3>2
      <4>2. joined[i] = joined[i - 1] \o seqs[i]
        BY <2>1, <4>1 DEF Joins
      <4> QED
        BY <2>4, <4>1, <4>2
    <3> QED
      BY <3>1, <3>2
  <2>9. longer \in [0..k -> Seq(Byte)]
    BY <2>5, <2>6
  <2>10. Joins(longer, seqs, k)
    BY <2>7, <2>8, <2>9 DEF Joins
  <2> QED
    BY <2>10
<1> HIDE DEF S
<1>3. 0..n \subseteq S
  BY <1>1, <1>2, AllNumbersUpto
<1> QED
  BY <1>3 DEF S

(* Joined one by one to the last they are what FlattenSeq gives.           *)
LEMMA FlattenSeqJoins ==
  ASSUME NEW n \in Nat, NEW seqs \in [1..n -> Seq(Byte)], NEW joined, Joins(joined, seqs, n)
  PROVE  FlattenSeq(seqs) = joined[n]
<1> DEFINE Is(flatten) ==
             flatten = [i \in 1..Len(seqs) |-> IF i = 1 THEN seqs[i] ELSE flatten[i - 1] \o seqs[i]]
           flatten == CHOOSE f : Is(f)
           part == [i \in 1..n |-> joined[i]]
<1>1. Len(seqs) = n /\ seqs \in Seq(Seq(Byte))
  OBVIOUS
<1>2. joined[0] = <<>> /\ \A k \in 1..n : joined[k] = joined[k - 1] \o seqs[k]
  BY DEF Joins
<1>3. \A k \in 1..n : seqs[k] \in Seq(Byte)
  OBVIOUS
<1>4. \A i \in 1..n : part[i] = joined[i]
  OBVIOUS
<1>5. DOMAIN part = 1..n /\ part = [i \in 1..n |-> part[i]]
  OBVIOUS
<1> HIDE DEF part
<1>8. \A i \in 1..n : part[i] = IF i = 1 THEN seqs[i] ELSE part[i - 1] \o seqs[i]
  <2> SUFFICES ASSUME NEW i \in 1..n
               PROVE  part[i] = IF i = 1 THEN seqs[i] ELSE part[i - 1] \o seqs[i]
    OBVIOUS
  <2>1. CASE i = 1
    <3>1. joined[i] = joined[i - 1] \o seqs[i] /\ part[i] = joined[i]
      BY <1>2, <1>4
    <3>4. joined[i - 1] = <<>>
      BY <1>2, <2>1
    <3>2. <<>> \o seqs[i] = seqs[i]
      BY <1>3, ConcatEmptySeq
    <3> QED
      BY <2>1, <3>1, <3>2, <3>4
  <2>2. CASE i # 1
    <3>1. i - 1 \in 1..n
      BY <2>2
    <3> QED
      BY <1>2, <1>4, <2>2, <3>1
  <2> QED
    BY <2>1, <2>2
<1>9. Is(part)
  BY <1>1, <1>5, <1>8
<1>6. CASE n = 0
  <2>1. seqs = <<>>
    BY <1>6
  <2> QED
    BY <1>1, <1>2, <1>6, <2>1 DEF FlattenSeq
<1>7. CASE n # 0
  <2>1. Is(flatten)
    <3> HIDE DEF Is
    <3> QED
      BY <1>9
  <2>2. FlattenSeq(seqs) = flatten[n]
    BY <1>1, <1>7 DEF FlattenSeq
  <2> HIDE DEF flatten
  <2>3. \A i \in 1..n : flatten[i] = IF i = 1 THEN seqs[i] ELSE flatten[i - 1] \o seqs[i]
    BY <1>1, <2>1
  <2> HIDE DEF Is
  <2> DEFINE S == {k \in 0..n : k = 0 \/ flatten[k] = part[k]}
  <2>4. 0 \in S
    OBVIOUS
  <2>5. ASSUME NEW k \in 1..n, k - 1 \in S
        PROVE  k \in S
    <3>1. k = 1 => flatten[k] = part[k]
      BY <1>8, <2>3
    <3>2. k # 1 => flatten[k - 1] = part[k - 1]
      BY <2>5
    <3> QED
      BY <1>8, <2>3, <3>1, <3>2
  <2> HIDE DEF S
  <2>6. 0..n \subseteq S
    BY <2>4, <2>5, AllNumbersUpto
  <2>7. flatten[n] = part[n]
    BY <1>7, <2>6 DEF S
  <2> QED
    BY <1>4, <1>7, <2>2, <2>7
<1> QED
  BY <1>6, <1>7

(* The readings one after the other, as the recursive function says.       *)
IsReadings(readings, readers, raw) ==
  readings = [i \in 0..Len(readers) |->
                IF i = 0 THEN Reading(<<>>, raw) ELSE ReadNext(readings[i - 1], readers[i])]

(* There is such a function: Readings is one.                              *)
LEMMA ReadingsExist ==
  ASSUME NEW readers, Len(readers) \in Nat, NEW raw
  PROVE  IsReadings(Readings(readers, raw), readers, raw)
<1> DEFINE Upto(readings, n) ==
             readings = [i \in 0..n |->
               IF i = 0 THEN Reading(<<>>, raw) ELSE ReadNext(readings[i - 1], readers[i])]
           S == {n \in 0..Len(readers) : \E readings : Upto(readings, n)}
<1>1. 0 \in S
  <2>1. Upto([i \in 0..0 |-> Reading(<<>>, raw)], 0) /\ 0 \in 0..Len(readers)
    OBVIOUS
  <2> HIDE DEF Upto
  <2> QED
    BY <2>1
<1>2. ASSUME NEW n \in 1..Len(readers), n - 1 \in S
      PROVE  n \in S
  <2>1. PICK readings : Upto(readings, n - 1)
    BY <1>2
  <2> DEFINE next == ReadNext(readings[n - 1], readers[n])
             longer == [i \in 0..n |-> IF i = n THEN next ELSE readings[i]]
  <2>2. \A i \in 0..(n - 1) :
          longer[i] = IF i = 0 THEN Reading(<<>>, raw) ELSE ReadNext(longer[i - 1], readers[i])
    <3> HIDE DEF next
    <3> TAKE i \in 0..(n - 1)
    <3>1. readings[i] = IF i = 0 THEN Reading(<<>>, raw) ELSE ReadNext(readings[i - 1], readers[i])
      BY <2>1
    <3>2. longer[i] = readings[i]
      OBVIOUS
    <3>3. i # 0 => longer[i - 1] = readings[i - 1]
      OBVIOUS
    <3> HIDE DEF longer
    <3> QED
      BY <3>1, <3>2, <3>3
  <2>3. longer[n] = ReadNext(longer[n - 1], readers[n])
    <3>1. longer[n - 1] = readings[n - 1] /\ longer[n] = next
      OBVIOUS
    <3> QED
      BY <3>1, Zenon
  <2> HIDE DEF next
  <2>4. longer = [i \in 0..n |-> longer[i]]
    OBVIOUS
  <2> HIDE DEF longer
  <2>5. \A i \in 0..n : longer[i] =
          IF i = 0 THEN Reading(<<>>, raw) ELSE ReadNext(longer[i - 1], readers[i])
    <3> TAKE i \in 0..n
    <3>1. CASE i = n
      BY <2>3, <3>1
    <3>2. CASE i # n
      <4>1. i \in 0..(n - 1)
        BY <3>2
      <4> QED
        BY <2>2, <4>1
    <3> QED
      BY <3>1, <3>2
  <2>6. Upto(longer, n)
    BY <2>4, <2>5
  <2>7. n \in 0..Len(readers)
    OBVIOUS
  <2> HIDE DEF Upto
  <2> QED
    BY <2>6, <2>7
<1> HIDE DEF S
<1>3. 0..Len(readers) \subseteq S
  BY <1>1, <1>2, AllNumbersUpto
<1>4. \E readings : IsReadings(readings, readers, raw)
  BY <1>3 DEF S, IsReadings
<1>5. Readings(readers, raw) = CHOOSE readings : IsReadings(readings, readers, raw)
  BY Zenon DEF Readings, IsReadings
<1> QED
  BY <1>4, <1>5, Zenon

(* A reader reads these bytes as this value, up to any such rest.          *)
Reads(reader, raw, value, rests) ==
  /\ raw \in Seq(Byte)
  /\ \A rest \in rests : reader[raw \o rest] = Reading(value, rest)

(* A reader that reads a value goes on from what was read before.          *)
LEMMA ReadNextReads ==
  ASSUME NEW reader, NEW raw, NEW value, NEW rests, Reads(reader, raw, value, rests),
         NEW rest \in rests, NEW before
  PROVE  ReadNext(Reading(before, raw \o rest), reader) = Reading(Append(before, value), rest)
<1> DEFINE reading == Reading(before, raw \o rest)
           next == reader[raw \o rest]
<1>1. next = Reading(value, rest)
  BY DEF Reads
<1>2. reading.ok /\ reading.value = before /\ reading.rest = raw \o rest
  BY DEF Reading
<1>3. next.ok /\ next.value = value /\ next.rest = rest
  BY <1>1 DEF Reading
<1>4. ReadNext(reading, reader) =
        IF reading.ok /\ reader[reading.rest].ok
        THEN Reading(Append(reading.value, reader[reading.rest].value), reader[reading.rest].rest)
        ELSE Refused
  BY Zenon DEF ReadNext
<1>5. reader[reading.rest] = next
  BY <1>2
<1> HIDE DEF reading, next
<1>6. ReadNext(reading, reader) = Reading(Append(before, value), rest)
  BY <1>2, <1>3, <1>4, <1>5, Zenon
<1> QED
  BY <1>6 DEF reading

ReadInTurn(readers, raw, values, rests) ==
  /\ raw \in Seq(Byte)
  /\ \A rest \in rests : InTurn(readers, raw \o rest) = Reading(values, rest)

(* What is read one after the other where the bytes are joined.            *)
OfLength(values, n) == values = [i \in 1..n |-> values[i]]

EachReads(n, readers, seqs, values, rests) ==
  /\ Len(readers) = n
  /\ seqs \in [1..n -> Seq(Byte)]
  /\ OfLength(values, n)
  /\ rests \in SUBSET Seq(Byte)
  /\ \A i \in 1..n : Reads(readers[i], seqs[i], values[i], IF i = n THEN rests ELSE Seq(Byte))

(* Readers in turn read the values of bytes that are joined.               *)
LEMMA InTurnReads ==
  ASSUME NEW n \in Nat, NEW readers, NEW seqs, NEW values, NEW rests,
         EachReads(n, readers, seqs, values, rests)
  PROVE  ReadInTurn(readers, FlattenSeq(seqs), values, rests)
<1> USE DEF EachReads
<1>1. PICK joined : Joins(joined, seqs, n)
  BY JoinsExists
<1>2. FlattenSeq(seqs) = joined[n]
  BY <1>1, FlattenSeqJoins
<1>3. /\ \A k \in 0..n : joined[k] \in Seq(Byte)
      /\ joined[0] = <<>>
      /\ \A k \in 1..n : joined[k] = joined[k - 1] \o seqs[k]
  BY <1>1 DEF Joins
<1> DEFINE Rests(k) == IF k = n THEN rests ELSE Seq(Byte)
           first(k) == [i \in 1..k |-> values[i]]
           Holds(k) == \A rest \in Rests(k) :
                         Readings(readers, joined[k] \o rest)[k] = Reading(first(k), rest)
           S == {k \in 0..n : Holds(k)}
<1>4. \A raw : /\ Readings(readers, raw)[0] = Reading(<<>>, raw)
               /\ \A i \in 1..n : Readings(readers, raw)[i] =
                                    ReadNext(Readings(readers, raw)[i - 1], readers[i])
  <2> TAKE raw
  <2> DEFINE readings == Readings(readers, raw)
  <2>1. IsReadings(readings, readers, raw)
    BY ReadingsExist
  <2> HIDE DEF readings
  <2>2. \A i \in 0..n : readings[i] =
          IF i = 0 THEN Reading(<<>>, raw) ELSE ReadNext(readings[i - 1], readers[i])
    BY <2>1 DEF IsReadings
  <2>3. readings[0] = Reading(<<>>, raw)
    BY <2>2
  <2>4. \A i \in 1..n : readings[i] = ReadNext(readings[i - 1], readers[i])
    BY <2>2
  <2> QED
    BY <2>3, <2>4 DEF readings
<1>5. 0 \in S
  <2> SUFFICES ASSUME NEW rest \in Rests(0)
               PROVE  Readings(readers, joined[0] \o rest)[0] = Reading(first(0), rest)
    OBVIOUS
  <2>1. rest \in Seq(Byte)
    OBVIOUS
  <2>2. joined[0] \o rest = rest
    BY <1>3, <2>1, ConcatEmptySeq
  <2>3. first(0) = <<>>
    OBVIOUS
  <2> QED
    BY <1>4, <2>2, <2>3
<1>6. ASSUME NEW k \in 1..n, k - 1 \in S
      PROVE  k \in S
  <2>9. k \in 0..n /\ k - 1 \in 0..n /\ Holds(k - 1)
    <3>1. k \in 0..n /\ k - 1 \in 0..n
      OBVIOUS
    <3> HIDE DEF Holds
    <3> QED
      BY <1>6, <3>1
  <2> HIDE DEF first
  <2> SUFFICES ASSUME NEW rest \in Rests(k)
               PROVE  Readings(readers, joined[k] \o rest)[k] = Reading(first(k), rest)
    BY <2>9
  <2>1. rest \in Seq(Byte) /\ seqs[k] \in Seq(Byte) /\ joined[k - 1] \in Seq(Byte)
    <3>1. rest \in Seq(Byte)
      OBVIOUS
    <3> QED
      BY <1>3, <2>9, <3>1
  <2>2. joined[k] \o rest = joined[k - 1] \o (seqs[k] \o rest)
    <3>1. joined[k] = joined[k - 1] \o seqs[k]
      BY <1>3
    <3>2. (joined[k - 1] \o seqs[k]) \o rest = joined[k - 1] \o (seqs[k] \o rest)
      BY <2>1, ConcatBytes
    <3> QED
      BY <3>1, <3>2
  <2>3. seqs[k] \o rest \in Rests(k - 1)
    BY <2>1, ConcatProperties
  <2>4. Readings(readers, joined[k] \o rest)[k - 1] = Reading(first(k - 1), seqs[k] \o rest)
    BY <2>2, <2>3, <2>9
  <2>5. Reads(readers[k], seqs[k], values[k], Rests(k))
    OBVIOUS
  <2>6. Readings(readers, joined[k] \o rest)[k] =
          ReadNext(Reading(first(k - 1), seqs[k] \o rest), readers[k])
    BY <1>4, <2>4
  <2>7. @ = Reading(Append(first(k - 1), values[k]), rest)
    <3> HIDE DEF first, Rests
    <3> QED
      BY <2>5, ReadNextReads
  <2>8. Append(first(k - 1), values[k]) = first(k)
    BY DEF first
  <2> QED
    BY <2>6, <2>7, <2>8, Zenon
<1> HIDE DEF S
<1>7. 0..n \subseteq S
  BY <1>5, <1>6, AllNumbersUpto
<1>8. Holds(n)
  BY <1>7 DEF S
<1>9. \A rest \in rests : Readings(readers, joined[n] \o rest)[n] = Reading(first(n), rest)
  BY <1>8
<1>10. first(n) = values
  BY DEF OfLength
<1> HIDE DEF first, Holds
<1> QED
  BY <1>2, <1>3, <1>9, <1>10 DEF InTurn, ReadInTurn

(* A reading of longer bytes, which leaves more of them.                   *)
Lengthens(reading, longer, more) ==
  reading.ok => /\ reading.rest \in Seq(Byte)
                /\ longer = Reading(reading.value, reading.rest \o more)

Extends(reader) ==
  \A raw, more \in Seq(Byte) : Lengthens(reader[raw], reader[raw \o more], more)

Whole(reading) == reading.ok /\ reading.rest = <<>>

(* Nothing that is read as a whole is the beginning of anything else that  *)
(* is.                                                                     *)
NoBeginning(reader) ==
  \A raw, more \in Seq(Byte) : Whole(reader[raw]) /\ Whole(reader[raw \o more]) => more = <<>>

(* With such a reader nothing that is read as a whole begins another.      *)
LEMMA ExtendsNoBeginning ==
  ASSUME NEW reader, Extends(reader)
  PROVE  NoBeginning(reader)
<1> SUFFICES ASSUME NEW raw \in Seq(Byte), NEW more \in Seq(Byte),
                    Whole(reader[raw]), Whole(reader[raw \o more])
             PROVE  more = <<>>
  BY DEF NoBeginning
<1>1. Lengthens(reader[raw], reader[raw \o more], more)
  BY DEF Extends
<1>2. reader[raw].ok /\ reader[raw].rest = <<>> /\ reader[raw \o more].rest = <<>>
  BY DEF Whole
<1>3. reader[raw \o more] = Reading(reader[raw].value, <<>> \o more)
  BY <1>1, <1>2 DEF Lengthens
<1>4. reader[raw \o more].rest = <<>> \o more
  BY <1>3 DEF Reading
<1> QED
  BY <1>2, <1>4

(* What ReadNext makes of a reading.                                       *)
LEMMA ReadNextIs ==
  ASSUME NEW reading, NEW reader, ReadNext(reading, reader).ok
  PROVE  /\ reading.ok
         /\ reader[reading.rest].ok
         /\ ReadNext(reading, reader).value = Append(reading.value, reader[reading.rest].value)
         /\ ReadNext(reading, reader).rest = reader[reading.rest].rest
<1> DEFINE next == reader[reading.rest]
<1>1. ReadNext(reading, reader) =
        IF reading.ok /\ next.ok THEN Reading(Append(reading.value, next.value), next.rest)
        ELSE Refused
  BY Zenon DEF ReadNext
<1> HIDE DEF next
<1>2. reading.ok /\ next.ok
  BY <1>1 DEF Refused
<1>3. ReadNext(reading, reader) = Reading(Append(reading.value, next.value), next.rest)
  BY <1>1, <1>2
<1>4. /\ ReadNext(reading, reader).value = Append(reading.value, next.value)
      /\ ReadNext(reading, reader).rest = next.rest
  BY <1>3 DEF Reading
<1> QED
  BY <1>2, <1>4 DEF next

(* What is read next when neither is refused.                              *)
LEMMA ReadNextOk ==
  ASSUME NEW reading, NEW reader, reading.ok, reader[reading.rest].ok
  PROVE  ReadNext(reading, reader) =
           Reading(Append(reading.value, reader[reading.rest].value), reader[reading.rest].rest)
BY Zenon DEF ReadNext

(* With more bytes at the end the next field is read the same.             *)
LEMMA ReadNextLengthens ==
  ASSUME NEW reading, NEW longer, NEW more \in Seq(Byte), Lengthens(reading, longer, more),
         NEW reader, Extends(reader)
  PROVE  Lengthens(ReadNext(reading, reader), ReadNext(longer, reader), more)
<1> DEFINE next == ReadNext(reading, reader)
           read == reader[reading.rest]
           readMore == reader[longer.rest]
<1> SUFFICES ASSUME next.ok
             PROVE  /\ next.rest \in Seq(Byte)
                    /\ ReadNext(longer, reader) = Reading(next.value, next.rest \o more)
  BY DEF Lengthens
<1>1. /\ reading.ok /\ read.ok
      /\ next.value = Append(reading.value, read.value)
      /\ next.rest = read.rest
  BY ReadNextIs
<1>2. reading.rest \in Seq(Byte) /\ longer = Reading(reading.value, reading.rest \o more)
  BY <1>1 DEF Lengthens
<1>3. longer.ok /\ longer.value = reading.value /\ longer.rest = reading.rest \o more
  BY <1>2 DEF Reading
<1>4. Lengthens(read, readMore, more)
  BY <1>2, <1>3 DEF Extends
<1>5. read.rest \in Seq(Byte) /\ readMore = Reading(read.value, read.rest \o more)
  BY <1>1, <1>4 DEF Lengthens
<1>6. readMore.ok /\ readMore.value = read.value /\ readMore.rest = read.rest \o more
  BY <1>5 DEF Reading
<1>7. ReadNext(longer, reader) = Reading(Append(longer.value, readMore.value), readMore.rest)
  BY <1>3, <1>6, ReadNextOk
<1> HIDE DEF next, read, readMore
<1> QED
  BY <1>1, <1>3, <1>5, <1>6, <1>7

(* A reading of each of the readers lengthens with the bytes.              *)
LEMMA ReadingsLengthen ==
  ASSUME NEW n \in Nat, NEW readers, Len(readers) \in Nat, n <= Len(readers),
         \A i \in 1..n : Extends(readers[i]),
         NEW raw \in Seq(Byte), NEW more \in Seq(Byte)
  PROVE  Lengthens(Readings(readers, raw)[n], Readings(readers, raw \o more)[n], more)
<1> DEFINE a == Readings(readers, raw)
           b == Readings(readers, raw \o more)
           S == {k \in 0..n : Lengthens(a[k], b[k], more)}
<1>1. IsReadings(a, readers, raw) /\ IsReadings(b, readers, raw \o more)
  BY ReadingsExist
<1> HIDE DEF a, b
<1>2. a[0] = Reading(<<>>, raw) /\ b[0] = Reading(<<>>, raw \o more)
  BY <1>1 DEF IsReadings
<1>3. ASSUME NEW k \in 1..n
      PROVE  a[k] = ReadNext(a[k - 1], readers[k]) /\ b[k] = ReadNext(b[k - 1], readers[k])
  <2>1. k \in 0..Len(readers) /\ k # 0
    OBVIOUS
  <2> QED
    BY <1>1, <2>1 DEF IsReadings
<1>4. 0 \in S
  <2>1. a[0].rest = raw /\ a[0].value = <<>>
    BY <1>2 DEF Reading
  <2>2. Lengthens(a[0], b[0], more)
    BY <1>2, <2>1 DEF Lengthens
  <2> QED
    BY <2>2
<1>5. ASSUME NEW k \in 1..n, k - 1 \in S
      PROVE  k \in S
  <2>1. Lengthens(a[k - 1], b[k - 1], more)
    BY <1>5
  <2>2. Extends(readers[k])
    OBVIOUS
  <2>3. Lengthens(a[k], b[k], more)
    BY <1>3, <2>1, <2>2, ReadNextLengthens
  <2> QED
    BY <2>3
<1> HIDE DEF S
<1>6. 0..n \subseteq S
  BY <1>4, <1>5, AllNumbersUpto
<1>7. Lengthens(a[n], b[n], more)
  BY <1>6 DEF S
<1> QED
  BY <1>7 DEF a, b

(* Fields read in turn are read the same from longer bytes.                *)
LEMMA InTurnExtends ==
  ASSUME NEW readers, Len(readers) \in Nat, \A i \in 1..Len(readers) : Extends(readers[i]),
         NEW raw \in Seq(Byte), NEW more \in Seq(Byte)
  PROVE  Lengthens(InTurn(readers, raw), InTurn(readers, raw \o more), more)
BY ReadingsLengthen DEF InTurn

(* A whole file is not the beginning of another one if its last field is   *)
(* not.                                                                    *)
LEMMA InTurnNoBeginning ==
  ASSUME NEW readers, Len(readers) \in Nat \ {0},
         \A i \in 1..(Len(readers) - 1) : Extends(readers[i]), NoBeginning(readers[Len(readers)]),
         NEW raw \in Seq(Byte), NEW more \in Seq(Byte),
         Whole(InTurn(readers, raw)), Whole(InTurn(readers, raw \o more))
  PROVE  more = <<>>
<1> DEFINE n == Len(readers)
           a == Readings(readers, raw)
           b == Readings(readers, raw \o more)
<1>1. IsReadings(a, readers, raw) /\ IsReadings(b, readers, raw \o more)
  BY ReadingsExist
<1>2. Lengthens(a[n - 1], b[n - 1], more)
  BY ReadingsLengthen
<1>3. Whole(a[n]) /\ Whole(b[n])
  BY DEF InTurn
<1> HIDE DEF a, b
<1>4. a[n] = ReadNext(a[n - 1], readers[n]) /\ b[n] = ReadNext(b[n - 1], readers[n])
  <2>1. n \in 0..Len(readers) /\ n # 0
    OBVIOUS
  <2> QED
    BY <1>1, <2>1 DEF IsReadings
<1> HIDE DEF n
<1> DEFINE read == readers[n][a[n - 1].rest]
           readMore == readers[n][b[n - 1].rest]
<1>5. a[n].ok /\ a[n].rest = <<>> /\ b[n].ok /\ b[n].rest = <<>>
  BY <1>3 DEF Whole
<1>6. a[n - 1].ok /\ Whole(read) /\ Whole(readMore)
  BY <1>4, <1>5, ReadNextIs DEF Whole
<1>7. a[n - 1].rest \in Seq(Byte) /\ b[n - 1] = Reading(a[n - 1].value, a[n - 1].rest \o more)
  BY <1>2, <1>6 DEF Lengthens
<1>8. b[n - 1].rest = a[n - 1].rest \o more
  BY <1>7 DEF Reading
<1> QED
  BY <1>6, <1>7, <1>8 DEF NoBeginning, n

-----------------------------------------------------------------------------
(* Fields.                                                                 *)

(* What joining two sequences of bytes gives, byte by byte.                *)
LEMMA ConcatTwo ==
  ASSUME NEW s \in Seq(Byte), NEW t \in Seq(Byte)
  PROVE  /\ s \o t \in Seq(Byte)
         /\ Len(s \o t) = Len(s) + Len(t)
         /\ Len(s) \in Nat /\ Len(t) \in Nat
         /\ \A i \in 1..(Len(s) + Len(t)) : (s \o t)[i] = IF i <= Len(s) THEN s[i] ELSE t[i - Len(s)]
<1> HIDE DEF Byte
<1> QED
  BY ConcatProperties

(* The beginning of joined bytes.                                          *)
LEMMA PrefixConcat ==
  ASSUME NEW s \in Seq(Byte), NEW t \in Seq(Byte)
  PROVE  SubSeq(s \o t, 1, Len(s)) = s
<1> DEFINE st == s \o t
           p == SubSeq(st, 1, Len(s))
<1> HIDE DEF Byte
<1>1. Len(s) \in Nat /\ \A i \in 1..Len(s) : st[i] = s[i] /\ s[i] \in Byte
  BY ConcatTwo
<1> HIDE DEF st
<1>2. p \in Seq(Byte) /\ Len(p) = Len(s) /\ \A i \in 1..Len(s) : p[i] = s[i]
  BY <1>1, SubSeqProperties
<1> HIDE DEF p
<1>3. p = s
  BY <1>2, SeqEqual
<1> QED
  BY <1>3 DEF p, st

(* What remains of joined bytes without the first ones.                    *)
LEMMA DropConcat ==
  ASSUME NEW s \in Seq(Byte), NEW t \in Seq(Byte)
  PROVE  Drop(s \o t, Len(s)) = t
<1> DEFINE st == s \o t
           d == Drop(st, Len(s))
<1>1. /\ st \in Seq(Byte) /\ Len(st) = Len(s) + Len(t)
      /\ \A i \in 1..Len(t) : st[Len(s) + i] = t[i]
  <2> HIDE DEF Byte
  <2>1. Len(s) \in Nat /\ Len(t) \in Nat
    OBVIOUS
  <2>2. \A i \in 1..(Len(s) + Len(t)) : st[i] = IF i <= Len(s) THEN s[i] ELSE t[i - Len(s)]
    BY ConcatProperties
  <2> QED
    BY <2>1, <2>2, ConcatProperties
<1> HIDE DEF st
<1>2. /\ d \in Seq(Byte) /\ Len(d) = Len(t)
      /\ \A i \in 1..Len(t) : d[i] = st[Len(s) + i]
  BY <1>1 DEF Drop
<1> HIDE DEF d, Byte
<1>3. d = t
  BY <1>1, <1>2, SeqEqual
<1> QED
  BY <1>3 DEF d, st

(* What remains of longer bytes is longer.                                 *)
LEMMA DropLonger ==
  ASSUME NEW raw \in Seq(Byte), NEW more \in Seq(Byte), NEW n \in 0..Len(raw)
  PROVE  /\ Drop(raw, n) \in Seq(Byte)
         /\ Drop(raw \o more, n) = Drop(raw, n) \o more
<1> DEFINE longer == raw \o more
           d == Drop(raw, n)
           e == Drop(longer, n)
           l == Len(raw)
           m == Len(more)
<1>0. l \in Nat /\ m \in Nat
  OBVIOUS
<1>1. /\ longer \in Seq(Byte) /\ Len(longer) = l + m
      /\ \A i \in 1..(l + m) : longer[i] = IF i <= l THEN raw[i] ELSE more[i - l]
  <2> HIDE DEF Byte
  <2> QED
    BY ConcatProperties
<1> HIDE DEF longer
<1>2. /\ d \in Seq(Byte) /\ Len(d) = l - n
      /\ \A i \in 1..(l - n) : d[i] = raw[n + i]
  BY DEF Drop
<1>3. /\ e \in Seq(Byte) /\ Len(e) = l + m - n
      /\ \A i \in 1..(l + m - n) : e[i] = longer[n + i]
  BY <1>0, <1>1 DEF Drop
<1> HIDE DEF d, e, Byte
<1> DEFINE c == d \o more
<1>4. /\ c \in Seq(Byte) /\ Len(c) = l - n + m
      /\ \A i \in 1..(l - n + m) : c[i] = IF i <= l - n THEN d[i] ELSE more[i - (l - n)]
  <2>1. /\ c \in Seq(Byte) /\ Len(c) = Len(d) + Len(more)
        /\ \A i \in 1..(Len(d) + Len(more)) : c[i] = IF i <= Len(d) THEN d[i] ELSE more[i - Len(d)]
    BY <1>2, ConcatProperties
  <2> HIDE DEF c
  <2> QED
    BY <1>2, <2>1
<1> HIDE DEF c
<1>5. ASSUME NEW i \in 1..(l + m - n)
      PROVE  e[i] = c[i]
  <2>1. n + i \in 1..(l + m) /\ i \in 1..(l - n + m) /\ n \in Nat
    BY <1>0
  <2>2. e[i] = IF n + i <= l THEN raw[n + i] ELSE more[(n + i) - l]
    BY <1>1, <1>3, <2>1
  <2>3. CASE i <= l - n
    BY <1>0, <1>2, <1>4, <2>1, <2>2, <2>3, SMTT(30)
  <2>4. CASE ~(i <= l - n)
    <3>1. (n + i) - l = i - (l - n)
      BY <1>0, <2>1
    <3> QED
      BY <1>0, <1>4, <2>1, <2>2, <2>4, <3>1
  <2> QED
    BY <2>3, <2>4
<1>6. Len(e) = Len(c)
  BY <1>0, <1>3, <1>4
<1>7. \A i \in 1..Len(e) : e[i] = c[i]
  BY <1>3, <1>5
<1>8. e = c
  BY <1>3, <1>4, <1>6, <1>7, SeqEqual
<1> QED
  BY <1>2, <1>8 DEF c, d, e, longer

(* Bytes, without their range written out.                                 *)
LEMMA Bytes ==
  ASSUME NEW n
  PROVE  n \in Byte <=> n \in Int /\ 0 <= n /\ n < 256
<1>1. n \in 0..255 <=> n \in Int /\ 0 <= n /\ n < 256
  OBVIOUS
<1> QED
  BY <1>1 DEF Byte

(* The number of words, likewise.                                          *)
LEMMA Words == Word \in Nat /\ HalfWord \in Nat /\ HalfWord < Word
BY DEF Word, HalfWord

(* Numbers of 16 bits, with a sign and without.                            *)
LEMMA Numbers16 ==
  ASSUME NEW n
  PROVE  /\ n \in 0..(Word - 1) <=> n \in Int /\ 0 <= n /\ n < Word
         /\ n \in -HalfWord..(HalfWord - 1) <=> n \in Int /\ -HalfWord <= n /\ n < HalfWord
         /\ n \in 0..(Word - 1) => -HalfWord <= n
         /\ n \in -HalfWord..(HalfWord - 1) => n < Word
BY Words

(* A number of 16 bits is the same modulo 2^16, up to its sign.            *)
LEMMA Modulo ==
  ASSUME NEW n \in Int, -HalfWord <= n, n < Word
  PROVE  /\ 0 <= n => n % Word = n
         /\ n < HalfWord =>
              (IF (n % Word) \div 256 < 128 THEN n % Word ELSE (n % Word) - Word) = n
BY SMT DEF Word, HalfWord

(* Its two bytes, and the number that they make.                           *)
LEMMA Int16Bytes ==
  ASSUME NEW n \in Int, -HalfWord <= n, n < Word
  PROVE  /\ (n % Word) \div 256 \in Byte
         /\ n % 256 \in Byte
         /\ 256 * ((n % Word) \div 256) + (n % 256) = n % Word
<1>1. /\ (n % Word) \div 256 \in Int
      /\ 0 <= (n % Word) \div 256
      /\ (n % Word) \div 256 < 256
  BY SMT DEF Word
<1>2. n % 256 \in Int /\ 0 <= n % 256 /\ n % 256 < 256
  BY SMT
<1>3. 256 * ((n % Word) \div 256) + (n % 256) = n % Word
  BY SMT DEF Word
<1> QED
  BY <1>1, <1>2, <1>3, Bytes

(* Int16 writes two bytes that Unsigned reads as the number.               *)
LEMMA Int16Reads ==
  ASSUME NEW n \in Int, -HalfWord <= n, n < Word, NEW rest \in Seq(Byte)
  PROVE  /\ Int16(n) \in Seq(Byte) /\ Len(Int16(n)) = 2
         /\ Int16(n) \o rest \in Seq(Byte)
         /\ Len(Int16(n) \o rest) >= 2
         /\ (Int16(n) \o rest)[1] = (n % Word) \div 256
         /\ Unsigned(Int16(n) \o rest) = n % Word
         /\ Drop(Int16(n) \o rest, 2) = rest
<1> DEFINE hi == (n % Word) \div 256
           lo == n % 256
           number == n % Word
           raw == <<hi, lo>> \o rest
<1>1. hi \in Byte /\ lo \in Byte /\ 256 * hi + lo = number
  BY Int16Bytes
<1>3. Int16(n) = <<hi, lo>>
  BY DEF Int16
<1> HIDE DEF hi, lo, Byte, number
<1>4. Int16(n) \in Seq(Byte) /\ Len(Int16(n)) = 2
  BY <1>1, <1>3
<1>2. raw \in Seq(Byte) /\ Len(raw) >= 2 /\ raw[1] = hi /\ raw[2] = lo
  BY <1>1
<1>5. Drop(Int16(n) \o rest, 2) = rest
  BY <1>4, DropConcat
<1>6. Unsigned(raw) = number
  BY <1>1, <1>2 DEF Unsigned
<1> HIDE DEF raw
<1>7. raw = Int16(n) \o rest
  BY <1>3 DEF raw
<1> QED
  BY <1>2, <1>4, <1>5, <1>6, <1>7 DEF hi, number

(* A field is read back if its reader reads it back.                       *)
LEMMA ReadsField ==
  ASSUME NEW field, NEW listed, NEW raw \in Seq(Byte), NEW value, NEW rests \in SUBSET Seq(Byte),
         \A rest \in rests : FieldReader(field, listed)[raw \o rest] = Reading(value, rest)
  PROVE  Reads(FieldReader(field, listed), raw, value, rests)
BY DEF Reads

(* A number is read back.                                                  *)
LEMMA NumberReads ==
  ASSUME NEW field, field.is = "number", NEW listed, NEW writer, NEW records,
         NEW value \in field.values, value \in 0..(Word - 1)
  PROVE  Reads(FieldReader(field, listed), FieldBytes(field, value, writer, records), value, Seq(Byte))
<1> DEFINE raw == FieldBytes(field, value, writer, records)
<1>1. raw = Int16(value)
  BY DEF FieldBytes
<1> HIDE DEF raw, Byte
<1>2. value \in Int /\ -HalfWord <= value /\ 0 <= value /\ value < Word
  BY Numbers16
<1>3. value % Word = value
  BY <1>2, Modulo
<1>4. raw \in Seq(Byte)
  BY <1>1, <1>2, Int16Reads, EmptySeq
<1> SUFFICES ASSUME NEW rest \in Seq(Byte)
             PROVE  FieldReader(field, listed)[raw \o rest] = Reading(value, rest)
  BY <1>4, ReadsField DEF raw
<1> DEFINE all == raw \o rest
<1>5. /\ Unsigned(all) = value /\ Len(all) >= 2 /\ Drop(all, 2) = rest
      /\ all \in Seq(Byte)
  BY <1>1, <1>2, <1>3, Int16Reads
<1> HIDE DEF all
<1>6. FieldReader(field, listed)[all] = NumberDecode(all, field.values)
  BY <1>5 DEF FieldReader
<1> QED
  BY <1>5, <1>6 DEF NumberDecode, all

(* A signed number is read back.                                           *)
LEMMA SignedReads ==
  ASSUME NEW field, field.is = "signed", NEW listed, NEW writer, NEW records,
         NEW value \in -HalfWord..(HalfWord - 1)
  PROVE  Reads(FieldReader(field, listed), FieldBytes(field, value, writer, records), value, Seq(Byte))
<1> DEFINE raw == FieldBytes(field, value, writer, records)
<1>1. raw = Int16(value)
  BY DEF FieldBytes
<1> HIDE DEF raw, Byte
<1>2. value \in Int /\ -HalfWord <= value /\ value < HalfWord /\ value < Word
  BY Numbers16
<1>4. raw \in Seq(Byte)
  BY <1>1, <1>2, Int16Reads, EmptySeq
<1> SUFFICES ASSUME NEW rest \in Seq(Byte)
             PROVE  FieldReader(field, listed)[raw \o rest] = Reading(value, rest)
  BY <1>4, ReadsField DEF raw
<1> DEFINE all == raw \o rest
           u == value % Word
<1>5. /\ Unsigned(all) = u /\ Len(all) >= 2 /\ Drop(all, 2) = rest
      /\ all \in Seq(Byte) /\ all[1] = u \div 256
  BY <1>1, <1>2, Int16Reads
<1> HIDE DEF all
<1>6. FieldReader(field, listed)[all] = SignedDecode(all)
  BY <1>5 DEF FieldReader
<1>7. Len(all) \in Nat
  BY <1>5
<1>8. (IF u \div 256 < 128 THEN u ELSE u - Word) = value
  BY <1>2, Modulo
<1> HIDE DEF u
<1>9. SignedDecode(all) = Reading(IF u \div 256 < 128 THEN u ELSE u - Word, rest)
  BY <1>5, <1>7 DEF SignedDecode
<1> QED
  BY <1>6, <1>8, <1>9 DEF all

(* Min gives the least number of a set.                                    *)
LEMMA MinIsLeast ==
  ASSUME NEW S \in SUBSET Nat, S # {}
  PROVE  Min(S) \in S /\ \A y \in S : Min(S) <= y
<1> DEFINE Least(x) == x \in S /\ \A y \in S : x <= y
<1>1. IsWellFoundedOn(Less, Nat)
  <2>1. OpToRel(<, Nat) = Less
    BY Zenon DEF OpToRel, Less
  <2> QED
    BY <2>1, NatLessThanWellFounded
<1>2. PICK x \in S : \A y \in S : <<y, x>> \notin Less
  BY <1>1, WFMin
<1>3. ASSUME NEW y \in S
      PROVE  x <= y
  <2>1. <<y, x>> \notin Less
    BY <1>2
  <2>2. y < x => <<y, x>> \in Less
    BY DEF Less
  <2> QED
    BY <2>1, <2>2
<1> QED
  BY <1>3 DEF Min

(* The least number is what Min gives.                                     *)
LEMMA MinIs ==
  ASSUME NEW S \in SUBSET Nat, NEW n \in S, \A i \in S : n <= i
  PROVE  Min(S) = n
<1> DEFINE m == Min(S)
<1>1. m \in S /\ m <= n
  BY MinIsLeast
<1> HIDE DEF m
<1>2. n <= m /\ n \in Nat /\ m \in Nat
  BY <1>1
<1>3. m = n
  BY <1>1, <1>2
<1> QED
  BY <1>3 DEF m

(* FirstZero is the position of the first zero.                            *)
LEMMA FirstZeroIs ==
  ASSUME NEW text \in Seq(Byte), NEW n \in 1..Len(text), text[n] = 0,
         \A i \in 1..(n - 1) : text[i] # 0
  PROVE  FirstZero(text) = n
<1> DEFINE I == {i \in 1..Len(text) : text[i] = 0}
<1> HIDE DEF Byte
<1>1. n \in I /\ I \in SUBSET Nat
  OBVIOUS
<1>2. \A i \in I : n <= i
  OBVIOUS
<1>3. FirstZero(text) = IF I # {} THEN Min(I) ELSE 0
  BY DEF SelectInSeq, FirstZero
<1> HIDE DEF I
<1> QED
  BY <1>1, <1>2, <1>3, MinIs

(* What StringDecode sees.                                                 *)
BeginsWithText(all, text, length, rest) ==
  /\ all \in Seq(Byte) /\ all # <<>> /\ Len(all) = length + 1 + Len(rest)
  /\ all[1] = length
  /\ \A i \in 1..Len(text) : all[i + 1] = text[i]
  /\ \A i \in (Len(text) + 1)..length : all[i + 1] = 0
  /\ Drop(all, length + 1) = rest

(* What StringEncode writes, as StringDecode sees it.                      *)
LEMMA TextBytes ==
  ASSUME NEW text \in Seq(Byte), NEW length \in Byte, Len(text) <= length, NEW rest \in Seq(Byte)
  PROVE  LET raw == <<length>> \o text \o [i \in 1..(length - Len(text)) |-> 0]
         IN  /\ raw \in Seq(Byte) /\ Len(raw) = length + 1
             /\ BeginsWithText(raw \o rest, text, length, rest)
<1> DEFINE zeros == [i \in 1..(length - Len(text)) |-> 0]
           begin == <<length>> \o text
           raw == begin \o zeros
           all == raw \o rest
           l == Len(text)
           r == Len(rest)
<1>1. length \in Nat /\ l \in Nat /\ r \in Nat /\ 0 \in Byte
  BY Bytes
<1> HIDE DEF Byte
<1>2. begin \in Seq(Byte) /\ Len(begin) = l + 1 /\ begin[1] = length /\ \A i \in 1..l : begin[i + 1] = text[i]
  BY <1>1, SMTT(30)
<1>3. zeros \in Seq(Byte) /\ Len(zeros) = length - l /\ \A i \in 1..(length - l) : zeros[i] = 0
  BY <1>1
<1> HIDE DEF begin, zeros
<1>4. /\ raw \in Seq(Byte) /\ Len(raw) = length + 1
      /\ \A i \in 1..(l + 1) : raw[i] = begin[i]
      /\ \A i \in 1..(length - l) : raw[l + 1 + i] = 0
  <2>1. /\ raw \in Seq(Byte) /\ Len(raw) = Len(begin) + Len(zeros)
        /\ \A i \in 1..(Len(begin) + Len(zeros)) :
             raw[i] = IF i <= Len(begin) THEN begin[i] ELSE zeros[i - Len(begin)]
    BY <1>2, <1>3, ConcatProperties
  <2> HIDE DEF raw
  <2>2. Len(raw) = length + 1
    BY <1>1, <1>2, <1>3, <2>1
  <2>3. ASSUME NEW i \in 1..(l + 1)
        PROVE  raw[i] = begin[i]
    <3>1. i \in 1..(Len(begin) + Len(zeros)) /\ i <= Len(begin)
      BY <1>1, <1>2, <1>3
    <3> QED
      BY <2>1, <3>1
  <2>4. ASSUME NEW i \in 1..(length - l)
        PROVE  raw[l + 1 + i] = 0
    <3> DEFINE j == l + 1 + i
    <3>1. j \in 1..(Len(begin) + Len(zeros)) /\ ~(j <= Len(begin)) /\ j - Len(begin) = i
      BY <1>1, <1>2, <1>3
    <3> HIDE DEF j
    <3>2. raw[j] = zeros[i]
      BY <2>1, <3>1
    <3> QED
      BY <1>3, <3>2 DEF j
  <2> QED
    BY <2>1, <2>2, <2>3, <2>4
<1> HIDE DEF raw
<1>5. /\ all \in Seq(Byte) /\ Len(all) = length + 1 + r
      /\ \A i \in 1..(length + 1) : all[i] = raw[i]
  <2>1. /\ all \in Seq(Byte) /\ Len(all) = Len(raw) + Len(rest)
        /\ \A i \in 1..(Len(raw) + Len(rest)) :
             all[i] = IF i <= Len(raw) THEN raw[i] ELSE rest[i - Len(raw)]
    BY <1>4, ConcatProperties
  <2> HIDE DEF all
  <2> QED
    BY <1>1, <1>4, <2>1
<1>6. Drop(all, length + 1) = rest
  BY <1>4, DropConcat
<1> HIDE DEF all
<1>7. all # <<>> /\ all[1] = length
  <2>1. all[1] = raw[1] /\ raw[1] = begin[1]
    BY <1>1, <1>4, <1>5
  <2> QED
    BY <1>1, <1>2, <1>5, <2>1
<1>8. ASSUME NEW i \in 1..l
      PROVE  all[i + 1] = text[i]
  <2>1. i + 1 \in 1..(l + 1) /\ i + 1 \in 1..(length + 1)
    BY <1>1
  <2>2. all[i + 1] = begin[i + 1]
    BY <1>4, <1>5, <2>1
  <2> QED
    BY <1>2, <2>2
<1>9. ASSUME NEW i \in (l + 1)..length
      PROVE  all[i + 1] = 0
  <2> DEFINE k == i - l
  <2>1. k \in 1..(length - l) /\ l + 1 + k = i + 1 /\ i + 1 \in 1..(length + 1)
    BY <1>1
  <2> HIDE DEF k
  <2>2. raw[l + 1 + k] = 0
    BY <1>4, <2>1
  <2> QED
    BY <1>5, <2>1, <2>2
<1> QED
  <2>1. BeginsWithText(all, text, length, rest)
    BY <1>5, <1>6, <1>7, <1>8, <1>9 DEF BeginsWithText
  <2> QED
    BY <1>4, <2>1 DEF all, raw, begin, zeros

(* A length and the string's characters: the string up to its zero.        *)
LEMMA StringDecodes ==
  ASSUME NEW text \in Seq(Byte \ {0}), NEW length \in Byte,
         Len(text) < length \/ (length = 0 /\ text = <<>>),
         NEW all, NEW rest \in Seq(Byte), BeginsWithText(all, text, length, rest)
  PROVE  StringDecode(all) = Reading(text, rest)
<1> DEFINE t == SubSeq(all, 2, length + 1)
           l == Len(text)
<1> USE DEF BeginsWithText
<1>1. length \in Nat /\ l \in Nat /\ Len(all) \in Nat /\ Len(rest) \in Nat
  BY Bytes
<1> HIDE DEF Byte
<1>2. CASE length = 0
  <2>1. StringDecode(all) = Reading(<<>>, Drop(all, 1))
    BY <1>1, <1>2 DEF StringDecode
  <2> QED
    BY <1>1, <1>2, <2>1
<1>3. CASE length # 0
  <2>1. l < length
    BY <1>3
  <2>2. t \in Seq(Byte) /\ Len(t) = length /\ \A i \in 1..length : t[i] = all[i + 1]
    <3>1. \A i \in 2..(length + 1) : all[i] \in Byte
      BY <1>1
    <3> QED
      BY <1>1, <3>1, SubSeqProperties
  <2> HIDE DEF t
  <2>3. l + 1 \in 1..Len(t) /\ t[l + 1] = 0
    <3>1. l + 1 \in 1..length /\ l + 1 \in (l + 1)..length
      BY <1>1, <2>1
    <3> QED
      BY <2>2, <3>1
  <2>4. ASSUME NEW i \in 1..((l + 1) - 1)
        PROVE  t[i] # 0 /\ t[i] = text[i]
    <3>1. i \in 1..l /\ i \in 1..length
      BY <1>1, <2>1
    <3>2. text[i] \in Byte \ {0}
      BY <3>1, ElementOfSeq
    <3> QED
      BY <2>2, <3>1, <3>2
  <2>5. FirstZero(t) = l + 1
    <3> DEFINE n == l + 1
    <3>1. n \in 1..Len(t) /\ t[n] = 0 /\ \A i \in 1..(n - 1) : t[i] # 0
      BY <2>3, <2>4
    <3> HIDE DEF n
    <3>2. FirstZero(t) = n
      BY <2>2, <3>1, FirstZeroIs
    <3> QED
      BY <3>2 DEF n
  <2>6. 0 \in Range(t)
    BY <2>2, <2>3 DEF Range
  <2>7. SubSeq(t, 1, l) = text
    <3> DEFINE s == SubSeq(t, 1, l)
    <3>1. s \in Seq(Byte) /\ Len(s) = l /\ \A i \in 1..l : s[i] = t[i]
      <4>1. \A i \in 1..l : t[i] \in Byte
        BY <1>1, <2>1, <2>2
      <4> QED
        BY <1>1, <4>1, SubSeqProperties
    <3> HIDE DEF s
    <3>2. text \in Seq(Byte)
      OBVIOUS
    <3>3. \A i \in 1..Len(s) : s[i] = text[i]
      BY <1>1, <2>4, <3>1
    <3> QED
      BY <3>1, <3>2, <3>3, SeqEqual DEF s
  <2>8. ~(Len(all) - 1 < length)
    BY <1>1
  <2>9. StringDecode(all) =
          IF all = <<>> \/ Len(all) - 1 < length THEN Refused
          ELSE IF length = 0 THEN Reading(<<>>, Drop(all, 1))
          ELSE IF 0 \notin Range(t) THEN Refused
          ELSE Reading(SubSeq(t, 1, FirstZero(t) - 1), Drop(all, length + 1))
    BY Zenon DEF StringDecode, t
  <2>10. SubSeq(t, 1, FirstZero(t) - 1) = SubSeq(t, 1, l)
    <3>1. (l + 1) - 1 = l
      BY <1>1
    <3> QED
      BY <2>5, <3>1, Zenon
  <2> QED
    BY <1>3, <2>6, <2>7, <2>8, <2>9, <2>10, Zenon
<1> QED
  BY <1>2, <1>3

(* A string is read back, whether it is filled up or not.                  *)
LEMMA TextReads ==
  ASSUME NEW field, field.is = "text", NEW listed, NEW writer, NEW records,
         NEW value \in Seq(Byte \ {0}), writer.fixed \in Byte, StringFits(value, writer.fixed)
  PROVE  Reads(FieldReader(field, listed), FieldBytes(field, value, writer, records), value, Seq(Byte))
<1> DEFINE length == IF writer.fixed = 0 THEN RawSize(value) ELSE writer.fixed
           raw == <<length>> \o value \o [i \in 1..(length - Len(value)) |-> 0]
<1>1. FieldBytes(field, value, writer, records) = raw
  BY DEF FieldBytes, StringEncode
<1> HIDE DEF Byte, raw
<1>2. value \in Seq(Byte)
  OBVIOUS
<1>3. length \in Byte /\ (Len(value) < length \/ (length = 0 /\ value = <<>>)) /\ Len(value) <= length
  <2>1. writer.fixed \in Int /\ 0 <= writer.fixed /\ writer.fixed < 256
    BY Bytes
  <2>2. /\ Len(value) \in Nat
        /\ RawSize(value) = (IF value = <<>> THEN 0 ELSE Len(value) + 1)
        /\ (value = <<>> => Len(value) = 0)
        /\ RawSize(value) < 255 /\ (writer.fixed = 0 \/ RawSize(value) <= writer.fixed)
    BY <1>2 DEF RawSize, StringFits
  <2>3. length \in Int /\ 0 <= length /\ length < 256
    BY <2>1, <2>2
  <2> QED
    BY <2>1, <2>2, <2>3, Bytes
<1> HIDE DEF length
<1>4. raw \in Seq(Byte)
  BY <1>2, <1>3, EmptySeq, TextBytes DEF raw
<1> SUFFICES ASSUME NEW rest \in Seq(Byte)
             PROVE  FieldReader(field, listed)[raw \o rest] = Reading(value, rest)
  BY <1>1, <1>4, ReadsField
<1> DEFINE all == raw \o rest
<1>5. BeginsWithText(all, value, length, rest)
  BY <1>2, <1>3, TextBytes DEF raw
<1> HIDE DEF all
<1>6. FieldReader(field, listed)[all] = StringDecode(all)
  BY <1>5 DEF FieldReader, BeginsWithText
<1>7. StringDecode(all) = Reading(value, rest)
  BY <1>3, <1>5, StringDecodes
<1> QED
  BY <1>6, <1>7 DEF all

(* DigitsValue of three characters, of which the last ones are digits.     *)
LEMMA DigitsNumber ==
  ASSUME NEW text, NEW digits
  PROVE  LET step(n, i) == IF i \in digits THEN (10 * n) + text[i] - 48 ELSE n
         IN  DigitsValue(text, digits) = step(step(step(0, 1), 2), 3)
<1> DEFINE step(n, i) == IF i \in digits THEN (10 * n) + text[i] - 48 ELSE n
           Is(number) == number = [i \in 0..3 |->
             IF i = 0 THEN 0
             ELSE IF i \in digits THEN (10 * number[i - 1]) + text[i] - 48
             ELSE number[i - 1]]
           n1 == step(0, 1)
           n2 == step(n1, 2)
           n3 == step(n2, 3)
           f == [i \in 0..3 |-> IF i = 0 THEN 0 ELSE IF i = 1 THEN n1 ELSE IF i = 2 THEN n2 ELSE n3]
           number == CHOOSE g : Is(g)
<1>1. f[0] = 0 /\ f[1] = n1 /\ f[2] = n2 /\ f[3] = n3 /\ f = [i \in 0..3 |-> f[i]]
  <2> HIDE DEF n1, n2, n3
  <2> QED
    OBVIOUS
<1> HIDE DEF f
<1>2. \A i \in 0..3 : f[i] = IF i = 0 THEN 0
                             ELSE IF i \in digits THEN (10 * f[i - 1]) + text[i] - 48
                             ELSE f[i - 1]
  <2> TAKE i \in 0..3
  <2>1. CASE i = 0
    BY <1>1, <2>1
  <2>2. CASE i = 1
    BY <1>1, <2>2
  <2>3. CASE i = 2
    BY <1>1, <2>3
  <2>4. CASE i = 3
    BY <1>1, <2>4
  <2> QED
    BY <2>1, <2>2, <2>3, <2>4
<1>3. Is(f)
  BY <1>1, <1>2
<1>4. Is(number)
  <2> HIDE DEF Is
  <2> QED
    BY <1>3
<1>5. DigitsValue(text, digits) = number[3]
  BY Zenon DEF DigitsValue, number, Is
<1> HIDE DEF number
<1>6. /\ number[0] = 0
      /\ number[1] = step(number[0], 1)
      /\ number[2] = step(number[1], 2)
      /\ number[3] = step(number[2], 3)
  BY <1>4
<1> HIDE DEF step
<1> QED
  BY <1>5, <1>6 DEF step

(* A ratio is read from its digits.                                        *)
LEMMA RatioDigits ==
  ASSUME NEW text \in Seq(Byte), Len(text) = 3, NEW k \in 1..3,
         \A i \in 1..(k - 1) : text[i] \in Whitespace, \A i \in k..3 : text[i] \in 48..57
  PROVE  RatioValue(text) = (IF k <= 1 THEN 100 * (text[1] - 48) ELSE 0)
                              + (IF k <= 2 THEN 10 * (text[2] - 48) ELSE 0) + (text[3] - 48)
<1> DEFINE start == FirstVisible(text)
           sign == start # 0 /\ text[start] \in {43, 45}
           first == IF sign THEN start + 1 ELSE start
           digits == {i \in first..3 : \A j \in first..i : text[j] \in 48..57}
           number == DigitsValue(text, digits)
<1>1. start = k
  <2> DEFINE I == {i \in 1..Len(text) : text[i] \notin Whitespace}
  <2>1. I = k..3
    <3>1. ASSUME NEW i \in k..3
          PROVE  i \in 1..3 /\ text[i] \notin Whitespace
      <4>1. text[i] \in 48..57 /\ i \in 1..3
        OBVIOUS
      <4> QED
        BY <4>1 DEF Whitespace
    <3> QED
      BY <3>1, SMTT(30)
  <2>2. FirstVisible(text) = IF I # {} THEN Min(I) ELSE 0
    BY DEF FirstVisible, SelectInSeq
  <2> HIDE DEF I
  <2>3. k \in I /\ I \in SUBSET Nat /\ \A i \in I : k <= i
    BY <2>1
  <2> QED
    BY <2>2, <2>3, MinIs
<1> HIDE DEF start
<1>2. text[k] \in 48..57 /\ text[1] \in Byte /\ text[2] \in Byte /\ text[3] \in Byte
  <2> HIDE DEF Byte
  <2>1. \A i \in 1..3 : text[i] \in Byte
    BY ElementOfSeq
  <2>2. k \in k..3
    OBVIOUS
  <2> QED
    BY <2>1, <2>2
<1>3. ~sign /\ text[start] # 45
  BY <1>1, <1>2
<1> HIDE DEF sign
<1>4. first = k
  BY <1>1, <1>3
<1> HIDE DEF first
<1>5. digits = k..3
  BY <1>4
<1> HIDE DEF digits
<1>6. text[1] \in Int /\ text[2] \in Int /\ text[3] \in Int
  BY <1>2, Bytes
<1> DEFINE step(n, i) == IF i \in digits THEN (10 * n) + text[i] - 48 ELSE n
<1>7. number = step(step(step(0, 1), 2), 3)
  BY DigitsNumber
<1> HIDE DEF number
<1>8. /\ 1 \in digits <=> k <= 1
      /\ 2 \in digits <=> k <= 2
      /\ 3 \in digits
  BY <1>5
<1>9. number = (IF k <= 1 THEN 100 * (text[1] - 48) ELSE 0)
                 + (IF k <= 2 THEN 10 * (text[2] - 48) ELSE 0) + (text[3] - 48)
  <2> HIDE DEF Byte
  <2>1. CASE k = 1
    BY <1>6, <1>7, <1>8, <2>1, SMTT(30)
  <2>2. CASE k = 2
    BY <1>6, <1>7, <1>8, <2>2, SMTT(30)
  <2>3. CASE k = 3
    BY <1>6, <1>7, <1>8, <2>3, SMTT(30)
  <2> QED
    BY <2>1, <2>2, <2>3
<1>10. RatioValue(text) = IF start = 0 \/ digits = {} \/ (text[start] = 45 /\ number # 0)
                          THEN 101 ELSE number
  BY Zenon DEF RatioValue, start, sign, first, digits, number
<1>11. start # 0 /\ digits # {}
  BY <1>1, <1>8
<1> QED
  BY <1>3, <1>9, <1>10, <1>11, Zenon

(* What RatioEncode writes is read as the ratio, whatever fills it up.     *)
LEMMA RatioEncoded ==
  ASSUME NEW ratio \in 0..100, NEW pad \in Whitespace \cup {48}
  PROVE  /\ RatioEncode(ratio, pad) \in Seq(Byte)
         /\ Len(RatioEncode(ratio, pad)) = 3
         /\ RatioValue(RatioEncode(ratio, pad)) = ratio
<1> DEFINE text == RatioEncode(ratio, pad)
           a == 48 + ((ratio \div 100) % 10)
           b == 48 + ((ratio \div 10) % 10)
           c == 48 + (ratio % 10)
<1>1. ratio \in Int /\ 0 <= ratio /\ ratio <= 100
  OBVIOUS
<1>2. /\ a \in 48..57 /\ b \in 48..57 /\ c \in 48..57
      /\ 100 * (a - 48) + 10 * (b - 48) + (c - 48) = ratio
      /\ ratio < 100 => a = 48
      /\ ratio < 10 => b = 48
  BY <1>1
<1>3. text = <<IF ratio < 100 THEN pad ELSE a, IF ratio < 10 THEN pad ELSE b, c>>
  BY DEF RatioEncode
<1>4. pad \in Byte
  BY DEF Whitespace, Byte
<1> HIDE DEF a, b, c, text
<1>5. text[1] = (IF ratio < 100 THEN pad ELSE a) /\ text[2] = (IF ratio < 10 THEN pad ELSE b) /\ text[3] = c
  BY <1>3
<1>6. a \in Byte /\ b \in Byte /\ c \in Byte
  BY <1>2, Bytes
<1>7. text \in Seq(Byte) /\ Len(text) = 3
  <2> HIDE DEF Byte
  <2> QED
    BY <1>3, <1>4, <1>6
<1>8. RatioValue(text) = ratio
  <2>1. CASE pad = 48
    <3>1. \A i \in 1..3 : text[i] \in 48..57
      BY <1>2, <1>5, <2>1
    <3>2. RatioValue(text) = 100 * (text[1] - 48) + 10 * (text[2] - 48) + (text[3] - 48)
      <4>1. /\ \A i \in 1..(1 - 1) : text[i] \in Whitespace
            /\ 1 \in 1..3
        OBVIOUS
      <4> QED
        BY <1>7, <3>1, <4>1, RatioDigits
    <3> QED
      BY <1>1, <1>2, <1>5, <2>1, <3>2
  <2>2. CASE pad \in Whitespace
    <3> DEFINE k == IF ratio < 10 THEN 3 ELSE IF ratio < 100 THEN 2 ELSE 1
    <3>1. k \in 1..3
      OBVIOUS
    <3>2. \A i \in 1..(k - 1) : text[i] \in Whitespace
      BY <1>5, <2>2
    <3>3. \A i \in k..3 : text[i] \in 48..57
      BY <1>1, <1>2, <1>5
    <3>4. RatioValue(text) = (IF k <= 1 THEN 100 * (text[1] - 48) ELSE 0)
                              + (IF k <= 2 THEN 10 * (text[2] - 48) ELSE 0) + (text[3] - 48)
      <4> HIDE DEF k
      <4> QED
        BY <1>7, <3>1, <3>2, <3>3, RatioDigits
    <3> QED
      BY <1>1, <1>2, <1>5, <3>4
  <2> QED
    BY <2>1, <2>2
<1> QED
  BY <1>7, <1>8 DEF text

(* A ratio is read back.                                                   *)
LEMMA RatioReads ==
  ASSUME NEW field, field.is = "ratio", NEW listed, NEW writer, NEW records,
         NEW value \in 0..100, writer.pad \in Whitespace \cup {48}
  PROVE  Reads(FieldReader(field, listed), FieldBytes(field, value, writer, records), value, Seq(Byte))
<1> DEFINE raw == RatioEncode(value, writer.pad)
<1>1. FieldBytes(field, value, writer, records) = raw
  BY DEF FieldBytes
<1>2. raw \in Seq(Byte) /\ Len(raw) = 3 /\ RatioValue(raw) = value
  BY RatioEncoded
<1> HIDE DEF Byte, raw
<1> SUFFICES ASSUME NEW rest \in Seq(Byte)
             PROVE  FieldReader(field, listed)[raw \o rest] = Reading(value, rest)
  BY <1>1, <1>2, ReadsField
<1> DEFINE all == raw \o rest
<1>3. all \in Seq(Byte) /\ Len(all) = Len(raw) + Len(rest) /\ Len(rest) \in Nat
  BY <1>2, ConcatTwo
<1>4. SubSeq(all, 1, 3) = raw
  BY <1>2, PrefixConcat
<1>5. Drop(all, 3) = rest
  BY <1>2, DropConcat
<1> HIDE DEF all
<1>6. FieldReader(field, listed)[all] = RatioDecode(all)
  BY <1>3 DEF FieldReader
<1>7. ~(Len(all) < 3) /\ ~(value > 100)
  BY <1>2, <1>3
<1>8. RatioDecode(all) = Reading(value, rest)
  BY <1>2, <1>4, <1>5, <1>7 DEF RatioDecode
<1> QED
  BY <1>6, <1>8 DEF all

(* The user's data take all the bytes.                                     *)
LEMMA DataReads ==
  ASSUME NEW field, field.is = "data", NEW listed, NEW writer, NEW records,
         NEW value \in Seq(Byte), Len(value) <= 255
  PROVE  Reads(FieldReader(field, listed), FieldBytes(field, value, writer, records), value, {<<>>})
<1> DEFINE raw == <<Len(value)>> \o value
<1>1. FieldBytes(field, value, writer, records) = raw
  BY DEF FieldBytes
<1>2. Len(value) \in Nat /\ Len(value) \in Byte
  BY Bytes
<1> HIDE DEF Byte
<1>3. /\ raw \in Seq(Byte) /\ Len(raw) = Len(value) + 1 /\ raw[1] = Len(value)
      /\ <<Len(value)>> \in Seq(Byte) /\ Len(<<Len(value)>>) = 1
  BY <1>2
<1>4. Drop(raw, 1) = value
  BY <1>3, DropConcat
<1> HIDE DEF raw
<1>5. raw \o <<>> = raw
  BY <1>3, ConcatEmptySeq
<1>6. FieldReader(field, listed)[raw] = UserDataDecode(raw)
  BY <1>3 DEF FieldReader
<1>7. UserDataDecode(raw) = Reading(value, <<>>)
  BY <1>2, <1>3, <1>4 DEF UserDataDecode
<1>8. <<>> \in Seq(Byte)
  BY EmptySeq
<1> QED
  BY <1>1, <1>3, <1>5, <1>6, <1>7, <1>8, ReadsField

(* A list is read back if each of its records is.                          *)
LEMMA ListReads ==
  ASSUME NEW field, field.is = "list", NEW listed, NEW writer,
         NEW n \in Nat, n < Word, NEW value, OfLength(value, n), Len(value) = n,
         NEW records \in [1..n -> Seq(Byte)],
         \A j \in 1..n : Reads(listed, records[j], value[j], Seq(Byte))
  PROVE  Reads(FieldReader(field, listed), FieldBytes(field, value, writer, records), value, Seq(Byte))
<1> DEFINE number == Int16(n)
           flat == FlattenSeq(records)
           raw == number \o flat
           readers == [i \in 1..n |-> listed]
<1>1. FieldBytes(field, value, writer, records) = raw
  BY DEF FieldBytes
<1> HIDE DEF Byte
<1>2. -HalfWord <= n /\ n % Word = n
  <2>1. -HalfWord <= n
    BY Words
  <2> QED
    BY <2>1, Modulo
<1>3. number \in Seq(Byte)
  BY <1>2, Int16Reads, EmptySeq
<1>4. Len(readers) = n /\ \A i \in 1..n : readers[i] = listed
  OBVIOUS
<1> HIDE DEF readers
<1>5. /\ flat \in Seq(Byte)
      /\ \A rest \in Seq(Byte) : InTurn(readers, flat \o rest) = Reading(value, rest)
  <2> DEFINE rests == Seq(Byte)
  <2>1. \A i \in 1..n : Reads(readers[i], records[i], value[i], IF i = n THEN rests ELSE Seq(Byte))
    BY <1>4
  <2>2. rests \in SUBSET Seq(Byte)
    OBVIOUS
  <2> HIDE DEF rests
  <2>3. EachReads(n, readers, records, value, rests)
    BY <1>4, <2>1, <2>2 DEF EachReads
  <2>4. ReadInTurn(readers, FlattenSeq(records), value, rests)
    BY <2>3, InTurnReads
  <2> QED
    BY <2>4 DEF rests, ReadInTurn
<1> HIDE DEF flat
<1>6. raw \in Seq(Byte)
  BY <1>3, <1>5, ConcatBytes
<1> SUFFICES ASSUME NEW rest \in Seq(Byte)
             PROVE  FieldReader(field, listed)[raw \o rest] = Reading(value, rest)
  BY <1>1, <1>6, ReadsField
<1> DEFINE all == raw \o rest
           tail == flat \o rest
<1>7. tail \in Seq(Byte) /\ all = number \o tail
  BY <1>3, <1>5, ConcatBytes
<1> HIDE DEF all, tail, raw
<1>8. all \in Seq(Byte) /\ Len(all) >= 2 /\ Unsigned(all) = n /\ Drop(all, 2) = tail
  BY <1>2, <1>7, Int16Reads
<1>9. FieldReader(field, listed)[all] = ListDecode(listed, all)
  BY <1>8 DEF FieldReader
<1>10. ListDecode(listed, all) = InTurn([i \in 1..Unsigned(all) |-> listed], Drop(all, 2))
  <2>1. Len(all) \in Nat
    BY <1>8
  <2>2. ~(Len(all) < 2)
    BY <1>8, <2>1
  <2> QED
    BY <2>2, Zenon DEF ListDecode
<1>11. @ = InTurn(readers, tail)
  BY <1>8, Zenon DEF readers
<1> QED
  BY <1>5, <1>9, <1>10, <1>11 DEF all, tail

-----------------------------------------------------------------------------
(* Records.                                                                *)

FieldKinds == {"number", "signed", "text", "ratio", "list"}

PlainField(field) == field.is \in FieldKinds /\ (field.is = "number" => field.values \subseteq 0..(Word - 1))

(* Layouts of records whose lists, if any, have layouts like these.        *)
IsLayout(layout) == Len(layout) \in Nat \ {0} /\ DOMAIN layout = 1..Len(layout)

FlatLayout(layout) ==
  IsLayout(layout) /\ \A i \in DOMAIN layout : PlainField(layout[i]) /\ layout[i].is # "list"

NestedLayout(layout) ==
  /\ IsLayout(layout)
  /\ \A i \in DOMAIN layout :
       PlainField(layout[i]) /\ (layout[i].is = "list" => FlatLayout(layout[i].of))

(* Only the last field of a file takes the rest of it.                     *)
EndsWithData(layout) == layout[Len(layout)].is = "data"

FileLayout(layout) ==
  /\ IsLayout(layout)
  /\ \A i \in DOMAIN layout :
       \/ PlainField(layout[i]) /\ (layout[i].is = "list" => NestedLayout(layout[i].of))
       \/ i = Len(layout) /\ layout[i].is = "data"

IsPeer(writer) == writer.fixed \in Byte /\ writer.pad \in Whitespace \cup {48}

EachListed(listed, records, value) ==
  /\ records \in [DOMAIN value -> Seq(Byte)]
  /\ \A j \in DOMAIN value : Reads(listed, records[j], value[j], Seq(Byte))

(* A field of any plain kind is read back.                                 *)
LEMMA FieldReads ==
  ASSUME NEW field, PlainField(field), NEW value, NEW writer, IsPeer(writer),
         NEW holds, FieldHolds(field, value, holds), NEW fits, FieldFits(field, value, writer, fits),
         NEW listed, NEW records,
         field.is = "list" /\ value \in Seq(Range(value)) /\ holds /\ fits =>
           EachListed(listed, records, value)
  PROVE  Reads(FieldReader(field, listed), FieldBytes(field, value, writer, records), value, Seq(Byte))
<1> HIDE DEF Byte
<1>1. CASE field.is = "number"
  <2>1. value \in field.values /\ value \in 0..(Word - 1)
    BY <1>1 DEF FieldHolds, PlainField
  <2> QED
    BY <1>1, <2>1, NumberReads
<1>2. CASE field.is = "signed"
  <2>1. value \in -HalfWord..(HalfWord - 1)
    BY <1>2 DEF FieldHolds
  <2> QED
    BY <1>2, <2>1, SignedReads
<1>3. CASE field.is = "text"
  <2>1. value \in Seq(Byte \ {0}) /\ StringFits(value, writer.fixed)
    BY <1>3 DEF FieldHolds, FieldFits
  <2> QED
    BY <1>3, <2>1, TextReads DEF IsPeer
<1>4. CASE field.is = "ratio"
  <2>1. value \in 0..100
    BY <1>4 DEF FieldHolds
  <2> QED
    BY <1>4, <2>1, RatioReads DEF IsPeer
<1>5. CASE field.is = "list"
  <2>1. value \in Seq(Range(value)) /\ holds /\ Len(value) < Word /\ fits
    BY <1>5 DEF FieldHolds, FieldFits
  <2> DEFINE n == Len(value)
  <2>2. n \in Nat /\ DOMAIN value = 1..n /\ OfLength(value, n)
    BY <2>1 DEF OfLength
  <2>3. records \in [1..n -> Seq(Byte)] /\ \A j \in 1..n : Reads(listed, records[j], value[j], Seq(Byte))
    BY <1>5, <2>1, <2>2 DEF EachListed
  <2> HIDE DEF n
  <2>4. n < Word /\ Len(value) = n
    BY <2>1 DEF n
  <2> QED
    BY <1>5, <2>2, <2>3, <2>4, ListReads
<1> QED
  BY <1>1, <1>2, <1>3, <1>4, <1>5 DEF PlainField, FieldKinds

(* A record whose fields are read.                                         *)
FieldsRead(layout, readers, seqs, value, rests) ==
  /\ OfLength(value, Len(layout))
  /\ OfLength(readers, Len(layout))
  /\ OfLength(seqs, Len(layout))
  /\ rests \in SUBSET Seq(Byte)
  /\ \A i \in DOMAIN layout :
       Reads(readers[i], seqs[i], value[i], IF i = Len(layout) THEN rests ELSE Seq(Byte))

(* A record is read back if each of its fields is.                         *)
LEMMA RecordReads ==
  ASSUME NEW layout, IsLayout(layout), NEW value, NEW rests, NEW readers, NEW seqs,
         FieldsRead(layout, readers, seqs, value, rests)
  PROVE  Reads([raw \in Seq(Byte) |-> InTurn(readers, raw)], FlattenSeq(seqs), value, rests)
<1> DEFINE n == Len(layout)
           flat == FlattenSeq(seqs)
           reader == [raw \in Seq(Byte) |-> InTurn(readers, raw)]
<1> USE DEF FieldsRead
<1>1. n \in Nat /\ DOMAIN layout = 1..n
  BY DEF IsLayout
<1> HIDE DEF n, Byte
<1>2. Len(readers) = n
  BY <1>1 DEF OfLength, n
<1>3. seqs \in [1..n -> Seq(Byte)]
  <2>1. \A i \in 1..n : seqs[i] \in Seq(Byte)
    BY <1>1, SMTT(30) DEF Reads
  <2> QED
    BY <2>1, SMTT(30) DEF OfLength, n
<1>4. EachReads(n, readers, seqs, value, rests)
  BY <1>1, <1>2, <1>3 DEF EachReads, n
<1>5. ReadInTurn(readers, flat, value, rests)
  BY <1>1, <1>4, InTurnReads
<1> HIDE DEF flat
<1>6. ASSUME NEW rest \in rests
      PROVE  reader[flat \o rest] = Reading(value, rest)
  <2>1. flat \o rest \in Seq(Byte)
    BY <1>5, ConcatTwo DEF ReadInTurn
  <2>2. reader[flat \o rest] = InTurn(readers, flat \o rest)
    BY <2>1
  <2> QED
    BY <1>5, <2>2 DEF ReadInTurn
<1> HIDE DEF reader
<1>7. Reads(reader, flat, value, rests)
  BY <1>5, <1>6 DEF Reads, ReadInTurn
<1> QED
  BY <1>7 DEF reader, flat

(* A record without lists is read back.                                    *)
LEMMA FlatReads ==
  ASSUME NEW layout, FlatLayout(layout), NEW value, IsFlat(layout, value),
         NEW writer, IsPeer(writer), FlatFits(layout, value, writer)
  PROVE  Reads(FlatReader(layout), FlatFields(layout, value, writer), value, Seq(Byte))
<1> DEFINE readers == [i \in DOMAIN layout |-> FieldReader(layout[i], NoReader(layout[i].of))]
           records(i) == [j \in DOMAIN value[i] |-> NoLists(layout[i].of, value[i][j], writer)]
           seqs == [i \in DOMAIN layout |-> FieldBytes(layout[i], value[i], writer, records(i))]
           holds(i) == \A j \in DOMAIN value[i] : NotListed(layout[i].of, value[i][j])
           fits(i) == \A j \in DOMAIN value[i] : NoLists(layout[i].of, value[i][j], writer)
<1>1. IsLayout(layout) /\ DOMAIN layout = 1..Len(layout)
  BY DEF FlatLayout, IsLayout
<1>2. FlatReader(layout) = [raw \in Seq(Byte) |-> InTurn(readers, raw)]
  BY Zenon DEF FlatReader, RecordReader
<1>3. FlatFields(layout, value, writer) = FlattenSeq(seqs)
  BY Zenon DEF FlatFields, RecordFields
<1>4. OfLength(value, Len(layout)) /\ \A i \in DOMAIN layout : FieldHolds(layout[i], value[i], holds(i))
  BY <1>1, Zenon DEF IsFlat, IsRecord, OfLength
<1>5. \A i \in DOMAIN layout : FieldFits(layout[i], value[i], writer, fits(i))
  BY Zenon DEF FlatFits, RecordFits
<1> HIDE DEF records, holds, fits
<1>6. ASSUME NEW i \in DOMAIN layout
      PROVE  Reads(readers[i], seqs[i], value[i], Seq(Byte))
  <2>1. PlainField(layout[i]) /\ layout[i].is # "list"
    BY DEF FlatLayout
  <2>2. readers[i] = FieldReader(layout[i], NoReader(layout[i].of))
    OBVIOUS
  <2>3. seqs[i] = FieldBytes(layout[i], value[i], writer, records(i))
    OBVIOUS
  <2>4. FieldHolds(layout[i], value[i], holds(i)) /\ FieldFits(layout[i], value[i], writer, fits(i))
    BY <1>4, <1>5
  <2> HIDE DEF readers, seqs
  <2> QED
    BY <2>1, <2>2, <2>3, <2>4, FieldReads
<1>7. OfLength(readers, Len(layout)) /\ OfLength(seqs, Len(layout))
  BY <1>1 DEF OfLength
<1> HIDE DEF readers, seqs
<1>8. FieldsRead(layout, readers, seqs, value, Seq(Byte))
  BY <1>4, <1>6, <1>7 DEF FieldsRead
<1>9. Reads([raw \in Seq(Byte) |-> InTurn(readers, raw)], FlattenSeq(seqs), value, Seq(Byte))
  BY <1>1, <1>8, RecordReads
<1> QED
  BY <1>2, <1>3, <1>9, Zenon

(* A record whose lists hold records without lists is read back.           *)
LEMMA NestedReads ==
  ASSUME NEW layout, NestedLayout(layout), NEW value, IsNested(layout, value),
         NEW writer, IsPeer(writer), NestedFits(layout, value, writer)
  PROVE  Reads(NestedReader(layout), NestedFields(layout, value, writer), value, Seq(Byte))
<1> DEFINE readers == [i \in DOMAIN layout |-> FieldReader(layout[i], FlatReader(layout[i].of))]
           records(i) == [j \in DOMAIN value[i] |-> FlatFields(layout[i].of, value[i][j], writer)]
           seqs == [i \in DOMAIN layout |-> FieldBytes(layout[i], value[i], writer, records(i))]
           holds(i) == \A j \in DOMAIN value[i] : IsFlat(layout[i].of, value[i][j])
           fits(i) == \A j \in DOMAIN value[i] : FlatFits(layout[i].of, value[i][j], writer)
<1>1. IsLayout(layout) /\ DOMAIN layout = 1..Len(layout)
  BY DEF NestedLayout, IsLayout
<1>2. NestedReader(layout) = [raw \in Seq(Byte) |-> InTurn(readers, raw)]
  BY Zenon DEF NestedReader, RecordReader
<1>3. NestedFields(layout, value, writer) = FlattenSeq(seqs)
  BY Zenon DEF NestedFields, RecordFields
<1>4. OfLength(value, Len(layout)) /\ \A i \in DOMAIN layout : FieldHolds(layout[i], value[i], holds(i))
  BY <1>1, Zenon DEF IsNested, IsRecord, OfLength
<1>5. \A i \in DOMAIN layout : FieldFits(layout[i], value[i], writer, fits(i))
  BY Zenon DEF NestedFits, RecordFits
<1>6. ASSUME NEW i \in DOMAIN layout
      PROVE  Reads(readers[i], seqs[i], value[i], Seq(Byte))
  <2>1. PlainField(layout[i]) /\ (layout[i].is = "list" => FlatLayout(layout[i].of))
    BY DEF NestedLayout
  <2>2. readers[i] = FieldReader(layout[i], FlatReader(layout[i].of))
    OBVIOUS
  <2>3. seqs[i] = FieldBytes(layout[i], value[i], writer, records(i))
    OBVIOUS
  <2>4. FieldHolds(layout[i], value[i], holds(i)) /\ FieldFits(layout[i], value[i], writer, fits(i))
    BY <1>4, <1>5
  <2> HIDE DEF readers, seqs
  <2>5. ASSUME layout[i].is = "list", holds(i), fits(i)
        PROVE  EachListed(FlatReader(layout[i].of), records(i), value[i])
    <3>1. ASSUME NEW j \in DOMAIN value[i]
          PROVE  Reads(FlatReader(layout[i].of), records(i)[j], value[i][j], Seq(Byte))
      <4>1. IsFlat(layout[i].of, value[i][j]) /\ FlatFits(layout[i].of, value[i][j], writer)
        BY <2>5
      <4>2. records(i)[j] = FlatFields(layout[i].of, value[i][j], writer)
        OBVIOUS
      <4> QED
        BY <2>1, <2>5, <4>1, <4>2, FlatReads
    <3>2. \A j \in DOMAIN value[i] : records(i)[j] \in Seq(Byte)
      BY <3>1 DEF Reads
    <3>3. records(i) \in [DOMAIN value[i] -> Seq(Byte)]
      BY <3>2
    <3> HIDE DEF records
    <3> QED
      BY <3>1, <3>3 DEF EachListed
  <2> HIDE DEF records, holds, fits
  <2>6. layout[i].is = "list" /\ value[i] \in Seq(Range(value[i])) /\ holds(i) /\ fits(i) =>
          EachListed(FlatReader(layout[i].of), records(i), value[i])
    BY <2>5
  <2>7. Reads(FieldReader(layout[i], FlatReader(layout[i].of)),
              FieldBytes(layout[i], value[i], writer, records(i)), value[i], Seq(Byte))
    BY <2>1, <2>4, <2>6, FieldReads, Zenon
  <2> QED
    BY <2>2, <2>3, <2>7
<1>7. OfLength(readers, Len(layout)) /\ OfLength(seqs, Len(layout))
  BY <1>1 DEF OfLength
<1> HIDE DEF readers, seqs
<1>8. FieldsRead(layout, readers, seqs, value, Seq(Byte))
  BY <1>4, <1>6, <1>7 DEF FieldsRead
<1>9. Reads([raw \in Seq(Byte) |-> InTurn(readers, raw)], FlattenSeq(seqs), value, Seq(Byte))
  BY <1>1, <1>8, RecordReads
<1> QED
  BY <1>2, <1>3, <1>9, Zenon

Rests(layout) == IF EndsWithData(layout) THEN {<<>>} ELSE Seq(Byte)

(* What is written of each field of a file.                                *)
EachField(layout, value, writer) ==
  LET records(i) == [j \in DOMAIN value[i] |-> NestedFields(layout[i].of, value[i][j], writer)]
  IN  [i \in DOMAIN layout |-> FieldBytes(layout[i], value[i], writer, records(i))]

(* The fields of a file are read back, and written one after the other.    *)
LEMMA FileReads ==
  ASSUME NEW layout, FileLayout(layout), NEW value, IsValue(layout, value),
         NEW writer, IsPeer(writer), Fits(layout, value, writer)
  PROVE  /\ Reads(Reader(layout), Fields(layout, value, writer), value, Rests(layout))
         /\ Fields(layout, value, writer) = FlattenSeq(EachField(layout, value, writer))
         /\ \A i \in DOMAIN layout : EachField(layout, value, writer)[i] \in Seq(Byte)
<1> DEFINE readers == [i \in DOMAIN layout |-> FieldReader(layout[i], NestedReader(layout[i].of))]
           records(i) == [j \in DOMAIN value[i] |-> NestedFields(layout[i].of, value[i][j], writer)]
           seqs == [i \in DOMAIN layout |-> FieldBytes(layout[i], value[i], writer, records(i))]
           holds(i) == \A j \in DOMAIN value[i] : IsNested(layout[i].of, value[i][j])
           fits(i) == \A j \in DOMAIN value[i] : NestedFits(layout[i].of, value[i][j], writer)
<1>1. IsLayout(layout) /\ DOMAIN layout = 1..Len(layout)
  BY DEF FileLayout, IsLayout
<1>2. Reader(layout) = [raw \in Seq(Byte) |-> InTurn(readers, raw)]
  BY Zenon DEF Reader, RecordReader
<1>3. Fields(layout, value, writer) = FlattenSeq(seqs)
  BY Zenon DEF Fields, RecordFields
<1>4. OfLength(value, Len(layout)) /\ \A i \in DOMAIN layout : FieldHolds(layout[i], value[i], holds(i))
  BY <1>1, Zenon DEF IsValue, IsRecord, OfLength
<1>5. \A i \in DOMAIN layout : FieldFits(layout[i], value[i], writer, fits(i))
  BY Zenon DEF Fits, RecordFits
<1>6. ASSUME NEW i \in DOMAIN layout
      PROVE  Reads(readers[i], seqs[i], value[i], IF i = Len(layout) THEN Rests(layout) ELSE Seq(Byte))
  <2>2. readers[i] = FieldReader(layout[i], NestedReader(layout[i].of))
    OBVIOUS
  <2>3. seqs[i] = FieldBytes(layout[i], value[i], writer, records(i))
    OBVIOUS
  <2>4. FieldHolds(layout[i], value[i], holds(i)) /\ FieldFits(layout[i], value[i], writer, fits(i))
    BY <1>4, <1>5
  <2> HIDE DEF readers, seqs
  <2>6. CASE PlainField(layout[i]) /\ (layout[i].is = "list" => NestedLayout(layout[i].of))
    <3>1. ASSUME layout[i].is = "list", holds(i), fits(i)
          PROVE  EachListed(NestedReader(layout[i].of), records(i), value[i])
      <4>1. ASSUME NEW j \in DOMAIN value[i]
            PROVE  Reads(NestedReader(layout[i].of), records(i)[j], value[i][j], Seq(Byte))
        <5>1. IsNested(layout[i].of, value[i][j]) /\ NestedFits(layout[i].of, value[i][j], writer)
          BY <3>1
        <5>2. records(i)[j] = NestedFields(layout[i].of, value[i][j], writer)
          OBVIOUS
        <5> QED
          BY <2>6, <3>1, <5>1, <5>2, NestedReads
      <4>2. \A j \in DOMAIN value[i] : records(i)[j] \in Seq(Byte)
        BY <4>1 DEF Reads
      <4>3. records(i) \in [DOMAIN value[i] -> Seq(Byte)]
        BY <4>2
      <4> HIDE DEF records
      <4> QED
        BY <4>1, <4>3 DEF EachListed
    <3> HIDE DEF records, holds, fits
    <3>5. layout[i].is = "list" /\ value[i] \in Seq(Range(value[i])) /\ holds(i) /\ fits(i) =>
            EachListed(NestedReader(layout[i].of), records(i), value[i])
      BY <3>1
    <3>6. Reads(FieldReader(layout[i], NestedReader(layout[i].of)),
                FieldBytes(layout[i], value[i], writer, records(i)), value[i], Seq(Byte))
      BY <2>4, <2>6, <3>5, FieldReads, Zenon
    <3>2. Reads(readers[i], seqs[i], value[i], Seq(Byte))
      BY <2>2, <2>3, <3>6
    <3>3. layout[i].is # "data"
      BY <2>6 DEF PlainField, FieldKinds
    <3>4. i = Len(layout) => Rests(layout) = Seq(Byte)
      BY <3>3 DEF Rests, EndsWithData
    <3> QED
      BY <3>2, <3>4
  <2>7. CASE i = Len(layout) /\ layout[i].is = "data"
    <3> HIDE DEF records, holds, fits, Byte
    <3>1. value[i] \in Seq(Byte) /\ Len(value[i]) <= 255
      BY <2>4, <2>7 DEF FieldHolds, FieldFits
    <3>2. Reads(readers[i], seqs[i], value[i], {<<>>})
      BY <2>2, <2>3, <2>7, <3>1, DataReads
    <3> QED
      BY <2>7, <3>2 DEF Rests, EndsWithData
  <2> QED
    BY <2>6, <2>7 DEF FileLayout
<1>10. EachField(layout, value, writer) = seqs
  BY Zenon DEF EachField
<1>11. \A i \in DOMAIN layout : seqs[i] \in Seq(Byte)
  BY <1>6 DEF Reads
<1>7. OfLength(readers, Len(layout)) /\ OfLength(seqs, Len(layout))
  BY <1>1 DEF OfLength
<1> HIDE DEF readers, seqs
<1>8. FieldsRead(layout, readers, seqs, value, Rests(layout))
  <2>1. Rests(layout) \in SUBSET Seq(Byte)
    BY EmptySeq DEF Rests
  <2> QED
    BY <1>4, <1>6, <1>7, <2>1 DEF FieldsRead
<1>9. Reads([raw \in Seq(Byte) |-> InTurn(readers, raw)], FlattenSeq(seqs), value, Rests(layout))
  BY <1>1, <1>8, RecordReads
<1> QED
  BY <1>2, <1>3, <1>9, <1>10, <1>11, Zenon

-----------------------------------------------------------------------------
(* Longer bytes.                                                           *)

(* A part of bytes is the same part of longer ones.                        *)
LEMMA SubSeqLonger ==
  ASSUME NEW raw \in Seq(Byte), NEW more \in Seq(Byte), NEW a \in Nat \ {0}, NEW b \in 0..Len(raw)
  PROVE  SubSeq(raw \o more, a, b) = SubSeq(raw, a, b)
<1> DEFINE longer == raw \o more
           s == SubSeq(raw, a, b)
           t == SubSeq(longer, a, b)
<1> HIDE DEF Byte
<1>1. \A i \in a..b : i \in 1..Len(raw) /\ longer[i] = raw[i] /\ raw[i] \in Byte
  BY ConcatTwo
<1> HIDE DEF longer
<1>2. /\ s \in Seq(Byte) /\ Len(s) = (IF a <= b THEN b - a + 1 ELSE 0)
      /\ \A i \in 1..(b - a + 1) : s[i] = raw[a + i - 1]
  BY <1>1, SubSeqProperties
<1>3. /\ t \in Seq(Byte) /\ Len(t) = (IF a <= b THEN b - a + 1 ELSE 0)
      /\ \A i \in 1..(b - a + 1) : t[i] = longer[a + i - 1]
  BY <1>1, SubSeqProperties
<1> HIDE DEF s, t
<1>4. \A i \in 1..Len(t) : t[i] = s[i]
  <2> TAKE i \in 1..Len(t)
  <2>1. i \in 1..(b - a + 1) /\ a + i - 1 \in a..b
    BY <1>3
  <2> QED
    BY <1>1, <1>2, <1>3, <2>1
<1>5. t = s
  BY <1>2, <1>3, <1>4, SeqEqual
<1> QED
  BY <1>5 DEF s, t, longer

IsLonger(longer, raw) ==
  /\ longer \in Seq(Byte) /\ Len(longer) \in Nat
  /\ Len(raw) \in Nat /\ Len(raw) <= Len(longer)
  /\ raw # <<>> => longer # <<>>
  /\ \A i \in 1..Len(raw) : longer[i] = raw[i] /\ raw[i] \in Byte

(* A beginning and what remains after it make the longer bytes.            *)
LEMMA ConcatLonger ==
  ASSUME NEW raw \in Seq(Byte), NEW more \in Seq(Byte)
  PROVE  IsLonger(raw \o more, raw)
<1> HIDE DEF Byte
<1>1. raw \o more \in Seq(Byte) /\ Len(raw \o more) = Len(raw) + Len(more) /\ Len(raw) \in Nat /\ Len(more) \in Nat
  BY ConcatTwo
<1>2. \A i \in 1..Len(raw) : (raw \o more)[i] = raw[i] /\ raw[i] \in Byte
  BY ConcatTwo
<1>3. raw # <<>> => raw \o more # <<>>
  <2> SUFFICES ASSUME raw # <<>>
               PROVE  Len(raw \o more) # 0
    BY EmptySeq
  <2>1. Len(raw) # 0
    BY EmptySeq
  <2> QED
    BY <1>1, <2>1
<1> QED
  BY <1>1, <1>2, <1>3 DEF IsLonger

(* What a reader leaves is longer by what the bytes are longer.            *)
LEMMA LengthensBy ==
  ASSUME NEW reading, NEW longer, NEW more, NEW value, NEW raw \in Seq(Byte), NEW n \in 0..Len(raw),
         more \in Seq(Byte), reading = Reading(value, Drop(raw, n)),
         longer = Reading(value, Drop(raw \o more, n))
  PROVE  Lengthens(reading, longer, more)
<1>1. Drop(raw, n) \in Seq(Byte) /\ Drop(raw \o more, n) = Drop(raw, n) \o more
  BY DropLonger
<1>2. reading.value = value /\ reading.rest = Drop(raw, n)
  BY DEF Reading
<1> QED
  BY <1>1, <1>2 DEF Lengthens

(* A number is read the same from longer bytes.                            *)
LEMMA NumberExtends ==
  ASSUME NEW raw \in Seq(Byte), NEW more \in Seq(Byte), NEW values
  PROVE  Lengthens(NumberDecode(raw, values), NumberDecode(raw \o more, values), more)
<1> DEFINE longer == raw \o more
<1> HIDE DEF Byte
<1>8. IsLonger(longer, raw)
  BY ConcatLonger
<1>0. CASE ~(Len(raw) >= 2 /\ Unsigned(raw) \in values)
  <2>1. ~NumberDecode(raw, values).ok
    BY <1>0 DEF NumberDecode, Refused
  <2> QED
    BY <2>1 DEF Lengthens
<1>1. CASE Len(raw) >= 2 /\ Unsigned(raw) \in values
  <2>1. Len(longer) >= 2 /\ longer[1] = raw[1] /\ longer[2] = raw[2]
    BY <1>1, <1>8 DEF IsLonger
  <2>2. Unsigned(longer) = Unsigned(raw)
    BY <2>1 DEF Unsigned
  <2>3. /\ NumberDecode(raw, values) = Reading(Unsigned(raw), Drop(raw, 2))
        /\ NumberDecode(longer, values) = Reading(Unsigned(raw), Drop(longer, 2))
    BY <1>1, <2>1, <2>2 DEF NumberDecode
  <2>4. 2 \in 0..Len(raw)
    BY <1>1
  <2> QED
    BY <2>3, <2>4, LengthensBy
<1> QED
  BY <1>0, <1>1

(* A signed number is read the same from longer bytes.                     *)
LEMMA SignedExtends ==
  ASSUME NEW raw \in Seq(Byte), NEW more \in Seq(Byte)
  PROVE  Lengthens(SignedDecode(raw), SignedDecode(raw \o more), more)
<1> DEFINE longer == raw \o more
           value == IF raw[1] < 128 THEN Unsigned(raw) ELSE Unsigned(raw) - Word
<1> HIDE DEF Byte
<1>8. IsLonger(longer, raw)
  BY ConcatLonger
<1>0. CASE Len(raw) < 2
  <2>1. ~SignedDecode(raw).ok
    BY <1>0 DEF SignedDecode, Refused
  <2> QED
    BY <2>1 DEF Lengthens
<1>1. CASE ~(Len(raw) < 2)
  <2>1. ~(Len(longer) < 2) /\ longer[1] = raw[1] /\ longer[2] = raw[2] /\ 2 \in 0..Len(raw)
    BY <1>1, <1>8 DEF IsLonger
  <2>2. Unsigned(longer) = Unsigned(raw)
    BY <2>1 DEF Unsigned
  <2>3. SignedDecode(raw) = Reading(value, Drop(raw, 2))
    BY <1>1 DEF SignedDecode
  <2>4. SignedDecode(longer) = Reading(value, Drop(longer, 2))
    BY <2>1, <2>2 DEF SignedDecode
  <2> QED
    BY <2>1, <2>3, <2>4, LengthensBy
<1> QED
  BY <1>0, <1>1

(* A ratio is read the same from longer bytes.                             *)
LEMMA RatioExtends ==
  ASSUME NEW raw \in Seq(Byte), NEW more \in Seq(Byte)
  PROVE  Lengthens(RatioDecode(raw), RatioDecode(raw \o more), more)
<1> DEFINE longer == raw \o more
           value == RatioValue(SubSeq(raw, 1, 3))
<1> HIDE DEF Byte
<1>8. IsLonger(longer, raw)
  BY ConcatLonger
<1>0. CASE Len(raw) < 3 \/ value > 100
  <2>1. ~RatioDecode(raw).ok
    BY <1>0 DEF RatioDecode, Refused
  <2> QED
    BY <2>1 DEF Lengthens
<1>1. CASE ~(Len(raw) < 3) /\ ~(value > 100)
  <2>1. ~(Len(longer) < 3) /\ 3 \in 0..Len(raw)
    BY <1>1, <1>8 DEF IsLonger
  <2>2. SubSeq(longer, 1, 3) = SubSeq(raw, 1, 3)
    BY <2>1, SubSeqLonger
  <2>3. RatioDecode(raw) = Reading(value, Drop(raw, 3))
    BY <1>1 DEF RatioDecode
  <2>4. RatioDecode(longer) = Reading(value, Drop(longer, 3))
    BY <1>1, <2>1, <2>2 DEF RatioDecode
  <2> QED
    BY <2>1, <2>3, <2>4, LengthensBy
<1> QED
  BY <1>0, <1>1

(* A string is read the same from longer bytes.                            *)
LEMMA StringExtends ==
  ASSUME NEW raw \in Seq(Byte), NEW more \in Seq(Byte)
  PROVE  Lengthens(StringDecode(raw), StringDecode(raw \o more), more)
<1> DEFINE longer == raw \o more
           length == raw[1]
           text == SubSeq(raw, 2, length + 1)
           value == IF length = 0 THEN <<>> ELSE SubSeq(text, 1, FirstZero(text) - 1)
<1> HIDE DEF Byte
<1>8. IsLonger(longer, raw)
  BY ConcatLonger
<1>0. CASE raw = <<>> \/ Len(raw) - 1 < length \/ (length # 0 /\ 0 \notin Range(text))
  <2>1. ~StringDecode(raw).ok
    BY <1>0 DEF StringDecode, Refused
  <2> QED
    BY <2>1 DEF Lengthens
<1>1. CASE ~(raw = <<>> \/ Len(raw) - 1 < length \/ (length # 0 /\ 0 \notin Range(text)))
  <2>1. Len(raw) \in Nat /\ Len(raw) >= 1
    BY <1>1, EmptySeq
  <2>2. longer # <<>> /\ longer[1] = length /\ length \in Byte
    BY <1>1, <1>8, <2>1 DEF IsLonger
  <2>3. length \in Nat
    BY <2>2, Bytes
  <2>4. ~(Len(longer) - 1 < length)
    BY <1>1, <2>1, <1>8, <2>3 DEF IsLonger
  <2>5. length + 1 \in 0..Len(raw) /\ (length = 0 => length + 1 = 1)
    BY <1>1, <2>1, <2>3
  <2>6. SubSeq(longer, 2, longer[1] + 1) = text
    BY <2>2, <2>5, SubSeqLonger
  <2> HIDE DEF length
  <2>7. StringDecode(raw) = Reading(value, Drop(raw, length + 1))
    BY <1>1, <2>5 DEF StringDecode, length
  <2>8. StringDecode(longer) = Reading(value, Drop(longer, length + 1))
    <3> HIDE DEF text, longer
    <3>1. StringDecode(longer) =
            IF longer = <<>> \/ Len(longer) - 1 < longer[1] THEN Refused
            ELSE IF longer[1] = 0 THEN Reading(<<>>, Drop(longer, 1))
            ELSE IF 0 \notin Range(text) THEN Refused
            ELSE Reading(SubSeq(text, 1, FirstZero(text) - 1), Drop(longer, longer[1] + 1))
      BY <2>6, Zenon DEF StringDecode
    <3> QED
      BY <1>1, <2>2, <2>4, <2>5, <3>1, Zenon
  <2> QED
    BY <2>5, <2>7, <2>8, LengthensBy
<1> QED
  BY <1>0, <1>1

(* A list is read the same from longer bytes if its records are.           *)
LEMMA ListExtends ==
  ASSUME NEW listed, Extends(listed), NEW raw \in Seq(Byte), NEW more \in Seq(Byte)
  PROVE  Lengthens(ListDecode(listed, raw), ListDecode(listed, raw \o more), more)
<1> DEFINE longer == raw \o more
           n == Unsigned(raw)
           readers == [i \in 1..n |-> listed]
           tail == Drop(raw, 2)
<1> HIDE DEF Byte
<1>8. IsLonger(longer, raw)
  BY ConcatLonger
<1>0. CASE Len(raw) < 2
  <2>1. ~ListDecode(listed, raw).ok
    BY <1>0 DEF ListDecode, Refused
  <2> QED
    BY <2>1 DEF Lengthens
<1>1. CASE ~(Len(raw) < 2)
  <2>1. /\ ~(Len(longer) < 2) /\ longer[1] = raw[1] /\ longer[2] = raw[2] /\ 2 \in 0..Len(raw)
        /\ raw[1] \in Byte /\ raw[2] \in Byte
    BY <1>1, <1>8 DEF IsLonger
  <2>2. Unsigned(longer) = n /\ n \in Nat
    BY <2>1, Bytes DEF Unsigned
  <2>3. Drop(longer, 2) = tail \o more /\ tail \in Seq(Byte)
    BY <2>1, DropLonger
  <2> HIDE DEF tail, longer, n
  <2>4. ListDecode(listed, raw) = InTurn(readers, tail)
    BY <1>1, Zenon DEF ListDecode, n, tail
  <2>5. ListDecode(listed, longer) = InTurn(readers, tail \o more)
    BY <2>1, <2>2, <2>3, Zenon DEF ListDecode
  <2>6. Len(readers) \in Nat /\ \A i \in 1..Len(readers) : Extends(readers[i])
    BY <2>2
  <2> HIDE DEF readers
  <2>7. Lengthens(InTurn(readers, tail), InTurn(readers, tail \o more), more)
    BY <2>3, <2>6, InTurnExtends
  <2> QED
    BY <2>4, <2>5, <2>7 DEF longer
<1> QED
  BY <1>0, <1>1

(* A field of any plain kind is read the same from longer bytes.           *)
LEMMA FieldExtends ==
  ASSUME NEW field, field.is \in FieldKinds, NEW listed, field.is = "list" => Extends(listed)
  PROVE  Extends(FieldReader(field, listed))
<1> HIDE DEF Byte
<1> SUFFICES ASSUME NEW raw \in Seq(Byte), NEW more \in Seq(Byte)
             PROVE  Lengthens(FieldReader(field, listed)[raw],
                              FieldReader(field, listed)[raw \o more], more)
  BY DEF Extends
<1> DEFINE longer == raw \o more
<1>1. longer \in Seq(Byte)
  BY ConcatTwo
<1>2. Lengthens(NumberDecode(raw, field.values), NumberDecode(longer, field.values), more)
  BY NumberExtends
<1>3. Lengthens(SignedDecode(raw), SignedDecode(longer), more)
  BY SignedExtends
<1>4. Lengthens(StringDecode(raw), StringDecode(longer), more)
  BY StringExtends
<1>5. Lengthens(RatioDecode(raw), RatioDecode(longer), more)
  BY RatioExtends
<1>6. field.is = "list" => Lengthens(ListDecode(listed, raw), ListDecode(listed, longer), more)
  BY ListExtends
<1> HIDE DEF longer
<1> DEFINE Of(all) == FieldReader(field, listed)[all]
<1>7. ASSUME NEW all \in Seq(Byte)
      PROVE  /\ field.is = "number" => Of(all) = NumberDecode(all, field.values)
             /\ field.is = "signed" => Of(all) = SignedDecode(all)
             /\ field.is = "text" => Of(all) = StringDecode(all)
             /\ field.is = "ratio" => Of(all) = RatioDecode(all)
             /\ field.is = "list" => Of(all) = ListDecode(listed, all)
  BY DEF FieldReader
<1>8. Lengthens(Of(raw), Of(longer), more)
  <2> HIDE DEF Of
  <2>1. field.is = "number" \/ field.is = "signed" \/ field.is = "text" \/ field.is = "ratio" \/ field.is = "list"
    BY DEF FieldKinds
  <2> QED
    BY <1>1, <1>2, <1>3, <1>4, <1>5, <1>6, <1>7, <2>1
<1> QED
  BY <1>8 DEF longer

(* A record is read the same from longer bytes if its fields are.          *)
LEMMA RecordExtends ==
  ASSUME NEW readers, Len(readers) \in Nat, \A i \in 1..Len(readers) : Extends(readers[i])
  PROVE  Extends([raw \in Seq(Byte) |-> InTurn(readers, raw)])
<1> DEFINE reader == [raw \in Seq(Byte) |-> InTurn(readers, raw)]
<1> HIDE DEF Byte
<1>1. \A raw \in Seq(Byte) : reader[raw] = InTurn(readers, raw)
  OBVIOUS
<1> HIDE DEF reader
<1> SUFFICES ASSUME NEW raw \in Seq(Byte), NEW more \in Seq(Byte)
             PROVE  Lengthens(reader[raw], reader[raw \o more], more)
  BY DEF Extends, reader
<1>2. raw \o more \in Seq(Byte)
  BY ConcatTwo
<1>3. Lengthens(InTurn(readers, raw), InTurn(readers, raw \o more), more)
  BY InTurnExtends
<1> QED
  BY <1>1, <1>2, <1>3, Zenon

(* A record without lists is read the same from longer bytes.              *)
LEMMA FlatExtends ==
  ASSUME NEW layout, FlatLayout(layout)
  PROVE  Extends(FlatReader(layout))
<1> DEFINE readers == [i \in DOMAIN layout |-> FieldReader(layout[i], NoReader(layout[i].of))]
<1>1. Len(layout) \in Nat /\ DOMAIN layout = 1..Len(layout)
  BY DEF FlatLayout, IsLayout
<1>2. Len(readers) = Len(layout)
  BY <1>1
<1>3. ASSUME NEW i \in 1..Len(layout)
      PROVE  Extends(readers[i])
  <2>1. layout[i].is \in FieldKinds /\ layout[i].is # "list"
    BY <1>1 DEF FlatLayout, PlainField
  <2>2. readers[i] = FieldReader(layout[i], NoReader(layout[i].of))
    BY <1>1
  <2> HIDE DEF readers
  <2> QED
    BY <2>1, <2>2, FieldExtends
<1>4. FlatReader(layout) = [raw \in Seq(Byte) |-> InTurn(readers, raw)]
  BY Zenon DEF FlatReader, RecordReader
<1> HIDE DEF readers
<1> QED
  BY <1>1, <1>2, <1>3, <1>4, RecordExtends

(* A record is, whose lists hold records without lists.                    *)
LEMMA NestedExtends ==
  ASSUME NEW layout, NestedLayout(layout)
  PROVE  Extends(NestedReader(layout))
<1> DEFINE readers == [i \in DOMAIN layout |-> FieldReader(layout[i], FlatReader(layout[i].of))]
<1>1. Len(layout) \in Nat /\ DOMAIN layout = 1..Len(layout)
  BY DEF NestedLayout, IsLayout
<1>2. Len(readers) = Len(layout)
  BY <1>1
<1>3. ASSUME NEW i \in 1..Len(layout)
      PROVE  Extends(readers[i])
  <2>1. layout[i].is \in FieldKinds /\ (layout[i].is = "list" => FlatLayout(layout[i].of))
    BY <1>1 DEF NestedLayout, PlainField
  <2>2. readers[i] = FieldReader(layout[i], FlatReader(layout[i].of))
    BY <1>1
  <2> HIDE DEF readers
  <2> QED
    BY <2>1, <2>2, FlatExtends, FieldExtends
<1>4. NestedReader(layout) = [raw \in Seq(Byte) |-> InTurn(readers, raw)]
  BY Zenon DEF NestedReader, RecordReader
<1> HIDE DEF readers
<1> QED
  BY <1>1, <1>2, <1>3, <1>4, RecordExtends

(* The user data say how long they are, which is as long as what is left.  *)
LEMMA DataNoBeginning ==
  ASSUME NEW field, field.is = "data", NEW listed
  PROVE  NoBeginning(FieldReader(field, listed))
<1> DEFINE reader == FieldReader(field, listed)
<1> HIDE DEF Byte
<1>1. \A raw \in Seq(Byte) : reader[raw] = UserDataDecode(raw)
  BY DEF FieldReader
<1> HIDE DEF reader
<1>2. \A raw \in Seq(Byte) : Whole(reader[raw]) => raw # <<>> /\ Len(raw) - 1 = raw[1]
  BY <1>1 DEF Whole, UserDataDecode, Refused
<1> SUFFICES ASSUME NEW raw \in Seq(Byte), NEW more \in Seq(Byte),
                    Whole(reader[raw]), Whole(reader[raw \o more])
             PROVE  more = <<>>
  BY DEF NoBeginning, reader
<1> DEFINE longer == raw \o more
<1>3. longer \in Seq(Byte) /\ Len(longer) = Len(raw) + Len(more)
  BY ConcatTwo
<1>4. IsLonger(longer, raw)
  BY ConcatLonger
<1>5. Len(raw) - 1 = raw[1] /\ Len(longer) - 1 = longer[1] /\ Len(raw) >= 1
  <2>1. raw # <<>> /\ Len(raw) - 1 = raw[1]
    BY <1>2
  <2>2. Len(longer) - 1 = longer[1]
    BY <1>2, <1>3 DEF longer
  <2>3. Len(raw) \in Nat /\ Len(raw) # 0
    BY <2>1, EmptySeq
  <2> QED
    BY <2>1, <2>2, <2>3
<1>6. longer[1] = raw[1]
  BY <1>4, <1>5 DEF IsLonger, longer
<1>7. Len(more) = 0
  BY <1>3, <1>5, <1>6 DEF longer
<1> QED
  BY <1>7, EmptySeq

(* The fields of a file are not the beginning of those of another one.     *)
LEMMA FileNoBeginning ==
  ASSUME NEW layout, FileLayout(layout)
  PROVE  NoBeginning(Reader(layout))
<1> DEFINE n == Len(layout)
           readers == [i \in DOMAIN layout |-> FieldReader(layout[i], NestedReader(layout[i].of))]
<1>1. n \in Nat \ {0} /\ DOMAIN layout = 1..n
  BY DEF FileLayout, IsLayout
<1>2. Len(readers) = n
  BY <1>1
<1>3. \A i \in 1..n : readers[i] = FieldReader(layout[i], NestedReader(layout[i].of))
  BY <1>1
<1>4. Reader(layout) = [raw \in Seq(Byte) |-> InTurn(readers, raw)]
  BY Zenon DEF Reader, RecordReader
<1> HIDE DEF readers
<1>5. ASSUME NEW i \in 1..n, PlainField(layout[i]), layout[i].is = "list" => NestedLayout(layout[i].of)
      PROVE  Extends(readers[i])
  BY <1>3, <1>5, NestedExtends, FieldExtends DEF PlainField
<1>6. \A i \in 1..(n - 1) : Extends(readers[i])
  BY <1>1, <1>5 DEF FileLayout
<1>7. NoBeginning(readers[n])
  <2>1. n \in 1..n
    BY <1>1
  <2>2. CASE PlainField(layout[n]) /\ (layout[n].is = "list" => NestedLayout(layout[n].of))
    BY <1>5, <2>1, <2>2, ExtendsNoBeginning
  <2>3. CASE layout[n].is = "data"
    BY <1>3, <2>1, <2>3, DataNoBeginning
  <2> QED
    BY <1>1, <2>1, <2>2, <2>3 DEF FileLayout
<1> DEFINE reader == [raw \in Seq(Byte) |-> InTurn(readers, raw)]
<1> HIDE DEF Byte
<1>8. \A raw \in Seq(Byte) : reader[raw] = InTurn(readers, raw)
  OBVIOUS
<1> HIDE DEF reader, n
<1> SUFFICES ASSUME NEW raw \in Seq(Byte), NEW more \in Seq(Byte),
                    Whole(reader[raw]), Whole(reader[raw \o more])
             PROVE  more = <<>>
  BY <1>4 DEF NoBeginning, reader
<1>9. raw \o more \in Seq(Byte)
  BY ConcatTwo
<1>10. Whole(InTurn(readers, raw)) /\ Whole(InTurn(readers, raw \o more))
  BY <1>8, <1>9
<1> QED
  BY <1>1, <1>2, <1>6, <1>7, <1>10, InTurnNoBeginning

-----------------------------------------------------------------------------
(* The layouts of the files.                                               *)

(* The codes have 16 bits.                                                 *)
LEMMA Codes16 == Code.values \subseteq 0..(Word - 1) /\ Acceptance.values \subseteq 0..(Word - 1)
<1>1. \A n \in {1, 2, 3, 4, 4096, 4098, 4099, 4100, 4101, 4103} : n \in Nat /\ n < Word
  BY SMT DEF Word
<1> QED
  BY <1>1, Words DEF Code, Acceptance, Number

(* The fields of the layouts, but for the data at an end.                  *)
LEMMA PlainFields ==
  /\ \A field \in {Text, Ratio, Signed, UInt16, Code, Acceptance} :
       PlainField(field) /\ field.is # "list"
  /\ \A layout : PlainField(ListOf(layout)) /\ ListOf(layout).is = "list" /\ ListOf(layout).of = layout
<1>1. \A field \in {Text, Ratio, Signed} : PlainField(field) /\ field.is # "list"
  BY DEF PlainField, FieldKinds, Text, Ratio, Signed
<1>2. PlainField(UInt16) /\ UInt16.is # "list"
  BY DEF PlainField, FieldKinds, UInt16, Number
<1>3. PlainField(Code) /\ Code.is # "list"
  <2>1. Code.is = "number"
    BY DEF Code, Number
  <2> QED
    BY <2>1, Codes16 DEF PlainField, FieldKinds
<1>4. PlainField(Acceptance) /\ Acceptance.is # "list"
  <2>1. Acceptance.is = "number"
    BY DEF Acceptance, Number
  <2> QED
    BY <2>1, Codes16 DEF PlainField, FieldKinds
<1>5. \A layout : PlainField(ListOf(layout)) /\ ListOf(layout).is = "list" /\ ListOf(layout).of = layout
  BY DEF PlainField, FieldKinds, ListOf
<1> QED
  BY <1>1, <1>2, <1>3, <1>4, <1>5

(* The layouts of records without lists.                                   *)
LEMMA FlatLayouts ==
  \A layout \in {PartNumber, <<Text, Text>>, UploadLoadStatus, <<Text>>, DownloadFileStatus} :
    FlatLayout(layout)
<1> HIDE DEF PlainField, Text, Ratio, Code
<1>1. FlatLayout(PartNumber)
  BY PlainFields DEF FlatLayout, IsLayout, PartNumber
<1>2. FlatLayout(<<Text, Text>>)
  BY PlainFields DEF FlatLayout, IsLayout
<1>3. FlatLayout(UploadLoadStatus)
  BY PlainFields DEF FlatLayout, IsLayout, UploadLoadStatus
<1>4. FlatLayout(<<Text>>)
  BY PlainFields DEF FlatLayout, IsLayout
<1>5. FlatLayout(DownloadFileStatus)
  BY PlainFields DEF FlatLayout, IsLayout, DownloadFileStatus
<1> QED
  BY <1>1, <1>2, <1>3, <1>4, <1>5

(* A record without lists may stand where lists are allowed.               *)
LEMMA FlatNested ==
  ASSUME NEW layout, FlatLayout(layout)
  PROVE  NestedLayout(layout)
BY DEF FlatLayout, NestedLayout

(* The layouts of the records that files list.                             *)
LEMMA NestedLayouts ==
  \A layout \in {<<Text, Text, ListOf(PartNumber)>>, <<Text, Text>>, UploadLoadStatus, <<Text>>,
                 DownloadFileStatus} :
    NestedLayout(layout)
<1>1. NestedLayout(<<Text, Text, ListOf(PartNumber)>>)
  <2> DEFINE parts == ListOf(PartNumber)
  <2>1. PlainField(parts) /\ FlatLayout(parts.of)
    BY PlainFields, FlatLayouts
  <2> HIDE DEF parts
  <2> QED
    BY <2>1, PlainFields DEF NestedLayout, IsLayout, parts
<1> QED
  BY <1>1, FlatLayouts, FlatNested

(* The layouts of all files are of the form that is read back.             *)
LEMMA FileLayouts == \A type \in Types : FileLayout(FileTypes[type])
<1>1. FileLayout(InitializationFile)
  BY PlainFields DEF FileLayout, IsLayout, InitializationFile
<1>2. ASSUME NEW layout \in {<<Text, Text, ListOf(PartNumber)>>, <<Text, Text>>, <<Text>>}
      PROVE  FileLayout(<<ListOf(layout)>>)
  <2>1. PlainField(ListOf(layout)) /\ NestedLayout(ListOf(layout).of)
    BY PlainFields, NestedLayouts
  <2> QED
    BY <2>1 DEF FileLayout, IsLayout
<1>3. FileLayout(InformationOperationStatusFile)
  BY PlainFields DEF FileLayout, IsLayout, InformationOperationStatusFile
<1>4. ASSUME NEW layout \in {UploadLoadStatus, DownloadFileStatus}
      PROVE  FileLayout(<<Code, Text, UInt16, UInt16, Signed, Ratio, ListOf(layout)>>)
  <2>1. PlainField(ListOf(layout)) /\ NestedLayout(ListOf(layout).of)
    BY PlainFields, NestedLayouts
  <2> QED
    BY <2>1, PlainFields DEF FileLayout, IsLayout
<1>5. FileLayout(DownloadOperationRequestFile)
  <2>1. PlainField(ListOf(<<Text>>)) /\ NestedLayout(ListOf(<<Text>>).of) /\ UserData.is = "data"
    BY PlainFields, NestedLayouts DEF UserData
  <2> QED
    BY <2>1, PlainFields DEF FileLayout, IsLayout, DownloadOperationRequestFile
<1> QED
  BY <1>1, <1>2, <1>3, <1>4, <1>5
     DEF Types, Extension, FileTypes, LoadConfigurationListFile, UploadOperationRequestFile,
         UploadOperationStatusFile, DownloadOperationListFile, DownloadOperationAnswerFile,
         DownloadOperationStatusFile

-----------------------------------------------------------------------------
(* The header.                                                             *)

(* Int16 writes two bytes.                                                 *)
LEMMA TwoBytes ==
  ASSUME NEW n \in Nat
  PROVE  Int16(n) \in Seq(Byte) /\ Len(Int16(n)) = 2
<1> DEFINE number == n % Word
<1>1. number \in Int /\ -HalfWord <= number /\ number < Word /\ number % Word = number
  BY SMT DEF Word, HalfWord
<1>2. n % 256 \in Int /\ 0 <= n % 256 /\ n % 256 < 256
  BY SMT
<1>3. number \div 256 \in Byte /\ n % 256 \in Byte
  <2> HIDE DEF number
  <2>1. (number % Word) \div 256 \in Byte
    BY <1>1, Int16Bytes
  <2> QED
    BY <1>1, <1>2, <2>1, Bytes
<1>4. Int16(n) = <<number \div 256, n % 256>>
  BY DEF Int16
<1> HIDE DEF number, Byte
<1> DEFINE hi == number \div 256
           lo == n % 256
<1>5. hi \in Byte /\ lo \in Byte /\ Int16(n) = <<hi, lo>>
  BY <1>3, <1>4
<1> HIDE DEF hi, lo
<1> QED
  BY <1>5

(* The two halves of a size of 32 bits.                                    *)
LEMMA Halves ==
  ASSUME NEW n \in Nat
  PROVE  /\ n \div Word \in Nat /\ n % Word \in Nat /\ n % Word < Word
         /\ n = Word * (n \div Word) + (n % Word)
BY SMT DEF Word

(* Int32 writes four.                                                      *)
LEMMA FourBytes ==
  ASSUME NEW n \in Nat
  PROVE  Int32(n) \in Seq(Byte) /\ Len(Int32(n)) = 4
<1> DEFINE high == Int16(n \div Word)
           low == Int16(n % Word)
<1>1. n \div Word \in Nat /\ n % Word \in Nat
  BY Halves
<1>2. high \in Seq(Byte) /\ Len(high) = 2 /\ low \in Seq(Byte) /\ Len(low) = 2
  BY <1>1, TwoBytes
<1>3. Int32(n) = high \o low
  BY DEF Int32
<1> HIDE DEF high, low, Byte
<1>4. high \o low \in Seq(Byte) /\ Len(high \o low) = Len(high) + Len(low)
  BY <1>2, ConcatTwo
<1> QED
  BY <1>2, <1>3, <1>4

(* What Int16 writes are the bytes of one number of 16 bits only.          *)
LEMMA Int16Same ==
  ASSUME NEW m \in Nat, NEW n \in Nat, m < Word, n < Word, Int16(m) = Int16(n)
  PROVE  m = n
<1>1. -HalfWord <= m /\ -HalfWord <= n /\ m % Word = m /\ n % Word = n
  BY Words, Modulo
<1> HIDE DEF Byte
<1> DEFINE rest == <<>>
<1>2. rest \in Seq(Byte)
  BY EmptySeq
<1> HIDE DEF rest
<1>3. Unsigned(Int16(m) \o rest) = m % Word
  BY <1>1, <1>2, Int16Reads
<1>4. Unsigned(Int16(n) \o rest) = n % Word
  BY <1>1, <1>2, Int16Reads
<1> QED
  BY <1>1, <1>3, <1>4

(* The versions have 16 bits.                                              *)
LEMMA VersionsFit == \A version \in Versions : version \in Nat /\ version < Word
BY DEF Versions, Word

(* What WithHeader writes in front of the fields is accepted.              *)
LEMMA HeaderIs ==
  ASSUME NEW version \in Versions, NEW fields \in Seq(Byte)
  PROVE  /\ WithHeader(version, fields) \in Seq(Byte)
         /\ Len(WithHeader(version, fields)) = HeaderSize + Len(fields)
         /\ Drop(WithHeader(version, fields), HeaderSize) = fields
         /\ Unsigned(Drop(WithHeader(version, fields), 4)) = version
         /\ HeaderAccepted(WithHeader(version, fields))
<1> DEFINE size == HeaderSize + Len(fields)
           first == Int32(size)
           second == Int16(version)
           header == first \o second
           raw == header \o fields
<1> HIDE DEF Byte
<1>1. size \in Nat /\ Len(fields) \in Nat
  BY DEF HeaderSize
<1>2. first \in Seq(Byte) /\ Len(first) = 4
  BY <1>1, FourBytes
<1>3. second \in Seq(Byte) /\ Len(second) = 2
  BY VersionsFit, TwoBytes
<1>4. WithHeader(version, fields) = raw
  BY DEF WithHeader
<1>5. -HalfWord <= version /\ version \in Int /\ version < Word /\ version % Word = version
  BY VersionsFit, Words, Modulo
<1>6. second \o fields \in Seq(Byte) /\ Unsigned(second \o fields) = version
  BY <1>5, Int16Reads
<1> HIDE DEF first, second
<1>7. header \in Seq(Byte) /\ Len(header) = 6
  <2>1. header \in Seq(Byte) /\ Len(header) = Len(first) + Len(second)
    BY <1>2, <1>3, ConcatTwo
  <2> QED
    BY <1>2, <1>3, <2>1
<1>8. raw = first \o (second \o fields)
  <2>1. first \in Seq(Byte) /\ second \in Seq(Byte)
    BY <1>2, <1>3
  <2> QED
    BY <2>1, ConcatBytes
<1> HIDE DEF header
<1>9. raw \in Seq(Byte) /\ Len(raw) = 6 + Len(fields) /\ Drop(raw, 6) = fields
  <2>1. raw \in Seq(Byte) /\ Len(raw) = Len(header) + Len(fields)
    BY <1>7, ConcatTwo
  <2>2. Drop(raw, Len(header)) = fields
    BY <1>7, DropConcat
  <2> QED
    BY <1>7, <2>1, <2>2
<1>10. SubSeq(raw, 1, 4) = first /\ Drop(raw, 4) = second \o fields
  BY <1>2, <1>6, <1>8, PrefixConcat, DropConcat
<1> HIDE DEF raw
<1>11. Len(raw) = size
  BY <1>9 DEF HeaderSize
<1>12. HeaderAccepted(raw)
  <2>1. first = Int32(Len(raw))
    BY <1>11, Zenon DEF first
  <2>2. Len(raw) >= HeaderSize
    BY <1>1, <1>9 DEF HeaderSize
  <2>3. Unsigned(Drop(raw, 4)) \in Versions
    BY <1>6, <1>10
  <2> QED
    BY <1>10, <2>1, <2>2, <2>3, Zenon DEF HeaderAccepted
<1> QED
  BY <1>4, <1>6, <1>9, <1>10, <1>12 DEF HeaderSize

-----------------------------------------------------------------------------
(* Files.                                                                  *)

(* A file whose fields are read as a whole is decoded.                     *)
LEMMA DecodeIs ==
  ASSUME NEW type, NEW version \in Versions, NEW fields \in Seq(Byte), NEW value,
         Len(WithHeader(version, fields)) >= MinimumSize(type),
         Reader(FileTypes[type])[fields] = Reading(value, <<>>)
  PROVE  Decode(type, WithHeader(version, fields)) = File(version, value)
<1> DEFINE raw == WithHeader(version, fields)
           reading == Reader(FileTypes[type])[Drop(raw, HeaderSize)]
           size == Len(raw)
           minimum == MinimumSize(type)
<1>1. /\ Drop(raw, HeaderSize) = fields /\ Unsigned(Drop(raw, 4)) = version
      /\ HeaderAccepted(raw)
  BY HeaderIs
<1>2. reading = Reading(value, <<>>)
  BY <1>1
<1>3. reading.ok /\ reading.rest = <<>> /\ reading.value = value
  BY <1>2 DEF Reading
<1>4. ~(size < minimum)
  <2>1. size \in Nat
    BY HeaderIs
  <2>2. minimum \in Nat
    BY DEF MinimumSize, HeaderSize
  <2> HIDE DEF size, minimum
  <2> QED
    BY <2>1, <2>2 DEF size, minimum
<1>5. Decode(type, raw) =
        IF size < minimum \/ ~HeaderAccepted(raw) THEN Refused
        ELSE IF reading.ok /\ reading.rest = <<>> THEN File(Unsigned(Drop(raw, 4)), reading.value)
        ELSE Refused
  BY Zenon DEF Decode
<1> HIDE DEF raw, reading, size, minimum
<1> QED
  BY <1>1, <1>3, <1>4, <1>5 DEF raw

(* A file that is decoded has fields that are read as a whole.             *)
LEMMA DecodeOk ==
  ASSUME NEW type, NEW raw, Decode(type, raw).ok
  PROVE  HeaderAccepted(raw) /\ Whole(Reader(FileTypes[type])[Drop(raw, HeaderSize)])
<1> DEFINE reading == Reader(FileTypes[type])[Drop(raw, HeaderSize)]
           short == Len(raw) < MinimumSize(type)
<1>1. Decode(type, raw) =
        IF short \/ ~HeaderAccepted(raw) THEN Refused
        ELSE IF reading.ok /\ reading.rest = <<>> THEN File(Unsigned(Drop(raw, 4)), reading.value)
        ELSE Refused
  BY Zenon DEF Decode
<1> HIDE DEF reading, short
<1>2. HeaderAccepted(raw) /\ reading.ok /\ reading.rest = <<>>
  BY <1>1 DEF Refused
<1> QED
  BY <1>2 DEF Whole, reading

(* Bytes are what they begin with and what remains.                        *)
LEMMA SplitAt ==
  ASSUME NEW s \in Seq(Byte), NEW n \in 0..Len(s)
  PROVE  /\ SubSeq(s, 1, n) \in Seq(Byte) /\ Len(SubSeq(s, 1, n)) = n
         /\ Drop(s, n) \in Seq(Byte) /\ Len(Drop(s, n)) = Len(s) - n
         /\ SubSeq(s, 1, n) \o Drop(s, n) = s
<1> DEFINE p == SubSeq(s, 1, n)
           d == Drop(s, n)
           c == p \o d
           l == Len(s)
<1> HIDE DEF Byte
<1>1. l \in Nat /\ n \in Nat /\ n <= l /\ \A i \in 1..l : s[i] \in Byte
  OBVIOUS
<1>2. p \in Seq(Byte) /\ Len(p) = n /\ \A i \in 1..n : p[i] = s[i]
  BY <1>1, SubSeqProperties
<1>3. d \in Seq(Byte) /\ Len(d) = l - n /\ \A i \in 1..(l - n) : d[i] = s[n + i]
  <2>1. \A i \in (n + 1)..l : s[i] \in Byte
    BY <1>1
  <2>2. d = SubSeq(s, n + 1, l)
    BY DEF Drop
  <2> DEFINE t == SubSeq(s, n + 1, l)
  <2>3. /\ t \in Seq(Byte) /\ Len(t) = (IF n + 1 <= l THEN l - (n + 1) + 1 ELSE 0)
        /\ \A i \in 1..(l - (n + 1) + 1) : t[i] = s[n + 1 + i - 1]
    BY <1>1, <2>1, SubSeqProperties
  <2> HIDE DEF t, d, l
  <2>4. /\ t \in Seq(Byte) /\ Len(t) = l - n
        /\ \A i \in 1..(l - n) : t[i] = s[n + i]
    BY <1>1, <2>3
  <2> QED
    BY <2>2, <2>4 DEF t, l
<1> HIDE DEF p, d
<1>4. /\ c \in Seq(Byte) /\ Len(c) = Len(p) + Len(d)
      /\ \A i \in 1..(Len(p) + Len(d)) : c[i] = IF i <= Len(p) THEN p[i] ELSE d[i - Len(p)]
  BY <1>2, <1>3, ConcatTwo
<1> HIDE DEF c
<1>5. Len(c) = l
  BY <1>1, <1>2, <1>3, <1>4
<1>6. \A i \in 1..Len(c) : c[i] = s[i]
  BY <1>1, <1>2, <1>3, <1>4, <1>5
<1>7. c = s
  BY <1>4, <1>5, <1>6, SeqEqual
<1> QED
  BY <1>2, <1>3, <1>7 DEF p, d, c

(* A size and a larger one, by less than 32 bits can tell, differ in the   *)
(* header.                                                                 *)
LEMMA Int16Remainder ==
  ASSUME NEW m \in Nat, NEW n \in Nat, Int16(m) = Int16(n)
  PROVE  m % Word = n % Word
<1>1. Int16(m % Word) = Int16(m) /\ Int16(n % Word) = Int16(n)
  <2>1. \A k \in Nat : (k % Word) % Word = k % Word /\ (k % Word) % 256 = k % 256
    BY SMT DEF Word
  <2> QED
    BY <2>1 DEF Int16
<1>2. m % Word \in Nat /\ m % Word < Word /\ n % Word \in Nat /\ n % Word < Word
  BY Halves
<1> QED
  BY <1>1, <1>2, Int16Same

(* Two sizes that fit, of which one is told for the other, are the same.   *)
LEMMA SizeTold ==
  ASSUME NEW n \in Nat, SizeFits(n), NEW t \in Nat, SizeFits(t), Int32(n) = Int32(n + t)
  PROVE  t = 0
<1> DEFINE m == n + t
           mHigh == m \div Word
           mLow == m % Word
           nHigh == n \div Word
           nLow == n % Word
<1>0. m \in Nat
  OBVIOUS
<1>1. mHigh \in Nat /\ mLow \in Nat /\ mLow < Word /\ m = Word * mHigh + mLow
  BY <1>0, Halves
<1>2. nHigh \in Nat /\ nLow \in Nat /\ nLow < Word /\ n = Word * nHigh + nLow
  BY Halves
<1>3. nHigh < Word /\ t \div Word < Word
  BY DEF SizeFits
<1>4. Int16(nHigh) \o Int16(nLow) = Int16(mHigh) \o Int16(mLow)
  BY DEF Int32
<1> HIDE DEF mHigh, mLow, nHigh, nLow, Byte
<1>5. /\ Int16(mHigh) \in Seq(Byte) /\ Len(Int16(mHigh)) = 2
      /\ Int16(mLow) \in Seq(Byte)
      /\ Int16(nHigh) \in Seq(Byte) /\ Len(Int16(nHigh)) = 2
      /\ Int16(nLow) \in Seq(Byte)
  BY <1>1, <1>2, TwoBytes
<1>6. Int16(mHigh) = Int16(nHigh)
  <2>1. SubSeq(Int16(mHigh) \o Int16(mLow), 1, 2) = Int16(mHigh)
    BY <1>5, PrefixConcat
  <2>2. SubSeq(Int16(nHigh) \o Int16(nLow), 1, 2) = Int16(nHigh)
    BY <1>5, PrefixConcat
  <2> QED
    BY <1>4, <2>1, <2>2
<1>7. Int16(mLow) = Int16(nLow)
  <2>1. Drop(Int16(mHigh) \o Int16(mLow), 2) = Int16(mLow)
    BY <1>5, DropConcat
  <2>2. Drop(Int16(nHigh) \o Int16(nLow), 2) = Int16(nLow)
    BY <1>5, DropConcat
  <2> QED
    BY <1>4, <2>1, <2>2
<1>8. mLow = nLow
  BY <1>1, <1>2, <1>7, Int16Same
<1>9. mHigh % Word = nHigh % Word
  BY <1>1, <1>2, <1>6, Int16Remainder
<1>10. m = n + t
  OBVIOUS
<1> HIDE DEF m
<1>11. mHigh = nHigh
  BY <1>1, <1>2, <1>3, <1>8, <1>9, <1>10, SMT DEF Word
<1> QED
  BY <1>1, <1>2, <1>8, <1>10, <1>11

(* A smaller size fits.                                                    *)
LEMMA SmallerFits ==
  ASSUME NEW m \in Nat, NEW n \in Nat, m <= n, SizeFits(n)
  PROVE  SizeFits(m)
<1>1. m \div Word <= n \div Word
  BY SMT DEF Word
<1>2. m \div Word \in Nat /\ n \div Word \in Nat
  BY Halves
<1> QED
  BY <1>1, <1>2, Words DEF SizeFits

(* Nothing that begins with an accepted file is one.                       *)
LEMMA OneSize ==
  ASSUME NEW raw \in Seq(Byte), NEW more \in Seq(Byte), SizeFits(Len(raw)), SizeFits(Len(more)),
         HeaderAccepted(raw), HeaderAccepted(raw \o more)
  PROVE  more = <<>>
<1> DEFINE longer == raw \o more
<1> HIDE DEF Byte
<1>1. Len(longer) = Len(raw) + Len(more) /\ Len(raw) \in Nat /\ Len(more) \in Nat
  BY ConcatTwo
<1>2. Len(raw) >= 6
  BY DEF HeaderAccepted, HeaderSize
<1>3. SubSeq(longer, 1, 4) = SubSeq(raw, 1, 4)
  <2>1. 4 \in 0..Len(raw) /\ 1 \in Nat \ {0}
    BY <1>1, <1>2
  <2> QED
    BY <2>1, SubSeqLonger
<1>4. SubSeq(longer, 1, 4) = Int32(Len(longer)) /\ SubSeq(raw, 1, 4) = Int32(Len(raw))
  BY DEF HeaderAccepted
<1> HIDE DEF longer
<1>5. Len(more) = 0
  BY <1>1, <1>3, <1>4, SizeTold
<1> QED
  BY <1>5, EmptySeq

(* What is encoded is decoded again.                                       *)
LEMMA FieldsReadBack ==
  ASSUME NEW type \in Types, NEW value, IsValue(FileTypes[type], value),
         NEW writer, IsPeer(writer), Fits(FileTypes[type], value, writer)
  PROVE  /\ Fields(FileTypes[type], value, writer) \in Seq(Byte)
         /\ Reader(FileTypes[type])[Fields(FileTypes[type], value, writer)] = Reading(value, <<>>)
<1> DEFINE layout == FileTypes[type]
           fields == Fields(layout, value, writer)
           reader == Reader(layout)
<1>1. FileLayout(layout)
  BY FileLayouts
<1> HIDE DEF layout
<1>2. Reads(reader, fields, value, Rests(layout))
  BY <1>1, FileReads DEF layout
<1> HIDE DEF fields, reader, Byte
<1>3. <<>> \in Rests(layout)
  BY EmptySeq DEF Rests
<1>4. fields \in Seq(Byte) /\ reader[fields \o <<>>] = Reading(value, <<>>)
  BY <1>2, <1>3 DEF Reads
<1>5. fields \o <<>> = fields
  BY <1>4, ConcatEmptySeq
<1> QED
  BY <1>4, <1>5 DEF fields, reader, layout

(* What is encoded is decoded, if it is not too short.                     *)
LEMMA Decoded ==
  ASSUME NEW type \in Types, NEW version \in Versions, NEW value, IsValue(FileTypes[type], value),
         NEW writer, IsPeer(writer), Fits(FileTypes[type], value, writer),
         Len(Encode(type, version, value, writer)) >= MinimumSize(type)
  PROVE  Decode(type, Encode(type, version, value, writer)) = File(version, value)
<1> DEFINE fields == Fields(FileTypes[type], value, writer)
<1>1. fields \in Seq(Byte) /\ Reader(FileTypes[type])[fields] = Reading(value, <<>>)
  BY FieldsReadBack
<1>2. Encode(type, version, value, writer) = WithHeader(version, fields)
  BY DEF Encode
<1> HIDE DEF fields
<1> QED
  BY <1>1, <1>2, DecodeIs

(* No file is the beginning of another one, neither as it is nor without   *)
(* its header.                                                             *)
LEMMA ShorterRefused ==
  ASSUME NEW type, NEW raw \in Seq(Byte), SizeFits(Len(raw)), HeaderAccepted(raw),
         NEW length \in 1..(Len(raw) - 1)
  PROVE  ~Decode(type, SubSeq(raw, 1, length)).ok
<1> SUFFICES ASSUME Decode(type, SubSeq(raw, 1, length)).ok
             PROVE  FALSE
  OBVIOUS
<1> DEFINE part == SubSeq(raw, 1, length)
           tail == Drop(raw, length)
<1> HIDE DEF Byte
<1>1. Len(raw) \in Nat /\ length \in 0..Len(raw) /\ length < Len(raw)
  OBVIOUS
<1>2. /\ part \in Seq(Byte) /\ Len(part) = length
      /\ tail \in Seq(Byte) /\ Len(tail) = Len(raw) - length
      /\ part \o tail = raw
  BY <1>1, SplitAt
<1>3. HeaderAccepted(part)
  BY DecodeOk
<1> HIDE DEF part, tail
<1>4. SizeFits(Len(part)) /\ SizeFits(Len(tail))
  BY <1>1, <1>2, SmallerFits
<1>5. tail = <<>>
  BY <1>2, <1>3, <1>4, OneSize
<1> QED
  BY <1>1, <1>2, <1>5, EmptySeq

(* Bytes that gain a trailer are refused: the size in the header stays.    *)
LEMMA LongerRefused ==
  ASSUME NEW type, NEW raw \in Seq(Byte), SizeFits(Len(raw)), HeaderAccepted(raw),
         NEW trailer \in Seq(Byte), SizeFits(Len(trailer)), raw \o trailer # raw
  PROVE  ~Decode(type, raw \o trailer).ok
<1> SUFFICES ASSUME Decode(type, raw \o trailer).ok
             PROVE  FALSE
  OBVIOUS
<1> HIDE DEF Byte
<1>1. HeaderAccepted(raw \o trailer)
  BY DecodeOk
<1>2. trailer = <<>>
  BY <1>1, OneSize
<1>3. raw \o trailer = raw
  BY <1>2, ConcatEmptySeq
<1> QED
  BY <1>3

(* Fields that lose an end or gain one are refused although the size       *)
(* agrees.                                                                 *)
LEMMA BodyRefused ==
  ASSUME NEW type \in Types, NEW version \in Versions, NEW fields \in Seq(Byte), NEW other \in Seq(Byte),
         NEW part \in Seq(Byte), NEW more \in Seq(Byte), more # <<>>,
         \/ fields = part /\ other = part \o more
         \/ other = part /\ fields = part \o more,
         Whole(Reader(FileTypes[type])[fields])
  PROVE  ~Decode(type, WithHeader(version, other)).ok
<1> DEFINE layout == FileTypes[type]
           reader == Reader(layout)
           raw == WithHeader(version, other)
<1> HIDE DEF Byte
<1> SUFFICES ASSUME Decode(type, raw).ok
             PROVE  FALSE
  OBVIOUS
<1>1. Drop(raw, HeaderSize) = other
  BY HeaderIs
<1> HIDE DEF raw
<1>2. Whole(reader[other])
  BY <1>1, DecodeOk
<1>3. NoBeginning(reader)
  <2>1. FileLayout(layout)
    BY FileLayouts
  <2> QED
    BY <2>1, FileNoBeginning
<1> HIDE DEF reader
<1>4. Whole(reader[part]) /\ Whole(reader[part \o more])
  BY <1>2 DEF reader
<1> QED
  BY <1>3, <1>4 DEF NoBeginning

(***************************************************************************)
(* The names of the files.                                                 *)
(***************************************************************************)

(* First gives the least position of a set.                                *)
LEMMA FirstIsLeast ==
  ASSUME NEW S \in SUBSET Nat, S # {}
  PROVE  First(S) \in S /\ \A y \in S : First(S) <= y
<1>1. First(S) = Min(S)
  BY Zenon DEF First, Min
<1> QED
  BY <1>1, MinIsLeast

(* A text of two parts.                                                    *)
LEMMA TwoParts ==
  ASSUME NEW C, NEW s \in Seq(C), NEW c \in C, NEW t \in Seq(C)
  PROVE  /\ (s \o <<c>>) \o t \in Seq(C)
         /\ Len((s \o <<c>>) \o t) = Len(s) + 1 + Len(t)
         /\ \A i \in 1..Len(s) : ((s \o <<c>>) \o t)[i] = s[i]
         /\ ((s \o <<c>>) \o t)[Len(s) + 1] = c
         /\ \A i \in 1..Len(t) : ((s \o <<c>>) \o t)[Len(s) + 1 + i] = t[i]
<1> DEFINE one == <<c>>
           left == s \o one
           all == left \o t
<1>1. one \in Seq(C) /\ Len(one) = 1 /\ one[1] = c
  OBVIOUS
<1> HIDE DEF one
<1>2. Len(s) \in Nat /\ Len(t) \in Nat
  OBVIOUS
<1>3. /\ left \in Seq(C) /\ Len(left) = Len(s) + 1
      /\ \A i \in 1..(Len(s) + 1) : left[i] = IF i <= Len(s) THEN s[i] ELSE one[i - Len(s)]
  BY <1>1, ConcatProperties
<1> HIDE DEF left
<1>4. /\ all \in Seq(C) /\ Len(all) = Len(s) + 1 + Len(t)
      /\ \A i \in 1..(Len(s) + 1 + Len(t)) :
           all[i] = IF i <= Len(s) + 1 THEN left[i] ELSE t[i - (Len(s) + 1)]
  <2>0. left \in Seq(C)
    BY <1>3
  <2>1. /\ all \in Seq(C) /\ Len(all) = Len(left) + Len(t)
        /\ \A i \in 1..(Len(left) + Len(t)) :
             all[i] = IF i <= Len(left) THEN left[i] ELSE t[i - Len(left)]
    BY <2>0, ConcatProperties
  <2> HIDE DEF all
  <2> QED
    BY <1>3, <2>1
<1> HIDE DEF all
<1>5. \A i \in 1..Len(s) : all[i] = s[i]
  BY <1>2, <1>3, <1>4
<1>6. all[Len(s) + 1] = c
  BY <1>1, <1>2, <1>3, <1>4
<1>7. ASSUME NEW i \in 1..Len(t)
      PROVE  all[Len(s) + 1 + i] = t[i]
  <2> DEFINE j == Len(s) + 1 + i
  <2>1. j \in 1..(Len(s) + 1 + Len(t)) /\ ~(j <= Len(s) + 1) /\ j - (Len(s) + 1) = i
    BY <1>2
  <2> HIDE DEF j
  <2>2. all[j] = t[i]
    BY <1>4, <2>1
  <2> QED
    BY <2>2 DEF j
<1> QED
  BY <1>4, <1>5, <1>6, <1>7 DEF all, left, one

(* Before and After take joined parts apart.                               *)
LEMMA PartsApart ==
  ASSUME NEW C, NEW s \in Seq(C), NEW c \in C, NEW t \in Seq(C)
  PROVE  /\ Before((s \o <<c>>) \o t, Len(s) + 1) = s
         /\ After((s \o <<c>>) \o t, Len(s) + 1) = t
<1> DEFINE all == (s \o <<c>>) \o t
           n == Len(s)
           p == SubSeq(all, 1, (n + 1) - 1)
           d == SubSeq(all, (n + 1) + 1, Len(all))
<1>1. /\ all \in Seq(C) /\ Len(all) = n + 1 + Len(t)
      /\ \A i \in 1..n : all[i] = s[i]
      /\ \A i \in 1..Len(t) : all[n + 1 + i] = t[i]
  BY TwoParts
<1>2. n \in Nat /\ Len(t) \in Nat /\ \A i \in 1..n : s[i] \in C
  OBVIOUS
<1>3. Before(all, n + 1) = p /\ After(all, n + 1) = d
  BY DEF Before, After
<1> HIDE DEF all
<1>4. \A i \in 1..((n + 1) - 1) : all[i] \in C
  BY <1>1, <1>2
<1>5. \A i \in ((n + 1) + 1)..Len(all) : all[i] \in C
  BY <1>1, <1>2
<1>6. /\ p \in Seq(C) /\ Len(p) = (IF 1 <= (n + 1) - 1 THEN (n + 1) - 1 - 1 + 1 ELSE 0)
      /\ \A i \in 1..((n + 1) - 1 - 1 + 1) : p[i] = all[1 + i - 1]
  BY <1>2, <1>4, SubSeqProperties
<1>7. /\ d \in Seq(C)
      /\ Len(d) = (IF (n + 1) + 1 <= Len(all) THEN Len(all) - ((n + 1) + 1) + 1 ELSE 0)
      /\ \A i \in 1..(Len(all) - ((n + 1) + 1) + 1) : d[i] = all[(n + 1) + 1 + i - 1]
  BY <1>1, <1>2, <1>5, SubSeqProperties
<1> HIDE DEF p, d, n
<1>8. Len(p) = n /\ \A i \in 1..n : p[i] = s[i]
  BY <1>1, <1>2, <1>6
<1>9. Len(d) = Len(t)
  BY <1>1, <1>2, <1>7
<1>10. \A i \in 1..Len(d) : d[i] = t[i]
  <2> TAKE i \in 1..Len(d)
  <2>1. d[i] = all[(n + 1) + 1 + i - 1] /\ (n + 1) + 1 + i - 1 = n + 1 + i
    BY <1>1, <1>2, <1>7, <1>9
  <2> QED
    BY <1>1, <1>2, <1>9, <2>1
<1>11. p = s
  BY <1>6, <1>8, SeqEqual DEF n
<1>12. d = t
  BY <1>7, <1>9, <1>10, SeqEqual
<1> QED
  BY <1>3, <1>11, <1>12 DEF all, n

(* The first character that separates is at the end of the first part, if  *)
(* there is none in it, or before.                                         *)
LEMMA FirstPosition ==
  ASSUME NEW C, NEW s \in Seq(C), NEW c \in C, NEW t \in Seq(C)
  PROVE  LET all == (s \o <<c>>) \o t
         IN  /\ Positions(all, c) # {}
             /\ First(Positions(all, c)) \in 1..(Len(s) + 1)
             /\ (\A i \in 1..Len(s) : s[i] # c) => First(Positions(all, c)) = Len(s) + 1
<1> DEFINE all == (s \o <<c>>) \o t
           S == Positions(all, c)
           first == First(S)
           n == Len(s)
<1>1. /\ all \in Seq(C) /\ Len(all) = n + 1 + Len(t)
      /\ \A i \in 1..n : all[i] = s[i]
      /\ all[n + 1] = c
  BY TwoParts
<1>2. n \in Nat /\ Len(t) \in Nat
  OBVIOUS
<1> HIDE DEF all, n
<1>3. S = {i \in 1..Len(all) : all[i] = c}
  BY DEF Positions
<1> HIDE DEF S
<1>4. n + 1 \in S /\ S \in SUBSET Nat /\ S \subseteq 1..Len(all)
  BY <1>1, <1>2, <1>3
<1>5. first \in S /\ first <= n + 1
  BY <1>4, FirstIsLeast
<1>6. first \in 1..(n + 1)
  <2>1. first \in 1..Len(all) /\ first <= n + 1
    BY <1>4, <1>5
  <2> HIDE DEF first
  <2> QED
    BY <1>1, <1>2, <2>1
<1>7. ASSUME \A i \in 1..n : s[i] # c
      PROVE  first = n + 1
  <2>1. all[first] = c
    BY <1>3, <1>5
  <2> QED
    BY <1>1, <1>2, <1>6, <1>7, <2>1
<1> QED
  BY <1>4, <1>6, <1>7, Zenon DEF all, S, n

(* The separators are characters of names, and not alphanumeric.           *)
LEMMA Separators ==
  /\ "_" \in Alphabet /\ "." \in Alphabet
  /\ "_" \notin Alphanumeric /\ "." \notin Alphanumeric /\ "_" # "."
<1>1. "_" \notin Alphanumeric /\ "." \notin Alphanumeric
  BY DEF Alphanumeric
<1> QED
  BY <1>1, AlphabetAssumption

(* No two types of files have the same extension.                          *)
LEMMA Extensions ==
  ASSUME NEW type \in Types
  PROVE  /\ Extension[type] \in Seq(Alphabet) /\ Len(Extension[type]) = 3
         /\ \A other \in Types : Extension[other] = Extension[type] => other = type
<1> DEFINE e == Extension[type]
           C == {"A", "C", "D", "I", "L", "N", "O", "R", "S", "U"}
<1>1. e = <<e[1], e[2], e[3]>>
  BY SMT DEF Types, Extension
<1>2. e[1] \in C /\ e[2] \in C /\ e[3] \in C
  BY SMT DEF Types, Extension
<1>3. C \subseteq Alphabet
  <2>1. C \subseteq Alphanumeric
    BY DEF Alphanumeric
  <2> QED
    BY <2>1, AlphabetAssumption
<1>4. \A other \in Types : Extension[other][2] = e[2] /\ Extension[other][3] = e[3] => other = type
  BY SMT DEF Types, Extension
<1> HIDE DEF C, Types, Extension, e
<1>5. e \in Seq(Alphabet) /\ Len(e) = 3
  <2> DEFINE x == e[1]
             y == e[2]
             z == e[3]
  <2>1. e = <<x, y, z>> /\ x \in Alphabet /\ y \in Alphabet /\ z \in Alphabet
    BY <1>1, <1>2, <1>3
  <2> HIDE DEF x, y, z
  <2> QED
    BY <2>1
<1> QED
  BY <1>4, <1>5 DEF e

(* The type of an extension is the type that has it.                       *)
LEMMA TypeOfIs ==
  ASSUME NEW extension
  PROVE  /\ TypeOfExtension(extension) # InvalidType =>
              \E type \in Types : Extension[type] = extension
         /\ \A type \in Types : Extension[type] = extension => TypeOfExtension(extension) = type
<1>1. \A type \in Types : Extension[type] = extension => TypeOfExtension(extension) = type
  <2> TAKE type \in Types
  <2> SUFFICES ASSUME Extension[type] = extension
               PROVE  TypeOfExtension(extension) = type
    OBVIOUS
  <2> HIDE DEF Types, Extension
  <2>1. TypeOfExtension(extension) = CHOOSE t \in Types : Extension[t] = extension
    BY DEF TypeOfExtension
  <2>2. /\ (CHOOSE t \in Types : Extension[t] = extension) \in Types
        /\ Extension[CHOOSE t \in Types : Extension[t] = extension] = extension
    OBVIOUS
  <2> QED
    BY <2>1, <2>2, Extensions
<1>2. ASSUME TypeOfExtension(extension) # InvalidType
      PROVE  \E type \in Types : Extension[type] = extension
  BY <1>2 DEF TypeOfExtension
<1> QED
  BY <1>1, <1>2

(* A file is recognised by the first point in its name, or not at all.     *)
LEMMA FileTypeIs ==
  ASSUME NEW text \in Seq(Alphabet), NEW type \in Types
  PROVE  LET name == (text \o <<".">>) \o Extension[type]
         IN  /\ FileType(name) \in {type, InvalidType}
             /\ (\A i \in 1..Len(text) : text[i] # ".") =>
                  FileType(name) = type /\ Split(name).targetId = text
<1> DEFINE name == (text \o <<".">>) \o Extension[type]
           positions == Positions(name, ".")
           first == First(positions)
           n == Len(text)
           ending == After(name, first)
<1> HIDE DEF Types
<1>1. Extension[type] \in Seq(Alphabet) /\ Len(Extension[type]) = 3 /\ "." \in Alphabet
  BY Extensions, Separators
<1>2. /\ positions # {}
      /\ first \in 1..(n + 1)
      /\ (\A i \in 1..n : text[i] # ".") => first = n + 1
  BY <1>1, FirstPosition
<1>3. name \in Seq(Alphabet) /\ Len(name) = n + 1 + 3
  <2> HIDE DEF positions, first, n, ending
  <2>1. name \in Seq(Alphabet) /\ Len(name) = Len(text) + 1 + Len(Extension[type])
    <3> DEFINE point == "."
               extension == Extension[type]
    <3>1. point \in Alphabet /\ extension \in Seq(Alphabet)
      BY <1>1
    <3>2. name = (text \o <<point>>) \o extension
      OBVIOUS
    <3> HIDE DEF point, extension, name
    <3>3. (text \o <<point>>) \o extension \in Seq(Alphabet)
      BY <3>1, TwoParts
    <3>4. Len((text \o <<point>>) \o extension) = Len(text) + 1 + Len(extension)
      BY <3>1, TwoParts
    <3> QED
      BY <3>2, <3>3, <3>4 DEF extension
  <2> HIDE DEF name
  <2> QED
    BY <1>1, <2>1 DEF n
<1>4. Before(name, n + 1) = text /\ After(name, n + 1) = Extension[type]
  BY <1>1, PartsApart
<1>5. Split(name) = [targetId |-> Before(name, first), extension |-> ending]
  BY <1>2 DEF Split
<1>6. FileType(name) = TypeOfExtension(ending)
  BY <1>5 DEF FileType
<1> HIDE DEF name, positions, n
<1>7. n \in Nat
  BY DEF n
<1>8. ASSUME FileType(name) # InvalidType
      PROVE  FileType(name) = type
  <2>1. PICK other \in Types : Extension[other] = ending
    BY <1>6, <1>8, TypeOfIs
  <2>2. Len(ending) = 3
    BY <2>1, Extensions
  <2>3. Len(ending) = n + 4 - first
    <3> HIDE DEF first
    <3> DEFINE t == SubSeq(name, first + 1, Len(name))
    <3>1. \A i \in (first + 1)..Len(name) : name[i] \in Alphabet
      <4>1. \A i \in 1..Len(name) : name[i] \in Alphabet
        BY <1>3
      <4> QED
        BY <1>2, <1>3, <1>7, <4>1
    <3>2. Len(t) = IF first + 1 <= Len(name) THEN Len(name) - (first + 1) + 1 ELSE 0
      BY <1>2, <1>3, <1>7, <3>1, SubSeqProperties
    <3>3. t = After(name, first)
      BY DEF After
    <3> HIDE DEF t
    <3> QED
      BY <1>2, <1>3, <1>7, <3>2, <3>3 DEF first
  <2> HIDE DEF ending, first
  <2>4. first = n + 1
    <3>1. first \in 1..(n + 1)
      BY <1>2
    <3>2. 3 = n + 4 - first
      BY <2>2, <2>3
    <3> QED
      BY <1>7, <3>1, <3>2
  <2>5. ending = Extension[type]
    BY <1>4, <2>4 DEF ending, first
  <2> QED
    BY <1>6, <2>5, TypeOfIs
<1>9. ASSUME \A i \in 1..n : text[i] # "."
      PROVE  FileType(name) = type /\ Split(name).targetId = text
  <2>1. first = n + 1
    BY <1>2, <1>9
  <2>2. Split(name).targetId = Before(name, first)
    BY <1>5
  <2>3. ending = Extension[type]
    BY <1>4, <2>1
  <2> HIDE DEF ending
  <2>4. FileType(name) = type
    BY <1>6, <2>3, TypeOfIs
  <2> QED
    BY <1>4, <2>1, <2>2, <2>4
<1> QED
  BY <1>8, <1>9 DEF name, n

IsId(id) ==
  /\ id.thwId \in Seq(Alphabet) /\ id.position \in Seq(Alphabet)
  /\ id = TargetId(id.thwId, id.position)

(* An identifier is written in characters of names.                        *)
LEMMA IdTexts ==
  ASSUME NEW id, IsId(id)
  PROVE  IdText(id) \in Seq(Alphabet)
<1> DEFINE s == id.thwId
           t == id.position
<1>1. s \in Seq(Alphabet) /\ t \in Seq(Alphabet) /\ IdText(id) = (s \o <<"_">>) \o t
  BY DEF IsId, IdText
<1> HIDE DEF s, t
<1>2. (s \o <<"_">>) \o t \in Seq(Alphabet)
  <2> DEFINE c == "_"
  <2>1. c \in Alphabet
    BY Separators
  <2> HIDE DEF c
  <2>2. (s \o <<c>>) \o t \in Seq(Alphabet)
    BY <1>1, <2>1, TwoParts
  <2> QED
    BY <2>2 DEF c
<1> QED
  BY <1>1, <1>2

(* A well formed identifier has no point, and its first part no underscore. *)
LEMMA WellFormedParts ==
  ASSUME NEW id, IsId(id), WellFormed(id)
  PROVE  /\ \A i \in 1..Len(id.thwId) : id.thwId[i] # "_"
         /\ \A i \in 1..Len(IdText(id)) : IdText(id)[i] # "."
<1> DEFINE s == id.thwId
           t == id.position
           c == "_"
           text == (s \o <<c>>) \o t
<1>1. s \in Seq(Alphabet) /\ t \in Seq(Alphabet) /\ IdText(id) = text
  BY DEF IsId, IdText
<1>2. /\ \A i \in 1..Len(s) : s[i] \in Alphanumeric
      /\ \A i \in 1..Len(t) : t[i] \in Alphanumeric
  BY DEF WellFormed
<1>3. c \in Alphabet /\ c # "." /\ c \notin Alphanumeric /\ "." \notin Alphanumeric
  BY Separators
<1> HIDE DEF s, t, c, Alphanumeric
<1>4. /\ Len(text) = Len(s) + 1 + Len(t)
      /\ \A i \in 1..Len(s) : text[i] = s[i]
      /\ text[Len(s) + 1] = c
      /\ \A i \in 1..Len(t) : text[Len(s) + 1 + i] = t[i]
  BY <1>1, <1>3, TwoParts
<1> HIDE DEF text
<1>5. Len(s) \in Nat /\ Len(t) \in Nat
  BY <1>1
<1>6. ASSUME NEW i \in 1..Len(text)
      PROVE  text[i] # "."
  <2>1. CASE i <= Len(s)
    BY <1>2, <1>3, <1>4, <1>5, <2>1
  <2>2. CASE i = Len(s) + 1
    BY <1>3, <1>4, <2>2
  <2>3. CASE i > Len(s) + 1
    <3> DEFINE j == i - (Len(s) + 1)
    <3>1. j \in 1..Len(t) /\ Len(s) + 1 + j = i
      BY <1>4, <1>5, <2>3
    <3> HIDE DEF j
    <3>2. text[i] = t[j]
      BY <1>4, <3>1
    <3> QED
      BY <1>2, <1>3, <3>1, <3>2
  <2> QED
    BY <1>4, <1>5, <2>1, <2>2, <2>3
<1>7. \A i \in 1..Len(s) : s[i] # "_"
  BY <1>2, <1>3 DEF c
<1> QED
  BY <1>1, <1>6, <1>7 DEF s

(* A well formed identifier is read back from a name.                      *)
LEMMA WellFormedSplits ==
  ASSUME NEW id, IsId(id), WellFormed(id)
  PROVE  SplitTargetId(IdText(id)) = id
<1> DEFINE s == id.thwId
           t == id.position
           c == "_"
           text == (s \o <<c>>) \o t
           first == First(Positions(text, c))
<1>1. s \in Seq(Alphabet) /\ t \in Seq(Alphabet) /\ IdText(id) = text /\ id = TargetId(s, t)
  BY DEF IsId, IdText
<1>2. c \in Alphabet /\ \A i \in 1..Len(s) : s[i] # c
  BY Separators, WellFormedParts
<1> HIDE DEF s, t, c
<1>3. Positions(text, c) # {} /\ first = Len(s) + 1
  BY <1>1, <1>2, FirstPosition
<1>4. Before(text, Len(s) + 1) = s /\ After(text, Len(s) + 1) = t
  BY <1>1, <1>2, PartsApart
<1> HIDE DEF text
<1>5. SplitTargetId(text) = TargetId(Before(text, first), After(text, first))
  BY <1>3 DEF SplitTargetId, c
<1> QED
  BY <1>1, <1>3, <1>4, <1>5

(* What is read of the name of a file: its type, and a well formed         *)
(* identifier.                                                             *)
LEMMA NameRead ==
  ASSUME NEW id, IsId(id), NEW type \in Types
  PROVE  /\ FileType(Filename(id, type)) \in {type, InvalidType}
         /\ WellFormed(id) =>
              /\ FileType(Filename(id, type)) = type
              /\ TargetIdOf(Filename(id, type)) = id
              /\ IsProtocolFilename(Filename(id, type))
<1> DEFINE text == IdText(id)
           name == Filename(id, type)
<1> HIDE DEF Types
<1>1. text \in Seq(Alphabet)
  BY IdTexts
<1>2. name = (text \o <<".">>) \o Extension[type]
  BY DEF Filename
<1> HIDE DEF name, text
<1>3. /\ FileType(name) \in {type, InvalidType}
      /\ (\A i \in 1..Len(text) : text[i] # ".") => FileType(name) = type /\ Split(name).targetId = text
  BY <1>1, <1>2, FileTypeIs
<1>4. ASSUME WellFormed(id)
      PROVE  FileType(name) = type /\ TargetIdOf(name) = id /\ IsProtocolFilename(name)
  <2>1. FileType(name) = type /\ Split(name).targetId = text
    BY <1>3, <1>4, WellFormedParts DEF text
  <2>2. SplitTargetId(text) = id
    BY <1>4, WellFormedSplits DEF text
  <2>3. TargetIdOf(name) = id
    BY <2>1, <2>2 DEF TargetIdOf
  <2>4. IsThwId(id.thwId) /\ IsPosition(id.position)
    BY <1>4 DEF WellFormed, IsThwId, IsPosition, IsCompliant, ThwIdSize, PositionSize
  <2>5. IsTargetId(text)
    BY <2>2, <2>4 DEF IsTargetId
  <2>6. type # InvalidType
    BY SMT DEF Types, Extension, InvalidType
  <2> QED
    BY <2>1, <2>3, <2>5, <2>6 DEF IsProtocolFilename, FileType
<1> QED
  BY <1>3, <1>4 DEF name

(***************************************************************************)
(* A file on its way.                                                      *)
(***************************************************************************)

OperationNames == {"Information", "Upload", "MediaDefinedDownload", "OperatorDefinedDownload"}

IsRequested(asked) ==
  \/ asked.side = "host" /\ asked.operation \in OperationNames
  \/ asked.side = "target" /\ asked.operation \in OperationNames \cup {NoOperation}

IsFile(f) ==
  /\ f = [id |-> f.id, type |-> f.type, version |-> f.version, value |-> f.value,
          peer |-> f.peer, requested |-> f.requested]
  /\ IsId(f.id) /\ f.type \in Types /\ f.version \in Versions /\ IsPeer(f.peer)
  /\ IsRequested(f.requested)

(* The operations, by name.                                                *)
LEMMA OperationsRange == Range(OperationOf) = OperationNames
BY DEF Range, OperationOf, OperationNames

(* No type of a file stands for a request that is not taken.               *)
LEMMA TypesAre ==
  /\ NotTaken \notin Types /\ Data \notin Types /\ InvalidType \notin Types
  /\ DOMAIN OperationOf \subseteq Types
BY SMT DEF NotTaken, Data, InvalidType, Types, Extension, OperationOf

(* What a request is taken for, by the type of the file it names.          *)
TakenByHost(inOperation, request, type) ==
  CASE inOperation = "Information" ->
         TakenIf(type, {"LoadConfigurationList", "LoadConfigurationStatus"})
    [] inOperation = "Upload" ->
         IF request = "Read" THEN Data ELSE TakenIf(type, {"UploadStatus"})
    [] inOperation = "MediaDefinedDownload" ->
         IF request = "Read" THEN NotTaken ELSE IF type = "DownloadStatus" THEN type ELSE Data
    [] inOperation = "OperatorDefinedDownload" ->
         IF request = "Read" THEN NotTaken
         ELSE IF type \in {"DownloadStatus", "OperatorDefinedDownloadList"} THEN type ELSE Data

WrittenByHost(from, request, type, expected) ==
  IF from = "host" /\ request = "Write" THEN TakenIf(type, {expected}) ELSE NotTaken

TakenByTarget(inOperation, from, request, type) ==
  IF request = "Read" /\ type \in DOMAIN OperationOf THEN type
  ELSE CASE inOperation \in {NoOperation, "Information"} -> NotTaken
         [] inOperation = "Upload" -> WrittenByHost(from, request, type, "UploadRequest")
         [] inOperation = "MediaDefinedDownload" ->
              WrittenByHost(from, request, type, "MediaDefinedDownloadRequest")
         [] inOperation = "OperatorDefinedDownload" ->
              WrittenByHost(from, request, type, "OperatorDefinedDownloadAnswer")

(* A host takes a request by the type and the identifier in the name.      *)
LEMMA HostTakesByType ==
  ASSUME NEW inOperation \in OperationNames, NEW targetId, NEW request, NEW name
  PROVE  HostTakes(inOperation, targetId, request, name) =
           IF CheckRequest(targetId, name) THEN TakenByHost(inOperation, request, FileType(name))
           ELSE NotTaken
<1> DEFINE type == FileType(name)
           accepted == CheckRequest(targetId, name)
<1>1. HostTakes(inOperation, targetId, request, name) =
        IF ~accepted THEN NotTaken
        ELSE CASE inOperation = "Information" ->
                    TakenIf(type, {"LoadConfigurationList", "LoadConfigurationStatus"})
               [] inOperation = "Upload" ->
                    IF request = "Read" THEN Data ELSE TakenIf(type, {"UploadStatus"})
               [] inOperation = "MediaDefinedDownload" ->
                    IF request = "Read" THEN NotTaken
                    ELSE IF type \in {"DownloadStatus"} THEN type ELSE Data
               [] inOperation = "OperatorDefinedDownload" ->
                    IF request = "Read" THEN NotTaken
                    ELSE IF type \in {"DownloadStatus", "OperatorDefinedDownloadList"} THEN type ELSE Data
  BY DEF HostTakes, HostInformation, HostUpload, HostMediaDefinedDownload,
         HostOperatorDefinedDownload, DownloadFile
<1> HIDE DEF type, accepted
<1>2. type \in {"DownloadStatus"} <=> type = "DownloadStatus"
  OBVIOUS
<1> QED
  BY <1>1, <1>2 DEF TakenByHost, OperationNames, type, accepted

(* A target takes a request by the type in the name.                       *)
LEMMA TargetTakesByType ==
  ASSUME NEW inOperation \in OperationNames \cup {NoOperation}, NEW from, NEW request, NEW name
  PROVE  TargetTakes(inOperation, from, request, name) =
           IF IsProtocolFilename(name) THEN TakenByTarget(inOperation, from, request, FileType(name))
           ELSE NotTaken
BY DEF TargetTakes, TakenByTarget, TargetInformation, TargetUpload, TargetMediaDefinedDownload,
       TargetOperatorDefinedDownload, Written, WrittenByHost, OperationNames, NoOperation

(* By type a file is taken for what it is read as, for data or not at all. *)
LEMMA ByTypeOnly ==
  ASSUME NEW inOperation, inOperation \in OperationNames \cup {NoOperation}, NEW from,
         NEW request \in {"Read", "Write"}, NEW type
  PROVE  /\ inOperation \in OperationNames =>
              TakenByHost(inOperation, request, type) \in {type, NotTaken, Data}
         /\ TakenByTarget(inOperation, from, request, type) \in {type, NotTaken}
BY DEF TakenByHost, TakenByTarget, WrittenByHost, TakenIf, OperationNames, NoOperation

(* A target takes the files of its operation, and initialisations.         *)
LEMMA TargetExpects ==
  ASSUME NEW asked, asked.side = "target", asked.operation \in OperationNames \cup {NoOperation},
         NEW request \in {"Read", "Write"}, NEW type
  PROVE  TakenByTarget(asked.operation, asked.from, request, type)
           \in Expected(asked) \cup {NotTaken}
<1> DEFINE inOperation == asked.operation
           from == asked.from
           taking == TakenByTarget(inOperation, from, request, type)
           more == IF from # "host" THEN {}
                   ELSE CASE inOperation = "Upload" -> {"UploadRequest"}
                          [] inOperation = "MediaDefinedDownload" -> {"MediaDefinedDownloadRequest"}
                          [] inOperation = "OperatorDefinedDownload" -> {"OperatorDefinedDownloadAnswer"}
                          [] OTHER -> {}
<1>1. Expected(asked) = DOMAIN OperationOf \cup more
  BY DEF Expected
<1> HIDE DEF inOperation, from, more
<1>2. CASE request = "Read" /\ type \in DOMAIN OperationOf
  BY <1>1, <1>2 DEF TakenByTarget
<1>3. CASE ~(request = "Read" /\ type \in DOMAIN OperationOf)
  <2> HIDE DEF taking
  <2>1. CASE inOperation \in {NoOperation, "Information"}
    <3>1. taking = NotTaken
      BY <1>3, <2>1 DEF TakenByTarget, taking, NoOperation
    <3> QED
      BY <3>1 DEF taking, inOperation, from
  <2>2. CASE from # "host"
    <3>1. taking = NotTaken
      BY <1>3, <2>2 DEF TakenByTarget, taking, WrittenByHost, NoOperation, OperationNames, inOperation
    <3> QED
      BY <3>1 DEF taking, inOperation, from
  <2>3. ASSUME from = "host", NEW expected, taking = WrittenByHost(from, request, type, expected),
               more = {expected}
        PROVE  taking \in Expected(asked) \cup {NotTaken}
    <3>1. taking \in {expected, NotTaken}
      BY <2>3 DEF WrittenByHost, TakenIf
    <3> QED
      BY <1>1, <2>3, <3>1
  <2>4. CASE from = "host" /\ inOperation = "Upload"
    <3>1. taking = WrittenByHost(from, request, type, "UploadRequest") /\ more = {"UploadRequest"}
      BY <1>3, <2>4 DEF TakenByTarget, taking, more, NoOperation
    <3> QED
      BY <2>3, <2>4, <3>1 DEF taking, inOperation, from
  <2>5. CASE from = "host" /\ inOperation = "MediaDefinedDownload"
    <3>1. /\ taking = WrittenByHost(from, request, type, "MediaDefinedDownloadRequest")
          /\ more = {"MediaDefinedDownloadRequest"}
      BY <1>3, <2>5 DEF TakenByTarget, taking, more, NoOperation
    <3> QED
      BY <2>3, <2>5, <3>1 DEF taking, inOperation, from
  <2>6. CASE from = "host" /\ inOperation = "OperatorDefinedDownload"
    <3>1. /\ taking = WrittenByHost(from, request, type, "OperatorDefinedDownloadAnswer")
          /\ more = {"OperatorDefinedDownloadAnswer"}
      BY <1>3, <2>6 DEF TakenByTarget, taking, more, NoOperation
    <3> QED
      BY <2>3, <2>6, <3>1 DEF taking, inOperation, from
  <2> QED
    BY <2>1, <2>2, <2>4, <2>5, <2>6 DEF OperationNames, inOperation, from, taking
<1> QED
  BY <1>2, <1>3

(* What a side expects it takes, under its type.                           *)
LEMMA ExpectedTaken ==
  ASSUME NEW asked, IsRequested(asked), NEW type \in Types, type \in Expected(asked),
         NEW request, request = IF type \in DOMAIN OperationOf THEN "Read" ELSE "Write"
  PROVE  /\ asked.side = "host" => TakenByHost(asked.operation, request, type) = type
         /\ asked.side = "target" =>
              TakenByTarget(asked.operation, asked.from, request, type) = type
<1> DEFINE inOperation == asked.operation
           from == asked.from
<1>1. CASE asked.side = "host"
  <2>1. inOperation \in OperationNames
    BY <1>1 DEF IsRequested
  <2>2. type \in CASE inOperation = "Information" -> {"LoadConfigurationList", "LoadConfigurationStatus"}
                   [] inOperation = "Upload" -> {"UploadStatus"}
                   [] inOperation = "MediaDefinedDownload" -> {"DownloadStatus"}
                   [] inOperation = "OperatorDefinedDownload" ->
                        {"DownloadStatus", "OperatorDefinedDownloadList"}
    BY <1>1 DEF Expected
  <2> HIDE DEF inOperation
  <2>3. /\ inOperation = "Information" => type \in {"LoadConfigurationList", "LoadConfigurationStatus"}
        /\ inOperation = "Upload" => type = "UploadStatus"
        /\ inOperation = "MediaDefinedDownload" => type = "DownloadStatus"
        /\ inOperation = "OperatorDefinedDownload" => type \in {"DownloadStatus", "OperatorDefinedDownloadList"}
    BY <2>2
  <2>4. request = "Write"
    <3>1. type \in {"LoadConfigurationList", "LoadConfigurationStatus", "UploadStatus",
                    "DownloadStatus", "OperatorDefinedDownloadList"}
      BY <2>1, <2>3 DEF OperationNames
    <3>2. type \notin DOMAIN OperationOf
      BY <3>1 DEF OperationOf
    <3> QED
      BY <3>2
  <2>5. TakenByHost(inOperation, request, type) = type
    BY <2>1, <2>3, <2>4 DEF TakenByHost, TakenIf, OperationNames
  <2> QED
    BY <1>1, <2>5 DEF inOperation
<1>2. CASE asked.side = "target"
  <2>1. inOperation \in OperationNames \cup {NoOperation}
    BY <1>2 DEF IsRequested
  <2>2. CASE type \in DOMAIN OperationOf
    BY <1>2, <2>2 DEF TakenByTarget
  <2>3. CASE type \notin DOMAIN OperationOf
    <3>1. type \in IF from # "host" THEN {}
                  ELSE CASE inOperation = "Upload" -> {"UploadRequest"}
                         [] inOperation = "MediaDefinedDownload" -> {"MediaDefinedDownloadRequest"}
                         [] inOperation = "OperatorDefinedDownload" -> {"OperatorDefinedDownloadAnswer"}
                         [] OTHER -> {}
      BY <1>2, <2>3 DEF Expected
    <3> HIDE DEF inOperation, from
    <3>2. /\ from = "host"
          /\ \/ inOperation = "Upload" /\ type = "UploadRequest"
             \/ inOperation = "MediaDefinedDownload" /\ type = "MediaDefinedDownloadRequest"
             \/ inOperation = "OperatorDefinedDownload" /\ type = "OperatorDefinedDownloadAnswer"
      BY <3>1
    <3>3. request = "Write"
      BY <2>3
    <3>4. TakenByTarget(inOperation, from, request, type) = type
      BY <3>2, <3>3 DEF TakenByTarget, WrittenByHost, TakenIf, NoOperation
    <3> QED
      BY <1>2, <3>4 DEF inOperation, from
  <2> QED
    BY <2>2, <2>3
<1> QED
  BY <1>1, <1>2 DEF IsRequested

(* A file taken by its name is taken for what it is.                       *)
LEMMA Recognised ==
  ASSUME IsFile(file), taken = Taken(Filename(file.id, file.type))
  PROVE  FileRecognised
<1> DEFINE name == Filename(file.id, file.type)
           read == FileType(name)
           asked == file.requested
           inOperation == asked.operation
           request == RequestType
           isHost == asked.side = "host"
           isTarget == asked.side = "target"
<1>1. IsId(file.id) /\ file.type \in Types /\ IsRequested(asked)
  BY DEF IsFile
<1>2. /\ read \in {file.type, InvalidType}
      /\ WellFormed(file.id) =>
           /\ read = file.type /\ TargetIdOf(name) = file.id /\ IsProtocolFilename(name)
  BY <1>1, NameRead
<1>3. request \in {"Read", "Write"} /\ request = IF file.type \in DOMAIN OperationOf THEN "Read" ELSE "Write"
  BY DEF RequestType, Initialisation
<1>4. /\ (isHost \/ isTarget) /\ ~(isHost /\ isTarget)
      /\ isHost => inOperation \in OperationNames
      /\ isTarget => inOperation \in OperationNames \cup {NoOperation}
  BY <1>1 DEF IsRequested
<1>5. isHost =>
        taken = IF CheckRequest(asked.targetId, name)
                THEN TakenByHost(inOperation, request, read) ELSE NotTaken
  <2> SUFFICES ASSUME isHost
               PROVE  HostTakes(inOperation, asked.targetId, request, name) =
                        IF CheckRequest(asked.targetId, name)
                        THEN TakenByHost(inOperation, request, read) ELSE NotTaken
    BY DEF Taken
  <2> HIDE DEF name, request, asked
  <2> QED
    BY <1>4, HostTakesByType
<1>6. isTarget =>
        taken = IF IsProtocolFilename(name)
                THEN TakenByTarget(inOperation, asked.from, request, read) ELSE NotTaken
  <2> SUFFICES ASSUME isTarget
               PROVE  TargetTakes(inOperation, asked.from, request, name) =
                        IF IsProtocolFilename(name)
                        THEN TakenByTarget(inOperation, asked.from, request, read) ELSE NotTaken
    BY <1>4 DEF Taken
  <2> HIDE DEF name, request, asked
  <2> QED
    BY <1>4, TargetTakesByType
<1> HIDE DEF name, read, request, Types
<1>7. taken \in Types => taken = file.type
  <2>1. isHost => TakenByHost(inOperation, request, read) \in {read, NotTaken, Data}
    BY <1>3, <1>4, ByTypeOnly
  <2>2. isTarget => TakenByTarget(inOperation, asked.from, request, read) \in {read, NotTaken}
    BY <1>3, <1>4, ByTypeOnly
  <2>3. taken \in {read, NotTaken, Data}
    BY <1>4, <1>5, <1>6, <2>1, <2>2
  <2> QED
    BY <1>2, <2>3, TypesAre
<1>8. isTarget => taken \in Expected(asked) \cup {NotTaken}
  BY <1>3, <1>4, <1>6, TargetExpects
<1>9. ASSUME WellFormed(file.id)
      PROVE  IF isHost /\ asked.targetId # file.id THEN taken = NotTaken
             ELSE file.type \in Expected(asked) => taken = file.type
  <2>1. read = file.type /\ TargetIdOf(name) = file.id /\ IsProtocolFilename(name)
    BY <1>2, <1>9
  <2>2. CheckRequest(asked.targetId, name) <=> asked.targetId = file.id
    BY <2>1 DEF CheckRequest
  <2>3. file.type \in Expected(asked) =>
          /\ isHost => TakenByHost(inOperation, request, file.type) = file.type
          /\ isTarget => TakenByTarget(inOperation, asked.from, request, file.type) = file.type
    BY <1>1, <1>3, ExpectedTaken
  <2> QED
    BY <1>4, <1>5, <1>6, <2>1, <2>2, <2>3
<1> QED
  BY <1>7, <1>8, <1>9 DEF FileRecognised

(* What has arrived of the bytes.                                          *)
ArrivedShorter ==
  \/ \E length \in 1..(Len(bytes) - 1) : arrived = SubSeq(bytes, 1, length)
  \/ \E length \in 0..(Len(Body) - 1) : arrived = WithHeader(file.version, SubSeq(Body, 1, length))

ArrivedLonger ==
  \E trailer \in Trailers :
    arrived = bytes \o trailer \/ arrived = WithHeader(file.version, Body \o trailer)

Encoded ==
  /\ IsValue(FileTypes[file.type], file.value)
  /\ Fits(FileTypes[file.type], file.value, file.peer)
  /\ bytes = Encode(file.type, file.version, file.value, file.peer)

FileInv ==
  /\ IsFile(file)
  /\ taken # Unrequested => taken = Taken(Filename(file.id, file.type))
  /\ bytes # <<>> => Encoded
  /\ arrived # <<>> => bytes # <<>> /\ taken \in Types
  /\ decoded # Nothing => arrived # <<>> /\ decoded = Decode(taken, arrived)

(* A file that is held as a whole from the beginning.                      *)
WholeFile ==
  /\ status = NoStatus
  /\ file \in Files /\ file.value # <<>>
  /\ bytes # <<>> => SizeFits(Len(bytes))
  /\ arrived # <<>> => arrived = bytes \/ ArrivedShorter \/ ArrivedLonger

TextValues == Seq(Byte \ {0})
AnyCode == Code.values \cup {Codes.Invalid}

EntryValues ==
  [name : TextValues, partNumber : TextValues, ratio : 0..100, code : AnyCode, description : TextValues]

StatusValues ==
  [counter : 0..(Word - 1), exceptionTimer : {0}, estimatedTime : {-1, 0, 7}, code : AnyCode,
   description : TextValues, listRatio : 0..100, files : Seq(EntryValues)]

(* Each file that has been reported is listed once, with the code of what  *)
(* was reported last.                                                      *)
ListedAs(files, codes) ==
  /\ codes \in [DOMAIN codes -> Code.values]
  /\ DOMAIN codes = {files[i].name : i \in 1..Len(files)}
  /\ \A i \in 1..Len(files) : files[i].code = codes[files[i].name]
  /\ \A i, j \in 1..Len(files) : files[i].name = files[j].name => i = j

List(files) ==
  [i \in DOMAIN files |-> IF IsUpload THEN LoadFields(files[i]) ELSE FileFields(files[i])]

(* What is told of a reported code: the failure of a file goes as that of  *)
(* the hardware, every other code as itself.                               *)
Told(code) ==
  IF code = Codes.LoadPartNumberOrDownloadFileFailed THEN Codes.OperationAbortedByTargetHw ELSE code

(* What is told of each file.                                              *)
ToldCodes == [name \in DOMAIN reported |-> Told(reported[name])]

StatusFiled ==
  /\ status \in StatusValues
  /\ file.type \in {"UploadStatus", "DownloadStatus"}
  /\ ListedAs(status.files, ToldCodes)
  /\ ended => \A name \in DOMAIN reported : FileIsFinal(reported[name])
  /\ bytes # <<>> => file.value[7] = List(status.files)
  /\ arrived # <<>> => arrived = bytes

ReportInv == FileInv /\ (WholeFile \/ StatusFiled)

(* The files to begin with hold what their layouts say.                    *)
LEMMA FilesAre ==
  ASSUME NEW f \in Files
  PROVE  IsFile(f) /\ (f.value = <<>> \/ IsValue(FileTypes[f.type], f.value))
BY ContentsAssumption, RequestsAssumption, OperationsRange
   DEF IsFile, IsId, IsPeer, IsRequested

(* A file that is held as a whole has no status.                           *)
LEMMA NoneIsNoStatus == NoStatus \notin StatusValues
<1> SUFFICES ASSUME NoStatus \in StatusValues
             PROVE  FALSE
  OBVIOUS
<1>1. "counter" \in DOMAIN NoStatus
  BY DEF StatusValues
<1> QED
  BY <1>1 DEF NoStatus

(* What the actions make of what they leave alone.                         *)
LEMMA SameFile ==
  ASSUME file' = file
  PROVE  /\ IsFile(file)' = IsFile(file)
         /\ Taken(Filename(file.id, file.type))' = Taken(Filename(file.id, file.type))
         /\ bytes' = bytes => Encoded' = Encoded
<1>1. IsFile(file)' = IsFile(file)
  OBVIOUS
<1>2. Taken(Filename(file.id, file.type))' = Taken(Filename(file.id, file.type))
  BY DEF Taken, RequestType, Initialisation
<1>3. bytes' = bytes => Encoded' = Encoded
  BY DEF Encoded
<1> QED
  BY <1>1, <1>2, <1>3

(* No file is taken before the request.                                    *)
LEMMA NotRequestedYet == Unrequested \notin Types
BY SMT DEF Unrequested, Types, Extension

(* A request leaves the invariant of a file in place.                      *)
LEMMA RequestsFileInv ==
  ASSUME FileInv, Requests
  PROVE  FileInv'
<1> HIDE DEF Types
<1>1. taken = Unrequested /\ taken' = Taken(Filename(file.id, file.type))
  BY DEF Requests
<1>2. UNCHANGED <<file, bytes, arrived, decoded>>
  BY DEF Requests
<1>3. arrived = <<>> /\ decoded = Nothing
  BY <1>1, NotRequestedYet DEF FileInv
<1>4. IsFile(file)' /\ (taken' # Unrequested => taken' = Taken(Filename(file.id, file.type))')
  BY <1>1, <1>2, SameFile DEF FileInv
<1>5. bytes' # <<>> => Encoded'
  BY <1>2, SameFile DEF FileInv
<1> QED
  BY <1>2, <1>3, <1>4, <1>5 DEF FileInv

(* Bytes that arrive leave it in place.                                    *)
LEMMA ArrivesFileInv ==
  ASSUME FileInv, NEW raw, Arrives(raw)
  PROVE  FileInv'
<1> HIDE DEF Types
<1>1. bytes # <<>> /\ taken \in Types /\ arrived = <<>>
  BY DEF Arrives
<1>2. UNCHANGED <<file, bytes, taken, decoded>>
  BY DEF Arrives
<1>3. decoded = Nothing
  BY <1>1 DEF FileInv
<1>4. IsFile(file)' /\ (taken' # Unrequested => taken' = Taken(Filename(file.id, file.type))')
  BY <1>2, SameFile DEF FileInv
<1>5. bytes' # <<>> => Encoded'
  BY <1>2, SameFile DEF FileInv
<1> QED
  BY <1>1, <1>2, <1>3, <1>4, <1>5 DEF FileInv

(* The decoding of what has arrived leaves it in place.                    *)
LEMMA DecodesFileInv ==
  ASSUME FileInv, Decodes
  PROVE  FileInv'
<1> HIDE DEF Types
<1>1. arrived # <<>> /\ decoded' = Decode(taken, arrived)
  BY DEF Decodes
<1>2. UNCHANGED <<file, bytes, taken, arrived>>
  BY DEF Decodes
<1>3. decoded' # Nothing => arrived' # <<>> /\ decoded' = Decode(taken, arrived)'
  BY <1>1, <1>2
<1>4. IsFile(file)' /\ (taken' # Unrequested => taken' = Taken(Filename(file.id, file.type))')
  BY <1>2, SameFile DEF FileInv
<1>5. bytes' # <<>> => Encoded'
  BY <1>2, SameFile DEF FileInv
<1>6. arrived' # <<>> => bytes' # <<>> /\ taken' \in Types
  BY <1>2 DEF FileInv
<1> QED
  BY <1>3, <1>4, <1>5, <1>6 DEF FileInv

(* The bytes are written: of a file that is held, or of a status.          *)
LEMMA WritesFileInv ==
  ASSUME FileInv, bytes = <<>>, IsFile(file'), Encoded',
         file'.id = file.id, file'.type = file.type, file'.requested = file.requested,
         UNCHANGED <<taken, arrived, decoded>>
  PROVE  FileInv'
<1> HIDE DEF Types
<1>1. arrived = <<>> /\ decoded = Nothing
  BY DEF FileInv
<1>2. taken' # Unrequested => taken' = Taken(Filename(file.id, file.type))'
  BY DEF FileInv, Taken, RequestType, Initialisation
<1> QED
  BY <1>1, <1>2 DEF FileInv

(* A file that is held as a whole on its way.                              *)
LEMMA WholeFileStep ==
  ASSUME ReportInv, status = NoStatus, FileNext, UNCHANGED reportVars
  PROVE  ReportInv'
<1> HIDE DEF Types
<1>1. FileInv /\ WholeFile /\ status' = NoStatus
  BY NoneIsNoStatus DEF ReportInv, StatusFiled, reportVars
<1>2. CASE Encodes
  <2>1. /\ bytes = <<>>
        /\ Fits(FileTypes[file.type], file.value, file.peer)
        /\ bytes' = Encode(file.type, file.version, file.value, file.peer)
        /\ UNCHANGED <<file, taken, arrived, decoded>>
    BY <1>2 DEF Encodes
  <2>2. file \in Files /\ file.value # <<>>
    BY <1>1 DEF WholeFile
  <2>3. IsFile(file) /\ IsValue(FileTypes[file.type], file.value)
    BY <2>2, FilesAre
  <2>4. Encoded'
    BY <2>1, <2>3 DEF Encoded
  <2>5. FileInv'
    BY <1>1, <2>1, <2>3, <2>4, WritesFileInv
  <2>6. SizeFits(Len(bytes'))
    BY <2>1, <2>2, SizeAssumption
  <2>7. arrived' = <<>>
    BY <1>1, <2>1 DEF FileInv
  <2> QED
    BY <1>1, <2>1, <2>2, <2>5, <2>6, <2>7 DEF ReportInv, WholeFile
<1>3. CASE Requests
  <2>1. FileInv'
    BY <1>1, <1>3, RequestsFileInv
  <2>2. UNCHANGED <<file, bytes, arrived>>
    BY <1>3 DEF Requests
  <2>3. WholeFile'
    BY <1>1, <2>2 DEF WholeFile, ArrivedShorter, ArrivedLonger, Body
  <2> QED
    BY <2>1, <2>3 DEF ReportInv
<1>4. CASE Arrival
  <2>1. ASSUME NEW raw, Arrives(raw)
        PROVE  FileInv' /\ UNCHANGED <<file, bytes>> /\ arrived' = raw
    BY <1>1, <2>1, ArrivesFileInv DEF Arrives
  <2>2. CASE Arrives(bytes)
    BY <1>1, <2>1, <2>2 DEF ReportInv, WholeFile
  <2>3. CASE Shorter
    <3>1. PICK raw : /\ Arrives(raw)
                     /\ \/ \E length \in 1..(Len(bytes) - 1) : raw = SubSeq(bytes, 1, length)
                        \/ \E length \in 0..(Len(Body) - 1) :
                             raw = WithHeader(file.version, SubSeq(Body, 1, length))
      BY <2>3 DEF Shorter
    <3>2. FileInv' /\ UNCHANGED <<file, bytes>> /\ arrived' = raw
      BY <2>1, <3>1
    <3>3. ArrivedShorter'
      BY <3>1, <3>2 DEF ArrivedShorter, Body
    <3> QED
      BY <1>1, <3>2, <3>3 DEF ReportInv, WholeFile
  <2>4. CASE Longer
    <3>1. PICK raw : /\ Arrives(raw)
                     /\ \E trailer \in Trailers :
                          raw = bytes \o trailer \/ raw = WithHeader(file.version, Body \o trailer)
      BY <2>4 DEF Longer
    <3>2. FileInv' /\ UNCHANGED <<file, bytes>> /\ arrived' = raw
      BY <2>1, <3>1
    <3>3. ArrivedLonger'
      BY <3>1, <3>2 DEF ArrivedLonger, Body
    <3> QED
      BY <1>1, <3>2, <3>3 DEF ReportInv, WholeFile
  <2> QED
    BY <1>4, <2>2, <2>3, <2>4 DEF Arrival
<1>5. CASE Decodes
  <2>1. FileInv'
    BY <1>1, <1>5, DecodesFileInv
  <2>2. UNCHANGED <<file, bytes, arrived>>
    BY <1>5 DEF Decodes
  <2>3. WholeFile'
    BY <1>1, <2>2 DEF WholeFile, ArrivedShorter, ArrivedLonger, Body
  <2> QED
    BY <2>1, <2>3 DEF ReportInv
<1> QED
  BY <1>2, <1>3, <1>4, <1>5 DEF FileNext

-----------------------------------------------------------------------------
(* The status file on its way.                                             *)

(* The list of a status that stays is the same.                            *)
LEMMA SameList == ASSUME file' = file, status' = status PROVE List(status.files)' = List(status.files)
BY DEF List, IsUpload, LoadFields, FileFields

(* A status file on its way.                                               *)
LEMMA StatusFileTransferStep ==
  ASSUME ReportInv, StatusFileTransfer
  PROVE  ReportInv'
<1> HIDE DEF Types
<1>1. status # NoStatus /\ UNCHANGED <<status, reported, ended>>
  BY DEF StatusFileTransfer, reportVars
<1>2. FileInv /\ StatusFiled
  BY <1>1 DEF ReportInv, WholeFile
<1>3. /\ FileInv' /\ UNCHANGED <<file, bytes>>
      /\ arrived' = arrived \/ arrived' = bytes
  <2>1. CASE Requests
    BY <1>2, <2>1, RequestsFileInv DEF Requests
  <2>2. CASE Arrives(bytes)
    <3>1. FileInv'
      BY <1>2, <2>2, ArrivesFileInv
    <3> QED
      BY <2>2, <3>1 DEF Arrives
  <2>3. CASE Decodes
    BY <1>2, <2>3, DecodesFileInv DEF Decodes
  <2> QED
    BY <2>1, <2>2, <2>3 DEF StatusFileTransfer
<1>4. List(status.files)' = List(status.files)
  BY <1>1, <1>3, SameList
<1>5. ListedAs(status.files, ToldCodes)' = ListedAs(status.files, ToldCodes)
  BY <1>1 DEF ToldCodes
<1>6. /\ status' \in StatusValues
      /\ file'.type \in {"UploadStatus", "DownloadStatus"}
      /\ ListedAs(status.files, ToldCodes)'
      /\ ended' => \A name \in DOMAIN reported' : FileIsFinal(reported'[name])
      /\ bytes' # <<>> => file'.value[7] = List(status.files)'
      /\ arrived' # <<>> => arrived' = bytes'
  BY <1>1, <1>2, <1>3, <1>4, <1>5 DEF StatusFiled
<1>7. StatusFiled'
  BY <1>6 DEF StatusFiled
<1> QED
  BY <1>3, <1>7 DEF ReportInv

(* A status file that has been read gives way to the next one.             *)
LEMMA StatusFileCompletedStep ==
  ASSUME ReportInv, StatusFileCompleted
  PROVE  ReportInv'
<1> HIDE DEF Types
<1>1. status # NoStatus /\ UNCHANGED <<file, status, reported, ended>>
  BY DEF StatusFileCompleted, reportVars
<1>2. bytes' = <<>> /\ taken' = Unrequested /\ arrived' = <<>> /\ decoded' = Nothing
  BY DEF StatusFileCompleted
<1>3. FileInv /\ StatusFiled
  BY <1>1 DEF ReportInv, WholeFile
<1>4. FileInv'
  BY <1>1, <1>2, <1>3 DEF FileInv
<1>5. /\ status' \in StatusValues
      /\ file'.type \in {"UploadStatus", "DownloadStatus"}
      /\ ListedAs(status.files, ToldCodes)'
      /\ ended' => \A name \in DOMAIN reported' : FileIsFinal(reported'[name])
  BY <1>1, <1>3 DEF StatusFiled, ToldCodes
<1>6. StatusFiled'
  BY <1>2, <1>5 DEF StatusFiled
<1> QED
  BY <1>4, <1>6 DEF ReportInv

(* Values that fit the fields of status files.                             *)
LEMMA FieldsHold ==
  ASSUME NEW value, NEW holds
  PROVE  /\ value \in TextValues => FieldHolds(Text, value, holds)
         /\ value \in 0..100 => FieldHolds(Ratio, value, holds)
         /\ value \in Code.values => FieldHolds(Code, value, holds)
         /\ value \in 0..(Word - 1) => FieldHolds(UInt16, value, holds)
         /\ value \in -HalfWord..(HalfWord - 1) => FieldHolds(Signed, value, holds)
<1> HIDE DEF Byte
<1>1. value \in TextValues => FieldHolds(Text, value, holds)
  BY DEF FieldHolds, Text, TextValues
<1>2. value \in 0..100 => FieldHolds(Ratio, value, holds)
  BY DEF FieldHolds, Ratio
<1>3. value \in Code.values => FieldHolds(Code, value, holds)
  <2>1. Code.is = "number"
    BY DEF Code, Number
  <2> QED
    BY <2>1 DEF FieldHolds
<1>4. value \in 0..(Word - 1) => FieldHolds(UInt16, value, holds)
  BY DEF FieldHolds, UInt16, Number
<1>5. value \in -HalfWord..(HalfWord - 1) => FieldHolds(Signed, value, holds)
  BY DEF FieldHolds, Signed
<1> QED
  BY <1>1, <1>2, <1>3, <1>4, <1>5

(* The status of a load fills its record.                                  *)
LEMMA LoadIsNested ==
  ASSUME NEW load \in EntryValues, load.code \in Code.values
  PROVE  IsNested(UploadLoadStatus, LoadFields(load))
<1> DEFINE layout == UploadLoadStatus
           value == LoadFields(load)
           holds(i) == \A j \in DOMAIN value[i] : IsFlat(layout[i].of, value[i][j])
<1>1. value = [i \in DOMAIN layout |-> value[i]]
  BY DEF LoadFields, UploadLoadStatus
<1>2. /\ load.name \in TextValues /\ load.partNumber \in TextValues /\ load.ratio \in 0..100
      /\ load.description \in TextValues
  BY DEF EntryValues
<1>3. \A i \in DOMAIN layout : FieldHolds(layout[i], value[i], holds(i))
  <2> HIDE DEF holds
  <2>1. FieldHolds(Text, load.name, holds(1)) /\ FieldHolds(Text, load.partNumber, holds(2))
    BY <1>2, FieldsHold
  <2>2. FieldHolds(Ratio, load.ratio, holds(3)) /\ FieldHolds(Code, load.code, holds(4))
    BY <1>2, FieldsHold
  <2>3. FieldHolds(Text, load.description, holds(5))
    BY <1>2, FieldsHold
  <2>4. /\ DOMAIN layout = {1, 2, 3, 4, 5}
        /\ layout[1] = Text /\ layout[2] = Text /\ layout[3] = Ratio /\ layout[4] = Code /\ layout[5] = Text
        /\ value[1] = load.name /\ value[2] = load.partNumber /\ value[3] = load.ratio
        /\ value[4] = load.code /\ value[5] = load.description
    BY DEF LoadFields, UploadLoadStatus
  <2> HIDE DEF layout, value
  <2> QED
    BY <2>1, <2>2, <2>3, <2>4
<1> QED
  BY <1>1, <1>3, Zenon DEF IsNested, IsRecord

(* The status of a file fills its record.                                  *)
LEMMA FileIsNested ==
  ASSUME NEW f \in EntryValues, f.code \in Code.values
  PROVE  IsNested(DownloadFileStatus, FileFields(f))
<1> DEFINE layout == DownloadFileStatus
           value == FileFields(f)
           holds(i) == \A j \in DOMAIN value[i] : IsFlat(layout[i].of, value[i][j])
<1>1. value = [i \in DOMAIN layout |-> value[i]]
  BY DEF FileFields, DownloadFileStatus
<1>2. f.name \in TextValues /\ f.description \in TextValues
  BY DEF EntryValues
<1>3. \A i \in DOMAIN layout : FieldHolds(layout[i], value[i], holds(i))
  <2> HIDE DEF holds
  <2>1. FieldHolds(Text, f.name, holds(1)) /\ FieldHolds(Text, f.description, holds(3))
    BY <1>2, FieldsHold
  <2>2. FieldHolds(Code, f.code, holds(2))
    BY FieldsHold
  <2>4. /\ DOMAIN layout = {1, 2, 3}
        /\ layout[1] = Text /\ layout[2] = Code /\ layout[3] = Text
        /\ value[1] = f.name /\ value[2] = f.code /\ value[3] = f.description
    BY DEF FileFields, DownloadFileStatus
  <2> HIDE DEF layout, value
  <2> QED
    BY <2>1, <2>2, <2>4
<1> QED
  BY <1>1, <1>3, Zenon DEF IsNested, IsRecord

(* The records that a status file of the type lists.                       *)
LEMMA ListIsNested ==
  ASSUME file.type \in {"UploadStatus", "DownloadStatus"}, NEW files \in Seq(EntryValues),
         \A i \in 1..Len(files) : files[i].code \in Code.values
  PROVE  /\ Len(FileTypes[file.type]) = 7
         /\ DOMAIN List(files) = 1..Len(files)
         /\ List(files) \in Seq(Range(List(files)))
         /\ \A j \in DOMAIN List(files) : IsNested(FileTypes[file.type][7].of, List(files)[j])
<1> DEFINE value == List(files)
           record == FileTypes[file.type][7].of
<1>1. DOMAIN files = 1..Len(files) /\ Len(files) \in Nat /\ \A i \in 1..Len(files) : files[i] \in EntryValues
  OBVIOUS
<1>2. /\ Len(FileTypes[file.type]) = 7
      /\ record = IF IsUpload THEN UploadLoadStatus ELSE DownloadFileStatus
  BY DEF FileTypes, UploadOperationStatusFile, DownloadOperationStatusFile, ListOf, IsUpload
<1>3. /\ DOMAIN value = 1..Len(files)
      /\ \A i \in 1..Len(files) :
           value[i] = IF IsUpload THEN LoadFields(files[i]) ELSE FileFields(files[i])
  BY <1>1 DEF List
<1>4. value = [i \in 1..Len(files) |-> value[i]]
  BY <1>1 DEF List
<1> HIDE DEF value, record
<1>5. value \in Seq(Range(value))
  <2>1. \A i \in 1..Len(files) : value[i] \in Range(value)
    BY <1>3 DEF Range
  <2> QED
    BY <1>1, <1>4, <2>1
<1>6. \A j \in DOMAIN value : IsNested(record, value[j])
  BY <1>1, <1>2, <1>3, LoadIsNested, FileIsNested
<1> QED
  BY <1>2, <1>3, <1>5, <1>6 DEF value, record

(* A status fills a status file.                                           *)
LEMMA StatusIsValue ==
  ASSUME file.type \in {"UploadStatus", "DownloadStatus"}, NEW s \in StatusValues,
         s.code \in Code.values, \A i \in 1..Len(s.files) : s.files[i].code \in Code.values
  PROVE  IsValue(FileTypes[file.type], StatusFields(s))
<1> DEFINE layout == FileTypes[file.type]
           value == StatusFields(s)
           list == List(s.files)
           holds(i) == \A j \in DOMAIN value[i] : IsNested(layout[i].of, value[i][j])
<1> HIDE DEF Types
<1>1. /\ DOMAIN layout = {1, 2, 3, 4, 5, 6, 7}
      /\ layout[1] = Code /\ layout[2] = Text /\ layout[3] = UInt16 /\ layout[4] = UInt16
      /\ layout[5] = Signed /\ layout[6] = Ratio /\ layout[7].is = "list"
  BY DEF FileTypes, UploadOperationStatusFile, DownloadOperationStatusFile, ListOf
<1>2. value = <<s.code, s.description, s.counter, s.exceptionTimer, s.estimatedTime, s.listRatio, list>>
  BY DEF StatusFields, List
<1>3. s.files \in Seq(EntryValues)
  BY DEF StatusValues
<1>4. list \in Seq(Range(list)) /\ \A j \in DOMAIN list : IsNested(layout[7].of, list[j])
  BY <1>3, ListIsNested
<1> HIDE DEF layout, list
<1>5. value = [i \in DOMAIN layout |-> value[i]]
  <2> DEFINE t == <<s.code, s.description, s.counter, s.exceptionTimer, s.estimatedTime, s.listRatio, list>>
  <2>1. t = [i \in {1, 2, 3, 4, 5, 6, 7} |-> t[i]]
    OBVIOUS
  <2> QED
    BY <1>1, <1>2, <2>1, Zenon
<1>6. /\ value[1] = s.code /\ value[2] = s.description /\ value[3] = s.counter
      /\ value[4] = s.exceptionTimer /\ value[5] = s.estimatedTime /\ value[6] = s.listRatio
      /\ value[7] = list
  BY <1>2
<1> HIDE DEF value
<1>7. \A i \in DOMAIN layout : FieldHolds(layout[i], value[i], holds(i))
  <2>1. holds(7)
    BY <1>4, <1>6
  <2> HIDE DEF holds
  <2>2. FieldHolds(layout[7], value[7], holds(7))
    BY <1>1, <1>4, <1>6, <2>1 DEF FieldHolds
  <2>3. s.description \in TextValues /\ s.counter \in 0..(Word - 1) /\ s.listRatio \in 0..100
    BY DEF StatusValues
  <2>4. s.exceptionTimer \in 0..(Word - 1) /\ s.estimatedTime \in -HalfWord..(HalfWord - 1)
    <3>1. s.exceptionTimer = 0 /\ s.estimatedTime \in {-1, 0, 7}
      BY DEF StatusValues
    <3>2. Word > 0 /\ HalfWord > 7
      BY DEF Word, HalfWord
    <3> QED
      BY <3>1, <3>2, Words
  <2>5. FieldHolds(Code, s.code, holds(1)) /\ FieldHolds(Text, s.description, holds(2))
    BY <2>3, FieldsHold
  <2>6. FieldHolds(UInt16, s.counter, holds(3)) /\ FieldHolds(UInt16, s.exceptionTimer, holds(4))
    BY <2>3, <2>4, FieldsHold
  <2>7. FieldHolds(Signed, s.estimatedTime, holds(5)) /\ FieldHolds(Ratio, s.listRatio, holds(6))
    BY <2>3, <2>4, FieldsHold
  <2> QED
    BY <1>1, <1>6, <2>2, <2>5, <2>6, <2>7
<1>8. IsValue(layout, value)
  BY <1>5, <1>7, Zenon DEF IsValue, IsRecord
<1> QED
  BY <1>8 DEF layout, value

(* The codes that are set are codes of files, the final ones final.        *)
LEMMA CodesAre ==
  /\ Codes.OperationAccepted \in Code.values
  /\ Codes.OperationInProgress \in Code.values /\ Codes.OperationInProgressAdditionalInfo \in Code.values
  /\ Codes.Invalid \notin Code.values
  /\ \A final : FinalCode(final) \in Code.values /\ FileIsFinal(FinalCode(final))
  /\ \A description : ProgressCode(description) \in Code.values
  /\ Told(Codes.OperationAccepted) = Codes.OperationAccepted
  /\ \A description : Told(ProgressCode(description)) = ProgressCode(description)
  /\ \A final : Told(ReportedCode(final)) = FinalCode(final)
  /\ \A code : FileIsFinal(Told(code)) <=> FileIsFinal(code)
<1>1. Code.values = {1, 2, 3, 4, 4096, 4098, 4099, 4100, 4101, 4103}
  BY DEF Code, Number
<1>2. /\ Codes.OperationAccepted = 1 /\ Codes.OperationInProgress = 2 /\ Codes.OperationCompleted = 3
      /\ Codes.OperationInProgressAdditionalInfo = 4 /\ Codes.Invalid = 65535
      /\ Codes.OperationAbortedByTargetHw = 4099 /\ Codes.OperationAbortedByDlp = 4100
      /\ Codes.OperationAbortedByOperator = 4101
      /\ Codes.LoadPartNumberOrDownloadFileFailed = 4103
  BY DEF Codes
<1>3. \A final : FinalCode(final) \in {3, 4099, 4100, 4101}
  BY <1>2 DEF FinalCode
<1>4. \A code \in {3, 4099, 4100, 4101} : FileIsFinal(code)
  BY <1>2 DEF FileIsFinal
<1>5. \A description : ProgressCode(description) \in {2, 4}
  BY <1>2 DEF ProgressCode
<1>6. \A code \in {1, 2, 3, 4, 4099, 4100, 4101} : Told(code) = code
  BY <1>2 DEF Told
<1>7. \A final : Told(ReportedCode(final)) = FinalCode(final)
  <2> TAKE final
  <2>1. CASE final = "LoadPartNumberOrDownloadFileFailed"
    BY <1>2, <2>1 DEF ReportedCode, Told, FinalCode
  <2>2. CASE final # "LoadPartNumberOrDownloadFileFailed"
    BY <1>3, <1>6, <2>2 DEF ReportedCode
  <2> QED
    BY <2>1, <2>2
<1>8. \A code : FileIsFinal(Told(code)) <=> FileIsFinal(code)
  BY <1>2 DEF FileIsFinal, Told
<1> QED
  BY <1>1, <1>2, <1>3, <1>4, <1>5, <1>6, <1>7, <1>8

(* All files that are listed have such a code.                             *)
LEMMA ListedCodes ==
  ASSUME NEW files, NEW codes, ListedAs(files, codes)
  PROVE  \A i \in 1..Len(files) : files[i].code \in Code.values
BY DEF ListedAs

(* Set changes no file in the list.                                        *)
LEMMA StatusSet ==
  ASSUME status \in StatusValues, NEW code \in AnyCode, NEW description \in TextValues
  PROVE  Set(code, description) \in StatusValues /\ Set(code, description).files = status.files
         /\ Set(code, description).code = code
BY DEF Set, StatusValues

(* A status file holds the status as it is now.                            *)
LEMMA StatusFileStep ==
  ASSUME ReportInv, StatusFile
  PROVE  ReportInv'
<1> DEFINE accepted == IF status.code = Codes.Invalid THEN Set(Codes.OperationAccepted, <<>>) ELSE status
           value == StatusFields(accepted)
<1> HIDE DEF Types
<1>1. /\ status # NoStatus /\ bytes = <<>>
      /\ file' = [file EXCEPT !.value = value]
      /\ Fits(FileTypes[file.type], file'.value, file.peer)
      /\ bytes' = Encode(file.type, file.version, file'.value, file.peer)
      /\ status' = [accepted EXCEPT !.counter = (@ + 1) % Word]
      /\ UNCHANGED <<taken, arrived, decoded, reported, ended>>
  BY DEF StatusFile
<1>2. FileInv /\ StatusFiled
  BY <1>1 DEF ReportInv, WholeFile
<1>3. /\ accepted \in StatusValues /\ accepted.files = status.files
      /\ accepted.code \in Code.values
  <2>1. CASE status.code = Codes.Invalid
    <3>1. Codes.OperationAccepted \in AnyCode /\ <<>> \in TextValues
      BY CodesAre, EmptySeq DEF AnyCode, TextValues
    <3> QED
      BY <1>2, <2>1, <3>1, CodesAre, StatusSet DEF StatusFiled
  <2>2. CASE status.code # Codes.Invalid
    <3>1. status \in StatusValues /\ status.code \in AnyCode
      BY <1>2 DEF StatusFiled, StatusValues
    <3> QED
      BY <2>2, <3>1 DEF AnyCode
  <2> QED
    BY <2>1, <2>2
<1>4. file.type \in {"UploadStatus", "DownloadStatus"} /\ ListedAs(status.files, ToldCodes)
  BY <1>2 DEF StatusFiled
<1>5. IsValue(FileTypes[file.type], value) /\ value[7] = List(status.files)
  <2> HIDE DEF accepted
  <2>1. IsValue(FileTypes[file.type], value)
    BY <1>3, <1>4, ListedCodes, StatusIsValue
  <2>2. value[7] = List(status.files)
    BY <1>3 DEF StatusFields, List
  <2> QED
    BY <2>1, <2>2
<1> HIDE DEF accepted, value
<1>6. /\ file'.id = file.id /\ file'.type = file.type /\ file'.version = file.version
      /\ file'.peer = file.peer /\ file'.requested = file.requested /\ file'.value = value
      /\ IsFile(file')
  <2>1. file = [id |-> file.id, type |-> file.type, version |-> file.version, value |-> file.value,
                peer |-> file.peer, requested |-> file.requested]
    BY <1>2 DEF FileInv, IsFile
  <2>2. file' = [id |-> file.id, type |-> file.type, version |-> file.version, value |-> value,
                 peer |-> file.peer, requested |-> file.requested]
    BY <1>1, <2>1
  <2>3. /\ file'.id = file.id /\ file'.type = file.type /\ file'.version = file.version
        /\ file'.peer = file.peer /\ file'.requested = file.requested /\ file'.value = value
    BY <2>2
  <2>4. IsFile(file')
    BY <1>2, <2>2, <2>3 DEF FileInv, IsFile
  <2> QED
    BY <2>3, <2>4
<1>7. Encoded'
  BY <1>1, <1>5, <1>6 DEF Encoded
<1>8. FileInv'
  BY <1>1, <1>2, <1>6, <1>7, WritesFileInv
<1>9. status' \in StatusValues /\ status'.files = status.files
  <2>1. accepted.counter \in 0..(Word - 1)
    BY <1>3 DEF StatusValues
  <2>2. (accepted.counter + 1) % Word \in 0..(Word - 1)
    <3>1. accepted.counter + 1 \in Nat
      BY <2>1, Words
    <3>2. (accepted.counter + 1) % Word \in Nat /\ (accepted.counter + 1) % Word < Word
      BY <3>1, Halves
    <3> QED
      BY <3>2, Words
  <2> QED
    BY <1>1, <1>3, <2>2 DEF StatusValues
<1>10. List(status.files)' = List(status.files)
  BY <1>6, <1>9 DEF List, IsUpload, LoadFields, FileFields
<1>11. arrived' = <<>>
  BY <1>1, <1>2 DEF FileInv
<1>12. /\ file'.type \in {"UploadStatus", "DownloadStatus"}
       /\ ListedAs(status.files, ToldCodes)'
       /\ ended' => \A name \in DOMAIN reported' : FileIsFinal(reported'[name])
       /\ file'.value[7] = List(status.files)'
  BY <1>1, <1>2, <1>4, <1>5, <1>6, <1>9, <1>10 DEF StatusFiled, ToldCodes
<1>13. StatusFiled'
  BY <1>9, <1>11, <1>12 DEF StatusFiled
<1> QED
  BY <1>8, <1>13 DEF ReportInv

-----------------------------------------------------------------------------
(* The files in the list.                                                  *)

(* The first file of a name, if there is one.                              *)
LEMMA IndexOfIs ==
  ASSUME NEW files, Len(files) \in Nat, NEW name
  PROVE  \/ /\ IndexOf(files, name) \in 1..Len(files)
            /\ files[IndexOf(files, name)].name = name
         \/ /\ IndexOf(files, name) = 0
            /\ \A i \in 1..Len(files) : files[i].name # name
<1> DEFINE I == {i \in 1..Len(files) : files[i].name = name}
           index == IndexOf(files, name)
<1>1. index = IF I # {} THEN Min(I) ELSE 0
  BY DEF IndexOf, SelectInSeq
<1>2. CASE I # {}
  <2>1. I \in SUBSET Nat
    OBVIOUS
  <2> HIDE DEF I, index
  <2>2. index \in I
    BY <1>1, <1>2, <2>1, MinIsLeast
  <2> QED
    BY <2>2 DEF I, index
<1>3. CASE I = {}
  <2>1. \A i \in 1..Len(files) : files[i].name # name
    BY <1>3
  <2> QED
    BY <1>1, <1>3, <2>1
<1> QED
  BY <1>2, <1>3

(* The code of one file is reported.                                       *)
WithCode(codes, name, code) ==
  [n \in DOMAIN codes \cup {name} |-> IF n = name THEN code ELSE codes[n]]

(* A file with a new name at the end of the list.                          *)
LEMMA EntryAdded ==
  ASSUME NEW files \in Seq(EntryValues), NEW codes, ListedAs(files, codes),
         NEW f \in EntryValues, f.code \in Code.values, f.name \notin DOMAIN codes
  PROVE  /\ Append(files, f) \in Seq(EntryValues)
         /\ ListedAs(Append(files, f), WithCode(codes, f.name, f.code))
<1> DEFINE n == Len(files)
           more == Append(files, f)
           told == WithCode(codes, f.name, f.code)
<1> HIDE DEF EntryValues
<1>1. n \in Nat /\ more \in Seq(EntryValues) /\ Len(more) = n + 1
  OBVIOUS
<1>2. more[n + 1] = f /\ \A i \in 1..n : more[i] = files[i]
  OBVIOUS
<1>3. /\ codes \in [DOMAIN codes -> Code.values]
      /\ DOMAIN codes = {files[i].name : i \in 1..n}
      /\ \A i \in 1..n : files[i].code = codes[files[i].name]
      /\ \A i, j \in 1..n : files[i].name = files[j].name => i = j
  BY DEF ListedAs
<1>4. /\ DOMAIN told = DOMAIN codes \cup {f.name}
      /\ told[f.name] = f.code
      /\ \A name \in DOMAIN codes : told[name] = codes[name]
  BY DEF WithCode
<1>5. told = [name \in DOMAIN told |-> told[name]]
  BY DEF WithCode
<1> HIDE DEF more, told, n
<1>6. told \in [DOMAIN told -> Code.values]
  BY <1>3, <1>4, <1>5
<1>7. \A i \in 1..(n + 1) : i \in 1..n \/ i = n + 1
  BY <1>1
<1>8. \A i \in 1..n : files[i].name \in DOMAIN codes /\ i \in 1..(n + 1)
  BY <1>1, <1>3
<1>9. DOMAIN told = {more[i].name : i \in 1..(n + 1)}
  <2>1. \A name \in DOMAIN codes : \E i \in 1..(n + 1) : name = more[i].name
    BY <1>2, <1>3, <1>8
  <2>2. n + 1 \in 1..(n + 1)
    BY <1>1
  <2>3. \A i \in 1..(n + 1) : more[i].name \in DOMAIN told
    BY <1>2, <1>4, <1>7, <1>8
  <2>4. \A name \in DOMAIN told : \E i \in 1..(n + 1) : name = more[i].name
    BY <1>2, <1>4, <2>1, <2>2
  <2> QED
    BY <2>3, <2>4
<1>10. \A i \in 1..(n + 1) : more[i].code = told[more[i].name]
  BY <1>2, <1>3, <1>4, <1>7, <1>8, SMTT(30)
<1>11. \A i, j \in 1..(n + 1) : more[i].name = more[j].name => i = j
  BY <1>2, <1>3, <1>7, <1>8
<1>12. ListedAs(more, told)
  BY <1>1, <1>6, <1>9, <1>10, <1>11 DEF ListedAs
<1> QED
  BY <1>1, <1>12 DEF more, told

(* A file in the list in place of the one of its name.                     *)
LEMMA EntryChanged ==
  ASSUME NEW files \in Seq(EntryValues), NEW codes, ListedAs(files, codes),
         NEW f \in EntryValues, f.code \in Code.values,
         NEW k \in 1..Len(files), files[k].name = f.name
  PROVE  /\ [files EXCEPT ![k] = f] \in Seq(EntryValues)
         /\ ListedAs([files EXCEPT ![k] = f], WithCode(codes, f.name, f.code))
<1> DEFINE n == Len(files)
           changed == [files EXCEPT ![k] = f]
           told == WithCode(codes, f.name, f.code)
<1> HIDE DEF EntryValues
<1>1. n \in Nat /\ changed \in Seq(EntryValues) /\ Len(changed) = n
  OBVIOUS
<1>2. changed[k] = f /\ \A i \in 1..n : i # k => changed[i] = files[i]
  OBVIOUS
<1>3. /\ codes \in [DOMAIN codes -> Code.values]
      /\ DOMAIN codes = {files[i].name : i \in 1..n}
      /\ \A i \in 1..n : files[i].code = codes[files[i].name]
      /\ \A i, j \in 1..n : files[i].name = files[j].name => i = j
  BY DEF ListedAs
<1>4. f.name \in DOMAIN codes
  BY <1>3
<1>5. /\ DOMAIN told = DOMAIN codes
      /\ told[f.name] = f.code
      /\ \A name \in DOMAIN codes : name # f.name => told[name] = codes[name]
  BY <1>4 DEF WithCode
<1>6. told = [name \in DOMAIN told |-> told[name]]
  BY DEF WithCode
<1> HIDE DEF changed, told, n
<1>7. k \in 1..n
  BY DEF n
<1>8. told \in [DOMAIN told -> Code.values]
  BY <1>3, <1>5, <1>6
<1>9. \A i \in 1..n : changed[i].name = files[i].name
  BY <1>2
<1>10. DOMAIN told = {changed[i].name : i \in 1..n}
  <2>1. {changed[i].name : i \in 1..n} = {files[i].name : i \in 1..n}
    BY <1>9
  <2> QED
    BY <1>3, <1>5, <2>1
<1>11. \A i \in 1..n : changed[i].code = told[changed[i].name]
  <2> TAKE i \in 1..n
  <2>1. CASE i = k
    BY <1>2, <1>5, <2>1
  <2>2. CASE i # k
    <3>1. files[i].name # f.name /\ files[i].name \in DOMAIN codes
      BY <1>3, <1>7, <2>2
    <3>2. changed[i] = files[i]
      BY <1>2, <2>2
    <3>3. told[files[i].name] = codes[files[i].name]
      BY <1>5, <3>1
    <3>4. files[i].code = codes[files[i].name]
      BY <1>3
    <3> QED
      BY <3>2, <3>3, <3>4
  <2> QED
    BY <2>1, <2>2
<1>12. \A i, j \in 1..n : changed[i].name = changed[j].name => i = j
  BY <1>3, <1>9
<1>13. ListedAs(changed, told)
  BY <1>1, <1>8, <1>10, <1>11, <1>12 DEF ListedAs
<1> QED
  BY <1>1, <1>13 DEF changed, told

(* A file that is added has its name.                                      *)
LEMMA NewFileIs ==
  ASSUME NEW name \in TextValues, NEW partNumber \in TextValues
  PROVE  NewFile(name, partNumber) \in EntryValues /\ NewFile(name, partNumber).name = name
<1>1. <<>> \in TextValues
  BY EmptySeq DEF TextValues
<1> QED
  BY <1>1 DEF NewFile, EntryValues, AnyCode

(* A file that is set keeps its name.                                      *)
LEMMA FileSetIs ==
  ASSUME NEW f \in EntryValues, NEW code \in Code.values, NEW description \in TextValues
  PROVE  /\ FileSet(f, code, description) \in EntryValues
         /\ FileSet(f, code, description).name = f.name
         /\ FileSet(f, code, description).code = code
BY DEF FileSet, EntryValues, AnyCode

(* A load that is set keeps its name.                                      *)
LEMMA LoadSetIs ==
  ASSUME NEW f \in EntryValues, NEW ratio \in 0..100,
         NEW code \in Code.values, NEW description \in TextValues
  PROVE  /\ LoadSet(f, ratio, code, description) \in EntryValues
         /\ LoadSet(f, ratio, code, description).name = f.name
         /\ LoadSet(f, ratio, code, description).code = code
BY DEF FileSet, LoadSet, EntryValues, AnyCode

(* A file is found in the list, or added at its end.                       *)
LEMMA ListedIs ==
  ASSUME NEW files \in Seq(EntryValues), NEW name \in TextValues
  PROVE  LET listed == Listed(files, name)
             index == IndexOf(listed, name)
         IN  /\ listed[index] \in EntryValues /\ listed[index].name = name
             /\ \/ listed = files /\ index \in 1..Len(files)
                \/ /\ listed = Append(files, NewFile(name, <<>>)) /\ index = Len(files) + 1
                   /\ \A i \in 1..Len(files) : files[i].name # name
<1> DEFINE new == NewFile(name, <<>>)
           more == Append(files, new)
           n == Len(files)
<1> HIDE DEF EntryValues, TextValues
<1>1. <<>> \in TextValues
  BY EmptySeq DEF TextValues
<1>2. new \in EntryValues /\ new.name = name
  BY <1>1, NewFileIs
<1> HIDE DEF new
<1>3. n \in Nat /\ Len(more) = n + 1 /\ more[n + 1] = new /\ \A i \in 1..n : more[i] = files[i]
  BY <1>2
<1>4. CASE IndexOf(files, name) = 0
  <2>1. Listed(files, name) = more
    BY <1>4 DEF Listed, new
  <2>2. \A i \in 1..n : files[i].name # name
    BY <1>3, <1>4, IndexOfIs
  <2> HIDE DEF more, n
  <2>3. IndexOf(more, name) = n + 1
    <3>1. n + 1 \in 1..Len(more) /\ Len(more) \in Nat
      BY <1>3
    <3>2. \A i \in 1..n : more[i].name # name
      BY <1>3, <2>2
    <3>3. IndexOf(more, name) \in 1..(n + 1) /\ more[IndexOf(more, name)].name = name
      BY <1>2, <1>3, <3>1, IndexOfIs
    <3> QED
      BY <1>3, <3>2, <3>3
  <2> QED
    BY <1>2, <1>3, <2>1, <2>2, <2>3 DEF more, n, new
<1>5. CASE IndexOf(files, name) # 0
  <2>1. Listed(files, name) = files
    BY <1>5 DEF Listed
  <2>2. IndexOf(files, name) \in 1..n /\ files[IndexOf(files, name)].name = name
    BY <1>3, <1>5, IndexOfIs
  <2>3. files[IndexOf(files, name)] \in EntryValues
    BY <2>2
  <2> QED
    BY <2>1, <2>2, <2>3
<1> QED
  BY <1>4, <1>5

(* The file that is set is that of the name.                               *)
LEMMA FileNamedIs ==
  ASSUME status \in StatusValues, NEW name \in TextValues
  PROVE  FileNamed(name) \in EntryValues /\ FileNamed(name).name = name
<1>1. status.files \in Seq(EntryValues)
  BY DEF StatusValues
<1> QED
  BY <1>1, ListedIs DEF FileNamed

(* The list with a file set is the one with its code reported.             *)
LEMMA FilesWithIs ==
  ASSUME status \in StatusValues, NEW codes, ListedAs(status.files, codes),
         NEW f \in EntryValues, f.code \in Code.values
  PROVE  /\ FilesWith(f) \in Seq(EntryValues)
         /\ ListedAs(FilesWith(f), WithCode(codes, f.name, f.code))
<1> DEFINE files == status.files
           name == f.name
           listed == Listed(files, name)
           index == IndexOf(listed, name)
           new == NewFile(name, <<>>)
<1>1. files \in Seq(EntryValues) /\ name \in TextValues
  BY DEF StatusValues, EntryValues
<1>2. FilesWith(f) = [listed EXCEPT ![index] = f]
  BY DEF FilesWith
<1> HIDE DEF files
<1>3. /\ listed[index].name = name
      /\ \/ listed = files /\ index \in 1..Len(files)
         \/ /\ listed = Append(files, new) /\ index = Len(files) + 1
            /\ \A i \in 1..Len(files) : files[i].name # name
  BY <1>1, ListedIs
<1> HIDE DEF listed, index
<1>4. ListedAs(files, codes)
  BY DEF files
<1>5. CASE listed = files /\ index \in 1..Len(files)
  <2> DEFINE k == index
  <2>1. k \in 1..Len(files) /\ files[k].name = f.name /\ FilesWith(f) = [files EXCEPT ![k] = f]
    BY <1>2, <1>3, <1>5
  <2> HIDE DEF k, EntryValues
  <2>2. [files EXCEPT ![k] = f] \in Seq(EntryValues)
    BY <1>1, <1>4, <2>1, EntryChanged
  <2>3. ListedAs([files EXCEPT ![k] = f], WithCode(codes, f.name, f.code))
    BY <1>1, <1>4, <2>1, EntryChanged
  <2> QED
    BY <2>1, <2>2, <2>3
<1>6. CASE /\ listed = Append(files, new) /\ index = Len(files) + 1
           /\ \A i \in 1..Len(files) : files[i].name # name
  <2>1. name \notin DOMAIN codes
    BY <1>4, <1>6 DEF ListedAs
  <2>2. [listed EXCEPT ![index] = f] = Append(files, f)
    <3>1. new \in EntryValues
      <4>1. <<>> \in TextValues
        BY EmptySeq DEF TextValues
      <4> QED
        BY <1>1, <4>1, NewFileIs
    <3> HIDE DEF new, EntryValues
    <3> DEFINE n == Len(files)
               more == Append(files, new)
               left == [more EXCEPT ![n + 1] = f]
               right == Append(files, f)
    <3>2. /\ n \in Nat
          /\ more \in Seq(EntryValues) /\ Len(more) = n + 1 /\ \A i \in 1..n : more[i] = files[i]
          /\ right \in Seq(EntryValues) /\ Len(right) = n + 1
          /\ right[n + 1] = f /\ \A i \in 1..n : right[i] = files[i]
      BY <1>1, <3>1
    <3> HIDE DEF more, right, n
    <3>3. /\ left \in Seq(EntryValues) /\ Len(left) = n + 1
          /\ left[n + 1] = f /\ \A i \in 1..n : left[i] = more[i]
      BY <3>2
    <3> HIDE DEF left
    <3>4. \A i \in 1..(n + 1) : left[i] = right[i]
      BY <3>2, <3>3
    <3>5. left = right
      BY <3>2, <3>3, <3>4, SeqEqual
    <3> QED
      BY <1>6, <3>5 DEF left, right, more, n
  <2> HIDE DEF EntryValues, name
  <2>3. /\ Append(files, f) \in Seq(EntryValues)
        /\ ListedAs(Append(files, f), WithCode(codes, f.name, f.code))
    BY <1>1, <1>4, <2>1, EntryAdded DEF name
  <2> QED
    BY <1>2, <2>2, <2>3
<1> QED
  BY <1>3, <1>5, <1>6

-----------------------------------------------------------------------------
(* The calls.                                                              *)

(* A call that keeps the list true leaves the invariant in place.          *)
LEMMA CallKeeps ==
  ASSUME ReportInv, Call, status' \in StatusValues, ListedAs(status'.files, ToldCodes'),
         ended' => \A name \in DOMAIN reported' : FileIsFinal(reported'[name])
  PROVE  ReportInv'
<1> HIDE DEF Types
<1>1. status # NoStatus /\ bytes = <<>> /\ UNCHANGED <<file, bytes, taken, arrived, decoded>>
  BY DEF Call, fileVars
<1>2. FileInv /\ StatusFiled
  BY <1>1 DEF ReportInv, WholeFile
<1>3. arrived = <<>> /\ decoded = Nothing
  BY <1>1, <1>2 DEF FileInv
<1>4. IsFile(file)' /\ (taken' # Unrequested => taken' = Taken(Filename(file.id, file.type))')
  BY <1>1, <1>2, SameFile DEF FileInv
<1>5. FileInv'
  BY <1>1, <1>3, <1>4 DEF FileInv
<1>6. file'.type \in {"UploadStatus", "DownloadStatus"}
  BY <1>1, <1>2 DEF StatusFiled
<1>7. StatusFiled'
  BY <1>1, <1>3, <1>6 DEF StatusFiled
<1> QED
  BY <1>5, <1>7 DEF ReportInv

(* What the application says of the files fits the fields.                 *)
LEMMA Reports ==
  /\ \A name \in Names : name \in TextValues
  /\ \A partNumber \in LoadPartNumbers : partNumber \in TextValues
  /\ \A description \in Descriptions : description \in TextValues
  /\ \A ratio \in Ratios : ratio \in 0..100
  /\ <<>> \in TextValues
BY ReportAssumption, EmptySeq DEF TextValues

(* A status of the operation leaves the list alone.                        *)
LEMMA OperationReported ==
  ASSUME ReportInv, Call, UNCHANGED reported,
         status' \in StatusValues, status'.files = status.files,
         ended' => \A name \in DOMAIN reported : FileIsFinal(reported[name])
  PROVE  ReportInv'
<1>1. FileInv /\ StatusFiled
  BY DEF ReportInv, WholeFile, Call
<1>2. ListedAs(status'.files, ToldCodes')
  BY <1>1 DEF StatusFiled, ToldCodes
<1> QED
  BY <1>2, CallKeeps

(* An estimate, and a ratio, of a status.                                  *)
LEMMA EstimateSet ==
  ASSUME NEW s \in StatusValues, NEW time \in {-1, 0, 7}
  PROVE  /\ [s EXCEPT !.estimatedTime = time] \in StatusValues
         /\ [s EXCEPT !.estimatedTime = time].files = s.files
BY DEF StatusValues

LEMMA RatioSet ==
  ASSUME NEW s \in StatusValues, NEW ratio \in 0..100
  PROVE  /\ [s EXCEPT !.listRatio = ratio] \in StatusValues
         /\ [s EXCEPT !.listRatio = ratio].files = s.files
BY DEF StatusValues

(* A call sets the status, with an estimate.                               *)
LEMMA SetWithEstimate ==
  ASSUME ReportInv, Call, NEW code \in Code.values, NEW description \in TextValues,
         NEW time \in {-1, 0, 7}
  PROVE  /\ [Set(code, description) EXCEPT !.estimatedTime = time] \in StatusValues
         /\ [Set(code, description) EXCEPT !.estimatedTime = time].files = status.files
<1>1. status \in StatusValues
  BY DEF ReportInv, WholeFile, StatusFiled, Call
<1>2. code \in AnyCode
  BY DEF AnyCode
<1> DEFINE s == Set(code, description)
<1>3. s \in StatusValues /\ s.files = status.files
  BY <1>1, <1>2, StatusSet
<1> HIDE DEF s
<1>4. /\ [s EXCEPT !.estimatedTime = time] \in StatusValues
      /\ [s EXCEPT !.estimatedTime = time].files = s.files
  BY <1>3, EstimateSet
<1> QED
  BY <1>3, <1>4 DEF s

(* A status with an estimate leaves the list alone.                        *)
LEMMA EstimateReported ==
  ASSUME ReportInv, Call, UNCHANGED reported,
         NEW code \in Code.values, NEW description \in TextValues, NEW time \in {-1, 0, 7},
         status' = [Set(code, description) EXCEPT !.estimatedTime = time],
         ended' => \A name \in DOMAIN reported : FileIsFinal(reported[name])
  PROVE  ReportInv'
<1>1. status' \in StatusValues /\ status'.files = status.files
  BY SetWithEstimate
<1> QED
  BY <1>1, OperationReported

(* Each status of the operation.                                           *)
LEMMA OperationReportsStep ==
  ASSUME ReportInv, OperationReports
  PROVE  ReportInv'
<1>1. CASE Accepted
  <2> DEFINE code == Codes.OperationAccepted
             description == <<>>
             time == 0
  <2>1. Call /\ UNCHANGED <<reported, ended>> /\ ~ended
    BY <1>1 DEF Accepted, Call
  <2>2. status' = [Set(code, description) EXCEPT !.estimatedTime = time]
    BY <1>1 DEF Accepted
  <2>3. code \in Code.values /\ description \in TextValues /\ time \in {-1, 0, 7}
    BY CodesAre, Reports
  <2> HIDE DEF code, description, time
  <2> QED
    BY <2>1, <2>2, <2>3, EstimateReported
<1>2. ASSUME NEW description \in Descriptions, InProgress(description, -1)
      PROVE  ReportInv'
  <2> DEFINE code == ProgressCode(description)
             time == -1
  <2>1. Call /\ UNCHANGED <<reported, ended>> /\ ~ended
    BY <1>2 DEF InProgress, Call
  <2>2. status' = [Set(code, description) EXCEPT !.estimatedTime = time]
    BY <1>2 DEF InProgress
  <2>3. code \in Code.values /\ description \in TextValues /\ time \in {-1, 0, 7}
    BY CodesAre, Reports
  <2> HIDE DEF code, time
  <2> QED
    BY <2>1, <2>2, <2>3, EstimateReported
<1>3. ASSUME NEW description \in Descriptions, NEW ratio \in Ratios,
             InProgressWithRatio(description, 7, ratio)
      PROVE  ReportInv'
  <2> DEFINE code == ProgressCode(description)
             time == 7
             s == [Set(code, description) EXCEPT !.estimatedTime = time]
  <2>1. Call /\ UNCHANGED <<reported, ended>> /\ ~ended
    BY <1>3 DEF InProgressWithRatio, Call
  <2>2. status' = [s EXCEPT !.listRatio = ratio]
    BY <1>3 DEF InProgressWithRatio
  <2>3. code \in Code.values /\ description \in TextValues /\ time \in {-1, 0, 7} /\ ratio \in 0..100
    BY CodesAre, Reports
  <2> HIDE DEF code, time
  <2>4. s \in StatusValues /\ s.files = status.files
    BY <2>1, <2>3, SetWithEstimate
  <2> HIDE DEF s
  <2>5. status' \in StatusValues /\ status'.files = status.files
    BY <2>2, <2>3, <2>4, RatioSet
  <2> QED
    BY <2>1, <2>5, OperationReported
<1>4. ASSUME NEW final, Call, SetFinal(final, <<>>),
             ended' => \A name \in DOMAIN reported : FileIsFinal(reported[name])
      PROVE  ReportInv'
  <2> DEFINE code == FinalCode(final)
             description == <<>>
             time == 0
  <2>1. /\ UNCHANGED reported
        /\ status' = [Set(code, description) EXCEPT !.estimatedTime = time]
    BY <1>4 DEF SetFinal
  <2>2. code \in Code.values /\ description \in TextValues /\ time \in {-1, 0, 7}
    BY CodesAre, Reports
  <2> HIDE DEF code, description, time
  <2> QED
    BY <1>4, <2>1, <2>2, EstimateReported
<1>5. ASSUME NEW final \in Finals, Finished(final, <<>>)
      PROVE  ReportInv'
  BY <1>4, <1>5 DEF Finished
<1>6. CASE WrittenFileUnusable
  <2>1. Call /\ SetFinal("AbortedByTargetHardware", <<>>) /\ ~ended /\ ended' = ended
    BY <1>6 DEF WrittenFileUnusable, Call
  <2> QED
    BY <1>4, <2>1
<1> QED
  BY <1>1, <1>2, <1>3, <1>5, <1>6 DEF OperationReports

(* A report of one file.                                                   *)
LEMMA FileReported ==
  ASSUME ReportInv, NEW name, NEW code, Reported(name, code),
         NEW files \in Seq(EntryValues), ListedAs(files, WithCode(ToldCodes, name, Told(code))),
         status' = [status EXCEPT !.files = files]
  PROVE  ReportInv'
<1>1. Call /\ ~ended /\ ended' = ended /\ reported' = WithCode(reported, name, code)
  BY DEF Reported, Call, WithCode
<1>2. status \in StatusValues
  BY <1>1 DEF ReportInv, WholeFile, StatusFiled, Call
<1>3. status' \in StatusValues /\ status'.files = files
  BY <1>2 DEF StatusValues
<1>4. ToldCodes' = WithCode(ToldCodes, name, Told(code))
  BY <1>1, Zenon DEF ToldCodes, WithCode
<1> QED
  BY <1>1, <1>3, <1>4, CallKeeps

(* A call finds the status and its list.                                   *)
LEMMA StatusKept ==
  ASSUME ReportInv, Call
  PROVE  status \in StatusValues /\ ListedAs(status.files, ToldCodes) /\ status.files \in Seq(EntryValues)
<1>1. StatusFiled
  BY DEF ReportInv, WholeFile, Call
<1>2. status \in StatusValues
  BY <1>1 DEF StatusFiled
<1>3. status.files \in Seq(EntryValues)
  BY <1>2 DEF StatusValues
<1> QED
  BY <1>1, <1>2, <1>3 DEF StatusFiled

(* It is accepted, once, or set.                                           *)
LEMMA AcceptedStep ==
  ASSUME ReportInv, NEW f \in EntryValues, f.code \in Code.values, f.name \notin DOMAIN reported,
         NEW code, Reported(f.name, code), f.code = Told(code),
         status' = [status EXCEPT !.files = Append(@, f)]
  PROVE  ReportInv'
<1> DEFINE files == Append(status.files, f)
<1>1. status \in StatusValues /\ ListedAs(status.files, ToldCodes) /\ status.files \in Seq(EntryValues)
  BY StatusKept DEF Reported
<1>2. files \in Seq(EntryValues) /\ ListedAs(files, WithCode(ToldCodes, f.name, f.code))
  BY <1>1, EntryAdded DEF ToldCodes
<1>3. status' = [status EXCEPT !.files = files]
  OBVIOUS
<1> HIDE DEF files
<1> QED
  BY <1>2, <1>3, FileReported

(* A file is set when it is listed already, or listed then.                *)
LEMMA SetStep ==
  ASSUME ReportInv, NEW f \in EntryValues, f.code \in Code.values,
         NEW code, Reported(f.name, code), f.code = Told(code), status' = [status EXCEPT !.files = FilesWith(f)]
  PROVE  ReportInv'
<1>1. status \in StatusValues /\ ListedAs(status.files, ToldCodes)
  BY StatusKept DEF Reported
<1>2. FilesWith(f) \in Seq(EntryValues) /\ ListedAs(FilesWith(f), WithCode(ToldCodes, f.name, f.code))
  BY <1>1, FilesWithIs
<1> QED
  BY <1>2, FileReported

(* Those that have not finished are set all at once.                       *)
LEMMA AllFinishedStep ==
  ASSUME ReportInv, NEW final, NEW description \in Descriptions, AllFinished(final, description)
  PROVE  ReportInv'
<1> DEFINE code == FinalCode(final)
           files == status.files
           n == Len(files)
           set == [i \in DOMAIN files |->
                     IF FileIsFinal(files[i].code) THEN files[i]
                     ELSE FileSet(files[i], code, description)]
<1> HIDE DEF EntryValues
<1>1. Call /\ ~ended /\ ended' = ended
  BY DEF AllFinished, Call
<1>2. /\ ToldCodes' = [name \in DOMAIN ToldCodes |->
                         IF FileIsFinal(ToldCodes[name]) THEN ToldCodes[name] ELSE code]
      /\ status' = [status EXCEPT !.files = set]
  <2>1. reported' = [name \in DOMAIN reported |->
                       IF FileIsFinal(reported[name]) THEN reported[name] ELSE ReportedCode(final)]
    BY DEF AllFinished
  <2>2. status' = [status EXCEPT !.files = set]
    BY DEF AllFinished
  <2>3. /\ Told(ReportedCode(final)) = code
        /\ \A c : FileIsFinal(Told(c)) <=> FileIsFinal(c)
    BY CodesAre
  <2> HIDE DEF code
  <2>4. \A name \in DOMAIN reported :
          Told(reported'[name]) = IF FileIsFinal(Told(reported[name])) THEN Told(reported[name]) ELSE code
    BY <2>1, <2>3
  <2>5. DOMAIN ToldCodes = DOMAIN reported /\ DOMAIN reported' = DOMAIN reported
        /\ \A name \in DOMAIN reported : ToldCodes[name] = Told(reported[name])
    BY <2>1 DEF ToldCodes
  <2>6. ToldCodes' = [name \in DOMAIN reported |-> Told(reported'[name])]
    BY <2>5 DEF ToldCodes
  <2> HIDE DEF set
  <2> QED
    BY <2>2, <2>4, <2>5, <2>6
<1>3. status \in StatusValues /\ ListedAs(files, ToldCodes) /\ files \in Seq(EntryValues)
  BY <1>1, StatusKept
<1>4. code \in Code.values /\ description \in TextValues
  BY CodesAre, Reports
<1> HIDE DEF files, code
<1>5. n \in Nat /\ DOMAIN files = 1..n /\ \A i \in 1..n : files[i] \in EntryValues
  BY <1>3
<1>6. set = [i \in 1..n |-> IF FileIsFinal(files[i].code) THEN files[i]
                            ELSE FileSet(files[i], code, description)]
  BY <1>5
<1> HIDE DEF set, n
<1>7. \A i \in 1..n : /\ set[i] \in EntryValues /\ set[i].name = files[i].name
                      /\ set[i].code = IF FileIsFinal(files[i].code) THEN files[i].code ELSE code
  <2> TAKE i \in 1..n
  <2>1. set[i] = IF FileIsFinal(files[i].code) THEN files[i] ELSE FileSet(files[i], code, description)
    BY <1>6
  <2>2. files[i] \in EntryValues
    BY <1>5
  <2>3. /\ FileSet(files[i], code, description) \in EntryValues
        /\ FileSet(files[i], code, description).name = files[i].name
        /\ FileSet(files[i], code, description).code = code
    BY <1>4, <2>2, FileSetIs
  <2> QED
    BY <2>1, <2>2, <2>3
<1>8. set \in Seq(EntryValues) /\ Len(set) = n
  BY <1>5, <1>6, <1>7
<1>9. /\ ToldCodes \in [DOMAIN ToldCodes -> Code.values]
      /\ DOMAIN ToldCodes = {files[i].name : i \in 1..n}
      /\ \A i \in 1..n : files[i].code = ToldCodes[files[i].name]
      /\ \A i, j \in 1..n : files[i].name = files[j].name => i = j
  BY <1>3 DEF ListedAs, n
<1>10. /\ ToldCodes' \in [DOMAIN ToldCodes' -> Code.values]
       /\ DOMAIN ToldCodes' = DOMAIN ToldCodes
  BY <1>2, <1>4, <1>9
<1>11. \A i \in 1..n : set[i].code = ToldCodes'[set[i].name]
  <2> TAKE i \in 1..n
  <2>1. files[i].name \in DOMAIN ToldCodes /\ files[i].code = ToldCodes[files[i].name]
    BY <1>9
  <2>2. ToldCodes'[files[i].name] = IF FileIsFinal(files[i].code) THEN files[i].code ELSE code
    BY <1>2, <2>1
  <2> QED
    BY <1>7, <2>2
<1>12. DOMAIN ToldCodes' = {set[i].name : i \in 1..n}
  BY <1>7, <1>9, <1>10
<1>13. \A i, j \in 1..n : set[i].name = set[j].name => i = j
  BY <1>7, <1>9
<1>14. ListedAs(set, ToldCodes')
  BY <1>8, <1>10, <1>11, <1>12, <1>13 DEF ListedAs
<1>15. status' \in StatusValues /\ status'.files = set
  BY <1>2, <1>3, <1>8 DEF StatusValues
<1> QED
  BY <1>1, <1>14, <1>15, CallKeeps

(* Each report of loads.                                                   *)
LEMMA UploadReportsStep ==
  ASSUME ReportInv, UploadReports
  PROVE  ReportInv'
<1>0. \A name \in Names : name \in TextValues
  BY Reports
<1>1. ASSUME NEW name \in Names, NEW partNumber \in LoadPartNumbers, LoadAccepted(name, partNumber)
      PROVE  ReportInv'
  <2> DEFINE load == LoadSet(NewFile(name, partNumber), 0, Codes.OperationAccepted, <<>>)
  <2>1. /\ load \in EntryValues /\ load.name = name /\ load.code = Codes.OperationAccepted
        /\ load.code \in Code.values
    <3>1. NewFile(name, partNumber) \in EntryValues /\ NewFile(name, partNumber).name = name
      BY NewFileIs, Reports
    <3>2. 0 \in 0..100 /\ Codes.OperationAccepted \in Code.values /\ <<>> \in TextValues
      BY CodesAre, Reports
    <3> DEFINE new == NewFile(name, partNumber)
               code == Codes.OperationAccepted
    <3> HIDE DEF new, code
    <3>3. LoadSet(new, 0, code, <<>>) \in EntryValues /\ LoadSet(new, 0, code, <<>>).name = new.name
          /\ LoadSet(new, 0, code, <<>>).code = code
      BY <3>1, <3>2, LoadSetIs DEF new, code
    <3> QED
      BY <3>1, <3>2, <3>3 DEF new, code
  <2>2. /\ name \notin DOMAIN reported /\ Reported(name, Codes.OperationAccepted)
        /\ status' = [status EXCEPT !.files = Append(@, load)]
    BY <1>1 DEF LoadAccepted
  <2> HIDE DEF load
  <2> QED
    BY <2>1, <2>2, CodesAre, AcceptedStep
<1>2. ASSUME NEW name \in Names, NEW ratio \in Ratios, NEW description \in Descriptions,
             LoadInProgress(name, ratio, description)
      PROVE  ReportInv'
  <2> DEFINE load == LoadSet(FileNamed(name), ratio, ProgressCode(description), description)
  <2>1. /\ Reported(name, ProgressCode(description))
        /\ status' = [status EXCEPT !.files = FilesWith(load)]
    BY <1>2 DEF LoadInProgress
  <2>2. FileNamed(name) \in EntryValues /\ FileNamed(name).name = name
    BY <1>0, <2>1, StatusKept, FileNamedIs DEF Reported
  <2>3. ProgressCode(description) \in Code.values /\ description \in TextValues /\ ratio \in 0..100
    BY CodesAre, Reports
  <2>4. load \in EntryValues /\ load.name = name /\ load.code = ProgressCode(description)
    <3> DEFINE named == FileNamed(name)
               code == ProgressCode(description)
               set == LoadSet(named, ratio, code, description)
    <3>1. named \in EntryValues /\ named.name = name /\ code \in Code.values
      BY <2>2, <2>3
    <3> HIDE DEF named, code
    <3>2. set \in EntryValues /\ set.name = named.name /\ set.code = code
      BY <2>3, <3>1, LoadSetIs
    <3> HIDE DEF set
    <3> QED
      BY <3>1, <3>2 DEF set, named, code
  <2> HIDE DEF load
  <2> QED
    BY <2>1, <2>3, <2>4, CodesAre, SetStep
<1>3. ASSUME NEW name \in Names, NEW final \in Finals, LoadFinished(name, final, <<>>)
      PROVE  ReportInv'
  <2> DEFINE load == FileSet(FileNamed(name), FinalCode(final), <<>>)
  <2>1. /\ Reported(name, ReportedCode(final))
        /\ status' = [status EXCEPT !.files = FilesWith(load)]
    BY <1>3 DEF LoadFinished
  <2>2. FileNamed(name) \in EntryValues /\ FileNamed(name).name = name
    BY <1>0, <2>1, StatusKept, FileNamedIs DEF Reported
  <2>3. FinalCode(final) \in Code.values /\ <<>> \in TextValues
    BY CodesAre, Reports
  <2>4. load \in EntryValues /\ load.name = name /\ load.code = FinalCode(final)
    <3> DEFINE named == FileNamed(name)
               code == FinalCode(final)
               set == FileSet(named, code, <<>>)
    <3>1. named \in EntryValues /\ named.name = name /\ code \in Code.values
      BY <2>2, <2>3
    <3> HIDE DEF named, code
    <3>2. set \in EntryValues /\ set.name = named.name /\ set.code = code
      BY <2>3, <3>1, FileSetIs
    <3> HIDE DEF set
    <3> QED
      BY <3>1, <3>2 DEF set, named, code
  <2> HIDE DEF load
  <2> QED
    BY <2>1, <2>3, <2>4, CodesAre, SetStep
<1>4. ASSUME NEW final \in Finals, NEW description \in Descriptions, LoadsFinished(final, description)
      PROVE  ReportInv'
  BY <1>4, AllFinishedStep DEF LoadsFinished
<1> QED
  BY <1>1, <1>2, <1>3, <1>4 DEF UploadReports

(* Each report of files.                                                   *)
LEMMA DownloadReportsStep ==
  ASSUME ReportInv, DownloadReports
  PROVE  ReportInv'
<1>0. \A name \in Names : name \in TextValues
  BY Reports
<1>1. ASSUME NEW name \in Names, FileAccepted(name)
      PROVE  ReportInv'
  <2> DEFINE f == FileSet(NewFile(name, <<>>), Codes.OperationAccepted, <<>>)
  <2>1. /\ f \in EntryValues /\ f.name = name /\ f.code = Codes.OperationAccepted
        /\ f.code \in Code.values
    <3>1. NewFile(name, <<>>) \in EntryValues /\ NewFile(name, <<>>).name = name
      BY NewFileIs, Reports
    <3>2. Codes.OperationAccepted \in Code.values /\ <<>> \in TextValues
      BY CodesAre, Reports
    <3> QED
      BY <3>1, <3>2, FileSetIs
  <2>2. /\ name \notin DOMAIN reported /\ Reported(name, Codes.OperationAccepted)
        /\ status' = [status EXCEPT !.files = Append(@, f)]
    BY <1>1 DEF FileAccepted
  <2> HIDE DEF f
  <2> QED
    BY <2>1, <2>2, CodesAre, AcceptedStep
<1>2. ASSUME NEW name \in Names, NEW description \in Descriptions, FileInProgress(name, description)
      PROVE  ReportInv'
  <2> DEFINE f == FileSet(FileNamed(name), ProgressCode(description), description)
  <2>1. /\ Reported(name, ProgressCode(description))
        /\ status' = [status EXCEPT !.files = FilesWith(f)]
    BY <1>2 DEF FileInProgress
  <2>2. FileNamed(name) \in EntryValues /\ FileNamed(name).name = name
    BY <1>0, <2>1, StatusKept, FileNamedIs DEF Reported
  <2>3. ProgressCode(description) \in Code.values /\ description \in TextValues
    BY CodesAre, Reports
  <2>4. f \in EntryValues /\ f.name = name /\ f.code = ProgressCode(description)
    <3> DEFINE named == FileNamed(name)
               code == ProgressCode(description)
               set == FileSet(named, code, description)
    <3>1. named \in EntryValues /\ named.name = name /\ code \in Code.values
      BY <2>2, <2>3
    <3> HIDE DEF named, code
    <3>2. set \in EntryValues /\ set.name = named.name /\ set.code = code
      BY <2>3, <3>1, FileSetIs
    <3> HIDE DEF set
    <3> QED
      BY <3>1, <3>2 DEF set, named, code
  <2> HIDE DEF f
  <2> QED
    BY <2>1, <2>3, <2>4, CodesAre, SetStep
<1>3. ASSUME NEW name \in Names, NEW final \in Finals, FileFinished(name, final, <<>>)
      PROVE  ReportInv'
  <2> DEFINE f == FileSet(FileNamed(name), FinalCode(final), <<>>)
  <2>1. /\ Reported(name, ReportedCode(final))
        /\ status' = [status EXCEPT !.files = FilesWith(f)]
    BY <1>3 DEF FileFinished
  <2>2. FileNamed(name) \in EntryValues /\ FileNamed(name).name = name
    BY <1>0, <2>1, StatusKept, FileNamedIs DEF Reported
  <2>3. FinalCode(final) \in Code.values /\ <<>> \in TextValues
    BY CodesAre, Reports
  <2>4. f \in EntryValues /\ f.name = name /\ f.code = FinalCode(final)
    <3> DEFINE named == FileNamed(name)
               code == FinalCode(final)
               set == FileSet(named, code, <<>>)
    <3>1. named \in EntryValues /\ named.name = name /\ code \in Code.values
      BY <2>2, <2>3
    <3> HIDE DEF named, code
    <3>2. set \in EntryValues /\ set.name = named.name /\ set.code = code
      BY <2>3, <3>1, FileSetIs
    <3> HIDE DEF set
    <3> QED
      BY <3>1, <3>2 DEF set, named, code
  <2> HIDE DEF f
  <2> QED
    BY <2>1, <2>3, <2>4, CodesAre, SetStep
<1>4. ASSUME NEW final \in Finals, NEW description \in Descriptions, FilesFinished(final, description)
      PROVE  ReportInv'
  BY <1>4, AllFinishedStep DEF FilesFinished
<1> QED
  BY <1>1, <1>2, <1>3, <1>4 DEF DownloadReports

-----------------------------------------------------------------------------
(* The invariant.                                                          *)

(* ReportInv holds at the beginning.                                       *)
LEMMA ReportInitInv == ReportInit => ReportInv
<1> SUFFICES ASSUME ReportInit
             PROVE  ReportInv
  OBVIOUS
<1> HIDE DEF Types
<1>1. /\ file \in Files /\ bytes = <<>> /\ taken = Unrequested /\ arrived = <<>> /\ decoded = Nothing
      /\ status = (IF file.value = <<>> THEN NewStatus ELSE NoStatus)
      /\ reported = <<>> /\ ended = FALSE
  BY DEF ReportInit, FileInit
<1>2. FileInv
  BY <1>1, FilesAre DEF FileInv
<1>3. CASE file.value = <<>>
  <2>1. NewStatus \in StatusValues
    <3>1. <<>> \in TextValues /\ <<>> \in Seq(EntryValues) /\ 0 \in 0..(Word - 1)
      BY EmptySeq DEF TextValues, Word
    <3> HIDE DEF TextValues, EntryValues
    <3> QED
      BY <3>1 DEF NewStatus, StatusValues, AnyCode
  <2>2. NewStatus.files = <<>>
    BY DEF NewStatus
  <2>3. ListedAs(<<>>, ToldCodes)
    <3> DEFINE none == <<>>
    <3>1. DOMAIN none = {} /\ 1..Len(none) = {}
      OBVIOUS
    <3>2. none = [x \in DOMAIN none |-> none[x]]
      OBVIOUS
    <3>3. DOMAIN ToldCodes = {} /\ ToldCodes = [x \in {} |-> Told(reported[x])]
      BY <1>1, <3>1 DEF ToldCodes
    <3> HIDE DEF none
    <3>4. ListedAs(none, ToldCodes)
      BY <3>1, <3>2, <3>3 DEF ListedAs
    <3> QED
      BY <3>4 DEF none
  <2>4. file.type \in {"UploadStatus", "DownloadStatus"}
    BY <1>1, <1>3, ReportAssumption
  <2> QED
    BY <1>1, <1>2, <1>3, <2>1, <2>2, <2>3, <2>4 DEF ReportInv, StatusFiled
<1>4. CASE file.value # <<>>
  BY <1>1, <1>2, <1>4 DEF ReportInv, WholeFile
<1> QED
  BY <1>3, <1>4

(* Each step keeps ReportInv.                                              *)
LEMMA ReportNextInv == ReportInv /\ [ReportNext]_allVars => ReportInv'
<1> SUFFICES ASSUME ReportInv, [ReportNext]_allVars
             PROVE  ReportInv'
  OBVIOUS
<1>1. CASE status = NoStatus /\ FileNext /\ UNCHANGED reportVars
  BY <1>1, WholeFileStep
<1>2. CASE UploadReports
  BY <1>2, UploadReportsStep
<1>3. CASE DownloadReports
  BY <1>3, DownloadReportsStep
<1>4. CASE OperationReports
  BY <1>4, OperationReportsStep
<1>5. CASE StatusFile
  BY <1>5, StatusFileStep
<1>6. CASE StatusFileTransfer
  BY <1>6, StatusFileTransferStep
<1>7. CASE StatusFileCompleted
  BY <1>7, StatusFileCompletedStep
<1>8. CASE UNCHANGED allVars
  <2>1. /\ UNCHANGED <<file, bytes, taken, arrived, decoded>>
        /\ UNCHANGED <<status, reported, ended>>
    BY <1>8 DEF allVars, fileVars, reportVars
  <2> HIDE DEF Types
  <2>2. FileInv'
    <3>1. FileInv
      BY DEF ReportInv
    <3>2. IsFile(file)' /\ (taken' # Unrequested => taken' = Taken(Filename(file.id, file.type))')
      BY <2>1, <3>1, SameFile DEF FileInv
    <3>3. bytes' # <<>> => Encoded'
      BY <2>1, <3>1, SameFile DEF FileInv
    <3> QED
      BY <2>1, <3>1, <3>2, <3>3 DEF FileInv
  <2>3. WholeFile => WholeFile'
    BY <2>1 DEF WholeFile, ArrivedShorter, ArrivedLonger, Body
  <2>4. StatusFiled => StatusFiled'
    <3>1. List(status.files)' = List(status.files)
      BY <2>1, SameList
    <3>2. ListedAs(status.files, ToldCodes)' = ListedAs(status.files, ToldCodes)
      BY <2>1 DEF ToldCodes
    <3> QED
      BY <2>1, <3>1, <3>2 DEF StatusFiled
  <2> QED
    BY <2>2, <2>3, <2>4 DEF ReportInv
<1> QED
  BY <1>1, <1>2, <1>3, <1>4, <1>5, <1>6, <1>7, <1>8 DEF ReportNext

(* ReportInv is an invariant: what is on its way is the file that was      *)
(* encoded, and the list is what has been reported, one file a name        *)
(* (FileTransfer, StatusReport).                                           *)
THEOREM ReportInvariant == ReportSpec => []ReportInv
<1>1. ReportInit => ReportInv
  BY ReportInitInv
<1>2. ReportInv /\ [ReportNext]_allVars => ReportInv'
  BY ReportNextInv
<1> QED
  BY <1>1, <1>2, PTL DEF ReportSpec

-----------------------------------------------------------------------------
(* What it says of a file on its way.                                      *)

(* What has been read was taken for what it is.                            *)
LEMMA DecodedAsItIs ==
  ASSUME FileInv, decoded # Nothing
  PROVE  /\ taken = file.type /\ decoded = Decode(file.type, arrived)
         /\ file.type \in Types /\ file.version \in Versions /\ IsPeer(file.peer) /\ Encoded
<1> HIDE DEF Types
<1>1. /\ IsFile(file) /\ taken \in Types /\ decoded = Decode(taken, arrived) /\ Encoded
      /\ taken # Unrequested => taken = Taken(Filename(file.id, file.type))
  BY DEF FileInv
<1>2. taken # Unrequested
  BY <1>1, NotRequestedYet
<1>3. FileRecognised
  BY <1>1, <1>2, Recognised
<1>4. taken = file.type
  BY <1>1, <1>2, <1>3 DEF FileRecognised
<1> QED
  BY <1>1, <1>4 DEF IsFile

(* FileRecognised is a consequence of the invariant.                       *)
LEMMA RecognisedInv == ReportInv => FileRecognised
<1> SUFFICES ASSUME ReportInv
             PROVE  FileRecognised
  OBVIOUS
<1> HIDE DEF Types
<1>1. IsFile(file) /\ (taken # Unrequested => taken = Taken(Filename(file.id, file.type)))
  BY DEF ReportInv, FileInv
<1>2. CASE taken = Unrequested
  BY <1>2 DEF FileRecognised
<1>3. CASE taken # Unrequested
  BY <1>1, <1>3, Recognised
<1> QED
  BY <1>2, <1>3

(* Under its name a file is taken for what it is or not at all, by the     *)
(* side and in the operation it belongs to, whatever well formed           *)
(* identifier the name begins with (ProtocolFilename,                      *)
(* OperationImpl::checkRequest, ProtocolImpl::receivedTftpRequest).        *)
THEOREM FilesAreRecognised == ReportSpec => []FileRecognised
BY ReportInvariant, RecognisedInv, PTL

(* FileUnchanged is a consequence of the invariant.                        *)
LEMMA UnchangedInv == ReportInv => FileUnchanged
<1> SUFFICES ASSUME FileInv, decoded # Nothing, arrived = bytes, Len(bytes) >= MinimumSize(file.type)
             PROVE  decoded = File(file.version, file.value)
  BY DEF ReportInv, FileUnchanged
<1> HIDE DEF Types
<1>1. /\ decoded = Decode(file.type, arrived)
      /\ file.type \in Types /\ file.version \in Versions /\ IsPeer(file.peer) /\ Encoded
  BY DecodedAsItIs
<1> DEFINE type == file.type
           version == file.version
           value == file.value
           writer == file.peer
<1>2. /\ type \in Types /\ version \in Versions /\ IsPeer(writer)
      /\ IsValue(FileTypes[type], value) /\ Fits(FileTypes[type], value, writer)
      /\ bytes = Encode(type, version, value, writer)
  BY <1>1 DEF Encoded
<1>3. Len(Encode(type, version, value, writer)) >= MinimumSize(type)
  BY <1>2
<1>4. decoded = Decode(type, Encode(type, version, value, writer))
  BY <1>1, <1>2
<1> HIDE DEF type, version, value, writer
<1>5. Decode(type, Encode(type, version, value, writer)) = File(version, value)
  BY <1>2, <1>3, Decoded
<1> QED
  BY <1>4, <1>5 DEF version, value

(* What the one side encodes the other one decodes, whatever strings,      *)
(* numbers and lists the file holds and however a peer fills them up       *)
(* (encode and decode of the protocol files).                              *)
THEOREM FilesAreUnchanged == ReportSpec => []FileUnchanged
BY ReportInvariant, UnchangedInv, PTL

(* LengthMatters is a consequence of the invariant.                        *)
LEMMA LengthInv == ReportInv => LengthMatters
<1> SUFFICES ASSUME ReportInv, decoded # Nothing, arrived # bytes
             PROVE  ~decoded.ok
  BY DEF LengthMatters
<1> HIDE DEF Types, Byte
<1>1. /\ decoded = Decode(file.type, arrived)
      /\ file.type \in Types /\ file.version \in Versions /\ IsPeer(file.peer) /\ Encoded
  BY DecodedAsItIs DEF ReportInv
<1>2. /\ file.type \in Types /\ SizeFits(Len(bytes))
      /\ ArrivedShorter \/ ArrivedLonger
  BY <1>1 DEF ReportInv, FileInv, WholeFile, StatusFiled
<1> DEFINE type == file.type
           version == file.version
           value == file.value
           writer == file.peer
           fields == Fields(FileTypes[type], value, writer)
           raw == WithHeader(version, fields)
<1>3. /\ type \in Types /\ version \in Versions /\ IsPeer(writer)
      /\ IsValue(FileTypes[type], value) /\ Fits(FileTypes[type], value, writer)
      /\ bytes = raw
  BY <1>1 DEF Encoded, Encode
<1> HIDE DEF type, version, value, writer
<1>4. fields \in Seq(Byte) /\ Reader(FileTypes[type])[fields] = Reading(value, <<>>)
  BY <1>3, FieldsReadBack
<1>5. Whole(Reader(FileTypes[type])[fields])
  BY <1>4 DEF Whole, Reading
<1> HIDE DEF fields
<1>6. raw \in Seq(Byte) /\ HeaderAccepted(raw) /\ Drop(raw, HeaderSize) = fields
  BY <1>3, <1>4, HeaderIs
<1>7. Body = fields
  BY <1>3, <1>6 DEF Body
<1> HIDE DEF raw
<1>8. SizeFits(Len(raw)) /\ arrived # raw /\ decoded = Decode(type, arrived)
  BY <1>1, <1>2, <1>3 DEF type
<1>9. ASSUME NEW length \in 1..(Len(bytes) - 1), arrived = SubSeq(bytes, 1, length)
      PROVE  ~decoded.ok
  <2>1. length \in 1..(Len(raw) - 1) /\ arrived = SubSeq(raw, 1, length)
    BY <1>3, <1>9
  <2>2. ~Decode(type, SubSeq(raw, 1, length)).ok
    BY <1>6, <1>8, <2>1, ShorterRefused
  <2> QED
    BY <1>8, <2>1, <2>2
<1>10. ASSUME NEW length \in 0..(Len(Body) - 1),
              arrived = WithHeader(file.version, SubSeq(Body, 1, length))
       PROVE  ~decoded.ok
  <2> DEFINE part == SubSeq(fields, 1, length)
             more == Drop(fields, length)
  <2>1. length \in 0..Len(fields) /\ Len(fields) - length > 0
    BY <1>4, <1>7, <1>10
  <2>2. part \in Seq(Byte) /\ more \in Seq(Byte) /\ Len(more) > 0 /\ part \o more = fields
    BY <1>4, <2>1, SplitAt
  <2>3. more # <<>>
    BY <2>2
  <2>4. arrived = WithHeader(version, part)
    BY <1>7, <1>10 DEF version
  <2> HIDE DEF part, more
  <2>5. ~Decode(type, WithHeader(version, part)).ok
    BY <1>3, <1>4, <1>5, <2>2, <2>3, BodyRefused
  <2> QED
    BY <1>8, <2>4, <2>5
<1>11. ASSUME NEW trailer \in Trailers, arrived = bytes \o trailer
       PROVE  ~decoded.ok
  <2>1. trailer \in Seq(Byte) /\ SizeFits(Len(trailer))
    BY SizeAssumption
  <2>2. arrived = raw \o trailer /\ raw \o trailer # raw
    BY <1>3, <1>8, <1>11
  <2>3. ~Decode(type, raw \o trailer).ok
    BY <1>6, <1>8, <2>1, <2>2, LongerRefused
  <2> QED
    BY <1>8, <2>2, <2>3
<1>12. ASSUME NEW trailer \in Trailers, arrived = WithHeader(file.version, Body \o trailer)
       PROVE  ~decoded.ok
  <2> DEFINE other == fields \o trailer
  <2>1. trailer \in Seq(Byte)
    BY SizeAssumption
  <2>2. arrived = WithHeader(version, other)
    BY <1>7, <1>12 DEF version
  <2>3. trailer # <<>>
    <3> SUFFICES ASSUME trailer = <<>>
                 PROVE  FALSE
      OBVIOUS
    <3>1. other = fields
      BY <1>4, <2>1, ConcatEmptySeq
    <3>2. arrived = raw
      BY <2>2, <3>1 DEF raw
    <3> QED
      BY <1>8, <3>2
  <2>4. other \in Seq(Byte)
    BY <1>4, <2>1
  <2>5. ~Decode(type, WithHeader(version, other)).ok
    BY <1>3, <1>4, <1>5, <2>1, <2>3, <2>4, BodyRefused
  <2> QED
    BY <1>8, <2>2, <2>5
<1> QED
  BY <1>2, <1>9, <1>10, <1>11, <1>12 DEF ArrivedShorter, ArrivedLonger

(* A file that lost its end or gained one is refused, even if the size in  *)
(* its header agrees with what has arrived (ProtocolFile, decodeBody).     *)
THEOREM LengthsMatter == ReportSpec => []LengthMatters
BY ReportInvariant, LengthInv, PTL

-----------------------------------------------------------------------------
(* What it says of a status.                                               *)

(* No status file is too short to be read.                                 *)
LEMMA StatusFileLong ==
  ASSUME NEW type \in {"UploadStatus", "DownloadStatus"}, NEW version \in Versions, NEW value,
         IsValue(FileTypes[type], value), NEW writer, IsPeer(writer), Fits(FileTypes[type], value, writer)
  PROVE  Len(Encode(type, version, value, writer)) >= MinimumSize(type)
<1> DEFINE layout == FileTypes[type]
           fields == Fields(layout, value, writer)
           seqs == EachField(layout, value, writer)
           records(i) == [j \in DOMAIN value[i] |-> NestedFields(layout[i].of, value[i][j], writer)]
<1> HIDE DEF Byte
<1>1. type \in Types
  BY DEF Types, Extension
<1> HIDE DEF Types
<1>2. /\ layout[1].is = "number" /\ layout[3].is = "number" /\ layout[4].is = "number"
      /\ layout[5].is = "signed" /\ layout[6].is = "ratio"
      /\ DOMAIN layout = 1..7
  <2>1. /\ DOMAIN layout = 1..7
        /\ layout[1] = Code /\ layout[3] = UInt16 /\ layout[4] = UInt16
        /\ layout[5] = Signed /\ layout[6] = Ratio
    BY DEF FileTypes, UploadOperationStatusFile, DownloadOperationStatusFile
  <2> QED
    BY <2>1 DEF Code, UInt16, Signed, Ratio, Number
<1>3. FileLayout(layout)
  BY <1>1, FileLayouts
<1> HIDE DEF layout
<1>4. /\ Reads(Reader(layout), fields, value, Rests(layout))
      /\ fields = FlattenSeq(seqs)
      /\ \A i \in DOMAIN layout : seqs[i] \in Seq(Byte)
  BY <1>3, FileReads DEF layout
<1>5. fields \in Seq(Byte)
  BY <1>4 DEF Reads
<1>6. seqs = [i \in 1..7 |-> FieldBytes(layout[i], value[i], writer, records(i))]
  BY <1>2, Zenon DEF EachField
<1>7. seqs \in [1..7 -> Seq(Byte)]
  BY <1>2, <1>4, <1>6
<1>8. /\ Len(seqs[1]) = 2 /\ Len(seqs[3]) = 2 /\ Len(seqs[4]) = 2 /\ Len(seqs[5]) = 2
      /\ Len(seqs[6]) = 3
  <2> HIDE DEF seqs, records
  <2>1. \A i \in 1..7 : seqs[i] = FieldBytes(layout[i], value[i], writer, records(i))
    BY <1>6
  <2>2. \A i \in {1, 3, 4, 5} : seqs[i] = Int16(value[i])
    BY <1>2, <2>1, SMTT(30) DEF FieldBytes
  <2>3. seqs[6] = RatioEncode(value[6], writer.pad)
    BY <1>2, <2>1, SMTT(30) DEF FieldBytes
  <2>4. \A n : Len(Int16(n)) = 2
    BY DEF Int16
  <2>5. \A ratio, pad : Len(RatioEncode(ratio, pad)) = 3
    BY DEF RatioEncode
  <2> QED
    BY <2>2, <2>3, <2>4, <2>5
<1> HIDE DEF seqs, fields
<1>9. PICK joined : Joins(joined, seqs, 7)
  BY <1>7, JoinsExists
<1>10. fields = joined[7]
  BY <1>4, <1>7, <1>9, FlattenSeqJoins
<1>11. /\ joined \in [0..7 -> Seq(Byte)] /\ joined[0] = <<>>
       /\ \A k \in 1..7 : joined[k] = joined[k - 1] \o seqs[k]
  BY <1>9 DEF Joins
<1>12. \A k \in 1..7 : /\ Len(joined[k]) = Len(joined[k - 1]) + Len(seqs[k])
                       /\ Len(seqs[k]) \in Nat
  <2> TAKE k \in 1..7
  <2> DEFINE j == k - 1
  <2>1. j \in 0..7 /\ joined[k] = joined[j] \o seqs[k]
    <3>1. j \in 0..7
      OBVIOUS
    <3>2. joined[k] = joined[j] \o seqs[k]
      BY <1>11, Zenon
    <3> QED
      BY <3>1, <3>2
  <2> HIDE DEF j
  <2>2. joined[j] \in Seq(Byte) /\ seqs[k] \in Seq(Byte)
    BY <1>7, <1>11, <2>1
  <2>3. Len(joined[k]) = Len(joined[j]) + Len(seqs[k]) /\ Len(seqs[k]) \in Nat
    BY <2>1, <2>2, ConcatTwo
  <2> QED
    BY <2>3 DEF j
<1>13. Len(joined[0]) = 0
  BY <1>11
<1>14. Len(fields) >= 11
  <2> DEFINE size(k) == Len(joined[k])
             of(k) == Len(seqs[k])
  <2>1. /\ size(1) = size(0) + of(1) /\ size(2) = size(1) + of(2) /\ size(3) = size(2) + of(3)
        /\ size(4) = size(3) + of(4) /\ size(5) = size(4) + of(5) /\ size(6) = size(5) + of(6)
        /\ size(7) = size(6) + of(7)
    <3>1. \A k \in 1..7 : size(k) = size(k - 1) + of(k)
      BY <1>12
    <3> HIDE DEF size, of
    <3>2. /\ size(1) = size(1 - 1) + of(1) /\ size(2) = size(2 - 1) + of(2)
          /\ size(3) = size(3 - 1) + of(3) /\ size(4) = size(4 - 1) + of(4)
          /\ size(5) = size(5 - 1) + of(5) /\ size(6) = size(6 - 1) + of(6)
          /\ size(7) = size(7 - 1) + of(7)
      BY <3>1
    <3>3. 1 - 1 = 0 /\ 2 - 1 = 1 /\ 3 - 1 = 2 /\ 4 - 1 = 3 /\ 5 - 1 = 4 /\ 6 - 1 = 5 /\ 7 - 1 = 6
      OBVIOUS
    <3> QED
      BY <3>2, <3>3
  <2>2. of(2) \in Nat /\ of(7) \in Nat
    BY <1>12
  <2>3. size(0) = 0 /\ of(1) = 2 /\ of(3) = 2 /\ of(4) = 2 /\ of(5) = 2 /\ of(6) = 3
    BY <1>8, <1>13
  <2>4. size(7) >= 11
    <3> HIDE DEF size, of
    <3> QED
      BY <2>1, <2>2, <2>3
  <2> QED
    BY <1>10, <2>4
<1>15. Len(WithHeader(version, fields)) = HeaderSize + Len(fields)
  BY <1>5, HeaderIs
<1>16. MinimumSize(type) = HeaderSize + 9
  BY DEF MinimumSize
<1>17. Encode(type, version, value, writer) = WithHeader(version, fields)
  BY DEF Encode, fields, layout
<1> QED
  BY <1>5, <1>14, <1>15, <1>16, <1>17 DEF HeaderSize

(* As many files are listed as have been reported.                         *)
LEMMA AsManyListed ==
  ASSUME NEW files \in Seq(EntryValues), NEW codes, ListedAs(files, codes)
  PROVE  Cardinality(DOMAIN codes) = Len(files)
<1> DEFINE n == Len(files)
           names == [i \in 1..n |-> files[i].name]
<1> HIDE DEF EntryValues
<1>1. n \in Nat
  OBVIOUS
<1>2. DOMAIN codes = {files[i].name : i \in 1..n} /\ \A i, j \in 1..n : files[i].name = files[j].name => i = j
  BY DEF ListedAs
<1> HIDE DEF n
<1>3. names \in [1..n -> DOMAIN codes]
  BY <1>2
<1>4. \A i, j \in 1..n : names[i] = names[j] => i = j
  BY <1>2
<1>5. \A name \in DOMAIN codes : \E i \in 1..n : names[i] = name
  BY <1>2
<1>6. names \in Bijection(1..n, DOMAIN codes)
  <2>1. DOMAIN names = 1..n
    OBVIOUS
  <2> HIDE DEF names
  <2> QED
    BY <1>3, <1>4, <1>5, <2>1 DEF Bijection, Injection, Surjection, IsInjective
<1>7. ExistsBijection(1..n, DOMAIN codes)
  BY <1>6 DEF ExistsBijection
<1>8. IsFiniteSet(1..n) /\ Cardinality(1..n) = n
  BY <1>1, FS_Interval
<1>9. Cardinality(DOMAIN codes) = Cardinality(1..n)
  BY <1>7, <1>8, FS_Bijection
<1> QED
  BY <1>8, <1>9 DEF n

(* StatusTold is a consequence of the invariant.                           *)
LEMMA StatusInv == ReportInv => StatusTold
<1> SUFFICES ASSUME ReportInv, status # NoStatus, decoded # Nothing
             PROVE  LET list == decoded.value[7]
                    IN  /\ decoded.ok
                        /\ Len(list) = Cardinality(DOMAIN reported)
                        /\ \A name \in DOMAIN reported :
                             \E i \in DOMAIN list : list[i][1] = name /\ Tells(CodeIn(list[i]), reported[name])
                        /\ ended => \A i \in DOMAIN list : FileIsFinal(CodeIn(list[i]))
  BY DEF StatusTold
<1> HIDE DEF Types
<1>1. FileInv /\ StatusFiled
  BY DEF ReportInv, WholeFile
<1>2. /\ decoded = Decode(file.type, arrived)
      /\ file.type \in Types /\ file.version \in Versions /\ IsPeer(file.peer) /\ Encoded
  BY <1>1, DecodedAsItIs
<1>3. bytes # <<>> /\ arrived = bytes /\ file.value[7] = List(status.files)
  BY <1>1 DEF FileInv, StatusFiled
<1>4. decoded = File(file.version, file.value)
  <2> DEFINE type == file.type
             version == file.version
             value == file.value
             writer == file.peer
  <2>1. /\ type \in {"UploadStatus", "DownloadStatus"} /\ type \in Types /\ version \in Versions
        /\ IsPeer(writer) /\ IsValue(FileTypes[type], value) /\ Fits(FileTypes[type], value, writer)
        /\ decoded = Decode(type, Encode(type, version, value, writer))
    BY <1>1, <1>2, <1>3 DEF StatusFiled, Encoded
  <2> HIDE DEF type, version, value, writer
  <2>2. Len(Encode(type, version, value, writer)) >= MinimumSize(type)
    BY <2>1, StatusFileLong
  <2>3. Decode(type, Encode(type, version, value, writer)) = File(version, value)
    BY <2>1, <2>2, Decoded
  <2> QED
    BY <2>1, <2>3 DEF version, value
<1> DEFINE files == status.files
           list == List(files)
<1>5. decoded.ok /\ decoded.value[7] = list
  BY <1>3, <1>4 DEF File
<1>6. files \in Seq(EntryValues) /\ ListedAs(files, ToldCodes)
  BY <1>1 DEF StatusFiled, StatusValues
<1>7. /\ Len(files) \in Nat /\ DOMAIN list = 1..Len(files)
      /\ \A i \in 1..Len(files) : list[i][1] = files[i].name /\ CodeIn(list[i]) = files[i].code
  <2> HIDE DEF EntryValues
  <2>1. Len(files) \in Nat /\ DOMAIN files = 1..Len(files)
    BY <1>6
  <2>2. DOMAIN list = 1..Len(files)
    BY <2>1 DEF List
  <2>3. ASSUME NEW i \in 1..Len(files)
        PROVE  list[i][1] = files[i].name /\ CodeIn(list[i]) = files[i].code
    <3>1. list[i] = IF IsUpload THEN LoadFields(files[i]) ELSE FileFields(files[i])
      BY <2>1 DEF List
    <3> HIDE DEF list, files
    <3> QED
      BY <3>1 DEF LoadFields, FileFields, CodeIn
  <2> QED
    BY <2>1, <2>2, <2>3
<1> HIDE DEF files, list
<1>a. DOMAIN ToldCodes = DOMAIN reported
      /\ \A name \in DOMAIN reported : ToldCodes[name] = Told(reported[name])
  BY DEF ToldCodes
<1>8. Len(list) = Cardinality(DOMAIN reported)
  <2>1. Len(list) = Len(files)
    BY <1>7
  <2> QED
    BY <1>6, <1>a, <2>1, AsManyListed
<1>9. \A name \in DOMAIN reported :
        \E i \in DOMAIN list : list[i][1] = name /\ Tells(CodeIn(list[i]), reported[name])
  <2>1. \A name \in DOMAIN reported :
          \E i \in DOMAIN list : list[i][1] = name /\ CodeIn(list[i]) = Told(reported[name])
    BY <1>6, <1>7, <1>a DEF ListedAs
  <2>2. \A last : Tells(Told(last), last)
    BY DEF Tells, Told, FileIsFinal, Codes
  <2> QED
    BY <2>1, <2>2, Zenon
<1>10. ended => \A i \in DOMAIN list : FileIsFinal(CodeIn(list[i]))
  <2>1. ended => \A name \in DOMAIN reported : FileIsFinal(reported[name])
    BY <1>1 DEF StatusFiled
  <2>2. \A i \in 1..Len(files) : files[i].name \in DOMAIN reported /\ files[i].code = Told(reported[files[i].name])
    BY <1>6, <1>a DEF ListedAs
  <2> QED
    BY <1>7, <2>1, <2>2, CodesAre
<1> QED
  BY <1>5, <1>8, <1>9, <1>10

(* The host reads of each load or file what has been reported of it last,  *)
(* once, and after the end nothing unfinished; of one that has failed by   *)
(* itself, that it has failed (UploadStatus, DownloadStatus, statusCode).  *)
THEOREM StatusesAreTold == ReportSpec => []StatusTold
BY ReportInvariant, StatusInv, PTL

=============================================================================
