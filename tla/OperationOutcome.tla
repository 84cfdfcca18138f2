-------------------------- MODULE OperationOutcome --------------------------
(***************************************************************************)
(* What an operation promises the two sides that take part in it: the      *)
(* application on the target declares how it ends, the host learns it from *)
(* a status file, and each side is told an outcome once.  Either side may  *)
(* be told a failure at any time, none is told anything better than what   *)
(* has been declared, and the target not before the host knows and has     *)
(* been told an outcome itself.                                            *)
(***************************************************************************)
CONSTANTS
  Results,  \* what the application can declare
  Failures, \* outcomes a side comes to by itself
  Success,  \* the result that stands for a complete operation
  None

VARIABLES
  declared,    \* the result the application has declared, or None
  known,       \* the host has received the declared result
  hostTold,    \* the outcome the host's handler has been told, or None
  targetTold   \* the outcome the application has been told, or None

outcomeVars == <<declared, known, hostTold, targetTold>>

Init ==
  /\ declared = None
  /\ known = FALSE
  /\ hostTold = None
  /\ targetTold = None

Declare ==
  /\ declared = None
  /\ declared' \in Results
  /\ UNCHANGED <<known, hostTold, targetTold>>

(* The host learns the result, and may be told an outcome with it: the     *)
(* complete operation only if that is the result.                          *)
HostLearns ==
  /\ declared # None
  /\ known' = TRUE
  /\ hostTold' # hostTold => hostTold = None
  /\ hostTold' # hostTold /\ hostTold' = Success => declared = Success
  /\ UNCHANGED <<declared, targetTold>>

HostFails ==
  /\ hostTold = None
  /\ hostTold' # None /\ hostTold' # Success
  /\ UNCHANGED <<declared, known, targetTold>>

TargetTold ==
  /\ targetTold = None
  /\ \/ targetTold' = declared /\ declared # None /\ known /\ hostTold # None
     \/ targetTold' \in Failures
  /\ UNCHANGED <<declared, known, hostTold>>

Next == Declare \/ HostLearns \/ HostFails \/ TargetTold

Spec == Init /\ [][Next]_outcomeVars

=============================================================================
