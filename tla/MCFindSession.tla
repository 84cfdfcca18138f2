--------------------------- MODULE MCFindSession ---------------------------
(***************************************************************************)
(* TargetsList for TLC: two targets, one with empty strings and one whose  *)
(* string looks like the end of a packet; one signal, as abort and         *)
(* terminate are the same here.                                            *)
(***************************************************************************)
EXTENDS TargetsList

CONSTANTS t1, t2, old, given

MCTargets == {t1, t2}

A == <<65>>
MCInformation ==
  [target \in MCTargets |->
     IF target = t1 THEN <<A, <<>>, <<>>, <<16, 66>>, A>> ELSE <<<<66>>, A, <<16>>, A, <<>>>>]

(* An answer of four parameters, which is refused, and a request of two,   *)
(* which is answered.                                                      *)
MCStrays ==
  {Encode(InformationAnswer, <<A, A, <<>>, A>>),
   Encode(InformationRequest, <<<<>>, A>>)}

(* Files with an address the target no longer has, with an entry that has  *)
(* none before one that has, and without entries.                          *)
MCPreviousFiles ==
  {NoFile, File(<<>>), File(<<[address |-> old, thwId |-> A]>>),
   File(<<[thwId |-> <<66>>, thwPosition |-> <<16>>],
          [address |-> old, thwId |-> <<66>>, thwPosition |-> <<16>>]>>)}

MCAddressOptions ==
  {[batch |-> FALSE, readsFile |-> TRUE, targetId |-> id, address |-> address] :
     id \in {<<65, 95>>, <<66, 95, 16>>, <<66, 95>>}, address \in {Unspecified, given}}
    \cup {[batch |-> FALSE, readsFile |-> FALSE, targetId |-> <<65, 95>>, address |-> given],
          [batch |-> TRUE, readsFile |-> TRUE, targetId |-> <<66, 95, 16>>, address |-> Unspecified]}

=============================================================================
