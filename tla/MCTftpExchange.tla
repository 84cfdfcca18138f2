--------------------------- MODULE MCTftpExchange ---------------------------
(***************************************************************************)
(* TftpExchange for TLC: texts with a number at each end of its width,     *)
(* too long, cut short, and none at all.                                   *)
(***************************************************************************)
EXTENDS TftpExchange

MCForeignTexts ==
  {<<>>, <<NoDigit>>, <<1, 0, NoDigit>>, <<15, 15>>, <<6, 5, 5, 3, 5>>, <<6, 5, 5, 3, 6>>,
   <<1, 0, 0, 4>>, <<1, 0, 0, 5, NoDigit>>, <<0, 1, 0, 0, 4>>, <<1, 0, 0, 0, 4>>, <<1, 0, 0, 3>>, <<0, 0, 0, 4>>}

=============================================================================
