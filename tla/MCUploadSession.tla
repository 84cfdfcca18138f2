-------------------------- MODULE MCUploadSession --------------------------
(***************************************************************************)
(* UploadSession for TLC: an abort by the operator, two status transfers   *)
(* at the host, the accepted status and the final one, a repeated request  *)
(* or a refused one, and the load list.  Data files change neither side.   *)
(***************************************************************************)
EXTENDS UploadSession, TLC

CONSTANTS s1, s2, A4

MCStatusFiles == {s1, s2}
MCVersions == {A4}
MCFinals == {"Completed", "AbortedByOperator", "AbortedByTargetHardware"}
MCSymmetry == Permutations(MCStatusFiles)

=============================================================================
