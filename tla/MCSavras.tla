------------------------------ MODULE MCSavras ------------------------------
(***************************************************************************)
(* Savras for TLC.                                                         *)
(***************************************************************************)
EXTENDS Savras

CONSTANTS c1, l1, l2

=============================================================================
