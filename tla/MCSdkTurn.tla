----------------------------- MODULE MCSdkTurn -----------------------------
(***************************************************************************)
(* Instances of SdkTurn for TLC: one where users wait for the loop of a    *)
(* turn to end and one where they do not.                                  *)
(***************************************************************************)
EXTENDS SdkTurn
=============================================================================
