--------------------------- MODULE MCSupervisor ---------------------------
(***************************************************************************)
(* Supervisor with two process ids: enough for an orphan beside a child.   *)
(***************************************************************************)
EXTENDS Supervisor
=============================================================================
