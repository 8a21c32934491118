----------------------------- MODULE RunLedger -----------------------------
(***************************************************************************)
(* What a scheduler owes the runs of its tasks, with no timers, sessions   *)
(* or drivers in sight: at most MaxConcurrentRuns hold a slot, one per     *)
(* task; a run gets one outcome, the first, and holds its slot until that  *)
(* is recorded; what raised a permission prompt is no success.  Only a     *)
(* daemon that goes may settle them all at once, or forget them.           *)
(***************************************************************************)
EXTENDS Naturals, FiniteSets

CONSTANTS
  Tasks,
  MaxConcurrentRuns,
  Statuses           \* how a run may end, success and error among them

VARIABLES
  run,       \* of each task: idle, open, or how its run ended
  blocked    \* the tasks whose run raised a permission prompt

vars == <<run, blocked>>

Slots == {t \in Tasks : run[t] # "idle"}

Init == run = [t \in Tasks |-> "idle"] /\ blocked = {}

(* A run begins, and may fail before its turn does. *)
Begin(t) ==
  /\ run[t] = "idle" /\ Cardinality(Slots) < MaxConcurrentRuns
  /\ \E r \in {"open"} \cup (Statuses \ {"success"}) : run' = [run EXCEPT ![t] = r]
  /\ blocked' = blocked \ {t}

(* It raises a permission prompt. *)
Block(t) ==
  /\ run[t] = "open"
  /\ blocked' = blocked \cup {t}
  /\ UNCHANGED run

(* It ends. *)
Settle(t) ==
  /\ run[t] = "open"
  /\ \E r \in IF t \in blocked THEN {"error"} ELSE Statuses : run' = [run EXCEPT ![t] = r]
  /\ UNCHANGED blocked

(* Its outcome is recorded. *)
Record(t) ==
  /\ run[t] \in Statuses
  /\ run' = [run EXCEPT ![t] = "idle"]
  /\ UNCHANGED blocked

(* The daemon gives up every run, or is gone. *)
GiveUp ==
  /\ run' = [t \in Tasks |-> IF run[t] = "open" THEN "error" ELSE run[t]]
  /\ UNCHANGED blocked

Forget == run' = [t \in Tasks |-> "idle"] /\ blocked' = {}

Next ==
  \/ \E t \in Tasks : Begin(t) \/ Block(t) \/ Settle(t) \/ Record(t)
  \/ GiveUp \/ Forget

Spec == Init /\ [][Next]_vars
=============================================================================
