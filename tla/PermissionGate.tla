--------------------------- MODULE PermissionGate ---------------------------
(***************************************************************************)
(* What a permission pipeline promises to the agent and to its clients.    *)
(*                                                                         *)
(* A call is decided without a prompt, or it opens a prompt that is closed *)
(* exactly once.  The decision given to the agent never changes, and a     *)
(* client that was shown a prompt is told exactly once that it is over.    *)
(* PermissionManager implements this module.                               *)
(***************************************************************************)
EXTENDS Naturals

CONSTANT Calls

VARIABLES gate,   \* [Calls -> GateStates]: how far each call has come
          told    \* [Calls -> Nat]: "resolved" notices sent for the call

vars == <<gate, told>>

Decisions == {"allow", "deny"}
GateStates == {"idle", "open"} \cup Decisions

Open == {c \in Calls : gate[c] = "open"}
----------------------------------------------------------------------------
Init == /\ gate = [c \in Calls |-> "idle"]
        /\ told = [c \in Calls |-> 0]

(* The call is answered from the mode or a rule: nobody is asked. *)
Decide(c, d) == /\ gate[c] = "idle"
                /\ gate' = [gate EXCEPT ![c] = d]
                /\ UNCHANGED told

(* A prompt is shown for the call. *)
Prompt(c) == /\ gate[c] = "idle"
             /\ gate' = [gate EXCEPT ![c] = "open"]
             /\ UNCHANGED told

(* Some open prompts end together, each with a decision and one notice. *)
Close == \E S \in SUBSET Open :
           \E d \in [S -> Decisions] :
             /\ gate' = [c \in Calls |-> IF c \in S THEN d[c] ELSE gate[c]]
             /\ told' = [c \in Calls |-> IF c \in S THEN told[c] + 1 ELSE told[c]]

Next == \/ \E c \in Calls : \E d \in Decisions : Decide(c, d)
        \/ \E c \in Calls : Prompt(c)
        \/ Close

Spec == Init /\ [][Next]_vars
----------------------------------------------------------------------------
(* No prompt is left hanging: an opened prompt is eventually decided.      *)
EveryPromptSettles ==
  \A c \in Calls : gate[c] = "open" ~> gate[c] \in Decisions
=============================================================================
