--------------------------- MODULE ContainerLease ---------------------------
(***************************************************************************)
(* What a session may rely on of its container, with no awaits, teardowns  *)
(* or ages in sight.  A container is started for one session and key and   *)
(* has one holder at a time: a session, whoever takes it back from it, or  *)
(* the pool, which lends it under its own key only.  One that is unfit for *)
(* another session is never lent again, one that is gone stays gone, and a *)
(* closed pool neither keeps nor lends.                                    *)
(***************************************************************************)
CONSTANTS
  Sessions,
  KeyOf,        \* the key of each session
  Containers,
  None

VARIABLES
  has,          \* the container of each session, or None
  stage,        \* of each container: unborn, held, leaving, idle or gone
  home,         \* the key of each container that was started
  unfit,        \* containers no other session may have
  closed        \* the pool is shut down

vars == <<has, stage, home, unfit, closed>>

Idle == {c \in Containers : stage[c] = "idle"}
Move(S, to) == stage' = [c \in Containers |-> IF c \in S THEN to ELSE stage[c]]
HeldBy(S) == {has[s] : s \in S} \ {None}
TakenFrom(S) == has' = [s \in Sessions |-> IF s \in S THEN None ELSE has[s]]

Init ==
  /\ has = [s \in Sessions |-> None] /\ stage = [c \in Containers |-> "unborn"]
  /\ home = [c \in {} |-> None] /\ unfit = {} /\ closed = FALSE

(* A container is started for a session, perhaps from a snapshot.          *)
Start(s, c) ==
  /\ has[s] = None /\ stage[c] = "unborn"
  /\ has' = [has EXCEPT ![s] = c] /\ stage' = [stage EXCEPT ![c] = "held"]
  /\ home' = [d \in DOMAIN home \cup {c} |-> IF d = c THEN KeyOf[s] ELSE home[d]]
  /\ unfit' \in {unfit, unfit \cup {c}}
  /\ UNCHANGED closed

(* The pool lends one of the session's key, and drops some on the way.     *)
Lend(s, c) ==
  /\ has[s] = None /\ stage[c] = "idle" /\ home[c] = KeyOf[s] /\ c \notin unfit /\ ~closed
  /\ has' = [has EXCEPT ![s] = c]
  /\ \E S \in SUBSET (Idle \ {c}) :
       stage' = [d \in Containers |-> IF d = c THEN "held" ELSE IF d \in S THEN "gone" ELSE stage[d]]
  /\ UNCHANGED <<home, unfit, closed>>

(* What a session did makes its container unfit for any other.             *)
Spoil(s) ==
  /\ has[s] # None /\ unfit' = unfit \cup {has[s]}
  /\ UNCHANGED <<has, stage, home, closed>>

(* The container is taken from its session, or is found dead.              *)
TakeBack(s) ==
  /\ has[s] # None /\ TakenFrom({s})
  /\ \E to \in {"leaving", "gone"} : Move({has[s]}, to)
  /\ UNCHANGED <<home, unfit, closed>>

(* It goes to the pool.                                                    *)
Keep(c) ==
  /\ stage[c] = "leaving" /\ c \notin unfit /\ ~closed
  /\ Move({c}, "idle")
  /\ UNCHANGED <<has, home, unfit, closed>>

(* Containers nobody has are removed.                                      *)
Discard ==
  /\ UNCHANGED <<has, home, unfit, closed>>
  /\ \E S \in SUBSET {c \in Containers : stage[c] \in {"idle", "leaving"}} : Move(S, "gone")

(* The daemon ends: sessions give back what they have, the pool is emptied *)
(* for good.                                                               *)
Close ==
  /\ ~closed /\ closed' = TRUE
  /\ \E S \in SUBSET Sessions :
       /\ TakenFrom(S)
       /\ stage' = [c \in Containers |-> IF c \in HeldBy(S) THEN "leaving"
                                         ELSE IF c \in Idle THEN "gone" ELSE stage[c]]
  /\ UNCHANGED <<home, unfit>>

Next ==
  \/ Discard \/ Close
  \/ \E c \in Containers : Keep(c)
  \/ \E s \in Sessions : Spoil(s) \/ TakeBack(s)
  \/ \E s \in Sessions, c \in Containers : Start(s, c) \/ Lend(s, c)

Spec == Init /\ [][Next]_vars
=============================================================================
