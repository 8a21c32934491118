------------------------------ MODULE TurnLine ------------------------------
(***************************************************************************)
(* What a session promises about the messages it is sent, with no queue,   *)
(* no busy flag and no query in sight: each is taken once and served at    *)
(* most once; one that waits is served in its turn or dropped, and neither *)
(* is undone.  If users send only while the session is busy or free, one   *)
(* message is served at a time and none overtakes another.                 *)
(***************************************************************************)
EXTENDS Naturals, Sequences

CONSTANTS
  Messages,
  Orderly    \* do users send only while the session is busy or free?

VARIABLES
  stage,     \* of each message: new, waiting, served, over or dropped
  taken      \* the messages in the order the session took them

vars == <<stage, taken>>

Waiting == {m \in Messages : stage[m] = "waiting"}
Served == {m \in Messages : stage[m] = "served"}

(* m was taken before n. *)
AheadOf(m, n) == \E i, j \in DOMAIN taken : i < j /\ taken[i] = m /\ taken[j] = n

Move(m, to, S) == stage' = [x \in Messages |-> IF x = m THEN to
                                             ELSE IF x \in S THEN "dropped" ELSE stage[x]]

Init == stage = [m \in Messages |-> "new"] /\ taken = <<>>

(* A message is taken: it waits, or is turned away together with others    *)
(* that wait, or is served at once.                                        *)
Take(m) ==
  /\ stage[m] = "new"
  /\ taken' = Append(taken, m)
  /\ \/ Move(m, "waiting", {})
     \/ \E S \in SUBSET Waiting : Move(m, "dropped", S)
     \/ /\ Orderly => Served = {} /\ Waiting = {}
        /\ Move(m, "served", {})

(* The first that waits is served. *)
Begin(m) ==
  /\ stage[m] = "waiting"
  /\ Orderly => Served = {} /\ \A n \in Waiting \ {m} : AheadOf(m, n)
  /\ Move(m, "served", {})
  /\ UNCHANGED taken

(* It is over; some that wait may be given up with it. *)
End(m) ==
  /\ stage[m] = "served"
  /\ \E S \in SUBSET Waiting : Move(m, "over", S)
  /\ UNCHANGED taken

(* Some that wait are given up. *)
Drop(m) ==
  /\ stage[m] = "waiting"
  /\ \E S \in SUBSET Waiting : Move(m, "dropped", S)
  /\ UNCHANGED taken

Next == \E m \in Messages : Take(m) \/ Begin(m) \/ End(m) \/ Drop(m)

Spec == Init /\ [][Next]_vars
=============================================================================
