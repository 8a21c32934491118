--------------------------- MODULE PermissionDesk ---------------------------
(***************************************************************************)
(* What a permission request may rely on, with no managers, maps or open   *)
(* responses in sight: it is answered at most once, and then by a caller   *)
(* that is bound to no session or to the request's own.  A request that    *)
(* was answered or has lapsed never waits again, and no request is asked   *)
(* twice.                                                                  *)
(***************************************************************************)
CONSTANTS
  Requests,
  Sessions,
  None

VARIABLES
  desk,      \* of each request: new, waiting, answered or lapsed
  owner,     \* the session of each request that was asked, or None
  settled    \* of each that was answered: the session its answerer is bound to, or None

vars == <<desk, owner, settled>>

Waiting == {r \in Requests : desk[r] = "waiting"}
With(f, r, x) == [q \in DOMAIN f \cup {r} |-> IF q = r THEN x ELSE f[q]]

Init ==
  /\ desk = [r \in Requests |-> "new"]
  /\ owner = [r \in {} |-> None] /\ settled = [r \in {} |-> None]

(* A request is put to the viewers of its session, or of none. *)
Ask(r, s) ==
  /\ desk[r] = "new"
  /\ desk' = [desk EXCEPT ![r] = "waiting"]
  /\ owner' = With(owner, r, s)
  /\ UNCHANGED settled

(* One answer ends it; a caller bound to another session gives none. *)
Answer(r, binding) ==
  /\ desk[r] = "waiting" /\ binding \in {None, owner[r]}
  /\ desk' = [desk EXCEPT ![r] = "answered"]
  /\ settled' = With(settled, r, binding)
  /\ UNCHANGED owner

(* Some requests time out, are aborted, or end with their session. *)
Lapse ==
  /\ \E S \in SUBSET Waiting :
       desk' = [r \in Requests |-> IF r \in S THEN "lapsed" ELSE desk[r]]
  /\ UNCHANGED <<owner, settled>>

Next ==
  \/ \E r \in Requests, s \in Sessions \cup {None} : Ask(r, s) \/ Answer(r, s)
  \/ Lapse

Spec == Init /\ [][Next]_vars
=============================================================================
