-------------------------- MODULE SchedulerProofs --------------------------
(***************************************************************************)
(* Proofs about Scheduler for any tasks, cap, operator and edits.          *)
(*                                                                         *)
(* The engine and its driver know a run by different variables: the engine *)
(* by `running` and `outcome`, the driver by its turn and its waiters.  The *)
(* invariant says that they know the same runs (RunsOK), what a due slot   *)
(* means to a one-time task (OnceOK), and how full a session's own queue   *)
(* can be while the driver may send only one prompt at a time (SessionOK). *)
(***************************************************************************)
EXTENDS Scheduler, FiniteSetTheorems, TLAPS

TaskStates == {"enabled", "paused", "deleted"}

RegistryOK ==
  /\ state \in [Tasks -> TaskStates] /\ ran \in [Tasks -> BOOLEAN]
  /\ disk \in [Tasks -> [state : TaskStates, ran : BOOLEAN]]

FlagsOK == timer \in BOOLEAN /\ destroyed \in BOOLEAN

(* A slot that has come is that of a task which may still run. *)
DueOK ==
  /\ due \in Seq(Tasks)
  /\ \A i, j \in 1..Len(due) : due[i] = due[j] => i = j
  /\ overdue \subseteq Members(due) /\ pass \subseteq Members(due)
  /\ \A t \in Members(due) : Schedulable(t)

SessionRecords == [mode : Modes, turn : {"none", "user", "run"}, queued : Nat,
                   stopping : BOOLEAN, stray : BOOLEAN]

DriverTypes ==
  /\ running \subseteq Tasks /\ blocked \subseteq Tasks /\ waiting \subseteq Tasks
  /\ outcome \in [Tasks -> Statuses \cup {"none"}]
  /\ driver \in [Tasks -> {"free", "active", "draining"}]
  /\ session \in [Tasks -> SessionRecords \cup {NoSession}]
  /\ fired \in [Tasks -> 0..2]

(* A prompt in a session's own queue is the driver's one, or is left over  *)
(* from a turn that stalled.  A destroyed engine (gone) leaves its own.    *)
Fits(s, d, gone) ==
  \/ s = NoSession /\ d # "active"
  \/ /\ s # NoSession
     /\ s.queued <= (IF d = "active" \/ gone THEN 1 ELSE 0) + (IF s.stray THEN 1 ELSE 0)
     /\ d = "active" => s.turn # "none"

(* The engine and the driver agree on the run of a task. *)
RunOK(t) ==
  /\ ~destroyed => /\ Owned(t) <=> driver[t] = "active" \/ t \in waiting
                   /\ t \in waiting => driver[t] = "draining"
                   /\ outcome[t] # "none" => t \in running
  /\ destroyed => t \notin running /\ t \notin waiting /\ driver[t] = "free"
  /\ t \in blocked => outcome[t] # "success"
  /\ Fits(session[t], driver[t], destroyed)

(* ... and a tick evaluates none that is in flight. *)
RunsOK ==
  /\ \A t \in Tasks : RunOK(t)
  /\ destroyed => pass = {}
  /\ pass \cap running = {}

(* A one-time task that fired is running, recorded, about to be recorded,  *)
(* or gone.                                                                *)
OnceOK ==
  \A t \in Once : /\ fired[t] <= 1
                  /\ fired[t] # 0 => ran[t] \/ t \in running \/ outcome[t] # "none"
                                     \/ state[t] = "deleted"

Inv == RegistryOK /\ FlagsOK /\ DueOK /\ DriverTypes /\ RunsOK /\ OnceOK

USE SchedulerAssumption DEF SchedulerAssumption
-----------------------------------------------------------------------------
(* Initially every task is enabled and nothing has come due. *)
LEMMA InitInv == Init => Inv
<1> SUFFICES ASSUME Init PROVE Inv
  OBVIOUS
<1>1. RegistryOK /\ FlagsOK
  BY DEF Init, RegistryOK, FlagsOK, TaskStates
<1>2. DueOK
  BY DEF Init, DueOK, Members
<1>3. DriverTypes
  BY DEF Init, DriverTypes
<1>4. RunsOK
  BY DEF Init, RunsOK, RunOK, Owned, Fits
<1>5. OnceOK
  BY DEF Init, OnceOK
<1> QED
  BY <1>1, <1>2, <1>3, <1>4, <1>5 DEF Inv

-----------------------------------------------------------------------------
(* Sessions. *)

(* No session is no record of one. *)
LEMMA NoSessionApart == NoSession \notin SessionRecords
<1>1. NoSession.mode = "none" /\ "none" \notin Modes
  BY DEF NoSession, Modes
<1>2. \A s \in SessionRecords : s.mode \in Modes
  BY DEF SessionRecords
<1> QED
  BY <1>1, <1>2

(* What the session's own handlers make of it fits what the driver is left *)
(* with.                                                                   *)
LEMMA SessionSteps ==
  ASSUME NEW s \in SessionRecords
  PROVE  /\ Stopped(s) \in SessionRecords /\ Stopped(s).queued = 0
         /\ Stopped(s).turn = s.turn /\ Stopped(s).stray = s.stray
         /\ NextTurn(s) \in SessionRecords /\ NextTurn(s).stray = s.stray
         /\ NextTurn(s).queued = (IF s.queued > 0 THEN s.queued - 1 ELSE 0)
         /\ Send(s) \in SessionRecords /\ Send(s).stray = s.stray /\ Send(s).turn # "none"
         /\ Send(s).queued = (IF s.turn = "none" THEN s.queued ELSE s.queued + 1)
         /\ Send(s).mode = s.mode
<1>1. s # NoSession /\ s.queued \in Nat
  BY NoSessionApart DEF SessionRecords
<1>2. /\ Stopped(s) \in SessionRecords /\ Stopped(s).queued = 0
      /\ Stopped(s).turn = s.turn /\ Stopped(s).stray = s.stray
  BY <1>1 DEF Stopped, SessionRecords
<1>3. /\ NextTurn(s) \in SessionRecords /\ NextTurn(s).stray = s.stray
      /\ NextTurn(s).queued = (IF s.queued > 0 THEN s.queued - 1 ELSE 0)
  <2>1. CASE s.queued > 0
    <3>1. NextTurn(s) = [s EXCEPT !.turn = "run", !.queued = s.queued - 1, !.stopping = FALSE]
      BY <2>1 DEF NextTurn
    <3>2. s.queued - 1 \in Nat
      BY <1>1, <2>1
    <3> QED
      BY <2>1, <3>1, <3>2 DEF SessionRecords
  <2>2. CASE ~(s.queued > 0)
    <3>1. NextTurn(s) = [s EXCEPT !.turn = "none", !.stopping = FALSE]
      BY <2>2 DEF NextTurn
    <3>2. NextTurn(s).queued = s.queued /\ s.queued = 0
      BY <1>1, <2>2, <3>1 DEF SessionRecords
    <3> QED
      BY <2>2, <3>1, <3>2 DEF SessionRecords
  <2> QED
    BY <2>1, <2>2
<1>4. /\ Send(s) \in SessionRecords /\ Send(s).stray = s.stray /\ Send(s).turn # "none"
      /\ Send(s).queued = (IF s.turn = "none" THEN s.queued ELSE s.queued + 1)
      /\ Send(s).mode = s.mode
  <2>1. CASE s.turn = "none"
    <3>1. Send(s) = [s EXCEPT !.turn = "run", !.stopping = FALSE]
      BY <2>1 DEF Send
    <3> QED
      BY <2>1, <3>1 DEF SessionRecords
  <2>2. CASE s.turn # "none"
    <3>1. Send(s) = [s EXCEPT !.queued = s.queued + 1]
      BY <2>2 DEF Send
    <3> QED
      BY <1>1, <2>2, <3>1 DEF SessionRecords
  <2> QED
    BY <2>1, <2>2
<1> QED
  BY <1>2, <1>3, <1>4

-----------------------------------------------------------------------------
(* The registry. *)

(* A rescheduled task is no longer due; the others are, in their order. *)
LEMMA RescheduleStep ==
  ASSUME DueOK, NEW t \in Tasks, Reschedule(t)
  PROVE  /\ due' \in Seq(Tasks) /\ Members(due') = Members(due) \ {t}
         /\ \A i, j \in 1..Len(due') : due'[i] = due'[j] => i = j
         /\ overdue' = overdue \ {t}
<1>1. /\ due \in Seq(Tasks) /\ Len(due) \in Nat /\ DOMAIN due = 1..Len(due)
      /\ \A i, j \in 1..Len(due) : due[i] = due[j] => i = j
      /\ \A i \in 1..Len(due) : due[i] \in Tasks
  BY DEF DueOK
<1>2. CASE t \notin Members(due)
  BY <1>1, <1>2 DEF Reschedule, Members
<1>3. CASE t \in Members(due)
  <2>1. PICK i \in 1..Len(due) :
          /\ due[i] = t
          /\ due' = [j \in 1 .. Len(due) - 1 |-> due[IF j < i THEN j ELSE j + 1]]
    BY <1>1, <1>3 DEF Reschedule
  <2> DEFINE at(j) == IF j < i THEN j ELSE j + 1
  <2>2. \A j \in 1 .. Len(due) - 1 : at(j) \in 1..Len(due) /\ at(j) # i
    BY <1>1, <2>1
  <2>3. \A j, k \in 1 .. Len(due) - 1 : at(j) = at(k) => j = k
    BY <1>1, <2>1
  <2>4. \A k \in 1..Len(due) : k # i => \E j \in 1 .. Len(due) - 1 : at(j) = k
    <3> SUFFICES ASSUME NEW k \in 1..Len(due), k # i
                 PROVE  \E j \in 1 .. Len(due) - 1 : at(j) = k
      OBVIOUS
    <3>1. CASE k < i
      <4>1. k \in 1 .. Len(due) - 1 /\ at(k) = k
        BY <1>1, <2>1, <3>1
      <4> QED
        BY <4>1
    <3>2. CASE k > i
      <4>1. k - 1 \in 1 .. Len(due) - 1 /\ at(k - 1) = k
        BY <1>1, <2>1, <3>2
      <4> QED
        BY <4>1
    <3> QED
      BY <1>1, <2>1, <3>1, <3>2
  <2>5. due' = [j \in 1 .. Len(due) - 1 |-> due[at(j)]] /\ Len(due) - 1 \in Nat
    BY <1>1, <2>1
  <2> HIDE DEF at
  <2>6. \A j \in 1 .. Len(due) - 1 : due[at(j)] \in Tasks
    BY <1>1, <2>2
  <2>7. due' \in Seq(Tasks) /\ Len(due') = Len(due) - 1 /\ DOMAIN due' = 1 .. Len(due) - 1
    BY <2>5, <2>6
  <2>8. \A j \in 1..Len(due') : due'[j] = due[at(j)]
    BY <2>5, <2>7
  <2>9. \A j, k \in 1..Len(due') : due'[j] = due'[k] => j = k
    <3> SUFFICES ASSUME NEW j \in 1..Len(due'), NEW k \in 1..Len(due'), due'[j] = due'[k]
                 PROVE  j = k
      OBVIOUS
    <3>1. due[at(j)] = due[at(k)]
      BY <2>8
    <3>2. at(j) = at(k)
      BY <1>1, <2>2, <2>7, <3>1
    <3> QED
      BY <2>3, <2>7, <3>2
  <2>10. Members(due') = Members(due) \ {t}
    <3>1. ASSUME NEW u \in Members(due') PROVE u \in Members(due) \ {t}
      <4>1. PICK j \in 1..Len(due') : u = due[at(j)]
        BY <2>7, <2>8, <3>1 DEF Members
      <4>2. at(j) \in 1..Len(due) /\ at(j) # i
        BY <2>2, <2>7
      <4> QED
        BY <1>1, <2>1, <4>1, <4>2 DEF Members
    <3>2. ASSUME NEW u \in Members(due), u # t PROVE u \in Members(due')
      <4>1. PICK k \in 1..Len(due) : u = due[k]
        BY <1>1 DEF Members
      <4>2. PICK j \in 1 .. Len(due) - 1 : at(j) = k
        BY <2>1, <2>4, <3>2, <4>1
      <4> QED
        BY <2>7, <2>8, <4>1, <4>2 DEF Members
    <3> QED
      BY <3>1, <3>2
  <2> QED
    BY <2>7, <2>9, <2>10 DEF Reschedule
<1> QED
  BY <1>2, <1>3

(* What _recordRun leaves in the registry and among the slots. *)
LEMMA RecordStep ==
  ASSUME RegistryOK, DueOK, NEW t \in Tasks, NEW status, RecordRun(t, status),
         pass' \subseteq pass \ {t}
  PROVE  /\ RegistryOK' /\ DueOK' /\ state' = state
         /\ \A u \in Tasks : ran[u] => ran'[u]
         /\ state[t] = "deleted" \/ ran'[t]
<1>1. CASE state[t] = "deleted"
  <2>1. UNCHANGED <<state, ran, disk, due, overdue>>
    BY <1>1 DEF RecordRun, registryVars, slotVars
  <2>2. RegistryOK'
    BY <2>1 DEF RegistryOK
  <2>3. Members(due)' = Members(due) /\ \A u \in Members(due) : Schedulable(u)'
    BY <2>1 DEF DueOK, Members, Schedulable
  <2>4. DueOK'
    BY <2>1, <2>3 DEF DueOK
  <2> QED
    BY <1>1, <2>1, <2>2, <2>4
<1>2. CASE state[t] # "deleted"
  <2>1. ran' = [ran EXCEPT ![t] = TRUE] /\ state' = state /\ Persist /\ Reschedule(t)
    BY <1>2 DEF RecordRun
  <2>2. ran' \in [Tasks -> BOOLEAN] /\ state' \in [Tasks -> TaskStates]
    BY <2>1 DEF RegistryOK
  <2>3. RegistryOK'
    <3>1. disk' \in [Tasks -> [state : TaskStates, ran : BOOLEAN]]
      <4>1. CASE UNCHANGED disk
        BY <4>1 DEF RegistryOK
      <4>2. CASE disk' = [u \in Tasks |-> [state |-> state'[u], ran |-> ran'[u]]]
        <5>1. \A u \in Tasks : state'[u] \in TaskStates /\ ran'[u] \in BOOLEAN
          BY <2>2
        <5> QED
          BY <4>2, <5>1
      <4> QED
        BY <2>1, <4>1, <4>2 DEF Persist
    <3> QED
      BY <2>2, <3>1 DEF RegistryOK
  <2>4. \A u \in Tasks : /\ u = t => ran'[u]
                         /\ u # t => ran'[u] = ran[u]
    BY <2>1 DEF RegistryOK
  <2>5. /\ due' \in Seq(Tasks) /\ Members(due') = Members(due) \ {t}
        /\ \A i, j \in 1..Len(due') : due'[i] = due'[j] => i = j
        /\ overdue' = overdue \ {t}
    BY <2>1, RescheduleStep
  <2>6. \A u \in Members(due') : /\ state'[u] = "enabled" /\ ~(u \in Once /\ ran'[u])
    <3> SUFFICES ASSUME NEW u \in Members(due')
                 PROVE  state'[u] = "enabled" /\ ~(u \in Once /\ ran'[u])
      OBVIOUS
    <3>1. u # t /\ u \in Tasks /\ Schedulable(u)
      BY <2>5 DEF DueOK, Members
    <3> QED
      BY <2>1, <2>4, <3>1 DEF Schedulable
  <2>7. DueOK'
    <3>1. \A u \in Members(due') : Schedulable(u)'
      BY <2>6 DEF Schedulable
    <3>2. overdue' \subseteq Members(due') /\ pass' \subseteq Members(due')
      BY <2>5 DEF DueOK
    <3>3. Members(due)' = Members(due')
      BY DEF Members
    <3> QED
      BY <2>5, <3>1, <3>2, <3>3 DEF DueOK
  <2> QED
    BY <2>1, <2>3, <2>4, <2>7
<1> QED
  BY <1>1, <1>2

-----------------------------------------------------------------------------
(* The driver. *)

(* Only the run of t changes. *)
OnlyRun(t) ==
  /\ outcome' \in [Tasks -> Statuses \cup {"none"}]
  /\ driver' \in [Tasks -> {"free", "active", "draining"}]
  /\ session' \in [Tasks -> SessionRecords \cup {NoSession}]
  /\ running' \subseteq Tasks /\ blocked' \subseteq Tasks /\ waiting' \subseteq Tasks
  /\ \A u \in Tasks \ {t} :
       /\ outcome'[u] = outcome[u] /\ driver'[u] = driver[u] /\ session'[u] = session[u]
       /\ u \in running' <=> u \in running
       /\ u \in blocked' <=> u \in blocked
       /\ u \in waiting' <=> u \in waiting

(* The other runs stay as they were. *)
LEMMA OneRun ==
  ASSUME Inv, NEW t \in Tasks, OnlyRun(t), RunOK(t)', destroyed' = destroyed
  PROVE  \A u \in Tasks : RunOK(u)'
<1> SUFFICES ASSUME NEW u \in Tasks, u # t PROVE RunOK(u)'
  OBVIOUS
<1>1. RunOK(u)
  BY DEF Inv, RunsOK
<1>2. /\ outcome'[u] = outcome[u] /\ driver'[u] = driver[u] /\ session'[u] = session[u]
      /\ u \in running' <=> u \in running
      /\ u \in blocked' <=> u \in blocked
      /\ u \in waiting' <=> u \in waiting
  BY DEF OnlyRun
<1>3. Fits(session'[u], driver'[u], destroyed')
  BY <1>1, <1>2 DEF RunOK
<1> QED
  BY <1>1, <1>2, <1>3 DEF RunOK, Owned

(* A step of a session or of the driver, not of the engine. *)
LEMMA TurnStep ==
  ASSUME Inv, EventLoopFree, NEW t \in Tasks, OnlyRun(t), RunOK(t)',
         UNCHANGED <<registryVars, slotVars, engineVars, running, fired>>
  PROVE  Inv'
<1>1. UNCHANGED <<state, ran, disk, due, overdue, pass, timer, destroyed, running, fired>>
  BY DEF registryVars, slotVars, engineVars
<1>2. RegistryOK' /\ FlagsOK'
  BY <1>1 DEF Inv, RegistryOK, FlagsOK
<1>3. DueOK'
  <2>1. Members(due)' = Members(due) /\ \A u \in Members(due) : Schedulable(u)'
    BY <1>1 DEF Inv, DueOK, Members, Schedulable
  <2> QED
    BY <1>1, <2>1 DEF Inv, DueOK
<1>4. DriverTypes'
  BY <1>1 DEF Inv, DriverTypes, OnlyRun
<1>5. RunsOK'
  BY <1>1, OneRun DEF Inv, RunsOK
<1>6. OnceOK'
  BY <1>1 DEF Inv, OnceOK, EventLoopFree
<1> QED
  BY <1>2, <1>3, <1>4, <1>5, <1>6 DEF Inv

(* _beginTurn: the turn is sent or the run fails at once. *)
LEMMA BeginStep ==
  ASSUME Inv, NEW t \in Tasks, NEW s \in SessionRecords \cup {NoSession},
         Fits(s, "free", destroyed),
         ~destroyed, outcome[t] = "none", BeginTurn(t, s)
  PROVE  /\ outcome' \in [Tasks -> Statuses \cup {"none"}]
         /\ driver' \in [Tasks -> {"free", "active", "draining"}]
         /\ session' \in [Tasks -> SessionRecords \cup {NoSession}]
         /\ \A u \in Tasks \ {t} :
              outcome'[u] = outcome[u] /\ driver'[u] = driver[u] /\ session'[u] = session[u]
         /\ Fits(session'[t], driver'[t], destroyed)
         /\ \/ driver'[t] = "active" /\ outcome'[t] = "none" /\ session'[t].mode = s.mode
            \/ driver'[t] = "free" /\ outcome'[t] = "error"
<1>1. /\ outcome \in [Tasks -> Statuses \cup {"none"}]
      /\ driver \in [Tasks -> {"free", "active", "draining"}]
      /\ session \in [Tasks -> SessionRecords \cup {NoSession}]
  BY DEF Inv, DriverTypes
<1>2. CASE /\ s # NoSession /\ session' = [session EXCEPT ![t] = Send(s)]
           /\ driver' = [driver EXCEPT ![t] = "active"] /\ outcome' = outcome
  <2>1. s \in SessionRecords /\ s.queued \in Nat
    BY <1>2 DEF SessionRecords
  <2>2. /\ Send(s) \in SessionRecords /\ Send(s).stray = s.stray /\ Send(s).turn # "none"
        /\ Send(s).queued = (IF s.turn = "none" THEN s.queued ELSE s.queued + 1)
        /\ Send(s).mode = s.mode
    BY <2>1, SessionSteps
  <2>3. Fits(Send(s), "active", destroyed)
    BY <1>2, <2>1, <2>2, NoSessionApart DEF Fits
  <2>4. session'[t] = Send(s) /\ driver'[t] = "active"
    BY <1>1, <1>2
  <2> QED
    BY <1>1, <1>2, <2>2, <2>3, <2>4
<1>3. CASE /\ session' = [session EXCEPT ![t] = s]
           /\ driver' = [driver EXCEPT ![t] = "free"] /\ Settle(t, "error")
  <2>1. outcome' = [outcome EXCEPT ![t] = "error"]
    BY <1>3 DEF Settle, Settled
  <2> QED
    BY <1>1, <1>3, <2>1 DEF Statuses
<1> QED
  BY <1>2, <1>3 DEF BeginTurn

(* The end of a turn or of a drain finds the next run waiting or none. *)
LEMMA HandOffStep ==
  ASSUME Inv, NEW t \in Tasks, NEW s \in SessionRecords \cup {NoSession},
         Fits(s, "free", destroyed),
         ~destroyed, driver[t] = "draining", HandOff(t, s),
         running' = running, blocked' = blocked, destroyed' = destroyed
  PROVE  OnlyRun(t) /\ RunOK(t)'
<1>1. /\ outcome \in [Tasks -> Statuses \cup {"none"}]
      /\ driver \in [Tasks -> {"free", "active", "draining"}]
      /\ session \in [Tasks -> SessionRecords \cup {NoSession}]
      /\ running \subseteq Tasks /\ blocked \subseteq Tasks /\ waiting \subseteq Tasks
  BY DEF Inv, DriverTypes
<1>2. RunOK(t) /\ waiting' = waiting \ {t}
  BY DEF Inv, RunsOK, HandOff
<1>3. CASE t \in waiting
  <2>1. outcome[t] = "none" /\ t \in running /\ BeginTurn(t, s)
    BY <1>2, <1>3 DEF RunOK, Owned, HandOff
  <2>2. /\ outcome' \in [Tasks -> Statuses \cup {"none"}]
        /\ driver' \in [Tasks -> {"free", "active", "draining"}]
        /\ session' \in [Tasks -> SessionRecords \cup {NoSession}]
        /\ \A u \in Tasks \ {t} :
             outcome'[u] = outcome[u] /\ driver'[u] = driver[u] /\ session'[u] = session[u]
        /\ Fits(session'[t], driver'[t], destroyed)
        /\ \/ driver'[t] = "active" /\ outcome'[t] = "none"
           \/ driver'[t] = "free" /\ outcome'[t] = "error"
    BY <2>1, BeginStep
  <2>3. OnlyRun(t)
    BY <1>1, <1>2, <2>2 DEF OnlyRun
  <2>4. RunOK(t)'
    BY <1>2, <2>1, <2>2 DEF RunOK, Owned
  <2> QED
    BY <2>3, <2>4
<1>4. CASE t \notin waiting
  <2>1. /\ driver' = [driver EXCEPT ![t] = "free"] /\ session' = [session EXCEPT ![t] = s]
        /\ outcome' = outcome
    BY <1>4 DEF HandOff
  <2>2. OnlyRun(t)
    BY <1>1, <1>2, <2>1 DEF OnlyRun
  <2>3. driver'[t] = "free" /\ session'[t] = s /\ t \notin waiting'
    BY <1>1, <1>2, <2>1
  <2>4. RunOK(t)'
    BY <1>2, <1>4, <2>1, <2>3 DEF RunOK, Owned
  <2> QED
    BY <2>2, <2>4
<1> QED
  BY <1>3, <1>4

(* A terminal event, whoever's turn it ends. *)
LEMMA DeliverStep ==
  ASSUME Inv, NEW t \in Tasks, NEW s \in SessionRecords \cup {NoSession},
         Fits(s, "free", destroyed),
         NEW status \in Statuses, Deliver(t, status, s),
         running' = running, blocked' = blocked, destroyed' = destroyed
  PROVE  OnlyRun(t) /\ RunOK(t)'
<1>1. /\ outcome \in [Tasks -> Statuses \cup {"none"}]
      /\ driver \in [Tasks -> {"free", "active", "draining"}]
      /\ session \in [Tasks -> SessionRecords \cup {NoSession}]
      /\ running \subseteq Tasks /\ blocked \subseteq Tasks /\ waiting \subseteq Tasks
  BY DEF Inv, DriverTypes
<1>2. RunOK(t) /\ driver[t] \in {"free", "active", "draining"}
  BY <1>1 DEF Inv, RunsOK
<1>3. CASE driver[t] = "active"
  <2>1. /\ outcome' = [outcome EXCEPT ![t] = Settled(t, status)]
        /\ driver' = [driver EXCEPT ![t] = "free"]
        /\ session' = [session EXCEPT ![t] = s] /\ waiting' = waiting
    BY <1>3 DEF Deliver, Settle
  <2>2. /\ Settled(t, status) \in Statuses /\ Settled(t, status) # "none"
        /\ t \in blocked => Settled(t, status) # "success"
    BY DEF Settled, Statuses
  <2>3. OnlyRun(t)
    BY <1>1, <2>1, <2>2 DEF OnlyRun
  <2>4. /\ outcome'[t] = Settled(t, status) /\ driver'[t] = "free" /\ session'[t] = s
    BY <1>1, <2>1
  <2>5. t \in running /\ t \notin waiting /\ ~destroyed
    BY <1>2, <1>3 DEF RunOK, Owned
  <2>6. RunOK(t)'
    BY <2>1, <2>2, <2>4, <2>5 DEF RunOK, Owned
  <2> QED
    BY <2>3, <2>6
<1>4. CASE driver[t] = "draining"
  <2>1. HandOff(t, s) /\ ~destroyed
    BY <1>2, <1>4 DEF Deliver, RunOK
  <2> QED
    BY <1>4, <2>1, HandOffStep
<1>5. CASE driver[t] = "free"
  <2>1. session' = [session EXCEPT ![t] = s] /\ UNCHANGED <<outcome, driver, waiting>>
    BY <1>5 DEF Deliver
  <2>2. OnlyRun(t)
    BY <1>1, <2>1 DEF OnlyRun
  <2>3. session'[t] = s
    BY <1>1, <2>1
  <2>4. RunOK(t)'
    BY <1>2, <1>5, <2>1, <2>3 DEF RunOK, Owned
  <2> QED
    BY <2>2, <2>4
<1> QED
  BY <1>2, <1>3, <1>4, <1>5

-----------------------------------------------------------------------------
(* The session. *)

(* A turn ends, stalls, or its forgotten loop does. *)
LEMMA EventInv ==
  ASSUME Inv, NEW t \in Tasks,
         \/ \E status \in Statuses : TurnEnds(t, status) \/ StrayEnds(t, status)
         \/ StreamStall(t)
  PROVE  Inv'
<1>1. /\ EventLoopFree /\ session[t] # NoSession
      /\ UNCHANGED <<registryVars, slotVars, engineVars, running, blocked, fired>>
      /\ destroyed' = destroyed
  BY DEF TurnEnds, StrayEnds, StreamStall, Busy, Alive, engineVars
<1>2. /\ session[t] \in SessionRecords /\ session[t].queued \in Nat
      /\ session[t].stray \in BOOLEAN
  BY <1>1 DEF Inv, DriverTypes, SessionRecords
<1>3. /\ session[t].queued <= (IF driver[t] = "active" \/ destroyed THEN 1 ELSE 0)
                                + (IF session[t].stray THEN 1 ELSE 0)
      /\ driver[t] = "active" => session[t].turn # "none"
  BY <1>1 DEF Inv, RunsOK, RunOK, Fits
<1> DEFINE next == NextTurn(session[t])
<1>4. /\ next \in SessionRecords /\ next.stray = session[t].stray
      /\ next.queued = (IF session[t].queued > 0 THEN session[t].queued - 1 ELSE 0)
  BY <1>2, SessionSteps
<1> HIDE DEF next
<1>5. CASE \E status \in Statuses : TurnEnds(t, status)
  <2>1. PICK status \in Statuses : Deliver(t, status, next)
    BY <1>5 DEF TurnEnds, next
  <2>2. /\ next # NoSession
        /\ next.queued <= (IF destroyed THEN 1 ELSE 0) + (IF next.stray THEN 1 ELSE 0)
    BY <1>2, <1>3, <1>4, NoSessionApart
  <2>3. Fits(next, "free", destroyed)
    BY <1>4, <2>2 DEF Fits, SessionRecords
  <2>4. OnlyRun(t) /\ RunOK(t)'
    BY <1>1, <1>4, <2>1, <2>3, DeliverStep
  <2> QED
    BY <1>1, <2>4, TurnStep
<1>6. CASE \E status \in Statuses : StrayEnds(t, status)
  <2> DEFINE left == [next EXCEPT !.stray = Busy(t)]
  <2>1. PICK status \in Statuses : Deliver(t, status, left) /\ session[t].stray
    BY <1>6 DEF StrayEnds, next
  <2>2. Busy(t) \in BOOLEAN /\ (Busy(t) <=> session[t].turn # "none")
    BY <1>1 DEF Busy, Alive
  <2>3. left \in SessionRecords /\ left.queued = next.queued /\ left.stray = Busy(t)
    BY <1>4, <2>2 DEF SessionRecords
  <2> HIDE DEF left
  <2>4. left.queued \in Nat /\ left.queued <= (IF destroyed THEN 1 ELSE 0)
                                      + (IF left.stray THEN 1 ELSE 0)
    BY <1>2, <1>3, <1>4, <2>1, <2>2, <2>3
  <2>5. Fits(left, "free", destroyed)
    BY <2>3, <2>4, NoSessionApart DEF Fits
  <2>6. OnlyRun(t) /\ RunOK(t)'
    BY <1>1, <2>1, <2>3, <2>5, DeliverStep
  <2> QED
    BY <1>1, <2>6, TurnStep
<1>7. CASE StreamStall(t)
  <2> DEFINE left == [session[t] EXCEPT !.turn = "none", !.stopping = FALSE, !.stray = TRUE]
  <2>1. Deliver(t, "success", left) /\ ~session[t].stray
    BY <1>7 DEF StreamStall
  <2>2. left \in SessionRecords /\ left.queued = session[t].queued /\ left.stray = TRUE
    BY <1>2 DEF SessionRecords
  <2> HIDE DEF left
  <2>3. left.queued <= (IF destroyed THEN 1 ELSE 0) + 1
    BY <1>2, <1>3, <2>1, <2>2
  <2>4. Fits(left, "free", destroyed)
    BY <1>2, <2>2, <2>3, NoSessionApart DEF Fits
  <2>5. "success" \in Statuses
    BY DEF Statuses
  <2>6. OnlyRun(t) /\ RunOK(t)'
    BY <1>1, <2>1, <2>2, <2>4, <2>5, DeliverStep
  <2> QED
    BY <1>1, <2>6, TurnStep
<1> QED
  BY <1>5, <1>6, <1>7

(* The driver's timers, a prompt, the end of the session and the operator. *)
LEMMA PersonInv ==
  ASSUME Inv, NEW t \in Tasks,
         \/ RunTimeout(t) \/ PermissionRequest(t) \/ SessionDestroyed(t)
         \/ OperatorSends(t) \/ OperatorStops(t) \/ \E m \in Modes : OperatorSetsMode(t, m)
  PROVE  Inv'
<1>1. /\ EventLoopFree /\ session[t] # NoSession
      /\ UNCHANGED <<registryVars, slotVars, engineVars, running, fired>>
      /\ destroyed' = destroyed /\ waiting' = waiting
  <2>1. RunTimeout(t) => session[t] # NoSession
    BY DEF RunTimeout, Inv, RunsOK, RunOK, Fits
  <2> QED
    BY <2>1 DEF RunTimeout, PermissionRequest, SessionDestroyed, OperatorSends, OperatorStops,
                OperatorSetsMode, Busy, Alive, engineVars, runVars
<1>2. /\ outcome \in [Tasks -> Statuses \cup {"none"}]
      /\ driver \in [Tasks -> {"free", "active", "draining"}]
      /\ session \in [Tasks -> SessionRecords \cup {NoSession}]
      /\ running \subseteq Tasks /\ blocked \subseteq Tasks /\ waiting \subseteq Tasks
  BY DEF Inv, DriverTypes
<1>3. session[t] \in SessionRecords /\ session[t].queued \in Nat
  BY <1>1, <1>2 DEF SessionRecords
<1>4. /\ RunOK(t) /\ outcome[t] = "none" /\ Fits(session[t], driver[t], destroyed)
  BY <1>1 DEF Inv, RunsOK, RunOK, EventLoopFree
<1>5. ASSUME NEW s \in SessionRecords, s.queued <= session[t].queued, s.stray = session[t].stray,
             session[t].turn # "none" => s.turn # "none"
      PROVE  Fits(s, driver[t], destroyed)
  <2>1. s.queued \in Nat
    BY DEF SessionRecords
  <2> QED
    BY <1>1, <1>3, <1>4, <1>5, <2>1, NoSessionApart DEF Fits
<1> DEFINE stop == Stopped(session[t])
<1>6. /\ stop \in SessionRecords /\ stop.queued = 0 /\ stop.turn = session[t].turn
      /\ stop.stray = session[t].stray
  BY <1>3, SessionSteps
<1>7. Fits(stop, driver[t], destroyed)
  BY <1>3, <1>5, <1>6
<1> HIDE DEF stop
<1>8. CASE RunTimeout(t)
  <2>1. /\ driver[t] = "active" /\ ~destroyed /\ blocked' = blocked
        /\ outcome' = [outcome EXCEPT ![t] = Settled(t, "timeout")]
        /\ driver' = [driver EXCEPT ![t] = "draining"]
        /\ session' = [session EXCEPT ![t] = stop]
    BY <1>8 DEF RunTimeout, Settle, stop
  <2>2. Settled(t, "timeout") \in {"timeout", "error"}
    BY DEF Settled
  <2>3. OnlyRun(t)
    BY <1>1, <1>2, <1>6, <2>1, <2>2 DEF OnlyRun, Statuses
  <2>4. /\ outcome'[t] \in {"timeout", "error"} /\ driver'[t] = "draining" /\ session'[t] = stop
    BY <1>2, <2>1, <2>2
  <2>5. Fits(stop, "draining", destroyed)
    BY <1>6, NoSessionApart DEF Fits
  <2>6. RunOK(t)'
    BY <1>1, <1>4, <2>1, <2>4, <2>5 DEF RunOK, Owned
  <2> QED
    BY <1>1, <2>3, <2>6, TurnStep
<1>9. CASE PermissionRequest(t)
  <2>1. /\ Owned(t) /\ ~destroyed /\ blocked' = blocked \cup {t}
        /\ session' = [session EXCEPT ![t] = stop] /\ UNCHANGED <<outcome, driver>>
    BY <1>9 DEF PermissionRequest, stop
  <2>2. OnlyRun(t)
    BY <1>1, <1>2, <1>6, <2>1 DEF OnlyRun
  <2>3. session'[t] = stop
    BY <1>2, <2>1
  <2>4. RunOK(t)'
    BY <1>1, <1>4, <1>7, <2>1, <2>3 DEF RunOK, Owned
  <2> QED
    BY <1>1, <2>2, <2>4, TurnStep
<1>10. CASE SessionDestroyed(t)
  <2>1. /\ session' = [session EXCEPT ![t] = NoSession] /\ blocked' = blocked
        /\ IF driver[t] = "active"
           THEN /\ outcome' = [outcome EXCEPT ![t] = "error"]
                /\ driver' = [driver EXCEPT ![t] = "free"]
           ELSE UNCHANGED <<outcome, driver>>
    BY <1>10 DEF SessionDestroyed, Settle, Settled
  <2>2. OnlyRun(t)
    BY <1>1, <1>2, <2>1 DEF OnlyRun, Statuses
  <2>3. /\ session'[t] = NoSession
        /\ driver[t] = "active" => outcome'[t] = "error" /\ driver'[t] = "free"
        /\ driver[t] # "active" => outcome'[t] = "none" /\ driver'[t] = driver[t]
    BY <1>2, <1>4, <2>1
  <2>4. RunOK(t)'
    BY <1>1, <1>4, <2>1, <2>3 DEF RunOK, Owned, Fits
  <2> QED
    BY <1>1, <2>2, <2>4, TurnStep
<1>11. CASE OperatorSends(t) \/ OperatorStops(t) \/ \E m \in Modes : OperatorSetsMode(t, m)
  <2>1. \E s \in SessionRecords :
          /\ session' = [session EXCEPT ![t] = s] /\ Fits(s, driver[t], destroyed)
    <3>1. CASE OperatorSends(t)
      <4> DEFINE s == [session[t] EXCEPT !.turn = "user", !.stopping = FALSE]
      <4>1. /\ session' = [session EXCEPT ![t] = s] /\ s \in SessionRecords
            /\ s.queued = session[t].queued /\ s.stray = session[t].stray /\ s.turn = "user"
        BY <1>2, <1>3, <3>1 DEF OperatorSends, SessionRecords
      <4> HIDE DEF s
      <4>2. Fits(s, driver[t], destroyed)
        BY <1>3, <1>5, <4>1
      <4> QED
        BY <4>1, <4>2
    <3>2. CASE OperatorStops(t)
      BY <1>6, <1>7, <3>2 DEF OperatorStops, stop
    <3>3. ASSUME NEW m \in Modes, OperatorSetsMode(t, m)
          PROVE  \E s \in SessionRecords :
                   /\ session' = [session EXCEPT ![t] = s] /\ Fits(s, driver[t], destroyed)
      <4> DEFINE s == SetMode(session[t], m)
      <4>1. /\ s \in SessionRecords /\ s.queued = session[t].queued
            /\ s.stray = session[t].stray /\ s.turn = session[t].turn
        BY <1>3 DEF SetMode, SessionRecords
      <4>2. session' = [session EXCEPT ![t] = s]
        BY <3>3 DEF OperatorSetsMode
      <4> HIDE DEF s
      <4>3. Fits(s, driver[t], destroyed)
        BY <1>3, <1>5, <4>1
      <4> QED
        BY <4>1, <4>2, <4>3
    <3> QED
      BY <1>11, <3>1, <3>2, <3>3
  <2>2. PICK s \in SessionRecords : /\ session' = [session EXCEPT ![t] = s]
                                    /\ Fits(s, driver[t], destroyed)
    BY <2>1
  <2>3. UNCHANGED <<outcome, driver, blocked>>
    BY <1>11 DEF OperatorSends, OperatorStops, OperatorSetsMode, runVars
  <2>4. OnlyRun(t)
    BY <1>1, <1>2, <2>2, <2>3 DEF OnlyRun
  <2>5. session'[t] = s
    BY <1>2, <2>2
  <2>6. RunOK(t)'
    BY <1>1, <1>4, <2>2, <2>3, <2>5 DEF RunOK, Owned
  <2> QED
    BY <1>1, <2>4, <2>6, TurnStep
<1> QED
  BY <1>8, <1>9, <1>10, <1>11

(* A drain ends. *)
LEMMA DrainInv ==
  ASSUME Inv, NEW t \in Tasks, DrainEnds(t)
  PROVE  Inv'
<1>1. /\ EventLoopFree /\ ~destroyed /\ driver[t] = "draining" /\ HandOff(t, session[t])
      /\ UNCHANGED <<registryVars, slotVars, engineVars, running, blocked, fired>>
      /\ destroyed' = destroyed
  BY DEF DrainEnds, engineVars
<1>2. session[t] \in SessionRecords \cup {NoSession} /\ Fits(session[t], "free", destroyed)
  BY <1>1 DEF Inv, DriverTypes, RunsOK, RunOK, Fits
<1>3. OnlyRun(t) /\ RunOK(t)'
  BY <1>1, <1>2, HandOffStep
<1> QED
  BY <1>1, <1>3, TurnStep

-----------------------------------------------------------------------------
(* The engine. *)

(* What the clock and the operator do to the slots leaves the runs alone. *)
LEMMA SlotInv ==
  ASSUME Inv, NEW t \in Tasks,
         SlotComes(t) \/ GraceExpires(t) \/ \E s \in Edits : EditTask(t, s)
  PROVE  Inv'
<1>1. /\ EventLoopFree /\ pass = {} /\ pass' = {} /\ timer' \in BOOLEAN
      /\ UNCHANGED <<destroyed, running, outcome, blocked, fired, session, driver, waiting>>
  BY DEF SlotComes, GraceExpires, EditTask, EventLoopFree, engineVars, runVars, turnVars, Inv,
         FlagsOK
<1>2. FlagsOK' /\ DriverTypes'
  BY <1>1 DEF Inv, FlagsOK, DriverTypes
<1>3. RunsOK'
  <2>1. \A u \in Tasks : RunOK(u)'
    BY <1>1 DEF Inv, RunsOK, RunOK, Owned
  <2> QED
    BY <1>1, <2>1 DEF RunsOK
<1>4. CASE SlotComes(t)
  <2>1. /\ Schedulable(t) /\ t \notin Members(due) /\ due' = Append(due, t)
        /\ UNCHANGED <<state, ran, disk, overdue>>
    BY <1>4 DEF SlotComes, registryVars
  <2>2. /\ due \in Seq(Tasks) /\ Len(due) \in Nat /\ DOMAIN due = 1..Len(due)
        /\ \A i \in 1..Len(due) : due[i] # t
    BY <2>1 DEF Inv, DueOK, Members
  <2>3. /\ due' \in Seq(Tasks) /\ Len(due') = Len(due) + 1 /\ due'[Len(due) + 1] = t
        /\ \A i \in 1..Len(due) : due'[i] = due[i]
    BY <2>1, <2>2
  <2>4. Members(due') = Members(due) \cup {t}
    <3>1. DOMAIN due' = 1 .. Len(due) + 1 /\ Len(due) + 1 \in DOMAIN due'
      BY <2>2, <2>3
    <3>2. \A i \in 1 .. Len(due) + 1 : i \in 1..Len(due) \/ i = Len(due) + 1
      BY <2>2
    <3>3. \A i \in 1..Len(due) : i \in 1 .. Len(due) + 1
      BY <2>2
    <3> QED
      BY <2>2, <2>3, <3>1, <3>2, <3>3 DEF Members
  <2>5. \A i, j \in 1..Len(due') : due'[i] = due'[j] => i = j
    BY <2>2, <2>3 DEF Inv, DueOK
  <2>6. DueOK'
    <3>1. \A u \in Members(due') : Schedulable(u)'
      BY <2>1, <2>4 DEF Inv, DueOK, Schedulable
    <3>2. Members(due)' = Members(due')
      BY DEF Members
    <3> QED
      BY <1>1, <2>1, <2>3, <2>4, <2>5, <3>1, <3>2 DEF Inv, DueOK
  <2>7. RegistryOK' /\ OnceOK'
    BY <1>1, <2>1 DEF Inv, RegistryOK, OnceOK
  <2> QED
    BY <1>2, <1>3, <2>6, <2>7 DEF Inv
<1>5. CASE GraceExpires(t)
  <2>1. /\ t \in Members(due) /\ overdue' = overdue \cup {t} /\ UNCHANGED <<state, ran, disk, due>>
    BY <1>5 DEF GraceExpires, registryVars
  <2>2. Members(due)' = Members(due) /\ \A u \in Members(due) : Schedulable(u)'
    BY <2>1 DEF Inv, DueOK, Members, Schedulable
  <2>3. DueOK'
    BY <1>1, <2>1, <2>2 DEF Inv, DueOK
  <2>4. RegistryOK' /\ OnceOK'
    BY <1>1, <2>1 DEF Inv, RegistryOK, OnceOK
  <2> QED
    BY <1>2, <1>3, <2>3, <2>4 DEF Inv
<1>6. CASE \E s \in Edits : EditTask(t, s)
  <2>1. PICK s \in Edits : /\ state[t] # "deleted" /\ state' = [state EXCEPT ![t] = s]
                           /\ ran' = ran /\ Persist /\ Reschedule(t)
    BY <1>6 DEF EditTask
  <2>2. state' \in [Tasks -> TaskStates] /\ ran' \in [Tasks -> BOOLEAN]
        /\ \A u \in Tasks : u # t => state'[u] = state[u]
    BY <2>1 DEF Inv, RegistryOK, TaskStates
  <2>3. RegistryOK'
    <3>1. disk' \in [Tasks -> [state : TaskStates, ran : BOOLEAN]]
      <4>1. CASE UNCHANGED disk
        BY <4>1 DEF Inv, RegistryOK
      <4>2. CASE disk' = [u \in Tasks |-> [state |-> state'[u], ran |-> ran'[u]]]
        <5>1. \A u \in Tasks : state'[u] \in TaskStates /\ ran'[u] \in BOOLEAN
          BY <2>2
        <5> QED
          BY <4>2, <5>1
      <4> QED
        BY <2>1, <4>1, <4>2 DEF Persist
    <3> QED
      BY <2>2, <3>1 DEF RegistryOK
  <2>4. /\ due' \in Seq(Tasks) /\ Members(due') = Members(due) \ {t}
        /\ \A i, j \in 1..Len(due') : due'[i] = due'[j] => i = j
        /\ overdue' = overdue \ {t}
    BY <2>1, RescheduleStep DEF Inv
  <2>5. DueOK'
    <3>1. \A u \in Members(due') : u \in Tasks /\ u # t /\ Schedulable(u)
      <4>1. \A u \in Members(due) : u \in Tasks /\ Schedulable(u)
        BY DEF Inv, DueOK, Members
      <4> QED
        BY <2>4, <4>1
    <3>2. \A u \in Members(due') : Schedulable(u)'
      BY <2>1, <2>2, <3>1 DEF Schedulable
    <3>3. Members(due)' = Members(due') /\ overdue' \subseteq Members(due')
      BY <2>4 DEF Inv, DueOK, Members
    <3> QED
      BY <1>1, <2>4, <3>2, <3>3 DEF DueOK
  <2>6. OnceOK'
    BY <1>1, <2>1, <2>2 DEF Inv, OnceOK
  <2> QED
    BY <1>2, <1>3, <2>3, <2>5, <2>6 DEF Inv
<1> QED
  BY <1>4, <1>5, <1>6

(* A tick begins with tasks that are due and in no run. *)
LEMMA TickInv ==
  ASSUME Inv, Tick
  PROVE  Inv'
<1>1. /\ ~destroyed /\ pass' = Members(due) \ running /\ timer' = FALSE
      /\ UNCHANGED <<state, ran, disk, due, overdue, destroyed, running, outcome, blocked, fired,
                     session, driver, waiting>>
  BY DEF Tick, registryVars, slotVars, runVars, turnVars
<1>2. RegistryOK' /\ FlagsOK' /\ DriverTypes' /\ OnceOK'
  BY <1>1 DEF Inv, RegistryOK, FlagsOK, DriverTypes, OnceOK
<1>3. DueOK'
  <2>1. Members(due)' = Members(due) /\ \A u \in Members(due) : Schedulable(u)'
    BY <1>1 DEF Inv, DueOK, Members, Schedulable
  <2> QED
    BY <1>1, <2>1 DEF Inv, DueOK
<1>4. RunsOK'
  <2>1. \A u \in Tasks : RunOK(u)'
    BY <1>1 DEF Inv, RunsOK, RunOK, Owned
  <2> QED
    BY <1>1, <2>1 DEF RunsOK
<1> QED
  BY <1>2, <1>3, <1>4 DEF Inv

(* The run of a fired task is in the driver's hands, or failed. *)
LEMMA FireStep ==
  ASSUME Inv, NEW t \in Tasks, t \notin running, ~destroyed, destroyed' = destroyed,
         running' = running \cup {t}, blocked' = blocked \ {t},
         IF Alive(t) THEN ReuseSession(t) ELSE CreateSession(t)
  PROVE  /\ OnlyRun(t) /\ RunOK(t)'
         /\ driver'[t] = "active" => session'[t].mode = "clamped"
<1>1. /\ outcome \in [Tasks -> Statuses \cup {"none"}]
      /\ driver \in [Tasks -> {"free", "active", "draining"}]
      /\ session \in [Tasks -> SessionRecords \cup {NoSession}]
      /\ running \subseteq Tasks /\ blocked \subseteq Tasks /\ waiting \subseteq Tasks
  BY DEF Inv, DriverTypes
<1>2. /\ outcome[t] = "none" /\ driver[t] \in {"free", "draining"} /\ t \notin waiting
      /\ Fits(session[t], driver[t], destroyed)
  BY <1>1 DEF Inv, RunsOK, RunOK, Owned
<1>3. ASSUME NEW s \in SessionRecords, Fits(s, "free", destroyed), s.mode = "clamped",
             DriveTurn(t, s)
      PROVE  /\ OnlyRun(t) /\ RunOK(t)'
             /\ driver'[t] = "active" => session'[t].mode = "clamped"
  <2>1. CASE driver[t] = "free"
    <3>1. BeginTurn(t, s) /\ waiting' = waiting
      BY <1>3, <2>1 DEF DriveTurn
    <3>2. /\ outcome' \in [Tasks -> Statuses \cup {"none"}]
          /\ driver' \in [Tasks -> {"free", "active", "draining"}]
          /\ session' \in [Tasks -> SessionRecords \cup {NoSession}]
          /\ \A u \in Tasks \ {t} :
               outcome'[u] = outcome[u] /\ driver'[u] = driver[u] /\ session'[u] = session[u]
          /\ Fits(session'[t], driver'[t], destroyed)
          /\ \/ driver'[t] = "active" /\ outcome'[t] = "none" /\ session'[t].mode = s.mode
             \/ driver'[t] = "free" /\ outcome'[t] = "error"
      BY <1>2, <1>3, <3>1, BeginStep
    <3>3. OnlyRun(t)
      BY <1>1, <3>1, <3>2 DEF OnlyRun
    <3>4. RunOK(t)'
      BY <1>2, <3>1, <3>2 DEF RunOK, Owned
    <3> QED
      BY <1>3, <3>2, <3>3, <3>4
  <2>2. CASE driver[t] = "draining"
    <3>1. /\ waiting' = waiting \cup {t} /\ session' = [session EXCEPT ![t] = s]
          /\ UNCHANGED <<outcome, driver>>
      BY <1>3, <2>2 DEF DriveTurn
    <3>2. OnlyRun(t)
      BY <1>1, <3>1 DEF OnlyRun
    <3>3. session'[t] = s /\ Fits(s, "draining", destroyed)
      BY <1>1, <1>3, <3>1 DEF Fits
    <3>4. RunOK(t)'
      BY <1>2, <2>2, <3>1, <3>3 DEF RunOK, Owned
    <3> QED
      BY <2>2, <3>1, <3>2, <3>4
  <2> QED
    BY <1>2, <2>1, <2>2
<1>4. ASSUME FailRun(t, "error") \/ FailRun(t, "refused")
      PROVE  /\ OnlyRun(t) /\ RunOK(t)'
             /\ driver'[t] = "active" => session'[t].mode = "clamped"
  <2>1. /\ UNCHANGED <<session, driver, waiting>>
        /\ \E status \in {"error", "refused"} : outcome' = [outcome EXCEPT ![t] = status]
    BY <1>4 DEF FailRun, turnVars
  <2>2. OnlyRun(t) /\ outcome'[t] \in {"error", "refused"}
    BY <1>1, <2>1 DEF OnlyRun, Statuses
  <2>3. RunOK(t)'
    BY <1>2, <2>1, <2>2 DEF RunOK, Owned
  <2> QED
    BY <1>2, <2>1, <2>2, <2>3
<1>5. CASE Alive(t)
  <2> DEFINE s == SetMode(session[t], "clamped")
  <2>1. session[t] \in SessionRecords /\ session[t] # NoSession
    BY <1>1, <1>5 DEF Alive
  <2>2. /\ s \in SessionRecords /\ s.queued = session[t].queued /\ s.stray = session[t].stray
    BY <2>1 DEF SetMode, SessionRecords, Modes
  <2>3. (s.mode = "clamped" /\ DriveTurn(t, s)) \/ FailRun(t, "refused")
    BY <1>5 DEF ReuseSession
  <2> HIDE DEF s
  <2>4. Fits(s, "free", destroyed)
    BY <1>2, <2>1, <2>2, NoSessionApart DEF Fits
  <2> QED
    BY <1>3, <1>4, <2>2, <2>3, <2>4
<1>6. CASE ~Alive(t)
  <2>1. FreshSession \in SessionRecords /\ FreshSession.mode = "clamped"
        /\ FreshSession.queued = 0 /\ FreshSession.stray = FALSE
    BY DEF FreshSession, SessionRecords, Modes
  <2>2. Fits(FreshSession, "free", destroyed)
    BY <2>1, NoSessionApart DEF Fits
  <2>3. DriveTurn(t, FreshSession) \/ FailRun(t, "error")
    BY <1>6 DEF CreateSession
  <2> QED
    BY <1>3, <1>4, <2>1, <2>2, <2>3
<1> QED
  BY <1>5, <1>6

(* One task of a tick is skipped, put off, refused or fired. *)
LEMMA TickStepInv ==
  ASSUME Inv, TickStep
  PROVE  Inv'
<1>1. PICK t \in Members(due) : /\ t \in pass /\ Evaluate(t) /\ pass' = pass \ {t}
                                /\ timer' = (pass' = {}) /\ destroyed' = destroyed
  BY DEF TickStep, Members
<1>2. t \in Tasks /\ t \notin running /\ ~destroyed
  BY <1>1 DEF Inv, DueOK, Members, RunsOK
<1>3. FlagsOK' /\ pass' \subseteq pass \ {t}
  BY <1>1 DEF Inv, FlagsOK
<1>4. CASE UNCHANGED <<runVars, turnVars>>
  <2>1. UNCHANGED <<running, outcome, blocked, fired, session, driver, waiting>>
    BY <1>4 DEF runVars, turnVars
  <2>2. \/ \E status : RecordRun(t, status)
        \/ UNCHANGED <<registryVars, slotVars>>
        \/ t \in running'
    BY <1>1 DEF Evaluate, Fire
  <2>3. /\ RegistryOK' /\ DueOK' /\ state' = state
        /\ \A u \in Tasks : ran[u] => ran'[u]
    <3>1. CASE \E status : RecordRun(t, status)
      BY <1>2, <1>3, <3>1, RecordStep DEF Inv
    <3>2. CASE UNCHANGED <<registryVars, slotVars>>
      <4>1. UNCHANGED <<state, ran, disk, due, overdue>>
        BY <3>2 DEF registryVars, slotVars
      <4>2. RegistryOK'
        BY <4>1 DEF Inv, RegistryOK
      <4>3. Members(due)' = Members(due) /\ \A u \in Members(due) : Schedulable(u)'
        BY <4>1 DEF Inv, DueOK, Members, Schedulable
      <4>4. DueOK'
        BY <1>3, <4>1, <4>3 DEF Inv, DueOK
      <4> QED
        BY <4>1, <4>2, <4>4
    <3> QED
      BY <1>2, <2>1, <2>2, <3>1, <3>2
  <2>4. DriverTypes' /\ OnceOK'
    BY <2>1, <2>3 DEF Inv, DriverTypes, OnceOK
  <2>5. RunsOK'
    <3>1. \A u \in Tasks : RunOK(u)'
      BY <1>1, <2>1 DEF Inv, RunsOK, RunOK, Owned
    <3> QED
      BY <1>1, <1>2, <2>1, <3>1 DEF Inv, RunsOK
  <2> QED
    BY <1>3, <2>3, <2>4, <2>5 DEF Inv
<1>5. CASE /\ running' = running \cup {t} /\ blocked' = blocked \ {t}
           /\ fired' = IF t \in Once THEN [fired EXCEPT ![t] = IF @ = 0 THEN 1 ELSE 2] ELSE fired
           /\ IF Alive(t) THEN ReuseSession(t) ELSE CreateSession(t)
           /\ UNCHANGED <<registryVars, slotVars>>
  <2>1. OnlyRun(t) /\ RunOK(t)'
    BY <1>1, <1>2, <1>5, FireStep
  <2>2. \A u \in Tasks : RunOK(u)'
    BY <1>1, <1>2, <2>1, OneRun
  <2>3. RunsOK'
    BY <1>1, <1>2, <1>5, <2>2 DEF Inv, RunsOK
  <2>4. UNCHANGED <<state, ran, disk, due, overdue>>
    BY <1>5 DEF registryVars, slotVars
  <2>5. RegistryOK'
    BY <2>4 DEF Inv, RegistryOK
  <2>6. DueOK'
    <3>1. Members(due)' = Members(due) /\ \A u \in Members(due) : Schedulable(u)'
      BY <2>4 DEF Inv, DueOK, Members, Schedulable
    <3> QED
      BY <1>3, <2>4, <3>1 DEF Inv, DueOK
  <2>7. fired \in [Tasks -> 0..2] /\ fired' \in [Tasks -> 0..2]
        /\ \A u \in Tasks : fired'[u] = IF u = t /\ t \in Once
                                        THEN (IF fired[t] = 0 THEN 1 ELSE 2) ELSE fired[u]
    <3>1. fired \in [Tasks -> 0..2]
      BY DEF Inv, DriverTypes
    <3> QED
      BY <1>2, <1>5, <3>1
  <2>8. DriverTypes'
    BY <2>1, <2>7 DEF DriverTypes, OnlyRun
  <2>9. OnceOK'
    <3>1. t \in Once => fired[t] = 0
      <4>1. Schedulable(t) /\ outcome[t] = "none"
        BY <1>1, <1>2 DEF Inv, DueOK, RunsOK, RunOK
      <4> QED
        BY <1>2, <2>7, <4>1 DEF Inv, OnceOK, Schedulable
    <3>2. ASSUME NEW u \in Once, u # t
          PROVE  /\ fired'[u] <= 1
                 /\ fired'[u] # 0 => ran'[u] \/ u \in running' \/ outcome'[u] # "none"
                                     \/ state'[u] = "deleted"
      <4>1. fired'[u] = fired[u] /\ outcome'[u] = outcome[u] /\ u \in Tasks
        BY <2>1, <2>7, <3>2 DEF OnlyRun
      <4> QED
        BY <1>5, <2>4, <4>1 DEF Inv, OnceOK
    <3>3. t \in Once => fired'[t] <= 1 /\ t \in running'
      BY <1>2, <1>5, <2>7, <3>1
    <3> QED
      BY <3>2, <3>3 DEF OnceOK
  <2> QED
    BY <1>3, <2>3, <2>5, <2>6, <2>8, <2>9 DEF Inv
<1> QED
  BY <1>1, <1>4, <1>5 DEF Evaluate, Fire

(* A settled run gives its slot back and is recorded. *)
LEMMA FinishInv ==
  ASSUME Inv, NEW t \in Tasks, FinishRun(t)
  PROVE  Inv'
<1>1. /\ pass = {} /\ pass' = {} /\ destroyed' = destroyed /\ outcome[t] # "none"
      /\ outcome' = [outcome EXCEPT ![t] = "none"] /\ running' = running \ {t}
      /\ RecordRun(t, outcome[t]) /\ timer' = ~destroyed
      /\ UNCHANGED <<blocked, fired, session, driver, waiting>>
  BY DEF FinishRun, turnVars
<1>2. FlagsOK'
  BY <1>1 DEF Inv, FlagsOK
<1>3. /\ outcome \in [Tasks -> Statuses \cup {"none"}]
      /\ outcome' \in [Tasks -> Statuses \cup {"none"}]
      /\ \A u \in Tasks : outcome'[u] = IF u = t THEN "none" ELSE outcome[u]
  BY <1>1 DEF Inv, DriverTypes
<1>4. /\ RegistryOK' /\ DueOK' /\ state' = state
      /\ \A u \in Tasks : ran[u] => ran'[u]
      /\ state[t] = "deleted" \/ ran'[t]
  BY <1>1, RecordStep DEF Inv
<1>5. DriverTypes'
  BY <1>1, <1>3 DEF Inv, DriverTypes
<1>6. OnlyRun(t)
  BY <1>1, <1>3, <1>5 DEF OnlyRun, DriverTypes
<1>7. RunOK(t)'
  <2>1. RunOK(t)
    BY DEF Inv, RunsOK
  <2>2. Fits(session[t], driver[t], destroyed)' <=> Fits(session[t], driver[t], destroyed)
    BY <1>1 DEF Fits
  <2> QED
    BY <1>1, <1>3, <2>1, <2>2 DEF RunOK, Owned
<1>8. RunsOK'
  BY <1>1, <1>6, <1>7, OneRun DEF RunsOK
<1>9. OnceOK'
  <2>1. ASSUME NEW u \in Once
        PROVE  /\ fired'[u] <= 1
               /\ fired'[u] # 0 => ran'[u] \/ u \in running' \/ outcome'[u] # "none"
                                   \/ state'[u] = "deleted"
    <3>1. CASE u = t
      BY <1>1, <1>4, <3>1 DEF Inv, OnceOK
    <3>2. CASE u # t
      BY <1>1, <1>3, <1>4, <3>2 DEF Inv, OnceOK
    <3> QED
      BY <3>1, <3>2
  <2> QED
    BY <2>1 DEF OnceOK
<1> QED
  BY <1>2, <1>4, <1>5, <1>8, <1>9 DEF Inv

(* destroy() settles what the driver has not; a restart forgets all of it. *)
LEMMA EndInv ==
  ASSUME Inv, Destroy \/ Restart
  PROVE  Inv'
<1>1. CASE Destroy
  <2>1. /\ EventLoopFree /\ ~destroyed /\ destroyed' = TRUE /\ timer' = FALSE
        /\ outcome' = [t \in Tasks |-> IF driver[t] = "active" \/ t \in waiting
                                       THEN "error" ELSE "none"]
        /\ driver' = [t \in Tasks |-> "free"] /\ waiting' = {} /\ running' = {}
        /\ UNCHANGED <<state, ran, disk, due, overdue, pass, blocked, fired, session>>
    BY <1>1 DEF Destroy, registryVars, slotVars
  <2>2. RegistryOK' /\ FlagsOK'
    BY <2>1 DEF Inv, RegistryOK, FlagsOK
  <2>3. DueOK'
    <3>1. Members(due)' = Members(due) /\ \A u \in Members(due) : Schedulable(u)'
      BY <2>1 DEF Inv, DueOK, Members, Schedulable
    <3> QED
      BY <2>1, <3>1 DEF Inv, DueOK
  <2>4. DriverTypes'
    <3>1. outcome' \in [Tasks -> Statuses \cup {"none"}]
      BY <2>1 DEF Statuses
    <3> QED
      BY <2>1, <3>1 DEF Inv, DriverTypes
  <2>5. ASSUME NEW t \in Tasks PROVE RunOK(t)'
    <3>1. /\ driver'[t] = "free" /\ session'[t] = session[t]
          /\ outcome'[t] \in {"error", "none"}
      BY <2>1
    <3>2. Fits(session'[t], driver'[t], destroyed')
      <4>1. Fits(session[t], driver[t], FALSE)
        BY <2>1 DEF Inv, RunsOK, RunOK, Fits
      <4>2. session[t] # NoSession => session[t].queued \in Nat
        BY DEF Inv, DriverTypes, SessionRecords
      <4> QED
        BY <2>1, <3>1, <4>1, <4>2 DEF Fits
    <3> QED
      BY <2>1, <3>1, <3>2 DEF RunOK, Owned
  <2>6. RunsOK'
    BY <2>1, <2>5 DEF RunsOK, EventLoopFree
  <2>7. OnceOK'
    <3>1. ASSUME NEW t \in Once, t \in running PROVE outcome'[t] # "none"
      <4>1. t \in Tasks /\ outcome[t] = "none"
        BY <2>1, <3>1 DEF EventLoopFree
      <4>2. driver[t] = "active" \/ t \in waiting
        BY <2>1, <3>1, <4>1 DEF Inv, RunsOK, RunOK, Owned
      <4> QED
        BY <2>1, <4>1, <4>2
    <3>2. \A t \in Once : t \in Tasks /\ outcome[t] = "none"
      BY <2>1 DEF EventLoopFree
    <3> QED
      BY <2>1, <3>1, <3>2 DEF Inv, OnceOK
  <2> QED
    BY <2>2, <2>3, <2>4, <2>6, <2>7 DEF Inv
<1>2. CASE Restart
  <2>1. /\ state' = [t \in Tasks |-> disk[t].state] /\ ran' = [t \in Tasks |-> disk[t].ran]
        /\ disk' = disk /\ due' = <<>> /\ overdue' = {} /\ pass' = {}
        /\ timer' = TRUE /\ destroyed' = FALSE
        /\ running' = {} /\ outcome' = [t \in Tasks |-> "none"] /\ blocked' = {}
        /\ session' = [t \in Tasks |-> NoSession]
        /\ driver' = [t \in Tasks |-> "free"] /\ waiting' = {}
        /\ fired' = [t \in Tasks |-> IF disk[t].ran THEN fired[t] ELSE 0]
    BY <1>2 DEF Restart
  <2>2. disk \in [Tasks -> [state : TaskStates, ran : BOOLEAN]]
    BY DEF Inv, RegistryOK
  <2>3. RegistryOK' /\ FlagsOK'
    <3>1. \A t \in Tasks : disk[t].state \in TaskStates /\ disk[t].ran \in BOOLEAN
      BY <2>2
    <3>2. state' \in [Tasks -> TaskStates] /\ ran' \in [Tasks -> BOOLEAN]
      BY <2>1, <3>1
    <3> QED
      BY <2>1, <2>2, <3>2 DEF RegistryOK, FlagsOK
  <2>4. DueOK'
    BY <2>1 DEF DueOK, Members
  <2>5. DriverTypes'
    <3>1. fired' \in [Tasks -> 0..2]
      BY <2>1 DEF Inv, DriverTypes
    <3> QED
      BY <2>1, <3>1 DEF DriverTypes
  <2>6. RunsOK'
    BY <2>1 DEF RunsOK, RunOK, Owned, Fits
  <2>7. OnceOK'
    <3>1. ASSUME NEW t \in Once PROVE fired'[t] <= 1 /\ (fired'[t] # 0 => ran'[t])
      <4>1. t \in Tasks /\ fired[t] <= 1
        BY DEF Inv, OnceOK
      <4>2. CASE disk[t].ran
        BY <2>1, <4>1, <4>2
      <4>3. CASE ~disk[t].ran
        BY <2>1, <4>1, <4>3
      <4> QED
        BY <4>2, <4>3
    <3> QED
      BY <3>1 DEF OnceOK
  <2> QED
    BY <2>3, <2>4, <2>5, <2>6, <2>7 DEF Inv
<1> QED
  BY <1>1, <1>2

(* Every step keeps the invariant. *)
LEMMA NextInv == Inv /\ [Next]_vars => Inv'
<1> SUFFICES ASSUME Inv, [Next]_vars PROVE Inv'
  OBVIOUS
<1>1. CASE UNCHANGED vars
  <2>1. UNCHANGED <<state, ran, disk, due, overdue, pass, timer, destroyed, running, outcome,
                    blocked, fired, session, driver, waiting>>
    BY <1>1 DEF vars, registryVars, slotVars, engineVars, runVars, turnVars
  <2>2. RegistryOK' /\ FlagsOK' /\ DriverTypes' /\ OnceOK'
    BY <2>1 DEF Inv, RegistryOK, FlagsOK, DriverTypes, OnceOK
  <2>3. Members(due)' = Members(due) /\ \A u \in Members(due) : Schedulable(u)'
    BY <2>1 DEF Inv, DueOK, Members, Schedulable
  <2>4. DueOK'
    BY <2>1, <2>3 DEF Inv, DueOK
  <2>5. \A u \in Tasks : RunOK(u)'
    BY <2>1 DEF Inv, RunsOK, RunOK, Owned
  <2> QED
    BY <2>1, <2>2, <2>4, <2>5 DEF Inv, RunsOK
<1>2. ASSUME NEW t \in Tasks, Environment(t) PROVE Inv'
  BY <1>2, SlotInv, EventInv, PersonInv DEF Environment
<1> QED
  BY <1>1, <1>2, TickInv, TickStepInv, FinishInv, PersonInv, DrainInv, EndInv DEF Next
-----------------------------------------------------------------------------
(* Every variable keeps its type; a session never holds more than two      *)
(* scheduled prompts of its own.                                           *)
THEOREM Types == Spec => []TypeOK
<1>1. Inv => TypeOK
  <2> SUFFICES ASSUME Inv PROVE TypeOK
    OBVIOUS
  <2>1. session \in [Tasks -> Sessions \cup {NoSession}]
    <3>1. ASSUME NEW t \in Tasks PROVE session[t] \in Sessions \cup {NoSession}
      <4>1. session[t] \in SessionRecords \cup {NoSession} /\ Fits(session[t], driver[t], destroyed)
        BY DEF Inv, DriverTypes, RunsOK, RunOK
      <4>2. CASE session[t] # NoSession
        <5>1. session[t].queued \in Nat /\ session[t].queued <= 2
          BY <4>1, <4>2 DEF Fits, SessionRecords
        <5> QED
          BY <4>1, <4>2, <5>1 DEF Sessions, SessionRecords
      <4> QED
        BY <4>2
    <3> QED
      BY <3>1 DEF Inv, DriverTypes
  <2>2. RegistryOK /\ FlagsOK /\ DriverTypes
    BY DEF Inv
  <2>3. due \in Seq(Tasks) /\ overdue \subseteq Members(due) /\ pass \subseteq Members(due)
    BY DEF Inv, DueOK
  <2> QED
    BY <2>1, <2>2, <2>3 DEF TypeOK, RegistryOK, FlagsOK, DriverTypes, TaskStates
<1> QED
  BY <1>1, InitInv, NextInv, PTL DEF Spec

(* A run that holds a concurrency slot has someone to settle it, and the   *)
(* driver works for no run the engine forgot.                              *)
THEOREM RunsSettle == Spec => []EveryRunWillSettle
<1>1. Inv => EveryRunWillSettle
  BY DEF Inv, RunsOK, RunOK, EveryRunWillSettle
<1> QED
  BY <1>1, InitInv, NextInv, PTL DEF Spec

(* A run that raised a prompt is never settled as a success. *)
THEOREM BlockedIsNoSuccess == Spec => []BlockedNeverSucceeds
<1>1. Inv => BlockedNeverSucceeds
  BY DEF Inv, RunsOK, RunOK, DriverTypes, BlockedNeverSucceeds
<1> QED
  BY <1>1, InitInv, NextInv, PTL DEF Spec

(* A one-time task runs once, unless a restart lost the trace of its run. *)
THEOREM OnceIsOnce == Spec => []OnceFiresOnce
<1>1. Inv => OnceFiresOnce
  BY DEF Inv, OnceOK, OnceFiresOnce
<1> QED
  BY <1>1, InitInv, NextInv, PTL DEF Spec

(* The fire itself sends no prompt to a session in another mode than the   *)
(* clamped one.                                                            *)
THEOREM FiresAreClamped == Spec => FiresClamped
<1> DEFINE Clamped == \A t \in Tasks :
             t \in running' \ running /\ driver'[t] = "active" => session'[t].mode = "clamped"
<1>1. Inv /\ [Next]_vars => Clamped
  <2> SUFFICES ASSUME Inv, [Next]_vars, NEW t \in Tasks, t \in running' \ running,
                      driver'[t] = "active"
               PROVE  session'[t].mode = "clamped"
    OBVIOUS
  <2>1. TickStep
    BY DEF Next, Environment, Tick, FinishRun, RunTimeout, DrainEnds, SlotComes, GraceExpires,
           EditTask, TurnEnds, StrayEnds, StreamStall, PermissionRequest, SessionDestroyed,
           OperatorSends, OperatorStops, OperatorSetsMode, Destroy, Restart, runVars, vars
  <2>2. PICK u \in Members(due) : u \in pass /\ Evaluate(u) /\ destroyed' = destroyed
    BY <2>1 DEF TickStep, Members
  <2>3. u \in Tasks /\ u \notin running /\ ~destroyed
    BY <2>2 DEF Inv, DueOK, Members, RunsOK
  <2>4. /\ running' = running \cup {u} /\ blocked' = blocked \ {u}
        /\ IF Alive(u) THEN ReuseSession(u) ELSE CreateSession(u)
    BY <2>2 DEF Evaluate, Fire, runVars
  <2>5. driver'[u] = "active" => session'[u].mode = "clamped"
    BY <2>2, <2>3, <2>4, FireStep
  <2> QED
    BY <2>4, <2>5
<1>2. FiresClamped <=> [][Clamped]_vars
  BY PTL DEF FiresClamped
<1> QED
  BY <1>1, <1>2, InitInv, NextInv, PTL DEF Spec
-----------------------------------------------------------------------------
(* Implementation of RunLedger.                                            *)

(* Runs are counted. *)
RunsCounted == IsFiniteSet(running)

(* The stages of a run. *)
LEMMA RunCases ==
  ASSUME Inv, NEW t \in Tasks
  PROVE  /\ outcome[t] # "none" => RunOf(t) = outcome[t] /\ RunOf(t) \in Statuses
         /\ outcome[t] = "none" => RunOf(t) = IF t \in running THEN "open" ELSE "idle"
BY DEF Inv, DriverTypes, RunOf, Owned

(* The ledger sees no more than this of a step. *)
LEMMA SameRun ==
  ASSUME NEW t \in Tasks, outcome'[t] = outcome[t], t \in running' <=> t \in running
  PROVE  RunOf(t)' = RunOf(t)
BY DEF RunOf, Owned

LEMMA SameLedger ==
  ASSUME UNCHANGED <<outcome, running, blocked>>
  PROVE  UNCHANGED Ledger!vars
<1>1. \A t \in Tasks : RunOf(t)' = RunOf(t)
  BY SameRun
<1>2. [t \in Tasks |-> RunOf(t)]' = [t \in Tasks |-> RunOf(t)]
  BY <1>1
<1> QED
  BY <1>2 DEF Ledger!vars

(* A driver that settles a run settles one that is open. *)
LEMMA SettleStep ==
  ASSUME Inv, Inv', EventLoopFree, NEW t \in Tasks, UNCHANGED <<running, blocked>>,
         \/ outcome' = outcome
         \/ /\ \E status \in Statuses : Settle(t, status)
            /\ driver[t] = "active" \/ t \in waiting
  PROVE  [Ledger!Next]_(Ledger!vars)
<1>1. CASE outcome' = outcome
  BY <1>1, SameLedger
<1>2. CASE /\ \E status \in Statuses : Settle(t, status)
           /\ driver[t] = "active" \/ t \in waiting
  <2>1. PICK status \in Statuses : outcome' = [outcome EXCEPT ![t] = Settled(t, status)]
    BY <1>2 DEF Settle
  <2>2. /\ outcome[t] = "none" /\ t \in running
    BY <1>2 DEF Inv, RunsOK, RunOK, Owned, EventLoopFree
  <2>3. /\ Settled(t, status) \in IF t \in blocked THEN {"error"} ELSE Statuses
        /\ Settled(t, status) \in Statuses
    BY DEF Settled, Statuses
  <2>4. outcome'[t] = Settled(t, status) /\ \A u \in Tasks : u # t => outcome'[u] = outcome[u]
    BY <2>1 DEF Inv, DriverTypes
  <2>5. RunOf(t) = "open" /\ RunOf(t)' = Settled(t, status)
    BY <2>2, <2>3, <2>4 DEF RunOf, Owned, Statuses
  <2>6. \A u \in Tasks : u # t => RunOf(u)' = RunOf(u)
    BY <2>4, SameRun
  <2>7. Ledger!Settle(t)
    BY <2>3, <2>5, <2>6 DEF Ledger!Settle
  <2> QED
    BY <2>7 DEF Ledger!Next
<1> QED
  BY <1>1, <1>2

(* What the driver makes of an event. *)
LEMMA HandOffOutcome ==
  ASSUME NEW t \in Tasks, NEW s, HandOff(t, s)
  PROVE  outcome' = outcome \/ (t \in waiting /\ Settle(t, "error"))
BY DEF HandOff, BeginTurn

LEMMA DeliverOutcome ==
  ASSUME Inv, NEW t \in Tasks, NEW status \in Statuses, NEW s, Deliver(t, status, s)
  PROVE  \/ outcome' = outcome
         \/ /\ \E st \in Statuses : Settle(t, st)
            /\ driver[t] = "active" \/ t \in waiting
<1>1. driver[t] \in {"free", "active", "draining"} /\ "error" \in Statuses
  BY DEF Inv, DriverTypes, Statuses
<1>2. CASE driver[t] = "active"
  BY <1>2 DEF Deliver
<1>3. CASE driver[t] = "draining"
  BY <1>1, <1>3, HandOffOutcome DEF Deliver
<1>4. CASE driver[t] = "free"
  BY <1>4 DEF Deliver
<1> QED
  BY <1>1, <1>2, <1>3, <1>4

(* The ledger counts as the engine does. *)
LEMMA SameCount ==
  ASSUME NEW S
  PROVE  Ledger!Cardinality(S) = Cardinality(S)
BY DEF Ledger!Cardinality, Cardinality, Ledger!IsFiniteSet, IsFiniteSet

(* A fired run begins in a free slot, and may fail at once. *)
LEMMA BeginLedger ==
  ASSUME Inv, Inv', RunsCounted, TickStep
  PROVE  RunsCounted' /\ [Ledger!Next]_(Ledger!vars)
<1>1. PICK t \in Members(due) : t \in pass /\ Evaluate(t) /\ destroyed' = destroyed
  BY DEF TickStep, Members
<1>2. t \in Tasks /\ t \notin running /\ ~destroyed
  BY <1>1 DEF Inv, DueOK, Members, RunsOK
<1>3. CASE UNCHANGED <<outcome, running, blocked>>
  BY <1>3, SameLedger DEF RunsCounted
<1>4. CASE /\ ~(Cardinality(running) >= MaxConcurrentRuns)
           /\ running' = running \cup {t} /\ blocked' = blocked \ {t}
           /\ IF Alive(t) THEN ReuseSession(t) ELSE CreateSession(t)
  <2>1. RunsCounted'
    BY <1>4, FS_AddElement DEF RunsCounted
  <2>2. /\ outcome[t] = "none"
        /\ \A u \in Tasks : outcome[u] # "none" => u \in running
    BY <1>2 DEF Inv, RunsOK, RunOK
  <2>3. \/ outcome' = outcome
        \/ \E status \in {"error", "refused"} : outcome' = [outcome EXCEPT ![t] = status]
    BY <1>4 DEF ReuseSession, CreateSession, DriveTurn, FailRun, BeginTurn, Settle, Settled
  <2>4. /\ outcome'[t] \in {"none", "error", "refused"}
        /\ \A u \in Tasks : u # t => outcome'[u] = outcome[u]
    BY <2>2, <2>3 DEF Inv, DriverTypes
  <2>5. RunOf(t) = "idle" /\ RunOf(t)' \in {"open"} \cup (Statuses \ {"success"})
    BY <1>2, <1>4, <2>2, <2>4 DEF RunOf, Owned, Statuses
  <2>6. \A u \in Tasks : u # t => RunOf(u)' = RunOf(u)
    BY <1>4, <2>4, SameRun
  <2>7. Ledger!Slots = running
    <3>1. \A u \in Tasks : RunOf(u) # "idle" <=> u \in running
      BY <2>2, RunCases DEF Statuses
    <3>2. running \subseteq Tasks
      BY DEF Inv, DriverTypes
    <3> QED
      BY <3>1, <3>2 DEF Ledger!Slots
  <2>8. Ledger!Cardinality(running) < MaxConcurrentRuns
    BY <1>4, SameCount, FS_CardinalityType DEF RunsCounted
  <2>9. Ledger!Begin(t)
    <3> DEFINE runs == [u \in Tasks |-> RunOf(u)]
    <3>1. runs' = [runs EXCEPT ![t] = RunOf(t)']
      BY <2>6
    <3>2. runs[t] = "idle"
      BY <1>2, <2>5
    <3>3. \E r \in {"open"} \cup (Statuses \ {"success"}) : runs' = [runs EXCEPT ![t] = r]
      BY <2>5, <3>1
    <3>4. blocked' = blocked \ {t}
      BY <1>4
    <3> QED
      BY <2>7, <2>8, <3>2, <3>3, <3>4 DEF Ledger!Begin
  <2> QED
    BY <1>2, <2>1, <2>9 DEF Ledger!Next
<1> QED
  BY <1>1, <1>3, <1>4 DEF Evaluate, Fire, runVars

(* The outcome that is recorded is the run's, and frees its slot. *)
LEMMA RecordLedger ==
  ASSUME Inv, NEW t \in Tasks, FinishRun(t)
  PROVE  Ledger!Record(t)
<1>1. /\ outcome[t] # "none" /\ outcome' = [outcome EXCEPT ![t] = "none"]
      /\ running' = running \ {t} /\ blocked' = blocked
  BY DEF FinishRun
<1>2. outcome'[t] = "none" /\ \A u \in Tasks : u # t => outcome'[u] = outcome[u]
  BY <1>1 DEF Inv, DriverTypes
<1>3. RunOf(t) \in Statuses /\ RunOf(t)' = "idle"
  <2>1. RunOf(t)' = "idle"
    BY <1>1, <1>2 DEF RunOf, Owned
  <2> QED
    BY <1>1, <2>1, RunCases
<1>4. \A u \in Tasks : u # t => RunOf(u)' = RunOf(u)
  BY <1>1, <1>2, SameRun
<1> QED
  BY <1>1, <1>3, <1>4 DEF Ledger!Record

(* destroy() settles every open run, a restart forgets them all. *)
LEMMA EndLedger ==
  ASSUME Inv, Destroy \/ Restart
  PROVE  Ledger!Next
<1>1. CASE Destroy
  <2>1. /\ EventLoopFree /\ ~destroyed /\ running' = {} /\ blocked' = blocked
        /\ outcome' = [t \in Tasks |-> IF driver[t] = "active" \/ t \in waiting
                                       THEN "error" ELSE "none"]
    BY <1>1 DEF Destroy
  <2>2. ASSUME NEW t \in Tasks
        PROVE  RunOf(t)' = IF RunOf(t) = "open" THEN "error" ELSE RunOf(t)
    <3>1. outcome[t] = "none" /\ (t \in running <=> driver[t] = "active" \/ t \in waiting)
      BY <2>1 DEF EventLoopFree, Inv, RunsOK, RunOK, Owned
    <3>2. outcome'[t] = IF t \in running THEN "error" ELSE "none"
      BY <2>1, <3>1
    <3>3. RunOf(t)' = IF t \in running THEN "error" ELSE "idle"
      BY <2>1, <3>2 DEF RunOf, Owned
    <3> QED
      BY <3>1, <3>3, RunCases
  <2>3. Ledger!GiveUp
    BY <2>1, <2>2 DEF Ledger!GiveUp
  <2> QED
    BY <2>3 DEF Ledger!Next
<1>2. CASE Restart
  <2>1. running' = {} /\ blocked' = {} /\ outcome' = [t \in Tasks |-> "none"]
    BY <1>2 DEF Restart
  <2>2. \A t \in Tasks : RunOf(t)' = "idle"
    BY <2>1 DEF RunOf, Owned
  <2>3. Ledger!Forget
    BY <2>1, <2>2 DEF Ledger!Forget
  <2> QED
    BY <2>3 DEF Ledger!Next
<1> QED
  BY <1>1, <1>2

(* Every step is one of the ledger or none. *)
LEMMA LedgerStep ==
  ASSUME Inv, Inv', RunsCounted, [Next]_vars
  PROVE  RunsCounted' /\ [Ledger!Next]_(Ledger!vars)
<1>1. ASSUME UNCHANGED <<outcome, running, blocked>>
      PROVE  RunsCounted' /\ [Ledger!Next]_(Ledger!vars)
  BY <1>1, SameLedger DEF RunsCounted
<1>2. CASE Tick \/ UNCHANGED vars
  BY <1>1, <1>2 DEF Tick, runVars, vars
<1>3. ASSUME NEW t \in Tasks,
             SlotComes(t) \/ GraceExpires(t) \/ \E s \in Edits : EditTask(t, s)
      PROVE  RunsCounted' /\ [Ledger!Next]_(Ledger!vars)
  BY <1>1, <1>3 DEF SlotComes, GraceExpires, EditTask, runVars
<1>4. ASSUME NEW t \in Tasks,
             OperatorSends(t) \/ OperatorStops(t) \/ \E m \in Modes : OperatorSetsMode(t, m)
      PROVE  RunsCounted' /\ [Ledger!Next]_(Ledger!vars)
  BY <1>1, <1>4 DEF OperatorSends, OperatorStops, OperatorSetsMode, runVars
<1>5. ASSUME NEW t \in Tasks,
             \/ \E status \in Statuses : TurnEnds(t, status) \/ StrayEnds(t, status)
             \/ StreamStall(t) \/ RunTimeout(t) \/ DrainEnds(t) \/ SessionDestroyed(t)
      PROVE  RunsCounted' /\ [Ledger!Next]_(Ledger!vars)
  <2>1. EventLoopFree /\ UNCHANGED <<running, blocked>>
    BY <1>5 DEF TurnEnds, StrayEnds, StreamStall, RunTimeout, DrainEnds, SessionDestroyed
  <2>2. {"success", "error", "timeout"} \subseteq Statuses
    BY DEF Statuses
  <2>3. \/ outcome' = outcome
        \/ /\ \E st \in Statuses : Settle(t, st)
           /\ driver[t] = "active" \/ t \in waiting
    <3>1. CASE \E status \in Statuses : TurnEnds(t, status) \/ StrayEnds(t, status)
      BY <3>1, DeliverOutcome DEF TurnEnds, StrayEnds
    <3>2. CASE StreamStall(t)
      BY <2>2, <3>2, DeliverOutcome DEF StreamStall
    <3>3. CASE RunTimeout(t) \/ SessionDestroyed(t)
      BY <2>2, <3>3 DEF RunTimeout, SessionDestroyed
    <3>4. CASE DrainEnds(t)
      BY <2>2, <3>4, HandOffOutcome DEF DrainEnds
    <3> QED
      BY <1>5, <3>1, <3>2, <3>3, <3>4
  <2> QED
    BY <2>1, <2>3, SettleStep DEF RunsCounted
<1>6. ASSUME NEW t \in Tasks, PermissionRequest(t)
      PROVE  RunsCounted' /\ [Ledger!Next]_(Ledger!vars)
  <2>1. /\ Owned(t) /\ blocked' = blocked \cup {t} /\ UNCHANGED <<running, outcome>>
    BY <1>6 DEF PermissionRequest
  <2>2. RunOf(t) = "open"
    BY <2>1, RunCases DEF Owned
  <2>3. \A u \in Tasks : RunOf(u)' = RunOf(u)
    BY <2>1, SameRun
  <2>4. Ledger!Block(t)
    BY <2>1, <2>2, <2>3 DEF Ledger!Block
  <2> QED
    BY <2>1, <2>4 DEF Ledger!Next, RunsCounted
<1>7. ASSUME NEW t \in Tasks, FinishRun(t)
      PROVE  RunsCounted' /\ [Ledger!Next]_(Ledger!vars)
  <2>1. RunsCounted'
    BY <1>7, FS_RemoveElement DEF FinishRun, RunsCounted
  <2> QED
    BY <1>7, <2>1, RecordLedger DEF Ledger!Next
<1>8. CASE Destroy \/ Restart
  <2>1. RunsCounted'
    BY <1>8, FS_EmptySet DEF Destroy, Restart, RunsCounted
  <2> QED
    BY <1>8, <2>1, EndLedger
<1> QED
  BY <1>2, <1>3, <1>4, <1>5, <1>6, <1>7, <1>8, BeginLedger DEF Next, Environment

(* Whoever ends a turn, times it out, closes its session or shuts down,    *)
(* each run of a task has a slot of its own below the cap, and the first   *)
(* outcome the driver gives it is the one _recordRun gets; it is a failure *)
(* if the run raised a permission prompt.                                  *)
THEOREM ImplementsLedger == Spec => LedgerSpec
<1>1. Init => RunsCounted /\ Ledger!Init
  <2> SUFFICES ASSUME Init PROVE RunsCounted /\ Ledger!Init
    OBVIOUS
  <2>1. \A t \in Tasks : RunOf(t) = "idle"
    BY DEF Init, RunOf, Owned
  <2> QED
    BY <2>1, FS_EmptySet DEF Init, RunsCounted, Ledger!Init
<1>2. Inv /\ Inv' /\ RunsCounted /\ [Next]_vars => RunsCounted' /\ [Ledger!Next]_(Ledger!vars)
  BY LedgerStep
<1> QED
  BY <1>1, <1>2, InitInv, NextInv, PTL DEF Spec, LedgerSpec, Ledger!Spec
=============================================================================
