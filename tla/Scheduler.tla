----------------------------- MODULE Scheduler -----------------------------
(***************************************************************************)
(* Unattended runs: packages/server/src/scheduler.js (SchedulerEngine),    *)
(* the registry it records into (scheduled-task-store.js) and the driver   *)
(* of one turn (orchestration/turn-driver.js), over sessions an operator   *)
(* may use, switch, stop and close.                                        *)
(*                                                                         *)
(* A timer fires the tasks that are due, at most MaxConcurrentRuns at a    *)
(* time; each task keeps one session.  A run is an awaited promise that    *)
(* the driver settles on the session's next terminal event, on a timeout   *)
(* or on the end of the session; the outcome is then written to the        *)
(* registry, which is what moves the task to its next slot.                *)
(*                                                                         *)
(* The clock is abstracted to three facts: a task's slot has come, it is   *)
(* older than the grace window, a timer has run out.                       *)
(***************************************************************************)
EXTENDS Naturals, Sequences, FiniteSets

CONSTANTS
  Tasks,
  Once,               \* the tasks with a `once` cadence; the others recur
  MaxConcurrentRuns,
  Watched,            \* bound: the tasks whose session the operator uses
  Edits               \* bound: what the operator does to a task

ASSUME SchedulerAssumption ==
  /\ Once \subseteq Tasks /\ Watched \subseteq Tasks
  /\ MaxConcurrentRuns \in Nat \ {0}
  /\ Edits \subseteq {"enabled", "paused", "deleted"}

VARIABLES
  state,       \* the registry in memory: enabled, paused or deleted
  ran,         \* the task has a lastRun
  disk,        \* the registry file: both of them, as last written
  due,         \* the tasks whose nextRun has come, oldest first
  overdue,     \* those of them older than the grace window
  pass,        \* what the tick in progress has still to evaluate, in due's order
  timer,       \* the engine's one timer is armed
  destroyed,
  running,     \* the overlap guard
  outcome,     \* the settled result of a run whose continuation is next
  blocked,     \* the run in flight raised a permission prompt
  session,     \* the session of each task, or NoSession
  driver,      \* the driver's turn on that session
  waiting,     \* the task's run waits for the driver to be free
  fired        \* history: runs of a once task whose trace is not lost

registryVars == <<state, ran, disk>>
slotVars == <<due, overdue>>
engineVars == <<pass, timer, destroyed>>
runVars == <<running, outcome, blocked, fired>>
turnVars == <<session, driver, waiting>>
vars == <<registryVars, slotVars, engineVars, runVars, turnVars>>

Statuses == {"success", "error", "timeout", "interrupted", "refused", "skipped"}

(* mode: the clamped one or the bypass an operator chose.  turn: whose     *)
(* prompt the session works on.  queued: scheduled prompts in its own      *)
(* queue.  stopping: told to interrupt.  stray: a stalled turn the session *)
(* has forgotten, whose loop still winds down.                             *)
Modes == {"clamped", "auto"}
Sessions == [mode : Modes, turn : {"none", "user", "run"}, queued : 0..2,
             stopping : BOOLEAN, stray : BOOLEAN]
NoSession == [mode |-> "none"]
FreshSession ==
  [mode |-> "clamped", turn |-> "none", queued |-> 0, stopping |-> FALSE, stray |-> FALSE]

Alive(t) == session[t] # NoSession
Busy(t) == Alive(t) /\ session[t].turn # "none"

(* The engine watches the session: a run of the task is in flight.         *)
Owned(t) == t \in running /\ outcome[t] = "none"

Members(q) == {q[i] : i \in DOMAIN q}

(* A tick and the continuations of settled promises run before any other  *)
(* event is handled.                                                       *)
EventLoopFree == pass = {} /\ \A t \in Tasks : outcome[t] = "none"
----------------------------------------------------------------------------
Init ==
  /\ state = [t \in Tasks |-> "enabled"] /\ ran = [t \in Tasks |-> FALSE]
  /\ disk = [t \in Tasks |-> [state |-> "enabled", ran |-> FALSE]]
  /\ due = <<>> /\ overdue = {}
  /\ pass = {} /\ timer = TRUE /\ destroyed = FALSE
  /\ running = {} /\ outcome = [t \in Tasks |-> "none"] /\ blocked = {}
  /\ session = [t \in Tasks |-> NoSession]
  /\ driver = [t \in Tasks |-> "free"] /\ waiting = {}
  /\ fired = [t \in Tasks |-> 0]
----------------------------------------------------------------------------
(* The registry.                                                           *)

(* Mutant: a one-time task that has run is scheduled again. *)
SchedulableAgain(t) == state[t] = "enabled"

(* computeNextRun is not null. *)
Schedulable(t) == state[t] = "enabled" /\ ~(t \in Once /\ ran[t])

(* The whole file is written, or a failed write leaves it as it was.       *)
Persist ==
  \/ disk' = [t \in Tasks |-> [state |-> state'[t], ran |-> ran'[t]]]
  \/ UNCHANGED disk

(* update(): nextRun is computed anew from the present, so a slot that has *)
(* come is gone.                                                           *)
Reschedule(t) ==
  /\ IF t \in Members(due)
     THEN \E i \in DOMAIN due :
            /\ due[i] = t
            /\ due' = [j \in 1 .. Len(due) - 1 |-> due[IF j < i THEN j ELSE j + 1]]
     ELSE UNCHANGED due
  /\ overdue' = overdue \ {t}

(* _recordRun; a deleted task has nothing to update. *)
RecordRun(t, status) ==
  IF state[t] = "deleted" THEN UNCHANGED <<registryVars, slotVars>>
  ELSE /\ ran' = [ran EXCEPT ![t] = TRUE]
       /\ UNCHANGED state
       /\ Persist
       /\ Reschedule(t)

(* The clock reaches nextRun, then leaves the grace window. *)
SlotComes(t) ==
  /\ EventLoopFree /\ ~destroyed
  /\ Schedulable(t) /\ t \notin Members(due)
  /\ due' = Append(due, t)
  /\ UNCHANGED <<registryVars, overdue, engineVars, runVars, turnVars>>

GraceExpires(t) ==
  /\ EventLoopFree /\ ~destroyed
  /\ t \in Members(due) \ overdue
  /\ overdue' = overdue \cup {t}
  /\ UNCHANGED <<registryVars, due, engineVars, runVars, turnVars>>

(* pause, resume, delete and any other edit from the dashboard, followed   *)
(* by the engine's refresh().                                              *)
EditTask(t, s) ==
  /\ EventLoopFree /\ ~destroyed
  /\ state[t] # "deleted"
  /\ state' = [state EXCEPT ![t] = s]
  /\ UNCHANGED ran
  /\ Persist
  /\ Reschedule(t)
  /\ timer' = TRUE
  /\ UNCHANGED <<pass, destroyed, runVars, turnVars>>
----------------------------------------------------------------------------
(* The driver.                                                             *)

(* Mutant: a prompt in a turn that went on to its result is forgiven. *)
SettledForgiving(t, status) == IF t \in blocked /\ status # "success" THEN "error" ELSE status

(* A run that raised a prompt failed, however its turn ended. *)
Settled(t, status) == IF t \in blocked THEN "error" ELSE status

Settle(t, status) == outcome' = [outcome EXCEPT ![t] = Settled(t, status)]

(* sendMessage of session s: queued while it is busy. *)
Send(s) ==
  IF s.turn = "none" THEN [s EXCEPT !.turn = "run", !.stopping = FALSE]
  ELSE [s EXCEPT !.queued = @ + 1]

(* Mutant: a turn whose session has gone is dropped without a word. *)
BeginTurnSilently(t, s) ==
  /\ IF s = NoSession THEN driver' = [driver EXCEPT ![t] = "free"]
     ELSE driver' = [driver EXCEPT ![t] = "active"]
  /\ session' = [session EXCEPT ![t] = IF s = NoSession THEN s ELSE Send(s)]
  /\ UNCHANGED outcome

(* _beginTurn on the session s, which may have gone; the send may fail.    *)
BeginTurn(t, s) ==
  \/ /\ s # NoSession
     /\ session' = [session EXCEPT ![t] = Send(s)]
     /\ driver' = [driver EXCEPT ![t] = "active"]
     /\ UNCHANGED outcome
  \/ /\ session' = [session EXCEPT ![t] = s]
     /\ driver' = [driver EXCEPT ![t] = "free"]
     /\ Settle(t, "error")

(* The mutex goes to the turn that waits, if any, on the next tick. *)
HandOff(t, s) ==
  /\ waiting' = waiting \ {t}
  /\ IF t \in waiting THEN BeginTurn(t, s)
     ELSE /\ driver' = [driver EXCEPT ![t] = "free"]
          /\ session' = [session EXCEPT ![t] = s]
          /\ UNCHANGED outcome

(* A terminal event of the session, which s describes after it.  The       *)
(* driver has no other way to tell whose turn ended.                       *)
Deliver(t, status, s) ==
  CASE driver[t] = "active" ->
         /\ Settle(t, status)
         /\ driver' = [driver EXCEPT ![t] = "free"]
         /\ session' = [session EXCEPT ![t] = s]
         /\ UNCHANGED waiting
    [] driver[t] = "draining" -> HandOff(t, s)
    [] driver[t] = "free" ->
         /\ session' = [session EXCEPT ![t] = s]
         /\ UNCHANGED <<outcome, driver, waiting>>

(* Mutant: the queue survives the interrupt. *)
StoppedKeepingQueue(s) == IF s = NoSession THEN s ELSE [s EXCEPT !.stopping = s.turn # "none"]

(* interrupt() of a session: its queue is cancelled, its turn told to end. *)
Stopped(s) ==
  IF s = NoSession THEN s ELSE [s EXCEPT !.queued = 0, !.stopping = s.turn # "none"]

(* The watchdog of a turn: the caller is told, the mutex is held until the *)
(* session confirms that it stopped.                                       *)
RunTimeout(t) ==
  /\ EventLoopFree /\ ~destroyed
  /\ driver[t] = "active"
  /\ Settle(t, "timeout")
  /\ driver' = [driver EXCEPT ![t] = "draining"]
  /\ session' = [session EXCEPT ![t] = Stopped(session[t])]
  /\ UNCHANGED <<registryVars, slotVars, engineVars, running, blocked, fired, waiting>>

(* The drain timer, or a stream_end, which ends a drain as well. *)
DrainEnds(t) ==
  /\ EventLoopFree /\ ~destroyed
  /\ driver[t] = "draining"
  /\ HandOff(t, session[t])
  /\ UNCHANGED <<registryVars, slotVars, engineVars, running, blocked, fired>>
----------------------------------------------------------------------------
(* The session.                                                            *)

(* What is left of a session when its turn is over: the head of its queue  *)
(* is sent.                                                                *)
NextTurn(s) ==
  IF s.queued > 0 THEN [s EXCEPT !.turn = "run", !.queued = @ - 1, !.stopping = FALSE]
  ELSE [s EXCEPT !.turn = "none", !.stopping = FALSE]

(* The turn ends: with `stopped` or a result that came first if it was     *)
(* told to, else with its result or an error.                              *)
TurnEnds(t, status) ==
  /\ EventLoopFree
  /\ Busy(t)
  /\ status \in IF session[t].stopping THEN {"interrupted", "success"} ELSE {"success", "error"}
  /\ Deliver(t, status, NextTurn(session[t]))
  /\ UNCHANGED <<registryVars, slotVars, engineVars, running, blocked, fired>>

(* The stall watchdog of the SDK session: it is idle again and emits a     *)
(* synthetic `result`, then an `error` that finds no turn in the driver.   *)
StreamStall(t) ==
  /\ EventLoopFree
  /\ Busy(t) /\ ~session[t].stray
  /\ Deliver(t, "success",
             [session[t] EXCEPT !.turn = "none", !.stopping = FALSE, !.stray = TRUE])
  /\ UNCHANGED <<registryVars, slotVars, engineVars, running, blocked, fired>>

(* The forgotten loop ends.  Its cleanup forgets the turn that runs by     *)
(* then, and its event goes to whatever turn the driver has.               *)
StrayEnds(t, status) ==
  /\ EventLoopFree
  /\ Alive(t) /\ session[t].stray
  /\ status \in {"success", "error"}
  /\ Deliver(t, status, [NextTurn(session[t]) EXCEPT !.stray = Busy(t)])
  /\ UNCHANGED <<registryVars, slotVars, engineVars, running, blocked, fired>>

(* A prompt in a session with a run in flight, whoever's turn raised it:   *)
(* the run is marked, the prompt denied, the turn interrupted.             *)
PermissionRequest(t) ==
  /\ EventLoopFree /\ ~destroyed
  /\ Busy(t) /\ Owned(t)
  /\ blocked' = blocked \cup {t}
  /\ session' = [session EXCEPT ![t] = Stopped(@)]
  /\ UNCHANGED <<registryVars, slotVars, engineVars, running, outcome, fired, driver, waiting>>

(* The session is closed; a drain takes no notice of it. *)
SessionDestroyed(t) ==
  /\ EventLoopFree
  /\ Alive(t)
  /\ session' = [session EXCEPT ![t] = NoSession]
  /\ IF driver[t] = "active"
     THEN Settle(t, "error") /\ driver' = [driver EXCEPT ![t] = "free"]
     ELSE UNCHANGED <<outcome, driver>>
  /\ UNCHANGED <<registryVars, slotVars, engineVars, running, blocked, fired, waiting>>

(* The operator sends a prompt of their own to the idle session, presses   *)
(* Stop, or changes the mode: to auto at any time, back only when idle.    *)
OperatorSends(t) ==
  /\ EventLoopFree /\ t \in Watched /\ Alive(t) /\ ~Busy(t)
  /\ session' = [session EXCEPT ![t].turn = "user", ![t].stopping = FALSE]
  /\ UNCHANGED <<registryVars, slotVars, engineVars, runVars, driver, waiting>>

OperatorStops(t) ==
  /\ EventLoopFree /\ t \in Watched /\ Alive(t)
  /\ session' = [session EXCEPT ![t] = Stopped(@)]
  /\ UNCHANGED <<registryVars, slotVars, engineVars, runVars, driver, waiting>>

(* setPermissionMode, and the mode the session reports afterwards. *)
SetMode(s, m) == IF s.turn # "none" /\ m # "auto" THEN s ELSE [s EXCEPT !.mode = m]

OperatorSetsMode(t, m) ==
  /\ EventLoopFree /\ t \in Watched /\ Alive(t)
  /\ session' = [session EXCEPT ![t] = SetMode(@, m)]
  /\ UNCHANGED <<registryVars, slotVars, engineVars, runVars, driver, waiting>>
----------------------------------------------------------------------------
(* The engine.                                                             *)

(* driveTurn: begin, or wait for the turn the driver holds. *)
DriveTurn(t, s) ==
  IF driver[t] = "free" THEN BeginTurn(t, s) /\ UNCHANGED waiting
  ELSE /\ waiting' = waiting \cup {t}
       /\ session' = [session EXCEPT ![t] = s]
       /\ UNCHANGED <<outcome, driver>>

(* A run that ends before its turn. *)
FailRun(t, status) ==
  /\ outcome' = [outcome EXCEPT ![t] = status]
  /\ UNCHANGED turnVars

(* Mutant: the setter is called but its effect is not read back. *)
ReuseSessionUnverified(t) == DriveTurn(t, SetMode(session[t], "clamped"))

(* _resolveSession: the mode of the task's session is set and read back,   *)
(* and the run refused if it is not the clamped one.                       *)
ReuseSession(t) ==
  LET s == SetMode(session[t], "clamped")
  IN  IF s.mode = "clamped" THEN DriveTurn(t, s) ELSE FailRun(t, "refused")

(* A new session comes up at the clamped mode, or cannot be created. *)
CreateSession(t) == DriveTurn(t, FreshSession) \/ FailRun(t, "error")

(* _fire, up to its await: preflight may refuse the task (its provider or  *)
(* its directory), else it runs in its session.                            *)
Fire(t) ==
  \/ /\ RecordRun(t, "refused")
     /\ UNCHANGED <<runVars, turnVars>>
  \/ /\ running' = running \cup {t}
     /\ blocked' = blocked \ {t}
     /\ fired' = IF t \in Once THEN [fired EXCEPT ![t] = IF @ = 0 THEN 1 ELSE 2] ELSE fired
     /\ IF Alive(t) THEN ReuseSession(t) ELSE CreateSession(t)
     /\ UNCHANGED <<registryVars, slotVars>>

(* One task of a tick: too old is skipped, at the cap is put off to a      *)
(* later tick, else it fires.                                              *)
Evaluate(t) ==
  CASE t \in overdue -> RecordRun(t, "skipped") /\ UNCHANGED <<runVars, turnVars>>
    [] t \notin overdue /\ Cardinality(running) >= MaxConcurrentRuns ->
         UNCHANGED <<registryVars, slotVars, runVars, turnVars>>
    [] OTHER -> Fire(t)

(* _tick: what is due and not running ... *)
Tick ==
  /\ EventLoopFree /\ ~destroyed /\ timer
  /\ pass' = Members(due) \ running
  /\ pass' # {}
  /\ timer' = FALSE
  /\ UNCHANGED <<registryVars, slotVars, destroyed, runVars, turnVars>>

(* ... each in turn, oldest first; the last one arms the timer again. *)
TickStep ==
  \E i \in DOMAIN due :
    /\ due[i] \in pass /\ \A j \in 1 .. i - 1 : due[j] \notin pass
    /\ Evaluate(due[i])
    /\ pass' = pass \ {due[i]}
    /\ timer' = (pass' = {})
    /\ UNCHANGED destroyed

(* Mutant: the slot is kept until the outcome is on disk. *)
FinishRunHoldingSlot(t) ==
  /\ pass = {}
  /\ outcome[t] # "none"
  /\ outcome' = [outcome EXCEPT ![t] = "none"]
  /\ RecordRun(t, outcome[t])
  /\ running' = IF disk'[t].ran THEN running \ {t} ELSE running
  /\ timer' = ~destroyed
  /\ UNCHANGED <<pass, destroyed, blocked, fired, turnVars>>

(* _fire after its await: the slot is free, the outcome is recorded (by a  *)
(* destroyed engine too) and the timer armed.                              *)
FinishRun(t) ==
  /\ pass = {}
  /\ outcome[t] # "none"
  /\ outcome' = [outcome EXCEPT ![t] = "none"]
  /\ running' = running \ {t}
  /\ RecordRun(t, outcome[t])
  /\ timer' = ~destroyed
  /\ UNCHANGED <<pass, destroyed, blocked, fired, turnVars>>

(* destroy(): the driver rejects every turn it has not settled. *)
Destroy ==
  /\ EventLoopFree /\ ~destroyed
  /\ destroyed' = TRUE /\ timer' = FALSE
  /\ outcome' = [t \in Tasks |-> IF driver[t] = "active" \/ t \in waiting THEN "error" ELSE "none"]
  /\ driver' = [t \in Tasks |-> "free"] /\ waiting' = {}
  /\ running' = {}
  /\ UNCHANGED <<registryVars, slotVars, pass, blocked, fired, session>>

(* The daemon dies, or ends after destroy(), and starts again: everything  *)
(* but the registry file is lost, and slots are computed from the present. *)
Restart ==
  /\ state' = [t \in Tasks |-> disk[t].state] /\ ran' = [t \in Tasks |-> disk[t].ran]
  /\ UNCHANGED disk
  /\ due' = <<>> /\ overdue' = {}
  /\ pass' = {} /\ timer' = TRUE /\ destroyed' = FALSE
  /\ running' = {} /\ outcome' = [t \in Tasks |-> "none"] /\ blocked' = {}
  /\ session' = [t \in Tasks |-> NoSession]
  /\ driver' = [t \in Tasks |-> "free"] /\ waiting' = {}
  /\ fired' = [t \in Tasks |-> IF disk[t].ran THEN fired[t] ELSE 0]
----------------------------------------------------------------------------
Environment(t) ==
  \/ SlotComes(t) \/ GraceExpires(t)
  \/ \E s \in Edits : EditTask(t, s)
  \/ \E status \in Statuses : TurnEnds(t, status) \/ StrayEnds(t, status)
  \/ StreamStall(t) \/ PermissionRequest(t) \/ SessionDestroyed(t)
  \/ OperatorSends(t) \/ OperatorStops(t)
  \/ \E m \in Modes : OperatorSetsMode(t, m)

Next ==
  \/ Tick \/ TickStep
  \/ \E t \in Tasks : FinishRun(t) \/ RunTimeout(t) \/ DrainEnds(t) \/ Environment(t)
  \/ Destroy \/ Restart

Spec == Init /\ [][Next]_vars

(* The event loop runs: ticks, continuations and timers that have been     *)
(* set happen, a run's timer even among the ticks at the cap.  Nothing is  *)
(* assumed of the sessions: a turn need not end.                           *)
Fairness ==
  /\ WF_vars(Tick) /\ WF_vars(TickStep)
  /\ \A t \in Tasks :
       /\ WF_vars(FinishRun(t))
       /\ SF_vars(RunTimeout(t))
       /\ SF_vars(DrainEnds(t))

FairSpec == Spec /\ Fairness
----------------------------------------------------------------------------
(* Properties.                                                             *)

(* The state has the shape the code gives it; a session never holds more   *)
(* than two scheduled prompts in its own queue.                            *)
TypeOK ==
  /\ state \in [Tasks -> {"enabled", "paused", "deleted"}] /\ ran \in [Tasks -> BOOLEAN]
  /\ disk \in [Tasks -> [state : {"enabled", "paused", "deleted"}, ran : BOOLEAN]]
  /\ due \in Seq(Tasks) /\ overdue \subseteq Members(due) /\ pass \subseteq Members(due)
  /\ timer \in BOOLEAN /\ destroyed \in BOOLEAN
  /\ running \subseteq Tasks /\ blocked \subseteq Tasks /\ waiting \subseteq Tasks
  /\ outcome \in [Tasks -> Statuses \cup {"none"}]
  /\ session \in [Tasks -> Sessions \cup {NoSession}]
  /\ driver \in [Tasks -> {"free", "active", "draining"}]
  /\ fired \in [Tasks -> 0..2]

(* A run that holds a concurrency slot has someone to settle it: a live    *)
(* driver turn with its watchdog, a place behind a drain, or an outcome    *)
(* already due; and the driver works for no run the engine forgot.  _fire  *)
(* frees the slot only after its await, so a promise nobody settles would  *)
(* stop every task.                                                        *)
EveryRunWillSettle ==
  ~destroyed => \A t \in Tasks :
    /\ Owned(t) <=> driver[t] = "active" \/ t \in waiting
    /\ t \in waiting => driver[t] = "draining"
    /\ outcome[t] # "none" => t \in running

(* A prompt is never sent by the fire itself to a session in another mode  *)
(* than the clamped one: not to one the operator switched to auto, nor to  *)
(* a busy one that refuses to be switched back.                            *)
FiresClamped ==
  [][\A t \in Tasks :
       t \in running' \ running /\ driver'[t] = "active" => session'[t].mode = "clamped"]_vars

(* No run that raised a permission prompt is reported as a success, even   *)
(* when the denied turn went on to a result.                               *)
BlockedNeverSucceeds == \A t \in Tasks : t \in blocked => outcome[t] # "success"

(* A one-time task runs once, whatever is paused, resumed, stopped, timed  *)
(* out or restarted, unless the daemon died with its run unrecorded.       *)
OnceFiresOnce == \A t \in Once : fired[t] <= 1

(* A slot that has come is handled - run and recorded, skipped, refused or *)
(* edited away - though the runs before it hang: the timeout frees the     *)
(* slot and the cap starves nobody.                                        *)
SlotIsHandled ==
  \A t \in Tasks : t \in Members(due) ~> t \notin Members(due) \/ destroyed

(* The rule of scheduler.js: a scheduled fire runs at the clamped mode, or *)
(* it does not run.                                                        *)
ClampedOrNotRun ==
  [][\A t \in Tasks :
       /\ Alive(t)' /\ session'[t].turn = "run"
       /\ ~(Alive(t) /\ session[t].turn = "run")
       => session'[t].mode = "clamped"]_vars

(* The run of a task: open while the engine waits for its outcome, which   *)
(* stands until it was recorded.                                           *)
RunOf(t) == CASE outcome[t] # "none" -> outcome[t]
              [] Owned(t) -> "open"
              [] OTHER -> "idle"

(* Implementation of RunLedger: whoever ends a turn, times it out, closes  *)
(* its session or shuts down, a run holds one slot, its first outcome is   *)
(* the one that is recorded, and none that raised a prompt succeeds.       *)
Ledger == INSTANCE RunLedger WITH run <- [t \in Tasks |-> RunOf(t)]

LedgerSpec == Ledger!Spec
=============================================================================
