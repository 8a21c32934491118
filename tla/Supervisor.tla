---------------------------- MODULE Supervisor ----------------------------
(***************************************************************************)
(* The supervisor process: packages/server/src/supervisor.js, with the     *)
(* child's side of the IPC protocol (server-cli-child.js).                 *)
(*                                                                         *)
(* It owns the tunnel, forks the server child, restarts it with a backoff  *)
(* when it exits, answers health checks on the child's port meanwhile,     *)
(* drains the child for a deploy, rolls a bad deploy back, and gives up    *)
(* after too many restarts.  Time is abstract: an armed timer may fire at  *)
(* any moment.                                                             *)
(***************************************************************************)
EXTENDS Naturals

CONSTANTS
  Procs, NoChild,       \* process ids (reused), and none
  MaxRestarts,          \* _maxRestarts
  MaxDeployFailures,    \* MAX_DEPLOY_FAILURES
  MaxStandbyRetries     \* MAX_STANDBY_EADDRINUSE_RETRIES

ASSUME SupervisorAssumption ==
  /\ NoChild \notin Procs
  /\ MaxRestarts \in Nat
  /\ MaxDeployFailures \in Nat \ {0}
  /\ MaxStandbyRetries \in Nat \ {0}

VARIABLES
  booted,               \* start() has forked the first child, signals are handled
  exited,               \* "no", or the status the supervisor exited with
  tunnel,
  alive,                \* the server processes that run
  child, childReady,
  told,                 \* the child was sent SIGTERM or {type: 'shutdown'}
  drainAsked,           \* the child owes a drain_complete
  draining, drainTimer,
  restartCount, restartTimer,
  standby, standbyRetries,
  deployWindow,         \* less than DEPLOY_CRASH_WINDOW since _lastDeployTimestamp
  deployFailureCount, deployResetTimer,
  gaveUp,               \* "no", "pushing" (the await), "serving" (_terminalDown)
  terminalTimer,
  shuttingDown,
  exitWithChild         \* shutdown() registered the exit(0) on the child's exit

childVars == <<alive, child, childReady, told, drainAsked>>
drainVars == <<draining, drainTimer>>
restartVars == <<restartCount, restartTimer>>
standbyVars == <<standby, standbyRetries>>
deployVars == <<deployWindow, deployFailureCount, deployResetTimer>>
terminalVars == <<gaveUp, terminalTimer>>
stopVars == <<shuttingDown, exitWithChild>>
vars == <<booted, exited, tunnel, childVars, drainVars, restartVars, standbyVars, deployVars,
          terminalVars, stopVars>>

Init ==
  /\ booted = FALSE /\ exited = "no" /\ tunnel = "off"
  /\ alive = {} /\ child = NoChild /\ childReady = FALSE /\ told = FALSE /\ drainAsked = FALSE
  /\ draining = FALSE /\ drainTimer = FALSE
  /\ restartCount = 0 /\ restartTimer = FALSE
  /\ standby = "off" /\ standbyRetries = 0
  /\ deployWindow = FALSE /\ deployFailureCount = 0 /\ deployResetTimer = FALSE
  /\ gaveUp = "no" /\ terminalTimer = FALSE
  /\ shuttingDown = FALSE /\ exitWithChild = FALSE
----------------------------------------------------------------------------
(* The standby health server.                                              *)

(* listen() succeeds, meets EADDRINUSE and schedules a retry, or fails. *)
OpenStandby ==
  \/ standby' = "listening" /\ standbyRetries' = 0
  \/ standby' = "retrying" /\ standbyRetries' = standbyRetries + 1
  \/ standby' = "failed" /\ UNCHANGED standbyRetries

AbandonStandby == standby' = "off" /\ standbyRetries' = 0

StartStandbyServer ==
  IF standby # "off" THEN UNCHANGED standbyVars
  ELSE IF standbyRetries >= MaxStandbyRetries THEN AbandonStandby ELSE OpenStandby

(* Mutant: the port is polled for ever. *)
StandbyRetryUncapped ==
  /\ standby = "retrying" /\ OpenStandby
  /\ UNCHANGED <<booted, exited, tunnel, childVars, drainVars, restartVars, deployVars,
                 terminalVars, stopVars>>

(* The retry timer closes the server and starts it again. *)
StandbyRetry ==
  /\ standby = "retrying"
  /\ IF standbyRetries >= MaxStandbyRetries THEN AbandonStandby ELSE OpenStandby
  /\ UNCHANGED <<booted, exited, tunnel, childVars, drainVars, restartVars, deployVars,
                 terminalVars, stopVars>>

StopStandbyServer == standby' = "off" /\ UNCHANGED standbyRetries
----------------------------------------------------------------------------
(* Boot and the child's start.                                             *)

Fork ==
  /\ \E p \in Procs \ alive : child' = p /\ alive' = alive \cup {p}
  /\ childReady' = FALSE /\ told' = FALSE /\ drainAsked' = FALSE

(* Mutant: the standby server keeps the port. *)
StartChildKeepingStandby ==
  ~shuttingDown /\ Fork /\ restartTimer' = FALSE /\ UNCHANGED standbyVars

StartChild ==
  ~shuttingDown /\ Fork /\ restartTimer' = FALSE /\ StopStandbyServer

TunnelStarts ==
  /\ ~booted /\ tunnel = "off" /\ tunnel' = "up"
  /\ UNCHANGED <<booted, exited, childVars, drainVars, restartVars, standbyVars, deployVars,
                 terminalVars, stopVars>>

(* No token, or _failBoot: what was started is stopped. *)
FailBoot ==
  /\ ~booted /\ exited' = "1"
  /\ tunnel' = IF tunnel = "up" THEN "stopped" ELSE tunnel
  /\ UNCHANGED <<booted, childVars, drainVars, restartVars, standbyVars, deployVars,
                 terminalVars, stopVars>>

(* The tunnel is routable, or the server runs local: start() goes on. *)
StartFirstChild ==
  /\ ~booted /\ tunnel = "up" /\ booted' = TRUE
  /\ StartChild
  /\ UNCHANGED <<exited, tunnel, drainVars, restartCount, deployVars, terminalVars, stopVars>>

RestartTimerFires ==
  /\ restartTimer
  /\ StartChild
  /\ UNCHANGED <<booted, exited, tunnel, drainVars, restartCount, deployVars, terminalVars,
                 stopVars>>

(* The child says 'ready'.  The deploy failures are forgotten at once, or  *)
(* when the crash window is over.                                          *)
ChildReady ==
  /\ child # NoChild /\ ~childReady /\ childReady' = TRUE
  /\ restartCount' = 0
  /\ StopStandbyServer
  /\ deployResetTimer' = (deployResetTimer \/ (deployWindow /\ deployFailureCount > 0))
  /\ deployFailureCount' = IF deployWindow THEN deployFailureCount ELSE 0
  /\ UNCHANGED <<booted, exited, tunnel, alive, child, told, drainAsked, drainVars, restartTimer,
                 deployWindow, terminalVars, stopVars>>

DeployResetTimerFires ==
  /\ deployResetTimer
  /\ deployResetTimer' = FALSE /\ deployFailureCount' = 0
  /\ UNCHANGED <<booted, exited, tunnel, childVars, drainVars, restartVars, standbyVars,
                 deployWindow, terminalVars, stopVars>>

DeployWindowCloses ==
  /\ deployWindow /\ deployWindow' = FALSE
  /\ UNCHANGED <<booted, exited, tunnel, childVars, drainVars, restartVars, standbyVars,
                 deployFailureCount, deployResetTimer, terminalVars, stopVars>>
----------------------------------------------------------------------------
(* A deploy.                                                               *)

(* Mutant: the new child is forked while the old one drains. *)
DeployForkingAtOnce ==
  /\ booted /\ ~draining /\ childReady
  /\ deployWindow' = TRUE
  /\ StartChild
  /\ UNCHANGED <<booted, exited, tunnel, drainVars, restartCount, deployFailureCount,
                 deployResetTimer, terminalVars, stopVars>>

(* A child that is ready runs, so the branch for a missing child is not   *)
(* taken from Deploy, the only caller.                                     *)
RestartChild ==
  IF shuttingDown THEN UNCHANGED <<drainAsked, drainVars>>
  ELSE drainAsked' = TRUE /\ draining' = TRUE /\ drainTimer' = TRUE

(* SIGUSR2. *)
Deploy ==
  /\ booted /\ ~draining /\ childReady
  /\ deployWindow' = TRUE
  /\ RestartChild
  /\ UNCHANGED <<booted, exited, tunnel, alive, child, childReady, told, restartVars, standbyVars,
                 deployFailureCount, deployResetTimer, terminalVars, stopVars>>

(* The child has idled and saved: it is told to go. *)
DrainComplete ==
  /\ drainAsked /\ drainAsked' = FALSE
  /\ draining' = FALSE /\ told' = TRUE
  /\ UNCHANGED <<booted, exited, tunnel, alive, child, childReady, drainTimer, restartVars,
                 standbyVars, deployVars, terminalVars, stopVars>>

DrainTimeout ==
  /\ drainTimer /\ drainTimer' = FALSE
  /\ draining' = FALSE /\ told' = (told \/ draining)
  /\ UNCHANGED <<booted, exited, tunnel, alive, child, childReady, drainAsked, restartVars,
                 standbyVars, deployVars, terminalVars, stopVars>>
----------------------------------------------------------------------------
(* The child's exit: a crash, or the end it was told.                      *)

(* Mutant: the exit is not counted. *)
RestartsUncounted == restartCount

Restarts == restartCount + 1

DeployFailures == IF deployWindow THEN deployFailureCount + 1 ELSE deployFailureCount

DeployIsBad == deployWindow /\ DeployFailures >= MaxDeployFailures

(* The shutdown waits for this exit. *)
LastExit ==
  /\ shuttingDown
  /\ exited' = IF exitWithChild THEN "0" ELSE exited
  /\ UNCHANGED <<restartVars, standbyVars, deployWindow, deployFailureCount, terminalVars>>

(* Mutant: nothing starts the child of the rolled-back version. *)
RollBackWithoutRestart ==
  /\ ~shuttingDown /\ DeployIsBad
  /\ deployFailureCount' = 0 /\ deployWindow' = FALSE
  /\ restartCount' = 0 /\ restartTimer' = FALSE
  /\ StartStandbyServer
  /\ UNCHANGED <<exited, terminalVars>>

(* _rollbackToKnownGood() succeeds. *)
RollBack ==
  /\ ~shuttingDown /\ DeployIsBad
  /\ deployFailureCount' = 0 /\ deployWindow' = FALSE
  /\ restartCount' = 0 /\ restartTimer' = TRUE
  /\ StartStandbyServer
  /\ UNCHANGED <<exited, terminalVars>>

(* It fails: the supervisor exits at once. *)
RollbackFails ==
  /\ ~shuttingDown /\ DeployIsBad
  /\ deployFailureCount' = DeployFailures /\ restartCount' = Restarts
  /\ exited' = "1"
  /\ UNCHANGED <<deployWindow, restartTimer, standbyVars, terminalVars>>

(* Mutant: the backoff restart is armed all the same. *)
GiveUpAndRestart ==
  /\ ~shuttingDown /\ ~DeployIsBad /\ Restarts > MaxRestarts
  /\ deployFailureCount' = DeployFailures /\ restartCount' = Restarts
  /\ gaveUp' = "pushing" /\ restartTimer' = TRUE
  /\ UNCHANGED <<exited, deployWindow, standbyVars, terminalTimer>>

(* Too many restarts: a push notification is awaited first. *)
GiveUp ==
  /\ ~shuttingDown /\ ~DeployIsBad /\ Restarts > MaxRestarts
  /\ deployFailureCount' = DeployFailures /\ restartCount' = Restarts
  /\ gaveUp' = "pushing"
  /\ UNCHANGED <<exited, deployWindow, restartTimer, standbyVars, terminalTimer>>

BackOff ==
  /\ ~shuttingDown /\ ~DeployIsBad /\ Restarts <= MaxRestarts
  /\ deployFailureCount' = DeployFailures /\ restartCount' = Restarts
  /\ restartTimer' = TRUE
  /\ StartStandbyServer
  /\ UNCHANGED <<exited, deployWindow, terminalVars>>

ChildExits ==
  /\ child # NoChild
  /\ alive' = alive \ {child} /\ child' = NoChild
  /\ childReady' = FALSE /\ told' = FALSE /\ drainAsked' = FALSE
  /\ drainTimer' = FALSE /\ deployResetTimer' = FALSE
  /\ LastExit \/ RollBack \/ RollbackFails \/ GiveUp \/ BackOff
  /\ UNCHANGED <<booted, tunnel, draining, stopVars>>

(* The push is sent, failed or timed out: _serveTerminalDown(). *)
PushEnds ==
  /\ gaveUp = "pushing" /\ gaveUp' = "serving"
  /\ StartStandbyServer
  /\ terminalTimer' = TRUE
  /\ UNCHANGED <<booted, exited, tunnel, childVars, drainVars, restartVars, deployVars, stopVars>>

TerminalTimerFires ==
  /\ terminalTimer /\ terminalTimer' = FALSE
  /\ StopStandbyServer
  /\ exited' = "1"
  /\ UNCHANGED <<booted, tunnel, childVars, drainVars, restartVars, deployVars, gaveUp, stopVars>>
----------------------------------------------------------------------------
(* SIGINT, SIGTERM, and an error that nobody caught.                       *)

(* Mutant: the exit does not wait for the child. *)
ShutdownNotAwaitingChild ==
  /\ booted /\ ~shuttingDown /\ shuttingDown' = TRUE
  /\ restartTimer' = FALSE /\ deployResetTimer' = FALSE /\ terminalTimer' = FALSE
  /\ StopStandbyServer
  /\ tunnel' = "stopping"
  /\ told' = (child # NoChild) /\ exitWithChild' = FALSE
  /\ UNCHANGED <<booted, exited, alive, child, childReady, drainAsked, drainVars, restartCount,
                 deployWindow, deployFailureCount, gaveUp>>

Shutdown ==
  /\ booted /\ ~shuttingDown /\ shuttingDown' = TRUE
  /\ restartTimer' = FALSE /\ deployResetTimer' = FALSE /\ terminalTimer' = FALSE
  /\ StopStandbyServer
  /\ tunnel' = "stopping"
  /\ told' = (child # NoChild) /\ exitWithChild' = (child # NoChild)
  /\ UNCHANGED <<booted, exited, alive, child, childReady, drainAsked, drainVars, restartCount,
                 deployWindow, deployFailureCount, gaveUp>>

(* Without a child the exit follows the tunnel's stop. *)
TunnelStops ==
  /\ tunnel = "stopping" /\ tunnel' = "stopped"
  /\ exited' = IF exitWithChild THEN exited ELSE "0"
  /\ UNCHANGED <<booted, childVars, drainVars, restartVars, standbyVars, deployVars, terminalVars,
                 stopVars>>

(* _onProcessError: it stays alive unless it is shutting down. *)
ProcessError ==
  /\ shuttingDown /\ exited' = "1"
  /\ UNCHANGED <<booted, tunnel, childVars, drainVars, restartVars, standbyVars, deployVars,
                 terminalVars, stopVars>>
----------------------------------------------------------------------------
Next ==
  /\ exited = "no"
  /\ \/ TunnelStarts \/ FailBoot \/ StartFirstChild
     \/ RestartTimerFires \/ ChildReady \/ ChildExits
     \/ DeployResetTimerFires \/ DeployWindowCloses
     \/ Deploy \/ DrainComplete \/ DrainTimeout
     \/ StandbyRetry \/ PushEnds \/ TerminalTimerFires
     \/ Shutdown \/ TunnelStops \/ ProcessError

Spec == Init /\ [][Next]_vars

(* The operating system's part: timers fire, the push is bounded by its    *)
(* own timer, cloudflared stops, a child that starts becomes ready or      *)
(* exits, and one that was told to go does.                                *)
Running(A) == exited = "no" /\ A

Fairness ==
  /\ WF_vars(Running(TunnelStarts))
  /\ WF_vars(Running(StartFirstChild \/ FailBoot))
  /\ WF_vars(Running(RestartTimerFires))
  /\ WF_vars(Running(~childReady /\ (ChildReady \/ ChildExits)))
  /\ WF_vars(Running(told /\ ChildExits))
  /\ WF_vars(Running(DrainTimeout))
  /\ WF_vars(Running(PushEnds))
  /\ WF_vars(Running(TerminalTimerFires))
  /\ WF_vars(Running(TunnelStops))

FairSpec == Spec /\ Fairness
----------------------------------------------------------------------------
(* Properties.                                                             *)

(* Types. *)
FlagTypes ==
  /\ booted \in BOOLEAN /\ childReady \in BOOLEAN /\ told \in BOOLEAN /\ drainAsked \in BOOLEAN
  /\ draining \in BOOLEAN /\ drainTimer \in BOOLEAN /\ restartTimer \in BOOLEAN
  /\ deployWindow \in BOOLEAN /\ deployResetTimer \in BOOLEAN /\ terminalTimer \in BOOLEAN
  /\ shuttingDown \in BOOLEAN /\ exitWithChild \in BOOLEAN

StateTypes ==
  /\ exited \in {"no", "0", "1"}
  /\ tunnel \in {"off", "up", "stopping", "stopped"}
  /\ alive \subseteq Procs /\ child \in Procs \cup {NoChild}
  /\ standby \in {"off", "listening", "retrying", "failed"}
  /\ gaveUp \in {"no", "pushing", "serving"}

Limits ==
  /\ restartCount \in 0..(MaxRestarts + 1)
  /\ standbyRetries \in 0..MaxStandbyRetries
  /\ deployFailureCount \in 0..MaxDeployFailures

(* Types, and the limits of the three counters.                            *)
TypeOK == FlagTypes /\ StateTypes /\ Limits

(* No server process runs that the supervisor has lost sight of: a restart *)
(* timer, a deploy and a crash together never leave two.                   *)
OneChild == alive = {child} \ {NoChild}

(* The standby server never holds the port a child has to bind.            *)
PortIsFree == child # NoChild => standby = "off"

Pending == <<restartTimer, gaveUp = "pushing", terminalTimer>>

(* Without a child exactly one thing is pending that ends the outage: the  *)
(* backoff restart, the last notification, or the terminal-down timer.     *)
NeverStranded ==
  booted /\ exited = "no" /\ ~shuttingDown =>
    IF child = NoChild
    THEN Pending \in {<<TRUE, FALSE, FALSE>>, <<FALSE, TRUE, FALSE>>, <<FALSE, FALSE, TRUE>>}
    ELSE Pending = <<FALSE, FALSE, FALSE>>

(* Once it has given up or was told to stop, the supervisor forks nothing. *)
NoForkAfterTheEnd == [][shuttingDown \/ gaveUp # "no" => alive' \subseteq alive]_vars

(* A clean exit leaves no server process and no tunnel untold behind.      *)
NothingIsAbandoned == exited = "0" => alive = {} /\ tunnel \in {"stopping", "stopped"}

(* An outage ends: with a child that is ready, or with the supervisor's    *)
(* own exit, which its service manager sees.                               *)
OutageEnds == (booted /\ child = NoChild) ~> (childReady \/ exited # "no")

(* A drain in progress ends, and with it the refusal of further deploys.   *)
DrainEnds == draining ~> (~draining \/ exited # "no")
=============================================================================
