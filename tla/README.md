# A TLA+ model of the chroxy server

chroxy runs coding agents on a developer's machine and lets phones and browsers
drive them. Nearly everything that can go wrong lives in
`packages/server/src`: a supervisor keeps a server process alive behind a
tunnel, the server keeps sessions, a session runs one agent turn after the
other, and every tool the agent wants to use passes a permission pipeline that
may ask a person; a scheduler fires prompts that nobody watches; paired devices
hold tokens that outlive the process, and sessions in Docker share a pool of
containers. This directory models those seven parts, checks them with TLC on small
instances, and proves their safety with TLAPS for every instance.

## The system

| Component | State it keeps | Operations | Where it is hard |
|---|---|---|---|
| Permission manager (`permission-manager.js`, `permission-floor.js`, `permission-rule-store.js`) | pending prompts, their timers and payloads, one question slot, session and project rules, mode | `handlePermission`, `requestMcpTrust`, `respondToPermission`, `respondToQuestion`, `autoAllowPending`, `clearAll`, `setRules`, timers, aborts | five ways to end a prompt race each other; the floor must win over modes and rules; three maps, two timers and a slot must agree |
| SDK session (`sdk-session.js`, `base-session.js`) | busy flag, query handle, outgoing queue, watchdog timers, pause count, stop flag | `sendMessage`, the event loop and its `finally`, `interrupt`, watchdogs, `cancelQueuedMessage`, `destroy` | the loop outlives the busy flag; queue drain, retry, stall and Stop meet in `finally` |
| Supervisor (`supervisor.js`, `server-cli-child.js`) | child, drain flag and timer, restart count and timer, standby server, deploy-failure count, give-up state | fork, exit handler, SIGUSR2 deploy, rollback, give up, shutdown | many timers and one port; exit paths must leave exactly one way on |
| Permission routes (`ws-permissions.js`, `permission-resolver.js`, `ws-server.js`, `ws-forwarding.js`) | held hook requests, the map from request to session, subscriptions and their counts | ask, answer over WebSocket or HTTP, lapse, connect, disconnect, subscribe, destroy a session | close, timer, answer and end of session race on one request; the count of a subscription must end with its request |
| Scheduler (`scheduler.js`, `scheduled-task-store.js`, `orchestration/turn-driver.js`) | one timer, running set, a session per task, one driver turn per session with its waiters, the registry in memory and on disk | tick, fire, record, edit, refresh, destroy, load; begin, settle, time out and drain a turn | the driver cannot tell whose turn ended; an operator may use, stop, switch or close the session; failed writes and restarts |
| Session tokens (`pairing.js`, `session-token-store.js`, `platform.js`, `cli/tokens-cmd.js`) | tokens with their age in memory, on disk and in what the disk has flushed | mint, look up, authenticate, sweep, revoke here or from the command line, start, stop | a crash or power loss between memory and disk must not bring a token back; eviction at the cap |
| Pairing (`pairing.js`, `handlers/pairing-handlers.js`) | the code on display, shared and gated codes, requests that wait for approval | show, refresh, redeem, request, approve, deny | the timer that replaces the code against its expiry; single use |
| Docker pool (`docker-byok-pool.js`, `docker-byok-session.js`) | idle containers per key, soil marks, ages, caps; a container per session | start and destroy of a session, acquire, release, evict, drain, resize, shutdown | `destroy()` runs at any await of `start()`, and `start()` goes on |
| Tunnel (`tunnel/`) | process, URL, recovery state | start, stop, recover | `stop()` during a recovery's await |
| Session manager (`session-manager.js` and its helpers) | sessions, their persisted state, timeouts, histories | create, destroy, restore, idle timeout | restore after a crash; wide bookkeeping |
| WebSocket server (`ws-*.js`) | clients, subscriptions, replay | connect, authenticate, replay, broadcast | replay order |
| Other providers, orchestration, control room, apps | see `PROJECT.json` | | reasons for leaving each out are in its `components` |

How they interact. A client's message reaches a handler, which calls the
session. The session's `sendMessage` starts a query of the agent SDK; the SDK
calls `canUseTool`, which is the permission manager's `handlePermission`; its
`permission_request` and `permission_resolved` events pause and resume the
session's watchdog, and go to the clients. The end of a turn
(`_clearMessageState`) calls the manager's `clearAll`. The scheduler drives the
same sessions through `setPermissionMode`, `sendMessage` and `interrupt`, and
learns how a turn ended from the session's events alone. A prompt of a session, or of
its hook, gets a route; an answer goes through the resolver to the manager of that
session or to the HTTP response that is held, and a client may answer if the token it
was paired with is bound to no session or to that one. The supervisor is a
process of its own: it talks to the server process over IPC and signals only.
Everything in one process runs on one thread, so a handler up to its next
`await` is one atomic step; all concurrency is in the order of the steps.

## The modules

```
PermissionGate            what a permission pipeline promises (abstract)
PermissionManager         the permission manager; implements PermissionGate
  PermissionManagerProofs   its theorems
  MCPermissionManager       instances for TLC (2 configurations)
PermissionDesk            what a permission request may rely on (abstract)
PermissionRoutes          who may answer a request, and what an answer releases; implements PermissionDesk
  PermissionRoutesProofs    its theorems
  MCPermissionRoutes        instance for TLC
TurnLine                  what a session promises about the messages it is sent (abstract)
SdkTurn                   the turns of an SDK session and its outgoing queue; implements TurnLine
  SdkTurnProofs             its theorems
  MCSdkTurn                 instances for TLC (2 configurations)
RunLedger                 what a scheduler owes the runs of its tasks (abstract)
Scheduler                 the scheduler, its registry and the turn driver; implements RunLedger
  SchedulerProofs           its theorems
  MCScheduler               instances for TLC (3 configurations)
SessionTokens             the tokens of paired devices and their file; checked as it is
  SessionTokensProofs       its theorems
ContainerLease            what a session may rely on of its container (abstract)
DockerPool                the containers of Docker sessions and their pool; implements ContainerLease
  DockerPoolProofs          its theorems
  MCDockerPool              instance for TLC
Supervisor                the supervisor process
  SupervisorProofs          its theorems
  MCSupervisor              instance for TLC (2 configurations)
```

`SdkTurn` and `PermissionManager` meet in two places. SdkTurn's
`PermissionRequest`/`PermissionResolved` are the manager's events, and its
fairness assumption "prompts end" is what `EveryPromptSettles` establishes for
the manager. PermissionManager's `ClearAll` is what SdkTurn's
`ClearMessageState` calls.

### PermissionGate and PermissionManager

A call of the agent is a member of `ToolCalls`, `TrustCalls` (MCP trust prompts)
or `Questions` (`AskUserQuestion`). It is decided at once or becomes a prompt.
The variables carry the code's names: `pendingPermissions`,
`permissionTimers` and `lastPermissionData` are the key sets of the three maps,
`pendingUserAnswer` the question slot, `questionTimer` the handle the code keeps
and `liveQuestionTimers` the timeouts that will really fire (overwriting the
handle does not cancel one). `decision`, `announced`, `answered` and `told` are
history: what each promise resolved to, which prompts a client saw, which a
person answered, how many `permission_resolved` each got.

| Action | Code |
|---|---|
| `AllowSilently`, `DenySilently`, `DenyAtCap`, `PromptForTool` | `handlePermission`: floor, rules, mode, cap, insert |
| `AskUserQuestion` | `_handleAskUserQuestion` |
| `RequestMcpTrust`, `TrustAddressResolved` | `requestMcpTrust` before and after its host lookup |
| `RespondToPermission`, `RespondToQuestion` | the answers, "always allow" with its rule included |
| `PermissionTimeout`, `QuestionTimeout`, `Abort` | the timers and the abort listeners |
| `ClearAll`, `BeginTurn` | the end and the start of a turn |
| `SetPermissionMode`, `SetPermissionRules`, `SetProjectRules` | `setPermissionMode` with the SDK hook, `setRules`, the project rules of the settings handler |

Data is abstract: a path is a model value in `Paths`, the write floor is
`ProtectedPaths` and the read floor `SecretPaths`; a rule is a tool, a decision
and a scope (a set of paths, or none). The plan mode decides calls like approve.
Each call happens once, since request ids are never reused.

`QuestionsOverlap` says whether a question may arrive while another waits.
The passing runs assume it may not, and so do the theorems `MapsStayInStep` and
`ImplementsGate`; the run `question_overlap` shows why. `ToolNames` are the names a tool
may have, so a list of rules has no more keys than names and scopes.

Properties: `MapsInStep` (each waiting prompt can still be answered, times out
and can be re-sent), `FlooredNeverSilent`, `TrustOnlyByUser`,
`AutoModeLeavesNoPrompt`, `GateSpec` (refinement) and `EveryPromptSettles` (liveness);
`PendingBounded`, the cap on pending tool prompts, is only proved, and so is
`UnseenOnlyIfEligible` (a tool that may not be allowed for good is allowed unseen in auto
mode only): the instances have no call of such a tool.

### PermissionRoutes

The manager knows its prompts; this module knows who may answer them. `route` is
`permissionSessionMap`, `held` the hook requests whose HTTP response is open, `prompts`
those that wait in some in-process manager, `counted` the reference counts
(`_permissionSubs`) of the subscriptions that a request induces. `owner`, `asked` and
`settled` are history: whose request it is, which sessions a client chose to watch, and
with which binding each request was answered.

| Action | Code |
|---|---|
| `Ask`, `AskByHook` with `Register` | a prompt of a session, `POST /permission`, `_registerPermissionRoute` |
| `Answer`, `AnswerByHttp` with `Origin`, `MayResolve`, `Resolve` | `permission_response`, `POST /permission-response`, `createPermissionResolver().resolve` |
| `Lapse` with `EndPrompt`, `EndHeld`, `Unregister` | timers, aborts, a lost connection, `_unregisterPermissionRoute` |
| `Connect`, `Disconnect` | post-auth with `resendPendingPermissions`; the close handler |
| `Subscribe`, `Unsubscribe` with `Adopt` | `subscribe_sessions`, `switch_session` and their opposite |
| `DestroySession`, `Rehome` | `session_destroyed` and the rest of the destroy handler |

`PermissionDesk` says what is left of a request without managers, maps and open responses:
it waits, and is then answered, once and by a caller bound to no session or to its own, or
lapses; neither is undone. `DeskOf` maps a request to its stage.

Properties: `RoutesMatchRequests`, `SubscriptionsFollow` (a chosen subscription stays, an
induced one of a hook session ends) and `DeskSpec` (refinement). `BoundStaysHome` follows
from it and is only proved.

### SessionTokens

`tokens` is the map in memory, `file` the store as a reader sees it and `flushed` as a
power loss would leave it: an ordinary save is an atomic rename that is not flushed, a
durable one is. Tokens are numbered in the order they are minted, which is the order
of the Map. `revoked` and `lapsed` are history: what was reported revoked, what the
daemon has refused as expired.

| Action | Code |
|---|---|
| `Mint` | `_storeSessionToken`: sweep at the cap, evict the oldest, save |
| `LookUp`, `Authenticate` | `_lookupToken`; `isSessionTokenValid` with its throttled slide |
| `Sweep` | `_sweepSessionTokens`, hourly or for the roster |
| `Revoke`, `RevokeInFile` | `revokeSessionTokenById`, `revokeAllSessionTokens`; `chroxy tokens revoke` |
| `Start`, `Stop`, `PowerLoss`, `Writeback`, `Tick` | the life of the process, the disk and the clock |

Properties: `RevokedStaysOut`, `LapsedStaysOut` and the action property
`EvictedOnlyFromFullHouse`; `SweepIsArmed` is only proved.

### DockerPool

`pc[s]` says at which await `start()` of a session stands; `cid`, `ready` and `claimed`
are its fields. `teardowns` holds the containers that a `destroy()` has captured and will
release or remove once the agent loop has ended. `pool` is the set of idle containers,
`soiled`, `stamped` and `old` the marks kept about them. `home`, `rm` and `dirty` are
history: the key a container was started for, what was given to `docker rm`, and what is
unfit for another session.

| Action | Code |
|---|---|
| `Create`, `StartFails`, `AcquireMiss`, `AcquireHit`, `Verified`, `VerifyFails`, `Launched`, `SetUp`, `PostCreated`, `PostCreateUnmarked`, `Ready` | `start()` between its awaits, with `acquire` and `forget` of the pool |
| `Destroy`, `Remove`, `Release` | `destroy()` before and after its await, `release` of the pool |
| `IdleOut`, `GrowOld` | the idle timer of an entry, its age |
| `DrainAll`, `DrainNext`, `Recycle`, `Resize` | the actions of the dashboard on the pool |
| `Shutdown` | the daemon's shutdown: every session, then the pool |

`ContainerLease` says what is left without awaits, teardowns and ages: a container is started for a
session and a key, has one holder at a time, is lent by the pool under its own key only, and not
again once it is unfit, removed or the pool shut. `StageOf` maps a container to its holder.

Properties: `HeldOnce` and `LeaseSpec` (refinement). `SoiledStaysOut` follows from `LeaseSpec` and
is only proved, and so is `WithinCaps`.

### SdkTurn

Each message is used once and names its turn. `pc[m]` follows it: queued, due
(its `nextTick` is scheduled), streaming, snapshot (the loop awaits the context
usage after the result), resulted (idle, but the generator is not done), done
or dropped. `query` is the handle `interrupt` and the watchdogs use,
`resetter` names the turn whose `resetResultTimeout` closure is installed, `armed`
the turn whose closure armed the timers. `accepted` and `started` are history.

| Action | Code |
|---|---|
| `UserSends`, `Redispatch` | `sendMessage`: refuse, enqueue or start; the second from `dequeueNextOutgoing`'s `nextTick` |
| `SdkEvent`, `ResultArrives`, `EmitResult` | the `for await` loop |
| `QueryThrows`, `QueryEnds` | its `catch` and `finally`, or the `finally` alone |
| `PermissionRequest`, `PermissionResolved` | the counted pause of the watchdog |
| `WatchdogFires` | `_handleHardTimeout` and `_handleStreamStall` |
| `Interrupt`, `CancelQueuedMessage`, `StdinDisabled`, `Destroy` | as named |

`EarlySend` says whether a user may send while the loop of an ended turn still
unwinds; `sdk_turn_retry` sets it.

`TurnLine` says what the sender of a message may rely on, with no queue, flag or query in
sight: a message is taken once, waits or is served, and is then over or dropped; neither is
undone. `StageOf` maps `pc` to those stages, `accepted` is the order of the line. Without
`EarlySend` the line is `Orderly`: a message is served only when no other is, and when none
taken before it still waits.

Properties: `LineSpec` (refinement), `FirstComeFirstServed`, `BusyIsWatched`,
`PromptStopsTheClock`, `StopReachesTheTurn`, `StopFlagIsFresh`; liveness
`FollowUpsAreHandled` and `BusyEnds`. `OneTurnAtATime` follows from `LineSpec` and is only
proved.

### Scheduler

A task has one session, `session[t]`, of which the module keeps what the engine and
its driver depend on: the mode, whose prompt it works on, the scheduled prompts in
its own queue, whether it was told to stop, and whether a stalled loop it has
forgotten (`stray`) still winds down: the behaviour SdkTurn models in full.
`driver[t]` is the driver's turn on that session, `waiting` the runs behind its
mutex, `outcome[t]` a settled result whose continuation in `_fire` is next. `state`
and `ran` are the registry in memory, `disk` what was last written. `fired` is history.

| Action | Code |
|---|---|
| `SlotComes`, `GraceExpires` | the clock reaches `nextRun`, then leaves the grace window |
| `Tick`, `TickStep` with `Evaluate`, `Fire` | `_tick` and `_fire` up to its await: grace, cap, preflight |
| `ReuseSession`, `CreateSession` | `_resolveSession` with `_assertPermissionMode` |
| `FinishRun` | `_fire` after its await; `RecordRun` and `Persist` write the registry |
| `DriveTurn`, `BeginTurn`, `HandOff`, `Deliver`, `RunTimeout`, `DrainEnds` | the turn driver |
| `TurnEnds`, `StreamStall`, `StrayEnds`, `SessionDestroyed` | the session's terminal events |
| `PermissionRequest` | the answerer that denies and interrupts |
| `EditTask` | pause, resume, delete and edit from the dashboard, with `refresh` |
| `OperatorSends`, `OperatorStops`, `OperatorSetsMode` | a person at the same session |
| `Destroy`, `Restart` | `destroy`; the end of the process and `load` |

The clock is abstract: a slot has come, is too old, a timer has run out. A tick, and
the continuations of the promises it settles, run before any other event
(`EventLoopFree`). The end of a turn and the start of the session's next queued
prompt are one step, and one stalled loop winds down at a time. A deleted task stays
in `Tasks` with the state `deleted`.

`RunLedger` says what the registry may be told: at most `MaxConcurrentRuns` runs hold a slot,
one of each task; a run has one outcome, the first, and keeps its slot until it is recorded;
after a permission prompt that is no success. `RunOf` maps a task to the stage of its run: the
driver's turn, its waiters, the sessions and the registry are gone.

Properties: `EveryRunWillSettle` (a run that holds the concurrency slot has someone
to settle it), `OnceFiresOnce`, `FiresClamped` (action property), `LedgerSpec` (refinement)
and `SlotIsHandled` (liveness). `BlockedNeverSucceeds` follows from `LedgerSpec` and is only
proved.

### Supervisor

Process ids are model values and are reused. `alive` is the set of server
processes the operating system runs, `child` the one the supervisor knows: the
two can differ only if the code loses one, and `OneChild` says it never does.
Time is abstract: an armed timer may fire at any moment, `deployWindow` is true
while the last deploy is less than `DEPLOY_CRASH_WINDOW` ago.

| Action | Code |
|---|---|
| `TunnelStarts`, `FailBoot`, `StartFirstChild` | `start` |
| `RestartTimerFires`, `ChildReady`, `DeployResetTimerFires` | `startChild` and its IPC handler |
| `ChildExits` with `LastExit`, `RollBack`, `RollbackFails`, `GiveUp`, `BackOff` | the exit handler |
| `Deploy`, `DrainComplete`, `DrainTimeout` | SIGUSR2, `restartChild`, the child's report |
| `StandbyRetry` (and `StartStandbyServer`) | the health server on the child's port and its EADDRINUSE retries |
| `PushEnds`, `TerminalTimerFires` | `_serveTerminalDown` |
| `Shutdown`, `TunnelStops`, `ProcessError` | `shutdown`, `_onProcessError` |

Properties: `OneChild`, `PortIsFree`, `NeverStranded`, `NothingIsAbandoned`,
`NoForkAfterTheEnd`; liveness `OutageEnds`.

## The runs

| Run | Question | Result |
|---|---|---|
| `permission_manager` | two tool calls (one floored), a remote trust prompt, two questions, a change of mode or rules, cap 1; timers fair, nobody obliged to answer | all properties hold; 460,614 states |
| `question_overlap` | a second question while the first waits | `EveryPromptSettles` fails: see findings |
| `permission_routes` | a hook session and an in-process one, an unbound client and one bound to the hook session, three requests | all properties hold; 87,018 states |
| `session_tokens` | a cap of two tokens, three mints, failing saves, restarts and power losses | all properties hold; 106,483 states |
| `docker_pool` | two sessions of one key, one of another, one from a snapshot; two containers, caps 2 and 2 | all properties hold; about 1.9 million states |
| `sdk_turn` | four messages, queue of two, two prompts per turn, under fairness | safety and liveness hold; 96,780 states |
| `sdk_turn_retry` | a user may send before the stalled loop has ended | `FirstComeFirstServed` fails: see findings |
| `scheduler` | a one-time and a recurring task, cap 1, an operator in the recurring task's session, every edit, failed writes, restarts | all properties hold; about 1.9 million states |
| `scheduler_progress` | the same without the operator and without deletion, turns that need never end | `SlotIsHandled` and `LedgerSpec` hold; 257,928 states |
| `scheduler_mode` | is every scheduled prompt sent at the clamped mode? | `ClampedOrNotRun` fails: see findings |
| `supervisor` | two process ids, four restarts, three deploy failures, two standby retries | all properties hold |
| `supervisor_drain` | does a drain end? | `DrainEnds` fails: see findings |

Deadlock checking is off where the system may really stop: the supervisor
exits, a session whose messages are all used or that was destroyed has
nothing left to do, and the containers end with the daemon. The other runs are
checked for deadlock as well.

### Bounds

* `MaxChanges` bounds mode and rule changes over a run of PermissionManager: one
  takes effect before, during or after each prompt. Two rule lists hold a scoped
  deny before an unscoped allow, a rule for a tool that may not be persisted, and
  two rules with the same key. `MaxRulesPerProject` = 2 makes the store's limit bite.
* `MaxPendingPermissions` = 1 with two tool calls reaches the cap, and a trust
  prompt goes past it.
* `OutgoingQueueMax` = 2 with four messages overflows behind a running turn.
* `MaxPrompts` bounds the prompts of one turn; two overlap.
* PermissionRoutes: three requests are needed for a count of three, one session of
  each kind for an answer that is dispatched to the wrong one; the requests are
  interchangeable.
* SessionTokens: with a cap of two, three mints evict; a token may be the oldest and yet
  the liveliest, since a slide renews it. A life of two ticks and a clock of four let a
  token expire, be slid, be saved late and be restored.
* DockerPool: a and b compete for one bucket, d brings in the total cap, r the snapshot. Two
  containers meet every pair of holders; more of them multiply the states and add no
  kind of meeting (`HeldOnce` is proved for any number).
* `MaxConcurrentRuns` = 1, the default, with two tasks: one run is enough to hold
  up the other. `Watched` names the tasks whose session an operator uses and `Edits` what
  is done to tasks; one watched session meets every race of a run with a person,
  and the one-time task is free of them. Nothing counts runs: tasks fire, restart and
  fail for ever; `fired` stops at 2.
* `MaxRestarts` = 4 exceeds `MaxDeployFailures` = 3, so both the rollback and
  the give-up path are reached. Two process ids suffice to see an orphan beside
  a child.

### Fairness

* PermissionManager: an armed timer fires and a host lookup returns. Nobody has
  to answer.
* SdkTurn: a `nextTick` runs, timers fire, an open prompt ends (that is
  PermissionManager's `EveryPromptSettles`), the context lookup is bounded by
  its own timeout, a generator ends after its result, and a query that was told to
  stop throws or ends. The agent need not answer.
* Supervisor: timers fire, the push is bounded by its own timeout, the tunnel's
  stop returns, a forked child becomes ready or exits, and a child that was told
  to go exits. The last two are assumptions about the child: the supervisor
  neither times out a boot nor escalates SIGTERM to SIGKILL.

* Scheduler: ticks and continuations run, the run's watchdog and the drain's timer
  fire. No session has to answer. The two timers need strong fairness: a tick
  that finds the cap reached disables them for its duration, and ticks repeat,
  while a real timer's deadline is not lost.

Everywhere else fairness is weak: each of those steps stays enabled until it happens.

### Findings

1. *A question can be lost* (`question_overlap`). `_handleAskUserQuestion`
   overwrites the slot of a question that waits. When another event then empties
   the slot, the first question's timer finds it empty and settles nothing, so
   its promise never settles, against the comment "Auto-deny after timeout if
   no response".
2. *A retry overtakes the queue* (`sdk_turn_retry`). After a stall the session
   is idle at once and the user is told to try again, but the queue is only
   drained when the stalled loop ends. The retry starts first; worse, the old
   loop's `catch` then clears the state of the new turn and re-sends a queued
   message beside it.
3. *A drain can last for ever* (`supervisor_drain`). The exit handler does not
   reset `_draining`. A child that crashes while it drains leaves the flag set,
   and later deploys are refused as "already in progress".
4. *An unattended prompt can start in auto mode* (`scheduler_mode`). The mode is
   asserted when a task fires, but a prompt fired into a session that is busy
   with its operator's turn waits in the session's queue. The operator may switch to
   auto meanwhile; the end of their turn is taken for the end of the run, which
   is recorded a success, and the scheduled prompt then starts in auto mode with no
   run to watch it. The header of `scheduler.js` says "a scheduled fire runs at the
   clamped mode, or it does not run". What does hold is `FiresClamped`.

### What the models show beside the findings

These follow from the code as it is; no line of the repository contradicts them so
plainly that a run states it, and the properties are worded around them.

* *The count of an in-process prompt stays behind.* `permission_resolved` makes
  `ws-forwarding.js:531` delete the map entry before the resolver's route teardown, which then
  returns early. The subscription that the prompt induced stays until the client
  adopts it, disconnects or the session ends, against `ws-server.js:2708`. `HookCountsEnd` therefore
  speaks of hook sessions only.
* *A release takes a count from every client that has one* (`ws-server.js:2730`), also from one
  that was counted for another request of the session only. A device that connected
  between two requests is unsubscribed by the end of the first while the second waits.
  What a reconnecting client is re-sent subscribes it without a count.
* *An unmapped hook request* (no owner, or its session being destroyed) answered by a client
  whose active session answers in process is reported as expired while its response is
  still held; and one posted while the session is being destroyed is not drained with it.
* *A container outlives its session.* A session that is destroyed during `docker run` gets its
  container afterwards and keeps it until the daemon ends
  (`docker-byok-session.js:1631`); `HeldOnce` counts it as that session's. A teardown that still waits
  for the agent loop when the process exits strands its container.
* *A late slide.* The throttle of slides is shared by all devices, so the stored age of one may
  lag by up to a whole life if others authenticate; after a restart that device has to pair
  again earlier than promised. With `DirSyncFails` set, a revocation that was reported can be
  undone by a power loss: `confirmRenameDurable` reports the caveat and the store drops it.

## The proofs

Each component has a module of its own for its proofs, around an inductive invariant: the
properties and what they need to be preserved by every action.

`PermissionManagerProofs` proves, for any sets of calls, paths, rules and
signals, and any cap: `Types`, `FloorHolds`, `TrustIsExplicit`, `NeverAutoAllow`, `CapHolds`,
`AutoModeIsQuiet`, `MapsStayInStep` and `ImplementsGate`. Only the last two assume
`OneQuestionAtATime`: the agent's SDK asks the next question after the last was settled,
and gives each a signal of its own.

* *The rules.* `TypeOK` says that a stored list has one rule per key, at most
  `MaxRulesPerProject`, and none that allows a tool that may not be allowed for good. Lists are
  built by folds of the code over what a client sends, written as recursive functions on
  numbers (`Others`, `StoredRules`), so each needs an induction. The library's induction theorems
  take a predicate, which no installed prover can instantiate; `Induction` states the principle for a
  set of numbers, proved from the least element of its complement (`LeastElement`), and
  `LoopHasTrace` gives a recursive function its values step by step. `OthersFiltered`, `AddRuleFit` and
  `StoredRulesFit` are the lemmas on the store that follow.
* *The decisions.* `DecisionStep` says what one step may do to one call; the floor, the trust rule and
  `NeverAutoAllow` follow from it, the last with the lemmas that only a rule for an eligible tool
  can be stored and hence matched.
* *The maps.* The inductive invariant adds to `MapsInStep` what it needs: `RequestTypeOK`,
  `ResolvingIdle` (a call in its host lookup was neither decided nor shown: else
  inserting it afterwards would re-open a settled call) and `ListenersOK` (a
  question added exactly one abort listener when it was shown: so the listener
  that empties the slot is the one of the question in it, lemma `AbortHitsItsQuestion`).
* *The gate.* By `CloseStep` a step that settles some waiting calls and tells each is a
  `Close` of the gate.
* *The cap.* `CapHolds` needs only that the pending map is finite and that a step shrinks it or
  adds one call, a tool call only below the cap (`PendingStep`).

`SupervisorProofs` proves for every set of processes and every limit:
`TypesHold`, `NeverTwoChildren`, `PortStaysFree`, `OutageIsHandled`, `CleanExit` and
`TheEndIsFinal`. Its invariant relates the flags that the properties leave apart:
with a child no restart is pending and the port is its own (`ChildOK`), before boot
nothing is pending (`BootOK`), a shutdown has cancelled the restart and stops the tunnel, and
whoever exits without waiting has no child (`StopOK`), and the counters stay below their
limits while the supervisor lives (`CountsOK`).

`PermissionRoutesProofs`: `Types`, `RoutesAreRequests`, `BindingHolds`, `SubscriptionsAreRight`,
`ImplementsDesk`.
A prompt belongs to an in-process session and a held request does not (`Kinds`), so the two
ways of ending a request never meet; and a chosen subscription has no count
(`AskedUncounted`), so no release can take it. A request that was answered waits nowhere
(`AnsweredIsOver`), although three maps know of it: that makes every step of the routes one request
asked or answered, some lapsed, or none of the desk's business (`DeskStep`).

`SessionTokensProofs`: `TypesAndCap`, `LapsedForGood`, `SweepArmed`, `RevokedForGood`,
`FairEviction`. What is to hold of memory has to hold of every copy that may become
memory: what the file and the flushed file hold was minted and fits the cap (`Store`), a copy is never
younger than what replaced it (`AgesOK`), a lapsed token is old in each of them (`LapsedOK`) and a revoked
one in none (`RevokedOK`). The last two theorems assume `~DirSyncFails`.

`DockerPoolProofs`: `Types`, `CapsHold`, `OneHolder`, `SoiledNeverPooled`,
`ImplementsLease`. `Held` is `HeldOnce`
container by container, so a step only has to speak of the one it moves; `Progress` and
`Going` say which container the local copy of a suspended `start()` still means; `DirtyOK` says that a session or
teardown with an unfit container has marked it soiled (`Told`), unless its start is not yet over or the pool
is shut. For the lease the stages follow from `Held` (`StageCases`); the one delicate step is a pooled container found
dead after its session was destroyed, where `Progress` says that it is on its way out already (`VerifyFailsLease`).

`SdkTurnProofs` has two invariants. `LooseInv` holds whenever users send, also while the loop of
an ended turn still runs and prompts of two turns are open: the queue names what waits, once
(`LineOK`), the handle and the stop flag belong to a loop that runs (`HandleOK`), and the pause counts the
open prompts of all turns (`PauseOK`, by the cardinality of `OpenPrompts`). From it follow
`PromptsPauseTheClock`, `StopIsForThisTurn`, `NothingIsLost` and `ImplementsLine`. `LineStep` maps each action to an
action of the line or to none; for the order of an `Orderly` line it uses the second invariant.

`Types`, `OneLoop`, `AlwaysWatched`, `StopIsHeard` and `NoOvertaking` hold if users send only while a turn is busy or
its loop has ended (`~EarlySend`; the run `sdk_turn_retry` shows what happens otherwise). The loop outlives
the busy flag, so `LoopOK`, `PromptsOK` and `StopOK` tie the flag, the query handle and the watchdog's closure
to the one loop that runs, and `QueueOK` says that between two loops a follow-up is in flight or the queue is
empty: whoever starts a turn meets no other. `TakenOK` and `OrderOK` order what has been
started before what waits.

`SchedulerProofs`: `Types`, `RunsSettle`, `BlockedIsNoSuccess`, `OnceIsOnce`, `FiresAreClamped`,
`ImplementsLedger`. For each task
`RunOK` says that the engine and its driver know the same run, and how much the session's own queue can hold
(`Fits`: one prompt of the driver's, one of a turn that stalled, one that a destroyed engine
left). `OnceOK` says that a one-time task that has fired is recorded as run, or still runs or waits for its
record, or was deleted; with `Schedulable` that keeps it from being due. For the ledger, `SettleStep` shows that a driver
which settles a run settles one that is open, whoever's event made it do so, and `RunsCounted`, that only
finitely many runs hold a slot, lets the ledger count them as the engine does. The run `scheduler_progress` checks
the ledger without an operator, the theorem with one.

The proofs also rest on the named assumptions on the constants, which TLC evaluates in
the runs.

Only model-checked: the liveness properties, whose fairness and `ENABLED` are out of the provers' reach.

## Not modelled

* PermissionManager: re-sending prompts to a reconnecting client, audit records,
  the input sent back with an answer, the store's file format. A session's
  project-rule copy is re-read only where the code does.
* SdkTurn: the soft warning timer, a synchronous throw of the SDK's `query`, a
  generator that ends without a result, model and thinking settings, resuming.
* Scheduler: quarantine (it needs a registry that refuses an outcome, which it does
  only for a status the engine never writes), adding tasks, entries the loader cannot
  read, the command line's own edits of the registry file while the daemon runs
  (the daemon neither re-reads nor merges them), the reply's text, and an operator's
  own follow-ups behind a running turn.
* PermissionRoutes: the hook's floor check, the routes of questions, rate limits and the
  drain of held requests at shutdown.
* Pairing: the pairing ids, the typeable codes and the queue of requests that wait for
  approval, which end in `Mint`; the encryption of the store.
* Docker: containers of others, compose stacks, devcontainer builds, snapshots (`snapshot()`
  has no caller in `src/`) and statistics.
* Supervisor: tunnel recovery, heartbeat, QR code and connection info; signals
  that arrive before `start` has registered its handlers; the `error` event of
  a fork without an exit; what git does in a rollback (its outcome is a choice);
  several drain timers of one child count as one. `restartChild`'s branch for a
  missing child cannot be reached from SIGUSR2, its only caller.
* The other components of the table and of `PROJECT.json`: clients and protocol are user
  interface and types; message handlers validate and delegate; environments, checkpoints,
  worktrees, push and billing are I/O or arithmetic on one thread; the other providers
  repeat the turn discipline of `BaseSession` over transports of their own.

## Plan

What would come next, each with its MC module and the properties its hazards ask for:

1. The pairing ids and the approval queue before `SessionTokens`: the code on display can always be
   redeemed. `refresh()` (`pairing.js:699`) leaves the timer alone that `extendCurrentId` has put
   three minutes off, so the code it shows may expire first and stay on display.
2. `Tunnel` composed with `Supervisor`: recovery racing `stop`.
3. The Codex session's uncounted pause beside SdkTurn's counted one.
4. History replay of a reconnecting client against the live broadcast.
