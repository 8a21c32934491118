------------------------------ MODULE SdkTurn ------------------------------
(***************************************************************************)
(* The turns of an in-process SDK session: packages/server/src/            *)
(* sdk-session.js (sendMessage, interrupt, the watchdog timers, destroy)   *)
(* and the outgoing queue of base-session.js.                              *)
(*                                                                         *)
(* A message starts a turn: a `for await` loop over the events of a query. *)
(* A message sent while a turn is busy is queued, and the `finally` of the *)
(* loop re-sends the head of the queue.  The session is busy until the     *)
(* turn's result or a watchdog; the loop itself ends later, when the       *)
(* generator does.  Each message is used once and names its turn.          *)
(***************************************************************************)
EXTENDS Naturals, Sequences, FiniteSets

CONSTANTS
  Messages, NoTurn,
  OutgoingQueueMax,
  MaxPrompts,    \* bound: permission prompts one turn may ask
  EarlySend      \* may a user send while the loop of an ended turn still runs?

ASSUME SdkTurnAssumption ==
  /\ NoTurn \notin Messages
  /\ OutgoingQueueMax \in Nat
  /\ MaxPrompts \in Nat
  /\ EarlySend \in BOOLEAN

VARIABLES
  pc,                 \* where each message, or the loop of its turn, is
  isBusy,
  currentMessage,     \* the turn the session is busy with
  query,              \* the query handle that interrupt() and the watchdog use
  outgoingQueue,
  redispatch,         \* the dequeued message whose nextTick is due, or NoTurn
  resetter,           \* the turn whose resetResultTimeout closure is installed
  armed,              \* the turn whose closure armed the watchdog timers
  asked,              \* permission prompts each turn has asked so far
  prompts,            \* the open ones
  pauseCount,         \* _permissionPauseCount
  timeoutPaused,      \* _resultTimeoutPaused
  interrupted,        \* turns whose query was told to stop
  intentionalStop,
  stdinDisabled,
  destroying,
  accepted,           \* messages in the order the session took them
  started             \* messages in the order their turns began

turnVars == <<isBusy, currentMessage, resetter, armed, prompts, pauseCount, timeoutPaused>>
queueVars == <<outgoingQueue, redispatch>>
stopVars == <<interrupted, intentionalStop>>
flagVars == <<stdinDisabled, destroying>>
orderVars == <<accepted, started>>
vars == <<pc, query, asked, turnVars, queueVars, stopVars, flagVars, orderVars>>

States == {"new", "queued", "due", "streaming", "snapshot", "resulted", "done", "dropped"}

(* The loop of the turn is running. *)
Live == {m \in Messages : pc[m] \in {"streaming", "snapshot", "resulted"}}

Queued == {outgoingQueue[i] : i \in DOMAIN outgoingQueue}

NoPrompts == [m \in Messages |-> 0]
----------------------------------------------------------------------------
Init ==
  /\ pc = [m \in Messages |-> "new"]
  /\ isBusy = FALSE /\ currentMessage = NoTurn /\ query = NoTurn
  /\ outgoingQueue = <<>> /\ redispatch = NoTurn
  /\ resetter = NoTurn /\ armed = NoTurn
  /\ asked = NoPrompts /\ prompts = NoPrompts /\ pauseCount = 0 /\ timeoutPaused = FALSE
  /\ interrupted = {} /\ intentionalStop = FALSE
  /\ stdinDisabled = FALSE /\ destroying = FALSE
  /\ accepted = <<>> /\ started = <<>>
----------------------------------------------------------------------------
(* sendMessage.                                                            *)

(* stdin is gone: the message and everything queued are refused. *)
Refuse(m) ==
  /\ stdinDisabled
  /\ pc' = [x \in Messages |-> IF x \in Queued \cup {m} THEN "dropped" ELSE pc[x]]
  /\ outgoingQueue' = <<>>
  /\ UNCHANGED <<query, turnVars, started>>

(* Mutant: the queue grows without bound. *)
EnqueueUncapped(m) ==
  /\ ~stdinDisabled /\ isBusy
  /\ pc' = [pc EXCEPT ![m] = "queued"]
  /\ outgoingQueue' = Append(outgoingQueue, m)
  /\ UNCHANGED <<query, turnVars, started>>

(* enqueueOutgoingMessage, with its overflow. *)
Enqueue(m) ==
  /\ ~stdinDisabled /\ isBusy
  /\ IF Len(outgoingQueue) >= OutgoingQueueMax
     THEN /\ pc' = [pc EXCEPT ![m] = "dropped"]
          /\ UNCHANGED outgoingQueue
     ELSE /\ pc' = [pc EXCEPT ![m] = "queued"]
          /\ outgoingQueue' = Append(outgoingQueue, m)
  /\ UNCHANGED <<query, turnVars, started>>

(* Mutant: the watchdog of the new turn is not armed. *)
StartTurnUnwatched(m) ==
  /\ ~stdinDisabled /\ ~isBusy
  /\ pc' = [pc EXCEPT ![m] = "streaming"]
  /\ isBusy' = TRUE /\ currentMessage' = m /\ query' = m
  /\ resetter' = m
  /\ started' = Append(started, m)
  /\ UNCHANGED <<outgoingQueue, armed, prompts, pauseCount, timeoutPaused>>

(* The turn begins: the watchdog is armed unless a prompt pauses it. *)
StartTurn(m) ==
  /\ ~stdinDisabled /\ ~isBusy
  /\ pc' = [pc EXCEPT ![m] = "streaming"]
  /\ isBusy' = TRUE /\ currentMessage' = m /\ query' = m
  /\ resetter' = m
  /\ armed' = IF timeoutPaused THEN NoTurn ELSE m
  /\ started' = Append(started, m)
  /\ UNCHANGED <<outgoingQueue, prompts, pauseCount, timeoutPaused>>

SendMessage(m) == Refuse(m) \/ Enqueue(m) \/ StartTurn(m)

(* The next message to be typed.  They are interchangeable, so the order   *)
(* in which they are used up is one fixed order.                           *)
NextNew == CHOOSE m \in Messages : pc[m] = "new"

(* A user sends a message.  Without EarlySend the loop of the last turn    *)
(* has ended by the time the session is not busy.                          *)
UserSends(m) ==
  /\ pc[m] = "new" /\ m = NextNew /\ ~destroying
  /\ EarlySend \/ isBusy \/ Live = {}
  /\ SendMessage(m)
  /\ accepted' = Append(accepted, m)
  /\ UNCHANGED <<asked, redispatch, stopVars, flagVars>>

(* The nextTick of dequeueNextOutgoing: it runs before any other event. *)
Redispatch ==
  /\ redispatch # NoTurn
  /\ redispatch' = NoTurn
  /\ SendMessage(redispatch)
  /\ UNCHANGED <<asked, stopVars, flagVars, accepted>>
----------------------------------------------------------------------------
(* The watchdog, its pauses and _clearMessageState.                        *)

ResetResultTimeout(m) == armed' = IF timeoutPaused THEN NoTurn ELSE m

(* BaseSession's part, then SdkSession's, with permissions.clearAll(). *)
BaseClearMessageState == isBusy' = FALSE /\ currentMessage' = NoTurn /\ armed' = NoTurn

ClearMessageState ==
  /\ BaseClearMessageState
  /\ prompts' = NoPrompts /\ pauseCount' = 0 /\ timeoutPaused' = FALSE
  /\ resetter' = NoTurn

(* Mutant: the timers keep running while a user is asked. *)
PauseOnlyCounts ==
  /\ pauseCount' = pauseCount + 1
  /\ timeoutPaused' = TRUE
  /\ UNCHANGED armed

PauseResultTimeout ==
  /\ pauseCount' = pauseCount + 1
  /\ timeoutPaused' = TRUE
  /\ armed' = IF pauseCount = 0 THEN NoTurn ELSE armed

(* Mutant: the last answer does not restart the clock. *)
ResumeWithoutRearm ==
  /\ pauseCount' = IF pauseCount = 0 THEN 0 ELSE pauseCount - 1
  /\ timeoutPaused' = IF pauseCount = 1 THEN FALSE ELSE timeoutPaused
  /\ UNCHANGED armed

ResumeResultTimeout ==
  /\ pauseCount' = IF pauseCount = 0 THEN 0 ELSE pauseCount - 1
  /\ timeoutPaused' = IF pauseCount = 1 THEN FALSE ELSE timeoutPaused
  /\ armed' = IF pauseCount = 1 /\ isBusy /\ resetter # NoTurn THEN resetter ELSE armed

(* canUseTool: the turn waits for a permission prompt. *)
PermissionRequest(m) ==
  /\ pc[m] = "streaming" /\ ~destroying
  /\ asked[m] < MaxPrompts
  /\ asked' = [asked EXCEPT ![m] = @ + 1]
  /\ prompts' = [prompts EXCEPT ![m] = @ + 1]
  /\ PauseResultTimeout
  /\ UNCHANGED <<pc, isBusy, currentMessage, query, resetter, queueVars, stopVars, flagVars, orderVars>>

(* The prompt is answered or times out: permission_resolved. *)
PermissionResolved(m) ==
  /\ prompts[m] > 0
  /\ prompts' = [prompts EXCEPT ![m] = @ - 1]
  /\ ResumeResultTimeout
  /\ UNCHANGED <<pc, asked, isBusy, currentMessage, query, resetter, queueVars, stopVars, flagVars, orderVars>>

(* Mutant: recovery re-sends a follow-up before the stalled query ended. *)
WatchdogDraining ==
  /\ armed # NoTurn
  /\ IF isBusy
     THEN /\ interrupted' = interrupted \cup ({query} \ {NoTurn})
          /\ ClearMessageState
          /\ redispatch' = IF outgoingQueue = <<>> THEN NoTurn ELSE Head(outgoingQueue)
          /\ outgoingQueue' = IF outgoingQueue = <<>> THEN <<>> ELSE Tail(outgoingQueue)
     ELSE /\ armed' = NoTurn
          /\ UNCHANGED <<interrupted, isBusy, currentMessage, resetter, prompts, pauseCount,
                         timeoutPaused, queueVars>>
  /\ UNCHANGED <<pc, query, asked, intentionalStop, flagVars, orderVars>>

(* _handleHardTimeout and _handleStreamStall: of an idle session nothing,  *)
(* else the active query is told to stop and the state is cleared.         *)
WatchdogFires ==
  /\ armed # NoTurn
  /\ IF isBusy
     THEN /\ interrupted' = interrupted \cup ({query} \ {NoTurn})
          /\ ClearMessageState
     ELSE /\ armed' = NoTurn
          /\ UNCHANGED <<interrupted, isBusy, currentMessage, resetter, prompts, pauseCount,
                         timeoutPaused>>
  /\ UNCHANGED <<pc, query, asked, queueVars, intentionalStop, flagVars, orderVars>>
----------------------------------------------------------------------------
(* The for-await loop of a turn, its catch and its finally.                *)

(* Any event of the query: activity. *)
SdkEvent(m) ==
  /\ pc[m] \in {"streaming", "resulted"} /\ ~destroying
  /\ ResetResultTimeout(m)
  /\ UNCHANGED <<pc, isBusy, currentMessage, query, asked, resetter, prompts, pauseCount,
                 timeoutPaused, queueVars, stopVars, flagVars, orderVars>>

(* The result arrives; the loop awaits getContextUsage. *)
ResultArrives(m) ==
  /\ pc[m] = "streaming" /\ ~destroying
  /\ ResetResultTimeout(m)
  /\ pc' = [pc EXCEPT ![m] = "snapshot"]
  /\ UNCHANGED <<isBusy, currentMessage, query, asked, resetter, prompts, pauseCount,
                 timeoutPaused, queueVars, stopVars, flagVars, orderVars>>

(* The result is broadcast and the session becomes idle. *)
EmitResult(m) ==
  /\ pc[m] = "snapshot"
  /\ pc' = [pc EXCEPT ![m] = "resulted"]
  /\ ClearMessageState
  /\ UNCHANGED <<query, asked, queueVars, stopVars, flagVars, orderVars>>

(* Mutant: the stop flag is left armed. *)
FinallyKeepingStop(m) ==
  /\ query' = NoTurn
  /\ pc' = [x \in Messages |-> IF x = m THEN "done"
                             ELSE IF outgoingQueue # <<>> /\ x = Head(outgoingQueue) THEN "due"
                             ELSE pc[x]]
  /\ IF outgoingQueue = <<>> THEN UNCHANGED queueVars
     ELSE redispatch' = Head(outgoingQueue) /\ outgoingQueue' = Tail(outgoingQueue)
  /\ UNCHANGED stopVars

(* Mutant: the newest follow-up is sent first. *)
FinallyTakingLast(m) ==
  LET last == outgoingQueue[Len(outgoingQueue)] IN
  /\ query' = NoTurn /\ intentionalStop' = FALSE
  /\ pc' = [x \in Messages |-> IF x = m THEN "done"
                             ELSE IF outgoingQueue # <<>> /\ x = last THEN "due" ELSE pc[x]]
  /\ IF outgoingQueue = <<>> THEN UNCHANGED queueVars
     ELSE /\ redispatch' = last
          /\ outgoingQueue' = SubSeq(outgoingQueue, 1, Len(outgoingQueue) - 1)
  /\ UNCHANGED interrupted

(* Mutant: no follow-up is sent when the turn was interrupted. *)
FinallyStrandingQueue(m) ==
  /\ query' = NoTurn /\ intentionalStop' = FALSE
  /\ pc' = [x \in Messages |-> IF x = m THEN "done"
                             ELSE IF outgoingQueue # <<>> /\ m \notin interrupted
                                     /\ x = Head(outgoingQueue) THEN "due"
                             ELSE pc[x]]
  /\ IF outgoingQueue = <<>> \/ m \in interrupted THEN UNCHANGED queueVars
     ELSE redispatch' = Head(outgoingQueue) /\ outgoingQueue' = Tail(outgoingQueue)
  /\ UNCHANGED interrupted

(* The finally block: the handle and the stop flag are dropped whoever set *)
(* them, and one follow-up is taken from the queue, or all are discarded.  *)
Finally(m) ==
  LET next == IF outgoingQueue = <<>> \/ destroying \/ stdinDisabled
              THEN NoTurn ELSE Head(outgoingQueue)
      discarded == IF stdinDisabled /\ ~destroying THEN Queued ELSE {}
  IN  /\ query' = NoTurn /\ intentionalStop' = FALSE
      /\ pc' = [x \in Messages |-> IF x = m THEN "done"
                                 ELSE IF x = next THEN "due"
                                 ELSE IF x \in discarded THEN "dropped" ELSE pc[x]]
      /\ redispatch' = next
      /\ outgoingQueue' = IF next # NoTurn THEN Tail(outgoingQueue)
                          ELSE IF discarded # {} THEN <<>> ELSE outgoingQueue
      /\ UNCHANGED interrupted

(* The query throws: an error, or the AbortError of an interrupt. *)
QueryThrows(m) ==
  /\ pc[m] \in {"streaming", "resulted"}
  /\ ClearMessageState
  /\ Finally(m)
  /\ UNCHANGED <<asked, flagVars, orderVars>>

(* The generator is done after the result, or the loop breaks on destroy. *)
QueryEnds(m) ==
  /\ pc[m] = "resulted" \/ (pc[m] = "streaming" /\ destroying)
  /\ Finally(m)
  /\ UNCHANGED <<asked, turnVars, flagVars, orderVars>>
----------------------------------------------------------------------------
(* The user's Stop, a cancelled follow-up, and the end of the session.     *)

(* Mutant: the handle is dropped as destroy() drops it. *)
InterruptDroppingHandle ==
  /\ ~destroying
  /\ pc' = [x \in Messages |-> IF x \in Queued THEN "dropped" ELSE pc[x]]
  /\ outgoingQueue' = <<>>
  /\ interrupted' = interrupted \cup ({query} \ {NoTurn})
  /\ intentionalStop' = (intentionalStop \/ query # NoTurn)
  /\ query' = NoTurn
  /\ UNCHANGED <<asked, turnVars, redispatch, flagVars, orderVars>>

(* interrupt(): the queue is cancelled and the active query told to stop. *)
Interrupt ==
  /\ ~destroying
  /\ pc' = [x \in Messages |-> IF x \in Queued THEN "dropped" ELSE pc[x]]
  /\ outgoingQueue' = <<>>
  /\ interrupted' = interrupted \cup ({query} \ {NoTurn})
  /\ intentionalStop' = (intentionalStop \/ query # NoTurn)
  /\ UNCHANGED <<query, asked, turnVars, redispatch, flagVars, orderVars>>

(* cancelQueuedMessage: the entry is spliced out of the queue. *)
CancelQueuedMessage(m) ==
  /\ \E i \in DOMAIN outgoingQueue :
       /\ outgoingQueue[i] = m
       /\ outgoingQueue' = [j \in 1 .. Len(outgoingQueue) - 1 |->
                              outgoingQueue[IF j < i THEN j ELSE j + 1]]
  /\ pc' = [pc EXCEPT ![m] = "dropped"]
  /\ UNCHANGED <<query, asked, turnVars, redispatch, stopVars, flagVars, orderVars>>

(* Docker sessions: the side-car's input is lost for good. *)
StdinDisabled ==
  /\ ~stdinDisabled /\ stdinDisabled' = TRUE
  /\ UNCHANGED <<pc, query, asked, turnVars, queueVars, stopVars, destroying, orderVars>>

Destroy ==
  /\ ~destroying /\ destroying' = TRUE
  /\ pc' = [x \in Messages |-> IF x \in Queued THEN "dropped" ELSE pc[x]]
  /\ outgoingQueue' = <<>>
  /\ interrupted' = interrupted \cup ({query} \ {NoTurn})
  /\ intentionalStop' = FALSE
  /\ query' = NoTurn
  /\ ClearMessageState
  /\ UNCHANGED <<asked, redispatch, stdinDisabled, orderVars>>
----------------------------------------------------------------------------
Turn(m) == \/ UserSends(m)
           \/ PermissionRequest(m) \/ PermissionResolved(m)
           \/ SdkEvent(m) \/ ResultArrives(m) \/ EmitResult(m)
           \/ QueryThrows(m) \/ QueryEnds(m)
           \/ CancelQueuedMessage(m)

Next == \/ Redispatch
        \/ /\ redispatch = NoTurn
           /\ \/ \E m \in Messages : Turn(m)
              \/ WatchdogFires
              \/ Interrupt
              \/ StdinDisabled
              \/ Destroy

Spec == Init /\ [][Next]_vars

(* A nextTick runs, timers fire, prompts end (PermissionManager), the      *)
(* context lookup is bounded by its timeout, the generator is done after   *)
(* the result, and a query that was told to stop throws or ends.  Nothing  *)
(* else is assumed of the agent: a turn need not send its result.          *)
Fairness ==
  /\ WF_vars(Redispatch)
  /\ WF_vars(WatchdogFires)
  /\ \A m \in Messages :
       /\ WF_vars(PermissionResolved(m))
       /\ WF_vars(EmitResult(m))
       /\ WF_vars(QueryEnds(m))
       /\ WF_vars(m \in interrupted /\ QueryThrows(m))

FairSpec == Spec /\ Fairness
----------------------------------------------------------------------------
(* Properties.                                                             *)

(* The state has the shape the code gives it, and the queue and the pause  *)
(* counter stay within their limits.                                       *)
TypeOK ==
  /\ pc \in [Messages -> States]
  /\ isBusy \in BOOLEAN /\ timeoutPaused \in BOOLEAN /\ intentionalStop \in BOOLEAN
  /\ stdinDisabled \in BOOLEAN /\ destroying \in BOOLEAN
  /\ {currentMessage, query, redispatch, resetter, armed} \subseteq Messages \cup {NoTurn}
  /\ outgoingQueue \in Seq(Messages) /\ Len(outgoingQueue) <= OutgoingQueueMax
  /\ asked \in [Messages -> 0..MaxPrompts]
  /\ prompts \in [Messages -> 0..MaxPrompts] /\ pauseCount \in 0..MaxPrompts
  /\ interrupted \subseteq Messages
  /\ accepted \in Seq(Messages) /\ started \in Seq(Messages)

(* One turn at a time: never two loops over two queries, even while a      *)
(* stalled or finished turn winds down and the queue is drained.           *)
OneTurnAtATime == \A m, n \in Live : m = n

Position(m) == CHOOSE i \in DOMAIN accepted : accepted[i] = m

(* A message never overtakes one the session took earlier: not a message   *)
(* typed the moment a turn ends, nor one re-queued by a drain.             *)
FirstComeFirstServed ==
  \A i, j \in DOMAIN started : i < j => Position(started[i]) < Position(started[j])

(* A busy session is always watched: its watchdog is armed for the turn it *)
(* is busy with, or a prompt is open whose end will arm it.                *)
BusyIsWatched ==
  isBusy => armed = currentMessage \/ (timeoutPaused /\ \E m \in Messages : prompts[m] > 0)

(* Waiting for the user is not inactivity: no timer runs during a prompt.  *)
PromptStopsTheClock ==
  (\E m \in Messages : prompts[m] > 0) => armed = NoTurn

(* Stop, destroy and the watchdog reach the turn the session is busy with. *)
StopReachesTheTurn == isBusy => query = currentMessage

(* The stop flag never outlives the turn it was meant for, or a later      *)
(* crash would be reported as the user's own stop.                         *)
StopFlagIsFresh == intentionalStop => \E m \in Live : m \in interrupted

(* A queued message is sent or visibly dropped, even if the agent never    *)
(* answers the turn that runs.                                             *)
FollowUpsAreHandled ==
  \A m \in Messages : pc[m] = "queued" ~> pc[m] \notin {"queued", "due"}

(* A busy session becomes idle: a turn that hangs is ended by a watchdog,  *)
(* whatever prompts paused it.                                             *)
BusyEnds == isBusy ~> ~isBusy

(* What a message is to its sender: it waits in the queue or in flight to  *)
(* its turn, and is served while the loop of its turn runs.                *)
StageOf(m) == CASE pc[m] \in {"queued", "due"} -> "waiting"
                [] m \in Live -> "served"
                [] pc[m] = "done" -> "over"
                [] OTHER -> pc[m]

(* Implementation of TurnLine: each message is taken, served and dropped at *)
(* most once, and without EarlySend one is served at a time and none        *)
(* overtakes another, whatever becomes of queues, drains and stops.         *)
Line == INSTANCE TurnLine WITH Orderly <- ~EarlySend, taken <- accepted,
                               stage <- [m \in Messages |-> StageOf(m)]

LineSpec == Line!Spec
=============================================================================
