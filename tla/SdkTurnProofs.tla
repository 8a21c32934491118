--------------------------- MODULE SdkTurnProofs ---------------------------
(***************************************************************************)
(* Proofs about SdkTurn for any messages, queue limit and number of        *)
(* prompts.                                                                *)
(*                                                                         *)
(* LooseInv holds whenever users send: the queue names what waits, and the *)
(* pause counts the open prompts, of whichever turn.                       *)
(*                                                                         *)
(* Inv and OrderInv hold if a user sends only while a turn is busy or      *)
(* after its loop has ended (~EarlySend).  The loop of a turn outlives its *)
(* busy flag, so Inv ties the flag, the query handle and the installed     *)
(* watchdog closure to the one loop that runs, and says that between two   *)
(* loops a follow-up is in flight or the queue is empty: whoever starts a  *)
(* turn meets no other.                                                    *)
(***************************************************************************)
EXTENDS SdkTurn, TLAPS, FiniteSetTheorems, SequenceTheorems

Turns == Messages \cup {NoTurn}

FlagsOK ==
  /\ isBusy \in BOOLEAN /\ timeoutPaused \in BOOLEAN /\ intentionalStop \in BOOLEAN
  /\ stdinDisabled \in BOOLEAN /\ destroying \in BOOLEAN

BaseOK ==
  /\ pc \in [Messages -> States]
  /\ currentMessage \in Turns /\ query \in Turns /\ redispatch \in Turns
  /\ resetter \in Turns /\ armed \in Turns
  /\ asked \in [Messages -> 0..MaxPrompts]
  /\ prompts \in [Messages -> Nat] /\ pauseCount \in Nat
  /\ interrupted \subseteq Messages

(* The session is busy with the loop that runs, or with none. *)
LoopOK ==
  /\ OneTurnAtATime
  /\ query # NoTurn => query \in Live
  /\ isBusy => /\ currentMessage \in Live /\ pc[currentMessage] # "resulted"
               /\ query = currentMessage /\ resetter = currentMessage /\ ~destroying
  /\ ~isBusy => currentMessage = NoTurn /\ resetter = NoTurn

(* The open prompts are those of the loop that runs, and the pause counts  *)
(* them.                                                                   *)
PromptsOK ==
  /\ \A m \in Messages : prompts[m] = IF m \in Live THEN pauseCount ELSE 0
  /\ \A m \in Messages : prompts[m] <= asked[m]
  /\ Live = {} => pauseCount = 0
  /\ destroying => pauseCount = 0
  /\ \A m \in Messages : pc[m] = "resulted" => pauseCount = 0
  /\ timeoutPaused <=> pauseCount > 0
  /\ pauseCount > 0 => armed = NoTurn
  /\ isBusy => armed = currentMessage \/ pauseCount > 0

(* The queue names each waiting message once; between two loops it is      *)
(* empty or its head is in flight.                                         *)
QueueOK ==
  /\ outgoingQueue \in Seq(Messages) /\ Len(outgoingQueue) <= OutgoingQueueMax
  /\ \A i \in 1..Len(outgoingQueue) : pc[outgoingQueue[i]] = "queued"
  /\ \A i, j \in 1..Len(outgoingQueue) : outgoingQueue[i] = outgoingQueue[j] => i = j
  /\ redispatch # NoTurn => pc[redispatch] = "due" /\ Live = {} /\ ~destroying
  /\ redispatch = NoTurn /\ Live = {} => outgoingQueue = <<>>
  /\ destroying => outgoingQueue = <<>>

StopOK == intentionalStop => query # NoTurn /\ query \in interrupted

Inv == FlagsOK /\ BaseOK /\ LoopOK /\ PromptsOK /\ QueueOK /\ StopOK

USE SdkTurnAssumption DEF SdkTurnAssumption
-----------------------------------------------------------------------------
(* Whatever users send, and when: also while the loop of an ended turn     *)
(* still runs.                                                             *)

(* The queue names each waiting message once. *)
LineOK ==
  /\ outgoingQueue \in Seq(Messages) /\ Len(outgoingQueue) <= OutgoingQueueMax
  /\ \A i \in 1..Len(outgoingQueue) : pc[outgoingQueue[i]] = "queued"
  /\ \A i, j \in 1..Len(outgoingQueue) : outgoingQueue[i] = outgoingQueue[j] => i = j
  /\ redispatch # NoTurn => pc[redispatch] = "due"

(* The handle is that of a loop that runs. *)
HandleOK == /\ query # NoTurn => query \in Live
            /\ StopFlagIsFresh

(* The prompts that are open, numbered within their turn: the pause counts *)
(* them, whichever turns they are of.                                      *)
OpenPrompts == {p \in Messages \X (Nat \ {0}) : p[2] <= prompts[p[1]]}

PauseOK == /\ IsFiniteSet(OpenPrompts) /\ Cardinality(OpenPrompts) = pauseCount
           /\ timeoutPaused <=> pauseCount > 0
           /\ pauseCount > 0 => armed = NoTurn

LooseInv == FlagsOK /\ BaseOK /\ LineOK /\ HandleOK /\ PauseOK

(* Messages leave the queue as a whole, or one that is not in it moves. *)
LEMMA LineKept ==
  ASSUME FlagsOK, BaseOK, LineOK, pc' \in [Messages -> States],
         redispatch' # NoTurn => pc'[redispatch'] = "due",
         \/ outgoingQueue' = <<>>
         \/ /\ outgoingQueue' = outgoingQueue
            /\ \A x \in Messages : pc[x] = "queued" => pc'[x] = "queued"
  PROVE  LineOK'
<1>1. CASE outgoingQueue' = <<>>
  BY <1>1 DEF LineOK
<1>2. CASE /\ outgoingQueue' = outgoingQueue
           /\ \A x \in Messages : pc[x] = "queued" => pc'[x] = "queued"
  <2>1. \A i \in 1..Len(outgoingQueue) : outgoingQueue[i] \in Messages
    BY ElementOfSeq DEF LineOK
  <2> QED
    BY <1>2, <2>1 DEF LineOK
<1> QED
  BY <1>1, <1>2

(* A message that was not in the queue is appended to it. *)
LEMMA LineAppend ==
  ASSUME BaseOK, LineOK, NEW m \in Messages, pc[m] # "queued",
         ~(Len(outgoingQueue) >= OutgoingQueueMax),
         pc' = [pc EXCEPT ![m] = "queued"], outgoingQueue' = Append(outgoingQueue, m),
         redispatch' # NoTurn => redispatch' = redispatch /\ redispatch # m
  PROVE  LineOK'
<1>1. /\ outgoingQueue \in Seq(Messages) /\ pc \in [Messages -> States]
      /\ redispatch \in Turns
  BY DEF LineOK, BaseOK
<1>2. /\ outgoingQueue' \in Seq(Messages) /\ Len(outgoingQueue') = Len(outgoingQueue) + 1
      /\ Len(outgoingQueue) \in Nat /\ outgoingQueue'[Len(outgoingQueue) + 1] = m
      /\ \A i \in 1..Len(outgoingQueue) :
           outgoingQueue'[i] = outgoingQueue[i] /\ outgoingQueue[i] \in Messages
  BY <1>1, AppendProperties, LenProperties, ElementOfSeq
<1>3. \A i \in 1..Len(outgoingQueue) : outgoingQueue[i] # m /\ pc[outgoingQueue[i]] = "queued"
  BY DEF LineOK
<1>4. \A i \in 1..Len(outgoingQueue') : i \in 1..Len(outgoingQueue) \/ i = Len(outgoingQueue) + 1
  BY <1>2
<1>5. \A i \in 1..Len(outgoingQueue') : pc'[outgoingQueue'[i]] = "queued"
  BY <1>1, <1>2, <1>3, <1>4
<1>6. \A i, j \in 1..Len(outgoingQueue') : outgoingQueue'[i] = outgoingQueue'[j] => i = j
  BY <1>2, <1>3, <1>4 DEF LineOK
<1>7. redispatch' # NoTurn => pc'[redispatch'] = "due"
  BY <1>1 DEF LineOK, Turns
<1> QED
  BY <1>2, <1>5, <1>6, <1>7 DEF LineOK

(* A client removes a message from the queue. *)
LEMMA LineCancel ==
  ASSUME BaseOK, LineOK, NEW m \in Messages, CancelQueuedMessage(m)
  PROVE  LineOK' /\ pc[m] = "queued"
<1>1. /\ outgoingQueue \in Seq(Messages) /\ pc \in [Messages -> States]
      /\ redispatch \in Turns /\ Len(outgoingQueue) \in Nat
  BY LenProperties DEF LineOK, BaseOK
<1>2. PICK i \in 1..Len(outgoingQueue) :
        /\ outgoingQueue[i] = m
        /\ outgoingQueue' = [j \in 1 .. Len(outgoingQueue) - 1 |->
                               outgoingQueue[IF j < i THEN j ELSE j + 1]]
  BY <1>1, LenProperties DEF CancelQueuedMessage
<1>3. pc' = [pc EXCEPT ![m] = "dropped"] /\ redispatch' = redispatch
  BY DEF CancelQueuedMessage, queueVars
<1> DEFINE N == Len(outgoingQueue) - 1
           at(j) == IF j < i THEN j ELSE j + 1
<1>4. /\ N \in Nat
      /\ \A j \in 1..N : at(j) \in 1..Len(outgoingQueue) /\ at(j) # i
      /\ \A j, k \in 1..N : at(j) = at(k) => j = k
  BY <1>1
<1>5. outgoingQueue' = [j \in 1..N |-> outgoingQueue[at(j)]]
  BY <1>2
<1> HIDE DEF N, at
<1>6. \A j \in 1..N : outgoingQueue'[j] = outgoingQueue[at(j)] /\ outgoingQueue[at(j)] \in Messages
  BY <1>1, <1>4, <1>5, ElementOfSeq
<1>7. outgoingQueue' \in Seq(Messages) /\ Len(outgoingQueue') = N
  <2>1. outgoingQueue' \in [1..N -> Messages]
    BY <1>4, <1>5, <1>6
  <2> QED
    BY <1>4, <1>5, <2>1, IsASeq, LenProperties
<1>8. \A j \in 1..N : pc'[outgoingQueue'[j]] = "queued"
  <2> SUFFICES ASSUME NEW j \in 1..N PROVE pc'[outgoingQueue'[j]] = "queued"
    OBVIOUS
  <2>1. outgoingQueue[at(j)] # m
    BY <1>2, <1>4 DEF LineOK
  <2>2. pc[outgoingQueue[at(j)]] = "queued"
    BY <1>4 DEF LineOK
  <2> QED
    BY <1>1, <1>3, <1>6, <2>1, <2>2
<1>9. \A j, k \in 1..N : outgoingQueue'[j] = outgoingQueue'[k] => j = k
  BY <1>4, <1>6 DEF LineOK
<1>10. pc[m] = "queued"
  BY <1>2 DEF LineOK
<1>11. redispatch' # NoTurn => pc'[redispatch'] = "due"
  BY <1>1, <1>3, <1>10 DEF LineOK, Turns
<1>12. Len(outgoingQueue') <= OutgoingQueueMax
  <2>1. N <= Len(outgoingQueue)
    BY <1>1 DEF N
  <2>2. Len(outgoingQueue) <= OutgoingQueueMax
    BY DEF LineOK
  <2> QED
    BY <1>1, <1>4, <1>7, <2>1, <2>2
<1> QED
  BY <1>7, <1>8, <1>9, <1>10, <1>11, <1>12 DEF LineOK

(* What the finally block of any loop leaves. *)
LEMMA FinallyLoose ==
  ASSUME FlagsOK, BaseOK, LineOK, NEW m \in Live, Finally(m)
  PROVE  /\ query' = NoTurn /\ ~intentionalStop' /\ interrupted' = interrupted
         /\ pc' \in [Messages -> States] /\ redispatch' \in Turns
         /\ LineOK'
<1> DEFINE next == IF outgoingQueue = <<>> \/ destroying \/ stdinDisabled
                   THEN NoTurn ELSE Head(outgoingQueue)
           discarded == IF stdinDisabled /\ ~destroying THEN Queued ELSE {}
<1>1. /\ query' = NoTurn /\ intentionalStop' = FALSE /\ interrupted' = interrupted
      /\ pc' = [x \in Messages |-> IF x = m THEN "done"
                                 ELSE IF x = next THEN "due"
                                 ELSE IF x \in discarded THEN "dropped" ELSE pc[x]]
      /\ redispatch' = next
      /\ outgoingQueue' = IF next # NoTurn THEN Tail(outgoingQueue)
                          ELSE IF discarded # {} THEN <<>> ELSE outgoingQueue
  BY DEF Finally
<1>2. /\ outgoingQueue \in Seq(Messages) /\ pc \in [Messages -> States]
      /\ m \in Messages /\ pc[m] # "queued"
  BY DEF LineOK, BaseOK, Live
<1>3. outgoingQueue # <<>> =>
        /\ Head(outgoingQueue) = outgoingQueue[1] /\ outgoingQueue[1] \in Messages
        /\ 1 \in 1..Len(outgoingQueue)
        /\ Tail(outgoingQueue) \in Seq(Messages)
        /\ Len(Tail(outgoingQueue)) = Len(outgoingQueue) - 1
        /\ \A i \in 1..Len(Tail(outgoingQueue)) :
             Tail(outgoingQueue)[i] = outgoingQueue[i + 1] /\ i + 1 \in 2..Len(outgoingQueue)
  BY <1>2, HeadTailProperties, LenProperties, ElementOfSeq, EmptySeq
<1>4. next \in Turns /\ pc' \in [Messages -> States]
  BY <1>1, <1>2, <1>3 DEF Turns, States
<1>5. CASE next = NoTurn
  <2>1. discarded = {} => \A x \in Messages : pc[x] = "queued" => pc'[x] = "queued"
    BY <1>1, <1>2, <1>5
  <2> HIDE DEF discarded
  <2> QED
    BY <1>1, <1>4, <1>5, <2>1, LineKept
<1>6. CASE next # NoTurn
  <2>1. outgoingQueue # <<>> /\ next = outgoingQueue[1] /\ discarded = {}
    BY <1>3, <1>6
  <2>2. outgoingQueue' = Tail(outgoingQueue) /\ redispatch' = outgoingQueue[1]
        /\ pc' = [x \in Messages |-> IF x = m THEN "done"
                                 ELSE IF x = outgoingQueue[1] THEN "due" ELSE pc[x]]
    BY <1>1, <1>6, <2>1
  <2> HIDE DEF next, discarded
  <2>3. outgoingQueue[1] # m /\ pc'[outgoingQueue[1]] = "due"
    BY <1>2, <1>3, <2>1, <2>2 DEF LineOK
  <2>4. \A i \in 1..Len(outgoingQueue') : /\ outgoingQueue'[i] = outgoingQueue[i + 1]
                                          /\ i + 1 \in 2..Len(outgoingQueue)
    BY <1>3, <2>1, <2>2
  <2>5. Len(outgoingQueue) \in Nat /\ Len(outgoingQueue) <= OutgoingQueueMax
        /\ Len(outgoingQueue') = Len(outgoingQueue) - 1 /\ outgoingQueue' \in Seq(Messages)
    BY <1>2, <1>3, <2>1, <2>2, LenProperties DEF LineOK
  <2>6. \A i \in 1..Len(outgoingQueue') : pc'[outgoingQueue'[i]] = "queued"
    <3> SUFFICES ASSUME NEW i \in 1..Len(outgoingQueue') PROVE pc'[outgoingQueue'[i]] = "queued"
      OBVIOUS
    <3>1. i + 1 \in 1..Len(outgoingQueue) /\ 1 \in 1..Len(outgoingQueue) /\ i + 1 # 1
      BY <2>4, <2>5
    <3>2. /\ outgoingQueue[i + 1] \in Messages /\ pc[outgoingQueue[i + 1]] = "queued"
          /\ outgoingQueue[i + 1] # outgoingQueue[1]
      BY <1>2, <3>1, ElementOfSeq DEF LineOK
    <3> QED
      BY <1>2, <2>2, <2>4, <3>2
  <2>7. \A i, j \in 1..Len(outgoingQueue') : outgoingQueue'[i] = outgoingQueue'[j] => i = j
    <3> SUFFICES ASSUME NEW i \in 1..Len(outgoingQueue'), NEW j \in 1..Len(outgoingQueue'),
                        outgoingQueue[i + 1] = outgoingQueue[j + 1]
                 PROVE  i = j
      BY <2>4
    <3>1. i + 1 \in 1..Len(outgoingQueue) /\ j + 1 \in 1..Len(outgoingQueue)
      BY <2>4, <2>5
    <3>2. i + 1 = j + 1
      BY <3>1 DEF LineOK
    <3> QED
      BY <3>2
  <2>8. LineOK'
    BY <2>2, <2>3, <2>5, <2>6, <2>7 DEF LineOK
  <2> QED
    BY <1>1, <1>4, <2>8 DEF next
<1> QED
  BY <1>5, <1>6

(* A message that is sent, by a user or again from the queue. *)
LEMMA SendLoose ==
  ASSUME FlagsOK, BaseOK, LineOK, HandleOK,
         NEW m \in Messages, pc[m] \in {"new", "due"}, SendMessage(m),
         redispatch \in {NoTurn, m}, redispatch' = NoTurn,
         UNCHANGED <<asked, stopVars, flagVars>>
  PROVE  /\ pc' \in [Messages -> States] /\ query' \in Turns
         /\ LineOK' /\ HandleOK'
<1>1. /\ pc \in [Messages -> States] /\ query \in Turns
      /\ \A x \in Queued : pc[x] = "queued"
  BY LenProperties DEF BaseOK, LineOK, Queued
<1>2. UNCHANGED <<interrupted, intentionalStop>>
  BY DEF stopVars
<1>3. CASE Refuse(m)
  <2>1. /\ pc' = [x \in Messages |-> IF x \in Queued \cup {m} THEN "dropped" ELSE pc[x]]
        /\ outgoingQueue' = <<>> /\ query' = query
    BY <1>3 DEF Refuse
  <2>2. pc' \in [Messages -> States]
    BY <1>1, <2>1 DEF States
  <2>3. Live' = Live
    BY <1>1, <2>1 DEF Live
  <2>4. LineOK'
    BY <2>1, <2>2, LineKept
  <2> QED
    BY <1>1, <1>2, <2>1, <2>2, <2>3, <2>4 DEF HandleOK, StopFlagIsFresh
<1>4. CASE Enqueue(m)
  <2>1. query' = query
        /\ \/ pc' = [pc EXCEPT ![m] = "dropped"] /\ outgoingQueue' = outgoingQueue
           \/ /\ ~(Len(outgoingQueue) >= OutgoingQueueMax)
              /\ pc' = [pc EXCEPT ![m] = "queued"]
              /\ outgoingQueue' = Append(outgoingQueue, m)
    BY <1>4 DEF Enqueue
  <2>2. pc' \in [Messages -> States] /\ Live' = Live
    BY <1>1, <2>1 DEF States, Live
  <2>3. LineOK'
    <3>1. CASE pc' = [pc EXCEPT ![m] = "dropped"] /\ outgoingQueue' = outgoingQueue
      <4>1. \A x \in Messages : pc[x] = "queued" => pc'[x] = "queued"
        BY <1>1, <3>1
      <4> QED
        BY <2>2, <3>1, <4>1, LineKept
    <3>2. CASE /\ ~(Len(outgoingQueue) >= OutgoingQueueMax)
               /\ pc' = [pc EXCEPT ![m] = "queued"]
               /\ outgoingQueue' = Append(outgoingQueue, m)
      BY <3>2, LineAppend
    <3> QED
      BY <2>1, <3>1, <3>2
  <2> QED
    BY <1>1, <1>2, <2>1, <2>2, <2>3 DEF HandleOK, StopFlagIsFresh
<1>5. CASE StartTurn(m)
  <2>1. pc' = [pc EXCEPT ![m] = "streaming"] /\ query' = m /\ outgoingQueue' = outgoingQueue
    BY <1>5 DEF StartTurn
  <2>2. pc' \in [Messages -> States] /\ Live' = Live \cup {m} /\ query' \in Turns
    BY <1>1, <2>1 DEF States, Live, Turns
  <2>3. \A x \in Messages : pc[x] = "queued" => pc'[x] = "queued"
    BY <1>1, <2>1
  <2>4. LineOK'
    BY <2>1, <2>2, <2>3, LineKept
  <2> QED
    BY <1>2, <2>1, <2>2, <2>4 DEF HandleOK, StopFlagIsFresh
<1> QED
  BY <1>3, <1>4, <1>5 DEF SendMessage

(* A step leaves the prompts and the pause alone, or ends them all. *)
Untouched == UNCHANGED <<prompts, pauseCount, timeoutPaused>>

Cleared == prompts' = NoPrompts /\ pauseCount' = 0 /\ timeoutPaused' = FALSE /\ armed' = NoTurn

(* What a step does to the prompts, the pause and the watchdog: it disarms *)
(* the watchdog, arms it while nothing pauses it, clears everything, or    *)
(* opens or ends a prompt.                                                 *)
LEMMA TimerMoves ==
  ASSUME FlagsOK, BaseOK, [Next]_vars
  PROVE  \/ Untouched /\ armed' \in {armed, NoTurn}
         \/ Untouched /\ ~timeoutPaused /\ armed' \in Messages
         \/ Cleared
         \/ \E m \in Messages : PermissionRequest(m) \/ PermissionResolved(m)
<1>1. ASSUME NEW m \in Turns, SendMessage(m), m \in Messages
      PROVE  Untouched /\ (armed' \in {armed, NoTurn} \/ (~timeoutPaused /\ armed' \in Messages))
  BY <1>1 DEF SendMessage, Refuse, Enqueue, StartTurn, turnVars, Untouched, FlagsOK
<1>2. ASSUME NEW m \in Messages, UserSends(m)
      PROVE  Untouched /\ (armed' \in {armed, NoTurn} \/ (~timeoutPaused /\ armed' \in Messages))
  BY <1>1, <1>2 DEF UserSends, Turns
<1>3. CASE Redispatch
  BY <1>1, <1>3 DEF Redispatch, Turns, BaseOK
<1>4. ASSUME NEW m \in Messages, SdkEvent(m) \/ ResultArrives(m)
      PROVE  Untouched /\ (armed' \in {armed, NoTurn} \/ (~timeoutPaused /\ armed' \in Messages))
  BY <1>4 DEF SdkEvent, ResultArrives, ResetResultTimeout, Untouched, FlagsOK
<1>5. ASSUME NEW m \in Messages, EmitResult(m) \/ QueryThrows(m)
      PROVE  Cleared
  BY <1>5 DEF EmitResult, QueryThrows, ClearMessageState, BaseClearMessageState, Cleared
<1>6. ASSUME NEW m \in Messages, QueryEnds(m) \/ CancelQueuedMessage(m)
      PROVE  Untouched /\ armed' = armed
  BY <1>6 DEF QueryEnds, CancelQueuedMessage, turnVars, Untouched
<1>7. CASE WatchdogFires
  BY <1>7 DEF WatchdogFires, ClearMessageState, BaseClearMessageState, Cleared, Untouched
<1>8. CASE Interrupt \/ StdinDisabled \/ UNCHANGED vars
  BY <1>8 DEF Interrupt, StdinDisabled, vars, turnVars, Untouched
<1>9. CASE Destroy
  BY <1>9 DEF Destroy, ClearMessageState, BaseClearMessageState, Cleared
<1> QED
  BY <1>2, <1>3, <1>4, <1>5, <1>6, <1>7, <1>8, <1>9 DEF Next, Turn

(* The pause counts the open prompts, and stops the clock while it is not  *)
(* zero.                                                                   *)
LEMMA PauseStep ==
  ASSUME FlagsOK, BaseOK, PauseOK, [Next]_vars
  PROVE  /\ PauseOK' /\ prompts' \in [Messages -> Nat] /\ pauseCount' \in Nat
         /\ timeoutPaused' \in BOOLEAN /\ armed' \in Turns
<1>1. /\ prompts \in [Messages -> Nat] /\ pauseCount \in Nat /\ armed \in Turns
      /\ timeoutPaused \in BOOLEAN /\ resetter \in Turns
  BY DEF BaseOK, FlagsOK
<1>2. CASE Untouched /\ armed' \in {armed, NoTurn}
  <2>1. OpenPrompts' = OpenPrompts
    BY <1>2 DEF OpenPrompts, Untouched
  <2> QED
    BY <1>1, <1>2, <2>1 DEF PauseOK, Untouched, Turns
<1>3. CASE Untouched /\ ~timeoutPaused /\ armed' \in Messages
  <2>1. OpenPrompts' = OpenPrompts
    BY <1>3 DEF OpenPrompts, Untouched
  <2> QED
    BY <1>1, <1>3, <2>1 DEF PauseOK, Untouched, Turns
<1>4. CASE Cleared
  <2>1. OpenPrompts' = {}
    BY <1>4 DEF OpenPrompts, Cleared, NoPrompts
  <2>2. NoPrompts \in [Messages -> Nat]
    BY DEF NoPrompts
  <2>3. IsFiniteSet(OpenPrompts') /\ Cardinality(OpenPrompts') = 0
    BY <2>1, FS_EmptySet
  <2>4. /\ prompts' \in [Messages -> Nat] /\ pauseCount' = 0 /\ timeoutPaused' = FALSE
        /\ armed' = NoTurn
    BY <1>4, <2>2 DEF Cleared
  <2>5. PauseOK'
    BY <2>3, <2>4 DEF PauseOK
  <2> QED
    BY <2>4, <2>5 DEF Turns
<1>5. ASSUME NEW m \in Messages, PermissionRequest(m)
      PROVE  /\ PauseOK' /\ prompts' \in [Messages -> Nat] /\ pauseCount' \in Nat
             /\ timeoutPaused' \in BOOLEAN /\ armed' \in Turns
  <2>1. /\ prompts' = [prompts EXCEPT ![m] = @ + 1] /\ pauseCount' = pauseCount + 1
        /\ timeoutPaused' = TRUE /\ armed' = IF pauseCount = 0 THEN NoTurn ELSE armed
    BY <1>5 DEF PermissionRequest, PauseResultTimeout
  <2> DEFINE p == <<m, prompts[m] + 1>>
  <2>2. OpenPrompts' = OpenPrompts \cup {p} /\ p \notin OpenPrompts
    BY <1>1, <2>1 DEF OpenPrompts
  <2> HIDE DEF p
  <2>3. IsFiniteSet(OpenPrompts') /\ Cardinality(OpenPrompts') = pauseCount + 1
    BY <2>2, FS_AddElement DEF PauseOK
  <2> QED
    BY <1>1, <2>1, <2>3 DEF PauseOK, Turns
<1>6. ASSUME NEW m \in Messages, PermissionResolved(m)
      PROVE  /\ PauseOK' /\ prompts' \in [Messages -> Nat] /\ pauseCount' \in Nat
             /\ timeoutPaused' \in BOOLEAN /\ armed' \in Turns
  <2>1. /\ prompts[m] > 0 /\ prompts' = [prompts EXCEPT ![m] = @ - 1]
        /\ pauseCount' = IF pauseCount = 0 THEN 0 ELSE pauseCount - 1
        /\ timeoutPaused' = IF pauseCount = 1 THEN FALSE ELSE timeoutPaused
        /\ armed' = IF pauseCount = 1 /\ isBusy /\ resetter # NoTurn THEN resetter ELSE armed
    BY <1>6 DEF PermissionResolved, ResumeResultTimeout
  <2> DEFINE p == <<m, prompts[m]>>
  <2>2. OpenPrompts' = OpenPrompts \ {p} /\ p \in OpenPrompts
    BY <1>1, <2>1 DEF OpenPrompts
  <2> HIDE DEF p
  <2>3. IsFiniteSet(OpenPrompts') /\ Cardinality(OpenPrompts') = pauseCount - 1
    BY <2>2, FS_RemoveElement DEF PauseOK
  <2>4. pauseCount # 0
    BY <2>2, FS_EmptySet DEF PauseOK
  <2>5. prompts' \in [Messages -> Nat]
    BY <1>1, <2>1
  <2>6. pauseCount' = pauseCount - 1 /\ pauseCount' \in Nat
    BY <1>1, <2>1, <2>4
  <2>7. timeoutPaused /\ armed = NoTurn
    BY <1>1, <2>4 DEF PauseOK
  <2>8. timeoutPaused' \in BOOLEAN /\ (timeoutPaused' <=> pauseCount' > 0)
    BY <1>1, <2>1, <2>4, <2>6, <2>7
  <2>9. armed' \in Turns /\ (pauseCount' > 0 => armed' = NoTurn)
    BY <1>1, <2>1, <2>6, <2>7 DEF Turns
  <2> QED
    BY <2>3, <2>5, <2>6, <2>8, <2>9 DEF PauseOK
<1> QED
  BY <1>2, <1>3, <1>4, <1>5, <1>6, TimerMoves

(* Every step keeps the rest. *)
LEMMA LooseStep ==
  ASSUME LooseInv, [Next]_vars
  PROVE  LooseInv'
<1> DEFINE Rest == /\ pc' \in [Messages -> States] /\ query' \in Turns /\ redispatch' \in Turns
                   /\ interrupted' \subseteq Messages /\ intentionalStop' \in BOOLEAN
                   /\ LineOK' /\ HandleOK'
           Flags == /\ isBusy' \in BOOLEAN /\ currentMessage' \in Turns /\ resetter' \in Turns
                    /\ stdinDisabled' \in BOOLEAN /\ destroying' \in BOOLEAN
                    /\ asked' \in [Messages -> 0..MaxPrompts]
<1>0. FlagsOK /\ BaseOK /\ LineOK /\ HandleOK /\ PauseOK
  BY DEF LooseInv
<1>1. /\ pc \in [Messages -> States] /\ query \in Turns /\ redispatch \in Turns
      /\ interrupted \subseteq Messages /\ intentionalStop \in BOOLEAN
      /\ \A x \in Queued : pc[x] = "queued"
  BY <1>0, LenProperties DEF BaseOK, FlagsOK, LineOK, Queued
<1>2. ASSUME NEW m \in Messages, redispatch = NoTurn, UserSends(m) PROVE Rest
  <2>1. /\ pc[m] = "new" /\ SendMessage(m) /\ redispatch' = redispatch
        /\ UNCHANGED <<asked, stopVars, flagVars, interrupted, intentionalStop>>
    BY <1>2 DEF UserSends, stopVars
  <2> QED
    BY <1>0, <1>1, <1>2, <2>1, SendLoose
<1>3. ASSUME Redispatch PROVE Rest
  <2>1. /\ redispatch # NoTurn /\ redispatch' = NoTurn /\ SendMessage(redispatch)
        /\ UNCHANGED <<asked, stopVars, flagVars, interrupted, intentionalStop>>
    BY <1>3 DEF Redispatch, stopVars
  <2>2. redispatch \in Messages /\ pc[redispatch] = "due"
    BY <1>0, <1>1, <2>1 DEF LineOK, Turns
  <2>3. pc' \in [Messages -> States] /\ query' \in Turns /\ LineOK' /\ HandleOK'
    BY <1>0, <2>1, <2>2, SendLoose
  <2> QED
    BY <1>1, <2>1, <2>3 DEF Turns
<1>4. ASSUME UNCHANGED <<pc, query, redispatch, outgoingQueue, interrupted, intentionalStop>>
      PROVE  Rest
  <2>1. Live' = Live
    BY <1>4 DEF Live
  <2> QED
    BY <1>0, <1>1, <1>4, <2>1 DEF LineOK, HandleOK, StopFlagIsFresh
<1>5. ASSUME NEW m \in Messages, ResultArrives(m) \/ EmitResult(m) PROVE Rest
  <2>1. /\ m \in Live /\ UNCHANGED <<query, redispatch, outgoingQueue, interrupted, intentionalStop>>
        /\ pc' = [pc EXCEPT ![m] = "snapshot"] \/ pc' = [pc EXCEPT ![m] = "resulted"]
    BY <1>5 DEF ResultArrives, EmitResult, queueVars, stopVars, Live
  <2>2. /\ pc' \in [Messages -> States] /\ Live' = Live
        /\ \A x \in Messages : pc[x] \in {"queued", "due"} => pc'[x] = pc[x]
    BY <1>1, <2>1 DEF States, Live
  <2>3. LineOK'
    <3>1. redispatch' # NoTurn => pc'[redispatch'] = "due"
      BY <1>0, <1>1, <2>1, <2>2 DEF LineOK, Turns
    <3>2. /\ outgoingQueue' = outgoingQueue
          /\ \A x \in Messages : pc[x] = "queued" => pc'[x] = "queued"
      BY <2>1, <2>2
    <3> QED
      BY <1>0, <2>2, <3>1, <3>2, LineKept
  <2> QED
    BY <1>0, <1>1, <2>1, <2>2, <2>3 DEF HandleOK, StopFlagIsFresh
<1>6. ASSUME NEW m \in Messages, QueryThrows(m) \/ QueryEnds(m) PROVE Rest
  <2>1. Finally(m) /\ m \in Live
    BY <1>6 DEF QueryThrows, QueryEnds, Live
  <2>2. /\ query' = NoTurn /\ ~intentionalStop' /\ interrupted' = interrupted
        /\ pc' \in [Messages -> States] /\ redispatch' \in Turns /\ LineOK'
    BY <1>0, <2>1, FinallyLoose
  <2>3. intentionalStop' = FALSE
    BY <2>1 DEF Finally
  <2>4. HandleOK'
    BY <2>2 DEF HandleOK, StopFlagIsFresh
  <2> QED
    BY <1>1, <2>2, <2>3, <2>4 DEF Turns
<1>7. ASSUME NEW m \in Messages, CancelQueuedMessage(m) PROVE Rest
  <2>1. /\ pc' = [pc EXCEPT ![m] = "dropped"]
        /\ UNCHANGED <<query, redispatch, interrupted, intentionalStop>>
    BY <1>7 DEF CancelQueuedMessage, stopVars
  <2>2. LineOK' /\ pc[m] = "queued"
    BY <1>0, <1>7, LineCancel
  <2>3. pc' \in [Messages -> States] /\ Live' = Live
    BY <1>1, <2>1, <2>2 DEF States, Live
  <2> QED
    BY <1>0, <1>1, <2>1, <2>2, <2>3 DEF HandleOK, StopFlagIsFresh
<1>8. ASSUME WatchdogFires PROVE Rest
  <2>1. /\ UNCHANGED <<pc, query, redispatch, outgoingQueue, intentionalStop>>
        /\ interrupted' = interrupted \/ interrupted' = interrupted \cup ({query} \ {NoTurn})
    BY <1>8 DEF WatchdogFires, queueVars
  <2>2. Live' = Live /\ interrupted \subseteq interrupted' /\ interrupted' \subseteq Messages
    BY <1>1, <2>1 DEF Live, Turns
  <2>3. LineOK'
    BY <1>0, <2>1 DEF LineOK
  <2>4. HandleOK'
    BY <1>0, <2>1, <2>2 DEF HandleOK, StopFlagIsFresh
  <2> QED
    BY <1>1, <2>1, <2>2, <2>3, <2>4
<1>9. ASSUME redispatch = NoTurn /\ (Interrupt \/ Destroy) PROVE Rest
  <2>1. /\ pc' = [x \in Messages |-> IF x \in Queued THEN "dropped" ELSE pc[x]]
        /\ outgoingQueue' = <<>> /\ redispatch' = redispatch
        /\ interrupted' = interrupted \cup ({query} \ {NoTurn})
        /\ \/ query' = query /\ intentionalStop' = (intentionalStop \/ query # NoTurn)
           \/ query' = NoTurn /\ intentionalStop' = FALSE
    BY <1>9 DEF Interrupt, Destroy
  <2>2. pc' \in [Messages -> States] /\ Live' = Live
    BY <1>1, <2>1 DEF States, Live
  <2>3. LineOK'
    BY <1>0, <1>9, <2>1, <2>2, LineKept
  <2>4. interrupted' \subseteq Messages /\ query' \in Turns /\ intentionalStop' \in BOOLEAN
    BY <1>1, <2>1 DEF Turns
  <2>5. HandleOK'
    BY <1>0, <2>1, <2>2 DEF HandleOK, StopFlagIsFresh
  <2>6. redispatch' \in Turns /\ pc' \in [Messages -> States]
    BY <1>1, <2>1, <2>2
  <2> QED
    BY <2>3, <2>4, <2>5, <2>6
<1>10. Rest
  <2>1. ASSUME NEW m \in Messages, PermissionRequest(m) \/ PermissionResolved(m) \/ SdkEvent(m)
        PROVE  Rest
    BY <1>4, <2>1 DEF PermissionRequest, PermissionResolved, SdkEvent, queueVars, stopVars
  <2>2. ASSUME StdinDisabled \/ UNCHANGED vars PROVE Rest
    BY <1>4, <2>2 DEF StdinDisabled, vars, queueVars, stopVars
  <2> HIDE DEF Rest
  <2> QED
    BY <1>2, <1>3, <1>5, <1>6, <1>7, <1>8, <1>9, <2>1, <2>2 DEF Next, Turn
<1>11. Flags
  <2>0. /\ isBusy \in BOOLEAN /\ currentMessage \in Turns /\ resetter \in Turns
        /\ stdinDisabled \in BOOLEAN /\ destroying \in BOOLEAN
        /\ asked \in [Messages -> 0..MaxPrompts]
    BY <1>0 DEF FlagsOK, BaseOK
  <2>1. ASSUME NEW m \in Messages, SendMessage(m), UNCHANGED <<asked, flagVars>> PROVE Flags
    BY <2>0, <2>1 DEF SendMessage, Refuse, Enqueue, StartTurn, turnVars, flagVars, Turns
  <2>2. ASSUME NEW m \in Messages, UserSends(m) PROVE Flags
    BY <2>1, <2>2 DEF UserSends
  <2>3. ASSUME Redispatch PROVE Flags
    BY <1>1, <2>1, <2>3 DEF Redispatch, Turns
  <2>4. ASSUME NEW m \in Messages, PermissionRequest(m) PROVE Flags
    BY <2>0, <2>4 DEF PermissionRequest, flagVars
  <2>5. ASSUME NEW m \in Messages, \/ PermissionResolved(m) \/ SdkEvent(m) \/ ResultArrives(m)
                                   \/ CancelQueuedMessage(m) \/ QueryEnds(m)
        PROVE  Flags
    BY <2>0, <2>5 DEF PermissionResolved, SdkEvent, ResultArrives, CancelQueuedMessage, QueryEnds,
                      turnVars, flagVars
  <2>6. ASSUME NEW m \in Messages, EmitResult(m) \/ QueryThrows(m) PROVE Flags
    BY <2>0, <2>6 DEF EmitResult, QueryThrows, ClearMessageState, BaseClearMessageState, flagVars,
                      Turns
  <2>7. ASSUME WatchdogFires \/ Destroy PROVE Flags
    BY <2>0, <2>7 DEF WatchdogFires, Destroy, ClearMessageState, BaseClearMessageState, flagVars,
                      Turns
  <2>8. ASSUME Interrupt \/ StdinDisabled \/ UNCHANGED vars PROVE Flags
    BY <2>0, <2>8 DEF Interrupt, StdinDisabled, vars, turnVars, flagVars
  <2> HIDE DEF Flags
  <2> QED
    BY <2>2, <2>3, <2>4, <2>5, <2>6, <2>7, <2>8 DEF Next, Turn
<1>12. /\ PauseOK' /\ prompts' \in [Messages -> Nat] /\ pauseCount' \in Nat
       /\ timeoutPaused' \in BOOLEAN /\ armed' \in Turns
  BY <1>0, PauseStep
<1> QED
  BY <1>10, <1>11, <1>12 DEF LooseInv, FlagsOK, BaseOK

(* All of this holds at any time. *)
LEMMA LooseInvariance == Spec => []LooseInv
<1>1. Init => LooseInv
  <2> SUFFICES ASSUME Init PROVE LooseInv
    OBVIOUS
  <2>1. FlagsOK /\ BaseOK
    <3>1. pc \in [Messages -> States] /\ asked \in [Messages -> 0..MaxPrompts]
          /\ prompts \in [Messages -> Nat]
      BY DEF Init, States, NoPrompts
    <3> QED
      BY <3>1 DEF Init, FlagsOK, BaseOK, Turns
  <2>2. LineOK
    BY EmptySeq DEF Init, LineOK
  <2>3. OpenPrompts = {}
    BY DEF Init, OpenPrompts, NoPrompts
  <2>4. PauseOK
    BY <2>3, FS_EmptySet DEF Init, PauseOK
  <2> QED
    BY <2>1, <2>2, <2>4 DEF Init, LooseInv, HandleOK, StopFlagIsFresh
<1>2. LooseInv /\ [Next]_vars => LooseInv'
  BY LooseStep
<1> QED
  BY <1>1, <1>2, PTL DEF Spec
-----------------------------------------------------------------------------
(* Initially the session is idle and nothing was sent. *)
LEMMA InitInv == Init => Inv
<1> SUFFICES ASSUME Init PROVE Inv
  OBVIOUS
<1>1. Live = {}
  BY DEF Init, Live
<1>2. FlagsOK /\ BaseOK
  <2>1. FlagsOK
    BY DEF Init, FlagsOK
  <2>2. pc \in [Messages -> States]
    BY DEF Init, States
  <2>3. asked \in [Messages -> 0..MaxPrompts] /\ prompts \in [Messages -> Nat]
    BY DEF Init, NoPrompts
  <2> QED
    BY <2>1, <2>2, <2>3 DEF Init, BaseOK, Turns
<1>3. LoopOK /\ PromptsOK /\ StopOK
  BY <1>1 DEF Init, LoopOK, OneTurnAtATime, PromptsOK, StopOK, NoPrompts
<1>4. QueueOK
  BY DEF Init, QueueOK
<1> QED
  BY <1>2, <1>3, <1>4 DEF Inv

(* What the finally block leaves, for the loop m that ends. *)
LEMMA FinallyStep ==
  ASSUME Inv, NEW m \in Live, Finally(m), pc[m] # "snapshot"
  PROVE  /\ query' = NoTurn /\ ~intentionalStop' /\ interrupted' = interrupted
         /\ Live' = {} /\ pc' \in [Messages -> States] /\ redispatch' \in Turns
         /\ \/ redispatch' = NoTurn /\ outgoingQueue' = <<>>
            \/ /\ outgoingQueue # <<>> /\ ~destroying
               /\ redispatch' = outgoingQueue[1] /\ outgoingQueue' = Tail(outgoingQueue)
               /\ \A x \in Messages : pc'[x] = IF x = m THEN "done"
                                               ELSE IF x = outgoingQueue[1] THEN "due" ELSE pc[x]
         /\ \A x \in Messages : pc'[x] = "new" <=> pc[x] = "new"
<1> DEFINE next == IF outgoingQueue = <<>> \/ destroying \/ stdinDisabled
                   THEN NoTurn ELSE Head(outgoingQueue)
           discarded == IF stdinDisabled /\ ~destroying THEN Queued ELSE {}
<1>1. /\ query' = NoTurn /\ intentionalStop' = FALSE /\ interrupted' = interrupted
      /\ pc' = [x \in Messages |-> IF x = m THEN "done"
                                 ELSE IF x = next THEN "due"
                                 ELSE IF x \in discarded THEN "dropped" ELSE pc[x]]
      /\ redispatch' = next
      /\ outgoingQueue' = IF next # NoTurn THEN Tail(outgoingQueue)
                          ELSE IF discarded # {} THEN <<>> ELSE outgoingQueue
  BY DEF Finally
<1>2. outgoingQueue \in Seq(Messages) /\ pc \in [Messages -> States] /\ m \in Messages
  BY DEF Inv, QueueOK, BaseOK, Live
<1>3. outgoingQueue # <<>> =>
        /\ Head(outgoingQueue) = outgoingQueue[1] /\ outgoingQueue[1] \in Messages
        /\ 1 \in 1..Len(outgoingQueue) /\ outgoingQueue[1] \in Queued
  BY <1>2 DEF Queued
<1>4. next \in Turns
  BY <1>3 DEF Turns
<1>5. \A x \in Messages : /\ pc'[x] \in States
                          /\ pc'[x] = "new" <=> pc[x] = "new"
                          /\ x # m => pc[x] \notin {"streaming", "snapshot", "resulted"}
                          /\ pc'[x] \notin {"streaming", "snapshot", "resulted"}
  <2>1. \A x \in Messages : x # m => pc[x] \notin {"streaming", "snapshot", "resulted"}
    BY <1>2 DEF Inv, LoopOK, OneTurnAtATime, Live
  <2>2. /\ \A x \in Queued : pc[x] = "queued"
        /\ discarded \subseteq Queued /\ (next \in Messages => next \in Queued)
    BY <1>2, <1>3 DEF Inv, QueueOK, Queued
  <2>3. pc[m] # "new"
    BY DEF Live
  <2> HIDE DEF next, discarded
  <2> QED
    BY <1>1, <1>2, <2>1, <2>2, <2>3 DEF States
<1>6. Live' = {}
  BY <1>5 DEF Live
<1>7. pc' \in [Messages -> States]
  BY <1>1, <1>5
<1>8. CASE next = NoTurn
  <2>1. outgoingQueue = <<>> \/ destroying \/ stdinDisabled
    BY <1>3, <1>8
  <2>2. destroying => outgoingQueue = <<>>
    BY DEF Inv, QueueOK
  <2>3. outgoingQueue' = <<>>
    BY <1>1, <1>3, <1>8, <2>1, <2>2
  <2> QED
    BY <1>1, <1>4, <1>5, <1>6, <1>7, <1>8, <2>3
<1>9. CASE next # NoTurn
  <2>1. outgoingQueue # <<>> /\ ~destroying /\ ~stdinDisabled /\ next = outgoingQueue[1]
    BY <1>3, <1>9
  <2>2. discarded = {}
    BY <2>1
  <2>3. \A x \in Messages : pc'[x] = IF x = m THEN "done"
                                     ELSE IF x = outgoingQueue[1] THEN "due" ELSE pc[x]
    BY <1>1, <2>1, <2>2
  <2>4. outgoingQueue' = Tail(outgoingQueue)
    BY <1>1, <1>9
  <2> QED
    BY <1>1, <1>4, <1>5, <1>6, <1>7, <2>1, <2>3, <2>4
<1> QED
  BY <1>8, <1>9

(* A message is sent, by a user or from the queue, while a turn is busy or *)
(* no loop runs.                                                           *)
LEMMA SendInv ==
  ASSUME Inv, NEW m \in Messages, pc[m] \in {"new", "due"}, SendMessage(m),
         redispatch \in {NoTurn, m}, redispatch' = NoTurn,
         isBusy \/ Live = {}, ~destroying, UNCHANGED <<asked, stopVars, flagVars>>
  PROVE  Inv'
<1>1. UNCHANGED <<asked, interrupted, intentionalStop, stdinDisabled, destroying>>
  BY DEF stopVars, flagVars
<1>2. /\ outgoingQueue \in Seq(Messages) /\ pc \in [Messages -> States]
      /\ \A i \in 1..Len(outgoingQueue) : outgoingQueue[i] \in Messages
  BY DEF Inv, QueueOK, BaseOK
<1>3. CASE Refuse(m)
  <2>1. /\ pc' = [x \in Messages |-> IF x \in Queued \cup {m} THEN "dropped" ELSE pc[x]]
        /\ outgoingQueue' = <<>>
        /\ UNCHANGED <<query, isBusy, currentMessage, resetter, armed, prompts, pauseCount,
                       timeoutPaused>>
    BY <1>3 DEF Refuse, turnVars
  <2>2. \A x \in Queued : pc[x] = "queued"
    BY <1>2 DEF Inv, QueueOK, Queued
  <2>3. \A x \in Messages : /\ pc'[x] \in States
                            /\ pc[x] \in {"streaming", "snapshot", "resulted"} => pc'[x] = pc[x]
                            /\ pc'[x] # "dropped" => pc'[x] = pc[x]
    BY <1>2, <2>1, <2>2 DEF States
  <2>4. Live' = Live /\ pc' \in [Messages -> States]
    BY <2>1, <2>3 DEF Live
  <2>5. FlagsOK' /\ BaseOK' /\ StopOK'
    BY <1>1, <2>1, <2>4 DEF Inv, FlagsOK, BaseOK, StopOK, Turns
  <2>6. LoopOK'
    BY <1>1, <2>1, <2>3, <2>4 DEF Inv, LoopOK, OneTurnAtATime, Live
  <2>7. PromptsOK'
    BY <1>1, <2>1, <2>3, <2>4 DEF Inv, PromptsOK
  <2>8. QueueOK'
    BY <1>1, <2>1, <2>4 DEF QueueOK
  <2> QED
    BY <2>5, <2>6, <2>7, <2>8 DEF Inv
<1>4. CASE Enqueue(m)
  <2>1. /\ isBusy /\ UNCHANGED <<query, isBusy, currentMessage, resetter, armed, prompts,
                                 pauseCount, timeoutPaused>>
        /\ \/ pc' = [pc EXCEPT ![m] = "dropped"] /\ outgoingQueue' = outgoingQueue
           \/ /\ ~(Len(outgoingQueue) >= OutgoingQueueMax)
              /\ pc' = [pc EXCEPT ![m] = "queued"]
              /\ outgoingQueue' = Append(outgoingQueue, m)
    BY <1>4 DEF Enqueue, turnVars
  <2>2. Live' = Live /\ pc' \in [Messages -> States]
        /\ \A x \in Messages : x # m => pc'[x] = pc[x]
        /\ pc'[m] \in {"dropped", "queued"}
    BY <1>2, <2>1 DEF Live, States
  <2>3. Live # {} /\ m \notin Live
    BY <2>1 DEF Inv, LoopOK, Live
  <2>4. FlagsOK' /\ BaseOK' /\ StopOK'
    BY <1>1, <2>1, <2>2 DEF Inv, FlagsOK, BaseOK, StopOK, Turns
  <2>5. LoopOK'
    BY <1>1, <2>1, <2>2, <2>3 DEF Inv, LoopOK, OneTurnAtATime, Live
  <2>6. PromptsOK'
    BY <1>1, <2>1, <2>2, <2>3 DEF Inv, PromptsOK
  <2>7. QueueOK'
    <3>1. \A i \in 1..Len(outgoingQueue) : outgoingQueue[i] # m /\ pc[outgoingQueue[i]] = "queued"
      BY DEF Inv, QueueOK
    <3>2. CASE outgoingQueue' = outgoingQueue
      BY <1>1, <1>2, <2>2, <2>3, <3>1, <3>2 DEF Inv, QueueOK
    <3>3. CASE /\ ~(Len(outgoingQueue) >= OutgoingQueueMax) /\ pc'[m] = "queued"
               /\ outgoingQueue' = Append(outgoingQueue, m)
      <4>1. /\ outgoingQueue' \in Seq(Messages) /\ Len(outgoingQueue') = Len(outgoingQueue) + 1
            /\ Len(outgoingQueue) \in Nat /\ outgoingQueue'[Len(outgoingQueue) + 1] = m
            /\ \A i \in 1..Len(outgoingQueue) : outgoingQueue'[i] = outgoingQueue[i]
        BY <1>2, <3>3
      <4>2. \A i \in 1..Len(outgoingQueue') : pc'[outgoingQueue'[i]] = "queued"
        BY <1>2, <2>2, <3>1, <3>3, <4>1
      <4>3. \A i, j \in 1..Len(outgoingQueue') : outgoingQueue'[i] = outgoingQueue'[j] => i = j
        BY <3>1, <4>1 DEF Inv, QueueOK
      <4> QED
        BY <1>1, <2>2, <2>3, <3>3, <4>1, <4>2, <4>3 DEF QueueOK
    <3> QED
      BY <1>2, <2>1, <3>2, <3>3 DEF States
  <2> QED
    BY <2>4, <2>5, <2>6, <2>7 DEF Inv
<1>5. CASE StartTurn(m)
  <2>1. /\ ~isBusy /\ pc' = [pc EXCEPT ![m] = "streaming"]
        /\ isBusy' = TRUE /\ currentMessage' = m /\ query' = m /\ resetter' = m
        /\ armed' = IF timeoutPaused THEN NoTurn ELSE m
        /\ UNCHANGED <<outgoingQueue, prompts, pauseCount, timeoutPaused>>
    BY <1>5 DEF StartTurn
  <2>2. Live = {} /\ Live' = {m} /\ pc' \in [Messages -> States] /\ pc'[m] = "streaming"
    BY <1>2, <2>1 DEF Live, States
  <2>3. ~intentionalStop /\ pauseCount = 0 /\ ~timeoutPaused /\ armed' = m
    BY <2>1, <2>2 DEF Inv, FlagsOK, StopOK, LoopOK, PromptsOK
  <2>4. FlagsOK' /\ BaseOK' /\ StopOK'
    BY <1>1, <2>1, <2>2, <2>3 DEF Inv, FlagsOK, BaseOK, StopOK, Turns
  <2>5. LoopOK'
    BY <1>1, <2>1, <2>2 DEF LoopOK, OneTurnAtATime
  <2>6. PromptsOK'
    <3>1. \A x \in Messages : pc'[x] = "resulted" => pc[x] = "resulted"
      BY <1>2, <2>1
    <3> QED
      BY <1>1, <2>1, <2>2, <2>3, <3>1 DEF Inv, PromptsOK
  <2>7. QueueOK'
    <3>1. \A i \in 1..Len(outgoingQueue) : outgoingQueue[i] # m /\ pc[outgoingQueue[i]] = "queued"
      BY DEF Inv, QueueOK
    <3> QED
      BY <1>1, <1>2, <2>1, <2>2, <3>1 DEF Inv, QueueOK
  <2> QED
    BY <2>4, <2>5, <2>6, <2>7 DEF Inv
<1> QED
  BY <1>3, <1>4, <1>5 DEF SendMessage

(* A prompt opens or ends. *)
LEMMA PromptInv ==
  ASSUME Inv, NEW m \in Messages, PermissionRequest(m) \/ PermissionResolved(m)
  PROVE  Inv'
<1>1. /\ UNCHANGED <<pc, isBusy, currentMessage, query, resetter, outgoingQueue, redispatch,
                     interrupted, intentionalStop, stdinDisabled, destroying>>
      /\ Live' = Live
  BY DEF PermissionRequest, PermissionResolved, queueVars, stopVars, flagVars, Live
<1>2. LoopOK' /\ QueueOK' /\ StopOK'
  <2>1. LoopOK'
    BY <1>1 DEF Inv, LoopOK, OneTurnAtATime
  <2>2. QueueOK'
    BY <1>1 DEF Inv, QueueOK
  <2> QED
    BY <1>1, <2>1, <2>2 DEF Inv, StopOK
<1>3. pauseCount \in Nat /\ prompts \in [Messages -> Nat] /\ asked \in [Messages -> 0..MaxPrompts]
  BY DEF Inv, BaseOK
<1>4. CASE PermissionRequest(m)
  <2>1. /\ pc[m] = "streaming" /\ ~destroying /\ asked[m] < MaxPrompts
        /\ asked' = [asked EXCEPT ![m] = @ + 1] /\ prompts' = [prompts EXCEPT ![m] = @ + 1]
        /\ pauseCount' = pauseCount + 1 /\ timeoutPaused' = TRUE
        /\ armed' = IF pauseCount = 0 THEN NoTurn ELSE armed
    BY <1>4 DEF PermissionRequest, PauseResultTimeout
  <2>2. m \in Live /\ \A x \in Live : x = m
    BY <2>1 DEF Inv, LoopOK, OneTurnAtATime, Live
  <2>3. FlagsOK'
    BY <1>1, <2>1 DEF Inv, FlagsOK
  <2>4. BaseOK'
    <3>1. asked' \in [Messages -> 0..MaxPrompts] /\ prompts' \in [Messages -> Nat]
      BY <1>3, <2>1
    <3> QED
      BY <1>1, <1>3, <2>1, <3>1 DEF Inv, BaseOK, Turns
  <2>5. PromptsOK'
    <3>1. \A x \in Messages : /\ prompts'[x] = IF x = m THEN prompts[m] + 1 ELSE prompts[x]
                              /\ asked'[x] = IF x = m THEN asked[m] + 1 ELSE asked[x]
      BY <1>3, <2>1
    <3>2. \A x \in Messages : prompts'[x] = IF x \in Live THEN pauseCount' ELSE 0
      BY <2>1, <2>2, <3>1 DEF Inv, PromptsOK
    <3>3. \A x \in Messages : prompts'[x] <= asked'[x]
      BY <1>3, <3>1 DEF Inv, PromptsOK
    <3>4. \A x \in Messages : pc[x] # "resulted"
      BY <2>1, <2>2 DEF Live
    <3>5. pauseCount' > 0 /\ armed' = NoTurn
      BY <1>3, <2>1 DEF Inv, PromptsOK
    <3> QED
      BY <1>1, <2>1, <2>2, <3>2, <3>3, <3>4, <3>5 DEF PromptsOK
  <2> QED
    BY <1>2, <2>3, <2>4, <2>5 DEF Inv
<1>5. CASE PermissionResolved(m)
  <2>1. /\ prompts[m] > 0 /\ prompts' = [prompts EXCEPT ![m] = @ - 1] /\ asked' = asked
        /\ pauseCount' = IF pauseCount = 0 THEN 0 ELSE pauseCount - 1
        /\ timeoutPaused' = IF pauseCount = 1 THEN FALSE ELSE timeoutPaused
        /\ armed' = IF pauseCount = 1 /\ isBusy /\ resetter # NoTurn THEN resetter ELSE armed
    BY <1>5 DEF PermissionResolved, ResumeResultTimeout
  <2>2. m \in Live /\ pauseCount > 0 /\ prompts[m] = pauseCount /\ timeoutPaused
    BY <1>3, <2>1 DEF Inv, PromptsOK
  <2>3. pauseCount' = pauseCount - 1 /\ (timeoutPaused' <=> pauseCount' > 0)
        /\ pauseCount' \in Nat
    BY <1>3, <2>1, <2>2
  <2>4. \A x \in Live : x = m
    BY <2>2 DEF Inv, LoopOK, OneTurnAtATime
  <2>5. FlagsOK'
    BY <1>1, <2>1 DEF Inv, FlagsOK
  <2>6. BaseOK'
    <3>1. prompts' \in [Messages -> Nat]
      BY <1>3, <2>1
    <3> QED
      BY <1>1, <1>3, <2>1, <2>3, <3>1 DEF Inv, BaseOK, Turns
  <2>7. PromptsOK'
    <3>1. \A x \in Messages : prompts'[x] = IF x = m THEN prompts[m] - 1 ELSE prompts[x]
      BY <1>3, <2>1
    <3>2. \A x \in Messages : prompts'[x] = IF x \in Live THEN pauseCount' ELSE 0
      BY <2>2, <2>3, <2>4, <3>1 DEF Inv, PromptsOK
    <3>3. \A x \in Messages : prompts'[x] <= asked'[x]
      BY <1>3, <2>1, <3>1 DEF Inv, PromptsOK
    <3>4. pauseCount' > 0 => armed' = NoTurn
      BY <1>3, <2>1, <2>2, <2>3 DEF Inv, PromptsOK
    <3>5. isBusy => armed' = currentMessage \/ pauseCount' > 0
      BY <1>3, <2>1, <2>2, <2>3 DEF Inv, LoopOK, Live
    <3>6. ~destroying /\ \A x \in Messages : pc[x] # "resulted"
      BY <2>2 DEF Inv, PromptsOK
    <3> QED
      BY <1>1, <2>2, <2>3, <3>2, <3>3, <3>4, <3>5, <3>6 DEF PromptsOK
  <2> QED
    BY <1>2, <2>5, <2>6, <2>7 DEF Inv
<1> QED
  BY <1>4, <1>5

(* The state is cleared, by the result or by a watchdog, while the loop    *)
(* goes on.                                                                *)
LEMMA ClearInv ==
  ASSUME Inv, ClearMessageState, NEW m \in Messages,
         \/ pc' = pc
         \/ (pc[m] = "snapshot" /\ pc' = [pc EXCEPT ![m] = "resulted"]),
         query' = query, intentionalStop' = intentionalStop, asked' = asked,
         interrupted \subseteq interrupted', interrupted' \subseteq Messages,
         UNCHANGED <<queueVars, flagVars>>
  PROVE  Inv'
<1>1. /\ isBusy' = FALSE /\ currentMessage' = NoTurn /\ armed' = NoTurn
      /\ prompts' = NoPrompts /\ pauseCount' = 0 /\ timeoutPaused' = FALSE /\ resetter' = NoTurn
  BY DEF ClearMessageState, BaseClearMessageState
<1>2. UNCHANGED <<outgoingQueue, redispatch, stdinDisabled, destroying>>
  BY DEF queueVars, flagVars
<1>3. pc \in [Messages -> States]
  BY DEF Inv, BaseOK
<1>4. /\ pc' \in [Messages -> States]
      /\ \A x \in Messages : pc'[x] = pc[x] \/ (pc[x] = "snapshot" /\ pc'[x] = "resulted")
  BY <1>3 DEF States
<1>5. Live' = Live
  BY <1>3, <1>4 DEF Live
<1>6. FlagsOK'
  BY <1>1, <1>2 DEF Inv, FlagsOK
<1>7. BaseOK'
  <2>1. prompts' \in [Messages -> Nat]
    BY <1>1 DEF NoPrompts
  <2> QED
    BY <1>1, <1>2, <1>4, <2>1 DEF Inv, BaseOK, Turns
<1>8. LoopOK'
  BY <1>1, <1>5 DEF Inv, LoopOK, OneTurnAtATime
<1>9. PromptsOK'
  <2>1. \A x \in Messages : prompts'[x] = 0 /\ 0 <= asked[x]
    BY <1>1 DEF Inv, BaseOK, NoPrompts
  <2> QED
    BY <1>1, <2>1 DEF PromptsOK
<1>10. QueueOK'
  <2>1. \A i \in 1..Len(outgoingQueue) : outgoingQueue[i] \in Messages
    BY DEF Inv, QueueOK
  <2>2. \A i \in 1..Len(outgoingQueue) : pc'[outgoingQueue[i]] = "queued"
    BY <1>4, <2>1 DEF Inv, QueueOK
  <2>3. redispatch # NoTurn => pc'[redispatch] = "due"
    BY <1>4 DEF Inv, BaseOK, QueueOK, Turns
  <2> QED
    BY <1>2, <1>5, <2>2, <2>3 DEF Inv, QueueOK
<1> QED
  BY <1>6, <1>7, <1>8, <1>9, <1>10 DEF Inv, StopOK

(* The loop of a turn goes on. *)
LEMMA LoopInv ==
  ASSUME Inv, NEW m \in Messages, SdkEvent(m) \/ ResultArrives(m) \/ EmitResult(m)
  PROVE  Inv'
<1>1. CASE EmitResult(m)
  <2>1. interrupted' = interrupted /\ intentionalStop' = intentionalStop
    BY <1>1 DEF EmitResult, stopVars
  <2>2. interrupted \subseteq Messages
    BY DEF Inv, BaseOK
  <2>3. /\ ClearMessageState /\ pc[m] = "snapshot" /\ pc' = [pc EXCEPT ![m] = "resulted"]
        /\ query' = query /\ asked' = asked /\ UNCHANGED <<queueVars, flagVars>>
    BY <1>1 DEF EmitResult
  <2> QED
    BY <2>1, <2>2, <2>3, ClearInv
<1>2. CASE SdkEvent(m) \/ ResultArrives(m)
  <2>1. /\ pc[m] \in {"streaming", "resulted"} /\ ~destroying
        /\ armed' = IF timeoutPaused THEN NoTurn ELSE m
        /\ pc' = pc \/ (pc[m] = "streaming" /\ pc' = [pc EXCEPT ![m] = "snapshot"])
        /\ UNCHANGED <<isBusy, currentMessage, query, asked, resetter, prompts, pauseCount,
                       timeoutPaused, outgoingQueue, redispatch, interrupted, intentionalStop,
                       stdinDisabled, destroying>>
    BY <1>2 DEF SdkEvent, ResultArrives, ResetResultTimeout, queueVars, stopVars, flagVars
  <2>2. pc \in [Messages -> States]
    BY DEF Inv, BaseOK
  <2>3. /\ pc' \in [Messages -> States]
        /\ \A x \in Messages : pc'[x] = pc[x] \/ (pc[x] = "streaming" /\ pc'[x] = "snapshot")
    BY <2>1, <2>2 DEF States
  <2>4. Live' = Live
    BY <2>3 DEF Live
  <2>5. m \in Live /\ \A x \in Live : x = m
    BY <2>1 DEF Inv, LoopOK, OneTurnAtATime, Live
  <2>6. FlagsOK' /\ BaseOK' /\ StopOK'
    BY <2>1, <2>3 DEF Inv, FlagsOK, BaseOK, StopOK, Turns
  <2>7. LoopOK'
    <3>1. isBusy => currentMessage \in Messages
      BY DEF Inv, LoopOK, Live
    <3> QED
      BY <2>1, <2>3, <2>4, <3>1 DEF Inv, LoopOK, OneTurnAtATime
  <2>8. PromptsOK'
    <3>1. \A x \in Messages : pc'[x] = "resulted" => pc[x] = "resulted"
      BY <2>3
    <3>2. isBusy => currentMessage = m
      BY <2>5 DEF Inv, LoopOK
    <3> QED
      BY <2>1, <2>4, <3>1, <3>2 DEF Inv, PromptsOK
  <2>9. QueueOK'
    <3>1. \A i \in 1..Len(outgoingQueue) : outgoingQueue[i] \in Messages
      BY DEF Inv, QueueOK
    <3>2. \A i \in 1..Len(outgoingQueue) : pc'[outgoingQueue[i]] = "queued"
      BY <2>3, <3>1 DEF Inv, QueueOK
    <3>3. redispatch # NoTurn => pc'[redispatch] = "due"
      BY <2>3 DEF Inv, BaseOK, QueueOK, Turns
    <3> QED
      BY <2>1, <2>4, <3>2, <3>3 DEF Inv, QueueOK
  <2> QED
    BY <2>6, <2>7, <2>8, <2>9 DEF Inv
<1> QED
  BY <1>1, <1>2

(* The queue a finally block leaves names waiting messages only. *)
LEMMA QueueAfterFinally ==
  ASSUME Inv, NEW m \in Live, Finally(m), pc[m] # "snapshot", destroying' = destroying
  PROVE  QueueOK'
<1>1. /\ Live' = {} /\ redispatch' \in Turns
      /\ \/ redispatch' = NoTurn /\ outgoingQueue' = <<>>
         \/ /\ outgoingQueue # <<>> /\ ~destroying
            /\ redispatch' = outgoingQueue[1] /\ outgoingQueue' = Tail(outgoingQueue)
            /\ \A x \in Messages : pc'[x] = IF x = m THEN "done"
                                            ELSE IF x = outgoingQueue[1] THEN "due" ELSE pc[x]
  BY FinallyStep
<1>2. CASE redispatch' = NoTurn /\ outgoingQueue' = <<>>
  BY <1>2 DEF QueueOK
<1>3. CASE /\ outgoingQueue # <<>> /\ ~destroying
           /\ redispatch' = outgoingQueue[1] /\ outgoingQueue' = Tail(outgoingQueue)
           /\ \A x \in Messages : pc'[x] = IF x = m THEN "done"
                                           ELSE IF x = outgoingQueue[1] THEN "due" ELSE pc[x]
  <2>1. /\ outgoingQueue \in Seq(Messages) /\ Len(outgoingQueue) \in Nat
        /\ 1 \in 1..Len(outgoingQueue) /\ Len(outgoingQueue) <= OutgoingQueueMax
        /\ \A i \in 1..Len(outgoingQueue) :
             outgoingQueue[i] \in Messages /\ pc[outgoingQueue[i]] = "queued"
        /\ \A i, j \in 1..Len(outgoingQueue) : outgoingQueue[i] = outgoingQueue[j] => i = j
    BY <1>3 DEF Inv, QueueOK
  <2>2. /\ outgoingQueue' \in Seq(Messages) /\ Len(outgoingQueue') = Len(outgoingQueue) - 1
        /\ \A i \in 1..Len(outgoingQueue') : outgoingQueue'[i] = outgoingQueue[i + 1]
    BY <1>3, <2>1
  <2>3. \A i \in 1..Len(outgoingQueue') : i + 1 \in 1..Len(outgoingQueue)
    BY <2>1, <2>2
  <2>4. pc[m] # "queued"
    BY DEF Live
  <2>5. pc'[redispatch'] = "due"
    BY <1>3, <2>1, <2>4
  <2>6. \A i \in 1..Len(outgoingQueue') : pc'[outgoingQueue'[i]] = "queued"
    <3> SUFFICES ASSUME NEW i \in 1..Len(outgoingQueue') PROVE pc'[outgoingQueue'[i]] = "queued"
      OBVIOUS
    <3>1. outgoingQueue'[i] = outgoingQueue[i + 1] /\ i + 1 \in 1..Len(outgoingQueue)
      BY <2>2, <2>3
    <3>2. outgoingQueue[i + 1] # outgoingQueue[1]
      <4>1. i + 1 # 1
        BY <2>2, <2>1
      <4> QED
        BY <2>1, <3>1, <4>1
    <3> QED
      BY <1>3, <2>1, <2>4, <3>1, <3>2
  <2>7. \A i, j \in 1..Len(outgoingQueue') : outgoingQueue'[i] = outgoingQueue'[j] => i = j
    <3> SUFFICES ASSUME NEW i \in 1..Len(outgoingQueue'), NEW j \in 1..Len(outgoingQueue'),
                        outgoingQueue'[i] = outgoingQueue'[j]
                 PROVE  i = j
      OBVIOUS
    <3>1. outgoingQueue[i + 1] = outgoingQueue[j + 1]
      BY <2>2
    <3>2. i + 1 = j + 1
      BY <2>1, <2>3, <3>1
    <3> QED
      BY <3>2
  <2>8. Len(outgoingQueue') <= OutgoingQueueMax
    BY <2>1, <2>2
  <2>9. redispatch' # NoTurn /\ ~destroying'
    BY <1>3, <2>1
  <2> QED
    BY <1>1, <2>2, <2>5, <2>6, <2>7, <2>8, <2>9 DEF QueueOK
<1> QED
  BY <1>1, <1>2, <1>3

(* The loop of a turn ends. *)
LEMMA EndInv ==
  ASSUME Inv, NEW m \in Messages, QueryThrows(m) \/ QueryEnds(m)
  PROVE  Inv'
<1>1. /\ Finally(m) /\ UNCHANGED <<asked, stdinDisabled, destroying>>
      /\ pc[m] \in {"streaming", "resulted"}
  BY DEF QueryThrows, QueryEnds, flagVars
<1>2. m \in Live /\ pc[m] # "snapshot"
  BY <1>1 DEF Live
<1>3. /\ query' = NoTurn /\ ~intentionalStop' /\ interrupted' = interrupted
      /\ Live' = {} /\ pc' \in [Messages -> States] /\ redispatch' \in Turns
  BY <1>1, <1>2, FinallyStep
<1>4. /\ isBusy' = FALSE /\ currentMessage' = NoTurn /\ resetter' = NoTurn /\ armed' \in Turns
      /\ prompts' = NoPrompts /\ pauseCount' = 0 /\ timeoutPaused' = FALSE
  <2>1. CASE QueryThrows(m)
    BY <2>1 DEF QueryThrows, ClearMessageState, BaseClearMessageState, Turns
  <2>2. CASE QueryEnds(m)
    <3>1. UNCHANGED <<isBusy, currentMessage, resetter, armed, prompts, pauseCount, timeoutPaused>>
      BY <2>2 DEF QueryEnds, turnVars
    <3>2. pc[m] = "resulted" \/ destroying
      BY <2>2 DEF QueryEnds
    <3>3. ~isBusy
      BY <1>2, <3>2 DEF Inv, LoopOK, OneTurnAtATime
    <3>4. pauseCount = 0
      BY <3>2 DEF Inv, PromptsOK
    <3>5. prompts = NoPrompts
      BY <3>4 DEF Inv, BaseOK, PromptsOK, NoPrompts
    <3> QED
      BY <3>1, <3>3, <3>4, <3>5 DEF Inv, FlagsOK, LoopOK, BaseOK, PromptsOK
  <2> QED
    BY <2>1, <2>2
<1>5. FlagsOK'
  <2>1. intentionalStop' \in BOOLEAN
    BY <1>1 DEF Finally
  <2> QED
    BY <1>1, <1>4, <2>1 DEF Inv, FlagsOK
<1>6. BaseOK'
  <2>1. prompts' \in [Messages -> Nat]
    BY <1>4 DEF NoPrompts
  <2> QED
    BY <1>1, <1>3, <1>4, <2>1 DEF Inv, BaseOK, Turns
<1>7. LoopOK' /\ StopOK'
  BY <1>3, <1>4 DEF LoopOK, OneTurnAtATime, StopOK
<1>8. PromptsOK'
  <2>1. \A x \in Messages : prompts'[x] = 0 /\ 0 <= asked[x]
    BY <1>4 DEF Inv, BaseOK, NoPrompts
  <2> QED
    BY <1>1, <1>4, <2>1 DEF PromptsOK
<1>9. QueueOK'
  BY <1>1, <1>2, QueueAfterFinally
<1> QED
  BY <1>5, <1>6, <1>7, <1>8, <1>9 DEF Inv

(* Some waiting messages are dropped from the queue. *)
LEMMA CancelInv ==
  ASSUME Inv, NEW m \in Messages, CancelQueuedMessage(m)
  PROVE  Inv'
<1>1. /\ pc' = [pc EXCEPT ![m] = "dropped"]
      /\ UNCHANGED <<query, asked, isBusy, currentMessage, resetter, armed, prompts, pauseCount,
                     timeoutPaused, redispatch, interrupted, intentionalStop, stdinDisabled,
                     destroying>>
  BY DEF CancelQueuedMessage, turnVars, stopVars, flagVars
<1>2. PICK i \in 1..Len(outgoingQueue) :
        /\ outgoingQueue[i] = m
        /\ outgoingQueue' = [j \in 1 .. Len(outgoingQueue) - 1 |->
                               outgoingQueue[IF j < i THEN j ELSE j + 1]]
  BY DEF CancelQueuedMessage, Inv, QueueOK
<1>a. /\ outgoingQueue \in Seq(Messages) /\ Len(outgoingQueue) <= OutgoingQueueMax
      /\ \A j \in 1..Len(outgoingQueue) : pc[outgoingQueue[j]] = "queued"
      /\ \A j, k \in 1..Len(outgoingQueue) : outgoingQueue[j] = outgoingQueue[k] => j = k
      /\ pc \in [Messages -> States]
  BY DEF Inv, QueueOK, BaseOK
<1>b. /\ Len(outgoingQueue) \in Nat
      /\ \A j \in 1..Len(outgoingQueue) : outgoingQueue[j] \in Messages
  BY <1>a
<1>3. /\ outgoingQueue \in Seq(Messages) /\ Len(outgoingQueue) \in Nat
      /\ Len(outgoingQueue) <= OutgoingQueueMax
      /\ \A j \in 1..Len(outgoingQueue) :
           outgoingQueue[j] \in Messages /\ pc[outgoingQueue[j]] = "queued"
      /\ \A j, k \in 1..Len(outgoingQueue) : outgoingQueue[j] = outgoingQueue[k] => j = k
      /\ pc \in [Messages -> States]
  BY <1>a, <1>b
<1>4. /\ pc' \in [Messages -> States] /\ pc[m] = "queued"
      /\ \A x \in Messages : pc'[x] = IF x = m THEN "dropped" ELSE pc[x]
  BY <1>1, <1>2, <1>3 DEF States
<1>5. Live' = Live
  BY <1>4 DEF Live
<1>6. FlagsOK' /\ BaseOK' /\ StopOK'
  BY <1>1, <1>4 DEF Inv, FlagsOK, BaseOK, StopOK, Turns
<1>7. LoopOK'
  BY <1>1, <1>4, <1>5 DEF Inv, LoopOK, OneTurnAtATime, Live
<1>8. PromptsOK'
  BY <1>1, <1>4, <1>5 DEF Inv, PromptsOK
<1>9. QueueOK'
  <2> DEFINE at(j) == IF j < i THEN j ELSE j + 1
  <2>1. \A j \in 1 .. Len(outgoingQueue) - 1 : at(j) \in 1..Len(outgoingQueue) /\ at(j) # i
    BY <1>2, <1>3
  <2>2. \A j, k \in 1 .. Len(outgoingQueue) - 1 : at(j) = at(k) => j = k
    BY <1>2, <1>3
  <2>3. outgoingQueue' = [j \in 1 .. Len(outgoingQueue) - 1 |-> outgoingQueue[at(j)]]
    BY <1>2
  <2> HIDE DEF at
  <2>4. /\ Len(outgoingQueue) - 1 \in Nat
        /\ \A j \in 1 .. Len(outgoingQueue) - 1 : outgoingQueue[at(j)] \in Messages
    BY <1>2, <1>3, <2>1
  <2>5. outgoingQueue' \in Seq(Messages) /\ Len(outgoingQueue') = Len(outgoingQueue) - 1
    BY <2>3, <2>4
  <2>6. \A j \in 1..Len(outgoingQueue') : outgoingQueue'[j] = outgoingQueue[at(j)]
    BY <2>3, <2>5
  <2>7. \A j \in 1..Len(outgoingQueue') : pc'[outgoingQueue'[j]] = "queued"
    <3> SUFFICES ASSUME NEW j \in 1..Len(outgoingQueue') PROVE pc'[outgoingQueue'[j]] = "queued"
      OBVIOUS
    <3>1. at(j) \in 1..Len(outgoingQueue) /\ at(j) # i /\ outgoingQueue'[j] = outgoingQueue[at(j)]
      BY <2>1, <2>5, <2>6
    <3>2. outgoingQueue[at(j)] # m
      BY <1>2, <1>3, <3>1
    <3> QED
      BY <1>3, <1>4, <3>1, <3>2
  <2>8. \A j, k \in 1..Len(outgoingQueue') : outgoingQueue'[j] = outgoingQueue'[k] => j = k
    <3> SUFFICES ASSUME NEW j \in 1..Len(outgoingQueue'), NEW k \in 1..Len(outgoingQueue'),
                        outgoingQueue'[j] = outgoingQueue'[k]
                 PROVE  j = k
      OBVIOUS
    <3>1. outgoingQueue[at(j)] = outgoingQueue[at(k)]
      BY <2>6
    <3>2. at(j) = at(k)
      BY <1>3, <2>1, <2>5, <3>1
    <3> QED
      BY <2>2, <2>5, <3>2
  <2>9. redispatch # NoTurn => pc'[redispatch] = "due"
    BY <1>4 DEF Inv, BaseOK, QueueOK, Turns
  <2>10. Len(outgoingQueue') <= OutgoingQueueMax /\ outgoingQueue # <<>>
    BY <1>2, <1>3, <2>5
  <2> QED
    BY <1>1, <1>5, <2>5, <2>7, <2>8, <2>9, <2>10 DEF Inv, QueueOK
<1> QED
  BY <1>6, <1>7, <1>8, <1>9 DEF Inv

(* Stop and destroy cancel the whole queue. *)
LEMMA StopInv ==
  ASSUME Inv, redispatch = NoTurn, Interrupt \/ Destroy
  PROVE  Inv'
<1>1. /\ pc' = [x \in Messages |-> IF x \in Queued THEN "dropped" ELSE pc[x]]
      /\ outgoingQueue' = <<>> /\ interrupted' = interrupted \cup ({query} \ {NoTurn})
      /\ UNCHANGED <<asked, redispatch, stdinDisabled>>
  BY DEF Interrupt, Destroy, flagVars
<1>2. /\ pc \in [Messages -> States] /\ query \in Turns
      /\ \A x \in Queued : pc[x] = "queued"
  BY DEF Inv, BaseOK, QueueOK, Queued
<1>3. /\ pc' \in [Messages -> States]
      /\ \A x \in Messages : pc'[x] = pc[x] \/ (pc[x] = "queued" /\ pc'[x] = "dropped")
  BY <1>1, <1>2 DEF States
<1>4. Live' = Live
  BY <1>3 DEF Live
<1>5. interrupted' \subseteq Messages /\ interrupted \subseteq interrupted'
      /\ (query # NoTurn => query \in interrupted')
  BY <1>1, <1>2 DEF Inv, BaseOK, Turns
<1>6. QueueOK'
  <2>1. OutgoingQueueMax \in Nat /\ Len(<<>>) = 0
    OBVIOUS
  <2> QED
    BY <1>1, <2>1 DEF QueueOK
<1>7. CASE Interrupt
  <2>1. /\ intentionalStop' = (intentionalStop \/ query # NoTurn)
        /\ UNCHANGED <<query, isBusy, currentMessage, resetter, armed, prompts, pauseCount,
                       timeoutPaused, destroying>>
    BY <1>7 DEF Interrupt, turnVars, flagVars
  <2>2. FlagsOK'
    BY <1>1, <2>1 DEF Inv, FlagsOK
  <2>3. BaseOK'
    BY <1>1, <1>3, <1>5, <2>1 DEF Inv, BaseOK, Turns
  <2>4. StopOK'
    BY <1>5, <2>1 DEF Inv, StopOK
  <2>5. LoopOK'
    BY <1>3, <1>4, <2>1 DEF Inv, LoopOK, OneTurnAtATime, Live
  <2>6. PromptsOK'
    BY <1>1, <1>3, <1>4, <2>1 DEF Inv, PromptsOK
  <2> QED
    BY <1>6, <2>2, <2>3, <2>4, <2>5, <2>6 DEF Inv
<1>8. CASE Destroy
  <2>1. /\ ~destroying /\ destroying' = TRUE /\ intentionalStop' = FALSE /\ query' = NoTurn
        /\ isBusy' = FALSE /\ currentMessage' = NoTurn /\ armed' = NoTurn
        /\ prompts' = NoPrompts /\ pauseCount' = 0 /\ timeoutPaused' = FALSE
        /\ resetter' = NoTurn
    BY <1>8 DEF Destroy, ClearMessageState, BaseClearMessageState
  <2>2. FlagsOK' /\ StopOK'
    BY <1>1, <2>1 DEF Inv, FlagsOK, StopOK
  <2>3. BaseOK'
    <3>1. prompts' \in [Messages -> Nat]
      BY <2>1 DEF NoPrompts
    <3> QED
      BY <1>1, <1>3, <1>5, <2>1, <3>1 DEF Inv, BaseOK, Turns
  <2>4. LoopOK'
    BY <1>4, <2>1 DEF Inv, LoopOK, OneTurnAtATime
  <2>5. PromptsOK'
    <3>1. \A x \in Messages : prompts'[x] = 0 /\ 0 <= asked[x]
      BY <2>1 DEF Inv, BaseOK, NoPrompts
    <3> QED
      BY <1>1, <2>1, <3>1 DEF PromptsOK
  <2> QED
    BY <1>6, <2>2, <2>3, <2>4, <2>5 DEF Inv
<1> QED
  BY <1>7, <1>8

(* Every step keeps the invariant. *)
LEMMA NextInv == ~EarlySend /\ Inv /\ [Next]_vars => Inv'
<1> SUFFICES ASSUME ~EarlySend, Inv, [Next]_vars PROVE Inv'
  OBVIOUS
<1>1. ASSUME NEW m \in Messages, redispatch = NoTurn, UserSends(m) PROVE Inv'
  <2>1. /\ pc[m] = "new" /\ ~destroying /\ (isBusy \/ Live = {}) /\ SendMessage(m)
        /\ redispatch' = redispatch /\ UNCHANGED <<asked, stopVars, flagVars>>
    BY <1>1 DEF UserSends
  <2> QED
    BY <1>1, <2>1, SendInv
<1>2. CASE Redispatch
  <2>1. /\ redispatch # NoTurn /\ redispatch' = NoTurn /\ SendMessage(redispatch)
        /\ UNCHANGED <<asked, stopVars, flagVars>>
    BY <1>2 DEF Redispatch
  <2>2. redispatch \in Messages /\ pc[redispatch] = "due" /\ Live = {} /\ ~destroying
    BY <2>1 DEF Inv, BaseOK, QueueOK, Turns
  <2> QED
    BY <2>1, <2>2, SendInv
<1>3. ASSUME NEW m \in Messages, PermissionRequest(m) \/ PermissionResolved(m) PROVE Inv'
  BY <1>3, PromptInv
<1>4. ASSUME NEW m \in Messages, SdkEvent(m) \/ ResultArrives(m) \/ EmitResult(m) PROVE Inv'
  BY <1>4, LoopInv
<1>5. ASSUME NEW m \in Messages, QueryThrows(m) \/ QueryEnds(m) PROVE Inv'
  BY <1>5, EndInv
<1>6. ASSUME NEW m \in Messages, CancelQueuedMessage(m) PROVE Inv'
  BY <1>6, CancelInv
<1>7. CASE WatchdogFires
  <2>1. UNCHANGED <<pc, query, asked, queueVars, intentionalStop, flagVars>>
    BY <1>7 DEF WatchdogFires
  <2>2. CASE isBusy
    <3>1. ClearMessageState /\ interrupted' = interrupted \cup ({query} \ {NoTurn})
      BY <1>7, <2>2 DEF WatchdogFires
    <3>2. interrupted \subseteq interrupted' /\ interrupted' \subseteq Messages
      BY <3>1 DEF Inv, BaseOK, Turns
    <3>3. query \in Messages
      BY <2>2 DEF Inv, LoopOK, Live
    <3> QED
      BY <2>1, <3>1, <3>2, <3>3, ClearInv
  <2>3. CASE ~isBusy
    <3>1. /\ armed' = NoTurn
          /\ UNCHANGED <<interrupted, isBusy, currentMessage, resetter, prompts, pauseCount,
                         timeoutPaused, outgoingQueue, redispatch, stdinDisabled, destroying>>
          /\ Live' = Live
      BY <1>7, <2>1, <2>3 DEF WatchdogFires, queueVars, flagVars, Live
    <3>2. FlagsOK' /\ BaseOK' /\ StopOK'
      BY <2>1, <3>1 DEF Inv, FlagsOK, BaseOK, StopOK, Turns
    <3>3. LoopOK'
      BY <2>1, <3>1 DEF Inv, LoopOK, OneTurnAtATime
    <3>4. PromptsOK'
      BY <2>1, <2>3, <3>1 DEF Inv, PromptsOK
    <3>5. QueueOK'
      BY <2>1, <3>1 DEF Inv, QueueOK
    <3> QED
      BY <3>2, <3>3, <3>4, <3>5 DEF Inv
  <2> QED
    BY <2>2, <2>3 DEF Inv, FlagsOK
<1>8. CASE redispatch = NoTurn /\ (Interrupt \/ Destroy)
  BY <1>8, StopInv
<1>9. CASE StdinDisabled \/ UNCHANGED vars
  <2>1. /\ UNCHANGED <<pc, query, asked, isBusy, currentMessage, resetter, armed, prompts,
                       pauseCount, timeoutPaused, outgoingQueue, redispatch, interrupted,
                       intentionalStop, destroying>>
        /\ stdinDisabled' \in BOOLEAN
    BY <1>9 DEF StdinDisabled, vars, turnVars, queueVars, stopVars, flagVars, Inv, FlagsOK
  <2>2. Live' = Live
    BY <2>1 DEF Live
  <2>3. FlagsOK' /\ BaseOK' /\ StopOK'
    BY <2>1 DEF Inv, FlagsOK, BaseOK, StopOK, Turns
  <2>4. LoopOK' /\ PromptsOK'
    BY <2>1, <2>2 DEF Inv, LoopOK, OneTurnAtATime, PromptsOK
  <2>5. QueueOK'
    BY <2>1, <2>2 DEF Inv, QueueOK
  <2> QED
    BY <2>3, <2>4, <2>5 DEF Inv
<1> QED
  BY <1>1, <1>2, <1>3, <1>4, <1>5, <1>6, <1>7, <1>8, <1>9 DEF Next, Turn
-----------------------------------------------------------------------------
(* The order of the messages.  Follow-ups in flight and in the queue keep  *)
(* the order in which the session took them, behind all turns begun.       *)

Before(s, m, n) == \E i, j \in 1..Len(s) : i < j /\ s[i] = m /\ s[j] = n

(* What was taken is remembered, once. *)
TakenOK ==
  /\ accepted \in Seq(Messages) /\ started \in Seq(Messages)
  /\ \A i, j \in 1..Len(accepted) : accepted[i] = accepted[j] => i = j
  /\ \A m \in Messages : pc[m] # "new" <=> \E i \in 1..Len(accepted) : accepted[i] = m
  /\ \A i \in 1..Len(started) : pc[started[i]] # "new"

OrderOK ==
  /\ \A i, j \in 1..Len(started) : i < j => Before(accepted, started[i], started[j])
  /\ \A i, j \in 1..Len(outgoingQueue) :
       i < j => Before(accepted, outgoingQueue[i], outgoingQueue[j])
  /\ \A i \in 1..Len(started), j \in 1..Len(outgoingQueue) :
       Before(accepted, started[i], outgoingQueue[j])
  /\ redispatch # NoTurn =>
       /\ \A i \in 1..Len(started) : Before(accepted, started[i], redispatch)
       /\ \A i \in 1..Len(outgoingQueue) : Before(accepted, redispatch, outgoingQueue[i])

OrderInv == Inv /\ TakenOK /\ OrderOK

(* A message appended to a sequence is behind all others in it. *)
LEMMA AppendedLast ==
  ASSUME NEW S, NEW s \in Seq(S), NEW m \in S
  PROVE  /\ \A a, b : Before(s, a, b) => Before(Append(s, m), a, b)
         /\ \A i \in 1..Len(s) : Before(Append(s, m), s[i], m)
<1>1. /\ Len(s) \in Nat /\ Len(Append(s, m)) = Len(s) + 1 /\ Append(s, m)[Len(s) + 1] = m
      /\ \A i \in 1..Len(s) : Append(s, m)[i] = s[i]
  OBVIOUS
<1>2. \A i \in 1..Len(s) : i \in 1..Len(Append(s, m)) /\ i < Len(s) + 1
  BY <1>1
<1>3. Len(s) + 1 \in 1..Len(Append(s, m))
  BY <1>1
<1>4. ASSUME NEW a, NEW b, Before(s, a, b) PROVE Before(Append(s, m), a, b)
  <2>1. PICK i \in 1..Len(s), j \in 1..Len(s) : i < j /\ s[i] = a /\ s[j] = b
    BY <1>4 DEF Before
  <2> QED
    BY <1>1, <1>2, <2>1 DEF Before
<1>5. ASSUME NEW i \in 1..Len(s) PROVE Before(Append(s, m), s[i], m)
  BY <1>1, <1>2, <1>3 DEF Before
<1> QED
  BY <1>4, <1>5

(* Only a user's message is new to the session. *)
LEMMA NewnessKept ==
  ASSUME Inv, Next, \A m \in Messages : ~UserSends(m)
  PROVE  accepted' = accepted /\ \A x \in Messages : pc'[x] = "new" <=> pc[x] = "new"
<1>1. \A x \in Queued : pc[x] = "queued"
  BY DEF Inv, QueueOK, Queued
<1>2. pc \in [Messages -> States]
  BY DEF Inv, BaseOK
<1>3. CASE Redispatch
  <2>1. redispatch \in Messages /\ pc[redispatch] = "due" /\ SendMessage(redispatch)
        /\ accepted' = accepted
    BY <1>3 DEF Redispatch, Inv, BaseOK, QueueOK, Turns
  <2> QED
    BY <1>1, <1>2, <2>1 DEF SendMessage, Refuse, Enqueue, StartTurn
<1>4. ASSUME NEW m \in Messages, QueryThrows(m) \/ QueryEnds(m)
      PROVE  accepted' = accepted /\ \A x \in Messages : pc'[x] = "new" <=> pc[x] = "new"
  <2>1. Finally(m) /\ m \in Live /\ pc[m] # "snapshot" /\ accepted' = accepted
    BY <1>4 DEF QueryThrows, QueryEnds, Live, orderVars
  <2> QED
    BY <2>1, FinallyStep
<1>5. ASSUME NEW m \in Messages, CancelQueuedMessage(m)
      PROVE  accepted' = accepted /\ \A x \in Messages : pc'[x] = "new" <=> pc[x] = "new"
  <2>1. pc[m] = "queued" /\ pc' = [pc EXCEPT ![m] = "dropped"] /\ accepted' = accepted
    BY <1>1, <1>5 DEF CancelQueuedMessage, Queued, orderVars
  <2> QED
    BY <1>2, <2>1
<1>6. ASSUME NEW m \in Messages, ResultArrives(m) \/ EmitResult(m)
      PROVE  accepted' = accepted /\ \A x \in Messages : pc'[x] = "new" <=> pc[x] = "new"
  BY <1>2, <1>6 DEF ResultArrives, EmitResult, orderVars
<1>7. ASSUME NEW m \in Messages, PermissionRequest(m) \/ PermissionResolved(m) \/ SdkEvent(m)
      PROVE  accepted' = accepted /\ pc' = pc
  BY <1>7 DEF PermissionRequest, PermissionResolved, SdkEvent, orderVars
<1>8. CASE Interrupt \/ Destroy
  BY <1>1, <1>2, <1>8 DEF Interrupt, Destroy, orderVars
<1>9. CASE WatchdogFires \/ StdinDisabled
  BY <1>9 DEF WatchdogFires, StdinDisabled, orderVars
<1> QED
  BY <1>3, <1>4, <1>5, <1>6, <1>7, <1>8, <1>9 DEF Next, Turn

(* What was taken stays remembered. *)
LEMMA TakenStep ==
  ASSUME Inv, TakenOK, Next
  PROVE  TakenOK'
<1>1. CASE \E m \in Messages : UserSends(m)
  <2>1. PICK m \in Messages : UserSends(m)
    BY <1>1
  <2>2. pc[m] = "new" /\ SendMessage(m) /\ accepted' = Append(accepted, m)
    BY <2>1 DEF UserSends
  <2>3. /\ pc \in [Messages -> States] /\ accepted \in Seq(Messages) /\ started \in Seq(Messages)
        /\ \A x \in Queued : pc[x] = "queued"
    BY DEF Inv, BaseOK, QueueOK, Queued, TakenOK
  <2>4. /\ pc'[m] # "new" /\ \A x \in Messages : x # m => (pc'[x] # "new" <=> pc[x] # "new")
        /\ started' = started \/ started' = Append(started, m)
    BY <2>2, <2>3 DEF SendMessage, Refuse, Enqueue, StartTurn
  <2>5. /\ accepted' \in Seq(Messages) /\ Len(accepted') = Len(accepted) + 1
        /\ Len(accepted) \in Nat /\ accepted'[Len(accepted) + 1] = m
        /\ \A i \in 1..Len(accepted) : accepted'[i] = accepted[i] /\ accepted[i] \in Messages
        /\ \A i \in 1..Len(accepted) : accepted[i] # m
    BY <2>2, <2>3 DEF TakenOK
  <2>6. ASSUME NEW i \in 1..Len(accepted'), NEW j \in 1..Len(accepted'),
               accepted'[i] = accepted'[j]
        PROVE  i = j
    <3>1. /\ \A k \in 1..Len(accepted') : k \in 1..Len(accepted) \/ k = Len(accepted) + 1
          /\ Len(accepted) + 1 \notin 1..Len(accepted)
      BY <2>5
    <3>2. CASE i \in 1..Len(accepted) /\ j \in 1..Len(accepted)
      <4>1. accepted[i] = accepted[j]
        BY <2>5, <2>6, <3>2
      <4> QED
        BY <3>2, <4>1 DEF TakenOK
    <3>3. CASE i = Len(accepted) + 1 \/ j = Len(accepted) + 1
      BY <2>5, <2>6, <3>1, <3>3
    <3> QED
      BY <3>1, <3>2, <3>3
  <2>7. \A x \in Messages : pc'[x] # "new" <=> \E i \in 1..Len(accepted') : accepted'[i] = x
    <3>1. ASSUME NEW x \in Messages, x = m
          PROVE  pc'[x] # "new" <=> \E i \in 1..Len(accepted') : accepted'[i] = x
      <4>1. Len(accepted) + 1 \in 1..Len(accepted')
        BY <2>5
      <4> QED
        BY <2>4, <2>5, <3>1, <4>1
    <3>2. ASSUME NEW x \in Messages, x # m
          PROVE  pc'[x] # "new" <=> \E i \in 1..Len(accepted') : accepted'[i] = x
      <4>1. (\E i \in 1..Len(accepted') : accepted'[i] = x)
              <=> \E i \in 1..Len(accepted) : accepted[i] = x
        BY <2>5, <3>2
      <4> QED
        BY <2>4, <3>2, <4>1 DEF TakenOK
    <3> QED
      BY <3>1, <3>2
  <2>8. started' \in Seq(Messages) /\ \A i \in 1..Len(started') : pc'[started'[i]] # "new"
    <3>1. \A i \in 1..Len(started) : started[i] \in Messages /\ pc'[started[i]] # "new"
      BY <2>3, <2>4 DEF TakenOK
    <3>2. CASE started' = started
      BY <2>3, <3>1, <3>2
    <3>3. CASE started' = Append(started, m)
      BY <2>3, <2>4, <3>1, <3>3
    <3> QED
      BY <2>4, <3>2, <3>3
  <2> QED
    BY <2>5, <2>6, <2>7, <2>8 DEF TakenOK
<1>2. CASE \A m \in Messages : ~UserSends(m)
  <2>1. accepted' = accepted /\ \A x \in Messages : pc'[x] = "new" <=> pc[x] = "new"
    BY <1>2, NewnessKept
  <2>2. started' = started \/ (Redispatch /\ started' = Append(started, redispatch))
    BY <1>2 DEF Next, Turn, Redispatch, SendMessage, Refuse, Enqueue, StartTurn, PermissionRequest,
                PermissionResolved, SdkEvent, ResultArrives, EmitResult, QueryThrows, QueryEnds,
                CancelQueuedMessage, WatchdogFires, Interrupt, StdinDisabled, Destroy, orderVars
  <2>3. Redispatch => redispatch \in Messages /\ pc[redispatch] = "due"
    BY DEF Redispatch, Inv, BaseOK, QueueOK, Turns
  <2>4. started' \in Seq(Messages) /\ \A i \in 1..Len(started') : pc'[started'[i]] # "new"
    <3>1. /\ started \in Seq(Messages)
          /\ \A i \in 1..Len(started) : started[i] \in Messages /\ pc'[started[i]] # "new"
      BY <2>1 DEF TakenOK
    <3>2. CASE Redispatch /\ started' = Append(started, redispatch)
      <4>1. redispatch \in Messages /\ pc'[redispatch] # "new"
        BY <2>1, <2>3, <3>2
      <4> QED
        BY <3>1, <3>2, <4>1
    <3> QED
      BY <2>2, <3>1, <3>2
  <2> QED
    BY <2>1, <2>4 DEF TakenOK
<1> QED
  BY <1>1, <1>2

(* How a step that is no user's message moves the follow-ups. *)
LEMMA QueueMoves ==
  ASSUME Inv, Next, \A m \in Messages : ~UserSends(m)
  PROVE  \/ /\ started' = started /\ redispatch' \in {redispatch, NoTurn}
            /\ outgoingQueue' \in {outgoingQueue, <<>>}
         \/ /\ started' = started /\ redispatch' = redispatch
            /\ \E m \in Messages : CancelQueuedMessage(m)
         \/ /\ redispatch # NoTurn /\ redispatch' = NoTurn
            /\ started' = Append(started, redispatch) /\ outgoingQueue' = outgoingQueue
         \/ /\ redispatch = NoTurn /\ started' = started /\ outgoingQueue # <<>>
            /\ redispatch' = outgoingQueue[1] /\ outgoingQueue' = Tail(outgoingQueue)
<1>1. CASE Redispatch
  <2>1. ~isBusy
    <3>1. redispatch # NoTurn
      BY <1>1 DEF Redispatch
    <3> QED
      BY <3>1 DEF Inv, FlagsOK, QueueOK, LoopOK
  <2> QED
    BY <1>1, <2>1 DEF Redispatch, SendMessage, Refuse, Enqueue, StartTurn
<1>2. CASE redispatch = NoTurn /\ \E m \in Messages : QueryThrows(m) \/ QueryEnds(m)
  <2>1. PICK m \in Messages : QueryThrows(m) \/ QueryEnds(m)
    BY <1>2
  <2>2. Finally(m) /\ m \in Live /\ pc[m] # "snapshot" /\ started' = started
    BY <2>1 DEF QueryThrows, QueryEnds, Live, orderVars
  <2> QED
    BY <1>2, <2>2, FinallyStep
<1>3. CASE redispatch = NoTurn /\ \E m \in Messages : CancelQueuedMessage(m)
  BY <1>3 DEF CancelQueuedMessage, orderVars
<1>4. ASSUME NEW m \in Messages, \/ PermissionRequest(m) \/ PermissionResolved(m) \/ SdkEvent(m)
                                 \/ ResultArrives(m) \/ EmitResult(m)
      PROVE  UNCHANGED <<started, redispatch, outgoingQueue>>
  BY <1>4 DEF PermissionRequest, PermissionResolved, SdkEvent, ResultArrives, EmitResult,
              orderVars, queueVars
<1>5. CASE Interrupt \/ Destroy
  BY <1>5 DEF Interrupt, Destroy, orderVars
<1>6. CASE WatchdogFires \/ StdinDisabled
  BY <1>6 DEF WatchdogFires, StdinDisabled, orderVars, queueVars
<1> QED
  BY <1>1, <1>2, <1>3, <1>4, <1>5, <1>6 DEF Next, Turn

(* A user's message goes behind everything else. *)
LEMMA OrderSend ==
  ASSUME ~EarlySend, Inv, TakenOK, OrderOK, redispatch = NoTurn,
         NEW m \in Messages, UserSends(m)
  PROVE  OrderOK'
<1>1. /\ pc[m] = "new" /\ (isBusy \/ Live = {}) /\ SendMessage(m)
      /\ accepted' = Append(accepted, m) /\ redispatch' = NoTurn
  BY DEF UserSends
<1>2. /\ accepted \in Seq(Messages) /\ started \in Seq(Messages)
      /\ outgoingQueue \in Seq(Messages)
  BY DEF Inv, QueueOK, TakenOK
<1>3. \A a, b : Before(accepted, a, b) => Before(accepted', a, b)
  BY <1>1, <1>2, AppendedLast
<1>4. \A a \in Messages : pc[a] # "new" => Before(accepted', a, m)
  <2>1. \A i \in 1..Len(accepted) : Before(accepted', accepted[i], m)
    BY <1>1, <1>2, AppendedLast
  <2> QED
    BY <2>1 DEF TakenOK
<1>5. \A i \in 1..Len(started) : Before(accepted', started[i], m)
  BY <1>2, <1>4 DEF TakenOK
<1>6. \A i \in 1..Len(outgoingQueue) : Before(accepted', outgoingQueue[i], m)
  BY <1>2, <1>4 DEF Inv, QueueOK
<1>7. CASE started' = started /\ outgoingQueue' \in {outgoingQueue, <<>>}
  BY <1>1, <1>3, <1>7 DEF OrderOK
<1>8. CASE started' = started /\ outgoingQueue' = Append(outgoingQueue, m)
  <2>1. /\ Len(outgoingQueue') = Len(outgoingQueue) + 1 /\ Len(outgoingQueue) \in Nat
        /\ outgoingQueue'[Len(outgoingQueue) + 1] = m
        /\ \A i \in 1..Len(outgoingQueue) : outgoingQueue'[i] = outgoingQueue[i]
    BY <1>2, <1>8
  <2>2. ASSUME NEW i \in 1..Len(outgoingQueue'), NEW j \in 1..Len(outgoingQueue'), i < j
        PROVE  Before(accepted', outgoingQueue'[i], outgoingQueue'[j])
    <3>1. i \in 1..Len(outgoingQueue)
      BY <2>1, <2>2
    <3>2. CASE j \in 1..Len(outgoingQueue)
      BY <1>3, <2>1, <2>2, <3>1, <3>2 DEF OrderOK
    <3>3. CASE j = Len(outgoingQueue) + 1
      BY <1>6, <2>1, <3>1, <3>3
    <3> QED
      BY <2>1, <3>2, <3>3
  <2>3. ASSUME NEW i \in 1..Len(started), NEW j \in 1..Len(outgoingQueue')
        PROVE  Before(accepted', started[i], outgoingQueue'[j])
    <3>1. CASE j \in 1..Len(outgoingQueue)
      BY <1>3, <2>1, <3>1 DEF OrderOK
    <3>2. CASE j = Len(outgoingQueue) + 1
      BY <1>5, <2>1, <3>2
    <3> QED
      BY <2>1, <3>1, <3>2
  <2>4. \A i, j \in 1..Len(started) : i < j => Before(accepted', started[i], started[j])
    BY <1>3 DEF OrderOK
  <2> QED
    BY <1>1, <1>8, <2>2, <2>3, <2>4 DEF OrderOK
<1>9. CASE started' = Append(started, m) /\ outgoingQueue' = <<>>
  <2>1. /\ Len(started') = Len(started) + 1 /\ Len(started) \in Nat
        /\ started'[Len(started) + 1] = m
        /\ \A i \in 1..Len(started) : started'[i] = started[i]
    BY <1>2, <1>9
  <2>2. ASSUME NEW i \in 1..Len(started'), NEW j \in 1..Len(started'), i < j
        PROVE  Before(accepted', started'[i], started'[j])
    <3>1. i \in 1..Len(started)
      BY <2>1, <2>2
    <3>2. CASE j \in 1..Len(started)
      BY <1>3, <2>1, <2>2, <3>1, <3>2 DEF OrderOK
    <3>3. CASE j = Len(started) + 1
      BY <1>5, <2>1, <3>1, <3>3
    <3> QED
      BY <2>1, <3>2, <3>3
  <2>3. 1..Len(outgoingQueue') = {}
    BY <1>9
  <2> QED
    BY <1>1, <2>2, <2>3 DEF OrderOK
<1>10. ~isBusy => outgoingQueue = <<>>
  BY <1>1 DEF Inv, QueueOK
<1> QED
  BY <1>1, <1>7, <1>8, <1>9, <1>10 DEF SendMessage, Refuse, Enqueue, StartTurn

(* Nothing else changes the order. *)
LEMMA OrderMove ==
  ASSUME Inv, TakenOK, OrderOK, Next, \A m \in Messages : ~UserSends(m)
  PROVE  OrderOK'
<1>1. accepted' = accepted
  BY NewnessKept
<1>2. started \in Seq(Messages) /\ outgoingQueue \in Seq(Messages)
  BY DEF Inv, QueueOK, TakenOK
<1>3. CASE /\ started' = started /\ redispatch' \in {redispatch, NoTurn}
           /\ outgoingQueue' \in {outgoingQueue, <<>>}
  BY <1>1, <1>3 DEF OrderOK
<1>4. CASE /\ started' = started /\ redispatch' = redispatch
           /\ \E m \in Messages : CancelQueuedMessage(m)
  <2>1. PICK i \in 1..Len(outgoingQueue) :
          outgoingQueue' = [j \in 1 .. Len(outgoingQueue) - 1 |->
                              outgoingQueue[IF j < i THEN j ELSE j + 1]]
    BY <1>2, <1>4 DEF CancelQueuedMessage
  <2> DEFINE at(j) == IF j < i THEN j ELSE j + 1
  <2>2. /\ \A j \in 1 .. Len(outgoingQueue) - 1 : at(j) \in 1..Len(outgoingQueue)
        /\ \A j, k \in 1 .. Len(outgoingQueue) - 1 : j < k => at(j) < at(k)
    BY <1>2
  <2>3. outgoingQueue' = [j \in 1 .. Len(outgoingQueue) - 1 |-> outgoingQueue[at(j)]]
    BY <2>1
  <2> HIDE DEF at
  <2>4. Len(outgoingQueue) - 1 \in Nat
    BY <1>2
  <2>5. Len(outgoingQueue') = Len(outgoingQueue) - 1
    BY <2>3, <2>4
  <2>6. \A j \in 1..Len(outgoingQueue') : /\ outgoingQueue'[j] = outgoingQueue[at(j)]
                                          /\ at(j) \in 1..Len(outgoingQueue)
    BY <2>2, <2>3, <2>5
  <2>7. \A j, k \in 1..Len(outgoingQueue') :
          j < k => Before(accepted, outgoingQueue'[j], outgoingQueue'[k])
    BY <2>2, <2>5, <2>6 DEF OrderOK
  <2> QED
    BY <1>1, <1>4, <2>6, <2>7 DEF OrderOK
<1>5. CASE /\ redispatch # NoTurn /\ redispatch' = NoTurn
           /\ started' = Append(started, redispatch) /\ outgoingQueue' = outgoingQueue
  <2>1. redispatch \in Messages
    BY <1>5 DEF Inv, BaseOK, Turns
  <2>2. /\ Len(started') = Len(started) + 1 /\ Len(started) \in Nat
        /\ started'[Len(started) + 1] = redispatch
        /\ \A i \in 1..Len(started) : started'[i] = started[i]
    BY <1>2, <1>5, <2>1
  <2>3. ASSUME NEW i \in 1..Len(started'), NEW j \in 1..Len(started'), i < j
        PROVE  Before(accepted, started'[i], started'[j])
    <3>1. i \in 1..Len(started)
      BY <2>2, <2>3
    <3>2. CASE j \in 1..Len(started)
      BY <2>2, <2>3, <3>1, <3>2 DEF OrderOK
    <3>3. CASE j = Len(started) + 1
      BY <1>5, <2>2, <3>1, <3>3 DEF OrderOK
    <3> QED
      BY <2>2, <3>2, <3>3
  <2>4. ASSUME NEW i \in 1..Len(started'), NEW j \in 1..Len(outgoingQueue)
        PROVE  Before(accepted, started'[i], outgoingQueue[j])
    <3>1. CASE i \in 1..Len(started)
      BY <2>2, <3>1 DEF OrderOK
    <3>2. CASE i = Len(started) + 1
      BY <1>5, <2>2, <3>2 DEF OrderOK
    <3> QED
      BY <2>2, <3>1, <3>2
  <2> QED
    BY <1>1, <1>5, <2>3, <2>4 DEF OrderOK
<1>6. CASE /\ redispatch = NoTurn /\ started' = started /\ outgoingQueue # <<>>
           /\ redispatch' = outgoingQueue[1] /\ outgoingQueue' = Tail(outgoingQueue)
  <2>1. /\ Len(outgoingQueue') = Len(outgoingQueue) - 1 /\ 1 \in 1..Len(outgoingQueue)
        /\ Len(outgoingQueue) \in Nat
        /\ \A i \in 1..Len(outgoingQueue') : outgoingQueue'[i] = outgoingQueue[i + 1]
    BY <1>2, <1>6
  <2>2. \A i \in 1..Len(outgoingQueue') : i + 1 \in 1..Len(outgoingQueue) /\ 1 < i + 1
    BY <2>1
  <2>3. \A i, j \in 1..Len(outgoingQueue') :
          i < j => Before(accepted, outgoingQueue'[i], outgoingQueue'[j])
    <3> SUFFICES ASSUME NEW i \in 1..Len(outgoingQueue'), NEW j \in 1..Len(outgoingQueue'), i < j
                 PROVE  Before(accepted, outgoingQueue[i + 1], outgoingQueue[j + 1])
      BY <2>1
    <3>1. i + 1 < j + 1
      OBVIOUS
    <3> QED
      BY <2>2, <3>1 DEF OrderOK
  <2>4. \A i \in 1..Len(outgoingQueue') : Before(accepted, redispatch', outgoingQueue'[i])
    BY <1>6, <2>1, <2>2 DEF OrderOK
  <2>5. \A i \in 1..Len(started), j \in 1..Len(outgoingQueue') :
          Before(accepted, started[i], outgoingQueue'[j])
    BY <2>1, <2>2 DEF OrderOK
  <2>6. \A i \in 1..Len(started) : Before(accepted, started[i], redispatch')
    BY <1>6, <2>1 DEF OrderOK
  <2> QED
    BY <1>1, <1>6, <2>3, <2>4, <2>5, <2>6 DEF OrderOK
<1> QED
  BY <1>3, <1>4, <1>5, <1>6, QueueMoves

(* The order is part of an inductive invariant. *)
LEMMA OrderNext == ~EarlySend /\ OrderInv /\ [Next]_vars => OrderInv'
<1> SUFFICES ASSUME ~EarlySend, OrderInv, [Next]_vars PROVE OrderInv'
  OBVIOUS
<1>1. Inv /\ TakenOK /\ OrderOK
  BY DEF OrderInv
<1>2. Inv'
  BY <1>1, NextInv
<1>3. CASE UNCHANGED vars
  BY <1>1, <1>2, <1>3 DEF OrderInv, TakenOK, OrderOK, vars, orderVars, queueVars
<1>4. CASE Next
  <2>1. TakenOK'
    BY <1>1, <1>4, TakenStep
  <2>2. CASE \A m \in Messages : ~UserSends(m)
    BY <1>1, <1>2, <1>4, <2>1, <2>2, OrderMove DEF OrderInv
  <2>3. CASE \E m \in Messages : UserSends(m)
    <3>1. PICK m \in Messages : UserSends(m)
      BY <2>3
    <3>2. CASE redispatch = NoTurn
      BY <1>1, <1>2, <2>1, <3>1, <3>2, OrderSend DEF OrderInv
    <3>3. CASE redispatch # NoTurn
      <4>1. redispatch' = redispatch /\ Redispatch
        BY <1>4, <3>1, <3>3 DEF UserSends, Next
      <4> QED
        BY <3>3, <4>1 DEF Redispatch
    <3> QED
      BY <3>2, <3>3
  <2> QED
    BY <2>2, <2>3
<1> QED
  BY <1>3, <1>4
-----------------------------------------------------------------------------
(* Every variable keeps its type, the queue stays within its limit, and    *)
(* the pause counter counts no more prompts than one turn may ask.         *)
THEOREM Types == ASSUME ~EarlySend PROVE Spec => []TypeOK
<1>1. Init => OrderInv
  BY InitInv DEF OrderInv, Init, TakenOK, OrderOK
<1>2. OrderInv => TypeOK
  <2> SUFFICES ASSUME OrderInv PROVE TypeOK
    OBVIOUS
  <2>1. pauseCount \in 0..MaxPrompts /\ prompts \in [Messages -> 0..MaxPrompts]
    <3>1. \A m \in Messages : prompts[m] \in 0..MaxPrompts
      BY DEF OrderInv, Inv, BaseOK, PromptsOK
    <3>2. CASE Live = {}
      BY <3>1, <3>2 DEF OrderInv, Inv, BaseOK, PromptsOK
    <3>3. CASE Live # {}
      <4>1. PICK m \in Messages : m \in Live
        BY <3>3 DEF Live
      <4> QED
        BY <3>1, <4>1 DEF OrderInv, Inv, BaseOK, PromptsOK
    <3> QED
      BY <3>2, <3>3
  <2>2. started \in Seq(Messages) /\ accepted \in Seq(Messages) /\ outgoingQueue \in Seq(Messages)
        /\ Len(outgoingQueue) <= OutgoingQueueMax
    BY DEF OrderInv, TakenOK, Inv, QueueOK
  <2>3. FlagsOK /\ BaseOK
    BY DEF OrderInv, Inv
  <2> QED
    BY <2>1, <2>2, <2>3 DEF TypeOK, FlagsOK, BaseOK, Turns
<1> QED
  BY <1>1, <1>2, OrderNext, PTL DEF Spec

(* Never two loops over two queries, however a finished or stalled turn    *)
(* winds down.                                                             *)
THEOREM OneLoop == ASSUME ~EarlySend PROVE Spec => []OneTurnAtATime
<1>1. Inv => OneTurnAtATime
  BY DEF Inv, LoopOK
<1> QED
  BY <1>1, InitInv, NextInv, PTL DEF Spec

(* A busy session has its watchdog armed or a prompt open. *)
THEOREM AlwaysWatched == ASSUME ~EarlySend PROVE Spec => []BusyIsWatched
<1>1. Inv => BusyIsWatched
  <2> SUFFICES ASSUME Inv, isBusy, armed # currentMessage
               PROVE  timeoutPaused /\ \E m \in Messages : prompts[m] > 0
    BY DEF BusyIsWatched
  <2>1. pauseCount > 0 /\ timeoutPaused /\ currentMessage \in Live
    BY DEF Inv, PromptsOK, LoopOK
  <2>2. currentMessage \in Messages /\ prompts[currentMessage] > 0
    BY <2>1 DEF Inv, PromptsOK, Live
  <2> QED
    BY <2>1, <2>2
<1> QED
  BY <1>1, InitInv, NextInv, PTL DEF Spec

(* No watchdog runs while a user is asked, be it by a turn that was left   *)
(* behind.                                                                 *)
THEOREM PromptsPauseTheClock == Spec => []PromptStopsTheClock
<1>1. LooseInv => PromptStopsTheClock
  <2> SUFFICES ASSUME LooseInv, NEW m \in Messages, prompts[m] > 0 PROVE armed = NoTurn
    BY DEF PromptStopsTheClock
  <2>1. <<m, 1>> \in OpenPrompts
    BY DEF LooseInv, BaseOK, OpenPrompts
  <2>2. pauseCount # 0
    BY <2>1, FS_EmptySet DEF LooseInv, PauseOK
  <2> QED
    BY <2>2 DEF LooseInv, PauseOK, BaseOK
<1> QED
  BY <1>1, LooseInvariance, PTL

(* Stop, destroy and the watchdog reach the turn the session is busy with. *)
THEOREM StopIsHeard == ASSUME ~EarlySend PROVE Spec => []StopReachesTheTurn
<1>1. Inv => StopReachesTheTurn
  BY DEF Inv, LoopOK, StopReachesTheTurn
<1> QED
  BY <1>1, InitInv, NextInv, PTL DEF Spec

(* The stop flag is only set while the turn it is meant for winds down. *)
THEOREM StopIsForThisTurn == Spec => []StopFlagIsFresh
<1>1. LooseInv => StopFlagIsFresh
  BY DEF LooseInv, HandleOK
<1> QED
  BY <1>1, LooseInvariance, PTL

(* Messages start their turns in the order the session took them, whatever *)
(* is queued, dropped, cancelled or refused between.                       *)
THEOREM NoOvertaking == ASSUME ~EarlySend PROVE Spec => []FirstComeFirstServed
<1>1. Init => OrderInv
  BY InitInv DEF OrderInv, Init, TakenOK, OrderOK
<1>2. OrderInv => FirstComeFirstServed
  <2> SUFFICES ASSUME OrderInv, NEW i \in DOMAIN started, NEW j \in DOMAIN started, i < j
               PROVE  Position(started[i]) < Position(started[j])
    BY DEF FirstComeFirstServed
  <2>1. accepted \in Seq(Messages) /\ started \in Seq(Messages)
    BY DEF OrderInv, TakenOK
  <2>2. \A k \in 1..Len(accepted) : Position(accepted[k]) = k
    <3> SUFFICES ASSUME NEW k \in 1..Len(accepted) PROVE Position(accepted[k]) = k
      OBVIOUS
    <3>1. k \in DOMAIN accepted /\ DOMAIN accepted = 1..Len(accepted)
      BY <2>1
    <3>2. \A n \in DOMAIN accepted : accepted[n] = accepted[k] => n = k
      BY <3>1 DEF OrderInv, TakenOK
    <3> QED
      BY <3>1, <3>2 DEF Position
  <2>3. Before(accepted, started[i], started[j])
    BY <2>1 DEF OrderInv, OrderOK
  <2>4. PICK a \in 1..Len(accepted), b \in 1..Len(accepted) :
          a < b /\ accepted[a] = started[i] /\ accepted[b] = started[j]
    BY <2>3 DEF Before
  <2> QED
    BY <2>2, <2>4
<1> QED
  BY <1>1, <1>2, OrderNext, PTL DEF Spec
-----------------------------------------------------------------------------
(* Implementation of TurnLine.                                             *)

(* No follow-up is lost: a message that waits is in the queue or in        *)
(* flight.                                                                 *)
NothingLost == \A x \in Messages : /\ pc[x] = "queued" => x \in Queued
                                   /\ pc[x] = "due" => x = redispatch

(* Cancelling takes one message from the queue. *)
LEMMA CancelledOnly ==
  ASSUME LineOK, NEW m \in Messages, CancelQueuedMessage(m)
  PROVE  Queued \ {m} \subseteq Queued'
<1>1. outgoingQueue \in Seq(Messages) /\ Len(outgoingQueue) \in Nat
      /\ DOMAIN outgoingQueue = 1..Len(outgoingQueue)
  BY LenProperties DEF LineOK
<1>2. PICK i \in 1..Len(outgoingQueue) :
        /\ outgoingQueue[i] = m
        /\ outgoingQueue' = [j \in 1 .. Len(outgoingQueue) - 1 |->
                               outgoingQueue[IF j < i THEN j ELSE j + 1]]
  BY <1>1 DEF CancelQueuedMessage
<1> SUFFICES ASSUME NEW k \in 1..Len(outgoingQueue), outgoingQueue[k] # m
             PROVE  \E j \in DOMAIN outgoingQueue' : outgoingQueue'[j] = outgoingQueue[k]
  BY <1>1 DEF Queued
<1>3. DOMAIN outgoingQueue' = 1 .. Len(outgoingQueue) - 1
  BY <1>2
<1>4. CASE k < i
  <2>1. k \in 1 .. Len(outgoingQueue) - 1
    BY <1>1, <1>4
  <2> QED
    BY <1>2, <1>3, <1>4, <2>1
<1>5. CASE k > i
  <2>1. k - 1 \in 1 .. Len(outgoingQueue) - 1 /\ ~(k - 1 < i) /\ (k - 1) + 1 = k
    BY <1>1, <1>5
  <2> QED
    BY <1>2, <1>3, <2>1
<1> QED
  BY <1>2, <1>4, <1>5

(* Every step keeps what waits within reach: the finally block puts the    *)
(* head of the queue in flight, and an overflow, a stop and the loss of    *)
(* the session drop what they take out.                                    *)
LEMMA LostStep ==
  ASSUME LooseInv, NothingLost, [Next]_vars
  PROVE  NothingLost'
<1>1. /\ pc \in [Messages -> States] /\ outgoingQueue \in Seq(Messages)
      /\ redispatch \in Turns
      /\ \A x \in Queued : x \in Messages /\ pc[x] = "queued"
  BY LenProperties, ElementOfSeq DEF LooseInv, BaseOK, LineOK, Queued
<1>2. ASSUME NEW m \in Messages, SendMessage(m), redispatch \in {NoTurn, m}, pc[m] \in {"new", "due"}
      PROVE  NothingLost'
  <2>1. CASE Refuse(m)
    BY <1>1, <1>2, <2>1 DEF Refuse, NothingLost
  <2>2. CASE Enqueue(m) /\ outgoingQueue' = outgoingQueue /\ pc' = [pc EXCEPT ![m] = "dropped"]
    BY <1>1, <1>2, <2>2 DEF NothingLost, Queued
  <2>3. CASE /\ Enqueue(m) /\ outgoingQueue' = Append(outgoingQueue, m)
             /\ pc' = [pc EXCEPT ![m] = "queued"]
    <3>1. Queued' = Queued \cup {m}
      <4>1. /\ Len(outgoingQueue) \in Nat /\ DOMAIN outgoingQueue = 1..Len(outgoingQueue)
            /\ DOMAIN outgoingQueue' = 1 .. Len(outgoingQueue) + 1
            /\ outgoingQueue'[Len(outgoingQueue) + 1] = m
            /\ \A i \in 1..Len(outgoingQueue) : outgoingQueue'[i] = outgoingQueue[i]
        BY <1>1, <2>3, AppendProperties, LenProperties
      <4>2. \A i \in DOMAIN outgoingQueue' :
              i \in 1..Len(outgoingQueue) \/ i = Len(outgoingQueue) + 1
        BY <4>1
      <4>3. Len(outgoingQueue) + 1 \in DOMAIN outgoingQueue'
            /\ 1..Len(outgoingQueue) \subseteq DOMAIN outgoingQueue'
        BY <4>1
      <4> QED
        BY <4>1, <4>2, <4>3 DEF Queued
    <3> QED
      BY <1>1, <1>2, <2>3, <3>1 DEF NothingLost
  <2>4. CASE StartTurn(m)
    BY <1>1, <1>2, <2>4 DEF StartTurn, NothingLost, Queued
  <2> QED
    BY <1>2, <2>1, <2>2, <2>3, <2>4 DEF SendMessage, Enqueue
<1>3. ASSUME NEW m \in Messages, redispatch = NoTurn, UserSends(m) PROVE NothingLost'
  BY <1>2, <1>3 DEF UserSends
<1>4. CASE Redispatch
  <2>1. redispatch \in Messages /\ pc[redispatch] = "due" /\ SendMessage(redispatch)
    BY <1>1, <1>4 DEF Redispatch, LooseInv, LineOK, Turns
  <2> QED
    BY <1>2, <2>1
<1>5. ASSUME NEW m \in Messages, redispatch = NoTurn, QueryThrows(m) \/ QueryEnds(m)
      PROVE  NothingLost'
  <2>1. Finally(m) /\ m \in Live /\ pc[m] # "queued"
    BY <1>5 DEF QueryThrows, QueryEnds, Live
  <2> DEFINE next == IF outgoingQueue = <<>> \/ destroying \/ stdinDisabled
                     THEN NoTurn ELSE Head(outgoingQueue)
             discarded == IF stdinDisabled /\ ~destroying THEN Queued ELSE {}
  <2>2. /\ pc' = [x \in Messages |-> IF x = m THEN "done"
                                   ELSE IF x = next THEN "due"
                                   ELSE IF x \in discarded THEN "dropped" ELSE pc[x]]
        /\ redispatch' = next
        /\ outgoingQueue' = IF next # NoTurn THEN Tail(outgoingQueue)
                            ELSE IF discarded # {} THEN <<>> ELSE outgoingQueue
    BY <2>1 DEF Finally
  <2>3. next # NoTurn => Queued \ {next} \subseteq Queued'
    <3> SUFFICES ASSUME next # NoTurn, NEW x \in Queued, x # next PROVE x \in Queued'
      OBVIOUS
    <3>1. outgoingQueue # <<>> /\ next = outgoingQueue[1] /\ outgoingQueue' = Tail(outgoingQueue)
      BY <1>1, <2>2, HeadTailProperties, EmptySeq
    <3>2. PICK k \in 1..Len(outgoingQueue) : outgoingQueue[k] = x
      BY <1>1, LenProperties DEF Queued
    <3>3. /\ Len(outgoingQueue) \in Nat /\ Len(outgoingQueue') = Len(outgoingQueue) - 1
          /\ outgoingQueue' \in Seq(Messages)
          /\ \A i \in 1..Len(outgoingQueue') : outgoingQueue'[i] = outgoingQueue[i + 1]
      BY <1>1, <3>1, HeadTailProperties, LenProperties
    <3>4. k - 1 \in 1..Len(outgoingQueue') /\ (k - 1) + 1 = k
      BY <3>1, <3>2, <3>3
    <3>5. outgoingQueue'[k - 1] = x /\ k - 1 \in DOMAIN outgoingQueue'
      BY <3>2, <3>3, <3>4, LenProperties
    <3> QED
      BY <3>5 DEF Queued
  <2>4. next = NoTurn /\ discarded = {} => Queued' = Queued
    BY <2>2 DEF Queued
  <2>5. discarded # {} => next = NoTurn /\ discarded = Queued
    OBVIOUS
  <2> HIDE DEF next, discarded
  <2>6. ASSUME NEW x \in Messages, pc'[x] = "queued" PROVE x \in Queued'
    <3>1. pc[x] = "queued" /\ x # next /\ x \notin discarded
      BY <1>1, <2>2, <2>6
    <3>2. x \in Queued
      BY <3>1 DEF NothingLost
    <3> QED
      BY <2>3, <2>4, <2>5, <3>1, <3>2
  <2>7. ASSUME NEW x \in Messages, pc'[x] = "due" PROVE x = redispatch'
    <3>1. x = next \/ pc[x] = "due"
      BY <1>1, <2>2, <2>7
    <3> QED
      BY <1>5, <2>2, <3>1 DEF NothingLost
  <2> QED
    BY <2>6, <2>7 DEF NothingLost
<1>6. ASSUME NEW m \in Messages, CancelQueuedMessage(m) PROVE NothingLost'
  <2>1. Queued \ {m} \subseteq Queued' /\ pc' = [pc EXCEPT ![m] = "dropped"]
        /\ redispatch' = redispatch
    BY <1>6, CancelledOnly DEF CancelQueuedMessage, LooseInv
  <2> QED
    BY <1>1, <2>1 DEF NothingLost
<1>7. ASSUME NEW m \in Messages, ResultArrives(m) \/ EmitResult(m) PROVE NothingLost'
  <2>1. /\ \A x \in Messages : pc'[x] \in {"queued", "due"} => pc[x] = pc'[x]
        /\ UNCHANGED <<outgoingQueue, redispatch>>
    BY <1>1, <1>7 DEF ResultArrives, EmitResult, queueVars
  <2> QED
    BY <2>1 DEF NothingLost, Queued
<1>8. CASE Interrupt \/ Destroy
  <2>1. pc' = [x \in Messages |-> IF x \in Queued THEN "dropped" ELSE pc[x]]
        /\ redispatch' = redispatch
    BY <1>8 DEF Interrupt, Destroy
  <2> QED
    BY <1>1, <2>1 DEF NothingLost
<1>9. ASSUME UNCHANGED <<pc, outgoingQueue, redispatch>> PROVE NothingLost'
  BY <1>9 DEF NothingLost, Queued
<1>10. ASSUME NEW m \in Messages, PermissionRequest(m) \/ PermissionResolved(m) \/ SdkEvent(m)
       PROVE  NothingLost'
  BY <1>9, <1>10 DEF PermissionRequest, PermissionResolved, SdkEvent, queueVars
<1>11. CASE WatchdogFires \/ StdinDisabled \/ UNCHANGED vars
  BY <1>9, <1>11 DEF WatchdogFires, StdinDisabled, vars, queueVars
<1> QED
  BY <1>3, <1>4, <1>5, <1>6, <1>7, <1>8, <1>10, <1>11 DEF Next, Turn

(* Both hold at any time. *)
LEMMA Whereabouts == Spec => [](LooseInv /\ NothingLost)
<1>1. Init => NothingLost
  BY DEF Init, NothingLost
<1>2. LooseInv /\ NothingLost /\ [Next]_vars => NothingLost'
  BY LostStep
<1> QED
  BY LooseInvariance, <1>1, <1>2, PTL DEF Spec

(* No follow-up is lost, whenever users send: a message that sendMessage   *)
(* queued is in the outgoing queue or on its way to its turn, until it was *)
(* sent or reported as dropped (_outgoingQueue, dequeueNextOutgoing).      *)
THEOREM NothingIsLost == Spec => []NothingLost
BY Whereabouts, PTL

(* The stages of the line are those of the messages. *)
LEMMA StageIs ==
  /\ Line!Waiting = {m \in Messages : StageOf(m) = "waiting"}
  /\ Line!Served = {m \in Messages : StageOf(m) = "served"}
BY DEF Line!Waiting, Line!Served

(* A step that moves one message, and drops some that wait. *)
LEMMA MoveIs ==
  ASSUME NEW m, NEW to, NEW S,
         \A x \in Messages : StageOf(x)' = IF x = m THEN to
                                           ELSE IF x \in S THEN "dropped" ELSE StageOf(x)
  PROVE  Line!Move(m, to, S)
<1>1. [x \in Messages |-> StageOf(x)]' = [x \in Messages |-> StageOf(x)']
  OBVIOUS
<1> QED
  BY <1>1 DEF Line!Move

(* What no client of the session sees. *)
LEMMA StutterIs ==
  ASSUME \A x \in Messages : StageOf(x)' = StageOf(x), accepted' = accepted
  PROVE  UNCHANGED Line!vars
<1>1. [x \in Messages |-> StageOf(x)]' = [x \in Messages |-> StageOf(x)]
  OBVIOUS
<1> QED
  BY <1>1 DEF Line!vars

(* The stages, one by one. *)
LEMMA StageCases ==
  ASSUME pc \in [Messages -> States], NEW m \in Messages
  PROVE  /\ StageOf(m) = "new" <=> pc[m] = "new"
         /\ StageOf(m) = "waiting" <=> pc[m] \in {"queued", "due"}
         /\ StageOf(m) = "served" <=> m \in Live
         /\ StageOf(m) = "over" <=> pc[m] = "done"
         /\ StageOf(m) = "dropped" <=> pc[m] = "dropped"
         /\ m \in Live <=> pc[m] \in {"streaming", "snapshot", "resulted"}
BY DEF StageOf, Live, States

(* Every step of the session is a step of the line, or none.  Where no     *)
(* loop runs a turn begins for the message in flight, or the line is empty *)
(* and it begins for a new one.                                            *)
LEMMA LineStep ==
  ASSUME LooseInv, LooseInv', NothingLost, ~EarlySend => OrderInv, [Next]_vars
  PROVE  [Line!Next]_(Line!vars)
<1>0. /\ pc \in [Messages -> States] /\ pc' \in [Messages -> States]
      /\ redispatch \in Turns
      /\ \A x \in Queued : x \in Messages /\ pc[x] = "queued"
  BY LenProperties, ElementOfSeq DEF LooseInv, BaseOK, LineOK, Queued
<1>1. \A x \in Messages : /\ StageOf(x) = "waiting" <=> pc[x] \in {"queued", "due"}
                          /\ StageOf(x) = "served" <=> x \in Live
                          /\ StageOf(x) = "new" <=> pc[x] = "new"
  BY <1>0, StageCases
<1>2. \A x \in Messages : pc'[x] = pc[x] => StageOf(x)' = StageOf(x)
  BY DEF StageOf, Live
<1>3. \A x \in Messages : /\ pc'[x] = "dropped" => StageOf(x)' = "dropped"
                          /\ pc'[x] \in {"queued", "due"} => StageOf(x)' = "waiting"
                          /\ pc'[x] \in {"streaming", "snapshot", "resulted"} => StageOf(x)' = "served"
                          /\ pc'[x] = "done" => StageOf(x)' = "over"
  BY DEF StageOf, Live
<1>4. Queued \subseteq Line!Waiting
  BY <1>0, <1>1, StageIs
<1>5. ASSUME NEW m \in Messages, redispatch = NoTurn, UserSends(m) PROVE Line!Next
  <2>1. /\ pc[m] = "new" /\ StageOf(m) = "new" /\ accepted' = Append(accepted, m)
        /\ SendMessage(m) /\ (EarlySend \/ isBusy \/ Live = {})
    BY <1>1, <1>5 DEF UserSends
  <2>2. CASE Refuse(m)
    <3>1. Line!Move(m, "dropped", Queued)
      BY <1>0, <1>2, <1>3, <2>2, MoveIs DEF Refuse
    <3> QED
      BY <1>4, <2>1, <3>1 DEF Line!Next, Line!Take
  <2>3. CASE Enqueue(m)
    <3>1. Line!Move(m, "dropped", {}) \/ Line!Move(m, "waiting", {})
      <4>1. CASE pc' = [pc EXCEPT ![m] = "dropped"]
        BY <1>0, <1>2, <1>3, <4>1, MoveIs
      <4>2. CASE pc' = [pc EXCEPT ![m] = "queued"]
        BY <1>0, <1>2, <1>3, <4>2, MoveIs
      <4> QED
        BY <2>3, <4>1, <4>2 DEF Enqueue
    <3> QED
      BY <2>1, <3>1 DEF Line!Next, Line!Take
  <2>4. CASE StartTurn(m)
    <3>1. Line!Move(m, "served", {})
      BY <1>0, <1>2, <1>3, <2>4, MoveIs DEF StartTurn
    <3>2. ASSUME ~EarlySend PROVE Line!Served = {} /\ Line!Waiting = {}
      <4>1. Live = {} /\ outgoingQueue = <<>>
        BY <1>5, <2>1, <2>4, <3>2 DEF StartTurn, OrderInv, Inv, QueueOK
      <4>2. Queued = {}
        BY <4>1 DEF Queued
      <4> QED
        BY <1>1, <1>5, <4>1, <4>2, StageIs DEF NothingLost
    <3> QED
      BY <2>1, <3>1, <3>2 DEF Line!Next, Line!Take
  <2> QED
    BY <2>1, <2>2, <2>3, <2>4 DEF SendMessage
<1>6. ASSUME Redispatch PROVE [Line!Next]_(Line!vars)
  <2> DEFINE m == redispatch
  <2>1. /\ m \in Messages /\ pc[m] = "due" /\ StageOf(m) = "waiting" /\ accepted' = accepted
        /\ SendMessage(m)
    BY <1>0, <1>1, <1>6 DEF Redispatch, LooseInv, LineOK, Turns
  <2> HIDE DEF m
  <2>2. CASE Refuse(m)
    <3>1. Line!Move(m, "dropped", Queued)
      BY <1>0, <1>2, <1>3, <2>2, MoveIs DEF Refuse
    <3> QED
      BY <1>4, <2>1, <3>1 DEF Line!Next, Line!Drop
  <2>3. CASE Enqueue(m)
    <3>1. CASE pc' = [pc EXCEPT ![m] = "dropped"]
      <4>1. Line!Move(m, "dropped", {})
        BY <1>0, <1>2, <1>3, <3>1, MoveIs
      <4> QED
        BY <2>1, <4>1 DEF Line!Next, Line!Drop
    <3>2. CASE pc' = [pc EXCEPT ![m] = "queued"]
      <4>1. \A x \in Messages : StageOf(x)' = StageOf(x)
        BY <1>0, <1>2, <1>3, <2>1, <3>2
      <4> QED
        BY <2>1, <4>1, StutterIs
    <3> QED
      BY <2>3, <3>1, <3>2 DEF Enqueue
  <2>4. CASE StartTurn(m)
    <3>1. Line!Move(m, "served", {})
      BY <1>0, <1>2, <1>3, <2>4, MoveIs DEF StartTurn
    <3>2. ASSUME ~EarlySend
          PROVE  Line!Served = {} /\ \A n \in Line!Waiting \ {m} : Line!AheadOf(m, n)
      <4>1. redispatch # NoTurn /\ Inv /\ TakenOK /\ OrderOK
        BY <1>6, <3>2 DEF Redispatch, OrderInv
      <4>2. Line!Served = {}
        BY <1>1, <4>1, StageIs DEF Inv, QueueOK
      <4>3. ASSUME NEW n \in Line!Waiting, n # m PROVE Line!AheadOf(m, n)
        <5>1. n \in Messages /\ n \in Queued
          BY <1>1, <4>3, StageIs DEF NothingLost, m
        <5>2. \E k \in 1..Len(outgoingQueue) : outgoingQueue[k] = n
          BY <5>1, LenProperties DEF Queued, LooseInv, LineOK
        <5>3. Before(accepted, m, n)
          BY <4>1, <5>2 DEF OrderOK, m
        <5>4. DOMAIN accepted = 1..Len(accepted)
          BY <4>1, LenProperties DEF TakenOK
        <5> QED
          BY <5>3, <5>4 DEF Before, Line!AheadOf
      <4> QED
        BY <4>2, <4>3
    <3> QED
      BY <2>1, <3>1, <3>2 DEF Line!Next, Line!Begin
  <2> QED
    BY <2>1, <2>2, <2>3, <2>4 DEF SendMessage
<1>7. ASSUME NEW m \in Messages, QueryThrows(m) \/ QueryEnds(m) PROVE Line!Next
  <2>1. Finally(m) /\ m \in Live /\ StageOf(m) = "served" /\ accepted' = accepted
    BY <1>1, <1>7 DEF QueryThrows, QueryEnds, Live, orderVars
  <2> DEFINE next == IF outgoingQueue = <<>> \/ destroying \/ stdinDisabled
                     THEN NoTurn ELSE Head(outgoingQueue)
             discarded == IF stdinDisabled /\ ~destroying THEN Queued ELSE {}
  <2>2. pc' = [x \in Messages |-> IF x = m THEN "done"
                                ELSE IF x = next THEN "due"
                                ELSE IF x \in discarded THEN "dropped" ELSE pc[x]]
    BY <2>1 DEF Finally
  <2>3. next \in Messages => next \in Queued /\ discarded = {}
    <3> SUFFICES ASSUME next \in Messages PROVE next \in Queued /\ discarded = {}
      OBVIOUS
    <3>1. outgoingQueue # <<>> /\ ~stdinDisabled /\ outgoingQueue \in Seq(Messages)
          /\ next = Head(outgoingQueue)
      BY DEF LooseInv, LineOK
    <3>2. next = outgoingQueue[1] /\ 1 \in DOMAIN outgoingQueue
      BY <3>1, HeadTailProperties, EmptySeq, LenProperties
    <3> QED
      BY <3>1, <3>2 DEF Queued
  <2>4. discarded \subseteq Queued
    OBVIOUS
  <2> HIDE DEF next, discarded
  <2>5. \A x \in Messages : StageOf(x)' = IF x = m THEN "over"
                                          ELSE IF x \in discarded THEN "dropped" ELSE StageOf(x)
    <3> SUFFICES ASSUME NEW x \in Messages
                 PROVE  StageOf(x)' = IF x = m THEN "over"
                                      ELSE IF x \in discarded THEN "dropped" ELSE StageOf(x)
      OBVIOUS
    <3>1. CASE x = m
      BY <1>3, <2>2, <3>1
    <3>2. CASE x # m /\ x = next
      <4>1. x \in Queued /\ x \notin discarded /\ pc'[x] = "due"
        BY <2>2, <2>3, <3>2
      <4> QED
        BY <1>0, <1>1, <1>3, <3>2, <4>1
    <3>3. CASE x # m /\ x # next /\ x \in discarded
      BY <1>3, <2>2, <3>3
    <3>4. CASE x # m /\ x # next /\ x \notin discarded
      BY <1>2, <2>2, <3>4
    <3> QED
      BY <3>1, <3>2, <3>3, <3>4
  <2>6. Line!Move(m, "over", discarded)
    BY <2>5, MoveIs
  <2>7. discarded \in SUBSET Line!Waiting
    BY <1>4, <2>4
  <2> QED
    BY <2>1, <2>6, <2>7 DEF Line!Next, Line!End
<1>8. ASSUME NEW m \in Messages, CancelQueuedMessage(m) PROVE Line!Next
  <2>1. pc' = [pc EXCEPT ![m] = "dropped"] /\ accepted' = accepted /\ pc[m] = "queued"
    BY <1>8, LineCancel DEF CancelQueuedMessage, orderVars, LooseInv
  <2>2. Line!Move(m, "dropped", {})
    BY <1>0, <1>2, <1>3, <2>1, MoveIs
  <2> QED
    BY <1>1, <2>1, <2>2 DEF Line!Next, Line!Drop
<1>9. ASSUME Interrupt \/ Destroy PROVE [Line!Next]_(Line!vars)
  <2>1. pc' = [x \in Messages |-> IF x \in Queued THEN "dropped" ELSE pc[x]]
        /\ accepted' = accepted
    BY <1>9 DEF Interrupt, Destroy, orderVars
  <2>2. CASE Queued = {}
    BY <1>2, <2>1, <2>2, StutterIs
  <2>3. CASE Queued # {}
    <3>1. PICK m \in Queued : TRUE
      BY <2>3
    <3>2. Line!Move(m, "dropped", Queued)
      BY <1>0, <1>2, <1>3, <2>1, <3>1, MoveIs
    <3>3. m \in Messages /\ StageOf(m) = "waiting"
      BY <1>0, <1>1, <3>1
    <3> QED
      BY <1>4, <2>1, <3>2, <3>3 DEF Line!Next, Line!Drop
  <2> QED
    BY <2>2, <2>3
<1>10. ASSUME NEW m \in Messages, ResultArrives(m) \/ EmitResult(m) PROVE UNCHANGED Line!vars
  <2>1. /\ m \in Live /\ accepted' = accepted
        /\ pc' = [pc EXCEPT ![m] = "snapshot"] \/ pc' = [pc EXCEPT ![m] = "resulted"]
    BY <1>10 DEF ResultArrives, EmitResult, orderVars, Live
  <2>2. \A x \in Messages : StageOf(x)' = StageOf(x)
    BY <1>0, <1>1, <1>2, <1>3, <2>1
  <2> QED
    BY <2>1, <2>2, StutterIs
<1>11. ASSUME UNCHANGED <<pc, accepted>> PROVE UNCHANGED Line!vars
  BY <1>2, <1>11, StutterIs
<1>12. ASSUME NEW m \in Messages, PermissionRequest(m) \/ PermissionResolved(m) \/ SdkEvent(m)
       PROVE  UNCHANGED Line!vars
  BY <1>11, <1>12 DEF PermissionRequest, PermissionResolved, SdkEvent, orderVars
<1>13. ASSUME WatchdogFires \/ StdinDisabled \/ UNCHANGED vars PROVE UNCHANGED Line!vars
  BY <1>11, <1>13 DEF WatchdogFires, StdinDisabled, vars, orderVars
<1> QED
  BY <1>5, <1>6, <1>7, <1>8, <1>9, <1>10, <1>12, <1>13 DEF Next, Turn

(* Each message is taken once and served at most once, and what waits is   *)
(* served or dropped; if users do not send while the loop of an ended turn *)
(* runs, one message is served at a time, in the order they were taken.    *)
THEOREM ImplementsLine == Spec => LineSpec
<1>1. Init => Line!Init
  <2> SUFFICES ASSUME Init PROVE Line!Init
    OBVIOUS
  <2>1. \A x \in Messages : StageOf(x) = "new"
    BY DEF Init, StageOf, Live
  <2> QED
    BY <2>1 DEF Init, Line!Init
<1>2. LooseInv /\ LooseInv' /\ NothingLost /\ (~EarlySend => OrderInv) /\ [Next]_vars
        => [Line!Next]_(Line!vars)
  BY LineStep
<1>3. ~EarlySend => (Spec => []OrderInv)
  <2>1. Init => OrderInv
    BY InitInv DEF OrderInv, Init, TakenOK, OrderOK
  <2>2. ASSUME ~EarlySend PROVE Spec => []OrderInv
    <3>1. OrderInv /\ [Next]_vars => OrderInv'
      BY <2>2, OrderNext
    <3> QED
      BY <2>1, <3>1, PTL DEF Spec
  <2> QED
    BY <2>2
<1>4. CASE EarlySend
  <2>1. LooseInv /\ LooseInv' /\ NothingLost /\ [Next]_vars => [Line!Next]_(Line!vars)
    BY <1>2, <1>4
  <2> QED
    BY Whereabouts, <1>1, <2>1, PTL DEF Spec, LineSpec, Line!Spec
<1>5. CASE ~EarlySend
  <2>1. LooseInv /\ LooseInv' /\ NothingLost /\ OrderInv /\ [Next]_vars => [Line!Next]_(Line!vars)
    BY <1>2, <1>5
  <2>2. Spec => []OrderInv
    BY <1>3, <1>5
  <2> QED
    BY Whereabouts, <1>1, <2>1, <2>2, PTL DEF Spec, LineSpec, Line!Spec
<1> QED
  BY <1>4, <1>5
=============================================================================
