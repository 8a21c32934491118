-------------------------- MODULE SupervisorProofs --------------------------
(***************************************************************************)
(* Proofs about Supervisor for every set of processes and every limit.     *)
(***************************************************************************)
EXTENDS Supervisor, TLAPS

(* With a child the port is its own and no way back is pending; giving up  *)
(* leaves no restart behind.                                               *)
ChildOK ==
  /\ OneChild
  /\ childReady => child # NoChild
  /\ child # NoChild => standby = "off" /\ ~restartTimer /\ gaveUp = "no"
  /\ gaveUp # "no" => ~restartTimer
  /\ terminalTimer => gaveUp = "serving"

BootOK ==
  ~booted => /\ child = NoChild /\ ~restartTimer /\ gaveUp = "no"
             /\ ~shuttingDown /\ exited # "0"

(* A shutdown has stopped the timer and the tunnel, and whoever does not   *)
(* wait for a child has none.                                              *)
StopOK ==
  /\ shuttingDown => booted /\ ~restartTimer /\ tunnel \in {"stopping", "stopped"}
  /\ tunnel = "stopping" => shuttingDown
  /\ exitWithChild => shuttingDown
  /\ shuttingDown /\ ~exitWithChild => child = NoChild
  /\ exited = "0" => shuttingDown /\ child = NoChild

(* The counters stay below their limits until the limit ends the run.      *)
CountsOK ==
  exited = "no" => /\ deployFailureCount < MaxDeployFailures
                   /\ gaveUp = "no" => restartCount <= MaxRestarts

Inv == TypeOK /\ ChildOK /\ BootOK /\ StopOK /\ CountsOK /\ NeverStranded

USE SupervisorAssumption DEF SupervisorAssumption
-----------------------------------------------------------------------------
(* Initially there is no child and nothing is pending. *)
LEMMA InitInv == Init => Inv
<1> SUFFICES ASSUME Init PROVE Inv
  OBVIOUS
<1> USE DEF Init
<1>1. FlagTypes
  BY DEF FlagTypes
<1>2. StateTypes
  BY DEF StateTypes
<1>3. Limits
  BY DEF Limits
<1>4. ChildOK
  BY DEF ChildOK, OneChild
<1>5. BootOK
  BY DEF BootOK
<1>6. StopOK
  BY DEF StopOK
<1>7. CountsOK
  BY DEF CountsOK
<1>8. NeverStranded
  BY DEF NeverStranded
<1> QED
  BY <1>1, <1>2, <1>3, <1>4, <1>5, <1>6, <1>7, <1>8 DEF Inv, TypeOK

(* Every step keeps the invariant. *)
LEMMA NextInv == Inv /\ [Next]_vars => Inv'
<1> SUFFICES ASSUME Inv, [Next]_vars PROVE Inv'
  OBVIOUS
<1>0. FlagTypes /\ StateTypes /\ Limits /\ ChildOK /\ BootOK /\ StopOK /\ CountsOK /\ NeverStranded
  BY DEF Inv, TypeOK
<1> USE DEF childVars, drainVars, restartVars, standbyVars, deployVars, terminalVars, stopVars
<1>1. CASE exited = "no" /\ TunnelStarts
  <2>1. FlagTypes'
    BY <1>0, <1>1 DEF TunnelStarts, FlagTypes
  <2>2. StateTypes'
    BY <1>0, <1>1 DEF TunnelStarts, StateTypes
  <2>3. Limits'
    BY <1>0, <1>1 DEF TunnelStarts, Limits, CountsOK, ChildOK
  <2>4. ChildOK'
    BY <1>0, <1>1 DEF TunnelStarts, ChildOK, OneChild, BootOK, FlagTypes, StateTypes, Limits
  <2>5. BootOK'
    BY <1>0, <1>1 DEF TunnelStarts, BootOK, ChildOK, StopOK
  <2>6. StopOK'
    BY <1>0, <1>1 DEF TunnelStarts, StopOK, ChildOK, BootOK, FlagTypes, StateTypes, Limits
  <2>7. CountsOK'
    BY <1>0, <1>1 DEF TunnelStarts, CountsOK, FlagTypes, StateTypes, Limits
  <2>8. NeverStranded'
    BY <1>0, <1>1 DEF TunnelStarts, NeverStranded, ChildOK, BootOK, FlagTypes, StateTypes, Pending
  <2> QED
    BY <2>1, <2>2, <2>3, <2>4, <2>5, <2>6, <2>7, <2>8 DEF Inv, TypeOK
<1>2. CASE exited = "no" /\ FailBoot
  <2>1. FlagTypes'
    BY <1>0, <1>2 DEF FailBoot, FlagTypes
  <2>2. StateTypes'
    BY <1>0, <1>2 DEF FailBoot, StateTypes
  <2>3. Limits'
    BY <1>0, <1>2 DEF FailBoot, Limits, CountsOK, ChildOK
  <2>4. ChildOK'
    BY <1>0, <1>2 DEF FailBoot, ChildOK, OneChild, BootOK, FlagTypes, StateTypes, Limits
  <2>5. BootOK'
    BY <1>0, <1>2 DEF FailBoot, BootOK, ChildOK, StopOK
  <2>6. StopOK'
    BY <1>0, <1>2 DEF FailBoot, StopOK, ChildOK, BootOK, FlagTypes, StateTypes, Limits
  <2>7. CountsOK'
    BY <1>0, <1>2 DEF FailBoot, CountsOK, FlagTypes, StateTypes, Limits
  <2>8. NeverStranded'
    BY <1>0, <1>2 DEF FailBoot, NeverStranded, ChildOK, BootOK, FlagTypes, StateTypes, Pending
  <2> QED
    BY <2>1, <2>2, <2>3, <2>4, <2>5, <2>6, <2>7, <2>8 DEF Inv, TypeOK
<1>3. CASE exited = "no" /\ StartFirstChild
  <2>1. FlagTypes'
    BY <1>0, <1>3 DEF StartFirstChild, StartChild, Fork, StopStandbyServer, FlagTypes
  <2>2. StateTypes'
    BY <1>0, <1>3 DEF StartFirstChild, StartChild, Fork, StopStandbyServer, StateTypes
  <2>3. Limits'
    BY <1>0, <1>3 DEF StartFirstChild, StartChild, Fork, StopStandbyServer, Limits, CountsOK,
         ChildOK
  <2>4. ChildOK'
    BY <1>0, <1>3 DEF StartFirstChild, StartChild, Fork, StopStandbyServer, ChildOK, OneChild,
         BootOK, FlagTypes, StateTypes, Limits
  <2>5. BootOK'
    BY <1>0, <1>3 DEF StartFirstChild, StartChild, Fork, StopStandbyServer, BootOK, ChildOK, StopOK
  <2>6. StopOK'
    BY <1>0, <1>3 DEF StartFirstChild, StartChild, Fork, StopStandbyServer, StopOK, ChildOK, BootOK,
         FlagTypes, StateTypes, Limits
  <2>7. CountsOK'
    BY <1>0, <1>3 DEF StartFirstChild, StartChild, Fork, StopStandbyServer, CountsOK, FlagTypes,
         StateTypes, Limits
  <2>8. NeverStranded'
    BY <1>0, <1>3 DEF StartFirstChild, StartChild, Fork, StopStandbyServer, NeverStranded, ChildOK,
         BootOK, FlagTypes, StateTypes, Pending
  <2> QED
    BY <2>1, <2>2, <2>3, <2>4, <2>5, <2>6, <2>7, <2>8 DEF Inv, TypeOK
<1>4. CASE exited = "no" /\ RestartTimerFires
  <2>1. FlagTypes'
    BY <1>0, <1>4 DEF RestartTimerFires, StartChild, Fork, StopStandbyServer, FlagTypes
  <2>2. StateTypes'
    BY <1>0, <1>4 DEF RestartTimerFires, StartChild, Fork, StopStandbyServer, StateTypes
  <2>3. Limits'
    BY <1>0, <1>4 DEF RestartTimerFires, StartChild, Fork, StopStandbyServer, Limits, CountsOK,
         ChildOK
  <2>4. ChildOK'
    BY <1>0, <1>4 DEF RestartTimerFires, StartChild, Fork, StopStandbyServer, ChildOK, OneChild,
         BootOK, FlagTypes, StateTypes, Limits
  <2>5. BootOK'
    BY <1>0, <1>4 DEF RestartTimerFires, StartChild, Fork, StopStandbyServer, BootOK, ChildOK,
         StopOK
  <2>6. StopOK'
    BY <1>0, <1>4 DEF RestartTimerFires, StartChild, Fork, StopStandbyServer, StopOK, ChildOK,
         BootOK, FlagTypes, StateTypes, Limits
  <2>7. CountsOK'
    BY <1>0, <1>4 DEF RestartTimerFires, StartChild, Fork, StopStandbyServer, CountsOK, FlagTypes,
         StateTypes, Limits
  <2>8. NeverStranded'
    BY <1>0, <1>4 DEF RestartTimerFires, StartChild, Fork, StopStandbyServer, NeverStranded,
         ChildOK, BootOK, FlagTypes, StateTypes, Pending
  <2> QED
    BY <2>1, <2>2, <2>3, <2>4, <2>5, <2>6, <2>7, <2>8 DEF Inv, TypeOK
<1>5. CASE exited = "no" /\ ChildReady
  <2>1. FlagTypes'
    BY <1>0, <1>5 DEF ChildReady, StopStandbyServer, FlagTypes
  <2>2. StateTypes'
    BY <1>0, <1>5 DEF ChildReady, StopStandbyServer, StateTypes
  <2>3. Limits'
    BY <1>0, <1>5 DEF ChildReady, StopStandbyServer, Limits, CountsOK, ChildOK
  <2>4. ChildOK'
    BY <1>0, <1>5 DEF ChildReady, StopStandbyServer, ChildOK, OneChild, BootOK, FlagTypes,
         StateTypes, Limits
  <2>5. BootOK'
    BY <1>0, <1>5 DEF ChildReady, StopStandbyServer, BootOK, ChildOK, StopOK
  <2>6. StopOK'
    BY <1>0, <1>5 DEF ChildReady, StopStandbyServer, StopOK, ChildOK, BootOK, FlagTypes, StateTypes,
         Limits
  <2>7. CountsOK'
    BY <1>0, <1>5 DEF ChildReady, StopStandbyServer, CountsOK, FlagTypes, StateTypes, Limits
  <2>8. NeverStranded'
    BY <1>0, <1>5 DEF ChildReady, StopStandbyServer, NeverStranded, ChildOK, BootOK, FlagTypes,
         StateTypes, Pending
  <2> QED
    BY <2>1, <2>2, <2>3, <2>4, <2>5, <2>6, <2>7, <2>8 DEF Inv, TypeOK
<1>6. CASE exited = "no" /\ ChildExits
  <2> USE DEF Restarts, DeployFailures, DeployIsBad, StartStandbyServer, AbandonStandby, OpenStandby
  <2>1. CASE LastExit
    <3>1. FlagTypes'
      BY <1>0, <1>6, <2>1 DEF ChildExits, LastExit, FlagTypes, StateTypes
    <3>2. StateTypes'
      BY <1>0, <1>6, <2>1 DEF ChildExits, LastExit, FlagTypes, StateTypes
    <3>3. Limits'
      BY <1>0, <1>6, <2>1 DEF ChildExits, LastExit, FlagTypes, StateTypes, Limits, ChildOK,
           OneChild, CountsOK
    <3>4. ChildOK'
      BY <1>0, <1>6, <2>1 DEF ChildExits, LastExit, FlagTypes, StateTypes, Limits, ChildOK, OneChild
    <3>5. BootOK'
      BY <1>0, <1>6, <2>1 DEF ChildExits, LastExit, FlagTypes, StateTypes, Limits, ChildOK,
           OneChild, BootOK
    <3>6. StopOK'
      BY <1>0, <1>6, <2>1 DEF ChildExits, LastExit, FlagTypes, StateTypes, Limits, ChildOK,
           OneChild, StopOK, StopOK
    <3>7. CountsOK'
      BY <1>0, <1>6, <2>1 DEF ChildExits, LastExit, FlagTypes, StateTypes, Limits, ChildOK,
           OneChild, CountsOK
    <3>8. NeverStranded'
      BY <1>0, <1>6, <2>1 DEF ChildExits, LastExit, FlagTypes, StateTypes, Limits, ChildOK,
           OneChild, NeverStranded, Pending
    <3> QED
      BY <3>1, <3>2, <3>3, <3>4, <3>5, <3>6, <3>7, <3>8 DEF Inv, TypeOK
  <2>2. CASE RollBack
    <3>1. FlagTypes'
      BY <1>0, <1>6, <2>2 DEF ChildExits, RollBack, FlagTypes, StateTypes
    <3>2. StateTypes'
      BY <1>0, <1>6, <2>2 DEF ChildExits, RollBack, FlagTypes, StateTypes
    <3>3. Limits'
      BY <1>0, <1>6, <2>2 DEF ChildExits, RollBack, FlagTypes, StateTypes, Limits, ChildOK,
           OneChild, CountsOK
    <3>4. ChildOK'
      BY <1>0, <1>6, <2>2 DEF ChildExits, RollBack, FlagTypes, StateTypes, Limits, ChildOK, OneChild
    <3>5. BootOK'
      BY <1>0, <1>6, <2>2 DEF ChildExits, RollBack, FlagTypes, StateTypes, Limits, ChildOK,
           OneChild, BootOK
    <3>6. StopOK'
      BY <1>0, <1>6, <2>2 DEF ChildExits, RollBack, FlagTypes, StateTypes, Limits, ChildOK,
           OneChild, StopOK, StopOK
    <3>7. CountsOK'
      BY <1>0, <1>6, <2>2 DEF ChildExits, RollBack, FlagTypes, StateTypes, Limits, ChildOK,
           OneChild, CountsOK
    <3>8. NeverStranded'
      BY <1>0, <1>6, <2>2 DEF ChildExits, RollBack, FlagTypes, StateTypes, Limits, ChildOK,
           OneChild, NeverStranded, Pending
    <3> QED
      BY <3>1, <3>2, <3>3, <3>4, <3>5, <3>6, <3>7, <3>8 DEF Inv, TypeOK
  <2>3. CASE RollbackFails
    <3>1. FlagTypes'
      BY <1>0, <1>6, <2>3 DEF ChildExits, RollbackFails, FlagTypes, StateTypes
    <3>2. StateTypes'
      BY <1>0, <1>6, <2>3 DEF ChildExits, RollbackFails, FlagTypes, StateTypes
    <3>3. Limits'
      BY <1>0, <1>6, <2>3 DEF ChildExits, RollbackFails, FlagTypes, StateTypes, Limits, ChildOK,
           OneChild, CountsOK
    <3>4. ChildOK'
      BY <1>0, <1>6, <2>3 DEF ChildExits, RollbackFails, FlagTypes, StateTypes, Limits, ChildOK,
           OneChild
    <3>5. BootOK'
      BY <1>0, <1>6, <2>3 DEF ChildExits, RollbackFails, FlagTypes, StateTypes, Limits, ChildOK,
           OneChild, BootOK
    <3>6. StopOK'
      BY <1>0, <1>6, <2>3 DEF ChildExits, RollbackFails, FlagTypes, StateTypes, Limits, ChildOK,
           OneChild, StopOK, StopOK
    <3>7. CountsOK'
      BY <1>0, <1>6, <2>3 DEF ChildExits, RollbackFails, FlagTypes, StateTypes, Limits, ChildOK,
           OneChild, CountsOK
    <3>8. NeverStranded'
      BY <1>0, <1>6, <2>3 DEF ChildExits, RollbackFails, FlagTypes, StateTypes, Limits, ChildOK,
           OneChild, NeverStranded, Pending
    <3> QED
      BY <3>1, <3>2, <3>3, <3>4, <3>5, <3>6, <3>7, <3>8 DEF Inv, TypeOK
  <2>4. CASE GiveUp
    <3>1. FlagTypes'
      BY <1>0, <1>6, <2>4 DEF ChildExits, GiveUp, FlagTypes, StateTypes
    <3>2. StateTypes'
      BY <1>0, <1>6, <2>4 DEF ChildExits, GiveUp, FlagTypes, StateTypes
    <3>3. Limits'
      BY <1>0, <1>6, <2>4 DEF ChildExits, GiveUp, FlagTypes, StateTypes, Limits, ChildOK, OneChild,
           CountsOK
    <3>4. ChildOK'
      BY <1>0, <1>6, <2>4 DEF ChildExits, GiveUp, FlagTypes, StateTypes, Limits, ChildOK, OneChild
    <3>5. BootOK'
      BY <1>0, <1>6, <2>4 DEF ChildExits, GiveUp, FlagTypes, StateTypes, Limits, ChildOK, OneChild,
           BootOK
    <3>6. StopOK'
      BY <1>0, <1>6, <2>4 DEF ChildExits, GiveUp, FlagTypes, StateTypes, Limits, ChildOK, OneChild,
           StopOK, StopOK
    <3>7. CountsOK'
      BY <1>0, <1>6, <2>4 DEF ChildExits, GiveUp, FlagTypes, StateTypes, Limits, ChildOK, OneChild,
           CountsOK
    <3>8. NeverStranded'
      BY <1>0, <1>6, <2>4 DEF ChildExits, GiveUp, FlagTypes, StateTypes, Limits, ChildOK, OneChild,
           NeverStranded, Pending
    <3> QED
      BY <3>1, <3>2, <3>3, <3>4, <3>5, <3>6, <3>7, <3>8 DEF Inv, TypeOK
  <2>5. CASE BackOff
    <3>1. FlagTypes'
      BY <1>0, <1>6, <2>5 DEF ChildExits, BackOff, FlagTypes, StateTypes
    <3>2. StateTypes'
      BY <1>0, <1>6, <2>5 DEF ChildExits, BackOff, FlagTypes, StateTypes
    <3>3. Limits'
      BY <1>0, <1>6, <2>5 DEF ChildExits, BackOff, FlagTypes, StateTypes, Limits, ChildOK, OneChild,
           CountsOK
    <3>4. ChildOK'
      BY <1>0, <1>6, <2>5 DEF ChildExits, BackOff, FlagTypes, StateTypes, Limits, ChildOK, OneChild
    <3>5. BootOK'
      BY <1>0, <1>6, <2>5 DEF ChildExits, BackOff, FlagTypes, StateTypes, Limits, ChildOK, OneChild,
           BootOK
    <3>6. StopOK'
      BY <1>0, <1>6, <2>5 DEF ChildExits, BackOff, FlagTypes, StateTypes, Limits, ChildOK, OneChild,
           StopOK, StopOK
    <3>7. CountsOK'
      BY <1>0, <1>6, <2>5 DEF ChildExits, BackOff, FlagTypes, StateTypes, Limits, ChildOK, OneChild,
           CountsOK
    <3>8. NeverStranded'
      BY <1>0, <1>6, <2>5 DEF ChildExits, BackOff, FlagTypes, StateTypes, Limits, ChildOK, OneChild,
           NeverStranded, Pending
    <3> QED
      BY <3>1, <3>2, <3>3, <3>4, <3>5, <3>6, <3>7, <3>8 DEF Inv, TypeOK
  <2> QED
    BY <1>6, <2>1, <2>2, <2>3, <2>4, <2>5 DEF ChildExits
<1>7. CASE exited = "no" /\ DeployResetTimerFires
  <2>1. FlagTypes'
    BY <1>0, <1>7 DEF DeployResetTimerFires, FlagTypes
  <2>2. StateTypes'
    BY <1>0, <1>7 DEF DeployResetTimerFires, StateTypes
  <2>3. Limits'
    BY <1>0, <1>7 DEF DeployResetTimerFires, Limits, CountsOK, ChildOK
  <2>4. ChildOK'
    BY <1>0, <1>7 DEF DeployResetTimerFires, ChildOK, OneChild, BootOK, FlagTypes, StateTypes,
         Limits
  <2>5. BootOK'
    BY <1>0, <1>7 DEF DeployResetTimerFires, BootOK, ChildOK, StopOK
  <2>6. StopOK'
    BY <1>0, <1>7 DEF DeployResetTimerFires, StopOK, ChildOK, BootOK, FlagTypes, StateTypes, Limits
  <2>7. CountsOK'
    BY <1>0, <1>7 DEF DeployResetTimerFires, CountsOK, FlagTypes, StateTypes, Limits
  <2>8. NeverStranded'
    BY <1>0, <1>7 DEF DeployResetTimerFires, NeverStranded, ChildOK, BootOK, FlagTypes, StateTypes,
         Pending
  <2> QED
    BY <2>1, <2>2, <2>3, <2>4, <2>5, <2>6, <2>7, <2>8 DEF Inv, TypeOK
<1>8. CASE exited = "no" /\ DeployWindowCloses
  <2>1. FlagTypes'
    BY <1>0, <1>8 DEF DeployWindowCloses, FlagTypes
  <2>2. StateTypes'
    BY <1>0, <1>8 DEF DeployWindowCloses, StateTypes
  <2>3. Limits'
    BY <1>0, <1>8 DEF DeployWindowCloses, Limits, CountsOK, ChildOK
  <2>4. ChildOK'
    BY <1>0, <1>8 DEF DeployWindowCloses, ChildOK, OneChild, BootOK, FlagTypes, StateTypes, Limits
  <2>5. BootOK'
    BY <1>0, <1>8 DEF DeployWindowCloses, BootOK, ChildOK, StopOK
  <2>6. StopOK'
    BY <1>0, <1>8 DEF DeployWindowCloses, StopOK, ChildOK, BootOK, FlagTypes, StateTypes, Limits
  <2>7. CountsOK'
    BY <1>0, <1>8 DEF DeployWindowCloses, CountsOK, FlagTypes, StateTypes, Limits
  <2>8. NeverStranded'
    BY <1>0, <1>8 DEF DeployWindowCloses, NeverStranded, ChildOK, BootOK, FlagTypes, StateTypes,
         Pending
  <2> QED
    BY <2>1, <2>2, <2>3, <2>4, <2>5, <2>6, <2>7, <2>8 DEF Inv, TypeOK
<1>9. CASE exited = "no" /\ Deploy
  <2>1. FlagTypes'
    BY <1>0, <1>9 DEF Deploy, RestartChild, FlagTypes
  <2>2. StateTypes'
    BY <1>0, <1>9 DEF Deploy, RestartChild, StateTypes
  <2>3. Limits'
    BY <1>0, <1>9 DEF Deploy, RestartChild, Limits, CountsOK, ChildOK
  <2>4. ChildOK'
    BY <1>0, <1>9 DEF Deploy, RestartChild, ChildOK, OneChild, BootOK, FlagTypes, StateTypes, Limits
  <2>5. BootOK'
    BY <1>0, <1>9 DEF Deploy, RestartChild, BootOK, ChildOK, StopOK
  <2>6. StopOK'
    BY <1>0, <1>9 DEF Deploy, RestartChild, StopOK, ChildOK, BootOK, FlagTypes, StateTypes, Limits
  <2>7. CountsOK'
    BY <1>0, <1>9 DEF Deploy, RestartChild, CountsOK, FlagTypes, StateTypes, Limits
  <2>8. NeverStranded'
    BY <1>0, <1>9 DEF Deploy, RestartChild, NeverStranded, ChildOK, BootOK, FlagTypes, StateTypes, Pending
  <2> QED
    BY <2>1, <2>2, <2>3, <2>4, <2>5, <2>6, <2>7, <2>8 DEF Inv, TypeOK
<1>10. CASE exited = "no" /\ DrainComplete
  <2>1. FlagTypes'
    BY <1>0, <1>10 DEF DrainComplete, FlagTypes
  <2>2. StateTypes'
    BY <1>0, <1>10 DEF DrainComplete, StateTypes
  <2>3. Limits'
    BY <1>0, <1>10 DEF DrainComplete, Limits, CountsOK, ChildOK
  <2>4. ChildOK'
    BY <1>0, <1>10 DEF DrainComplete, ChildOK, OneChild, BootOK, FlagTypes, StateTypes, Limits
  <2>5. BootOK'
    BY <1>0, <1>10 DEF DrainComplete, BootOK, ChildOK, StopOK
  <2>6. StopOK'
    BY <1>0, <1>10 DEF DrainComplete, StopOK, ChildOK, BootOK, FlagTypes, StateTypes, Limits
  <2>7. CountsOK'
    BY <1>0, <1>10 DEF DrainComplete, CountsOK, FlagTypes, StateTypes, Limits
  <2>8. NeverStranded'
    BY <1>0, <1>10 DEF DrainComplete, NeverStranded, ChildOK, BootOK, FlagTypes, StateTypes, Pending
  <2> QED
    BY <2>1, <2>2, <2>3, <2>4, <2>5, <2>6, <2>7, <2>8 DEF Inv, TypeOK
<1>11. CASE exited = "no" /\ DrainTimeout
  <2>1. FlagTypes'
    BY <1>0, <1>11 DEF DrainTimeout, FlagTypes
  <2>2. StateTypes'
    BY <1>0, <1>11 DEF DrainTimeout, StateTypes
  <2>3. Limits'
    BY <1>0, <1>11 DEF DrainTimeout, Limits, CountsOK, ChildOK
  <2>4. ChildOK'
    BY <1>0, <1>11 DEF DrainTimeout, ChildOK, OneChild, BootOK, FlagTypes, StateTypes, Limits
  <2>5. BootOK'
    BY <1>0, <1>11 DEF DrainTimeout, BootOK, ChildOK, StopOK
  <2>6. StopOK'
    BY <1>0, <1>11 DEF DrainTimeout, StopOK, ChildOK, BootOK, FlagTypes, StateTypes, Limits
  <2>7. CountsOK'
    BY <1>0, <1>11 DEF DrainTimeout, CountsOK, FlagTypes, StateTypes, Limits
  <2>8. NeverStranded'
    BY <1>0, <1>11 DEF DrainTimeout, NeverStranded, ChildOK, BootOK, FlagTypes, StateTypes, Pending
  <2> QED
    BY <2>1, <2>2, <2>3, <2>4, <2>5, <2>6, <2>7, <2>8 DEF Inv, TypeOK
<1>12. CASE exited = "no" /\ StandbyRetry
  <2>1. FlagTypes'
    BY <1>0, <1>12 DEF StandbyRetry, AbandonStandby, OpenStandby, FlagTypes
  <2>2. StateTypes'
    BY <1>0, <1>12 DEF StandbyRetry, AbandonStandby, OpenStandby, StateTypes
  <2>3. Limits'
    BY <1>0, <1>12 DEF StandbyRetry, AbandonStandby, OpenStandby, Limits, CountsOK, ChildOK
  <2>4. ChildOK'
    BY <1>0, <1>12 DEF StandbyRetry, AbandonStandby, OpenStandby, ChildOK, OneChild, BootOK,
         FlagTypes, StateTypes, Limits
  <2>5. BootOK'
    BY <1>0, <1>12 DEF StandbyRetry, AbandonStandby, OpenStandby, BootOK, ChildOK, StopOK
  <2>6. StopOK'
    BY <1>0, <1>12 DEF StandbyRetry, AbandonStandby, OpenStandby, StopOK, ChildOK, BootOK,
         FlagTypes, StateTypes, Limits
  <2>7. CountsOK'
    BY <1>0, <1>12 DEF StandbyRetry, AbandonStandby, OpenStandby, CountsOK, FlagTypes, StateTypes,
         Limits
  <2>8. NeverStranded'
    BY <1>0, <1>12 DEF StandbyRetry, AbandonStandby, OpenStandby, NeverStranded, ChildOK, BootOK,
         FlagTypes, StateTypes, Pending
  <2> QED
    BY <2>1, <2>2, <2>3, <2>4, <2>5, <2>6, <2>7, <2>8 DEF Inv, TypeOK
<1>13. CASE exited = "no" /\ PushEnds
  <2>1. FlagTypes'
    BY <1>0, <1>13 DEF PushEnds, StartStandbyServer, AbandonStandby, OpenStandby, FlagTypes
  <2>2. StateTypes'
    BY <1>0, <1>13 DEF PushEnds, StartStandbyServer, AbandonStandby, OpenStandby, StateTypes
  <2>3. Limits'
    BY <1>0, <1>13 DEF PushEnds, StartStandbyServer, AbandonStandby, OpenStandby, Limits, CountsOK,
         ChildOK
  <2>4. ChildOK'
    BY <1>0, <1>13 DEF PushEnds, StartStandbyServer, AbandonStandby, OpenStandby, ChildOK, OneChild,
         BootOK, FlagTypes, StateTypes, Limits
  <2>5. BootOK'
    BY <1>0, <1>13 DEF PushEnds, StartStandbyServer, AbandonStandby, OpenStandby, BootOK, ChildOK,
         StopOK
  <2>6. StopOK'
    BY <1>0, <1>13 DEF PushEnds, StartStandbyServer, AbandonStandby, OpenStandby, StopOK, ChildOK,
         BootOK, FlagTypes, StateTypes, Limits
  <2>7. CountsOK'
    BY <1>0, <1>13 DEF PushEnds, StartStandbyServer, AbandonStandby, OpenStandby, CountsOK,
         FlagTypes, StateTypes, Limits
  <2>8. NeverStranded'
    BY <1>0, <1>13 DEF PushEnds, StartStandbyServer, AbandonStandby, OpenStandby, NeverStranded,
         ChildOK, BootOK, FlagTypes, StateTypes, Pending
  <2> QED
    BY <2>1, <2>2, <2>3, <2>4, <2>5, <2>6, <2>7, <2>8 DEF Inv, TypeOK
<1>14. CASE exited = "no" /\ TerminalTimerFires
  <2>1. FlagTypes'
    BY <1>0, <1>14 DEF TerminalTimerFires, StopStandbyServer, FlagTypes
  <2>2. StateTypes'
    BY <1>0, <1>14 DEF TerminalTimerFires, StopStandbyServer, StateTypes
  <2>3. Limits'
    BY <1>0, <1>14 DEF TerminalTimerFires, StopStandbyServer, Limits, CountsOK, ChildOK
  <2>4. ChildOK'
    BY <1>0, <1>14 DEF TerminalTimerFires, StopStandbyServer, ChildOK, OneChild, BootOK, FlagTypes,
         StateTypes, Limits
  <2>5. BootOK'
    BY <1>0, <1>14 DEF TerminalTimerFires, StopStandbyServer, BootOK, ChildOK, StopOK
  <2>6. StopOK'
    BY <1>0, <1>14 DEF TerminalTimerFires, StopStandbyServer, StopOK, ChildOK, BootOK, FlagTypes,
         StateTypes, Limits
  <2>7. CountsOK'
    BY <1>0, <1>14 DEF TerminalTimerFires, StopStandbyServer, CountsOK, FlagTypes, StateTypes,
         Limits
  <2>8. NeverStranded'
    BY <1>0, <1>14 DEF TerminalTimerFires, StopStandbyServer, NeverStranded, ChildOK, BootOK,
         FlagTypes, StateTypes, Pending
  <2> QED
    BY <2>1, <2>2, <2>3, <2>4, <2>5, <2>6, <2>7, <2>8 DEF Inv, TypeOK
<1>15. CASE exited = "no" /\ Shutdown
  <2>1. FlagTypes'
    BY <1>0, <1>15 DEF Shutdown, StopStandbyServer, FlagTypes
  <2>2. StateTypes'
    BY <1>0, <1>15 DEF Shutdown, StopStandbyServer, StateTypes
  <2>3. Limits'
    BY <1>0, <1>15 DEF Shutdown, StopStandbyServer, Limits, CountsOK, ChildOK
  <2>4. ChildOK'
    BY <1>0, <1>15 DEF Shutdown, StopStandbyServer, ChildOK, OneChild, BootOK, FlagTypes,
         StateTypes, Limits
  <2>5. BootOK'
    BY <1>0, <1>15 DEF Shutdown, StopStandbyServer, BootOK, ChildOK, StopOK
  <2>6. StopOK'
    BY <1>0, <1>15 DEF Shutdown, StopStandbyServer, StopOK, ChildOK, BootOK, FlagTypes, StateTypes,
         Limits
  <2>7. CountsOK'
    BY <1>0, <1>15 DEF Shutdown, StopStandbyServer, CountsOK, FlagTypes, StateTypes, Limits
  <2>8. NeverStranded'
    BY <1>0, <1>15 DEF Shutdown, StopStandbyServer, NeverStranded, ChildOK, BootOK, FlagTypes,
         StateTypes, Pending
  <2> QED
    BY <2>1, <2>2, <2>3, <2>4, <2>5, <2>6, <2>7, <2>8 DEF Inv, TypeOK
<1>16. CASE exited = "no" /\ TunnelStops
  <2>1. FlagTypes'
    BY <1>0, <1>16 DEF TunnelStops, FlagTypes
  <2>2. StateTypes'
    BY <1>0, <1>16 DEF TunnelStops, StateTypes
  <2>3. Limits'
    BY <1>0, <1>16 DEF TunnelStops, Limits, CountsOK, ChildOK
  <2>4. ChildOK'
    BY <1>0, <1>16 DEF TunnelStops, ChildOK, OneChild, BootOK, FlagTypes, StateTypes, Limits
  <2>5. BootOK'
    BY <1>0, <1>16 DEF TunnelStops, BootOK, ChildOK, StopOK
  <2>6. StopOK'
    BY <1>0, <1>16 DEF TunnelStops, StopOK, ChildOK, BootOK, FlagTypes, StateTypes, Limits
  <2>7. CountsOK'
    BY <1>0, <1>16 DEF TunnelStops, CountsOK, FlagTypes, StateTypes, Limits
  <2>8. NeverStranded'
    BY <1>0, <1>16 DEF TunnelStops, NeverStranded, ChildOK, BootOK, FlagTypes, StateTypes, Pending
  <2> QED
    BY <2>1, <2>2, <2>3, <2>4, <2>5, <2>6, <2>7, <2>8 DEF Inv, TypeOK
<1>17. CASE exited = "no" /\ ProcessError
  <2>1. FlagTypes'
    BY <1>0, <1>17 DEF ProcessError, FlagTypes
  <2>2. StateTypes'
    BY <1>0, <1>17 DEF ProcessError, StateTypes
  <2>3. Limits'
    BY <1>0, <1>17 DEF ProcessError, Limits, CountsOK, ChildOK
  <2>4. ChildOK'
    BY <1>0, <1>17 DEF ProcessError, ChildOK, OneChild, BootOK, FlagTypes, StateTypes, Limits
  <2>5. BootOK'
    BY <1>0, <1>17 DEF ProcessError, BootOK, ChildOK, StopOK
  <2>6. StopOK'
    BY <1>0, <1>17 DEF ProcessError, StopOK, ChildOK, BootOK, FlagTypes, StateTypes, Limits
  <2>7. CountsOK'
    BY <1>0, <1>17 DEF ProcessError, CountsOK, FlagTypes, StateTypes, Limits
  <2>8. NeverStranded'
    BY <1>0, <1>17 DEF ProcessError, NeverStranded, ChildOK, BootOK, FlagTypes, StateTypes, Pending
  <2> QED
    BY <2>1, <2>2, <2>3, <2>4, <2>5, <2>6, <2>7, <2>8 DEF Inv, TypeOK
<1>18. CASE UNCHANGED vars
  <2>1. FlagTypes'
    BY <1>0, <1>18 DEF vars, FlagTypes
  <2>2. StateTypes'
    BY <1>0, <1>18 DEF vars, StateTypes
  <2>3. Limits'
    BY <1>0, <1>18 DEF vars, Limits, CountsOK, ChildOK
  <2>4. ChildOK'
    BY <1>0, <1>18 DEF vars, ChildOK, OneChild, BootOK, FlagTypes, StateTypes, Limits
  <2>5. BootOK'
    BY <1>0, <1>18 DEF vars, BootOK, ChildOK, StopOK
  <2>6. StopOK'
    BY <1>0, <1>18 DEF vars, StopOK, ChildOK, BootOK, FlagTypes, StateTypes, Limits
  <2>7. CountsOK'
    BY <1>0, <1>18 DEF vars, CountsOK, FlagTypes, StateTypes, Limits
  <2>8. NeverStranded'
    BY <1>0, <1>18 DEF vars, NeverStranded, ChildOK, BootOK, FlagTypes, StateTypes, Pending
  <2> QED
    BY <2>1, <2>2, <2>3, <2>4, <2>5, <2>6, <2>7, <2>8 DEF Inv, TypeOK
<1> QED
  BY <1>1, <1>2, <1>3, <1>4, <1>5, <1>6, <1>7, <1>8, <1>9, <1>10, <1>11, <1>12, <1>13, <1>14, <1>15,
       <1>16, <1>17, <1>18 DEF Next

(* The invariant holds throughout. *)
LEMMA Invariance == Spec => []Inv
BY InitInv, NextInv, PTL DEF Spec
-----------------------------------------------------------------------------
(* Every variable keeps its type; the counters of restarts, of standby     *)
(* retries and of deploy failures keep their limits.                       *)
THEOREM TypesHold == Spec => []TypeOK
<1>1. Inv => TypeOK
  BY DEF Inv
<1> QED
  BY Invariance, <1>1, PTL

(* At most one server process runs, and it is the supervisor's child.      *)
THEOREM NeverTwoChildren == Spec => []OneChild
<1>1. Inv => OneChild
  BY DEF Inv, ChildOK
<1> QED
  BY Invariance, <1>1, PTL

(* The standby server is closed whenever a child needs the port.           *)
THEOREM PortStaysFree == Spec => []PortIsFree
<1>1. Inv => PortIsFree
  BY DEF Inv, ChildOK, PortIsFree
<1> QED
  BY Invariance, <1>1, PTL

(* Without a child exactly one way out of the outage is pending.           *)
THEOREM OutageIsHandled == Spec => []NeverStranded
<1>1. Inv => NeverStranded
  BY DEF Inv
<1> QED
  BY Invariance, <1>1, PTL

(* A clean exit leaves neither child nor tunnel.                           *)
THEOREM CleanExit == Spec => []NothingIsAbandoned
<1>1. Inv => NothingIsAbandoned
  BY DEF Inv, ChildOK, OneChild, StopOK, NothingIsAbandoned
<1> QED
  BY Invariance, <1>1, PTL

(* After giving up, or once told to stop, no process is forked.            *)
THEOREM TheEndIsFinal == Spec => NoForkAfterTheEnd
<1> DEFINE G == shuttingDown \/ gaveUp # "no" => alive' \subseteq alive
<1>1. Inv /\ [Next]_vars => [G]_vars
  <2> SUFFICES ASSUME Inv, Next, shuttingDown \/ gaveUp # "no"
              PROVE  alive' \subseteq alive
    BY DEF vars
  <2>1. ~StartFirstChild /\ ~RestartTimerFires
    BY DEF StartFirstChild, RestartTimerFires, StartChild, Inv, ChildOK, BootOK
  <2>2. CASE ChildExits
    BY <2>2 DEF ChildExits
  <2> QED
    BY <2>1, <2>2 DEF Next, TunnelStarts, FailBoot, ChildReady, DeployResetTimerFires,
       DeployWindowCloses, Deploy, DrainComplete, DrainTimeout, StandbyRetry, PushEnds,
       TerminalTimerFires, Shutdown, TunnelStops, ProcessError, childVars
<1> QED
  BY Invariance, <1>1, PTL DEF Spec, NoForkAfterTheEnd
=============================================================================
