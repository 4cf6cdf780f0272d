---------------------------- MODULE TxPollProofs ----------------------------
(***************************************************************************)
(* Safety of starting and stopping the polling, for any set of handles.    *)
(***************************************************************************)
EXTENDS TxPoll, TLAPS

(* Before the first bring-up that mapped the registers nobody subscribes.  *)
SubscribedAreMapped ==
  Serving /\ filter # "draining" /\ ~mapped => subs = {}

(* The drain has let every subscriber leave subscription_lock.             *)
DrainedOK == ~Serving => lock = Nobody

(* The waiting of KeFlushQueuedDpcs is for DPCs that exist.                *)
AwaitedOK ==
  /\ "running" \in awaited => dpc # "none"
  /\ "queued" \in awaited => queued

(* Nobody interferes: the flag stays down, and a DPC that got past it was  *)
(* running at the first cancel, so that flush waits for it ...             *)
FlushOK ==
  stop # "none" /\ ~disturbed =>
    /\ ~active
    /\ stop # "cancel" /\ dpc \in {"poll", "again", "arm"} => "running" \in awaited

(* ... and after the second cancel the timer is out of the queue, and only *)
(* the DPCs that flush waits for are left.                                 *)
FlushAgainOK ==
  stop = "flushAgain" /\ ~disturbed =>
    /\ ~armed
    /\ dpc \notin {"poll", "again", "arm"}
    /\ queued => "queued" \in awaited
    /\ dpc # "none" => awaited # {}

IInv ==
  /\ TypeOK
  /\ SubscribedAreMapped
  /\ DrainedOK
  /\ AwaitedOK
  /\ FlushOK
  /\ FlushAgainOK
  /\ StoppedTimerIsIdle
  /\ SubscribersArePolledFor

-----------------------------------------------------------------------------

USE NobodyAssumption

LEMMA InitIInv == Init => IInv
  BY DEF Init, IInv, TypeOK, SubscribedAreMapped, DrainedOK, AwaitedOK, FlushOK, FlushAgainOK,
         StoppedTimerIsIdle, Idle, SubscribersArePolledFor, Serving

(* Requests and the selection of adapters: what a subscriber does while    *)
(* AvbStopTimers runs is recorded as a disturbance.                        *)
LEMMA RequestStep ==
  ASSUME IInv, Request \/ SubscribeArm \/ Select
  PROVE  IInv'
<1> USE DEF filterVars, timerVars, stopVars, historyVars, Serving
<1>1. TypeOK'
  BY DEF IInv, TypeOK, Request, Select, Subscribe, Unsubscribe, CleanupFileSubscriptions,
         SubscribeArm, OpenAdapter, SelectOther, SelectAgain
<1>2. SubscribedAreMapped' /\ SubscribersArePolledFor'
  BY DEF IInv, TypeOK, SubscribedAreMapped, SubscribersArePolledFor, Request, Select, Subscribe,
         Unsubscribe, CleanupFileSubscriptions, SubscribeArm, OpenAdapter, SelectOther, SelectAgain
<1>3. AwaitedOK' /\ DrainedOK'
  BY DEF IInv, DrainedOK, AwaitedOK, Request, Select, Subscribe,
         Unsubscribe, CleanupFileSubscriptions, SubscribeArm, OpenAdapter, SelectOther, SelectAgain
<1>4. StoppedTimerIsIdle'
  BY DEF IInv, TypeOK, StoppedTimerIsIdle, Idle, Request, Select, Subscribe,
         Unsubscribe, CleanupFileSubscriptions, SubscribeArm, OpenAdapter, SelectOther, SelectAgain
<1>5. FlushOK'
  BY DEF IInv, TypeOK, FlushOK, Request, Select, Subscribe,
         Unsubscribe, CleanupFileSubscriptions, SubscribeArm, OpenAdapter, SelectOther, SelectAgain
<1>6. FlushAgainOK'
  BY DEF IInv, TypeOK, FlushAgainOK, Request, Select, Subscribe,
         Unsubscribe, CleanupFileSubscriptions, SubscribeArm, OpenAdapter, SelectOther, SelectAgain
<1>7. QED
  BY <1>1, <1>2, <1>3, <1>4, <1>5, <1>6 DEF IInv

(* The timer and its DPC: only a DPC that was running when the flag fell   *)
(* can still set the timer, and the flush waits for it.                    *)
LEMMA DpcStep ==
  ASSUME IInv, TimerFires \/ Dpc
  PROVE  IInv'
<1> USE DEF filterVars, timerVars, stopVars, historyVars, DpcReturns
<1>1. TypeOK'
  BY DEF IInv, TypeOK, TimerFires, Dpc, DpcStart, DpcCheck, DpcPoll, DpcAgain, DpcArm
<1>2. SubscribedAreMapped' /\ SubscribersArePolledFor'
  BY DEF IInv, SubscribedAreMapped, SubscribersArePolledFor, Serving, TimerFires, Dpc, DpcStart,
         DpcCheck, DpcPoll, DpcAgain, DpcArm
<1>3. AwaitedOK' /\ StoppedTimerIsIdle' /\ DrainedOK'
  BY DEF IInv, TypeOK, AwaitedOK, StoppedTimerIsIdle, Idle, DrainedOK, Serving, TimerFires, Dpc, DpcStart,
         DpcCheck, DpcPoll, DpcAgain, DpcArm
<1>4. FlushOK'
  BY DEF IInv, TypeOK, AwaitedOK, FlushOK, TimerFires, Dpc, DpcStart, DpcCheck, DpcPoll,
         DpcAgain, DpcArm
<1>5. FlushAgainOK'
  BY DEF IInv, TypeOK, AwaitedOK, FlushOK, FlushAgainOK, TimerFires, Dpc, DpcStart, DpcCheck,
         DpcPoll, DpcAgain, DpcArm
<1>6. QED
  BY <1>1, <1>2, <1>3, <1>4, <1>5 DEF IInv

(* AvbStopTimers.                                                          *)
LEMMA StopStep ==
  ASSUME IInv, Stop
  PROVE  IInv'
<1> USE DEF filterVars, timerVars, stopVars, historyVars, Pending
<1>1. TypeOK'
  BY DEF IInv, TypeOK, Stop, StopCancel, StopCancelAgain, StopReturn
<1>2. SubscribedAreMapped' /\ SubscribersArePolledFor'
  BY DEF IInv, TypeOK, SubscribedAreMapped, SubscribersArePolledFor, Serving, Stop, StopCancel,
         StopCancelAgain, StopReturn
<1>3. AwaitedOK' /\ DrainedOK'
  BY DEF IInv, DrainedOK, Serving, TypeOK, AwaitedOK, Stop, StopCancel, StopCancelAgain, StopReturn
<1>4. StoppedTimerIsIdle'
  BY DEF IInv, TypeOK, StoppedTimerIsIdle, Idle, AwaitedOK, FlushAgainOK, Stop, StopCancel,
         StopCancelAgain, StopReturn
<1>5. FlushOK'
  BY DEF IInv, TypeOK, FlushOK, Stop, StopCancel, StopCancelAgain, StopReturn
<1>6. FlushAgainOK'
  BY DEF IInv, TypeOK, FlushOK, FlushAgainOK, Stop, StopCancel, StopCancelAgain, StopReturn
<1>7. QED
  BY <1>1, <1>2, <1>3, <1>4, <1>5, <1>6 DEF IInv

(* Pause, restart and detach.                                              *)
LEMMA PnpStep ==
  ASSUME IInv, Pnp
  PROVE  IInv'
<1> USE DEF filterVars, timerVars, stopVars, historyVars, StopTimers, Pnp, Pause, PauseStop,
            Restart, RestartScan, RestartArm, Detach, Drained, DetachStop, DetachRemove, DetachUnmap,
            DetachFree
<1>1. TypeOK'
  <2>1. CASE Pause \/ Restart \/ RestartScan \/ RestartArm
    BY <2>1 DEF IInv, TypeOK
  <2>2. CASE PauseStop \/ DetachStop
    BY <2>2 DEF IInv, TypeOK
  <2>3. CASE Detach \/ Drained \/ DetachRemove \/ DetachUnmap \/ DetachFree
    BY <2>3 DEF IInv, TypeOK, DrainedOK, Serving
  <2>4. QED
    BY <2>1, <2>2, <2>3
<1>2. SubscribedAreMapped'
  BY DEF IInv, TypeOK, SubscribedAreMapped, Serving
<1>3. SubscribersArePolledFor'
  BY DEF IInv, TypeOK, SubscribersArePolledFor
<1>4. AwaitedOK' /\ DrainedOK'
  BY DEF IInv, AwaitedOK, DrainedOK, Serving
<1>5. StoppedTimerIsIdle'
  BY DEF IInv, TypeOK, StoppedTimerIsIdle, Idle
<1>6. FlushOK' /\ FlushAgainOK'
  BY DEF IInv, TypeOK, FlushOK, FlushAgainOK
<1>7. QED
  BY <1>1, <1>2, <1>3, <1>4, <1>5, <1>6 DEF IInv

LEMMA StutterStep == IInv /\ UNCHANGED vars => IInv'
  BY DEF IInv, TypeOK, SubscribedAreMapped, DrainedOK, AwaitedOK, FlushOK, FlushAgainOK,
         StoppedTimerIsIdle, Idle, SubscribersArePolledFor, Serving, vars

THEOREM Invariance == Spec => []IInv
<1>1. IInv /\ [Next]_vars => IInv'
  BY RequestStep, DpcStep, StopStep, PnpStep, StutterStep DEF Next
<1>2. QED
  BY InitIInv, <1>1, PTL DEF Spec

(* The variables keep their types, and the locks and phases their shape.   *)
THEOREM TypeCorrect == Spec => []TypeOK
  BY Invariance, PTL DEF IInv

(* AvbStopTimers, undisturbed, leaves neither timer nor DPC behind.        *)
THEOREM StopSafety == Spec => []StoppedTimerIsIdle
  BY Invariance, PTL DEF IInv

(* A running adapter with subscribers has its polling flag up.             *)
THEOREM SubscriberSafety == Spec => []SubscribersArePolledFor
  BY Invariance, PTL DEF IInv
=============================================================================
