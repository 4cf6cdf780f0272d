------------------------------- MODULE TxPoll -------------------------------
(***************************************************************************)
(* The 1 ms polling of transmit timestamps of one adapter: a kernel timer, *)
(* its DPC, the flag tx_poll_active that is to keep them going, and the    *)
(* code that starts and stops them from other contexts: subscriptions and  *)
(* handle cleanup, FilterPause, FilterRestart and FilterDetach.  The other *)
(* adapters appear only as they move g_AvbContext.                         *)
(*                                                                         *)
(* Abstracted: the timestamps read, the events posted, and how the remove  *)
(* lock is taken (module ContextLifetime): requests end before the drain   *)
(* does.  A handle holds at most one subscription.  Left out: the adapters *)
(* without a timestamp FIFO, and the MDIO fallback of I217 and I219, which *)
(* serves requests with no registers mapped.                               *)
(***************************************************************************)
EXTENDS Naturals, FiniteSets

CONSTANTS
  Handle,    \* file objects that subscribe
  Nobody     \* no handle: subscription_lock is free

ASSUME NobodyAssumption == Nobody \notin Handle

VARIABLES
  filter,    \* the filter module, as NDIS drives it
  mapped,    \* hw_state >= AVB_HW_BAR_MAPPED, AVB_HW_TEARDOWN is not
  selected,  \* g_AvbContext is this adapter
  active,    \* tx_poll_active
  armed,     \* the timer is in the timer queue
  queued,    \* its DPC is in a DPC queue
  dpc,       \* where the running instance of the DPC is
  subs,      \* handles with an active subscription
  lock,      \* the subscriber in subscription_lock, about to set the timer
  stop,      \* where AvbStopTimers is
  awaited,   \* the DPCs KeFlushQueuedDpcs still waits for
  scanned,   \* AvbRestartTimers found a subscription
  disturbed, \* history: a subscriber started polling while AvbStopTimers ran
  quiet      \* history: AvbStopTimers stopped the timer, nobody started it since

timerVars   == <<active, armed, queued, dpc>>
filterVars  == <<filter, mapped, scanned>>
stopVars    == <<stop, awaited>>
historyVars == <<disturbed, quiet>>
vars == <<filter, mapped, selected, active, armed, queued, dpc, subs, lock, stop,
          awaited, scanned, disturbed, quiet>>

Serving == filter \in {"running", "pausing", "paused", "restarting", "draining"}
Idle == ~armed /\ ~queued /\ dpc = "none"

Init ==
  /\ filter = "paused"
  /\ mapped \in BOOLEAN
  /\ selected \in BOOLEAN
  /\ active = FALSE /\ armed = FALSE /\ queued = FALSE
  /\ dpc = "none"
  /\ subs = {}
  /\ lock = Nobody
  /\ stop = "none"
  /\ awaited = {}
  /\ scanned = FALSE
  /\ disturbed = FALSE /\ quiet = FALSE

-----------------------------------------------------------------------------
(* Requests.  IOCTL_AVB_TS_SUBSCRIBE, refused until the hardware has once  *)
(* been brought up, under subscription_lock: take a slot and, if nobody    *)
(* polls, raise the flag ...                                               *)
Subscribe(h) ==
  /\ Serving /\ lock = Nobody /\ h \notin subs
  /\ mapped \/ filter = "draining"
  /\ subs' = subs \cup {h}
  /\ IF ~active /\ mapped
       THEN /\ active' = TRUE
            /\ lock' = h
            /\ disturbed' = (disturbed \/ stop # "none")
       ELSE UNCHANGED <<active, lock, disturbed>>
  /\ UNCHANGED <<filterVars, selected, armed, queued, dpc, stopVars, quiet>>

(* ... then set the timer and leave the lock.                              *)
SubscribeArm ==
  /\ lock # Nobody
  /\ armed' = TRUE
  /\ lock' = Nobody
  /\ quiet' = FALSE
  /\ disturbed' = (disturbed \/ stop # "none")
  /\ UNCHANGED <<filterVars, selected, active, queued, dpc, subs, stopVars>>

(* Mutant: the slot is freed outside subscription_lock.                    *)
UnsubscribeUnlocked(h) ==
  /\ Serving /\ h \in subs
  /\ subs' = subs \ {h}
  /\ UNCHANGED <<filterVars, selected, timerVars, lock, stopVars, historyVars>>

(* IOCTL_AVB_TS_UNSUBSCRIBE frees the slot and leaves the flag alone.      *)
Unsubscribe(h) ==
  /\ Serving /\ lock = Nobody /\ h \in subs
  /\ subs' = subs \ {h}
  /\ UNCHANGED <<filterVars, selected, timerVars, lock, stopVars, historyVars>>

(* Mutant: the flag falls whoever else is still subscribed.                *)
CleanupFileSubscriptionsAll(h) ==
  /\ Serving /\ lock = Nobody
  /\ subs' = subs \ {h}
  /\ active' = FALSE
  /\ UNCHANGED <<filterVars, selected, armed, queued, dpc, lock, stopVars, historyVars>>

(* AvbCleanupFileSubscriptions, as the handle is closed: with the last     *)
(* subscription the flag falls; the timer is left to run out.              *)
CleanupFileSubscriptions(h) ==
  /\ Serving /\ lock = Nobody
  /\ subs' = subs \ {h}
  /\ active' = (active /\ subs' # {})
  /\ UNCHANGED <<filterVars, selected, armed, queued, dpc, lock, stopVars, historyVars>>

(* IOCTL_AVB_OPEN_ADAPTER of this adapter: it becomes g_AvbContext, and    *)
(* its hardware is brought up if it is not, in the middle of a detach too. *)
OpenAdapter ==
  /\ Serving
  /\ selected' = TRUE
  /\ mapped' \in {mapped, TRUE}
  /\ UNCHANGED <<filter, scanned, timerVars, subs, lock, stopVars, historyVars>>

(* Another adapter is opened, or leaves and passes g_AvbContext on.        *)
SelectOther ==
  /\ selected' = FALSE
  /\ UNCHANGED <<filterVars, timerVars, subs, lock, stopVars, historyVars>>

SelectAgain ==
  /\ filter \notin {"removed", "unmapped", "freed"}
  /\ selected' = TRUE
  /\ UNCHANGED <<filterVars, timerVars, subs, lock, stopVars, historyVars>>

-----------------------------------------------------------------------------
(* The timer and AvbTxTimestampPollDpc.                                    *)

TimerFires ==
  /\ armed
  /\ armed' = FALSE
  /\ queued' = TRUE
  /\ UNCHANGED <<filterVars, selected, active, dpc, subs, lock, stopVars, historyVars>>

DpcStart ==
  /\ queued /\ dpc = "none"
  /\ queued' = FALSE
  /\ dpc' = "check"
  /\ awaited' = IF "queued" \in awaited THEN {"running"} ELSE awaited
  /\ UNCHANGED <<filterVars, selected, active, armed, subs, lock, stop, historyVars>>

DpcReturns == dpc' = "none" /\ awaited' = awaited \ {"running"}

(* Not the selected adapter, not active or no hardware: return, and do not *)
(* set the timer.  Else read the FIFO and post what it holds.              *)
DpcCheck ==
  /\ dpc = "check"
  /\ IF selected /\ active /\ mapped
       THEN dpc' = "poll" /\ UNCHANGED awaited
       ELSE DpcReturns
  /\ UNCHANGED <<filterVars, selected, active, armed, queued, subs, lock, stop, historyVars>>

(* AvbPostTimestampEvent waits for subscription_lock.                      *)
DpcPoll ==
  /\ dpc = "poll" /\ lock = Nobody
  /\ dpc' = "again"
  /\ UNCHANGED <<filterVars, selected, active, armed, queued, subs, lock, stopVars, historyVars>>

DpcAgain ==
  /\ dpc = "again"
  /\ IF active THEN dpc' = "arm" /\ UNCHANGED awaited ELSE DpcReturns
  /\ UNCHANGED <<filterVars, selected, active, armed, queued, subs, lock, stop, historyVars>>

(* Mutant: the DPC forgets to set its timer again.                         *)
DpcArmNot ==
  /\ dpc = "arm"
  /\ DpcReturns
  /\ UNCHANGED <<filterVars, selected, active, armed, queued, subs, lock, stop, historyVars>>

DpcArm ==
  /\ dpc = "arm"
  /\ armed' = TRUE
  /\ DpcReturns
  /\ UNCHANGED <<filterVars, selected, active, queued, subs, lock, stop, historyVars>>

Dpc == DpcStart \/ DpcCheck \/ DpcPoll \/ DpcAgain \/ DpcArm

-----------------------------------------------------------------------------
(* AvbStopTimers: nothing to do unless the flag is up; else lower it, and  *)
(* cancel the timer and flush the DPCs twice.                              *)

StopTimers(next) ==
  IF active
    THEN /\ active' = FALSE
         /\ stop' = "cancel"
         /\ disturbed' = FALSE
         /\ UNCHANGED filter
    ELSE /\ filter' = next
         /\ UNCHANGED <<active, stop, disturbed>>

(* KeFlushQueuedDpcs waits for the DPCs that are queued or running now.    *)
Pending == {d \in {"queued", "running"} :
              IF d = "queued" THEN queued ELSE dpc # "none"}

StopCancel ==
  /\ stop = "cancel"
  /\ armed' = FALSE
  /\ awaited' = Pending
  /\ stop' = "flush"
  /\ UNCHANGED <<filterVars, selected, active, queued, dpc, subs, lock, historyVars>>

(* Mutant: the second cancel, Bug #1b of the code, is missing.             *)
StopCancelOnce ==
  /\ stop = "flush" /\ awaited = {}
  /\ awaited' = Pending
  /\ stop' = "flushAgain"
  /\ UNCHANGED <<filterVars, selected, timerVars, subs, lock, historyVars>>

StopCancelAgain ==
  /\ stop = "flush" /\ awaited = {}
  /\ armed' = FALSE
  /\ awaited' = Pending
  /\ stop' = "flushAgain"
  /\ UNCHANGED <<filterVars, selected, active, queued, dpc, subs, lock, historyVars>>

StopReturn ==
  /\ stop = "flushAgain" /\ awaited = {}
  /\ stop' = "none"
  /\ filter' = IF filter = "pausing" THEN "paused" ELSE "stopped"
  /\ quiet' = ~disturbed
  /\ UNCHANGED <<mapped, scanned, selected, timerVars, subs, lock, awaited, disturbed>>

-----------------------------------------------------------------------------
(* FilterPause, FilterRestart and FilterDetach, serialised by NDIS.        *)

Pause ==
  /\ filter = "running"
  /\ filter' = "pausing"
  /\ UNCHANGED <<mapped, scanned, selected, timerVars, subs, lock, stopVars, historyVars>>

PauseStop ==
  /\ filter = "pausing" /\ stop = "none"
  /\ StopTimers("paused")
  /\ UNCHANGED <<mapped, scanned, selected, armed, queued, dpc, subs, lock, awaited, quiet>>

(* AvbBringUpHardware, then AvbRestartTimers: it looks for a subscription  *)
(* under the lock ...                                                      *)
Restart ==
  /\ filter = "paused"
  /\ filter' = "restarting"
  /\ mapped' \in {mapped, TRUE}
  /\ UNCHANGED <<scanned, selected, timerVars, subs, lock, stopVars, historyVars>>

RestartScan ==
  /\ filter = "restarting" /\ ~scanned
  /\ \/ /\ ~mapped \/ active
        /\ filter' = "running" /\ UNCHANGED scanned
     \/ /\ mapped /\ ~active /\ lock = Nobody
        /\ IF subs = {}
             THEN filter' = "running" /\ UNCHANGED scanned
             ELSE scanned' = TRUE /\ UNCHANGED filter
  /\ UNCHANGED <<mapped, selected, timerVars, subs, lock, stopVars, historyVars>>

(* ... and starts polling after it released the lock.                      *)
RestartArm ==
  /\ filter = "restarting" /\ scanned
  /\ active' = TRUE
  /\ armed' = TRUE
  /\ scanned' = FALSE
  /\ filter' = "running"
  /\ quiet' = FALSE
  /\ UNCHANGED <<mapped, selected, queued, dpc, subs, lock, stopVars, disturbed>>

(* AVB_HW_TEARDOWN, the drain of the requests, and AvbCleanupDevice: stop  *)
(* the timers again, leave the list of contexts, free all of it.           *)
Detach ==
  /\ filter = "paused"
  /\ filter' = "draining"
  /\ mapped' = FALSE
  /\ UNCHANGED <<scanned, selected, timerVars, subs, lock, stopVars, historyVars>>

Drained ==
  /\ filter = "draining" /\ lock = Nobody
  /\ filter' = "detaching"
  /\ UNCHANGED <<mapped, scanned, selected, timerVars, subs, lock, stopVars, historyVars>>

DetachStop ==
  /\ filter = "detaching" /\ stop = "none"
  /\ StopTimers("stopped")
  /\ UNCHANGED <<mapped, scanned, selected, armed, queued, dpc, subs, lock, awaited, quiet>>

DetachRemove ==
  /\ filter = "stopped"
  /\ filter' = "removed"
  /\ selected' = FALSE
  /\ UNCHANGED <<mapped, scanned, timerVars, subs, lock, stopVars, historyVars>>

(* The subscriptions are over, and MmUnmapIoSpace takes the registers from *)
(* under whoever would still poll.                                         *)
DetachUnmap ==
  /\ filter = "removed"
  /\ filter' = "unmapped"
  /\ subs' = {}
  /\ UNCHANGED <<mapped, scanned, selected, timerVars, lock, stopVars, historyVars>>

DetachFree ==
  /\ filter = "unmapped"
  /\ filter' = "freed"
  /\ UNCHANGED <<mapped, scanned, selected, timerVars, subs, lock, stopVars, historyVars>>

-----------------------------------------------------------------------------

Request == \E h \in Handle : Subscribe(h) \/ Unsubscribe(h) \/ CleanupFileSubscriptions(h)
Select  == OpenAdapter \/ SelectOther \/ SelectAgain
Stop    == StopCancel \/ StopCancelAgain \/ StopReturn
Pnp     == Pause \/ PauseStop \/ Restart \/ RestartScan \/ RestartArm
           \/ Detach \/ Drained \/ DetachStop \/ DetachRemove \/ DetachUnmap
           \/ DetachFree

Next == Request \/ SubscribeArm \/ Select \/ TimerFires \/ Dpc \/ Stop \/ Pnp

Spec == Init /\ [][Next]_vars

(* Timers fire, DPCs run and a subscriber leaves the lock it took; a pause *)
(* or a restart that has begun runs on.  Requests and PnP need not come.   *)
FairSpec ==
  /\ Spec
  /\ WF_vars(SubscribeArm) /\ WF_vars(TimerFires) /\ WF_vars(Dpc)
  /\ WF_vars(PauseStop \/ Stop \/ RestartScan \/ RestartArm)

-----------------------------------------------------------------------------
(* Properties.                                                             *)

(* Every variable has its type, the subscriber in subscription_lock still  *)
(* has its slot, and only a pause or a detach is inside AvbStopTimers.     *)
TypeOK ==
  /\ filter \in {"running", "pausing", "paused", "restarting", "draining", "detaching",
                 "stopped", "removed", "unmapped", "freed"}
  /\ {mapped, selected, active, armed, queued, scanned, disturbed, quiet} \subseteq BOOLEAN
  /\ dpc \in {"none", "check", "poll", "again", "arm"}
  /\ subs \subseteq Handle
  /\ lock \in Handle \cup {Nobody}
  /\ stop \in {"none", "cancel", "flush", "flushAgain"}
  /\ awaited \subseteq {"queued", "running"}
  /\ lock # Nobody => lock \in subs
  /\ stop # "none" => filter \in {"pausing", "detaching"}

(* When AvbStopTimers found polling on and no subscriber interfered, its   *)
(* two cancels and flushes leave no timer and no DPC, queued or running,   *)
(* until somebody starts polling again (avb_integration_fixed.c 1360-1367).*)
StoppedTimerIsIdle == quiet => Idle

(* Whoever subscribes while the adapter runs with its registers mapped has *)
(* the polling flag up: neither a pause and restart, nor the cleanup of    *)
(* other handles, racing with the subscription, lose it (1300-1307,        *)
(* 1385-1404, 3392-3406).                                                  *)
SubscribersArePolledFor ==
  filter = "running" /\ mapped /\ subs # {} => active

(* A DPC that has polled polls again 1 ms later, unless polling stops, the *)
(* adapter loses its hardware or another one is selected (952-955).        *)
PollingGoesOn ==
  dpc = "again" ~> dpc = "poll" \/ ~active \/ ~selected \/ ~mapped \/ stop # "none"

(* avb_integration.h 359: AvbStopTimers stops all periodic timers and DPCs *)
(* of a context, and AvbCleanupDevice calls it before it frees one.  After *)
(* the last handle was cleaned up it finds the flag down and returns with  *)
(* the timer still set.                                                    *)
FreedTimerIsIdle == filter = "freed" => Idle
=============================================================================
