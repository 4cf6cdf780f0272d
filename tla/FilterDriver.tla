---------------------------- MODULE FilterDriver ----------------------------
(***************************************************************************)
(* The driver around the adapters: DriverEntry allocates the global locks, *)
(* registers the filter with NDIS and a device with the I/O manager, and   *)
(* FilterUnload takes all of that down again, while adapters come and go   *)
(* and requests run as ContextLifetime says.  Every step of an adapter or  *)
(* of a request is a step of ContextLifetime that the driver's phase       *)
(* allows; every step of the driver leaves ContextLifetime alone.          *)
(*                                                                         *)
(* Data that is abstracted: an adapter's friendly name is the set of the   *)
(* words the code looks for in it.  The I/O manager sends IRP_MJ_CLOSE     *)
(* once no request runs on a handle, and calls FilterUnload once no handle *)
(* is open; NdisFDeregisterFilterDriver attaches nothing more, detaches    *)
(* every filter and then returns.                                          *)
(***************************************************************************)
EXTENDS ContextLifetime

CONSTANTS
  Offers     \* the adapters NDIS offers to FilterAttach

FilterListLock     == "FilterListLock"
AvbContextListLock == "g_AvbContextListLock"
Locks == {FilterListLock, AvbContextListLock}

VARIABLES
  driver,      \* how far DriverEntry or FilterUnload has come
  locks,       \* the global spin locks that are allocated
  door,        \* what the device object takes: nothing, IRPs, or FastIO too
  opened,      \* the handles that user mode has open
  filterReq    \* the IOCTL_FILTER_ request each thread carries

driverVars == <<driver, locks, door, opened, filterReq>>
allVars == <<vars, driverVars>>

-----------------------------------------------------------------------------
(* Which adapters FilterAttach takes.                                      *)

VirtualWords == {"MULTIPLEXOR", "TEAM", "BRIDGE", "VETHERNET", "HYPER-V", "VIRTUAL"}
IntelModels  == {"I210", "I225", "I226", "I219", "I217"}
Media        == {"802_3", "Wan", "WirelessWan", "Other"}
Words        == VirtualWords \cup IntelModels \cup {"INTEL", "82574L"}

ASSUME OffersAssumption ==
  Offers \subseteq [name : SUBSET Words, readable : BOOLEAN, medium : Media]

Contains(name, word) == word \in name

(* A name that faults when it is read counts as unsupported.               *)
IsUnsupportedTeamOrVirtualAdapter(offer) ==
  ~offer.readable \/ \E w \in VirtualWords : Contains(offer.name, w)

IsSupportedIntelController(offer) ==
  Contains(offer.name, "INTEL") /\ \E w \in IntelModels : Contains(offer.name, w)

Attachable(offer) ==
  /\ ~IsUnsupportedTeamOrVirtualAdapter(offer)
  /\ offer.medium # "Other"
  /\ IsSupportedIntelController(offer)

-----------------------------------------------------------------------------
(* DriverEntry.                                                            *)

InitLocks ==
  /\ driver = "unloaded"
  /\ driver' = "entered"
  /\ locks' = Locks
  /\ UNCHANGED <<vars, door, opened, filterReq>>

RegisterDriver ==
  /\ driver = "entered"
  /\ driver' \in {"registering", "failed"}
  /\ UNCHANGED <<vars, locks, door, opened, filterReq>>

(* NDIS calls back with the driver context it was given; no handler is     *)
(* optional, and adapters may be attached from here on.                    *)
FilterRegisterOptions ==
  /\ driver = "registering"
  /\ driver' = "registered"
  /\ UNCHANGED <<vars, locks, door, opened, filterReq>>

RegisterDevice ==
  /\ driver = "registered"
  /\ driver' = "device"
  /\ door' = "irp"
  /\ UNCHANGED <<vars, locks, opened, filterReq>>

(* NdisRegisterDeviceEx fails, and the filter driver is deregistered.      *)
RegisterDeviceFails ==
  /\ driver = "registered"
  /\ driver' = "abandoned"
  /\ UNCHANGED <<vars, locks, door, opened, filterReq>>

(* FastIO goes with the driver object, if it is the device's own.          *)
InstallFastIo ==
  /\ driver = "device"
  /\ driver' = "reachable"
  /\ door' \in {"irp", "fastio"}
  /\ UNCHANGED <<vars, locks, opened, filterReq>>

(* DriverEntry succeeds whether or not event tracing can be registered.    *)
RegisterEvents ==
  /\ driver = "reachable"
  /\ driver' = "running"
  /\ UNCHANGED <<vars, locks, door, opened, filterReq>>

-----------------------------------------------------------------------------
(* FilterUnload, and the failure path of DriverEntry.                      *)

Unload ==
  /\ driver = "running"
  /\ opened = {}
  /\ driver' = "unloading"
  /\ UNCHANGED <<vars, locks, door, opened, filterReq>>

DeregisterDevice ==
  /\ driver = "unloading"
  /\ door # "shut"
  /\ door' = "shut"
  /\ UNCHANGED <<vars, driver, locks, opened, filterReq>>

DeregisterDriver ==
  /\ driver = "unloading"
  /\ door = "shut"
  /\ driver' = "deregistering"
  /\ UNCHANGED <<vars, locks, door, opened, filterReq>>

DeregisterReturns ==
  /\ driver \in {"abandoned", "deregistering"}
  /\ \A f \in Filter : pnp[f] = "none"
  /\ driver' = IF driver = "abandoned" THEN "failed" ELSE "drained"
  /\ UNCHANGED <<vars, locks, door, opened, filterReq>>

(* Mutant: the lock is freed once the device is gone, the filters are not. *)
FreeFilterListLockEarly ==
  /\ FilterListLock \in locks
  /\ driver \in {"failed", "unloading", "drained"}
  /\ driver = "unloading" => door = "shut"
  /\ locks' = locks \ {FilterListLock}
  /\ driver' = IF driver = "failed" THEN "unloaded" ELSE driver
  /\ UNCHANGED <<vars, door, opened, filterReq>>

(* A failed DriverEntry ends here, without NdisFreeSpinLock.               *)
FreeFilterListLock ==
  /\ FilterListLock \in locks
  /\ driver \in {"failed", "drained"}
  /\ locks' = locks \ {FilterListLock}
  /\ driver' = IF driver = "failed" THEN "unloaded" ELSE driver
  /\ UNCHANGED <<vars, door, opened, filterReq>>

FreeContextListLock ==
  /\ driver = "drained"
  /\ FilterListLock \notin locks
  /\ locks' = locks \ {AvbContextListLock}
  /\ driver' = "unloaded"
  /\ UNCHANGED <<vars, door, opened, filterReq>>

Unloading == DeregisterDevice \/ DeregisterDriver \/ DeregisterReturns
             \/ FreeFilterListLock \/ FreeContextListLock
Loading == InitLocks \/ RegisterDriver \/ FilterRegisterOptions \/ RegisterDevice
           \/ RegisterDeviceFails \/ InstallFastIo \/ RegisterEvents
DriverStep == Loading \/ Unload \/ Unloading

-----------------------------------------------------------------------------
(* Handles and the requests of the filter sample the driver grew from.     *)

NoRequest == [pc |-> "idle", hnd |-> CHOOSE h \in Handle : TRUE, filter |-> ListHead]
FilterRequests == [pc : {"idle", "find", "restart", "enumerate", "complete"},
                   hnd : Handle, filter : Filter \cup {ListHead}]
IsFree(t) == At(t, "idle") /\ filterReq[t].pc = "idle"

Create(h) ==
  /\ driver \in {"device", "reachable", "running"}
  /\ h \notin opened
  /\ opened' = opened \cup {h}
  /\ UNCHANGED <<vars, driver, locks, door, filterReq>>

(* The file object goes once a cleanup has unbound it and no request is    *)
(* left on it.                                                             *)
Close(h) ==
  /\ h \in opened
  /\ fsContext[h] = NoCtx
  /\ \A t \in Thread : /\ At(t, "idle") \/ req[t].hnd # h
                       /\ filterReq[t].pc = "idle" \/ filterReq[t].hnd # h
  /\ opened' = opened \ {h}
  /\ UNCHANGED <<vars, driver, locks, door, filterReq>>

BeginFilterRequest(t, h) ==
  /\ IsFree(t)
  /\ h \in opened
  /\ \E label \in {"find", "enumerate", "complete"} :
       filterReq' = [filterReq EXCEPT ![t] = [NoRequest EXCEPT !.pc = label, !.hnd = h]]
  /\ UNCHANGED <<vars, driver, locks, door, opened>>

(* filterFindFilterModule: a filter of that name, looked up under          *)
(* FilterListLock, or none.                                                *)
FindFilterModule(t) ==
  /\ filterReq[t].pc = "find"
  /\ \/ \E f \in linked :
          filterReq' = [filterReq EXCEPT ![t].pc = "restart", ![t].filter = f]
     \/ filterReq' = [filterReq EXCEPT ![t] = NoRequest]
  /\ UNCHANGED <<vars, driver, locks, door, opened>>

(* NdisFRestartFilter only asks: NDIS pauses and restarts the filter in    *)
(* its own time.  The lock is gone by then, and the filter may be too.     *)
RestartFound(t) ==
  /\ filterReq[t].pc = "restart"
  /\ filterReq' = [filterReq EXCEPT ![t] = NoRequest]
  /\ UNCHANGED <<vars, driver, locks, door, opened>>

(* The names of all filters are copied out under FilterListLock.           *)
EnumerateAll(t) ==
  /\ filterReq[t].pc = "enumerate"
  /\ filterReq' = [filterReq EXCEPT ![t] = NoRequest]
  /\ UNCHANGED <<vars, driver, locks, door, opened>>

(* RESTART_ALL does nothing, and an unknown code is refused.               *)
CompleteAtOnce(t) ==
  /\ filterReq[t].pc = "complete"
  /\ filterReq' = [filterReq EXCEPT ![t] = NoRequest]
  /\ UNCHANGED <<vars, driver, locks, door, opened>>

HandleStep(h) == Create(h) \/ Close(h) \/ \E t \in Thread : BeginFilterRequest(t, h)
FilterRequestStep(t) == FindFilterModule(t) \/ RestartFound(t) \/ EnumerateAll(t)
                        \/ CompleteAtOnce(t)

-----------------------------------------------------------------------------
(* The steps of ContextLifetime, as the driver's phase allows them.        *)

(* Refused adapters change nothing; NDIS offers some while it knows us.    *)
AttachOffered(f) ==
  /\ driver \in {"registered", "device", "reachable", "running", "unloading"}
  /\ \E offer \in Offers : Attachable(offer)
  /\ AttachAlloc(f)
  /\ UNCHANGED driverVars

AttachGoesOn(f) == pnp[f] # "none" /\ Attach(f) /\ UNCHANGED driverVars
Unlink(f) == DetachUnlink(f) /\ UNCHANGED driverVars
DetachGoesOn(f) == Detach(f) /\ UNCHANGED driverVars

(* An IRP or FastIO call comes in through an open handle.                  *)
Dispatch(t, h, k) ==
  /\ IsFree(t)
  /\ h \in opened
  /\ k = "fastio" => door = "fastio"
  /\ Begin(t, h, k)
  /\ UNCHANGED driverVars

RequestGoesOn(t) == Proceed(t) /\ UNCHANGED driverVars

DriverInit ==
  /\ Init
  /\ driver = "unloaded"
  /\ locks = {}
  /\ door = "shut"
  /\ opened = {}
  /\ filterReq = [t \in Thread |-> NoRequest]

DriverNext ==
  \/ DriverStep
  \/ \E h \in Handle : HandleStep(h)
  \/ \E f \in Filter : AttachOffered(f) \/ AttachGoesOn(f) \/ Unlink(f) \/ DetachGoesOn(f)
  \/ \E t \in Thread : \/ FilterRequestStep(t) \/ RequestGoesOn(t)
                       \/ \E h \in Handle, k \in Kinds : Dispatch(t, h, k)

DriverSpec == DriverInit /\ [][DriverNext]_allVars

(* As in ContextLifetime.                                                  *)
FairDriverSpec ==
  /\ DriverSpec
  /\ \A t \in Thread : WF_allVars(RequestGoesOn(t))
  /\ \A f \in Filter : WF_allVars(DetachGoesOn(f))

-----------------------------------------------------------------------------
(* Properties.                                                             *)

DriverStates == {"unloaded", "entered", "registering", "registered", "device", "reachable",
                 "running", "abandoned", "failed", "unloading", "deregistering", "drained"}

(* Every variable of the driver has its type.                              *)
DriverTypeOK ==
  /\ driver \in DriverStates
  /\ locks \subseteq Locks
  /\ door \in {"shut", "irp", "fastio"}
  /\ opened \subseteq Handle
  /\ filterReq \in [Thread -> FilterRequests]

InUse ==
  \/ \E f \in Filter : pnp[f] # "none"
  \/ \E t \in Thread : ~IsFree(t)

(* Whoever may still take FilterListLock or g_AvbContextListLock - a       *)
(* filter anywhere between attach and the end of its detach, a request on  *)
(* a handle - finds both allocated, whether the driver is loading, gives   *)
(* up in DriverEntry or unloads; and when NdisFDeregisterFilterDriver has  *)
(* returned the list is empty (filter.c 183-193, 282-286, 1135-1150).      *)
LocksOutliveUsers ==
  /\ InUse => locks = Locks
  /\ driver = "drained" => linked = {}
=============================================================================
