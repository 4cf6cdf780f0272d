# IntelAvbFilter in TLA+

IntelAvbFilter is an NDIS lightweight filter driver that sits on Intel Ethernet adapters and
gives user-mode programs their AVB/TSN hardware: the PTP clock, transmit and receive
timestamps, traffic shaping and per-adapter statistics. Little of it is algorithm; most of
what can go wrong is a matter of who runs at the same time, and of what order registers are
read and written in. NDIS attaches, pauses, restarts and detaches filter modules; programs
open, use and close handles from any thread; a 1 ms timer runs a DPC; packets complete on
any processor; and a program reads a ring of events out of memory that it shares with the
driver. These modules model those protocols, TLC checks them on small instances, and TLAPS
proves the central results for instances of any size.

Paths are those of the repository: `avb` stands for `src/avb_integration_fixed.c`, `device`
for `src/device.c`, `filter` for `src/filter.c`, `i226` and its like for
`devices/intel_i226_impl.c`, `avb_ioctl.h` for `include/avb_ioctl.h`.

## 1. Inventory

| Component | State | Operations | Interacts with |
|---|---|---|---|
| Context lifetime (device, filter, avb) | `FilterModuleList`, `pFilter->AvbContext`, `g_AvbContextList`, `g_AvbContext`, `hw_state`, the remove lock, `FsContext` of each handle | attach, restart, detach; IRP and FastIO dispatch, lazy creation, ENUM, OPEN_ADAPTER, CLEANUP | everything that is given a context |
| Transmit timestamp polling (avb 871–957, 1247–1404, 3301–3455) | `tx_poll_active`, the timer, its DPC, the subscriptions | SUBSCRIBE, UNSUBSCRIBE, handle cleanup, `AvbStopTimers`, `AvbRestartTimers`, the DPC | pause, restart, detach; OPEN_ADAPTER through `g_AvbContext` |
| Test packet injection (avb 258–415, 1464–1693; filter 1744–1907) | the ring of preallocated NBLs, `in_use`, `test_packets_pending`, `ring_cleanup_deferred`, the pools | send (IOCTL and fast path), completion, `AvbCleanupDevice` | NDIS, which may keep a packet for any time; PTP frames of other senders, which pass for test packets |
| Timestamp event ring (avb 963–1067, `avb_ioctl.h` 433–475) | two indices, slots, `overflow_count`, `sequence_num` | `AvbPostTimestampEvent`; the user's reading | the polling DPC and the receive path; a user-mode program |
| Subscription table (avb 1247–1348, 3301–3696) | 32 slots, ring memory, MDL, user mapping, owner | SUBSCRIBE, RING_MAP, UNSUBSCRIBE, cleanup | the event ring, polling |
| Target time and aux timestamps (i226 880–1330; avb 1070–1245, 2637, 2812) | trigger enables, TSICR, `target_time_timer`, `target_time_poll_active` | SET_TARGET_TIME, GET_AUX_TIMESTAMP, the timer and its DPC, the check in the polling DPC | `AvbStopTimers`; whoever else writes TSAUXC |
| Clock and packet timestamps (avb 2060–3300, 4040–4165) | SYSTIM, TIMINCA, TSAUXC, TXSTMP, RXSTMP of the adapter; the I219's software offset | read, set, adjust, halt, start; poll and read timestamps; the receive path | each other, the DPC, the miniport |
| ATDECC events (avb 4357–4484) | subscription table, a queue per entry that nothing fills | subscribe, poll, unsubscribe | none |
| SRP and VLAN (avb 4485–4510, 4573–4655) | reservation table, handle counter, the tag | register and withdraw streams; store and clear the tag | none |
| TAS, FP, PTM; registers, queues, PHY (avb 2380–2640, 3894–4040) | registers, configuration space, the PHY's software flag | one request each | firmware, by the PHY |
| Hardware bring-up (avb 438–835, `avb_bar0_discovery.c`) | `hw_state`, `hardware_context`, `initialized`, `hw_access_enabled`, INTEL_CAP_MMIO | discovery, mapping, PTP initialisation, FilterRestart | every request |
| Hardware access and device operations (`avb_hardware_access.c`, `ndis_platform_ops.c`, `intel_kernel_real.c`, `devices/`) | registers | the operation tables of I210, I217, I219, I226 and their dispatch | handlers, DPC |
| Filter data path (filter 1669–2535, pause 657–742) | outstanding sends and receives, gauges, module state | send, receive, return, completion; timestamps of received event messages | NDIS, statistics IOCTLs |
| OID path (filter 1161–1470) | `PendingOidRequest`, outstanding OIDs | clone, cancel, complete | NDIS |
| EEE, PFC, QAV, port latency (avb 3980–4105, 4485–4572) | numbers in the context | store; QAV checks and forgets | the timestamps that latencies are added to |
| Driver entry and unload, status, PnP (filter 141–360, 1102–1152; device 314–420, 534–650) | the global locks, registrations, open handles | load, fail to load, unload; `IOCTL_FILTER_*`; pass-through | NDIS, the I/O manager, lifetime |
| TSN helpers, diagnostics, tools | none, or presets | validation, logging | none |

Hard behaviours, all of them interleavings that a test hardly hits: contexts are freed while
requests look for them; the mark that a context is going away and the lock that pins it are
taken in several places; the polling timer is a one-shot timer that its own DPC sets again,
against code that cancels it; packet slots change hands between three parties by
compare-and-swap; waits are bounded and teardown goes on after they time out; the event ring
has no lock at all; and no lock is taken around any register, although most of what is done
to an adapter takes several accesses: 64-bit values in two halves, latches that one reading
takes from another, read-modify-writes, flags that are tested, reported and cleared, a PHY
that waits for its answer. `PROJECT.json` lists each hazard with its line and the properties
aimed at it.

What makes each component correct: a context in use is allocated, and a detach ends
(lifetime); no timer or DPC outlives a stop, no subscriber loses its polling (polling);
every packet slot has one owner, no memory of the ring goes before its last user, and what
teardown waits for is what is out (injection); the ring is a bounded queue (event ring); the
table's slots, rings and mappings agree (subscriptions); a gauge is what is outstanding
(data path); a pending clone is allocated when it is cancelled (OID); an adapter called
ready has a clock that runs and counts, also after a sleep (bring-up); times and stamps that
are reported are ones the adapter had (clock); an expiry is not cleared untold, and its
timer ends with the stop (target time); the PHY is left free and never used under the
firmware (PHY); what is borrowed from the system goes back on each way out (discovery); an
id names one entry, and an answer is the requester's own (SRP, ATDECC, settings); a lock
outlives whoever may take it, also when loading fails (driver entry); what an adapter calls
supported it can serve (device operations).

## 2. Modules

| Module | Contents |
|---|---|
| `ContextLifetime` | lifetime of `AVB_DEVICE_CONTEXT` |
| `FilterDriver` | the driver around it: loading, unloading, handles, which adapters are taken |
| `FilterDriverProofs` | the inductive invariant of `ContextLifetime` and four theorems; that `FilterDriver` implements it, and that its locks outlive their users |
| `TxPoll`, `TxPollProofs` | the polling timer of one adapter |
| `TestSendRing`, `TestSendRingProofs` | test packets of one adapter |
| `EventQueue` | abstract: a bounded queue that numbers, drops and counts |
| `TsRing`, `TsRingProofs` | the shared ring, which implements `EventQueue` |
| `TsSubscription`, `TsSubscriptionProofs` | the subscription table of one adapter, its rings, MDLs and views |
| `FilterPaths`, `FilterPathsProofs` | sends, receives and OID requests through one filter, and the gauges that count them |
| `RegisterScript` | the notation for what a function does to the adapter, access by access |
| `NdisPlatform`, `Bar0Discovery` | platform initialisation; discovery of BAR0 and access to configuration space |
| `I210Device`, `I217Device`, `I219Device`, `I226Device` | the operation tables of the four adapters that have one |
| `IntelKernel` | the wrappers `intel_*` that dispatch to them, with their fall-backs |
| `AvbRequests` | bring-up, every request that touches the adapter, the receive path, the DPCs' work, the stop |
| `Scripts` | the scripts of everybody who works on an adapter, for every adapter |
| `AvbHardware` | one adapter, and everybody who runs those scripts on it at once |
| `ScriptFacts` | an analysis of the scripts: what an actor knows at each place of its own |
| `AvbHardwareProofs` | that it is so in every state, and the theorems that follow |
| `AvbTables`, `AvbTablesProofs` | SRP reservations, ATDECC subscriptions, and the settings (VLAN, EEE, PFC, port latency) |
| `MC…` | constants, symmetry and model values for TLC |

In all of them an action is what the code does in one critical section or between two; a
step outside a lock is an action of its own. Operators that start with the name of an action
and stand just above it (`CleanSlotInFlight` above `CleanSlot`) are deliberate faults of
that code, named as mutants: no specification uses them, and each makes one property fail,
which shows that the property depends on the code it is about.

### ContextLifetime

*State.* `flink`, `linked`: the list of filter modules with its forward links, since walks
follow them without the lock. `avbContext`: `pFilter->AvbContext`. `pnp`, `detachCtx`: where
NDIS is in `FilterAttach` or `FilterDetach` of each filter. `live`: allocated contexts.
`hwState`, `instance`, `removed`, `refs`: a context's `hw_state`, `filter_instance` and
remove lock. `registry`, `selected`: `g_AvbContextList` and `g_AvbContext`. `fsContext`:
what each handle is bound to. `req`: per thread, its request with its program counter and
local pointers. Contexts are addresses, so that a freed one can be allocated again for
another adapter.

*Actions.* `Attach*`, `Restart`, `DetachUnlink`, `DetachStartDrain`, `DetachDrained`,
`CleanupUnregister`, `CleanupFree`, `DetachFree` follow filter 415–653, 989–998 and
1068–1098 with `AvbCleanupDevice`. A request is taken by `Begin`; `Find*` is
`AvbFindIntelFilterModule`; `LazyWalk`, `EnumWalk` and `OpenWalk` are the three walks over
the list, with `WalkNext` and `Examine`; `WalkEnds` is what they do without a next filter.
`EnumReport`, `OpenBind`, `OpenServe` are what ENUM and OPEN do at the adapter asked for;
`LazyCreate`, `LazyBringUp` the lazy initialisation; `Guard` the check under
`FilterListLock` that takes the remove lock; `Serve`, `Touch`, `Release` the handler and the
end of the request. What a walk reads in freed memory is any value.

*Abstracted or left out.* `CreateMinimalContext` is one step with `PublishContext`, although
the code publishes the context before it has allocated everything. PCI identities and
adapter indices: any candidate may be the one asked for. The order of `g_AvbContextList`.
Handlers differ only in whether they bring hardware up and whether they go on to use
`g_AvbContext`; the refusal of some IOCTLs on handles never opened is left out, which only
adds behaviours.

### FilterDriver

*State.* `driver`: how far `DriverEntry` or `FilterUnload` has come. `locks`: which of
`FilterListLock` and `g_AvbContextListLock` are allocated. `door`: whether the device object
is shut, takes IRPs, or takes FastIO calls too. `opened`: the handles user mode has open.
`filterReq`: the `IOCTL_FILTER_*` request of a thread. It EXTENDS `ContextLifetime` and adds
to its state.

*Actions.* `InitLocks` to `RegisterEvents` are `DriverEntry` with both its failures (filter
183–330), of which one comes when adapters may be attached already; `Unload` to
`FreeContextListLock` are `FilterUnload`. `Create`, `Close` and `Dispatch` are a handle's
life. `FindFilterModule`, `RestartFound`, `EnumerateAll`, `CompleteAtOnce` are the requests
of device 560–650. Every other step is one of `ContextLifetime`, when the driver's phase
allows it: NDIS attaches once the driver is registered, and `AttachOffered` takes only what
`Attachable` says (no team or virtual adapter, a medium that is served, one of Intel's
names).

*Taken from outside.* The I/O manager closes a handle once no request runs on it and unloads
the driver when none is open. `NdisFDeregisterFilterDriver` attaches nothing more, detaches
every filter, and then returns.

*Abstracted.* An adapter's name is the set of the words the code looks for in it.

### TxPoll

*State.* `filter`: running, pausing, paused, restarting, or a stage of detaching. `mapped`:
whether `hw_state` allows polling. `selected`: this adapter is `g_AvbContext`. `active`:
`tx_poll_active`. `armed`, `queued`, `dpc`: the timer in its queue, its DPC in its queue,
and the running instance. `subs`: handles with a subscription. `lock`: the subscriber inside
`subscription_lock` between raising the flag and setting the timer. `stop`, `awaited`: where
`AvbStopTimers` is, and what `KeFlushQueuedDpcs` still waits for. `disturbed` and `quiet`
are history.

*Actions.* SUBSCRIBE is `Subscribe` and `SubscribeArm`; the stop is `PauseStop` or
`DetachStop` followed by `StopCancel`, `StopCancelAgain` and `StopReturn`; `RestartScan` and
`RestartArm` are `AvbRestartTimers`; the DPC is `DpcStart` to `DpcArm`. A timer can fire
while its DPC runs. The end of a detach is `DetachRemove`, `DetachUnmap` (the subscriptions
and the registers go) and `DetachFree`. Other adapters are only seen moving `g_AvbContext`.

*Left out.* Adapters without a timestamp FIFO, whose DPC returns at once, and the MDIO
fallback of I217 and I219, which serves subscriptions with no registers mapped and so never
polls. What the DPC does with the registers, and the I226's own `target_time_timer`, are in
`AvbHardware`.

### TestSendRing

*State.* `ring`: slots whose NBL, NB, MDL and buffer are allocated. `inUse`: 0 free, 1 in
flight, 2 cleanup deferred. `extra`: packets allocated beyond the ring. `inFlight`: packets
NDIS has. `others`: PTP frames of other senders on the host that have not completed yet.
`pending`, `deferred`: the two counters. The senders, the completing processors and the
detach each have a program counter.

*Actions.* `SendBegin` to `Send` are `AvbSendPtpCore`: scan, claim by compare-and-swap, or
allocate, count, send. `CompleteBegin` to `Uncount` are `FilterSendNetBufferListsComplete`
for what it takes for a test packet, one atomic operation per action. That is a packet whose
NET_BUFFER is of the driver's pool, and any frame with a mapped MDL that goes to
01:1B:19:00:00:00 (filter 1787–1798), as those of a PTP daemon do: `CompleteBegin` takes
either. The second kind matches no slot, is freed (`FreeForeign`) and uncounted like the
rest, though nobody counted it. One may complete at any time until the context is freed.
`Detach` to `FreeContext` are the drain and `AvbCleanupDevice`. Each wait may time out at
any moment, since NDIS promises no time.

*Properties.* `PendingIsExact` says what the counter is worth: the test packets out and the
completions under way, less the frames of others taken so far. `LeftWereTaken` says what the
wait is worth: each such frame may leave one packet or one completion behind. `FreedInQuiet`
is what the comment at the wait says (avb 1468, "Wait for any pending test packets to
complete"), of the driver's own packets; it is not so (see the deviations).

*Abstracted.* What packets hold; a chain is one completion after the other; of the frames of
other senders only those that are taken for test packets are there. Packets beyond the ring
share one buffer and one MDL, which are freed after the first wait: a packet that is late
there is covered only by `timedOut` in `LeftWereTaken`.

### TsRing and EventQueue

*State.* The shared header (`producerIndex`, `consumerIndex`, `overflowCount`), `events`,
the subscription's `sequenceNum`, and the local variables of the driver and of the user.
`received` and `taken` are history.

*Actions.* `PostBegin`, `PostReadCons`, then `PostDrop` or `PostStore` and `PostPublish`:
each access to shared memory is an action, and barriers are their order. One producer is
enough: `AvbPostTimestampEvent` holds `subscription_lock` throughout. `TakeBegin` to
`TakePublish` are the user, who is not part of the driver: it is modelled from what the
driver expects of it, an index that wraps as the driver's own does (avb 1026, 1029).
`avb_ioctl.h` 456 tells it to increment `consumer_index` and says nothing of wrapping; an
index that runs on equals the driver's no more after the first lap, and then the user takes
old events for new ones. No run is spent on that user.

`EventQueue` says what a subscription promises. `TsRing` implements it with `stored` and
`dropped` as functions of the state: an event counts as stored when its index is published,
and as dropped from the moment it was found to have no room. The latter matters: the user
may take an event between the driver's reading of `consumer_index` and its counting of the
drop.

### TsSubscription

*State.* `subscriptions`: per slot `ring_id`, `ring_buffer`, `ring_mdl` and `file_object`; a
slot is `active` exactly when it has a ring. `rings`, `described`, `views`: which rings are
allocated, which MDLs and for which ring, and through which MDLs rings are mapped into
users. `thread`: a request between two holdings of `subscription_lock`, with the pointers it
kept. `held`: what an actor has taken from the table and not yet freed. `detach` and
`cursor`: the loop of `AvbCleanupDevice`. `overtaken` is history.

*Actions.* SUBSCRIBE is `SubscribeAlloc`, `SubscribeInsert` or `SubscribeFull`, and
`SubscribeAnswer`, which reads the slot after the lock: it answers 0, or another
subscription's id, if its own has ended. RING_MAP is `MapFind`, `MapPages` without the lock,
and `MapStore` through the pointer found before: the slot may have been freed, or taken by
another subscription, or mapped by another RING_MAP meanwhile, which `overtaken` records.
`Unsubscribe`, `Close` and `CleanSlot` take pointers from the table under the lock;
`ReleaseMdl` and `ReleaseRing` free them afterwards, one at a time, while others run.
`Close` cleans the adapter the handle is bound to by then, and none if it is unbound;
`OpenAdapter` binds it here or elsewhere.

*Abstracted.* Processes are not told apart: UNSUBSCRIBE and RING_MAP check no owner, so any
handle may name any ring. An unbound handle is served by this adapter, as the fallback does
with one adapter. `next_ring_id` does not wrap. The remove lock is the drain in
`DetachDrained`, which `ContextLifetime` justifies for every request but OPEN_ADAPTER, and
that touches no subscription.

*What the properties leave room for.* An overtaken RING_MAP loses an MDL and a view of
memory that is freed: `ViewsEndWithTheirRing` and the second part of `NothingOutlivesDetach`
say that nothing else does. After a detach the views of the rings it freed remain, since
`AvbCleanupDevice` does not unmap (avb 1441).

### FilterPaths

*State.* `running`: whether `State` is `FilterRunning`. `gauge`: the three
`stats_outstanding_*` fields. `tracked`: `OutstandingSends` and `OutstandingRcvs`.
`miniport`, `protocol`: how many lists the layers below and above have. `oid`, `clone`,
`pendingOid`: the OID request of NDIS, its clone, and `PendingOidRequest`. `cpu`: per
processor, the handler it runs, with how many lists, and a clamp it has yet to do.
`disturbed` and `odd` are history and its bound.

*Actions.* A handler is one action per locked or interlocked step, in the order of the code:
`SendCount`, `SendChecked` or `SendRefused`, `SendTrack`, `SendDown`; `CompleteTrack`,
`CompleteCount`; `ReceiveCount`, `ReceiveChecked` or `ReceiveRefused`, `ReceiveTrack`,
`Indicate`, `ReceiveUntrack`; `ReturnCount`, `ReturnUntrack`; `OidCount` to `OidUp`. `Pause`
and `Restart` change `State`; a checked build (DBG) refuses what comes while the filter is
not running, and to a free build every state is like running. `Subtract` is the interlocked
decrement; when its result is negative, `Clamp` is the compare-and-swap, later. A completion
or return takes any number of what is out, as NDIS splits and merges chains.

`CancelLook` and `CancelRead` are `FilterCancelOidRequest`: the address of the clone is
taken from `PendingOidRequest` under the filter's lock, and its identity is read from the
clone still under it; `Unlocked` says that a completion waits for that lock before it clears
the pointer and frees the clone.

*Abstracted.* A chain is its length. NDIS gives a filter one OID request at a time. The
filter has its context throughout; one that is created while packets are out starts with
gauges that miss them. A completed frame that is taken for a test packet is not handed on
(`TestSendRing`), and the gauges count it with its chain, like any other. The timestamps of
received messages are in `AvbHardware`. `filterDoInternalRequest`, which nothing calls, is
left out.

*What disturbs a gauge.* The gauges are exact except for what is in `disturbed`: a reset; a
packet of the driver's own, whose completion is counted and whose send is not; receives that
cannot pend, which are added and never subtracted; an OID whose clone fails, and lists a
checked build refuses, likewise. `SendGaugeNeverOverstates` needs no exception but the last.
Two decrements below zero whose compare-and-swaps both come too late leave a gauge negative
until something else moves it.

### The adapter: RegisterScript to AvbHardware

*Scripts.* A function that works on the adapter is a sequence of steps, one per access
another processor can come in between; a step says where the function goes on when it
succeeds and when it fails. `Modify` is a read, an edit of the local copy and a write;
`Attempt`, `OrElse`, `Either`, `When` and `Unless` are what callers do with an error. The
modules below are one operator per function of the code, under the function's name:
`I226Device!set_systime` is `i226_set_systime`, `IntelKernel!intel_set_systime` the wrapper,
`AvbRequests!SET_TIMESTAMP` the request. A device is a record of its type and its table,
with `Absent` where the table has NULL.

*Capabilities.* `Baseline` is the capability set an adapter type is given, and
`AvbGetLwfSupportedCapabilities` the part of it GET_HW_STATE calls supported, judging by
which operations the table has. Whether a request succeeds is decided elsewhere, by the
script. The assumption `SupportedIsServed`, which TLC evaluates, compares the two: each
request for a supported capability has a way to succeed (`CanSucceed`), and TAS, FP and PTM
have none when they are not supported. SET_TIMESTAMP is not among these requests: the I217's
clock can be read and never set.

*State of AvbHardware.* `load`: which scripts run, on which adapter, from which state.
`adapter`: `hw_state`, whether registers are mapped, the fields of the context that decide
what a request does. `regs`: the flags of TSAUXC, TIMINCA, TSICR and TQAVCTRL that the
scripts test. `clock`: SYSTIM, its latch, and the I219's software offset and shadow.
`stamp`: the latch of TXSTMP or of RXSTMP, whichever way the packets of the workload go
(`load.latch`); the other one stays empty. `phy`: the flag of the software, the firmware's
use. `timer`: the target-time timer and `target_time_poll_active`. `local`: per actor its
program counter, its copy of a register and what it is in the middle of reading. `hist` is
history.

*Actors.* Two requests, by IRP or FastIO, the DPC of the target-time timer, the polling DPC,
`AvbStopTimers`. Besides them the clock (`Tick`), the miniport (`MiniportReadsClock`,
`Packet`), the firmware (`FirmwareUsesPhy`) and the target time (`Expire`, `Fire`) act; they
are the hardware as the code and its comments describe it. *No lock of the driver is taken
around any step*, so all interleavings are behaviours (`systim_lock`, `avb_integration.h`
159, is never acquired).

*What is not interleaved.* A step that reads and writes nothing any other actor shares, and
whose outcome nobody else can change, is taken at once (`Hidden`, `Turn`). Such a step
commutes with all others, and the properties do not read what it changes; `Borrow` is one,
since each request borrows for itself. A register outside `Registers` holds nothing that is
tested.

*Abstracted.* The values of times, increments and gates; the register file beyond the flags;
ranges of arguments (a request is well formed). Polls are a few instead of 200, or 8:
`MaxPolls`, `MaxCapabilities`. SYSTIM is two bits, one per half, which is what it takes to
carry from one to the other.

### AvbTables

*State.* `slots`, `next`: per table the entries and the counter for ids (`next_srp_handle`,
`next_atdecc_sub_id`). `settings`: the fields of the context for VLAN, EEE, PFC and port
latency. `thread`: a request between its accesses, with what it asks of the settings and the
stores it has yet to do. `retired` is history, `begun` a bound.

*Actions.* `Register` and `RegisterFull` are both tables' registration under the lock;
`AnswerId`, `AnswerContent` read the slot again after it. `Deregister`, `Unsubscribe` free
the first slot with an id, whoever asks; `Poll` looks an id up. `VlanEnable` to
`SetPortLatency` begin a request for settings, `Store` is the next of its stores, in the
order of the code and under no lock, `ReadVlanId` and `ReadVlanPcp` read the tag back,
`AnswerSet` ends the others. `SetupQav` checks its arguments and keeps nothing.

*Abstracted.* Stream ids, bandwidths and masks are one value per entry, the numbers of a
setting one value per request. The queues of ATDECC events: nothing in the driver puts one
in (`avb_integration.h` 62), so POLL always finds them empty. The counters do not wrap below
2^32 registrations; past that two entries may share an id. That latencies are added to
timestamps (avb 930, filter 2438) is arithmetic on one interlocked read.

## 3. Runs

| Run | Question | Bounds | Answer |
|---|---|---|---|
| `lifetime` | In the driver from load to unload: is a pinned or listed context allocated? Does a drain only shrink, and end? Do the global locks outlive their users? | 1 filter, 1 address, 2 threads, 1 handle, all kinds of request, 3 offers | holds |
| `lifetime_open_unpinned` | Is the context OPEN_ADAPTER serves allocated? | 1 of each | violated |
| `lifetime_handle_reuse` | Does a handle reach the adapter it was opened on? | 2 filters, 1 address | violated |
| `txpoll` | Does a stop stop, does a subscriber keep the flag, does polling go on? | 2 handles | holds |
| `txpoll_freed_armed` | Is the timer of a freed context idle? | 1 handle | violated |
| `sendring` | Slots, memory, pools, context: does each outlive its users? | 3 slots, 1 extra packet, 2 frames of others, 3 senders, 3 completers | holds |
| `tsring` | Does the ring implement the queue, untorn? | 4 slots, 12 events | holds |
| `subscription` | Rings, MDLs, views: freed once, and by somebody? | 2 slots, 3 rings, 2 MDLs, 2 handles, 2 threads, 3 subscriptions | holds |
| `subscription_survives` | Does closing a handle end its subscriptions? | 1 handle, 1 thread | violated |
| `filterpaths` | Through pauses and refusals: are the gauges exact, the counts balanced, the clone that is cancelled allocated? | 3 processors, 3 lists at once, 2 disturbances | holds |
| `hardware` | Clock, times, stamps, states, PHY, target time, borrowed things: consistent, whoever comes in between? | 632 workloads, 3 ticks, 2 expiries, 5 packets | holds |
| `tables` | Does an id name one entry, and is an answer the requester's own? | 2 slots, 2 threads, 2 contents, ids below 4, 3 requests for settings | holds |

**Why the bounds are enough.** Lifetime: two threads are what a race for one context takes,
and the filter may attach and detach any number of times; with one address every new context
lies where the last one was, the case in which a stale pointer deceives. The driver may fail
to load, load and unload any number of times, and one handle is enough to keep it from
unloading; the offers are an adapter that is taken, a team and a virtual adapter. Nothing is
counted, so the state space is complete. The safety properties of the run are proved for any
number of adapters, addresses, threads and handles; `DetachCompletes`, which is not, is
about one detach and those who hold its lock. Polling: two handles are one that leaves and
one that stays; the space is complete. Injection: three senders and three completers allow a
full ring, a claim, a return and a deferral of the same slot at once; two frames of others
take the count below 0 and hide one packet or two. Event ring: 12 events are three laps over
four slots; `MaxEvents` bounds posts and takes, and is why that run may stop. Subscriptions:
with two slots and three rings the table can be full while a ring waits for a slot, and
three subscriptions reuse a slot that a RING_MAP still points to; `MaxIds` bounds
subscriptions. Filter paths: three processors let a reset or another path come between a
decrement and its clamp on two others, three lists are a chain that is split; `MaxLists`
bounds the lists in both directions together and `MaxOdd` the disturbances. Hardware: all
triples of requests would be tens of thousands of systems of which most never touch the same
register. `MCWorkloads` has every request alone, on every adapter and from every state
(attached, mapped but reset, mapped, ready), and two or three at once where they share
something: the clock, its increment, bring-up, the PHY with the firmware, the target time
with both pollers and the stop, the two stamps with the polling DPC, and every adapter
resuming from sleep while requests arrive. Two of a kind are what a lost update or a stolen
latch takes, since what stands between a read and its write is one other write. `MaxTime` 3
is a carry from the low half to the high one; two expiries are one that comes while the
first is being reported; five packets are two in each of two readings and one that finds the
latch taken. Tables: two slots are a full one and a free one, and both are reused; `MaxIds`
is far below the width of the counters. `MaxSettings` 3 is two requests at once and one that
came before; the constraint `OneConcern` leaves out behaviours that use both the tables and
the settings, which share nothing.

**Where the system may stop.** `CHECK_DEADLOCK FALSE` is set where a detach ends the
component's life (TxPoll, TestSendRing, TsSubscription) or the bound on events ends the run
(TsRing). The other runs check for deadlock; in `hardware` the end of all requests is
`Finished`, and any other stop (a wait for the PHY that nobody ends, a flush) would be
reported.

**What the violations show.**

- `lifetime_open_unpinned`: OPEN_ADAPTER finds a filter under `FilterListLock`, releases it,
  and dispatches to its handler without the remove lock, where `avb_integration.h` 301 says
  that it is acquired before each IOCTL dispatch. FilterDetach frees the context meanwhile.
- `lifetime_handle_reuse`: the guard accepts a handle whose `FsContext` is the address of
  some listed context. After the adapter is gone and another's context was allocated at that
  address, the handle reaches the other adapter.
- `txpoll_freed_armed`: cleanup of the last subscribed handle lowers `tx_poll_active`
  without cancelling the timer; the pause and detach that follow find the flag down and
  cancel nothing. The timer is part of the freed memory.
- `subscription_survives`: a handle that never called OPEN_ADAPTER is served by the
  fallback, but `IRP_MJ_CLEANUP` cleans only handles with an `FsContext` (device 472); the
  fallback inside `AvbCleanupFileSubscriptions` is never reached. The ring stays mapped into
  a process that thinks it has closed it, and its slot taken.

**Deviations the models show and no run is spent on.**

- Lifetime: eight handlers replace their pinned context by `g_AvbContext`, which nothing
  pins (`Touch`). With two adapters, opening the second ends the first one's polling for
  good, its flag still up (avb 887): its DPC returns without setting the timer. A
  subscription that raises the flag while `AvbStopTimers` runs has its timer cancelled, and
  `AvbRestartTimers` takes the flag for a running timer.
- Injection: after the second timeout the pools are kept for late packets, the context is
  not (avb 1583). A frame of another sender to 01:1B:19:00:00:00 is completed as if it were
  a test packet: it is freed and never handed back (filter 1877–1886), and takes one off
  `test_packets_pending`, for good. With one packet from beyond the ring in flight the count
  is then 0, so the detach does not wait and frees the pools the packet is from and the
  context its completion will use: TLC finds `FreedInQuiet` violated in 16 steps with one
  slot, one packet beyond the ring and one such frame, and `LeftWereTaken` is what is left
  of it. The comment there speaks of "kernel-originated NBLs" (filter 1745), the counter of
  "outstanding test NBLs" (`avb_integration.h` 179).
- Subscriptions: two RING_MAPs of one ring may both map it (`MapStore`). Gauges: see *What
  disturbs a gauge*; GET_STATISTICS casts one that is negative for a moment to 64 unsigned
  bits.
- TSAUXC is a read-modify-write of three kinds of request. `set_systime` halts the clock for
  its two writes and starts it again from what it had read; one that comes in between is
  lost, or leaves the clock halted (`hist.lost` in `ClockRuns`).
- PTP_READY: GET_TIMESTAMP, SET_TIMESTAMP and GET_AUX_TIMESTAMP promote an adapter whose
  TIMINCA is not zero (avb 3154–3160), and ADJUST_FREQUENCY sets TIMINCA without starting
  the clock. After a reset the two together call a halted clock ready, where
  `include/avb_ioctl.h` 391 says "PTP clock verified incrementing" (`hist.assumed` in
  `ClockRuns`).
- Times: the latch of SYSTIM belongs to whoever reads the low half last, so the snapshot
  that i226 391–393 calls atomic and guaranteed by hardware is not, with two readers
  (`disturbed` in `ReadsAreTimes`). The I219 rechecks what it reads for its user, but
  computes its software offset from a pair it does not recheck (i219 284–285), and keeps the
  offset. The fast path of TEST_SEND_PTP reads the time without asking for a state (device
  265–277): on an I210 whose registers are mapped between the missed latch of SYSTIMR and
  the reads, it is the time of an older latch, so `ReadsAreTimes` says nothing of that
  answer on the I210.
- Stamps: a second reader of TXSTMP leaves the first with halves of two packets, or with one
  packet twice (`shared` in `StampsAreWhole`), where avb 2970 calls the sequence atomic.
  RXSTMP is read without the test of TSYNCRXCTL.RXTT that `docs/add_spec.md` 12 asks for:
  the second event message of a chain is given the first one's stamp, and an empty latch is
  answered as valid.
- PHY: the wait for the software flag sets it after 200 polls whether it was free or not
  (i219 427–446, i217 211; the comment at i219 419 promises -1 on timeout). From then two
  requests own it, and the first that is done lets the firmware in (`shared` in
  `PhyIsHandedOver`).
- Bring-up: between a resume and the end of FilterRestart an adapter whose clock was reset
  is called PTP_READY; two requests that find no registers mapped both map them, and one
  mapping is never undone (`leaked`). The I225 has PCI ids and a capability set, but no
  operation table, and is never brought up.
- Tables: SRP_DEREGISTER answers an unknown handle, and 0, with success. Two requests for
  one setting may leave a mixture of both (`overtaken` in `AnswersAreOwn`).
- Driver entry: when NDIS or the device cannot be registered, `FilterListLock` is freed and
  `g_AvbContextListLock` is not (filter 273, 285). IOCTL_FILTER_RESTART_ONE_INSTANCE uses
  the `FilterHandle` of a filter after the lock under which it was found (`RestartFound`); a
  detach may have freed it.
- Data path: a packet of the driver's own is sent in whatever state the filter is
  (`InjectDown`), where filter 683 says that after FilterPause it must not send.
- Capabilities: an I217 or I219 that goes on without registers has the state BAR_MAPPED, and
  GET_HW_STATE goes by the state: it calls BASIC_1588 supported, and no clock can be
  reached.

**Fairness.** `lifetime`: a thread with a request goes on (`WF(RequestGoesOn(t))`, threads
are scheduled and no handler waits for anything but spin locks) and a detach that has begun
goes on (`WF(DetachGoesOn(f))`, NDIS calls it on a thread). No fairness is given to
attaching, to the start of a detach or to new requests. `txpoll`: the timer fires and its
DPC runs, a subscriber leaves the spin lock, a pause or restart under way continues.
Requests, detaches and pauses need not come. The two liveness properties are therefore about
what is under way: `DetachCompletes` and `PollingGoesOn`. The other runs check safety and
assume none.

## 4. Proofs

All theorems are `Spec => []…` (or `[][…]_vars`, or refinement) for arbitrary constants
under the named assumptions of each module, and are proved by TLAPS to the last leaf.

**FilterDriverProofs**, of `ContextLifetime`, assumes only that the list head and the null
context are no filter and no context, that there is a handle, and that request kinds are
among the five. `TypeCorrect`, `PinnedSafety`, `ListedSafety` and `DrainSafety` follow from

    IInv == Shape /\ OwnedContextOK /\ DetachedContextOK /\ PinnedContextIsLive

`PinnedContextIsLive` is not inductive: that a context is freed only after its last holder
released it depends on whose it is. `OwnedContextOK` says that the context of a filter that
is attached, or not yet drained, is allocated, registered and that filter's;
`DetachedContextOK` says that what a detach remembers as its context is out of reach of the
guard and, past the drain, has no holder. `Shape` adds types and what local pointers may
point to. The proof goes action by action, PnP and requests apart, shape before core.

Of the driver (`DriverImplementsLifetime`, `DriverKeepsLifetime`, `LocksSafety`) it shows
that each step of the driver is a step of `ContextLifetime` or leaves its variables alone,
so that `DriverSpec => Spec`, and the four theorems hold of a driver that loads, fails to
load and unloads. `LocksOutliveUsers` needs `DriverInv`: a request stays on an open handle,
no handle is open unless the driver runs, no filter is attached where
`NdisFDeregisterFilterDriver` has returned or nothing was registered, and the locks are
allocated in between.

**TxPollProofs** (`TypeCorrect`, `StopSafety`, `SubscriberSafety`) needs, beyond the
properties, what each stage of `AvbStopTimers` has achieved: `AwaitedOK` (flush waits for
what is queued or running), `FlushOK` (after the first cancel only a DPC it waits for can
have set the timer) and `FlushAgainOK` (after the second, none can). They hold unless
`disturbed`. `SubscribedAreMapped` and `DrainedOK` carry the hardware state and the drain.

**TsRingProofs** (`TypeCorrect`, `TornSafety`, `Implementation`) assumes only a ring of at
least one slot. The inductive invariant ties indices to counts: `IndicesOK` (the waiting
events, at most `N - 1`, are the distance between the indices), `ContentsOK` (slot by slot,
the waiting events are those numbered after `taken`), `ProducerOK` and `ConsumerOK` (what a
local copy still implies: a stale `localCons` only makes the ring look fuller, a stale
`producerIndex` only emptier). The lemma `Mask` states `& mask` for indices in range.
Refinement is step simulation under that invariant.

**AvbTablesProofs** (`IdsIdentifyAlways`, `AnswersAreOwnAlways`) assumes at least one slot
and that no content is the null content. The inductive invariant is

    IInv == TypeOK /\ IdsAreCounted /\ IdsIdentify /\ EntryIsKept /\ PollIsRight /\ SettingIsKept

`IdsIdentify` alone is not inductive: that a new id is new needs `IdsAreCounted` (ids in use
and given up are at most the counter). `EntryIsKept` says that the slot a request will read
again still holds its entry, or the entry's id is retired; `PollIsRight` that a poll which
found nothing asked for an id given up or not given out; `SettingIsKept` that each setting a
request asks for is owed or, while nobody overtook it, as it asked. The proof holds for
counters without a width, as `MaxIds` is any number.

**TsSubscriptionProofs** (`TypeCorrect`, `OneRingOwner`, `OneMdlOwner`, `ViewsEnd`,
`DetachIsComplete`) assumes at least one slot, that the null pointers are in no pool and
that the detach is none of the threads. The five properties count owners, which no step can
be checked against; the inductive invariant says the same without counting,

    IInv == TypeOK /\ SlotsOK /\ DetachOK /\ RingInv /\ MdlInv /\ ViewInv

`RingInv`: what a slot, a subscribing thread or a list of things taken refers to is
allocated, no two of them refer to the same ring, and each allocated ring is referred to.
`MdlInv` is the same of MDLs, except that an overtaken RING_MAP may lose one. `ViewInv`: a
view shows what its MDL describes, and the owner of its MDL has its ring as well. `SlotsOK`:
a slot whose id is 0 has no ring, and one without a ring has no MDL. `DetachOK`: past the
drain no request is under way, and the slots below the cursor are empty. Unsubscribing,
closing a handle and clearing a slot in the detach are one lemma (`TakeKeeps`): what is
taken from a set of active slots passes unchanged to whoever takes it.

**TestSendRingProofs** (`TypeCorrect`, `OneHolder`, `HeldIsAllocated`, `PoolsGoLast`,
`PendingCounts`, `LittleIsLeft`, `QuietUnlessTaken`) assumes a ring of any size, also none,
that packets beyond the ring are no slots and frames of others no packets, and finitely many
of them, of senders and of processors. The inductive invariant is

    IInv == TypeOK /\ HoldersOK /\ SlotsOK /\ PhasesOK /\ CountsOK /\ StaysQuiet

`HoldersOK`: no two hold one packet, what is held is allocated and in use, and what is in
use is held. `SlotsOK`: a slot that the cleanup has passed is freed, marked, or about to be
freed by one completion. `PhasesOK` is the order of the teardown. `CountsOK` says what the
counters count, as sums of cardinalities that each step changes by one: `pending` is the
packets about to be sent, in flight and in completion, less the frames of others taken;
`deferred` is the marked slots and the completions that free one, less the mark that is not
yet counted. `StaysQuiet`: without a timeout the count is at most 0 once the wait is over,
and no sender is left to raise it. With `CountsOK` that bounds what is left by what was
taken (`LittleIsLeft`); where nothing was taken the comment at the wait is true
(`QuietUnlessTaken`), so those frames are all that deceives it. `PendingIsExact` and
`FreedInQuiet` are no run's properties. The pools go last, as a count of 0 at the end of the
second wait means no marked slot.

**FilterPathsProofs** (`TypeCorrect`, `PendingOidSafety`, `GaugesExactAlways`,
`SendGaugeSafety`, `ReceivesTrackedAlways`) assumes nothing but the module's own
assumptions. `PendingOidIsLive` needs to know where the one processor with the request is,
also while it clamps the gauge, and how far the request is then (`OnePasses`, `PlacesAgree`,
`NobodyPasses`), and that the clone stays pending while somebody reads it under the lock
(`ReaderHasIt`). The gauges follow from

    CountInv == TypeOK /\ finite lists /\ ClampsAreDisturbed /\ Exact /\ never overstated /\ tracked

together with that: undisturbed, each gauge is what is with the miniport, with the protocol
or on its way on some processor; disturbed, the send gauge is at most that; and a clamp
exists only where something disturbed. What is on its way is a sum over processors, and the
lemmas from `SplitLists` to `SubtractCarries` say by how much each move of one processor
changes it; every action then balances, one lemma each.

**AvbHardwareProofs** (`TypeCorrect`, `BorrowedIsReturnedAlways`,
`StateMatchesMappingAlways`, `PhyIsHandedOverAlways`, `ExpiryIsReportedAlways`,
`NoPollAfterStopAlways`, `ReadsAreTimesAlways`, `ReadyMeansTickingAlways`,
`ClockRunsAlways`, `StampsAreWholeAlways`) holds for any set of workloads, hence for any two
requests on any adapter in any start state with or without the pollers, the stop and the
firmware, and for any bounds. `WorkloadsAssumption` only says that a workload is one:
threads run requests, the other actors what is theirs, an adapter shares its PHY with a
firmware only if the PHY has a flag, NDIS restarts the filter of an adapter that was reset
when it was ready, and the I225, which has no operation table, is never brought up.

These properties hold because of where in its script each actor is, and the scripts are
data. So the proof is in two parts. `ScriptFacts` analyses each script by data flow: 30
kinds of fact (what is mapped or allocated; what the local copy of a register may hold, and
whether it was judged; who owns the PHY; what is borrowed; how a reading of the clock
stands: begun, its lower half read, whole, judged by a recheck, rechecked; how a packet's
timestamp stands: seen in the latch, half read, taken), what each kind of step teaches or
lets go of by its outcome, and so what is known before each step (`Annotation`).
`FactsAreSound` says that the annotation is closed under all outcomes that are possible, and
that it contains what the step `Needs`; it speaks of no CONSTANT, so that TLC, which
evaluates it before the run `tables`, settles it for good, for every script of every
adapter. TLAPS proves the other half, that what is known is true: `Means` gives each fact
its meaning in a state, and `FactsHold`, that every actor's facts are true where it is, is
part of

    IInv == /\ Typed /\ Placed /\ Fitting /\ Answering /\ Attached /\ Reading /\ IdleIsFree
            /\ Latched /\ FactsHold

`Placed`: a script is left only by its end. `Fitting`: no register holds the flags of
another. `Answering`: an adapter that was brought up answers, unless its family is served
without; `Attached`: so does any that was up when the requests came. `Reading`: a reading
waits for its recheck only where there are registers. `IdleIsFree`: who is done holds
nothing. Each action is first brought to one form (`Takes`: outcome, edits of the actor's
own state, effects on everybody), so that the preservation is proved once and not once per
action and fact. The properties follow with a strengthening of their own where they speak of
more than one actor: `PhyInv` (the flag is up exactly while it has an owner or somebody who
is confirming it), `StopInv` (what each of the six steps of `AvbStopTimers` has achieved),
`Timely`. That the stop is these six steps, all or none, and that `Programs` has the scripts
it should, are two more statements without constants which TLC evaluates (`StopIsStraight`,
`ProgramsAreNamed`). What a fact about a reading means is taken from what the reader itself
has seen (`OfReading`, `Stands`); what others do to the clock and its latch may only disturb
a reading, and a disturbed one claims nothing (`Follows`, `ReadingStays`), except on the
I219, where the recheck finds out.

A clock that runs takes more than one actor: `set_systime` halts it for its two writes and
starts it again from what it had read, while others read TSAUXC, promote the adapter, or
end. Four kinds of fact are about that. `current` is of a copy of TSAUXC that shows a halted
clock only if it is halted, or the copy is behind. `started` holds from the step that starts
the clock, also in the hands of others (`StartedStays`), because whoever halts it `owes` a
start: a place in the script, which `FactsAreSound` finds on every path to the step that
starts the clock and at the end of no script (`Owed`, `OwedStays`). `early` is of a request
that found the adapter not yet brought up. From them

    ReadyInv == Settled /\ hw_state = PTP_READY => Resumes \/ Ticking

(`Ticking`: the clock has its increment, and was started or wrongly taken for running;
`Resumes`: FilterRestart is under way after a reset, and `FactsAreSound` says that it cannot
end without both facts) is kept by every step, and `ReadyMeansTickingAlways` and
`ClockRunsAlways` follow. `Settled` leaves out the I217 and the I219 when they are attached
and not brought up: these are promoted without registers, another request may map them then,
and that INTEL_CAP_MMIO is down meanwhile depends on how many requests there are.

A packet's timestamp is reported whole because of what the latch does between the steps of
its reader. `latched`, `halved` and `stamped` say what a reader of TXSTMP that nobody
disturbed has (`Carries`): the latch is taken, and so keeps its packet until the read that
frees it. `due`, `lowered` and `received` say it of RXSTMP, whose valid bit is never tested:
that it holds the message's timestamp follows from the order in which messages are
indicated. Three invariants relate the actors (`Latched`): `Stamps`, the latch never has a
packet twice, and while no message's timestamp was missed it has the last message's;
`Newest`, of the timestamps taken and not yet reported one read by a lone reader is the
newest, so that it stays newer than what the others report before it; `Single`, no message
is two readers'. A second reader makes the first one `shared`, and a shared one claims
nothing.

**Only model-checked.** `DetachCompletes`, `PollingGoesOn` (liveness). Of the adapter only
`ReadyMeansTicking` and `ClockRuns` of an I217 or I219 that is not `Settled`.

## 5. Not modelled, and the plan

Not modelled:

- *Code nothing calls*: `AvbInitializeDeviceWithBar0Discovery` and `avb_bar0_enhanced.c`,
  `filterDoInternalRequest` and its completion, `intel_i225_kernel_wrapper.c`; the operation
  tables of the I350, 82580, 82576 and 82575, to which `AvbGetIntelDeviceType` maps no PCI
  id; `tsn_config.c`, whose presets no path of the driver uses. `archive/` is not part of
  the build.
- *No state to be about*: status and PnP pass-through, which count and hand on; tracing.
- *Data*: the arithmetic of increments, frequency and timestamps, and the register values of
  gate schedules; ranges of arguments.
- *The environment*: user tools and tests, and vendored code. The consumer of an event ring
  is modelled.

What the map leaves uncovered is mostly that: `archive/` (7,000 lines) and the blank second
half of `src/device.c` (11,000) are in the repository and not in the program.

The plan, in order:

1. `TsSubscription` composed with `TsRing` (one ring per slot) and with the `subs` of
   `TxPoll`, as refinements of abstract specifications of a subscription.
2. `ContextLifetime` composed with `AvbHardware`'s `hw_state`: the promotions that are
   written over the mark of a detach.
