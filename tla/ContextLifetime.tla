--------------------------- MODULE ContextLifetime ---------------------------
(***************************************************************************)
(* Lifetime of the per-adapter AVB_DEVICE_CONTEXT: NDIS attaches and       *)
(* detaches filter modules while IRPs and FastIO calls resolve a context,  *)
(* pin it with its remove lock and use it.  The locks of the code make     *)
(* each critical section one action; everything the code does outside a    *)
(* lock is a separate action, so other actors run in between.              *)
(*                                                                         *)
(* Data that is abstracted: PCI identities (every filter is a supported    *)
(* Intel adapter, as FilterAttach links no other), the requested adapter   *)
(* index (any candidate may be the requested one), the order of            *)
(* g_AvbContextList (its head may be any member).                          *)
(***************************************************************************)
EXTENDS Integers, FiniteSets

CONSTANTS
  Filter,    \* filter modules: the memory of each MS_FILTER instance
  Ctx,       \* addresses an AVB_DEVICE_CONTEXT can be allocated at
  Thread,    \* threads carrying one request each
  Handle,    \* file objects of user-mode handles
  ListHead,      \* &FilterModuleList, the list head; also a NULL PMS_FILTER
  NoCtx,     \* NULL PAVB_DEVICE_CONTEXT
  Kinds      \* the kinds of request issued

AllKinds == {"ioctl", "fastio", "cleanup", "open", "enum"}

ASSUME HeadAssumption == ListHead \notin Filter
ASSUME NoCtxAssumption == NoCtx \notin Ctx
ASSUME HandleAssumption == Handle # {}
ASSUME KindsAssumption == Kinds \subseteq AllKinds

AVB_HW_TEARDOWN   == -1
AVB_HW_BOUND      == 1
AVB_HW_BAR_MAPPED == 2
AVB_HW_PTP_READY  == 3
HwStates == {AVB_HW_TEARDOWN, AVB_HW_BOUND, AVB_HW_BAR_MAPPED, AVB_HW_PTP_READY}

VARIABLES
  flink,       \* FilterModuleLink.Flink of each filter and of the list head
  linked,      \* the filters RemoveEntryList has not unlinked
  avbContext,  \* pFilter->AvbContext
  pnp,         \* where NDIS is in attaching or detaching each filter
  detachCtx,   \* FilterDetach's local avbCtx
  live,        \* allocated contexts
  hwState,     \* ctx->hw_state
  instance,    \* ctx->filter_instance
  removed,     \* contexts whose remove lock refuses new references
  refs,        \* threads holding each context's remove lock
  registry,    \* g_AvbContextList
  selected,    \* g_AvbContext
  fsContext,   \* FileObject->FsContext
  boundTo,     \* history: the filter OPEN_ADAPTER last bound the handle to
  req          \* the request each thread carries

listVars    == <<flink, linked>>
pnpVars     == <<pnp, detachCtx>>
memoryVars  == <<live, instance, registry>>
handleVars  == <<fsContext, boundTo>>
deviceVars  == <<listVars, avbContext, pnpVars, memoryVars, hwState, removed,
                 refs, selected, handleVars>>
vars == <<flink, linked, avbContext, pnp, detachCtx, live, hwState, instance,
          removed, refs, registry, selected, fsContext, boundTo, req>>

-----------------------------------------------------------------------------
(* A thread's request: its program counter, what was asked on which handle *)
(* and its local pointers.                                                 *)

Idle == [pc |-> "idle", kind |-> "ioctl", hnd |-> CHOOSE h \in Handle : TRUE,
         ctx |-> NoCtx, active |-> NoCtx, cand |-> ListHead, next |-> ListHead]

At(t, label)   == req[t].pc = label
Goto(t, label) == req' = [req EXCEPT ![t].pc = label]
Done(t)        == req' = [req EXCEPT ![t] = Idle]

Start(t, label, k, h, c) ==
  req' = [req EXCEPT ![t] = [Idle EXCEPT !.pc = label, !.kind = k, !.hnd = h, !.ctx = c]]

(* Go on with a context, a candidate of a walk, or an active context.      *)
GotoContext(t, label, c) == Start(t, label, req[t].kind, req[t].hnd, c)
GotoCandidate(t, label, f, n) ==
  req' = [req EXCEPT ![t] = [Idle EXCEPT !.pc = label, !.kind = req[t].kind,
                                         !.hnd = req[t].hnd, !.cand = f, !.next = n]]
GotoActive(t, label, c) ==
  req' = [req EXCEPT ![t] = [Idle EXCEPT !.pc = label, !.kind = req[t].kind,
                                         !.hnd = req[t].hnd, !.ctx = req[t].ctx, !.active = c]]

(* Under g_AvbContextListLock, the list gets c, which is selected if none  *)
(* was; then it is stored through OutCtx.                                  *)
PublishContext(c, f) ==
  /\ registry' = registry \cup {c}
  /\ selected' = IF selected = NoCtx THEN c ELSE selected
  /\ avbContext' = [avbContext EXCEPT ![f] = c]

(* AvbCreateMinimalContext: a context for filter f at a free address c.    *)
CreateMinimalContext(c, f) ==
  /\ c \notin live
  /\ live' = live \cup {c}
  /\ instance' = [instance EXCEPT ![c] = f]
  /\ hwState' = [hwState EXCEPT ![c] = AVB_HW_BOUND]
  /\ removed' = removed \ {c}
  /\ refs' = [refs EXCEPT ![c] = {}]
  /\ PublishContext(c, f)

(* Mutant: the next hw_state, without asking for the present one.          *)
BringUpHardwareUnchecked(c) ==
  c # NoCtx /\ hwState' = [hwState EXCEPT ![c] = @ + 1]

(* AvbBringUpHardware: MMIO bring-up may fail, and then leaves hw_state.   *)
BringUpHardware(c) ==
  \/ UNCHANGED hwState
  \/ /\ c # NoCtx
     /\ hwState[c] < AVB_HW_BAR_MAPPED
     /\ hwState' = [hwState EXCEPT ![c] = AVB_HW_BAR_MAPPED]

(* AvbContextListRemove: if c was selected, the head of the list takes over *)
ContextListRemove(c) ==
  /\ registry' = registry \ {c}
  /\ IF selected # c
       THEN UNCHANGED selected
       ELSE \/ registry' = {} /\ selected' = NoCtx
            \/ selected' \in registry'

-----------------------------------------------------------------------------
(* FilterAttach and FilterDetach, serialised per filter by NDIS.           *)

AttachAlloc(f) ==
  /\ pnp[f] = "none"
  /\ pnp' = [pnp EXCEPT ![f] = "initialize"]
  /\ avbContext' = [avbContext EXCEPT ![f] = NoCtx]
  /\ UNCHANGED <<listVars, detachCtx, memoryVars, hwState, removed, refs,
                 selected, handleVars, req>>

AttachInitialize(f) ==
  /\ pnp[f] = "initialize"
  /\ \/ /\ \E c \in Ctx : CreateMinimalContext(c, f)
        /\ pnp' = [pnp EXCEPT ![f] = "bringUp"]
     \/ /\ pnp' = [pnp EXCEPT ![f] = "insert"]
        /\ UNCHANGED <<memoryVars, hwState, removed, refs, selected, avbContext>>
  /\ UNCHANGED <<listVars, detachCtx, handleVars, req>>

AttachBringUp(f) ==
  /\ pnp[f] = "bringUp"
  /\ BringUpHardware(avbContext[f])
  /\ pnp' = [pnp EXCEPT ![f] = "insert"]
  /\ UNCHANGED <<listVars, avbContext, detachCtx, memoryVars, removed, refs,
                 selected, handleVars, req>>

AttachInsert(f) ==
  /\ pnp[f] = "insert"
  /\ flink' = [flink EXCEPT ![f] = flink[ListHead], ![ListHead] = f]
  /\ linked' = linked \cup {f}
  /\ pnp' = [pnp EXCEPT ![f] = "attached"]
  /\ UNCHANGED <<avbContext, detachCtx, memoryVars, hwState, removed, refs,
                 selected, handleVars, req>>

(* FilterRestart, after a pause or a resume, programs the hardware again.  *)
Restart(f) ==
  /\ pnp[f] = "attached"
  /\ avbContext[f] # NoCtx
  /\ BringUpHardware(avbContext[f])
  /\ UNCHANGED <<listVars, avbContext, pnpVars, memoryVars, removed, refs,
                 selected, handleVars, req>>

(* Mutant: FilterDetach marks the context but leaves the filter listed.    *)
DetachMarkOnly(f) ==
  /\ pnp[f] = "attached"
  /\ hwState' = IF avbContext[f] = NoCtx THEN hwState
                ELSE [hwState EXCEPT ![avbContext[f]] = AVB_HW_TEARDOWN]
  /\ pnp' = [pnp EXCEPT ![f] = "unlinked"]
  /\ UNCHANGED <<listVars, avbContext, detachCtx, memoryVars, removed, refs,
                 selected, handleVars, req>>

(* The critical section of FilterDetach: unlink and mark in one.           *)
DetachUnlink(f) ==
  /\ pnp[f] = "attached"
  /\ flink' = [p \in Filter \cup {ListHead} |->
                 IF p \in linked \cup {ListHead} /\ flink[p] = f THEN flink[f] ELSE flink[p]]
  /\ linked' = linked \ {f}
  /\ hwState' = IF avbContext[f] = NoCtx THEN hwState
                ELSE [hwState EXCEPT ![avbContext[f]] = AVB_HW_TEARDOWN]
  /\ pnp' = [pnp EXCEPT ![f] = "unlinked"]
  /\ UNCHANGED <<avbContext, detachCtx, memoryVars, removed, refs, selected,
                 handleVars, req>>

(* IoReleaseRemoveLockAndWait refuses new references from its first step.  *)
DetachStartDrain(f) ==
  /\ pnp[f] = "unlinked"
  /\ IF avbContext[f] = NoCtx
       THEN /\ pnp' = [pnp EXCEPT ![f] = "free"]
            /\ UNCHANGED <<detachCtx, removed>>
       ELSE /\ pnp' = [pnp EXCEPT ![f] = "drain"]
            /\ detachCtx' = [detachCtx EXCEPT ![f] = avbContext[f]]
            /\ removed' = removed \cup {avbContext[f]}
  /\ UNCHANGED <<listVars, avbContext, memoryVars, hwState, refs, selected,
                 handleVars, req>>

(* Mutant: a release that closes the lock and does not wait.               *)
DetachUndrained(f) ==
  /\ pnp[f] = "drain"
  /\ pnp' = [pnp EXCEPT ![f] = "cleanup"]
  /\ UNCHANGED <<listVars, avbContext, detachCtx, memoryVars, hwState, removed,
                 refs, selected, handleVars, req>>

DetachDrained(f) ==
  /\ pnp[f] = "drain"
  /\ refs[detachCtx[f]] = {}
  /\ pnp' = [pnp EXCEPT ![f] = "cleanup"]
  /\ UNCHANGED <<listVars, avbContext, detachCtx, memoryVars, hwState, removed,
                 refs, selected, handleVars, req>>

(* AvbCleanupDevice, as far as lifetime goes: leave the registry, ...      *)
CleanupUnregister(f) ==
  /\ pnp[f] = "cleanup"
  /\ ContextListRemove(detachCtx[f])
  /\ pnp' = [pnp EXCEPT ![f] = "destroy"]
  /\ UNCHANGED <<listVars, avbContext, detachCtx, live, instance, hwState,
                 removed, refs, handleVars, req>>

(* ... then free; the second AvbContextListRemove runs right before.       *)
CleanupFree(f) ==
  /\ pnp[f] = "destroy"
  /\ ContextListRemove(detachCtx[f])
  /\ live' = live \ {detachCtx[f]}
  /\ pnp' = [pnp EXCEPT ![f] = "free"]
  /\ UNCHANGED <<listVars, avbContext, detachCtx, instance, hwState, removed,
                 refs, handleVars, req>>

DetachFree(f) ==
  /\ pnp[f] = "free"
  /\ avbContext' = [avbContext EXCEPT ![f] = NoCtx]
  /\ detachCtx' = [detachCtx EXCEPT ![f] = NoCtx]
  /\ pnp' = [pnp EXCEPT ![f] = "none"]
  /\ UNCHANGED <<listVars, memoryVars, hwState, removed, refs, selected,
                 handleVars, req>>

Attach(f) == AttachAlloc(f) \/ AttachInitialize(f) \/ AttachBringUp(f) \/ AttachInsert(f)
             \/ Restart(f)
Detach(f) == DetachStartDrain(f) \/ DetachDrained(f) \/ CleanupUnregister(f)
             \/ CleanupFree(f) \/ DetachFree(f)

-----------------------------------------------------------------------------
(* A request arrives on a handle.  A handle without FsContext falls back   *)
(* to a search, except in IRP_MJ_CLEANUP, which then has nothing to do.    *)

Begin(t, h, k) ==
  /\ At(t, "idle")
  /\ k = "cleanup" => fsContext[h] # NoCtx
  /\ \/ k \in {"open", "enum"} /\ Start(t, "walk", k, h, NoCtx)
     \/ /\ k \in {"ioctl", "fastio", "cleanup"}
        /\ Start(t, IF fsContext[h] = NoCtx THEN "find" ELSE "guard", k, h, fsContext[h])
  /\ UNCHANGED deviceVars

(* AvbFindIntelFilterModule first tries g_AvbContext, without any lock: it *)
(* reads the pointer and then follows it to filter_instance.               *)
FindSelected(t) ==
  /\ At(t, "find")
  /\ IF selected = NoCtx
       THEN Goto(t, "search")
       ELSE GotoContext(t, "deref", selected)
  /\ UNCHANGED deviceVars

FindDeref(t) ==
  /\ At(t, "deref")
  /\ GotoCandidate(t, "filterContext", instance[req[t].ctx], ListHead)
  /\ UNCHANGED deviceVars

(* Otherwise the filter whose context has the best hw_state, found under   *)
(* FilterListLock; only an IRP without any goes on to lazy initialization. *)
FindSearch(t) ==
  LET found == {f \in linked : avbContext[f] # NoCtx}
      best  == {f \in found : \A g \in found : hwState[avbContext[f]] >= hwState[avbContext[g]]}
  IN
  /\ At(t, "search")
  /\ \/ \E f \in best :
          GotoCandidate(t, "filterContext", f, ListHead)
     \/ found = {} /\ req[t].kind = "ioctl" /\ Goto(t, "walk")
     \/ found = {} /\ req[t].kind = "fastio" /\ Done(t)
  /\ UNCHANGED deviceVars

(* targetContext = pFilter->AvbContext, after the lock is gone.            *)
ReadFilterContext(t) ==
  LET c == avbContext[req[t].cand] IN
  /\ At(t, "filterContext")
  /\ IF c = NoCtx THEN Done(t)
       ELSE GotoContext(t, "guard", c)
  /\ UNCHANGED deviceVars

-----------------------------------------------------------------------------
(* The list walk of ENUM_ADAPTERS, OPEN_ADAPTER and lazy initialization:   *)
(* Link is advanced before FilterListLock is released for each candidate.  *)

(* No candidate is left: ENUM_ADAPTERS answers what it counted, the other  *)
(* two have not found what they were looking for.                          *)
WalkEnds(t) == Done(t)

WalkTo(t, f) ==
  IF f = ListHead THEN WalkEnds(t)
  ELSE GotoCandidate(t, "examine", f, flink[f])

LazyWalk(t) ==
  /\ At(t, "walk") /\ req[t].kind = "ioctl"
  /\ WalkTo(t, flink[ListHead])
  /\ UNCHANGED deviceVars

(* ENUM_ADAPTERS and OPEN_ADAPTER refuse a buffer that is too small.       *)
EnumWalk(t) ==
  /\ At(t, "walk") /\ req[t].kind = "enum"
  /\ Done(t) \/ WalkTo(t, flink[ListHead])
  /\ UNCHANGED deviceVars

OpenWalk(t) ==
  /\ At(t, "walk") /\ req[t].kind = "open"
  /\ Done(t) \/ WalkTo(t, flink[ListHead])
  /\ UNCHANGED deviceVars

WalkNext(t) ==
  /\ At(t, "advance")
  /\ WalkTo(t, req[t].next)
  /\ UNCHANGED deviceVars

(* The candidate is, or is not, the one asked for; OPEN_ADAPTER gives up   *)
(* when the adapter at the index is another one.  Lazy initialization      *)
(* takes every candidate that has no context.                              *)
Examine(t) ==
  LET k == req[t].kind
      uninitialized == avbContext[req[t].cand] = NoCtx
  IN
  /\ At(t, "examine")
  /\ \/ uninitialized /\ Goto(t, "create")
     \/ ~uninitialized /\ k = "enum" /\ Goto(t, "report")
     \/ ~uninitialized /\ k = "open" /\ Goto(t, "bind")
     \/ (k = "ioctl" => ~uninitialized) /\ Goto(t, "advance")
     \/ k = "open" /\ Done(t)
  /\ UNCHANGED deviceVars

(* AvbInitializeDevice, run without FilterListLock, for the candidate ...  *)
LazyCreate(t) ==
  LET k == req[t].kind IN
  /\ At(t, "create")
  /\ \/ /\ \E c \in Ctx : CreateMinimalContext(c, req[t].cand)
        /\ Goto(t, "bringUp")
     \/ /\ CASE k = "open" -> Goto(t, "bind")
             [] k = "enum" -> Goto(t, "report")
             [] OTHER      -> Goto(t, "advance")
        /\ UNCHANGED <<memoryVars, hwState, removed, refs, selected, avbContext>>
  /\ UNCHANGED <<listVars, pnpVars, handleVars>>

(* ... whose second half goes back to cand->AvbContext for the context.    *)
LazyBringUp(t) ==
  LET k == req[t].kind
      c == avbContext[req[t].cand]
  IN
  /\ At(t, "bringUp")
  /\ BringUpHardware(c)
  /\ CASE k = "open"               -> Goto(t, "bind")
       [] k = "enum"               -> Goto(t, "report")
       [] k = "ioctl" /\ c # NoCtx -> GotoContext(t, "guard", c)
       [] OTHER                    -> Goto(t, "advance")
  /\ UNCHANGED <<listVars, avbContext, pnpVars, memoryVars, removed, refs,
                 selected, handleVars>>

(* ENUM_ADAPTERS reads the capabilities of the context, unpinned.          *)
EnumReport(t) ==
  /\ At(t, "report")
  /\ Goto(t, "advance")
  /\ UNCHANGED deviceVars

(* OPEN_ADAPTER stores the context in the handle ...                       *)
OpenBind(t) ==
  LET f == req[t].cand
      c == avbContext[f]
  IN
  /\ At(t, "bind")
  /\ IF c = NoCtx
       THEN Done(t) /\ UNCHANGED handleVars
       ELSE /\ fsContext' = [fsContext EXCEPT ![req[t].hnd] = c]
            /\ boundTo' = [boundTo EXCEPT ![req[t].hnd] = f]
            /\ GotoContext(t, "openServe", c)
  /\ UNCHANGED <<listVars, avbContext, pnpVars, memoryVars, hwState, removed,
                 refs, selected>>

(* ... and dispatches to its handler without taking the remove lock: the   *)
(* context becomes the selected one and its hardware is brought up.        *)
OpenServe(t) ==
  LET c == req[t].ctx IN
  /\ At(t, "openServe")
  /\ selected' = c
  /\ \/ BringUpHardware(c)
     \/ hwState' = [hwState EXCEPT ![c] = AVB_HW_PTP_READY]
  /\ Done(t)
  /\ UNCHANGED <<listVars, avbContext, pnpVars, memoryVars, removed, refs,
                 handleVars>>

-----------------------------------------------------------------------------
(* The guard shared by FastIO, IRP dispatch and IRP_MJ_CLEANUP: under      *)
(* FilterListLock, a context some listed filter owns, that is not being    *)
(* torn down and whose remove lock still accepts references.               *)

(* Mutant: the guard trusts hw_state and does not search the list.         *)
AcceptsUnlisted(c) == c \in live /\ hwState[c] # AVB_HW_TEARDOWN /\ c \notin removed

Accepts(c) ==
  /\ \E f \in linked : avbContext[f] = c
  /\ hwState[c] # AVB_HW_TEARDOWN
  /\ c \notin removed

Guard(t) ==
  LET c == req[t].ctx IN
  /\ At(t, "guard")
  /\ IF Accepts(c)
       THEN /\ refs' = [refs EXCEPT ![c] = @ \cup {t}]
            /\ Goto(t, "serve")
            /\ UNCHANGED handleVars
       ELSE /\ Done(t)
            /\ IF req[t].kind = "cleanup"
                 THEN /\ fsContext' = [fsContext EXCEPT ![req[t].hnd] = NoCtx]
                      /\ boundTo' = [boundTo EXCEPT ![req[t].hnd] = ListHead]
                 ELSE UNCHANGED handleVars
            /\ UNCHANGED refs
  /\ UNCHANGED <<listVars, avbContext, pnpVars, memoryVars, hwState, removed,
                 selected>>

(* A handler works on the pinned context, or, where the code says          *)
(* g_AvbContext ? g_AvbContext : AvbContext, on the selected one.          *)
Serve(t) ==
  /\ At(t, "serve")
  /\ \/ GotoActive(t, "touch", req[t].ctx)
     \/ /\ req[t].kind # "cleanup"
        /\ selected # NoCtx
        /\ GotoActive(t, "touch", selected)
  /\ UNCHANGED deviceVars

Touch(t) ==
  LET c == req[t].active IN
  /\ At(t, "touch")
  /\ IF req[t].kind = "cleanup"
       THEN /\ fsContext' = [fsContext EXCEPT ![req[t].hnd] = NoCtx]
            /\ boundTo' = [boundTo EXCEPT ![req[t].hnd] = ListHead]
            /\ UNCHANGED hwState
       ELSE /\ \/ BringUpHardware(c)
               \/ /\ hwState[c] >= AVB_HW_BAR_MAPPED
                  /\ hwState' = [hwState EXCEPT ![c] = AVB_HW_PTP_READY]
            /\ UNCHANGED handleVars
  /\ Goto(t, "release")
  /\ UNCHANGED <<listVars, avbContext, pnpVars, memoryVars, removed, refs,
                 selected>>

(* Mutant: an early return that forgets IoReleaseRemoveLock.               *)
ReleaseForgotten(t) == At(t, "release") /\ Done(t) /\ UNCHANGED deviceVars

Release(t) ==
  /\ At(t, "release")
  /\ refs' = [refs EXCEPT ![req[t].ctx] = @ \ {t}]
  /\ Done(t)
  /\ UNCHANGED <<listVars, avbContext, pnpVars, memoryVars, hwState, removed,
                 selected, handleVars>>

-----------------------------------------------------------------------------

Init ==
  /\ flink = [p \in Filter \cup {ListHead} |-> ListHead]
  /\ linked = {}
  /\ avbContext = [f \in Filter |-> NoCtx]
  /\ pnp = [f \in Filter |-> "none"]
  /\ detachCtx = [f \in Filter |-> NoCtx]
  /\ live = {}
  /\ hwState = [c \in Ctx |-> AVB_HW_TEARDOWN]
  /\ instance = [c \in Ctx |-> ListHead]
  /\ removed = {}
  /\ refs = [c \in Ctx |-> {}]
  /\ registry = {}
  /\ selected = NoCtx
  /\ fsContext = [h \in Handle |-> NoCtx]
  /\ boundTo = [h \in Handle |-> ListHead]
  /\ req = [t \in Thread |-> Idle]

(* What a thread does once it carries a request.                           *)
Proceed(t) ==
  \/ FindSelected(t) \/ FindDeref(t) \/ FindSearch(t) \/ ReadFilterContext(t)
  \/ LazyWalk(t) \/ EnumWalk(t) \/ OpenWalk(t) \/ WalkNext(t)
  \/ Examine(t) \/ LazyCreate(t) \/ LazyBringUp(t)
  \/ EnumReport(t) \/ OpenBind(t) \/ OpenServe(t)
  \/ Guard(t) \/ Serve(t) \/ Touch(t) \/ Release(t)

Next ==
  \/ \E f \in Filter : Attach(f) \/ DetachUnlink(f) \/ Detach(f)
  \/ \E t \in Thread : Proceed(t) \/ \E h \in Handle, k \in Kinds : Begin(t, h, k)

Spec == Init /\ [][Next]_vars

(* Threads are scheduled and a detach in progress runs on; new requests,   *)
(* attaches and detaches need not come.                                    *)
FairSpec ==
  /\ Spec
  /\ \A t \in Thread : WF_vars(Proceed(t))
  /\ \A f \in Filter : WF_vars(Detach(f))

-----------------------------------------------------------------------------
(* Properties.                                                             *)

Labels == {"idle", "find", "deref", "search", "filterContext", "walk", "examine",
           "advance", "create", "bringUp", "report", "bind", "openServe",
           "guard", "serve", "touch", "release"}
PnpStates == {"none", "initialize", "bringUp", "insert", "attached", "unlinked",
              "drain", "cleanup", "destroy", "free"}
Requests == [pc : Labels, kind : AllKinds, hnd : Handle, ctx : Ctx \cup {NoCtx},
             active : Ctx \cup {NoCtx}, cand : Filter \cup {ListHead},
             next : Filter \cup {ListHead}]

(* Every variable of the lifetime protocol has its type.                   *)
TypeOK ==
  /\ flink \in [Filter \cup {ListHead} -> Filter \cup {ListHead}]
  /\ linked \subseteq Filter
  /\ avbContext \in [Filter -> Ctx \cup {NoCtx}]
  /\ pnp \in [Filter -> PnpStates]
  /\ detachCtx \in [Filter -> Ctx \cup {NoCtx}]
  /\ live \subseteq Ctx
  /\ hwState \in [Ctx -> HwStates]
  /\ instance \in [Ctx -> Filter \cup {ListHead}]
  /\ removed \subseteq Ctx
  /\ refs \in [Ctx -> SUBSET Thread]
  /\ registry \subseteq Ctx
  /\ selected \in Ctx \cup {NoCtx}
  /\ fsContext \in [Handle -> Ctx \cup {NoCtx}]
  /\ boundTo \in [Handle -> Filter \cup {ListHead}]
  /\ req \in [Thread -> Requests]

Dispatched(t) == req[t].pc \in {"serve", "touch", "release"}

(* A request the guard let through holds the remove lock of its context,   *)
(* and that context stays allocated until the request releases it, however *)
(* many lazy initializations, detaches and reallocations run meanwhile     *)
(* (device.c 57-88, 444-467, 771-801).                                     *)
PinnedContextIsLive ==
  \A t \in Thread : Dispatched(t) => req[t].ctx \in live /\ t \in refs[req[t].ctx]

(* What FilterListLock protects: a filter found in FilterModuleList has no *)
(* context or its own allocated, registered one, so the guard may read its *)
(* hw_state and remove lock (device.c 71-79).                              *)
ListedContextIsLive ==
  \A f \in linked :
    LET c == avbContext[f] IN
    c # NoCtx => c \in live /\ c \in registry /\ instance[c] = f

(* Once FilterDetach has unlinked a filter no request newly pins any       *)
(* context of it, so the drain only has to outwait those already in        *)
(* flight (filter.c 1070-1087).                                            *)
NoReferenceOnceUnlinked ==
  [][\A c \in live \cap live' : instance[c] \notin linked => refs'[c] \subseteq refs[c]]_vars

(* A detach that has started always ends: the requests it waits for come   *)
(* to their release and no new ones keep it waiting (filter.c 1084-1087).  *)
DetachCompletes ==
  \A f \in Filter : pnp[f] = "unlinked" ~> pnp[f] = "none"

(* What documents or comments claim and the code does not keep.            *)

(* avb_integration.h 301: the remove lock is acquired before each IOCTL    *)
(* dispatch.  OPEN_ADAPTER dispatches without it (device.c 1073).          *)
OpenServesLiveContext ==
  \A t \in Thread : At(t, "openServe") => req[t].ctx \in live

(* device.c 690: requests on a handle reach the adapter it was opened on.  *)
(* The guard compares addresses, and a later context may reuse one.        *)
HandleReachesItsAdapter ==
  \A h \in Handle :
    fsContext[h] # NoCtx /\ Accepts(fsContext[h]) => instance[fsContext[h]] = boundTo[h]
=============================================================================
