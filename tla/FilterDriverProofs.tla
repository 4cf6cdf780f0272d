------------------------- MODULE FilterDriverProofs -------------------------
(***************************************************************************)
(* Safety of the context lifetime protocol for any number of adapters,     *)
(* addresses, threads and handles, allocation failures and racing lazy     *)
(* initializations included.  Then of the driver around it: it implements  *)
(* the protocol, whatever it does to load and unload, so the theorems hold *)
(* of the driver too; and its locks are allocated whenever somebody may    *)
(* take them.                                                              *)
(***************************************************************************)
EXTENDS FilterDriver, TLAPS

(* Contexts that some AvbCreateMinimalContext has filled in at least once. *)
Known == {c \in Ctx : instance[c] \in Filter}
Pointer == Known \cup {NoCtx}

(* Every pointer of the program leads to memory that held a context once.  *)
PointersOK ==
  /\ registry \subseteq Known
  /\ selected \in Pointer
  /\ \A f \in Filter : avbContext[f] \in Pointer
  /\ \A h \in Handle : fsContext[h] \in Pointer
  /\ \A t \in Thread : req[t].ctx \in Pointer

(* The locals a request is about to follow are not NULL.                   *)
LocalOK(r) ==
  /\ r.pc \in {"filterContext", "examine", "create", "bringUp", "report", "bind"}
       => r.cand \in Filter
  /\ r.pc \in {"deref", "openServe", "guard", "serve", "touch", "release"} => r.ctx \in Ctx
  /\ r.pc = "touch" => r.active \in Ctx
LocalsOK == \A t \in Thread : LocalOK(req[t])

Owning == {"initialize", "bringUp", "insert", "attached", "unlinked"}
Draining == {"drain", "cleanup", "destroy"}

(* A filter owns its context from creation until FilterDetach takes it ... *)
OwnedContextOK ==
  \A f \in Filter :
    pnp[f] \in Owning /\ avbContext[f] # NoCtx =>
      /\ avbContext[f] \in live /\ avbContext[f] \in registry
      /\ instance[avbContext[f]] = f

(* ... and from then on the detach owns it, its remove lock closed, and    *)
(* nobody holds it once the drain is over.                                 *)
DetachedContextOK ==
  \A f \in Filter : pnp[f] \in Draining =>
    /\ detachCtx[f] \in live /\ detachCtx[f] \in removed
    /\ instance[detachCtx[f]] = f
    /\ pnp[f] # "drain" => refs[detachCtx[f]] = {}

LinkedOK == \A f \in Filter : f \in linked <=> pnp[f] = "attached"

Shape == TypeOK /\ PointersOK /\ LocalsOK /\ LinkedOK

IInv ==
  /\ Shape
  /\ OwnedContextOK
  /\ DetachedContextOK
  /\ PinnedContextIsLive

-----------------------------------------------------------------------------

USE HeadAssumption, NoCtxAssumption, HandleAssumption, KindsAssumption

LEMMA IdleIsRequest == Idle \in Requests
BY DEF Idle, Requests, Labels, AllKinds

LEMMA InitShape == Init => Shape
<1> SUFFICES ASSUME Init PROVE Shape
  OBVIOUS
<1>1. TypeOK
  BY IdleIsRequest DEF Init, TypeOK, PnpStates, HwStates
<1>2. PointersOK /\ LocalsOK /\ LinkedOK
  BY DEF Init, Idle, PointersOK, LocalsOK, LocalOK, LinkedOK, Pointer
<1>3. QED
  BY <1>1, <1>2 DEF Shape

(* A step of FilterAttach or FilterDetach keeps the shape of the state.    *)
LEMMA PnpShape ==
  ASSUME Shape, NEW f \in Filter, Attach(f) \/ DetachUnlink(f) \/ Detach(f)
  PROVE  Shape'
<1> USE DEF Shape, TypeOK, PointersOK, LocalsOK, LocalOK, LinkedOK, Pointer, Known, PnpStates, HwStates, 
            listVars, pnpVars, memoryVars, handleVars, AVB_HW_TEARDOWN, AVB_HW_BOUND, AVB_HW_BAR_MAPPED
<1>1. CASE AttachAlloc(f)
  BY <1>1 DEF AttachAlloc
<1>2. CASE AttachInitialize(f)
  BY <1>2 DEF AttachInitialize, CreateMinimalContext, PublishContext
<1>3. CASE AttachBringUp(f)
  BY <1>3 DEF AttachBringUp, BringUpHardware
<1>4. CASE AttachInsert(f)
  BY <1>4 DEF AttachInsert
<1>5. CASE DetachUnlink(f)
  BY <1>5 DEF DetachUnlink
<1>6. CASE DetachStartDrain(f)
  BY <1>6 DEF DetachStartDrain
<1>7. CASE DetachDrained(f)
  BY <1>7 DEF DetachDrained
<1>8. CASE CleanupUnregister(f)
  BY <1>8 DEF CleanupUnregister, ContextListRemove
<1>9. CASE CleanupFree(f)
  BY <1>9 DEF CleanupFree, ContextListRemove
<1>10. CASE DetachFree(f)
  BY <1>10 DEF DetachFree
<1>11. CASE Restart(f)
  BY <1>11 DEF Restart, BringUpHardware
<1>12. QED
  BY <1>1, <1>2, <1>3, <1>4, <1>5, <1>6, <1>7, <1>8, <1>9, <1>10, <1>11 DEF Attach, Detach

(* What the helpers that move a request on do to its fields.               *)
LEMMA DoneFields ==
  ASSUME req \in [Thread -> Requests], NEW t \in Thread, Done(t)
  PROVE  /\ req' \in [Thread -> Requests]
         /\ req'[t].pc = "idle" /\ req'[t].ctx = NoCtx
         /\ \A s \in Thread \ {t} : req'[s] = req[s]
BY IdleIsRequest DEF Done, Idle

LEMMA GotoFields ==
  ASSUME req \in [Thread -> Requests], NEW t \in Thread, NEW l \in Labels, Goto(t, l)
  PROVE  /\ req' \in [Thread -> Requests]
         /\ req'[t].pc = l
         /\ req'[t].ctx = req[t].ctx
         /\ req'[t].active = req[t].active
         /\ req'[t].cand = req[t].cand
         /\ \A s \in Thread \ {t} : req'[s] = req[s]
BY DEF Goto, Requests

LEMMA StartFields ==
  ASSUME req \in [Thread -> Requests], NEW t \in Thread, NEW l \in Labels,
         NEW k \in AllKinds, NEW h \in Handle, NEW c \in Ctx \cup {NoCtx},
         Start(t, l, k, h, c)
  PROVE  /\ req' \in [Thread -> Requests]
         /\ req'[t].pc = l
         /\ req'[t].ctx = c
         /\ \A s \in Thread \ {t} : req'[s] = req[s]
BY IdleIsRequest DEF Start, Requests

LEMMA GotoContextFields ==
  ASSUME req \in [Thread -> Requests], NEW t \in Thread, NEW l \in Labels,
         NEW c \in Ctx \cup {NoCtx}, GotoContext(t, l, c)
  PROVE  /\ req' \in [Thread -> Requests]
         /\ req'[t].pc = l
         /\ req'[t].ctx = c
         /\ \A s \in Thread \ {t} : req'[s] = req[s]
<1>1. req[t].kind \in AllKinds /\ req[t].hnd \in Handle
  BY DEF Requests
<1>2. QED
  BY <1>1, StartFields DEF GotoContext

LEMMA GotoCandidateFields ==
  ASSUME req \in [Thread -> Requests], NEW t \in Thread, NEW l \in Labels,
         NEW f \in Filter \cup {ListHead}, NEW n \in Filter \cup {ListHead},
         GotoCandidate(t, l, f, n)
  PROVE  /\ req' \in [Thread -> Requests]
         /\ req'[t].pc = l
         /\ req'[t].ctx = NoCtx
         /\ req'[t].cand = f
         /\ \A s \in Thread \ {t} : req'[s] = req[s]
BY IdleIsRequest DEF GotoCandidate, Requests, Idle

LEMMA GotoActiveFields ==
  ASSUME req \in [Thread -> Requests], NEW t \in Thread, NEW l \in Labels,
         NEW c \in Ctx \cup {NoCtx}, GotoActive(t, l, c)
  PROVE  /\ req' \in [Thread -> Requests]
         /\ req'[t].pc = l
         /\ req'[t].ctx = req[t].ctx
         /\ req'[t].active = c
         /\ \A s \in Thread \ {t} : req'[s] = req[s]
BY IdleIsRequest DEF GotoActive, Requests

(* A step that only moves one request on keeps the shape.                  *)
LEMMA MoveShape ==
  ASSUME Shape, NEW t \in Thread, UNCHANGED deviceVars,
         req' \in [Thread -> Requests], \A s \in Thread \ {t} : req'[s] = req[s],
         req'[t].ctx \in Pointer, LocalOK(req'[t])
  PROVE  Shape'
<1> USE DEF Shape, deviceVars, listVars, pnpVars, memoryVars, handleVars
<1>1. TypeOK' /\ LinkedOK'
  BY DEF TypeOK, LinkedOK
<1>2. PointersOK'
  <2>1. \A s \in Thread : req'[s].ctx \in Pointer
    BY DEF PointersOK
  <2>2. QED
    BY <2>1 DEF PointersOK, Pointer, Known
<1>3. LocalsOK'
  BY DEF LocalsOK
<1>4. QED
  BY <1>1, <1>2, <1>3

LEMMA StartShape ==
  ASSUME Shape, NEW t \in Thread, UNCHANGED deviceVars, NEW l \in Labels,
         NEW k \in AllKinds, NEW h \in Handle, NEW c \in Pointer,
         l \in {"walk", "find"} \/ (l \in {"deref", "guard", "openServe"} /\ c \in Ctx),
         Start(t, l, k, h, c)
  PROVE  Shape'
<1>1. c \in Ctx \cup {NoCtx} /\ req \in [Thread -> Requests]
  BY DEF Pointer, Known, Shape, TypeOK
<1>2. /\ req' \in [Thread -> Requests] /\ req'[t].pc = l /\ req'[t].ctx = c
      /\ \A s \in Thread \ {t} : req'[s] = req[s]
  BY <1>1, StartFields
<1>3. LocalOK(req'[t])
  BY <1>2 DEF LocalOK
<1>4. QED
  BY <1>2, <1>3, MoveShape

LEMMA CandidateShape ==
  ASSUME Shape, NEW t \in Thread, UNCHANGED deviceVars,
         NEW l \in {"filterContext", "examine"}, NEW f \in Filter,
         NEW n \in Filter \cup {ListHead}, GotoCandidate(t, l, f, n)
  PROVE  Shape'
<1>1. l \in Labels /\ req \in [Thread -> Requests]
  BY DEF Labels, Shape, TypeOK
<1>2. /\ req' \in [Thread -> Requests] /\ req'[t].pc = l
      /\ req'[t].ctx = NoCtx /\ req'[t].cand = f
      /\ \A s \in Thread \ {t} : req'[s] = req[s]
  BY <1>1, GotoCandidateFields
<1>3. LocalOK(req'[t])
  BY <1>2 DEF LocalOK
<1>4. QED
  BY <1>2, <1>3, MoveShape DEF Pointer

LEMMA WalkToShape ==
  ASSUME Shape, NEW t \in Thread, NEW f \in Filter \cup {ListHead}, WalkTo(t, f),
         UNCHANGED deviceVars
  PROVE  Shape'
<1> USE DEF Shape, TypeOK, Pointer, Labels, LocalOK
<1>1. CASE f = ListHead
  BY <1>1, DoneFields, MoveShape DEF WalkTo, WalkEnds
<1>2. CASE f # ListHead
  <2>1. GotoCandidate(t, "examine", f, flink[f]) /\ flink[f] \in Filter \cup {ListHead}
    BY <1>2 DEF WalkTo
  <2>2. QED
    BY <1>2, <2>1, CandidateShape
<1>3. QED
  BY <1>1, <1>2

(* So does a step of a request.                                            *)
LEMMA RequestShape ==
  ASSUME Shape, NEW t \in Thread,
         Proceed(t) \/ \E h \in Handle, k \in Kinds : Begin(t, h, k)
  PROVE  Shape'
<1> USE DEF Shape, TypeOK, PointersOK, Pointer, Known, Labels, LocalsOK, LocalOK, At
<1>0. \A s \in Thread : req[s] \in Requests
  OBVIOUS
<1>1. ASSUME NEW h \in Handle, NEW k \in Kinds, Begin(t, h, k) PROVE Shape'
  <2>1. UNCHANGED deviceVars /\ fsContext[h] \in Pointer /\ k \in AllKinds
    BY <1>1 DEF Begin
  <2>2. CASE k \in {"open", "enum"}
    <3>1. Start(t, "walk", k, h, NoCtx)
      BY <1>1, <2>2 DEF Begin
    <3>2. QED
      BY <2>1, <3>1, StartShape
  <2>3. CASE k \notin {"open", "enum"}
    <3>1. CASE fsContext[h] = NoCtx
      <4>1. Start(t, "find", k, h, NoCtx)
        BY <1>1, <2>3, <3>1 DEF Begin
      <4>2. QED
        BY <2>1, <4>1, StartShape
    <3>2. CASE fsContext[h] # NoCtx
      <4>1. Start(t, "guard", k, h, fsContext[h])
        BY <1>1, <2>3, <3>2 DEF Begin
      <4>2. QED
        BY <2>1, <3>2, <4>1, StartShape
    <3>3. QED
      BY <3>1, <3>2
  <2>4. QED
    BY <2>2, <2>3
<1>2. CASE FindSelected(t)
  BY <1>2, MoveShape, GotoFields, GotoContextFields DEF FindSelected
<1>3. CASE FindDeref(t)
  <2>1. UNCHANGED deviceVars /\ instance[req[t].ctx] \in Filter
    BY <1>3 DEF FindDeref
  <2>2. GotoCandidate(t, "filterContext", instance[req[t].ctx], ListHead)
    BY <1>3 DEF FindDeref
  <2>3. QED
    BY <2>1, <2>2, CandidateShape
<1>4. CASE FindSearch(t)
  <2>1. UNCHANGED deviceVars
    BY <1>4 DEF FindSearch
  <2>2. ASSUME NEW f \in linked, GotoCandidate(t, "filterContext", f, ListHead)
        PROVE  Shape'
    <3>1. f \in Filter
      OBVIOUS
    <3>2. QED
      BY <2>1, <2>2, <3>1, CandidateShape
  <2>3. CASE Goto(t, "walk")
    BY <2>1, <2>3, GotoFields, MoveShape
  <2>4. CASE Done(t)
    BY <2>1, <2>4, DoneFields, MoveShape
  <2>5. QED
    BY <1>4, <2>2, <2>3, <2>4 DEF FindSearch
<1>5. CASE ReadFilterContext(t)
  <2>1. UNCHANGED deviceVars /\ avbContext[req[t].cand] \in Pointer
    BY <1>5 DEF ReadFilterContext
  <2>2. CASE avbContext[req[t].cand] = NoCtx
    BY <1>5, <2>1, <2>2, DoneFields, MoveShape DEF ReadFilterContext
  <2>3. CASE avbContext[req[t].cand] # NoCtx
    <3>1. Start(t, "guard", req[t].kind, req[t].hnd, avbContext[req[t].cand])
      BY <1>5, <2>3 DEF ReadFilterContext, GotoContext
    <3>2. QED
      BY <1>0, <2>1, <2>3, <3>1, StartShape DEF Requests
  <2>4. QED
    BY <2>2, <2>3
<1>6. CASE LazyWalk(t) \/ EnumWalk(t) \/ OpenWalk(t)
  <2>1. UNCHANGED deviceVars /\ flink[ListHead] \in Filter \cup {ListHead}
    BY <1>6 DEF LazyWalk, EnumWalk, OpenWalk
  <2>2. CASE Done(t)
    BY <2>1, <2>2, DoneFields, MoveShape
  <2>3. CASE WalkTo(t, flink[ListHead])
    BY <2>1, <2>3, WalkToShape
  <2>4. QED
    BY <1>6, <2>2, <2>3 DEF LazyWalk, EnumWalk, OpenWalk
<1>7. CASE WalkNext(t)
  BY <1>7, WalkToShape DEF WalkNext, Requests
<1>8. CASE Examine(t)
  BY <1>8, MoveShape, GotoFields, DoneFields DEF Examine
<1>9. CASE LazyCreate(t)
  <2> USE DEF LinkedOK, HwStates, listVars, pnpVars, memoryVars, handleVars
  <2>1. req' \in [Thread -> Requests] /\ req'[t].ctx \in Pointer /\ LocalOK(req'[t])
    BY <1>9, GotoFields, DoneFields DEF LazyCreate
  <2>2. \A s \in Thread \ {t} : req'[s] = req[s]
    BY <1>9, GotoFields, DoneFields DEF LazyCreate
  <2>3. CASE UNCHANGED deviceVars
    BY <2>1, <2>2, <2>3, MoveShape
  <2>4. ASSUME NEW c \in Ctx, CreateMinimalContext(c, req[t].cand) PROVE Shape'
    <3>1. req[t].cand \in Filter
      BY <1>9 DEF LazyCreate
    <3>2. TypeOK' /\ LinkedOK'
      BY <1>9, <2>1, <2>4, <3>1 DEF LazyCreate, CreateMinimalContext, PublishContext
    <3>3. Known' = Known \cup {c}
      BY <2>4, <3>1 DEF CreateMinimalContext, PublishContext
    <3>4. PointersOK'
      <4>1. registry' \subseteq Known' /\ selected' \in Known' \cup {NoCtx}
        BY <2>4, <3>3 DEF CreateMinimalContext, PublishContext
      <4>2. \A f \in Filter : avbContext'[f] \in Known' \cup {NoCtx}
        BY <2>4, <3>1, <3>3 DEF CreateMinimalContext, PublishContext
      <4>3. \A h \in Handle : fsContext'[h] \in Known' \cup {NoCtx}
        BY <1>9, <3>3 DEF LazyCreate
      <4>4. \A s \in Thread : req'[s].ctx \in Known' \cup {NoCtx}
        BY <2>1, <2>2, <3>3
      <4>5. QED
        BY <4>1, <4>2, <4>3, <4>4
    <3>5. LocalsOK'
      BY <2>1, <2>2
    <3>6. QED
      BY <3>2, <3>4, <3>5
  <2>5. QED
    BY <1>9, <2>3, <2>4 DEF LazyCreate, deviceVars
<1>10. CASE LazyBringUp(t)
  <2> USE DEF LinkedOK, HwStates, listVars, pnpVars, memoryVars, handleVars
  <2>1. req[t].cand \in Filter /\ avbContext[req[t].cand] \in Pointer
    BY <1>10 DEF LazyBringUp
  <2>2. /\ req' \in [Thread -> Requests] /\ req'[t].ctx \in Pointer /\ LocalOK(req'[t])
        /\ \A s \in Thread \ {t} : req'[s] = req[s]
    BY <1>10, <2>1, GotoFields, GotoContextFields DEF LazyBringUp
  <2>3. hwState' \in [Ctx -> HwStates]
    BY <1>10, <2>1 DEF LazyBringUp, BringUpHardware
  <2>4. QED
    BY <1>10, <2>2, <2>3 DEF LazyBringUp
<1>11. CASE EnumReport(t)
  BY <1>11, MoveShape, GotoFields DEF EnumReport
<1>12. CASE OpenBind(t)
  <2> USE DEF LinkedOK, listVars, pnpVars, memoryVars, handleVars
  <2>1. req[t].cand \in Filter /\ avbContext[req[t].cand] \in Pointer
    BY <1>12 DEF OpenBind
  <2>2. /\ req' \in [Thread -> Requests] /\ req'[t].ctx \in Pointer /\ LocalOK(req'[t])
        /\ \A s \in Thread \ {t} : req'[s] = req[s]
    BY <1>12, <2>1, DoneFields, GotoContextFields DEF OpenBind
  <2>3. /\ fsContext' \in [Handle -> Ctx \cup {NoCtx}]
        /\ boundTo' \in [Handle -> Filter \cup {ListHead}]
        /\ \A h \in Handle : fsContext'[h] \in Pointer
    BY <1>12, <2>1 DEF OpenBind
  <2>4. QED
    BY <1>12, <2>2, <2>3 DEF OpenBind
<1>13. CASE OpenServe(t)
  BY <1>13, DoneFields DEF OpenServe, BringUpHardware, LinkedOK, HwStates, listVars, pnpVars, memoryVars, handleVars
<1>14. CASE Guard(t)
  <2> USE DEF LinkedOK, listVars, pnpVars, memoryVars, handleVars
  <2>1. CASE Accepts(req[t].ctx)
    <3>1. Goto(t, "serve") /\ UNCHANGED handleVars
      BY <1>14, <2>1 DEF Guard
    <3>2. refs' \in [Ctx -> SUBSET Thread]
      BY <1>14, <2>1 DEF Guard
    <3>3. QED
      BY <1>14, <3>1, <3>2, GotoFields DEF Guard
  <2>2. CASE ~Accepts(req[t].ctx)
    <3>1. Done(t) /\ UNCHANGED refs
      BY <1>14, <2>2 DEF Guard
    <3>2. /\ fsContext' \in [Handle -> Ctx \cup {NoCtx}]
          /\ boundTo' \in [Handle -> Filter \cup {ListHead}]
          /\ \A h \in Handle : fsContext'[h] \in Pointer
      BY <1>14, <2>2 DEF Guard
    <3>3. QED
      BY <1>14, <3>1, <3>2, DoneFields DEF Guard
  <2>3. QED
    BY <2>1, <2>2
<1>15. CASE Serve(t)
  <2>1. UNCHANGED deviceVars
    BY <1>15 DEF Serve
  <2>2. PICK c \in Ctx : GotoActive(t, "touch", c)
    BY <1>15 DEF Serve
  <2>3. QED
    <3>1. /\ req' \in [Thread -> Requests] /\ req'[t].pc = "touch"
          /\ req'[t].ctx = req[t].ctx /\ req'[t].active = c
          /\ \A s \in Thread \ {t} : req'[s] = req[s]
      BY <2>2, GotoActiveFields
    <3>2. req[t].ctx \in Pointer \cap Ctx
      BY <1>15 DEF Serve
    <3>3. LocalOK(req'[t])
      BY <3>1, <3>2
    <3>4. QED
      BY <2>1, <3>1, <3>2, <3>3, MoveShape
<1>16. CASE Touch(t)
  BY <1>16, GotoFields DEF Touch, BringUpHardware, LinkedOK, HwStates, listVars, pnpVars, memoryVars, handleVars
<1>17. CASE Release(t)
  BY <1>17, DoneFields DEF Release, LinkedOK, listVars, pnpVars, memoryVars, handleVars
<1>18. QED
  BY <1>1, <1>2, <1>3, <1>4, <1>5, <1>6, <1>7, <1>8, <1>9, <1>10, <1>11, <1>12,
     <1>13, <1>14, <1>15, <1>16, <1>17 DEF Proceed

-----------------------------------------------------------------------------
(* The core of the protocol.                                               *)

Core == OwnedContextOK /\ DetachedContextOK /\ PinnedContextIsLive

(* A fresh context disturbs nobody: it was not allocated, so no filter,    *)
(* detach or dispatched request refers to its address.                     *)
LEMMA CreateCore ==
  ASSUME IInv, NEW c \in Ctx, NEW f \in Filter, CreateMinimalContext(c, f),
         UNCHANGED detachCtx,
         \A g \in Filter : pnp'[g] \in Owning => pnp[g] \in Owning,
         \A g \in Filter : pnp'[g] \in Draining => pnp'[g] = pnp[g],
         \A t \in Thread : Dispatched(t)' => Dispatched(t) /\ req'[t].ctx = req[t].ctx
  PROVE  Core'
<1> USE DEF IInv, Shape, Core, TypeOK, CreateMinimalContext, PublishContext
<1>1. c \notin live /\ instance'[c] = f
  OBVIOUS
<1>2. ASSUME NEW g \in Filter, pnp'[g] \in Owning, avbContext'[g] # NoCtx
      PROVE  /\ avbContext'[g] \in live' /\ avbContext'[g] \in registry'
             /\ instance'[avbContext'[g]] = g
  <2>1. CASE g = f
    BY <2>1
  <2>2. CASE g # f
    BY <1>2, <2>2 DEF OwnedContextOK
  <2>3. QED
    BY <2>1, <2>2
<1>3. ASSUME NEW g \in Filter, pnp'[g] \in Draining
      PROVE  /\ detachCtx'[g] \in live' /\ detachCtx'[g] \in removed'
             /\ instance'[detachCtx'[g]] = g
             /\ pnp'[g] # "drain" => refs'[detachCtx'[g]] = {}
  <2>1. pnp[g] \in Draining /\ detachCtx[g] \in live /\ detachCtx[g] # c
    BY <1>1, <1>3 DEF DetachedContextOK
  <2>2. QED
    BY <1>3, <2>1 DEF DetachedContextOK
<1>4. ASSUME NEW t \in Thread, Dispatched(t)'
      PROVE  req'[t].ctx \in live' /\ t \in refs'[req'[t].ctx]
  <2>1. Dispatched(t) /\ req'[t].ctx = req[t].ctx
    BY <1>4
  <2>2. req[t].ctx \in live /\ req[t].ctx # c /\ t \in refs[req[t].ctx]
    BY <1>1, <2>1 DEF PinnedContextIsLive
  <2>3. QED
    BY <2>1, <2>2
<1>5. QED
  BY <1>2, <1>3, <1>4 DEF OwnedContextOK, DetachedContextOK, PinnedContextIsLive

LEMMA PnpCore ==
  ASSUME IInv, NEW f \in Filter, Attach(f) \/ DetachUnlink(f) \/ Detach(f)
  PROVE  Core'
<1> USE DEF IInv, Shape, Core, TypeOK, LinkedOK, Owning, Draining, Dispatched,
            listVars, pnpVars, memoryVars, handleVars
<1>0. \A t \in Thread : Dispatched(t) => req[t].ctx \in Ctx
  BY DEF LocalsOK, LocalOK
<1>1. CASE AttachAlloc(f)
  BY <1>1 DEF AttachAlloc, OwnedContextOK, DetachedContextOK, PinnedContextIsLive
<1>2. CASE AttachInitialize(f)
  <2>1. ASSUME NEW c \in Ctx, CreateMinimalContext(c, f) PROVE Core'
    BY <1>2, <2>1, CreateCore DEF AttachInitialize
  <2>2. CASE UNCHANGED <<memoryVars, hwState, removed, refs, selected, avbContext>>
    BY <1>2, <2>2 DEF AttachInitialize, OwnedContextOK, DetachedContextOK, PinnedContextIsLive
  <2>3. QED
    BY <1>2, <2>1, <2>2 DEF AttachInitialize
<1>3. CASE AttachBringUp(f)
  BY <1>3 DEF AttachBringUp, OwnedContextOK, DetachedContextOK, PinnedContextIsLive
<1>4. CASE AttachInsert(f)
  BY <1>4 DEF AttachInsert, OwnedContextOK, DetachedContextOK, PinnedContextIsLive
<1>5. CASE DetachUnlink(f)
  BY <1>5 DEF DetachUnlink, OwnedContextOK, DetachedContextOK, PinnedContextIsLive
<1>6. CASE DetachStartDrain(f)
  BY <1>6 DEF DetachStartDrain, OwnedContextOK, DetachedContextOK, PinnedContextIsLive
<1>7. CASE DetachDrained(f)
  BY <1>7 DEF DetachDrained, OwnedContextOK, DetachedContextOK, PinnedContextIsLive
<1>8. CASE CleanupUnregister(f)
  BY <1>8 DEF CleanupUnregister, ContextListRemove, OwnedContextOK, DetachedContextOK,
              PinnedContextIsLive
<1>9. CASE CleanupFree(f)
  BY <1>0, <1>9 DEF CleanupFree, ContextListRemove, OwnedContextOK, DetachedContextOK,
              PinnedContextIsLive
<1>10. CASE DetachFree(f)
  BY <1>10 DEF DetachFree, OwnedContextOK, DetachedContextOK, PinnedContextIsLive
<1>11. CASE Restart(f)
  BY <1>11 DEF Restart, OwnedContextOK, DetachedContextOK, PinnedContextIsLive
<1>12. QED
  BY <1>1, <1>2, <1>3, <1>4, <1>5, <1>6, <1>7, <1>8, <1>9, <1>10, <1>11 DEF Attach, Detach

LEMMA RequestCore ==
  ASSUME IInv, NEW t \in Thread,
         Proceed(t) \/ \E h \in Handle, k \in Kinds : Begin(t, h, k)
  PROVE  Core'
<1> DEFINE Quiet == UNCHANGED <<avbContext, pnpVars, memoryVars, removed, refs>>
           Undispatched == ~Dispatched(t)'
           Others == \A s \in Thread \ {t} : req'[s] = req[s]
<1> USE DEF IInv, Shape, TypeOK, LocalsOK, LocalOK, Labels
<1>1. ASSUME Quiet, Others, Undispatched \/ (Dispatched(t) /\ req'[t].ctx = req[t].ctx)
      PROVE  Core'
  <2>1. OwnedContextOK' /\ DetachedContextOK'
    BY <1>1 DEF Core, OwnedContextOK, DetachedContextOK, pnpVars, memoryVars
  <2>2. PinnedContextIsLive'
    BY <1>1 DEF PinnedContextIsLive, Dispatched, memoryVars
  <2>3. QED
    BY <2>1, <2>2 DEF Core
<1>2. ASSUME NEW h \in Handle, NEW k \in Kinds, Begin(t, h, k) PROVE Core'
  <2>1. k \in AllKinds /\ fsContext[h] \in Ctx \cup {NoCtx}
    OBVIOUS
  <2>2. PICK l \in {"walk", "find", "guard"}, c \in Ctx \cup {NoCtx} : Start(t, l, k, h, c)
    BY <1>2, <2>1 DEF Begin
  <2>3. Others /\ Undispatched
    BY <2>1, <2>2, StartFields DEF Dispatched
  <2>4. Quiet
    BY <1>2 DEF Begin, deviceVars
  <2>5. QED
    BY <1>1, <2>3, <2>4
<1>3. CASE LazyCreate(t)
  <2>1. Others /\ Undispatched
    BY <1>3, GotoFields, DoneFields DEF LazyCreate, Dispatched
  <2>2. ASSUME NEW c \in Ctx, CreateMinimalContext(c, req[t].cand) PROVE Core'
    <3>1. req[t].cand \in Filter
      BY <1>3 DEF LazyCreate, At
    <3>2. QED
      BY <1>3, <2>1, <2>2, <3>1, CreateCore DEF LazyCreate, Dispatched, pnpVars
  <2>3. QED
    BY <1>1, <1>3, <2>1, <2>2 DEF LazyCreate
<1>4. CASE Guard(t)
  <2> DEFINE c == req[t].ctx
  <2>1. CASE Accepts(c)
    <3>1. PICK f \in linked : avbContext[f] = c
      BY <2>1 DEF Accepts
    <3>2. c \in Ctx /\ c \in live /\ c \notin removed
      BY <1>4, <2>1, <3>1 DEF Guard, At, Accepts, LinkedOK, OwnedContextOK, Owning
    <3>3. Others /\ req'[t].ctx = c /\ refs' = [refs EXCEPT ![c] = @ \cup {t}]
      BY <1>4, <2>1, GotoFields DEF Guard
    <3>4. UNCHANGED <<avbContext, pnpVars, memoryVars, removed>>
      BY <1>4 DEF Guard
    <3>5. OwnedContextOK'
      BY <3>4 DEF OwnedContextOK, pnpVars, memoryVars
    <3>6. DetachedContextOK'
      BY <3>2, <3>3, <3>4 DEF DetachedContextOK, pnpVars, memoryVars, Draining
    <3>7. PinnedContextIsLive'
      BY <3>2, <3>3, <3>4 DEF PinnedContextIsLive, Dispatched, memoryVars
    <3>8. QED
      BY <3>5, <3>6, <3>7 DEF Core
  <2>2. CASE ~Accepts(c)
    <3>1. Quiet /\ Others /\ Undispatched
      BY <1>4, <2>2, DoneFields DEF Guard, Dispatched
    <3>2. QED
      BY <1>1, <3>1
  <2>3. QED
    BY <2>1, <2>2
<1>5. CASE Release(t)
  <2>1. Others /\ Undispatched /\ refs' = [refs EXCEPT ![req[t].ctx] = @ \ {t}]
    BY <1>5, DoneFields DEF Release, Dispatched
  <2>2. UNCHANGED <<avbContext, pnpVars, memoryVars, removed>>
    BY <1>5 DEF Release
  <2>3. OwnedContextOK'
    BY <2>2 DEF OwnedContextOK, pnpVars, memoryVars
  <2>4. DetachedContextOK'
    BY <2>1, <2>2 DEF DetachedContextOK, pnpVars, memoryVars
  <2>5. PinnedContextIsLive'
    BY <2>1, <2>2 DEF PinnedContextIsLive, Dispatched, memoryVars
  <2>6. QED
    BY <2>3, <2>4, <2>5 DEF Core
<1>6. CASE Serve(t)
  <2>1. PICK c \in Ctx \cup {NoCtx} : GotoActive(t, "touch", c)
    BY <1>6 DEF Serve, At
  <2>2. Others /\ req'[t].ctx = req[t].ctx
    BY <2>1, GotoActiveFields
  <2>3. Quiet /\ Dispatched(t)
    BY <1>6 DEF Serve, At, Dispatched, deviceVars
  <2>4. QED
    BY <1>1, <2>2, <2>3
<1>7. CASE Touch(t)
  <2>1. Others /\ req'[t].ctx = req[t].ctx
    BY <1>7, GotoFields DEF Touch
  <2>2. Quiet /\ Dispatched(t)
    BY <1>7 DEF Touch, At, Dispatched
  <2>3. QED
    BY <1>1, <2>1, <2>2
<1>8. CASE FindSelected(t)
  BY <1>1, <1>8, GotoFields, GotoContextFields DEF FindSelected, Dispatched, deviceVars
<1>9. CASE FindDeref(t)
  <2>1. instance[req[t].ctx] \in Filter
    BY <1>9 DEF FindDeref, At, PointersOK, Pointer, Known
  <2>2. Others /\ Undispatched
    BY <1>9, <2>1, GotoCandidateFields DEF FindDeref, Dispatched
  <2>3. QED
    BY <1>1, <1>9, <2>2 DEF FindDeref, deviceVars
<1>10. CASE FindSearch(t)
  <2>1. CASE \E f \in Filter : GotoCandidate(t, "filterContext", f, ListHead)
    BY <1>1, <1>10, <2>1, GotoCandidateFields DEF FindSearch, Dispatched, deviceVars
  <2>2. CASE Goto(t, "walk") \/ Done(t)
    BY <1>1, <1>10, <2>2, GotoFields, DoneFields DEF FindSearch, Dispatched, deviceVars
  <2>3. QED
    BY <1>10, <2>1, <2>2 DEF FindSearch
<1>11. CASE ReadFilterContext(t)
  <2>1. req[t].cand \in Filter
    BY <1>11 DEF ReadFilterContext, At
  <2>2. Others /\ Undispatched
    BY <1>11, <2>1, DoneFields, GotoContextFields DEF ReadFilterContext, Dispatched
  <2>3. QED
    BY <1>1, <1>11, <2>2 DEF ReadFilterContext, deviceVars
<1>12. ASSUME NEW f \in Filter \cup {ListHead}, WalkTo(t, f), UNCHANGED deviceVars
       PROVE  Core'
  <2>1. f # ListHead => flink[f] \in Filter \cup {ListHead}
    OBVIOUS
  <2>2. Others /\ Undispatched
    BY <1>12, <2>1, DoneFields, GotoCandidateFields DEF WalkTo, WalkEnds, Dispatched
  <2>3. QED
    BY <1>1, <1>12, <2>2 DEF deviceVars
<1>13. CASE LazyWalk(t) \/ EnumWalk(t) \/ OpenWalk(t)
  <2>1. UNCHANGED deviceVars /\ flink[ListHead] \in Filter \cup {ListHead}
    BY <1>13 DEF LazyWalk, EnumWalk, OpenWalk
  <2>2. CASE Done(t)
    <3>1. Others /\ Undispatched
      BY <2>2, DoneFields DEF Dispatched
    <3>2. QED
      BY <1>1, <2>1, <3>1 DEF deviceVars
  <2>3. CASE WalkTo(t, flink[ListHead])
    BY <1>12, <2>1, <2>3
  <2>4. QED
    BY <1>13, <2>2, <2>3 DEF LazyWalk, EnumWalk, OpenWalk
<1>14. CASE WalkNext(t)
  BY <1>12, <1>14 DEF WalkNext, Requests
<1>15. CASE Examine(t)
  BY <1>1, <1>15, GotoFields, DoneFields DEF Examine, Dispatched, deviceVars
<1>16. CASE LazyBringUp(t)
  <2>1. avbContext[req[t].cand] \in Ctx \cup {NoCtx}
    BY <1>16 DEF LazyBringUp, At
  <2>2. Others /\ Undispatched
    BY <1>16, <2>1, GotoFields, GotoContextFields DEF LazyBringUp, Dispatched
  <2>3. QED
    BY <1>1, <1>16, <2>2 DEF LazyBringUp
<1>17. CASE EnumReport(t)
  BY <1>1, <1>17, GotoFields DEF EnumReport, Dispatched, deviceVars
<1>18. CASE OpenBind(t)
  <2>1. avbContext[req[t].cand] \in Ctx \cup {NoCtx}
    BY <1>18 DEF OpenBind, At
  <2>2. Others /\ Undispatched
    BY <1>18, <2>1, DoneFields, GotoContextFields DEF OpenBind, Dispatched
  <2>3. QED
    BY <1>1, <1>18, <2>2 DEF OpenBind
<1>19. CASE OpenServe(t)
  BY <1>1, <1>19, DoneFields DEF OpenServe, Dispatched
<1>20. QED
  BY <1>2, <1>3, <1>4, <1>5, <1>6, <1>7, <1>8, <1>9, <1>10, <1>11, <1>13, <1>14,
     <1>15, <1>16, <1>17, <1>18, <1>19 DEF Proceed

-----------------------------------------------------------------------------
(* The inductive invariant, and what follows from it.                      *)

LEMMA InitIInv == Init => IInv
BY InitShape DEF Init, Idle, IInv, OwnedContextOK, DetachedContextOK, Owning, Draining,
                 PinnedContextIsLive, Dispatched

LEMMA StutterIInv == IInv /\ UNCHANGED vars => IInv'
<1> SUFFICES ASSUME IInv, UNCHANGED vars PROVE IInv'
  OBVIOUS
<1> USE DEF vars, IInv, Shape
<1>1. TypeOK' /\ LinkedOK'
  BY DEF TypeOK, LinkedOK
<1>2. PointersOK' /\ LocalsOK'
  BY DEF PointersOK, Pointer, Known, LocalsOK
<1>3. OwnedContextOK' /\ DetachedContextOK' /\ PinnedContextIsLive'
  BY DEF OwnedContextOK, DetachedContextOK, PinnedContextIsLive, Dispatched
<1>4. QED
  BY <1>1, <1>2, <1>3

LEMMA NextIInv == IInv /\ [Next]_vars => IInv'
<1> SUFFICES ASSUME IInv, [Next]_vars PROVE IInv'
  OBVIOUS
<1>1. CASE \E f \in Filter : Attach(f) \/ DetachUnlink(f) \/ Detach(f)
  BY <1>1, PnpShape, PnpCore DEF IInv, Core
<1>2. CASE \E t \in Thread : Proceed(t) \/ \E h \in Handle, k \in Kinds : Begin(t, h, k)
  BY <1>2, RequestShape, RequestCore DEF IInv, Core
<1>3. CASE UNCHANGED vars
  BY <1>3, StutterIInv
<1>4. QED
  BY <1>1, <1>2, <1>3 DEF Next

LEMMA Invariance == Spec => []IInv
BY InitIInv, NextIInv, PTL DEF Spec

(* Every variable keeps its type, whatever races run.                      *)
THEOREM TypeCorrect == Spec => []TypeOK
<1>1. IInv => TypeOK
  BY DEF IInv, Shape
<1>2. QED
  BY <1>1, Invariance, PTL

(* The guard of device.c is enough: a dispatched request's context is      *)
(* never freed under it.                                                   *)
THEOREM PinnedSafety == Spec => []PinnedContextIsLive
<1>1. IInv => PinnedContextIsLive
  BY DEF IInv
<1>2. QED
  BY <1>1, Invariance, PTL

(* A context reached through the filter list under its lock is allocated.  *)
THEOREM ListedSafety == Spec => []ListedContextIsLive
<1>1. IInv => ListedContextIsLive
  BY DEF IInv, Shape, LinkedOK, TypeOK, OwnedContextOK, Owning, ListedContextIsLive
<1>2. QED
  BY <1>1, Invariance, PTL

(* A reference taken in a step is one the guard accepted.                  *)
LEMMA OnlyGuardPins ==
  ASSUME IInv, [Next]_vars, NEW c \in live \cap live', instance[c] \notin linked
  PROVE  refs'[c] \subseteq refs[c]
<1> USE DEF listVars, pnpVars, memoryVars, handleVars, deviceVars, CreateMinimalContext, PublishContext
<1>0. c \in Ctx
  BY DEF IInv, Shape, TypeOK
<1>1. ASSUME NEW f \in Filter, Attach(f) \/ DetachUnlink(f) \/ Detach(f)
      PROVE  refs'[c] \subseteq refs[c]
  BY <1>0, <1>1 DEF Attach, Detach, AttachAlloc, AttachInitialize, AttachBringUp, AttachInsert, Restart,
     DetachUnlink, DetachStartDrain, DetachDrained, CleanupUnregister, CleanupFree, DetachFree,
     IInv, Shape, TypeOK
<1>2. ASSUME NEW t \in Thread, Guard(t) PROVE refs'[c] \subseteq refs[c]
  <2>1. CASE Accepts(req[t].ctx)
    <3>1. PICK f \in linked : avbContext[f] = req[t].ctx
      BY <2>1 DEF Accepts
    <3>2. instance[req[t].ctx] = f
      BY <1>2, <3>1 DEF Guard, At, IInv, Shape, TypeOK, LocalsOK, LocalOK, LinkedOK,
                        OwnedContextOK, Owning
    <3>3. QED
      BY <1>0, <1>2, <3>2 DEF Guard, IInv, Shape, TypeOK
  <2>2. QED
    BY <1>2, <2>1 DEF Guard
<1>3. ASSUME NEW t \in Thread, LazyCreate(t) PROVE refs'[c] \subseteq refs[c]
  BY <1>0, <1>3 DEF LazyCreate, IInv, Shape, TypeOK
<1>4. ASSUME NEW t \in Thread, Release(t) PROVE refs'[c] \subseteq refs[c]
  BY <1>0, <1>4 DEF Release, IInv, Shape, TypeOK
<1>5. ASSUME NEW t \in Thread, Proceed(t), ~Guard(t), ~LazyCreate(t), ~Release(t)
      PROVE  UNCHANGED refs
  BY <1>5 DEF Proceed, FindSelected, FindDeref, FindSearch, ReadFilterContext, LazyWalk,
     EnumWalk, OpenWalk, WalkNext,
     Examine, LazyBringUp, EnumReport, OpenBind, OpenServe, Serve, Touch
<1>6. ASSUME NEW t \in Thread, \E h \in Handle, k \in Kinds : Begin(t, h, k)
      PROVE  UNCHANGED refs
  BY <1>6 DEF Begin
<1>7. CASE UNCHANGED vars
  BY <1>7 DEF vars
<1>8. QED
  BY <1>1, <1>2, <1>3, <1>4, <1>5, <1>6, <1>7 DEF Next

(* Once a filter is unlinked its drain waits for a shrinking set.          *)
THEOREM DrainSafety == Spec => NoReferenceOnceUnlinked
<1>1. IInv /\ [Next]_vars =>
        [\A c \in live \cap live' : instance[c] \notin linked => refs'[c] \subseteq refs[c]]_vars
  BY OnlyGuardPins
<1>2. QED
  BY <1>1, Invariance, PTL DEF Spec, NoReferenceOnceUnlinked

-----------------------------------------------------------------------------
(* The driver.                                                             *)

(* A step of the driver is a step of the lifetime protocol or leaves its   *)
(* variables alone.                                                        *)
LEMMA StepIsLifetimeStep == [DriverNext]_allVars => [Next]_vars
<1> SUFFICES ASSUME [DriverNext]_allVars PROVE [Next]_vars
  OBVIOUS
<1>1. ASSUME DriverStep PROVE UNCHANGED vars
  BY <1>1 DEF DriverStep, Loading, Unloading, InitLocks, RegisterDriver, FilterRegisterOptions,
              RegisterDevice, RegisterDeviceFails, InstallFastIo, RegisterEvents, Unload, DeregisterDevice, DeregisterDriver, DeregisterReturns,
              FreeFilterListLock, FreeContextListLock
<1>2. ASSUME NEW h \in Handle, HandleStep(h) PROVE UNCHANGED vars
  BY <1>2 DEF HandleStep, Create, Close, BeginFilterRequest
<1>3. ASSUME NEW t \in Thread, FilterRequestStep(t) PROVE UNCHANGED vars
  BY <1>3 DEF FilterRequestStep, FindFilterModule, RestartFound, EnumerateAll,
              CompleteAtOnce
<1>4. ASSUME NEW f \in Filter,
             AttachOffered(f) \/ AttachGoesOn(f) \/ Unlink(f) \/ DetachGoesOn(f)
      PROVE  Next
  BY <1>4 DEF AttachOffered, AttachGoesOn, Unlink, DetachGoesOn, Next, Attach
<1>5. ASSUME NEW t \in Thread,
             RequestGoesOn(t) \/ \E h \in Handle, k \in Kinds : Dispatch(t, h, k)
      PROVE  Next
  BY <1>5 DEF RequestGoesOn, Dispatch, Next
<1>6. CASE UNCHANGED allVars
  BY <1>6 DEF allVars
<1>7. QED
  BY <1>1, <1>2, <1>3, <1>4, <1>5, <1>6 DEF DriverNext

(* The driver implements the lifetime protocol.                            *)
THEOREM DriverImplementsLifetime == DriverSpec => Spec
<1>1. DriverInit => Init
  BY DEF DriverInit
<1>2. QED
  BY <1>1, StepIsLifetimeStep, PTL DEF DriverSpec, Spec

(* So a request of the driver never outlives the context it has pinned, a  *)
(* listed context is allocated and a drain is not kept waiting, through    *)
(* loading, a failed DriverEntry and unloading too.                        *)
THEOREM DriverKeepsLifetime ==
  DriverSpec => /\ [](TypeOK /\ PinnedContextIsLive /\ ListedContextIsLive)
                /\ NoReferenceOnceUnlinked
BY DriverImplementsLifetime, TypeCorrect, PinnedSafety, ListedSafety, DrainSafety, PTL

-----------------------------------------------------------------------------
(* Where the driver's locks are, and who is about, in each of its phases.  *)

NoFilters  == \A f \in Filter : pnp[f] = "none"
NoRequests == \A t \in Thread : IsFree(t)

DriverInv ==
  /\ DriverTypeOK
  /\ \A t \in Thread : ~At(t, "idle") => req[t].hnd \in opened
  /\ \A t \in Thread : filterReq[t].pc # "idle" => filterReq[t].hnd \in opened
  /\ driver \notin {"device", "reachable", "running"} => opened = {}
  /\ driver \in {"unloaded", "entered", "failed", "drained"} => NoFilters
  /\ driver \notin {"unloaded", "failed", "drained"} => locks = Locks

(* A request that goes on stays on its handle, leaves the other threads'   *)
(* requests alone, and attaches and detaches nothing.                      *)
StaysOn(t) == req'[t].pc = "idle" \/ req'[t].hnd = req[t].hnd
AloneMoves(t) == \A s \in Thread \ {t} : req'[s] = req[s]

LEMMA MovesStay ==
  ASSUME req \in [Thread -> Requests], NEW t \in Thread,
         \/ Done(t)
         \/ \E l \in Labels : Goto(t, l)
         \/ \E l \in Labels, c \in Ctx \cup {NoCtx} : GotoContext(t, l, c) \/ GotoActive(t, l, c)
         \/ \E l \in Labels, f, n \in Filter \cup {ListHead} : GotoCandidate(t, l, f, n)
  PROVE  StaysOn(t) /\ AloneMoves(t)
<1> USE DEF StaysOn, AloneMoves, Idle
<1>0. req[t] = [req[t] EXCEPT !.pc = req[t].pc] /\ req[t] \in Requests
  BY DEF Requests
<1>1. CASE Done(t)
  BY <1>1 DEF Done
<1>2. ASSUME NEW l \in Labels, Goto(t, l) PROVE StaysOn(t) /\ AloneMoves(t)
  BY <1>2, <1>0 DEF Goto, Requests
<1>3. ASSUME NEW l \in Labels, NEW c \in Ctx \cup {NoCtx}, GotoContext(t, l, c)
      PROVE  StaysOn(t) /\ AloneMoves(t)
  BY <1>3 DEF GotoContext, Start
<1>4. ASSUME NEW l \in Labels, NEW c \in Ctx \cup {NoCtx}, GotoActive(t, l, c)
      PROVE  StaysOn(t) /\ AloneMoves(t)
  BY <1>4 DEF GotoActive
<1>5. ASSUME NEW l \in Labels, NEW f \in Filter \cup {ListHead},
             NEW n \in Filter \cup {ListHead}, GotoCandidate(t, l, f, n)
      PROVE  StaysOn(t) /\ AloneMoves(t)
  BY <1>5 DEF GotoCandidate
<1>6. QED
  BY <1>1, <1>2, <1>3, <1>4, <1>5

LEMMA RequestStays ==
  ASSUME Shape, NEW t \in Thread, Proceed(t)
  PROVE  StaysOn(t) /\ AloneMoves(t) /\ UNCHANGED pnp
<1> USE DEF Shape, TypeOK, Labels
<1> DEFINE Move ==
      \/ Done(t)
      \/ \E l \in Labels : Goto(t, l)
      \/ \E l \in Labels, c \in Ctx \cup {NoCtx} : GotoContext(t, l, c) \/ GotoActive(t, l, c)
      \/ \E l \in Labels, f, n \in Filter \cup {ListHead} : GotoCandidate(t, l, f, n)
<1>1. ASSUME Move PROVE StaysOn(t) /\ AloneMoves(t)
  BY <1>1, MovesStay
<1>2. ASSUME UNCHANGED deviceVars \/ UNCHANGED pnpVars PROVE UNCHANGED pnp
  BY <1>2 DEF deviceVars, pnpVars
<1>a. req[t] \in Requests /\ req[t].ctx \in Ctx \cup {NoCtx} /\ req[t].next \in Filter \cup {ListHead}
  BY DEF Requests
<1>3. ASSUME FindSelected(t) PROVE Move /\ UNCHANGED deviceVars
  BY <1>3 DEF FindSelected
<1>4. ASSUME FindDeref(t) PROVE Move /\ UNCHANGED deviceVars
  BY <1>4, <1>a DEF FindDeref, LocalsOK, LocalOK, At
<1>5. ASSUME FindSearch(t) PROVE Move /\ UNCHANGED deviceVars
  BY <1>5 DEF FindSearch
<1>6. ASSUME ReadFilterContext(t) PROVE Move /\ UNCHANGED deviceVars
  BY <1>6 DEF ReadFilterContext, LocalsOK, LocalOK, At
<1>7. ASSUME LazyWalk(t) \/ EnumWalk(t) \/ OpenWalk(t) PROVE Move /\ UNCHANGED deviceVars
  BY <1>7 DEF LazyWalk, EnumWalk, OpenWalk, WalkTo, WalkEnds
<1>8. ASSUME WalkNext(t) PROVE Move /\ UNCHANGED deviceVars
  BY <1>8, <1>a DEF WalkNext, WalkTo, WalkEnds
<1>9. ASSUME Examine(t) PROVE Move /\ UNCHANGED deviceVars
  BY <1>9 DEF Examine
<1>10. ASSUME LazyCreate(t) PROVE Move /\ UNCHANGED pnpVars
  BY <1>10 DEF LazyCreate
<1>11. ASSUME LazyBringUp(t) PROVE Move /\ UNCHANGED pnpVars
  BY <1>11 DEF LazyBringUp, LocalsOK, LocalOK, At
<1>12. ASSUME EnumReport(t) PROVE Move /\ UNCHANGED deviceVars
  BY <1>12 DEF EnumReport
<1>13. ASSUME OpenBind(t) PROVE Move /\ UNCHANGED pnpVars
  BY <1>13 DEF OpenBind, LocalsOK, LocalOK, At
<1>14. ASSUME OpenServe(t) PROVE Move /\ UNCHANGED pnpVars
  BY <1>14 DEF OpenServe
<1>15. ASSUME Guard(t) PROVE Move /\ UNCHANGED pnpVars
  BY <1>15 DEF Guard
<1>16. ASSUME Serve(t) PROVE Move /\ UNCHANGED deviceVars
  BY <1>16, <1>a DEF Serve
<1>17. ASSUME Touch(t) PROVE Move /\ UNCHANGED pnpVars
  BY <1>17 DEF Touch
<1>18. ASSUME Release(t) PROVE Move /\ UNCHANGED pnpVars
  BY <1>18 DEF Release
<1>19. Move /\ (UNCHANGED deviceVars \/ UNCHANGED pnpVars)
  BY <1>3, <1>4, <1>5, <1>6, <1>7, <1>8, <1>9, <1>10, <1>11, <1>12, <1>13, <1>14, <1>15,
     <1>16, <1>17, <1>18 DEF Proceed
<1>20. QED
  BY <1>1, <1>2, <1>19

-----------------------------------------------------------------------------

LEMMA NoRequestIsRequest == NoRequest \in FilterRequests
<1>1. (CHOOSE h \in Handle : TRUE) \in Handle
  BY HandleAssumption
<1>2. QED
  BY <1>1 DEF NoRequest, FilterRequests

LEMMA InitDriverInv == DriverInit => DriverInv
<1> SUFFICES ASSUME DriverInit PROVE DriverInv
  OBVIOUS
<1>1. DriverTypeOK
  BY NoRequestIsRequest DEF DriverInit, DriverTypeOK, DriverStates
<1>2. NoFilters /\ \A t \in Thread : At(t, "idle") /\ filterReq[t].pc = "idle"
  BY DEF DriverInit, Init, Idle, NoRequest, NoFilters, At
<1>3. QED
  BY <1>1, <1>2 DEF DriverInit, DriverInv

(* The driver's own steps.                                                 *)
LEMMA DriverStepInv ==
  ASSUME DriverInv, DriverStep
  PROVE  DriverInv'
<1> USE DEF DriverInv, DriverTypeOK, DriverStates, NoFilters, At, vars
<1>1. CASE InitLocks
  BY <1>1 DEF InitLocks
<1>2. CASE RegisterDriver
  BY <1>2 DEF RegisterDriver
<1>3. CASE FilterRegisterOptions
  BY <1>3 DEF FilterRegisterOptions
<1>4. CASE RegisterDevice
  BY <1>4 DEF RegisterDevice
<1>5. CASE RegisterDeviceFails
  BY <1>5 DEF RegisterDeviceFails
<1>6. CASE InstallFastIo
  BY <1>6 DEF InstallFastIo
<1>7. CASE RegisterEvents
  BY <1>7 DEF RegisterEvents
<1>8. CASE Unload
  BY <1>8 DEF Unload
<1>9. CASE DeregisterDevice
  BY <1>9 DEF DeregisterDevice
<1>10. CASE DeregisterDriver
  BY <1>10 DEF DeregisterDriver
<1>11. CASE DeregisterReturns
  BY <1>11 DEF DeregisterReturns
<1>12. CASE FreeFilterListLock
  BY <1>12 DEF FreeFilterListLock
<1>13. CASE FreeContextListLock
  BY <1>13 DEF FreeContextListLock
<1>14. QED
  BY <1>1, <1>2, <1>3, <1>4, <1>5, <1>6, <1>7, <1>8,
     <1>9, <1>10, <1>11, <1>12, <1>13
     DEF DriverStep, Loading, Unloading

(* Handles come, and go only once no request is on them.                   *)
LEMMA HandleStepInv ==
  ASSUME DriverInv, NEW h \in Handle, HandleStep(h)
  PROVE  DriverInv'
<1> USE DEF DriverInv, DriverTypeOK, NoFilters, At, vars
<1>1. CASE Create(h)
  BY <1>1 DEF Create
<1>2. CASE Close(h)
  BY <1>2 DEF Close
<1>3. ASSUME NEW t \in Thread, BeginFilterRequest(t, h) PROVE DriverInv'
  <2>1. PICK label \in {"find", "enumerate", "complete"} :
          filterReq' = [filterReq EXCEPT ![t] = [NoRequest EXCEPT !.pc = label, !.hnd = h]]
    BY <1>3 DEF BeginFilterRequest
  <2> DEFINE r == [NoRequest EXCEPT !.pc = label, !.hnd = h]
  <2>2. r \in FilterRequests /\ r.hnd = h
    BY NoRequestIsRequest DEF FilterRequests
  <2> HIDE DEF r
  <2>3. filterReq' \in [Thread -> FilterRequests]
    BY <2>1, <2>2 DEF r
  <2>4. \A s \in Thread : filterReq'[s].pc # "idle" => filterReq'[s].hnd \in opened
    BY <1>3, <2>1, <2>2 DEF BeginFilterRequest, r
  <2>5. QED
    BY <1>3, <2>3, <2>4 DEF BeginFilterRequest
<1>4. QED
  BY <1>1, <1>2, <1>3 DEF HandleStep

LEMMA FilterRequestInv ==
  ASSUME DriverInv, NEW t \in Thread, FilterRequestStep(t), linked \subseteq Filter
  PROVE  DriverInv'
<1> USE DEF DriverInv, DriverTypeOK, NoFilters, At, vars
<1>1. CASE FindFilterModule(t)
  BY <1>1, NoRequestIsRequest DEF FindFilterModule, NoRequest, FilterRequests
<1>2. CASE RestartFound(t)
  BY <1>2, NoRequestIsRequest DEF RestartFound, NoRequest
<1>3. CASE EnumerateAll(t)
  BY <1>3, NoRequestIsRequest DEF EnumerateAll, NoRequest
<1>4. CASE CompleteAtOnce(t)
  BY <1>4, NoRequestIsRequest DEF CompleteAtOnce, NoRequest
<1>5. QED
  BY <1>1, <1>2, <1>3, <1>4 DEF FilterRequestStep

(* Filters attach only while the driver is registered; one that is there   *)
(* already keeps the driver in a phase in which its locks are.             *)
LEMMA FilterStepInv ==
  ASSUME DriverInv, Shape, NEW f \in Filter,
         AttachOffered(f) \/ AttachGoesOn(f) \/ Unlink(f) \/ DetachGoesOn(f)
  PROVE  DriverInv'
<1>1. UNCHANGED driverVars /\ UNCHANGED req
  BY DEF AttachOffered, AttachGoesOn, Unlink, DetachGoesOn, Attach, Detach, AttachAlloc,
         AttachInitialize, AttachBringUp, AttachInsert, Restart, DetachUnlink,
         DetachStartDrain, DetachDrained, CleanupUnregister, CleanupFree, DetachFree
<1>2. driver \notin {"unloaded", "entered", "failed", "drained"}
  BY DEF DriverInv, NoFilters, AttachOffered, AttachGoesOn, Unlink, DetachUnlink,
         DetachGoesOn, Detach, DetachStartDrain, DetachDrained, CleanupUnregister,
         CleanupFree, DetachFree
<1>3. QED
  BY <1>1, <1>2 DEF DriverInv, DriverTypeOK, driverVars, At

LEMMA RequestStepInv ==
  ASSUME DriverInv, Shape, NEW t \in Thread,
         RequestGoesOn(t) \/ \E h \in Handle, k \in Kinds : Dispatch(t, h, k)
  PROVE  DriverInv'
<1> USE DEF DriverInv, DriverTypeOK, NoFilters, At, driverVars, Shape, TypeOK
<1>1. CASE RequestGoesOn(t)
  <2>1. UNCHANGED driverVars /\ StaysOn(t) /\ AloneMoves(t) /\ UNCHANGED pnp
    BY <1>1, RequestStays DEF RequestGoesOn
  <2>2. ASSUME NEW s \in Thread, req'[s].pc # "idle" PROVE req'[s].hnd \in opened'
    <3>1. CASE s = t
      <4>1. req[t].pc # "idle"
        BY <1>1 DEF RequestGoesOn, Proceed, FindSelected, FindDeref, FindSearch, ReadFilterContext,
                    LazyWalk, EnumWalk, OpenWalk, WalkNext, Examine, LazyCreate, LazyBringUp, EnumReport, OpenBind,
                    OpenServe, Guard, Serve, Touch, Release
      <4>2. QED
        BY <2>1, <2>2, <3>1, <4>1 DEF StaysOn
    <3>2. CASE s # t
      BY <2>1, <2>2, <3>2 DEF AloneMoves
    <3>3. QED
      BY <3>1, <3>2
  <2>3. QED
    BY <2>1, <2>2
<1>2. ASSUME NEW h \in Handle, NEW k \in Kinds, Dispatch(t, h, k) PROVE DriverInv'
  <2>1. UNCHANGED driverVars /\ UNCHANGED pnp /\ h \in opened
    BY <1>2 DEF Dispatch, Begin, deviceVars, pnpVars
  <2>2. AloneMoves(t) /\ req'[t].hnd = h
    <3>1. PICK l \in Labels, c \in Ctx \cup {NoCtx} : Start(t, l, k, h, c)
      BY <1>2 DEF Dispatch, Begin, Labels
    <3>2. QED
      BY <3>1 DEF Start, AloneMoves, Idle
  <2>3. QED
    BY <2>1, <2>2 DEF AloneMoves
<1>3. QED
  BY <1>1, <1>2

LEMMA NextDriverInv == IInv /\ DriverInv /\ [DriverNext]_allVars => DriverInv'
<1> SUFFICES ASSUME IInv, DriverInv, [DriverNext]_allVars PROVE DriverInv'
  OBVIOUS
<1>0. Shape /\ linked \subseteq Filter
  BY DEF IInv, Shape, TypeOK
<1>1. CASE UNCHANGED allVars
  BY <1>1 DEF allVars, driverVars, vars, DriverInv, DriverTypeOK, NoFilters, At
<1>2. CASE DriverNext
  BY <1>2, <1>0, DriverStepInv, HandleStepInv, FilterRequestInv, FilterStepInv, RequestStepInv
     DEF DriverNext
<1>3. QED
  BY <1>1, <1>2

(* Nobody finds a lock freed that it may still take.                       *)
THEOREM LocksSafety == DriverSpec => []LocksOutliveUsers
<1>1. IInv /\ DriverInv => LocksOutliveUsers
  BY DEF IInv, Shape, LinkedOK, TypeOK, DriverInv, NoFilters, IsFree, At, InUse,
         LocksOutliveUsers
<1>2. DriverInit => IInv /\ DriverInv
  BY InitIInv, InitDriverInv DEF DriverInit
<1>3. IInv /\ DriverInv /\ [DriverNext]_allVars => (IInv /\ DriverInv)'
  BY StepIsLifetimeStep, NextIInv, NextDriverInv
<1>4. QED
  BY <1>1, <1>2, <1>3, PTL DEF DriverSpec

=============================================================================
