------------------------ MODULE TsSubscriptionProofs ------------------------
(***************************************************************************)
(* Whatever subscribes, maps, unsubscribes, closes and detaches at once:   *)
(* rings and MDLs have one owner each, are freed once and by somebody, and *)
(* a user's view of a ring ends before the ring does.                      *)
(***************************************************************************)
EXTENDS TsSubscription, FiniteSetTheorems, TLAPS

(* What an owner refers to is allocated ...                                *)
RingsAreAllocated ==
  /\ \A s \in Slot : Active(s) => subscriptions[s].ring \in rings
  /\ \A t \in Thread : At(t, "insert") => thread[t].ring \in rings
  /\ \A a \in Actor : \A p \in held[a] : p.ring \in rings

(* ... by one owner only ...                                               *)
RingsAreNotShared ==
  /\ \A r, s \in Slot : Active(r) /\ subscriptions[r].ring = subscriptions[s].ring => r = s
  /\ \A t, u \in Thread :
       At(t, "insert") /\ At(u, "insert") /\ thread[t].ring = thread[u].ring => t = u
  /\ \A a, b \in Actor : \A p \in held[a], q \in held[b] : p.ring = q.ring => a = b /\ p = q
  /\ \A s \in Slot, t \in Thread :
       At(t, "insert") => subscriptions[s].ring # thread[t].ring
  /\ \A s \in Slot, a \in Actor : \A p \in held[a] : subscriptions[s].ring # p.ring
  /\ \A t \in Thread, a \in Actor : \A p \in held[a] :
       At(t, "insert") => thread[t].ring # p.ring

(* ... and has one.                                                        *)
RingIsOwned(r) ==
  \/ \E s \in Slot : subscriptions[s].ring = r
  \/ \E t \in Thread : At(t, "insert") /\ thread[t].ring = r
  \/ \E a \in Actor : \E p \in held[a] : p.ring = r

RingsAreOwned == \A r \in rings : RingIsOwned(r)

(* The same of the MDLs, which RING_MAP may lose when it is overtaken.     *)
MdlsAreAllocated ==
  /\ \A s \in Slot : subscriptions[s].mdl # NoMdl => described[subscriptions[s].mdl] # NoRing
  /\ \A t \in Thread : At(t, "store") =>
       thread[t].mdl \in Mdl /\ described[thread[t].mdl] = thread[t].ring
  /\ \A a \in Actor : \A p \in held[a] : p.mdl # NoMdl => described[p.mdl] # NoRing

MdlsAreNotShared ==
  /\ \A r, s \in Slot :
       subscriptions[r].mdl # NoMdl /\ subscriptions[r].mdl = subscriptions[s].mdl => r = s
  /\ \A t, u \in Thread :
       At(t, "store") /\ At(u, "store") /\ thread[t].mdl = thread[u].mdl => t = u
  /\ \A a, b \in Actor : \A p \in held[a], q \in held[b] :
       p.mdl # NoMdl /\ p.mdl = q.mdl => a = b /\ p = q
  /\ \A s \in Slot, t \in Thread :
       At(t, "store") => subscriptions[s].mdl # thread[t].mdl
  /\ \A s \in Slot, a \in Actor : \A p \in held[a] :
       p.mdl # NoMdl => subscriptions[s].mdl # p.mdl
  /\ \A t \in Thread, a \in Actor : \A p \in held[a] :
       At(t, "store") => thread[t].mdl # p.mdl

MdlIsOwned(m) ==
  \/ \E s \in Slot : subscriptions[s].mdl = m
  \/ \E t \in Thread : At(t, "store") /\ thread[t].mdl = m
  \/ \E a \in Actor : \E p \in held[a] : p.mdl = m

MdlsAreOwned == ~overtaken => \A m \in Mdl : described[m] # NoRing => MdlIsOwned(m)

(* A free slot has nothing, and a RING_MAP has a ring to map.              *)
SlotsOK ==
  /\ \A s \in Slot : subscriptions[s].id = 0 => ~Active(s)
  /\ ~overtaken => \A s \in Slot : ~Active(s) => subscriptions[s].mdl = NoMdl
  /\ \A t \in Thread : thread[t].pc \in {"map", "store"} => thread[t].ring \in Ring

(* Once the requests have drained none comes back, and AvbCleanupDevice    *)
(* has emptied the slots below its cursor.                                 *)
DetachOK ==
  /\ detach \in {"cleaning", "done"} =>
       /\ \A t \in Thread : At(t, "idle") /\ held[t] = {}
       /\ \A s \in Slot : s < cursor => ~Active(s)
  /\ detach \in {"no", "draining"} => cursor = 1 /\ held["detach"] = {}
  /\ detach = "done" => cursor = N + 1 /\ held["detach"] = {}

(* Until then a view shows what its MDL describes.                         *)
ViewsAreDescribed ==
  detach \in {"no", "draining"} => \A v \in views : described[v.mdl] = v.ring

(* And whoever will end it has both its ring and its MDL.                  *)
ViewIsShown(v) ==
  \/ \E s \in Slot : subscriptions[s].ring = v.ring /\ subscriptions[s].mdl = v.mdl
  \/ \E t \in Thread : At(t, "store") /\ thread[t].mdl = v.mdl
  \/ \E a \in Actor : \E p \in held[a] : p.ring = v.ring /\ p.mdl = v.mdl

ViewsAreShown ==
  detach \in {"no", "draining"} /\ ~overtaken => \A v \in views : ViewIsShown(v)

RingInv == RingsAreAllocated /\ RingsAreNotShared /\ RingsAreOwned
MdlInv  == MdlsAreAllocated /\ MdlsAreNotShared /\ MdlsAreOwned
ViewInv == ViewsAreDescribed /\ ViewsAreShown
IInv == TypeOK /\ SlotsOK /\ DetachOK /\ RingInv /\ MdlInv /\ ViewInv

-----------------------------------------------------------------------------
(* What the parts of the state are made of, ...                            *)
Piece == [ring : Ring, mdl : Mdl \cup {NoMdl}]
Subscription == [id : Nat, ring : Ring \cup {NoRing},
                 mdl : Mdl \cup {NoMdl}, owner : Handle \cup {NoHandle}]
Request == [pc : {"idle", "insert", "answer", "map", "store"},
            handle : Handle \cup {NoHandle}, slot : Slot,
            ring : Ring \cup {NoRing}, mdl : Mdl \cup {NoMdl}]

(* ... and that they are.                                                  *)
LEMMA Types ==
  ASSUME TypeOK
  PROVE  /\ \A s \in Slot : /\ subscriptions[s].id \in Nat
                            /\ subscriptions[s].ring \in Ring \cup {NoRing}
                            /\ subscriptions[s].mdl \in Mdl \cup {NoMdl}
                            /\ Active(s) => subscriptions[s].ring \in Ring
                            /\ Active(s) => Parts(s) \in Piece
         /\ \A t \in Thread : /\ thread[t].slot \in Slot
                              /\ thread[t].ring \in Ring \cup {NoRing}
                              /\ thread[t].mdl \in Mdl \cup {NoMdl}
         /\ \A a \in Actor : held[a] \subseteq Piece
         /\ \A a \in Actor : \A p \in held[a] :
              p.ring \in Ring /\ p.mdl \in Mdl \cup {NoMdl} /\ p = [ring |-> p.ring, mdl |-> p.mdl]
         /\ \A v \in views : v.mdl \in Mdl /\ v.ring \in Ring
         /\ rings \subseteq Ring /\ NoRing \notin rings
         /\ \A t \in Thread : t \in Actor /\ t # "detach"
         /\ "detach" \in Actor
<1>1. \A s \in Slot : subscriptions[s] \in [id : Nat, ring : Ring \cup {NoRing},
                                 mdl : Mdl \cup {NoMdl}, owner : Handle \cup {NoHandle}]
  BY DEF TypeOK
<1>2. \A t \in Thread : thread[t] \in [pc : {"idle", "insert", "answer", "map", "store"},
                            handle : Handle \cup {NoHandle}, slot : Slot,
                            ring : Ring \cup {NoRing}, mdl : Mdl \cup {NoMdl}]
  BY DEF TypeOK
<1>3. \A a \in Actor : held[a] \subseteq Piece
  BY DEF TypeOK, Piece
<1>4. \A p \in Piece : /\ p.ring \in Ring /\ p.mdl \in Mdl \cup {NoMdl}
                      /\ p = [ring |-> p.ring, mdl |-> p.mdl]
  BY DEF Piece
<1>5. \A v \in views : v.mdl \in Mdl /\ v.ring \in Ring
  BY DEF TypeOK
<1>6. rings \subseteq Ring /\ NoRing \notin rings
  BY NullAssumption DEF TypeOK
<1>7. "detach" \in Actor /\ \A t \in Thread : t \in Actor /\ t # "detach"
  BY ThreadAssumption DEF Actor
<1>8. \A s \in Slot : /\ subscriptions[s].id \in Nat
                      /\ subscriptions[s].ring \in Ring \cup {NoRing}
                      /\ subscriptions[s].mdl \in Mdl \cup {NoMdl}
                      /\ Active(s) => subscriptions[s].ring \in Ring
  BY <1>1 DEF Active
<1>9. \A s \in Slot : Active(s) => Parts(s) \in Piece
  BY <1>8 DEF Parts, Piece
<1>10. QED
  BY <1>2, <1>3, <1>4, <1>5, <1>6, <1>7, <1>8, <1>9

(* Initially there is nothing to own.                                      *)
LEMMA InitIsOK == Init => IInv
<1> SUFFICES ASSUME Init PROVE IInv
  OBVIOUS
<1>1. 1 \in Slot /\ 1 \in 1..N+1
  BY SizeAssumption DEF Slot
<1>2. Idle \in [pc : {"idle", "insert", "answer", "map", "store"},
                handle : Handle \cup {NoHandle}, slot : Slot,
                ring : Ring \cup {NoRing}, mdl : Mdl \cup {NoMdl}]
  BY <1>1 DEF Idle
<1>3. FreeSlot \in [id : Nat, ring : Ring \cup {NoRing},
                    mdl : Mdl \cup {NoMdl}, owner : Handle \cup {NoHandle}]
  BY DEF FreeSlot
<1>4. TypeOK
  BY <1>1, <1>2, <1>3 DEF Init, TypeOK
<1>5. /\ \A s \in Slot : subscriptions[s] = FreeSlot
      /\ \A t \in Thread : thread[t] = Idle
      /\ \A a \in Actor : held[a] = {}
      /\ rings = {} /\ views = {} /\ \A m \in Mdl : described[m] = NoRing
  BY DEF Init
<1>6. SlotsOK /\ RingInv /\ MdlInv
  BY <1>5 DEF SlotsOK, RingInv, MdlInv, RingsAreAllocated, RingsAreNotShared, RingsAreOwned,
              MdlsAreAllocated, MdlsAreNotShared, MdlsAreOwned, Active, At, FreeSlot, Idle
<1>7. "detach" \in Actor
  BY DEF Actor
<1>8. DetachOK /\ ViewInv
  BY <1>5, <1>7 DEF Init, DetachOK, ViewInv, ViewsAreDescribed, ViewsAreShown
<1>9. QED
  BY <1>4, <1>6, <1>8 DEF IInv

-----------------------------------------------------------------------------
(* SUBSCRIBE.                                                              *)

(* A new ring has no owner yet but the thread that allocated it.           *)
LEMMA SubscribeAllocKeeps ==
  ASSUME IInv, NEW t \in Thread, NEW h \in Handle, SubscribeAlloc(t, h)
  PROVE  IInv'
<1> USE DEF IInv
<1>1. PICK r \in Ring \ rings :
        /\ rings' = rings \cup {r}
        /\ thread' = [thread EXCEPT ![t] = [Idle EXCEPT !.pc = "insert", !.handle = h, !.ring = r]]
  BY DEF SubscribeAlloc
<1>2. /\ At(t, "idle") /\ detach = "no"
      /\ UNCHANGED <<subscriptions, nextRingId, described, views, fsContext, held, detach,
                     cursor, overtaken>>
  BY DEF SubscribeAlloc, Ready, Accepts, table
<1>3. TypeOK'
  <2>1. 1 \in Slot
    BY SizeAssumption DEF Slot
  <2>2. QED
    BY <1>1, <1>2, <2>1 DEF TypeOK, Idle
<1>4. /\ thread'[t].pc = "insert" /\ thread'[t].ring = r
      /\ \A u \in Thread \ {t} : thread'[u] = thread[u]
  BY <1>1 DEF TypeOK, Idle
<1>5. /\ \A s \in Slot : subscriptions[s].ring # r
      /\ \A u \in Thread \ {t} : At(u, "insert") => thread[u].ring # r
      /\ \A a \in Actor : \A p \in held[a] : p.ring # r
  BY <1>1, NullAssumption DEF RingInv, RingsAreAllocated, Active
<1>6. SlotsOK'
  BY <1>2, <1>4 DEF SlotsOK, Active
<1>7. DetachOK'
  BY <1>2 DEF DetachOK, Active
<1>8. RingInv'
  <2>1. RingsAreAllocated'
    BY <1>1, <1>2, <1>4 DEF RingInv, RingsAreAllocated, At, Active
  <2>2. RingsAreNotShared'
    BY <1>1, <1>2, <1>4, <1>5 DEF RingInv, RingsAreNotShared, At, Active
  <2>3. RingsAreOwned'
    BY <1>1, <1>2, <1>4 DEF RingInv, RingsAreOwned, RingIsOwned, At
  <2>4. QED
    BY <2>1, <2>2, <2>3 DEF RingInv
<1>9. MdlInv'
  BY <1>2, <1>4 DEF MdlInv, MdlsAreAllocated, MdlsAreNotShared, MdlsAreOwned, MdlIsOwned, At
<1>10. ViewInv'
  BY <1>1, <1>2, <1>4 DEF ViewInv, ViewsAreDescribed, ViewsAreShown, ViewIsShown, At
<1>11. QED
  BY <1>3, <1>6, <1>7, <1>8, <1>9, <1>10

(* The thread hands its ring to a slot that had none.                      *)
LEMMA SubscribeInsertKeeps ==
  ASSUME IInv, NEW t \in Thread, SubscribeInsert(t)
  PROVE  IInv'
<1> USE DEF IInv
<1>1. PICK s \in FreeSlots :
        /\ subscriptions' = [subscriptions EXCEPT ![s] =
             [id |-> nextRingId + 1, ring |-> thread[t].ring, mdl |-> NoMdl,
              owner |-> thread[t].handle]]
        /\ thread' = [thread EXCEPT ![t] = [Idle EXCEPT !.pc = "answer", !.slot = s]]
  BY DEF SubscribeInsert
<1>2. /\ At(t, "insert") /\ nextRingId' = nextRingId + 1
      /\ UNCHANGED <<rings, described, views, fsContext, held, detach, cursor, overtaken>>
  BY DEF SubscribeInsert, memory
<1>3. s \in Slot /\ ~Active(s) /\ (~overtaken => subscriptions[s].mdl = NoMdl)
  BY DEF FreeSlots, SlotsOK
<1>4. TypeOK'
  <2>1. nextRingId + 1 \in Nat
    BY DEF TypeOK
  <2>2. QED
    BY <1>1, <1>2, <1>3, <2>1 DEF TypeOK, Idle
<1>5. /\ thread'[t].pc = "answer"
      /\ \A u \in Thread \ {t} : thread'[u] = thread[u]
      /\ subscriptions'[s].id # 0 /\ subscriptions'[s].ring = thread[t].ring
      /\ subscriptions'[s].mdl = NoMdl
      /\ \A r \in Slot \ {s} : subscriptions'[r] = subscriptions[r]
  BY <1>1, <1>3 DEF TypeOK, Idle
<1>6. thread[t].ring \in rings /\ thread[t].ring # NoRing
  BY <1>2, Types DEF RingInv, RingsAreAllocated
<1>7. SlotsOK'
  BY <1>2, <1>3, <1>5, <1>6 DEF SlotsOK, Active
<1>8. DetachOK'
  BY <1>2 DEF DetachOK, At
<1>9. RingInv'
  <2>1. RingsAreAllocated'
    BY <1>2, <1>3, <1>5, <1>6 DEF RingInv, RingsAreAllocated, At, Active
  <2>2. RingsAreNotShared'
    BY <1>2, <1>3, <1>5, <1>6 DEF RingInv, RingsAreNotShared, At, Active
  <2>3. RingsAreOwned'
    BY <1>2, <1>3, <1>5, <1>6, Types DEF RingInv, RingsAreOwned, RingIsOwned, At, Active
  <2>4. QED
    BY <2>1, <2>2, <2>3 DEF RingInv
<1>10. MdlInv'
  <2>1. MdlsAreAllocated'
    BY <1>2, <1>3, <1>5 DEF MdlInv, MdlsAreAllocated, At
  <2>2. MdlsAreNotShared'
    BY <1>2, <1>3, <1>5, NullAssumption DEF MdlInv, MdlsAreNotShared, MdlsAreAllocated, At
  <2>3. MdlsAreOwned'
    BY <1>2, <1>3, <1>5, NullAssumption DEF MdlInv, MdlsAreOwned, MdlIsOwned, At
  <2>4. QED
    BY <2>1, <2>2, <2>3 DEF MdlInv
<1>11. ViewInv'
  <2>1. ViewsAreDescribed'
    BY <1>2 DEF ViewInv, ViewsAreDescribed
  <2>2. \A v \in views : subscriptions[s].ring # v.ring
    BY <1>3, Types, NullAssumption DEF Active
  <2>3. ViewsAreShown'
    BY <1>2, <1>3, <1>5, <2>2 DEF ViewInv, ViewsAreShown, ViewIsShown, At
  <2>4. QED
    BY <2>1, <2>3 DEF ViewInv
<1>12. QED
  BY <1>4, <1>7, <1>8, <1>9, <1>10, <1>11

(* The thread frees the ring for which there is no slot.                   *)
LEMMA SubscribeFullKeeps ==
  ASSUME IInv, NEW t \in Thread, SubscribeFull(t)
  PROVE  IInv'
<1> USE DEF IInv
<1>1. /\ At(t, "insert") /\ rings' = rings \ {thread[t].ring}
      /\ thread' = [thread EXCEPT ![t] = Idle]
      /\ UNCHANGED <<subscriptions, nextRingId, described, views, fsContext, held, detach,
                     cursor, overtaken>>
  BY DEF SubscribeFull, table
<1>2. TypeOK'
  <2>1. 1 \in Slot
    BY SizeAssumption DEF Slot
  <2>2. QED
    BY <1>1, <2>1 DEF TypeOK, Idle
<1>3. /\ thread'[t].pc = "idle"
      /\ \A u \in Thread \ {t} : thread'[u] = thread[u]
  BY <1>1 DEF TypeOK, Idle
<1>4. SlotsOK'
  BY <1>1, <1>3 DEF SlotsOK, Active
<1>5. DetachOK'
  BY <1>1, <1>3 DEF DetachOK, Active, At
<1>6. RingInv'
  <2>1. RingsAreAllocated'
    BY <1>1, <1>3 DEF RingInv, RingsAreAllocated, RingsAreNotShared, At, Active
  <2>2. RingsAreNotShared'
    BY <1>1, <1>3 DEF RingInv, RingsAreNotShared, At, Active
  <2>3. RingsAreOwned'
    BY <1>1, <1>3 DEF RingInv, RingsAreOwned, RingIsOwned, At
  <2>4. QED
    BY <2>1, <2>2, <2>3 DEF RingInv
<1>7. MdlInv'
  BY <1>1, <1>3 DEF MdlInv, MdlsAreAllocated, MdlsAreNotShared, MdlsAreOwned, MdlIsOwned, At
<1>8. ViewInv'
  BY <1>1, <1>3 DEF ViewInv, ViewsAreDescribed, ViewsAreShown, ViewIsShown, At
<1>9. QED
  BY <1>2, <1>4, <1>5, <1>6, <1>7, <1>8

(* A thread stops that owned nothing.                                      *)
LEMMA ThreadStops ==
  ASSUME IInv, NEW t \in Thread, thread[t].pc \in {"answer", "map"},
         thread' = [thread EXCEPT ![t] = Idle],
         UNCHANGED <<subscriptions, nextRingId, rings, described, views, fsContext, held,
                     detach, cursor, overtaken>>
  PROVE  IInv'
<1> USE DEF IInv
<1>1. TypeOK'
  <2>1. 1 \in Slot
    BY SizeAssumption DEF Slot
  <2>2. QED
    BY <2>1 DEF TypeOK, Idle
<1>2. /\ thread'[t].pc = "idle"
      /\ \A u \in Thread \ {t} : thread'[u] = thread[u]
  BY DEF TypeOK, Idle
<1>3. SlotsOK'
  BY <1>2 DEF SlotsOK, Active
<1>4. DetachOK'
  BY <1>2 DEF DetachOK, Active, At
<1>5. RingInv'
  BY <1>2 DEF RingInv, RingsAreAllocated, RingsAreNotShared, RingsAreOwned, RingIsOwned, At,
              Active
<1>6. MdlInv'
  BY <1>2 DEF MdlInv, MdlsAreAllocated, MdlsAreNotShared, MdlsAreOwned, MdlIsOwned, At
<1>7. ViewInv'
  BY <1>2 DEF ViewInv, ViewsAreDescribed, ViewsAreShown, ViewIsShown, At
<1>8. QED
  BY <1>1, <1>3, <1>4, <1>5, <1>6, <1>7

(* The answer changes nothing, even if it is another's ring_id.            *)
LEMMA SubscribeAnswerKeeps ==
  ASSUME IInv, NEW t \in Thread, SubscribeAnswer(t)
  PROVE  IInv'
<1>1. /\ thread[t].pc = "answer" /\ thread' = [thread EXCEPT ![t] = Idle]
      /\ UNCHANGED <<subscriptions, nextRingId, rings, described, views, fsContext, held,
                     detach, cursor, overtaken>>
  BY DEF SubscribeAnswer, table, memory, At
<1>2. QED
  BY <1>1, ThreadStops

-----------------------------------------------------------------------------
(* RING_MAP.                                                               *)

(* RING_MAP only remembers the slot and its ring.                          *)
LEMMA MapFindKeeps ==
  ASSUME IInv, NEW t \in Thread, NEW h \in Handle, NEW s \in Slot, MapFind(t, h, s)
  PROVE  IInv'
<1> USE DEF IInv
<1>1. /\ At(t, "idle") /\ detach = "no" /\ Active(s)
      /\ thread' = [thread EXCEPT ![t] =
           [Idle EXCEPT !.pc = "map", !.handle = h, !.slot = s, !.ring = subscriptions[s].ring]]
      /\ UNCHANGED <<subscriptions, nextRingId, rings, described, views, fsContext, held,
                     detach, cursor, overtaken>>
  BY DEF MapFind, Ready, Accepts, table, memory
<1>2. subscriptions[s].ring \in Ring
  BY <1>1, Types
<1>3. TypeOK'
  BY <1>1, <1>2 DEF TypeOK, Idle
<1>4. /\ thread'[t].pc = "map" /\ thread'[t].ring \in Ring
      /\ \A u \in Thread \ {t} : thread'[u] = thread[u]
  BY <1>1, <1>2 DEF TypeOK, Idle
<1>5. SlotsOK'
  BY <1>1, <1>4 DEF SlotsOK, Active
<1>6. DetachOK'
  BY <1>1 DEF DetachOK
<1>7. RingInv'
  BY <1>1, <1>4 DEF RingInv, RingsAreAllocated, RingsAreNotShared, RingsAreOwned, RingIsOwned,
                    At, Active
<1>8. MdlInv'
  BY <1>1, <1>4 DEF MdlInv, MdlsAreAllocated, MdlsAreNotShared, MdlsAreOwned, MdlIsOwned, At
<1>9. ViewInv'
  BY <1>1, <1>4 DEF ViewInv, ViewsAreDescribed, ViewsAreShown, ViewIsShown, At
<1>10. QED
  BY <1>3, <1>5, <1>6, <1>7, <1>8, <1>9

(* A new MDL is owned by the thread that mapped it.                        *)
LEMMA MapPagesKeeps ==
  ASSUME IInv, NEW t \in Thread, MapPages(t)
  PROVE  IInv'
<1> USE DEF IInv
<1>1. /\ At(t, "map") /\ thread[t].ring \in Ring
      /\ UNCHANGED <<subscriptions, nextRingId, rings, fsContext, held, detach, cursor, overtaken>>
  BY DEF MapPages, table, SlotsOK, At
<1>2. detach \in {"no", "draining"}
  BY <1>1 DEF DetachOK, TypeOK, At
<1>3. CASE thread' = [thread EXCEPT ![t] = Idle] /\ UNCHANGED <<described, views>>
  BY <1>1, <1>3, ThreadStops DEF At
<1>4. ASSUME NEW m \in Mdl, described[m] = NoRing,
             described' = [described EXCEPT ![m] = thread[t].ring],
             views' = views \cup {[mdl |-> m, ring |-> thread[t].ring]},
             thread' = [thread EXCEPT ![t].pc = "store", ![t].mdl = m]
      PROVE  IInv'
  <2>1. TypeOK'
    <3>1. [mdl |-> m, ring |-> thread[t].ring] \in [mdl : Mdl, ring : Ring]
      BY <1>1
    <3>2. thread \in [Thread -> Request]
      BY DEF TypeOK, Request
    <3>3. thread' \in [Thread -> Request]
      <4>1. thread' = [thread EXCEPT ![t] = [thread[t] EXCEPT !.pc = "store", !.mdl = m]]
        BY <1>4, <3>2
      <4>2. [thread[t] EXCEPT !.pc = "store", !.mdl = m] \in Request
        BY <3>2 DEF Request
      <4>3. QED
        BY <3>2, <4>1, <4>2
    <3>4. QED
      BY <1>1, <1>4, <3>1, <3>3 DEF TypeOK, Request
  <2>2. /\ thread'[t].pc = "store" /\ thread'[t].mdl = m /\ thread'[t].ring = thread[t].ring
        /\ \A u \in Thread \ {t} : thread'[u] = thread[u]
        /\ described'[m] = thread[t].ring /\ described'[m] # NoRing
        /\ \A n \in Mdl \ {m} : described'[n] = described[n]
    BY <1>1, <1>4, NullAssumption DEF TypeOK
  <2>3. /\ \A s \in Slot : subscriptions[s].mdl # m
        /\ \A u \in Thread : At(u, "store") => thread[u].mdl # m
        /\ \A a \in Actor : \A p \in held[a] : p.mdl # m
    BY <1>4, Types, NullAssumption DEF MdlInv, MdlsAreAllocated, SlotsOK, At
  <2>4. SlotsOK'
    BY <1>1, <2>2 DEF SlotsOK, Active
  <2>5. DetachOK'
    BY <1>1, <1>2 DEF DetachOK
  <2>6. RingInv'
    BY <1>1, <2>2 DEF RingInv, RingsAreAllocated, RingsAreNotShared, RingsAreOwned, RingIsOwned,
                      At, Active
  <2>7. MdlsAreAllocated'
    BY <1>1, <2>2, <2>3, Types DEF MdlInv, MdlsAreAllocated, At
  <2>8. MdlsAreNotShared'
    BY <1>1, <2>2, <2>3 DEF MdlInv, MdlsAreNotShared, At
  <2>9. MdlsAreOwned'
    BY <1>1, <2>2 DEF MdlInv, MdlsAreOwned, MdlIsOwned, At
  <2>10. \A v \in views : v.mdl # m /\ v.mdl \in Mdl
    BY <1>2, <1>4, Types, NullAssumption DEF ViewInv, ViewsAreDescribed
  <2>11. ViewsAreDescribed'
    BY <1>1, <1>4, <2>2, <2>10 DEF ViewInv, ViewsAreDescribed
  <2>12. ViewsAreShown'
    <3>1. SUFFICES ASSUME detach \in {"no", "draining"}, ~overtaken, NEW v \in views'
                   PROVE  ViewIsShown(v)'
      BY <1>1 DEF ViewsAreShown
    <3>2. CASE v \in views
      BY <1>1, <2>2, <3>1, <3>2 DEF ViewInv, ViewsAreShown, ViewIsShown, At
    <3>3. CASE v = [mdl |-> m, ring |-> thread[t].ring]
      BY <2>2, <3>3 DEF ViewIsShown, At
    <3>4. QED
      BY <1>4, <3>2, <3>3
  <2>13. QED
    BY <2>1, <2>4, <2>5, <2>6, <2>7, <2>8, <2>9, <2>11, <2>12 DEF MdlInv, ViewInv
<1>5. QED
  BY <1>3, <1>4 DEF MapPages

(* The MDL goes to the slot, of which it may replace another's.            *)
LEMMA MapStoreKeeps ==
  ASSUME IInv, NEW t \in Thread, MapStore(t)
  PROVE  IInv'
<1> USE DEF IInv
<1> DEFINE s == thread[t].slot
<1>1. /\ At(t, "store")
      /\ subscriptions' = [subscriptions EXCEPT ![s].mdl = thread[t].mdl]
      /\ overtaken' = (overtaken \/ Parts(s) # [ring |-> thread[t].ring, mdl |-> NoMdl])
      /\ thread' = [thread EXCEPT ![t] = Idle]
      /\ UNCHANGED <<nextRingId, rings, described, views, fsContext, held, detach, cursor>>
  BY DEF MapStore, memory
<1>2. s \in Slot /\ thread[t].mdl \in Mdl /\ thread[t].ring \in Ring
  BY <1>1, Types DEF MdlInv, MdlsAreAllocated, SlotsOK, At
<1>3. TypeOK'
  <2>1. 1 \in Slot
    BY SizeAssumption DEF Slot
  <2>2. subscriptions' = [subscriptions EXCEPT ![s] =
                            [subscriptions[s] EXCEPT !.mdl = thread[t].mdl]]
    BY <1>1, <1>2 DEF TypeOK
  <2>3. [subscriptions[s] EXCEPT !.mdl = thread[t].mdl] \in Subscription
    BY <1>2 DEF TypeOK, Subscription
  <2>4. subscriptions' \in [Slot -> Subscription]
    BY <1>2, <2>2, <2>3 DEF TypeOK, Subscription
  <2>5. thread' \in [Thread -> Request]
    BY <1>1, <2>1 DEF TypeOK, Idle, Request
  <2>6. QED
    BY <1>1, <2>4, <2>5 DEF TypeOK, Subscription, Request
<1>4. /\ thread'[t].pc = "idle"
      /\ \A u \in Thread \ {t} : thread'[u] = thread[u]
      /\ subscriptions'[s].id = subscriptions[s].id
      /\ subscriptions'[s].ring = subscriptions[s].ring
      /\ subscriptions'[s].mdl = thread[t].mdl
      /\ \A r \in Slot \ {s} : subscriptions'[r] = subscriptions[r]
  BY <1>1, <1>2 DEF TypeOK, Idle
<1>5. ~overtaken' => /\ ~overtaken /\ subscriptions[s].ring = thread[t].ring
                     /\ subscriptions[s].mdl = NoMdl /\ Active(s)
  BY <1>1, <1>2, NullAssumption DEF Parts, Active
<1>6. \A r \in Slot : Active(r)' <=> Active(r)
  BY <1>4 DEF Active
<1>7. SlotsOK'
  BY <1>4, <1>5, <1>6 DEF SlotsOK
<1>8. DetachOK'
  BY <1>1, <1>4, <1>6 DEF DetachOK, At
<1>9. RingInv'
  <2>1. \A r \in Slot : subscriptions'[r].ring = subscriptions[r].ring
    BY <1>4
  <2>2. QED
    BY <1>1, <1>4, <1>6, <2>1 DEF RingInv, RingsAreAllocated, RingsAreNotShared, RingsAreOwned,
                                  RingIsOwned, At
<1>10. MdlInv'
  <2>1. MdlsAreAllocated'
    BY <1>1, <1>2, <1>4, NullAssumption DEF MdlInv, MdlsAreAllocated, SlotsOK, At
  <2>2. MdlsAreNotShared'
    BY <1>1, <1>2, <1>4 DEF MdlInv, MdlsAreNotShared, At
  <2>3. MdlsAreOwned'
    BY <1>1, <1>2, <1>4, <1>5, NullAssumption DEF MdlInv, MdlsAreOwned, MdlIsOwned, At
  <2>4. QED
    BY <2>1, <2>2, <2>3 DEF MdlInv
<1>11. ViewInv'
  <2>1. ViewsAreDescribed'
    BY <1>1 DEF ViewInv, ViewsAreDescribed
  <2>2. SUFFICES ASSUME detach \in {"no", "draining"}, ~overtaken', NEW v \in views
                 PROVE  ViewIsShown(v)'
    BY <1>1, <2>1 DEF ViewInv, ViewsAreShown
  <2>3. CASE v.mdl = thread[t].mdl
    <3>1. v.ring = thread[t].ring
      BY <1>1, <2>2, <2>3 DEF ViewInv, ViewsAreDescribed, MdlInv, MdlsAreAllocated
    <3>2. QED
      BY <1>2, <1>4, <1>5, <2>2, <2>3, <3>1 DEF ViewIsShown
  <2>4. CASE v.mdl # thread[t].mdl
    <3>1. ViewIsShown(v) /\ v.mdl # NoMdl
      BY <1>5, <2>2, Types, NullAssumption DEF ViewInv, ViewsAreShown
    <3>2. QED
      BY <1>1, <1>2, <1>4, <1>5, <2>2, <2>4, <3>1 DEF ViewIsShown, At
  <2>5. QED
    BY <2>3, <2>4
<1>12. QED
  BY <1>3, <1>7, <1>8, <1>9, <1>10, <1>11

-----------------------------------------------------------------------------
(* What is taken from active slots goes, as it is, to whoever takes it.    *)
LEMMA TakeKeeps ==
  ASSUME IInv, NEW a \in Actor, NEW K \in SUBSET Slot, held[a] = {},
         \A s \in K : Active(s),
         held' = [held EXCEPT ![a] = {Parts(s) : s \in K}],
         \A s \in K : subscriptions'[s].ring = NoRing /\ subscriptions'[s].mdl = NoMdl,
         \A s \in Slot \ K : subscriptions'[s] = subscriptions[s],
         UNCHANGED <<rings, described, views, thread, detach, overtaken>>
  PROVE  /\ held' \in [Actor -> SUBSET Piece]
         /\ SlotsOK' /\ RingInv' /\ MdlInv' /\ ViewInv'
<1> USE DEF IInv
<1>1. held \in [Actor -> SUBSET Piece]
  BY DEF TypeOK, Piece
<1>2. /\ held'[a] = {Parts(s) : s \in K}
      /\ \A b \in Actor \ {a} : held'[b] = held[b]
  BY <1>1
<1>3. {Parts(s) : s \in K} \subseteq Piece
  BY Types
<1>4. held' \in [Actor -> SUBSET Piece]
  BY <1>1, <1>3
<1>5. \A p \in held'[a] : \E s \in K :
        p.ring = subscriptions[s].ring /\ p.mdl = subscriptions[s].mdl
  BY <1>2 DEF Parts
<1>6. \A s \in K : \E p \in held'[a] :
        p.ring = subscriptions[s].ring /\ p.mdl = subscriptions[s].mdl
  <2>1. \A s \in K : Parts(s) \in held'[a]
    BY <1>2
  <2>2. QED
    BY <2>1 DEF Parts
<1>7. \A p, q \in held'[a] : p.ring = q.ring \/ (p.mdl = q.mdl /\ p.mdl # NoMdl) => p = q
  <2>1. SUFFICES ASSUME NEW r \in K, NEW s \in K,
                        \/ subscriptions[r].ring = subscriptions[s].ring
                        \/ /\ subscriptions[r].mdl = subscriptions[s].mdl
                           /\ subscriptions[r].mdl # NoMdl
                 PROVE  r = s
    BY <1>2 DEF Parts
  <2>2. QED
    BY <2>1 DEF RingInv, RingsAreNotShared, MdlInv, MdlsAreNotShared
<1>8. SlotsOK'
  BY DEF SlotsOK, Active
<1>9. RingsAreAllocated'
  BY <1>2, <1>5 DEF RingInv, RingsAreAllocated, At, Active
<1>10. RingsAreNotShared'
  <2>1. \A s \in Slot : Active(s)' => s \in Slot \ K
    BY DEF Active
  <2>2. \A r, s \in Slot :
          Active(r)' /\ subscriptions'[r].ring = subscriptions'[s].ring => r = s
    BY <2>1 DEF RingInv, RingsAreNotShared, Active
  <2>3. \A b, c \in Actor : \A p \in held'[b], q \in held'[c] : p.ring = q.ring => b = c /\ p = q
    BY <1>2, <1>5, <1>7 DEF RingInv, RingsAreNotShared
  <2>4. \A s \in Slot, t \in Thread : At(t, "insert")' => subscriptions'[s].ring # thread'[t].ring
    BY Types DEF RingInv, RingsAreNotShared, RingsAreAllocated, At
  <2>5. \A s \in Slot, b \in Actor : \A p \in held'[b] : subscriptions'[s].ring # p.ring
    <3>1. SUFFICES ASSUME NEW s \in Slot, NEW b \in Actor, NEW q \in held'[b]
                   PROVE  subscriptions'[s].ring # q.ring
      OBVIOUS
    <3>2. q.ring \in Ring
      BY <1>4, Types DEF Piece
    <3>3. CASE s \in K
      BY <3>2, <3>3, NullAssumption
    <3>4. CASE s \notin K /\ b = a
      BY <1>5, <3>4 DEF RingInv, RingsAreNotShared, Active
    <3>5. CASE s \notin K /\ b # a
      BY <1>2, <3>5 DEF RingInv, RingsAreNotShared
    <3>6. QED
      BY <3>3, <3>4, <3>5
  <2>6. \A t \in Thread, b \in Actor : \A p \in held'[b] :
          At(t, "insert")' => thread'[t].ring # p.ring
    BY <1>2, <1>5 DEF RingInv, RingsAreNotShared, At
  <2>7. QED
    BY <2>2, <2>3, <2>4, <2>5, <2>6 DEF RingInv, RingsAreNotShared, At
<1>11. RingsAreOwned'
  <2>1. SUFFICES ASSUME NEW r \in rings PROVE RingIsOwned(r)'
    BY DEF RingsAreOwned
  <2>2. CASE \E s \in Slot : subscriptions[s].ring = r
    BY <1>6, <2>2 DEF RingIsOwned
  <2>3. CASE ~\E s \in Slot : subscriptions[s].ring = r
    BY <1>2, <2>1, <2>3 DEF RingInv, RingsAreOwned, RingIsOwned, At
  <2>4. QED
    BY <2>2, <2>3
<1>12. MdlsAreAllocated'
  BY <1>2, <1>5 DEF MdlInv, MdlsAreAllocated, At
<1>13. MdlsAreNotShared'
  <2>1. \A r, s \in Slot :
          subscriptions'[r].mdl # NoMdl /\ subscriptions'[r].mdl = subscriptions'[s].mdl => r = s
    BY DEF MdlInv, MdlsAreNotShared
  <2>2. \A b, c \in Actor : \A p \in held'[b], q \in held'[c] :
          p.mdl # NoMdl /\ p.mdl = q.mdl => b = c /\ p = q
    BY <1>2, <1>5, <1>7 DEF MdlInv, MdlsAreNotShared
  <2>3. \A s \in Slot, t \in Thread : At(t, "store")' => subscriptions'[s].mdl # thread'[t].mdl
    BY NullAssumption DEF MdlInv, MdlsAreNotShared, MdlsAreAllocated, At
  <2>4. \A s \in Slot, b \in Actor : \A p \in held'[b] :
          p.mdl # NoMdl => subscriptions'[s].mdl # p.mdl
    <3>1. SUFFICES ASSUME NEW s \in Slot, NEW b \in Actor, NEW q \in held'[b], q.mdl # NoMdl
                   PROVE  subscriptions'[s].mdl # q.mdl
      OBVIOUS
    <3>2. CASE s \in K
      BY <3>1, <3>2
    <3>3. CASE s \notin K /\ b = a
      BY <1>5, <3>1, <3>3 DEF MdlInv, MdlsAreNotShared
    <3>4. CASE s \notin K /\ b # a
      BY <1>2, <3>1, <3>4 DEF MdlInv, MdlsAreNotShared
    <3>5. QED
      BY <3>2, <3>3, <3>4
  <2>5. \A t \in Thread, b \in Actor : \A p \in held'[b] :
          At(t, "store")' => thread'[t].mdl # p.mdl
    BY <1>2, <1>5 DEF MdlInv, MdlsAreNotShared, At
  <2>6. QED
    BY <2>1, <2>2, <2>3, <2>4, <2>5 DEF MdlInv, MdlsAreNotShared, At
<1>14. MdlsAreOwned'
  <2>1. SUFFICES ASSUME ~overtaken, NEW m \in Mdl, described[m] # NoRing PROVE MdlIsOwned(m)'
    BY DEF MdlsAreOwned
  <2>2. CASE \E s \in Slot : subscriptions[s].mdl = m
    BY <1>6, <2>2 DEF MdlIsOwned
  <2>3. CASE ~\E s \in Slot : subscriptions[s].mdl = m
    BY <1>2, <2>1, <2>3 DEF MdlInv, MdlsAreOwned, MdlIsOwned, At
  <2>4. QED
    BY <2>2, <2>3
<1>15. ViewsAreShown'
  <2>1. SUFFICES ASSUME detach \in {"no", "draining"}, ~overtaken, NEW v \in views
                 PROVE  ViewIsShown(v)'
    BY DEF ViewsAreShown
  <2>2. CASE \E s \in Slot : subscriptions[s].ring = v.ring /\ subscriptions[s].mdl = v.mdl
    BY <1>6, <2>2 DEF ViewIsShown
  <2>3. CASE ~\E s \in Slot : subscriptions[s].ring = v.ring /\ subscriptions[s].mdl = v.mdl
    BY <1>2, <2>1, <2>3 DEF ViewInv, ViewsAreShown, ViewIsShown, At
  <2>4. QED
    BY <2>2, <2>3
<1>16. ViewInv'
  BY <1>15 DEF ViewInv, ViewsAreDescribed
<1>17. QED
  BY <1>4, <1>8, <1>9, <1>10, <1>11, <1>12, <1>13, <1>14, <1>16 DEF RingInv, MdlInv

(* UNSUBSCRIBE takes one slot.                                             *)
LEMMA UnsubscribeKeeps ==
  ASSUME IInv, NEW t \in Thread, NEW h \in Handle, NEW s \in Slot, Unsubscribe(t, h, s)
  PROVE  IInv'
<1> USE DEF IInv
<1>1. /\ At(t, "idle") /\ held[t] = {} /\ detach = "no" /\ Active(s)
      /\ held' = [held EXCEPT ![t] = {Parts(s)}]
      /\ subscriptions' = [subscriptions EXCEPT ![s] = FreeSlot]
      /\ UNCHANGED <<nextRingId, rings, described, views, fsContext, thread, detach, cursor,
                     overtaken>>
  BY DEF Unsubscribe, Ready, Accepts, memory
<1>2. t \in Actor /\ t # "detach"
  BY Types
<1>3. /\ subscriptions'[s] = FreeSlot
      /\ \A r \in Slot \ {s} : subscriptions'[r] = subscriptions[r]
  BY <1>1 DEF TypeOK
<1>4. /\ held' \in [Actor -> SUBSET Piece]
      /\ SlotsOK' /\ RingInv' /\ MdlInv' /\ ViewInv'
  <2>1. {Parts(s)} = {Parts(r) : r \in {s}}
    OBVIOUS
  <2>2. {s} \in SUBSET Slot
    OBVIOUS
  <2>3. \A r \in {s} : subscriptions'[r].ring = NoRing /\ subscriptions'[r].mdl = NoMdl
    BY <1>3 DEF FreeSlot
  <2>4. held' = [held EXCEPT ![t] = {Parts(r) : r \in {s}}]
    BY <1>1, <2>1
  <2>5. QED
    BY <1>1, <1>2, <1>3, <2>2, <2>3, <2>4, TakeKeeps
<1>5. TypeOK'
  <2>1. FreeSlot \in Subscription
    BY DEF FreeSlot, Subscription
  <2>2. subscriptions' \in [Slot -> Subscription]
    BY <1>1, <2>1 DEF TypeOK, Subscription
  <2>3. QED
    BY <1>1, <1>4, <2>2 DEF TypeOK, Subscription, Piece
<1>6. DetachOK'
  BY <1>1, <1>2 DEF DetachOK, TypeOK
<1>7. QED
  BY <1>4, <1>5, <1>6

(* Nothing depends on what a handle is bound to.                           *)
LEMMA HandlesOnly ==
  ASSUME IInv, fsContext' \in [Handle -> {"unbound", "bound", "elsewhere", "closed"}],
         UNCHANGED <<subscriptions, nextRingId, rings, described, views, thread, held,
                     detach, cursor, overtaken>>
  PROVE  IInv'
<1> USE DEF IInv
<1>1. TypeOK'
  BY DEF TypeOK
<1>2. SlotsOK' /\ DetachOK'
  BY DEF SlotsOK, DetachOK, Active, At
<1>3. RingInv'
  BY DEF RingInv, RingsAreAllocated, RingsAreNotShared, RingsAreOwned, RingIsOwned, At, Active
<1>4. MdlInv'
  BY DEF MdlInv, MdlsAreAllocated, MdlsAreNotShared, MdlsAreOwned, MdlIsOwned, At
<1>5. ViewInv'
  BY DEF ViewInv, ViewsAreDescribed, ViewsAreShown, ViewIsShown, At
<1>6. QED
  BY <1>1, <1>2, <1>3, <1>4, <1>5

(* CLEANUP takes the slots of its handle, or none.                         *)
LEMMA CloseKeeps ==
  ASSUME IInv, NEW t \in Thread, NEW h \in Handle, Close(t, h)
  PROVE  IInv'
<1> USE DEF IInv
<1>1. /\ At(t, "idle") /\ held[t] = {}
      /\ fsContext' = [fsContext EXCEPT ![h] = "closed"]
      /\ UNCHANGED <<nextRingId, rings, described, views, thread, detach, cursor, overtaken>>
  BY DEF Close, Ready, memory
<1>2. fsContext' \in [Handle -> {"unbound", "bound", "elsewhere", "closed"}]
  BY <1>1 DEF TypeOK
<1>3. CASE UNCHANGED <<held, subscriptions>>
  BY <1>1, <1>2, <1>3, HandlesOnly
<1>4. CASE detach = "no" /\ CleanupFileSubscriptions(t, h)
  <2>1. t \in Actor /\ t # "detach"
    BY Types
  <2>2. /\ held' = [held EXCEPT ![t] = {Parts(s) : s \in Owned(h)}]
        /\ subscriptions' = [s \in Slot |-> IF s \in Owned(h) THEN FreeSlot ELSE subscriptions[s]]
    BY <1>4 DEF CleanupFileSubscriptions
  <2>3. Owned(h) \in SUBSET Slot /\ \A s \in Owned(h) : Active(s)
    BY DEF Owned
  <2>4. /\ \A s \in Owned(h) : subscriptions'[s].ring = NoRing /\ subscriptions'[s].mdl = NoMdl
        /\ \A s \in Slot \ Owned(h) : subscriptions'[s] = subscriptions[s]
    BY <2>2, <2>3 DEF FreeSlot
  <2>5. /\ held' \in [Actor -> SUBSET Piece]
        /\ SlotsOK' /\ RingInv' /\ MdlInv' /\ ViewInv'
    BY <1>1, <2>1, <2>2, <2>3, <2>4, TakeKeeps
  <2>6. TypeOK'
    <3>1. FreeSlot \in Subscription
      BY DEF FreeSlot, Subscription
    <3>2. subscriptions' \in [Slot -> Subscription]
      BY <2>2, <3>1 DEF TypeOK, Subscription
    <3>3. QED
      BY <1>1, <1>2, <2>5, <3>2 DEF TypeOK, Subscription, Piece
  <2>7. DetachOK'
    BY <1>1, <1>4, <2>1, <2>2 DEF DetachOK, TypeOK
  <2>8. QED
    BY <2>5, <2>6, <2>7
<1>5. QED
  BY <1>3, <1>4 DEF Close

(* OPEN_ADAPTER binds a handle and takes nothing.                          *)
LEMMA OpenAdapterKeeps ==
  ASSUME IInv, NEW h \in Handle, OpenAdapter(h)
  PROVE  IInv'
<1>1. fsContext' \in [Handle -> {"unbound", "bound", "elsewhere", "closed"}]
  BY DEF OpenAdapter, IInv, TypeOK
<1>2. UNCHANGED <<subscriptions, nextRingId, rings, described, views, thread, held,
                  detach, cursor, overtaken>>
  BY DEF OpenAdapter, table, memory
<1>3. QED
  BY <1>1, <1>2, HandlesOnly

-----------------------------------------------------------------------------
(* The detach only waits, ...                                              *)
LEMMA DetachMoves ==
  ASSUME IInv, DetachUnlink \/ DetachDrained \/ CleanupDone
  PROVE  IInv'
<1> USE DEF IInv
<1>1. UNCHANGED <<subscriptions, nextRingId, rings, described, views, fsContext, thread, held,
                  cursor, overtaken>>
  BY DEF DetachUnlink, DetachDrained, CleanupDone, table, memory
<1>2. TypeOK'
  BY <1>1 DEF TypeOK, DetachUnlink, DetachDrained, CleanupDone
<1>3. SlotsOK'
  BY <1>1 DEF SlotsOK, Active
<1>4. DetachOK'
  <2>1. CASE DetachUnlink
    BY <1>1, <2>1 DEF DetachUnlink, DetachOK
  <2>2. CASE DetachDrained
    <3>1. detach = "draining" /\ detach' = "cleaning" /\ cursor = 1
          /\ \A t \in Thread : At(t, "idle") /\ held[t] = {}
      BY <2>2 DEF DetachDrained, Ready, DetachOK
    <3>2. \A s \in Slot : ~(s < 1)
      BY SizeAssumption DEF Slot
    <3>3. QED
      BY <1>1, <3>1, <3>2 DEF DetachOK, At, Active
  <2>3. CASE CleanupDone
    BY <1>1, <2>3 DEF CleanupDone, DetachOK, At, Active
  <2>4. QED
    BY <2>1, <2>2, <2>3
<1>5. RingInv'
  BY <1>1 DEF RingInv, RingsAreAllocated, RingsAreNotShared, RingsAreOwned, RingIsOwned, At,
              Active
<1>6. MdlInv'
  BY <1>1 DEF MdlInv, MdlsAreAllocated, MdlsAreNotShared, MdlsAreOwned, MdlIsOwned, At
<1>7. ViewInv'
  <2>1. detach' \in {"no", "draining"} => detach \in {"no", "draining"}
    BY DEF DetachUnlink, DetachDrained, CleanupDone
  <2>2. QED
    BY <1>1, <2>1 DEF ViewInv, ViewsAreDescribed, ViewsAreShown, ViewIsShown, At
<1>8. QED
  BY <1>2, <1>3, <1>4, <1>5, <1>6, <1>7

(* ... but for the slots that it empties.                                  *)
LEMMA CleanSlotKeeps ==
  ASSUME IInv, CleanSlot
  PROVE  IInv'
<1> USE DEF IInv
<1>1. /\ detach = "cleaning" /\ cursor \in Slot /\ held["detach"] = {} /\ cursor' = cursor + 1
      /\ UNCHANGED <<nextRingId, rings, described, views, fsContext, thread, detach, overtaken>>
  BY DEF CleanSlot, memory
<1>2. cursor' \in 1..N+1 /\ \A s \in Slot : s < cursor' => s = cursor \/ s < cursor
  BY <1>1, SizeAssumption DEF Slot
<1>3. "detach" \in Actor /\ \A t \in Thread : t \in Actor /\ t # "detach"
  BY Types
<1>4. CASE ~Active(cursor) /\ UNCHANGED <<held, subscriptions>>
  <2>1. TypeOK' /\ SlotsOK'
    BY <1>1, <1>2, <1>4 DEF TypeOK, SlotsOK, Active
  <2>2. DetachOK'
    BY <1>1, <1>2, <1>4 DEF DetachOK, Active, At
  <2>3. RingInv'
    BY <1>1, <1>4 DEF RingInv, RingsAreAllocated, RingsAreNotShared, RingsAreOwned, RingIsOwned,
                      At, Active
  <2>4. MdlInv'
    BY <1>1, <1>4 DEF MdlInv, MdlsAreAllocated, MdlsAreNotShared, MdlsAreOwned, MdlIsOwned, At
  <2>5. ViewInv'
    BY <1>1 DEF ViewInv, ViewsAreDescribed, ViewsAreShown
  <2>6. QED
    BY <2>1, <2>2, <2>3, <2>4, <2>5
<1>5. CASE /\ Active(cursor)
           /\ held' = [held EXCEPT !["detach"] = {Parts(cursor)}]
           /\ subscriptions' = [subscriptions EXCEPT ![cursor].ring = NoRing, ![cursor].mdl = NoMdl]
  <2>1. subscriptions \in [Slot -> Subscription]
    BY DEF TypeOK, Subscription
  <2>2. subscriptions' = [subscriptions EXCEPT ![cursor] =
                            [subscriptions[cursor] EXCEPT !.ring = NoRing, !.mdl = NoMdl]]
    BY <1>1, <1>5, <2>1
  <2>3. [subscriptions[cursor] EXCEPT !.ring = NoRing, !.mdl = NoMdl] \in Subscription
    BY <1>1, <2>1 DEF Subscription
  <2>4. subscriptions' \in [Slot -> Subscription]
    BY <2>1, <2>2, <2>3
  <2>5. /\ subscriptions'[cursor].ring = NoRing /\ subscriptions'[cursor].mdl = NoMdl
        /\ \A s \in Slot \ {cursor} : subscriptions'[s] = subscriptions[s]
    BY <1>1, <2>1, <2>2 DEF Subscription
  <2>6. held' = [held EXCEPT !["detach"] = {Parts(s) : s \in {cursor}}]
    <3>1. {Parts(cursor)} = {Parts(s) : s \in {cursor}}
      OBVIOUS
    <3>2. QED
      BY <1>5, <3>1
  <2>7. /\ held' \in [Actor -> SUBSET Piece]
        /\ SlotsOK' /\ RingInv' /\ MdlInv' /\ ViewInv'
    <3>1. {cursor} \in SUBSET Slot /\ \A s \in {cursor} : Active(s)
      BY <1>1, <1>5
    <3>2. \A s \in {cursor} : subscriptions'[s].ring = NoRing /\ subscriptions'[s].mdl = NoMdl
      BY <2>5
    <3>3. QED
      BY <1>1, <1>3, <2>5, <2>6, <3>1, <3>2, TakeKeeps
  <2>8. TypeOK'
    BY <1>1, <1>2, <2>4, <2>7 DEF TypeOK, Subscription, Piece
  <2>9. DetachOK'
    <3>1. \A t \in Thread : held'[t] = held[t]
      BY <1>3, <1>5 DEF TypeOK
    <3>2. QED
      BY <1>1, <1>2, <2>5, <3>1 DEF DetachOK, Active, At
  <2>10. QED
    BY <2>7, <2>8, <2>9
<1>6. QED
  BY <1>4, <1>5 DEF CleanSlot

-----------------------------------------------------------------------------
(* What was taken is freed by whoever took it: the MDL ...                 *)
LEMMA ReleaseMdlKeeps ==
  ASSUME IInv, NEW a \in Actor, ReleaseMdl(a)
  PROVE  IInv'
<1> USE DEF IInv
<1>1. PICK p \in held[a] :
        /\ p.mdl # NoMdl
        /\ described' = [described EXCEPT ![p.mdl] = NoRing]
        /\ views' = IF a = "detach" THEN views ELSE {v \in views : v.mdl # p.mdl}
        /\ held' = [held EXCEPT ![a] = (held[a] \ {p}) \cup {[p EXCEPT !.mdl = NoMdl]}]
        /\ UNCHANGED <<subscriptions, nextRingId, rings, fsContext, thread, detach, cursor,
                       overtaken>>
  BY DEF ReleaseMdl, table
<1> DEFINE q == [p EXCEPT !.mdl = NoMdl]
<1>2. p \in Piece /\ p.mdl \in Mdl /\ p.ring \in Ring
  BY <1>1, Types
<1>3. q \in Piece /\ q.ring = p.ring /\ q.mdl = NoMdl
  BY <1>2 DEF Piece
<1>4. /\ held'[a] = (held[a] \ {p}) \cup {q}
      /\ \A b \in Actor \ {a} : held'[b] = held[b]
  BY <1>1 DEF TypeOK
<1>5. /\ described'[p.mdl] = NoRing
      /\ \A m \in Mdl \ {p.mdl} : described'[m] = described[m]
  BY <1>1, <1>2 DEF TypeOK
<1>6. /\ \A s \in Slot : subscriptions[s].mdl # p.mdl
      /\ \A t \in Thread : At(t, "store") => thread[t].mdl # p.mdl
      /\ \A b \in Actor : \A x \in held[b] : x.mdl = p.mdl => b = a /\ x = p
  BY <1>1 DEF MdlInv, MdlsAreNotShared
<1> HIDE DEF q
<1>7. held' \in [Actor -> SUBSET Piece]
  <2>1. (held[a] \ {p}) \cup {q} \subseteq Piece
    BY <1>3, Types
  <2>2. held' = [held EXCEPT ![a] = (held[a] \ {p}) \cup {q}]
    BY <1>1 DEF q
  <2>3. QED
    BY <2>1, <2>2 DEF TypeOK, Piece
<1>8. TypeOK'
  BY <1>1, <1>7 DEF TypeOK, Piece
<1>9. SlotsOK'
  BY <1>1 DEF SlotsOK, Active
<1>10. \/ detach = "cleaning" /\ a = "detach"
       \/ detach \in {"no", "draining"} /\ a # "detach"
  <2>1. a = "detach" \/ (a \in Thread /\ a # "detach")
    BY ThreadAssumption DEF Actor
  <2>2. detach \in {"no", "draining", "cleaning", "done"}
    BY DEF TypeOK
  <2>3. held[a] # {}
    BY <1>1
  <2>4. QED
    BY <2>1, <2>2, <2>3 DEF DetachOK
<1>11. DetachOK'
  <2>1. \A t \in Thread : t \in Actor /\ t # "detach"
    BY Types
  <2>2. "detach" \in Actor
    BY Types
  <2>3. QED
    BY <1>1, <1>4, <1>10, <2>1, <2>2 DEF DetachOK, At, Active
<1>12. RingInv'
  <2>1. \A b \in Actor : \A x \in held'[b] : \E y \in held[b] : y.ring = x.ring
    BY <1>3, <1>4
  <2>2. \A b \in Actor : \A y \in held[b] : \E x \in held'[b] : y.ring = x.ring
    BY <1>3, <1>4
  <2>3. RingsAreAllocated'
    BY <1>1, <2>1 DEF RingInv, RingsAreAllocated, At, Active
  <2>4. \A b, c \in Actor : \A x \in held'[b], y \in held'[c] : x.ring = y.ring => b = c
    BY <2>1 DEF RingInv, RingsAreNotShared
  <2>5. \A b \in Actor : \A x, y \in held'[b] : x.ring = y.ring => x = y
    BY <1>3, <1>4 DEF RingInv, RingsAreNotShared
  <2>6. /\ \A s \in Slot, b \in Actor : \A x \in held'[b] : subscriptions[s].ring # x.ring
        /\ \A t \in Thread, b \in Actor : \A x \in held'[b] :
             At(t, "insert") => thread[t].ring # x.ring
    BY <2>1 DEF RingInv, RingsAreNotShared
  <2>7. RingsAreNotShared'
    BY <1>1, <2>4, <2>5, <2>6 DEF RingInv, RingsAreNotShared, At, Active
  <2>8. RingsAreOwned'
    BY <1>1, <2>2 DEF RingInv, RingsAreOwned, RingIsOwned, At
  <2>9. QED
    BY <2>3, <2>7, <2>8 DEF RingInv
<1>13. \A b \in Actor : \A x \in held'[b] : x.mdl # NoMdl => x \in held[b] /\ x.mdl # p.mdl
  BY <1>3, <1>4, <1>6
<1>14. \A b \in Actor : \A x \in held[b] : x.mdl # p.mdl => x \in held'[b]
  BY <1>4
<1>15. MdlInv'
  <2>1. MdlsAreAllocated'
    <3>1. \A s \in Slot : subscriptions[s].mdl # NoMdl => described'[subscriptions[s].mdl] # NoRing
      BY <1>5, <1>6, Types DEF MdlInv, MdlsAreAllocated
    <3>2. \A t \in Thread : At(t, "store") =>
            thread[t].mdl \in Mdl /\ described'[thread[t].mdl] = thread[t].ring
      BY <1>5, <1>6 DEF MdlInv, MdlsAreAllocated
    <3>3. \A b \in Actor : \A x \in held'[b] : x.mdl # NoMdl => described'[x.mdl] # NoRing
      BY <1>5, <1>13, Types DEF MdlInv, MdlsAreAllocated
    <3>4. QED
      BY <1>1, <3>1, <3>2, <3>3 DEF MdlsAreAllocated, At
  <2>2. MdlsAreNotShared'
    <3>1. \A b, c \in Actor : \A x \in held'[b], y \in held'[c] :
            x.mdl # NoMdl /\ x.mdl = y.mdl => b = c /\ x = y
      <4>1. SUFFICES ASSUME NEW b \in Actor, NEW c \in Actor, NEW x \in held'[b],
                            NEW y \in held'[c], x.mdl # NoMdl, x.mdl = y.mdl
                     PROVE  b = c /\ x = y
        OBVIOUS
      <4>2. x \in held[b] /\ y \in held[c]
        BY <1>13, <4>1
      <4>3. QED
        BY <4>1, <4>2 DEF MdlInv, MdlsAreNotShared
    <3>2. /\ \A s \in Slot, b \in Actor : \A x \in held'[b] :
               x.mdl # NoMdl => subscriptions[s].mdl # x.mdl
          /\ \A t \in Thread, b \in Actor : \A x \in held'[b] :
               x.mdl # NoMdl /\ At(t, "store") => thread[t].mdl # x.mdl
      BY <1>13 DEF MdlInv, MdlsAreNotShared
    <3>3. \A t \in Thread : At(t, "store") => thread[t].mdl # NoMdl
      BY NullAssumption DEF MdlInv, MdlsAreAllocated
    <3>4. QED
      BY <1>1, <3>1, <3>2, <3>3 DEF MdlInv, MdlsAreNotShared, At
  <2>3. MdlsAreOwned'
    <3>1. SUFFICES ASSUME ~overtaken, NEW m \in Mdl, described'[m] # NoRing
                   PROVE  MdlIsOwned(m)'
      BY <1>1 DEF MdlsAreOwned
    <3>2. m # p.mdl /\ MdlIsOwned(m)
      BY <1>5, <3>1 DEF MdlInv, MdlsAreOwned
    <3>3. QED
      BY <1>1, <1>14, <3>2 DEF MdlIsOwned, At
  <2>4. QED
    BY <2>1, <2>2, <2>3 DEF MdlInv
<1>16. ViewInv'
  <2>1. SUFFICES ASSUME detach \in {"no", "draining"}
                 PROVE  /\ \A v \in views' : described'[v.mdl] = v.ring
                        /\ ~overtaken => \A v \in views' : ViewIsShown(v)'
    BY <1>1 DEF ViewInv, ViewsAreDescribed, ViewsAreShown
  <2>2. \A v \in views' : v \in views /\ v.mdl # p.mdl
    BY <1>1, <1>10, <2>1
  <2>3. \A v \in views' : described'[v.mdl] = v.ring
    BY <1>5, <2>1, <2>2, Types DEF ViewInv, ViewsAreDescribed
  <2>4. ASSUME ~overtaken, NEW v \in views' PROVE ViewIsShown(v)'
    BY <1>1, <1>14, <2>1, <2>2, <2>4 DEF ViewInv, ViewsAreShown, ViewIsShown, At
  <2>5. QED
    BY <2>3, <2>4
<1>17. QED
  BY <1>8, <1>9, <1>11, <1>12, <1>15, <1>16

(* ... and then the ring.                                                  *)
LEMMA ReleaseRingKeeps ==
  ASSUME IInv, NEW a \in Actor, ReleaseRing(a)
  PROVE  IInv'
<1> USE DEF IInv
<1>1. PICK p \in held[a] :
        /\ p.mdl = NoMdl
        /\ rings' = rings \ {p.ring}
        /\ held' = [held EXCEPT ![a] = held[a] \ {p}]
        /\ UNCHANGED <<subscriptions, nextRingId, described, views, fsContext, thread, detach,
                       cursor, overtaken>>
  BY DEF ReleaseRing, table
<1>2. /\ held'[a] = held[a] \ {p}
      /\ \A b \in Actor \ {a} : held'[b] = held[b]
  BY <1>1 DEF TypeOK
<1>3. \A b \in Actor : held'[b] \subseteq held[b]
  BY <1>2
<1>4. /\ \A s \in Slot : subscriptions[s].ring # p.ring
      /\ \A t \in Thread : At(t, "insert") => thread[t].ring # p.ring
      /\ \A b \in Actor : \A x \in held[b] : x.ring = p.ring => b = a /\ x = p
  BY <1>1 DEF RingInv, RingsAreNotShared
<1>5. \A b \in Actor : \A x \in held[b] : x.ring # p.ring \/ x.mdl # NoMdl => x \in held'[b]
  BY <1>1, <1>2
<1>6. \A b \in Actor : \A x \in held'[b] : x.ring # p.ring
  BY <1>2, <1>4
<1>7. TypeOK'
  <2>1. held' \in [Actor -> SUBSET Piece]
    BY <1>1 DEF TypeOK, Piece
  <2>2. QED
    BY <1>1, <2>1 DEF TypeOK, Piece
<1>8. SlotsOK' /\ DetachOK'
  BY <1>1, <1>3, Types DEF SlotsOK, DetachOK, Active, At
<1>9. RingInv'
  <2>1. RingsAreAllocated'
    BY <1>1, <1>3, <1>4, <1>6 DEF RingInv, RingsAreAllocated, Active, At
  <2>2. RingsAreNotShared'
    BY <1>1, <1>3 DEF RingInv, RingsAreNotShared, Active, At
  <2>3. RingsAreOwned'
    BY <1>1, <1>5 DEF RingInv, RingsAreOwned, RingIsOwned, At
  <2>4. QED
    BY <2>1, <2>2, <2>3 DEF RingInv
<1>10. MdlInv'
  <2>1. MdlsAreAllocated'
    BY <1>1, <1>3 DEF MdlInv, MdlsAreAllocated, At
  <2>2. MdlsAreNotShared'
    BY <1>1, <1>3 DEF MdlInv, MdlsAreNotShared, At
  <2>3. MdlsAreOwned'
    BY <1>1, <1>5, NullAssumption DEF MdlInv, MdlsAreOwned, MdlIsOwned, At
  <2>4. QED
    BY <2>1, <2>2, <2>3 DEF MdlInv
<1>11. ViewInv'
  <2>1. \A v \in views : v.mdl # NoMdl
    BY Types, NullAssumption
  <2>2. QED
    BY <1>1, <1>5, <2>1 DEF ViewInv, ViewsAreDescribed, ViewsAreShown, ViewIsShown, At
<1>12. QED
  BY <1>7, <1>8, <1>9, <1>10, <1>11

-----------------------------------------------------------------------------
(* The invariant is inductive.                                             *)
LEMMA StepKeeps == IInv /\ [Next]_vars => IInv'
<1> SUFFICES ASSUME IInv, [Next]_vars PROVE IInv'
  OBVIOUS
<1>1. CASE UNCHANGED vars
  <2>1. fsContext' \in [Handle -> {"unbound", "bound", "elsewhere", "closed"}]
    BY <1>1 DEF IInv, TypeOK, vars
  <2>2. QED
    BY <1>1, <2>1, HandlesOnly DEF vars
<1>2. ASSUME NEW t \in Thread, NEW h \in Handle, SubscribeAlloc(t, h) \/ Close(t, h) PROVE IInv'
  BY <1>2, SubscribeAllocKeeps, CloseKeeps
<1>3. ASSUME NEW t \in Thread, NEW h \in Handle, NEW s \in Slot,
             MapFind(t, h, s) \/ Unsubscribe(t, h, s)
      PROVE  IInv'
  BY <1>3, MapFindKeeps, UnsubscribeKeeps
<1>4. ASSUME NEW t \in Thread,
             \/ SubscribeInsert(t) \/ SubscribeAnswer(t) \/ SubscribeFull(t)
             \/ MapPages(t) \/ MapStore(t)
      PROVE  IInv'
  BY <1>4, SubscribeInsertKeeps, SubscribeAnswerKeeps, SubscribeFullKeeps, MapPagesKeeps,
     MapStoreKeeps
<1>5. ASSUME NEW h \in Handle, OpenAdapter(h) PROVE IInv'
  BY <1>5, OpenAdapterKeeps
<1>6. CASE DetachUnlink \/ DetachDrained \/ CleanupDone
  BY <1>6, DetachMoves
<1>7. CASE CleanSlot
  BY <1>7, CleanSlotKeeps
<1>8. ASSUME NEW a \in Actor, ReleaseMdl(a) \/ ReleaseRing(a) PROVE IInv'
  BY <1>8, ReleaseMdlKeeps, ReleaseRingKeeps
<1>9. QED
  BY <1>1, <1>2, <1>3, <1>4, <1>5, <1>6, <1>7, <1>8 DEF Next

(* Every part of the invariant holds in every state that is reached.       *)
THEOREM Invariance == Spec => []IInv
<1>1. Init => IInv
  BY InitIsOK
<1>2. IInv /\ [Next]_vars => IInv'
  BY StepKeeps
<1>3. QED
  BY <1>1, <1>2, PTL DEF Spec

(* The table keeps its type: no pointer is stored that is in no pool.      *)
THEOREM TypeCorrect == Spec => []TypeOK
<1>1. IInv => TypeOK
  BY DEF IInv
<1>2. QED
  BY <1>1, Invariance, PTL

(* An allocated ring has one owner, in the table or out of it, and a freed *)
(* one has none: it is freed once, and by somebody.                        *)
THEOREM OneRingOwner == Spec => []RingsHaveOneOwner
<1>1. ASSUME IInv PROVE RingsHaveOneOwner
  <2>1. SUFFICES ASSUME NEW r \in Ring
                 PROVE  Cardinality(RingOwners(r)) = IF r \in rings THEN 1 ELSE 0
    BY DEF RingsHaveOneOwner
  <2>2. r # NoRing
    BY NullAssumption
  <2>3. RingsAreAllocated /\ RingsAreNotShared /\ RingsAreOwned
    BY <1>1 DEF IInv, RingInv
  <2>4. CASE r \notin rings
    <3>1. /\ \A s \in Slot : subscriptions[s].ring # r
          /\ \A t \in Thread : At(t, "insert") => thread[t].ring # r
          /\ \A a \in Actor : \A p \in held[a] : p.ring # r
      BY <2>2, <2>3, <2>4 DEF RingsAreAllocated, Active
    <3>2. RingOwners(r) = {}
      BY <3>1 DEF RingOwners
    <3>3. QED
      BY <2>4, <3>2, FS_EmptySet
  <2>5. CASE r \in rings
    <3>1. RingIsOwned(r)
      BY <2>3, <2>5 DEF RingsAreOwned
    <3>2. \A s, u \in Slot : subscriptions[s].ring = r /\ subscriptions[u].ring = r => s = u
      BY <2>2, <2>3 DEF RingsAreNotShared, Active
    <3>3. \A x, y \in RingOwners(r) : x = y
      BY <2>3, <3>2 DEF RingsAreNotShared, RingOwners
    <3>4. PICK x : x \in RingOwners(r)
      BY <3>1 DEF RingIsOwned, RingOwners
    <3>5. RingOwners(r) = {x}
      BY <3>3, <3>4
    <3>6. QED
      BY <2>5, <3>5, FS_Singleton
  <2>6. QED
    BY <2>4, <2>5
<1>2. QED
  BY <1>1, Invariance, PTL

(* Neither does an MDL have two owners, even if a RING_MAP was overtaken   *)
(* or raced another; and the MDL that is owned is allocated.               *)
THEOREM OneMdlOwner == Spec => []MdlsAreFreedOnce
<1>1. ASSUME IInv PROVE MdlsAreFreedOnce
  <2>1. SUFFICES ASSUME NEW m \in Mdl
                 PROVE  /\ Cardinality(MdlOwners(m)) <= 1
                        /\ MdlOwners(m) # {} => described[m] # NoRing
    BY DEF MdlsAreFreedOnce
  <2>2. m # NoMdl
    BY NullAssumption
  <2>3. MdlsAreAllocated /\ MdlsAreNotShared
    BY <1>1 DEF IInv, MdlInv
  <2>4. \A t \in Thread : At(t, "store") => thread[t].ring # NoRing
    BY <1>1, NullAssumption DEF IInv, SlotsOK, At
  <2>5. MdlOwners(m) # {} => described[m] # NoRing
    <3>1. SUFFICES ASSUME NEW x \in MdlOwners(m) PROVE described[m] # NoRing
      OBVIOUS
    <3>2. \/ \E s \in Slot : subscriptions[s].mdl = m
          \/ \E t \in Thread : At(t, "store") /\ thread[t].mdl = m
          \/ \E a \in Actor : \E p \in held[a] : p.mdl = m
      BY <3>1 DEF MdlOwners
    <3>3. QED
      BY <2>2, <2>3, <2>4, <3>2 DEF MdlsAreAllocated
  <2>6. \A x, y \in MdlOwners(m) : x = y
    BY <2>2, <2>3 DEF MdlsAreNotShared, MdlOwners
  <2>7. CASE MdlOwners(m) = {}
    BY <2>5, <2>7, FS_EmptySet
  <2>8. CASE MdlOwners(m) # {}
    <3>1. PICK x : x \in MdlOwners(m)
      BY <2>8
    <3>2. MdlOwners(m) = {x}
      BY <2>6, <3>1
    <3>3. Cardinality(MdlOwners(m)) = 1
      BY <3>2, FS_Singleton
    <3>4. QED
      BY <2>5, <3>3
  <2>9. QED
    BY <2>7, <2>8
<1>2. QED
  BY <1>1, Invariance, PTL

(* A user's view of a ring is taken from it before the ring is freed, when *)
(* no RING_MAP was overtaken.                                              *)
THEOREM ViewsEnd == Spec => []ViewsEndWithTheirRing
<1>1. ASSUME IInv PROVE ViewsEndWithTheirRing
  <2>1. SUFFICES ASSUME detach \in {"no", "draining"}, ~overtaken, NEW v \in views
                 PROVE
      \/ \E s \in Slot : Parts(s) = [ring |-> v.ring, mdl |-> v.mdl] /\ v.ring \in rings
      \/ \E a \in Actor : [ring |-> v.ring, mdl |-> v.mdl] \in held[a] /\ v.ring \in rings
      \/ \E t \in Thread : At(t, "store") /\ thread[t].mdl = v.mdl
    BY DEF ViewsEndWithTheirRing
  <2>2. ViewIsShown(v) /\ RingsAreAllocated /\ TypeOK
    BY <1>1, <2>1 DEF IInv, ViewInv, ViewsAreShown, RingInv
  <2>3. v.ring # NoRing
    BY <2>1, <2>2, Types, NullAssumption
  <2>4. ASSUME NEW s \in Slot, subscriptions[s].ring = v.ring, subscriptions[s].mdl = v.mdl
        PROVE  Parts(s) = [ring |-> v.ring, mdl |-> v.mdl] /\ v.ring \in rings
    BY <2>2, <2>3, <2>4 DEF Parts, RingsAreAllocated, Active
  <2>5. ASSUME NEW a \in Actor, NEW p \in held[a], p.ring = v.ring, p.mdl = v.mdl
        PROVE  [ring |-> v.ring, mdl |-> v.mdl] \in held[a] /\ v.ring \in rings
    <3>1. p = [ring |-> p.ring, mdl |-> p.mdl]
      BY <2>2, <2>5, Types
    <3>2. QED
      BY <2>2, <2>5, <3>1 DEF RingsAreAllocated
  <2>6. QED
    BY <2>2, <2>4, <2>5 DEF ViewIsShown
<1>2. QED
  BY <1>1, Invariance, PTL

(* The detach leaves no ring allocated, and no MDL unless one was lost.    *)
THEOREM DetachIsComplete == Spec => []NothingOutlivesDetach
<1>1. ASSUME IInv PROVE NothingOutlivesDetach
  <2>1. SUFFICES ASSUME detach = "done"
                 PROVE  rings = {} /\ (~overtaken => \A m \in Mdl : described[m] = NoRing)
    BY DEF NothingOutlivesDetach
  <2>2. /\ \A t \in Thread : At(t, "idle") /\ held[t] = {}
        /\ \A s \in Slot : s < cursor => ~Active(s)
        /\ cursor = N + 1 /\ held["detach"] = {}
    BY <1>1, <2>1 DEF IInv, DetachOK
  <2>3. \A a \in Actor : held[a] = {}
    BY <2>2 DEF Actor
  <2>4. \A s \in Slot : ~Active(s)
    BY <2>2, SizeAssumption DEF Slot
  <2>5. rings = {}
    <3>1. SUFFICES ASSUME NEW r \in rings PROVE FALSE
      OBVIOUS
    <3>2. RingIsOwned(r) /\ r # NoRing
      BY <1>1, Types DEF IInv, RingInv, RingsAreOwned
    <3>3. QED
      BY <2>2, <2>3, <2>4, <3>2 DEF RingIsOwned, Active, At
  <2>6. ASSUME ~overtaken, NEW m \in Mdl, described[m] # NoRing PROVE FALSE
    <3>1. MdlIsOwned(m) /\ m # NoMdl
      BY <1>1, <2>6, NullAssumption DEF IInv, MdlInv, MdlsAreOwned
    <3>2. \A s \in Slot : subscriptions[s].mdl = NoMdl
      BY <1>1, <2>4, <2>6 DEF IInv, SlotsOK
    <3>3. QED
      BY <2>2, <2>3, <3>1, <3>2 DEF MdlIsOwned, At
  <2>7. QED
    BY <2>5, <2>6
<1>2. QED
  BY <1>1, Invariance, PTL
=============================================================================
