--------------------------- MODULE TsSubscription ---------------------------
(***************************************************************************)
(* The timestamp subscriptions of one adapter: the table of slots under    *)
(* subscription_lock, the event rings, and the MDLs and views through      *)
(* which they are mapped into the subscriber.  Requests take the lock to   *)
(* read or change the table and let it go to allocate, map and free.       *)
(*                                                                         *)
(* Abstracted: filters and sizes of a subscription; the events (TsRing);   *)
(* the timer (TxPoll).  A slot is active exactly when it has a ring, and   *)
(* its user_va is the view made with its MDL.  The remove lock is the      *)
(* drain of the requests (ContextLifetime).                                *)
(***************************************************************************)
EXTENDS Naturals, FiniteSets

CONSTANTS
  N,         \* MAX_TS_SUBSCRIPTIONS
  Ring, Mdl, \* addresses the pool can give to rings and to MDLs
  Handle,    \* file objects
  Thread,    \* threads with a request
  MaxIds,    \* bound on next_ring_id, below the width of the counter
  NoRing, NoMdl, NoHandle

Slot == 1..N
Actor == Thread \cup {"detach"}

ASSUME SizeAssumption == N \in Nat \ {0} /\ MaxIds \in Nat
ASSUME NullAssumption == NoRing \notin Ring /\ NoMdl \notin Mdl /\ NoHandle \notin Handle
ASSUME ThreadAssumption == "detach" \notin Thread

VARIABLES
  subscriptions, \* per slot: ring_id, ring_buffer, ring_mdl, file_object
  nextRingId,
  rings,         \* rings that are allocated
  described,     \* per MDL: the ring it describes, NoRing if it is not allocated
  views,         \* the rings mapped into users, each with the MDL it was mapped by
  fsContext,     \* per handle: the adapter it is bound to, or that it is closed
  thread,        \* per thread: where it is, its handle, slot, ring and MDL
  held,          \* per actor: what it took from the table and has not freed
  detach,        \* where FilterDetach and AvbCleanupDevice are
  cursor,        \* the slot AvbCleanupDevice looks at
  overtaken      \* history: a RING_MAP stored over a slot that had changed

table == <<subscriptions, nextRingId>>
memory == <<rings, described, views>>
vars == <<subscriptions, nextRingId, rings, described, views, fsContext, thread,
          held, detach, cursor, overtaken>>

FreeSlot == [id |-> 0, ring |-> NoRing, mdl |-> NoMdl, owner |-> NoHandle]
Idle == [pc |-> "idle", handle |-> NoHandle, slot |-> 1, ring |-> NoRing, mdl |-> NoMdl]

Init ==
  /\ subscriptions = [s \in Slot |-> FreeSlot]
  /\ nextRingId = 0
  /\ rings = {} /\ described = [m \in Mdl |-> NoRing] /\ views = {}
  /\ fsContext = [h \in Handle |-> "unbound"]
  /\ thread = [t \in Thread |-> Idle]
  /\ held = [a \in Actor |-> {}]
  /\ detach = "no" /\ cursor = 1 /\ overtaken = FALSE

At(t, pc) == thread[t].pc = pc
Ready(t) == At(t, "idle") /\ held[t] = {}
Accepts(h) == detach = "no" /\ fsContext[h] \in {"unbound", "bound"}
Active(s) == subscriptions[s].ring # NoRing
Parts(s) == [ring |-> subscriptions[s].ring, mdl |-> subscriptions[s].mdl]

-----------------------------------------------------------------------------
(* IOCTL_AVB_TS_SUBSCRIBE: allocate a ring, then look for a slot.          *)

SubscribeAlloc(t, h) ==
  /\ Ready(t) /\ Accepts(h) /\ nextRingId < MaxIds
  /\ \E r \in Ring \ rings :
       /\ rings' = rings \cup {r}
       /\ thread' = [thread EXCEPT ![t] = [Idle EXCEPT !.pc = "insert", !.handle = h, !.ring = r]]
  /\ UNCHANGED <<table, described, views, fsContext, held, detach, cursor, overtaken>>

FreeSlots == {s \in Slot : subscriptions[s].id = 0}

SubscribeInsert(t) ==
  /\ At(t, "insert")
  /\ \E s \in FreeSlots :
       /\ \A r \in FreeSlots : s <= r
       /\ subscriptions' = [subscriptions EXCEPT ![s] =
            [id |-> nextRingId + 1, ring |-> thread[t].ring, mdl |-> NoMdl,
             owner |-> thread[t].handle]]
       /\ thread' = [thread EXCEPT ![t] = [Idle EXCEPT !.pc = "answer", !.slot = s]]
  /\ nextRingId' = nextRingId + 1
  /\ UNCHANGED <<memory, fsContext, held, detach, cursor, overtaken>>

(* Mutant: the ring is not freed when there is no slot for it.             *)
SubscribeFullLeaks(t) ==
  /\ At(t, "insert") /\ FreeSlots = {}
  /\ thread' = [thread EXCEPT ![t] = Idle]
  /\ UNCHANGED <<table, memory, fsContext, held, detach, cursor, overtaken>>

SubscribeFull(t) ==
  /\ At(t, "insert") /\ FreeSlots = {}
  /\ rings' = rings \ {thread[t].ring}
  /\ thread' = [thread EXCEPT ![t] = Idle]
  /\ UNCHANGED <<table, described, views, fsContext, held, detach, cursor, overtaken>>

(* The answer is read from the slot once the lock is gone: it is 0, or the *)
(* ring of somebody else, if the subscription has ended by then.           *)
SubscribeAnswer(t) ==
  /\ At(t, "answer")
  /\ thread' = [thread EXCEPT ![t] = Idle]
  /\ UNCHANGED <<table, memory, fsContext, held, detach, cursor, overtaken>>

-----------------------------------------------------------------------------
(* IOCTL_AVB_TS_RING_MAP, of any ring: find the slot under the lock ...    *)

MapFind(t, h, s) ==
  /\ Ready(t) /\ Accepts(h)
  /\ subscriptions[s].id # 0 /\ Active(s) /\ subscriptions[s].mdl = NoMdl
  /\ thread' = [thread EXCEPT ![t] =
       [Idle EXCEPT !.pc = "map", !.handle = h, !.slot = s, !.ring = subscriptions[s].ring]]
  /\ UNCHANGED <<table, memory, fsContext, held, detach, cursor, overtaken>>

(* ... describe and map the ring without it, or fail and free the MDL ...  *)
MapPages(t) ==
  /\ At(t, "map")
  /\ \/ \E m \in Mdl :
          /\ described[m] = NoRing
          /\ described' = [described EXCEPT ![m] = thread[t].ring]
          /\ views' = views \cup {[mdl |-> m, ring |-> thread[t].ring]}
          /\ thread' = [thread EXCEPT ![t].pc = "store", ![t].mdl = m]
     \/ /\ thread' = [thread EXCEPT ![t] = Idle]
        /\ UNCHANGED <<described, views>>
  /\ UNCHANGED <<table, rings, fsContext, held, detach, cursor, overtaken>>

(* ... and store the MDL through the pointer that was found.               *)
MapStore(t) ==
  LET s == thread[t].slot IN
  /\ At(t, "store")
  /\ subscriptions' = [subscriptions EXCEPT ![s].mdl = thread[t].mdl]
  /\ overtaken' = (overtaken \/ Parts(s) # [ring |-> thread[t].ring, mdl |-> NoMdl])
  /\ thread' = [thread EXCEPT ![t] = Idle]
  /\ UNCHANGED <<nextRingId, memory, fsContext, held, detach, cursor>>

-----------------------------------------------------------------------------
(* Whoever ends a subscription takes its ring and MDL from the table under *)
(* the lock, and frees them without it: IOCTL_AVB_TS_UNSUBSCRIBE ...       *)

(* Mutant: the table keeps what was taken until it has been freed.         *)
UnsubscribeInPlace(t, h, s) ==
  /\ Ready(t) /\ Accepts(h) /\ Active(s)
  /\ held' = [held EXCEPT ![t] = {Parts(s)}]
  /\ subscriptions' = [subscriptions EXCEPT ![s].id = 0]
  /\ UNCHANGED <<nextRingId, memory, fsContext, thread, detach, cursor, overtaken>>

(* Mutant: a slot is found by its ring_id only, be it active or not.       *)
UnsubscribeInactive(t, h, s) ==
  /\ Ready(t) /\ Accepts(h)
  /\ held' = [held EXCEPT ![t] = {Parts(s)}]
  /\ subscriptions' = [subscriptions EXCEPT ![s] = FreeSlot]
  /\ UNCHANGED <<nextRingId, memory, fsContext, thread, detach, cursor, overtaken>>

Unsubscribe(t, h, s) ==
  /\ Ready(t) /\ Accepts(h) /\ Active(s)
  /\ held' = [held EXCEPT ![t] = {Parts(s)}]
  /\ subscriptions' = [subscriptions EXCEPT ![s] = FreeSlot]
  /\ UNCHANGED <<nextRingId, memory, fsContext, thread, detach, cursor, overtaken>>

Owned(h) == {s \in Slot : Active(s) /\ subscriptions[s].owner = h}

(* Mutant: only the rings are taken.                                       *)
CleanupFileSubscriptionsUnmapped(t, h) ==
  /\ held' = [held EXCEPT ![t] = {[ring |-> subscriptions[s].ring, mdl |-> NoMdl] : s \in Owned(h)}]
  /\ subscriptions' = [s \in Slot |-> IF s \in Owned(h) THEN FreeSlot ELSE subscriptions[s]]

(* ... the cleanup of a handle, of the adapter it is bound to by then ...  *)
CleanupFileSubscriptions(t, h) ==
  /\ held' = [held EXCEPT ![t] = {Parts(s) : s \in Owned(h)}]
  /\ subscriptions' = [s \in Slot |-> IF s \in Owned(h) THEN FreeSlot ELSE subscriptions[s]]

(* A handle without a context, or whose context is being torn down, is     *)
(* closed with no cleanup.                                                 *)
Close(t, h) ==
  /\ Ready(t) /\ fsContext[h] # "closed"
  /\ fsContext' = [fsContext EXCEPT ![h] = "closed"]
  /\ IF fsContext[h] = "bound" /\ detach = "no"
       THEN CleanupFileSubscriptions(t, h)
       ELSE UNCHANGED <<held, subscriptions>>
  /\ UNCHANGED <<nextRingId, memory, thread, detach, cursor, overtaken>>

(* IOCTL_AVB_OPEN_ADAPTER binds a handle, to this adapter or another.      *)
OpenAdapter(h) ==
  /\ fsContext[h] # "closed" /\ detach = "no"
  /\ \E to \in {"bound", "elsewhere"} : fsContext' = [fsContext EXCEPT ![h] = to]
  /\ UNCHANGED <<table, memory, thread, held, detach, cursor, overtaken>>

(* ... and AvbCleanupDevice, slot by slot, once the requests have drained. *)
DetachUnlink ==
  /\ detach = "no" /\ detach' = "draining"
  /\ UNCHANGED <<table, memory, fsContext, thread, held, cursor, overtaken>>

(* Mutant: the detach does not wait.                                       *)
DetachUndrained ==
  /\ detach = "draining"
  /\ detach' = "cleaning"
  /\ UNCHANGED <<table, memory, fsContext, thread, held, cursor, overtaken>>

DetachDrained ==
  /\ detach = "draining" /\ \A t \in Thread : Ready(t)
  /\ detach' = "cleaning"
  /\ UNCHANGED <<table, memory, fsContext, thread, held, cursor, overtaken>>

CleanSlot ==
  /\ detach = "cleaning" /\ cursor \in Slot /\ held["detach"] = {}
  /\ cursor' = cursor + 1
  /\ IF Active(cursor)
       THEN /\ held' = [held EXCEPT !["detach"] = {Parts(cursor)}]
            /\ subscriptions' =
                 [subscriptions EXCEPT ![cursor].ring = NoRing, ![cursor].mdl = NoMdl]
       ELSE UNCHANGED <<held, subscriptions>>
  /\ UNCHANGED <<nextRingId, memory, fsContext, thread, detach, overtaken>>

CleanupDone ==
  /\ detach = "cleaning" /\ cursor = N + 1 /\ held["detach"] = {}
  /\ detach' = "done"
  /\ UNCHANGED <<table, memory, fsContext, thread, held, cursor, overtaken>>

(* Freeing: the MDL, unmapped first except by the detach, ...              *)
ReleaseMdl(a) ==
  \E p \in held[a] :
    /\ p.mdl # NoMdl
    /\ described' = [described EXCEPT ![p.mdl] = NoRing]
    /\ views' = IF a = "detach" THEN views ELSE {v \in views : v.mdl # p.mdl}
    /\ held' = [held EXCEPT ![a] = (held[a] \ {p}) \cup {[p EXCEPT !.mdl = NoMdl]}]
    /\ UNCHANGED <<table, rings, fsContext, thread, detach, cursor, overtaken>>

(* ... then the ring.                                                      *)
ReleaseRing(a) ==
  \E p \in held[a] :
    /\ p.mdl = NoMdl
    /\ rings' = rings \ {p.ring}
    /\ held' = [held EXCEPT ![a] = held[a] \ {p}]
    /\ UNCHANGED <<table, described, views, fsContext, thread, detach, cursor, overtaken>>

Next ==
  \/ \E t \in Thread, h \in Handle :
       \/ SubscribeAlloc(t, h) \/ Close(t, h)
       \/ \E s \in Slot : MapFind(t, h, s) \/ Unsubscribe(t, h, s)
  \/ \E t \in Thread :
       SubscribeInsert(t) \/ SubscribeAnswer(t) \/ SubscribeFull(t) \/ MapPages(t) \/ MapStore(t)
  \/ \E h \in Handle : OpenAdapter(h)
  \/ DetachUnlink \/ DetachDrained \/ CleanSlot \/ CleanupDone
  \/ \E a \in Actor : ReleaseMdl(a) \/ ReleaseRing(a)

Spec == Init /\ [][Next]_vars

-----------------------------------------------------------------------------
(* Every variable keeps its type: next_ring_id gives out no identifier     *)
(* that marks a free slot, and the table no pointer that is in no pool.    *)
TypeOK ==
  /\ subscriptions \in [Slot -> [id : Nat, ring : Ring \cup {NoRing},
                                 mdl : Mdl \cup {NoMdl}, owner : Handle \cup {NoHandle}]]
  /\ nextRingId \in Nat
  /\ rings \subseteq Ring
  /\ described \in [Mdl -> Ring \cup {NoRing}]
  /\ views \subseteq [mdl : Mdl, ring : Ring]
  /\ fsContext \in [Handle -> {"unbound", "bound", "elsewhere", "closed"}]
  /\ thread \in [Thread -> [pc : {"idle", "insert", "answer", "map", "store"},
                            handle : Handle \cup {NoHandle}, slot : Slot,
                            ring : Ring \cup {NoRing}, mdl : Mdl \cup {NoMdl}]]
  /\ held \in [Actor -> SUBSET [ring : Ring, mdl : Mdl \cup {NoMdl}]]
  /\ detach \in {"no", "draining", "cleaning", "done"}
  /\ cursor \in 1..N+1
  /\ overtaken \in BOOLEAN

(* Who will free a ring, or an MDL.                                        *)
RingOwners(r) ==
  {<<"slot", s>> : s \in {s \in Slot : subscriptions[s].ring = r}}
    \cup {<<"new", t>> : t \in {t \in Thread : At(t, "insert") /\ thread[t].ring = r}}
    \cup {<<"held", a>> : a \in {a \in Actor : \E p \in held[a] : p.ring = r}}

MdlOwners(m) ==
  {<<"slot", s>> : s \in {s \in Slot : subscriptions[s].mdl = m}}
    \cup {<<"new", t>> : t \in {t \in Thread : At(t, "store") /\ thread[t].mdl = m}}
    \cup {<<"held", a>> : a \in {a \in Actor : \E p \in held[a] : p.mdl = m}}

(* The event ring of a subscription is neither lost nor freed twice, nor   *)
(* posted to after it was freed, whatever subscribes, unsubscribes, closes *)
(* and detaches at once: a ring that is allocated has exactly one owner,   *)
(* and a ring that is not has none.                                        *)
RingsHaveOneOwner ==
  \A r \in Ring : Cardinality(RingOwners(r)) = IF r \in rings THEN 1 ELSE 0

(* No MDL is freed twice, even when RING_MAP races what ends its           *)
(* subscription: at most one owner will free it, and it is allocated.      *)
MdlsAreFreedOnce ==
  \A m \in Mdl : /\ Cardinality(MdlOwners(m)) <= 1
                 /\ MdlOwners(m) # {} => described[m] # NoRing

(* While the adapter is attached, and unless a RING_MAP was overtaken, a   *)
(* user sees a ring only as long as the ring exists: its view is still     *)
(* owned together with that ring, or RING_MAP is about to store it.        *)
ViewsEndWithTheirRing ==
  detach \in {"no", "draining"} /\ ~overtaken =>
    \A v \in views :
      \/ \E s \in Slot : Parts(s) = [ring |-> v.ring, mdl |-> v.mdl] /\ v.ring \in rings
      \/ \E a \in Actor : [ring |-> v.ring, mdl |-> v.mdl] \in held[a] /\ v.ring \in rings
      \/ \E t \in Thread : At(t, "store") /\ thread[t].mdl = v.mdl

(* AvbCleanupDevice, which empties the table slot by slot and takes the    *)
(* lock for each, misses no ring, and no MDL that a slot still knows of.   *)
NothingOutlivesDetach ==
  detach = "done" => /\ rings = {}
                     /\ ~overtaken => \A m \in Mdl : described[m] = NoRing

(* "Closing the adapter handle triggers implicit cleanup of all            *)
(* subscriptions": no subscription belongs to a closed handle.             *)
ClosedHandleHoldsNothing ==
  \A s \in Slot : Active(s) /\ detach = "no" => fsContext[subscriptions[s].owner] # "closed"
=============================================================================
