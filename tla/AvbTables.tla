------------------------------ MODULE AvbTables ------------------------------
(***************************************************************************)
(* What the requests keep in the context of an adapter besides timestamps: *)
(* the reservations of SRP streams under srp_lock, the ATDECC              *)
(* subscriptions under atdecc_sub_lock, and the settings - VLAN tag, EEE,  *)
(* PFC, latencies of the port - under no lock.  The two tables are one     *)
(* design: the first slot with id 0 is taken, the id comes from a counter, *)
(* and what the request answers is read from the slot again once the lock  *)
(* has been released.  A setting takes several stores, and the threads may *)
(* interleave them.                                                        *)
(*                                                                         *)
(* Abstracted: what a stream or a subscription asks for is one value, and  *)
(* so is a number of a setting, NoContent when it is zero.  An ATDECC slot *)
(* is active exactly when it has an id.  Nothing fills its queue of        *)
(* events: a poll that finds it answers that there is none.                *)
(***************************************************************************)
EXTENDS Integers, Sequences

CONSTANTS
  N,          \* MAX_SRP_STREAMS, MAX_ATDECC_SUBSCRIPTIONS
  Thread,     \* threads with a request
  Content,    \* bandwidths, event masks, tags, timers, latencies
  MaxIds,     \* bound on the counters, below their width
  MaxSettings, \* bound on the requests that change a setting
  NoContent,
  Unasked     \* of a setting a request leaves alone

ASSUME SizeAssumption == N \in Nat \ {0} /\ MaxIds \in Nat /\ MaxSettings \in Nat
ASSUME NoContentAssumption == NoContent \notin Content
ASSUME UnaskedAssumption == Unasked \notin Content \cup {NoContent} \cup BOOLEAN

Slot  == 1..N
Table == {"srp", "atdecc"}

Setting ==
  {"vlan_id", "vlan_pcp", "vlan_strip_rx", "vlan_enabled", "eee_lpi_timer_us",
   "eee_enabled", "pfc_enabled", "pfc_priority_mask", "ingress_latency_ns",
   "egress_latency_ns"}
Switch == {"vlan_enabled", "eee_enabled", "pfc_enabled"}

VARIABLES
  slots,      \* per table and slot: its id, 0 if it is free, and content
  next,       \* per table: next_srp_handle, next_atdecc_sub_id
  settings,   \* the value of every setting
  thread,     \* per thread: its request, and what it has answered
  retired,    \* history: per table, the ids that have been given up
  begun       \* history: how many requests have changed a setting
vars == <<slots, next, settings, thread, retired, begun>>

FreeSlot == [id |-> 0, content |-> NoContent]
NothingAsked == [f \in Setting |-> Unasked]

(* own and content are what the thread was given and asked for; id, told   *)
(* and pcp what it answers.  asked is what it wants of the settings, todo  *)
(* the stores it has not made.  overtaken: another has stored to one of    *)
(* the settings it asked for.                                              *)
Idle == [pc |-> "idle", table |-> "srp", slot |-> 1, own |-> 0, content |-> NoContent,
         id |-> 0, told |-> NoContent, pcp |-> NoContent,
         asked |-> NothingAsked, todo |-> <<>>, overtaken |-> FALSE]

Init ==
  /\ slots = [k \in Table |-> [s \in Slot |-> FreeSlot]]
  /\ next = [k \in Table |-> 1]
  /\ settings = [f \in Setting |-> IF f \in Switch THEN FALSE ELSE NoContent]
  /\ thread = [t \in Thread |-> Idle]
  /\ retired = [k \in Table |-> {}]
  /\ begun = 0

At(t, pc)  == thread[t].pc = pc
Ready(t)   == thread[t].pc \notin {"id", "content", "tagging", "setting", "read pcp"}
IsFree(e)  == e.id = 0
First(k, s, id) == slots[k][s].id = id /\ \A r \in Slot : slots[k][r].id = id => s <= r

-----------------------------------------------------------------------------
(* IOCTL_AVB_SRP_REGISTER_STREAM and IOCTL_AVB_ATDECC_EVENT_SUBSCRIBE.     *)

TakeSlot(t, k, s, c, id) ==
  /\ slots' = [slots EXCEPT ![k][s] = [id |-> id, content |-> c]]
  /\ thread' = [thread EXCEPT ![t] =
       [Idle EXCEPT !.pc = "id", !.table = k, !.slot = s, !.own = id, !.content = c]]

(* Mutants: the id is the number of the slot; the slot need not be free.   *)
RegisterNumbered(t, k, s, c) ==
  /\ Ready(t) /\ next[k] < MaxIds /\ First(k, s, 0)
  /\ next' = [next EXCEPT ![k] = @ + 1]
  /\ TakeSlot(t, k, s, c, s)
  /\ UNCHANGED <<settings, retired, begun>>

RegisterOver(t, k, s, c) ==
  /\ Ready(t) /\ next[k] < MaxIds
  /\ next' = [next EXCEPT ![k] = @ + 1]
  /\ TakeSlot(t, k, s, c, next[k] + 1)
  /\ UNCHANGED <<settings, retired, begun>>

Register(t, k, s, c) ==
  /\ Ready(t) /\ next[k] < MaxIds /\ First(k, s, 0)
  /\ next' = [next EXCEPT ![k] = @ + 1]
  /\ TakeSlot(t, k, s, c, next[k] + 1)
  /\ UNCHANGED <<settings, retired, begun>>

(* All slots are taken: an error, no id, and nothing has changed.          *)
RegisterFull(t, k) ==
  /\ Ready(t) /\ \A s \in Slot : ~IsFree(slots[k][s])
  /\ thread' = [thread EXCEPT ![t] = [Idle EXCEPT !.pc = "full", !.table = k]]
  /\ UNCHANGED <<slots, next, settings, retired, begun>>

(* After the lock: the slot may be free by now, or somebody else's.        *)
AnswerId(t) ==
  /\ At(t, "id")
  /\ LET k == thread[t].table IN
     thread' = [thread EXCEPT ![t] =
       [@ EXCEPT !.id = slots[k][thread[t].slot].id,
                 !.pc = IF k = "srp" THEN "content" ELSE "registered"]]
  /\ UNCHANGED <<slots, next, settings, retired, begun>>

AnswerContent(t) ==
  /\ At(t, "content")
  /\ thread' = [thread EXCEPT ![t] =
       [@ EXCEPT !.told = slots["srp"][thread[t].slot].content, !.pc = "registered"]]
  /\ UNCHANGED <<slots, next, settings, retired, begun>>

-----------------------------------------------------------------------------
(* IOCTL_AVB_SRP_DEREGISTER_STREAM and IOCTL_AVB_ATDECC_EVENT_UNSUBSCRIBE, *)
(* of any id and by anybody.  An SRP handle of 0 finds a free slot and     *)
(* frees it again; an unknown one is answered with success too.            *)

Free(k, s) ==
  /\ slots' = [slots EXCEPT ![k][s] = FreeSlot]
  /\ retired' = [retired EXCEPT ![k] = (@ \cup {slots[k][s].id}) \ {0}]

Deregister(id) ==
  /\ \E s \in Slot : First("srp", s, id) /\ Free("srp", s)
  /\ UNCHANGED <<next, settings, thread, begun>>

Unsubscribe(id) ==
  /\ id # 0
  /\ \E s \in Slot : First("atdecc", s, id) /\ Free("atdecc", s)
  /\ UNCHANGED <<next, settings, thread, begun>>

(* IOCTL_AVB_ATDECC_EVENT_POLL.  id remembers how far the counter was.     *)
Poll(t, id) ==
  /\ Ready(t)
  /\ thread' = [thread EXCEPT ![t] =
       [Idle EXCEPT !.pc = IF id # 0 /\ \E s \in Slot : slots["atdecc"][s].id = id
                           THEN "polled" ELSE "unknown",
                    !.table = "atdecc", !.own = id, !.id = next["atdecc"]]]
  /\ UNCHANGED <<slots, next, settings, retired, begun>>

-----------------------------------------------------------------------------
(* The requests that change settings, each with its stores in their order. *)

Begin(t, pc, todo, asked) ==
  /\ Ready(t) /\ begun < MaxSettings
  /\ thread' = [thread EXCEPT ![t] =
       [Idle EXCEPT !.pc = pc, !.todo = todo, !.asked = asked]]
  /\ begun' = begun + 1
  /\ UNCHANGED <<slots, next, settings, retired>>

VlanEnable(t, c) ==
  Begin(t, "tagging", <<"vlan_id", "vlan_pcp", "vlan_strip_rx", "vlan_enabled">>,
    [NothingAsked EXCEPT !["vlan_id"] = c, !["vlan_pcp"] = c, !["vlan_strip_rx"] = c,
                         !["vlan_enabled"] = TRUE])

VlanDisable(t) ==
  Begin(t, "tagging", <<"vlan_enabled">>, [NothingAsked EXCEPT !["vlan_enabled"] = FALSE])

EeeEnable(t, c) ==
  Begin(t, "setting", <<"eee_lpi_timer_us", "eee_enabled">>,
    [NothingAsked EXCEPT !["eee_lpi_timer_us"] = c, !["eee_enabled"] = TRUE])

EeeDisable(t) ==
  Begin(t, "setting", <<"eee_lpi_timer_us", "eee_enabled">>,
    [NothingAsked EXCEPT !["eee_lpi_timer_us"] = NoContent, !["eee_enabled"] = FALSE])

PfcEnable(t, on, c) ==
  Begin(t, "setting", <<"pfc_enabled", "pfc_priority_mask">>,
    [NothingAsked EXCEPT !["pfc_enabled"] = on, !["pfc_priority_mask"] = c])

SetPortLatency(t, c) ==
  Begin(t, "setting", <<"ingress_latency_ns", "egress_latency_ns">>,
    [NothingAsked EXCEPT !["ingress_latency_ns"] = c, !["egress_latency_ns"] = c])

(* A shaper is looked at and forgotten: what is valid is answered with     *)
(* success, the rest with an error, and neither is stored anywhere.        *)
SetupQav(t, tc, sendSlope, hiCredit, loCredit) ==
  /\ Ready(t)
  /\ thread' = [thread EXCEPT ![t] =
       [Idle EXCEPT !.pc = IF tc < 8 /\ sendSlope <= 0 /\ hiCredit >= 0 /\ loCredit <= 0
                           THEN "set" ELSE "refused"]]
  /\ UNCHANGED <<slots, next, settings, retired, begun>>

Store(t) ==
  /\ thread[t].pc \in {"tagging", "setting"} /\ thread[t].todo # <<>>
  /\ LET f == Head(thread[t].todo) IN
     /\ settings' = [settings EXCEPT ![f] = thread[t].asked[f]]
     /\ thread' = [u \in Thread |->
          IF u = t THEN [thread[t] EXCEPT !.todo = Tail(@)]
          ELSE [thread[u] EXCEPT !.overtaken = @ \/ thread[u].asked[f] # Unasked]]
  /\ UNCHANGED <<slots, next, retired, begun>>

(* The VLAN requests read the tag back, the others answer what was asked.  *)
ReadVlanId(t) ==
  /\ At(t, "tagging") /\ thread[t].todo = <<>>
  /\ thread' = [thread EXCEPT ![t] = [@ EXCEPT !.pc = "read pcp", !.told = settings["vlan_id"]]]
  /\ UNCHANGED <<slots, next, settings, retired, begun>>

ReadVlanPcp(t) ==
  /\ At(t, "read pcp")
  /\ thread' = [thread EXCEPT ![t] = [@ EXCEPT !.pc = "set", !.pcp = settings["vlan_pcp"]]]
  /\ UNCHANGED <<slots, next, settings, retired, begun>>

AnswerSet(t) ==
  /\ At(t, "setting") /\ thread[t].todo = <<>>
  /\ thread' = [thread EXCEPT ![t] = [@ EXCEPT !.pc = "set"]]
  /\ UNCHANGED <<slots, next, settings, retired, begun>>

-----------------------------------------------------------------------------

Registering(t) ==
  \/ \E k \in Table, s \in Slot, c \in Content : Register(t, k, s, c)
  \/ \E k \in Table : RegisterFull(t, k)
  \/ AnswerId(t)
  \/ AnswerContent(t)
  \/ \E id \in 0..MaxIds : Poll(t, id)

Asking(t) ==
  \/ \E c \in Content :
       \/ VlanEnable(t, c)
       \/ EeeEnable(t, c)
       \/ \E on \in BOOLEAN : PfcEnable(t, on, c)
       \/ SetPortLatency(t, c)
  \/ VlanDisable(t)
  \/ EeeDisable(t)

SettingStep(t) ==
  \/ Asking(t)
  \/ \E tc \in {7, 8}, slope, hi, lo \in {-1, 0, 1} : SetupQav(t, tc, slope, hi, lo)
  \/ Store(t)
  \/ ReadVlanId(t)
  \/ ReadVlanPcp(t)
  \/ AnswerSet(t)

Next ==
  \/ \E t \in Thread : Registering(t) \/ SettingStep(t)
  \/ \E id \in 0..MaxIds : Deregister(id) \/ Unsubscribe(id)

Spec == Init /\ [][Next]_vars

-----------------------------------------------------------------------------
(* An id names one entry for good: no two slots of a table have the same,  *)
(* an id given up is never given out again - a request that still holds it *)
(* frees or polls nothing of somebody else's -, one that was not given up  *)
(* is not lost, and a slot without an id keeps nothing of what was in it.  *)
IdsIdentify ==
  \A k \in Table :
    /\ \A s \in Slot : IsFree(slots[k][s]) => slots[k][s] = FreeSlot
    /\ \A r, s \in Slot : r # s /\ slots[k][r].id = slots[k][s].id => IsFree(slots[k][s])
    /\ \A s \in Slot : slots[k][s].id \notin retired[k]
    /\ \A id \in 2..next[k] : id \in retired[k] \/ \E s \in Slot : slots[k][s].id = id

(* Though it is read again outside the lock, the answer to a registration  *)
(* is that of the registration unless somebody has freed it in between; a  *)
(* poll knows every id that was given out and not given up; and when a     *)
(* request answers that settings are made, all of them are as it asked,    *)
(* and the tag that is read back is its own, unless another thread has     *)
(* stored to one of them since it began.                                   *)
AnswersAreOwn ==
  \A t \in Thread :
    /\ At(t, "registered") => LET k == thread[t].table IN
         \/ thread[t].own \in retired[k]
         \/ /\ thread[t].id = thread[t].own
            /\ k = "srp" => thread[t].told = thread[t].content
    /\ At(t, "unknown") /\ thread[t].own \in 2..thread[t].id =>
         thread[t].own \in retired["atdecc"]
    /\ At(t, "set") /\ ~thread[t].overtaken =>
         /\ \A f \in Setting : thread[t].asked[f] \in {Unasked, settings[f]}
         /\ thread[t].asked["vlan_id"] # Unasked =>
              /\ thread[t].told = thread[t].asked["vlan_id"]
              /\ thread[t].pcp = thread[t].asked["vlan_pcp"]

=============================================================================
