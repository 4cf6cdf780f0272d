---------------------------- MODULE TestSendRing ----------------------------
(***************************************************************************)
(* The injection of PTP test packets by one adapter: the ring of packets   *)
(* allocated in advance, claimed and returned with interlocked operations, *)
(* the packets allocated when the ring is empty, their completion by NDIS, *)
(* and AvbCleanupDevice, which waits for them only for a while.            *)
(*                                                                         *)
(* A completed frame is the driver's own if its buffer is of the driver's  *)
(* pool, or if it goes to 01:1B:19:00:00:00, as PTP frames of every other  *)
(* sender on the host do: those are completed here as well.                *)
(*                                                                         *)
(* Abstracted: what a packet holds and its timestamp; a chain of completed *)
(* packets is one completion after the other.  NDIS may keep a packet for  *)
(* ever.  The remove lock is the drain of the senders (ContextLifetime).   *)
(***************************************************************************)
EXTENDS Integers, FiniteSets

CONSTANTS
  N,         \* AVB_TEST_NBL_RING_SIZE
  Extra,     \* the packets the pools can allocate beyond the ring
  Foreign,   \* PTP frames of other senders, which pass for test packets
  Sender,    \* threads in AvbSendPtpCore or in the fast path
  Completer, \* processors in FilterSendNetBufferListsComplete
  NoPacket   \* NULL

Slot == 1..N
Packet == Slot \cup Extra

ASSUME SizeAssumption == N \in Nat
ASSUME ExtraAssumption == Extra \cap Slot = {} /\ IsFiniteSet(Extra)
ASSUME ForeignAssumption == Foreign \cap Packet = {} /\ IsFiniteSet(Foreign)
ASSUME NoPacketAssumption == NoPacket \notin Packet \cup Foreign
ASSUME ActorAssumption == IsFiniteSet(Sender) /\ IsFiniteSet(Completer)

VARIABLES
  ring,       \* slots whose NBL, NB, MDL and buffer are allocated
  inUse,      \* per slot: 0 free, 1 in flight, 2 its cleanup is deferred
  extra,      \* packets allocated beyond the ring
  inFlight,   \* packets that NDIS has
  others,     \* frames of other senders that have not completed yet
  pending,    \* test_packets_pending
  deferred,   \* ring_cleanup_deferred
  sender,     \* per sender: where it is, the slot it looks at, its packet
  completer,  \* per processor: where it is, the packet or frame it has
  cleanup,    \* where FilterDetach and AvbCleanupDevice are
  cursor,     \* the slot AvbCleanupDevice looks at
  pools,      \* the NBL and NB pools exist
  timedOut    \* history: AvbCleanupDevice gave up waiting for the packets

ringVars    == <<ring, inUse, extra>>
ndisVars    == <<inFlight, others>>
cleanupVars == <<cleanup, cursor, pools, timedOut>>
vars == <<ring, inUse, extra, inFlight, others, pending, deferred, sender, completer,
          cleanup, cursor, pools, timedOut>>

IdleSender == [pc |-> "idle", slot |-> 1, packet |-> NoPacket]
IdleCompleter == [pc |-> "idle", packet |-> NoPacket]

(* A slot that could not be allocated stays NULL; the ring stops there.    *)
Init ==
  /\ \E n \in 0..N : ring = 1..n
  /\ inUse = [s \in Slot |-> 0]
  /\ extra = {} /\ inFlight = {} /\ others = Foreign
  /\ pending = 0 /\ deferred = 0
  /\ sender = [t \in Sender |-> IdleSender]
  /\ completer = [c \in Completer |-> IdleCompleter]
  /\ cleanup = "open" /\ cursor = 1 /\ pools = TRUE /\ timedOut = FALSE

-----------------------------------------------------------------------------
(* Sending: look for a free slot and claim it ...                          *)

SendBegin(t) ==
  /\ sender[t].pc = "idle" /\ cleanup = "open"
  /\ sender' = [sender EXCEPT ![t].pc = "scan"]
  /\ UNCHANGED <<ringVars, ndisVars, pending, deferred, completer, cleanupVars>>

Claimed(t, p) == sender' = [sender EXCEPT ![t].pc = "count", ![t].packet = p]

(* Mutant: a test and a plain store, which a slot in flight passes.        *)
ClaimBusy(t) ==
  LET s == sender[t].slot IN
  /\ sender[t].pc = "scan" /\ s \in ring
  /\ inUse' = [inUse EXCEPT ![s] = 1]
  /\ Claimed(t, s)
  /\ UNCHANGED <<ring, extra, ndisVars, pending, deferred, completer, cleanupVars>>

Claim(t) ==
  LET s == sender[t].slot IN
  /\ sender[t].pc = "scan" /\ s \in ring /\ inUse[s] = 0
  /\ inUse' = [inUse EXCEPT ![s] = 1]
  /\ Claimed(t, s)
  /\ UNCHANGED <<ring, extra, ndisVars, pending, deferred, completer, cleanupVars>>

ScanOn(t) ==
  LET s == sender[t].slot IN
  /\ sender[t].pc = "scan" /\ s \in Slot /\ (s \notin ring \/ inUse[s] # 0)
  /\ sender' = [sender EXCEPT ![t].slot = s + 1]
  /\ UNCHANGED <<ringVars, ndisVars, pending, deferred, completer, cleanupVars>>

(* ... or allocate a packet, which may fail ...                            *)
Allocate(t) ==
  /\ sender[t].pc = "scan" /\ sender[t].slot > N
  /\ \/ \E x \in Extra \ extra :
          /\ extra' = extra \cup {x}
          /\ Claimed(t, x)
     \/ /\ sender' = [sender EXCEPT ![t] = IdleSender]
        /\ UNCHANGED extra
  /\ UNCHANGED <<ring, inUse, ndisVars, pending, deferred, completer, cleanupVars>>

(* Mutant: the packet is not counted.                                      *)
CountNot(t) ==
  /\ sender[t].pc = "count"
  /\ sender' = [sender EXCEPT ![t].pc = "send"]
  /\ UNCHANGED <<ringVars, ndisVars, pending, deferred, completer, cleanupVars>>

(* ... count the packet, and only then hand it to NDIS.                    *)
Count(t) ==
  /\ sender[t].pc = "count"
  /\ pending' = pending + 1
  /\ sender' = [sender EXCEPT ![t].pc = "send"]
  /\ UNCHANGED <<ringVars, ndisVars, deferred, completer, cleanupVars>>

Send(t) ==
  /\ sender[t].pc = "send"
  /\ inFlight' = inFlight \cup {sender[t].packet}
  /\ sender' = [sender EXCEPT ![t] = IdleSender]
  /\ UNCHANGED <<ringVars, others, pending, deferred, completer, cleanupVars>>

-----------------------------------------------------------------------------
(* FilterSendNetBufferListsComplete takes a test packet, or what passes    *)
(* for one, out of the chain it hands on.  Its steps on a context that has *)
(* been freed are not modelled (LeftWereTaken says how many there are).    *)

CompleteBegin(c) ==
  /\ cleanup # "freed"
  /\ completer[c].pc = "idle"
  /\ \E p \in inFlight \cup others :
       /\ inFlight' = inFlight \ {p}
       /\ others' = others \ {p}
       /\ completer' = [completer EXCEPT ![c] = [pc |-> "return", packet |-> p]]
  /\ UNCHANGED <<ringVars, pending, deferred, sender, cleanupVars>>

Completing(c, pc) == cleanup # "freed" /\ completer[c].pc = pc
Goto(c, pc) == completer' = [completer EXCEPT ![c].pc = pc]

(* The slot is free again, unless its cleanup is deferred to us.           *)
ReturnSlot(c) ==
  LET s == completer[c].packet IN
  /\ Completing(c, "return") /\ s \in Slot
  /\ inUse' = [inUse EXCEPT ![s] = 0]
  /\ Goto(c, IF inUse[s] = 2 THEN "free" ELSE "uncount")
  /\ UNCHANGED <<ring, extra, ndisVars, pending, deferred, sender, cleanupVars>>

(* Memory of a pool goes back to it, if there still is one.                *)
FreeExtra(c) ==
  /\ Completing(c, "return") /\ completer[c].packet \in Extra
  /\ extra' = IF pools THEN extra \ {completer[c].packet} ELSE extra
  /\ Goto(c, "uncount")
  /\ UNCHANGED <<ring, inUse, ndisVars, pending, deferred, sender, cleanupVars>>

(* A frame of another sender matches no slot.  It is freed, and its sender *)
(* does not hear of it again.                                              *)
FreeForeign(c) ==
  /\ Completing(c, "return") /\ completer[c].packet \in Foreign
  /\ Goto(c, "uncount")
  /\ UNCHANGED <<ringVars, ndisVars, pending, deferred, sender, cleanupVars>>

FreeSlot(c) ==
  /\ Completing(c, "free")
  /\ ring' = ring \ {completer[c].packet}
  /\ Goto(c, "undefer")
  /\ UNCHANGED <<inUse, extra, ndisVars, pending, deferred, sender, cleanupVars>>

Undefer(c) ==
  /\ Completing(c, "undefer")
  /\ deferred' = deferred - 1
  /\ Goto(c, "uncount")
  /\ UNCHANGED <<ringVars, ndisVars, pending, sender, cleanupVars>>

(* Whoever has sent it, and whether or not it was counted.                 *)
Uncount(c) ==
  /\ Completing(c, "uncount")
  /\ pending' = pending - 1
  /\ completer' = [completer EXCEPT ![c] = IdleCompleter]
  /\ UNCHANGED <<ringVars, ndisVars, deferred, sender, cleanupVars>>

-----------------------------------------------------------------------------
(* FilterDetach drains the senders, then AvbCleanupDevice.                 *)

Detach ==
  /\ cleanup = "open"
  /\ cleanup' = "drain"
  /\ UNCHANGED <<ringVars, ndisVars, pending, deferred, sender, completer, cursor, pools, timedOut>>

Drained ==
  /\ cleanup = "drain" /\ \A t \in Sender : sender[t].pc = "idle"
  /\ cleanup' = "wait"
  /\ UNCHANGED <<ringVars, ndisVars, pending, deferred, sender, completer, cursor, pools, timedOut>>

(* 100 ms at most for the packets; ring_cleanup_deferred is reset.         *)
WaitPending ==
  /\ cleanup = "wait"
  /\ timedOut' = (pending > 0)
  /\ deferred' = 0
  /\ cleanup' = "slots"
  /\ UNCHANGED <<ringVars, ndisVars, pending, sender, completer, cursor, pools>>

(* Mutant: a slot in flight is freed with the others.                      *)
CleanSlotInFlight ==
  /\ cleanup = "slots" /\ cursor \in Slot
  /\ ring' = ring \ {cursor}
  /\ cursor' = cursor + 1
  /\ UNCHANGED <<inUse, extra, ndisVars, pending, deferred, sender, completer, cleanup, pools, timedOut>>

(* A slot that is free is freed, one in flight is left to its completion.  *)
CleanSlot ==
  /\ cleanup = "slots" /\ cursor \in Slot /\ inUse[cursor] # 1
  /\ ring' = ring \ {cursor}
  /\ cursor' = cursor + 1
  /\ UNCHANGED <<inUse, extra, ndisVars, pending, deferred, sender, completer, cleanup, pools, timedOut>>

DeferSlot ==
  /\ cleanup = "slots" /\ cursor \in Slot /\ inUse[cursor] = 1
  /\ inUse' = [inUse EXCEPT ![cursor] = 2]
  /\ cleanup' = "defer"
  /\ UNCHANGED <<ring, extra, ndisVars, pending, deferred, sender, completer, cursor, pools, timedOut>>

(* Mutant: the deferred slot is not counted.                               *)
CountDeferredNot ==
  /\ cleanup = "defer"
  /\ cursor' = cursor + 1
  /\ cleanup' = "slots"
  /\ UNCHANGED <<ringVars, ndisVars, pending, deferred, sender, completer, pools, timedOut>>

(* The count follows the mark: the completion may be faster.               *)
CountDeferred ==
  /\ cleanup = "defer"
  /\ deferred' = deferred + 1
  /\ cursor' = cursor + 1
  /\ cleanup' = "slots"
  /\ UNCHANGED <<ringVars, ndisVars, pending, sender, completer, pools, timedOut>>

(* One second at most for the deferred slots; then the pools are kept.     *)
WaitDeferred ==
  /\ cleanup = "slots" /\ cursor > N
  /\ cleanup' = IF deferred > 0 THEN "context" ELSE "pools"
  /\ UNCHANGED <<ringVars, ndisVars, pending, deferred, sender, completer, cursor, pools, timedOut>>

FreePools ==
  /\ cleanup = "pools"
  /\ pools' = FALSE
  /\ cleanup' = "context"
  /\ UNCHANGED <<ringVars, ndisVars, pending, deferred, sender, completer, cursor, timedOut>>

FreeContext ==
  /\ cleanup = "context"
  /\ cleanup' = "freed"
  /\ UNCHANGED <<ringVars, ndisVars, pending, deferred, sender, completer, cursor, pools, timedOut>>

-----------------------------------------------------------------------------

Sending(t) == SendBegin(t) \/ Claim(t) \/ ScanOn(t) \/ Allocate(t) \/ Count(t) \/ Send(t)
Completion(c) == CompleteBegin(c) \/ ReturnSlot(c) \/ FreeExtra(c) \/ FreeForeign(c)
                 \/ FreeSlot(c) \/ Undefer(c) \/ Uncount(c)
Cleanup == Detach \/ Drained \/ WaitPending \/ CleanSlot \/ DeferSlot \/ CountDeferred
           \/ WaitDeferred \/ FreePools \/ FreeContext

Next ==
  \/ \E t \in Sender : Sending(t)
  \/ \E c \in Completer : Completion(c)
  \/ Cleanup

Spec == Init /\ [][Next]_vars

-----------------------------------------------------------------------------
(* Properties.                                                             *)

SenderPc == {"idle", "scan", "count", "send"}
CompleterPc == {"idle", "return", "free", "undefer", "uncount"}
CleanupPc == {"open", "drain", "wait", "slots", "defer", "pools", "context", "freed"}

(* Every variable has its type; test_packets_pending falls below 0 by no   *)
(* more than the frames of other senders, for each test packet is counted  *)
(* before NDIS can complete it (1660, 1684).                               *)
TypeOK ==
  /\ ring \subseteq Slot /\ extra \subseteq Extra
  /\ inFlight \subseteq Packet /\ others \subseteq Foreign
  /\ inUse \in [Slot -> 0..2]
  /\ pending \in Int /\ pending >= -Cardinality(Foreign)
  /\ deferred \in Int
  /\ sender \in [Sender -> [pc : SenderPc, slot : 1..N+1, packet : Packet \cup {NoPacket}]]
  /\ completer \in [Completer -> [pc : CompleterPc, packet : Packet \cup Foreign \cup {NoPacket}]]
  /\ cleanup \in CleanupPc /\ cursor \in 1..N+1
  /\ pools \in BOOLEAN /\ timedOut \in BOOLEAN

(* Who has a packet: a sender, NDIS, or a completion that just got it.     *)
SendersOf(p) == {t \in Sender : sender[t].pc \in {"count", "send"} /\ sender[t].packet = p}
CompletersOf(p, pcs) == {c \in Completer : completer[c].pc \in pcs /\ completer[c].packet = p}
Holders(p) == SendersOf(p) \cup CompletersOf(p, {"return"})
                \cup (IF p \in inFlight THEN {"NDIS"} ELSE {})

(* A slot in use has one holder, who will return it, and a free one has    *)
(* none: no two packets share a buffer, and no slot is lost, whichever of  *)
(* sender, completion and cleanup comes first (avb_integration.h 122-125,  *)
(* avb_integration_fixed.c 1614-1620, 1497, filter.c 1847).                *)
SlotsAreAccountedFor ==
  \A s \in Slot : Cardinality(Holders(s)) = IF inUse[s] = 0 THEN 0 ELSE 1

(* The memory of a slot that somebody has, or is about to free, was not    *)
(* freed yet, also when AvbCleanupDevice waited in vain: no use after free *)
(* and no double free of a ring packet (1489-1504, filter.c 1848-1869).    *)
HeldSlotsAreAllocated ==
  \A s \in Slot :
    /\ Holders(s) # {} => s \in ring
    /\ CompletersOf(s, {"free"}) # {} => s \in ring
    /\ Cardinality(CompletersOf(s, {"free"})) <= 1

(* The pools are not freed before the last packet of the ring, however the *)
(* deferral, its count and the completions interleave (1523-1524).         *)
PoolsOutliveRing == ~pools => ring = {}

(* test_packets_pending is the test packets on their way and completions   *)
(* under way, less the frames of other senders taken for test packets: one *)
(* of those hides one packet from the wait, for good (1660, filter.c 1787- *)
(* 1798, 1893).                                                            *)
Sent  == {t \in Sender : sender[t].pc = "send"}
Busy  == {c \in Completer : completer[c].pc # "idle"}
Taken == Foreign \ others
PendingIsExact ==
  pending = Cardinality(Sent) + Cardinality(inFlight) + Cardinality(Busy) - Cardinality(Taken)

(* When the first wait did not time out, no more packets and completions   *)
(* are left when the context is freed than frames of other senders were    *)
(* taken; without any, no packet's memory is left either (1468-1479,       *)
(* filter.c 1787-1798, 1890-1898).                                         *)
FewLeft ==
  /\ Cardinality(inFlight) + Cardinality(Busy) <= Cardinality(Taken)
  /\ Taken = {} => extra = {}
LeftWereTaken == cleanup = "freed" /\ ~timedOut => FewLeft

(* "Wait for any pending test packets to complete": when neither wait has  *)
(* timed out, NDIS has no packet of the driver's any more and none is in   *)
(* completion when the context is freed (1468-1479, filter.c 1745).        *)
OwnBusy == {c \in Busy : completer[c].packet \in Packet}
FreedInQuiet == cleanup = "freed" /\ ~timedOut /\ ~pools => inFlight = {} /\ OwnBusy = {}
=============================================================================
