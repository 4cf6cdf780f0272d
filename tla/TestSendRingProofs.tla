-------------------------- MODULE TestSendRingProofs --------------------------
(***************************************************************************)
(* For a ring of any size, any number of senders, of processors that       *)
(* complete and of PTP frames of others: every slot has one holder, its    *)
(* memory does not go before its last user, and the two counters count     *)
(* what the two waits are for, less the frames taken by mistake.           *)
(***************************************************************************)
EXTENDS TestSendRing, FiniteSetTheorems, TLAPS

(* Who has a packet.                                                       *)
SenderHas(t)    == sender[t].pc \in {"count", "send"}
CompleterHas(c) == completer[c].pc = "return" /\ completer[c].packet \in Packet
Held(p) == \/ \E t \in Sender : SenderHas(t) /\ sender[t].packet = p
           \/ \E c \in Completer : CompleterHas(c) /\ completer[c].packet = p
           \/ p \in inFlight

(* No two have the same packet, ...                                        *)
NotShared ==
  /\ \A t, u \in Sender :
       SenderHas(t) /\ SenderHas(u) /\ sender[t].packet = sender[u].packet => t = u
  /\ \A c, d \in Completer :
       CompleterHas(c) /\ CompleterHas(d) /\ completer[c].packet = completer[d].packet => c = d
  /\ \A t \in Sender, c \in Completer :
       SenderHas(t) /\ CompleterHas(c) => sender[t].packet # completer[c].packet
  /\ \A t \in Sender : SenderHas(t) => sender[t].packet \notin inFlight
  /\ \A c \in Completer : CompleterHas(c) => completer[c].packet \notin inFlight

(* ... whoever has one has one that is allocated and in use, ...           *)
Live(p) == p \in extra \/ (p \in ring /\ inUse[p] # 0)

HeldIsLive ==
  /\ \A t \in Sender : SenderHas(t) => Live(sender[t].packet)
  /\ \A c \in Completer : CompleterHas(c) => Live(completer[c].packet)
  /\ \A p \in inFlight : Live(p)

(* ... and what is in use somebody has, but for memory of a pool that was  *)
(* freed around it.                                                        *)
LiveIsHeld ==
  /\ \A s \in Slot : inUse[s] # 0 => Held(s)
  /\ pools => \A x \in extra : Held(x)

(* The slots AvbCleanupDevice has looked at.                               *)
Passed(s) == s < cursor \/ (s = cursor /\ cleanup = "defer")

(* A completion that frees a slot is the only one to do so, after          *)
(* AvbCleanupDevice has left the slot to it.                               *)
Frees(c, s) == completer[c].pc = "free" /\ completer[c].packet = s

FreesOnce ==
  /\ \A c \in Completer : completer[c].pc = "free" => completer[c].packet \in Slot
  /\ \A c \in Completer : \A s \in Slot : Frees(c, s) => s \in ring /\ inUse[s] = 0 /\ Passed(s)
  /\ \A c, d \in Completer : \A s \in Slot : Frees(c, s) /\ Frees(d, s) => c = d

(* A slot it has looked at is freed, or left to somebody.                  *)
MarksOK ==
  /\ \A s \in Slot : inUse[s] = 2 => Passed(s)
  /\ \A s \in ring : Passed(s) => inUse[s] = 2 \/ \E c \in Completer : Frees(c, s)

(* How far the teardown is.                                                *)
Late == {"slots", "defer", "pools", "context", "freed"}

PhasesOK ==
  /\ cleanup \in {"wait"} \cup Late => \A t \in Sender : sender[t].pc = "idle"
  /\ cleanup \in {"open", "drain", "wait"} =>
       cursor = 1 /\ pools /\ \A c \in Completer : completer[c].pc # "undefer"
  /\ cleanup = "defer" => cursor \in Slot
  /\ cleanup = "pools" \/ ~pools => ring = {}

(* What ring_cleanup_deferred counts.                                      *)
Marked    == {s \in Slot : inUse[s] = 2}
Deferring == {c \in Completer : completer[c].pc \in {"free", "undefer"}}

DeferredIsExact ==
  cleanup \in Late =>
    deferred = Cardinality(Marked) + Cardinality(Deferring) - IF cleanup = "defer" THEN 1 ELSE 0

(* Without a packet counted when the wait ends there is none later.        *)
StaysQuiet == cleanup \in Late /\ ~timedOut => pending <= 0 /\ (Taken = {} => extra = {})

HoldersOK == NotShared /\ HeldIsLive /\ LiveIsHeld
SlotsOK   == FreesOnce /\ MarksOK
CountsOK  == PendingIsExact /\ DeferredIsExact
IInv == TypeOK /\ HoldersOK /\ SlotsOK /\ PhasesOK /\ CountsOK /\ StaysQuiet

-----------------------------------------------------------------------------
(* What is counted is finite.                                              *)
SenderState    == [pc : SenderPc, slot : 1..N+1, packet : Packet \cup {NoPacket}]
CompleterState == [pc : CompleterPc, packet : Packet \cup Foreign \cup {NoPacket}]

(* The packets, the ring and what is beyond it.                            *)
LEMMA PacketsAreFinite == IsFiniteSet(Packet)
<1>1. IsFiniteSet(Slot)
  BY SizeAssumption, FS_Interval DEF Slot
<1>2. QED
  BY <1>1, ExtraAssumption, FS_Union DEF Packet

LEMMA Sizes ==
  ASSUME inFlight \subseteq Packet
  PROVE  /\ IsFiniteSet(Sent) /\ Cardinality(Sent) \in Nat
         /\ IsFiniteSet(inFlight) /\ Cardinality(inFlight) \in Nat
         /\ IsFiniteSet(Busy) /\ Cardinality(Busy) \in Nat
         /\ IsFiniteSet(Taken) /\ Cardinality(Taken) \in Nat
         /\ Cardinality(Foreign) \in Nat /\ Cardinality(Taken) <= Cardinality(Foreign)
         /\ IsFiniteSet(Marked) /\ Cardinality(Marked) \in Nat
         /\ IsFiniteSet(Deferring) /\ Cardinality(Deferring) \in Nat
<1>1. IsFiniteSet(Sender) /\ Sent \in SUBSET Sender
  BY ActorAssumption DEF Sent
<1>2. IsFiniteSet(Completer) /\ Busy \in SUBSET Completer /\ Deferring \in SUBSET Completer
  BY ActorAssumption DEF Busy, Deferring
<1>3. IsFiniteSet(Packet) /\ Marked \in SUBSET Packet /\ inFlight \in SUBSET Packet
  BY PacketsAreFinite DEF Marked, Packet
<1>4. /\ IsFiniteSet(Sent) /\ IsFiniteSet(Busy) /\ IsFiniteSet(Deferring)
      /\ IsFiniteSet(Marked) /\ IsFiniteSet(inFlight)
  BY <1>1, <1>2, <1>3, FS_Subset
<1>5. IsFiniteSet(Foreign) /\ Taken \in SUBSET Foreign
  BY ForeignAssumption DEF Taken
<1>6. IsFiniteSet(Taken) /\ Cardinality(Taken) <= Cardinality(Foreign)
  BY <1>5, FS_Subset
<1>7. QED
  BY <1>4, <1>5, <1>6, FS_CardinalityType

(* One element more.                                                       *)
LEMMA CountUp ==
  ASSUME NEW S, NEW x, x \notin S, IsFiniteSet(S)
  PROVE  Cardinality(S \cup {x}) = Cardinality(S) + 1
BY FS_AddElement

(* One element less.                                                       *)
LEMMA CountDown ==
  ASSUME NEW S, NEW x \in S, IsFiniteSet(S)
  PROVE  Cardinality(S \ {x}) = Cardinality(S) - 1
BY FS_RemoveElement

(* What one sender does leaves the others alone.                           *)
LEMMA SenderMoves ==
  ASSUME TypeOK, NEW t \in Sender, NEW r \in SenderState, sender' = [sender EXCEPT ![t] = r]
  PROVE  /\ sender' \in [Sender -> SenderState]
         /\ sender'[t] = r
         /\ \A u \in Sender \ {t} : sender'[u] = sender[u]
BY DEF TypeOK, SenderState

(* The same of processors.                                                 *)
LEMMA CompleterMoves ==
  ASSUME TypeOK, NEW c \in Completer, NEW r \in CompleterState,
         completer' = [completer EXCEPT ![c] = r]
  PROVE  /\ completer' \in [Completer -> CompleterState]
         /\ completer'[c] = r
         /\ \A d \in Completer \ {c} : completer'[d] = completer[d]
BY DEF TypeOK, CompleterState

(* What the parts of the state are.                                        *)
LEMMA Types ==
  ASSUME TypeOK
  PROVE  /\ \A t \in Sender : /\ sender[t] \in SenderState /\ sender[t].pc \in SenderPc
                              /\ sender[t].slot \in 1..N+1
         /\ \A c \in Completer : /\ completer[c] \in CompleterState
                                 /\ completer[c].pc \in CompleterPc
         /\ IdleSender \in SenderState /\ IdleCompleter \in CompleterState
         /\ ring \subseteq Slot /\ extra \subseteq Extra /\ inFlight \subseteq Packet
         /\ \A s \in Slot : inUse[s] \in 0..2
<1>1. 1 \in 1..N+1
  BY SizeAssumption
<1>2. IdleSender \in SenderState /\ IdleCompleter \in CompleterState
  BY <1>1 DEF IdleSender, IdleCompleter, SenderState, CompleterState, SenderPc, CompleterPc
<1>3. \A t \in Sender : /\ sender[t] \in SenderState /\ sender[t].pc \in SenderPc
                        /\ sender[t].slot \in 1..N+1
  BY DEF TypeOK, SenderState
<1>4. \A c \in Completer : completer[c] \in CompleterState /\ completer[c].pc \in CompleterPc
  BY DEF TypeOK, CompleterState
<1>5. QED
  BY <1>2, <1>3, <1>4 DEF TypeOK

(* Senders run only until they have drained, and nothing is deferred then. *)
LEMMA SendersAreEarly ==
  ASSUME IInv, NEW t \in Sender, sender[t].pc # "idle"
  PROVE  /\ cleanup \in {"open", "drain"} /\ cleanup \notin Late
         /\ \A s \in Slot : ~Passed(s)
         /\ \A c \in Completer : completer[c].pc # "free"
<1>1. cleanup \in {"open", "drain"} /\ cursor = 1
  BY DEF IInv, TypeOK, CleanupPc, PhasesOK, Late
<1>2. \A s \in Slot : ~Passed(s)
  BY <1>1, SizeAssumption DEF Passed, Slot
<1>3. \A c \in Completer : completer[c].pc # "free"
  BY <1>2 DEF IInv, SlotsOK, FreesOnce, Frees
<1>4. QED
  BY <1>1, <1>2, <1>3 DEF Late

-----------------------------------------------------------------------------
(* Senders.  One that has no packet before or after changes nothing.       *)
LEMMA SenderLooks ==
  ASSUME IInv, NEW t \in Sender, NEW r \in SenderState,
         sender[t].pc \in {"idle", "scan"}, r.pc \in {"idle", "scan"},
         cleanup \in {"open", "drain"},
         sender' = [sender EXCEPT ![t] = r],
         UNCHANGED <<ringVars, ndisVars, pending, deferred, completer, cleanupVars>>
  PROVE  IInv'
<1> USE DEF IInv
<1>1. UNCHANGED <<ring, inUse, extra, inFlight, others, pending, deferred, completer, cleanup,
                  cursor, pools, timedOut>>
  BY DEF ringVars, ndisVars, cleanupVars
<1>2. /\ sender' \in [Sender -> SenderState] /\ sender'[t] = r
      /\ \A u \in Sender \ {t} : sender'[u] = sender[u]
  BY SenderMoves
<1>3. TypeOK'
  BY <1>1, <1>2 DEF TypeOK, SenderState
<1>4. /\ \A u \in Sender : SenderHas(u)' = SenderHas(u)
      /\ \A u \in Sender : SenderHas(u) => sender'[u] = sender[u]
      /\ \A p : Held(p)' = Held(p) /\ Live(p)' = Live(p)
  BY <1>1, <1>2 DEF SenderHas, CompleterHas, Held, Live
<1>5. HoldersOK'
  <2>1. NotShared'
    BY <1>1, <1>4 DEF HoldersOK, NotShared, CompleterHas
  <2>2. HeldIsLive'
    BY <1>1, <1>4 DEF HoldersOK, HeldIsLive, CompleterHas
  <2>3. LiveIsHeld'
    BY <1>1, <1>4 DEF HoldersOK, LiveIsHeld
  <2>4. QED
    BY <2>1, <2>2, <2>3 DEF HoldersOK
<1>6. SlotsOK'
  BY <1>1 DEF SlotsOK, FreesOnce, MarksOK, Frees, Passed
<1>7. PhasesOK' /\ StaysQuiet'
  BY <1>1 DEF PhasesOK, StaysQuiet, Late, Taken
<1>8. CountsOK'
  <2>1. Sent' = Sent
    BY <1>2 DEF Sent
  <2>2. QED
    BY <1>1, <2>1 DEF CountsOK, PendingIsExact, Taken, DeferredIsExact, Busy, Marked, Deferring
<1>9. QED
  BY <1>3, <1>5, <1>6, <1>7, <1>8

(* A sender starts at the first slot, ...                                  *)
LEMMA SendBeginKeeps ==
  ASSUME IInv, NEW t \in Sender, SendBegin(t)
  PROVE  IInv'
<1> DEFINE r == [sender[t] EXCEPT !.pc = "scan"]
<1>1. r \in SenderState /\ r.pc = "scan"
  BY Types DEF IInv, SenderState, SenderPc
<1>2. sender' = [sender EXCEPT ![t] = r]
  BY DEF SendBegin, IInv, TypeOK
<1> HIDE DEF r
<1>3. QED
  BY <1>1, <1>2, SenderLooks DEF SendBegin

(* ... and goes on to the next.                                            *)
LEMMA ScanOnKeeps ==
  ASSUME IInv, NEW t \in Sender, ScanOn(t)
  PROVE  IInv'
<1> DEFINE r == [sender[t] EXCEPT !.slot = sender[t].slot + 1]
<1>1. /\ sender[t].pc = "scan" /\ sender[t].slot \in 1..N
      /\ sender' = [sender EXCEPT ![t] = r]
      /\ UNCHANGED <<ringVars, ndisVars, pending, deferred, completer, cleanupVars>>
  BY DEF ScanOn, IInv, TypeOK, Slot
<1>2. sender[t].slot + 1 \in 1..N+1
  BY <1>1, SizeAssumption
<1>3. r \in SenderState /\ r.pc = "scan"
  BY <1>1, <1>2, Types DEF IInv, SenderState
<1>4. cleanup \in {"open", "drain"}
  BY <1>1, SendersAreEarly
<1> HIDE DEF r
<1>5. QED
  BY <1>1, <1>3, <1>4, SenderLooks

(* A slot or a new packet goes to the sender that claimed it.              *)
LEMMA ClaimedKeeps ==
  ASSUME IInv, NEW t \in Sender, NEW p \in Packet, sender[t].pc = "scan", Claimed(t, p),
         ~Live(p), Live(p)',
         \A q \in Packet \ {p} : Live(q)' = Live(q),
         extra' \subseteq Extra, extra' \subseteq extra \cup {p},
         inUse' \in [Slot -> 0..2], \A s \in Slot : s # p => inUse'[s] = inUse[s],
         p \in Slot => inUse'[p] = 1 /\ inUse[p] = 0,
         UNCHANGED <<ring, inFlight, others, pending, deferred, completer, cleanup, cursor, pools,
                     timedOut>>
  PROVE  IInv'
<1> USE DEF IInv
<1> DEFINE r == [sender[t] EXCEPT !.pc = "count", !.packet = p]
<1>1. r \in SenderState /\ r.pc = "count" /\ r.packet = p
  BY Types DEF SenderState, SenderPc
<1>2. sender' = [sender EXCEPT ![t] = r]
  BY DEF Claimed, TypeOK
<1> HIDE DEF r
<1>3. /\ sender' \in [Sender -> SenderState] /\ sender'[t] = r
      /\ \A u \in Sender \ {t} : sender'[u] = sender[u]
  BY <1>1, <1>2, SenderMoves
<1>4. TypeOK'
  BY <1>3 DEF TypeOK, SenderState
<1>5. /\ cleanup \in {"open", "drain"} /\ cleanup \notin Late
      /\ \A s \in Slot : ~Passed(s)
      /\ \A c \in Completer : completer[c].pc # "free"
  BY SendersAreEarly
<1>6. /\ ~SenderHas(t) /\ SenderHas(t)' /\ sender'[t].packet = p
      /\ \A u \in Sender \ {t} : SenderHas(u)' = SenderHas(u)
      /\ \A c \in Completer : CompleterHas(c)' = CompleterHas(c)
  BY <1>1, <1>3 DEF SenderHas, CompleterHas
<1>7. /\ \A u \in Sender : SenderHas(u) => sender[u].packet # p
      /\ \A c \in Completer : CompleterHas(c) => completer[c].packet # p
      /\ p \notin inFlight
  BY DEF HoldersOK, HeldIsLive
<1>8. NotShared'
  BY <1>3, <1>6, <1>7 DEF HoldersOK, NotShared
<1>9. HeldIsLive'
  <2>1. /\ \A u \in Sender : SenderHas(u) => sender[u].packet \in Packet
        /\ \A c \in Completer : CompleterHas(c) => completer[c].packet \in Packet
        /\ inFlight \subseteq Packet
    BY Types DEF HoldersOK, HeldIsLive, Live, Packet
  <2>2. QED
    BY <1>3, <1>6, <1>7, <2>1 DEF HoldersOK, HeldIsLive
<1>10. LiveIsHeld'
  <2>1. Held(p)'
    BY <1>6 DEF Held
  <2>2. \A q : Held(q) => Held(q)'
    BY <1>3, <1>6 DEF Held
  <2>3. QED
    BY <2>1, <2>2 DEF HoldersOK, LiveIsHeld
<1>11. SlotsOK'
  <2>1. \A s \in Slot : ~Passed(s)'
    BY <1>5 DEF Passed
  <2>2. \A s \in Slot : inUse'[s] # 2
    BY <1>5 DEF SlotsOK, MarksOK
  <2>3. QED
    BY <1>5, <2>1, <2>2, Types DEF SlotsOK, FreesOnce, MarksOK, Frees
<1>12. PhasesOK' /\ StaysQuiet'
  BY <1>5 DEF PhasesOK, StaysQuiet, Late
<1>13. CountsOK'
  <2>1. Sent' = Sent
    BY <1>1, <1>3 DEF Sent
  <2>2. QED
    BY <1>5, <2>1 DEF CountsOK, PendingIsExact, Taken, DeferredIsExact, Busy
<1>14. QED
  BY <1>4, <1>8, <1>9, <1>10, <1>11, <1>12, <1>13 DEF HoldersOK

(* The compare-and-swap of a free slot.                                    *)
LEMMA ClaimKeeps ==
  ASSUME IInv, NEW t \in Sender, Claim(t)
  PROVE  IInv'
<1> USE DEF IInv
<1>1. PICK s \in ring : /\ sender[t].pc = "scan" /\ inUse[s] = 0
                        /\ inUse' = [inUse EXCEPT ![s] = 1] /\ Claimed(t, s)
  BY DEF Claim
<1>2. UNCHANGED <<ring, extra, inFlight, others, pending, deferred, completer, cleanup, cursor,
                  pools, timedOut>>
  BY DEF Claim, ndisVars, cleanupVars
<1>3. ring \subseteq Slot /\ extra \subseteq Extra
  BY Types
<1>4. s \in Slot /\ s \in Packet /\ s \notin extra
  BY <1>3, ExtraAssumption DEF Packet
<1>5. /\ inUse' \in [Slot -> 0..2] /\ inUse'[s] = 1
      /\ \A q \in Slot : q # s => inUse'[q] = inUse[q]
  BY <1>1, <1>4 DEF TypeOK
<1>6. ~Live(s) /\ Live(s)'
  BY <1>1, <1>2, <1>4, <1>5 DEF Live
<1>7. \A q \in Packet \ {s} : Live(q)' = Live(q)
  BY <1>2, <1>3, <1>5 DEF Live
<1>8. extra' \subseteq Extra /\ extra' \subseteq extra \cup {s}
  BY <1>2, <1>3
<1>9. QED
  BY <1>1, <1>2, <1>4, <1>5, <1>6, <1>7, <1>8, ClaimedKeeps

(* A packet from beyond the ring, or none.                                 *)
LEMMA AllocateKeeps ==
  ASSUME IInv, NEW t \in Sender, Allocate(t)
  PROVE  IInv'
<1> USE DEF IInv
<1>1. /\ sender[t].pc = "scan"
      /\ UNCHANGED <<ring, inUse, inFlight, others, pending, deferred, completer, cleanupVars>>
  BY DEF Allocate, ndisVars
<1>2. CASE sender' = [sender EXCEPT ![t] = IdleSender] /\ UNCHANGED extra
  <2>1. IdleSender \in SenderState /\ IdleSender.pc = "idle"
    BY Types DEF IdleSender
  <2>2. cleanup \in {"open", "drain"}
    BY <1>1, SendersAreEarly
  <2>3. QED
    BY <1>1, <1>2, <2>1, <2>2, SenderLooks DEF ringVars, ndisVars
<1>3. ASSUME NEW x \in Extra \ extra, extra' = extra \cup {x}, Claimed(t, x)
      PROVE  IInv'
  <2>1. x \in Packet /\ x \notin Slot /\ x \notin ring
    BY Types, ExtraAssumption DEF Packet
  <2>2. /\ ~Live(x) /\ Live(x)'
        /\ \A q \in Packet \ {x} : Live(q)' = Live(q)
    BY <1>1, <1>3, <2>1 DEF Live
  <2>3. /\ extra' \subseteq Extra /\ extra' \subseteq extra \cup {x}
        /\ inUse' \in [Slot -> 0..2] /\ \A s \in Slot : s # x => inUse'[s] = inUse[s]
    BY <1>1, <1>3, Types DEF TypeOK
  <2>4. QED
    BY <1>1, <1>3, <2>1, <2>2, <2>3, ClaimedKeeps DEF ndisVars, cleanupVars
<1>4. QED
  BY <1>2, <1>3 DEF Allocate

(* The packet is counted first, ...                                        *)
LEMMA CountKeeps ==
  ASSUME IInv, NEW t \in Sender, Count(t)
  PROVE  IInv'
<1> USE DEF IInv
<1> DEFINE r == [sender[t] EXCEPT !.pc = "send"]
<1>1. /\ sender[t].pc = "count" /\ pending' = pending + 1
      /\ UNCHANGED <<ring, inUse, extra, inFlight, others, deferred, completer, cleanup, cursor,
                     pools, timedOut>>
  BY DEF Count, ringVars, ndisVars, cleanupVars
<1>2. r \in SenderState /\ r.pc = "send" /\ r.packet = sender[t].packet
  BY Types DEF SenderState, SenderPc
<1>3. sender' = [sender EXCEPT ![t] = r]
  BY DEF Count, TypeOK
<1> HIDE DEF r
<1>4. /\ sender' \in [Sender -> SenderState] /\ sender'[t] = r
      /\ \A u \in Sender \ {t} : sender'[u] = sender[u]
  BY <1>2, <1>3, SenderMoves
<1>5. cleanup \in {"open", "drain"} /\ cleanup \notin Late
  BY <1>1, SendersAreEarly
<1>6. TypeOK'
  <2>1. pending' \in Int /\ pending' >= -Cardinality(Foreign)
    BY <1>1, Sizes DEF TypeOK
  <2>2. QED
    BY <1>1, <1>4, <2>1 DEF TypeOK, SenderState
<1>7. /\ \A u \in Sender : SenderHas(u)' = SenderHas(u)
      /\ \A u \in Sender : sender'[u].packet = sender[u].packet
  BY <1>1, <1>2, <1>4 DEF SenderHas
<1>8. \A p : Held(p)' = Held(p) /\ Live(p)' = Live(p)
  BY <1>1, <1>7 DEF CompleterHas, Held, Live
<1>9. HoldersOK'
  <2>1. NotShared'
    BY <1>1, <1>7 DEF HoldersOK, NotShared, CompleterHas
  <2>2. HeldIsLive'
    BY <1>1, <1>7, <1>8 DEF HoldersOK, HeldIsLive, CompleterHas
  <2>3. LiveIsHeld'
    BY <1>1, <1>8 DEF HoldersOK, LiveIsHeld
  <2>4. QED
    BY <2>1, <2>2, <2>3 DEF HoldersOK
<1>10. SlotsOK'
  BY <1>1 DEF SlotsOK, FreesOnce, MarksOK, Frees, Passed
<1>11. PhasesOK' /\ StaysQuiet'
  BY <1>1, <1>5 DEF PhasesOK, StaysQuiet, Late
<1>12. CountsOK'
  <2>1. Sent' = Sent \cup {t} /\ t \notin Sent
    BY <1>1, <1>2, <1>4 DEF Sent
  <2>2. Cardinality(Sent') = Cardinality(Sent) + 1
    BY <2>1, Sizes, CountUp DEF TypeOK
  <2>3. PendingIsExact'
    BY <1>1, <2>2, Sizes DEF CountsOK, PendingIsExact, Taken, Busy, TypeOK
  <2>4. QED
    BY <1>1, <1>5, <2>3 DEF CountsOK, DeferredIsExact
<1>13. QED
  BY <1>6, <1>9, <1>10, <1>11, <1>12

(* ... and then it is NDIS's, who may complete it at any time.             *)
LEMMA SendKeeps ==
  ASSUME IInv, NEW t \in Sender, Send(t)
  PROVE  IInv'
<1> USE DEF IInv
<1> DEFINE p == sender[t].packet
<1>1. /\ sender[t].pc = "send" /\ inFlight' = inFlight \cup {p}
      /\ sender' = [sender EXCEPT ![t] = IdleSender]
      /\ UNCHANGED <<ring, inUse, extra, others, pending, deferred, completer, cleanup, cursor,
                     pools, timedOut>>
  BY DEF Send, ringVars, ndisVars, cleanupVars
<1>2. /\ sender' \in [Sender -> SenderState] /\ sender'[t] = IdleSender
      /\ \A u \in Sender \ {t} : sender'[u] = sender[u]
  BY <1>1, Types, SenderMoves
<1>3. cleanup \in {"open", "drain"} /\ cleanup \notin Late
  BY <1>1, SendersAreEarly
<1>4. /\ SenderHas(t) /\ ~SenderHas(t)'
      /\ \A u \in Sender \ {t} : SenderHas(u)' = SenderHas(u)
      /\ \A c \in Completer : CompleterHas(c)' = CompleterHas(c)
  BY <1>1, <1>2 DEF SenderHas, CompleterHas, IdleSender
<1>5. p \in Packet /\ p \notin inFlight /\ Live(p)
  BY <1>4, Types DEF HoldersOK, NotShared, HeldIsLive, Live, Packet
<1> HIDE DEF p
<1>6. TypeOK'
  BY <1>1, <1>2, <1>5 DEF TypeOK, SenderState
<1>7. \A q : Live(q)' = Live(q)
  BY <1>1 DEF Live
<1>8. NotShared'
  BY <1>1, <1>2, <1>4 DEF HoldersOK, NotShared, p
<1>9. HeldIsLive'
  BY <1>1, <1>2, <1>4, <1>5, <1>7 DEF HoldersOK, HeldIsLive
<1>10. LiveIsHeld'
  <2>1. \A q : Held(q) => Held(q)'
    BY <1>1, <1>2, <1>4 DEF Held, p
  <2>2. QED
    BY <1>1, <2>1 DEF HoldersOK, LiveIsHeld
<1>11. SlotsOK'
  BY <1>1 DEF SlotsOK, FreesOnce, MarksOK, Frees, Passed
<1>12. PhasesOK' /\ StaysQuiet'
  BY <1>1, <1>3 DEF PhasesOK, StaysQuiet, Late
<1>13. CountsOK'
  <2>1. Sent' = Sent \ {t} /\ t \in Sent
    BY <1>1, <1>2 DEF Sent, IdleSender
  <2>2. Cardinality(Sent') = Cardinality(Sent) - 1
    BY <2>1, Sizes, CountDown DEF TypeOK
  <2>3. Cardinality(inFlight') = Cardinality(inFlight) + 1
    BY <1>1, <1>5, Sizes, CountUp DEF TypeOK
  <2>4. PendingIsExact'
    BY <1>1, <2>2, <2>3, Sizes DEF CountsOK, PendingIsExact, Taken, Busy, TypeOK
  <2>5. QED
    BY <1>1, <1>3, <2>4 DEF CountsOK, DeferredIsExact
<1>14. QED
  BY <1>6, <1>8, <1>9, <1>10, <1>11, <1>12, <1>13 DEF HoldersOK

-----------------------------------------------------------------------------
(* Completions.  They only take off the count, and only free.              *)
LEMMA LessIsLeft ==
  ASSUME IInv, UNCHANGED <<cleanup, timedOut>>, pending' \in {pending, pending - 1},
         others' \subseteq others, extra' \subseteq extra
  PROVE  StaysQuiet'
<1> SUFFICES ASSUME cleanup \in Late, ~timedOut PROVE pending' <= 0 /\ (Taken' = {} => extra' = {})
  BY DEF StaysQuiet
<1>1. pending <= 0 /\ (Taken = {} => extra = {}) /\ pending \in Int
  BY DEF IInv, TypeOK, StaysQuiet
<1>2. Taken \subseteq Taken'
  BY DEF Taken
<1>3. QED
  BY <1>1, <1>2

(* A step that has no packet of the driver's and frees no slot.            *)
LEMMA AsideKeeps ==
  ASSUME IInv, NEW c \in Completer,
         ~CompleterHas(c), ~CompleterHas(c)',
         completer[c].pc # "free", completer'[c].pc # "free",
         \A d \in Completer \ {c} : completer'[d] = completer[d],
         UNCHANGED <<ring, inUse, extra, inFlight, sender, cleanup, cursor, pools>>
  PROVE  HoldersOK' /\ SlotsOK'
<1> USE DEF IInv
<1>1. /\ \A d \in Completer : CompleterHas(d)' = CompleterHas(d)
      /\ \A d \in Completer : CompleterHas(d) => completer'[d] = completer[d]
      /\ \A t \in Sender : SenderHas(t)' = SenderHas(t)
      /\ \A q : Live(q)' = Live(q)
  BY DEF CompleterHas, SenderHas, Live
<1>2. NotShared'
  BY <1>1 DEF HoldersOK, NotShared
<1>3. HeldIsLive'
  BY <1>1 DEF HoldersOK, HeldIsLive
<1>4. \A q : Held(q) => Held(q)'
  BY <1>1 DEF Held
<1>5. LiveIsHeld'
  BY <1>4 DEF HoldersOK, LiveIsHeld
<1>6. /\ \A d \in Completer, q \in Slot : Frees(d, q)' = Frees(d, q)
      /\ \A q \in Slot : Passed(q)' = Passed(q)
  BY DEF Frees, Passed
<1>7. FreesOnce'
  BY <1>6 DEF SlotsOK, FreesOnce
<1>8. MarksOK'
  BY <1>6, Types DEF SlotsOK, MarksOK
<1>9. QED
  BY <1>2, <1>3, <1>5, <1>7, <1>8 DEF HoldersOK, SlotsOK

(* NDIS gives a packet to the processor that completes it.                 *)
LEMMA CompleteOwnKeeps ==
  ASSUME IInv, NEW c \in Completer, CompleteBegin(c), NEW p \in inFlight,
         inFlight' = inFlight \ {p}, others' = others \ {p},
         completer' = [completer EXCEPT ![c] = [pc |-> "return", packet |-> p]]
  PROVE  IInv'
<1> USE DEF IInv
<1>1. p \in Packet /\ UNCHANGED others
  BY ForeignAssumption DEF TypeOK
<1>2. /\ completer[c].pc = "idle"
      /\ UNCHANGED <<ring, inUse, extra, pending, deferred, sender, cleanup, cursor, pools,
                     timedOut>>
  BY DEF CompleteBegin, ringVars, cleanupVars
<1> DEFINE r == [pc |-> "return", packet |-> p]
<1>3. r \in CompleterState
  BY <1>1 DEF CompleterState, CompleterPc
<1>4. /\ completer' \in [Completer -> CompleterState] /\ completer'[c] = r
      /\ \A d \in Completer \ {c} : completer'[d] = completer[d]
  BY <1>1, <1>3, CompleterMoves
<1>5. TypeOK'
  BY <1>1, <1>2, <1>4 DEF TypeOK, CompleterState
<1>6. /\ ~CompleterHas(c) /\ CompleterHas(c)' /\ completer'[c].packet = p
      /\ \A d \in Completer \ {c} : CompleterHas(d)' = CompleterHas(d)
      /\ \A t \in Sender : SenderHas(t)' = SenderHas(t)
      /\ \A q : Live(q)' = Live(q)
  BY <1>1, <1>2, <1>4 DEF CompleterHas, SenderHas, Live
<1>7. NotShared'
  BY <1>1, <1>2, <1>4, <1>6 DEF HoldersOK, NotShared
<1>8. HeldIsLive'
  BY <1>1, <1>2, <1>4, <1>6 DEF HoldersOK, HeldIsLive
<1>9. LiveIsHeld'
  <2>1. \A q : Held(q) => Held(q)'
    BY <1>1, <1>2, <1>4, <1>6 DEF Held
  <2>2. QED
    BY <1>2, <2>1 DEF HoldersOK, LiveIsHeld
<1>10. \A d \in Completer, s \in Slot : Frees(d, s)' = Frees(d, s)
  BY <1>2, <1>4 DEF Frees
<1>11. SlotsOK'
  <2>1. FreesOnce'
    BY <1>2, <1>4, <1>10 DEF SlotsOK, FreesOnce, Passed
  <2>2. MarksOK'
    BY <1>2, <1>10, Types DEF SlotsOK, MarksOK, Passed
  <2>3. QED
    BY <2>1, <2>2 DEF SlotsOK
<1>12. PhasesOK' /\ StaysQuiet'
  BY <1>1, <1>2, <1>4, LessIsLeft DEF PhasesOK, Late
<1>13. CountsOK'
  <2>1. Busy' = Busy \cup {c} /\ c \notin Busy
    BY <1>2, <1>4 DEF Busy
  <2>2. Cardinality(Busy') = Cardinality(Busy) + 1
    BY <2>1, Sizes, CountUp DEF TypeOK
  <2>3. Cardinality(inFlight') = Cardinality(inFlight) - 1
    BY <1>1, Sizes, CountDown DEF TypeOK
  <2>4. Sent' = Sent /\ Taken' = Taken /\ pending' = pending
    BY <1>1, <1>2 DEF Sent, Taken
  <2>5. PendingIsExact'
    BY <2>2, <2>3, <2>4, Sizes DEF CountsOK, PendingIsExact, TypeOK
  <2>6. Deferring' = Deferring
    BY <1>2, <1>4 DEF Deferring
  <2>7. QED
    BY <1>2, <2>5, <2>6 DEF CountsOK, DeferredIsExact, Marked, Late
<1>14. QED
  BY <1>5, <1>7, <1>8, <1>9, <1>11, <1>12, <1>13 DEF HoldersOK

(* A frame of another sender is uncounted, for good, once it is taken.     *)
LEMMA CompleteForeignKeeps ==
  ASSUME IInv, NEW c \in Completer, CompleteBegin(c), NEW p \in others,
         inFlight' = inFlight \ {p}, others' = others \ {p},
         completer' = [completer EXCEPT ![c] = [pc |-> "return", packet |-> p]]
  PROVE  IInv'
<1> USE DEF IInv
<1>1. p \in Foreign /\ p \notin Packet /\ UNCHANGED inFlight
  BY ForeignAssumption DEF TypeOK
<1>2. /\ completer[c].pc = "idle"
      /\ UNCHANGED <<ring, inUse, extra, pending, deferred, sender, cleanup, cursor, pools,
                     timedOut>>
  BY DEF CompleteBegin, ringVars, cleanupVars
<1> DEFINE r == [pc |-> "return", packet |-> p]
<1>3. r \in CompleterState
  BY <1>1 DEF CompleterState, CompleterPc
<1>4. /\ completer' \in [Completer -> CompleterState] /\ completer'[c] = r
      /\ \A d \in Completer \ {c} : completer'[d] = completer[d]
  BY <1>3, CompleterMoves
<1>5. TypeOK'
  BY <1>1, <1>2, <1>4 DEF TypeOK, CompleterState
<1>6. ~CompleterHas(c) /\ ~CompleterHas(c)'
  BY <1>1, <1>2, <1>4 DEF CompleterHas
<1>7. HoldersOK' /\ SlotsOK'
  BY <1>1, <1>2, <1>4, <1>6, AsideKeeps
<1>8. PhasesOK' /\ StaysQuiet'
  BY <1>2, <1>4, LessIsLeft DEF PhasesOK, Late
<1>9. CountsOK'
  <2>1. Busy' = Busy \cup {c} /\ c \notin Busy
    BY <1>2, <1>4 DEF Busy
  <2>2. Taken' = Taken \cup {p} /\ p \notin Taken
    BY <1>1 DEF Taken
  <2>3. /\ Cardinality(Busy') = Cardinality(Busy) + 1
        /\ Cardinality(Taken') = Cardinality(Taken) + 1
    BY <2>1, <2>2, Sizes, CountUp DEF TypeOK
  <2>4. /\ pending' = pending
        /\ Cardinality(Sent') = Cardinality(Sent)
        /\ Cardinality(inFlight') = Cardinality(inFlight)
    BY <1>1, <1>2 DEF Sent
  <2>5. PendingIsExact'
    BY <2>3, <2>4, Sizes DEF CountsOK, PendingIsExact, TypeOK
  <2>6. Deferring' = Deferring
    BY <1>2, <1>4 DEF Deferring
  <2>7. QED
    BY <1>2, <2>5, <2>6 DEF CountsOK, DeferredIsExact, Marked, Late
<1>10. QED
  BY <1>5, <1>7, <1>8, <1>9

(* A slot comes back, marked or not.                                       *)
LEMMA ReturnSlotKeeps ==
  ASSUME IInv, NEW c \in Completer, ReturnSlot(c)
  PROVE  IInv'
<1> USE DEF IInv
<1>1. PICK s \in Slot :
        /\ completer[c].pc = "return" /\ completer[c].packet = s
        /\ inUse' = [inUse EXCEPT ![s] = 0]
        /\ Goto(c, IF inUse[s] = 2 THEN "free" ELSE "uncount")
  BY DEF ReturnSlot, Completing
<1>2. UNCHANGED <<ring, extra, inFlight, others, pending, deferred, sender, cleanup, cursor,
                  pools, timedOut>>
  BY DEF ReturnSlot, ndisVars, cleanupVars
<1> DEFINE pc == IF inUse[s] = 2 THEN "free" ELSE "uncount"
           r == [completer[c] EXCEPT !.pc = pc]
<1>3. r \in CompleterState /\ r.pc = pc /\ r.packet = s
  BY <1>1, Types DEF CompleterState, CompleterPc
<1>4. completer' = [completer EXCEPT ![c] = r]
  BY <1>1 DEF Goto, TypeOK
<1> HIDE DEF r
<1>5. /\ completer' \in [Completer -> CompleterState] /\ completer'[c] = r
      /\ \A d \in Completer \ {c} : completer'[d] = completer[d]
  BY <1>3, <1>4, CompleterMoves
<1>6. /\ inUse' \in [Slot -> 0..2] /\ inUse'[s] = 0
      /\ \A q \in Slot \ {s} : inUse'[q] = inUse[q]
  BY <1>1 DEF TypeOK
<1>7. TypeOK'
  BY <1>2, <1>5, <1>6 DEF TypeOK, CompleterState
<1>8. /\ CompleterHas(c) /\ ~CompleterHas(c)'
      /\ \A d \in Completer \ {c} : CompleterHas(d)' = CompleterHas(d)
      /\ \A t \in Sender : SenderHas(t)' = SenderHas(t)
  BY <1>1, <1>2, <1>3, <1>5 DEF CompleterHas, SenderHas, Packet
<1>9. /\ s \in ring /\ inUse[s] # 0
      /\ \A q \in Packet \ {s} : Live(q)' = Live(q)
  <2>1. s \notin extra /\ Live(s)
    BY <1>1, <1>8, Types, ExtraAssumption DEF HoldersOK, HeldIsLive
  <2>2. \A q \in Packet \ {s} : Live(q)' = Live(q)
    BY <1>2, <1>6, Types DEF Live
  <2>3. QED
    BY <2>1, <2>2 DEF Live
<1>10. HoldersOK'
  <2>1. NotShared'
    BY <1>2, <1>5, <1>8 DEF HoldersOK, NotShared
  <2>2. /\ \A t \in Sender : SenderHas(t) => sender[t].packet \in Packet \ {s}
        /\ \A d \in Completer \ {c} : CompleterHas(d) => completer[d].packet \in Packet \ {s}
        /\ inFlight \subseteq Packet \ {s}
    BY <1>1, <1>8, Types DEF HoldersOK, NotShared, HeldIsLive, Live, Packet
  <2>3. HeldIsLive'
    BY <1>2, <1>5, <1>8, <1>9, <2>2 DEF HoldersOK, HeldIsLive
  <2>4. \A q : q # s /\ Held(q) => Held(q)'
    BY <1>1, <1>2, <1>5, <1>8 DEF Held
  <2>5. LiveIsHeld'
    BY <1>1, <1>2, <1>6, <2>4, Types, ExtraAssumption DEF HoldersOK, LiveIsHeld
  <2>6. QED
    BY <2>1, <2>3, <2>5 DEF HoldersOK
<1>11. /\ \A d \in Completer : ~Frees(d, s)
       /\ \A d \in Completer \ {c}, q \in Slot : Frees(d, q)' = Frees(d, q)
       /\ \A q \in Slot : ~Frees(c, q)
       /\ \A q \in Slot : Passed(q)' = Passed(q)
  BY <1>1, <1>2, <1>5, <1>9 DEF SlotsOK, FreesOnce, Frees, Passed
<1>12. \A q \in Slot : Frees(c, q)' <=> (q = s /\ inUse[s] = 2)
  BY <1>3, <1>5 DEF Frees
<1>13. SlotsOK'
  <2>1. ASSUME NEW d \in Completer, NEW q \in Slot, Frees(d, q)'
        PROVE  q \in ring /\ inUse'[q] = 0 /\ Passed(q)
    <3>1. CASE d = c
      BY <1>6, <1>9, <1>12, <2>1, <3>1 DEF SlotsOK, MarksOK
    <3>2. CASE d # c
      BY <1>6, <1>11, <2>1, <3>2 DEF SlotsOK, FreesOnce
    <3>3. QED
      BY <3>1, <3>2
  <2>2. \A d, e \in Completer : \A q \in Slot : Frees(d, q)' /\ Frees(e, q)' => d = e
    BY <1>11, <1>12 DEF SlotsOK, FreesOnce
  <2>3. FreesOnce'
    <3>1. \A d \in Completer : completer'[d].pc = "free" => completer'[d].packet \in Slot
      BY <1>1, <1>3, <1>5 DEF SlotsOK, FreesOnce
    <3>2. QED
      BY <1>2, <1>11, <2>1, <2>2, <3>1 DEF FreesOnce
  <2>4. \A q \in Slot : inUse'[q] = 2 => Passed(q)'
    BY <1>6, <1>11 DEF SlotsOK, MarksOK
  <2>5. ASSUME NEW q \in ring, Passed(q)
        PROVE  inUse'[q] = 2 \/ \E d \in Completer : Frees(d, q)'
    <3>1. CASE q = s
      BY <1>11, <1>12, <2>5, <3>1 DEF SlotsOK, MarksOK
    <3>2. CASE q # s
      BY <1>6, <1>11, <2>5, <3>2, Types DEF SlotsOK, MarksOK
    <3>3. QED
      BY <3>1, <3>2
  <2>6. MarksOK'
    BY <1>2, <1>11, <2>4, <2>5, Types DEF MarksOK
  <2>7. QED
    BY <2>3, <2>6 DEF SlotsOK
<1>14. PhasesOK' /\ StaysQuiet'
  BY <1>1, <1>2, <1>3, <1>5, LessIsLeft DEF PhasesOK, Late
<1>15. CountsOK'
  <2>1. Busy' = Busy
    BY <1>1, <1>3, <1>5 DEF Busy
  <2>2. PendingIsExact'
    BY <1>2, <2>1 DEF CountsOK, PendingIsExact, Taken, Sent
  <2>3. CASE inUse[s] = 2
    <3>1. Marked' = Marked \ {s} /\ s \in Marked
      BY <1>6, <2>3 DEF Marked
    <3>2. Deferring' = Deferring \cup {c} /\ c \notin Deferring
      BY <1>1, <1>3, <1>5, <2>3 DEF Deferring
    <3>3. Cardinality(Marked') = Cardinality(Marked) - 1
      BY <3>1, Sizes, CountDown DEF TypeOK
    <3>4. Cardinality(Deferring') = Cardinality(Deferring) + 1
      BY <3>2, Sizes, CountUp DEF TypeOK
    <3>5. DeferredIsExact'
      BY <1>2, <3>3, <3>4, Sizes DEF CountsOK, DeferredIsExact, Late, TypeOK
    <3>6. QED
      BY <2>2, <3>5 DEF CountsOK
  <2>4. CASE inUse[s] # 2
    <3>1. Marked' = Marked
      BY <1>6, <2>4 DEF Marked
    <3>2. Deferring' = Deferring
      BY <1>1, <1>3, <1>5, <2>4 DEF Deferring
    <3>3. QED
      BY <1>2, <2>2, <3>1, <3>2 DEF CountsOK, DeferredIsExact, Late
  <2>5. QED
    BY <2>3, <2>4
<1>16. QED
  BY <1>7, <1>10, <1>13, <1>14, <1>15

(* A packet from beyond the ring is freed.                                 *)
LEMMA FreeExtraKeeps ==
  ASSUME IInv, NEW c \in Completer, FreeExtra(c)
  PROVE  IInv'
<1> USE DEF IInv
<1>1. PICK x \in Extra :
        /\ completer[c].pc = "return" /\ completer[c].packet = x
        /\ extra' = (IF pools THEN extra \ {x} ELSE extra) /\ Goto(c, "uncount")
  BY DEF FreeExtra, Completing
<1>2. UNCHANGED <<ring, inUse, inFlight, others, pending, deferred, sender, cleanup, cursor,
                  pools, timedOut>>
  BY DEF FreeExtra, ndisVars, cleanupVars
<1> DEFINE r == [completer[c] EXCEPT !.pc = "uncount"]
<1>3. r \in CompleterState /\ r.pc = "uncount"
  BY <1>1, Types DEF CompleterState, CompleterPc
<1>4. completer' = [completer EXCEPT ![c] = r]
  BY <1>1 DEF Goto, TypeOK
<1> HIDE DEF r
<1>5. /\ completer' \in [Completer -> CompleterState] /\ completer'[c] = r
      /\ \A d \in Completer \ {c} : completer'[d] = completer[d]
  BY <1>3, <1>4, CompleterMoves
<1>6. TypeOK'
  BY <1>1, <1>2, <1>5 DEF TypeOK, CompleterState
<1>7. /\ CompleterHas(c) /\ ~CompleterHas(c)'
      /\ \A d \in Completer \ {c} : CompleterHas(d)' = CompleterHas(d)
      /\ \A t \in Sender : SenderHas(t)' = SenderHas(t)
      /\ \A q : q # x => Live(q)' = Live(q)
  BY <1>1, <1>2, <1>3, <1>5 DEF CompleterHas, SenderHas, Live, Packet
<1>8. HoldersOK'
  <2>1. NotShared'
    BY <1>2, <1>5, <1>7 DEF HoldersOK, NotShared
  <2>2. /\ \A t \in Sender : SenderHas(t) => sender[t].packet # x
        /\ \A d \in Completer \ {c} : CompleterHas(d) => completer[d].packet # x
        /\ x \notin inFlight
    BY <1>1, <1>7 DEF HoldersOK, NotShared
  <2>3. HeldIsLive'
    BY <1>2, <1>5, <1>7, <2>2 DEF HoldersOK, HeldIsLive
  <2>4. \A q : q # x /\ Held(q) => Held(q)'
    BY <1>1, <1>2, <1>5, <1>7 DEF Held
  <2>5. x \notin Slot
    BY ExtraAssumption
  <2>6. LiveIsHeld'
    BY <1>1, <1>2, <2>4, <2>5 DEF HoldersOK, LiveIsHeld
  <2>7. QED
    BY <2>1, <2>3, <2>6 DEF HoldersOK
<1>9. \A d \in Completer, s \in Slot : Frees(d, s)' = Frees(d, s)
  BY <1>1, <1>3, <1>5 DEF Frees
<1>10. SlotsOK'
  <2>1. FreesOnce'
    BY <1>2, <1>3, <1>5, <1>9 DEF SlotsOK, FreesOnce, Passed
  <2>2. MarksOK'
    BY <1>2, <1>9, Types DEF SlotsOK, MarksOK, Passed
  <2>3. QED
    BY <2>1, <2>2 DEF SlotsOK
<1>11. PhasesOK' /\ StaysQuiet'
  BY <1>1, <1>2, <1>3, <1>5, LessIsLeft DEF PhasesOK, Late
<1>12. CountsOK'
  <2>1. Busy' = Busy /\ Deferring' = Deferring
    BY <1>1, <1>3, <1>5 DEF Busy, Deferring
  <2>2. QED
    BY <1>2, <2>1 DEF CountsOK, PendingIsExact, Taken, DeferredIsExact, Sent, Marked, Late
<1>13. QED
  BY <1>6, <1>8, <1>10, <1>11, <1>12

(* A frame of another sender is freed, of which no slot knows.             *)
LEMMA FreeForeignKeeps ==
  ASSUME IInv, NEW c \in Completer, FreeForeign(c)
  PROVE  IInv'
<1> USE DEF IInv
<1> DEFINE r == [completer[c] EXCEPT !.pc = "uncount"]
<1>1. /\ completer[c].pc = "return" /\ completer[c].packet \notin Packet
      /\ UNCHANGED <<ring, inUse, extra, inFlight, others, pending, deferred, sender, cleanup,
                     cursor, pools, timedOut>>
  BY ForeignAssumption DEF FreeForeign, Completing, ringVars, ndisVars, cleanupVars
<1>2. r \in CompleterState /\ r.pc = "uncount"
  BY Types DEF CompleterState, CompleterPc
<1>3. completer' = [completer EXCEPT ![c] = r]
  BY DEF FreeForeign, Goto, TypeOK
<1> HIDE DEF r
<1>4. /\ completer' \in [Completer -> CompleterState] /\ completer'[c] = r
      /\ \A d \in Completer \ {c} : completer'[d] = completer[d]
  BY <1>2, <1>3, CompleterMoves
<1>5. TypeOK'
  BY <1>1, <1>4 DEF TypeOK, CompleterState
<1>6. ~CompleterHas(c) /\ ~CompleterHas(c)'
  BY <1>1, <1>2, <1>4 DEF CompleterHas
<1>7. HoldersOK' /\ SlotsOK'
  BY <1>1, <1>2, <1>4, <1>6, AsideKeeps
<1>8. PhasesOK' /\ StaysQuiet'
  BY <1>1, <1>2, <1>4, LessIsLeft DEF PhasesOK, Late
<1>9. CountsOK'
  <2>1. Busy' = Busy /\ Deferring' = Deferring
    BY <1>1, <1>2, <1>4 DEF Busy, Deferring
  <2>2. QED
    BY <1>1, <2>1 DEF CountsOK, PendingIsExact, Taken, DeferredIsExact, Sent, Marked, Late
<1>10. QED
  BY <1>5, <1>7, <1>8, <1>9

(* The memory of a marked slot is freed by its completion, ...             *)
LEMMA FreeSlotKeeps ==
  ASSUME IInv, NEW c \in Completer, FreeSlot(c)
  PROVE  IInv'
<1> USE DEF IInv
<1>1. PICK s \in Slot : /\ completer[c].pc = "free" /\ completer[c].packet = s
                        /\ ring' = ring \ {s} /\ Goto(c, "undefer")
  BY DEF FreeSlot, Completing, SlotsOK, FreesOnce
<1>2. UNCHANGED <<inUse, extra, inFlight, others, pending, deferred, sender, cleanup, cursor,
                  pools, timedOut>>
  BY DEF FreeSlot, ndisVars, cleanupVars
<1> DEFINE r == [completer[c] EXCEPT !.pc = "undefer"]
<1>3. r \in CompleterState /\ r.pc = "undefer"
  BY <1>1, Types DEF CompleterState, CompleterPc
<1>4. completer' = [completer EXCEPT ![c] = r]
  BY <1>1 DEF Goto, TypeOK
<1> HIDE DEF r
<1>5. /\ completer' \in [Completer -> CompleterState] /\ completer'[c] = r
      /\ \A d \in Completer \ {c} : completer'[d] = completer[d]
  BY <1>3, <1>4, CompleterMoves
<1>6. TypeOK'
  BY <1>1, <1>2, <1>5 DEF TypeOK, CompleterState
<1>7. s \in ring /\ inUse[s] = 0 /\ Passed(s)
  BY <1>1 DEF SlotsOK, FreesOnce, Frees
<1>8. /\ \A d \in Completer : CompleterHas(d)' = CompleterHas(d)
      /\ \A d \in Completer : CompleterHas(d) => completer'[d] = completer[d]
      /\ \A t \in Sender : SenderHas(t)' = SenderHas(t)
      /\ \A q : Live(q)' = Live(q)
  BY <1>1, <1>2, <1>3, <1>5, <1>7 DEF CompleterHas, SenderHas, Live
<1>9. HoldersOK'
  <2>1. NotShared'
    BY <1>2, <1>8 DEF HoldersOK, NotShared
  <2>2. HeldIsLive'
    BY <1>2, <1>8 DEF HoldersOK, HeldIsLive
  <2>3. \A q : Held(q) => Held(q)'
    BY <1>2, <1>8 DEF Held
  <2>4. LiveIsHeld'
    BY <1>2, <2>3 DEF HoldersOK, LiveIsHeld
  <2>5. QED
    BY <2>1, <2>2, <2>4 DEF HoldersOK
<1>10. /\ \A d \in Completer \ {c}, q \in Slot : Frees(d, q)' = Frees(d, q)
       /\ \A q \in Slot : ~Frees(c, q)'
       /\ \A d \in Completer \ {c} : ~Frees(d, s)
       /\ \A q \in Slot : q # s => ~Frees(c, q)
       /\ \A q \in Slot : Passed(q)' = Passed(q)
  BY <1>1, <1>2, <1>3, <1>5 DEF SlotsOK, FreesOnce, Frees, Passed
<1>11. SlotsOK'
  <2>1. FreesOnce'
    BY <1>1, <1>2, <1>3, <1>5, <1>10 DEF SlotsOK, FreesOnce
  <2>2. MarksOK'
    BY <1>1, <1>2, <1>10, Types DEF SlotsOK, MarksOK
  <2>3. QED
    BY <2>1, <2>2 DEF SlotsOK
<1>12. cleanup \in Late
  BY <1>7, SizeAssumption DEF PhasesOK, TypeOK, CleanupPc, Late, Passed, Slot
<1>13. PhasesOK' /\ StaysQuiet'
  BY <1>1, <1>2, <1>12, LessIsLeft DEF PhasesOK, Late
<1>14. CountsOK'
  <2>1. Busy' = Busy /\ Deferring' = Deferring
    BY <1>1, <1>3, <1>5 DEF Busy, Deferring
  <2>2. QED
    BY <1>2, <2>1 DEF CountsOK, PendingIsExact, Taken, DeferredIsExact, Sent, Marked, Late
<1>15. QED
  BY <1>6, <1>9, <1>11, <1>13, <1>14

(* ... which then takes it off the count of the deferred slots, ...        *)
LEMMA UndeferKeeps ==
  ASSUME IInv, NEW c \in Completer, Undefer(c)
  PROVE  IInv'
<1> USE DEF IInv
<1> DEFINE r == [completer[c] EXCEPT !.pc = "uncount"]
<1>1. /\ completer[c].pc = "undefer" /\ deferred' = deferred - 1
      /\ UNCHANGED <<ring, inUse, extra, inFlight, others, pending, sender, cleanup, cursor,
                     pools, timedOut>>
  BY DEF Undefer, Completing, ringVars, ndisVars, cleanupVars
<1>2. r \in CompleterState /\ r.pc = "uncount"
  BY Types DEF CompleterState, CompleterPc
<1>3. completer' = [completer EXCEPT ![c] = r]
  BY DEF Undefer, Goto, TypeOK
<1> HIDE DEF r
<1>4. /\ completer' \in [Completer -> CompleterState] /\ completer'[c] = r
      /\ \A d \in Completer \ {c} : completer'[d] = completer[d]
  BY <1>2, <1>3, CompleterMoves
<1>5. TypeOK'
  BY <1>1, <1>4 DEF TypeOK, CompleterState
<1>6. HoldersOK' /\ SlotsOK'
  BY <1>1, <1>2, <1>4, AsideKeeps DEF CompleterHas
<1>7. PhasesOK' /\ StaysQuiet'
  BY <1>1, <1>2, <1>4, LessIsLeft DEF PhasesOK, Late
<1>8. CountsOK'
  <2>1. Busy' = Busy
    BY <1>1, <1>2, <1>4 DEF Busy
  <2>2. Deferring' = Deferring \ {c} /\ c \in Deferring
    BY <1>1, <1>2, <1>4 DEF Deferring
  <2>3. Cardinality(Deferring') = Cardinality(Deferring) - 1
    BY <2>2, Sizes, CountDown DEF TypeOK
  <2>4. DeferredIsExact'
    BY <1>1, <2>3, Sizes DEF CountsOK, DeferredIsExact, Marked, Late, TypeOK
  <2>5. QED
    BY <1>1, <2>1, <2>4 DEF CountsOK, PendingIsExact, Taken, Sent
<1>9. QED
  BY <1>5, <1>6, <1>7, <1>8

(* ... and any completion takes one off that of the packets.               *)
LEMMA UncountKeeps ==
  ASSUME IInv, NEW c \in Completer, Uncount(c)
  PROVE  IInv'
<1> USE DEF IInv
<1>1. /\ completer[c].pc = "uncount" /\ pending' = pending - 1
      /\ completer' = [completer EXCEPT ![c] = IdleCompleter]
      /\ UNCHANGED <<ring, inUse, extra, inFlight, others, deferred, sender, cleanup, cursor,
                     pools, timedOut>>
  BY DEF Uncount, Completing, ringVars, ndisVars, cleanupVars
<1>2. /\ completer' \in [Completer -> CompleterState] /\ completer'[c] = IdleCompleter
      /\ \A d \in Completer \ {c} : completer'[d] = completer[d]
      /\ IdleCompleter.pc = "idle"
  BY <1>1, Types, CompleterMoves DEF IdleCompleter
<1>3. HoldersOK' /\ SlotsOK'
  BY <1>1, <1>2, AsideKeeps DEF CompleterHas
<1>4. PhasesOK' /\ StaysQuiet'
  BY <1>1, <1>2, LessIsLeft DEF PhasesOK, Late
<1>5. CountsOK' /\ pending' \in Int /\ pending' >= -Cardinality(Foreign)
  <2>1. Busy' = Busy \ {c} /\ c \in Busy
    BY <1>1, <1>2 DEF Busy
  <2>2. Deferring' = Deferring
    BY <1>1, <1>2 DEF Deferring
  <2>3. Cardinality(Busy') = Cardinality(Busy) - 1
    BY <2>1, Sizes, CountDown DEF TypeOK
  <2>4. IsFiniteSet(Busy') /\ Cardinality(Busy') \in Nat
    <3>1. IsFiniteSet(Busy')
      BY <2>1, Sizes, FS_RemoveElement DEF TypeOK
    <3>2. QED
      BY <3>1, FS_CardinalityType
  <2>5. /\ pending' = Cardinality(Sent) + Cardinality(inFlight) + Cardinality(Busy')
                     - Cardinality(Taken)
        /\ pending' \in Int /\ pending' >= -Cardinality(Foreign)
    BY <1>1, <2>3, <2>4, Sizes DEF CountsOK, PendingIsExact, Taken, TypeOK
  <2>6. QED
    BY <1>1, <2>2, <2>5 DEF CountsOK, PendingIsExact, Taken, DeferredIsExact, Sent, Marked, Late
<1>6. TypeOK'
  BY <1>1, <1>2, <1>5 DEF TypeOK, CompleterState
<1>7. QED
  BY <1>3, <1>4, <1>5, <1>6

-----------------------------------------------------------------------------
(* FilterDetach and AvbCleanupDevice.  The drain only waits, ...           *)
LEMMA DrainKeeps ==
  ASSUME IInv, Detach \/ Drained
  PROVE  IInv'
<1> USE DEF IInv
<1>1. /\ UNCHANGED <<ring, inUse, extra, inFlight, others, pending, deferred, sender, completer,
                     cursor, pools, timedOut>>
      /\ cleanup \in {"open", "drain"} /\ cleanup' \in {"drain", "wait"}
      /\ cleanup' = "wait" => \A t \in Sender : sender[t].pc = "idle"
  BY DEF Detach, Drained, ringVars, ndisVars
<1>2. TypeOK'
  BY <1>1 DEF TypeOK, CleanupPc
<1>3. HoldersOK'
  BY <1>1 DEF HoldersOK, NotShared, HeldIsLive, LiveIsHeld, Held, Live, SenderHas, CompleterHas
<1>4. SlotsOK'
  BY <1>1 DEF SlotsOK, FreesOnce, MarksOK, Frees, Passed
<1>5. PhasesOK' /\ StaysQuiet'
  BY <1>1 DEF PhasesOK, StaysQuiet, Late
<1>6. CountsOK'
  BY <1>1 DEF CountsOK, PendingIsExact, Taken, DeferredIsExact, Sent, Busy, Late
<1>7. QED
  BY <1>2, <1>3, <1>4, <1>5, <1>6

(* ... then the packets are waited for, or what the counter says of them.  *)
LEMMA WaitPendingKeeps ==
  ASSUME IInv, WaitPending
  PROVE  IInv'
<1> USE DEF IInv
<1>1. /\ cleanup = "wait" /\ cleanup' = "slots" /\ timedOut' = (pending > 0) /\ deferred' = 0
      /\ UNCHANGED <<ring, inUse, extra, inFlight, others, pending, sender, completer, cursor,
                     pools>>
  BY DEF WaitPending, ringVars, ndisVars
<1>2. /\ cursor = 1 /\ \A t \in Sender : sender[t].pc = "idle"
      /\ \A c \in Completer : completer[c].pc # "undefer"
  BY <1>1 DEF PhasesOK
<1>3. \A s \in Slot : ~Passed(s) /\ ~Passed(s)'
  BY <1>1, <1>2, SizeAssumption DEF Passed, Slot
<1>4. TypeOK'
  BY <1>1 DEF TypeOK, CleanupPc
<1>5. HoldersOK'
  BY <1>1 DEF HoldersOK, NotShared, HeldIsLive, LiveIsHeld, Held, Live, SenderHas, CompleterHas
<1>6. SlotsOK'
  BY <1>1, <1>3, Types DEF SlotsOK, FreesOnce, MarksOK, Frees
<1>7. PhasesOK'
  BY <1>1, <1>2 DEF PhasesOK, Late
<1>8. CountsOK'
  <2>1. Marked = {} /\ Deferring = {}
    BY <1>2, <1>3 DEF SlotsOK, FreesOnce, MarksOK, Frees, Marked, Deferring
  <2>2. Marked' = {} /\ Deferring' = {}
    BY <1>1, <2>1 DEF Marked, Deferring
  <2>3. DeferredIsExact'
    BY <1>1, <2>2, FS_EmptySet DEF DeferredIsExact
  <2>4. QED
    BY <1>1, <2>3 DEF CountsOK, PendingIsExact, Taken, Sent, Busy
<1>9. StaysQuiet'
  <2>1. SUFFICES ASSUME ~(pending > 0) PROVE pending <= 0 /\ (Taken = {} => extra = {})
    BY <1>1 DEF StaysQuiet, Taken
  <2>2. pending <= 0
    BY <2>1 DEF TypeOK
  <2>3. ASSUME Taken = {} PROVE extra = {}
    <3>1. Cardinality(Taken) = 0 /\ Cardinality(Sent) = 0
      <4>1. Sent = {}
        BY <1>2 DEF Sent
      <4>2. QED
        BY <2>3, <4>1, FS_EmptySet
    <3>2. Cardinality(inFlight) = 0 /\ Cardinality(Busy) = 0
      BY <2>2, <3>1, Sizes DEF CountsOK, PendingIsExact, TypeOK
    <3>3. inFlight = {} /\ Busy = {}
      BY <3>2, Sizes, FS_EmptySet DEF TypeOK
    <3>4. \A c \in Completer : completer[c].pc = "idle"
      BY <3>3 DEF Busy
    <3>5. QED
      BY <1>1, <1>2, <3>3, <3>4 DEF PhasesOK, HoldersOK, LiveIsHeld, Held, SenderHas, CompleterHas
  <2>4. QED
    BY <2>2, <2>3
<1>10. QED
  BY <1>4, <1>5, <1>6, <1>7, <1>8, <1>9

(* A free slot is nobody's when its memory is freed.                       *)
LEMMA CleanSlotKeeps ==
  ASSUME IInv, CleanSlot
  PROVE  IInv'
<1> USE DEF IInv
<1>1. /\ cleanup = "slots" /\ cursor \in Slot /\ inUse[cursor] # 1
      /\ ring' = ring \ {cursor} /\ cursor' = cursor + 1
      /\ UNCHANGED <<inUse, extra, inFlight, others, pending, deferred, sender, completer,
                     cleanup, pools, timedOut>>
  BY DEF CleanSlot, ndisVars
<1>2. /\ cursor' \in 1..N+1 /\ ~Passed(cursor)
      /\ \A s \in Slot : Passed(s)' <=> s = cursor \/ Passed(s)
  BY <1>1, SizeAssumption DEF Passed, Slot
<1>3. TypeOK'
  BY <1>1, <1>2 DEF TypeOK
<1>4. inUse[cursor] = 0
  <2>1. inUse[cursor] # 2
    BY <1>1, <1>2 DEF SlotsOK, MarksOK
  <2>2. QED
    BY <1>1, <2>1, Types
<1>5. \A q : Live(q)' = Live(q)
  BY <1>1, <1>4 DEF Live
<1>6. HoldersOK'
  BY <1>1, <1>5 DEF HoldersOK, NotShared, HeldIsLive, LiveIsHeld, Held, SenderHas, CompleterHas
<1>7. \A c \in Completer, s \in Slot : /\ Frees(c, s)' = Frees(c, s)
                                       /\ Frees(c, s) => s # cursor
  BY <1>1, <1>2 DEF SlotsOK, FreesOnce, Frees
<1>8. SlotsOK'
  <2>1. FreesOnce'
    BY <1>1, <1>2, <1>7 DEF SlotsOK, FreesOnce
  <2>2. MarksOK'
    BY <1>1, <1>2, <1>7, Types DEF SlotsOK, MarksOK
  <2>3. QED
    BY <2>1, <2>2 DEF SlotsOK
<1>9. PhasesOK' /\ StaysQuiet'
  BY <1>1 DEF PhasesOK, StaysQuiet, Taken, Late
<1>10. CountsOK'
  BY <1>1 DEF CountsOK, PendingIsExact, Taken, DeferredIsExact, Sent, Busy, Marked, Deferring, Late
<1>11. QED
  BY <1>3, <1>6, <1>8, <1>9, <1>10

(* One in flight is marked first ...                                       *)
LEMMA DeferSlotKeeps ==
  ASSUME IInv, DeferSlot
  PROVE  IInv'
<1> USE DEF IInv
<1>1. /\ cleanup = "slots" /\ cleanup' = "defer" /\ cursor \in Slot /\ inUse[cursor] = 1
      /\ inUse' = [inUse EXCEPT ![cursor] = 2]
      /\ UNCHANGED <<ring, extra, inFlight, others, pending, deferred, sender, completer, cursor,
                     pools, timedOut>>
  BY DEF DeferSlot, ndisVars
<1>2. /\ inUse' \in [Slot -> 0..2] /\ inUse'[cursor] = 2
      /\ \A s \in Slot \ {cursor} : inUse'[s] = inUse[s]
  BY <1>1 DEF TypeOK
<1>3. /\ ~Passed(cursor)
      /\ \A s \in Slot : Passed(s)' <=> s = cursor \/ Passed(s)
  BY <1>1, SizeAssumption DEF Passed, Slot
<1>4. TypeOK'
  BY <1>1, <1>2 DEF TypeOK, CleanupPc
<1>5. \A q : Live(q)' = Live(q)
  BY <1>1, <1>2, Types DEF Live
<1>6. HoldersOK'
  <2>1. LiveIsHeld'
    BY <1>1, <1>2 DEF HoldersOK, LiveIsHeld, Held, SenderHas, CompleterHas
  <2>2. QED
    BY <1>1, <1>5, <2>1 DEF HoldersOK, NotShared, HeldIsLive, SenderHas, CompleterHas
<1>7. \A c \in Completer, s \in Slot : /\ Frees(c, s)' = Frees(c, s)
                                       /\ Frees(c, s) => s # cursor
  BY <1>1, <1>3 DEF SlotsOK, FreesOnce, Frees
<1>8. SlotsOK'
  <2>1. FreesOnce'
    BY <1>1, <1>2, <1>3, <1>7 DEF SlotsOK, FreesOnce
  <2>2. MarksOK'
    BY <1>1, <1>2, <1>3, <1>7, Types DEF SlotsOK, MarksOK
  <2>3. QED
    BY <2>1, <2>2 DEF SlotsOK
<1>9. PhasesOK' /\ StaysQuiet'
  BY <1>1 DEF PhasesOK, StaysQuiet, Taken, Late
<1>10. CountsOK'
  <2>1. Marked' = Marked \cup {cursor} /\ cursor \notin Marked
    BY <1>1, <1>2 DEF Marked
  <2>2. Cardinality(Marked') = Cardinality(Marked) + 1
    BY <2>1, Sizes, CountUp DEF TypeOK
  <2>3. DeferredIsExact'
    BY <1>1, <2>2, Sizes DEF CountsOK, DeferredIsExact, Deferring, Late, TypeOK
  <2>4. QED
    BY <1>1, <2>3 DEF CountsOK, PendingIsExact, Taken, Sent, Busy
<1>11. QED
  BY <1>4, <1>6, <1>8, <1>9, <1>10

(* ... and then counted.                                                   *)
LEMMA CountDeferredKeeps ==
  ASSUME IInv, CountDeferred
  PROVE  IInv'
<1> USE DEF IInv
<1>1. /\ cleanup = "defer" /\ cleanup' = "slots" /\ deferred' = deferred + 1
      /\ cursor' = cursor + 1
      /\ UNCHANGED <<ring, inUse, extra, inFlight, others, pending, sender, completer, pools,
                     timedOut>>
  BY DEF CountDeferred, ringVars, ndisVars
<1>2. /\ cursor \in Slot /\ cursor' \in 1..N+1
      /\ \A s \in Slot : Passed(s)' <=> Passed(s)
  BY <1>1, SizeAssumption DEF PhasesOK, Passed, Slot
<1>3. TypeOK'
  BY <1>1, <1>2 DEF TypeOK, CleanupPc
<1>4. HoldersOK'
  BY <1>1 DEF HoldersOK, NotShared, HeldIsLive, LiveIsHeld, Held, Live, SenderHas, CompleterHas
<1>5. SlotsOK'
  BY <1>1, <1>2, Types DEF SlotsOK, FreesOnce, MarksOK, Frees
<1>6. PhasesOK' /\ StaysQuiet'
  BY <1>1 DEF PhasesOK, StaysQuiet, Taken, Late
<1>7. CountsOK'
  <2>1. DeferredIsExact'
    BY <1>1, Sizes DEF CountsOK, DeferredIsExact, Marked, Deferring, Late, TypeOK
  <2>2. QED
    BY <1>1, <2>1 DEF CountsOK, PendingIsExact, Taken, Sent, Busy
<1>8. QED
  BY <1>3, <1>4, <1>5, <1>6, <1>7

(* The pools go only when nothing of the ring is left, ...                 *)
LEMMA EndKeeps ==
  ASSUME IInv, WaitDeferred \/ FreePools \/ FreeContext
  PROVE  IInv'
<1> USE DEF IInv
<1>1. /\ UNCHANGED <<ring, inUse, extra, inFlight, others, pending, deferred, sender, completer,
                     cursor, timedOut>>
      /\ cleanup \in {"slots", "pools", "context"}
      /\ cleanup' \in {"pools", "context", "freed"}
      /\ pools' = pools \/ (pools' = FALSE /\ cleanup = "pools")
  BY DEF WaitDeferred, FreePools, FreeContext, ringVars, ndisVars
<1>2. TypeOK'
  BY <1>1 DEF TypeOK, CleanupPc
<1>3. HoldersOK'
  BY <1>1 DEF HoldersOK, NotShared, HeldIsLive, LiveIsHeld, Held, Live, SenderHas, CompleterHas
<1>4. SlotsOK'
  BY <1>1 DEF SlotsOK, FreesOnce, MarksOK, Frees, Passed
<1>5. cleanup' = "pools" => ring = {}
  <2>1. SUFFICES ASSUME cleanup' = "pools", NEW s \in ring PROVE FALSE
    OBVIOUS
  <2>2. cleanup = "slots" /\ cursor > N /\ ~(deferred > 0)
    BY <2>1 DEF WaitDeferred, FreePools, FreeContext
  <2>3. Cardinality(Marked) = 0 /\ Cardinality(Deferring) = 0
    BY <2>2, Sizes DEF CountsOK, DeferredIsExact, Late, TypeOK
  <2>4. Marked = {} /\ Deferring = {}
    BY <2>3, Sizes, FS_EmptySet DEF TypeOK
  <2>5. s \in Slot /\ Passed(s)
    BY <2>2, Types, SizeAssumption DEF Passed, Slot, TypeOK
  <2>6. QED
    BY <2>4, <2>5 DEF SlotsOK, MarksOK, Marked, Deferring, Frees
<1>6. PhasesOK' /\ StaysQuiet'
  BY <1>1, <1>5 DEF PhasesOK, StaysQuiet, Taken, Late
<1>7. CountsOK'
  BY <1>1 DEF CountsOK, PendingIsExact, Taken, DeferredIsExact, Sent, Busy, Marked, Deferring, Late
<1>8. QED
  BY <1>2, <1>3, <1>4, <1>6, <1>7

-----------------------------------------------------------------------------
(* The invariant is inductive.                                             *)
LEMMA StepKeeps == IInv /\ [Next]_vars => IInv'
<1> SUFFICES ASSUME IInv, [Next]_vars PROVE IInv'
  OBVIOUS
<1>1. CASE UNCHANGED vars
  <2>1. UNCHANGED <<ring, inUse, extra, inFlight, others, pending, deferred, sender, completer,
                    cleanup, cursor, pools, timedOut>>
    BY <1>1 DEF vars
  <2>2. TypeOK' /\ PhasesOK' /\ StaysQuiet'
    BY <2>1 DEF IInv, TypeOK, PhasesOK, StaysQuiet, Taken
  <2>3. HoldersOK'
    BY <2>1 DEF IInv, HoldersOK, NotShared, HeldIsLive, LiveIsHeld, Held, Live, SenderHas,
                CompleterHas
  <2>4. SlotsOK'
    BY <2>1 DEF IInv, SlotsOK, FreesOnce, MarksOK, Frees, Passed
  <2>5. CountsOK'
    BY <2>1 DEF IInv, CountsOK, PendingIsExact, Taken, DeferredIsExact, Sent, Busy, Marked,
                Deferring
  <2>6. QED
    BY <2>2, <2>3, <2>4, <2>5 DEF IInv
<1>2. ASSUME NEW t \in Sender, Sending(t) PROVE IInv'
  BY <1>2, SendBeginKeeps, ClaimKeeps, ScanOnKeeps, AllocateKeeps, CountKeeps, SendKeeps
     DEF Sending
<1>3. ASSUME NEW c \in Completer, Completion(c) PROVE IInv'
  <2>1. ASSUME CompleteBegin(c) PROVE IInv'
    BY <2>1, CompleteOwnKeeps, CompleteForeignKeeps DEF CompleteBegin
  <2>2. QED
    BY <1>3, <2>1, ReturnSlotKeeps, FreeExtraKeeps, FreeForeignKeeps, FreeSlotKeeps,
       UndeferKeeps, UncountKeeps DEF Completion
<1>4. CASE Cleanup
  BY <1>4, DrainKeeps, WaitPendingKeeps, CleanSlotKeeps, DeferSlotKeeps, CountDeferredKeeps,
     EndKeeps DEF Cleanup
<1>5. QED
  BY <1>1, <1>2, <1>3, <1>4 DEF Next

(* Initially no packet is out, and nothing is marked.                      *)
LEMMA InitIsOK == Init => IInv
<1> SUFFICES ASSUME Init PROVE IInv
  OBVIOUS
<1>1. /\ ring \subseteq Slot /\ 1 \in 1..N+1
      /\ \A s \in Slot : inUse[s] = 0
      /\ \A t \in Sender : sender[t].pc = "idle"
      /\ \A c \in Completer : completer[c].pc = "idle"
      /\ extra = {} /\ inFlight = {} /\ others = Foreign /\ pending = 0 /\ deferred = 0
      /\ cleanup = "open" /\ cursor = 1 /\ pools = TRUE
  BY SizeAssumption DEF Init, IdleSender, IdleCompleter, Slot
<1>2. TypeOK
  <2>1. IdleSender \in SenderState /\ IdleCompleter \in CompleterState
    BY <1>1 DEF IdleSender, IdleCompleter, SenderState, CompleterState, SenderPc, CompleterPc
  <2>2. sender \in [Sender -> SenderState] /\ completer \in [Completer -> CompleterState]
    BY <2>1 DEF Init
  <2>3. inUse \in [Slot -> 0..2] /\ timedOut \in BOOLEAN
    <3>1. 0 \in 0..2
      OBVIOUS
    <3>2. QED
      BY <3>1 DEF Init
  <2>4. 0 >= -Cardinality(Foreign)
    BY <1>1, Sizes
  <2>5. QED
    BY <1>1, <2>2, <2>3, <2>4 DEF TypeOK, SenderState, CompleterState, CleanupPc
<1>3. HoldersOK
  BY <1>1 DEF HoldersOK, NotShared, HeldIsLive, LiveIsHeld, SenderHas, CompleterHas
<1>4. \A s \in Slot : ~Passed(s)
  BY <1>1, SizeAssumption DEF Passed, Slot
<1>5. SlotsOK
  BY <1>1, <1>4 DEF SlotsOK, FreesOnce, MarksOK, Frees
<1>6. PhasesOK /\ StaysQuiet
  BY <1>1 DEF PhasesOK, StaysQuiet, Late
<1>7. CountsOK
  <2>1. Sent = {} /\ Busy = {} /\ Taken = {}
    BY <1>1 DEF Sent, Busy, Taken
  <2>2. QED
    BY <1>1, <2>1, FS_EmptySet DEF CountsOK, PendingIsExact, DeferredIsExact, Late
<1>8. QED
  BY <1>2, <1>3, <1>5, <1>6, <1>7 DEF IInv

(* Every part of the invariant holds in every state that is reached.       *)
THEOREM Invariance == Spec => []IInv
<1>1. Init => IInv
  BY InitIsOK
<1>2. IInv /\ [Next]_vars => IInv'
  BY StepKeeps
<1>3. QED
  BY <1>1, <1>2, PTL DEF Spec

(* Every variable has its type; test_packets_pending falls below 0, but by *)
(* no more than the PTP frames of other senders.                           *)
THEOREM TypeCorrect == Spec => []TypeOK
<1>1. IInv => TypeOK
  BY DEF IInv
<1>2. QED
  BY <1>1, Invariance, PTL

(* No two packets share the buffer of a slot, and no slot is lost.         *)
THEOREM OneHolder == Spec => []SlotsAreAccountedFor
<1>1. ASSUME IInv PROVE SlotsAreAccountedFor
  <2>1. SUFFICES ASSUME NEW s \in Slot
                 PROVE  Cardinality(Holders(s)) = IF inUse[s] = 0 THEN 0 ELSE 1
    BY DEF SlotsAreAccountedFor
  <2>2. NotShared /\ HeldIsLive /\ LiveIsHeld /\ s \notin extra
    BY <1>1, Types, ExtraAssumption DEF IInv, HoldersOK
  <2>3. \A x \in Holders(s) : Held(s)
    BY DEF Holders, SendersOf, CompletersOf, Held, SenderHas, CompleterHas, Packet
  <2>4. CASE inUse[s] = 0
    <3>1. ~Held(s)
      BY <2>2, <2>4 DEF HeldIsLive, Live, Held
    <3>2. Holders(s) = {}
      BY <2>3, <3>1
    <3>3. QED
      BY <2>4, <3>2, FS_EmptySet
  <2>5. CASE inUse[s] # 0
    <3>1. Held(s)
      BY <2>2, <2>5 DEF LiveIsHeld
    <3>2. \E x : x \in Holders(s)
      BY <3>1 DEF Holders, SendersOf, CompletersOf, Held, SenderHas, CompleterHas, Packet
    <3>3. \A x, y \in Holders(s) : x = y
      BY <2>2 DEF NotShared, Holders, SendersOf, CompletersOf, SenderHas, CompleterHas, Packet
    <3>4. PICK x : Holders(s) = {x}
      BY <3>2, <3>3
    <3>5. QED
      BY <2>5, <3>4, FS_Singleton
  <2>6. QED
    BY <2>4, <2>5
<1>2. QED
  BY <1>1, Invariance, PTL

(* The memory of a slot is not freed under whoever has it, nor twice, also *)
(* when AvbCleanupDevice has waited in vain.                               *)
THEOREM HeldIsAllocated == Spec => []HeldSlotsAreAllocated
<1>1. ASSUME IInv PROVE HeldSlotsAreAllocated
  <2>1. SUFFICES ASSUME NEW s \in Slot
                 PROVE  /\ Holders(s) # {} => s \in ring
                        /\ CompletersOf(s, {"free"}) # {} => s \in ring
                        /\ Cardinality(CompletersOf(s, {"free"})) <= 1
    BY DEF HeldSlotsAreAllocated
  <2>2. HeldIsLive /\ FreesOnce /\ s \notin extra
    BY <1>1, Types, ExtraAssumption DEF IInv, HoldersOK, SlotsOK
  <2>3. Holders(s) # {} => s \in ring
    BY <2>2 DEF HeldIsLive, Live, Holders, SendersOf, CompletersOf, SenderHas, CompleterHas, Packet
  <2>4. \A c \in CompletersOf(s, {"free"}) : c \in Completer /\ Frees(c, s)
    BY DEF CompletersOf, Frees
  <2>5. CompletersOf(s, {"free"}) # {} => s \in ring
    BY <2>2, <2>4 DEF FreesOnce
  <2>6. \A c, d \in CompletersOf(s, {"free"}) : c = d
    BY <2>2, <2>4 DEF FreesOnce
  <2>7. Cardinality(CompletersOf(s, {"free"})) <= 1
    <3>1. CASE CompletersOf(s, {"free"}) = {}
      BY <3>1, FS_EmptySet
    <3>2. CASE CompletersOf(s, {"free"}) # {}
      <4>1. PICK c : CompletersOf(s, {"free"}) = {c}
        BY <2>6, <3>2
      <4>2. Cardinality({c}) = 1
        BY FS_Singleton
      <4>3. QED
        BY <4>1, <4>2
    <3>3. QED
      BY <3>1, <3>2
  <2>8. QED
    BY <2>3, <2>5, <2>7
<1>2. QED
  BY <1>1, Invariance, PTL

(* The pools are freed after the last packet of the ring: no interleaving  *)
(* of marks, counts and completions makes ring_cleanup_deferred 0 too soon.*)
THEOREM PoolsGoLast == Spec => []PoolsOutliveRing
<1>1. IInv => PoolsOutliveRing
  BY DEF IInv, PhasesOK, PoolsOutliveRing
<1>2. QED
  BY <1>1, Invariance, PTL

(* test_packets_pending counts every test packet from before it is sent    *)
(* until its completion is over, and every frame of another sender that    *)
(* was taken for one against them.                                         *)
THEOREM PendingCounts == Spec => []PendingIsExact
<1>1. IInv => PendingIsExact
  BY DEF IInv, CountsOK
<1>2. QED
  BY <1>1, Invariance, PTL

(* When the context is freed after a wait that did not time out, no more   *)
(* packets and completions are left than frames of others were taken, ...  *)
THEOREM LittleIsLeft == Spec => []LeftWereTaken
<1>1. ASSUME IInv, cleanup = "freed", ~timedOut PROVE FewLeft
  <2>1. pending <= 0 /\ (Taken = {} => extra = {})
    BY <1>1 DEF IInv, StaysQuiet, Late
  <2>2. Sent = {}
    BY <1>1 DEF IInv, PhasesOK, Late, Sent
  <2>3. Cardinality(inFlight) + Cardinality(Busy) <= Cardinality(Taken)
    BY <1>1, <2>1, <2>2, Sizes, FS_EmptySet DEF IInv, TypeOK, CountsOK, PendingIsExact
  <2>4. QED
    BY <2>1, <2>3 DEF FewLeft
<1>2. IInv => LeftWereTaken
  BY <1>1 DEF LeftWereTaken
<1>3. QED
  BY <1>2, Invariance, PTL

(* ... so that on a host where nothing else sends PTP the wait does what   *)
(* its comment says.                                                       *)
THEOREM QuietUnlessTaken == Spec => [](Taken = {} => FreedInQuiet)
<1>1. ASSUME IInv, LeftWereTaken, Taken = {} PROVE FreedInQuiet
  <2>1. SUFFICES ASSUME cleanup = "freed", ~timedOut PROVE inFlight = {} /\ OwnBusy = {}
    BY DEF FreedInQuiet
  <2>2. Cardinality(inFlight) + Cardinality(Busy) <= 0
    BY <1>1, <2>1, FS_EmptySet DEF LeftWereTaken, FewLeft
  <2>3. inFlight = {} /\ Busy = {}
    BY <1>1, <2>2, Sizes, FS_EmptySet DEF IInv, TypeOK
  <2>4. QED
    BY <2>3 DEF OwnBusy
<1>2. QED
  BY <1>1, Invariance, LittleIsLeft, PTL
=============================================================================
