----------------------------- MODULE FilterPaths -----------------------------
(***************************************************************************)
(* What NDIS sends through one running filter: net buffer lists down and   *)
(* up, OID requests down, and the gauges that count what is outstanding.   *)
(* The gauges are changed with interlocked operations, the filter's own    *)
(* counts under its lock, and IOCTL_AVB_RESET_STATISTICS may zero the      *)
(* gauges at any time.                                                     *)
(*                                                                         *)
(* Abstracted: a chain of lists is its length; what a list holds; the      *)
(* status and the sizes of a request.  NDIS hands a filter one OID request *)
(* at a time.  A packet the filter injects itself (TestSendRing) goes down *)
(* around FilterSendNetBufferLists and completes like any other, in        *)
(* whatever state the filter is.  The build is a checked one (DBG), which   *)
(* hands back the lists that come while the filter is not running; to a    *)
(* free build every state is like running.                                 *)
(***************************************************************************)
EXTENDS Integers, FiniteSets

CONSTANTS
  Cpu,        \* processors
  MaxLists,   \* bound on the lists of both directions together
  MaxOdd      \* bound on what disturbs a gauge: resets, injected packets,
              \* receives that cannot pend, clones that fail and refusals

ASSUME CpuAssumption == IsFiniteSet(Cpu)
ASSUME BoundAssumption == {MaxLists, MaxOdd} \subseteq Nat

Path == {"send", "receive", "oid"}

VARIABLES
  running,    \* pFilter->State is FilterRunning, not Pausing or Paused
  gauge,      \* per path: stats_outstanding_send_nbls, _receive_nbls, _oids
  tracked,    \* OutstandingSends and OutstandingRcvs
  miniport,   \* lists sent that the miniport has: forwarded, injected
  protocol,   \* lists received that the protocols have
  oid,        \* the OID request of NDIS: none, called, below, completing
  clone,      \* its clone is allocated
  pendingOid, \* PendingOidRequest is that clone
  cpu,        \* per processor: where it is, with how many lists
  odd,        \* bound: how often a gauge was, or will be, disturbed
  disturbed   \* history: gauges that something changed that is not their
              \* path, and whether sends have been refused

oidVars == <<oid, clone, pendingOid>>
vars == <<running, gauge, tracked, miniport, protocol, oid, clone, pendingOid, cpu, odd, disturbed>>

(* result is what the interlocked decrement of the gauge of path returned, *)
(* and then where the processor goes from there.                           *)
Idle == [pc |-> "idle", n |-> 0, pend |-> TRUE, path |-> "send", result |-> 0, then |-> "idle"]

Init ==
  /\ running = TRUE
  /\ gauge = [p \in Path |-> 0]
  /\ tracked = [sends |-> 0, rcvs |-> 0]
  /\ miniport = [forwarded |-> 0, injected |-> 0]
  /\ protocol = 0
  /\ oid = "none" /\ clone = FALSE /\ pendingOid = FALSE
  /\ cpu = [c \in Cpu |-> Idle]
  /\ odd = 0
  /\ disturbed = {}

At(c, pc) == cpu[c].pc = pc
(* Nobody is inside FilterCancelOidRequest with the filter's lock; what    *)
(* else is done under the lock is one step.                                *)
Unlocked == \A c \in Cpu : ~At(c, "cancelRead")
Goto(c, pc) == cpu' = [cpu EXCEPT ![c] = IF pc = "idle" THEN Idle ELSE [@ EXCEPT !.pc = pc]]
Begin(c, pc, n, pend) == cpu' = [cpu EXCEPT ![c] = [Idle EXCEPT !.pc = pc, !.n = n, !.pend = pend]]
Odd(how) == IF how THEN odd < MaxOdd /\ odd' = odd + 1 ELSE UNCHANGED odd
Disturb(p, how) == disturbed' = IF how THEN disturbed \cup {p} ELSE disturbed

(* The lists of some processors, by number; those of the processors at     *)
(* pcs, or about to clamp the gauge of p.                                  *)
Lists(cs) == UNION {{c} \X (1..cpu[c].n) : c \in cs}
Where(pcs, p) == {c \in Cpu : cpu[c].pc \in pcs \/ (cpu[c].pc = "clamp" /\ cpu[c].path = p)}
Carried(pcs, p) == Cardinality(Lists(Where(pcs, p)))

(* The lists of both directions that the bound has room for.               *)
Room == 1..(MaxLists - miniport.forwarded - protocol
              - Carried({"sendCheck", "sendTrack", "sendDown", "sendComplete",
                         "receiveCheck", "receiveTrack", "indicate",
                         "receiveUntrack", "returnUntrack"}, "receive"))

(* Mutant: a chain counts as one.                                          *)
AddOne(p, n) == gauge' = [gauge EXCEPT ![p] = @ + 1]

Add(p, n) == gauge' = [gauge EXCEPT ![p] = @ + n]

(* Mutant: a chain counts as one.                                          *)
SubtractOne(c, p, n, then) ==
  LET result == gauge[p] - 1 IN
  /\ gauge' = [gauge EXCEPT ![p] = result]
  /\ IF result < 0
       THEN cpu' = [cpu EXCEPT ![c] = [Idle EXCEPT !.pc = "clamp", !.n = n, !.path = p,
                                                   !.result = result, !.then = then]]
       ELSE cpu' = [cpu EXCEPT ![c] = IF then = "idle" THEN Idle ELSE [Idle EXCEPT !.pc = then, !.n = n]]

(* The interlocked decrement, and the clamp of a negative result to zero.  *)
Subtract(c, p, n, then) ==
  LET result == gauge[p] - n IN
  /\ gauge' = [gauge EXCEPT ![p] = result]
  /\ IF result < 0
       THEN cpu' = [cpu EXCEPT ![c] = [Idle EXCEPT !.pc = "clamp", !.n = n, !.path = p,
                                                   !.result = result, !.then = then]]
       ELSE cpu' = [cpu EXCEPT ![c] = IF then = "idle" THEN Idle ELSE [Idle EXCEPT !.pc = then, !.n = n]]

Clamp(c) ==
  /\ At(c, "clamp")
  /\ gauge' = [gauge EXCEPT ![cpu[c].path] = IF @ = cpu[c].result THEN 0 ELSE @]
  /\ Goto(c, cpu[c].then)
  /\ UNCHANGED <<running, tracked, miniport, protocol, oidVars, odd, disturbed>>

-----------------------------------------------------------------------------
(* FilterPause, which stops the timers between Pausing and Paused, and     *)
(* FilterRestart.                                                          *)

Pause ==
  /\ running /\ Unlocked
  /\ running' = FALSE
  /\ UNCHANGED <<gauge, tracked, miniport, protocol, oidVars, cpu, odd, disturbed>>

Restart ==
  /\ ~running
  /\ running' = TRUE
  /\ UNCHANGED <<gauge, tracked, miniport, protocol, oidVars, cpu, odd, disturbed>>

-----------------------------------------------------------------------------
(* FilterSendNetBufferLists: count, look at the state, track, forward.     *)

SendCount(c) ==
  /\ At(c, "idle")
  /\ \E n \in Room : Add("send", n) /\ Begin(c, "sendCheck", n, TRUE)
  /\ UNCHANGED <<running, tracked, miniport, protocol, oidVars, odd, disturbed>>

SendChecked(c) ==
  /\ At(c, "sendCheck") /\ Unlocked
  /\ running
  /\ Goto(c, "sendTrack")
  /\ UNCHANGED <<running, gauge, tracked, miniport, protocol, oidVars, odd, disturbed>>

(* The lists are completed here and now, and nobody takes them off the     *)
(* gauge again.                                                            *)
SendRefused(c) ==
  /\ At(c, "sendCheck") /\ Unlocked
  /\ ~running
  /\ Goto(c, "idle")
  /\ Odd(TRUE) /\ disturbed' = disturbed \cup {"send", "refused"}
  /\ UNCHANGED <<running, gauge, tracked, miniport, protocol, oidVars>>

SendTrack(c) ==
  /\ At(c, "sendTrack") /\ Unlocked
  /\ tracked' = [tracked EXCEPT !.sends = @ + cpu[c].n]
  /\ Goto(c, "sendDown")
  /\ UNCHANGED <<running, gauge, miniport, protocol, oidVars, odd, disturbed>>

SendDown(c) ==
  /\ At(c, "sendDown")
  /\ miniport' = [miniport EXCEPT !.forwarded = @ + cpu[c].n]
  /\ Goto(c, "idle")
  /\ UNCHANGED <<running, gauge, tracked, protocol, oidVars, odd, disturbed>>

InjectDown ==
  /\ Odd(TRUE)
  /\ miniport' = [miniport EXCEPT !.injected = @ + 1]
  /\ UNCHANGED <<running, gauge, tracked, protocol, oidVars, cpu, disturbed>>

(* FilterSendNetBufferListsComplete of f forwarded and i injected lists:   *)
(* both are taken from the filter's count, then both from the gauge.       *)
CompleteTrack(c) ==
  /\ At(c, "idle") /\ Unlocked
  /\ \E f \in 0..miniport.forwarded, i \in 0..miniport.injected :
       /\ f + i > 0
       /\ miniport' = [forwarded |-> miniport.forwarded - f, injected |-> miniport.injected - i]
       /\ tracked' = [tracked EXCEPT !.sends = @ - (f + i)]
       /\ Begin(c, "sendComplete", f + i, TRUE)
       /\ Disturb("send", i > 0)
  /\ UNCHANGED <<running, gauge, protocol, oidVars, odd>>

CompleteCount(c) ==
  /\ At(c, "sendComplete")
  /\ Subtract(c, "send", cpu[c].n, "idle")
  /\ UNCHANGED <<running, tracked, miniport, protocol, oidVars, odd, disturbed>>

-----------------------------------------------------------------------------
(* FilterReceiveNetBufferLists: count, look at the state, track, indicate. *)
(* Lists that cannot pend are back when the indication returns, and are    *)
(* never returned.                                                         *)

ReceiveCount(c) ==
  /\ At(c, "idle")
  /\ \E n \in Room, pend \in BOOLEAN :
       Add("receive", n) /\ Begin(c, "receiveCheck", n, pend) /\ Odd(~pend)
  /\ UNCHANGED <<running, tracked, miniport, protocol, oidVars, disturbed>>

ReceiveChecked(c) ==
  /\ At(c, "receiveCheck") /\ Unlocked
  /\ running
  /\ Goto(c, "receiveTrack")
  /\ UNCHANGED <<running, gauge, tracked, miniport, protocol, oidVars, odd, disturbed>>

(* Returned to the miniport at once, unless they could not pend anyway.    *)
ReceiveRefused(c) ==
  /\ At(c, "receiveCheck") /\ Unlocked
  /\ ~running
  /\ Goto(c, "idle")
  /\ Odd(cpu[c].pend) /\ Disturb("receive", TRUE)
  /\ UNCHANGED <<running, gauge, tracked, miniport, protocol, oidVars>>

ReceiveTrack(c) ==
  /\ At(c, "receiveTrack") /\ Unlocked
  /\ tracked' = [tracked EXCEPT !.rcvs = @ + cpu[c].n]
  /\ Goto(c, "indicate")
  /\ UNCHANGED <<running, gauge, miniport, protocol, oidVars, odd, disturbed>>

(* Mutant: the count is taken back whether or not the lists can pend.      *)
IndicateUntracks(c) ==
  /\ At(c, "indicate")
  /\ protocol' = IF cpu[c].pend THEN protocol + cpu[c].n ELSE protocol
  /\ Goto(c, "receiveUntrack")
  /\ Disturb("receive", ~cpu[c].pend)
  /\ UNCHANGED <<running, gauge, tracked, miniport, oidVars, odd>>

(* Mutant: the count is never taken back here.                             *)
IndicateForgets(c) ==
  /\ At(c, "indicate")
  /\ protocol' = IF cpu[c].pend THEN protocol + cpu[c].n ELSE protocol
  /\ Goto(c, "idle")
  /\ Disturb("receive", ~cpu[c].pend)
  /\ UNCHANGED <<running, gauge, tracked, miniport, oidVars, odd>>

Indicate(c) ==
  /\ At(c, "indicate")
  /\ IF cpu[c].pend
       THEN protocol' = protocol + cpu[c].n /\ Goto(c, "idle")
       ELSE Goto(c, "receiveUntrack") /\ UNCHANGED protocol
  /\ Disturb("receive", ~cpu[c].pend)
  /\ UNCHANGED <<running, gauge, tracked, miniport, oidVars, odd>>

ReceiveUntrack(c) ==
  /\ At(c, "receiveUntrack") /\ Unlocked
  /\ tracked' = [tracked EXCEPT !.rcvs = @ - cpu[c].n]
  /\ Goto(c, "idle")
  /\ UNCHANGED <<running, gauge, miniport, protocol, oidVars, odd, disturbed>>

(* FilterReturnNetBufferLists: count, return, and only then untrack.       *)
ReturnCount(c) ==
  /\ At(c, "idle")
  /\ \E n \in 1..protocol :
       /\ protocol' = protocol - n
       /\ Subtract(c, "receive", n, "returnUntrack")
  /\ UNCHANGED <<running, tracked, miniport, oidVars, odd, disturbed>>

ReturnUntrack(c) ==
  /\ At(c, "returnUntrack") /\ Unlocked
  /\ tracked' = [tracked EXCEPT !.rcvs = @ - cpu[c].n]
  /\ Goto(c, "idle")
  /\ UNCHANGED <<running, gauge, miniport, protocol, oidVars, odd, disturbed>>

-----------------------------------------------------------------------------
(* FilterOidRequest: count, clone or fail, and hand the clone down.        *)

OidCount(c) ==
  /\ At(c, "idle") /\ oid = "none"
  /\ oid' = "called"
  /\ Add("oid", 1) /\ Begin(c, "oidClone", 0, TRUE)
  /\ UNCHANGED <<running, tracked, miniport, protocol, clone, pendingOid, odd, disturbed>>

OidClone(c) ==
  /\ At(c, "oidClone")
  /\ clone' = TRUE /\ pendingOid' = TRUE
  /\ Goto(c, "oidDown")
  /\ UNCHANGED <<running, gauge, tracked, miniport, protocol, oid, odd, disturbed>>

OidCloneFails(c) ==
  /\ At(c, "oidClone")
  /\ oid' = "none"
  /\ Goto(c, "idle")
  /\ Odd(TRUE) /\ Disturb("oid", TRUE)
  /\ UNCHANGED <<running, gauge, tracked, miniport, protocol, clone, pendingOid>>

OidPends(c) ==
  /\ At(c, "oidDown")
  /\ oid' = "below"
  /\ Goto(c, "idle")
  /\ UNCHANGED <<running, gauge, tracked, miniport, protocol, clone, pendingOid, odd, disturbed>>

(* FilterOidRequestComplete, called from below or, when the request did    *)
(* not pend, by FilterOidRequest: count, forget the clone, free it, and    *)
(* complete the original.                                                  *)
OidComplete(c) ==
  /\ At(c, "oidDown") \/ (At(c, "idle") /\ oid = "below")
  /\ oid' = "completing"
  /\ Subtract(c, "oid", 1, "oidClear")
  /\ UNCHANGED <<running, tracked, miniport, protocol, clone, pendingOid, odd, disturbed>>

(* Mutant: without the filter's lock.                                      *)
OidClearUnlocked(c) ==
  /\ At(c, "oidClear")
  /\ pendingOid' = FALSE
  /\ Goto(c, "oidFree")
  /\ UNCHANGED <<running, gauge, tracked, miniport, protocol, oid, clone, odd, disturbed>>

OidClear(c) ==
  /\ At(c, "oidClear") /\ Unlocked
  /\ pendingOid' = FALSE
  /\ Goto(c, "oidFree")
  /\ UNCHANGED <<running, gauge, tracked, miniport, protocol, oid, clone, odd, disturbed>>

OidFree(c) ==
  /\ At(c, "oidFree")
  /\ clone' = FALSE
  /\ Goto(c, "oidUp")
  /\ UNCHANGED <<running, gauge, tracked, miniport, protocol, oid, pendingOid, odd, disturbed>>

OidUp(c) ==
  /\ At(c, "oidUp")
  /\ oid' = "none"
  /\ Goto(c, "idle")
  /\ UNCHANGED <<running, gauge, tracked, miniport, protocol, clone, pendingOid, odd, disturbed>>

(* FilterCancelOidRequest: the clone is looked up and the original read    *)
(* from it under the lock; without one nothing is done.  A cancellation    *)
(* passed on after that only makes the miniport complete sooner what it    *)
(* may complete at any time.                                               *)
CancelLook(c) ==
  /\ At(c, "idle") /\ Unlocked
  /\ pendingOid
  /\ Goto(c, "cancelRead")
  /\ UNCHANGED <<running, gauge, tracked, miniport, protocol, oidVars, odd, disturbed>>

CancelRead(c) ==
  /\ At(c, "cancelRead")
  /\ Goto(c, "idle")
  /\ UNCHANGED <<running, gauge, tracked, miniport, protocol, oidVars, odd, disturbed>>

-----------------------------------------------------------------------------
(* IOCTL_AVB_RESET_STATISTICS, one gauge after the other.                  *)

Reset(p) ==
  /\ Odd(TRUE)
  /\ gauge' = [gauge EXCEPT ![p] = 0]
  /\ Disturb(p, TRUE)
  /\ UNCHANGED <<running, tracked, miniport, protocol, oidVars, cpu>>

Next ==
  \/ \E c \in Cpu :
       \/ SendCount(c) \/ SendChecked(c) \/ SendRefused(c) \/ SendTrack(c) \/ SendDown(c)
       \/ CompleteTrack(c) \/ CompleteCount(c)
       \/ ReceiveCount(c) \/ ReceiveChecked(c) \/ ReceiveRefused(c) \/ ReceiveTrack(c)
       \/ Indicate(c) \/ ReceiveUntrack(c)
       \/ ReturnCount(c) \/ ReturnUntrack(c)
       \/ OidCount(c) \/ OidClone(c) \/ OidCloneFails(c) \/ OidPends(c)
       \/ OidComplete(c) \/ OidClear(c) \/ OidFree(c) \/ OidUp(c)
       \/ CancelLook(c) \/ CancelRead(c)
       \/ Clamp(c)
  \/ Pause \/ Restart
  \/ InjectDown
  \/ \E p \in Path : Reset(p)

Spec == Init /\ [][Next]_vars

-----------------------------------------------------------------------------
Pcs == {"idle", "clamp", "sendCheck", "sendTrack", "sendDown", "sendComplete",
        "receiveCheck", "receiveTrack", "indicate", "receiveUntrack", "returnUntrack",
        "oidClone", "oidDown", "oidClear", "oidFree", "oidUp", "cancelRead"}
Processor == [pc : Pcs, n : Nat, pend : BOOLEAN, path : Path, result : Int,
              then : {"idle", "returnUntrack", "oidClear"}]

(* Every variable keeps its type: OutstandingRcvs never goes below zero,   *)
(* which OutstandingSends, that counts injected packets only on their way  *)
(* up, does.                                                               *)
TypeOK ==
  /\ running \in BOOLEAN
  /\ gauge \in [Path -> Int]
  /\ tracked \in [sends : Int, rcvs : Nat]
  /\ miniport \in [forwarded : Nat, injected : Nat]
  /\ protocol \in Nat
  /\ oid \in {"none", "called", "below", "completing"}
  /\ clone \in BOOLEAN /\ pendingOid \in BOOLEAN
  /\ cpu \in [Cpu -> Processor]
  /\ odd \in 0..MaxOdd
  /\ disturbed \subseteq Path \cup {"refused"}

(* What each gauge stands for.                                             *)
Outstanding ==
  [send    |-> miniport.forwarded
               + Carried({"sendCheck", "sendTrack", "sendDown", "sendComplete"}, "none"),
   receive |-> protocol + Carried({"receiveCheck", "receiveTrack", "indicate"}, "none"),
   oid     |-> IF oid \in {"called", "below"} THEN 1 ELSE 0]

(* "The gauge correctly tracks outstanding NBLs": each is exact however    *)
(* NDIS splits and merges chains, until a reset, an injected packet, a     *)
(* receive that cannot pend, a failed clone or a refusal disturbs it.      *)
GaugesAreExact == \A p \in Path \ disturbed : gauge[p] = Outstanding[p]

(* Whatever resets it and however the clamps interleave, the gauge of      *)
(* sends never reports more lists than are outstanding, unless a checked   *)
(* build has refused sends it had counted.                                 *)
SendGaugeNeverOverstates == "refused" \in disturbed \/ gauge["send"] <= Outstanding["send"]

(* OutstandingRcvs counts what the protocols have and what is on its way   *)
(* through the filter, in both directions and for both kinds of receives.  *)
ReceivesAreTracked ==
  tracked.rcvs = protocol + Carried({"indicate", "receiveUntrack", "returnUntrack"}, "receive")

(* FilterCancelOidRequest never reads a freed clone: it is allocated       *)
(* whenever PendingOidRequest is set, the completion that frees it waits   *)
(* for the lock the reader holds, and the original is not completed before *)
(* its clone is gone.                                                      *)
PendingOidIsLive ==
  /\ pendingOid \/ ~Unlocked => clone
  /\ clone => oid # "none"
=============================================================================
