-------------------------- MODULE FilterPathsProofs --------------------------
(***************************************************************************)
(* What NDIS sends through the filter, for any number of processors and    *)
(* any lists in a chain: the clone a cancellation reads is allocated, and  *)
(* the gauges and the filter's own counts stand for what is outstanding.   *)
(* The first part follows the one OID request; the second adds up, list by *)
(* list, what every processor carries.                                     *)
(***************************************************************************)
EXTENDS FilterPaths, FiniteSetTheorems, TLAPS

(* A processor is described by a record, and resumes after a clamp where   *)
(* it came from.                                                           *)
CpuOK ==
  /\ cpu = [c \in Cpu |-> cpu[c]]
  /\ \A c \in Cpu :
       /\ cpu[c] = [pc |-> cpu[c].pc, n |-> cpu[c].n, pend |-> cpu[c].pend,
                    path |-> cpu[c].path, result |-> cpu[c].result, then |-> cpu[c].then]
       /\ At(c, "clamp") => cpu[c].then \in {"idle", "returnUntrack", "oidClear"}

(* Where the processor with the request is, when it has counted it down,   *)
Clearing(c) == At(c, "oidClear") \/ (At(c, "clamp") /\ cpu[c].then = "oidClear")

(* and at all.                                                             *)
OnOid(c) ==
  At(c, "oidClone") \/ At(c, "oidDown") \/ Clearing(c) \/ At(c, "oidFree") \/ At(c, "oidUp")

(* Only one processor has it, ...                                          *)
OnePasses == \A c, d \in Cpu : OnOid(c) /\ OnOid(d) => c = d

(* ... which knows how far the request is, and the clone, ...              *)
PlacesAgree ==
  \A c \in Cpu :
    /\ At(c, "oidClone") => oid = "called" /\ ~clone /\ ~pendingOid
    /\ At(c, "oidDown") => oid = "called" /\ clone /\ pendingOid
    /\ Clearing(c) => oid = "completing" /\ clone /\ pendingOid
    /\ At(c, "oidFree") => oid = "completing" /\ clone /\ ~pendingOid
    /\ At(c, "oidUp") => oid = "completing" /\ ~clone /\ ~pendingOid

(* ... unless there is no request, or the miniport has it.                 *)
NobodyPasses ==
  /\ oid = "none" => ~clone /\ ~pendingOid
  /\ oid = "below" => clone /\ pendingOid
  /\ oid \in {"none", "below"} => \A c \in Cpu : ~OnOid(c)

(* Whoever has found the pending clone keeps it pending with the lock.     *)
ReaderHasIt == \A c \in Cpu : At(c, "cancelRead") => pendingOid

OidOK ==
  /\ clone \in BOOLEAN /\ pendingOid \in BOOLEAN
  /\ pendingOid => clone
  /\ OnePasses /\ PlacesAgree /\ NobodyPasses /\ ReaderHasIt

IInv == CpuOK /\ OidOK

-----------------------------------------------------------------------------
(* A processor goes on, ...                                                *)
LEMMA GotoMoves ==
  ASSUME CpuOK, NEW c \in Cpu, NEW pc, pc # "clamp", Goto(c, pc)
  PROVE  /\ CpuOK' /\ cpu'[c].pc = pc
         /\ \A d \in Cpu \ {c} : cpu'[d] = cpu[d]
<1>1. cpu' = [cpu EXCEPT ![c] = IF pc = "idle" THEN Idle ELSE [cpu[c] EXCEPT !.pc = pc]]
  BY DEF Goto
<1>2. /\ cpu' = [d \in Cpu |-> cpu'[d]]
      /\ cpu'[c] = IF pc = "idle" THEN Idle ELSE [cpu[c] EXCEPT !.pc = pc]
      /\ \A d \in Cpu \ {c} : cpu'[d] = cpu[d]
  BY <1>1 DEF CpuOK
<1>3. /\ cpu'[c].pc = pc
      /\ cpu'[c] = [pc |-> cpu'[c].pc, n |-> cpu'[c].n, pend |-> cpu'[c].pend,
                    path |-> cpu'[c].path, result |-> cpu'[c].result, then |-> cpu'[c].then]
  <2>1. CASE pc = "idle"
    BY <1>2, <2>1 DEF Idle
  <2>2. CASE pc # "idle"
    <3>1. cpu'[c] = [pc |-> pc, n |-> cpu[c].n, pend |-> cpu[c].pend,
                     path |-> cpu[c].path, result |-> cpu[c].result, then |-> cpu[c].then]
      BY <1>2, <2>2 DEF CpuOK
    <3>2. QED
      BY <3>1
  <2>3. QED
    BY <2>1, <2>2
<1>4. QED
  BY <1>2, <1>3 DEF CpuOK, At

(* ... begins, ...                                                         *)
LEMMA BeginMoves ==
  ASSUME CpuOK, NEW c \in Cpu, NEW pc, pc # "clamp", NEW n, NEW pend, Begin(c, pc, n, pend)
  PROVE  /\ CpuOK' /\ cpu'[c].pc = pc
         /\ \A d \in Cpu \ {c} : cpu'[d] = cpu[d]
<1>1. cpu' = [cpu EXCEPT ![c] = [Idle EXCEPT !.pc = pc, !.n = n, !.pend = pend]]
  BY DEF Begin
<1>2. /\ cpu' = [d \in Cpu |-> cpu'[d]]
      /\ cpu'[c] = [Idle EXCEPT !.pc = pc, !.n = n, !.pend = pend]
      /\ \A d \in Cpu \ {c} : cpu'[d] = cpu[d]
  BY <1>1 DEF CpuOK
<1>3. /\ cpu'[c].pc = pc
      /\ cpu'[c] = [pc |-> cpu'[c].pc, n |-> cpu'[c].n, pend |-> cpu'[c].pend,
                    path |-> cpu'[c].path, result |-> cpu'[c].result, then |-> cpu'[c].then]
  BY <1>2 DEF Idle
<1>4. QED
  BY <1>2, <1>3 DEF CpuOK, At

(* ... or counts, and goes on or clamps.                                   *)
LEMMA SubtractMoves ==
  ASSUME CpuOK, NEW c \in Cpu, NEW p, NEW n, NEW then \in {"idle", "returnUntrack", "oidClear"},
         Subtract(c, p, n, then)
  PROVE  /\ CpuOK'
         /\ \/ cpu'[c].pc = then
            \/ cpu'[c].pc = "clamp" /\ cpu'[c].then = then
         /\ \A d \in Cpu \ {c} : cpu'[d] = cpu[d]
<1> DEFINE result == gauge[p] - n
           clamped == [Idle EXCEPT !.pc = "clamp", !.n = n, !.path = p,
                                   !.result = result, !.then = then]
           passed == IF then = "idle" THEN Idle ELSE [Idle EXCEPT !.pc = then, !.n = n]
<1>1. PICK new \in {clamped, passed} : cpu' = [cpu EXCEPT ![c] = new]
  BY DEF Subtract
<1>2. /\ cpu' = [d \in Cpu |-> cpu'[d]]
      /\ cpu'[c] = new
      /\ \A d \in Cpu \ {c} : cpu'[d] = cpu[d]
  BY <1>1 DEF CpuOK
<1>3. CASE new = clamped
  <2>1. /\ new.pc = "clamp" /\ new.then = then
        /\ new = [pc |-> new.pc, n |-> new.n, pend |-> new.pend, path |-> new.path,
                  result |-> new.result, then |-> new.then]
    BY <1>3 DEF Idle
  <2>2. QED
    BY <1>2, <2>1 DEF CpuOK, At
<1>4. CASE new = passed
  <2>1. /\ new.pc = then
        /\ new = [pc |-> new.pc, n |-> new.n, pend |-> new.pend, path |-> new.path,
                  result |-> new.result, then |-> new.then]
    BY <1>4 DEF Idle
  <2>2. QED
    BY <1>2, <2>1 DEF CpuOK, At
<1>5. QED
  BY <1>1, <1>3, <1>4

-----------------------------------------------------------------------------
(* Sends, receives and resets, and processors that come to no OID request. *)
LEMMA OthersKeep ==
  ASSUME OidOK, NEW c \in Cpu, UNCHANGED oidVars, ~OnOid(c), ~OnOid(c)',
         cpu'[c].pc # "cancelRead",
         \A d \in Cpu \ {c} : cpu'[d] = cpu[d]
  PROVE  OidOK'
<1>1. UNCHANGED <<oid, clone, pendingOid>>
  BY DEF oidVars
<1>2. \A d \in Cpu \ {c} : /\ OnOid(d)' = OnOid(d) /\ Clearing(d)' = Clearing(d)
                           /\ \A pc : At(d, pc)' = At(d, pc)
  BY DEF OnOid, Clearing, At
<1>3. OnePasses' /\ NobodyPasses' /\ ReaderHasIt'
  BY <1>1, <1>2 DEF OidOK, OnePasses, NobodyPasses, ReaderHasIt, At
<1>4. PlacesAgree'
  BY <1>1, <1>2 DEF OidOK, PlacesAgree, OnOid
<1>5. QED
  BY <1>1, <1>3, <1>4 DEF OidOK

(* A processor that goes on with an OID request.                           *)
LEMMA OnePassesOn ==
  ASSUME OnePasses, NEW c \in Cpu, OnOid(c) \/ \A d \in Cpu : ~OnOid(d),
         \A d \in Cpu \ {c} : cpu'[d] = cpu[d]
  PROVE  OnePasses' /\ \A d \in Cpu \ {c} : ~OnOid(d) /\ ~OnOid(d)'
<1>1. \A d \in Cpu \ {c} : ~OnOid(d)
  BY DEF OnePasses
<1>2. \A d \in Cpu \ {c} : ~OnOid(d)'
  BY <1>1 DEF OnOid, Clearing, At
<1>3. QED
  BY <1>1, <1>2 DEF OnePasses

-----------------------------------------------------------------------------
(* The steps of sends and receives.                                        *)
LEMMA PacketsKeep ==
  ASSUME IInv, NEW c \in Cpu,
         \/ SendCount(c) \/ SendChecked(c) \/ SendRefused(c) \/ SendTrack(c) \/ SendDown(c)
         \/ CompleteTrack(c) \/ CompleteCount(c)
         \/ ReceiveCount(c) \/ ReceiveChecked(c) \/ ReceiveRefused(c) \/ ReceiveTrack(c)
         \/ Indicate(c) \/ ReceiveUntrack(c)
         \/ ReturnCount(c) \/ ReturnUntrack(c)
  PROVE  IInv'
<1> USE DEF IInv
<1> DEFINE packet == {"idle", "sendCheck", "sendTrack", "sendDown", "sendComplete",
                      "receiveCheck", "receiveTrack", "indicate", "receiveUntrack",
                      "returnUntrack"}
<1>1. /\ cpu[c].pc \in packet
      /\ UNCHANGED oidVars
      /\ \/ \E pc \in packet : Goto(c, pc)
         \/ \E pc \in packet : \E n, pend : Begin(c, pc, n, pend)
         \/ \E p, n : \E then \in {"idle", "returnUntrack"} : Subtract(c, p, n, then)
  <2>1. CASE \/ SendChecked(c) \/ SendRefused(c) \/ SendTrack(c) \/ SendDown(c)
             \/ ReceiveChecked(c) \/ ReceiveRefused(c) \/ ReceiveTrack(c)
             \/ Indicate(c) \/ ReceiveUntrack(c) \/ ReturnUntrack(c)
    BY <2>1 DEF SendChecked, SendRefused, SendTrack, SendDown, ReceiveChecked, ReceiveRefused,
                ReceiveTrack, Indicate, ReceiveUntrack, ReturnUntrack, At
  <2>2. CASE SendCount(c) \/ CompleteTrack(c) \/ ReceiveCount(c)
    BY <2>2 DEF SendCount, CompleteTrack, ReceiveCount, At
  <2>3. CASE CompleteCount(c) \/ ReturnCount(c)
    BY <2>3 DEF CompleteCount, ReturnCount, At
  <2>4. QED
    BY <2>1, <2>2, <2>3
<1>2. /\ CpuOK'
      /\ \A d \in Cpu \ {c} : cpu'[d] = cpu[d]
      /\ \/ cpu'[c].pc \in packet
         \/ cpu'[c].pc = "clamp" /\ cpu'[c].then \in {"idle", "returnUntrack"}
  <2>1. CASE \E pc \in packet : Goto(c, pc)
    BY <2>1, GotoMoves
  <2>2. CASE \E pc \in packet : \E n, pend : Begin(c, pc, n, pend)
    BY <2>2, BeginMoves
  <2>3. CASE \E p, n : \E then \in {"idle", "returnUntrack"} : Subtract(c, p, n, then)
    BY <2>3, SubtractMoves
  <2>4. QED
    BY <1>1, <2>1, <2>2, <2>3
<1>3. ~OnOid(c) /\ ~OnOid(c)'
  BY <1>1, <1>2 DEF OnOid, Clearing, At
<1>4. QED
  BY <1>1, <1>2, <1>3, OthersKeep

(* The clamp, of a request and of anything else.                           *)
LEMMA ClampKeeps ==
  ASSUME IInv, NEW c \in Cpu, Clamp(c)
  PROVE  IInv'
<1> USE DEF IInv
<1>1. /\ At(c, "clamp") /\ cpu[c].then \in {"idle", "returnUntrack", "oidClear"}
      /\ Goto(c, cpu[c].then) /\ UNCHANGED <<oid, clone, pendingOid>>
  BY DEF Clamp, CpuOK, oidVars
<1>2. /\ CpuOK' /\ cpu'[c].pc = cpu[c].then
      /\ \A d \in Cpu \ {c} : cpu'[d] = cpu[d]
  BY <1>1, GotoMoves
<1>3. CASE cpu[c].then # "oidClear"
  <2>1. ~OnOid(c) /\ ~OnOid(c)'
    BY <1>1, <1>2, <1>3 DEF OnOid, Clearing, At
  <2>2. UNCHANGED oidVars /\ cpu'[c].pc # "cancelRead"
    BY <1>1, <1>2 DEF oidVars
  <2>3. QED
    BY <1>2, <2>1, <2>2, OthersKeep
<1>4. CASE cpu[c].then = "oidClear"
  <2>1. Clearing(c) /\ OnOid(c) /\ cpu'[c].pc = "oidClear"
    BY <1>1, <1>2, <1>4 DEF Clearing, OnOid
  <2>2. OnePasses' /\ \A d \in Cpu \ {c} : ~OnOid(d) /\ ~OnOid(d)'
    BY <1>2, <2>1, OnePassesOn DEF OidOK
  <2>3. oid = "completing" /\ clone /\ pendingOid
    BY <2>1 DEF OidOK, PlacesAgree
  <2>4. PlacesAgree'
    BY <1>1, <2>1, <2>2, <2>3 DEF PlacesAgree, OnOid, Clearing, At
  <2>5. NobodyPasses' /\ ReaderHasIt'
    BY <1>1, <2>3 DEF NobodyPasses, ReaderHasIt
  <2>6. QED
    BY <1>1, <1>2, <2>2, <2>4, <2>5 DEF OidOK
<1>5. QED
  BY <1>3, <1>4

-----------------------------------------------------------------------------
(* A new request finds the path free.                                      *)
LEMMA OidCountKeeps ==
  ASSUME IInv, NEW c \in Cpu, OidCount(c)
  PROVE  IInv'
<1> USE DEF IInv
<1>1. /\ oid = "none" /\ oid' = "called" /\ Begin(c, "oidClone", 0, TRUE)
      /\ UNCHANGED <<clone, pendingOid>>
  BY DEF OidCount
<1>2. /\ CpuOK' /\ cpu'[c].pc = "oidClone"
      /\ \A d \in Cpu \ {c} : cpu'[d] = cpu[d]
  BY <1>1, BeginMoves
<1>3. /\ ~clone /\ ~pendingOid
      /\ \A d \in Cpu : ~OnOid(d)
  BY <1>1 DEF OidOK, NobodyPasses
<1>4. OnePasses' /\ \A d \in Cpu \ {c} : ~OnOid(d) /\ ~OnOid(d)'
  BY <1>2, <1>3, OnePassesOn DEF OidOK
<1>5. PlacesAgree'
  BY <1>1, <1>2, <1>3, <1>4 DEF PlacesAgree, OnOid, Clearing, At
<1>6. NobodyPasses' /\ ReaderHasIt'
  BY <1>1, <1>2 DEF OidOK, NobodyPasses, ReaderHasIt, At
<1>7. QED
  BY <1>1, <1>2, <1>4, <1>5, <1>6 DEF OidOK

(* The clone is made and published, ...                                    *)
LEMMA OidCloneKeeps ==
  ASSUME IInv, NEW c \in Cpu, OidClone(c)
  PROVE  IInv'
<1> USE DEF IInv
<1>1. /\ At(c, "oidClone") /\ clone' = TRUE /\ pendingOid' = TRUE /\ Goto(c, "oidDown")
      /\ oid' = oid
  BY DEF OidClone
<1>2. /\ CpuOK' /\ cpu'[c].pc = "oidDown"
      /\ \A d \in Cpu \ {c} : cpu'[d] = cpu[d]
  BY <1>1, GotoMoves
<1>3. OnOid(c) /\ oid = "called"
  BY <1>1 DEF OidOK, PlacesAgree, OnOid
<1>4. OnePasses' /\ \A d \in Cpu \ {c} : ~OnOid(d) /\ ~OnOid(d)'
  BY <1>2, <1>3, OnePassesOn DEF OidOK
<1>5. PlacesAgree'
  BY <1>1, <1>2, <1>3, <1>4 DEF PlacesAgree, OnOid, Clearing, At
<1>6. NobodyPasses' /\ ReaderHasIt'
  BY <1>1, <1>3 DEF NobodyPasses, ReaderHasIt
<1>7. QED
  BY <1>1, <1>2, <1>4, <1>5, <1>6 DEF OidOK

(* ... or not, and the request ends; so it does once it is completed.      *)
LEMMA OidEndsKeeps ==
  ASSUME IInv, NEW c \in Cpu, OidCloneFails(c) \/ OidUp(c)
  PROVE  IInv'
<1> USE DEF IInv
<1>1. /\ At(c, "oidClone") \/ At(c, "oidUp")
      /\ oid' = "none" /\ Goto(c, "idle") /\ UNCHANGED <<clone, pendingOid>>
  BY DEF OidCloneFails, OidUp
<1>2. /\ CpuOK' /\ cpu'[c].pc = "idle"
      /\ \A d \in Cpu \ {c} : cpu'[d] = cpu[d]
  BY <1>1, GotoMoves
<1>3. OnOid(c) /\ ~clone /\ ~pendingOid
  BY <1>1 DEF OidOK, PlacesAgree, OnOid
<1>4. OnePasses' /\ \A d \in Cpu \ {c} : ~OnOid(d) /\ ~OnOid(d)'
  BY <1>2, <1>3, OnePassesOn DEF OidOK
<1>5. \A d \in Cpu : ~OnOid(d)'
  BY <1>2, <1>4 DEF OnOid, Clearing, At
<1>6. PlacesAgree' /\ NobodyPasses'
  BY <1>1, <1>3, <1>5 DEF PlacesAgree, NobodyPasses, OnOid
<1>7. ReaderHasIt'
  BY <1>1, <1>2 DEF OidOK, ReaderHasIt, At
<1>8. QED
  BY <1>1, <1>2, <1>4, <1>6, <1>7 DEF OidOK

(* The miniport keeps the request, and its clone stays pending.            *)
LEMMA OidPendsKeeps ==
  ASSUME IInv, NEW c \in Cpu, OidPends(c)
  PROVE  IInv'
<1> USE DEF IInv
<1>1. /\ At(c, "oidDown") /\ oid' = "below" /\ Goto(c, "idle")
      /\ UNCHANGED <<clone, pendingOid>>
  BY DEF OidPends
<1>2. /\ CpuOK' /\ cpu'[c].pc = "idle"
      /\ \A d \in Cpu \ {c} : cpu'[d] = cpu[d]
  BY <1>1, GotoMoves
<1>3. OnOid(c) /\ clone /\ pendingOid
  BY <1>1 DEF OidOK, PlacesAgree, OnOid
<1>4. OnePasses' /\ \A d \in Cpu \ {c} : ~OnOid(d) /\ ~OnOid(d)'
  BY <1>2, <1>3, OnePassesOn DEF OidOK
<1>5. \A d \in Cpu : ~OnOid(d)'
  BY <1>2, <1>4 DEF OnOid, Clearing, At
<1>6. PlacesAgree' /\ NobodyPasses'
  BY <1>1, <1>3, <1>5 DEF PlacesAgree, NobodyPasses, OnOid
<1>7. ReaderHasIt'
  BY <1>1, <1>3 DEF ReaderHasIt
<1>8. QED
  BY <1>1, <1>2, <1>4, <1>6, <1>7 DEF OidOK

(* The completion starts on one processor, whoever calls it.               *)
LEMMA OidCompleteKeeps ==
  ASSUME IInv, NEW c \in Cpu, OidComplete(c)
  PROVE  IInv'
<1> USE DEF IInv
<1>1. /\ At(c, "oidDown") \/ (At(c, "idle") /\ oid = "below")
      /\ oid' = "completing" /\ Subtract(c, "oid", 1, "oidClear")
      /\ UNCHANGED <<clone, pendingOid>>
  BY DEF OidComplete
<1>2. /\ CpuOK'
      /\ cpu'[c].pc = "oidClear" \/ (cpu'[c].pc = "clamp" /\ cpu'[c].then = "oidClear")
      /\ \A d \in Cpu \ {c} : cpu'[d] = cpu[d]
  BY <1>1, SubtractMoves
<1>3. /\ clone /\ pendingOid
      /\ OnOid(c) \/ \A d \in Cpu : ~OnOid(d)
  BY <1>1 DEF OidOK, PlacesAgree, NobodyPasses, OnOid
<1>4. OnePasses' /\ \A d \in Cpu \ {c} : ~OnOid(d) /\ ~OnOid(d)'
  BY <1>2, <1>3, OnePassesOn DEF OidOK
<1>5. PlacesAgree'
  BY <1>1, <1>2, <1>3, <1>4 DEF PlacesAgree, OnOid, Clearing, At
<1>6. NobodyPasses' /\ ReaderHasIt'
  BY <1>1, <1>3 DEF NobodyPasses, ReaderHasIt
<1>7. QED
  BY <1>1, <1>2, <1>4, <1>5, <1>6 DEF OidOK

(* The clone is forgotten under the lock, hence while nobody reads it, ... *)
LEMMA OidClearKeeps ==
  ASSUME IInv, NEW c \in Cpu, OidClear(c)
  PROVE  IInv'
<1> USE DEF IInv
<1>1. /\ At(c, "oidClear") /\ Unlocked /\ pendingOid' = FALSE /\ Goto(c, "oidFree")
      /\ UNCHANGED <<oid, clone>>
  BY DEF OidClear
<1>2. /\ CpuOK' /\ cpu'[c].pc = "oidFree"
      /\ \A d \in Cpu \ {c} : cpu'[d] = cpu[d]
  BY <1>1, GotoMoves
<1>3. OnOid(c) /\ oid = "completing" /\ clone
  BY <1>1 DEF OidOK, PlacesAgree, OnOid, Clearing
<1>4. OnePasses' /\ \A d \in Cpu \ {c} : ~OnOid(d) /\ ~OnOid(d)'
  BY <1>2, <1>3, OnePassesOn DEF OidOK
<1>5. PlacesAgree'
  BY <1>1, <1>2, <1>3, <1>4 DEF PlacesAgree, OnOid, Clearing, At
<1>6. NobodyPasses' /\ ReaderHasIt'
  BY <1>1, <1>2, <1>3 DEF NobodyPasses, ReaderHasIt, Unlocked, At
<1>7. QED
  BY <1>1, <1>2, <1>4, <1>5, <1>6 DEF OidOK

(* ... and freed when nobody can find it.                                  *)
LEMMA OidFreeKeeps ==
  ASSUME IInv, NEW c \in Cpu, OidFree(c)
  PROVE  IInv'
<1> USE DEF IInv
<1>1. /\ At(c, "oidFree") /\ clone' = FALSE /\ Goto(c, "oidUp")
      /\ UNCHANGED <<oid, pendingOid>>
  BY DEF OidFree
<1>2. /\ CpuOK' /\ cpu'[c].pc = "oidUp"
      /\ \A d \in Cpu \ {c} : cpu'[d] = cpu[d]
  BY <1>1, GotoMoves
<1>3. OnOid(c) /\ oid = "completing" /\ ~pendingOid
  BY <1>1 DEF OidOK, PlacesAgree, OnOid
<1>4. OnePasses' /\ \A d \in Cpu \ {c} : ~OnOid(d) /\ ~OnOid(d)'
  BY <1>2, <1>3, OnePassesOn DEF OidOK
<1>5. PlacesAgree'
  BY <1>1, <1>2, <1>3, <1>4 DEF PlacesAgree, OnOid, Clearing, At
<1>6. NobodyPasses' /\ ReaderHasIt'
  BY <1>1, <1>2, <1>3 DEF OidOK, NobodyPasses, ReaderHasIt, At
<1>7. QED
  BY <1>1, <1>2, <1>3, <1>4, <1>5, <1>6 DEF OidOK

(* A cancellation finds the clone, or reads it.                            *)
LEMMA CancelKeeps ==
  ASSUME IInv, NEW c \in Cpu, CancelLook(c) \/ CancelRead(c)
  PROVE  IInv'
<1> USE DEF IInv
<1>1. /\ \/ At(c, "idle") /\ pendingOid /\ Goto(c, "cancelRead")
         \/ At(c, "cancelRead") /\ Goto(c, "idle")
      /\ UNCHANGED <<oid, clone, pendingOid>>
  BY DEF CancelLook, CancelRead, oidVars
<1>2. /\ CpuOK'
      /\ cpu'[c].pc = "idle" \/ (cpu'[c].pc = "cancelRead" /\ pendingOid)
      /\ \A d \in Cpu \ {c} : cpu'[d] = cpu[d]
  BY <1>1, GotoMoves
<1>3. ~OnOid(c) /\ ~OnOid(c)'
  BY <1>1, <1>2 DEF OnOid, Clearing, At
<1>4. \A d \in Cpu \ {c} : OnOid(d)' = OnOid(d) /\ Clearing(d)' = Clearing(d)
  BY <1>2 DEF OnOid, Clearing, At
<1>5. OnePasses' /\ NobodyPasses'
  BY <1>1, <1>3, <1>4 DEF OidOK, OnePasses, NobodyPasses
<1>6. PlacesAgree'
  <2>1. ASSUME NEW d \in Cpu \ {c}, NEW pc PROVE At(d, pc)' = At(d, pc)
    BY <1>2 DEF At
  <2>2. QED
    BY <1>1, <1>3, <1>4, <2>1 DEF OidOK, PlacesAgree, OnOid
<1>7. ReaderHasIt'
  BY <1>1, <1>2 DEF OidOK, ReaderHasIt, At
<1>8. QED
  BY <1>1, <1>2, <1>5, <1>6, <1>7 DEF OidOK

-----------------------------------------------------------------------------
(* The invariant is inductive.                                             *)
LEMMA StepKeeps == IInv /\ [Next]_vars => IInv'
<1> SUFFICES ASSUME IInv, [Next]_vars PROVE IInv'
  OBVIOUS
<1>1. CASE UNCHANGED <<oid, clone, pendingOid, cpu>>
  BY <1>1 DEF IInv, CpuOK, OidOK, OnePasses, PlacesAgree, NobodyPasses, ReaderHasIt, OnOid,
              Clearing, At
<1>2. CASE UNCHANGED vars \/ Pause \/ Restart \/ InjectDown \/ \E p \in Path : Reset(p)
  BY <1>1, <1>2 DEF vars, oidVars, Pause, Restart, InjectDown, Reset
<1>3. ASSUME NEW c \in Cpu,
             \/ OidCount(c) \/ OidClone(c) \/ OidCloneFails(c) \/ OidPends(c)
             \/ OidComplete(c) \/ OidClear(c) \/ OidFree(c) \/ OidUp(c)
             \/ CancelLook(c) \/ CancelRead(c)
      PROVE  IInv'
  BY <1>3, OidCountKeeps, OidCloneKeeps, OidEndsKeeps, OidPendsKeeps, OidCompleteKeeps,
     OidClearKeeps, OidFreeKeeps, CancelKeeps
<1>4. ASSUME NEW c \in Cpu, Clamp(c) PROVE IInv'
  BY <1>4, ClampKeeps
<1>5. QED
  BY <1>2, <1>3, <1>4, PacketsKeep DEF Next

(* Initially there is no request.                                          *)
LEMMA InitIsOK == Init => IInv
<1> SUFFICES ASSUME Init PROVE IInv
  OBVIOUS
<1>1. \A c \in Cpu : cpu[c] = Idle
  BY DEF Init
<1>2. CpuOK
  BY <1>1 DEF Init, CpuOK, Idle, At
<1>3. \A c \in Cpu : ~OnOid(c) /\ ~At(c, "cancelRead")
  BY <1>1 DEF OnOid, Clearing, Idle, At
<1>4. OidOK
  BY <1>3 DEF Init, OidOK, OnePasses, PlacesAgree, NobodyPasses, ReaderHasIt, OnOid
<1>5. QED
  BY <1>2, <1>4 DEF IInv

(* FilterCancelOidRequest never reads a freed clone, however many          *)
(* processors cancel, complete, send and receive at once.                  *)
THEOREM PendingOidSafety == Spec => []PendingOidIsLive
<1>1. Init => IInv
  BY InitIsOK
<1>2. IInv /\ [Next]_vars => IInv'
  BY StepKeeps
<1>3. IInv => PendingOidIsLive
  BY DEF IInv, OidOK, NobodyPasses, ReaderHasIt, PendingOidIsLive, Unlocked
<1>4. QED
  BY <1>1, <1>2, <1>3, PTL DEF Spec

-----------------------------------------------------------------------------
(* Lists(S), as a function of the records of the processors.               *)
ListsOf(S, f) == UNION {{c} \X (1..f[c].n) : c \in S}

(* A processor with n lists has n of them.                                 *)
LEMMA Numbers ==
  ASSUME NEW c, NEW n \in Nat
  PROVE  IsFiniteSet({c} \X (1..n)) /\ Cardinality({c} \X (1..n)) = n
<1>1. IsFiniteSet({c}) /\ Cardinality({c}) = 1
  BY FS_Singleton
<1>2. IsFiniteSet(1..n) /\ Cardinality(1..n) = IF 1 > n THEN 0 ELSE n - 1 + 1
  BY FS_Interval
<1>3. Cardinality(1..n) = n
  BY <1>2
<1>4. IsFiniteSet({c} \X (1..n)) /\ Cardinality({c} \X (1..n)) = Cardinality({c}) * Cardinality(1..n)
  BY <1>1, <1>2, FS_Product
<1>5. QED
  BY <1>1, <1>3, <1>4

(* The lists of a set of processors are those of one of them and of the    *)
(* rest.                                                                   *)
LEMMA SplitLists ==
  ASSUME NEW f, NEW S \in SUBSET Cpu, NEW c \in Cpu, f[c].n \in Nat,
         IsFiniteSet(ListsOf(Cpu, f))
  PROVE  /\ Cardinality(ListsOf(S, f)) \in Nat
         /\ Cardinality(ListsOf(S \ {c}, f)) \in Nat
         /\ Cardinality(ListsOf(S, f)) =
              Cardinality(ListsOf(S \ {c}, f)) + IF c \in S THEN f[c].n ELSE 0
<1> DEFINE own == {c} \X (1..f[c].n)
           rest == ListsOf(S \ {c}, f)
<1>1. /\ ListsOf(S, f) \in SUBSET ListsOf(Cpu, f)
      /\ rest \in SUBSET ListsOf(Cpu, f)
  BY DEF ListsOf
<1>2. /\ IsFiniteSet(ListsOf(S, f)) /\ Cardinality(ListsOf(S, f)) \in Nat
      /\ IsFiniteSet(rest) /\ Cardinality(rest) \in Nat
  BY <1>1, FS_Subset, FS_CardinalityType
<1>3. CASE c \notin S
  <2>1. rest = ListsOf(S, f)
    BY <1>3 DEF ListsOf
  <2>2. QED
    BY <1>2, <1>3, <2>1
<1>4. CASE c \in S
  <2>3. IsFiniteSet(own) /\ Cardinality(own) = f[c].n
    BY Numbers
  <2>4. ListsOf(S, f) = rest \cup own
    BY <1>4 DEF ListsOf
  <2>5. rest \cap own = {}
    BY DEF ListsOf
  <2>6. Cardinality(rest \cup own) = Cardinality(rest) + Cardinality(own) - Cardinality(rest \cap own)
    <3> HIDE DEF rest, own
    <3> QED
      BY <1>2, <2>3, FS_Union
  <2>7. Cardinality(rest \cap own) = 0
    BY <2>5, FS_EmptySet
  <2>8. Cardinality(ListsOf(S, f)) = Cardinality(rest) + f[c].n - 0
    BY <2>3, <2>4, <2>6, <2>7
  <2>9. QED
    <3> HIDE DEF rest, own
    <3>1. Cardinality(ListsOf(S, f)) = Cardinality(rest) + f[c].n
      BY <1>2, <2>8
    <3>2. QED
      BY <1>2, <1>4, <3>1 DEF rest
<1>5. QED
  BY <1>3, <1>4

(* One processor takes up other lists.                                     *)
LEMMA ListsStayFinite ==
  ASSUME NEW f, NEW g, NEW c \in Cpu, g[c].n \in Nat, \A d \in Cpu \ {c} : g[d] = f[d],
         IsFiniteSet(ListsOf(Cpu, f))
  PROVE  IsFiniteSet(ListsOf(Cpu, g))
<1> DEFINE own == {c} \X (1..g[c].n)
<1>1. IsFiniteSet(own)
  BY Numbers
<1>2. IsFiniteSet(ListsOf(Cpu, f) \cup own)
  BY <1>1, FS_Union
<1>3. ListsOf(Cpu, g) \in SUBSET (ListsOf(Cpu, f) \cup own)
  BY DEF ListsOf
<1>4. QED
  BY <1>2, <1>3, FS_Subset

-----------------------------------------------------------------------------
(* What one processor contributes to Carried.                              *)
Share(c, pcs, p) ==
  IF cpu[c].pc \in pcs \/ (cpu[c].pc = "clamp" /\ cpu[c].path = p) THEN cpu[c].n ELSE 0

(* The lists of a step's processor change, and nobody else's.              *)
LEMMA CarriedMoves ==
  ASSUME NEW c \in Cpu, cpu[c].n \in Nat, cpu'[c].n \in Nat,
         \A d \in Cpu \ {c} : cpu'[d] = cpu[d],
         IsFiniteSet(Lists(Cpu)), NEW pcs, NEW p
  PROVE  /\ IsFiniteSet(Lists(Cpu))'
         /\ \E rest \in Nat : /\ Carried(pcs, p) = rest + Share(c, pcs, p)
                              /\ Carried(pcs, p)' = rest + Share(c, pcs, p)'
<1> DEFINE S == Where(pcs, p)
           T == Where(pcs, p)'
<1>1. IsFiniteSet(ListsOf(Cpu, cpu))
  BY DEF Lists, ListsOf
<1>2. IsFiniteSet(ListsOf(Cpu, cpu'))
  BY <1>1, ListsStayFinite
<1>3. /\ Cardinality(ListsOf(S \ {c}, cpu)) \in Nat
      /\ Cardinality(ListsOf(S, cpu)) =
           Cardinality(ListsOf(S \ {c}, cpu)) + IF c \in S THEN cpu[c].n ELSE 0
  <2>1. S \in SUBSET Cpu
    BY DEF Where
  <2> HIDE DEF S
  <2>2. QED
    BY <1>1, <2>1, SplitLists
<1>4. Cardinality(ListsOf(T, cpu')) =
        Cardinality(ListsOf(T \ {c}, cpu')) + IF c \in T THEN cpu'[c].n ELSE 0
  <2>1. T \in SUBSET Cpu
    BY DEF Where
  <2> HIDE DEF T
  <2>2. QED
    BY <1>2, <2>1, SplitLists
<1>5. ListsOf(S \ {c}, cpu) = ListsOf(T \ {c}, cpu')
  <2>1. S \ {c} = T \ {c}
    BY DEF Where
  <2>2. \A d \in S \ {c} : {d} \X (1..cpu[d].n) = {d} \X (1..cpu'[d].n)
    BY DEF Where
  <2>3. ListsOf(S \ {c}, cpu) = ListsOf(S \ {c}, cpu')
    <3> HIDE DEF S
    <3> QED
      BY <2>2 DEF ListsOf
  <2> HIDE DEF S, T
  <2>4. QED
    BY <2>1, <2>3
<1>6. /\ Carried(pcs, p) = Cardinality(ListsOf(S, cpu))
      /\ Carried(pcs, p)' = Cardinality(ListsOf(T, cpu'))
  BY DEF Carried, Lists, ListsOf
<1>7. /\ Share(c, pcs, p) = IF c \in S THEN cpu[c].n ELSE 0
      /\ Share(c, pcs, p)' = IF c \in T THEN cpu'[c].n ELSE 0
  BY DEF Share, Where
<1>8. IsFiniteSet(Lists(Cpu))'
  BY <1>2 DEF Lists, ListsOf
<1> DEFINE rest == Cardinality(ListsOf(S \ {c}, cpu))
<1>9. /\ rest \in Nat
      /\ Carried(pcs, p) = rest + Share(c, pcs, p)
      /\ Carried(pcs, p)' = rest + Share(c, pcs, p)'
  <2> HIDE DEF S, T
  <2>1. QED
    BY <1>3, <1>4, <1>5, <1>6, <1>7
<1>10. QED
  <2> HIDE DEF rest
  <2> QED
    BY <1>8, <1>9

(* How many lists are carried is a number.                                 *)
LEMMA CarriedType ==
  ASSUME NEW c \in Cpu, cpu[c].n \in Nat, IsFiniteSet(Lists(Cpu)), NEW pcs, NEW p
  PROVE  Carried(pcs, p) \in Nat
<1>1. IsFiniteSet(ListsOf(Cpu, cpu))
  BY DEF Lists, ListsOf
<1>2. Where(pcs, p) \in SUBSET Cpu
  BY DEF Where
<1>3. Cardinality(ListsOf(Where(pcs, p), cpu)) \in Nat
  BY <1>1, <1>2, SplitLists
<1>4. QED
  BY <1>3 DEF Carried, Lists, ListsOf

-----------------------------------------------------------------------------
(* What a processor does to its own record.                                *)
LEMMA GotoCarries ==
  ASSUME cpu \in [Cpu -> Processor], NEW c \in Cpu, NEW pc \in Pcs, Goto(c, pc)
  PROVE  /\ cpu' \in [Cpu -> Processor] /\ \A d \in Cpu \ {c} : cpu'[d] = cpu[d]
         /\ cpu'[c].pc = pc /\ cpu'[c].n \in Nat
         /\ pc # "idle" => cpu'[c].n = cpu[c].n /\ cpu'[c].pend = cpu[c].pend
<1>1. cpu' = [cpu EXCEPT ![c] = IF pc = "idle" THEN Idle ELSE [cpu[c] EXCEPT !.pc = pc]]
  BY DEF Goto
<1>2. Idle \in Processor /\ Idle.pc = "idle"
  BY DEF Idle, Processor, Pcs, Path
<1>3. cpu[c] \in Processor
  OBVIOUS
<1>4. [cpu[c] EXCEPT !.pc = pc] \in Processor
  BY <1>3 DEF Processor
<1>5. cpu' \in [Cpu -> Processor] /\ \A d \in Cpu \ {c} : cpu'[d] = cpu[d]
  BY <1>1, <1>2, <1>4
<1>6. cpu'[c] = IF pc = "idle" THEN Idle ELSE [cpu[c] EXCEPT !.pc = pc]
  BY <1>1
<1>7. cpu'[c].pc = pc /\ (pc # "idle" => cpu'[c].n = cpu[c].n /\ cpu'[c].pend = cpu[c].pend)
  BY <1>2, <1>3, <1>6 DEF Processor
<1>8. cpu'[c].n \in Nat
  BY <1>5 DEF Processor
<1>9. QED
  BY <1>5, <1>7, <1>8

(* It begins with n lists, ...                                             *)
LEMMA BeginCarries ==
  ASSUME cpu \in [Cpu -> Processor], NEW c \in Cpu, NEW pc \in Pcs, NEW n \in Nat,
         NEW pend \in BOOLEAN, Begin(c, pc, n, pend)
  PROVE  /\ cpu' \in [Cpu -> Processor] /\ \A d \in Cpu \ {c} : cpu'[d] = cpu[d]
         /\ cpu'[c].pc = pc /\ cpu'[c].n = n /\ cpu'[c].pend = pend
<1>1. cpu' = [cpu EXCEPT ![c] = [Idle EXCEPT !.pc = pc, !.n = n, !.pend = pend]]
  BY DEF Begin
<1>2. PICK new : new = [Idle EXCEPT !.pc = pc, !.n = n, !.pend = pend]
  OBVIOUS
<1>3. /\ new = [pc |-> new.pc, n |-> new.n, pend |-> new.pend, path |-> new.path,
                result |-> new.result, then |-> new.then]
      /\ new.pc = pc /\ new.n = n /\ new.pend = pend
      /\ new.path = "send" /\ new.result = 0 /\ new.then = "idle"
  BY <1>2 DEF Idle
<1>4. new \in Processor
  <2>1. /\ new.pc \in Pcs /\ new.n \in Nat /\ new.pend \in BOOLEAN /\ new.path \in Path
        /\ new.result \in Int /\ new.then \in {"idle", "returnUntrack", "oidClear"}
    BY <1>3 DEF Path
  <2>2. QED
    BY <1>3, <2>1 DEF Processor
<1>5. /\ cpu' \in [Cpu -> Processor] /\ \A d \in Cpu \ {c} : cpu'[d] = cpu[d]
      /\ cpu'[c] = new
  BY <1>1, <1>2, <1>4
<1>6. QED
  BY <1>3, <1>5

(* Either the result is a count, or the gauge is to be clamped.            *)
LEMMA SubtractCarries ==
  ASSUME cpu \in [Cpu -> Processor], gauge \in [Path -> Int], NEW c \in Cpu, NEW p \in Path,
         NEW n \in Nat, NEW then \in {"idle", "returnUntrack", "oidClear"},
         Subtract(c, p, n, then)
  PROVE  /\ cpu' \in [Cpu -> Processor] /\ \A d \in Cpu \ {c} : cpu'[d] = cpu[d]
         /\ gauge' \in [Path -> Int] /\ gauge'[p] = gauge[p] - n
         /\ \A q \in Path \ {p} : gauge'[q] = gauge[q]
         /\ cpu'[c].n \in Nat
         /\ \/ /\ gauge'[p] < 0 /\ cpu'[c].pc = "clamp" /\ cpu'[c].n = n
               /\ cpu'[c].path = p /\ cpu'[c].then = then
            \/ gauge'[p] >= 0 /\ cpu'[c].pc = then /\ (then # "idle" => cpu'[c].n = n)
<1> DEFINE result == gauge[p] - n
           clamped == [Idle EXCEPT !.pc = "clamp", !.n = n, !.path = p,
                                   !.result = result, !.then = then]
           passed == IF then = "idle" THEN Idle ELSE [Idle EXCEPT !.pc = then, !.n = n]
<1>1. result \in Int
  OBVIOUS
<1>2. gauge' = [gauge EXCEPT ![p] = result]
  BY DEF Subtract
<1>3. /\ gauge' \in [Path -> Int] /\ gauge'[p] = result
      /\ \A q \in Path \ {p} : gauge'[q] = gauge[q]
  BY <1>1, <1>2
<1>4. cpu' = IF result < 0 THEN [cpu EXCEPT ![c] = clamped] ELSE [cpu EXCEPT ![c] = passed]
  BY DEF Subtract
<1>5. /\ clamped \in Processor /\ clamped.pc = "clamp" /\ clamped.n = n
      /\ clamped.path = p /\ clamped.then = then
  <2> HIDE DEF result
  <2> QED
    BY <1>1 DEF Idle, Processor, Path, Pcs
<1>6. passed \in Processor /\ passed.pc = then /\ (then # "idle" => passed.n = n)
  <2>1. CASE then = "idle"
    BY <2>1 DEF Idle, Processor, Path, Pcs
  <2>2. CASE then # "idle"
    <3>1. passed = [pc |-> then, n |-> n, pend |-> TRUE, path |-> "send", result |-> 0, then |-> "idle"]
      BY <2>2 DEF Idle
    <3>2. then \in Pcs /\ "send" \in Path
      BY DEF Pcs, Path
    <3> HIDE DEF passed
    <3>3. passed \in Processor
      BY <3>1, <3>2 DEF Processor
    <3>4. QED
      BY <2>2, <3>1, <3>3
  <2>3. QED
    BY <2>1, <2>2
<1> HIDE DEF clamped, passed
<1>7. CASE result < 0
  <2>1. cpu' = [cpu EXCEPT ![c] = clamped]
    BY <1>4, <1>7
  <2>2. /\ cpu' \in [Cpu -> Processor] /\ \A d \in Cpu \ {c} : cpu'[d] = cpu[d]
        /\ cpu'[c] = clamped
    BY <1>5, <2>1
  <2>3. QED
    BY <1>3, <1>5, <1>7, <2>2
<1>8. CASE result >= 0
  <2>1. cpu' = [cpu EXCEPT ![c] = passed]
    BY <1>1, <1>4, <1>8
  <2>2. /\ cpu' \in [Cpu -> Processor] /\ \A d \in Cpu \ {c} : cpu'[d] = cpu[d]
        /\ cpu'[c] = passed
    BY <1>6, <2>1
  <2>3. cpu'[c].n \in Nat
    BY <2>2 DEF Processor
  <2>4. QED
    BY <1>3, <1>6, <1>8, <2>2, <2>3
<1>9. QED
  BY <1>1, <1>7, <1>8

-----------------------------------------------------------------------------
(* Where a list is counted by the gauge of sends, by that of receives, and *)
(* by the filter's own count of receives.                                  *)
OnSend    == {"sendCheck", "sendTrack", "sendDown", "sendComplete"}
OnReceive == {"receiveCheck", "receiveTrack", "indicate"}
OnTrack   == {"indicate", "receiveUntrack", "returnUntrack"}

Sent     == miniport.forwarded + Carried(OnSend, "none")
Received == protocol + Carried(OnReceive, "none")
Tracked  == protocol + Carried(OnTrack, "receive")
Asked    == IF oid \in {"called", "below"} THEN 1 ELSE 0

Exact ==
  /\ "send" \notin disturbed => gauge["send"] = Sent
  /\ "receive" \notin disturbed => gauge["receive"] = Received
  /\ "oid" \notin disturbed => gauge["oid"] = Asked

(* Only a disturbed gauge goes below zero; what a clamped receive has left *)
(* to do is to untrack its lists.                                          *)
ClampsAreDisturbed ==
  \A c \in Cpu : At(c, "clamp") =>
    /\ cpu[c].path \in disturbed
    /\ cpu[c].path = "receive" <=> cpu[c].then = "returnUntrack"

CountInv ==
  /\ TypeOK
  /\ IsFiniteSet(Lists(Cpu))
  /\ ClampsAreDisturbed
  /\ Exact
  /\ "refused" \in disturbed \/ gauge["send"] <= Sent
  /\ tracked.rcvs = Tracked

(* A step balances if what one processor does is booked everywhere.        *)
OwnSent(c)     == miniport.forwarded + Share(c, OnSend, "none")
OwnReceived(c) == protocol + Share(c, OnReceive, "none")
OwnTracked(c)  == protocol + Share(c, OnTrack, "receive")

(* Then the books are right after it, too.                                 *)
LEMMA StepBalances ==
  ASSUME CountInv, NEW c \in Cpu,
         cpu' \in [Cpu -> Processor], \A d \in Cpu \ {c} : cpu'[d] = cpu[d],
         running' \in BOOLEAN, gauge' \in [Path -> Int], tracked' \in [sends : Int, rcvs : Int],
         miniport' \in [forwarded : Nat, injected : Nat], protocol' \in Nat,
         oid' \in {"none", "called", "below", "completing"},
         clone' \in BOOLEAN, pendingOid' \in BOOLEAN, odd' \in 0..MaxOdd,
         disturbed' \subseteq Path \cup {"refused"}, disturbed \subseteq disturbed',
         At(c, "clamp")' => /\ cpu'[c].path \in disturbed'
                            /\ cpu'[c].path = "receive" <=> cpu'[c].then = "returnUntrack",
         "send" \notin disturbed' =>
           gauge'["send"] - gauge["send"] = OwnSent(c)' - OwnSent(c),
         "receive" \notin disturbed' =>
           gauge'["receive"] - gauge["receive"] = OwnReceived(c)' - OwnReceived(c),
         "oid" \notin disturbed' => gauge'["oid"] - gauge["oid"] = Asked' - Asked,
         "refused" \notin disturbed' =>
           \/ gauge'["send"] <= 0
           \/ gauge'["send"] - gauge["send"] <= OwnSent(c)' - OwnSent(c),
         tracked'.rcvs - tracked.rcvs = OwnTracked(c)' - OwnTracked(c)
  PROVE  CountInv'
<1>1. /\ cpu[c].n \in Nat /\ cpu'[c].n \in Nat /\ IsFiniteSet(Lists(Cpu))
      /\ gauge \in [Path -> Int] /\ tracked.rcvs \in Int /\ tracked'.rcvs \in Int
      /\ miniport.forwarded \in Nat /\ miniport'.forwarded \in Nat /\ protocol \in Nat
  BY DEF CountInv, TypeOK, Processor
<1>2. PICK s \in Nat : /\ Carried(OnSend, "none") = s + Share(c, OnSend, "none")
                       /\ Carried(OnSend, "none")' = s + Share(c, OnSend, "none")'
  BY <1>1, CarriedMoves DEF OnSend
<1>3. PICK r \in Nat : /\ Carried(OnReceive, "none") = r + Share(c, OnReceive, "none")
                       /\ Carried(OnReceive, "none")' = r + Share(c, OnReceive, "none")'
  BY <1>1, CarriedMoves DEF OnReceive
<1>4. PICK t \in Nat : /\ Carried(OnTrack, "receive") = t + Share(c, OnTrack, "receive")
                       /\ Carried(OnTrack, "receive")' = t + Share(c, OnTrack, "receive")'
  BY <1>1, CarriedMoves DEF OnTrack
<1>5. IsFiniteSet(Lists(Cpu))'
  BY <1>1, CarriedMoves
<1>6. /\ Share(c, OnSend, "none") \in Nat /\ Share(c, OnSend, "none")' \in Nat
      /\ Share(c, OnReceive, "none") \in Nat /\ Share(c, OnReceive, "none")' \in Nat
      /\ Share(c, OnTrack, "receive") \in Nat /\ Share(c, OnTrack, "receive")' \in Nat
  BY <1>1 DEF Share
<1>7. /\ Sent = s + OwnSent(c) /\ Sent' = s + OwnSent(c)'
      /\ Received = r + OwnReceived(c) /\ Received' = r + OwnReceived(c)'
      /\ Tracked = t + OwnTracked(c) /\ Tracked' = t + OwnTracked(c)'
  BY <1>1, <1>2, <1>3, <1>4, <1>6 DEF Sent, Received, Tracked, OwnSent, OwnReceived, OwnTracked
<1>8. /\ OwnSent(c) \in Nat /\ OwnSent(c)' \in Nat
      /\ OwnReceived(c) \in Nat /\ OwnReceived(c)' \in Nat
      /\ OwnTracked(c) \in Nat /\ OwnTracked(c)' \in Nat
  BY <1>1, <1>6 DEF OwnSent, OwnReceived, OwnTracked
<1>9. gauge["send"] \in Int /\ gauge["receive"] \in Int /\ gauge["oid"] \in Int
  BY <1>1 DEF Path
<1>10. gauge'["send"] \in Int /\ gauge'["receive"] \in Int /\ gauge'["oid"] \in Int
  BY DEF Path
<1>11. Asked \in Int /\ Asked' \in Int
  BY DEF Asked
<1>12. Exact'
  <2>1. "send" \notin disturbed' => gauge'["send"] = Sent'
    BY <1>7, <1>8, <1>9, <1>10 DEF CountInv, Exact
  <2>2. "receive" \notin disturbed' => gauge'["receive"] = Received'
    BY <1>7, <1>8, <1>9, <1>10 DEF CountInv, Exact
  <2>3. "oid" \notin disturbed' => gauge'["oid"] = Asked'
    BY <1>9, <1>10, <1>11 DEF CountInv, Exact
  <2>4. QED
    BY <2>1, <2>2, <2>3 DEF Exact
<1>13. ("refused" \in disturbed \/ gauge["send"] <= Sent)'
  BY <1>7, <1>8, <1>9, <1>10 DEF CountInv
<1>14. tracked'.rcvs = Tracked' /\ Tracked' \in Nat
  BY <1>1, <1>7, <1>8 DEF CountInv
<1>15. TypeOK'
  <2>1. tracked' \in [sends : Int, rcvs : Nat]
    BY <1>14
  <2>2. QED
    BY <2>1 DEF TypeOK
<1>16. ClampsAreDisturbed'
  <2>1. \A d \in Cpu \ {c} : At(d, "clamp")' = At(d, "clamp")
    BY DEF At
  <2>2. QED
    BY <2>1 DEF CountInv, ClampsAreDisturbed
<1>17. QED
  BY <1>5, <1>12, <1>13, <1>14, <1>15, <1>16 DEF CountInv

-----------------------------------------------------------------------------
(* What is known of the processor that takes a step.                       *)
LEMMA Known ==
  ASSUME CountInv, NEW c \in Cpu
  PROVE  /\ cpu \in [Cpu -> Processor] /\ cpu[c].n \in Nat /\ cpu[c].pend \in BOOLEAN
         /\ running \in BOOLEAN /\ gauge \in [Path -> Int]
         /\ tracked \in [sends : Int, rcvs : Int]
         /\ miniport \in [forwarded : Nat, injected : Nat] /\ protocol \in Nat
         /\ oid \in {"none", "called", "below", "completing"}
         /\ clone \in BOOLEAN /\ pendingOid \in BOOLEAN /\ odd \in 0..MaxOdd
         /\ disturbed \subseteq Path \cup {"refused"}
<1>1. TypeOK
  BY DEF CountInv
<1>2. tracked \in [sends : Int, rcvs : Int]
  BY <1>1 DEF TypeOK
<1>3. cpu[c] \in Processor
  BY <1>1 DEF TypeOK
<1>4. QED
  BY <1>1, <1>2, <1>3 DEF TypeOK, Processor

(* What one processor is counted with are numbers.                         *)
LEMMA OwnType ==
  ASSUME CountInv, NEW c \in Cpu
  PROVE  /\ OwnSent(c) \in Int /\ OwnReceived(c) \in Int /\ OwnTracked(c) \in Int
         /\ Asked \in Int /\ gauge["send"] \in Int /\ gauge["receive"] \in Int
         /\ gauge["oid"] \in Int /\ tracked.rcvs \in Int
  BY Known DEF Share, OwnSent, OwnReceived, OwnTracked, Asked, Path

(* What fits in is a number of lists.                                      *)
LEMMA RoomIsCounted ==
  ASSUME CountInv, NEW c \in Cpu, NEW n \in Room
  PROVE  n \in Nat
<1>1. Carried({"sendCheck", "sendTrack", "sendDown", "sendComplete",
               "receiveCheck", "receiveTrack", "indicate",
               "receiveUntrack", "returnUntrack"}, "receive") \in Nat
  BY Known, CarriedType DEF CountInv
<1>2. QED
  BY <1>1, Known, BoundAssumption DEF Room

(* A send is counted, tracked, and handed down, or refused.                *)
LEMMA SendsBalance ==
  ASSUME CountInv, NEW c \in Cpu,
         SendCount(c) \/ SendChecked(c) \/ SendRefused(c) \/ SendTrack(c) \/ SendDown(c)
  PROVE  CountInv'
<1> USE Known
<1>1. CASE SendCount(c)
  <2>1. PICK n \in Room : Add("send", n) /\ Begin(c, "sendCheck", n, TRUE)
    BY <1>1 DEF SendCount
  <2>2. n \in Nat
    BY RoomIsCounted
  <2>3. /\ cpu' \in [Cpu -> Processor] /\ \A d \in Cpu \ {c} : cpu'[d] = cpu[d]
        /\ cpu'[c].pc = "sendCheck" /\ cpu'[c].n = n
    BY <2>1, <2>2, BeginCarries DEF Pcs
  <2>4. /\ gauge' \in [Path -> Int] /\ gauge'["send"] = gauge["send"] + n
        /\ gauge'["receive"] = gauge["receive"] /\ gauge'["oid"] = gauge["oid"]
    BY <2>1, <2>2 DEF Add, Path
  <2>5. QED
    BY <1>1, <2>2, <2>3, <2>4, StepBalances
    DEF SendCount, At, Share, OwnSent, OwnReceived, OwnTracked, Asked, OnSend, OnReceive,
        OnTrack, oidVars, Path
<1>2. CASE SendChecked(c)
  <2>1. /\ cpu' \in [Cpu -> Processor] /\ \A d \in Cpu \ {c} : cpu'[d] = cpu[d]
        /\ cpu'[c].pc = "sendTrack" /\ cpu'[c].n = cpu[c].n
    BY <1>2, GotoCarries DEF SendChecked, Pcs
  <2>2. QED
    BY <1>2, <2>1, StepBalances
    DEF SendChecked, At, Share, OwnSent, OwnReceived, OwnTracked, Asked, OnSend, OnReceive,
        OnTrack, oidVars, Path
<1>3. CASE SendRefused(c)
  <2>1. /\ cpu' \in [Cpu -> Processor] /\ \A d \in Cpu \ {c} : cpu'[d] = cpu[d]
        /\ cpu'[c].pc = "idle"
    BY <1>3, GotoCarries DEF SendRefused, Pcs
  <2>2. odd' \in 0..MaxOdd
    BY <1>3, BoundAssumption DEF SendRefused, Odd
  <2>3. QED
    BY <1>3, <2>1, <2>2, StepBalances
    DEF SendRefused, At, Share, OwnSent, OwnReceived, OwnTracked, Asked, OnSend, OnReceive,
        OnTrack, oidVars, Path
<1>4. CASE SendTrack(c)
  <2>1. /\ cpu' \in [Cpu -> Processor] /\ \A d \in Cpu \ {c} : cpu'[d] = cpu[d]
        /\ cpu'[c].pc = "sendDown" /\ cpu'[c].n = cpu[c].n
    BY <1>4, GotoCarries DEF SendTrack, Pcs
  <2>2. tracked' \in [sends : Int, rcvs : Int] /\ tracked'.rcvs = tracked.rcvs
    BY <1>4 DEF SendTrack
  <2>3. QED
    BY <1>4, <2>1, <2>2, StepBalances
    DEF SendTrack, At, Share, OwnSent, OwnReceived, OwnTracked, Asked, OnSend, OnReceive,
        OnTrack, oidVars, Path
<1>5. CASE SendDown(c)
  <2>1. /\ cpu' \in [Cpu -> Processor] /\ \A d \in Cpu \ {c} : cpu'[d] = cpu[d]
        /\ cpu'[c].pc = "idle"
    BY <1>5, GotoCarries DEF SendDown, Pcs
  <2>2. /\ miniport' \in [forwarded : Nat, injected : Nat]
        /\ miniport'.forwarded = miniport.forwarded + cpu[c].n
    BY <1>5 DEF SendDown
  <2>3. QED
    BY <1>5, <2>1, <2>2, StepBalances
    DEF SendDown, At, Share, OwnSent, OwnReceived, OwnTracked, Asked, OnSend, OnReceive,
        OnTrack, oidVars, Path
<1>6. QED
  BY <1>1, <1>2, <1>3, <1>4, <1>5

(* Lists come back from the miniport: forwarded ones are still counted by  *)
(* the gauge, injected ones never were.                                    *)
LEMMA CompletionsBalance ==
  ASSUME CountInv, NEW c \in Cpu, CompleteTrack(c) \/ CompleteCount(c)
  PROVE  CountInv'
<1> USE Known
<1>1. CASE CompleteTrack(c)
  <2>1. PICK f \in 0..miniport.forwarded, i \in 0..miniport.injected :
          /\ miniport' = [forwarded |-> miniport.forwarded - f, injected |-> miniport.injected - i]
          /\ tracked' = [tracked EXCEPT !.sends = @ - (f + i)]
          /\ Begin(c, "sendComplete", f + i, TRUE)
          /\ Disturb("send", i > 0)
    BY <1>1 DEF CompleteTrack
  <2>2. f \in Nat /\ i \in Nat /\ f + i \in Nat
    OBVIOUS
  <2>3. /\ cpu' \in [Cpu -> Processor] /\ \A d \in Cpu \ {c} : cpu'[d] = cpu[d]
        /\ cpu'[c].pc = "sendComplete" /\ cpu'[c].n = f + i
    BY <2>1, <2>2, BeginCarries DEF Pcs
  <2>4. /\ miniport' \in [forwarded : Nat, injected : Nat]
        /\ miniport'.forwarded = miniport.forwarded - f
    BY <2>1
  <2>5. /\ tracked' \in [sends : Int, rcvs : Int]
        /\ tracked'.rcvs = tracked.rcvs
    BY <2>1, <2>2
  <2>6. disturbed' = IF i > 0 THEN disturbed \cup {"send"} ELSE disturbed
    BY <2>1 DEF Disturb
  <2>7. QED
    BY <1>1, <2>2, <2>3, <2>4, <2>5, <2>6, StepBalances
    DEF CompleteTrack, At, Share, OwnSent, OwnReceived, OwnTracked, Asked, OnSend, OnReceive,
        OnTrack, oidVars, Path
<1>2. CASE CompleteCount(c)
  <2>1. Subtract(c, "send", cpu[c].n, "idle") /\ At(c, "sendComplete")
    BY <1>2 DEF CompleteCount
  <2>2. /\ cpu' \in [Cpu -> Processor] /\ \A d \in Cpu \ {c} : cpu'[d] = cpu[d]
        /\ gauge' \in [Path -> Int] /\ gauge'["send"] = gauge["send"] - cpu[c].n
        /\ gauge'["receive"] = gauge["receive"] /\ gauge'["oid"] = gauge["oid"]
        /\ \/ /\ gauge'["send"] < 0 /\ cpu'[c].pc = "clamp"
              /\ cpu'[c].path = "send" /\ cpu'[c].then = "idle"
           \/ cpu'[c].pc = "idle"
    BY <2>1, SubtractCarries DEF Path
  <2>3. "send" \notin disturbed => gauge'["send"] >= 0
    <3>1. PICK s \in Nat : Carried(OnSend, "none") = s + Share(c, OnSend, "none")
      BY CarriedMoves, <2>2 DEF CountInv, Processor
    <3>2. Share(c, OnSend, "none") = cpu[c].n
      BY <2>1 DEF Share, OnSend, At
    <3>3. QED
      BY <2>2, <3>1, <3>2 DEF CountInv, Exact, Sent, Path
  <2>4. QED
    BY <1>2, <2>1, <2>2, <2>3, StepBalances
    DEF CompleteCount, At, Share, OwnSent, OwnReceived, OwnTracked, Asked, OnSend, OnReceive,
        OnTrack, oidVars, Path
<1>3. QED
  BY <1>1, <1>2

(* A receive is counted, tracked and indicated, or refused; lists that     *)
(* cannot pend are untracked at once.                                      *)
LEMMA ReceivesBalance ==
  ASSUME CountInv, NEW c \in Cpu,
         \/ ReceiveCount(c) \/ ReceiveChecked(c) \/ ReceiveRefused(c) \/ ReceiveTrack(c)
         \/ Indicate(c) \/ ReceiveUntrack(c)
  PROVE  CountInv'
<1> USE Known
<1>1. CASE ReceiveCount(c)
  <2>1. PICK n \in Room, pend \in BOOLEAN :
          Add("receive", n) /\ Begin(c, "receiveCheck", n, pend) /\ Odd(~pend)
    BY <1>1 DEF ReceiveCount
  <2>2. n \in Nat
    BY RoomIsCounted
  <2>3. /\ cpu' \in [Cpu -> Processor] /\ \A d \in Cpu \ {c} : cpu'[d] = cpu[d]
        /\ cpu'[c].pc = "receiveCheck" /\ cpu'[c].n = n
    BY <2>1, <2>2, BeginCarries DEF Pcs
  <2>4. /\ gauge' \in [Path -> Int] /\ gauge'["receive"] = gauge["receive"] + n
        /\ gauge'["send"] = gauge["send"] /\ gauge'["oid"] = gauge["oid"]
    BY <2>1, <2>2 DEF Add, Path
  <2>5. odd' \in 0..MaxOdd
    BY <2>1, BoundAssumption DEF Odd
  <2>6. QED
    BY <1>1, <2>2, <2>3, <2>4, <2>5, StepBalances
    DEF ReceiveCount, At, Share, OwnSent, OwnReceived, OwnTracked, Asked, OnSend, OnReceive,
        OnTrack, oidVars, Path
<1>2. CASE ReceiveChecked(c)
  <2>1. /\ cpu' \in [Cpu -> Processor] /\ \A d \in Cpu \ {c} : cpu'[d] = cpu[d]
        /\ cpu'[c].pc = "receiveTrack" /\ cpu'[c].n = cpu[c].n
    BY <1>2, GotoCarries DEF ReceiveChecked, Pcs
  <2>2. QED
    BY <1>2, <2>1, StepBalances
    DEF ReceiveChecked, At, Share, OwnSent, OwnReceived, OwnTracked, Asked, OnSend, OnReceive,
        OnTrack, oidVars, Path
<1>3. CASE ReceiveRefused(c)
  <2>1. /\ cpu' \in [Cpu -> Processor] /\ \A d \in Cpu \ {c} : cpu'[d] = cpu[d]
        /\ cpu'[c].pc = "idle"
    BY <1>3, GotoCarries DEF ReceiveRefused, Pcs
  <2>2. odd' \in 0..MaxOdd
    BY <1>3, BoundAssumption DEF ReceiveRefused, Odd
  <2>3. disturbed' = disturbed \cup {"receive"}
    BY <1>3 DEF ReceiveRefused, Disturb
  <2>4. QED
    BY <1>3, <2>1, <2>2, <2>3, StepBalances
    DEF ReceiveRefused, At, Share, OwnSent, OwnReceived, OwnTracked, Asked, OnSend, OnReceive,
        OnTrack, oidVars, Path
<1>4. CASE ReceiveTrack(c)
  <2>1. /\ cpu' \in [Cpu -> Processor] /\ \A d \in Cpu \ {c} : cpu'[d] = cpu[d]
        /\ cpu'[c].pc = "indicate" /\ cpu'[c].n = cpu[c].n
    BY <1>4, GotoCarries DEF ReceiveTrack, Pcs
  <2>2. tracked' \in [sends : Int, rcvs : Int] /\ tracked'.rcvs = tracked.rcvs + cpu[c].n
    BY <1>4 DEF ReceiveTrack
  <2>3. QED
    BY <1>4, <2>1, <2>2, StepBalances
    DEF ReceiveTrack, At, Share, OwnSent, OwnReceived, OwnTracked, Asked, OnSend, OnReceive,
        OnTrack, oidVars, Path
<1>5. CASE Indicate(c) /\ cpu[c].pend
  <2>1. Goto(c, "idle") /\ protocol' = protocol + cpu[c].n
    BY <1>5 DEF Indicate
  <2>2. /\ cpu' \in [Cpu -> Processor] /\ \A d \in Cpu \ {c} : cpu'[d] = cpu[d]
        /\ cpu'[c].pc = "idle"
    BY <2>1, GotoCarries DEF Pcs
  <2>3. disturbed' = disturbed
    BY <1>5 DEF Indicate, Disturb
  <2>4. QED
    BY <1>5, <2>1, <2>2, <2>3, StepBalances
    DEF Indicate, At, Share, OwnSent, OwnReceived, OwnTracked, Asked, OnSend, OnReceive,
        OnTrack, oidVars, Path
<1>6. CASE Indicate(c) /\ ~cpu[c].pend
  <2>1. Goto(c, "receiveUntrack") /\ protocol' = protocol
    BY <1>6 DEF Indicate
  <2>2. /\ cpu' \in [Cpu -> Processor] /\ \A d \in Cpu \ {c} : cpu'[d] = cpu[d]
        /\ cpu'[c].pc = "receiveUntrack" /\ cpu'[c].n = cpu[c].n
    BY <2>1, GotoCarries DEF Pcs
  <2>3. disturbed' = disturbed \cup {"receive"}
    BY <1>6 DEF Indicate, Disturb
  <2>4. QED
    BY <1>6, <2>1, <2>2, <2>3, StepBalances
    DEF Indicate, At, Share, OwnSent, OwnReceived, OwnTracked, Asked, OnSend, OnReceive,
        OnTrack, oidVars, Path
<1>7. CASE ReceiveUntrack(c)
  <2>1. /\ cpu' \in [Cpu -> Processor] /\ \A d \in Cpu \ {c} : cpu'[d] = cpu[d]
        /\ cpu'[c].pc = "idle"
    BY <1>7, GotoCarries DEF ReceiveUntrack, Pcs
  <2>2. tracked' \in [sends : Int, rcvs : Int] /\ tracked'.rcvs = tracked.rcvs - cpu[c].n
    BY <1>7 DEF ReceiveUntrack
  <2>3. QED
    BY <1>7, <2>1, <2>2, StepBalances
    DEF ReceiveUntrack, At, Share, OwnSent, OwnReceived, OwnTracked, Asked, OnSend, OnReceive,
        OnTrack, oidVars, Path
<1>8. QED
  BY <1>1, <1>2, <1>3, <1>4, <1>5, <1>6, <1>7

(* Lists are returned: counted, and only then untracked.                   *)
LEMMA ReturnsBalance ==
  ASSUME CountInv, NEW c \in Cpu, ReturnCount(c) \/ ReturnUntrack(c)
  PROVE  CountInv'
<1> USE Known
<1>1. CASE ReturnCount(c)
  <2>1. PICK n \in 1..protocol :
          protocol' = protocol - n /\ Subtract(c, "receive", n, "returnUntrack")
    BY <1>1 DEF ReturnCount
  <2>2. n \in Nat /\ protocol' \in Nat /\ n <= protocol
    BY <2>1
  <2>3. /\ cpu' \in [Cpu -> Processor] /\ \A d \in Cpu \ {c} : cpu'[d] = cpu[d]
        /\ gauge' \in [Path -> Int] /\ gauge'["receive"] = gauge["receive"] - n
        /\ gauge'["send"] = gauge["send"] /\ gauge'["oid"] = gauge["oid"]
        /\ cpu'[c].n = n
        /\ \/ /\ gauge'["receive"] < 0 /\ cpu'[c].pc = "clamp"
              /\ cpu'[c].path = "receive" /\ cpu'[c].then = "returnUntrack"
           \/ cpu'[c].pc = "returnUntrack"
    BY <2>1, <2>2, SubtractCarries DEF Path
  <2>4. "receive" \notin disturbed => gauge'["receive"] >= 0
    <3>1. Carried(OnReceive, "none") \in Nat
      BY CarriedType DEF CountInv
    <3>2. QED
      BY <2>2, <2>3, <3>1 DEF CountInv, Exact, Received, Path
  <2>5. At(c, "clamp")' => /\ cpu'[c].path \in disturbed'
                           /\ cpu'[c].path = "receive" /\ cpu'[c].then = "returnUntrack"
    BY <1>1, <2>3, <2>4 DEF ReturnCount, At, Path
  <2>6. /\ OwnSent(c)' = OwnSent(c) /\ Asked' = Asked
        /\ OwnReceived(c)' = OwnReceived(c) - n /\ OwnTracked(c)' = OwnTracked(c)
    BY <1>1, <2>1, <2>2, <2>3
    DEF ReturnCount, At, Share, OwnSent, OwnReceived, OwnTracked, Asked, OnSend, OnReceive,
        OnTrack, oidVars
  <2>7. /\ OwnSent(c) \in Int /\ OwnReceived(c) \in Int /\ OwnTracked(c) \in Int
        /\ Asked \in Int /\ gauge["send"] \in Int /\ gauge["receive"] \in Int
        /\ gauge["oid"] \in Int /\ tracked.rcvs \in Int
    BY DEF Share, OwnSent, OwnReceived, OwnTracked, Asked, Path
  <2>8. QED
    BY <1>1, <2>2, <2>3, <2>5, <2>6, <2>7, StepBalances DEF ReturnCount, oidVars
<1>2. CASE ReturnUntrack(c)
  <2>1. /\ cpu' \in [Cpu -> Processor] /\ \A d \in Cpu \ {c} : cpu'[d] = cpu[d]
        /\ cpu'[c].pc = "idle"
    BY <1>2, GotoCarries DEF ReturnUntrack, Pcs
  <2>2. tracked' \in [sends : Int, rcvs : Int] /\ tracked'.rcvs = tracked.rcvs - cpu[c].n
    BY <1>2 DEF ReturnUntrack
  <2>3. QED
    BY <1>2, <2>1, <2>2, StepBalances
    DEF ReturnUntrack, At, Share, OwnSent, OwnReceived, OwnTracked, Asked, OnSend, OnReceive,
        OnTrack, oidVars, Path
<1>3. QED
  BY <1>1, <1>2

(* A request is counted when it is asked and no longer when it completes.  *)
LEMMA RequestsBalance ==
  ASSUME CountInv, OidOK, NEW c \in Cpu,
         \/ OidCount(c) \/ OidClone(c) \/ OidCloneFails(c) \/ OidPends(c)
         \/ OidComplete(c) \/ OidClear(c) \/ OidFree(c) \/ OidUp(c)
         \/ CancelLook(c) \/ CancelRead(c)
  PROVE  CountInv'
<1> USE Known
<1>1. CASE OidCount(c)
  <2>1. Add("oid", 1) /\ Begin(c, "oidClone", 0, TRUE) /\ oid = "none" /\ oid' = "called"
    BY <1>1 DEF OidCount
  <2>2. /\ cpu' \in [Cpu -> Processor] /\ \A d \in Cpu \ {c} : cpu'[d] = cpu[d]
        /\ cpu'[c].pc = "oidClone"
    BY <2>1, BeginCarries DEF Pcs
  <2>3. /\ gauge' \in [Path -> Int] /\ gauge'["oid"] = gauge["oid"] + 1
        /\ gauge'["send"] = gauge["send"] /\ gauge'["receive"] = gauge["receive"]
    BY <2>1 DEF Add, Path
  <2>4. QED
    BY <1>1, <2>1, <2>2, <2>3, StepBalances
    DEF OidCount, At, Share, OwnSent, OwnReceived, OwnTracked, Asked, OnSend, OnReceive,
        OnTrack, oidVars, Path
<1>2. CASE OidClone(c)
  <2>1. /\ cpu' \in [Cpu -> Processor] /\ \A d \in Cpu \ {c} : cpu'[d] = cpu[d]
        /\ cpu'[c].pc = "oidDown"
    BY <1>2, GotoCarries DEF OidClone, Pcs
  <2>2. QED
    BY <1>2, <2>1, StepBalances
    DEF OidClone, At, Share, OwnSent, OwnReceived, OwnTracked, Asked, OnSend, OnReceive,
        OnTrack, oidVars, Path
<1>3. CASE OidCloneFails(c)
  <2>1. /\ cpu' \in [Cpu -> Processor] /\ \A d \in Cpu \ {c} : cpu'[d] = cpu[d]
        /\ cpu'[c].pc = "idle"
    BY <1>3, GotoCarries DEF OidCloneFails, Pcs
  <2>2. odd' \in 0..MaxOdd
    BY <1>3, BoundAssumption DEF OidCloneFails, Odd
  <2>3. disturbed' = disturbed \cup {"oid"}
    BY <1>3 DEF OidCloneFails, Disturb
  <2>4. QED
    BY <1>3, <2>1, <2>2, <2>3, StepBalances
    DEF OidCloneFails, At, Share, OwnSent, OwnReceived, OwnTracked, Asked, OnSend, OnReceive,
        OnTrack, oidVars, Path
<1>4. CASE OidPends(c)
  <2>1. /\ cpu' \in [Cpu -> Processor] /\ \A d \in Cpu \ {c} : cpu'[d] = cpu[d]
        /\ cpu'[c].pc = "idle"
    BY <1>4, GotoCarries DEF OidPends, Pcs
  <2>2. oid = "called"
    BY <1>4 DEF OidPends, OidOK, PlacesAgree
  <2>3. QED
    BY <1>4, <2>1, <2>2, StepBalances
    DEF OidPends, At, Share, OwnSent, OwnReceived, OwnTracked, Asked, OnSend, OnReceive,
        OnTrack, oidVars, Path
<1>5. CASE OidComplete(c)
  <2>1. Subtract(c, "oid", 1, "oidClear") /\ oid' = "completing"
    BY <1>5 DEF OidComplete
  <2>2. oid \in {"called", "below"} /\ (At(c, "oidDown") \/ At(c, "idle"))
    BY <1>5 DEF OidComplete, OidOK, PlacesAgree
  <2>3. /\ cpu' \in [Cpu -> Processor] /\ \A d \in Cpu \ {c} : cpu'[d] = cpu[d]
        /\ gauge' \in [Path -> Int] /\ gauge'["oid"] = gauge["oid"] - 1
        /\ gauge'["send"] = gauge["send"] /\ gauge'["receive"] = gauge["receive"]
        /\ \/ /\ gauge'["oid"] < 0 /\ cpu'[c].pc = "clamp"
              /\ cpu'[c].path = "oid" /\ cpu'[c].then = "oidClear"
           \/ cpu'[c].pc = "oidClear"
    BY <2>1, SubtractCarries DEF Path
  <2>4. Asked = 1 /\ Asked' = 0
    BY <2>1, <2>2 DEF Asked
  <2>5. "oid" \notin disturbed => gauge'["oid"] >= 0
    BY <2>3, <2>4 DEF CountInv, Exact
  <2>6. QED
    BY <1>5, <2>2, <2>3, <2>4, <2>5, StepBalances
    DEF OidComplete, At, Share, OwnSent, OwnReceived, OwnTracked, OnSend, OnReceive,
        OnTrack, oidVars, Path
<1>6. CASE OidClear(c)
  <2>1. /\ cpu' \in [Cpu -> Processor] /\ \A d \in Cpu \ {c} : cpu'[d] = cpu[d]
        /\ cpu'[c].pc = "oidFree"
    BY <1>6, GotoCarries DEF OidClear, Pcs
  <2>2. /\ OwnSent(c)' = OwnSent(c) /\ Asked' = Asked
        /\ OwnReceived(c)' = OwnReceived(c) /\ OwnTracked(c)' = OwnTracked(c)
    BY <1>6, <2>1
    DEF OidClear, At, Share, OwnSent, OwnReceived, OwnTracked, Asked, OnSend, OnReceive, OnTrack
  <2>3. /\ UNCHANGED <<running, gauge, tracked, miniport, protocol, oid, odd, disturbed>>
        /\ clone' \in BOOLEAN /\ pendingOid' \in BOOLEAN /\ ~At(c, "clamp")'
    BY <1>6, <2>1 DEF OidClear, At
  <2>4. QED
    BY <2>1, <2>2, <2>3, OwnType, StepBalances
<1>7. CASE OidFree(c)
  <2>1. /\ cpu' \in [Cpu -> Processor] /\ \A d \in Cpu \ {c} : cpu'[d] = cpu[d]
        /\ cpu'[c].pc = "oidUp"
    BY <1>7, GotoCarries DEF OidFree, Pcs
  <2>2. /\ OwnSent(c)' = OwnSent(c) /\ Asked' = Asked
        /\ OwnReceived(c)' = OwnReceived(c) /\ OwnTracked(c)' = OwnTracked(c)
    BY <1>7, <2>1
    DEF OidFree, At, Share, OwnSent, OwnReceived, OwnTracked, Asked, OnSend, OnReceive, OnTrack
  <2>3. /\ UNCHANGED <<running, gauge, tracked, miniport, protocol, oid, odd, disturbed>>
        /\ clone' \in BOOLEAN /\ pendingOid' \in BOOLEAN /\ ~At(c, "clamp")'
    BY <1>7, <2>1 DEF OidFree, At
  <2>4. QED
    BY <2>1, <2>2, <2>3, OwnType, StepBalances
<1>8. CASE OidUp(c)
  <2>1. /\ cpu' \in [Cpu -> Processor] /\ \A d \in Cpu \ {c} : cpu'[d] = cpu[d]
        /\ cpu'[c].pc = "idle"
    BY <1>8, GotoCarries DEF OidUp, Pcs
  <2>2. oid = "completing"
    BY <1>8 DEF OidUp, OidOK, PlacesAgree
  <2>3. QED
    BY <1>8, <2>1, <2>2, StepBalances
    DEF OidUp, At, Share, OwnSent, OwnReceived, OwnTracked, Asked, OnSend, OnReceive,
        OnTrack, oidVars, Path
<1>9. CASE CancelLook(c)
  <2>1. /\ cpu' \in [Cpu -> Processor] /\ \A d \in Cpu \ {c} : cpu'[d] = cpu[d]
        /\ cpu'[c].pc = "cancelRead"
    BY <1>9, GotoCarries DEF CancelLook, Pcs
  <2>2. QED
    BY <1>9, <2>1, StepBalances
    DEF CancelLook, At, Share, OwnSent, OwnReceived, OwnTracked, Asked, OnSend, OnReceive,
        OnTrack, oidVars, Path
<1>10. CASE CancelRead(c)
  <2>1. /\ cpu' \in [Cpu -> Processor] /\ \A d \in Cpu \ {c} : cpu'[d] = cpu[d]
        /\ cpu'[c].pc = "idle"
    BY <1>10, GotoCarries DEF CancelRead, Pcs
  <2>2. QED
    BY <1>10, <2>1, StepBalances
    DEF CancelRead, At, Share, OwnSent, OwnReceived, OwnTracked, Asked, OnSend, OnReceive,
        OnTrack, oidVars, Path
<1>11. QED
  BY <1>1, <1>2, <1>3, <1>4, <1>5, <1>6, <1>7, <1>8, <1>9, <1>10

(* A clamp touches only a gauge that was disturbed, and takes it to zero.  *)
LEMMA ClampBalances ==
  ASSUME CountInv, NEW c \in Cpu, Clamp(c)
  PROVE  CountInv'
<1> USE Known
<1> DEFINE p == cpu[c].path
           then == cpu[c].then
<1>1. /\ At(c, "clamp") /\ Goto(c, then)
      /\ gauge' = [gauge EXCEPT ![p] = IF @ = cpu[c].result THEN 0 ELSE @]
      /\ UNCHANGED <<running, tracked, miniport, protocol, oidVars, odd, disturbed>>
  BY DEF Clamp
<1>2. p \in Path /\ then \in {"idle", "returnUntrack", "oidClear"}
  <2>1. cpu[c] \in Processor
    OBVIOUS
  <2>2. QED
    BY <2>1 DEF Processor
<1>3. p \in disturbed /\ (p = "receive" <=> then = "returnUntrack")
  BY <1>1 DEF CountInv, ClampsAreDisturbed
<1>4. /\ gauge' \in [Path -> Int] /\ gauge'[p] \in {0, gauge[p]}
      /\ \A q \in Path \ {p} : gauge'[q] = gauge[q]
  <2> HIDE DEF p
  <2> QED
    BY <1>1, <1>2
<1>5. /\ cpu' \in [Cpu -> Processor] /\ \A d \in Cpu \ {c} : cpu'[d] = cpu[d]
      /\ cpu'[c].pc = then /\ cpu'[c].n \in Nat
      /\ then # "idle" => cpu'[c].n = cpu[c].n
  <2> HIDE DEF then
  <2> QED
    BY <1>1, <1>2, GotoCarries DEF Pcs
<1>6. /\ OwnSent(c)' = OwnSent(c) /\ Asked' = Asked
      /\ OwnReceived(c)' = OwnReceived(c) /\ OwnTracked(c)' = OwnTracked(c)
  BY <1>1, <1>2, <1>3, <1>5
  DEF At, Share, OwnSent, OwnReceived, OwnTracked, Asked, OnSend, OnReceive, OnTrack, oidVars, Path
<1>7. /\ OwnSent(c) \in Int /\ OwnReceived(c) \in Int /\ OwnTracked(c) \in Int
      /\ Asked \in Int /\ gauge["send"] \in Int /\ gauge["receive"] \in Int
      /\ gauge["oid"] \in Int /\ tracked.rcvs \in Int
  BY DEF Share, OwnSent, OwnReceived, OwnTracked, Asked, Path
<1>8. \A q \in Path : q \notin disturbed => gauge'[q] = gauge[q]
  BY <1>3, <1>4
<1>9. gauge'["send"] = gauge["send"] \/ gauge'["send"] <= 0
  BY <1>4 DEF Path
<1>10. ~At(c, "clamp")'
  BY <1>2, <1>5 DEF At
<1>11. QED
  BY <1>1, <1>4, <1>5, <1>6, <1>7, <1>8, <1>9, <1>10, StepBalances DEF oidVars, Path

(* What is no processor's step: pauses, restarts, resets, injected packets.*)
LEMMA OthersBalance ==
  ASSUME CountInv, Pause \/ Restart \/ InjectDown \/ (\E p \in Path : Reset(p)) \/ UNCHANGED vars
  PROVE  CountInv'
<1>1. UNCHANGED <<cpu, tracked, protocol, oidVars>>
  BY DEF Pause, Restart, InjectDown, Reset, vars, oidVars
<1>2. /\ UNCHANGED <<Carried(OnSend, "none"), Carried(OnReceive, "none"), Carried(OnTrack, "receive")>>
      /\ UNCHANGED Lists(Cpu)
  BY <1>1 DEF Carried, Where, Lists
<1>3. \/ gauge' = gauge /\ disturbed' = disturbed
      \/ \E p \in Path : gauge' = [gauge EXCEPT ![p] = 0] /\ disturbed' = disturbed \cup {p}
  BY DEF Pause, Restart, InjectDown, Reset, Disturb, vars
<1>4. /\ miniport' \in [forwarded : Nat, injected : Nat]
      /\ miniport'.forwarded = miniport.forwarded
  <2>1. miniport \in [forwarded : Nat, injected : Nat]
    BY DEF CountInv, TypeOK
  <2>2. \/ miniport' = miniport
        \/ miniport' = [miniport EXCEPT !.injected = @ + 1]
    BY DEF Pause, Restart, InjectDown, Reset, vars
  <2>3. QED
    BY <2>1, <2>2
<1>5. odd' \in 0..MaxOdd /\ running' \in BOOLEAN
  <2>1. MaxOdd \in Nat /\ odd \in 0..MaxOdd /\ running \in BOOLEAN
    BY BoundAssumption DEF CountInv, TypeOK
  <2>2. odd' = odd \/ (odd < MaxOdd /\ odd' = odd + 1)
    BY DEF Pause, Restart, InjectDown, Reset, Odd, vars
  <2>3. running' \in {running, TRUE, FALSE}
    BY DEF Pause, Restart, InjectDown, Reset, vars
  <2>4. odd' \in 0..MaxOdd
    BY <2>1, <2>2
  <2>5. running' \in BOOLEAN
    BY <2>1, <2>3
  <2>6. QED
    BY <2>4, <2>5
<1>6. /\ gauge' \in [Path -> Int] /\ disturbed' \subseteq Path \cup {"refused"}
  BY <1>3 DEF CountInv, TypeOK
<1>7. TypeOK'
  BY <1>1, <1>4, <1>5, <1>6 DEF CountInv, TypeOK, oidVars
<1>8. /\ Sent' = Sent /\ Received' = Received /\ Tracked' = Tracked /\ Asked' = Asked
      /\ Sent \in Nat
  <2>1. Carried(OnSend, "none") \in Nat
    <3>1. CASE Cpu = {}
      BY <3>1, FS_EmptySet DEF Carried, Where, Lists
    <3>2. CASE Cpu # {}
      BY <3>2, Known, CarriedType DEF CountInv
    <3>3. QED
      BY <3>1, <3>2
  <2>2. miniport.forwarded \in Nat
    BY DEF CountInv, TypeOK
  <2>3. QED
    BY <1>1, <1>2, <1>4, <2>1, <2>2 DEF Sent, Received, Tracked, Asked, oidVars
<1>9. \A p \in Path : p \notin disturbed' => gauge'[p] = gauge[p] /\ p \notin disturbed
  BY <1>3 DEF CountInv, TypeOK
<1>10. Exact'
  BY <1>8, <1>9 DEF CountInv, Exact, Path
<1>11. gauge'["send"] = gauge["send"] \/ gauge'["send"] = 0
  BY <1>3 DEF CountInv, TypeOK, Path
<1>12. ("refused" \in disturbed \/ gauge["send"] <= Sent)'
  BY <1>3, <1>8, <1>11 DEF CountInv
<1>13. ClampsAreDisturbed'
  BY <1>1, <1>3 DEF CountInv, ClampsAreDisturbed, At
<1>14. QED
  BY <1>1, <1>2, <1>7, <1>8, <1>10, <1>12, <1>13 DEF CountInv

-----------------------------------------------------------------------------
(* Every step keeps the books.                                             *)
LEMMA StepCounts == IInv /\ CountInv /\ [Next]_vars => CountInv'
<1> SUFFICES ASSUME IInv, CountInv, [Next]_vars PROVE CountInv'
  OBVIOUS
<1>1. OidOK
  BY DEF IInv
<1>2. CASE UNCHANGED vars \/ Pause \/ Restart \/ InjectDown \/ \E p \in Path : Reset(p)
  BY <1>2, OthersBalance
<1>3. ASSUME NEW c \in Cpu,
             \/ SendCount(c) \/ SendChecked(c) \/ SendRefused(c) \/ SendTrack(c) \/ SendDown(c)
             \/ CompleteTrack(c) \/ CompleteCount(c)
      PROVE  CountInv'
  BY <1>3, SendsBalance, CompletionsBalance
<1>4. ASSUME NEW c \in Cpu,
             \/ ReceiveCount(c) \/ ReceiveChecked(c) \/ ReceiveRefused(c) \/ ReceiveTrack(c)
             \/ Indicate(c) \/ ReceiveUntrack(c) \/ ReturnCount(c) \/ ReturnUntrack(c)
      PROVE  CountInv'
  BY <1>4, ReceivesBalance, ReturnsBalance
<1>5. ASSUME NEW c \in Cpu,
             \/ OidCount(c) \/ OidClone(c) \/ OidCloneFails(c) \/ OidPends(c)
             \/ OidComplete(c) \/ OidClear(c) \/ OidFree(c) \/ OidUp(c)
             \/ CancelLook(c) \/ CancelRead(c)
      PROVE  CountInv'
  BY <1>1, <1>5, RequestsBalance
<1>6. ASSUME NEW c \in Cpu, Clamp(c) PROVE CountInv'
  BY <1>6, ClampBalances
<1>7. QED
  BY <1>2, <1>3, <1>4, <1>5, <1>6 DEF Next

(* Initially nothing is carried and nothing is counted.                    *)
LEMMA InitCounts == Init => CountInv
<1> SUFFICES ASSUME Init PROVE CountInv
  OBVIOUS
<1>1. \A c \in Cpu : cpu[c] = Idle
  BY DEF Init
<1>2. Idle \in Processor /\ Idle.n = 0 /\ Idle.pc = "idle"
  BY DEF Idle, Processor, Pcs, Path
<1>3. Lists(Cpu) = {}
  <2>1. \A c \in Cpu : 1..cpu[c].n = {}
    BY <1>1, <1>2
  <2>2. QED
    BY <2>1 DEF Lists
<1>4. IsFiniteSet(Lists(Cpu))
  BY <1>3, FS_EmptySet
<1>5. ASSUME NEW pcs, NEW p PROVE Carried(pcs, p) = 0
  <2>1. Lists(Where(pcs, p)) = {}
    BY <1>3 DEF Lists, Where
  <2>2. QED
    BY <2>1, FS_EmptySet DEF Carried
<1>6. TypeOK
  <2>1. cpu \in [Cpu -> Processor]
    BY <1>2 DEF Init
  <2>2. odd \in 0..MaxOdd
    BY BoundAssumption DEF Init
  <2>3. gauge \in [Path -> Int] /\ tracked \in [sends : Int, rcvs : Nat]
        /\ miniport \in [forwarded : Nat, injected : Nat]
    BY DEF Init
  <2>4. QED
    BY <2>1, <2>2, <2>3 DEF Init, TypeOK
<1>7. ClampsAreDisturbed
  BY <1>1, <1>2 DEF ClampsAreDisturbed, At
<1>8. Sent = 0 /\ Received = 0 /\ Tracked = 0 /\ Asked = 0
  BY <1>5 DEF Init, Sent, Received, Tracked, Asked
<1>9. gauge["send"] = 0 /\ gauge["receive"] = 0 /\ gauge["oid"] = 0 /\ tracked.rcvs = 0
  BY DEF Init, Path
<1>10. QED
  BY <1>4, <1>6, <1>7, <1>8, <1>9 DEF CountInv, Exact

(* The books are right in every state.                                     *)
LEMMA CountsAlways == Spec => []CountInv
<1>1. Init => IInv /\ CountInv
  BY InitIsOK, InitCounts
<1>2. (IInv /\ CountInv) /\ [Next]_vars => (IInv /\ CountInv)'
  BY StepKeeps, StepCounts
<1>3. QED
  BY <1>1, <1>2, PTL DEF Spec

(* Every variable keeps its type: OutstandingRcvs never goes below zero.   *)
THEOREM TypeCorrect == Spec => []TypeOK
<1>1. CountInv => TypeOK
  BY DEF CountInv
<1>2. QED
  BY <1>1, CountsAlways, PTL

(* The gauges are exact until something that is not their path changes     *)
(* them, for any number of processors and of lists in a chain.             *)
THEOREM GaugesExactAlways == Spec => []GaugesAreExact
<1>1. CountInv => GaugesAreExact
  <2> SUFFICES ASSUME CountInv, NEW p \in Path, p \notin disturbed
               PROVE  gauge[p] = Outstanding[p]
    BY DEF GaugesAreExact
  <2>1. /\ Outstanding["send"] = Sent /\ Outstanding["receive"] = Received
        /\ Outstanding["oid"] = Asked
    BY DEF Outstanding, Sent, Received, Asked, OnSend, OnReceive
  <2>2. QED
    BY <2>1 DEF CountInv, Exact, Path
<1>2. QED
  BY <1>1, CountsAlways, PTL

(* The gauge of sends never reports more than is outstanding, whatever     *)
(* resets it and however the clamps interleave.                            *)
THEOREM SendGaugeSafety == Spec => []SendGaugeNeverOverstates
<1>1. CountInv => SendGaugeNeverOverstates
  BY DEF CountInv, Sent, OnSend, Outstanding, SendGaugeNeverOverstates
<1>2. QED
  BY <1>1, CountsAlways, PTL

(* OutstandingRcvs counts what the protocols have and what is on its way   *)
(* through the filter.                                                     *)
THEOREM ReceivesTrackedAlways == Spec => []ReceivesAreTracked
<1>1. CountInv => ReceivesAreTracked
  BY DEF CountInv, Tracked, OnTrack, ReceivesAreTracked
<1>2. QED
  BY <1>1, CountsAlways, PTL
=============================================================================
