------------------------- MODULE AvbHardwareProofs -------------------------
(***************************************************************************)
(* Safety of the adapter and of everybody who works on it, for any set of  *)
(* workloads and any bounds on the clock, the expiries and the packets.    *)
(*                                                                         *)
(* What a step does is first brought to one form, whatever its operation:  *)
(* its outcome and what that says of the state before it, what it edits of *)
(* its actor's own state, and its effects on everybody (Takes).  From that *)
(* alone follows that every actor knows, at each place of its script, what *)
(* the analysis of ScriptFacts says it knows (FactsHold, the heart of the  *)
(* inductive invariant).  The properties follow from what is known.        *)
(***************************************************************************)
EXTENDS AvbHardware, ScriptFacts, FiniteSetTheorems, TLAPS

(***************************************************************************)
(* What a fact of ScriptFacts says of actor a, and that all an actor knows *)
(* is so.                                                                  *)
(***************************************************************************)
\* How a reading of the clock stands: nothing read, latched only, the low half
\* read, both (the I219 may recheck them), and what was made of the last one.
OfReading == {"whole", "begun", "lower", "judged", "true"}
Spans(l) == l.from <= clock.latched /\ clock.latched <= clock.time
Stands(kind, l) ==
  CASE kind = "whole"  -> l.halves = {}
    [] kind = "begun"  -> l.halves = {"latch"} /\ (l.disturbed \/ Spans(l))
    [] kind = "lower"  -> /\ l.halves \in {{"low"}, {"latch", "low"}}
                          /\ IF load.device = "i219" THEN l.low = Low(l.from) /\ Spans(l)
                             ELSE l.disturbed \/ (l.low = Low(clock.latched) /\ Spans(l))
    [] kind = "judged" -> /\ load.device = "i219" /\ l.low = Low(l.from) /\ l.from <= clock.time
                          /\ High(l.from) <= l.high /\ l.high <= High(clock.time)
    [] kind = "true"   -> l.seen # "torn"
    [] OTHER -> FALSE

Known(a) == Facts[load.device][load.runs[a]][local[a].pc]

\* Whoever halted the clock for its own ends has still to start it.
Owed == \E b \in Actors : Busy(b) /\ F("owes") \in Known(b)
\* The clock was started; where it does not run now, there is somebody who
\* starts it again, or a user stopped it, or an update of TSAUXC was lost.
Started == "DISABLE" \in regs["TSAUXC"] => hist.halted \/ hist.lost \/ Owed
\* A copy of TSAUXC shows a halted clock only if that is so, or has changed.
Current(l) == \/ hist.halted \/ "DISABLE" \notin l.loc
              \/ l.base = "TSAUXC" /\ (l.behind \/ "DISABLE" \in regs["TSAUXC"])

\* How a timestamp stands, unless another reader came between its halves: the
\* latch has it, and keeps it; one half of it is read; it is taken, and newer
\* than what was reported.  An event has a message, which the latch has until
\* it is read for it, or one was missed; the low half is read, and the other.
OfLatch == {"latched", "halved", "stamped", "due", "lowered", "received"}
Carries(kind, r) ==
  CASE kind = "latched"  -> load.latch = "TX" /\ (r.shared \/ (r.at /\ stamp.valid))
    [] kind = "halved"   -> /\ load.latch = "TX"
                            /\ r.shared \/ (r.at /\ stamp.valid
                                 /\ stamp.packet = IF load.device = "i226" THEN r.low ELSE r.high)
    [] kind = "stamped"  -> /\ load.latch = "TX" /\ (stamp.valid => r.low < stamp.packet)
                            /\ r.shared \/ (r.at /\ r.low = r.high /\ hist.stamped < r.low)
    [] kind = "due"      -> r.of = 0 \/ (load.latch = "RX" /\ r.of <= stamp.handled
                                         /\ (stamp.missed \/ (stamp.valid /\ stamp.packet = r.of)))
    [] kind = "lowered"  -> /\ \/ r.shared \/ r.empty
                               \/ load.latch = "RX" /\ r.at /\ stamp.valid /\ r.low = stamp.packet
                            /\ r.of = 0 \/ stamp.missed \/ r.low = r.of
    [] kind = "received" -> /\ r.shared \/ r.empty \/ r.low = r.high
                            /\ stamp.missed \/ (r.low = r.of /\ r.high = r.of)
    [] OTHER -> FALSE

Means(f, a) ==
  LET l == local[a]
  IN CASE f[1] = "private"   -> adapter.private
       [] f[1] = "registers" -> adapter.mapped
       [] f[1] = "ticking"   -> regs["TIMINCA"] # {}
       [] f[1] = "content"   -> l.loc # {}
       [] f[1] = "honest"    -> l.loc # {} => regs["TIMINCA"] # {}
       [] f[1] = "told"      -> l.told
       [] f[1] = "tells"     -> "TT0" \in l.loc => l.told
       [] f[1] = "unmapped"  -> l.base = "mapping" /\ (adapter.mapped => l.behind)
       [] f[1] = "sure"      -> l.seen # "unsure"
       [] f[1] = "half"      -> l.seen # "unsure" \/ "low" \in l.halves
       [] f[1] = "owner"     -> a \in phy.owners
       [] f[1] = "apart"     -> a \notin phy.owners
       [] f[1] = "held"      -> f[2] \in l.held
       [] f[1] = "free"      -> f[2] \notin l.held
       [] f[1] = "fits"      -> l.loc \subseteq FlagsOf[f[2]]
       [] f[1] = "early"     -> load.start = "BOUND"
       [] f[1] = "started"   -> Mapped_ /\ Started
       [] f[1] = "owes"      -> TRUE     \* of the place in the script: see Owed
       [] f[1] = "current"   -> Current(l)
       [] OTHER -> IF f[1] \in OfLatch THEN Carries(f[1], l.stamp) ELSE Stands(f[1], l)

FactsHold == \A a \in Actors : Busy(a) => \A f \in Known(a) : Means(f, a)

(***************************************************************************)
(* The values of the state, without the bounds.                            *)
(***************************************************************************)
Seen  == {"none", "clock", "torn", "disturbed", "unsure"}
Stamp == [low : Nat, high : Nat, of : Nat, at : BOOLEAN, empty : BOOLEAN, shared : BOOLEAN]
Local == [pc : Nat, loc : SUBSET Flags, base : {"none", "TSAUXC", "mapping"}, behind : BOOLEAN,
          halves : SUBSET {"low", "high", "latch"}, low : Nat, high : Nat, from : Nat,
          seen : Seen, disturbed : BOOLEAN, told : BOOLEAN, stamp : Stamp, held : SUBSET Lent]

Typed ==
  /\ load \in Workloads
  /\ adapter \in [state : {"BOUND", "BAR_MAPPED", "PTP_READY"}, mapped : BOOLEAN,
                  private : BOOLEAN, initialized : BOOLEAN, access : BOOLEAN,
                  mmio : BOOLEAN, leaked : BOOLEAN]
  /\ regs \in [Registers -> SUBSET Flags]
  /\ clock \in [time : Nat, latched : Nat, shadow : SUBSET Flags, offset : Seen]
  /\ stamp \in [packet : Nat, valid : BOOLEAN, last : Nat, handled : Nat, missed : BOOLEAN]
  /\ phy \in [bit : BOOLEAN, firmware : BOOLEAN, owners : SUBSET Actors, shared : BOOLEAN]
  /\ timer \in [armed : BOOLEAN, flag : BOOLEAN]
  /\ local \in [Actors -> Local]
  /\ hist \in [lost : BOOLEAN, halted : BOOLEAN, expiry : {"none", "pending", "told"}, expiries : Nat,
               unreported : BOOLEAN, raced : BOOLEAN, bothmapped : BOOLEAN,
               stamped : Nat, assumed : BOOLEAN]

(***************************************************************************)
(* hw_state: how far an adapter has come.                                  *)
(***************************************************************************)
LEMMA Ranks == Rank("BOUND") = 1 /\ Rank("BAR_MAPPED") = 2 /\ Rank("PTP_READY") = 3
<1>1. DOMAIN States = 1..3 /\ States[1] = "BOUND" /\ States[2] = "BAR_MAPPED" /\ States[3] = "PTP_READY"
  BY DEF States
<1>2. ASSUME NEW k \in 1..3 PROVE Rank(States[k]) = k
  <2>1. \E i \in DOMAIN States : States[i] = States[k]
    BY <1>1
  <2>2. Rank(States[k]) \in DOMAIN States /\ States[Rank(States[k])] = States[k]
    BY <2>1 DEF Rank
  <2>3. \A i, j \in 1..3 : States[i] = States[j] => i = j
    BY <1>1
  <2> QED BY <1>1, <2>2, <2>3
<1> QED BY <1>1, <1>2

LEMMA AtLeastIsNotBound ==
  ASSUME NEW x, NEW y \in {"BAR_MAPPED", "PTP_READY"}, Rank(x) >= Rank(y)
  PROVE  x # "BOUND"
<1> SUFFICES ASSUME x = "BOUND" PROVE FALSE
  OBVIOUS
<1>1. 1 >= Rank(y)
  BY Ranks
<1>2. CASE y = "BAR_MAPPED"
  BY <1>1, <1>2, Ranks
<1>3. CASE y = "PTP_READY"
  BY <1>1, <1>3, Ranks
<1> QED BY <1>2, <1>3

LEMMA AtLeastBarMapped ==
  ASSUME adapter.state \in {"BOUND", "BAR_MAPPED", "PTP_READY"}
  PROVE  AtLeastState("BAR_MAPPED") = IF adapter.state = "BOUND" THEN "BAR_MAPPED" ELSE adapter.state
<1>1. CASE adapter.state = "BOUND"
  <2>1. Rank(adapter.state) = 1 /\ Rank("BAR_MAPPED") = 2
    BY <1>1, Ranks
  <2> QED BY <1>1, <2>1 DEF AtLeastState
<1>2. CASE adapter.state = "BAR_MAPPED"
  <2>1. Rank(adapter.state) = 2 /\ Rank("BAR_MAPPED") = 2
    BY <1>2, Ranks
  <2> QED BY <1>2, <2>1 DEF AtLeastState
<1>3. CASE adapter.state = "PTP_READY"
  <2>1. Rank(adapter.state) = 3 /\ Rank("BAR_MAPPED") = 2
    BY <1>3, Ranks
  <2> QED BY <1>3, <2>1 DEF AtLeastState
<1> QED BY <1>1, <1>2, <1>3

(***************************************************************************)
(* Going onward in a script.                                               *)
(***************************************************************************)
LEMMA FreshIsLocal ==
  ASSUME NEW pc \in Nat PROVE Fresh(pc) \in Local
BY DEF Fresh, Local, NoStamp, Stamp, Seen

LEMMA OnwardFacts ==
  ASSUME NEW s, NEW ok \in BOOLEAN, NEW r \in Local, Target(s, ok) \in Nat
  PROVE  /\ Onward(s, ok, r) \in Local
         /\ Onward(s, ok, r).pc = Target(s, ok) /\ Onward(s, ok, r).held = r.held
         /\ Target(s, ok) # 0 =>
              /\ Onward(s, ok, r).loc = r.loc /\ Onward(s, ok, r).base = r.base
              /\ Onward(s, ok, r).behind = r.behind /\ Onward(s, ok, r).halves = r.halves
              /\ Onward(s, ok, r).seen = r.seen /\ Onward(s, ok, r).told = r.told
              /\ Onward(s, ok, r).low = r.low /\ Onward(s, ok, r).high = r.high
              /\ Onward(s, ok, r).from = r.from /\ Onward(s, ok, r).disturbed = r.disturbed
              /\ Onward(s, ok, r).stamp = r.stamp
         /\ Target(s, ok) = 0 => /\ Onward(s, ok, r).seen = "none" /\ Onward(s, ok, r).halves = {}
                                 /\ Onward(s, ok, r).stamp = NoStamp
<1> DEFINE to == Target(s, ok)
<1>1. CASE to = 0
  <2>1. Onward(s, ok, r) = [Fresh(0) EXCEPT !.held = r.held]
    BY <1>1 DEF Onward, Target
  <2>2. /\ Fresh(0) \in Local /\ Fresh(0).pc = 0 /\ Fresh(0).seen = "none"
        /\ Fresh(0).halves = {} /\ Fresh(0).stamp = NoStamp
    BY FreshIsLocal DEF Fresh
  <2> QED BY <1>1, <2>1, <2>2 DEF Local
<1>2. CASE to # 0
  <2>1. Onward(s, ok, r) = [r EXCEPT !.pc = to]
    BY <1>2 DEF Onward, Target
  <2> QED BY <1>2, <2>1 DEF Local
<1> QED BY <1>1, <1>2

(***************************************************************************)
(* What a step does to the local state: its actor goes onward from r, the  *)
(* others keep theirs, except that they may fall behind, or be disturbed   *)
(* in reading the clock.                                                   *)
(***************************************************************************)
SameStamp(m, l) ==
  /\ m.low = l.low /\ m.high = l.high /\ m.of = l.of /\ m.at = l.at /\ m.empty = l.empty
  /\ l.shared => m.shared
Keeps(b) ==
  /\ local'[b].pc = local[b].pc /\ local'[b].loc = local[b].loc
  /\ local'[b].base = local[b].base /\ local'[b].halves = local[b].halves
  /\ local'[b].seen = local[b].seen /\ local'[b].told = local[b].told
  /\ local'[b].held = local[b].held
  /\ local'[b].low = local[b].low /\ local'[b].high = local[b].high
  /\ local'[b].from = local[b].from
  /\ local[b].behind => local'[b].behind
  /\ local[b].disturbed => local'[b].disturbed
  /\ SameStamp(local'[b].stamp, local[b].stamp)

Moves(a, s, ok, r) ==
  /\ local' \in [Actors -> Local]
  /\ local'[a] = Onward(s, ok, r)
  /\ \A b \in Actors \ {a} : Keeps(b)

Locally == local \in [Actors -> Local]

LEMMA MoveMoves ==
  ASSUME Locally, NEW a \in Actors, NEW s, NEW ok \in BOOLEAN, NEW r \in Local,
         Target(s, ok) \in Nat, Move(a, s, ok, r)
  PROVE  Moves(a, s, ok, r)
BY OnwardFacts DEF Move, Moves, Keeps, SameStamp, Locally

LEMMA TestMoves ==
  ASSUME Locally, NEW a \in Actors, NEW s, NEW ok \in BOOLEAN,
         Target(s, ok) \in Nat, Test(a, s, ok)
  PROVE  Moves(a, s, ok, local[a])
BY MoveMoves DEF Test, Locally

LEMMA BehindIsLocal ==
  ASSUME NEW l \in Local, NEW c \in BOOLEAN
  PROVE  LET m == [l EXCEPT !.behind = @ \/ c]
         IN /\ m \in Local /\ m.pc = l.pc /\ m.loc = l.loc /\ m.base = l.base /\ m.halves = l.halves
            /\ m.seen = l.seen /\ m.told = l.told /\ m.held = l.held
            /\ m.low = l.low /\ m.high = l.high /\ m.from = l.from /\ m.disturbed = l.disturbed
            /\ m.stamp = l.stamp /\ m.behind = (l.behind \/ c)
BY DEF Local

LEMMA DisturbedIsLocal ==
  ASSUME NEW l \in Local
  PROVE  LET m == Disturbed(l)
         IN /\ m \in Local /\ m.pc = l.pc /\ m.loc = l.loc /\ m.base = l.base /\ m.halves = l.halves
            /\ m.seen = l.seen /\ m.told = l.told /\ m.held = l.held
            /\ m.low = l.low /\ m.high = l.high /\ m.from = l.from
            /\ m.stamp = l.stamp /\ m.behind = l.behind /\ m.disturbed = (l.disturbed \/ l.halves # {})
BY DEF Local, Disturbed

LEMMA StoreMoves ==
  ASSUME Locally, NEW a \in Actors, NEW s, NEW q, NEW content,
         Mapped_ \in BOOLEAN, Target(s, Mapped_) \in Nat, Store(a, s, q, content)
  PROVE  /\ Moves(a, s, Mapped_, local[a])
         /\ Mapped_ /\ q \in Registers =>
              \A b \in Actors \ {a} : local[b].base = q => local'[b].behind
<1> DEFINE c(b) == Mapped_ /\ q \in Registers /\ local[b].base = q
           m(b) == [local[b] EXCEPT !.behind = @ \/ c(b)]
<1>1. local' = [b \in Actors |-> IF b = a THEN Onward(s, Mapped_, local[a]) ELSE m(b)]
  BY DEF Store
<1>2. Onward(s, Mapped_, local[a]) \in Local
  BY OnwardFacts DEF Locally
<1>3. ASSUME NEW b \in Actors
      PROVE  /\ m(b) \in Local /\ m(b).pc = local[b].pc /\ m(b).loc = local[b].loc
             /\ m(b).base = local[b].base /\ m(b).halves = local[b].halves
             /\ m(b).seen = local[b].seen /\ m(b).told = local[b].told
             /\ m(b).low = local[b].low /\ m(b).high = local[b].high
             /\ m(b).from = local[b].from /\ m(b).disturbed = local[b].disturbed
             /\ m(b).held = local[b].held /\ (local[b].behind => m(b).behind)
             /\ m(b).stamp = local[b].stamp /\ (c(b) => m(b).behind)
  <2>1. local[b] \in Local /\ c(b) \in BOOLEAN
    BY DEF Locally
  <2> HIDE DEF c
  <2> QED BY <2>1, BehindIsLocal
<1> HIDE DEF m
<1> QED BY <1>1, <1>2, <1>3 DEF Moves, Keeps, SameStamp

LEMMA DisturbMoves ==
  ASSUME Locally, NEW a \in Actors, NEW s, NEW ok \in BOOLEAN, NEW r \in Local,
         Target(s, ok) \in Nat, MoveAndDisturb(a, s, ok, r)
  PROVE  /\ Moves(a, s, ok, r)
         /\ \A b \in Actors \ {a} : local[b].halves # {} => local'[b].disturbed
<1>1. local' = [b \in Actors |-> IF b = a THEN Onward(s, ok, r) ELSE Disturbed(local[b])]
  BY DEF MoveAndDisturb
<1>2. Onward(s, ok, r) \in Local
  BY OnwardFacts
<1>3. ASSUME NEW b \in Actors \ {a}
      PROVE  /\ local'[b] \in Local /\ Keeps(b)
             /\ local[b].halves # {} => local'[b].disturbed
  <2>1. local[b] \in Local /\ local'[b] = Disturbed(local[b])
    BY <1>1 DEF Locally
  <2> DEFINE l == local[b]
             m == Disturbed(l)
  <2>2. /\ m \in Local /\ m.pc = l.pc /\ m.loc = l.loc /\ m.base = l.base /\ m.halves = l.halves
        /\ m.seen = l.seen /\ m.told = l.told /\ m.held = l.held
        /\ m.low = l.low /\ m.high = l.high /\ m.from = l.from
        /\ m.stamp = l.stamp /\ m.behind = l.behind /\ m.disturbed = (l.disturbed \/ l.halves # {})
    BY <2>1, DisturbedIsLocal
  <2> HIDE DEF m
  <2> QED BY <2>1, <2>2 DEF Keeps, SameStamp, m
<1> QED BY <1>1, <1>2, <1>3 DEF Moves

(***************************************************************************)
(* What its outcome says of the state before the step, what the actor      *)
(* knows after it, and what it changes for everybody.                      *)
(***************************************************************************)
Outcome(a, s, ok) ==
  /\ ok => s.op \notin {"fail", "skip"}
  /\ s.op \in Certain => ok
  /\ s.op \in Accesses => (ok <=> Mapped_)
  /\ s.op \in Queries /\ ok => Mapped_
  /\ s.op = "private" => (ok <=> adapter.private)
  /\ s.op = "mapped" => (ok <=> adapter.mapped)
  /\ s.op = "accessible" /\ ok => adapter.mapped
  /\ s.op = "bound unmapped" /\ ok => ~adapter.mapped
  /\ s.op = "bound unmapped" /\ ok => adapter.state = "BOUND"
  /\ s.op = "at least" => (ok <=> Rank(adapter.state) >= Rank(s.reg))
  /\ s.op = "holds" => (ok <=> s.on \cap local[a].loc # {})

Copy(a, s) == IF Fills(s) THEN IF Mapped_ THEN regs[s.reg] ELSE {}
              ELSE IF s.op = "load" THEN s.on
              ELSE IF s.op = "change" THEN (local[a].loc \ s.off) \cup s.on
              ELSE IF s.op = "read shadow" THEN clock.shadow
              ELSE local[a].loc
ClockReads == Halving \cup {"recheck", "offset"}

SameReading(m, l) ==
  m.low = l.low /\ m.high = l.high /\ m.from = l.from /\ m.disturbed = l.disturbed
Reads(a, s, ok, r) ==
  LET l == local[a]
  IN /\ s.op \in Halving /\ ok =>
          /\ clock'.latched = IF Latches(s.op) THEN clock.time ELSE clock.latched
          /\ r = HalfRead(l, s.op, IF s.op = "high" THEN High(clock'.latched) ELSE Low(clock'.latched))
     /\ s.op = "recheck" =>
          IF Mapped_ THEN /\ ok => Low(clock.time) >= l.low
                          /\ r = Forget([l EXCEPT !.seen = IF ok THEN Judged(l) ELSE "unsure"])
          ELSE r = l
     /\ s.op = "offset" => r.seen = "none" /\ r.halves = {}
     /\ s.op \notin ClockReads \/ (s.op \in Halving /\ ~ok) =>
          r.seen = l.seen /\ r.halves = l.halves /\ SameReading(r, l)

\* The timestamps the actor has, and those there are.
StampEdits(a, s, r) ==
  /\ s.op \notin OfStamps => r.stamp = local[a].stamp
  /\ s.op \in StampReads => r.stamp = Got(a, s.op)
  /\ s.op = "event message" => r.stamp = [NoStamp EXCEPT !.of = stamp'.handled]
  /\ s.op \in StampReports => r.stamp = NoStamp

Edits(a, s, ok, r) ==
  /\ StampEdits(a, s, r)
  /\ r.loc = Copy(a, s)
  /\ r.told <=> (local[a].told \/ s.op = "post" \/ (s.op = "answer flag" /\ "TT0" \in local[a].loc))
  /\ r.held = IF s.op = "take" /\ ok THEN local[a].held \cup {s.reg}
              ELSE IF s.op = "give" THEN local[a].held \ {s.reg}
              ELSE local[a].held
  /\ IF s.op \in {"mapped", "bound unmapped"} THEN r.base = "mapping"
     ELSE ~Fills(s) => r.base = local[a].base /\ r.behind = local[a].behind
  /\ Fills(s) /\ s.reg = "TSAUXC" => r.base = "TSAUXC"
  /\ Reads(a, s, ok, r)
  /\ s.op # "recheck" /\ local[a].seen # "unsure" => r.seen # "unsure"
  /\ s.op = "low" /\ ok => r.seen # "unsure" \/ "low" \in r.halves
  /\ s.op = "high" /\ ok /\ "low" \in local[a].halves => r.seen # "unsure"
  /\ s.op = "recheck" /\ ok => r.seen # "unsure"
  /\ ~ok => r.seen = local[a].seen \/ (s.op = "recheck" /\ Mapped_)
  /\ s.op \in ClockReads /\ ~ok /\ r.seen = "unsure" => local[a].seen = "unsure" \/ Mapped_

Promotions == {"promote", "promote ticking", "promote unmapped"}
OnAdapter(a, s, ok) ==
  /\ adapter'.private <=> adapter.private \/ s.op = "allocate"
  /\ adapter'.mapped <=> adapter.mapped \/ (s.op = "map" /\ ok)
  /\ adapter'.state = IF s.op \in Promotions THEN "PTP_READY"
                      ELSE IF s.op = "rebound" \/ (s.op = "usable" /\ adapter.state = "BOUND")
                      THEN "BAR_MAPPED" ELSE adapter.state
  /\ adapter'.leaked <=> adapter.leaked \/ (s.op = "map" /\ ok /\ adapter.mapped)
  /\ hist'.bothmapped <=> hist.bothmapped \/ (s.op = "map" /\ ok /\ local[a].behind)
  /\ s.op = "map" /\ ok =>
       \A b \in Actors \ {a} : local[b].base = "mapping" => local'[b].behind

OnRegs(a, s, ok) ==
  /\ \A q \in Registers :
       regs'[q] = IF ~ok \/ s.reg # q THEN regs[q]
                  ELSE IF s.op = "write" THEN s.on
                  ELSE IF s.op = "put" THEN (local[a].loc \ s.off) \cup s.on
                  ELSE IF s.op = "clear" THEN regs[q] \ s.off ELSE regs[q]
  /\ ok /\ OnTsauxc(s) => \A b \in Actors \ {a} : local[b].base = "TSAUXC" => local'[b].behind

OnClock(a, s, ok) ==
  /\ clock'.shadow = IF s.op = "write shadow" THEN local[a].loc ELSE clock.shadow
  /\ clock'.offset = IF s.op = "offset" THEN local[a].seen ELSE clock.offset
  /\ clock'.time = IF ~ok THEN clock.time
                   ELSE IF s.op = "set low" THEN clock.time - Low(clock.time)
                   ELSE IF s.op = "set high" THEN Low(clock.time) ELSE clock.time
  /\ \/ clock'.latched = clock.latched
     \/ clock'.latched = clock.time /\ (s.op = "recheck" \/ (s.op \in {"low", "latch"} /\ ok))
  /\ \/ clock'.time = clock.time /\ clock'.latched = clock.latched
     \/ \A b \in Actors \ {a} : local[b].halves # {} => local'[b].disturbed

OnPhy(a, s, ok) ==
  /\ phy'.bit <=> IF s.op = "release" /\ ok THEN FALSE
                  ELSE phy.bit \/ (s.op = "grab" /\ ok /\ ~phy.firmware)
  /\ phy'.firmware <=> phy.firmware
  /\ phy'.owners = IF s.op = "confirm" /\ ok THEN phy.owners \cup {a}
                   ELSE IF s.op = "release" THEN phy.owners \ {a} ELSE phy.owners
  /\ phy'.shared <=> phy.shared \/ (s.op = "confirm" /\ Cardinality(phy'.owners) > 1)
  /\ s.op = "confirm" => (ok <=> Mapped_ /\ phy.bit)

OnTimer(a, s, ok) ==
  /\ timer'.armed <=> s.op = "set timer" \/ (timer.armed /\ s.op # "cancel")
  /\ hist'.raced <=> \/ hist.raced
                     \/ s.op = "set timer" /\ (timer.armed \/ ~DpcDone \/ Stopping)
                     \/ s.op = "poll started" /\ ~ok /\ a = "stop" /\ timer.armed
  /\ s.op = "flush" => DpcDone

OnHistory(a, s, ok) ==
  /\ hist'.unreported <=> \/ hist.unreported
                          \/ s.op = "clear" /\ ok /\ hist.expiry = "pending" /\ ~local[a].told
  /\ hist'.halted <=> hist.halted \/ s.op = "user stops"
  /\ hist'.lost <=> hist.lost \/ (s.op = "put" /\ s.reg = "TSAUXC" /\ local[a].behind)
  /\ hist'.assumed <=> hist.assumed \/ (s.op = "promote ticking" /\ "DISABLE" \in regs["TSAUXC"])

OnStamp(a, s, ok) ==
  /\ s.op \notin StampReads \cup {"event message"} => stamp' = stamp
  /\ s.op \in StampReads =>
       /\ stamp'.packet = stamp.packet /\ stamp'.last = stamp.last /\ stamp'.handled = stamp.handled
       /\ stamp'.valid <=> stamp.valid /\ ~(Mapped_ /\ Timestamped(s.op) /\ Frees(s.op))
       /\ stamp'.missed <=> stamp.missed \/ (s.op = "receipt high" /\ local[a].stamp.of = 0)
       /\ Timestamped(s.op) =>
            \A b \in Actors \ {a} : local[b].stamp.at => local'[b].stamp.shared
  /\ s.op = "stamp ready" \/ (s.op = "stamp high" /\ load.device # "i226") =>
       (ok => Timestamped(s.op) /\ stamp.valid)
  /\ s.op = "event message" =>
       /\ stamp'.packet = stamp.packet /\ stamp'.last = stamp.last
       /\ stamp'.valid = stamp.valid /\ stamp'.missed = stamp.missed
       /\ IF ok THEN /\ load.latch = "RX" /\ stamp.handled < stamp.last
                     /\ stamp'.handled = stamp.handled + 1
          ELSE stamp'.handled = stamp.handled
  /\ hist'.stamped = IF s.op \in {"post stamp", "answer stamp"} THEN local[a].stamp.low
                     ELSE hist.stamped

Effects(a, s, ok) ==
  /\ load' = load
  /\ OnAdapter(a, s, ok) /\ OnRegs(a, s, ok) /\ OnClock(a, s, ok)
  /\ OnPhy(a, s, ok) /\ OnTimer(a, s, ok) /\ OnHistory(a, s, ok) /\ OnStamp(a, s, ok)

Takes(a, s, ok, r) == /\ Moves(a, s, ok, r) /\ Outcome(a, s, ok)
                      /\ Edits(a, s, ok, r) /\ Effects(a, s, ok)

Taken(a, s) == \E ok \in BOOLEAN : \E r \in Local : Takes(a, s, ok, r)

LEMMA TypedLocally ==
  ASSUME Typed PROVE Locally /\ Mapped_ \in BOOLEAN
BY DEF Typed, Locally, Mapped_

\* Most steps edit no local state and change nothing others rely on.
Editing == {"take", "give", "post", "answer flag", "mapped", "bound unmapped",
            "load", "change", "read shadow"} \cup ClockReads \cup OfStamps

LEMMA NothingEdited ==
  ASSUME Locally, NEW a \in Actors, NEW s, NEW ok \in BOOLEAN, s.op \notin Editing, ~Fills(s)
  PROVE  Edits(a, s, ok, local[a])
BY DEF Edits, Copy, Refills, Editing, ClockReads, Halving, Reads, SameReading, Locally, Local,
       StampEdits, StampReads, StampReports, OfStamps

LEMMA AdapterKept ==
  ASSUME NEW a \in Actors, NEW s, NEW ok \in BOOLEAN, adapter' = adapter,
         hist'.bothmapped = hist.bothmapped,
         s.op \notin {"allocate", "rebound", "usable", "map"} \cup Promotions
  PROVE  OnAdapter(a, s, ok)
BY DEF OnAdapter, Promotions

LEMMA RegsKept ==
  ASSUME NEW a \in Actors, NEW s, NEW ok \in BOOLEAN, regs' = regs,
         s.op \notin {"write", "put", "clear"}
  PROVE  OnRegs(a, s, ok)
BY DEF OnRegs, OnTsauxc

LEMMA ClockKept ==
  ASSUME NEW a \in Actors, NEW s, NEW ok \in BOOLEAN, clock'.shadow = clock.shadow,
         clock'.offset = clock.offset, clock'.time = clock.time, clock'.latched = clock.latched,
         s.op \notin {"write shadow", "offset", "set low", "set high"}
  PROVE  OnClock(a, s, ok)
BY DEF OnClock

LEMMA PhyKept ==
  ASSUME NEW a \in Actors, NEW s, NEW ok \in BOOLEAN, phy' = phy,
         s.op \notin {"grab", "confirm", "release"}
  PROVE  OnPhy(a, s, ok)
BY DEF OnPhy

LEMMA TimerKept ==
  ASSUME NEW a \in Actors, NEW s, NEW ok \in BOOLEAN, timer' = timer, hist'.raced = hist.raced,
         s.op \notin {"set timer", "cancel", "flush", "poll started"}
  PROVE  OnTimer(a, s, ok)
BY DEF OnTimer

LEMMA HistoryKept ==
  ASSUME NEW a \in Actors, NEW s, NEW ok \in BOOLEAN, hist'.unreported = hist.unreported,
         hist'.halted = hist.halted, hist'.lost = hist.lost, hist'.assumed = hist.assumed,
         s.op \notin {"clear", "put", "user stops", "promote ticking"}
  PROVE  OnHistory(a, s, ok)
BY DEF OnHistory

LEMMA StampKept ==
  ASSUME NEW a \in Actors, NEW s, NEW ok \in BOOLEAN, stamp' = stamp, hist'.stamped = hist.stamped,
         s.op \notin OfStamps
  PROVE  OnStamp(a, s, ok)
BY DEF OnStamp, StampReads, OfStamps, StampReports

Changing == Promotions \cup OfStamps \cup
            {"allocate", "rebound", "usable", "map", "write", "put", "clear", "write shadow",
             "offset", "set low", "set high", "grab", "confirm", "release",
             "set timer", "cancel", "flush", "poll started", "user stops"}

LEMMA NothingChanged ==
  ASSUME NEW a \in Actors, NEW s, NEW ok \in BOOLEAN, s.op \notin Changing,
         UNCHANGED <<load, stamp, adapter, regs, phy, timer, hist>>, clock'.shadow = clock.shadow,
         clock'.offset = clock.offset, clock'.time = clock.time, clock'.latched = clock.latched
  PROVE  Effects(a, s, ok)
BY AdapterKept, RegsKept, ClockKept, PhyKept, TimerKept, HistoryKept, StampKept
   DEF Effects, Changing, Promotions

LEMMA OnlyLocal ==
  ASSUME Typed, NEW a \in Actors, NEW s, NEW ok \in BOOLEAN, NEW r \in Local,
         Moves(a, s, ok, r), UNCHANGED <<load, stamp, adapter, regs, clock, phy, timer, hist>>
  PROVE  Typed'
BY DEF Typed, Moves

(***************************************************************************)
(* Every step of a script takes that form.                                 *)
(***************************************************************************)
LEMMA ReadRegTaken ==
  ASSUME Typed, NEW a \in Actors, NEW s, Shaped(s), ReadReg(a, s)
  PROVE  Typed' /\ Taken(a, s)
<1> DEFINE l == local[a]
<1>0. Locally /\ Mapped_ \in BOOLEAN /\ l \in Local /\ Target(s, Mapped_) \in Nat /\ s.op = "read"
  BY TypedLocally DEF Locally, Shaped, Target, ReadReg
<1>1. CASE s.reg \notin Registers
  <2>1. Moves(a, s, Mapped_, l)
    BY <1>0, <1>1, TestMoves DEF ReadReg
  <2>2. Typed'
    BY <2>1, <1>0 DEF Typed, ReadReg, Moves
  <2>3. Outcome(a, s, Mapped_)
    BY <1>0 DEF Outcome, Accesses, Queries, Certain, Mapped_
  <2>4. Edits(a, s, Mapped_, l)
    BY <1>0, <1>1 DEF Edits, StampEdits, StampReads, StampReports, OfStamps, Copy,
       Fills, ClockReads, Halving, Reads, SameReading
  <2>5. Effects(a, s, Mapped_)
    BY <1>0, NothingChanged DEF ReadReg, Changing, OfStamps, StampReads, StampReports, Promotions
  <2> QED BY <2>1, <2>2, <2>3, <2>4, <2>5, <1>0 DEF Taken, Takes
<1>2. CASE s.reg \in Registers
  <2> DEFINE r == [l EXCEPT !.loc = IF Mapped_ THEN regs[s.reg] ELSE {},
                            !.base = IF s.reg = "TSAUXC" THEN s.reg ELSE "none",
                            !.behind = FALSE]
  <2>0. regs[s.reg] \in SUBSET Flags
    BY <1>2 DEF Typed
  <2>1. /\ r \in Local /\ r.loc = (IF Mapped_ THEN regs[s.reg] ELSE {})
        /\ r.told = l.told /\ r.held = l.held /\ r.seen = l.seen /\ r.halves = l.halves
        /\ SameReading(r, l) /\ r.stamp = l.stamp /\ (s.reg = "TSAUXC" => r.base = "TSAUXC")
    BY <1>0, <2>0 DEF Local, SameReading
  <2>2. Move(a, s, Mapped_, r)
    BY <1>0, <1>2 DEF ReadReg
  <2> HIDE DEF r
  <2>3. Moves(a, s, Mapped_, r)
    BY <2>1, <2>2, <1>0, MoveMoves
  <2>4. Typed'
    BY <2>3, <1>0 DEF Typed, ReadReg, Moves
  <2>5. Outcome(a, s, Mapped_)
    BY <1>0 DEF Outcome, Accesses, Queries, Certain, Mapped_
  <2>6. Edits(a, s, Mapped_, r)
    BY <1>0, <1>2, <2>1 DEF Edits, StampEdits, StampReads, StampReports, OfStamps,
       Copy, Fills, ClockReads, Halving, Reads
  <2>7. Effects(a, s, Mapped_)
    BY <1>0, NothingChanged DEF ReadReg, Changing, OfStamps, StampReads, StampReports, Promotions
  <2> QED BY <2>1, <2>3, <2>4, <2>5, <2>6, <2>7, <1>0 DEF Taken, Takes
<1> QED BY <1>1, <1>2

LEMMA PutRegTaken ==
  ASSUME Typed, NEW a \in Actors, NEW s, Shaped(s), PutReg(a, s)
  PROVE  Typed' /\ Taken(a, s)
<1> DEFINE l == local[a]
           content == (l.loc \ s.off) \cup s.on
<1>0. Locally /\ Mapped_ \in BOOLEAN /\ l \in Local /\ Target(s, Mapped_) \in Nat /\ s.op = "put"
  BY TypedLocally DEF Locally, Shaped, Target, PutReg
<1>1. s.reg \in Registers => content \in SUBSET Flags
  BY <1>0 DEF Local, Shaped, Flags
<1>2. /\ Moves(a, s, Mapped_, l)
      /\ Mapped_ /\ s.reg \in Registers =>
           \A b \in Actors \ {a} : local[b].base = s.reg => local'[b].behind
  BY <1>0, StoreMoves DEF PutReg
<1>3. regs' = IF Mapped_ /\ s.reg \in Registers THEN [regs EXCEPT ![s.reg] = content] ELSE regs
  BY DEF PutReg, Store
<1>4. Typed'
  <2>1. regs' \in [Registers -> SUBSET Flags]
    BY <1>1, <1>3 DEF Typed
  <2>2. hist'.lost \in BOOLEAN /\ hist' \in [lost : BOOLEAN, halted : BOOLEAN,
          expiry : {"none", "pending", "told"}, expiries : Nat, unreported : BOOLEAN,
          raced : BOOLEAN, bothmapped : BOOLEAN, stamped : Nat, assumed : BOOLEAN]
    BY <1>0 DEF PutReg, Typed, Local
  <2> QED BY <1>2, <2>1, <2>2 DEF Typed, PutReg, Moves
<1>5. Outcome(a, s, Mapped_)
  BY <1>0 DEF Outcome, Accesses, Queries, Certain, Mapped_
<1>6. Edits(a, s, Mapped_, l)
  BY <1>0, NothingEdited DEF Editing, OfStamps, StampReads, StampReports, ClockReads, Halving, Fills
<1>7. Effects(a, s, Mapped_)
  <2>1. UNCHANGED <<load, stamp, adapter, clock, phy, timer>>
    BY DEF PutReg
  <2>2. /\ hist'.bothmapped = hist.bothmapped /\ hist'.raced = hist.raced
        /\ hist'.unreported = hist.unreported /\ hist'.halted = hist.halted
        /\ hist'.lost <=> hist.lost \/ (s.reg = "TSAUXC" /\ l.behind)
        /\ hist'.assumed = hist.assumed
        /\ hist'.stamped = hist.stamped
    BY <1>0 DEF PutReg, Typed, Local
  <2>3. OnRegs(a, s, Mapped_)
    BY <1>0, <1>2, <1>3 DEF OnRegs, OnTsauxc, Typed, Registers, FlagsOf
  <2>4. OnHistory(a, s, Mapped_)
    BY <1>0, <2>2 DEF OnHistory
  <2> QED BY <1>0, <2>1, <2>2, <2>3, <2>4, AdapterKept, ClockKept, PhyKept, TimerKept, StampKept
          DEF Effects, OfStamps, StampReads, StampReports, Promotions
<1> QED BY <1>0, <1>2, <1>4, <1>5, <1>6, <1>7 DEF Taken, Takes

LEMMA WriteRegTaken ==
  ASSUME Typed, NEW a \in Actors, NEW s, Shaped(s), WriteReg(a, s)
  PROVE  Typed' /\ Taken(a, s)
<1> DEFINE l == local[a]
<1>0. Locally /\ Mapped_ \in BOOLEAN /\ l \in Local /\ Target(s, Mapped_) \in Nat /\ s.op = "write"
  BY TypedLocally DEF Locally, Shaped, Target, WriteReg
<1>1. s.reg \in Registers => s.on \in SUBSET Flags
  BY <1>0 DEF Local, Shaped, Flags
<1>2. /\ Moves(a, s, Mapped_, l)
      /\ Mapped_ /\ s.reg \in Registers =>
           \A b \in Actors \ {a} : local[b].base = s.reg => local'[b].behind
  BY <1>0, StoreMoves DEF WriteReg
<1>3. regs' = IF Mapped_ /\ s.reg \in Registers THEN [regs EXCEPT ![s.reg] = s.on] ELSE regs
  BY DEF WriteReg, Store
<1>4. Typed'
  <2>1. regs' \in [Registers -> SUBSET Flags]
    BY <1>1, <1>3 DEF Typed
  <2> QED BY <1>2, <2>1 DEF Typed, WriteReg, Moves
<1>5. Outcome(a, s, Mapped_)
  BY <1>0 DEF Outcome, Accesses, Queries, Certain, Mapped_
<1>6. Edits(a, s, Mapped_, l)
  BY <1>0, NothingEdited DEF Editing, OfStamps, StampReads, StampReports, ClockReads, Halving, Fills
<1>7. Effects(a, s, Mapped_)
  <2>1. UNCHANGED <<load, stamp, adapter, clock, phy, timer>>
    BY DEF WriteReg
  <2>2. /\ hist'.bothmapped = hist.bothmapped /\ hist'.raced = hist.raced
        /\ hist'.unreported = hist.unreported /\ hist'.halted = hist.halted
        /\ hist'.lost = hist.lost /\ hist'.assumed = hist.assumed
        /\ hist'.stamped = hist.stamped
    BY DEF WriteReg, Typed
  <2>3. OnRegs(a, s, Mapped_)
    BY <1>0, <1>2, <1>3 DEF OnRegs, OnTsauxc, Typed, Registers, FlagsOf
  <2> QED BY <1>0, <2>1, <2>2, <2>3, AdapterKept, ClockKept, PhyKept, TimerKept, HistoryKept,
     StampKept
          DEF Effects, OfStamps, StampReads, StampReports, Promotions
<1> QED BY <1>0, <1>2, <1>4, <1>5, <1>6, <1>7 DEF Taken, Takes

LEMMA ClearRegTaken ==
  ASSUME Typed, NEW a \in Actors, NEW s, Shaped(s), ClearReg(a, s)
  PROVE  Typed' /\ Taken(a, s)
<1> DEFINE l == local[a]
           content == Content("TSICR") \ s.off
<1>0. /\ Locally /\ Mapped_ \in BOOLEAN /\ l \in Local /\ Target(s, Mapped_) \in Nat
      /\ s.op = "clear" /\ s.reg = "TSICR"
  BY TypedLocally DEF Locally, Shaped, Target, ClearReg
<1>1. "TSICR" \in Registers /\ "TIMINCA" \in Registers
  BY DEF Registers, FlagsOf
<1>2. content \in SUBSET Flags
  BY <1>1 DEF Content, Typed
<1>3. Store(a, s, "TSICR", content)
  BY <1>0 DEF ClearReg
<1>4. Moves(a, s, Mapped_, l)
  BY <1>0, <1>3, StoreMoves
<1> HIDE DEF content
<1>5. regs' = IF Mapped_ /\ "TSICR" \in Registers THEN [regs EXCEPT !["TSICR"] = content] ELSE regs
  BY <1>3 DEF Store
<1>6. Typed'
  <2>1. regs' \in [Registers -> SUBSET Flags]
    BY <1>2, <1>5 DEF Typed
  <2>2. hist' \in [lost : BOOLEAN, halted : BOOLEAN,
          expiry : {"none", "pending", "told"}, expiries : Nat, unreported : BOOLEAN,
          raced : BOOLEAN, bothmapped : BOOLEAN, stamped : Nat, assumed : BOOLEAN]
    BY <1>0 DEF ClearReg, Typed, Local
  <2> QED BY <1>4, <2>1, <2>2 DEF Typed, ClearReg, Moves
<1>7. Outcome(a, s, Mapped_)
  BY <1>0 DEF Outcome, Accesses, Queries, Certain, Mapped_
<1>8. Edits(a, s, Mapped_, l)
  BY <1>0, NothingEdited DEF Editing, OfStamps, StampReads, StampReports, ClockReads, Halving, Fills
<1>9. Effects(a, s, Mapped_)
  <2>1. UNCHANGED <<load, stamp, adapter, clock, phy, timer>>
    BY DEF ClearReg
  <2>2. /\ hist'.bothmapped = hist.bothmapped /\ hist'.raced = hist.raced
        /\ hist'.unreported <=> \/ hist.unreported
                                \/ Mapped_ /\ hist.expiry = "pending" /\ ~l.told
        /\ hist'.halted = hist.halted /\ hist'.lost = hist.lost
        /\ hist'.assumed = hist.assumed
        /\ hist'.stamped = hist.stamped
    BY <1>0 DEF ClearReg, Typed, Local
  <2>3. OnRegs(a, s, Mapped_)
    BY <1>0, <1>1, <1>5 DEF OnRegs, OnTsauxc, Typed, content, Content
  <2>4. OnHistory(a, s, Mapped_)
    BY <1>0, <2>2 DEF OnHistory
  <2> QED BY <1>0, <2>1, <2>2, <2>3, <2>4, AdapterKept, ClockKept, PhyKept, TimerKept, StampKept
          DEF Effects, OfStamps, StampReads, StampReports, Promotions
<1> QED BY <1>0, <1>4, <1>6, <1>7, <1>8, <1>9 DEF Taken, Takes

LEMMA EditCopyTaken ==
  ASSUME Typed, NEW a \in Actors, NEW s, Shaped(s), EditCopy(a, s)
  PROVE  Typed' /\ Taken(a, s)
<1> DEFINE l == local[a]
           copy == Copy(a, s)
           r == [l EXCEPT !.loc = copy]
<1>0. /\ Locally /\ l \in Local /\ Target(s, TRUE) \in Nat
      /\ s.op \in {"load", "change", "read shadow"} /\ ~Fills(s)
  BY TypedLocally DEF Locally, Shaped, Target, EditCopy, Fills
<1>1. copy \in SUBSET Flags
  BY <1>0 DEF Copy, Shaped, Local, Typed
<1>2. Move(a, s, TRUE, r)
  BY <1>0 DEF EditCopy, Copy
<1> HIDE DEF copy
<1>3. /\ r \in Local /\ r.loc = copy /\ r.told = l.told /\ r.held = l.held
      /\ r.seen = l.seen /\ r.halves = l.halves /\ r.base = l.base /\ r.behind = l.behind
      /\ SameReading(r, l) /\ r.stamp = l.stamp
  BY <1>0, <1>1 DEF Local, SameReading
<1> HIDE DEF r
<1>4. Moves(a, s, TRUE, r)
  BY <1>0, <1>2, <1>3, MoveMoves
<1>5. Typed'
  <2>1. UNCHANGED <<load, stamp, adapter, regs, clock, phy, timer, hist>>
    BY DEF EditCopy
  <2> QED BY <1>3, <1>4, <2>1, OnlyLocal
<1>6. Outcome(a, s, TRUE)
  BY <1>0 DEF Outcome, Accesses, Queries, Certain
<1>7. Edits(a, s, TRUE, r)
  BY <1>0, <1>3 DEF Edits, StampEdits, StampReads, StampReports, OfStamps, ClockReads,
     Halving, Reads, copy
<1>8. Effects(a, s, TRUE)
  <2>1. UNCHANGED <<load, stamp, adapter, regs, phy, timer, hist, clock>>
    BY DEF EditCopy
  <2> QED BY <1>0, <2>1, NothingChanged DEF Changing, OfStamps, StampReads, StampReports, Promotions
<1> QED BY <1>3, <1>4, <1>5, <1>6, <1>7, <1>8 DEF Taken, Takes

\* A half of the clock, read, leaves a reading that is judged or not whole.
LEMMA JudgedIsSeen ==
  ASSUME NEW r PROVE Judged(r) \in Seen /\ Judged(r) # "unsure" /\ Judged(r) # "none"
BY DEF Judged, Seen

LEMMA HalfReadFacts ==
  ASSUME NEW l \in Local, NEW half \in {"low", "high", "latch"}, NEW value \in Nat, clock.time \in Nat
  PROVE  LET h == HalfRead(l, half, value)
         IN /\ h \in Local /\ h.loc = l.loc /\ h.told = l.told /\ h.held = l.held
            /\ h.base = l.base /\ h.behind = l.behind /\ h.stamp = l.stamp
            /\ l.seen # "unsure" => h.seen # "unsure"
            /\ half = "low" => h.seen # "unsure" \/ "low" \in h.halves
            /\ half = "high" /\ "low" \in l.halves => h.seen # "unsure"
<1> DEFINE s == [l EXCEPT !.low = IF half = "low" THEN value ELSE @,
                          !.high = IF half = "high" THEN value ELSE @,
                          !.halves = @ \cup {half},
                          !.from = IF l.halves = {} THEN clock.time ELSE @,
                          !.disturbed = l.halves # {} /\ @]
           whole == [s EXCEPT !.halves = {}, !.seen = Judged(s)]
           h == HalfRead(l, half, value)
<1>1. /\ s \in Local /\ s.loc = l.loc /\ s.told = l.told /\ s.held = l.held /\ s.base = l.base
      /\ s.behind = l.behind /\ s.seen = l.seen /\ s.halves = l.halves \cup {half}
      /\ s.stamp = l.stamp
  BY DEF Local
<1>2. h = IF ~({"low", "high"} \subseteq s.halves) THEN s
          ELSE IF load.device = "i219" THEN whole ELSE Forget(whole)
  BY DEF HalfRead
<1> HIDE DEF s, h
<1>3. /\ whole \in Local /\ whole.loc = s.loc /\ whole.told = s.told /\ whole.held = s.held
      /\ whole.base = s.base /\ whole.behind = s.behind /\ whole.seen = Judged(s)
      /\ whole.stamp = s.stamp
  BY <1>1, JudgedIsSeen DEF Local
<1> HIDE DEF whole
<1>4. /\ Forget(whole) \in Local /\ Forget(whole).loc = whole.loc /\ Forget(whole).told = whole.told
      /\ Forget(whole).held = whole.held /\ Forget(whole).base = whole.base
      /\ Forget(whole).behind = whole.behind /\ Forget(whole).seen = whole.seen
      /\ Forget(whole).stamp = whole.stamp
  BY <1>3 DEF Local, Forget
<1>5. CASE ~({"low", "high"} \subseteq s.halves)
  <2>1. h = s
    BY <1>2, <1>5
  <2> QED BY <1>1, <1>5, <2>1 DEF h
<1>6. CASE {"low", "high"} \subseteq s.halves
  <2>1. h \in {whole, Forget(whole)}
    BY <1>2, <1>6
  <2> QED BY <1>1, <1>3, <1>4, <2>1, JudgedIsSeen DEF h
<1> QED BY <1>5, <1>6

LEMMA Halves ==
  ASSUME NEW t \in Nat
  PROVE  Low(t) \in Nat /\ Low(t) \in {0, 1} /\ High(t) \in Nat /\ t = 2 * High(t) + Low(t)
         /\ t - Low(t) \in Nat /\ Low(t) <= t
BY DEF Low, High

LEMMA ReadClockHalfTaken ==
  ASSUME Typed, NEW a \in Actors, NEW s, Shaped(s), ReadClockHalf(a, s)
  PROVE  Typed' /\ Taken(a, s)
<1> DEFINE l == local[a]
           half == s.op
           latched == IF Latches(half) THEN clock.time ELSE clock.latched
           value == IF half = "high" THEN High(latched) ELSE Low(latched)
           h == HalfRead(l, half, value)
           r == IF Mapped_ THEN h ELSE l
<1>0. /\ Locally /\ Mapped_ \in BOOLEAN /\ l \in Local /\ Target(s, Mapped_) \in Nat
      /\ half \in {"low", "high", "latch"} /\ clock.time \in Nat /\ ~Fills(s)
  BY TypedLocally DEF Locally, Shaped, Target, ReadClockHalf, Typed, Fills
<1>1. /\ clock' = [clock EXCEPT !.latched = IF Mapped_ THEN latched ELSE @]
      /\ IF ~Mapped_ THEN Test(a, s, FALSE)
         ELSE IF Latches(half) THEN MoveAndDisturb(a, s, TRUE, h)
         ELSE Move(a, s, TRUE, h)
  BY DEF ReadClockHalf
<1>2. latched \in Nat /\ value \in Nat
  <2>1. latched \in Nat
    BY DEF Typed
  <2> HIDE DEF latched
  <2> QED BY <2>1, Halves
<1> HIDE DEF value, latched
<1>3. /\ h \in Local /\ h.loc = l.loc /\ h.told = l.told /\ h.held = l.held
      /\ h.base = l.base /\ h.behind = l.behind /\ h.stamp = l.stamp
      /\ l.seen # "unsure" => h.seen # "unsure"
      /\ half = "low" => h.seen # "unsure" \/ "low" \in h.halves
      /\ half = "high" /\ "low" \in l.halves => h.seen # "unsure"
  BY <1>0, <1>2, HalfReadFacts
<1> HIDE DEF h
<1>4. r \in Local /\ Moves(a, s, Mapped_, r)
  BY <1>0, <1>1, <1>3, TestMoves, DisturbMoves, MoveMoves
<1>5. Typed'
  <2>1. UNCHANGED <<load, stamp, adapter, regs, phy, timer, hist>>
    BY DEF ReadClockHalf
  <2>2. clock' \in [time : Nat, latched : Nat, shadow : SUBSET Flags, offset : Seen]
    BY <1>1, <1>2 DEF Typed
  <2> QED BY <1>4, <2>1, <2>2 DEF Typed, Moves
<1>6. Outcome(a, s, Mapped_)
  BY <1>0 DEF Outcome, Accesses, Queries, Certain, Mapped_
<1>7. /\ clock'.shadow = clock.shadow /\ clock'.offset = clock.offset /\ clock'.time = clock.time
      /\ clock'.latched = IF Mapped_ THEN latched ELSE clock.latched
  BY <1>1 DEF Typed
<1>8. Reads(a, s, Mapped_, r)
  <2>1. CASE Mapped_
    <3>1. clock'.latched = IF Latches(s.op) THEN clock.time ELSE clock.latched
      BY <1>7, <2>1 DEF latched
    <3>2. r = HalfRead(l, s.op, IF s.op = "high" THEN High(clock'.latched) ELSE Low(clock'.latched))
      BY <1>7, <2>1 DEF h, value
    <3> QED BY <1>0, <2>1, <3>1, <3>2 DEF Reads, ClockReads, Halving
  <2>2. CASE ~Mapped_
    BY <1>0, <2>2 DEF Reads, ClockReads, Halving, SameReading
  <2> QED BY <2>1, <2>2
<1>9. Edits(a, s, Mapped_, r)
  BY <1>0, <1>3, <1>8 DEF Edits, StampEdits, StampReads, StampReports, OfStamps, Copy,
     ClockReads, Halving, Local
<1>10. Effects(a, s, Mapped_)
  <2>1. UNCHANGED <<load, stamp, adapter, regs, phy, timer, hist>>
    BY DEF ReadClockHalf
  <2>2. CASE Mapped_ /\ Latches(half)
    <3>1. /\ clock'.latched = clock.time /\ half \in {"low", "latch"}
          /\ \A b \in Actors \ {a} : local[b].halves # {} => local'[b].disturbed
      BY <1>0, <1>1, <1>3, <1>7, <2>2, DisturbMoves DEF latched, Latches
    <3>2. OnClock(a, s, Mapped_)
      BY <1>0, <1>7, <2>2, <3>1 DEF OnClock
    <3> QED BY <1>0, <2>1, <3>2, AdapterKept, RegsKept, PhyKept, TimerKept, HistoryKept, StampKept
            DEF Effects, OfStamps, StampReads, StampReports, Promotions
  <2>3. CASE ~(Mapped_ /\ Latches(half))
    <3>1. clock'.latched = clock.latched
      BY <1>7, <2>3 DEF latched
    <3> QED BY <1>0, <1>7, <2>1, <3>1, NothingChanged DEF Changing, OfStamps, StampReads,
       StampReports, Promotions
  <2> QED BY <2>2, <2>3
<1> QED BY <1>0, <1>4, <1>5, <1>6, <1>9, <1>10 DEF Taken, Takes

LEMMA RecheckTaken ==
  ASSUME Typed, NEW a \in Actors, NEW s, Shaped(s), Recheck(a, s)
  PROVE  Typed' /\ Taken(a, s)
<1> DEFINE l == local[a]
           good == Low(clock.time) >= l.low
           seen == IF good THEN Judged(l) ELSE "unsure"
           r == Forget([l EXCEPT !.seen = seen])
<1>0. /\ Locally /\ Mapped_ \in BOOLEAN /\ l \in Local /\ \A ok \in BOOLEAN : Target(s, ok) \in Nat
      /\ s.op = "recheck" /\ ~Fills(s) /\ good \in BOOLEAN
  BY TypedLocally DEF Locally, Shaped, Target, Recheck, Fills
<1>1. UNCHANGED <<load, stamp, adapter, regs, phy, timer, hist>>
  BY DEF Recheck
<1>2. CASE ~Mapped_
  <2>1. Test(a, s, FALSE) /\ clock' = clock
    BY <1>2 DEF Recheck
  <2>2. Moves(a, s, FALSE, l)
    BY <1>0, <2>1, TestMoves
  <2>3. Typed'
    BY <1>0, <1>1, <2>1, <2>2, OnlyLocal
  <2>4. Outcome(a, s, FALSE)
    BY <1>0 DEF Outcome, Accesses, Queries, Certain
  <2>5. Edits(a, s, FALSE, l)
    BY <1>0, <1>2 DEF Edits, StampEdits, StampReads, StampReports, OfStamps, Copy,
       ClockReads, Halving, Reads, Local
  <2>6. Effects(a, s, FALSE)
    BY <1>0, <1>1, <2>1, NothingChanged DEF Changing, OfStamps, StampReads, StampReports, Promotions
  <2> QED BY <1>0, <2>2, <2>3, <2>4, <2>5, <2>6 DEF Taken, Takes
<1>3. CASE Mapped_
  <2>1. MoveAndDisturb(a, s, good, r) /\ clock' = [clock EXCEPT !.latched = clock.time]
    BY <1>3 DEF Recheck
  <2>2. seen \in Seen /\ (good => seen # "unsure")
    BY JudgedIsSeen DEF Seen
  <2> HIDE DEF seen, good
  <2>3. /\ r \in Local /\ r.loc = l.loc /\ r.told = l.told /\ r.held = l.held
        /\ r.base = l.base /\ r.behind = l.behind /\ r.seen = seen /\ r.stamp = l.stamp
    BY <1>0, <2>2 DEF Forget, Local
  <2> HIDE DEF r
  <2>4. Moves(a, s, good, r)
    BY <1>0, <2>1, <2>3, DisturbMoves
  <2>5. Typed'
    <3>1. clock' \in [time : Nat, latched : Nat, shadow : SUBSET Flags, offset : Seen]
      BY <2>1 DEF Typed
    <3> QED BY <1>1, <2>4, <3>1 DEF Typed, Moves
  <2>6. Outcome(a, s, good)
    BY <1>0, <1>3 DEF Outcome, Accesses, Queries, Certain
  <2>7. Reads(a, s, good, r)
    BY <1>0, <1>3 DEF Reads, ClockReads, Halving, r, seen, good
  <2>8. Edits(a, s, good, r)
    BY <1>0, <1>3, <2>2, <2>3, <2>7 DEF Edits, StampEdits, StampReads, StampReports, OfStamps, Copy, ClockReads, Halving, Local
  <2>9. Effects(a, s, good)
    <3>1. /\ clock'.shadow = clock.shadow /\ clock'.offset = clock.offset /\ clock'.time = clock.time
          /\ clock'.latched = clock.time
      BY <2>1 DEF Typed
    <3>2. \A b \in Actors \ {a} : local[b].halves # {} => local'[b].disturbed
      BY <1>0, <2>1, <2>3, DisturbMoves
    <3>3. OnClock(a, s, good)
      BY <1>0, <3>1, <3>2 DEF OnClock
    <3> QED BY <1>0, <1>1, <3>3, AdapterKept, RegsKept, PhyKept, TimerKept, HistoryKept, StampKept
            DEF Effects, OfStamps, StampReads, StampReports, Promotions
  <2> QED BY <1>0, <2>3, <2>4, <2>5, <2>6, <2>8, <2>9 DEF Taken, Takes
<1> QED BY <1>0, <1>2, <1>3

LEMMA SetClockHalfTaken ==
  ASSUME Typed, NEW a \in Actors, NEW s, Shaped(s), SetClockHalf(a, s)
  PROVE  Typed' /\ Taken(a, s)
<1> DEFINE l == local[a]
<1>0. /\ Locally /\ Mapped_ \in BOOLEAN /\ l \in Local /\ Target(s, Mapped_) \in Nat
      /\ s.op \in {"set low", "set high"} /\ ~Fills(s) /\ clock.time \in Nat
  BY TypedLocally DEF Locally, Shaped, Target, SetClockHalf, Typed, Fills
<1>1. UNCHANGED <<load, stamp, adapter, regs, phy, timer, hist>>
  BY DEF SetClockHalf
<1>2. Moves(a, s, Mapped_, l)
  <2>1. IF Mapped_ THEN MoveAndDisturb(a, s, TRUE, l) ELSE Test(a, s, FALSE)
    BY DEF SetClockHalf
  <2> QED BY <1>0, <2>1, DisturbMoves, TestMoves
<1>3. clock' \in [time : Nat, latched : Nat, shadow : SUBSET Flags, offset : Seen]
  <2> DEFINE t == IF s.op = "set low" THEN clock.time - Low(clock.time) ELSE Low(clock.time)
  <2>1. t \in Nat
    BY <1>0, Halves
  <2>2. clock' = IF ~Mapped_ THEN clock ELSE [clock EXCEPT !.time = t]
    BY <1>0 DEF SetClockHalf
  <2> HIDE DEF t
  <2> QED BY <2>1, <2>2 DEF Typed
<1>4. Typed'
  BY <1>1, <1>2, <1>3 DEF Typed, Moves
<1>5. Outcome(a, s, Mapped_)
  BY <1>0 DEF Outcome, Accesses, Queries, Certain, Mapped_
<1>6. Edits(a, s, Mapped_, l)
  BY <1>0, NothingEdited DEF Editing, OfStamps, StampReads, StampReports, ClockReads, Halving
<1>7. Effects(a, s, Mapped_)
  <2>1. ASSUME Mapped_ PROVE OnClock(a, s, Mapped_)
    <3>1. /\ clock'.shadow = clock.shadow /\ clock'.offset = clock.offset
          /\ clock'.latched = clock.latched
          /\ clock'.time = IF s.op = "set low" THEN clock.time - Low(clock.time) ELSE Low(clock.time)
      BY <1>0, <2>1 DEF SetClockHalf, Typed
    <3>2. \A b \in Actors \ {a} : local[b].halves # {} => local'[b].disturbed
      BY <1>0, <2>1, DisturbMoves DEF SetClockHalf
    <3> QED BY <1>0, <2>1, <3>1, <3>2 DEF OnClock
  <2>2. ASSUME ~Mapped_ PROVE OnClock(a, s, Mapped_)
    <3>1. clock' = clock
      BY <1>0, <2>2 DEF SetClockHalf
    <3> QED BY <1>0, <2>2, <3>1 DEF OnClock
  <2>3. OnClock(a, s, Mapped_)
    BY <2>1, <2>2
  <2> QED BY <1>0, <1>1, <2>3, AdapterKept, RegsKept, PhyKept, TimerKept, HistoryKept, StampKept
          DEF Effects, OfStamps, StampReads, StampReports, Promotions
<1> QED BY <1>0, <1>2, <1>4, <1>5, <1>6, <1>7 DEF Taken, Takes

LEMMA SetSoftClockTaken ==
  ASSUME Typed, NEW a \in Actors, NEW s, Shaped(s), SetSoftClock(a, s)
  PROVE  Typed' /\ Taken(a, s)
<1> DEFINE l == local[a]
           used == [Forget(l) EXCEPT !.halves = {}, !.seen = "none"]
           r == IF s.op = "offset" THEN used ELSE l
<1>0. /\ Locally /\ l \in Local /\ Target(s, TRUE) \in Nat
      /\ s.op \in {"offset", "write shadow"} /\ ~Fills(s)
  BY TypedLocally DEF Locally, Shaped, Target, SetSoftClock, Fills
<1>1. UNCHANGED <<load, stamp, adapter, regs, phy, timer, hist>>
  BY DEF SetSoftClock
<1>2. /\ used \in Local /\ used.loc = l.loc /\ used.told = l.told /\ used.held = l.held
      /\ used.base = l.base /\ used.behind = l.behind /\ used.seen = "none" /\ used.halves = {}
      /\ used.stamp = l.stamp
  BY <1>0 DEF Forget, Local, Seen
<1>3. ASSUME s.op = "offset" PROVE r \in Local /\ Moves(a, s, TRUE, r) /\ Edits(a, s, TRUE, r)
  <2>1. Move(a, s, TRUE, used)
    BY <1>3 DEF SetSoftClock
  <2> HIDE DEF used
  <2>2. Moves(a, s, TRUE, used)
    BY <1>0, <1>2, <2>1, MoveMoves
  <2>3. Edits(a, s, TRUE, used)
    BY <1>0, <1>2, <1>3 DEF Edits, StampEdits, StampReads, StampReports, OfStamps,
       Copy, ClockReads, Halving, Reads, Local
  <2> QED BY <1>2, <1>3, <2>2, <2>3
<1>4. ASSUME s.op = "write shadow" PROVE r \in Local /\ Moves(a, s, TRUE, r) /\ Edits(a, s, TRUE, r)
  <2>1. Test(a, s, TRUE)
    BY <1>4 DEF SetSoftClock
  <2>2. Moves(a, s, TRUE, l) /\ Edits(a, s, TRUE, l)
    BY <1>0, <1>4, <2>1, TestMoves, NothingEdited DEF Editing, OfStamps, StampReads,
       StampReports, ClockReads,
       Halving
  <2> QED BY <1>0, <1>4, <2>2
<1>5. r \in Local /\ Moves(a, s, TRUE, r) /\ Edits(a, s, TRUE, r)
  BY <1>0, <1>3, <1>4
<1> HIDE DEF r
<1>6. clock' \in [time : Nat, latched : Nat, shadow : SUBSET Flags, offset : Seen]
  BY <1>0 DEF SetSoftClock, Typed, Local
<1>7. Typed'
  BY <1>1, <1>5, <1>6 DEF Typed, Moves
<1>8. Outcome(a, s, TRUE)
  BY <1>0 DEF Outcome, Accesses, Queries, Certain
<1>9. Effects(a, s, TRUE)
  <2>1. OnClock(a, s, TRUE)
    BY <1>0 DEF OnClock, SetSoftClock, Typed
  <2> QED BY <1>0, <1>1, <2>1, AdapterKept, RegsKept, PhyKept, TimerKept, HistoryKept, StampKept
          DEF Effects, OfStamps, StampReads, StampReports, Promotions
<1> QED BY <1>5, <1>7, <1>8, <1>9 DEF Taken, Takes

LEMMA ReadStampTaken ==
  ASSUME Typed, NEW a \in Actors, NEW s, Shaped(s), ReadStamp(a, s)
  PROVE  Typed' /\ Taken(a, s)
<1> DEFINE l == local[a]
           its == Timestamped(s.op)
           got == Got(a, s.op)
           ok == Mapped_ /\ (s.op = "stamp ready" \/ (s.op = "stamp high" /\ load.device # "i226")
                               => its /\ stamp.valid)
           r == [l EXCEPT !.stamp = got]
           m(b) == [local[b] EXCEPT !.stamp.shared = @ \/ (its /\ local[b].stamp.at)]
<1>0. /\ Locally /\ Mapped_ \in BOOLEAN /\ l \in Local /\ ok \in BOOLEAN /\ its \in BOOLEAN
      /\ \A o \in BOOLEAN : Target(s, o) \in Nat
      /\ s.op \in StampReads /\ ~Fills(s)
  BY TypedLocally DEF Locally, Shaped, Target, ReadStamp, Typed, Fills, StampReads, Timestamped
<1>1. UNCHANGED <<load, adapter, regs, clock, phy, timer, hist>>
  BY DEF ReadStamp
<1>2. got \in Stamp
  <2> DEFINE packet == IF its THEN stamp.packet ELSE 0
             empty == l.stamp.empty \/ (s.op = "receipt low" /\ ~(its /\ stamp.valid))
             low == IF s.op \in {"stamp low", "receipt low"} THEN packet ELSE l.stamp.low
             high == IF s.op \in {"stamp high", "receipt high"} THEN packet ELSE l.stamp.high
  <2>1. l.stamp \in Stamp /\ stamp.packet \in Nat /\ stamp.valid \in BOOLEAN
    BY <1>0 DEF Typed, Local
  <2>2. packet \in Nat /\ empty \in BOOLEAN
    BY <1>0, <2>1 DEF Stamp
  <2>3. low \in Nat /\ high \in Nat
    BY <2>1, <2>2 DEF Stamp
  <2>4. got = [l.stamp EXCEPT !.at = @ \/ its, !.empty = empty, !.low = low, !.high = high]
    BY DEF Got
  <2> HIDE DEF packet, empty, low, high, its, got
  <2> QED BY <1>0, <2>1, <2>2, <2>3, <2>4 DEF Stamp
<1>3. local' = [b \in Actors |-> IF b = a THEN Onward(s, ok, r) ELSE m(b)]
  BY DEF ReadStamp
<1>4. /\ stamp' = [stamp EXCEPT !.valid = @ /\ ~(Mapped_ /\ its /\ Frees(s.op)),
                                !.missed = @ \/ (s.op = "receipt high" /\ l.stamp.of = 0)]
      /\ Frees(s.op) \in BOOLEAN /\ l.stamp.of \in Nat
      /\ stamp \in [packet : Nat, valid : BOOLEAN, last : Nat, handled : Nat, missed : BOOLEAN]
  <2>1. l.stamp \in Stamp
    BY <1>0 DEF Local
  <2>2. Frees(s.op) \in BOOLEAN
    BY DEF Frees
  <2>3. stamp \in [packet : Nat, valid : BOOLEAN, last : Nat, handled : Nat, missed : BOOLEAN]
    BY DEF Typed
  <2>4. stamp' = [stamp EXCEPT !.valid = @ /\ ~(Mapped_ /\ its /\ Frees(s.op)),
                              !.missed = @ \/ (s.op = "receipt high" /\ l.stamp.of = 0)]
    BY DEF ReadStamp
  <2> QED BY <2>1, <2>2, <2>3, <2>4 DEF Stamp
<1>5. s.op \in Accesses => (ok <=> Mapped_)
  BY <1>0 DEF Accesses, StampReads
<1>6. /\ ok => Mapped_
      /\ s.op = "stamp ready" \/ (s.op = "stamp high" /\ load.device # "i226") =>
           (ok => Timestamped(s.op) /\ stamp.valid)
  OBVIOUS
<1> HIDE DEF got, ok, its
<1>7. /\ r \in Local /\ r.loc = l.loc /\ r.told = l.told /\ r.held = l.held /\ r.seen = l.seen
      /\ r.halves = l.halves /\ r.base = l.base /\ r.behind = l.behind
      /\ SameReading(r, l) /\ r.stamp = got
  BY <1>0, <1>2 DEF Local, SameReading
<1>8. ASSUME NEW b \in Actors
      PROVE  /\ m(b) \in Local /\ m(b).pc = local[b].pc /\ m(b).loc = local[b].loc
             /\ m(b).base = local[b].base /\ m(b).halves = local[b].halves
             /\ m(b).seen = local[b].seen /\ m(b).told = local[b].told
             /\ m(b).low = local[b].low /\ m(b).high = local[b].high
             /\ m(b).from = local[b].from /\ m(b).disturbed = local[b].disturbed
             /\ m(b).held = local[b].held /\ m(b).behind = local[b].behind
             /\ SameStamp(m(b).stamp, local[b].stamp)
             /\ its /\ local[b].stamp.at => m(b).stamp.shared
  <2> DEFINE st == [local[b].stamp EXCEPT !.shared = @ \/ (its /\ local[b].stamp.at)]
  <2>1. local[b] \in Local /\ local[b].stamp \in Stamp
    BY <1>0 DEF Locally, Local
  <2>2. /\ st \in Stamp /\ SameStamp(st, local[b].stamp)
        /\ its /\ local[b].stamp.at => st.shared
    BY <2>1, <1>0 DEF Stamp, SameStamp
  <2>3. m(b) = [local[b] EXCEPT !.stamp = st]
    OBVIOUS
  <2> HIDE DEF st
  <2> QED BY <2>1, <2>2, <2>3 DEF Local
<1> HIDE DEF r, m
<1>9. Moves(a, s, ok, r) /\ (its => \A b \in Actors \ {a} : local[b].stamp.at => local'[b].stamp.shared)
  BY <1>0, <1>3, <1>7, <1>8, OnwardFacts DEF Moves, Keeps
<1>10. Typed'
  <2>1. stamp' \in [packet : Nat, valid : BOOLEAN, last : Nat, handled : Nat, missed : BOOLEAN]
    BY <1>0, <1>4
  <2> QED BY <1>1, <1>9, <2>1 DEF Typed, Moves
<1>11. Outcome(a, s, ok)
  BY <1>0, <1>5, <1>6 DEF Outcome, Queries, Certain, StampReads
<1>12. Edits(a, s, ok, r)
  <2>1. StampEdits(a, s, r)
    BY <1>0, <1>7 DEF StampEdits, OfStamps, StampReports, StampReads, got
  <2> QED BY <1>0, <1>7, <2>1 DEF Edits, Copy, ClockReads, Halving, Reads, StampReads, Local
<1>13. Effects(a, s, ok)
  <2>1. OnStamp(a, s, ok)
    <3>1. /\ stamp'.packet = stamp.packet /\ stamp'.last = stamp.last /\ stamp'.handled = stamp.handled
          /\ stamp'.valid <=> stamp.valid /\ ~(Mapped_ /\ its /\ Frees(s.op))
          /\ stamp'.missed <=> stamp.missed \/ (s.op = "receipt high" /\ l.stamp.of = 0)
      BY <1>0, <1>4
    <3> QED BY <1>0, <1>1, <1>6, <1>9, <3>1 DEF OnStamp, StampReads, its
  <2> QED BY <1>0, <1>1, <2>1, AdapterKept, RegsKept, ClockKept, PhyKept, TimerKept, HistoryKept
          DEF Effects, Promotions, StampReads
<1> QED BY <1>0, <1>7, <1>9, <1>10, <1>11, <1>12, <1>13 DEF Taken, Takes

LEMMA NextMessageTaken ==
  ASSUME Typed, NEW a \in Actors, NEW s, Shaped(s), NextMessage(a, s)
  PROVE  Typed' /\ Taken(a, s)
<1> DEFINE l == local[a]
           ok == load.latch = "RX" /\ stamp.handled < stamp.last
           n == IF ok THEN stamp.handled + 1 ELSE stamp.handled
           st == [NoStamp EXCEPT !.of = n]
           r == [l EXCEPT !.stamp = st]
<1>0. /\ Locally /\ l \in Local /\ \A o \in BOOLEAN : Target(s, o) \in Nat
      /\ s.op = "event message" /\ ~Fills(s)
  BY TypedLocally DEF Locally, Shaped, Target, NextMessage, Fills
<1>n. n \in Nat /\ ok \in BOOLEAN
  <2>1. stamp.handled \in Nat /\ stamp.last \in Nat
    BY DEF Typed
  <2> QED BY <2>1
<1>1. UNCHANGED <<load, adapter, regs, clock, phy, timer, hist>> /\ Move(a, s, ok, r)
      /\ stamp' = [stamp EXCEPT !.handled = n]
  BY <1>0 DEF NextMessage
<1>s. /\ stamp'.packet = stamp.packet /\ stamp'.last = stamp.last
      /\ stamp'.valid = stamp.valid /\ stamp'.missed = stamp.missed /\ stamp'.handled = n
      /\ IF ok THEN load.latch = "RX" /\ stamp.handled < stamp.last /\ n = stamp.handled + 1
         ELSE n = stamp.handled
  BY <1>1 DEF Typed
<1> HIDE DEF n, ok
<1>2. st \in Stamp
  BY <1>n DEF Stamp, NoStamp
<1> HIDE DEF st
<1>3. /\ r \in Local /\ r.loc = l.loc /\ r.told = l.told /\ r.held = l.held /\ r.seen = l.seen
      /\ r.halves = l.halves /\ r.base = l.base /\ r.behind = l.behind
      /\ SameReading(r, l) /\ r.stamp = st
  BY <1>0, <1>2 DEF Local, SameReading
<1> HIDE DEF r
<1>4. Moves(a, s, ok, r)
  BY <1>0, <1>n, <1>1, <1>3, MoveMoves
<1>5. Typed'
  BY <1>n, <1>1, <1>4 DEF Typed, Moves
<1>6. Outcome(a, s, ok)
  BY <1>0 DEF Outcome, Accesses, Queries, Certain
<1>7. Edits(a, s, ok, r)
  <2>1. StampEdits(a, s, r)
    BY <1>0, <1>s, <1>3 DEF StampEdits, OfStamps, StampReports, StampReads, st
  <2> QED BY <1>0, <1>n, <1>3, <2>1 DEF Edits, Copy, ClockReads, Halving, Reads, Local
<1>8. Effects(a, s, ok)
  <2>1. OnStamp(a, s, ok)
    BY <1>0, <1>1, <1>s DEF OnStamp, StampReads
  <2> QED BY <1>0, <1>1, <1>n, <2>1, AdapterKept, RegsKept, ClockKept, PhyKept, TimerKept,
     HistoryKept
          DEF Effects, Promotions
<1> QED BY <1>0, <1>n, <1>3, <1>4, <1>5, <1>6, <1>7, <1>8 DEF Taken, Takes

LEMMA ReportStampTaken ==
  ASSUME Typed, NEW a \in Actors, NEW s, Shaped(s), ReportStamp(a, s)
  PROVE  Typed' /\ Taken(a, s)
<1> DEFINE l == local[a]
           stamped == IF s.op \in {"post stamp", "answer stamp"} THEN l.stamp.low ELSE hist.stamped
           r == [l EXCEPT !.stamp = NoStamp]
<1>0. /\ Locally /\ l \in Local /\ Target(s, TRUE) \in Nat /\ ~Fills(s)
      /\ s.op \in StampReports
  BY TypedLocally DEF Locally, Shaped, Target, ReportStamp, Typed, Fills, StampReports
<1>1. /\ UNCHANGED <<load, adapter, regs, clock, stamp, phy, timer>> /\ Move(a, s, TRUE, r)
      /\ hist' = [hist EXCEPT !.stamped = stamped]
  BY <1>0 DEF ReportStamp
<1>2. NoStamp \in Stamp /\ stamped \in Nat
  BY <1>0 DEF Stamp, NoStamp, Local, Typed
<1> HIDE DEF stamped
<1>3. /\ r \in Local /\ r.loc = l.loc /\ r.told = l.told /\ r.held = l.held /\ r.seen = l.seen
      /\ r.halves = l.halves /\ r.base = l.base /\ r.behind = l.behind
      /\ SameReading(r, l) /\ r.stamp = NoStamp
  BY <1>0, <1>2 DEF Local, SameReading
<1> HIDE DEF r
<1>4. Moves(a, s, TRUE, r)
  BY <1>0, <1>1, <1>3, MoveMoves
<1>5. Typed'
  BY <1>1, <1>2, <1>4 DEF Typed, Moves
<1>6. Outcome(a, s, TRUE)
  BY <1>0 DEF Outcome, Accesses, Queries, Certain, StampReports
<1>7. Edits(a, s, TRUE, r)
  <2>1. StampEdits(a, s, r)
    BY <1>0, <1>3 DEF StampEdits, OfStamps, StampReports, StampReads
  <2> QED BY <1>0, <1>3, <2>1 DEF Edits, Copy, ClockReads, Halving, Reads, Local, StampReports
<1>8. Effects(a, s, TRUE)
  <2>1. /\ hist'.bothmapped = hist.bothmapped /\ hist'.raced = hist.raced
        /\ hist'.unreported = hist.unreported /\ hist'.halted = hist.halted
        /\ hist'.lost = hist.lost /\ hist'.assumed = hist.assumed /\ hist'.stamped = stamped
    BY <1>1 DEF Typed
  <2>2. OnStamp(a, s, TRUE)
    BY <1>0, <1>1, <2>1 DEF OnStamp, StampReads, StampReports, stamped
  <2> QED BY <1>0, <1>1, <2>1, <2>2, AdapterKept, RegsKept, ClockKept, PhyKept, TimerKept,
     HistoryKept
          DEF Effects, Promotions, StampReports
<1> QED BY <1>0, <1>3, <1>4, <1>5, <1>6, <1>7, <1>8 DEF Taken, Takes

LEMMA AcquirePhyTaken ==
  ASSUME Typed, NEW a \in Actors, NEW s, Shaped(s), AcquirePhy(a, s)
  PROVE  Typed' /\ (Taken(a, s) \/ UNCHANGED vars)
<1> DEFINE l == local[a]
           mine == Mapped_ /\ phy.bit
           owners == phy.owners \cup (IF mine THEN {a} ELSE {})
<1>0. /\ Locally /\ Mapped_ \in BOOLEAN /\ l \in Local /\ \A o \in BOOLEAN : Target(s, o) \in Nat
      /\ ~Fills(s) /\ phy.bit \in BOOLEAN
  BY TypedLocally DEF Locally, Shaped, Target, AcquirePhy, Typed, Fills
<1>1. UNCHANGED <<load, stamp, adapter, regs, clock, timer, hist>>
  BY DEF AcquirePhy
<1>2. CASE s.op = "await" /\ Test(a, s, Mapped_ /\ ~phy.bit) /\ phy' = phy
  <2> DEFINE ok == Mapped_ /\ ~phy.bit
  <2>1. ok \in BOOLEAN /\ Moves(a, s, ok, l)
    BY <1>0, <1>2, TestMoves
  <2>2. Typed'
    BY <1>0, <1>1, <1>2, <2>1, OnlyLocal
  <2>3. Outcome(a, s, ok)
    BY <1>0, <1>2 DEF Outcome, Accesses, Queries, Certain
  <2>4. Edits(a, s, ok, l)
    BY <1>0, <1>2, <2>1, NothingEdited DEF Editing, OfStamps, StampReads, StampReports,
       ClockReads, Halving
  <2>5. Effects(a, s, ok)
    BY <1>1, <1>2, <2>1, NothingChanged DEF Changing, OfStamps, StampReads, StampReports, Promotions
  <2> QED BY <1>0, <2>1, <2>2, <2>3, <2>4, <2>5 DEF Taken, Takes
<1>3. CASE s.op = "await" /\ UNCHANGED <<phy, local>>
  BY <1>1, <1>3 DEF Typed, vars
<1>4. CASE s.op = "grab" /\ Test(a, s, Mapped_)
           /\ phy' = [phy EXCEPT !.bit = @ \/ (Mapped_ /\ ~phy.firmware)]
  <2>1. Moves(a, s, Mapped_, l)
    BY <1>0, <1>4, TestMoves
  <2>2. /\ phy' \in [bit : BOOLEAN, firmware : BOOLEAN, owners : SUBSET Actors, shared : BOOLEAN]
        /\ phy'.owners = phy.owners
    BY <1>0, <1>4 DEF Typed
  <2>3. Typed'
    BY <1>1, <2>1, <2>2 DEF Typed, Moves
  <2>4. Outcome(a, s, Mapped_)
    BY <1>0, <1>4 DEF Outcome, Accesses, Queries, Certain
  <2>5. Edits(a, s, Mapped_, l)
    BY <1>0, <1>4, NothingEdited DEF Editing, OfStamps, StampReads, StampReports, ClockReads,
       Halving
  <2>6. Effects(a, s, Mapped_)
    <3>1. OnPhy(a, s, Mapped_)
      BY <1>0, <1>4 DEF OnPhy, Typed
    <3> QED BY <1>0, <1>1, <1>4, <3>1, AdapterKept, RegsKept, ClockKept, TimerKept, HistoryKept,
       StampKept
            DEF Effects, OfStamps, StampReads, StampReports, Promotions
  <2> QED BY <1>0, <2>1, <2>3, <2>4, <2>5, <2>6 DEF Taken, Takes
<1>5. CASE s.op = "confirm" /\ Test(a, s, mine)
           /\ phy' = [phy EXCEPT !.owners = owners, !.shared = @ \/ Cardinality(owners) > 1]
  <2>1. mine \in BOOLEAN /\ Moves(a, s, mine, l)
    BY <1>0, <1>5, TestMoves
  <2>2. /\ phy' \in [bit : BOOLEAN, firmware : BOOLEAN, owners : SUBSET Actors, shared : BOOLEAN]
        /\ phy'.owners = owners
    BY <1>0, <1>5 DEF Typed
  <2>3. Typed'
    BY <1>1, <2>1, <2>2 DEF Typed, Moves
  <2>4. Outcome(a, s, mine)
    BY <1>0, <1>5 DEF Outcome, Accesses, Queries, Certain
  <2>5. Edits(a, s, mine, l)
    BY <1>0, <1>5, <2>1, NothingEdited DEF Editing, OfStamps, StampReads, StampReports,
       ClockReads, Halving
  <2>6. Effects(a, s, mine)
    <3>1. OnPhy(a, s, mine)
      BY <1>0, <1>5 DEF OnPhy, Typed
    <3> QED BY <1>1, <1>5, <2>1, <3>1, AdapterKept, RegsKept, ClockKept, TimerKept, HistoryKept,
       StampKept
            DEF Effects, OfStamps, StampReads, StampReports, Promotions
  <2> QED BY <1>0, <2>1, <2>3, <2>4, <2>5, <2>6 DEF Taken, Takes
<1> QED BY <1>2, <1>3, <1>4, <1>5 DEF AcquirePhy

LEMMA ReleasePhyTaken ==
  ASSUME Typed, NEW a \in Actors, NEW s, Shaped(s), ReleasePhy(a, s)
  PROVE  Typed' /\ Taken(a, s)
<1> DEFINE l == local[a]
<1>0. /\ Locally /\ Mapped_ \in BOOLEAN /\ l \in Local /\ Target(s, Mapped_) \in Nat
      /\ ~Fills(s) /\ s.op = "release"
  BY TypedLocally DEF Locally, Shaped, Target, ReleasePhy, Typed, Fills
<1>1. /\ UNCHANGED <<load, stamp, adapter, regs, clock, timer, hist>> /\ Test(a, s, Mapped_)
      /\ phy' = [phy EXCEPT !.bit = @ /\ ~Mapped_, !.owners = @ \ {a}]
  BY DEF ReleasePhy
<1>2. Moves(a, s, Mapped_, l)
  BY <1>0, <1>1, TestMoves
<1>3. /\ phy' \in [bit : BOOLEAN, firmware : BOOLEAN, owners : SUBSET Actors, shared : BOOLEAN]
      /\ phy'.owners = phy.owners \ {a}
  BY <1>0, <1>1 DEF Typed
<1>4. Typed'
  BY <1>1, <1>2, <1>3 DEF Typed, Moves
<1>5. Outcome(a, s, Mapped_)
  BY <1>0 DEF Outcome, Accesses, Queries, Certain
<1>6. Edits(a, s, Mapped_, l)
  BY <1>0, NothingEdited DEF Editing, OfStamps, StampReads, StampReports, ClockReads, Halving
<1>7. Effects(a, s, Mapped_)
  <2>1. OnPhy(a, s, Mapped_)
    BY <1>0, <1>1 DEF OnPhy, Typed
  <2> QED BY <1>0, <1>1, <2>1, AdapterKept, RegsKept, ClockKept, TimerKept, HistoryKept, StampKept
          DEF Effects, OfStamps, StampReads, StampReports, Promotions
<1> QED BY <1>0, <1>2, <1>4, <1>5, <1>6, <1>7 DEF Taken, Takes

LEMMA UsePhyTaken ==
  ASSUME Typed, NEW a \in Actors, NEW s, Shaped(s), UsePhy(a, s)
  PROVE  Typed' /\ Taken(a, s)
<1> DEFINE l == local[a]
<1>0. /\ Locally /\ Mapped_ \in BOOLEAN /\ l \in Local /\ \A o \in BOOLEAN : Target(s, o) \in Nat
      /\ ~Fills(s) /\ s.op \in {"command", "poll"}
  BY TypedLocally DEF Locally, Shaped, Target, UsePhy, Typed, Fills
<1>1. UNCHANGED <<load, stamp, adapter, regs, clock, phy, timer, hist>>
  BY DEF UsePhy
<1>2. PICK ok \in BOOLEAN : Test(a, s, ok) /\ (ok => Mapped_) /\ (s.op = "command" => (ok <=> Mapped_))
  BY <1>0 DEF UsePhy
<1>3. Moves(a, s, ok, l)
  BY <1>0, <1>2, TestMoves
<1>4. Typed'
  BY <1>0, <1>1, <1>3, OnlyLocal
<1>5. Outcome(a, s, ok)
  BY <1>0, <1>2 DEF Outcome, Accesses, Queries, Certain
<1>6. Edits(a, s, ok, l)
  BY <1>0, NothingEdited DEF Editing, OfStamps, StampReads, StampReports, ClockReads, Halving
<1>7. Effects(a, s, ok)
  BY <1>0, <1>1, NothingChanged DEF Changing, OfStamps, StampReads, StampReports, Promotions
<1> QED BY <1>0, <1>3, <1>4, <1>5, <1>6, <1>7 DEF Taken, Takes

LEMMA ReportTaken ==
  ASSUME Typed, NEW a \in Actors, NEW s, Shaped(s), Report(a, s)
  PROVE  Typed' /\ Taken(a, s)
<1> DEFINE l == local[a]
           tells == s.op = "post" \/ "TT0" \in l.loc
           r == [l EXCEPT !.told = @ \/ tells]
<1>0. /\ Locally /\ Mapped_ \in BOOLEAN /\ l \in Local /\ \A o \in BOOLEAN : Target(s, o) \in Nat
      /\ ~Fills(s) /\ s.op \in {"post", "answer flag"}
  BY TypedLocally DEF Locally, Shaped, Target, Report, Typed, Fills
<1>1. UNCHANGED <<load, stamp, adapter, regs, clock, phy, timer>> /\ Move(a, s, TRUE, r)
      /\ hist' = [hist EXCEPT !.expiry = IF tells /\ @ = "pending" THEN "told" ELSE @]
  BY DEF Report
<1>2. tells \in BOOLEAN
  OBVIOUS
<1>3. /\ r \in Local /\ r.loc = l.loc /\ (r.told <=> l.told \/ tells) /\ r.held = l.held
      /\ r.seen = l.seen /\ r.halves = l.halves /\ r.base = l.base /\ r.behind = l.behind
      /\ SameReading(r, l) /\ r.stamp = l.stamp
  BY <1>0, <1>2 DEF Local, SameReading
<1> HIDE DEF r
<1>4. Moves(a, s, TRUE, r)
  BY <1>0, <1>1, <1>3, MoveMoves
<1>5. Typed'
  <2>1. hist' \in [lost : BOOLEAN, halted : BOOLEAN, expiry : {"none", "pending", "told"},
                   expiries : Nat, unreported : BOOLEAN, raced : BOOLEAN,
                bothmapped : BOOLEAN, stamped : Nat, assumed : BOOLEAN]
    BY <1>1 DEF Typed
  <2> QED BY <1>1, <1>4, <2>1 DEF Typed, Moves
<1>6. Outcome(a, s, TRUE)
  BY <1>0 DEF Outcome, Accesses, Queries, Certain
<1>7. Edits(a, s, TRUE, r)
  BY <1>0, <1>3 DEF Edits, StampEdits, StampReads, StampReports, OfStamps, Copy,
     ClockReads, Halving, Reads
<1>8. Effects(a, s, TRUE)
  <2>1. /\ hist'.bothmapped = hist.bothmapped /\ hist'.raced = hist.raced
        /\ hist'.unreported = hist.unreported /\ hist'.halted = hist.halted
        /\ hist'.lost = hist.lost /\ hist'.assumed = hist.assumed
        /\ hist'.stamped = hist.stamped
    BY <1>1 DEF Typed
  <2> QED BY <1>0, <1>1, <2>1, AdapterKept, RegsKept, ClockKept, PhyKept, TimerKept, HistoryKept,
     StampKept
          DEF Effects, OfStamps, StampReads, StampReports, Promotions
<1> QED BY <1>0, <1>3, <1>4, <1>5, <1>6, <1>7, <1>8 DEF Taken, Takes

LEMMA SetTimerTaken ==
  ASSUME Typed, NEW a \in Actors, NEW s, Shaped(s), SetTimer(a, s)
  PROVE  Typed' /\ Taken(a, s)
<1> DEFINE l == local[a]
<1>0. /\ Locally /\ Mapped_ \in BOOLEAN /\ l \in Local /\ \A o \in BOOLEAN : Target(s, o) \in Nat
      /\ ~Fills(s) /\ s.op \in {"set timer"}
  BY TypedLocally DEF Locally, Shaped, Target, SetTimer, Typed, Fills
<1>1. UNCHANGED <<load, stamp, adapter, regs, clock, phy>> /\ Test(a, s, TRUE)
  BY DEF SetTimer
<1>2. Moves(a, s, TRUE, l)
  BY <1>0, <1>1, TestMoves
<1>3. Typed'
  <2>1. timer' \in [armed : BOOLEAN, flag : BOOLEAN]
    BY DEF SetTimer, Typed
  <2>2. hist' \in [lost : BOOLEAN, halted : BOOLEAN, expiry : {"none", "pending", "told"},
                   expiries : Nat, unreported : BOOLEAN, raced : BOOLEAN,
                bothmapped : BOOLEAN, stamped : Nat, assumed : BOOLEAN]
    BY DEF SetTimer, Typed, DpcDone, Stopping
  <2> QED BY <1>1, <1>2, <2>1, <2>2 DEF Typed, Moves
<1>4. Outcome(a, s, TRUE)
  BY <1>0 DEF Outcome, Accesses, Queries, Certain
<1>5. Edits(a, s, TRUE, l)
  BY <1>0, NothingEdited DEF Editing, OfStamps, StampReads, StampReports, ClockReads, Halving
<1>6. Effects(a, s, TRUE)
  <2>1. /\ hist'.bothmapped = hist.bothmapped /\ hist'.unreported = hist.unreported
        /\ hist'.halted = hist.halted /\ hist'.lost = hist.lost /\ hist'.assumed = hist.assumed
        /\ hist'.stamped = hist.stamped
    BY DEF SetTimer, Typed
  <2>2. OnTimer(a, s, TRUE)
    BY <1>0 DEF OnTimer, SetTimer, Typed
  <2> QED BY <1>0, <1>1, <2>1, <2>2, AdapterKept, RegsKept, ClockKept, PhyKept, HistoryKept,
     StampKept
          DEF Effects, OfStamps, StampReads, StampReports, Promotions
<1> QED BY <1>0, <1>2, <1>3, <1>4, <1>5, <1>6 DEF Taken, Takes

LEMMA StopTimerTaken ==
  ASSUME Typed, NEW a \in Actors, NEW s, Shaped(s), StopTimer(a, s)
  PROVE  Typed' /\ Taken(a, s)
<1> DEFINE l == local[a]
<1>0. /\ Locally /\ Mapped_ \in BOOLEAN /\ l \in Local /\ \A o \in BOOLEAN : Target(s, o) \in Nat
      /\ ~Fills(s) /\ s.op \in {"poll active", "poll stopped", "cancel", "flush"}
  BY TypedLocally DEF Locally, Shaped, Target, StopTimer, Typed, Fills
<1>1. UNCHANGED <<load, stamp, adapter, regs, clock, phy, hist>> /\ Test(a, s, TRUE)
  BY DEF StopTimer
<1>2. Moves(a, s, TRUE, l)
  BY <1>0, <1>1, TestMoves
<1>3. Typed'
  <2>1. timer' \in [armed : BOOLEAN, flag : BOOLEAN]
    BY DEF StopTimer, Typed
  <2> QED BY <1>1, <1>2, <2>1 DEF Typed, Moves
<1>4. Outcome(a, s, TRUE)
  BY <1>0 DEF Outcome, Accesses, Queries, Certain
<1>5. Edits(a, s, TRUE, l)
  BY <1>0, NothingEdited DEF Editing, OfStamps, StampReads, StampReports, ClockReads, Halving
<1>6. Effects(a, s, TRUE)
  <2>1. OnTimer(a, s, TRUE)
    BY <1>0 DEF OnTimer, StopTimer, Typed
  <2> QED BY <1>0, <1>1, <2>1, AdapterKept, RegsKept, ClockKept, PhyKept, HistoryKept, StampKept
          DEF Effects, OfStamps, StampReads, StampReports, Promotions
<1> QED BY <1>0, <1>2, <1>3, <1>4, <1>5, <1>6 DEF Taken, Takes

LEMMA TestTimerTaken ==
  ASSUME Typed, NEW a \in Actors, NEW s, Shaped(s), TestTimer(a, s)
  PROVE  Typed' /\ Taken(a, s)
<1> DEFINE l == local[a]
<1>0. /\ Locally /\ Mapped_ \in BOOLEAN /\ l \in Local /\ \A o \in BOOLEAN : Target(s, o) \in Nat
      /\ ~Fills(s) /\ s.op \in {"poll inactive", "poll started"}
  BY TypedLocally DEF Locally, Shaped, Target, TestTimer, Typed, Fills
<1>1. UNCHANGED <<load, stamp, adapter, regs, clock, phy, timer>>
  BY DEF TestTimer
<1>2. PICK ok \in BOOLEAN : Test(a, s, ok) /\ (s.op = "poll started" => (ok <=> timer.flag))
  BY DEF TestTimer, Typed
<1>3. Moves(a, s, ok, l)
  BY <1>0, <1>2, TestMoves
<1>4. Typed'
  <2>1. hist' \in [lost : BOOLEAN, halted : BOOLEAN, expiry : {"none", "pending", "told"},
                   expiries : Nat, unreported : BOOLEAN, raced : BOOLEAN,
                bothmapped : BOOLEAN, stamped : Nat, assumed : BOOLEAN]
    BY DEF TestTimer, Typed
  <2> QED BY <1>1, <1>3, <2>1 DEF Typed, Moves
<1>5. Outcome(a, s, ok)
  BY <1>0 DEF Outcome, Accesses, Queries, Certain
<1>6. Edits(a, s, ok, l)
  BY <1>0, NothingEdited DEF Editing, OfStamps, StampReads, StampReports, ClockReads, Halving
<1>7. Effects(a, s, ok)
  <2>1. /\ hist'.bothmapped = hist.bothmapped /\ hist'.unreported = hist.unreported
        /\ hist'.halted = hist.halted /\ hist'.lost = hist.lost /\ hist'.assumed = hist.assumed
        /\ hist'.stamped = hist.stamped
    BY DEF TestTimer, Typed
  <2>2. OnTimer(a, s, ok)
    BY <1>0, <1>2 DEF OnTimer, TestTimer, Typed
  <2> QED BY <1>0, <1>1, <2>1, <2>2, AdapterKept, RegsKept, ClockKept, PhyKept, HistoryKept,
     StampKept
          DEF Effects, OfStamps, StampReads, StampReports, Promotions
<1> QED BY <1>0, <1>3, <1>4, <1>5, <1>6, <1>7 DEF Taken, Takes

LEMMA TestContextTaken ==
  ASSUME Typed, NEW a \in Actors, NEW s, Shaped(s), TestContext(a, s)
  PROVE  Typed' /\ Taken(a, s)
<1> DEFINE l == local[a]
<1>0. /\ Locally /\ l \in Local /\ \A o \in BOOLEAN : Target(s, o) \in Nat
      /\ ~Fills(s)
      /\ s.op \in {"private", "initialized", "has mmio", "at least", "holds", "fail", "may",
                   "clock not zero", "answer time", "answer phy", "launch time"}
  BY TypedLocally DEF Locally, Shaped, Target, TestContext, Fills
<1>1. UNCHANGED <<load, stamp, adapter, regs, clock, phy, timer, hist>>
  BY DEF TestContext
<1>2. PICK ok \in BOOLEAN :
        /\ Test(a, s, ok)
        /\ s.op = "private" => (ok <=> adapter.private)
        /\ s.op = "at least" => (ok <=> Rank(adapter.state) >= Rank(s.reg))
        /\ s.op = "holds" => (ok <=> s.on \cap l.loc # {})
        /\ s.op = "fail" => ~ok
        /\ s.op \in {"answer time", "answer phy", "launch time"} => ok
  <2>1. adapter.private \in BOOLEAN /\ adapter.initialized \in BOOLEAN /\ adapter.mmio \in BOOLEAN
        /\ (Rank(adapter.state) >= Rank(s.reg)) \in BOOLEAN /\ (s.on \cap l.loc # {}) \in BOOLEAN
    BY DEF Typed
  <2> QED BY <2>1 DEF TestContext
<1>3. Moves(a, s, ok, l)
  BY <1>0, <1>2, TestMoves
<1>4. Typed'
  BY <1>0, <1>1, <1>3, OnlyLocal
<1>5. Outcome(a, s, ok)
  BY <1>0, <1>2 DEF Outcome, Accesses, Queries, Certain
<1>6. Edits(a, s, ok, l)
  BY <1>0, NothingEdited DEF Editing, OfStamps, StampReads, StampReports, ClockReads, Halving
<1>7. Effects(a, s, ok)
  BY <1>0, <1>1, NothingChanged DEF Changing, OfStamps, StampReads, StampReports, Promotions
<1> QED BY <1>0, <1>3, <1>4, <1>5, <1>6, <1>7 DEF Taken, Takes

LEMMA BorrowTaken ==
  ASSUME Typed, NEW a \in Actors, NEW s, Shaped(s), Borrow(a, s)
  PROVE  Typed' /\ Taken(a, s)
<1> DEFINE l == local[a]
           held(ok) == IF s.op = "take" /\ ok THEN l.held \cup {s.reg}
                       ELSE IF s.op = "give" THEN l.held \ {s.reg} ELSE l.held
           r(ok) == [l EXCEPT !.held = held(ok)]
<1>0. /\ s.reg \in Lent
      /\ Locally /\ Mapped_ \in BOOLEAN /\ l \in Local /\ \A o \in BOOLEAN : Target(s, o) \in Nat
      /\ ~Fills(s) /\ s.op \in {"take", "give", "use"}
  BY TypedLocally DEF Locally, Shaped, Target, Borrow, Typed, Fills
<1>1. UNCHANGED <<load, stamp, adapter, regs, clock, phy, timer, hist>>
  BY DEF Borrow
<1>2. PICK ok \in BOOLEAN : Move(a, s, ok, r(ok)) /\ (s.op \in {"give", "use"} => ok)
  <2>1. [l EXCEPT !.held = l.held] = l
    BY <1>0 DEF Local
  <2>2. CASE s.op = "take" /\ Test(a, s, FALSE)
    BY <2>1, <2>2 DEF Test
  <2>3. CASE s.op = "take" /\ Move(a, s, TRUE, [l EXCEPT !.held = @ \cup {s.reg}])
    BY <2>3
  <2>4. CASE s.op = "give" /\ Move(a, s, TRUE, [l EXCEPT !.held = @ \ {s.reg}])
    BY <2>4
  <2>5. CASE s.op = "use" /\ Test(a, s, TRUE)
    BY <2>1, <2>5 DEF Test
  <2> QED BY <2>2, <2>3, <2>4, <2>5 DEF Borrow
<1>3. /\ r(ok) \in Local /\ r(ok).loc = l.loc /\ r(ok).told = l.told /\ r(ok).held = held(ok)
      /\ r(ok).seen = l.seen /\ r(ok).halves = l.halves /\ r(ok).base = l.base
      /\ r(ok).behind = l.behind /\ SameReading(r(ok), l)
      /\ r(ok).stamp = l.stamp
  BY <1>0 DEF Local, SameReading
<1> HIDE DEF r
<1>4. Moves(a, s, ok, r(ok))
  BY <1>0, <1>2, <1>3, MoveMoves
<1>5. Typed'
  BY <1>0, <1>1, <1>3, <1>4, OnlyLocal
<1>6. Outcome(a, s, ok)
  BY <1>0, <1>2 DEF Outcome, Accesses, Queries, Certain
<1>7. Edits(a, s, ok, r(ok))
  BY <1>0, <1>3 DEF Edits, StampEdits, StampReads, StampReports, OfStamps, Copy,
     ClockReads, Halving, Reads, Local
<1>8. Effects(a, s, ok)
  BY <1>0, <1>1, NothingChanged DEF Changing, OfStamps, StampReads, StampReports, Promotions
<1> QED BY <1>3, <1>4, <1>5, <1>6, <1>7, <1>8 DEF Taken, Takes

LEMMA TestMappingTaken ==
  ASSUME Typed, NEW a \in Actors, NEW s, Shaped(s), TestMapping(a, s)
  PROVE  Typed' /\ Taken(a, s)
<1> DEFINE l == local[a]
           ok == IF s.op = "mapped" THEN adapter.mapped
                 ELSE adapter.state = "BOUND" /\ ~adapter.mapped
           r == [l EXCEPT !.base = "mapping", !.behind = FALSE]
<1>0. /\ Locally /\ Mapped_ \in BOOLEAN /\ l \in Local /\ \A o \in BOOLEAN : Target(s, o) \in Nat
      /\ ~Fills(s) /\ s.op \in {"mapped", "bound unmapped"}
  BY TypedLocally DEF Locally, Shaped, Target, TestMapping, Typed, Fills
<1>1. UNCHANGED <<load, stamp, adapter, regs, clock, phy, timer, hist>> /\ Move(a, s, ok, r)
  BY DEF TestMapping
<1>2. /\ ok \in BOOLEAN /\ (s.op = "mapped" => (ok <=> adapter.mapped))
      /\ (s.op = "bound unmapped" /\ ok => ~adapter.mapped /\ adapter.state = "BOUND")
  BY DEF Typed
<1> HIDE DEF ok
<1>3. /\ r \in Local /\ r.loc = l.loc /\ r.told = l.told /\ r.held = l.held
      /\ r.seen = l.seen /\ r.halves = l.halves /\ r.base = "mapping"
      /\ SameReading(r, l) /\ r.stamp = l.stamp
  BY <1>0 DEF Local, SameReading
<1> HIDE DEF r
<1>4. Moves(a, s, ok, r)
  BY <1>0, <1>1, <1>2, <1>3, MoveMoves
<1>5. Typed'
  BY <1>1, <1>2, <1>3, <1>4, OnlyLocal
<1>6. Outcome(a, s, ok)
  BY <1>0, <1>2 DEF Outcome, Accesses, Queries, Certain
<1>7. Edits(a, s, ok, r)
  BY <1>0, <1>3 DEF Edits, StampEdits, StampReads, StampReports, OfStamps, Copy,
     ClockReads, Halving, Reads, Local
<1>8. Effects(a, s, ok)
  BY <1>0, <1>1, <1>2, NothingChanged DEF Changing, OfStamps, StampReads, StampReports, Promotions
<1> QED BY <1>2, <1>3, <1>4, <1>5, <1>6, <1>7, <1>8 DEF Taken, Takes

LEMMA TestAccessTaken ==
  ASSUME Typed, NEW a \in Actors, NEW s, Shaped(s), TestAccess(a, s)
  PROVE  Typed' /\ Taken(a, s)
<1> DEFINE l == local[a]
           ok == adapter.access /\ adapter.mapped
<1>0. /\ Locally /\ Mapped_ \in BOOLEAN /\ l \in Local /\ \A o \in BOOLEAN : Target(s, o) \in Nat
      /\ ~Fills(s) /\ s.op \in {"accessible"}
  BY TypedLocally DEF Locally, Shaped, Target, TestAccess, Typed, Fills
<1>1. /\ UNCHANGED <<load, stamp, regs, clock, phy, timer, hist>> /\ Test(a, s, ok)
      /\ adapter' = [adapter EXCEPT !.access = @ /\ adapter.mapped]
  BY DEF TestAccess
<1>2. Moves(a, s, ok, l)
  BY <1>0, <1>1, TestMoves
<1>3. /\ adapter' \in [state : {"BOUND", "BAR_MAPPED", "PTP_READY"}, mapped : BOOLEAN,
                   private : BOOLEAN, initialized : BOOLEAN, access : BOOLEAN,
                   mmio : BOOLEAN, leaked : BOOLEAN]
      /\ adapter'.private = adapter.private /\ adapter'.mapped = adapter.mapped
      /\ adapter'.state = adapter.state /\ adapter'.leaked = adapter.leaked
  BY <1>1 DEF Typed
<1>4. Typed'
  BY <1>1, <1>2, <1>3 DEF Typed, Moves
<1>5. Outcome(a, s, ok)
  BY <1>0 DEF Outcome, Accesses, Queries, Certain
<1>6. Edits(a, s, ok, l)
  BY <1>0, NothingEdited DEF Editing, OfStamps, StampReads, StampReports, ClockReads, Halving
<1>7. Effects(a, s, ok)
  <2>1. OnAdapter(a, s, ok)
    BY <1>0, <1>1, <1>3 DEF OnAdapter, Promotions
  <2> QED BY <1>0, <1>1, <2>1, RegsKept, ClockKept, PhyKept, TimerKept, HistoryKept, StampKept
          DEF Effects, OfStamps, StampReads, StampReports
<1> QED BY <1>0, <1>2, <1>4, <1>5, <1>6, <1>7 DEF Taken, Takes

LEMMA MapBarTaken ==
  ASSUME Typed, NEW a \in Actors, NEW s, Shaped(s), MapBar(a, s)
  PROVE  Typed' /\ Taken(a, s)
<1> DEFINE l == local[a]
           c(b) == local[b].base = "mapping"
           m(b) == [local[b] EXCEPT !.behind = @ \/ c(b)]
<1>0. /\ Locally /\ Mapped_ \in BOOLEAN /\ l \in Local /\ \A o \in BOOLEAN : Target(s, o) \in Nat
      /\ ~Fills(s) /\ s.op \in {"map"}
  BY TypedLocally DEF Locally, Shaped, Target, MapBar, Typed, Fills
<1>1. UNCHANGED <<load, stamp, regs, clock, phy, timer>>
  BY DEF MapBar
<1>2. CASE Test(a, s, FALSE) /\ adapter' = adapter /\ hist' = hist
  <2>1. Moves(a, s, FALSE, l)
    BY <1>0, <1>2, TestMoves
  <2>2. Typed'
    BY <1>0, <1>1, <1>2, <2>1, OnlyLocal
  <2>3. Outcome(a, s, FALSE)
    BY <1>0 DEF Outcome, Accesses, Queries, Certain
  <2>4. Edits(a, s, FALSE, l)
    BY <1>0, NothingEdited DEF Editing, OfStamps, StampReads, StampReports, ClockReads, Halving
  <2>5. Effects(a, s, FALSE)
    <3>1. OnAdapter(a, s, FALSE)
      BY <1>0, <1>2 DEF OnAdapter, Promotions
    <3> QED BY <1>0, <1>1, <1>2, <3>1, RegsKept, ClockKept, PhyKept, TimerKept, HistoryKept,
       StampKept
          DEF Effects, OfStamps, StampReads, StampReports
  <2> QED BY <1>0, <2>1, <2>2, <2>3, <2>4, <2>5 DEF Taken, Takes
<1>3. CASE /\ local' = [b \in Actors |-> IF b = a THEN Onward(s, TRUE, l) ELSE m(b)]
           /\ adapter' = [adapter EXCEPT !.mapped = TRUE, !.leaked = @ \/ adapter.mapped]
           /\ hist' = [hist EXCEPT !.bothmapped = @ \/ l.behind]
  <2>1. Onward(s, TRUE, l) \in Local
    BY <1>0, OnwardFacts
  <2>2. ASSUME NEW b \in Actors
        PROVE  /\ m(b) \in Local /\ m(b).pc = local[b].pc /\ m(b).loc = local[b].loc
               /\ m(b).base = local[b].base /\ m(b).halves = local[b].halves
               /\ m(b).seen = local[b].seen /\ m(b).told = local[b].told
               /\ m(b).low = local[b].low /\ m(b).high = local[b].high
               /\ m(b).from = local[b].from /\ m(b).disturbed = local[b].disturbed
               /\ m(b).held = local[b].held /\ (m(b).behind <=> local[b].behind \/ c(b))
               /\ m(b).stamp = local[b].stamp
    <3>1. local[b] \in Local /\ c(b) \in BOOLEAN
      BY <1>0 DEF Locally
    <3> HIDE DEF c
    <3> QED BY <3>1, BehindIsLocal
  <2> HIDE DEF m
  <2>3. Moves(a, s, TRUE, l)
    BY <1>3, <2>1, <2>2 DEF Moves, Keeps, SameStamp
  <2>4. /\ adapter' \in [state : {"BOUND", "BAR_MAPPED", "PTP_READY"}, mapped : BOOLEAN,
                   private : BOOLEAN, initialized : BOOLEAN, access : BOOLEAN,
                   mmio : BOOLEAN, leaked : BOOLEAN]
        /\ adapter'.private = adapter.private /\ adapter'.mapped
    BY <1>3 DEF Typed
  <2>5. Typed'
    <3>1. l.behind \in BOOLEAN
      BY <1>0 DEF Local
    <3>2. hist' \in [lost : BOOLEAN, halted : BOOLEAN, expiry : {"none", "pending", "told"},
                     expiries : Nat, unreported : BOOLEAN, raced : BOOLEAN,
                bothmapped : BOOLEAN, stamped : Nat, assumed : BOOLEAN]
      BY <1>3, <3>1 DEF Typed
    <3> QED BY <1>1, <2>3, <2>4, <3>2 DEF Typed, Moves
  <2>6. Outcome(a, s, TRUE)
    BY <1>0 DEF Outcome, Accesses, Queries, Certain
  <2>7. Edits(a, s, TRUE, l)
    BY <1>0, NothingEdited DEF Editing, OfStamps, StampReads, StampReports, ClockReads, Halving
  <2>8. \A b \in Actors \ {a} : local[b].base = "mapping" => local'[b].behind
    BY <1>3, <2>2
  <2>9. Effects(a, s, TRUE)
    <3>1. l.behind \in BOOLEAN
      BY <1>0 DEF Local
    <3>2. /\ adapter'.state = adapter.state /\ (adapter'.leaked <=> adapter.leaked \/ adapter.mapped)
          /\ (hist'.bothmapped <=> hist.bothmapped \/ l.behind)
          /\ hist'.raced = hist.raced /\ hist'.unreported = hist.unreported
          /\ hist'.halted = hist.halted /\ hist'.lost = hist.lost /\ hist'.assumed = hist.assumed
          /\ hist'.stamped = hist.stamped
      BY <1>3, <3>1 DEF Typed
    <3>3. OnAdapter(a, s, TRUE)
      BY <1>0, <2>4, <2>8, <3>2 DEF OnAdapter, Promotions
    <3> QED BY <1>0, <1>1, <3>2, <3>3, RegsKept, ClockKept, PhyKept, TimerKept, HistoryKept,
       StampKept
          DEF Effects, OfStamps, StampReads, StampReports
  <2> QED BY <1>0, <2>3, <2>5, <2>6, <2>7, <2>9 DEF Taken, Takes
<1> QED BY <1>2, <1>3 DEF MapBar

LEMMA SetContextTaken ==
  ASSUME Typed, NEW a \in Actors, NEW s, Shaped(s), SetContext(a, s)
  PROVE  Typed' /\ Taken(a, s)
<1> DEFINE l == local[a]
<1>0. /\ Locally /\ Mapped_ \in BOOLEAN /\ l \in Local /\ \A o \in BOOLEAN : Target(s, o) \in Nat
      /\ ~Fills(s) /\ s.op \in {"allocate", "baseline", "drop mmio", "initialise", "promote",
                               "promote unmapped", "usable", "rebound"}
  BY TypedLocally DEF Locally, Shaped, Target, SetContext, Typed, Fills
<1>1. UNCHANGED <<load, stamp, regs, clock, phy, timer, hist>> /\ Test(a, s, TRUE)
  BY DEF SetContext
<1>2. Moves(a, s, TRUE, l)
  BY <1>0, <1>1, TestMoves
<1>3. /\ adapter' \in [state : {"BOUND", "BAR_MAPPED", "PTP_READY"}, mapped : BOOLEAN,
                   private : BOOLEAN, initialized : BOOLEAN, access : BOOLEAN,
                   mmio : BOOLEAN, leaked : BOOLEAN]
      /\ (adapter.private => adapter'.private) /\ adapter'.mapped = adapter.mapped
      /\ (adapter'.private <=> adapter.private \/ s.op = "allocate")
      /\ adapter'.leaked = adapter.leaked
      /\ adapter'.state = IF s.op \in {"promote", "promote unmapped"} THEN "PTP_READY"
                          ELSE IF s.op = "rebound" \/ (s.op = "usable" /\ adapter.state = "BOUND")
                          THEN "BAR_MAPPED" ELSE adapter.state
  <2> DEFINE to == AtLeastState("BAR_MAPPED")
  <2>1. to = IF adapter.state = "BOUND" THEN "BAR_MAPPED" ELSE adapter.state
    BY AtLeastBarMapped DEF Typed
  <2>2. /\ s.op = "allocate" => adapter' = [adapter EXCEPT !.private = TRUE]
        /\ s.op = "baseline" => adapter' = [adapter EXCEPT !.mmio = TRUE]
        /\ s.op = "drop mmio" => adapter' = [adapter EXCEPT !.mmio = FALSE]
        /\ s.op = "initialise" => adapter' = [adapter EXCEPT !.initialized = TRUE]
        /\ s.op = "promote" => adapter' = [adapter EXCEPT !.state = "PTP_READY"]
        /\ s.op = "promote unmapped" => adapter' = [adapter EXCEPT !.state = "PTP_READY", !.mmio = FALSE]
        /\ s.op = "usable" => adapter' = [adapter EXCEPT !.state = to, !.initialized = TRUE,
                                                        !.access = TRUE, !.mmio = TRUE]
        /\ s.op = "rebound" => adapter' = [adapter EXCEPT !.state = "BAR_MAPPED",
                                                         !.initialized = TRUE, !.access = TRUE]
    BY DEF SetContext
  <2> HIDE DEF to
  <2>3. CASE s.op = "allocate"
    <3>1. adapter' = [adapter EXCEPT !.private = TRUE]
      BY <2>2, <2>3
    <3> QED BY <2>3, <3>1 DEF Typed
  <2>8. CASE s.op = "baseline"
    <3>1. adapter' = [adapter EXCEPT !.mmio = TRUE]
      BY <2>2, <2>8
    <3> QED BY <2>8, <3>1 DEF Typed
  <2>9. CASE s.op = "drop mmio"
    <3>1. adapter' = [adapter EXCEPT !.mmio = FALSE]
      BY <2>2, <2>9
    <3> QED BY <2>9, <3>1 DEF Typed
  <2>10. CASE s.op = "initialise"
    <3>1. adapter' = [adapter EXCEPT !.initialized = TRUE]
      BY <2>2, <2>10
    <3> QED BY <2>10, <3>1 DEF Typed
  <2>4. CASE s.op = "promote"
    <3>1. adapter' = [adapter EXCEPT !.state = "PTP_READY"]
      BY <2>2, <2>4
    <3> QED BY <2>4, <3>1 DEF Typed
  <2>5. CASE s.op = "promote unmapped"
    <3>1. adapter' = [adapter EXCEPT !.state = "PTP_READY", !.mmio = FALSE]
      BY <2>2, <2>5
    <3> QED BY <2>5, <3>1 DEF Typed
  <2>6. CASE s.op = "rebound"
    <3>1. adapter' = [adapter EXCEPT !.state = "BAR_MAPPED", !.initialized = TRUE, !.access = TRUE]
      BY <2>2, <2>6
    <3> QED BY <2>6, <3>1 DEF Typed
  <2>7. CASE s.op = "usable"
    <3>1. adapter' = [adapter EXCEPT !.state = to, !.initialized = TRUE, !.access = TRUE, !.mmio = TRUE]
      BY <2>2, <2>7
    <3> QED BY <2>1, <2>7, <3>1 DEF Typed
  <2> QED BY <1>0, <2>3, <2>4, <2>5, <2>6, <2>7, <2>8, <2>9, <2>10
<1>4. Typed'
  <2>1. local' \in [Actors -> Local]
    BY <1>2 DEF Moves
  <2>2. adapter' \in [state : {"BOUND", "BAR_MAPPED", "PTP_READY"}, mapped : BOOLEAN,
                      private : BOOLEAN, initialized : BOOLEAN, access : BOOLEAN,
                      mmio : BOOLEAN, leaked : BOOLEAN]
    BY <1>3
  <2>3. UNCHANGED <<load, stamp, regs, clock, phy, timer, hist>>
    BY <1>1
  <2> QED BY <2>1, <2>2, <2>3 DEF Typed
<1>5. Outcome(a, s, TRUE)
  BY <1>0 DEF Outcome, Accesses, Queries, Certain
<1>6. Edits(a, s, TRUE, l)
  BY <1>0, NothingEdited DEF Editing, OfStamps, StampReads, StampReports, ClockReads, Halving
<1>7. Effects(a, s, TRUE)
  <2>1. OnAdapter(a, s, TRUE)
    BY <1>0, <1>1, <1>3 DEF OnAdapter, Promotions
  <2> QED BY <1>0, <1>1, <2>1, RegsKept, ClockKept, PhyKept, TimerKept, HistoryKept, StampKept
          DEF Effects, OfStamps, StampReads, StampReports
<1> QED BY <1>0, <1>2, <1>4, <1>5, <1>6, <1>7 DEF Taken, Takes

LEMMA PromoteTickingTaken ==
  ASSUME Typed, NEW a \in Actors, NEW s, Shaped(s), PromoteTicking(a, s)
  PROVE  Typed' /\ Taken(a, s)
<1> DEFINE l == local[a]
           halted == "DISABLE" \in regs["TSAUXC"]
<1>0. /\ Locally /\ Mapped_ \in BOOLEAN /\ l \in Local /\ \A o \in BOOLEAN : Target(s, o) \in Nat
      /\ ~Fills(s) /\ s.op = "promote ticking"
  BY TypedLocally DEF Locally, Shaped, Target, PromoteTicking, Typed, Fills
<1>1. /\ UNCHANGED <<load, stamp, regs, clock, phy, timer>> /\ Test(a, s, TRUE)
      /\ adapter' = [adapter EXCEPT !.state = "PTP_READY"]
      /\ hist' = [hist EXCEPT !.assumed = @ \/ halted]
  BY DEF PromoteTicking
<1>2. Moves(a, s, TRUE, l)
  BY <1>0, <1>1, TestMoves
<1>3. /\ adapter' \in [state : {"BOUND", "BAR_MAPPED", "PTP_READY"}, mapped : BOOLEAN,
                   private : BOOLEAN, initialized : BOOLEAN, access : BOOLEAN,
                   mmio : BOOLEAN, leaked : BOOLEAN]
      /\ adapter'.private = adapter.private /\ adapter'.mapped = adapter.mapped
      /\ adapter'.state = "PTP_READY" /\ adapter'.leaked = adapter.leaked
  BY <1>1 DEF Typed
<1>4. /\ hist' \in [lost : BOOLEAN, halted : BOOLEAN, expiry : {"none", "pending", "told"},
                    expiries : Nat, unreported : BOOLEAN, raced : BOOLEAN,
                bothmapped : BOOLEAN, stamped : Nat, assumed : BOOLEAN]
      /\ hist'.bothmapped = hist.bothmapped /\ hist'.raced = hist.raced
      /\ hist'.unreported = hist.unreported /\ hist'.halted = hist.halted
      /\ hist'.lost = hist.lost /\ (hist'.assumed <=> hist.assumed \/ halted)
  <2>1. halted \in BOOLEAN
    OBVIOUS
  <2> HIDE DEF halted
  <2> QED BY <1>1, <2>1 DEF Typed
<1>5. Typed'
  BY <1>1, <1>2, <1>3, <1>4 DEF Typed, Moves
<1>6. Outcome(a, s, TRUE)
  BY <1>0 DEF Outcome, Accesses, Queries, Certain
<1>7. Edits(a, s, TRUE, l)
  BY <1>0, NothingEdited DEF Editing, OfStamps, StampReads, StampReports, ClockReads, Halving
<1>8. Effects(a, s, TRUE)
  <2>1. OnAdapter(a, s, TRUE)
    BY <1>0, <1>3, <1>4 DEF OnAdapter, Promotions
  <2>2. OnHistory(a, s, TRUE)
    BY <1>0, <1>4 DEF OnHistory
  <2> QED BY <1>0, <1>1, <1>4, <2>1, <2>2, RegsKept, ClockKept, PhyKept, TimerKept, StampKept
          DEF Effects, OfStamps, StampReads, StampReports
<1> QED BY <1>0, <1>2, <1>5, <1>6, <1>7, <1>8 DEF Taken, Takes

LEMMA UserStopsTaken ==
  ASSUME Typed, NEW a \in Actors, NEW s, Shaped(s), UserStops(a, s)
  PROVE  Typed' /\ Taken(a, s)
<1> DEFINE l == local[a]
<1>0. /\ Locally /\ Mapped_ \in BOOLEAN /\ l \in Local /\ \A o \in BOOLEAN : Target(s, o) \in Nat
      /\ ~Fills(s) /\ s.op \in {"user stops"}
  BY TypedLocally DEF Locally, Shaped, Target, UserStops, Typed, Fills
<1>1. UNCHANGED <<load, stamp, adapter, regs, clock, phy, timer>> /\ Test(a, s, TRUE)
      /\ hist' = [hist EXCEPT !.halted = TRUE]
  BY DEF UserStops
<1>2. Moves(a, s, TRUE, l)
  BY <1>0, <1>1, TestMoves
<1>3. Typed'
  <2>1. hist' \in [lost : BOOLEAN, halted : BOOLEAN, expiry : {"none", "pending", "told"},
                   expiries : Nat, unreported : BOOLEAN, raced : BOOLEAN,
                bothmapped : BOOLEAN, stamped : Nat, assumed : BOOLEAN]
    BY <1>1 DEF Typed
  <2> QED BY <1>1, <1>2, <2>1 DEF Typed, Moves
<1>4. Outcome(a, s, TRUE)
  BY <1>0 DEF Outcome, Accesses, Queries, Certain
<1>5. Edits(a, s, TRUE, l)
  BY <1>0, NothingEdited DEF Editing, OfStamps, StampReads, StampReports, ClockReads, Halving
<1>6. Effects(a, s, TRUE)
  <2>1. /\ hist'.bothmapped = hist.bothmapped /\ hist'.raced = hist.raced
        /\ hist'.unreported = hist.unreported /\ hist'.halted
        /\ hist'.lost = hist.lost /\ hist'.assumed = hist.assumed
        /\ hist'.stamped = hist.stamped
    BY <1>1 DEF Typed
  <2>2. OnHistory(a, s, TRUE)
    BY <1>0, <2>1 DEF OnHistory
  <2> QED BY <1>0, <1>1, <2>1, <2>2, AdapterKept, RegsKept, ClockKept, PhyKept, TimerKept, StampKept
          DEF Effects, OfStamps, StampReads, StampReports, Promotions
<1> QED BY <1>0, <1>2, <1>3, <1>4, <1>5, <1>6 DEF Taken, Takes

(***************************************************************************)
(* Where an actor is.                                                      *)
(***************************************************************************)
Placed == \A a \in Actors : Busy(a) => local[a].pc \in DOMAIN Program(a).steps

\* Who is done holds nothing.
IdleIsFree == \A a \in Actors : ~Busy(a) => local[a].held = {} /\ a \notin phy.owners

\* An adapter that was brought up answers, unless it is of the MDIO family.
Answering == ~IsMdioFamily(load.device) /\ adapter.state # "BOUND" => adapter.mapped /\ adapter.private

\* One that was attached and brought up before has all it needs.
Attached == load.start # "BOUND" => adapter.state # "BOUND" /\ Mapped_

\* A reading is rechecked only where there are registers.
Reading == \A a \in Actors : local[a].seen = "unsure" => Mapped_

\* No register is given what another one means.
Fitting == (\A q \in Registers : regs[q] \subseteq FlagsOf[q]) /\ clock.shadow \subseteq FlagsOf["TSAUXC"]

\* The latch has no packet's timestamp twice, and, while no message's is missed,
\* that of the last message there was.
Stamps ==
  /\ stamp.packet <= stamp.last /\ stamp.handled <= stamp.last /\ hist.stamped <= stamp.packet
  /\ \A c \in Actors : local[c].stamp.low <= stamp.packet
  /\ load.latch = "TX" /\ stamp.valid => hist.stamped < stamp.packet
  /\ load.latch = "RX" /\ ~stamp.missed =>
       /\ stamp.packet = stamp.last /\ stamp.last <= stamp.handled + 1
       /\ stamp.handled < stamp.last => stamp.valid

\* Of the timestamps taken and not reported one that was read alone is the
\* newest, and no message is two readers'.
Knows(b, kind) == Busy(b) /\ \E f \in Known(b) : f[1] = kind
Newest == \A b, c \in Actors : b # c /\ Knows(b, "stamped") /\ Knows(c, "stamped")
            /\ ~local[b].stamp.shared => local[c].stamp.low < local[b].stamp.low
Single == \A b, c \in Actors : b # c /\ Knows(b, "due") /\ Knows(c, "due")
            /\ local[b].stamp.of # 0 => local[c].stamp.of # local[b].stamp.of
Latched == Stamps /\ Newest /\ Single

LEMMA LoadRuns ==
  ASSUME load \in Workloads
  PROVE  /\ load.device \in AvbGetIntelDeviceType
         /\ load.start \in {"BOUND", "BAR_MAPPED", "PTP_READY"}
         /\ load.start = "PTP_READY" /\ load.reset => load.resumes
         /\ load.resumes => load.start = "PTP_READY" /\ \E t \in Threads : load.runs[t] = "FilterRestart"
         /\ load.device = "i225" => load.start = "BOUND"
         /\ load.firmware => IsMdioFamily(load.device)
         /\ \A a \in Actors : load.runs[a] \in DOMAIN Programs[load.device]
         /\ \A t \in Threads : load.runs[t] \notin NoRequests \/ load.runs[t] = "none"
         /\ load.runs["tt"] = "AvbTimerDpcRoutine"
         /\ load.runs["poll"] \in {"none", "AvbTxTimestampPollDpc"}
         /\ load.runs["stop"] \in {"none", "AvbStopTimers"}
<1>1. load \in Workloads
  OBVIOUS
<1>2. load.device \in AvbGetIntelDeviceType
  BY <1>1, WorkloadsAssumption
<1>3. load.start \in {"BOUND", "BAR_MAPPED", "PTP_READY"}
  <2>1. load.start \in {States[i] : i \in DOMAIN States}
    BY <1>1, WorkloadsAssumption
  <2> QED BY <2>1 DEF States
<1>4. \A t \in Threads : load.runs[t] \in DOMAIN Requests(intel_device(load.device)) \cup {"none"}
  BY <1>1, WorkloadsAssumption
<1>5. LET requests == DOMAIN Requests(intel_device(load.device))
      IN requests \cap NoRequests = {} /\ DOMAIN Programs[load.device] = requests \cup NoRequests
  BY <1>2, ProgramsAreNamed
<1>6. /\ load.firmware => IsMdioFamily(load.device)
      /\ load.start = "PTP_READY" /\ load.reset => load.resumes
      /\ load.resumes => load.start = "PTP_READY" /\ \E t \in Threads : load.runs[t] = "FilterRestart"
      /\ load.device = "i225" => load.start = "BOUND"
      /\ load.runs["tt"] = "AvbTimerDpcRoutine"
      /\ load.runs["poll"] \in {"none", "AvbTxTimestampPollDpc"}
      /\ load.runs["stop"] \in {"none", "AvbStopTimers"}
  BY <1>1, WorkloadsAssumption
<1>7. \A t \in Threads : load.runs[t] \notin NoRequests \/ load.runs[t] = "none"
  BY <1>4, <1>5
<1>8. \A a \in Actors : load.runs[a] \in DOMAIN Programs[load.device]
  BY <1>4, <1>5, <1>6 DEF Actors, NoRequests
<1> QED BY <1>2, <1>3, <1>6, <1>7, <1>8

LEMMA LoadFacts ==
  ASSUME Typed
  PROVE  /\ load.device \in AvbGetIntelDeviceType
         /\ load.start \in {"BOUND", "BAR_MAPPED", "PTP_READY"}
         /\ load.start = "PTP_READY" /\ load.reset => load.resumes
         /\ load.resumes => load.start = "PTP_READY" /\ \E t \in Threads : load.runs[t] = "FilterRestart"
         /\ load.device = "i225" => load.start = "BOUND"
         /\ load.firmware => IsMdioFamily(load.device)
         /\ \A a \in Actors : load.runs[a] \in DOMAIN Programs[load.device]
         /\ \A t \in Threads : load.runs[t] \notin NoRequests \/ load.runs[t] = "none"
         /\ load.runs["tt"] = "AvbTimerDpcRoutine"
         /\ load.runs["poll"] \in {"none", "AvbTxTimestampPollDpc"}
         /\ load.runs["stop"] \in {"none", "AvbStopTimers"}
BY LoadRuns DEF Typed

\* Where a step goes: what is known there, and by the end, was learnt.
Leads(a, s, ok) ==
  LET after == After(load.device, s, ok, Known(a))
      there == Facts[load.device][load.runs[a]][Target(s, ok)]
  IN IF Target(s, ok) = 0
     THEN /\ Finally \subseteq after /\ F("owes") \notin after
          /\ load.runs[a] = "FilterRestart" /\ load.device # "i225" => Resumed(load.device, after)
     ELSE /\ Target(s, ok) \in DOMAIN Program(a).steps /\ there \subseteq after
          /\ F("owes") \in after => F("owes") \in there

LEMMA Annotated ==
  ASSUME Typed, Placed, FactsHold, NEW a \in Actors, NEW s \in Steps(a)
  PROVE  /\ Busy(a) /\ s = Program(a).steps[local[a].pc]
         /\ F("never") \notin Known(a)
         /\ WellFormed(load.device, load.runs[a], Program(a), s)
         /\ Needs(load.device, s) \subseteq Known(a)
         /\ \A ok \in BOOLEAN : Possible(s, ok, Known(a)) =>
              Leads(a, s, ok)
<1> DEFINE d == load.device
           r == load.runs[a]
           p == Program(a)
           K == Facts[d][r]
<1>1. Busy(a) /\ s = p.steps[local[a].pc]
  BY DEF Steps
<1>2. local[a].pc \in DOMAIN p.steps /\ Known(a) = K[local[a].pc]
  BY <1>1 DEF Placed, Known
<1>3. d \in AvbGetIntelDeviceType /\ r \in DOMAIN Programs[d] /\ p = Programs[d][r]
  BY LoadFacts DEF Program
<1>4. Sound(d, r, p, K)
  BY <1>3, FactsAreSound
<1>5. F("never") \notin Known(a)
  <2>1. ~Means(F("never"), a)
    BY DEF Means, F, Stands, OfLatch
  <2> QED BY <1>1, <2>1 DEF FactsHold
<1> HIDE DEF p, K, d, r
<1> DEFINE leads(q, ok, k) ==
             IF Target(q, ok) = 0
             THEN /\ Finally \subseteq After(d, q, ok, k) /\ F("owes") \notin After(d, q, ok, k)
                  /\ r = "FilterRestart" /\ d # "i225" => Resumed(d, After(d, q, ok, k))
             ELSE /\ Target(q, ok) \in DOMAIN p.steps
                  /\ K[Target(q, ok)] \subseteq After(d, q, ok, k)
                  /\ F("owes") \in After(d, q, ok, k) => F("owes") \in K[Target(q, ok)]
<1>6. \A i \in DOMAIN p.steps : F("never") \notin K[i] =>
        /\ WellFormed(d, r, p, p.steps[i]) /\ Needs(d, p.steps[i]) \subseteq K[i]
        /\ \A ok \in BOOLEAN : Possible(p.steps[i], ok, K[i]) => leads(p.steps[i], ok, K[i])
  BY <1>4 DEF Sound
<1> HIDE DEF leads
<1>7. /\ WellFormed(d, r, p, s) /\ Needs(d, s) \subseteq Known(a)
      /\ \A ok \in BOOLEAN : Possible(s, ok, Known(a)) => leads(s, ok, Known(a))
  BY <1>1, <1>2, <1>5, <1>6
<1>8. ASSUME NEW ok \in BOOLEAN, leads(s, ok, Known(a)) PROVE Leads(a, s, ok)
  BY <1>8 DEF Leads, leads, p, K, d, r
<1> QED BY <1>1, <1>5, <1>7, <1>8 DEF p, d, r

(***************************************************************************)
(* The facts, one step on.                                                 *)
(***************************************************************************)
\* What an actor knows before its step s.
Ready(a, s) ==
  /\ Typed /\ Fitting /\ Answering /\ Attached /\ Reading /\ Latched /\ Busy(a)
  /\ Shaped(s) /\ WellFormed(load.device, load.runs[a], Program(a), s)
  /\ Needs(load.device, s) \subseteq Known(a)
  /\ \A f \in Known(a) : Means(f, a)

LEMMA IncrementAfter ==
  ASSUME NEW a \in Actors, NEW s, NEW ok \in BOOLEAN, Ready(a, s), Effects(a, s, ok)
  PROVE  regs'["TIMINCA"] = IF ~ok \/ s.reg # "TIMINCA" THEN regs["TIMINCA"]
                            ELSE IF s.op = "write" THEN s.on
                            ELSE IF s.op = "put" THEN (local[a].loc \ s.off) \cup s.on
                            ELSE regs["TIMINCA"]
<1>1. "TIMINCA" \in Registers
  BY DEF Registers, FlagsOf
<1>2. s.op = "clear" => s.reg = "TSICR"
  BY DEF Ready, Shaped
<1> QED BY <1>1, <1>2 DEF Effects, OnRegs

LEMMA IncrementStays ==
  ASSUME NEW a \in Actors, NEW s, NEW ok \in BOOLEAN, Ready(a, s), Effects(a, s, ok), regs["TIMINCA"] # {}
  PROVE  regs'["TIMINCA"] # {}
<1>1. CASE s.op = "write" /\ s.reg = "TIMINCA" /\ ok
  BY <1>1, IncrementAfter DEF Ready, WellFormed, Shaped
<1>2. CASE s.op = "put" /\ s.reg = "TIMINCA" /\ ok
  <2>1. F("content") \in Needs(load.device, s)
    BY <1>2 DEF Needs
  <2>2. local[a].loc # {}
    BY <2>1 DEF Ready, Means, F
  <2>3. s.off = {}
    BY <1>2 DEF Ready, WellFormed, Shaped
  <2> QED BY <1>2, <2>2, <2>3, IncrementAfter
<1>3. CASE ~(s.op \in {"write", "put"} /\ s.reg = "TIMINCA" /\ ok)
  BY <1>3, IncrementAfter
<1> QED BY <1>1, <1>2, <1>3

LEMMA ReachesWhatItMeans ==
  ASSUME NEW a \in Actors, NEW s, NEW ok \in BOOLEAN, Ready(a, s), Outcome(a, s, ok), ok,
         s.op \in Accesses \cup Queries \/ (s.op = "at least" /\ ~IsMdioFamily(load.device))
  PROVE  adapter.mapped /\ adapter.private
<1>1. CASE s.op \in Accesses \cup Queries
  BY <1>1 DEF Outcome, Mapped_
<1>2. CASE s.op = "at least" /\ ~IsMdioFamily(load.device)
  <2>1. Rank(adapter.state) >= Rank(s.reg) /\ s.reg \in {"BAR_MAPPED", "PTP_READY"}
    BY <1>2 DEF Outcome, Ready, Shaped
  <2>2. adapter.state # "BOUND"
    BY <2>1, AtLeastIsNotBound
  <2> QED BY <1>2, <2>2 DEF Ready, Answering
<1> QED BY <1>1, <1>2

LEMMA LearntGlobally ==
  ASSUME NEW a \in Actors, NEW s, NEW ok \in BOOLEAN, NEW r \in Local,
         Ready(a, s), Takes(a, s, ok, r),
         NEW f \in After(load.device, s, ok, Known(a)),
         f[1] \in {"private", "registers", "ticking", "owner", "apart", "early"}
  PROVE  Means(f, a)'
<1> DEFINE K == Known(a)
           d == load.device
<1>0. /\ Outcome(a, s, ok) /\ Effects(a, s, ok)
      /\ Taught(f, d, s, ok, K) \/ (f \in K /\ Kept(f, s, ok))
      /\ (f \in K => Means(f, a))
  BY DEF Takes, After, Ready
<1>1. CASE f[1] = "private"
  <2>1. CASE Taught(f, d, s, ok, K)
    <3>1. ok /\ \/ s.op \in Accesses \cup Queries \/ (s.op = "at least" /\ ~IsMdioFamily(d))
                \/ s.op \in {"private", "allocate"}
      BY <1>1, <2>1 DEF Taught
    <3>2. adapter'.private
      BY <1>0, <3>1, ReachesWhatItMeans DEF Outcome, Effects, OnAdapter
    <3> QED BY <1>1, <3>2 DEF Means
  <2>2. CASE f \in K
    BY <1>0, <1>1, <2>2 DEF Means, Effects, OnAdapter
  <2> QED BY <1>0, <2>1, <2>2
<1>2. CASE f[1] = "registers"
  <2>1. CASE Taught(f, d, s, ok, K)
    <3>1. ok /\ \/ s.op \in Accesses \cup Queries \/ (s.op = "at least" /\ ~IsMdioFamily(d))
                \/ s.op \in {"mapped", "map", "accessible"}
      BY <1>2, <2>1 DEF Taught
    <3>2. adapter'.mapped
      BY <1>0, <3>1, ReachesWhatItMeans DEF Outcome, Effects, OnAdapter
    <3> QED BY <1>2, <3>2 DEF Means
  <2>2. CASE f \in K
    BY <1>0, <1>2, <2>2 DEF Means, Effects, OnAdapter
  <2> QED BY <1>0, <2>1, <2>2
<1>3. CASE f[1] = "ticking"
  <2>1. CASE Taught(f, d, s, ok, K)
    <3>1. CASE ok /\ s.op = "write" /\ s.reg = "TIMINCA"
      BY <1>0, <1>3, <3>1, IncrementAfter DEF Means, Ready, WellFormed, Shaped
    <3>2. CASE ok /\ s.op = "put" /\ s.reg = "TIMINCA"
      <4>1. F("content") \in Needs(d, s)
        BY <3>2 DEF Needs
      <4>2. local[a].loc # {}
        BY <4>1 DEF Ready, Means, F
      <4>3. s.off = {}
        BY <3>2 DEF Ready, WellFormed, Shaped
      <4> QED BY <1>0, <1>3, <3>2, <4>2, <4>3, IncrementAfter DEF Means
    <3>3. CASE ok /\ s.op = "holds" /\ F("honest") \in K
      <4>1. Means(F("honest"), a)
        BY <3>3 DEF Ready
      <4>2. regs["TIMINCA"] # {}
        BY <1>0, <3>3, <4>1 DEF Means, F, Outcome
      <4> QED BY <1>0, <1>3, <4>2, IncrementStays DEF Means
    <3> QED BY <1>3, <2>1, <3>1, <3>2, <3>3 DEF Taught
  <2>2. CASE f \in K
    BY <1>0, <1>3, <2>2, IncrementStays DEF Means
  <2> QED BY <1>0, <2>1, <2>2
<1>4. CASE f[1] = "owner"
  BY <1>0, <1>4 DEF Taught, Kept, Means, Effects, OnPhy
<1>5. CASE f[1] = "apart"
  BY <1>0, <1>5 DEF Taught, Kept, Means, Effects, OnPhy
<1>6. CASE f[1] = "early"
  <2>1. CASE Taught(f, d, s, ok, K)
    <3>1. \/ ok /\ s.op = "bound unmapped"
          \/ ~ok /\ \/ s.op \in {"mapped", "private"} \cup Accesses
                    \/ s.op = "at least" /\ s.reg = "BAR_MAPPED"
      BY <1>6, <2>1 DEF Taught
    <3>2. adapter.state = "BOUND" \/ ~Mapped_
      <4>1. CASE s.op = "at least"
        <5>1. ~(Rank(adapter.state) >= Rank("BAR_MAPPED"))
          BY <1>0, <3>1, <4>1 DEF Outcome, Accesses
        <5>2. adapter.state \in {"BOUND", "BAR_MAPPED", "PTP_READY"}
          BY DEF Ready, Typed
        <5>3. adapter.state # "BAR_MAPPED" /\ adapter.state # "PTP_READY"
          BY <5>1, Ranks
        <5> QED BY <5>2, <5>3
      <4>2. CASE s.op # "at least"
        BY <1>0, <3>1, <4>2 DEF Outcome, Mapped_
      <4> QED BY <4>1, <4>2
    <3>3. load.start = "BOUND" /\ load' = load
      BY <1>0, <3>2 DEF Ready, Attached, Effects
    <3> QED BY <1>6, <3>3 DEF Means
  <2>2. CASE f \in K
    BY <1>0, <1>6, <2>2 DEF Means, Effects
  <2> QED BY <1>0, <2>1, <2>2
<1> QED BY <1>1, <1>2, <1>3, <1>4, <1>5, <1>6

LEMMA LearntOfTheCopy ==
  ASSUME NEW a \in Actors, NEW s, NEW ok \in BOOLEAN, NEW r \in Local,
         Ready(a, s), Takes(a, s, ok, r), Target(s, ok) \in Nat \ {0},
         NEW f \in After(load.device, s, ok, Known(a)),
         f[1] \in {"content", "honest", "told", "tells", "fits"}
  PROVE  Means(f, a)'
<1> DEFINE K == Known(a)
           d == load.device
           l == local[a]
<1>0. /\ Outcome(a, s, ok) /\ Effects(a, s, ok) /\ Edits(a, s, ok, r)
      /\ Taught(f, d, s, ok, K) \/ (f \in K /\ Kept(f, s, ok))
      /\ (f \in K => Means(f, a))
      /\ local'[a].loc = r.loc /\ local'[a].told = r.told
  BY OnwardFacts DEF Takes, Moves, After, Ready
<1>1. l \in Local /\ (~Refills(s) => r.loc = l.loc) /\ r.loc = Copy(a, s)
      /\ (r.told <=> (l.told \/ s.op = "post" \/ (s.op = "answer flag" /\ "TT0" \in l.loc)))
  BY <1>0 DEF Edits, Copy, Refills, Ready, Typed
<1>2. CASE f[1] = "content"
  BY <1>0, <1>1, <1>2 DEF Taught, Kept, Means, Copy, Fills
<1>3. CASE f[1] = "honest"
  <2>1. CASE Taught(f, d, s, ok, K)
    <3>1. s.op = "read" /\ s.reg = "TIMINCA" /\ Fills(s)
      BY <1>3, <2>1 DEF Taught, Fills, Registers, FlagsOf
    <3>2. r.loc = IF Mapped_ THEN regs["TIMINCA"] ELSE {}
      BY <1>1, <3>1 DEF Copy
    <3>3. regs'["TIMINCA"] = regs["TIMINCA"]
      BY <1>0, <3>1, IncrementAfter
    <3> QED BY <1>0, <1>3, <3>2, <3>3 DEF Means
  <2>2. CASE f \in K /\ ~Refills(s)
    BY <1>0, <1>1, <1>3, <2>2, IncrementStays DEF Means
  <2> QED BY <1>0, <1>3, <2>1, <2>2 DEF Kept
<1>4. CASE f[1] = "told"
  <2>1. CASE Taught(f, d, s, ok, K)
    <3>1. CASE s.op = "post"
      BY <1>0, <1>1, <1>4, <3>1 DEF Means
    <3>2. CASE ok /\ s.op = "holds" /\ s.on = {"TT0"} /\ F("tells") \in K
      <4>1. Means(F("tells"), a)
        BY <3>2 DEF Ready
      <4>2. l.told
        BY <1>0, <3>2, <4>1 DEF Means, F, Outcome
      <4> QED BY <1>0, <1>1, <1>4, <4>2 DEF Means
    <3> QED BY <1>4, <2>1, <3>1, <3>2 DEF Taught
  <2>2. CASE f \in K
    BY <1>0, <1>1, <1>4, <2>2 DEF Means
  <2> QED BY <1>0, <2>1, <2>2
<1>5. CASE f[1] = "tells"
  <2>1. CASE Taught(f, d, s, ok, K)
    <3>1. s.op = "answer flag" /\ ~Refills(s)
      BY <1>5, <2>1 DEF Taught, Refills, Fills
    <3> QED BY <1>0, <1>1, <1>5, <3>1 DEF Means
  <2>2. CASE f \in K /\ ~Refills(s)
    BY <1>0, <1>1, <1>5, <2>2 DEF Means
  <2> QED BY <1>0, <1>5, <2>1, <2>2 DEF Kept
<1>6. CASE f[1] = "fits"
  <2>0. Means(f, a)' <=> r.loc \subseteq FlagsOf[f[2]]
    BY <1>0, <1>6 DEF Means
  <2>1. CASE Fills(s) /\ (s.reg = f[2] \/ ~ok)
    <3>1. s.op = "read" /\ (ok <=> Mapped_)
      BY <1>0, <2>1 DEF Fills, Outcome, Accesses
    <3>2. s.reg \in Registers /\ regs[s.reg] \subseteq FlagsOf[s.reg]
      BY <2>1 DEF Fills, Ready, Fitting
    <3> QED BY <1>1, <2>0, <2>1, <3>1, <3>2 DEF Copy
  <2>2. CASE s.op = "load" /\ s.on \subseteq FlagsOf[f[2]]
    BY <1>1, <2>0, <2>2 DEF Copy, Fills
  <2>3. CASE s.op = "read shadow" /\ f[2] = "TSAUXC"
    BY <1>1, <2>0, <2>3 DEF Copy, Fills, Ready, Fitting
  <2>4. CASE f \in K /\ ~Refills(s)
    BY <1>0, <1>1, <1>6, <2>0, <2>4 DEF Means
  <2>5. CASE f \in K /\ s.op = "change" /\ s.on \subseteq FlagsOf[f[2]]
    <3>1. l.loc \subseteq FlagsOf[f[2]]
      BY <1>0, <1>6, <2>5 DEF Means
    <3>2. r.loc = (l.loc \ s.off) \cup s.on
      BY <1>1, <2>5 DEF Copy, Fills
    <3> QED BY <2>0, <2>5, <3>1, <3>2
  <2> QED BY <1>0, <1>6, <2>1, <2>2, <2>3, <2>4, <2>5 DEF Taught, Kept
<1> QED BY <1>2, <1>3, <1>4, <1>5, <1>6

LEMMA TsauxcAfter ==
  ASSUME NEW a \in Actors, NEW s, NEW ok \in BOOLEAN, Ready(a, s), Effects(a, s, ok)
  PROVE  regs'["TSAUXC"] = IF ok /\ s.reg = "TSAUXC" /\ s.op = "write" THEN s.on
                           ELSE IF ok /\ s.reg = "TSAUXC" /\ s.op = "put"
                           THEN (local[a].loc \ s.off) \cup s.on ELSE regs["TSAUXC"]
<1>1. "TSAUXC" \in Registers
  BY DEF Registers, FlagsOf
<1>2. s.op = "clear" => s.reg = "TSICR"
  BY DEF Ready, Shaped
<1> QED BY <1>1, <1>2 DEF Effects, OnRegs

LEMMA LearntOfTsauxc ==
  ASSUME NEW a \in Actors, NEW s, NEW ok \in BOOLEAN, NEW r \in Local,
         Ready(a, s), Takes(a, s, ok, r), Target(s, ok) \in Nat \ {0},
         NEW f \in After(load.device, s, ok, Known(a)), f[1] = "current"
  PROVE  Means(f, a)'
<1> DEFINE K == Known(a)
           d == load.device
           l == local[a]
           m == local'[a]
<1>0. /\ Effects(a, s, ok) /\ Edits(a, s, ok, r)
      /\ Taught(f, d, s, ok, K) \/ (f \in K /\ Kept(f, s, ok))
      /\ (f \in K => Means(f, a))
      /\ m.loc = r.loc /\ m.base = r.base /\ m.behind = r.behind
  BY OnwardFacts DEF Takes, Moves, After, Ready
<1>1. hist'.halted <=> hist.halted \/ s.op = "user stops"
  BY <1>0 DEF Effects, OnHistory
<1>2. r.loc = Copy(a, s)
  BY <1>0 DEF Edits
<1>3. Means(f, a)' <=> \/ hist'.halted \/ "DISABLE" \notin r.loc
                       \/ r.base = "TSAUXC" /\ (r.behind \/ "DISABLE" \in regs'["TSAUXC"])
  BY <1>0 DEF Means, Current
<1>4. CASE Fills(s) /\ s.reg = "TSAUXC"
  <2>1. r.base = "TSAUXC" /\ r.loc \subseteq regs["TSAUXC"]
    BY <1>0, <1>2, <1>4 DEF Edits, Copy
  <2>2. regs'["TSAUXC"] = regs["TSAUXC"]
    BY <1>0, <1>4, TsauxcAfter DEF Fills
  <2> QED BY <1>3, <2>1, <2>2
<1>5. CASE s.op = "change" /\ "DISABLE" \in s.off \ s.on
  BY <1>2, <1>3, <1>5 DEF Copy, Fills
<1>6. CASE s.op = "load" /\ "DISABLE" \notin s.on
  BY <1>2, <1>3, <1>6 DEF Copy, Fills
<1>7. CASE s.op = "user stops"
  BY <1>1, <1>3, <1>7
<1>8. CASE f \in K /\ Kept(f, s, ok)
  <2>1. /\ ~Refills(s) \/ (s.op = "change" /\ "DISABLE" \notin s.on)
        /\ s.op \notin {"mapped", "bound unmapped"} /\ ~Starts(s)
    BY <1>8 DEF Kept
  <2>2. "DISABLE" \in r.loc => "DISABLE" \in l.loc
    BY <1>2, <2>1 DEF Copy, Refills, Fills
  <2>3. r.base = l.base /\ r.behind = l.behind
    BY <1>0, <2>1 DEF Edits, Refills, Fills
  <2>4. Current(l)
    BY <1>0, <1>8 DEF Means
  <2>5. ASSUME "DISABLE" \in l.loc, "DISABLE" \in regs["TSAUXC"]
        PROVE  "DISABLE" \in regs'["TSAUXC"]
    <3>1. CASE ok /\ s.reg = "TSAUXC" /\ s.op = "write"
      <4>1. "DISABLE" \notin s.on
        BY <3>1 DEF Ready, Shaped
      <4> QED BY <2>1, <3>1, <4>1 DEF Starts, OnTsauxc
    <3>2. CASE ok /\ s.reg = "TSAUXC" /\ s.op = "put"
      <4>1. "DISABLE" \in s.on \/ "DISABLE" \notin s.off
        BY <2>1, <3>2 DEF Starts, OnTsauxc
      <4> QED BY <1>0, <2>5, <3>2, <4>1, TsauxcAfter
    <3>3. CASE ~(ok /\ s.reg = "TSAUXC" /\ s.op \in {"write", "put"})
      BY <1>0, <2>5, <3>3, TsauxcAfter
    <3> QED BY <3>1, <3>2, <3>3
  <2> QED BY <1>1, <1>3, <2>2, <2>3, <2>4, <2>5 DEF Current
<1> QED BY <1>0, <1>4, <1>5, <1>6, <1>7, <1>8 DEF Taught

LEMMA LearntOfTheRest ==
  ASSUME NEW a \in Actors, NEW s, NEW ok \in BOOLEAN, NEW r \in Local,
         Ready(a, s), Takes(a, s, ok, r), Target(s, ok) \in Nat \ {0},
         NEW f \in After(load.device, s, ok, Known(a)),
         f[1] \in {"unmapped", "sure", "half", "held", "free"}
  PROVE  Means(f, a)'
<1> DEFINE K == Known(a)
           d == load.device
           l == local[a]
<1>0. /\ Outcome(a, s, ok) /\ Effects(a, s, ok) /\ Edits(a, s, ok, r)
      /\ Taught(f, d, s, ok, K) \/ (f \in K /\ Kept(f, s, ok))
      /\ (f \in K => Means(f, a))
      /\ local'[a].base = r.base /\ local'[a].behind = r.behind /\ local'[a].seen = r.seen
      /\ local'[a].halves = r.halves /\ local'[a].held = r.held
  BY OnwardFacts DEF Takes, Moves, After, Ready
<1>1. CASE f[1] = "unmapped"
  <2>1. CASE Taught(f, d, s, ok, K)
    <3>1. (s.op = "mapped" /\ ~ok) \/ (s.op = "bound unmapped" /\ ok)
      BY <1>1, <2>1 DEF Taught
    <3>2. r.base = "mapping" /\ ~adapter.mapped /\ ~adapter'.mapped
      BY <1>0, <3>1 DEF Edits, Outcome, Effects, OnAdapter
    <3> QED BY <1>0, <1>1, <3>2 DEF Means
  <2>2. CASE f \in K /\ Kept(f, s, ok)
    <3>1. s.op \notin {"mapped", "bound unmapped", "map"} /\ ~Fills(s)
      BY <1>1, <2>2 DEF Kept
    <3>2. r.base = l.base /\ r.behind = l.behind /\ (adapter'.mapped <=> adapter.mapped)
      BY <1>0, <3>1 DEF Edits, Effects, OnAdapter
    <3> QED BY <1>0, <1>1, <2>2, <3>2 DEF Means
  <2> QED BY <1>0, <2>1, <2>2
<1>2. CASE f[1] = "sure"
  <2>1. CASE s.op = "low" /\ ~ok
    <3>1. ~Mapped_ /\ r.seen = l.seen
      BY <1>0, <2>1 DEF Outcome, Accesses, Edits
    <3> QED BY <1>0, <1>2, <3>1 DEF Means, Ready, Reading
  <2>2. CASE s.op = "high" /\ ~ok
    <3>1. ~Mapped_ /\ r.seen = l.seen
      BY <1>0, <2>2 DEF Outcome, Accesses, Edits
    <3> QED BY <1>0, <1>2, <3>1 DEF Means, Ready, Reading
  <2>3. CASE s.op = "high" /\ ok /\ F("half") \in K
    <3>1. Means(F("half"), a)
      BY <2>3 DEF Ready
    <3>2. l.seen # "unsure" \/ "low" \in l.halves
      BY <3>1 DEF Means, F
    <3> QED BY <1>0, <1>2, <2>3, <3>2 DEF Means, Edits
  <2>4. CASE s.op = "recheck" /\ ok
    BY <1>0, <1>2, <2>4 DEF Means, Edits
  <2>5. CASE f \in K /\ s.op # "recheck"
    BY <1>0, <1>2, <2>5 DEF Means, Edits
  <2> QED BY <1>0, <1>2, <2>1, <2>2, <2>3, <2>4, <2>5 DEF Taught, Kept
<1>3. CASE f[1] = "half"
  <2>1. CASE s.op = "low" /\ ok
    BY <1>0, <1>3, <2>1 DEF Means, Edits
  <2>2. CASE s.op = "low" /\ ~ok
    <3>1. ~Mapped_ /\ r.seen = l.seen
      BY <1>0, <2>2 DEF Outcome, Accesses, Edits
    <3> QED BY <1>0, <1>3, <3>1 DEF Means, Ready, Reading
  <2>3. CASE f \in K /\ s.op \notin ClockReads
    BY <1>0, <1>3, <2>3 DEF Means, Edits, Reads
  <2>4. CASE s.op = "offset"
    BY <1>0, <1>3, <2>4 DEF Means, Edits, Reads
  <2> QED BY <1>0, <1>3, <2>1, <2>2, <2>3, <2>4 DEF Taught, Kept, ClockReads, Halving
<1>4. CASE f[1] = "held"
  BY <1>0, <1>4 DEF Taught, Kept, Means, Edits
<1>5. CASE f[1] = "free"
  BY <1>0, <1>5 DEF Taught, Kept, Means, Edits
<1> QED BY <1>1, <1>2, <1>3, <1>4, <1>5

(***************************************************************************)
(* A reading of the clock, half by half.                                   *)
(***************************************************************************)
LEMMA ReadingBegins ==
  ASSUME NEW l \in Local, NEW half \in {"low", "latch"}, NEW value \in Nat, clock.time \in Nat,
         "high" \notin l.halves
  PROVE  LET h == HalfRead(l, half, value)
         IN /\ h.halves = l.halves \cup {half} /\ h.seen = l.seen
            /\ h.low = IF half = "low" THEN value ELSE l.low
            /\ h.from = IF l.halves = {} THEN clock.time ELSE l.from
            /\ h.disturbed <=> l.halves # {} /\ l.disturbed
<1> DEFINE s == [l EXCEPT !.low = IF half = "low" THEN value ELSE @,
                          !.high = IF half = "high" THEN value ELSE @,
                          !.halves = @ \cup {half},
                          !.from = IF l.halves = {} THEN clock.time ELSE @,
                          !.disturbed = l.halves # {} /\ @]
<1>1. /\ s.halves = l.halves \cup {half} /\ s.seen = l.seen
      /\ s.low = IF half = "low" THEN value ELSE l.low
      /\ s.from = IF l.halves = {} THEN clock.time ELSE l.from
      /\ s.disturbed <=> l.halves # {} /\ l.disturbed
  BY DEF Local
<1>2. HalfRead(l, half, value) = s
  BY <1>1 DEF HalfRead
<1> HIDE DEF s
<1> QED BY <1>1, <1>2

LEMMA ReadingEnds ==
  ASSUME NEW l \in Local, NEW value \in Nat, clock.time \in Nat, "low" \in l.halves
  PROVE  LET h == HalfRead(l, "high", value)
         IN /\ h.halves = {}
            /\ h.seen = IF 2 * value + l.low \in l.from..clock.time THEN "clock"
                        ELSE IF l.disturbed /\ load.device # "i219" THEN "disturbed" ELSE "torn"
            /\ load.device = "i219" => h.low = l.low /\ h.high = value /\ h.from = l.from
<1> DEFINE s == [l EXCEPT !.low = IF "high" = "low" THEN value ELSE @,
                          !.high = IF "high" = "high" THEN value ELSE @,
                          !.halves = @ \cup {"high"},
                          !.from = IF l.halves = {} THEN clock.time ELSE @,
                          !.disturbed = l.halves # {} /\ @]
           whole == [s EXCEPT !.halves = {}, !.seen = Judged(s)]
<1>1. /\ s \in Local /\ s.halves = l.halves \cup {"high"} /\ s.low = l.low /\ s.high = value
      /\ s.from = l.from /\ (s.disturbed <=> l.disturbed)
  BY DEF Local
<1>2. HalfRead(l, "high", value) = IF load.device = "i219" THEN whole ELSE Forget(whole)
  BY <1>1 DEF HalfRead
<1> HIDE DEF s
<1>3. /\ whole.halves = {} /\ whole.seen = Judged(s) /\ whole.low = s.low /\ whole.high = s.high
      /\ whole.from = s.from /\ whole \in Local
  BY <1>1, JudgedIsSeen DEF Local
<1> HIDE DEF whole
<1>4. Forget(whole).halves = whole.halves /\ Forget(whole).seen = whole.seen
  BY <1>3 DEF Forget, Local
<1>5. Judged(s) = IF 2 * value + l.low \in l.from..clock.time THEN "clock"
                  ELSE IF l.disturbed /\ load.device # "i219" THEN "disturbed" ELSE "torn"
  BY <1>1 DEF Judged
<1> QED BY <1>1, <1>2, <1>3, <1>4, <1>5

LEMMA HighGrows ==
  ASSUME NEW t \in Nat, NEW u \in Nat, t <= u
  PROVE  High(t) <= High(u)
<1>1. /\ t = 2 * High(t) + Low(t) /\ u = 2 * High(u) + Low(u) /\ High(t) \in Nat /\ High(u) \in Nat
      /\ Low(t) \in 0..1 /\ Low(u) \in 0..1
  BY Halves
<1> HIDE DEF High, Low
<1> QED BY <1>1

\* What follows of the clock and of b's reading while others take steps.
Onwards == clock'.time \in Nat /\ clock.time <= clock'.time
Follows(b) ==
  /\ load.device = "i219" => Onwards /\ clock'.latched \in {clock.latched, clock.time}
  /\ \/ Onwards /\ clock'.latched = clock.latched
     \/ local[b].halves # {} => local'[b].disturbed

LEMMA ReadingStays ==
  ASSUME Typed, load' = load, NEW b \in Actors, Keeps(b), Follows(b),
         NEW kind \in OfReading, Stands(kind, local[b])
  PROVE  Stands(kind, local[b])'
<1> DEFINE l == local[b]
           m == local'[b]
<1>0. /\ l \in Local /\ clock.time \in Nat /\ clock.latched \in Nat
      /\ m.halves = l.halves /\ m.seen = l.seen /\ m.low = l.low /\ m.high = l.high
      /\ m.from = l.from /\ (l.disturbed => m.disturbed)
  BY DEF Typed, Keeps
<1>1. l.from \in Nat /\ l.low \in Nat /\ l.high \in Nat
  BY <1>0 DEF Local
<1>2. CASE kind = "whole"
  BY <1>0, <1>2 DEF Stands
<1>3. CASE kind = "begun"
  <2>1. l.halves = {"latch"} /\ (l.disturbed \/ Spans(l))
    BY <1>3 DEF Stands
  <2>2. m.disturbed \/ Spans(l)'
    BY <1>0, <1>1, <2>1 DEF Follows, Onwards, Spans
  <2> QED BY <1>0, <1>3, <2>1, <2>2 DEF Stands
<1>4. CASE kind = "lower"
  <2>1. l.halves \in {{"low"}, {"latch", "low"}} /\ l.halves # {}
    BY <1>4 DEF Stands
  <2>2. CASE load.device = "i219"
    <3>1. l.low = Low(l.from) /\ Spans(l)
      BY <1>4, <2>2 DEF Stands
    <3>2. m.low = Low(m.from) /\ Spans(l)'
      BY <1>0, <1>1, <2>2, <3>1 DEF Follows, Onwards, Spans
    <3> QED BY <1>0, <1>4, <2>1, <2>2, <3>2 DEF Stands
  <2>3. CASE load.device # "i219"
    <3>1. l.disturbed \/ (l.low = Low(clock.latched) /\ Spans(l))
      BY <1>4, <2>3 DEF Stands
    <3>2. m.disturbed \/ (m.low = Low(clock'.latched) /\ Spans(l)')
      BY <1>0, <1>1, <2>1, <3>1 DEF Follows, Onwards, Spans
    <3> QED BY <1>0, <1>4, <2>1, <2>3, <3>2 DEF Stands
  <2> QED BY <2>2, <2>3
<1>5. CASE kind = "judged"
  <2>1. /\ load.device = "i219" /\ l.low = Low(l.from) /\ l.from <= clock.time
        /\ High(l.from) <= l.high /\ l.high <= High(clock.time)
    BY <1>5 DEF Stands
  <2>2. clock'.time \in Nat /\ clock.time <= clock'.time
    BY <2>1 DEF Follows, Onwards
  <2>3. High(clock.time) <= High(clock'.time) /\ High(clock.time) \in Nat /\ High(clock'.time) \in Nat
    BY <1>0, <2>2, HighGrows, Halves
  <2>4. m.from <= clock'.time /\ m.high <= High(clock'.time)
    BY <1>0, <1>1, <2>1, <2>2, <2>3
  <2> QED BY <1>0, <1>5, <2>1, <2>4 DEF Stands
<1>6. CASE kind = "true"
  BY <1>0, <1>6 DEF Stands
<1> QED BY <1>2, <1>3, <1>4, <1>5, <1>6 DEF OfReading

LEMMA LearntOfReading ==
  ASSUME NEW a \in Actors, NEW s, NEW ok \in BOOLEAN, NEW r \in Local,
         Ready(a, s), Takes(a, s, ok, r), Target(s, ok) \in Nat \ {0},
         NEW f \in After(load.device, s, ok, Known(a)), f[1] \in OfReading
  PROVE  Means(f, a)'
<1> DEFINE K == Known(a)
           d == load.device
           l == local[a]
           m == local'[a]
           value == IF s.op = "high" THEN High(clock'.latched) ELSE Low(clock'.latched)
<1>0. /\ Outcome(a, s, ok) /\ OnClock(a, s, ok) /\ Reads(a, s, ok, r) /\ load' = load
      /\ Taught(f, d, s, ok, K) \/ (f \in K /\ Kept(f, s, ok))
      /\ WellFormed(d, load.runs[a], Program(a), s)
  BY DEF Takes, Edits, Effects, After, Ready
<1>1. /\ m.halves = r.halves /\ m.seen = r.seen /\ m.low = r.low /\ m.high = r.high
      /\ m.from = r.from /\ m.disturbed = r.disturbed
  BY OnwardFacts DEF Takes, Moves
<1>2. /\ l \in Local /\ clock.time \in Nat /\ clock.latched \in Nat /\ clock'.latched \in Nat
  BY <1>0 DEF Ready, Typed, OnClock
<1>3. l.from \in Nat /\ l.low \in Nat /\ l.high \in Nat
  BY <1>2 DEF Local
<1>4. \A kind \in OfReading : F(kind) \in K => Stands(kind, l)
  <2>1. ASSUME NEW kind \in OfReading, F(kind) \in K PROVE Stands(kind, l)
    <3>1. Means(F(kind), a)
      BY <2>1 DEF Ready
    <3> QED BY <3>1 DEF Means, F, OfReading, OfLatch
  <2> QED BY <2>1
<1>5. f \in K => Stands(f[1], l)
  <2>1. f \in K => Means(f, a)
    BY DEF Ready
  <2> QED BY <2>1 DEF Means, OfReading, OfLatch
<1>6. Means(f, a)' <=> Stands(f[1], l)'
  BY DEF Means, OfReading, OfLatch
<1>7. value \in Nat
  BY <1>2, Halves
<1> HIDE DEF value
\* The clock in a step that is not about it.
<1>8. s.op \notin {"set low", "set high"} \/ ~ok => clock'.time = clock.time
  BY <1>0 DEF OnClock
<1>9. s.op \notin {"set low", "set high"} \/ ~ok => clock'.time \in Nat
  BY <1>2, <1>8
<1>10. ASSUME s.op \notin {"recheck", "offset"}, s.op \in Halving \cup {"set low", "set high"} => ~ok
       PROVE  /\ clock'.time = clock.time /\ clock'.latched = clock.latched
              /\ r.seen = l.seen /\ r.halves = l.halves /\ SameReading(r, l)
  BY <1>0, <1>10 DEF OnClock, Reads, ClockReads, Halving
<1>11. CASE f[1] = "whole"
  <2>1. CASE s.op = "offset"
    BY <1>0, <1>1, <1>6, <1>11, <2>1 DEF Reads, Stands
  <2>2. CASE s.op = "high" /\ ok /\ F("lower") \in K
    <3>1. Stands("lower", l)
      BY <1>4, <2>2 DEF OfReading
    <3>2. "low" \in l.halves
      BY <3>1 DEF Stands
    <3>3. r = HalfRead(l, "high", value)
      BY <1>0, <2>2 DEF Reads, Halving, value
    <3>4. r.halves = {}
      BY <1>2, <1>7, <3>2, <3>3, ReadingEnds
    <3> QED BY <1>1, <1>6, <1>11, <3>4 DEF Stands
  <2>3. CASE f \in K /\ ~(ok /\ s.op \in Halving)
    <3>1. l.halves = {}
      BY <1>5, <1>11, <2>3 DEF Stands
    <3>2. r.halves = {}
      BY <1>0, <1>2, <2>3, <3>1 DEF Reads, ClockReads, Halving, Forget, Local
    <3> QED BY <1>1, <1>6, <1>11, <3>2 DEF Stands
  <2> QED BY <1>0, <1>11, <2>1, <2>2, <2>3 DEF Taught, Kept
<1>12. CASE f[1] = "begun"
  <2>1. CASE d = "i210" /\ s.op = "latch" /\ ok /\ F("whole") \in K
    <3>1. l.halves = {}
      BY <1>4, <2>1 DEF OfReading, Stands
    <3>2. r = HalfRead(l, "latch", value) /\ clock'.latched = clock.time
      BY <1>0, <2>1 DEF Reads, Halving, value, Latches
    <3>3. r.halves = {"latch"} /\ r.from = clock.time
      BY <1>2, <1>7, <3>1, <3>2, ReadingBegins
    <3>4. clock'.time = clock.time
      BY <1>8, <2>1
    <3>5. Spans(l)'
      BY <1>1, <1>2, <3>2, <3>3, <3>4 DEF Spans
    <3> QED BY <1>1, <1>6, <1>12, <3>3, <3>5 DEF Stands
  <2>2. CASE f \in K /\ Kept(f, s, ok)
    <3>1. s.op \notin {"recheck", "offset"} /\ (s.op \in Halving \cup {"set low", "set high"} => ~ok)
      BY <1>12, <2>2 DEF Kept
    <3>2. Stands("begun", l)
      BY <1>5, <1>12, <2>2
    <3> QED BY <1>1, <1>6, <1>10, <1>12, <3>1, <3>2 DEF Stands, Spans, SameReading
  <2> QED BY <1>0, <1>12, <2>1, <2>2 DEF Taught
<1>13. CASE f[1] = "lower"
  <2>1. CASE d = "i210" /\ s.op = "low" /\ ok /\ F("begun") \in K
    <3>1. l.halves = {"latch"} /\ (l.disturbed \/ Spans(l))
      BY <1>4, <2>1 DEF OfReading, Stands
    <3>2. r = HalfRead(l, "low", Low(clock'.latched)) /\ clock'.latched = clock.latched
      BY <1>0, <2>1 DEF Reads, Halving, Latches
    <3>3. value = Low(clock'.latched)
      BY <2>1 DEF value
    <3>4. /\ r.halves = {"latch", "low"} /\ r.low = Low(clock.latched) /\ r.from = l.from
          /\ l.disturbed => r.disturbed
      <4>1. r = HalfRead(l, "low", value) /\ "high" \notin l.halves /\ l.halves # {}
        BY <3>1, <3>2, <3>3
      <4>2. /\ r.halves = l.halves \cup {"low"} /\ r.low = value /\ r.from = l.from
            /\ r.disturbed <=> l.disturbed
        BY <1>2, <1>7, <4>1, ReadingBegins
      <4> QED BY <3>1, <3>2, <3>3, <4>2
    <3>5. clock'.time = clock.time
      BY <1>8, <2>1
    <3>6. m.disturbed \/ (m.low = Low(clock'.latched) /\ Spans(l)')
      BY <1>1, <3>1, <3>2, <3>4, <3>5 DEF Spans
    <3> QED BY <1>0, <1>1, <1>6, <1>13, <2>1, <3>4, <3>6 DEF Stands
  <2>2. CASE d # "i210" /\ s.op = "low" /\ ok /\ F("whole") \in K
    <3>1. l.halves = {}
      BY <1>4, <2>2 DEF OfReading, Stands
    <3>2. r = HalfRead(l, "low", Low(clock'.latched)) /\ clock'.latched = clock.time
      BY <1>0, <2>2 DEF Reads, Halving, Latches
    <3>3. value = Low(clock'.latched)
      BY <2>2 DEF value
    <3>4. r.halves = {"low"} /\ r.low = Low(clock.time) /\ r.from = clock.time
      BY <1>2, <1>7, <3>1, <3>2, <3>3, ReadingBegins
    <3>5. clock'.time = clock.time
      BY <1>8, <2>2
    <3>6. m.low = Low(m.from) /\ m.low = Low(clock'.latched) /\ Spans(l)'
      BY <1>1, <1>2, <3>2, <3>4, <3>5 DEF Spans
    <3> QED BY <1>0, <1>1, <1>6, <1>13, <2>2, <3>4, <3>6 DEF Stands
  <2>3. CASE f \in K /\ Kept(f, s, ok)
    <3>1. s.op \notin {"recheck", "offset"} /\ (s.op \in Halving \cup {"set low", "set high"} => ~ok)
      BY <1>13, <2>3 DEF Kept
    <3>2. Stands("lower", l)
      BY <1>5, <1>13, <2>3
    <3> QED BY <1>0, <1>1, <1>6, <1>10, <1>13, <3>1, <3>2 DEF Stands, Spans, SameReading
  <2> QED BY <1>0, <1>13, <2>1, <2>2, <2>3 DEF Taught
<1>14. CASE f[1] = "judged"
  <2>1. CASE s.op = "high" /\ ok /\ F("lower") \in K /\ d = "i219"
    <3>1. "low" \in l.halves /\ l.low = Low(l.from) /\ Spans(l)
      BY <1>4, <2>1 DEF OfReading, Stands
    <3>2. r = HalfRead(l, "high", value) /\ value = High(clock.latched) /\ clock'.time = clock.time
      BY <1>0, <1>8, <2>1 DEF Reads, Halving, Latches, value
    <3>3. r.low = l.low /\ r.high = value /\ r.from = l.from
      BY <1>2, <1>7, <2>1, <3>1, <3>2, ReadingEnds
    <3>4. /\ l.from <= clock.latched /\ clock.latched <= clock.time /\ l.from <= clock.time
      BY <1>2, <1>3, <3>1 DEF Spans
    <3>5. High(l.from) <= value /\ value <= High(clock.time)
      BY <1>2, <1>3, <3>2, <3>4, HighGrows
    <3> QED BY <1>0, <1>1, <1>6, <1>14, <2>1, <3>1, <3>2, <3>3, <3>4, <3>5 DEF Stands
  <2>2. CASE f \in K /\ Kept(f, s, ok)
    <3>1. s.op \notin {"recheck", "offset"} /\ (s.op \in Halving \cup {"set low", "set high"} => ~ok)
      BY <1>14, <2>2 DEF Kept
    <3>2. Stands("judged", l)
      BY <1>5, <1>14, <2>2
    <3> QED BY <1>0, <1>1, <1>6, <1>10, <1>14, <3>1, <3>2 DEF Stands, SameReading
  <2> QED BY <1>0, <1>14, <2>1, <2>2 DEF Taught
<1>15. CASE f[1] = "true"
  <2>1. CASE s.op = "offset"
    BY <1>0, <1>1, <1>6, <1>15, <2>1 DEF Reads, Stands
  <2>2. CASE s.op = "high" /\ ok /\ F("lower") \in K /\ d # "i219"
    <3>1. "low" \in l.halves /\ (l.disturbed \/ (l.low = Low(clock.latched) /\ Spans(l)))
      BY <1>4, <2>2 DEF OfReading, Stands
    <3>2. r = HalfRead(l, "high", value) /\ value = High(clock.latched)
      BY <1>0, <2>2 DEF Reads, Halving, Latches, value
    <3>3. r.seen = IF 2 * value + l.low \in l.from..clock.time THEN "clock"
                   ELSE IF l.disturbed /\ load.device # "i219" THEN "disturbed" ELSE "torn"
      BY <1>2, <1>7, <3>1, <3>2, ReadingEnds
    <3>4. ~l.disturbed => 2 * value + l.low = clock.latched /\ clock.latched \in l.from..clock.time
      BY <1>2, <1>3, <3>1, <3>2, Halves DEF Spans
    <3>5. r.seen # "torn"
      BY <2>2, <3>3, <3>4
    <3> QED BY <1>1, <1>6, <1>15, <3>5 DEF Stands
  <2>3. CASE s.op = "recheck" /\ F("judged") \in K /\ (ok \/ Reached \subseteq K)
    <3>1. /\ l.low = Low(l.from) /\ l.from <= clock.time
          /\ High(l.from) <= l.high /\ l.high <= High(clock.time)
      BY <1>4, <2>3 DEF OfReading, Stands
    <3>2. Mapped_
      <4>1. F("private") \in K => adapter.private
        <5>1. Means(F("private"), a) <=> adapter.private
          BY DEF Means, F
        <5> QED BY <5>1 DEF Ready
      <4>2. F("registers") \in K => adapter.mapped
        <5>1. Means(F("registers"), a) <=> adapter.mapped
          BY DEF Means, F
        <5> QED BY <5>1 DEF Ready
      <4> QED BY <1>0, <2>3, <4>1, <4>2 DEF Outcome, Queries, Reached, Mapped_
    <3>3. /\ ok => Low(clock.time) >= l.low
          /\ r = Forget([l EXCEPT !.seen = IF ok THEN Judged(l) ELSE "unsure"])
      BY <1>0, <2>3, <3>2 DEF Reads
    <3>4. r.seen = IF ok THEN Judged(l) ELSE "unsure"
      <4> DEFINE x == IF ok THEN Judged(l) ELSE "unsure"
      <4>1. r = Forget([l EXCEPT !.seen = x])
        BY <3>3
      <4> HIDE DEF x
      <4>2. r.seen = x
        BY <1>2, <4>1 DEF Forget, Local
      <4> QED BY <4>2 DEF x
    <3>5. ok => 2 * l.high + l.low \in l.from..clock.time
      <4> SUFFICES ASSUME ok PROVE 2 * l.high + l.low \in l.from..clock.time
        OBVIOUS
      <4>1. /\ l.from = 2 * High(l.from) + Low(l.from)
            /\ clock.time = 2 * High(clock.time) + Low(clock.time)
            /\ High(l.from) \in Nat /\ Low(l.from) \in Nat
            /\ High(clock.time) \in Nat /\ Low(clock.time) \in Nat
        BY <1>2, <1>3, Halves
      <4>2. Low(clock.time) >= Low(l.from)
        BY <3>1, <3>3
      <4> QED BY <1>2, <1>3, <3>1, <4>1, <4>2
    <3>6. r.seen # "torn"
      BY <3>4, <3>5 DEF Judged
    <3> QED BY <1>1, <1>6, <1>15, <3>6 DEF Stands
  <2>4. CASE f \in K /\ ~(ok /\ s.op \in Halving \cup {"recheck"})
    <3>1. l.seen # "torn"
      BY <1>5, <1>15, <2>4 DEF Stands
    <3>2. r.seen # "torn"
      BY <1>0, <1>2, <2>4, <3>1 DEF Reads, ClockReads, Halving, Forget, Local
    <3> QED BY <1>1, <1>6, <1>15, <3>2 DEF Stands
  <2> QED BY <1>0, <1>15, <2>1, <2>2, <2>3, <2>4 DEF Taught, Kept
<1> QED BY <1>11, <1>12, <1>13, <1>14, <1>15 DEF OfReading

(***************************************************************************)
(* The timestamps of the packets, half by half.                            *)
(***************************************************************************)
LEMMA CarriesStays ==
  ASSUME Typed, load' = load, stamp' = stamp, hist'.stamped = hist.stamped, NEW b \in Actors,
         SameStamp(local'[b].stamp, local[b].stamp),
         NEW kind \in OfLatch, Carries(kind, local[b].stamp)
  PROVE  Carries(kind, local[b].stamp)'
<1> DEFINE l == local[b].stamp
           m == local'[b].stamp
<1>0. /\ m.low = l.low /\ m.high = l.high /\ m.of = l.of /\ m.at = l.at /\ m.empty = l.empty
      /\ l.shared => m.shared
  BY DEF SameStamp
<1>1. CASE kind = "latched"
  BY <1>0, <1>1 DEF Carries
<1>2. CASE kind = "halved"
  BY <1>0, <1>2 DEF Carries
<1>3. CASE kind = "stamped"
  BY <1>0, <1>3 DEF Carries
<1>4. CASE kind = "due"
  BY <1>0, <1>4 DEF Carries
<1>5. CASE kind = "lowered"
  BY <1>0, <1>5 DEF Carries
<1>6. CASE kind = "received"
  BY <1>0, <1>6 DEF Carries
<1> QED BY <1>1, <1>2, <1>3, <1>4, <1>5, <1>6 DEF OfLatch

\* What a needs of its timestamp for its step.
LEMMA StampNeeded ==
  ASSUME NEW a \in Actors, NEW s, Ready(a, s)
  PROVE  /\ s.op = "receipt high" => Knows(a, "due") /\ Carries("due", local[a].stamp)
         /\ s.op \in {"post stamp", "answer stamp"} =>
              Knows(a, "stamped") /\ Carries("stamped", local[a].stamp)
         /\ s.op \in {"post receipt", "answer receipt"} => Carries("received", local[a].stamp)
<1>1. ASSUME NEW kind \in OfLatch, F(kind) \in Needs(load.device, s)
      PROVE  Knows(a, kind) /\ Carries(kind, local[a].stamp)
  <2>1. F(kind) \in Known(a) /\ Means(F(kind), a) /\ F(kind)[1] = kind /\ Busy(a)
    BY <1>1 DEF Ready, F
  <2> QED BY <2>1 DEF Means, OfLatch, Knows
<1>2. s.op = "receipt high" => F("due") \in Needs(load.device, s)
  BY DEF Needs
<1>3. s.op \in {"post stamp", "answer stamp"} => F("stamped") \in Needs(load.device, s)
  BY DEF Needs
<1>4. s.op \in {"post receipt", "answer receipt"} => F("received") \in Needs(load.device, s)
  BY DEF Needs
<1>5. {"due", "stamped", "received"} \subseteq OfLatch
  BY DEF OfLatch
<1> QED BY <1>1, <1>2, <1>3, <1>4, <1>5

LEMMA LearntOfStamps ==
  ASSUME NEW a \in Actors, NEW s, NEW ok \in BOOLEAN, NEW r \in Local,
         Ready(a, s), Takes(a, s, ok, r), Target(s, ok) \in Nat \ {0},
         NEW f \in After(load.device, s, ok, Known(a)), f[1] \in OfLatch
  PROVE  Means(f, a)'
<1> DEFINE K == Known(a)
           d == load.device
           l == local[a].stamp
           m == local'[a].stamp
           kind == f[1]
<1>0. /\ Outcome(a, s, ok) /\ OnStamp(a, s, ok) /\ StampEdits(a, s, r) /\ load' = load
      /\ Taught(f, d, s, ok, K) \/ (f \in K /\ Kept(f, s, ok))
      /\ (f \in K => Carries(kind, l)) /\ (Means(f, a)' <=> Carries(kind, local[a].stamp)')
      /\ Stamps
  BY DEF Takes, Edits, Effects, After, Ready, Latched, Means, OfLatch
<1>1. m = r.stamp /\ local[a] \in Local /\ l \in Stamp
  BY OnwardFacts DEF Takes, Moves, Ready, Typed, Local
<1>2. ASSUME NEW k \in OfLatch, F(k) \in K
      PROVE  Carries(k, l)
  <2>1. Means(F(k), a) /\ F(k)[1] = k
    BY <1>2 DEF Ready, F
  <2> QED BY <2>1 DEF Means, OfLatch
<1>3. /\ stamp \in [packet : Nat, valid : BOOLEAN, last : Nat, handled : Nat, missed : BOOLEAN]
      /\ hist.stamped \in Nat
  BY DEF Ready, Typed
<1>4. ASSUME s.op \in StampReads
      PROVE  /\ stamp'.packet = stamp.packet /\ stamp'.handled = stamp.handled
             /\ hist'.stamped = hist.stamped /\ (stamp.missed => stamp'.missed)
             /\ stamp'.valid <=> stamp.valid /\ ~(Mapped_ /\ Timestamped(s.op) /\ Frees(s.op))
             /\ m = Got(a, s.op)
  BY <1>0, <1>1, <1>4 DEF OnStamp, StampEdits, StampReads
<1>5. ASSUME s.op \in StampReads
      PROVE  /\ m.of = l.of /\ m.shared = l.shared /\ m.at = (l.at \/ Timestamped(s.op))
             /\ m.empty = (l.empty \/ (s.op = "receipt low" /\ ~(Timestamped(s.op) /\ stamp.valid)))
             /\ m.low = IF s.op \notin {"stamp low", "receipt low"} THEN l.low
                        ELSE IF Timestamped(s.op) THEN stamp.packet ELSE 0
             /\ m.high = IF s.op \notin {"stamp high", "receipt high"} THEN l.high
                         ELSE IF Timestamped(s.op) THEN stamp.packet ELSE 0
  BY <1>1, <1>4, <1>5 DEF Got, Stamp
<1>6. CASE s.op \notin OfStamps
  <2>1. stamp' = stamp /\ hist'.stamped = hist.stamped /\ m = l
    BY <1>0, <1>1, <1>6 DEF OnStamp, StampEdits, StampReads, OfStamps, StampReports
  <2>2. f \in K
    BY <1>0, <1>6 DEF Taught, OfStamps, StampReports, StampReads, OfLatch
  <2> QED BY <1>0, <2>1, <2>2, CarriesStays DEF Ready, SameStamp
<1>7. CASE s.op \in OfStamps /\ kind = "latched"
  <2>1. s.op = "stamp ready" /\ ok
    BY <1>0, <1>7 DEF Taught, Kept
  <2>2. load.latch = "TX" /\ stamp.valid /\ Timestamped(s.op) /\ ~Frees(s.op) /\ s.op \in StampReads
    BY <1>0, <2>1 DEF OnStamp, Timestamped, Frees, StampReads
  <2>3. m.at /\ stamp'.valid
    BY <1>4, <1>5, <2>2
  <2> QED BY <1>0, <1>7, <2>2, <2>3 DEF Carries
<1>8. CASE s.op \in OfStamps /\ kind = "halved"
  <2>1. CASE d = "i226"
    <3>1. s.op = "stamp low" /\ ok /\ F("latched") \in K
      BY <1>0, <1>8, <2>1 DEF Taught, Kept
    <3>2. load.latch = "TX" /\ (l.shared \/ (l.at /\ stamp.valid))
      BY <1>2, <3>1 DEF Carries, OfLatch
    <3>3. Timestamped(s.op) /\ ~Frees(s.op) /\ s.op \in StampReads
      BY <2>1, <3>1, <3>2 DEF Timestamped, Frees, StampReads
    <3>4. /\ m.at /\ (stamp'.valid <=> stamp.valid) /\ stamp'.packet = stamp.packet
          /\ m.low = stamp.packet /\ (l.shared => m.shared)
      BY <1>4, <1>5, <3>1, <3>3
    <3> QED BY <1>0, <1>8, <2>1, <3>2, <3>4 DEF Carries
  <2>2. CASE d # "i226"
    <3>1. s.op = "stamp high" /\ ok
      BY <1>0, <1>8, <2>2 DEF Taught, Kept
    <3>2. /\ load.latch = "TX" /\ stamp.valid /\ Timestamped(s.op) /\ ~Frees(s.op)
          /\ s.op \in StampReads
      BY <1>0, <2>2, <3>1 DEF OnStamp, Timestamped, Frees, StampReads
    <3>3. m.at /\ stamp'.valid /\ stamp'.packet = stamp.packet /\ m.high = stamp.packet
      BY <1>4, <1>5, <3>1, <3>2
    <3> QED BY <1>0, <1>8, <2>2, <3>2, <3>3 DEF Carries
  <2> QED BY <2>1, <2>2
<1>9. CASE s.op \in OfStamps /\ kind = "stamped"
  <2>1. ok /\ F("halved") \in K /\ s.op = IF d = "i226" THEN "stamp high" ELSE "stamp low"
    BY <1>0, <1>9 DEF Taught, Kept
  <2>2. /\ load.latch = "TX"
        /\ l.shared \/ (l.at /\ stamp.valid /\ stamp.packet = IF d = "i226" THEN l.low ELSE l.high)
    BY <1>2, <2>1 DEF Carries, OfLatch
  <2>3. Mapped_ /\ Timestamped(s.op) /\ Frees(s.op) /\ s.op \in StampReads
    BY <1>0, <2>1, <2>2 DEF Outcome, Accesses, Queries, Timestamped, Frees, StampReads
  <2>4. ~stamp'.valid /\ hist'.stamped = hist.stamped
    BY <1>4, <2>3
  <2>5. /\ m.shared = l.shared /\ m.at
        /\ ~l.shared => m.low = stamp.packet /\ m.high = stamp.packet
    BY <1>5, <2>1, <2>2, <2>3
  <2>6. ~l.shared => hist.stamped < stamp.packet
    BY <1>0, <2>2 DEF Stamps
  <2> QED BY <1>0, <1>9, <2>2, <2>4, <2>5, <2>6 DEF Carries
<1>10. CASE s.op \in OfStamps /\ kind = "due"
  <2>1. CASE s.op \in StampReports
    <3>2. r.stamp = NoStamp
      BY <1>0, <2>1 DEF StampEdits, StampReports
    <3>1. m.of = 0
      BY <1>1, <3>2 DEF NoStamp
    <3> QED BY <1>0, <1>10, <3>1 DEF Carries
  <2>2. CASE s.op = "event message"
    <3>1. ok
      BY <1>0, <1>10, <2>2 DEF Taught, Kept, StampReports
    <3>2. /\ load.latch = "RX" /\ stamp.handled < stamp.last /\ stamp'.handled = stamp.handled + 1
          /\ stamp'.packet = stamp.packet /\ stamp'.valid = stamp.valid
          /\ stamp'.missed = stamp.missed
      BY <1>0, <2>2, <3>1 DEF OnStamp
    <3>3. m.of = stamp'.handled
      BY <1>0, <1>1, <2>2 DEF StampEdits, NoStamp
    <3>4. ~stamp.missed => stamp.valid /\ stamp.packet = stamp.handled + 1
      BY <1>0, <1>3, <3>2 DEF Stamps
    <3> QED BY <1>0, <1>3, <1>10, <3>2, <3>3, <3>4 DEF Carries
  <2>3. CASE s.op \in StampReads
    <3>1. f \in K /\ s.op # "receipt high"
      BY <1>0, <1>10, <2>3 DEF Taught, Kept, StampReports, StampReads
    <3>2. l.of = 0 \/ (load.latch = "RX" /\ l.of <= stamp.handled
                       /\ (stamp.missed \/ (stamp.valid /\ stamp.packet = l.of)))
      BY <1>0, <1>10, <3>1 DEF Carries
    <3>3. load.latch = "RX" => ~(Timestamped(s.op) /\ Frees(s.op))
      BY <3>1 DEF Timestamped, Frees
    <3>4. /\ stamp'.packet = stamp.packet /\ stamp'.handled = stamp.handled /\ m.of = l.of
          /\ (stamp.missed => stamp'.missed)
          /\ load.latch = "RX" => (stamp.valid => stamp'.valid)
      BY <1>4, <1>5, <2>3, <3>3
    <3> QED BY <1>0, <1>10, <3>2, <3>4 DEF Carries
  <2> QED BY <1>10, <2>1, <2>2, <2>3 DEF OfStamps, StampReports, StampReads
<1>11. CASE s.op \in OfStamps /\ kind = "lowered"
  <2>1. s.op = "receipt low" /\ ok /\ F("due") \in K
    BY <1>0, <1>11 DEF Taught, Kept
  <2>2. l.of = 0 \/ (load.latch = "RX" /\ (stamp.missed \/ (stamp.valid /\ stamp.packet = l.of)))
    BY <1>2, <2>1 DEF Carries, OfLatch
  <2>3. /\ s.op \in StampReads /\ ~Frees(s.op) /\ (Timestamped(s.op) <=> load.latch = "RX")
    BY <2>1 DEF StampReads, Frees, Timestamped
  <2>4. /\ stamp'.packet = stamp.packet /\ (stamp'.valid <=> stamp.valid)
        /\ (stamp.missed => stamp'.missed) /\ m.of = l.of
        /\ load.latch = "RX" => m.at /\ m.low = stamp.packet
        /\ ~(load.latch = "RX" /\ stamp.valid) => m.empty
    BY <1>4, <1>5, <2>1, <2>3
  <2> QED BY <1>0, <1>11, <2>2, <2>4 DEF Carries
<1>12. CASE s.op \in OfStamps /\ kind = "received"
  <2>1. s.op = "receipt high" /\ ok /\ F("due") \in K /\ F("lowered") \in K
    BY <1>0, <1>12 DEF Taught, Kept
  <2>2. /\ l.of = 0 \/ (load.latch = "RX" /\ (stamp.missed \/ (stamp.valid /\ stamp.packet = l.of)))
        /\ \/ l.shared \/ l.empty
           \/ load.latch = "RX" /\ l.at /\ stamp.valid /\ l.low = stamp.packet
        /\ l.of = 0 \/ stamp.missed \/ l.low = l.of
    BY <1>2, <2>1 DEF Carries, OfLatch
  <2>3. s.op \in StampReads /\ (Timestamped(s.op) <=> load.latch = "RX")
    BY <2>1 DEF StampReads, Timestamped
  <2>4. stamp'.missed <=> stamp.missed \/ l.of = 0
    BY <1>0, <2>1, <2>3 DEF OnStamp
  <2>5. /\ m.of = l.of /\ m.low = l.low /\ m.shared = l.shared /\ (l.empty => m.empty)
        /\ load.latch = "RX" => m.high = stamp.packet
    BY <1>5, <2>1, <2>3
  <2> QED BY <1>0, <1>12, <2>2, <2>4, <2>5 DEF Carries
<1> QED BY <1>6, <1>7, <1>8, <1>9, <1>10, <1>11, <1>12 DEF OfLatch

\* The reads of others do not tear the timestamp of one who reads alone.
LEMMA OthersStamps ==
  ASSUME NEW a \in Actors, NEW s, NEW ok \in BOOLEAN, NEW r \in Local,
         Ready(a, s), Takes(a, s, ok, r), NEW b \in Actors \ {a},
         Busy(b), NEW f \in Known(b), Means(f, b), f[1] \in OfLatch
  PROVE  Means(f, b)'
<1> DEFINE l == local[b].stamp
           m == local'[b].stamp
           mine == local[a].stamp
           kind == f[1]
<1>0. /\ OnStamp(a, s, ok) /\ load' = load /\ SameStamp(m, l) /\ Carries(kind, l)
      /\ (Means(f, b)' <=> Carries(kind, local[b].stamp)') /\ Knows(b, kind)
  BY DEF Takes, Effects, Moves, Keeps, Means, OfLatch, Knows
<1>1. /\ m.low = l.low /\ m.high = l.high /\ m.of = l.of /\ m.at = l.at /\ m.empty = l.empty
      /\ l.shared => m.shared
  BY <1>0 DEF SameStamp
<1>2. CASE s.op \notin OfStamps
  <2>1. stamp' = stamp /\ hist'.stamped = hist.stamped
    BY <1>0, <1>2 DEF OnStamp, StampReads, OfStamps, StampReports
  <2> QED BY <1>0, <2>1, CarriesStays DEF Ready
<1>3. CASE s.op \in StampReads
  <2>1. /\ stamp'.packet = stamp.packet /\ stamp'.handled = stamp.handled
        /\ hist'.stamped = hist.stamped /\ (stamp.missed => stamp'.missed)
        /\ stamp'.valid => stamp.valid
        /\ stamp.valid /\ ~stamp'.valid => Timestamped(s.op) /\ Frees(s.op)
        /\ Timestamped(s.op) /\ l.at => m.shared
    BY <1>0, <1>3 DEF OnStamp, StampReads
  <2>2. CASE kind = "latched"
    BY <1>0, <1>1, <2>1, <2>2 DEF Carries
  <2>3. CASE kind = "halved"
    BY <1>0, <1>1, <2>1, <2>3 DEF Carries
  <2>4. CASE kind = "stamped"
    BY <1>0, <1>1, <2>1, <2>4 DEF Carries
  <2>5. CASE kind = "due"
    <3>1. CASE l.of = 0
      BY <1>0, <1>1, <2>5, <3>1 DEF Carries
    <3>2. CASE stamp.missed
      BY <1>0, <1>1, <2>1, <2>5, <3>2 DEF Carries
    <3>3. CASE l.of # 0 /\ ~stamp.missed
      <4>1. load.latch = "RX" /\ l.of <= stamp.handled /\ stamp.valid /\ stamp.packet = l.of
        BY <1>0, <2>5, <3>3 DEF Carries
      <4>2. CASE s.op = "receipt high"
        <5>1. Knows(a, "due") /\ Carries("due", mine)
          BY <4>2, StampNeeded
        <5>2. l.of # mine.of
          BY <1>0, <2>5, <3>3, <5>1 DEF Ready, Latched, Single
        <5>3. mine.of = 0
          BY <3>3, <4>1, <5>1, <5>2 DEF Carries
        <5>4. stamp'.missed
          BY <1>0, <4>2, <5>3 DEF OnStamp, StampReads
        <5> QED BY <1>0, <1>1, <2>1, <2>5, <4>1, <5>4 DEF Carries
      <4>3. CASE s.op # "receipt high"
        <5>1. ~(Timestamped(s.op) /\ Frees(s.op))
          BY <4>1, <4>3 DEF Timestamped, Frees
        <5>2. stamp'.valid
          BY <2>1, <4>1, <5>1
        <5> QED BY <1>0, <1>1, <2>1, <2>5, <4>1, <5>2 DEF Carries
      <4> QED BY <4>2, <4>3
    <3> QED BY <3>1, <3>2, <3>3
  <2>6. CASE kind = "lowered"
    BY <1>0, <1>1, <2>1, <2>6 DEF Carries
  <2>7. CASE kind = "received"
    BY <1>0, <1>1, <2>1, <2>7 DEF Carries
  <2> QED BY <2>2, <2>3, <2>4, <2>5, <2>6, <2>7 DEF OfLatch
<1>4. CASE s.op = "event message"
  <2>0. local[b] \in Local /\ l \in Stamp /\ stamp.handled \in Nat
    BY DEF Ready, Typed, Local
  <2>1. /\ stamp'.packet = stamp.packet /\ stamp'.valid = stamp.valid /\ stamp'.missed = stamp.missed
        /\ stamp.handled <= stamp'.handled /\ hist'.stamped = hist.stamped
        /\ l.of \in Nat /\ stamp.handled \in Nat /\ stamp'.handled \in Nat
    <3>1. stamp'.handled \in {stamp.handled, stamp.handled + 1}
      BY <1>0, <1>4 DEF OnStamp
    <3>2. /\ stamp'.packet = stamp.packet /\ stamp'.valid = stamp.valid
          /\ stamp'.missed = stamp.missed /\ hist'.stamped = hist.stamped
      BY <1>0, <1>4 DEF OnStamp
    <3>3. l.of \in Nat
      BY <2>0 DEF Stamp
    <3> QED BY <2>0, <3>1, <3>2, <3>3
  <2>2. CASE kind = "latched"
    BY <1>0, <1>1, <2>1, <2>2 DEF Carries
  <2>3. CASE kind = "halved"
    BY <1>0, <1>1, <2>1, <2>3 DEF Carries
  <2>4. CASE kind = "stamped"
    BY <1>0, <1>1, <2>1, <2>4 DEF Carries
  <2>5. CASE kind = "due"
    BY <1>0, <1>1, <2>1, <2>5 DEF Carries
  <2>6. CASE kind = "lowered"
    BY <1>0, <1>1, <2>1, <2>6 DEF Carries
  <2>7. CASE kind = "received"
    BY <1>0, <1>1, <2>1, <2>7 DEF Carries
  <2> QED BY <2>2, <2>3, <2>4, <2>5, <2>6, <2>7 DEF OfLatch
<1>5. CASE s.op \in StampReports
  <2>1. stamp' = stamp
    BY <1>0, <1>5 DEF OnStamp, StampReads, StampReports
  <2>2. CASE hist'.stamped = hist.stamped
    BY <1>0, <2>1, <2>2, CarriesStays DEF Ready
  <2>3. CASE hist'.stamped # hist.stamped
    <3>1. s.op \in {"post stamp", "answer stamp"} /\ hist'.stamped = mine.low
      BY <1>0, <2>3 DEF OnStamp
    <3>2. Knows(a, "stamped") /\ Carries("stamped", mine)
      BY <3>1, StampNeeded
    <3>3. CASE kind = "stamped"
      <4>1. ~l.shared => mine.low < l.low
        BY <1>0, <3>2, <3>3 DEF Ready, Latched, Newest
      <4> QED BY <1>0, <1>1, <2>1, <3>1, <3>3, <4>1 DEF Carries
    <3>4. CASE kind # "stamped"
      BY <1>0, <1>1, <2>1, <3>4 DEF Carries
    <3> QED BY <3>3, <3>4
  <2> QED BY <2>2, <2>3
<1> QED BY <1>2, <1>3, <1>4, <1>5 DEF OfStamps, StampReports, StampReads

\* Nothing another actor knows is taken from it.
LEMMA OthersStillKnow ==
  ASSUME NEW a \in Actors, NEW s, NEW ok \in BOOLEAN, NEW r \in Local,
         Ready(a, s), Takes(a, s, ok, r), NEW b \in Actors \ {a},
         Busy(b), NEW f \in Known(b), Means(f, b), f[1] # "started"
  PROVE  Means(f, b)'
<1>0. /\ Effects(a, s, ok) /\ Keeps(b)
      /\ adapter.private => adapter'.private
      /\ adapter.mapped => adapter'.mapped
      /\ regs["TIMINCA"] # {} => regs'["TIMINCA"] # {}
      /\ b \in phy'.owners <=> b \in phy.owners
  <2>1. Effects(a, s, ok) /\ Keeps(b)
    BY DEF Takes, Moves
  <2> QED BY <2>1, IncrementStays DEF Effects, OnAdapter, OnPhy
<1>1. CASE f[1] = "private"
  BY <1>0, <1>1 DEF Means
<1>2. CASE f[1] = "registers"
  BY <1>0, <1>2 DEF Means
<1>3. CASE f[1] = "ticking"
  BY <1>0, <1>3 DEF Means
<1>4. CASE f[1] = "content"
  BY <1>0, <1>4 DEF Means, Keeps
<1>5. CASE f[1] = "honest"
  BY <1>0, <1>5 DEF Means, Keeps
<1>6. CASE f[1] = "told"
  BY <1>0, <1>6 DEF Means, Keeps
<1>7. CASE f[1] = "tells"
  BY <1>0, <1>7 DEF Means, Keeps
<1>8. CASE f[1] = "unmapped"
  <2>1. /\ local[b].base = "mapping" /\ local'[b].base = "mapping"
        /\ adapter.mapped => local[b].behind
        /\ local[b].behind => local'[b].behind
    BY <1>0, <1>8 DEF Means, Keeps
  <2>2. CASE s.op = "map" /\ ok
    <3>1. local'[b].behind
      BY <1>0, <2>1, <2>2 DEF Effects, OnAdapter
    <3> QED BY <1>8, <2>1, <3>1 DEF Means
  <2>3. CASE ~(s.op = "map" /\ ok)
    <3>1. adapter'.mapped => adapter.mapped
      BY <1>0, <2>3 DEF Effects, OnAdapter
    <3> QED BY <1>8, <2>1, <3>1 DEF Means
  <2> QED BY <2>2, <2>3
<1>9. CASE f[1] = "sure"
  BY <1>0, <1>9 DEF Means, Keeps
<1>10. CASE f[1] = "half"
  BY <1>0, <1>10 DEF Means, Keeps
<1>11. CASE f[1] = "owner"
  BY <1>0, <1>11 DEF Means, Keeps
<1>12. CASE f[1] = "apart"
  BY <1>0, <1>12 DEF Means, Keeps
<1>13. CASE f[1] = "held"
  BY <1>0, <1>13 DEF Means, Keeps
<1>14. CASE f[1] = "free"
  BY <1>0, <1>14 DEF Means, Keeps
<1>15. CASE f[1] = "fits"
  BY <1>0, <1>15 DEF Means, Keeps
<1>16. CASE f[1] \in OfReading
  <2>1. Typed /\ clock.time \in Nat /\ load' = load /\ OnClock(a, s, ok)
    BY <1>0 DEF Ready, Typed, Effects
  <2>2. load.device = "i219" => s.op \notin {"set low", "set high"}
    BY DEF Ready, WellFormed
  <2>3. ASSUME clock'.time = clock.time, clock'.latched = clock.latched PROVE Follows(b)
    BY <2>1, <2>3 DEF Follows, Onwards
  <2>4. ASSUME \A c \in Actors \ {a} : local[c].halves # {} => local'[c].disturbed PROVE Follows(b)
    <3>1. load.device = "i219" => clock'.time = clock.time
      BY <2>1, <2>2 DEF OnClock
    <3>2. clock'.latched \in {clock.latched, clock.time}
      BY <2>1 DEF OnClock
    <3> QED BY <2>1, <2>4, <3>1, <3>2 DEF Follows, Onwards
  <2>5. Follows(b)
    BY <2>1, <2>3, <2>4 DEF OnClock
  <2>6. Stands(f[1], local[b])
    BY <1>16 DEF Means, OfReading, OfLatch
  <2>7. Stands(f[1], local[b])'
    BY <1>0, <1>16, <2>1, <2>5, <2>6, ReadingStays
  <2> QED BY <1>16, <2>7 DEF Means, OfReading, OfLatch
<1>17. CASE f[1] = "early"
  BY <1>0, <1>17 DEF Means, Effects
<1>18. CASE f[1] = "owes"
  BY <1>18 DEF Means
<1>19. CASE f[1] = "current"
  <2>1. Current(local[b])
    BY <1>19 DEF Means
  <2>2. hist.halted => hist'.halted
    BY <1>0 DEF Effects, OnHistory
  <2>3. /\ local'[b].loc = local[b].loc /\ local'[b].base = local[b].base
        /\ local[b].behind => local'[b].behind
    BY <1>0 DEF Keeps
  <2>4. local[b].base = "TSAUXC" => local'[b].behind \/ regs'["TSAUXC"] = regs["TSAUXC"]
    <3>1. CASE ok /\ OnTsauxc(s)
      BY <1>0, <3>1 DEF Effects, OnRegs
    <3>2. CASE ~(ok /\ OnTsauxc(s))
      BY <1>0, <3>2, TsauxcAfter DEF OnTsauxc
    <3> QED BY <3>1, <3>2
  <2>5. Current(local[b])'
    BY <2>1, <2>2, <2>3, <2>4 DEF Current
  <2> QED BY <1>19, <2>5 DEF Means
<1>20. CASE f[1] \in OfLatch
  BY <1>20, OthersStamps
<1> QED BY <1>1, <1>2, <1>3, <1>4, <1>5, <1>6, <1>7, <1>8, <1>9, <1>10, <1>11, <1>12, <1>13,
           <1>14, <1>15, <1>16, <1>17, <1>18, <1>19, <1>20 DEF Means, Stands, OfReading, OfLatch

\* What happens is possible.
LEMMA OutcomeIsPossible ==
  ASSUME NEW a \in Actors, NEW s, NEW ok \in BOOLEAN, F("never") \notin Known(a),
         \A f \in Known(a) : Means(f, a), Outcome(a, s, ok)
  PROVE  Possible(s, ok, Known(a))
<1>1. F("private") \in Known(a) => adapter.private
  <2>1. Means(F("private"), a) <=> adapter.private
    BY DEF Means, F
  <2> QED BY <2>1
<1>2. F("registers") \in Known(a) => adapter.mapped
  <2>1. Means(F("registers"), a) <=> adapter.mapped
    BY DEF Means, F
  <2> QED BY <2>1
<1>3. Reached \subseteq Known(a) => Mapped_
  BY <1>1, <1>2 DEF Reached, Mapped_
<1> QED BY <1>1, <1>2, <1>3 DEF Possible, Outcome

\* One who is done has given back what it had.
LEMMA DoneIsFree ==
  ASSUME NEW a \in Actors, NEW s, NEW ok \in BOOLEAN, NEW r \in Local,
         Ready(a, s), Takes(a, s, ok, r), Target(s, ok) \in Nat,
         Finally \subseteq After(load.device, s, ok, Known(a))
  PROVE  local'[a].held = {} /\ a \notin phy'.owners
<1> DEFINE K == Known(a)
<1>0. /\ Edits(a, s, ok, r) /\ Effects(a, s, ok) /\ local'[a].held = r.held
      /\ local' \in [Actors -> Local]
  BY OnwardFacts DEF Takes, Moves
<1>1. a \notin phy'.owners
  <2> DEFINE f == F("apart")
  <2>1. Taught(f, load.device, s, ok, K) \/ (f \in K /\ Kept(f, s, ok))
    BY DEF Finally, After
  <2>2. f \in K => a \notin phy.owners
    <3>1. Means(f, a) <=> a \notin phy.owners
      BY DEF Means, F
    <3> QED BY <3>1 DEF Ready
  <2>3. s.op = "release" \/ (f \in K /\ ~(s.op = "confirm" /\ ok))
    BY <2>1 DEF Taught, Kept, F
  <2> QED BY <1>0, <2>2, <2>3 DEF Effects, OnPhy
<1>2. ASSUME NEW x \in Lent PROVE x \notin r.held
  <2> DEFINE f == <<"free", x>>
  <2>1. Taught(f, load.device, s, ok, K) \/ (f \in K /\ Kept(f, s, ok))
    BY DEF Finally, After
  <2>2. f \in K => x \notin local[a].held
    <3>1. Means(f, a) <=> x \notin local[a].held
      BY DEF Means
    <3> QED BY <3>1 DEF Ready
  <2>3. (s.op = "give" /\ s.reg = x) \/ (f \in K /\ ~(s.op = "take" /\ s.reg = x /\ ok))
    BY <2>1 DEF Taught, Kept
  <2> QED BY <1>0, <2>2, <2>3 DEF Edits
<1>3. r.held \subseteq Lent
  BY DEF Local
<1> QED BY <1>0, <1>1, <1>2, <1>3

(***************************************************************************)
(* The inductive invariant, step by step.                                  *)
(***************************************************************************)
IInv == /\ Typed /\ Placed /\ Fitting /\ Answering /\ Attached /\ Reading /\ IdleIsFree
        /\ Latched /\ FactsHold

Act(a, s) ==
  \/ ReadReg(a, s)
  \/ PutReg(a, s)
  \/ WriteReg(a, s)
  \/ ClearReg(a, s)
  \/ EditCopy(a, s)
  \/ ReadClockHalf(a, s)
  \/ Recheck(a, s)
  \/ SetClockHalf(a, s)
  \/ SetSoftClock(a, s)
  \/ ReadStamp(a, s)
  \/ NextMessage(a, s)
  \/ ReportStamp(a, s)
  \/ AcquirePhy(a, s)
  \/ ReleasePhy(a, s)
  \/ UsePhy(a, s)
  \/ Report(a, s)
  \/ SetTimer(a, s)
  \/ StopTimer(a, s)
  \/ TestTimer(a, s)
  \/ Borrow(a, s)
  \/ TestContext(a, s)
  \/ TestMapping(a, s)
  \/ TestAccess(a, s)
  \/ MapBar(a, s)
  \/ SetContext(a, s)
  \/ PromoteTicking(a, s)
  \/ UserStops(a, s)

LEMMA ActTaken ==
  ASSUME Typed, NEW a \in Actors, NEW s, Shaped(s), Act(a, s)
  PROVE  Typed' /\ (Taken(a, s) \/ UNCHANGED vars)
BY ReadRegTaken, PutRegTaken, WriteRegTaken, ClearRegTaken, EditCopyTaken, ReadClockHalfTaken,
   RecheckTaken, SetClockHalfTaken, SetSoftClockTaken, ReadStampTaken, NextMessageTaken,
   ReportStampTaken, AcquirePhyTaken, ReleasePhyTaken, UsePhyTaken, ReportTaken, SetTimerTaken,
   StopTimerTaken, TestTimerTaken, BorrowTaken, TestContextTaken, TestMappingTaken,
   TestAccessTaken, MapBarTaken, SetContextTaken, PromoteTickingTaken, UserStopsTaken
   DEF Act

LEMMA StepIsReady ==
  ASSUME IInv, NEW a \in Actors, NEW s \in Steps(a)
  PROVE  Ready(a, s)
<1>1. /\ WellFormed(load.device, load.runs[a], Program(a), s)
      /\ Needs(load.device, s) \subseteq Known(a) /\ Busy(a)
  BY Annotated DEF IInv
<1>2. \A f \in Known(a) : Means(f, a)
  BY <1>1 DEF IInv, FactsHold
<1> QED BY <1>1, <1>2 DEF Ready, IInv, WellFormed

\* Where the step goes, and what is known there.
LEMMA WhereItGoes ==
  ASSUME IInv, NEW a \in Actors, NEW s \in Steps(a), NEW ok \in BOOLEAN, NEW r \in Local,
         Takes(a, s, ok, r)
  PROVE  /\ Ready(a, s) /\ Target(s, ok) \in Nat
         /\ Busy(a) /\ s = Program(a).steps[local[a].pc]
         /\ local'[a].pc = Target(s, ok) /\ local'[a] = Onward(s, ok, r)
         /\ Leads(a, s, ok)
<1>1. Ready(a, s)
  BY StepIsReady
<1>2. Target(s, ok) \in Nat
  BY <1>1 DEF Ready, Shaped, Target
<1>3. Outcome(a, s, ok) /\ local'[a] = Onward(s, ok, r)
  BY DEF Takes, Moves
<1>4. local'[a].pc = Target(s, ok)
  BY <1>2, <1>3, OnwardFacts
<1>5. F("never") \notin Known(a) /\ Busy(a) /\ s = Program(a).steps[local[a].pc]
  BY Annotated DEF IInv
<1>6. Possible(s, ok, Known(a))
  BY <1>1, <1>3, <1>5, OutcomeIsPossible DEF Ready
<1> HIDE DEF IInv
<1>7. Leads(a, s, ok)
  BY <1>6, Annotated DEF IInv
<1> QED BY <1>1, <1>2, <1>3, <1>4, <1>5, <1>7

LEMMA ProgramStays ==
  ASSUME load' = load, NEW a \in Actors
  PROVE  Program(a)' = Program(a)
BY DEF Program

LEMMA TakesPlaced ==
  ASSUME IInv, NEW a \in Actors, NEW s \in Steps(a), NEW ok \in BOOLEAN, NEW r \in Local,
         Takes(a, s, ok, r)
  PROVE  Placed' /\ IdleIsFree'
<1>1. load' = load
  BY DEF Takes, Effects
<1>2. /\ Ready(a, s) /\ Target(s, ok) \in Nat /\ local'[a].pc = Target(s, ok)
      /\ Target(s, ok) # 0 => Target(s, ok) \in DOMAIN Program(a).steps
      /\ Target(s, ok) = 0 => Finally \subseteq After(load.device, s, ok, Known(a))
  BY WhereItGoes DEF Leads
<1>3. ASSUME NEW b \in Actors
      PROVE  Busy(b)' => (local'[b].pc \in DOMAIN Program(b).steps)
  <2>1. CASE b = a
    BY <1>2, <2>1 DEF Busy
  <2>2. CASE b # a
    <3>1. local'[b].pc = local[b].pc
      BY <2>2 DEF Takes, Moves, Keeps
    <3> QED BY <3>1 DEF Busy, IInv, Placed
  <2> QED BY <2>1, <2>2
<1>4. ASSUME NEW b \in Actors, ~Busy(b)'
      PROVE  local'[b].held = {} /\ b \notin phy'.owners
  <2>1. CASE b = a
    BY <1>2, <1>4, <2>1, DoneIsFree DEF Busy
  <2>2. CASE b # a
    <3>1. local'[b].pc = local[b].pc /\ local'[b].held = local[b].held
      BY <2>2 DEF Takes, Moves, Keeps
    <3>2. b \in phy'.owners <=> b \in phy.owners
      BY <2>2 DEF Takes, Effects, OnPhy
    <3> QED BY <1>4, <3>1, <3>2 DEF Busy, IInv, IdleIsFree
  <2> QED BY <2>1, <2>2
<1>5. Placed'
  BY <1>1, <1>3, ProgramStays DEF Placed
<1>6. IdleIsFree'
  BY <1>4 DEF IdleIsFree
<1> QED BY <1>5, <1>6

\* What is owed is still owed after a step that reaches the adapter, unless
\* the step starts the clock.
LEMMA OwedStays ==
  ASSUME IInv, NEW a \in Actors, NEW s \in Steps(a), NEW ok \in BOOLEAN, NEW r \in Local,
         Takes(a, s, ok, r), Mapped_, ~(Starts(s) /\ ok), Owed \/ Halts(s)
  PROVE  Owed'
<1>1. load' = load /\ Outcome(a, s, ok)
  BY DEF Takes, Effects
<1>2. /\ Target(s, ok) \in Nat /\ local'[a].pc = Target(s, ok) /\ Busy(a)
      /\ Leads(a, s, ok)
  BY WhereItGoes
<1>3. ASSUME F("owes") \in After(load.device, s, ok, Known(a)) PROVE Owed'
  <2>1. Target(s, ok) # 0 /\ F("owes") \in Facts[load.device][load.runs[a]][Target(s, ok)]
    BY <1>2, <1>3 DEF Leads
  <2>2. Busy(a)' /\ F("owes") \in Known(a)'
    BY <1>1, <1>2, <2>1 DEF Busy, Known
  <2> QED BY <2>2 DEF Owed
<1>4. F("owes") \in AllFacts /\ F("owes")[1] = "owes"
  BY DEF AllFacts, F
<1>5. CASE Halts(s)
  <2>1. F("owes") \in After(load.device, s, ok, Known(a))
    BY <1>4, <1>5 DEF After, Taught
  <2> QED BY <1>3, <2>1
<1>6. CASE Owed
  <2>1. PICK b \in Actors : Busy(b) /\ F("owes") \in Known(b)
    BY <1>6 DEF Owed
  <2>2. CASE b = a
    <3>1. ok \/ s.op \notin Accesses
      BY <1>1 DEF Outcome
    <3>2. ~Starts(s)
      <4>1. Starts(s) => s.op \in Accesses
        BY DEF Starts, OnTsauxc, Accesses
      <4> QED BY <3>1, <4>1
    <3>3. F("owes") \in After(load.device, s, ok, Known(a))
      BY <1>4, <2>1, <2>2, <3>1, <3>2 DEF After, Kept
    <3> QED BY <1>3, <3>3
  <2>3. CASE b # a
    <3>1. local'[b].pc = local[b].pc
      BY <2>3 DEF Takes, Moves, Keeps
    <3>2. Busy(b)' /\ F("owes") \in Known(b)'
      BY <1>1, <2>1, <3>1 DEF Busy, Known
    <3> QED BY <3>2 DEF Owed
  <2> QED BY <2>2, <2>3
<1> QED BY <1>5, <1>6

LEMMA StartedStays ==
  ASSUME IInv, NEW a \in Actors, NEW s \in Steps(a), NEW ok \in BOOLEAN, NEW r \in Local,
         Takes(a, s, ok, r), Mapped_, Started
  PROVE  Started'
<1>1. /\ Ready(a, s) /\ Effects(a, s, ok)
  BY StepIsReady DEF Takes
<1>2. /\ hist'.halted <=> hist.halted \/ s.op = "user stops"
      /\ hist'.lost <=> hist.lost \/ (s.op = "put" /\ s.reg = "TSAUXC" /\ local[a].behind)
  BY <1>1 DEF Effects, OnHistory
<1> SUFFICES ASSUME "DISABLE" \in regs'["TSAUXC"], ~hist'.halted, ~hist'.lost
             PROVE  Owed'
  BY DEF Started
<1>3. ~(Starts(s) /\ ok)
  BY <1>1, TsauxcAfter DEF Starts, OnTsauxc
<1>4. CASE "DISABLE" \in regs["TSAUXC"]
  BY <1>2, <1>3, <1>4, OwedStays DEF Started
<1>5. CASE Halts(s)
  BY <1>3, <1>5, OwedStays
<1>6. CASE "DISABLE" \notin regs["TSAUXC"] /\ ~Halts(s)
  <2>1. ok /\ OnTsauxc(s)
    BY <1>1, <1>6, TsauxcAfter DEF OnTsauxc
  <2>2. F("current") \in Needs(load.device, s)
    BY <1>3, <1>6, <2>1 DEF Needs
  <2>3. Means(F("current"), a)
    BY <1>1, <2>2 DEF Ready
  <2>4. Current(local[a])
    BY <2>3 DEF Means, F
  <2>5. "DISABLE" \notin s.on /\ s.op = "put" /\ s.reg = "TSAUXC"
    BY <1>3, <1>6, <2>1 DEF Starts, Halts, OnTsauxc
  <2>6. "DISABLE" \in local[a].loc
    BY <1>1, <2>1, <2>5, TsauxcAfter
  <2> QED BY <1>2, <1>6, <2>4, <2>5, <2>6 DEF Current
<1> QED BY <1>4, <1>5, <1>6

\* What the clock was started for is known whether the script goes on or not.
LEMMA LearntToBeStarted ==
  ASSUME IInv, NEW a \in Actors, NEW s \in Steps(a), NEW ok \in BOOLEAN, NEW r \in Local,
         Takes(a, s, ok, r), NEW f \in After(load.device, s, ok, Known(a)), f[1] = "started"
  PROVE  (Mapped_ /\ Started)'
<1>1. Ready(a, s) /\ Effects(a, s, ok) /\ Outcome(a, s, ok)
  BY StepIsReady DEF Takes
<1>2. Mapped_ => Mapped_'
  BY <1>1 DEF Effects, OnAdapter, Mapped_
<1>3. CASE Starts(s) /\ ok
  <2>1. Mapped_
    BY <1>1, <1>3 DEF Starts, OnTsauxc, Accesses, Outcome
  <2>2. "DISABLE" \notin regs'["TSAUXC"]
    BY <1>1, <1>3, TsauxcAfter DEF Starts, OnTsauxc
  <2> QED BY <1>2, <2>1, <2>2 DEF Started
<1>4. CASE f \in Known(a)
  <2>1. Mapped_ /\ Started
    BY <1>1, <1>4 DEF Ready, Means
  <2> QED BY <1>2, <2>1, StartedStays
<1> QED BY <1>3, <1>4 DEF After, Taught

LEMMA TakesFacts ==
  ASSUME IInv, NEW a \in Actors, NEW s \in Steps(a), NEW ok \in BOOLEAN, NEW r \in Local,
         Takes(a, s, ok, r)
  PROVE  FactsHold'
<1>1. load' = load
  BY DEF Takes, Effects
<1>2. /\ Ready(a, s) /\ Target(s, ok) \in Nat /\ local'[a].pc = Target(s, ok)
      /\ Target(s, ok) # 0 => Facts[load.device][load.runs[a]][Target(s, ok)]
                                \subseteq After(load.device, s, ok, Known(a))
  BY WhereItGoes DEF Leads
<1>3. ASSUME NEW b \in Actors, Busy(b)', NEW f \in Known(b)'
      PROVE  Means(f, b)'
  <2>1. CASE b = a
    <3>1. Target(s, ok) # 0
      BY <1>2, <1>3, <2>1 DEF Busy
    <3>2. f \in After(load.device, s, ok, Known(a))
      BY <1>1, <1>2, <1>3, <2>1, <3>1 DEF Known
    <3>3. f[1] \in {"private", "registers", "ticking", "owner", "apart", "content", "honest", "told",
                    "tells", "fits", "unmapped", "sure", "half", "held", "free",
                    "early", "started", "owes", "current"} \cup OfReading \cup OfLatch
      <4>1. Taught(f, load.device, s, ok, Known(a)) \/ f \in Known(a)
        BY <3>2 DEF After
      <4>2. f \in Known(a) => Means(f, a)
        BY <1>2 DEF Ready
      <4>3. CASE f \in Known(a)
        BY <4>2, <4>3 DEF Means, Stands, OfReading, OfLatch
      <4>4. CASE Taught(f, load.device, s, ok, Known(a))
        BY <4>4 DEF Taught, OfReading, OfLatch
      <4> QED BY <4>1, <4>3, <4>4
    <3>4. CASE f[1] = "started"
      BY <2>1, <3>2, <3>4, LearntToBeStarted DEF Means
    <3>5. CASE f[1] = "owes"
      BY <3>5 DEF Means
    <3> QED BY <1>2, <2>1, <3>1, <3>2, <3>3, <3>4, <3>5, LearntGlobally, LearntOfTheCopy,
       LearntOfTheRest,
           LearntOfReading, LearntOfTsauxc, LearntOfStamps
  <2>2. CASE b # a
    <3>1. local'[b].pc = local[b].pc
      BY <2>2 DEF Takes, Moves, Keeps
    <3>2. Busy(b) /\ f \in Known(b)
      BY <1>1, <1>3, <3>1 DEF Busy, Known
    <3>3. Means(f, b)
      BY <3>2 DEF IInv, FactsHold
    <3>4. CASE f[1] = "started"
      <4>1. Mapped_ /\ Started
        BY <3>3, <3>4 DEF Means
      <4>2. Mapped_'
        BY <4>1 DEF Mapped_, Takes, Effects, OnAdapter
      <4> QED BY <3>4, <4>1, <4>2, StartedStays DEF Means
    <3> QED BY <1>2, <2>2, <3>2, <3>3, <3>4, OthersStillKnow
  <2> QED BY <2>1, <2>2
<1> QED BY <1>3 DEF FactsHold

LEMMA TakesStamps ==
  ASSUME IInv, NEW a \in Actors, NEW s \in Steps(a), NEW ok \in BOOLEAN, NEW r \in Local,
         Takes(a, s, ok, r)
  PROVE  Stamps'
<1> DEFINE l == local[a].stamp
           m == local'[a].stamp
<1>1. /\ Ready(a, s) /\ Target(s, ok) \in Nat /\ local'[a] = Onward(s, ok, r) /\ Stamps
      /\ StampEdits(a, s, r) /\ OnStamp(a, s, ok) /\ load' = load
  BY WhereItGoes DEF Takes, Edits, Effects, IInv, Latched
<1>2. /\ stamp \in [packet : Nat, valid : BOOLEAN, last : Nat, handled : Nat, missed : BOOLEAN]
      /\ local[a] \in Local /\ l \in Stamp /\ hist.stamped \in Nat
  BY DEF IInv, Typed, Local
<1>3. m = r.stamp \/ m = NoStamp
  BY <1>1, OnwardFacts
<1>4. /\ stamp'.packet = stamp.packet /\ stamp'.last = stamp.last
      /\ stamp'.valid => stamp.valid
      /\ stamp.missed => stamp'.missed
      /\ \/ stamp'.handled = stamp.handled
         \/ stamp.handled < stamp.last /\ stamp'.handled = stamp.handled + 1
  BY <1>1 DEF OnStamp
<1>5. r.stamp.low \in {l.low, stamp.packet, 0}
  <2>1. CASE s.op \in StampReads
    <3>1. r.stamp = Got(a, s.op)
      BY <1>1, <2>1 DEF StampEdits
    <3> QED BY <1>2, <3>1 DEF Got, Stamp
  <2>2. CASE s.op \notin StampReads
    <3>1. r.stamp = l \/ r.stamp = NoStamp \/ r.stamp = [NoStamp EXCEPT !.of = stamp'.handled]
      BY <1>1, <2>2 DEF StampEdits, StampReads, StampReports, OfStamps
    <3> QED BY <3>1 DEF NoStamp
  <2> QED BY <2>1, <2>2
<1>6. ASSUME NEW c \in Actors
      PROVE  local'[c].stamp.low <= stamp'.packet
  <2>1. local[c].stamp.low <= stamp.packet /\ l.low <= stamp.packet
    BY <1>1 DEF Stamps
  <2>2. CASE c # a
    <3>1. local'[c].stamp.low = local[c].stamp.low
      BY <2>2 DEF Takes, Moves, Keeps, SameStamp
    <3> QED BY <1>4, <2>1, <3>1
  <2>3. CASE c = a
    <3>1. m.low \in {l.low, stamp.packet, 0}
      BY <1>3, <1>5 DEF NoStamp
    <3> QED BY <1>2, <1>4, <2>1, <2>3, <3>1
  <2> QED BY <2>2, <2>3
<1>7. /\ hist'.stamped <= stamp'.packet
      /\ load'.latch = "TX" /\ stamp'.valid => hist'.stamped < stamp'.packet
  <2>1. CASE s.op \in {"post stamp", "answer stamp"}
    <3>1. hist'.stamped = l.low /\ l.low <= stamp.packet
      BY <1>1, <2>1 DEF OnStamp, Stamps
    <3>2. Carries("stamped", l)
      BY <1>1, <2>1, StampNeeded
    <3>3. stamp.valid => l.low < stamp.packet
      BY <3>2 DEF Carries
    <3> QED BY <1>4, <3>1, <3>3
  <2>2. CASE s.op \notin {"post stamp", "answer stamp"}
    <3>1. hist'.stamped = hist.stamped
      BY <1>1, <2>2 DEF OnStamp
    <3> QED BY <1>1, <1>4, <3>1 DEF Stamps
  <2> QED BY <2>1, <2>2
<1>8. stamp'.handled <= stamp'.last
  BY <1>1, <1>2, <1>4 DEF Stamps
<1>9. ASSUME load'.latch = "RX", ~stamp'.missed
      PROVE  /\ stamp'.packet = stamp'.last /\ stamp'.last <= stamp'.handled + 1
             /\ stamp'.handled < stamp'.last => stamp'.valid
  <2>1. /\ ~stamp.missed /\ stamp.packet = stamp.last /\ stamp.last <= stamp.handled + 1
        /\ stamp.handled < stamp.last => stamp.valid
    BY <1>1, <1>4, <1>9 DEF Stamps
  <2>2. stamp'.packet = stamp'.last /\ stamp'.last <= stamp'.handled + 1
    BY <1>2, <1>4, <2>1
  <2>3. ASSUME stamp'.handled < stamp'.last PROVE stamp'.valid
    <3>1. stamp.valid /\ stamp.handled < stamp.last
      BY <1>2, <1>4, <2>1, <2>3
    <3>2. CASE s.op = "receipt high"
      <4>1. Carries("due", l)
        BY <1>1, <3>2, StampNeeded
      <4>2. l.of # 0
        BY <1>1, <1>9, <3>2 DEF OnStamp, StampReads
      <4>3. l.of <= stamp.handled /\ stamp.packet = l.of
        BY <2>1, <4>1, <4>2 DEF Carries
      <4> QED BY <1>2, <2>1, <3>1, <4>3
    <3>3. CASE s.op # "receipt high"
      <4>1. ~(Timestamped(s.op) /\ Frees(s.op))
        BY <1>1, <1>9, <3>3 DEF Timestamped, Frees
      <4> QED BY <1>1, <3>1, <4>1 DEF OnStamp
    <3> QED BY <3>2, <3>3
  <2> QED BY <2>2, <2>3
<1> QED BY <1>1, <1>4, <1>6, <1>7, <1>8, <1>9 DEF Stamps

\* What a still knows of a timestamp and of a message, it knew, or it is new:
\* the timestamp of those that had come, the message of those indicated.
LEMMA StampsAfter ==
  ASSUME IInv, NEW a \in Actors, NEW s \in Steps(a), NEW ok \in BOOLEAN, NEW r \in Local,
         Takes(a, s, ok, r)
  PROVE  LET l == local[a].stamp
             m == local'[a].stamp
         IN /\ Knows(a, "stamped")' =>
                 \/ Knows(a, "stamped") /\ m = l
                 \/ /\ \A b \in Actors \ {a} : local[b].stamp.at => local'[b].stamp.shared
                    /\ ~m.shared => stamp.valid /\ m.low = stamp.packet
            /\ Knows(a, "due")' /\ m.of # 0 =>
                 \/ Knows(a, "due") /\ m.of = l.of
                 \/ m.of = stamp.handled + 1
<1> DEFINE K == Known(a)
           d == load.device
           l == local[a].stamp
           m == local'[a].stamp
<1>1. /\ Ready(a, s) /\ Busy(a) /\ Target(s, ok) \in Nat /\ local'[a].pc = Target(s, ok)
      /\ local'[a] = Onward(s, ok, r) /\ Leads(a, s, ok)
      /\ StampEdits(a, s, r) /\ OnStamp(a, s, ok) /\ load' = load
  BY WhereItGoes DEF Takes, Edits, Effects
<1>2. ASSUME NEW kind, Knows(a, kind)'
      PROVE  /\ m = r.stamp
             /\ \E f \in After(d, s, ok, K) : f[1] = kind
  <2>1. Target(s, ok) # 0 /\ Known(a)' = Facts[d][load.runs[a]][Target(s, ok)]
    BY <1>1, <1>2 DEF Knows, Busy, Known
  <2>2. Known(a)' \subseteq After(d, s, ok, K)
    BY <1>1, <2>1 DEF Leads
  <2> QED BY <1>1, <1>2, <2>1, <2>2, OnwardFacts DEF Knows
<1>3. local[a] \in Local /\ l \in Stamp
  BY DEF IInv, Typed, Local
<1>4. ASSUME Knows(a, "stamped")'
      PROVE  \/ Knows(a, "stamped") /\ m = l
             \/ /\ \A b \in Actors \ {a} : local[b].stamp.at => local'[b].stamp.shared
                /\ ~m.shared => stamp.valid /\ m.low = stamp.packet
  <2>1. PICK f \in After(d, s, ok, K) : f[1] = "stamped"
    BY <1>2, <1>4
  <2>2. Taught(f, d, s, ok, K) \/ (f \in K /\ Kept(f, s, ok))
    BY DEF After
  <2>3. CASE f \in K /\ Kept(f, s, ok)
    <3>1. s.op \notin OfStamps
      BY <2>1, <2>3 DEF Kept
    <3>2. m = l
      BY <1>1, <1>2, <1>4, <3>1 DEF StampEdits
    <3> QED BY <1>1, <2>1, <2>3, <3>2 DEF Knows
  <2>4. CASE Taught(f, d, s, ok, K)
    <3>1. F("halved") \in K /\ s.op = IF d = "i226" THEN "stamp high" ELSE "stamp low"
      BY <2>1, <2>4 DEF Taught
    <3>2. Means(F("halved"), a) /\ F("halved")[1] = "halved"
      BY <1>1, <3>1 DEF Ready, F
    <3>3. /\ load.latch = "TX"
          /\ l.shared \/ (l.at /\ stamp.valid
                          /\ stamp.packet = IF d = "i226" THEN l.low ELSE l.high)
      BY <3>2 DEF Means, OfLatch, Carries
    <3>4. Timestamped(s.op) /\ s.op \in StampReads
      BY <3>1, <3>3 DEF Timestamped, StampReads
    <3>5. m = Got(a, s.op)
      BY <1>1, <1>2, <1>4, <3>4 DEF StampEdits
    <3>6. m.shared = l.shared /\ m.low = IF s.op = "stamp low" THEN stamp.packet ELSE l.low
      BY <1>3, <3>1, <3>4, <3>5 DEF Got, Stamp
    <3>7. \A b \in Actors \ {a} : local[b].stamp.at => local'[b].stamp.shared
      BY <1>1, <3>4 DEF OnStamp
    <3> QED BY <3>1, <3>3, <3>6, <3>7
  <2> QED BY <2>2, <2>3, <2>4
<1>5. ASSUME Knows(a, "due")', m.of # 0
      PROVE  (Knows(a, "due") /\ m.of = l.of) \/ m.of = stamp.handled + 1
  <2>1. PICK f \in After(d, s, ok, K) : f[1] = "due"
    BY <1>2, <1>5
  <2>2. Taught(f, d, s, ok, K) \/ (f \in K /\ Kept(f, s, ok))
    BY DEF After
  <2>3. s.op \notin StampReports
    <3>1. s.op \in StampReports => r.stamp = NoStamp
      BY <1>1 DEF StampEdits, StampReports
    <3> QED BY <1>2, <1>5, <3>1 DEF NoStamp
  <2>4. CASE s.op = "event message"
    <3>1. ok
      BY <2>1, <2>2, <2>3, <2>4 DEF Taught, Kept
    <3>2. stamp'.handled = stamp.handled + 1
      BY <1>1, <2>4, <3>1 DEF OnStamp
    <3>3. m = [NoStamp EXCEPT !.of = stamp'.handled]
      BY <1>1, <1>2, <1>5, <2>4 DEF StampEdits
    <3> QED BY <3>2, <3>3 DEF NoStamp
  <2>5. CASE s.op # "event message"
    <3>1. f \in K
      BY <2>1, <2>2, <2>3, <2>5 DEF Taught
    <3>2. CASE s.op \in StampReads
      <4>1. m = Got(a, s.op)
        BY <1>1, <1>2, <1>5, <3>2 DEF StampEdits
      <4>2. m.of = l.of
        BY <1>3, <4>1 DEF Got, Stamp
      <4> QED BY <1>1, <2>1, <3>1, <4>2 DEF Knows
    <3>3. CASE s.op \notin StampReads
      <4>1. m = l
        BY <1>1, <1>2, <1>5, <2>3, <2>5, <3>3 DEF StampEdits, OfStamps, StampReports, StampReads
      <4> QED BY <1>1, <2>1, <3>1, <4>1 DEF Knows
    <3> QED BY <3>2, <3>3
  <2> QED BY <2>4, <2>5
<1> QED BY <1>4, <1>5

LEMMA TakesLatched ==
  ASSUME IInv, NEW a \in Actors, NEW s \in Steps(a), NEW ok \in BOOLEAN, NEW r \in Local,
         Takes(a, s, ok, r)
  PROVE  Latched'
<1>1. Stamps'
  BY TakesStamps
<1>2. /\ Newest /\ Single /\ load' = load
      /\ stamp \in [packet : Nat, valid : BOOLEAN, last : Nat, handled : Nat, missed : BOOLEAN]
  BY DEF IInv, Latched, Typed, Takes, Effects
<1>3. ASSUME NEW b \in Actors \ {a}
      PROVE  /\ \A kind \in OfLatch : Knows(b, kind)' => Knows(b, kind) /\ Carries(kind, local[b].stamp)
             /\ local'[b].stamp.low = local[b].stamp.low /\ local'[b].stamp.of = local[b].stamp.of
             /\ local[b].stamp.shared => local'[b].stamp.shared
             /\ local[b].stamp.of \in Nat
  <2>1. /\ local'[b].pc = local[b].pc
        /\ local'[b].stamp.low = local[b].stamp.low /\ local'[b].stamp.of = local[b].stamp.of
        /\ local[b].stamp.shared => local'[b].stamp.shared
    BY DEF Takes, Moves, Keeps, SameStamp
  <2>2. ASSUME NEW kind \in OfLatch, Knows(b, kind)'
        PROVE  Knows(b, kind) /\ Carries(kind, local[b].stamp)
    <3>1. Busy(b) /\ \E f \in Known(b) : f[1] = kind
      BY <1>2, <2>1, <2>2 DEF Knows, Busy, Known
    <3>2. PICK f \in Known(b) : f[1] = kind
      BY <3>1
    <3>3. Means(f, b)
      BY <3>1 DEF IInv, FactsHold
    <3> QED BY <3>1, <3>2, <3>3 DEF Knows, Means, OfLatch
  <2>3. local[b] \in Local
    BY DEF IInv, Typed
  <2> QED BY <2>1, <2>2, <2>3 DEF Local, Stamp
<1>4. "stamped" \in OfLatch /\ "due" \in OfLatch
  BY DEF OfLatch
<1>5. ASSUME NEW b \in Actors, NEW c \in Actors, b # c, Knows(b, "stamped")', Knows(c, "stamped")',
             ~local'[b].stamp.shared
      PROVE  local'[c].stamp.low < local'[b].stamp.low
  <2>1. CASE b # a /\ c # a
    BY <1>2, <1>3, <1>4, <1>5, <2>1 DEF Newest
  <2>2. CASE b = a
    <3>1. Knows(c, "stamped") /\ local'[c].stamp.low = local[c].stamp.low
      BY <1>3, <1>4, <1>5, <2>2
    <3>2. stamp.valid => local[c].stamp.low < stamp.packet
      BY <1>3, <1>4, <1>5, <2>2 DEF Carries
    <3>3. \/ Knows(a, "stamped") /\ local'[a].stamp = local[a].stamp
          \/ stamp.valid /\ local'[a].stamp.low = stamp.packet
      BY <1>5, <2>2, StampsAfter
    <3> QED BY <1>2, <1>5, <2>2, <3>1, <3>2, <3>3 DEF Newest
  <2>3. CASE c = a
    <3>1. /\ Knows(b, "stamped") /\ Carries("stamped", local[b].stamp) /\ ~local[b].stamp.shared
          /\ local'[b].stamp.low = local[b].stamp.low
      BY <1>3, <1>4, <1>5, <2>3
    <3>2. local[b].stamp.at
      BY <3>1 DEF Carries
    <3>3. Knows(a, "stamped") /\ local'[a].stamp = local[a].stamp
      BY <1>5, <2>3, <3>2, StampsAfter
    <3> QED BY <1>2, <1>5, <2>3, <3>1, <3>3 DEF Newest
  <2> QED BY <2>1, <2>2, <2>3
<1>6. ASSUME NEW b \in Actors \ {a}, Knows(a, "due")', Knows(b, "due")',
             local'[a].stamp.of # 0, local'[b].stamp.of # 0
      PROVE  local'[a].stamp.of # local'[b].stamp.of
  <2>1. /\ Knows(b, "due") /\ Carries("due", local[b].stamp) /\ local[b].stamp.of \in Nat
        /\ local'[b].stamp.of = local[b].stamp.of
    BY <1>3, <1>4, <1>6
  <2>2. local[b].stamp.of <= stamp.handled
    BY <1>6, <2>1 DEF Carries
  <2>3. \/ Knows(a, "due") /\ local'[a].stamp.of = local[a].stamp.of
        \/ local'[a].stamp.of = stamp.handled + 1
    BY <1>6, StampsAfter
  <2> QED BY <1>2, <1>6, <2>1, <2>2, <2>3 DEF Single
<1>7. ASSUME NEW b \in Actors, NEW c \in Actors, b # c, Knows(b, "due")', Knows(c, "due")',
             local'[b].stamp.of # 0
      PROVE  local'[c].stamp.of # local'[b].stamp.of
  <2>1. CASE b # a /\ c # a
    BY <1>2, <1>3, <1>4, <1>7, <2>1 DEF Single
  <2>2. CASE b = a \/ c = a
    BY <1>6, <1>7, <2>2
  <2> QED BY <2>1, <2>2
<1>8. Newest'
  BY <1>5 DEF Newest
<1>9. Single'
  BY <1>7 DEF Single
<1> QED BY <1>1, <1>8, <1>9 DEF Latched

LEMMA TakesFitting ==
  ASSUME IInv, NEW a \in Actors, NEW s \in Steps(a), NEW ok \in BOOLEAN, NEW r \in Local,
         Takes(a, s, ok, r)
  PROVE  Fitting'
<1>1. /\ OnRegs(a, s, ok) /\ OnClock(a, s, ok) /\ Ready(a, s)
  BY StepIsReady DEF Takes, Effects
<1>2. ASSUME NEW q \in Registers
      PROVE  regs'[q] \subseteq FlagsOf[q]
  <2>1. regs[q] \subseteq FlagsOf[q]
    BY DEF IInv, Fitting
  <2>2. CASE ok /\ s.reg = q /\ s.op = "write"
    BY <1>1, <2>2 DEF OnRegs, Ready, Shaped
  <2>3. CASE ok /\ s.reg = q /\ s.op = "put"
    <3>1. <<"fits", q>> \in Needs(load.device, s)
      BY <2>3 DEF Needs
    <3>2. Means(<<"fits", q>>, a)
      BY <1>1, <3>1 DEF Ready
    <3>3. local[a].loc \subseteq FlagsOf[q]
      BY <3>2 DEF Means
    <3>4. s.on \subseteq FlagsOf[q]
      BY <1>1, <2>3 DEF Ready, Shaped
    <3> QED BY <1>1, <2>3, <3>3, <3>4 DEF OnRegs
  <2>4. CASE ~(ok /\ s.reg = q /\ s.op \in {"write", "put"})
    BY <1>1, <2>1, <2>4 DEF OnRegs
  <2> QED BY <2>2, <2>3, <2>4
<1>3. clock'.shadow \subseteq FlagsOf["TSAUXC"]
  <2>1. CASE s.op = "write shadow"
    <3>1. <<"fits", "TSAUXC">> \in Needs(load.device, s)
      BY <2>1 DEF Needs
    <3>2. Means(<<"fits", "TSAUXC">>, a)
      BY <1>1, <3>1 DEF Ready
    <3> QED BY <1>1, <2>1, <3>2 DEF Means, OnClock
  <2>2. CASE s.op # "write shadow"
    BY <1>1, <2>2 DEF OnClock, IInv, Fitting
  <2> QED BY <2>1, <2>2
<1> QED BY <1>2, <1>3 DEF Fitting

LEMMA TakesAnswering ==
  ASSUME IInv, NEW a \in Actors, NEW s \in Steps(a), NEW ok \in BOOLEAN, NEW r \in Local,
         Takes(a, s, ok, r)
  PROVE  Answering' /\ Attached' /\ Reading'
<1>1. /\ OnAdapter(a, s, ok) /\ Ready(a, s) /\ Edits(a, s, ok, r) /\ load' = load
      /\ WellFormed(load.device, load.runs[a], Program(a), s)
  BY StepIsReady DEF Takes, Effects, Ready
<1>2. (adapter.mapped => adapter'.mapped) /\ (adapter.private => adapter'.private)
  BY <1>1 DEF OnAdapter
<1>3. ASSUME ~IsMdioFamily(load.device), adapter'.state # "BOUND"
      PROVE  adapter'.mapped /\ adapter'.private
  <2>1. CASE adapter.state # "BOUND"
    BY <1>2, <1>3, <2>1 DEF IInv, Answering
  <2>2. CASE s.op \in {"promote", "promote ticking"}
    <3>1. {F("private"), F("registers")} \subseteq Needs(load.device, s)
      BY <1>3, <2>2 DEF Needs, Reached
    <3>2. Means(F("private"), a) /\ Means(F("registers"), a)
      BY <1>1, <3>1 DEF Ready
    <3> QED BY <1>2, <3>2 DEF Means, F
  <2>3. CASE s.op \in {"usable", "rebound"}
    <3>1. {F("private"), F("registers")} \subseteq Needs(load.device, s)
      BY <1>3, <2>3 DEF Needs
    <3>2. Means(F("private"), a) /\ Means(F("registers"), a)
      BY <1>1, <3>1 DEF Ready
    <3> QED BY <1>2, <3>2 DEF Means, F
  <2>4. s.op # "promote unmapped"
    BY <1>1, <1>3 DEF WellFormed
  <2>5. CASE adapter.state = "BOUND" /\ s.op \notin {"usable", "rebound"} \cup Promotions
    BY <1>1, <1>3, <2>5 DEF OnAdapter
  <2> QED BY <2>1, <2>2, <2>3, <2>4, <2>5 DEF Promotions
<1>4. ASSUME NEW b \in Actors, local'[b].seen = "unsure"
      PROVE  adapter'.mapped /\ adapter'.private
  <2>1. CASE b # a
    <3>1. local[b].seen = "unsure"
      BY <1>4, <2>1 DEF Takes, Moves, Keeps
    <3> QED BY <1>2, <3>1 DEF IInv, Reading, Mapped_
  <2>2. CASE b = a
    <3>0. local'[a] = Onward(s, ok, r) /\ Target(s, ok) \in Nat
      BY WhereItGoes
    <3>1. r.seen = "unsure"
      BY <1>4, <2>2, <3>0, OnwardFacts
    <3>2. CASE s.op # "recheck"
      <4>1. local[a].seen = "unsure"
        BY <1>1, <3>1, <3>2 DEF Edits
      <4> QED BY <1>2, <4>1 DEF IInv, Reading, Mapped_
    <3>3. CASE s.op = "recheck"
      <4>1. ~ok
        BY <1>1, <3>1, <3>3 DEF Edits
      <4>2. local[a].seen = "unsure" \/ Mapped_
        BY <1>1, <3>1, <3>3, <4>1 DEF Edits, ClockReads, Halving, Reads
      <4> QED BY <1>2, <4>2 DEF IInv, Reading, Mapped_
    <3> QED BY <3>2, <3>3
  <2> QED BY <2>1, <2>2
<1>5. ASSUME load.start # "BOUND"
      PROVE  adapter'.state # "BOUND" /\ adapter'.mapped /\ adapter'.private
  BY <1>1, <1>2, <1>5 DEF OnAdapter, IInv, Attached, Mapped_
<1> QED BY <1>1, <1>3, <1>4, <1>5 DEF Answering, Attached, Reading, Mapped_

(***************************************************************************)
(* What stays so where no script goes on.                                  *)
(***************************************************************************)
\* What b has of a packet's timestamp it still has.
CarriesOn(b) ==
  \A kind \in OfLatch : Carries(kind, local[b].stamp) => Carries(kind, local[b].stamp)'

LEMMA KnowsStays ==
  ASSUME load' = load, NEW b \in Actors, local'[b].pc = local[b].pc, NEW kind
  PROVE  Knows(b, kind)' <=> Knows(b, kind)
BY DEF Knows, Busy, Known

LEMMA PairsStay ==
  ASSUME IInv, load' = load, \A b \in Actors : Keeps(b)
  PROVE  Newest' /\ Single'
<1>1. ASSUME NEW b \in Actors
      PROVE  /\ \A kind : Knows(b, kind)' => Knows(b, kind)
             /\ local'[b].stamp.low = local[b].stamp.low /\ local'[b].stamp.of = local[b].stamp.of
             /\ local[b].stamp.shared => local'[b].stamp.shared
  BY KnowsStays DEF Keeps, SameStamp
<1> QED BY <1>1 DEF IInv, Latched, Newest, Single

LEMMA StampsStay ==
  ASSUME IInv, load' = load, stamp' = stamp, hist'.stamped = hist.stamped,
         \A b \in Actors : Keeps(b)
  PROVE  Latched' /\ \A b \in Actors : CarriesOn(b)
<1>1. \A b \in Actors : SameStamp(local'[b].stamp, local[b].stamp)
  BY DEF Keeps
<1>2. \A b \in Actors : CarriesOn(b)
  BY <1>1, CarriesStays DEF CarriesOn, IInv
<1>3. Stamps'
  BY <1>1 DEF IInv, Latched, Stamps, SameStamp
<1> QED BY <1>2, <1>3, PairsStay DEF Latched

LEMMA WorldKeeps ==
  ASSUME IInv, Typed', UNCHANGED <<load, adapter>>, phy'.owners = phy.owners,
         regs'["TIMINCA"] = regs["TIMINCA"], regs'["TSAUXC"] = regs["TSAUXC"], Fitting',
         hist'.halted = hist.halted, hist'.lost = hist.lost, \A b \in Actors : Keeps(b) /\ Follows(b),
         Latched', \A b \in Actors : CarriesOn(b)
  PROVE  IInv'
<1>1. \A b \in Actors : (Busy(b)' <=> Busy(b)) /\ Program(b)' = Program(b) /\ Known(b)' = Known(b)
  BY DEF Keeps, Busy, Program, Known
<1>2. Placed' /\ IdleIsFree'
  BY <1>1 DEF IInv, Placed, IdleIsFree, Keeps
<1>3. Answering' /\ Attached' /\ Reading'
  BY DEF IInv, Answering, Attached, Reading, Mapped_, Keeps
<1>6. (Mapped_ /\ Started)' <=> Mapped_ /\ Started
  BY <1>1 DEF Mapped_, Started, Owed
<1>4. ASSUME NEW b \in Actors, Busy(b)', NEW f \in Known(b)'
      PROVE  Means(f, b)'
  <2>1. Means(f, b)
    BY <1>1, <1>4 DEF IInv, FactsHold
  <2>2. Keeps(b) /\ Follows(b)
    OBVIOUS
  <2>3. CASE f[1] \in OfReading
    <3>1. Stands(f[1], local[b])
      BY <2>1, <2>3 DEF Means, OfReading, OfLatch
    <3>2. Stands(f[1], local[b])'
      BY <2>2, <2>3, <3>1, ReadingStays DEF IInv
    <3> QED BY <2>3, <3>2 DEF Means, OfReading, OfLatch
  <2>4. CASE f[1] \notin OfReading \cup {"started", "current"} \cup OfLatch
    BY <2>1, <2>2, <2>4 DEF Means, Keeps, Stands, OfReading
  <2>7. CASE f[1] \in OfLatch
    BY <2>1, <2>7 DEF Means, CarriesOn, OfLatch
  <2>5. CASE f[1] = "started"
    BY <1>6, <2>1, <2>5 DEF Means
  <2>6. CASE f[1] = "current"
    BY <2>1, <2>2, <2>6 DEF Means, Keeps, Current
  <2> QED BY <2>3, <2>4, <2>5, <2>6, <2>7
<1>5. FactsHold'
  BY <1>4 DEF FactsHold
<1> QED BY <1>2, <1>3, <1>5 DEF IInv

LEMMA StutterKeeps ==
  ASSUME IInv, UNCHANGED vars PROVE IInv'
<1>1. UNCHANGED <<load, adapter, regs, clock, stamp, phy, timer, local, hist>>
  BY DEF vars
<1>2. Typed' /\ Fitting'
  BY <1>1 DEF IInv, Typed, Fitting
<1>3. \A b \in Actors : Keeps(b) /\ Follows(b)
  BY <1>1 DEF Keeps, SameStamp, Follows, Onwards, IInv, Typed
<1> QED BY <1>1, <1>2, <1>3, StampsStay, WorldKeeps

\* Every step of an actor keeps the invariant.
LEMMA TakesKeepsIInv ==
  ASSUME IInv, NEW a \in Actors, NEW s \in Steps(a), Act(a, s)
  PROVE  IInv'
<1>1. Ready(a, s)
  BY StepIsReady
<1>2. Typed' /\ (Taken(a, s) \/ UNCHANGED vars)
  BY <1>1, ActTaken DEF Ready
<1>3. CASE Taken(a, s)
  <2>1. PICK ok \in BOOLEAN, r \in Local : Takes(a, s, ok, r)
    BY <1>3 DEF Taken
  <2>2. Placed' /\ IdleIsFree'
    BY <2>1, TakesPlaced
  <2>3. FactsHold'
    BY <2>1, TakesFacts
  <2>4. Fitting'
    BY <2>1, TakesFitting
  <2>5. Answering' /\ Attached' /\ Reading'
    BY <2>1, TakesAnswering
  <2>6. Latched'
    BY <2>1, TakesLatched
  <2> QED BY <1>2, <2>2, <2>3, <2>4, <2>5, <2>6 DEF IInv
<1>4. CASE UNCHANGED vars
  BY <1>4, StutterKeeps
<1> QED BY <1>2, <1>3, <1>4

(***************************************************************************)
(* The steps of the clock, the packets, the firmware and the miniport.     *)
(***************************************************************************)
LEMMA TickKeeps ==
  ASSUME IInv, Tick PROVE IInv'
<1>1. /\ UNCHANGED <<load, stamp, adapter, regs, phy, timer, local, hist>>
      /\ clock' = [clock EXCEPT !.time = @ + 1]
  BY DEF Tick
<1>2. Typed' /\ clock'.shadow = clock.shadow
  BY <1>1 DEF IInv, Typed
<1>3. Fitting'
  BY <1>1, <1>2 DEF IInv, Fitting
<1>4. \A b \in Actors : Keeps(b) /\ Follows(b)
  BY <1>1 DEF Keeps, SameStamp, Follows, Onwards, IInv, Typed
<1> QED BY <1>1, <1>2, <1>3, <1>4, StampsStay, WorldKeeps

LEMMA MiniportReadsClockKeeps ==
  ASSUME IInv, MiniportReadsClock PROVE IInv'
<1>1. /\ UNCHANGED <<load, stamp, adapter, regs, phy, timer, hist>>
      /\ clock' = [clock EXCEPT !.latched = clock.time]
      /\ local' = [b \in Actors |-> Disturbed(local[b])]
  BY DEF MiniportReadsClock
<1>2. \A b \in Actors : local[b] \in Local
  BY DEF IInv, Typed
<1>3. local' \in [Actors -> Local] /\ \A b \in Actors : Keeps(b)
  BY <1>1, <1>2, DisturbedIsLocal DEF Keeps, SameStamp
<1>4. /\ clock'.shadow = clock.shadow
      /\ clock' \in [time : Nat, latched : Nat, shadow : SUBSET Flags, offset : Seen]
  BY <1>1 DEF IInv, Typed
<1>5. Typed'
  BY <1>1, <1>3, <1>4 DEF IInv, Typed
<1>6. Fitting'
  BY <1>1, <1>4 DEF IInv, Fitting
<1>7. ASSUME NEW b \in Actors PROVE Follows(b)
  <2>1. local[b].halves # {} => local'[b].disturbed
    BY <1>1, <1>2, DisturbedIsLocal
  <2>2. clock'.time = clock.time /\ clock'.latched = clock.time /\ clock.time \in Nat
    BY <1>1 DEF IInv, Typed
  <2> QED BY <2>1, <2>2 DEF Follows, Onwards
<1> QED BY <1>1, <1>3, <1>5, <1>6, <1>7, StampsStay, WorldKeeps

LEMMA PacketKeeps ==
  ASSUME IInv, Packet PROVE IInv'
<1>1. UNCHANGED <<load, adapter, regs, clock, phy, timer, local, hist>>
  BY DEF Packet
<1>2. stamp' \in [packet : Nat, valid : BOOLEAN, last : Nat, handled : Nat, missed : BOOLEAN]
  <2>1. stamp \in [packet : Nat, valid : BOOLEAN, last : Nat, handled : Nat, missed : BOOLEAN]
    BY DEF IInv, Typed
  <2> DEFINE last == stamp.last + 1
             packet == IF stamp.valid THEN stamp.packet ELSE last
             missed == stamp.missed \/ stamp.valid
  <2>2. stamp' = [stamp EXCEPT !.last = last, !.valid = TRUE, !.packet = packet, !.missed = missed]
    BY DEF Packet
  <2>3. last \in Nat /\ packet \in Nat /\ missed \in BOOLEAN
    BY <2>1
  <2> HIDE DEF last, packet, missed
  <2> QED BY <2>1, <2>2, <2>3
<1>3. Typed' /\ Fitting'
  BY <1>1, <1>2 DEF IInv, Typed, Fitting
<1>4. \A b \in Actors : Keeps(b) /\ Follows(b)
  BY <1>1 DEF Keeps, SameStamp, Follows, Onwards, IInv, Typed
<1>5. /\ stamp \in [packet : Nat, valid : BOOLEAN, last : Nat, handled : Nat, missed : BOOLEAN]
      /\ stamp'.valid /\ stamp'.handled = stamp.handled /\ stamp'.last = stamp.last + 1
      /\ stamp'.packet = IF stamp.valid THEN stamp.packet ELSE stamp.last + 1
      /\ stamp'.missed <=> stamp.missed \/ stamp.valid
  BY DEF Packet, IInv, Typed
<1>6. Stamps /\ hist.stamped \in Nat /\ \A b \in Actors : local[b].stamp.low \in Nat
  BY DEF IInv, Latched, Typed, Local, Stamp
<1>7. stamp.packet <= stamp'.packet /\ (~stamp.valid => stamp.packet < stamp'.packet)
  BY <1>5, <1>6 DEF Stamps
<1>8. Stamps'
  <2>1. /\ stamp'.packet <= stamp'.last /\ stamp'.handled <= stamp'.last
        /\ hist'.stamped <= stamp'.packet
    BY <1>1, <1>5, <1>6, <1>7 DEF Stamps
  <2>2. \A c \in Actors : local'[c].stamp.low <= stamp'.packet
    BY <1>1, <1>5, <1>6, <1>7 DEF Stamps
  <2>3. load'.latch = "TX" => hist'.stamped < stamp'.packet
    BY <1>1, <1>5, <1>6, <1>7 DEF Stamps
  <2>4. load'.latch = "RX" /\ ~stamp'.missed =>
          stamp'.packet = stamp'.last /\ stamp'.last <= stamp'.handled + 1
    BY <1>1, <1>5, <1>6 DEF Stamps
  <2> QED BY <1>5, <2>1, <2>2, <2>3, <2>4 DEF Stamps
<1>9. ASSUME NEW b \in Actors, NEW kind \in OfLatch, Carries(kind, local[b].stamp)
      PROVE  Carries(kind, local[b].stamp)'
  <2> DEFINE l == local[b].stamp
  <2>1. local'[b].stamp = l /\ load' = load /\ hist' = hist
    BY <1>1
  <2>2. CASE kind = "latched"
    BY <1>5, <1>9, <2>1, <2>2 DEF Carries
  <2>3. CASE kind = "halved"
    BY <1>5, <1>9, <2>1, <2>3 DEF Carries
  <2>4. CASE kind = "stamped"
    <3>1. l.low < stamp'.packet
      BY <1>5, <1>6, <1>7, <1>9, <2>4 DEF Carries, Stamps
    <3> QED BY <1>9, <2>1, <2>4, <3>1 DEF Carries
  <2>5. CASE kind = "due"
    BY <1>5, <1>9, <2>1, <2>5 DEF Carries
  <2>6. CASE kind = "lowered"
    BY <1>5, <1>9, <2>1, <2>6 DEF Carries
  <2>7. CASE kind = "received"
    BY <1>5, <1>9, <2>1, <2>7 DEF Carries
  <2> QED BY <2>2, <2>3, <2>4, <2>5, <2>6, <2>7 DEF OfLatch
<1>10. Latched'
  BY <1>1, <1>4, <1>8, PairsStay DEF Latched
<1>11. \A b \in Actors : CarriesOn(b)
  BY <1>9 DEF CarriesOn
<1> QED BY <1>1, <1>3, <1>4, <1>10, <1>11, WorldKeeps

LEMMA FirmwareUsesPhyKeeps ==
  ASSUME IInv, FirmwareUsesPhy PROVE IInv'
<1>1. /\ UNCHANGED <<load, stamp, adapter, regs, clock, timer, local, hist>>
      /\ \E on \in BOOLEAN : phy' = [phy EXCEPT !.firmware = on]
  BY DEF FirmwareUsesPhy
<1>2. phy'.owners = phy.owners
      /\ phy' \in [bit : BOOLEAN, firmware : BOOLEAN, owners : SUBSET Actors, shared : BOOLEAN]
  BY <1>1 DEF IInv, Typed
<1>3. Typed' /\ Fitting'
  BY <1>1, <1>2 DEF IInv, Typed, Fitting
<1>4. \A b \in Actors : Keeps(b) /\ Follows(b)
  BY <1>1 DEF Keeps, SameStamp, Follows, Onwards, IInv, Typed
<1> QED BY <1>1, <1>2, <1>3, <1>4, StampsStay, WorldKeeps

LEMMA ExpireKeeps ==
  ASSUME IInv, Expire PROVE IInv'
<1>1. /\ UNCHANGED <<load, stamp, adapter, clock, phy, timer, local>>
      /\ regs' = [regs EXCEPT !["TSICR"] = @ \cup {"TT0"}]
      /\ hist' = [hist EXCEPT !.expiry = "pending", !.expiries = @ + 1]
  BY DEF Expire
<1>2. /\ Registers = {"TSAUXC", "TIMINCA", "TSICR", "TQAVCTRL"}
      /\ "TT0" \in FlagsOf["TSICR"] /\ "TT0" \in Flags
  BY DEF Registers, Flags, FlagsOf
<1>3. /\ regs' \in [Registers -> SUBSET Flags] /\ regs'["TIMINCA"] = regs["TIMINCA"]
      /\ regs'["TSAUXC"] = regs["TSAUXC"]
      /\ \A q \in Registers : regs'[q] \subseteq FlagsOf[q]
  BY <1>1, <1>2 DEF IInv, Typed, Fitting
<1>4. hist' \in [lost : BOOLEAN, halted : BOOLEAN, expiry : {"none", "pending", "told"}, expiries : Nat,
                 unreported : BOOLEAN, raced : BOOLEAN, bothmapped : BOOLEAN,
                 stamped : Nat, assumed : BOOLEAN]
  <2>1. hist \in [lost : BOOLEAN, halted : BOOLEAN, expiry : {"none", "pending", "told"},
                  expiries : Nat, unreported : BOOLEAN, raced : BOOLEAN,
                  bothmapped : BOOLEAN, stamped : Nat, assumed : BOOLEAN]
    BY DEF IInv, Typed
  <2>2. hist.expiries + 1 \in Nat
    BY <2>1
  <2> QED BY <1>1, <2>1, <2>2
<1>7. hist'.halted = hist.halted /\ hist'.lost = hist.lost /\ hist'.stamped = hist.stamped
  BY <1>1 DEF IInv, Typed
<1>5. Typed' /\ Fitting'
  BY <1>1, <1>3, <1>4 DEF IInv, Typed, Fitting
<1>6. \A b \in Actors : Keeps(b) /\ Follows(b)
  BY <1>1 DEF Keeps, SameStamp, Follows, Onwards, IInv, Typed
<1> QED BY <1>1, <1>3, <1>5, <1>6, <1>7, StampsStay, WorldKeeps

\* Where a script starts, nothing is known but what is always so.
LEMMA ScriptStarts ==
  ASSUME NEW d \in AvbGetIntelDeviceType, NEW r \in DOMAIN Programs[d]
  PROVE  LET start == Programs[d][r].start
         IN /\ start \in Nat
            /\ start # 0 => start \in DOMAIN Programs[d][r].steps /\ Facts[d][r][start] \subseteq Initially
<1> DEFINE p == Programs[d][r]
           K == Facts[d][r]
<1>1. Sound(d, r, p, K)
  BY FactsAreSound
<1> HIDE DEF p, K
<1>2. p.start # 0 => p.start \in DOMAIN p.steps /\ K[p.start] \subseteq Initially
  BY <1>1 DEF Sound
<1>3. Len(p.steps) \in Nat /\ DOMAIN p.steps = 1..Len(p.steps)
  BY <1>1 DEF Sound
<1>4. p.start \in Nat
  BY <1>2, <1>3
<1> QED BY <1>2, <1>4 DEF p, K

LEMMA InitialKinds ==
  ASSUME NEW f \in Initially
  PROVE  f[1] \in {"honest", "tells", "sure", "apart", "whole", "true", "due", "free", "fits"}
<1>1. CASE f \in {F("honest"), F("tells"), F("sure"), F("apart"), F("whole"), F("true"), F("due")}
  <2>1. \A k : F(k)[1] = k
    BY DEF F
  <2> QED BY <1>1, <2>1
<1>2. CASE f \in {"free"} \X Lent
  BY <1>2
<1>3. CASE f \in {"fits"} \X Registers
  BY <1>3
<1> QED BY <1>1, <1>2, <1>3 DEF Initially

LEMMA FreshKnows ==
  ASSUME NEW pc
  PROVE  LET l == Fresh(pc)
         IN /\ l.pc = pc /\ l.loc = {} /\ l.seen = "none" /\ l.held = {} /\ l.base = "none"
            /\ l.halves = {} /\ l.told = FALSE /\ l.stamp = NoStamp
BY DEF Fresh

LEMMA FireKeeps ==
  ASSUME IInv, Fire PROVE IInv'
<1> DEFINE start == Program("tt").start
           l == Fresh(start)
<1>1. /\ UNCHANGED <<load, stamp, adapter, regs, clock, phy, timer, hist>>
      /\ local' = [local EXCEPT !["tt"] = l] /\ ~Busy("tt")
  BY DEF Fire, DpcDone
<1>2. /\ "tt" \in Actors /\ start \in Nat
      /\ start # 0 => /\ start \in DOMAIN Program("tt").steps
                      /\ Facts[load.device][load.runs["tt"]][start] \subseteq Initially
  <2>1. "tt" \in Actors
    BY DEF Actors
  <2>2. load.device \in AvbGetIntelDeviceType /\ load.runs["tt"] \in DOMAIN Programs[load.device]
    BY <2>1, LoadFacts DEF IInv
  <2> QED BY <2>1, <2>2, ScriptStarts DEF Program
<1>3. /\ l \in Local /\ l.pc = start /\ l.loc = {} /\ l.seen = "none" /\ l.held = {}
      /\ l.halves = {} /\ l.stamp = NoStamp
  BY <1>2, FreshIsLocal, FreshKnows
<1> HIDE DEF l, start
<1>4. local' \in [Actors -> Local] /\ local'["tt"] = l /\ \A b \in Actors \ {"tt"} : local'[b] = local[b]
  BY <1>1, <1>2, <1>3 DEF IInv, Typed
<1>5. Typed'
  BY <1>1, <1>4 DEF IInv, Typed
<1>6. Fitting' /\ Answering' /\ Attached' /\ Reading'
  BY <1>1, <1>3, <1>4 DEF IInv, Fitting, Answering, Attached, Reading, Mapped_
<1>7. "tt" \notin phy.owners
  BY <1>1, <1>2 DEF IInv, IdleIsFree
<1>8. \A b \in Actors : Program(b)' = Program(b)
  BY <1>1 DEF Program
<1>9. Placed'
  <2>1. ASSUME NEW b \in Actors, Busy(b)' PROVE local'[b].pc \in DOMAIN Program(b).steps
    <3>1. CASE b = "tt"
      BY <1>2, <1>3, <1>4, <2>1, <3>1 DEF Busy
    <3>2. CASE b # "tt"
      BY <1>4, <2>1, <3>2 DEF Busy, IInv, Placed
    <3> QED BY <3>1, <3>2
  <2> QED BY <1>8, <2>1 DEF Placed
<1>10. IdleIsFree'
  <2>1. ASSUME NEW b \in Actors, ~Busy(b)' PROVE local'[b].held = {} /\ b \notin phy'.owners
    <3>1. CASE b = "tt"
      BY <1>1, <1>3, <1>4, <1>7, <3>1
    <3>2. CASE b # "tt"
      BY <1>1, <1>4, <2>1, <3>2 DEF Busy, IInv, IdleIsFree
    <3> QED BY <3>1, <3>2
  <2> QED BY <2>1 DEF IdleIsFree
<1>11. ASSUME NEW b \in Actors, Busy(b)', NEW f \in Known(b)'
       PROVE  Means(f, b)'
  <2>1. CASE b = "tt"
    <3>1. f \in Initially
      BY <1>1, <1>2, <1>3, <1>4, <1>11, <2>1 DEF Busy, Known
    <3>2. f[1] \in {"honest", "tells", "sure", "apart", "whole", "true", "due", "free", "fits"}
      BY <3>1, InitialKinds
    <3>3. CASE f[1] = "due"
      BY <1>1, <1>3, <1>4, <2>1, <3>3 DEF Means, OfLatch, Carries, NoStamp
    <3>4. CASE f[1] # "due"
      BY <1>1, <1>3, <1>4, <1>7, <2>1, <3>2, <3>4 DEF Means, OfReading, Stands, OfLatch
    <3> QED BY <3>3, <3>4
  <2>2. CASE b # "tt"
    <3>1. Busy(b) /\ f \in Known(b)
      BY <1>1, <1>4, <1>11, <2>2 DEF Busy, Known
    <3>2. Means(f, b)
      BY <3>1 DEF IInv, FactsHold
    <3>3. local'[b] = local[b]
      BY <1>4, <2>2
    <3>4. CASE f[1] = "started"
      <4>1. Owed => Owed'
        BY <1>1, <1>4 DEF Owed, Busy, Known
      <4> QED BY <1>1, <3>2, <3>4, <4>1 DEF Means, Started, Mapped_
    <3>5. CASE f[1] \notin {"started"} \cup OfLatch
      BY <1>1, <3>2, <3>3, <3>5 DEF Means, Stands, Spans, Current
    <3>6. CASE f[1] \in OfLatch
      <4>1. SameStamp(local'[b].stamp, local[b].stamp) /\ Carries(f[1], local[b].stamp)
        BY <3>2, <3>3, <3>6 DEF SameStamp, Means, OfLatch
      <4>2. Carries(f[1], local[b].stamp)'
        BY <1>1, <3>6, <4>1, CarriesStays DEF IInv
      <4> QED BY <3>6, <4>2 DEF Means, OfLatch
    <3> QED BY <3>4, <3>5, <3>6
  <2> QED BY <2>1, <2>2
<1>12. FactsHold'
  BY <1>11 DEF FactsHold
<1>13. local'["tt"].stamp.low = 0 /\ local'["tt"].stamp.of = 0
  BY <1>3, <1>4 DEF NoStamp
<1>14. ASSUME NEW b \in Actors \ {"tt"}, NEW kind
       PROVE  (Knows(b, kind)' <=> Knows(b, kind)) /\ local'[b] = local[b]
  BY <1>1, <1>4, KnowsStays
<1>15. ~Knows("tt", "stamped")'
  <2>1. ASSUME Busy("tt")', NEW f \in Known("tt")' PROVE f[1] # "stamped"
    <3>1. f \in Initially
      BY <1>1, <1>2, <1>3, <1>4, <2>1 DEF Busy, Known
    <3> QED BY <3>1, InitialKinds
  <2> QED BY <2>1 DEF Knows
<1>16. Stamps'
  <2>1. \A c \in Actors : local'[c].stamp.low <= stamp'.packet
    BY <1>1, <1>4, <1>13 DEF IInv, Latched, Stamps, Typed
  <2> QED BY <1>1, <2>1 DEF IInv, Latched, Stamps
<1>17. Newest'
  BY <1>14, <1>15 DEF IInv, Latched, Newest
<1>18. Single'
  <2>1. ASSUME NEW b \in Actors, NEW c \in Actors, b # c, Knows(b, "due")', Knows(c, "due")',
               local'[b].stamp.of # 0
        PROVE  local'[c].stamp.of # local'[b].stamp.of
    <3>1. b # "tt"
      BY <1>13, <2>1
    <3>2. CASE c = "tt"
      BY <1>13, <2>1, <3>2
    <3>3. CASE c # "tt"
      BY <1>14, <2>1, <3>1, <3>3 DEF IInv, Latched, Single
    <3> QED BY <3>2, <3>3
  <2> QED BY <2>1 DEF Single
<1>19. Latched'
  BY <1>16, <1>17, <1>18 DEF Latched
<1> QED BY <1>5, <1>6, <1>9, <1>10, <1>12, <1>19 DEF IInv

LEMMA InitIInv ==
  ASSUME Init PROVE IInv
<1> DEFINE pc(a) == IF a = "tt" THEN 0 ELSE Program(a).start
<1>1. load \in Workloads
  BY DEF Init
<1>2. load.start \in {"BOUND", "BAR_MAPPED", "PTP_READY"}
  <2>1. load.start \in {States[i] : i \in DOMAIN States}
    BY <1>1, WorkloadsAssumption
  <2> QED BY <2>1 DEF States
<1>3. adapter = [state |-> load.start, mapped |-> load.start # "BOUND", private |-> load.start # "BOUND",
                 initialized |-> load.start # "BOUND", access |-> load.start # "BOUND",
                 mmio |-> load.start # "BOUND", leaked |-> FALSE]
  BY DEF Init, Start
<1>4. /\ adapter \in [state : {"BOUND", "BAR_MAPPED", "PTP_READY"}, mapped : BOOLEAN,
                  private : BOOLEAN, initialized : BOOLEAN, access : BOOLEAN,
                  mmio : BOOLEAN, leaked : BOOLEAN]
      /\ Answering /\ Attached
  BY <1>2, <1>3 DEF Answering, Attached, Mapped_
<1>5. /\ Registers = {"TSAUXC", "TIMINCA", "TSICR", "TQAVCTRL"}
      /\ "DISABLE" \in FlagsOf["TSAUXC"] /\ "RATE" \in FlagsOf["TIMINCA"]
  BY DEF Registers, FlagsOf
<1>6. \A q \in Registers : regs[q] \subseteq FlagsOf[q] /\ regs[q] \in SUBSET Flags
  <2>1. \A q \in Registers : regs[q] \subseteq FlagsOf[q]
    BY <1>5 DEF Init, Start
  <2> QED BY <2>1 DEF Flags
<1>7. regs \in [Registers -> SUBSET Flags]
  <2>1. DOMAIN regs = Registers /\ regs = [q \in Registers |-> regs[q]]
    BY DEF Init, Start
  <2> QED BY <1>6, <2>1
<1>8. clock \in [time : Nat, latched : Nat, shadow : SUBSET Flags, offset : Seen] /\ clock.shadow = {}
  BY DEF Init, Seen
<1>9. /\ stamp \in [packet : Nat, valid : BOOLEAN, last : Nat, handled : Nat, missed : BOOLEAN]
      /\ phy \in [bit : BOOLEAN, firmware : BOOLEAN, owners : SUBSET Actors, shared : BOOLEAN]
      /\ phy.owners = {} /\ timer \in [armed : BOOLEAN, flag : BOOLEAN]
  BY DEF Init
<1>10. hist \in [lost : BOOLEAN, halted : BOOLEAN, expiry : {"none", "pending", "told"}, expiries : Nat,
                 unreported : BOOLEAN, raced : BOOLEAN, bothmapped : BOOLEAN,
                 stamped : Nat, assumed : BOOLEAN]
  BY DEF Init
<1>11. ASSUME NEW a \in Actors
       PROVE  /\ pc(a) \in Nat
              /\ pc(a) # 0 => /\ pc(a) \in DOMAIN Program(a).steps
                              /\ Facts[load.device][load.runs[a]][pc(a)] \subseteq Initially
  <2>1. load.device \in AvbGetIntelDeviceType /\ load.runs[a] \in DOMAIN Programs[load.device]
    BY <1>1, LoadRuns
  <2> QED BY <2>1, ScriptStarts DEF Program
<1>12. \A a \in Actors : local[a] = Fresh(pc(a))
  BY DEF Init
<1> HIDE DEF pc
<1>13. local \in [Actors -> Local]
  <2>1. local = [a \in Actors |-> local[a]]
    BY DEF Init
  <2> QED BY <1>11, <1>12, <2>1, FreshIsLocal
<1>14. Typed /\ Fitting
  BY <1>1, <1>4, <1>6, <1>7, <1>8, <1>9, <1>10, <1>13 DEF Typed, Fitting
<1>15. ASSUME NEW a \in Actors
       PROVE  /\ local[a].pc = pc(a) /\ local[a].loc = {} /\ local[a].seen = "none"
              /\ local[a].held = {} /\ local[a].halves = {} /\ a \notin phy.owners
              /\ local[a].stamp = NoStamp
  <2>1. local[a] = Fresh(pc(a)) /\ a \notin phy.owners
    BY <1>9, <1>12
  <2> DEFINE n == pc(a)
  <2>2. /\ Fresh(n).pc = n /\ Fresh(n).loc = {} /\ Fresh(n).seen = "none" /\ Fresh(n).held = {}
        /\ Fresh(n).halves = {} /\ Fresh(n).stamp = NoStamp
    BY FreshKnows
  <2> QED BY <2>1, <2>2
<1>16. Placed /\ IdleIsFree /\ Reading
  BY <1>11, <1>15 DEF Placed, IdleIsFree, Reading, Busy
<1>17. ASSUME NEW a \in Actors, Busy(a), NEW f \in Known(a)
       PROVE  Means(f, a)
  <2>1. f \in Initially
    BY <1>11, <1>15, <1>17 DEF Busy, Known
  <2>2. f[1] \in {"honest", "tells", "sure", "apart", "whole", "true", "due", "free", "fits"}
    BY <2>1, InitialKinds
  <2>3. CASE f[1] = "due"
    BY <1>15, <2>3 DEF Means, OfLatch, Carries, NoStamp
  <2>4. CASE f[1] # "due"
    BY <1>15, <2>2, <2>4 DEF Means, OfReading, Stands, OfLatch
  <2> QED BY <2>3, <2>4
<1>18. FactsHold
  BY <1>17 DEF FactsHold
<1>19. Latched
  <2>1. /\ stamp = [packet |-> 0, valid |-> FALSE, last |-> 0, handled |-> 0, missed |-> FALSE]
        /\ hist.stamped = 0
    BY DEF Init
  <2>2. \A a \in Actors : local[a].stamp.low = 0 /\ local[a].stamp.of = 0
    BY <1>15 DEF NoStamp
  <2>3. Stamps
    BY <2>1, <2>2 DEF Stamps
  <2>4. ASSUME NEW a \in Actors PROVE ~Knows(a, "stamped")
    <3>1. ASSUME Busy(a), NEW f \in Known(a) PROVE f[1] # "stamped"
      <4>1. f \in Initially
        BY <1>11, <1>15, <3>1 DEF Busy, Known
      <4> QED BY <4>1, InitialKinds
    <3> QED BY <3>1 DEF Knows
  <2>5. Newest /\ Single
    BY <2>2, <2>4 DEF Newest, Single
  <2> QED BY <2>3, <2>5 DEF Latched
<1> QED BY <1>4, <1>14, <1>16, <1>18, <1>19 DEF IInv

LEMMA NextIInv ==
  ASSUME IInv, [Next]_vars PROVE IInv'
<1>1. ASSUME NEW a \in Turn, NEW s \in Steps(a), Act(a, s) PROVE IInv'
  <2>1. a \in Actors
    <3>1. HiddenActors \subseteq Actors
      BY DEF HiddenActors
    <3> QED BY <3>1 DEF Turn
  <2> QED BY <1>1, <2>1, TakesKeepsIInv
<1>2. CASE Tick \/ MiniportReadsClock \/ Packet \/ FirmwareUsesPhy \/ Expire \/ Fire
  BY <1>2, TickKeeps, MiniportReadsClockKeeps, PacketKeeps, FirmwareUsesPhyKeeps, ExpireKeeps,
     FireKeeps
<1>3. CASE UNCHANGED vars
  BY <1>3, StutterKeeps
<1>4. Next => \/ \E a \in Turn : \E s \in Steps(a) : Act(a, s)
              \/ Tick \/ MiniportReadsClock \/ Packet \/ FirmwareUsesPhy \/ Expire \/ Fire
              \/ UNCHANGED vars
  BY DEF Next, Act, Finished
<1> QED BY <1>1, <1>2, <1>3, <1>4

LEMMA Invariance == Spec => []IInv
<1>1. Init => IInv
  BY InitIInv
<1>2. IInv /\ [Next]_vars => IInv'
  BY NextIInv
<1> QED BY <1>1, <1>2, PTL DEF Spec

\* Each step is taken by somebody, or by the world.
World == Tick \/ MiniportReadsClock \/ Packet \/ FirmwareUsesPhy \/ Expire \/ Fire

LEMMA Stepwise ==
  ASSUME IInv, [Next]_vars
  PROVE  \/ \E a \in Actors : \E s \in Steps(a) : \E ok \in BOOLEAN : \E r \in Local :
              Takes(a, s, ok, r) /\ Act(a, s)
         \/ World \/ UNCHANGED vars
<1>1. ASSUME NEW a \in Turn, NEW s \in Steps(a), Act(a, s)
      PROVE  \/ \E b \in Actors : \E q \in Steps(b) : \E ok \in BOOLEAN : \E r \in Local :
                  Takes(b, q, ok, r) /\ Act(b, q)
             \/ UNCHANGED vars
  <2>1. a \in Actors
    <3>1. HiddenActors \subseteq Actors
      BY DEF HiddenActors
    <3> QED BY <3>1 DEF Turn
  <2>2. Ready(a, s)
    BY <2>1, StepIsReady
  <2>3. Taken(a, s) \/ UNCHANGED vars
    BY <1>1, <2>1, <2>2, ActTaken DEF Ready
  <2> QED BY <1>1, <2>1, <2>3 DEF Taken
<1>2. Next => \/ \E a \in Turn : \E s \in Steps(a) : Act(a, s)
              \/ World \/ UNCHANGED vars
  BY DEF Next, Act, Finished, World
<1> QED BY <1>1, <1>2

LEMMA WorldLeaves ==
  ASSUME Typed, World
  PROVE  /\ UNCHANGED <<load, adapter>> /\ phy'.bit = phy.bit /\ phy'.owners = phy.owners
         /\ phy'.shared = phy.shared /\ timer' = timer /\ hist'.raced = hist.raced
         /\ hist'.bothmapped = hist.bothmapped /\ hist'.unreported = hist.unreported
         /\ clock'.offset = clock.offset
<1>1. CASE Tick
  BY <1>1 DEF Tick, Typed
<1>2. CASE MiniportReadsClock
  BY <1>2 DEF MiniportReadsClock, Typed
<1>3. CASE Packet
  BY <1>3 DEF Packet
<1>4. CASE FirmwareUsesPhy
  <2>1. /\ UNCHANGED <<load, stamp, adapter, regs, clock, timer, local, hist>>
        /\ \E on \in BOOLEAN : phy' = [phy EXCEPT !.firmware = on]
    BY <1>4 DEF FirmwareUsesPhy
  <2> QED BY <2>1 DEF Typed
<1>5. CASE Expire
  BY <1>5 DEF Expire, Typed
<1>6. CASE Fire
  BY <1>6 DEF Fire
<1> QED BY <1>1, <1>2, <1>3, <1>4, <1>5, <1>6 DEF World

LEMMA WorldLeavesTheClock ==
  ASSUME Typed, World
  PROVE  /\ regs'["TSAUXC"] = regs["TSAUXC"] /\ regs'["TIMINCA"] = regs["TIMINCA"]
         /\ hist'.halted = hist.halted /\ hist'.lost = hist.lost /\ hist'.assumed = hist.assumed
         /\ \A b \in Actors : Busy(b) => local'[b].pc = local[b].pc
<1>1. CASE Tick
  BY <1>1 DEF Tick
<1>2. CASE MiniportReadsClock
  <2>1. /\ UNCHANGED <<regs, hist>> /\ local' = [b \in Actors |-> Disturbed(local[b])]
        /\ local \in [Actors -> Local]
    BY <1>2 DEF MiniportReadsClock, Typed
  <2>2. \A b \in Actors : local'[b].pc = local[b].pc
    BY <2>1, DisturbedIsLocal
  <2> QED BY <2>1, <2>2
<1>3. CASE Packet
  BY <1>3 DEF Packet
<1>4. CASE FirmwareUsesPhy
  BY <1>4 DEF FirmwareUsesPhy
<1>5. CASE Expire
  <2>1. /\ UNCHANGED local /\ regs' = [regs EXCEPT !["TSICR"] = @ \cup {"TT0"}]
        /\ hist' = [hist EXCEPT !.expiry = "pending", !.expiries = @ + 1]
    BY <1>5 DEF Expire
  <2>2. {"TSAUXC", "TIMINCA", "TSICR"} \subseteq Registers
    BY DEF Registers, FlagsOf
  <2> QED BY <2>1, <2>2 DEF Typed
<1>6. CASE Fire
  <2>1. /\ UNCHANGED <<regs, hist>> /\ ~Busy("tt")
        /\ local' = [local EXCEPT !["tt"] = Fresh(Program("tt").start)]
    BY <1>6 DEF Fire, DpcDone
  <2>2. \A b \in Actors : Busy(b) => local'[b] = local[b]
    BY <2>1 DEF Typed
  <2> QED BY <2>1, <2>2
<1> QED BY <1>1, <1>2, <1>3, <1>4, <1>5, <1>6 DEF World

\* A packet's timestamp is reported whole, a sent one once, a received one
\* with its message, unless another reader was at the registers meanwhile.
THEOREM StampsAreWholeAlways == Spec => []StampsAreWhole
<1>1. ASSUME IInv, NEW a \in Actors, NEW s \in Steps(a), ~local[a].stamp.shared
      PROVE  LET m == local[a].stamp
             IN CASE s.op \in {"post stamp", "answer stamp"} -> m.low = m.high /\ m.low > hist.stamped
                  [] s.op = "answer receipt" -> m.empty \/ m.low = m.high
                  [] s.op = "post receipt" -> stamp.missed \/ (m.low = m.of /\ m.high = m.of)
                  [] OTHER -> TRUE
  <2>1. Ready(a, s) /\ hist.stamped \in Nat /\ local[a].stamp.low \in Nat
    BY <1>1, StepIsReady DEF IInv, Typed, Local, Stamp
  <2> DEFINE m == local[a].stamp
  <2>2. CASE s.op \in {"post stamp", "answer stamp"}
    <3>1. Carries("stamped", m)
      BY <2>1, <2>2, StampNeeded
    <3>2. m.low = m.high /\ hist.stamped < m.low
      BY <1>1, <3>1 DEF Carries
    <3>3. m.low > hist.stamped
      BY <2>1, <3>2
    <3> QED BY <2>2, <3>2, <3>3
  <2>3. CASE s.op \in {"answer receipt", "post receipt"}
    <3>1. Carries("received", m)
      BY <2>1, <2>3, StampNeeded
    <3> QED BY <1>1, <2>3, <3>1 DEF Carries
  <2> QED BY <2>2, <2>3
<1>2. IInv => StampsAreWhole
  BY <1>1 DEF StampsAreWhole
<1> QED BY <1>2, Invariance, PTL

\* What is lent to the driver is taken once, used and given back while held,
\* and given back by the end.
THEOREM BorrowedIsReturnedAlways == Spec => []BorrowedIsReturned
<1>1. ASSUME IInv, NEW a \in Actors
      PROVE  /\ Busy(a) \/ local[a].held = {}
             /\ \A s \in Steps(a) :
                  /\ s.op = "take" => s.reg \notin local[a].held
                  /\ s.op \in {"use", "give"} => s.reg \in local[a].held
  <2>1. Busy(a) \/ local[a].held = {}
    BY <1>1 DEF IInv, IdleIsFree
  <2>2. ASSUME NEW s \in Steps(a), s.op = "take" PROVE s.reg \notin local[a].held
    <3>1. Ready(a, s)
      BY <1>1, StepIsReady
    <3>2. <<"free", s.reg>> \in Needs(load.device, s)
      BY <2>2 DEF Needs
    <3>3. Means(<<"free", s.reg>>, a)
      BY <3>1, <3>2 DEF Ready
    <3> QED BY <3>3 DEF Means
  <2>3. ASSUME NEW s \in Steps(a), s.op \in {"use", "give"} PROVE s.reg \in local[a].held
    <3>1. Ready(a, s)
      BY <1>1, StepIsReady
    <3>2. <<"held", s.reg>> \in Needs(load.device, s)
      BY <2>3 DEF Needs
    <3>3. Means(<<"held", s.reg>>, a)
      BY <3>1, <3>2 DEF Ready
    <3> QED BY <3>3 DEF Means
  <2> QED BY <2>1, <2>2, <2>3
<1>2. IInv => BorrowedIsReturned
  BY <1>1 DEF BorrowedIsReturned
<1> QED BY <1>2, Invariance, PTL

(***************************************************************************)
(* The clock, read.                                                        *)
(***************************************************************************)
\* A time is answered with only where the reading stands as true: it is one
\* the clock had while it was read, or another reader moved the latch or
\* another request set the clock in between; on the I219 it is one the clock
\* had even then (a disturbed reading there is judged torn: see Judged).
THEOREM ReadsAreTimesAlways == Spec => []ReadsAreTimes
<1>1. ASSUME IInv, NEW a \in Actors, NEW s \in Steps(a), s.op = "answer time"
      PROVE  local[a].seen # "torn"
  <2>1. Ready(a, s)
    BY <1>1, StepIsReady
  <2>2. F("true") \in Needs(load.device, s)
    BY <1>1 DEF Needs
  <2>3. Means(F("true"), a)
    BY <2>1, <2>2 DEF Ready
  <2> QED BY <2>3 DEF Means, F, Stands, OfLatch
<1>2. IInv => ReadsAreTimes
  BY <1>1 DEF ReadsAreTimes
<1> QED BY <1>2, Invariance, PTL

(***************************************************************************)
(* The mapping.                                                            *)
(***************************************************************************)
LEMMA MatchingTaken ==
  ASSUME IInv, StateMatchesMapping, NEW a \in Actors, NEW s \in Steps(a), NEW ok \in BOOLEAN,
         NEW r \in Local, Takes(a, s, ok, r)
  PROVE  StateMatchesMapping'
<1>1. Ready(a, s) /\ OnAdapter(a, s, ok)
  BY StepIsReady DEF Takes, Effects
<1>2. adapter'.state = "BAR_MAPPED" => adapter'.mapped
  <2>1. CASE s.op \in {"usable", "rebound"}
    <3>1. F("registers") \in Needs(load.device, s)
      BY <2>1 DEF Needs
    <3>2. Means(F("registers"), a)
      BY <1>1, <3>1 DEF Ready
    <3> QED BY <1>1, <3>2 DEF Means, F, OnAdapter
  <2>2. CASE s.op \notin {"usable", "rebound"}
    BY <1>1, <2>2 DEF OnAdapter, StateMatchesMapping
  <2> QED BY <2>1, <2>2
<1>3. adapter'.leaked => hist'.bothmapped
  <2>1. CASE s.op = "map" /\ ok /\ adapter.mapped
    <3>1. F("unmapped") \in Needs(load.device, s)
      BY <2>1 DEF Needs
    <3>2. Means(F("unmapped"), a)
      BY <1>1, <3>1 DEF Ready
    <3>3. local[a].behind
      BY <2>1, <3>2 DEF Means, F
    <3> QED BY <1>1, <2>1, <3>3 DEF OnAdapter
  <2>2. CASE ~(s.op = "map" /\ ok /\ adapter.mapped)
    BY <1>1, <2>2 DEF OnAdapter, StateMatchesMapping
  <2> QED BY <2>1, <2>2
<1> QED BY <1>2, <1>3 DEF StateMatchesMapping

\* BAR_MAPPED is said only of an adapter with registers, and a mapping is
\* replaced only where two requests found none at once.
THEOREM StateMatchesMappingAlways == Spec => []StateMatchesMapping
<1>1. Init => StateMatchesMapping
  <2>1. Init => adapter = [state |-> load.start, mapped |-> load.start # "BOUND",
                           private |-> load.start # "BOUND", initialized |-> load.start # "BOUND",
                           access |-> load.start # "BOUND", mmio |-> load.start # "BOUND",
                           leaked |-> FALSE]
    BY DEF Init, Start
  <2>2. Init => ~adapter.leaked /\ adapter.state = load.start /\ adapter.mapped = (load.start # "BOUND")
    BY <2>1
  <2> QED BY <2>2 DEF StateMatchesMapping
<1>2. ASSUME IInv, StateMatchesMapping, [Next]_vars
      PROVE  StateMatchesMapping'
  <2>1. CASE World
    BY <1>2, <2>1, WorldLeaves DEF IInv, StateMatchesMapping
  <2>2. CASE UNCHANGED vars
    BY <1>2, <2>2 DEF vars, StateMatchesMapping
  <2> QED BY <1>2, <2>1, <2>2, Stepwise, MatchingTaken
<1> QED BY <1>1, <1>2, Invariance, PTL DEF Spec

(***************************************************************************)
(* The expiries of the target time.                                        *)
(***************************************************************************)
LEMMA ReportedTaken ==
  ASSUME IInv, ExpiryIsReported, NEW a \in Actors, NEW s \in Steps(a), NEW ok \in BOOLEAN,
         NEW r \in Local, Takes(a, s, ok, r)
  PROVE  ExpiryIsReported'
<1>1. Ready(a, s) /\ OnHistory(a, s, ok)
  BY StepIsReady DEF Takes, Effects
<1>2. CASE s.op = "clear"
  <2>1. F("told") \in Needs(load.device, s)
    BY <1>2 DEF Needs
  <2>2. Means(F("told"), a)
    BY <1>1, <2>1 DEF Ready
  <2>3. local[a].told
    BY <2>2 DEF Means, F
  <2> QED BY <1>1, <2>3 DEF OnHistory, ExpiryIsReported
<1>3. CASE s.op # "clear"
  BY <1>1, <1>3 DEF OnHistory, ExpiryIsReported
<1> QED BY <1>2, <1>3

\* No expiry is cleared from TSICR before somebody was told of it.
THEOREM ExpiryIsReportedAlways == Spec => []ExpiryIsReported
<1>1. Init => ExpiryIsReported
  BY DEF Init, ExpiryIsReported
<1>2. ASSUME IInv, ExpiryIsReported, [Next]_vars
      PROVE  ExpiryIsReported'
  <2>1. CASE World
    BY <1>2, <2>1, WorldLeaves DEF IInv, ExpiryIsReported
  <2>2. CASE UNCHANGED vars
    BY <1>2, <2>2 DEF vars, ExpiryIsReported
  <2> QED BY <1>2, <2>1, <2>2, Stepwise, ReportedTaken
<1> QED BY <1>1, <1>2, Invariance, PTL DEF Spec

(***************************************************************************)
(* The types.                                                              *)
(***************************************************************************)
Timely == clock.time \in 0..MaxTime /\ clock.offset # "unsure"

LEMMA TimelyTaken ==
  ASSUME IInv, Timely, NEW a \in Actors, NEW s \in Steps(a), NEW ok \in BOOLEAN,
         NEW r \in Local, Takes(a, s, ok, r)
  PROVE  Timely'
<1>1. Ready(a, s) /\ OnClock(a, s, ok)
  BY StepIsReady DEF Takes, Effects
<1>2. clock.time \in Nat /\ clock.time <= MaxTime /\ MaxTime \in Nat
  BY BoundsAssumption DEF IInv, Typed, Timely
<1>3. /\ Low(clock.time) \in Nat /\ Low(clock.time) <= clock.time
      /\ clock.time - Low(clock.time) \in Nat
  BY <1>2, Halves
<1>4. clock'.time \in {clock.time, Low(clock.time), clock.time - Low(clock.time)}
  BY <1>1 DEF OnClock
<1>5. clock'.time \in 0..MaxTime
  BY <1>2, <1>3, <1>4
<1>6. clock'.offset # "unsure"
  <2>1. CASE s.op = "offset"
    <3>1. F("sure") \in Needs(load.device, s)
      BY <2>1 DEF Needs
    <3>2. Means(F("sure"), a)
      BY <1>1, <3>1 DEF Ready
    <3>3. local[a].seen # "unsure"
      BY <3>2 DEF Means, F
    <3> QED BY <1>1, <2>1, <3>3 DEF OnClock
  <2>2. CASE s.op # "offset"
    BY <1>1, <2>2 DEF OnClock, Timely
  <2> QED BY <2>1, <2>2
<1> QED BY <1>5, <1>6 DEF Timely

LEMMA TimelyAlways == Spec => []Timely
<1>1. Init => Timely
  BY BoundsAssumption DEF Init, Timely
<1>2. ASSUME IInv, Timely, [Next]_vars
      PROVE  Timely'
  <2>1. CASE World
    <3>1. clock'.offset # "unsure"
      BY <1>2, <2>1, WorldLeaves DEF IInv, Timely
    <3>2. clock'.time \in 0..MaxTime
      <4>1. CASE Tick
        BY <1>2, <4>1, BoundsAssumption DEF Tick, IInv, Typed, Timely
      <4>2. CASE MiniportReadsClock
        BY <1>2, <4>2 DEF MiniportReadsClock, IInv, Typed, Timely
      <4>3. CASE UNCHANGED clock
        BY <1>2, <4>3 DEF Timely
      <4> QED BY <2>1, <4>1, <4>2, <4>3 DEF World, Packet, FirmwareUsesPhy, Expire, Fire
    <3> QED BY <3>1, <3>2 DEF Timely
  <2>2. CASE UNCHANGED vars
    BY <1>2, <2>2 DEF vars, Timely
  <2> QED BY <1>2, <2>1, <2>2, Stepwise, TimelyTaken
<1> QED BY <1>1, <1>2, Invariance, PTL DEF Spec

(***************************************************************************)
(* The PHY.                                                                *)
(***************************************************************************)
Confirming(b) == Busy(b) /\ Program(b).steps[local[b].pc].op = "confirm"

PhyInv ==
  /\ phy.firmware => load.firmware /\ ~phy.bit
  /\ phy.bit => Mapped_
  /\ phy.owners \subseteq Threads
  /\ ~phy.shared => /\ \A b, c \in phy.owners : b = c
                    /\ phy.owners # {} => phy.bit
                    /\ phy.bit => phy.owners # {} \/ \E b \in Actors : Confirming(b)

LEMMA OneOwner ==
  ASSUME NEW S \in SUBSET Actors, ~(Cardinality(S) > 1)
  PROVE  \A b, c \in S : b = c
<1>1. IsFiniteSet(Actors)
  <2>1. Actors = Threads \cup {"tt", "poll", "stop"}
    BY DEF Actors
  <2>2. IsFiniteSet({}) /\ \A X, x : IsFiniteSet(X) => IsFiniteSet(X \cup {x})
    BY FS_EmptySet, FS_AddElement
  <2>3. Actors = ((((({} \cup {"t1"}) \cup {"t2"}) \cup {"tt"}) \cup {"poll"}) \cup {"stop"})
    BY DEF Actors, Threads
  <2> QED BY <2>2, <2>3
<1>2. IsFiniteSet(S) /\ Cardinality(S) \in Nat
  BY <1>1, FS_Subset, FS_CardinalityType
<1>3. Cardinality(S) = 0 \/ Cardinality(S) = 1
  BY <1>2
<1>4. CASE Cardinality(S) = 0
  BY <1>2, <1>4, FS_EmptySet
<1>5. CASE Cardinality(S) = 1
  <2>1. \E x : S = {x}
    BY <1>2, <1>5, FS_Singleton
  <2> QED BY <2>1
<1> QED BY <1>3, <1>4, <1>5

LEMMA PhyTaken ==
  ASSUME IInv, PhyInv, Typed', NEW a \in Actors, NEW s \in Steps(a), NEW ok \in BOOLEAN,
         NEW r \in Local, Takes(a, s, ok, r)
  PROVE  PhyInv'
<1>0. /\ phy \in [bit : BOOLEAN, firmware : BOOLEAN, owners : SUBSET Actors, shared : BOOLEAN]
      /\ phy' \in [bit : BOOLEAN, firmware : BOOLEAN, owners : SUBSET Actors, shared : BOOLEAN]
  BY DEF IInv, Typed
<1>1. /\ Ready(a, s) /\ OnPhy(a, s, ok) /\ OnAdapter(a, s, ok) /\ load' = load /\ Outcome(a, s, ok)
      /\ WellFormed(load.device, load.runs[a], Program(a), s)
  BY StepIsReady DEF Takes, Effects, Ready
<1>2. Mapped_ => Mapped_'
  BY <1>1 DEF OnAdapter, Mapped_
<1>3. s.op = "grab" => (ok <=> Mapped_)
  BY <1>1 DEF Outcome, Accesses
<1>4. s.op = "release" => ok /\ a \in phy.owners
  <2>1. ASSUME s.op = "release" PROVE ok /\ a \in phy.owners
    <3>1. {F("owner"), F("private"), F("registers")} \subseteq Needs(load.device, s)
      BY <2>1 DEF Needs, Reached
    <3>2. Means(F("owner"), a) /\ Means(F("private"), a) /\ Means(F("registers"), a)
      BY <1>1, <3>1 DEF Ready
    <3>3. a \in phy.owners /\ adapter.private /\ adapter.mapped
      BY <3>2 DEF Means, F
    <3> QED BY <1>1, <2>1, <3>3 DEF Outcome, Accesses, Mapped_
  <2> QED BY <2>1
<1>5. ASSUME s.op = "confirm" PROVE a \in Threads
  <2>1. load.runs[a] \notin NoRequests
    BY <1>1, <1>5 DEF WellFormed
  <2> QED BY <2>1, LoadFacts DEF IInv, Actors, NoRequests
<1>6. phy'.firmware => load'.firmware /\ ~phy'.bit
  BY <1>0, <1>1 DEF OnPhy, PhyInv
<1>7. phy'.bit => Mapped_'
  BY <1>0, <1>1, <1>2, <1>3 DEF OnPhy, PhyInv
<1>8. phy'.owners \subseteq Threads
  BY <1>0, <1>1, <1>5 DEF OnPhy, PhyInv
<1>9. ASSUME ~phy'.shared
      PROVE  /\ \A b, c \in phy'.owners : b = c
             /\ phy'.owners # {} => phy'.bit
             /\ phy'.bit => phy'.owners # {} \/ \E b \in Actors : Confirming(b)'
  <2>0. /\ ~phy.shared /\ \A b, c \in phy.owners : b = c
        /\ phy.owners # {} => phy.bit
        /\ phy.bit => phy.owners # {} \/ \E b \in Actors : Confirming(b)
    BY <1>1, <1>9 DEF OnPhy, PhyInv
  <2>1. ASSUME NEW b \in Actors \ {a}, Confirming(b) PROVE Confirming(b)'
    <3>1. local'[b].pc = local[b].pc
      BY DEF Takes, Moves, Keeps
    <3>2. Program(b)' = Program(b)
      BY <1>1 DEF Program
    <3> QED BY <2>1, <3>1, <3>2 DEF Confirming, Busy
  <2>2. s = Program(a).steps[local[a].pc] /\ Busy(a) /\ local'[a].pc = Target(s, ok)
    BY WhereItGoes
  <2>3. CASE s.op = "confirm"
    <3>1. ~(Cardinality(phy'.owners) > 1)
      BY <1>1, <1>9, <2>3 DEF OnPhy
    <3>2. \A b, c \in phy'.owners : b = c
      BY <1>0, <3>1, OneOwner
    <3>3. CASE ok
      <4>1. phy.bit /\ phy'.bit /\ phy'.owners = phy.owners \cup {a}
        BY <1>0, <1>1, <2>3, <3>3 DEF OnPhy
      <4> QED BY <3>2, <4>1
    <3>4. CASE ~ok
      <4>1. ~phy.bit /\ ~phy'.bit /\ phy'.owners = phy.owners
        BY <1>0, <1>1, <2>3, <3>4 DEF OnPhy, PhyInv
      <4> QED BY <2>0, <3>2, <4>1
    <3> QED BY <3>3, <3>4
  <2>4. CASE s.op = "release"
    <3>1. phy.owners = {a}
      BY <1>4, <2>0, <2>4
    <3>2. ~phy'.bit /\ phy'.owners = {}
      BY <1>0, <1>1, <1>4, <2>4, <3>1 DEF OnPhy
    <3> QED BY <3>2
  <2>5. CASE s.op = "grab" /\ ok
    <3>1. phy'.owners = phy.owners /\ (phy.bit => phy'.bit)
      BY <1>0, <1>1, <2>5 DEF OnPhy
    <3>2. s.hit # 0 /\ Program(a).steps[s.hit].op = "confirm"
      BY <1>1, <2>5 DEF WellFormed
    <3>3. Confirming(a)'
      <4>1. Program(a)' = Program(a)
        BY <1>1 DEF Program
      <4> QED BY <2>2, <2>5, <3>2, <4>1 DEF Confirming, Busy, Target
    <3> QED BY <2>0, <3>1, <3>3
  <2>6. CASE ~(s.op \in {"confirm", "release"} \/ (s.op = "grab" /\ ok))
    <3>1. phy'.owners = phy.owners /\ (phy'.bit <=> phy.bit)
      BY <1>0, <1>1, <2>6 DEF OnPhy
    <3>2. ~Confirming(a)
      BY <2>2, <2>6 DEF Confirming
    <3>3. (\E b \in Actors : Confirming(b)) => \E b \in Actors : Confirming(b)'
      BY <2>1, <3>2
    <3> QED BY <2>0, <3>1, <3>3
  <2> QED BY <2>3, <2>4, <2>5, <2>6
<1> QED BY <1>6, <1>7, <1>8, <1>9 DEF PhyInv

LEMMA PhyWorld ==
  ASSUME IInv, PhyInv, World
  PROVE  PhyInv'
<1>1. /\ UNCHANGED <<load, adapter>> /\ phy'.bit = phy.bit /\ phy'.owners = phy.owners
      /\ phy'.shared = phy.shared
  BY WorldLeaves DEF IInv
<1>2. phy'.firmware => load.firmware /\ ~phy.bit
  <2>1. CASE FirmwareUsesPhy
    BY <2>1 DEF FirmwareUsesPhy, PhyInv, IInv, Typed
  <2>2. CASE UNCHANGED phy
    BY <2>2 DEF PhyInv
  <2> QED BY <2>1, <2>2 DEF World, Tick, MiniportReadsClock, Packet, Expire, Fire
<1>3. ASSUME NEW b \in Actors, Confirming(b)
      PROVE  Confirming(b)'
  <2>1. local'[b].pc = local[b].pc
    <3>1. CASE UNCHANGED local
      BY <3>1
    <3>2. CASE MiniportReadsClock
      <4>1. local'[b] = Disturbed(local[b]) /\ local[b] \in Local
        BY <3>2 DEF MiniportReadsClock, IInv, Typed
      <4> QED BY <4>1, DisturbedIsLocal
    <3>3. CASE Fire
      <4>1. b # "tt"
        BY <1>3, <3>3 DEF Fire, DpcDone, Confirming
      <4> QED BY <3>3, <4>1 DEF Fire, IInv, Typed
    <3> QED BY <3>1, <3>2, <3>3 DEF World, Tick, Packet, FirmwareUsesPhy, Expire
  <2>2. Program(b)' = Program(b)
    BY <1>1 DEF Program
  <2> QED BY <1>3, <2>1, <2>2 DEF Confirming, Busy
<1> QED BY <1>1, <1>2, <1>3 DEF PhyInv, Mapped_

LEMMA PhyInvAlways == Spec => []PhyInv
<1>1. Init => PhyInv
  BY DEF Init, PhyInv
<1>2. ASSUME IInv, PhyInv, [Next]_vars
      PROVE  PhyInv'
  <2>0. Typed'
    BY <1>2, NextIInv DEF IInv
  <2>1. CASE World
    BY <1>2, <2>1, PhyWorld
  <2>2. CASE UNCHANGED vars
    BY <1>2, <2>2 DEF vars, PhyInv, Mapped_, Confirming, Busy, Program
  <2> QED BY <1>2, <2>0, <2>1, <2>2, Stepwise, PhyTaken
<1> QED BY <1>1, <1>2, Invariance, PTL DEF Spec

\* Commands go to the PHY only while the firmware sends none, who owns it is
\* under way, and when all is quiet its flag is down.
THEOREM PhyIsHandedOverAlways == Spec => []PhyIsHandedOver
<1>1. ASSUME IInv, PhyInv, phy.firmware, ~phy.shared, NEW a \in Actors, NEW s \in Steps(a)
      PROVE  s.op \notin {"command", "poll"}
  <2> SUFFICES ASSUME s.op \in {"command", "poll"} PROVE FALSE
    OBVIOUS
  <2>1. IsMdioFamily(load.device)
    BY <1>1, LoadFacts DEF IInv, PhyInv
  <2>2. F("owner") \in Needs(load.device, s)
    BY <2>1 DEF Needs
  <2>3. Means(F("owner"), a)
    BY <1>1, <2>2, StepIsReady DEF Ready
  <2>4. a \in phy.owners
    BY <2>3 DEF Means, F
  <2> QED BY <1>1, <2>4 DEF PhyInv
<1>2. ASSUME IInv, PhyInv, NEW a \in phy.owners PROVE Busy(a)
  <2>1. a \in Actors
    BY <1>2 DEF PhyInv, Actors
  <2> QED BY <1>2, <2>1 DEF IInv, IdleIsFree
<1>3. ASSUME IInv, PhyInv, Quiet, phy.bit PROVE phy.shared
  <2>1. \A a \in Actors : ~Busy(a) /\ a \notin phy.owners
    BY <1>3 DEF Quiet, IInv, IdleIsFree
  <2>2. phy.owners = {}
    BY <1>3, <2>1 DEF PhyInv, Actors
  <2> QED BY <1>3, <2>1, <2>2 DEF PhyInv, Confirming
<1>4. IInv /\ PhyInv => PhyIsHandedOver
  BY <1>1, <1>2, <1>3 DEF PhyIsHandedOver
<1> QED BY <1>4, Invariance, PhyInvAlways, PTL

\* The state is made of the values the driver and the adapter can hold; no
\* register is given what another one means.
THEOREM TypeCorrect == Spec => []TypeOK
<1>1. ASSUME IInv, Timely, PhyInv, NEW a \in Actors
      PROVE  /\ local[a].pc \in 0..Len(Program(a).steps)
             /\ local[a].seen \in {"none", "clock", "torn", "disturbed", "unsure"}
  <2>1. local[a] \in Local
    BY <1>1 DEF IInv, Typed
  <2>2. load.device \in AvbGetIntelDeviceType /\ load.runs[a] \in DOMAIN Programs[load.device]
    BY <1>1, LoadFacts DEF IInv
  <2>3. /\ Len(Program(a).steps) \in Nat
        /\ DOMAIN Program(a).steps = 1..Len(Program(a).steps)
    <3>1. Sound(load.device, load.runs[a], Program(a), Facts[load.device][load.runs[a]])
      BY <2>2, FactsAreSound DEF Program
    <3> QED BY <3>1 DEF Sound
  <2>4. local[a].pc = 0 \/ local[a].pc \in DOMAIN Program(a).steps
    BY <1>1 DEF IInv, Placed, Busy
  <2> QED BY <2>1, <2>3, <2>4 DEF Local, Seen
<1>2. IInv /\ Timely /\ PhyInv => TypeOK
  <2>1. ASSUME IInv, Timely, PhyInv PROVE TypeOK
    <3>1. DOMAIN regs = Registers /\ \A r \in Registers : regs[r] \subseteq FlagsOf[r]
      BY <2>1 DEF IInv, Typed, Fitting
    <3>2. /\ clock.time \in 0..MaxTime /\ clock.shadow \subseteq FlagsOf["TSAUXC"]
          /\ clock.offset \in {"none", "clock", "torn", "disturbed"}
      BY <2>1 DEF IInv, Typed, Fitting, Timely, Seen
    <3>3. phy.owners \subseteq Threads
      BY <2>1 DEF PhyInv
    <3>4. adapter \in [state : {"BOUND", "BAR_MAPPED", "PTP_READY"}, mapped : BOOLEAN,
                  private : BOOLEAN, initialized : BOOLEAN, access : BOOLEAN,
                  mmio : BOOLEAN, leaked : BOOLEAN]
      BY <2>1 DEF IInv, Typed
    <3> QED BY <1>1, <2>1, <3>1, <3>2, <3>3, <3>4 DEF TypeOK
  <2> QED BY <2>1
<1> QED BY <1>2, Invariance, TimelyAlways, PhyInvAlways, PTL

(***************************************************************************)
(* AvbStopTimers: where it is tells what is left of the timer.             *)
(***************************************************************************)
StopInv ==
  load.runs["stop"] = "AvbStopTimers" /\ ~hist.raced =>
    LET pc == local["stop"].pc
    IN /\ pc \in 0..6
       /\ pc = 1 => (Busy("tt") => timer.armed)
       /\ pc \in {0, 4, 5, 6} => ~timer.armed
       /\ pc \in {0, 5, 6} => DpcDone

LEMMA StopStarts ==
  ASSUME Typed, load.runs["stop"] = "AvbStopTimers"
  PROVE  LET p == Program("stop")
         IN /\ p.start = 1 /\ DOMAIN p.steps = 1..6
            /\ \A i \in 1..6 : /\ p.steps[i].op = StopOps[i] /\ p.steps[i].miss = 0
                               /\ p.steps[i].hit = IF i = 6 THEN 0 ELSE i + 1
BY LoadFacts, StopIsStraight DEF Program

LEMMA StopTaken ==
  ASSUME IInv, StopInv, NEW a \in Actors, NEW s \in Steps(a), NEW ok \in BOOLEAN,
         NEW r \in Local, Takes(a, s, ok, r)
  PROVE  StopInv'
<1> SUFFICES ASSUME load'.runs["stop"] = "AvbStopTimers", ~hist'.raced
             PROVE  LET pc == local'["stop"].pc
                    IN /\ pc \in 0..6
                       /\ pc = 1 => (Busy("tt")' => timer'.armed)
                       /\ pc \in {0, 4, 5, 6} => ~timer'.armed
                       /\ pc \in {0, 5, 6} => DpcDone'
  BY DEF StopInv
<1> DEFINE pc == local["stop"].pc
           then == local'["stop"].pc
<1>1. /\ load' = load /\ OnTimer(a, s, ok) /\ Outcome(a, s, ok)
      /\ WellFormed(load.device, load.runs[a], Program(a), s)
  BY StepIsReady DEF Takes, Effects, Ready
<1>2. load.runs["stop"] = "AvbStopTimers" /\ ~hist.raced
  BY <1>1 DEF OnTimer
<1>3. /\ pc \in 0..6
      /\ pc = 1 => (Busy("tt") => timer.armed)
      /\ pc \in {0, 4, 5, 6} => ~timer.armed
      /\ pc \in {0, 5, 6} => DpcDone
  BY <1>2 DEF StopInv
<1>4. /\ Program("stop").start = 1
      /\ \A i \in 1..6 : /\ Program("stop").steps[i].op = StopOps[i]
                         /\ Program("stop").steps[i].miss = 0
                         /\ Program("stop").steps[i].hit = IF i = 6 THEN 0 ELSE i + 1
  BY <1>2, StopStarts DEF IInv
<1>5. Busy("tt")' => Busy("tt")
  <2>1. CASE a = "tt"
    BY <2>1, WhereItGoes
  <2>2. CASE a # "tt"
    <3>1. local'["tt"].pc = local["tt"].pc
      BY <2>2 DEF Takes, Moves, Keeps, Actors
    <3> QED BY <3>1 DEF Busy
  <2> QED BY <2>1, <2>2
<1>8. /\ StopOps[1] = "poll started" /\ StopOps[2] = "poll stopped" /\ StopOps[3] = "cancel"
      /\ StopOps[4] = "flush" /\ StopOps[5] = "cancel" /\ StopOps[6] = "flush"
  BY DEF StopOps
<1>6. CASE a # "stop"
  <2>1. then = pc
    BY <1>6 DEF Takes, Moves, Keeps, Actors
  <2>2. s.op \notin {"cancel", "flush"}
    <3>1. load.runs[a] # "AvbStopTimers"
      BY <1>6, LoadFacts DEF IInv, Actors, NoRequests
    <3> QED BY <1>1, <3>1 DEF WellFormed
  <2>3. s.op = "set timer" => pc = 1
    BY <1>1, <1>2, <1>4 DEF OnTimer, Stopping
  <2>4. timer'.armed <=> s.op = "set timer" \/ timer.armed
    BY <1>1, <2>2 DEF OnTimer
  <2>5. pc = 1 => (Busy("tt")' => timer'.armed)
    BY <1>3, <1>5, <2>4
  <2>6. pc \in {0, 4, 5, 6} => ~timer'.armed
    <3>1. ASSUME pc \in {0, 4, 5, 6} PROVE ~timer'.armed
      <4>1. pc # 1 /\ ~timer.armed
        BY <1>3, <3>1
      <4> QED BY <2>3, <2>4, <4>1
    <3> QED BY <3>1
  <2>7. pc \in {0, 5, 6} => DpcDone'
    BY <1>3, <1>5 DEF DpcDone
  <2> QED BY <1>3, <2>1, <2>5, <2>6, <2>7
<1>7. CASE a = "stop"
  <2>1. /\ Busy("stop") /\ s = Program("stop").steps[pc] /\ then = Target(s, ok)
    BY <1>7, WhereItGoes
  <2>2. pc \in 1..6
    BY <1>3, <2>1 DEF Busy
  <2>3. s.op = StopOps[pc] /\ s.miss = 0 /\ s.hit = IF pc = 6 THEN 0 ELSE pc + 1
    BY <1>4, <2>1, <2>2
  <2>4. CASE pc = 1
    <3>1. s.op = "poll started"
      BY <1>8, <2>3, <2>4
    <3>2. timer'.armed <=> timer.armed
      BY <1>1, <3>1 DEF OnTimer
    <3>3. CASE ok
      <4>1. then = 2
        BY <2>1, <2>3, <2>4, <3>3 DEF Target
      <4> QED BY <4>1
    <3>4. CASE ~ok
      <4>1. then = 0
        BY <2>1, <2>3, <3>4 DEF Target
      <4>2. ~timer.armed
        BY <1>1, <1>7, <3>1, <3>4 DEF OnTimer
      <4> QED BY <1>3, <1>5, <2>4, <3>2, <4>1, <4>2 DEF DpcDone
    <3> QED BY <3>3, <3>4
  <2>5. CASE pc \in 2..6
    <3>1. s.op \in {"poll stopped", "cancel", "flush"}
      <4>1. pc = 2 \/ pc = 3 \/ pc = 4 \/ pc = 5 \/ pc = 6
        BY <2>5
      <4>2. StopOps[pc] \in {"poll stopped", "cancel", "flush"}
        BY <1>8, <4>1
      <4> QED BY <2>3, <4>2
    <3>2. ok
      BY <1>1, <3>1 DEF Outcome, Certain
    <3>3. then = IF pc = 6 THEN 0 ELSE pc + 1
      BY <2>1, <2>3, <3>2 DEF Target
    <3>4. CASE pc = 2
      BY <3>3, <3>4
    <3>5. CASE pc = 3
      <4>1. s.op = "cancel"
        BY <1>8, <2>3, <3>5
      <4>2. ~timer'.armed
        BY <1>1, <4>1 DEF OnTimer
      <4> QED BY <3>3, <3>5, <4>2
    <3>6. CASE pc \in {4, 5, 6}
      <4>1. ~timer'.armed
        BY <1>1, <1>3, <3>1, <3>6 DEF OnTimer
      <4>2. CASE pc = 4
        <5>1. s.op = "flush"
          BY <1>8, <2>3, <4>2
        <5>2. DpcDone
          BY <1>1, <5>1 DEF OnTimer
        <5> QED BY <1>5, <3>3, <4>1, <4>2, <5>2 DEF DpcDone
      <4>3. CASE pc \in {5, 6}
        BY <1>3, <1>5, <3>3, <4>1, <4>3 DEF DpcDone
      <4> QED BY <3>6, <4>2, <4>3
    <3> QED BY <2>5, <3>4, <3>5, <3>6
  <2> QED BY <2>2, <2>4, <2>5
<1> QED BY <1>6, <1>7

LEMMA StopWorld ==
  ASSUME IInv, StopInv, World
  PROVE  StopInv'
<1>1. UNCHANGED <<load, timer>> /\ hist'.raced = hist.raced
  BY WorldLeaves DEF IInv
<1>2. \A b \in Actors : local[b] \in Local
  BY DEF IInv, Typed
<1>3. CASE UNCHANGED local
  BY <1>1, <1>3 DEF StopInv, Busy, DpcDone
<1>4. CASE MiniportReadsClock
  <2>1. local'["stop"].pc = local["stop"].pc /\ local'["tt"].pc = local["tt"].pc
    BY <1>2, <1>4, DisturbedIsLocal DEF MiniportReadsClock, Actors
  <2> QED BY <1>1, <2>1 DEF StopInv, Busy, DpcDone
<1>5. CASE Fire
  <2>1. local'["stop"] = local["stop"] /\ timer.armed
    BY <1>5 DEF Fire, IInv, Typed, Actors
  <2> QED BY <1>1, <2>1 DEF StopInv
<1> QED BY <1>3, <1>4, <1>5 DEF World, Tick, Packet, FirmwareUsesPhy, Expire

LEMMA StopInvAlways == Spec => []StopInv
<1>1. ASSUME Init PROVE StopInv
  <2>1. IInv
    BY <1>1, InitIInv
  <2>2. local["stop"] = Fresh(Program("stop").start) /\ local["tt"] = Fresh(0)
    BY <1>1 DEF Init, Actors
  <2>3. ~Busy("tt")
    BY <2>2, FreshKnows DEF Busy
  <2>4. ASSUME load.runs["stop"] = "AvbStopTimers" PROVE local["stop"].pc = 1
    <3>1. Program("stop").start = 1
      BY <2>1, <2>4, StopStarts DEF IInv
    <3>2. Fresh(Program("stop").start).pc = 1
      BY <3>1, FreshKnows
    <3> QED BY <2>2, <3>2
  <2> QED BY <2>3, <2>4 DEF StopInv
<1>2. ASSUME IInv, StopInv, [Next]_vars
      PROVE  StopInv'
  <2>1. CASE World
    BY <1>2, <2>1, StopWorld
  <2>2. CASE UNCHANGED vars
    BY <1>2, <2>2 DEF vars, StopInv, Busy, DpcDone
  <2> QED BY <1>2, <2>1, <2>2, Stepwise, StopTaken
<1> QED BY <1>1, <1>2, Invariance, PTL DEF Spec

\* Once AvbStopTimers has returned, the timer is not armed and its DPC not
\* under way, unless a request was setting the timer meanwhile.
THEOREM NoPollAfterStopAlways == Spec => []NoPollAfterStop
<1>1. IInv /\ StopInv => NoPollAfterStop
  <2>1. ASSUME IInv, StopInv, load.runs["stop"] # "none", ~Busy("stop"), ~hist.raced
        PROVE  ~timer.armed /\ DpcDone
    <3>1. load.runs["stop"] = "AvbStopTimers"
      BY <2>1, LoadFacts DEF IInv
    <3>2. local["stop"].pc = 0
      BY <2>1 DEF Busy
    <3> QED BY <2>1, <3>1, <3>2 DEF StopInv
  <2> QED BY <2>1 DEF NoPollAfterStop
<1> QED BY <1>1, Invariance, StopInvAlways, PTL

(***************************************************************************)
(* A ready adapter's clock.                                                *)
(***************************************************************************)
\* Of the I217 and the I219 only those that were brought up when the requests
\* came: the others are called ready without registers, too.
Settled == ~IsMdioFamily(load.device) \/ load.start # "BOUND"

\* NDIS is restarting the filter of an adapter that was reset.
Resumes == load.resumes /\ \E b \in Actors : Busy(b) /\ load.runs[b] = "FilterRestart"
Ticking == regs["TIMINCA"] # {} /\ (Started \/ hist.assumed \/ load.device = "i217")
ReadyInv == Settled /\ adapter.state = "PTP_READY" => Resumes \/ Ticking

LEMMA TickingStays ==
  ASSUME IInv, NEW a \in Actors, NEW s \in Steps(a), NEW ok \in BOOLEAN, NEW r \in Local,
         Takes(a, s, ok, r), Mapped_, Ticking
  PROVE  Ticking'
<1>1. Ready(a, s) /\ Effects(a, s, ok) /\ load' = load
  BY StepIsReady DEF Takes, Effects
<1>2. regs'["TIMINCA"] # {}
  BY <1>1, IncrementStays DEF Ticking
<1>3. Started => Started'
  BY StartedStays
<1>4. hist.assumed => hist'.assumed
  BY <1>1 DEF Effects, OnHistory
<1> QED BY <1>1, <1>2, <1>3, <1>4 DEF Ticking

\* Whoever promotes the adapter knows of a clock that runs, or takes it for one.
LEMMA PromotedIsTicking ==
  ASSUME IInv, NEW a \in Actors, NEW s \in Steps(a), NEW ok \in BOOLEAN, NEW r \in Local,
         Takes(a, s, ok, r), Settled, Mapped_, s.op \in Promotions
  PROVE  Ticking'
<1>1. /\ Ready(a, s) /\ Effects(a, s, ok) /\ load' = load
      /\ WellFormed(load.device, load.runs[a], Program(a), s)
      /\ \A f \in Needs(load.device, s) : Means(f, a)
  BY StepIsReady DEF Takes, Effects, Ready
<1>2. s.op # "promote unmapped"
  <2>1. ASSUME s.op = "promote unmapped" PROVE FALSE
    <3>1. F("early") \in Needs(load.device, s)
      BY <2>1 DEF Needs
    <3>2. load.start = "BOUND"
      BY <1>1, <3>1 DEF Means, F
    <3> QED BY <1>1, <2>1, <3>2 DEF WellFormed, Settled
  <2> QED BY <2>1
<1>3. regs["TIMINCA"] # {}
  <2>1. F("ticking") \in Needs(load.device, s)
    BY <1>2 DEF Needs, Promotions
  <2> QED BY <1>1, <2>1 DEF Means, F
<1>4. regs'["TIMINCA"] # {}
  BY <1>1, <1>3, IncrementStays
<1>5. CASE s.op = "promote"
  <2>1. ASSUME load.device # "i217" PROVE Started
    <3>1. F("started") \in Needs(load.device, s)
      BY <1>5, <2>1 DEF Needs
    <3> QED BY <1>1, <3>1 DEF Means, F
  <2> QED BY <1>3, <2>1, TickingStays DEF Ticking
<1>6. CASE s.op = "promote ticking"
  <2>1. CASE "DISABLE" \in regs["TSAUXC"]
    <3>1. hist'.assumed
      BY <1>1, <1>6, <2>1 DEF Effects, OnHistory
    <3> QED BY <1>4, <3>1 DEF Ticking
  <2>2. CASE "DISABLE" \notin regs["TSAUXC"]
    BY <1>3, <2>2, TickingStays DEF Ticking, Started
  <2> QED BY <2>1, <2>2
<1> QED BY <1>2, <1>5, <1>6 DEF Promotions

\* FilterRestart ends with the clock running, as it was before the reset.
LEMMA ResumedIsTicking ==
  ASSUME IInv, NEW a \in Actors, NEW s \in Steps(a), NEW ok \in BOOLEAN, NEW r \in Local,
         Takes(a, s, ok, r), load.resumes, load.runs[a] = "FilterRestart", Target(s, ok) = 0
  PROVE  Ticking'
<1>1. Ready(a, s) /\ Leads(a, s, ok) /\ load' = load
  BY WhereItGoes DEF Takes, Effects
<1>2. load.start = "PTP_READY" /\ load.device # "i225"
  BY LoadFacts DEF IInv
<1> DEFINE after == After(load.device, s, ok, Known(a))
<1>3. Resumed(load.device, after)
  BY <1>1, <1>2 DEF Leads
<1>4. /\ F("early")[1] = "early" /\ F("ticking")[1] = "ticking" /\ F("started")[1] = "started"
  BY DEF F
<1>5. F("early") \notin after
  <2>1. ASSUME F("early") \in after PROVE FALSE
    <3>1. Means(F("early"), a)'
      BY <1>1, <1>4, <2>1, LearntGlobally
    <3>2. load'.start = "BOUND"
      BY <1>4, <3>1 DEF Means
    <3> QED BY <1>1, <1>2, <3>2
  <2> QED BY <2>1
<1>6. regs'["TIMINCA"] # {}
  <2>1. F("ticking") \in after
    BY <1>3, <1>5 DEF Resumed
  <2>2. Means(F("ticking"), a)'
    BY <1>1, <1>4, <2>1, LearntGlobally
  <2> QED BY <1>4, <2>2 DEF Means
<1>7. load.device = "i217" \/ Started'
  BY <1>3, <1>4, <1>5, LearntToBeStarted DEF Resumed
<1> QED BY <1>1, <1>6, <1>7 DEF Ticking

LEMMA ReadyTaken ==
  ASSUME IInv, ReadyInv, NEW a \in Actors, NEW s \in Steps(a), NEW ok \in BOOLEAN,
         NEW r \in Local, Takes(a, s, ok, r)
  PROVE  ReadyInv'
<1>1. OnAdapter(a, s, ok) /\ load' = load
  BY DEF Takes, Effects
<1> SUFFICES ASSUME Settled, adapter'.state = "PTP_READY" PROVE (Resumes \/ Ticking)'
  BY <1>1 DEF ReadyInv, Settled
<1>2. CASE s.op \in Promotions
  <2>1. Mapped_ \/ ~Mapped_
    OBVIOUS
  <2>2. CASE Mapped_
    BY <1>2, <2>2, PromotedIsTicking
  <2>3. CASE ~Mapped_
    <3>1. Ready(a, s) /\ \A f \in Needs(load.device, s) : Means(f, a)
      BY StepIsReady DEF Ready
    <3>2. WellFormed(load.device, load.runs[a], Program(a), s) /\ Attached
      BY <3>1 DEF Ready
    <3>3. CASE IsMdioFamily(load.device)
      BY <2>3, <3>2, <3>3 DEF Settled, Attached
    <3>4. CASE ~IsMdioFamily(load.device)
      <4>1. s.op # "promote unmapped"
        BY <3>2, <3>4 DEF WellFormed
      <4>2. Reached \subseteq Needs(load.device, s)
        BY <1>2, <3>4, <4>1 DEF Needs, Promotions
      <4>3. Means(F("private"), a) /\ Means(F("registers"), a)
        BY <3>1, <4>2 DEF Reached
      <4> QED BY <2>3, <4>3 DEF Means, F, Mapped_
    <3> QED BY <3>3, <3>4
  <2> QED BY <2>2, <2>3
<1>3. CASE s.op \notin Promotions
  <2>1. adapter.state = "PTP_READY"
    BY <1>1, <1>3 DEF OnAdapter
  <2>2. Mapped_
    BY <2>1 DEF IInv, Answering, Attached, Settled, Mapped_
  <2>3. CASE Ticking
    BY <2>2, <2>3, TickingStays
  <2>4. CASE Resumes
    <3>1. PICK b \in Actors : Busy(b) /\ load.runs[b] = "FilterRestart"
      BY <2>4 DEF Resumes
    <3>2. CASE b = a /\ Target(s, ok) = 0
      BY <2>4, <3>1, <3>2, ResumedIsTicking DEF Resumes
    <3>3. CASE ~(b = a /\ Target(s, ok) = 0)
      <4>1. Busy(b)'
        <5>1. CASE b = a
          BY <3>3, <5>1, WhereItGoes DEF Busy
        <5>2. CASE b # a
          BY <3>1, <5>2 DEF Takes, Moves, Keeps, Busy
        <5> QED BY <5>1, <5>2
      <4> QED BY <1>1, <2>4, <3>1, <4>1 DEF Resumes
    <3> QED BY <3>2, <3>3
  <2> QED BY <2>1, <2>3, <2>4 DEF ReadyInv
<1> QED BY <1>2, <1>3

LEMMA ReadyWorld ==
  ASSUME IInv, ReadyInv, World
  PROVE  ReadyInv'
<1>1. UNCHANGED <<load, adapter>>
  BY WorldLeaves DEF IInv
<1>2. /\ regs'["TSAUXC"] = regs["TSAUXC"] /\ regs'["TIMINCA"] = regs["TIMINCA"]
      /\ hist'.halted = hist.halted /\ hist'.lost = hist.lost /\ hist'.assumed = hist.assumed
      /\ \A b \in Actors : Busy(b) => local'[b].pc = local[b].pc
  BY WorldLeavesTheClock DEF IInv
<1>3. Resumes => Resumes'
  BY <1>1, <1>2 DEF Resumes, Busy
<1>4. Owed => Owed'
  BY <1>1, <1>2 DEF Owed, Busy, Known
<1>5. Ticking => Ticking'
  BY <1>1, <1>2, <1>4 DEF Ticking, Started
<1> QED BY <1>1, <1>3, <1>5 DEF ReadyInv, Settled

LEMMA InitReady ==
  ASSUME Init PROVE ReadyInv
<1>1. load \in Workloads /\ Typed
  BY InitIInv DEF Init, IInv
<1>2. adapter.state = load.start
  <2>1. adapter = [state |-> load.start, mapped |-> load.start # "BOUND",
                   private |-> load.start # "BOUND", initialized |-> load.start # "BOUND",
                   access |-> load.start # "BOUND", mmio |-> load.start # "BOUND", leaked |-> FALSE]
    BY DEF Init, Start
  <2> QED BY <2>1
<1>3. ASSUME load.start = "PTP_READY", load.reset PROVE Resumes
  <2>1. load.resumes /\ \E t \in Threads : load.runs[t] = "FilterRestart"
    BY <1>1, <1>3, LoadFacts
  <2>2. PICK t \in Threads : load.runs[t] = "FilterRestart"
    BY <2>1
  <2>3. t \in Actors /\ t # "tt"
    BY DEF Actors, Threads
  <2>4. Program(t).start # 0
    <3>1. load.device \in AvbGetIntelDeviceType /\ load.runs[t] \in DOMAIN Programs[load.device]
      BY <1>1, <2>3, LoadFacts
    <3>2. Sound(load.device, load.runs[t], Programs[load.device][load.runs[t]],
                Facts[load.device][load.runs[t]])
      BY <3>1, FactsAreSound
    <3> QED BY <2>2, <3>2 DEF Sound, Program
  <2>5. local[t].pc = Program(t).start
    <3>1. local[t] = Fresh(Program(t).start)
      BY <2>3 DEF Init
    <3> QED BY <3>1, FreshKnows
  <2> QED BY <2>1, <2>2, <2>3, <2>4, <2>5 DEF Resumes, Busy
<1>4. ASSUME ~load.reset PROVE Ticking
  <2>1. {"TSAUXC", "TIMINCA"} \subseteq Registers
    BY DEF Registers, FlagsOf
  <2>2. regs["TIMINCA"] = {"RATE"} /\ regs["TSAUXC"] = {}
    BY <1>4, <2>1 DEF Init, Start
  <2> QED BY <2>2 DEF Ticking, Started
<1> QED BY <1>2, <1>3, <1>4 DEF ReadyInv

LEMMA ReadyAlways == Spec => []ReadyInv
<1>1. Init => ReadyInv
  BY InitReady
<1>2. ASSUME IInv, ReadyInv, [Next]_vars
      PROVE  ReadyInv'
  <2>1. CASE World
    BY <1>2, <2>1, ReadyWorld
  <2>2. CASE UNCHANGED vars
    BY <1>2, <2>2 DEF vars, ReadyInv, Settled, Resumes, Ticking, Busy, Started, Owed, Known
  <2> QED BY <1>2, <2>1, <2>2, Stepwise, ReadyTaken
<1> QED BY <1>1, <1>2, Invariance, PTL DEF Spec

\* An adapter that says AVB_HW_PTP_READY has an increment in its clock, or
\* FilterRestart is still to give it one: for every set of requests, of every
\* adapter but an I217 or I219 that was not brought up before them.
THEOREM ReadyMeansTickingAlways == Spec => [](Settled => ReadyMeansTicking)
<1>1. ReadyInv => (Settled => ReadyMeansTicking)
  BY DEF ReadyInv, ReadyMeansTicking, Ticking, Resumes, Quiet
<1> QED BY <1>1, ReadyAlways, PTL

\* When the requests are over a ready adapter's clock runs: whoever halted it
\* to set it has started it again, and what is left are a user's stop, a lost
\* update of TSAUXC, and an increment taken for a running clock.
THEOREM ClockRunsAlways == Spec => [](Settled => ClockRuns)
<1>1. ReadyInv => (Settled => ClockRuns)
  BY DEF ReadyInv, ClockRuns, Ticking, Resumes, Quiet, Started, Owed
<1> QED BY <1>1, ReadyAlways, PTL
=============================================================================
