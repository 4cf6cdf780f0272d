---------------------------- MODULE AvbHardware ----------------------------
(***************************************************************************)
(* One adapter and everybody who works on it: two requests, the DPC of the *)
(* target-time timer, the polling DPC, AvbStopTimers, and outside the      *)
(* driver the clock, the firmware and the miniport.  Each runs the script  *)
(* of its function, a step at a time, and the steps interleave as they     *)
(* like: no lock of the driver is taken around any of them.                *)
(***************************************************************************)
EXTENDS Scripts, FiniteSets

CONSTANTS Workloads,      \* what runs, on which adapter, from which state
          MaxTime,        \* bound: the clock stops there
          MaxExpiries,    \* bound: how often the target time is reached
          MaxPackets      \* bound: how many packets come

ASSUME BoundsAssumption == MaxTime \in Nat \ {0} /\ MaxExpiries \in Nat /\ MaxPackets \in Nat

VARIABLES load, adapter, regs, clock, stamp, phy, timer, local, hist
vars == <<load, adapter, regs, clock, stamp, phy, timer, local, hist>>

Threads == {"t1", "t2"}
Actors  == Threads \cup {"tt", "poll", "stop"}
Program(a) == Programs[load.device][load.runs[a]]

\* The threads run requests, the others what is theirs or nothing; only the
\* adapters whose PHY has a flag share it with a firmware.  NDIS restarts the
\* filter of an adapter that was reset when it was ready; the I225, that has
\* no table of operations, is never brought up.
ASSUME WorkloadsAssumption ==
  \A w \in Workloads :
    /\ w.device \in AvbGetIntelDeviceType
    /\ w.start \in {States[i] : i \in DOMAIN States}
    /\ w.reset \in BOOLEAN /\ w.latch \in {"none", "TX", "RX"} /\ w.resumes \in BOOLEAN
    /\ w.start = "PTP_READY" /\ w.reset => w.resumes
    /\ w.resumes => w.start = "PTP_READY" /\ \E t \in Threads : w.runs[t] = "FilterRestart"
    /\ w.device = "i225" => w.start = "BOUND"
    /\ w.firmware \in BOOLEAN /\ (w.firmware => IsMdioFamily(w.device))
    /\ \A t \in Threads : w.runs[t] \in DOMAIN Requests(intel_device(w.device)) \cup {"none"}
    /\ w.runs["tt"] = "AvbTimerDpcRoutine"
    /\ w.runs["poll"] \in {"none", "AvbTxTimestampPollDpc"}
    /\ w.runs["stop"] \in {"none", "AvbStopTimers"}

\* The halves of a packet's timestamp, by the number of the packet; of: the
\* message it is read for; at: from the first read to the report; empty: there
\* was none to read; shared: another reader came in between.
NoStamp == [low |-> 0, high |-> 0, of |-> 0, at |-> FALSE, empty |-> FALSE, shared |-> FALSE]

Fresh(pc) == [pc |-> pc, loc |-> {}, base |-> "none", behind |-> FALSE, halves |-> {},
              low |-> 0, high |-> 0, from |-> 0, seen |-> "none", disturbed |-> FALSE,
              told |-> FALSE, stamp |-> NoStamp, held |-> {}]

(***************************************************************************)
(* Where an adapter can be when the requests arrive: just attached, or     *)
(* brought up; brought up, and reset by the miniport since.                *)
(***************************************************************************)
Start(state, reset) ==
  /\ adapter = [state |-> state, mapped |-> state # "BOUND", private |-> state # "BOUND",
                initialized |-> state # "BOUND", access |-> state # "BOUND",
                mmio |-> state # "BOUND", leaked |-> FALSE]
  /\ regs = [r \in Registers |->
               CASE reset /\ r = "TSAUXC" -> {"DISABLE"}
                 [] ~reset /\ r = "TIMINCA" -> {"RATE"}
                 [] OTHER -> {}]

Init ==
  /\ load \in Workloads
  /\ Start(load.start, load.reset)
  /\ clock = [time |-> 1, latched |-> 0, shadow |-> {}, offset |-> "clock"]
  /\ stamp = [packet |-> 0, valid |-> FALSE, last |-> 0, handled |-> 0, missed |-> FALSE]
  /\ phy = [bit |-> FALSE, firmware |-> FALSE, owners |-> {}, shared |-> FALSE]
  /\ timer = [armed |-> FALSE, flag |-> FALSE]
  /\ local = [a \in Actors |-> Fresh(IF a = "tt" THEN 0 ELSE Program(a).start)]
  /\ hist = [lost |-> FALSE, halted |-> FALSE, expiry |-> "none", expiries |-> 0,
             unreported |-> FALSE, raced |-> FALSE, bothmapped |-> FALSE, stamped |-> 0,
             assumed |-> FALSE]

(***************************************************************************)
(* How an actor goes on: s is its step, r what it knows after it.          *)
(***************************************************************************)
Busy(a)   == local[a].pc # 0
Steps(a)  == IF Busy(a) THEN {Program(a).steps[local[a].pc]} ELSE {}
Onward(s, ok, r) == LET to == IF ok THEN s.hit ELSE s.miss
                    IN IF to = 0 THEN [Fresh(0) EXCEPT !.held = r.held] ELSE [r EXCEPT !.pc = to]
Move(a, s, ok, r) == local' = [local EXCEPT ![a] = Onward(s, ok, r)]
Test(a, s, ok)    == Move(a, s, ok, local[a])

Mapped_ == adapter.mapped /\ adapter.private     \* an access reaches the adapter

(***************************************************************************)
(* Steps nobody else can see, and whose outcome nobody else can change,    *)
(* are taken at once, one actor after the other: no property can tell when *)
(* they were.  An adapter is never unmapped here.                          *)
(***************************************************************************)
\* The packets go one way only: the latch of the other is never filled.
Timestamped(op) == load.latch = IF op \in {"receipt low", "receipt high"} THEN "RX" ELSE "TX"
Hidden(s) ==
  \/ s.op \in {"load", "change", "holds", "fail", "may", "answer time", "answer phy", "launch time",
                "take", "use", "give"}
  \/ s.op \in {"read", "write", "put"} /\ Mapped_ /\ s.reg \notin Registers
  \/ s.op = "private" /\ adapter.private
  \/ s.op \in StampReads /\ Mapped_ /\ ~Timestamped(s.op)
HiddenActors == {a \in Actors : \E s \in Steps(a) : Hidden(s)}
\* Who may take the next step; anybody, and the world, if nobody hides.
Turn == IF HiddenActors = {} THEN Actors ELSE {CHOOSE a \in HiddenActors : TRUE}

(***************************************************************************)
(* Registers.                                                              *)
(***************************************************************************)
Content(r) == IF r \in Registers THEN regs[r] ELSE {}

\* One whose content no step asks for leaves the copy alone.
ReadReg(a, s) ==
  /\ s.op = "read"
  /\ IF s.reg \notin Registers THEN Test(a, s, Mapped_)
     ELSE Move(a, s, Mapped_, [local[a] EXCEPT !.loc = IF Mapped_ THEN regs[s.reg] ELSE {},
                                             !.base = IF s.reg = "TSAUXC" THEN s.reg ELSE "none",
                                             !.behind = FALSE])
  /\ UNCHANGED <<load, stamp, adapter, regs, clock, phy, timer, hist>>

\* A register gets new content; whoever has read it before is behind now.
Store(a, s, r, content) ==
  /\ regs' = IF Mapped_ /\ r \in Registers THEN [regs EXCEPT ![r] = content] ELSE regs
  /\ local' = [b \in Actors |->
       IF b = a THEN Onward(s, Mapped_, local[a])
       ELSE [local[b] EXCEPT !.behind = @ \/ (Mapped_ /\ r \in Registers /\ local[b].base = r)]]

PutReg(a, s) ==
  /\ s.op = "put"
  /\ Store(a, s, s.reg, (local[a].loc \ s.off) \cup s.on)
  /\ hist' = [hist EXCEPT !.lost = @ \/ (s.reg = "TSAUXC" /\ local[a].behind)]
  /\ UNCHANGED <<load, stamp, adapter, clock, phy, timer>>

WriteReg(a, s) ==
  /\ s.op = "write"
  /\ Store(a, s, s.reg, s.on)
  /\ UNCHANGED <<load, stamp, adapter, clock, phy, timer, hist>>

\* TSICR: written ones are cleared.  An expiry nobody was told of is gone.
ClearReg(a, s) ==
  /\ s.op = "clear"
  /\ Store(a, s, s.reg, Content(s.reg) \ s.off)
  /\ hist' = IF ~Mapped_ THEN hist
             ELSE [hist EXCEPT !.expiry = "none",
                               !.unreported = @ \/ (hist.expiry = "pending" /\ ~local[a].told)]
  /\ UNCHANGED <<load, stamp, adapter, clock, phy, timer>>

EditCopy(a, s) ==
  /\ \/ s.op = "load"   /\ Move(a, s, TRUE, [local[a] EXCEPT !.loc = s.on])
     \/ s.op = "change" /\ Move(a, s, TRUE, [local[a] EXCEPT !.loc = (@ \ s.off) \cup s.on])
     \/ s.op = "read shadow" /\ Move(a, s, TRUE, [local[a] EXCEPT !.loc = clock.shadow])
  /\ UNCHANGED <<load, stamp, adapter, regs, clock, phy, timer, hist>>

(***************************************************************************)
(* The clock.  Reading its low half latches the high half; on the I210 a   *)
(* register of its own latches both.  The latch is one for all readers.    *)
(***************************************************************************)
Low(t)  == t % 2
High(t) == t \div 2
Latches(op) == IF load.device = "i210" THEN op = "latch" ELSE op \in {"low", "recheck"}

\* The two halves make a time the clock had since the first was read.
Judged(r) == IF 2 * r.high + r.low \in r.from..clock.time THEN "clock"
             ELSE IF r.disturbed /\ load.device # "i219" THEN "disturbed" ELSE "torn"
Forget(r) == [r EXCEPT !.low = 0, !.high = 0, !.from = 0, !.disturbed = FALSE]
HalfRead(r, half, value) ==
  LET s == [r EXCEPT !.low = IF half = "low" THEN value ELSE @,
                     !.high = IF half = "high" THEN value ELSE @,
                     !.halves = @ \cup {half},
                     !.from = IF r.halves = {} THEN clock.time ELSE @,
                     !.disturbed = r.halves # {} /\ @]
      whole == [s EXCEPT !.halves = {}, !.seen = Judged(s)]
  IN IF ~({"low", "high"} \subseteq s.halves) THEN s
     ELSE IF load.device = "i219" THEN whole  \* may be rechecked
     ELSE Forget(whole)

\* Everybody else in the middle of a reading has lost their latch.
Disturbed(r) == [r EXCEPT !.disturbed = @ \/ r.halves # {}]
MoveAndDisturb(a, s, ok, r) ==
  local' = [b \in Actors |-> IF b = a THEN Onward(s, ok, r) ELSE Disturbed(local[b])]

ReadClockHalf(a, s) ==
  /\ \E half \in {"low", "high", "latch"} :
       /\ s.op = half
       /\ LET latched == IF Latches(half) THEN clock.time ELSE clock.latched
              value == IF half = "high" THEN High(latched) ELSE Low(latched)
          IN /\ clock' = [clock EXCEPT !.latched = IF Mapped_ THEN latched ELSE @]
             /\ IF ~Mapped_ THEN Test(a, s, FALSE)
                ELSE IF Latches(half) THEN MoveAndDisturb(a, s, TRUE, HalfRead(local[a], half, value))
                ELSE Move(a, s, TRUE, HalfRead(local[a], half, value))
  /\ UNCHANGED <<load, stamp, adapter, regs, phy, timer, hist>>

\* The second look at the low half: smaller means the clock wrapped.
Recheck(a, s) ==
  /\ s.op = "recheck"
  /\ IF ~Mapped_ THEN Test(a, s, FALSE) /\ clock' = clock
     ELSE LET ok == Low(clock.time) >= local[a].low
             seen == IF ok THEN Judged(local[a]) ELSE "unsure"
          IN /\ MoveAndDisturb(a, s, ok, Forget([local[a] EXCEPT !.seen = seen]))
             /\ clock' = [clock EXCEPT !.latched = clock.time]
  /\ UNCHANGED <<load, stamp, adapter, regs, phy, timer, hist>>

SetClockHalf(a, s) ==
  /\ \E half \in {"set low", "set high"} :
       /\ s.op = half
       /\ clock' = IF ~Mapped_ THEN clock
                   ELSE [clock EXCEPT !.time = IF half = "set low" THEN @ - Low(@) ELSE Low(@)]
  /\ IF Mapped_ THEN MoveAndDisturb(a, s, TRUE, local[a]) ELSE Test(a, s, FALSE)
  /\ UNCHANGED <<load, stamp, adapter, regs, phy, timer, hist>>

\* The software clock of the I219: its offset, which uses a reading up, and
\* its shadow of TSAUXC.
SetSoftClock(a, s) ==
  /\ \/ /\ s.op = "offset"
        /\ clock' = [clock EXCEPT !.offset = local[a].seen]
        /\ Move(a, s, TRUE, [Forget(local[a]) EXCEPT !.halves = {}, !.seen = "none"])
     \/ /\ s.op = "write shadow"
        /\ clock' = [clock EXCEPT !.shadow = local[a].loc]
        /\ Test(a, s, TRUE)
  /\ UNCHANGED <<load, stamp, adapter, regs, phy, timer, hist>>

\* Time passes where somebody can tell: while a reading is under way.
Running == "DISABLE" \notin regs["TSAUXC"] /\ regs["TIMINCA"] # {}
Tick ==
  /\ Running /\ clock.time < MaxTime /\ \E a \in Actors : local[a].halves # {}
  /\ clock' = [clock EXCEPT !.time = @ + 1]
  /\ UNCHANGED <<load, stamp, adapter, regs, phy, timer, local, hist>>

\* The interrupt routine of the miniport reads the clock of the I219 too.
MiniportReadsClock ==
  /\ load.device = "i219" /\ \E a \in Actors : local[a].halves # {}
  /\ clock' = [clock EXCEPT !.latched = clock.time]
  /\ local' = [b \in Actors |-> Disturbed(local[b])]
  /\ UNCHANGED <<load, stamp, adapter, regs, phy, timer, hist>>

(***************************************************************************)
(* TXSTMP and RXSTMP: one timestamp, of the packet that came when there    *)
(* was none.  The I226 is done with TXSTMP when its high half is read.     *)
(* The others have the valid bit in the high half, and are done when the   *)
(* low one is read.  RXSTMP is done with its high half.  The halves keep   *)
(* their content until the next packet.                                    *)
(***************************************************************************)
Frees(op) == op \in {"receipt high", IF load.device = "i226" THEN "stamp high" ELSE "stamp low"}

Got(a, op) ==
  LET packet == IF Timestamped(op) THEN stamp.packet ELSE 0
  IN [local[a].stamp EXCEPT
        !.at    = @ \/ Timestamped(op),
        !.empty = @ \/ (op = "receipt low" /\ ~(Timestamped(op) /\ stamp.valid)),
        !.low   = IF op \in {"stamp low", "receipt low"} THEN packet ELSE @,
        !.high  = IF op \in {"stamp high", "receipt high"} THEN packet ELSE @]

ReadStamp(a, s) ==
  /\ s.op \in StampReads
  /\ LET ok == Mapped_ /\ (s.op = "stamp ready" \/ (s.op = "stamp high" /\ load.device # "i226")
                            => Timestamped(s.op) /\ stamp.valid)
     IN local' = [b \in Actors |->
          IF b = a THEN Onward(s, ok, [local[a] EXCEPT !.stamp = Got(a, s.op)])
          ELSE [local[b] EXCEPT !.stamp.shared = @ \/ (Timestamped(s.op) /\ local[b].stamp.at)]]
  /\ stamp' = [stamp EXCEPT !.valid = @ /\ ~(Mapped_ /\ Timestamped(s.op) /\ Frees(s.op)),
                            !.missed = @ \/ (s.op = "receipt high" /\ local[a].stamp.of = 0)]
  /\ UNCHANGED <<load, adapter, regs, clock, phy, timer, hist>>

\* The next event message the miniport indicates, if there is one.
NextMessage(a, s) ==
  /\ s.op = "event message"
  /\ LET ok == load.latch = "RX" /\ stamp.handled < stamp.last
         m == IF ok THEN stamp.handled + 1 ELSE stamp.handled
     IN /\ Move(a, s, ok, [local[a] EXCEPT !.stamp = [NoStamp EXCEPT !.of = m]])
        /\ stamp' = [stamp EXCEPT !.handled = m]
  /\ UNCHANGED <<load, adapter, regs, clock, phy, timer, hist>>

\* To the subscribers, or to the user.
ReportStamp(a, s) ==
  /\ s.op \in StampReports
  /\ Move(a, s, TRUE, [local[a] EXCEPT !.stamp = NoStamp])
  /\ hist' = [hist EXCEPT !.stamped = IF s.op \in {"post stamp", "answer stamp"}
                                     THEN local[a].stamp.low ELSE @]
  /\ UNCHANGED <<load, adapter, regs, clock, stamp, phy, timer>>

\* A packet is sent, or comes in; the latch may be taken.
Packet ==
  /\ load.latch # "none" /\ stamp.last < MaxPackets /\ \E a \in Actors : Busy(a)
  /\ stamp' = [stamp EXCEPT !.last = @ + 1, !.valid = TRUE,
                 !.packet = IF stamp.valid THEN @ ELSE stamp.last + 1,
                 !.missed = @ \/ stamp.valid]
  /\ UNCHANGED <<load, adapter, regs, clock, phy, timer, local, hist>>

(***************************************************************************)
(* The PHY: a flag for the software and one for the firmware.  What the    *)
(* software writes does not stick while the firmware has the PHY.          *)
(***************************************************************************)

AcquirePhy(a, s) ==
  /\ \/ s.op = "await" /\ Test(a, s, Mapped_ /\ ~phy.bit) /\ phy' = phy
     \/ s.op = "await" /\ Mapped_ /\ phy.bit /\ UNCHANGED <<phy, local>>
     \/ s.op = "grab" /\ Test(a, s, Mapped_)
        /\ phy' = [phy EXCEPT !.bit = @ \/ (Mapped_ /\ ~phy.firmware)]
     \/ s.op = "confirm"
        /\ LET mine == Mapped_ /\ phy.bit
               owners == phy.owners \cup (IF mine THEN {a} ELSE {})
           IN /\ Test(a, s, mine)
              /\ phy' = [phy EXCEPT !.owners = owners, !.shared = @ \/ Cardinality(owners) > 1]
  /\ UNCHANGED <<load, stamp, adapter, regs, clock, timer, hist>>

ReleasePhy(a, s) ==
  /\ s.op = "release"
  /\ Test(a, s, Mapped_)
  /\ phy' = [phy EXCEPT !.bit = @ /\ ~Mapped_, !.owners = @ \ {a}]
  /\ UNCHANGED <<load, stamp, adapter, regs, clock, timer, hist>>

\* The command, and the polls for its answer, which may run out.
UsePhy(a, s) ==
  /\ \/ s.op = "command" /\ Test(a, s, Mapped_)
     \/ s.op = "poll" /\ \E answered \in BOOLEAN : Test(a, s, Mapped_ /\ answered)
  /\ UNCHANGED <<load, stamp, adapter, regs, clock, phy, timer, hist>>

FirmwareUsesPhy ==
  /\ load.firmware
  /\ \/ ~phy.bit /\ ~phy.firmware /\ (\E a \in Actors : Busy(a)) /\ phy' = [phy EXCEPT !.firmware = TRUE]
     \/ phy.firmware /\ phy' = [phy EXCEPT !.firmware = FALSE]
  /\ UNCHANGED <<load, stamp, adapter, regs, clock, timer, local, hist>>

(***************************************************************************)
(* The target time, its timer and its two pollers.                         *)
(***************************************************************************)
Expire ==
  /\ "EN_TT0" \in regs["TSAUXC"] /\ Running /\ hist.expiries < MaxExpiries
  /\ regs' = [regs EXCEPT !["TSICR"] = @ \cup {"TT0"}]
  /\ hist' = [hist EXCEPT !.expiry = "pending", !.expiries = @ + 1]
  /\ UNCHANGED <<load, stamp, adapter, clock, phy, timer, local>>

\* An event to the subscribers, or an answer to the user.
Report(a, s) ==
  /\ \/ s.op = "post"
     \/ s.op = "answer flag"
  /\ LET tells == s.op = "post" \/ "TT0" \in local[a].loc
     IN /\ Move(a, s, TRUE, [local[a] EXCEPT !.told = @ \/ tells])
        /\ hist' = [hist EXCEPT !.expiry = IF tells /\ @ = "pending" THEN "told" ELSE @]
  /\ UNCHANGED <<load, stamp, adapter, regs, clock, phy, timer>>

DpcDone == ~Busy("tt")
Fire ==
  /\ timer.armed /\ DpcDone
  /\ local' = [local EXCEPT !["tt"] = Fresh(Program("tt").start)]
  /\ UNCHANGED <<load, stamp, adapter, regs, clock, phy, timer, hist>>

\* KeInitializeTimer and KeSetTimerEx.  They come too late for a stop that
\* has looked at the flag, and spoil a timer that is still armed.
Stopping == load.runs["stop"] # "none" /\ local["stop"].pc # Program("stop").start
SetTimer(a, s) ==
  /\ s.op = "set timer"
  /\ timer' = [timer EXCEPT !.armed = TRUE]
  /\ hist' = [hist EXCEPT !.raced = @ \/ timer.armed \/ ~DpcDone \/ Stopping]
  /\ Test(a, s, TRUE)
  /\ UNCHANGED <<load, stamp, adapter, regs, clock, phy>>

StopTimer(a, s) ==
  /\ \/ s.op = "poll active"  /\ timer' = [timer EXCEPT !.flag = TRUE]
     \/ s.op = "poll stopped" /\ timer' = [timer EXCEPT !.flag = FALSE]
     \/ s.op = "cancel"       /\ timer' = [timer EXCEPT !.armed = FALSE]
     \/ s.op = "flush" /\ DpcDone /\ timer' = timer
  /\ Test(a, s, TRUE)
  /\ UNCHANGED <<load, stamp, adapter, regs, clock, phy, hist>>

\* A stop that finds the flag low while the timer is armed was overtaken.
TestTimer(a, s) ==
  /\ \/ s.op = "poll inactive" /\ Test(a, s, ~timer.flag) /\ hist' = hist
     \/ s.op = "poll started"  /\ Test(a, s, timer.flag)
        /\ hist' = [hist EXCEPT !.raced = @ \/ (a = "stop" /\ ~timer.flag /\ timer.armed)]
  /\ UNCHANGED <<load, stamp, adapter, regs, clock, phy, timer>>

(***************************************************************************)
(* The context of the adapter.                                             *)
(***************************************************************************)
AtLeastState(s) == IF Rank(adapter.state) >= Rank(s) THEN adapter.state ELSE s

TestContext(a, s) ==
  /\ \/ s.op = "private"     /\ Test(a, s, adapter.private)
     \/ s.op = "initialized" /\ Test(a, s, adapter.initialized)
     \/ s.op = "has mmio"    /\ Test(a, s, adapter.mmio)
     \/ s.op = "at least"    /\ Test(a, s, Rank(adapter.state) >= Rank(s.reg))
     \/ s.op = "holds" /\ Test(a, s, s.on \cap local[a].loc # {})
     \/ s.op = "fail" /\ Test(a, s, FALSE)
     \/ (s.op = "may" \/ s.op = "clock not zero") /\ \E yes \in BOOLEAN : Test(a, s, yes)
     \/ (s.op = "answer time" \/ s.op = "answer phy" \/ s.op = "launch time") /\ Test(a, s, TRUE)
  /\ UNCHANGED <<load, stamp, adapter, regs, clock, phy, timer, hist>>

\* Taking may fail.
Borrow(a, s) ==
  /\ \/ s.op = "take" /\ Test(a, s, FALSE)
     \/ s.op = "take" /\ Move(a, s, TRUE, [local[a] EXCEPT !.held = @ \cup {s.reg}])
     \/ s.op = "give" /\ Move(a, s, TRUE, [local[a] EXCEPT !.held = @ \ {s.reg}])
     \/ s.op = "use"  /\ Test(a, s, TRUE)
  /\ UNCHANGED <<load, stamp, adapter, regs, clock, phy, timer, hist>>

\* What the test saw of the mapping may be behind when it is acted upon.
TestMapping(a, s) ==
  /\ s.op = "mapped" \/ s.op = "bound unmapped"
  /\ LET ok == IF s.op = "mapped" THEN adapter.mapped
               ELSE adapter.state = "BOUND" /\ ~adapter.mapped
     IN Move(a, s, ok, [local[a] EXCEPT !.base = "mapping", !.behind = FALSE])
  /\ UNCHANGED <<load, stamp, adapter, regs, clock, phy, timer, hist>>

\* hardware_access_enabled without registers is taken back.
TestAccess(a, s) ==
  /\ s.op = "accessible"
  /\ Test(a, s, adapter.access /\ adapter.mapped)
  /\ adapter' = [adapter EXCEPT !.access = @ /\ adapter.mapped]
  /\ UNCHANGED <<load, stamp, regs, clock, phy, timer, hist>>

\* Mapping may fail; over another mapping, that one is never undone.
MapBar(a, s) ==
  /\ s.op = "map"
  /\ \/ Test(a, s, FALSE) /\ adapter' = adapter /\ hist' = hist
     \/ /\ local' = [b \in Actors |->
             IF b = a THEN Onward(s, TRUE, local[a])
             ELSE [local[b] EXCEPT !.behind = @ \/ local[b].base = "mapping"]]
        /\ adapter' = [adapter EXCEPT !.mapped = TRUE, !.leaked = @ \/ adapter.mapped]
        /\ hist' = [hist EXCEPT !.bothmapped = @ \/ local[a].behind]
  /\ UNCHANGED <<load, stamp, regs, clock, phy, timer>>

SetContext(a, s) ==
  /\ \/ s.op = "allocate" /\ adapter' = [adapter EXCEPT !.private = TRUE]
     \/ s.op = "baseline" /\ adapter' = [adapter EXCEPT !.mmio = TRUE]
     \/ s.op = "drop mmio" /\ adapter' = [adapter EXCEPT !.mmio = FALSE]
     \/ s.op = "initialise" /\ adapter' = [adapter EXCEPT !.initialized = TRUE]
     \/ s.op = "promote" /\ adapter' = [adapter EXCEPT !.state = "PTP_READY"]
     \/ s.op = "promote unmapped"
        /\ adapter' = [adapter EXCEPT !.state = "PTP_READY", !.mmio = FALSE]
     \/ s.op = "usable" /\ adapter' = [adapter EXCEPT !.state = AtLeastState("BAR_MAPPED"),
          !.initialized = TRUE, !.access = TRUE, !.mmio = TRUE]
     \/ s.op = "rebound" /\ adapter' = [adapter EXCEPT !.state = "BAR_MAPPED",
          !.initialized = TRUE, !.access = TRUE]
  /\ Test(a, s, TRUE)
  /\ UNCHANGED <<load, stamp, regs, clock, phy, timer, hist>>

\* The increment of a halted clock is taken for a clock that runs.
PromoteTicking(a, s) ==
  /\ s.op = "promote ticking"
  /\ Test(a, s, TRUE)
  /\ adapter' = [adapter EXCEPT !.state = "PTP_READY"]
  /\ hist' = [hist EXCEPT !.assumed = @ \/ "DISABLE" \in regs["TSAUXC"]]
  /\ UNCHANGED <<load, stamp, regs, clock, phy, timer>>

UserStops(a, s) ==
  /\ s.op = "user stops"
  /\ Test(a, s, TRUE)
  /\ hist' = [hist EXCEPT !.halted = TRUE]
  /\ UNCHANGED <<load, stamp, adapter, regs, clock, phy, timer>>

(***************************************************************************)
(* The requests end; the timer may go on.                                  *)
(***************************************************************************)
Quiet == \A a \in Actors : ~Busy(a)
Finished == Quiet /\ ~timer.armed /\ UNCHANGED vars

Next ==
  \/ \E a \in Turn : \E s \in Steps(a) :
       \/ ReadReg(a, s) \/ PutReg(a, s) \/ WriteReg(a, s) \/ ClearReg(a, s) \/ EditCopy(a, s)
       \/ ReadClockHalf(a, s) \/ Recheck(a, s) \/ SetClockHalf(a, s) \/ SetSoftClock(a, s)
       \/ ReadStamp(a, s) \/ NextMessage(a, s) \/ ReportStamp(a, s)
       \/ AcquirePhy(a, s) \/ ReleasePhy(a, s) \/ UsePhy(a, s)
       \/ Report(a, s) \/ SetTimer(a, s) \/ StopTimer(a, s) \/ TestTimer(a, s)
       \/ Borrow(a, s) \/ TestContext(a, s) \/ TestMapping(a, s) \/ TestAccess(a, s)
       \/ MapBar(a, s) \/ SetContext(a, s) \/ PromoteTicking(a, s) \/ UserStops(a, s)
  \/ HiddenActors = {} /\ (Tick \/ MiniportReadsClock \/ Packet \/ FirmwareUsesPhy
                             \/ Expire \/ Fire)
  \/ Finished

Spec == Init /\ [][Next]_vars

(***************************************************************************)
(* Properties.                                                             *)
(***************************************************************************)
\* The state is made of the values the driver and the adapter can hold; no
\* register is given what another one means.
TypeOK ==
  /\ adapter \in [state : {"BOUND", "BAR_MAPPED", "PTP_READY"}, mapped : BOOLEAN,
                  private : BOOLEAN, initialized : BOOLEAN, access : BOOLEAN,
                  mmio : BOOLEAN, leaked : BOOLEAN]
  /\ DOMAIN regs = Registers /\ \A r \in Registers : regs[r] \subseteq FlagsOf[r]
  /\ clock.time \in 0..MaxTime /\ clock.shadow \subseteq FlagsOf["TSAUXC"]
  /\ clock.offset \in {"none", "clock", "torn", "disturbed"}
  /\ phy.owners \subseteq Threads
  /\ \A a \in Actors : /\ local[a].pc \in 0..Len(Program(a).steps)
                       /\ local[a].seen \in {"none", "clock", "torn", "disturbed", "unsure"}

\* The time a request answers with is one the clock had while it was read,
\* unless another reader moved the latch or another request set the clock
\* in between; on the I219, whose reads are rechecked, even then.
ReadsAreTimes ==
  \A a \in Actors : \A s \in Steps(a) : s.op = "answer time" => local[a].seen # "torn"

\* A packet's timestamp is reported whole: both halves are of one packet.  A
\* sent one is reported once; an event goes with the message that came in,
\* unless a message came that found the latch taken or GET_RX_TIMESTAMP took
\* its timestamp (RXTT is not tested: the event then has an older one, and
\* what is read from the empty latch may be torn).  All of it unless two
\* readers were at the registers (they take no lock).
StampsAreWhole ==
  \A a \in Actors : \A s \in Steps(a) : ~local[a].stamp.shared =>
    LET r == local[a].stamp
    IN CASE s.op \in {"post stamp", "answer stamp"} -> r.low = r.high /\ r.low > hist.stamped
         [] s.op = "answer receipt" -> r.empty \/ r.low = r.high
         [] s.op = "post receipt" -> stamp.missed \/ (r.low = r.of /\ r.high = r.of)
         [] OTHER -> TRUE

\* An adapter that is ready and idle has a running clock, unless a user
\* halted it, or a request wrote back a TSAUXC another one had changed
\* since (set_systime halts the clock for its two writes), or a request
\* called it ready for its increment alone, which ADJUST_FREQUENCY sets of
\* a halted clock as well.  Nothing in the driver starts the I217's.
ClockRuns ==
  Quiet /\ adapter.mapped /\ adapter.mmio /\ adapter.state = "PTP_READY" /\ "DISABLE" \in regs["TSAUXC"]
    => hist.halted \/ hist.lost \/ hist.assumed \/ load.device = "i217"

\* An adapter with registers is not called ready before its clock has an
\* increment (AVB_HW_PTP_READY).  The I217 and the I219 are called ready
\* without registers, less INTEL_CAP_MMIO; where another request maps them
\* then, the clock has its increment once that request is done; so has one
\* the adapter's power cycle reset, once FilterRestart is done.
ReadyMeansTicking ==
  adapter.state = "PTP_READY" /\ adapter.mapped /\ adapter.mmio
    => \/ regs["TIMINCA"] # {}
       \/ ~Quiet /\ (IsMdioFamily(load.device) \/ load.resumes)

\* hw_state says BAR_MAPPED only of an adapter with registers behind it, and
\* a mapping is replaced only where two requests found none at once.
StateMatchesMapping ==
  /\ adapter.state = "BAR_MAPPED" => adapter.mapped
  /\ adapter.leaked => hist.bothmapped

\* What discovery and PCI access take from the system (references to the
\* device, its table, a window, a request, the bus interface) is taken once,
\* used and given back only while it is held, and by the end given back.
BorrowedIsReturned ==
  \A a \in Actors :
    /\ Busy(a) \/ local[a].held = {}
    /\ \A s \in Steps(a) :
         /\ s.op = "take" => s.reg \notin local[a].held
         /\ s.op \in {"use", "give"} => s.reg \in local[a].held

\* The PHY changes hands only through its flag: a request sends its commands
\* while the firmware sends none, unless two requests came to hold the one
\* flag (mdic_read_locked and its like count on the acquire before them), and
\* each way out of an MDIO request gives the flag up.
PhyIsHandedOver ==
  /\ phy.firmware /\ ~phy.shared
       => \A a \in Actors : \A s \in Steps(a) : s.op \notin {"command", "poll"}
  /\ \A a \in phy.owners : Busy(a)
  /\ Quiet => ~phy.bit \/ phy.shared

\* When AvbStopTimers returns, the target-time timer is not armed and its
\* DPC not under way, so no register of a paused adapter is read, unless a
\* request was setting the timer meanwhile.
NoPollAfterStop ==
  load.runs["stop"] # "none" /\ ~Busy("stop") /\ ~hist.raced => ~timer.armed /\ DpcDone

\* No expiry of the target time is cleared from TSICR without a subscriber
\* or a user being told, however the DPCs and GET_AUX_TIMESTAMP interleave
\* (one that comes between a report and its clear goes with the report).
ExpiryIsReported == ~hist.unreported
=============================================================================
