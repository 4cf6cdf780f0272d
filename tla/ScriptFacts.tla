---------------------------- MODULE ScriptFacts ----------------------------
(***************************************************************************)
(* What an actor knows wherever it is in its script, whatever the others   *)
(* do meanwhile: a data-flow analysis of the scripts.  Each step teaches   *)
(* facts or lets go of them, by whether it succeeds; what is known before  *)
(* a step is what is known on every way to it.  Annotation works that out, *)
(* and TLC evaluates, once for every script of every adapter, that the     *)
(* result is sound and answers what the steps need (FactsAreSound).  What  *)
(* a fact says of a state of AvbHardware, and that it is so in every one   *)
(* that can be reached, is in AvbHardwareProofs (Means, FactsHold).        *)
(***************************************************************************)
EXTENDS Scripts

Flags == UNION {FlagsOf[r] : r \in Registers}
NoRequests == {"none", "AvbStopTimers", "AvbTxTimestampPollDpc", "AvbTimerDpcRoutine"}
Lent == {"file", "pdo", "table", "window", "irp", "interface", "list"}

(***************************************************************************)
(* The facts, each a kind and what it is about, if anything; "never"       *)
(* stands for a step that is not reached.                                  *)
(***************************************************************************)
F(kind) == <<kind, "">>
AllFacts ==
  {F(kind) : kind \in {"never", "private", "registers", "ticking", "content", "honest", "told",
                       "tells", "unmapped", "sure", "half", "owner", "apart",
                       "whole", "begun", "lower", "judged", "true", "early", "started", "owes", "current",
                       "latched", "halved", "stamped", "due", "lowered", "received"}}
  \cup ({"held", "free"} \X Lent) \cup ({"fits"} \X Registers)

Reached   == {F("private"), F("registers")}
Initially == {F("honest"), F("tells"), F("sure"), F("apart"), F("whole"), F("true"), F("due")}
             \cup ({"free"} \X Lent) \cup ({"fits"} \X Registers)
Finally   == {F("apart")} \cup ({"free"} \X Lent)

(***************************************************************************)
(* The outcomes of a step.                                                 *)
(***************************************************************************)
\* These succeed if, and only if, the access reaches the adapter, ...
Accesses == {"read", "write", "put", "clear", "low", "high", "latch", "set low", "set high",
             "stamp low", "receipt low", "receipt high", "grab", "command", "release"}
\* ... these only if it does, ...
Queries  == {"stamp ready", "stamp high", "recheck", "await", "confirm", "poll"}
\* ... and these always.
Certain  == {"load", "change", "read shadow", "write shadow", "offset", "post stamp", "answer stamp",
             "post receipt", "answer receipt", "post", "answer flag", "set timer", "poll active",
             "poll stopped", "cancel", "flush", "answer time", "answer phy", "launch time", "give",
             "use", "allocate", "baseline", "drop mmio", "initialise", "promote",
             "promote ticking", "promote unmapped", "usable", "rebound", "user stops"}

Possible(s, ok, K) ==
  /\ F("never") \notin K
  /\ ok => s.op \notin {"fail", "skip"}
  /\ ~ok => /\ s.op \notin Certain
            /\ ~(s.op \in Accesses /\ Reached \subseteq K)
            /\ ~(s.op = "private" /\ F("private") \in K)
            /\ ~(s.op = "mapped" /\ F("registers") \in K)

Target(s, ok) == IF ok THEN s.hit ELSE s.miss

(***************************************************************************)
(* What a step teaches one who knows K, what it leaves known, and both.    *)
(***************************************************************************)
Fills(s)   == s.op = "read" /\ s.reg \in Registers
Halving    == {"low", "high", "latch"}
OfStamps   == StampReads \cup {"event message"} \cup StampReports
Refills(s) == s.op \in {"load", "change", "read shadow"} \/ Fills(s)

\* A store to TSAUXC starts the clock, or halts it until the same function
\* starts it again; the copy such a store is made from may be of a halted one.
OnTsauxc(s) == s.op \in {"write", "put"} /\ s.reg = "TSAUXC"
Starts(s)   == OnTsauxc(s) /\ "DISABLE" \notin s.on /\ (s.op = "write" \/ "DISABLE" \in s.off)
Halts(s)    == OnTsauxc(s) /\ "DISABLE" \in s.on

Taught(f, d, s, ok, K) ==
  LET reaches == ok /\ (s.op \in Accesses \cup Queries \/ (s.op = "at least" /\ ~IsMdioFamily(d)))
  IN CASE f[1] = "held"      -> s.op = "take" /\ s.reg = f[2] /\ ok
       [] f[1] = "free"      -> s.op = "give" /\ s.reg = f[2]
       [] f[1] = "fits"      -> \/ Fills(s) /\ (s.reg = f[2] \/ ~ok)
                                \/ s.op = "load" /\ s.on \subseteq FlagsOf[f[2]]
                                \/ s.op = "read shadow" /\ f[2] = "TSAUXC"
       [] f[1] = "private"   -> reaches \/ (ok /\ s.op \in {"private", "allocate"})
       [] f[1] = "registers" -> reaches \/ (ok /\ s.op \in {"mapped", "map", "accessible"})
       [] f[1] = "ticking"   -> ok /\ \/ s.op \in {"write", "put"} /\ s.reg = "TIMINCA"
                                      \/ s.op = "holds" /\ F("honest") \in K
       [] f[1] = "content"   -> s.op = "load" /\ s.on # {}
       [] f[1] = "honest"    -> s.op = "read" /\ s.reg = "TIMINCA"
       [] f[1] = "told"      -> ok /\ \/ s.op = "post"
                                      \/ s.op = "holds" /\ s.on = {"TT0"} /\ F("tells") \in K
       [] f[1] = "tells"     -> s.op = "answer flag"
       [] f[1] = "unmapped"  -> (s.op = "mapped" /\ ~ok) \/ (s.op = "bound unmapped" /\ ok)
       [] f[1] = "sure"      -> \/ s.op = "low" /\ ~ok
                                \/ s.op = "high" /\ (~ok \/ F("half") \in K)
                                \/ s.op = "recheck" /\ ok
       [] f[1] = "half"      -> s.op = "low"
       [] f[1] = "whole"     -> s.op = "offset" \/ (s.op = "high" /\ ok /\ F("lower") \in K)
       [] f[1] = "begun"     -> d = "i210" /\ s.op = "latch" /\ ok /\ F("whole") \in K
       [] f[1] = "lower"     -> s.op = "low" /\ ok /\ F(IF d = "i210" THEN "begun" ELSE "whole") \in K
       [] f[1] = "judged"    -> s.op = "high" /\ ok /\ F("lower") \in K /\ d = "i219"
       [] f[1] = "true"      -> \/ s.op = "offset"
                                \/ s.op = "high" /\ ok /\ F("lower") \in K /\ d # "i219"
                                \/ s.op = "recheck" /\ F("judged") \in K /\ (ok \/ Reached \subseteq K)
       [] f[1] = "early"     -> \/ ok /\ s.op = "bound unmapped"
                                \/ ~ok /\ \/ s.op \in {"mapped", "private"} \cup Accesses
                                          \/ s.op = "at least" /\ s.reg = "BAR_MAPPED"
       [] f[1] = "started"   -> Starts(s) /\ ok
       [] f[1] = "owes"      -> Halts(s)
       [] f[1] = "current"   -> \/ Fills(s) /\ s.reg = "TSAUXC"
                                \/ s.op = "change" /\ "DISABLE" \in s.off \ s.on
                                \/ s.op = "load" /\ "DISABLE" \notin s.on
                                \/ s.op = "user stops"
       [] f[1] = "latched"   -> s.op = "stamp ready" /\ ok
       [] f[1] = "halved"    -> ok /\ IF d = "i226" THEN s.op = "stamp low" /\ F("latched") \in K
                                      ELSE s.op = "stamp high"
       [] f[1] = "stamped"   -> /\ ok /\ F("halved") \in K
                                /\ s.op = IF d = "i226" THEN "stamp high" ELSE "stamp low"
       [] f[1] = "due"       -> s.op \in StampReports \/ (s.op = "event message" /\ ok)
       [] f[1] = "lowered"   -> s.op = "receipt low" /\ ok /\ F("due") \in K
       [] f[1] = "received"  -> s.op = "receipt high" /\ ok /\ {F("due"), F("lowered")} \subseteq K
       [] f[1] = "owner"     -> s.op = "confirm" /\ ok
       [] f[1] = "apart"     -> s.op = "release"
       [] OTHER -> FALSE

Kept(f, s, ok) ==
  CASE f[1] = "held"     -> ~(s.op = "give" /\ s.reg = f[2])
    [] f[1] = "free"     -> ~(s.op = "take" /\ s.reg = f[2] /\ ok)
    [] f[1] = "fits"     -> ~Refills(s) \/ (s.op = "change" /\ s.on \subseteq FlagsOf[f[2]])
    [] f[1] \in {"content", "honest", "tells"} -> ~Refills(s)
    [] f[1] = "unmapped" -> s.op \notin {"mapped", "bound unmapped", "map"} /\ ~Fills(s)
    [] f[1] = "sure"     -> s.op # "recheck"
    [] f[1] = "half"     -> s.op \notin {"high", "latch", "recheck"}
    [] f[1] = "whole"    -> ~(ok /\ s.op \in Halving)
    [] f[1] \in {"begun", "lower", "judged"} ->
         s.op \notin {"recheck", "offset"} \cup (IF ok THEN Halving \cup {"set low", "set high"} ELSE {})
    [] f[1] = "true"     -> ~(ok /\ s.op \in Halving \cup {"recheck"})
    [] f[1] \in {"latched", "halved", "stamped", "lowered", "received"} -> s.op \notin OfStamps
    [] f[1] = "due"      -> s.op \notin {"receipt high", "event message"}
    [] f[1] = "owner"    -> s.op # "release"
    [] f[1] = "apart"    -> ~(s.op = "confirm" /\ ok)
    [] f[1] = "owes"     -> ~Starts(s) /\ (ok \/ s.op \notin Accesses)
    [] f[1] = "current"  -> /\ ~Refills(s) \/ (s.op = "change" /\ "DISABLE" \notin s.on)
                            /\ s.op \notin {"mapped", "bound unmapped"} /\ ~Starts(s)
    [] OTHER -> TRUE

After(d, s, ok, K) == {f \in AllFacts : Taught(f, d, s, ok, K) \/ (f \in K /\ Kept(f, s, ok))}

(***************************************************************************)
(* What has to be known before a step, for the properties and for the      *)
(* facts of the others; and what a step has to look like.                  *)
(***************************************************************************)
Needs(d, s) ==
  LET need(c, fs) == IF c THEN fs ELSE {}
  IN UNION {
    need(s.op = "put" /\ s.reg \in Registers, {<<"fits", s.reg>>}),
    need(s.op = "put" /\ s.reg = "TIMINCA", {F("content")}),
    need(s.op = "write shadow", {<<"fits", "TSAUXC">>}),
    need(s.op = "offset", {F("sure")}),
    need(s.op = "answer time", {F("true")}),
    need(s.op = "take", {<<"free", s.reg>>}),
    need(s.op \in {"use", "give"}, {<<"held", s.reg>>}),
    need(s.op \in {"command", "poll"} /\ IsMdioFamily(d), {F("owner")}),
    need(s.op = "release", {F("owner")} \cup Reached),
    need(s.op = "map", {F("unmapped")}),
    need(s.op \in {"usable", "rebound"}, {F("registers")} \cup need(~IsMdioFamily(d), {F("private")})),
    need(s.op \in {"promote", "promote ticking"}, {F("ticking")} \cup need(~IsMdioFamily(d), Reached)),
    need(s.op = "promote" /\ d # "i217", {F("started")}),
    need(s.op = "promote unmapped", {F("early")}),
    need(OnTsauxc(s) /\ ~Starts(s) /\ ~Halts(s), {F("current")}),
    need(s.op \in {"post stamp", "answer stamp"}, {F("stamped")}),
    need(s.op \in {"post receipt", "answer receipt"}, {F("received")}),
    need(s.op = "receipt high", {F("due")}),
    need(s.op = "clear", {F("told")})}

Shaped(s) ==
  /\ s.hit \in Nat /\ s.miss \in Nat
  /\ s.op \in {"load", "change"} => s.on \subseteq Flags
  /\ s.op \in {"write", "put"} /\ s.reg \in Registers => s.on \subseteq FlagsOf[s.reg]
  /\ s.op = "write" /\ s.reg = "TIMINCA" => s.on # {}
  /\ s.op = "put" /\ s.reg = "TIMINCA" => s.off = {}
  /\ s.op = "write" /\ s.reg = "TSAUXC" => "DISABLE" \notin s.on
  /\ s.op = "clear" => s.reg = "TSICR"
  /\ s.op \in {"take", "give", "use"} => s.reg \in Lent
  /\ s.op = "at least" => s.reg \in {"BAR_MAPPED", "PTP_READY"}

\* Step s of script p, of program r of device d.
WellFormed(d, r, p, s) ==
  /\ Shaped(s)
  /\ s.op = "promote unmapped" => IsMdioFamily(d)
  /\ s.op \in {"set low", "set high"} => d # "i219"
  /\ s.op = "grab" => s.hit # 0 /\ p.steps[s.hit].op = "confirm"
  /\ s.op = "confirm" => r \notin NoRequests
  /\ s.op \in {"poll stopped", "cancel", "flush"} => r = "AvbStopTimers"

(***************************************************************************)
(* The analysis goes through a script once, carrying the edges to what is  *)
(* still ahead: a step is reached only from before it.                     *)
(***************************************************************************)
Annotation(d, p) ==
  LET Edges == [to : DOMAIN p.steps, facts : SUBSET AllFacts]
      Pass(i, edges) ==
        LET s == p.steps[i]
            K == {f \in AllFacts : \A e \in edges : e.to = i => f \in e.facts}
            on == {ok \in BOOLEAN : Possible(s, ok, K) /\ Target(s, ok) # 0}
        IN [known |-> <<K>>,
            edges |-> {e \in edges : e.to # i}
                      \cup {[to |-> Target(s, ok), facts |-> After(d, s, ok, K)] : ok \in on}]
      passed[i, j \in Nat, edges \in SUBSET Edges] ==
        IF i >= j THEN Pass(i, edges)
        ELSE LET m     == (i + j) \div 2
                 left  == passed[i, m, edges]
                 right == passed[m + 1, j, left.edges]
             IN [known |-> left.known \o right.known, edges |-> right.edges]
  IN IF p.steps = <<>> THEN <<>>
     ELSE passed[1, Len(p.steps), {[to |-> p.start, facts |-> Initially]}].known

\* What FilterRestart knows at its end: the clock ticks and was started.
Resumed(d, K) == F("early") \in K \/ (F("ticking") \in K /\ (F("started") \in K \/ d = "i217"))

Sound(d, r, p, K) ==
  /\ Len(p.steps) \in Nat /\ DOMAIN p.steps = 1..Len(p.steps)
  /\ p.start # 0 => p.start \in DOMAIN p.steps /\ K[p.start] \subseteq Initially
  /\ r = "FilterRestart" => p.start # 0
  /\ \A i \in DOMAIN p.steps : F("never") \notin K[i] =>
       LET s == p.steps[i] IN
       /\ WellFormed(d, r, p, s) /\ Needs(d, s) \subseteq K[i]
       /\ \A ok \in BOOLEAN : Possible(s, ok, K[i]) =>
            LET after == After(d, s, ok, K[i]) IN
            IF Target(s, ok) = 0
            THEN /\ Finally \subseteq after /\ F("owes") \notin after
                 /\ r = "FilterRestart" /\ d # "i225" => Resumed(d, after)
            ELSE /\ Target(s, ok) \in DOMAIN p.steps
                 /\ K[Target(s, ok)] \subseteq after
                 /\ F("owes") \in after => F("owes") \in K[Target(s, ok)]

Facts == [t \in AvbGetIntelDeviceType |->
            [r \in DOMAIN Programs[t] |-> Annotation(t, Programs[t][r])]]

ASSUME FactsAreSound ==
  \A t \in AvbGetIntelDeviceType : \A r \in DOMAIN Programs[t] :
    Sound(t, r, Programs[t][r], Facts[t][r])

\* AvbStopTimers, step by step: all or nothing of it.
StopOps == <<"poll started", "poll stopped", "cancel", "flush", "cancel", "flush">>
ASSUME StopIsStraight ==
  \A t \in AvbGetIntelDeviceType :
    LET p == Programs[t]["AvbStopTimers"]
    IN /\ p.start = 1 /\ DOMAIN p.steps = 1..6
       /\ \A i \in 1..6 : /\ p.steps[i].op = StopOps[i] /\ p.steps[i].miss = 0
                          /\ p.steps[i].hit = IF i = 6 THEN 0 ELSE i + 1

ASSUME ProgramsAreNamed ==
  \A t \in AvbGetIntelDeviceType :
    LET requests == DOMAIN Requests(intel_device(t))
    IN requests \cap NoRequests = {} /\ DOMAIN Programs[t] = requests \cup NoRequests
=============================================================================
