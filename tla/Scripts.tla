------------------------------ MODULE Scripts ------------------------------
(***************************************************************************)
(* The scripts of everybody who works on an adapter, for every adapter:    *)
(* the requests', the two DPCs', AvbStopTimers'.  And what their steps     *)
(* speak of: the states of a context, the registers that have a content.   *)
(***************************************************************************)
EXTENDS AvbRequests, TLC

LOCAL I226 == INSTANCE I226Device

States  == <<"BOUND", "BAR_MAPPED", "PTP_READY">>
Rank(s) == CHOOSE i \in DOMAIN States : States[i] = s
FlagsOf == [TSAUXC |-> {"DISABLE", "EN_TT0", "EN_CLK0"}, TIMINCA |-> {"RATE", "ADJUSTED"},
            TSICR |-> {"TT0"}, TQAVCTRL |-> {"TSN", "QAV"}]
Registers == DOMAIN FlagsOf

\* The steps at the registers that hold a packet's timestamp, and those that
\* pass it on.
StampReads   == {"stamp ready", "stamp low", "stamp high", "receipt low", "receipt high"}
StampReports == {"post stamp", "answer stamp", "post receipt", "answer receipt"}

(***************************************************************************)
(* Scripts with the places their steps go to worked out; 0 is the end.     *)
(***************************************************************************)
Linked(s) ==
  LET place[i \in 1..Len(s) + 1] == IF i > Len(s) THEN 0
                                     ELSE IF s[i].op = "skip" THEN place[i + s[i].hit] ELSE i
  IN [start |-> place[1],
      steps |-> [i \in 1..Len(s) |->
        [s[i] EXCEPT !.hit = place[i + @], !.miss = IF @ = 0 THEN 0 ELSE place[i + @]]]]

Programs == [t \in AvbGetIntelDeviceType |->
  LET requests == Requests(intel_device(t))
  IN [r \in DOMAIN requests |-> Linked(requests[r])]
     @@ [none |-> Linked(Nothing), AvbStopTimers |-> Linked(AvbStopTimers),
         AvbTxTimestampPollDpc |-> Linked(AvbTxTimestampPollDpc(intel_device(t))),
         AvbTimerDpcRoutine |-> Linked(I226!AvbTimerDpcRoutine)]]
=============================================================================
