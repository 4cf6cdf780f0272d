--------------------------- MODULE MCAvbHardware ---------------------------
(***************************************************************************)
(* The workloads TLC explores: every request alone on every adapter in     *)
(* every state, and the pairs whose steps can get in each other's way.     *)
(***************************************************************************)
EXTENDS AvbHardware

Work(d, s, r1, r2, stop, poll, firmware) ==
  [device |-> d,
   start |-> CASE s = "RESET" -> "BAR_MAPPED" [] s = "RESUMED" -> "PTP_READY" [] OTHER -> s,
   reset |-> s \in {"BOUND", "RESET", "RESUMED"}, resumes |-> s = "RESUMED",
   firmware |-> firmware, latch |-> "none",
   runs |-> [t1 |-> r1, t2 |-> r2, tt |-> "AvbTimerDpcRoutine",
             poll |-> IF poll THEN "AvbTxTimestampPollDpc" ELSE "none",
             stop |-> IF stop THEN "AvbStopTimers" ELSE "none"]]

\* The I225, that has no table of operations, is never brought up.
Alone ==
  {Work(d, s, r, "none", FALSE, FALSE, FALSE) :
     d \in AvbGetIntelDeviceType \ {"i225"}, s \in {"BOUND", "RESET", "BAR_MAPPED", "PTP_READY"},
     r \in DOMAIN Requests(intel_device("i226"))}
  \cup {Work("i225", "BOUND", r, "none", FALSE, FALSE, FALSE) :
          r \in DOMAIN Requests(intel_device("i225"))}

\* The clock, read, set, halted and started by two requests at once.
OnTheClock ==
  {Work(d, "PTP_READY", r, q, FALSE, FALSE, FALSE) :
     d \in {"i210", "i219", "i226"}, r \in {"GET_TIMESTAMP", "PHC_CROSSTIMESTAMP"},
     q \in {"GET_TIMESTAMP", "SET_TIMESTAMP", "PHC_OFFSET_ADJUST"}}
  \cup
  {Work(d, "PTP_READY", r, q, FALSE, FALSE, FALSE) :
     d \in {"i210", "i226"}, r \in {"SET_TIMESTAMP", "INIT_DEVICE", "HW_TIMESTAMPING_RUN"},
     q \in {"SET_TIMESTAMP", "HW_TIMESTAMPING_RUN", "HW_TIMESTAMPING_STOP", "SET_TARGET_TIME"}}

\* The increment of a clock that was reset, set by one request and believed
\* by another.
OnTheIncrement ==
  {Work(d, "RESET", "ADJUST_FREQUENCY", q, FALSE, FALSE, FALSE) :
     d \in {"i210", "i226"}, q \in {"GET_TIMESTAMP", "HW_TIMESTAMPING_RUN"}}

\* Two requests that bring up the same adapter.
BringingUp ==
  {Work(d, "BOUND", "OPEN_ADAPTER", "GET_HW_STATE", FALSE, FALSE, FALSE) :
     d \in {"i217", "i219", "i226"}}
  \cup {Work("i219", "BOUND", "INIT_DEVICE", "GET_HW_STATE", FALSE, FALSE, FALSE),
        Work("i217", "BOUND", "OPEN_ADAPTER", "OPEN_ADAPTER", FALSE, FALSE, FALSE)}

\* The PHY, shared with the firmware and with another request.
OnThePhy ==
  {Work(d, "BAR_MAPPED", "MDIO_READ", q, FALSE, FALSE, TRUE) :
     d \in {"i217", "i219"}, q \in {"none", "MDIO_READ", "MDIO_WRITE"}}

\* The target time, its two pollers, and the stop.
OnTargetTime ==
  {Work("i226", "PTP_READY", "SET_TARGET_TIME", "none", TRUE, FALSE, FALSE),
   Work("i226", "PTP_READY", "SET_TARGET_TIME", "GET_AUX_TIMESTAMP", TRUE, FALSE, FALSE),
   Work("i226", "PTP_READY", "SET_TARGET_TIME", "GET_AUX_TIMESTAMP", FALSE, TRUE, FALSE)}

\* The timestamps of packets, taken by the polling DPC and by two requests.
OnStamps ==
  {[Work(d, "PTP_READY", "GET_TX_TIMESTAMP", q, FALSE, TRUE, FALSE) EXCEPT !.latch = "TX"] :
     d \in {"i210", "i226"}, q \in {"none", "GET_TX_TIMESTAMP"}}
  \cup
  {[Work(d, "PTP_READY", "FilterReceiveNetBufferLists", q, FALSE, FALSE, FALSE) EXCEPT !.latch = "RX"] :
     d \in {"i210", "i226"}, q \in {"none", "GET_RX_TIMESTAMP"}}

\* Back from a sleep that reset the adapter; requests do not wait for it.
Resuming ==
  {Work(d, "RESUMED", "FilterRestart", q, FALSE, FALSE, FALSE) :
     d \in AvbGetIntelDeviceType \ {"i225"},
     q \in {"none", "GET_TIMESTAMP", "SET_TIMESTAMP", "ADJUST_FREQUENCY", "HW_TIMESTAMPING_RUN"}}

MCWorkloads == Resuming \cup OnStamps \cup Alone \cup OnTheClock \cup OnTheIncrement \cup BringingUp
               \cup OnThePhy \cup OnTargetTime
=============================================================================
