---------------------------- MODULE AvbRequests ----------------------------
(***************************************************************************)
(* Hardware bring-up, the requests that touch the adapter, and the DPC of  *)
(* the driver's own target-time check, as scripts of register accesses and *)
(* of steps on the context.  Requests are well formed: what is rejected    *)
(* for its arguments does nothing.  Stores to the context with no access   *)
(* between them are one step.                                              *)
(***************************************************************************)
EXTENDS IntelKernel

Mapped      == Do("mapped")        \* hardware_context # NULL
Initialized == Do("initialized")
MmioCap     == Do("has mmio")      \* INTEL_CAP_MMIO

Discover == AvbDiscoverIntelControllerResources
Map      == Do("map")

\* The registers answer: capability, state (never lowered here), the two flags.
Usable  == Read("CTRL") \o Do("usable")
\* The same from the handlers that set the state whatever it was.
Rebound == Read("CTRL") \o Do("rebound")

(***************************************************************************)
(* What an adapter can do: by its type, as bring-up writes it down, and by *)
(* the operations the driver has for it, as GET_HW_STATE answers it.       *)
(***************************************************************************)
Baseline(type) ==
  LET tsn == {"ENHANCED_TS", "TSN_TAS", "TSN_FP", "PCIe_PTM", "2_5G"} IN
  {"MMIO", "BASIC_1588"} \cup
  CASE type = "i210" -> {"ENHANCED_TS", "EEE"}
    [] type = "i217" -> {"MDIO"}
    [] type = "i219" -> {"ENHANCED_TS", "MDIO"}
    [] type = "i225" -> tsn
    [] type = "i226" -> tsn \cup {"MDIO", "EEE"}

AvbGetLwfSupportedCapabilities(device, capabilities, mapped) ==
  LET needs == [MMIO |-> {}, MDIO |-> {"mdio_read", "mdio_write"},
                BASIC_1588 |-> {"init_ptp", "get_systime"},
                ENHANCED_TS |-> {"enable_packet_timestamping", "read_tx_timestamp",
                                 "read_rx_timestamp"},
                TSN_TAS |-> {"setup_tas"}, TSN_FP |-> {"setup_frame_preemption"},
                PCIe_PTM |-> {"setup_ptm"}]
      offered == {c \in DOMAIN needs : mapped /\ \A op \in needs[c] : Has(device.ops[op])}
  IN capabilities \cap ({"2_5G", "EEE"} \cup offered)

(***************************************************************************)
(* Bring-up.  I217 and I219 go on without registers; the others do not.    *)
(***************************************************************************)
AvbPerformBasicInitialization_eager(device) ==
  Unless(Do("accessible"), Do("allocate") \o Do("usable") \o Discover \o Map \o intel_init(device))

\* What is left to do once the registers are mapped, or were before.
Initialise(device) == Do("allocate") \o intel_init(device) \o Usable

AvbPerformBasicInitialization(device) ==
  Unless(Do("accessible"),
    IF IsMdioFamily(device.type)
    THEN Either(Unless(Mapped, OrElse(Discover, AvbDiscoverIntelControllerResourcesAlternative) \o Map),
                Initialise(device), Do("initialise"))
    ELSE Unless(Mapped, Discover \o Map) \o Initialise(device))

AvbBringUpHardware(device) ==
  Do("baseline")
  \o Attempt(AvbPerformBasicInitialization(device)
             \o Unless(Mapped, Do("drop mmio"))
             \o When(AtLeast("BAR_MAPPED"), Attempt(intel_init(device))))

\* NDIS restarts the filter, as after a sleep that reset the adapter.
FilterRestart(device) == AvbBringUpHardware(device)

AvbEnsureDeviceReady_unstarted(device) == AtLeast("BAR_MAPPED") \o Do("promote")

AvbEnsureDeviceReady(device) ==
  AtLeast("BAR_MAPPED")
  \o Either(AtLeast("PTP_READY"),
            IF device.type # "i210" THEN Nothing
            ELSE Attempt(Op(device, "read_tsauxc") \o Holds({"DISABLE"})
                         \o Change({}, {"DISABLE"}) \o Op(device, "write_tsauxc")),
            intel_init(device) \o Do("promote"))
AvbI210EnsureSystimRunning(device) == AvbEnsureDeviceReady(device)

(***************************************************************************)
(* Requests that bring the adapter up.                                     *)
(***************************************************************************)
\* Once per handle (FsContext2): the two threads have a handle each.
INIT_DEVICE(device) ==
  Unless(Initialized, AvbBringUpHardware(device))
  \o Unless(Mapped, Attempt(Discover \o Map \o intel_init(device) \o Rebound))
  \o AvbBringUpHardware(device)

GET_HW_STATE(device) ==
  When(Do("bound unmapped"),
       Attempt(Discover \o Map \o intel_init(device) \o Rebound
               \o (IF device.type = "i210" THEN AvbI210EnsureSystimRunning(device) ELSE Nothing)))

OPEN_ADAPTER(device) ==
  Unless(Initialized \o AtLeast("BAR_MAPPED"), AvbBringUpHardware(device))
  \o (IF IsMdioFamily(device.type)
      THEN Either(AtLeast("BAR_MAPPED") \o Mapped, Attempt(AvbEnsureDeviceReady(device)),
                  Do("promote unmapped"))
      ELSE When(AtLeast("BAR_MAPPED"), Attempt(AvbEnsureDeviceReady(device))))

\* Requests that promote an adapter whose clock already has an increment.
LazilyReady(device, families) ==
  Unless(AtLeast("PTP_READY"),
    When(AtLeast("BAR_MAPPED"),
      Either(Op(device, "read_timinca") \o Holds({"RATE", "ADJUSTED"}), Do("promote ticking"),
             IF device.type \in families THEN Attempt(AvbEnsureDeviceReady(device)) ELSE Nothing)))
  \o AtLeast("PTP_READY")

(***************************************************************************)
(* The clock.                                                              *)
(***************************************************************************)
GET_TIMESTAMP(device) ==
  Initialized \o LazilyReady(device, {"i210", "i225", "i226", "i219"})
  \o OrElse(Op(device, "get_systime"), intel_gettime(device)) \o Do("answer time")
SET_TIMESTAMP(device) ==
  Initialized \o LazilyReady(device, {"i210", "i225", "i226", "i219"})
  \o intel_gettime(device) \o May \o intel_set_systime(device)
PHC_OFFSET_ADJUST(device) ==
  Initialized \o intel_gettime(device) \o May \o intel_set_systime(device)
PHC_CROSSTIMESTAMP(device) ==
  Initialized \o AtLeast("PTP_READY") \o Op(device, "get_systime") \o Do("answer time")
FASTIO_PHC_CROSSTIMESTAMP(device) ==
  AtLeast("PTP_READY") \o Op(device, "get_systime") \o Do("answer time")

\* The time before an injected packet; a counter of the system, if there is none.
TEST_SEND_PTP(device) ==
  Attempt(AtLeast("BAR_MAPPED") \o Op(device, "get_systime") \o Do("answer time"))
\* The fast path asks for no state.  The registers of an I210 may be mapped after
\* its latch was missed: its time is then an older one, and no claim is made of it.
FASTIO_TEST_SEND_PTP(device) ==
  Attempt(Op(device, "get_systime")
          \o (IF device.type = "i210" THEN Nothing ELSE Do("answer time")))

ADJUST_FREQUENCY(device) ==
  AtLeast("BAR_MAPPED") \o Op(device, "read_timinca")
  \o Load({"ADJUSTED"}) \o Op(device, "write_timinca")

\* All three are read, whatever the others answer.
GET_CLOCK_CONFIG(device) ==
  Initialized \o AtLeast("BAR_MAPPED") \o MmioCap
  \o Attempt(Op(device, "get_systime") \o Do("answer time"))
  \o Attempt(Op(device, "read_timinca")) \o Attempt(Op(device, "read_tsauxc"))

\* TSAUXC as the request wants it, and the packets' timestamps with it.
Configure(device, setting) ==
  IF setting = "stop" THEN Change({"DISABLE"}, {"EN_TT0"}) \o Do("user stops")
  ELSE (IF setting = "run" THEN Change({}, {"DISABLE", "EN_TT0"}) ELSE Change({"EN_TT0"}, {"DISABLE"}))
       \o Attempt(OpOn(device, "enable_packet_timestamping", TRUE))
\* A read-back that differs is answered with success all the same.
WriteAndVerify(device) == Op(device, "write_tsauxc") \o Attempt(Op(device, "read_tsauxc"))

SET_HW_TIMESTAMPING(device, setting) ==
  IF ~Has(device.ops.read_tsauxc) THEN Initialized \o Fail
  ELSE Initialized \o AtLeast("BAR_MAPPED") \o Op(device, "read_tsauxc")
       \o Configure(device, setting) \o WriteAndVerify(device)

(***************************************************************************)
(* Target time, auxiliary and packet timestamps.                           *)
(***************************************************************************)
SET_TARGET_TIME(device) ==
  Initialized \o AtLeast("PTP_READY")
  \o (IF ~Has(device.ops.set_target_time) THEN Fail
      ELSE Attempt(Pair("TRGTTIML0", "TRGTTIMH0"))
           \o OrElse(Op(device, "get_systime") \o May \o Skip(2), Nothing)
           \o OpOn(device, "set_target_time", TRUE))
SET_LAUNCH_TIME(device) ==
  Initialized \o OrElse(Op(device, "get_systime"), Nothing) \o May \o Do("launch time")

GET_AUX_TIMESTAMP(device) ==
  Initialized \o LazilyReady(device, {"i210", "i225", "i226"})
  \o Op(device, "check_autt_flags") \o Attempt(Do("answer flag"))
  \o Op(device, "get_aux_timestamp")
  \o When(Holds({"TT0"}), Attempt(Op(device, "clear_aux_timestamp_flag")))
GET_TX_TIMESTAMP(device) ==
  Initialized
  \o Unless(May, AtLeast("PTP_READY") \o Op(device, "poll_tx_timestamp_fifo")
                  \o Do("answer stamp"))
GET_RX_TIMESTAMP(device) ==
  Initialized \o AtLeast("PTP_READY") \o Op(device, "read_rx_timestamp") \o Do("answer receipt")

\* The event messages (Sync, Delay_Req, Pdelay_Req, Pdelay_Resp) among what
\* the miniport indicates, up to MaxMessages of them.
MaxMessages == 2
FilterReceiveNetBufferLists(device) ==
  LET chain[n \in 0..MaxMessages] ==
        IF n = 0 THEN Nothing
        ELSE When(Do("event message"),
                  Attempt(Op(device, "read_rx_timestamp") \o Do("post receipt"))
                  \o chain[n - 1])
  IN AtLeast("BAR_MAPPED") \o chain[MaxMessages]

\* The driver's own look at the flag, from the 1 ms polling DPC.
AvbCheckTargetTime_unposted(device) ==
  AtLeast("BAR_MAPPED") \o Op(device, "check_autt_flags")
  \o When(Holds({"TT0"}), Attempt(Op(device, "clear_autt_flag")))

\* The event, if the clock can be read, and then the flag in any case.
ReportTargetTime(device) ==
  Attempt(Op(device, "get_systime") \o Do("post"))
  \o Attempt(Op(device, "clear_autt_flag"))

AvbCheckTargetTime(device) ==
  AtLeast("BAR_MAPPED") \o Op(device, "check_autt_flags")
  \o When(Holds({"TT0"}), ReportTargetTime(device))

\* What the polling DPC does once it runs (TxPoll says when): the timestamps
\* of packets, 8 at most (MaxPolls here), and the target time.
MaxPolls == 2
AvbTxTimestampPollDpc(device) ==
  LET drain[n \in 0..MaxPolls] ==
        IF n = 0 THEN Nothing
        ELSE Op(device, "poll_tx_timestamp_fifo") \o Do("post stamp") \o drain[n - 1]
  IN AtLeast("BAR_MAPPED")
     \o (IF ~Has(device.ops.poll_tx_timestamp_fifo) THEN Fail
         ELSE Attempt(drain[MaxPolls]) \o AvbCheckTargetTime(device))

(***************************************************************************)
(* Registers, queues, shaping, the PHY.                                    *)
(***************************************************************************)
GET_DEVICE_INFO(device) ==
  Initialized \o AtLeast("BAR_MAPPED") \o Attempt(intel_get_device_info(device))
READ_REGISTER  == Initialized \o AtLeast("BAR_MAPPED") \o intel_read_reg("ANY")
WRITE_REGISTER == Initialized \o AtLeast("BAR_MAPPED") \o intel_write_reg("ANY", {})
SET_RX_TIMESTAMP ==
  Initialized \o AtLeast("BAR_MAPPED") \o intel_read_reg("RXPBSIZE") \o intel_write_reg("RXPBSIZE", {})
SET_QUEUE_TIMESTAMP ==
  Initialized \o AtLeast("BAR_MAPPED") \o intel_read_reg("SRRCTL") \o intel_write_reg("SRRCTL", {})

\* Refused unless the capabilities of the adapter have it.
Shapes(device, feature) == IF feature \in Baseline(device.type) THEN Nothing ELSE Fail
SETUP_TAS(device) ==
  Initialized \o AtLeast("PTP_READY") \o Shapes(device, "TSN_TAS") \o intel_setup_time_aware_shaper(device)
SETUP_FP(device) ==
  Initialized \o AtLeast("PTP_READY") \o Shapes(device, "TSN_FP") \o intel_setup_frame_preemption(device, TRUE)
SETUP_PTM(device) ==
  Initialized \o AtLeast("BAR_MAPPED") \o Shapes(device, "PCIe_PTM") \o intel_setup_ptm(device)

MDIO_READ(device)  == Initialized \o Op(device, "mdio_read") \o Do("answer phy")
MDIO_WRITE(device) == Initialized \o Op(device, "mdio_write")

(***************************************************************************)
(* AvbStopTimers, as far as the target-time poll goes.                     *)
(***************************************************************************)
AvbStopTimers_flushed_first ==
  When(Do("poll started"), Do("poll stopped") \o Do("flush") \o Do("cancel"))
AvbStopTimers ==
  When(Do("poll started"),
       Do("poll stopped") \o Do("cancel") \o Do("flush") \o Do("cancel") \o Do("flush"))

Requests(device) == [
  FilterRestart |-> FilterRestart(device),
  FilterReceiveNetBufferLists |-> FilterReceiveNetBufferLists(device),
  INIT_DEVICE |-> INIT_DEVICE(device), GET_HW_STATE |-> GET_HW_STATE(device),
  OPEN_ADAPTER |-> OPEN_ADAPTER(device),
  GET_TIMESTAMP |-> GET_TIMESTAMP(device), SET_TIMESTAMP |-> SET_TIMESTAMP(device),
  PHC_OFFSET_ADJUST |-> PHC_OFFSET_ADJUST(device),
  PHC_CROSSTIMESTAMP |-> PHC_CROSSTIMESTAMP(device),
  FASTIO_PHC_CROSSTIMESTAMP |-> FASTIO_PHC_CROSSTIMESTAMP(device),
  TEST_SEND_PTP |-> TEST_SEND_PTP(device), FASTIO_TEST_SEND_PTP |-> FASTIO_TEST_SEND_PTP(device),
  ADJUST_FREQUENCY |-> ADJUST_FREQUENCY(device), GET_CLOCK_CONFIG |-> GET_CLOCK_CONFIG(device),
  HW_TIMESTAMPING_RUN |-> SET_HW_TIMESTAMPING(device, "run"),
  HW_TIMESTAMPING_TARGET |-> SET_HW_TIMESTAMPING(device, "run, target time"),
  HW_TIMESTAMPING_STOP |-> SET_HW_TIMESTAMPING(device, "stop"),
  SET_TARGET_TIME |-> SET_TARGET_TIME(device), SET_LAUNCH_TIME |-> SET_LAUNCH_TIME(device),
  GET_AUX_TIMESTAMP |-> GET_AUX_TIMESTAMP(device),
  GET_TX_TIMESTAMP |-> GET_TX_TIMESTAMP(device), GET_RX_TIMESTAMP |-> GET_RX_TIMESTAMP(device),
  GET_DEVICE_INFO |-> GET_DEVICE_INFO(device), READ_REGISTER |-> READ_REGISTER,
  WRITE_REGISTER |-> WRITE_REGISTER, SET_RX_TIMESTAMP |-> SET_RX_TIMESTAMP,
  SET_QUEUE_TIMESTAMP |-> SET_QUEUE_TIMESTAMP, SETUP_TAS |-> SETUP_TAS(device),
  SETUP_FP |-> SETUP_FP(device), SETUP_PTM |-> SETUP_PTM(device),
  MDIO_READ |-> MDIO_READ(device), MDIO_WRITE |-> MDIO_WRITE(device)]

(***************************************************************************)
(* What GET_HW_STATE calls supported can be asked for with success, and    *)
(* the TSN features cannot if it does not: the answers come from different *)
(* tables of the code.  The I217 lets its clock be read and never be set.  *)
(***************************************************************************)
CanSucceed(script) ==
  LET from[i \in Nat \ {0}] ==
        \/ i > Len(script)
        \/ script[i].op \notin {"fail", "absent"} /\ from[i + script[i].hit]
        \/ script[i].miss # 0 /\ from[i + script[i].miss]
  IN from[1]

Serving == [MDIO |-> {"MDIO_READ", "MDIO_WRITE"},
            BASIC_1588 |-> {"GET_TIMESTAMP", "PHC_CROSSTIMESTAMP"},
            ENHANCED_TS |-> {"GET_RX_TIMESTAMP", "HW_TIMESTAMPING_RUN"},
            TSN_TAS |-> {"SETUP_TAS"}, TSN_FP |-> {"SETUP_FP"}, PCIe_PTM |-> {"SETUP_PTM"}]

ASSUME SupportedIsServed ==
  \A type \in AvbGetIntelDeviceType, c \in DOMAIN Serving :
    LET device    == intel_device(type)
        supported == c \in AvbGetLwfSupportedCapabilities(device, Baseline(type), TRUE)
    IN /\ supported => \A r \in Serving[c] : CanSucceed(Requests(device)[r])
       /\ ~supported /\ c \in {"TSN_TAS", "TSN_FP", "PCIe_PTM"} =>
            \A r \in Serving[c] : ~CanSucceed(Requests(device)[r])
=============================================================================
