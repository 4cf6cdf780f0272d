----------------------------- MODULE I226Device -----------------------------
(***************************************************************************)
(* The operations of the I226 (and of the I225, which shares its table),   *)
(* as scripts of register accesses.  Timer 1 behaves as timer 0 does and   *)
(* is left out.  DISABLE is bit 31 of TSAUXC, which halts the clock; the   *)
(* source clears it under its other name, PLLLOCKED.                       *)
(***************************************************************************)
EXTENDS NdisPlatform

(***************************************************************************)
(* The clock.  set_systime halts it for the two writes; what it read from  *)
(* TSAUXC before is what it writes back, whoever wrote there in between.   *)
(***************************************************************************)
set_systime_left_halted ==
  Attempt(Read("TSAUXC")) \o Attempt(PutWith("TSAUXC", {"DISABLE"}, {})) \o WriteClock

set_systime ==
  Attempt(Read("TSAUXC")) \o Attempt(PutWith("TSAUXC", {"DISABLE"}, {}))
  \o OrElse(WriteClock, Attempt(Put("TSAUXC")) \o Fail)
  \o Attempt(PutWith("TSAUXC", {}, {"DISABLE"}))

get_systime == ReadClock

init_ptp ==
  Read("TIMINCA") \o Unless(Holds({"RATE", "ADJUSTED"}), Write("TIMINCA", {"RATE"}))
  \o WriteClock \o Attempt(ReadClock)
  \o Modify("TSAUXC", {"EN_CLK0"}, {"DISABLE"}) \o Attempt(Read("TSAUXC"))
  \o Attempt(Read("TSYNCRXCTL") \o Write("TSYNCRXCTL", {"EN"}))
  \o Attempt(Read("TSYNCTXCTL") \o Write("TSYNCTXCTL", {"EN"}))
  \o Attempt(Write("ETQF3", {}))
  \o Attempt(StampLow) \o Attempt(StampHigh)

(***************************************************************************)
(* Timestamps of packets, and the two registers that drive the clock.      *)
(***************************************************************************)
enable_packet_timestamping(enable) ==
  IF enable
  THEN Write("TSYNCRXCTL", {"EN"}) \o Write("TSYNCTXCTL", {"EN"})
  ELSE Attempt(Modify("TSYNCRXCTL", {}, {"EN"})) \o Attempt(Modify("TSYNCTXCTL", {}, {"EN"}))

read_tx_timestamp      == Pair("TXSTMPL", "TXSTMPH")
read_rx_timestamp      == Receipt
poll_tx_timestamp_fifo_high_first == StampReady \o StampHigh \o StampLow
\* It succeeds if there is a timestamp: both of its callers ask no more.
poll_tx_timestamp_fifo == StampReady \o StampLow \o StampHigh
read_timinca           == Read("TIMINCA")
write_timinca          == Put("TIMINCA")
read_tsauxc            == Read("TSAUXC")
write_tsauxc           == Put("TSAUXC")

(***************************************************************************)
(* Target time 0 and its poll: a periodic timer whose DPC looks for the    *)
(* flag TT0 of TSICR, reports the expiry and clears the flag.              *)
(***************************************************************************)
start_poll == When(Do("poll inactive"), Do("set timer") \o Do("poll active"))

\* The interrupt of the flag, then what the comparison needs to raise it.
enable_target_interrupt ==
  Modify("TSAUXC", {"EN_TT0"}, {}) \o Attempt(Read("TSAUXC"))
  \o Modify("TSIM", {"TT0"}, {}) \o Attempt(Read("TSIM"))
activate_target_compare ==
  Attempt(Read("FREQOUT0")) \o Write("FREQOUT0", {})
  \o Attempt(Read("EIMS")) \o Write("EIMS", {"OTHER"})
  \o Attempt(Read("EIMS")) \o Attempt(Read("TSYNCRXCTL"))

set_target_time(enable_interrupt) ==
  Attempt(Do("low")) \o Attempt(Do("high"))
  \o WritePair("TRGTTIML0", "TRGTTIMH0") \o Attempt(Pair("TRGTTIML0", "TRGTTIMH0"))
  \o start_poll
  \o (IF enable_interrupt THEN enable_target_interrupt \o activate_target_compare ELSE Nothing)
get_target_time  == Pair("TRGTTIML0", "TRGTTIMH0")

check_autt_flags == Read("TSICR")
clear_autt_flag  == Clear("TSICR", {"TT0"})
get_aux_timestamp == Pair("AUXSTMPL0", "AUXSTMPH0")
clear_aux_timestamp_flag == clear_autt_flag

\* The registers read for the log come between the flag and its report.
AvbTimerDpcRoutine ==
  When(Do("poll started"),
    Attempt(Read("TSICR") \o Attempt(ReadClock) \o Attempt(Pair("TRGTTIML0", "TRGTTIMH0"))
            \o Holds({"TT0"})
            \o Attempt(Pair("TRGTTIML0", "TRGTTIMH0") \o Do("post"))
            \o Clear("TSICR", {"TT0"})))

(***************************************************************************)
(* Traffic shaping, preemption, PTM (in PCI configuration space), the PHY. *)
(***************************************************************************)
setup_tas ==
  Do("private") \o get_systime \o Do("clock not zero")
  \o Modify("TQAVCTRL", {"TSN", "QAV"}, {}) \o Write("QBVCYCLET", {})
  \o Read("TQAVCTRL") \o Holds({"TSN"})
setup_frame_preemption(on) == Modify("FP_CONFIG", IF on THEN {"EN"} ELSE {}, {"EN"})
setup_ptm == find_pcie_ext_cap \o AvbPciReadConfigReal \o AvbPciWriteConfigReal

mdio_read  == Mdic
mdio_write == Mdic

platform_ops == [NoOps EXCEPT
  !.read_tsauxc = read_tsauxc, !.write_tsauxc = write_tsauxc,
  !.read_timinca = read_timinca, !.write_timinca = write_timinca,
  !.get_systime = get_systime]

init     == AvbPlatformInit(platform_ops) \o Attempt(init_ptp)
cleanup  == Nothing
get_info == Nothing

ops == [platform_ops EXCEPT
  !.init = init, !.cleanup = cleanup, !.get_info = get_info,
  !.set_systime = set_systime, !.init_ptp = init_ptp,
  !.enable_packet_timestamping = [on \in BOOLEAN |-> enable_packet_timestamping(on)],
  !.read_tx_timestamp = read_tx_timestamp, !.read_rx_timestamp = read_rx_timestamp,
  !.poll_tx_timestamp_fifo = poll_tx_timestamp_fifo,
  !.set_target_time = [irq \in BOOLEAN |-> set_target_time(irq)],
  !.get_target_time = get_target_time, !.check_autt_flags = check_autt_flags,
  !.clear_autt_flag = clear_autt_flag, !.get_aux_timestamp = get_aux_timestamp,
  !.clear_aux_timestamp_flag = clear_aux_timestamp_flag, !.setup_tas = setup_tas,
  !.setup_frame_preemption = [on \in BOOLEAN |-> setup_frame_preemption(on)],
  !.setup_ptm = setup_ptm, !.mdio_read = mdio_read, !.mdio_write = mdio_write]
=============================================================================
