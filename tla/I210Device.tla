----------------------------- MODULE I210Device -----------------------------
(***************************************************************************)
(* The operations of the I210, as scripts of register accesses.  Reading   *)
(* SYSTIMR latches both halves of the clock.                               *)
(***************************************************************************)
EXTENDS NdisPlatform

set_systime == WriteClock
get_systime == Attempt(Do("latch")) \o ReadClock

init_ptp ==
  Write("TSAUXC", {})
  \o Read("TIMINCA") \o Unless(Holds({"RATE"}), Write("TIMINCA", {"RATE"}))
  \o WriteClock
  \o Attempt(Write("TSYNCTXCTL", {"EN"})) \o Attempt(Write("TSYNCRXCTL", {"EN"}))

enable_packet_timestamping(enable) ==
  IF enable
  THEN Write("TSYNCRXCTL", {"EN"}) \o Write("TSYNCTXCTL", {"EN"})
  ELSE Attempt(Modify("TSYNCRXCTL", {}, {"EN"})) \o Attempt(Modify("TSYNCTXCTL", {}, {"EN"}))

read_tx_timestamp      == Pair("TXSTMPL", "TXSTMPH")
read_rx_timestamp      == Receipt
poll_tx_timestamp_fifo == StampHigh \o StampLow
read_timinca  == Read("TIMINCA")
write_timinca == Put("TIMINCA")
read_tsauxc   == Read("TSAUXC")
write_tsauxc  == Put("TSAUXC")

set_target_time(enable_interrupt) ==
  WritePair("TRGTTIML0", "TRGTTIMH0")
  \o (IF ~enable_interrupt THEN Nothing
      ELSE Modify("TSAUXC", {"EN_TT0"}, {}) \o Modify("TSIM", {"TT0"}, {})
           \o Attempt(Write("FREQOUT0", {})))

platform_ops == [NoOps EXCEPT
  !.read_tsauxc = read_tsauxc, !.write_tsauxc = write_tsauxc,
  !.read_timinca = read_timinca, !.write_timinca = write_timinca,
  !.get_systime = get_systime]

init     == AvbPlatformInit(platform_ops) \o Attempt(init_ptp)
cleanup  == Nothing
get_info == Nothing

ops == [platform_ops EXCEPT
  !.init = init, !.cleanup = cleanup, !.get_info = get_info,
  !.set_systime = set_systime, !.init_ptp = init_ptp,
  !.enable_packet_timestamping = [on \in BOOLEAN |-> enable_packet_timestamping(on)],
  !.read_tx_timestamp = read_tx_timestamp, !.read_rx_timestamp = read_rx_timestamp,
  !.poll_tx_timestamp_fifo = poll_tx_timestamp_fifo,
  !.set_target_time = [irq \in BOOLEAN |-> set_target_time(irq)]]
=============================================================================
