----------------------------- MODULE I219Device -----------------------------
(***************************************************************************)
(* The operations of the I219, as scripts of register accesses.  Its clock *)
(* cannot be written: setting it moves a software offset, computed from    *)
(* one raw reading.  TSAUXC is kept in software too.  The PHY is shared    *)
(* with the management firmware; EXTCNF_CTRL.SWFLAG is the lock.           *)
(***************************************************************************)
EXTENDS NdisPlatform

(***************************************************************************)
(* The clock.                                                              *)
(***************************************************************************)
init_ptp ==
  Write("TIMINCA", {"RATE"}) \o Attempt(Modify("TSAUXC", {}, {"DISABLE"}))
  \o Write("ETQF0", {}) \o Write("ETQS0", {})
  \o Attempt(Do("low")) \o Attempt(Do("high")) \o Do("offset")

set_systime == Attempt(Do("low")) \o Attempt(Do("high")) \o Do("offset")

get_systime_unguarded == Attempt(ReadClock)
\* No register, no error: the answer is the time of the system.
get_systime == Attempt(Guarded(3))

(***************************************************************************)
(* Timestamps of packets.                                                  *)
(***************************************************************************)
enable_packet_timestamping(enable) ==
  IF enable
  THEN Write("TSYNCRXCTL", {"EN"}) \o Write("TSYNCTXCTL", {"EN"})
  ELSE Attempt(Modify("TSYNCRXCTL", {}, {"EN"})) \o Attempt(Modify("TSYNCTXCTL", {}, {"EN"}))

read_tx_timestamp      == Pair("TXSTMPL", "TXSTMPH")
read_rx_timestamp      == Receipt
poll_tx_timestamp_fifo == StampHigh \o StampLow
read_timinca  == Read("TIMINCA")
write_timinca == Put("TIMINCA")
read_tsauxc   == Do("read shadow")
write_tsauxc  == Do("write shadow")

(***************************************************************************)
(* The PHY.  The wait for the flag may run out, and the driver goes on.    *)
(***************************************************************************)
acquire  == Attempt(Do("await")) \o Do("grab") \o Do("confirm")
release  == Attempt(Do("release"))
mdio_read_kept == acquire \o OrElse(Mdic, release \o Fail)
mdio_read  == acquire \o OrElse(Mdic, release \o Fail) \o release
mdio_write == acquire \o OrElse(Mdic, release \o Fail) \o release

platform_ops == [NoOps EXCEPT
  !.read_tsauxc = read_tsauxc, !.write_tsauxc = write_tsauxc,
  !.read_timinca = read_timinca, !.write_timinca = write_timinca,
  !.get_systime = get_systime]

init     == AvbPlatformInit(platform_ops) \o Attempt(init_ptp)
cleanup  == Nothing
get_info == Nothing

ops == [platform_ops EXCEPT
  !.init = init, !.cleanup = cleanup, !.get_info = get_info,
  !.set_systime = set_systime, !.init_ptp = init_ptp,
  !.enable_packet_timestamping = [on \in BOOLEAN |-> enable_packet_timestamping(on)],
  !.read_tx_timestamp = read_tx_timestamp, !.read_rx_timestamp = read_rx_timestamp,
  !.poll_tx_timestamp_fifo = poll_tx_timestamp_fifo,
  !.mdio_read = mdio_read, !.mdio_write = mdio_write]
=============================================================================
