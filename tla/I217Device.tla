----------------------------- MODULE I217Device -----------------------------
(***************************************************************************)
(* The operations of the I217, as scripts of register accesses.  Its clock *)
(* cannot be set, and writing TSAUXC does nothing and succeeds.  The PHY   *)
(* is shared with the firmware, under SWSM.SWESMBI.                        *)
(***************************************************************************)
EXTENDS NdisPlatform

init_ptp ==
  Write("TIMINCA", {"RATE"})
  \o Attempt(Write("TSYNCTXCTL", {"EN"})) \o Attempt(Write("TSYNCRXCTL", {"EN"}))

set_systime == Fail
get_systime == ReadClock

enable_packet_timestamping(enable) ==
  IF enable
  THEN Write("TSYNCRXCTL", {"EN"}) \o Write("TSYNCTXCTL", {"EN"})
  ELSE Attempt(Modify("TSYNCRXCTL", {}, {"EN"})) \o Attempt(Modify("TSYNCTXCTL", {}, {"EN"}))

read_tx_timestamp      == Pair("TXSTMPL", "TXSTMPH")
read_rx_timestamp      == Receipt
poll_tx_timestamp_fifo == StampHigh \o StampLow
read_timinca  == Read("TIMINCA")
write_timinca == Put("TIMINCA")
read_tsauxc   == Read("TSAUXC")
write_tsauxc  == Nothing

(***************************************************************************)
(* The PHY: the flag is set and read back, 1000 times at most (2 here).    *)
(***************************************************************************)
acquire == Do("grab") \o OrElse(Do("confirm"), Do("grab") \o Do("confirm"))
release == Attempt(Do("release"))
mdic_read_locked  == Mdic
mdic_write_locked == Mdic

\* Under the lock: the script, then the release, whatever became of it.
Locked(s) == acquire \o OrElse(s, release \o Fail) \o release

mdio_read_paged  == Locked(mdic_write_locked \o mdic_write_locked \o mdic_read_locked)
mdio_write_paged == Locked(mdic_write_locked \o mdic_write_locked \o mdic_write_locked)
mdio_read  == Locked(mdic_read_locked)
mdio_write == Locked(mdic_write_locked)

platform_ops == [NoOps EXCEPT
  !.read_tsauxc = read_tsauxc, !.write_tsauxc = write_tsauxc,
  !.read_timinca = read_timinca, !.write_timinca = write_timinca,
  !.get_systime = get_systime]

init     == AvbPlatformInit(platform_ops)
cleanup  == Nothing
get_info == Nothing

ops == [platform_ops EXCEPT
  !.init = init, !.cleanup = cleanup, !.get_info = get_info,
  !.set_systime = set_systime, !.init_ptp = init_ptp,
  !.enable_packet_timestamping = [on \in BOOLEAN |-> enable_packet_timestamping(on)],
  !.read_tx_timestamp = read_tx_timestamp, !.read_rx_timestamp = read_rx_timestamp,
  !.poll_tx_timestamp_fifo = poll_tx_timestamp_fifo,
  !.mdio_read = mdio_read, !.mdio_write = mdio_write]
=============================================================================
