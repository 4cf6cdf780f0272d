---------------------------- MODULE NdisPlatform ----------------------------
(***************************************************************************)
(* What the driver offers to the device modules below it: the platform     *)
(* initialisation they all start from, the timestamp read that needs no    *)
(* operation table, and PHY access without one, which always fails.        *)
(***************************************************************************)
EXTENDS Bar0Discovery

Offered(op) == IF Has(op) THEN op ELSE Nothing

\* What the operation tables of the devices leave out.
NoOps == [op \in {"init", "cleanup", "get_info", "set_systime", "get_systime", "init_ptp",
                  "enable_packet_timestamping", "read_tx_timestamp", "read_rx_timestamp",
                  "poll_tx_timestamp_fifo", "read_timinca", "write_timinca", "read_tsauxc",
                  "write_tsauxc", "set_target_time", "get_target_time", "check_autt_flags",
                  "clear_autt_flag", "get_aux_timestamp", "clear_aux_timestamp_flag",
                  "setup_tas", "setup_frame_preemption", "setup_ptm", "mdio_read",
                  "mdio_write"} |-> Absent]

(***************************************************************************)
(* The clock is let run, its increment set, and looked at twice; a clock   *)
(* that stands still is logged and no error.                               *)
(***************************************************************************)
AvbPlatformInit_misdirected(ops) ==
  IF ~Has(ops.read_tsauxc) THEN Nothing
  ELSE Attempt(ops.read_timinca) \o Load({"RATE"}) \o ops.write_tsauxc

AvbPlatformInit(ops) ==
  (IF ~Has(ops.read_tsauxc) THEN Nothing
   ELSE When(ops.read_tsauxc \o Holds({"DISABLE"}),
             Change({}, {"DISABLE"}) \o Offered(ops.write_tsauxc) \o Attempt(ops.read_tsauxc)))
  \o Attempt(Offered(ops.read_timinca))
  \o Load({"RATE"}) \o Offered(ops.write_timinca)
  \o Attempt(Offered(ops.get_systime)) \o Attempt(Offered(ops.get_systime))

\* Three reads low, high, low: the pair is taken once the clock has not wrapped.
Guarded(n) == LET f[k \in 1..n] == LET retry == IF k = 1 THEN Nothing ELSE f[k - 1]
                                   IN ReadClock \o Unless(Do("recheck"), retry)
              IN f[n]

AvbReadTimestampReal(device) ==
  CASE device.type = "i210" -> Attempt(Do("latch")) \o ReadClock
    [] device.type \in {"i217", "i225", "i226"} -> ReadClock
    [] device.type = "i219" -> Guarded(3)
    [] OTHER -> Fail

AvbMdioReadI219DirectReal  == Fail
AvbMdioReadReal(device)    == IF device.type = "i219" THEN AvbMdioReadI219DirectReal ELSE Fail
AvbMdioWriteI219DirectReal == Fail
AvbMdioWriteReal(device)   == IF device.type = "i219" THEN AvbMdioWriteI219DirectReal ELSE Fail
=============================================================================
