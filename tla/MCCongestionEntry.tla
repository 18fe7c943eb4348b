--------------------------- MODULE MCCongestionEntry ---------------------------
(* One server's entry on small instances. *)
EXTENDS CongestionEntry

Config(threshold, window) ==
    [conn_failure_threshold |-> threshold, alive_failure_threshold |-> threshold,
     fail_window_sec |-> window, retry_interval_sec |-> 2,
     min_keep_congestion_interval_sec |-> 2]

Config1 == Config(1, 3)
Config2 == Config(2, 3)
OnlyConfig1 == {Config1}
OnlyConfig2 == {Config2}
ThresholdConfigs == {Config2, Config(3, 3)}
AllConfigs == {Config1, Config2, Config(2, 1)}

=============================================================================
