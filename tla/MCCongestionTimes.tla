--------------------------- MODULE MCCongestionTimes ---------------------------
(* One server's entry with its history variable, on small instances. *)
EXTENDS CongestionTimes

Config(threshold, window) ==
    [conn_failure_threshold |-> threshold, alive_failure_threshold |-> threshold,
     fail_window_sec |-> window, retry_interval_sec |-> 2,
     min_keep_congestion_interval_sec |-> 2]

Config2 == Config(2, 1)
OnlyConfig2 == {Config2}
=============================================================================
