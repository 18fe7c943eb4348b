-------------------------- MODULE MCCongestionManager --------------------------
(* The congestion table of one cluster on small instances. *)
EXTENDS CongestionManager
=============================================================================
