----------------------------- MODULE MCTimerWheel ------------------------------
(* The priority queue of an event thread on a small instance. *)
EXTENDS TimerWheel, TLC

Symmetry == Permutations(Events)
=============================================================================
