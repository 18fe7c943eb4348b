----------------------------- MODULE MCEventQueue ------------------------------
(* Event threads and their queues on small instances. *)
EXTENDS EventQueue, TLC

CONSTANTS e1, e2, e3

\* Two events share a continuation, the third has its own.
ContOf == [e \in Events |-> IF e = e3 THEN "c2" ELSE "c1"]

\* One of the two is periodic, the other events are for at once.
KindsPeriodic == [e \in Events |-> IF e = e2 THEN {"every"} ELSE {"imm"}]

\* Nothing is periodic.
KindsOnce == [e \in Events |-> {"imm", "in"}]
=============================================================================
