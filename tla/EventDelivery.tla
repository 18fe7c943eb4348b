----------------------------- MODULE EventDelivery -----------------------------
(***************************************************************************)
(* What the event system promises to the state machines built on it,       *)
(* without threads, queues or signals.  A scheduled event is owed one      *)
(* callback; the callback runs under the lock of the event's continuation; *)
(* an event that was cancelled under that lock is never called back, only  *)
(* freed.  There is no promise about the order of two events.              *)
(***************************************************************************)
CONSTANTS
    Events,     \* the event objects
    Cont        \* the continuation (and with it the lock) of each event

VARIABLES
    owed,       \* the events that are still owed a callback
    running,    \* the events whose callback runs
    cancelled   \* the events that were cancelled and are not freed yet

dvars == <<owed, running, cancelled>>

Init == owed = {} /\ running = {} /\ cancelled = {}

\* The lock of e's continuation is held by a callback.
Locked(e) == \E r \in running : Cont[r] = Cont[e]

\* A free event is scheduled.
Schedule(e) ==
    /\ e \notin owed \union running \union cancelled
    /\ owed' = owed \union {e}
    /\ UNCHANGED <<running, cancelled>>

\* The callback of an event begins.
Start(e) ==
    /\ e \in owed /\ ~Locked(e)
    /\ owed' = owed \ {e}
    /\ running' = running \union {e}
    /\ UNCHANGED cancelled

\* It ends: the event is freed, or owed its next callback unless cancelled.
Finish(e) ==
    /\ e \in running
    /\ running' = running \ {e}
    /\ \/ UNCHANGED owed /\ cancelled' = cancelled \ {e}
       \/ e \in cancelled /\ UNCHANGED <<owed, cancelled>>
       \/ e \notin cancelled /\ owed' = owed \union {e} /\ UNCHANGED cancelled

\* A callback cancels an event of its own continuation, itself perhaps.
Cancel(e) ==
    /\ e \in owed \union running /\ e \notin cancelled /\ Locked(e)
    /\ owed' = owed \ {e}
    /\ cancelled' = cancelled \union {e}
    /\ UNCHANGED running

\* A cancelled event is freed.
Drop(e) ==
    /\ e \in cancelled \ running
    /\ cancelled' = cancelled \ {e}
    /\ UNCHANGED <<owed, running>>

Next == \E e \in Events : Schedule(e) \/ Start(e) \/ Finish(e) \/ Cancel(e) \/ Drop(e)

Spec == Init /\ [][Next]_dvars
=============================================================================
