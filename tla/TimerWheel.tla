------------------------------ MODULE TimerWheel -------------------------------
(***************************************************************************)
(* The priority queue of an event thread (ObPriorityEventQueue): events    *)
(* that wait for their time are filed in a few buckets by the time that is *)
(* left, each bucket reaching twice as far as the one before.  A check     *)
(* looks again only at the buckets that the bits of the millisecond        *)
(* counter changed since the last check tell it to look at, and moves each *)
(* event to the bucket its time left belongs to; bucket 0 is ready.        *)
(* One bucket unit is UNIT units of time, so that times need not fall on   *)
(* the beat of the counter.                                                *)
(***************************************************************************)
EXTENDS Integers, FiniteSets, FiniteSetsExt

CONSTANTS
    PQ_LIST_COUNT,  \* the number of buckets
    UNIT,           \* units of time per millisecond
    Events,
    MaxDelay,       \* bound: the longest time an event is scheduled ahead
    MaxStall,       \* the longest time between two checks, at most 256 ms
    MaxTime         \* bound on time

\* 1 << n
Pow2[n \in Nat] == IF n = 0 THEN 1 ELSE 2 * Pow2[n - 1]

ASSUME WheelAssumption ==
    /\ PQ_LIST_COUNT \in Nat \ {0, 1} /\ UNIT \in Nat \ {0}
    /\ MaxDelay \in Nat /\ MaxTime \in Nat
    /\ MaxStall \in 1..(UNIT * Pow2[PQ_LIST_COUNT - 2])
    /\ UNIT * Pow2[PQ_LIST_COUNT - 1] <= MaxTime + 1

VARIABLES
    now,        \* the clock
    last,       \* last_check_time_
    in_heap,    \* the bucket of each event, or Out
    timeout_at, \* when each event is due
    cancelled,  \* the events cancelled while they are in the queue
    checked     \* no time has passed since the last check

vars == <<now, last, in_heap, timeout_at, cancelled, checked>>

Buckets == 0..(PQ_LIST_COUNT - 1)
Out == -1

PQ_BUCKET_TIME(i) == UNIT * Pow2[i]

Init ==
    /\ now \in 0..(UNIT * Pow2[PQ_LIST_COUNT - 1] - 1)
    /\ last = now
    /\ in_heap = [e \in Events |-> Out]
    /\ timeout_at = [e \in Events |-> 0]
    /\ cancelled = {}
    /\ checked = TRUE

\* Seeded fault: what is too far away gets a bucket of its own.
BucketBeyond(t) == Min({i \in Buckets : t <= PQ_BUCKET_TIME(i)} \union {PQ_LIST_COUNT})

\* The first bucket that reaches as far as t; the last one holds the rest.
BucketFor(t) == Min({i \in Buckets : t <= PQ_BUCKET_TIME(i)} \union {PQ_LIST_COUNT - 1})

\* enqueue(), with an event that is d units of time away, or overdue
Enqueue(e, d) ==
    /\ in_heap[e] = Out
    /\ in_heap' = [in_heap EXCEPT ![e] = BucketFor(d)]
    /\ timeout_at' = [timeout_at EXCEPT ![e] = now + d]
    /\ UNCHANGED <<now, last, cancelled, checked>>

\* remove(), before an event is scheduled anew
Remove(e) ==
    /\ in_heap[e] # Out /\ e \notin cancelled
    /\ in_heap' = [in_heap EXCEPT ![e] = Out]
    /\ timeout_at' = [timeout_at EXCEPT ![e] = 0]
    /\ UNCHANGED <<now, last, cancelled, checked>>

\* ObAction::cancel only sets a flag.
Cancel(e) ==
    /\ in_heap[e] # Out /\ e \notin cancelled
    /\ cancelled' = cancelled \union {e}
    /\ UNCHANGED <<now, last, in_heap, timeout_at, checked>>

Bit(n, j) == (n \div Pow2[j]) % 2

\* Seeded fault: the index of the bit, one less than its position.
TodoBelow(a, b) ==
    Max({0} \union {j \in 0..(PQ_LIST_COUNT - 2) : Bit(a, j) # Bit(b, j)})

\* The number of buckets to look at: the position of the highest bit, of
\* those below PQ_LIST_COUNT - 1, in which the two counters differ.
TodoBuckets(a, b) ==
    Max({0} \union {j + 1 : j \in {j \in 0..(PQ_LIST_COUNT - 2) : Bit(a, j) # Bit(b, j)}})

\* Seeded fault: the limit of the bucket it leaves, not of the one it enters.
RebucketEarly(i, offset) ==
    Min({j \in 0..i : \A m \in j..(i - 1) : offset <= PQ_BUCKET_TIME(m + 1)})

\* Where an event of bucket i goes: down while its time left fits below.
Rebucket(i, offset) ==
    Min({j \in 0..i : \A m \in j..(i - 1) : offset <= PQ_BUCKET_TIME(m)})

\* check_ready()
CheckReady ==
    LET k == TodoBuckets(now \div UNIT, last \div UNIT)
        examined == {e \in Events : in_heap[e] \in 1..k}
    IN  /\ in_heap' = [e \in Events |->
              IF e \notin examined THEN in_heap[e]
              ELSE IF e \in cancelled THEN Out
              ELSE Rebucket(in_heap[e], timeout_at[e] - now)]
        /\ timeout_at' = [e \in Events |->
              IF e \in examined \intersect cancelled THEN 0 ELSE timeout_at[e]]
        /\ cancelled' = cancelled \ examined
        /\ last' = now
        /\ checked' = TRUE
        /\ UNCHANGED now

\* dequeue_ready()
DequeueReady(e) ==
    /\ in_heap[e] = 0
    /\ in_heap' = [in_heap EXCEPT ![e] = Out]
    /\ timeout_at' = [timeout_at EXCEPT ![e] = 0]
    /\ cancelled' = cancelled \ {e}
    /\ UNCHANGED <<now, last, checked>>

\* Time passes, in callbacks or asleep.
Pass(d) ==
    /\ now + d <= MaxTime /\ now + d - last <= MaxStall
    /\ now' = now + d
    /\ checked' = FALSE
    /\ UNCHANGED <<last, in_heap, timeout_at, cancelled>>

Next ==
    \/ CheckReady
    \/ \E d \in 1..MaxStall : Pass(d)
    \/ \E e \in Events :
         \/ \E d \in -UNIT..MaxDelay : Enqueue(e, d)
         \/ Remove(e) \/ Cancel(e) \/ DequeueReady(e)

Spec == Init /\ [][Next]_vars

\* Seeded fault: not halved.
EarliestWhole ==
    last + PQ_BUCKET_TIME(Min({in_heap[e] : e \in {f \in Events : in_heap[f] # Out}}))

\* earliest_timeout(): until when a thread with events in the queue may sleep
EarliestTimeout ==
    last + PQ_BUCKET_TIME(Min({in_heap[e] : e \in {f \in Events : in_heap[f] # Out}})) \div 2

(***************************************************************************)
(* Properties                                                              *)
(***************************************************************************)
TypeOK ==
    /\ now \in 0..MaxTime /\ last \in 0..now
    /\ in_heap \in [Events -> Buckets \union {Out}]
    /\ timeout_at \in [Events -> -UNIT..(MaxTime + MaxDelay)]
    /\ cancelled \subseteq {e \in Events : in_heap[e] # Out}
    /\ checked \in BOOLEAN

(***************************************************************************)
(* Never late: right after check_ready every event whose time has come is  *)
(* in bucket 0, however long the thread was busy or asleep before, up to   *)
(* MaxStall.  It can be no longer than the limit of the last bucket but    *)
(* one, 256 ms with ten buckets: the masked counter does not tell a longer *)
(* time from a shorter one.                                                *)
(***************************************************************************)
NoDueLeft ==
    checked => \A e \in Events : in_heap[e] >= 1 => timeout_at[e] > now

(***************************************************************************)
(* Never more than a millisecond early: what dequeue_ready hands out is    *)
(* due within the first bucket's time.                                     *)
(***************************************************************************)
NotEarly ==
    [][\A e \in Events : (in_heap[e] = 0 /\ in_heap'[e] = Out) => timeout_at[e] - now <= PQ_BUCKET_TIME(0)]_vars

(***************************************************************************)
(* A thread that sleeps until earliest_timeout() oversleeps an event by at *)
(* most half of what the event's bucket reaches.                           *)
(***************************************************************************)
OversleepBounded ==
    checked => \A e \in Events :
       in_heap[e] >= 1 => EarliestTimeout - timeout_at[e] < PQ_BUCKET_TIME(in_heap[e]) \div 2
=============================================================================
