------------------------------ MODULE EventQueue -------------------------------
(***************************************************************************)
(* The event threads (ObEThread) and the queues between them               *)
(* (ObProtectedQueue).  Any thread may schedule an event on any event      *)
(* thread: it pushes the event on that thread's lock-free external list    *)
(* and, if the list was empty, remembers that the thread must be woken.    *)
(* The wake-ups are deferred: a thread sends them just before it goes to   *)
(* sleep itself.  The owner moves its external list to a private local     *)
(* queue and calls the continuations back, each under its lock; an event   *)
(* whose lock is taken is tried again later.                               *)
(*                                                                         *)
(* Threads in PollThreads have a poll event and sleep in epoll_wait, where *)
(* an eventfd or timerfd wakes them; the others sleep on a condition       *)
(* variable.  Time is abstract: an event in the priority queue may come    *)
(* due at any round (TimerWheel models when it does).                      *)
(***************************************************************************)
EXTENDS Naturals, Sequences, Functions

CONSTANTS
    Threads,        \* the regular event threads
    PollThreads,    \* those that sleep in epoll_wait
    Events,         \* the event objects of the pool
    Cont,           \* the continuation of each event
    Kinds,          \* the ways each event is scheduled: "imm", "in", "every"
    MaxScheds,      \* bound: how often events are scheduled
    None

ASSUME QueueAssumption ==
    /\ PollThreads \subseteq Threads
    /\ None \notin Threads \union Events
    /\ Kinds \in [Events -> SUBSET {"imm", "in", "every"}]
    /\ MaxScheds \in Nat

VARIABLES
    ev,         \* the event objects
    ext,        \* atomic_list_ of each thread, oldest first
    size,       \* atomic_list_size_ > 0
    grab,       \* the list popall returned, being moved by dequeue_timed
    loc,        \* local_queue_
    timed,      \* event_queue_, the priority queue
    phase,      \* where execute() is in its loop
    run,        \* the event in process_event
    stage,      \* how far process_event is with it
    sig,        \* ethreads_to_be_signalled_
    poke,       \* the thread's eventfd or timerfd is readable
    out,        \* the thread that a foreign thread is about to signal
    scheds      \* how often an event was scheduled

vars == <<ev, ext, size, grab, loc, timed, phase, run, stage, sig, poke, out, scheds>>
queues == <<ext, size, grab, loc, timed>>

LocalPhases == {"local", "local1"}
FlushPhases == {"flush", "flush1"}
Phases == LocalPhases \union FlushPhases
    \union {"timers", "wait", "decided", "asleep", "glance", "poll", "pop", "pop1", "move", "move1"}

\* Of process_event: about to try the lock, in the callback, lock released.
Stages == {"none", "lock", "call", "settle"}

EventType == [used : BOOLEAN, prot : BOOLEAN, prio : BOOLEAN, cancelled : BOOLEAN,
              when : {"imm", "later"}, period : BOOLEAN, home : Threads \union {None}]

FreeEvent == [used |-> FALSE, prot |-> FALSE, prio |-> FALSE, cancelled |-> FALSE,
              when |-> "imm", period |-> FALSE, home |-> None]

Init ==
    /\ ev = [e \in Events |-> FreeEvent]
    /\ ext = [t \in Threads |-> <<>>]
    /\ size = [t \in Threads |-> FALSE]
    /\ grab = [t \in Threads |-> <<>>]
    /\ loc = [t \in Threads |-> <<>>]
    /\ timed = [t \in Threads |-> {}]
    /\ phase = [t \in Threads |-> "local"]
    /\ run = [t \in Threads |-> None]
    /\ stage = [t \in Threads |-> "none"]
    /\ sig = [t \in Threads |-> {}]
    /\ poke = [t \in Threads |-> FALSE]
    /\ out = None
    /\ scheds = 0

(***************************************************************************)
(* Waking a thread                                                         *)
(***************************************************************************)

\* Seeded fault: signal() does not take the lock.
CanSignalUnlocked(u) == TRUE

\* signal() takes the queue's lock_, which a thread that has found its list
\* empty holds until it waits.
CanSignal(u) == phase[u] # "decided"

\* signal(), timerfd_settime() and the signal hook
Signal(u) ==
    /\ phase' = [phase EXCEPT ![u] = IF @ = "asleep" THEN "pop" ELSE @]
    /\ poke' = [poke EXCEPT ![u] = u \in PollThreads]

(***************************************************************************)
(* Scheduling and cancelling                                               *)
(***************************************************************************)

\* Thread t runs a callback and holds the lock of its continuation.
InCallback(t) == stage[t] = "call"

Queued(e) == ev[e].prot \/ ev[e].prio

\* After the callback the event is not freed.
Keeps(e) == Queued(e) \/ ev[e].period

\* An event that a callback on t may still refer to: it has not ended.
Valid(t, e) ==
    /\ ev[e].used /\ ~ev[e].cancelled
    /\ Cont[e] = Cont[run[t]]
    /\ e = run[t] \/ Keeps(e) \/ \E u \in Threads : run[u] = e /\ stage[u] = "lock"

\* The fields that schedule_imm, schedule_in and schedule_every set.
Timing(e, k) == [ev[e] EXCEPT !.used = TRUE, !.prot = TRUE, !.prio = FALSE,
                              !.when = IF k = "imm" THEN "imm" ELSE "later",
                              !.period = (k = "every")]

Counted == scheds < MaxScheds /\ scheds' = scheds + 1

\* The push found the external list of u empty.
WasEmpty(u) == ext[u] = <<>>

\* The push of enqueue().  The increment of atomic_list_size_ is not atomic:
\* when another thread makes it, the owner may see it late or not at all.
Push(e, u, k, own) ==
    /\ ~ev[e].used
    /\ ev' = [ev EXCEPT ![e] = [Timing(e, k) EXCEPT !.home = u]]
    /\ ext' = [ext EXCEPT ![u] = Append(@, e)]
    /\ \/ size' = [size EXCEPT ![u] = TRUE]
       \/ ~own /\ UNCHANGED size
    /\ UNCHANGED <<grab, loc, timed>>

\* ObEThread::schedule from a callback on thread t: the wake-up is deferred.
\* schedule_imm_signal calls the signal hook at once as well.
Schedule(t, e, u, k) ==
    /\ InCallback(t) /\ Counted /\ Push(e, u, k, u = t)
    /\ sig' = [sig EXCEPT ![t] = IF WasEmpty(u) /\ u # t THEN @ \union {u} ELSE @]
    /\ \/ UNCHANGED poke
       \/ /\ k = "imm" /\ WasEmpty(u) /\ u # t /\ u \in PollThreads
          /\ poke' = [poke EXCEPT ![u] = TRUE]
    /\ UNCHANGED <<phase, run, stage, out>>

\* A thread that is no event thread, or a dedicated one, schedules: it
\* signals the queue's owner itself.
ScheduleForeign(e, u, k) ==
    /\ out = None /\ Counted /\ Push(e, u, k, FALSE)
    /\ out' = IF WasEmpty(u) THEN u ELSE None
    /\ UNCHANGED <<phase, run, stage, sig, poke>>

SignalForeign ==
    /\ out # None /\ CanSignal(out)
    /\ Signal(out)
    /\ out' = None
    /\ UNCHANGED <<ev, queues, run, stage, sig, scheds>>

\* ObEThread::schedule_local
ScheduleLocal(t, e, k) ==
    /\ InCallback(t) /\ Counted /\ ~ev[e].used
    /\ ev' = [ev EXCEPT ![e] = [Timing(e, k) EXCEPT !.home = t]]
    /\ loc' = [loc EXCEPT ![t] = Append(@, e)]
    /\ UNCHANGED <<ext, size, grab, timed, phase, run, stage, sig, poke, out>>

\* ObEvent::schedule_imm, schedule_in, schedule_every, on the event's own
\* thread: an event in the local queue or the external list stays there.
Reschedule(t, e, k) ==
    /\ InCallback(t) /\ Counted
    /\ Valid(t, e) /\ ev[e].home = t
    /\ ev' = [ev EXCEPT ![e] = Timing(e, k)]
    /\ timed' = [timed EXCEPT ![t] = @ \ {e}]
    /\ loc' = [loc EXCEPT ![t] = IF ev[e].prot THEN @ ELSE Append(@, e)]
    /\ UNCHANGED <<ext, size, grab, phase, run, stage, sig, poke, out>>

\* ObAction::cancel, under the lock of the continuation
Cancel(t, e) ==
    /\ InCallback(t) /\ Valid(t, e)
    /\ ev' = [ev EXCEPT ![e].cancelled = TRUE]
    /\ UNCHANGED <<queues, phase, run, stage, sig, poke, out, scheds>>

(***************************************************************************)
(* Calling back                                                            *)
(***************************************************************************)

AtHead(t, e) == phase[t] \in LocalPhases /\ loc[t] # <<>> /\ e = Head(loc[t])
AtTimers(t, e) == phase[t] = "timers" /\ e \in timed[t]

\* Thread t takes e out of the queue it is working on.
Takes(t, e) ==
    /\ run[t] = None
    /\ AtHead(t, e) \/ AtTimers(t, e)
    /\ loc' = [loc EXCEPT ![t] = IF AtHead(t, e) THEN Tail(@) ELSE @]
    /\ timed' = [timed EXCEPT ![t] = @ \ {e}]
    /\ UNCHANGED <<ext, size, grab>>

\* An event that is due, or was scheduled for at once, goes to process_event.
Take(t, e) ==
    /\ Takes(t, e)
    /\ ~ev[e].cancelled /\ (AtHead(t, e) => ev[e].when = "imm")
    /\ ev' = [ev EXCEPT ![e].prot = FALSE, ![e].prio = FALSE]
    /\ run' = [run EXCEPT ![t] = e]
    /\ stage' = [stage EXCEPT ![t] = "lock"]
    /\ UNCHANGED <<phase, sig, poke, out, scheds>>

\* An event for later goes from the local queue to the priority queue.
Defer(t, e) ==
    /\ run[t] = None /\ AtHead(t, e)
    /\ ~ev[e].cancelled /\ ev[e].when = "later"
    /\ loc' = [loc EXCEPT ![t] = Tail(@)]
    /\ timed' = [timed EXCEPT ![t] = @ \union {e}]
    /\ ev' = [ev EXCEPT ![e].prot = FALSE, ![e].prio = TRUE]
    /\ UNCHANGED <<ext, size, grab, phase, run, stage, sig, poke, out, scheds>>

\* A cancelled event is freed when it comes out of a queue.
Drop(t, e) ==
    /\ Takes(t, e)
    /\ ev[e].cancelled
    /\ ev' = [ev EXCEPT ![e] = FreeEvent]
    /\ UNCHANGED <<phase, run, stage, sig, poke, out, scheds>>

\* Another callback holds the lock that process_event tries to take.
Locked(e) == \E u \in Threads : InCallback(u) /\ Cont[run[u]] = Cont[e]

\* Seeded fault: the flag is only read before the lock is taken.
StartUnchecked(t) ==
    /\ stage[t] = "lock" /\ ~Locked(run[t])
    /\ stage' = [stage EXCEPT ![t] = "call"]
    /\ UNCHANGED <<ev, queues, phase, run, sig, poke, out, scheds>>

\* process_event gets the lock, and the callback begins.
Start(t) ==
    /\ stage[t] = "lock" /\ ~Locked(run[t]) /\ ~ev[run[t]].cancelled
    /\ stage' = [stage EXCEPT ![t] = "call"]
    /\ UNCHANGED <<ev, queues, phase, run, sig, poke, out, scheds>>

\* It gets the lock, and the event was cancelled in between.
Abandon(t) ==
    /\ stage[t] = "lock" /\ ~Locked(run[t]) /\ ev[run[t]].cancelled
    /\ ev' = [ev EXCEPT ![run[t]] = FreeEvent]
    /\ run' = [run EXCEPT ![t] = None]
    /\ stage' = [stage EXCEPT ![t] = "none"]
    /\ UNCHANGED <<queues, phase, sig, poke, out, scheds>>

\* Seeded fault: the event stays the one in process_event.
MissKeeps(t) ==
    /\ stage[t] = "lock" /\ Locked(run[t])
    /\ ev' = [ev EXCEPT ![run[t]].prot = TRUE, ![run[t]].when = "later"]
    /\ loc' = [loc EXCEPT ![t] = Append(@, run[t])]
    /\ stage' = [stage EXCEPT ![t] = "none"]
    /\ UNCHANGED <<ext, size, grab, timed, phase, run, sig, poke, out, scheds>>

\* It does not: the event is tried again after DELAY_FOR_RETRY.
Miss(t) ==
    /\ stage[t] = "lock" /\ Locked(run[t])
    /\ ev' = [ev EXCEPT ![run[t]].prot = TRUE, ![run[t]].when = "later"]
    /\ loc' = [loc EXCEPT ![t] = Append(@, run[t])]
    /\ run' = [run EXCEPT ![t] = None]
    /\ stage' = [stage EXCEPT ![t] = "none"]
    /\ UNCHANGED <<ext, size, grab, timed, phase, sig, poke, out, scheds>>

\* The callback returns and the lock is released.
Return(t) ==
    /\ InCallback(t)
    /\ stage' = [stage EXCEPT ![t] = "settle"]
    /\ UNCHANGED <<ev, queues, phase, run, sig, poke, out, scheds>>

\* Seeded fault: a periodic event is queued even if the callback has done so.
RequeuesAlways(e) == ev[e].period
Requeues(e) == ev[e].period /\ ~Queued(e)

\* What process_event does after the release: a periodic event is queued
\* again, one that the callback has queued stays, another is freed.
Settle(t) ==
    /\ stage[t] = "settle"
    /\ LET e == run[t] IN
       /\ ev' = [ev EXCEPT ![e] =
                   IF Requeues(e) THEN [@ EXCEPT !.prot = TRUE, !.when = "later"]
                   ELSE IF Keeps(e) THEN @ ELSE FreeEvent]
       /\ loc' = [loc EXCEPT ![t] = IF Requeues(e) THEN Append(@, e) ELSE @]
    /\ run' = [run EXCEPT ![t] = None]
    /\ stage' = [stage EXCEPT ![t] = "none"]
    /\ UNCHANGED <<ext, size, grab, timed, phase, sig, poke, out, scheds>>

(***************************************************************************)
(* The loop of execute()                                                   *)
(***************************************************************************)
Goes(t, p) == phase' = [phase EXCEPT ![t] = p]

\* A poll thread calls dequeue_timed only if its list is not empty.
ToPop(t, p, q) == IF t \in PollThreads /\ ext[t] = <<>> THEN q ELSE p

\* Where the loop goes on after flush_signals.  Before a poll it decides how
\* long to sleep: not at all if the external list is known not to be empty.
AfterFlush(t, p) ==
    IF p = "flush1" THEN IF size[t] THEN "glance" ELSE "poll"
    ELSE IF t \in PollThreads THEN ToPop(t, "pop1", "local1") ELSE "wait"

\* flush_signals is called if some thread is to be signalled.
ToFlush(t, p) == IF sig[t] = {} THEN AfterFlush(t, p) ELSE p

\* Step 2, if there is anything in the priority queue
ToTimers(t) == IF timed[t] = {} THEN ToFlush(t, "flush") ELSE "timers"

\* Step 1 (3.1 before a poll) ends: the local queue is empty.
LocalDone(t) ==
    /\ run[t] = None /\ phase[t] \in LocalPhases /\ loc[t] = <<>>
    /\ Goes(t, IF phase[t] = "local" THEN ToTimers(t) ELSE ToFlush(t, "flush1"))
    /\ UNCHANGED <<ev, queues, run, stage, sig, poke, out, scheds>>

\* Step 2 ends: no event of the priority queue is due (any more).
TimersDone(t) ==
    /\ run[t] = None /\ phase[t] = "timers"
    /\ Goes(t, ToFlush(t, "flush"))
    /\ UNCHANGED <<ev, queues, run, stage, sig, poke, out, scheds>>

\* Seeded fault: a thread that is awake is not signalled, but forgotten.
FlushAsleep(t, u) ==
    /\ phase[t] \in FlushPhases /\ u \in sig[t] /\ CanSignal(u)
    /\ IF phase[u] \in {"asleep", "poll"} THEN Signal(u) ELSE UNCHANGED <<phase, poke>>
    /\ sig' = [sig EXCEPT ![t] = @ \ {u}]
    /\ UNCHANGED <<ev, queues, run, stage, out, scheds>>

\* flush_signals wakes one of the threads; after the last the loop goes on.
FlushOne(t, u) ==
    /\ phase[t] \in FlushPhases /\ u \in sig[t] /\ CanSignal(u)
    /\ Signal(u)
    /\ sig' = [sig EXCEPT ![t] = @ \ {u}]
    /\ UNCHANGED <<ev, queues, run, stage, out, scheds>>

FlushDone(t) ==
    /\ phase[t] \in FlushPhases /\ sig[t] = {}
    /\ Goes(t, AfterFlush(t, phase[t]))
    /\ UNCHANGED <<ev, queues, run, stage, sig, poke, out, scheds>>

\* dequeue_timed: under lock_, the thread looks whether its list is empty,
Look(t) ==
    /\ phase[t] = "wait"
    /\ Goes(t, IF ext[t] = <<>> THEN "decided" ELSE "pop")
    /\ UNCHANGED <<ev, queues, run, stage, sig, poke, out, scheds>>

\* and if so waits on the condition, which releases lock_.
Sleep(t) ==
    /\ phase[t] = "decided"
    /\ Goes(t, "asleep")
    /\ UNCHANGED <<ev, queues, run, stage, sig, poke, out, scheds>>

\* The wait times out: a timer is due, or after THREAD_MAX_HEARTBEAT_MSECONDS.
Timeout(t) ==
    /\ phase[t] = "asleep"
    /\ Goes(t, "pop")
    /\ UNCHANGED <<ev, queues, run, stage, sig, poke, out, scheds>>

\* epoll_wait returns because a descriptor is readable, and it is read.
PollWoken(t) ==
    /\ phase[t] = "poll" /\ poke[t]
    /\ Goes(t, ToPop(t, "pop", "local"))
    /\ poke' = [poke EXCEPT ![t] = FALSE]
    /\ UNCHANGED <<ev, queues, run, stage, sig, out, scheds>>

\* epoll_wait with a zero timeout reads what is readable.
Glance(t) ==
    /\ phase[t] = "glance"
    /\ Goes(t, ToPop(t, "pop", "local"))
    /\ poke' = [poke EXCEPT ![t] = FALSE]
    /\ UNCHANGED <<ev, queues, run, stage, sig, out, scheds>>

\* epoll_wait times out.
PollTimeout(t) ==
    /\ phase[t] = "poll" /\ ~poke[t]
    /\ Goes(t, ToPop(t, "pop", "local"))
    /\ UNCHANGED <<ev, queues, run, stage, sig, poke, out, scheds>>

\* Back to the local queue
ToLocal(p) == IF p \in {"pop", "move"} THEN "local" ELSE "local1"

\* dequeue_timed: popall, and atomic_list_size_ is reset, which may be undone
\* by the increment of another thread.
Pop(t) ==
    /\ phase[t] \in {"pop", "pop1"}
    /\ grab' = [grab EXCEPT ![t] = ext[t]]
    /\ ext' = [ext EXCEPT ![t] = <<>>]
    /\ size' \in {[size EXCEPT ![t] = FALSE], size}
    /\ Goes(t, IF ext[t] = <<>> THEN "local" ELSE IF phase[t] = "pop" THEN "move" ELSE "move1")
    /\ UNCHANGED <<ev, loc, timed, run, stage, sig, poke, out, scheds>>

\* It moves the oldest event to the local queue, or frees a cancelled one.
Move(t) ==
    /\ phase[t] \in {"move", "move1"}
    /\ LET e == Head(grab[t]) IN
       /\ ev' = [ev EXCEPT ![e] = IF @.cancelled THEN FreeEvent ELSE @]
       /\ loc' = [loc EXCEPT ![t] = IF ev[e].cancelled THEN @ ELSE Append(@, e)]
    /\ grab' = [grab EXCEPT ![t] = Tail(@)]
    /\ Goes(t, IF Len(grab[t]) = 1 THEN ToLocal(phase[t]) ELSE phase[t])
    /\ UNCHANGED <<ext, size, timed, run, stage, sig, poke, out, scheds>>

(***************************************************************************)
(* Specification                                                           *)
(***************************************************************************)

\* What thread t does by itself, callbacks' requests apart.
Loop(t) ==
    \/ Start(t) \/ Abandon(t) \/ Miss(t) \/ Return(t) \/ Settle(t)
    \/ LocalDone(t) \/ FlushDone(t) \/ Look(t) \/ Sleep(t)
    \/ PollWoken(t) \/ Glance(t) \/ Pop(t) \/ Move(t)
    \/ \E e \in Events : (AtHead(t, e) /\ (Take(t, e) \/ Drop(t, e))) \/ Defer(t, e)
    \/ \E u \in Threads : FlushOne(t, u)

Request(t) ==
    \E e \in Events :
       \/ Cancel(t, e)
       \/ \E k \in Kinds[e] : ScheduleLocal(t, e, k) \/ Reschedule(t, e, k)
       \/ \E k \in Kinds[e], u \in Threads : Schedule(t, e, u, k)

Next ==
    \/ SignalForeign
    \/ \E e \in Events : \E u \in Threads, k \in Kinds[e] : ScheduleForeign(e, u, k)
    \/ \E t \in Threads :
         \/ Loop(t) \/ Request(t)
         \/ TimersDone(t) \/ Timeout(t) \/ PollTimeout(t)
         \/ \E e \in Events : AtTimers(t, e) /\ (Take(t, e) \/ Drop(t, e))

Spec == Init /\ [][Next]_vars

(***************************************************************************)
(* Fairness.  Threads and the foreign thread go on.  A thread leaves the   *)
(* timers when none is due; an event in the priority queue comes due, and  *)
(* a sleep ends for it.  The heartbeat ends a sleep too, but it is assumed *)
(* only for a thread that sleeps on events of its local queue, which the   *)
(* loop leaves there when a timer's callback is queued again: a thread     *)
(* without such events may sleep until it is woken.                        *)
(***************************************************************************)
Fairness ==
    /\ WF_vars(SignalForeign)
    /\ \A t \in Threads :
         /\ WF_vars(Loop(t)) /\ WF_vars(TimersDone(t))
         /\ WF_vars((timed[t] # {} \/ loc[t] # <<>>) /\ (Timeout(t) \/ PollTimeout(t)))
         /\ SF_vars(\E e \in Events : AtTimers(t, e) /\ (Take(t, e) \/ Drop(t, e)))

FairSpec == Spec /\ Fairness

(***************************************************************************)
(* Properties                                                              *)
(***************************************************************************)
TypeOK ==
    /\ ev \in [Events -> EventType]
    /\ ext \in [Threads -> Seq(Events)]
    /\ size \in [Threads -> BOOLEAN]
    /\ grab \in [Threads -> Seq(Events)]
    /\ loc \in [Threads -> Seq(Events)]
    /\ timed \in [Threads -> SUBSET Events]
    /\ phase \in [Threads -> Phases]
    /\ run \in [Threads -> Events \union {None}]
    /\ stage \in [Threads -> Stages]
    /\ \A t \in Threads : run[t] = None <=> stage[t] = "none"
    /\ sig \in [Threads -> SUBSET Threads]
    /\ poke \in [Threads -> BOOLEAN]
    /\ out \in Threads \union {None}
    /\ scheds \in 0..MaxScheds

\* Somebody is going to wake u.
WakeComing(u) == out = u \/ \E t \in Threads : u \in sig[t]

(***************************************************************************)
(* No lost wake-up: a thread that sleeps, or has decided to, although its  *)
(* external list holds an event is going to be woken, by a deferred signal *)
(* or by a descriptor that is readable already.  The event never has to    *)
(* wait for the heartbeat.                                                 *)
(***************************************************************************)
NoLostWakeup ==
    \A u \in Threads :
       /\ (phase[u] \in {"decided", "asleep"} /\ ext[u] # <<>>) => WakeComing(u)
       /\ (phase[u] = "poll" /\ ext[u] # <<>>) => (WakeComing(u) \/ poke[u])

\* The events of thread t that are in its external list, on the way from there
\* to its local queue, or in its local queue.
InProt(t) == Range(ext[t]) \union Range(grab[t]) \union Range(loc[t])

\* No event of thread t is in two places of these.
QueuedOnce(t) ==
    /\ IsInjective(ext[t]) /\ IsInjective(grab[t]) /\ IsInjective(loc[t])
    /\ Range(ext[t]) \intersect Range(grab[t]) = {}
    /\ Range(ext[t]) \intersect Range(loc[t]) = {}
    /\ Range(grab[t]) \intersect Range(loc[t]) = {}

(***************************************************************************)
(* The flags of an event are true: an event with in_the_prot_queue_ is at  *)
(* exactly one place of one list or local queue, on its own thread, one    *)
(* with in_the_priority_queue_ in one priority queue, any other in none.   *)
(* An event is never queued twice, so never called back or freed twice.    *)
(***************************************************************************)
FlagsTruthful ==
    /\ \A t \in Threads : QueuedOnce(t)
    /\ \A e \in Events :
         /\ \A t \in Threads : e \in InProt(t) <=> (ev[e].prot /\ ev[e].home = t)
         /\ \A t \in Threads : e \in timed[t] <=> (ev[e].prio /\ ev[e].home = t)
         /\ ~(ev[e].prot /\ ev[e].prio)
         /\ Queued(e) => ev[e].used /\ ev[e].home \in Threads

\* An event whose callback is over and that process_event is going to free.
Ended(e) == \E t \in Threads : run[t] = e /\ stage[t] = "settle" /\ ~Keeps(e)

Running == {run[t] : t \in {u \in Threads : InCallback(u)}}
Owed == {e \in Events : ev[e].used /\ ~ev[e].cancelled /\ e \notin Running /\ ~Ended(e)}
Cancelled == {e \in Events : ev[e].cancelled /\ ~Ended(e)}

\* The queues implement the promise of the event system.
Delivery == INSTANCE EventDelivery
              WITH owed <- Owed, running <- Running, cancelled <- Cancelled
Delivers == Delivery!Spec

(***************************************************************************)
(* Every scheduled event is called back, or freed once it is cancelled,    *)
(* wherever it was then: no event of another thread waits for the          *)
(* heartbeat, none is lost in a queue.                                     *)
(***************************************************************************)
Delivered ==
    \A e \in Events : (ev[e].used /\ e \notin Running) ~> (e \in Running \/ ~ev[e].used)
=============================================================================
