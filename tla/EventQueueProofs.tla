--------------------------- MODULE EventQueueProofs ----------------------------
(***************************************************************************)
(* Proofs about the event threads and their queues, for every number of    *)
(* threads and events, every assignment of continuations and every bound.  *)
(***************************************************************************)
EXTENDS EventQueue, SequenceTheorems, TLAPS

(***************************************************************************)
(* Sequences as the queues use them                                        *)
(***************************************************************************)

\* An event appended to a queue is the only new one in it.
LEMMA AppendRange ==
    ASSUME NEW S, NEW s \in Seq(S), NEW e \in S
    PROVE  /\ Append(s, e) \in Seq(S)
           /\ Range(Append(s, e)) = Range(s) \union {e}
           /\ IsInjective(s) /\ e \notin Range(s) => IsInjective(Append(s, e))
<1>1. /\ Append(s, e) \in Seq(S)
      /\ Len(Append(s, e)) = Len(s) + 1
      /\ \A i \in 1 .. Len(s) : Append(s, e)[i] = s[i]
      /\ Append(s, e)[Len(s) + 1] = e
  OBVIOUS
<1>2. DOMAIN s = 1 .. Len(s) /\ DOMAIN Append(s, e) = 1 .. (Len(s) + 1) /\ Len(s) \in Nat
  OBVIOUS
<1>3. Range(Append(s, e)) = Range(s) \union {e}
  BY <1>1, <1>2 DEF Range
<1>4. ASSUME IsInjective(s), e \notin Range(s)
      PROVE  IsInjective(Append(s, e))
  <2> SUFFICES ASSUME NEW i \in 1 .. (Len(s) + 1), NEW j \in 1 .. (Len(s) + 1),
                      Append(s, e)[i] = Append(s, e)[j]
               PROVE  i = j
    BY <1>2 DEF IsInjective
  <2>1. CASE i = Len(s) + 1 \/ j = Len(s) + 1
    BY <1>1, <1>2, <1>4, <2>1 DEF Range
  <2>2. CASE i \in 1 .. Len(s) /\ j \in 1 .. Len(s)
    BY <1>1, <1>2, <1>4, <2>2 DEF IsInjective
  <2> QED
    BY <1>2, <2>1, <2>2
<1> QED
  BY <1>1, <1>3, <1>4

\* Taking the oldest event takes all there is of it.
LEMMA TailRange ==
    ASSUME NEW S, NEW s \in Seq(S), s # <<>>
    PROVE  /\ Tail(s) \in Seq(S)
           /\ Head(s) \in S /\ Head(s) \in Range(s)
           /\ IsInjective(s) => /\ Range(Tail(s)) = Range(s) \ {Head(s)}
                                /\ IsInjective(Tail(s))
<1>1. Len(s) \in Nat \ {0} /\ DOMAIN s = 1 .. Len(s)
  OBVIOUS
<1>2. /\ Tail(s) \in Seq(S)
      /\ DOMAIN Tail(s) = 1 .. (Len(s) - 1)
      /\ \A i \in 1 .. (Len(s) - 1) : Tail(s)[i] = s[i + 1]
      /\ Head(s) = s[1]
  BY <1>1
<1>3. Head(s) \in S /\ Head(s) \in Range(s)
  BY <1>1, <1>2 DEF Range
<1>4. ASSUME IsInjective(s)
      PROVE  Range(Tail(s)) = Range(s) \ {Head(s)} /\ IsInjective(Tail(s))
  <2>1. ASSUME NEW x \in Range(Tail(s))
        PROVE  x \in Range(s) \ {Head(s)}
    BY <1>1, <1>2, <1>4 DEF Range, IsInjective
  <2>2. ASSUME NEW x \in Range(s) \ {Head(s)}
        PROVE  x \in Range(Tail(s))
    <3>1. PICK i \in 1 .. Len(s) : x = s[i]
      BY <1>1 DEF Range
    <3>2. i - 1 \in 1 .. (Len(s) - 1) /\ Tail(s)[i - 1] = x
      BY <1>1, <1>2, <3>1
    <3> QED
      BY <1>2, <3>2 DEF Range
  <2>3. IsInjective(Tail(s))
    BY <1>1, <1>2, <1>4 DEF IsInjective
  <2> QED
    BY <2>1, <2>2, <2>3
<1> QED
  BY <1>2, <1>3, <1>4

\* Only a queue of one event is empty without its head.
LEMMA TailEmpty ==
    ASSUME NEW S, NEW s \in Seq(S), s # <<>>
    PROVE  Tail(s) = <<>> <=> Len(s) = 1
<1> DEFINE q == Tail(s)
<1>1. Len(s) \in Nat \ {0}
  OBVIOUS
<1>2. q \in Seq(S) /\ Len(q) = Len(s) - 1
  BY <1>1
<1> HIDE DEF q
<1>3. q = <<>> <=> Len(q) = 0
  BY <1>2, EmptySeq
<1>4. Len(q) = 0 <=> Len(s) = 1
  BY <1>1, <1>2
<1> QED
  BY <1>3, <1>4 DEF q

\* An empty queue holds nothing.
LEMMA EmptyRange == Range(<<>>) = {} /\ IsInjective(<<>>)
  BY DEF Range, IsInjective

\* A queue holds events only.
LEMMA RangeType ==
    ASSUME NEW S, NEW s \in Seq(S)
    PROVE  Range(s) \subseteq S
  BY DEF Range

(***************************************************************************)
(* Types                                                                   *)
(***************************************************************************)

\* dequeue_timed moves events only while it has some: Head and Tail are defined.
MovesSome == \A t \in Threads : phase[t] \in {"move", "move1"} => grab[t] # <<>>

\* process_event runs only where execute() calls it.
RunsInLoop == \A t \in Threads : stage[t] # "none" => phase[t] \in LocalPhases \union {"timers"}

TypeInv == TypeOK /\ MovesSome /\ RunsInLoop

\* What the operations make of an event is an event again.
LEMMA FreeEventType == FreeEvent \in EventType
  BY DEF FreeEvent, EventType

LEMMA CancelledType ==
    ASSUME NEW r \in EventType
    PROVE  [r EXCEPT !.cancelled = TRUE] \in EventType
  BY DEF EventType

LEMMA QueuedType ==
    ASSUME NEW r \in EventType, NEW b \in BOOLEAN, NEW c \in BOOLEAN
    PROVE  /\ [r EXCEPT !.prot = b, !.prio = c] \in EventType
           /\ [r EXCEPT !.prot = b, !.when = "later"] \in EventType
  BY DEF EventType

LEMMA TimingType ==
    ASSUME NEW e \in Events, ev[e] \in EventType, NEW k \in {"imm", "in", "every"}, NEW u \in Threads
    PROVE  Timing(e, k) \in EventType /\ [Timing(e, k) EXCEPT !.home = u] \in EventType
<1>1. Timing(e, k) \in EventType
  BY DEF Timing, EventType
<1>2. ASSUME NEW r \in EventType PROVE [r EXCEPT !.home = u] \in EventType
  BY DEF EventType
<1> QED
  BY <1>1, <1>2

LEMMA KindsType == \A e \in Events : \A k \in Kinds[e] : k \in {"imm", "in", "every"}
  BY QueueAssumption

\* The next places of the loop.
LEMMA LoopPhases ==
    ASSUME NEW t \in Threads
    PROVE  /\ \A p \in FlushPhases :
                /\ AfterFlush(t, p) \in {"glance", "poll", "pop1", "local1", "wait"}
                /\ ToFlush(t, p) \in {"glance", "poll", "pop1", "local1", "wait", p}
           /\ ToTimers(t) \in {"glance", "poll", "pop1", "local1", "wait", "flush", "timers"}
           /\ ToPop(t, "pop", "local") \in {"pop", "local"}
  BY DEF AfterFlush, ToFlush, ToTimers, ToPop, FlushPhases

LEMMA InitType == Init => TypeInv
<1> SUFFICES ASSUME Init PROVE TypeInv
  OBVIOUS
<1>1. FreeEvent \in EventType
  BY DEF FreeEvent, EventType
<1>2. TypeOK
  BY <1>1, QueueAssumption DEF Init, TypeOK, Phases, LocalPhases, Stages
<1>3. MovesSome /\ RunsInLoop
  BY DEF Init, MovesSome, RunsInLoop
<1> QED
  BY <1>2, <1>3 DEF TypeInv

\* A push keeps the types of what it changes.
LEMMA PushType ==
    ASSUME TypeOK, NEW e \in Events, NEW u \in Threads, NEW k \in {"imm", "in", "every"},
           NEW own \in BOOLEAN, Push(e, u, k, own)
    PROVE  /\ ev' \in [Events -> EventType]
           /\ ext' \in [Threads -> Seq(Events)]
           /\ size' \in [Threads -> BOOLEAN]
           /\ UNCHANGED <<grab, loc, timed>>
<1>1. ev' \in [Events -> EventType]
  BY TimingType DEF Push, TypeOK
<1>2. size' \in [Threads -> BOOLEAN]
  BY DEF Push, TypeOK
<1>3. ext' \in [Threads -> Seq(Events)]
  BY DEF Push, TypeOK
<1> QED
  BY <1>1, <1>2, <1>3 DEF Push

\* What callbacks and foreign threads ask for keeps the types.
LEMMA RequestType ==
    ASSUME TypeInv, NEW t \in Threads, Request(t)
    PROVE  TypeInv'
<1> USE DEF TypeInv, MovesSome, RunsInLoop
<1>1. ASSUME NEW e \in Events, Cancel(t, e)
      PROVE  TypeInv'
  <2>1. ev' \in [Events -> EventType]
    <3>1. ev' = [ev EXCEPT ![e] = [ev[e] EXCEPT !.cancelled = TRUE]]
      BY <1>1 DEF Cancel
    <3> QED
      BY <3>1, CancelledType DEF TypeOK
  <2>2. TypeOK'
    BY <1>1, <2>1 DEF Cancel, queues, TypeOK
  <2> QED
    BY <1>1, <2>2 DEF Cancel, queues
<1>2. ASSUME NEW e \in Events, NEW k \in Kinds[e], ScheduleLocal(t, e, k)
      PROVE  TypeInv'
  <2>1. ev' \in [Events -> EventType]
    BY <1>2, KindsType, TimingType DEF ScheduleLocal, TypeOK
  <2>2. scheds' \in 0 .. MaxScheds
    BY <1>2, QueueAssumption DEF ScheduleLocal, Counted, TypeOK
  <2>3. loc' \in [Threads -> Seq(Events)]
    BY <1>2 DEF ScheduleLocal, TypeOK
  <2>4. TypeOK'
    BY <1>2, <2>1, <2>2, <2>3 DEF ScheduleLocal, TypeOK
  <2> QED
    BY <1>2, <2>4 DEF ScheduleLocal
<1>3. ASSUME NEW e \in Events, NEW k \in Kinds[e], Reschedule(t, e, k)
      PROVE  TypeInv'
  <2>1. ev' \in [Events -> EventType]
    BY <1>3, KindsType, TimingType DEF Reschedule, TypeOK
  <2>2. scheds' \in 0 .. MaxScheds
    BY <1>3, QueueAssumption DEF Reschedule, Counted, TypeOK
  <2>3. loc' \in [Threads -> Seq(Events)] /\ timed' \in [Threads -> SUBSET Events]
    BY <1>3 DEF Reschedule, TypeOK
  <2>4. TypeOK'
    BY <1>3, <2>1, <2>2, <2>3 DEF Reschedule, TypeOK
  <2> QED
    BY <1>3, <2>4 DEF Reschedule
<1>4. ASSUME NEW e \in Events, NEW k \in Kinds[e], NEW u \in Threads, Schedule(t, e, u, k)
      PROVE  TypeInv'
  <2>1. scheds' \in 0 .. MaxScheds
    BY <1>4, QueueAssumption DEF Schedule, Counted, TypeOK
  <2>2. sig' \in [Threads -> SUBSET Threads]
    BY <1>4 DEF Schedule, TypeOK
  <2>3. poke' \in [Threads -> BOOLEAN]
    BY <1>4 DEF Schedule, TypeOK
  <2>4. (u = t) \in BOOLEAN /\ Push(e, u, k, u = t) /\ k \in {"imm", "in", "every"}
    BY <1>4, KindsType DEF Schedule
  <2>5. ev' \in [Events -> EventType] /\ ext' \in [Threads -> Seq(Events)] /\ size' \in [Threads -> BOOLEAN]
        /\ UNCHANGED <<grab, loc, timed>>
    BY <2>4, PushType
  <2>6. TypeOK'
    BY <1>4, <2>1, <2>2, <2>3, <2>5 DEF Schedule, TypeOK
  <2> QED
    BY <1>4, <2>5, <2>6 DEF Schedule
<1> QED
  BY <1>1, <1>2, <1>3, <1>4 DEF Request

LEMMA ForeignType ==
    ASSUME TypeInv,
           SignalForeign \/ \E e \in Events : \E u \in Threads, k \in Kinds[e] : ScheduleForeign(e, u, k)
    PROVE  TypeInv'
<1> USE DEF TypeInv, MovesSome, RunsInLoop
<1>1. CASE SignalForeign
  <2>1. poke' \in [Threads -> BOOLEAN]
    BY <1>1 DEF SignalForeign, Signal, TypeOK
  <2>2. phase' \in [Threads -> Phases]
    BY <1>1 DEF SignalForeign, Signal, TypeOK, Phases
  <2>3. TypeOK'
    BY <1>1, <2>1, <2>2 DEF SignalForeign, queues, TypeOK
  <2>4. MovesSome' /\ RunsInLoop'
    BY <1>1 DEF SignalForeign, Signal, queues, TypeOK, LocalPhases
  <2> QED
    BY <2>3, <2>4
<1>2. ASSUME NEW e \in Events, NEW u \in Threads, NEW k \in Kinds[e], ScheduleForeign(e, u, k)
      PROVE  TypeInv'
  <2>1. scheds' \in 0 .. MaxScheds
    BY <1>2, QueueAssumption DEF ScheduleForeign, Counted, TypeOK
  <2>2. Push(e, u, k, FALSE) /\ k \in {"imm", "in", "every"}
    BY <1>2, KindsType DEF ScheduleForeign
  <2>3. ev' \in [Events -> EventType] /\ ext' \in [Threads -> Seq(Events)] /\ size' \in [Threads -> BOOLEAN]
        /\ UNCHANGED <<grab, loc, timed>>
    BY <2>2, PushType
  <2>4. TypeOK'
    BY <1>2, <2>1, <2>3 DEF ScheduleForeign, TypeOK
  <2> QED
    BY <1>2, <2>3, <2>4 DEF ScheduleForeign
<1> QED
  BY <1>1, <1>2

\* Steps that take an event out of a queue of thread t.
LEMMA TakeType ==
    ASSUME TypeInv, NEW t \in Threads, NEW e \in Events, Take(t, e) \/ Drop(t, e) \/ Defer(t, e)
    PROVE  TypeInv'
<1> USE DEF TypeInv, MovesSome, RunsInLoop
<1>1. AtHead(t, e) => Tail(loc[t]) \in Seq(Events)
  BY TailRange DEF AtHead, TypeOK
<1>2. loc' \in [Threads -> Seq(Events)] /\ timed' \in [Threads -> SUBSET Events]
  <2>1. CASE Take(t, e)
    BY <1>1, <2>1 DEF Take, Takes, TypeOK
  <2>2. CASE Drop(t, e)
    BY <1>1, <2>2 DEF Drop, Takes, TypeOK
  <2>3. CASE Defer(t, e)
    BY <1>1, <2>3 DEF Defer, TypeOK
  <2> QED
    BY <2>1, <2>2, <2>3
<1>3. CASE Take(t, e)
  <2>1. phase[t] \in LocalPhases \union {"timers"}
    BY <1>3 DEF Take, Takes, AtHead, AtTimers
  <2>2. ev' \in [Events -> EventType]
    <3>1. ev' = [ev EXCEPT ![e] = [ev[e] EXCEPT !.prot = FALSE, !.prio = FALSE]]
      BY <1>3 DEF Take, TypeOK
    <3> QED
      BY <3>1, QueuedType DEF TypeOK
  <2>3. run' \in [Threads -> Events \union {None}] /\ stage' \in [Threads -> Stages]
        /\ \A u \in Threads : run'[u] = None <=> stage'[u] = "none"
    BY <1>3, QueueAssumption DEF Take, TypeOK, Stages
  <2>4. TypeOK'
    BY <1>2, <1>3, <2>2, <2>3 DEF Take, Takes, TypeOK
  <2>5. MovesSome' /\ RunsInLoop'
    BY <1>3, <2>1 DEF Take, Takes, TypeOK
  <2> QED
    BY <2>4, <2>5
<1>4. CASE Drop(t, e)
  <2>1. ev' \in [Events -> EventType]
    BY <1>4, FreeEventType DEF Drop, TypeOK
  <2>2. TypeOK'
    BY <1>2, <1>4, <2>1 DEF Drop, Takes, TypeOK
  <2> QED
    BY <1>4, <2>2 DEF Drop, Takes
<1>5. CASE Defer(t, e)
  <2>1. ev' \in [Events -> EventType]
    <3>1. ev' = [ev EXCEPT ![e] = [ev[e] EXCEPT !.prot = FALSE, !.prio = TRUE]]
      BY <1>5 DEF Defer, TypeOK
    <3> QED
      BY <3>1, QueuedType DEF TypeOK
  <2>2. TypeOK'
    BY <1>2, <1>5, <2>1 DEF Defer, TypeOK
  <2> QED
    BY <1>5, <2>2 DEF Defer
<1> QED
  BY <1>3, <1>4, <1>5

\* The steps of process_event.
LEMMA CallbackType ==
    ASSUME TypeInv, NEW t \in Threads,
           Start(t) \/ Abandon(t) \/ Miss(t) \/ Return(t) \/ Settle(t)
    PROVE  TypeInv'
<1> USE DEF TypeInv, MovesSome, RunsInLoop
<1>1. run[t] \in Events /\ stage[t] # "none"
  BY DEF Start, Abandon, Miss, Return, Settle, InCallback, TypeOK
<1>2. ev' \in [Events -> EventType]
  <2>1. CASE Start(t) \/ Return(t)
    BY <2>1 DEF Start, Return, TypeOK
  <2>2. CASE Abandon(t)
    BY <2>2, FreeEventType DEF Abandon, TypeOK
  <2>3. CASE Miss(t)
    <3>1. ev' = [ev EXCEPT ![run[t]] = [ev[run[t]] EXCEPT !.prot = TRUE, !.when = "later"]]
      BY <1>1, <2>3 DEF Miss, TypeOK
    <3> QED
      BY <1>1, <3>1, QueuedType DEF TypeOK
  <2>4. CASE Settle(t)
    <3>1. [ev[run[t]] EXCEPT !.prot = TRUE, !.when = "later"] \in EventType /\ ev[run[t]] \in EventType
      BY <1>1, QueuedType DEF TypeOK
    <3> QED
      BY <1>1, <2>4, <3>1, FreeEventType DEF Settle, TypeOK
  <2> QED
    BY <2>1, <2>2, <2>3, <2>4
<1>3. loc' \in [Threads -> Seq(Events)] /\ UNCHANGED <<ext, size, grab, timed, phase, sig, poke, out, scheds>>
  <2>1. CASE Miss(t) \/ Settle(t)
    <3>1. Append(loc[t], run[t]) \in Seq(Events) /\ loc[t] \in Seq(Events)
      BY <1>1 DEF TypeOK
    <3>2. CASE Miss(t)
      BY <3>1, <3>2 DEF Miss, TypeOK
    <3>3. CASE Settle(t)
      BY <3>1, <3>3 DEF Settle, TypeOK
    <3> QED
      BY <2>1, <3>2, <3>3
  <2>2. CASE Start(t) \/ Abandon(t) \/ Return(t)
    BY <2>2 DEF Start, Abandon, Return, queues, TypeOK
  <2> QED
    BY <2>1, <2>2
<1>4. run' \in [Threads -> Events \union {None}] /\ stage' \in [Threads -> Stages]
      /\ \A u \in Threads : run'[u] = None <=> stage'[u] = "none"
  <2>1. CASE Start(t) \/ Return(t)
    BY <1>1, <2>1, QueueAssumption DEF Start, Return, TypeOK, Stages
  <2>2. CASE Abandon(t)
    BY <2>2 DEF Abandon, TypeOK, Stages
  <2>3. CASE Miss(t)
    BY <2>3 DEF Miss, TypeOK, Stages
  <2>4. CASE Settle(t)
    BY <2>4 DEF Settle, TypeOK, Stages
  <2> QED
    BY <2>1, <2>2, <2>3, <2>4
<1>5. RunsInLoop'
  BY <1>1, <1>3 DEF Start, Abandon, Miss, Return, Settle, TypeOK
<1>6. TypeOK'
  BY <1>2, <1>3, <1>4 DEF TypeOK
<1> QED
  BY <1>3, <1>5, <1>6

\* The steps that only go on in the loop, or wake somebody.
LEMMA GoesType ==
    ASSUME TypeInv, NEW t \in Threads,
           \/ LocalDone(t) \/ TimersDone(t) \/ FlushDone(t) \/ Look(t) \/ Sleep(t) \/ Timeout(t)
           \/ PollWoken(t) \/ Glance(t) \/ PollTimeout(t) \/ \E u \in Threads : FlushOne(t, u)
    PROVE  TypeInv'
<1> USE DEF TypeInv, MovesSome, RunsInLoop
<1>1. ASSUME NEW p \in Phases \ {"move", "move1"}, Goes(t, p), run[t] = None \/ phase[t] \notin LocalPhases \union {"timers"},
             UNCHANGED <<ev, queues, run, stage, sig, out, scheds>>, poke' \in [Threads -> BOOLEAN]
      PROVE  TypeInv'
  BY <1>1 DEF Goes, queues, TypeOK
<1>2. \A p \in FlushPhases : AfterFlush(t, p) \in Phases \ {"move", "move1"} /\ ToFlush(t, p) \in Phases \ {"move", "move1"}
  BY LoopPhases DEF Phases, FlushPhases, LocalPhases
<1>3. ToTimers(t) \in Phases \ {"move", "move1"} /\ ToPop(t, "pop", "local") \in Phases \ {"move", "move1"}
  BY LoopPhases DEF Phases, FlushPhases, LocalPhases
<1>4. poke \in [Threads -> BOOLEAN] /\ [poke EXCEPT ![t] = FALSE] \in [Threads -> BOOLEAN]
  BY DEF TypeOK
<1>5. CASE LocalDone(t)
  BY <1>1, <1>2, <1>3, <1>4, <1>5 DEF LocalDone, FlushPhases
<1>6. CASE TimersDone(t)
  BY <1>1, <1>2, <1>4, <1>6 DEF TimersDone, FlushPhases
<1>7. CASE FlushDone(t)
  BY <1>1, <1>2, <1>4, <1>7 DEF FlushDone, FlushPhases, LocalPhases
<1>8. CASE Look(t)
  BY <1>1, <1>4, <1>8 DEF Look, Phases, LocalPhases
<1>9. CASE Sleep(t)
  BY <1>1, <1>4, <1>9 DEF Sleep, Phases, LocalPhases
<1>10. CASE Timeout(t)
  BY <1>1, <1>4, <1>10 DEF Timeout, Phases, LocalPhases
<1>11. CASE PollWoken(t) \/ Glance(t) \/ PollTimeout(t)
  BY <1>1, <1>3, <1>4, <1>11 DEF PollWoken, Glance, PollTimeout, LocalPhases
<1>12. ASSUME NEW u \in Threads, FlushOne(t, u)
       PROVE  TypeInv'
  BY <1>12 DEF FlushOne, Signal, CanSignal, queues, TypeOK, Phases, LocalPhases
<1> QED
  BY <1>5, <1>6, <1>7, <1>8, <1>9, <1>10, <1>11, <1>12

\* dequeue_timed
LEMMA DequeueType ==
    ASSUME TypeInv, NEW t \in Threads, Pop(t) \/ Move(t)
    PROVE  TypeInv'
<1> USE DEF TypeInv, MovesSome, RunsInLoop
<1>1. CASE Pop(t)
  <2>1. ext' \in [Threads -> Seq(Events)] /\ grab' \in [Threads -> Seq(Events)]
    BY <1>1 DEF Pop, TypeOK
  <2>2. size' \in [Threads -> BOOLEAN]
    BY <1>1 DEF Pop, TypeOK
  <2>3. phase' \in [Threads -> Phases]
    BY <1>1 DEF Pop, Goes, TypeOK, Phases, LocalPhases
  <2>4. TypeOK'
    BY <1>1, <2>1, <2>2, <2>3 DEF Pop, TypeOK
  <2>5. MovesSome'
    BY <1>1 DEF Pop, Goes, TypeOK
  <2>6. RunsInLoop'
    BY <1>1 DEF Pop, Goes, TypeOK, LocalPhases
  <2> QED
    BY <2>4, <2>5, <2>6
<1>2. CASE Move(t)
  <2>1. grab[t] # <<>> /\ Head(grab[t]) \in Events /\ Tail(grab[t]) \in Seq(Events)
    BY <1>2, TailRange DEF Move, TypeOK
  <2>2. Len(grab[t]) # 1 => Tail(grab[t]) # <<>>
    BY <2>1, TailEmpty DEF TypeOK
  <2>3. ev' \in [Events -> EventType]
    BY <1>2, <2>1, FreeEventType DEF Move, TypeOK
  <2>4. loc' \in [Threads -> Seq(Events)] /\ grab' \in [Threads -> Seq(Events)]
    BY <1>2, <2>1 DEF Move, TypeOK
  <2>5. phase' \in [Threads -> Phases]
    BY <1>2 DEF Move, Goes, ToLocal, TypeOK, Phases, LocalPhases
  <2>6. MovesSome'
    BY <1>2, <2>2 DEF Move, Goes, ToLocal, TypeOK
  <2>7. RunsInLoop'
    BY <1>2 DEF Move, Goes, ToLocal, TypeOK, LocalPhases
  <2>8. TypeOK'
    BY <1>2, <2>3, <2>4, <2>5 DEF Move, TypeOK
  <2> QED
    BY <2>6, <2>7, <2>8
<1> QED
  BY <1>1, <1>2

LEMMA NextType == TypeInv /\ [Next]_vars => TypeInv'
<1> SUFFICES ASSUME TypeInv, [Next]_vars PROVE TypeInv'
  OBVIOUS
<1>1. CASE UNCHANGED vars
  BY <1>1 DEF vars, TypeInv, TypeOK, MovesSome, RunsInLoop
<1>2. CASE Next
  BY <1>2, ForeignType, RequestType, TakeType, CallbackType, GoesType, DequeueType DEF Next, Loop
<1> QED
  BY <1>1, <1>2

\* Type correctness, for every number of threads and events: the flags of an
\* event, the queues and the place of each thread in execute() and process_event
\* keep their types, and dequeue_timed never takes the head of an empty list.
THEOREM TypeCorrect == Spec => []TypeOK
<1>1. TypeInv => TypeOK
  BY DEF TypeInv
<1> QED
  BY InitType, NextType, <1>1, PTL DEF Spec

(***************************************************************************)
(* Wake-ups                                                                *)
(***************************************************************************)

\* Only a thread with a poll event goes through the places around a poll.
PollersPoll ==
    \A u \in Threads :
       phase[u] \in {"poll", "glance", "local1", "flush1", "pop1", "move1"} => u \in PollThreads

\* A poll thread whose counter hides that its external list is not empty is
\* going to be woken, unless it is about to empty the list: what it reads
\* from its descriptor sends it to dequeue_timed.
HiddenWoken ==
    \A u \in PollThreads :
       (ext[u] # <<>> /\ ~size[u] /\ phase[u] # "pop") => (WakeComing(u) \/ poke[u])

WakeInv == PollersPoll /\ HiddenWoken /\ NoLostWakeup

LEMMA InitWake == Init => WakeInv
  BY QueueAssumption DEF Init, WakeInv, PollersPoll, HiddenWoken, NoLostWakeup

\* What the owner of a queue does to its list, while a wake-up owed stays owed.
LEMMA PushWake ==
    ASSUME TypeInv, WakeInv, NEW e \in Events, NEW u \in Threads, NEW k \in {"imm", "in", "every"},
           NEW own \in BOOLEAN, Push(e, u, k, own), UNCHANGED phase,
           own => phase[u] \in LocalPhases \union {"timers"},
           WasEmpty(u) /\ ~own => WakeComing(u)',
           \A w \in Threads : WakeComing(w) => WakeComing(w)',
           \A w \in Threads : poke[w] => poke'[w]
    PROVE  WakeInv'
<1> USE DEF WakeInv
<1>1. ext' \in [Threads -> Seq(Events)] /\ size' \in [Threads -> BOOLEAN]
  BY PushType DEF TypeInv
<1>2. \A w \in Threads \ {u} : ext'[w] = ext[w] /\ size'[w] = size[w]
  BY DEF Push, TypeInv, TypeOK
<1>3. own => size'[u]
  BY DEF Push, TypeInv, TypeOK
<1>4. ~own => WakeComing(u)' \/ ext[u] # <<>>
  BY DEF WasEmpty
<1>5. size[u] => size'[u]
  BY DEF Push, TypeInv, TypeOK
<1>6. PollersPoll'
  BY DEF PollersPoll
<1>7. HiddenWoken'
  BY <1>2, <1>3, <1>4, <1>5, QueueAssumption DEF HiddenWoken
<1>8. NoLostWakeup'
  BY <1>2, <1>4 DEF NoLostWakeup, LocalPhases
<1> QED
  BY <1>6, <1>7, <1>8

\* A signal wakes its thread, wherever that is: the wake-up is no longer owed.
LEMMA SignalWake ==
    ASSUME TypeInv, WakeInv, NEW u \in Threads, Signal(u), CanSignal(u), UNCHANGED <<ext, size>>,
           \A w \in Threads \ {u} : WakeComing(w) => WakeComing(w)'
    PROVE  WakeInv'
<1> USE DEF WakeInv
<1>1. \A w \in Threads \ {u} : phase'[w] = phase[w] /\ poke'[w] = poke[w]
  BY DEF Signal, TypeInv, TypeOK
<1>2. phase'[u] = (IF phase[u] = "asleep" THEN "pop" ELSE phase[u]) /\ phase[u] # "decided"
  BY DEF Signal, CanSignal, TypeInv, TypeOK
<1>3. u \in PollThreads => poke'[u]
  BY DEF Signal, TypeInv, TypeOK
<1>4. PollersPoll'
  BY <1>1, <1>2 DEF PollersPoll
<1>5. HiddenWoken'
  BY <1>1, <1>2, <1>3, QueueAssumption DEF HiddenWoken
<1>6. NoLostWakeup'
  BY <1>1, <1>2, <1>3 DEF NoLostWakeup, PollersPoll
<1> QED
  BY <1>4, <1>5, <1>6

\* A step of the loop of t that goes to p keeps the invariant if it holds for t.
LEMMA GoesWake ==
    ASSUME TypeInv, WakeInv, NEW t \in Threads, NEW p, Goes(t, p), UNCHANGED <<sig, out>>,
           \A w \in Threads \ {t} : ext'[w] = ext[w] /\ size'[w] = size[w] /\ poke'[w] = poke[w],
           p \in {"poll", "glance", "local1", "flush1", "pop1", "move1"} => t \in PollThreads,
           (t \in PollThreads /\ ext'[t] # <<>> /\ ~size'[t] /\ p # "pop") => (WakeComing(t) \/ poke'[t]),
           (p \in {"decided", "asleep"} /\ ext'[t] # <<>>) => WakeComing(t),
           (p = "poll" /\ ext'[t] # <<>>) => (WakeComing(t) \/ poke'[t])
    PROVE  WakeInv'
<1> USE DEF WakeInv
<1>1. phase'[t] = p /\ \A w \in Threads \ {t} : phase'[w] = phase[w]
  BY DEF Goes, TypeInv, TypeOK
<1>2. \A w \in Threads : WakeComing(w)' <=> WakeComing(w)
  BY DEF WakeComing
<1>3. PollersPoll'
  BY <1>1 DEF PollersPoll
<1>4. HiddenWoken'
  BY <1>1, <1>2, QueueAssumption DEF HiddenWoken
<1>5. NoLostWakeup'
  BY <1>1, <1>2 DEF NoLostWakeup
<1> QED
  BY <1>3, <1>4, <1>5

\* Where the loop goes after flush_signals: it polls only if its counter says
\* that the external list is empty.
LEMMA AfterFlushWake ==
    ASSUME TypeInv, WakeInv, NEW t \in Threads, NEW p \in FlushPhases,
           phase[t] \in {"local", "local1", "timers", p}, phase[t] = "local1" => p = "flush1",
           p = "flush1" => phase[t] \in {"local1", "flush1"}
    PROVE  /\ AfterFlush(t, p) \in {"glance", "poll", "pop1", "local1"} => t \in PollThreads
           /\ AfterFlush(t, p) \notin {"decided", "asleep", "pop"}
           /\ AfterFlush(t, p) = "poll" => ~size[t]
<1> USE DEF WakeInv, FlushPhases
<1>1. p = "flush1" => t \in PollThreads
  BY DEF PollersPoll
<1> QED
  BY <1>1 DEF AfterFlush, ToPop

\* The steps of the loop that only go on.
LEMMA LoopWake ==
    ASSUME TypeInv, WakeInv, NEW t \in Threads,
           \/ LocalDone(t) \/ TimersDone(t) \/ FlushDone(t) \/ Look(t) \/ Sleep(t) \/ Timeout(t)
           \/ PollWoken(t) \/ Glance(t) \/ PollTimeout(t) \/ Pop(t) \/ Move(t)
    PROVE  WakeInv'
<1>0. /\ t \in PollThreads /\ ext[t] # <<>> /\ ~size[t] /\ phase[t] # "pop" => WakeComing(t) \/ poke[t]
      /\ phase[t] \in {"poll", "glance", "local1", "flush1", "pop1", "move1"} => t \in PollThreads
      /\ phase[t] \in {"decided", "asleep"} /\ ext[t] # <<>> => WakeComing(t)
  BY DEF WakeInv, HiddenWoken, PollersPoll, NoLostWakeup
<1>1. ASSUME NEW p \in FlushPhases, Goes(t, ToFlush(t, p)), phase[t] \in {"local", "local1", "timers"},
             p = "flush1" <=> phase[t] = "local1", UNCHANGED <<ext, size, sig, poke, out>>
      PROVE  WakeInv'
  <2>1. /\ AfterFlush(t, p) \in {"glance", "poll", "pop1", "local1"} => t \in PollThreads
        /\ AfterFlush(t, p) \notin {"decided", "asleep", "pop"}
        /\ AfterFlush(t, p) = "poll" => ~size[t]
    BY <1>1, AfterFlushWake DEF FlushPhases
  <2>2. AfterFlush(t, p) \in {"glance", "poll", "pop1", "local1", "wait"}
    BY LoopPhases
  <2>3. ToFlush(t, p) = p \/ ToFlush(t, p) = AfterFlush(t, p)
    BY DEF ToFlush
  <2> QED
    BY <1>0, <1>1, <2>1, <2>2, <2>3, GoesWake DEF FlushPhases
<1>2. CASE LocalDone(t)
  <2>1. CASE phase[t] = "local" /\ timed[t] # {}
    BY <1>0, <1>2, <2>1, GoesWake DEF LocalDone, ToTimers, queues
  <2>2. CASE phase[t] = "local" /\ timed[t] = {}
    BY <1>1, <1>2, <2>2 DEF LocalDone, ToTimers, queues, FlushPhases
  <2>3. CASE phase[t] = "local1"
    BY <1>1, <1>2, <2>3 DEF LocalDone, queues, FlushPhases
  <2> QED
    BY <1>2, <2>1, <2>2, <2>3 DEF LocalDone, LocalPhases
<1>3. CASE TimersDone(t)
  BY <1>1, <1>3 DEF TimersDone, queues, FlushPhases
<1>4. CASE FlushDone(t)
  <2>1. /\ AfterFlush(t, phase[t]) \in {"glance", "poll", "pop1", "local1"} => t \in PollThreads
        /\ AfterFlush(t, phase[t]) \notin {"decided", "asleep", "pop"}
        /\ AfterFlush(t, phase[t]) = "poll" => ~size[t]
    BY <1>4, AfterFlushWake DEF FlushDone, FlushPhases
  <2>2. AfterFlush(t, phase[t]) \in {"glance", "poll", "pop1", "local1", "wait"}
    BY <1>4, LoopPhases DEF FlushDone
  <2>3. phase[t] # "pop" /\ UNCHANGED <<ext, size, sig, poke, out>> /\ Goes(t, AfterFlush(t, phase[t]))
    BY <1>4 DEF FlushDone, FlushPhases, queues
  <2> QED
    BY <1>0, <2>1, <2>2, <2>3, GoesWake
<1>5. CASE Look(t)
  BY <1>0, <1>5, GoesWake DEF Look, queues
<1>6. CASE Sleep(t) \/ Timeout(t)
  BY <1>0, <1>6, GoesWake DEF Sleep, Timeout, queues
<1>7. CASE PollWoken(t) \/ Glance(t) \/ PollTimeout(t)
  <2>1. t \in PollThreads /\ Goes(t, ToPop(t, "pop", "local")) /\ UNCHANGED <<ext, size, sig, out>>
    BY <1>0, <1>7 DEF PollWoken, Glance, PollTimeout, queues
  <2>2. \A w \in Threads \ {t} : poke'[w] = poke[w]
    BY <1>7 DEF PollWoken, Glance, PollTimeout, TypeInv, TypeOK
  <2>3. IF ext[t] = <<>> THEN ToPop(t, "pop", "local") = "local" ELSE ToPop(t, "pop", "local") = "pop"
    BY <2>1 DEF ToPop
  <2> QED
    BY <2>1, <2>2, <2>3, GoesWake
<1>8. CASE Pop(t)
  <2>1. ext'[t] = <<>> /\ \A w \in Threads \ {t} : ext'[w] = ext[w] /\ size'[w] = size[w] /\ poke'[w] = poke[w]
    BY <1>8 DEF Pop, TypeInv, TypeOK
  <2> QED
    BY <1>0, <1>8, <2>1, GoesWake DEF Pop
<1>9. CASE Move(t)
  BY <1>0, <1>9, GoesWake DEF Move, ToLocal
<1> QED
  BY <1>2, <1>3, <1>4, <1>5, <1>6, <1>7, <1>8, <1>9

\* Steps that leave the lists, the signals and the places of the threads alone.
LEMMA QuietWake ==
    ASSUME WakeInv, UNCHANGED <<ext, size, phase, sig, poke, out>>
    PROVE  WakeInv'
  BY DEF WakeInv, PollersPoll, HiddenWoken, NoLostWakeup, WakeComing

LEMMA NextWake == TypeInv /\ WakeInv /\ [Next]_vars => WakeInv'
<1> SUFFICES ASSUME TypeInv, WakeInv, [Next]_vars PROVE WakeInv'
  OBVIOUS
<1>1. CASE UNCHANGED vars
  BY <1>1, QuietWake DEF vars
<1>2. CASE SignalForeign
  <2>1. out \in Threads /\ Signal(out) /\ CanSignal(out) /\ UNCHANGED <<ext, size, sig>>
    BY <1>2 DEF SignalForeign, queues, TypeInv, TypeOK
  <2>2. \A w \in Threads \ {out} : WakeComing(w) => WakeComing(w)'
    BY <2>1 DEF WakeComing
  <2> QED
    BY <2>1, <2>2, SignalWake
<1>3. ASSUME NEW e \in Events, NEW u \in Threads, NEW k \in Kinds[e], ScheduleForeign(e, u, k)
      PROVE  WakeInv'
  <2>1. k \in {"imm", "in", "every"}
    BY KindsType
  <2>2. Push(e, u, k, FALSE) /\ UNCHANGED <<phase, sig, poke>> /\ out = None
        /\ out' = (IF WasEmpty(u) THEN u ELSE None)
    BY <1>3 DEF ScheduleForeign
  <2>3. WasEmpty(u) => WakeComing(u)'
    BY <2>2 DEF WakeComing
  <2>4. \A w \in Threads : WakeComing(w) => WakeComing(w)'
    BY <2>2, QueueAssumption DEF WakeComing
  <2> QED
    BY <2>1, <2>2, <2>3, <2>4, PushWake
<1>4. ASSUME NEW t \in Threads, Request(t)
      PROVE  WakeInv'
  <2>1. ASSUME NEW e \in Events, NEW k \in Kinds[e], NEW u \in Threads, Schedule(t, e, u, k)
        PROVE  WakeInv'
    <3>1. k \in {"imm", "in", "every"} /\ (u = t) \in BOOLEAN
      BY KindsType
    <3>2. Push(e, u, k, u = t) /\ UNCHANGED <<phase, out>>
      BY <2>1 DEF Schedule
    <3>3. u = t => phase[u] \in LocalPhases \union {"timers"}
      BY <2>1 DEF Schedule, InCallback, TypeInv, RunsInLoop
    <3>4. WasEmpty(u) /\ u # t => WakeComing(u)'
      BY <2>1 DEF Schedule, WakeComing, TypeInv, TypeOK
    <3>5. \A w \in Threads : WakeComing(w) => WakeComing(w)'
      BY <2>1 DEF Schedule, WakeComing, TypeInv, TypeOK
    <3>6. \A w \in Threads : poke[w] => poke'[w]
      BY <2>1 DEF Schedule, TypeInv, TypeOK
    <3> QED
      BY <3>1, <3>2, <3>3, <3>4, <3>5, <3>6, PushWake
  <2>2. ASSUME NEW e \in Events, NEW k \in Kinds[e],
               Cancel(t, e) \/ ScheduleLocal(t, e, k) \/ Reschedule(t, e, k)
        PROVE  WakeInv'
    BY <2>2, QuietWake DEF Cancel, ScheduleLocal, Reschedule, queues
  <2>3. ASSUME NEW e \in Events, Cancel(t, e)
        PROVE  WakeInv'
    BY <2>3, QuietWake DEF Cancel, queues
  <2> QED
    BY <1>4, <2>1, <2>2, <2>3 DEF Request
<1>5. ASSUME NEW t \in Threads, NEW e \in Events, Take(t, e) \/ Drop(t, e) \/ Defer(t, e)
      PROVE  WakeInv'
  BY <1>5, QuietWake DEF Take, Drop, Defer, Takes
<1>6. ASSUME NEW t \in Threads, Start(t) \/ Abandon(t) \/ Miss(t) \/ Return(t) \/ Settle(t)
      PROVE  WakeInv'
  BY <1>6, QuietWake DEF Start, Abandon, Miss, Return, Settle, queues
<1>7. ASSUME NEW t \in Threads, NEW u \in Threads, FlushOne(t, u)
      PROVE  WakeInv'
  <2>1. Signal(u) /\ CanSignal(u) /\ UNCHANGED <<ext, size, out>>
    BY <1>7 DEF FlushOne, queues
  <2>2. \A w \in Threads \ {u} : WakeComing(w) => WakeComing(w)'
    BY <1>7 DEF FlushOne, WakeComing, TypeInv, TypeOK
  <2> QED
    BY <2>1, <2>2, SignalWake
<1> QED
  BY <1>1, <1>2, <1>3, <1>4, <1>5, <1>6, <1>7, LoopWake DEF Next, Loop

\* No wake-up is lost, for every number of threads and events and whatever
\* increments of atomic_list_size_ get lost: a thread that sleeps although its
\* external list holds an event is going to be woken.
THEOREM WakeupNeverLost == Spec => []NoLostWakeup
<1>1. Init => TypeInv /\ WakeInv
  BY InitType, InitWake
<1>2. TypeInv /\ WakeInv /\ [Next]_vars => (TypeInv /\ WakeInv)'
  BY NextType, NextWake
<1>3. TypeInv /\ WakeInv => NoLostWakeup
  BY DEF WakeInv
<1> QED
  BY <1>1, <1>2, <1>3, PTL DEF Spec

(***************************************************************************)
(* Flags and queues                                                        *)
(***************************************************************************)

\* The event in process_event belongs to the thread, and while its lock is
\* tried it is in no queue.
RunOwned ==
    \A t \in Threads : run[t] # None =>
       /\ ev[run[t]].used /\ ev[run[t]].home = t
       /\ stage[t] = "lock" => ~Queued(run[t])

\* Only events in use are cancelled.
CancelledUsed == \A e \in Events : ev[e].cancelled => ev[e].used

\* The popped list is empty outside dequeue_timed.
NothingLeft == \A t \in Threads : phase[t] \notin {"move", "move1"} => grab[t] = <<>>

FlagInv == FlagsTruthful /\ RunOwned /\ CancelledUsed /\ NothingLeft

LEMMA InitFlag == Init => FlagInv
<1> SUFFICES ASSUME Init PROVE FlagInv
  OBVIOUS
<1>1. FlagsTruthful
  BY EmptyRange, QueueAssumption DEF Init, FlagsTruthful, QueuedOnce, InProt, Queued, FreeEvent
<1>2. RunOwned /\ CancelledUsed /\ NothingLeft
  BY DEF Init, RunOwned, CancelledUsed, NothingLeft, FreeEvent
<1> QED
  BY <1>1, <1>2 DEF FlagInv

\* A step that changes one event e and the queues of one thread t, the home of e.
LEMMA OneEvent ==
    ASSUME TypeInv, FlagsTruthful, NEW t \in Threads, NEW e \in Events,
           \A x \in Events \ {e} : ev'[x] = ev[x],
           \A u \in Threads \ {t} : ext'[u] = ext[u] /\ grab'[u] = grab[u] /\ loc'[u] = loc[u] /\ timed'[u] = timed[u],
           ~Queued(e) \/ ev[e].home = t,
           ~Queued(e)' \/ ev'[e].home = t,
           QueuedOnce(t)',
           InProt(t)' \ {e} = InProt(t) \ {e}, timed'[t] \ {e} = timed[t] \ {e},
           e \in InProt(t)' <=> ev'[e].prot,
           e \in timed'[t] <=> ev'[e].prio,
           ~(ev'[e].prot /\ ev'[e].prio), Queued(e)' => ev'[e].used
    PROVE  FlagsTruthful'
<1>1. ASSUME NEW u \in Threads \ {t}
      PROVE  QueuedOnce(u)' /\ InProt(u)' = InProt(u)
  BY <1>1 DEF FlagsTruthful, QueuedOnce, InProt
<1>2. ASSUME NEW u \in Threads \ {t}
      PROVE  e \notin InProt(u) /\ e \notin timed[u]
  BY <1>2 DEF FlagsTruthful, Queued
<1>3. \A u \in Threads : QueuedOnce(u)'
  BY <1>1
<1>4. ASSUME NEW x \in Events \ {e}, NEW u \in Threads
      PROVE  /\ x \in InProt(u)' <=> (ev'[x].prot /\ ev'[x].home = u)
             /\ x \in timed'[u] <=> (ev'[x].prio /\ ev'[x].home = u)
  <2>1. x \in InProt(u)' <=> x \in InProt(u)
    BY <1>1, <1>4
  <2>2. x \in timed'[u] <=> x \in timed[u]
    BY <1>4
  <2> QED
    BY <1>4, <2>1, <2>2 DEF FlagsTruthful
<1>5. ASSUME NEW u \in Threads
      PROVE  /\ e \in InProt(u)' <=> (ev'[e].prot /\ ev'[e].home = u)
             /\ e \in timed'[u] <=> (ev'[e].prio /\ ev'[e].home = u)
  BY <1>1, <1>2, <1>5 DEF Queued
<1>6. ASSUME NEW x \in Events
      PROVE  /\ ~(ev'[x].prot /\ ev'[x].prio)
             /\ Queued(x)' => ev'[x].used /\ ev'[x].home \in Threads
  BY <1>6 DEF FlagsTruthful, Queued
<1> QED
  BY <1>3, <1>4, <1>5, <1>6 DEF FlagsTruthful

\* An event that is in no list is appended to the local queue.
LEMMA LocAppend ==
    ASSUME TypeInv, FlagsTruthful, NEW t \in Threads, NEW e \in Events, ~ev[e].prot,
           loc' = [loc EXCEPT ![t] = Append(@, e)], UNCHANGED <<ext, grab>>
    PROVE  QueuedOnce(t)' /\ InProt(t)' = InProt(t) \union {e}
<1>1. loc[t] \in Seq(Events) /\ loc'[t] = Append(loc[t], e)
  BY DEF TypeInv, TypeOK
<1>2. e \notin InProt(t)
  BY DEF FlagsTruthful
<1>3. Range(loc'[t]) = Range(loc[t]) \union {e} /\ IsInjective(loc'[t])
  BY <1>1, <1>2, AppendRange DEF FlagsTruthful, QueuedOnce, InProt
<1>4. QueuedOnce(t)
  BY DEF FlagsTruthful
<1>5. QueuedOnce(t)'
  BY <1>2, <1>3, <1>4 DEF QueuedOnce, InProt
<1>6. InProt(t)' = InProt(t) \union {e}
  BY <1>2, <1>3, <1>4 DEF QueuedOnce, InProt
<1> QED
  BY <1>5, <1>6

\* The head of the local queue is taken.
LEMMA LocTail ==
    ASSUME TypeInv, FlagsTruthful, NEW t \in Threads, NEW e \in Events, AtHead(t, e),
           loc' = [loc EXCEPT ![t] = Tail(@)], UNCHANGED <<ext, grab>>
    PROVE  QueuedOnce(t)' /\ InProt(t)' = InProt(t) \ {e} /\ ev[e].prot /\ ev[e].home = t
<1>1. loc[t] \in Seq(Events) /\ loc[t] # <<>> /\ loc'[t] = Tail(loc[t]) /\ e = Head(loc[t])
  BY DEF TypeInv, TypeOK, AtHead
<1>2. Range(loc'[t]) = Range(loc[t]) \ {e} /\ IsInjective(loc'[t]) /\ e \in Range(loc[t])
  BY <1>1, TailRange DEF FlagsTruthful, QueuedOnce
<1>3. e \in InProt(t)
  BY <1>2 DEF InProt
<1>4. QueuedOnce(t)
  BY DEF FlagsTruthful
<1>5. QueuedOnce(t)'
  BY <1>2, <1>3, <1>4 DEF QueuedOnce, InProt
<1>6. InProt(t)' = InProt(t) \ {e}
  BY <1>2, <1>3, <1>4 DEF QueuedOnce, InProt
<1> QED
  BY <1>3, <1>5, <1>6 DEF FlagsTruthful

\* What changes in an event when it is taken, deferred or queued again, when it
\* is cancelled and when it is scheduled.
LEMMA QueuedFields ==
    ASSUME NEW r \in EventType, NEW b \in BOOLEAN, NEW c \in BOOLEAN
    PROVE  LET q == [r EXCEPT !.prot = b, !.prio = c] IN
             /\ (q.prot <=> b) /\ (q.prio <=> c) /\ q.used = r.used /\ q.home = r.home
             /\ q.cancelled = r.cancelled /\ q.period = r.period
  BY DEF EventType

LEMMA LaterFields ==
    ASSUME NEW r \in EventType
    PROVE  LET q == [r EXCEPT !.prot = TRUE, !.when = "later"] IN
             /\ q.prot /\ q.prio = r.prio /\ q.used = r.used /\ q.home = r.home
             /\ q.cancelled = r.cancelled /\ q.period = r.period
  BY DEF EventType

LEMMA CancelledFields ==
    ASSUME NEW r \in EventType
    PROVE  LET q == [r EXCEPT !.cancelled = TRUE] IN
             /\ q.prot = r.prot /\ q.prio = r.prio /\ q.used = r.used /\ q.home = r.home
             /\ q.cancelled /\ q.period = r.period
  BY DEF EventType

LEMMA TimingFields ==
    ASSUME NEW e \in Events, ev[e] \in EventType, NEW k \in {"imm", "in", "every"}, NEW u \in Threads
    PROVE  LET q == Timing(e, k)
               r == [Timing(e, k) EXCEPT !.home = u]
           IN  /\ q.prot /\ ~q.prio /\ q.used /\ q.home = ev[e].home
               /\ (q.cancelled <=> ev[e].cancelled)
               /\ r.prot /\ ~r.prio /\ r.used /\ r.home = u
               /\ (r.cancelled <=> ev[e].cancelled)
  BY DEF Timing, EventType

LEMMA FreeFields ==
    /\ ~FreeEvent.prot /\ ~FreeEvent.prio /\ ~FreeEvent.used
    /\ FreeEvent.home = None /\ ~FreeEvent.cancelled /\ ~FreeEvent.period
  BY DEF FreeEvent

\* A push: the event was free, and is then in the external list of u.
LEMMA PushFlag ==
    ASSUME TypeInv, FlagInv, NEW e \in Events, NEW u \in Threads, NEW k \in {"imm", "in", "every"},
           NEW own \in BOOLEAN, Push(e, u, k, own), UNCHANGED <<phase, run, stage>>
    PROVE  FlagInv'
<1> USE DEF FlagInv
<1>1. ~ev[e].used /\ ~Queued(e) /\ ~ev[e].prot /\ ~ev[e].prio /\ ~ev[e].cancelled
  BY DEF Push, FlagsTruthful, Queued, CancelledUsed
<1>2. /\ ev' = [ev EXCEPT ![e] = [Timing(e, k) EXCEPT !.home = u]]
      /\ ev \in [Events -> EventType]
  BY DEF Push, TypeInv, TypeOK
<1>3. /\ \A x \in Events \ {e} : ev'[x] = ev[x]
      /\ ev'[e].prot /\ ~ev'[e].prio /\ ev'[e].used /\ ev'[e].home = u /\ ~ev'[e].cancelled
  <2>1. ev[e] \in EventType /\ ev'[e] = [Timing(e, k) EXCEPT !.home = u] /\ \A x \in Events \ {e} : ev'[x] = ev[x]
    BY <1>2
  <2> QED
    BY <1>1, <2>1, TimingFields
<1>4. ext[u] \in Seq(Events) /\ ext'[u] = Append(ext[u], e)
      /\ \A w \in Threads \ {u} : ext'[w] = ext[w]
  BY DEF Push, TypeInv, TypeOK
<1>5. e \notin InProt(u) /\ e \notin timed[u]
  BY <1>1 DEF FlagsTruthful
<1>6. Range(ext'[u]) = Range(ext[u]) \union {e} /\ IsInjective(ext'[u])
  BY <1>4, <1>5, AppendRange DEF FlagsTruthful, QueuedOnce, InProt
<1>7. QueuedOnce(u) /\ UNCHANGED <<grab, loc, timed>>
  BY DEF FlagsTruthful, Push
<1>8. QueuedOnce(u)' /\ InProt(u)' = InProt(u) \union {e}
  BY <1>5, <1>6, <1>7 DEF QueuedOnce, InProt
<1>9. FlagsTruthful'
  <2>1. ~Queued(e)' \/ ev'[e].home = u
    BY <1>3
  <2> QED
    BY <1>1, <1>3, <1>4, <1>5, <1>7, <1>8, <2>1, OneEvent DEF Queued
<1>10. run \in [Threads -> Events \union {None}]
  BY DEF TypeInv, TypeOK
<1>11. RunOwned'
  BY <1>1, <1>3, <1>10 DEF RunOwned, Queued
<1>12. CancelledUsed' /\ NothingLeft'
  BY <1>3, <1>7 DEF CancelledUsed, NothingLeft
<1> QED
  BY <1>9, <1>11, <1>12

\* What callbacks ask for.
LEMMA RequestFlag ==
    ASSUME TypeInv, FlagInv, NEW t \in Threads, Request(t)
    PROVE  FlagInv'
<1> USE DEF FlagInv
<1>0. ev \in [Events -> EventType] /\ run \in [Threads -> Events \union {None}] /\ timed \in [Threads -> SUBSET Events]
  BY DEF TypeInv, TypeOK
<1>1. ASSUME NEW e \in Events, Cancel(t, e)
      PROVE  FlagInv'
  <2>1. ev' = [ev EXCEPT ![e] = [ev[e] EXCEPT !.cancelled = TRUE]] /\ UNCHANGED <<ext, grab, loc, timed, phase, run, stage>>
        /\ ev[e].used
    BY <1>1 DEF Cancel, queues, Valid
  <2>2. \A x \in Events : /\ ev'[x].prot = ev[x].prot /\ ev'[x].prio = ev[x].prio
                          /\ ev'[x].used = ev[x].used /\ ev'[x].home = ev[x].home
                          /\ x # e => ev'[x] = ev[x]
    BY <1>0, <2>1, CancelledFields
  <2>3. \A w \in Threads : (QueuedOnce(w)' <=> QueuedOnce(w)) /\ InProt(w)' = InProt(w)
    BY <2>1 DEF QueuedOnce, InProt
  <2>4. FlagsTruthful'
    BY <2>1, <2>2, <2>3 DEF FlagsTruthful, Queued
  <2>5. RunOwned' /\ CancelledUsed' /\ NothingLeft'
    BY <1>0, <2>1, <2>2 DEF RunOwned, CancelledUsed, NothingLeft, Queued
  <2> QED
    BY <2>4, <2>5
<1>2. ASSUME NEW e \in Events, NEW k \in Kinds[e], ScheduleLocal(t, e, k)
      PROVE  FlagInv'
  <2>1. ~ev[e].used /\ ~Queued(e) /\ ~ev[e].prot /\ ~ev[e].prio /\ ~ev[e].cancelled
    BY <1>2 DEF ScheduleLocal, FlagsTruthful, Queued, CancelledUsed
  <2>2. ev' = [ev EXCEPT ![e] = [Timing(e, k) EXCEPT !.home = t]] /\ k \in {"imm", "in", "every"}
    BY <1>2, KindsType DEF ScheduleLocal
  <2>3. /\ \A x \in Events \ {e} : ev'[x] = ev[x]
        /\ ev'[e].prot /\ ~ev'[e].prio /\ ev'[e].used /\ ev'[e].home = t /\ ~ev'[e].cancelled
    <3>1. ev[e] \in EventType /\ ev'[e] = [Timing(e, k) EXCEPT !.home = t] /\ \A x \in Events \ {e} : ev'[x] = ev[x]
      BY <1>0, <2>2
    <3>2. k \in {"imm", "in", "every"} /\ ~ev[e].cancelled
      BY <2>1, <2>2
    <3> QED
      BY <3>1, <3>2, TimingFields
  <2>4. loc' = [loc EXCEPT ![t] = Append(@, e)] /\ UNCHANGED <<ext, grab, timed, phase, run, stage>>
    BY <1>2 DEF ScheduleLocal
  <2>5. QueuedOnce(t)' /\ InProt(t)' = InProt(t) \union {e}
    BY <2>1, <2>4, LocAppend
  <2>6. e \notin timed[t] /\ \A w \in Threads \ {t} : loc'[w] = loc[w]
    BY <2>1, <2>4 DEF FlagsTruthful, TypeInv, TypeOK
  <2>7. FlagsTruthful'
    <3>1. ~Queued(e)' \/ ev'[e].home = t
      BY <2>3
    <3> QED
      BY <2>1, <2>3, <2>4, <2>5, <2>6, <3>1, OneEvent DEF Queued
  <2>8. RunOwned' /\ CancelledUsed' /\ NothingLeft'
    BY <1>0, <2>1, <2>3, <2>4 DEF RunOwned, CancelledUsed, NothingLeft, Queued
  <2> QED
    BY <2>7, <2>8
<1>3. ASSUME NEW e \in Events, NEW k \in Kinds[e], Reschedule(t, e, k)
      PROVE  FlagInv'
  <2>1. ev[e].used /\ ~ev[e].cancelled /\ ev[e].home = t /\ stage[t] = "call"
    BY <1>3 DEF Reschedule, Valid, InCallback
  <2>2. ev' = [ev EXCEPT ![e] = Timing(e, k)] /\ k \in {"imm", "in", "every"}
    BY <1>3, KindsType DEF Reschedule
  <2>3. /\ \A x \in Events \ {e} : ev'[x] = ev[x]
        /\ ev'[e].prot /\ ~ev'[e].prio /\ ev'[e].used /\ ev'[e].home = t /\ ~ev'[e].cancelled
    <3>1. ev[e] \in EventType /\ ev'[e] = Timing(e, k) /\ \A x \in Events \ {e} : ev'[x] = ev[x]
      BY <1>0, <2>2
    <3> QED
      BY <2>1, <2>2, <3>1, TimingFields
  <2>4. /\ loc' = [loc EXCEPT ![t] = IF ev[e].prot THEN @ ELSE Append(@, e)]
        /\ timed' = [timed EXCEPT ![t] = @ \ {e}]
        /\ UNCHANGED <<ext, grab, phase, run, stage>>
    BY <1>3 DEF Reschedule
  <2>5. QueuedOnce(t)' /\ InProt(t)' = InProt(t) \union {e}
    <3>1. CASE ev[e].prot
      <4>1. loc' = loc
        BY <2>4, <3>1 DEF TypeInv, TypeOK
      <4>2. e \in InProt(t) /\ QueuedOnce(t)
        BY <2>1, <3>1 DEF FlagsTruthful
      <4> QED
        BY <2>4, <4>1, <4>2 DEF QueuedOnce, InProt
    <3>2. CASE ~ev[e].prot
      BY <2>4, <3>2, LocAppend
    <3> QED
      BY <3>1, <3>2
  <2>6. /\ e \notin timed'[t] /\ timed'[t] \ {e} = timed[t] \ {e}
        /\ \A w \in Threads \ {t} : loc'[w] = loc[w] /\ timed'[w] = timed[w]
    BY <1>0, <2>4 DEF TypeInv, TypeOK
  <2>7. FlagsTruthful'
    <3>1. ~Queued(e)' \/ ev'[e].home = t
      BY <2>3
    <3> QED
      BY <2>1, <2>3, <2>4, <2>5, <2>6, <3>1, OneEvent DEF Queued
  <2>8. RunOwned' /\ CancelledUsed' /\ NothingLeft'
    BY <1>0, <2>1, <2>3, <2>4 DEF RunOwned, CancelledUsed, NothingLeft, Queued
  <2> QED
    BY <2>7, <2>8
<1>4. ASSUME NEW e \in Events, NEW k \in Kinds[e], NEW u \in Threads, Schedule(t, e, u, k)
      PROVE  FlagInv'
  <2>1. (u = t) \in BOOLEAN /\ k \in {"imm", "in", "every"} /\ Push(e, u, k, u = t) /\ UNCHANGED <<phase, run, stage>>
    BY <1>4, KindsType DEF Schedule
  <2> QED
    BY <2>1, PushFlag
<1> QED
  BY <1>1, <1>2, <1>3, <1>4 DEF Request

\* The event a thread takes out of a queue is its own, and is then in none.
LEMMA TakesFlag ==
    ASSUME TypeInv, FlagInv, NEW t \in Threads, NEW e \in Events, Takes(t, e)
    PROVE  /\ QueuedOnce(t)' /\ InProt(t)' = InProt(t) \ {e} /\ timed'[t] = timed[t] \ {e}
           /\ \A w \in Threads \ {t} : ext'[w] = ext[w] /\ grab'[w] = grab[w] /\ loc'[w] = loc[w] /\ timed'[w] = timed[w]
           /\ Queued(e) /\ ev[e].home = t /\ ev[e].used /\ run[t] = None
           /\ \A u \in Threads : run[u] # e
           /\ UNCHANGED grab
<1> USE DEF FlagInv
<1>1. UNCHANGED <<ext, grab>> /\ run[t] = None
      /\ loc' = [loc EXCEPT ![t] = IF AtHead(t, e) THEN Tail(@) ELSE @]
      /\ timed' = [timed EXCEPT ![t] = @ \ {e}]
  BY DEF Takes
<1>2. timed'[t] = timed[t] \ {e} /\ \A w \in Threads \ {t} : loc'[w] = loc[w] /\ timed'[w] = timed[w]
  BY <1>1 DEF TypeInv, TypeOK
<1>3. CASE AtHead(t, e)
  <2>1. loc' = [loc EXCEPT ![t] = Tail(@)]
    BY <1>1, <1>3
  <2>2. QueuedOnce(t)' /\ InProt(t)' = InProt(t) \ {e} /\ ev[e].prot /\ ev[e].home = t
    BY <1>1, <1>3, <2>1, LocTail
  <2>3. ev[e].used
    BY <2>2 DEF FlagsTruthful, Queued
  <2>4. \A u \in Threads : run[u] # e
    BY <1>1, <2>2, QueueAssumption DEF RunOwned
  <2> QED
    BY <1>1, <1>2, <2>2, <2>3, <2>4 DEF Queued
<1>4. CASE ~AtHead(t, e)
  <2>1. loc' = loc
    BY <1>1, <1>4 DEF TypeInv, TypeOK
  <2>2. e \in timed[t]
    BY <1>4 DEF Takes, AtTimers
  <2>3. ev[e].prio /\ ev[e].home = t /\ ~ev[e].prot /\ ev[e].used
    BY <2>2 DEF FlagsTruthful, Queued
  <2>4. e \notin InProt(t) /\ QueuedOnce(t)
    BY <2>3 DEF FlagsTruthful
  <2>5. \A u \in Threads : run[u] # e
    BY <1>1, <2>3, QueueAssumption DEF RunOwned
  <2>6. QueuedOnce(t)' /\ InProt(t)' = InProt(t)
    BY <1>1, <2>1, <2>4 DEF QueuedOnce, InProt
  <2> QED
    BY <1>1, <1>2, <2>3, <2>4, <2>5, <2>6 DEF Queued
<1> QED
  BY <1>3, <1>4

LEMMA TakeFlag ==
    ASSUME TypeInv, FlagInv, NEW t \in Threads, NEW e \in Events, Take(t, e)
    PROVE  FlagInv'
<1> USE DEF FlagInv
<1>1. Takes(t, e) /\ ev' = [ev EXCEPT ![e] = [ev[e] EXCEPT !.prot = FALSE, !.prio = FALSE]]
  BY DEF Take, TypeInv, TypeOK
<1>2. ev[e] \in EventType /\ ev'[e] = [ev[e] EXCEPT !.prot = FALSE, !.prio = FALSE]
      /\ \A x \in Events \ {e} : ev'[x] = ev[x]
  BY <1>1 DEF TypeInv, TypeOK
<1>3. /\ ~ev'[e].prot /\ ~ev'[e].prio /\ ev'[e].used = ev[e].used /\ ev'[e].home = ev[e].home
      /\ ev'[e].cancelled = ev[e].cancelled
  BY <1>2, QueuedFields
<1>4. FlagsTruthful'
  BY <1>1, <1>2, <1>3, TakesFlag, OneEvent DEF Queued
<1>5. run' = [run EXCEPT ![t] = e] /\ stage' = [stage EXCEPT ![t] = "lock"] /\ UNCHANGED <<phase, grab>>
      /\ run \in [Threads -> Events \union {None}] /\ stage \in [Threads -> Stages]
  BY <1>1, TakesFlag DEF Take, TypeInv, TypeOK
<1>6. RunOwned'
  BY <1>1, <1>2, <1>3, <1>5, TakesFlag DEF RunOwned, Queued
<1>7. CancelledUsed' /\ NothingLeft'
  BY <1>2, <1>3, <1>5 DEF CancelledUsed, NothingLeft
<1> QED
  BY <1>4, <1>6, <1>7

LEMMA DropFlag ==
    ASSUME TypeInv, FlagInv, NEW t \in Threads, NEW e \in Events, Drop(t, e)
    PROVE  FlagInv'
<1> USE DEF FlagInv
<1>1. Takes(t, e) /\ ev' = [ev EXCEPT ![e] = FreeEvent] /\ UNCHANGED <<phase, run, stage>>
      /\ run \in [Threads -> Events \union {None}]
  BY DEF Drop, TypeInv, TypeOK
<1>2. ev'[e] = FreeEvent /\ \A x \in Events \ {e} : ev'[x] = ev[x]
  BY <1>1 DEF TypeInv, TypeOK
<1>3. ~ev'[e].prot /\ ~ev'[e].prio /\ ~ev'[e].used /\ ~ev'[e].cancelled
  BY <1>2, FreeFields
<1>4. FlagsTruthful'
  BY <1>1, <1>2, <1>3, TakesFlag, OneEvent DEF Queued
<1>5. RunOwned'
  BY <1>1, <1>2, TakesFlag DEF RunOwned, Queued
<1>6. CancelledUsed' /\ NothingLeft'
  BY <1>1, <1>2, <1>3, TakesFlag DEF CancelledUsed, NothingLeft
<1> QED
  BY <1>4, <1>5, <1>6

LEMMA DeferFlag ==
    ASSUME TypeInv, FlagInv, NEW t \in Threads, NEW e \in Events, Defer(t, e)
    PROVE  FlagInv'
<1> USE DEF FlagInv
<1>1. /\ AtHead(t, e) /\ loc' = [loc EXCEPT ![t] = Tail(@)] /\ timed' = [timed EXCEPT ![t] = @ \union {e}]
      /\ ev' = [ev EXCEPT ![e] = [ev[e] EXCEPT !.prot = FALSE, !.prio = TRUE]]
      /\ UNCHANGED <<ext, grab, phase, run, stage>> /\ run[t] = None
      /\ run \in [Threads -> Events \union {None}]
  BY DEF Defer, TypeInv, TypeOK
<1>2. ev[e] \in EventType /\ ev'[e] = [ev[e] EXCEPT !.prot = FALSE, !.prio = TRUE]
      /\ \A x \in Events \ {e} : ev'[x] = ev[x]
  BY <1>1 DEF TypeInv, TypeOK
<1>3. /\ ~ev'[e].prot /\ ev'[e].prio /\ ev'[e].used = ev[e].used /\ ev'[e].home = ev[e].home
      /\ ev'[e].cancelled = ev[e].cancelled
  BY <1>2, QueuedFields
<1>4. QueuedOnce(t)' /\ InProt(t)' = InProt(t) \ {e} /\ ev[e].prot /\ ev[e].home = t
  BY <1>1, LocTail
<1>5. /\ timed'[t] = timed[t] \union {e}
      /\ \A w \in Threads \ {t} : loc'[w] = loc[w] /\ timed'[w] = timed[w]
  BY <1>1 DEF TypeInv, TypeOK
<1>6. ev[e].used /\ \A u \in Threads : run[u] # e
  BY <1>1, <1>4, QueueAssumption DEF FlagsTruthful, Queued, RunOwned
<1>7. FlagsTruthful'
  BY <1>1, <1>2, <1>3, <1>4, <1>5, <1>6, OneEvent DEF Queued
<1>8. RunOwned'
  BY <1>1, <1>2, <1>6 DEF RunOwned, Queued
<1>9. CancelledUsed' /\ NothingLeft'
  BY <1>1, <1>2, <1>3, <1>6 DEF CancelledUsed, NothingLeft
<1> QED
  BY <1>7, <1>8, <1>9

\* The steps of process_event.
LEMMA CallbackFlag ==
    ASSUME TypeInv, FlagInv, NEW t \in Threads,
           Start(t) \/ Abandon(t) \/ Miss(t) \/ Return(t) \/ Settle(t)
    PROVE  FlagInv'
<1> USE DEF FlagInv
<1> DEFINE e == run[t]
<1>0. /\ ev \in [Events -> EventType] /\ run \in [Threads -> Events \union {None}] /\ stage \in [Threads -> Stages]
      /\ \A u \in Threads : run[u] = None <=> stage[u] = "none"
  BY DEF TypeInv, TypeOK
<1>1. e \in Events /\ e # None /\ UNCHANGED <<ext, grab, timed, phase>>
  BY <1>0, QueueAssumption DEF Start, Abandon, Miss, Return, Settle, InCallback, queues
<1>2. ev[e].used /\ ev[e].home = t /\ (stage[t] = "lock" => ~Queued(e)) /\ \A u \in Threads \ {t} : run[u] # e
  BY <1>0, <1>1 DEF RunOwned
<1>3. NothingLeft'
  BY <1>1 DEF NothingLeft
<1>4. QueuedOnce(t)
  BY DEF FlagsTruthful
<1>5. CASE Start(t) \/ Return(t)
  <2>1. UNCHANGED <<ev, ext, grab, loc, timed, run>> /\ \A u \in Threads : stage'[u] = "lock" => stage[u] = "lock"
    BY <1>0, <1>5 DEF Start, Return, queues, Stages
  <2>2. FlagsTruthful'
    BY <2>1 DEF FlagsTruthful, QueuedOnce, InProt, Queued
  <2>3. RunOwned' /\ CancelledUsed'
    BY <2>1 DEF RunOwned, CancelledUsed, Queued
  <2> QED
    BY <1>3, <2>2, <2>3
<1>6. ASSUME ev' = [ev EXCEPT ![e] = FreeEvent], ~Queued(e), UNCHANGED loc,
             run' = [run EXCEPT ![t] = None], stage' = [stage EXCEPT ![t] = "none"]
      PROVE  FlagInv'
  <2>1. ev'[e] = FreeEvent /\ \A x \in Events \ {e} : ev'[x] = ev[x]
    BY <1>0, <1>1, <1>6
  <2>2. ~ev'[e].prot /\ ~ev'[e].prio /\ ~ev'[e].used /\ ~ev'[e].cancelled
    BY <2>1, FreeFields
  <2>3. QueuedOnce(t)' /\ InProt(t)' = InProt(t) /\ e \notin InProt(t) /\ e \notin timed[t]
    BY <1>1, <1>4, <1>6 DEF QueuedOnce, InProt, FlagsTruthful, Queued
  <2>4. FlagsTruthful'
    BY <1>1, <1>6, <2>1, <2>2, <2>3, OneEvent DEF Queued
  <2>5. RunOwned'
    BY <1>0, <1>1, <1>2, <1>6, <2>1 DEF RunOwned, Queued
  <2>6. CancelledUsed'
    BY <2>1, <2>2 DEF CancelledUsed
  <2> QED
    BY <1>3, <2>4, <2>5, <2>6
<1>7. ASSUME ev' = [ev EXCEPT ![e] = [ev[e] EXCEPT !.prot = TRUE, !.when = "later"]], ~Queued(e),
             loc' = [loc EXCEPT ![t] = Append(@, e)],
             run' = [run EXCEPT ![t] = None], stage' = [stage EXCEPT ![t] = "none"]
      PROVE  FlagInv'
  <2>1. ev[e] \in EventType /\ ev'[e] = [ev[e] EXCEPT !.prot = TRUE, !.when = "later"]
        /\ \A x \in Events \ {e} : ev'[x] = ev[x]
    BY <1>0, <1>1, <1>7
  <2>2. /\ ev'[e].prot /\ ev'[e].prio = ev[e].prio /\ ev'[e].used = ev[e].used /\ ev'[e].home = ev[e].home
        /\ ev'[e].cancelled = ev[e].cancelled
    BY <2>1, LaterFields
  <2>3. ~ev[e].prot /\ ~ev[e].prio /\ e \notin timed[t]
    BY <1>1, <1>7 DEF FlagsTruthful, Queued
  <2>4. QueuedOnce(t)' /\ InProt(t)' = InProt(t) \union {e}
    BY <1>1, <1>7, <2>3, LocAppend
  <2>5. \A w \in Threads \ {t} : loc'[w] = loc[w]
    BY <1>7 DEF TypeInv, TypeOK
  <2>6. FlagsTruthful'
    BY <1>1, <1>2, <1>7, <2>1, <2>2, <2>3, <2>4, <2>5, OneEvent DEF Queued
  <2>7. RunOwned'
    BY <1>0, <1>1, <1>2, <1>7, <2>1 DEF RunOwned, Queued
  <2>8. CancelledUsed'
    BY <1>2, <2>1, <2>2 DEF CancelledUsed
  <2> QED
    BY <1>3, <2>6, <2>7, <2>8
<1>8. CASE Abandon(t)
  BY <1>2, <1>6, <1>8 DEF Abandon, queues
<1>9. CASE Miss(t)
  <2>1. ev' = [ev EXCEPT ![e] = [ev[e] EXCEPT !.prot = TRUE, !.when = "later"]]
    BY <1>0, <1>1, <1>9 DEF Miss
  <2> QED
    BY <1>2, <1>7, <1>9, <2>1 DEF Miss
<1>10. CASE Settle(t)
  <2>1. CASE Requeues(e)
    <3>1. ~Queued(e) /\ ev' = [ev EXCEPT ![e] = [ev[e] EXCEPT !.prot = TRUE, !.when = "later"]]
          /\ loc' = [loc EXCEPT ![t] = Append(@, e)]
      BY <1>10, <2>1 DEF Settle, Requeues
    <3> QED
      BY <1>7, <1>10, <3>1 DEF Settle
  <2>2. CASE ~Requeues(e) /\ Keeps(e)
    <3>1. UNCHANGED <<ev, loc>>
      BY <1>0, <1>10, <2>2 DEF Settle, TypeInv, TypeOK
    <3>2. FlagsTruthful'
      BY <1>1, <3>1 DEF FlagsTruthful, QueuedOnce, InProt, Queued
    <3>3. RunOwned' /\ CancelledUsed'
      BY <1>0, <1>10, <3>1 DEF Settle, RunOwned, CancelledUsed, Queued
    <3> QED
      BY <1>3, <3>2, <3>3
  <2>3. CASE ~Requeues(e) /\ ~Keeps(e)
    <3>1. ~Queued(e) /\ ev' = [ev EXCEPT ![e] = FreeEvent] /\ loc' = loc
      BY <1>10, <2>3 DEF Settle, Keeps, TypeInv, TypeOK
    <3> QED
      BY <1>6, <1>10, <3>1 DEF Settle
  <2> QED
    BY <2>1, <2>2, <2>3
<1> QED
  BY <1>5, <1>8, <1>9, <1>10

\* dequeue_timed pops the external list: nothing was left of the last one.
LEMMA PopFlag ==
    ASSUME TypeInv, FlagInv, NEW t \in Threads, Pop(t)
    PROVE  FlagInv'
<1> USE DEF FlagInv
<1>1. /\ grab[t] = <<>> /\ grab'[t] = ext[t] /\ ext'[t] = <<>> /\ loc'[t] = loc[t]
      /\ \A w \in Threads \ {t} : ext'[w] = ext[w] /\ grab'[w] = grab[w] /\ loc'[w] = loc[w]
      /\ UNCHANGED <<ev, timed, run, stage>>
  BY DEF Pop, NothingLeft, TypeInv, TypeOK
<1>2. \A w \in Threads : QueuedOnce(w)' /\ InProt(w)' = InProt(w)
  <2>1. \A w \in Threads : QueuedOnce(w)
    BY DEF FlagsTruthful
  <2>2. QueuedOnce(t)' /\ InProt(t)' = InProt(t)
    BY <1>1, <2>1, EmptyRange DEF QueuedOnce, InProt
  <2> QED
    BY <1>1, <2>1, <2>2 DEF QueuedOnce, InProt
<1>3. FlagsTruthful'
  BY <1>1, <1>2 DEF FlagsTruthful, Queued
<1>4. RunOwned' /\ CancelledUsed'
  BY <1>1 DEF RunOwned, CancelledUsed, Queued
<1>5. phase'[t] = (IF ext[t] = <<>> THEN "local" ELSE IF phase[t] = "pop" THEN "move" ELSE "move1")
      /\ \A w \in Threads \ {t} : phase'[w] = phase[w]
  BY DEF Pop, Goes, TypeInv, TypeOK
<1>6. NothingLeft'
  BY <1>1, <1>5 DEF NothingLeft
<1> QED
  BY <1>3, <1>4, <1>6

\* It moves the oldest event to the local queue, or frees it.
LEMMA MoveFlag ==
    ASSUME TypeInv, FlagInv, NEW t \in Threads, Move(t)
    PROVE  FlagInv'
<1> USE DEF FlagInv
<1> DEFINE e == Head(grab[t])
<1>1. /\ ev \in [Events -> EventType] /\ run \in [Threads -> Events \union {None}]
      /\ grab[t] \in Seq(Events) /\ loc[t] \in Seq(Events) /\ grab[t] # <<>> /\ run[t] = None
  BY DEF Move, MovesSome, RunsInLoop, LocalPhases, TypeInv, TypeOK
<1>2. /\ e \in Events /\ e \in Range(grab[t]) /\ QueuedOnce(t)
      /\ Range(Tail(grab[t])) = Range(grab[t]) \ {e} /\ IsInjective(Tail(grab[t]))
  BY <1>1, TailRange DEF FlagsTruthful, QueuedOnce
<1>3. e \in InProt(t) /\ ev[e].prot /\ ev[e].home = t /\ ev[e].used /\ ~ev[e].prio /\ e \notin timed[t]
  <2>1. e \in InProt(t)
    BY <1>2 DEF InProt
  <2> QED
    BY <1>2, <2>1 DEF FlagsTruthful, Queued
<1>4. /\ grab'[t] = Tail(grab[t])
      /\ \A w \in Threads \ {t} : grab'[w] = grab[w] /\ loc'[w] = loc[w]
      /\ UNCHANGED <<ext, timed, run, stage>>
  BY DEF Move, TypeInv, TypeOK
<1>5. \A u \in Threads : run[u] # e
  BY <1>1, <1>2, <1>3, QueueAssumption DEF RunOwned
<1>6. NothingLeft'
  <2>1. Len(grab[t]) = 1 => Tail(grab[t]) = <<>>
    BY <1>1, TailEmpty
  <2>2. phase'[t] \notin {"move", "move1"} => Len(grab[t]) = 1
    BY DEF Move, Goes, TypeInv, TypeOK
  <2>3. \A w \in Threads \ {t} : phase'[w] = phase[w]
    BY DEF Move, Goes, TypeInv, TypeOK
  <2> QED
    BY <1>4, <2>1, <2>2, <2>3 DEF NothingLeft
<1>7. CASE ev[e].cancelled
  <2>1. ev'[e] = FreeEvent /\ (\A x \in Events \ {e} : ev'[x] = ev[x]) /\ loc'[t] = loc[t]
    BY <1>1, <1>2, <1>7 DEF Move, TypeInv, TypeOK
  <2>2. ~ev'[e].prot /\ ~ev'[e].prio /\ ~ev'[e].used /\ ~ev'[e].cancelled
    BY <2>1, FreeFields
  <2>3. QueuedOnce(t)' /\ InProt(t)' = InProt(t) \ {e}
    BY <1>2, <1>4, <2>1 DEF QueuedOnce, InProt
  <2>4. FlagsTruthful'
    BY <1>2, <1>3, <1>4, <2>1, <2>2, <2>3, OneEvent DEF Queued
  <2>5. RunOwned'
    BY <1>1, <1>4, <1>5, <2>1 DEF RunOwned, Queued
  <2>6. CancelledUsed'
    BY <2>1, <2>2 DEF CancelledUsed
  <2> QED
    BY <1>6, <2>4, <2>5, <2>6
<1>8. CASE ~ev[e].cancelled
  <2>1. ev' = ev /\ loc'[t] = Append(loc[t], e)
    BY <1>1, <1>2, <1>8 DEF Move, TypeInv, TypeOK
  <2>2. Range(loc'[t]) = Range(loc[t]) \union {e} /\ IsInjective(loc'[t])
    BY <1>1, <1>2, <2>1, AppendRange DEF QueuedOnce
  <2>3. QueuedOnce(t)' /\ InProt(t)' = InProt(t)
    BY <1>2, <1>4, <2>2 DEF QueuedOnce, InProt
  <2>4. FlagsTruthful'
    BY <1>2, <1>3, <1>4, <2>1, <2>3, OneEvent DEF Queued
  <2>5. RunOwned' /\ CancelledUsed'
    BY <1>4, <2>1 DEF RunOwned, CancelledUsed, Queued
  <2> QED
    BY <1>6, <2>4, <2>5
<1> QED
  BY <1>7, <1>8

\* Steps that leave the events and the queues alone and do not begin or end a move.
LEMMA QuietFlag ==
    ASSUME FlagInv, UNCHANGED <<ev, queues, run, stage>>,
           \A t \in Threads : phase'[t] \notin {"move", "move1"} => grab[t] = <<>>
    PROVE  FlagInv'
  BY DEF FlagInv, FlagsTruthful, RunOwned, CancelledUsed, NothingLeft, QueuedOnce, InProt, Queued, queues

\* The steps of the loop that only go on.
LEMMA GoesFlag ==
    ASSUME TypeInv, FlagInv, NEW t \in Threads,
           \/ LocalDone(t) \/ TimersDone(t) \/ FlushDone(t) \/ Look(t) \/ Sleep(t) \/ Timeout(t)
           \/ PollWoken(t) \/ Glance(t) \/ PollTimeout(t) \/ \E u \in Threads : FlushOne(t, u)
    PROVE  FlagInv'
<1>1. UNCHANGED <<ev, queues, run, stage>>
  BY DEF LocalDone, TimersDone, FlushDone, Look, Sleep, Timeout, PollWoken, Glance, PollTimeout, FlushOne
<1>2. ASSUME NEW u \in Threads, FlushOne(t, u)
      PROVE  FlagInv'
  <2>1. \A w \in Threads : phase'[w] \notin {"move", "move1"} => phase[w] \notin {"move", "move1"}
    BY <1>2 DEF FlushOne, Signal, TypeInv, TypeOK
  <2> QED
    BY <1>1, <2>1, QuietFlag DEF FlagInv, NothingLeft
<1>3. ASSUME NEW p, Goes(t, p), phase[t] \notin {"move", "move1"}
      PROVE  FlagInv'
  <2>1. \A w \in Threads : phase'[w] \notin {"move", "move1"} => phase[w] \notin {"move", "move1"}
    BY <1>3 DEF Goes, TypeInv, TypeOK
  <2> QED
    BY <1>1, <2>1, QuietFlag DEF FlagInv, NothingLeft
<1>4. CASE LocalDone(t) \/ TimersDone(t) \/ FlushDone(t)
  BY <1>3, <1>4 DEF LocalDone, TimersDone, FlushDone, LocalPhases, FlushPhases
<1>5. CASE Look(t) \/ Sleep(t) \/ Timeout(t) \/ PollWoken(t) \/ Glance(t) \/ PollTimeout(t)
  BY <1>3, <1>5 DEF Look, Sleep, Timeout, PollWoken, Glance, PollTimeout
<1> QED
  BY <1>2, <1>4, <1>5

LEMMA NextFlag == TypeInv /\ FlagInv /\ [Next]_vars => FlagInv'
<1> SUFFICES ASSUME TypeInv, FlagInv, [Next]_vars PROVE FlagInv'
  OBVIOUS
<1>1. CASE UNCHANGED vars
  BY <1>1, QuietFlag DEF vars, queues, FlagInv, NothingLeft
<1>2. CASE SignalForeign
  <2>1. \A w \in Threads : phase'[w] \notin {"move", "move1"} => phase[w] \notin {"move", "move1"}
    BY <1>2 DEF SignalForeign, Signal, TypeInv, TypeOK
  <2> QED
    BY <1>2, <2>1, QuietFlag DEF SignalForeign, FlagInv, NothingLeft
<1>3. ASSUME NEW e \in Events, NEW u \in Threads, NEW k \in Kinds[e], ScheduleForeign(e, u, k)
      PROVE  FlagInv'
  <2>1. k \in {"imm", "in", "every"} /\ Push(e, u, k, FALSE) /\ UNCHANGED <<phase, run, stage>>
    BY <1>3, KindsType DEF ScheduleForeign
  <2> QED
    BY <2>1, PushFlag
<1> QED
  BY <1>1, <1>2, <1>3, RequestFlag, TakeFlag, DropFlag, DeferFlag, CallbackFlag, GoesFlag, PopFlag, MoveFlag
     DEF Next, Loop

\* The flags of every event tell where it is, for every number of threads and
\* events: none is in two places, none is lost from the queues, and nobody but
\* its own thread has it.
THEOREM FlagsAlwaysTruthful == Spec => []FlagsTruthful
<1>1. Init => TypeInv /\ FlagInv
  BY InitType, InitFlag
<1>2. TypeInv /\ FlagInv /\ [Next]_vars => (TypeInv /\ FlagInv)'
  BY NextType, NextFlag
<1>3. TypeInv /\ FlagInv => FlagsTruthful
  BY DEF FlagInv
<1> QED
  BY <1>1, <1>2, <1>3, PTL DEF Spec

(***************************************************************************)
(* The queues implement EventDelivery                                      *)
(***************************************************************************)

\* What a step of EventQueue is for EventDelivery: a step of its own or none.
Maps == Delivery!Next \/ UNCHANGED <<Owed, Running, Cancelled>>

\* An event runs on its own thread, if at all.
LEMMA RunningHome ==
    ASSUME TypeInv, FlagInv, NEW x \in Events
    PROVE  /\ x \in Running <=> \E t \in Threads : run[t] = x /\ stage[t] = "call"
           /\ \A t, u \in Threads : run[t] = x /\ run[u] = x => t = u
           /\ (\E t \in Threads : run[t] = x) => ev[x].used
  BY QueueAssumption DEF Running, InCallback, FlagInv, RunOwned

\* A step that changes one event e and one thread, which has no other event in
\* process_event, leaves what is owed, running or cancelled apart from e.
LEMMA OthersMapped ==
    ASSUME TypeInv, TypeInv', NEW t \in Threads, NEW e \in Events,
           \A x \in Events \ {e} : ev'[x] = ev[x],
           \A u \in Threads \ {t} : run'[u] = run[u] /\ stage'[u] = stage[u],
           \/ run'[t] = run[t] /\ stage'[t] = stage[t]
           \/ run[t] \in {e, None} /\ run'[t] \in {e, None}
    PROVE  /\ Running' \ {e} = Running \ {e}
           /\ Owed' \ {e} = Owed \ {e}
           /\ Cancelled' \ {e} = Cancelled \ {e}
<1>1. ASSUME NEW x \in Events \ {e}, NEW u \in Threads
      PROVE  (run'[u] = x <=> run[u] = x) /\ (run[u] = x => stage'[u] = stage[u])
  BY <1>1, QueueAssumption
<1>2. ASSUME NEW x \in Events \ {e}
      PROVE  x \in Running' <=> x \in Running
  BY <1>1, <1>2 DEF Running, InCallback
<1>3. ASSUME NEW x \in Events \ {e}
      PROVE  Ended(x)' <=> Ended(x)
  BY <1>1, <1>3 DEF Ended, Keeps, Queued
<1>4. Running \subseteq Events /\ Running' \subseteq Events
  <2>1. ASSUME NEW u \in Threads, stage[u] = "call"
        PROVE  run[u] \in Events
    BY <2>1 DEF TypeInv, TypeOK
  <2>2. ASSUME NEW u \in Threads, stage'[u] = "call"
        PROVE  run'[u] \in Events
    BY <2>2 DEF TypeInv, TypeOK
  <2> QED
    BY <2>1, <2>2 DEF Running, InCallback
<1>5. Running' \ {e} = Running \ {e}
  BY <1>2, <1>4
<1>6. Owed' \ {e} = Owed \ {e}
  BY <1>2, <1>3 DEF Owed
<1>7. Cancelled' \ {e} = Cancelled \ {e}
  BY <1>3 DEF Cancelled
<1> QED
  BY <1>5, <1>6, <1>7

\* A free event that is scheduled.
LEMMA MapsSchedule ==
    ASSUME TypeInv, FlagInv, TypeInv', FlagInv', NEW e \in Events, ~ev[e].used,
           \A x \in Events \ {e} : ev'[x] = ev[x], ev'[e].used, ev'[e].cancelled <=> ev[e].cancelled,
           UNCHANGED <<run, stage>>
    PROVE  Maps
<1>1. \A t \in Threads : run[t] # e
  BY RunningHome
<1>2. ~ev[e].cancelled
  BY DEF FlagInv, CancelledUsed
<1>3. e \notin Owed /\ e \notin Running /\ e \notin Cancelled
  BY <1>1, <1>2, RunningHome DEF Owed, Cancelled
<1>4. e \notin Running' /\ ~Ended(e)'
  BY <1>1, RunningHome DEF Running, InCallback, Ended
<1>5. e \in Owed' /\ e \notin Cancelled'
  BY <1>2, <1>4 DEF Owed, Cancelled
<1>6. CASE Threads = {}
  BY <1>6, <1>2, <1>3, <1>5 DEF TypeInv, TypeOK, Maps, Delivery!Next, Delivery!Schedule, Owed, Cancelled, Running, Ended, Keeps, Queued
<1>7. ASSUME NEW t \in Threads
      PROVE  Maps
  <2>1. /\ Running' \ {e} = Running \ {e} /\ Owed' \ {e} = Owed \ {e} /\ Cancelled' \ {e} = Cancelled \ {e}
    BY <1>7, OthersMapped
  <2>2. Delivery!Schedule(e)
    BY <1>3, <1>4, <1>5, <2>1 DEF Delivery!Schedule
  <2> QED
    BY <2>2 DEF Maps, Delivery!Next
<1> QED
  BY <1>6, <1>7

\* What callbacks ask for.
LEMMA MapsRequest ==
    ASSUME TypeInv, FlagInv, TypeInv', FlagInv', NEW t \in Threads, Request(t)
    PROVE  Maps
<1>0. ev \in [Events -> EventType] /\ run[t] \in Events /\ stage[t] = "call" /\ run[t] \in Running
  <2>1. stage[t] = "call"
    BY DEF Request, Cancel, ScheduleLocal, Reschedule, Schedule, InCallback
  <2> QED
    BY <2>1, RunningHome DEF TypeInv, TypeOK
<1>1. ASSUME NEW e \in Events, Cancel(t, e)
      PROVE  Maps
  <2>1. /\ ev' = [ev EXCEPT ![e] = [ev[e] EXCEPT !.cancelled = TRUE]]
        /\ UNCHANGED <<run, stage>> /\ Valid(t, e)
    BY <1>1 DEF Cancel
  <2>2. ev[e] \in EventType /\ ev'[e] = [ev[e] EXCEPT !.cancelled = TRUE] /\ \A x \in Events \ {e} : ev'[x] = ev[x]
    BY <1>0, <2>1
  <2>3. ev'[e].cancelled /\ ev'[e].prot = ev[e].prot /\ ev'[e].prio = ev[e].prio /\ ev'[e].period = ev[e].period
    BY <2>2, CancelledFields
  <2>4. ev[e].used /\ ~ev[e].cancelled /\ Cont[e] = Cont[run[t]]
    BY <2>1 DEF Valid
  <2>5. ~Ended(e)
    BY <1>0, <2>1, RunningHome DEF Valid, Ended
  <2>6. ~Ended(e)'
    BY <2>1, <2>3, <2>5 DEF Ended, Keeps, Queued
  <2>7. e \in Owed \union Running /\ e \notin Cancelled /\ e \notin Owed' /\ e \in Cancelled'
    BY <2>3, <2>4, <2>5, <2>6 DEF Owed, Cancelled
  <2>8. Running' = Running
    BY <2>1 DEF Running, InCallback
  <2>9. Owed' \ {e} = Owed \ {e} /\ Cancelled' \ {e} = Cancelled \ {e}
    BY <2>1, <2>2, OthersMapped
  <2>10. Delivery!Cancel(e)
    BY <1>0, <2>4, <2>7, <2>8, <2>9 DEF Delivery!Cancel, Delivery!Locked
  <2> QED
    BY <2>10 DEF Maps, Delivery!Next
<1>2. ASSUME NEW e \in Events, NEW k \in Kinds[e], NEW u \in Threads,
             (ScheduleLocal(t, e, k) /\ u = t) \/ Schedule(t, e, u, k)
      PROVE  Maps
  <2>1. /\ ~ev[e].used /\ ev' = [ev EXCEPT ![e] = [Timing(e, k) EXCEPT !.home = u]]
        /\ UNCHANGED <<run, stage>> /\ k \in {"imm", "in", "every"}
    BY <1>2, KindsType DEF ScheduleLocal, Schedule, Push
  <2>2. ev[e] \in EventType /\ ev'[e] = [Timing(e, k) EXCEPT !.home = u] /\ \A x \in Events \ {e} : ev'[x] = ev[x]
    BY <1>0, <2>1
  <2>3. ev'[e].used /\ (ev'[e].cancelled <=> ev[e].cancelled)
    <3>1. k \in {"imm", "in", "every"}
      BY <2>1
    <3> QED
      BY <2>2, <3>1, TimingFields
  <2> QED
    BY <2>1, <2>2, <2>3, MapsSchedule
<1>3. ASSUME NEW e \in Events, NEW k \in Kinds[e], Reschedule(t, e, k)
      PROVE  Maps
  <2>1. /\ ev[e].used /\ ~ev[e].cancelled /\ ev' = [ev EXCEPT ![e] = Timing(e, k)] /\ Valid(t, e)
        /\ UNCHANGED <<run, stage>> /\ k \in {"imm", "in", "every"}
    BY <1>3, KindsType DEF Reschedule, Valid
  <2>2. ev[e] \in EventType /\ ev'[e] = Timing(e, k) /\ \A x \in Events \ {e} : ev'[x] = ev[x]
    BY <1>0, <2>1
  <2>3. ev'[e].used /\ ~ev'[e].cancelled /\ ev'[e].prot
    BY <2>1, <2>2, TimingFields
  <2>4. ~Ended(e)
    BY <1>0, <2>1, RunningHome DEF Valid, Ended
  <2>5. ~Ended(e)'
    BY <2>3 DEF Ended, Keeps, Queued
  <2>6. Running' = Running
    BY <2>1 DEF Running, InCallback
  <2>7. (e \in Owed' <=> e \in Owed) /\ (e \in Cancelled' <=> e \in Cancelled)
    BY <2>1, <2>3, <2>4, <2>5, <2>6 DEF Owed, Cancelled
  <2>8. Owed' \ {e} = Owed \ {e} /\ Cancelled' \ {e} = Cancelled \ {e}
    BY <2>1, <2>2, OthersMapped
  <2> QED
    BY <2>6, <2>7, <2>8 DEF Maps
<1> QED
  BY <1>1, <1>2, <1>3 DEF Request

\* A step that changes one event e and one thread, and nothing of what e is
\* owed, is none for EventDelivery.
LEMMA MapsIdle ==
    ASSUME TypeInv, TypeInv', NEW t \in Threads, NEW e \in Events,
           \A x \in Events \ {e} : ev'[x] = ev[x],
           \A u \in Threads \ {t} : run'[u] = run[u] /\ stage'[u] = stage[u],
           \/ run'[t] = run[t] /\ stage'[t] = stage[t]
           \/ run[t] \in {e, None} /\ run'[t] \in {e, None},
           e \in Running' <=> e \in Running, e \in Owed' <=> e \in Owed, e \in Cancelled' <=> e \in Cancelled
    PROVE  Maps
<1>1. Running' \ {e} = Running \ {e} /\ Owed' \ {e} = Owed \ {e} /\ Cancelled' \ {e} = Cancelled \ {e}
  BY OthersMapped
<1>2. Running' = Running /\ Owed' = Owed /\ Cancelled' = Cancelled
  BY <1>1
<1> QED
  BY <1>2 DEF Maps

\* A cancelled event that nobody calls back is freed.
LEMMA MapsFree ==
    ASSUME TypeInv, TypeInv', NEW t \in Threads, NEW e \in Events,
           \A x \in Events \ {e} : ev'[x] = ev[x], ev'[e] = FreeEvent, ev[e].cancelled,
           \A u \in Threads \ {t} : run[u] # e /\ run'[u] = run[u] /\ stage'[u] = stage[u],
           \/ run'[t] = run[t] /\ stage'[t] = stage[t] /\ run[t] # e
           \/ run[t] = e /\ stage[t] = "lock" /\ run'[t] = None
    PROVE  Maps
<1>1. Running' \ {e} = Running \ {e} /\ Owed' \ {e} = Owed \ {e} /\ Cancelled' \ {e} = Cancelled \ {e}
  BY OthersMapped
<1>2. e \notin Running /\ ~Ended(e)
  BY DEF Running, InCallback, Ended
<1>3. e \notin Running'
  BY QueueAssumption DEF Running, InCallback
<1>4. ~ev'[e].used /\ ~ev'[e].cancelled
  BY FreeFields
<1>5. e \notin Owed /\ e \notin Owed' /\ e \in Cancelled /\ e \notin Cancelled'
  BY <1>2, <1>4 DEF Owed, Cancelled
<1>6. Delivery!Drop(e)
  BY <1>1, <1>2, <1>3, <1>5 DEF Delivery!Drop
<1> QED
  BY <1>6 DEF Maps, Delivery!Next

\* Events that come out of a queue.
LEMMA MapsTake ==
    ASSUME TypeInv, FlagInv, TypeInv', NEW t \in Threads, NEW e \in Events,
           Take(t, e) \/ Drop(t, e) \/ Defer(t, e)
    PROVE  Maps
<1>0. ev \in [Events -> EventType] /\ run \in [Threads -> Events \union {None}] /\ stage \in [Threads -> Stages]
  BY DEF TypeInv, TypeOK
<1>1. ev[e].used /\ run[t] = None /\ \A u \in Threads : run[u] # e
  <2>1. CASE Take(t, e) \/ Drop(t, e)
    BY <2>1, TakesFlag DEF Take, Drop
  <2>2. CASE Defer(t, e)
    <3>1. AtHead(t, e) /\ loc' = [loc EXCEPT ![t] = Tail(@)] /\ UNCHANGED <<ext, grab>> /\ run[t] = None
      BY <2>2 DEF Defer
    <3>2. ev[e].prot /\ ev[e].home = t
      BY <3>1, LocTail DEF FlagInv
    <3> QED
      BY <3>1, <3>2, QueueAssumption DEF FlagInv, FlagsTruthful, Queued, RunOwned
  <2> QED
    BY <2>1, <2>2
<1>2. e \notin Running /\ ~Ended(e)
  BY <1>1 DEF Running, InCallback, Ended
<1>3. CASE Drop(t, e)
  <2>1. ev'[e] = FreeEvent /\ (\A x \in Events \ {e} : ev'[x] = ev[x]) /\ ev[e].cancelled /\ UNCHANGED <<run, stage>>
    BY <1>0, <1>3 DEF Drop
  <2> QED
    BY <1>1, <2>1, MapsFree
<1>4. ASSUME NEW b \in BOOLEAN, ev' = [ev EXCEPT ![e] = [ev[e] EXCEPT !.prot = FALSE, !.prio = b]],
             \A u \in Threads \ {t} : run'[u] = run[u] /\ stage'[u] = stage[u],
             \/ UNCHANGED <<run, stage>>
             \/ run'[t] = e /\ stage'[t] = "lock"
      PROVE  Maps
  <2>1. ev[e] \in EventType /\ ev'[e] = [ev[e] EXCEPT !.prot = FALSE, !.prio = b] /\ \A x \in Events \ {e} : ev'[x] = ev[x]
    BY <1>0, <1>4
  <2>2. ev'[e].used = ev[e].used /\ ev'[e].cancelled = ev[e].cancelled
    BY <2>1, QueuedFields
  <2>3. \A u \in Threads : run'[u] = e => stage'[u] = "lock"
    BY <1>1, <1>4
  <2>4. e \notin Running' /\ ~Ended(e)'
    BY <2>3 DEF Running, InCallback, Ended
  <2>5. (e \in Owed' <=> e \in Owed) /\ (e \in Cancelled' <=> e \in Cancelled)
    BY <1>2, <2>2, <2>4 DEF Owed, Cancelled
  <2>6. \/ run'[t] = run[t] /\ stage'[t] = stage[t]
        \/ run[t] \in {e, None} /\ run'[t] \in {e, None}
    BY <1>1, <1>4
  <2> QED
    BY <1>2, <1>4, <2>1, <2>4, <2>5, <2>6, MapsIdle
<1>5. CASE Take(t, e)
  <2>1. /\ ev' = [ev EXCEPT ![e] = [ev[e] EXCEPT !.prot = FALSE, !.prio = FALSE]]
        /\ run'[t] = e /\ stage'[t] = "lock"
        /\ \A u \in Threads \ {t} : run'[u] = run[u] /\ stage'[u] = stage[u]
    BY <1>0, <1>5 DEF Take
  <2> QED
    BY <1>4, <2>1
<1>6. CASE Defer(t, e)
  <2>1. ev' = [ev EXCEPT ![e] = [ev[e] EXCEPT !.prot = FALSE, !.prio = TRUE]] /\ UNCHANGED <<run, stage>>
    BY <1>0, <1>6 DEF Defer
  <2> QED
    BY <1>4, <2>1
<1> QED
  BY <1>3, <1>5, <1>6

\* process_event: a callback begins, ...
LEMMA MapsStart ==
    ASSUME TypeInv, FlagInv, TypeInv', NEW t \in Threads, NEW e \in Events,
           run[t] = e, Start(t)
    PROVE  Maps
<1>1. /\ stage[t] = "lock" /\ ~Locked(e) /\ ~ev[e].cancelled /\ UNCHANGED <<ev, run>>
      /\ stage'[t] = "call" /\ \A u \in Threads \ {t} : stage'[u] = stage[u]
  BY DEF Start, TypeInv, TypeOK
<1>2. e # None
  BY QueueAssumption
<1>3. ev[e].used /\ \A u \in Threads \ {t} : run[u] # e
  BY <1>2, RunningHome
<1>4. e \notin Running /\ ~Ended(e)
  BY <1>1, <1>3 DEF Running, InCallback, Ended
<1>5. e \in Running' /\ ~Ended(e)'
  BY <1>1, <1>3 DEF Running, InCallback, Ended
<1>6. e \in Owed /\ e \notin Owed' /\ e \notin Cancelled /\ e \notin Cancelled'
  BY <1>1, <1>2, <1>3, <1>4, <1>5 DEF Owed, Cancelled
<1>7. Running' \ {e} = Running \ {e} /\ Owed' \ {e} = Owed \ {e} /\ Cancelled' \ {e} = Cancelled \ {e}
  BY <1>1, <1>2, OthersMapped
<1>8. ~\E r \in Running : Cont[r] = Cont[e]
  BY <1>1 DEF Locked, Running
<1>9. Delivery!Start(e)
  BY <1>4, <1>5, <1>6, <1>7, <1>8 DEF Delivery!Start, Delivery!Locked
<1> QED
  BY <1>2, <1>9 DEF Maps, Delivery!Next

\* ... and ends.
LEMMA MapsReturn ==
    ASSUME TypeInv, FlagInv, TypeInv', NEW t \in Threads, NEW e \in Events,
           run[t] = e, Return(t)
    PROVE  Maps
<1>1. /\ stage[t] = "call" /\ UNCHANGED <<ev, run>>
      /\ stage'[t] = "settle" /\ \A u \in Threads \ {t} : stage'[u] = stage[u]
  BY DEF Return, InCallback, TypeInv, TypeOK
<1>2. e # None
  BY QueueAssumption
<1>3. ev[e].used /\ \A u \in Threads \ {t} : run[u] # e
  BY <1>2, RunningHome
<1>4. e \in Running /\ ~Ended(e) /\ e \notin Owed
  BY <1>1, <1>3 DEF Running, InCallback, Ended, Owed
<1>5. e \notin Running'
  BY <1>1, <1>3 DEF Running, InCallback
<1>6. Ended(e)' <=> ~Keeps(e)
  BY <1>1, <1>3 DEF Ended, Keeps, Queued
<1>7. Running' \ {e} = Running \ {e} /\ Owed' \ {e} = Owed \ {e} /\ Cancelled' \ {e} = Cancelled \ {e}
  BY <1>1, <1>2, OthersMapped
<1>8. Running' = Running \ {e}
  BY <1>5, <1>7
<1>9. CASE ~Keeps(e)
  <2>1. e \notin Owed' /\ e \notin Cancelled'
    BY <1>6, <1>9 DEF Owed, Cancelled
  <2> QED
    BY <1>2, <1>4, <1>7, <1>8, <2>1 DEF Maps, Delivery!Next, Delivery!Finish
<1>10. CASE Keeps(e) /\ ev[e].cancelled
  <2>1. e \notin Owed' /\ e \in Cancelled /\ e \in Cancelled'
    BY <1>1, <1>2, <1>4, <1>6, <1>10 DEF Owed, Cancelled
  <2> QED
    BY <1>2, <1>4, <1>7, <1>8, <2>1 DEF Maps, Delivery!Next, Delivery!Finish
<1>11. CASE Keeps(e) /\ ~ev[e].cancelled
  <2>1. e \in Owed' /\ e \notin Cancelled /\ e \notin Cancelled'
    BY <1>1, <1>2, <1>3, <1>5, <1>6, <1>11 DEF Owed, Cancelled
  <2> QED
    BY <1>2, <1>4, <1>7, <1>8, <2>1 DEF Maps, Delivery!Next, Delivery!Finish
<1> QED
  BY <1>9, <1>10, <1>11

\* Its other steps free or queue the event.
LEMMA MapsSettle ==
    ASSUME TypeInv, FlagInv, TypeInv', NEW t \in Threads, NEW e \in Events,
           run[t] = e, Abandon(t) \/ Miss(t) \/ Settle(t)
    PROVE  Maps
<1>0. ev \in [Events -> EventType] /\ run \in [Threads -> Events \union {None}] /\ stage \in [Threads -> Stages]
  BY DEF TypeInv, TypeOK
<1>1. /\ stage[t] \in {"lock", "settle"} /\ run'[t] = None /\ stage'[t] = "none"
      /\ \A u \in Threads \ {t} : run'[u] = run[u] /\ stage'[u] = stage[u]
  BY <1>0 DEF Abandon, Miss, Settle
<1>2. e # None
  BY QueueAssumption
<1>3. ev[e].used /\ \A u \in Threads \ {t} : run[u] # e
  BY <1>2, RunningHome
<1>4. e \notin Running
  BY <1>1, <1>3 DEF Running, InCallback
<1>5. e \notin Running' /\ ~Ended(e)'
  <2>1. \A u \in Threads : run'[u] # e
    BY <1>1, <1>2, <1>3
  <2> QED
    BY <2>1 DEF Running, InCallback, Ended
<1>6. CASE Abandon(t)
  <2>1. ev'[e] = FreeEvent /\ (\A x \in Events \ {e} : ev'[x] = ev[x]) /\ ev[e].cancelled /\ stage[t] = "lock"
    BY <1>0, <1>2, <1>6 DEF Abandon
  <2> QED
    BY <1>1, <1>2, <1>3, <2>1, MapsFree
<1>7. ASSUME ~Ended(e), \A x \in Events \ {e} : ev'[x] = ev[x],
             ev'[e].used, ev'[e].cancelled <=> ev[e].cancelled
      PROVE  Maps
  <2>1. (e \in Owed' <=> e \in Owed) /\ (e \in Cancelled' <=> e \in Cancelled)
    BY <1>2, <1>3, <1>4, <1>5, <1>7 DEF Owed, Cancelled
  <2> QED
    BY <1>1, <1>2, <1>4, <1>5, <1>7, <2>1, MapsIdle
<1>8. ASSUME ev' = [ev EXCEPT ![e] = [ev[e] EXCEPT !.prot = TRUE, !.when = "later"]], ~Ended(e)
      PROVE  Maps
  <2>1. ev[e] \in EventType /\ ev'[e] = [ev[e] EXCEPT !.prot = TRUE, !.when = "later"]
        /\ \A x \in Events \ {e} : ev'[x] = ev[x]
    BY <1>0, <1>2, <1>8
  <2>2. ev'[e].used = ev[e].used /\ ev'[e].cancelled = ev[e].cancelled
    BY <2>1, LaterFields
  <2>3. ev'[e].used /\ (ev'[e].cancelled <=> ev[e].cancelled)
    BY <1>3, <2>2
  <2> QED
    BY <1>7, <1>8, <2>1, <2>3
<1>9. CASE Miss(t)
  <2>1. ev' = [ev EXCEPT ![e] = [ev[e] EXCEPT !.prot = TRUE, !.when = "later"]]
    BY <1>0, <1>2, <1>9 DEF Miss
  <2>2. ~Ended(e)
    BY <1>3, <1>9 DEF Miss, Ended
  <2> QED
    BY <1>8, <2>1, <2>2
<1>10. CASE Settle(t)
  <2>1. CASE Requeues(e)
    <3>1. ev' = [ev EXCEPT ![e] = [ev[e] EXCEPT !.prot = TRUE, !.when = "later"]]
      BY <1>10, <2>1 DEF Settle
    <3>2. ~Ended(e)
      BY <2>1 DEF Ended, Keeps, Requeues
    <3> QED
      BY <1>8, <3>1, <3>2
  <2>2. CASE ~Requeues(e) /\ Keeps(e)
    <3>1. UNCHANGED ev
      BY <1>0, <1>10, <2>2 DEF Settle
    <3>2. ~Ended(e)
      BY <2>2 DEF Ended
    <3>3. ev'[e].used /\ (ev'[e].cancelled <=> ev[e].cancelled)
      BY <1>3, <3>1
    <3> QED
      BY <1>7, <3>1, <3>2, <3>3
  <2>3. CASE ~Requeues(e) /\ ~Keeps(e)
    <3>1. ev'[e] = FreeEvent /\ \A x \in Events \ {e} : ev'[x] = ev[x]
      BY <1>0, <1>2, <1>10, <2>3 DEF Settle
    <3>2. ~ev'[e].used /\ ~ev'[e].cancelled
      BY <3>1, FreeFields
    <3>3. Ended(e)
      BY <1>10, <2>3 DEF Settle, Ended
    <3>4. (e \in Owed' <=> e \in Owed) /\ (e \in Cancelled' <=> e \in Cancelled)
      BY <3>2, <3>3 DEF Owed, Cancelled
    <3> QED
      BY <1>1, <1>2, <1>4, <1>5, <3>1, <3>4, MapsIdle
  <2> QED
    BY <2>1, <2>2, <2>3
<1> QED
  BY <1>6, <1>9, <1>10

\* dequeue_timed moves an event to the local queue, or frees it.
LEMMA MapsMove ==
    ASSUME TypeInv, FlagInv, TypeInv', NEW t \in Threads, Move(t)
    PROVE  Maps
<1> DEFINE e == Head(grab[t])
<1>1. /\ ev \in [Events -> EventType] /\ run \in [Threads -> Events \union {None}]
      /\ grab[t] \in Seq(Events) /\ grab[t] # <<>> /\ run[t] = None /\ UNCHANGED <<run, stage>>
  BY DEF Move, MovesSome, RunsInLoop, LocalPhases, TypeInv, TypeOK
<1>2. e \in Events /\ e \in Range(grab[t])
  BY <1>1, TailRange DEF FlagInv, FlagsTruthful, QueuedOnce
<1>3. ev[e].prot /\ ev[e].home = t
  <2>1. e \in InProt(t)
    BY <1>2 DEF InProt
  <2> QED
    BY <1>2, <2>1 DEF FlagInv, FlagsTruthful
<1>4. \A u \in Threads : run[u] # e
  BY <1>1, <1>2, <1>3, QueueAssumption DEF FlagInv, RunOwned
<1>5. CASE ev[e].cancelled
  <2>1. ev'[e] = FreeEvent /\ \A x \in Events \ {e} : ev'[x] = ev[x]
    BY <1>1, <1>2, <1>5 DEF Move
  <2> QED
    BY <1>1, <1>2, <1>4, <1>5, <2>1, MapsFree
<1>6. CASE ~ev[e].cancelled
  <2>1. UNCHANGED ev
    BY <1>1, <1>2, <1>6 DEF Move
  <2> QED
    BY <1>1, <2>1 DEF Maps, Owed, Running, Cancelled, Ended, Keeps, Queued, InCallback
<1> QED
  BY <1>5, <1>6

LEMMA NextMaps == TypeInv /\ FlagInv /\ [Next]_vars => Maps
<1> SUFFICES ASSUME TypeInv, FlagInv, [Next]_vars PROVE Maps
  OBVIOUS
<1>0. TypeInv' /\ FlagInv'
  BY NextType, NextFlag
<1>1. ASSUME UNCHANGED <<ev, run, stage>>
      PROVE  Maps
  BY <1>1 DEF Maps, Owed, Running, Cancelled, Ended, Keeps, Queued, InCallback
<1>2. CASE SignalForeign \/ UNCHANGED vars
  BY <1>1, <1>2 DEF SignalForeign, vars
<1>3. ASSUME NEW e \in Events, NEW u \in Threads, NEW k \in Kinds[e], ScheduleForeign(e, u, k)
      PROVE  Maps
  <2>1. /\ ~ev[e].used /\ ev' = [ev EXCEPT ![e] = [Timing(e, k) EXCEPT !.home = u]]
        /\ UNCHANGED <<run, stage>> /\ ev \in [Events -> EventType]
    BY <1>3 DEF ScheduleForeign, Push, TypeInv, TypeOK
  <2>2. ev[e] \in EventType /\ ev'[e] = [Timing(e, k) EXCEPT !.home = u] /\ \A x \in Events \ {e} : ev'[x] = ev[x]
    BY <2>1
  <2>3. k \in {"imm", "in", "every"}
    BY <1>3, KindsType
  <2>4. ev'[e].used /\ (ev'[e].cancelled <=> ev[e].cancelled)
    BY <2>2, <2>3, TimingFields
  <2> QED
    BY <1>0, <2>1, <2>2, <2>4, MapsSchedule
<1>4. ASSUME NEW t \in Threads,
             \/ LocalDone(t) \/ TimersDone(t) \/ FlushDone(t) \/ Look(t) \/ Sleep(t) \/ Timeout(t)
             \/ PollWoken(t) \/ Glance(t) \/ PollTimeout(t) \/ Pop(t) \/ \E u \in Threads : FlushOne(t, u)
      PROVE  Maps
  BY <1>1, <1>4 DEF LocalDone, TimersDone, FlushDone, Look, Sleep, Timeout, PollWoken, Glance, PollTimeout, Pop, FlushOne
<1>5. ASSUME NEW t \in Threads, Request(t)
      PROVE  Maps
  BY <1>0, <1>5, MapsRequest
<1>6. ASSUME NEW t \in Threads, Start(t) \/ Abandon(t) \/ Miss(t) \/ Return(t) \/ Settle(t) \/ Move(t)
      PROVE  Maps
  <2>1. CASE Move(t)
    BY <1>0, <1>6, <2>1, MapsMove
  <2>2. CASE Start(t) \/ Abandon(t) \/ Miss(t) \/ Return(t) \/ Settle(t)
    <3>1. run[t] \in Events
      BY <1>6, <2>2 DEF Start, Abandon, Miss, Return, Settle, InCallback, TypeInv, TypeOK
    <3> QED
      BY <1>0, <1>6, <2>2, <3>1, MapsStart, MapsReturn, MapsSettle
  <2> QED
    BY <1>6, <2>1, <2>2
<1>7. ASSUME NEW t \in Threads, NEW e \in Events, Take(t, e) \/ Drop(t, e) \/ Defer(t, e)
      PROVE  Maps
  BY <1>0, <1>7, MapsTake
<1> QED
  BY <1>2, <1>3, <1>4, <1>5, <1>6, <1>7 DEF Next, Loop

\* The threads and their queues implement EventDelivery, for every number of
\* threads and events: every callback is one that is owed, runs under the lock
\* of its continuation, and never follows the cancelling of its event.
THEOREM ImplementsDelivery == Spec => Delivers
<1>1. Init => TypeInv /\ FlagInv
  BY InitType, InitFlag
<1>2. TypeInv /\ FlagInv /\ [Next]_vars => (TypeInv /\ FlagInv)'
  BY NextType, NextFlag
<1>3. Init => Delivery!Init
  BY FreeFields DEF Init, Delivery!Init, Owed, Running, Cancelled, InCallback
<1>4. TypeInv /\ FlagInv /\ [Next]_vars => [Delivery!Next]_(Delivery!dvars)
  BY NextMaps DEF Maps, Delivery!dvars
<1> QED
  BY <1>1, <1>2, <1>3, <1>4, PTL DEF Spec, Delivers, Delivery!Spec
=============================================================================
