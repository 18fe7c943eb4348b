------------------------- MODULE CongestionEntryProofs -------------------------
(***************************************************************************)
(* Proofs about one server's entry, for every number of connections, every *)
(* configuration and every bound.                                          *)
(***************************************************************************)
EXTENDS CongestionTimes, FailWindowProofs

\* The clock counts in natural numbers.
LEMMA SecondsNat == Seconds \subseteq Nat
  BY EntryAssumption DEF Seconds

\* Every history has a flag of its own.
LEMMA KindsOK == Hists \subseteq Flags
  BY DEF Hists, Flags

\* One instruction, and the programs the Updater starts with.
LEMMA ProgramsType ==
    /\ <<>> \in Seq(Ops)
    /\ FreeAll \in Seq(Ops) /\ Demote \in Seq(Ops)
    /\ \A st \in ServerStates : RevalidateProgram[st] \in Seq(Ops)
  BY DEF Ops, Op, FreeAll, Demote, RevalidateProgram, ServerStates, Flags

\* The budget of outside events is not exceeded.
LEMMA FaultType ==
    ASSUME ControlTypeOK, Fault
    PROVE  faults' \in 0 .. MaxFaults
  BY EntryAssumption DEF ControlTypeOK, Fault

\* set_*_failed_at called by p.
LEMMA SetFailedAtType ==
    ASSUME ControlTypeOK, NEW p \in Threads, NEW k \in Hists
    PROVE  SetFailedAt(p, k) \in [Threads -> [at : {"none", "try_lock", "register", "test_and_set", "stamp"},
                                              kind : Hists, time : Nat]]
  BY SecondsNat DEF ControlTypeOK, SetFailedAt

\* Leaving a set_*_failed_at call keeps the type of call.
LEMMA ReturnType ==
    ASSUME ControlTypeOK, NEW p \in Threads, Return(p)
    PROVE  call' \in [Threads -> [at : {"none", "try_lock", "register", "test_and_set", "stamp"},
                                  kind : Hists, time : Nat]]
  BY DEF ControlTypeOK, Return, NoCall, Hists

\* Type correctness of the steps inside set_*_failed_at.
LEMMA CallStepType ==
    ASSUME ControlTypeOK, NEW p \in Threads, CallStep(p)
    PROVE  ControlTypeOK'
<1>1. CASE LockHistory(p)
  BY <1>1 DEF LockHistory, ControlTypeOK, updateVars, detectVars
<1>2. CASE LoseEvent(p)
  BY <1>2, ReturnType DEF LoseEvent, ControlTypeOK, entryVars, updateVars, detectVars
<1>3. CASE Register(p)
  BY <1>3, ReturnType DEF Register, Registered, ControlTypeOK, updateVars, detectVars
<1>4. CASE TestAndSet(p)
  <2>1. call[p].kind \in Flags
    BY KindsOK DEF ControlTypeOK
  <2>2. CASE congested[call[p].kind]
    BY <1>4, <2>2, ReturnType DEF TestAndSet, ControlTypeOK, updateVars, detectVars
  <2>3. CASE ~congested[call[p].kind]
    BY <1>4, <2>1, <2>3 DEF TestAndSet, ControlTypeOK, updateVars, detectVars
  <2> QED
    BY <2>2, <2>3
<1>5. CASE Stamp(p)
  BY <1>5, ReturnType, KindsOK DEF Stamp, ControlTypeOK, updateVars, detectVars
<1> QED
  BY <1>1, <1>2, <1>3, <1>4, <1>5 DEF CallStep

\* Ending a connection, or the answer of the lookup.
LEMMA DecideType ==
    ASSUME ControlTypeOK, NEW s \in SMs, NEW force, NEW refused,
           Done(s) \/ Decide(s, force, refused)
    PROVE  sm' \in [SMs -> [pc : {"idle", "alive", "retry", "ask", "through", "abort", "feedback"},
                            updated : BOOLEAN, force : BOOLEAN, detect : BOOLEAN]]
<1> DEFINE Through == [IdleSM EXCEPT !.pc = "through"]
           SM == [pc : {"idle", "alive", "retry", "ask", "through", "abort", "feedback"},
                  updated : BOOLEAN, force : BOOLEAN, detect : BOOLEAN]
<1>1. IdleSM \in SM /\ Through \in SM
  BY DEF IdleSM
<1>2. sm' = [sm EXCEPT ![s] = IdleSM] \/ sm' = [sm EXCEPT ![s] = Through]
  BY DEF Decide, Done
<1>3. sm \in [SMs -> SM]
  BY DEF ControlTypeOK
<1> HIDE DEF Through, SM
<1> sm' \in [SMs -> SM]
  BY <1>1, <1>2, <1>3
<1> QED
  BY DEF SM

\* A connection that moves on keeps the type of sm.
LEMMA GotoType ==
    ASSUME ControlTypeOK, NEW s \in SMs,
           NEW pc \in {"idle", "alive", "retry", "ask", "through", "abort", "feedback"},
           Goto(s, pc)
    PROVE  sm' \in [SMs -> [pc : {"idle", "alive", "retry", "ask", "through", "abort", "feedback"},
                            updated : BOOLEAN, force : BOOLEAN, detect : BOOLEAN]]
  BY DEF ControlTypeOK, Goto

\* Type correctness of the steps of a connection.
LEMMA SMStepType ==
    ASSUME ControlTypeOK, NEW s \in SMs, SMStep(s)
    PROVE  ControlTypeOK'
<1> s \in Threads
  BY DEF Threads
<1> "alive" \in Hists /\ "dead" \in Hists /\ "client_feedback" \in Hists
  BY DEF Hists
<1> "alive" \in Flags /\ "detect" \in Flags
  BY DEF Flags
<1> USE DEF entryVars, updateVars, detectVars
<1>1. CASE CallStep(s)
  BY <1>1, CallStepType
<1>2. ASSUME NEW force \in BOOLEAN, NEW leader_newer \in BOOLEAN, ReadDead(s, force, leader_newer)
      PROVE  ControlTypeOK'
  <2>1. congested["detect"] \in BOOLEAN
    BY DEF ControlTypeOK
  <2> DEFINE Asking == [pc |-> "alive", updated |-> FALSE, force |-> force,
                        detect |-> congested["detect"]]
  <2>2. CASE Decide(s, force, TRUE)
    BY <1>2, <2>2, DecideType DEF ReadDead, ControlTypeOK
  <2>3. CASE sm' = [sm EXCEPT ![s] = Asking]
    BY <1>2, <2>1, <2>3 DEF ReadDead, ControlTypeOK
  <2> QED
    BY <1>2, <2>2, <2>3 DEF ReadDead
<1>3. CASE ReadAlive(s)
  BY <1>3, DecideType, GotoType DEF ReadAlive, ControlTypeOK
<1>4. CASE Retry(s)
  BY <1>4, DecideType, GotoType, SetFailedAtType DEF Retry, ControlTypeOK
<1>5. CASE Refuse(s)
  BY <1>5, DecideType DEF Refuse, ControlTypeOK
<1>6. CASE AskProbe(s)
  BY <1>6, DecideType DEF AskProbe, ControlTypeOK
<1>7. CASE MysqlFail(s)
  BY <1>7, SetFailedAtType, FaultType DEF MysqlFail, ControlTypeOK
<1>8. CASE MysqlDrop(s)
  BY <1>8, DecideType DEF MysqlDrop, ControlTypeOK
<1>9. CASE MysqlComplete(s)
  BY <1>9, DecideType DEF MysqlComplete, ControlTypeOK
<1>10. ASSUME NEW slow \in BOOLEAN, ClientAbort(s, slow)
       PROVE  ControlTypeOK'
  <2>1. sm' \in [SMs -> [pc : {"idle", "alive", "retry", "ask", "through", "abort", "feedback"},
                         updated : BOOLEAN, force : BOOLEAN, detect : BOOLEAN]]
    BY <1>10 DEF ClientAbort, ControlTypeOK
  <2> QED
    BY <1>10, <2>1, SetFailedAtType, FaultType DEF ClientAbort, ControlTypeOK
<1>11. ASSUME NEW quit \in BOOLEAN, ReportAbort(s, quit)
       PROVE  ControlTypeOK'
  BY <1>11, DecideType, GotoType, SetFailedAtType DEF ReportAbort, ControlTypeOK
<1>12. CASE ClientFeedback(s)
  <2>1. alive_addr_set' \in BOOLEAN
    BY <1>12 DEF ClientFeedback, ControlTypeOK
  <2> QED
    BY <1>12, <2>1, DecideType DEF ClientFeedback, ControlTypeOK
<1>13. CASE RpcFail(s)
  BY <1>13, DecideType, SetFailedAtType, FaultType DEF RpcFail, ControlTypeOK
<1>14. CASE RpcComplete(s)
  BY <1>14, DecideType DEF RpcComplete, ControlTypeOK
<1> QED
  BY <1>1, <1>2, <1>3, <1>4, <1>5, <1>6, <1>7, <1>8, <1>9, <1>10, <1>11, <1>12, <1>13, <1>14
     DEF SMStep

\* Sequences of instructions: what is left after the first one,
LEMMA TailType ==
    ASSUME program \in Seq(Ops), program # <<>>
    PROVE  Tail(program) \in Seq(Ops) /\ Head(program) \in Ops
  OBVIOUS

\* with one instruction put in front,
LEMMA ConsType ==
    ASSUME NEW o \in Ops, NEW s \in Seq(Ops)
    PROVE  <<o>> \o s \in Seq(Ops)
  OBVIOUS

\* and one program put in front of another.
LEMMA ConcatType ==
    ASSUME NEW r \in Seq(Ops), NEW s \in Seq(Ops)
    PROVE  r \o s \in Seq(Ops)
  OBVIOUS

\* Type correctness of the instructions of the Updater.
LEMMA UpdaterStepType ==
    ASSUME ControlTypeOK, UpdaterStep
    PROVE  ControlTypeOK'
<1> Updater \in Threads /\ "alive" \in Hists
  BY DEF Threads, Hists
<1> USE DEF entryVars, detectVars
<1>0. program # <<>> => Tail(program) \in Seq(Ops) /\ Head(program) \in Ops
  BY TailType DEF ControlTypeOK
<1>1. CASE CallStep(Updater)
  BY <1>1, CallStepType
<1>2. CASE CheckAndSetAlive
  <2>1. \/ program' = FreeAll \o Tail(program)
        \/ program' = Demote \o Tail(program)
        \/ program' = Tail(program)
    BY <1>2 DEF CheckAndSetAlive
  <2>2. program' \in Seq(Ops)
    <3>0. program # <<>>
      BY <1>2 DEF CheckAndSetAlive, AtOp
    <3>1. Tail(program) \in Seq(Ops) /\ FreeAll \in Seq(Ops) /\ Demote \in Seq(Ops)
      <4>1. Tail(program) \in Seq(Ops)
        BY <1>0, <3>0
      <4>2. FreeAll \in Seq(Ops) /\ Demote \in Seq(Ops)
        BY ProgramsType
      <4> QED
        BY <4>1, <4>2
    <3>2. FreeAll \o Tail(program) \in Seq(Ops) /\ Demote \o Tail(program) \in Seq(Ops)
      BY <3>1, ConcatType
    <3> QED
      BY <2>1, <3>1, <3>2
  <2>3. call' = call \/ call' = SetFailedAt(Updater, "alive")
    BY <1>2 DEF CheckAndSetAlive
  <2>4. UNCHANGED <<now, entryVars, sm, config, server_state, zone_upgrading, last_state,
                    detectVars, faults>>
    BY <1>2 DEF CheckAndSetAlive
  <2>5. call' \in [Threads -> [at : {"none", "try_lock", "register", "test_and_set", "stamp"},
                               kind : Hists, time : Nat]]
    <3>1. call \in [Threads -> [at : {"none", "try_lock", "register", "test_and_set", "stamp"},
                                kind : Hists, time : Nat]]
      BY DEF ControlTypeOK
    <3> QED
      BY <2>3, <3>1, SetFailedAtType
  <2> QED
    BY <2>2, <2>4, <2>5 DEF ControlTypeOK
<1>3. CASE SetCongested
  <2>1. program # <<>> /\ Head(program).kind \in Flags
    BY <1>0, <1>3 DEF SetCongested, AtOp, Ops
  <2>2. congested' \in [Flags -> BOOLEAN]
    BY <1>3, <2>1 DEF SetCongested, ControlTypeOK
  <2>3. Op("stamp", Head(program).kind, 0) \in Ops
    BY <2>1 DEF Op, Ops
  <2>4. program' \in Seq(Ops)
    BY <1>0, <1>3, <2>1, <2>3, ConsType DEF SetCongested
  <2> QED
    BY <1>3, <2>2, <2>4 DEF SetCongested, ControlTypeOK
<1>4. CASE StampCongested
  BY <1>0, <1>4 DEF StampCongested, AtOp, ControlTypeOK
<1>5. CASE SetCongestedFree
  <2>1. program # <<>> /\ Head(program).kind \in Flags
    BY <1>0, <1>5 DEF SetCongestedFree, AtOp, Ops
  <2>2. congested' \in [Flags -> BOOLEAN]
    BY <1>5, <2>1 DEF SetCongestedFree, ControlTypeOK
  <2> QED
    BY <1>0, <1>5, <2>1, <2>2 DEF SetCongestedFree, ControlTypeOK
<1>6. CASE ResetFailHistory
  BY <1>0, <1>6 DEF ResetFailHistory, AtOp, ControlTypeOK
<1>7. ASSUME NEW p \in SMs, NEW read, NEW stored, TornReset(p, read, stored)
      PROVE  ControlTypeOK'
  <2> p \in Threads
    BY DEF Threads
  <2> QED
    BY <1>0, <1>7, ReturnType DEF TornReset, AtOp, Registered, ControlTypeOK
<1>8. CASE RecheckThreshold
  <2> DEFINE k == Head(program).kind
  <2>1. program # <<>> /\ k \in Flags
    BY <1>0, <1>8 DEF RecheckThreshold, AtOp, Ops
  <2>2. <<Op("free", k, 0)>> \in Seq(Ops) /\ <<Op("set", k, 0)>> \in Seq(Ops)
    BY <2>1 DEF Op, Ops
  <2>3. program' \in Seq(Ops)
    BY <1>0, <1>8, <2>1, <2>2 DEF RecheckThreshold
  <2> QED
    BY <1>8, <2>3 DEF RecheckThreshold, ControlTypeOK
<1> QED
  BY <1>1, <1>2, <1>3, <1>4, <1>5, <1>6, <1>7, <1>8 DEF UpdaterStep

\* Type correctness of refreshes, probes and changes of the settings.
LEMMA UpdaterBeginType ==
    ASSUME ControlTypeOK, UpdaterBegin
    PROVE  ControlTypeOK'
<1> USE DEF entryVars, updateVars, detectVars
<1>1. ASSUME NEW st \in RefreshStates, Refresh(st)
      PROVE  ControlTypeOK'
  <2>1. st \in ServerStates
    BY EntryAssumption
  <2>2. faults' \in 0 .. MaxFaults
    BY <1>1, FaultType DEF Refresh, ControlTypeOK
  <2> QED
    BY <1>1, <2>1, <2>2, ProgramsType DEF Refresh, RevalidateServer, ControlTypeOK
<1>2. CASE ScheduleProbe
  BY <1>2, EntryAssumption DEF ScheduleProbe, ControlTypeOK
<1>3. CASE ProbeAlive
  <2>1. "DETECT_ALIVE" \in ServerStates
    BY DEF ServerStates
  <2>2. probes' \in 0 .. MaxProbes
    BY <1>3, EntryAssumption DEF ProbeAlive, ControlTypeOK
  <2> QED
    BY <1>3, <2>1, <2>2, ProgramsType DEF ProbeAlive, RevalidateServer, ControlTypeOK
<1>4. CASE ProbeDead
  <2>1. "DETECT_DEAD" \in ServerStates
    BY DEF ServerStates
  <2>2. probes' \in 0 .. MaxProbes /\ detect_fail_cnt' \in Nat
    BY <1>4, EntryAssumption DEF ProbeDead, ControlTypeOK
  <2> QED
    BY <1>4, <2>1, <2>2, ProgramsType DEF ProbeDead, RevalidateServer, ControlTypeOK
<1>5. ASSUME NEW c \in Configs, ApplyNewConfig(c)
      PROVE  ControlTypeOK'
  <2>1. config.conn_failure_threshold \in Int /\ config.alive_failure_threshold \in Int
    BY EntryAssumption DEF ControlTypeOK, IsConfig
  <2>2. \A k \in Flags : \A o \in {"reset", "free", "recheck"} : \A old \in Int : Op(o, k, old) \in Ops
    BY DEF Op, Ops
  <2>3. {"dead", "alive", "client_feedback"} \subseteq Flags
    BY DEF Flags
  <2>4. /\ <<Op("reset", "dead", 0), Op("free", "dead", 0), Op("reset", "alive", 0),
             Op("free", "alive", 0), Op("reset", "client_feedback", 0)>> \in Seq(Ops)
        /\ <<Op("recheck", "dead", config.conn_failure_threshold),
             Op("recheck", "alive", config.alive_failure_threshold)>> \in Seq(Ops)
    BY <2>1, <2>2, <2>3
  <2>5. program' \in Seq(Ops)
    BY <1>5, <2>4 DEF ApplyNewConfig
  <2> QED
    BY <1>5, <2>5, FaultType DEF ApplyNewConfig, ControlTypeOK
<1>6. ASSUME NEW upgrade \in BOOLEAN, ApplyNewZoneState(upgrade)
      PROVE  ControlTypeOK'
  BY <1>6, FaultType DEF ApplyNewZoneState, ControlTypeOK
<1> QED
  BY <1>1, <1>2, <1>3, <1>4, <1>5, <1>6 DEF UpdaterBegin

(***************************************************************************)
(* Every step of every thread leaves the entry's control state well        *)
(* formed: no call, program, flag or counter takes a value the code has no *)
(* case for.                                                               *)
(***************************************************************************)
THEOREM TypeCorrect == Spec => []ControlTypeOK
<1>1. Init => ControlTypeOK
  <2> SUFFICES ASSUME Init PROVE ControlTypeOK
    OBVIOUS
  <2>1. now \in Seconds /\ config \in Configs /\ probes \in 0 .. MaxProbes /\ faults \in 0 .. MaxFaults
    BY EntryAssumption DEF Init, Seconds
  <2>2. call \in [Threads -> [at : {"none", "try_lock", "register", "test_and_set", "stamp"},
                              kind : Hists, time : Nat]]
    BY DEF Init, NoCall, Hists
  <2>3. sm \in [SMs -> [pc : {"idle", "alive", "retry", "ask", "through", "abort", "feedback"},
                        updated : BOOLEAN, force : BOOLEAN, detect : BOOLEAN]]
    BY DEF Init, IdleSM
  <2>4. program \in Seq(Ops)
    BY ProgramsType DEF Init
  <2> QED
    BY <2>1, <2>2, <2>3, <2>4 DEF Init, ControlTypeOK, ServerStates
<1>2. ControlTypeOK /\ [Next]_vars => ControlTypeOK'
  <2> SUFFICES ASSUME ControlTypeOK, [Next]_vars
               PROVE  ControlTypeOK'
    OBVIOUS
  <2>1. CASE Tick
    BY <2>1, EntryAssumption
       DEF Tick, ControlTypeOK, Seconds, entryVars, updateVars, detectVars
  <2>2. CASE UNCHANGED vars
    BY <2>2 DEF vars, ControlTypeOK, entryVars, updateVars, detectVars
  <2> QED
    BY <2>1, <2>2, SMStepType, UpdaterStepType, UpdaterBeginType DEF Next
<1> QED
  BY <1>1, <1>2, PTL DEF Spec

-----------------------------------------------------------------------------
(***************************************************************************)
(* The history lock.                                                       *)
(***************************************************************************)
LEMMA NobodyIsNoThread == NoThread \notin Threads
  BY EntryAssumption

\* A thread that is in no call may begin one; nothing else changes.
LEMMA BeginCallKeepsLock ==
    ASSUME ControlTypeOK, HistoryLockHeld, UNCHANGED fail_hist_lock,
           NEW p \in Threads, NEW k \in Hists, call[p].at = "none",
           call' = call \/ call' = SetFailedAt(p, k)
    PROVE  HistoryLockHeld'
<1> SUFFICES ASSUME NEW q \in Threads
             PROVE  (fail_hist_lock = q) <=> (call'[q].at \in {"register", "test_and_set", "stamp"})
  BY DEF HistoryLockHeld
<1>1. (fail_hist_lock = q) <=> (call[q].at \in {"register", "test_and_set", "stamp"})
  BY DEF HistoryLockHeld
<1>2. \/ call'[q] = call[q]
      \/ q = p /\ call'[q].at = "try_lock"
  <2>1. CASE call' = call
    BY <2>1
  <2>2. CASE call' = [call EXCEPT ![p] = [at |-> "try_lock", kind |-> k, time |-> now]]
    BY <2>2 DEF ControlTypeOK
  <2> QED
    BY <2>1, <2>2 DEF SetFailedAt
<1> QED
  BY <1>1, <1>2

\* The holder finishes its call and releases the lock.
LEMMA EndCallKeepsLock ==
    ASSUME ControlTypeOK, HistoryLockHeld, NEW p \in Threads,
           call[p].at \in {"register", "test_and_set", "stamp"},
           Return(p), fail_hist_lock' = NoThread
    PROVE  HistoryLockHeld'
  BY NobodyIsNoThread DEF ControlTypeOK, HistoryLockHeld, Return, NoCall

\* The holder goes on inside its call.
LEMMA HolderKeepsLock ==
    ASSUME ControlTypeOK, HistoryLockHeld, NEW p \in Threads,
           call[p].at \in {"register", "test_and_set", "stamp"},
           NEW at \in {"test_and_set", "stamp"},
           call' = [call EXCEPT ![p].at = at], UNCHANGED fail_hist_lock
    PROVE  HistoryLockHeld'
  BY DEF ControlTypeOK, HistoryLockHeld

\* After regist_event the holder keeps the lock or returns it with the call.
LEMMA RegisteredKeepsLock ==
    ASSUME ControlTypeOK, HistoryLockHeld, NEW p \in Threads, NEW h,
           call[p].at = "register", Registered(p, h)
    PROVE  HistoryLockHeld'
<1>1. CASE Return(p) /\ fail_hist_lock' = NoThread
  BY <1>1, EndCallKeepsLock
<1>2. CASE call' = [call EXCEPT ![p].at = "test_and_set"] /\ UNCHANGED fail_hist_lock
  BY <1>2, HolderKeepsLock
<1> QED
  BY <1>1, <1>2 DEF Registered

\* Inside set_*_failed_at the lock is held exactly where the code holds it.
LEMMA CallStepKeepsLock ==
    ASSUME ControlTypeOK, HistoryLockHeld, NEW p \in Threads, CallStep(p)
    PROVE  HistoryLockHeld'
<1>1. CASE LockHistory(p)
  BY <1>1, NobodyIsNoThread DEF LockHistory, ControlTypeOK, HistoryLockHeld
<1>2. CASE LoseEvent(p)
  BY <1>2 DEF LoseEvent, Return, NoCall, ControlTypeOK, HistoryLockHeld, entryVars
<1>3. CASE Register(p)
  BY <1>3, RegisteredKeepsLock DEF Register
<1>4. CASE TestAndSet(p)
  BY <1>4, EndCallKeepsLock, HolderKeepsLock DEF TestAndSet
<1>5. CASE Stamp(p)
  BY <1>5, EndCallKeepsLock DEF Stamp
<1> QED
  BY <1>1, <1>2, <1>3, <1>4, <1>5 DEF CallStep

(***************************************************************************)
(* fail_hist_lock_ is mutual exclusion for the failure histories: for any  *)
(* number of connections reporting at once, a report is registered only by *)
(* the holder, and the lock is held only by a thread inside such a call.   *)
(* The type invariant alone makes it inductive: every call begins from     *)
(* "none", and every return inside the locked part releases the lock.      *)
(***************************************************************************)
THEOREM HistoryLockSafe == Spec => []HistoryLockHeld
<1>1. Init => HistoryLockHeld
  BY NobodyIsNoThread DEF Init, HistoryLockHeld, NoCall
<1>2. ControlTypeOK /\ HistoryLockHeld /\ [Next]_vars => HistoryLockHeld'
  <2> SUFFICES ASSUME ControlTypeOK, HistoryLockHeld, [Next]_vars
               PROVE  HistoryLockHeld'
    OBVIOUS
  <2> "alive" \in Hists /\ "dead" \in Hists /\ "client_feedback" \in Hists
    BY DEF Hists
  <2>1. CASE UNCHANGED <<call, fail_hist_lock>>
    BY <2>1 DEF HistoryLockHeld
  <2>2. ASSUME NEW s \in SMs, SMStep(s)
        PROVE  HistoryLockHeld'
    <3> s \in Threads
      BY DEF Threads
    <3>1. CASE CallStep(s)
      BY <3>1, CallStepKeepsLock
    <3>2. CASE \E k \in Hists : /\ call[s].at = "none" /\ UNCHANGED fail_hist_lock
                                /\ (call' = call \/ call' = SetFailedAt(s, k))
      BY <3>2, BeginCallKeepsLock
    <3> QED
      BY <2>2, <3>1, <3>2
         DEF SMStep, ReadDead, ReadAlive, Retry, Refuse, AskProbe, MysqlFail, MysqlDrop,
             MysqlComplete, ClientAbort, ReportAbort, ClientFeedback, RpcFail, RpcComplete, At,
             entryVars
  <2>3. CASE UpdaterStep
    <3> Updater \in Threads
      BY DEF Threads
    <3>1. CASE CallStep(Updater)
      BY <3>1, CallStepKeepsLock
    <3>2. CASE CheckAndSetAlive
      BY <3>2, BeginCallKeepsLock DEF CheckAndSetAlive, AtOp, entryVars
    <3>3. ASSUME NEW p \in SMs, NEW read, NEW stored, TornReset(p, read, stored)
          PROVE  HistoryLockHeld'
      BY <3>3, RegisteredKeepsLock DEF TornReset, Threads
    <3>4. CASE \/ SetCongested \/ StampCongested \/ SetCongestedFree \/ ResetFailHistory
               \/ RecheckThreshold
      BY <3>4, <2>1 DEF SetCongested, StampCongested, SetCongestedFree, ResetFailHistory,
                        RecheckThreshold, entryVars
    <3> QED
      BY <2>3, <3>1, <3>2, <3>3, <3>4 DEF UpdaterStep
  <2>4. CASE UpdaterBegin
    BY <2>1, <2>4 DEF UpdaterBegin, Refresh, ScheduleProbe, ProbeAlive, ProbeDead, ApplyNewConfig,
                      ApplyNewZoneState, entryVars
  <2>5. CASE Tick \/ UNCHANGED vars
    BY <2>1, <2>5 DEF Tick, vars, entryVars
  <2> QED
    BY <2>2, <2>3, <2>4, <2>5 DEF Next
<1> QED
  BY <1>1, <1>2, TypeCorrect, PTL DEF Spec

-----------------------------------------------------------------------------
(***************************************************************************)
(* What the Updater's program still contains.                              *)
(***************************************************************************)
\* The first instruction is replaced by new.
LEMMA StepProgram ==
    ASSUME ControlTypeOK, program # <<>>, NEW new \in Seq(Ops), program' = new \o Tail(program)
    PROVE  /\ \A i \in DOMAIN program' :
                 \/ \E j \in DOMAIN new : program'[i] = new[j]
                 \/ \E j \in DOMAIN program : j # 1 /\ program'[i] = program[j]
           /\ \A j \in DOMAIN program :
                 j # 1 => \E i \in DOMAIN program' : program'[i] = program[j]
           /\ 1 \in DOMAIN program /\ Head(program) = program[1]
<1> DEFINE T == Tail(program)
<1>1. program \in Seq(Ops) /\ Len(program) \in Nat \ {0}
  BY DEF ControlTypeOK
<1>2. T \in Seq(Ops) /\ Len(T) = Len(program) - 1 /\ \A i \in 1 .. Len(T) : T[i] = program[i + 1]
  BY <1>1
<1>3. /\ Len(program') = Len(new) + Len(T) /\ program' \in Seq(Ops)
      /\ \A i \in 1 .. Len(new) : program'[i] = new[i]
      /\ \A i \in 1 .. Len(T) : program'[Len(new) + i] = T[i]
  BY <1>2
<1>4. DOMAIN program = 1 .. Len(program) /\ DOMAIN new = 1 .. Len(new)
      /\ DOMAIN program' = 1 .. Len(program') /\ Len(new) \in Nat
  BY <1>1, <1>3
<1> HIDE DEF T
<1>5. ASSUME NEW i \in DOMAIN program'
      PROVE  \/ \E j \in DOMAIN new : program'[i] = new[j]
             \/ \E j \in DOMAIN program : j # 1 /\ program'[i] = program[j]
  <2>1. CASE i <= Len(new)
    BY <1>3, <1>4, <1>5, <2>1
  <2>2. CASE i > Len(new)
    <3> DEFINE m == i - Len(new)
    <3>1. m \in 1 .. Len(T) /\ i = Len(new) + m
      BY <1>1, <1>2, <1>3, <1>4, <1>5, <2>2
    <3>2. program'[i] = program[m + 1] /\ m + 1 \in DOMAIN program /\ m + 1 # 1
      BY <1>1, <1>2, <1>3, <1>4, <3>1
    <3> QED
      BY <3>2
  <2> QED
    BY <1>3, <1>4, <2>1, <2>2
<1>6. ASSUME NEW j \in DOMAIN program, j # 1
      PROVE  \E i \in DOMAIN program' : program'[i] = program[j]
  <2> DEFINE m == j - 1
  <2>1. m \in 1 .. Len(T) /\ j = m + 1
    BY <1>1, <1>2, <1>4, <1>6
  <2>2. Len(new) + m \in DOMAIN program' /\ program'[Len(new) + m] = program[j]
    BY <1>1, <1>2, <1>3, <1>4, <2>1
  <2> QED
    BY <2>2
<1>7. 1 \in DOMAIN program /\ Head(program) = program[1]
  BY <1>1, <1>4
<1> QED
  BY <1>5, <1>6, <1>7

\* Tail(program) is the case of nothing new.
LEMMA TailProgram ==
    ASSUME ControlTypeOK, program # <<>>, program' = Tail(program)
    PROVE  <<>> \in Seq(Ops) /\ program' = <<>> \o Tail(program)
  BY TailType DEF ControlTypeOK

-----------------------------------------------------------------------------
(***************************************************************************)
(* Detection.                                                              *)
(***************************************************************************)
\* The flag goes up only while the server is in ip_set_.
DetectInv ==
    /\ DetectedDeadIsProbed
    /\ \A i \in DOMAIN program :
          /\ program[i].op = "set" /\ program[i].kind = "detect" => ip_set
          /\ program[i].op = "recheck" => program[i].kind # "detect"

\* A step that neither raises the flag nor takes the server out of ip_set_,
\* and puts harmless instructions in the place of a harmless one.
LEMMA HarmlessStep ==
    ASSUME ControlTypeOK, DetectInv, program # <<>>,
           NEW new \in Seq(Ops), program' = new \o Tail(program),
           \A i \in DOMAIN new : /\ ~(new[i].op = "set" /\ new[i].kind = "detect")
                                 /\ new[i].op # "recheck",
           ~(Head(program).op = "free" /\ Head(program).kind = "detect")
             \/ ~congested'["detect"],
           congested'["detect"] => congested["detect"] \/ ip_set,
           UNCHANGED ip_set
    PROVE  DetectInv'
<1>1. /\ \A i \in DOMAIN program' :
            \/ \E j \in DOMAIN new : program'[i] = new[j]
            \/ \E j \in DOMAIN program : j # 1 /\ program'[i] = program[j]
      /\ \A j \in DOMAIN program :
            j # 1 => \E i \in DOMAIN program' : program'[i] = program[j]
      /\ Head(program) = program[1]
  BY StepProgram
<1>2. DetectedDeadIsProbed'
  <2> SUFFICES ASSUME congested'["detect"], ~ip_set
               PROVE  \E i \in DOMAIN program' : program'[i].op = "free" /\ program'[i].kind = "detect"
    BY DEF DetectedDeadIsProbed
  <2>1. PICK j \in DOMAIN program : program[j].op = "free" /\ program[j].kind = "detect"
    BY DEF DetectInv, DetectedDeadIsProbed
  <2>2. j # 1
    BY <1>1, <2>1
  <2>3. PICK i \in DOMAIN program' : program'[i] = program[j]
    BY <1>1, <2>2
  <2> QED
    BY <2>1, <2>3
<1>3. \A i \in DOMAIN program' :
          /\ program'[i].op = "set" /\ program'[i].kind = "detect" => ip_set'
          /\ program'[i].op = "recheck" => program'[i].kind # "detect"
  BY <1>1 DEF DetectInv
<1> QED
  BY <1>2, <1>3 DEF DetectInv

\* The first instruction is done with.
LEMMA DropStep ==
    ASSUME ControlTypeOK, DetectInv, program # <<>>, program' = Tail(program),
           ~(Head(program).op = "free" /\ Head(program).kind = "detect")
             \/ ~congested'["detect"],
           congested'["detect"] => congested["detect"] \/ ip_set,
           UNCHANGED ip_set
    PROVE  DetectInv'
<1>1. <<>> \in Seq(Ops) /\ program' = <<>> \o Tail(program) /\ DOMAIN <<>> = {}
  BY TailProgram
<1> QED
  BY <1>1, HarmlessStep

\* A step that leaves the program alone.
LEMMA SameProgram ==
    ASSUME DetectInv, UNCHANGED program, ip_set => ip_set',
           congested'["detect"] => congested["detect"]
    PROVE  DetectInv'
  BY DEF DetectInv, DetectedDeadIsProbed

\* A new program: what it must contain if it ends the listing.
LEMMA FreshProgram ==
    ASSUME DetectInv, program = <<>>, UNCHANGED congested,
           \A i \in DOMAIN program' :
              /\ program'[i].op = "set" /\ program'[i].kind = "detect" => ip_set'
              /\ program'[i].op = "recheck" => program'[i].kind # "detect",
           \/ ip_set => ip_set'
           \/ \E i \in DOMAIN program' : program'[i].op = "free" /\ program'[i].kind = "detect"
    PROVE  DetectInv'
  BY DEF DetectInv, DetectedDeadIsProbed

\* Reports of failures do not touch the detect list.
LEMMA CallStepKeepsDetect ==
    ASSUME ControlTypeOK, DetectInv, NEW p \in Threads, CallStep(p)
    PROVE  DetectInv'
<1>1. UNCHANGED <<program, ip_set>>
  BY DEF CallStep, LockHistory, LoseEvent, Register, TestAndSet, Stamp, updateVars, detectVars
<1>2. congested'["detect"] => congested["detect"]
  BY DEF CallStep, LockHistory, LoseEvent, Register, Registered, TestAndSet, Stamp,
         entryVars, ControlTypeOK, Hists, Flags
<1> QED
  BY <1>1, <1>2, SameProgram

\* Connections only ever put the server into ip_set_.
LEMMA SMStepKeepsDetect ==
    ASSUME ControlTypeOK, DetectInv, NEW s \in SMs, SMStep(s)
    PROVE  DetectInv'
<1>1. CASE CallStep(s)
  BY <1>1, CallStepKeepsDetect DEF Threads
<1>2. CASE MysqlComplete(s)
  BY <1>2, SameProgram DEF MysqlComplete, ControlTypeOK, Flags, updateVars
<1>3. CASE UNCHANGED <<congested, program>> /\ (ip_set => ip_set')
  BY <1>3, SameProgram
<1>4. ASSUME NEW force \in BOOLEAN, NEW leader_newer \in BOOLEAN, ReadDead(s, force, leader_newer)
      PROVE  DetectInv'
  <2>1. UNCHANGED <<congested, program>>
    BY <1>4 DEF ReadDead, entryVars, updateVars
  <2>2. ip_set => ip_set'
    BY <1>4 DEF ReadDead
  <2> QED
    BY <1>3, <2>1, <2>2
<1>5. CASE ReadAlive(s) \/ Retry(s) \/ Refuse(s) \/ AskProbe(s) \/ MysqlFail(s) \/ MysqlDrop(s)
  BY <1>3, <1>5 DEF ReadAlive, Retry, Refuse, AskProbe, MysqlFail, MysqlDrop, entryVars,
                    updateVars, detectVars
<1>6. ASSUME NEW b \in BOOLEAN, ClientAbort(s, b) \/ ReportAbort(s, b)
      PROVE  DetectInv'
  BY <1>3, <1>6 DEF ClientAbort, ReportAbort, entryVars, updateVars, detectVars
<1>7. CASE ClientFeedback(s) \/ RpcFail(s) \/ RpcComplete(s)
  BY <1>3, <1>7 DEF ClientFeedback, RpcFail, RpcComplete, entryVars, updateVars, detectVars
<1> QED
  BY <1>1, <1>2, <1>4, <1>5, <1>6, <1>7 DEF SMStep

\* The flag goes up only by an instruction that a failed probe has left.
LEMMA UpdaterStepKeepsDetect ==
    ASSUME ControlTypeOK, DetectInv, UpdaterStep
    PROVE  DetectInv'
<1> USE DEF entryVars, detectVars
<1>0. program # <<>> => Tail(program) \in Seq(Ops) /\ Head(program) \in Ops
  BY TailType DEF ControlTypeOK
<1>1. CASE CallStep(Updater)
  BY <1>1, CallStepKeepsDetect DEF Threads
<1>2. CASE CheckAndSetAlive
  <2>1. /\ UNCHANGED <<congested, ip_set>> /\ program # <<>>
        /\ Head(program).op = "check_and_set_alive"
    BY <1>2 DEF CheckAndSetAlive, AtOp
  <2>2. /\ FreeAll \in Seq(Ops) /\ Demote \in Seq(Ops) /\ <<>> \in Seq(Ops)
        /\ \A i \in DOMAIN FreeAll : /\ ~(FreeAll[i].op = "set" /\ FreeAll[i].kind = "detect")
                                     /\ FreeAll[i].op # "recheck"
        /\ \A i \in DOMAIN Demote : /\ ~(Demote[i].op = "set" /\ Demote[i].kind = "detect")
                                    /\ Demote[i].op # "recheck"
    BY DEF FreeAll, Demote, Op, Ops, Flags
  <2>3. CASE program' = FreeAll \o Tail(program)
    BY <2>1, <2>2, <2>3, HarmlessStep
  <2>4. CASE program' = Demote \o Tail(program)
    BY <2>1, <2>2, <2>4, HarmlessStep
  <2>5. CASE program' = Tail(program)
    BY <2>1, <2>5, DropStep
  <2> QED
    BY <1>2, <2>3, <2>4, <2>5 DEF CheckAndSetAlive
<1>3. CASE SetCongested
  <2> DEFINE k == Head(program).kind
             new == <<Op("stamp", k, 0)>>
  <2>1. /\ UNCHANGED ip_set /\ program # <<>> /\ Head(program).op = "set"
        /\ congested' = [congested EXCEPT ![k] = TRUE]
        /\ program' = Tail(program) \/ program' = new \o Tail(program)
    BY <1>3 DEF SetCongested, AtOp
  <2>2. k \in Flags /\ Head(program) = program[1] /\ 1 \in DOMAIN program
    BY <1>0, <2>1 DEF ControlTypeOK, Ops
  <2>3. congested'["detect"] => congested["detect"] \/ ip_set
    BY <2>1, <2>2 DEF DetectInv, ControlTypeOK, Flags
  <2>4. CASE program' = Tail(program)
    BY <2>1, <2>3, <2>4, DropStep
  <2>5. CASE program' = new \o Tail(program)
    <3>1. /\ new \in Seq(Ops)
          /\ \A i \in DOMAIN new : /\ ~(new[i].op = "set" /\ new[i].kind = "detect")
                                   /\ new[i].op # "recheck"
      BY <2>2 DEF Op, Ops
    <3> HIDE DEF new
    <3> QED
      BY <2>1, <2>3, <2>5, <3>1, HarmlessStep
  <2> QED
    BY <2>1, <2>4, <2>5
<1>4. CASE StampCongested \/ ResetFailHistory
  <2>1. /\ UNCHANGED <<ip_set, congested>> /\ program # <<>> /\ program' = Tail(program)
        /\ Head(program).op \in {"stamp", "reset"}
    BY <1>4 DEF StampCongested, ResetFailHistory, AtOp
  <2> QED
    BY <2>1, DropStep
<1>5. CASE SetCongestedFree
  <2>1. /\ UNCHANGED ip_set /\ program # <<>> /\ program' = Tail(program)
        /\ congested' = [congested EXCEPT ![Head(program).kind] = FALSE]
    BY <1>5 DEF SetCongestedFree, AtOp
  <2>2. /\ congested'["detect"] => congested["detect"]
        /\ Head(program).kind = "detect" => ~congested'["detect"]
    BY <2>1 DEF ControlTypeOK, Flags
  <2> QED
    BY <2>1, <2>2, DropStep
<1>6. ASSUME NEW p \in SMs, NEW read, NEW stored, TornReset(p, read, stored)
      PROVE  DetectInv'
  <2>1. /\ UNCHANGED <<ip_set, congested>> /\ program # <<>> /\ program' = Tail(program)
        /\ Head(program).op = "reset"
    BY <1>6 DEF TornReset, Registered, AtOp
  <2> QED
    BY <2>1, DropStep
<1>7. CASE RecheckThreshold
  <2> DEFINE k == Head(program).kind
             Instr == {<<>>, <<Op("free", k, 0)>>, <<Op("set", k, 0)>>}
  <2>1. /\ UNCHANGED <<ip_set, congested>> /\ program # <<>>
        /\ Head(program).op = "recheck"
    BY <1>7 DEF RecheckThreshold, AtOp
  <2>2. PICK new \in Instr : program' = new \o Tail(program)
    BY <1>7 DEF RecheckThreshold
  <2>3. Head(program) = program[1] /\ 1 \in DOMAIN program /\ k \in Flags
    BY <1>0, <2>1 DEF ControlTypeOK, Ops
  <2>4. k # "detect"
    BY <2>1, <2>3 DEF DetectInv
  <2>5. /\ new \in Seq(Ops)
        /\ \A i \in DOMAIN new : /\ ~(new[i].op = "set" /\ new[i].kind = "detect")
                                 /\ new[i].op # "recheck"
    <3>1. CASE new = <<>>
      BY <3>1
    <3>2. CASE new = <<Op("free", k, 0)>>
      BY <2>3, <3>2 DEF Op, Ops
    <3>3. CASE new = <<Op("set", k, 0)>>
      BY <2>3, <2>4, <3>3 DEF Op, Ops
    <3> QED
      BY <2>2, <3>1, <3>2, <3>3
  <2> QED
    BY <2>1, <2>2, <2>5, HarmlessStep
<1> QED
  BY <1>1, <1>2, <1>3, <1>4, <1>5, <1>6, <1>7 DEF UpdaterStep

\* A probe that empties ip_set_ leaves the instruction to take the flag down.
LEMMA UpdaterBeginKeepsDetect ==
    ASSUME ControlTypeOK, DetectInv, UpdaterBegin
    PROVE  DetectInv'
<1> USE DEF entryVars, detectVars
<1>1. CASE ScheduleProbe \/ \E upgrade \in BOOLEAN : ApplyNewZoneState(upgrade)
  BY <1>1, SameProgram DEF ScheduleProbe, ApplyNewZoneState, updateVars
<1>2. ASSUME NEW state \in RefreshStates, Refresh(state)
      PROVE  DetectInv'
  <2>1. state \in ServerStates \ {"DETECT_ALIVE", "DETECT_DEAD"}
    BY EntryAssumption
  <2>2. program = <<>> /\ UNCHANGED <<congested, ip_set>> /\ program' = RevalidateProgram[state]
    BY <1>2 DEF Refresh, RevalidateServer, UpdaterFree
  <2>3. \A i \in DOMAIN program' : /\ program'[i].op # "recheck"
                                   /\ ~(program'[i].op = "set" /\ program'[i].kind = "detect")
    BY <2>1, <2>2 DEF RevalidateProgram, ServerStates, Op
  <2> QED
    BY <2>2, <2>3, FreshProgram
<1>3. CASE ProbeAlive
  <2>1. /\ program = <<>> /\ UNCHANGED congested
        /\ program' = <<Op("free", "detect", 0), Op("free", "alive", 0)>>
    BY <1>3 DEF ProbeAlive, RevalidateServer, UpdaterFree, RevalidateProgram
  <2>2. /\ \A i \in DOMAIN program' : program'[i].op = "free"
        /\ 1 \in DOMAIN program' /\ program'[1].kind = "detect"
    BY <2>1 DEF Op
  <2> QED
    BY <2>1, <2>2, FreshProgram
<1>4. CASE ProbeDead
  <2>1. CASE UNCHANGED <<ip_set, program>>
    BY <1>4, <2>1, SameProgram DEF ProbeDead
  <2>2. CASE ip_set' /\ RevalidateServer("DETECT_DEAD")
    <3>1. /\ program = <<>> /\ UNCHANGED congested
          /\ program' = <<Op("set", "detect", 0)>>
      BY <1>4, <2>2 DEF ProbeDead, RevalidateServer, UpdaterFree, RevalidateProgram
    <3>2. \A i \in DOMAIN program' : program'[i].op = "set"
      BY <3>1 DEF Op
    <3> QED
      BY <2>2, <3>1, <3>2, FreshProgram
  <2> QED
    BY <1>4, <2>1, <2>2 DEF ProbeDead
<1>5. ASSUME NEW c \in Configs, ApplyNewConfig(c)
      PROVE  DetectInv'
  <2>1. program = <<>> /\ UNCHANGED <<congested, ip_set>>
    BY <1>5 DEF ApplyNewConfig, UpdaterFree
  <2>2. \A i \in DOMAIN program' : program'[i].kind # "detect"
    BY <1>5 DEF ApplyNewConfig, Op
  <2> QED
    BY <2>1, <2>2, FreshProgram
<1> QED
  BY <1>1, <1>2, <1>3, <1>4, <1>5 DEF UpdaterBegin

(***************************************************************************)
(* A server that the detection probes have blacklisted is never forgotten: *)
(* for any number of connections and probes in flight and any thresholds,  *)
(* while detect_congested_ is up the server is in ip_set_, where           *)
(* schedule_detect_server_state finds it, or the thread that holds the     *)
(* bucket mutex is about to take the flag down.  The strengthening is that *)
(* an instruction to raise the flag is only ever pending for a server that *)
(* is in ip_set_, and that a changed threshold never concerns the flag.    *)
(***************************************************************************)
THEOREM DetectedDeadListed == Spec => []DetectedDeadIsProbed
<1>1. Init => DetectInv
  BY DEF Init, DetectInv, DetectedDeadIsProbed, Flags
<1>2. ControlTypeOK /\ DetectInv /\ [Next]_vars => DetectInv'
  <2> SUFFICES ASSUME ControlTypeOK, DetectInv, [Next]_vars
               PROVE  DetectInv'
    OBVIOUS
  <2>1. CASE Tick \/ UNCHANGED vars
    BY <2>1, SameProgram DEF Tick, vars, entryVars, updateVars, detectVars
  <2> QED
    BY <2>1, SMStepKeepsDetect, UpdaterStepKeepsDetect, UpdaterBeginKeepsDetect DEF Next
<1>3. DetectInv => DetectedDeadIsProbed
  BY DEF DetectInv
<1> QED
  BY <1>1, <1>2, <1>3, TypeCorrect, PTL DEF Spec

-----------------------------------------------------------------------------
(***************************************************************************)
(* The dead list.                                                          *)
(***************************************************************************)
Inactive == last_state \in {"INACTIVE", "REPLAY"}

\* What may not be pending while the server is inactive.
FreesDead(o) == \/ o.op \in {"check_and_set_alive", "recheck"}
                \/ o.op = "free" /\ o.kind = "dead"

\* While the server is inactive nothing pending takes it off the dead list,
\* and it is on the list or about to be put there.
DeadInv ==
    Inactive =>
        /\ \A i \in DOMAIN program : ~FreesDead(program[i])
        /\ \/ congested["dead"]
           \/ \E i \in DOMAIN program : program[i].op = "set" /\ program[i].kind = "dead"

\* A step that leaves the program alone.
LEMMA SameProgramDead ==
    ASSUME DeadInv, UNCHANGED <<program, last_state>>, congested["dead"] => congested'["dead"]
    PROVE  DeadInv'
  BY DEF DeadInv, Inactive

\* The first instruction has been carried out and replaced by new.
LEMMA StepDead ==
    ASSUME ControlTypeOK, DeadInv, program # <<>>,
           NEW new \in Seq(Ops), program' = new \o Tail(program), UNCHANGED last_state,
           \A i \in DOMAIN new : ~FreesDead(new[i]),
           ~FreesDead(Head(program)) => (congested["dead"] => congested'["dead"]),
           Head(program).op = "set" /\ Head(program).kind = "dead" => congested'["dead"]
    PROVE  DeadInv'
<1> SUFFICES ASSUME Inactive PROVE DeadInv'
  BY DEF DeadInv, Inactive
<1>1. /\ \A i \in DOMAIN program' :
            \/ \E j \in DOMAIN new : program'[i] = new[j]
            \/ \E j \in DOMAIN program : j # 1 /\ program'[i] = program[j]
      /\ \A j \in DOMAIN program :
            j # 1 => \E i \in DOMAIN program' : program'[i] = program[j]
      /\ 1 \in DOMAIN program /\ Head(program) = program[1]
  BY StepProgram
<1>2. \A i \in DOMAIN program' : ~FreesDead(program'[i])
  BY <1>1 DEF DeadInv
<1>3. congested'["dead"] \/ \E i \in DOMAIN program' : program'[i].op = "set" /\ program'[i].kind = "dead"
  <2>1. CASE congested["dead"]
    BY <1>1, <2>1 DEF DeadInv
  <2>2. CASE ~congested["dead"]
    <3>1. PICK j \in DOMAIN program : program[j].op = "set" /\ program[j].kind = "dead"
      BY <2>2 DEF DeadInv
    <3>2. CASE j = 1
      BY <1>1, <3>1, <3>2
    <3>3. CASE j # 1
      <4>1. PICK i \in DOMAIN program' : program'[i] = program[j]
        BY <1>1, <3>3
      <4> QED
        BY <3>1, <4>1
    <3> QED
      BY <3>2, <3>3
  <2> QED
    BY <2>1, <2>2
<1> QED
  BY <1>2, <1>3 DEF DeadInv

\* The first instruction has been carried out and nothing put in its place.
LEMMA DropDead ==
    ASSUME ControlTypeOK, DeadInv, program # <<>>, program' = Tail(program), UNCHANGED last_state,
           ~FreesDead(Head(program)) => (congested["dead"] => congested'["dead"]),
           Head(program).op = "set" /\ Head(program).kind = "dead" => congested'["dead"]
    PROVE  DeadInv'
<1>1. <<>> \in Seq(Ops) /\ program' = <<>> \o Tail(program) /\ DOMAIN <<>> = {}
  BY TailProgram
<1> QED
  BY <1>1, StepDead

\* Reports of failures never take a server off the dead list.
LEMMA CallStepKeepsDead ==
    ASSUME ControlTypeOK, DeadInv, NEW p \in Threads, CallStep(p)
    PROVE  DeadInv'
<1>1. UNCHANGED <<program, last_state>>
  BY DEF CallStep, LockHistory, LoseEvent, Register, TestAndSet, Stamp, updateVars
<1>2. congested["dead"] => congested'["dead"]
  BY DEF CallStep, LockHistory, LoseEvent, Register, Registered, TestAndSet, Stamp,
         entryVars, ControlTypeOK, Hists, Flags
<1> QED
  BY <1>1, <1>2, SameProgramDead

\* Connections never take a server off the dead list.
LEMMA SMStepKeepsDead ==
    ASSUME ControlTypeOK, DeadInv, NEW s \in SMs, SMStep(s)
    PROVE  DeadInv'
<1> USE DEF entryVars, updateVars
<1>1. CASE CallStep(s)
  BY <1>1, CallStepKeepsDead DEF Threads
<1>2. CASE MysqlComplete(s)
  <2>1. UNCHANGED <<program, last_state>>
    BY <1>2 DEF MysqlComplete
  <2>2. congested["dead"] => congested'["dead"]
    BY <1>2 DEF MysqlComplete, ControlTypeOK, Flags
  <2> QED
    BY <2>1, <2>2, SameProgramDead
<1>3. CASE UNCHANGED <<congested, program, last_state>>
  BY <1>3, SameProgramDead
<1>4. ASSUME NEW force \in BOOLEAN, NEW leader_newer \in BOOLEAN, ReadDead(s, force, leader_newer)
      PROVE  DeadInv'
  BY <1>3, <1>4 DEF ReadDead
<1>5. CASE ReadAlive(s) \/ Retry(s) \/ Refuse(s) \/ AskProbe(s) \/ MysqlFail(s) \/ MysqlDrop(s)
  BY <1>3, <1>5 DEF ReadAlive, Retry, Refuse, AskProbe, MysqlFail, MysqlDrop
<1>6. ASSUME NEW b \in BOOLEAN, ClientAbort(s, b) \/ ReportAbort(s, b)
      PROVE  DeadInv'
  BY <1>3, <1>6 DEF ClientAbort, ReportAbort
<1>7. CASE ClientFeedback(s) \/ RpcFail(s) \/ RpcComplete(s)
  BY <1>3, <1>7 DEF ClientFeedback, RpcFail, RpcComplete
<1> QED
  BY <1>1, <1>2, <1>4, <1>5, <1>6, <1>7 DEF SMStep

\* While the server is inactive no pending instruction frees it.
LEMMA UpdaterStepKeepsDead ==
    ASSUME ControlTypeOK, DeadInv, UpdaterStep
    PROVE  DeadInv'
<1> USE DEF entryVars, updateVars
<1> SUFFICES ASSUME Inactive, UNCHANGED last_state PROVE DeadInv'
  BY DEF DeadInv, Inactive, UpdaterStep, CallStep, LockHistory, LoseEvent, Register, TestAndSet,
         Stamp, CheckAndSetAlive, SetCongested, StampCongested, SetCongestedFree, ResetFailHistory,
         TornReset, RecheckThreshold
<1>0. program # <<>> => /\ Head(program) \in Ops /\ Head(program).kind \in Flags
                        /\ Head(program) = program[1] /\ 1 \in DOMAIN program
  <2> SUFFICES ASSUME program # <<>>
               PROVE  /\ Head(program) \in Ops /\ Head(program).kind \in Flags
                      /\ Head(program) = program[1] /\ 1 \in DOMAIN program
    OBVIOUS
  <2>1. Head(program) \in Ops
    BY TailType DEF ControlTypeOK
  <2>2. Head(program) = program[1] /\ 1 \in DOMAIN program
    BY DEF ControlTypeOK
  <2> QED
    BY <2>1, <2>2 DEF Ops
<1>1. program # <<>> => ~FreesDead(Head(program))
  BY <1>0 DEF DeadInv
<1>2. CASE CallStep(Updater)
  BY <1>2, CallStepKeepsDead DEF Threads
<1>3. ~CheckAndSetAlive /\ ~RecheckThreshold
  BY <1>1 DEF CheckAndSetAlive, RecheckThreshold, AtOp, FreesDead
<1>4. CASE SetCongested
  <2> DEFINE k == Head(program).kind
             new == <<Op("stamp", k, 0)>>
  <2>1. /\ program # <<>> /\ congested' = [congested EXCEPT ![k] = TRUE]
        /\ program' = Tail(program) \/ program' = new \o Tail(program)
    BY <1>4 DEF SetCongested, AtOp
  <2>2. /\ congested["dead"] => congested'["dead"]
        /\ k = "dead" => congested'["dead"]
    BY <1>0, <2>1 DEF ControlTypeOK, Flags
  <2>3. CASE program' = Tail(program)
    BY <2>1, <2>2, <2>3, DropDead
  <2>4. CASE program' = new \o Tail(program)
    <3>1. new \in Seq(Ops) /\ \A i \in DOMAIN new : ~FreesDead(new[i])
      BY <1>0, <2>1 DEF Op, Ops, FreesDead
    <3> HIDE DEF new
    <3> QED
      BY <2>1, <2>2, <2>4, <3>1, StepDead
  <2> QED
    BY <2>1, <2>3, <2>4
<1>5. CASE StampCongested \/ ResetFailHistory
  <2>1. /\ UNCHANGED congested /\ program # <<>> /\ program' = Tail(program)
        /\ Head(program).op \in {"stamp", "reset"}
    BY <1>5 DEF StampCongested, ResetFailHistory, AtOp
  <2> QED
    BY <2>1, DropDead
<1>6. CASE SetCongestedFree
  <2>1. /\ program # <<>> /\ program' = Tail(program) /\ Head(program).op = "free"
        /\ congested' = [congested EXCEPT ![Head(program).kind] = FALSE]
    BY <1>6 DEF SetCongestedFree, AtOp
  <2>2. congested["dead"] => congested'["dead"]
    BY <1>1, <2>1 DEF ControlTypeOK, Flags, FreesDead
  <2> QED
    BY <2>1, <2>2, DropDead
<1>7. ASSUME NEW p \in SMs, NEW read, NEW stored, TornReset(p, read, stored)
      PROVE  DeadInv'
  <2>1. /\ UNCHANGED congested /\ program # <<>> /\ program' = Tail(program)
        /\ Head(program).op = "reset"
    BY <1>7 DEF TornReset, Registered, AtOp
  <2> QED
    BY <2>1, DropDead
<1> QED
  BY <1>2, <1>3, <1>4, <1>5, <1>6, <1>7 DEF UpdaterStep

\* Only the refresh starts a program that frees the dead list.
LEMMA UpdaterBeginKeepsDead ==
    ASSUME Configs = {InitConfig}, ControlTypeOK, DeadInv, UpdaterBegin
    PROVE  DeadInv'
<1> USE DEF entryVars, detectVars
<1>1. CASE ScheduleProbe \/ \E upgrade \in BOOLEAN : ApplyNewZoneState(upgrade)
  BY <1>1, SameProgramDead DEF ScheduleProbe, ApplyNewZoneState, updateVars
<1>2. ASSUME NEW state \in RefreshStates, Refresh(state)
      PROVE  DeadInv'
  <2> SUFFICES ASSUME Inactive' PROVE DeadInv'
    BY DEF DeadInv
  <2>1. state \in {"INACTIVE", "REPLAY"} /\ program' = RevalidateProgram[state]
    BY <1>2 DEF Refresh, RevalidateServer, Inactive
  <2>2. program' = <<Op("set", "dead", 0)>>
    BY <2>1 DEF RevalidateProgram
  <2>3. /\ \A i \in DOMAIN program' : ~FreesDead(program'[i])
        /\ 1 \in DOMAIN program' /\ program'[1].op = "set" /\ program'[1].kind = "dead"
    BY <2>2 DEF Op, FreesDead
  <2> QED
    BY <2>3 DEF DeadInv
<1>3. ASSUME UpdaterFree, UNCHANGED <<congested, last_state>>,
             program' \in {RevalidateProgram["DETECT_ALIVE"], RevalidateProgram["DETECT_DEAD"]}
      PROVE  DeadInv'
  <2>1. \A i \in DOMAIN program' : ~FreesDead(program'[i])
    BY <1>3 DEF RevalidateProgram, Op, FreesDead
  <2>2. Inactive => congested["dead"]
    BY <1>3 DEF DeadInv, UpdaterFree
  <2> QED
    BY <1>3, <2>1, <2>2 DEF DeadInv, Inactive
<1>4. CASE ProbeAlive
  BY <1>3, <1>4 DEF ProbeAlive, RevalidateServer
<1>5. CASE ProbeDead
  BY <1>3, <1>5, SameProgramDead DEF ProbeDead, RevalidateServer
<1>6. ASSUME NEW c \in Configs, ApplyNewConfig(c)
      PROVE  FALSE
  BY <1>6 DEF ApplyNewConfig, ControlTypeOK
<1> QED
  BY <1>1, <1>2, <1>4, <1>5, <1>6 DEF UpdaterBegin

(***************************************************************************)
(* With the control configuration left alone, a server the cluster reports *)
(* INACTIVE or REPLAY is on the dead list whenever the bucket mutex is     *)
(* free: neither completed transactions, nor failure reports of any kind,  *)
(* nor probe answers take it off.  (A changed configuration does: see      *)
(* the README's findings.)  The strengthening is DeadInv: it also says     *)
(* what the holder of the bucket mutex may have left to do.                *)
(***************************************************************************)
THEOREM DeadStaysListed ==
    ASSUME Configs = {InitConfig}
    PROVE  Spec => []DeadWhileInactive
<1>1. Init => DeadInv
  BY DEF Init, DeadInv, Inactive
<1>2. ControlTypeOK /\ DeadInv /\ [Next]_vars => DeadInv'
  <2> SUFFICES ASSUME ControlTypeOK, DeadInv, [Next]_vars
               PROVE  DeadInv'
    OBVIOUS
  <2>1. CASE Tick \/ UNCHANGED vars
    BY <2>1, SameProgramDead DEF Tick, vars, entryVars, updateVars
  <2> QED
    BY <2>1, SMStepKeepsDead, UpdaterStepKeepsDead, UpdaterBeginKeepsDead DEF Next
<1>3. DeadInv => DeadWhileInactive
  BY DEF DeadInv, DeadWhileInactive, UpdaterFree, Inactive
<1> QED
  BY <1>1, <1>2, <1>3, TypeCorrect, PTL DEF Spec

-----------------------------------------------------------------------------
(***************************************************************************)
(* The failure histories.                                                  *)
(***************************************************************************)

\* A record whose fields come from two histories is one.
LEMMA TornType ==
    ASSUME NEW h \in Histories, NEW window \in Nat, NEW fields
    PROVE  Torn(h, InitHistory(window), fields) \in Histories
<1>1. PICK g \in Histories : g = InitHistory(window)
  BY InitType
<1>2. DOMAIN g = {"start", "last_event", "cur_index", "events", "bins", "bin_len", "length"}
  BY <1>1 DEF InitHistory
<1>3. PICK r : r = Torn(h, g, fields)
  OBVIOUS
<1>4. r = [f \in {"start", "last_event", "cur_index", "events", "bins", "bin_len", "length"} |->
             IF f \in fields THEN h[f] ELSE g[f]]
  BY <1>2, <1>3 DEF Torn
<1>5. r = [start |-> r.start, last_event |-> r.last_event, cur_index |-> r.cur_index,
           events |-> r.events, bins |-> r.bins, bin_len |-> r.bin_len, length |-> r.length]
  BY <1>4
<1>6. /\ r.start \in {h.start, g.start} /\ r.last_event \in {h.last_event, g.last_event}
      /\ r.cur_index \in {h.cur_index, g.cur_index} /\ r.events \in {h.events, g.events}
      /\ r.bins \in {h.bins, g.bins} /\ r.bin_len \in {h.bin_len, g.bin_len} /\ r.length \in {h.length, g.length}
  BY <1>4
<1>7. /\ r.start \in Int /\ r.last_event \in Nat /\ r.cur_index \in BinIndex /\ r.events \in Int
      /\ r.bins \in [BinIndex -> 0 .. (BIN_MODULUS - 1)] /\ r.bin_len \in Nat \ {0} /\ r.length \in Nat \ {0}
  BY <1>6, Fields
<1> QED
  BY <1>1, <1>3, <1>5, <1>7 DEF Histories

\* The time stamps and the histories.
DataTypeOK ==
    /\ last_congested \in [Flags -> Nat]
    /\ fail_history \in [Hists -> Histories]

\* set_*_failed_at keeps them well formed.
LEMMA CallStepData ==
    ASSUME ControlTypeOK, DataTypeOK, NEW p \in Threads, CallStep(p)
    PROVE  DataTypeOK'
<1>1. call[p].kind \in Hists /\ call[p].time \in Nat
  BY DEF ControlTypeOK
<1>2. fail_history[call[p].kind] \in Histories
  BY <1>1 DEF DataTypeOK
<1>3. CASE LockHistory(p) \/ LoseEvent(p) \/ TestAndSet(p)
  BY <1>3 DEF LockHistory, LoseEvent, TestAndSet, DataTypeOK, entryVars
<1>4. CASE Register(p)
  <2>1. PICK h \in Histories : h = RegistEvent(fail_history[call[p].kind], call[p].time)
    BY <1>1, <1>2, RegistType
  <2>2. fail_history' = [fail_history EXCEPT ![call[p].kind] = h] /\ UNCHANGED last_congested
    BY <1>4, <2>1 DEF Register, Registered
  <2> QED
    BY <2>2 DEF DataTypeOK
<1>5. CASE Stamp(p)
  <2>1. fail_history[call[p].kind].last_event \in Nat
    BY <1>2, Fields
  <2> QED
    BY <1>5, <2>1 DEF Stamp, DataTypeOK
<1> QED
  BY <1>3, <1>4, <1>5 DEF CallStep

\* So does the holder of the bucket mutex, whose reset may run in the middle
\* of a report.
LEMMA UpdaterStepData ==
    ASSUME ControlTypeOK, DataTypeOK, UpdaterStep
    PROVE  DataTypeOK'
<1>1. Updater \in Threads
  BY DEF Threads
<1>2. config.fail_window_sec \in Nat
  BY EntryAssumption DEF ControlTypeOK, IsConfig
<1>3. CASE CallStep(Updater)
  BY <1>1, <1>3, CallStepData
<1>4. CASE CheckAndSetAlive \/ SetCongested \/ SetCongestedFree \/ RecheckThreshold
  BY <1>4 DEF CheckAndSetAlive, SetCongested, SetCongestedFree, RecheckThreshold, DataTypeOK, entryVars
<1>5. CASE StampCongested
  <2>1. now \in Nat
    BY SecondsNat DEF ControlTypeOK
  <2> QED
    BY <1>5, <2>1 DEF StampCongested, DataTypeOK
<1>6. CASE ResetFailHistory
  <2>1. PICK g \in Histories : g = InitHistory(config.fail_window_sec)
    BY <1>2, InitType
  <2> QED
    BY <1>6, <2>1 DEF ResetFailHistory, DataTypeOK
<1>7. ASSUME NEW p \in SMs, NEW read, NEW stored, TornReset(p, read, stored)
      PROVE  DataTypeOK'
  <2>1. PICK k \in Hists, t \in Nat : k = Head(program).kind /\ k = call[p].kind /\ t = call[p].time
    BY <1>7 DEF TornReset, ControlTypeOK, Threads
  <2>2. PICK seen \in Histories : seen = Torn(fail_history[k], InitHistory(config.fail_window_sec), read)
    BY <1>2, TornType DEF DataTypeOK
  <2>3. RegistEvent(seen, t) \in Histories
    BY RegistType
  <2>4. PICK h \in Histories : h = Torn(RegistEvent(seen, t), InitHistory(config.fail_window_sec), stored)
    BY <1>2, <2>3, TornType
  <2>5. Registered(p, h)
    BY <1>7, <2>1, <2>2, <2>4 DEF TornReset
  <2>6. fail_history' = [fail_history EXCEPT ![k] = h] /\ UNCHANGED last_congested
    BY <2>1, <2>5 DEF Registered
  <2> QED
    BY <2>6 DEF DataTypeOK
<1> QED
  BY <1>3, <1>4, <1>5, <1>6, <1>7 DEF UpdaterStep

(***************************************************************************)
(* The histories stay well formed as well, although reset_fail_history     *)
(* stores their fields without the lock while a report is registered: a    *)
(* report that ran on fields from two windows still leaves an index into   *)
(* the ring and counts in range.                                           *)
(***************************************************************************)
THEOREM HistoriesWellFormed == Spec => []TypeOK
<1>1. Init => DataTypeOK
  <2> SUFFICES ASSUME Init PROVE DataTypeOK
    OBVIOUS
  <2>1. InitConfig.fail_window_sec \in Nat
    BY EntryAssumption DEF IsConfig
  <2>2. PICK g \in Histories : g = InitHistory(InitConfig.fail_window_sec)
    BY <2>1, InitType
  <2> QED
    BY <2>2 DEF Init, DataTypeOK
<1>2. ControlTypeOK /\ DataTypeOK /\ [Next]_vars => DataTypeOK'
  <2> SUFFICES ASSUME ControlTypeOK, DataTypeOK, [Next]_vars
               PROVE  DataTypeOK'
    OBVIOUS
  <2>1. CASE UNCHANGED <<last_congested, fail_history>>
    BY <2>1 DEF DataTypeOK
  <2>2. ASSUME NEW s \in SMs, SMStep(s)
        PROVE  DataTypeOK'
    <3>1. CASE CallStep(s)
      BY <3>1, CallStepData DEF Threads
    <3>2. CASE ~CallStep(s)
      BY <2>1, <2>2, <3>2
         DEF SMStep, ReadDead, ReadAlive, Retry, Refuse, AskProbe, MysqlFail, MysqlDrop,
             MysqlComplete, ClientAbort, ReportAbort, ClientFeedback, RpcFail, RpcComplete,
             entryVars
    <3> QED
      BY <3>1, <3>2
  <2>3. CASE UpdaterBegin
    BY <2>1, <2>3 DEF UpdaterBegin, Refresh, ScheduleProbe, ProbeAlive, ProbeDead, ApplyNewConfig,
                      ApplyNewZoneState, entryVars
  <2>4. CASE Tick \/ UNCHANGED vars
    BY <2>1, <2>4 DEF Tick, vars, entryVars
  <2> QED
    BY <2>2, <2>3, <2>4, UpdaterStepData DEF Next
<1>3. ControlTypeOK /\ DataTypeOK => TypeOK
  BY DEF DataTypeOK, TypeOK
<1> QED
  BY <1>1, <1>2, <1>3, TypeCorrect, PTL DEF Spec

-----------------------------------------------------------------------------
(***************************************************************************)
(* Raised by reports.                                                      *)
(***************************************************************************)
\* Nothing pending clears a history.
NoReset == \A i \in DOMAIN program : program[i].op # "reset"

LEMMA StepNoReset ==
    ASSUME ControlTypeOK, NoReset, program # <<>>, NEW new \in Seq(Ops), program' = new \o Tail(program),
           \A i \in DOMAIN new : new[i].op # "reset"
    PROVE  NoReset'
<1>1. \A i \in DOMAIN program' : \/ \E j \in DOMAIN new : program'[i] = new[j]
                                 \/ \E j \in DOMAIN program : j # 1 /\ program'[i] = program[j]
  BY StepProgram
<1> QED
  BY <1>1 DEF NoReset

LEMMA DropNoReset ==
    ASSUME ControlTypeOK, NoReset, program # <<>>, program' = Tail(program)
    PROVE  NoReset'
<1>1. <<>> \in Seq(Ops) /\ program' = <<>> \o Tail(program) /\ DOMAIN <<>> = {}
  BY TailProgram
<1> QED
  BY <1>1, StepNoReset

\* The first instruction of the program.
LEMMA HeadOp ==
    ASSUME ControlTypeOK, program # <<>>
    PROVE  Head(program) = program[1] /\ 1 \in DOMAIN program /\ Head(program).kind \in Flags
<1>1. Head(program) \in Ops
  BY TailType DEF ControlTypeOK
<1>2. Head(program) = program[1] /\ 1 \in DOMAIN program
  BY DEF ControlTypeOK
<1> QED
  BY <1>1, <1>2 DEF Ops

\* An instruction in front of the rest.
LEMMA OpNoReset ==
    ASSUME ControlTypeOK, NoReset, program # <<>>, NEW o \in {"stamp", "free", "set"},
           program' = <<Op(o, Head(program).kind, 0)>> \o Tail(program)
    PROVE  NoReset'
<1>1. PICK x \in Ops : x = Op(o, Head(program).kind, 0) /\ x.op # "reset"
  BY HeadOp DEF Op, Ops
<1>2. PICK new : new = <<x>>
  OBVIOUS
<1>3. new \in Seq(Ops) /\ \A i \in DOMAIN new : new[i] = x
  BY <1>2
<1>4. program' = new \o Tail(program)
  BY <1>1, <1>2
<1> QED
  BY <1>1, <1>3, <1>4, StepNoReset

LEMMA NothingReset ==
    ASSUME ControlTypeOK, NoReset
    PROVE  ~ResetFailHistory /\ \A p, read, stored : ~TornReset(p, read, stored)
<1>1. ~AtOp("reset")
  BY HeadOp DEF NoReset, AtOp
<1>2. ~ResetFailHistory
  BY <1>1 DEF ResetFailHistory
<1>3. ASSUME NEW p, NEW read, NEW stored, TornReset(p, read, stored) PROVE FALSE
  BY <1>1, <1>3 DEF TornReset
<1> QED
  BY <1>2, <1>3

\* The Updater's programs do not clear a history,
LEMMA UpdaterStepNoReset ==
    ASSUME ControlTypeOK, NoReset, UpdaterStep
    PROVE  NoReset'
<1>4. CASE CallStep(Updater)
  BY <1>4 DEF CallStep, LockHistory, LoseEvent, Register, TestAndSet, Stamp, NoReset, updateVars
<1>5. CASE CheckAndSetAlive
  <2>1. program # <<>>
    BY <1>5 DEF CheckAndSetAlive, AtOp
  <2>2. \/ program' = FreeAll \o Tail(program) \/ program' = Demote \o Tail(program)
        \/ program' = Tail(program)
    BY <1>5 DEF CheckAndSetAlive
  <2>3. /\ FreeAll \in Seq(Ops) /\ \A i \in DOMAIN FreeAll : FreeAll[i].op # "reset"
        /\ Demote \in Seq(Ops) /\ \A i \in DOMAIN Demote : Demote[i].op # "reset"
    <3>1. FreeAll \in Seq(Ops) /\ Demote \in Seq(Ops)
      BY ProgramsType
    <3>2. \A i \in DOMAIN FreeAll : FreeAll[i].op # "reset"
      BY DEF FreeAll, Op
    <3>3. \A i \in DOMAIN Demote : Demote[i].op # "reset"
      BY DEF Demote, Op
    <3> QED
      BY <3>1, <3>2, <3>3
  <2> QED
    BY <2>1, <2>2, <2>3, StepNoReset, DropNoReset
<1>6. CASE SetCongested
  <2>1. /\ program # <<>>
        /\ program' = Tail(program) \/ program' = <<Op("stamp", Head(program).kind, 0)>> \o Tail(program)
    BY <1>6 DEF SetCongested, AtOp
  <2> QED
    BY <2>1, OpNoReset, DropNoReset
<1>7. CASE StampCongested \/ SetCongestedFree
  <2>1. program # <<>> /\ program' = Tail(program)
    BY <1>7 DEF StampCongested, SetCongestedFree, AtOp
  <2> QED
    BY <2>1, DropNoReset
<1>8. CASE RecheckThreshold
  <2>1. /\ program # <<>>
        /\ \/ program' = <<Op("free", Head(program).kind, 0)>> \o Tail(program)
           \/ program' = <<Op("set", Head(program).kind, 0)>> \o Tail(program)
           \/ program' = <<>> \o Tail(program)
    BY <1>8 DEF RecheckThreshold, AtOp
  <2>2. <<>> \in Seq(Ops) /\ DOMAIN <<>> = {}
    OBVIOUS
  <2> QED
    BY <2>1, <2>2, OpNoReset, StepNoReset
<1> QED
  BY <1>4, <1>5, <1>6, <1>7, <1>8, NothingReset DEF UpdaterStep

\* and with the configuration left alone no other starts.
LEMMA NextNoReset ==
    ASSUME Configs = {InitConfig}, ControlTypeOK, NoReset, [Next]_vars
    PROVE  NoReset'
<1>1. CASE UNCHANGED program
  BY <1>1 DEF NoReset
<1>2. CASE Tick \/ UNCHANGED vars
  BY <1>1, <1>2 DEF Tick, vars, updateVars
<1>3. ASSUME NEW s \in SMs, SMStep(s) PROVE NoReset'
  <2>1. CASE CallStep(s)
    BY <1>1, <2>1 DEF CallStep, LockHistory, LoseEvent, Register, TestAndSet, Stamp, updateVars
  <2>2. CASE ~CallStep(s)
    BY <1>1, <1>3, <2>2
       DEF SMStep, ReadDead, ReadAlive, Retry, Refuse, AskProbe, MysqlFail, MysqlDrop,
           MysqlComplete, ClientAbort, ReportAbort, ClientFeedback, RpcFail, RpcComplete, updateVars
  <2> QED
    BY <2>1, <2>2
<1>4. ASSUME NEW state \in ServerStates, NEW i \in DOMAIN RevalidateProgram[state]
      PROVE  RevalidateProgram[state][i].op # "reset"
  BY DEF RevalidateProgram, ServerStates, Op
<1>5. ASSUME NEW state \in ServerStates, RevalidateServer(state) PROVE NoReset'
  BY <1>4, <1>5 DEF RevalidateServer, NoReset
<1>6. ASSUME NEW c \in Configs, ApplyNewConfig(c) PROVE FALSE
  BY <1>6 DEF ApplyNewConfig, ControlTypeOK
<1>7. "DETECT_ALIVE" \in ServerStates /\ "DETECT_DEAD" \in ServerStates /\ RefreshStates \subseteq ServerStates
  BY EntryAssumption DEF ServerStates
<1>8. CASE \E state \in RefreshStates : Refresh(state)
  BY <1>5, <1>7, <1>8 DEF Refresh
<1>9. CASE ScheduleProbe \/ \E upgrade \in BOOLEAN : ApplyNewZoneState(upgrade)
  BY <1>1, <1>9 DEF ScheduleProbe, ApplyNewZoneState, updateVars
<1>10. CASE ProbeAlive \/ ProbeDead
  BY <1>1, <1>5, <1>7, <1>10 DEF ProbeAlive, ProbeDead
<1>11. CASE UpdaterBegin
  BY <1>6, <1>8, <1>9, <1>10, <1>11 DEF UpdaterBegin
<1> QED
  BY <1>2, <1>3, <1>11, UpdaterStepNoReset DEF Next

\* What a step that registers no report does to a call: nothing, or it begins
\* at the present second, or takes the lock, raises the flag or ends.
Moves(q) ==
    \/ call'[q] = call[q]
    \/ call[q].at = "none" /\ call'[q].at = "try_lock" /\ call'[q].time = now
    \/ /\ call[q].at = "try_lock" /\ call'[q].at = "register"
       /\ call'[q].time = call[q].time
    \/ /\ call[q].at = "test_and_set" /\ call'[q].at = "stamp"
       /\ call'[q].time = call[q].time
    \/ call[q].at # "register" /\ call'[q].at = "none"

LEMMA BeginMoves ==
    ASSUME ControlTypeOK, NEW p \in Threads, NEW k \in Hists, call[p].at = "none",
           call' = call \/ call' = SetFailedAt(p, k)
    PROVE  \A q \in Threads : Moves(q)
<1>1. CASE call' = call
  BY <1>1 DEF Moves
<1>2. CASE call' = [call EXCEPT ![p] = [at |-> "try_lock", kind |-> k, time |-> now]]
  <2>1. ASSUME NEW q \in Threads PROVE Moves(q)
    <3>1. CASE q = p
      BY <1>2, <3>1 DEF Moves, ControlTypeOK
    <3>2. CASE q # p
      BY <1>2, <3>2 DEF Moves, ControlTypeOK
    <3> QED
      BY <3>1, <3>2
  <2> QED
    BY <2>1
<1> QED
  BY <1>1, <1>2 DEF SetFailedAt

LEMMA AtMoves ==
    ASSUME ControlTypeOK, NEW p \in Threads, NEW from, NEW to, call[p].at = from,
           (from = "try_lock" /\ to = "register") \/ (from = "test_and_set" /\ to = "stamp"),
           call' = [call EXCEPT ![p].at = to]
    PROVE  \A q \in Threads : Moves(q)
<1>1. ASSUME NEW q \in Threads PROVE Moves(q)
  <2>1. CASE q = p
    <3>1. call'[q].at = to /\ call'[q].time = call[q].time
      BY <2>1 DEF ControlTypeOK
    <3> QED
      BY <2>1, <3>1 DEF Moves
  <2>2. CASE q # p
    BY <2>2 DEF Moves, ControlTypeOK
  <2> QED
    BY <2>1, <2>2
<1> QED
  BY <1>1

LEMMA ReturnMoves ==
    ASSUME ControlTypeOK, NEW p \in Threads, call[p].at # "register", Return(p)
    PROVE  \A q \in Threads : Moves(q)
<1>1. ASSUME NEW q \in Threads PROVE Moves(q)
  <2>1. CASE q = p
    BY <2>1 DEF Moves, ControlTypeOK, Return, NoCall
  <2>2. CASE q # p
    BY <2>2 DEF Moves, ControlTypeOK, Return
  <2> QED
    BY <2>1, <2>2
<1> QED
  BY <1>1

LEMMA CallStepMoves ==
    ASSUME ControlTypeOK, NEW p \in Threads, CallStep(p), ~Register(p)
    PROVE  UNCHANGED fail_history /\ \A q \in Threads : Moves(q)
<1>1. CASE LockHistory(p)
  <2>1. call[p].at = "try_lock" /\ call' = [call EXCEPT ![p].at = "register"] /\ UNCHANGED fail_history
    BY <1>1 DEF LockHistory
  <2> QED
    BY <2>1, AtMoves
<1>2. CASE LoseEvent(p)
  BY <1>2, ReturnMoves DEF LoseEvent, entryVars
<1>3. CASE TestAndSet(p)
  <2>1. /\ call[p].at = "test_and_set" /\ UNCHANGED fail_history
        /\ Return(p) \/ call' = [call EXCEPT ![p].at = "stamp"]
    BY <1>3 DEF TestAndSet
  <2> QED
    BY <2>1, AtMoves, ReturnMoves
<1>4. CASE Stamp(p)
  BY <1>4, ReturnMoves DEF Stamp
<1> QED
  BY <1>1, <1>2, <1>3, <1>4 DEF CallStep

\* Only regist_event changes a history.
LEMMA NextMoves ==
    ASSUME ControlTypeOK, NoReset, [Next]_vars, \A p \in Threads : ~Register(p)
    PROVE  UNCHANGED fail_history /\ \A q \in Threads : Moves(q)
<1>1. CASE UNCHANGED <<call, fail_history>>
  BY <1>1 DEF Moves
<1> "alive" \in Hists /\ "dead" \in Hists /\ "client_feedback" \in Hists
  BY DEF Hists
<1>2. ASSUME NEW s \in SMs, SMStep(s)
      PROVE  UNCHANGED fail_history /\ \A q \in Threads : Moves(q)
  <2> s \in Threads
    BY DEF Threads
  <2>1. CASE CallStep(s)
    BY <2>1, CallStepMoves
  <2>2. CASE \E k \in Hists : /\ call[s].at = "none" /\ UNCHANGED fail_history
                              /\ (call' = call \/ call' = SetFailedAt(s, k))
    BY <2>2, BeginMoves
  <2> QED
    BY <1>2, <2>1, <2>2
       DEF SMStep, ReadDead, ReadAlive, Retry, Refuse, AskProbe, MysqlFail, MysqlDrop,
           MysqlComplete, ClientAbort, ReportAbort, ClientFeedback, RpcFail, RpcComplete, At,
           entryVars
<1>3. CASE UpdaterStep
  <2> Updater \in Threads
    BY DEF Threads
  <2>1. CASE CallStep(Updater)
    BY <2>1, CallStepMoves
  <2>2. CASE CheckAndSetAlive
    BY <2>2, BeginMoves DEF CheckAndSetAlive, AtOp, entryVars
  <2>3. CASE \/ SetCongested \/ StampCongested \/ SetCongestedFree \/ RecheckThreshold
    BY <1>1, <2>3 DEF SetCongested, StampCongested, SetCongestedFree, RecheckThreshold, entryVars
  <2> QED
    BY <1>3, <2>1, <2>2, <2>3, NothingReset DEF UpdaterStep
<1>4. CASE UpdaterBegin
  BY <1>1, <1>4 DEF UpdaterBegin, Refresh, ScheduleProbe, ProbeAlive, ProbeDead, ApplyNewConfig,
                    ApplyNewZoneState, entryVars
<1>5. CASE Tick \/ UNCHANGED vars
  BY <1>1, <1>5 DEF Tick, vars, entryVars
<1> QED
  BY <1>2, <1>3, <1>4, <1>5 DEF Next

\* What registering a report does to the calls and the histories.
LEMMA RegisterMoves ==
    ASSUME ControlTypeOK, NEW p \in Threads, Register(p)
    PROVE  /\ call[p].at = "register"
           /\ fail_history' = [fail_history EXCEPT ![call[p].kind] =
                                 RegistEvent(fail_history[call[p].kind], call[p].time)]
           /\ \A q \in Threads : q # p => call'[q] = call[q]
           /\ \/ call'[p].at = "none"
              \/ /\ call'[p].at = "test_and_set" /\ call'[p].kind = call[p].kind /\ call'[p].time = call[p].time
                 /\ Threshold(call[p].kind) <= RegistEvent(fail_history[call[p].kind], call[p].time).events
<1>1. PICK h : h = RegistEvent(fail_history[call[p].kind], call[p].time)
  OBVIOUS
<1>2. call[p].at = "register" /\ Registered(p, h)
  BY <1>1 DEF Register
<1>3. fail_history' = [fail_history EXCEPT ![call[p].kind] = h]
  BY <1>2 DEF Registered
<1>4. CASE Return(p)
  <2>1. call'[p].at = "none" /\ \A q \in Threads : q # p => call'[q] = call[q]
    BY <1>4 DEF Return, NoCall, ControlTypeOK
  <2> QED
    BY <1>1, <1>2, <1>3, <2>1
<1>5. CASE ~Return(p)
  <2>1. call' = [call EXCEPT ![p].at = "test_and_set"] /\ Threshold(call[p].kind) <= h.events
    BY <1>2, <1>5 DEF Registered
  <2>2. /\ call'[p].at = "test_and_set" /\ call'[p].kind = call[p].kind /\ call'[p].time = call[p].time
        /\ \A q \in Threads : q # p => call'[q] = call[q]
    BY <2>1 DEF ControlTypeOK
  <2> QED
    BY <1>1, <1>2, <1>3, <2>1, <2>2
<1> QED
  BY <1>4, <1>5

\* A call carries a second of the clock.
CallTimes == \A p \in Threads : call[p].at # "none" => call[p].time \in Seconds

LEMMA NextCallTimes ==
    ASSUME ControlTypeOK, NoReset, CallTimes, [Next]_vars
    PROVE  CallTimes'
<1>1. ASSUME NEW q \in Threads, call'[q].at # "none" PROVE call'[q].time \in Seconds
  <2>1. CASE \E p \in Threads : Register(p)
    <3>1. PICK p \in Threads : Register(p)
      BY <2>1
    <3>2. call[p].at = "register"
      BY <3>1, RegisterMoves
    <3>3. \/ call'[q] = call[q]
          \/ q = p /\ call'[p].time = call[p].time
      BY <1>1, <3>1, RegisterMoves
    <3> QED
      BY <1>1, <3>2, <3>3 DEF CallTimes
  <2>2. CASE \A p \in Threads : ~Register(p)
    <3>1. Moves(q)
      BY <2>2, NextMoves
    <3>2. now \in Seconds
      BY DEF ControlTypeOK
    <3> QED
      BY <1>1, <3>1, <3>2 DEF CallTimes, Moves
  <2> QED
    BY <2>1, <2>2
<1>2. Seconds' = Seconds /\ Threads' = Threads
  BY DEF Seconds, Threads, SMs
<1> QED
  BY <1>1, <1>2 DEF CallTimes

\* The seconds are finitely many.
LEMMA SecondsFinite == IsFiniteSet(Seconds) /\ \A s \in Seconds : s \in Nat
<1>1. IsFiniteSet(Epoch .. MaxTime)
  BY EntryAssumption, FS_Interval
<1> QED
  BY <1>1, SecondsNat DEF Seconds

\* What was reported has been registered in time.
Account ==
    /\ reported \in [Hists -> [Seconds -> Nat]]
    /\ \A k \in Hists : WindowInv(fail_history[k], reported[k])

\* A step that registers nothing adds nothing to the account,
LEMMA ObserveNone ==
    ASSUME reported \in [Hists -> [Seconds -> Nat]], Observe, Registering = {}
    PROVE  reported' = reported
<1>1. ASSUME NEW k \in Hists, NEW t \in Seconds PROVE reported'[k][t] = reported[k][t]
  <2>1. {p \in Registering : call[p].kind = k /\ call[p].time = t} = {}
    OBVIOUS
  <2>2. Cardinality({p \in Registering : call[p].kind = k /\ call[p].time = t}) = 0
    BY <2>1, FS_EmptySet
  <2>3. reported[k][t] \in Nat
    OBVIOUS
  <2>4. reported'[k][t] = reported[k][t] + Cardinality({p \in Registering : call[p].kind = k /\ call[p].time = t})
    BY DEF Observe
  <2> QED
    BY <2>2, <2>3, <2>4
<1>2. \A k \in Hists : reported'[k] = [t \in Seconds |-> reported'[k][t]]
  BY DEF Observe
<1>3. \A k \in Hists : reported'[k] = reported[k]
  BY <1>1, <1>2
<1>4. reported' = [k \in Hists |-> reported'[k]]
  BY DEF Observe
<1> QED
  BY <1>3, <1>4

\* and one report adds one to its kind and second.
LEMMA ObserveOne ==
    ASSUME reported \in [Hists -> [Seconds -> Nat]], Observe, NEW p \in Threads, Registering = {p},
           call[p].kind \in Hists, call[p].time \in Seconds
    PROVE  /\ reported' \in [Hists -> [Seconds -> Nat]]
           /\ reported'[call[p].kind] = More(reported[call[p].kind], call[p].time)
           /\ \A k \in Hists : k # call[p].kind => reported'[k] = reported[k]
<1>1. ASSUME NEW k \in Hists, NEW t \in Seconds
      PROVE  /\ k = call[p].kind /\ t = call[p].time => reported'[k][t] = reported[k][t] + 1
             /\ ~(k = call[p].kind /\ t = call[p].time) => reported'[k][t] = reported[k][t]
  <2> DEFINE N == {q \in Registering : call[q].kind = k /\ call[q].time = t}
  <2>1. reported'[k][t] = reported[k][t] + Cardinality(N)
    BY DEF Observe
  <2>2. CASE k = call[p].kind /\ t = call[p].time
    <3>1. N = {p}
      BY <2>2
    <3>2. Cardinality(N) = 1
      BY <3>1, FS_Singleton
    <3> QED
      BY <2>1, <2>2, <3>2
  <2>3. CASE ~(k = call[p].kind /\ t = call[p].time)
    <3>1. N = {}
      BY <2>3
    <3>2. Cardinality(N) = 0
      BY <3>1, FS_EmptySet
    <3>3. reported[k][t] \in Nat
      OBVIOUS
    <3> HIDE DEF N
    <3> QED
      BY <2>1, <2>3, <3>2, <3>3
  <2> QED
    BY <2>2, <2>3
<1>2. \A k \in Hists : reported'[k] = [t \in Seconds |-> reported'[k][t]]
  BY DEF Observe
<1>3. reported' = [k \in Hists |-> reported'[k]]
  BY DEF Observe
<1>4. \A k \in Hists : \A t \in Seconds : reported'[k][t] \in Nat
  BY <1>1
<1>5. reported' \in [Hists -> [Seconds -> Nat]]
  BY <1>2, <1>3, <1>4
<1>6. ASSUME NEW k \in Hists, k # call[p].kind PROVE reported'[k] = reported[k]
  <2>1. reported[k] \in [Seconds -> Nat] /\ \A t \in Seconds : reported'[k][t] = reported[k][t]
    BY <1>1, <1>6
  <2>2. reported'[k] = [t \in Seconds |-> reported'[k][t]]
    BY <1>2
  <2> QED
    BY <2>1, <2>2
<1>7. reported'[call[p].kind] = More(reported[call[p].kind], call[p].time)
  <2>1. PICK k \in Hists, s \in Seconds : k = call[p].kind /\ s = call[p].time
    OBVIOUS
  <2>2. reported'[k] = [t \in Seconds |-> IF t = s THEN reported[k][t] + 1 ELSE reported[k][t]]
    BY <1>1, <1>2, <2>1
  <2>3. reported[k] \in [Seconds -> Nat]
    OBVIOUS
  <2> QED
    BY <2>1, <2>2, <2>3 DEF More
<1> QED
  BY <1>5, <1>6, <1>7

\* A report about to raise the flag has seen the threshold reached.
Reached ==
    \A p \in Threads : call[p].at = "test_and_set" =>
        Threshold(call[p].kind) <= fail_history[call[p].kind].events

TimesInv == ControlTypeOK /\ DataTypeOK /\ HistoryLockHeld /\ NoReset /\ CallTimes /\ Account /\ Reached

\* A step that registers no report.
LEMMA QuietStep ==
    ASSUME TimesInv, UNCHANGED config, [Next]_vars, Observe, \A p \in Threads : ~Register(p)
    PROVE  Account' /\ Reached'
<1>1. UNCHANGED fail_history /\ \A q \in Threads : Moves(q)
  BY NextMoves DEF TimesInv
<1>2. Registering = {}
  BY <1>1 DEF Registering, Moves
<1>3. UNCHANGED reported
  BY <1>2, ObserveNone DEF TimesInv, Account
<1>4. Account'
  BY <1>1, <1>3 DEF TimesInv, Account, Seconds
<1>5. Reached'
  <2>1. ASSUME NEW q \in Threads, call'[q].at = "test_and_set"
        PROVE  Threshold(call[q].kind) <= fail_history[call[q].kind].events /\ call'[q] = call[q]
    BY <1>1, <2>1 DEF Moves, TimesInv, Reached
  <2>2. \A k : Threshold(k)' = Threshold(k)
    BY DEF Threshold
  <2> QED
    BY <1>1, <2>1, <2>2 DEF Reached, Threshold
<1> QED
  BY <1>4, <1>5

\* A step that registers one: nobody else is inside the locked part.
LEMMA RegisterStep ==
    ASSUME TimesInv, UNCHANGED config, Observe, NEW p \in Threads, Register(p)
    PROVE  Account' /\ Reached'
<1>1. PICK k \in Hists, t \in Seconds : k = call[p].kind /\ t = call[p].time
  <2>1. call[p].at = "register"
    BY RegisterMoves DEF TimesInv
  <2>2. call[p].time \in Seconds
    BY <2>1 DEF TimesInv, CallTimes
  <2>3. call[p].kind \in Hists
    BY DEF TimesInv, ControlTypeOK
  <2> QED
    BY <2>2, <2>3
<1>2. PICK h : h = RegistEvent(fail_history[k], t)
  OBVIOUS
<1>3. /\ call[p].at = "register" /\ fail_history' = [fail_history EXCEPT ![k] = h]
      /\ \A q \in Threads : q # p => call'[q] = call[q]
      /\ \/ call'[p].at = "none"
         \/ call'[p].at = "test_and_set" /\ call'[p].kind = k /\ Threshold(k) <= h.events
  BY <1>1, <1>2, RegisterMoves DEF TimesInv
<1>4. Registering = {p}
  BY <1>3 DEF Registering
<1>5. /\ reported' \in [Hists -> [Seconds -> Nat]] /\ reported'[k] = More(reported[k], t)
      /\ \A j \in Hists : j # k => reported'[j] = reported[j]
  BY <1>1, <1>4, ObserveOne DEF TimesInv, Account
<1>6. fail_history'[k] = h /\ \A j \in Hists : j # k => fail_history'[j] = fail_history[j]
  BY <1>3 DEF TimesInv, DataTypeOK
<1>7. Account'
  <2>0. PICK g : g = fail_history[k]
    OBVIOUS
  <2>1. PICK rep \in [Seconds -> Nat] : rep = reported[k] /\ g = fail_history[k] /\ WindowInv(g, rep)
    BY <2>0 DEF TimesInv, Account
  <2>2. WindowInv(RegistEvent(g, t), More(rep, t))
    BY <2>1, SecondsFinite, RegistKeepsWindow
  <2>3. \A j \in Hists : WindowInv(fail_history'[j], reported'[j])
    BY <1>2, <1>5, <1>6, <2>1, <2>2 DEF TimesInv, Account
  <2> QED
    BY <1>5, <2>3 DEF Account, Seconds
<1>8. Reached'
  <2>1. ASSUME NEW q \in Threads, call'[q].at = "test_and_set"
        PROVE  q = p
    BY <1>3, <2>1 DEF TimesInv, HistoryLockHeld
  <2>2. ASSUME NEW q \in Threads, call'[q].at = "test_and_set"
        PROVE  call'[q].kind = k /\ Threshold(k) <= fail_history'[k].events
    BY <1>3, <1>6, <2>1, <2>2
  <2>3. ASSUME NEW q \in Threads, call'[q].at = "test_and_set"
        PROVE  Threshold(call[q].kind)' <= fail_history'[call'[q].kind].events
    BY <2>2, <2>3 DEF Threshold
  <2> QED
    BY <2>3 DEF Reached
<1> QED
  BY <1>7, <1>8

\* A bin holds what is reported within its time: fewer reports than its
\* uint16_t can count.
NoBinOverflow == \A k \in Hists : ~Overflow(reported[k], fail_history[k].bin_len)

\* The running total counts nothing but reports of one window.
LEMMA EventsAreReports ==
    ASSUME TimesInv, NoBinOverflow, NEW k \in Hists
    PROVE  /\ fail_history[k].events \in Int
           /\ ReportsBetween(k, fail_history[k].last_event - fail_history[k].length, fail_history[k].last_event) \in Nat
           /\ fail_history[k].events
                <= ReportsBetween(k, fail_history[k].last_event - fail_history[k].length, fail_history[k].last_event)
<1>0. PICK h : h = fail_history[k]
  OBVIOUS
<1>1. PICK rep \in [Seconds -> Nat] : rep = reported[k] /\ h = fail_history[k] /\ WindowInv(h, rep)
  BY <1>0 DEF TimesInv, Account
<1>2. h \in Histories /\ h.start <= h.last_event /\ h.last_event <= h.start + h.length /\ Latest(h, rep)
  BY <1>1 DEF WindowInv, Fits
<1>3. h.start \in Int /\ h.last_event \in Nat /\ h.length \in Nat /\ h.events \in Int
  BY <1>2, Fields
<1>4. PICK a \in Int, b \in Int : a = h.last_event - h.length /\ b = h.last_event /\ a <= h.start
  BY <1>2, <1>3
<1>5. IsFiniteSet(Seconds) /\ (\A s \in Seconds : s \in Int) /\ DOMAIN rep = Seconds
  BY SecondsFinite
<1>6. h.events <= Since(rep, a)
  <2>1. ~Overflow(rep, h.bin_len)
    BY <1>1 DEF NoBinOverflow
  <2> QED
    BY <1>1, <1>4, <1>5, <2>1, WindowCounts
<1>7. Since(rep, a) = Within(rep, a, b)
  <2>1. \A s \in Seconds : rep[s] # 0 => s <= b
    BY <1>2, <1>4, <1>5 DEF Latest
  <2> QED
    BY <1>5, <2>1, SinceWithin
<1>8. Within(rep, a, b) = ReportsBetween(k, a, b)
  BY <1>1, <1>5 DEF Within, ReportsBetween
<1>9. Within(rep, a, b) \in Nat
  BY <1>5, WithinNat
<1> QED
  BY <1>1, <1>3, <1>4, <1>6, <1>7, <1>8, <1>9

(***************************************************************************)
(* With the control configuration left alone and no bin counting past its  *)
(* uint16_t, a report raises a flag only when at least the threshold of    *)
(* failures was reported inside one window, for any number of connections  *)
(* reporting at once and whatever their delays.  The strengthening keeps   *)
(* for each kind the account of regist_event (WindowInv) of what has been  *)
(* reported so far, and remembers that the threshold was reached when the  *)
(* thread went on to raise the flag: the lock keeps the total as it was.   *)
(***************************************************************************)
THEOREM RaisedOnlyByReports ==
    ASSUME Configs = {InitConfig}
    PROVE  TimesSpec /\ []NoBinOverflow => RaisedByReports
<1>1. Init /\ reported = [k \in Hists |-> [t \in Seconds |-> 0]] => NoReset /\ CallTimes /\ Account /\ Reached
  <2> SUFFICES ASSUME Init, reported = [k \in Hists |-> [t \in Seconds |-> 0]]
               PROVE  NoReset /\ CallTimes /\ Account /\ Reached
    OBVIOUS
  <2>1. NoReset /\ CallTimes /\ Reached
    BY DEF Init, NoReset, CallTimes, Reached, NoCall
  <2>2. PICK window \in Nat : window = InitConfig.fail_window_sec
    BY EntryAssumption DEF IsConfig
  <2>3. ASSUME NEW k \in Hists PROVE WindowInv(fail_history[k], reported[k])
    <3>1. PICK rep \in [Seconds -> Nat] : rep = reported[k] /\ \A s \in Seconds : rep[s] = 0
      OBVIOUS
    <3>2. WindowInv(InitHistory(window), rep)
      BY <3>1, SecondsFinite, InitWindow
    <3>3. fail_history[k] = InitHistory(window)
      BY <2>2 DEF Init
    <3> QED
      BY <3>1, <3>2, <3>3
  <2>4. reported \in [Hists -> [Seconds -> Nat]]
    OBVIOUS
  <2> QED
    BY <2>1, <2>3, <2>4 DEF Account
<1>2. TypeOK /\ HistoryLockHeld /\ NoReset /\ CallTimes /\ Account /\ Reached => TimesInv
  BY DEF TypeOK, DataTypeOK, TimesInv
<1>3. TimesInv /\ TypeOK' /\ [Next /\ Observe]_<<vars, reported>> => (NoReset /\ CallTimes /\ Account /\ Reached)'
  <2> SUFFICES ASSUME TimesInv, TypeOK', [Next /\ Observe]_<<vars, reported>>
               PROVE  (NoReset /\ CallTimes /\ Account /\ Reached)'
    OBVIOUS
  <2>1. [Next]_vars /\ (Observe \/ UNCHANGED <<vars, reported>>)
    OBVIOUS
  <2>2. NoReset' /\ CallTimes'
    BY <2>1, NextNoReset, NextCallTimes DEF TimesInv
  <2>3. UNCHANGED config
    BY DEF TimesInv, TypeOK, ControlTypeOK
  <2>4. CASE Observe
    BY <2>1, <2>2, <2>3, <2>4, QuietStep, RegisterStep
  <2>5. CASE UNCHANGED <<vars, reported>>
    <3>1. Account'
      BY <2>5 DEF TimesInv, Account, vars, entryVars, Seconds
    <3>2. Reached'
      BY <2>5 DEF TimesInv, Reached, vars, entryVars, updateVars, Threshold
    <3> QED
      BY <2>2, <3>1, <3>2
  <2> QED
    BY <2>1, <2>4, <2>5
<1>4. TimesInv /\ NoBinOverflow =>
        \A p \in Threads :
          LET k == call[p].kind
              h == fail_history[k]
          IN  (call[p].at = "test_and_set" /\ ~congested[k] /\ congested'[k])
              => ReportsBetween(k, h.last_event - h.length, h.last_event) >= Threshold(k)
  <2> SUFFICES ASSUME TimesInv, NoBinOverflow, NEW p \in Threads, call[p].at = "test_and_set"
               PROVE  LET k == call[p].kind
                          h == fail_history[k]
                      IN  ReportsBetween(k, h.last_event - h.length, h.last_event) >= Threshold(k)
    OBVIOUS
  <2>0. PICK k \in Hists : k = call[p].kind
    BY DEF TimesInv, ControlTypeOK
  <2>1. PICK h : k = call[p].kind /\ h = fail_history[k]
    BY <2>0
  <2>2. PICK n \in Int : n = Threshold(k)
    BY EntryAssumption DEF Threshold, TimesInv, ControlTypeOK, IsConfig
  <2>3. n <= h.events
    BY <2>1, <2>2 DEF TimesInv, Reached
  <2>4. PICK m \in Nat : m = ReportsBetween(k, h.last_event - h.length, h.last_event) /\ h.events <= m /\ h.events \in Int
    BY <2>1, EventsAreReports
  <2>5. m >= n
    BY <2>2, <2>3, <2>4
  <2> QED
    BY <2>1, <2>2, <2>4, <2>5
<1>5. [Next /\ Observe]_<<vars, reported>> => [Next]_vars
  OBVIOUS
<1>6. TimesSpec => Spec
  BY <1>5, PTL DEF TimesSpec, Spec
<1>7. TimesSpec => [](TypeOK /\ HistoryLockHeld)
  BY <1>6, HistoriesWellFormed, HistoryLockSafe, PTL
<1>8. TimesSpec => []TimesInv
  BY <1>1, <1>2, <1>3, <1>7, PTL DEF TimesSpec
<1> QED
  BY <1>4, <1>8, PTL DEF RaisedByReports
=============================================================================
