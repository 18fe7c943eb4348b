---------------------------- MODULE CongestionEntry ----------------------------
(***************************************************************************)
(* ObCongestionEntry: the blacklist entry of one server and everybody who  *)
(* touches it.                                                             *)
(*                                                                         *)
(*   state machines   one per connection.  They ask the entry whether the  *)
(*                    server may be used, report failures to it and, when  *)
(*                    a MySQL transaction completes, take the server off   *)
(*                    the alive list.  They hold no lock but the history   *)
(*                    lock, which they only try.                           *)
(*   Updater          whoever holds the bucket mutex: the server-state     *)
(*                    refresh, the detection probe or a configuration      *)
(*                    change.  There is one at a time.                     *)
(*                                                                         *)
(* A step is one access to shared memory.  set_*_failed_at is a call that  *)
(* a state machine or the Updater is inside of (variable call); the other  *)
(* set_* calls of the Updater are the instructions of a short program.     *)
(***************************************************************************)
EXTENDS FailWindow, Sequences

CONSTANTS
    MysqlSMs,            \* ObMysqlSM instances
    RpcSMs,              \* ObRpcRequestSM instances
    Updater,             \* the thread that holds the bucket mutex
    NoThread,            \* nobody holds fail_hist_lock_
    InitConfig,          \* the control configuration at the start
    Configs,             \* the configurations an operator may install
    RefreshStates,       \* the server states the refresh may report
    DetectMode,          \* server_detect_mode # 0
    DetectFailThreshold, \* server_detect_fail_threshold
    Epoch,               \* the clock at the start
    FailUntil,           \* the last second of failures, aborts and changes
    MaxTime,             \* bound on the clock
    MaxLag,              \* bound on the seconds a thread spends in one call
    MaxProbes,           \* bound on the probes in flight
    MaxFaults            \* bound on failures, aborts, state and config changes

SMs == MysqlSMs \cup RpcSMs
Threads == SMs \cup {Updater}

\* What an entry is blacklisted for, and the counts that lead to it.
Flags == {"dead", "alive", "detect", "client_feedback"}
Hists == {"dead", "alive", "client_feedback"}

ServerStates == {"ACTIVE", "INACTIVE", "ACTIVE_CONGESTED", "DELETING", "UPGRADE",
                 "REPLAY", "DETECT_ALIVE", "DETECT_DEAD"}

IsConfig(c) ==
    /\ DOMAIN c = {"conn_failure_threshold", "alive_failure_threshold",
                   "fail_window_sec", "retry_interval_sec",
                   "min_keep_congestion_interval_sec"}
    /\ c.conn_failure_threshold \in Int /\ c.alive_failure_threshold \in Int
    /\ c.fail_window_sec \in Nat
    /\ c.retry_interval_sec \in Nat /\ c.min_keep_congestion_interval_sec \in Nat

ASSUME EntryAssumption ==
    /\ MysqlSMs \cap RpcSMs = {}
    /\ Updater \notin SMs
    /\ NoThread \notin Threads
    /\ InitConfig \in Configs
    /\ \A c \in Configs : IsConfig(c)
    /\ RefreshStates \subseteq ServerStates \ {"DETECT_ALIVE", "DETECT_DEAD"}
    /\ DetectMode \in BOOLEAN
    /\ DetectFailThreshold \in Nat \ {0}
    /\ Epoch \in Nat /\ FailUntil \in Nat /\ MaxTime \in Nat
    /\ MaxLag \in Nat \ {0} /\ MaxProbes \in Nat /\ MaxFaults \in Nat
    /\ Epoch <= MaxTime

VARIABLES
    now,             \* the clock, in seconds
    config,          \* *control_config_
    server_state,    \* server_state_
    zone_upgrading,  \* zone_state_->state_ = UPGRADE
    congested,       \* dead_congested_, alive_congested_, ...
    last_congested,  \* last_dead_congested_, last_alive_congested_, ...
    fail_history,    \* conn_fail_history_, alive_fail_history_, ...
    fail_hist_lock,  \* the holder of fail_hist_lock_
    call,            \* the set_*_failed_at call each thread is inside of
    sm,              \* the connections
    program,         \* what the Updater still has to do
    last_state,      \* the state the refresh reported in its last round
    ip_set,          \* the server is in ip_set_
    alive_addr_set,  \* the server is in alive_addr_set_
    detect_fail_cnt, \* failed probes in a row
    probes,          \* probes that have not been answered yet
    faults           \* how much of MaxFaults is used

entryVars  == <<congested, last_congested, fail_history, fail_hist_lock>>
updateVars == <<config, server_state, zone_upgrading, program, last_state>>
detectVars == <<ip_set, alive_addr_set, detect_fail_cnt, probes>>
vars == <<now, entryVars, call, sm, updateVars, detectVars, faults>>

Seconds == Epoch .. MaxTime

Threshold(k) ==
    IF k = "dead" THEN config.conn_failure_threshold ELSE config.alive_failure_threshold

NoCall == [at |-> "none", kind |-> "alive", time |-> 0]
IdleSM == [pc |-> "idle", updated |-> FALSE, force |-> FALSE, detect |-> FALSE]
Op(o, k, old) == [op |-> o, kind |-> k, old |-> old]

\* The entry as add_new_server makes it for an ACTIVE server.
Init ==
    /\ now = Epoch
    /\ config = InitConfig
    /\ server_state = "ACTIVE"
    /\ zone_upgrading = FALSE
    /\ congested = [f \in Flags |-> FALSE]
    /\ last_congested = [f \in Flags |-> 0]
    /\ fail_history = [k \in Hists |-> InitHistory(InitConfig.fail_window_sec)]
    /\ fail_hist_lock = NoThread
    /\ call = [p \in Threads |-> NoCall]
    /\ sm = [s \in SMs |-> IdleSM]
    /\ program = <<>>
    /\ last_state = "ACTIVE"
    /\ ip_set = FALSE /\ alive_addr_set = FALSE /\ detect_fail_cnt = 0 /\ probes = 0
    /\ faults = 0

\* The clock, while no thread is stuck inside a call.
Tick ==
    /\ now < MaxTime
    /\ \A p \in Threads : call[p].at # "none" => now < call[p].time + MaxLag
    /\ now' = now + 1
    /\ UNCHANGED <<entryVars, call, sm, updateVars, detectVars, faults>>

\* One more thing goes wrong, or is changed, from outside.
Fault ==
    /\ now <= FailUntil
    /\ faults < MaxFaults
    /\ faults' = faults + 1

-----------------------------------------------------------------------------
(***************************************************************************)
(* set_dead_failed_at, set_alive_failed_at, set_client_feedback_failed_at: *)
(* the same code over three histories.  The time is read by the caller.    *)
(***************************************************************************)
SetFailedAt(p, k) ==
    IF Threshold(k) >= 0
    THEN [call EXCEPT ![p] = [at |-> "try_lock", kind |-> k, time |-> now]]
    ELSE call

Return(p) == call' = [call EXCEPT ![p] = NoCall]

\* Seeded fault: the lock is taken over instead of tried.
LockHistoryAlways(p) ==
    /\ call[p].at = "try_lock"
    /\ fail_hist_lock' = p
    /\ call' = [call EXCEPT ![p].at = "register"]
    /\ UNCHANGED <<now, congested, last_congested, fail_history, sm, updateVars,
                   detectVars, faults>>

LockHistory(p) ==
    /\ call[p].at = "try_lock"
    /\ fail_hist_lock = NoThread
    /\ fail_hist_lock' = p
    /\ call' = [call EXCEPT ![p].at = "register"]
    /\ UNCHANGED <<now, congested, last_congested, fail_history, sm, updateVars,
                   detectVars, faults>>

\* "failure info lost due to lock contention"
LoseEvent(p) ==
    /\ call[p].at = "try_lock"
    /\ fail_hist_lock # NoThread
    /\ Return(p)
    /\ UNCHANGED <<now, entryVars, sm, updateVars, detectVars, faults>>

\* Seeded fault: one report too few is enough.
RegisteredEarly(p, h) ==
    LET k == call[p].kind
    IN  /\ fail_history' = [fail_history EXCEPT ![k] = h]
        /\ \/ /\ ~congested[k] /\ Threshold(k) <= h.events + 1
              /\ call' = [call EXCEPT ![p].at = "test_and_set"]
              /\ UNCHANGED fail_hist_lock
           \/ /\ congested[k] \/ Threshold(k) > h.events + 1
              /\ Return(p)
              /\ fail_hist_lock' = NoThread
        /\ UNCHANGED <<congested, last_congested>>

\* h is what regist_event left; check_*_congested decides what follows.
Registered(p, h) ==
    LET k == call[p].kind
    IN  /\ fail_history' = [fail_history EXCEPT ![k] = h]
        /\ \/ /\ ~congested[k]
              /\ 0 <= Threshold(k) /\ Threshold(k) <= h.events
              /\ call' = [call EXCEPT ![p].at = "test_and_set"]
              /\ UNCHANGED fail_hist_lock
           \/ /\ congested[k] \/ Threshold(k) < 0 \/ Threshold(k) > h.events
              /\ Return(p)
              /\ fail_hist_lock' = NoThread
        /\ UNCHANGED <<congested, last_congested>>

Register(p) ==
    /\ call[p].at = "register"
    /\ Registered(p, RegistEvent(fail_history[call[p].kind], call[p].time))
    /\ UNCHANGED <<now, sm, updateVars, detectVars, faults>>

TestAndSet(p) ==
    LET k == call[p].kind
    IN  /\ call[p].at = "test_and_set"
        /\ \/ /\ congested[k]
              /\ Return(p)
              /\ fail_hist_lock' = NoThread
              /\ UNCHANGED congested
           \/ /\ ~congested[k]
              /\ congested' = [congested EXCEPT ![k] = TRUE]
              /\ call' = [call EXCEPT ![p].at = "stamp"]
              /\ UNCHANGED fail_hist_lock
        /\ UNCHANGED <<now, last_congested, fail_history, sm, updateVars, detectVars,
                       faults>>

Stamp(p) ==
    LET k == call[p].kind
    IN  /\ call[p].at = "stamp"
        /\ last_congested' = [last_congested EXCEPT ![k] = fail_history[k].last_event]
        /\ fail_hist_lock' = NoThread
        /\ Return(p)
        /\ UNCHANGED <<now, congested, fail_history, sm, updateVars, detectVars,
                       faults>>

CallStep(p) ==
    \/ LockHistory(p)
    \/ LoseEvent(p)
    \/ Register(p)
    \/ TestAndSet(p)
    \/ Stamp(p)

-----------------------------------------------------------------------------
(***************************************************************************)
(* The state machines: handle_congestion_control_lookup and what follows.  *)
(***************************************************************************)
At(s, pc) == sm[s].pc = pc /\ call[s].at = "none"
Goto(s, pc) == sm' = [sm EXCEPT ![s].pc = pc]
Done(s) == sm' = [sm EXCEPT ![s] = IdleSM]

\* The answer of the lookup: a forced retry uses the server all the same.
Decide(s, force, refused) ==
    IF refused /\ ~force THEN Done(s) ELSE sm' = [sm EXCEPT ![s] = [IdleSM EXCEPT !.pc = "through"]]

is_force_alive_congested == zone_upgrading \/ server_state = "UPGRADE"

\* leader_newer: a strong read of a replaying leader whose location is
\* younger than the entry's last revalidation; the server is not taken as dead.
ReadDead(s, force, leader_newer) ==
    LET dead == congested["dead"] /\ ~(leader_newer /\ ~force)
    IN  /\ At(s, "idle")
        /\ leader_newer => server_state = "REPLAY"
        /\ \/ /\ s \in MysqlSMs /\ congested["detect"]
              /\ ip_set' = TRUE
              /\ Decide(s, force, TRUE)
           \/ /\ s \in RpcSMs \/ ~congested["detect"]
              /\ UNCHANGED ip_set
              /\ IF dead \/ is_force_alive_congested
                 THEN Decide(s, force, TRUE)
                 ELSE sm' = [sm EXCEPT ![s] = [pc |-> "alive", updated |-> FALSE, force |-> force,
                                               detect |-> congested["detect"]]]
        /\ UNCHANGED <<now, entryVars, call, updateVars, alive_addr_set,
                       detect_fail_cnt, probes, faults>>

ReadAlive(s) ==
    /\ At(s, "alive")
    /\ IF congested["alive"] THEN Goto(s, "retry") ELSE Decide(s, sm[s].force, sm[s].detect)
    /\ UNCHANGED <<now, entryVars, call, updateVars, detectVars, faults>>

\* Seeded fault: the retry interval is measured from now on.
alive_never_retry == FALSE

alive_need_retry ==
    now - fail_history["alive"].last_event >= config.retry_interval_sec

\* The connection is let through, or with detection on a probe is asked for;
\* either way set_alive_failed_at "expands the retry interval" first.
Retry(s) ==
    /\ At(s, "retry")
    /\ alive_need_retry
    /\ call' = SetFailedAt(s, "alive")
    /\ IF s \in MysqlSMs /\ DetectMode
       THEN Goto(s, "ask")
       ELSE Decide(s, sm[s].force, sm[s].detect)
    /\ UNCHANGED <<now, entryVars, updateVars, detectVars, faults>>

Refuse(s) ==
    /\ At(s, "retry")
    /\ ~alive_need_retry
    /\ Decide(s, sm[s].force, TRUE)
    /\ UNCHANGED <<now, entryVars, call, updateVars, detectVars, faults>>

AskProbe(s) ==
    /\ At(s, "ask")
    /\ alive_addr_set' = TRUE
    /\ Decide(s, sm[s].force, TRUE)
    /\ UNCHANGED <<now, entryVars, call, updateVars, ip_set, detect_fail_cnt, probes,
                   faults>>

\* set_alive_failed: a MySQL connection reports once.
MysqlFail(s) ==
    /\ s \in MysqlSMs /\ At(s, "through")
    /\ Fault
    /\ call' = IF sm[s].updated THEN call ELSE SetFailedAt(s, "alive")
    /\ sm' = [sm EXCEPT ![s].updated = TRUE]
    /\ UNCHANGED <<now, entryVars, updateVars, detectVars>>

\* The connection goes on with another server, or ends without completing.
MysqlDrop(s) ==
    /\ s \in MysqlSMs /\ At(s, "through")
    /\ now <= FailUntil
    /\ Done(s)
    /\ UNCHANGED <<now, entryVars, call, updateVars, detectVars, faults>>

\* Seeded fault: a completed transaction takes the server off both lists.
MysqlCompleteFreesDead(s) ==
    /\ s \in MysqlSMs /\ At(s, "through")
    /\ congested' = [congested EXCEPT !["alive"] = FALSE, !["dead"] = FALSE]
    /\ Done(s)
    /\ UNCHANGED <<now, last_congested, fail_history, fail_hist_lock, call, updateVars,
                   detectVars, faults>>

\* The server has answered (set_detect_server_info) and the transaction
\* completes (reset_congestion_entry).
MysqlComplete(s) ==
    /\ s \in MysqlSMs /\ At(s, "through")
    /\ congested' = IF sm[s].updated THEN congested
                    ELSE [congested EXCEPT !["alive"] = FALSE]
    /\ detect_fail_cnt' = IF DetectMode THEN 0 ELSE detect_fail_cnt
    /\ Done(s)
    /\ UNCHANGED <<now, last_congested, fail_history, fail_hist_lock, call, updateVars,
                   ip_set, alive_addr_set, probes, faults>>

\* The client goes away; if the connect had taken long enough by then,
\* update_congestion_entry reports the server first.
ClientAbort(s, slow) ==
    /\ s \in MysqlSMs /\ At(s, "through")
    /\ Fault
    /\ call' = IF slow /\ ~sm[s].updated THEN SetFailedAt(s, "alive") ELSE call
    /\ sm' = [sm EXCEPT ![s].pc = "abort", ![s].updated = @ \/ slow]
    /\ UNCHANGED <<now, entryVars, updateVars, detectVars>>

\* Unless the client said COM_QUIT, its leaving is feedback on the server.
ReportAbort(s, quit) ==
    /\ At(s, "abort")
    /\ call' = IF quit THEN call ELSE SetFailedAt(s, "client_feedback")
    /\ IF quit THEN Done(s) ELSE Goto(s, "feedback")
    /\ UNCHANGED <<now, entryVars, updateVars, detectVars, faults>>

ClientFeedback(s) ==
    /\ At(s, "feedback")
    /\ alive_addr_set' = (alive_addr_set \/ congested["client_feedback"])
    /\ Done(s)
    /\ UNCHANGED <<now, entryVars, call, updateVars, ip_set, detect_fail_cnt, probes,
                   faults>>

\* An RPC request whose server failed reports it on the dead list.
RpcFail(s) ==
    /\ s \in RpcSMs /\ At(s, "through")
    /\ Fault
    /\ call' = SetFailedAt(s, "dead")
    /\ Done(s)
    /\ UNCHANGED <<now, entryVars, updateVars, detectVars>>

\* An RPC request that is answered leaves the entry alone.
RpcComplete(s) ==
    /\ s \in RpcSMs /\ At(s, "through")
    /\ Done(s)
    /\ UNCHANGED <<now, entryVars, call, updateVars, detectVars, faults>>

SMStep(s) ==
    \/ CallStep(s)
    \/ \E force, leader_newer \in BOOLEAN : ReadDead(s, force, leader_newer)
    \/ ReadAlive(s)
    \/ Retry(s)
    \/ Refuse(s)
    \/ AskProbe(s)
    \/ MysqlFail(s)
    \/ MysqlDrop(s)
    \/ MysqlComplete(s)
    \/ \E slow \in BOOLEAN : ClientAbort(s, slow)
    \/ \E quit \in BOOLEAN : ReportAbort(s, quit)
    \/ ClientFeedback(s)
    \/ RpcFail(s)
    \/ RpcComplete(s)

-----------------------------------------------------------------------------
(***************************************************************************)
(* The holder of the bucket mutex.                                         *)
(***************************************************************************)
UpdaterFree == program = <<>> /\ call[Updater].at = "none"

\* What revalidate_server does to an existing entry, by reported state.
RevalidateProgram ==
    [ACTIVE           |-> <<Op("check_and_set_alive", "alive", 0)>>,
     INACTIVE         |-> <<Op("set", "dead", 0)>>,
     REPLAY           |-> <<Op("set", "dead", 0)>>,
     ACTIVE_CONGESTED |-> <<Op("free", "dead", 0), Op("set", "alive", 0)>>,
     DETECT_ALIVE     |-> <<Op("free", "detect", 0), Op("free", "alive", 0)>>,
     DETECT_DEAD      |-> <<Op("set", "detect", 0)>>,
     DELETING         |-> <<>>,
     UPGRADE          |-> <<>>]

RevalidateServer(state) ==
    /\ UpdaterFree
    /\ server_state' = state
    /\ program' = RevalidateProgram[state]

\* do_update_server: only a changed state is passed on, or ACTIVE for a
\* server that is in ip_set_.
Refresh(state) ==
    /\ RevalidateServer(state)
    /\ \/ state # last_state /\ Fault
       \/ state = last_state /\ state = "ACTIVE" /\ ip_set /\ UNCHANGED faults
    /\ last_state' = state
    /\ UNCHANGED <<now, entryVars, call, sm, config, zone_upgrading, detectVars>>

\* schedule_detect_server_state, mode 1: which servers are probed.
ProbeDue ==
    \/ ip_set \/ alive_addr_set \/ detect_fail_cnt > 0
    \/ \E s \in MysqlSMs : sm[s].pc = "through"

ScheduleProbe ==
    /\ DetectMode /\ ProbeDue
    /\ probes < MaxProbes
    /\ probes' = probes + 1
    /\ UNCHANGED <<now, entryVars, call, sm, updateVars, ip_set, alive_addr_set,
                   detect_fail_cnt, faults>>

\* handle_client_resp with a response.
ProbeAlive ==
    /\ probes > 0
    /\ probes' = probes - 1
    /\ detect_fail_cnt' = 0 /\ alive_addr_set' = FALSE /\ ip_set' = FALSE
    /\ RevalidateServer("DETECT_ALIVE")
    /\ UNCHANGED <<now, entryVars, call, sm, config, zone_upgrading, last_state, faults>>

\* Seeded fault: the dead server is not put into ip_set_.
ProbeDeadForgets ==
    /\ probes > 0 /\ now <= FailUntil
    /\ probes' = probes - 1
    /\ detect_fail_cnt + 1 >= DetectFailThreshold
    /\ detect_fail_cnt' = 0
    /\ RevalidateServer("DETECT_DEAD")
    /\ UNCHANGED <<now, entryVars, call, sm, config, zone_upgrading, last_state,
                   ip_set, alive_addr_set, faults>>

\* handle_client_resp without one: the probe failed or timed out.
ProbeDead ==
    /\ probes > 0 /\ now <= FailUntil
    /\ probes' = probes - 1
    /\ \/ /\ detect_fail_cnt + 1 >= DetectFailThreshold
          /\ detect_fail_cnt' = 0
          /\ ip_set' = TRUE
          /\ RevalidateServer("DETECT_DEAD")
       \/ /\ detect_fail_cnt + 1 < DetectFailThreshold
          /\ detect_fail_cnt' = detect_fail_cnt + 1
          /\ UNCHANGED <<ip_set, server_state, program>>
    /\ UNCHANGED <<now, entryVars, call, sm, config, zone_upgrading, last_state,
                   alive_addr_set, faults>>

\* apply_new_config; reset_fail_history takes no history lock.
ApplyNewConfig(c) ==
    /\ UpdaterFree
    /\ c # config /\ Fault
    /\ config' = c
    /\ program' =
         IF c.fail_window_sec # config.fail_window_sec
         THEN <<Op("reset", "dead", 0), Op("free", "dead", 0),
                Op("reset", "alive", 0), Op("free", "alive", 0),
                Op("reset", "client_feedback", 0)>>
         ELSE <<Op("recheck", "dead", config.conn_failure_threshold),
                Op("recheck", "alive", config.alive_failure_threshold)>>
    /\ UNCHANGED <<now, entryVars, call, sm, server_state, zone_upgrading, last_state,
                   detectVars>>

\* apply_new_zone_state: only whether the zone is being upgraded is read.
ApplyNewZoneState(upgrade) ==
    /\ UpdaterFree
    /\ upgrade # zone_upgrading /\ Fault
    /\ zone_upgrading' = upgrade
    /\ UNCHANGED <<now, entryVars, call, sm, config, server_state, program, last_state,
                   detectVars>>

\* The next instruction of the program, with nothing left to call.
AtOp(o) == program # <<>> /\ Head(program).op = o /\ call[Updater].at = "none"

NeedUpdate(k) ==
    now - last_congested[k] >= config.min_keep_congestion_interval_sec

FreeAll == <<Op("free", "dead", 0), Op("free", "alive", 0)>>
Demote  == <<Op("free", "dead", 0), Op("set", "alive", 0)>>

CheckAndSetAlive ==
    /\ AtOp("check_and_set_alive")
    /\ \/ /\ congested["dead"] /\ NeedUpdate("dead")
          /\ program' = FreeAll \o Tail(program)
          /\ UNCHANGED call
       \/ /\ congested["dead"] /\ ~NeedUpdate("dead")
          /\ call' = SetFailedAt(Updater, "alive")
          /\ program' = Demote \o Tail(program)
       \/ /\ ~congested["dead"]
          /\ program' = IF congested["alive"] /\ NeedUpdate("alive")
                        THEN FreeAll \o Tail(program)
                        ELSE Tail(program)
          /\ UNCHANGED call
    /\ UNCHANGED <<now, entryVars, sm, config, server_state, zone_upgrading, last_state,
                   detectVars, faults>>

\* set_dead_congested, set_alive_congested, set_detect_congested.
SetCongested ==
    LET k == Head(program).kind
    IN  /\ AtOp("set")
        /\ congested' = [congested EXCEPT ![k] = TRUE]
        /\ IF congested[k]
           THEN program' = Tail(program)
           ELSE program' = <<Op("stamp", k, 0)>> \o Tail(program)
        /\ UNCHANGED <<now, last_congested, fail_history, fail_hist_lock, call, sm, config,
                       server_state, zone_upgrading, last_state, detectVars, faults>>

StampCongested ==
    LET k == Head(program).kind
    IN  /\ AtOp("stamp")
        /\ last_congested' = [last_congested EXCEPT ![k] = now]
        /\ program' = Tail(program)
        /\ UNCHANGED <<now, congested, fail_history, fail_hist_lock, call, sm, config,
                       server_state, zone_upgrading, last_state, detectVars, faults>>

\* set_dead_congested_free, set_alive_congested_free, set_detect_congested_free.
SetCongestedFree ==
    /\ AtOp("free")
    /\ congested' = [congested EXCEPT ![Head(program).kind] = FALSE]
    /\ program' = Tail(program)
    /\ UNCHANGED <<now, last_congested, fail_history, fail_hist_lock, call, sm, config,
                   server_state, zone_upgrading, last_state, detectVars, faults>>

\* One history of reset_fail_history.
ResetFailHistory ==
    LET k == Head(program).kind
    IN  /\ AtOp("reset")
        /\ fail_history' = [fail_history EXCEPT ![k] = InitHistory(config.fail_window_sec)]
        /\ program' = Tail(program)
        /\ UNCHANGED <<now, congested, last_congested, fail_hist_lock, call, sm, config,
                       server_state, zone_upgrading, last_state, detectVars, faults>>

\* It takes no lock.  A report that is being registered at that moment reads
\* each field before or after the reset stores it, and its own store of each
\* field comes before or after the reset's.
Torn(h, fresh, fields) == [f \in DOMAIN fresh |-> IF f \in fields THEN h[f] ELSE fresh[f]]

TornReset(p, read, stored) ==
    LET k     == Head(program).kind
        fresh == InitHistory(config.fail_window_sec)
        seen  == Torn(fail_history[k], fresh, read)
    IN  /\ AtOp("reset")
        /\ call[p].at = "register" /\ call[p].kind = k
        /\ Registered(p, Torn(RegistEvent(seen, call[p].time), fresh, stored))
        /\ program' = Tail(program)
        /\ UNCHANGED <<now, sm, config, server_state, zone_upgrading, last_state,
                       detectVars, faults>>

\* A changed threshold, in apply_new_config.
RecheckThreshold ==
    LET k   == Head(program).kind
        old == Head(program).old
        new == Threshold(k)
        op  == IF new < 0 \/ old < new THEN <<Op("free", k, 0)>>
               ELSE IF old > new /\ fail_history[k].events >= new THEN <<Op("set", k, 0)>>
               ELSE <<>>
    IN  /\ AtOp("recheck")
        /\ program' = op \o Tail(program)
        /\ UNCHANGED <<now, entryVars, call, sm, config, server_state, zone_upgrading,
                       last_state, detectVars, faults>>

UpdaterStep ==
    \/ CallStep(Updater)
    \/ CheckAndSetAlive
    \/ SetCongested
    \/ StampCongested
    \/ SetCongestedFree
    \/ ResetFailHistory
    \/ \E p \in SMs : \E read, stored \in SUBSET {"start", "last_event", "cur_index", "events", "bins"} :
           TornReset(p, read, stored)
    \/ RecheckThreshold

UpdaterBegin ==
    \/ \E state \in RefreshStates : Refresh(state)
    \/ ScheduleProbe
    \/ ProbeAlive
    \/ ProbeDead
    \/ \E c \in Configs : ApplyNewConfig(c)
    \/ \E upgrade \in BOOLEAN : ApplyNewZoneState(upgrade)

-----------------------------------------------------------------------------
Next ==
    \/ Tick
    \/ \E s \in SMs : SMStep(s)
    \/ UpdaterStep
    \/ UpdaterBegin

Spec == Init /\ [][Next]_vars

(***************************************************************************)
(* Every thread keeps running, the clock advances, connections keep asking *)
(* for the server and the detection task runs periodically.  A probe's     *)
(* answer is queued on the bucket, so it is applied however often others   *)
(* hold the bucket mutex.                                                  *)
(***************************************************************************)
Fairness ==
    /\ WF_vars(Tick)
    /\ \A s \in SMs : WF_vars(SMStep(s))
    /\ WF_vars(UpdaterStep)
    /\ WF_vars(ScheduleProbe)
    /\ SF_vars(ProbeAlive)

FairSpec == Spec /\ Fairness

-----------------------------------------------------------------------------
Ops == [op : {"check_and_set_alive", "set", "stamp", "free", "reset", "recheck"},
        kind : Flags, old : Int]

ControlTypeOK ==
    /\ now \in Seconds
    /\ config \in Configs
    /\ server_state \in ServerStates /\ last_state \in ServerStates
    /\ zone_upgrading \in BOOLEAN
    /\ congested \in [Flags -> BOOLEAN]
    /\ fail_hist_lock \in Threads \cup {NoThread}
    /\ call \in [Threads -> [at : {"none", "try_lock", "register", "test_and_set", "stamp"},
                             kind : Hists, time : Nat]]
    /\ sm \in [SMs -> [pc : {"idle", "alive", "retry", "ask", "through", "abort", "feedback"},
                       updated : BOOLEAN, force : BOOLEAN, detect : BOOLEAN]]
    /\ program \in Seq(Ops)
    /\ ip_set \in BOOLEAN /\ alive_addr_set \in BOOLEAN
    /\ detect_fail_cnt \in Nat /\ probes \in 0 .. MaxProbes
    /\ faults \in 0 .. MaxFaults

TypeOK ==
    /\ ControlTypeOK
    /\ last_congested \in [Flags -> Nat]
    /\ fail_history \in [Hists -> Histories]

(***************************************************************************)
(* The try-lock of set_*_failed_at protects a history: the thread that has *)
(* registered an event and not yet finished with it is the holder of       *)
(* fail_hist_lock_, and whoever holds the lock is inside such a call, so   *)
(* no two threads ever update an entry's histories at the same time and no *)
(* early return leaves the lock behind.                                    *)
(***************************************************************************)
HistoryLockHeld ==
    \A p \in Threads :
        (fail_hist_lock = p) <=> (call[p].at \in {"register", "test_and_set", "stamp"})

(***************************************************************************)
(* A server that detection has blacklisted will be probed again: while     *)
(* detect_congested_ is up the server is in ip_set_, which is what         *)
(* schedule_detect_server_state looks at when nobody sends it requests, or *)
(* the holder of the bucket mutex is about to take the flag down.          *)
(***************************************************************************)
DetectedDeadIsProbed ==
    congested["detect"] =>
        \/ ip_set
        \/ \E i \in DOMAIN program : program[i].op = "free" /\ program[i].kind = "detect"

(***************************************************************************)
(* A server the cluster reports INACTIVE or REPLAY stays on the dead list  *)
(* until it reports something else: "dead_congested is only be controlled  *)
(* by server state refresh" (handle_server_failed).                        *)
(***************************************************************************)
DeadWhileInactive ==
    UpdaterFree /\ last_state \in {"INACTIVE", "REPLAY"} => congested["dead"]

(***************************************************************************)
(* A healthy server comes back: once the cluster keeps reporting it ACTIVE *)
(* and it answers, it leaves every list that makes                         *)
(* handle_congestion_control_lookup refuse it, and stays off them.         *)
(***************************************************************************)
Unlisted == ~congested["dead"] /\ ~congested["alive"] /\ ~congested["detect"]

HealthyServerReturns ==
    <>[](last_state = "ACTIVE") => <>[]Unlisted
=============================================================================
